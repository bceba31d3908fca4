--------------------------- MODULE ClientManager ---------------------------
(***************************************************************************)
(* The Telethon clients of the accounts (telegram/client_manager.py): one  *)
(* slot per account, filled on demand, emptied by the idle reaper, by the  *)
(* deletion of an account and by close_all, which a change of the API      *)
(* credentials runs first.  Everything happens on the one event loop of    *)
(* NetworkRuntime: a step here is what runs between two awaits.            *)
(*                                                                         *)
(* Clients are numbered in the order of their creation; the credentials    *)
(* are the number of the change that set them.  The clock is one bit per   *)
(* slot: whether idle_timeout has passed since last_used.                  *)
(***************************************************************************)
EXTENDS FiniteSets, Naturals

CONSTANTS
    Accounts,    \* accounts with a session
    NoAccount,   \* the account of a coroutine at rest
    Users,       \* coroutines that call Telegram: auth, workflows, executors, scans
    JobUsers,    \* those of them that run on behalf of a job
    Overlap,     \* may two coroutines work for one account at a time?
    LongCalls,   \* may a job hold its client longer than idle_timeout (a scan does)?
    MaxClients, MaxUpdates, MaxDeletes, MaxDrops, MaxFaults  \* bounds of the exploration

ASSUME ClientAssumption ==
    /\ NoAccount \notin Accounts
    /\ JobUsers \subseteq Users
    /\ {Overlap, LongCalls} \subseteq BOOLEAN
    /\ {MaxClients, MaxUpdates, MaxDeletes, MaxDrops, MaxFaults} \subseteq Nat

NoClient  == 0
Clients   == 1..MaxClients

(* The coroutines that disconnect clients: the reaper task, the command    *)
(* settings.update (close_all, then update_credentials), account.delete.   *)
Disconnectors == {"reaper", "settings", "delete"}

VARIABLES
    clients,      \* _clients: the client in the slot of an account
    stale,        \* slots whose last_used is idle_timeout ago
    credentials,  \* api_id and api_hash
    born,         \* clients created so far
    conn,         \* the connection of a client
    home, madeWith, \* its account and credentials
    ending,       \* clients whose disconnect() has been called and goes on
    user,         \* what a coroutine is doing
    task,         \* what a disconnecting coroutine is doing
    updates, deletes, drops, faults  \* bounded events so far

slots  == <<clients, stale>>
made   == <<born, home, madeWith>>
events == <<updates, deletes, drops, faults>>
vars   == <<slots, credentials, made, conn, ending, user, task, events>>

Resting == [pc |-> "idle", account |-> NoAccount, client |-> NoClient]
Off     == [pc |-> "off", todo |-> {}, client |-> NoClient]

TypeOK ==
    /\ clients \in [Accounts -> Clients \cup {NoClient}]
    /\ stale \subseteq {a \in Accounts : clients[a] # NoClient}
    /\ credentials \in 0..MaxUpdates
    /\ born \in 0..MaxClients
    /\ conn \in [Clients -> {"unborn", "new", "up", "down"}]
    /\ home \in [Clients -> Accounts \cup {NoAccount}]
    /\ madeWith \in [Clients -> 0..MaxUpdates]
    /\ ending \subseteq Clients
    /\ user \in [Users -> [pc      : {"idle", "connecting", "reconnecting", "using"},
                           account : Accounts \cup {NoAccount},
                           client  : Clients \cup {NoClient}]]
    /\ task \in [Disconnectors -> [pc     : {"off", "done", "sleeping", "busy", "cancelling"},
                                   todo   : SUBSET Accounts,
                                   client : Clients \cup {NoClient}]]
    /\ <<updates, deletes, drops, faults>>
           \in (0..MaxUpdates) \X (0..MaxDeletes) \X (0..MaxDrops) \X (0..MaxFaults)

Init ==
    /\ clients = [a \in Accounts |-> NoClient]
    /\ stale = {}
    /\ credentials = 0
    /\ born = 0
    /\ conn = [c \in Clients |-> "unborn"]
    /\ home = [c \in Clients |-> NoAccount]
    /\ madeWith = [c \in Clients |-> 0]
    /\ ending = {}
    /\ user = [u \in Users |-> Resting]
    /\ task = [d \in Disconnectors |-> Off]
    /\ updates = 0 /\ deletes = 0 /\ drops = 0 /\ faults = 0
-----------------------------------------------------------------------------
(* get.  Every call makes sure that a reaper runs.                         *)

Working(u) == user[u].pc # "idle"
WorksFor(u, a) == Working(u) /\ user[u].account = a

EnsureReaper ==
    task' = IF task["reaper"].pc \in {"off", "done"}
            THEN [task EXCEPT !["reaper"].pc = "sleeping"] ELSE task

MayAsk(u, a) ==
    /\ ~Working(u)
    /\ Overlap \/ \A v \in Users : ~WorksFor(v, a)

(* Mutant of GetHit: last_used is not renewed. *)
GetHitUnseen(u, a) ==
    /\ MayAsk(u, a)
    /\ clients[a] # NoClient
    /\ EnsureReaper
    /\ user' = [user EXCEPT ![u] =
                   [pc      |-> IF conn[clients[a]] = "up" THEN "using" ELSE "reconnecting",
                    account |-> a,
                    client  |-> clients[a]]]
    /\ UNCHANGED <<slots, credentials, made, conn, ending, events>>

(* The slot is filled: its client is handed out, after a reconnection if   *)
(* it has lost its connection.                                             *)
GetHit(u, a) ==
    /\ MayAsk(u, a)
    /\ clients[a] # NoClient
    /\ EnsureReaper
    /\ stale' = stale \ {a}
    /\ user' = [user EXCEPT ![u] =
                   [pc      |-> IF conn[clients[a]] = "up" THEN "using" ELSE "reconnecting",
                    account |-> a,
                    client  |-> clients[a]]]
    /\ UNCHANGED <<clients, credentials, made, conn, ending, events>>

(* The slot is empty: a client is made with the credentials of now, and    *)
(* the slot stays empty until the client is connected.                     *)
GetMiss(u, a) ==
    /\ MayAsk(u, a)
    /\ clients[a] = NoClient
    /\ born < MaxClients
    /\ EnsureReaper
    /\ LET c == born + 1
       IN  /\ born' = c
           /\ conn' = [conn EXCEPT ![c] = "new"]
           /\ home' = [home EXCEPT ![c] = a]
           /\ madeWith' = [madeWith EXCEPT ![c] = credentials]
           /\ user' = [user EXCEPT ![u] = [pc |-> "connecting", account |-> a, client |-> c]]
    /\ UNCHANGED <<slots, credentials, ending, events>>

(* Mutant of Connected: the client is not put into the slot. *)
ConnectedUnstored(u) ==
    /\ user[u].pc = "connecting"
    /\ conn' = [conn EXCEPT ![user[u].client] = "up"]
    /\ user' = [user EXCEPT ![u].pc = "using"]
    /\ UNCHANGED <<slots, credentials, made, ending, task, events>>

Connected(u) ==
    /\ user[u].pc = "connecting"
    /\ conn' = [conn EXCEPT ![user[u].client] = "up"]
    /\ clients' = [clients EXCEPT ![user[u].account] = user[u].client]
    /\ stale' = stale \ {user[u].account}
    /\ user' = [user EXCEPT ![u].pc = "using"]
    /\ UNCHANGED <<credentials, made, ending, task, events>>

Reconnected(u) ==
    /\ user[u].pc = "reconnecting"
    /\ conn' = [conn EXCEPT ![user[u].client] = "up"]
    /\ user' = [user EXCEPT ![u].pc = "using"]
    /\ UNCHANGED <<slots, credentials, made, ending, task, events>>

(* connect() raises out of get; a slot that was there stays. *)
ConnectFails(u) ==
    /\ user[u].pc \in {"connecting", "reconnecting"}
    /\ faults < MaxFaults
    /\ faults' = faults + 1
    /\ conn' = [conn EXCEPT ![user[u].client] = "down"]
    /\ user' = [user EXCEPT ![u] = Resting]
    /\ UNCHANGED <<slots, credentials, made, ending, task, updates, deletes, drops>>

(* The request, or the iteration over pages, is over, with or without an error. *)
CallEnds(u) ==
    /\ user[u].pc = "using"
    /\ user' = [user EXCEPT ![u] = Resting]
    /\ UNCHANGED <<slots, credentials, made, conn, ending, task, events>>

(* The connection of a client that is in its slot breaks down. *)
ConnectionLost(a) ==
    /\ clients[a] # NoClient /\ conn[clients[a]] = "up"
    /\ drops < MaxDrops
    /\ drops' = drops + 1
    /\ conn' = [conn EXCEPT ![clients[a]] = "down"]
    /\ UNCHANGED <<slots, credentials, made, ending, user, task, updates, deletes, faults>>

(* idle_timeout passes without a get; only a job may hold its client as long. *)
TimeOut(a) ==
    /\ clients[a] # NoClient /\ a \notin stale
    /\ \A u \in Users : WorksFor(u, a) => LongCalls /\ u \in JobUsers /\ user[u].pc = "using"
    /\ stale' = stale \cup {a}
    /\ UNCHANGED <<clients, credentials, made, conn, ending, user, task, events>>
-----------------------------------------------------------------------------
(* disconnect and its three callers.                                       *)

(* Mutant of Finish: _idle_reaper has no loop. *)
FinishForGood(d) ==
    /\ task' = [task EXCEPT ![d] = Off]
    /\ credentials' = IF d = "settings" /\ \A a \in Accounts : clients[a] = NoClient
                        THEN updates ELSE credentials
    /\ UNCHANGED <<slots, ending>>

(* Mutant of Finish: update_credentials does not look at the slots. *)
FinishUnchecked(d) ==
    /\ task' = [task EXCEPT ![d] = IF d = "reaper" THEN [Off EXCEPT !.pc = "sleeping"] ELSE Off]
    /\ credentials' = IF d = "settings" THEN updates ELSE credentials
    /\ UNCHANGED <<slots, ending>>

(* What follows the last disconnect: the reaper sleeps again,              *)
(* update_credentials raises if a slot has been filled meanwhile.          *)
Finish(d) ==
    /\ task' = [task EXCEPT ![d] = IF d = "reaper" THEN [Off EXCEPT !.pc = "sleeping"] ELSE Off]
    /\ credentials' = IF d = "settings" /\ \A a \in Accounts : clients[a] = NoClient
                        THEN updates ELSE credentials
    /\ UNCHANGED <<slots, ending>>

(* A disconnecting coroutine runs to its next await: accounts without a    *)
(* slot are passed over, the slot of the next one is emptied and the end   *)
(* of its connection is awaited.                                           *)
Proceed(d, todo) ==
    LET filled == {a \in todo : clients[a] # NoClient}
    IN  \/ \E a \in filled, passed \in SUBSET (todo \ filled) :
              /\ clients' = [clients EXCEPT ![a] = NoClient]
              /\ stale' = stale \ {a}
              /\ ending' = ending \cup {clients[a]}
              /\ task' = [task EXCEPT ![d] = [pc     |-> "busy",
                                              todo   |-> todo \ ({a} \cup passed),
                                              client |-> clients[a]]]
              /\ UNCHANGED credentials
        \/ filled = {} /\ Finish(d)

Resumed(d) ==
    /\ task[d].pc = "busy" /\ task[d].client = NoClient
    /\ Proceed(d, task[d].todo)
    /\ UNCHANGED <<made, conn, user, events>>

(* Telethon shields a disconnection: it goes on when its caller is cancelled. *)
Closed(c) ==
    /\ c \in ending
    /\ ending' = ending \ {c}
    /\ conn' = [conn EXCEPT ![c] = "down"]

Disconnected(c) ==
    /\ Closed(c)
    /\ task' = [d \in Disconnectors |->
                   IF task[d].client = c THEN [task[d] EXCEPT !.client = NoClient] ELSE task[d]]
    /\ UNCHANGED <<slots, credentials, made, user, events>>

(* disconnect() raises into its caller, which ends: the reaper too.  The   *)
(* connection is taken for closed all the same.                            *)
DisconnectFails(c) ==
    /\ Closed(c)
    /\ faults < MaxFaults
    /\ faults' = faults + 1
    /\ task' = [d \in Disconnectors |->
                   IF task[d].client # c THEN task[d]
                   ELSE IF d = "reaper" THEN [Off EXCEPT !.pc = "done"] ELSE Off]
    /\ UNCHANGED <<slots, credentials, made, user, updates, deletes, drops>>

(* _idle_reaper wakes up and takes the list of the stale accounts. *)
ReaperWakes ==
    /\ task["reaper"].pc = "sleeping"
    /\ stale # {}
    /\ Proceed("reaper", stale)
    /\ UNCHANGED <<made, conn, user, events>>

(* settings.update is refused while a job is at work; close_all forgets    *)
(* the reaper and awaits its cancellation ...                              *)
CloseAll ==
    /\ task["settings"].pc = "off"
    /\ updates < MaxUpdates
    /\ \A u \in JobUsers : ~Working(u)
    /\ updates' = updates + 1
    /\ task' = [task EXCEPT !["reaper"] = Off, !["settings"].pc = "cancelling"]
    /\ UNCHANGED <<slots, credentials, made, conn, ending, user, deletes, drops, faults>>

(* ... and disconnects the accounts that have a slot by then. *)
ReaperCancelled ==
    /\ task["settings"].pc = "cancelling"
    /\ Proceed("settings", {a \in Accounts : clients[a] # NoClient})
    /\ UNCHANGED <<made, conn, user, events>>

(* account.delete is refused while a job of the account is at work. *)
DeleteBegins(a) ==
    /\ task["delete"].pc = "off"
    /\ deletes < MaxDeletes
    /\ \A u \in JobUsers : ~WorksFor(u, a)
    /\ deletes' = deletes + 1
    /\ Proceed("delete", {a})
    /\ UNCHANGED <<made, conn, user, updates, drops, faults>>
-----------------------------------------------------------------------------
Get       == \E u \in Users, a \in Accounts : GetHit(u, a) \/ GetMiss(u, a)
Answer(u) == Connected(u) \/ Reconnected(u) \/ ConnectFails(u) \/ CallEnds(u)
World     == \E a \in Accounts : ConnectionLost(a) \/ TimeOut(a)
Closing   == \E c \in Clients : Disconnected(c) \/ DisconnectFails(c)
Commands  == CloseAll \/ \E a \in Accounts : DeleteBegins(a)

Next ==
    \/ Get
    \/ \E u \in Users : Answer(u)
    \/ World
    \/ \E d \in Disconnectors : Resumed(d)
    \/ Closing
    \/ ReaperWakes \/ ReaperCancelled
    \/ Commands

Spec == Init /\ [][Next]_vars

(* The event loop runs what is ready, a sleep ends, and so does a          *)
(* disconnection.  Nothing makes a coroutine call get, or end its call.    *)
Fairness ==
    /\ WF_vars(ReaperWakes) /\ WF_vars(ReaperCancelled)
    /\ \A d \in Disconnectors : WF_vars(Resumed(d))
    /\ WF_vars(Closing)

FairSpec == Spec /\ Fairness
-----------------------------------------------------------------------------
(* A client that somebody has connected and nobody is disconnecting. *)
Live(c) == conn[c] = "up" /\ c \notin ending

(* "Telegram clients are reused per active account" (LOCKED_SPEC.md): an   *)
(* account never has two live clients, which would share a session file.   *)
(* A reconnection may come after the client has lost its slot.             *)
OneClient ==
    drops = 0 => \A a \in Accounts : Cardinality({c \in Clients : Live(c) /\ home[c] = a}) <= 1

(* A live client can be found: disconnect and close_all reach only what is *)
(* in a slot.                                                              *)
NoneLeaks == drops = 0 => \A c \in Clients : Live(c) => clients[home[c]] = c

(* The slots and the live clients are the same.                            *)
SlotsAreClients == TypeOK /\ OneClient /\ NoneLeaks

(* The reaper that wakes up takes no client away from a coroutine that     *)
(* works with it, a job that holds its client for long excepted.           *)
ReaperSparesUsed ==
    [][\A u \in Users \ JobUsers :
          user[u].pc = "using" /\ task["reaper"].pc = "sleeping" /\ task'["reaper"].pc = "busy"
              => user[u].client # task'["reaper"].client]_vars

(* "Disconnect active Telegram clients before changing API credentials":   *)
(* at the moment of the change no client of the old ones is live.  One     *)
(* that is still being connected takes its slot afterwards all the same.   *)
ChangeLeavesNoClient ==
    [][credentials' # credentials /\ drops = 0 => \A c \in Clients : ~Live(c)]_vars

(* An idle slot does not stay: it is asked for again or disconnected,      *)
(* unless close_all or a failing disconnection has ended the reaper.       *)
IdleIsReaped ==
    \A a \in Accounts : a \in stale ~> (a \notin stale \/ updates > 0 \/ faults > 0)
=============================================================================
