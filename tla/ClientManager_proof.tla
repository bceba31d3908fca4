------------------------- MODULE ClientManager_proof -------------------------
(***************************************************************************)
(* Theorems about ClientManager, for any accounts and coroutines.  That    *)
(* the reaper takes no client away from its user holds whoever else works  *)
(* for the account.  That the slots are the live clients is proved for     *)
(* coroutines that do not work for one account at a time (~Overlap).       *)
(***************************************************************************)
EXTENDS ClientManager, FiniteSetTheorems, TLAPS

(* A client has an account, the one whose slot it fills and whose calls it *)
(* serves, and a slot in use is not stale unless a job uses it.            *)
Housed ==
    /\ \A c \in Clients : (conn[c] # "unborn" <=> c <= born) /\ (c <= born => home[c] \in Accounts)
    /\ \A a \in Accounts : clients[a] # NoClient => clients[a] <= born /\ home[clients[a]] = a
    /\ \A c \in ending : c <= born
    /\ \A u \in Users : Working(u) =>
          /\ user[u].account \in Accounts
          /\ user[u].client \in Clients /\ user[u].client <= born
          /\ home[user[u].client] = user[u].account
    /\ \A u \in Users \ JobUsers : Working(u) => user[u].account \notin stale

HousedInv == TypeOK /\ Housed

(* With one coroutine per account at a time: a client that is being        *)
(* connected is new and its slot empty, one that has a slot is not being   *)
(* disconnected, and while no connection breaks down the slots are up and  *)
(* hold every live client.                                                 *)
Exclusive ==
    /\ \A u, v \in Users : Working(u) /\ Working(v) /\ user[u].account = user[v].account => u = v
    /\ \A u \in Users : user[u].pc = "connecting" =>
          clients[user[u].account] = NoClient /\ conn[user[u].client] = "new"
    /\ \A a \in Accounts : clients[a] # NoClient =>
          conn[clients[a]] \in {"up", "down"} /\ clients[a] \notin ending
    /\ \A c \in ending : conn[c] \in {"up", "down"}
    /\ drops = 0 =>
          /\ \A u \in Users : user[u].pc # "reconnecting"
          /\ \A a \in Accounts : clients[a] # NoClient => conn[clients[a]] = "up"
          /\ \A c \in Clients : Live(c) => clients[home[c]] = c

SlotsInv == HousedInv /\ Exclusive

-----------------------------------------------------------------------------
(* Types. *)

UserStates == [pc      : {"idle", "connecting", "reconnecting", "using"},
               account : Accounts \cup {NoAccount},
               client  : Clients \cup {NoClient}]
TaskStates == [pc     : {"off", "done", "sleeping", "busy", "cancelling"},
               todo   : SUBSET Accounts,
               client : Clients \cup {NoClient}]

(* The states of a coroutine at rest, and the numbers of the clients. *)
LEMMA Numbers ==
    /\ Resting \in UserStates /\ Off \in TaskStates
    /\ [Off EXCEPT !.pc = "sleeping"] \in TaskStates /\ [Off EXCEPT !.pc = "done"] \in TaskStates
    /\ NoClient \notin Clients /\ Clients \subseteq Nat
    /\ MaxClients \in Nat /\ MaxUpdates \in Nat /\ MaxDeletes \in Nat /\ MaxDrops \in Nat /\ MaxFaults \in Nat
BY ClientAssumption DEF Resting, Off, UserStates, TaskStates, Clients, NoClient

(* The initial state is of its type. *)
LEMMA TypeInit == Init => TypeOK
BY Numbers DEF Init, TypeOK, UserStates, TaskStates, Disconnectors

(* What a disconnecting coroutine does up to its next await keeps the types. *)
LEMMA ProceedTypes ==
    ASSUME TypeOK,
           NEW d \in Disconnectors, NEW todo \in SUBSET Accounts, Proceed(d, todo)
    PROVE  /\ clients' \in [Accounts -> Clients \cup {NoClient}]
           /\ stale' \subseteq {a \in Accounts : clients'[a] # NoClient}
           /\ ending' \subseteq Clients
           /\ task' \in [Disconnectors -> TaskStates]
           /\ credentials' \in 0..MaxUpdates
<1>0. task \in [Disconnectors -> TaskStates] /\ updates \in 0..MaxUpdates
  BY DEF TypeOK, TaskStates
<1>1. CASE \E a \in {b \in todo : clients[b] # NoClient},
              passed \in SUBSET (todo \ {b \in todo : clients[b] # NoClient}) :
              /\ clients' = [clients EXCEPT ![a] = NoClient]
              /\ stale' = stale \ {a}
              /\ ending' = ending \cup {clients[a]}
              /\ task' = [task EXCEPT ![d] = [pc     |-> "busy",
                                              todo   |-> todo \ ({a} \cup passed),
                                              client |-> clients[a]]]
              /\ UNCHANGED credentials
  <2>1. PICK a \in todo : /\ clients[a] # NoClient
                          /\ clients' = [clients EXCEPT ![a] = NoClient]
                          /\ stale' = stale \ {a}
                          /\ ending' = ending \cup {clients[a]}
                          /\ \E rest \in SUBSET Accounts :
                                task' = [task EXCEPT ![d] = [pc |-> "busy", todo |-> rest, client |-> clients[a]]]
                          /\ UNCHANGED credentials
    <3>1. PICK a \in {b \in todo : clients[b] # NoClient},
               passed \in SUBSET (todo \ {b \in todo : clients[b] # NoClient}) :
              /\ clients' = [clients EXCEPT ![a] = NoClient]
              /\ stale' = stale \ {a}
              /\ ending' = ending \cup {clients[a]}
              /\ task' = [task EXCEPT ![d] = [pc     |-> "busy",
                                              todo   |-> todo \ ({a} \cup passed),
                                              client |-> clients[a]]]
              /\ UNCHANGED credentials
      BY <1>1
    <3>2. todo \ ({a} \cup passed) \in SUBSET Accounts
      OBVIOUS
    <3>. QED  BY <3>1, <3>2
  <2>2. a \in Accounts /\ clients[a] \in Clients
    BY <2>1 DEF TypeOK
  <2>3. task' \in [Disconnectors -> TaskStates]
    BY <1>0, <2>1, <2>2 DEF TaskStates
  <2>. QED  BY <2>1, <2>2, <2>3 DEF TypeOK
<1>2. CASE Finish(d)
  <2>1. task' \in [Disconnectors -> TaskStates]
    BY <1>0, <1>2, Numbers DEF Finish
  <2>2. credentials' \in {updates, credentials}
    BY <1>2 DEF Finish
  <2>. QED  BY <1>0, <1>2, <2>1, <2>2 DEF Finish, TypeOK, slots
<1>. QED  BY <1>1, <1>2 DEF Proceed

(* The types are kept by get ... *)
LEMMA GetTypes ==
    ASSUME TypeOK, NEW u \in Users, NEW a \in Accounts, GetHit(u, a) \/ GetMiss(u, a)
    PROVE  TypeOK'
<1>0. task \in [Disconnectors -> TaskStates] /\ user \in [Users -> UserStates]
  BY DEF TypeOK, TaskStates, UserStates
<1>1. task' \in [Disconnectors -> TaskStates]
  <2>1. task' = [task EXCEPT !["reaper"].pc = "sleeping"] \/ task' = task
    BY DEF GetHit, GetMiss, EnsureReaper
  <2>. QED  BY <1>0, <2>1 DEF TaskStates
<1>2. CASE GetHit(u, a)
  <2>1. clients[a] \in Clients
    BY <1>2 DEF GetHit, TypeOK
  <2>2. \E r \in UserStates : user' = [user EXCEPT ![u] = r]
    <3>1. [pc      |-> IF conn[clients[a]] = "up" THEN "using" ELSE "reconnecting",
           account |-> a, client  |-> clients[a]] \in UserStates
      BY <2>1 DEF UserStates
    <3>. QED  BY <1>2, <3>1 DEF GetHit
  <2>3. user' \in [Users -> UserStates]
    BY <1>0, <2>2
  <2>4. stale' \subseteq stale /\ UNCHANGED <<clients, credentials, born, conn, home, madeWith, ending, events>>
    BY <1>2 DEF GetHit, made
  <2>. QED  BY <1>1, <2>3, <2>4 DEF TypeOK, TaskStates, UserStates, events
<1>3. CASE GetMiss(u, a)
  <2>1. born + 1 \in Clients /\ born + 1 \in 0..MaxClients
    BY <1>3, Numbers DEF GetMiss, TypeOK, Clients
  <2>2. /\ born' = born + 1 /\ conn' = [conn EXCEPT ![born + 1] = "new"]
        /\ home' = [home EXCEPT ![born + 1] = a]
        /\ madeWith' = [madeWith EXCEPT ![born + 1] = credentials]
        /\ user' = [user EXCEPT ![u] = [pc |-> "connecting", account |-> a, client |-> born + 1]]
        /\ UNCHANGED <<clients, stale, credentials, ending, events>>
    BY <1>3 DEF GetMiss, slots
  <2>3. user' \in [Users -> UserStates]
    BY <1>0, <2>1, <2>2 DEF UserStates
  <2>4. home' \in [Clients -> Accounts \cup {NoAccount}] /\ madeWith' \in [Clients -> 0..MaxUpdates]
        /\ conn' \in [Clients -> {"unborn", "new", "up", "down"}]
    BY <2>1, <2>2 DEF TypeOK
  <2>. QED  BY <1>1, <2>1, <2>2, <2>3, <2>4 DEF TypeOK, TaskStates, UserStates, events
<1>. QED  BY <1>2, <1>3

(* ... by what a coroutine goes through afterwards, and by the world ... *)
LEMMA UserTypes ==
    ASSUME TypeOK, NEW u \in Users, Housed, Answer(u)
    PROVE  TypeOK'
<1>0. user \in [Users -> UserStates] /\ user[u] \in UserStates
  BY DEF TypeOK, UserStates
<1>1. Working(u) /\ user[u].account \in Accounts /\ user[u].client \in Clients
  BY <1>0 DEF Answer, Connected, Reconnected, ConnectFails, CallEnds, Working, Housed
<1>2. \/ user' = [user EXCEPT ![u].pc = "using"] \/ user' = [user EXCEPT ![u] = Resting]
  BY DEF Answer, Connected, Reconnected, ConnectFails, CallEnds
<1>3. user' \in [Users -> UserStates]
  BY <1>0, <1>2, Numbers DEF UserStates
<1>4. \/ conn' = conn \/ conn' = [conn EXCEPT ![user[u].client] = "up"]
      \/ conn' = [conn EXCEPT ![user[u].client] = "down"]
  BY DEF Answer, Connected, Reconnected, ConnectFails, CallEnds
<1>5. conn' \in [Clients -> {"unborn", "new", "up", "down"}]
  BY <1>1, <1>4 DEF TypeOK
<1>6. /\ clients' \in [Accounts -> Clients \cup {NoClient}]
      /\ stale' \subseteq {a \in Accounts : clients'[a] # NoClient}
  <2>1. CASE UNCHANGED <<clients, stale>>
    BY <2>1 DEF TypeOK
  <2>2. CASE /\ clients' = [clients EXCEPT ![user[u].account] = user[u].client]
             /\ stale' = stale \ {user[u].account}
    BY <1>1, <2>2 DEF TypeOK
  <2>. QED  BY <2>1, <2>2 DEF Answer, Connected, Reconnected, ConnectFails, CallEnds, slots
<1>7. faults' \in 0..MaxFaults /\ UNCHANGED <<updates, deletes, drops>>
  BY Numbers DEF Answer, Connected, Reconnected, ConnectFails, CallEnds, events, TypeOK
<1>8. UNCHANGED <<credentials, born, home, madeWith, ending, task>>
  BY DEF Answer, Connected, Reconnected, ConnectFails, CallEnds, made
<1>. QED  BY <1>3, <1>5, <1>6, <1>7, <1>8 DEF TypeOK, UserStates

(* A lost connection and the passing of time keep the types. *)
LEMMA WorldTypes ==
    ASSUME TypeOK, NEW a \in Accounts, ConnectionLost(a) \/ TimeOut(a)
    PROVE  TypeOK'
<1>1. CASE ConnectionLost(a)
  <2>1. clients[a] \in Clients /\ conn' = [conn EXCEPT ![clients[a]] = "down"]
    BY <1>1 DEF ConnectionLost, TypeOK
  <2>2. conn' \in [Clients -> {"unborn", "new", "up", "down"}] /\ drops' \in 0..MaxDrops
    BY <1>1, <2>1, Numbers DEF TypeOK, ConnectionLost
  <2>. QED  BY <1>1, <2>2 DEF TypeOK, ConnectionLost, slots, made
<1>2. CASE TimeOut(a)
  BY <1>2 DEF TypeOK, TimeOut, made, events
<1>. QED  BY <1>1, <1>2

(* ... and by the coroutines that disconnect. *)
LEMMA ClosingTypes ==
    ASSUME TypeOK, NEW c \in Clients, Disconnected(c) \/ DisconnectFails(c)
    PROVE  TypeOK'
<1>0. task \in [Disconnectors -> TaskStates]
  BY DEF TypeOK, TaskStates
<1>1. task' \in [Disconnectors -> TaskStates]
  <2>1. \A d \in Disconnectors : task[d] \in TaskStates /\ [task[d] EXCEPT !.client = NoClient] \in TaskStates
    BY <1>0 DEF TaskStates
  <2>. QED  BY <2>1, Numbers DEF Disconnected, DisconnectFails
<1>2. conn' \in [Clients -> {"unborn", "new", "up", "down"}] /\ ending' \subseteq Clients
  BY DEF Disconnected, DisconnectFails, Closed, TypeOK
<1>3. faults' \in 0..MaxFaults /\ UNCHANGED <<updates, deletes, drops>>
  BY Numbers DEF Disconnected, DisconnectFails, events, TypeOK
<1>. QED  BY <1>1, <1>2, <1>3 DEF TypeOK, TaskStates, Disconnected, DisconnectFails, slots, made

(* So does a step of one of them. *)
LEMMA TaskTypes ==
    ASSUME TypeOK,
           \/ \E d \in Disconnectors : Resumed(d)
           \/ ReaperWakes \/ ReaperCancelled \/ Commands
    PROVE  TypeOK'
<1>0. task \in [Disconnectors -> TaskStates]
  BY DEF TypeOK, TaskStates
<1>1. /\ clients' \in [Accounts -> Clients \cup {NoClient}]
      /\ stale' \subseteq {a \in Accounts : clients'[a] # NoClient}
      /\ ending' \subseteq Clients
      /\ task' \in [Disconnectors -> TaskStates]
      /\ credentials' \in 0..MaxUpdates
  <2>1. ASSUME NEW d \in Disconnectors, Resumed(d) PROVE <1>1!:
    <3>1. task[d].todo \in SUBSET Accounts
      BY <1>0 DEF TaskStates
    <3>. QED  BY <2>1, <3>1, ProceedTypes DEF Resumed
  <2>2. CASE ReaperWakes
    <3>1. stale \in SUBSET Accounts /\ "reaper" \in Disconnectors
      BY DEF TypeOK, Disconnectors
    <3>. QED  BY <2>2, <3>1, ProceedTypes DEF ReaperWakes
  <2>3. CASE ReaperCancelled
    <3>1. {a \in Accounts : clients[a] # NoClient} \in SUBSET Accounts /\ "settings" \in Disconnectors
      BY DEF Disconnectors
    <3>. QED  BY <2>3, <3>1, ProceedTypes DEF ReaperCancelled
  <2>4. CASE CloseAll
    <3>1. task' \in [Disconnectors -> TaskStates]
      BY <1>0, <2>4, Numbers DEF CloseAll, TaskStates
    <3>. QED  BY <2>4, <3>1 DEF CloseAll, TypeOK, slots
  <2>5. ASSUME NEW a \in Accounts, DeleteBegins(a) PROVE <1>1!:
    <3>1. {a} \in SUBSET Accounts /\ "delete" \in Disconnectors
      BY DEF Disconnectors
    <3>. QED  BY <2>5, <3>1, ProceedTypes DEF DeleteBegins
  <2>. QED  BY <2>1, <2>2, <2>3, <2>4, <2>5 DEF Commands
<1>2. updates' \in 0..MaxUpdates /\ deletes' \in 0..MaxDeletes /\ UNCHANGED <<drops, faults>>
  <2>1. CASE CloseAll
    BY <2>1, Numbers DEF CloseAll, TypeOK
  <2>2. CASE \E a \in Accounts : DeleteBegins(a)
    BY <2>2, Numbers DEF DeleteBegins, TypeOK
  <2>3. CASE ReaperWakes \/ ReaperCancelled \/ \E d \in Disconnectors : Resumed(d)
    BY <2>3 DEF Resumed, ReaperWakes, ReaperCancelled, events, TypeOK
  <2>. QED  BY <2>1, <2>2, <2>3 DEF Commands
<1>3. UNCHANGED <<made, conn, user>>
  BY DEF Resumed, ReaperWakes, ReaperCancelled, Commands, CloseAll, DeleteBegins
<1>. QED  BY <1>1, <1>2, <1>3 DEF TypeOK, TaskStates, made

-----------------------------------------------------------------------------
(* Whose client is whose. *)

(* Up to its next await a disconnecting coroutine empties one slot, or has *)
(* found none to empty; only then the credentials change.                  *)
LEMMA ProceedShape ==
    ASSUME TypeOK, NEW d \in Disconnectors, NEW todo \in SUBSET Accounts, Proceed(d, todo)
    PROVE  /\ \A e \in Disconnectors \ {d} : task'[e] = task[e]
           /\ \/ \E a \in todo : /\ clients[a] # NoClient
                                 /\ clients' = [clients EXCEPT ![a] = NoClient]
                                 /\ stale' = stale \ {a}
                                 /\ ending' = ending \cup {clients[a]}
                                 /\ task'[d].pc = "busy" /\ task'[d].client = clients[a]
                                 /\ credentials' = credentials
              \/ /\ UNCHANGED <<clients, stale, ending>>
                 /\ task'[d].pc # "busy"
                 /\ credentials' # credentials => \A a \in Accounts : clients[a] = NoClient
<1>0. task \in [Disconnectors -> TaskStates]
  BY DEF TypeOK, TaskStates
<1>1. CASE Finish(d)
  BY <1>0, <1>1 DEF Finish, slots, Off
<1>2. CASE ~Finish(d)
  <2>1. PICK a \in {b \in todo : clients[b] # NoClient},
             passed \in SUBSET (todo \ {b \in todo : clients[b] # NoClient}) :
            /\ clients' = [clients EXCEPT ![a] = NoClient]
            /\ stale' = stale \ {a}
            /\ ending' = ending \cup {clients[a]}
            /\ task' = [task EXCEPT ![d] = [pc     |-> "busy",
                                            todo   |-> todo \ ({a} \cup passed),
                                            client |-> clients[a]]]
            /\ UNCHANGED credentials
    BY <1>2 DEF Proceed
  <2>2. /\ task'[d].pc = "busy" /\ task'[d].client = clients[a]
        /\ \A e \in Disconnectors \ {d} : task'[e] = task[e]
    BY <1>0, <2>1
  <2>. QED  BY <2>1, <2>2
<1>. QED  BY <1>1, <1>2

(* A slot is emptied, or none is; nothing else that matters here changes.  *)
LEMMA TaskStep ==
    ASSUME TypeOK,
           \/ \E d \in Disconnectors : Resumed(d)
           \/ ReaperWakes \/ ReaperCancelled \/ Commands
    PROVE  /\ UNCHANGED <<made, conn, user, drops>>
           /\ \/ \E a \in Accounts : /\ clients[a] # NoClient
                                     /\ clients' = [clients EXCEPT ![a] = NoClient]
                                     /\ stale' = stale \ {a}
                                     /\ ending' = ending \cup {clients[a]}
                                     /\ credentials' = credentials
              \/ /\ UNCHANGED <<clients, stale, ending>>
                 /\ credentials' # credentials => \A a \in Accounts : clients[a] = NoClient
<1>0. task \in [Disconnectors -> TaskStates]
  BY DEF TypeOK, TaskStates
<1>1. ASSUME NEW d \in Disconnectors, Resumed(d) PROVE \E todo \in SUBSET Accounts : Proceed(d, todo)
  <2>1. task[d].todo \in SUBSET Accounts
    BY <1>0 DEF TaskStates
  <2>. QED  BY <1>1, <2>1 DEF Resumed
<1>2. ReaperWakes => \E todo \in SUBSET Accounts : Proceed("reaper", todo)
  BY DEF ReaperWakes, TypeOK
<1>3. ReaperCancelled => \E todo \in SUBSET Accounts : Proceed("settings", todo)
  BY DEF ReaperCancelled
<1>4. ASSUME NEW a \in Accounts, DeleteBegins(a)
      PROVE  \E todo \in SUBSET Accounts : Proceed("delete", todo)
  BY <1>4 DEF DeleteBegins
<1>5. UNCHANGED <<made, conn, user, drops>>
  BY DEF Resumed, ReaperWakes, ReaperCancelled, Commands, CloseAll, DeleteBegins, events
<1>6. CASE CloseAll
  BY <1>5, <1>6 DEF CloseAll, slots
<1>7. CASE \E d \in Disconnectors, todo \in SUBSET Accounts : Proceed(d, todo)
  <2>1. PICK d \in Disconnectors, todo \in SUBSET Accounts : Proceed(d, todo)
    BY <1>7
  <2>. QED  BY <1>5, <2>1, ProceedShape
<1>8. {"reaper", "settings", "delete"} \subseteq Disconnectors
  BY DEF Disconnectors
<1>. QED  BY <1>1, <1>2, <1>3, <1>4, <1>6, <1>7, <1>8 DEF Commands

(* At the start there are no clients. *)
LEMMA HousedInit == Init => HousedInv
BY TypeInit, Numbers DEF Init, HousedInv, Housed, Working, Resting, Clients, NoClient

(* A coroutine is given a client of its account. *)
LEMMA HousedGet ==
    ASSUME HousedInv, NEW u \in Users, NEW a \in Accounts, GetHit(u, a) \/ GetMiss(u, a)
    PROVE  Housed'
<1>0. TypeOK /\ Housed /\ user \in [Users -> UserStates] /\ born \in Nat /\ TypeOK'
  BY GetTypes, Numbers DEF HousedInv, TypeOK, UserStates
<1>1. CASE GetHit(u, a)
  <2>1. /\ clients[a] \in Clients /\ clients[a] <= born /\ home[clients[a]] = a
        /\ UNCHANGED <<clients, conn, home, born, ending>> /\ stale' = stale \ {a}
    BY <1>0, <1>1 DEF GetHit, made, Housed, TypeOK
  <2>2. /\ user'[u].account = a /\ user'[u].client = clients[a] /\ user'[u].pc # "idle"
        /\ \A v \in Users \ {u} : user'[v] = user[v]
    BY <1>0, <1>1 DEF GetHit
  <2>3. ASSUME NEW v \in Users, Working(v)'
        PROVE  /\ user'[v].account \in Accounts
               /\ user'[v].client \in Clients /\ user'[v].client <= born
               /\ home[user'[v].client] = user'[v].account
               /\ v \notin JobUsers => user'[v].account \notin stale'
    BY <1>0, <2>1, <2>2, <2>3 DEF Housed, Working
  <2>. QED  BY <1>0, <2>1, <2>3 DEF Housed
<1>2. CASE GetMiss(u, a)
  <2>1. /\ born' = born + 1 /\ conn' = [conn EXCEPT ![born + 1] = "new"]
        /\ home' = [home EXCEPT ![born + 1] = a]
        /\ UNCHANGED <<clients, stale>> /\ clients[a] = NoClient
        /\ born + 1 \in Clients
    BY <1>0, <1>2, Numbers DEF GetMiss, slots, Clients
  <2>2. /\ user'[u].account = a /\ user'[u].client = born + 1
        /\ \A v \in Users \ {u} : user'[v] = user[v]
    BY <1>0, <1>2 DEF GetMiss
  <2>3. /\ \A c \in Clients : c # born + 1 => home'[c] = home[c] /\ conn'[c] = conn[c]
        /\ home'[born + 1] = a /\ conn'[born + 1] = "new"
    BY <1>0, <2>1 DEF TypeOK
  <2>4. \A c \in Clients : (conn'[c] # "unborn" <=> c <= born') /\ (c <= born' => home'[c] \in Accounts)
    BY <1>0, <2>1, <2>3, Numbers DEF Housed
  <2>5. ASSUME NEW b \in Accounts, clients[b] # NoClient
        PROVE  clients[b] <= born' /\ home'[clients[b]] = b
    <3>1. clients[b] \in Clients /\ clients[b] <= born /\ home[clients[b]] = b /\ clients[b] \in Nat
      BY <1>0, <2>5, Numbers DEF Housed, TypeOK
    <3>. QED  BY <1>0, <2>1, <2>3, <3>1
  <2>6. ASSUME NEW v \in Users, Working(v)'
        PROVE  /\ user'[v].account \in Accounts
               /\ user'[v].client \in Clients /\ user'[v].client <= born'
               /\ home'[user'[v].client] = user'[v].account
               /\ v \notin JobUsers => user'[v].account \notin stale'
    <3>1. CASE v = u
      BY <1>0, <2>1, <2>2, <2>3, <3>1 DEF TypeOK
    <3>2. CASE v # u
      <4>1. user'[v] = user[v] /\ Working(v) /\ user[v].client \in Nat
        BY <1>0, <2>2, <2>6, <3>2, Numbers DEF Working, Housed
      <4>. QED  BY <1>0, <2>1, <2>3, <4>1 DEF Housed
    <3>. QED  BY <3>1, <3>2
  <2>7. ending' = ending /\ \A c \in ending : c \in Nat
    BY <1>0, <1>2, Numbers DEF GetMiss, TypeOK
  <2>. QED  BY <1>0, <2>1, <2>4, <2>5, <2>6, <2>7 DEF Housed
<1>. QED  BY <1>1, <1>2

(* A step of a coroutine keeps everybody's client. *)
LEMMA HousedUser ==
    ASSUME HousedInv, NEW u \in Users, Answer(u)
    PROVE  Housed'
<1>0. TypeOK /\ Housed /\ user \in [Users -> UserStates] /\ born \in Nat
  BY Numbers DEF HousedInv, TypeOK, UserStates
<1>1. /\ Working(u) /\ user[u].account \in Accounts /\ user[u].client \in Clients /\ user[u].client <= born
      /\ home[user[u].client] = user[u].account
  BY <1>0 DEF Answer, Connected, Reconnected, ConnectFails, CallEnds, Working, Housed
<1>2. UNCHANGED <<born, home, ending>> /\ stale' \subseteq stale
  BY DEF Answer, Connected, Reconnected, ConnectFails, CallEnds, made, slots
<1>3. /\ \A v \in Users \ {u} : user'[v] = user[v]
      /\ \/ user'[u].pc = "idle"
         \/ user'[u].account = user[u].account /\ user'[u].client = user[u].client
  BY <1>0 DEF Answer, Connected, Reconnected, ConnectFails, CallEnds, Resting, UserStates
<1>4. \A c \in Clients : conn'[c] # "unborn" <=> conn[c] # "unborn"
  <2>1. conn[user[u].client] # "unborn"
    BY <1>0, <1>1 DEF Housed
  <2>2. \/ conn' = conn \/ conn' = [conn EXCEPT ![user[u].client] = "up"]
        \/ conn' = [conn EXCEPT ![user[u].client] = "down"]
    BY DEF Answer, Connected, Reconnected, ConnectFails, CallEnds
  <2>. QED  BY <1>0, <2>1, <2>2 DEF TypeOK
<1>5. clients' = clients \/ clients' = [clients EXCEPT ![user[u].account] = user[u].client]
  BY DEF Answer, Connected, Reconnected, ConnectFails, CallEnds, slots
<1>6. \A a \in Accounts : clients'[a] # NoClient => clients'[a] <= born' /\ home'[clients'[a]] = a
  BY <1>0, <1>1, <1>2, <1>5 DEF Housed, TypeOK
<1>7. ASSUME NEW v \in Users, Working(v)'
      PROVE  /\ user'[v].account \in Accounts
             /\ user'[v].client \in Clients /\ user'[v].client <= born'
             /\ home'[user'[v].client] = user'[v].account
             /\ v \notin JobUsers => user'[v].account \notin stale'
  <2>1. CASE v = u
    BY <1>0, <1>1, <1>2, <1>3, <1>7, <2>1 DEF Working, Housed
  <2>2. CASE v # u
    BY <1>0, <1>2, <1>3, <1>7, <2>2 DEF Working, Housed
  <2>. QED  BY <2>1, <2>2
<1>. QED  BY <1>0, <1>2, <1>4, <1>6, <1>7 DEF Housed

(* Time passes only for an account nobody but a job works for. *)
LEMMA HousedWorld ==
    ASSUME HousedInv, NEW a \in Accounts, ConnectionLost(a) \/ TimeOut(a)
    PROVE  Housed'
<1>0. TypeOK /\ Housed
  BY DEF HousedInv
<1>1. CASE ConnectionLost(a)
  BY <1>0, <1>1 DEF ConnectionLost, Housed, TypeOK, slots, made, Working
<1>2. CASE TimeOut(a)
  <2>1. UNCHANGED <<clients, conn, home, born, user, ending>> /\ stale' = stale \cup {a}
    BY <1>2 DEF TimeOut, made
  <2>2. \A v \in Users \ JobUsers : Working(v) => user[v].account # a
    BY <1>2 DEF TimeOut, WorksFor
  <2>. QED  BY <1>0, <2>1, <2>2 DEF Housed, Working
<1>. QED  BY <1>1, <1>2

(* A slot that is emptied harms nobody. *)
LEMMA HousedTask ==
    ASSUME HousedInv,
           \/ \E d \in Disconnectors : Resumed(d)
           \/ ReaperWakes \/ ReaperCancelled \/ Commands
    PROVE  Housed'
<1>0. TypeOK /\ Housed
  BY DEF HousedInv
<1>1. /\ UNCHANGED <<born, home, conn, user>> /\ stale' \subseteq stale
      /\ \A a \in Accounts : clients'[a] # NoClient => clients'[a] = clients[a]
      /\ \A c \in ending' : c \in ending \/ \E a \in Accounts : clients[a] # NoClient /\ c = clients[a]
  BY <1>0, TaskStep DEF made, TypeOK
<1>2. ASSUME NEW c \in ending' PROVE c <= born'
  <2>1. born' = born
    BY <1>1
  <2>2. CASE c \in ending
    BY <1>0, <2>1, <2>2 DEF Housed
  <2>3. CASE \E a \in Accounts : clients[a] # NoClient /\ c = clients[a]
    BY <1>0, <2>1, <2>3 DEF Housed
  <2>. QED  BY <1>1, <1>2, <2>2, <2>3
<1>3. \A u \in Users : Working(u)' <=> Working(u)
  BY <1>1 DEF Working
<1>4. \A a \in Accounts : clients'[a] # NoClient => clients'[a] <= born' /\ home'[clients'[a]] = a
  BY <1>0, <1>1 DEF Housed
<1>. QED  BY <1>0, <1>1, <1>2, <1>3, <1>4 DEF Housed

(* Neither does the end of a disconnection. *)
LEMMA HousedClosing ==
    ASSUME HousedInv, NEW c \in Clients, Disconnected(c) \/ DisconnectFails(c)
    PROVE  Housed'
<1>0. TypeOK /\ Housed
  BY DEF HousedInv
<1>1. UNCHANGED <<clients, stale, born, home, user>> /\ conn' = [conn EXCEPT ![c] = "down"]
      /\ ending' \subseteq ending /\ c \in ending
  BY DEF Disconnected, DisconnectFails, Closed, made, slots
<1>. QED  BY <1>0, <1>1 DEF Housed, Working, TypeOK

(* Every step keeps the types and whose client is whose. *)
LEMMA HousedStep == HousedInv /\ [Next]_vars => HousedInv'
<1>. SUFFICES ASSUME HousedInv, [Next]_vars PROVE HousedInv'
  OBVIOUS
<1>0. TypeOK /\ Housed
  BY DEF HousedInv
<1>1. CASE Get
  BY <1>0, <1>1, GetTypes, HousedGet DEF Get, HousedInv
<1>2. CASE \E u \in Users : Answer(u)
  BY <1>0, <1>2, UserTypes, HousedUser DEF HousedInv
<1>3. CASE World
  BY <1>0, <1>3, WorldTypes, HousedWorld DEF World, HousedInv
<1>4. CASE \/ \E d \in Disconnectors : Resumed(d)
           \/ ReaperWakes \/ ReaperCancelled \/ Commands
  BY <1>0, <1>4, TaskTypes, HousedTask DEF HousedInv
<1>5. CASE Closing
  BY <1>0, <1>5, ClosingTypes, HousedClosing DEF Closing, HousedInv
<1>6. CASE UNCHANGED vars
  BY <1>0, <1>6 DEF vars, slots, made, events, HousedInv, Housed, TypeOK, Working
<1>. QED  BY <1>1, <1>2, <1>3, <1>4, <1>5, <1>6 DEF Next

(* Every variable keeps its type, and a client the account it was made for, *)
(* whoever works for it (HousedInv).                                        *)
THEOREM ClientsHoused == Spec => []HousedInv
BY HousedInit, HousedStep, PTL DEF Spec

(* The reaper takes no client away from a coroutine that works with it     *)
(* (ReaperSparesUsed), also if several work for one account.               *)
THEOREM ReaperSpares == Spec => ReaperSparesUsed
<1>1. HousedInv /\ [Next]_vars =>
      [\A u \in Users \ JobUsers :
          user[u].pc = "using" /\ task["reaper"].pc = "sleeping" /\ task'["reaper"].pc = "busy"
              => user[u].client # task'["reaper"].client]_vars
  <2>. SUFFICES ASSUME HousedInv, Next, NEW u \in Users \ JobUsers, user[u].pc = "using",
                       task["reaper"].pc = "sleeping", task'["reaper"].pc = "busy"
                PROVE  user[u].client # task'["reaper"].client
    OBVIOUS
  <2>0. TypeOK /\ Housed /\ task \in [Disconnectors -> TaskStates] /\ "reaper" \in Disconnectors
    BY DEF HousedInv, TypeOK, TaskStates, Disconnectors
  <2>1. CASE ReaperWakes
    <3>1. stale \in SUBSET Accounts /\ Proceed("reaper", stale)
      BY <2>0, <2>1 DEF ReaperWakes, TypeOK
    <3>2. PICK a \in stale : clients[a] # NoClient /\ task'["reaper"].client = clients[a]
      BY <2>0, <3>1, ProceedShape
    <3>3. user[u].account \notin stale /\ home[user[u].client] = user[u].account
      BY <2>0 DEF Housed, Working
    <3>4. a \in Accounts /\ home[clients[a]] = a
      BY <2>0, <3>1, <3>2 DEF Housed
    <3>. QED  BY <3>2, <3>3, <3>4
  <2>2. CASE ~ReaperWakes
    <3>1. ASSUME Get PROVE task'["reaper"].pc = "sleeping"
      BY <2>0, <3>1 DEF Get, GetHit, GetMiss, EnsureReaper
    <3>2. ASSUME (\E v \in Users : Answer(v)) \/ World PROVE task' = task
      BY <3>2 DEF Answer, Connected, Reconnected, ConnectFails, CallEnds, World, ConnectionLost, TimeOut
    <3>3. ASSUME NEW d \in Disconnectors, Resumed(d) PROVE d # "reaper" /\ task'["reaper"] = task["reaper"]
      <4>1. task[d].todo \in SUBSET Accounts /\ d # "reaper"
        BY <2>0, <3>3 DEF TaskStates, Resumed
      <4>. QED  BY <2>0, <3>3, <4>1, ProceedShape DEF Resumed
    <3>4. ASSUME ReaperCancelled PROVE task'["reaper"] = task["reaper"]
      <4>1. {a \in Accounts : clients[a] # NoClient} \in SUBSET Accounts /\ "settings" \in Disconnectors
        BY DEF Disconnectors
      <4>. QED  BY <2>0, <3>4, <4>1, ProceedShape DEF ReaperCancelled
    <3>5. ASSUME Commands PROVE task'["reaper"] \in {task["reaper"], Off}
      <4>1. CASE CloseAll
        BY <2>0, <4>1 DEF CloseAll, Disconnectors
      <4>2. ASSUME NEW a \in Accounts, DeleteBegins(a) PROVE task'["reaper"] = task["reaper"]
        <5>1. {a} \in SUBSET Accounts /\ "delete" \in Disconnectors
          BY DEF Disconnectors
        <5>. QED  BY <2>0, <4>2, <5>1, ProceedShape DEF DeleteBegins
      <4>. QED  BY <3>5, <4>1, <4>2 DEF Commands
    <3>6. ASSUME Closing PROVE task'["reaper"].pc # "busy"
      BY <2>0, <3>6 DEF Closing, Disconnected, DisconnectFails, TaskStates, Off
    <3>. QED  BY <2>2, <3>1, <3>2, <3>3, <3>4, <3>5, <3>6 DEF Next, Off
  <2>. QED  BY <2>1, <2>2
<1>. QED  BY <1>1, ClientsHoused, PTL DEF Spec, ReaperSparesUsed

-----------------------------------------------------------------------------
(* One coroutine per account at a time: the slots are the live clients.    *)

(* At the start there are none. *)
LEMMA ExclusiveInit == Init => Exclusive
BY DEF Init, Exclusive, Working, Resting, Live

(* A coroutine that asks for a client is the only one of its account. *)
LEMMA ExclusiveGet ==
    ASSUME ~Overlap, HousedInv, Exclusive, NEW u \in Users, NEW a \in Accounts,
           GetHit(u, a) \/ GetMiss(u, a)
    PROVE  Exclusive'
<1>0. /\ TypeOK /\ Housed /\ user \in [Users -> UserStates] /\ born \in Nat
      /\ UNCHANGED <<clients, ending, drops>> /\ stale' \subseteq stale
  BY Numbers DEF HousedInv, TypeOK, UserStates, GetHit, GetMiss, events, slots
<1>1. /\ \A v \in Users \ {u} : user'[v] = user[v]
      /\ user'[u].account = a
      /\ \A v \in Users : Working(v) => user[v].account # a
  BY <1>0 DEF GetHit, GetMiss, MayAsk, WorksFor
<1>2. \A v, w \in Users : Working(v)' /\ Working(w)' /\ user'[v].account = user'[w].account => v = w
  BY <1>0, <1>1 DEF Exclusive, Working
<1>3. CASE GetHit(u, a)
  <2>1. /\ conn' = conn /\ home' = home /\ clients[a] # NoClient
        /\ user'[u].pc = IF conn[clients[a]] = "up" THEN "using" ELSE "reconnecting"
    BY <1>0, <1>3 DEF GetHit, made
  <2>2. \A v \in Users : user'[v].pc = "connecting" => user[v].pc = "connecting" /\ user'[v] = user[v]
    BY <1>1, <2>1
  <2>3. drops = 0 => \A v \in Users : user'[v].pc # "reconnecting"
    BY <1>1, <2>1 DEF Exclusive
  <2>. QED  BY <1>0, <1>2, <2>1, <2>2, <2>3 DEF Exclusive, Live
<1>4. CASE GetMiss(u, a)
  <2>1. /\ conn' = [conn EXCEPT ![born + 1] = "new"] /\ home' = [home EXCEPT ![born + 1] = a]
        /\ clients[a] = NoClient /\ born + 1 \in Clients
        /\ user'[u].pc = "connecting" /\ user'[u].client = born + 1
    BY <1>0, <1>4, Numbers DEF GetMiss, Clients
  <2>2. /\ \A c \in Clients : c # born + 1 => conn'[c] = conn[c] /\ home'[c] = home[c]
        /\ conn'[born + 1] = "new"
    BY <1>0, <2>1 DEF TypeOK
  <2>3. \A b \in Accounts : clients[b] # NoClient => clients[b] \in Clients /\ clients[b] # born + 1
    BY <1>0, Numbers DEF Housed, TypeOK
  <2>4. \A c \in ending : c \in Clients /\ c # born + 1
    BY <1>0, Numbers DEF Housed, TypeOK
  <2>5. ASSUME NEW v \in Users, user'[v].pc = "connecting"
        PROVE  clients[user'[v].account] = NoClient /\ conn'[user'[v].client] = "new"
    <3>1. CASE v = u
      BY <1>1, <2>1, <2>2, <3>1
    <3>2. CASE v # u
      <4>1. user'[v] = user[v] /\ Working(v) /\ user[v].client \in Clients /\ user[v].client # born + 1
        BY <1>0, <1>1, <2>5, <3>2, Numbers DEF Working, Housed
      <4>. QED  BY <2>2, <2>5, <4>1 DEF Exclusive
    <3>. QED  BY <3>1, <3>2
  <2>6. drops = 0 => \A v \in Users : user'[v].pc # "reconnecting"
    BY <1>1, <2>1 DEF Exclusive
  <2>7. ASSUME drops = 0, NEW c \in Clients, Live(c)' PROVE clients[home'[c]] = c
    <3>1. c # born + 1 /\ Live(c)
      BY <1>0, <2>2, <2>7 DEF Live
    <3>. QED  BY <2>2, <2>7, <3>1 DEF Exclusive
  <2>. QED  BY <1>0, <1>2, <2>2, <2>3, <2>4, <2>5, <2>6, <2>7 DEF Exclusive
<1>. QED  BY <1>3, <1>4

(* Connected, it finds the slot of its account empty and fills it. *)
LEMMA ExclusiveUser ==
    ASSUME HousedInv, Exclusive, NEW u \in Users, Answer(u)
    PROVE  Exclusive'
<1>0. /\ TypeOK /\ Housed /\ user \in [Users -> UserStates] /\ home' = home /\ ending' = ending /\ drops' = drops
  BY DEF HousedInv, TypeOK, UserStates, Answer, Connected, Reconnected, ConnectFails, CallEnds, made, events
<1> DEFINE a == user[u].account
           c == user[u].client
<1>1. Working(u) /\ a \in Accounts /\ c \in Clients /\ home[c] = a
  BY <1>0 DEF Answer, Connected, Reconnected, ConnectFails, CallEnds, Working, Housed
<1>2. /\ \A v \in Users \ {u} : user'[v] = user[v]
      /\ user'[u].pc \in {"idle", "using"}
      /\ user'[u].pc = "idle" \/ user'[u].account = a
  BY <1>0 DEF Answer, Connected, Reconnected, ConnectFails, CallEnds, Resting, UserStates
<1>3. \A v, w \in Users : Working(v)' /\ Working(w)' /\ user'[v].account = user'[w].account => v = w
  BY <1>0, <1>1, <1>2 DEF Exclusive, Working
<1>4. \A v \in Users : user'[v].pc = "connecting" =>
          v # u /\ Working(v) /\ user[v].pc = "connecting" /\ user'[v] = user[v]
  BY <1>2 DEF Working
<1>5. \A v \in Users \ {u} : Working(v) => user[v].account # a /\ user[v].client # c
  BY <1>0, <1>1 DEF Exclusive, Housed
<1>6. drops = 0 => \A v \in Users : user'[v].pc # "reconnecting"
  BY <1>2 DEF Exclusive
<1>7. CASE Connected(u)
  <2>1. clients' = [clients EXCEPT ![a] = c] /\ conn' = [conn EXCEPT ![c] = "up"] /\ user[u].pc = "connecting"
    BY <1>7 DEF Connected
  <2>2. clients[a] = NoClient /\ conn[c] = "new" /\ c \notin ending /\ c # NoClient
    BY <1>1, <2>1, Numbers DEF Exclusive
  <2>3. \A b \in Accounts : clients[b] # c
    BY <2>2 DEF Exclusive
  <2>4. /\ \A b \in Accounts : clients'[b] = IF b = a THEN c ELSE clients[b]
        /\ \A e \in Clients : conn'[e] = IF e = c THEN "up" ELSE conn[e]
        /\ \A b \in Accounts : clients[b] # NoClient => clients[b] \in Clients
    BY <1>0, <1>1, <2>1 DEF TypeOK
  <2>5. \A v \in Users : user'[v].pc = "connecting" =>
            clients'[user'[v].account] = NoClient /\ conn'[user'[v].client] = "new"
    <3>. SUFFICES ASSUME NEW v \in Users, user'[v].pc = "connecting"
                  PROVE  clients'[user[v].account] = NoClient /\ conn'[user[v].client] = "new"
      BY <1>4
    <3>1. /\ user[v].account \in Accounts /\ user[v].account # a
          /\ user[v].client \in Clients /\ user[v].client # c
      BY <1>0, <1>4, <1>5 DEF Housed
    <3>. QED  BY <1>4, <2>4, <3>1 DEF Exclusive
  <2>6. \A b \in Accounts : clients'[b] # NoClient => conn'[clients'[b]] \in {"up", "down"} /\ clients'[b] \notin ending
    BY <1>1, <2>2, <2>3, <2>4 DEF Exclusive
  <2>7. \A e \in ending : conn'[e] \in {"up", "down"}
    BY <1>0, <2>4 DEF Exclusive, TypeOK
  <2>8. drops = 0 => \A b \in Accounts : clients'[b] # NoClient => conn'[clients'[b]] = "up"
    BY <1>1, <2>3, <2>4 DEF Exclusive
  <2>9. ASSUME drops = 0, NEW e \in Clients, Live(e)' PROVE clients'[home[e]] = e
    <3>1. CASE e = c
      BY <1>1, <2>4, <3>1
    <3>2. CASE e # c
      <4>1. Live(e) /\ clients[home[e]] = e
        BY <1>0, <2>4, <2>9, <3>2 DEF Live, Exclusive
      <4>2. home[e] \in Accounts
        BY <1>0, <4>1 DEF Live, Housed
      <4>3. home[e] # a
        BY <2>2, <4>1, Numbers
      <4>. QED  BY <2>4, <4>1, <4>2, <4>3
    <3>. QED  BY <3>1, <3>2
  <2>. QED  BY <1>0, <1>3, <1>6, <2>5, <2>6, <2>7, <2>8, <2>9 DEF Exclusive
<1>8. CASE Reconnected(u)
  <2>1. clients' = clients /\ conn' = [conn EXCEPT ![c] = "up"] /\ drops # 0
    BY <1>8 DEF Reconnected, slots, Exclusive
  <2>. QED  BY <1>0, <1>1, <1>2, <1>3, <1>4, <1>5, <2>1 DEF Exclusive, Housed, TypeOK
<1>9. CASE ConnectFails(u)
  <2>1. clients' = clients /\ conn' = [conn EXCEPT ![c] = "down"] /\ user[u].pc \in {"connecting", "reconnecting"}
    BY <1>9 DEF ConnectFails, slots
  <2>2. drops = 0 => clients[a] = NoClient
    BY <2>1 DEF Exclusive
  <2>3. \A e \in Clients : conn'[e] = IF e = c THEN "down" ELSE conn[e]
    BY <1>0, <1>1, <2>1 DEF TypeOK
  <2>4. \A b \in Accounts : clients[b] # NoClient => clients[b] \in Clients /\ home[clients[b]] = b
    BY <1>0 DEF TypeOK, Housed
  <2>5. \A v \in Users : user'[v].pc = "connecting" =>
            clients[user'[v].account] = NoClient /\ conn'[user'[v].client] = "new"
    BY <1>0, <1>4, <1>5, <2>3 DEF Exclusive, Housed
  <2>6. \A b \in Accounts : clients[b] # NoClient => conn'[clients[b]] \in {"up", "down"} /\ clients[b] \notin ending
    BY <2>3, <2>4 DEF Exclusive
  <2>7. \A e \in ending : conn'[e] \in {"up", "down"}
    BY <1>0, <2>3 DEF Exclusive, TypeOK
  <2>8. drops = 0 => \A b \in Accounts : clients[b] # NoClient => conn'[clients[b]] = "up"
    BY <1>1, <2>2, <2>3, <2>4 DEF Exclusive
  <2>9. drops = 0 => \A e \in Clients : Live(e)' => clients[home[e]] = e
    BY <1>0, <2>3 DEF Exclusive, Live
  <2>. QED  BY <1>0, <1>3, <1>6, <2>1, <2>5, <2>6, <2>7, <2>8, <2>9 DEF Exclusive
<1>10. CASE CallEnds(u)
  <2>1. UNCHANGED <<clients, conn>>
    BY <1>10 DEF CallEnds, slots
  <2>. QED  BY <1>0, <1>3, <1>4, <1>6, <2>1 DEF Exclusive, Live
<1>. QED  BY <1>7, <1>8, <1>9, <1>10 DEF Answer

(* A connection that breaks down is counted, and nothing is said of it. *)
LEMMA ExclusiveWorld ==
    ASSUME HousedInv, Exclusive, NEW a \in Accounts, ConnectionLost(a) \/ TimeOut(a)
    PROVE  Exclusive'
<1>0. TypeOK /\ Housed
  BY DEF HousedInv
<1>1. CASE ConnectionLost(a)
  <2>1. /\ UNCHANGED <<clients, home, ending, user>> /\ conn' = [conn EXCEPT ![clients[a]] = "down"]
        /\ clients[a] # NoClient /\ drops' # 0 /\ clients[a] \in Clients
    BY <1>0, <1>1 DEF ConnectionLost, slots, made, TypeOK
  <2>2. \A c \in Clients : conn'[c] = IF c = clients[a] THEN "down" ELSE conn[c]
    BY <1>0, <2>1 DEF TypeOK
  <2>3. \A u \in Users : user[u].pc = "connecting" =>
            user[u].client \in Clients /\ user[u].client # clients[a]
    BY <1>0, <2>1 DEF Exclusive, Housed, Working
  <2>4. \A b \in Accounts : clients[b] # NoClient => clients[b] \in Clients
    BY <1>0 DEF TypeOK
  <2>5. \A c \in ending : c \in Clients
    BY <1>0 DEF TypeOK
  <2>. QED  BY <2>1, <2>2, <2>3, <2>4, <2>5 DEF Exclusive, Working
<1>2. CASE TimeOut(a)
  <2>1. UNCHANGED <<clients, home, ending, user, conn, drops>>
    BY <1>2 DEF TimeOut, made, events
  <2>. QED  BY <2>1 DEF Exclusive, Working, Live
<1>. QED  BY <1>1, <1>2

(* A client loses its slot when its disconnection begins ... *)
LEMMA ExclusiveTask ==
    ASSUME HousedInv, Exclusive,
           \/ \E d \in Disconnectors : Resumed(d)
           \/ ReaperWakes \/ ReaperCancelled \/ Commands
    PROVE  Exclusive'
<1>0. TypeOK /\ Housed /\ UNCHANGED <<home, conn, user, drops>>
  BY TaskStep DEF HousedInv, made
<1>1. CASE UNCHANGED <<clients, ending>>
  BY <1>0, <1>1 DEF Exclusive, Working, Live
<1>2. ASSUME NEW a \in Accounts, clients[a] # NoClient,
             clients' = [clients EXCEPT ![a] = NoClient], ending' = ending \cup {clients[a]}
      PROVE  Exclusive'
  <2>1. \A b \in Accounts : clients'[b] = IF b = a THEN NoClient ELSE clients[b]
    BY <1>0, <1>2 DEF TypeOK
  <2>2. \A b \in Accounts : clients'[b] # NoClient =>
            conn[clients'[b]] \in {"up", "down"} /\ clients'[b] \notin ending'
    BY <1>0, <1>2, <2>1 DEF Exclusive, Housed
  <2>3. \A c \in ending' : conn[c] \in {"up", "down"}
    BY <1>2 DEF Exclusive
  <2>4. \A u \in Users : user[u].pc = "connecting" =>
            clients'[user[u].account] = NoClient /\ conn[user[u].client] = "new"
    BY <1>0, <2>1 DEF Exclusive, Housed, Working
  <2>5. ASSUME drops = 0, NEW c \in Clients, Live(c)' PROVE clients'[home[c]] = c
    <3>1. Live(c) /\ c # clients[a]
      BY <1>0, <1>2, <2>5 DEF Live
    <3>2. clients[home[c]] = c /\ home[c] \in Accounts
      BY <1>0, <2>5, <3>1 DEF Exclusive, Live, Housed
    <3>. QED  BY <2>1, <3>1, <3>2
  <2>6. /\ \A u, v \in Users : Working(u)' /\ Working(v)' /\ user'[u].account = user'[v].account => u = v
        /\ drops = 0 => \A u \in Users : user[u].pc # "reconnecting"
        /\ drops = 0 => \A b \in Accounts : clients'[b] # NoClient => conn[clients'[b]] = "up"
    BY <1>0, <2>1 DEF Exclusive, Working
  <2>. QED  BY <1>0, <2>2, <2>3, <2>4, <2>5, <2>6 DEF Exclusive
<1>. QED  BY <1>0, <1>1, <1>2, TaskStep

(* ... and is down when it is over. *)
LEMMA ExclusiveClosing ==
    ASSUME HousedInv, Exclusive, NEW c \in Clients, Disconnected(c) \/ DisconnectFails(c)
    PROVE  Exclusive'
<1>0. TypeOK /\ Housed
  BY DEF HousedInv
<1>1. /\ UNCHANGED <<clients, home, user, drops>> /\ conn' = [conn EXCEPT ![c] = "down"]
      /\ c \in ending /\ ending' = ending \ {c}
  BY DEF Disconnected, DisconnectFails, Closed, made, slots, events
<1>2. \A e \in Clients : conn'[e] = IF e = c THEN "down" ELSE conn[e]
  BY <1>0, <1>1 DEF TypeOK
<1>3. \A b \in Accounts : clients[b] # NoClient => clients[b] \in Clients /\ clients[b] # c
  BY <1>0, <1>1 DEF TypeOK, Exclusive
<1>4. \A u \in Users : user[u].pc = "connecting" => user[u].client \in Clients /\ user[u].client # c
  BY <1>0, <1>1 DEF Exclusive, Housed, Working
<1>5. \A e \in ending' : e \in Clients /\ e \in ending /\ e # c
  BY <1>0, <1>1 DEF TypeOK
<1>6. \A e \in Clients : Live(e)' => Live(e)
  BY <1>1, <1>2 DEF Live
<1>. QED  BY <1>1, <1>2, <1>3, <1>4, <1>5, <1>6 DEF Exclusive, Working

(* With one coroutine per account at a time, whoever disconnects and       *)
(* whatever fails, the invariant that says where the live clients are.     *)
THEOREM ClientsExclusive ==
    ASSUME ~Overlap
    PROVE  Spec => []SlotsInv
<1>1. Init => SlotsInv
  BY HousedInit, ExclusiveInit DEF SlotsInv
<1>2. SlotsInv /\ [Next]_vars => SlotsInv'
  <2>. SUFFICES ASSUME SlotsInv, [Next]_vars PROVE SlotsInv'
    OBVIOUS
  <2>0. HousedInv /\ Exclusive /\ HousedInv'
    BY HousedStep DEF SlotsInv
  <2>1. CASE UNCHANGED vars
    BY <2>0, <2>1 DEF vars, slots, made, events, SlotsInv, Exclusive, Live, Working
  <2>2. CASE Next
    BY <2>0, <2>2, ExclusiveGet, ExclusiveUser, ExclusiveWorld, ExclusiveTask, ExclusiveClosing
    DEF Next, Get, World, Closing, SlotsInv
  <2>. QED  BY <2>1, <2>2
<1>. QED  BY <1>1, <1>2, PTL DEF Spec

(* While no connection breaks down an account has at most one live client, *)
(* which is the one in its slot (SlotsAreClients).                         *)
THEOREM LiveClientsInSlots ==
    ASSUME ~Overlap
    PROVE  Spec => []SlotsAreClients
<1>1. SlotsInv => SlotsAreClients
  <2>. SUFFICES ASSUME SlotsInv PROVE SlotsAreClients
    OBVIOUS
  <2>0. TypeOK /\ Exclusive
    BY DEF SlotsInv, HousedInv
  <2>1. NoneLeaks
    BY <2>0 DEF Exclusive, NoneLeaks
  <2>2. ASSUME drops = 0, NEW a \in Accounts
        PROVE  Cardinality({c \in Clients : Live(c) /\ home[c] = a}) <= 1
    <3> DEFINE L == {c \in Clients : Live(c) /\ home[c] = a}
    <3>1. L \subseteq {clients[a]}
      BY <2>1, <2>2 DEF NoneLeaks
    <3>2. IsFiniteSet({clients[a]}) /\ Cardinality({clients[a]}) = 1
      BY FS_Singleton
    <3>3. Cardinality(L) <= Cardinality({clients[a]})
      BY <3>1, <3>2, FS_Subset
    <3>. QED  BY <3>2, <3>3
  <2>. QED  BY <2>0, <2>1, <2>2 DEF SlotsAreClients, OneClient
<1>. QED  BY <1>1, ClientsExclusive, PTL

(* When the credentials change no client is live (ChangeLeavesNoClient).   *)
THEOREM ChangeIsSafe ==
    ASSUME ~Overlap
    PROVE  Spec => ChangeLeavesNoClient
<1>1. SlotsInv /\ [Next]_vars => [credentials' # credentials /\ drops = 0 => \A c \in Clients : ~Live(c)]_vars
  <2>. SUFFICES ASSUME SlotsInv, Next, credentials' # credentials, drops = 0, NEW c \in Clients, Live(c)
                PROVE  FALSE
    OBVIOUS
  <2>0. HousedInv /\ TypeOK /\ Housed /\ Exclusive
    BY DEF SlotsInv, HousedInv
  <2>1. home[c] \in Accounts /\ clients[home[c]] = c /\ c # NoClient
    BY <2>0, Numbers DEF Exclusive, Housed, Live
  <2>2. CASE \/ \E d \in Disconnectors : Resumed(d)
             \/ ReaperWakes \/ ReaperCancelled \/ Commands
    BY <2>0, <2>1, <2>2, TaskStep
  <2>3. CASE Get \/ World \/ Closing \/ \E u \in Users : Answer(u)
    BY <2>3 DEF Get, GetHit, GetMiss, World, ConnectionLost, TimeOut, Closing, Disconnected,
                DisconnectFails, Answer, Connected, Reconnected, ConnectFails, CallEnds
  <2>. QED  BY <2>2, <2>3 DEF Next
<1>. QED  BY <1>1, ClientsExclusive, PTL DEF Spec, ChangeLeavesNoClient
=============================================================================
