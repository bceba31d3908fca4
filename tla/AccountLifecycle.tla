-------------------------- MODULE AccountLifecycle --------------------------
(***************************************************************************)
(* The row of one account and everything that writes to it: the commands   *)
(* of runtime/handlers/account.py, the coroutines of                       *)
(* telegram/auth_service.py, the worker tasks that enable, disable and     *)
(* delete, the executor that meets a revoked session.  Commands check the  *)
(* database on the UI thread; what they start writes to it later.          *)
(*                                                                         *)
(* Of the jobs of the account only their number is seen here, those that   *)
(* wait for a command and those that run; WorkflowCommands models them.    *)
(***************************************************************************)
EXTENDS FiniteSets, Naturals

CONSTANTS Auths,       \* coroutines that may be authenticating the account at a time
          MaxJobs,     \* bound on the unfinished jobs of the account
          MaxCrashes   \* bound on the number of process crashes

ASSUME AccountAssumption ==
    IsFiniteSet(Auths) /\ MaxJobs \in Nat /\ MaxCrashes \in Nat

VARIABLES
    \* the row of accounts
    exists, enabled, status,
    \* the unfinished jobs with its account_id
    waiting,     \* READY, PAUSED
    running,     \* RUNNING, WAITING_SERVER
    \* the process
    auth,        \* what each coroutine is doing, and for which command
    enabling,    \* values that queued worker tasks will write to enabled
    deletion,    \* where account.delete is
    codeHash,    \* phone_code_hashes of the state store has an entry
    \* Telegram
    authorized,  \* the session is logged in
    \* history
    overlapped,  \* a command was given while an earlier one was not finished
    revoked,     \* Telegram has logged a session out
    crashes

row     == <<exists, enabled, status>>
jobs    == <<waiting, running>>
process == <<auth, enabling, deletion, codeHash>>
history == <<overlapped, revoked, crashes>>
vars    == <<row, jobs, process, authorized, history>>

Statuses == {"DISCONNECTED", "CONNECTING", "AUTH_REQUIRED", "READY", "ERROR", "DISABLED"}

(* connect and groups connect an existing session, as a workflow does      *)
(* before it resolves, scans and plans.                                    *)
Kinds  == {"connect", "groups", "workflow", "send_code", "sign_in"}
Points == {"connecting", "get", "request", "unauthorized", "sent", "identity", "identified",
           "failed", "plan"}
AtRest == [kind |-> "none", at |-> "rest"]

AtWork(x) == auth[x] # AtRest
Quiet     == /\ \A x \in Auths : ~AtWork(x)
             /\ enabling = {} /\ deletion = "none"

TypeOK ==
    /\ <<exists, enabled>> \in BOOLEAN \X BOOLEAN
    /\ status \in Statuses
    /\ waiting \in 0..MaxJobs /\ running \in 0..MaxJobs
    /\ auth \in [Auths -> [kind : Kinds, at : Points] \cup {AtRest}]
    /\ enabling \subseteq BOOLEAN
    /\ deletion \in {"none", "disconnect", "queued"}
    /\ {codeHash, authorized, overlapped, revoked} \subseteq BOOLEAN
    /\ crashes \in 0..MaxCrashes

(* add_account: a new row, enabled and not connected. *)
Init ==
    /\ exists = TRUE /\ enabled = TRUE /\ status = "DISCONNECTED"
    /\ waiting = 0 /\ running = 0
    /\ auth = [x \in Auths |-> AtRest]
    /\ enabling = {} /\ deletion = "none" /\ codeHash = FALSE
    /\ authorized = FALSE
    /\ overlapped = FALSE /\ revoked = FALSE /\ crashes = 0
-----------------------------------------------------------------------------
(* Commands. *)

Issued == overlapped' = (overlapped \/ ~Quiet) /\ UNCHANGED <<revoked, crashes>>

HasNonterminalJobs == waiting + running > 0

(* _require_enabled_account, then what each command asks for. *)
MayStart(kind) ==
    /\ exists /\ enabled
    /\ kind \in {"connect", "send_code"} => running = 0
    /\ kind = "sign_in" => codeHash
    /\ kind = "workflow" => ~HasNonterminalJobs

AuthCommand(x, kind) ==
    /\ ~AtWork(x)
    /\ MayStart(kind)
    /\ auth' = [auth EXCEPT ![x] =
                   [kind |-> kind, at |-> IF kind = "sign_in" THEN "get" ELSE "connecting"]]
    /\ Issued
    /\ UNCHANGED <<row, jobs, enabling, deletion, codeHash, authorized>>

EnableAccount(value) ==
    /\ exists
    /\ ~value => ~HasNonterminalJobs
    /\ enabling' = enabling \cup {value}
    /\ Issued
    /\ UNCHANGED <<row, jobs, auth, deletion, codeHash, authorized>>

DeleteAccount ==
    /\ exists /\ ~HasNonterminalJobs
    /\ deletion = "none"
    /\ deletion' = "disconnect"
    /\ Issued
    /\ UNCHANGED <<row, jobs, auth, enabling, codeHash, authorized>>
-----------------------------------------------------------------------------
(* Worker tasks. *)

(* Mutant of SetEnabled: the status is left alone. *)
SetEnabledOnly(value) ==
    /\ value \in enabling
    /\ enabling' = enabling \ {value}
    /\ enabled' = IF exists THEN value ELSE enabled
    /\ UNCHANGED <<exists, status, jobs, auth, deletion, codeHash, authorized, history>>

(* submit_set_enabled writes both columns. *)
SetEnabled(value) ==
    /\ value \in enabling
    /\ enabling' = enabling \ {value}
    /\ IF exists
         THEN /\ enabled' = value
              /\ status' = IF value THEN "DISCONNECTED" ELSE "DISABLED"
         ELSE UNCHANGED <<enabled, status>>
    /\ UNCHANGED <<exists, jobs, auth, deletion, codeHash, authorized, history>>

(* The client is disconnected on the network thread, the rest is left to a worker. *)
DeleteQueued ==
    /\ deletion = "disconnect"
    /\ deletion' = "queued"
    /\ UNCHANGED <<row, jobs, auth, enabling, codeHash, authorized, history>>

(* Mutant of DeleteRow: the transaction does not look at the jobs again. *)
DeleteRowBlindly ==
    /\ deletion = "queued"
    /\ deletion' = "none"
    /\ exists' = FALSE
    /\ UNCHANGED <<enabled, status, jobs, auth, enabling, codeHash, authorized, history>>

(* submit_delete: the transaction that deletes the row counts the jobs itself. *)
DeleteRow ==
    /\ deletion = "queued"
    /\ deletion' = "none"
    /\ exists' = (exists /\ HasNonterminalJobs)
    /\ UNCHANGED <<enabled, status, jobs, auth, enabling, codeHash, authorized, history>>
-----------------------------------------------------------------------------
(* The coroutines of AuthService.  A write is awaited before the coroutine *)
(* goes on; to a deleted account it does nothing.                          *)

Goto(x, at) == auth' = [auth EXCEPT ![x].at = at]
End(x)      == auth' = [auth EXCEPT ![x] = AtRest]
SetStatus(s) == status' = IF exists THEN s ELSE status

Writing == UNCHANGED <<exists, enabled, jobs, enabling, deletion, codeHash, authorized, history>>
Asking  == UNCHANGED <<row, jobs, enabling, deletion, codeHash, history>>

SetConnecting(x) ==
    /\ auth[x].at = "connecting"
    /\ SetStatus("CONNECTING")
    /\ Goto(x, "get")
    /\ Writing

(* session_lookup or clients.get raises, or is_user_authorized; in sign_in *)
(* get is outside of the try.                                              *)
GetFails(x) ==
    /\ auth[x].at = "get"
    /\ IF auth[x].kind = "sign_in" THEN End(x) ELSE Goto(x, "failed")
    /\ Asking /\ UNCHANGED authorized

(* Mutant of Got: is_user_authorized is not asked for. *)
GotUnasked(x) ==
    /\ auth[x].at = "get" /\ exists
    /\ Goto(x, IF auth[x].kind \in {"send_code", "sign_in"} /\ ~authorized THEN "request"
               ELSE "identified")
    /\ Asking /\ UNCHANGED authorized

(* The client is there and has been asked whether it is authorized. *)
Got(x) ==
    /\ auth[x].at = "get" /\ exists
    /\ Goto(x, IF auth[x].kind = "sign_in" THEN "request"
               ELSE IF authorized THEN "identity"
               ELSE IF auth[x].kind = "send_code" THEN "request" ELSE "unauthorized")
    /\ Asking /\ UNCHANGED authorized

(* Telegram sends a code, or lets the user in. *)
RequestGranted(x) ==
    /\ auth[x].at = "request"
    /\ IF auth[x].kind = "send_code"
         THEN Goto(x, "sent") /\ UNCHANGED authorized
         ELSE Goto(x, "identity") /\ authorized' = TRUE
    /\ Asking

(* A wrong code or password leaves the account to be authenticated, what   *)
(* else goes wrong is an error.                                            *)
RequestDenied(x) ==
    /\ auth[x].at = "request"
    /\ \/ auth[x].kind = "sign_in" /\ Goto(x, "unauthorized")
       \/ Goto(x, "failed")
    /\ Asking /\ UNCHANGED authorized

SetAuthRequired(x) ==
    /\ auth[x].at = "unauthorized"
    /\ SetStatus("AUTH_REQUIRED")
    /\ End(x)
    /\ Writing

(* send_code returns the hash, which the callback keeps for sign_in. *)
CodeSent(x) ==
    /\ auth[x].at = "sent"
    /\ SetStatus("AUTH_REQUIRED")
    /\ codeHash' = TRUE
    /\ End(x)
    /\ UNCHANGED <<exists, enabled, jobs, enabling, deletion, authorized, history>>

SetError(x) ==
    /\ auth[x].at = "failed"
    /\ SetStatus("ERROR")
    /\ End(x)
    /\ Writing

(* refresh_identity: get_me of an authorized client ... *)
Identity(x) ==
    /\ auth[x].at = "identity"
    /\ \/ exists /\ authorized /\ Goto(x, "identified")
       \/ IF auth[x].kind = "sign_in" THEN End(x) ELSE Goto(x, "failed")
    /\ Asking /\ UNCHANGED authorized

(* ... and submit_update_identity.  A workflow goes on to plan its job, the *)
(* callback of sign_in drops the hash.                                     *)
SetReady(x) ==
    /\ auth[x].at = "identified"
    /\ SetStatus("READY")
    /\ IF auth[x].kind = "workflow" THEN Goto(x, "plan") ELSE End(x)
    /\ codeHash' = (codeHash /\ auth[x].kind # "sign_in")
    /\ UNCHANGED <<exists, enabled, jobs, enabling, deletion, authorized, history>>
-----------------------------------------------------------------------------
(* The jobs of the account, as far as they meet its row. *)

(* The planner inserts a job; its foreign key needs the account. *)
JobCreated(x) ==
    /\ auth[x].at = "plan"
    /\ \/ exists /\ waiting + running < MaxJobs /\ waiting' = waiting + 1
       \/ UNCHANGED waiting      \* nothing to do, or an error
    /\ End(x)
    /\ UNCHANGED <<row, running, enabling, deletion, codeHash, authorized, history>>

(* start_action and resume_action ask for an enabled account. *)
JobStarts ==
    /\ exists /\ enabled /\ waiting > 0
    /\ waiting' = waiting - 1 /\ running' = running + 1
    /\ UNCHANGED <<row, process, authorized, history>>

JobStops ==
    /\ \/ running > 0 /\ running' = running - 1 /\ waiting' \in {waiting, waiting + 1}
       \/ waiting > 0 /\ waiting' = waiting - 1 /\ UNCHANGED running
    /\ UNCHANGED <<row, process, authorized, history>>

(* A call of the executor finds the session logged out (_set_auth_state). *)
ExecutorUnauthorized ==
    /\ running > 0 /\ ~authorized
    /\ SetStatus("AUTH_REQUIRED")
    /\ UNCHANGED <<exists, enabled, jobs, process, authorized, history>>

Revoke ==
    /\ authorized
    /\ authorized' = FALSE /\ revoked' = TRUE
    /\ UNCHANGED <<row, jobs, process, overlapped, crashes>>

(* The process dies and is started again: the startup normalises the       *)
(* statuses of former versions only, running jobs are paused.              *)
CrashAndRestart ==
    /\ crashes < MaxCrashes
    /\ crashes' = crashes + 1
    /\ auth' = [x \in Auths |-> AtRest]
    /\ enabling' = {} /\ deletion' = "none" /\ codeHash' = FALSE
    /\ waiting' = waiting + running /\ running' = 0
    /\ UNCHANGED <<row, authorized, overlapped, revoked>>
-----------------------------------------------------------------------------
AuthStep(x) ==
    \/ SetConnecting(x) \/ GetFails(x) \/ Got(x) \/ RequestGranted(x) \/ RequestDenied(x)
    \/ SetAuthRequired(x) \/ CodeSent(x) \/ SetError(x) \/ Identity(x) \/ SetReady(x)
    \/ JobCreated(x)

Next ==
    \/ \E x \in Auths : AuthStep(x) \/ \E kind \in Kinds : AuthCommand(x, kind)
    \/ \E value \in BOOLEAN : EnableAccount(value) \/ SetEnabled(value)
    \/ DeleteAccount \/ DeleteQueued \/ DeleteRow
    \/ JobStarts \/ JobStops \/ ExecutorUnauthorized
    \/ Revoke \/ CrashAndRestart

Spec == Init /\ [][Next]_vars
-----------------------------------------------------------------------------
(* The two columns agree: what is shown as disabled is disabled, and what  *)
(* is disabled is shown so, unless commands overlap.                       *)
DisabledIsShown == exists /\ ~overlapped => (status = "DISABLED" <=> ~enabled)

(* "Stop or finish the jobs of the account before disabling it"            *)
(* (enable_account): a disabled account has no unfinished job, unless      *)
(* commands overlap.                                                       *)
DisabledHasNoJob == exists /\ ~enabled /\ ~overlapped => ~HasNonterminalJobs

(* Disabling is thorough: it shows, and leaves no job behind.              *)
DisabledIsThorough == TypeOK /\ DisabledIsShown /\ DisabledHasNoJob

(* Whatever overlaps, an unfinished job keeps its account.                 *)
JobHasAccount == HasNonterminalJobs => exists

(* An account shown as connecting is being connected, whatever fails, as   *)
(* long as the process does not die.                                       *)
ConnectingIsWorkedOn ==
    exists /\ status = "CONNECTING" /\ crashes = 0 => \E x \in Auths : AtWork(x)

(* An account shown as ready has a session that was logged in and has not  *)
(* been logged out by Telegram since.                                      *)
ReadyIsAuthorized == exists /\ status = "READY" /\ ~revoked => authorized

(* What the status of an account says is true.                             *)
StatusIsTrue == ConnectingIsWorkedOn /\ ReadyIsAuthorized
=============================================================================
