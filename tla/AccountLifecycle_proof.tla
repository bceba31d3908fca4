---------------------- MODULE AccountLifecycle_proof ----------------------
(***************************************************************************)
(* Theorems about AccountLifecycle, for any number of coroutines, jobs and *)
(* crashes: the typing of the state, that an unfinished job keeps its      *)
(* account, that what the status says is true, and that what is disabled   *)
(* is disabled thoroughly.                                                 *)
(***************************************************************************)
EXTENDS AccountLifecycle, TLAPS

AuthStates == [kind : Kinds, at : Points] \cup {AtRest}

(* The jobs that wait and those that run share the bound. *)
Bounded == waiting + running <= MaxJobs

TypeInv == TypeOK /\ Bounded

-----------------------------------------------------------------------------
(* The coroutines. *)

(* A coroutine that moves was at work, is at work, and keeps its command.  *)
LEMMA GotoMoves ==
    ASSUME auth \in [Auths -> AuthStates], NEW x \in Auths, auth[x].at # "rest",
           NEW point \in Points, Goto(x, point)
    PROVE  /\ auth' \in [Auths -> AuthStates]
           /\ auth'[x].at = point /\ auth'[x].kind = auth[x].kind
           /\ \A y \in Auths \ {x} : auth'[y] = auth[y]
           /\ AtWork(x) /\ AtWork(x)'
<1>1. auth[x] \in [kind : Kinds, at : Points]
  BY DEF AuthStates, AtRest
<1>2. auth' = [auth EXCEPT ![x] = [auth[x] EXCEPT !.at = point]]
  BY DEF Goto
<1>3. [auth[x] EXCEPT !.at = point] \in [kind : Kinds, at : Points]
  BY <1>1
<1>4. auth'[x] = [auth[x] EXCEPT !.at = point]
  BY <1>2
<1>5. auth'[x].at = point /\ auth'[x].kind = auth[x].kind
  BY <1>1, <1>4
<1>6. "rest" \notin Points
  BY DEF Points
<1>7. AtWork(x) /\ AtWork(x)'
  BY <1>5, <1>6 DEF AtWork, AtRest
<1>. QED  BY <1>2, <1>3, <1>5, <1>7 DEF AuthStates

LEMMA EndRests ==
    ASSUME auth \in [Auths -> AuthStates], NEW x \in Auths, End(x)
    PROVE  /\ auth' \in [Auths -> AuthStates]
           /\ auth'[x] = AtRest
           /\ \A y \in Auths \ {x} : auth'[y] = auth[y]
BY DEF End, AuthStates

(* What a step of a coroutine leaves alone, and how it moves. *)
LEMMA AuthStepMoves ==
    ASSUME TypeOK, NEW x \in Auths, AuthStep(x)
    PROVE  /\ auth[x].at # "rest"
           /\ End(x) \/ \E point \in Points : Goto(x, point)
           /\ UNCHANGED <<exists, enabled, running, enabling, deletion, history>>
           /\ UNCHANGED waiting \/ (exists /\ waiting + running < MaxJobs /\ waiting' = waiting + 1)
           /\ status' \in Statuses
           /\ {codeHash', authorized'} \subseteq BOOLEAN
BY DEF AuthStep, SetConnecting, GetFails, Got, RequestGranted, RequestDenied, SetAuthRequired,
       CodeSent, SetError, Identity, SetReady, JobCreated, Writing, Asking, SetStatus, row, jobs,
       history, Points, Statuses, TypeOK

-----------------------------------------------------------------------------
(* Types. *)

LEMMA TypeInit == Init => TypeInv
<1>. SUFFICES ASSUME Init PROVE TypeInv
  OBVIOUS
<1>1. auth \in [Auths -> AuthStates]
  BY DEF Init, AuthStates
<1>2. waiting \in 0..MaxJobs /\ running \in 0..MaxJobs /\ Bounded /\ crashes \in 0..MaxCrashes
  BY AccountAssumption DEF Init, Bounded
<1>. QED  BY <1>1, <1>2 DEF Init, TypeInv, TypeOK, AuthStates, Statuses

LEMMA AuthStepTypes ==
    ASSUME TypeInv, NEW x \in Auths, AuthStep(x)
    PROVE  TypeInv'
<1>1. auth' \in [Auths -> AuthStates]
  BY AuthStepMoves, GotoMoves, EndRests DEF TypeInv, TypeOK, AuthStates
<1>2. waiting' \in 0..MaxJobs /\ running' \in 0..MaxJobs /\ Bounded'
  BY AuthStepMoves, AccountAssumption DEF TypeInv, TypeOK, Bounded
<1>. QED  BY <1>1, <1>2, AuthStepMoves DEF TypeInv, TypeOK, AuthStates, history

LEMMA CommandTypes ==
    ASSUME TypeInv, NEW x \in Auths, NEW kind \in Kinds, AuthCommand(x, kind)
    PROVE  TypeInv'
<1>1. [kind |-> kind, at |-> IF kind = "sign_in" THEN "get" ELSE "connecting"]
        \in [kind : Kinds, at : Points]
  BY DEF Points
<1>2. auth' \in [Auths -> AuthStates]
  BY <1>1 DEF AuthCommand, TypeInv, TypeOK, AuthStates
<1>3. overlapped' \in BOOLEAN
  BY DEF AuthCommand, Issued, Quiet, TypeInv, TypeOK
<1>. QED  BY <1>2, <1>3 DEF AuthCommand, Issued, TypeInv, TypeOK, Bounded, AuthStates, row, jobs

(* Everything else that writes to the row or to what waits to do so. *)
LEMMA RowTypes ==
    ASSUME TypeInv,
           \/ \E value \in BOOLEAN : EnableAccount(value) \/ SetEnabled(value)
           \/ DeleteAccount \/ DeleteQueued \/ DeleteRow
    PROVE  TypeInv'
<1>1. ASSUME NEW value \in BOOLEAN, EnableAccount(value) PROVE TypeInv'
  BY <1>1 DEF EnableAccount, Issued, Quiet, TypeInv, TypeOK, Bounded, row, jobs
<1>2. ASSUME NEW value \in BOOLEAN, SetEnabled(value) PROVE TypeInv'
  BY <1>2 DEF SetEnabled, TypeInv, TypeOK, Bounded, Statuses, jobs, history
<1>3. CASE DeleteAccount
  BY <1>3 DEF DeleteAccount, Issued, Quiet, TypeInv, TypeOK, Bounded, row, jobs
<1>4. CASE DeleteQueued
  BY <1>4 DEF DeleteQueued, TypeInv, TypeOK, Bounded, row, jobs, history
<1>5. CASE DeleteRow
  BY <1>5 DEF DeleteRow, HasNonterminalJobs, TypeInv, TypeOK, Bounded, jobs, history
<1>. QED  BY <1>1, <1>2, <1>3, <1>4, <1>5

LEMMA JobTypes ==
    ASSUME TypeInv, JobStarts \/ JobStops \/ ExecutorUnauthorized \/ Revoke \/ CrashAndRestart
    PROVE  TypeInv'
<1>1. CASE JobStarts
  BY <1>1, AccountAssumption DEF JobStarts, TypeInv, TypeOK, Bounded, row, process, history
<1>2. CASE JobStops
  <2>1. running' \in 0..MaxJobs /\ waiting' \in 0..MaxJobs /\ Bounded'
    BY <1>2, AccountAssumption DEF JobStops, TypeInv, TypeOK, Bounded
  <2>. QED  BY <1>2, <2>1 DEF JobStops, TypeInv, TypeOK, row, process, history
<1>3. CASE ExecutorUnauthorized
  BY <1>3 DEF ExecutorUnauthorized, SetStatus, TypeInv, TypeOK, Bounded, Statuses, jobs, process,
              history
<1>4. CASE Revoke
  BY <1>4 DEF Revoke, TypeInv, TypeOK, Bounded, row, jobs, process
<1>5. CASE CrashAndRestart
  <2>1. auth' \in [Auths -> AuthStates]
    BY <1>5 DEF CrashAndRestart, AuthStates
  <2>2. waiting' \in 0..MaxJobs /\ running' \in 0..MaxJobs /\ Bounded' /\ crashes' \in 0..MaxCrashes
    BY <1>5, AccountAssumption DEF CrashAndRestart, TypeInv, TypeOK, Bounded
  <2>. QED  BY <1>5, <2>1, <2>2 DEF CrashAndRestart, TypeInv, TypeOK, AuthStates, row
<1>. QED  BY <1>1, <1>2, <1>3, <1>4, <1>5

(* Every variable of an account keeps its type; jobs that wait and jobs    *)
(* that run are never more than the bound on both.                         *)
THEOREM TypeCorrect == Spec => []TypeInv
<1>1. TypeInv /\ [Next]_vars => TypeInv'
  <2>. SUFFICES ASSUME TypeInv, [Next]_vars PROVE TypeInv'
    OBVIOUS
  <2>1. CASE UNCHANGED vars
    BY <2>1 DEF vars, row, jobs, process, history, TypeInv, TypeOK, Bounded
  <2>. QED  BY <2>1, AuthStepTypes, CommandTypes, RowTypes, JobTypes DEF Next
<1>. QED  BY <1>1, TypeInit, PTL DEF Spec

-----------------------------------------------------------------------------
(* The jobs of an account. *)

(* An unfinished job keeps its account, whatever overlaps: the deletion    *)
(* counts the jobs in its own transaction (submit_delete), the job is      *)
(* inserted under a foreign key.                                           *)
THEOREM JobsKeepAccount == Spec => []JobHasAccount
<1>1. Init => JobHasAccount
  BY DEF Init, JobHasAccount, HasNonterminalJobs
<1>2. TypeInv /\ JobHasAccount /\ [Next]_vars => JobHasAccount'
  <2>. SUFFICES ASSUME TypeInv, JobHasAccount, [Next]_vars PROVE JobHasAccount'
    OBVIOUS
  <2>. USE DEF JobHasAccount, HasNonterminalJobs
  <2>1. ASSUME NEW x \in Auths, AuthStep(x) PROVE JobHasAccount'
    BY <2>1, AuthStepMoves DEF TypeInv
  <2>2. ASSUME NEW x \in Auths, NEW kind \in Kinds, AuthCommand(x, kind) PROVE JobHasAccount'
    BY <2>2 DEF AuthCommand, row, jobs
  <2>3. ASSUME NEW value \in BOOLEAN, EnableAccount(value) \/ SetEnabled(value)
        PROVE  JobHasAccount'
    BY <2>3 DEF EnableAccount, SetEnabled, row, jobs
  <2>4. CASE DeleteAccount \/ DeleteQueued \/ DeleteRow
    BY <2>4 DEF DeleteAccount, DeleteQueued, DeleteRow, row, jobs
  <2>5. CASE JobStarts \/ JobStops
    BY <2>5 DEF JobStarts, JobStops, row, TypeInv, TypeOK
  <2>6. CASE ExecutorUnauthorized \/ Revoke
    BY <2>6 DEF ExecutorUnauthorized, Revoke, row, jobs
  <2>7. CASE CrashAndRestart
    BY <2>7, AccountAssumption DEF CrashAndRestart, row, TypeInv, TypeOK
  <2>8. CASE UNCHANGED vars
    BY <2>8 DEF vars, row, jobs
  <2>. QED  BY <2>1, <2>2, <2>3, <2>4, <2>5, <2>6, <2>7, <2>8 DEF Next
<1>. QED  BY <1>1, <1>2, TypeCorrect, PTL DEF Spec

-----------------------------------------------------------------------------
(* The status and the session. *)

(* Where a coroutine has heard from Telegram that the session is logged in *)
(* it is, until Telegram ends it.                                          *)
IdentityIsAuthorized ==
    \A x \in Auths : auth[x].at \in {"identity", "identified"} /\ ~revoked => authorized

(* A coroutine between its CONNECTING and the status it ends with. *)
Connecting(x) ==
    auth[x] # AtRest /\ auth[x].kind # "sign_in" /\ auth[x].at \notin {"connecting", "plan"}

(* Who has written CONNECTING is still to write another status. *)
ConnectingHasAuthor ==
    exists /\ status = "CONNECTING" /\ crashes = 0 => \E x \in Auths : Connecting(x)

(* sign_in writes no CONNECTING, and may end without a status. *)
SignInsDoNotConnect == \A x \in Auths : auth[x].kind = "sign_in" => auth[x].at # "connecting"

StatusInv ==
    /\ SignInsDoNotConnect
    /\ IdentityIsAuthorized
    /\ ConnectingHasAuthor
    /\ ReadyIsAuthorized

(* A coroutine that goes on without a status keeps what is known of it.    *)
LEMMA ConnectingGoesOn ==
    ASSUME TypeInv, ConnectingHasAuthor, NEW x \in Auths, NEW point \in Points,
           auth[x].at # "rest", Goto(x, point),
           point \notin {"connecting", "plan"} \/ ~Connecting(x),
           UNCHANGED <<exists, crashes, status>>
    PROVE  ConnectingHasAuthor'
<1>1. \A y \in Auths : Connecting(y) => Connecting(y)'
  <2>1. auth'[x] # AtRest
    BY GotoMoves DEF TypeInv, TypeOK, AuthStates, AtWork
  <2>. QED  BY <2>1, GotoMoves DEF TypeInv, TypeOK, AuthStates, Connecting
<1>. QED  BY <1>1 DEF ConnectingHasAuthor

(* A coroutine that did not write CONNECTING may end.                      *)
LEMMA ConnectingMayEnd ==
    ASSUME TypeInv, ConnectingHasAuthor, NEW x \in Auths, End(x), ~Connecting(x),
           UNCHANGED <<exists, crashes, status>>
    PROVE  ConnectingHasAuthor'
BY EndRests DEF TypeInv, TypeOK, AuthStates, Connecting, ConnectingHasAuthor

(* The status that a coroutine writes is another one. *)
LEMMA ConnectingIsOver ==
    ASSUME exists' => status' # "CONNECTING"
    PROVE  ConnectingHasAuthor'
BY DEF ConnectingHasAuthor

LEMMA ConnectingStep ==
    ASSUME TypeInv, SignInsDoNotConnect, ConnectingHasAuthor, NEW x \in Auths, AuthStep(x)
    PROVE  ConnectingHasAuthor'
<1>0. /\ auth[x].at # "rest"
      /\ UNCHANGED <<exists, crashes>>
  BY AuthStepMoves DEF TypeInv, history
<1>1. CASE SetConnecting(x)
  <2>1. auth'[x].kind # "sign_in" /\ auth'[x].at = "get" /\ AtWork(x)'
    BY <1>0, <1>1, GotoMoves
       DEF SetConnecting, SignInsDoNotConnect, TypeInv, TypeOK, AuthStates, Points
  <2>. QED  BY <2>1 DEF ConnectingHasAuthor, Connecting, AtWork
<1>2. CASE GetFails(x) \/ Identity(x)
  <2>1. UNCHANGED status
    BY <1>2 DEF GetFails, Identity, Asking, row
  <2>2. CASE End(x) /\ auth[x].kind = "sign_in"
    BY <1>0, <2>1, <2>2, ConnectingMayEnd DEF Connecting
  <2>3. CASE \E point \in {"failed", "identified"} : Goto(x, point)
    BY <1>0, <2>1, <2>3, ConnectingGoesOn DEF Points
  <2>. QED  BY <1>2, <2>2, <2>3 DEF GetFails, Identity
<1>3. CASE Got(x) \/ RequestGranted(x) \/ RequestDenied(x)
  <2>1. UNCHANGED status
    BY <1>3 DEF Got, RequestGranted, RequestDenied, Asking, row
  <2>2. \E point \in {"request", "identity", "unauthorized", "sent", "failed"} : Goto(x, point)
    BY <1>3 DEF Got, RequestGranted, RequestDenied
  <2>. QED  BY <1>0, <2>1, <2>2, ConnectingGoesOn DEF Points
<1>4. CASE SetAuthRequired(x) \/ CodeSent(x) \/ SetError(x) \/ SetReady(x)
  BY <1>0, <1>4, ConnectingIsOver DEF SetAuthRequired, CodeSent, SetError, SetReady, SetStatus
<1>5. CASE JobCreated(x)
  BY <1>0, <1>5, ConnectingMayEnd DEF JobCreated, Connecting, row
<1>. QED  BY <1>1, <1>2, <1>3, <1>4, <1>5 DEF AuthStep

LEMMA IdentityStep ==
    ASSUME TypeInv, SignInsDoNotConnect, IdentityIsAuthorized, ReadyIsAuthorized,
           NEW x \in Auths, AuthStep(x)
    PROVE  SignInsDoNotConnect' /\ IdentityIsAuthorized' /\ ReadyIsAuthorized'
<1>0. /\ auth[x].at # "rest" /\ UNCHANGED <<exists, revoked>>
      /\ authorized => authorized'
  <2>1. authorized => authorized'
    BY DEF AuthStep, SetConnecting, GetFails, Got, RequestGranted, RequestDenied,
           SetAuthRequired, CodeSent, SetError, Identity, SetReady, JobCreated, Writing, Asking
  <2>. QED  BY <2>1, AuthStepMoves DEF TypeInv, history
<1>1. End(x) \/ \E point \in Points \ {"connecting"} :
                   /\ Goto(x, point)
                   /\ point \in {"identity", "identified"} => authorized' \/ revoked
  BY DEF AuthStep, SetConnecting, GetFails, Got, RequestGranted, RequestDenied,
         SetAuthRequired, CodeSent, SetError, Identity, SetReady, JobCreated, Writing, Asking,
         Points
<1>2. SignInsDoNotConnect' /\ IdentityIsAuthorized'
  <2>1. CASE End(x)
    BY <1>0, <2>1, EndRests DEF TypeInv, TypeOK, AuthStates, AtRest, SignInsDoNotConnect,
                                IdentityIsAuthorized
  <2>2. ASSUME NEW point \in Points \ {"connecting"}, Goto(x, point),
               point \in {"identity", "identified"} => authorized' \/ revoked
        PROVE  SignInsDoNotConnect' /\ IdentityIsAuthorized'
    BY <1>0, <2>2, GotoMoves DEF TypeInv, TypeOK, AuthStates, SignInsDoNotConnect,
                                 IdentityIsAuthorized
  <2>. QED  BY <1>1, <2>1, <2>2
<1>3. ReadyIsAuthorized'
  <2>1. CASE SetReady(x)
    BY <1>0, <2>1 DEF SetReady, IdentityIsAuthorized, ReadyIsAuthorized
  <2>2. CASE UNCHANGED status
    BY <1>0, <2>2 DEF ReadyIsAuthorized
  <2>3. CASE \E s \in Statuses \ {"READY"} : SetStatus(s)
    BY <1>0, <2>3 DEF SetStatus, ReadyIsAuthorized
  <2>4. UNCHANGED status \/ SetReady(x) \/ \E s \in Statuses \ {"READY"} : SetStatus(s)
    BY DEF AuthStep, SetConnecting, GetFails, Got, RequestGranted, RequestDenied,
           SetAuthRequired, CodeSent, SetError, Identity, JobCreated, Asking, row, Statuses
  <2>. QED  BY <2>1, <2>2, <2>3, <2>4
<1>. QED  BY <1>2, <1>3

(* A command starts a coroutine that has written nothing yet. *)
LEMMA CommandStatus ==
    ASSUME TypeInv, StatusInv, NEW x \in Auths, NEW kind \in Kinds, AuthCommand(x, kind)
    PROVE  StatusInv'
<1>1. /\ auth[x] = AtRest
      /\ auth'[x] = [kind |-> kind, at |-> IF kind = "sign_in" THEN "get" ELSE "connecting"]
      /\ \A y \in Auths \ {x} : auth'[y] = auth[y]
      /\ UNCHANGED <<exists, status, authorized, revoked, crashes>>
  BY DEF AuthCommand, AtWork, Issued, row, TypeInv, TypeOK
<1>2. \A y \in Auths : Connecting(y) => Connecting(y)'
  BY <1>1 DEF Connecting
<1>. QED  BY <1>1, <1>2 DEF StatusInv, SignInsDoNotConnect, IdentityIsAuthorized,
                            ConnectingHasAuthor, ReadyIsAuthorized

(* Everything else but a crash leaves the coroutines alone, and writes     *)
(* nothing that they vouch for.                                            *)
Aside ==
    /\ UNCHANGED <<auth, crashes>>
    /\ exists' => exists
    /\ UNCHANGED status \/ status' \notin {"CONNECTING", "READY"}
    /\ UNCHANGED <<authorized, revoked>> \/ revoked' = TRUE

LEMMA EnableAside == ASSUME NEW value \in BOOLEAN, EnableAccount(value) PROVE Aside
BY DEF EnableAccount, Issued, row, Aside

LEMMA SetEnabledAside == ASSUME NEW value \in BOOLEAN, SetEnabled(value) PROVE Aside
<1>1. UNCHANGED status \/ status' \in {"DISCONNECTED", "DISABLED"}
  BY DEF SetEnabled
<1>2. UNCHANGED <<auth, crashes, exists, authorized, revoked>>
  BY DEF SetEnabled, history
<1>. QED  BY <1>1, <1>2 DEF Aside

LEMMA DeletionAside == ASSUME DeleteAccount \/ DeleteQueued PROVE Aside
BY DEF DeleteAccount, DeleteQueued, Issued, row, history, Aside

LEMMA DeleteRowAside == ASSUME DeleteRow PROVE Aside
BY DEF DeleteRow, history, Aside

LEMMA JobsAside == ASSUME JobStarts \/ JobStops PROVE Aside
<1>1. UNCHANGED <<row, process, authorized, history>>
  BY DEF JobStarts, JobStops
<1>. QED  BY <1>1 DEF row, process, history, Aside

LEMMA UnauthorizedAside == ASSUME ExecutorUnauthorized PROVE Aside
<1>1. UNCHANGED status \/ status' = "AUTH_REQUIRED"
  BY DEF ExecutorUnauthorized, SetStatus
<1>2. UNCHANGED <<exists, process, authorized, history>>
  BY DEF ExecutorUnauthorized
<1>. QED  BY <1>1, <1>2 DEF process, history, Aside

LEMMA RevokeAside == ASSUME Revoke PROVE Aside
<1>1. UNCHANGED <<row, process, crashes>> /\ revoked' = TRUE
  BY DEF Revoke
<1>. QED  BY <1>1 DEF row, process, Aside

LEMMA StutterAside == ASSUME UNCHANGED vars PROVE Aside
BY DEF vars, row, process, history, Aside

LEMMA AsideStatus ==
    ASSUME StatusInv, Aside
    PROVE  StatusInv'
<1>1. SignInsDoNotConnect' /\ IdentityIsAuthorized'
  BY DEF Aside, StatusInv, SignInsDoNotConnect, IdentityIsAuthorized
<1>2. ConnectingHasAuthor'
  BY DEF Aside, StatusInv, ConnectingHasAuthor, Connecting
<1>3. ReadyIsAuthorized'
  BY DEF Aside, StatusInv, ReadyIsAuthorized
<1>. QED  BY <1>1, <1>2, <1>3 DEF StatusInv

(* A crash ends the coroutines. *)
LEMMA CrashStatus ==
    ASSUME TypeInv, StatusInv, CrashAndRestart
    PROVE  StatusInv'
<1>1. crashes' # 0
  BY AccountAssumption DEF CrashAndRestart, TypeInv, TypeOK
<1>. QED  BY <1>1 DEF CrashAndRestart, AtRest, row, StatusInv, SignInsDoNotConnect,
                      IdentityIsAuthorized, ConnectingHasAuthor, ReadyIsAuthorized

(* What the status says of an account is true: CONNECTING is worked on     *)
(* unless the process has died, READY was logged in, however coroutines,   *)
(* enabling, deletion and executors overlap.                               *)
THEOREM StatusCorrect == Spec => []StatusIsTrue
<1>1. Init => StatusInv
  BY DEF Init, StatusInv, SignInsDoNotConnect, IdentityIsAuthorized, ConnectingHasAuthor,
         ReadyIsAuthorized, AtRest
<1>2. TypeInv /\ StatusInv /\ [Next]_vars => StatusInv'
  <2>. SUFFICES ASSUME TypeInv, StatusInv, [Next]_vars PROVE StatusInv'
    OBVIOUS
  <2>1. ASSUME NEW x \in Auths, AuthStep(x) PROVE StatusInv'
    BY <2>1, ConnectingStep, IdentityStep DEF StatusInv
  <2>2. ASSUME NEW x \in Auths, NEW kind \in Kinds, AuthCommand(x, kind) PROVE StatusInv'
    BY <2>2, CommandStatus
  <2>3. ASSUME NEW value \in BOOLEAN, EnableAccount(value) \/ SetEnabled(value) PROVE StatusInv'
    BY <2>3, EnableAside, SetEnabledAside, AsideStatus
  <2>4. CASE DeleteAccount \/ DeleteQueued \/ DeleteRow
    BY <2>4, DeletionAside, DeleteRowAside, AsideStatus
  <2>5. CASE JobStarts \/ JobStops \/ ExecutorUnauthorized
    BY <2>5, JobsAside, UnauthorizedAside, AsideStatus
  <2>6. CASE Revoke \/ UNCHANGED vars
    BY <2>6, RevokeAside, StutterAside, AsideStatus
  <2>7. CASE CrashAndRestart
    BY <2>7, CrashStatus
  <2>. QED  BY <2>1, <2>2, <2>3, <2>4, <2>5, <2>6, <2>7 DEF Next
<1>3. StatusInv => StatusIsTrue
  BY DEF StatusInv, ConnectingHasAuthor, Connecting, ReadyIsAuthorized, StatusIsTrue,
         ConnectingIsWorkedOn, AtWork
<1>. QED  BY <1>1, <1>2, <1>3, TypeCorrect, PTL DEF Spec

-----------------------------------------------------------------------------
(* Disabling. *)

(* Unless commands overlap, an account whose coroutine is at work is       *)
(* enabled, and nobody is about to write to that.                          *)
WorkIsAlone == ~overlapped => \A x \in Auths : AtWork(x) => enabled /\ enabling = {}

(* A write of enabled = FALSE waits only while there is no job, and no     *)
(* coroutine that might create one.                                        *)
DisablingHasNoJob == ~overlapped /\ FALSE \in enabling => ~HasNonterminalJobs

DisabledInv == WorkIsAlone /\ DisablingHasNoJob /\ DisabledIsShown /\ DisabledHasNoJob

LEMMA AuthStepDisabled ==
    ASSUME TypeInv, DisabledInv, NEW x \in Auths, AuthStep(x)
    PROVE  DisabledInv'
<1>1. /\ AtWork(x)
      /\ UNCHANGED <<exists, enabled, enabling, overlapped>>
  BY AuthStepMoves DEF TypeInv, history, AtWork, AtRest
<1>2. UNCHANGED status \/ \E s \in Statuses \ {"DISABLED"} : SetStatus(s)
  BY DEF AuthStep, SetConnecting, GetFails, Got, RequestGranted, RequestDenied,
         SetAuthRequired, CodeSent, SetError, Identity, SetReady, JobCreated, Asking, row, Statuses
<1>3. CASE overlapped
  BY <1>1, <1>3 DEF DisabledInv, WorkIsAlone, DisablingHasNoJob, DisabledIsShown, DisabledHasNoJob
<1>4. CASE ~overlapped
  <2>1. enabled' /\ enabling' = {}
    BY <1>1, <1>4 DEF DisabledInv, WorkIsAlone
  <2>2. exists /\ status' = "DISABLED" => status = "DISABLED"
    BY <1>2 DEF SetStatus
  <2>3. DisabledIsShown'
    BY <1>1, <1>4, <2>1, <2>2 DEF DisabledInv, DisabledIsShown
  <2>. QED  BY <2>1, <2>3 DEF DisabledInv, WorkIsAlone, DisablingHasNoJob, DisabledHasNoJob
<1>. QED  BY <1>3, <1>4

(* A command that does not overlap finds the account quiet. *)
LEMMA CommandDisabled ==
    ASSUME TypeInv, DisabledInv, NEW x \in Auths, NEW kind \in Kinds, AuthCommand(x, kind)
    PROVE  DisabledInv'
<1>1. /\ enabled
      /\ ~overlapped' => ~overlapped /\ enabling = {}
      /\ UNCHANGED <<exists, enabled, status, waiting, running, enabling>>
  BY DEF AuthCommand, MayStart, Issued, Quiet, row, jobs
<1>. QED  BY <1>1 DEF DisabledInv, WorkIsAlone, DisablingHasNoJob, DisabledIsShown,
                      DisabledHasNoJob, HasNonterminalJobs

LEMMA EnableDisabled ==
    ASSUME TypeInv, DisabledInv, NEW value \in BOOLEAN, EnableAccount(value)
    PROVE  DisabledInv'
<1>1. /\ ~value => ~HasNonterminalJobs
      /\ enabling' = enabling \cup {value}
      /\ ~overlapped' => ~overlapped /\ enabling = {} /\ \A x \in Auths : ~AtWork(x)
      /\ UNCHANGED <<exists, enabled, status, waiting, running, auth>>
  BY DEF EnableAccount, Issued, Quiet, row, jobs
<1>2. WorkIsAlone'
  BY <1>1 DEF WorkIsAlone, AtWork
<1>3. DisablingHasNoJob'
  BY <1>1 DEF DisablingHasNoJob, HasNonterminalJobs
<1>4. DisabledIsShown' /\ DisabledHasNoJob'
  BY <1>1 DEF DisabledInv, DisabledIsShown, DisabledHasNoJob, HasNonterminalJobs
<1>. QED  BY <1>2, <1>3, <1>4 DEF DisabledInv

LEMMA SetEnabledDisabled ==
    ASSUME TypeInv, DisabledInv, NEW value \in BOOLEAN, SetEnabled(value)
    PROVE  DisabledInv'
<1>1. /\ value \in enabling
      /\ enabling' = enabling \ {value}
      /\ exists => enabled' = value /\ status' = IF value THEN "DISCONNECTED" ELSE "DISABLED"
      /\ UNCHANGED <<exists, waiting, running, auth, overlapped>>
  BY DEF SetEnabled, jobs, history
<1>2. WorkIsAlone'
  BY <1>1 DEF DisabledInv, WorkIsAlone, AtWork
<1>3. DisablingHasNoJob'
  BY <1>1 DEF DisabledInv, DisablingHasNoJob, HasNonterminalJobs
<1>4. DisabledIsShown'
  <2>1. CASE value
    BY <1>1, <2>1 DEF DisabledIsShown
  <2>2. CASE ~value
    BY <1>1, <2>2 DEF DisabledIsShown
  <2>. QED  BY <2>1, <2>2
<1>5. DisabledHasNoJob'
  <2>1. CASE value
    BY <1>1, <2>1 DEF DisabledHasNoJob
  <2>2. CASE ~value
    <3>1. FALSE \in enabling
      BY <1>1, <2>2
    <3>. QED  BY <1>1, <3>1 DEF DisabledInv, DisablingHasNoJob, DisabledHasNoJob,
                                HasNonterminalJobs
  <2>. QED  BY <2>1, <2>2
<1>. QED  BY <1>2, <1>3, <1>4, <1>5 DEF DisabledInv

(* Deletion and revocation leave alone what the invariant is about.        *)
LEMMA DeletionDisabled ==
    ASSUME TypeInv, DisabledInv,
           DeleteAccount \/ DeleteQueued \/ DeleteRow \/ Revoke \/ UNCHANGED vars
    PROVE  DisabledInv'
<1>1. /\ UNCHANGED <<enabled, status, waiting, running, auth, enabling>>
      /\ exists' => exists
      /\ ~overlapped' => ~overlapped
  <2>1. CASE DeleteAccount
    BY <2>1 DEF DeleteAccount, Issued, row, jobs
  <2>2. CASE DeleteQueued
    BY <2>2 DEF DeleteQueued, row, jobs, history
  <2>3. CASE DeleteRow
    BY <2>3 DEF DeleteRow, jobs, history
  <2>4. CASE Revoke
    BY <2>4 DEF Revoke, row, jobs, process
  <2>5. CASE UNCHANGED vars
    BY <2>5 DEF vars, row, jobs, process, history
  <2>. QED  BY <2>1, <2>2, <2>3, <2>4, <2>5
<1>2. WorkIsAlone' /\ DisablingHasNoJob'
  BY <1>1 DEF DisabledInv, WorkIsAlone, DisablingHasNoJob, AtWork, HasNonterminalJobs
<1>3. DisabledIsShown' /\ DisabledHasNoJob'
  BY <1>1 DEF DisabledInv, DisabledIsShown, DisabledHasNoJob, HasNonterminalJobs
<1>. QED  BY <1>2, <1>3 DEF DisabledInv

(* Jobs that start, stop or end where the process died are not new.        *)
LEMMA JobsDisabled ==
    ASSUME TypeInv, DisabledInv, JobStarts \/ JobStops \/ ExecutorUnauthorized \/ CrashAndRestart
    PROVE  DisabledInv'
<1>1. /\ UNCHANGED <<exists, enabled, overlapped>>
      /\ HasNonterminalJobs' => HasNonterminalJobs
  <2>1. CASE JobStarts \/ JobStops
    BY <2>1 DEF JobStarts, JobStops, row, history, HasNonterminalJobs, TypeInv, TypeOK
  <2>2. CASE ExecutorUnauthorized \/ CrashAndRestart
    BY <2>2 DEF ExecutorUnauthorized, CrashAndRestart, row, jobs, history, HasNonterminalJobs,
                TypeInv, TypeOK
  <2>. QED  BY <2>1, <2>2
<1>2. UNCHANGED <<auth, enabling>> \/ (enabling' = {} /\ \A x \in Auths : auth'[x] = AtRest)
  <2>1. CASE CrashAndRestart
    BY <2>1 DEF CrashAndRestart
  <2>2. CASE JobStarts \/ JobStops \/ ExecutorUnauthorized
    BY <2>2 DEF JobStarts, JobStops, ExecutorUnauthorized, process
  <2>. QED  BY <2>1, <2>2
<1>3. UNCHANGED status \/ (HasNonterminalJobs /\ SetStatus("AUTH_REQUIRED"))
  BY DEF JobStarts, JobStops, ExecutorUnauthorized, CrashAndRestart, row, HasNonterminalJobs,
         TypeInv, TypeOK
<1>4. WorkIsAlone' /\ DisablingHasNoJob'
  BY <1>1, <1>2 DEF DisabledInv, WorkIsAlone, DisablingHasNoJob, AtWork
<1>5. DisabledIsShown' /\ DisabledHasNoJob'
  BY <1>1, <1>3 DEF DisabledInv, DisabledIsShown, DisabledHasNoJob, SetStatus
<1>. QED  BY <1>4, <1>5 DEF DisabledInv

(* Unless commands overlap, what is disabled is shown so and has no        *)
(* unfinished job, and what is shown as disabled is disabled.              *)
THEOREM DisabledCorrect == Spec => []DisabledIsThorough
<1>1. Init => DisabledInv
  BY DEF Init, DisabledInv, WorkIsAlone, DisablingHasNoJob, DisabledIsShown, DisabledHasNoJob,
         AtWork
<1>2. TypeInv /\ DisabledInv /\ [Next]_vars => DisabledInv'
  <2>. SUFFICES ASSUME TypeInv, DisabledInv, [Next]_vars PROVE DisabledInv'
    OBVIOUS
  <2>1. ASSUME NEW x \in Auths, AuthStep(x) PROVE DisabledInv'
    BY <2>1, AuthStepDisabled
  <2>2. ASSUME NEW x \in Auths, NEW kind \in Kinds, AuthCommand(x, kind) PROVE DisabledInv'
    BY <2>2, CommandDisabled
  <2>3. ASSUME NEW value \in BOOLEAN, EnableAccount(value) \/ SetEnabled(value)
        PROVE  DisabledInv'
    BY <2>3, EnableDisabled, SetEnabledDisabled
  <2>4. CASE DeleteAccount \/ DeleteQueued \/ DeleteRow \/ Revoke \/ UNCHANGED vars
    BY <2>4, DeletionDisabled
  <2>5. CASE JobStarts \/ JobStops \/ ExecutorUnauthorized \/ CrashAndRestart
    BY <2>5, JobsDisabled
  <2>. QED  BY <2>1, <2>2, <2>3, <2>4, <2>5 DEF Next
<1>3. TypeInv /\ DisabledInv => DisabledIsThorough
  BY DEF TypeInv, DisabledInv, DisabledIsThorough
<1>. QED  BY <1>1, <1>2, <1>3, TypeCorrect, PTL DEF Spec
=============================================================================
