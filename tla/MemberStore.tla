---------------------------- MODULE MemberStore ----------------------------
(***************************************************************************)
(* The members the studio knows, the datasets they are in and the plans    *)
(* made from them: members/repository.py, datasets/, migration/planner.py  *)
(* and the tables they share.  Scans and imports ingest members, a member  *)
(* known by its username alone is merged into its row once its Telegram id *)
(* turns up, two datasets are combined by a worker, and a plan makes a job *)
(* of the rows of a dataset; all of them interleave by transactions.       *)
(*                                                                         *)
(* Of a member only the id, the username (in lower case) and whether it    *)
(* came with an access hash are seen; plans are those of one account for   *)
(* one target group.  What a crash leaves of a combination or of a         *)
(* preparation is not modelled; what it takes from a job is (ResultsLost). *)
(***************************************************************************)
EXTENDS FiniteSets, Naturals, SequencesExt

CONSTANTS
    Ids, NoId,        \* Telegram users
    Names, NoName,    \* usernames
    Found,            \* the members that scans and files turn up
    Present,          \* who is in the target group at first
    Given, Combined,  \* datasets that are collected, the one that is combined
    MaxRows, MaxBatch, MaxIngests, MaxJobs  \* bounds of the exploration

ASSUME MemberAssumption ==
    /\ NoId \notin Ids /\ NoName \notin Names /\ Combined \notin Given
    /\ {MaxRows, MaxBatch, MaxIngests, MaxJobs} \subseteq Nat

Datasets == Given \cup {Combined}
Rows     == 1..MaxRows

(* What a scan or a file may say of a member. *)
Members == [id : Ids \cup {NoId}, name : Names \cup {NoName}, hash : BOOLEAN]

ASSUME FoundAssumption == Found \subseteq Members /\ Present \subseteq Ids

(* A row of members; a row that was never inserted or is deleted is NoRow. *)
NoRow == [id |-> NoId, name |-> NoName]
Known == [id : Ids \cup {NoId}, name : Names \cup {NoName}]

VARIABLES
    store,     \* the tables members, dataset_members, peer_cache
    count,     \* datasets.member_count
    combine,   \* what the worker that combines two datasets is doing
    prep,      \* what the preparation of an action is doing
    jobs,      \* the action jobs and their items
    target,    \* Telegram: who is in the target group
    added,     \* history: who was added to it by a job
    unrecorded, \* history: who was added with nothing on record to say so
    ingests    \* bounded calls of submit_ingest_batch so far

vars == <<store, count, combine, prep, jobs, target, added, unrecorded, ingests>>

NoCombine == [pc |-> "idle", op |-> "UNION", a |-> {}, b |-> {}]
NoPrep    == [pc |-> "idle", action |-> "INVITE", seen |-> {}, chosen |-> {}]

(* The rows of migration_items and, of the running executor, the results   *)
(* in its buffer, which is empty for a job that does not run.              *)
Outcomes == {"SUCCESS", "SKIPPED", "FAILED"}
ItemStates == {"READY"} \cup Outcomes
NothingHeard == [r \in Rows |-> "NONE"]
Jobs == [action : {"INVITE", "REMOVE"},
         over   : BOOLEAN,
         items  : UNION {[R -> ItemStates] : R \in SUBSET Rows},
         heard  : [Rows -> Outcomes \cup {"NONE"}]]

TypeOK ==
    /\ store.rows \in [Rows -> Known]
    /\ store.born \in 0..MaxRows
    /\ store.inside \subseteq Datasets \X {r \in Rows : store.rows[r] # NoRow}
    /\ store.hashes \subseteq Ids
    /\ count \in [Datasets -> 0..MaxRows]
    /\ combine.pc \in {"idle", "read", "add", "second"}
    /\ combine.op \in {"UNION", "INTERSECTION", "DIFFERENCE"}
    /\ combine.a \cup combine.b \subseteq (Ids \cup Names) \X Rows
    /\ prep.pc \in {"idle", "checked", "created"}
    /\ prep.seen \subseteq Ids /\ prep.chosen \subseteq Rows
    /\ Len(jobs) <= MaxJobs /\ \A j \in DOMAIN jobs : jobs[j] \in Jobs
    /\ target \subseteq Ids /\ added \subseteq Ids /\ unrecorded \subseteq Ids
    /\ ingests \in 0..MaxIngests

Init ==
    /\ store = [rows |-> [r \in Rows |-> NoRow], born |-> 0, inside |-> {}, hashes |-> {}]
    /\ count = [d \in Datasets |-> 0]
    /\ combine = NoCombine /\ prep = NoPrep
    /\ jobs = <<>>
    /\ target = Present
    /\ added = {} /\ unrecorded = {} /\ ingests = 0
-----------------------------------------------------------------------------
(* Ingestion. *)

IdRows(t, i)       == {r \in Rows : i # NoId /\ t.rows[r].id = i}
FallbackRows(t, n) == {r \in Rows : n # NoName /\ t.rows[r] = [id |-> NoId, name |-> n]}

(* The row a member is written to: its own by the id, else the one of its  *)
(* username that has no id yet, else a new one.                            *)
RowOf(t, m) ==
    LET own   == IdRows(t, m.id)
        known == IF own # {} THEN own ELSE FallbackRows(t, m.name)
    IN  IF known # {} THEN CHOOSE r \in known : TRUE ELSE t.born + 1

(* Mutant of MergeFallback: the datasets of the deleted row forget the member. *)
MergeFallbackOnly(t, old, r) ==
    [t EXCEPT !.rows   = [@ EXCEPT ![old] = NoRow],
              !.inside = {p \in @ : p[2] # old}]

(* The datasets of the row without an id are passed on, the row is deleted. *)
MergeFallback(t, old, r) ==
    [t EXCEPT !.rows   = [@ EXCEPT ![old] = NoRow],
              !.inside = {<<p[1], IF p[2] = old THEN r ELSE p[2]>> : p \in @}]

(* Mutant of UpsertOne: a row without an id is not looked for. *)
UpsertOneById(t, m) ==
    LET own == IdRows(t, m.id)
        r   == IF own # {} THEN CHOOSE x \in own : TRUE ELSE t.born + 1
    IN  [t EXCEPT !.rows = [@ EXCEPT ![r] = [id |-> m.id, name |-> m.name]],
                  !.born = IF r > @ THEN r ELSE @]

UpsertOne(t, m) ==
    LET r       == RowOf(t, m)
        written == [t EXCEPT !.rows = [@ EXCEPT ![r] = [id |-> m.id, name |-> m.name]],
                             !.born = IF r > @ THEN r ELSE @]
        others  == FallbackRows(t, m.name) \ {r}
    IN  IF others = {} THEN written
        ELSE MergeFallback(written, CHOOSE old \in others : TRUE, r)

Invalid(m) == m.id = NoId /\ m.name = NoName

IngestOne(t, d, m) ==
    IF Invalid(m) THEN t
    ELSE [UpsertOne(t, m) EXCEPT
             !.inside = @ \cup {<<d, RowOf(t, m)>>},
             !.hashes = @ \cup IF m.hash /\ m.id # NoId THEN {m.id} ELSE {}]

MembersOf(t, d) == {p[2] : p \in {q \in t.inside : q[1] = d}}
Recount(t, d)   == count' = [count EXCEPT ![d] = Cardinality(MembersOf(t, d))]

(* The transaction of submit_ingest_batch. *)
Ingest(d, batch) ==
    /\ ingests < MaxIngests
    /\ ingests' = ingests + 1
    /\ store' = FoldLeft(LAMBDA t, m : IngestOne(t, d, m), store, batch)
    /\ store'.born <= MaxRows
    /\ Recount(store', d)
    /\ UNCHANGED <<combine, prep, jobs, target, added, unrecorded>>
-----------------------------------------------------------------------------
(* DatasetService.combine, on a worker. *)

KeyOf(row) == IF row.id # NoId THEN row.id ELSE row.name

(* identity_map: a row with neither id nor username has no key; there is none. *)
IdentityMap(d) == {<<KeyOf(store.rows[r]), r>> : r \in MembersOf(store, d)}

KeysOf(map) == {e[1] : e \in map}

(* Mutant of Keys: members that both datasets have are taken for one side's. *)
KeysApart(op, a, b) ==
    IF op = "UNION" THEN (KeysOf(a) \ KeysOf(b)) \cup (KeysOf(b) \ KeysOf(a))
    ELSE IF op = "INTERSECTION" THEN KeysOf(a) \cap KeysOf(b)
    ELSE KeysOf(a) \ KeysOf(b)

Keys(op, a, b) ==
    IF op = "UNION" THEN KeysOf(a) \cup KeysOf(b)
    ELSE IF op = "INTERSECTION" THEN KeysOf(a) \cap KeysOf(b)
    ELSE KeysOf(a) \ KeysOf(b)

(* The rows of one side that have a key of the result. *)
Side(map) == {e[2] : e \in {x \in map : x[1] \in Keys(combine.op, combine.a, combine.b)}}

CombineReads(d, op) ==
    /\ combine.pc = "idle" /\ MembersOf(store, Combined) = {}
    /\ combine' = [NoCombine EXCEPT !.pc = "read", !.op = op, !.a = IdentityMap(d)]
    /\ UNCHANGED <<store, count, prep, jobs, target, added, unrecorded, ingests>>

CombineReadsOther(d) ==
    /\ combine.pc = "read"
    /\ combine' = [combine EXCEPT !.pc = "add", !.b = IdentityMap(d)]
    /\ UNCHANGED <<store, count, prep, jobs, target, added, unrecorded, ingests>>

(* submit_add_member_ids: a row deleted since it was read is a foreign key *)
(* that fails, and with it the transaction and the command; the dataset    *)
(* stays as it is.                                                         *)
AddMemberIds(rows, next) ==
    IF \A r \in rows : store.rows[r] # NoRow
      THEN /\ store' = [store EXCEPT !.inside = @ \cup ({Combined} \X rows)]
           /\ IF rows = {} THEN UNCHANGED count ELSE Recount(store', Combined)
           /\ combine' = next
      ELSE UNCHANGED <<store, count>> /\ combine' = NoCombine

CombineAdds ==
    /\ combine.pc = "add"
    /\ AddMemberIds(Side(combine.a), [combine EXCEPT !.pc = "second"])
    /\ UNCHANGED <<prep, jobs, target, added, unrecorded, ingests>>

CombineAddsOther ==
    /\ combine.pc = "second"
    /\ AddMemberIds(Side(combine.b), NoCombine)
    /\ UNCHANGED <<prep, jobs, target, added, unrecorded, ingests>>
-----------------------------------------------------------------------------
(* Plans and jobs. *)

Free == prep.pc = "idle" /\ \A j \in DOMAIN jobs : jobs[j].over

(* The precheck lists the target group, or a part of it, or nothing. *)
Precheck(action) ==
    /\ Free /\ Len(jobs) < MaxJobs
    /\ \E seen \in SUBSET target :
          prep' = [NoPrep EXCEPT !.pc = "checked", !.action = action, !.seen = seen]
    /\ UNCHANGED <<store, count, combine, jobs, target, added, unrecorded, ingests>>

(* Mutant of ProcessedIds: the other kind of job. *)
ProcessedIdsOfRemovals ==
    {store.rows[r].id : r \in UNION {{x \in DOMAIN jobs[j].items :
        jobs[j].action = "REMOVE" /\ jobs[j].items[x] \in {"SUCCESS", "SKIPPED"}} : j \in DOMAIN jobs}}

(* processed_user_ids_for_target *)
ProcessedIds ==
    {store.rows[r].id : r \in UNION {{x \in DOMAIN jobs[j].items :
        jobs[j].action = "INVITE" /\ jobs[j].items[x] \in {"SUCCESS", "SKIPPED"}} : j \in DOMAIN jobs}}

(* The rows of a dataset that the account can address. *)
Reachable(d) == {r \in MembersOf(store, d) : store.rows[r].id \in store.hashes}

(* create_plan and create_remove_plan: of the rows that can be addressed   *)
(* the filters keep some (never the account itself); a removal is for who  *)
(* was seen in the target, an invitation for who was not and whom no job   *)
(* has dealt with.                                                         *)
Candidates(d) ==
    IF prep.action = "REMOVE"
      THEN {r \in Reachable(d) : store.rows[r].id \in prep.seen}
      ELSE {r \in Reachable(d) : store.rows[r].id \notin prep.seen \cup ProcessedIds}

NewJob == [action |-> prep.action, over |-> FALSE, items |-> <<>>, heard |-> NothingHeard]

CreatePlan(d) ==
    /\ prep.pc = "checked"
    /\ \E kept \in SUBSET Candidates(d) :
          prep' = [prep EXCEPT !.pc = "created", !.chosen = kept]
    /\ jobs' = Append(jobs, NewJob)
    /\ UNCHANGED <<store, count, combine, target, added, unrecorded, ingests>>

(* submit_add_items, a transaction of its own. *)
AddItems ==
    /\ prep.pc = "created"
    /\ jobs' = [jobs EXCEPT ![Len(jobs)].items = [r \in prep.chosen |-> "READY"]]
    /\ prep' = NoPrep
    /\ UNCHANGED <<store, count, combine, target, added, unrecorded, ingests>>

(* A call for an open item.  Telegram adds or removes the member, or has   *)
(* nothing to do, or refuses: the result is buffered.  A call that times   *)
(* out may have taken effect; it is repeated, or given up as FAILED.       *)
Call(j, r) ==
    LET i == store.rows[r].id
        invite == jobs[j].action = "INVITE"
        idle == invite <=> i \in target
        Hear(result) == jobs' = [jobs EXCEPT ![j].heard[r] = result]
        TakesEffect == /\ target' = IF invite THEN target \cup {i} ELSE target \ {i}
                       /\ added' = IF invite /\ ~idle THEN added \cup {i} ELSE added
    IN  /\ ~jobs[j].over /\ jobs[j].items[r] = "READY" /\ jobs[j].heard[r] = "NONE"
        /\ \/ Hear(IF idle THEN "SKIPPED" ELSE "SUCCESS") /\ TakesEffect /\ UNCHANGED unrecorded
           \/ Hear("FAILED") /\ UNCHANGED <<target, added, unrecorded>>
           \/ /\ ~idle /\ TakesEffect
              /\ Hear("FAILED") \/ UNCHANGED jobs
              /\ unrecorded' = IF invite THEN unrecorded \cup {i} ELSE unrecorded
        /\ UNCHANGED <<store, count, combine, prep, ingests>>

(* submit_update_items_batch, a transaction. *)
Flush(j) ==
    /\ jobs[j].heard # NothingHeard
    /\ jobs' = [jobs EXCEPT
          ![j].items = [r \in DOMAIN @ |-> IF jobs[j].heard[r] = "NONE" THEN @[r] ELSE jobs[j].heard[r]],
          ![j].heard = NothingHeard]
    /\ UNCHANGED <<store, count, combine, prep, target, added, ingests>>
    /\ unrecorded' = unrecorded \ ProcessedIds'

(* Whose addition is known to the buffer of the job alone. *)
HeardOf(j) ==
    {store.rows[r].id : r \in {x \in Rows : jobs[j].action = "INVITE" /\ jobs[j].heard[x] = "SUCCESS"}}

(* The process dies, or the flush fails: the buffer it took is gone.  The  *)
(* run fails with its own flush, and goes on after a delayed one.          *)
ResultsLost(j) ==
    /\ jobs[j].heard # NothingHeard
    /\ \E over \in BOOLEAN :
          jobs' = [jobs EXCEPT ![j].heard = NothingHeard, ![j].over = over]
    /\ unrecorded' = unrecorded \cup HeardOf(j)
    /\ UNCHANGED <<store, count, combine, prep, target, added, ingests>>

(* The job is completed or cancelled, at any time, its results flushed.    *)
JobEnds(j) ==
    /\ ~jobs[j].over /\ jobs[j].heard = NothingHeard
    /\ jobs' = [jobs EXCEPT ![j].over = TRUE]
    /\ UNCHANGED <<store, count, combine, prep, target, added, unrecorded, ingests>>

(* People leave the target group. *)
Left(i) ==
    /\ i \in target
    /\ target' = target \ {i}
    /\ UNCHANGED <<store, count, combine, prep, jobs, added, unrecorded, ingests>>
-----------------------------------------------------------------------------
Batches == SeqOf(Found, MaxBatch) \ {<<>>}

Next ==
    \/ \E d \in Given, batch \in Batches : Ingest(d, batch)
    \/ \E d \in Given, op \in {"UNION", "INTERSECTION", "DIFFERENCE"} : CombineReads(d, op)
    \/ \E d \in Given : CombineReadsOther(d)
    \/ CombineAdds \/ CombineAddsOther
    \/ \E action \in {"INVITE", "REMOVE"} : Precheck(action)
    \/ \E d \in Datasets : CreatePlan(d)
    \/ AddItems
    \/ \E j \in DOMAIN jobs : \/ Flush(j) \/ ResultsLost(j) \/ JobEnds(j)
                              \/ \E r \in DOMAIN jobs[j].items : Call(j, r)
    \/ \E i \in Ids : Left(i)

Spec == Init /\ [][Next]_vars
-----------------------------------------------------------------------------
(* The unique columns of members are never hit, in whatever order ids and  *)
(* usernames turn up: the insertion would fail with the whole batch.       *)
OneRowEach ==
    /\ \A i \in Ids : Cardinality(IdRows(store, i)) <= 1
    /\ \A n \in Names : Cardinality(FallbackRows(store, n)) <= 1

(* A dataset loses no member: a row leaves it only by being merged into    *)
(* the row of a user who was found under its username, and that row is in  *)
(* the dataset from then on.  (The same batch may have renamed the user.)  *)
MembersStay ==
    [][\A p \in store.inside \ store'.inside :
          /\ store'.rows[p[2]] = NoRow
          /\ \E r \in MembersOf(store', p[1]), m \in Found :
                /\ m.id # NoId /\ m.id = store'.rows[r].id
                /\ m.name = store.rows[p[2]].name]_vars

(* The number shown with a dataset may lag behind a merge, but never hides *)
(* a member.                                                               *)
CountCoversMembers == \A d \in Datasets : count[d] >= Cardinality(MembersOf(store, d))

(* No merge deletes a row that an item of a job refers to, however old the *)
(* job is: the foreign key would fail with the whole batch.                *)
ItemsKeepRows ==
    \A j \in DOMAIN jobs : \A r \in DOMAIN jobs[j].items : store.rows[r] # NoRow

(* The tables are sound after every transaction.                           *)
TablesAreSound == TypeOK /\ OneRowEach /\ CountCoversMembers /\ ItemsKeepRows

(* A union that succeeds has every member read from either dataset that    *)
(* still exists, merges while it is made included.                         *)
UnionIsWhole ==
    [][combine.pc = "second" /\ combine.op = "UNION"
         /\ (\A e \in combine.b : store.rows[e[2]] # NoRow) /\ combine'.pc = "idle"
         => \A e \in combine.a \cup combine.b :
               store'.rows[e[2]] # NoRow => e[2] \in MembersOf(store', Combined)]_vars

(* Nobody is added to the target twice: whoever has left it after a job    *)
(* added them is not brought back, by this job or by a later plan, however *)
(* little of the target its precheck has seen.  The exception is who was   *)
(* added with nothing on record to say so: by a call that timed out, or    *)
(* with a result that a crash or a failed flush has taken.                 *)
(* (Nothing is said of two accounts that plan for one target at a time:    *)
(* neither plan sees the results of the other.)                            *)
NobodyAddedTwice ==
    [][\A i \in target' \ target : i \in added => i \in unrecorded]_vars
=============================================================================
