-------------------------- MODULE MemberStore_proof --------------------------
(***************************************************************************)
(* Theorems about MemberStore, for any users, usernames, datasets, batches *)
(* and jobs: the tables are sound after every transaction, no dataset      *)
(* loses a member, a union is whole, nobody is added twice whose addition  *)
(* is on record.                                                           *)
(*                                                                         *)
(* A batch is a fold over its members.  What every member keeps the batch  *)
(* keeps (FoldKeeps); the proof of that takes, of the lengths up to which  *)
(* it holds, the largest.                                                  *)
(***************************************************************************)
EXTENDS MemberStore, FiniteSetTheorems, WellFoundedInduction, TLAPS

(* A finite set of numbers that is not empty has a largest element. *)
LEMMA LargestExists ==
    ASSUME NEW S \in SUBSET Nat, IsFiniteSet(S), S # {}
    PROVE  \E i \in S : \A j \in S : j <= i
<1>. DEFINE above(i) == {j \in S : j > i}
            T == {above(i) : i \in S}
<1>1. IsWellFoundedOn(StrictSubsetOrdering(S), SUBSET S)
  BY FS_StrictSubsetOrderingWellFounded, FS_FiniteSubsetsOfFinite
<1>2. T \subseteq SUBSET S /\ T # {}
  OBVIOUS
<1>3. PICK t \in T : \A u \in T : ~(<<u, t>> \in StrictSubsetOrdering(S))
  BY <1>1, <1>2, WFMin
<1>4. PICK i \in S : t = above(i)
  OBVIOUS
<1>5. ASSUME NEW j \in S, j > i
      PROVE  FALSE
  <2>1. above(j) \subseteq above(i) /\ above(j) # above(i)
    <3>1. j \in above(i) /\ j \notin above(j)
      BY <1>5
    <3>2. \A k \in above(j) : k \in above(i)
      BY <1>5
    <3>. QED  BY <3>1, <3>2
  <2>2. above(j) \in SUBSET S /\ above(i) \in SUBSET S /\ above(j) \in T
    OBVIOUS
  <2>. QED  BY <1>3, <1>4, <2>1, <2>2 DEF StrictSubsetOrdering
<1>6. \A j \in S : j <= i
  BY <1>5
<1>. QED  BY <1>6

(* What holds of the first k for every k up to n holds of n. *)
LEMMA UpTo ==
    ASSUME NEW n \in Nat, NEW S, 0 \in S, \A k \in 0..(n - 1) : k \in S => k + 1 \in S
    PROVE  n \in S
<1>. DEFINE T == S \cap (0..n)
<1>1. IsFiniteSet(T)
  <2>1. IsFiniteSet(0..n) /\ T \subseteq 0..n
    BY FS_Interval
  <2>. QED  BY <2>1, FS_Subset
<1>2. PICK k \in T : \A j \in T : j <= k
  <2>1. T \in SUBSET Nat /\ T # {}
    OBVIOUS
  <2>. QED  BY <1>1, <2>1, LargestExists
<1>3. k < n => k + 1 \in T
  BY <1>2
<1>. QED  BY <1>2, <1>3

(* The largest of a set of numbers up to n, and the set without it. *)
LEMMA MaxOfSome ==
    ASSUME NEW n \in Nat, NEW s \in SUBSET (1..n), s # {}
    PROVE  /\ Max(s) \in s
           /\ IsFiniteSet(s) /\ Cardinality(s \ {Max(s)}) = Cardinality(s) - 1
           /\ Cardinality(s) \in 1..n
<1>1. IsFiniteSet(1..n) /\ Cardinality(1..n) = n
  BY FS_Interval
<1>2. IsFiniteSet(s) /\ Cardinality(s) <= n /\ Cardinality(s) \in Nat
  BY <1>1, FS_Subset, FS_CardinalityType
<1>3. Max(s) \in s
  <2>1. \E i \in s : \A j \in s : j <= i
    BY <1>2, LargestExists
  <2>2. s \subseteq Nat
    OBVIOUS
  <2>. QED  BY <2>1, <2>2 DEF Max
<1>4. Cardinality(s \ {Max(s)}) = Cardinality(s) - 1
  BY <1>2, <1>3, FS_RemoveElement
<1>5. Cardinality(s) # 0
  BY <1>2, FS_EmptySet
<1>. QED  BY <1>2, <1>3, <1>4, <1>5

(* The largest of the first numbers is the last one. *)
LEMMA MaxOfInterval == ASSUME NEW k \in Nat PROVE Max(1..(k + 1)) = k + 1
BY DEF Max

(* The fold over a batch is defined: the function that it is a value of    *)
(* exists.                                                                 *)
FoldOf(d, first, n, batch, g) ==
    g = [s \in SUBSET (1..n) |->
           IF s = {} THEN first ELSE IngestOne(g[s \ {Max(s)}], d, batch[Max(s)])]

(* A function that folds the batch exists, built up one size of sets at a time. *)
LEMMA FoldExists ==
    ASSUME NEW d, NEW first, NEW n \in Nat, NEW batch \in [1..n -> Found]
    PROVE  \E g : FoldOf(d, first, n, batch, g)
<1>. DEFINE Subsets == SUBSET (1..n)
            Next1(g, s) == IngestOne(g[s \ {Max(s)}], d, batch[Max(s)])
            FoldsTo(g, k) == g = [s \in Subsets |->
                                    IF s = {} \/ Cardinality(s) > k THEN first ELSE Next1(g, s)]
            Defined == {k \in 0..n : \E g : FoldsTo(g, k)}
<1>0. ASSUME NEW s \in Subsets
      PROVE  /\ Cardinality(s) \in 0..n
             /\ s # {} => /\ Cardinality(s) > 0
                          /\ s \ {Max(s)} \in Subsets
                          /\ Cardinality(s \ {Max(s)}) = Cardinality(s) - 1
  <2>1. CASE s = {}
    <3>1. Cardinality(s) = 0
      BY <2>1, FS_EmptySet, Zenon
    <3>2. Cardinality(s) \in 0..n
      BY <3>1
    <3>. QED  BY <2>1, <3>2
  <2>2. CASE s # {}
    <3>1. Cardinality(s) \in 1..n /\ Cardinality(s \ {Max(s)}) = Cardinality(s) - 1
      BY <2>2, MaxOfSome
    <3>2. Cardinality(s) \in 0..n /\ Cardinality(s) > 0
      BY <3>1
    <3>3. s \ {Max(s)} \in Subsets
      OBVIOUS
    <3>. QED  BY <3>1, <3>2, <3>3
  <2>. QED  BY <2>1, <2>2
<1>. HIDE DEF Subsets, Next1
<1>1. 0 \in Defined
  <2>. DEFINE g == [s \in Subsets |-> first]
  <2>1. \A s \in Subsets : s = {} \/ Cardinality(s) > 0
    BY <1>0
  <2>2. g = [s \in Subsets |-> IF s = {} \/ Cardinality(s) > 0 THEN first ELSE Next1(g, s)]
    BY <2>1
  <2>. HIDE DEF g
  <2>3. FoldsTo(g, 0)
    BY <2>2
  <2>. QED  BY <2>3
<1>2. ASSUME NEW k \in 0..(n - 1), k \in Defined
      PROVE  k + 1 \in Defined
  <2>1. PICK g : FoldsTo(g, k)
    BY <1>2
  <2>. DEFINE h == [s \in Subsets |->
                      IF s = {} \/ Cardinality(s) > k + 1 THEN first ELSE Next1(g, s)]
  <2>2. ASSUME NEW s \in Subsets, s = {} \/ Cardinality(s) <= k
        PROVE  h[s] = g[s]
    <3>1. s = {} \/ (~(Cardinality(s) > k) /\ ~(Cardinality(s) > k + 1))
      <4>1. Cardinality(s) \in 0..n
        BY <1>0
      <4>. QED  BY <2>2, <4>1
    <3>. QED  BY <3>1, <2>1
  <2>3. ASSUME NEW s \in Subsets, s # {}, ~(Cardinality(s) > k + 1)
        PROVE  Next1(h, s) = Next1(g, s)
    <3>1. s \ {Max(s)} \in Subsets /\ Cardinality(s \ {Max(s)}) <= k
      BY <2>3, <1>0
    <3>2. h[s \ {Max(s)}] = g[s \ {Max(s)}]
      BY <3>1, <2>2
    <3>. QED  BY <3>2 DEF Next1
  <2>4. h = [s \in Subsets |-> IF s = {} \/ Cardinality(s) > k + 1 THEN first ELSE Next1(h, s)]
    BY <2>3
  <2>. HIDE DEF h
  <2>5. FoldsTo(h, k + 1)
    BY <2>4
  <2>6. k + 1 \in 0..n
    OBVIOUS
  <2>. QED  BY <2>5, <2>6
<1>3. n \in Defined
  <2>. HIDE DEF Defined
  <2>. QED  BY <1>1, <1>2, UpTo
<1>4. PICK g : FoldsTo(g, n)
  BY <1>3
<1>5. ASSUME NEW s \in Subsets
      PROVE  ~(Cardinality(s) > n)
  <2>1. Cardinality(s) \in 0..n
    BY <1>0
  <2>. QED  BY <2>1
<1>6. g = [s \in Subsets |-> IF s = {} THEN first ELSE Next1(g, s)]
  BY <1>4, <1>5
<1>. QED  BY <1>6 DEF Subsets, Next1, FoldOf

(* What Ingest makes of the tables. *)
BatchOf(d, first, batch) == FoldLeft(LAMBDA t, m : IngestOne(t, d, m), first, batch)

(* What every member ingested keeps, the batch keeps. *)
LEMMA FoldKeeps ==
    ASSUME NEW d, NEW first, NEW n \in Nat, NEW batch \in [1..n -> Found], NEW Good, first \in Good,
           \A t \in Good, m \in Found : IngestOne(t, d, m) \in Good
    PROVE  BatchOf(d, first, batch) \in Good
<1>. DEFINE fold == CHOOSE g : g = [s \in SUBSET (1..n) |->
                      IF s = {} THEN first ELSE IngestOne(g[s \ {Max(s)}], d, batch[Max(s)])]
            Done == {k \in 0..n : fold[1..k] \in Good}
<1>1. BatchOf(d, first, batch) = fold[1..n]
  <2>1. DOMAIN batch = 1..n
    OBVIOUS
  <2>. QED  BY <2>1 DEF BatchOf, FoldLeft, MapThenFoldSet
<1>2. fold = [s \in SUBSET (1..n) |->
                IF s = {} THEN first ELSE IngestOne(fold[s \ {Max(s)}], d, batch[Max(s)])]
  <2>1. PICK g : FoldOf(d, first, n, batch, g)
    BY FoldExists
  <2>. QED  BY <2>1 DEF FoldOf
<1>. HIDE DEF fold
<1>3. 0 \in Done
  <2>1. 1..0 = {} /\ {} \in SUBSET (1..n)
    OBVIOUS
  <2>. QED  BY <1>2, <2>1
<1>4. ASSUME NEW k \in 0..(n - 1), k \in Done
      PROVE  k + 1 \in Done
  <2>1. 1..(k + 1) \in SUBSET (1..n) /\ 1..(k + 1) # {} /\ (1..(k + 1)) \ {k + 1} = 1..k
    <3>1. \A i \in 1..(k + 1) : i \in 1..n
      OBVIOUS
    <3>2. k + 1 \in 1..(k + 1)
      OBVIOUS
    <3>3. \A i : i \in (1..(k + 1)) \ {k + 1} <=> i \in 1..k
      OBVIOUS
    <3>. QED  BY <3>1, <3>2, <3>3
  <2>2. Max(1..(k + 1)) = k + 1
    BY MaxOfInterval
  <2>3. fold[1..(k + 1)] = IngestOne(fold[1..k], d, batch[k + 1])
    BY <1>2, <2>1, <2>2
  <2>4. batch[k + 1] \in Found
    OBVIOUS
  <2>. QED  BY <1>4, <2>3, <2>4
<1>5. n \in Done
  <2>. HIDE DEF Done
  <2>. QED  BY <1>3, <1>4, UpTo
<1>. QED  BY <1>1, <1>5

-----------------------------------------------------------------------------
(* The inductive invariant. *)

(* In the middle of a batch that runs into the bound of the exploration    *)
(* there may be one row too many; such a batch is not ingested.            *)
AllTables == [rows   : [Rows -> Known],
              born   : Nat,
              inside : SUBSET (Datasets \X Nat),
              hashes : SUBSET Ids]

FreshIsFree(t)   == \A r \in Rows : r > t.born => t.rows[r] = NoRow
InsideExists(t)  == \A p \in t.inside : p[2] \in Rows /\ t.rows[p[2]] # NoRow
IdsDiffer(t)     == \A r, q \in Rows : t.rows[r].id = t.rows[q].id /\ t.rows[r].id # NoId => r = q
FallbacksDiffer(t) ==
    \A r, q \in Rows : t.rows[r] = t.rows[q] /\ t.rows[r].id = NoId /\ t.rows[r] # NoRow => r = q

(* The tables between two transactions, and between two members of a batch. *)
Sound(t) ==
    /\ t \in AllTables /\ t.born <= MaxRows
    /\ FreshIsFree(t) /\ InsideExists(t) /\ IdsDiffer(t) /\ FallbacksDiffer(t)

(* A row that was deleted stays deleted, a row with an id keeps it, and a  *)
(* row without one is as it was, gets one or is deleted.                   *)
RowsLast(s, t) ==
    \A r \in Rows :
        /\ s.rows[r].id # NoId => t.rows[r].id = s.rows[r].id
        /\ r <= s.born /\ s.rows[r].id = NoId =>
              t.rows[r] \in {NoRow, s.rows[r]} \/ (t.rows[r].id # NoId /\ s.rows[r] # NoRow)

(* What MembersStay says of a place in a dataset. *)
Passed(s, t, p) ==
    /\ t.rows[p[2]] = NoRow
    /\ \E r \in MembersOf(t, p[1]), m \in Found :
          m.id # NoId /\ m.id = t.rows[r].id /\ m.name = s.rows[p[2]].name

(* What an ingestion into d leaves of the tables. *)
Later(d, s, t) ==
    /\ s.born <= t.born /\ s.hashes \subseteq t.hashes
    /\ RowsLast(s, t)
    /\ \A p \in s.inside : p \in t.inside \/ Passed(s, t, p)
    /\ \A e \in Datasets \ {d} : Cardinality(MembersOf(t, e)) <= Cardinality(MembersOf(s, e))

-----------------------------------------------------------------------------
Id(r) == store.rows[r].id

(* What a combination has read was there, and of a union what one side had *)
(* is in the new dataset, unless it has been merged away.                  *)
CombineHasRead ==
    /\ \A e \in combine.a \cup combine.b : e[2] <= store.born
    /\ combine.pc = "second" /\ combine.op = "UNION" =>
          \A e \in combine.a : store.rows[e[2]] # NoRow => <<Combined, e[2]>> \in store.inside

(* What is planned or worked on has an id, which no merge takes away. *)
ItemsHaveIds ==
    /\ \A r \in prep.chosen : Id(r) # NoId
    /\ \A j \in DOMAIN jobs : \A r \in DOMAIN jobs[j].items : Id(r) # NoId

(* One preparation or one job of the account at a time. *)
OneAtATime ==
    /\ \A j, k \in DOMAIN jobs : ~jobs[j].over /\ ~jobs[k].over => j = k
    /\ prep.pc = "idle" => prep.chosen = {}
    /\ prep.pc = "checked" => prep.chosen = {} /\ Len(jobs) < MaxJobs /\ \A j \in DOMAIN jobs : jobs[j].over
    /\ prep.pc = "created" =>
          /\ jobs # <<>>
          /\ jobs[Len(jobs)].action = prep.action /\ DOMAIN jobs[Len(jobs)].items = {}
          /\ \A j \in DOMAIN jobs : j = Len(jobs) \/ jobs[j].over

(* The buffer of results is one of a job that is not over, for items that  *)
(* are open in the tables.                                                 *)
BuffersAreOpen ==
    \A j \in DOMAIN jobs : \A r \in Rows : jobs[j].heard[r] # "NONE" =>
        ~jobs[j].over /\ r \in DOMAIN jobs[j].items /\ jobs[j].items[r] = "READY"

(* A row's item was dealt with by a job of a plan of invitations; the      *)
(* buffer of one says that the member was added.                           *)
ProcessedRow(r) ==
    \E j \in DOMAIN jobs : /\ r \in DOMAIN jobs[j].items
                           /\ jobs[j].action = "INVITE" /\ jobs[j].items[r] \in {"SUCCESS", "SKIPPED"}
HeardRow(r) ==
    \E j \in DOMAIN jobs : r \in Rows /\ jobs[j].action = "INVITE" /\ jobs[j].heard[r] = "SUCCESS"

(* Who was added is an item that later plans look at, or a result in the   *)
(* buffer, unless nothing says so; and nobody who is still to be invited   *)
(* has been dealt with.                                                    *)
AddedAreKnown ==
    \A i \in added : i \in unrecorded \/ \E r : (ProcessedRow(r) \/ HeardRow(r)) /\ i = Id(r)
IsNew(r) == \A q : ProcessedRow(q) => Id(q) # Id(r)
InvitedAreNew ==
    /\ prep.pc = "created" /\ prep.action = "INVITE" => \A r \in prep.chosen : IsNew(r)
    /\ \A j \in DOMAIN jobs : \A r \in DOMAIN jobs[j].items :
          ~jobs[j].over /\ jobs[j].action = "INVITE" /\ jobs[j].items[r] = "READY" => IsNew(r)

-----------------------------------------------------------------------------
(* One member is ingested.                                                 *)

Fallback(m) == [id |-> NoId, name |-> m.name]
RowFor(m)   == [id |-> m.id, name |-> m.name]

(* t becomes u: m is in row r, the rows of gone have been merged into it.  *)
Merged(t, u, d, m, r, gone) ==
    /\ u.rows = [q \in Rows |-> IF q \in gone THEN NoRow ELSE IF q = r THEN RowFor(m) ELSE t.rows[q]]
    /\ u.born = (IF r > t.born THEN r ELSE t.born)
    /\ u.inside = {<<p[1], IF p[2] \in gone THEN r ELSE p[2]>> : p \in t.inside} \cup {<<d, r>>}
    /\ t.hashes \subseteq u.hashes

(* Row r is the one of the id, the one of the username or a new one, and   *)
(* what is gone had the username and no id.                                *)
WellChosen(t, m, r, gone) ==
    /\ r \in Rows /\ r <= t.born + 1
    /\ \/ r = t.born + 1
       \/ m.id # NoId /\ t.rows[r].id = m.id
       \/ t.rows[r] = Fallback(m) /\ m.name # NoName
    /\ m.id # NoId => \A q \in Rows : t.rows[q].id = m.id => q = r
    /\ gone \subseteq Rows \ {r} /\ (gone = {} \/ \E o \in gone : gone = {o})
    /\ \A o \in gone : t.rows[o] = Fallback(m)
    /\ gone # {} => m.id # NoId /\ m.name # NoName
    /\ m.name # NoName => \A q \in Rows : t.rows[q] = Fallback(m) => q = r \/ q \in gone

(* The row of a member is its own, that of its username or the next one. *)
LEMMA RowOfMember ==
    ASSUME NEW t \in AllTables, NEW m \in Found
    PROVE  /\ RowOf(t, m) \in Nat
           /\ RowOf(t, m) = t.born + 1 \/ RowOf(t, m) \in IdRows(t, m.id) \cup FallbackRows(t, m.name)
           /\ IdRows(t, m.id) # {} => RowOf(t, m) \in IdRows(t, m.id)
           /\ IdRows(t, m.id) = {} /\ FallbackRows(t, m.name) # {} => RowOf(t, m) \in FallbackRows(t, m.name)
           /\ IdRows(t, m.id) = {} /\ FallbackRows(t, m.name) = {} => RowOf(t, m) = t.born + 1
<1>1. t.born \in Nat /\ IdRows(t, m.id) \subseteq Nat /\ FallbackRows(t, m.name) \subseteq Nat
  BY DEF AllTables, IdRows, FallbackRows, Rows
<1>. QED  BY <1>1 DEF RowOf

(* The row that UpsertOne writes, and the places that IngestOne adds. *)
Written(t, r, x) == [t EXCEPT !.rows = [@ EXCEPT ![r] = x], !.born = IF r > @ THEN r ELSE @]
Placed(t, p, ids) == [t EXCEPT !.inside = @ \cup {p}, !.hashes = @ \cup ids]

(* How the tables change, table by table: a row is written, ... *)
LEMMA WrittenRow ==
    ASSUME NEW t \in AllTables, NEW r \in Nat, NEW x \in Known, NEW u, u = Written(t, r, x)
    PROVE  /\ u \in AllTables
           /\ u.rows = [t.rows EXCEPT ![r] = x] /\ u.born = (IF r > t.born THEN r ELSE t.born)
           /\ u.inside = t.inside /\ u.hashes = t.hashes
<1>1. [t.rows EXCEPT ![r] = x] \in [Rows -> Known]
  BY DEF AllTables
<1>2. (IF r > t.born THEN r ELSE t.born) \in Nat
  BY DEF AllTables
<1>. QED  BY <1>1, <1>2 DEF AllTables, Written

(* ... a row is deleted and its datasets are passed on, ... *)
LEMMA MergedFallback ==
    ASSUME NEW t \in AllTables, NEW old \in Rows, NEW r \in Nat
    PROVE  LET u == MergeFallback(t, old, r)
           IN  /\ u \in AllTables
               /\ u.rows = [t.rows EXCEPT ![old] = NoRow] /\ u.born = t.born
               /\ u.inside = {<<p[1], IF p[2] = old THEN r ELSE p[2]>> : p \in t.inside}
               /\ u.hashes = t.hashes
<1>1. [t.rows EXCEPT ![old] = NoRow] \in [Rows -> Known]
  BY DEF AllTables, NoRow, Known
<1>2. {<<p[1], IF p[2] = old THEN r ELSE p[2]>> : p \in t.inside} \in SUBSET (Datasets \X Nat)
  BY DEF AllTables
<1>. QED  BY <1>1, <1>2 DEF AllTables, MergeFallback

(* ... a row is added to a dataset. *)
LEMMA AddedToDataset ==
    ASSUME NEW t \in AllTables, NEW p \in Datasets \X Nat, NEW ids \in SUBSET Ids, NEW u, u = Placed(t, p, ids)
    PROVE  /\ u \in AllTables /\ u.rows = t.rows /\ u.born = t.born
           /\ u.inside = t.inside \cup {p} /\ u.hashes = t.hashes \cup ids
<1>1. t.inside \cup {p} \in SUBSET (Datasets \X Nat) /\ t.hashes \cup ids \in SUBSET Ids
  BY DEF AllTables
<1>. QED  BY <1>1 DEF AllTables, Placed

(* What m may change of the tables t: row r is written, the rows of gone   *)
(* are merged into it.                                                     *)
Rewritten(t, u, m, r, gone) ==
    /\ u.rows = [q \in Rows |-> IF q \in gone THEN NoRow ELSE IF q = r THEN RowFor(m) ELSE t.rows[q]]
    /\ u.born = (IF r > t.born THEN r ELSE t.born)
    /\ u.inside = {<<p[1], IF p[2] \in gone THEN r ELSE p[2]>> : p \in t.inside}
    /\ u.hashes = t.hashes

Others(t, m) == FallbackRows(t, m.name) \ {RowOf(t, m)}

(* One of the others goes, if there is one. *)
OneGone(t, m, gone) ==
    \/ gone = {} /\ Others(t, m) = {}
    \/ \E o \in Others(t, m) : gone = {o}

(* The upsert: a row is written, and another one may be merged into it. *)
LEMMA Upserted ==
    ASSUME NEW t \in AllTables, NEW m \in Found
    PROVE  /\ UpsertOne(t, m) \in AllTables
           /\ \E gone : OneGone(t, m, gone) /\ Rewritten(t, UpsertOne(t, m), m, RowOf(t, m), gone)
<1>. DEFINE r == RowOf(t, m)
            others == Others(t, m)
            u == UpsertOne(t, m)
<1>1. r \in Nat /\ others \subseteq Rows /\ r \notin others
  BY RowOfMember DEF FallbackRows, Others
<1>2. RowFor(m) \in Known
  BY FoundAssumption DEF Members, Known, RowFor
<1>4. PICK w : w = Written(t, r, RowFor(m))
  OBVIOUS
<1>3. u = IF others = {} THEN w ELSE MergeFallback(w, CHOOSE old \in others : TRUE, r)
  BY <1>4 DEF UpsertOne, RowFor, Others, Written
<1>. HIDE DEF r, others, u
<1>5. /\ w \in AllTables
      /\ w.rows = [t.rows EXCEPT ![r] = RowFor(m)] /\ w.born = (IF r > t.born THEN r ELSE t.born)
      /\ w.inside = t.inside /\ w.hashes = t.hashes
  BY <1>1, <1>2, <1>4, WrittenRow
<1>6. t.rows \in [Rows -> Known] /\ t.inside \subseteq Datasets \X Nat
  BY DEF AllTables
<1>7. CASE others = {}
  <2>1. u = w
    BY <1>3, <1>7
  <2>2. u.rows = [q \in Rows |-> IF q \in {} THEN NoRow ELSE IF q = r THEN RowFor(m) ELSE t.rows[q]]
    BY <2>1, <1>5, <1>6
  <2>3. u.inside = {<<p[1], IF p[2] \in {} THEN r ELSE p[2]>> : p \in t.inside}
    BY <2>1, <1>5, <1>6
  <2>4. Rewritten(t, u, m, r, {})
    BY <1>5, <2>1, <2>2, <2>3 DEF Rewritten
  <2>5. OneGone(t, m, {})
    BY <1>7 DEF OneGone, others
  <2>. QED  BY <1>5, <2>1, <2>4, <2>5 DEF r, u
<1>8. CASE others # {}
  <2>1. PICK o \in others : o = CHOOSE old \in others : TRUE
    BY <1>8
  <2>2. u = MergeFallback(w, o, r)
    BY <1>3, <1>8, <2>1
  <2>3. /\ u \in AllTables
        /\ u.rows = [w.rows EXCEPT ![o] = NoRow] /\ u.born = w.born
        /\ u.inside = {<<p[1], IF p[2] = o THEN r ELSE p[2]>> : p \in w.inside}
        /\ u.hashes = w.hashes
    BY <1>1, <1>5, <2>2, MergedFallback
  <2>4. u.rows = [q \in Rows |-> IF q \in {o} THEN NoRow ELSE IF q = r THEN RowFor(m) ELSE t.rows[q]]
    BY <2>3, <1>5, <1>6
  <2>5. u.inside = {<<p[1], IF p[2] \in {o} THEN r ELSE p[2]>> : p \in t.inside}
    BY <2>3, <1>5
  <2>6. Rewritten(t, u, m, r, {o})
    BY <1>5, <2>3, <2>4, <2>5 DEF Rewritten
  <2>7. OneGone(t, m, {o})
    BY DEF OneGone, others
  <2>. QED  BY <2>3, <2>6, <2>7 DEF r, u
<1>. QED  BY <1>7, <1>8

(* One member more in a batch. *)
LEMMA Ingested ==
    ASSUME NEW t \in AllTables, NEW m \in Found, NEW d \in Datasets, ~Invalid(m)
    PROVE  /\ IngestOne(t, d, m) \in AllTables
           /\ \E gone : OneGone(t, m, gone) /\ Merged(t, IngestOne(t, d, m), d, m, RowOf(t, m), gone)
<1>. DEFINE r == RowOf(t, m)
            ids == IF m.hash /\ m.id # NoId THEN {m.id} ELSE {}
            u == IngestOne(t, d, m)
<1>0. PICK w : w = UpsertOne(t, m)
  OBVIOUS
<1>1. u = Placed(w, <<d, r>>, ids)
  BY <1>0 DEF IngestOne, Placed
<1>2. ids \in SUBSET Ids
  BY FoundAssumption DEF Members
<1>3. r \in Nat /\ w \in AllTables
  BY <1>0, Upserted, RowOfMember
<1>. HIDE DEF ids, r, u
<1>4. <<d, r>> \in Datasets \X Nat
  BY <1>3
<1>5. /\ u \in AllTables /\ u.rows = w.rows /\ u.born = w.born
      /\ u.inside = w.inside \cup {<<d, r>>} /\ u.hashes = w.hashes \cup ids
  BY <1>1, <1>2, <1>3, <1>4, AddedToDataset
<1>6. PICK gone : OneGone(t, m, gone) /\ Rewritten(t, w, m, r, gone)
  BY <1>0, Upserted DEF r
<1>7. Merged(t, u, d, m, r, gone)
  BY <1>5, <1>6 DEF Merged, Rewritten
<1>. QED  BY <1>5, <1>6, <1>7 DEF r, u

(* An ingestion only adds rows to those there have ever been. *)
LEMMA IngestGrows ==
    ASSUME NEW t \in AllTables, NEW m \in Found, NEW d \in Datasets
    PROVE  IngestOne(t, d, m) \in AllTables /\ IngestOne(t, d, m).born >= t.born
<1>1. t.born \in Nat
  BY DEF AllTables
<1>2. CASE Invalid(m)
  BY <1>1, <1>2 DEF IngestOne
<1>3. CASE ~Invalid(m)
  <2>1. RowOf(t, m) \in Nat
    BY RowOfMember
  <2>2. IngestOne(t, d, m) \in AllTables
    BY <1>3, Ingested
  <2>3. \E gone : Merged(t, IngestOne(t, d, m), d, m, RowOf(t, m), gone)
    BY <1>3, Ingested
  <2>4. IngestOne(t, d, m).born = (IF RowOf(t, m) > t.born THEN RowOf(t, m) ELSE t.born)
    BY <2>3 DEF Merged
  <2>. QED  BY <1>1, <2>1, <2>2, <2>4
<1>. QED  BY <1>2, <1>3

(* What is written and what is merged into it, in sound tables. *)
LEMMA IngestMerges ==
    ASSUME NEW t, Sound(t), NEW m \in Found, NEW d \in Datasets, ~Invalid(m), IngestOne(t, d, m).born <= MaxRows
    PROVE  \E r \in Rows, gone \in SUBSET Rows :
              Merged(t, IngestOne(t, d, m), d, m, r, gone) /\ WellChosen(t, m, r, gone)
<1>. DEFINE r == RowOf(t, m)
            u == IngestOne(t, d, m)
<1>1. /\ t \in AllTables /\ t.born \in Nat /\ t.rows \in [Rows -> Known] /\ t.born <= MaxRows
      /\ MaxRows \in Nat /\ NoId \notin Ids /\ NoName \notin Names /\ m.id \in Ids \cup {NoId} /\ m.name \in Names \cup {NoName}
  BY MemberAssumption, FoundAssumption DEF Sound, AllTables, Members
<1>2. PICK gone : OneGone(t, m, gone) /\ Merged(t, u, d, m, r, gone)
  BY <1>1, Ingested
<1>3. /\ r \in Nat
      /\ r = t.born + 1 \/ r \in IdRows(t, m.id) \cup FallbackRows(t, m.name)
      /\ IdRows(t, m.id) # {} => r \in IdRows(t, m.id)
      /\ IdRows(t, m.id) = {} /\ FallbackRows(t, m.name) # {} => r \in FallbackRows(t, m.name)
  BY <1>1, RowOfMember
<1>. HIDE DEF r, u
<1>4. r \in Rows /\ r <= t.born + 1
  <2>1. r <= MaxRows
    <3>1. u.born = (IF r > t.born THEN r ELSE t.born)
      BY <1>2 DEF Merged
    <3>. QED  BY <1>1, <1>3, <3>1 DEF u
  <2>2. \A q \in IdRows(t, m.id) \cup FallbackRows(t, m.name) : q \in Rows /\ q <= t.born
    BY <1>1 DEF IdRows, FallbackRows, Sound, FreshIsFree, NoRow, Rows
  <2>3. r > 0
    BY <1>1, <1>3, <2>2 DEF Rows
  <2>4. r <= t.born + 1
    BY <1>1, <1>3, <2>2 DEF Rows
  <2>. QED  BY <1>1, <1>3, <2>1, <2>3, <2>4 DEF Rows
<1>6. \A o : o \in Others(t, m) <=> o \in FallbackRows(t, m.name) /\ o # r
  BY DEF Others, r
<1>7. \A q : q \in FallbackRows(t, m.name) <=> q \in Rows /\ m.name # NoName /\ t.rows[q] = Fallback(m)
  BY DEF FallbackRows, Fallback
<1>8. \A q : q \in IdRows(t, m.id) <=> q \in Rows /\ m.id # NoId /\ t.rows[q].id = m.id
  BY DEF IdRows
<1>9. \A p, q \in Rows : m.name # NoName /\ t.rows[p] = Fallback(m) /\ t.rows[q] = Fallback(m) => p = q
  BY <1>1 DEF Sound, FallbacksDiffer, Fallback, NoRow
<1>5. WellChosen(t, m, r, gone)
  <2>1. \/ r = t.born + 1
        \/ m.id # NoId /\ t.rows[r].id = m.id
        \/ t.rows[r] = Fallback(m) /\ m.name # NoName
    BY <1>3, <1>7, <1>8 DEF NoRow
  <2>2. m.id # NoId => \A q \in Rows : t.rows[q].id = m.id => q = r
    BY <1>3, <1>4, <1>8 DEF Sound, IdsDiffer
  <2>3. gone \subseteq Rows \ {r} /\ (gone = {} \/ \E o \in gone : gone = {o}) /\ \A o \in gone : t.rows[o] = Fallback(m)
    BY <1>2, <1>6, <1>7 DEF OneGone
  <2>4. m.name # NoName => \A q \in Rows : t.rows[q] = Fallback(m) => q = r \/ q \in gone
    BY <1>2, <1>6, <1>7, <1>9 DEF OneGone
  <2>5. gone # {} => m.id # NoId /\ m.name # NoName
    <3>1. ASSUME gone # {}
          PROVE  \E o \in FallbackRows(t, m.name) : o # r
      BY <3>1, <1>2, <1>6 DEF OneGone
    <3>2. ASSUME NEW o \in FallbackRows(t, m.name), o # r
          PROVE  m.id # NoId
      BY <3>2, <1>3, <1>7, <1>8, <1>9
    <3>. QED  BY <3>1, <3>2, <1>7
  <2>. QED  BY <1>4, <2>1, <2>2, <2>3, <2>4, <2>5 DEF WellChosen
<1>. QED  BY <1>2, <1>4, <1>5 DEF WellChosen, u

-----------------------------------------------------------------------------
(* Sound tables stay sound, member by member.                              *)

(* What sound tables are made of. *)
LEMMA SoundTypes ==
    ASSUME NEW t, Sound(t)
    PROVE  /\ t \in AllTables /\ t.rows \in [Rows -> Known] /\ t.born \in Nat /\ t.born <= MaxRows
           /\ t.inside \subseteq Datasets \X Nat /\ t.hashes \subseteq Ids
           /\ \A r \in Rows : t.rows[r].id \in Ids \cup {NoId} /\ t.rows[r].name \in Names \cup {NoName}
           /\ NoRow \in Known /\ NoRow.id = NoId
           /\ \A p \in t.inside : p[1] \in Datasets /\ p[2] \in Rows /\ p[2] <= t.born /\ t.rows[p[2]] # NoRow
<1>1. t \in AllTables /\ t.rows \in [Rows -> Known] /\ t.born \in Nat /\ t.born <= MaxRows
      /\ t.inside \subseteq Datasets \X Nat /\ t.hashes \subseteq Ids
  BY DEF Sound, AllTables
<1>2. \A r \in Rows : t.rows[r].id \in Ids \cup {NoId} /\ t.rows[r].name \in Names \cup {NoName}
  BY <1>1 DEF Known
<1>3. \A p \in t.inside : p[1] \in Datasets /\ p[2] \in Rows /\ t.rows[p[2]] # NoRow
  BY <1>1 DEF Sound, InsideExists
<1>4. \A r \in Rows : t.rows[r] # NoRow => r <= t.born
  <2>1. \A r \in Rows : r \in Nat
    BY DEF Rows
  <2>. QED  BY <1>1, <2>1 DEF Sound, FreshIsFree
<1>5. NoRow \in Known /\ NoRow.id = NoId
  BY DEF NoRow, Known
<1>. QED  BY <1>1, <1>2, <1>3, <1>4, <1>5

(* Members of a dataset are its pairs. *)
LEMMA MembersAreInside ==
    ASSUME NEW t, t.inside \subseteq Datasets \X Nat
    PROVE  \A e, r : r \in MembersOf(t, e) <=> <<e, r>> \in t.inside
BY DEF MembersOf

(* They are rows, hence finitely many. *)
LEMMA MembersAreFinite ==
    ASSUME NEW t, Sound(t), NEW e
    PROVE  /\ MembersOf(t, e) \subseteq Rows /\ IsFiniteSet(MembersOf(t, e))
           /\ Cardinality(MembersOf(t, e)) \in 0..MaxRows
<1>0. MaxRows \in Nat
  BY MemberAssumption
<1>1. MembersOf(t, e) \subseteq Rows
  BY SoundTypes DEF MembersOf
<1>2. IsFiniteSet(Rows) /\ Cardinality(Rows) = MaxRows
  BY <1>0, FS_Interval DEF Rows
<1>3. IsFiniteSet(MembersOf(t, e)) /\ Cardinality(MembersOf(t, e)) <= MaxRows /\ Cardinality(MembersOf(t, e)) \in Nat
  BY <1>1, <1>2, FS_Subset, FS_CardinalityType
<1>. QED  BY <1>0, <1>1, <1>3

(* No dataset has more members after a merge. *)
LEMMA MergeAddsNobody ==
    ASSUME NEW t, Sound(t), NEW u, NEW d, NEW m, NEW r, NEW gone, Merged(t, u, d, m, r, gone),
           NEW e \in Datasets, e # d
    PROVE  Cardinality(MembersOf(u, e)) <= Cardinality(MembersOf(t, e))
<1>. DEFINE S == MembersOf(t, e)
            T == MembersOf(u, e)
            f == [x \in S |-> IF x \in gone THEN r ELSE x]
<1>1. IsFiniteSet(S)
  BY MembersAreFinite
<1>2. T = {f[x] : x \in S}
  <2>1. T = {p[2] : p \in {q \in u.inside : q[1] = e}} /\ S = {p[2] : p \in {q \in t.inside : q[1] = e}}
    BY DEF MembersOf
  <2>2. u.inside = {<<p[1], IF p[2] \in gone THEN r ELSE p[2]>> : p \in t.inside} \cup {<<d, r>>}
    BY DEF Merged
  <2>3. ASSUME NEW y \in T
        PROVE  \E x \in S : y = f[x]
    <3>1. PICK q \in u.inside : q[1] = e /\ y = q[2]
      BY <2>1
    <3>2. PICK p \in t.inside : q = <<p[1], IF p[2] \in gone THEN r ELSE p[2]>>
      BY <2>2, <3>1
    <3>3. p[2] \in S /\ y = f[p[2]]
      BY <2>1, <3>1, <3>2
    <3>. QED  BY <3>3
  <2>4. ASSUME NEW x \in S
        PROVE  f[x] \in T
    <3>1. PICK p \in t.inside : p[1] = e /\ x = p[2]
      BY <2>1
    <3>2. <<p[1], IF p[2] \in gone THEN r ELSE p[2]>> \in u.inside
      BY <2>2
    <3>3. PICK q \in u.inside : q = <<p[1], IF p[2] \in gone THEN r ELSE p[2]>>
      BY <3>2
    <3>4. q[1] = e /\ q[2] = f[x]
      BY <3>1, <3>3
    <3>. QED  BY <2>1, <3>4
  <2>. HIDE DEF f, S, T
  <2>. QED  BY <2>3, <2>4
<1>3. f \in Surjection(S, T)
  <2>1. f \in [S -> T]
    BY <1>2
  <2>2. \A y \in T : \E x \in S : f[x] = y
    BY <1>2
  <2>. QED  BY <2>1, <2>2 DEF Surjection
<1>. QED  BY <1>1, <1>3, FS_Surjection DEF ExistsSurjection

(* Sound tables are sound after a merge, and nothing is lost in it. *)
LEMMA MergeKeepsSound ==
    ASSUME NEW t, Sound(t), NEW u \in AllTables, u.born <= MaxRows, NEW d \in Datasets, NEW m \in Found, ~Invalid(m),
           NEW r \in Rows, NEW gone \in SUBSET Rows, Merged(t, u, d, m, r, gone), WellChosen(t, m, r, gone)
    PROVE  Sound(u) /\ Later(d, t, u)
<1>1. /\ t.rows \in [Rows -> Known] /\ t.born \in Nat
      /\ t.inside \subseteq Datasets \X Nat
      /\ \A q \in Rows : t.rows[q].id \in Ids \cup {NoId} /\ t.rows[q].name \in Names \cup {NoName}
      /\ NoRow \in Known /\ NoRow.id = NoId
      /\ \A p \in t.inside : p[1] \in Datasets /\ p[2] \in Rows /\ p[2] <= t.born /\ t.rows[p[2]] # NoRow
  BY SoundTypes
<1>2. /\ \A q \in Rows : u.rows[q] = IF q \in gone THEN NoRow ELSE IF q = r THEN RowFor(m) ELSE t.rows[q]
      /\ u.born = (IF r > t.born THEN r ELSE t.born)
      /\ u.inside = {<<p[1], IF p[2] \in gone THEN r ELSE p[2]>> : p \in t.inside} \cup {<<d, r>>}
      /\ t.hashes \subseteq u.hashes
  BY DEF Merged
<1>3. /\ r <= t.born + 1 /\ r \notin gone
      /\ r = t.born + 1 \/ (m.id # NoId /\ t.rows[r].id = m.id) \/ (t.rows[r] = Fallback(m) /\ m.name # NoName)
      /\ m.id # NoId => \A q \in Rows : t.rows[q].id = m.id => q = r
      /\ \A o \in gone : t.rows[o] = Fallback(m)
      /\ gone # {} => m.id # NoId /\ m.name # NoName
      /\ m.name # NoName => \A q \in Rows : t.rows[q] = Fallback(m) => q = r \/ q \in gone
  BY DEF WellChosen
<1>4. \A q \in Rows : q \in Nat /\ (q > t.born => t.rows[q] = NoRow)
  BY DEF Rows, Sound, FreshIsFree
<1>5. /\ RowFor(m) # NoRow /\ RowFor(m).id = m.id /\ Fallback(m).id = NoId /\ Fallback(m).name = m.name
      /\ (m.name # NoName => Fallback(m) # NoRow) /\ (m.id = NoId => RowFor(m) = Fallback(m) /\ m.name # NoName)
  BY DEF RowFor, Fallback, NoRow, Invalid
<1>6. u.rows[r] = RowFor(m) /\ <<d, r>> \in u.inside
  BY <1>2, <1>3
<1>. HIDE DEF RowFor, Fallback, NoRow
<1>7. FreshIsFree(u)
  BY <1>1, <1>2, <1>4 DEF FreshIsFree
<1>8. InsideExists(u)
  <2>1. ASSUME NEW p \in t.inside, NEW x, x = IF p[2] \in gone THEN r ELSE p[2]
        PROVE  x \in Rows /\ u.rows[x] # NoRow
    BY <1>1, <1>2, <1>5, <1>6, <2>1
  <2>2. ASSUME NEW q \in u.inside
        PROVE  q[2] \in Rows /\ u.rows[q[2]] # NoRow
    <3>1. CASE q = <<d, r>>
      BY <1>5, <1>6, <3>1
    <3>2. CASE q # <<d, r>>
      <4>1. PICK p \in t.inside : q = <<p[1], IF p[2] \in gone THEN r ELSE p[2]>>
        BY <1>2, <3>2
      <4>. QED  BY <2>1, <4>1
    <3>. QED  BY <3>1, <3>2
  <2>. QED  BY <2>2 DEF InsideExists
<1>9. IdsDiffer(u)
  <2>1. \A q \in Rows \ {r} : u.rows[q].id # NoId => u.rows[q].id = t.rows[q].id
    BY <1>1, <1>2
  <2>2. \A q \in Rows : m.id # NoId /\ u.rows[q].id = m.id => q = r
    BY <1>3, <2>1
  <2>3. ASSUME NEW p \in Rows, NEW q \in Rows, u.rows[p].id = u.rows[q].id, u.rows[p].id # NoId
        PROVE  p = q
    <3>1. CASE p = r \/ q = r
      BY <1>5, <1>6, <2>2, <2>3, <3>1
    <3>2. CASE p # r /\ q # r
      BY <2>1, <2>3, <3>2 DEF Sound, IdsDiffer
    <3>. QED  BY <3>1, <3>2
  <2>. QED  BY <2>3 DEF IdsDiffer
<1>10. FallbacksDiffer(u)
  <2>1. \A q \in Rows \ {r} : u.rows[q] # NoRow => u.rows[q] = t.rows[q] /\ q \notin gone
    BY <1>2
  <2>2. \A q \in Rows : m.id = NoId /\ u.rows[q] = RowFor(m) => q = r
    BY <1>3, <1>5, <2>1
  <2>3. ASSUME NEW p \in Rows, NEW q \in Rows, u.rows[p] = u.rows[q], u.rows[p].id = NoId, u.rows[p] # NoRow
        PROVE  p = q
    <3>1. CASE p = r \/ q = r
      BY <1>5, <1>6, <2>2, <2>3, <3>1
    <3>2. CASE p # r /\ q # r
      BY <2>1, <2>3, <3>2 DEF Sound, FallbacksDiffer
    <3>. QED  BY <3>1, <3>2
  <2>. QED  BY <2>3 DEF FallbacksDiffer
<1>11. RowsLast(t, u)
  <2>1. ASSUME NEW q \in Rows, t.rows[q].id # NoId
        PROVE  u.rows[q].id = t.rows[q].id
    BY <1>1, <1>2, <1>3, <1>4, <1>5, <2>1
  <2>2. ASSUME NEW q \in Rows, q <= t.born, t.rows[q].id = NoId
        PROVE  u.rows[q] \in {NoRow, t.rows[q]} \/ (u.rows[q].id # NoId /\ t.rows[q] # NoRow)
    <3>1. CASE q = r
      <4>1. t.rows[r] = Fallback(m) /\ m.name # NoName
        BY <1>1, <1>3, <2>2, <3>1
      <4>. QED  BY <1>5, <1>6, <3>1, <4>1
    <3>2. CASE q # r
      BY <1>2, <3>2
    <3>. QED  BY <3>1, <3>2
  <2>. QED  BY <2>1, <2>2 DEF RowsLast
<1>12. ASSUME NEW p \in t.inside
       PROVE  p \in u.inside \/ Passed(t, u, p)
  <2>1. <<p[1], IF p[2] \in gone THEN r ELSE p[2]>> \in u.inside
    BY <1>2
  <2>2. CASE p[2] \notin gone
    <3>1. p = <<p[1], p[2]>>
      BY <1>1
    <3>. QED  BY <2>1, <2>2, <3>1
  <2>3. CASE p[2] \in gone
    <3>1. u.rows[p[2]] = NoRow /\ m.name = t.rows[p[2]].name
      BY <1>1, <1>2, <1>3, <1>5, <2>3
    <3>2. r \in MembersOf(u, p[1])
      BY <2>1, <2>3 DEF MembersOf
    <3>3. m.id # NoId /\ m.id = u.rows[r].id
      BY <1>3, <1>5, <1>6, <2>3
    <3>. QED  BY <3>1, <3>2, <3>3 DEF Passed
  <2>. QED  BY <2>2, <2>3
<1>13. t.born <= u.born
  BY <1>1, <1>2, <1>4
<1>14. \A e \in Datasets \ {d} : Cardinality(MembersOf(u, e)) <= Cardinality(MembersOf(t, e))
  BY MergeAddsNobody
<1>15. Sound(u)
  BY <1>7, <1>8, <1>9, <1>10 DEF Sound
<1>16. Later(d, t, u)
  BY <1>2, <1>11, <1>12, <1>13, <1>14 DEF Later
<1>. QED  BY <1>15, <1>16

(* What one ingestion leaves another one may work on. *)
LEMMA LaterStill ==
    ASSUME NEW d, NEW s, Sound(s), NEW t, Sound(t), NEW u, Sound(u), Later(d, s, t), Later(d, t, u)
    PROVE  Later(d, s, u)
<1>1. /\ s.born \in Nat /\ t.born \in Nat /\ u.born \in Nat
      /\ s.born <= t.born /\ t.born <= u.born /\ s.hashes \subseteq u.hashes /\ NoRow.id = NoId
      /\ \A p \in s.inside : p[1] \in Datasets /\ p[2] \in Rows /\ p[2] <= s.born /\ s.rows[p[2]] # NoRow
      /\ u.inside \subseteq Datasets \X Nat /\ t.inside \subseteq Datasets \X Nat
  BY SoundTypes DEF Later
<1>2. \A r \in Rows : r \in Nat
  BY DEF Rows
<1>3. \A r \in Rows :
        /\ s.rows[r].id # NoId => t.rows[r].id = s.rows[r].id
        /\ r <= s.born /\ s.rows[r].id = NoId =>
              t.rows[r] \in {NoRow, s.rows[r]} \/ (t.rows[r].id # NoId /\ s.rows[r] # NoRow)
        /\ t.rows[r].id # NoId => u.rows[r].id = t.rows[r].id
        /\ r <= t.born /\ t.rows[r].id = NoId =>
              u.rows[r] \in {NoRow, t.rows[r]} \/ (u.rows[r].id # NoId /\ t.rows[r] # NoRow)
  BY DEF Later, RowsLast
<1>4. RowsLast(s, u)
  BY <1>1, <1>2, <1>3 DEF RowsLast
<1>5. ASSUME NEW p \in s.inside
      PROVE  p \in u.inside \/ Passed(s, u, p)
  <2>1. CASE p \in t.inside
    <3>1. CASE Passed(t, u, p)
      <4>1. t.rows[p[2]] = s.rows[p[2]]
        BY <1>1, <1>2, <1>3, <2>1, <3>1, SoundTypes DEF Passed
      <4>. QED  BY <3>1, <4>1 DEF Passed
    <3>. QED  BY <2>1, <3>1 DEF Later
  <2>2. CASE Passed(s, t, p)
    <3>1. u.rows[p[2]] = NoRow
      BY <1>1, <1>2, <1>3, <2>2 DEF Passed
    <3>2. PICK r \in MembersOf(t, p[1]), m \in Found :
             m.id # NoId /\ m.id = t.rows[r].id /\ m.name = s.rows[p[2]].name
      BY <2>2 DEF Passed
    <3>3. <<p[1], r>> \in t.inside /\ r \in Rows
      <4>1. MembersOf(t, p[1]) \subseteq Rows
        BY MembersAreFinite
      <4>. QED  BY <1>1, <4>1, MembersAreInside
    <3>4. u.rows[r].id = m.id
      BY <1>3, <3>2, <3>3
    <3>5. <<p[1], r>> \in u.inside
      <4>1. <<p[1], r>> \in u.inside \/ Passed(t, u, <<p[1], r>>)
        BY <3>3 DEF Later
      <4>. QED  BY <1>1, <3>2, <3>4, <4>1 DEF Passed
    <3>6. r \in MembersOf(u, p[1])
      BY <1>1, <3>5, MembersAreInside
    <3>. QED  BY <3>1, <3>2, <3>4, <3>6 DEF Passed
  <2>. QED  BY <2>1, <2>2 DEF Later
<1>6. ASSUME NEW e \in Datasets \ {d}
      PROVE  Cardinality(MembersOf(u, e)) <= Cardinality(MembersOf(s, e))
  <2>1. /\ Cardinality(MembersOf(u, e)) <= Cardinality(MembersOf(t, e))
        /\ Cardinality(MembersOf(t, e)) <= Cardinality(MembersOf(s, e))
    BY DEF Later
  <2>2. /\ Cardinality(MembersOf(u, e)) \in 0..MaxRows
        /\ Cardinality(MembersOf(t, e)) \in 0..MaxRows
        /\ Cardinality(MembersOf(s, e)) \in 0..MaxRows
    BY MembersAreFinite
  <2>3. MaxRows \in Nat
    BY MemberAssumption
  <2>. QED  BY <2>1, <2>2, <2>3
<1>. QED  BY <1>1, <1>4, <1>5, <1>6 DEF Later

(* Nothing is lost where nothing changes. *)
LEMMA NothingLater == ASSUME NEW d, NEW s, Sound(s) PROVE Later(d, s, s)
<1>1. /\ s.born \in Nat /\ NoRow.id = NoId
      /\ \A e : Cardinality(MembersOf(s, e)) \in Nat
  <2>1. \A e : Cardinality(MembersOf(s, e)) \in Nat
    BY MembersAreFinite, MemberAssumption
  <2>. QED  BY <2>1, SoundTypes
<1>2. RowsLast(s, s)
  BY DEF RowsLast
<1>. QED  BY <1>1, <1>2 DEF Later

(* A whole batch. *)
LEMMA BatchKeepsSound ==
    ASSUME Sound(store), NEW d \in Datasets, NEW batch \in Batches, Ingest(d, batch)
    PROVE  Sound(store') /\ Later(d, store, store')
<1>. DEFINE Good == {t \in AllTables : /\ store.born <= t.born
                                       /\ t.born <= MaxRows => Sound(t) /\ Later(d, store, t)}
<1>1. PICK n \in Nat : batch \in [1..n -> Found]
  <2>1. PICK n \in 0..MaxBatch : batch \in [1..n -> Found]
    BY DEF Batches, SeqOf
  <2>. QED  BY <2>1
<1>2. store \in Good
  BY SoundTypes, NothingLater
<1>3. ASSUME NEW t \in Good, NEW m \in Found
      PROVE  IngestOne(t, d, m) \in Good
  <2>. DEFINE u == IngestOne(t, d, m)
  <2>1. u \in AllTables /\ u.born >= t.born /\ t.born \in Nat /\ u.born \in Nat /\ store.born \in Nat /\ MaxRows \in Nat
    BY IngestGrows, SoundTypes, MemberAssumption DEF AllTables
  <2>2. CASE Invalid(m)
    BY <2>2 DEF IngestOne
  <2>3. ASSUME ~Invalid(m), u.born <= MaxRows
        PROVE  Sound(u) /\ Later(d, store, u)
    <3>1. Sound(t) /\ Later(d, store, t)
      BY <2>1, <2>3
    <3>2. PICK r \in Rows, gone \in SUBSET Rows : Merged(t, u, d, m, r, gone) /\ WellChosen(t, m, r, gone)
      BY <2>3, <3>1, IngestMerges
    <3>3. Sound(u) /\ Later(d, t, u)
      BY <2>1, <2>3, <3>1, <3>2, MergeKeepsSound
    <3>. QED  BY <3>1, <3>3, LaterStill
  <2>. HIDE DEF u
  <2>. QED  BY <2>1, <2>2, <2>3 DEF u
<1>4. store' = BatchOf(d, store, batch) /\ store'.born <= MaxRows
  BY DEF Ingest, BatchOf
<1>5. store' \in Good
  <2>. HIDE DEF Good
  <2>1. BatchOf(d, store, batch) \in Good
    BY <1>1, <1>2, <1>3, FoldKeeps
  <2>. QED  BY <1>4, <2>1
<1>. QED  BY <1>4, <1>5

-----------------------------------------------------------------------------
(* The tables, the counts and the combination.                             *)

Counts == [Datasets -> 0..MaxRows]
Combines == [pc : {"idle", "read", "add", "second"}, op : {"UNION", "INTERSECTION", "DIFFERENCE"},
             a : SUBSET ((Ids \cup Names) \X Rows), b : SUBSET ((Ids \cup Names) \X Rows)]

TablesInv ==
    /\ count \in Counts /\ combine \in Combines
    /\ Sound(store) /\ CountCoversMembers /\ CombineHasRead

(* At the start there is nothing in the tables. *)
LEMMA TablesInit == Init => TablesInv
<1>. SUFFICES ASSUME Init PROVE TablesInv
  OBVIOUS
<1>. USE DEF Init
<1>0. MaxRows \in Nat
  BY MemberAssumption
<1>1. NoRow \in Known /\ NoRow.id = NoId
  BY DEF NoRow, Known
<1>2. store \in AllTables
  BY <1>1 DEF AllTables
<1>3. Sound(store)
  BY <1>0, <1>1, <1>2 DEF Sound, FreshIsFree, InsideExists, IdsDiffer, FallbacksDiffer
<1>4. \A d \in Datasets : Cardinality(MembersOf(store, d)) = 0
  <2>1. \A d \in Datasets : MembersOf(store, d) = {}
    BY DEF MembersOf
  <2>. QED  BY <2>1, FS_EmptySet
<1>5. count \in Counts /\ CountCoversMembers
  <2>. HIDE DEF Init
  <2>1. count = [d \in Datasets |-> 0] /\ 0 \in 0..MaxRows
    BY <1>0 DEF Init
  <2>2. \A d \in Datasets : count[d] >= Cardinality(MembersOf(store, d))
    BY <1>4, <2>1
  <2>. QED  BY <2>1, <2>2 DEF Counts, CountCoversMembers
<1>6. combine \in Combines /\ CombineHasRead
  BY DEF Combines, NoCombine, CombineHasRead
<1>. QED  BY <1>3, <1>5, <1>6 DEF TablesInv

(* The count of the dataset that was written is taken anew, the others     *)
(* still cover what a merge has left.                                      *)
LEMMA RecountCovers ==
    ASSUME TablesInv, NEW d \in Datasets, Sound(store'), Later(d, store, store'), Recount(store', d)
    PROVE  count' \in Counts /\ CountCoversMembers'
<1>1. Cardinality(MembersOf(store', d)) \in 0..MaxRows
  BY MembersAreFinite
<1>2. count' \in Counts
  BY <1>1 DEF Recount, TablesInv, Counts
<1>3. ASSUME NEW e \in Datasets
      PROVE  count'[e] >= Cardinality(MembersOf(store', e))
  <2>1. MaxRows \in Nat
    BY MemberAssumption
  <2>2. CASE e = d
    BY <1>1, <2>1, <2>2 DEF Recount, TablesInv, Counts
  <2>3. CASE e # d
    <3>1. count'[e] = count[e] /\ count[e] \in 0..MaxRows
      BY <2>3 DEF Recount, TablesInv, Counts
    <3>2. Cardinality(MembersOf(store', e)) <= Cardinality(MembersOf(store, e))
      BY <2>3 DEF Later
    <3>3. count[e] >= Cardinality(MembersOf(store, e))
      BY DEF TablesInv, CountCoversMembers
    <3>4. Cardinality(MembersOf(store', e)) \in 0..MaxRows /\ Cardinality(MembersOf(store, e)) \in 0..MaxRows
      BY MembersAreFinite DEF TablesInv
    <3>. QED  BY <2>1, <3>1, <3>2, <3>3, <3>4
  <2>. QED  BY <2>2, <2>3
<1>. QED  BY <1>2, <1>3 DEF CountCoversMembers

(* A row that was deleted is not there later either. *)
LEMMA DeletedForGood ==
    ASSUME Sound(store), NEW d, Later(d, store, store'), NEW r \in Rows, r <= store.born, store'.rows[r] # NoRow
    PROVE  store.rows[r] # NoRow
<1>1. NoRow.id = NoId
  BY DEF NoRow
<1>. QED  BY <1>1 DEF Later, RowsLast

(* What a combination has read stays read. *)
LEMMA ReadStaysRead ==
    ASSUME TablesInv, NEW d, Sound(store'), Later(d, store, store'), UNCHANGED combine
    PROVE  CombineHasRead'
<1>1. store.born \in Nat /\ store'.born \in Nat /\ store.born <= store'.born
  BY SoundTypes DEF TablesInv, Later
<1>2. \A e \in combine.a \cup combine.b : e[2] \in Rows /\ e[2] \in Nat /\ e[2] <= store.born
  BY DEF TablesInv, Combines, CombineHasRead, Rows
<1>3. \A e \in combine'.a \cup combine'.b : e[2] <= store'.born
  BY <1>1, <1>2
<1>4. ASSUME combine'.pc = "second", combine'.op = "UNION", NEW e \in combine'.a, store'.rows[e[2]] # NoRow
      PROVE  <<Combined, e[2]>> \in store'.inside
  <2>1. store.rows[e[2]] # NoRow
    BY <1>2, <1>4, DeletedForGood DEF TablesInv
  <2>2. PICK p : p = <<Combined, e[2]>>
    OBVIOUS
  <2>3. p \in store.inside
    BY <1>4, <2>1, <2>2 DEF TablesInv, CombineHasRead
  <2>4. p \in store'.inside \/ Passed(store, store', p)
    BY <2>3 DEF Later
  <2>. QED  BY <1>4, <2>2, <2>4 DEF Passed
<1>. QED  BY <1>3, <1>4 DEF CombineHasRead

(* The transaction of a batch keeps the tables as they should be. *)
LEMMA TablesIngest ==
    ASSUME TablesInv, NEW d \in Given, NEW batch \in Batches, Ingest(d, batch)
    PROVE  TablesInv' /\ Later(d, store, store')
<1>0. d \in Datasets
  BY DEF Datasets
<1>1. Sound(store') /\ Later(d, store, store')
  BY <1>0, BatchKeepsSound DEF TablesInv
<1>2. Recount(store', d) /\ UNCHANGED combine
  BY DEF Ingest
<1>3. count' \in Counts /\ CountCoversMembers'
  BY <1>0, <1>1, <1>2, RecountCovers
<1>4. CombineHasRead'
  BY <1>1, <1>2, ReadStaysRead
<1>. QED  BY <1>1, <1>2, <1>3, <1>4 DEF TablesInv

(* What is read of a dataset: its rows, each under its key. *)
LEMMA WhatIsRead ==
    ASSUME TablesInv, NEW d
    PROVE  /\ IdentityMap(d) \in SUBSET ((Ids \cup Names) \X Rows)
           /\ \A e \in IdentityMap(d) : e[2] <= store.born
<1>. DEFINE row(p) == store.rows[p[2]]
<1>1. ASSUME NEW p \in store.inside
      PROVE  KeyOf(row(p)) \in Ids \cup Names /\ p[2] \in Rows /\ p[2] <= store.born
  <2>1. row(p) \in Known /\ row(p) # NoRow /\ p[2] \in Rows /\ p[2] <= store.born
    BY SoundTypes DEF TablesInv
  <2>. QED  BY <2>1 DEF KeyOf, Known, NoRow
<1>2. \A r \in MembersOf(store, d) : KeyOf(store.rows[r]) \in Ids \cup Names /\ r \in Rows /\ r <= store.born
  BY <1>1 DEF MembersOf
<1>. QED  BY <1>2 DEF IdentityMap

(* The first read of a combination does, ... *)
LEMMA TablesCombineReads ==
    ASSUME TablesInv, NEW d \in Given, NEW op \in {"UNION", "INTERSECTION", "DIFFERENCE"}, CombineReads(d, op)
    PROVE  TablesInv' /\ UNCHANGED store
<1>. USE DEF CombineReads
<1>1. IdentityMap(d) \in SUBSET ((Ids \cup Names) \X Rows) /\ \A e \in IdentityMap(d) : e[2] <= store.born
  BY WhatIsRead
<1>2. /\ combine' = [pc |-> "read", op |-> op, a |-> IdentityMap(d), b |-> {}]
      /\ UNCHANGED <<store, count>>
  BY DEF NoCombine
<1>. HIDE DEF CombineReads
<1>3. combine' \in Combines
  BY <1>1, <1>2 DEF Combines
<1>4. CombineHasRead'
  BY <1>1, <1>2 DEF CombineHasRead
<1>. QED  BY <1>2, <1>3, <1>4 DEF TablesInv, CountCoversMembers

(* ... the second read does, ... *)
LEMMA TablesCombineReadsOther ==
    ASSUME TablesInv, NEW d \in Given, CombineReadsOther(d)
    PROVE  TablesInv' /\ UNCHANGED store
<1>1. IdentityMap(d) \in SUBSET ((Ids \cup Names) \X Rows) /\ \A e \in IdentityMap(d) : e[2] <= store.born
  BY WhatIsRead
<1>2. /\ combine' \in Combines /\ combine'.pc = "add" /\ combine'.a = combine.a /\ combine'.b = IdentityMap(d)
      /\ UNCHANGED <<store, count>>
  BY <1>1 DEF TablesInv, Combines, CombineReadsOther
<1>3. CombineHasRead'
  BY <1>1, <1>2 DEF TablesInv, CombineHasRead
<1>. QED  BY <1>2, <1>3 DEF TablesInv, CountCoversMembers

(* Rows are added to the combined dataset, or none is. *)
LEMMA RowsAreAdded ==
    ASSUME TablesInv, NEW rows \in SUBSET Rows, NEW next, AddMemberIds(rows, next)
    PROVE  /\ Sound(store') /\ Later(Combined, store, store') /\ store'.rows = store.rows /\ store'.born = store.born
           /\ count' \in Counts /\ CountCoversMembers'
           /\ \/ combine' = next /\ \A r \in rows : <<Combined, r>> \in store'.inside
              \/ combine' = NoCombine /\ (\E r \in rows : store.rows[r] = NoRow)
           /\ store.inside \subseteq store'.inside
<1>0. Combined \in Datasets
  BY DEF Datasets
<1>1. CASE ~ \A r \in rows : store.rows[r] # NoRow
  <2>1. UNCHANGED <<store, count>> /\ combine' = NoCombine
    BY <1>1 DEF AddMemberIds
  <2>2. Later(Combined, store, store)
    BY NothingLater DEF TablesInv
  <2>. QED  BY <1>1, <2>1, <2>2 DEF TablesInv, CountCoversMembers
<1>2. CASE \A r \in rows : store.rows[r] # NoRow
  <2>1. /\ store' = [store EXCEPT !.inside = @ \cup ({Combined} \X rows)]
        /\ IF rows = {} THEN UNCHANGED count ELSE Recount(store', Combined)
        /\ combine' = next
    BY <1>2 DEF AddMemberIds
  <2>2. store \in AllTables /\ store.inside \subseteq Datasets \X Nat /\ store.born \in Nat
        /\ \A p \in store.inside : p[2] \in Rows /\ store.rows[p[2]] # NoRow
    BY SoundTypes DEF TablesInv
  <2>3. {Combined} \X rows \subseteq Datasets \X Nat
    <3>1. \A r \in rows : r \in Nat
      BY DEF Rows
    <3>. QED  BY <1>0, <3>1
  <2>4. /\ store' \in AllTables /\ store'.rows = store.rows /\ store'.born = store.born /\ store'.hashes = store.hashes
        /\ store'.inside = store.inside \cup ({Combined} \X rows)
    BY <2>1, <2>2, <2>3 DEF AllTables
  <2>5. Sound(store')
    <3>1. InsideExists(store')
      BY <1>2, <2>2, <2>4 DEF InsideExists
    <3>. QED  BY <2>4, <3>1 DEF TablesInv, Sound, FreshIsFree, IdsDiffer, FallbacksDiffer
  <2>6. ASSUME NEW e \in Datasets \ {Combined}
        PROVE  Cardinality(MembersOf(store', e)) <= Cardinality(MembersOf(store, e))
    <3>1. MembersOf(store', e) = MembersOf(store, e)
      BY <2>4 DEF MembersOf
    <3>2. Cardinality(MembersOf(store, e)) \in Nat
      BY MembersAreFinite, MemberAssumption DEF TablesInv
    <3>. QED  BY <3>1, <3>2
  <2>7. RowsLast(store, store')
    BY <2>4 DEF RowsLast
  <2>8. Later(Combined, store, store')
    BY <2>2, <2>4, <2>6, <2>7 DEF Later
  <2>9. count' \in Counts /\ CountCoversMembers'
    <3>1. CASE rows = {}
      <4>1. \A e \in Datasets : MembersOf(store', e) = MembersOf(store, e)
        BY <2>4, <3>1 DEF MembersOf
      <4>. QED  BY <2>1, <3>1, <4>1 DEF TablesInv, CountCoversMembers
    <3>2. CASE rows # {}
      BY <1>0, <2>1, <2>5, <2>8, <3>2, RecountCovers
    <3>. QED  BY <3>1, <3>2
  <2>. QED  BY <2>1, <2>4, <2>5, <2>8, <2>9
<1>. QED  BY <1>1, <1>2

(* Of a union every row that was read is added. *)
LEMMA SidesAreRead ==
    ASSUME TablesInv
    PROVE  /\ Side(combine.a) \in SUBSET Rows /\ Side(combine.b) \in SUBSET Rows
           /\ combine.op = "UNION" => /\ \A e \in combine.a : e[2] \in Side(combine.a)
                                      /\ \A e \in combine.b : e[2] \in Side(combine.b)
           /\ \A r \in Side(combine.b) : \E e \in combine.b : r = e[2]
<1>1. /\ \A e \in combine.a \cup combine.b : e[2] \in Rows
      /\ combine.a \subseteq (Ids \cup Names) \X Rows /\ combine.b \subseteq (Ids \cup Names) \X Rows
  BY DEF TablesInv, Combines
<1>. DEFINE keys == Keys(combine.op, combine.a, combine.b)
<1>2. \A map : \A r : r \in Side(map) <=> \E e \in map : e[1] \in keys /\ r = e[2]
  BY DEF Side
<1>3. combine.op = "UNION" => \A e \in combine.a \cup combine.b : e[1] \in keys
  BY DEF Keys, KeysOf
<1>. HIDE DEF keys
<1>. QED  BY <1>1, <1>2, <1>3

(* ... its first transaction, after which one side is in the new dataset, ... *)
LEMMA TablesCombineAdds ==
    ASSUME TablesInv, CombineAdds
    PROVE  TablesInv' /\ Later(Combined, store, store')
<1>1. PICK next : next = [combine EXCEPT !.pc = "second"]
  OBVIOUS
<1>2. /\ next \in Combines /\ next.pc = "second"
      /\ next.op = combine.op /\ next.a = combine.a /\ next.b = combine.b
  BY <1>1 DEF TablesInv, Combines
<1>3. AddMemberIds(Side(combine.a), next)
  BY <1>1 DEF CombineAdds
<1>4. /\ Sound(store') /\ Later(Combined, store, store') /\ store'.rows = store.rows /\ store'.born = store.born
      /\ count' \in Counts /\ CountCoversMembers'
      /\ \/ combine' = next /\ \A r \in Side(combine.a) : <<Combined, r>> \in store'.inside
         \/ combine' = NoCombine
  BY <1>3, SidesAreRead, RowsAreAdded
<1>5. CASE combine' = NoCombine
  BY <1>4, <1>5 DEF TablesInv, NoCombine, Combines, CombineHasRead
<1>6. CASE combine' = next /\ \A r \in Side(combine.a) : <<Combined, r>> \in store'.inside
  <2>1. CombineHasRead'
    BY <1>2, <1>4, <1>6, SidesAreRead DEF TablesInv, CombineHasRead
  <2>. QED  BY <1>2, <1>4, <1>6, <2>1 DEF TablesInv
<1>. QED  BY <1>4, <1>5, <1>6

(* ... and its second one, which ends it. *)
LEMMA TablesCombineAddsOther ==
    ASSUME TablesInv, CombineAddsOther
    PROVE  TablesInv' /\ Later(Combined, store, store')
<1>1. AddMemberIds(Side(combine.b), NoCombine)
  BY DEF CombineAddsOther
<1>2. /\ Sound(store') /\ Later(Combined, store, store')
      /\ count' \in Counts /\ CountCoversMembers' /\ combine' = NoCombine
  BY <1>1, SidesAreRead, RowsAreAdded
<1>. QED  BY <1>2 DEF TablesInv, NoCombine, Combines, CombineHasRead

(* Every step keeps the tables sound and is one that Later allows. *)
LEMMA TablesNext == TablesInv /\ [Next]_vars => TablesInv' /\ \E d \in Datasets : Later(d, store, store')
<1>. SUFFICES ASSUME TablesInv, [Next]_vars PROVE TablesInv' /\ \E d \in Datasets : Later(d, store, store')
  OBVIOUS
<1>1. Combined \in Datasets /\ Given \subseteq Datasets
  BY DEF Datasets
<1>2. ASSUME NEW d \in Given, NEW batch \in Batches, Ingest(d, batch)
      PROVE  TablesInv' /\ \E e \in Datasets : Later(e, store, store')
  BY <1>1, <1>2, TablesIngest
<1>3. ASSUME TablesInv', UNCHANGED store
      PROVE  \E e \in Datasets : Later(e, store, store')
  BY <1>1, <1>3, NothingLater DEF TablesInv
<1>4. CASE \E d \in Given, op \in {"UNION", "INTERSECTION", "DIFFERENCE"} : CombineReads(d, op)
  BY <1>3, <1>4, TablesCombineReads
<1>5. CASE \E d \in Given : CombineReadsOther(d)
  BY <1>3, <1>5, TablesCombineReadsOther
<1>6. CASE CombineAdds \/ CombineAddsOther
  BY <1>1, <1>6, TablesCombineAdds, TablesCombineAddsOther
<1>7. ASSUME UNCHANGED <<store, count, combine>>
      PROVE  TablesInv' /\ \E e \in Datasets : Later(e, store, store')
  BY <1>3, <1>7 DEF TablesInv, CountCoversMembers, CombineHasRead
<1>8. CASE \/ \E action \in {"INVITE", "REMOVE"} : Precheck(action)
           \/ \E d \in Datasets : CreatePlan(d)
           \/ AddItems
           \/ \E j \in DOMAIN jobs : \/ Flush(j) \/ ResultsLost(j) \/ JobEnds(j)
                                     \/ \E r \in DOMAIN jobs[j].items : Call(j, r)
           \/ \E i \in Ids : Left(i)
           \/ UNCHANGED vars
  BY <1>7, <1>8 DEF Precheck, CreatePlan, AddItems, Call, Flush, ResultsLost, JobEnds, Left, vars
<1>. QED  BY <1>2, <1>4, <1>5, <1>6, <1>8 DEF Next

-----------------------------------------------------------------------------
(* The preparation and the jobs.                                           *)

Preps == [pc : {"idle", "checked", "created"}, action : {"INVITE", "REMOVE"},
          seen : SUBSET Ids, chosen : SUBSET Rows]

JobsInv ==
    /\ prep \in Preps /\ jobs \in Seq(Jobs) /\ Len(jobs) <= MaxJobs
    /\ target \subseteq Ids /\ added \subseteq Ids /\ unrecorded \subseteq Ids /\ ingests \in 0..MaxIngests
    /\ ItemsHaveIds /\ OneAtATime /\ BuffersAreOpen /\ AddedAreKnown /\ InvitedAreNew

(* ProcessedIds are the ids of the rows dealt with. *)
LEMMA ProcessedIdsAre ==
    /\ \A i : i \in ProcessedIds <=> \E r : ProcessedRow(r) /\ i = Id(r)
    /\ \A i : i \in ProcessedIds' <=> \E r : ProcessedRow(r)' /\ i = Id(r)'
BY DEF ProcessedIds, ProcessedRow, Id

(* At the start there are no jobs. *)
LEMMA JobsInit == Init => JobsInv
<1>. SUFFICES ASSUME Init PROVE JobsInv
  OBVIOUS
<1>1. MaxJobs \in Nat /\ MaxIngests \in Nat /\ Present \subseteq Ids
  BY MemberAssumption, FoundAssumption
<1>2. /\ jobs = <<>> /\ added = {} /\ unrecorded = {} /\ ingests = 0 /\ target = Present
      /\ prep = [pc |-> "idle", action |-> "INVITE", seen |-> {}, chosen |-> {}]
  BY DEF Init, NoPrep
<1>3. jobs \in Seq(Jobs) /\ Len(jobs) = 0 /\ DOMAIN jobs = {} /\ prep \in Preps
  BY <1>2 DEF Preps
<1>4. ItemsHaveIds /\ OneAtATime /\ BuffersAreOpen /\ AddedAreKnown /\ InvitedAreNew
  BY <1>2, <1>3 DEF ItemsHaveIds, OneAtATime, BuffersAreOpen, AddedAreKnown, InvitedAreNew
<1>. QED  BY <1>1, <1>2, <1>3, <1>4 DEF JobsInv

(* What jobs are made of. *)
LEMMA JobTypes ==
    ASSUME JobsInv
    PROVE  /\ Len(jobs) \in Nat /\ DOMAIN jobs = 1..Len(jobs)
           /\ \A j \in DOMAIN jobs : /\ jobs[j] \in Jobs /\ jobs[j].action \in {"INVITE", "REMOVE"} /\ jobs[j].over \in BOOLEAN
                                     /\ DOMAIN jobs[j].items \subseteq Rows
                                     /\ jobs[j].items \in [DOMAIN jobs[j].items -> ItemStates]
                                     /\ jobs[j].heard \in [Rows -> Outcomes \cup {"NONE"}]
<1>1. jobs \in Seq(Jobs)
  BY DEF JobsInv
<1>2. Len(jobs) \in Nat /\ DOMAIN jobs = 1..Len(jobs) /\ \A j \in DOMAIN jobs : jobs[j] \in Jobs
  BY <1>1
<1>3. ASSUME NEW job \in Jobs
      PROVE  /\ job.action \in {"INVITE", "REMOVE"} /\ job.over \in BOOLEAN
             /\ DOMAIN job.items \subseteq Rows /\ job.items \in [DOMAIN job.items -> ItemStates]
             /\ job.heard \in [Rows -> Outcomes \cup {"NONE"}]
  <2>1. /\ job.action \in {"INVITE", "REMOVE"} /\ job.over \in BOOLEAN
        /\ job.items \in UNION {[R -> ItemStates] : R \in SUBSET Rows}
        /\ job.heard \in [Rows -> Outcomes \cup {"NONE"}]
    BY DEF Jobs
  <2>2. PICK R \in SUBSET Rows : job.items \in [R -> ItemStates]
    BY <2>1
  <2>. QED  BY <2>1, <2>2
<1>. QED  BY <1>2, <1>3

(* The rows that a job has dealt with or heard of have an id. *)
LEMMA KnownHaveIds ==
    ASSUME JobsInv, NEW r, ProcessedRow(r) \/ HeardRow(r)
    PROVE  r \in Rows /\ Id(r) # NoId
BY JobTypes DEF JobsInv, ItemsHaveIds, BuffersAreOpen, ProcessedRow, HeardRow

(* The tables change, the jobs do not: an id that a row has stays. *)
LEMMA JobsOverTables ==
    ASSUME JobsInv, NEW d, Later(d, store, store'), UNCHANGED <<prep, jobs, target, added, unrecorded>>,
           ingests' \in 0..MaxIngests
    PROVE  JobsInv'
<1>1. \A r \in Rows : Id(r) # NoId => Id(r)' = Id(r)
  BY DEF Later, RowsLast, Id
<1>2. \A j \in DOMAIN jobs : \A r \in DOMAIN jobs[j].items : r \in Rows
  BY JobTypes
<1>3. \A r \in prep.chosen : r \in Rows
  BY DEF JobsInv, Preps
<1>4. ItemsHaveIds'
  BY <1>1, <1>2, <1>3 DEF JobsInv, ItemsHaveIds
<1>5. \A r : (ProcessedRow(r)' <=> ProcessedRow(r)) /\ (HeardRow(r)' <=> HeardRow(r))
  BY DEF ProcessedRow, HeardRow
<1>6. \A r : ProcessedRow(r) \/ HeardRow(r) => Id(r)' = Id(r)
  BY <1>1, KnownHaveIds
<1>7. AddedAreKnown'
  BY <1>5, <1>6 DEF JobsInv, AddedAreKnown
<1>8. \A r \in Rows : Id(r) # NoId /\ IsNew(r) => IsNew(r)'
  BY <1>1, <1>5, <1>6 DEF IsNew
<1>9. InvitedAreNew'
  BY <1>2, <1>3, <1>8 DEF JobsInv, ItemsHaveIds, InvitedAreNew
<1>10. OneAtATime' /\ BuffersAreOpen'
  BY DEF JobsInv, OneAtATime, BuffersAreOpen
<1>. QED  BY <1>4, <1>7, <1>9, <1>10 DEF JobsInv

(* A precheck chooses nobody yet. *)
LEMMA JobsPrecheck ==
    ASSUME JobsInv, NEW action \in {"INVITE", "REMOVE"}, Precheck(action)
    PROVE  JobsInv'
<1>1. PICK seen \in SUBSET target : prep' = [NoPrep EXCEPT !.pc = "checked", !.action = action, !.seen = seen]
  BY DEF Precheck
<1>2. prep' = [pc |-> "checked", action |-> action, seen |-> seen, chosen |-> {}]
  BY <1>1 DEF NoPrep
<1>3. /\ UNCHANGED <<store, jobs, target, added, unrecorded, ingests>> /\ Len(jobs) < MaxJobs
      /\ \A j \in DOMAIN jobs : jobs[j].over
  BY DEF Precheck, Free
<1>4. prep' \in Preps
  BY <1>2 DEF JobsInv, Preps
<1>5. ItemsHaveIds' /\ BuffersAreOpen' /\ AddedAreKnown' /\ InvitedAreNew'
  BY <1>2, <1>3 DEF JobsInv, ItemsHaveIds, BuffersAreOpen, AddedAreKnown, InvitedAreNew, IsNew, ProcessedRow, HeardRow, Id
<1>6. OneAtATime'
  BY <1>2, <1>3 DEF OneAtATime
<1>. QED  BY <1>3, <1>4, <1>5, <1>6 DEF JobsInv

(* A plan chooses rows with an id, of whom none was added before. *)
LEMMA JobsCreatePlan ==
    ASSUME JobsInv, Sound(store), NEW d \in Datasets, CreatePlan(d)
    PROVE  JobsInv'
<1>1. PICK kept \in SUBSET Candidates(d) : prep' = [prep EXCEPT !.pc = "created", !.chosen = kept]
  BY DEF CreatePlan
<1>2. /\ prep.pc = "checked" /\ jobs' = Append(jobs, NewJob)
      /\ UNCHANGED <<store, target, added, unrecorded, ingests>>
  BY DEF CreatePlan
<1>3. kept \subseteq Rows
  <2>1. MembersOf(store, d) \subseteq Rows
    BY MembersAreFinite
  <2>. QED  BY <2>1 DEF Candidates, Reachable
<1>4. \A r \in kept : Id(r) # NoId
  <2>1. \A r \in kept : Id(r) \in store.hashes
    BY DEF Candidates, Reachable, Id
  <2>. QED  BY <2>1, SoundTypes, MemberAssumption
<1>5. prep.action = "INVITE" => \A r \in kept : IsNew(r)
  <2>1. prep.action = "INVITE" => \A r \in kept : Id(r) \notin ProcessedIds
    BY DEF Candidates, Id
  <2>. QED  BY <2>1, ProcessedIdsAre DEF IsNew
<1>6. /\ prep'.pc = "created" /\ prep'.chosen = kept /\ prep'.action = prep.action /\ prep' \in Preps
  BY <1>1, <1>3 DEF JobsInv, Preps
<1>7. /\ NewJob \in Jobs /\ NewJob.action = prep.action /\ DOMAIN NewJob.items = {} /\ NewJob.over = FALSE
      /\ \A r \in Rows : NewJob.heard[r] = "NONE"
  <2>1. <<>> \in [{} -> ItemStates]
    OBVIOUS
  <2>2. <<>> \in UNION {[R -> ItemStates] : R \in SUBSET Rows}
    BY <2>1
  <2>3. prep.action \in {"INVITE", "REMOVE"}
    BY DEF JobsInv, Preps
  <2>4. DOMAIN <<>> = {}
    OBVIOUS
  <2>5. NewJob = [action |-> prep.action, over |-> FALSE, items |-> <<>>, heard |-> NothingHeard]
    BY DEF NewJob
  <2>6. NothingHeard \in [Rows -> Outcomes \cup {"NONE"}] /\ \A r \in Rows : NothingHeard[r] = "NONE"
    BY DEF NothingHeard
  <2>7. NewJob \in Jobs
    BY <2>2, <2>3, <2>5, <2>6 DEF Jobs
  <2>. QED  BY <2>4, <2>5, <2>6, <2>7
<1>. HIDE DEF NewJob
<1>8. /\ Len(jobs) < MaxJobs /\ prep.chosen = {} /\ \A j \in DOMAIN jobs : jobs[j].over
  BY <1>2 DEF JobsInv, OneAtATime
<1>9. /\ jobs' \in Seq(Jobs) /\ Len(jobs') = Len(jobs) + 1 /\ Len(jobs') <= MaxJobs
      /\ DOMAIN jobs' = DOMAIN jobs \cup {Len(jobs')}
      /\ jobs'[Len(jobs')] = NewJob /\ \A j \in DOMAIN jobs : jobs'[j] = jobs[j]
      /\ jobs' # <<>>
  BY <1>2, <1>7, <1>8, MemberAssumption DEF JobsInv
<1>10. ItemsHaveIds'
  BY <1>2, <1>4, <1>6, <1>7, <1>9 DEF JobsInv, ItemsHaveIds, Id
<1>11. OneAtATime'
  BY <1>6, <1>7, <1>8, <1>9 DEF OneAtATime
<1>12. \A r : (ProcessedRow(r)' <=> ProcessedRow(r)) /\ (HeardRow(r)' <=> HeardRow(r)) /\ Id(r)' = Id(r)
  <2>1. Len(jobs') \notin DOMAIN jobs
    BY <1>9, JobTypes
  <2>2. \A r : Id(r)' = Id(r)
    BY <1>2 DEF Id
  <2>3. \A r : ProcessedRow(r)' <=> ProcessedRow(r)
    BY <1>7, <1>9, <2>1 DEF ProcessedRow
  <2>4. \A r : HeardRow(r)' <=> HeardRow(r)
    BY <1>7, <1>9, <2>1 DEF HeardRow
  <2>. QED  BY <2>2, <2>3, <2>4
<1>13. AddedAreKnown'
  BY <1>2, <1>12 DEF JobsInv, AddedAreKnown
<1>14. \A r : IsNew(r) => IsNew(r)'
  BY <1>12 DEF IsNew
<1>15. InvitedAreNew'
  BY <1>5, <1>6, <1>7, <1>8, <1>9, <1>14 DEF InvitedAreNew
<1>16. BuffersAreOpen'
  BY <1>7, <1>9 DEF JobsInv, BuffersAreOpen
<1>. QED  BY <1>2, <1>6, <1>9, <1>10, <1>11, <1>13, <1>15, <1>16 DEF JobsInv

(* The items of the job are the rows chosen. *)
LEMMA JobsAddItems ==
    ASSUME JobsInv, AddItems
    PROVE  JobsInv'
<1>. DEFINE n == Len(jobs)
            new == [r \in prep.chosen |-> "READY"]
<1>1. /\ prep.pc = "created" /\ prep' = NoPrep
      /\ UNCHANGED <<store, target, added, unrecorded, ingests>>
  BY DEF AddItems
<1>2. /\ n \in DOMAIN jobs /\ DOMAIN jobs[n].items = {} /\ jobs[n].action = prep.action /\ jobs[n] \in Jobs
      /\ \A j \in DOMAIN jobs : j = n \/ jobs[j].over
  BY <1>1, JobTypes DEF JobsInv, OneAtATime
<1>3. prep.chosen \subseteq Rows
  BY DEF JobsInv, Preps
<1>4. new \in UNION {[R -> ItemStates] : R \in SUBSET Rows} /\ DOMAIN new = prep.chosen /\ \A r \in prep.chosen : new[r] = "READY"
  <2>1. new \in [prep.chosen -> ItemStates]
    BY DEF ItemStates
  <2>. QED  BY <1>3, <2>1
<1>. HIDE DEF n, new
<1>5. jobs' = [jobs EXCEPT ![n].items = new]
  BY DEF AddItems, n, new
<1>6. /\ jobs' \in Seq(Jobs) /\ Len(jobs') = Len(jobs) /\ DOMAIN jobs' = DOMAIN jobs
      /\ \A j \in DOMAIN jobs : j # n => jobs'[j] = jobs[j]
      /\ jobs'[n].action = jobs[n].action /\ jobs'[n].over = jobs[n].over /\ jobs'[n].items = new
      /\ jobs'[n].heard = jobs[n].heard /\ \A r \in Rows : jobs[n].heard[r] = "NONE"
  <2>1. [jobs[n] EXCEPT !.items = new] \in Jobs
    BY <1>2, <1>4 DEF Jobs
  <2>2. \A r \in Rows : jobs[n].heard[r] = "NONE"
    BY <1>2 DEF JobsInv, BuffersAreOpen
  <2>. DEFINE job == [jobs[n] EXCEPT !.items = new]
  <2>3. jobs' = [jobs EXCEPT ![n] = job]
    BY <1>5
  <2>4. /\ job.action = jobs[n].action /\ job.over = jobs[n].over /\ job.items = new
        /\ job.heard = jobs[n].heard
    BY <1>2 DEF Jobs
  <2>. HIDE DEF job
  <2>5. job \in Jobs
    BY <2>1 DEF job
  <2>. QED  BY <1>2, <2>2, <2>3, <2>4, <2>5 DEF JobsInv
<1>7. prep' \in Preps /\ prep'.pc = "idle" /\ prep'.chosen = {}
  BY <1>1 DEF NoPrep, Preps
<1>8. ItemsHaveIds'
  BY <1>1, <1>4, <1>6, <1>7 DEF JobsInv, ItemsHaveIds, Id
<1>9. OneAtATime'
  BY <1>2, <1>6, <1>7 DEF OneAtATime
<1>10. \A r : (ProcessedRow(r)' <=> ProcessedRow(r)) /\ (HeardRow(r)' <=> HeardRow(r)) /\ Id(r)' = Id(r)
  <2>1. \A r : Id(r)' = Id(r)
    BY <1>1 DEF Id
  <2>2. \A r : ProcessedRow(r)' <=> ProcessedRow(r)
    BY <1>2, <1>4, <1>6 DEF ProcessedRow
  <2>3. \A r : HeardRow(r)' <=> HeardRow(r)
    BY <1>2, <1>6 DEF HeardRow
  <2>. QED  BY <2>1, <2>2, <2>3
<1>11. AddedAreKnown' /\ BuffersAreOpen'
  BY <1>1, <1>2, <1>6, <1>10 DEF JobsInv, AddedAreKnown, BuffersAreOpen
<1>12. InvitedAreNew'
  <2>1. ASSUME NEW j \in DOMAIN jobs', NEW r \in DOMAIN jobs'[j].items,
               ~jobs'[j].over, jobs'[j].action = "INVITE"
        PROVE  IsNew(r)'
    <3>1. j = n
      BY <1>2, <1>6, <2>1
    <3>2. r \in prep.chosen /\ prep.action = "INVITE"
      BY <1>2, <1>4, <1>6, <2>1, <3>1
    <3>3. IsNew(r)
      BY <1>1, <3>2 DEF JobsInv, InvitedAreNew
    <3>. QED  BY <1>10, <3>3 DEF IsNew
  <2>. QED  BY <1>7, <2>1 DEF InvitedAreNew
<1>. QED  BY <1>1, <1>6, <1>7, <1>8, <1>9, <1>11, <1>12 DEF JobsInv

(* One job changes, with the items it has. *)
LEMMA JobChanged ==
    ASSUME JobsInv, NEW j \in DOMAIN jobs, NEW job \in Jobs, job.action = jobs[j].action,
           DOMAIN job.items = DOMAIN jobs[j].items, jobs[j].over => job.over,
           jobs' = [jobs EXCEPT ![j] = job], UNCHANGED <<store, prep>>
    PROVE  /\ jobs' \in Seq(Jobs) /\ Len(jobs') <= MaxJobs /\ DOMAIN jobs' = DOMAIN jobs
           /\ jobs'[j] = job /\ \A k \in DOMAIN jobs : k # j => jobs'[k] = jobs[k]
           /\ \A r : Id(r)' = Id(r)
           /\ ItemsHaveIds' /\ OneAtATime'
<1>1. /\ jobs' \in Seq(Jobs) /\ Len(jobs') = Len(jobs) /\ DOMAIN jobs' = DOMAIN jobs
      /\ jobs'[j] = job /\ \A k \in DOMAIN jobs : k # j => jobs'[k] = jobs[k]
  BY JobTypes DEF JobsInv
<1>2. \A r : Id(r)' = Id(r)
  BY DEF Id
<1>3. /\ \A k \in DOMAIN jobs : /\ jobs'[k].action = jobs[k].action /\ jobs[k].over => jobs'[k].over
                                /\ DOMAIN jobs'[k].items = DOMAIN jobs[k].items
  BY <1>1
<1>4. ItemsHaveIds'
  BY <1>1, <1>2, <1>3 DEF JobsInv, ItemsHaveIds
<1>5. OneAtATime'
  <2>1. jobs # <<>> => jobs' # <<>>
    BY <1>1
  <2>2. jobs # <<>> => Len(jobs) \in DOMAIN jobs
    BY JobTypes
  <2>. QED  BY <1>1, <1>3, <2>1, <2>2 DEF JobsInv, OneAtATime
<1>. QED  BY <1>1, <1>2, <1>4, <1>5 DEF JobsInv

(* Which of two rows with the same id has been heard of. *)
LEMMA HeardIsOwn ==
    ASSUME JobsInv, Sound(store), NEW j \in DOMAIN jobs, ~jobs[j].over, NEW q, NEW r \in Rows,
           HeardRow(q), Id(q) = Id(r)
    PROVE  q = r /\ jobs[j].heard[r] = "SUCCESS"
<1>1. PICK k \in DOMAIN jobs : q \in Rows /\ jobs[k].heard[q] = "SUCCESS"
  BY DEF HeardRow
<1>2. k = j
  BY <1>1 DEF JobsInv, BuffersAreOpen, OneAtATime
<1>3. Id(q) # NoId
  BY KnownHaveIds
<1>4. q = r
  BY <1>1, <1>3 DEF Sound, IdsDiffer, Id
<1>. QED  BY <1>1, <1>2, <1>4

(* A call brings nobody back whose addition is on record: the item is open *)
(* and unheard of, and its member new to the plan.                         *)
LEMMA JobsCall ==
    ASSUME JobsInv, Sound(store), NEW j \in DOMAIN jobs, NEW r \in DOMAIN jobs[j].items, Call(j, r)
    PROVE  /\ JobsInv'
           /\ \A i \in target' \ target : i \in added => i \in unrecorded
<1>. DEFINE i == Id(r)
            invite == jobs[j].action = "INVITE"
            idle == invite <=> i \in target
<1>1. /\ ~jobs[j].over /\ jobs[j].items[r] = "READY" /\ jobs[j].heard[r] = "NONE"
      /\ UNCHANGED <<store, prep, ingests>>
  BY DEF Call
<1>2. /\ jobs[j] \in Jobs /\ DOMAIN jobs[j].items \subseteq Rows
      /\ jobs[j].heard \in [Rows -> Outcomes \cup {"NONE"}]
  BY JobTypes
<1>3. PICK result \in Outcomes \cup {"NONE"} :
        /\ jobs' = [jobs EXCEPT ![j].heard[r] = result]
        /\ \/ /\ target' = IF invite THEN target \cup {i} ELSE target \ {i}
              /\ added' = IF invite /\ ~idle THEN added \cup {i} ELSE added
              /\ \/ result = (IF idle THEN "SKIPPED" ELSE "SUCCESS") /\ unrecorded' = unrecorded
                 \/ result # "SUCCESS" /\ unrecorded' = IF invite THEN unrecorded \cup {i} ELSE unrecorded
           \/ result # "SUCCESS" /\ UNCHANGED <<target, added, unrecorded>>
  <2>1. jobs = [jobs EXCEPT ![j].heard[r] = "NONE"]
    BY <1>1, <1>2, JobTypes DEF JobsInv, Jobs
  <2>. QED  BY <2>1 DEF Call, Outcomes, Id
<1>4. i # NoId /\ i \in Ids /\ r \in Rows
  <2>1. i # NoId
    BY DEF JobsInv, ItemsHaveIds
  <2>. QED  BY <1>2, <2>1, SoundTypes DEF Id
<1>5. /\ \/ added' = added /\ target' \subseteq target
         \/ /\ invite /\ added' = added \cup {i} /\ target' = target \cup {i}
            /\ result = "SUCCESS" \/ i \in unrecorded'
      /\ unrecorded \subseteq unrecorded' /\ unrecorded' \subseteq unrecorded \cup {i}
  BY <1>3
<1>. DEFINE heard == [jobs[j].heard EXCEPT ![r] = result]
            job == [jobs[j] EXCEPT !.heard = heard]
<1>6. /\ heard \in [Rows -> Outcomes \cup {"NONE"}] /\ heard[r] = result
      /\ \A q \in Rows : q # r => heard[q] = jobs[j].heard[q]
  BY <1>2, <1>4
<1>7. jobs' = [jobs EXCEPT ![j] = job]
  BY <1>3
<1>. HIDE DEF heard
<1>8. /\ job \in Jobs /\ job.action = jobs[j].action /\ job.items = jobs[j].items /\ job.over = jobs[j].over
      /\ job.heard = heard
  BY <1>2, <1>6 DEF Jobs
<1>. HIDE DEF job, i, invite, idle
<1>9. /\ jobs' \in Seq(Jobs) /\ Len(jobs') <= MaxJobs /\ DOMAIN jobs' = DOMAIN jobs
      /\ jobs'[j] = job /\ \A k \in DOMAIN jobs : k # j => jobs'[k] = jobs[k]
      /\ \A q : Id(q)' = Id(q)
      /\ ItemsHaveIds' /\ OneAtATime'
  BY <1>1, <1>7, <1>8, JobChanged
<1>10. target' \subseteq Ids /\ added' \subseteq Ids /\ unrecorded' \subseteq Ids
  BY <1>4, <1>5 DEF JobsInv
<1>11. BuffersAreOpen'
  BY <1>1, <1>6, <1>8, <1>9 DEF JobsInv, BuffersAreOpen
<1>12. \A q : ProcessedRow(q)' <=> ProcessedRow(q)
  BY <1>8, <1>9 DEF ProcessedRow
<1>13. /\ \A q : HeardRow(q) => HeardRow(q)'
       /\ invite /\ result = "SUCCESS" => HeardRow(r)'
  <2>1. \A q : HeardRow(q) => HeardRow(q)'
    BY <1>1, <1>6, <1>8, <1>9 DEF HeardRow
  <2>2. invite /\ result = "SUCCESS" => HeardRow(r)'
    BY <1>4, <1>6, <1>8, <1>9 DEF HeardRow, invite
  <2>. QED  BY <2>1, <2>2
<1>14. AddedAreKnown'
  <2>1. ASSUME NEW a \in added
        PROVE  a \in unrecorded' \/ \E q : (ProcessedRow(q)' \/ HeardRow(q)') /\ a = Id(q)'
    BY <1>5, <1>9, <1>12, <1>13 DEF JobsInv, AddedAreKnown
  <2>2. i \in added' \ added => i \in unrecorded' \/ (HeardRow(r)' /\ i = Id(r)')
    BY <1>5, <1>9, <1>13 DEF i
  <2>. QED  BY <1>5, <2>1, <2>2 DEF AddedAreKnown
<1>15. InvitedAreNew'
  <2>1. \A q : IsNew(q) => IsNew(q)'
    BY <1>9, <1>12 DEF IsNew
  <2>2. \A k \in DOMAIN jobs : jobs'[k].items = jobs[k].items /\ jobs'[k].action = jobs[k].action
                              /\ jobs'[k].over = jobs[k].over
    BY <1>8, <1>9
  <2>. QED  BY <1>1, <1>9, <2>1, <2>2 DEF JobsInv, InvitedAreNew
<1>16. ASSUME i \in added, invite, i \notin unrecorded
       PROVE  FALSE
  <2>1. PICK q : (ProcessedRow(q) \/ HeardRow(q)) /\ i = Id(q)
    BY <1>16 DEF JobsInv, AddedAreKnown
  <2>2. IsNew(r)
    BY <1>1, <1>16 DEF JobsInv, InvitedAreNew, invite
  <2>3. ~ProcessedRow(q)
    BY <2>1, <2>2 DEF IsNew, i
  <2>4. jobs[j].heard[r] = "SUCCESS"
    BY <1>1, <1>4, <2>1, <2>3, HeardIsOwn DEF i
  <2>. QED  BY <1>1, <2>4
<1>17. \A a \in target' \ target : a = i /\ invite
  BY <1>5
<1>. QED  BY <1>1, <1>9, <1>10, <1>11, <1>14, <1>15, <1>16, <1>17 DEF JobsInv

(* A flush puts on record what the buffer has heard. *)
LEMMA JobsFlush ==
    ASSUME JobsInv, Sound(store), NEW j \in DOMAIN jobs, Flush(j)
    PROVE  JobsInv'
<1>. DEFINE stored == [r \in DOMAIN jobs[j].items |->
                         IF jobs[j].heard[r] = "NONE" THEN jobs[j].items[r] ELSE jobs[j].heard[r]]
            job == [jobs[j] EXCEPT !.items = stored, !.heard = NothingHeard]
<1>1. /\ UNCHANGED <<store, prep, target, added, ingests>> /\ unrecorded' = unrecorded \ ProcessedIds'
  BY DEF Flush
<1>2. jobs' = [jobs EXCEPT ![j] = job]
  BY DEF Flush
<1>3. /\ jobs[j] \in Jobs /\ DOMAIN jobs[j].items \subseteq Rows
      /\ jobs[j].items \in [DOMAIN jobs[j].items -> ItemStates]
      /\ jobs[j].heard \in [Rows -> Outcomes \cup {"NONE"}]
  BY JobTypes
<1>4. /\ stored \in UNION {[R -> ItemStates] : R \in SUBSET Rows} /\ DOMAIN stored = DOMAIN jobs[j].items
      /\ \A r \in DOMAIN jobs[j].items :
            stored[r] = IF jobs[j].heard[r] = "NONE" THEN jobs[j].items[r] ELSE jobs[j].heard[r]
  <2>1. stored \in [DOMAIN jobs[j].items -> ItemStates]
    BY <1>3 DEF ItemStates
  <2>. QED  BY <1>3, <2>1
<1>. HIDE DEF stored
<1>5. NothingHeard \in [Rows -> Outcomes \cup {"NONE"}] /\ \A r \in Rows : NothingHeard[r] = "NONE"
  BY DEF NothingHeard
<1>6. /\ job \in Jobs /\ job.action = jobs[j].action /\ job.items = stored /\ job.over = jobs[j].over
      /\ job.heard = NothingHeard
  BY <1>3, <1>4, <1>5 DEF Jobs
<1>. HIDE DEF job
<1>7. /\ jobs' \in Seq(Jobs) /\ Len(jobs') <= MaxJobs /\ DOMAIN jobs' = DOMAIN jobs
      /\ jobs'[j] = job /\ \A k \in DOMAIN jobs : k # j => jobs'[k] = jobs[k]
      /\ \A q : Id(q)' = Id(q)
      /\ ItemsHaveIds' /\ OneAtATime'
  BY <1>1, <1>2, <1>4, <1>6, JobChanged
<1>8. BuffersAreOpen'
  BY <1>5, <1>6, <1>7 DEF JobsInv, BuffersAreOpen
<1>9. \A q : ProcessedRow(q) \/ HeardRow(q) => ProcessedRow(q)'
  <2>1. \A q : ProcessedRow(q) => ProcessedRow(q)'
    <3>1. \A q \in DOMAIN jobs[j].items : jobs[j].items[q] \in {"SUCCESS", "SKIPPED"} => stored[q] = jobs[j].items[q]
      BY <1>3, <1>4 DEF JobsInv, BuffersAreOpen
    <3>. QED  BY <1>4, <1>6, <1>7, <3>1 DEF ProcessedRow
  <2>2. ASSUME NEW q, HeardRow(q)
        PROVE  ProcessedRow(q)'
    <3>1. PICK k \in DOMAIN jobs : q \in Rows /\ jobs[k].action = "INVITE" /\ jobs[k].heard[q] = "SUCCESS"
      BY <2>2 DEF HeardRow
    <3>2. PICK x \in Rows : jobs[j].heard[x] # "NONE"
      <4>1. jobs[j].heard # NothingHeard
        BY DEF Flush
      <4>. QED  BY <1>3, <4>1 DEF NothingHeard
    <3>3. k = j /\ q \in DOMAIN jobs[j].items
      BY <3>1, <3>2 DEF JobsInv, BuffersAreOpen, OneAtATime
    <3>. QED  BY <1>4, <1>6, <1>7, <3>1, <3>3 DEF ProcessedRow
  <2>. QED  BY <2>1, <2>2
<1>10. AddedAreKnown'
  <2>1. ASSUME NEW a \in added
        PROVE  a \in unrecorded' \/ \E q : ProcessedRow(q)' /\ a = Id(q)'
    <3>1. CASE a \in unrecorded
      BY <1>1, <3>1, ProcessedIdsAre
    <3>2. CASE \E q : (ProcessedRow(q) \/ HeardRow(q)) /\ a = Id(q)
      BY <1>7, <1>9, <3>2
    <3>. QED  BY <3>1, <3>2 DEF JobsInv, AddedAreKnown
  <2>. QED  BY <1>1, <2>1 DEF AddedAreKnown
<1>11. ASSUME NEW q, ProcessedRow(q)', ~ProcessedRow(q)
       PROVE  q \in DOMAIN jobs[j].items /\ jobs[j].heard[q] # "NONE" /\ ~jobs[j].over
  <2>1. q \in DOMAIN jobs[j].items /\ jobs[j].heard[q] # "NONE"
    BY <1>4, <1>6, <1>7, <1>11 DEF ProcessedRow
  <2>. QED  BY <1>3, <2>1 DEF JobsInv, BuffersAreOpen
<1>12. InvitedAreNew'
  <2>1. ASSUME NEW k \in DOMAIN jobs, NEW r \in DOMAIN jobs'[k].items, ~jobs'[k].over, jobs'[k].action = "INVITE",
               jobs'[k].items[r] = "READY"
        PROVE  IsNew(r)'
    <3>1. r \in DOMAIN jobs[k].items /\ ~jobs[k].over /\ jobs[k].action = "INVITE"
      BY <1>4, <1>6, <1>7, <2>1
    <3>2. jobs[k].items[r] = "READY" /\ (k = j => jobs[j].heard[r] = "NONE")
      BY <1>3, <1>4, <1>6, <1>7, <2>1, <3>1 DEF JobsInv, BuffersAreOpen, Outcomes
    <3>3. IsNew(r)
      BY <3>1, <3>2 DEF JobsInv, InvitedAreNew
    <3>4. ASSUME NEW q, ProcessedRow(q)', ~ProcessedRow(q), Id(q) = Id(r)
          PROVE  FALSE
      <4>1. q \in DOMAIN jobs[j].items /\ jobs[j].heard[q] # "NONE" /\ ~jobs[j].over
        BY <1>11, <3>4
      <4>2. k = j
        BY <3>1, <4>1 DEF JobsInv, OneAtATime
      <4>3. q \in Rows /\ r \in Rows /\ Id(r) # NoId
        BY <1>3, <3>1, <4>1, <4>2 DEF JobsInv, ItemsHaveIds
      <4>4. q = r
        BY <3>4, <4>3 DEF Sound, IdsDiffer, Id
      <4>. QED  BY <3>2, <4>1, <4>2, <4>4
    <3>. QED  BY <1>7, <3>3, <3>4 DEF IsNew
  <2>2. ASSUME prep.pc = "created", NEW r \in prep.chosen
        PROVE  IsNew(r) => IsNew(r)'
    <3>1. \A q : ProcessedRow(q)' => ProcessedRow(q)
      <4>1. \A k \in DOMAIN jobs : k = Len(jobs) \/ jobs[k].over
        BY <2>2 DEF JobsInv, OneAtATime
      <4>2. jobs[j].over \/ DOMAIN jobs[j].items = {}
        BY <2>2, <4>1 DEF JobsInv, OneAtATime
      <4>. QED  BY <1>11, <4>2
    <3>. QED  BY <1>7, <3>1 DEF IsNew
  <2>. QED  BY <1>1, <1>7, <2>1, <2>2 DEF JobsInv, InvitedAreNew
<1>13. unrecorded' \subseteq Ids
  BY <1>1 DEF JobsInv
<1>. QED  BY <1>1, <1>7, <1>8, <1>10, <1>12, <1>13 DEF JobsInv

(* What a lost buffer alone had heard is unrecorded from then on.          *)
LEMMA JobsResultsLost ==
    ASSUME JobsInv, Sound(store), NEW j \in DOMAIN jobs, ResultsLost(j)
    PROVE  JobsInv'
<1>1. /\ UNCHANGED <<store, prep, target, added, ingests>> /\ unrecorded' = unrecorded \cup HeardOf(j)
  BY DEF ResultsLost
<1>2. PICK over \in BOOLEAN : jobs' = [jobs EXCEPT ![j].heard = NothingHeard, ![j].over = over]
  BY DEF ResultsLost
<1>. DEFINE job == [jobs[j] EXCEPT !.heard = NothingHeard, !.over = over]
<1>3. jobs' = [jobs EXCEPT ![j] = job]
  BY <1>2
<1>4. /\ jobs[j] \in Jobs /\ jobs[j].heard \in [Rows -> Outcomes \cup {"NONE"}]
      /\ ~jobs[j].over
  <2>1. jobs[j] \in Jobs /\ jobs[j].heard \in [Rows -> Outcomes \cup {"NONE"}] /\ jobs[j].heard # NothingHeard
    BY JobTypes DEF ResultsLost
  <2>2. PICK x \in Rows : jobs[j].heard[x] # "NONE"
    BY <2>1 DEF NothingHeard
  <2>. QED  BY <2>1, <2>2 DEF JobsInv, BuffersAreOpen
<1>5. NothingHeard \in [Rows -> Outcomes \cup {"NONE"}] /\ \A r \in Rows : NothingHeard[r] = "NONE"
  BY DEF NothingHeard
<1>6. /\ job \in Jobs /\ job.action = jobs[j].action /\ job.items = jobs[j].items /\ job.heard = NothingHeard
  BY <1>4, <1>5 DEF Jobs
<1>. HIDE DEF job
<1>7. /\ jobs' \in Seq(Jobs) /\ Len(jobs') <= MaxJobs /\ DOMAIN jobs' = DOMAIN jobs
      /\ jobs'[j] = job /\ \A k \in DOMAIN jobs : k # j => jobs'[k] = jobs[k]
      /\ \A q : Id(q)' = Id(q)
      /\ ItemsHaveIds' /\ OneAtATime'
  BY <1>1, <1>3, <1>4, <1>6, JobChanged
<1>8. BuffersAreOpen'
  BY <1>5, <1>6, <1>7 DEF JobsInv, BuffersAreOpen
<1>9. \A q : ProcessedRow(q)' <=> ProcessedRow(q)
  BY <1>6, <1>7 DEF ProcessedRow
<1>10. \A q : HeardRow(q) => HeardRow(q)' \/ (q \in Rows /\ Id(q) \in HeardOf(j))
  BY <1>7 DEF HeardRow, HeardOf, Id
<1>11. AddedAreKnown'
  BY <1>1, <1>7, <1>9, <1>10 DEF JobsInv, AddedAreKnown
<1>12. InvitedAreNew'
  <2>1. \A q : IsNew(q) => IsNew(q)'
    BY <1>7, <1>9 DEF IsNew
  <2>2. \A k \in DOMAIN jobs : jobs'[k].items = jobs[k].items /\ jobs'[k].action = jobs[k].action
                              /\ (~jobs'[k].over => ~jobs[k].over)
    BY <1>4, <1>6, <1>7
  <2>. QED  BY <1>1, <1>7, <2>1, <2>2 DEF JobsInv, InvitedAreNew
<1>13. unrecorded' \subseteq Ids
  <2>1. ASSUME NEW q \in Rows, jobs[j].heard[q] = "SUCCESS"
        PROVE  Id(q) \in Ids
    <3>1. Id(q) # NoId
      BY <2>1 DEF JobsInv, BuffersAreOpen, ItemsHaveIds
    <3>. QED  BY <3>1, SoundTypes DEF Id
  <2>. QED  BY <1>1, <2>1 DEF JobsInv, HeardOf, Id
<1>. QED  BY <1>1, <1>7, <1>8, <1>11, <1>12, <1>13 DEF JobsInv

(* A job that ends keeps its items. *)
LEMMA JobsJobEnds ==
    ASSUME JobsInv, NEW j \in DOMAIN jobs, JobEnds(j)
    PROVE  JobsInv'
<1>. DEFINE job == [jobs[j] EXCEPT !.over = TRUE]
<1>1. /\ jobs' = [jobs EXCEPT ![j] = job] /\ jobs[j].heard = NothingHeard
      /\ UNCHANGED <<store, prep, target, added, unrecorded, ingests>>
  BY DEF JobEnds
<1>2. /\ job \in Jobs /\ job.action = jobs[j].action /\ job.items = jobs[j].items /\ job.heard = jobs[j].heard
      /\ job.over
  BY JobTypes DEF Jobs
<1>. HIDE DEF job
<1>3. /\ jobs' \in Seq(Jobs) /\ Len(jobs') <= MaxJobs /\ DOMAIN jobs' = DOMAIN jobs
      /\ jobs'[j] = job /\ \A k \in DOMAIN jobs : k # j => jobs'[k] = jobs[k]
      /\ \A q : Id(q)' = Id(q)
      /\ ItemsHaveIds' /\ OneAtATime'
  BY <1>1, <1>2, JobChanged
<1>4. BuffersAreOpen'
  BY <1>1, <1>2, <1>3 DEF JobsInv, BuffersAreOpen, NothingHeard
<1>5. \A q : (ProcessedRow(q)' <=> ProcessedRow(q)) /\ (HeardRow(q)' <=> HeardRow(q))
  BY <1>2, <1>3 DEF ProcessedRow, HeardRow
<1>6. AddedAreKnown'
  BY <1>1, <1>3, <1>5 DEF JobsInv, AddedAreKnown
<1>7. InvitedAreNew'
  <2>1. \A q : IsNew(q) => IsNew(q)'
    BY <1>3, <1>5 DEF IsNew
  <2>2. \A k \in DOMAIN jobs : jobs'[k].items = jobs[k].items /\ jobs'[k].action = jobs[k].action
                              /\ (~jobs'[k].over => ~jobs[k].over)
    BY <1>2, <1>3
  <2>. QED  BY <1>1, <1>3, <2>1, <2>2 DEF JobsInv, InvitedAreNew
<1>. QED  BY <1>1, <1>3, <1>4, <1>6, <1>7 DEF JobsInv

StoreInv == TablesInv /\ JobsInv

(* Every step keeps all of it. *)
LEMMA StoreNext ==
    StoreInv /\ [Next]_vars =>
       StoreInv' /\ (\E d \in Datasets : Later(d, store, store')) /\ (\A i \in target' \ target : i \in added => i \in unrecorded)
<1>. SUFFICES ASSUME StoreInv, [Next]_vars
              PROVE  StoreInv' /\ (\E d \in Datasets : Later(d, store, store')) /\ (\A i \in target' \ target : i \in added => i \in unrecorded)
  OBVIOUS
<1>1. TablesInv' /\ \E d \in Datasets : Later(d, store, store')
  BY TablesNext DEF StoreInv
<1>2. Sound(store) /\ JobsInv
  BY DEF StoreInv, TablesInv
<1>3. ASSUME UNCHANGED <<prep, jobs, target, added, unrecorded>>, ingests' \in 0..MaxIngests
      PROVE  JobsInv' /\ target' \subseteq target
  BY <1>1, <1>2, <1>3, JobsOverTables
<1>4. ingests \in 0..MaxIngests /\ (ingests < MaxIngests => ingests + 1 \in 0..MaxIngests)
  BY <1>2, MemberAssumption DEF JobsInv
<1>5. CASE \/ \E d \in Given, batch \in Batches : Ingest(d, batch)
           \/ \E d \in Given, op \in {"UNION", "INTERSECTION", "DIFFERENCE"} : CombineReads(d, op)
           \/ \E d \in Given : CombineReadsOther(d)
           \/ CombineAdds \/ CombineAddsOther
           \/ UNCHANGED vars
  <2>1. UNCHANGED <<prep, jobs, target, added, unrecorded>> /\ ingests' \in 0..MaxIngests
    BY <1>4, <1>5 DEF Ingest, CombineReads, CombineReadsOther, CombineAdds, CombineAddsOther, vars
  <2>. QED  BY <1>1, <1>3, <2>1 DEF StoreInv
<1>6. CASE \E action \in {"INVITE", "REMOVE"} : Precheck(action)
  <2>1. target' \subseteq target
    BY <1>6 DEF Precheck
  <2>. QED  BY <1>1, <1>2, <1>6, <2>1, JobsPrecheck DEF StoreInv
<1>7. CASE \E d \in Datasets : CreatePlan(d)
  <2>1. target' \subseteq target
    BY <1>7 DEF CreatePlan
  <2>. QED  BY <1>1, <1>2, <1>7, <2>1, JobsCreatePlan DEF StoreInv
<1>8. CASE AddItems
  <2>1. target' \subseteq target
    BY <1>8 DEF AddItems
  <2>. QED  BY <1>1, <1>2, <1>8, <2>1, JobsAddItems DEF StoreInv
<1>9. CASE \E j \in DOMAIN jobs : Flush(j) \/ ResultsLost(j) \/ JobEnds(j)
  <2>1. target' \subseteq target
    BY <1>9 DEF Flush, ResultsLost, JobEnds
  <2>. QED  BY <1>1, <1>2, <1>9, <2>1, JobsFlush, JobsResultsLost, JobsJobEnds DEF StoreInv
<1>10. CASE \E j \in DOMAIN jobs : \E r \in DOMAIN jobs[j].items : Call(j, r)
  BY <1>1, <1>2, <1>10, JobsCall DEF StoreInv
<1>11. CASE \E i \in Ids : Left(i)
  <2>1. target' \subseteq target /\ UNCHANGED <<store, prep, jobs, added, unrecorded, ingests>>
    BY <1>11 DEF Left
  <2>2. JobsInv'
    BY <1>2, <2>1 DEF JobsInv, ItemsHaveIds, OneAtATime, BuffersAreOpen, AddedAreKnown, InvitedAreNew, IsNew,
                        ProcessedRow, HeardRow, Id
  <2>. QED  BY <1>1, <2>1, <2>2 DEF StoreInv
<1>. QED  BY <1>5, <1>6, <1>7, <1>8, <1>9, <1>10, <1>11 DEF Next

-----------------------------------------------------------------------------
(* What follows of the invariant.                                          *)

(* A set whose elements are all the same has one at most. *)
LEMMA AtMostOne ==
    ASSUME NEW S, \A x, y \in S : x = y
    PROVE  Cardinality(S) <= 1
<1>1. CASE S = {}
  BY <1>1, FS_EmptySet
<1>2. CASE S # {}
  <2>1. PICK x : S = {x}
    BY <1>2
  <2>. QED  BY <2>1, FS_Singleton
<1>. QED  BY <1>1, <1>2

(* The invariant says what TablesAreSound says. *)
LEMMA InvIsSound == StoreInv => TablesAreSound
<1>. SUFFICES ASSUME StoreInv PROVE TablesAreSound
  OBVIOUS
<1>. USE DEF StoreInv
<1>1. Sound(store) /\ JobsInv /\ CountCoversMembers
  BY DEF TablesInv
<1>2. TypeOK
  <2>1. /\ store.rows \in [Rows -> Known] /\ store.born \in Nat /\ store.born <= MaxRows /\ MaxRows \in Nat
        /\ store.hashes \subseteq Ids /\ store.inside \subseteq Datasets \X Nat
        /\ \A p \in store.inside : p[1] \in Datasets /\ p[2] \in Rows /\ store.rows[p[2]] # NoRow
    BY <1>1, SoundTypes, MemberAssumption
  <2>2. store.born \in 0..MaxRows /\ store.inside \subseteq Datasets \X {r \in Rows : store.rows[r] # NoRow}
    BY <2>1
  <2>3. /\ count \in [Datasets -> 0..MaxRows]
        /\ combine.pc \in {"idle", "read", "add", "second"}
        /\ combine.op \in {"UNION", "INTERSECTION", "DIFFERENCE"}
        /\ combine.a \cup combine.b \subseteq (Ids \cup Names) \X Rows
    BY DEF TablesInv, Counts, Combines
  <2>4. /\ prep.pc \in {"idle", "checked", "created"}
        /\ prep.seen \subseteq Ids /\ prep.chosen \subseteq Rows
        /\ Len(jobs) <= MaxJobs
        /\ target \subseteq Ids /\ added \subseteq Ids /\ unrecorded \subseteq Ids
        /\ ingests \in 0..MaxIngests
    BY <1>1 DEF JobsInv, Preps
  <2>5. \A j \in DOMAIN jobs : jobs[j] \in Jobs
    BY <1>1, JobTypes
  <2>. QED  BY <2>1, <2>2, <2>3, <2>4, <2>5 DEF TypeOK
<1>3. OneRowEach
  <2>1. ASSUME NEW i \in Ids
        PROVE  Cardinality(IdRows(store, i)) <= 1
    <3>1. \A x, y \in IdRows(store, i) : x = y
      BY <1>1 DEF IdRows, Sound, IdsDiffer
    <3>. QED  BY <3>1, AtMostOne
  <2>2. ASSUME NEW n \in Names
        PROVE  Cardinality(FallbackRows(store, n)) <= 1
    <3>1. \A x \in FallbackRows(store, n) : x \in Rows /\ store.rows[x] = [id |-> NoId, name |-> n] /\ n # NoName
      BY DEF FallbackRows
    <3>2. n # NoName => [id |-> NoId, name |-> n] # NoRow /\ [id |-> NoId, name |-> n].id = NoId
      BY DEF NoRow
    <3>3. \A x, y \in FallbackRows(store, n) : x = y
      BY <1>1, <3>1, <3>2 DEF Sound, FallbacksDiffer
    <3>. QED  BY <3>3, AtMostOne
  <2>. QED  BY <2>1, <2>2 DEF OneRowEach
<1>4. ItemsKeepRows
  BY <1>1 DEF JobsInv, ItemsHaveIds, ItemsKeepRows, NoRow, Id
<1>. QED  BY <1>1, <1>2, <1>3, <1>4 DEF TablesAreSound

(* A step keeps members, as it is one that Later allows. *)
LEMMA StepKeepsMembers ==
    ASSUME StoreInv, [Next]_vars, NEW p \in store.inside \ store'.inside
    PROVE  /\ store'.rows[p[2]] = NoRow
           /\ \E r \in MembersOf(store', p[1]), m \in Found :
                 m.id # NoId /\ m.id = store'.rows[r].id /\ m.name = store.rows[p[2]].name
BY StoreNext DEF Later, Passed

(* The step that ends a union: both sides have been added. *)
LEMMA StepMakesUnionWhole ==
    ASSUME StoreInv, [Next]_vars, combine.pc = "second", combine.op = "UNION",
           \A e \in combine.b : store.rows[e[2]] # NoRow, combine'.pc = "idle",
           NEW e \in combine.a \cup combine.b, store'.rows[e[2]] # NoRow
    PROVE  e[2] \in MembersOf(store', Combined)
<1>1. TablesInv /\ TablesInv'
  BY StoreNext DEF StoreInv
<1>2. CombineAddsOther
  <2>1. combine' # combine
    OBVIOUS
  <2>. QED  BY <2>1 DEF Next, vars, Ingest, CombineReads, CombineReadsOther, CombineAdds, CombineAddsOther,
                        Precheck, CreatePlan, AddItems, Call, Flush, ResultsLost, JobEnds, Left
<1>3. AddMemberIds(Side(combine.b), NoCombine)
  BY <1>2 DEF CombineAddsOther
<1>4. \A r \in Side(combine.b) : store.rows[r] # NoRow
  BY <1>1, SidesAreRead
<1>5. /\ store'.rows = store.rows /\ store.inside \subseteq store'.inside
      /\ \A r \in Side(combine.b) : <<Combined, r>> \in store'.inside
  <2>1. /\ store'.rows = store.rows /\ store.inside \subseteq store'.inside
        /\ \/ \A r \in Side(combine.b) : <<Combined, r>> \in store'.inside
           \/ \E r \in Side(combine.b) : store.rows[r] = NoRow
    BY <1>1, <1>3, SidesAreRead, RowsAreAdded
  <2>. QED  BY <1>4, <2>1
<1>6. <<Combined, e[2]>> \in store'.inside
  <2>1. CASE e \in combine.a
    BY <1>1, <1>5, <2>1 DEF TablesInv, CombineHasRead
  <2>2. CASE e \in combine.b
    BY <1>1, <1>5, <2>2, SidesAreRead
  <2>. QED  BY <2>1, <2>2
<1>7. store'.inside \subseteq Datasets \X Nat
  BY <1>1, SoundTypes DEF TablesInv
<1>. QED  BY <1>6, <1>7, MembersAreInside
-----------------------------------------------------------------------------
(* The inductive invariant of the store holds. *)
THEOREM StoreInvHolds == Spec => []StoreInv
<1>1. Init => StoreInv
  BY TablesInit, JobsInit DEF StoreInv
<1>2. StoreInv /\ [Next]_vars => StoreInv'
  BY StoreNext
<1>. QED  BY <1>1, <1>2, PTL DEF Spec

(* The unique columns of members and the foreign keys are never hit and counts cover their datasets. *)
THEOREM TablesSound == Spec => []TablesAreSound
BY StoreInvHolds, InvIsSound, PTL

(* No dataset loses a member, whatever batches merge. *)
THEOREM NoMemberLost == Spec => MembersStay
<1>1. StoreInv /\ [Next]_vars =>
        [\A p \in store.inside \ store'.inside :
            /\ store'.rows[p[2]] = NoRow
            /\ \E r \in MembersOf(store', p[1]), m \in Found :
                  /\ m.id # NoId /\ m.id = store'.rows[r].id
                  /\ m.name = store.rows[p[2]].name]_vars
  BY StepKeepsMembers
<1>. QED  BY <1>1, StoreInvHolds, PTL DEF Spec, MembersStay

(* A union that succeeds has every member read, merges in the middle of it included. *)
THEOREM UnionsAreWhole == Spec => UnionIsWhole
<1>1. StoreInv /\ [Next]_vars =>
        [combine.pc = "second" /\ combine.op = "UNION"
           /\ (\A e \in combine.b : store.rows[e[2]] # NoRow) /\ combine'.pc = "idle"
           => \A e \in combine.a \cup combine.b :
                 store'.rows[e[2]] # NoRow => e[2] \in MembersOf(store', Combined)]_vars
  BY StepMakesUnionWhole
<1>. QED  BY <1>1, StoreInvHolds, PTL DEF Spec, UnionIsWhole

(* Nobody is added to the target twice whose addition is on record or in   *)
(* the buffer of a run: only a call that timed out and took effect, or a   *)
(* result lost in a crash or a failed flush, lets a job add them again.    *)
THEOREM AddedOnce == Spec => NobodyAddedTwice
<1>1. StoreInv /\ [Next]_vars => [\A i \in target' \ target : i \in added => i \in unrecorded]_vars
  BY StoreNext
<1>. QED  BY <1>1, StoreInvHolds, PTL DEF Spec, NobodyAddedTwice

=============================================================================
