--------------------------- MODULE RepositoryPair ---------------------------
(***************************************************************************)
(* Every repository of the control plane exists twice: on D1, and in the   *)
(* memory of the isolate (repositories/in-memory.ts), which the Worker's   *)
(* shell uses for all but the services, and the D1 integration tests for   *)
(* everything.  Here both are given the same calls, one after another.     *)
(***************************************************************************)
EXTENDS Integers, FiniteSets, Sequences

CONSTANTS
  RowIds,       \* the ids of rows
  RowKeys,   \* what a row is known by beside its id
  RowTimes,  \* when it was made, or expires, in half days
  MaxClock   \* bound: half days

ASSUME PairAssumption == 0 \notin RowIds /\ RowKeys \subseteq Nat /\ RowTimes \subseteq Nat /\ MaxClock \in Nat

VARIABLES
  repository,  \* which one
  mem,         \* in memory: the rows, in the order they came
  byKey,       \* in memory: the id a key leads to, 0 for none
  list,        \* in memory: the rows of a job, a class or a service, in order
  base,        \* D1: the rows, in the order they came
  halfDays,    \* the time
  said,        \* the last call and its two answers
  parted       \* history: one took or gave up a row that the other did not

Seqs == INSTANCE SequencesExt

pairVars == <<repository, mem, byKey, list, base, halfDays, said, parted>>

\* The key is the idempotency key of jobs and records, the attempt number of
\* attempts and dispatches, the hash of artifacts, the job of reservations
\* and the version of service versions; for attempts, dispatches, versions
\* and what is listed by a job or class, all rows here have the same one.
Tables == {"jobs", "attempts", "events", "idempotency", "artifacts", "dispatches",
          "quota", "audit", "security", "services", "versions"}
UniqueKey == Tables \ {"events", "audit", "security", "services"}
Indexed   == {"jobs", "idempotency", "artifacts", "dispatches", "quota"}
HasList   == {"attempts", "events", "artifacts", "quota", "audit", "security", "versions"}
Child     == Tables \ {"services"}     \* has a foreign key

Rows == [id : RowIds, key : RowKeys, data : 0..1, at : RowTimes]

\* The ways to go through the places I of a list in the order of a value,
\* places of one value as they are numbered: there is one.
Orderings(I, value) ==
  {f \in [1..Cardinality(I) -> I] : \A m, n \in DOMAIN f : m < n =>
     value[f[m]] < value[f[n]] \/ (value[f[m]] = value[f[n]] /\ f[m] < f[n])}
Ordered(I, value) == CHOOSE f \in Orderings(I, value) : TRUE

Arrange(rows, I, value) == LET f == Ordered(I, value) IN [n \in 1..Cardinality(I) |-> rows[f[n]]]
Where(rows, I) == Arrange(rows, I, [i \in DOMAIN rows |-> i])
ByTime(rows, I) == Arrange(rows, I, [i \in DOMAIN rows |-> rows[i].at])
ByNumber(rows, I) == Arrange(rows, I, [i \in DOMAIN rows |-> rows[i].key])

\* A row that is found, or none, as a sequence.
First(rows, I) == IF I = {} THEN <<>> ELSE <<rows[CHOOSE i \in I : \A j \in I : i <= j]>>
ById(rows, id) == First(rows, {i \in DOMAIN rows : rows[i].id = id})
OfKey(rows, key) == First(rows, {i \in DOMAIN rows : rows[i].key = key})

WithRow(rows, id, r) == [i \in DOMAIN rows |-> IF rows[i].id = id THEN r ELSE rows[i]]
WithoutRows(rows, ids) == Where(rows, {i \in DOMAIN rows : rows[i].id \notin ids})

Ok(rows)   == [word |-> "ok", rows |-> rows]
Word(word) == [word |-> word, rows |-> <<>>]
Nothing    == Ok(<<>>)
Answer(op, m, d) == said' = [op |-> op, mem |-> m, d1 |-> d]

-----------------------------------------------------------------------------
(* create, acquire.  Memory knows two rows apart by their ids; D1 has its  *)
(* unique indexes and foreign keys, and throws: only jobs and services     *)
(* make a duplicate of that.                                               *)

Taken(r) == \E i \in DOMAIN base : base[i].id = r.id \/ (repository \in UniqueKey /\ base[i].key = r.key)
Refusal == IF repository \in {"jobs", "services"} THEN "duplicate" ELSE "database_error"

Create(r, orphan) ==
  LET kept   == ById(mem, r.id) = <<>>
      stored == ~ Taken(r) /\ ~ orphan
  IN
  /\ orphan => repository \in Child
  /\ mem' = IF kept THEN Append(mem, r) ELSE mem
  /\ byKey' = IF kept /\ repository \in Indexed THEN [byKey EXCEPT ![r.key] = r.id] ELSE byKey
  /\ list' = IF kept /\ repository \in HasList THEN Append(list, r) ELSE list
  /\ base' = IF stored THEN Append(base, r) ELSE base
  /\ Answer("create", IF kept THEN Ok(<<r>>) ELSE Word("duplicate"),
            IF stored THEN Ok(<<r>>) ELSE Word(IF Taken(r) THEN Refusal ELSE "database_error"))
  /\ parted' = (parted \/ kept # stored)
  /\ UNCHANGED <<repository, halfDays>>

\* getById
ReadRow(id) ==
  /\ repository \in {"jobs", "artifacts", "dispatches", "services"}
  /\ Answer("get", Ok(ById(mem, id)), Ok(ById(base, id)))
  /\ UNCHANGED <<repository, mem, byKey, list, base, halfDays, parted>>

\* getByIdempotencyKey, getByKey, getByContentHash, getByJobId,
\* getByJobIdAndAttempt, getByServiceIdAndVersion: memory goes by its index
\* or looks in its list.
Find(key) ==
  /\ repository \in UniqueKey
  /\ Answer("find", Ok(IF repository \in Indexed THEN ById(mem, byKey[key]) ELSE OfKey(list, key)), Ok(OfKey(base, key)))
  /\ UNCHANGED <<repository, mem, byKey, list, base, halfDays, parted>>

\* listByJobId, getByJobId, getByResourceClass, listByServiceId
List ==
  LET Order(rows) == CASE repository = "attempts" -> ByNumber(rows, DOMAIN rows)
                       [] repository \in {"events", "audit", "security"} -> ByTime(rows, DOMAIN rows)
                       [] OTHER -> rows
  IN
  /\ repository \in HasList
  /\ Answer("list", Ok(Order(list)), Ok(Order(base)))
  /\ UNCHANGED <<repository, mem, byKey, list, base, halfDays, parted>>

\* listByState, listPending, getAll, list: memory goes by the order in which
\* the rows came, D1 by a time.
All ==
  LET Asked(rows) == {i \in DOMAIN rows : repository = "jobs" => rows[i].data = 0}
      Newest(rows) == IF repository \in {"audit", "security"} THEN Seqs!Reverse(rows) ELSE rows
  IN
  /\ repository \in {"jobs", "dispatches", "audit", "security", "services"}
  /\ Answer("all", Ok(Newest(Where(mem, Asked(mem)))),
            Ok(IF repository = "services" THEN Where(base, Asked(base)) ELSE Newest(ByTime(base, Asked(base)))))
  /\ UNCHANGED <<repository, mem, byKey, list, base, halfDays, parted>>

-----------------------------------------------------------------------------
(* updateState, update, updateResult, updateRetryCount, release,           *)
(* updateProductionEnabled: a row is replaced in the store, and stays as   *)
(* it was in the list.                                                     *)

\* The attempts' list is searched with a test that compares an attempt with
\* itself: its first row is replaced, whichever row it is.
Relisted(r) == IF repository = "attempts" /\ list # <<>> THEN [list EXCEPT ![1] = r] ELSE list

ChangeRow(id, key) ==
  LET keyed == repository \in {"idempotency", "quota"}
      m == ById(mem, IF keyed THEN byKey[key] ELSE id)
      d == IF keyed THEN OfKey(base, key) ELSE ById(base, id)
      Set(r) == [r EXCEPT !.data = 1]
      Told(found) == IF repository = "quota" THEN Word(IF found = <<>> THEN "false" ELSE "true")
                     ELSE IF found = <<>> THEN Word("not_found") ELSE Ok(<<Set(found[1])>>)
  IN
  /\ repository \in {"jobs", "attempts", "idempotency", "dispatches", "quota", "services"}
  /\ mem' = IF m = <<>> THEN mem ELSE WithRow(mem, m[1].id, Set(m[1]))
  /\ list' = IF m = <<>> THEN list ELSE Relisted(Set(m[1]))
  /\ base' = IF d = <<>> THEN base ELSE WithRow(base, d[1].id, Set(d[1]))
  /\ Answer("change", Told(m), Told(d))
  /\ UNCHANGED <<repository, byKey, halfDays, parted>>

Known(rows, id) == IF ById(rows, id) = <<>> THEN "false" ELSE "true"

\* Mutant: the row goes, and its key still leads to it.
DeleteUnindexed(id) ==
  /\ repository = "artifacts"
  /\ mem' = WithoutRows(mem, {id})
  /\ byKey' = byKey
  /\ list' = list
  /\ base' = WithoutRows(base, {id})
  /\ Answer("delete", Word(Known(mem, id)), Word(Known(base, id)))
  /\ UNCHANGED <<repository, halfDays, parted>>

\* delete of an artifact: its hash leads nowhere afterwards.
Delete(id) ==
  /\ repository = "artifacts"
  /\ mem' = WithoutRows(mem, {id})
  /\ byKey' = [k \in RowKeys |-> IF \E i \in DOMAIN mem : mem[i].id = id /\ mem[i].key = k THEN 0 ELSE byKey[k]]
  /\ list' = WithoutRows(list, {id})
  /\ base' = WithoutRows(base, {id})
  /\ Answer("delete", Word(Known(mem, id)), Word(Known(base, id)))
  /\ UNCHANGED <<repository, halfDays, parted>>

\* deleteExpired: memory compares two times; D1 a time with a T between date
\* and hour and one with a space, so that only the date counts.
Past(at)   == at < halfDays
PastD1(at) == at \div 2 < halfDays \div 2

Expire ==
  LET gone   == {mem[i].id : i \in {i \in DOMAIN mem : Past(mem[i].at)}}
      goneD1 == {base[i].id : i \in {i \in DOMAIN base : PastD1(base[i].at)}}
  IN
  /\ repository \in {"idempotency", "artifacts", "quota"}
  /\ mem' = WithoutRows(mem, gone)
  /\ byKey' = [k \in RowKeys |-> IF \E i \in DOMAIN mem : mem[i].id \in gone /\ mem[i].key = k THEN 0 ELSE byKey[k]]
  /\ list' = WithoutRows(list, gone)
  /\ base' = WithoutRows(base, goneD1)
  /\ Answer("expire", Ok(Where(mem, {i \in DOMAIN mem : mem[i].id \in gone})),
            Ok(Where(base, {i \in DOMAIN base : base[i].id \in goneD1})))
  /\ parted' = (parted \/ gone # goneD1)
  /\ UNCHANGED <<repository, halfDays>>

Wait ==
  /\ halfDays < MaxClock
  /\ halfDays' = halfDays + 1
  /\ UNCHANGED <<repository, mem, byKey, list, base, said, parted>>

PairInit ==
  /\ repository \in Tables
  /\ mem = <<>> /\ list = <<>> /\ base = <<>>
  /\ byKey = [k \in RowKeys |-> 0]
  /\ halfDays = 0 /\ parted = FALSE
  /\ said = [op |-> "none", mem |-> Nothing, d1 |-> Nothing]

\* Where they have parted, the comparison ends.
PairNext ==
  ~ parted /\ (
  \/ \E r \in Rows, orphan \in BOOLEAN : r.data = 0 /\ Create(r, orphan)
  \/ \E id \in RowIds : ReadRow(id) \/ Delete(id)
  \/ \E key \in RowKeys : Find(key)
  \/ List \/ All \/ Expire \/ Wait
  \/ \E id \in RowIds, key \in RowKeys : ChangeRow(id, key))

-----------------------------------------------------------------------------
\* What memory lists is what it stores.
Fresh == Seqs!ToSet(list) = Seqs!ToSet(mem)

\* The rows came in the order of their times.
InOrder == \A i, j \in DOMAIN mem : i < j => mem[i].at < mem[j].at

\* As long as memory has taken no row that D1 refuses and both have dropped
\* the same ones, they answer alike but for the code of a duplicate, rows
\* that came out of order, and what memory lists: a reservation that was
\* released, and attempts once a job has more than one.  No key leads to a
\* row that is gone.
MemoryStandsIn ==
  /\ ~ parted /\ (Fresh \/ said.op \notin {"find", "list"} \/ repository \notin {"attempts", "quota"}) =>
       IF said.mem.word = "duplicate" THEN said.d1.word \in {"duplicate", "database_error"}
       ELSE IF said.op = "all" /\ ~ InOrder /\ repository # "services" THEN Seqs!ToSet(said.mem.rows) = Seqs!ToSet(said.d1.rows)
       ELSE said.mem = said.d1
  /\ repository \in HasList => Fresh \/ repository = "quota" \/ (repository = "attempts" /\ Len(list) > 1)
  /\ ~ parted => \A k \in RowKeys : byKey[k] # 0 => ById(mem, byKey[k]) # <<>>

PairTypeOK ==
  /\ repository \in Tables /\ halfDays \in 0..MaxClock /\ parted \in BOOLEAN
  /\ mem \in Seq(Rows) /\ list \in Seq(Rows) /\ base \in Seq(Rows)
  /\ byKey \in [RowKeys -> RowIds \cup {0}]

\* Memory stands in for D1.
StoresAgree == PairTypeOK /\ MemoryStandsIn

PairSpec == PairInit /\ [][PairNext]_pairVars

=============================================================================
