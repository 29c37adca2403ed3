------------------------- MODULE LessonDatabaseProofs -------------------------
(* Proofs about LessonDatabase, for any number of requests, tables and rows:   *)
(* rebuilds that run into each other and abort each other still leave every    *)
(* table there and every row in it, unless the connection was closed under one *)
(* and none has run alone since (WholeDatabase); a rebuild that runs alone     *)
(* leaves each row once (ExactRebuild); and no query on a connection that is   *)
(* still open finds a table missing because the database is being filled for   *)
(* the first time (NoSurprise).                                                *)
EXTENDS LessonDatabase, TLAPS

(* The lock and the jobs: only the first job holds the lock, alone; jobs run   *)
(* on an open connection; makeDB is done after its last table; no lesson has   *)
(* fetched a connection before the first job is over.                          *)
LockInv ==
  /\ lock # Nobody => open /\ job[lock].task = "first" /\ job[lock].alone
  /\ \A r \in Requests :
       /\ job[r].task = "first" => lock = r
       /\ Active(r) => open
       /\ job[r].step = "done" => job[r].table = Last
       /\ held[r] # "no" => open /\ lock = Nobody

RowIsExact(t, i) == IF i \in lost[t] THEN count[t][i] = 0 ELSE count[t][i] = 1

(* What job r, alone, has made so far. *)
RowsBefore(r) ==
  \A t \in Tables :
    /\ t < job[r].table \/ job[r].step = "done" => exists[t]
    /\ \A i \in RowsOf(t) :
         \/ t < job[r].table \/ job[r].step = "done"
         \/ t = job[r].table /\ job[r].step = "insert" /\ i < job[r].row
         => RowIsExact(t, i)

NoRowsAfter(r) ==
  /\ exists[job[r].table]
  /\ \A i \in RowsOf(job[r].table) : i >= job[r].row => ~Present(job[r].table, i)

LoneInv ==
  \A r \in Requests : Active(r) /\ job[r].alone =>
    /\ \A q \in Requests \ {r} : ~Active(q)
    /\ RowsBefore(r)
    /\ job[r].step = "create" => ~exists[job[r].table]
    /\ job[r].step = "insert" => NoRowsAfter(r)

(* A table that is not there has no rows. *)
GoneIsEmpty == \A t \in Tables : ~exists[t] => \A i \in RowsOf(t) : ~Present(t, i)

(* The first build has dropped table t. *)
Reached(t) ==
  \/ lock = Nobody
  \/ t < job[lock].table
  \/ t = job[lock].table /\ job[lock].step # "drop"

(* r is about to create table t, or has row i of it still to insert. *)
Creates(r, t) == At(r, "create") /\ job[r].table = t
Inserts(r, t, i) == At(r, "insert") /\ job[r].table = t /\ job[r].row <= i

(* A missing table or row is on the way. *)
Covered ==
  \A t \in Tables : open /\ Reached(t) =>
    /\ exists[t] \/ \E r \in Requests : Creates(r, t)
    /\ \A i \in RowsOf(t) : exists[t] =>
         Present(t, i) \/ \E r \in Requests : Inserts(r, t, i)

(* Behind a row that is there, a missing one has a job between the two: who    *)
(* inserted the first went on from it, and is stopped only by a row that is    *)
(* there.                                                                      *)
NoGap ==
  \A t \in Tables : \A i, j \in RowsOf(t) :
    j < i /\ Present(t, j) /\ ~Present(t, i)
      => \E r \in Requests : Inserts(r, t, i) /\ j < job[r].row

(* Where no rebuild was cut off, what is missing is on the way. *)
Inv ==
  /\ TypeOK /\ LockInv /\ LoneInv /\ GoneIsEmpty
  /\ cut \/ (Covered /\ NoGap)
  /\ ~surprised

-------------------------------------------------------------------------------
(* How the statements move a job. *)

USE DEF Tables, RowsOf

Steps == {"drop", "create", "insert", "done"}

LEMMA JobFields ==
  ASSUME NEW task, NEW refresh, NEW alone, NEW table, NEW step, NEW row
  PROVE  LET j == Job(task, refresh, alone, table, step, row) IN
         /\ j.task = task /\ j.refresh = refresh /\ j.alone = alone
         /\ j.table = table /\ j.step = step /\ j.row = row
         /\ /\ task \in {"idle", "first", "refresh"} /\ refresh \in BOOLEAN
            /\ alone \in BOOLEAN /\ table \in Tables /\ step \in Steps
            /\ row \in Nat \ {0}
            => j \in JobType
BY DEF Job, JobType, Steps

LEMMA NotAlone ==
  ASSUME NEW j \in JobType
  PROVE  LET k == Job(j.task, j.refresh, FALSE, j.table, j.step, j.row) IN
         /\ k \in JobType /\ k.task = j.task /\ k.alone = FALSE
         /\ k.table = j.table /\ k.step = j.step /\ k.row = j.row
BY DEF Job, JobType

LEMMA JobIs ==
  ASSUME TypeOK, NEW r \in Requests
  PROVE  /\ job[r].task \in {"idle", "first", "refresh"}
         /\ job[r].refresh \in BOOLEAN /\ job[r].alone \in BOOLEAN
         /\ job[r].table \in Tables /\ job[r].table \in Nat
         /\ job[r].step \in Steps
         /\ job[r].row \in Nat \ {0}
         /\ job[r].step = "insert" => job[r].row \in RowsOf(job[r].table)
BY DatabaseAssumption DEF TypeOK, JobType, Steps

(* Only job r moves, to the statement named. *)
MovesTo(r, t, s, k) ==
  /\ job' \in [Requests -> JobType]
  /\ \A q \in Requests \ {r} : job'[q] = job[q]
  /\ job'[r].task = job[r].task /\ job'[r].alone = job[r].alone
  /\ job'[r].table = t /\ job'[r].step = s /\ job'[r].row = k

LEMMA MovedMoves ==
  ASSUME TypeOK, NEW r \in Requests, NEW t \in Tables, NEW s \in Steps,
         NEW k \in Nat \ {0}, job' = Moved(r, t, s, k)
  PROVE  MovesTo(r, t, s, k)
<1>1. job \in [Requests -> JobType]
  BY DEF TypeOK
<1> DEFINE j == Job(job[r].task, job[r].refresh, job[r].alone, t, s, k)
<1>2. job' = [job EXCEPT ![r] = j]
  BY DEF Moved
<1>3. j \in JobType /\ j.task = job[r].task /\ j.alone = job[r].alone
      /\ j.table = t /\ j.step = s /\ j.row = k
  BY JobFields, JobIs
<1> HIDE DEF j
<1>4. QED BY <1>1, <1>2, <1>3 DEF MovesTo

(* After row k of table t: the next row, the next table, or the end. *)
LEMMA PastMoves ==
  ASSUME TypeOK, NEW r \in Requests, NEW t \in Tables, NEW k \in 0 .. Rows[t],
         job' = Past(r, t, k)
  PROVE  \/ k < Rows[t] /\ MovesTo(r, t, "insert", k + 1)
         \/ k = Rows[t] /\ t < Last /\ t + 1 \in Tables
            /\ MovesTo(r, t + 1, "drop", 1)
         \/ k = Rows[t] /\ t = Last /\ MovesTo(r, t, "done", 1)
<1>1. Rows[t] \in Nat /\ Last \in Nat
  BY DatabaseAssumption
<1>2. CASE k < Rows[t]
  BY <1>1, <1>2, MovedMoves DEF Past, Steps
<1>3. CASE ~(k < Rows[t]) /\ t < Last
  <2>1. k = Rows[t] /\ t + 1 \in Tables
    BY <1>1, <1>3
  <2>2. job' = Moved(r, t + 1, "drop", 1)
    BY <1>3 DEF Past
  <2>3. QED BY <2>1, <2>2, <1>3, MovedMoves DEF Steps
<1>4. CASE ~(k < Rows[t]) /\ ~(t < Last)
  <2>1. k = Rows[t] /\ t = Last
    BY <1>1, <1>4
  <2>2. job' = Moved(r, t, "done", 1)
    BY <1>4 DEF Past
  <2>3. QED BY <2>1, <2>2, MovedMoves DEF Steps
<1>5. QED BY <1>2, <1>3, <1>4

LEMMA BegunJobs ==
  ASSUME TypeOK, NEW r \in Requests, NEW task \in {"first", "refresh"},
         NEW refresh \in BOOLEAN, job' = Begun(r, task, refresh)
  PROVE  /\ job' \in [Requests -> JobType]
         /\ job'[r].task = task /\ job'[r].table = 1 /\ job'[r].step = "drop"
         /\ job'[r].alone = \A q \in Requests \ {r} : ~Active(q)
         /\ \A q \in Requests \ {r} :
              /\ job'[q].task = job[q].task /\ job'[q].alone = FALSE
              /\ job'[q].table = job[q].table /\ job'[q].step = job[q].step
              /\ job'[q].row = job[q].row
<1> DEFINE free == \A q \in Requests \ {r} : ~Active(q)
           mine == Job(task, refresh, free, 1, "drop", 1)
           other(q) == Job(job[q].task, job[q].refresh, FALSE,
                           job[q].table, job[q].step, job[q].row)
<1>1. job' = [q \in Requests |-> IF q = r THEN mine ELSE other(q)]
  BY DEF Begun
<1>2. 1 \in Tables /\ free \in BOOLEAN
  BY DatabaseAssumption
<1>3. mine \in JobType /\ mine.task = task /\ mine.table = 1
      /\ mine.step = "drop" /\ mine.alone = free
  <2> HIDE DEF free
  <2>1. QED BY <1>2, JobFields DEF Steps
<1>4. ASSUME NEW q \in Requests
      PROVE  /\ other(q) \in JobType /\ other(q).task = job[q].task
             /\ other(q).alone = FALSE /\ other(q).table = job[q].table
             /\ other(q).step = job[q].step /\ other(q).row = job[q].row
  <2>1. job[q] \in JobType
    BY DEF TypeOK
  <2>2. QED BY <2>1, NotAlone
<1> HIDE DEF mine, other
<1>5. job' \in [Requests -> JobType]
  BY <1>1, <1>3, <1>4
<1>6. QED BY <1>1, <1>3, <1>4, <1>5, ZenonT(30)

(* A job that runs is on an open connection, and no other request has the lock. *)
LEMMA Running ==
  ASSUME Inv, NEW r \in Requests, Active(r)
  PROVE  /\ open
         /\ lock = Nobody \/ lock = r
         /\ lock = r => job[r].alone
         /\ \A q \in Requests \ {r} : ~(Active(q) /\ job[q].alone)
         /\ job[r].table \in Tables /\ job[r].table \in Nat
<1>1. open /\ job[r].table \in Tables /\ job[r].table \in Nat
  BY JobIs DEF Inv, LockInv
<1>2. \A q \in Requests \ {r} : ~(Active(q) /\ job[q].alone)
  BY DEF Inv, LoneInv
<1>3. ASSUME lock # Nobody, lock # r PROVE FALSE
  <2>1. lock \in Requests \ {r}
    BY <1>3 DEF Inv, TypeOK
  <2>2. Active(lock) /\ job[lock].alone
    BY <1>3 DEF Inv, LockInv, Active
  <2>3. QED BY <2>1, <2>2, <1>2
<1>4. lock = r => job[r].alone
  BY DatabaseAssumption DEF Inv, LockInv
<1>5. QED BY <1>1, <1>2, <1>3, <1>4

(* What has moved on: table t, if r holds the lock and moves past it. *)
LEMMA ReachedBefore ==
  ASSUME Inv, NEW r \in Requests, Active(r), job[r].step # "drop",
         UNCHANGED lock, NEW k,
         \/ MovesTo(r, job[r].table, "insert", k)
         \/ MovesTo(r, job[r].table, "done", k)
         \/ MovesTo(r, job[r].table + 1, "drop", k),
         NEW u \in Tables, Reached(u)'
  PROVE  Reached(u)
<1>1. lock = Nobody \/ lock = r
  BY Running
<1>2. CASE lock = Nobody
  BY <1>2 DEF Reached
<1>3. CASE lock = r /\ lock # Nobody
  <2>1. job[r].table \in Nat /\ u \in Nat
    BY Running, DatabaseAssumption
  <2>2. u < job'[r].table \/ (u = job'[r].table /\ job'[r].step # "drop")
    BY <1>3 DEF Reached
  <2>3. QED BY <2>1, <2>2, <1>3 DEF MovesTo, Reached
<1>4. QED BY <1>1, <1>2, <1>3

(* The table of a job past its DROP is reached. *)
LEMMA OwnReached ==
  ASSUME Inv, NEW r \in Requests, Active(r), job[r].step # "drop"
  PROVE  Reached(job[r].table)
BY Running DEF Reached

-------------------------------------------------------------------------------
(* DROP. *)

LEMMA DropStep ==
  ASSUME Inv, NEW r \in Requests, Drop(r)
  PROVE  Inv'
<1>0. PICK t \in Tables : t = job[r].table
  BY JobIs DEF Inv
<1>1. /\ Active(r) /\ job[r].step = "drop" /\ t \in Tables /\ t \in Nat /\ open
      /\ MovesTo(r, t, "create", 1)
      /\ exists' = [exists EXCEPT ![t] = FALSE]
      /\ count' = [count EXCEPT ![t] = [i \in RowsOf(t) |-> 0]]
      /\ lost' = [lost EXCEPT ![t] = {}]
      /\ UNCHANGED <<held, open, built, lock, cut, surprised, refreshes>>
  <2>1. Active(r) /\ job[r].step = "drop" /\ job' = Moved(r, t, "create", 1)
    BY <1>0 DEF Drop, At
  <2>2. TypeOK /\ t \in Tables /\ t \in Nat /\ open
    BY <2>1, Running, <1>0 DEF Inv
  <2>3. MovesTo(r, t, "create", 1)
    BY <2>1, <2>2, MovedMoves DEF Steps
  <2>4. QED BY <2>1, <2>2, <2>3, <1>0 DEF Drop
<1>2. /\ \A u \in Tables : u # t => /\ exists'[u] = exists[u] /\ count'[u] = count[u]
                                    /\ lost'[u] = lost[u]
      /\ exists'[t] = FALSE /\ lost'[t] = {}
      /\ count'[t] = [i \in RowsOf(t) |-> 0]
  BY <1>1 DEF Inv, TypeOK
<1>3. \A i \in RowsOf(t) : count'[t][i] = 0
  BY <1>2
<1>4. TypeOK'
  <2>1. \A u \in Tables : /\ count'[u] \in [RowsOf(u) -> Nat]
                          /\ u \in Keyed => \A i \in RowsOf(u) : count'[u][i] <= 1
    <3>1. TAKE u \in Tables
    <3>2. CASE u = t
      BY <1>2, <1>3, <3>2, DatabaseAssumption
    <3>3. CASE u # t
      BY <1>2, <3>3 DEF Inv, TypeOK
    <3>4. QED BY <3>2, <3>3
  <2>2. \A q \in Requests :
          job'[q].step = "insert" => job'[q].row \in RowsOf(job'[q].table)
    BY <1>1 DEF Inv, TypeOK, MovesTo
  <2>3. DOMAIN count' = Tables /\ exists' \in [Tables -> BOOLEAN]
        /\ lost' \in [Tables -> SUBSET Nat] /\ job' \in [Requests -> JobType]
    BY <1>1 DEF Inv, TypeOK, MovesTo
  <2>4. QED BY <2>1, <2>2, <2>3, <1>1 DEF Inv, TypeOK
<1>5. LockInv'
  BY <1>0, <1>1 DEF Inv, TypeOK, LockInv, MovesTo, Active
<1>6. LoneInv'
  <2>1. SUFFICES ASSUME NEW q \in Requests, Active(q)', (job[q].alone)'
                 PROVE  /\ \A p \in Requests \ {q} : ~Active(p)'
                        /\ RowsBefore(q)'
                        /\ job'[q].step = "create" => ~exists'[job'[q].table]
                        /\ job'[q].step # "insert"
    BY DEF LoneInv
  <2>2. q = r
    BY <2>1, <1>1, Running DEF MovesTo, Active
  <2>3. Active(r) /\ job[r].alone /\ \A p \in Requests \ {r} : ~Active(p)
    BY <2>1, <2>2, <1>1 DEF MovesTo, Inv, LoneInv
  <2>4. \A u \in Tables :
          u < t => u # t /\ exists[u] /\ \A i \in RowsOf(u) : RowIsExact(u, i)
    BY <2>3, <1>0, <1>1 DEF Inv, LoneInv, RowsBefore
  <2>5. QED BY <2>2, <2>3, <2>4, <1>1, <1>2 DEF MovesTo, Active, RowIsExact, RowsBefore
<1>7. GoneIsEmpty'
  <2>1. SUFFICES ASSUME NEW u \in Tables, ~exists'[u], NEW i \in RowsOf(u)
                 PROVE  ~Present(u, i)'
    BY DEF GoneIsEmpty
  <2>2. CASE u = t
    BY <1>2, <1>3, <2>2, DatabaseAssumption DEF Present
  <2>3. CASE u # t
    BY <1>2, <2>1, <2>3 DEF Inv, GoneIsEmpty, Present
  <2>4. QED BY <2>2, <2>3
<1>8. ~cut => Covered'
  <2> SUFFICES ASSUME ~cut, Covered, NoGap PROVE Covered'
    BY DEF Inv
  <2>1. SUFFICES ASSUME NEW u \in Tables, Reached(u)'
                 PROVE  /\ exists'[u] \/ \E q \in Requests : Creates(q, u)'
                        /\ \A i \in RowsOf(u) : exists'[u] =>
                             Present(u, i)' \/ \E q \in Requests : Inserts(q, u, i)'
    BY DEF Covered
  <2>2. CASE u = t
    <3>1. Creates(r, t)'
      BY <1>1 DEF MovesTo, Creates, At, Active
    <3>2. exists'[u] = FALSE
      BY <2>2, <1>2
    <3>3. QED BY <3>1, <3>2, <2>2
  <2>3. CASE u # t
    <3>1. Reached(u)
      <4>1. lock = Nobody \/ lock = r
        BY <1>1, Running
      <4>2. QED BY <4>1, <2>1, <2>3, <1>0, <1>1 DEF Reached, MovesTo
    <3>2. /\ exists[u] \/ \E q \in Requests : Creates(q, u)
          /\ \A i \in RowsOf(u) : exists[u] =>
               Present(u, i) \/ \E q \in Requests : Inserts(q, u, i)
      BY <3>1, <1>1 DEF Inv, Covered
    <3>3. \A q \in Requests : Creates(q, u) => Creates(q, u)'
      BY <1>1 DEF MovesTo, Creates, At, Active
    <3>4. \A q \in Requests, i \in RowsOf(u) : Inserts(q, u, i) => Inserts(q, u, i)'
      BY <1>1 DEF MovesTo, Inserts, At, Active
    <3>5. \A i \in RowsOf(u) : Present(u, i) => Present(u, i)'
      BY <2>3, <1>2 DEF Present
    <3>6. exists'[u] = exists[u]
      BY <2>3, <1>2
    <3>7. QED BY <3>2, <3>3, <3>4, <3>5, <3>6
  <2>4. QED BY <2>2, <2>3
<1>9. ~cut => NoGap'
  <2> SUFFICES ASSUME ~cut, Covered, NoGap PROVE NoGap'
    BY DEF Inv
  <2>1. SUFFICES ASSUME NEW u \in Tables, NEW i \in RowsOf(u), NEW j \in RowsOf(u),
                        j < i, Present(u, j)', ~Present(u, i)'
                 PROVE  \E q \in Requests : Inserts(q, u, i)' /\ j < job'[q].row
    BY DEF NoGap
  <2>2. u # t
    BY <2>1, <1>2, ZenonT(30) DEF Present
  <2>3. Present(u, j) /\ ~Present(u, i)
    BY <2>1, <2>2, <1>2 DEF Present
  <2>4. PICK q \in Requests : Inserts(q, u, i) /\ j < job[q].row
    BY <2>1, <2>3 DEF Inv, NoGap
  <2>5. QED BY <2>4, <1>1 DEF MovesTo, Inserts, At, Active
<1>10. ~surprised'
  BY <1>1 DEF Inv
<1>11. QED BY <1>1, <1>4, <1>5, <1>6, <1>7, <1>8, <1>9, <1>10 DEF Inv

-------------------------------------------------------------------------------
(* CREATE. *)

(* The other jobs stay where they are. *)
LEMMA Elsewhere ==
  ASSUME NEW r \in Requests, NEW t, NEW s, NEW k, MovesTo(r, t, s, k),
         NEW q \in Requests \ {r}
  PROVE  /\ Active(q)' <=> Active(q)
         /\ \A u \in Tables : Creates(q, u) => Creates(q, u)'
         /\ \A u \in Tables : \A i \in RowsOf(u) :
              Inserts(q, u, i) => Inserts(q, u, i)' /\ job'[q].row = job[q].row
BY DEF MovesTo, Active, At, Creates, Inserts

(* Where a job goes after row k of table t. *)
Goes(r, t, k) ==
  \/ k < Rows[t] /\ MovesTo(r, t, "insert", k + 1)
  \/ k = Rows[t] /\ t < Last /\ t + 1 \in Tables /\ MovesTo(r, t + 1, "drop", 1)
  \/ k = Rows[t] /\ t = Last /\ MovesTo(r, t, "done", 1)

(* The types and the lock are kept by a job that moves on. *)
LEMMA GoingOn ==
  ASSUME Inv, NEW r \in Requests, NEW t \in Tables, NEW k \in 0 .. Rows[t],
         Active(r), job[r].table = t, job[r].step # "drop", Goes(r, t, k),
         UNCHANGED <<held, open, lock>>
  PROVE  /\ job' \in [Requests -> JobType]
         /\ \A q \in Requests :
              job'[q].step = "insert" => job'[q].row \in RowsOf(job'[q].table)
         /\ LockInv'
         /\ \A u \in Tables : Reached(u)' => Reached(u)
         /\ \A q \in Requests : Active(q)' <=> Active(q)
<1>1. t \in Nat /\ Rows[t] \in Nat /\ Last \in Nat
  BY DatabaseAssumption
<1>2. PICK v, s, m : MovesTo(r, v, s, m)
  BY DEF Goes
<1>3. job' \in [Requests -> JobType]
  BY <1>2 DEF MovesTo
<1>4. ASSUME NEW q \in Requests, job'[q].step = "insert"
      PROVE  job'[q].row \in RowsOf(job'[q].table)
  <2>1. CASE q = r
    BY <1>1, <1>4, <2>1 DEF Goes, MovesTo
  <2>2. CASE q # r
    BY <1>2, <1>4, <2>2 DEF MovesTo, Inv, TypeOK
  <2>3. QED BY <2>1, <2>2
<1>5. LockInv'
  <2>1. \A q \in Requests :
          /\ job'[q].task = job[q].task /\ job'[q].alone = job[q].alone
          /\ q # r => job'[q] = job[q]
    BY <1>2 DEF MovesTo
  <2>2. job'[r].step = "done" => job'[r].table = Last
    BY <1>1 DEF Goes, MovesTo
  <2>3. lock # Nobody => lock \in Requests
    BY DEF Inv, TypeOK
  <2>4. QED BY <2>1, <2>2, <2>3 DEF Inv, LockInv, Active
<1>6. ASSUME NEW u \in Tables, Reached(u)' PROVE Reached(u)
  BY <1>6, ReachedBefore DEF Goes
<1>7. \A q \in Requests : Active(q)' <=> Active(q)
  BY <1>2 DEF MovesTo, Active
<1>8. QED BY <1>3, <1>4, <1>5, <1>6, <1>7

LEMMA CreateStep ==
  ASSUME Inv, NEW r \in Requests, Create(r)
  PROVE  Inv'
<1>0. PICK t \in Tables : t = job[r].table
  BY JobIs DEF Inv
<1>1. /\ Active(r) /\ job[r].step = "create" /\ job[r].step # "drop"
      /\ t \in Nat /\ Rows[t] \in Nat /\ 0 \in 0 .. Rows[t]
      /\ exists' = [exists EXCEPT ![t] = TRUE]
      /\ UNCHANGED <<held, open, built, lock, count, lost, cut, surprised, refreshes>>
  BY <1>0, DatabaseAssumption DEF Create, At
<1>2. Goes(r, t, 0)
  <2>1. job' = Past(r, t, 0)
    BY <1>0 DEF Create
  <2>2. QED BY <1>1, <2>1, PastMoves DEF Inv, Goes
<1>3. /\ exists'[t] = TRUE
      /\ \A u \in Tables : u # t => exists'[u] = exists[u]
  BY <1>1 DEF Inv, TypeOK
<1>4. /\ job' \in [Requests -> JobType]
      /\ \A q \in Requests :
           job'[q].step = "insert" => job'[q].row \in RowsOf(job'[q].table)
      /\ LockInv'
      /\ \A u \in Tables : Reached(u)' => Reached(u)
      /\ \A q \in Requests : Active(q)' <=> Active(q)
  BY <1>0, <1>1, <1>2, GoingOn
<1>5. TypeOK'
  BY <1>1, <1>4 DEF Inv, TypeOK
<1>6. LoneInv'
  <2>1. SUFFICES ASSUME NEW q \in Requests, Active(q)', (job[q].alone)'
                 PROVE  /\ \A p \in Requests \ {q} : ~Active(p)'
                        /\ RowsBefore(q)'
                        /\ job'[q].step # "create"
                        /\ job'[q].step = "insert" => NoRowsAfter(q)'
    BY DEF LoneInv
  <2>2. q = r
    <3>1. PICK u, s, m : MovesTo(r, u, s, m)
      BY <1>2 DEF Goes
    <3>2. QED BY <2>1, <1>1, <3>1, Running DEF MovesTo, Active
  <2>3. job[r].alone /\ \A p \in Requests \ {r} : ~Active(p)
    BY <2>1, <2>2, <1>1, <1>2 DEF Goes, MovesTo, Inv, LoneInv
  <2>4. \A u \in Tables : u < t => exists[u] /\ \A i \in RowsOf(u) : RowIsExact(u, i)
    BY <2>3, <1>0, <1>1 DEF Inv, LoneInv, RowsBefore
  <2>5. \A i \in RowsOf(t) : ~Present(t, i)
    BY <2>3, <1>0, <1>1 DEF Inv, LoneInv, GoneIsEmpty
  <2>6. \A u \in Tables : \A i \in RowsOf(u) :
          /\ RowIsExact(u, i)' <=> RowIsExact(u, i)
          /\ Present(u, i)' <=> Present(u, i)
    BY <1>1 DEF RowIsExact, Present
  <2>7. \A u \in Tables : u \in Nat /\ (u < t \/ u = t \/ t < u) /\ u <= Last
    BY <1>1, DatabaseAssumption
  <2>8. \A p \in Requests \ {r} : ~Active(p)'
    BY <2>3, <1>4
  <2>9. CASE 0 < Rows[t] /\ MovesTo(r, t, "insert", 1)
    <3>1. job'[r].table = t /\ job'[r].step = "insert" /\ job'[r].row = 1
      BY <2>9 DEF MovesTo
    <3>2. \A u \in Tables : u < t => u # t
      BY <1>1
    <3>3. \A i \in RowsOf(t) : ~(i < 1)
      BY <1>1
    <3>4. RowsBefore(r)'
      BY <3>1, <3>2, <3>3, <2>4, <2>6, <1>3 DEF RowsBefore
    <3>5. NoRowsAfter(r)'
      BY <3>1, <2>5, <2>6, <1>3 DEF NoRowsAfter
    <3>6. QED BY <3>1, <3>4, <3>5, <2>2, <2>8
  <2>10. CASE 0 = Rows[t] /\ t + 1 \in Tables /\ MovesTo(r, t + 1, "drop", 1)
    <3>1. \A u \in Tables : u < t + 1 => u < t \/ u = t
      BY <2>7, <1>1
    <3>2. RowsOf(t) = {}
      BY <2>10
    <3>3. \A u \in Tables :
            u < t + 1 => exists'[u] /\ \A i \in RowsOf(u) : RowIsExact(u, i)
      BY <3>1, <3>2, <2>4, <1>3
    <3>4. job'[r].table = t + 1 /\ job'[r].step = "drop"
      BY <2>10 DEF MovesTo
    <3>5. QED BY <3>3, <3>4, <2>2, <2>6, <2>8 DEF RowsBefore
  <2>11. CASE 0 = Rows[t] /\ t = Last /\ MovesTo(r, t, "done", 1)
    <3>1. RowsOf(t) = {}
      BY <2>11
    <3>2. \A u \in Tables : exists'[u] /\ \A i \in RowsOf(u) : RowIsExact(u, i)
      BY <3>1, <2>4, <2>7, <2>11, <1>1, <1>3
    <3>3. job'[r].step = "done"
      BY <2>11 DEF MovesTo
    <3>4. QED BY <3>2, <3>3, <2>2, <2>6, <2>8 DEF RowsBefore
  <2>12. QED BY <1>2, <2>9, <2>10, <2>11 DEF Goes
<1>7. GoneIsEmpty'
  BY <1>1, <1>3 DEF Inv, GoneIsEmpty, Present
<1>8. ~cut => Covered'
  <2> SUFFICES ASSUME ~cut, Covered, NoGap PROVE Covered'
    BY DEF Inv
  <2>1. SUFFICES ASSUME NEW u \in Tables, Reached(u)', open'
                 PROVE  /\ exists'[u] \/ \E q \in Requests : Creates(q, u)'
                        /\ \A i \in RowsOf(u) : exists'[u] =>
                             Present(u, i)' \/ \E q \in Requests : Inserts(q, u, i)'
    BY DEF Covered
  <2>2. /\ exists[u] \/ \E q \in Requests : Creates(q, u)
        /\ \A i \in RowsOf(u) : exists[u] =>
             Present(u, i) \/ \E q \in Requests : Inserts(q, u, i)
    BY <2>1, <1>1, <1>4 DEF Inv, Covered
  <2>3. PICK v, s, m : MovesTo(r, v, s, m)
    BY <1>2 DEF Goes
  <2>4. exists'[u] \/ \E q \in Requests : Creates(q, u)'
    <3>1. CASE u = t
      BY <3>1, <1>3
    <3>2. CASE u # t
      <4>1. \A q \in Requests : Creates(q, u) => q # r
        BY <3>2, <1>0 DEF Creates
      <4>2. QED BY <4>1, <3>2, <2>2, <2>3, <1>3, Elsewhere
    <3>3. QED BY <3>1, <3>2
  <2>5. ASSUME NEW i \in RowsOf(u), exists'[u]
        PROVE  Present(u, i)' \/ \E q \in Requests : Inserts(q, u, i)'
    <3>1. CASE exists[u]
      <4>1. \A q \in Requests : Inserts(q, u, i) => q # r
        BY <1>1 DEF Inserts, At
      <4>2. Present(u, i) => Present(u, i)'
        BY <1>1 DEF Present
      <4>3. QED BY <4>1, <4>2, <3>1, <2>2, <2>3, Elsewhere
    <3>2. CASE ~exists[u]
      <4>1. u = t /\ i \in Nat /\ 1 <= i /\ i <= Rows[t]
        BY <3>2, <2>5, <1>3, <1>1, DatabaseAssumption
      <4>2. MovesTo(r, t, "insert", 1)
        BY <4>1, <1>1, <1>2 DEF Goes
      <4>3. Inserts(r, u, i)'
        BY <4>1, <4>2, <1>1 DEF MovesTo, Inserts, At, Active
      <4>4. QED BY <4>3
    <3>3. QED BY <3>1, <3>2
  <2>6. QED BY <2>4, <2>5
<1>9. ~cut => NoGap'
  <2> SUFFICES ASSUME ~cut, Covered, NoGap PROVE NoGap'
    BY DEF Inv
  <2>1. SUFFICES ASSUME NEW u \in Tables, NEW i \in RowsOf(u), NEW j \in RowsOf(u),
                        j < i, Present(u, j)', ~Present(u, i)'
                 PROVE  \E q \in Requests : Inserts(q, u, i)' /\ j < job'[q].row
    BY DEF NoGap
  <2>2. Present(u, j) /\ ~Present(u, i)
    BY <2>1, <1>1 DEF Present
  <2>3. PICK q \in Requests : Inserts(q, u, i) /\ j < job[q].row
    BY <2>1, <2>2 DEF Inv, NoGap
  <2>4. q # r
    BY <2>3, <1>1 DEF Inserts, At
  <2>5. PICK v, s, m : MovesTo(r, v, s, m)
    BY <1>2 DEF Goes
  <2>6. QED BY <2>3, <2>4, <2>5, Elsewhere
<1>10. ~surprised'
  BY <1>1 DEF Inv
<1>11. QED BY <1>1, <1>4, <1>5, <1>6, <1>7, <1>8, <1>9, <1>10 DEF Inv

-------------------------------------------------------------------------------
(* INSERT. *)

LEMMA InsertStep ==
  ASSUME Inv, NEW r \in Requests, Insert(r)
  PROVE  Inv'
<1>0. PICK t \in Tables : t = job[r].table
  BY JobIs DEF Inv
<1>1. PICK k \in RowsOf(t) : k = job[r].row
  BY <1>0, JobIs DEF Inv, Insert, At
<1>2. /\ Active(r) /\ job[r].step = "insert"
      /\ t \in Nat /\ Rows[t] \in Nat /\ k \in 0 .. Rows[t] /\ Last \in Nat
      /\ exists[t] /\ ~(t \in Keyed /\ count[t][k] > 0)
      /\ count' = [count EXCEPT ![t] = OnceMore(count[t], k)]
      /\ UNCHANGED <<held, open, built, lock, exists, lost, cut, surprised, refreshes>>
  BY <1>0, <1>1, DatabaseAssumption DEF Insert, At, Refused
<1>3. Goes(r, t, k)
  <2>1. job' = Past(r, t, k)
    BY <1>0, <1>1 DEF Insert
  <2>2. QED BY <1>2, <2>1, PastMoves DEF Inv, Goes
<1>4. /\ \A u \in Tables : count[u] \in [RowsOf(u) -> Nat]
      /\ \A u \in Tables : u # t => count'[u] = count[u]
      /\ count'[t] = [count[t] EXCEPT ![k] = count[t][k] + 1]
  BY <1>2 DEF Inv, TypeOK, OnceMore
<1>5. /\ count'[t] \in [RowsOf(t) -> Nat] /\ count[t][k] \in Nat
      /\ count'[t][k] = count[t][k] + 1
      /\ \A i \in RowsOf(t) : i # k => count'[t][i] = count[t][i]
  <2>1. count[t] \in [RowsOf(t) -> Nat] /\ k \in RowsOf(t)
    BY <1>4
  <2>2. PICK f \in [RowsOf(t) -> Nat] : f = count[t]
    BY <2>1
  <2>3. f[k] \in Nat
    BY <2>1
  <2>4. PICK n \in Nat : n = f[k] + 1
    BY <2>3
  <2>5. count'[t] = [f EXCEPT ![k] = n]
    BY <2>2, <2>4, <1>4
  <2>6. /\ [f EXCEPT ![k] = n] \in [RowsOf(t) -> Nat]
        /\ [f EXCEPT ![k] = n][k] = n
        /\ \A i \in RowsOf(t) : i # k => [f EXCEPT ![k] = n][i] = f[i]
    BY <2>1
  <2>7. QED BY <2>2, <2>3, <2>4, <2>5, <2>6
<1>6. \A u \in Tables : \A i \in RowsOf(u) :
        IF u = t /\ i = k THEN Present(u, i)' ELSE Present(u, i)' <=> Present(u, i)
  <2>1. TAKE u \in Tables
  <2>2. TAKE i \in RowsOf(u)
  <2>3. CASE u = t /\ i = k
    BY <2>3, <1>5 DEF Present
  <2>4. CASE u = t /\ i # k
    BY <2>4, <1>2, <1>5 DEF Present
  <2>5. CASE u # t
    BY <2>5, <1>2, <1>4 DEF Present
  <2>6. QED BY <2>3, <2>4, <2>5
<1>7. /\ job' \in [Requests -> JobType]
      /\ \A q \in Requests :
           job'[q].step = "insert" => job'[q].row \in RowsOf(job'[q].table)
      /\ LockInv'
      /\ \A u \in Tables : Reached(u)' => Reached(u)
      /\ \A q \in Requests : Active(q)' <=> Active(q)
  BY <1>0, <1>2, <1>3, GoingOn
<1>8. TypeOK'
  <2>1. DOMAIN count' = Tables
    BY <1>2 DEF Inv, TypeOK
  <2>2. ASSUME NEW u \in Tables
        PROVE  /\ count'[u] \in [RowsOf(u) -> Nat]
               /\ u \in Keyed => \A i \in RowsOf(u) : count'[u][i] <= 1
    <3>1. CASE u # t
      BY <3>1, <1>4 DEF Inv, TypeOK
    <3>2. CASE u = t
      <4>1. ASSUME t \in Keyed, NEW i \in RowsOf(t) PROVE count'[t][i] <= 1
        <5>1. CASE i = k
          BY <4>1, <5>1, <1>2, <1>5
        <5>2. CASE i # k
          BY <4>1, <5>2, <1>5 DEF Inv, TypeOK
        <5>3. QED BY <5>1, <5>2
      <4>2. QED BY <3>2, <4>1, <1>5
    <3>3. QED BY <3>1, <3>2
  <2>3. QED BY <1>2, <1>7, <2>1, <2>2 DEF Inv, TypeOK
<1>9. LoneInv'
  <2>1. SUFFICES ASSUME NEW q \in Requests, Active(q)', (job[q].alone)'
                 PROVE  /\ \A p \in Requests \ {q} : ~Active(p)'
                        /\ RowsBefore(q)'
                        /\ job'[q].step # "create"
                        /\ job'[q].step = "insert" => NoRowsAfter(q)'
    BY DEF LoneInv
  <2>2. q = r
    <3>1. PICK u, s, m : MovesTo(r, u, s, m)
      BY <1>3 DEF Goes
    <3>2. QED BY <2>1, <1>2, <3>1, Running DEF MovesTo, Active
  <2>3. /\ job[r].alone /\ \A p \in Requests \ {r} : ~Active(p)
        /\ RowsBefore(r) /\ NoRowsAfter(r)
    BY <2>1, <2>2, <1>2, <1>3 DEF Goes, MovesTo, Inv, LoneInv
  <2>4. /\ \A u \in Tables : u < t => exists[u] /\ \A i \in RowsOf(u) : RowIsExact(u, i)
        /\ \A i \in RowsOf(t) : i < k => RowIsExact(t, i)
    BY <2>3, <1>0, <1>1, <1>2 DEF RowsBefore
  <2>5. \A i \in RowsOf(t) : i >= k => ~Present(t, i)
    BY <2>3, <1>0, <1>1 DEF NoRowsAfter
  <2>6. RowIsExact(t, k)'
    <3>1. ~(count[t][k] > 0) /\ k \notin lost[t]
      BY <2>5, <1>2 DEF Present
    <3>2. count'[t][k] = 1 /\ k \notin lost'[t]
      BY <3>1, <1>2, <1>5
    <3>3. QED BY <3>2 DEF RowIsExact
  <2>7. \A i \in RowsOf(t) : i < k => RowIsExact(t, i)'
    BY <2>4, <1>2, <1>5 DEF RowIsExact
  <2>8. \A u \in Tables : u < t => exists'[u] /\ \A i \in RowsOf(u) : RowIsExact(u, i)'
    BY <2>4, <1>2, <1>4 DEF RowIsExact
  <2>9. \A p \in Requests \ {r} : ~Active(p)'
    BY <2>3, <1>7
  <2>10. CASE k < Rows[t] /\ MovesTo(r, t, "insert", k + 1)
    <3>1. job'[r].table = t /\ job'[r].step = "insert" /\ job'[r].row = k + 1
      BY <2>10 DEF MovesTo
    <3>2. \A i \in RowsOf(t) : i < k + 1 => i < k \/ i = k
      BY <1>2
    <3>3. RowsBefore(r)'
      BY <3>1, <3>2, <2>6, <2>7, <2>8 DEF RowsBefore
    <3>4. \A i \in RowsOf(t) : i >= k + 1 => i # k /\ i >= k
      BY <1>2
    <3>5. NoRowsAfter(r)'
      BY <3>1, <3>4, <2>5, <1>2, <1>6 DEF NoRowsAfter
    <3>6. QED BY <3>1, <3>3, <3>5, <2>2, <2>9
  <2>11. CASE k = Rows[t]
    <3>1. \A i \in RowsOf(t) : i < k \/ i = k
      BY <2>11, <1>2
    <3>2. \A i \in RowsOf(t) : RowIsExact(t, i)'
      BY <3>1, <2>6, <2>7
    <3>3. CASE MovesTo(r, t + 1, "drop", 1)
      <4>1. job'[r].table = t + 1 /\ job'[r].step = "drop"
        BY <3>3 DEF MovesTo
      <4>2. \A u \in Tables : u < t + 1 => u < t \/ u = t
        BY <1>2
      <4>3. RowsBefore(r)'
        BY <4>1, <4>2, <3>2, <2>8, <1>2 DEF RowsBefore
      <4>4. QED BY <4>1, <4>3, <2>2, <2>9
    <3>4. CASE t = Last /\ MovesTo(r, t, "done", 1)
      <4>1. job'[r].step = "done"
        BY <3>4 DEF MovesTo
      <4>2. \A u \in Tables : u < t \/ u = t
        BY <3>4, <1>2
      <4>3. RowsBefore(r)'
        BY <4>2, <3>2, <2>8, <1>2 DEF RowsBefore
      <4>4. QED BY <4>1, <4>3, <2>2, <2>9
    <3>5. QED BY <1>2, <1>3, <2>11, <3>3, <3>4 DEF Goes
  <2>12. QED BY <1>3, <2>10, <2>11 DEF Goes
<1>10. GoneIsEmpty'
  <2>1. SUFFICES ASSUME NEW u \in Tables, ~exists'[u], NEW i \in RowsOf(u)
                 PROVE  ~Present(u, i)'
    BY DEF GoneIsEmpty
  <2>2. ~exists[u] /\ u # t
    BY <2>1, <1>2
  <2>3. QED BY <2>2, <1>6 DEF Inv, GoneIsEmpty
(* A row that r still had to insert is in, or r still has to. *)
<1>11. ASSUME NEW u \in Tables, NEW i \in RowsOf(u), Inserts(r, u, i)
       PROVE  u = t /\ k <= i /\ (i = k \/ (Inserts(r, u, i)' /\ job'[r].row = k + 1))
  <2>1. u = t /\ k <= i
    BY <1>11, <1>0, <1>1 DEF Inserts
  <2>2. i # k => k < Rows[t] /\ k + 1 <= i
    BY <2>1, <1>2
  <2>3. CASE i # k
    <3>1. MovesTo(r, t, "insert", k + 1)
      BY <2>2, <2>3, <1>2, <1>3 DEF Goes
    <3>2. QED BY <3>1, <2>1, <2>2, <2>3, <1>2 DEF MovesTo, Inserts, At, Active
  <2>4. QED BY <2>1, <2>3
<1>12. PICK v, s, m : MovesTo(r, v, s, m)
  BY <1>3 DEF Goes
<1>13. ~cut => Covered'
  <2> SUFFICES ASSUME ~cut, Covered, NoGap PROVE Covered'
    BY DEF Inv
  <2>1. SUFFICES ASSUME NEW u \in Tables, Reached(u)', open'
                 PROVE  /\ exists'[u] \/ \E q \in Requests : Creates(q, u)'
                        /\ \A i \in RowsOf(u) : exists'[u] =>
                             Present(u, i)' \/ \E q \in Requests : Inserts(q, u, i)'
    BY DEF Covered
  <2>2. /\ exists[u] \/ \E q \in Requests : Creates(q, u)
        /\ \A i \in RowsOf(u) : exists[u] =>
             Present(u, i) \/ \E q \in Requests : Inserts(q, u, i)
    BY <2>1, <1>2, <1>7 DEF Inv, Covered
  <2>3. exists'[u] \/ \E q \in Requests : Creates(q, u)'
    <3>1. \A q \in Requests : Creates(q, u) => q # r
      BY <1>2 DEF Creates, At
    <3>2. QED BY <3>1, <2>2, <1>2, <1>12, Elsewhere
  <2>4. ASSUME NEW i \in RowsOf(u), exists'[u]
        PROVE  Present(u, i)' \/ \E q \in Requests : Inserts(q, u, i)'
    <3>1. CASE Present(u, i)
      BY <3>1, <1>6
    <3>2. ASSUME NEW q \in Requests, Inserts(q, u, i)
          PROVE  Present(u, i)' \/ Inserts(q, u, i)'
      <4>1. CASE q = r
        BY <4>1, <3>2, <1>6, <1>11
      <4>2. CASE q # r
        BY <4>2, <3>2, <1>12, Elsewhere
      <4>3. QED BY <4>1, <4>2
    <3>3. QED BY <3>1, <3>2, <2>2, <2>4, <1>2
  <2>5. QED BY <2>3, <2>4
<1>14. ~cut => NoGap'
  <2> SUFFICES ASSUME ~cut, Covered, NoGap PROVE NoGap'
    BY DEF Inv
  <2>1. SUFFICES ASSUME NEW u \in Tables, NEW i \in RowsOf(u), NEW j \in RowsOf(u),
                        j < i, Present(u, j)', ~Present(u, i)'
                 PROVE  \E q \in Requests : Inserts(q, u, i)' /\ j < job'[q].row
    BY DEF NoGap
  <2>2. ~Present(u, i) /\ ~(u = t /\ i = k)
    BY <2>1, <1>6
  <2>3. CASE Present(u, j)
    <3>1. PICK q \in Requests : Inserts(q, u, i) /\ j < job[q].row
      BY <2>1, <2>2, <2>3 DEF Inv, NoGap
    <3>2. CASE q # r
      BY <3>1, <3>2, <1>12, Elsewhere
    <3>3. CASE q = r
      <4>1. Inserts(r, u, i)' /\ job'[r].row = k + 1 /\ j < k
        BY <3>1, <3>3, <2>2, <1>1, <1>11
      <4>2. j < k + 1
        BY <4>1, <1>2, DatabaseAssumption
      <4>3. QED BY <4>1, <4>2
    <3>4. QED BY <3>2, <3>3
  <2>4. CASE ~Present(u, j)
    <3>1. u = t /\ j = k
      BY <2>1, <2>4, <1>6
    <3>2. Inserts(r, u, i)
      BY <3>1, <2>1, <1>0, <1>1, <1>2, DatabaseAssumption DEF Inserts, At
    <3>3. Inserts(r, u, i)' /\ job'[r].row = k + 1
      BY <3>2, <2>2, <1>11
    <3>4. QED BY <3>1, <3>3, <1>2
  <2>5. QED BY <2>3, <2>4
<1>15. ~surprised'
  BY <1>2 DEF Inv
<1>16. QED BY <1>2, <1>7, <1>8, <1>9, <1>10, <1>13, <1>14, <1>15 DEF Inv

-------------------------------------------------------------------------------
(* A job that ends or begins. *)

(* The statements of the other jobs stay, and none of them becomes alone. *)
OthersStay(r) ==
  /\ job' \in [Requests -> JobType]
  /\ \A q \in Requests \ {r} :
       /\ job'[q].task = job[q].task /\ job'[q].table = job[q].table
       /\ job'[q].step = job[q].step /\ job'[q].row = job[q].row
       /\ job'[q].alone => job[q].alone

Stops(r) == OthersStay(r) /\ job'[r].task = "idle" /\ job'[r].step = "drop"

Starts(r) ==
  /\ OthersStay(r)
  /\ job'[r].task \in {"first", "refresh"} /\ job'[r].table = 1 /\ job'[r].step = "drop"
  /\ job'[r].alone = \A q \in Requests \ {r} : ~Active(q)

LEMMA IdleStops ==
  ASSUME TypeOK, NEW r \in Requests, job' = [job EXCEPT ![r] = Idle]
  PROVE  Stops(r)
<1>1. Idle \in JobType /\ Idle.task = "idle" /\ Idle.step = "drop"
  <2>1. 1 \in Tables /\ 1 \in Nat \ {0}
    BY DatabaseAssumption
  <2>2. QED BY <2>1 DEF Idle, Job, JobType
<1>2. job \in [Requests -> JobType]
  BY DEF TypeOK
<1>3. job' \in [Requests -> JobType] /\ job'[r] = Idle
      /\ \A q \in Requests \ {r} : job'[q] = job[q]
  BY <1>1, <1>2
<1>4. QED BY <1>1, <1>3 DEF Stops, OthersStay

LEMMA BegunStarts ==
  ASSUME TypeOK, NEW r \in Requests, NEW task \in {"first", "refresh"},
         NEW refresh \in BOOLEAN, job' = Begun(r, task, refresh)
  PROVE  Starts(r) /\ job'[r].task = task
                   /\ \A q \in Requests \ {r} : job'[q].alone = FALSE
<1>1. /\ job' \in [Requests -> JobType]
      /\ job'[r].task = task /\ job'[r].table = 1 /\ job'[r].step = "drop"
      /\ job'[r].alone = \A q \in Requests \ {r} : ~Active(q)
      /\ \A q \in Requests \ {r} :
           /\ job'[q].task = job[q].task /\ job'[q].alone = FALSE
           /\ job'[q].table = job[q].table /\ job'[q].step = job[q].step
           /\ job'[q].row = job[q].row
  BY BegunJobs
<1>2. OthersStay(r)
  BY <1>1 DEF OthersStay
<1>3. QED BY <1>1, <1>2 DEF Starts

(* The rows of INSERTs stay in their tables. *)
LEMMA RowsStay ==
  ASSUME TypeOK, NEW r \in Requests, OthersStay(r), job'[r].step = "drop"
  PROVE  \A q \in Requests :
           job'[q].step = "insert" => job'[q].row \in RowsOf(job'[q].table)
<1>1. TAKE q \in Requests
<1>2. CASE q = r
  BY <1>2
<1>3. CASE q # r
  BY <1>3 DEF TypeOK, OthersStay
<1>4. QED BY <1>2, <1>3

LEMMA LoneAfter ==
  ASSUME NEW r \in Requests, Stops(r) \/ Starts(r),
         \A q \in Requests \ {r} : ~(Active(q)' /\ job'[q].alone)
  PROVE  LoneInv'
<1>1. SUFFICES ASSUME NEW q \in Requests, Active(q)', (job[q].alone)'
               PROVE  /\ \A p \in Requests \ {q} : ~Active(p)'
                      /\ RowsBefore(q)'
                      /\ job'[q].step = "drop"
  BY DEF LoneInv
<1>2. q = r
  BY <1>1
<1>3. Starts(r)
  BY <1>1, <1>2 DEF Stops, Active
<1>4. \A p \in Requests \ {r} : ~Active(p)
  BY <1>1, <1>2, <1>3 DEF Starts
<1>5. \A p \in Requests \ {r} : ~Active(p)'
  BY <1>3, <1>4 DEF Starts, OthersStay, Active
<1>6. job'[r].table = 1 /\ job'[r].step = "drop"
  BY <1>3 DEF Starts
<1>7. \A t \in Tables : ~(t < 1)
  BY DatabaseAssumption
<1>8. RowsBefore(r)'
  BY <1>6, <1>7 DEF RowsBefore
<1>9. QED BY <1>2, <1>5, <1>6, <1>8

(* What other jobs have on the way stays on the way. *)
LEMMA WayStays ==
  ASSUME NEW r \in Requests, OthersStay(r), NEW q \in Requests \ {r}, NEW u \in Tables
  PROVE  /\ Creates(q, u) => Creates(q, u)'
         /\ \A i \in RowsOf(u) : Inserts(q, u, i) => Inserts(q, u, i)'
         /\ job'[q].row = job[q].row
BY DEF OthersStay, Creates, Inserts, At, Active

(* If job r had nothing on the way, nothing is missed. *)
LEMMA CoverStays ==
  ASSUME Covered, NoGap, NEW r \in Requests, OthersStay(r),
         UNCHANGED <<exists, count, lost>>,
         open, ~At(r, "create"), ~At(r, "insert"), \A u \in Tables : Reached(u)
  PROVE  Covered' /\ NoGap'
<1>1. \A u \in Tables : \A i \in RowsOf(u) : Present(u, i)' <=> Present(u, i)
  BY DEF Present
<1>2. Covered'
  <2>1. SUFFICES ASSUME NEW u \in Tables
                 PROVE  /\ exists'[u] \/ \E q \in Requests : Creates(q, u)'
                        /\ \A i \in RowsOf(u) : exists'[u] =>
                             Present(u, i)' \/ \E q \in Requests : Inserts(q, u, i)'
    BY DEF Covered
  <2>2. /\ exists[u] \/ \E q \in Requests : Creates(q, u)
        /\ \A i \in RowsOf(u) : exists[u] =>
             Present(u, i) \/ \E q \in Requests : Inserts(q, u, i)
    BY DEF Covered
  <2>3. ~Creates(r, u) /\ \A i \in RowsOf(u) : ~Inserts(r, u, i)
    BY DEF Creates, Inserts
  <2>4. QED BY <2>2, <2>3, <1>1, WayStays
<1>3. NoGap'
  <2>1. SUFFICES ASSUME NEW u \in Tables, NEW i \in RowsOf(u), NEW j \in RowsOf(u),
                        j < i, Present(u, j)', ~Present(u, i)'
                 PROVE  \E q \in Requests : Inserts(q, u, i)' /\ j < job'[q].row
    BY DEF NoGap
  <2>2. PICK q \in Requests : Inserts(q, u, i) /\ j < job[q].row
    BY <2>1, <1>1 DEF NoGap
  <2>3. q # r
    BY <2>2 DEF Inserts
  <2>4. QED BY <2>2, <2>3, WayStays
<1>4. QED BY <1>2, <1>3

LEMMA EmptyStays ==
  ASSUME GoneIsEmpty, UNCHANGED <<exists, count, lost>>
  PROVE  GoneIsEmpty'
BY DEF GoneIsEmpty, Present

(* What a job that ran alone to its end leaves. *)
LEMMA LoneIsWhole ==
  ASSUME Inv, NEW r \in Requests, Active(r), job[r].alone, job[r].step = "done",
         UNCHANGED <<exists, count, lost>>
  PROVE  Covered' /\ NoGap'
<1>1. \A u \in Tables : exists[u] /\ \A i \in RowsOf(u) : RowIsExact(u, i)
  BY DEF Inv, LoneInv, RowsBefore
<1>2. \A u \in Tables : exists'[u] /\ \A i \in RowsOf(u) : Present(u, i)'
  <2>1. \A u \in Tables : \A i \in RowsOf(u) : i \in lost[u] \/ count[u][i] > 0
    BY <1>1 DEF RowIsExact
  <2>2. QED BY <2>1, <1>1 DEF Present
<1>3. QED BY <1>2 DEF Covered, NoGap

-------------------------------------------------------------------------------
(* A rebuild that fails, that is done, or that begins. *)

(* A job that is alone does not fail. *)
LEMMA FailsInCompany ==
  ASSUME Inv, NEW r \in Requests, Fails(r)
  PROVE  Active(r) /\ ~job[r].alone /\ lock = Nobody /\ open
<1>1. Active(r)
  BY DEF Fails, At
<1>2. ASSUME job[r].alone PROVE FALSE
  <2>1. CASE At(r, "insert") /\ Refused(job[r].table, job[r].row)
    <3>1. NoRowsAfter(r)
      BY <1>1, <1>2, <2>1 DEF Inv, LoneInv, At
    <3>2. job[r].row \in RowsOf(job[r].table) /\ job[r].row >= job[r].row
      BY <2>1, JobIs DEF Inv, At
    <3>3. exists[job[r].table] /\ ~Present(job[r].table, job[r].row)
      BY <3>1, <3>2 DEF NoRowsAfter
    <3>4. QED BY <3>3, <2>1 DEF Refused, Present
  <2>2. CASE At(r, "create") /\ exists[job[r].table]
    BY <1>1, <1>2, <2>2 DEF Inv, LoneInv, At
  <2>3. QED BY <2>1, <2>2 DEF Fails
<1>3. QED BY <1>1, <1>2, Running

LEMMA AbortStep ==
  ASSUME Inv, NEW r \in Requests, Abort(r)
  PROVE  Inv'
<1>0. PICK t \in Tables : t = job[r].table
  BY JobIs DEF Inv
<1>1. /\ Active(r) /\ lock = Nobody /\ open
      /\ Fails(r) /\ job' = [job EXCEPT ![r] = Idle]
      /\ UNCHANGED <<held, open, built, lock, exists, count, lost, cut, surprised, refreshes>>
  BY FailsInCompany, DatabaseAssumption DEF Abort
<1>2. Stops(r) /\ OthersStay(r)
  BY <1>1, IdleStops DEF Inv, Stops
<1>3. TypeOK'
  <2>1. \A q \in Requests :
          job'[q].step = "insert" => job'[q].row \in RowsOf(job'[q].table)
    BY <1>2, RowsStay DEF Inv, Stops
  <2>2. QED BY <2>1, <1>1, <1>2 DEF Inv, TypeOK, OthersStay
<1>4. LockInv'
  BY <1>1, <1>2 DEF Inv, LockInv, Stops, OthersStay, Active
<1>5. LoneInv'
  <2>1. \A q \in Requests \ {r} : ~(Active(q)' /\ job'[q].alone)
    BY <1>1, <1>2, Running DEF OthersStay, Active
  <2>2. QED BY <2>1, <1>2, LoneAfter
<1>6. \A u \in Tables : \A i \in RowsOf(u) : Present(u, i)' <=> Present(u, i)
  BY <1>1 DEF Present
<1>7. GoneIsEmpty'
  BY <1>1, <1>6 DEF Inv, GoneIsEmpty
(* Another job goes on where r is stopped. *)
<1>8. ASSUME NoGap, NEW u \in Tables, NEW i \in RowsOf(u), Inserts(r, u, i),
             exists[u], ~Present(u, i)
      PROVE  \E q \in Requests : Inserts(q, u, i)' /\ job[r].row < job'[q].row
  <2>1. u = t /\ At(r, "insert") /\ job[r].row \in RowsOf(u) /\ job[r].row <= i
    BY <1>0, <1>8, JobIs DEF Inserts, At, Inv
  <2>2. Refused(u, job[r].row)
    BY <1>0, <1>1, <2>1 DEF Fails, At
  <2>3. Present(u, job[r].row)
    BY <2>2, <1>8 DEF Refused, Present
  <2>4. job[r].row # i
    BY <2>3, <1>8
  <2>5. job[r].row < i
    BY <2>1, <2>4, DatabaseAssumption
  <2>6. PICK q \in Requests : Inserts(q, u, i) /\ job[r].row < job[q].row
    BY <2>1, <2>3, <2>5, <1>8 DEF NoGap
  <2>7. q # r
    BY <2>1, <2>6, DatabaseAssumption
  <2>8. QED BY <2>6, <2>7, <1>2, WayStays
<1>9. ~cut => Covered'
  <2> SUFFICES ASSUME ~cut, Covered, NoGap PROVE Covered'
    BY DEF Inv
  <2>1. SUFFICES ASSUME NEW u \in Tables
                 PROVE  /\ exists'[u] \/ \E q \in Requests : Creates(q, u)'
                        /\ \A i \in RowsOf(u) : exists'[u] =>
                             Present(u, i)' \/ \E q \in Requests : Inserts(q, u, i)'
    BY DEF Covered
  <2>2. /\ exists[u] \/ \E q \in Requests : Creates(q, u)
        /\ \A i \in RowsOf(u) : exists[u] =>
             Present(u, i) \/ \E q \in Requests : Inserts(q, u, i)
    BY <1>1 DEF Inv, Covered, Reached
  <2>3. exists'[u] \/ \E q \in Requests : Creates(q, u)'
    <3>1. Creates(r, u) => exists[u]
      BY <1>1 DEF Creates, Fails, At
    <3>2. QED BY <3>1, <2>2, <1>1, <1>2, WayStays
  <2>4. ASSUME NEW i \in RowsOf(u), exists'[u], ~Present(u, i)'
        PROVE  \E q \in Requests : Inserts(q, u, i)'
    <3>1. exists[u] /\ ~Present(u, i)
      BY <2>4, <1>1, <1>6
    <3>2. PICK q \in Requests : Inserts(q, u, i)
      BY <3>1, <2>2
    <3>3. CASE q = r
      BY <3>1, <3>2, <3>3, <1>8
    <3>4. CASE q # r
      BY <3>2, <3>4, <1>2, WayStays
    <3>5. QED BY <3>3, <3>4
  <2>5. QED BY <2>3, <2>4
<1>10. ~cut => NoGap'
  <2> SUFFICES ASSUME ~cut, Covered, NoGap PROVE NoGap'
    BY DEF Inv
  <2>1. SUFFICES ASSUME NEW u \in Tables, NEW i \in RowsOf(u), NEW j \in RowsOf(u),
                        j < i, Present(u, j)', ~Present(u, i)'
                 PROVE  \E q \in Requests : Inserts(q, u, i)' /\ j < job'[q].row
    BY DEF NoGap
  <2>2. Present(u, j) /\ ~Present(u, i) /\ exists[u]
    BY <2>1, <1>6 DEF Inv, GoneIsEmpty
  <2>3. PICK q \in Requests : Inserts(q, u, i) /\ j < job[q].row
    BY <2>1, <2>2 DEF Inv, NoGap
  <2>4. CASE q # r
    BY <2>3, <2>4, <1>2, WayStays
  <2>5. CASE q = r
    <3>1. PICK p \in Requests : Inserts(p, u, i)' /\ job[r].row < job'[p].row
      BY <2>2, <2>3, <2>5, <1>8
    <3>2. j \in Nat /\ job[r].row \in Nat /\ job'[p].row \in Nat
      BY JobIs, <1>2, DatabaseAssumption, SMTT(30) DEF Inv, OthersStay, JobType
    <3>3. j < job'[p].row
      BY <3>1, <3>2, <2>3, <2>5
    <3>4. QED BY <3>1, <3>3
  <2>6. QED BY <2>4, <2>5
<1>11. ~surprised'
  BY <1>1 DEF Inv
<1>12. QED BY <1>1, <1>3, <1>4, <1>5, <1>7, <1>9, <1>10, <1>11 DEF Inv

LEMMA FinishStep ==
  ASSUME Inv, NEW r \in Requests, Finish(r)
  PROVE  Inv'
<1>1. /\ Active(r) /\ job[r].step = "done" /\ open
      /\ lock = Nobody \/ lock = r
      /\ built' \in BOOLEAN /\ lock' = Nobody /\ refreshes' \in 0 .. MaxRefreshes
      /\ UNCHANGED <<held, open, exists, count, lost, surprised>>
      /\ cut' \in BOOLEAN /\ (cut' \/ ~cut \/ job[r].alone)
  <2>1. /\ Active(r) /\ job[r].step = "done"
        /\ UNCHANGED <<held, open, exists, count, lost, surprised>>
        /\ cut' = (cut /\ ~job[r].alone)
    BY DEF Finish, At
  <2>2. open /\ (lock = Nobody \/ lock = r)
    BY <2>1, Running
  <2>3. lock' = Nobody
    BY <2>2 DEF Finish
  <2>4. built' \in BOOLEAN
    BY DEF Finish, Inv, TypeOK
  <2>5. refreshes' \in 0 .. MaxRefreshes
    <3>1. refreshes \in 0 .. MaxRefreshes /\ MaxRefreshes \in Nat
      BY DatabaseAssumption DEF Inv, TypeOK
    <3>2. refreshes' = refreshes \/ (refreshes < MaxRefreshes /\ refreshes' = refreshes + 1)
      BY DEF Finish
    <3>3. QED BY <3>1, <3>2
  <2>6. QED BY <2>1, <2>2, <2>3, <2>4, <2>5
<1>2. /\ Stops(r) \/ Starts(r)
      /\ OthersStay(r) /\ job'[r].step = "drop" /\ job'[r].task # "first"
  <2>1. CASE job' = Begun(r, "refresh", FALSE)
    <3>1. Starts(r) /\ job'[r].task = "refresh"
      BY <2>1, BegunStarts DEF Inv
    <3>2. QED BY <3>1 DEF Starts
  <2>2. CASE job' = [job EXCEPT ![r] = Idle]
    <3>1. Stops(r)
      BY <2>2, IdleStops DEF Inv
    <3>2. QED BY <3>1 DEF Stops
  <2>3. QED BY <2>1, <2>2 DEF Finish
<1>3. TypeOK'
  <2>1. \A q \in Requests :
          job'[q].step = "insert" => job'[q].row \in RowsOf(job'[q].table)
    BY <1>2, RowsStay DEF Inv
  <2>2. QED BY <2>1, <1>1, <1>2 DEF Inv, TypeOK, OthersStay
<1>4. LockInv'
  <2>1. ASSUME NEW q \in Requests
        PROVE  /\ job'[q].task # "first"
               /\ job'[q].step = "done" => job'[q].table = Last
    <3>1. CASE q = r
      BY <3>1, <1>2
    <3>2. CASE q # r
      <4>1. job[q].task # "first"
        BY <3>2, <1>1, DatabaseAssumption DEF Inv, LockInv
      <4>2. QED BY <4>1, <3>2, <1>2 DEF Inv, LockInv, OthersStay
    <3>3. QED BY <3>1, <3>2
  <2>2. QED BY <2>1, <1>1 DEF LockInv
<1>5. LoneInv'
  <2>1. \A q \in Requests \ {r} : ~(Active(q)' /\ job'[q].alone)
    BY <1>1, <1>2, Running DEF OthersStay, Active
  <2>2. QED BY <2>1, <1>2, LoneAfter
<1>6. ASSUME ~cut' PROVE Covered' /\ NoGap'
  <2>1. ASSUME NEW u \in Tables PROVE Reached(u)
    <3>1. u < Last \/ u = Last
      BY DatabaseAssumption
    <3>2. job[r].table = Last
      BY <1>1 DEF Inv, LockInv
    <3>3. QED BY <3>1, <3>2, <1>1 DEF Reached
  <2>2. ~At(r, "create") /\ ~At(r, "insert")
    BY <1>1 DEF At
  <2>3. CASE ~cut
    <3>1. Covered /\ NoGap
      BY <2>3 DEF Inv
    <3>2. QED BY <3>1, <2>1, <2>2, <1>1, <1>2, CoverStays
  <2>4. CASE job[r].alone
    BY <2>4, <1>1, LoneIsWhole
  <2>5. QED BY <1>1, <1>6, <2>3, <2>4
<1>7. GoneIsEmpty' /\ ~surprised'
  BY <1>1, EmptyStays DEF Inv
<1>8. QED BY <1>1, <1>3, <1>4, <1>5, <1>6, <1>7 DEF Inv

LEMMA RefreshStep ==
  ASSUME Inv, NEW r \in Requests, Refresh(r)
  PROVE  Inv'
<1>1. /\ ~Active(r) /\ open /\ lock = Nobody
      /\ refreshes' \in 0 .. MaxRefreshes
      /\ UNCHANGED <<held, open, built, lock, exists, count, lost, cut, surprised>>
  BY DatabaseAssumption DEF Inv, TypeOK, Refresh
<1>2. /\ Starts(r) /\ OthersStay(r) /\ job'[r].task = "refresh"
      /\ job'[r].step = "drop" /\ \A q \in Requests \ {r} : job'[q].alone = FALSE
  BY BegunStarts DEF Inv, Refresh, Starts
<1>3. TypeOK'
  <2>1. \A q \in Requests :
          job'[q].step = "insert" => job'[q].row \in RowsOf(job'[q].table)
    BY <1>2, RowsStay DEF Inv
  <2>2. QED BY <2>1, <1>1, <1>2 DEF Inv, TypeOK, OthersStay
<1>4. LockInv'
  <2>1. \A q \in Requests : /\ job'[q].task # "first"
                            /\ job'[q].step = "done" => job'[q].table = Last
    BY <1>1, <1>2, DatabaseAssumption DEF Inv, LockInv, OthersStay
  <2>2. QED BY <2>1, <1>1 DEF LockInv
<1>5. LoneInv'
  BY <1>2, LoneAfter
<1>6. ASSUME ~cut PROVE Covered' /\ NoGap'
  <2>1. \A u \in Tables : Reached(u)
    BY <1>1 DEF Reached
  <2>2. ~At(r, "create") /\ ~At(r, "insert")
    BY <1>1 DEF At
  <2>3. Covered /\ NoGap
    BY <1>6 DEF Inv
  <2>4. QED BY <2>1, <2>2, <2>3, <1>1, <1>2, CoverStays
<1>7. GoneIsEmpty' /\ ~surprised'
  BY <1>1, EmptyStays DEF Inv
<1>8. QED BY <1>1, <1>3, <1>4, <1>5, <1>6, <1>7 DEF Inv

LEMMA FirstConnectionStep ==
  ASSUME Inv, NEW r \in Requests, FirstConnection(r)
  PROVE  Inv'
<1>1. /\ \A q \in Requests : ~Active(q)
      /\ open' = TRUE /\ lock' = r
      /\ UNCHANGED <<held, built, exists, count, lost, cut, surprised, refreshes>>
  BY DEF FirstConnection, Inv, LockInv
<1>2. /\ Starts(r) /\ OthersStay(r) /\ job'[r].task = "first"
      /\ job'[r].step = "drop" /\ \A q \in Requests \ {r} : job'[q].alone = FALSE
  BY BegunStarts DEF Inv, FirstConnection, Starts
<1>3. TypeOK'
  <2>1. \A q \in Requests :
          job'[q].step = "insert" => job'[q].row \in RowsOf(job'[q].table)
    BY <1>2, RowsStay DEF Inv
  <2>2. QED BY <2>1, <1>1, <1>2 DEF Inv, TypeOK, OthersStay
<1>4. LockInv'
  <2>1. job'[r].alone
    BY <1>1, <1>2 DEF Starts
  <2>2. \A q \in Requests \ {r} : job'[q].task = "idle"
    BY <1>1, <1>2 DEF OthersStay, Active
  <2>3. \A q \in Requests : job'[q].step = "done" => job'[q].table = Last
    BY <1>2 DEF Inv, LockInv, OthersStay
  <2>4. \A q \in Requests : held'[q] = "no"
    BY <1>1 DEF FirstConnection, Inv, LockInv
  <2>5. QED BY <2>1, <2>2, <2>3, <2>4, <1>1, <1>2 DEF LockInv
<1>5. LoneInv'
  BY <1>2, LoneAfter
<1>6. \A u \in Tables : \A i \in RowsOf(u) : Present(u, i)' <=> Present(u, i)
  BY <1>1 DEF Present
<1>7. GoneIsEmpty'
  BY <1>1, <1>6 DEF Inv, GoneIsEmpty
<1>8. Covered'
  <2>1. job'[r].table = 1 /\ job'[r].step = "drop" /\ lock' # Nobody
    BY <1>1, <1>2, DatabaseAssumption DEF Starts
  <2>2. \A u \in Tables : ~(u < 1)
    BY DatabaseAssumption
  <2>3. \A u \in Tables : ~Reached(u)'
    BY <2>1, <2>2, <1>1 DEF Reached
  <2>4. QED BY <2>3 DEF Covered
<1>9. ASSUME ~cut PROVE NoGap'
  <2>1. \A q \in Requests, u \in Tables : \A i \in RowsOf(u) : ~Inserts(q, u, i)
    BY <1>1 DEF Inserts, At
  <2>2. \A u \in Tables : \A i, j \in RowsOf(u) :
          ~(j < i /\ Present(u, j) /\ ~Present(u, i))
    BY <2>1, <1>9 DEF Inv, NoGap
  <2>3. QED BY <2>2, <1>6 DEF NoGap
<1>10. ~surprised'
  BY <1>1 DEF Inv
<1>11. QED BY <1>1, <1>3, <1>4, <1>5, <1>7, <1>8, <1>9, <1>10 DEF Inv

-------------------------------------------------------------------------------
(* The statements of the lessons. *)

LEMMA QueryStep ==
  ASSUME Inv, NEW r \in Requests, NEW t \in Tables, Query(r, t)
  PROVE  Inv'
<1>1. /\ open /\ lock = Nobody
      /\ surprised' = (surprised \/ (~exists[t] /\ held[r] = "live" /\ ~Refreshing /\ ~cut))
      /\ UNCHANGED <<held, open, built, lock, job, exists, count, lost, cut, refreshes>>
  BY DEF Query, Inv, LockInv
<1>2. ASSUME ~cut PROVE exists[t] \/ Refreshing
  <2>1. exists[t] \/ \E q \in Requests : Creates(q, t)
    BY <1>1, <1>2 DEF Inv, Covered, Reached
  <2>2. ASSUME NEW q \in Requests, Creates(q, t) PROVE Refreshing
    <3>1. Active(q) /\ job[q].task # "idle"
      BY <2>2 DEF Creates, At, Active
    <3>2. job[q].task # "first"
      BY <1>1, DatabaseAssumption DEF Inv, LockInv
    <3>3. job[q].task = "refresh"
      BY <3>1, <3>2, JobIs DEF Inv
    <3>4. QED BY <3>1, <3>3 DEF Refreshing
  <2>3. QED BY <2>1, <2>2
<1>3. ~surprised'
  BY <1>1, <1>2 DEF Inv
<1>4. TypeOK'
  BY <1>1, <1>3 DEF Inv, TypeOK
<1>5. LockInv' /\ GoneIsEmpty'
  BY <1>1 DEF Inv, LockInv, GoneIsEmpty, Present, Active
<1>6. LoneInv'
  BY <1>1 DEF Inv, LoneInv, RowsBefore, NoRowsAfter, RowIsExact, Present, Active
<1>7. ~cut => Covered'
  BY <1>1 DEF Inv, Covered, Creates, Inserts, At, Active, Reached, Present
<1>8. ~cut => NoGap'
  BY <1>1 DEF Inv, NoGap, Inserts, At, Active, Present
<1>9. QED BY <1>1, <1>3, <1>4, <1>5, <1>6, <1>7, <1>8 DEF Inv

LEMMA DeleteStep ==
  ASSUME Inv, NEW r \in Requests, NEW t \in Tables, NEW k \in RowsOf(t), Delete(r, t, k)
  PROVE  Inv'
<1>1. /\ count[t][k] > 0
      /\ count' = [count EXCEPT ![t] = NoLonger(count[t], k)]
      /\ lost' = [lost EXCEPT ![t] = lost[t] \union {k}]
      /\ UNCHANGED <<held, open, built, lock, job, exists, cut, surprised, refreshes>>
  BY DEF Delete
<1>2. /\ DOMAIN count' = Tables /\ lost' \in [Tables -> SUBSET Nat]
      /\ \A u \in Tables : u # t => count'[u] = count[u] /\ lost'[u] = lost[u]
      /\ count'[t] = [count[t] EXCEPT ![k] = 0] /\ lost'[t] = lost[t] \union {k}
  <2>1. k \in Nat
    BY DatabaseAssumption
  <2>2. QED BY <2>1, <1>1 DEF Inv, TypeOK, NoLonger
<1>3. /\ count'[t] \in [RowsOf(t) -> Nat] /\ count'[t][k] = 0
      /\ \A i \in RowsOf(t) : i # k => count'[t][i] = count[t][i]
  <2>1. PICK f \in [RowsOf(t) -> Nat] : f = count[t]
    BY DEF Inv, TypeOK
  <2>2. count'[t] = [f EXCEPT ![k] = 0]
    BY <2>1, <1>2
  <2>3. /\ [f EXCEPT ![k] = 0] \in [RowsOf(t) -> Nat] /\ [f EXCEPT ![k] = 0][k] = 0
        /\ \A i \in RowsOf(t) : i # k => [f EXCEPT ![k] = 0][i] = f[i]
    BY <2>1
  <2>4. QED BY <2>1, <2>2, <2>3
<1>4. \A u \in Tables : \A i \in RowsOf(u) :
        /\ Present(u, i)' <=> Present(u, i)
        /\ RowIsExact(u, i) => RowIsExact(u, i)'
  <2>1. TAKE u \in Tables
  <2>2. TAKE i \in RowsOf(u)
  <2>3. CASE u = t /\ i = k
    BY <2>3, <1>1, <1>2, <1>3 DEF Present, RowIsExact
  <2>4. CASE u = t /\ i # k
    BY <2>4, <1>2, <1>3 DEF Present, RowIsExact
  <2>5. CASE u # t
    BY <2>5, <1>2 DEF Present, RowIsExact
  <2>6. QED BY <2>3, <2>4, <2>5
<1>5. TypeOK'
  <2>1. ASSUME NEW u \in Tables
        PROVE  /\ count'[u] \in [RowsOf(u) -> Nat]
               /\ u \in Keyed => \A i \in RowsOf(u) : count'[u][i] <= 1
    <3>1. CASE u # t
      BY <3>1, <1>2 DEF Inv, TypeOK
    <3>2. CASE u = t
      <4>1. ASSUME t \in Keyed, NEW i \in RowsOf(t) PROVE count'[t][i] <= 1
        <5>1. CASE i = k
          BY <5>1, <1>3
        <5>2. CASE i # k
          BY <4>1, <5>2, <1>3 DEF Inv, TypeOK
        <5>3. QED BY <5>1, <5>2
      <4>2. QED BY <3>2, <4>1, <1>3
    <3>3. QED BY <3>1, <3>2
  <2>2. QED BY <2>1, <1>1, <1>2 DEF Inv, TypeOK
<1>6. LockInv' /\ GoneIsEmpty'
  BY <1>1, <1>4 DEF Inv, LockInv, GoneIsEmpty, Active
<1>7. LoneInv'
  <2>1. \A q \in Requests : job[q].table \in Tables
    BY JobIs DEF Inv
  <2>2. \A q \in Requests : RowsBefore(q) => RowsBefore(q)'
    BY <1>1, <1>4 DEF RowsBefore
  <2>3. \A q \in Requests : NoRowsAfter(q) => NoRowsAfter(q)'
    BY <2>1, <1>1, <1>4 DEF NoRowsAfter
  <2>4. QED BY <2>2, <2>3, <1>1 DEF Inv, LoneInv, Active
<1>8. ~cut => Covered'
  BY <1>1, <1>4 DEF Inv, Covered, Creates, Inserts, At, Active, Reached
<1>9. ~cut => NoGap'
  BY <1>1, <1>4 DEF Inv, NoGap, Inserts, At, Active
<1>10. ~surprised'
  BY <1>1 DEF Inv
<1>11. QED BY <1>1, <1>5, <1>6, <1>7, <1>8, <1>9, <1>10 DEF Inv

(* A lesson fetches a connection, or lets it go. *)
LEMMA HoldStep ==
  ASSUME Inv, NEW r \in Requests, Connect(r) \/ Release(r)
  PROVE  Inv'
<1>1. /\ UNCHANGED <<open, built, lock, job, exists, count, lost, cut, surprised, refreshes>>
      /\ \E h \in {"no", "live"} : held' = [held EXCEPT ![r] = h]
      /\ held'[r] # "no" => open /\ lock = Nobody
  BY DEF Connect, Release, MayUse, Inv, TypeOK
<1>2. TypeOK'
  BY <1>1 DEF Inv, TypeOK
<1>3. LockInv'
  BY <1>1 DEF Inv, TypeOK, LockInv, Active
<1>4. GoneIsEmpty' /\ ~surprised'
  BY <1>1, EmptyStays DEF Inv
<1>5. LoneInv'
  BY <1>1 DEF Inv, LoneInv, RowsBefore, NoRowsAfter, RowIsExact, Present, Active
<1>6. ~cut => Covered' /\ NoGap'
  BY <1>1 DEF Inv, Covered, NoGap, Creates, Inserts, At, Active, Reached, Present
<1>7. QED BY <1>1, <1>2, <1>3, <1>4, <1>5, <1>6 DEF Inv

(* Only the jobs that are done are left, and they have nothing on the way. *)
LEMMA CloseStep ==
  ASSUME Inv, NEW r \in Requests, Close(r)
  PROVE  Inv'
<1>1. /\ open /\ lock = Nobody
      /\ cut' = (cut \/ \E q \in Requests : Active(q) /\ job[q].step # "done")
      /\ held' = [q \in Requests |-> IF q = r THEN "no"
                                     ELSE IF held[q] = "live" THEN "closed" ELSE held[q]]
      /\ job' = [q \in Requests |-> IF job[q].step = "done" THEN job[q] ELSE Idle]
      /\ UNCHANGED <<open, built, lock, exists, count, lost, surprised, refreshes>>
  BY DEF Close, Inv, LockInv
<1>2. Idle \in JobType /\ Idle.task = "idle" /\ Idle.step = "drop"
  <2>1. 1 \in Tables /\ 1 \in Nat \ {0}
    BY DatabaseAssumption
  <2>2. QED BY <2>1 DEF Idle, Job, JobType
<1>3. /\ job \in [Requests -> JobType] /\ job' \in [Requests -> JobType]
      /\ \A q \in Requests :
           \/ job[q].step = "done" /\ job'[q] = job[q]
           \/ job'[q].task = "idle" /\ job'[q].step = "drop"
  BY <1>1, <1>2 DEF Inv, TypeOK
<1>4. TypeOK'
  <2>1. \A q \in Requests : job'[q].step # "insert"
    BY <1>3
  <2>2. held' \in [Requests -> {"no", "live", "closed"}]
    BY <1>1 DEF Inv, TypeOK
  <2>3. cut' \in BOOLEAN
    BY <1>1 DEF Inv, TypeOK
  <2>4. QED BY <2>1, <2>2, <2>3, <1>1, <1>3 DEF Inv, TypeOK
<1>5. LockInv'
  BY <1>1, <1>3, DatabaseAssumption DEF Inv, LockInv, Active
<1>6. LoneInv'
  <2>1. SUFFICES ASSUME NEW q \in Requests, Active(q)', (job[q].alone)'
                 PROVE  /\ \A p \in Requests \ {q} : ~Active(p)'
                        /\ RowsBefore(q)'
                        /\ job'[q].step = "done"
    BY DEF LoneInv
  <2>2. job'[q] = job[q] /\ job[q].step = "done" /\ Active(q) /\ job[q].alone
    BY <2>1, <1>3 DEF Active
  <2>3. RowsBefore(q) /\ \A p \in Requests \ {q} : ~Active(p)
    BY <2>2 DEF Inv, LoneInv
  <2>4. \A p \in Requests \ {q} : ~Active(p)'
    BY <2>3, <1>3 DEF Active
  <2>5. RowsBefore(q)'
    BY <2>2, <2>3, <1>1 DEF RowsBefore, RowIsExact
  <2>6. QED BY <2>2, <2>4, <2>5
<1>7. GoneIsEmpty' /\ ~surprised'
  BY <1>1, EmptyStays DEF Inv
(* Where no job was under way, none had anything on the way. *)
<1>8. ASSUME ~cut' PROVE Covered' /\ NoGap'
  <2>1. Covered /\ NoGap /\ \A q \in Requests : Active(q) => job[q].step = "done"
    BY <1>1, <1>8 DEF Inv
  <2>2. \A q \in Requests, u \in Tables :
          ~Creates(q, u) /\ \A i \in RowsOf(u) : ~Inserts(q, u, i)
    BY <2>1 DEF Creates, Inserts, At
  <2>3. \A u \in Tables : exists[u] /\ \A i \in RowsOf(u) : Present(u, i)
    BY <2>1, <2>2, <1>1 DEF Covered, Reached
  <2>4. \A u \in Tables : exists'[u] /\ \A i \in RowsOf(u) : Present(u, i)'
    BY <2>3, <1>1 DEF Present
  <2>5. QED BY <2>4 DEF Covered, NoGap
<1>9. QED BY <1>1, <1>4, <1>5, <1>6, <1>7, <1>8 DEF Inv

-------------------------------------------------------------------------------
(* Every step, and what follows. *)

LEMMA InitInv == Init => Inv
<1>1. SUFFICES ASSUME Init PROVE Inv
  OBVIOUS
<1>2. Idle \in JobType /\ Idle.task = "idle" /\ Idle.step = "drop"
  <2>1. 1 \in Tables /\ 1 \in Nat \ {0}
    BY DatabaseAssumption
  <2>2. QED BY <2>1 DEF Idle, Job, JobType
<1>3. /\ job \in [Requests -> JobType]
      /\ \A r \in Requests : job[r].task = "idle" /\ job[r].step = "drop"
  BY <1>1, <1>2 DEF Init
<1>4. \A t \in Tables : \A i \in RowsOf(t) : count[t][i] = 0 /\ i \notin lost[t]
  BY <1>1 DEF Init
<1>5. TypeOK
  <2>1. \A t \in Tables : /\ count[t] \in [RowsOf(t) -> Nat]
                          /\ t \in Keyed => \A i \in RowsOf(t) : count[t][i] <= 1
    BY <1>1, <1>4 DEF Init
  <2>2. 0 \in 0 .. MaxRefreshes
    BY DatabaseAssumption
  <2>3. QED BY <1>1, <1>3, <2>1, <2>2 DEF Init, TypeOK
<1>6. \A t \in Tables : \A i \in RowsOf(t) : ~Present(t, i)
  BY <1>4 DEF Present
<1>7. LockInv /\ LoneInv /\ Covered
  BY <1>1, <1>3 DEF Init, LockInv, LoneInv, Covered, Active
<1>8. GoneIsEmpty /\ NoGap
  BY <1>6 DEF GoneIsEmpty, NoGap
<1>9. QED BY <1>1, <1>5, <1>7, <1>8 DEF Init, Inv

LEMMA NextInv == Inv /\ [Next]_vars => Inv'
<1>1. SUFFICES ASSUME Inv, [Next]_vars PROVE Inv'
  OBVIOUS
<1>2. CASE UNCHANGED vars
  <2>1. UNCHANGED <<held, open, built, lock, job, exists, count, lost, cut, surprised, refreshes>>
    BY <1>2 DEF vars
  <2>2. TypeOK' /\ LockInv' /\ GoneIsEmpty'
    BY <2>1, <1>1 DEF Inv, TypeOK, LockInv, GoneIsEmpty, Present, Active
  <2>3. LoneInv'
    BY <2>1, <1>1
       DEF Inv, LoneInv, RowsBefore, NoRowsAfter, RowIsExact, Present, Active
  <2>4. ~cut => Covered' /\ NoGap'
    BY <2>1, <1>1
       DEF Inv, Covered, NoGap, Creates, Inserts, At, Active, Reached, Present
  <2>5. QED BY <2>1, <2>2, <2>3, <2>4, <1>1 DEF Inv
<1>3. ASSUME NEW r \in Requests, Rebuild(r) PROVE Inv'
  BY <1>1, <1>3, DropStep, CreateStep, InsertStep, AbortStep, FinishStep DEF Rebuild
<1>4. ASSUME NEW r \in Requests, Use(r) PROVE Inv'
  BY <1>1, <1>4, FirstConnectionStep, RefreshStep, HoldStep, CloseStep,
     QueryStep, DeleteStep DEF Use
<1>5. QED BY <1>1, <1>2, <1>3, <1>4 DEF Next

LEMMA DatabaseInvariant == Spec => []Inv
BY InitInv, NextInv, PTL DEF Spec

(* Every variable keeps its type, and no table has a primary key twice. *)
THEOREM DatabaseTypes == Spec => []TypeOK
<1>1. Inv => TypeOK
  BY DEF Inv
<1>2. QED BY <1>1, DatabaseInvariant, PTL

(* When no makeDB is running, no table and no row is missing, whichever        *)
(* rebuilds (RandomLessonAdapter, RefreshDBScreen) overlapped and failed: only *)
(* a rebuild whose connection was closed under it (MultiLevelLogin2) leaves    *)
(* less, and the next one that runs alone makes up for it.                     *)
THEOREM WholeDatabase == Spec => []WholeAtRest
<1>1. Inv => WholeAtRest
  <2>1. SUFFICES ASSUME Inv, AtRest, ~cut, NEW t \in Tables
                 PROVE  exists[t] /\ \A i \in RowsOf(t) : Present(t, i)
    BY DEF WholeAtRest
  <2>2. open /\ \A r \in Requests : ~Active(r)
    BY <2>1 DEF AtRest
  <2>3. lock = Nobody
    BY <2>1, <2>2 DEF Inv, TypeOK, LockInv, Active
  <2>4. \A r \in Requests : ~Creates(r, t) /\ \A i \in RowsOf(t) : ~Inserts(r, t, i)
    BY <2>2 DEF Creates, Inserts, At
  <2>5. QED BY <2>1, <2>2, <2>3, <2>4 DEF Inv, Covered, Reached
<1>2. QED BY <1>1, DatabaseInvariant, PTL

(* CreateDB.makeDB, run by one thread at a time, restores each row once.       *)
THEOREM ExactRebuild == Spec => []LoneRebuildIsExact
<1>1. Inv => LoneRebuildIsExact
  BY DEF Inv, LoneInv, RowsBefore, RowIsExact, LoneRebuildIsExact, At
<1>2. QED BY <1>1, DatabaseInvariant, PTL

(* getConnection, synchronized, hands a connection out only once its tables    *)
(* are there: a query on a connection that is still open misses a table only   *)
(* while a later rebuild runs, or after one was cut off.  What else fails is a *)
(* query on a connection that MultiLevelLogin2 has closed since it was fetched. *)
THEOREM NoSurprise == Spec => []QueriesFindTables
<1>1. Inv => QueriesFindTables
  BY DEF Inv, QueriesFindTables
<1>2. QED BY <1>1, DatabaseInvariant, PTL

-------------------------------------------------------------------------------
(* The statements of a makeDB, one by one. *)
LEMMA StatementAdvances ==
  ASSUME Inv, NEW r \in Requests, Rebuild(r)
  PROVE  \/ ~Active(r)' /\ lock' # r
         \/ Further(job[r], job'[r])
         \/ At(r, "done") /\ refreshes' = refreshes + 1 /\ lock' # r
<1>. DEFINE t == job[r].table
<1>1. TypeOK /\ t \in Tables /\ t \in Nat /\ Rows[t] \in Nat /\ job[r].row \in Nat
      /\ job \in [Requests -> JobType]
  BY JobIs, DatabaseAssumption DEF Inv, TypeOK
<1>2. CASE Drop(r)
  <2>1. MovesTo(r, t, "create", 1)
    BY <1>1, <1>2, MovedMoves DEF Drop, Steps
  <2>. QED
    BY <1>1, <1>2, <2>1 DEF Drop, At, MovesTo, Further, StepNumber
<1>3. ASSUME NEW k \in 0 .. Rows[t], job' = Past(r, t, k), job[r].step \in {"create", "insert"},
             job[r].step = "insert" => k = job[r].row
      PROVE  Further(job[r], job'[r])
  <2>1. \/ MovesTo(r, t, "insert", k + 1)
        \/ MovesTo(r, t + 1, "drop", 1)
        \/ MovesTo(r, t, "done", 1)
    BY <1>1, <1>3, PastMoves
  <2>. QED
    BY <1>1, <1>3, <2>1 DEF MovesTo, Further, StepNumber
<1>4. CASE Create(r)
  BY <1>1, <1>3, <1>4 DEF Create, At
<1>5. CASE Insert(r)
  <2>1. job[r].row \in 0 .. Rows[t]
    BY <1>1, <1>5, JobIs DEF Insert, At
  <2>. QED
    BY <1>3, <1>5, <2>1 DEF Insert, At
<1>6. ASSUME job' = [job EXCEPT ![r] = Idle] PROVE ~Active(r)'
  <2>1. Idle.task = "idle"
    BY DEF Idle, Job
  <2>. QED
    BY <1>1, <1>6, <2>1 DEF Active
<1>7. CASE Abort(r)
  BY <1>6, <1>7, DatabaseAssumption DEF Abort
<1>8. CASE Finish(r)
  BY <1>6, <1>8, DatabaseAssumption DEF Finish
<1>. QED
  BY <1>2, <1>4, <1>5, <1>7, <1>8 DEF Rebuild

(* What another request does leaves a job at its place, or cuts it off. *)
LEMMA OthersLeaveJob ==
  ASSUME Inv, NEW r \in Requests, Active(r), NEW q \in Requests \ {r}, Use(q) \/ Rebuild(q)
  PROVE  SamePlace(job[r], job'[r]) \/ (~Active(r)' /\ lock' # r)
<1>1. TypeOK /\ open /\ job \in [Requests -> JobType]
  BY Running DEF Inv, TypeOK
<1>2. ASSUME NEW task \in {"first", "refresh"}, NEW refresh \in BOOLEAN,
             job' = Begun(q, task, refresh)
      PROVE  SamePlace(job[r], job'[r])
  <2>1. \A p \in Requests \ {q} : /\ job'[p].table = job[p].table
                                   /\ job'[p].step = job[p].step
                                   /\ job'[p].row = job[p].row
    BY <1>1, <1>2, BegunJobs, ZenonT(30)
  <2>. QED
    BY <2>1 DEF SamePlace
<1>3. ASSUME \/ \E t, s, k : job' = Moved(q, t, s, k)
             \/ job' = [job EXCEPT ![q] = Idle]
             \/ job' = job
      PROVE  SamePlace(job[r], job'[r])
  BY <1>1, <1>3 DEF Moved, SamePlace
<1>4. CASE Close(q)
  <2>1. /\ lock' = lock /\ lock = Nobody
        /\ job' = [p \in Requests |-> IF job[p].step = "done" THEN job[p] ELSE Idle]
    BY <1>4 DEF Close, Inv, LockInv
  <2>2. Idle.task = "idle"
    BY DEF Idle, Job
  <2>3. lock' # r
    BY <2>1, DatabaseAssumption
  <2>. QED
    BY <2>1, <2>2, <2>3 DEF SamePlace, Active
<1>5. CASE FirstConnection(q) \/ Refresh(q)
  BY <1>2, <1>5 DEF FirstConnection, Refresh
<1>6. ASSUME NEW t \in Tables, Query(q, t) \/ \E i \in RowsOf(t) : Delete(q, t, i)
      PROVE  SamePlace(job[r], job'[r])
  BY <1>3, <1>6 DEF Query, Delete
<1>9. CASE Connect(q) \/ Release(q)
  BY <1>3, <1>9 DEF Connect, Release
<1>7. CASE Drop(q) \/ Create(q) \/ Insert(q) \/ Abort(q)
  BY <1>3, <1>7 DEF Drop, Create, Insert, Past, Abort
<1>8. CASE Finish(q)
  BY <1>2, <1>3, <1>8 DEF Finish
<1>. QED
  BY <1>4, <1>5, <1>6, <1>7, <1>8, <1>9 DEF Use, Rebuild

(* A makeDB that has begun ends after at most its number of statements,        *)
(* complete or aborted or cut off, and the lock is not left behind, whatever   *)
(* the other requests, rebuilds and closed connections do.                     *)
THEOREM RebuildsAdvance == Spec => RebuildAdvances
<1>1. ASSUME Inv, [Next]_vars
      PROVE  [\A r \in Requests : Active(r) =>
                \/ ~Active(r)' /\ lock' # r
                \/ Further(job[r], job'[r])
                \/ At(r, "done") /\ refreshes' = refreshes + 1 /\ lock' # r
                \/ SamePlace(job[r], job'[r]) /\ ~Rebuild(r)]_vars
  <2>1. ASSUME NEW r \in Requests, Active(r), Next
        PROVE  \/ ~Active(r)' /\ lock' # r
               \/ Further(job[r], job'[r])
               \/ At(r, "done") /\ refreshes' = refreshes + 1 /\ lock' # r
               \/ SamePlace(job[r], job'[r]) /\ ~Rebuild(r)
    <3>1. CASE Rebuild(r)
      BY <1>1, <3>1, StatementAdvances
    <3>2. CASE ~Rebuild(r)
      <4>1. ~Use(r)
        BY <2>1 DEF Use, FirstConnection, Refresh, Connect, Release, Close, Query, Delete, MayUse
      <4>2. PICK q \in Requests \ {r} : Use(q) \/ Rebuild(q)
        BY <2>1, <3>2, <4>1 DEF Next
      <4>. QED
        BY <1>1, <2>1, <3>2, <4>2, OthersLeaveJob
    <3>. QED
      BY <3>1, <3>2
  <2>. QED
    BY <1>1, <2>1
<1>2. QED BY <1>1, DatabaseInvariant, PTL DEF Spec, RebuildAdvances
===============================================================================
