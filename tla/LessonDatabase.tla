---------------------------- MODULE LessonDatabase ----------------------------
(* The database of the lessons of one user: how it is opened and filled the    *)
(* first time (DatabaseUtilities.getConnection), and how it is dropped and     *)
(* filled again (CreateDB.makeDB) each time a stage is set or completed        *)
(* (RandomLessonAdapter) or the administrator refreshes it (RefreshDBScreen).  *)
(*                                                                             *)
(* A user has one Connection, kept by name in a static map: all requests of    *)
(* the user share it, and so do the browsers logged in under that name.        *)
(* getConnection is synchronized, and the first call fills the database before *)
(* it returns; the later rebuilds run outside any lock, statement by           *)
(* statement.  A statement is one step: the driver runs one at a time.         *)
(* One lesson (MultiLevelLogin2) closes the connection after each query: the   *)
(* next call opens another one, on the same database, but a request that has   *)
(* fetched the old one before goes on with that.                               *)
(*                                                                             *)
(* A table is the number of times each of its initial rows is in it.           *)
EXTENDS Naturals

CONSTANTS
  Requests,      \* the requests of the user, each in a thread of the container
  Last,          \* makeDB makes the tables 1 .. Last, in this order
  Rows,          \* the number of rows makeDB inserts in each table
  Keyed,         \* the tables declared with a primary key
  Strict,        \* the tables whose failed CREATE is thrown again (transactions)
  Losable,       \* the tables whose rows a lesson deletes (employee)
  MaxRefreshes   \* bound: the number of rebuilds after the first

Tables == 1 .. Last
RowsOf(t) == 1 .. Rows[t]
Nobody == "nobody"

ASSUME DatabaseAssumption ==
  /\ Last \in Nat \ {0}
  /\ Rows \in [Tables -> Nat]
  /\ Keyed \subseteq Tables
  /\ Strict \subseteq Tables
  /\ Losable \subseteq Tables
  /\ Nobody \notin Requests
  /\ MaxRefreshes \in Nat

VARIABLES
  open,       \* connections has a Connection for the user
  built,      \* dbBuilt has the user
  lock,       \* the request inside getConnection, filling the database
  held,       \* the connection a lesson of each request has fetched, if any
  job,        \* where each request is in makeDB
  exists,     \* the tables that exist
  count,      \* count[t][i]: how often row i is in table t
  lost,       \* history: the rows a lesson deleted since the table was dropped
  cut,        \* history: a rebuild was cut off, and none has run alone since
  surprised,  \* history: a query failed for no reason QueriesFindTables allows
  refreshes   \* history: the number of rebuilds started after the first

vars == <<held, open, built, lock, job, exists, count, lost, cut, surprised, refreshes>>

-------------------------------------------------------------------------------
(* A job: the task ("first" inside getConnection, "refresh" after it), whether *)
(* a refresh follows the first one, whether it has always been the only job,   *)
(* and the statement of makeDB that is next.                                   *)
Job(task, refresh, alone, table, step, row) ==
  [task |-> task, refresh |-> refresh, alone |-> alone,
   table |-> table, step |-> step, row |-> row]

Idle == Job("idle", FALSE, FALSE, 1, "drop", 1)

Active(r) == job[r].task # "idle"
At(r, step) == Active(r) /\ job[r].step = step

(* job[r] with the next statement changed. *)
Moved(r, table, step, row) ==
  [job EXCEPT ![r] =
     Job(job[r].task, job[r].refresh, job[r].alone, table, step, row)]

(* job with a new one of r, at its first DROP: it is alone only if no other    *)
(* runs, and the others are not alone any more.                                *)
Begun(r, task, refresh) ==
  [q \in Requests |->
     IF q = r
     THEN Job(task, refresh, \A p \in Requests \ {r} : ~Active(p), 1, "drop", 1)
     ELSE Job(job[q].task, job[q].refresh, FALSE,
              job[q].table, job[q].step, job[q].row)]

PastShort(r, t, row) ==
  IF row + 1 < Rows[t] THEN Moved(r, t, "insert", row + 1)
  ELSE IF t < Last THEN Moved(r, t + 1, "drop", 1)
  ELSE Moved(r, t, "done", 1)

(* job once row number `row` of table t is in, or t created if row = 0. *)
Past(r, t, row) ==
  IF row < Rows[t] THEN Moved(r, t, "insert", row + 1)
  ELSE IF t < Last THEN Moved(r, t + 1, "drop", 1)
  ELSE Moved(r, t, "done", 1)

Init ==
  /\ open = FALSE
  /\ built = FALSE
  /\ lock = Nobody
  /\ held = [r \in Requests |-> "no"]
  /\ job = [r \in Requests |-> Idle]
  /\ exists = [t \in Tables |-> FALSE]
  /\ count = [t \in Tables |-> [i \in RowsOf(t) |-> 0]]
  /\ lost = [t \in Tables |-> {}]
  /\ cut = FALSE /\ surprised = FALSE
  /\ refreshes = 0

-------------------------------------------------------------------------------
(* getConnection for a user without a connection: it is opened, registered,    *)
(* and the database filled under the lock.  The caller wants to query, or to   *)
(* run makeDB itself.                                                          *)
FirstConnection(r) ==
  /\ ~open /\ lock = Nobody /\ ~Active(r)
  /\ open' = TRUE
  /\ lock' = r
  /\ \E refresh \in BOOLEAN : job' = Begun(r, "first", refresh)
  /\ UNCHANGED <<held, built, exists, count, lost, cut, surprised, refreshes>>

(* RandomLessonAdapter.setStage, setStageComplete and RefreshDBScreen.refreshDB: *)
(* the registered connection is returned at once, and makeDB runs on it.         *)
Refresh(r) ==
  /\ open /\ lock = Nobody /\ ~Active(r)
  /\ refreshes < MaxRefreshes
  /\ refreshes' = refreshes + 1
  /\ job' = Begun(r, "refresh", FALSE)
  /\ UNCHANGED <<held, open, built, lock, exists, count, lost, cut, surprised>>

DropOrFail(r) ==
  /\ At(r, "drop")
  /\ IF exists[job[r].table]
     THEN /\ exists' = [exists EXCEPT ![job[r].table] = FALSE]
          /\ count' = [count EXCEPT ![job[r].table] = [i \in RowsOf(job[r].table) |-> 0]]
          /\ job' = Moved(r, job[r].table, "create", 1)
          /\ UNCHANGED lock
     ELSE /\ job' = [job EXCEPT ![r] = Idle]
          /\ lock' = IF lock = r THEN Nobody ELSE lock
          /\ UNCHANGED <<exists, count>>
  /\ UNCHANGED <<held, open, built, lost, cut, surprised, refreshes>>

(* DROP TABLE; the exception of a table that is not there is caught. *)
Drop(r) ==
  /\ At(r, "drop")
  /\ LET t == job[r].table IN
       /\ exists' = [exists EXCEPT ![t] = FALSE]
       /\ count' = [count EXCEPT ![t] = [i \in RowsOf(t) |-> 0]]
       /\ lost' = [lost EXCEPT ![t] = {}]
       /\ job' = Moved(r, t, "create", 1)
  /\ UNCHANGED <<held, open, built, lock, cut, surprised, refreshes>>

(* CREATE TABLE; the exception of a table that another rebuild created is      *)
(* caught, except for the strict tables.                                       *)
Create(r) ==
  /\ At(r, "create")
  /\ LET t == job[r].table IN
       /\ ~(exists[t] /\ t \in Strict)
       /\ exists' = [exists EXCEPT ![t] = TRUE]
       /\ job' = Past(r, t, 0)
  /\ UNCHANGED <<held, open, built, lock, count, lost, cut, surprised, refreshes>>

RefusedUnkeyed(t, i) == ~exists[t]

(* The row is refused: its table was dropped, or its key is taken. *)
Refused(t, i) == ~exists[t] \/ (t \in Keyed /\ count[t][i] > 0)

OnceMore(rows, i) == [rows EXCEPT ![i] = rows[i] + 1]

(* INSERT of the next row. *)
Insert(r) ==
  /\ At(r, "insert")
  /\ LET t == job[r].table
         i == job[r].row
     IN /\ ~Refused(t, i)
        /\ count' = [count EXCEPT ![t] = OnceMore(count[t], i)]
        /\ job' = Past(r, t, i)
  /\ UNCHANGED <<held, open, built, lock, exists, lost, cut, surprised, refreshes>>

FailsOnKeys(r) == At(r, "insert") /\ exists[job[r].table] /\ Refused(job[r].table, job[r].row)

(* The statements whose exception leaves makeDB. *)
Fails(r) ==
  LET t == job[r].table IN
  \/ At(r, "insert") /\ Refused(t, job[r].row)
  \/ At(r, "create") /\ t \in Strict /\ exists[t]

(* makeDB is left by an SQLException: nothing is undone, dbBuilt is not set. *)
Abort(r) ==
  /\ Fails(r)
  /\ job' = [job EXCEPT ![r] = Idle]
  /\ lock' = IF lock = r THEN Nobody ELSE lock
  /\ UNCHANGED <<held, open, built, exists, count, lost, cut, surprised, refreshes>>

(* makeDB returns.  The first one sets dbBuilt and leaves the lock, and its    *)
(* caller may go on with a rebuild of its own.                                 *)
Finish(r) ==
  /\ At(r, "done")
  /\ built' = (built \/ job[r].task = "first")
  /\ lock' = IF lock = r THEN Nobody ELSE lock
  /\ IF job[r].refresh /\ refreshes < MaxRefreshes
     THEN /\ job' = Begun(r, "refresh", FALSE)
          /\ refreshes' = refreshes + 1
     ELSE /\ job' = [job EXCEPT ![r] = Idle]
          /\ UNCHANGED refreshes
  /\ cut' = (cut /\ ~job[r].alone)
  /\ UNCHANGED <<held, open, exists, count, lost, surprised>>

MayUseUnlocked(r) == open /\ ~Active(r)

(* getConnection for a user with a connection: it waits for the lock. *)
MayUse(r) == open /\ lock = Nobody /\ ~Active(r)

(* A lesson fetches the connection, for its statements. *)
Connect(r) ==
  /\ MayUse(r) /\ held[r] = "no"
  /\ held' = [held EXCEPT ![r] = "live"]
  /\ UNCHANGED <<open, built, lock, job, exists, count, lost, cut, surprised, refreshes>>

Refreshing == \E q \in Requests : Active(q) /\ job[q].task = "refresh"

(* A SELECT on table t, on the connection fetched before: it fails if that has *)
(* been closed since, or if the table is not there.                            *)
Query(r, t) ==
  /\ held[r] # "no" /\ ~Active(r)
  /\ LET fails == held[r] = "closed" \/ ~exists[t] IN
       surprised' = (surprised \/ (fails /\ held[r] = "live" /\ ~Refreshing /\ ~cut))
  /\ UNCHANGED <<held, open, built, lock, job, exists, count, lost, cut, refreshes>>

NoLonger(rows, i) == [rows EXCEPT ![i] = 0]

(* A DELETE of the row with key i (DeleteProfile.deleteEmployeeProfile). *)
Delete(r, t, i) ==
  /\ held[r] = "live" /\ ~Active(r)
  /\ t \in Losable /\ exists[t] /\ count[t][i] > 0
  /\ count' = [count EXCEPT ![t] = NoLonger(count[t], i)]
  /\ lost' = [lost EXCEPT ![t] = lost[t] \union {i}]
  /\ UNCHANGED <<held, open, built, lock, job, exists, cut, surprised, refreshes>>

(* A lesson is done with the connection it has fetched. *)
Release(r) ==
  /\ held[r] # "no" /\ ~Active(r)
  /\ held' = [held EXCEPT ![r] = "no"]
  /\ UNCHANGED <<open, built, lock, job, exists, count, lost, cut, surprised, refreshes>>

(* MultiLevelLogin2 closes the connection it has queried (finally of getUser   *)
(* and others), and the next call of getConnection opens another.  Under each  *)
(* rebuild and each lesson that has it still, the next statement fails.        *)
Close(r) ==
  /\ held[r] = "live" /\ ~Active(r)
  /\ held' = [q \in Requests |-> IF q = r THEN "no"
                                 ELSE IF held[q] = "live" THEN "closed" ELSE held[q]]
  /\ job' = [q \in Requests |-> IF job[q].step = "done" THEN job[q] ELSE Idle]
  /\ cut' = (cut \/ \E q \in Requests : Active(q) /\ job[q].step # "done")
  /\ UNCHANGED <<open, built, lock, exists, count, lost, surprised, refreshes>>

Rebuild(r) == Drop(r) \/ Create(r) \/ Insert(r) \/ Abort(r) \/ Finish(r)

Use(r) == \/ FirstConnection(r)
          \/ Refresh(r)
          \/ Connect(r) \/ Release(r) \/ Close(r)
          \/ \E t \in Tables : Query(r, t) \/ \E i \in RowsOf(t) : Delete(r, t, i)

Next == \E r \in Requests : Use(r) \/ Rebuild(r)

(* A thread inside makeDB is scheduled again; requests come or do not. *)
Spec == Init /\ [][Next]_vars /\ \A r \in Requests : WF_vars(Rebuild(r))

-------------------------------------------------------------------------------
JobType ==
  [task : {"idle", "first", "refresh"}, refresh : BOOLEAN, alone : BOOLEAN,
   table : Tables, step : {"drop", "create", "insert", "done"}, row : Nat \ {0}]

(* The types; the row of an INSERT is a row of its table, and no primary key   *)
(* is there twice.                                                             *)
TypeOK ==
  /\ open \in BOOLEAN /\ built \in BOOLEAN
  /\ lock \in Requests \union {Nobody}
  /\ held \in [Requests -> {"no", "live", "closed"}]
  /\ job \in [Requests -> JobType]
  /\ \A r \in Requests : job[r].step = "insert" => job[r].row \in RowsOf(job[r].table)
  /\ exists \in [Tables -> BOOLEAN]
  /\ DOMAIN count = Tables
  /\ \A t \in Tables : /\ count[t] \in [RowsOf(t) -> Nat]
                       /\ t \in Keyed => \A i \in RowsOf(t) : count[t][i] <= 1
  /\ lost \in [Tables -> SUBSET Nat]
  /\ cut \in BOOLEAN /\ surprised \in BOOLEAN
  /\ refreshes \in 0 .. MaxRefreshes

Present(t, i) == count[t][i] > 0 \/ i \in lost[t]

AtRest == open /\ \A r \in Requests : ~Active(r)

(* When no rebuild runs, however many of them ran into each other and were     *)
(* aborted by each other's primary keys, every table is there with every row   *)
(* of the initial database that no lesson deleted since.  Only where another   *)
(* lesson closed the connection under a rebuild is this not so, until a        *)
(* rebuild has run alone.                                                      *)
WholeAtRest ==
  AtRest /\ ~cut => \A t \in Tables : exists[t] /\ \A i \in RowsOf(t) : Present(t, i)

(* A makeDB that ran alone leaves exactly the initial database, each row once, *)
(* but for the rows deleted under it: rebuilds that overlap may leave the rows *)
(* of a table without primary key twice.                                       *)
LoneRebuildIsExact ==
  \A r \in Requests :
    At(r, "done") /\ job[r].alone =>
      \A t \in Tables : \A i \in RowsOf(t) :
        IF i \in lost[t] THEN count[t][i] = 0 ELSE count[t][i] = 1

(* A query fails only while a rebuild of a running application is under way,   *)
(* or was cut off, or on a connection that the login lesson has closed since   *)
(* it was fetched: never because the database was opened and is being filled.  *)
QueriesFindTables == ~surprised

(* No makeDB hangs: each ends, complete or aborted, and the lock is released. *)
RebuildEnds ==
  \A r \in Requests : [](Active(r) => <>(~Active(r) /\ lock # r))

(* Statement k of makeDB comes after statement j. *)
StepNumber == [drop |-> 1, create |-> 2, insert |-> 3, done |-> 4]
Further(j, k) ==
  \/ j.table < k.table
  \/ /\ j.table = k.table
     /\ \/ StepNumber[j.step] < StepNumber[k.step]
        \/ j.step = "insert" /\ k.step = "insert" /\ j.row < k.row

SamePlace(j, k) == j.table = k.table /\ j.step = k.step /\ j.row = k.row

(* The part of RebuildEnds that is not about fairness: each statement of a     *)
(* makeDB takes it further, or out of makeDB and of the lock, and nothing      *)
(* other requests do sets it back.  Only a request that has ended one makeDB   *)
(* begins another, a bounded number of times.                                  *)
RebuildAdvances ==
  [][\A r \in Requests : Active(r) =>
       \/ ~Active(r)' /\ lock' # r
       \/ Further(job[r], job'[r])
       \/ At(r, "done") /\ refreshes' = refreshes + 1 /\ lock' # r
       \/ SamePlace(job[r], job'[r]) /\ ~Rebuild(r)]_vars
===============================================================================
