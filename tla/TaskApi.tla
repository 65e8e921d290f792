------------------------------ MODULE TaskApi ------------------------------
(***************************************************************************)
(* The task endpoints of the API (app/api/v1/tasks.py, and the deletion of *)
(* a project in app/api/v1/projects.py) as they run side by side in one    *)
(* event loop: every await of a handler ends a step.  A request reads and  *)
(* writes PostgreSQL under READ COMMITTED, purges and fills the Redis      *)
(* cache of task listings, hands jobs to Celery, and is committed by       *)
(* get_db only after its handler has returned.                             *)
(*                                                                         *)
(* tasks and projects are the committed rows; what a transaction has       *)
(* flushed and not committed is in pend, which also says which rows it has *)
(* locked.  A lock is held until the transaction ends, and who needs one   *)
(* that is held waits; PostgreSQL breaks a cycle of waiting transactions   *)
(* by aborting one of them.  raced, unpurged and excused are history       *)
(* variables: no action reads them, they only explain how a stale entry    *)
(* got into the cache.                                                     *)
(***************************************************************************)
EXTENDS TaskData

CONSTANTS
    Req,            \* the HTTP requests of a behaviour, each sent once
    Calls,          \* the calls that clients make
    Queries,        \* the filters of GET /tasks in use
    InitialTables,  \* the contents the task table may have at the start
    RedisMayFail,   \* a Redis command may raise
    BrokerMayFail,  \* .delay() may raise
    DbMayFail,      \* a transaction may be aborted at any point
    NoEntry, NoPending, NoCall

(* due is the set of details whose due date lies in the wanted window.     *)
QueryParams == [project: Project \cup {None}, status: Status \cup {None},
                assignee: User \cup {None}, due: SUBSET Detail]

CreateCall == [op: {"create"}, user: Active, row: Row]
UpdateCall == [op: {"update"}, user: Active, task: Task, data: UpdateData]
DeleteCall == [op: {"delete"}, user: Active, task: Task]
DropCall   == [op: {"drop"}, user: Active, project: Project]
ListCall   == [op: {"list"}, user: Active, query: Queries]

Call == CreateCall \cup UpdateCall \cup DeleteCall \cup DropCall \cup ListCall

ASSUME CallsAssumption == Calls \subseteq Call /\ Queries \subseteq QueryParams

(* Ids are integers, drawn from a sequence and locked in their order.      *)
ASSUME IdsAssumption == Task \subseteq Nat

ASSUME SwitchesAssumption ==
    RedisMayFail \in BOOLEAN /\ BrokerMayFail \in BOOLEAN /\ DbMayFail \in BOOLEAN

Item  == [id: Task, row: Row]
Entry == [total: Nat, items: SUBSET Item]
Key   == User \X Queries

ASSUME EntryAssumption == NoEntry \notin Entry

Pending == [kind: {"insert"}, task: Task, row: Row]
             \cup [kind: {"update"}, task: Task, changes: Changes]
             \cup [kind: {"delete"}, task: Task]
             \cup [kind: {"drop"}, project: Project, rows: SUBSET Task]

ASSUME PendingAssumption == NoPending \notin Pending

ASSUME TablesAssumption == InitialTables \subseteq [Task -> Row \cup {NoRow}]

Job == [kind: {"reassigned"}, task: Task, to: User, by: Req]
         \cup [kind: {"status"}, task: Task, to: User, old: Status,
               new: Status, by: Req]

Place == {"idle", "flush", "refresh", "rows", "cascade", "scan", "del",
          "dispatch", "commit", "count", "select", "fill", "ok", "failed"}

VARIABLES
    projects,   \* the committed projects
    tasks,      \* the committed task rows
    issued,     \* the task ids the sequence has handed out, never reused
    cache,      \* Redis: the listing stored for a user and a query
    queue,      \* the jobs Celery has accepted
    refused,    \* the jobs whose .delay() raised
    pc,         \* where each request is
    call,       \* what each request asks for
    loaded,     \* the row a writer read before it set any attribute
    seen,       \* the row a writer read back with refresh
    pend,       \* what a transaction has flushed and not committed
    left,       \* the rows that the deletion of a project has still to delete
    purge,      \* the users whose listings a writer has still to purge
    scan,       \* the keys that SCAN collected for the DEL that follows
    page,       \* the listing a GET is putting together or has returned
    raced,      \* history: GETs that overlapped an exposed writer of their user
    unpurged,   \* history: writers that failed to purge their user's listings
    excused     \* history: keys whose entry one of the above may have spoiled

table   == <<projects, tasks, issued>>
jobs    == <<queue, refused>>
writer  == <<loaded, seen, pend, left, purge, scan>>
history == <<raced, unpurged, excused>>
vars    == <<table, cache, jobs, pc, call, writer, page, history>>

-----------------------------------------------------------------------------
(* What a listing holds.                                                   *)

Owned(u) == {p \in projects : Owner[p] = u}

(* Mutant: a listing also shows the tasks assigned to the caller.          *)
MatchesAssigned(row, u, q) ==
    /\ row # NoRow
    /\ row.project \in Owned(u) \/ row.assignee = u
    /\ q.project \in {None, row.project}
    /\ q.status \in {None, row.status}
    /\ q.assignee \in {None, row.assignee}
    /\ row.detail \in q.due

Matches(row, u, q) ==
    /\ row # NoRow
    /\ row.project \in Owned(u)
    /\ q.project \in {None, row.project}
    /\ q.status \in {None, row.status}
    /\ q.assignee \in {None, row.assignee}
    /\ row.detail \in q.due

Matching(u, q) == {t \in Task : Matches(tasks[t], u, q)}

Items(u, q) == {[id |-> t, row |-> tasks[t]] : t \in Matching(u, q)}

Listing(u, q) == [total |-> Cardinality(Matching(u, q)), items |-> Items(u, q)]

-----------------------------------------------------------------------------
(* Rows and row locks.                                                     *)

TasksOf(p) == {t \in Task : tasks[t] # NoRow /\ tasks[t].project = p}

Writes(r, kind) == pend[r] # NoPending /\ pend[r].kind = kind

First(t, S) == t \in S /\ \A s \in S : t <= s

(* Mutant: a handler loads its row FOR SHARE, so two of them hold the row  *)
(* when either comes to upgrade its lock.                                  *)
LocksShared(r, t) ==
    \/ pc[r] = "flush" /\ call[r].op \in {"update", "delete"} /\ call[r].task = t
    \/ Writes(r, "update") /\ pend[r].task = t
    \/ Writes(r, "delete") /\ pend[r].task = t
    \/ Writes(r, "drop") /\ t \in pend[r].rows

(* An UPDATE or DELETE locks its row until the transaction ends.           *)
Locks(r, t) ==
    \/ Writes(r, "update") /\ pend[r].task = t
    \/ Writes(r, "delete") /\ pend[r].task = t
    \/ Writes(r, "drop") /\ t \in pend[r].rows

Locked(r, t) == \E s \in Req \ {r} : Locks(s, t)

(* Mutant: no foreign key makes an INSERT wait for the DELETE.             *)
DroppedUnseen(r, p) == FALSE

(* An INSERT of a task and a DELETE of its project exclude each other by   *)
(* the lock its foreign key takes on the row of the project.               *)
Drops(s, p) ==
    /\ Writes(s, "drop") /\ pend[s].project = p
    /\ pc[s] \in {"cascade", "commit"}

Dropped(r, p)  == \E s \in Req \ {r} : Drops(s, p)
Extended(r, p) == \E s \in Req \ {r} : Writes(s, "insert") /\ pend[s].row.project = p

-----------------------------------------------------------------------------
(* Writers: the reads and checks at the head of a handler.                 *)

OwnsTask(u, t) == tasks[t] # NoRow /\ tasks[t].project \in Owned(u)

Begin(r, c, accepted, row) ==
    /\ pc[r] = "idle"
    /\ call' = [call EXCEPT ![r] = c]
    /\ \/ /\ accepted
          /\ loaded' = [loaded EXCEPT ![r] = row]
          /\ pc' = [pc EXCEPT ![r] = "flush"]
       \/ /\ ~accepted
          /\ pc' = [pc EXCEPT ![r] = "failed"]
          /\ UNCHANGED loaded
    /\ UNCHANGED <<table, cache, jobs, seen, pend, left, purge, scan, page, history>>

(* Mutant: create_task does not look the assignee up.                      *)
BeginCreateUnchecked(r, c) ==
    /\ c.op = "create"
    /\ Begin(r, c, c.row.project \in Owned(c.user), [c.row EXCEPT !.assignee = None])

(* A new task has had no assignee before: the row it is compared with is   *)
(* its own, unassigned.                                                    *)
BeginCreate(r, c) ==
    /\ c.op = "create"
    /\ Begin(r, c, c.row.project \in Owned(c.user) /\ MayAssign(c.row.assignee),
             [c.row EXCEPT !.assignee = None])

BeginUpdate(r, c) ==
    /\ c.op = "update"
    /\ Begin(r, c, OwnsTask(c.user, c.task)
                     /\ (c.data.assignee = Unset \/ MayAssign(c.data.assignee)),
             tasks[c.task])

BeginDelete(r, c) ==
    /\ c.op = "delete"
    /\ Begin(r, c, OwnsTask(c.user, c.task), tasks[c.task])

BeginDrop(r, c) ==
    /\ c.op = "drop"
    /\ Begin(r, c, c.project \in Owned(c.user), NoRow)

-----------------------------------------------------------------------------
(* Writers: from the flush to the commit.                                  *)

Fail(r) == pc' = [pc EXCEPT ![r] = "failed"] /\ UNCHANGED pend

(* Mutant: purges for whoever is not the caller, nobody included.          *)
OthersOrNobody(u, a) == IF a = u THEN <<>> ELSE <<a>>

(* Whose listings to purge: the caller's, then those of the old and of the *)
(* new assignee if the assignment has changed.                             *)
Others(u, a) == IF a \in {None, u} THEN <<>> ELSE <<a>>

(* Mutant: purges the listings of the assignee instead of the caller's.    *)
PurgeListOfAssignee(u, old, new) == <<IF new = None THEN u ELSE new>>

PurgeList(u, old, new) ==
    <<u>> \o (IF old = new THEN <<>> ELSE Others(u, old) \o Others(u, new))

(* db.add and flush: the id comes from the sequence, the foreign key waits *)
(* for a DELETE of the project and fails once it is committed.  The        *)
(* refresh reads back the transaction's own row.                           *)
CreateFlush(r) ==
    /\ pc[r] = "flush" /\ call[r].op = "create"
    /\ LET row == call[r].row
       IN  /\ ~Dropped(r, row.project)
           /\ \/ /\ row.project \notin projects
                 /\ Fail(r)
                 /\ UNCHANGED <<issued, seen, purge>>
              \/ /\ row.project \in projects
                 /\ \E t \in Task \ issued :
                       /\ First(t, Task \ issued)
                       /\ issued' = issued \cup {t}
                       /\ pend' = [pend EXCEPT ![r] =
                                     [kind |-> "insert", task |-> t, row |-> row]]
                 /\ seen' = [seen EXCEPT ![r] = row]
                 /\ purge' = [purge EXCEPT ![r] =
                                PurgeList(call[r].user, None, row.assignee)]
                 /\ pc' = [pc EXCEPT ![r] = "scan"]
    /\ UNCHANGED <<projects, tasks, cache, jobs, call, loaded, left, scan, page,
                   history>>

(* A PATCH that differs in nothing from the loaded row sends no UPDATE.    *)
(* One that does waits for the row's lock; it fails if the row is gone     *)
(* (StaleDataError) or if it sets the status to null.                      *)
UpdateFlush(r) ==
    /\ pc[r] = "flush" /\ call[r].op = "update"
    /\ LET t == call[r].task
           c == Differing(call[r].data, loaded[r])
       IN  \/ /\ c = NoChange
              /\ pc' = [pc EXCEPT ![r] = "refresh"]
              /\ UNCHANGED pend
           \/ /\ c # NoChange
              /\ ~Locked(r, t)
              /\ IF tasks[t] = NoRow \/ c.status = None
                 THEN Fail(r)
                 ELSE /\ pend' = [pend EXCEPT ![r] =
                                    [kind |-> "update", task |-> t, changes |-> c]]
                      /\ pc' = [pc EXCEPT ![r] = "refresh"]
    /\ UNCHANGED <<table, cache, jobs, call, loaded, seen, left, purge, scan,
                   page, history>>

(* A SELECT of its own: it sees what others have committed since the row   *)
(* was loaded, under the transaction's own changes.                        *)
UpdateRefresh(r) ==
    /\ pc[r] = "refresh"
    /\ LET t   == call[r].task
           c   == IF pend[r] = NoPending THEN NoChange ELSE pend[r].changes
           row == Apply(tasks[t], c)
       IN  \/ /\ tasks[t] = NoRow
              /\ Fail(r)
              /\ UNCHANGED <<seen, purge>>
           \/ /\ tasks[t] # NoRow
              /\ seen' = [seen EXCEPT ![r] = row]
              /\ purge' = [purge EXCEPT ![r] =
                             PurgeList(call[r].user, loaded[r].assignee, row.assignee)]
              /\ pc' = [pc EXCEPT ![r] = "scan"]
              /\ UNCHANGED pend
    /\ UNCHANGED <<table, cache, jobs, call, loaded, left, scan, page, history>>

(* Deleting a row that is already gone only logs a warning.                *)
DeleteFlush(r) ==
    /\ pc[r] = "flush" /\ call[r].op = "delete"
    /\ ~Locked(r, call[r].task)
    /\ pend' = [pend EXCEPT ![r] = [kind |-> "delete", task |-> call[r].task]]
    /\ purge' = [purge EXCEPT ![r] = <<call[r].user>>]
    /\ pc' = [pc EXCEPT ![r] = "scan"]
    /\ UNCHANGED <<table, cache, jobs, call, loaded, seen, left, scan, page, history>>

(* GETs of user u between their first query and their write to the cache.  *)
Racing(u) == {g \in Req : pc[g] \in {"select", "fill"} /\ call[g].user = u}

(* db.delete loads the tasks of the project, for the ORM to delete them    *)
(* with it.                                                                *)
DropLoad(r) ==
    /\ pc[r] = "flush" /\ call[r].op = "drop"
    /\ LET p == call[r].project
       IN  /\ left' = [left EXCEPT ![r] = TasksOf(p)]
           /\ pend' = [pend EXCEPT ![r] =
                         [kind |-> "drop", project |-> p, rows |-> {}]]
    /\ pc' = [pc EXCEPT ![r] = "rows"]
    /\ UNCHANGED <<table, cache, jobs, call, loaded, seen, purge, scan, page, history>>

(* One row is deleted, or is gone already and matches nothing.             *)
Take(r, t) ==
    /\ t \in left[r] /\ ~Locked(r, t)
    /\ pend' = [pend EXCEPT ![r] =
                  [kind |-> "drop", project |-> call[r].project,
                   rows |-> pend[r].rows \cup ({t} \cap TasksOf(call[r].project))]]

(* What the cascade has still to delete.  After the last row the request   *)
(* goes straight to the commit: delete_project never touches the cache.    *)
Remaining(r, rest) ==
    /\ left' = [left EXCEPT ![r] = rest]
    /\ IF rest = {}
       THEN /\ pc' = [pc EXCEPT ![r] = "commit"]
            /\ raced' = raced \cup Racing(call[r].user)
       ELSE /\ pc' = [pc EXCEPT ![r] = "cascade"]
            /\ UNCHANGED raced

(* The flush: a DELETE of each loaded task, in the order of their ids.     *)
DeleteRow(r) ==
    /\ pc[r] = "rows"
    /\ \E t \in left[r] :
          /\ First(t, left[r])
          /\ Take(r, t)
          /\ left' = [left EXCEPT ![r] = @ \ {t}]
    /\ UNCHANGED <<table, cache, jobs, pc, call, loaded, seen, purge, scan, page,
                   history>>

(* The DELETE of the project itself, which its foreign key extends to the  *)
(* tasks that have been committed since they were loaded.                  *)
DropProject(r) ==
    /\ pc[r] = "rows" /\ left[r] = {}
    /\ ~Dropped(r, call[r].project) /\ ~Extended(r, call[r].project)
    /\ Remaining(r, TasksOf(call[r].project) \ pend[r].rows)
    /\ UNCHANGED <<table, cache, jobs, call, loaded, seen, pend, purge, scan, page,
                   unpurged, excused>>

(* The cascade deletes them in the order in which it comes upon them.      *)
CascadeRow(r) ==
    /\ pc[r] = "cascade"
    /\ \E t \in left[r] : Take(r, t) /\ Remaining(r, left[r] \ {t})
    /\ UNCHANGED <<table, cache, jobs, call, loaded, seen, purge, scan, page,
                   unpurged, excused>>

(* What update_task and create_task hand to Celery: a job to the assignee  *)
(* if that is somebody new, and one about a status that is not the one the *)
(* request had loaded.                                                     *)
TargetOf(r) == IF call[r].op = "create" THEN pend[r].task ELSE call[r].task

(* Mutant: a change of status is announced only if the task is assigned.   *)
JobsIfAssigned(r) ==
    LET u == call[r].user
        old == loaded[r]
        new == seen[r]
    IN  IF new = NoRow \/ new.assignee = None THEN {} ELSE
        {j \in {[kind |-> "reassigned", task |-> TargetOf(r), to |-> new.assignee,
                 by |-> r]} : new.assignee \notin {old.assignee, u}}
        \cup
        {j \in {[kind |-> "status", task |-> TargetOf(r), old |-> old.status,
                 new |-> new.status, by |-> r, to |-> new.assignee]} :
                 new.status # old.status}

Jobs(r) ==
    LET u == call[r].user
        old == loaded[r]
        new == seen[r]
    IN  IF new = NoRow THEN {} ELSE
        {j \in {[kind |-> "reassigned", task |-> TargetOf(r), to |-> new.assignee,
                 by |-> r]} : new.assignee \notin {old.assignee, None, u}}
        \cup
        {j \in {[kind |-> "status", task |-> TargetOf(r), old |-> old.status,
                 new |-> new.status, by |-> r,
                 to |-> IF new.assignee = None THEN u ELSE new.assignee]} :
                 new.status # old.status}

(* The next user whose listings to purge, or on to the jobs if there are   *)
(* any and to the commit if not.                                           *)
AfterPurge(r) ==
    /\ purge' = [purge EXCEPT ![r] = Tail(purge[r])]
    /\ pc' = [pc EXCEPT ![r] = IF Len(purge[r]) > 1 THEN "scan"
                               ELSE IF Jobs(r) # {} THEN "dispatch" ELSE "commit"]

Target(r) == Head(purge[r])

OwnPurge(r) == Target(r) = call[r].user

(* SCAN MATCH.  It promises the keys present from its start to its end;    *)
(* the ones written meanwhile may be missed, so it is one step at its      *)
(* start.                                                                  *)
Scan(r) ==
    /\ pc[r] = "scan"
    /\ LET keys == {k \in Key : k[1] = Target(r) /\ cache[k] # NoEntry}
       IN  IF keys = {}
           THEN AfterPurge(r) /\ UNCHANGED scan
           ELSE /\ scan' = [scan EXCEPT ![r] = keys]
                /\ pc' = [pc EXCEPT ![r] = "del"]
                /\ UNCHANGED purge
    /\ raced' = IF OwnPurge(r) THEN raced \cup Racing(call[r].user) ELSE raced
    /\ UNCHANGED <<table, cache, jobs, call, loaded, seen, pend, left, page,
                   unpurged, excused>>

Del(r) ==
    /\ pc[r] = "del"
    /\ cache' = [k \in Key |-> IF k \in scan[r] THEN NoEntry ELSE cache[k]]
    /\ excused' = excused \ scan[r]
    /\ scan' = [scan EXCEPT ![r] = {}]
    /\ AfterPurge(r)
    /\ UNCHANGED <<table, jobs, call, loaded, seen, pend, left, page, raced, unpurged>>

(* invalidate_user_tasks_cache logs an error of either command and goes on.*)
PurgeFails(r) ==
    /\ RedisMayFail
    /\ pc[r] \in {"scan", "del"}
    /\ scan' = [scan EXCEPT ![r] = {}]
    /\ AfterPurge(r)
    /\ raced' = IF OwnPurge(r) THEN raced \cup Racing(call[r].user) ELSE raced
    /\ unpurged' = IF OwnPurge(r) THEN unpurged \cup {r} ELSE unpurged
    /\ UNCHANGED <<table, cache, jobs, call, loaded, seen, pend, left, page, excused>>

(* Each .delay() is a synchronous call in a try of its own, with no await  *)
(* between them: one step, some of the jobs perhaps refused.               *)
Dispatch(r) ==
    /\ pc[r] = "dispatch"
    /\ \E lost \in SUBSET Jobs(r) :
          /\ lost = {} \/ BrokerMayFail
          /\ queue' = queue \cup (Jobs(r) \ lost)
          /\ refused' = refused \cup lost
    /\ pc' = [pc EXCEPT ![r] = "commit"]
    /\ UNCHANGED <<table, cache, call, writer, page, history>>

(* get_db commits once the handler has returned and its response is built. *)
Committed(w) ==
    CASE w.kind = "insert" -> [tasks EXCEPT ![w.task] = w.row]
      [] w.kind = "update" -> [tasks EXCEPT ![w.task] = Apply(@, w.changes)]
      [] w.kind = "delete" -> [tasks EXCEPT ![w.task] = NoRow]
      [] w.kind = "drop"   -> [t \in Task |-> IF t \in w.rows THEN NoRow ELSE tasks[t]]

Commit(r) ==
    /\ pc[r] = "commit"
    /\ \/ /\ pend[r] = NoPending
          /\ UNCHANGED <<projects, tasks>>
       \/ /\ pend[r] # NoPending
          /\ tasks' = Committed(pend[r])
          /\ projects' = IF pend[r].kind = "drop"
                         THEN projects \ {pend[r].project} ELSE projects
    /\ pend' = [pend EXCEPT ![r] = NoPending]
    /\ pc' = [pc EXCEPT ![r] = "ok"]
    /\ excused' = IF r \in unpurged \/ call[r].op = "drop"
                  THEN excused \cup {k \in Key : k[1] = call[r].user} ELSE excused
    /\ UNCHANGED <<issued, cache, jobs, call, loaded, seen, left, purge, scan, page,
                   raced, unpurged>>

InFlight(r) == pc[r] \notin {"idle", "ok", "failed"}

(* Mutant: get_db neither rolls back nor closes its session.               *)
UndoForgotten(r) ==
    /\ pc' = [pc EXCEPT ![r] = "failed"]
    /\ UNCHANGED <<table, cache, jobs, call, writer, page, history>>

(* The except branch of get_db.  What the request did to Redis and to the  *)
(* broker stays done.                                                      *)
Undo(r) ==
    /\ pend' = [pend EXCEPT ![r] = NoPending]
    /\ left' = [left EXCEPT ![r] = {}]
    /\ pc' = [pc EXCEPT ![r] = "failed"]
    /\ UNCHANGED <<table, cache, jobs, call, loaded, seen, purge, scan, page, history>>

(* An error of the database, or the end of the process: get_db or the      *)
(* server rolls the transaction back.                                      *)
Rollback(r) == DbMayFail /\ InFlight(r) /\ Undo(r)

(* r waits for a lock that s has.                                          *)
WaitsFor(r, s) ==
    /\ r # s
    /\ \/ /\ pc[r] = "flush" /\ call[r].op = "create"
          /\ Drops(s, call[r].row.project)
       \/ /\ pc[r] = "flush" /\ call[r].op = "update"
          /\ Differing(call[r].data, loaded[r]) # NoChange
          /\ Locks(s, call[r].task)
       \/ pc[r] = "flush" /\ call[r].op = "delete" /\ Locks(s, call[r].task)
       \/ pc[r] = "rows" /\ \E t \in left[r] : First(t, left[r]) /\ Locks(s, t)
       \/ /\ pc[r] = "rows" /\ left[r] = {}
          /\ \/ Drops(s, call[r].project)
             \/ Writes(s, "insert") /\ pend[s].row.project = call[r].project
       \/ /\ pc[r] = "cascade" /\ \A t \in left[r] : Locked(r, t)
          /\ \E t \in left[r] : Locks(s, t)

(* Requests that wait for each other.                                      *)
Deadlocked(S) == S # {} /\ \A r \in S : \E s \in S : WaitsFor(r, s)

Victim(r) ==
    \E S \in SUBSET Req : /\ r \in S /\ Deadlocked(S)
                          /\ \A T \in SUBSET S : Deadlocked(T) => T = S

(* PostgreSQL aborts one of a cycle.                                       *)
BreakDeadlock(r) == Victim(r) /\ Undo(r)

-----------------------------------------------------------------------------
(* GET /tasks: cache-aside, in two queries under READ COMMITTED.           *)

KeyOf(r) == <<call[r].user, call[r].query>>

(* The cache read; an error of Redis counts as a miss.                     *)
BeginList(r, c) ==
    /\ c.op = "list"
    /\ pc[r] = "idle"
    /\ call' = [call EXCEPT ![r] = c]
    /\ LET entry == cache[<<c.user, c.query>>]
       IN  \/ /\ entry # NoEntry
              /\ page' = [page EXCEPT ![r] = entry]
              /\ pc' = [pc EXCEPT ![r] = "ok"]
           \/ /\ entry = NoEntry \/ RedisMayFail
              /\ pc' = [pc EXCEPT ![r] = "count"]
              /\ UNCHANGED page
    /\ UNCHANGED <<table, cache, jobs, writer, history>>

(* A writer that has purged, or failed to purge, its user's listings and   *)
(* has not yet committed.                                                  *)
Exposed(w) ==
    \/ pc[w] \in {"del", "dispatch", "commit"}
    \/ pc[w] = "scan" /\ ~OwnPurge(w)

Count(r) ==
    /\ pc[r] = "count"
    /\ page' = [page EXCEPT ![r] =
                  [total |-> Cardinality(Matching(call[r].user, call[r].query)),
                   items |-> {}]]
    /\ pc' = [pc EXCEPT ![r] = "select"]
    /\ raced' = IF \E w \in Req : Exposed(w) /\ call[w].user = call[r].user
                THEN raced \cup {r} ELSE raced
    /\ UNCHANGED <<table, cache, jobs, call, writer, unpurged, excused>>

Select(r) ==
    /\ pc[r] = "select"
    /\ page' = [page EXCEPT ![r] =
                  [total |-> page[r].total,
                   items |-> Items(call[r].user, call[r].query)]]
    /\ pc' = [pc EXCEPT ![r] = "fill"]
    /\ UNCHANGED <<table, cache, jobs, call, writer, history>>

(* SET with a time to live.  The response is returned either way, and the  *)
(* commit of a transaction that has only read does nothing.                *)
Fill(r) ==
    /\ pc[r] = "fill"
    /\ cache' = [cache EXCEPT ![KeyOf(r)] = page[r]]
    /\ excused' = IF r \in raced THEN excused \cup {KeyOf(r)}
                                 ELSE excused \ {KeyOf(r)}
    /\ pc' = [pc EXCEPT ![r] = "ok"]
    /\ UNCHANGED <<table, jobs, call, writer, page, raced, unpurged>>

FillFails(r) ==
    /\ RedisMayFail
    /\ pc[r] = "fill"
    /\ pc' = [pc EXCEPT ![r] = "ok"]
    /\ UNCHANGED <<table, cache, jobs, call, writer, page, history>>

(* The time to live of an entry has passed.                                *)
Expire(k) ==
    /\ cache[k] # NoEntry
    /\ cache' = [cache EXCEPT ![k] = NoEntry]
    /\ excused' = excused \ {k}
    /\ UNCHANGED <<table, jobs, pc, call, writer, page, raced, unpurged>>

-----------------------------------------------------------------------------
EmptyPage == [total |-> 0, items |-> {}]

Init ==
    /\ projects = Project
    /\ tasks \in InitialTables
    /\ issued = {t \in Task : tasks[t] # NoRow}
    /\ cache = [k \in Key |-> NoEntry]
    /\ queue = {} /\ refused = {}
    /\ pc = [r \in Req |-> "idle"]
    /\ call = [r \in Req |-> NoCall]
    /\ loaded = [r \in Req |-> NoRow]
    /\ seen = [r \in Req |-> NoRow]
    /\ pend = [r \in Req |-> NoPending]
    /\ left = [r \in Req |-> {}]
    /\ purge = [r \in Req |-> <<>>]
    /\ scan = [r \in Req |-> {}]
    /\ page = [r \in Req |-> EmptyPage]
    /\ raced = {} /\ unpurged = {} /\ excused = {}

Arrive(r) ==
    \E c \in Calls :
        \/ BeginCreate(r, c)
        \/ BeginUpdate(r, c)
        \/ BeginDelete(r, c)
        \/ BeginDrop(r, c)
        \/ BeginList(r, c)

Flush(r) == CreateFlush(r) \/ UpdateFlush(r) \/ DeleteFlush(r) \/ DropLoad(r)

Deletion(r) == DeleteRow(r) \/ DropProject(r) \/ CascadeRow(r)

(* What a request does on its own once it has arrived.                     *)
Proceed(r) ==
    \/ Flush(r)
    \/ UpdateRefresh(r)
    \/ Deletion(r)
    \/ Scan(r) \/ Del(r) \/ PurgeFails(r)
    \/ Dispatch(r)
    \/ Commit(r)
    \/ Count(r) \/ Select(r) \/ Fill(r) \/ FillFails(r)

Next ==
    \/ \E r \in Req : Arrive(r) \/ Proceed(r) \/ Rollback(r) \/ BreakDeadlock(r)
    \/ \E k \in Key : Expire(k)

Spec == Init /\ [][Next]_vars

(* The event loop runs every handler that is ready, PostgreSQL grants a    *)
(* lock that is free and looks for deadlocks; nothing is assumed of        *)
(* clients, of failures or of the time that entries live in Redis.         *)
Fairness ==
    /\ \A r \in Req : WF_vars(Proceed(r))
    /\ WF_vars(\E r \in Req : BreakDeadlock(r))

FairSpec == Spec /\ Fairness
-----------------------------------------------------------------------------
(* Properties.                                                             *)

(* Every variable stays in its set: the one shallow property, on which the *)
(* others and their proofs rest.                                           *)
TypeOK ==
    /\ projects \subseteq Project
    /\ tasks \in [Task -> Row \cup {NoRow}]
    /\ issued \subseteq Task
    /\ cache \in [Key -> Entry \cup {NoEntry}]
    /\ queue \subseteq Job
    /\ refused \subseteq Job
    /\ pc \in [Req -> Place]
    /\ call \in [Req -> Call \cup {NoCall}]
    /\ loaded \in [Req -> Row \cup {NoRow}]
    /\ seen \in [Req -> Row \cup {NoRow}]
    /\ pend \in [Req -> Pending \cup {NoPending}]
    /\ left \in [Req -> SUBSET Task]
    /\ purge \in [Req -> Seq(User)]
    /\ scan \in [Req -> SUBSET Key]
    /\ page \in [Req -> Entry]
    /\ raced \subseteq Req
    /\ unpurged \subseteq Req
    /\ excused \subseteq Key

(* A user is never served a task of somebody else's project: what the cache*)
(* holds for a user lies in that user's projects, although the ownership   *)
(* check, the queries and the write to the cache are steps apart.          *)
TenantIsolation ==
    \A k \in Key : cache[k] # NoEntry =>
        \A i \in cache[k].items : Owner[i.row.project] = k[1]

(* The cache is stale for three reasons only: the GET that filled the entry*)
(* overlapped a writer of its user between the writer's purge and commit,  *)
(* a purge failed, or a project was deleted.  Any other entry is what      *)
(* list_tasks returns now, count and items both.                           *)
StaleOnlyIfExcused ==
    \A k \in Key : cache[k] # NoEntry /\ k \notin excused =>
        cache[k] = Listing(k[1], k[2])

(* No committed task without its project: an INSERT racing the deletion of *)
(* the project it checked a few awaits earlier cannot leave an orphan.     *)
ReferentialIntegrity ==
    \A t \in Task : tasks[t] # NoRow => tasks[t].project \in projects

(* A row changes only when a request of the owner of its project commits,  *)
(* and then only as that request asked: a PATCH leaves the fields it does  *)
(* not set as it finds them, whoever has written them since it loaded the  *)
(* row.                                                                    *)
Asked(c, t) ==
    \/ /\ c.op = "create" /\ tasks[t] = NoRow /\ tasks'[t] = c.row
       /\ Owner[c.row.project] = c.user
    \/ /\ c.op = "update" /\ c.task = t /\ tasks[t] # NoRow /\ tasks'[t] # NoRow
       /\ Owner[tasks[t].project] = c.user
       /\ tasks'[t].project = tasks[t].project
       /\ tasks'[t].status \in {tasks[t].status, c.data.status}
       /\ tasks'[t].assignee \in {tasks[t].assignee, c.data.assignee}
       /\ tasks'[t].detail \in {tasks[t].detail, c.data.detail}
    \/ /\ c.op = "delete" /\ c.task = t /\ tasks'[t] = NoRow
       /\ Owner[tasks[t].project] = c.user
    \/ /\ c.op = "drop" /\ tasks'[t] = NoRow
       /\ tasks[t].project = c.project /\ Owner[c.project] = c.user

OnlyAsAsked ==
    [][\A t \in Task : tasks'[t] # tasks[t] =>
          \E r \in Req : pc[r] = "commit" /\ pc'[r] = "ok" /\ Asked(call[r], t)]_vars

(* A change of status, or an assignment to somebody other than the owner,  *)
(* is committed only after its own request has called .delay() with a job  *)
(* that names the new value and the right recipient: the only              *)
(* notifications lost are those the broker refused.                        *)
Committing(r) == pc[r] = "commit" /\ pc'[r] = "ok"

ChangesAreAnnounced ==
    [][\A t \in Task :
          /\ tasks'[t] # NoRow
          /\ tasks'[t] # tasks[t]
          => LET new == tasks'[t]
                 owner == Owner[new.project]
             IN  /\ tasks[t] # NoRow /\ tasks[t].status # new.status =>
                       \E j \in queue \cup refused :
                          /\ j.kind = "status" /\ j.task = t /\ j.new = new.status
                          /\ j.to = IF new.assignee = None THEN owner
                                                           ELSE new.assignee
                          /\ Committing(j.by)
                 /\ /\ new.assignee \notin {None, owner}
                    /\ tasks[t] = NoRow \/ tasks[t].assignee # new.assignee
                    => \E j \in queue \cup refused :
                          /\ j.kind = "reassigned" /\ j.task = t
                          /\ j.to = new.assignee /\ Committing(j.by)
      ]_vars

(* Committed rows change as the abstract table of TaskTable does.  An id is*)
(* unused until the INSERT that drew it commits.                           *)
Unused == (Task \ issued) \cup {t \in Task :
             \E r \in Req : Writes(r, "insert") /\ pend[r].task = t}

Table == INSTANCE TaskTable WITH unused <- Unused

IsTaskTable == Table!Spec

(* Requests wait for each other only if two of them delete one project: one*)
(* has come to a task that was committed after the other had loaded the    *)
(* project's, while that one waits for the project or a task the first has.*)
(* PATCHes, creates and deletions of tasks never deadlock, whatever the    *)
(* order in which they come to their locks.                                *)
DeadlocksAreDeletions ==
    \A S \in SUBSET Req : Deadlocked(S) =>
        \E r, s \in S : /\ r # s /\ call[r].op = "drop" /\ call[s].op = "drop"
                        /\ call[r].project = call[s].project

(* Every request that has arrived is answered, whatever locks it waits for:*)
(* with an error if PostgreSQL has aborted it to break a deadlock.         *)
RequestsFinish ==
    \A r \in Req : InFlight(r) ~> pc[r] \in {"ok", "failed"}

-----------------------------------------------------------------------------
(* What the documentation says and the code does not do.                   *)

(* README, "Zero stale reads" and "guaranteed to fetch fresh data": once   *)
(* every request has been answered, no listing in the cache is out of date.*)
Stale(k) == cache[k] # NoEntry /\ cache[k] # Listing(k[1], k[2])

FreshWhenQuiescent ==
    (\A r \in Req : ~InFlight(r)) => \A k \in Key : ~Stale(k)

(* README, Design Tradeoffs: a notification is dispatched after the commit *)
(* of the change it is about, so no request that was rolled back has one.  *)
NoJobOfRolledBack == \A j \in queue : pc[j.by] # "failed"

=============================================================================
