------------------------ MODULE TaskApiCommit_proofs ------------------------
(***************************************************************************)
(* What a commit of TaskApi looks like from outside, for every set of      *)
(* users, tasks and requests.  The committed rows implement TaskTable:     *)
(* every commit maps to the abstract write its request had flushed, a      *)
(* rollback of an INSERT wastes its id, every other step is a stutter.     *)
(* And what is committed has been announced: .delay() was called for it.   *)
(***************************************************************************)
EXTENDS TaskApi_proofs

(* What the abstract table sees.                                           *)
Visible == <<projects, tasks, Unused>>

(* The ids drawn by transactions still open.                               *)
Drawn == {t \in Task : \E r \in Req : Writes(r, "insert") /\ pend[r].task = t}

(* The refinement mapping in two parts.                                    *)
LEMMA UnusedIsDrawn ==
    /\ Unused = (Task \ issued) \cup Drawn
    /\ Unused' = (Task \ issued') \cup Drawn'
BY DEF Unused, Drawn

-----------------------------------------------------------------------------
(* Which inserts are open after a step.                                    *)

LEMMA InsertsSame ==
    ASSUME UNCHANGED pend
    PROVE  UNCHANGED Drawn
BY DEF Drawn, Writes

(* A transaction that ends gives up its id, and no other.                  *)
LEMMA InsertsEnd ==
    ASSUME Ind, NEW r \in Req, pend' = [pend EXCEPT ![r] = NoPending],
           Writes(r, "insert")
    PROVE  /\ pend[r].task \in Drawn
           /\ Drawn' = Drawn \ {pend[r].task}
<1>0. TypeOK /\ pend[r] \in Pending /\ pend[r].task \in Task
  <2>1. TypeOK /\ pend[r] \in Pending  BY DEF Ind, TypeOK, Writes
  <2> QED  BY <2>1, PendingFields DEF Writes
<1>1. \A s \in Req : pend'[s] = IF s = r THEN NoPending ELSE pend[s]
  BY <1>0 DEF TypeOK
<1>2. \A s \in Req : Writes(s, "insert")' <=> s # r /\ Writes(s, "insert")
  BY <1>1 DEF Writes
<1>3. \A s \in Req : s # r /\ Writes(s, "insert") => pend[s].task # pend[r].task
  BY DEF Ind, IdInv
<1>4. pend[r].task \in Drawn  BY <1>0 DEF Drawn
<1>5. ASSUME NEW t \in Task
      PROVE  t \in Drawn' <=> t \in Drawn /\ t # pend[r].task
  BY <1>1, <1>2, <1>3 DEF Drawn
<1>6. Drawn \subseteq Task /\ Drawn' \subseteq Task  BY DEF Drawn
<1> QED  BY <1>4, <1>5, <1>6

(* What is not an INSERT neither draws nor gives up an id.                 *)
LEMMA InsertsKept ==
    ASSUME Ind, NEW r \in Req, NEW w \in Pending \cup {NoPending},
           pend' = [pend EXCEPT ![r] = w],
           ~Writes(r, "insert"), w = NoPending \/ w.kind # "insert"
    PROVE  UNCHANGED Drawn
<1>0. TypeOK  BY DEF Ind
<1>1. \A s \in Req : pend'[s] = IF s = r THEN w ELSE pend[s]
  BY <1>0 DEF TypeOK
<1>2. \A s \in Req : Writes(s, "insert")' <=> Writes(s, "insert")
  BY <1>1 DEF Writes
<1>3. \A s \in Req : Writes(s, "insert") => pend'[s] = pend[s]
  BY <1>1
<1> QED  BY <1>2, <1>3 DEF Drawn

-----------------------------------------------------------------------------
(* The steps that the table does not see.                                  *)

(* An id that is drawn counts as unused until its INSERT commits.          *)
LEMMA CreateHidden ==
    ASSUME Ind, NEW r \in Req, CreateFlush(r), pc'[r] = "scan"
    PROVE  UNCHANGED Visible
<1>0. TypeOK  BY DEF Ind
<1>1. pc[r] = "flush" /\ UNCHANGED <<projects, tasks>>  BY DEF CreateFlush
<1>2. PICK t \in Task \ issued :
        /\ pend' = [pend EXCEPT ![r] =
              [kind |-> "insert", task |-> t, row |-> call[r].row]]
        /\ issued' = issued \cup {t}
  BY <1>0 DEF TypeOK, CreateFlush, Fail
<1>3. ~Writes(r, "insert")
  BY <1>1 DEF Ind, PendInv, PendOK, Writes
<1>4. \A s \in Req : pend'[s] =
        IF s = r THEN [kind |-> "insert", task |-> t, row |-> call[r].row]
                 ELSE pend[s]
  BY <1>0, <1>2 DEF TypeOK
<1>5. pend'[r] # NoPending
  <2>1. call[r].op = "create" /\ call[r] \in Call
    BY <1>1 DEF CreateFlush, Ind, PlaceInv, PlaceOK
  <2>2. call[r].row \in Row  BY <2>1, CallFields
  <2>3. [kind |-> "insert", task |-> t, row |-> call[r].row] \in Pending
    BY <2>2 DEF Pending
  <2> QED  BY <1>4, <2>3, PendingAssumption
<1>6. \A s \in Req : Writes(s, "insert")' <=> s = r \/ Writes(s, "insert")
  BY <1>4, <1>5 DEF Writes
<1>7. ASSUME NEW u \in Task  PROVE u \in Drawn' <=> u = t \/ u \in Drawn
  BY <1>3, <1>4, <1>6 DEF Drawn
<1>8. ASSUME NEW u \in Task  PROVE u \in Unused' <=> u \in Unused
  BY <1>2, <1>7, UnusedIsDrawn
<1>9. Unused \subseteq Task /\ Unused' \subseteq Task  BY DEF Unused
<1> QED  BY <1>1, <1>8, <1>9 DEF Visible

(* The other writers flush without touching ids or committed rows.         *)
LEMMA FlushHidden ==
    ASSUME Ind, NEW r \in Req,
           (UpdateFlush(r) /\ pend' # pend) \/ DeleteFlush(r) \/ DropWork(r)
    PROVE  UNCHANGED Visible
<1>0. TypeOK /\ pc[r] \in {"flush", "rows", "cascade"} /\ call[r] \in Call
  <2>1. CASE DropWork(r)  BY <2>1, DropEffect DEF DropMove, Ind
  <2>2. CASE UpdateFlush(r) \/ DeleteFlush(r)
    BY <2>2 DEF Ind, UpdateFlush, DeleteFlush, PlaceInv, PlaceOK
  <2> QED  BY <2>1, <2>2
<1>1. ~Writes(r, "insert")
  BY <1>0 DEF Ind, PendInv, PendOK, Writes
<1>2. UNCHANGED table
  BY DropEffect DEF DropMove, UpdateFlush, DeleteFlush, table
<1>3. PICK w \in Pending \cup {NoPending} :
        pend' = [pend EXCEPT ![r] = w] /\ (w = NoPending \/ w.kind # "insert")
  <2>1. CASE UpdateFlush(r) /\ pend' # pend
    <3>1. pend' = [pend EXCEPT ![r] = pend'[r]] /\ pend'[r].kind = "update"
      BY <1>0, <2>1 DEF UpdateFlush, Fail, TypeOK
    <3>2. TypeOK'  BY <2>1, FlushType DEF Flush
    <3>3. pend'[r] \in Pending \cup {NoPending}  BY <3>2 DEF TypeOK
    <3> QED  BY <3>1, <3>3
  <2>2. CASE DeleteFlush(r)
    <3> DEFINE w == [kind |-> "delete", task |-> call[r].task]
    <3>1. w \in Pending /\ w.kind # "insert"
      BY <1>0, <2>2, CallFields DEF DeleteFlush, Pending
    <3>2. pend' = [pend EXCEPT ![r] = w]  BY <2>2 DEF DeleteFlush
    <3> HIDE DEF w
    <3> QED  BY <3>1, <3>2
  <2>3. CASE DropWork(r)
    <3>1. PICK rows \in SUBSET Task, rest \in SUBSET Task,
               place \in {"rows", "cascade", "commit"} : DropMove(r, rows, rest, place)
      BY <2>3, DropEffect
    <3> DEFINE w == Doing(call[r].project, rows)
    <3>2. w \in Pending /\ w.kind # "insert"  BY <3>1 DEF DropMove, Doing, Pending
    <3>3. pend' = [pend EXCEPT ![r] = w]  BY <3>1 DEF DropMove
    <3> HIDE DEF w
    <3> QED  BY <3>2, <3>3
  <2> QED  BY <2>1, <2>2, <2>3
<1>4. UNCHANGED Drawn  BY <1>1, <1>3, InsertsKept
<1> QED  BY <1>2, <1>4, UnusedIsDrawn DEF Visible, table

-----------------------------------------------------------------------------
(* The end of a transaction is a step of the table.                        *)

(* A rollback of an INSERT wastes its id.                                  *)
LEMMA RollbackWastes ==
    ASSUME Ind, NEW r \in Req, Abort(r)
    PROVE  UNCHANGED Visible \/ \E t \in Task : Table!Waste(t)
<1>0. /\ TypeOK /\ UNCHANGED <<projects, tasks, issued>>
      /\ pend' = [pend EXCEPT ![r] = NoPending]
  BY DEF Ind, Abort, Undo, table
<1>1. CASE Writes(r, "insert")
  <2>1. pend[r].task \in Task /\ pend[r].task \in issued
    <3>1. pend[r] \in Pending  BY <1>0, <1>1 DEF TypeOK, Writes
    <3> QED  BY <1>1, <3>1, PendingFields DEF Ind, IdInv, Writes
  <2>2. pend[r].task \in Drawn /\ Drawn' = Drawn \ {pend[r].task}
    BY <1>0, <1>1, InsertsEnd
  <2>3. pend[r].task \in Unused /\ Unused' = Unused \ {pend[r].task}
    BY <1>0, <2>1, <2>2, UnusedIsDrawn
  <2> QED  BY <1>0, <2>1, <2>3 DEF Table!Waste
<1>2. CASE ~Writes(r, "insert")
  <2>1. UNCHANGED Drawn  BY <1>0, <1>2, InsertsKept
  <2> QED  BY <1>0, <2>1, UnusedIsDrawn DEF Visible
<1> QED  BY <1>1, <1>2

(* The INSERT commits into a project that its lock has kept.               *)
LEMMA CommitInserts ==
    ASSUME Ind, NEW r \in Req, Commit(r), Writes(r, "insert")
    PROVE  \E t \in Task, row \in Row : Table!Insert(t, row)
<1> DEFINE t   == pend[r].task
           row == pend[r].row
<1>0. /\ TypeOK /\ pend[r] \in Pending /\ t \in Task /\ row \in Row
      /\ pc[r] = "commit" /\ pc[r] \in Writing
  <2>1. TypeOK /\ pend[r] \in Pending  BY DEF Ind, TypeOK, Writes
  <2> QED  BY <2>1, PendingFields DEF Writes, Commit, Writing
<1>1. call[r].op = "create" /\ row = call[r].row
  BY <1>0 DEF Ind, PendInv, PendOK, Writes
<1>2. MayAssign(row.assignee)
  BY <1>0, <1>1 DEF Ind, CheckInv
<1>3. row.project \in projects /\ t \in issued
  BY DEF Ind, ProjectInv, IdInv
<1>4. /\ tasks' = [tasks EXCEPT ![t] = row]
      /\ UNCHANGED <<projects, issued>>
      /\ pend' = [pend EXCEPT ![r] = NoPending]
  BY DEF Commit, Committed, Writes
<1>5. t \in Drawn /\ Drawn' = Drawn \ {t}
  BY <1>4, InsertsEnd
<1>6. t \in Unused /\ Unused' = Unused \ {t}
  BY <1>3, <1>4, <1>5, UnusedIsDrawn
<1>7. Table!Insert(t, row)
  BY <1>2, <1>3, <1>4, <1>6 DEF Table!Insert, Table!MayAssign, MayAssign
<1> QED  BY <1>0, <1>7

(* The other commits change no id.                                         *)
LEMMA CommitKeepsIds ==
    ASSUME Ind, NEW r \in Req, Commit(r), ~Writes(r, "insert")
    PROVE  UNCHANGED Unused
<1>1. UNCHANGED issued /\ pend' = [pend EXCEPT ![r] = NoPending]
  BY DEF Commit
<1>2. UNCHANGED Drawn  BY <1>1, InsertsKept
<1> QED  BY <1>1, <1>2, UnusedIsDrawn

(* An UPDATE that differs in its assignee has one that was checked.        *)
LEMMA CommitUpdates ==
    ASSUME Ind, NEW r \in Req, Commit(r), Writes(r, "update")
    PROVE  \E t \in Task, c \in Changes : Table!Change(t, c)
<1> DEFINE t == pend[r].task
           c == pend[r].changes
<1>0. /\ TypeOK /\ pend[r] \in Pending /\ t \in Task /\ c \in Changes
      /\ pc[r] = "commit" /\ pc[r] \in Writing
  <2>1. TypeOK /\ pend[r] \in Pending  BY DEF Ind, TypeOK, Writes
  <2> QED  BY <2>1, PendingFields DEF Writes, Commit, Writing
<1>1. call[r].op = "update" /\ c = Differing(call[r].data, loaded[r])
  BY <1>0 DEF Ind, PendInv, PendOK, Writes
<1>2. call[r].data.assignee = Unset \/ MayAssign(call[r].data.assignee)
  BY <1>0, <1>1 DEF Ind, CheckInv
<1>3. c.assignee = Unset \/ MayAssign(c.assignee)
  BY <1>1, <1>2 DEF Differing
<1>4. tasks[t] # NoRow  BY DEF Ind, LockInv
<1>5. tasks' = [tasks EXCEPT ![t] = Apply(@, c)] /\ UNCHANGED projects
  BY DEF Commit, Committed, Writes
<1>6. UNCHANGED Unused  BY CommitKeepsIds DEF Writes
<1>7. Table!Change(t, c)
  BY <1>3, <1>4, <1>5, <1>6
  DEF Table!Change, Table!MayAssign, MayAssign, Table!Apply, Apply
<1> QED  BY <1>0, <1>7

(* Deleting a row that is gone already is no step of the table.            *)
LEMMA CommitDeletes ==
    ASSUME Ind, NEW r \in Req, Commit(r), Writes(r, "delete")
    PROVE  UNCHANGED Visible \/ \E t \in Task : Table!Remove(t)
<1>0. TypeOK /\ pend[r] \in Pending /\ pend[r].task \in Task
  <2>1. TypeOK /\ pend[r] \in Pending  BY DEF Ind, TypeOK, Writes
  <2> QED  BY <2>1, PendingFields DEF Writes
<1>1. tasks' = [tasks EXCEPT ![pend[r].task] = NoRow] /\ UNCHANGED projects
  BY DEF Commit, Committed, Writes
<1>2. UNCHANGED Unused  BY CommitKeepsIds DEF Writes
<1>3. CASE tasks[pend[r].task] = NoRow
  <2>1. tasks' = tasks  BY <1>0, <1>1, <1>3 DEF TypeOK
  <2> QED  BY <1>1, <1>2, <2>1 DEF Visible
<1>4. CASE tasks[pend[r].task] # NoRow
  BY <1>0, <1>1, <1>2, <1>4 DEF Table!Remove
<1> QED  BY <1>3, <1>4

(* A project that is gone already has no tasks left to take along.         *)
LEMMA CommitDrops ==
    ASSUME Ind, NEW r \in Req, Commit(r), Writes(r, "drop")
    PROVE  UNCHANGED Visible \/ \E p \in Project : Table!RemoveProject(p)
<1> DEFINE p == pend[r].project
<1>0. TypeOK /\ pend[r] \in Pending /\ p \in Project
  <2>1. TypeOK /\ pend[r] \in Pending  BY DEF Ind, TypeOK, Writes
  <2> QED  BY <2>1, PendingFields DEF Writes
<1>1. /\ tasks' = [t \in Task |-> IF tasks[t] # NoRow /\ tasks[t].project = p
                                  THEN NoRow ELSE tasks[t]]
      /\ projects' = projects \ {p}
  <2>1. tasks' = [t \in Task |-> IF t \in pend[r].rows THEN NoRow ELSE tasks[t]]
        /\ projects' = projects \ {p}
    BY DEF Commit, Committed, Writes
  <2>2. pc[r] = "commit" /\ DropOK(r)  BY DEF Commit, Ind, DropInv
  <2>3. pend[r].rows = TasksOf(p)  BY <2>2 DEF DropOK
  <2> QED  BY <2>1, <2>3 DEF TasksOf
<1>2. UNCHANGED Unused  BY CommitKeepsIds DEF Writes
<1>3. CASE p \in projects
  BY <1>0, <1>1, <1>2, <1>3 DEF Table!RemoveProject
<1>4. CASE p \notin projects
  <2>1. \A t \in Task : tasks[t] # NoRow => tasks[t].project # p
    BY <1>4 DEF Ind, ProjectInv, ReferentialIntegrity
  <2>2. tasks' = tasks  BY <1>0, <1>1, <2>1 DEF TypeOK
  <2> QED  BY <1>1, <1>2, <1>4, <2>2 DEF Visible
<1> QED  BY <1>3, <1>4

-----------------------------------------------------------------------------
(* Both start with the same rows.                                          *)
LEMMA TableInit == Init => Table!Init
<1> SUFFICES ASSUME Init PROVE Table!Init
  OBVIOUS
<1>1. \A r \in Req : ~Writes(r, "insert")  BY DEF Init, Writes
<1>2. Unused = {t \in Task : tasks[t] = NoRow}
  BY <1>1 DEF Init, Unused
<1> QED  BY <1>2 DEF Init, Table!Init

(* Every step is a step of the table, or one that it does not see.         *)
LEMMA TableNext == Ind /\ [Next]_vars => [Table!Next]_Visible
<1> SUFFICES ASSUME Ind, [Next]_vars
             PROVE  Table!Next \/ UNCHANGED Visible
  BY DEF Visible
<1>1. ASSUME NEW r \in Req, Step(r)  PROVE Table!Next \/ UNCHANGED Visible
  <2>1. CASE Quiet
    BY <2>1, InsertsSame, UnusedIsDrawn DEF Quiet, Visible
  <2>2. CASE CreateFlush(r) /\ pc'[r] = "scan"
    BY <2>2, CreateHidden
  <2>3. CASE (UpdateFlush(r) /\ pend' # pend) \/ DeleteFlush(r) \/ DropWork(r)
    BY <2>3, FlushHidden
  <2>4. CASE Abort(r)
    BY <2>4, RollbackWastes DEF Table!Next
  <2>5. CASE Commit(r) /\ pend[r] # NoPending
    <3>1. \/ Writes(r, "insert") \/ Writes(r, "update")
          \/ Writes(r, "delete") \/ Writes(r, "drop")
      <4>1. pend[r] \in Pending  BY <2>5 DEF Ind, TypeOK
      <4> QED  BY <2>5, <4>1, PendingFields DEF Writes
    <3>2. Table!Row = Row /\ Table!Changes = Changes
      BY DEF Table!Row, Row, Table!Changes, Changes, Table!Status, Status
    <3> QED
      BY <2>5, <3>1, <3>2, CommitInserts, CommitUpdates, CommitDeletes, CommitDrops
      DEF Table!Next
  <2> QED  BY <1>1, <2>1, <2>2, <2>3, <2>4, <2>5, TableStep
<1>2. ASSUME NEW k \in Key, Expire(k)  PROVE UNCHANGED Visible
  BY <1>2, InsertsSame, UnusedIsDrawn DEF Expire, writer, table, Visible
<1>3. CASE UNCHANGED vars
  BY <1>3, InsertsSame, UnusedIsDrawn DEF vars, writer, table, Visible
<1> QED  BY <1>1, <1>2, <1>3, NextCases

(* The committed rows behave as the abstract table: each step is one whole *)
(* write into a project that exists, by an id that no row has had, to an   *)
(* assignee who may be assigned, however requests interleave and fail.     *)
THEOREM ImplementsTable == Spec => IsTaskTable
<1>1. Ind /\ [Next]_vars => [Table!Next]_<<projects, tasks, Unused>>
  BY TableNext DEF Visible
<1> QED
  BY <1>1, TableInit, IndInvariant, PTL DEF Spec, IsTaskTable, Table!Spec

-----------------------------------------------------------------------------
(* The jobs of a commit.                                                   *)

(* What a writer has read back is what its commit will write: nobody else  *)
(* can change the row in between.                                          *)
SeenOK(r) == pc[r] \in Flushed =>
    /\ Writes(r, "insert") => seen[r] = pend[r].row
    /\ Writes(r, "update") =>
          seen[r] = Apply(tasks[pend[r].task], pend[r].changes)

(* A writer about to commit has called .delay() for all of its jobs.       *)
SentOK(r) == pc[r] = "commit" /\ (Writes(r, "insert") \/ Writes(r, "update")) =>
    Jobs(r) \subseteq queue \cup refused

(* A task to be created is compared with its own row, unassigned.          *)
FreshOK(r) == pc[r] \in Writing /\ call[r].op = "create" =>
    loaded[r].assignee = None

JobInv == \A r \in Req : SeenOK(r) /\ SentOK(r) /\ FreshOK(r)

(* Jobs are never taken back.                                              *)
LEMMA JobsGrow ==
    ASSUME NEW r \in Req, Step(r)
    PROVE  queue \cup refused \subseteq queue' \cup refused'
<1>1. CASE Dispatch(r)
  BY <1>1 DEF Dispatch
<1>2. CASE ~Dispatch(r)
  <2>1. UNCHANGED jobs
    BY <1>2 DEF Step, Proceed, Flush, BeginWrite, BeginCreate, BeginUpdate,
           BeginDelete, BeginDrop, Begin, BeginList, CreateFlush, UpdateFlush,
           DeleteFlush, DropLoad, Deletion, DeleteRow, DropProject, CascadeRow,
           UpdateRefresh, Scan, Del, PurgeFails, Commit, Abort, Undo, Count, Select,
           Fill, FillFails
  <2> QED  BY <2>1 DEF jobs
<1> QED  BY <1>1, <1>2

(* What the jobs of a request are worked out from.                         *)
LEMMA JobsFrame ==
    ASSUME NEW s \in Req, call'[s] = call[s], loaded'[s] = loaded[s],
           seen'[s] = seen[s], pend'[s] = pend[s]
    PROVE  Jobs(s)' = Jobs(s)
BY DEF Jobs, TargetOf

(* A commit changes no row but those it has locked and the one it inserts. *)
LEMMA RowKept ==
    ASSUME Ind, NEW r \in Req, Step(r), NEW s \in Req, s # r, Writes(s, "update")
    PROVE  tasks'[pend[s].task] = tasks[pend[s].task]
<1> DEFINE t == pend[s].task
<1>0. TypeOK /\ t \in Task /\ tasks[t] # NoRow
  <2>1. TypeOK /\ pend[s] \in Pending  BY DEF Ind, TypeOK, Writes
  <2> QED  BY <2>1, PendingFields DEF Ind, LockInv, Writes
<1>1. CASE UNCHANGED tasks
  BY <1>1
<1>2. CASE Commit(r) /\ pend[r] # NoPending
  <2>1. pend[r] \in Pending /\ tasks' = Committed(pend[r])
    BY <1>0, <1>2 DEF TypeOK, Commit
  <2>2. ~Locks(r, t)
    <3>1. Locks(s, t)  BY DEF Locks
    <3> QED  BY <1>0, <3>1 DEF Ind, LockInv
  <2>3. CASE pend[r].kind = "insert"
    <3>1. tasks[pend[r].task] = NoRow  BY <1>2, <2>3 DEF Ind, IdInv, Writes
    <3> QED  BY <1>0, <2>1, <2>3, <3>1 DEF TypeOK, Committed
  <2>4. CASE pend[r].kind \in {"update", "delete"}
    <3>1. pend[r].task # t  BY <1>2, <2>2, <2>4 DEF Locks, Writes
    <3> QED  BY <1>0, <2>1, <2>4, <3>1 DEF TypeOK, Committed
  <2>5. CASE pend[r].kind = "drop"
    <3>1. t \notin pend[r].rows
      BY <1>2, <2>2, <2>5 DEF Locks, Writes
    <3> QED  BY <1>0, <2>1, <2>5, <3>1 DEF Committed
  <2> QED  BY <2>1, <2>3, <2>4, <2>5, PendingFields
<1> QED  BY <1>1, <1>2, TableSame

(* create_task keeps the unassigned row it compares with.                  *)
LEMMA FreshStep ==
    ASSUME Ind, JobInv, NEW r \in Req, Step(r)
    PROVE  FreshOK(r)'
<1>0. TypeOK /\ FreshOK(r)  BY DEF Ind, JobInv
<1>1. ASSUME NEW c \in Calls, BeginWrite(r, c)  PROVE FreshOK(r)'
  <2>1. c \in Call /\ call'[r] = c
    BY <1>0, <1>1, BeginEffect DEF TypeOK
  <2>2. SUFFICES ASSUME c.op = "create", pc'[r] \in Writing
                 PROVE  loaded'[r].assignee = None
    BY <2>1 DEF FreshOK
  <2>3. BeginCreate(r, c)
    BY <1>1, <2>2 DEF BeginWrite, BeginUpdate, BeginDelete, BeginDrop
  <2>4. loaded'[r] = [c.row EXCEPT !.assignee = None]
    BY <1>0, <2>2, <2>3 DEF TypeOK, BeginCreate, Begin, Writing
  <2>5. c.row \in Row  BY <2>1, <2>2, CallFields
  <2> QED  BY <2>4, <2>5 DEF Row
<1>2. ASSUME NEW c \in Calls, BeginList(r, c)  PROVE FreshOK(r)'
  BY <1>0, <1>2 DEF TypeOK, BeginList, FreshOK, Writing
<1>3. CASE DropWork(r)
  <2>1. UNCHANGED <<call, loaded>> /\ call[r].op = "drop"
    BY <1>3, DropEffect DEF DropMove
  <2> QED  BY <2>1 DEF FreshOK
<1>4. CASE (Proceed(r) /\ ~DropWork(r)) \/ Abort(r)
  <2>1. UNCHANGED <<call, loaded>>
    BY <1>4 DEF Proceed, Flush, DropWork, CreateFlush, UpdateFlush, DeleteFlush,
           UpdateRefresh, Scan, Del, PurgeFails, Dispatch, Commit, Abort, Undo, Count,
           Select, Fill, FillFails, writer
  <2>2. pc'[r] \in Writing => pc[r] \in Writing \/ call[r].op = "list"
    <3>1. pc[r] \in Writing \/ pc[r] \in {"count", "select", "fill"} \/ pc'[r] = "failed"
      BY <1>0, <1>4 DEF TypeOK, Proceed, Flush, DropWork, CreateFlush, UpdateFlush,
             DeleteFlush, UpdateRefresh, Scan, Del, PurgeFails, Dispatch, Commit,
             Abort, Undo, Count, Select, Fill, FillFails, Writing
    <3>2. PlaceOK(pc[r], call[r], loaded[r], purge[r])  BY DEF Ind, PlaceInv
    <3> QED  BY <3>1, <3>2 DEF PlaceOK, Writing
  <2> QED  BY <1>0, <2>1, <2>2 DEF FreshOK
<1> QED  BY <1>1, <1>2, <1>3, <1>4 DEF Step

(* A step of r leaves what was said of another request true.               *)
LEMMA JobOther ==
    ASSUME Ind, JobInv, NEW r \in Req, Step(r), NEW s \in Req, s # r
    PROVE  SeenOK(s)' /\ SentOK(s)' /\ FreshOK(s)'
<1>1. /\ pc'[s] = pc[s] /\ pend'[s] = pend[s] /\ seen'[s] = seen[s]
      /\ call'[s] = call[s] /\ loaded'[s] = loaded[s]
      /\ SeenOK(s) /\ SentOK(s) /\ FreshOK(s)
  BY StepFrame DEF Ind, JobInv
<1>2. \A k \in {"insert", "update"} : Writes(s, k)' <=> Writes(s, k)
  BY <1>1 DEF Writes
<1>3. SeenOK(s)'
  BY <1>1, <1>2, RowKept DEF SeenOK
<1>4. SentOK(s)'
  BY <1>1, <1>2, JobsFrame, JobsGrow DEF SentOK
<1>5. FreshOK(s)'
  BY <1>1 DEF FreshOK
<1> QED  BY <1>3, <1>4, <1>5

(* The step of r itself.                                                   *)
LEMMA JobOwn ==
    ASSUME Ind, JobInv, NEW r \in Req, Step(r)
    PROVE  SeenOK(r)' /\ SentOK(r)'
<1>0. /\ TypeOK /\ SeenOK(r) /\ SentOK(r)
      /\ PendOK(pc[r], call[r], loaded[r], pend[r])
      /\ PlaceOK(pc[r], call[r], loaded[r], purge[r])
  BY DEF Ind, JobInv, PendInv, PlaceInv
<1>1. CASE pc'[r] \notin Flushed
  BY <1>1 DEF SeenOK, SentOK, Flushed
<1>2. CASE CreateFlush(r) /\ pc'[r] = "scan"
  <2>1. PICK t \in Task :
          pend'[r] = [kind |-> "insert", task |-> t, row |-> call[r].row]
    BY <1>0, <1>2 DEF TypeOK, CreateFlush, Fail
  <2>2. seen'[r] = call[r].row  BY <1>0, <1>2 DEF TypeOK, CreateFlush, Fail
  <2> QED  BY <1>2, <2>1, <2>2 DEF SeenOK, SentOK, Writes
<1>3. CASE UpdateRefresh(r) /\ pc'[r] = "scan"
  <2>1. UNCHANGED <<tasks, call>> /\ pc[r] = "refresh"
    BY <1>3 DEF UpdateRefresh, table
  <2>2. pend' = pend /\ seen'[r] = Apply(tasks[call[r].task],
          IF pend[r] = NoPending THEN NoChange ELSE pend[r].changes)
    BY <1>0, <1>3 DEF TypeOK, UpdateRefresh, Fail
  <2>3. ~Writes(r, "insert") /\ (Writes(r, "update") => pend[r].task = call[r].task)
    BY <1>0, <2>1 DEF PlaceOK, PendOK, Writes
  <2> QED  BY <1>3, <2>1, <2>2, <2>3 DEF SeenOK, SentOK, Writes
<1>4. CASE DeleteFlush(r) \/ DropWork(r)
  <2>1. pend'[r].kind \in {"delete", "drop"}
    BY <1>0, <1>4, DropPends DEF TypeOK, DeleteFlush
  <2> QED  BY <2>1 DEF SeenOK, SentOK, Writes
<1>5. CASE Scan(r) \/ Del(r) \/ PurgeFails(r)
  <2>1. pc[r] \in Flushed /\ UNCHANGED <<tasks, call, loaded, seen, pend>>
    BY <1>5, PurgeEffect DEF Flushed, table
  <2>2. SeenOK(r)'  BY <1>0, <2>1 DEF SeenOK, Writes
  <2>3. pc'[r] = "commit" => Jobs(r) = {}
    BY <1>0, <1>5 DEF TypeOK, Scan, Del, PurgeFails, AfterPurge
  <2>4. Jobs(r)' = Jobs(r)  BY <2>1, JobsFrame
  <2>5. SentOK(r)'  BY <2>3, <2>4 DEF SentOK
  <2> QED  BY <2>2, <2>5
<1>6. CASE Dispatch(r)
  <2>1. pc[r] \in Flushed /\ UNCHANGED <<tasks, call, loaded, seen, pend>>
    BY <1>6 DEF Dispatch, Flushed, table, writer
  <2>2. SeenOK(r)'  BY <1>0, <2>1 DEF SeenOK, Writes
  <2>3. Jobs(r)' = Jobs(r)  BY <2>1, JobsFrame
  <2>4. Jobs(r) \subseteq queue' \cup refused'  BY <1>6 DEF Dispatch
  <2>5. SentOK(r)'  BY <2>3, <2>4 DEF SentOK
  <2> QED  BY <2>2, <2>5
<1>7. ASSUME NEW c \in Calls, BeginWrite(r, c) \/ BeginList(r, c)
      PROVE  pc'[r] \notin Flushed
  BY <1>0, <1>7, BeginEffect DEF TypeOK, BeginList, Flushed
<1>8. CASE CreateFlush(r) /\ pc'[r] # "scan"
  BY <1>0, <1>1, <1>8 DEF TypeOK, CreateFlush, Fail, Flushed
<1>9. CASE UpdateFlush(r)
  BY <1>0, <1>1, <1>9 DEF TypeOK, UpdateFlush, Fail, Flushed
<1>10. CASE UpdateRefresh(r) /\ pc'[r] # "scan"
  BY <1>0, <1>1, <1>10 DEF TypeOK, UpdateRefresh, Fail, Flushed
<1>11. CASE Commit(r) \/ Abort(r)
  BY <1>0, <1>1, <1>11 DEF TypeOK, Commit, Abort, Undo, Flushed
<1>12. CASE Count(r) \/ Select(r) \/ Fill(r) \/ FillFails(r)
  BY <1>0, <1>1, <1>12 DEF TypeOK, Count, Select, Fill, FillFails, Flushed
<1> QED
  BY <1>1, <1>2, <1>3, <1>4, <1>5, <1>6, <1>7, <1>8, <1>9, <1>10, <1>11, <1>12
  DEF Step, Proceed, Flush, DropWork

(* Writers announce what they commit.                                      *)
LEMMA JobInvariant == Spec => []JobInv
<1>1. Init => JobInv
  BY DEF Init, JobInv, SeenOK, SentOK, FreshOK, Flushed, Writing
<1>2. Ind /\ JobInv /\ [Next]_vars => JobInv'
  <2> SUFFICES ASSUME Ind, JobInv, [Next]_vars PROVE JobInv'
    OBVIOUS
  <2>1. ASSUME NEW r \in Req, Step(r)  PROVE JobInv'
    BY <2>1, JobOther, JobOwn, FreshStep DEF JobInv
  <2>2. ASSUME UNCHANGED <<tasks, pc, call, loaded, seen, pend, queue, refused>>
        PROVE  JobInv'
    BY <2>2 DEF JobInv, SeenOK, SentOK, FreshOK, Writes, Jobs, TargetOf
  <2>3. ASSUME NEW k \in Key, Expire(k)  PROVE JobInv'
    BY <2>2, <2>3 DEF Expire, table, jobs, writer
  <2>4. CASE UNCHANGED vars
    BY <2>2, <2>4 DEF vars, table, jobs, writer
  <2> QED  BY <2>1, <2>3, <2>4, NextCases
<1> QED  BY <1>1, <1>2, IndInvariant, PTL DEF Spec

(* The job that ChangesAreAnnounced asks for.                              *)
Announced(t, new) ==
    /\ tasks[t] # NoRow /\ tasks[t].status # new.status =>
          \E j \in queue \cup refused :
             /\ j.kind = "status" /\ j.task = t /\ j.new = new.status
             /\ j.to = IF new.assignee = None THEN Owner[new.project] ELSE new.assignee
             /\ Committing(j.by)
    /\ /\ new.assignee \notin {None, Owner[new.project]}
       /\ tasks[t] = NoRow \/ tasks[t].assignee # new.assignee
       => \E j \in queue \cup refused :
             /\ j.kind = "reassigned" /\ j.task = t
             /\ j.to = new.assignee /\ Committing(j.by)

(* The row that a commit changes has the jobs that were sent for it: UPDATE*)
(* sends a column only if it differs from the row as loaded, and the jobs  *)
(* are about the very columns that differ from it.                         *)
LEMMA CommitAnnounced ==
    ASSUME Ind, JobInv, NEW r \in Req, Commit(r), pend[r] # NoPending,
           NEW t \in Task, tasks'[t] # NoRow, tasks'[t] # tasks[t]
    PROVE  Announced(t, tasks'[t])
<1> DEFINE new == tasks'[t]
           old == loaded[r]
           u   == call[r].user
<1>0. /\ TypeOK /\ pend[r] \in Pending /\ tasks' = Committed(pend[r])
      /\ pc[r] = "commit" /\ pc[r] \in Writing /\ pc[r] \in Flushed
      /\ Committing(r)
  BY DEF Ind, TypeOK, Commit, Writing, Flushed, Committing
<1>1. /\ call[r] \in Call /\ PendOK(pc[r], call[r], old, pend[r])
      /\ call[r].op # "drop" => old \in Row
      /\ SeenOK(r) /\ SentOK(r)
  BY <1>0 DEF Ind, PlaceInv, PlaceOK, PendInv, JobInv
<1>2. Writes(r, "insert") \/ Writes(r, "update")
  <2>1. pend[r].kind \in {"insert", "update", "delete", "drop"}
    BY <1>0, PendingFields
  <2>2. pend[r].kind # "delete"  BY <1>0 DEF TypeOK, Committed
  <2>3. pend[r].kind # "drop"  BY <1>0 DEF TypeOK, Committed
  <2> QED  BY <2>1, <2>2, <2>3 DEF Writes
<1>3. Jobs(r) \subseteq queue \cup refused
  BY <1>0, <1>1, <1>2 DEF SentOK
(* Which row it is, what it was compared with, and who owns it.            *)
<1>4. /\ t = TargetOf(r) /\ seen[r] = new /\ Owner[new.project] = u
      /\ tasks[t] # NoRow /\ tasks[t].status # new.status =>
            new.status # old.status
      /\ (new.assignee # None /\ (tasks[t] = NoRow \/ tasks[t].assignee # new.assignee))
            => new.assignee # old.assignee
  <2>1. CASE Writes(r, "insert")
    <3>1. t = pend[r].task /\ new = pend[r].row
      BY <1>0, <2>1 DEF TypeOK, Committed, Writes
    <3>2. call[r].op = "create" /\ pend[r].row = call[r].row
      BY <1>1, <2>1 DEF PendOK, Writes
    <3>3. tasks[t] = NoRow  BY <2>1, <3>1 DEF Ind, IdInv
    <3>4. Owner[new.project] = u
      BY <1>0, <3>1, <3>2 DEF Ind, CheckInv
    <3>5. old.assignee = None
      BY <1>0, <3>2 DEF JobInv, FreshOK
    <3> QED
      BY <1>0, <1>1, <2>1, <3>1, <3>2, <3>3, <3>4, <3>5 DEF SeenOK, TargetOf
  <2>2. CASE Writes(r, "update")
    <3>1. t = pend[r].task /\ new = Apply(tasks[t], pend[r].changes)
      BY <1>0, <2>2 DEF TypeOK, Committed, Writes
    <3>2. /\ call[r].op = "update" /\ pend[r].task = call[r].task
          /\ pend[r].changes = Differing(call[r].data, old)
      BY <1>1, <2>2 DEF PendOK, Writes
    <3>3. tasks[t] # NoRow /\ tasks[t] \in Row
      BY <1>0, <2>2, <3>1 DEF Ind, LockInv, TypeOK
    <3>4. new.project = tasks[t].project  BY <3>1 DEF Apply
    <3>5. Owner[new.project] = u
      BY <1>0, <3>1, <3>2, <3>3, <3>4 DEF Ind, CheckInv
    <3>6. /\ new.status \in {tasks[t].status, pend[r].changes.status}
          /\ new.status # tasks[t].status => pend[r].changes.status # Unset
          /\ new.assignee \in {tasks[t].assignee, pend[r].changes.assignee}
          /\ new.assignee # tasks[t].assignee => pend[r].changes.assignee # Unset
      BY <3>1 DEF Apply
    <3>7. /\ pend[r].changes.status # Unset => pend[r].changes.status # old.status
          /\ pend[r].changes.assignee # Unset => pend[r].changes.assignee # old.assignee
      BY <3>2 DEF Differing
    <3> QED
      BY <1>0, <1>1, <2>2, <3>1, <3>2, <3>3, <3>5, <3>6, <3>7 DEF SeenOK, TargetOf
  <2> QED  BY <1>2, <2>1, <2>2
<1> HIDE DEF new
<1>5. new # NoRow  BY DEF new
<1>6. ASSUME tasks[t] # NoRow, tasks[t].status # new.status
      PROVE  \E j \in queue \cup refused :
                /\ j.kind = "status" /\ j.task = t /\ j.new = new.status
                /\ j.to = IF new.assignee = None THEN u ELSE new.assignee
                /\ Committing(j.by)
  <2> DEFINE j == [kind |-> "status", task |-> t, old |-> old.status,
                   new |-> new.status, by |-> r,
                   to |-> IF new.assignee = None THEN u ELSE new.assignee]
  <2>1. j \in Jobs(r)  BY <1>4, <1>5, <1>6 DEF Jobs
  <2> QED  BY <1>0, <1>3, <2>1
<1>7. ASSUME new.assignee \notin {None, u},
             tasks[t] = NoRow \/ tasks[t].assignee # new.assignee
      PROVE  \E j \in queue \cup refused :
                /\ j.kind = "reassigned" /\ j.task = t
                /\ j.to = new.assignee /\ Committing(j.by)
  <2> DEFINE j == [kind |-> "reassigned", task |-> t, to |-> new.assignee, by |-> r]
  <2>1. j \in Jobs(r)  BY <1>4, <1>5, <1>7 DEF Jobs
  <2> QED  BY <1>0, <1>3, <2>1
<1> QED  BY <1>4, <1>6, <1>7 DEF Announced, new

(* A change of status, or an assignment to somebody else, is committed only*)
(* after its own request has handed a job that says so to .delay()         *)
(* (create_task, update_task): what was announced is what is committed,    *)
(* although it was worked out awaits before.                               *)
THEOREM CommitsAreAnnounced == Spec => ChangesAreAnnounced
<1>1. Ind /\ JobInv /\ [Next]_vars =>
        [\A t \in Task :
          /\ tasks'[t] # NoRow
          /\ tasks'[t] # tasks[t]
          => LET new == tasks'[t]
                 owner == Owner[new.project]
             IN  /\ tasks[t] # NoRow /\ tasks[t].status # new.status =>
                       \E j \in queue \cup refused :
                          /\ j.kind = "status" /\ j.task = t /\ j.new = new.status
                          /\ j.to = IF new.assignee = None THEN owner
                                                           ELSE new.assignee
                          /\ Committing(j.by)
                 /\ /\ new.assignee \notin {None, owner}
                    /\ tasks[t] = NoRow \/ tasks[t].assignee # new.assignee
                    => \E j \in queue \cup refused :
                          /\ j.kind = "reassigned" /\ j.task = t
                          /\ j.to = new.assignee /\ Committing(j.by)]_vars
  <2> SUFFICES ASSUME Ind, JobInv, [Next]_vars, NEW t \in Task,
                      tasks'[t] # NoRow, tasks'[t] # tasks[t]
               PROVE  Announced(t, tasks'[t])
    BY DEF Announced
  <2>1. PICK r \in Req : Step(r)
    <3>1. ~UNCHANGED vars  BY DEF vars, table
    <3>2. ~(\E k \in Key : Expire(k))  BY DEF Expire, table
    <3> QED  BY <3>1, <3>2, NextCases
  <2>2. Commit(r) /\ pend[r] # NoPending  BY <2>1, TableSame
  <2> QED  BY <2>2, CommitAnnounced
<1> QED
  BY <1>1, IndInvariant, JobInvariant, PTL DEF Spec, ChangesAreAnnounced
=============================================================================
