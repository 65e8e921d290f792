--------------------------- MODULE TaskApi_proofs ---------------------------
(***************************************************************************)
(* Proofs about the transactions of TaskApi, for every set of users,       *)
(* projects, tasks, requests, calls and queries.  Ind is the inductive     *)
(* invariant; TaskApiCache_proofs builds that of the cache on it.          *)
(***************************************************************************)
EXTENDS TaskApi, TLAPS, FiniteSetTheorems, WellFoundedInduction

Writing == {"flush", "refresh", "rows", "cascade", "scan", "del", "dispatch",
            "commit"}
Flushed == {"scan", "del", "dispatch", "commit"}

(* What a request is doing (p) fits what it was asked (c), the row it has  *)
(* loaded and the users whose listings it has still to purge (todo).       *)
PlaceOK(p, c, row, todo) ==
    /\ p # "idle" => c \in Call
    /\ p \in Writing => c.op # "list"
    /\ p = "refresh" => c.op = "update"
    /\ p \in {"rows", "cascade"} => c.op = "drop"
    /\ p \in {"scan", "del", "dispatch"} => c.op # "drop"
    /\ p \in {"count", "select", "fill"} => c.op = "list"
    /\ p \in Writing /\ c.op # "drop" => row \in Row
    /\ p \in {"scan", "del"} => Len(todo) > 0

PlaceInv == \A r \in Req : PlaceOK(pc[r], call[r], loaded[r], purge[r])

(* A pending write (w) is the one its request was asked for.               *)
PendOK(p, c, row, w) ==
    /\ w # NoPending =>
          /\ p \in Writing \ {"flush"}
          /\ w.kind = "insert" => c.op = "create" /\ w.row = c.row
          /\ w.kind = "update" => /\ c.op = "update" /\ w.task = c.task
                                 /\ w.changes = Differing(c.data, row)
          /\ w.kind = "delete" => c.op = "delete" /\ w.task = c.task
          /\ w.kind = "drop" => c.op = "drop" /\ w.project = c.project
    /\ p \in Flushed /\ c.op = "create" => w # NoPending /\ w.kind = "insert"
    /\ p \in {"rows", "cascade"} => w # NoPending /\ w.kind = "drop"

PendInv == \A r \in Req : PendOK(pc[r], call[r], loaded[r], pend[r])

(* Row locks exclude each other, and keep a row that is being updated.     *)
LockInv ==
    /\ \A r \in Req : Writes(r, "update") => tasks[pend[r].task] # NoRow
    /\ \A r, s \in Req, t \in Task : r # s => ~(Locks(r, t) /\ Locks(s, t))

(* An id is drawn once, so a task that a request has found stays the one   *)
(* it has checked.                                                         *)
IdInv ==
    /\ \A t \in Task : tasks[t] # NoRow => t \in issued
    /\ \A r \in Req : Writes(r, "insert") =>
          /\ pend[r].task \in issued
          /\ tasks[pend[r].task] = NoRow
          /\ \A s \in Req \ {r} : Writes(s, "insert") => pend[s].task # pend[r].task
    /\ \A r \in Req : pc[r] \in Writing /\ call[r].op \in {"update", "delete"} =>
          /\ call[r].task \in issued
          /\ \A s \in Req : Writes(s, "insert") => pend[s].task # call[r].task

(* The foreign key, and the project lock that an INSERT takes for it.      *)
ProjectInv ==
    /\ ReferentialIntegrity
    /\ \A r \in Req : Writes(r, "insert") =>
          /\ pend[r].row.project \in projects
          /\ \A s \in Req : ~Drops(s, pend[r].row.project)

(* The deletion of a project has rows of it, looks for others that were    *)
(* once in it, and leaves none behind.                                     *)
DropOK(r) == Writes(r, "drop") =>
    /\ pend[r].rows \subseteq TasksOf(pend[r].project)
    /\ left[r] \cap pend[r].rows = {}
    /\ left[r] \subseteq issued
    /\ \A t \in left[r] : tasks[t] # NoRow => tasks[t].project = pend[r].project
    /\ \A t \in left[r], s \in Req : Writes(s, "insert") => pend[s].task # t
    /\ pc[r] \in {"cascade", "commit"} =>
          TasksOf(pend[r].project) \subseteq pend[r].rows \cup left[r]
    /\ pc[r] = "cascade" => left[r] # {}
    /\ pc[r] = "commit" => left[r] = {}

DropInv == \A r \in Req : DropOK(r)

(* The checks at the head of a handler still hold when it writes.          *)
CheckInv == \A r \in Req : pc[r] \in Writing =>
    /\ call[r].op = "create" =>
          /\ Owner[call[r].row.project] = call[r].user
          /\ MayAssign(call[r].row.assignee)
    /\ call[r].op \in {"update", "delete"} /\ tasks[call[r].task] # NoRow =>
          Owner[tasks[call[r].task].project] = call[r].user
    /\ call[r].op = "update" =>
          call[r].data.assignee = Unset \/ MayAssign(call[r].data.assignee)
    /\ call[r].op = "drop" => Owner[call[r].project] = call[r].user

Ind == /\ TypeOK /\ PlaceInv /\ PendInv /\ LockInv /\ IdInv /\ ProjectInv
       /\ DropInv /\ CheckInv

-----------------------------------------------------------------------------
(* The fields of calls, pending writes and rows.                           *)

LEMMA CallFields ==
    ASSUME NEW c \in Call
    PROVE  /\ c.user \in Active /\ c.user \in User
           /\ c.op \in {"create", "update", "delete", "drop", "list"}
           /\ c.op = "create" => c.row \in Row
           /\ c.op \in {"update", "delete"} => c.task \in Task
           /\ c.op = "update" => c.data \in UpdateData
           /\ c.op = "drop" => c.project \in Project
           /\ c.op = "list" => c.query \in Queries
BY UsersAssumption DEF Call, CreateCall, UpdateCall, DeleteCall, DropCall, ListCall

LEMMA PendingFields ==
    ASSUME NEW w \in Pending
    PROVE  /\ w.kind \in {"insert", "update", "delete", "drop"}
           /\ w.kind = "insert" => w.task \in Task /\ w.row \in Row
           /\ w.kind = "update" => w.task \in Task /\ w.changes \in Changes
           /\ w.kind = "delete" => w.task \in Task
           /\ w.kind = "drop" => w.project \in Project /\ w.rows \in SUBSET Task
BY DEF Pending

LEMMA RowFields ==
    ASSUME NEW row \in Row
    PROVE  /\ row.project \in Project /\ row.status \in Status
           /\ row.assignee \in User \cup {None} /\ row.detail \in Detail
           /\ row # NoRow
BY MarkersAssumption DEF Row

LEMMA UnassignedRow ==
    ASSUME NEW row \in Row
    PROVE  [row EXCEPT !.assignee = None] \in Row
BY DEF Row

(* What a PATCH changes, null status apart, is a change the table accepts. *)
LEMMA DifferingType ==
    ASSUME NEW data \in UpdateData, NEW row \in Row,
           Differing(data, row).status # None
    PROVE  Differing(data, row) \in Changes
BY DEF UpdateData, Differing, Changes, Row

LEMMA ApplyType ==
    ASSUME NEW row \in Row, NEW c \in Changes
    PROVE  /\ Apply(row, c) \in Row
           /\ Apply(row, c).project = row.project
BY DEF Row, Changes, Apply

LEMMA MatchingType ==
    ASSUME TypeOK, NEW u, NEW q
    PROVE  /\ Cardinality(Matching(u, q)) \in Nat
           /\ Items(u, q) \in SUBSET Item
           /\ Listing(u, q) \in Entry
<1>1. Matching(u, q) \subseteq Task  BY DEF Matching
<1>2. IsFiniteSet(Matching(u, q))  BY <1>1, TasksAssumption, FS_Subset
<1>3. Cardinality(Matching(u, q)) \in Nat  BY <1>2, FS_CardinalityType
<1>4. ASSUME NEW t \in Matching(u, q)  PROVE tasks[t] \in Row
  BY <1>4 DEF Matching, Matches, TypeOK
<1>5. Items(u, q) \in SUBSET Item  BY <1>1, <1>4 DEF Items, Item
<1> QED  BY <1>3, <1>5 DEF Listing, Entry

LEMMA PurgeListType ==
    ASSUME NEW u \in User, NEW a \in User \cup {None}, NEW b \in User \cup {None}
    PROVE  /\ PurgeList(u, a, b) \in Seq(User)
           /\ Len(PurgeList(u, a, b)) > 0
           /\ Head(PurgeList(u, a, b)) = u
<1>1. Others(u, a) \in Seq(User) /\ Others(u, b) \in Seq(User)
  BY DEF Others
<1>2. <<u>> \in Seq(User) /\ Len(<<u>>) = 1  OBVIOUS
<1> DEFINE rest == IF a = b THEN <<>> ELSE Others(u, a) \o Others(u, b)
<1>3. rest \in Seq(User)  BY <1>1
<1>4. PurgeList(u, a, b) = <<u>> \o rest  BY DEF PurgeList
<1> HIDE DEF rest
<1> QED  BY <1>2, <1>3, <1>4

-----------------------------------------------------------------------------
(* Type correctness, one lemma per group of actions.                       *)

(* What a request that was not refused has checked.                        *)
Checked(c) ==
    /\ c.op = "create" => /\ Owner[c.row.project] = c.user
                          /\ MayAssign(c.row.assignee)
    /\ c.op \in {"update", "delete"} => /\ tasks[c.task] # NoRow
                                        /\ Owner[tasks[c.task].project] = c.user
    /\ c.op = "update" => c.data.assignee = Unset \/ MayAssign(c.data.assignee)
    /\ c.op = "drop" => Owner[c.project] = c.user

BeginWrite(r, c) ==
    BeginCreate(r, c) \/ BeginUpdate(r, c) \/ BeginDelete(r, c) \/ BeginDrop(r, c)

LEMMA BeginEffect ==
    ASSUME TypeOK, NEW r \in Req, NEW c \in Calls, BeginWrite(r, c)
    PROVE  /\ pc[r] = "idle" /\ c \in Call /\ c.op # "list"
           /\ call' = [call EXCEPT ![r] = c]
           /\ \/ pc' = [pc EXCEPT ![r] = "failed"] /\ loaded' = loaded
              \/ /\ pc' = [pc EXCEPT ![r] = "flush"]
                 /\ Checked(c)
                 /\ \E row \in Row \cup {NoRow} :
                       /\ loaded' = [loaded EXCEPT ![r] = row]
                       /\ c.op # "drop" => row \in Row
           /\ UNCHANGED <<table, cache, jobs, seen, pend, left, purge, scan, page, history>>
<1>1. c \in Call  BY CallsAssumption
<1>2. CASE BeginCreate(r, c)
  <2>1. c.row \in Row  BY <1>1, <1>2, CallFields DEF BeginCreate
  <2>2. [c.row EXCEPT !.assignee = None] \in Row  BY <2>1, UnassignedRow
  <2> QED  BY <1>1, <1>2, <2>2 DEF BeginCreate, Begin, Checked, Owned
<1>3. CASE BeginUpdate(r, c)
  <2>1. tasks[c.task] \in Row \cup {NoRow}
    BY <1>1, <1>3, CallFields DEF BeginUpdate, TypeOK
  <2> QED  BY <1>1, <1>3, <2>1 DEF BeginUpdate, Begin, Checked, OwnsTask, Owned
<1>4. CASE BeginDelete(r, c)
  <2>1. tasks[c.task] \in Row \cup {NoRow}
    BY <1>1, <1>4, CallFields DEF BeginDelete, TypeOK
  <2> QED  BY <1>1, <1>4, <2>1 DEF BeginDelete, Begin, Checked, OwnsTask, Owned
<1>5. CASE BeginDrop(r, c)
  BY <1>1, <1>5 DEF BeginDrop, Begin, Checked, Owned
<1> QED  BY <1>2, <1>3, <1>4, <1>5 DEF BeginWrite

LEMMA BeginType ==
    ASSUME Ind, NEW r \in Req, NEW c \in Calls, BeginWrite(r, c)
    PROVE  TypeOK'
<1>1. TypeOK  BY DEF Ind
<1>2. /\ c \in Call
      /\ call' = [call EXCEPT ![r] = c]
      /\ pc' \in {[pc EXCEPT ![r] = "failed"], [pc EXCEPT ![r] = "flush"]}
      /\ \/ loaded' = loaded
         \/ \E row \in Row \cup {NoRow} : loaded' = [loaded EXCEPT ![r] = row]
      /\ UNCHANGED <<table, cache, jobs, seen, pend, left, purge, scan, page, history>>
  BY <1>1, BeginEffect
<1>3. call' \in [Req -> Call \cup {NoCall}]  BY <1>1, <1>2 DEF TypeOK
<1>4. pc' \in [Req -> Place]  BY <1>1, <1>2 DEF TypeOK, Place
<1>5. loaded' \in [Req -> Row \cup {NoRow}]  BY <1>1, <1>2 DEF TypeOK
<1> QED  BY <1>1, <1>2, <1>3, <1>4, <1>5 DEF TypeOK, table, jobs, history

LEMMA FlushType ==
    ASSUME Ind, NEW r \in Req,
           CreateFlush(r) \/ UpdateFlush(r) \/ DeleteFlush(r)
    PROVE  TypeOK'
<1> USE DEF Ind
<1>0. call[r] \in Call
  BY DEF PlaceInv, PlaceOK, CreateFlush, UpdateFlush, DeleteFlush
<1>1. CASE CreateFlush(r)
  <2>1. call[r].row \in Row /\ call[r].user \in User
    BY <1>0, <1>1, CallFields DEF CreateFlush
  <2>2. PurgeList(call[r].user, None, call[r].row.assignee) \in Seq(User)
    BY <2>1, RowFields, PurgeListType
  <2>3. \A t \in Task :
          [kind |-> "insert", task |-> t, row |-> call[r].row] \in Pending
    BY <2>1 DEF Pending
  <2>4. pc' \in [Req -> Place]  BY <1>1 DEF TypeOK, CreateFlush, Fail, Place
  <2>5. issued' \subseteq Task  BY <1>1 DEF TypeOK, CreateFlush
  <2>6. pend' \in [Req -> Pending \cup {NoPending}]
    <3>1. \/ pend' = pend
          \/ \E t \in Task : pend' = [pend EXCEPT ![r] =
                 [kind |-> "insert", task |-> t, row |-> call[r].row]]
      BY <1>1 DEF CreateFlush, Fail
    <3>2. ASSUME NEW w \in Pending, pend' = [pend EXCEPT ![r] = w]
          PROVE  pend' \in [Req -> Pending \cup {NoPending}]
      BY <3>2 DEF TypeOK
    <3> QED  BY <2>3, <3>1, <3>2 DEF TypeOK
  <2>7. seen' \in [Req -> Row \cup {NoRow}]  BY <1>1, <2>1 DEF TypeOK, CreateFlush
  <2>8. purge' \in [Req -> Seq(User)]  BY <1>1, <2>2 DEF TypeOK, CreateFlush
  <2>9. UNCHANGED <<projects, tasks, cache, jobs, call, loaded, left, scan, page,
                    history>>
    BY <1>1 DEF CreateFlush
  <2> QED
    BY <2>4, <2>5, <2>6, <2>7, <2>8, <2>9 DEF TypeOK, jobs, history
<1>2. CASE UpdateFlush(r)
  <2>1. call[r].task \in Task /\ call[r].data \in UpdateData
    BY <1>0, <1>2, CallFields DEF UpdateFlush
  <2>2. loaded[r] \in Row
    BY <1>2 DEF UpdateFlush, PlaceInv, PlaceOK, Writing
  <2> DEFINE c == Differing(call[r].data, loaded[r])
  <2>3. c.status # None => [kind |-> "update", task |-> call[r].task,
                            changes |-> c] \in Pending
    BY <2>1, <2>2, DifferingType DEF Pending
  <2> HIDE DEF c
  <2>4. /\ \/ pend' = pend
           \/ /\ pend' = [pend EXCEPT ![r] = [kind |-> "update",
                              task |-> call[r].task, changes |-> c]]
              /\ c.status # None
        /\ pc' \in {[pc EXCEPT ![r] = "failed"], [pc EXCEPT ![r] = "refresh"]}
        /\ UNCHANGED <<table, cache, jobs, call, loaded, seen, left, purge, scan, page,
                       history>>
    BY <1>2 DEF UpdateFlush, Fail, c
  <2>5. pc' \in [Req -> Place]  BY <2>4 DEF TypeOK, Place
  <2>6. pend' \in [Req -> Pending \cup {NoPending}]  BY <2>3, <2>4 DEF TypeOK
  <2> QED  BY <2>4, <2>5, <2>6 DEF TypeOK, table, jobs, history
<1>3. CASE DeleteFlush(r)
  <2>1. call[r].task \in Task /\ call[r].user \in User
    BY <1>0, <1>3, CallFields DEF DeleteFlush
  <2>2. [kind |-> "delete", task |-> call[r].task] \in Pending
    BY <2>1 DEF Pending
  <2> QED  BY <1>3, <2>1, <2>2 DEF TypeOK, DeleteFlush, Place, table, jobs, history
<1> QED  BY <1>1, <1>2, <1>3

(* The steps of the deletion of a project, after its checks.               *)
DropWork(r) == DropLoad(r) \/ Deletion(r)

Doing(p, rows) == [kind |-> "drop", project |-> p, rows |-> rows]

(* What one of them does: it takes at most one lock, and moves on.         *)
DropMove(r, rows, rest, place) ==
    /\ pend' = [pend EXCEPT ![r] = Doing(call[r].project, rows)]
    /\ left' = [left EXCEPT ![r] = rest]
    /\ pc' = [pc EXCEPT ![r] = place]
    /\ raced' = IF place = "commit" THEN raced \cup Racing(call[r].user)
                                    ELSE raced
    /\ pc[r] \in {"flush", "rows", "cascade"}
    /\ call[r] \in Call /\ call[r].op = "drop" /\ call[r].project \in Project
    /\ \A t \in rows : Locks(r, t) \/ ~Locked(r, t)
    /\ UNCHANGED <<table, cache, jobs, call, loaded, seen, purge, scan, page,
                   unpurged, excused>>

LEMMA DropEffect ==
    ASSUME Ind, NEW r \in Req, DropWork(r)
    PROVE  \E rows \in SUBSET Task, rest \in SUBSET Task,
              place \in {"rows", "cascade", "commit"} : DropMove(r, rows, rest, place)
<1>0. /\ TypeOK /\ PlaceOK(pc[r], call[r], loaded[r], purge[r])
      /\ PendOK(pc[r], call[r], loaded[r], pend[r])
  BY DEF Ind, PlaceInv, PendInv
<1>1. /\ pc[r] \in {"flush", "rows", "cascade"} /\ call[r] \in Call
      /\ call[r].op = "drop"
  BY <1>0 DEF DropWork, DropLoad, Deletion, DeleteRow, DropProject, CascadeRow, PlaceOK
<1>2. call[r].project \in Project  BY <1>1, CallFields
<1>3. pc[r] \in {"rows", "cascade"} =>
        /\ pend[r] = Doing(call[r].project, pend[r].rows)
        /\ pend[r].rows \in SUBSET Task /\ Writes(r, "drop")
  BY <1>0 DEF PendOK, TypeOK, Pending, Doing, Writes
<1>4. TasksOf(call[r].project) \in SUBSET Task  BY DEF TasksOf
<1>5. CASE DropLoad(r)
  <2>1. /\ pend' = [pend EXCEPT ![r] = Doing(call[r].project, {})]
        /\ left' = [left EXCEPT ![r] = TasksOf(call[r].project)]
        /\ pc' = [pc EXCEPT ![r] = "rows"]
        /\ UNCHANGED <<table, cache, jobs, call, loaded, seen, purge, scan, page, history>>
    BY <1>5 DEF DropLoad, Doing
  <2>2. DropMove(r, {}, TasksOf(call[r].project), "rows")
    BY <1>1, <1>2, <2>1 DEF DropMove, history
  <2> QED  BY <1>4, <2>2
<1>6. ASSUME NEW t \in left[r], Take(r, t), pc[r] \in {"rows", "cascade"}
      PROVE  \E rows \in SUBSET Task :
                /\ pend' = [pend EXCEPT ![r] = Doing(call[r].project, rows)]
                /\ \A u \in rows : Locks(r, u) \/ ~Locked(r, u)
                /\ left[r] \ {t} \in SUBSET Task
  <2> DEFINE rows == pend[r].rows \cup ({t} \cap TasksOf(call[r].project))
  <2>1. pend' = [pend EXCEPT ![r] = Doing(call[r].project, rows)] /\ ~Locked(r, t)
    BY <1>6 DEF Take, Doing
  <2>2. rows \in SUBSET Task  BY <1>3, <1>4, <1>6
  <2>3. \A u \in rows : Locks(r, u) \/ ~Locked(r, u)
    BY <1>3, <1>6, <2>1 DEF Locks
  <2>4. left[r] \ {t} \in SUBSET Task  BY <1>0 DEF TypeOK
  <2> HIDE DEF rows
  <2> QED  BY <2>1, <2>2, <2>3, <2>4
<1>7. CASE DeleteRow(r)
  <2>1. PICK t \in left[r] : Take(r, t) /\ left' = [left EXCEPT ![r] = @ \ {t}]
    BY <1>7 DEF DeleteRow
  <2>2. /\ pc[r] = "rows"
        /\ UNCHANGED <<table, cache, jobs, pc, call, loaded, seen, purge, scan, page,
                       history>>
    BY <1>7 DEF DeleteRow
  <2>3. PICK rows \in SUBSET Task :
          /\ pend' = [pend EXCEPT ![r] = Doing(call[r].project, rows)]
          /\ \A u \in rows : Locks(r, u) \/ ~Locked(r, u)
          /\ left[r] \ {t} \in SUBSET Task
    BY <1>6, <2>1, <2>2
  <2>4. left' = [left EXCEPT ![r] = left[r] \ {t}]  BY <2>1
  <2>5. pc' = [pc EXCEPT ![r] = "rows"]  BY <1>0, <2>2 DEF TypeOK
  <2>6. DropMove(r, rows, left[r] \ {t}, "rows")
    BY <1>1, <1>2, <2>2, <2>3, <2>4, <2>5 DEF DropMove, history
  <2> QED  BY <2>3, <2>6
<1>8. CASE DropProject(r)
  <2> DEFINE rest == TasksOf(call[r].project) \ pend[r].rows
  <2>1. /\ pc[r] = "rows" /\ Remaining(r, rest)
        /\ UNCHANGED <<table, cache, jobs, call, loaded, seen, pend, purge, scan, page,
                       unpurged, excused>>
    BY <1>8 DEF DropProject
  <2>2. pend' = [pend EXCEPT ![r] = Doing(call[r].project, pend[r].rows)]
    BY <1>0, <1>3, <2>1 DEF TypeOK
  <2>3. rest \in SUBSET Task  BY <1>4
  <2>4. \A u \in pend[r].rows : Locks(r, u)  BY <1>3, <2>1 DEF Locks
  <2> HIDE DEF rest
  <2>5. DropMove(r, pend[r].rows, rest, IF rest = {} THEN "commit" ELSE "cascade")
    BY <1>1, <1>2, <2>1, <2>2, <2>4 DEF Remaining, DropMove
  <2> QED  BY <1>3, <2>1, <2>3, <2>5
<1>9. CASE CascadeRow(r)
  <2>1. PICK t \in left[r] : Take(r, t) /\ Remaining(r, left[r] \ {t})
    BY <1>9 DEF CascadeRow
  <2>2. /\ pc[r] = "cascade"
        /\ UNCHANGED <<table, cache, jobs, call, loaded, seen, purge, scan, page,
                       unpurged, excused>>
    BY <1>9 DEF CascadeRow
  <2>3. PICK rows \in SUBSET Task :
          /\ pend' = [pend EXCEPT ![r] = Doing(call[r].project, rows)]
          /\ \A u \in rows : Locks(r, u) \/ ~Locked(r, u)
          /\ left[r] \ {t} \in SUBSET Task
    BY <1>6, <2>1, <2>2
  <2>4. DropMove(r, rows, left[r] \ {t},
                 IF left[r] \ {t} = {} THEN "commit" ELSE "cascade")
    BY <1>1, <1>2, <2>1, <2>2, <2>3 DEF Remaining, DropMove
  <2> QED  BY <2>3, <2>4
<1> QED  BY <1>5, <1>7, <1>8, <1>9 DEF DropWork, Deletion

LEMMA DropType ==
    ASSUME Ind, NEW r \in Req, DropWork(r)
    PROVE  TypeOK'
<1>0. TypeOK  BY DEF Ind
<1>1. PICK rows \in SUBSET Task, rest \in SUBSET Task,
           place \in {"rows", "cascade", "commit"} : DropMove(r, rows, rest, place)
  BY DropEffect
<1>2. Doing(call[r].project, rows) \in Pending  BY <1>1 DEF DropMove, Doing, Pending
<1>3. /\ pend' \in [Req -> Pending \cup {NoPending}] /\ left' \in [Req -> SUBSET Task]
      /\ pc' \in [Req -> Place] /\ raced' \subseteq Req
  BY <1>0, <1>1, <1>2 DEF DropMove, TypeOK, Place, Racing
<1> QED  BY <1>0, <1>1, <1>3 DEF DropMove, TypeOK, table, jobs

(* What is pending afterwards.                                             *)
LEMMA DropPends ==
    ASSUME Ind, NEW r \in Req, DropWork(r)
    PROVE  /\ pend'[r].kind = "drop" /\ pend'[r].project = call[r].project
           /\ pend'[r] # NoPending
           /\ \A q \in Req \ {r} : pend'[q] = pend[q]
<1>0. TypeOK  BY DEF Ind
<1>1. PICK rows \in SUBSET Task, rest \in SUBSET Task,
           place \in {"rows", "cascade", "commit"} : DropMove(r, rows, rest, place)
  BY DropEffect
<1>2. Doing(call[r].project, rows) \in Pending  BY <1>1 DEF DropMove, Doing, Pending
<1>3. /\ pend'[r] = Doing(call[r].project, rows)
      /\ \A q \in Req \ {r} : pend'[q] = pend[q]
  BY <1>0, <1>1 DEF DropMove, TypeOK
<1> QED  BY <1>2, <1>3, PendingAssumption DEF Doing

(* A refresh either finds the row gone or reads back a row.                *)
LEMMA RefreshEffect ==
    ASSUME Ind, NEW r \in Req, UpdateRefresh(r)
    PROVE  \/ pc' = [pc EXCEPT ![r] = "failed"] /\ UNCHANGED <<seen, purge>>
           \/ \E row \in Row, todo \in Seq(User) :
                 /\ tasks[call[r].task] # NoRow
                 /\ row = Apply(tasks[call[r].task],
                       IF pend[r] = NoPending THEN NoChange ELSE pend[r].changes)
                 /\ seen' = [seen EXCEPT ![r] = row]
                 /\ Len(todo) > 0 /\ Head(todo) = call[r].user
                 /\ purge' = [purge EXCEPT ![r] = todo]
                 /\ pc' = [pc EXCEPT ![r] = "scan"]
<1> DEFINE c    == IF pend[r] = NoPending THEN NoChange ELSE pend[r].changes
           row  == Apply(tasks[call[r].task], c)
           todo == PurgeList(call[r].user, loaded[r].assignee, row.assignee)
<1>0. TypeOK  BY DEF Ind
<1>1. call[r] \in Call /\ call[r].op = "update" /\ loaded[r] \in Row
  BY DEF Ind, PlaceInv, PlaceOK, UpdateRefresh, Writing
<1>2. call[r].user \in User /\ call[r].task \in Task
  BY <1>1, CallFields
<1>3. c \in Changes
  <2>1. CASE pend[r] = NoPending
    BY <2>1 DEF NoChange, Changes
  <2>2. CASE pend[r] # NoPending
    <3>1. pend[r] \in Pending  BY <1>0, <2>2 DEF TypeOK
    <3>2. pend[r].kind = "update"
      BY <1>1, <2>2, <3>1, PendingFields DEF Ind, PendInv, PendOK, UpdateRefresh
    <3> QED  BY <2>2, <3>1, <3>2, PendingFields
  <2> QED  BY <2>1, <2>2
<1> HIDE DEF c
<1>4. tasks[call[r].task] # NoRow => row \in Row
  BY <1>0, <1>2, <1>3, ApplyType DEF TypeOK
<1>5. tasks[call[r].task] # NoRow =>
        todo \in Seq(User) /\ Len(todo) > 0 /\ Head(todo) = call[r].user
  BY <1>1, <1>2, <1>4, RowFields, PurgeListType
<1> HIDE DEF row, todo
<1>6. \/ pc' = [pc EXCEPT ![r] = "failed"] /\ UNCHANGED <<seen, purge>>
      \/ /\ tasks[call[r].task] # NoRow
         /\ seen' = [seen EXCEPT ![r] = row]
         /\ purge' = [purge EXCEPT ![r] = todo]
         /\ pc' = [pc EXCEPT ![r] = "scan"]
  BY DEF UpdateRefresh, Fail, c, row, todo
<1> QED  BY <1>4, <1>5, <1>6 DEF row, c

LEMMA RefreshType ==
    ASSUME Ind, NEW r \in Req, UpdateRefresh(r)
    PROVE  TypeOK'
<1>0. TypeOK  BY DEF Ind
<1>1. UNCHANGED <<table, cache, jobs, call, loaded, pend, left, scan, page, history>>
  BY DEF UpdateRefresh, Fail
<1>2. /\ \/ UNCHANGED seen
         \/ \E row \in Row : seen' = [seen EXCEPT ![r] = row]
      /\ \/ UNCHANGED purge
         \/ \E todo \in Seq(User) : purge' = [purge EXCEPT ![r] = todo]
      /\ pc' \in {[pc EXCEPT ![r] = "failed"], [pc EXCEPT ![r] = "scan"]}
  BY RefreshEffect
<1>3. pc' \in [Req -> Place]  BY <1>0, <1>2 DEF TypeOK, Place
<1>4. seen' \in [Req -> Row \cup {NoRow}]  BY <1>0, <1>2 DEF TypeOK
<1>5. purge' \in [Req -> Seq(User)]  BY <1>0, <1>2 DEF TypeOK
<1> QED  BY <1>0, <1>1, <1>3, <1>4, <1>5 DEF TypeOK, table, jobs, history

LEMMA AfterPurgeType ==
    ASSUME Ind, NEW r \in Req, pc[r] \in {"scan", "del"}, AfterPurge(r)
    PROVE  pc' \in [Req -> Place] /\ purge' \in [Req -> Seq(User)]
<1>1. pc \in [Req -> Place] /\ purge \in [Req -> Seq(User)]  BY DEF Ind, TypeOK
<1>2. purge[r] \in Seq(User) /\ Len(purge[r]) > 0  BY <1>1 DEF Ind, PlaceInv, PlaceOK
<1>3. Tail(purge[r]) \in Seq(User)  BY <1>2
<1> QED  BY <1>1, <1>3 DEF AfterPurge, Place

LEMMA PurgeType ==
    ASSUME Ind, NEW r \in Req, Scan(r) \/ Del(r) \/ PurgeFails(r)
    PROVE  TypeOK'
<1>0. TypeOK  BY DEF Ind
<1>1. CASE Scan(r)
  <2>1. pc' \in [Req -> Place] /\ purge' \in [Req -> Seq(User)]
    BY <1>0, <1>1, AfterPurgeType DEF Scan, TypeOK, Place
  <2>2. scan' \in [Req -> SUBSET Key]
    <3> DEFINE keys == {k \in Key : k[1] = Target(r) /\ cache[k] # NoEntry}
    <3>1. keys \in SUBSET Key  OBVIOUS
    <3>2. scan' = scan \/ scan' = [scan EXCEPT ![r] = keys]  BY <1>1 DEF Scan
    <3> HIDE DEF keys
    <3> QED  BY <1>0, <3>1, <3>2 DEF TypeOK
  <2>3. raced' \subseteq Req  BY <1>0, <1>1 DEF Scan, TypeOK, Racing
  <2> QED  BY <1>0, <1>1, <2>1, <2>2, <2>3 DEF Scan, TypeOK, table, jobs
<1>2. CASE Del(r)
  <2>1. pc' \in [Req -> Place] /\ purge' \in [Req -> Seq(User)]
    BY <1>2, AfterPurgeType DEF Del
  <2>2. cache' \in [Key -> Entry \cup {NoEntry}]  BY <1>0, <1>2 DEF Del, TypeOK
  <2>3. scan' \in [Req -> SUBSET Key] /\ excused' \subseteq Key
    BY <1>0, <1>2 DEF Del, TypeOK
  <2> QED  BY <1>0, <1>2, <2>1, <2>2, <2>3 DEF Del, TypeOK, table, jobs
<1>3. CASE PurgeFails(r)
  <2>1. pc' \in [Req -> Place] /\ purge' \in [Req -> Seq(User)]
    BY <1>3, AfterPurgeType DEF PurgeFails
  <2>2. scan' \in [Req -> SUBSET Key]  BY <1>0, <1>3 DEF PurgeFails, TypeOK
  <2>3. raced' \subseteq Req /\ unpurged' \subseteq Req
    BY <1>0, <1>3 DEF PurgeFails, TypeOK, Racing
  <2> QED  BY <1>0, <1>3, <2>1, <2>2, <2>3 DEF PurgeFails, TypeOK, table, jobs
<1> QED  BY <1>1, <1>2, <1>3

LEMMA JobsType ==
    ASSUME Ind, NEW r \in Req, pc[r] \in {"scan", "del", "dispatch"}
    PROVE  Jobs(r) \subseteq Job
<1>0. TypeOK  BY DEF Ind
<1>1. call[r] \in Call /\ loaded[r] \in Row /\ call[r].op # "drop"
      /\ call[r].op # "list"
  BY DEF Ind, PlaceInv, PlaceOK, Writing
<1>2. TargetOf(r) \in Task
  <2>1. CASE call[r].op = "create"
    <3>1. Writes(r, "insert")  BY <2>1 DEF Ind, PendInv, PendOK, Flushed, Writes
    <3>2. pend[r] \in Pending  BY <1>0, <3>1 DEF TypeOK, Writes
    <3> QED  BY <2>1, <3>1, <3>2, PendingFields DEF Writes, TargetOf
  <2> QED  BY <1>1, <2>1, CallFields DEF TargetOf
<1>3. seen[r] # NoRow => seen[r] \in Row  BY <1>0 DEF TypeOK
<1>4. call[r].user \in User  BY <1>1, CallFields
<1>5. ASSUME NEW j \in Jobs(r)  PROVE j \in Job
  <2>1. seen[r] \in Row  BY <1>3, <1>5 DEF Jobs
  <2>2. /\ seen[r].assignee \in User \cup {None}
        /\ seen[r].status \in Status /\ loaded[r].status \in Status
    BY <1>1, <2>1, RowFields
  <2>3. CASE /\ j = [kind |-> "reassigned", task |-> TargetOf(r),
                     to |-> seen[r].assignee, by |-> r]
             /\ seen[r].assignee # None
    BY <1>2, <2>2, <2>3 DEF Job
  <2>4. CASE j = [kind |-> "status", task |-> TargetOf(r),
                  old |-> loaded[r].status, new |-> seen[r].status, by |-> r,
                  to |-> IF seen[r].assignee = None THEN call[r].user
                                                    ELSE seen[r].assignee]
    BY <1>2, <1>4, <2>2, <2>4 DEF Job
  <2> QED  BY <1>5, <2>3, <2>4 DEF Jobs
<1> QED  BY <1>5

LEMMA DispatchType ==
    ASSUME Ind, NEW r \in Req, Dispatch(r)
    PROVE  TypeOK'
<1>0. TypeOK  BY DEF Ind
<1>1. Jobs(r) \subseteq Job  BY JobsType DEF Dispatch
<1>2. queue' \subseteq Job /\ refused' \subseteq Job
  BY <1>0, <1>1 DEF Dispatch, TypeOK
<1>3. pc' \in [Req -> Place]  BY <1>0 DEF Dispatch, TypeOK, Place
<1> QED  BY <1>0, <1>2, <1>3 DEF Dispatch, TypeOK, table, writer, history

LEMMA CommitType ==
    ASSUME Ind, NEW r \in Req, Commit(r)
    PROVE  TypeOK'
<1>0. TypeOK  BY DEF Ind
<1>1. pc' \in [Req -> Place] /\ pend' \in [Req -> Pending \cup {NoPending}]
      /\ projects' \subseteq Project
  BY <1>0 DEF Commit, TypeOK, Place
<1>2. excused' \subseteq Key  BY <1>0 DEF Commit, TypeOK
<1>3. tasks' \in [Task -> Row \cup {NoRow}]
  <2>1. CASE pend[r] = NoPending
    BY <1>0, <2>1 DEF Commit, TypeOK
  <2>2. CASE pend[r] # NoPending
    <3>1. pend[r] \in Pending  BY <1>0, <2>2 DEF TypeOK
    <3>2. tasks' = Committed(pend[r])  BY <2>2 DEF Commit
    <3>3. CASE pend[r].kind = "insert"
      BY <1>0, <3>1, <3>2, <3>3, PendingFields DEF TypeOK, Committed
    <3>4. CASE pend[r].kind = "update"
      <4>1. tasks[pend[r].task] \in Row
        BY <1>0, <2>2, <3>1, <3>4, PendingFields DEF Ind, LockInv, Writes, TypeOK
      <4>2. Apply(tasks[pend[r].task], pend[r].changes) \in Row
        BY <3>1, <3>4, <4>1, PendingFields, ApplyType
      <4> QED  BY <1>0, <3>2, <3>4, <4>2 DEF TypeOK, Committed
    <3>5. CASE pend[r].kind = "delete"
      BY <1>0, <3>2, <3>5 DEF TypeOK, Committed
    <3>6. CASE pend[r].kind = "drop"
      BY <1>0, <3>2, <3>6 DEF TypeOK, Committed
    <3> QED  BY <3>1, <3>3, <3>4, <3>5, <3>6, PendingFields
  <2> QED  BY <2>1, <2>2
<1> QED  BY <1>0, <1>1, <1>2, <1>3 DEF Commit, TypeOK, jobs

(* The database gives a transaction up, for whatever reason.               *)
Abort(r) == InFlight(r) /\ Undo(r)

LEMMA Aborts ==
    ASSUME NEW r \in Req, Rollback(r) \/ BreakDeadlock(r)
    PROVE  Abort(r)
<1>1. CASE Rollback(r)  BY <1>1 DEF Rollback, Abort
<1>2. CASE BreakDeadlock(r)
  <2>1. PICK s : WaitsFor(r, s)  BY <1>2 DEF BreakDeadlock, Victim, Deadlocked
  <2> QED  BY <1>2, <2>1 DEF BreakDeadlock, WaitsFor, InFlight, Abort
<1> QED  BY <1>1, <1>2

LEMMA AbortType ==
    ASSUME Ind, NEW r \in Req, Abort(r)
    PROVE  TypeOK'
<1>0. TypeOK  BY DEF Ind
<1>1. /\ pc' \in [Req -> Place] /\ pend' \in [Req -> Pending \cup {NoPending}]
      /\ left' \in [Req -> SUBSET Task]
  BY <1>0 DEF Abort, Undo, TypeOK, Place
<1> QED  BY <1>0, <1>1 DEF Abort, Undo, TypeOK, table, jobs, history

LEMMA BeginListType ==
    ASSUME Ind, NEW r \in Req, NEW c \in Calls, BeginList(r, c)
    PROVE  TypeOK'
<1>0. TypeOK  BY DEF Ind
<1>1. c \in Call /\ <<c.user, c.query>> \in Key
  BY CallsAssumption, CallFields DEF BeginList, Key
<1>2. cache[<<c.user, c.query>>] \in Entry \cup {NoEntry}  BY <1>0, <1>1 DEF TypeOK
<1>3. page' \in [Req -> Entry]  BY <1>0, <1>2 DEF BeginList, TypeOK
<1>4. pc' \in [Req -> Place]  BY <1>0 DEF BeginList, TypeOK, Place
<1>5. call' \in [Req -> Call \cup {NoCall}]  BY <1>0, <1>1 DEF BeginList, TypeOK
<1> QED  BY <1>0, <1>3, <1>4, <1>5 DEF BeginList, TypeOK, table, jobs, writer, history

(* The listing a GET works on is that of a user and a query.               *)
LEMMA ListedKey ==
    ASSUME Ind, NEW r \in Req, pc[r] \in {"count", "select", "fill"}
    PROVE  /\ call[r].user \in User /\ call[r].query \in Queries
           /\ KeyOf(r) = <<call[r].user, call[r].query>> /\ KeyOf(r) \in Key
<1>1. call[r] \in Call /\ call[r].op = "list"  BY DEF Ind, PlaceInv, PlaceOK
<1>2. call[r].user \in User /\ call[r].query \in Queries  BY <1>1, CallFields
<1> QED  BY <1>2 DEF KeyOf, Key

LEMMA ListType ==
    ASSUME Ind, NEW r \in Req, Count(r) \/ Select(r) \/ Fill(r) \/ FillFails(r)
    PROVE  TypeOK'
<1>0. TypeOK  BY DEF Ind
<1>1. CASE Count(r)
  <2>1. [total |-> Cardinality(Matching(call[r].user, call[r].query)),
         items |-> {}] \in Entry
    BY <1>0, MatchingType DEF Entry
  <2>2. page' \in [Req -> Entry]  BY <1>0, <1>1, <2>1 DEF Count, TypeOK
  <2>3. pc' \in [Req -> Place] /\ raced' \subseteq Req
    BY <1>0, <1>1 DEF Count, TypeOK, Place
  <2> QED  BY <1>0, <1>1, <2>2, <2>3 DEF Count, TypeOK, table, jobs, writer
<1>2. CASE Select(r)
  <2>1. page[r] \in Entry  BY <1>0 DEF TypeOK
  <2>2. [total |-> page[r].total,
         items |-> Items(call[r].user, call[r].query)] \in Entry
    BY <1>0, <2>1, MatchingType DEF Entry
  <2>3. page' \in [Req -> Entry]  BY <1>0, <1>2, <2>2 DEF Select, TypeOK
  <2>4. pc' \in [Req -> Place]  BY <1>0, <1>2 DEF Select, TypeOK, Place
  <2> QED  BY <1>0, <1>2, <2>3, <2>4 DEF Select, TypeOK, table, jobs, writer, history
<1>3. CASE Fill(r)
  <2>1. KeyOf(r) \in Key  BY <1>3, ListedKey DEF Fill
  <2>2. cache' \in [Key -> Entry \cup {NoEntry}] /\ excused' \subseteq Key
    BY <1>0, <1>3, <2>1 DEF Fill, TypeOK
  <2>3. pc' \in [Req -> Place]  BY <1>0, <1>3 DEF Fill, TypeOK, Place
  <2> QED  BY <1>0, <1>3, <2>2, <2>3 DEF Fill, TypeOK, table, jobs, writer
<1>4. CASE FillFails(r)
  <2>1. pc' \in [Req -> Place]  BY <1>0, <1>4 DEF FillFails, TypeOK, Place
  <2> QED  BY <1>0, <1>4, <2>1 DEF FillFails, TypeOK, table, jobs, writer, history
<1> QED  BY <1>1, <1>2, <1>3, <1>4

LEMMA ExpireType ==
    ASSUME Ind, NEW k \in Key, Expire(k)
    PROVE  TypeOK'
<1>0. TypeOK  BY DEF Ind
<1>1. cache' \in [Key -> Entry \cup {NoEntry}] /\ excused' \subseteq Key
  BY <1>0 DEF Expire, TypeOK
<1> QED  BY <1>0, <1>1 DEF Expire, TypeOK, table, jobs, writer

-----------------------------------------------------------------------------
(* Places, calls and pending writes go together.                           *)

Step(r) ==
    \/ \E c \in Calls : BeginWrite(r, c) \/ BeginList(r, c)
    \/ Proceed(r)
    \/ Abort(r)

LEMMA NextCases ==
    ASSUME Next
    PROVE  (\E r \in Req : Step(r)) \/ (\E k \in Key : Expire(k))
<1> SUFFICES ASSUME ~(\E k \in Key : Expire(k)) PROVE \E r \in Req : Step(r)
  OBVIOUS
<1>1. PICK r \in Req : Arrive(r) \/ Proceed(r) \/ Rollback(r) \/ BreakDeadlock(r)
  BY DEF Next
<1>2. Step(r)  BY <1>1, Aborts DEF Arrive, Step, BeginWrite
<1> QED  BY <1>2

(* A step of one request touches nothing of another.                       *)
LEMMA StepFrame ==
    ASSUME TypeOK, NEW r \in Req, Step(r), NEW s \in Req, s # r
    PROVE  /\ pc'[s] = pc[s] /\ call'[s] = call[s] /\ loaded'[s] = loaded[s]
           /\ seen'[s] = seen[s] /\ pend'[s] = pend[s] /\ purge'[s] = purge[s]
           /\ left'[s] = left[s] /\ scan'[s] = scan[s] /\ page'[s] = page[s]
<1>1. ASSUME NEW c \in Calls, BeginWrite(r, c) \/ BeginList(r, c)
      PROVE  /\ pc'[s] = pc[s] /\ call'[s] = call[s] /\ loaded'[s] = loaded[s]
             /\ seen'[s] = seen[s] /\ pend'[s] = pend[s] /\ purge'[s] = purge[s]
             /\ left'[s] = left[s] /\ scan'[s] = scan[s] /\ page'[s] = page[s]
  BY <1>1 DEF TypeOK, BeginWrite, BeginCreate, BeginUpdate, BeginDelete, BeginDrop,
              Begin, BeginList, writer
<1>2. CASE CreateFlush(r) \/ UpdateFlush(r) \/ DeleteFlush(r)
  BY <1>2 DEF TypeOK, CreateFlush, UpdateFlush, DeleteFlush, Fail
<1>7. CASE DropWork(r)
  <2>1. CASE DropLoad(r)  BY <2>1 DEF TypeOK, DropLoad
  <2>2. CASE DeleteRow(r)  BY <2>2 DEF TypeOK, DeleteRow, Take
  <2>3. CASE DropProject(r)  BY <2>3 DEF TypeOK, DropProject, Remaining
  <2>4. CASE CascadeRow(r)  BY <2>4 DEF TypeOK, CascadeRow, Take, Remaining
  <2> QED  BY <1>7, <2>1, <2>2, <2>3, <2>4 DEF DropWork, Deletion
<1>3. CASE UpdateRefresh(r)
  BY <1>3 DEF TypeOK, UpdateRefresh, Fail
<1>4. CASE Scan(r) \/ Del(r) \/ PurgeFails(r)
  BY <1>4 DEF TypeOK, Scan, Del, PurgeFails, AfterPurge
<1>5. CASE Dispatch(r) \/ Commit(r) \/ Abort(r)
  BY <1>5 DEF TypeOK, Dispatch, Commit, Abort, Undo, writer
<1>6. CASE Count(r) \/ Select(r) \/ Fill(r) \/ FillFails(r)
  BY <1>6 DEF TypeOK, Count, Select, Fill, FillFails, writer
<1> QED
  BY <1>1, <1>2, <1>3, <1>4, <1>5, <1>6, <1>7 DEF Step, Proceed, Flush, DropWork

LEMMA PurgeEffect ==
    ASSUME Ind, NEW r \in Req, Scan(r) \/ Del(r) \/ PurgeFails(r)
    PROVE  /\ pc[r] \in {"scan", "del"}
           /\ pc'[r] \in {"scan", "del", "dispatch", "commit"}
           /\ pc'[r] \in {"scan", "del"} => Len(purge'[r]) > 0
           /\ UNCHANGED <<table, jobs, call, loaded, seen, pend, left, page>>
<1>1. TypeOK  BY DEF Ind
<1>2. /\ pc[r] \in {"scan", "del"}
      /\ AfterPurge(r) \/ (pc' = [pc EXCEPT ![r] = "del"] /\ UNCHANGED purge)
      /\ UNCHANGED <<table, jobs, call, loaded, seen, pend, left, page>>
  BY DEF Scan, Del, PurgeFails
<1>3. purge[r] \in Seq(User) /\ Len(purge[r]) > 0
  BY <1>1, <1>2 DEF TypeOK, Ind, PlaceInv, PlaceOK
<1>4. CASE AfterPurge(r)
  <2>1. Len(Tail(purge[r])) = Len(purge[r]) - 1  BY <1>3
  <2>2. Len(purge[r]) \in Nat  BY <1>3
  <2>3. purge'[r] = Tail(purge[r])  BY <1>1, <1>4 DEF TypeOK, AfterPurge
  <2>4. CASE Len(purge[r]) > 1
    <3>1. pc'[r] = "scan"  BY <1>1, <1>4, <2>4 DEF TypeOK, AfterPurge
    <3>2. Len(purge'[r]) > 0  BY <2>1, <2>2, <2>3, <2>4
    <3> QED  BY <1>2, <3>1, <3>2
  <2>5. CASE ~(Len(purge[r]) > 1)
    <3>1. pc'[r] \in {"dispatch", "commit"}
      BY <1>1, <1>4, <2>5 DEF TypeOK, AfterPurge
    <3> QED  BY <1>2, <3>1
  <2> QED  BY <2>4, <2>5
<1>5. CASE pc' = [pc EXCEPT ![r] = "del"] /\ UNCHANGED purge
  BY <1>1, <1>2, <1>3, <1>5 DEF TypeOK
<1> QED  BY <1>2, <1>4, <1>5

LEMMA PlaceStep ==
    ASSUME Ind, NEW r \in Req, Step(r)
    PROVE  PlaceInv'
<1>0. TypeOK /\ PlaceOK(pc[r], call[r], loaded[r], purge[r])
  BY DEF Ind, PlaceInv
<1>1. SUFFICES PlaceOK(pc'[r], call'[r], loaded'[r], purge'[r])
  BY <1>0, StepFrame DEF Ind, PlaceInv
<1>2. ASSUME NEW c \in Calls, BeginWrite(r, c)
      PROVE PlaceOK(pc'[r], call'[r], loaded'[r], purge'[r])
  <2>1. /\ c \in Call /\ c.op # "list" /\ call'[r] = c
        /\ pc'[r] \in {"failed", "flush"}
        /\ pc'[r] = "flush" /\ c.op # "drop" => loaded'[r] \in Row
    BY <1>0, <1>2, BeginEffect DEF TypeOK
  <2> QED  BY <2>1 DEF PlaceOK, Writing
<1>3. ASSUME NEW c \in Calls, BeginList(r, c)
      PROVE PlaceOK(pc'[r], call'[r], loaded'[r], purge'[r])
  <2>1. c \in Call /\ c.op = "list" /\ call'[r] = c /\ pc'[r] \in {"ok", "count"}
    BY <1>0, <1>3, CallsAssumption DEF TypeOK, BeginList
  <2> QED  BY <2>1 DEF PlaceOK, Writing
<1>4. CASE CreateFlush(r)
  <2>1. call[r].row \in Row /\ call[r].user \in User
    BY <1>0, <1>4, CallFields DEF CreateFlush, PlaceOK
  <2>2. Len(PurgeList(call[r].user, None, call[r].row.assignee)) > 0
    BY <2>1, RowFields, PurgeListType
  <2>3. /\ pc[r] = "flush" /\ call[r].op = "create" /\ UNCHANGED <<call, loaded>>
        /\ \/ pc'[r] = "failed"
           \/ /\ pc'[r] = "scan"
              /\ purge'[r] = PurgeList(call[r].user, None, call[r].row.assignee)
    BY <1>0, <1>4 DEF TypeOK, CreateFlush, Fail
  <2> QED  BY <1>0, <2>2, <2>3 DEF PlaceOK, Writing
<1>5. CASE UpdateFlush(r)
  <2>1. /\ pc[r] = "flush" /\ call[r].op = "update" /\ UNCHANGED <<call, loaded>>
        /\ pc'[r] \in {"failed", "refresh"}
    BY <1>0, <1>5 DEF TypeOK, UpdateFlush, Fail
  <2> QED  BY <1>0, <2>1 DEF PlaceOK, Writing
<1>6. CASE UpdateRefresh(r)
  <2>1. pc[r] = "refresh" /\ UNCHANGED <<call, loaded>>  BY <1>6 DEF UpdateRefresh
  <2>2. pc'[r] = "failed" \/ (pc'[r] = "scan" /\ Len(purge'[r]) > 0)
    BY <1>0, <1>6, RefreshEffect DEF TypeOK
  <2> QED  BY <1>0, <2>1, <2>2 DEF PlaceOK, Writing
<1>7. CASE DeleteFlush(r)
  <2>1. /\ pc[r] = "flush" /\ call[r].op = "delete" /\ UNCHANGED <<call, loaded>>
        /\ pc'[r] = "scan" /\ purge'[r] = <<call[r].user>>
    BY <1>0, <1>7 DEF TypeOK, DeleteFlush
  <2>2. Len(purge'[r]) > 0  BY <2>1
  <2> QED  BY <1>0, <2>1, <2>2 DEF PlaceOK, Writing
<1>8. CASE DropWork(r)
  <2>1. /\ call[r] \in Call /\ call[r].op = "drop" /\ UNCHANGED <<call, loaded>>
        /\ pc'[r] \in {"rows", "cascade", "commit"}
    BY <1>0, <1>8, DropEffect DEF DropMove, TypeOK
  <2> QED  BY <1>0, <2>1 DEF PlaceOK, Writing
<1>9. CASE Scan(r) \/ Del(r) \/ PurgeFails(r)
  BY <1>0, <1>9, PurgeEffect DEF PlaceOK, Writing
<1>10. CASE Dispatch(r) \/ Commit(r) \/ Abort(r)
  <2>1. /\ pc[r] # "idle" /\ UNCHANGED <<call, loaded>>
        /\ \/ pc[r] = "dispatch" /\ pc'[r] = "commit"
           \/ pc'[r] \in {"ok", "failed"}
    BY <1>0, <1>10 DEF TypeOK, Dispatch, Commit, Abort, Undo, InFlight, writer
  <2> QED  BY <1>0, <2>1 DEF PlaceOK, Writing
<1>11. CASE Count(r) \/ Select(r) \/ Fill(r) \/ FillFails(r)
  <2>1. /\ pc[r] \in {"count", "select", "fill"} /\ UNCHANGED <<call, loaded>>
        /\ pc'[r] \in {"select", "fill", "ok"}
    BY <1>0, <1>11 DEF TypeOK, Count, Select, Fill, FillFails, writer
  <2> QED  BY <1>0, <2>1 DEF PlaceOK, Writing
<1> QED
  BY <1>2, <1>3, <1>4, <1>5, <1>6, <1>7, <1>8, <1>9, <1>10, <1>11
  DEF Step, Proceed, Flush, DropWork

LEMMA PendStep ==
    ASSUME Ind, NEW r \in Req, Step(r)
    PROVE  PendInv'
<1>0. /\ TypeOK /\ PendOK(pc[r], call[r], loaded[r], pend[r])
      /\ PlaceOK(pc[r], call[r], loaded[r], purge[r])
  BY DEF Ind, PendInv, PlaceInv
<1>1. SUFFICES PendOK(pc'[r], call'[r], loaded'[r], pend'[r])
  BY <1>0, StepFrame DEF Ind, PendInv
<1>2. ASSUME NEW c \in Calls, BeginWrite(r, c) \/ BeginList(r, c)
      PROVE PendOK(pc'[r], call'[r], loaded'[r], pend'[r])
  <2>1. pc[r] = "idle" /\ pend'[r] = pend[r]
        /\ pc'[r] \in {"failed", "flush", "ok", "count"}
    BY <1>0, <1>2, BeginEffect DEF TypeOK, BeginList, writer
  <2> QED  BY <1>0, <2>1 DEF PendOK, Writing, Flushed
<1>3. CASE CreateFlush(r)
  <2>1. /\ pc[r] = "flush" /\ call[r].op = "create" /\ UNCHANGED <<call, loaded>>
        /\ \/ pc'[r] = "failed" /\ pend'[r] = pend[r]
           \/ /\ pc'[r] = "scan"
              /\ \E t \in Task :
                    pend'[r] = [kind |-> "insert", task |-> t, row |-> call[r].row]
    BY <1>0, <1>3 DEF TypeOK, CreateFlush, Fail
  <2>2. CASE pc'[r] = "failed"
    BY <1>0, <2>1, <2>2 DEF PendOK, Writing, Flushed
  <2>3. CASE pc'[r] = "scan"
    <3>1. PICK t \in Task :
            pend'[r] = [kind |-> "insert", task |-> t, row |-> call[r].row]
      BY <2>1, <2>3
    <3>2. pend'[r] \in Pending
      BY <1>0, <3>1, <2>1, CallFields DEF PlaceOK, Pending
    <3> QED  BY <2>1, <2>3, <3>1, <3>2, PendingAssumption DEF PendOK, Writing, Flushed
  <2> QED  BY <2>1, <2>2, <2>3
<1>4. CASE UpdateFlush(r)
  <2>1. /\ pc[r] = "flush" /\ call[r].op = "update" /\ UNCHANGED <<call, loaded>>
        /\ \/ pc'[r] \in {"failed", "refresh"} /\ pend'[r] = pend[r]
           \/ /\ pc'[r] = "refresh"
              /\ pend'[r] = [kind |-> "update", task |-> call[r].task,
                             changes |-> Differing(call[r].data, loaded[r])]
    BY <1>0, <1>4 DEF TypeOK, UpdateFlush, Fail
  <2> QED  BY <1>0, <2>1 DEF PendOK, Writing, Flushed
<1>5. CASE UpdateRefresh(r)
  <2>1. pc[r] = "refresh" /\ call[r].op = "update" /\ UNCHANGED <<call, loaded, pend>>
        /\ pc'[r] \in {"failed", "scan"}
    BY <1>0, <1>5 DEF TypeOK, PlaceOK, UpdateRefresh, Fail
  <2>2. pc'[r] = "failed" => pend[r] = NoPending
    <3>1. CASE pend[r] = NoPending
      BY <3>1
    <3>2. CASE pend[r] # NoPending
      <4>1. pend[r] \in Pending  BY <1>0, <3>2 DEF TypeOK
      <4>2. pend[r].kind = "update" /\ pend[r].task = call[r].task
        BY <1>0, <2>1, <3>2, <4>1, PendingFields DEF PendOK
      <4>3. tasks[call[r].task] # NoRow
        BY <3>2, <4>2 DEF Ind, LockInv, Writes
      <4> QED  BY <1>0, <1>5, <4>3 DEF TypeOK, UpdateRefresh
    <3> QED  BY <3>1, <3>2
  <2> QED  BY <1>0, <2>1, <2>2 DEF PendOK, Writing, Flushed
<1>6. CASE DeleteFlush(r)
  <2>1. /\ pc[r] = "flush" /\ call[r].op = "delete" /\ UNCHANGED <<call, loaded>>
        /\ pc'[r] = "scan"
        /\ pend'[r] = [kind |-> "delete", task |-> call[r].task]
    BY <1>0, <1>6 DEF TypeOK, DeleteFlush
  <2> QED  BY <1>0, <2>1 DEF PendOK, Writing, Flushed
<1>7. CASE DropWork(r)
  <2>0. PICK rows \in SUBSET Task, rest \in SUBSET Task,
             place \in {"rows", "cascade", "commit"} : DropMove(r, rows, rest, place)
    BY <1>7, DropEffect
  <2>1. /\ call[r].op = "drop" /\ call[r].project \in Project
        /\ UNCHANGED <<call, loaded>>
        /\ pc'[r] \in {"rows", "cascade", "commit"}
        /\ pend'[r] = Doing(call[r].project, rows)
    BY <1>0, <2>0 DEF DropMove, TypeOK
  <2>2. /\ pend'[r].kind = "drop" /\ pend'[r].project = call[r].project
        /\ pend'[r] # NoPending
    BY <2>1, PendingAssumption DEF Doing, Pending
  <2> QED  BY <2>1, <2>2 DEF PendOK, Writing, Flushed
<1>8. CASE Scan(r) \/ Del(r) \/ PurgeFails(r)
  BY <1>0, <1>8, PurgeEffect DEF PendOK, Writing, Flushed
<1>9. CASE Dispatch(r)
  <2>1. pc[r] = "dispatch" /\ pc'[r] = "commit" /\ UNCHANGED <<call, loaded, pend>>
    BY <1>0, <1>9 DEF TypeOK, Dispatch, writer
  <2> QED  BY <1>0, <2>1 DEF PendOK, Writing, Flushed
<1>10. CASE Commit(r) \/ Abort(r)
  <2>1. pc'[r] \in {"ok", "failed"} /\ pend'[r] = NoPending
    BY <1>0, <1>10 DEF TypeOK, Commit, Abort, Undo
  <2> QED  BY <2>1 DEF PendOK, Writing, Flushed
<1>11. CASE Count(r) \/ Select(r) \/ Fill(r) \/ FillFails(r)
  <2>1. /\ pc[r] \in {"count", "select", "fill"} /\ UNCHANGED <<call, loaded, pend>>
        /\ pc'[r] \in {"select", "fill", "ok"}
    BY <1>0, <1>11 DEF TypeOK, Count, Select, Fill, FillFails, writer
  <2> QED  BY <1>0, <2>1 DEF PendOK, Writing, Flushed
<1> QED
  BY <1>2, <1>3, <1>4, <1>5, <1>6, <1>7, <1>8, <1>9, <1>10, <1>11
  DEF Step, Proceed, Flush, DropWork

-----------------------------------------------------------------------------
(* Locks, ids, projects and checks: what depends on the table.             *)

Quiet == UNCHANGED <<projects, tasks, issued, pend>>

LEMMA TableStep ==
    ASSUME Ind, NEW r \in Req, Step(r)
    PROVE  \/ Quiet
           \/ CreateFlush(r) /\ pc'[r] = "scan"
           \/ UpdateFlush(r) /\ pend' # pend
           \/ DeleteFlush(r) \/ DropWork(r) \/ Abort(r)
           \/ Commit(r) /\ pend[r] # NoPending
<1>0. TypeOK  BY DEF Ind
<1>1. ASSUME NEW c \in Calls, BeginWrite(r, c) \/ BeginList(r, c)
      PROVE  Quiet
  BY <1>0, <1>1, BeginEffect DEF BeginList, writer, table, Quiet
<1>2. CASE CreateFlush(r) /\ pc'[r] # "scan"
  BY <1>0, <1>2 DEF TypeOK, CreateFlush, Fail, Quiet
<1>3. CASE UpdateFlush(r) /\ pend' = pend
  BY <1>3 DEF UpdateFlush, table, Quiet
<1>4. CASE UpdateRefresh(r)
  BY <1>4 DEF UpdateRefresh, Fail, table, Quiet
<1>5. CASE Scan(r) \/ Del(r) \/ PurgeFails(r)
  BY <1>5, PurgeEffect DEF table, Quiet
<1>6. CASE Dispatch(r)
  BY <1>6 DEF Dispatch, table, writer, Quiet
<1>7. CASE Commit(r) /\ pend[r] = NoPending
  <2>1. pend' = [pend EXCEPT ![r] = NoPending]  BY <1>7 DEF Commit
  <2>2. pend' = pend  BY <1>0, <1>7, <2>1 DEF TypeOK
  <2> QED  BY <1>7, <2>2 DEF Commit, Quiet
<1>8. CASE Count(r) \/ Select(r) \/ Fill(r) \/ FillFails(r)
  BY <1>8 DEF Count, Select, Fill, FillFails, table, writer, Quiet
<1> QED
  BY <1>1, <1>2, <1>3, <1>4, <1>5, <1>6, <1>7, <1>8
  DEF Step, Proceed, Flush, DropWork

(* A commit brings no row into a project but the one it inserts, and takes *)
(* away only rows it has locked.                                           *)
LEMMA CommitRows ==
    ASSUME Ind, NEW r \in Req, Commit(r), pend[r] # NoPending, NEW t \in Task
    PROVE  /\ tasks'[t] # NoRow =>
                \/ Writes(r, "insert") /\ pend[r].task = t /\ tasks'[t] = pend[r].row
                \/ tasks[t] # NoRow /\ tasks'[t].project = tasks[t].project
           /\ tasks'[t] = NoRow /\ tasks[t] # NoRow => Locks(r, t)
           /\ Writes(r, "drop") /\ tasks'[t] # NoRow =>
                tasks'[t].project # pend[r].project
<1>0. TypeOK /\ pend[r] \in Pending /\ tasks' = Committed(pend[r])
  BY DEF Ind, TypeOK, Commit
<1>1. CASE pend[r].kind = "insert"
  <2>1. tasks' = [tasks EXCEPT ![pend[r].task] = pend[r].row]
    BY <1>0, <1>1 DEF Committed
  <2>2. pend[r].row # NoRow  BY <1>0, <1>1, PendingFields, RowFields
  <2> QED  BY <1>0, <1>1, <2>1, <2>2 DEF TypeOK, Writes
<1>2. CASE pend[r].kind = "update"
  <2>1. tasks' = [tasks EXCEPT ![pend[r].task] =
                    Apply(tasks[pend[r].task], pend[r].changes)]
    BY <1>0, <1>2 DEF Committed
  <2>2. tasks[pend[r].task] \in Row
    BY <1>0, <1>2, PendingFields DEF Ind, LockInv, Writes, TypeOK
  <2> DEFINE new == Apply(tasks[pend[r].task], pend[r].changes)
  <2>3. new \in Row /\ new.project = tasks[pend[r].task].project
    BY <1>0, <1>2, <2>2, PendingFields, ApplyType
  <2> HIDE DEF new
  <2>4. new # NoRow  BY <2>3, RowFields
  <2>5. tasks' = [tasks EXCEPT ![pend[r].task] = new]  BY <2>1 DEF new
  <2>6. tasks[pend[r].task] # NoRow  BY <2>2, RowFields
  <2> QED  BY <1>0, <1>2, <2>3, <2>4, <2>5, <2>6 DEF TypeOK, Writes
<1>3. CASE pend[r].kind = "delete"
  <2>1. tasks' = [tasks EXCEPT ![pend[r].task] = NoRow]
    BY <1>0, <1>3 DEF Committed
  <2> QED  BY <1>0, <1>3, <2>1 DEF TypeOK, Locks, Writes
<1>4. CASE pend[r].kind = "drop"
  <2>1. tasks' = [s \in Task |-> IF s \in pend[r].rows THEN NoRow ELSE tasks[s]]
    BY <1>0, <1>4 DEF Committed
  <2>2. TasksOf(pend[r].project) \subseteq pend[r].rows
    <3>1. Writes(r, "drop") /\ pc[r] = "commit"  BY <1>4 DEF Writes, Commit
    <3> QED  BY <3>1 DEF Ind, DropInv, DropOK
  <2> QED  BY <1>0, <1>4, <2>1, <2>2 DEF TypeOK, Locks, Writes, TasksOf
<1> QED  BY <1>0, <1>1, <1>2, <1>3, <1>4, PendingFields

LEMMA LockStep ==
    ASSUME Ind, NEW r \in Req, Step(r)
    PROVE  LockInv'
<1>0. TypeOK /\ LockInv  BY DEF Ind
<1>1. CASE Quiet
  BY <1>0, <1>1 DEF Quiet, LockInv, Locks, Writes
<1>0a. ASSUME NEW s \in Req, s # r  PROVE pend'[s] = pend[s]
  BY <1>0, <1>0a, StepFrame
<1>2. CASE CreateFlush(r) /\ pc'[r] = "scan"
  <2>1. PICK t \in Task :
          pend' = [pend EXCEPT ![r] = [kind |-> "insert", task |-> t, row |-> call[r].row]]
    BY <1>0, <1>2 DEF TypeOK, CreateFlush, Fail
  <2>2. UNCHANGED tasks  BY <1>2 DEF CreateFlush
  <2>3. ~Writes(r, "update")' /\ ~Writes(r, "delete")' /\ ~Writes(r, "drop")'
    BY <1>0, <2>1 DEF TypeOK, Writes
  <2> QED  BY <1>0, <1>0a, <2>2, <2>3 DEF LockInv, Locks, Writes
<1>3. CASE UpdateFlush(r) /\ pend' # pend
  <2>1. /\ pend' = [pend EXCEPT ![r] = [kind |-> "update", task |-> call[r].task,
                                       changes |-> Differing(call[r].data, loaded[r])]]
        /\ tasks[call[r].task] # NoRow /\ ~Locked(r, call[r].task)
        /\ UNCHANGED tasks
    BY <1>3 DEF UpdateFlush, Fail, table
  <2>2. /\ pend'[r].kind = "update" /\ pend'[r].task = call[r].task
    BY <1>0, <2>1 DEF TypeOK
  <2>3. \A s \in Req, t \in Task : s # r => (Locks(s, t)' <=> Locks(s, t))
    BY <1>0a, <2>1 DEF Locks, Writes
  <2>4. \A t \in Task : Locks(r, t)' => t = call[r].task
    BY <2>2 DEF Locks, Writes
  <2> QED  BY <1>0, <1>0a, <2>1, <2>2, <2>3, <2>4 DEF LockInv, Locked, Writes
<1>4. CASE DeleteFlush(r)
  <2>1. /\ pend' = [pend EXCEPT ![r] = [kind |-> "delete", task |-> call[r].task]]
        /\ ~Locked(r, call[r].task) /\ UNCHANGED tasks
    BY <1>4 DEF DeleteFlush, table
  <2>2. /\ pend'[r].kind = "delete" /\ pend'[r].task = call[r].task
    BY <1>0, <2>1 DEF TypeOK
  <2>3. \A s \in Req, t \in Task : s # r => (Locks(s, t)' <=> Locks(s, t))
    BY <1>0a, <2>1 DEF Locks, Writes
  <2>4. \A t \in Task : Locks(r, t)' => t = call[r].task
    BY <2>2 DEF Locks, Writes
  <2> QED  BY <1>0, <1>0a, <2>1, <2>2, <2>3, <2>4 DEF LockInv, Locked, Writes
<1>5. CASE DropWork(r)
  <2>1. PICK rows \in SUBSET Task :
          /\ pend' = [pend EXCEPT ![r] = Doing(call[r].project, rows)]
          /\ \A t \in rows : Locks(r, t) \/ ~Locked(r, t)
          /\ UNCHANGED tasks
    BY <1>5, DropEffect DEF DropMove, table
  <2>2. pend'[r].kind = "drop" /\ pend'[r].rows = rows
    BY <1>0, <2>1 DEF TypeOK, Doing
  <2>3. \A s \in Req, t \in Task : s # r => (Locks(s, t)' <=> Locks(s, t))
    BY <1>0a DEF Locks, Writes
  <2>4. \A t \in Task : Locks(r, t)' => Locks(r, t) \/ ~Locked(r, t)
    BY <2>1, <2>2 DEF Locks, Writes
  <2>5. ASSUME NEW t \in Task, NEW s \in Req, s # r, Locks(r, t)'  PROVE ~Locks(s, t)'
    BY <1>0, <2>3, <2>4, <2>5 DEF LockInv, Locked
  <2>6. \A s \in Req : Writes(s, "update")' => s # r  BY <2>2 DEF Writes
  <2> QED  BY <1>0, <1>0a, <2>1, <2>3, <2>5, <2>6 DEF LockInv, Writes
<1>6. CASE Abort(r)
  <2>1. UNCHANGED tasks /\ pend'[r] = NoPending
    BY <1>0, <1>6 DEF TypeOK, Abort, Undo, table
  <2>2. \A s \in Req, t \in Task : Locks(s, t)' => Locks(s, t)
    BY <1>0a, <2>1 DEF Locks, Writes
  <2> QED  BY <1>0, <1>0a, <2>1, <2>2 DEF LockInv, Writes
<1>7. CASE Commit(r) /\ pend[r] # NoPending
  <2>1. pend'[r] = NoPending  BY <1>0, <1>7 DEF TypeOK, Commit
  <2>2. ASSUME NEW s \in Req, NEW t \in Task, Locks(s, t)'  PROVE s # r /\ Locks(s, t)
    <3>1. s # r  BY <2>1, <2>2 DEF Locks, Writes
    <3> QED  BY <1>0a, <2>2, <3>1 DEF Locks, Writes
  <2>3. ASSUME NEW s \in Req, Writes(s, "update")'
        PROVE  tasks'[pend'[s].task] # NoRow
    <3>1. s # r /\ pend'[s] = pend[s]  BY <1>0a, <2>1, <2>3 DEF Writes
    <3>2. Writes(s, "update") /\ pend[s].task \in Task
      BY <1>0, <2>3, <3>1, PendingFields DEF TypeOK, Writes
    <3>3. tasks[pend[s].task] # NoRow /\ ~Locks(r, pend[s].task)
      BY <1>0, <3>1, <3>2 DEF LockInv, Locks
    <3> QED  BY <1>7, <3>1, <3>2, <3>3, CommitRows
  <2> QED  BY <1>0, <2>2, <2>3 DEF LockInv
<1> QED  BY <1>1, <1>2, <1>3, <1>4, <1>5, <1>6, <1>7, TableStep

(* A request is a writer because it was one before, or because it has just *)
(* passed its checks.                                                      *)
LEMMA WritingStep ==
    ASSUME Ind, NEW r \in Req, Step(r), pc'[r] \in Writing
    PROVE  \/ pc[r] \in Writing /\ call'[r] = call[r]
           \/ Quiet /\ call'[r] \in Call /\ Checked(call'[r])
<1>0. TypeOK  BY DEF Ind
<1>1. ASSUME NEW c \in Calls, BeginWrite(r, c)
      PROVE  Quiet /\ call'[r] \in Call /\ Checked(call'[r])
  <2>1. c \in Call /\ call'[r] = c /\ Quiet
    BY <1>0, <1>1, BeginEffect DEF TypeOK, Quiet, table
  <2>2. Checked(c)
    BY <1>0, <1>1, BeginEffect DEF TypeOK, Writing
  <2> QED  BY <2>1, <2>2
<1>2. ASSUME NEW c \in Calls, BeginList(r, c)  PROVE FALSE
  BY <1>0, <1>2 DEF TypeOK, BeginList, Writing
<1>3. CASE CreateFlush(r) \/ UpdateFlush(r) \/ DeleteFlush(r) \/ UpdateRefresh(r)
  BY <1>3 DEF CreateFlush, UpdateFlush, DeleteFlush, UpdateRefresh, Writing
<1>6. CASE DropWork(r)
  BY <1>6, DropEffect DEF DropMove, Writing
<1>4. CASE Scan(r) \/ Del(r) \/ PurgeFails(r) \/ Dispatch(r)
  BY <1>4 DEF Scan, Del, PurgeFails, Dispatch, Writing
<1>5. CASE Commit(r) \/ Abort(r) \/ Count(r) \/ Select(r) \/ Fill(r) \/ FillFails(r)
  BY <1>0, <1>5 DEF TypeOK, Commit, Abort, Undo, Count, Select, Fill, FillFails, Writing
<1> QED
  BY <1>1, <1>2, <1>3, <1>4, <1>5, <1>6 DEF Step, Proceed, Flush, DropWork

(* Apart from a commit the committed rows stay, and apart from an INSERT   *)
(* that draws one the ids.                                                 *)
LEMMA TableSame ==
    ASSUME Ind, NEW r \in Req, Step(r)
    PROVE  /\ \/ UNCHANGED <<projects, tasks>>
              \/ Commit(r) /\ pend[r] # NoPending
           /\ issued \subseteq issued'
BY TableStep, DropEffect DEF DropMove, Quiet, CreateFlush, UpdateFlush, DeleteFlush, Abort, Undo,
                             Commit, table

(* Rows and the inserts pending, after a step of r.                        *)
LEMMA InsertStep ==
    ASSUME Ind, NEW r \in Req, Step(r), NEW s \in Req, Writes(s, "insert")'
    PROVE  \/ Writes(s, "insert") /\ pend'[s] = pend[s]
           \/ /\ s = r /\ CreateFlush(r) /\ pend'[r].task \notin issued
              /\ pend'[r].task \in issued' /\ pend'[r].task \in Task
              /\ pend'[r].row = call[r].row
              /\ UNCHANGED <<projects, tasks>>
              /\ call[r].row.project \in projects /\ ~Dropped(r, call[r].row.project)
<1>0. TypeOK  BY DEF Ind
<1>1. CASE s # r
  BY <1>0, <1>1, StepFrame DEF Writes
<1>2. CASE s = r
  <2>1. CASE Quiet
    BY <1>2, <2>1 DEF Quiet, Writes
  <2>2. CASE CreateFlush(r) /\ pc'[r] = "scan"
    <3>1. PICK t \in Task \ issued :
            /\ pend' = [pend EXCEPT ![r] =
                  [kind |-> "insert", task |-> t, row |-> call[r].row]]
            /\ issued' = issued \cup {t}
            /\ call[r].row.project \in projects /\ ~Dropped(r, call[r].row.project)
      BY <1>0, <2>2 DEF TypeOK, CreateFlush, Fail
    <3>2. pend'[r].task = t /\ pend'[r].row = call[r].row  BY <1>0, <3>1 DEF TypeOK
    <3> QED  BY <1>2, <2>2, <3>1, <3>2 DEF CreateFlush
  <2>3. CASE UpdateFlush(r) /\ pend' # pend
    BY <1>0, <1>2, <2>3 DEF TypeOK, UpdateFlush, Fail, Writes
  <2>4. CASE DeleteFlush(r)
    BY <1>0, <1>2, <2>4 DEF TypeOK, DeleteFlush, Writes
  <2>6. CASE DropWork(r)
    BY <1>2, <2>6, DropPends DEF Writes
  <2>5. CASE Abort(r) \/ Commit(r)
    BY <1>0, <1>2, <2>5 DEF TypeOK, Abort, Undo, Commit, Writes
  <2> QED  BY <2>1, <2>2, <2>3, <2>4, <2>5, <2>6, TableStep
<1> QED  BY <1>1, <1>2

LEMMA IdStep ==
    ASSUME Ind, NEW r \in Req, Step(r)
    PROVE  IdInv'
<1>1. TypeOK /\ IdInv  BY DEF Ind
<1>2. ASSUME NEW t \in Task, tasks'[t] # NoRow  PROVE t \in issued'
  <2>1. CASE UNCHANGED tasks
    BY <1>1, <1>2, <2>1, TableSame DEF IdInv
  <2>2. CASE Commit(r) /\ pend[r] # NoPending
    BY <1>1, <1>2, <2>2, TableSame, CommitRows DEF IdInv
  <2> QED  BY <2>1, <2>2, TableSame
<1>3. ASSUME NEW s \in Req, Writes(s, "insert")'
      PROVE  /\ pend'[s].task \in issued'
             /\ tasks'[pend'[s].task] = NoRow
  <2>1. CASE Writes(s, "insert") /\ pend'[s] = pend[s]
    <3>1. pend[s].task \in Task  BY <1>1, <2>1, PendingFields DEF TypeOK, Writes
    <3>2. pend[s].task \in issued /\ tasks[pend[s].task] = NoRow
      BY <1>1, <2>1 DEF IdInv
    <3>3. CASE UNCHANGED tasks
      BY <2>1, <3>2, <3>3, TableSame
    <3>4. CASE Commit(r) /\ pend[r] # NoPending
      <4>1. s # r
        BY <1>1, <1>3, <3>4 DEF TypeOK, Commit, Writes
      <4>2. ~(Writes(r, "insert") /\ pend[r].task = pend[s].task)
        BY <1>1, <2>1, <4>1 DEF IdInv
      <4>3. tasks'[pend[s].task] = NoRow
        BY <3>1, <3>2, <3>4, <4>2, CommitRows
      <4> QED  BY <2>1, <3>2, <4>3, TableSame
    <3> QED  BY <3>3, <3>4, TableSame
  <2>2. CASE /\ s = r /\ pend'[r].task \notin issued /\ pend'[r].task \in issued'
             /\ pend'[r].task \in Task /\ UNCHANGED <<projects, tasks>>
    BY <1>1, <2>2 DEF IdInv
  <2> QED  BY <1>3, <2>1, <2>2, InsertStep
<1>4. ASSUME NEW s \in Req, Writes(s, "insert")',
             NEW s2 \in Req \ {s}, Writes(s2, "insert")'
      PROVE  pend'[s2].task # pend'[s].task
  <2>1. \/ Writes(s, "insert") /\ pend'[s] = pend[s]
        \/ s = r /\ pend'[s].task \notin issued
    BY <1>4, InsertStep
  <2>2. \/ Writes(s2, "insert") /\ pend'[s2] = pend[s2]
        \/ s2 = r /\ pend'[s2].task \notin issued
    BY <1>4, InsertStep
  <2> QED  BY <1>1, <1>4, <2>1, <2>2 DEF IdInv
<1>5. ASSUME NEW s \in Req, pc'[s] \in Writing, call'[s].op \in {"update", "delete"}
      PROVE  /\ call'[s].task \in issued'
             /\ \A s2 \in Req : Writes(s2, "insert")' => pend'[s2].task # call'[s].task
  <2>1. CASE pc[s] \in Writing /\ call'[s] = call[s]
    <3>1. /\ call[s].task \in issued
          /\ \A s2 \in Req : Writes(s2, "insert") => pend[s2].task # call[s].task
      BY <1>1, <1>5, <2>1 DEF IdInv
    <3>2. ASSUME NEW s2 \in Req, Writes(s2, "insert")'
          PROVE pend'[s2].task # call[s].task
      <4>1. \/ Writes(s2, "insert") /\ pend'[s2] = pend[s2]
            \/ s2 = r /\ pend'[s2].task \notin issued
        BY <3>2, InsertStep
      <4> QED  BY <3>1, <4>1
    <3> QED  BY <2>1, <3>1, <3>2, TableSame
  <2>2. CASE Quiet /\ call'[s] \in Call /\ Checked(call'[s])
    <3>1. call'[s].task \in Task /\ tasks[call'[s].task] # NoRow
      BY <1>5, <2>2, CallFields DEF Checked
    <3>2. call'[s].task \in issued  BY <1>1, <3>1 DEF IdInv
    <3>3. ASSUME NEW s2 \in Req, Writes(s2, "insert")'
          PROVE pend'[s2].task # call'[s].task
      <4>1. Writes(s2, "insert") /\ pend'[s2] = pend[s2]
        BY <2>2, <3>3 DEF Quiet, Writes
      <4> QED  BY <1>1, <3>1, <4>1 DEF IdInv
    <3> QED  BY <2>2, <3>2, <3>3 DEF Quiet
  <2>3. (pc[s] \in Writing /\ call'[s] = call[s])
          \/ (Quiet /\ call'[s] \in Call /\ Checked(call'[s]))
    BY <1>1, <1>5, WritingStep, StepFrame
  <2> QED  BY <2>1, <2>2, <2>3
<1> QED  BY <1>2, <1>3, <1>4, <1>5 DEF IdInv

(* A deletion that is under way goes on or ends.                           *)
LEMMA DropMoves ==
    ASSUME NEW r \in Req, Step(r), pc[r] \in {"rows", "cascade", "commit"}
    PROVE  \/ pc[r] = "rows" /\ (DeleteRow(r) \/ DropProject(r))
           \/ pc[r] = "cascade" /\ CascadeRow(r)
           \/ Abort(r) \/ Commit(r)
<1>1. ASSUME NEW c \in Calls PROVE ~BeginWrite(r, c) /\ ~BeginList(r, c)
  BY DEF BeginWrite, BeginCreate, BeginUpdate, BeginDelete, BeginDrop, Begin, BeginList
<1>2. ~Flush(r) /\ ~UpdateRefresh(r)
  BY DEF Flush, CreateFlush, UpdateFlush, DeleteFlush, DropLoad, UpdateRefresh
<1>3. ~Scan(r) /\ ~Del(r) /\ ~PurgeFails(r) /\ ~Dispatch(r)
  BY DEF Scan, Del, PurgeFails, Dispatch
<1>4. ~Count(r) /\ ~Select(r) /\ ~Fill(r) /\ ~FillFails(r)
  BY DEF Count, Select, Fill, FillFails
<1>5. Deletion(r) => \/ pc[r] = "rows" /\ (DeleteRow(r) \/ DropProject(r))
                     \/ pc[r] = "cascade" /\ CascadeRow(r)
  BY DEF Deletion, DeleteRow, DropProject, CascadeRow
<1> QED  BY <1>1, <1>2, <1>3, <1>4, <1>5 DEF Step, Proceed

(* Where a deletion of a project is.                                       *)
LEMMA DropPlace ==
    ASSUME Ind, NEW r \in Req, Writes(r, "drop")
    PROVE  /\ pc[r] \in {"rows", "cascade", "commit"}
           /\ call[r].op = "drop" /\ pend[r].project = call[r].project
<1>1. PlaceOK(pc[r], call[r], loaded[r], purge[r])
      /\ PendOK(pc[r], call[r], loaded[r], pend[r])
  BY DEF Ind, PlaceInv, PendInv
<1> QED  BY <1>1 DEF PlaceOK, PendOK, Writes, Writing

(* A request writes a deletion only by the steps of one.                   *)
LEMMA DropOwn ==
    ASSUME Ind, NEW r \in Req, Step(r), Writes(r, "drop")'
    PROVE  DropWork(r)
<1>0. TypeOK  BY DEF Ind
<1>1. ~Abort(r) /\ ~Commit(r)
  BY <1>0 DEF TypeOK, Abort, Undo, Commit, Writes
<1>2. CASE Writes(r, "drop")
  BY <1>1, <1>2, DropPlace, DropMoves DEF DropWork, Deletion
<1>3. CASE ~Writes(r, "drop")
  <2>1. ~Quiet  BY <1>3 DEF Quiet, Writes
  <2>2. ~(CreateFlush(r) /\ pc'[r] = "scan")
    BY <1>0 DEF TypeOK, CreateFlush, Fail, Writes
  <2>3. ~(UpdateFlush(r) /\ pend' # pend)
    BY <1>0 DEF TypeOK, UpdateFlush, Fail, Writes
  <2>4. ~DeleteFlush(r)
    BY <1>0 DEF TypeOK, DeleteFlush, Writes
  <2> QED  BY <1>1, <2>1, <2>2, <2>3, <2>4, TableStep
<1> QED  BY <1>2, <1>3

(* Only the DELETE of the project itself takes the lock on its row.        *)
LEMMA DropsStep ==
    ASSUME Ind, NEW r \in Req, Step(r), NEW p, Drops(r, p)', ~Drops(r, p)
    PROVE  DropProject(r)
<1>0. TypeOK  BY DEF Ind
<1>1. pc'[r] \in {"cascade", "commit"} /\ Writes(r, "drop")' /\ pend'[r].project = p
  BY DEF Drops
<1>2. DropWork(r)  BY <1>1, DropOwn
<1>3. ~DropLoad(r)  BY <1>0, <1>1 DEF TypeOK, DropLoad
<1>4. ~DeleteRow(r)
  <2> SUFFICES ASSUME DeleteRow(r) PROVE FALSE
    OBVIOUS
  <2> QED  BY <1>1 DEF DeleteRow
<1>5. ~CascadeRow(r)
  <2> SUFFICES ASSUME CascadeRow(r) PROVE FALSE
    OBVIOUS
  <2>1. pc[r] = "cascade" /\ pend'[r].project = call[r].project
    BY <1>0 DEF TypeOK, CascadeRow, Take
  <2>2. Writes(r, "drop") /\ pend[r].project = call[r].project
    BY <2>1 DEF Ind, PendInv, PendOK, Writing, Writes
  <2> QED  BY <1>1, <2>1, <2>2 DEF Drops
<1> QED  BY <1>2, <1>3, <1>4, <1>5 DEF DropWork, Deletion

LEMMA ProjectStep ==
    ASSUME Ind, NEW r \in Req, Step(r)
    PROVE  ProjectInv'
<1>1. TypeOK /\ ProjectInv  BY DEF Ind
<1>2. ASSUME NEW t \in Task, tasks'[t] # NoRow  PROVE tasks'[t].project \in projects'
  <2>1. CASE UNCHANGED <<projects, tasks>>
    BY <1>1, <1>2, <2>1 DEF ProjectInv, ReferentialIntegrity
  <2>2. CASE Commit(r) /\ pend[r] # NoPending
    <3>1. tasks'[t].project \in projects
      BY <1>1, <1>2, <2>2, CommitRows DEF ProjectInv, ReferentialIntegrity
    <3>2. projects' = IF pend[r].kind = "drop" THEN projects \ {pend[r].project}
                                              ELSE projects
      BY <2>2 DEF Commit
    <3>3. Writes(r, "drop") => tasks'[t].project # pend[r].project
      BY <1>2, <2>2, CommitRows
    <3> QED  BY <2>2, <3>1, <3>2, <3>3 DEF Writes
  <2> QED  BY <2>1, <2>2, TableSame
<1>3. ASSUME NEW s \in Req, Writes(s, "insert")'
      PROVE  pend'[s].row.project \in projects'
  <2>1. CASE Writes(s, "insert") /\ pend'[s] = pend[s]
    <3>1. pend[s].row.project \in projects  BY <1>1, <2>1 DEF ProjectInv
    <3>2. CASE UNCHANGED projects
      BY <2>1, <3>1, <3>2
    <3>3. CASE Commit(r) /\ pend[r] # NoPending
      <4>1. projects' = IF pend[r].kind = "drop" THEN projects \ {pend[r].project}
                                                ELSE projects
        BY <3>3 DEF Commit
      <4>2. Writes(r, "drop") => pend[r].project # pend[s].row.project
        BY <1>1, <2>1, <3>3 DEF ProjectInv, Drops, Commit
      <4> QED  BY <2>1, <3>1, <3>3, <4>1, <4>2 DEF Writes
    <3> QED  BY <3>2, <3>3, TableSame
  <2>2. CASE /\ s = r /\ pend'[r].row = call[r].row /\ UNCHANGED <<projects, tasks>>
             /\ call[r].row.project \in projects
    BY <2>2
  <2> QED  BY <1>3, <2>1, <2>2, InsertStep
<1>4. ASSUME NEW s \in Req, Writes(s, "insert")', NEW d \in Req,
             Drops(d, pend[s].row.project)'
      PROVE  FALSE
  <2>1. CASE Drops(d, pend'[s].row.project)
    <3>1. CASE Writes(s, "insert") /\ pend'[s] = pend[s]
      BY <1>1, <2>1, <3>1 DEF ProjectInv
    <3>2. CASE /\ s = r /\ pend'[r].row = call[r].row
               /\ ~Dropped(r, call[r].row.project)
      <4>1. d # r  BY <1>4, <3>2 DEF Writes, Drops
      <4> QED  BY <2>1, <3>2, <4>1 DEF Dropped
    <3> QED  BY <1>4, <3>1, <3>2, InsertStep
  <2>2. CASE ~Drops(d, pend'[s].row.project)
    <3>1. d = r  BY <1>1, <1>4, <2>2, StepFrame DEF Drops, Writes
    <3>2. DropProject(r)  BY <1>4, <2>2, <3>1, DropsStep
    <3>3. pend'[r].project = call[r].project /\ ~Extended(r, call[r].project)
      <4>1. DropWork(r)  BY <3>2 DEF DropWork, Deletion
      <4> QED  BY <1>1, <3>2, <4>1, DropEffect, DropPends DEF DropMove, TypeOK, DropProject, Doing
    <3>4. s # r  BY <1>4, <3>1 DEF Writes, Drops
    <3>5. Writes(s, "insert") /\ pend'[s] = pend[s]
      BY <1>1, <1>4, <3>4, StepFrame DEF Writes
    <3> QED  BY <1>4, <3>1, <3>3, <3>4, <3>5 DEF Extended, Drops
  <2> QED  BY <2>1, <2>2
<1> QED  BY <1>2, <1>3, <1>4 DEF ProjectInv, ReferentialIntegrity

(* What another request does to the rows of a deletion.                    *)
LEMMA DropOther ==
    ASSUME Ind, NEW r \in Req, Step(r), NEW s \in Req, s # r
    PROVE  DropOK(s)'
<1>0. TypeOK /\ DropOK(s)  BY DEF Ind, DropInv
<1>1. pc'[s] = pc[s] /\ pend'[s] = pend[s] /\ left'[s] = left[s]
  BY <1>0, StepFrame
<1>2. SUFFICES ASSUME Writes(s, "drop") PROVE DropOK(s)'
  BY <1>1 DEF DropOK, Writes
<1> DEFINE p == pend[s].project
<1>3. /\ pend[s] \in Pending /\ pend[s].rows \subseteq Task /\ left[s] \subseteq Task
  BY <1>0, <1>2, PendingFields DEF TypeOK, Writes
<1>4. ASSUME NEW t \in pend[s].rows PROVE tasks'[t] # NoRow /\ tasks'[t].project = p
  <2>1. t \in Task /\ tasks[t] # NoRow /\ tasks[t].project = p
    BY <1>0, <1>2, <1>3 DEF DropOK, TasksOf
  <2>2. CASE UNCHANGED tasks
    BY <2>1, <2>2
  <2>3. CASE Commit(r) /\ pend[r] # NoPending
    <3>1. Locks(s, t) /\ ~Locks(r, t)  BY <1>2, <2>1 DEF Locks, Ind, LockInv
    <3>2. tasks'[t] # NoRow  BY <2>1, <2>3, <3>1, CommitRows
    <3>3. ~(Writes(r, "insert") /\ pend[r].task = t)  BY <2>1 DEF Ind, IdInv
    <3> QED  BY <2>1, <2>3, <3>2, <3>3, CommitRows
  <2> QED  BY <2>2, <2>3, TableSame
<1>5. ASSUME NEW t \in left[s], tasks'[t] # NoRow PROVE tasks'[t].project = p
  <2>1. CASE UNCHANGED tasks
    BY <1>0, <1>2, <1>5, <2>1 DEF DropOK
  <2>2. CASE Commit(r) /\ pend[r] # NoPending
    <3>1. t \in Task /\ ~(Writes(r, "insert") /\ pend[r].task = t)
      BY <1>0, <1>2, <1>3 DEF DropOK
    <3>2. tasks[t] # NoRow /\ tasks'[t].project = tasks[t].project
      BY <1>5, <2>2, <3>1, CommitRows
    <3> QED  BY <1>0, <1>2, <3>2 DEF DropOK
  <2> QED  BY <2>1, <2>2, TableSame
<1>6. ASSUME NEW t \in left[s], NEW q \in Req, Writes(q, "insert")'
      PROVE  pend'[q].task # t
  <2>1. t \in issued  BY <1>0, <1>2 DEF DropOK
  <2>2. CASE Writes(q, "insert") /\ pend'[q] = pend[q]
    BY <1>0, <1>2, <2>2 DEF DropOK
  <2> QED  BY <1>6, <2>1, <2>2, InsertStep
<1>7. ASSUME pc[s] \in {"cascade", "commit"}, NEW t \in Task, tasks'[t] # NoRow,
             tasks'[t].project = p
      PROVE  t \in pend[s].rows \cup left[s]
  <2>1. tasks[t] # NoRow /\ tasks[t].project = p
    <3>1. CASE UNCHANGED tasks
      BY <1>7, <3>1
    <3>2. CASE Commit(r) /\ pend[r] # NoPending
      <4>1. Drops(s, p)  BY <1>2, <1>7 DEF Drops
      <4>2. Writes(r, "insert") => pend[r].row.project # p
        BY <4>1 DEF Ind, ProjectInv
      <4> QED  BY <1>7, <3>2, <4>2, CommitRows
    <3> QED  BY <3>1, <3>2, TableSame
  <2> QED  BY <1>0, <1>2, <1>7, <2>1 DEF DropOK, TasksOf
<1>8. issued \subseteq issued'  BY TableSame
<1> QED
  BY <1>0, <1>1, <1>2, <1>3, <1>4, <1>5, <1>6, <1>7, <1>8 DEF DropOK, TasksOf

(* What a deletion does itself.                                            *)
LEMMA DropSelf ==
    ASSUME Ind, NEW r \in Req, DropWork(r)
    PROVE  DropOK(r)'
<1>0. TypeOK /\ DropOK(r) /\ PendOK(pc[r], call[r], loaded[r], pend[r])
  BY DEF Ind, DropInv, PendInv
<1>1. UNCHANGED <<tasks, issued, call>>  BY DropEffect DEF DropMove, table
<1>2. ASSUME NEW q \in Req, Writes(q, "insert")'
      PROVE  Writes(q, "insert") /\ pend'[q] = pend[q]
  BY <1>2, DropPends DEF Writes
<1> DEFINE p == call[r].project
<1>3. ASSUME NEW t \in TasksOf(p)
      PROVE  /\ t \in issued /\ t \in Task
             /\ \A q \in Req : Writes(q, "insert") => pend[q].task # t
  BY DEF TasksOf, Ind, IdInv
<1>4. pc[r] \in {"rows", "cascade"} => Writes(r, "drop") /\ pend[r].project = p
  BY <1>0 DEF PendOK, Writing, Writes
(* Whatever becomes of the rows, it is enough to look at the new ones.     *)
<1>5. ASSUME NEW rows, NEW rest,
             pend'[r] = Doing(p, rows), left'[r] = rest,
             rows \subseteq TasksOf(p), rest \cap rows = {}, rest \subseteq issued,
             \A t \in rest : tasks[t] # NoRow => tasks[t].project = p,
             \A t \in rest, q \in Req : Writes(q, "insert") => pend[q].task # t,
             pc'[r] \in {"cascade", "commit"} => TasksOf(p) \subseteq rows \cup rest,
             pc'[r] = "cascade" => rest # {},
             pc'[r] = "commit" => rest = {}
      PROVE  DropOK(r)'
  <2>1. pend'[r].project = p /\ pend'[r].rows = rows  BY <1>5 DEF Doing
  <2>2. TasksOf(p)' = TasksOf(p)  BY <1>1 DEF TasksOf
  <2> QED  BY <1>1, <1>2, <1>5, <2>1, <2>2 DEF DropOK, TasksOf
<1>6. CASE DropLoad(r)
  <2>1. pend'[r] = Doing(p, {}) /\ left'[r] = TasksOf(p) /\ pc'[r] = "rows"
    BY <1>0, <1>6 DEF TypeOK, DropLoad, Doing
  <2>2. \A t \in TasksOf(p) : tasks[t].project = p  BY DEF TasksOf
  <2> QED  BY <1>3, <1>5, <2>1, <2>2
<1>7. CASE DeleteRow(r)
  <2>1. PICK t \in left[r] : Take(r, t) /\ left' = [left EXCEPT ![r] = @ \ {t}]
    BY <1>7 DEF DeleteRow
  <2>2. pc[r] = "rows" /\ pc' = pc  BY <1>7 DEF DeleteRow
  <2> DEFINE rows == pend[r].rows \cup ({t} \cap TasksOf(p))
             rest == left[r] \ {t}
  <2>3. pend'[r] = Doing(p, rows) /\ left'[r] = rest
    BY <1>0, <2>1 DEF TypeOK, Take, Doing
  <2>4. /\ rows \subseteq TasksOf(p) /\ rest \cap rows = {} /\ rest \subseteq issued
        /\ \A u \in rest : tasks[u] # NoRow => tasks[u].project = p
        /\ \A u \in rest, q \in Req : Writes(q, "insert") => pend[q].task # u
    BY <1>0, <1>4, <2>2 DEF DropOK
  <2> HIDE DEF rows, rest
  <2> QED  BY <1>5, <2>2, <2>3, <2>4
<1>8. CASE DropProject(r)
  <2> DEFINE rows == pend[r].rows
             rest == TasksOf(p) \ rows
  <2>1. /\ pc[r] = "rows" /\ Remaining(r, rest) /\ pend' = pend
    BY <1>8 DEF DropProject
  <2>2. pend'[r] = Doing(p, rows)
    BY <1>0, <1>4, <2>1 DEF TypeOK, Pending, Doing, Writes
  <2>3. left'[r] = rest /\ (pc'[r] = "commit" <=> rest = {})
    BY <1>0, <2>1 DEF TypeOK, Remaining
  <2>4. rows \subseteq TasksOf(p)  BY <1>0, <1>4, <2>1 DEF DropOK
  <2>5. /\ rest \cap rows = {} /\ rest \subseteq issued
        /\ \A u \in rest : tasks[u] # NoRow => tasks[u].project = p
        /\ \A u \in rest, q \in Req : Writes(q, "insert") => pend[q].task # u
        /\ TasksOf(p) \subseteq rows \cup rest
    BY <1>3 DEF TasksOf
  <2> HIDE DEF rows, rest
  <2> QED  BY <1>5, <2>2, <2>3, <2>4, <2>5
<1>9. CASE CascadeRow(r)
  <2>1. PICK t \in left[r] : Take(r, t) /\ Remaining(r, left[r] \ {t})
    BY <1>9 DEF CascadeRow
  <2>2. pc[r] = "cascade"  BY <1>9 DEF CascadeRow
  <2> DEFINE rows == pend[r].rows \cup ({t} \cap TasksOf(p))
             rest == left[r] \ {t}
  <2>3. pend'[r] = Doing(p, rows)  BY <1>0, <2>1 DEF TypeOK, Take, Doing
  <2>4. left'[r] = rest /\ (pc'[r] = "commit" <=> rest = {})
    BY <1>0, <2>1 DEF TypeOK, Remaining
  <2>5. /\ rows \subseteq TasksOf(p) /\ rest \cap rows = {} /\ rest \subseteq issued
        /\ \A u \in rest : tasks[u] # NoRow => tasks[u].project = p
        /\ \A u \in rest, q \in Req : Writes(q, "insert") => pend[q].task # u
        /\ TasksOf(p) \subseteq rows \cup rest
    BY <1>0, <1>4, <2>2 DEF DropOK
  <2> HIDE DEF rows, rest
  <2> QED  BY <1>5, <2>3, <2>4, <2>5
<1> QED  BY <1>6, <1>7, <1>8, <1>9 DEF DropWork, Deletion

LEMMA DropStep ==
    ASSUME Ind, NEW r \in Req, Step(r)
    PROVE  DropInv'
<1>1. DropOK(r)'
  <2>1. CASE Writes(r, "drop")'  BY <2>1, DropOwn, DropSelf
  <2>2. CASE ~Writes(r, "drop")'  BY <2>2 DEF DropOK
  <2> QED  BY <2>1, <2>2
<1> QED  BY <1>1, DropOther DEF DropInv

LEMMA CheckStep ==
    ASSUME Ind, NEW r \in Req, Step(r)
    PROVE  CheckInv'
<1>1. TypeOK /\ CheckInv  BY DEF Ind
<1>2. ASSUME NEW s \in Req, pc'[s] \in Writing
      PROVE  /\ call'[s].op = "create" =>
                   /\ Owner[call'[s].row.project] = call'[s].user
                   /\ MayAssign(call'[s].row.assignee)
             /\ call'[s].op \in {"update", "delete"} /\ tasks'[call'[s].task] # NoRow =>
                   Owner[tasks'[call'[s].task].project] = call'[s].user
             /\ call'[s].op = "update" =>
                   call'[s].data.assignee = Unset \/ MayAssign(call'[s].data.assignee)
             /\ call'[s].op = "drop" => Owner[call'[s].project] = call'[s].user
  <2>1. CASE Quiet /\ call'[s] \in Call /\ Checked(call'[s])
    BY <2>1 DEF Quiet, Checked
  <2>2. CASE pc[s] \in Writing /\ call'[s] = call[s]
    <3>1. CASE UNCHANGED tasks
      BY <1>1, <2>2, <3>1 DEF CheckInv
    <3>2. CASE Commit(r) /\ pend[r] # NoPending
      <4>1. call[s] \in Call
        BY <2>2 DEF Ind, PlaceInv, PlaceOK, Writing
      <4>2. ASSUME call[s].op \in {"update", "delete"}, tasks'[call[s].task] # NoRow
            PROVE  Owner[tasks'[call[s].task].project] = call[s].user
        <5>1. call[s].task \in Task  BY <4>1, <4>2, CallFields
        <5>2. ~(Writes(r, "insert") /\ pend[r].task = call[s].task)
          BY <2>2, <4>2 DEF Ind, IdInv
        <5>3. /\ tasks[call[s].task] # NoRow
              /\ tasks'[call[s].task].project = tasks[call[s].task].project
          BY <3>2, <4>2, <5>1, <5>2, CommitRows
        <5> QED  BY <1>1, <2>2, <4>2, <5>3 DEF CheckInv
      <4> QED  BY <1>1, <2>2, <4>2 DEF CheckInv
    <3> QED  BY <3>1, <3>2, TableSame
  <2>3. (pc[s] \in Writing /\ call'[s] = call[s])
          \/ (Quiet /\ call'[s] \in Call /\ Checked(call'[s]))
    BY <1>1, <1>2, WritingStep, StepFrame
  <2> QED  BY <2>1, <2>2, <2>3
<1> QED  BY <1>2 DEF CheckInv

-----------------------------------------------------------------------------
(* The invariant of the transactions.                                      *)

LEMMA StepType ==
    ASSUME Ind, NEW r \in Req, Step(r)
    PROVE  TypeOK'
BY BeginType, BeginListType, FlushType, DropType, RefreshType, PurgeType, DispatchType,
   CommitType, AbortType, ListType
   DEF Step, Proceed, Flush, DropWork

LEMMA InitInd == Init => Ind
<1> SUFFICES ASSUME Init PROVE Ind
  OBVIOUS
<1>1. TypeOK
  <2>1. tasks \in [Task -> Row \cup {NoRow}]  BY TablesAssumption DEF Init
  <2>2. page \in [Req -> Entry]  BY DEF Init, EmptyPage, Entry
  <2>3. purge \in [Req -> Seq(User)]  BY DEF Init
  <2> QED  BY <2>1, <2>2, <2>3 DEF Init, TypeOK, Place
<1>2. \A r \in Req : pc[r] = "idle" /\ pend[r] = NoPending /\ ~Writes(r, "insert")
        /\ ~Writes(r, "update") /\ ~Writes(r, "delete") /\ ~Writes(r, "drop")
  BY DEF Init, Writes
<1>3. PlaceInv /\ PendInv /\ CheckInv
  BY <1>2 DEF PlaceInv, PlaceOK, PendInv, PendOK, CheckInv, Writing, Flushed
<1>4. LockInv /\ IdInv
  BY <1>2 DEF Init, LockInv, Locks, IdInv, Writing
<1>5. ProjectInv
  <2>1. ASSUME NEW t \in Task, tasks[t] # NoRow  PROVE tasks[t].project \in projects
    BY <1>1, <2>1, RowFields DEF TypeOK, Init
  <2> QED  BY <1>2, <2>1 DEF ProjectInv, ReferentialIntegrity
<1>6. DropInv  BY <1>2 DEF DropInv, DropOK
<1> QED  BY <1>1, <1>3, <1>4, <1>5, <1>6 DEF Ind

LEMMA SameInd ==
    ASSUME Ind, TypeOK', UNCHANGED <<table, pc, call, loaded, pend, left, purge>>
    PROVE  Ind'
<1>1. PlaceInv' /\ PendInv'  BY DEF Ind, PlaceInv, PendInv
<1>2. LockInv'  BY DEF Ind, LockInv, Locks, Writes, table
<1>3. IdInv'  BY DEF Ind, IdInv, Writes, table
<1>4. ProjectInv'  BY DEF Ind, ProjectInv, ReferentialIntegrity, Writes, Drops, table
<1>5. CheckInv'  BY DEF Ind, CheckInv, table
<1>6. DropInv'  BY DEF Ind, DropInv, DropOK, Writes, TasksOf, table
<1> QED  BY <1>1, <1>2, <1>3, <1>4, <1>5, <1>6 DEF Ind

LEMMA NextInd == Ind /\ [Next]_vars => Ind'
<1> SUFFICES ASSUME Ind, [Next]_vars PROVE Ind'
  OBVIOUS
<1>1. ASSUME NEW r \in Req, Step(r)  PROVE Ind'
  BY <1>1, StepType, PlaceStep, PendStep, LockStep, IdStep, ProjectStep, DropStep,
     CheckStep
  DEF Ind
<1>2. ASSUME NEW k \in Key, Expire(k)  PROVE Ind'
  BY <1>2, ExpireType, SameInd DEF Expire, writer
<1>3. CASE UNCHANGED vars
  <2>1. UNCHANGED <<table, pc, call, loaded, pend, left, purge>>
    BY <1>3 DEF vars, writer
  <2>2. TypeOK'
    BY <1>3 DEF Ind, TypeOK, vars, table, jobs, writer, history
  <2> QED  BY <2>1, <2>2, SameInd
<1> QED  BY <1>1, <1>2, <1>3, NextCases

(* Every reachable state satisfies the invariant of the transactions.      *)
THEOREM IndInvariant == Spec => []Ind
<1> QED  BY InitInd, NextInd, PTL DEF Spec

(* Every variable stays in its set, whatever the number of users, tasks and*)
(* requests.                                                               *)
THEOREM TypeCorrect == Spec => []TypeOK
<1>1. Ind => TypeOK  BY DEF Ind
<1> QED  BY <1>1, IndInvariant, PTL

(* No committed task is ever without its project (ProjectService           *)
(* .delete_project against TaskService.create_task).                       *)
THEOREM NoOrphans == Spec => []ReferentialIntegrity
<1>1. Ind => ReferentialIntegrity  BY DEF Ind, ProjectInv
<1> QED  BY <1>1, IndInvariant, PTL

(* What a commit changes is what its request asked for.                     *)
LEMMA CommitAsked ==
    ASSUME Ind, NEW r \in Req, Commit(r), pend[r] # NoPending,
           NEW t \in Task, tasks'[t] # tasks[t]
    PROVE  pc[r] = "commit" /\ pc'[r] = "ok" /\ Asked(call[r], t)
<1>0. TypeOK /\ pend[r] \in Pending /\ tasks' = Committed(pend[r])
  BY DEF Ind, TypeOK, Commit
<1>1. pc[r] = "commit" /\ pc'[r] = "ok" /\ pc[r] \in Writing
  BY <1>0 DEF TypeOK, Commit, Writing
<1>2. call[r] \in Call /\ PendOK(pc[r], call[r], loaded[r], pend[r])
  BY <1>1 DEF Ind, PlaceInv, PlaceOK, PendInv
<1>3. CASE pend[r].kind = "insert"
  <2>1. pend[r].task = t /\ tasks'[t] = pend[r].row
    BY <1>0, <1>3 DEF TypeOK, Committed
  <2>2. tasks[t] = NoRow
    BY <1>3, <2>1 DEF Ind, IdInv, Writes
  <2>3. call[r].op = "create" /\ pend[r].row = call[r].row
        /\ Owner[call[r].row.project] = call[r].user
    BY <1>1, <1>2, <1>3 DEF PendOK, Ind, CheckInv
  <2> QED  BY <1>1, <2>1, <2>2, <2>3 DEF Asked
<1>4. CASE pend[r].kind = "update"
  <2>1. /\ pend[r].task = t
        /\ tasks'[t] = Apply(tasks[t], pend[r].changes)
    BY <1>0, <1>4 DEF TypeOK, Committed
  <2>2. tasks[t] # NoRow
    BY <1>4, <2>1 DEF Ind, LockInv, Writes
  <2>3. /\ call[r].op = "update" /\ call[r].task = t
        /\ pend[r].changes = Differing(call[r].data, loaded[r])
    BY <1>2, <1>4, <2>1 DEF PendOK
  <2>4. Owner[tasks[t].project] = call[r].user
    BY <1>1, <2>2, <2>3 DEF Ind, CheckInv
  <2>5. tasks'[t] # NoRow /\ tasks'[t].project = tasks[t].project
    <3>1. tasks[t] \in Row /\ pend[r].changes \in Changes
      BY <1>0, <1>4, <2>2, PendingFields DEF TypeOK
    <3>2. Apply(tasks[t], pend[r].changes) \in Row
          /\ Apply(tasks[t], pend[r].changes).project = tasks[t].project
      BY <3>1, ApplyType
    <3> QED  BY <2>1, <3>2, RowFields
  <2>6. /\ tasks'[t].status \in {tasks[t].status, call[r].data.status}
        /\ tasks'[t].assignee \in {tasks[t].assignee, call[r].data.assignee}
        /\ tasks'[t].detail \in {tasks[t].detail, call[r].data.detail}
    BY <2>1, <2>3 DEF Apply, Differing
  <2> QED  BY <1>1, <2>2, <2>3, <2>4, <2>5, <2>6 DEF Asked
<1>5. CASE pend[r].kind = "delete"
  <2>1. pend[r].task = t /\ tasks'[t] = NoRow
    BY <1>0, <1>5 DEF TypeOK, Committed
  <2>2. call[r].op = "delete" /\ call[r].task = t
    BY <1>2, <1>5, <2>1 DEF PendOK
  <2>3. Owner[tasks[t].project] = call[r].user
    BY <1>1, <2>1, <2>2 DEF Ind, CheckInv
  <2> QED  BY <1>1, <2>1, <2>2, <2>3 DEF Asked
<1>6. CASE pend[r].kind = "drop"
  <2>1. /\ tasks'[t] = NoRow /\ tasks[t].project = pend[r].project
    <3>1. t \in pend[r].rows /\ tasks'[t] = NoRow  BY <1>0, <1>6 DEF TypeOK, Committed
    <3>2. Writes(r, "drop")  BY <1>6 DEF Writes
    <3> QED  BY <3>1, <3>2 DEF Ind, DropInv, DropOK, TasksOf
  <2>2. call[r].op = "drop" /\ pend[r].project = call[r].project
        /\ Owner[call[r].project] = call[r].user
    BY <1>1, <1>2, <1>6 DEF PendOK, Ind, CheckInv
  <2> QED  BY <1>1, <2>1, <2>2 DEF Asked
<1> QED  BY <1>0, <1>3, <1>4, <1>5, <1>6, PendingFields

(* A row changes only by the commit of a request of its project's owner,   *)
(* and only in the fields that request asked for.                          *)
THEOREM WritesAsAsked == Spec => OnlyAsAsked
<1>1. Ind /\ [Next]_vars =>
        [\A t \in Task : tasks'[t] # tasks[t] =>
           \E r \in Req : pc[r] = "commit" /\ pc'[r] = "ok" /\ Asked(call[r], t)]_vars
  <2> SUFFICES ASSUME Ind, [Next]_vars, NEW t \in Task, tasks'[t] # tasks[t]
               PROVE  \E r \in Req : pc[r] = "commit" /\ pc'[r] = "ok"
                                       /\ Asked(call[r], t)
    OBVIOUS
  <2>1. PICK r \in Req : Step(r)
    <3>1. ~UNCHANGED vars  BY DEF vars, table
    <3>2. ~(\E k \in Key : Expire(k))  BY DEF Expire, table
    <3> QED  BY <3>1, <3>2, NextCases
  <2>2. Commit(r) /\ pend[r] # NoPending  BY <2>1, TableSame
  <2> QED  BY <2>2, CommitAsked
<1> QED  BY <1>1, IndInvariant, PTL DEF Spec, OnlyAsAsked


-----------------------------------------------------------------------------
(* Who waits for whom.                                                     *)

(* Whoever is waited for and waits himself is deleting a project: the other*)
(* handlers have one flush, and come to it without any lock.               *)
LEMMA HoldersDrop ==
    ASSUME Ind, NEW r \in Req, NEW s \in Req, NEW q \in Req,
           WaitsFor(r, s), WaitsFor(s, q)
    PROVE  Writes(s, "drop") /\ pc[s] \in {"rows", "cascade"}
<1>1. pend[s] # NoPending  BY DEF WaitsFor, Drops, Locks, Writes
<1>2. pc[s] \in {"flush", "rows", "cascade"}  BY DEF WaitsFor
<1>3. PendOK(pc[s], call[s], loaded[s], pend[s])  BY DEF Ind, PendInv
<1> QED  BY <1>1, <1>2, <1>3 DEF PendOK, Writing, Writes

(* Of two deletions one waits for the other only if they delete the same   *)
(* project.                                                                *)
LEMMA DropsMeet ==
    ASSUME Ind, NEW r \in Req, NEW s \in Req, WaitsFor(r, s),
           Writes(r, "drop"), Writes(s, "drop")
    PROVE  r # s /\ pend[r].project = pend[s].project
<1>1. pc[r] \in {"rows", "cascade", "commit"} /\ pend[r].project = call[r].project
  BY DropPlace
<1>2. r # s  BY DEF WaitsFor
<1>3. CASE Drops(s, call[r].project)
  BY <1>1, <1>2, <1>3 DEF Drops
<1>4. CASE \E t \in left[r] : Locks(s, t)
  <2>1. PICK t \in left[r] : Locks(s, t)  BY <1>4
  <2>2. t \in pend[s].rows  BY <2>1 DEF Locks, Writes
  <2>3. tasks[t] # NoRow /\ tasks[t].project = pend[s].project
    BY <2>2 DEF Ind, DropInv, DropOK, TasksOf
  <2>4. tasks[t].project = pend[r].project
    BY <2>1, <2>3 DEF Ind, DropInv, DropOK
  <2> QED  BY <1>2, <2>3, <2>4
<1> QED  BY <1>1, <1>3, <1>4 DEF WaitsFor, Writes

(* For any number of requests: a deadlock always has two deletions of one  *)
(* project in it (ProjectService.delete_project), since the other handlers *)
(* hold no lock while they wait for one.                                   *)
THEOREM OnlyDeletionsDeadlock == Spec => []DeadlocksAreDeletions
<1>1. ASSUME Ind, NEW S \in SUBSET Req, Deadlocked(S)
      PROVE  \E r, s \in S : /\ r # s /\ call[r].op = "drop" /\ call[s].op = "drop"
                              /\ call[r].project = call[s].project
  <2>1. \A r \in S : \E s \in S : WaitsFor(r, s)  BY <1>1 DEF Deadlocked
  <2>2. PICK q \in S : TRUE  BY <1>1 DEF Deadlocked
  <2>3. PICK r \in S : WaitsFor(q, r)  BY <2>1
  <2>4. PICK s \in S : WaitsFor(r, s)  BY <2>1
  <2>5. PICK d \in S : WaitsFor(s, d)  BY <2>1
  <2>6. Writes(r, "drop") /\ Writes(s, "drop")
    BY <1>1, <2>3, <2>4, <2>5, HoldersDrop
  <2>7. r # s /\ pend[r].project = pend[s].project
    BY <1>1, <2>4, <2>6, DropsMeet
  <2> QED  BY <1>1, <2>6, <2>7, DropPlace
<1>2. Ind => DeadlocksAreDeletions  BY <1>1 DEF DeadlocksAreDeletions
<1> QED  BY <1>2, IndInvariant, PTL

(* The guards of a step of Proceed(r) hold.                                *)
Free(r) ==
    \/ InFlight(r) /\ pc[r] \notin {"flush", "rows", "cascade"}
    \/ /\ pc[r] = "flush" /\ call[r].op = "create"
       /\ ~Dropped(r, call[r].row.project)
       /\ call[r].row.project \in projects =>
             \E t \in Task \ issued : First(t, Task \ issued)
    \/ /\ pc[r] = "flush" /\ call[r].op = "update"
       /\ Differing(call[r].data, loaded[r]) # NoChange => ~Locked(r, call[r].task)
    \/ pc[r] = "flush" /\ call[r].op = "delete" /\ ~Locked(r, call[r].task)
    \/ pc[r] = "flush" /\ call[r].op = "drop"
    \/ pc[r] = "rows" /\ \E t \in left[r] : First(t, left[r]) /\ ~Locked(r, t)
    \/ /\ pc[r] = "rows" /\ left[r] = {}
       /\ ~Dropped(r, call[r].project) /\ ~Extended(r, call[r].project)
    \/ pc[r] = "cascade" /\ \E t \in left[r] : ~Locked(r, t)

(* Requests that wait for none but each other, and have not ended.         *)
Apart(S) ==
    /\ S # {} /\ \A r \in S : InFlight(r)
    /\ \A r \in S, s \in Req : WaitsFor(r, s) => s \in S

(* Among them one goes on or is aborted; the model's ids may run out, those*)
(* of PostgreSQL do not.                                                   *)
SomebodyGoesOn ==
    \A S \in SUBSET Req : IsFiniteSet(S) /\ Apart(S) =>
        Task \subseteq issued \/ \E r \in S : Free(r) \/ Victim(r)

(* A set of ids that is not empty has a first one.                         *)
LEMMA FirstOf ==
    ASSUME NEW W, W \subseteq Nat, W # {}
    PROVE  \E n \in W : First(n, W)
<1> DEFINE R == OpToRel(<, Nat)
<1>1. PICK n \in W : \A m \in W : ~(<<m, n>> \in R)
  <2> HIDE DEF R
  <2>1. IsWellFoundedOn(R, Nat)  BY NatLessThanWellFounded DEF R
  <2> QED  BY <2>1, WFMin
<1>2. \A m \in W : ~(m < n)  BY <1>1 DEF OpToRel
<1> QED  BY <1>2 DEF First

(* Who cannot go on waits for another request.                             *)
LEMMA FreeOrWaits ==
    ASSUME Ind, NEW r \in Req, InFlight(r), ~Free(r), ~(Task \subseteq issued)
    PROVE  \E s \in Req : WaitsFor(r, s)
<1>0. TypeOK /\ PlaceOK(pc[r], call[r], loaded[r], purge[r])
  BY DEF Ind, PlaceInv
<1>1. CASE pc[r] = "flush"
  <2>1. call[r] \in Call /\ call[r].op # "list"  BY <1>0, <1>1 DEF PlaceOK, Writing
  <2>2. call[r].op \in {"create", "update", "delete", "drop"}  BY <2>1, CallFields
  <2>3. \E t \in Task \ issued : First(t, Task \ issued)
    <3>1. Task \ issued \subseteq Nat /\ Task \ issued # {}  BY IdsAssumption
    <3> QED  BY <3>1, FirstOf
  <2> QED  BY <1>1, <2>2, <2>3 DEF Free, WaitsFor, Dropped, Locked
<1>2. CASE pc[r] = "rows" /\ left[r] # {}
  <2>1. left[r] \subseteq Nat  BY <1>0, IdsAssumption DEF TypeOK
  <2>2. PICK t \in left[r] : First(t, left[r])  BY <1>2, <2>1, FirstOf
  <2> QED  BY <1>2, <2>2 DEF Free, WaitsFor, Locked
<1>3. CASE pc[r] = "rows" /\ left[r] = {}
  BY <1>3 DEF Free, WaitsFor, Dropped, Extended
<1>4. CASE pc[r] = "cascade"
  <2>1. Writes(r, "drop")  BY <1>4 DEF Ind, PendInv, PendOK, Writes
  <2>2. left[r] # {}  BY <1>4, <2>1 DEF Ind, DropInv, DropOK
  <2> QED  BY <1>4, <2>2 DEF Free, WaitsFor, Locked
<1> QED  BY <1>1, <1>2, <1>3, <1>4 DEF Free

(* A finite deadlock contains one that has no smaller one inside.          *)
LEMMA SmallestDeadlock ==
    ASSUME NEW S \in SUBSET Req, IsFiniteSet(S), Deadlocked(S)
    PROVE  \E r \in S : Victim(r)
<1> DEFINE Sizes == {Cardinality(T) : T \in {U \in SUBSET S : Deadlocked(U)}}
<1>1. \A T \in SUBSET S : IsFiniteSet(T) /\ Cardinality(T) \in Nat
  BY FS_Subset, FS_CardinalityType
<1>2. PICK k \in Sizes : First(k, Sizes)
  <2>1. Sizes \subseteq Nat /\ Sizes # {}  BY <1>1
  <2> HIDE DEF Sizes
  <2> QED  BY <2>1, FirstOf
<1>3. PICK T \in SUBSET S : Deadlocked(T) /\ Cardinality(T) = k
  OBVIOUS
<1>4. ASSUME NEW U \in SUBSET T, Deadlocked(U) PROVE U = T
  <2>1. U \in SUBSET S /\ Cardinality(T) <= Cardinality(U)
    BY <1>2, <1>3, <1>4 DEF First
  <2>2. /\ IsFiniteSet(T) /\ Cardinality(T) \in Nat /\ Cardinality(U) \in Nat
        /\ Cardinality(U) <= Cardinality(T)
        /\ Cardinality(T) = Cardinality(U) => T = U
    BY <1>1, <2>1, FS_Subset
  <2> HIDE DEF Sizes
  <2> QED  BY <2>1, <2>2
<1>5. PICK r \in T : TRUE  BY <1>3 DEF Deadlocked
<1> HIDE DEF Sizes
<1> QED  BY <1>3, <1>4, <1>5 DEF Victim

(* Whoever waits for a lock waits, perhaps through others, for a request   *)
(* that can go on or for a deadlock of which PostgreSQL aborts one: what   *)
(* RequestsFinish needs besides fairness, for any number of requests.      *)
THEOREM NobodyIsStuck == Spec => []SomebodyGoesOn
<1>1. ASSUME Ind PROVE SomebodyGoesOn
  <2> SUFFICES ASSUME NEW S \in SUBSET Req, IsFiniteSet(S), Apart(S),
                      ~(Task \subseteq issued), \A r \in S : ~Free(r)
               PROVE  \E r \in S : Victim(r)
    BY DEF SomebodyGoesOn
  <2>1. \A r \in S : \E s \in S : WaitsFor(r, s)
    BY <1>1, FreeOrWaits DEF Apart
  <2>2. Deadlocked(S)  BY <2>1 DEF Deadlocked, Apart
  <2> QED  BY <2>2, SmallestDeadlock
<1> QED  BY <1>1, IndInvariant, PTL
=============================================================================
