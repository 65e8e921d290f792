------------------------------ MODULE TaskTable ------------------------------
(***************************************************************************)
(* What the task table promises whoever looks only at committed rows: each *)
(* step is one whole write.  An id names at most one task for ever, a row  *)
(* is inserted only into a project that exists, stays in it, is assigned   *)
(* only to active users, is never brought back once it is gone, and goes   *)
(* with its project in one step.                                           *)
(***************************************************************************)
EXTENDS TaskData

CONSTANT InitialTables

VARIABLES
    projects,   \* the projects that exist
    tasks,      \* the rows
    unused      \* the ids that no row has had yet

Insert(t, row) ==
    /\ t \in unused
    /\ row.project \in projects
    /\ MayAssign(row.assignee)
    /\ tasks' = [tasks EXCEPT ![t] = row]
    /\ unused' = unused \ {t}
    /\ UNCHANGED projects

(* The transaction that had drawn the id is rolled back.                   *)
Waste(t) ==
    /\ t \in unused
    /\ unused' = unused \ {t}
    /\ UNCHANGED <<projects, tasks>>

Change(t, c) ==
    /\ tasks[t] # NoRow
    /\ c.assignee = Unset \/ MayAssign(c.assignee)
    /\ tasks' = [tasks EXCEPT ![t] = Apply(@, c)]
    /\ UNCHANGED <<projects, unused>>

Remove(t) ==
    /\ tasks[t] # NoRow
    /\ tasks' = [tasks EXCEPT ![t] = NoRow]
    /\ UNCHANGED <<projects, unused>>

RemoveProject(p) ==
    /\ p \in projects
    /\ projects' = projects \ {p}
    /\ tasks' = [t \in Task |-> IF tasks[t] # NoRow /\ tasks[t].project = p
                                THEN NoRow ELSE tasks[t]]
    /\ UNCHANGED unused

Init ==
    /\ projects = Project
    /\ tasks \in InitialTables
    /\ unused = {t \in Task : tasks[t] = NoRow}

Next ==
    \/ \E t \in Task :
          \/ \E row \in Row : Insert(t, row)
          \/ Waste(t)
          \/ \E c \in Changes : Change(t, c)
          \/ Remove(t)
    \/ \E p \in Project : RemoveProject(p)

Spec == Init /\ [][Next]_<<projects, tasks, unused>>
=============================================================================
