------------------------------ MODULE MCTaskApi ------------------------------
(***************************************************************************)
(* Small instances of TaskApi for TLC.                                     *)
(***************************************************************************)
EXTENDS TaskApi, TLC

CONSTANTS u1, u2, u3, p1, p2, d1, d2, r1, r2, r3

t1 == 1
t2 == 2

(* u3 has no active account.  p1 is u1's project, p2 is u2's.              *)
MCOwner == (p1 :> u1) @@ (p2 :> u2)

MCRow(p, s, a) == [project |-> p, status |-> s, assignee |-> a, detail |-> d1]

(* A task in each project, and ids to come.                                *)
MCTables == {[t \in Task |-> CASE t = t1 -> MCRow(p1, "todo", None)
                               [] t = t2 -> MCRow(p2, "todo", u1)
                               [] OTHER  -> NoRow]}

NoQuery == [project |-> None, status |-> None, assignee |-> None, due |-> {d1, d2}]

TodoQuery == [NoQuery EXCEPT !.status = "todo"]

MCQueries == {NoQuery, TodoQuery}

Create(u, p, a) == [op |-> "create", user |-> u, row |-> MCRow(p, "todo", a)]
Patch(u, t, s, a) == [op |-> "update", user |-> u, task |-> t,
                      data |-> [status |-> s, assignee |-> a, detail |-> Unset]]
Delete(u, t) == [op |-> "delete", user |-> u, task |-> t]
Drop(u, p) == [op |-> "drop", user |-> u, project |-> p]
List(u, q) == [op |-> "list", user |-> u, query |-> q]

MCCalls == {Create(u1, p1, u2), Create(u1, p1, u3),
            Patch(u1, t1, "done", Unset), Patch(u1, t1, "todo", u2),
            Patch(u1, t1, Unset, None),
            Patch(u1, t1, None, Unset), Patch(u2, t1, "done", Unset),
            Delete(u1, t1), Drop(u1, p1),
            List(u1, NoQuery), List(u1, TodoQuery)}

(* Writers that wait for each other's rows, and one GET, of a project that *)
(* has a task or none: two deletions of an empty one may load it before and*)
(* after a create.                                                         *)
LiveTables == MCTables \cup {[t \in Task |-> NoRow]}

LiveCalls == {Create(u1, p1, u2), Patch(u1, t1, "done", Unset), Delete(u1, t1),
              Drop(u1, p1), List(u1, NoQuery)}

LiveQueries == {NoQuery}

(* One PATCH against one GET.                                              *)
RaceCalls == {Patch(u1, t1, "done", Unset), List(u1, NoQuery)}

MCSymmetry == Permutations({r1, r2, r3})
=============================================================================
