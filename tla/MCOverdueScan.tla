--------------------------- MODULE MCOverdueScan ---------------------------
(***************************************************************************)
(* Small instances of OverdueScan for TLC.                                 *)
(***************************************************************************)
EXTENDS OverdueScan, TLC

CONSTANTS t1, t2, p1, u1, u2, w1, w2

MCProjectOf == (t1 :> p1) @@ (t2 :> p1)
MCOwnerOf   == p1 :> u1

(* t1 may be put off or done, t2 may change hands.                         *)
Late(a) == [overdue |-> TRUE, assignee |-> a]
MCRows  == (t1 :> {Late(None), [Late(None) EXCEPT !.overdue = FALSE]})
             @@ (t2 :> {Late(None), Late(u2)})

(* Both may be put off, neither changes hands.                             *)
LiveRows == [t \in {t1, t2} |-> {Late(None), [Late(None) EXCEPT !.overdue = FALSE]}]

MCSymmetry == Permutations({w1, w2})
=============================================================================
