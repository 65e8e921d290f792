----------------------------- MODULE MCAccounts -----------------------------
(***************************************************************************)
(* A small instance of Accounts for TLC: an account with a project, and    *)
(* emails of two more mailboxes, one of them in two spellings.             *)
(***************************************************************************)
EXTENDS Accounts, TLC

CONSTANTS r1, r2, r3, a1, a2, a3, e1, e2, E2, x, y, m, n

MCLower == (e1 :> e1) @@ (e2 :> e2) @@ (E2 :> e2)

MCAccount(e) == [email |-> e, password |-> x, name |-> m, active |-> TRUE]

MCAccounts1 == (a1 :> MCAccount(e1)) @@ (a2 :> NoAccount) @@ (a3 :> NoAccount)
MCProjects  == (1 :> [owner |-> a1, name |-> m, note |-> None]) @@ (2 :> NotYet)

MCCalls ==
    {[op |-> "signup", email |-> e, password |-> x, name |-> None] : e \in {e2, E2}}
    \cup {[op |-> "login", email |-> E2, password |-> w] : w \in {x, y}}
    \cup {[op |-> "get_me", token |-> BadToken]}
    \cup {[op |-> "update_me", token |-> a1, name |-> b[1], password |-> b[2]] :
              b \in {<<n, None>>, <<m, None>>, <<None, y>>, <<n, y>>}}
    \cup [op : {"create_project"}, token : {a1}, name : {n}, note : {None}]
    \cup [op : {"list_projects"}, token : {a1, a2}, page : {1, 2}]
    \cup [op : {"get_project", "delete_project"}, token : {a1, a2}, project : {1}]
    \cup {[op |-> "update_project", token |-> a, project |-> 1,
            name |-> b[1], note |-> b[2]] :
              a \in {a1, a2}, b \in {<<n, Unset>>, <<None, Unset>>, <<Unset, n>>}}

MCSymmetry == Permutations({r1, r2, r3})
=============================================================================
