------------------------------ MODULE Directory ------------------------------
(***************************************************************************)
(* What the accounts and projects promise whoever looks only at committed  *)
(* rows, tokens and answers: a request takes effect in one step, the one   *)
(* in which it is answered, and a refusal has its reason at that moment.   *)
(* Only a PATCH leaves a choice: an attribute that is asked to be what the *)
(* request had loaded is not written.                                      *)
(***************************************************************************)

CONSTANTS Req, Account, Project, Lower, Calls, FirstAccounts, FirstProjects,
          None, Unset, BadToken, NoAccount, NotYet, Gone

VARIABLES
    account, project, tokens,
    asked,      \* what a request asks for: one call, or none yet
    answer      \* "none" until there is one

tables == <<account, project, tokens>>
vars == <<tables, asked, answer>>

Accounts == {a \in Account : account[a] # NoAccount}
Projects == {p \in Project : project[p] \notin {NotYet, Gone}}
Owns(a, p) == p \in Projects /\ project[p].owner = a

Open(r, c) == c \in asked[r] /\ answer[r] = "none"

Reply(r, result) == answer' = [answer EXCEPT ![r] = result] /\ UNCHANGED asked

Ask(r) ==
    /\ asked[r] = {}
    /\ \E c \in Calls :
          /\ c.op \in {"signup", "login"} \/ c.token \in tokens \cup {BadToken}
          /\ asked' = [asked EXCEPT ![r] = {c}]
    /\ UNCHANGED <<tables, answer>>

Holders(c) == {a \in Accounts : account[a].email = Lower[c.email]}
Verified(c) == {a \in Holders(c) : account[a].password = c.password}

(* When a request may be refused, and how.                                 *)
Rightly(c, result) ==
    \/ result = "error"
    \/ result \in {"exists", "conflict"} /\ c.op = "signup" /\ Holders(c) # {}
    \/ result = "unauthorized" /\ c.op = "login" /\ Verified(c) = {}
    \/ result = "unauthorized" /\ c.op \notin {"signup", "login"} /\ c.token \notin Accounts
    \/ /\ result = "forbidden" /\ c.op = "login"
       /\ \E a \in Verified(c) : ~account[a].active
    \/ /\ result = "forbidden" /\ c.op \notin {"signup", "login"}
       /\ c.token \in Accounts /\ ~account[c.token].active
    \/ /\ c.op \in {"get_project", "update_project", "delete_project"}
       /\ \/ result = "missing" /\ c.project \notin Projects
          \/ /\ result = "forbidden"
             /\ c.project \in Projects /\ ~Owns(c.token, c.project)
    \/ /\ result = "stale" /\ c.op = "update_project"
       /\ c.project \notin Projects \/ c.name = None

Refuse(r, c) ==
    /\ Open(r, c)
    /\ \E result \in {"error", "exists", "conflict", "unauthorized", "forbidden",
                      "missing", "stale"} : Rightly(c, result) /\ Reply(r, result)
    /\ UNCHANGED tables

SignUp(r, c) ==
    /\ Open(r, c) /\ c.op = "signup" /\ Holders(c) = {}
    /\ \E a \in Account \ Accounts :
          account' = [account EXCEPT ![a] = [email |-> Lower[c.email], password |-> c.password,
                                             name |-> c.name, active |-> TRUE]]
    /\ Reply(r, "created")
    /\ UNCHANGED <<project, tokens>>

LogIn(r, c) ==
    /\ Open(r, c) /\ c.op = "login"
    /\ \E a \in Verified(c) : account[a].active /\ tokens' = tokens \cup {a}
    /\ Reply(r, "ok")
    /\ UNCHANGED <<account, project>>

Show(r, c) ==
    /\ Open(r, c) /\ c.op \in {"get_me", "list_projects", "get_project"}
    /\ c.token \in Accounts
    /\ c.op = "get_project" => Owns(c.token, c.project)
    /\ Reply(r, "ok")
    /\ UNCHANGED tables

Profile(a, name, password) == [account[a] EXCEPT !.name = name, !.password = password]

SetProfile(r, c) ==
    /\ Open(r, c) /\ c.op = "update_me" /\ c.token \in Accounts
    /\ \E name \in {account[c.token].name, c.name} :
          /\ c.name = None => name = account[c.token].name
          /\ account' = [account EXCEPT ![c.token] = Profile(c.token, name,
                IF c.password = None THEN account[c.token].password ELSE c.password)]
    /\ Reply(r, "ok")
    /\ UNCHANGED <<project, tokens>>

Create(r, c) ==
    /\ Open(r, c) /\ c.op = "create_project" /\ c.token \in Accounts
    /\ \E p \in Project :
          /\ project[p] = NotYet
          /\ project' = [project EXCEPT ![p] =
                [owner |-> c.token, name |-> c.name, note |-> c.note]]
    /\ Reply(r, "created")
    /\ UNCHANGED <<account, tokens>>

Edit(r, c) ==
    /\ Open(r, c) /\ c.op = "update_project" /\ c.name # None
    /\ Owns(c.token, c.project)
    /\ \E name \in {project[c.project].name, c.name},
          note \in {project[c.project].note, c.note} :
          /\ Unset \notin {name, note}
          /\ project' = [project EXCEPT ![c.project] = [@ EXCEPT !.name = name, !.note = note]]
    /\ Reply(r, "ok")
    /\ UNCHANGED <<account, tokens>>

Drop(r, c) ==
    /\ Open(r, c) /\ c.op = "delete_project"
    /\ Owns(c.token, c.project) \/ project[c.project] = Gone
    /\ project' = [project EXCEPT ![c.project] = Gone]
    /\ Reply(r, "deleted")
    /\ UNCHANGED <<account, tokens>>

Deactivate(a) ==
    /\ a \in Accounts
    /\ account' = [account EXCEPT ![a].active = FALSE]
    /\ UNCHANGED <<project, tokens, asked, answer>>

Init ==
    /\ account = FirstAccounts /\ project = FirstProjects
    /\ tokens = Accounts
    /\ asked = [r \in Req |-> {}]
    /\ answer = [r \in Req |-> "none"]

Act(r, c) ==
    \/ Refuse(r, c) \/ SignUp(r, c) \/ LogIn(r, c) \/ Show(r, c) \/ SetProfile(r, c)
    \/ Create(r, c) \/ Edit(r, c) \/ Drop(r, c)

Next ==
    \/ \E r \in Req : Ask(r) \/ \E c \in asked[r] : Act(r, c)
    \/ \E a \in Account : Deactivate(a)

Spec == Init /\ [][Next]_vars
=============================================================================
