------------------------------ MODULE Accounts ------------------------------
(***************************************************************************)
(* The users and projects tables under the endpoints of app/api/v1/auth.py *)
(* and app/api/v1/projects.py: signup, login, profile, and the projects of *)
(* an account.                                                             *)
(*                                                                         *)
(* Every SELECT is a step.  A flush, the refresh after it and the commit   *)
(* are one step: from the flush on the row is locked, nobody sees what was *)
(* written before the commit, and whoever writes that row, or inserts that *)
(* email, waits for it.                                                    *)
(***************************************************************************)
EXTENDS Naturals, FiniteSets, Paging

CONSTANTS
    Req,
    Account,        \* ids of users
    Project,        \* ids of projects
    Email, Lower,   \* emails as they are typed, and .lower().strip() of them
    Password,       \* a stored hash is the password it verifies
    Name,           \* names and descriptions
    Calls,          \* what clients may ask for
    FirstAccounts, FirstProjects,   \* the rows that are there at the start
    PageSize,
    None, Unset, BadToken, NoAccount, NotYet, Gone

AccountRow == [email: Email, password: Password, name: Name \cup {None},
               active: BOOLEAN]

ProjectRow == [owner: Account, name: Name, note: Name \cup {None}]

(* A token that verifies carries the id of a user; the others do not.      *)
Token == Account \cup {BadToken}

Call ==
    [op: {"signup"}, email: Email, password: Password, name: Name \cup {None}]
    \cup [op: {"login"}, email: Email, password: Password]
    \cup [op: {"get_me"}, token: Token]
    \cup [op: {"update_me"}, token: Token, name: Name \cup {None},
          password: Password \cup {None}]
    \cup [op: {"create_project"}, token: Token, name: Name, note: Name \cup {None}]
    \cup [op: {"list_projects"}, token: Token, page: Nat \ {0}]
    \cup [op: {"get_project", "delete_project"}, token: Token, project: Project]
    \cup [op: {"update_project"}, token: Token, project: Project,
          name: Name \cup {Unset, None}, note: Name \cup {Unset, None}]

ASSUME AccountsAssumption ==
    /\ Lower \in [Email -> Email] /\ \A e \in Email : Lower[Lower[e]] = Lower[e]
    /\ Calls \subseteq Call
    /\ PageSize \in Nat \ {0}
    /\ Project \subseteq Nat
    /\ None \notin Name \cup Password /\ Unset \notin Name \cup {None}
    /\ BadToken \notin Account
    /\ NoAccount \notin AccountRow
    /\ FirstAccounts \in [Account -> AccountRow \cup {NoAccount}]
    /\ FirstProjects \in [Project -> ProjectRow \cup {NotYet}]
    /\ \A a, b \in Account :
          FirstAccounts[a] # NoAccount /\ FirstAccounts[b] # NoAccount =>
              /\ Lower[FirstAccounts[a].email] = FirstAccounts[a].email
              /\ FirstAccounts[a].email = FirstAccounts[b].email => a = b
    /\ NotYet \notin ProjectRow \cup {Gone} /\ Gone \notin ProjectRow

VARIABLES
    account, project,       \* the committed rows
    tokens,                 \* the accounts that have logged in
    call, pc, answer,       \* of each request
    user, loaded,           \* the rows that it has loaded
    shown,                  \* the projects in its answer
    met                     \* history: what a PATCH asked for and was there

tables == <<account, project>>
request == <<call, user, loaded>>
vars == <<tables, tokens, request, pc, answer, shown, met>>

Accounts == {a \in Account : account[a] # NoAccount}
Projects == {p \in Project : project[p] \notin {NotYet, Gone}}
Owned(a) == {p \in Projects : project[p].owner = a}

(* A status code each; "conflict" (IntegrityError), "stale" (StaleDataError *)
(* and the like) and "error" (the database) are all of them 500.           *)
Answer == {"none", "ok", "created", "deleted", "exists", "unauthorized", "forbidden",
           "missing", "conflict", "stale", "error"}

Goto(r, place) == pc' = [pc EXCEPT ![r] = place] /\ UNCHANGED answer

End(r, result) ==
    /\ pc' = [pc EXCEPT ![r] = "end"]
    /\ answer' = [answer EXCEPT ![r] = result]

(* Which fields of a PATCH of a profile the row agrees with.               *)
Met(row, c) == {f \in {"name", "password"} : c[f] # None /\ row[f] = c[f]}

-----------------------------------------------------------------------------
(* A request arrives, with a token if its client has one.                  *)
Arrive(r) ==
    /\ pc[r] = "idle"
    /\ \E c \in Calls :
          /\ \/ c.op \in {"signup", "login"} /\ Goto(r, c.op)
             \/ /\ c.op \notin {"signup", "login"} /\ Goto(r, "auth")
                /\ c.token \in tokens \cup {BadToken}
          /\ call' = [call EXCEPT ![r] = c]
          /\ met' = [met EXCEPT ![r] =
                IF c.op = "update_me" /\ c.token # BadToken
                THEN Met(account[c.token], c) ELSE {}]
    /\ UNCHANGED <<tables, tokens, user, loaded, shown>>

(* get_user_by_email.                                                      *)
ByEmail(e) == {a \in Accounts : account[a].email = Lower[e]}

(* Mutant: the lookup is not limited to one email.                         *)
CheckAny(r) ==
    /\ pc[r] = "signup"
    /\ IF Accounts # {} THEN End(r, "exists") ELSE Goto(r, "insert")
    /\ UNCHANGED <<tables, tokens, request, shown, met>>

(* register_user, up to the hashing of the password.                       *)
Check(r) ==
    /\ pc[r] = "signup"
    /\ IF ByEmail(call[r].email) # {} THEN End(r, "exists") ELSE Goto(r, "insert")
    /\ UNCHANGED <<tables, tokens, request, shown, met>>

NewAccount(c, e) ==
    [email |-> e, password |-> c.password, name |-> c.name, active |-> TRUE]

(* Mutant: the email is stored as it is typed.                             *)
InsertTyped(r) ==
    /\ pc[r] = "insert"
    /\ \/ /\ \E a \in Accounts : account[a].email = call[r].email
          /\ End(r, "conflict")
          /\ UNCHANGED account
       \/ /\ \A a \in Accounts : account[a].email # call[r].email
          /\ \E a \in Account \ Accounts :
                account' = [account EXCEPT ![a] = NewAccount(call[r], call[r].email)]
          /\ End(r, "created")
    /\ UNCHANGED <<project, tokens, request, shown, met>>

(* The INSERT and the commit.  The unique index refuses an email that has  *)
(* been committed since the check: IntegrityError, answered 500.           *)
InsertAccount(r) ==
    /\ pc[r] = "insert"
    /\ \/ /\ ByEmail(call[r].email) # {}
          /\ End(r, "conflict")
          /\ UNCHANGED account
       \/ /\ ByEmail(call[r].email) = {}
          /\ \E a \in Account \ Accounts :
                account' = [account EXCEPT
                    ![a] = NewAccount(call[r], Lower[call[r].email])]
          /\ End(r, "created")
    /\ UNCHANGED <<project, tokens, request, shown, met>>

(* authenticate_user: one SELECT decides.                                  *)
Login(r) ==
    /\ pc[r] = "login"
    /\ LET given == {a \in ByEmail(call[r].email) : account[a].password = call[r].password}
       IN  \/ given = {} /\ End(r, "unauthorized") /\ UNCHANGED tokens
           \/ \E a \in given :
                 IF account[a].active
                 THEN End(r, "ok") /\ tokens' = tokens \cup {a}
                 ELSE End(r, "forbidden") /\ UNCHANGED tokens
    /\ UNCHANGED <<tables, request, shown, met>>

(* get_current_user.  The handler of GET /me has nothing to add.           *)
Authenticate(r) ==
    /\ pc[r] = "auth"
    /\ LET a == call[r].token
       IN  \/ a \notin Accounts /\ End(r, "unauthorized") /\ UNCHANGED user
           \/ a \in Accounts /\ ~account[a].active /\ End(r, "forbidden") /\ UNCHANGED user
           \/ /\ a \in Accounts /\ account[a].active
              /\ user' = [user EXCEPT ![r] = account[a]]
              /\ IF call[r].op = "get_me" THEN End(r, "ok") ELSE Goto(r, call[r].op)
    /\ UNCHANGED <<tables, tokens, call, loaded, shown, met>>

(* What a flush makes of a row: the ORM sends the attributes that were set *)
(* and differ from what it loaded.  A new hash always differs.             *)
SaveName(new, old, now) == IF new = None \/ new = old THEN now ELSE new
SavePassword(new, now) == IF new = None THEN now ELSE new

(* Everyone who PATCHes a profile meets the row that a step leaves.        *)
Meet(a, row) ==
    met' = [r \in Req |->
        IF pc[r] \in {"auth", "update_me"} /\ call[r].op = "update_me" /\ call[r].token = a
        THEN met[r] \cup Met(row, call[r]) ELSE met[r]]

(* Mutant: the UPDATE sends every column, as it was loaded.                *)
UpdateMeWhole(r) ==
    /\ pc[r] = "update_me"
    /\ LET a == call[r].token
           row == [account[a] EXCEPT
                     !.name = SaveName(call[r].name, None, user[r].name),
                     !.password = SavePassword(call[r].password, user[r].password)]
       IN  account' = [account EXCEPT ![a] = row] /\ Meet(a, row)
    /\ End(r, "ok")
    /\ UNCHANGED <<project, tokens, request, shown>>

(* Mutant: the changes are left to a flush that never comes.               *)
UpdateMeLost(r) ==
    /\ pc[r] = "update_me"
    /\ End(r, "ok")
    /\ UNCHANGED <<tables, tokens, request, shown, met>>

(* update_user_profile, and the commit.                                    *)
UpdateMe(r) ==
    /\ pc[r] = "update_me"
    /\ LET a == call[r].token
           row == [account[a] EXCEPT
                     !.name = SaveName(call[r].name, user[r].name, @),
                     !.password = SavePassword(call[r].password, @)]
       IN  account' = [account EXCEPT ![a] = row] /\ Meet(a, row)
    /\ End(r, "ok")
    /\ UNCHANGED <<project, tokens, request, shown>>

-----------------------------------------------------------------------------
CreateProject(r) ==
    /\ pc[r] = "create_project"
    /\ \E p \in Project :
          /\ project[p] = NotYet
          /\ project' = [project EXCEPT ![p] =
                [owner |-> call[r].token, name |-> call[r].name, note |-> call[r].note]]
    /\ End(r, "created")
    /\ UNCHANGED <<account, tokens, request, shown, met>>

(* Mutant: the query forgets the owner.                                    *)
ListAll(r) ==
    /\ pc[r] = "list_projects"
    /\ shown' = [shown EXCEPT ![r] = PageOf(Projects, call[r].page, PageSize)]
    /\ End(r, "ok")
    /\ UNCHANGED <<tables, tokens, request, met>>

(* get_user_projects: the page; its frame is Inbox's.                      *)
ListProjects(r) ==
    /\ pc[r] = "list_projects"
    /\ shown' = [shown EXCEPT ![r] = PageOf(Owned(call[r].token), call[r].page, PageSize)]
    /\ End(r, "ok")
    /\ UNCHANGED <<tables, tokens, request, met>>

(* get_project_by_id, on its own and for a PATCH or DELETE.                *)
GetProject(r) ==
    /\ pc[r] \in {"get_project", "update_project", "delete_project"}
    /\ LET p == call[r].project
       IN  \/ p \notin Projects /\ End(r, "missing") /\ UNCHANGED <<loaded, shown>>
           \/ /\ p \in Projects /\ p \notin Owned(call[r].token)
              /\ End(r, "forbidden")
              /\ UNCHANGED <<loaded, shown>>
           \/ /\ p \in Owned(call[r].token)
              /\ loaded' = [loaded EXCEPT ![r] = project[p]]
              /\ IF pc[r] = "get_project"
                 THEN End(r, "ok") /\ shown' = [shown EXCEPT ![r] = {p}]
                 ELSE /\ Goto(r, IF pc[r] = "update_project" THEN "save" ELSE "delete")
                      /\ UNCHANGED shown
    /\ UNCHANGED <<tables, tokens, call, user, met>>

(* One column of an UPDATE of a project.                                   *)
Save(new, old, now) == IF new \in {Unset, old} THEN now ELSE new

(* Mutant: an upsert, which inserts the row if it is gone.                 *)
UpdateProjectAgain(r) ==
    /\ pc[r] = "save"
    /\ LET p == call[r].project
           row == IF p \in Projects THEN project[p] ELSE loaded[r]
       IN  IF call[r].name = None
           THEN End(r, "stale") /\ UNCHANGED project
           ELSE /\ project' = [project EXCEPT ![p] =
                      [row EXCEPT !.name = Save(call[r].name, loaded[r].name, @),
                                  !.note = Save(call[r].note, loaded[r].note, @)]]
                /\ End(r, "ok")
    /\ UNCHANGED <<account, tokens, request, shown, met>>

(* Mutant: the column name is nullable.                                    *)
UpdateProjectNull(r) ==
    /\ pc[r] = "save"
    /\ LET p == call[r].project
       IN  IF p \notin Projects
           THEN End(r, "stale") /\ UNCHANGED project
           ELSE /\ project' = [project EXCEPT ![p] = [project[p] EXCEPT
                      !.name = Save(call[r].name, loaded[r].name, @),
                      !.note = Save(call[r].note, loaded[r].note, @)]]
                /\ End(r, "ok")
    /\ UNCHANGED <<account, tokens, request, shown, met>>

(* The flush and the refresh of update_project: they raise if the project  *)
(* is gone, and the table refuses a name that is null.                     *)
UpdateProject(r) ==
    /\ pc[r] = "save"
    /\ LET p == call[r].project
       IN  IF p \notin Projects \/ call[r].name = None
           THEN End(r, "stale") /\ UNCHANGED project
           ELSE /\ project' = [project EXCEPT ![p] = [project[p] EXCEPT
                      !.name = Save(call[r].name, loaded[r].name, @),
                      !.note = Save(call[r].note, loaded[r].note, @)]]
                /\ End(r, "ok")
    /\ UNCHANGED <<account, tokens, request, shown, met>>

(* delete_project.  If the row is gone already that is only a warning.     *)
DeleteProject(r) ==
    /\ pc[r] = "delete"
    /\ project' = [project EXCEPT ![call[r].project] = Gone]
    /\ End(r, "deleted")
    /\ UNCHANGED <<account, tokens, request, shown, met>>

-----------------------------------------------------------------------------
(* The database fails a request: get_db rolls back.                        *)
Fail(r) ==
    /\ pc[r] \notin {"idle", "end"}
    /\ End(r, "error")
    /\ UNCHANGED <<tables, tokens, request, shown, met>>

(* No endpoint writes is_active; an operator may.                          *)
Deactivate(a) ==
    /\ a \in Accounts /\ account[a].active
    /\ account' = [account EXCEPT ![a].active = FALSE]
    /\ UNCHANGED <<project, tokens, request, pc, answer, shown, met>>

-----------------------------------------------------------------------------
Init ==
    /\ account = FirstAccounts /\ project = FirstProjects
    /\ tokens = Accounts
    /\ call = [r \in Req |-> None]
    /\ pc = [r \in Req |-> "idle"]
    /\ answer = [r \in Req |-> "none"]
    /\ user = [r \in Req |-> NoAccount]
    /\ loaded = [r \in Req |-> NotYet]
    /\ shown = [r \in Req |-> {}] /\ met = shown

Step(r) ==
    \/ Arrive(r) \/ Check(r) \/ InsertAccount(r) \/ Login(r) \/ Authenticate(r)
    \/ UpdateMe(r) \/ CreateProject(r) \/ ListProjects(r) \/ GetProject(r)
    \/ UpdateProject(r) \/ DeleteProject(r) \/ Fail(r)

Next == (\E r \in Req : Step(r)) \/ (\E a \in Account : Deactivate(a))

Spec == Init /\ [][Next]_vars

-----------------------------------------------------------------------------
Places == {"idle", "end", "auth", "signup", "insert", "login", "update_me",
           "create_project", "list_projects", "get_project", "update_project",
           "delete_project", "save", "delete"}

(* Every variable stays in its set: in particular no column of a row that  *)
(* may not be null ever is, and tokens are of accounts that exist.         *)
TypeOK ==
    /\ account \in [Account -> AccountRow \cup {NoAccount}]
    /\ project \in [Project -> ProjectRow \cup {NotYet, Gone}]
    /\ tokens \subseteq Accounts
    /\ call \in [Req -> Call \cup {None}]
    /\ pc \in [Req -> Places]
    /\ answer \in [Req -> Answer]
    /\ user \in [Req -> AccountRow \cup {NoAccount}]
    /\ loaded \in [Req -> ProjectRow \cup {NotYet}]
    /\ shown \in [Req -> SUBSET Project]
    /\ met \in [Req -> SUBSET {"name", "password"}]

(* Nobody has two accounts, however the email is typed and however signups *)
(* interleave.                                                             *)
OneAccountPerMailbox ==
    \A a, b \in Accounts :
        Lower[account[a].email] = Lower[account[b].email] => a = b

Signup(r) == pc[r] = "end" /\ call[r].op = "signup"

(* Of the signups of one mailbox one wins.  Who is told "exists", or loses *)
(* the race to the unique index, is right to be refused: the mailbox has   *)
(* an account.                                                             *)
SignupsDecided ==
    /\ \A r \in Req :
          Signup(r) /\ answer[r] \in {"created", "exists", "conflict"} =>
              ByEmail(call[r].email) # {}
    /\ \A r, s \in Req :
          /\ Signup(r) /\ answer[r] = "created"
          /\ Signup(s) /\ answer[s] = "created"
          /\ Lower[call[r].email] = Lower[call[s].email]
          => r = s

(* A PATCH of a profile that is answered with ok has had its effect: while *)
(* it ran each field that it asked for had the value it asked for, be it   *)
(* written by another request.                                             *)
PatchTookEffect ==
    \A r \in Req :
        pc[r] = "end" /\ call[r].op = "update_me" /\ answer[r] = "ok" =>
            {f \in {"name", "password"} : call[r][f] # None} \subseteq met[r]

(* A project whose deletion has been answered never comes back, not even   *)
(* by a PATCH that had loaded it before.                                   *)
DeletedForGood ==
    \A r \in Req : answer[r] = "deleted" => project[call[r].project] = Gone

(* An account changes only in the fields that a PATCH of its own names, to *)
(* the values it names: one that changes the password while another        *)
(* changes the name does not undo it.                                      *)
ChangedAsAsked ==
    [][\A a \in Accounts : account'[a] # account[a] =>
          \/ account'[a] = [account[a] EXCEPT !.active = FALSE]
          \/ \E r \in Req :
                /\ pc[r] # "end" /\ pc'[r] = "end"
                /\ call[r].op = "update_me" /\ call[r].token = a
                /\ account'[a].email = account[a].email
                /\ account'[a].active = account[a].active
                /\ \A f \in {"name", "password"} :
                      account'[a][f] # account[a][f] => account'[a][f] = call[r][f]]_vars

(* A project is changed, deleted or shown only by a request with a token   *)
(* of its owner, and once it is there nobody else ever owns it.            *)
OwnersOnly ==
    [][\A p \in Projects :
          /\ project'[p] # Gone => project'[p].owner = project[p].owner
          /\ \A r \in Req : p \in shown'[r] \ shown[r] => call[r].token = project[p].owner
          /\ project'[p] # project[p] =>
                \E r \in Req : /\ pc[r] # "end" /\ pc'[r] = "end"
                               /\ call[r].token = project[p].owner]_vars

(* Committed rows, tokens and answers change as Directory says: whatever   *)
(* requests do to each other between their SELECT and their commit, each   *)
(* has its effect at the moment of its answer.                             *)
Asked == [r \in Req |-> IF pc[r] = "idle" THEN {} ELSE {call[r]}]

Dir == INSTANCE Directory WITH asked <- Asked

IsDirectory == Dir!Spec
=============================================================================
