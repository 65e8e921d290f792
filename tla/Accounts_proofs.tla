-------------------------- MODULE Accounts_proofs --------------------------
(***************************************************************************)
(* What Accounts guarantees for any number of requests, accounts, projects *)
(* and spellings of an email.  The invariant says what a request has found *)
(* out by the time it is where it is, and that emails are stored in one    *)
(* spelling only.                                                          *)
(***************************************************************************)
EXTENDS Accounts, TLAPS

(* What a request is about, by the place where it is.                      *)
PlaceOf(r) ==
    LET c == call[r] IN
    /\ pc[r] # "idle" => c \in Call
    /\ pc[r] \in {"signup", "insert"} => c.op = "signup"
    /\ pc[r] = "login" => c.op = "login"
    /\ pc[r] = "auth" => c.op \notin {"signup", "login"} /\ c.token \in Accounts \cup {BadToken}
    /\ pc[r] \in {"update_me", "create_project", "list_projects", "get_project",
                  "update_project", "delete_project"} =>
          c.op = pc[r] /\ c.token \in Accounts
    /\ pc[r] = "save" => c.op = "update_project" /\ loaded[r] \in ProjectRow
    /\ pc[r] = "delete" => c.op = "delete_project"
    /\ pc[r] \in {"save", "delete"} =>
          /\ c.token \in Accounts
          /\ \/ project[c.project] = Gone
             \/ c.project \in Projects /\ project[c.project].owner = c.token
    /\ answer[r] # "none" => pc[r] = "end"
    /\ answer[r] = "deleted" => c.op = "delete_project"
    /\ answer[r] \in {"created", "exists", "conflict"} => c.op \in {"signup", "create_project"}

PlaceInv == \A r \in Req : PlaceOf(r)

(* Emails are stored in the spelling that Lower gives.                     *)
LowerInv == \A a \in Accounts : Lower[account[a].email] = account[a].email

(* A PATCH has met the row as it is, and the row that it has loaded.       *)
MetOf(r) ==
    call[r].op = "update_me" =>
        /\ pc[r] = "auth" /\ call[r].token # BadToken =>
              Met(account[call[r].token], call[r]) \subseteq met[r]
        /\ pc[r] = "update_me" /\ call[r].name # None /\ call[r].name = user[r].name =>
              "name" \in met[r]

MetInv == \A r \in Req : pc[r] # "idle" => MetOf(r)

Ind ==
    /\ TypeOK /\ PlaceInv /\ LowerInv /\ MetInv
    /\ OneAccountPerMailbox /\ SignupsDecided /\ PatchTookEffect /\ DeletedForGood

(* The fields of each kind of call.                                        *)
LEMMA CallFields ==
    ASSUME NEW c \in Call
    PROVE  /\ c.op \in {"signup", "login", "get_me", "update_me", "create_project",
                        "list_projects", "get_project", "update_project", "delete_project"}
           /\ c.op \in {"signup", "login"} => c.email \in Email /\ c.password \in Password
           /\ c.op \in {"signup", "create_project"} => c.name \in Name \cup {None}
           /\ c.op = "update_me" =>
                 c.name \in Name \cup {None} /\ c.password \in Password \cup {None}
           /\ c.op = "create_project" => c.name \in Name /\ c.note \in Name \cup {None}
           /\ c.op \in {"get_project", "update_project", "delete_project"} =>
                 c.project \in Project
           /\ c.op = "update_project" =>
                 c.name \in Name \cup {Unset, None} /\ c.note \in Name \cup {Unset, None}
           /\ c.op \notin {"signup", "login"} => c.token \in Account \cup {BadToken}
  BY DEF Call, Token

(* What every step keeps of the tables.                                    *)
Grows ==
    /\ \A a \in Accounts : a \in Accounts' /\ account'[a].email = account[a].email
    /\ \A p \in Projects :
          \/ project'[p] = Gone
          \/ p \in Projects' /\ project'[p].owner = project[p].owner
    /\ \A p \in Project : project[p] = Gone => project'[p] = Gone

LEMMA GrowsStays ==
    ASSUME UNCHANGED tables PROVE Grows
  BY DEF Grows, tables, Accounts, Projects

Same(q) ==
    /\ pc'[q] = pc[q] /\ call'[q] = call[q] /\ answer'[q] = answer[q]
    /\ loaded'[q] = loaded[q] /\ user'[q] = user[q]

(* A request is not disturbed by the others.                               *)
LEMMA OtherPlace ==
    ASSUME Grows, NEW q \in Req, Same(q), PlaceOf(q) PROVE PlaceOf(q)'
  BY CallFields DEF Grows, Same, PlaceOf

(* An email has an account, before a step and after it.                    *)
Has(e) == \E a \in Accounts : account[a].email = Lower[e]
WillHave(e) == \E a \in Accounts' : account'[a].email = Lower[e]

(* An email that has an account keeps it.                                  *)
LEMMA Taken ==
    ASSUME Grows, NEW e, Has(e) PROVE WillHave(e)
  BY DEF Grows, Has, WillHave

(* The three properties that only look at finished requests, across a step *)
(* that finishes none that they are about.                                 *)
LEMMA Finished ==
    ASSUME Ind, Grows, NEW r \in Req, \A q \in Req \ {r} : Same(q),
           \A q \in Req \ {r} : met[q] \subseteq met'[q],
           PlaceInv', call'[r] = call[r] \/ pc[r] = "idle",
           pc[r] # "end",
           answer'[r] = "deleted" => project'[call'[r].project] = Gone,
           pc'[r] = "end" /\ call'[r].op = "update_me" =>
              answer'[r] # "ok"
              \/ {f \in {"name", "password"} : call'[r][f] # None} \subseteq met'[r],
           pc'[r] = "end" /\ call'[r].op = "signup" /\ answer'[r] \in {"exists", "conflict"} =>
              Has(call'[r].email),
           pc'[r] = "end" /\ call'[r].op = "signup" /\ answer'[r] = "created" =>
              ~Has(call'[r].email) /\ WillHave(call'[r].email)
    PROVE  SignupsDecided' /\ PatchTookEffect' /\ DeletedForGood'
  <1> USE DEF Ind
  <1>1. \A q \in Req : Signup(q) /\ answer[q] \in {"created", "exists", "conflict"} =>
           Has(call[q].email)
    BY DEF SignupsDecided, ByEmail, Has
  <1>3. ASSUME NEW q \in Req, Signup(q)', answer'[q] \in {"created", "exists", "conflict"}
        PROVE  WillHave(call'[q].email)
    <2>1. CASE q = r
      BY <1>3, <2>1, Taken DEF Signup
    <2>2. CASE q # r
      <3>1. Signup(q) /\ answer[q] = answer'[q] /\ call[q] = call'[q]
        BY <1>3, <2>2 DEF Signup, Same
      <3>2. Has(call[q].email)
        BY <1>1, <1>3, <3>1
      <3>3. WillHave(call[q].email)
        BY <3>2, Taken
      <3> QED
        BY <3>1, <3>3
    <2> QED
      BY <2>1, <2>2
  <1>4. ASSUME NEW q \in Req, NEW s \in Req, q # s,
               Signup(q)', answer'[q] = "created", Signup(s)', answer'[s] = "created",
               Lower[call'[q].email] = Lower[call'[s].email]
        PROVE  FALSE
    <2>1. ASSUME NEW z \in Req, z # r, Signup(z)', answer'[z] = "created",
                 Signup(r)', answer'[r] = "created",
                 Lower[call'[z].email] = Lower[call'[r].email]
          PROVE  FALSE
      <3>1. Signup(z) /\ answer[z] = "created" /\ call'[z] = call[z]
        BY <2>1 DEF Signup, Same
      <3>2. Has(call[z].email)
        BY <1>1, <3>1
      <3>3. ~Has(call'[r].email)
        BY <2>1 DEF Signup
      <3> QED
        BY <2>1, <3>1, <3>2, <3>3 DEF Has
    <2>2. CASE q = r \/ s = r
      BY <1>4, <2>1, <2>2
    <2>3. CASE q # r /\ s # r
      <3>1. /\ Signup(q) /\ answer[q] = "created" /\ call'[q] = call[q]
            /\ Signup(s) /\ answer[s] = "created" /\ call'[s] = call[s]
        BY <1>4, <2>3 DEF Signup, Same
      <3> QED
        BY <1>4, <3>1 DEF SignupsDecided
    <2> QED
      BY <2>2, <2>3
  <1>5. SignupsDecided'
    <2>1. \A q \in Req : Signup(q)' /\ answer'[q] \in {"created", "exists", "conflict"} =>
             WillHave(call'[q].email)
      BY <1>3
    <2>2. \A q, s \in Req :
             /\ Signup(q)' /\ answer'[q] = "created" /\ Signup(s)' /\ answer'[s] = "created"
             /\ Lower[call'[q].email] = Lower[call'[s].email]
             => q = s
      BY <1>4
    <2> QED
      BY <2>1, <2>2 DEF SignupsDecided, ByEmail, WillHave, Signup
  <1>6. PatchTookEffect'
    <2> SUFFICES ASSUME NEW q \in Req, pc'[q] = "end", call'[q].op = "update_me",
                        answer'[q] = "ok"
                 PROVE  {f \in {"name", "password"} : call'[q][f] # None} \subseteq met'[q]
      BY DEF PatchTookEffect
    <2>1. CASE q = r
      BY <2>1
    <2>2. CASE q # r
      <3>1. pc[q] = "end" /\ call[q] = call'[q] /\ answer[q] = "ok"
        BY <2>2 DEF Same
      <3>2. {f \in {"name", "password"} : call[q][f] # None} \subseteq met[q]
        BY <3>1 DEF PatchTookEffect
      <3> QED
        BY <3>1, <3>2
    <2> QED
      BY <2>1, <2>2
  <1>7. DeletedForGood'
    <2> SUFFICES ASSUME NEW q \in Req, answer'[q] = "deleted"
                 PROVE  project'[call'[q].project] = Gone
      BY DEF DeletedForGood
    <2>1. CASE q = r
      BY <2>1
    <2>2. CASE q # r
      <3>1. answer[q] = "deleted" /\ call[q] = call'[q]
        BY <2>2 DEF Same
      <3>2. pc[q] = "end" /\ call[q] \in Call /\ call[q].op = "delete_project"
        BY <3>1 DEF PlaceInv, PlaceOf
      <3> QED
        BY <3>1, <3>2, CallFields DEF DeletedForGood, Grows
    <2> QED
      BY <2>1, <2>2
  <1> QED
    BY <1>5, <1>6, <1>7

-----------------------------------------------------------------------------
(* The steps that leave the tables alone and move a request: what is left  *)
(* to show of each is where the request is then, and what it has met.      *)
LEMMA Quiet ==
    ASSUME Ind, TypeOK', UNCHANGED tables, NEW r \in Req, \A q \in Req \ {r} : Same(q),
           \A q \in Req \ {r} : met[q] \subseteq met'[q],
           PlaceOf(r)', pc'[r] # "idle" => MetOf(r)',
           call'[r] = call[r] \/ pc[r] = "idle", pc[r] # "end",
           answer'[r] \notin {"deleted", "conflict"},
           pc'[r] = "end" => call'[r].op # "update_me" \/ answer'[r] # "ok",
           pc'[r] = "end" /\ call'[r].op = "signup" =>
              answer'[r] # "created" /\ (answer'[r] = "exists" => Has(call'[r].email))
    PROVE  Ind'
  <1>1. Grows
    BY GrowsStays
  <1>2. PlaceInv'
    BY <1>1, OtherPlace DEF Ind, PlaceInv
  <1>3. LowerInv' /\ OneAccountPerMailbox'
    BY DEF Ind, LowerInv, OneAccountPerMailbox, tables, Accounts
  <1>4. ASSUME NEW q \in Req, q # r, pc'[q] # "idle" PROVE MetOf(q)'
    <2>1. MetOf(q) /\ Same(q) /\ met[q] \subseteq met'[q] /\ account' = account
      BY <1>4 DEF Ind, MetInv, Same, tables
    <2> QED
      BY <2>1 DEF MetOf, Same, Met
  <1>5. MetInv'
    BY <1>4 DEF MetInv
  <1>6. SignupsDecided' /\ PatchTookEffect' /\ DeletedForGood'
    BY <1>1, <1>2, Finished
  <1> QED
    BY <1>2, <1>3, <1>5, <1>6 DEF Ind

LEMMA ArriveInv ==
    ASSUME Ind, NEW r \in Req, Arrive(r) PROVE Ind'
  <1> USE AccountsAssumption
  <1>0. TypeOK /\ PlaceOf(r)
    BY DEF Ind, PlaceInv
  <1>1. PICK c \in Calls :
          /\ \/ c.op \in {"signup", "login"} /\ Goto(r, c.op)
             \/ /\ c.op \notin {"signup", "login"} /\ Goto(r, "auth")
                /\ c.token \in tokens \cup {BadToken}
          /\ call' = [call EXCEPT ![r] = c]
          /\ met' = [met EXCEPT ![r] =
                IF c.op = "update_me" /\ c.token # BadToken
                THEN Met(account[c.token], c) ELSE {}]
    BY DEF Arrive
  <1>2. /\ pc[r] = "idle" /\ answer' = answer
        /\ UNCHANGED tables /\ UNCHANGED <<tokens, user, loaded, shown>>
    BY DEF Arrive, Goto
  <1>3. c \in Call /\ \A row : Met(row, c) \in SUBSET {"name", "password"}
    BY <1>1 DEF Met
  <1>4. \/ c.op \in {"signup", "login"} /\ pc' = [pc EXCEPT ![r] = c.op]
        \/ /\ c.op \notin {"signup", "login"} /\ pc' = [pc EXCEPT ![r] = "auth"]
           /\ c.token \in tokens \cup {BadToken}
    BY <1>1 DEF Goto
  <1>5. /\ pc'[r] \in {"signup", "login", "auth"}
        /\ pc'[r] \in {"signup", "login"} => c.op = pc'[r]
        /\ pc'[r] = "auth" => c.op \notin {"signup", "login"} /\ c.token \in tokens \cup {BadToken}
        /\ call'[r] = c /\ answer'[r] = "none"
        /\ met'[r] = IF c.op = "update_me" /\ c.token # BadToken
                     THEN Met(account[c.token], c) ELSE {}
    BY <1>0, <1>1, <1>2, <1>4 DEF TypeOK, PlaceOf
  <1>6. \A q \in Req \ {r} : Same(q) /\ met[q] \subseteq met'[q]
    BY <1>0, <1>1, <1>2, <1>4 DEF TypeOK, Same
  <1>7. TypeOK'
    <2>1. pc' \in [Req -> Places]
      BY <1>0, <1>4 DEF TypeOK, Places
    <2>2. call' \in [Req -> Call \cup {None}]
      BY <1>0, <1>1, <1>3 DEF TypeOK
    <2>3. met' \in [Req -> SUBSET {"name", "password"}]
      BY <1>0, <1>1, <1>3 DEF TypeOK
    <2> QED
      BY <1>0, <1>2, <2>1, <2>2, <2>3 DEF TypeOK, tables, Accounts
  <1>8. PlaceOf(r)'
    BY <1>0, <1>2, <1>3, <1>5, CallFields DEF PlaceOf, TypeOK, tables, Accounts
  <1>9. MetOf(r)'
    BY <1>2, <1>5 DEF MetOf, Met, tables
  <1> QED
    BY <1>2, <1>5, <1>6, <1>7, <1>8, <1>9, Quiet

(* A request that goes on or ends, and nothing else: Check, Login,         *)
(* ListProjects, GetProject, Fail.                                         *)
LEMMA Moves ==
    ASSUME Ind, NEW r \in Req, NEW place \in Places, NEW result \in Answer,
           pc' = [pc EXCEPT ![r] = place], answer' = [answer EXCEPT ![r] = result],
           UNCHANGED tables, tokens \subseteq tokens', tokens' \subseteq Accounts,
           call' = call, user' = user, met' = met,
           loaded' \in [Req -> ProjectRow \cup {NotYet}],
           \A q \in Req \ {r} : loaded'[q] = loaded[q],
           shown' \in [Req -> SUBSET Project],
           PlaceOf(r)', pc[r] \notin {"idle", "end"}, place \notin {"auth", "update_me"},
           result \notin {"deleted", "conflict"},
           place = "end" => call[r].op # "update_me" \/ result # "ok",
           place = "end" /\ call[r].op = "signup" =>
              result # "created" /\ (result = "exists" => Has(call[r].email))
    PROVE  Ind'
  <1>0. TypeOK
    BY DEF Ind
  <1>1. /\ \A q \in Req \ {r} : Same(q) /\ met[q] \subseteq met'[q]
        /\ pc'[r] = place /\ answer'[r] = result /\ call'[r] = call[r]
    BY <1>0 DEF TypeOK, Same
  <1>2. TypeOK'
    BY <1>0 DEF TypeOK, tables, Accounts
  <1>3. MetOf(r)'
    BY <1>1 DEF MetOf
  <1> QED
    BY <1>1, <1>2, <1>3, Quiet

LEMMA CheckInv ==
    ASSUME Ind, NEW r \in Req, Check(r) PROVE Ind'
  <1>0. TypeOK /\ PlaceOf(r)
    BY DEF Ind, PlaceInv
  <1>1. PICK place \in {"end", "insert"}, result \in Answer :
          /\ pc' = [pc EXCEPT ![r] = place] /\ answer' = [answer EXCEPT ![r] = result]
          /\ place = "end" => result = "exists" /\ Has(call[r].email)
          /\ place = "insert" => result = answer[r]
    <2>1. CASE ByEmail(call[r].email) # {}
      BY <2>1 DEF Check, End, Has, ByEmail, Answer
    <2>2. CASE ByEmail(call[r].email) = {}
      <3>1. answer[r] \in Answer /\ answer' = [answer EXCEPT ![r] = answer[r]]
        BY <1>0, <2>2 DEF Check, Goto, TypeOK
      <3> QED
        BY <2>2, <3>1 DEF Check, Goto
    <2> QED
      BY <2>1, <2>2
  <1>2. /\ pc[r] = "signup" /\ UNCHANGED tables
        /\ UNCHANGED <<tokens, call, user, loaded, shown, met>>
    BY DEF Check, request
  <1>3. pc'[r] = place /\ answer'[r] = result /\ place \in Places
    BY <1>0, <1>1 DEF TypeOK, Places
  <1>4. answer[r] = "none" \/ place = "end"
    BY <1>0, <1>2 DEF PlaceOf
  <1>5. PlaceOf(r)'
    BY <1>0, <1>1, <1>2, <1>3, <1>4 DEF PlaceOf, tables, Accounts
  <1> QED
    BY <1>0, <1>1, <1>2, <1>3, <1>4, <1>5, Moves DEF TypeOK, PlaceOf

LEMMA LoginInv ==
    ASSUME Ind, NEW r \in Req, Login(r) PROVE Ind'
  <1>0. TypeOK /\ PlaceOf(r)
    BY DEF Ind, PlaceInv
  <1>1. PICK result \in {"ok", "unauthorized", "forbidden"} :
          /\ pc' = [pc EXCEPT ![r] = "end"] /\ answer' = [answer EXCEPT ![r] = result]
    BY DEF Login, End
  <1>2. tokens \subseteq tokens' /\ tokens' \subseteq Accounts
    BY <1>0 DEF Login, ByEmail, TypeOK
  <1>3. /\ pc[r] = "login" /\ UNCHANGED tables
        /\ UNCHANGED <<call, user, loaded, shown, met>>
    BY DEF Login, request
  <1>4. pc'[r] = "end" /\ answer'[r] = result /\ result \in Answer /\ "end" \in Places
    BY <1>0, <1>1 DEF TypeOK, Answer, Places
  <1>5. PlaceOf(r)'
    BY <1>0, <1>1, <1>3, <1>4 DEF PlaceOf
  <1> QED
    BY <1>0, <1>1, <1>2, <1>3, <1>4, <1>5, Moves DEF TypeOK, PlaceOf

LEMMA ListProjectsInv ==
    ASSUME Ind, NEW r \in Req, ListProjects(r) PROVE Ind'
  <1> DEFINE page == PageOf(Owned(call[r].token), call[r].page, PageSize)
  <1>0. TypeOK /\ PlaceOf(r)
    BY DEF Ind, PlaceInv
  <1>1. /\ pc[r] = "list_projects" /\ UNCHANGED tables
        /\ UNCHANGED <<tokens, call, user, loaded, met>>
        /\ pc' = [pc EXCEPT ![r] = "end"] /\ answer' = [answer EXCEPT ![r] = "ok"]
        /\ shown' = [shown EXCEPT ![r] = page]
    BY DEF ListProjects, request, End
  <1>2. page \in SUBSET Project
    BY DEF PageOf, Owned, Projects
  <1> HIDE DEF page
  <1>3. shown' \in [Req -> SUBSET Project]
    BY <1>0, <1>1, <1>2 DEF TypeOK
  <1>4. pc'[r] = "end" /\ answer'[r] = "ok" /\ "ok" \in Answer /\ "end" \in Places
    BY <1>0, <1>1 DEF TypeOK, Answer, Places
  <1>5. PlaceOf(r)'
    BY <1>0, <1>1, <1>4 DEF PlaceOf
  <1>6. /\ tokens \subseteq tokens' /\ tokens' \subseteq Accounts
        /\ loaded' \in [Req -> ProjectRow \cup {NotYet}]
        /\ call[r].op = "list_projects"
    BY <1>0, <1>1 DEF TypeOK, PlaceOf
  <1> QED
    BY <1>1, <1>3, <1>4, <1>5, <1>6, Moves

LEMMA FailInv ==
    ASSUME Ind, NEW r \in Req, Fail(r) PROVE Ind'
  <1>0. TypeOK /\ PlaceOf(r)
    BY DEF Ind, PlaceInv
  <1>1. /\ pc[r] \notin {"idle", "end"} /\ UNCHANGED tables
        /\ UNCHANGED <<tokens, call, user, loaded, shown, met>>
        /\ pc' = [pc EXCEPT ![r] = "end"] /\ answer' = [answer EXCEPT ![r] = "error"]
    BY DEF Fail, request, End
  <1>2. pc'[r] = "end" /\ answer'[r] = "error" /\ "error" \in Answer /\ "end" \in Places
    BY <1>0, <1>1 DEF TypeOK, Answer, Places
  <1>3. PlaceOf(r)'
    BY <1>0, <1>1, <1>2 DEF PlaceOf
  <1> QED
    BY <1>0, <1>1, <1>2, <1>3, Moves DEF TypeOK

LEMMA GetProjectInv ==
    ASSUME Ind, NEW r \in Req, GetProject(r) PROVE Ind'
  <1> DEFINE p == call[r].project
  <1>0. TypeOK /\ PlaceOf(r)
    BY DEF Ind, PlaceInv
  <1>1. /\ pc[r] \in {"get_project", "update_project", "delete_project"}
        /\ UNCHANGED tables /\ UNCHANGED <<tokens, call, user, met>>
    BY DEF GetProject
  <1>2. call[r] \in Call /\ p \in Project /\ call[r].op = pc[r] /\ answer[r] = "none"
    BY <1>0, <1>1, CallFields DEF PlaceOf
  <1>3. PICK place \in {"end", "save", "delete"}, result \in Answer :
          /\ pc' = [pc EXCEPT ![r] = place] /\ answer' = [answer EXCEPT ![r] = result]
          /\ place = "end" => result = "missing" \/ result = "forbidden" \/ result = "ok"
          /\ place # "end" =>
                /\ p \in Owned(call[r].token)
                /\ loaded' = [loaded EXCEPT ![r] = project[p]]
                /\ result = answer[r]
                /\ place = IF pc[r] = "update_project" THEN "save" ELSE "delete"
                /\ pc[r] # "get_project"
    <2>1. CASE p \notin Owned(call[r].token) \/ pc[r] = "get_project"
      BY <2>1 DEF GetProject, End, Answer, Owned
    <2>2. CASE p \in Owned(call[r].token) /\ pc[r] # "get_project"
      <3>1. answer[r] \in Answer /\ answer' = [answer EXCEPT ![r] = answer[r]]
        BY <1>0, <2>2 DEF GetProject, Goto, TypeOK, Owned
      <3> QED
        BY <2>2, <3>1 DEF GetProject, Goto, Owned
    <2> QED
      BY <2>1, <2>2
  <1>4. /\ loaded' = loaded \/ (p \in Projects /\ loaded' = [loaded EXCEPT ![r] = project[p]])
        /\ shown' = shown \/ shown' = [shown EXCEPT ![r] = {p}]
    BY DEF GetProject, Owned
  <1>5. p \in Projects => project[p] \in ProjectRow
    BY <1>0, <1>2 DEF TypeOK, Projects
  <1>6. /\ loaded' \in [Req -> ProjectRow \cup {NotYet}]
        /\ \A q \in Req \ {r} : loaded'[q] = loaded[q]
    BY <1>0, <1>4, <1>5 DEF TypeOK
  <1>7. shown' \in [Req -> SUBSET Project]
    BY <1>0, <1>2, <1>4 DEF TypeOK
  <1>8. pc'[r] = place /\ answer'[r] = result /\ place \in Places
    BY <1>0, <1>3 DEF TypeOK, Places
  <1>9. place # "end" => loaded'[r] \in ProjectRow
    BY <1>0, <1>3, <1>5 DEF TypeOK, Owned
  <1>10. PlaceOf(r)'
    BY <1>0, <1>1, <1>2, <1>3, <1>8, <1>9 DEF PlaceOf, tables, Accounts, Projects, Owned
  <1> QED
    BY <1>0, <1>1, <1>2, <1>3, <1>6, <1>7, <1>8, <1>10, Moves DEF TypeOK

LEMMA AuthenticateInv ==
    ASSUME Ind, NEW r \in Req, Authenticate(r) PROVE Ind'
  <1> DEFINE a == call[r].token
  <1>0. TypeOK /\ PlaceOf(r) /\ MetOf(r)
    BY DEF Ind, PlaceInv, MetInv, Authenticate
  <1>1. /\ pc[r] = "auth" /\ UNCHANGED tables
        /\ UNCHANGED <<tokens, call, loaded, shown, met>>
    BY DEF Authenticate
  <1>2. call[r] \in Call /\ answer[r] = "none"
    BY <1>0, <1>1 DEF PlaceOf
  <1>3. /\ call[r].op \in {"get_me", "update_me", "create_project", "list_projects",
                           "get_project", "update_project", "delete_project"}
    BY <1>0, <1>1, <1>2, CallFields DEF PlaceOf
  <1>4. \/ /\ pc' = [pc EXCEPT ![r] = "end"] /\ user' = user
           /\ \E result \in {"unauthorized", "forbidden"} :
                 answer' = [answer EXCEPT ![r] = result]
        \/ /\ a \in Accounts /\ user' = [user EXCEPT ![r] = account[a]]
           /\ pc' = [pc EXCEPT ![r] = "end"] /\ answer' = [answer EXCEPT ![r] = "ok"]
           /\ call[r].op = "get_me"
        \/ /\ a \in Accounts /\ user' = [user EXCEPT ![r] = account[a]]
           /\ pc' = [pc EXCEPT ![r] = call[r].op] /\ answer' = answer
           /\ call[r].op # "get_me"
    BY DEF Authenticate, End, Goto
  <1>5. \/ /\ pc'[r] = "end"
           /\ answer'[r] = "unauthorized" \/ answer'[r] = "forbidden"
        \/ pc'[r] = "end" /\ answer'[r] = "ok" /\ call[r].op = "get_me"
        \/ /\ pc'[r] = call[r].op /\ answer'[r] = "none" /\ a \in Accounts
           /\ user'[r] = account[a] /\ call[r].op # "get_me"
    BY <1>0, <1>2, <1>4 DEF TypeOK
  <1>6. \A q \in Req \ {r} : Same(q) /\ met[q] \subseteq met'[q]
    BY <1>0, <1>1, <1>4 DEF TypeOK, Same
  <1>7. TypeOK'
    <2>1. pc' \in [Req -> Places]
      BY <1>0, <1>3, <1>4 DEF TypeOK, Places
    <2>2. answer' \in [Req -> Answer]
      BY <1>0, <1>4 DEF TypeOK, Answer
    <2>3. a \in Accounts => account[a] \in AccountRow
      BY <1>0 DEF TypeOK, Accounts
    <2>4. user' \in [Req -> AccountRow \cup {NoAccount}]
      BY <1>0, <1>4, <2>3 DEF TypeOK
    <2> QED
      BY <1>0, <1>1, <2>1, <2>2, <2>4 DEF TypeOK, tables, Accounts
  <1>8. PlaceOf(r)'
    BY <1>0, <1>1, <1>2, <1>3, <1>5 DEF PlaceOf, tables, Accounts
  <1>9. MetOf(r)'
    <2> SUFFICES ASSUME pc'[r] = "update_me", call[r].name # None,
                        call[r].name = user'[r].name, call[r].op = "update_me"
                 PROVE  "name" \in met[r]
      BY <1>1, <1>5 DEF MetOf
    <2>1. a \in Accounts /\ user'[r] = account[a] /\ a # BadToken
      BY <1>5, AccountsAssumption DEF Accounts
    <2>2. Met(account[a], call[r]) \subseteq met[r]
      BY <1>0, <1>1, <2>1 DEF MetOf
    <2> QED
      BY <2>1, <2>2 DEF Met
  <1> QED
    BY <1>1, <1>5, <1>6, <1>7, <1>8, <1>9, Quiet

-----------------------------------------------------------------------------
(* The steps that end a request and change a table.  They touch nothing of *)
(* the other requests, and what those have met only grows.                 *)
Ends(r, result) ==
    /\ pc' = [pc EXCEPT ![r] = "end"] /\ answer' = [answer EXCEPT ![r] = result]
    /\ UNCHANGED <<tokens, call, user, loaded, shown>>

LEMMA Others ==
    ASSUME Ind, NEW r \in Req, NEW result \in Answer, Ends(r, result), Grows,
           account' \in [Account -> AccountRow \cup {NoAccount}],
           project' \in [Project -> ProjectRow \cup {NotYet, Gone}],
           met' \in [Req -> SUBSET {"name", "password"}]
    PROVE  /\ TypeOK' /\ \A q \in Req \ {r} : Same(q) /\ PlaceOf(q)'
           /\ pc'[r] = "end" /\ answer'[r] = result /\ call'[r] = call[r]
  <1>0. TypeOK
    BY DEF Ind
  <1>1. /\ \A q \in Req \ {r} : Same(q)
        /\ pc'[r] = "end" /\ answer'[r] = result /\ call'[r] = call[r]
    BY <1>0 DEF TypeOK, Same, Ends
  <1>2. \A q \in Req \ {r} : PlaceOf(q)'
    BY <1>1, OtherPlace DEF Ind, PlaceInv
  <1>3. TypeOK'
    <2>1. pc' \in [Req -> Places] /\ answer' \in [Req -> Answer]
      BY <1>0 DEF Ends, TypeOK, Places
    <2>2. tokens' \subseteq Accounts'
      BY <1>0 DEF TypeOK, Grows, Ends
    <2> QED
      BY <1>0, <2>1, <2>2 DEF TypeOK, Ends
  <1> QED
    BY <1>1, <1>2, <1>3

LEMMA MetSame ==
    ASSUME Ind, NEW q \in Req, Same(q), pc[q] # "idle", met'[q] = met[q],
           \A a \in Accounts : /\ account'[a].name = account[a].name
                               /\ account'[a].password = account[a].password
    PROVE  MetOf(q)'
  <1>1. MetOf(q) /\ PlaceOf(q)
    BY DEF Ind, MetInv, PlaceInv
  <1>2. ASSUME pc[q] = "auth", call[q].token # BadToken
        PROVE  /\ account'[call[q].token].name = account[call[q].token].name
               /\ account'[call[q].token].password = account[call[q].token].password
    BY <1>1, <1>2 DEF PlaceOf
  <1>3. ASSUME pc[q] = "auth", call[q].token # BadToken, call[q].op = "update_me"
        PROVE  Met(account'[call[q].token], call[q]) \subseteq met[q]
    BY <1>1, <1>2, <1>3 DEF MetOf, Met
  <1> QED
    BY <1>1, <1>3 DEF MetOf, Same, Met

LEMMA InsertAccountInv ==
    ASSUME Ind, NEW r \in Req, InsertAccount(r) PROVE Ind'
  <1> DEFINE e == call[r].email
  <1>0. TypeOK /\ PlaceOf(r)
    BY DEF Ind, PlaceInv
  <1>1. pc[r] = "insert" /\ call[r] \in Call /\ call[r].op = "signup" /\ answer[r] = "none"
    BY <1>0 DEF InsertAccount, PlaceOf
  <1>2. /\ e \in Email /\ call[r].password \in Password /\ call[r].name \in Name \cup {None}
        /\ Lower[e] \in Email /\ Lower[Lower[e]] = Lower[e]
    BY <1>1, CallFields, AccountsAssumption
  <1>3. PICK result \in {"conflict", "created"} :
          /\ Ends(r, result) /\ project' = project /\ met' = met
          /\ result = "conflict" => Has(e) /\ account' = account
          /\ result = "created" =>
                /\ ~Has(e)
                /\ \E a \in Account \ Accounts :
                      account' = [account EXCEPT ![a] = NewAccount(call[r], Lower[e])]
    BY DEF InsertAccount, Ends, End, request, Has, ByEmail
  <1>4. \/ account' = account
        \/ \E a \in Account \ Accounts :
              account' = [account EXCEPT ![a] = NewAccount(call[r], Lower[e])]
    BY <1>3
  <1>5. NewAccount(call[r], Lower[e]) \in AccountRow
    BY <1>2 DEF NewAccount, AccountRow
  <1>6. account' \in [Account -> AccountRow \cup {NoAccount}]
    BY <1>0, <1>4, <1>5 DEF TypeOK
  <1>7. \A a \in Accounts : a \in Accounts' /\ account'[a] = account[a]
    BY <1>0, <1>4 DEF TypeOK, Accounts
  <1>8. Grows
    BY <1>3, <1>7 DEF Grows, Projects
  <1>9. result \in Answer
    BY DEF Answer
  <1>10. /\ TypeOK' /\ \A q \in Req \ {r} : Same(q) /\ PlaceOf(q)'
         /\ pc'[r] = "end" /\ answer'[r] = result /\ call'[r] = call[r]
    BY <1>0, <1>3, <1>6, <1>8, <1>9, Others DEF TypeOK
  <1>11. PlaceOf(r)'
    BY <1>1, <1>10 DEF PlaceOf
  <1>12. PlaceInv'
    BY <1>10, <1>11 DEF PlaceInv
  <1>13. MetInv'
    <2>1. MetOf(r)'
      BY <1>10 DEF MetOf
    <2>2. \A q \in Req \ {r} : pc[q] # "idle" => MetOf(q)'
      BY <1>3, <1>7, <1>10, MetSame
    <2> QED
      BY <1>10, <2>1, <2>2 DEF MetInv, Same
  <1>14. ASSUME result = "created" PROVE LowerInv' /\ OneAccountPerMailbox' /\ WillHave(e)
    <2>1. PICK a \in Account \ Accounts :
            account' = [account EXCEPT ![a] = NewAccount(call[r], Lower[e])]
      BY <1>3, <1>14
    <2>2. account'[a].email = Lower[e] /\ a \in Accounts'
      BY <1>0, <1>5, <2>1, AccountsAssumption DEF TypeOK, NewAccount, Accounts
    <2>3. \A b \in Accounts' : b # a => b \in Accounts /\ account'[b] = account[b]
      BY <1>0, <2>1 DEF TypeOK, Accounts
    <2>4. LowerInv'
      BY <1>2, <2>2, <2>3 DEF LowerInv, Ind
    <2>5. \A b \in Accounts : account[b].email # Lower[e]
      BY <1>3, <1>14 DEF Has
    <2>6. \A b \in Accounts' : b # a => Lower[account'[b].email] # Lower[account'[a].email]
      BY <1>2, <2>2, <2>3, <2>5 DEF Ind, LowerInv
    <2>7. OneAccountPerMailbox'
      BY <2>3, <2>6 DEF Ind, OneAccountPerMailbox
    <2> QED
      BY <2>2, <2>4, <2>7 DEF WillHave
  <1>15. LowerInv' /\ OneAccountPerMailbox'
    <2>1. CASE result = "conflict"
      BY <1>3, <2>1 DEF Ind, LowerInv, OneAccountPerMailbox, Accounts
    <2> QED
      BY <1>14, <2>1
  <1>16. SignupsDecided' /\ PatchTookEffect' /\ DeletedForGood'
    BY <1>1, <1>3, <1>8, <1>10, <1>12, <1>14, Finished
  <1> QED
    BY <1>10, <1>12, <1>13, <1>15, <1>16 DEF Ind

(* What an UPDATE of a profile leaves of its row.                          *)
Updated(r) ==
    [account[call[r].token] EXCEPT
        !.name = SaveName(call[r].name, user[r].name, @),
        !.password = SavePassword(call[r].password, @)]

LEMMA UpdateMeEffect ==
    ASSUME Ind, NEW r \in Req, UpdateMe(r)
    PROVE  LET a == call[r].token IN
           /\ pc[r] = "update_me" /\ call[r] \in Call /\ call[r].op = "update_me"
           /\ a \in Accounts /\ answer[r] = "none"
           /\ Ends(r, "ok") /\ project' = project
           /\ account' = [account EXCEPT ![a] = Updated(r)]
           /\ Updated(r) \in AccountRow
           /\ Updated(r).email = account[a].email /\ Updated(r).active = account[a].active
           /\ Updated(r).name = SaveName(call[r].name, user[r].name, account[a].name)
           /\ Updated(r).password = SavePassword(call[r].password, account[a].password)
           /\ met' = [q \in Req |->
                IF pc[q] \in {"auth", "update_me"} /\ call[q].op = "update_me"
                   /\ call[q].token = a
                THEN met[q] \cup Met(Updated(r), call[q]) ELSE met[q]]
  <1> DEFINE a == call[r].token
  <1>0. TypeOK /\ PlaceOf(r)
    BY DEF Ind, PlaceInv
  <1>1. /\ pc[r] = "update_me" /\ call[r] \in Call /\ call[r].op = "update_me"
        /\ a \in Accounts /\ answer[r] = "none"
    BY <1>0 DEF UpdateMe, PlaceOf
  <1>2. account[a] \in AccountRow
    BY <1>0, <1>1 DEF TypeOK, Accounts
  <1>3. call[r].name \in Name \cup {None} /\ call[r].password \in Password \cup {None}
    BY <1>1, CallFields
  <1>4. /\ SaveName(call[r].name, user[r].name, account[a].name) \in Name \cup {None}
        /\ SavePassword(call[r].password, account[a].password) \in Password
    BY <1>2, <1>3 DEF SaveName, SavePassword, AccountRow
  <1>5. /\ Updated(r) \in AccountRow
        /\ Updated(r).email = account[a].email /\ Updated(r).active = account[a].active
        /\ Updated(r).name = SaveName(call[r].name, user[r].name, account[a].name)
        /\ Updated(r).password = SavePassword(call[r].password, account[a].password)
    BY <1>2, <1>4 DEF Updated, AccountRow
  <1>6. /\ Ends(r, "ok") /\ project' = project
        /\ account' = [account EXCEPT ![a] = Updated(r)]
        /\ Meet(a, Updated(r))
    BY DEF UpdateMe, Updated, Ends, End, request
  <1> QED
    BY <1>1, <1>5, <1>6 DEF Meet

LEMMA UpdateMeInv ==
    ASSUME Ind, NEW r \in Req, UpdateMe(r) PROVE Ind'
  <1> DEFINE a == call[r].token
             row == Updated(r)
  <1>0. TypeOK
    BY DEF Ind
  <1>1. /\ pc[r] = "update_me" /\ call[r] \in Call /\ call[r].op = "update_me"
        /\ a \in Accounts /\ answer[r] = "none"
        /\ Ends(r, "ok") /\ project' = project
        /\ account' = [account EXCEPT ![a] = row]
        /\ row \in AccountRow /\ row.email = account[a].email
        /\ row.name = SaveName(call[r].name, user[r].name, account[a].name)
        /\ row.password = SavePassword(call[r].password, account[a].password)
        /\ met' = [q \in Req |->
                IF pc[q] \in {"auth", "update_me"} /\ call[q].op = "update_me"
                   /\ call[q].token = a
                THEN met[q] \cup Met(row, call[q]) ELSE met[q]]
    BY UpdateMeEffect
  <1> HIDE DEF row
  <1>2. \A c : Met(row, c) \in SUBSET {"name", "password"}
    BY DEF Met
  <1>3. /\ account' \in [Account -> AccountRow \cup {NoAccount}]
        /\ met' \in [Req -> SUBSET {"name", "password"}]
        /\ \A q \in Req : met[q] \subseteq met'[q]
    <2>1. account' \in [Account -> AccountRow \cup {NoAccount}]
      BY <1>0, <1>1 DEF TypeOK
    <2>2. \A q \in Req : met[q] \in SUBSET {"name", "password"}
      BY <1>0 DEF TypeOK
    <2>3. met' \in [Req -> SUBSET {"name", "password"}]
      BY <1>1, <1>2, <2>2
    <2> QED
      BY <1>1, <2>1, <2>3
  <1>4. /\ Accounts' = Accounts
        /\ \A b \in Accounts : account'[b].email = account[b].email
    BY <1>0, <1>1, AccountsAssumption DEF TypeOK, Accounts
  <1>5. Grows
    BY <1>1, <1>4 DEF Grows, Projects
  <1>6. "ok" \in Answer
    BY DEF Answer
  <1>7. /\ TypeOK' /\ \A q \in Req \ {r} : Same(q) /\ PlaceOf(q)'
        /\ pc'[r] = "end" /\ answer'[r] = "ok" /\ call'[r] = call[r]
    BY <1>0, <1>1, <1>3, <1>5, <1>6, Others DEF TypeOK
  <1>8. PlaceInv'
    <2>1. PlaceOf(r)'
      BY <1>1, <1>7 DEF PlaceOf
    <2> QED
      BY <1>7, <2>1 DEF PlaceInv
  <1>9. MetInv'
    <2>1. MetOf(r)'
      BY <1>7 DEF MetOf
    <2>2. ASSUME NEW q \in Req \ {r}, pc[q] # "idle", call[q].op = "update_me" PROVE MetOf(q)'
      <3>1. MetOf(q) /\ PlaceOf(q) /\ Same(q) /\ met[q] \subseteq met'[q]
        BY <1>3, <1>7, <2>2 DEF Ind, MetInv, PlaceInv
      <3>2. ASSUME pc[q] = "auth", call[q].token # BadToken
            PROVE  Met(account'[call[q].token], call[q]) \subseteq met'[q]
        <4>1. CASE call[q].token = a
          <5>1. account'[a] = row
            BY <1>0, <1>1 DEF TypeOK, Accounts
          <5> QED
            BY <1>1, <2>2, <3>2, <4>1, <5>1
        <4>2. CASE call[q].token # a
          <5>1. call[q].token \in Account
            BY <3>1, <3>2 DEF PlaceOf, Accounts
          <5>2. account'[call[q].token] = account[call[q].token]
            BY <1>0, <1>1, <4>2, <5>1 DEF TypeOK
          <5> QED
            BY <2>2, <3>1, <3>2, <5>2 DEF MetOf
        <4> QED
          BY <4>1, <4>2
      <3>3. ASSUME pc[q] = "update_me", call[q].name # None, call[q].name = user[q].name
            PROVE  "name" \in met'[q]
        BY <2>2, <3>1, <3>3 DEF MetOf
      <3> QED
        BY <3>1, <3>2, <3>3 DEF MetOf, Same, Met
    <2> QED
      BY <1>7, <2>1, <2>2 DEF MetInv, Same, MetOf
  <1>10. LowerInv' /\ OneAccountPerMailbox'
    BY <1>4 DEF Ind, LowerInv, OneAccountPerMailbox
  <1>11. {f \in {"name", "password"} : call[r][f] # None} \subseteq met'[r]
    <2>1. met'[r] = met[r] \cup Met(row, call[r])
      BY <1>1
    <2>2. ASSUME call[r].name # None PROVE "name" \in met'[r]
      <3>1. CASE call[r].name = user[r].name
        BY <1>1, <2>1, <2>2, <3>1 DEF Ind, MetInv, MetOf
      <3>2. CASE call[r].name # user[r].name
        <4>1. row.name = call[r].name
          BY <1>1, <2>2, <3>2 DEF SaveName
        <4> QED
          BY <2>1, <2>2, <4>1 DEF Met
      <3> QED
        BY <3>1, <3>2
    <2>3. ASSUME call[r].password # None PROVE "password" \in met'[r]
      <3>1. row.password = call[r].password
        BY <1>1, <2>3 DEF SavePassword
      <3> QED
        BY <2>1, <2>3, <3>1 DEF Met
    <2> QED
      BY <2>2, <2>3
  <1>12. SignupsDecided' /\ PatchTookEffect' /\ DeletedForGood'
    BY <1>1, <1>3, <1>5, <1>7, <1>8, <1>11, Finished
  <1> QED
    BY <1>7, <1>8, <1>9, <1>10, <1>12 DEF Ind

(* The same for the steps that change the projects.                        *)
LEMMA ProjectSteps ==
    ASSUME Ind, NEW r \in Req, NEW result \in Answer, Ends(r, result),
           account' = account, met' = met, pc[r] \notin {"idle", "end"},
           call[r].op \in {"create_project", "update_project", "delete_project"},
           call[r] \in Call,
           project' \in [Project -> ProjectRow \cup {NotYet, Gone}], Grows,
           result \in {"exists", "conflict", "created"} => call[r].op = "create_project",
           result = "deleted" =>
              call[r].op = "delete_project" /\ project'[call[r].project] = Gone
    PROVE  Ind'
  <1>0. TypeOK
    BY DEF Ind
  <1>1. /\ TypeOK' /\ \A q \in Req \ {r} : Same(q) /\ PlaceOf(q)'
        /\ pc'[r] = "end" /\ answer'[r] = result /\ call'[r] = call[r]
    BY <1>0, Others DEF TypeOK
  <1>2. PlaceInv'
    <2>1. PlaceOf(r)'
      BY <1>1 DEF PlaceOf
    <2> QED
      BY <1>1, <2>1 DEF PlaceInv
  <1>3. MetInv'
    <2>1. MetOf(r)'
      BY <1>1 DEF MetOf
    <2>2. \A q \in Req \ {r} : pc[q] # "idle" => MetOf(q)'
      BY <1>1, MetSame
    <2> QED
      BY <1>1, <2>1, <2>2 DEF MetInv, Same
  <1>4. LowerInv' /\ OneAccountPerMailbox'
    BY DEF Ind, LowerInv, OneAccountPerMailbox, Accounts
  <1>5. SignupsDecided' /\ PatchTookEffect' /\ DeletedForGood'
    BY <1>1, <1>2, Finished
  <1> QED
    BY <1>1, <1>2, <1>3, <1>4, <1>5 DEF Ind

LEMMA CreateProjectInv ==
    ASSUME Ind, NEW r \in Req, CreateProject(r) PROVE Ind'
  <1>0. TypeOK /\ PlaceOf(r)
    BY DEF Ind, PlaceInv
  <1>1. /\ pc[r] = "create_project" /\ call[r] \in Call /\ call[r].op = "create_project"
        /\ call[r].token \in Accounts
    BY <1>0 DEF CreateProject, PlaceOf
  <1>2. Ends(r, "created") /\ account' = account /\ met' = met /\ "created" \in Answer
    BY DEF CreateProject, Ends, End, request, Answer
  <1>3. PICK p \in Project :
          /\ project[p] = NotYet
          /\ project' = [project EXCEPT ![p] =
                [owner |-> call[r].token, name |-> call[r].name, note |-> call[r].note]]
    BY DEF CreateProject
  <1>4. [owner |-> call[r].token, name |-> call[r].name, note |-> call[r].note] \in ProjectRow
    BY <1>1, CallFields DEF ProjectRow, Accounts
  <1>5. project' \in [Project -> ProjectRow \cup {NotYet, Gone}]
    BY <1>0, <1>3, <1>4 DEF TypeOK
  <1>6. \A q \in Project \ {p} : project'[q] = project[q]
    BY <1>0, <1>3 DEF TypeOK
  <1>7. Grows
    BY <1>2, <1>3, <1>6, AccountsAssumption DEF Grows, Accounts, Projects
  <1> QED
    BY <1>1, <1>2, <1>5, <1>7, ProjectSteps

LEMMA UpdateProjectEffect ==
    ASSUME Ind, NEW r \in Req, UpdateProject(r)
    PROVE  LET p == call[r].project IN
           /\ pc[r] = "save" /\ call[r] \in Call /\ call[r].op = "update_project"
           /\ p \in Project /\ UNCHANGED <<account, met>>
           /\ \/ Ends(r, "stale") /\ project' = project
              \/ /\ Ends(r, "ok") /\ p \in Projects
                 /\ \E row \in ProjectRow :
                       /\ project' = [project EXCEPT ![p] = row]
                       /\ row.owner = project[p].owner
  <1> DEFINE p == call[r].project
             row == [project[p] EXCEPT
                        !.name = Save(call[r].name, loaded[r].name, @),
                        !.note = Save(call[r].note, loaded[r].note, @)]
  <1>0. TypeOK /\ PlaceOf(r)
    BY DEF Ind, PlaceInv
  <1>1. pc[r] = "save" /\ call[r] \in Call /\ call[r].op = "update_project" /\ p \in Project
    BY <1>0, CallFields DEF UpdateProject, PlaceOf
  <1>2. UNCHANGED <<account, met>>
    BY DEF UpdateProject
  <1>3. CASE p \notin Projects \/ call[r].name = None
    <2>1. Ends(r, "stale") /\ project' = project
      BY <1>3 DEF UpdateProject, Ends, End, request
    <2> QED
      BY <1>1, <1>2, <2>1
  <1>4. CASE p \in Projects /\ call[r].name # None
    <2>1. Ends(r, "ok")
      BY <1>4 DEF UpdateProject, Ends, End, request
    <2>2. project' = [project EXCEPT ![p] = [project[p] EXCEPT
                      !.name = Save(call[r].name, loaded[r].name, @),
                      !.note = Save(call[r].note, loaded[r].note, @)]]
      BY <1>4 DEF UpdateProject
    <2>3. project[p] \in ProjectRow
      BY <1>0, <1>1, <1>4 DEF TypeOK, Projects
    <2>4. call[r].name \in Name \cup {Unset} /\ call[r].note \in Name \cup {Unset, None}
      BY <1>1, <1>4, CallFields
    <2>5. /\ Save(call[r].name, loaded[r].name, project[p].name) \in Name
          /\ Save(call[r].note, loaded[r].note, project[p].note) \in Name \cup {None}
      BY <2>3, <2>4 DEF ProjectRow, Save
    <2>6. row \in ProjectRow /\ row.owner = project[p].owner
      BY <2>3, <2>5 DEF ProjectRow
    <2>7. project' = [project EXCEPT ![p] = row]
      BY <2>2
    <2> QED
      BY <1>1, <1>2, <1>4, <2>1, <2>6, <2>7
  <1> QED
    BY <1>3, <1>4

LEMMA UpdateProjectInv ==
    ASSUME Ind, NEW r \in Req, UpdateProject(r) PROVE Ind'
  <1> DEFINE p == call[r].project
  <1>0. TypeOK
    BY DEF Ind
  <1>1. /\ pc[r] = "save" /\ call[r] \in Call /\ call[r].op = "update_project"
        /\ p \in Project /\ UNCHANGED <<account, met>>
        /\ \/ Ends(r, "stale") /\ project' = project
           \/ /\ Ends(r, "ok") /\ p \in Projects
              /\ \E row \in ProjectRow :
                    /\ project' = [project EXCEPT ![p] = row]
                    /\ row.owner = project[p].owner
    BY UpdateProjectEffect
  <1>2. /\ project' \in [Project -> ProjectRow \cup {NotYet, Gone}]
        /\ \A q \in Project : q # p => project'[q] = project[q]
        /\ \/ project'[p] = project[p]
           \/ p \in Projects /\ project'[p] \in ProjectRow /\ project'[p].owner = project[p].owner
    <2>0. project \in [Project -> ProjectRow \cup {NotYet, Gone}]
      BY <1>0 DEF TypeOK
    <2>1. CASE project' = project
      BY <2>0, <2>1
    <2>2. ASSUME p \in Projects, NEW row \in ProjectRow, row.owner = project[p].owner,
                 project' = [project EXCEPT ![p] = row]
          PROVE  /\ project' \in [Project -> ProjectRow \cup {NotYet, Gone}]
                 /\ \A q \in Project : q # p => project'[q] = project[q]
                 /\ project'[p] = row
      BY <1>1, <2>0, <2>2
    <2> QED
      BY <1>1, <2>1, <2>2
  <1>3. Grows
    BY <1>1, <1>2, AccountsAssumption DEF Grows, Accounts, Projects
  <1> QED
    BY <1>1, <1>2, <1>3, ProjectSteps DEF Answer

LEMMA DeleteProjectInv ==
    ASSUME Ind, NEW r \in Req, DeleteProject(r) PROVE Ind'
  <1>0. TypeOK /\ PlaceOf(r)
    BY DEF Ind, PlaceInv
  <1>1. /\ pc[r] = "delete" /\ call[r] \in Call /\ call[r].op = "delete_project"
        /\ call[r].project \in Project
    BY <1>0, CallFields DEF DeleteProject, PlaceOf
  <1>2. Ends(r, "deleted") /\ account' = account /\ met' = met /\ "deleted" \in Answer
    BY DEF DeleteProject, Ends, End, request, Answer
  <1>3. project' = [project EXCEPT ![call[r].project] = Gone]
    BY DEF DeleteProject
  <1>4. project' \in [Project -> ProjectRow \cup {NotYet, Gone}]
    BY <1>0, <1>3 DEF TypeOK
  <1>5. /\ \A q \in Project : q # call[r].project => project'[q] = project[q]
        /\ project'[call[r].project] = Gone
    BY <1>0, <1>1, <1>3 DEF TypeOK
  <1>6. Grows
    BY <1>2, <1>5 DEF Grows, Accounts, Projects
  <1> QED
    BY <1>1, <1>2, <1>4, <1>5, <1>6, ProjectSteps

-----------------------------------------------------------------------------
LEMMA DeactivateInv ==
    ASSUME Ind, NEW a \in Account, Deactivate(a) PROVE Ind'
  <1>0. TypeOK
    BY DEF Ind
  <1>1. /\ a \in Accounts /\ account' = [account EXCEPT ![a].active = FALSE]
        /\ UNCHANGED <<project, tokens, call, user, loaded, pc, answer, shown, met>>
    BY DEF Deactivate, request
  <1>2. account[a] \in AccountRow
    BY <1>0, <1>1 DEF TypeOK, Accounts
  <1>3. [account[a] EXCEPT !.active = FALSE] \in AccountRow
    BY <1>2 DEF AccountRow
  <1>4. account' \in [Account -> AccountRow \cup {NoAccount}]
    BY <1>0, <1>1, <1>3 DEF TypeOK
  <1>5. /\ Accounts' = Accounts
        /\ \A b \in Accounts : /\ account'[b].email = account[b].email
                               /\ account'[b].name = account[b].name
                               /\ account'[b].password = account[b].password
    <2>1. \A b \in Account : b # a => account'[b] = account[b]
      BY <1>0, <1>1 DEF TypeOK
    <2>2. account'[a] = [account[a] EXCEPT !.active = FALSE]
      BY <1>0, <1>1 DEF TypeOK
    <2>3. /\ account'[a].email = account[a].email /\ account'[a].name = account[a].name
          /\ account'[a].password = account[a].password /\ account'[a] # NoAccount
      BY <1>2, <1>3, <2>2, AccountsAssumption DEF AccountRow
    <2> QED
      BY <1>1, <2>1, <2>3 DEF Accounts
  <1>6. Grows
    BY <1>1, <1>5 DEF Grows, Projects
  <1>7. \A q \in Req : Same(q)
    BY <1>1 DEF Same
  <1>8. PlaceInv'
    BY <1>6, <1>7, OtherPlace DEF Ind, PlaceInv
  <1>9. MetInv'
    BY <1>1, <1>5, <1>7, MetSame DEF MetInv, Same
  <1>10. TypeOK'
    BY <1>0, <1>1, <1>4, <1>5 DEF TypeOK
  <1>11. LowerInv' /\ OneAccountPerMailbox'
    BY <1>5 DEF Ind, LowerInv, OneAccountPerMailbox
  <1>12. SignupsDecided'
    <2>1. \A q \in Req : ByEmail(call[q].email) # {} => ByEmail(call[q].email)' # {}
      BY <1>1, <1>5 DEF ByEmail
    <2> QED
      BY <1>1, <2>1 DEF Ind, SignupsDecided, Signup
  <1>13. PatchTookEffect' /\ DeletedForGood'
    BY <1>1 DEF Ind, PatchTookEffect, DeletedForGood
  <1> QED
    BY <1>8, <1>9, <1>10, <1>11, <1>12, <1>13 DEF Ind

LEMMA Initial ==
    Init => Ind
  <1> SUFFICES ASSUME Init PROVE Ind
    OBVIOUS
  <1> USE AccountsAssumption DEF Init
  <1>1. TypeOK
    BY DEF TypeOK, Places, Answer, Accounts
  <1>2. PlaceInv
    BY DEF PlaceInv, PlaceOf
  <1>3. LowerInv /\ OneAccountPerMailbox
    BY DEF LowerInv, OneAccountPerMailbox, Accounts
  <1>4. MetInv
    BY DEF MetInv
  <1>5. SignupsDecided /\ PatchTookEffect /\ DeletedForGood
    BY DEF SignupsDecided, Signup, PatchTookEffect, DeletedForGood
  <1> QED
    BY <1>1, <1>2, <1>3, <1>4, <1>5 DEF Ind

LEMMA Inductive ==
    ASSUME Ind, [Next]_vars PROVE Ind'
  <1>1. ASSUME NEW r \in Req, Step(r) PROVE Ind'
    BY <1>1, ArriveInv, CheckInv, InsertAccountInv, LoginInv, AuthenticateInv, UpdateMeInv,
       CreateProjectInv, ListProjectsInv, GetProjectInv, UpdateProjectInv, DeleteProjectInv,
       FailInv DEF Step
  <1>2. CASE UNCHANGED vars
    BY <1>2 DEF vars, tables, request, Ind, TypeOK, PlaceInv, PlaceOf, LowerInv, MetInv, MetOf,
                Met, OneAccountPerMailbox, SignupsDecided, Signup, ByEmail, PatchTookEffect,
                DeletedForGood, Accounts, Projects
  <1> QED
    BY <1>1, <1>2, DeactivateInv DEF Next

LEMMA Always == Spec => []Ind
  <1>1. Ind /\ [Next]_vars => Ind'
    BY Inductive
  <1> QED
    BY Initial, <1>1, PTL DEF Spec

(* No column that may not be null is ever null, and a token is of an       *)
(* account that exists: see TypeOK.                                        *)
THEOREM TypeCorrect == Spec => []TypeOK
  <1>1. Ind => TypeOK
    BY DEF Ind
  <1> QED
    BY Always, <1>1, PTL

(* However many signups of one mailbox interleave, in whatever spelling,   *)
(* it has one account at most.                                             *)
THEOREM OneAccount == Spec => []OneAccountPerMailbox
  <1>1. Ind => OneAccountPerMailbox
    BY DEF Ind
  <1> QED
    BY Always, <1>1, PTL

(* Of the signups of a mailbox one at most is told that it created the     *)
(* account, and one that is refused is refused because there is one.       *)
THEOREM SignupsAreDecided == Spec => []SignupsDecided
  <1>1. Ind => SignupsDecided
    BY DEF Ind
  <1> QED
    BY Always, <1>1, PTL

(* A PATCH of a profile that was answered with ok had its effect, whatever *)
(* other PATCHes ran beside it.                                            *)
THEOREM PatchesTakeEffect == Spec => []PatchTookEffect
  <1>1. Ind => PatchTookEffect
    BY DEF Ind
  <1> QED
    BY Always, <1>1, PTL

(* A deleted project stays deleted.                                        *)
THEOREM DeletionsStay == Spec => []DeletedForGood
  <1>1. Ind => DeletedForGood
    BY DEF Ind
  <1> QED
    BY Always, <1>1, PTL

-----------------------------------------------------------------------------
(* Which steps change an account.                                          *)
LEMMA AccountSteps ==
    ASSUME Ind, Next, NEW a \in Accounts, account'[a] # account[a]
    PROVE  (\E r \in Req : UpdateMe(r)) \/ Deactivate(a)
  <1>0. account \in [Account -> AccountRow \cup {NoAccount}]
    BY DEF Ind, TypeOK
  <1>1. ASSUME NEW r \in Req, Step(r), ~UpdateMe(r) PROVE account'[a] = account[a]
    <2>1. CASE InsertAccount(r)
      <3>1. \/ account' = account
            \/ \E b \in Account \ Accounts, row \in {NewAccount(call[r], Lower[call[r].email])} :
                  account' = [account EXCEPT ![b] = row]
        BY <2>1 DEF InsertAccount
      <3>2. a \in Account /\ a \notin Account \ Accounts
        BY DEF Accounts
      <3> QED
        BY <1>0, <3>1, <3>2
    <2>2. CASE ~InsertAccount(r)
      BY <1>1, <2>2 DEF Step, Arrive, Check, Login, Authenticate, CreateProject, ListProjects,
                        GetProject, UpdateProject, DeleteProject, Fail, tables
    <2> QED
      BY <2>1, <2>2
  <1>2. ASSUME NEW b \in Account, Deactivate(b), b # a PROVE account'[a] = account[a]
    BY <1>0, <1>2 DEF Deactivate, Accounts
  <1> QED
    BY <1>1, <1>2 DEF Next

(* An account changes only as a PATCH of its own asks, and in no other     *)
(* field: two PATCHes of one profile do not undo each other.               *)
THEOREM AccountsChangeAsAsked == Spec => ChangedAsAsked
  <1>1. Ind /\ [Next]_vars =>
          [\A a \in Accounts : account'[a] # account[a] =>
          \/ account'[a] = [account[a] EXCEPT !.active = FALSE]
          \/ \E r \in Req :
                /\ pc[r] # "end" /\ pc'[r] = "end"
                /\ call[r].op = "update_me" /\ call[r].token = a
                /\ account'[a].email = account[a].email
                /\ account'[a].active = account[a].active
                /\ \A f \in {"name", "password"} :
                      account'[a][f] # account[a][f] => account'[a][f] = call[r][f]]_vars
    <2> DEFINE Named(a, r) ==
                /\ pc[r] # "end" /\ pc'[r] = "end"
                /\ call[r].op = "update_me" /\ call[r].token = a
                /\ account'[a].email = account[a].email
                /\ account'[a].active = account[a].active
                /\ \A f \in {"name", "password"} :
                      account'[a][f] # account[a][f] => account'[a][f] = call[r][f]
    <2> SUFFICES ASSUME Ind, Next
                 PROVE  \A a \in Accounts : account'[a] # account[a] =>
                          \/ account'[a] = [account[a] EXCEPT !.active = FALSE]
                          \/ \E r \in Req : Named(a, r)
      BY Zenon
    <2> TAKE a \in Accounts
    <2> HAVE account'[a] # account[a]
    <2>0. account \in [Account -> AccountRow \cup {NoAccount}] /\ pc \in [Req -> Places]
      BY DEF Ind, TypeOK
    <2>1. CASE Deactivate(a)
      BY <2>0, <2>1 DEF Deactivate
    <2>2. ASSUME NEW r \in Req, UpdateMe(r)
          PROVE  Named(a, r)
      <3>1. /\ pc[r] = "update_me" /\ call[r].op = "update_me"
            /\ call[r].token \in Accounts /\ Ends(r, "ok")
            /\ account' = [account EXCEPT ![call[r].token] = Updated(r)]
            /\ Updated(r).email = account[call[r].token].email
            /\ Updated(r).active = account[call[r].token].active
            /\ Updated(r).name = SaveName(call[r].name, user[r].name, account[call[r].token].name)
            /\ Updated(r).password = SavePassword(call[r].password, account[call[r].token].password)
        BY <2>2, UpdateMeEffect
      <3>2. call[r].token = a /\ account'[a] = Updated(r)
        BY <2>0, <3>1 DEF Accounts
      <3>3. account'[a].name # account[a].name => account'[a].name = call[r].name
        BY <3>1, <3>2 DEF SaveName
      <3>4. account'[a].password # account[a].password => account'[a].password = call[r].password
        BY <3>1, <3>2 DEF SavePassword
      <3>5. pc'[r] = "end"
        BY <2>0, <3>1 DEF Ends
      <3> QED
        BY <3>1, <3>2, <3>3, <3>4, <3>5
    <2> QED
      BY <2>1, <2>2, AccountSteps
  <1> QED
    BY Always, <1>1, PTL DEF Spec, ChangedAsAsked

(* Which steps change a project or show one.                               *)
LEMMA ProjectsOfOwners ==
    ASSUME Ind, NEW r \in Req, Step(r), NEW p \in Projects
    PROVE  /\ project'[p] # Gone => project'[p].owner = project[p].owner
           /\ \A q \in Req : p \in shown'[q] \ shown[q] => call[q].token = project[p].owner
           /\ project'[p] # project[p] =>
                 pc[r] # "end" /\ pc'[r] = "end" /\ call[r].token = project[p].owner
  <1>0. TypeOK /\ PlaceOf(r)
    BY DEF Ind, PlaceInv
  <1>1. /\ p \in Project /\ project \in [Project -> ProjectRow \cup {NotYet, Gone}]
        /\ pc \in [Req -> Places] /\ shown \in [Req -> SUBSET Project]
    BY <1>0 DEF TypeOK, Projects
  <1>2. CASE CreateProject(r)
    BY <1>1, <1>2 DEF CreateProject, Projects
  <1>3. CASE UpdateProject(r)
    <2>1. /\ pc[r] = "save" /\ call[r].project \in Project
          /\ shown' = shown
          /\ \/ project' = project
             \/ /\ Ends(r, "ok") /\ call[r].project \in Projects
                /\ \E row \in ProjectRow :
                      /\ project' = [project EXCEPT ![call[r].project] = row]
                      /\ row.owner = project[call[r].project].owner
      BY <1>3, UpdateProjectEffect DEF Ends
    <2>2. CASE project' = project
      BY <2>1, <2>2
    <2>3. CASE project' # project
      <3>1. PICK row \in ProjectRow :
              /\ project' = [project EXCEPT ![call[r].project] = row]
              /\ row.owner = project[call[r].project].owner
        BY <2>1, <2>3
      <3>2. pc'[r] = "end" /\ call[r].project \in Projects
        BY <1>1, <2>1, <2>3 DEF Ends
      <3>3. project[call[r].project].owner = call[r].token
        BY <1>0, <2>1, <3>2 DEF PlaceOf, Projects
      <3> QED
        BY <1>1, <2>1, <3>1, <3>2, <3>3
    <2> QED
      BY <2>2, <2>3
  <1>4. CASE DeleteProject(r)
    <2>1. /\ pc[r] = "delete" /\ pc'[r] = "end" /\ shown' = shown
          /\ project' = [project EXCEPT ![call[r].project] = Gone]
      BY <1>1, <1>4 DEF DeleteProject, End
    <2>2. call[r].project = p => call[r].token = project[p].owner
      BY <1>0, <2>1 DEF PlaceOf, Projects
    <2> QED
      BY <1>1, <2>1, <2>2
  <1>5. CASE GetProject(r)
    <2>1. project' = project
      BY <1>5 DEF GetProject, tables
    <2>2. \/ shown' = shown
          \/ /\ call[r].project \in Owned(call[r].token)
             /\ shown' = [shown EXCEPT ![r] = {call[r].project}]
      BY <1>5 DEF GetProject
    <2> QED
      BY <1>1, <2>1, <2>2 DEF Owned
  <1>6. CASE ListProjects(r)
    <2>1. project' = project /\ \E page \in SUBSET Owned(call[r].token) :
                                  shown' = [shown EXCEPT ![r] = page]
      BY <1>6 DEF ListProjects, tables, PageOf
    <2> QED
      BY <1>1, <2>1 DEF Owned
  <1>7. CASE project' = project /\ shown' = shown
    BY <1>7
  <1>8. \/ CreateProject(r) \/ UpdateProject(r) \/ DeleteProject(r) \/ GetProject(r)
        \/ ListProjects(r) \/ (project' = project /\ shown' = shown)
    BY DEF Step, Arrive, Check, InsertAccount, Login, Authenticate, UpdateMe, Fail, tables
  <1> QED
    BY <1>2, <1>3, <1>4, <1>5, <1>6, <1>7, <1>8

(* A project is changed or shown only for its owner, who never changes.    *)
THEOREM ProjectsAreTheOwners == Spec => OwnersOnly
  <1>1. Ind /\ [Next]_vars =>
     [\A p \in Projects :
          /\ project'[p] # Gone => project'[p].owner = project[p].owner
          /\ \A r \in Req : p \in shown'[r] \ shown[r] => call[r].token = project[p].owner
          /\ project'[p] # project[p] =>
                \E r \in Req : /\ pc[r] # "end" /\ pc'[r] = "end"
                               /\ call[r].token = project[p].owner]_vars
    <2>1. ASSUME Ind, Next, ~(\E r \in Req : Step(r)) PROVE project' = project /\ shown' = shown
      BY <2>1 DEF Next, Deactivate
    <2> QED
      BY <2>1, ProjectsOfOwners
  <1> QED
    BY Always, <1>1, PTL DEF Spec, OwnersOnly

-----------------------------------------------------------------------------
(* The accounts and projects as Directory has them.                        *)

(* The same tables, by the names of Directory.                             *)
LEMMA Names ==
    /\ Dir!Accounts = Accounts /\ Dir!Projects = Projects
    /\ \A a, p : Dir!Owns(a, p) <=> p \in Owned(a)
    /\ \A c : Dir!Holders(c) = ByEmail(c.email)
    /\ \A c : Dir!Verified(c) = {a \in ByEmail(c.email) : account[a].password = c.password}
  BY DEF Dir!Accounts, Accounts, Dir!Projects, Projects, Dir!Owns, Owned, Dir!Holders, ByEmail,
     Dir!Verified

(* A request under way.                                                    *)
LEMMA UnderWay ==
    ASSUME call' = call, NEW r \in Req, pc[r] # "idle", pc'[r] # "idle",
           \A q \in Req \ {r} : pc'[q] = pc[q]
    PROVE  UNCHANGED Asked /\ Asked[r] = {call[r]}
  <1>1. \A q \in Req : pc'[q] = "idle" <=> pc[q] = "idle"
    OBVIOUS
  <1> QED
    BY <1>1 DEF Asked

(* It ends, or goes on unanswered.                                         *)
Answers(r, result) ==
    /\ r \in Req /\ UNCHANGED Asked /\ Asked[r] = {call[r]} /\ answer[r] = "none"
    /\ answer' = [answer EXCEPT ![r] = result]

LEMMA EndAnswers ==
    ASSUME Ind, NEW r \in Req, NEW result, End(r, result), call' = call,
           pc[r] \notin {"idle", "end"}
    PROVE  Answers(r, result)
  <1>1. /\ pc'[r] = "end" /\ \A q \in Req \ {r} : pc'[q] = pc[q]
        /\ answer' = [answer EXCEPT ![r] = result]
    BY DEF End, Ind, TypeOK
  <1>2. answer[r] = "none"
    BY DEF Ind, PlaceInv, PlaceOf
  <1> QED
    BY <1>1, <1>2, UnderWay DEF Answers

LEMMA GotoHidden ==
    ASSUME Ind, NEW r \in Req, NEW place \in Places \ {"idle"}, Goto(r, place), call' = call,
           pc[r] # "idle", UNCHANGED <<tables, tokens>>
    PROVE  UNCHANGED Dir!vars
  <1>1. /\ pc'[r] = place /\ \A q \in Req \ {r} : pc'[q] = pc[q]
        /\ answer' = answer
    BY DEF Goto, Ind, TypeOK
  <1>2. UNCHANGED Asked
    BY <1>1, UnderWay
  <1> QED
    BY <1>1, <1>2 DEF Dir!vars, Dir!tables, tables

(* An answer is an action of the directory on the call of the request.     *)
Acts == \E r \in Req : \E c \in Asked[r] : Dir!Act(r, c)

LEMMA Refusing ==
    ASSUME NEW r, NEW result, Answers(r, result), UNCHANGED <<tables, tokens>>,
           result \in {"error", "exists", "conflict", "unauthorized", "forbidden",
                       "missing", "stale"},
           Dir!Rightly(call[r], result)
    PROVE  Acts
  <1>1. Dir!Refuse(r, call[r])
    BY DEF Answers, Dir!Refuse, Dir!Open, Dir!Reply, Dir!tables, tables
  <1> QED
    BY <1>1 DEF Acts, Answers, Dir!Act

LEMMA ArriveAsks ==
    ASSUME Ind, NEW r \in Req, Arrive(r) PROVE Dir!Ask(r)
  <1>1. PICK c \in Calls :
          /\ c.op \in {"signup", "login"} \/ c.token \in tokens \cup {BadToken}
          /\ call' = [call EXCEPT ![r] = c]
    BY DEF Arrive
  <1>2. /\ pc[r] = "idle" /\ pc'[r] # "idle" /\ call'[r] = c
        /\ \A q \in Req \ {r} : pc'[q] = pc[q] /\ call'[q] = call[q]
        /\ UNCHANGED <<tables, tokens, answer>>
    BY <1>1 DEF Arrive, Goto, Ind, TypeOK
  <1>3. /\ Asked = [q \in Req |-> Asked[q]] /\ Asked' = [q \in Req |-> Asked'[q]]
        /\ Asked[r] = {} /\ Asked'[r] = {c} /\ \A q \in Req \ {r} : Asked'[q] = Asked[q]
    BY <1>2 DEF Asked
  <1>4. Asked' = [Asked EXCEPT ![r] = {c}]
    BY <1>3
  <1> QED
    BY <1>1, <1>2, <1>3, <1>4 DEF Dir!Ask, Dir!tables, tables

LEMMA CheckActs ==
    ASSUME Ind, NEW r \in Req, Check(r) PROVE Acts \/ UNCHANGED Dir!vars
  <1>1. /\ pc[r] = "signup" /\ call' = call /\ UNCHANGED <<tables, tokens>>
        /\ call[r].op = "signup"
    BY DEF Check, request, Ind, PlaceInv, PlaceOf
  <1>2. CASE ByEmail(call[r].email) # {} /\ End(r, "exists")
    <2>1. Answers(r, "exists")
      BY <1>1, <1>2, EndAnswers
    <2>2. Dir!Rightly(call[r], "exists")
      BY <1>1, <1>2, Names DEF Dir!Rightly
    <2> QED
      BY <1>1, <2>1, <2>2, Refusing
  <1>3. CASE Goto(r, "insert")
    BY <1>1, <1>3, GotoHidden DEF Places
  <1> QED
    BY <1>2, <1>3 DEF Check

LEMMA InsertAccountActs ==
    ASSUME Ind, NEW r \in Req, InsertAccount(r) PROVE Acts
  <1>1. /\ pc[r] = "insert" /\ call' = call /\ project' = project /\ tokens' = tokens
        /\ call[r].op = "signup"
    BY DEF InsertAccount, request, Ind, PlaceInv, PlaceOf
  <1>2. CASE ByEmail(call[r].email) # {} /\ End(r, "conflict") /\ UNCHANGED account
    <2>1. Answers(r, "conflict")
      BY <1>1, <1>2, EndAnswers
    <2>2. Dir!Rightly(call[r], "conflict")
      BY <1>1, <1>2, Names DEF Dir!Rightly
    <2> QED
      BY <1>1, <1>2, <2>1, <2>2, Refusing DEF tables
  <1>3. CASE /\ ByEmail(call[r].email) = {} /\ End(r, "created")
             /\ \E a \in Account \ Accounts :
                   account' = [account EXCEPT
                       ![a] = NewAccount(call[r], Lower[call[r].email])]
    <2>1. Answers(r, "created")
      BY <1>1, <1>3, EndAnswers
    <2>2. Dir!SignUp(r, call[r])
      BY <1>1, <1>3, <2>1, Names DEF Dir!SignUp, Dir!Open, Dir!Reply, Answers, NewAccount
    <2> QED
      BY <2>1, <2>2 DEF Acts, Answers, Dir!Act
  <1> QED
    BY <1>2, <1>3 DEF InsertAccount

LEMMA LoginActs ==
    ASSUME Ind, NEW r \in Req, Login(r) PROVE Acts
  <1> DEFINE given == {a \in ByEmail(call[r].email) : account[a].password = call[r].password}
  <1>1. /\ pc[r] = "login" /\ call' = call /\ UNCHANGED tables
        /\ call[r].op = "login"
    BY DEF Login, request, Ind, PlaceInv, PlaceOf
  <1>0. given = Dir!Verified(call[r])
    BY Names
  <1> HIDE DEF given
  <1>2. CASE given = {} /\ End(r, "unauthorized") /\ UNCHANGED tokens
    <2>1. Answers(r, "unauthorized")
      BY <1>1, <1>2, EndAnswers
    <2>2. Dir!Rightly(call[r], "unauthorized")
      BY <1>0, <1>1, <1>2 DEF Dir!Rightly
    <2> QED
      BY <1>1, <1>2, <2>1, <2>2, Refusing
  <1>3. ASSUME NEW a \in given, account[a].active, End(r, "ok"), tokens' = tokens \cup {a}
        PROVE  Acts
    <2>1. Answers(r, "ok")
      BY <1>1, <1>3, EndAnswers
    <2>2. Dir!LogIn(r, call[r])
      BY <1>0, <1>1, <1>3, <2>1 DEF Dir!LogIn, Dir!Open, Dir!Reply, Answers, tables
    <2> QED
      BY <2>1, <2>2 DEF Acts, Answers, Dir!Act
  <1>4. ASSUME NEW a \in given, ~account[a].active, End(r, "forbidden"), UNCHANGED tokens
        PROVE  Acts
    <2>1. Answers(r, "forbidden")
      BY <1>1, <1>4, EndAnswers
    <2>2. Dir!Rightly(call[r], "forbidden")
      BY <1>0, <1>1, <1>4 DEF Dir!Rightly
    <2> QED
      BY <1>1, <1>4, <2>1, <2>2, Refusing
  <1>5. \/ given = {} /\ End(r, "unauthorized") /\ UNCHANGED tokens
        \/ \E a \in given : IF account[a].active
                            THEN End(r, "ok") /\ tokens' = tokens \cup {a}
                            ELSE End(r, "forbidden") /\ UNCHANGED tokens
    BY DEF Login, given
  <1> QED
    BY <1>2, <1>3, <1>4, <1>5

LEMMA AuthenticateActs ==
    ASSUME Ind, NEW r \in Req, Authenticate(r) PROVE Acts \/ UNCHANGED Dir!vars
  <1> DEFINE a == call[r].token
  <1>1. /\ pc[r] = "auth" /\ call' = call /\ UNCHANGED <<tables, tokens>>
        /\ call[r] \in Call /\ call[r].op \notin {"signup", "login"}
    BY DEF Authenticate, Ind, PlaceInv, PlaceOf
  <1>2. CASE a \notin Accounts /\ End(r, "unauthorized")
    <2>1. Answers(r, "unauthorized")
      BY <1>1, <1>2, EndAnswers
    <2>2. Dir!Rightly(call[r], "unauthorized")
      BY <1>1, <1>2, Names DEF Dir!Rightly
    <2> QED
      BY <1>1, <2>1, <2>2, Refusing
  <1>3. CASE a \in Accounts /\ ~account[a].active /\ End(r, "forbidden")
    <2>1. Answers(r, "forbidden")
      BY <1>1, <1>3, EndAnswers
    <2>2. Dir!Rightly(call[r], "forbidden")
      BY <1>1, <1>3, Names DEF Dir!Rightly
    <2> QED
      BY <1>1, <2>1, <2>2, Refusing
  <1>4. CASE a \in Accounts /\ call[r].op = "get_me" /\ End(r, "ok")
    <2>1. Answers(r, "ok")
      BY <1>1, <1>4, EndAnswers
    <2>2. Dir!Show(r, call[r])
      BY <1>1, <1>4, <2>1, Names DEF Dir!Show, Dir!Open, Dir!Reply, Answers, Dir!tables, tables
    <2> QED
      BY <2>1, <2>2 DEF Acts, Answers, Dir!Act
  <1>5. CASE call[r].op # "get_me" /\ Goto(r, call[r].op)
    <2>1. call[r].op \in Places \ {"idle"}
      BY <1>1, <1>5, CallFields DEF Places
    <2> QED
      BY <1>1, <1>5, <2>1, GotoHidden
  <1> QED
    BY <1>2, <1>3, <1>4, <1>5 DEF Authenticate

LEMMA UpdateMeActs ==
    ASSUME Ind, NEW r \in Req, UpdateMe(r) PROVE Acts
  <1> DEFINE a == call[r].token
  <1>1. /\ pc[r] = "update_me" /\ call[r].op = "update_me" /\ a \in Accounts
        /\ account' = [account EXCEPT ![a] = Updated(r)]
        /\ Updated(r) \in AccountRow
        /\ Updated(r).email = account[a].email /\ Updated(r).active = account[a].active
        /\ Updated(r).name = SaveName(call[r].name, user[r].name, account[a].name)
        /\ Updated(r).password = SavePassword(call[r].password, account[a].password)
    BY UpdateMeEffect
  <1>2. End(r, "ok") /\ UNCHANGED <<project, tokens, call>>
    BY DEF UpdateMe, request
  <1>3. Answers(r, "ok")
    BY <1>1, <1>2, EndAnswers
  <1>4. PICK name : name = Updated(r).name
    OBVIOUS
  <1>5. /\ name \in {account[a].name, call[r].name}
        /\ call[r].name = None => name = account[a].name
    BY <1>1, <1>4 DEF SaveName
  <1>6. PICK password : password = IF call[r].password = None THEN account[a].password
                                   ELSE call[r].password
    OBVIOUS
  <1>7. Updated(r) = Dir!Profile(a, name, password)
    <2>1. account[a] \in AccountRow
      BY <1>1 DEF Ind, TypeOK, Accounts
    <2> QED
      BY <1>1, <1>4, <1>6, <2>1 DEF AccountRow, SavePassword, Dir!Profile
  <1>8. Dir!SetProfile(r, call[r])
    BY <1>1, <1>2, <1>3, <1>5, <1>6, <1>7, Names DEF Dir!SetProfile, Dir!Open, Dir!Reply, Answers
  <1> QED
    BY <1>3, <1>8 DEF Acts, Answers, Dir!Act

LEMMA CreateProjectActs ==
    ASSUME Ind, NEW r \in Req, CreateProject(r) PROVE Acts
  <1>1. /\ pc[r] = "create_project" /\ call[r].op = "create_project"
        /\ call[r].token \in Accounts
        /\ End(r, "created") /\ UNCHANGED <<account, tokens, call>>
    BY DEF CreateProject, request, Ind, PlaceInv, PlaceOf
  <1>2. Answers(r, "created")
    BY <1>1, EndAnswers
  <1>3. Dir!Create(r, call[r])
    BY <1>1, <1>2, Names DEF CreateProject, Dir!Create, Dir!Open, Dir!Reply, Answers
  <1> QED
    BY <1>2, <1>3 DEF Acts, Answers, Dir!Act

LEMMA ListProjectsActs ==
    ASSUME Ind, NEW r \in Req, ListProjects(r) PROVE Acts
  <1>1. /\ pc[r] = "list_projects" /\ call[r].op = "list_projects"
        /\ call[r].token \in Accounts
        /\ End(r, "ok") /\ UNCHANGED <<tables, tokens, call>>
    BY DEF ListProjects, request, Ind, PlaceInv, PlaceOf
  <1>2. Answers(r, "ok")
    BY <1>1, EndAnswers
  <1>3. Dir!Show(r, call[r])
    BY <1>1, <1>2, Names DEF Dir!Show, Dir!Open, Dir!Reply, Answers, Dir!tables, tables
  <1> QED
    BY <1>2, <1>3 DEF Acts, Answers, Dir!Act

LEMMA GetProjectActs ==
    ASSUME Ind, NEW r \in Req, GetProject(r) PROVE Acts \/ UNCHANGED Dir!vars
  <1> DEFINE p == call[r].project
             a == call[r].token
  <1>1. /\ pc[r] \in {"get_project", "update_project", "delete_project"}
        /\ call[r].op = pc[r] /\ a \in Accounts /\ UNCHANGED <<tables, tokens, call>>
    BY DEF GetProject, Ind, PlaceInv, PlaceOf
  <1>2. CASE p \notin Projects /\ End(r, "missing")
    <2>1. Answers(r, "missing")
      BY <1>1, <1>2, EndAnswers
    <2>2. Dir!Rightly(call[r], "missing")
      BY <1>1, <1>2, Names DEF Dir!Rightly
    <2> QED
      BY <1>1, <2>1, <2>2, Refusing
  <1>3. CASE p \in Projects /\ p \notin Owned(a) /\ End(r, "forbidden")
    <2>1. Answers(r, "forbidden")
      BY <1>1, <1>3, EndAnswers
    <2>2. Dir!Rightly(call[r], "forbidden")
      BY <1>1, <1>3, Names DEF Dir!Rightly
    <2> QED
      BY <1>1, <2>1, <2>2, Refusing
  <1>4. CASE p \in Owned(a) /\ pc[r] = "get_project" /\ End(r, "ok")
    <2>1. Answers(r, "ok")
      BY <1>1, <1>4, EndAnswers
    <2>2. Dir!Show(r, call[r])
      BY <1>1, <1>4, <2>1, Names DEF Dir!Show, Dir!Open, Dir!Reply, Answers, Dir!tables, tables
    <2> QED
      BY <2>1, <2>2 DEF Acts, Answers, Dir!Act
  <1>5. CASE Goto(r, "save") \/ Goto(r, "delete")
    BY <1>1, <1>5, GotoHidden DEF Places
  <1> QED
    BY <1>2, <1>3, <1>4, <1>5 DEF GetProject

LEMMA UpdateProjectActs ==
    ASSUME Ind, NEW r \in Req, UpdateProject(r) PROVE Acts
  <1> DEFINE p == call[r].project
             c == call[r]
  <1>1. /\ pc[r] = "save" /\ c \in Call /\ c.op = "update_project" /\ p \in Project
        /\ UNCHANGED <<account, tokens, call>>
        /\ p \in Projects => p \in Owned(c.token)
    <2>1. pc[r] = "save" /\ c \in Call /\ c.op = "update_project" /\ p \in Project
      BY UpdateProjectEffect
    <2> QED
      BY <2>1 DEF UpdateProject, request, Ind, PlaceInv, PlaceOf, Owned, Projects
  <1>2. CASE p \notin Projects \/ c.name = None
    <2>1. End(r, "stale") /\ UNCHANGED project
      BY <1>2 DEF UpdateProject
    <2>2. Answers(r, "stale")
      BY <1>1, <2>1, EndAnswers
    <2>3. Dir!Rightly(c, "stale")
      BY <1>1, <1>2, Names DEF Dir!Rightly
    <2> QED
      BY <1>1, <2>1, <2>2, <2>3, Refusing DEF tables
  <1>3. CASE p \in Projects /\ c.name # None
    <2>1. PICK name, note : /\ name = Save(c.name, loaded[r].name, project[p].name)
                            /\ note = Save(c.note, loaded[r].note, project[p].note)
      OBVIOUS
    <2>2. project[p] \in ProjectRow
      BY <1>1, <1>3 DEF Ind, TypeOK, Projects
    <2>3. /\ End(r, "ok")
          /\ project' = [project EXCEPT ![p] = [project[p] EXCEPT
                      !.name = Save(c.name, loaded[r].name, @),
                      !.note = Save(c.note, loaded[r].note, @)]]
      BY <1>3 DEF UpdateProject
    <2>4. project' = [project EXCEPT ![p] = [project[p] EXCEPT !.name = name, !.note = note]]
      BY <2>1, <2>2, <2>3 DEF ProjectRow
    <2>5. /\ name \in {project[p].name, c.name} /\ note \in {project[p].note, c.note}
          /\ Unset \notin {name, note}
      BY <2>1, <2>2, AccountsAssumption DEF Save, ProjectRow
    <2>6. Answers(r, "ok")
      BY <1>1, <2>3, EndAnswers
    <2>7. Dir!Edit(r, c)
      BY <1>1, <1>3, <2>4, <2>5, <2>6, Names DEF Dir!Edit, Dir!Open, Dir!Reply, Answers
    <2> QED
      BY <2>6, <2>7 DEF Acts, Answers, Dir!Act
  <1> QED
    BY <1>2, <1>3

LEMMA DeleteProjectActs ==
    ASSUME Ind, NEW r \in Req, DeleteProject(r) PROVE Acts
  <1>1. /\ pc[r] = "delete" /\ call[r].op = "delete_project"
        /\ End(r, "deleted") /\ UNCHANGED <<account, tokens, call>>
        /\ project[call[r].project] = Gone \/ call[r].project \in Owned(call[r].token)
    BY DEF DeleteProject, request, Ind, PlaceInv, PlaceOf, Owned
  <1>2. Answers(r, "deleted")
    BY <1>1, EndAnswers
  <1>3. Dir!Drop(r, call[r])
    BY <1>1, <1>2, Names DEF DeleteProject, Dir!Drop, Dir!Open, Dir!Reply, Answers
  <1> QED
    BY <1>2, <1>3 DEF Acts, Answers, Dir!Act

LEMMA FailActs ==
    ASSUME Ind, NEW r \in Req, Fail(r) PROVE Acts
  <1>1. /\ pc[r] \notin {"idle", "end"} /\ End(r, "error")
        /\ UNCHANGED <<tables, tokens, call>>
    BY DEF Fail, request
  <1>2. Answers(r, "error")
    BY <1>1, EndAnswers
  <1>3. Dir!Rightly(call[r], "error")
    BY DEF Dir!Rightly
  <1> QED
    BY <1>1, <1>2, <1>3, Refusing

LEMMA DeactivateActs ==
    ASSUME NEW a \in Account, Deactivate(a) PROVE Dir!Deactivate(a)
  <1>1. UNCHANGED Asked
    BY DEF Deactivate, request, Asked
  <1> QED
    BY <1>1, Names DEF Deactivate, Dir!Deactivate

LEMMA DirectoryNext ==
    Ind /\ [Next]_vars => [Dir!Next]_Dir!vars
  <1> SUFFICES ASSUME Ind, [Next]_vars PROVE Dir!Next \/ UNCHANGED Dir!vars
    OBVIOUS
  <1>1. Acts => Dir!Next
    BY DEF Acts, Dir!Next
  <1>2. ASSUME NEW r \in Req, Step(r) PROVE Dir!Next \/ UNCHANGED Dir!vars
    <2>1. Arrive(r) => Dir!Next
      BY ArriveAsks DEF Dir!Next
    <2> QED
      BY <1>1, <1>2, <2>1, CheckActs, InsertAccountActs, LoginActs, AuthenticateActs,
         UpdateMeActs, CreateProjectActs, ListProjectsActs, GetProjectActs, UpdateProjectActs,
         DeleteProjectActs, FailActs DEF Step
  <1>3. ASSUME NEW a \in Account, Deactivate(a) PROVE Dir!Next
    BY <1>3, DeactivateActs DEF Dir!Next
  <1>4. CASE UNCHANGED vars
    <2>1. UNCHANGED <<account, project, tokens, call, pc, answer>>
      BY <1>4 DEF vars, tables, request
    <2>2. UNCHANGED Asked
      BY <2>1 DEF Asked
    <2> QED
      BY <2>1, <2>2 DEF Dir!vars, Dir!tables
  <1> QED
    BY <1>2, <1>3, <1>4 DEF Next

LEMMA DirectoryInit == Init => Dir!Init
  <1> SUFFICES ASSUME Init PROVE Dir!Init
    OBVIOUS
  <1>1. Asked = [r \in Req |-> {}]
    BY DEF Init, Asked
  <1> QED
    BY <1>1, Names DEF Init, Dir!Init

(* Requests may interleave between their SELECTs and their commits as they *)
(* like: committed rows, tokens and answers are those of a directory in    *)
(* which each request acts in one step, the one of its answer.             *)
THEOREM ImplementsDirectory == Spec => IsDirectory
  <1>1. Ind /\ [Next]_vars => [Dir!Next]_Dir!vars
    BY DirectoryNext
  <1> QED
    BY <1>1, DirectoryInit, Always, PTL DEF Spec, IsDirectory, Dir!Spec
=============================================================================
