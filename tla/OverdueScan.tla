---------------------------- MODULE OverdueScan ----------------------------
(***************************************************************************)
(* The periodic job check_overdue_tasks (app/workers/tasks.py).  Celery    *)
(* Beat sends it once a minute and nothing keeps two worker processes from *)
(* running it at once.  A scan loads the overdue tasks, looks for each one *)
(* whether its recipient has been notified, delivers at once what has not, *)
(* and commits all new notifications together at the end (autoflush is     *)
(* off, so none is visible before).  Meanwhile the API changes and deletes *)
(* tasks and projects.                                                     *)
(***************************************************************************)
EXTENDS Naturals

CONSTANTS
    Task, Project, User,
    ProjectOf,      \* the project of each task
    OwnerOf,        \* the owner of each project
    Proc,           \* the worker processes
    Rows,           \* the rows that each task may have
    Faults,         \* the database may fail, a process may die
    None, NoRow, NoNotice

(* overdue: the due date has passed and the status is not done.            *)
Row == [overdue: BOOLEAN, assignee: User \cup {None}]

ASSUME ProjectsAssumption ==
    ProjectOf \in [Task -> Project] /\ OwnerOf \in [Project -> User]

ASSUME RowsAssumption == Rows \in [Task -> SUBSET Row]

ASSUME SwitchAssumption == Faults \in BOOLEAN

(* Who is notified of what.                                                *)
Notice == Task \X User

ASSUME MarkersAssumption ==
    /\ None \notin User \cup Project
    /\ NoRow \notin Row
    /\ NoNotice \notin Notice

VARIABLES
    projects,   \* the projects that exist
    row,        \* the committed task rows
    at,         \* where each process is
    todo,       \* what it has loaded and not yet visited
    visiting,   \* what it is about to check
    last,       \* the project its session still holds in memory
    batch,      \* the notifications it has added to its session
    notes,      \* how many committed notifications each process has written
    owed,       \* history: what has been delivered and is not on record
    raced       \* history: what others have committed during a scan

database == <<projects, row>>
scan == <<at, todo, visiting, last, batch>>
vars == <<database, scan, notes, owed, raced>>

(* Mutant: no falling back on the owner of the project.                    *)
RecipientAssigned(t, r) == r.assignee

(* The assignee, or the owner of the project if there is none.             *)
Recipient(t, r) ==
    IF r.assignee = None THEN OwnerOf[ProjectOf[t]] ELSE r.assignee

Noted(n) == \E w \in Proc : notes[<<n, w>>] > 0

(* Mutant: the query for an earlier notification has the wrong recipient.  *)
ExistsForOwner(n) == row[n[1]] # NoRow /\ Noted(<<n[1], OwnerOf[ProjectOf[n[1]]]>>)

(* Mutant: the query for an earlier notification lacks the task.           *)
ExistsForUser(n) == \E t \in Task : row[t] # NoRow /\ Noted(<<t, n[2]>>)

(* A notification that refers to the task.  When a task is deleted, its    *)
(* notifications refer to none (task_id is set to null).                   *)
Exists(n) == row[n[1]] # NoRow /\ Noted(n)

-----------------------------------------------------------------------------
(* The API and the clock, as far as a scan can tell.                       *)

Change(t) ==
    /\ row[t] # NoRow
    /\ \E r \in Rows[t] : row' = [row EXCEPT ![t] = r]
    /\ UNCHANGED <<projects, scan, notes, owed, raced>>

DeleteTask(t) ==
    /\ row[t] # NoRow
    /\ row' = [row EXCEPT ![t] = NoRow]
    /\ UNCHANGED <<projects, scan, notes, owed, raced>>

DeleteProject(p) ==
    /\ p \in projects
    /\ projects' = projects \ {p}
    /\ row' = [t \in Task |-> IF ProjectOf[t] = p THEN NoRow ELSE row[t]]
    /\ UNCHANGED <<scan, notes, owed, raced>>

-----------------------------------------------------------------------------
(* A scan.                                                                 *)

Overdue == {t \in Task : row[t] # NoRow /\ row[t].overdue}

(* The query.  The recipient is that of the row as it is loaded now.       *)
Begin(w) ==
    /\ at[w] = "idle"
    /\ at' = [at EXCEPT ![w] = "visit"]
    /\ todo' = [todo EXCEPT ![w] = {<<t, Recipient(t, row[t])>> : t \in Overdue}]
    /\ UNCHANGED <<database, visiting, last, batch, notes, owed, raced>>

(* session.get(Project): from the session if it still holds the project,   *)
(* else from the database; a task whose project is gone is passed over.    *)
Visit(w) ==
    /\ at[w] = "visit"
    /\ \E n \in todo[w] :
          LET p == ProjectOf[n[1]]
          IN  /\ todo' = [todo EXCEPT ![w] = @ \ {n}]
              /\ \/ /\ p \in projects \cup {last[w]}
                    /\ visiting' = [visiting EXCEPT ![w] = n]
                    /\ last' = [last EXCEPT ![w] = p]
                    /\ at' = [at EXCEPT ![w] = "check"]
                 \/ /\ p \notin projects \cup {last[w]}
                    /\ last' = [last EXCEPT ![w] = None]
                    /\ UNCHANGED <<at, visiting>>
    /\ UNCHANGED <<database, batch, notes, owed, raced>>

(* Mutant: no query for an earlier notification.                           *)
CheckNothing(w) ==
    /\ at[w] = "check"
    /\ batch' = [batch EXCEPT ![w] = @ \cup {visiting[w]}]
    /\ owed' = owed \cup {visiting[w]}
    /\ at' = [at EXCEPT ![w] = "visit"]
    /\ visiting' = [visiting EXCEPT ![w] = NoNotice]
    /\ UNCHANGED <<database, todo, last, notes, raced>>

(* Mutant: what has been delivered is skipped, on record or not.           *)
CheckDelivered(w) ==
    /\ at[w] = "check"
    /\ LET n == visiting[w]
       IN  IF Exists(n) \/ n \in owed
           THEN UNCHANGED <<batch, owed>>
           ELSE /\ batch' = [batch EXCEPT ![w] = @ \cup {n}]
                /\ owed' = owed \cup {n}
    /\ at' = [at EXCEPT ![w] = "visit"]
    /\ visiting' = [visiting EXCEPT ![w] = NoNotice]
    /\ UNCHANGED <<database, todo, last, notes, raced>>

(* The query for an earlier notification; without one, a notification is   *)
(* added to the session and delivered.                                     *)
Check(w) ==
    /\ at[w] = "check"
    /\ LET n == visiting[w]
       IN  IF Exists(n)
           THEN UNCHANGED <<batch, owed>>
           ELSE /\ batch' = [batch EXCEPT ![w] = @ \cup {n}]
                /\ owed' = owed \cup {n}
    /\ at' = [at EXCEPT ![w] = "visit"]
    /\ visiting' = [visiting EXCEPT ![w] = NoNotice]
    /\ UNCHANGED <<database, todo, last, notes, raced>>

(* The session is closed.                                                  *)
Finish(w) ==
    /\ at' = [at EXCEPT ![w] = "idle"]
    /\ todo' = [todo EXCEPT ![w] = {}]
    /\ visiting' = [visiting EXCEPT ![w] = NoNotice]
    /\ last' = [last EXCEPT ![w] = None]
    /\ batch' = [batch EXCEPT ![w] = {}]
    /\ UNCHANGED database

(* session.commit: the INSERTs fail together if one task is gone.  They are*)
(* one step with the COMMIT, as their foreign keys lock the tasks between. *)
Commit(w) ==
    /\ at[w] = "visit" /\ todo[w] = {}
    /\ \/ /\ \A n \in batch[w] : row[n[1]] # NoRow
          /\ notes' = [k \in Notice \X Proc |->
                         IF k[2] = w /\ k[1] \in batch[w] THEN notes[k] + 1 ELSE notes[k]]
          /\ owed' = owed \ batch[w]
          /\ raced' = [v \in Proc |-> CASE v = w -> {}
                                       [] v # w /\ at[v] = "idle" -> raced[v]
                                       [] OTHER -> raced[v] \cup batch[w]]
       \/ /\ \E n \in batch[w] : row[n[1]] = NoRow
          /\ raced' = [raced EXCEPT ![w] = {}]
          /\ UNCHANGED <<notes, owed>>
    /\ Finish(w)

(* The except branch after an error of the database, or the end of the     *)
(* process.  What was delivered stays delivered.                           *)
Abort(w) ==
    /\ Faults
    /\ at[w] # "idle"
    /\ Finish(w)
    /\ raced' = [raced EXCEPT ![w] = {}]
    /\ UNCHANGED <<notes, owed>>

-----------------------------------------------------------------------------
Init ==
    /\ projects = Project
    /\ row \in [Task -> Row] /\ \A t \in Task : row[t] \in Rows[t]
    /\ at = [w \in Proc |-> "idle"]
    /\ todo = [w \in Proc |-> {}]
    /\ visiting = [w \in Proc |-> NoNotice]
    /\ last = [w \in Proc |-> None]
    /\ batch = [w \in Proc |-> {}]
    /\ notes = [k \in Notice \X Proc |-> 0]
    /\ owed = {}
    /\ raced = [w \in Proc |-> {}]

Api ==
    \/ \E t \in Task : Change(t) \/ DeleteTask(t)
    \/ \E p \in Project : DeleteProject(p)

Step(w) == Visit(w) \/ Check(w) \/ Commit(w)

Next == Api \/ \E w \in Proc : Begin(w) \/ Step(w) \/ Abort(w)

Spec == Init /\ [][Next]_vars

(* Beat keeps sending the job, some process takes it, and processes run.   *)
FairSpec ==
    /\ Spec
    /\ WF_vars(\E w \in Proc : Begin(w))
    /\ \A w \in Proc : WF_vars(Step(w))

-----------------------------------------------------------------------------
(* Every variable stays in its set.                                        *)
TypeOK ==
    /\ projects \subseteq Project
    /\ row \in [Task -> Row \cup {NoRow}]
    /\ at \in [Proc -> {"idle", "visit", "check"}]
    /\ todo \in [Proc -> SUBSET Notice]
    /\ visiting \in [Proc -> Notice \cup {NoNotice}]
    /\ last \in [Proc -> Project \cup {None}]
    /\ batch \in [Proc -> SUBSET Notice]
    /\ notes \in [Notice \X Proc -> Nat]
    /\ owed \subseteq Notice
    /\ raced \in [Proc -> SUBSET Notice]

(* However often the scan runs, and however its runs overlap, fail or are  *)
(* repeated, a process notifies a user of a task at most once: so nobody is*)
(* notified twice where there is one process, and at most once per process *)
(* elsewhere.                                                              *)
OncePerProcess == \A k \in Notice \X Proc : notes[k] <= 1

(* A scan is about to repeat a notification only if another process has    *)
(* committed the first one since the scan began: the check is right about  *)
(* everything that was there before.                                       *)
RepeatsOnlyRaces ==
    \A w \in Proc : \A n \in batch[w] : Exists(n) => n \in raced[w]

(* An overdue task and who is to hear of it.                               *)
Wants(n) == n[1] \in Overdue /\ n[2] = Recipient(n[1], row[n[1]])

(* From some time on no scan is cut short by an error.  A scan that has    *)
(* nothing to commit ends the same way, error or not.                      *)
ErrorsCease == <>[][\A w \in Proc : Abort(w) => Commit(w)]_vars

(* A task that stays overdue has its recipient notified in the end, though *)
(* one deleted task spoils a whole batch, and whatever failed before.      *)
EventuallyNotified ==
    ErrorsCease => \A n \in Notice : <>[]Wants(n) => <>Noted(n)

(* What has been delivered is put on record in the end, as long as it still*)
(* holds: the delivery comes before the commit, which may fail.            *)
AlertsAreRecorded ==
    ErrorsCease => \A n \in Notice : n \in owed ~> n \notin owed \/ ~Wants(n)

-----------------------------------------------------------------------------
(* What the documentation says and the code does not do.                   *)

(* README: the scan "verifies no duplicate notification was sent".         *)
NoDuplicates ==
    \A n \in Notice : \A v, w \in Proc :
        notes[<<n, v>>] > 0 /\ notes[<<n, w>>] > 0 => v = w
=============================================================================
