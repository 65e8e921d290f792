------------------------------ MODULE TaskData ------------------------------
(***************************************************************************)
(* The rows of the task table (app/models/task.py), the request bodies     *)
(* that write them (app/schemas/task.py), and how one is applied to the    *)
(* other.  Titles, descriptions and due dates are one value, a Detail.     *)
(***************************************************************************)
EXTENDS Integers, Sequences, FiniteSets

CONSTANTS
    User,           \* user ids, those of missing and inactive accounts too
    Active,         \* the users that exist and are active
    Project,        \* project ids
    Owner,          \* the owner of each project (no endpoint changes it)
    Task,           \* task ids, as the sequence of the table hands them out
    Detail,         \* a title, description and due date, as one value
    None, Unset, NoRow

Status == {"todo", "in_progress", "done"}

Row == [project: Project, status: Status, assignee: User \cup {None},
        detail: Detail]

(* The fields a PATCH sets; the others are Unset.  An explicit null is     *)
(* None: legal in the schema for status too, though not in the table.      *)
UpdateData == [status: Status \cup {None, Unset},
               assignee: User \cup {None, Unset},
               detail: Detail \cup {Unset}]

(* The columns of an UPDATE statement that the table accepts.              *)
Changes == [status: Status \cup {Unset}, assignee: User \cup {None, Unset},
            detail: Detail \cup {Unset}]

NoChange == [status |-> Unset, assignee |-> Unset, detail |-> Unset]

ASSUME UsersAssumption == Active \subseteq User /\ Owner \in [Project -> Active]

ASSUME TasksAssumption == IsFiniteSet(Task)

(* The markers are none of the values they stand beside.                   *)
ASSUME MarkersAssumption ==
    /\ None \notin User \cup Project \cup Status
    /\ Unset \notin User \cup Status \cup Detail \cup {None}
    /\ NoRow \notin Row

(* Mutant: a full replacement, which sends the whole row as it was loaded. *)
DifferingWhole(data, row) ==
    [status   |-> IF data.status = Unset THEN row.status ELSE data.status,
     assignee |-> IF data.assignee = Unset THEN row.assignee ELSE data.assignee,
     detail   |-> IF data.detail = Unset THEN row.detail ELSE data.detail]

(* The ORM sends only the attributes that differ from what it loaded.      *)
Differing(data, row) ==
    [status   |-> IF data.status = row.status THEN Unset ELSE data.status,
     assignee |-> IF data.assignee = row.assignee THEN Unset ELSE data.assignee,
     detail   |-> IF data.detail = row.detail THEN Unset ELSE data.detail]

Apply(row, c) ==
    [project  |-> row.project,
     status   |-> IF c.status = Unset THEN row.status ELSE c.status,
     assignee |-> IF c.assignee = Unset THEN row.assignee ELSE c.assignee,
     detail   |-> IF c.detail = Unset THEN row.detail ELSE c.detail]

(* The services accept an assignee only if the account exists and is active.*)
MayAssign(a) == a \in Active \cup {None}
=============================================================================
