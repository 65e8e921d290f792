-------------------------------- MODULE Inbox --------------------------------
(***************************************************************************)
(* The endpoints of app/api/v1/notifications.py: list, mark one as read,   *)
(* mark all as read.  They meet workers that insert notifications, one or  *)
(* many in a transaction, and deletions of tasks and projects, whose       *)
(* foreign key sets the task_id of notifications to null.                  *)
(*                                                                         *)
(* Marking and deleting update the same rows of notifications, inserting   *)
(* and deleting meet at the rows of tasks.  A row stays locked until the   *)
(* end of the transaction; PostgreSQL breaks a cycle of waiting            *)
(* transactions by aborting one of them.                                   *)
(***************************************************************************)
EXTENDS Naturals, FiniteSets, Paging

CONSTANTS
    Req, User,
    Note, Task,     \* ids of notifications and tasks
    Old,            \* the notifications that are there at the start
    MaxId,
    Recipient,      \* user_id of each notification
    About,          \* task_id of each notification as it is inserted
    Calls,          \* what each request may ask for
    PageSize,
    Faults,         \* the database may fail a request
    None, Nobody

Row == [read: BOOLEAN, link: Task \cup {None}]

Call == [kind: {"mark"}, user: User, note: Note]
          \cup [kind: {"mark_all"}, user: User]
          \cup [kind: {"delete_task", "delete_project"}, tasks: SUBSET Task]
          \cup [kind: {"notify", "scan"}, notes: SUBSET Note]
          \cup [kind: {"list"}, user: User, show: SUBSET BOOLEAN]

(* Ids are integers of PostgreSQL, and the notifications of an insertion   *)
(* get new ones.  A project is known by its tasks; those that are created  *)
(* meanwhile are in TaskApi.                                               *)
ASSUME InboxAssumption ==
    /\ MaxId \in Nat /\ Note \subseteq 0..MaxId /\ Task \subseteq 0..MaxId
    /\ Old \subseteq Note
    /\ Recipient \in [Note -> User] /\ About \in [Note -> Task]
    /\ Calls \in [Req -> SUBSET Call]
    /\ \A r, s \in Req : \A c \in Calls[r], d \in Calls[s] :
          /\ c.kind = "delete_project" => c.tasks # {}
          /\ c.kind = "delete_project" /\ d.kind = "delete_project" =>
                c.tasks = d.tasks \/ c.tasks \cap d.tasks = {}
          /\ c.kind = "notify" => \E n \in Note : c.notes = {n}
          /\ c.kind \in {"notify", "scan"} =>
                /\ c.notes \cap Old = {}
                /\ r # s /\ d.kind \in {"notify", "scan"} => c.notes \cap d.notes = {}
    /\ PageSize \in Nat \ {0}
    /\ Faults \in BOOLEAN
    /\ None \notin Nat /\ Nobody \notin Req

VARIABLES
    there,      \* the notifications that are committed
    row,        \* their committed rows
    gone,       \* the tasks whose deletion is committed
    holder,     \* which request has the row of a notification locked
    draft,      \* the row as its holder has written it
    grip,       \* which request has deleted a task and not yet committed
    call, pc, answer,
    loaded,     \* the notifications that a request has read, or adds
    todo,       \* those it has still to update, or to insert
    doomed,     \* the tasks it has still to delete
    want,       \* the notification it is about to update, or to insert
    page, total, seen,      \* a client that turns the pages of a listing
    start, twice, missed,   \* history: rows listed at its start, repeated, left out
    moved       \* history: what happened to the listing meanwhile

locks == <<holder, draft, grip>>
flushes == <<loaded, todo, doomed, want>>
pages == <<page, total, seen, start, twice, missed>>
vars == <<there, row, gone, locks, call, pc, answer, flushes, pages, moved>>

Marks(r) == call[r].kind \in {"mark", "mark_all"}
Deletes(r) == call[r].kind \in {"delete_task", "delete_project"}
Inserts(r) == call[r].kind \in {"notify", "scan"}

(* The rows that a listing asks for: those of its user, read or not as it  *)
(* says.                                                                   *)
Listing(r) ==
    {n \in there : Recipient[n] = call[r].user /\ row[n].read \in call[r].show}

Turning(r) == pc[r] \in {"count", "select"}

(* Notes for every client that turns pages how its listing has changed.    *)
Watch ==
    moved' = [r \in Req |->
        IF ~Turning(r) THEN moved[r]
        ELSE moved[r]
               \cup (IF Listing(r) \subseteq Listing(r)' THEN {} ELSE {"left"})
               \cup (IF Listing(r)' \subseteq Listing(r) THEN {}
                     ELSE {"added", IF pc[r] = "select" THEN "pushed" ELSE "added"})]

-----------------------------------------------------------------------------
End(r, result) ==
    /\ pc' = [pc EXCEPT ![r] = "end"]
    /\ answer' = [answer EXCEPT ![r] = result]

(* The rows that a marking request loads.                                  *)
Find(r) ==
    {n \in there : /\ Recipient[n] = call[r].user
                   /\ IF call[r].kind = "mark" THEN n = call[r].note ELSE ~row[n].read}

(* The SELECT of a marking request.  One notification that is not found is *)
(* a 404, one that is read already is not written again.                   *)
BeginMark(r) ==
    /\ pc[r] = "idle" /\ Marks(r)
    /\ \/ /\ call[r].kind = "mark" /\ Find(r) = {}
          /\ End(r, "missing")
          /\ UNCHANGED flushes
       \/ /\ call[r].kind = "mark" => Find(r) # {}
          /\ pc' = [pc EXCEPT ![r] = "flush"]
          /\ loaded' = [loaded EXCEPT ![r] = Find(r)]
          /\ todo' = [todo EXCEPT ![r] = {n \in Find(r) : ~row[n].read}]
          /\ UNCHANGED <<answer, doomed, want>>
    /\ UNCHANGED <<there, row, gone, locks, call, pages, moved>>

(* The rows that a worker adds to its session: a job its one, without      *)
(* looking for the task, a scan one for each task that it has found.       *)
Added(r) == {n \in call[r].notes : call[r].kind = "scan" => About[n] \notin gone}

BeginInsert(r) ==
    /\ pc[r] = "idle" /\ Inserts(r)
    /\ pc' = [pc EXCEPT ![r] = "flush"]
    /\ loaded' = [loaded EXCEPT ![r] = Added(r)]
    /\ todo' = [todo EXCEPT ![r] = Added(r)]
    /\ UNCHANGED <<there, row, gone, locks, call, answer, doomed, want, pages, moved>>

(* The tasks of r are deleted: its one task, or its project.               *)
Missing(r) ==
    IF call[r].kind = "delete_task" THEN call[r].tasks \subseteq gone
    ELSE \E s \in Req : call[s] = call[r] /\ answer[s] = "ok"

(* A deletion has loaded its task, or the tasks of its project.            *)
BeginDelete(r) ==
    /\ pc[r] = "idle" /\ Deletes(r)
    /\ \/ /\ Missing(r)
          /\ End(r, "missing")
          /\ UNCHANGED doomed
       \/ /\ ~Missing(r)
          /\ pc' = [pc EXCEPT ![r] = "flush"]
          /\ doomed' = [doomed EXCEPT ![r] = call[r].tasks \ gone]
          /\ UNCHANGED answer
    /\ UNCHANGED <<there, row, gone, locks, call, loaded, todo, want, pages, moved>>

First(t, S) == t \in S /\ \A s \in S : t <= s

(* r has inserted a notification about t and not committed yet: its foreign*)
(* key keeps the task from being deleted.                                  *)
Shares(r, t) ==
    /\ Inserts(r) /\ pc[r] = "flush"
    /\ \E n \in loaded[r] \ todo[r] : About[n] = t

(* DELETE of the next task, in the order of the primary key.  If another   *)
(* request has deleted it first no row matches, which is only a warning.   *)
(* Otherwise the foreign key updates every notification that refers to it. *)
DeleteRow(r) ==
    /\ pc[r] = "flush" /\ todo[r] = {} /\ want[r] = None
    /\ \E t \in doomed[r] :
          /\ First(t, doomed[r])
          /\ grip[t] = Nobody /\ \A s \in Req : ~Shares(s, t)
          /\ doomed' = [doomed EXCEPT ![r] = @ \ {t}]
          /\ \/ /\ t \in gone
                /\ UNCHANGED <<grip, todo>>
             \/ /\ t \notin gone
                /\ grip' = [grip EXCEPT ![t] = r]
                /\ todo' = [todo EXCEPT ![r] = {n \in there : row[n].link = t}]
    /\ UNCHANGED <<there, row, gone, holder, draft, call, pc, answer, loaded, want>>
    /\ UNCHANGED <<pages, moved>>

(* Mutant: rows are written in the order in which they were loaded.        *)
AimAnywhere(r) ==
    /\ pc[r] = "flush" /\ want[r] = None
    /\ \E n \in todo[r] : want' = [want EXCEPT ![r] = n]
    /\ UNCHANGED <<there, row, gone, locks, call, pc, answer, loaded, todo, doomed>>
    /\ UNCHANGED <<pages, moved>>

(* The next row.  A flush updates by the primary key, the foreign key by   *)
(* the order in which it comes upon the rows; a worker inserts by that in  *)
(* which it has come upon the tasks.                                       *)
Aim(r) ==
    /\ pc[r] = "flush" /\ want[r] = None
    /\ \E n \in todo[r] :
          /\ Marks(r) => First(n, todo[r])
          /\ want' = [want EXCEPT ![r] = n]
    /\ UNCHANGED <<there, row, gone, locks, call, pc, answer, loaded, todo, doomed>>
    /\ UNCHANGED <<pages, moved>>

(* Mutant: the UPDATE locks nothing.                                       *)
WriteUnlocked(r) ==
    /\ pc[r] = "flush" /\ ~Inserts(r) /\ want[r] # None
    /\ draft' = [draft EXCEPT ![want[r]] =
          IF Marks(r) THEN [@ EXCEPT !.read = TRUE] ELSE [@ EXCEPT !.link = None]]
    /\ todo' = [todo EXCEPT ![r] = @ \ {want[r]}]
    /\ want' = [want EXCEPT ![r] = None]
    /\ UNCHANGED <<there, row, gone, holder, grip, call, pc, answer, loaded, doomed>>
    /\ UNCHANGED <<pages, moved>>

(* The UPDATE, once the row is free: of one column of the newest version.  *)
Write(r) ==
    /\ pc[r] = "flush" /\ ~Inserts(r) /\ want[r] # None
    /\ holder[want[r]] = Nobody
    /\ holder' = [holder EXCEPT ![want[r]] = r]
    /\ draft' = [draft EXCEPT ![want[r]] =
          IF Marks(r) THEN [@ EXCEPT !.read = TRUE] ELSE [@ EXCEPT !.link = None]]
    /\ todo' = [todo EXCEPT ![r] = @ \ {want[r]}]
    /\ want' = [want EXCEPT ![r] = None]
    /\ UNCHANGED <<there, row, gone, grip, call, pc, answer, loaded, doomed>>
    /\ UNCHANGED <<pages, moved>>

Unlock(r) ==
    /\ holder' = [n \in Note |-> IF holder[n] = r THEN Nobody ELSE holder[n]]
    /\ grip' = [t \in Task |-> IF grip[t] = r THEN Nobody ELSE grip[t]]
    /\ todo' = [todo EXCEPT ![r] = {}]
    /\ doomed' = [doomed EXCEPT ![r] = {}]
    /\ want' = [want EXCEPT ![r] = None]

(* Mutant: the deletion commits before the notifications are updated.      *)
CommitEarly(r) ==
    /\ pc[r] = "flush" /\ doomed[r] = {} /\ want[r] = None
    /\ Marks(r) => todo[r] = {}
    /\ row' = [n \in Note |-> IF holder[n] = r THEN draft[n] ELSE row[n]]
    /\ gone' = gone \cup {t \in Task : grip[t] = r}
    /\ Unlock(r)
    /\ End(r, "ok")
    /\ UNCHANGED <<there, draft, call, loaded, pages>>
    /\ Watch

(* The refresh, which waits for nothing, and the commit of get_db.         *)
Commit(r) ==
    /\ pc[r] = "flush" /\ todo[r] = {} /\ doomed[r] = {} /\ want[r] = None
    /\ row' = [n \in Note |-> IF holder[n] = r THEN draft[n] ELSE row[n]]
    /\ gone' = gone \cup {t \in Task : grip[t] = r}
    /\ Unlock(r)
    /\ End(r, "ok")
    /\ there' = there \cup IF Inserts(r) THEN loaded[r] ELSE {}
    /\ UNCHANGED <<draft, call, loaded, pages>>
    /\ Watch

(* Mutant: each UPDATE commits on its own, so that an error leaves some.   *)
RollbackPartly(r) ==
    /\ row' = [n \in Note |-> IF holder[n] = r THEN draft[n] ELSE row[n]]
    /\ Unlock(r)
    /\ End(r, "error")
    /\ UNCHANGED <<there, gone, draft, call, loaded, pages>>
    /\ Watch

(* Mutant: get_db neither rolls back nor closes its session.               *)
RollbackForgotten(r) ==
    /\ End(r, "error")
    /\ UNCHANGED <<there, row, gone, locks, call, flushes, pages, moved>>

(* The except branch of get_db.                                            *)
Rollback(r) ==
    /\ draft' = [n \in Note |-> IF holder[n] = r THEN row[n] ELSE draft[n]]
    /\ Unlock(r)
    /\ End(r, "error")
    /\ UNCHANGED <<there, row, gone, call, loaded, pages, moved>>

(* A row of the INSERT, once nobody is deleting its task.  If the task is  *)
(* gone the foreign key fails the INSERT, and the worker rolls back.       *)
InsertRow(r) ==
    /\ pc[r] = "flush" /\ Inserts(r) /\ want[r] # None
    /\ grip[About[want[r]]] = Nobody
    /\ \/ About[want[r]] \in gone /\ Rollback(r)
       \/ /\ About[want[r]] \notin gone
          /\ todo' = [todo EXCEPT ![r] = @ \ {want[r]}]
          /\ want' = [want EXCEPT ![r] = None]
          /\ UNCHANGED <<there, row, gone, locks, call, pc, answer, loaded, doomed>>
          /\ UNCHANGED <<pages, moved>>

(* r waits for a lock that s has.                                          *)
WaitsFor(r, s) ==
    /\ pc[r] = "flush"
    /\ \/ want[r] # None /\ ~Inserts(r) /\ holder[want[r]] = s
       \/ want[r] # None /\ Inserts(r) /\ grip[About[want[r]]] = s
       \/ /\ want[r] = None /\ todo[r] = {}
          /\ \E t \in doomed[r] : First(t, doomed[r]) /\ (grip[t] = s \/ Shares(s, t))

(* Requests that wait for each other, none of which could be left out.     *)
Deadlocked(S) == S # {} /\ \A r \in S : \E s \in S : WaitsFor(r, s)
Cycle(S) == Deadlocked(S) /\ \A T \in SUBSET S : Deadlocked(T) => T = S

Waiting == {r \in Req : \E s \in Req : WaitsFor(r, s)}

Victim(r) == \E S \in SUBSET Waiting : r \in S /\ Cycle(S)

(* PostgreSQL aborts one of a cycle.                                       *)
BreakDeadlock(r) == Victim(r) /\ Rollback(r)

Fail(r) ==
    /\ Faults
    /\ pc[r] = "flush"
    /\ Rollback(r)

-----------------------------------------------------------------------------
(* A client that turns the pages of a listing until there is no next.      *)

BeginList(r) ==
    /\ pc[r] = "idle" /\ call[r].kind = "list"
    /\ pc' = [pc EXCEPT ![r] = "count"]
    /\ page' = [page EXCEPT ![r] = 1]
    /\ start' = [start EXCEPT ![r] = Listing(r)]
    /\ UNCHANGED <<there, row, gone, locks, call, answer, flushes>>
    /\ UNCHANGED <<total, seen, twice, missed, moved>>

Count(r) ==
    /\ pc[r] = "count"
    /\ pc' = [pc EXCEPT ![r] = "select"]
    /\ total' = [total EXCEPT ![r] = Cardinality(Listing(r))]
    /\ UNCHANGED <<there, row, gone, locks, call, answer, flushes>>
    /\ UNCHANGED <<page, seen, start, twice, missed, moved>>

(* The page and its frame; the client asks for the next one or is done.    *)
Select(r) ==
    /\ pc[r] = "select"
    /\ LET items == PageOf(Listing(r), page[r], PageSize)
       IN  /\ seen' = [seen EXCEPT ![r] = @ \cup items]
           /\ twice' = [twice EXCEPT ![r] = @ \cup (seen[r] \cap items)]
           /\ IF HasNext(total[r], page[r], PageSize)
              THEN /\ pc' = [pc EXCEPT ![r] = "count"]
                   /\ page' = [page EXCEPT ![r] = @ + 1]
                   /\ UNCHANGED <<answer, missed>>
              ELSE /\ End(r, "ok")
                   /\ missed' = [missed EXCEPT ![r] =
                        (start[r] \cap Listing(r)) \ (seen[r] \cup items)]
                   /\ UNCHANGED page
    /\ UNCHANGED <<there, row, gone, locks, call, flushes, total, start, moved>>

-----------------------------------------------------------------------------
Init ==
    /\ there = Old
    /\ row = [n \in Note |-> [read |-> FALSE, link |-> About[n]]]
    /\ draft = row
    /\ gone = {}
    /\ holder = [n \in Note |-> Nobody]
    /\ grip = [t \in Task |-> Nobody]
    /\ call \in [Req -> UNION {Calls[r] : r \in Req}]
    /\ \A r \in Req : call[r] \in Calls[r]
    /\ pc = [r \in Req |-> "idle"]
    /\ answer = [r \in Req |-> "none"]
    /\ loaded = [r \in Req |-> {}] /\ todo = loaded /\ doomed = loaded
    /\ seen = loaded /\ start = loaded /\ twice = loaded
    /\ missed = loaded /\ moved = loaded
    /\ want = [r \in Req |-> None]
    /\ page = [r \in Req |-> 0] /\ total = page

(* What a request that has arrived goes on to do.                          *)
Proceed(r) ==
    \/ DeleteRow(r) \/ Aim(r) \/ Write(r) \/ InsertRow(r) \/ Commit(r)
    \/ Count(r) \/ Select(r)

Next ==
    \E r \in Req : \/ BeginMark(r) \/ BeginInsert(r) \/ BeginDelete(r) \/ BeginList(r)
                   \/ Proceed(r) \/ BreakDeadlock(r) \/ Fail(r)

Spec == Init /\ [][Next]_vars

(* The event loop resumes whoever is ready, PostgreSQL looks for deadlocks:*)
(* somebody goes on, and as requests and their steps are finitely many that*)
(* is enough.                                                              *)
FairSpec ==
    /\ Spec
    /\ WF_vars(\E r \in Req : Proceed(r) \/ BreakDeadlock(r))

-----------------------------------------------------------------------------
Places == {"idle", "flush", "count", "select", "end"}

(* Every variable stays in its set, and only a row that is locked has a    *)
(* draft of its own.                                                       *)
TypeOK ==
    /\ there \subseteq Note /\ gone \subseteq Task
    /\ row \in [Note -> Row] /\ draft \in [Note -> Row]
    /\ holder \in [Note -> Req \cup {Nobody}]
    /\ grip \in [Task -> Req \cup {Nobody}]
    /\ call \in [Req -> Call] /\ pc \in [Req -> Places]
    /\ answer \in [Req -> {"none", "ok", "missing", "error"}]
    /\ loaded \in [Req -> SUBSET Note] /\ todo \in [Req -> SUBSET Note]
    /\ doomed \in [Req -> SUBSET Task] /\ want \in [Req -> Note \cup {None}]
    /\ page \in [Req -> Nat] /\ total \in [Req -> Nat]
    /\ seen \in [Req -> SUBSET Note] /\ start \in [Req -> SUBSET Note]
    /\ twice \in [Req -> SUBSET Note] /\ missed \in [Req -> SUBSET Note]
    /\ moved \in [Req -> SUBSET {"left", "added", "pushed"}]
    /\ \A n \in Note : holder[n] = Nobody => draft[n] = row[n]

(* Whenever transactions wait for each other, one of them deletes and      *)
(* another does not, and each has several rows to lock: mark_all, a scan   *)
(* that reports several tasks, a deletion.  Neither markings alone nor     *)
(* deletions alone deadlock, since flushes go by the primary key, and who  *)
(* marks one notification, or inserts one, is never PostgreSQL's victim.   *)
OnlyBulkDeadlocks ==
    \A S \in SUBSET Waiting : Cycle(S) =>
        /\ (\E r \in S : Deletes(r)) /\ (\E r \in S : ~Deletes(r))
        /\ \A r \in S :
              /\ call[r].kind # "mark"
              /\ Inserts(r) => \E m, n \in call[r].notes : About[m] # About[n]

(* A notification is only ever read because its own recipient has asked    *)
(* for that and was told so: not by the request of another user, and not   *)
(* by one that has failed half-way.  And who was told so finds every       *)
(* notification that his request had loaded read, whatever else is written *)
(* to those rows.                                                          *)
ReadIffToldSo ==
    /\ \A n \in Note : row[n].read =>
          \E r \in Req : /\ Marks(r) /\ answer[r] = "ok"
                         /\ call[r].user = Recipient[n] /\ n \in loaded[r]
    /\ \A r \in Req : Marks(r) /\ answer[r] = "ok" =>
          \A n \in loaded[r] : row[n].read

(* No committed notification refers to a task whose deletion is committed, *)
(* although marking loads and writes the same rows meanwhile.              *)
NoDanglingLinks ==
    \A n \in there : row[n].link \notin gone

(* A client that turns the pages to the end has seen every notification    *)
(* that was in its listing all the time, unless one left the listing or    *)
(* one came between the COUNT and the SELECT of a page.                    *)
MissedOnlyIfMoved ==
    \A r \in Req : missed[r] # {} => moved[r] \cap {"left", "pushed"} # {}

(* It sees none twice unless one was added to the listing.                 *)
TwiceOnlyIfAdded ==
    \A r \in Req : twice[r] # {} => "added" \in moved[r]

(* Every request is answered, those that have run into a deadlock too.     *)
RequestsEnd ==
    \A r \in Req : []<>(pc[r] \in {"idle", "end"})

(* Committed rows and answers change as Mailbox says, as if requests did   *)
(* not meet at all: a request that waits for a lock, goes on with the row  *)
(* as another has left it, or is aborted is atomic all the same.           *)
Writes(r) == Marks(r) \/ Deletes(r) \/ Inserts(r)
Found == [r \in Req |->
    IF Marks(r) \/ Inserts(r) THEN IF pc[r] = "idle" THEN {} ELSE {loaded[r]} ELSE {}]
Results == [r \in Req |-> IF Writes(r) THEN answer[r] ELSE "none"]

Box == INSTANCE Mailbox WITH found <- Found, answer <- Results

IsMailbox == Box!Spec
=============================================================================
