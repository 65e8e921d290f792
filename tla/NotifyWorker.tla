---------------------------- MODULE NotifyWorker ----------------------------
(***************************************************************************)
(* The Celery jobs notify_task_reassigned and notify_task_status_changed   *)
(* (app/workers/tasks.py): both insert one notification, commit, read it   *)
(* back and deliver it, and are retried from the start after any error.    *)
(* They run in worker processes, beside API requests that create and       *)
(* delete the tasks the notifications refer to.                            *)
(*                                                                         *)
(* A message is acknowledged when a process takes it (Celery's default,    *)
(* which celery_app.py leaves alone), so a process that dies takes its job *)
(* with it.  The countdown of a retry is not modelled: any time may pass.  *)
(***************************************************************************)
EXTENDS Naturals

CONSTANTS
    Task,           \* the tasks that jobs are about
    Job,            \* the jobs, each handed to .delay() at most once
    About,          \* the task of each job
    Origin,         \* the handler that sends it: create_task or update_task
    Proc,           \* the worker processes
    MaxRetries,     \* max_retries=3 in the code
    Faults,         \* an error of the database, the broker or the delivery,
                    \* or the end of a process, may happen
    NoMessage

ASSUME JobsAssumption ==
    /\ About \in [Job -> Task]
    /\ Origin \in [Job -> {"create", "update"}]
    /\ MaxRetries \in Nat
    /\ Faults \in BOOLEAN

Message == [job: Job, retries: 0..MaxRetries]

ASSUME MessageAssumption == NoMessage \notin Message

VARIABLES
    row,        \* the task rows, uncommitted writes by the API included
    broker,     \* the messages that wait for a process
    at,         \* where each process is
    held,       \* the message it has taken
    outcome,    \* of each job: not yet sent, open, done, dead or lost
    notes,      \* how many committed notifications each job has left
    linked,     \* jobs with a notification whose task_id is not null
    sent,       \* how many times the notification of each job was delivered
    faulty,     \* history: how many attempts failed after their commit
    failed      \* history: jobs of which an attempt failed before its commit

history == <<faulty, failed>>
vars == <<row, broker, at, held, outcome, notes, linked, sent, history>>

JobOf(w)  == held[w].job
TaskOf(w) == About[JobOf(w)]

-----------------------------------------------------------------------------
(* The API.                                                                *)

(* create_task has flushed its row; the handler goes on to .delay().       *)
Create(t) ==
    /\ row[t] = "none"
    /\ row' = [row EXCEPT ![t] = "creating"]
    /\ UNCHANGED <<broker, at, held, outcome, notes, linked, sent, history>>

(* The jobs of a new task are sent before its row is committed, those of a *)
(* PATCH before or after anything else that befalls the row it has loaded. *)
Delay(j) ==
    /\ outcome[j] = "unsent"
    /\ \/ Origin[j] = "create" /\ row[About[j]] = "creating"
       \/ Origin[j] = "update" /\ row[About[j]] \in {"present", "deleting", "gone"}
    /\ broker' = broker \cup {[job |-> j, retries |-> 0]}
    /\ outcome' = [outcome EXCEPT ![j] = "open"]
    /\ UNCHANGED <<row, at, held, notes, linked, sent, history>>

CommitCreate(t) ==
    /\ row[t] = "creating"
    /\ \A j \in Job : Origin[j] = "create" /\ About[j] = t => outcome[j] # "unsent"
    /\ row' = [row EXCEPT ![t] = "present"]
    /\ UNCHANGED <<broker, at, held, outcome, notes, linked, sent, history>>

RollbackCreate(t) ==
    /\ Faults
    /\ row[t] = "creating"
    /\ row' = [row EXCEPT ![t] = "gone"]
    /\ UNCHANGED <<broker, at, held, outcome, notes, linked, sent, history>>

(* An INSERT of a notification keeps the row of its task locked until its  *)
(* commit, by the foreign key task_id.                                     *)
References(t) == \E w \in Proc : at[w] = "commit" /\ TaskOf(w) = t

Delete(t) ==
    /\ row[t] = "present"
    /\ ~References(t)
    /\ row' = [row EXCEPT ![t] = "deleting"]
    /\ UNCHANGED <<broker, at, held, outcome, notes, linked, sent, history>>

(* The foreign key sets task_id to null.                                   *)
CommitDelete(t) ==
    /\ row[t] = "deleting"
    /\ row' = [row EXCEPT ![t] = "gone"]
    /\ linked' = {j \in linked : About[j] # t}
    /\ UNCHANGED <<broker, at, held, outcome, notes, sent, history>>

RollbackDelete(t) ==
    /\ Faults
    /\ row[t] = "deleting"
    /\ row' = [row EXCEPT ![t] = "present"]
    /\ UNCHANGED <<broker, at, held, outcome, notes, linked, sent, history>>

-----------------------------------------------------------------------------
(* A worker process.                                                       *)

Take(w) ==
    /\ at[w] = "idle"
    /\ \E m \in broker :
          /\ broker' = broker \ {m}
          /\ held' = [held EXCEPT ![w] = m]
    /\ at' = [at EXCEPT ![w] = "insert"]
    /\ UNCHANGED <<row, outcome, notes, linked, sent, history>>

Release(w) ==
    /\ at' = [at EXCEPT ![w] = "idle"]
    /\ held' = [held EXCEPT ![w] = NoMessage]

End(w, result) == outcome' = [outcome EXCEPT ![JobOf(w)] = result]

(* Mutant: the job is sent again by .delay(), with no count of retries.    *)
RetryAnew(w) ==
    /\ broker' = broker \cup {[held[w] EXCEPT !.retries = 0]}
    /\ Release(w)
    /\ UNCHANGED outcome

(* Mutant: max_retries=None.                                               *)
RetryForever(w) ==
    /\ broker' = broker \cup {[held[w] EXCEPT !.retries = @ + 1]}
    /\ Release(w)
    /\ UNCHANGED outcome

(* The except branch: roll back, then self.retry, which sends the job again*)
(* or, after max_retries of them, raises the error.  If the broker does not*)
(* take the new message the job is rejected.                               *)
Retry(w) ==
    /\ \/ /\ held[w].retries < MaxRetries
          /\ broker' = broker \cup {[held[w] EXCEPT !.retries = @ + 1]}
          /\ UNCHANGED outcome
       \/ /\ held[w].retries = MaxRetries
          /\ End(w, "dead")
          /\ UNCHANGED broker
       \/ /\ Faults
          /\ held[w].retries < MaxRetries
          /\ End(w, "lost")
          /\ UNCHANGED broker
    /\ Release(w)

(* Mutant: the INSERT does not wait for a DELETE of the task to end.       *)
InsertUnlocked(w) ==
    /\ at[w] = "insert"
    /\ \/ /\ row[TaskOf(w)] \in {"present", "deleting"}
          /\ at' = [at EXCEPT ![w] = "commit"]
          /\ UNCHANGED <<broker, held, outcome>>
       \/ /\ row[TaskOf(w)] \in {"none", "creating", "gone"}
          /\ Retry(w)
    /\ UNCHANGED <<row, notes, linked, sent, history>>

(* The flush in session.commit().  The foreign key sees committed tasks    *)
(* only and waits for the end of a DELETE.                                 *)
Insert(w) ==
    /\ at[w] = "insert"
    /\ \/ /\ row[TaskOf(w)] = "present"
          /\ at' = [at EXCEPT ![w] = "commit"]
          /\ UNCHANGED <<broker, held, outcome>>
       \/ /\ row[TaskOf(w)] \in {"none", "creating", "gone"}
          /\ Retry(w)
    /\ UNCHANGED <<row, notes, linked, sent, history>>

Recorded(j) ==
    /\ notes' = [notes EXCEPT ![j] = @ + 1]
    /\ linked' = linked \cup {j}

(* Mutant: session.commit() is forgotten, and the refresh raises.          *)
CommitForgotten(w) ==
    /\ at[w] = "commit"
    /\ Retry(w)
    /\ UNCHANGED <<row, notes, linked, sent, history>>

Commit(w) ==
    /\ at[w] = "commit"
    /\ Recorded(JobOf(w))
    /\ at' = [at EXCEPT ![w] = "refresh"]
    /\ UNCHANGED <<row, broker, held, outcome, sent, history>>

(* session.refresh: the row is there, only a user's end could remove it.   *)
Refresh(w) ==
    /\ at[w] = "refresh"
    /\ at' = [at EXCEPT ![w] = "send"]
    /\ UNCHANGED <<row, broker, held, outcome, notes, linked, sent, history>>

(* The result of delivery.send is ignored.                                 *)
Send(w) ==
    /\ at[w] = "send"
    /\ sent' = [sent EXCEPT ![JobOf(w)] = @ + 1]
    /\ End(w, "done")
    /\ Release(w)
    /\ UNCHANGED <<row, broker, notes, linked, history>>

(* The database fails before the commit has taken effect.                  *)
FailBefore(w) ==
    /\ Faults
    /\ at[w] \in {"insert", "commit"}
    /\ failed' = failed \cup {JobOf(w)}
    /\ Retry(w)
    /\ UNCHANGED <<row, notes, linked, sent, faulty>>

(* The connection is lost when the commit has taken effect, or in the      *)
(* refresh, or the delivery raises: the attempt fails and its row stays.   *)
FailAfter(w) ==
    /\ Faults
    /\ \/ at[w] = "commit" /\ Recorded(JobOf(w))
       \/ at[w] \in {"refresh", "send"} /\ UNCHANGED <<notes, linked>>
    /\ faulty' = [faulty EXCEPT ![JobOf(w)] = @ + 1]
    /\ Retry(w)
    /\ UNCHANGED <<row, sent, failed>>

(* Mutant: acks_late, the job of a process that dies is taken again.       *)
CrashRequeued(w) ==
    /\ Faults
    /\ at[w] # "idle"
    /\ broker' = broker \cup {held[w]}
    /\ Release(w)
    /\ UNCHANGED <<row, outcome, notes, linked, sent, history>>

(* The process dies, or is killed at task_time_limit.                      *)
Crash(w) ==
    /\ Faults
    /\ at[w] # "idle"
    /\ End(w, "lost")
    /\ Release(w)
    /\ UNCHANGED <<row, broker, notes, linked, sent, history>>

-----------------------------------------------------------------------------
Init ==
    /\ row \in [Task -> {"none", "present"}]
    /\ broker = {}
    /\ at = [w \in Proc |-> "idle"]
    /\ held = [w \in Proc |-> NoMessage]
    /\ outcome = [j \in Job |-> "unsent"]
    /\ notes = [j \in Job |-> 0]
    /\ linked = {}
    /\ sent = [j \in Job |-> 0]
    /\ faulty = [j \in Job |-> 0]
    /\ failed = {}

Api ==
    \/ \E t \in Task : \/ Create(t) \/ CommitCreate(t) \/ RollbackCreate(t)
                       \/ Delete(t) \/ CommitDelete(t) \/ RollbackDelete(t)
    \/ \E j \in Job : Delay(j)

(* What a process does on its own.                                         *)
Work(w) == Take(w) \/ Insert(w) \/ Commit(w) \/ Refresh(w) \/ Send(w)

Next ==
    \/ Api
    \/ \E w \in Proc : Work(w) \/ FailBefore(w) \/ FailAfter(w) \/ Crash(w)

Spec == Init /\ [][Next]_vars

(* Processes run, and a request that has deleted a row ends: RequestsFinish*)
(* of TaskApi.  An INSERT that waits for a row is in PostgreSQL's queue for*)
(* it, ahead of the next DELETE: strong fairness.                          *)
FairSpec ==
    /\ Spec
    /\ \A w \in Proc : WF_vars(Work(w)) /\ SF_vars(Insert(w))
    /\ \A t \in Task : WF_vars(CommitDelete(t) \/ RollbackDelete(t))

-----------------------------------------------------------------------------
Places == {"idle", "insert", "commit", "refresh", "send"}

(* Every variable stays in its set.  For broker and held this says that no *)
(* job is ever tried more than max_retries + 1 times.                      *)
TypeOK ==
    /\ row \in [Task -> {"none", "creating", "present", "deleting", "gone"}]
    /\ broker \subseteq Message
    /\ at \in [Proc -> Places]
    /\ held \in [Proc -> Message \cup {NoMessage}]
    /\ outcome \in [Job -> {"unsent", "open", "done", "dead", "lost"}]
    /\ notes \in [Job -> Nat]
    /\ linked \subseteq Job
    /\ sent \in [Job -> Nat]
    /\ faulty \in [Job -> Nat]
    /\ failed \subseteq Job

(* The retries of a job bound what it leaves behind: never more than one   *)
(* notification per attempt, max_retries + 1 in all, and more than one only*)
(* if an attempt failed after its commit.  It is delivered at most once,   *)
(* and never without a notification on record.                             *)
BoundedNotes ==
    \A j \in Job :
        /\ notes[j] <= MaxRetries + 1
        /\ notes[j] <= faulty[j] + 1
        /\ sent[j] <= 1
        /\ sent[j] <= notes[j]

(* No notification refers to a task that is not there, however the INSERT  *)
(* interleaves with the API's creation and deletion of the task.           *)
NoDanglingNote ==
    \A j \in linked : row[About[j]] \in {"present", "deleting"}

(* Every job that was sent comes to an end, whatever fails on the way.     *)
JobsEnd ==
    \A j \in Job : outcome[j] = "open" ~> outcome[j] \in {"done", "dead", "lost"}

(* A job whose task is on record has its recipient notified, unless the    *)
(* task is deleted first, an attempt at this very job fails, or it is lost *)
(* with its process or the broker: failures elsewhere do not reach it, and *)
(* neither do attempts made before the task was committed.                 *)
EventuallyNotified ==
    \A j \in Job :
        outcome[j] = "open" /\ row[About[j]] = "present" ~>
            \/ sent[j] = 1
            \/ row[About[j]] = "gone"
            \/ j \in failed \/ faulty[j] > 0 \/ outcome[j] = "lost"

(* Committed rows, deliveries and outcomes change as Notices says: what is *)
(* between a process and the broker, the locks and the uncommitted rows do *)
(* not show.                                                               *)
Committed ==
    [t \in Task |-> IF row[t] = "creating" THEN "none"
                    ELSE IF row[t] = "deleting" THEN "present" ELSE row[t]]

(* The messages that exist, and how often an open job has been retried.    *)
Messages == broker \cup {held[w] : w \in {v \in Proc : at[v] # "idle"}}

Retries ==
    [j \in Job |-> IF outcome[j] # "open" THEN 0
                   ELSE (CHOOSE m \in Messages : m.job = j).retries]

Log == INSTANCE Notices WITH row <- Committed, retries <- Retries

IsNotices == Log!Spec
=============================================================================
