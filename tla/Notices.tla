------------------------------- MODULE Notices -------------------------------
(***************************************************************************)
(* What the jobs of NotifyWorker promise whoever looks only at committed   *)
(* rows, at deliveries and at the state of a job in Celery.  There are no  *)
(* processes, messages or locks here: a job that is open may leave a       *)
(* notification whenever its task is on record, and fail.  What bounds it  *)
(* is the number of its retries.                                           *)
(***************************************************************************)
EXTENDS Naturals

CONSTANTS Task, Job, About, Origin, MaxRetries, Faults

VARIABLES
    row,        \* of each task: none yet, present, or gone
    outcome,    \* of each job: not yet sent, open, done, dead or lost
    retries,    \* how many retries an open job has behind it
    notes,      \* how many notifications each job has left
    linked,     \* jobs with a notification whose task_id is not null
    sent,       \* how many times the notification of each job was delivered
    faulty      \* how many errors have hit each job after a commit

job == <<outcome, retries>>
kept == <<notes, linked>>
vars == <<row, job, kept, sent, faulty>>

Put(t) ==
    /\ row[t] = "none"
    /\ \A j \in Job : Origin[j] = "create" /\ About[j] = t => outcome[j] # "unsent"
    /\ row' = [row EXCEPT ![t] = "present"]
    /\ UNCHANGED <<job, kept, sent, faulty>>

Waste(t) ==
    /\ Faults /\ row[t] = "none"
    /\ row' = [row EXCEPT ![t] = "gone"]
    /\ UNCHANGED <<job, kept, sent, faulty>>

(* The notifications of a task outlive it, their link does not.            *)
Remove(t) ==
    /\ row[t] = "present"
    /\ row' = [row EXCEPT ![t] = "gone"]
    /\ linked' = {j \in linked : About[j] # t}
    /\ UNCHANGED <<job, notes, sent, faulty>>

Delay(j) ==
    /\ outcome[j] = "unsent"
    /\ row[About[j]] = "none" <=> Origin[j] = "create"
    /\ outcome' = [outcome EXCEPT ![j] = "open"]
    /\ UNCHANGED <<row, retries, kept, sent, faulty>>

End(j, result) ==
    /\ outcome' = [outcome EXCEPT ![j] = result]
    /\ retries' = [retries EXCEPT ![j] = 0]

(* What follows an error: the next attempt, or none.                       *)
Again(j) ==
    \/ /\ retries[j] < MaxRetries
       /\ retries' = [retries EXCEPT ![j] = @ + 1]
       /\ UNCHANGED outcome
    \/ retries[j] = MaxRetries /\ End(j, "dead")
    \/ Faults /\ End(j, "lost")

(* More notifications than one need errors after a commit.                 *)
Recorded(j) ==
    /\ row[About[j]] = "present"
    /\ notes[j] <= retries[j] /\ notes[j] <= faulty[j]
    /\ notes' = [notes EXCEPT ![j] = @ + 1]
    /\ linked' = linked \cup {j}

Note(j) ==
    /\ outcome[j] = "open" /\ Recorded(j)
    /\ UNCHANGED <<row, job, sent, faulty>>

(* An attempt that leaves nothing fails by an error or for want of a task. *)
FailBefore(j) ==
    /\ outcome[j] = "open" /\ (Faults \/ row[About[j]] # "present")
    /\ Again(j)
    /\ UNCHANGED <<row, kept, sent, faulty>>

FailAfter(j) ==
    /\ Faults /\ outcome[j] = "open"
    /\ Recorded(j) \/ (notes[j] > 0 /\ UNCHANGED kept)
    /\ faulty' = [faulty EXCEPT ![j] = @ + 1]
    /\ Again(j)
    /\ UNCHANGED <<row, sent>>

Deliver(j) ==
    /\ outcome[j] = "open" /\ notes[j] > 0
    /\ sent' = [sent EXCEPT ![j] = 1]
    /\ End(j, "done")
    /\ UNCHANGED <<row, kept, faulty>>

Init ==
    /\ row \in [Task -> {"none", "present"}]
    /\ outcome = [j \in Job |-> "unsent"]
    /\ retries = [j \in Job |-> 0]
    /\ notes = retries /\ sent = retries /\ faulty = retries
    /\ linked = {}

Next ==
    \/ \E t \in Task : Put(t) \/ Waste(t) \/ Remove(t)
    \/ \E j \in Job : Delay(j) \/ Note(j) \/ FailBefore(j) \/ FailAfter(j) \/ Deliver(j)

Spec == Init /\ [][Next]_vars
=============================================================================
