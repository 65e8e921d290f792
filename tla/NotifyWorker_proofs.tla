------------------------- MODULE NotifyWorker_proofs -------------------------
(***************************************************************************)
(* What NotifyWorker guarantees for any number of jobs, processes and      *)
(* retries.  A job is in one place at a time, as a message or in the hands *)
(* of a process, and its message counts at least the notifications that    *)
(* its earlier attempts have left.                                         *)
(***************************************************************************)
EXTENDS NotifyWorker, TLAPS

Busy(w) == at[w] # "idle"

(* A process that works holds a message.                                   *)
HeldInv == \A w \in Proc : Busy(w) => held[w] \in Message

(* A job that is open, and no other, is in one place at most.              *)
PlaceInv ==
    /\ \A m \in broker : outcome[m.job] = "open"
    /\ \A m, n \in broker : m.job = n.job => m = n
    /\ \A w \in Proc : Busy(w) => outcome[JobOf(w)] = "open"
    /\ \A v, w \in Proc : Busy(v) /\ Busy(w) /\ JobOf(v) = JobOf(w) => v = w
    /\ \A m \in broker, w \in Proc : Busy(w) => m.job # JobOf(w)

(* Before the commit of an attempt the retries bound the notifications,    *)
(* after it they are one behind.                                           *)
CountInv ==
    /\ \A j \in Job : outcome[j] = "unsent" => notes[j] = 0 /\ sent[j] = 0
    /\ \A j \in Job : outcome[j] = "open" => sent[j] = 0
    /\ \A m \in broker :
          notes[m.job] <= m.retries /\ notes[m.job] <= faulty[m.job]
    /\ \A w \in Proc : at[w] \in {"insert", "commit"} =>
          notes[JobOf(w)] <= held[w].retries /\ notes[JobOf(w)] <= faulty[JobOf(w)]
    /\ \A w \in Proc : at[w] \in {"refresh", "send"} =>
          /\ notes[JobOf(w)] <= held[w].retries + 1
          /\ notes[JobOf(w)] <= faulty[JobOf(w)] + 1
          /\ notes[JobOf(w)] >= 1

(* What an INSERT refers to stays until its commit.                        *)
LinkInv ==
    \A w \in Proc : at[w] = "commit" => row[TaskOf(w)] = "present"

Ind == TypeOK /\ HeldInv /\ PlaceInv /\ CountInv /\ BoundedNotes
         /\ LinkInv /\ NoDanglingNote

USE DEF history

-----------------------------------------------------------------------------
(* The initial states satisfy the invariant.                               *)
LEMMA InitInd == Init => Ind
  <1> SUFFICES ASSUME Init PROVE Ind
    OBVIOUS
  <1> USE JobsAssumption, MessageAssumption DEF Init
  <1>1. TypeOK
    BY DEF TypeOK, Places
  <1>2. HeldInv /\ PlaceInv /\ LinkInv /\ NoDanglingNote
    BY DEF HeldInv, PlaceInv, LinkInv, NoDanglingNote, Busy
  <1>3. CountInv /\ BoundedNotes
    BY DEF CountInv, BoundedNotes
  <1> QED
    BY <1>1, <1>2, <1>3 DEF Ind

(* The steps of the API, which touch no message in flight.                 *)
LEMMA ApiInd == Ind /\ Api => Ind'
  <1> SUFFICES ASSUME Ind, Api PROVE Ind'
    OBVIOUS
  <1> USE JobsAssumption, MessageAssumption DEF Ind
  <1>1. ASSUME NEW t \in Task,
               Create(t) \/ CommitCreate(t) \/ RollbackCreate(t)
                 \/ Delete(t) \/ CommitDelete(t) \/ RollbackDelete(t)
        PROVE Ind'
    <2> DEFINE RowStep ==
          /\ UNCHANGED <<broker, at, held, outcome, notes, sent, history>>
          /\ linked' \subseteq linked
          /\ row' \in [Task -> {"none", "creating", "present", "deleting", "gone"}]
          /\ \A s \in Task \ {t} : row'[s] = row[s]
          /\ References(t) => row'[t] = row[t] \/ row[t] # "present"
          /\ row[t] \in {"present", "deleting"} /\ row'[t] \notin {"present", "deleting"}
               => \A j \in linked' : About[j] # t
    <2>1. RowStep
      <3>1. CASE Create(t)
        BY <3>1 DEF Create, TypeOK
      <3>2. CASE CommitCreate(t)
        BY <3>2 DEF CommitCreate, TypeOK
      <3>3. CASE RollbackCreate(t)
        BY <3>3 DEF RollbackCreate, TypeOK
      <3>4. CASE Delete(t)
        BY <3>4 DEF Delete, TypeOK
      <3>5. CASE CommitDelete(t)
        BY <3>5 DEF CommitDelete, TypeOK
      <3>6. CASE RollbackDelete(t)
        BY <3>6 DEF RollbackDelete, TypeOK
      <3> QED
        BY <1>1, <3>1, <3>2, <3>3, <3>4, <3>5, <3>6
    <2> HIDE DEF RowStep
    <2>2. TypeOK'
      BY <2>1 DEF RowStep, TypeOK
    <2>3. HeldInv' /\ PlaceInv' /\ CountInv' /\ BoundedNotes'
      BY <2>1 DEF RowStep, HeldInv, PlaceInv, CountInv, BoundedNotes, Busy, JobOf
    <2>4. LinkInv'
      <3> SUFFICES ASSUME NEW w \in Proc, at'[w] = "commit"
                   PROVE  row'[TaskOf(w)'] = "present"
        BY DEF LinkInv
      <3>1. at[w] = "commit" /\ TaskOf(w)' = TaskOf(w)
        BY <2>1 DEF RowStep, TaskOf, JobOf
      <3>2. row[TaskOf(w)] = "present" /\ TaskOf(w) \in Task
        BY <3>1 DEF LinkInv, HeldInv, Busy, Message, TaskOf, JobOf
      <3>3. TaskOf(w) = t => References(t)
        BY <3>1 DEF References
      <3> QED
        BY <2>1, <3>1, <3>2, <3>3 DEF RowStep
    <2>5. NoDanglingNote'
      <3> SUFFICES ASSUME NEW j \in linked'
                   PROVE  row'[About[j]] \in {"present", "deleting"}
        BY DEF NoDanglingNote
      <3>1. j \in linked /\ About[j] \in Task
        BY <2>1 DEF RowStep, TypeOK
      <3>2. row[About[j]] \in {"present", "deleting"}
        BY <3>1 DEF NoDanglingNote
      <3> QED
        BY <2>1, <3>1, <3>2 DEF RowStep
    <2> QED
      BY <2>2, <2>3, <2>4, <2>5
  <1>2. ASSUME NEW j \in Job, Delay(j)
        PROVE Ind'
    <2> USE <1>2 DEF Delay
    <2>1. TypeOK'
      BY DEF TypeOK, Message
    <2>2. HeldInv' /\ LinkInv' /\ NoDanglingNote'
      BY DEF HeldInv, LinkInv, NoDanglingNote, Busy, TaskOf, JobOf
    <2>3. PlaceInv'
      BY DEF PlaceInv, TypeOK, Busy, JobOf, HeldInv, Message
    <2>4. CountInv' /\ BoundedNotes'
      BY DEF CountInv, BoundedNotes, TypeOK, JobOf, HeldInv, Message, Busy
    <2> QED
      BY <2>1, <2>2, <2>3, <2>4
  <1> QED
    BY <1>1, <1>2 DEF Api

-----------------------------------------------------------------------------
(* The end of an attempt that has failed: the counts may have moved on by  *)
(* one for the job of w, in step with its retries.                         *)
LEMMA RetryInd ==
    ASSUME Ind, NEW w \in Proc, Busy(w), Retry(w),
           row' = row, sent' = sent,
           notes' \in [Job -> Nat], faulty' \in [Job -> Nat], linked' \subseteq Job,
           failed' \subseteq Job,
           \A j \in Job \ {JobOf(w)} : notes'[j] = notes[j] /\ faulty'[j] = faulty[j],
           notes'[JobOf(w)] <= held[w].retries + 1,
           notes'[JobOf(w)] <= faulty'[JobOf(w)],
           \A j \in linked' : row[About[j]] \in {"present", "deleting"}
    PROVE  Ind'
  <1> USE JobsAssumption, MessageAssumption DEF Ind
  <1> DEFINE J == JobOf(w)
             again == [held[w] EXCEPT !.retries = @ + 1]
  <1>1. held[w] \in Message /\ J \in Job /\ outcome[J] = "open" /\ sent[J] = 0
    BY DEF HeldInv, Message, JobOf, PlaceInv, CountInv
  <1>2. /\ at' = [at EXCEPT ![w] = "idle"]
        /\ held' = [held EXCEPT ![w] = NoMessage]
    BY DEF Retry, Release
  <1>3. \/ /\ again \in Message /\ again.job = J /\ again.retries = held[w].retries + 1
           /\ broker' = broker \cup {again}
           /\ outcome' = outcome
        \/ /\ outcome' \in [Job -> {"unsent", "open", "done", "dead", "lost"}]
           /\ \A j \in Job \ {J} : outcome'[j] = outcome[j]
           /\ outcome'[J] \in {"dead", "lost"}
           /\ broker' = broker
    <2>1. CASE held[w].retries < MaxRetries /\ broker' = broker \cup {again}
                 /\ UNCHANGED outcome
      BY <1>1, <2>1 DEF Message, JobOf
    <2>2. CASE UNCHANGED broker /\ (End(w, "dead") \/ End(w, "lost"))
      BY <1>1, <2>2 DEF End, TypeOK
    <2> QED
      BY <2>1, <2>2 DEF Retry
  <1>4. \A v \in Proc : at'[v] # "idle" =>
              v # w /\ at'[v] = at[v] /\ held'[v] = held[v] /\ JobOf(v) \in Job /\ JobOf(v) # J
    BY <1>1, <1>2 DEF TypeOK, PlaceInv, HeldInv, Busy, Message, JobOf
  <1>5. \A m \in broker : m \in Message /\ m.job \in Job /\ m.job # J
    BY <1>1 DEF TypeOK, PlaceInv, Message
  <1> HIDE DEF J, again
  <1>6. TypeOK'
    BY <1>2, <1>3 DEF TypeOK, Places
  <1>7. HeldInv' /\ LinkInv' /\ NoDanglingNote'
    BY <1>4 DEF HeldInv, LinkInv, NoDanglingNote, Busy, TaskOf, JobOf
  <1>8. PlaceInv'
    <2>1. \A m \in broker' : outcome'[m.job] = "open"
      BY <1>1, <1>3, <1>5 DEF PlaceInv
    <2>2. \A m, n \in broker' : m.job = n.job => m = n
      BY <1>3, <1>5 DEF PlaceInv
    <2>3. \A v \in Proc : at'[v] # "idle" => outcome'[held'[v].job] = "open"
      BY <1>3, <1>4 DEF PlaceInv, Busy, JobOf
    <2>4. \A u, v \in Proc : at'[u] # "idle" /\ at'[v] # "idle"
              /\ held'[u].job = held'[v].job => u = v
      BY <1>4 DEF PlaceInv, Busy, JobOf
    <2>5. \A m \in broker', v \in Proc : at'[v] # "idle" => m.job # held'[v].job
      BY <1>3, <1>4 DEF PlaceInv, Busy, JobOf
    <2> QED
      BY <2>1, <2>2, <2>3, <2>4, <2>5 DEF PlaceInv, Busy, JobOf
  <1>9. CountInv'
    <2>1. \A j \in Job : outcome'[j] = "unsent" => notes'[j] = 0 /\ sent'[j] = 0
      BY <1>1, <1>3 DEF CountInv, J
    <2>2. \A j \in Job : outcome'[j] = "open" => sent'[j] = 0
      BY <1>1, <1>3 DEF CountInv
    <2>3. \A m \in broker' : notes'[m.job] <= m.retries /\ notes'[m.job] <= faulty'[m.job]
      BY <1>3, <1>5 DEF CountInv, J
    <2>4. \A v \in Proc : at'[v] # "idle" =>
              notes'[held'[v].job] = notes[JobOf(v)] /\ faulty'[held'[v].job] = faulty[JobOf(v)]
      BY <1>4 DEF JobOf, J
    <2>5. \A v \in Proc : at'[v] \in {"insert", "commit"} =>
            notes'[held'[v].job] <= held'[v].retries /\ notes'[held'[v].job] <= faulty'[held'[v].job]
      BY <1>4, <2>4 DEF CountInv
    <2>6. \A v \in Proc : at'[v] \in {"refresh", "send"} =>
            /\ notes'[held'[v].job] <= held'[v].retries + 1
            /\ notes'[held'[v].job] <= faulty'[held'[v].job] + 1
            /\ notes'[held'[v].job] >= 1
      BY <1>4, <2>4 DEF CountInv
    <2> QED
      BY <2>1, <2>2, <2>3, <2>5, <2>6 DEF CountInv, JobOf
  <1>10. BoundedNotes'
    <2> SUFFICES ASSUME NEW j \in Job
                 PROVE  /\ notes'[j] <= MaxRetries + 1
                        /\ notes'[j] <= faulty'[j] + 1
                        /\ sent'[j] <= 1
                        /\ sent'[j] <= notes'[j]
      BY DEF BoundedNotes
    <2>1. CASE j = J
      <3>1. held[w].retries \in Nat /\ held[w].retries <= MaxRetries
        BY <1>1 DEF Message
      <3> QED
        BY <1>1, <2>1, <3>1 DEF J
    <2>2. CASE j # J
      BY <2>2 DEF BoundedNotes, J
    <2> QED
      BY <2>1, <2>2
  <1> QED
    BY <1>6, <1>7, <1>8, <1>9, <1>10

(* An attempt that fails before its commit.                                *)
LEMMA FailedBefore ==
    ASSUME Ind, NEW w \in Proc, at[w] \in {"insert", "commit"}, Retry(w),
           failed' \subseteq Job, UNCHANGED <<row, notes, linked, sent, faulty>>
    PROVE  Ind'
  <1>1. Busy(w) /\ held[w] \in Message /\ JobOf(w) \in Job
    BY DEF Ind, HeldInv, Busy, Message, JobOf
  <1>2. /\ notes[JobOf(w)] <= held[w].retries
        /\ notes[JobOf(w)] <= faulty[JobOf(w)]
    BY DEF Ind, CountInv
  <1>3. /\ notes \in [Job -> Nat] /\ faulty \in [Job -> Nat] /\ linked \subseteq Job
        /\ notes[JobOf(w)] \in Nat /\ held[w].retries \in Nat
    BY <1>1 DEF Ind, TypeOK, Message
  <1>4. notes[JobOf(w)] <= held[w].retries + 1
    BY <1>2, <1>3
  <1>5. \A j \in linked : row[About[j]] \in {"present", "deleting"}
    BY DEF Ind, NoDanglingNote
  <1> QED
    BY <1>1, <1>2, <1>3, <1>4, <1>5, RetryInd

(* The steps of a process.                                                 *)
LEMMA ProcInd ==
    ASSUME Ind, NEW w \in Proc,
           Work(w) \/ FailBefore(w) \/ FailAfter(w) \/ Crash(w)
    PROVE  Ind'
  <1> USE JobsAssumption, MessageAssumption
  <1>1. CASE Take(w)
    <2> USE DEF Ind
    <2>1. PICK m \in broker : /\ broker' = broker \ {m}
                              /\ held' = [held EXCEPT ![w] = m]
      BY <1>1 DEF Take
    <2>2. /\ at[w] = "idle" /\ at' = [at EXCEPT ![w] = "insert"]
          /\ UNCHANGED <<row, outcome, notes, linked, sent, history>>
      BY <1>1 DEF Take
    <2>3. TypeOK'
      BY <2>1, <2>2 DEF TypeOK, Places
    <2>4. HeldInv' /\ LinkInv' /\ NoDanglingNote'
      BY <2>1, <2>2 DEF HeldInv, LinkInv, NoDanglingNote, Busy, TypeOK, TaskOf, JobOf
    <2>5. PlaceInv'
      BY <2>1, <2>2 DEF PlaceInv, Busy, JobOf, TypeOK
    <2>6. CountInv'
      BY <2>1, <2>2 DEF CountInv, JobOf, TypeOK
    <2>7. BoundedNotes'
      BY <2>2 DEF BoundedNotes
    <2> QED
      BY <2>3, <2>4, <2>5, <2>6, <2>7
  <1>2. CASE Insert(w)
    <2>1. CASE /\ at[w] = "insert" /\ row[TaskOf(w)] = "present"
               /\ at' = [at EXCEPT ![w] = "commit"]
               /\ UNCHANGED <<broker, held, outcome, row, notes, linked, sent, history>>
      <3> USE DEF Ind
      <3>1. TypeOK'
        BY <2>1 DEF TypeOK, Places
      <3>2. HeldInv' /\ LinkInv' /\ NoDanglingNote'
        BY <2>1 DEF HeldInv, LinkInv, NoDanglingNote, Busy, TypeOK, TaskOf, JobOf
      <3>3. PlaceInv'
        BY <2>1 DEF PlaceInv, Busy, JobOf, TypeOK
      <3>4. CountInv' /\ BoundedNotes'
        BY <2>1 DEF CountInv, BoundedNotes, JobOf, TypeOK
      <3> QED
        BY <3>1, <3>2, <3>3, <3>4
    <2>2. CASE /\ at[w] = "insert" /\ Retry(w)
               /\ UNCHANGED <<row, notes, linked, sent, history>>
      BY <2>2, FailedBefore DEF Ind, TypeOK
    <2> QED
      BY <1>2, <2>1, <2>2 DEF Insert
  <1>3. CASE Commit(w) \/ Refresh(w)
    <2> USE DEF Ind
    <2>1. held[w] \in Message /\ JobOf(w) \in Job
      BY <1>3 DEF Commit, Refresh, HeldInv, Busy, Message, JobOf
    <2>2. CASE Commit(w)
      <3> USE <2>2 DEF Commit, Recorded
      <3>1. TypeOK'
        BY <2>1 DEF TypeOK, Places
      <3>2. HeldInv' /\ LinkInv'
        BY DEF HeldInv, LinkInv, Busy, TypeOK, TaskOf, JobOf
      <3>3. NoDanglingNote'
        BY DEF NoDanglingNote, LinkInv, TaskOf
      <3>4. PlaceInv'
        BY DEF PlaceInv, Busy, JobOf, TypeOK
      <3>5. /\ notes[JobOf(w)] <= held[w].retries
            /\ notes[JobOf(w)] <= faulty[JobOf(w)]
            /\ sent[JobOf(w)] = 0
            /\ outcome[JobOf(w)] = "open"
            /\ held[w].retries \in Nat /\ held[w].retries <= MaxRetries
            /\ notes[JobOf(w)] \in Nat /\ faulty[JobOf(w)] \in Nat
        BY <2>1 DEF CountInv, PlaceInv, Busy, TypeOK, Message
      <3>6. \A m \in broker : m.job # JobOf(w)
        BY DEF PlaceInv, Busy
      <3>7. \A v \in Proc \ {w} : at[v] # "idle" => JobOf(v) # JobOf(w) /\ JobOf(v) \in Job
        BY DEF PlaceInv, Busy, HeldInv, Message, JobOf
      <3>8. CountInv'
        <4>1. \A j \in Job : outcome'[j] = "unsent" => notes'[j] = 0 /\ sent'[j] = 0
          BY <3>5 DEF CountInv, TypeOK
        <4>2. \A j \in Job : outcome'[j] = "open" => sent'[j] = 0
          BY DEF CountInv
        <4>3. \A m \in broker' : notes'[m.job] <= m.retries /\ notes'[m.job] <= faulty'[m.job]
          BY <3>6 DEF CountInv, TypeOK, Message
        <4>4. \A v \in Proc : at'[v] \in {"insert", "commit"} =>
                notes'[held'[v].job] <= held'[v].retries
                /\ notes'[held'[v].job] <= faulty'[held'[v].job]
          BY <3>7 DEF CountInv, TypeOK, JobOf
        <4>5. \A v \in Proc : at'[v] \in {"refresh", "send"} =>
                /\ notes'[held'[v].job] <= held'[v].retries + 1
                /\ notes'[held'[v].job] <= faulty'[held'[v].job] + 1
                /\ notes'[held'[v].job] >= 1
          BY <2>1, <3>5, <3>7 DEF CountInv, TypeOK, JobOf
        <4> QED
          BY <4>1, <4>2, <4>3, <4>4, <4>5 DEF CountInv, JobOf
      <3>9. BoundedNotes'
        BY <2>1, <3>5 DEF BoundedNotes, TypeOK
      <3> QED
        BY <3>1, <3>2, <3>3, <3>4, <3>8, <3>9
    <2>3. CASE Refresh(w)
      <3> USE <2>3 DEF Refresh
      <3>1. TypeOK'
        BY DEF TypeOK, Places
      <3>2. HeldInv' /\ LinkInv' /\ NoDanglingNote'
        BY DEF HeldInv, LinkInv, NoDanglingNote, Busy, TypeOK, TaskOf, JobOf
      <3>3. PlaceInv'
        BY DEF PlaceInv, Busy, JobOf, TypeOK
      <3>4. CountInv' /\ BoundedNotes'
        BY DEF CountInv, BoundedNotes, JobOf, TypeOK
      <3> QED
        BY <3>1, <3>2, <3>3, <3>4
    <2> QED
      BY <1>3, <2>2, <2>3
  <1>4. CASE Send(w) \/ Crash(w)
    <2> USE DEF Ind
    <2>1. /\ at[w] # "idle"
          /\ held[w] \in Message /\ JobOf(w) \in Job /\ outcome[JobOf(w)] = "open"
          /\ sent[JobOf(w)] = 0
      BY <1>4 DEF Send, Crash, HeldInv, Busy, Message, JobOf, PlaceInv, CountInv
    <2>2. /\ at' = [at EXCEPT ![w] = "idle"]
          /\ held' = [held EXCEPT ![w] = NoMessage]
          /\ outcome' \in [Job -> {"unsent", "open", "done", "dead", "lost"}]
          /\ outcome'[JobOf(w)] \in {"done", "lost"}
          /\ \A j \in Job \ {JobOf(w)} : outcome'[j] = outcome[j]
          /\ UNCHANGED <<row, broker, notes, linked, history>>
      BY <1>4, <2>1 DEF Send, Crash, Release, End, TypeOK
    <2>3. /\ sent' \in [Job -> Nat]
          /\ \A j \in Job \ {JobOf(w)} : sent'[j] = sent[j]
          /\ sent'[JobOf(w)] <= 1
          /\ sent'[JobOf(w)] <= notes[JobOf(w)]
      <3>1. CASE Send(w)
        BY <2>1, <3>1 DEF Send, TypeOK, CountInv
      <3>2. CASE Crash(w)
        BY <2>1, <3>2 DEF Crash, TypeOK
      <3> QED
        BY <1>4, <3>1, <3>2
    <2>4. TypeOK'
      BY <2>2, <2>3 DEF TypeOK, Places
    <2>5. HeldInv' /\ LinkInv' /\ NoDanglingNote'
      BY <2>2 DEF HeldInv, LinkInv, NoDanglingNote, Busy, TypeOK, TaskOf, JobOf
    <2>6. \A v \in Proc : at'[v] # "idle" =>
             v # w /\ at'[v] = at[v] /\ held'[v] = held[v]
             /\ JobOf(v) \in Job /\ JobOf(v) # JobOf(w)
      BY <2>1, <2>2 DEF TypeOK, PlaceInv, HeldInv, Busy, Message, JobOf
    <2>7. \A m \in broker : m.job \in Job /\ m.job # JobOf(w)
      BY <2>1 DEF TypeOK, PlaceInv, Busy, Message
    <2>8. PlaceInv'
      BY <2>2, <2>6, <2>7 DEF PlaceInv, Busy, JobOf
    <2>9. CountInv'
      BY <2>2, <2>3, <2>6, <2>7 DEF CountInv, JobOf
    <2>10. BoundedNotes'
      BY <2>2, <2>3 DEF BoundedNotes
    <2> QED
      BY <2>4, <2>5, <2>8, <2>9, <2>10
  <1>5. CASE FailBefore(w)
    <2>1. JobOf(w) \in Job /\ failed \subseteq Job
      BY <1>5 DEF FailBefore, Ind, TypeOK, HeldInv, Busy, Message, JobOf
    <2> QED
      BY <1>5, <2>1, FailedBefore DEF FailBefore
  <1>6. CASE FailAfter(w)
    <2> DEFINE J == JobOf(w)
    <2>1. Busy(w) /\ held[w] \in Message /\ J \in Job
      BY <1>6 DEF FailAfter, Ind, HeldInv, Busy, Message, JobOf
    <2>2. /\ notes \in [Job -> Nat] /\ faulty \in [Job -> Nat] /\ linked \subseteq Job
          /\ held[w].retries \in Nat
      BY <2>1 DEF Ind, TypeOK, Message
    <2>3. /\ row' = row /\ sent' = sent /\ Retry(w)
          /\ faulty' = [faulty EXCEPT ![J] = @ + 1]
          /\ failed' \subseteq Job
      BY <1>6 DEF FailAfter, Ind, TypeOK
    <2>4. CASE at[w] = "commit" /\ Recorded(J)
      <3>1. notes[J] <= held[w].retries /\ notes[J] <= faulty[J]
        BY <2>4 DEF Ind, CountInv
      <3>2. notes' = [notes EXCEPT ![J] = @ + 1] /\ linked' = linked \cup {J}
        BY <2>4 DEF Recorded
      <3>3. \A j \in linked' : row[About[j]] \in {"present", "deleting"}
        BY <2>4, <3>2 DEF Ind, NoDanglingNote, LinkInv, TaskOf
      <3>4. /\ notes' \in [Job -> Nat] /\ faulty' \in [Job -> Nat] /\ linked' \subseteq Job
            /\ \A j \in Job \ {J} : notes'[j] = notes[j] /\ faulty'[j] = faulty[j]
            /\ notes'[J] <= held[w].retries + 1
            /\ notes'[J] <= faulty'[J]
        BY <2>1, <2>2, <2>3, <3>1, <3>2
      <3> QED
        BY <2>1, <2>3, <3>3, <3>4, RetryInd
    <2>5. CASE at[w] \in {"refresh", "send"} /\ UNCHANGED <<notes, linked>>
      <3>1. notes[J] <= held[w].retries + 1 /\ notes[J] <= faulty[J] + 1
        BY <2>5 DEF Ind, CountInv
      <3>2. \A j \in linked' : row[About[j]] \in {"present", "deleting"}
        BY <2>5 DEF Ind, NoDanglingNote
      <3>3. /\ notes' \in [Job -> Nat] /\ faulty' \in [Job -> Nat] /\ linked' \subseteq Job
            /\ \A j \in Job \ {J} : notes'[j] = notes[j] /\ faulty'[j] = faulty[j]
            /\ notes'[J] <= held[w].retries + 1
            /\ notes'[J] <= faulty'[J]
        BY <2>1, <2>2, <2>3, <2>5, <3>1
      <3> QED
        BY <2>1, <2>3, <3>2, <3>3, RetryInd
    <2> QED
      BY <1>6, <2>4, <2>5 DEF FailAfter
  <1> QED
    BY <1>1, <1>2, <1>3, <1>4, <1>5, <1>6 DEF Work

(* The invariant holds in every state of a behaviour.                      *)
THEOREM IndInvariant == Spec => []Ind
  <1>1. Ind /\ [Next]_vars => Ind'
    <2> SUFFICES ASSUME Ind, [Next]_vars PROVE Ind'
      OBVIOUS
    <2>1. CASE Api
      BY <2>1, ApiInd
    <2>2. CASE \E w \in Proc : Work(w) \/ FailBefore(w) \/ FailAfter(w) \/ Crash(w)
      BY <2>2, ProcInd
    <2>3. CASE UNCHANGED vars
      BY <2>3 DEF vars, Ind, TypeOK, HeldInv, PlaceInv, CountInv, BoundedNotes,
                  LinkInv, NoDanglingNote, Busy, TaskOf, JobOf
    <2> QED
      BY <2>1, <2>2, <2>3 DEF Next
  <1> QED
    BY <1>1, InitInd, PTL DEF Spec

(* Every variable keeps its type, so no job is tried more often than       *)
(* max_retries allows.                                                     *)
THEOREM TypeCorrect == Spec => []TypeOK
  <1>1. Ind => TypeOK
    BY DEF Ind
  <1> QED
    BY <1>1, IndInvariant, PTL

(* A job leaves at most max_retries + 1 notifications, and more than one   *)
(* only if an attempt failed after its commit; it is delivered at most once*)
(* and only with a notification on record.                                 *)
THEOREM NotesAreBounded == Spec => []BoundedNotes
  <1>1. Ind => BoundedNotes
    BY DEF Ind
  <1> QED
    BY <1>1, IndInvariant, PTL

(* A notification never refers to a task that is not there: what a worker's*)
(* INSERT refers to cannot be deleted before its commit.                   *)
THEOREM NotesHaveTasks == Spec => []NoDanglingNote
  <1>1. Ind => NoDanglingNote
    BY DEF Ind
  <1> QED
    BY <1>1, IndInvariant, PTL

-----------------------------------------------------------------------------
(* The jobs as Notices has them.                                           *)

(* An open job is somewhere: no step loses its message without ending it.  *)
OpenInv == \A j \in Job : outcome[j] = "open" => \E m \in Messages : m.job = j

(* There is one message of each open job, and of no other.                 *)
LEMMA OneMessage ==
    ASSUME Ind
    PROVE  /\ Messages \subseteq Message
           /\ \A m \in Messages : m.job \in Job /\ outcome[m.job] = "open"
           /\ \A m, n \in Messages : m.job = n.job => m = n
  <1>1. \A m \in Messages : m \in broker \/ \E w \in Proc : Busy(w) /\ m = held[w]
    BY DEF Messages, Busy
  <1>2. Messages \subseteq Message
    BY <1>1 DEF Ind, TypeOK, HeldInv
  <1>3. \A m \in Messages : m.job \in Job /\ outcome[m.job] = "open"
    BY <1>1, <1>2 DEF Ind, PlaceInv, JobOf, Message
  <1>4. \A m, n \in Messages : m.job = n.job => m = n
    BY <1>1 DEF Ind, PlaceInv, JobOf
  <1> QED
    BY <1>2, <1>3, <1>4

(* So Retries reads its count.                                             *)
Read ==
    /\ \A m \in Messages : Retries[m.job] = m.retries
    /\ \A j \in Job : outcome[j] # "open" => Retries[j] = 0

LEMMA Counted == Ind => Read
  <1> SUFFICES ASSUME Ind PROVE Read
    OBVIOUS
  <1>1. ASSUME NEW m \in Messages PROVE Retries[m.job] = m.retries
    <2>1. m.job \in Job /\ outcome[m.job] = "open"
      BY OneMessage
    <2>2. (CHOOSE n \in Messages : n.job = m.job) = m
      BY OneMessage
    <2> QED
      BY <2>1, <2>2 DEF Retries
  <1>2. \A j \in Job : outcome[j] # "open" => Retries[j] = 0
    BY DEF Retries
  <1> QED
    BY <1>1, <1>2 DEF Read

LEMMA CountedNext == Ind' => Read'
  BY Counted, PTL

LEMMA RetriesType == Ind /\ OpenInv => Retries \in [Job -> 0..MaxRetries]
  <1> SUFFICES ASSUME Ind, OpenInv PROVE Retries \in [Job -> 0..MaxRetries]
    OBVIOUS
  <1>1. ASSUME NEW j \in Job PROVE Retries[j] \in 0..MaxRetries
    <2>1. CASE outcome[j] = "open"
      <3>1. PICK m \in Messages : m.job = j
        BY <2>1 DEF OpenInv
      <3>2. m.retries \in 0..MaxRetries
        BY OneMessage DEF Message
      <3> QED
        BY <3>1, <3>2, Counted DEF Read
    <2>2. CASE outcome[j] # "open"
      BY <2>2, Counted, JobsAssumption DEF Read
    <2> QED
      BY <2>1, <2>2
  <1>2. Retries = [j \in Job |-> Retries[j]]
    BY DEF Retries
  <1> QED
    BY <1>1, <1>2

(* What a step does to the messages, Retries shows.                        *)
LEMMA Stays ==
    ASSUME Ind, Ind', OpenInv, Messages' = Messages, outcome' = outcome
    PROVE  OpenInv' /\ UNCHANGED Retries
  <1>1. OpenInv'
    BY DEF OpenInv
  <1>2. UNCHANGED Retries
    BY DEF Retries
  <1> QED
    BY <1>1, <1>2

LEMMA Begins ==
    ASSUME Ind, Ind', OpenInv, NEW J \in Job, NEW new,
           new.job = J, new.retries = 0, outcome[J] = "unsent",
           Messages' = Messages \cup {new}, outcome' = [outcome EXCEPT ![J] = "open"]
    PROVE  OpenInv' /\ UNCHANGED Retries
  <1>0. outcome \in [Job -> {"unsent", "open", "done", "dead", "lost"}]
    BY DEF Ind, TypeOK
  <1>1. OpenInv'
    BY <1>0 DEF OpenInv
  <1>2. ASSUME NEW j \in Job PROVE Retries'[j] = Retries[j]
    <2>1. CASE j = J
      <3>1. Retries[j] = 0
        BY <2>1, Counted, CountedNext DEF Read
      <3>2. new \in Messages'
        OBVIOUS
      <3>3. Retries'[J] = 0
        BY <3>2, Counted, CountedNext DEF Read
      <3> QED
        BY <2>1, <3>1, <3>3
    <2>2. CASE j # J /\ outcome[j] = "open"
      <3>1. PICK m \in Messages : m.job = j
        BY <2>2 DEF OpenInv
      <3>2. Retries[j] = m.retries /\ Retries'[j] = m.retries
        BY <3>1, Counted, CountedNext DEF Read
      <3> QED
        BY <3>2
    <2>3. CASE j # J /\ outcome[j] # "open"
      <3>1. outcome'[j] = outcome[j]
        BY <1>0, <2>3
      <3>2. Retries[j] = 0 /\ Retries'[j] = 0
        BY <2>3, <3>1, Counted, CountedNext DEF Read
      <3> QED
        BY <3>2
    <2> QED
      BY <2>1, <2>2, <2>3
  <1>3. Retries = [j \in Job |-> Retries[j]] /\ Retries' = [j \in Job |-> Retries'[j]]
    BY DEF Retries
  <1> QED
    BY <1>1, <1>2, <1>3

LEMMA Repeats ==
    ASSUME Ind, Ind', OpenInv, NEW J \in Job, NEW old \in Messages, NEW again,
           old.job = J, again.job = J,
           Messages' = (Messages \ {old}) \cup {again}, outcome' = outcome
    PROVE  OpenInv' /\ Retries' = [Retries EXCEPT ![J] = again.retries]
  <1>1. OpenInv'
    BY DEF OpenInv
  <1>2. again \in Messages' /\ Retries'[J] = again.retries
    BY Counted, CountedNext DEF Read
  <1>3. ASSUME NEW j \in Job, j # J PROVE Retries'[j] = Retries[j]
    <2>1. CASE outcome[j] = "open"
      <3>1. PICK m \in Messages : m.job = j
        BY <2>1 DEF OpenInv
      <3>2. m \in Messages'
        BY <1>3, <3>1
      <3>3. Retries[j] = m.retries /\ Retries'[j] = m.retries
        BY <3>1, <3>2, Counted, CountedNext DEF Read
      <3> QED
        BY <3>3
    <2>2. CASE outcome[j] # "open"
      <3>1. Retries[j] = 0 /\ Retries'[j] = 0
        BY <2>2, Counted, CountedNext DEF Read
      <3> QED
        BY <3>1
    <2> QED
      BY <2>1, <2>2
  <1>4. Retries = [j \in Job |-> Retries[j]] /\ Retries' = [j \in Job |-> Retries'[j]]
    BY DEF Retries
  <1> QED
    BY <1>1, <1>2, <1>3, <1>4

LEMMA Ends ==
    ASSUME Ind, Ind', OpenInv, NEW J \in Job, NEW old \in Messages, NEW result,
           old.job = J, result # "open",
           Messages' = Messages \ {old}, outcome' = [outcome EXCEPT ![J] = result]
    PROVE  OpenInv' /\ Retries' = [Retries EXCEPT ![J] = 0]
  <1>0. outcome \in [Job -> {"unsent", "open", "done", "dead", "lost"}]
    BY DEF Ind, TypeOK
  <1>1. OpenInv'
    <2> SUFFICES ASSUME NEW j \in Job, outcome'[j] = "open"
                 PROVE  \E m \in Messages' : m.job = j
      BY DEF OpenInv
    <2>1. j # J /\ outcome[j] = "open"
      BY <1>0
    <2> QED
      BY <2>1 DEF OpenInv
  <1>2. Retries'[J] = 0
    BY <1>0, Counted, CountedNext DEF Read
  <1>3. ASSUME NEW j \in Job, j # J PROVE Retries'[j] = Retries[j]
    <2>0. outcome'[j] = outcome[j]
      BY <1>0, <1>3
    <2>1. CASE outcome[j] = "open"
      <3>1. PICK m \in Messages : m.job = j
        BY <2>1 DEF OpenInv
      <3>2. m \in Messages'
        BY <1>3, <3>1
      <3>3. Retries[j] = m.retries /\ Retries'[j] = m.retries
        BY <3>1, <3>2, Counted, CountedNext DEF Read
      <3> QED
        BY <3>3
    <2>2. CASE outcome[j] # "open"
      <3>1. Retries[j] = 0 /\ Retries'[j] = 0
        BY <2>0, <2>2, Counted, CountedNext DEF Read
      <3> QED
        BY <3>1
    <2> QED
      BY <2>1, <2>2
  <1>4. Retries = [j \in Job |-> Retries[j]] /\ Retries' = [j \in Job |-> Retries'[j]]
    BY DEF Retries
  <1> QED
    BY <1>1, <1>2, <1>3, <1>4

(* The messages after a process has let go of its own.                     *)
LEMMA Released ==
    ASSUME Ind, NEW w \in Proc, Busy(w), Release(w)
    PROVE  /\ held[w] \in Messages /\ held[w] \in Message /\ held[w].job = JobOf(w)
           /\ JobOf(w) \in Job /\ Retries[JobOf(w)] = held[w].retries
           /\ outcome[JobOf(w)] = "open"
           /\ broker' = broker => Messages' = Messages \ {held[w]}
           /\ \A again : broker' = broker \cup {again} =>
                 Messages' = (Messages \ {held[w]}) \cup {again}
  <1>1. held[w] \in Messages /\ held[w].job = JobOf(w)
    BY DEF Messages, Busy, JobOf
  <1>2. /\ held[w] \in Message /\ JobOf(w) \in Job /\ outcome[JobOf(w)] = "open"
        /\ Retries[JobOf(w)] = held[w].retries
    BY <1>1, OneMessage, Counted DEF Read
  <1> DEFINE mine == {held[v] : v \in {u \in Proc : at[u] # "idle"}}
             rest == {held'[v] : v \in {u \in Proc : at'[u] # "idle"}}
  <1>3. Messages = broker \cup mine /\ Messages' = broker' \cup rest
    BY DEF Messages
  <1>4. rest = mine \ {held[w]}
    <2>1. \A u \in Proc : at'[u] # "idle" <=> u # w /\ at[u] # "idle"
      BY DEF Release, Ind, TypeOK
    <2>2. \A u \in Proc : u # w => held'[u] = held[u]
      BY DEF Release, Ind, TypeOK
    <2>3. \A u \in Proc : u # w /\ at[u] # "idle" => held[u] # held[w]
      BY DEF Ind, PlaceInv, Busy, JobOf
    <2> QED
      BY <2>1, <2>2, <2>3
  <1>5. held[w] \notin broker
    BY DEF Ind, PlaceInv, JobOf
  <1> HIDE DEF mine, rest
  <1> QED
    BY <1>1, <1>2, <1>3, <1>4, <1>5

(* The except branch is what Notices lets follow an error.                 *)
LEMMA RetryMaps ==
    ASSUME Ind, Ind', OpenInv, NEW w \in Proc, Busy(w), Retry(w)
    PROVE  OpenInv' /\ Log!Again(JobOf(w))
  <1> DEFINE J == JobOf(w)
             again == [held[w] EXCEPT !.retries = @ + 1]
  <1>1. Release(w)
    BY DEF Retry
  <1>2. /\ held[w] \in Messages /\ held[w] \in Message /\ held[w].job = J
        /\ J \in Job /\ Retries[J] = held[w].retries
    BY <1>1, Released
  <1>3. again.job = J /\ again.retries = held[w].retries + 1
    BY <1>2 DEF Message
  <1>4. CASE /\ held[w].retries < MaxRetries
             /\ broker' = broker \cup {again}
             /\ outcome' = outcome
    <2> HIDE DEF again, J
    <2>1. Messages' = (Messages \ {held[w]}) \cup {again}
      BY <1>1, <1>4, Released
    <2>2. OpenInv' /\ Retries' = [Retries EXCEPT ![J] = again.retries]
      BY <1>2, <1>3, <1>4, <2>1, Repeats
    <2>3. Log!Again(J)
      BY <1>2, <1>3, <1>4, <2>2 DEF Log!Again
    <2> QED
      BY <2>2, <2>3 DEF J
  <1>5. ASSUME NEW result \in {"dead", "lost"}, broker' = broker, End(w, result)
        PROVE  OpenInv' /\ Log!End(J, result)
    <2>1. Messages' = Messages \ {held[w]} /\ outcome' = [outcome EXCEPT ![J] = result]
      BY <1>1, <1>5, Released DEF End
    <2>2. OpenInv' /\ Retries' = [Retries EXCEPT ![J] = 0]
      BY <1>2, <2>1, Ends
    <2> QED
      BY <2>1, <2>2 DEF Log!End
  <1> HIDE DEF J
  <1>6. CASE held[w].retries = MaxRetries /\ End(w, "dead") /\ UNCHANGED broker
    BY <1>2, <1>5, <1>6 DEF Log!Again, J
  <1>7. CASE Faults /\ End(w, "lost") /\ UNCHANGED broker
    BY <1>5, <1>7 DEF Log!Again, J
  <1> QED
    BY <1>4, <1>6, <1>7 DEF Retry, J

(* A step that shows in no committed row, and moves no message.            *)
LEMMA Hidden ==
    ASSUME Ind, Ind', OpenInv, Messages' = Messages,
           UNCHANGED <<Committed, outcome, notes, linked, sent, faulty>>
    PROVE  OpenInv' /\ UNCHANGED Log!vars
  <1>1. OpenInv' /\ UNCHANGED Retries
    BY Stays
  <1> QED
    BY <1>1 DEF Log!vars, Log!job, Log!kept

(* The API's steps.                                                        *)
LEMMA ApiMaps ==
    ASSUME Ind, Ind', OpenInv, Api
    PROVE  OpenInv' /\ [Log!Next]_(Log!vars)
  <1> USE JobsAssumption
  <1>1. ASSUME NEW t \in Task,
               Create(t) \/ CommitCreate(t) \/ RollbackCreate(t)
                 \/ Delete(t) \/ CommitDelete(t) \/ RollbackDelete(t)
        PROVE  OpenInv' /\ [Log!Next]_(Log!vars)
    <2>1. /\ UNCHANGED <<broker, at, held, outcome, notes, sent, faulty>>
          /\ row \in [Task -> {"none", "creating", "present", "deleting", "gone"}]
      BY <1>1 DEF Create, CommitCreate, RollbackCreate, Delete, CommitDelete,
                  RollbackDelete, Ind, TypeOK
    <2>2. Messages' = Messages
      BY <2>1 DEF Messages
    <2>3. OpenInv' /\ UNCHANGED Retries
      BY <2>1, <2>2, Stays
    <2>4. CASE Create(t) \/ Delete(t) \/ RollbackDelete(t)
      <3>1. Committed' = Committed /\ linked' = linked
        BY <2>1, <2>4 DEF Create, Delete, RollbackDelete, Committed
      <3> QED
        BY <2>1, <2>2, <3>1, Hidden
    <2>5. CASE CommitCreate(t)
      <3>1. /\ Committed[t] = "none"
            /\ Committed' = [Committed EXCEPT ![t] = "present"]
            /\ linked' = linked
        BY <2>1, <2>5 DEF CommitCreate, Committed
      <3>2. Log!Put(t)
        BY <2>1, <2>3, <2>5, <3>1 DEF CommitCreate, Log!Put, Log!job, Log!kept
      <3> QED
        BY <2>3, <3>2 DEF Log!Next
    <2>6. CASE RollbackCreate(t)
      <3>1. /\ Committed[t] = "none"
            /\ Committed' = [Committed EXCEPT ![t] = "gone"]
            /\ linked' = linked /\ Faults
        BY <2>1, <2>6 DEF RollbackCreate, Committed
      <3>2. Log!Waste(t)
        BY <2>1, <2>3, <3>1 DEF Log!Waste, Log!job, Log!kept
      <3> QED
        BY <2>3, <3>2 DEF Log!Next
    <2>7. CASE CommitDelete(t)
      <3>1. /\ Committed[t] = "present"
            /\ Committed' = [Committed EXCEPT ![t] = "gone"]
            /\ linked' = {j \in linked : About[j] # t}
        BY <2>1, <2>7 DEF CommitDelete, Committed
      <3>2. Log!Remove(t)
        BY <2>1, <2>3, <3>1 DEF Log!Remove, Log!job
      <3> QED
        BY <2>3, <3>2 DEF Log!Next
    <2> QED
      BY <1>1, <2>4, <2>5, <2>6, <2>7
  <1>2. ASSUME NEW j \in Job, Delay(j)
        PROVE  OpenInv' /\ [Log!Next]_(Log!vars)
    <2> DEFINE new == [job |-> j, retries |-> 0]
    <2>1. /\ outcome[j] = "unsent" /\ outcome' = [outcome EXCEPT ![j] = "open"]
          /\ broker' = broker \cup {new}
          /\ UNCHANGED <<row, at, held, notes, linked, sent, faulty>>
      BY <1>2 DEF Delay
    <2>2. Messages' = Messages \cup {new}
      BY <2>1 DEF Messages
    <2>3. new.job = j /\ new.retries = 0
      OBVIOUS
    <2> HIDE DEF new
    <2>4. OpenInv' /\ UNCHANGED Retries
      BY <2>1, <2>2, <2>3, Begins
    <2>5. UNCHANGED Committed
      BY <2>1 DEF Committed
    <2>6. Committed[About[j]] = "none" <=> Origin[j] = "create"
      BY <1>2 DEF Delay, Committed
    <2>7. Log!Delay(j)
      BY <2>1, <2>4, <2>5, <2>6 DEF Log!Delay, Log!kept
    <2> QED
      BY <2>4, <2>7 DEF Log!Next
  <1> QED
    BY <1>1, <1>2 DEF Api

(* The row that a commit leaves behind is one Notices counts.              *)
LEMMA Recording ==
    ASSUME Ind, NEW w \in Proc, at[w] = "commit", Recorded(JobOf(w))
    PROVE  /\ Log!Recorded(JobOf(w))
           /\ JobOf(w) \in Job /\ outcome[JobOf(w)] = "open"
  <1> USE JobsAssumption
  <1> DEFINE J == JobOf(w)
  <1>1. /\ held[w] \in Message /\ J \in Job /\ outcome[J] = "open"
    BY DEF Ind, HeldInv, PlaceInv, Busy, Message, JobOf
  <1>2. Retries[J] = held[w].retries
    BY Counted DEF Read, Messages, JobOf
  <1>3. notes[J] <= held[w].retries /\ notes[J] <= faulty[J]
    BY DEF Ind, CountInv
  <1>4. Committed[About[J]] = "present"
    BY <1>1 DEF Ind, LinkInv, TaskOf, Committed
  <1> QED
    BY <1>1, <1>2, <1>3, <1>4 DEF Recorded, Log!Recorded

(* The steps of a process that keeps its message.                          *)
LEMMA KeepMaps ==
    ASSUME Ind, Ind', OpenInv, NEW w \in Proc,
           \/ Take(w) \/ Commit(w) \/ Refresh(w)
           \/ Insert(w) /\ row[TaskOf(w)] = "present"
    PROVE  OpenInv' /\ [Log!Next]_(Log!vars)
  <1>1. UNCHANGED <<row, outcome, sent, faulty>>
    BY DEF Take, Commit, Refresh, Insert
  <1>2. UNCHANGED Committed
    BY <1>1 DEF Committed
  <1>3. Messages' = Messages
    <2>1. CASE Take(w)
      <3>1. PICK m \in broker : broker' = broker \ {m} /\ held' = [held EXCEPT ![w] = m]
        BY <2>1 DEF Take
      <3>2. at[w] = "idle" /\ at' = [at EXCEPT ![w] = "insert"]
        BY <2>1 DEF Take
      <3>3. \A v \in Proc : v # w => at'[v] = at[v] /\ held'[v] = held[v]
        BY <3>1, <3>2 DEF Ind, TypeOK
      <3>4. at'[w] # "idle" /\ held'[w] = m
        BY <3>1, <3>2 DEF Ind, TypeOK
      <3> QED
        BY <3>1, <3>2, <3>3, <3>4 DEF Messages
    <2>2. CASE Commit(w) \/ Refresh(w) \/ (Insert(w) /\ row[TaskOf(w)] = "present")
      <3>1. /\ broker' = broker /\ held' = held
            /\ at[w] # "idle"
            /\ \E place \in {"commit", "refresh", "send"} : at' = [at EXCEPT ![w] = place]
        BY <2>2 DEF Commit, Refresh, Insert
      <3>2. \A v \in Proc : at'[v] # "idle" <=> at[v] # "idle"
        BY <3>1 DEF Ind, TypeOK
      <3> QED
        BY <3>1, <3>2 DEF Messages
    <2> QED
      BY <2>1, <2>2
  <1>4. CASE UNCHANGED <<notes, linked>>
    BY <1>1, <1>2, <1>3, <1>4, Hidden
  <1>5. CASE Commit(w)
    <2>1. OpenInv' /\ UNCHANGED Retries
      BY <1>1, <1>3, Stays
    <2>2. Log!Recorded(JobOf(w)) /\ JobOf(w) \in Job /\ outcome[JobOf(w)] = "open"
      BY <1>5, Recording DEF Commit
    <2>3. Log!Note(JobOf(w))
      BY <1>1, <1>2, <2>1, <2>2 DEF Log!Note, Log!job
    <2> QED
      BY <2>1, <2>2, <2>3 DEF Log!Next
  <1> QED
    BY <1>4, <1>5 DEF Take, Insert, Refresh

(* The steps that end an attempt.                                          *)
LEMMA ReleaseMaps ==
    ASSUME Ind, Ind', OpenInv, NEW w \in Proc,
           \/ Insert(w) /\ row[TaskOf(w)] # "present"
           \/ Send(w) \/ FailBefore(w) \/ FailAfter(w) \/ Crash(w)
    PROVE  OpenInv' /\ Log!Next
  <1> USE JobsAssumption
  <1> DEFINE J == JobOf(w)
  <1>0. Busy(w) /\ Release(w)
    BY DEF Insert, Send, FailBefore, FailAfter, Crash, Retry, Busy
  <1>1. /\ held[w] \in Messages /\ held[w].job = J
        /\ J \in Job /\ outcome[J] = "open"
    BY <1>0, Released
  <1>2. UNCHANGED row /\ UNCHANGED Committed
    BY DEF Insert, Send, FailBefore, FailAfter, Crash, Committed
  <1>3. CASE Insert(w) /\ row[TaskOf(w)] # "present"
    <2>1. OpenInv' /\ Log!Again(J)
      BY <1>0, <1>3, RetryMaps DEF Insert
    <2>2. Committed[About[J]] # "present"
      BY <1>1, <1>3 DEF Insert, TaskOf, Committed
    <2>3. Log!FailBefore(J)
      BY <1>1, <1>2, <1>3, <2>1, <2>2 DEF Insert, Log!FailBefore, Log!kept
    <2> QED
      BY <1>1, <2>1, <2>3 DEF Log!Next
  <1>4. CASE FailBefore(w)
    <2>1. OpenInv' /\ Log!Again(J)
      BY <1>0, <1>4, RetryMaps DEF FailBefore
    <2>2. Log!FailBefore(J)
      BY <1>1, <1>2, <1>4, <2>1 DEF FailBefore, Log!FailBefore, Log!kept
    <2> QED
      BY <1>1, <2>1, <2>2 DEF Log!Next
  <1>5. CASE FailAfter(w)
    <2>1. OpenInv' /\ Log!Again(J)
      BY <1>0, <1>5, RetryMaps DEF FailAfter
    <2>2. Log!Recorded(J) \/ (notes[J] > 0 /\ UNCHANGED Log!kept)
      <3>1. CASE at[w] = "commit" /\ Recorded(J)
        BY <3>1, Recording
      <3>2. CASE at[w] \in {"refresh", "send"} /\ UNCHANGED <<notes, linked>>
        <4>1. notes[J] >= 1 /\ notes[J] \in Nat
          BY <1>1, <3>2 DEF Ind, CountInv, TypeOK
        <4> QED
          BY <3>2, <4>1 DEF Log!kept
      <3> QED
        BY <1>5, <3>1, <3>2 DEF FailAfter
    <2>3. Log!FailAfter(J)
      BY <1>1, <1>2, <1>5, <2>1, <2>2 DEF FailAfter, Log!FailAfter
    <2> QED
      BY <1>1, <2>1, <2>3 DEF Log!Next
  <1>6. ASSUME NEW result \in {"done", "lost"}, broker' = broker, End(w, result)
        PROVE  OpenInv' /\ Log!End(J, result)
    <2>1. Messages' = Messages \ {held[w]} /\ outcome' = [outcome EXCEPT ![J] = result]
      BY <1>0, <1>6, Released DEF End
    <2>2. OpenInv' /\ Retries' = [Retries EXCEPT ![J] = 0]
      BY <1>1, <2>1, Ends
    <2> QED
      BY <2>1, <2>2 DEF Log!End
  <1>7. CASE Send(w)
    <2>1. OpenInv' /\ Log!End(J, "done")
      BY <1>6, <1>7 DEF Send
    <2>2. notes[J] >= 1 /\ notes[J] \in Nat /\ sent[J] = 0
      BY <1>1, <1>7 DEF Send, Ind, CountInv, TypeOK
    <2>3. sent' = [sent EXCEPT ![J] = 1]
      BY <1>1, <1>7, <2>2 DEF Send, Ind, TypeOK
    <2>4. Log!Deliver(J)
      BY <1>1, <1>2, <1>7, <2>1, <2>2, <2>3 DEF Send, Log!Deliver, Log!kept
    <2> QED
      BY <1>1, <2>1, <2>4 DEF Log!Next
  <1>8. CASE Crash(w)
    <2>1. OpenInv' /\ Log!End(J, "lost")
      BY <1>6, <1>8 DEF Crash
    <2>2. Log!FailBefore(J)
      BY <1>1, <1>2, <1>8, <2>1 DEF Crash, Log!FailBefore, Log!Again, Log!kept
    <2> QED
      BY <1>1, <2>1, <2>2 DEF Log!Next
  <1> QED
    BY <1>3, <1>4, <1>5, <1>7, <1>8

(* Every step is one of Notices, or shows nothing.                         *)
LEMMA StepMaps ==
    Ind /\ Ind' /\ OpenInv /\ [Next]_vars => OpenInv' /\ [Log!Next]_(Log!vars)
  <1> SUFFICES ASSUME Ind, Ind', OpenInv, [Next]_vars
               PROVE  OpenInv' /\ [Log!Next]_(Log!vars)
    OBVIOUS
  <1>1. CASE Api
    BY <1>1, ApiMaps
  <1>2. ASSUME NEW w \in Proc, Work(w) \/ FailBefore(w) \/ FailAfter(w) \/ Crash(w)
        PROVE  OpenInv' /\ [Log!Next]_(Log!vars)
    BY <1>2, KeepMaps, ReleaseMaps DEF Work
  <1>3. CASE UNCHANGED vars
    <2>1. Messages' = Messages /\ Committed' = Committed
      BY <1>3 DEF vars, Messages, Committed
    <2> QED
      BY <1>3, <2>1, Hidden DEF vars
  <1> QED
    BY <1>1, <1>2, <1>3 DEF Next

(* No open job is ever without a message, in the broker or with a process: *)
(* only its end, or the end of the process that has it, disposes of one.   *)
THEOREM OpenJobsHaveMessages == Spec => []OpenInv
  <1>1. Init => OpenInv
    BY DEF Init, OpenInv
  <1>2. Ind /\ Ind' /\ OpenInv /\ [Next]_vars => OpenInv'
    BY StepMaps
  <1> QED
    BY <1>1, <1>2, IndInvariant, PTL DEF Spec

(* The jobs implement Notices: seen from the committed rows, the           *)
(* deliveries and the state of a job, nothing happens that Notices does not*)
(* allow, whatever fails and however attempts and requests interleave.     *)
THEOREM ImplementsNotices == Spec => IsNotices
  <1>1. Init => Log!Init
    <2> SUFFICES ASSUME Init PROVE Log!Init
      OBVIOUS
    <2>1. Committed = row
      BY DEF Init, Committed
    <2>2. Retries = [j \in Job |-> 0]
      BY DEF Init, Retries
    <2> QED
      BY <2>1, <2>2 DEF Init, Log!Init
  <1>2. Ind /\ Ind' /\ OpenInv /\ [Next]_vars => [Log!Next]_(Log!vars)
    BY StepMaps
  <1> QED
    BY <1>1, <1>2, IndInvariant, OpenJobsHaveMessages, PTL DEF Spec, IsNotices, Log!Spec
=============================================================================
