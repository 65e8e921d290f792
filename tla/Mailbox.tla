------------------------------- MODULE Mailbox -------------------------------
(***************************************************************************)
(* What the inbox promises whoever looks only at committed rows and at the *)
(* answers: a marking, an insertion or a deletion takes effect in one step,*)
(* the one in which it is answered, and wholly.  A marking makes read what *)
(* its SELECT has found and changes nothing else; an insertion adds a      *)
(* notification about its task, or about every task that its SELECT has    *)
(* found, and all of these are still there; a deletion takes its tasks out *)
(* of all notifications and changes nothing else; a request that fails or  *)
(* finds nothing changes nothing.  There are no locks here.                *)
(***************************************************************************)

CONSTANTS Req, Note, Task, Old, Recipient, About, Calls, None

VARIABLES
    there,      \* the notifications
    row,
    gone,       \* the tasks that are deleted
    call,
    found,      \* what the SELECT of a marking, or of an insertion, has found:
                \* one set, or none yet
    answer      \* "none" until there is one

vars == <<there, row, gone, call, found, answer>>

Open(r, kinds) == call[r].kind \in kinds /\ answer[r] = "none"

Reply(r, result) == answer' = [answer EXCEPT ![r] = result]

(* A scan finds the tasks that are there, a job does not look.             *)
FindTasks(r) ==
    /\ Open(r, {"notify", "scan"}) /\ found[r] = {}
    /\ found' = [found EXCEPT ![r] =
          {{n \in call[r].notes : call[r].kind = "scan" => About[n] \notin gone}}]
    /\ UNCHANGED <<there, row, gone, call, answer>>

Insert(r) ==
    /\ Open(r, {"notify", "scan"})
    /\ \E S \in found[r] : /\ \A n \in S : About[n] \notin gone
                            /\ there' = there \cup S
    /\ Reply(r, "ok")
    /\ UNCHANGED <<row, gone, call, found>>

Mine(r) == {n \in there : Recipient[n] = call[r].user}

(* The SELECT of a marking.                                                *)
FindAll(r) ==
    /\ Open(r, {"mark_all"}) /\ found[r] = {}
    /\ found' = [found EXCEPT ![r] = {{n \in Mine(r) : ~row[n].read}}]
    /\ UNCHANGED <<there, row, gone, call, answer>>

FindOne(r) ==
    /\ Open(r, {"mark"}) /\ found[r] = {}
    /\ found' = [found EXCEPT ![r] = {Mine(r) \cap {call[r].note}}]
    /\ IF call[r].note \in Mine(r) THEN UNCHANGED answer ELSE Reply(r, "missing")
    /\ UNCHANGED <<there, row, gone, call>>

Mark(r) ==
    /\ Open(r, {"mark", "mark_all"})
    /\ \E S \in found[r] :
          row' = [n \in Note |-> IF n \in S THEN [row[n] EXCEPT !.read = TRUE] ELSE row[n]]
    /\ Reply(r, "ok")
    /\ UNCHANGED <<there, gone, call, found>>

Delete(r) ==
    /\ Open(r, {"delete_task", "delete_project"})
    /\ gone' = gone \cup call[r].tasks
    /\ row' = [n \in Note |->
          IF n \in there /\ row[n].link \in call[r].tasks
          THEN [row[n] EXCEPT !.link = None] ELSE row[n]]
    /\ Reply(r, "ok")
    /\ UNCHANGED <<there, call, found>>

NotFound(r) ==
    /\ \/ Open(r, {"delete_task"}) /\ call[r].tasks \subseteq gone
       \/ /\ Open(r, {"delete_project"})
          /\ \E s \in Req : call[s] = call[r] /\ answer[s] = "ok"
    /\ Reply(r, "missing")
    /\ UNCHANGED <<there, row, gone, call, found>>

Refuse(r) ==
    /\ Open(r, {"mark", "mark_all", "notify", "scan", "delete_task", "delete_project"})
    /\ Reply(r, "error")
    /\ UNCHANGED <<there, row, gone, call, found>>

Init ==
    /\ there = Old
    /\ row = [n \in Note |-> [read |-> FALSE, link |-> About[n]]]
    /\ gone = {}
    /\ call \in [Req -> UNION {Calls[r] : r \in Req}]
    /\ \A r \in Req : call[r] \in Calls[r]
    /\ found = [r \in Req |-> {}]
    /\ answer = [r \in Req |-> "none"]

Next ==
    \E r \in Req : \/ FindTasks(r) \/ Insert(r) \/ FindAll(r) \/ FindOne(r) \/ Mark(r)
                   \/ Delete(r) \/ NotFound(r) \/ Refuse(r)

Spec == Init /\ [][Next]_vars
=============================================================================
