------------------------- MODULE OverdueScan_proofs -------------------------
(***************************************************************************)
(* What OverdueScan guarantees for any tasks, users and number of worker   *)
(* processes.  A process has in its session only notifications that it has *)
(* not committed before, or whose task is gone and stays so; and what is   *)
(* already on record when it is in a session got there since.              *)
(***************************************************************************)
EXTENDS OverdueScan, TLAPS

(* A process that checks has something to check; an idle one has nothing   *)
(* in its session.                                                         *)
PlaceInv ==
    \A w \in Proc : /\ at[w] = "check" => visiting[w] \in Notice
                    /\ at[w] = "idle" => batch[w] = {}

(* What a process has added it has not committed before.                   *)
NewInv ==
    \A w \in Proc : \A n \in batch[w] : row[n[1]] # NoRow => notes[<<n, w>>] = 0

Ind == TypeOK /\ PlaceInv /\ NewInv /\ OncePerProcess /\ RepeatsOnlyRaces

(* The counts are numbers, pair by pair.                                   *)
LEMMA Counts ==
    ASSUME TypeOK, NEW n \in Notice, NEW w \in Proc PROVE notes[<<n, w>>] \in Nat
  <1>1. <<n, w>> \in Notice \X Proc
    OBVIOUS
  <1> QED
    BY <1>1 DEF TypeOK

(* Tasks that are gone stay so, and no step of the API touches a scan.     *)
LEMMA ApiInd == Ind /\ Api => Ind'
  <1> SUFFICES ASSUME Ind, Api PROVE Ind'
    OBVIOUS
  <1> USE ProjectsAssumption, RowsAssumption, MarkersAssumption DEF Ind
  <1>1. /\ projects' \subseteq Project
        /\ row' \in [Task -> Row \cup {NoRow}]
        /\ \A t \in Task : row[t] = NoRow => row'[t] = NoRow
        /\ UNCHANGED <<scan, notes, owed, raced>>
    <2>1. ASSUME NEW t \in Task, Change(t) PROVE <1>1!:
      BY <2>1 DEF Change, TypeOK
    <2>2. ASSUME NEW t \in Task, DeleteTask(t) PROVE <1>1!:
      BY <2>2 DEF DeleteTask, TypeOK
    <2>3. ASSUME NEW p \in Project, DeleteProject(p) PROVE <1>1!:
      BY <2>3 DEF DeleteProject, TypeOK
    <2> QED
      BY <2>1, <2>2, <2>3 DEF Api
  <1>2. TypeOK' /\ PlaceInv' /\ OncePerProcess'
    BY <1>1 DEF TypeOK, PlaceInv, OncePerProcess, scan
  <1>3. \A w \in Proc : \A n \in batch'[w] :
            n \in batch[w] /\ n[1] \in Task /\ (row'[n[1]] # NoRow => row[n[1]] # NoRow)
    BY <1>1 DEF TypeOK, Notice, scan
  <1>4. NewInv'
    BY <1>1, <1>3 DEF NewInv
  <1>5. RepeatsOnlyRaces'
    BY <1>1, <1>3 DEF RepeatsOnlyRaces, Exists, Noted
  <1> QED
    BY <1>2, <1>4, <1>5

(* The steps of a scan.                                                    *)
LEMMA ScanInd ==
    ASSUME Ind, NEW w \in Proc, Begin(w) \/ Step(w) \/ Abort(w)
    PROVE  Ind'
  <1> USE ProjectsAssumption, RowsAssumption, MarkersAssumption DEF Ind
  <1>1. CASE Begin(w)
    <2> USE <1>1 DEF Begin
    <2>1. \A t \in Overdue : <<t, Recipient(t, row[t])>> \in Notice
      BY DEF Overdue, Recipient, TypeOK, Row, Notice
    <2>2. TypeOK'
      BY <2>1 DEF TypeOK, database
    <2>3. PlaceInv' /\ NewInv' /\ OncePerProcess' /\ RepeatsOnlyRaces'
      BY DEF PlaceInv, NewInv, OncePerProcess, RepeatsOnlyRaces, Exists, Noted,
             TypeOK, database
    <2> QED
      BY <2>2, <2>3
  <1>2. CASE Visit(w)
    <2>1. PICK n \in todo[w] :
            /\ todo' = [todo EXCEPT ![w] = @ \ {n}]
            /\ \/ /\ visiting' = [visiting EXCEPT ![w] = n]
                  /\ last' = [last EXCEPT ![w] = ProjectOf[n[1]]]
                  /\ at' = [at EXCEPT ![w] = "check"]
               \/ /\ last' = [last EXCEPT ![w] = None]
                  /\ UNCHANGED <<at, visiting>>
      BY <1>2 DEF Visit
    <2>2. at[w] = "visit" /\ UNCHANGED <<database, batch, notes, owed, raced>>
      BY <1>2 DEF Visit
    <2>3. n \in Notice /\ ProjectOf[n[1]] \in Project
      BY <2>1 DEF TypeOK, Notice
    <2>4. TypeOK'
      <3>1. last' \in [Proc -> Project \cup {None}]
        BY <2>1, <2>3 DEF TypeOK
      <3>2. visiting' \in [Proc -> Notice \cup {NoNotice}]
        BY <2>1, <2>3 DEF TypeOK
      <3>3. todo' \in [Proc -> SUBSET Notice] /\ at' \in [Proc -> {"idle", "visit", "check"}]
        BY <2>1 DEF TypeOK
      <3> QED
        BY <2>2, <3>1, <3>2, <3>3 DEF TypeOK, database
    <2>5. PlaceInv'
      BY <2>1, <2>2, <2>3 DEF PlaceInv, TypeOK
    <2>6. NewInv' /\ OncePerProcess' /\ RepeatsOnlyRaces'
      BY <2>2 DEF NewInv, OncePerProcess, RepeatsOnlyRaces, Exists, Noted, database
    <2> QED
      BY <2>4, <2>5, <2>6
  <1>3. CASE Check(w)
    <2> DEFINE n == visiting[w]
    <2>1. /\ at[w] = "check" /\ n \in Notice
          /\ at' = [at EXCEPT ![w] = "visit"]
          /\ visiting' = [visiting EXCEPT ![w] = NoNotice]
          /\ UNCHANGED <<database, todo, last, notes, raced>>
      BY <1>3 DEF Check, PlaceInv
    <2>2. \/ UNCHANGED <<batch, owed>>
          \/ /\ ~Exists(n)
             /\ batch' = [batch EXCEPT ![w] = @ \cup {n}]
             /\ owed' = owed \cup {n}
      BY <1>3 DEF Check
    <2> HIDE DEF n
    <2>3. TypeOK'
      BY <2>1, <2>2 DEF TypeOK, database
    <2>4. PlaceInv' /\ OncePerProcess'
      BY <2>1, <2>2 DEF PlaceInv, OncePerProcess, TypeOK
    <2>5. \A v \in Proc : \A m \in batch'[v] :
             m \in batch[v] \/ (v = w /\ m = n /\ ~Exists(m))
      BY <2>2 DEF TypeOK
    <2>6. ~Exists(n) => row[n[1]] = NoRow \/ notes[<<n, w>>] = 0
      <3>1. notes[<<n, w>>] \in Nat
        BY <2>1, Counts
      <3>2. CASE ~(notes[<<n, w>>] > 0)
        BY <3>1, <3>2
      <3>3. CASE notes[<<n, w>>] > 0
        BY <3>3 DEF Exists, Noted
      <3> QED
        BY <3>2, <3>3
    <2>7. NewInv'
      BY <2>1, <2>5, <2>6 DEF NewInv, database
    <2>8. RepeatsOnlyRaces'
      BY <2>1, <2>5 DEF RepeatsOnlyRaces, Exists, Noted, database
    <2> QED
      BY <2>3, <2>4, <2>7, <2>8
  <1>4. CASE Commit(w) \/ Abort(w)
    <2>1. /\ at' = [at EXCEPT ![w] = "idle"]
          /\ todo' = [todo EXCEPT ![w] = {}]
          /\ visiting' = [visiting EXCEPT ![w] = NoNotice]
          /\ last' = [last EXCEPT ![w] = None]
          /\ batch' = [batch EXCEPT ![w] = {}]
          /\ UNCHANGED <<projects, row>>
      BY <1>4 DEF Commit, Abort, Finish, database
    <2>2. \A v \in Proc \ {w} : batch'[v] = batch[v]
      BY <2>1 DEF TypeOK
    <2>3. batch'[w] = {}
      BY <2>1 DEF TypeOK
    <2>4. PlaceInv'
      BY <2>1 DEF PlaceInv, TypeOK
    <2>5. CASE /\ raced' = [raced EXCEPT ![w] = {}]
               /\ UNCHANGED <<notes, owed>>
      <3>1. TypeOK'
        BY <2>1, <2>5 DEF TypeOK
      <3>2. NewInv' /\ OncePerProcess'
        BY <2>1, <2>2, <2>3, <2>5 DEF NewInv, OncePerProcess
      <3>3. RepeatsOnlyRaces'
        BY <2>1, <2>2, <2>3, <2>5 DEF RepeatsOnlyRaces, Exists, Noted, TypeOK
      <3> QED
        BY <2>4, <3>1, <3>2, <3>3
    <2>6. CASE /\ \A n \in batch[w] : row[n[1]] # NoRow
               /\ notes' = [k \in Notice \X Proc |->
                              IF k[2] = w /\ k[1] \in batch[w] THEN notes[k] + 1 ELSE notes[k]]
               /\ owed' = owed \ batch[w]
               /\ raced' = [v \in Proc |-> CASE v = w -> {}
                                            [] v # w /\ at[v] = "idle" -> raced[v]
                                            [] OTHER -> raced[v] \cup batch[w]]
      <3>1. \A n \in Notice, v \in Proc :
              notes'[<<n, v>>] = IF v = w /\ n \in batch[w] THEN notes[<<n, v>>] + 1 ELSE notes[<<n, v>>]
        BY <2>6
      <3>2. \A v \in Proc : raced'[v] \in SUBSET Notice
        BY <2>6 DEF TypeOK
      <3>3. notes' \in [Notice \X Proc -> Nat]
        BY <2>6 DEF TypeOK
      <3>4. raced' \in [Proc -> SUBSET Notice]
        BY <2>6, <3>2
      <3>5. TypeOK'
        BY <2>1, <2>6, <3>3, <3>4 DEF TypeOK
      <3>6. NewInv'
        <4> SUFFICES ASSUME NEW v \in Proc, NEW n \in batch'[v], row'[n[1]] # NoRow
                     PROVE  notes'[<<n, v>>] = 0
          BY DEF NewInv
        <4>1. v # w /\ n \in batch[v] /\ n \in Notice
          BY <2>2, <2>3 DEF TypeOK
        <4>2. notes[<<n, v>>] = 0
          BY <2>1, <4>1 DEF NewInv
        <4> QED
          BY <3>1, <4>1, <4>2
      <3>7. OncePerProcess'
        <4> SUFFICES ASSUME NEW k \in Notice \X Proc
                     PROVE  notes'[k] <= 1
          BY DEF OncePerProcess
        <4>1. CASE k[2] = w /\ k[1] \in batch[w]
          <5>1. notes[<<k[1], w>>] = 0
            BY <2>6, <4>1 DEF NewInv
          <5>2. k = <<k[1], w>>
            BY <4>1
          <5>3. notes[k] = 0
            BY <5>1, <5>2
          <5> QED
            BY <2>6, <4>1, <5>3
        <4>2. CASE ~(k[2] = w /\ k[1] \in batch[w])
          BY <2>6, <4>2 DEF OncePerProcess
        <4> QED
          BY <4>1, <4>2
      <3>8. RepeatsOnlyRaces'
        <4> SUFFICES ASSUME NEW v \in Proc, NEW n \in batch'[v], Exists(n)'
                     PROVE  n \in raced'[v]
          BY DEF RepeatsOnlyRaces
        <4>1. v # w /\ n \in batch[v] /\ n \in Notice
          BY <2>2, <2>3 DEF TypeOK
        <4>2. at[v] # "idle"
          BY <4>1 DEF PlaceInv
        <4>3. raced'[v] = raced[v] \cup batch[w]
          BY <2>6, <4>1, <4>2
        <4>4. PICK u \in Proc : notes'[<<n, u>>] > 0
          BY DEF Exists, Noted
        <4>5. n \in batch[w] \/ notes[<<n, u>>] > 0
          BY <3>1, <4>1, <4>4
        <4>6. Exists(n) \/ n \in batch[w]
          BY <2>1, <4>5 DEF Exists, Noted
        <4> QED
          BY <4>1, <4>3, <4>6 DEF RepeatsOnlyRaces
      <3> QED
        BY <2>4, <3>5, <3>6, <3>7, <3>8
    <2> QED
      BY <1>4, <2>5, <2>6 DEF Commit, Abort
  <1> QED
    BY <1>1, <1>2, <1>3, <1>4 DEF Step

(* The invariant holds in every state of a behaviour.                      *)
THEOREM IndInvariant == Spec => []Ind
  <1>1. Init => Ind
    <2> SUFFICES ASSUME Init PROVE Ind
      OBVIOUS
    <2>1. TypeOK
      BY DEF Init, TypeOK
    <2>2. PlaceInv /\ NewInv /\ OncePerProcess /\ RepeatsOnlyRaces
      BY DEF Init, PlaceInv, NewInv, OncePerProcess, RepeatsOnlyRaces
    <2> QED
      BY <2>1, <2>2 DEF Ind
  <1>2. Ind /\ [Next]_vars => Ind'
    <2> SUFFICES ASSUME Ind, [Next]_vars PROVE Ind'
      OBVIOUS
    <2>1. CASE Api
      BY <2>1, ApiInd
    <2>2. CASE \E w \in Proc : Begin(w) \/ Step(w) \/ Abort(w)
      BY <2>2, ScanInd
    <2>3. CASE UNCHANGED vars
      BY <2>3 DEF vars, database, scan, Ind, TypeOK, PlaceInv, NewInv,
                  OncePerProcess, RepeatsOnlyRaces, Exists, Noted
    <2> QED
      BY <2>1, <2>2, <2>3 DEF Next
  <1> QED
    BY <1>1, <1>2, PTL DEF Spec

(* Every variable keeps its type.                                          *)
THEOREM TypeCorrect == Spec => []TypeOK
  <1>1. Ind => TypeOK
    BY DEF Ind
  <1> QED
    BY <1>1, IndInvariant, PTL

(* A worker process notifies a user of an overdue task at most once, with  *)
(* any number of processes beside it and whatever fails.                   *)
THEOREM NoRepeatByOneProcess == Spec => []OncePerProcess
  <1>1. Ind => OncePerProcess
    BY DEF Ind
  <1> QED
    BY <1>1, IndInvariant, PTL

(* A repeated notification is always that of a scan that overlapped the one*)
(* which committed the first.                                              *)
THEOREM RepeatsAreRaces == Spec => []RepeatsOnlyRaces
  <1>1. Ind => RepeatsOnlyRaces
    BY DEF Ind
  <1> QED
    BY <1>1, IndInvariant, PTL
=============================================================================
