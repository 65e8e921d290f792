---------------------------- MODULE Inbox_proofs ----------------------------
(***************************************************************************)
(* What Inbox guarantees for any number of requests, users, notifications  *)
(* and tasks.  The invariant says what the holder of a lock is about, what *)
(* it has written that nobody else can see, and in which order it goes on. *)
(***************************************************************************)
EXTENDS Inbox, TLAPS, FiniteSetTheorems, WellFoundedInduction

(* A request that is not between its SELECT and its commit has nothing to  *)
(* write; a marking deletes nothing and updates what it has loaded, an     *)
(* insertion adds what it has found.                                       *)
WorkOf(r) ==
    /\ pc[r] # "flush" => todo[r] = {} /\ doomed[r] = {} /\ want[r] = None
    /\ pc[r] = "flush" => Marks(r) \/ Deletes(r) \/ Inserts(r)
    /\ pc[r] \in {"count", "select"} => ~Marks(r) /\ ~Inserts(r)
    /\ ~Inserts(r) => todo[r] \subseteq there
    /\ Inserts(r) => /\ doomed[r] = {} /\ todo[r] \subseteq loaded[r]
                     /\ loaded[r] \subseteq call[r].notes
    /\ want[r] # None => want[r] \in todo[r]
    /\ answer[r] # "none" => pc[r] = "end"
    /\ Marks(r) => /\ doomed[r] = {}
                   /\ todo[r] \subseteq loaded[r]
                   /\ \A n \in loaded[r] :
                         /\ Recipient[n] = call[r].user
                         /\ call[r].kind = "mark" => n = call[r].note

WorkInv == \A r \in Req : WorkOf(r)

(* Locks are held by requests that have not ended, on rows that are there. *)
LockInv ==
    /\ \A n \in Note : holder[n] # Nobody =>
          /\ pc[holder[n]] = "flush" /\ n \in there /\ ~Inserts(holder[n])
    /\ \A t \in Task : grip[t] # Nobody =>
          /\ pc[grip[t]] = "flush" /\ Deletes(grip[t]) /\ t \notin gone

(* A task that somebody has inserted a notification about, and not yet     *)
(* committed, is there, and nobody is deleting it.                         *)
ShareInv ==
    \A r \in Req : Inserts(r) /\ pc[r] = "flush" =>
        \A n \in loaded[r] \ todo[r] : About[n] \notin gone /\ grip[About[n]] = Nobody

(* A draft differs from its row by what its holder is for.                 *)
DraftInv ==
    \A n \in Note :
        /\ row[n].read => draft[n].read
        /\ n \notin there => ~row[n].read /\ row[n].link = About[n]
        /\ holder[n] # Nobody /\ Deletes(holder[n]) =>
              draft[n].link = None /\ draft[n].read = row[n].read
        /\ holder[n] # Nobody /\ Marks(holder[n]) =>
              draft[n].link = row[n].link /\ n \in loaded[holder[n]]

(* A marking has read, written or still to write what it has loaded.       *)
MarkInv ==
    \A r \in Req : Marks(r) /\ pc[r] = "flush" =>
        \A n \in loaded[r] :
            row[n].read \/ n \in todo[r] \/ (holder[n] = r /\ draft[n].read)

(* A deletion has updated or still to update what refers to its tasks.     *)
LinkInv ==
    \A t \in Task : grip[t] # Nobody =>
        \A n \in there : row[n].link = t => n \in todo[grip[t]] \/ holder[n] = grip[t]

(* It updates nothing else.                                                *)
MineInv ==
    \A r \in Req : Deletes(r) =>
        \A n \in Note : n \in todo[r] \/ holder[n] = r =>
            row[n].link \in Task /\ grip[row[n].link] = r

(* A row that is still to be updated is not locked yet.                    *)
TodoInv == \A r \in Req : \A n \in todo[r] : holder[n] # r

(* Locks are taken in the order of the ids.                                *)
OrderInv ==
    \A r \in Req :
        /\ Marks(r) => \A m \in todo[r] :
              /\ \A n \in Note : holder[n] = r => n < m
              /\ want[r] # None => want[r] <= m
        /\ \A t \in Task : grip[t] = r => \A d \in doomed[r] : t < d

Ind ==
    /\ TypeOK /\ WorkInv /\ LockInv /\ DraftInv /\ MarkInv /\ LinkInv /\ MineInv
    /\ TodoInv /\ OrderInv /\ ShareInv /\ ReadIffToldSo /\ NoDanglingLinks

(* What is assumed of the constants, as far as the steps need it.          *)
LEMMA Basics ==
    /\ Note \subseteq Nat /\ Task \subseteq Nat /\ About \in [Note -> Task]
    /\ None \notin Nat /\ Nobody \notin Req
  BY InboxAssumption

(* An update at one place keeps the type of a function.                    *)
LEMMA Update ==
    ASSUME NEW S, NEW T, NEW f \in [S -> T], NEW x \in S, NEW e \in T
    PROVE  [f EXCEPT ![x] = e] \in [S -> T]
  OBVIOUS

(* The types, place by place.                                              *)
PointTypes ==
    /\ there \subseteq Note
    /\ \A n \in Note : holder[n] \in Req \cup {Nobody} /\ row[n].link \in Task \cup {None}
    /\ \A t \in Task : grip[t] \in Req \cup {Nobody}
    /\ \A r \in Req : /\ loaded[r] \subseteq Note /\ todo[r] \subseteq Note
                      /\ doomed[r] \subseteq Task /\ want[r] \in Note \cup {None}

LEMMA Points ==
    ASSUME TypeOK PROVE PointTypes
  <1>1. \A n \in Note : row[n] \in Row
    BY DEF TypeOK
  <1> QED
    BY <1>1 DEF TypeOK, PointTypes, Row

(* No request is of two kinds.                                             *)
LEMMA Kinds ==
    ASSUME NEW r \in Req
    PROVE  ~(Marks(r) /\ Deletes(r)) /\ ~(Inserts(r) /\ (Marks(r) \/ Deletes(r)))
  BY DEF Marks, Deletes, Inserts

(* What a request asks for does not change.                                *)
LEMMA SameKind ==
    ASSUME call' = call, NEW r \in Req
    PROVE  /\ Marks(r)' <=> Marks(r)
           /\ Deletes(r)' <=> Deletes(r)
           /\ Inserts(r)' <=> Inserts(r)
  BY DEF Marks, Deletes, Inserts

(* What the history of a listing may come to hold.                         *)
LEMMA WatchType ==
    ASSUME moved \in [Req -> SUBSET {"left", "added", "pushed"}], Watch
    PROVE  moved' \in [Req -> SUBSET {"left", "added", "pushed"}]
  <1>1. ASSUME NEW r \in Req PROVE moved'[r] \subseteq {"left", "added", "pushed"}
    <2>1. moved[r] \subseteq {"left", "added", "pushed"}
      OBVIOUS
    <2>2. moved'[r] \subseteq moved[r] \cup {"left"} \cup {"added", "pushed"}
      BY DEF Watch
    <2> QED
      BY <2>1, <2>2
  <1>2. moved' = [r \in Req |-> moved'[r]]
    BY DEF Watch
  <1> QED
    BY <1>1, <1>2

(* A listing is a finite set of notifications.                             *)
LEMMA ListingType ==
    ASSUME TypeOK, NEW r \in Req
    PROVE  Listing(r) \subseteq Note /\ Cardinality(Listing(r)) \in Nat
  <1>0. MaxId \in Int /\ 0 \in Int /\ Note \subseteq 0..MaxId
    BY InboxAssumption
  <1>1. Listing(r) \subseteq Note /\ Note \subseteq 0..MaxId
    BY <1>0 DEF Listing, TypeOK
  <1>2. IsFiniteSet(0..MaxId)
    BY <1>0, FS_Interval
  <1>3. IsFiniteSet(Listing(r))
    BY <1>1, <1>2, FS_Subset
  <1> QED
    BY <1>1, <1>3, FS_CardinalityType

(* The SELECT of a worker.                                                 *)
LEMMA BeginInsertInd ==
    ASSUME Ind, NEW r \in Req, BeginInsert(r) PROVE Ind'
  <1> USE Basics DEF Ind, Places
  <1>1. \A q \in Req : /\ (Marks(q)' <=> Marks(q)) /\ (Deletes(q)' <=> Deletes(q))
                       /\ (Inserts(q)' <=> Inserts(q)) /\ ~(Marks(q) /\ Deletes(q))
                       /\ ~(Inserts(q) /\ (Marks(q) \/ Deletes(q)))
    BY SameKind, Kinds DEF BeginInsert, locks, pages
  <1>t. PointTypes /\ (call' = call)
    BY Points DEF BeginInsert, locks, pages
  <1>a. call[r].notes \subseteq Note
    BY DEF BeginInsert, Inserts, TypeOK, Call
  <1> DEFINE T == Added(r)
  <1>b. T \in SUBSET Note /\ T \subseteq call[r].notes
    BY <1>a DEF Added
  <1>c. /\ pc' = [pc EXCEPT ![r] = "flush"]
        /\ loaded' = [loaded EXCEPT ![r] = T]
        /\ todo' = [todo EXCEPT ![r] = T]
    BY DEF BeginInsert
  <1> HIDE DEF T
  <1>2. /\ pc[r] = "idle" /\ Inserts(r) /\ pc'[r] = "flush" /\ loaded'[r] = todo'[r]
        /\ loaded'[r] = T
        /\ \A q \in Req \ {r} :
              pc'[q] = pc[q] /\ loaded'[q] = loaded[q] /\ todo'[q] = todo[q]
        /\ UNCHANGED <<there, row, gone, holder, draft, grip, call, answer, doomed, want>>
    BY <1>c DEF BeginInsert, locks, pages, TypeOK
  <1>3. TypeOK'
    BY <1>b, <1>c DEF BeginInsert, locks, pages, TypeOK
  <1>4. WorkInv'
    <2>1. WorkOf(r)'
      BY <1>1, <1>2, <1>b, <1>t DEF WorkInv, WorkOf
    <2>2. ASSUME NEW q \in Req \ {r} PROVE WorkOf(q)'
      BY <1>1, <1>2, <1>t DEF WorkInv, WorkOf
    <2> QED
      BY <2>1, <2>2 DEF WorkInv
  <1>5. LockInv'
    BY <1>1, <1>2, <1>t DEF LockInv, PointTypes
  <1>6. DraftInv'
    BY <1>1, <1>2, <1>t DEF DraftInv, PointTypes
  <1>7. MarkInv'
    BY <1>1, <1>2, <1>t DEF MarkInv
  <1>8. LinkInv'
    BY <1>1, <1>2, <1>t DEF LinkInv, LockInv, PointTypes
  <1>9. MineInv'
    BY <1>1, <1>2, <1>t DEF MineInv
  <1>10. OrderInv'
    BY <1>1, <1>2, <1>t DEF OrderInv
  <1>11. ReadIffToldSo'
    BY <1>1, <1>2, <1>t DEF ReadIffToldSo
  <1>12. NoDanglingLinks'
    BY <1>2 DEF NoDanglingLinks
  <1>20. TodoInv'
    <2>1. \A n \in Note : holder[n] # r
      BY <1>2 DEF LockInv
    <2> QED
      BY <1>2, <1>b, <2>1 DEF TodoInv
  <1>21. ShareInv'
    <2> SUFFICES ASSUME NEW q \in Req, Inserts(q), pc'[q] = "flush",
                        NEW n \in loaded'[q] \ todo'[q]
                 PROVE  About[n] \notin gone /\ grip[About[n]] = Nobody
      BY <1>1, <1>2 DEF ShareInv
    <2>1. q # r
      BY <1>2
    <2> QED
      BY <1>2, <2>1 DEF ShareInv
  <1> QED
    BY <1>3, <1>4, <1>5, <1>6, <1>7, <1>8, <1>9, <1>10, <1>11, <1>12, <1>20, <1>21

(* The SELECT of a marking.                                                *)
LEMMA BeginMarkInd ==
    ASSUME Ind, NEW r \in Req, BeginMark(r) PROVE Ind'
  <1> USE Basics DEF Ind, Places
  <1>1. \A q \in Req : /\ (Marks(q)' <=> Marks(q)) /\ (Deletes(q)' <=> Deletes(q))
                       /\ (Inserts(q)' <=> Inserts(q)) /\ ~(Marks(q) /\ Deletes(q))
                       /\ ~(Inserts(q) /\ (Marks(q) \/ Deletes(q)))
    BY SameKind, Kinds DEF BeginMark, End, locks, flushes, pages
  <1>t. PointTypes /\ (call' = call)
    BY Points DEF BeginMark, End, locks, flushes, pages
  <1>a. /\ Find(r) \subseteq there
        /\ \A n \in Find(r) : /\ Recipient[n] = call[r].user
                              /\ call[r].kind = "mark" => n = call[r].note
    BY DEF Find
  <1>2. /\ pc[r] = "idle" /\ Marks(r)
        /\ \A n \in Find(r) : /\ n \in there /\ Recipient[n] = call[r].user
                              /\ call[r].kind = "mark" => n = call[r].note
        /\ \A q \in Req \ {r} :
              /\ pc'[q] = pc[q] /\ answer'[q] = answer[q]
              /\ loaded'[q] = loaded[q] /\ todo'[q] = todo[q]
        /\ \/ /\ pc'[r] = "end" /\ answer'[r] = "missing"
              /\ loaded'[r] = loaded[r] /\ todo'[r] = todo[r]
           \/ /\ pc'[r] = "flush" /\ answer'[r] = answer[r]
              /\ loaded'[r] = Find(r)
              /\ \A n \in Note : n \in todo'[r] <=> n \in Find(r) /\ ~row[n].read
              /\ todo'[r] \subseteq Note
        /\ UNCHANGED <<there, row, gone, holder, draft, grip, call, doomed, want>>
    <2>1. CASE pc'[r] = "end"
      BY <1>a, <2>1 DEF BeginMark, End, locks, flushes, pages, TypeOK
    <2>2. CASE pc'[r] # "end"
      <3>1. ~End(r, "missing")
        BY <2>2 DEF End, TypeOK
      <3> DEFINE T == {n \in Find(r) : ~row[n].read}
      <3>2. /\ pc' = [pc EXCEPT ![r] = "flush"]
            /\ loaded' = [loaded EXCEPT ![r] = Find(r)]
            /\ todo' = [todo EXCEPT ![r] = T]
            /\ UNCHANGED <<answer, doomed, want>>
        BY <3>1 DEF BeginMark
      <3>3. T \subseteq Note /\ \A n \in Note : n \in T <=> n \in Find(r) /\ ~row[n].read
        BY <1>a, <1>t DEF PointTypes
      <3> HIDE DEF T
      <3>4. /\ pc'[r] = "flush" /\ loaded'[r] = Find(r) /\ todo'[r] = T
            /\ \A q \in Req \ {r} : /\ pc'[q] = pc[q] /\ answer'[q] = answer[q]
                                    /\ loaded'[q] = loaded[q] /\ todo'[q] = todo[q]
        BY <3>2 DEF TypeOK
      <3> QED
        BY <1>a, <3>2, <3>3, <3>4 DEF BeginMark, locks, pages
    <2> QED
      BY <2>1, <2>2
  <1>3. TypeOK'
    <2>1. pc' \in [Req -> Places] /\ answer' \in [Req -> {"none", "ok", "missing", "error"}]
      BY DEF BeginMark, End, TypeOK
    <2>2. loaded' \in [Req -> SUBSET Note] /\ todo' \in [Req -> SUBSET Note]
      <3> DEFINE T == {n \in Find(r) : ~row[n].read}
      <3>1. \/ UNCHANGED <<loaded, todo>>
            \/ loaded' = [loaded EXCEPT ![r] = Find(r)] /\ todo' = [todo EXCEPT ![r] = T]
        BY DEF BeginMark, flushes
      <3>2. Find(r) \in SUBSET Note /\ T \in SUBSET Note
        BY <1>a, <1>t DEF PointTypes
      <3> HIDE DEF T
      <3> QED
        <4>1. /\ [loaded EXCEPT ![r] = Find(r)] \in [Req -> SUBSET Note]
              /\ [todo EXCEPT ![r] = T] \in [Req -> SUBSET Note]
          BY <3>2 DEF TypeOK
        <4> QED
          BY <3>1, <4>1 DEF TypeOK
    <2> QED
      BY <2>1, <2>2 DEF BeginMark, locks, flushes, pages, TypeOK
  <1>4. WorkInv'
    <2>1. WorkOf(r)'
      <3>1. todo'[r] \subseteq there /\ want[r] = None /\ doomed[r] = {}
        BY <1>2, <1>t DEF WorkInv, WorkOf, PointTypes
      <3>2. pc'[r] = "flush" => answer'[r] = "none"
        BY <1>2 DEF WorkInv, WorkOf
      <3>3. /\ todo'[r] \subseteq loaded'[r]
            /\ \A n \in loaded'[r] : /\ Recipient[n] = call[r].user
                                     /\ call[r].kind = "mark" => n = call[r].note
        <4>1. CASE pc'[r] = "end"
          BY <1>2, <4>1 DEF WorkInv, WorkOf
        <4>2. CASE pc'[r] # "end"
          <5>1. loaded'[r] = Find(r) /\ \A n \in todo'[r] : n \in Note /\ n \in Find(r)
            BY <1>2, <4>2
          <5> QED
            BY <5>1, <1>2
        <4> QED
          BY <4>1, <4>2
      <3>4. pc'[r] # "flush" => todo'[r] = {} /\ pc'[r] = "end"
        BY <1>2 DEF WorkInv, WorkOf
      <3> QED
        BY <1>1, <1>2, <1>t, <3>1, <3>2, <3>3, <3>4 DEF WorkOf
    <2>2. ASSUME NEW q \in Req \ {r} PROVE WorkOf(q)'
      BY <1>1, <1>2, <1>t DEF WorkInv, WorkOf
    <2> QED
      BY <2>1, <2>2 DEF WorkInv
  <1>5. LockInv'
    BY <1>1, <1>2, <1>t DEF LockInv, WorkInv, WorkOf, PointTypes
  <1>6. DraftInv'
    BY <1>1, <1>2, <1>t DEF DraftInv, LockInv, PointTypes
  <1>7. MarkInv'
    <2> SUFFICES ASSUME NEW q \in Req, Marks(q), pc'[q] = "flush", NEW n \in loaded'[q]
                 PROVE  row[n].read \/ n \in todo'[q] \/ (holder[n] = q /\ draft[n].read)
      BY <1>1, <1>2 DEF MarkInv
    <2>1. CASE q = r
      BY <1>2, <1>t, <2>1 DEF PointTypes
    <2> QED
      BY <1>2, <2>1 DEF MarkInv
  <1>8. LinkInv'
    BY <1>1, <1>2, <1>t DEF LinkInv, LockInv, PointTypes
  <1>9. MineInv'
    BY <1>1, <1>2, <1>t DEF MineInv, PointTypes
  <1>10. OrderInv'
    <2>1. want[r] = None /\ doomed[r] = {} /\ \A n \in Note : holder[n] # r
      BY <1>2 DEF WorkInv, WorkOf, LockInv
    <2> QED
      BY <1>1, <1>2, <2>1 DEF OrderInv
  <1>11. ReadIffToldSo'
    BY <1>1, <1>2, <1>t DEF ReadIffToldSo, WorkInv, WorkOf, PointTypes
  <1>12. NoDanglingLinks'
    BY <1>1, <1>2, <1>t DEF NoDanglingLinks, PointTypes
  <1>20. TodoInv'
    <2>1. \A n \in Note : holder[n] # r
      BY <1>2 DEF LockInv
    <2>2. \A n \in todo'[r] : n \in Note
      BY <1>2, <1>t DEF PointTypes
    <2>3. \A q \in Req \ {r} : todo'[q] = todo[q]
      BY <1>2
    <2>4. holder' = holder
      BY <1>2
    <2> QED
      BY <2>1, <2>2, <2>3, <2>4 DEF TodoInv
  <1>21. ShareInv'
    BY <1>1, <1>2 DEF ShareInv
  <1> QED
    BY <1>3, <1>4, <1>5, <1>6, <1>7, <1>8, <1>9, <1>10, <1>11, <1>12, <1>20, <1>21

(* The SELECT of a deletion.                                               *)
LEMMA BeginDeleteInd ==
    ASSUME Ind, NEW r \in Req, BeginDelete(r) PROVE Ind'
  <1> USE Basics DEF Ind, Places
  <1>1. \A q \in Req : /\ (Marks(q)' <=> Marks(q)) /\ (Deletes(q)' <=> Deletes(q))
                       /\ (Inserts(q)' <=> Inserts(q)) /\ ~(Marks(q) /\ Deletes(q))
                       /\ ~(Inserts(q) /\ (Marks(q) \/ Deletes(q)))
    BY SameKind, Kinds DEF BeginDelete, End, locks, pages
  <1>t. PointTypes /\ (call' = call)
    BY Points DEF BeginDelete, End, locks, pages
  <1>a. call[r].tasks \subseteq Task
    BY DEF BeginDelete, Deletes, TypeOK, Call
  <1>2. /\ pc[r] = "idle" /\ Deletes(r)
        /\ \A q \in Req \ {r} :
              pc'[q] = pc[q] /\ answer'[q] = answer[q] /\ doomed'[q] = doomed[q]
        /\ \/ pc'[r] = "end" /\ answer'[r] = "missing" /\ doomed'[r] = doomed[r]
           \/ pc'[r] = "flush" /\ answer'[r] = answer[r] /\ doomed'[r] \subseteq Task
        /\ UNCHANGED <<there, row, gone, holder, draft, grip, call, loaded, todo, want>>
    BY <1>a DEF BeginDelete, End, locks, pages, TypeOK
  <1>3. TypeOK'
    <2>1. pc' \in [Req -> Places] /\ answer' \in [Req -> {"none", "ok", "missing", "error"}]
      BY DEF BeginDelete, End, TypeOK
    <2>2. doomed' \in [Req -> SUBSET Task]
      <3>1. call[r].tasks \ gone \in SUBSET Task
        BY <1>a
      <3> QED
        BY <3>1 DEF BeginDelete, TypeOK
    <2> QED
      BY <2>1, <2>2 DEF BeginDelete, locks, pages, TypeOK
  <1>4. WorkInv'
    BY <1>1, <1>2, <1>t DEF WorkInv, WorkOf, PointTypes
  <1>5. LockInv'
    BY <1>1, <1>2, <1>t DEF LockInv, WorkInv, WorkOf, PointTypes
  <1>6. DraftInv'
    BY <1>1, <1>2, <1>t DEF DraftInv, PointTypes
  <1>7. MarkInv'
    BY <1>1, <1>2, <1>t DEF MarkInv, PointTypes
  <1>8. LinkInv'
    BY <1>1, <1>2, <1>t DEF LinkInv, PointTypes
  <1>9. MineInv'
    BY <1>1, <1>2, <1>t DEF MineInv, PointTypes
  <1>10. OrderInv'
    <2>1. \A t \in Task : grip[t] # r
      BY <1>2 DEF LockInv
    <2> QED
      BY <1>1, <1>2, <2>1 DEF OrderInv
  <1>11. ReadIffToldSo'
    BY <1>1, <1>2, <1>t DEF ReadIffToldSo, PointTypes
  <1>12. NoDanglingLinks'
    BY <1>1, <1>2, <1>t DEF NoDanglingLinks, PointTypes
  <1>20. TodoInv'
    BY <1>2 DEF TodoInv
  <1>21. ShareInv'
    BY <1>1, <1>2 DEF ShareInv
  <1> QED
    BY <1>3, <1>4, <1>5, <1>6, <1>7, <1>8, <1>9, <1>10, <1>11, <1>12, <1>20, <1>21

(* The DELETE of a task.                                                   *)
LEMMA DeleteRowInd ==
    ASSUME Ind, NEW r \in Req, DeleteRow(r) PROVE Ind'
  <1> USE Basics DEF Ind, Places
  <1>1. \A q \in Req : /\ (Marks(q)' <=> Marks(q)) /\ (Deletes(q)' <=> Deletes(q))
                       /\ (Inserts(q)' <=> Inserts(q)) /\ ~(Marks(q) /\ Deletes(q))
                       /\ ~(Inserts(q) /\ (Marks(q) \/ Deletes(q)))
    BY SameKind, Kinds DEF DeleteRow, First, pages
  <1>t. PointTypes /\ (call' = call)
    BY Points DEF DeleteRow, First, pages
  <1>2. \E t \in doomed[r] :
           /\ pc[r] = "flush" /\ todo[r] = {} /\ want[r] = None /\ t \in Task
           /\ grip[t] = Nobody /\ \A s \in Req : ~Shares(s, t)
           /\ \A d \in doomed'[r] : d \in doomed[r] /\ t < d
           /\ \A q \in Req \ {r} : doomed'[q] = doomed[q] /\ todo'[q] = todo[q]
           /\ \A d \in Task \ {t} : grip'[d] = grip[d]
           /\ \/ t \in gone /\ grip'[t] = Nobody /\ todo'[r] = {}
              \/ /\ t \notin gone /\ grip'[t] = r
                 /\ \A n \in Note : n \in todo'[r] <=> n \in there /\ row[n].link = t
                 /\ todo'[r] \subseteq there
           /\ UNCHANGED <<there, row, gone, holder, draft, call, pc, answer, loaded, want>>
    BY DEF DeleteRow, First, pages, TypeOK
  <1>d. Deletes(r)
    BY <1>2 DEF WorkInv, WorkOf
  <1>3. TypeOK'
    <2>1. PICK t \in doomed[r] :
            /\ doomed' = [doomed EXCEPT ![r] = @ \ {t}]
            /\ \/ UNCHANGED <<grip, todo>>
               \/ /\ grip' = [grip EXCEPT ![t] = r]
                  /\ todo' = [todo EXCEPT ![r] = {n \in there : row[n].link = t}]
      BY DEF DeleteRow
    <2>2. doomed[r] \ {t} \in SUBSET Task /\ {n \in there : row[n].link = t} \in SUBSET Note
      BY <1>t DEF PointTypes
    <2>3. doomed' \in [Req -> SUBSET Task]
      BY <2>1, <2>2 DEF TypeOK
    <2>4. /\ [todo EXCEPT ![r] = {n \in there : row[n].link = t}] \in [Req -> SUBSET Note]
          /\ t \in Task => [grip EXCEPT ![t] = r] \in [Task -> Req \cup {Nobody}]
      BY <2>2 DEF TypeOK
    <2>5. todo' \in [Req -> SUBSET Note] /\ grip' \in [Task -> Req \cup {Nobody}]
      BY <2>1, <2>4, <1>t DEF TypeOK, PointTypes
    <2> QED
      BY <2>3, <2>5 DEF DeleteRow, pages, TypeOK
  <1>4. WorkInv'
    BY <1>1, <1>2, <1>t DEF WorkInv, WorkOf, PointTypes
  <1>5. LockInv'
    BY <1>1, <1>2, <1>t DEF LockInv, WorkInv, WorkOf, PointTypes
  <1>6. DraftInv'
    BY <1>1, <1>2, <1>t DEF DraftInv, PointTypes
  <1>7. MarkInv'
    BY <1>1, <1>2, <1>t DEF MarkInv, WorkInv, WorkOf, PointTypes
  <1>8. LinkInv' /\ MineInv'
    <2> PICK t \in doomed[r] : <1>2!(t)
      BY <1>2
    <2>1. t \in Task /\ grip[t] = Nobody
      OBVIOUS
    <2>2. ASSUME NEW d \in Task, grip'[d] # Nobody, NEW n \in there, row[n].link = d
          PROVE  n \in todo'[grip'[d]] \/ holder[n] = grip'[d]
      <3>1. CASE d = t
        BY <2>2, <3>1, <1>t DEF PointTypes
      <3>2. CASE d # t
        <4>1. grip'[d] = grip[d] /\ grip[d] \in Req
          BY <2>2, <3>2, <1>t DEF PointTypes
        <4>2. n \in todo[grip[d]] \/ holder[n] = grip[d]
          BY <2>2, <4>1 DEF LinkInv
        <4> QED
          BY <4>1, <4>2
      <3> QED
        BY <3>1, <3>2
    <2>3. ASSUME NEW q \in Req, Deletes(q), NEW n \in Note, n \in todo'[q] \/ holder[n] = q
          PROVE  row[n].link \in Task /\ grip'[row[n].link] = q
      <3>1. CASE n \in todo[q] \/ holder[n] = q
        <4>1. row[n].link \in Task /\ grip[row[n].link] = q
          BY <2>3, <3>1 DEF MineInv
        <4> QED
          BY <4>1, <2>1
      <3>2. CASE n \notin todo[q] /\ holder[n] # q
        BY <2>1, <2>3, <3>2
      <3> QED
        BY <3>1, <3>2
    <2> QED
      BY <2>2, <2>3, <1>1 DEF LinkInv, MineInv
  <1>10. OrderInv'
    BY <1>1, <1>2, <1>t DEF OrderInv, WorkInv, WorkOf, PointTypes
  <1>11. ReadIffToldSo'
    BY <1>1, <1>2, <1>t DEF ReadIffToldSo, PointTypes
  <1>12. NoDanglingLinks'
    BY <1>1, <1>2, <1>t DEF NoDanglingLinks, PointTypes
  <1>20. TodoInv'
    <2> PICK t \in doomed[r] : <1>2!(t)
      BY <1>2
    <2>1. ASSUME NEW n \in todo'[r] PROVE holder[n] # r
      <3>1. t \notin gone /\ n \in Note /\ row[n].link = t
        BY <1>t, <2>1 DEF PointTypes
      <3>2. Deletes(r)
        BY DEF WorkInv, WorkOf
      <3> QED
        BY <3>1, <3>2 DEF MineInv
    <2> QED
      BY <2>1 DEF TodoInv
  <1>21. ShareInv'
    <2> PICK t \in doomed[r] : <1>2!(t)
      BY <1>2
    <2> SUFFICES ASSUME NEW q \in Req, Inserts(q), pc[q] = "flush",
                        NEW n \in loaded[q], n \notin todo'[q]
                 PROVE  About[n] \notin gone /\ grip'[About[n]] = Nobody
      BY <1>1 DEF ShareInv
    <2>1. q # r
      BY <1>1 DEF WorkInv, WorkOf
    <2>2. n \in loaded[q] \ todo[q] /\ n \in Note /\ About[n] \in Task
      BY <1>t, <2>1 DEF PointTypes
    <2>3. About[n] # t
      BY <2>2 DEF Shares
    <2> QED
      BY <2>2, <2>3 DEF ShareInv
  <1> QED
    BY <1>3, <1>4, <1>5, <1>6, <1>7, <1>8, <1>10, <1>11, <1>12, <1>20, <1>21

(* The choice of the next row.                                             *)
LEMMA AimInd ==
    ASSUME Ind, NEW r \in Req, Aim(r) PROVE Ind'
  <1> USE Basics DEF Ind, Places
  <1>1. \A q \in Req : /\ (Marks(q)' <=> Marks(q)) /\ (Deletes(q)' <=> Deletes(q))
                       /\ (Inserts(q)' <=> Inserts(q)) /\ ~(Marks(q) /\ Deletes(q))
                       /\ ~(Inserts(q) /\ (Marks(q) \/ Deletes(q)))
    BY SameKind, Kinds DEF Aim, locks, pages
  <1>t. PointTypes /\ (call' = call)
    BY Points DEF Aim, locks, pages
  <1>2. /\ pc[r] = "flush" /\ want'[r] \in todo[r]
        /\ Marks(r) => First(want'[r], todo[r])
        /\ \A q \in Req \ {r} : want'[q] = want[q]
        /\ UNCHANGED <<there, row, gone, holder, draft, grip, call, pc, answer>>
        /\ UNCHANGED <<loaded, todo, doomed>>
    BY DEF Aim, locks, pages, TypeOK
  <1>3. TypeOK'
    BY DEF Aim, locks, pages, TypeOK
  <1>4. WorkInv'
    BY <1>1, <1>2, <1>t DEF WorkInv, WorkOf, PointTypes
  <1>5. LockInv'
    BY <1>1, <1>2, <1>t DEF LockInv, PointTypes
  <1>6. DraftInv'
    BY <1>1, <1>2, <1>t DEF DraftInv, PointTypes
  <1>7. MarkInv'
    BY <1>1, <1>2, <1>t DEF MarkInv, PointTypes
  <1>8. LinkInv'
    BY <1>1, <1>2, <1>t DEF LinkInv, PointTypes
  <1>9. MineInv'
    BY <1>1, <1>2, <1>t DEF MineInv, PointTypes
  <1>10. OrderInv'
    BY <1>1, <1>2, <1>t DEF OrderInv, First, PointTypes
  <1>11. ReadIffToldSo'
    BY <1>1, <1>2, <1>t DEF ReadIffToldSo, PointTypes
  <1>12. NoDanglingLinks'
    BY <1>1, <1>2, <1>t DEF NoDanglingLinks, PointTypes
  <1>20. TodoInv'
    BY <1>2 DEF TodoInv
  <1>21. ShareInv'
    BY <1>1, <1>2 DEF ShareInv
  <1> QED
    BY <1>3, <1>4, <1>5, <1>6, <1>7, <1>8, <1>9, <1>10, <1>11, <1>12, <1>20, <1>21

(* The UPDATE of a row.                                                    *)
LEMMA WriteInd ==
    ASSUME Ind, NEW r \in Req, Write(r) PROVE Ind'
  <1> USE Basics DEF Ind, Places
  <1>1. \A q \in Req : /\ (Marks(q)' <=> Marks(q)) /\ (Deletes(q)' <=> Deletes(q))
                       /\ (Inserts(q)' <=> Inserts(q)) /\ ~(Marks(q) /\ Deletes(q))
                       /\ ~(Inserts(q) /\ (Marks(q) \/ Deletes(q)))
    BY SameKind, Kinds DEF Write, pages
  <1>t. PointTypes /\ (call' = call)
    BY Points DEF Write, pages
  <1>f. ~Inserts(r)
    BY DEF Write
  <1>a. want[r] \in Note /\ want[r] \in todo[r] /\ want[r] \in there
    BY <1>t, <1>f DEF Write, WorkInv, WorkOf, PointTypes
  <1> DEFINE n == want[r]
  <1>b. /\ pc[r] = "flush" /\ holder[n] = Nobody /\ draft[n] = row[n]
        /\ UNCHANGED <<there, row, gone, grip, call, pc, answer, loaded, doomed>>
        /\ UNCHANGED <<page, total, seen, start, twice, missed, moved>>
    BY <1>a DEF Write, pages, TypeOK
  <1>c. /\ holder' = [holder EXCEPT ![n] = r]
        /\ todo' = [todo EXCEPT ![r] = @ \ {n}]
        /\ want' = [want EXCEPT ![r] = None]
    BY DEF Write
  <1>d. /\ draft' = [draft EXCEPT ![n] = draft'[n]]
        /\ draft'[n] \in Row
        /\ Marks(r) => draft'[n].read /\ draft'[n].link = row[n].link
        /\ ~Marks(r) => draft'[n].read = row[n].read /\ draft'[n].link = None
    <2>1. draft[n] = row[n] /\ row[n] \in Row
      BY <1>a, <1>b DEF TypeOK
    <2>2. CASE Marks(r)
      <3>1. draft' = [draft EXCEPT ![n] = [@ EXCEPT !.read = TRUE]]
        BY <2>2 DEF Write
      <3> QED
        BY <1>a, <2>1, <2>2, <3>1 DEF TypeOK, Row
    <2>3. CASE ~Marks(r)
      <3>1. draft' = [draft EXCEPT ![n] = [@ EXCEPT !.link = None]]
        BY <2>3 DEF Write
      <3> QED
        BY <1>a, <2>1, <2>3, <3>1 DEF TypeOK, Row
    <2> QED
      BY <2>2, <2>3
  <1>e. \A m \in todo[r] : Marks(r) => n <= m
    BY DEF Write, OrderInv
  <1> HIDE DEF n
  <1>2. /\ n \in Note /\ n \in todo[r] /\ n \in there /\ want'[r] = None
        /\ holder'[n] = r /\ todo'[r] = todo[r] \ {n}
        /\ \A m \in Note \ {n} : holder'[m] = holder[m] /\ draft'[m] = draft[m]
        /\ \A q \in Req \ {r} : want'[q] = want[q] /\ todo'[q] = todo[q]
    BY <1>a, <1>c, <1>d DEF n, TypeOK
  <1>3. TypeOK'
    BY <1>2, <1>b, <1>c, <1>d DEF TypeOK
  <1>4. WorkInv'
    BY <1>1, <1>2, <1>b, <1>d, <1>f, <1>t DEF WorkInv, WorkOf, PointTypes
  <1>5. LockInv'
    BY <1>1, <1>2, <1>b, <1>d, <1>f, <1>t DEF LockInv, WorkInv, WorkOf, PointTypes
  <1>6. DraftInv'
    BY <1>1, <1>2, <1>b, <1>d, <1>f, <1>t DEF DraftInv, WorkInv, WorkOf, PointTypes
  <1>7. MarkInv'
    <2> SUFFICES ASSUME NEW q \in Req, Marks(q), pc[q] = "flush", NEW m \in loaded[q]
                 PROVE  row[m].read \/ m \in todo'[q] \/ (holder'[m] = q /\ draft'[m].read)
      BY <1>1, <1>b DEF MarkInv
    <2>1. m \in Note /\ (row[m].read \/ m \in todo[q] \/ (holder[m] = q /\ draft[m].read))
      BY <1>t DEF MarkInv, PointTypes
    <2>2. CASE m = n /\ q = r
      BY <1>2, <1>d, <2>2
    <2>3. CASE m # n \/ q # r
      BY <1>2, <1>b, <1>d, <2>1, <2>3
    <2> QED
      BY <2>2, <2>3
  <1>8. LinkInv'
    BY <1>1, <1>2, <1>b, <1>d, <1>t DEF LinkInv, PointTypes
  <1>9. MineInv'
    BY <1>1, <1>2, <1>b, <1>d, <1>t DEF MineInv, PointTypes
  <1>10. OrderInv'
    <2>1. ASSUME NEW q \in Req, Marks(q), NEW m \in todo'[q]
          PROVE  /\ \A k \in Note : holder'[k] = q => k < m
                 /\ want'[q] # None => want'[q] <= m
      <3>1. CASE q = r
        <4>1. m \in todo[r] /\ m # n /\ m \in Nat /\ n \in Nat
          BY <1>2, <1>t, <2>1, <3>1 DEF PointTypes
        <4>2. n < m
          BY <4>1, <1>e, <2>1, <3>1
        <4> QED
          BY <1>2, <2>1, <3>1, <4>1, <4>2 DEF OrderInv
      <3>2. CASE q # r
        BY <1>2, <2>1, <3>2 DEF OrderInv
      <3> QED
        BY <3>1, <3>2
    <2> QED
      BY <1>1, <1>b, <2>1 DEF OrderInv
  <1>11. ReadIffToldSo'
    BY <1>1, <1>2, <1>b, <1>d, <1>t DEF ReadIffToldSo, WorkInv, WorkOf, PointTypes
  <1>12. NoDanglingLinks'
    BY <1>1, <1>2, <1>b, <1>d, <1>t DEF NoDanglingLinks, PointTypes
  <1>20. TodoInv'
    BY <1>2, <1>b, <1>t DEF TodoInv, PointTypes
  <1>21. ShareInv'
    BY <1>1, <1>2, <1>b, <1>f DEF ShareInv
  <1> QED
    BY <1>3, <1>4, <1>5, <1>6, <1>7, <1>8, <1>9, <1>10, <1>11, <1>12, <1>20, <1>21

(* The end of a transaction: its locks are released, its rows are written  *)
(* or not.                                                                 *)
LEMMA CommitInd ==
    ASSUME Ind, NEW r \in Req, Commit(r) PROVE Ind'
  <1> USE Basics DEF Ind, Places
  <1>1. \A q \in Req : /\ (Marks(q)' <=> Marks(q)) /\ (Deletes(q)' <=> Deletes(q))
                       /\ (Inserts(q)' <=> Inserts(q)) /\ ~(Marks(q) /\ Deletes(q))
                       /\ ~(Inserts(q) /\ (Marks(q) \/ Deletes(q)))
    BY SameKind, Kinds DEF Commit
  <1>t. PointTypes /\ (call' = call)
    BY Points DEF Commit
  <1>2. /\ pc[r] = "flush" /\ todo[r] = {} /\ want[r] = None
        /\ pc'[r] = "end" /\ answer'[r] = "ok"
        /\ todo'[r] = {} /\ doomed'[r] = {} /\ want'[r] = None
        /\ \A q \in Req \ {r} :
              /\ pc'[q] = pc[q] /\ answer'[q] = answer[q] /\ todo'[q] = todo[q]
              /\ doomed'[q] = doomed[q] /\ want'[q] = want[q]
        /\ there \subseteq there' /\ UNCHANGED <<draft, loaded>>
    BY DEF Commit, Unlock, End, TypeOK
  <1>n. ASSUME NEW n \in there' \ there
        PROVE  /\ n \in Note /\ row'[n] = row[n] /\ row[n].link = About[n]
               /\ About[n] \in Task /\ About[n] \notin gone' /\ grip[About[n]] = Nobody
    <2>1. Inserts(r) /\ n \in loaded[r] /\ n \in Note
      BY <1>n, <1>t DEF Commit, PointTypes
    <2>2. About[n] \notin gone /\ grip[About[n]] = Nobody /\ About[n] \in Task
      BY <1>2, <2>1 DEF ShareInv
    <2>3. row[n].link = About[n] /\ holder[n] # r
      BY <1>n, <2>1 DEF DraftInv, LockInv
    <2> QED
      BY <2>1, <2>2, <2>3 DEF Commit
  <1>3. /\ \A n \in Note : /\ holder[n] = r => row'[n] = draft[n] /\ holder'[n] = Nobody
                           /\ holder[n] # r => row'[n] = row[n] /\ holder'[n] = holder[n]
        /\ \A t \in Task : /\ grip[t] = r => t \in gone' /\ grip'[t] = Nobody
                           /\ grip[t] # r => (t \in gone' <=> t \in gone) /\ grip'[t] = grip[t]
    BY DEF Commit, Unlock
  <1>a. ASSUME NEW n \in Note
        PROVE  /\ row'[n].link = row[n].link \/ row'[n].link = None
               /\ row[n].read => row'[n].read
    <2>1. CASE holder[n] = r
      <3>1. Marks(r) \/ Deletes(r)
        BY <1>2, <2>1 DEF WorkInv, WorkOf, LockInv
      <3>2. (draft[n].link = row[n].link \/ draft[n].link = None) /\ (row[n].read => draft[n].read)
        BY <2>1, <3>1 DEF DraftInv
      <3> QED
        BY <1>3, <2>1, <3>2
    <2>2. CASE holder[n] # r
      BY <1>3, <2>2
    <2> QED
      BY <2>1, <2>2
  <1>4. TypeOK'
    <2>1. /\ row' \in [Note -> Row] /\ holder' \in [Note -> Req \cup {Nobody}]
          /\ grip' \in [Task -> Req \cup {Nobody}] /\ gone' \subseteq Task
      BY DEF Commit, Unlock, TypeOK
    <2>2. /\ pc' \in [Req -> Places] /\ answer' \in [Req -> {"none", "ok", "missing", "error"}]
          /\ want' \in [Req -> Note \cup {None}]
      BY DEF Commit, Unlock, End, TypeOK
    <2>3. todo' \in [Req -> SUBSET Note] /\ doomed' \in [Req -> SUBSET Task]
      <3>1. {} \in SUBSET Note /\ {} \in SUBSET Task
        OBVIOUS
      <3> QED
        BY <3>1 DEF Commit, Unlock, TypeOK
    <2>4. moved' \in [Req -> SUBSET {"left", "added", "pushed"}]
      BY WatchType DEF Commit, TypeOK
    <2>5. \A n \in Note : holder'[n] = Nobody => draft'[n] = row'[n]
      BY <1>2, <1>3 DEF TypeOK
    <2>6. there' \subseteq Note
      BY <1>t DEF Commit, PointTypes
    <2> QED
      BY <2>1, <2>2, <2>3, <2>4, <2>5, <2>6 DEF Commit, pages, TypeOK
  <1>5. WorkInv'
    BY <1>1, <1>2, <1>t DEF WorkInv, WorkOf
  <1>6. LockInv'
    BY <1>1, <1>2, <1>3, <1>t DEF LockInv, PointTypes
  <1>7. DraftInv'
    <2>1. \A n \in Note : holder[n] = r => n \in there
      BY DEF LockInv
    <2> QED
      BY <1>1, <1>2, <1>3, <1>t, <2>1 DEF DraftInv, PointTypes
  <1>8. MarkInv'
    <2> SUFFICES ASSUME NEW q \in Req, Marks(q), pc'[q] = "flush", NEW n \in loaded[q]
                 PROVE  row'[n].read \/ n \in todo'[q] \/ (holder'[n] = q /\ draft[n].read)
      BY <1>1, <1>2 DEF MarkInv
    <2>1. q # r /\ n \in Note /\ pc[q] = "flush"
      BY <1>2, <1>t DEF PointTypes
    <2>2. row[n].read \/ n \in todo[q] \/ (holder[n] = q /\ draft[n].read)
      BY <2>1 DEF MarkInv
    <2> QED
      BY <1>2, <1>3, <1>a, <2>1, <2>2
  <1>9. LinkInv' /\ MineInv'
    <2>1. \A n \in Note : row'[n].link \in Task => row'[n].link = row[n].link
      BY <1>a
    <2>2. ASSUME NEW t \in Task, grip'[t] # Nobody, NEW n \in there', row'[n].link = t
          PROVE  n \in todo'[grip'[t]] \/ holder'[n] = grip'[t]
      <3>1. grip'[t] = grip[t] /\ grip[t] \in Req \ {r} /\ row[n].link = t
        <4>1. n \in Note
          BY <1>t, <1>n DEF PointTypes
        <4> QED
          BY <1>3, <1>t, <2>1, <2>2, <4>1 DEF PointTypes
      <3>0. n \in there
        BY <1>n, <2>2, <3>1
      <3>2. n \in todo[grip[t]] \/ holder[n] = grip[t]
        BY <2>2, <3>0, <3>1 DEF LinkInv
      <3> QED
        BY <1>2, <1>3, <1>t, <3>0, <3>1, <3>2 DEF PointTypes
    <2>3. ASSUME NEW q \in Req, Deletes(q), NEW n \in Note, n \in todo'[q] \/ holder'[n] = q
          PROVE  row'[n].link \in Task /\ grip'[row'[n].link] = q
      <3>1. q # r /\ (n \in todo[q] \/ holder[n] = q)
        BY <1>2, <1>3, <2>3
      <3>2. row[n].link \in Task /\ grip[row[n].link] = q
        BY <2>3, <3>1 DEF MineInv
      <3>3. row'[n].link = row[n].link
        <4>1. CASE holder[n] # r
          BY <1>3, <4>1
        <4>2. CASE holder[n] = r
          <5>1. Marks(r)
            BY <1>2, <3>1, <3>2, <4>2 DEF MineInv, WorkInv, WorkOf, LockInv
          <5> QED
            BY <1>3, <4>2, <5>1 DEF DraftInv
        <4> QED
          BY <4>1, <4>2
      <3>4. grip'[row[n].link] = grip[row[n].link]
        BY <1>3, <3>1, <3>2
      <3> QED
        BY <3>2, <3>3, <3>4
    <2> QED
      BY <1>1, <1>2, <2>2, <2>3 DEF LinkInv, MineInv
  <1>10. OrderInv'
    BY <1>1, <1>2, <1>3, <1>t DEF OrderInv, PointTypes
  <1>11. ReadIffToldSo'
    <2>1. ASSUME NEW n \in Note, row'[n].read
          PROVE  \E q \in Req : /\ Marks(q) /\ answer'[q] = "ok"
                                /\ call[q].user = Recipient[n] /\ n \in loaded[q]
      <3>1. CASE row[n].read
        <4>1. PICK q \in Req : /\ Marks(q) /\ answer[q] = "ok"
                               /\ call[q].user = Recipient[n] /\ n \in loaded[q]
          BY <3>1 DEF ReadIffToldSo
        <4>2. q # r
          BY <1>2, <4>1 DEF WorkInv, WorkOf
        <4> QED
          BY <1>2, <4>1, <4>2
      <3>2. CASE ~row[n].read
        <4>1. holder[n] = r /\ draft[n].read
          BY <1>3, <2>1, <3>2
        <4>2. Marks(r) /\ n \in loaded[r]
          BY <1>2, <3>2, <4>1 DEF DraftInv, WorkInv, WorkOf, LockInv
        <4> QED
          BY <1>2, <4>2 DEF WorkInv, WorkOf
      <3> QED
        BY <3>1, <3>2
    <2>2. ASSUME NEW q \in Req, Marks(q), answer'[q] = "ok", NEW n \in loaded[q]
          PROVE  row'[n].read
      <3>1. n \in Note /\ (row[n].read => row'[n].read)
        BY <1>3, <1>t DEF DraftInv, PointTypes
      <3>2. CASE q = r
        BY <1>2, <1>3, <2>2, <3>1, <3>2 DEF MarkInv
      <3>3. CASE q # r
        BY <1>2, <2>2, <3>1, <3>3 DEF ReadIffToldSo
      <3> QED
        BY <3>2, <3>3
    <2> QED
      BY <1>1, <1>2, <1>t, <2>1, <2>2 DEF ReadIffToldSo
  <1>12. NoDanglingLinks'
    <2> SUFFICES ASSUME NEW n \in there PROVE row'[n].link \notin gone'
      BY <1>n DEF NoDanglingLinks
    <2>1. n \in Note /\ gone' \subseteq Task
      BY <1>4, <1>t DEF TypeOK, PointTypes
    <2>2. row'[n].link = row[n].link \/ row'[n].link = None
      BY <1>a, <2>1
    <2>3. CASE row'[n].link = None
      BY <2>1, <2>3
    <2>4. CASE row'[n].link = row[n].link /\ row[n].link \in Task
      <3>1. row[n].link \notin gone
        BY DEF NoDanglingLinks
      <3>2. grip[row[n].link] # r
        <4>1. SUFFICES ASSUME grip[row[n].link] = r PROVE FALSE
          OBVIOUS
        <4>2. holder[n] = r /\ Deletes(r)
          BY <1>2, <2>4, <4>1 DEF LinkInv, LockInv
        <4>3. draft[n].link = None /\ row'[n] = draft[n]
          BY <1>3, <2>1, <4>2 DEF DraftInv
        <4> QED
          BY <2>4, <4>3
      <3> QED
        BY <1>3, <2>4, <3>1, <3>2
    <2> QED
      BY <1>t, <2>1, <2>2, <2>3, <2>4 DEF PointTypes
  <1>20. TodoInv'
    <2> SUFFICES ASSUME NEW q \in Req \ {r}, NEW n \in todo[q] PROVE holder'[n] # q
      BY <1>2 DEF TodoInv
    <2>1. n \in Note /\ holder[n] # q
      BY <1>t DEF TodoInv, PointTypes
    <2> QED
      BY <1>3, <2>1
  <1>21. ShareInv'
    <2> SUFFICES ASSUME NEW q \in Req, Inserts(q), pc'[q] = "flush",
                        NEW n \in loaded[q], n \notin todo'[q]
                 PROVE  About[n] \notin gone' /\ grip'[About[n]] = Nobody
      BY <1>1, <1>2 DEF ShareInv
    <2>1. q # r /\ n \in loaded[q] \ todo[q] /\ n \in Note /\ About[n] \in Task
      BY <1>2, <1>t DEF PointTypes
    <2>2. About[n] \notin gone /\ grip[About[n]] = Nobody
      BY <1>2, <2>1 DEF ShareInv
    <2> QED
      BY <1>3, <2>1, <2>2
  <1> QED
    BY <1>4, <1>5, <1>6, <1>7, <1>8, <1>9, <1>10, <1>11, <1>12, <1>20, <1>21

LEMMA RollbackInd ==
    ASSUME Ind, NEW r \in Req, pc[r] = "flush", Rollback(r) PROVE Ind'
  <1> USE Basics DEF Ind, Places
  <1>1. \A q \in Req : /\ (Marks(q)' <=> Marks(q)) /\ (Deletes(q)' <=> Deletes(q))
                       /\ (Inserts(q)' <=> Inserts(q)) /\ ~(Marks(q) /\ Deletes(q))
                       /\ ~(Inserts(q) /\ (Marks(q) \/ Deletes(q)))
    BY SameKind, Kinds DEF Rollback
  <1>t. PointTypes /\ (call' = call)
    BY Points DEF Rollback
  <1>2. /\ pc'[r] = "end" /\ answer'[r] = "error"
        /\ todo'[r] = {} /\ doomed'[r] = {} /\ want'[r] = None
        /\ \A q \in Req \ {r} :
              /\ pc'[q] = pc[q] /\ answer'[q] = answer[q] /\ todo'[q] = todo[q]
              /\ doomed'[q] = doomed[q] /\ want'[q] = want[q]
        /\ UNCHANGED <<there, row, gone, loaded>>
    BY DEF Rollback, Unlock, End, TypeOK
  <1>3. /\ \A n \in Note : /\ holder[n] = r => draft'[n] = row[n] /\ holder'[n] = Nobody
                           /\ holder[n] # r => draft'[n] = draft[n] /\ holder'[n] = holder[n]
        /\ \A t \in Task : /\ grip[t] = r => grip'[t] = Nobody
                           /\ grip[t] # r => grip'[t] = grip[t]
    BY DEF Rollback, Unlock
  <1>4. TypeOK'
    <2>1. /\ draft' \in [Note -> Row] /\ holder' \in [Note -> Req \cup {Nobody}]
          /\ grip' \in [Task -> Req \cup {Nobody}]
      BY DEF Rollback, Unlock, TypeOK
    <2>2. /\ pc' \in [Req -> Places] /\ answer' \in [Req -> {"none", "ok", "missing", "error"}]
          /\ want' \in [Req -> Note \cup {None}]
      BY DEF Rollback, Unlock, End, TypeOK
    <2>3. todo' \in [Req -> SUBSET Note] /\ doomed' \in [Req -> SUBSET Task]
      <3>1. {} \in SUBSET Note /\ {} \in SUBSET Task
        OBVIOUS
      <3> QED
        BY <3>1 DEF Rollback, Unlock, TypeOK
    <2>4. \A n \in Note : holder'[n] = Nobody => draft'[n] = row'[n]
      BY <1>2, <1>3 DEF TypeOK
    <2> QED
      BY <2>1, <2>2, <2>3, <2>4 DEF Rollback, pages, TypeOK
  <1>5. WorkInv'
    BY <1>1, <1>2, <1>t DEF WorkInv, WorkOf
  <1>6. LockInv'
    BY <1>1, <1>2, <1>3, <1>t DEF LockInv, PointTypes
  <1>7. DraftInv'
    BY <1>1, <1>2, <1>3, <1>t DEF DraftInv, PointTypes
  <1>8. MarkInv'
    <2> SUFFICES ASSUME NEW q \in Req, Marks(q), pc'[q] = "flush", NEW n \in loaded[q]
                 PROVE  row[n].read \/ n \in todo'[q] \/ (holder'[n] = q /\ draft'[n].read)
      BY <1>1, <1>2 DEF MarkInv
    <2>1. q # r /\ n \in Note /\ pc[q] = "flush"
      BY <1>2, <1>t DEF PointTypes
    <2>2. row[n].read \/ n \in todo[q] \/ (holder[n] = q /\ draft[n].read)
      BY <2>1 DEF MarkInv
    <2> QED
      BY <1>2, <1>3, <2>1, <2>2
  <1>9. LinkInv' /\ MineInv'
    <2>1. ASSUME NEW t \in Task, grip'[t] # Nobody, NEW n \in there, row[n].link = t
          PROVE  n \in todo'[grip'[t]] \/ holder'[n] = grip'[t]
      <3>1. grip'[t] = grip[t] /\ grip[t] \in Req \ {r} /\ n \in Note
        BY <1>3, <1>t, <2>1 DEF PointTypes
      <3>2. n \in todo[grip[t]] \/ holder[n] = grip[t]
        BY <2>1, <3>1 DEF LinkInv
      <3> QED
        BY <1>2, <1>3, <3>1, <3>2
    <2>2. ASSUME NEW q \in Req, Deletes(q), NEW n \in Note, n \in todo'[q] \/ holder'[n] = q
          PROVE  row[n].link \in Task /\ grip'[row[n].link] = q
      <3>1. q # r /\ (n \in todo[q] \/ holder[n] = q)
        BY <1>2, <1>3, <2>2
      <3>2. row[n].link \in Task /\ grip[row[n].link] = q
        BY <2>2, <3>1 DEF MineInv
      <3> QED
        BY <1>3, <3>1, <3>2
    <2> QED
      BY <1>1, <1>2, <2>1, <2>2 DEF LinkInv, MineInv
  <1>10. OrderInv'
    BY <1>1, <1>2, <1>3, <1>t DEF OrderInv, PointTypes
  <1>11. ReadIffToldSo'
    <2>1. \A q \in Req : answer'[q] = "ok" <=> answer[q] = "ok"
      BY <1>2 DEF WorkInv, WorkOf
    <2> QED
      BY <1>1, <1>2, <1>t, <2>1 DEF ReadIffToldSo
  <1>12. NoDanglingLinks'
    BY <1>2 DEF NoDanglingLinks
  <1>20. TodoInv'
    BY <1>2, <1>3, <1>t DEF TodoInv, PointTypes
  <1>21. ShareInv'
    <2> SUFFICES ASSUME NEW q \in Req, Inserts(q), pc'[q] = "flush",
                        NEW n \in loaded[q], n \notin todo'[q]
                 PROVE  About[n] \notin gone /\ grip'[About[n]] = Nobody
      BY <1>1, <1>2 DEF ShareInv
    <2>1. q # r /\ n \in loaded[q] \ todo[q] /\ n \in Note /\ About[n] \in Task
      BY <1>2, <1>t DEF PointTypes
    <2>2. About[n] \notin gone /\ grip[About[n]] = Nobody
      BY <1>2, <2>1 DEF ShareInv
    <2> QED
      BY <1>3, <2>1, <2>2
  <1> QED
    BY <1>4, <1>5, <1>6, <1>7, <1>8, <1>9, <1>10, <1>11, <1>12, <1>20, <1>21

(* A row of an INSERT.                                                     *)
LEMMA InsertRowInd ==
    ASSUME Ind, NEW r \in Req, InsertRow(r) PROVE Ind'
  <1> USE Basics DEF Ind, Places
  <1>0. CASE Rollback(r)
    BY <1>0, RollbackInd DEF InsertRow
  <1>9. CASE ~Rollback(r)
    <2>1. /\ pc[r] = "flush" /\ Inserts(r) /\ want[r] # None
          /\ About[want[r]] \notin gone /\ grip[About[want[r]]] = Nobody
          /\ todo' = [todo EXCEPT ![r] = @ \ {want[r]}]
          /\ want' = [want EXCEPT ![r] = None]
          /\ UNCHANGED <<there, row, gone, holder, draft, grip, call, pc, answer>>
          /\ UNCHANGED <<loaded, doomed, page, total, seen, start, twice, missed, moved>>
      BY <1>9 DEF InsertRow, locks, pages
    <2>2. \A q \in Req : /\ (Marks(q)' <=> Marks(q)) /\ (Deletes(q)' <=> Deletes(q))
                         /\ (Inserts(q)' <=> Inserts(q)) /\ ~(Marks(q) /\ Deletes(q))
                         /\ ~(Inserts(q) /\ (Marks(q) \/ Deletes(q)))
      BY <2>1, SameKind, Kinds
    <2>t. PointTypes
      BY Points
    <2>3. /\ todo'[r] = todo[r] \ {want[r]} /\ want'[r] = None
          /\ \A q \in Req \ {r} : todo'[q] = todo[q] /\ want'[q] = want[q]
      BY <2>1 DEF TypeOK
    <2>4. TypeOK'
      BY <2>1 DEF TypeOK
    <2>5. WorkInv'
      BY <2>1, <2>2, <2>3 DEF WorkInv, WorkOf
    <2>6. LockInv'
      BY <2>1, <2>2, <2>t DEF LockInv, PointTypes
    <2>7. DraftInv'
      BY <2>1, <2>2, <2>t DEF DraftInv, PointTypes
    <2>8. MarkInv'
      BY <2>1, <2>2, <2>3 DEF MarkInv
    <2>9. LinkInv'
      <3>1. \A t \in Task : grip[t] # r
        BY <2>1, <2>2 DEF LockInv
      <3> QED
        BY <2>1, <2>3, <2>t, <3>1 DEF LinkInv, PointTypes
    <2>10. MineInv'
      BY <2>1, <2>2, <2>3 DEF MineInv
    <2>11. TodoInv'
      BY <2>1, <2>3 DEF TodoInv
    <2>12. OrderInv'
      BY <2>1, <2>2, <2>3 DEF OrderInv
    <2>13. ShareInv'
      <3> SUFFICES ASSUME NEW q \in Req, Inserts(q), pc[q] = "flush",
                          NEW n \in loaded[q], n \notin todo'[q]
                   PROVE  About[n] \notin gone /\ grip[About[n]] = Nobody
        BY <2>1, <2>2 DEF ShareInv
      <3>1. CASE q = r /\ n = want[r]
        BY <2>1, <3>1
      <3>2. CASE q # r \/ n # want[r]
        BY <2>3, <3>2 DEF ShareInv
      <3> QED
        BY <3>1, <3>2
    <2>14. ReadIffToldSo'
      BY <2>1, <2>2 DEF ReadIffToldSo
    <2>15. NoDanglingLinks'
      BY <2>1 DEF NoDanglingLinks
    <2> QED
      BY <2>4, <2>5, <2>6, <2>7, <2>8, <2>9, <2>10, <2>11, <2>12, <2>13, <2>14, <2>15
  <1> QED
    BY <1>0, <1>9

(* A listing touches no row.                                               *)
LEMMA ListInd ==
    ASSUME Ind, NEW r \in Req, BeginList(r) \/ Count(r) \/ Select(r) PROVE Ind'
  <1> USE Basics DEF Ind, Places
  <1>t. UNCHANGED <<there, row, gone, holder, draft, grip, call>>
        /\ UNCHANGED <<loaded, todo, doomed, want>>
    BY DEF BeginList, Count, Select, locks, flushes
  <1>1. \A q \in Req : /\ (Marks(q)' <=> Marks(q)) /\ (Deletes(q)' <=> Deletes(q))
                       /\ (Inserts(q)' <=> Inserts(q)) /\ ~(Marks(q) /\ Deletes(q))
                       /\ ~(Inserts(q) /\ (Marks(q) \/ Deletes(q)))
    BY <1>t, SameKind, Kinds
  <1>2. /\ ~Marks(r) /\ ~Inserts(r) /\ pc[r] # "flush" /\ pc'[r] # "flush"
        /\ answer'[r] # "none" => pc'[r] = "end"
        /\ \A q \in Req \ {r} : pc'[q] = pc[q] /\ answer'[q] = answer[q]
    <2>1. ~Marks(r) /\ ~Inserts(r) /\ pc[r] # "flush"
      BY DEF BeginList, Count, Select, WorkInv, WorkOf, Marks, Inserts
    <2>2. answer[r] # "none" => pc[r] = "end"
      BY DEF WorkInv, WorkOf
    <2> QED
      BY <2>1, <2>2 DEF BeginList, Count, Select, End, TypeOK
  <1>3. TypeOK'
    <2>1. Listing(r) \in SUBSET Note /\ Cardinality(Listing(r)) \in Nat
      BY ListingType
    <2>2. CASE BeginList(r)
      BY <1>t, <2>1, <2>2 DEF BeginList, TypeOK
    <2>3. CASE Count(r)
      BY <1>t, <2>1, <2>3 DEF Count, TypeOK
    <2>4. CASE Select(r)
      <3> DEFINE items == PageOf(Listing(r), page[r], PageSize)
      <3>1. items \in SUBSET Note
        BY <2>1 DEF PageOf
      <3>2. /\ seen' = [seen EXCEPT ![r] = @ \cup items]
            /\ twice' = [twice EXCEPT ![r] = @ \cup (seen[r] \cap items)]
        BY <2>4 DEF Select
      <3> HIDE DEF items
      <3>3. seen' \in [Req -> SUBSET Note] /\ twice' \in [Req -> SUBSET Note]
        BY <3>1, <3>2 DEF TypeOK
      <3>4. missed' \in [Req -> SUBSET Note]
        <4>1. (start[r] \cap Listing(r)) \ (seen[r] \cup items) \in SUBSET Note
          BY <2>1
        <4> QED
          BY <2>4, <4>1 DEF Select, TypeOK, items
      <3>5. pc' \in [Req -> Places] /\ page' \in [Req -> Nat]
            /\ answer' \in [Req -> {"none", "ok", "missing", "error"}]
        <4>1. \/ /\ pc' = [pc EXCEPT ![r] = "count"]
                 /\ page' = [page EXCEPT ![r] = page[r] + 1]
                 /\ UNCHANGED answer
              \/ /\ pc' = [pc EXCEPT ![r] = "end"]
                 /\ answer' = [answer EXCEPT ![r] = "ok"]
                 /\ UNCHANGED page
          BY <2>4 DEF Select, End
        <4>2. /\ pc \in [Req -> Places] /\ page \in [Req -> Nat]
              /\ answer \in [Req -> {"none", "ok", "missing", "error"}]
          BY DEF TypeOK
        <4> HIDE DEF TypeOK, Ind
        <4>3. pc' \in [Req -> Places]
          BY <4>1, <4>2 DEF Places
        <4>4. page' \in [Req -> Nat]
          BY <4>1, <4>2
        <4>5. answer' \in [Req -> {"none", "ok", "missing", "error"}]
          BY <4>1, <4>2
        <4> QED
          BY <4>3, <4>4, <4>5
      <3> QED
        BY <1>t, <2>4, <3>3, <3>4, <3>5 DEF Select, TypeOK
    <2> QED
      BY <2>2, <2>3, <2>4
  <1>4. WorkInv'
    BY <1>1, <1>2, <1>t DEF WorkInv, WorkOf
  <1>5. LockInv' /\ OrderInv' /\ NoDanglingLinks'
    <2>1. LockInv'
      BY <1>1, <1>2, <1>t, Points DEF LockInv, PointTypes
    <2>2. OrderInv'
      BY <1>1, <1>t DEF OrderInv
    <2> QED
      BY <1>t, <2>1, <2>2 DEF NoDanglingLinks
  <1>8. DraftInv' /\ LinkInv' /\ MineInv'
    <2>1. DraftInv'
      BY <1>1, <1>t, Points DEF DraftInv, PointTypes
    <2>2. LinkInv'
      BY <1>t DEF LinkInv
    <2>3. MineInv'
      BY <1>1, <1>t DEF MineInv
    <2> QED
      BY <2>1, <2>2, <2>3
  <1>6. MarkInv'
    BY <1>1, <1>2, <1>t DEF MarkInv
  <1>7. ReadIffToldSo'
    BY <1>1, <1>2, <1>t DEF ReadIffToldSo
  <1>20. TodoInv'
    BY <1>t DEF TodoInv
  <1>21. ShareInv'
    BY <1>1, <1>2, <1>t DEF ShareInv
  <1> QED
    BY <1>3, <1>4, <1>5, <1>6, <1>7, <1>8, <1>20, <1>21

(* Every step of the system keeps the invariant.                           *)
LEMMA Inductive == Ind /\ [Next]_vars => Ind'
  <1> SUFFICES ASSUME Ind, [Next]_vars PROVE Ind'
    OBVIOUS
  <1>1. CASE UNCHANGED vars
    BY <1>1 DEF vars, locks, flushes, pages, Ind, TypeOK, WorkInv, WorkOf, LockInv,
       DraftInv, MarkInv, LinkInv, MineInv, TodoInv, OrderInv, ShareInv, ReadIffToldSo,
       NoDanglingLinks, Marks, Deletes, Inserts
  <1>3. ASSUME NEW r \in Req, Proceed(r) PROVE Ind'
    BY <1>3, DeleteRowInd, AimInd, WriteInd, InsertRowInd, CommitInd, ListInd DEF Proceed
  <1>4. ASSUME NEW r \in Req,
               BeginMark(r) \/ BeginInsert(r) \/ BeginDelete(r) \/ BeginList(r)
        PROVE  Ind'
    BY <1>4, BeginMarkInd, BeginInsertInd, BeginDeleteInd, ListInd
  <1>5. ASSUME NEW r \in Req, BreakDeadlock(r) \/ Fail(r) PROVE Ind'
    <2>1. pc[r] = "flush" /\ Rollback(r)
      BY <1>5 DEF BreakDeadlock, Victim, Cycle, Deadlocked, WaitsFor, Fail
    <2> QED
      BY <2>1, RollbackInd
  <1> QED
    BY <1>1, <1>3, <1>4, <1>5 DEF Next

LEMMA Initial == Init => Ind
  <1> SUFFICES ASSUME Init PROVE Ind
    OBVIOUS
  <1> USE InboxAssumption DEF Init
  <1>1. TypeOK
    <2>1. call \in [Req -> Call]
      OBVIOUS
    <2>2. row \in [Note -> Row] /\ draft \in [Note -> Row]
      BY DEF Row
    <2>3. {} \in SUBSET Note /\ {} \in SUBSET Task /\ {} \in SUBSET {"left", "added", "pushed"}
      OBVIOUS
    <2> QED
      BY <2>1, <2>2, <2>3 DEF TypeOK, Places
  <1>2. WorkInv /\ LockInv /\ DraftInv
    BY DEF WorkInv, WorkOf, LockInv, DraftInv
  <1>3. MarkInv /\ LinkInv /\ MineInv /\ TodoInv /\ OrderInv /\ ShareInv
    BY DEF MarkInv, LinkInv, MineInv, TodoInv, OrderInv, ShareInv
  <1>4. ReadIffToldSo /\ NoDanglingLinks
    BY DEF ReadIffToldSo, NoDanglingLinks
  <1> QED
    BY <1>1, <1>2, <1>3, <1>4 DEF Ind

(* Ids do not go up for ever.                                              *)
LEMMA NoEndlessRise ==
    ASSUME NEW W, W \subseteq 0..MaxId, W # {}, \A v \in W : \E w \in W : v < w
    PROVE  FALSE
  <1> USE InboxAssumption
  <1> DEFINE T == {k \in Nat : \A w \in W : w <= k}
             R == OpToRel(<, Nat)
  <1>1. MaxId \in T
    OBVIOUS
  <1>2. PICK k \in T : \A j \in T : ~(<<j, k>> \in R)
    <2> HIDE DEF R
    <2>1. IsWellFoundedOn(R, Nat)
      BY NatLessThanWellFounded DEF R
    <2>2. T \subseteq Nat /\ T # {}
      BY <1>1
    <2> HIDE DEF T
    <2> QED
      BY <2>1, <2>2, WFMin
  <1>3. \A j \in T : ~(j < k)
    BY <1>2 DEF OpToRel
  <1>4. k \notin W
    OBVIOUS
  <1>5. \A w \in W : w \in Nat /\ w <= k /\ w # k
    BY <1>4
  <1>6. k \in Nat /\ k # 0
    <2>1. PICK w \in W : TRUE
      OBVIOUS
    <2>2. w \in Nat /\ w <= k /\ w # k
      BY <1>5
    <2>3. k \in Nat
      OBVIOUS
    <2> HIDE DEF T
    <2> QED
      BY <2>2, <2>3
  <1>7. k - 1 \in Nat /\ \A w \in W : w <= k - 1
    BY <1>5, <1>6
  <1>8. k - 1 \in T
    BY <1>7
  <1> QED
    BY <1>3, <1>6, <1>8

(* Who waits holds no row of its own kind that is still to come; the order *)
(* of the locks rules out a cycle of one kind, and who has one row to lock *)
(* waits, or is waited for, but not both.                                  *)
LEMMA CycleNeedsBulk == Ind => OnlyBulkDeadlocks
  <1> SUFFICES ASSUME Ind, NEW S \in SUBSET Waiting, Cycle(S)
               PROVE  /\ (\E r \in S : Deletes(r)) /\ (\E r \in S : ~Deletes(r))
                      /\ \A r \in S :
                            /\ call[r].kind # "mark"
                            /\ Inserts(r) => \E m, n \in call[r].notes : About[m] # About[n]
    BY DEF OnlyBulkDeadlocks
  <1> USE Basics DEF Ind
  <1>t. PointTypes
    BY Points
  <1>0. S \in SUBSET Req
    BY DEF Waiting
  <1>1. /\ S # {} /\ \A r \in S : \E s \in S : WaitsFor(r, s)
        /\ \A r \in S : /\ r \in Req /\ pc[r] = "flush"
                        /\ Marks(r) \/ Deletes(r) \/ Inserts(r)
                        /\ ~(Marks(r) /\ Deletes(r))
                        /\ ~(Inserts(r) /\ (Marks(r) \/ Deletes(r)))
    BY <1>0, Kinds DEF Cycle, Deadlocked, WaitsFor, WorkInv, WorkOf
  <1>2. \A r \in S : Inserts(r) =>
           /\ want[r] \in todo[r] /\ want[r] \in Note /\ About[want[r]] \in Task
           /\ grip[About[want[r]]] \in S
    <2> SUFFICES ASSUME NEW r \in S, Inserts(r), NEW s \in S, WaitsFor(r, s)
                 PROVE  /\ want[r] \in todo[r] /\ want[r] \in Note
                        /\ About[want[r]] \in Task /\ grip[About[want[r]]] \in S
      BY <1>1
    <2>1. doomed[r] = {}
      BY <1>1 DEF WorkInv, WorkOf
    <2>2. want[r] # None /\ grip[About[want[r]]] = s
      BY <2>1 DEF WaitsFor
    <2>3. want[r] \in todo[r] /\ want[r] \in Note
      BY <1>1, <1>t, <2>2 DEF WorkInv, WorkOf, PointTypes
    <2> QED
      BY <2>2, <2>3
  <1>3. ASSUME \A r \in S : ~Deletes(r) PROVE FALSE
    <2>0. \A r \in S : Marks(r)
      <3> SUFFICES ASSUME NEW r \in S, Inserts(r) PROVE FALSE
        BY <1>1, <1>3
      <3>1. About[want[r]] \in Task /\ grip[About[want[r]]] \in S
        BY <1>2
      <3>2. Deletes(grip[About[want[r]]])
        BY <1>0, <3>1 DEF LockInv
      <3> QED
        BY <1>3, <3>1, <3>2
    <2> DEFINE W == {want[r] : r \in S}
    <2>1. \A r \in S : want[r] \in Note /\ want[r] \in todo[r]
      <3> SUFFICES ASSUME NEW r \in S, NEW s \in S, WaitsFor(r, s)
                   PROVE  want[r] \in Note /\ want[r] \in todo[r]
        BY <1>1
      <3>1. doomed[r] = {}
        BY <1>1, <2>0 DEF WorkInv, WorkOf
      <3> QED
        BY <1>1, <1>t, <3>1 DEF WaitsFor, WorkInv, WorkOf, PointTypes
    <2>2. \A r \in S : \E s \in S : want[r] < want[s]
      <3>1. \A r \in S : \E s \in S : holder[want[r]] = s
        BY <1>1, <2>0, <2>1 DEF WaitsFor
      <3> QED
        BY <1>1, <2>0, <2>1, <3>1 DEF OrderInv
    <2>3. W \subseteq 0..MaxId /\ W # {}
      <3>1. W \subseteq Note /\ W # {}
        BY <1>1, <2>1
      <3> HIDE DEF W
      <3> QED
        BY <3>1, InboxAssumption
    <2>4. \A v \in W : \E w \in W : v < w
      BY <2>2
    <2> HIDE DEF W
    <2> QED
      BY <2>3, <2>4, NoEndlessRise
  <1>4. ASSUME \A r \in S : Deletes(r) PROVE FALSE
    <2> DEFINE W == {t \in Task : \E r \in S : First(t, doomed[r]) /\ grip[t] \in S}
    <2>1. \A r \in S : \E s \in S : \E t \in doomed[r] : First(t, doomed[r]) /\ grip[t] = s
      <3> SUFFICES ASSUME NEW r \in S, NEW s \in S, WaitsFor(r, s)
                   PROVE  \E t \in doomed[r] : First(t, doomed[r]) /\ grip[t] = s
        BY <1>1
      <3>0. ~Inserts(r) /\ ~Inserts(s) /\ r \in Req /\ s \in Req
        BY <1>1, <1>4
      <3>1. ASSUME want[r] # None, holder[want[r]] = s PROVE FALSE
        <4>1. want[r] \in Note /\ want[r] \in todo[r]
          BY <1>t, <3>0, <3>1 DEF WorkInv, WorkOf, PointTypes
        <4>2. r = s
          BY <1>4, <3>0, <3>1, <4>1 DEF MineInv
        <4> QED
          BY <3>0, <3>1, <4>1, <4>2 DEF TodoInv
      <3> QED
        BY <3>0, <3>1 DEF WaitsFor, Shares
    <2>2. \A t \in W : \E u \in W : t < u
      <3> SUFFICES ASSUME NEW t \in W PROVE \E u \in W : t < u
        OBVIOUS
      <3>1. grip[t] \in S /\ t \in Task /\ grip[t] \in Req
        BY <1>0
      <3>2. PICK u \in doomed[grip[t]] : First(u, doomed[grip[t]]) /\ grip[u] \in S
        BY <2>1, <3>1
      <3>3. u \in W
        BY <1>t, <3>1, <3>2 DEF PointTypes
      <3> QED
        BY <3>1, <3>2, <3>3 DEF OrderInv
    <2>3. W \subseteq 0..MaxId /\ W # {}
      <3>1. W \subseteq Task /\ W # {}
        BY <1>0, <1>1, <1>t, <2>1 DEF PointTypes
      <3> HIDE DEF W
      <3> QED
        BY <3>1, InboxAssumption
    <2> HIDE DEF W
    <2> QED
      BY <2>2, <2>3, NoEndlessRise
  <1>5. \A r \in S : \E p \in S : WaitsFor(p, r)
    <2> SUFFICES ASSUME NEW r \in S, \A p \in S : ~WaitsFor(p, r) PROVE FALSE
      OBVIOUS
    <2>1. S \ {r} \in SUBSET S /\ S \ {r} # S
      OBVIOUS
    <2>2. \A q \in S : \E s \in S \ {r} : WaitsFor(q, s)
      BY <1>1
    <2>3. Deadlocked(S \ {r})
      BY <2>2 DEF Deadlocked
    <2> QED
      BY <2>1, <2>3 DEF Cycle
  <1>6. ASSUME NEW r \in S, call[r].kind = "mark" PROVE FALSE
    <2>1. r \in Req /\ Marks(r) /\ ~Deletes(r) /\ ~Inserts(r)
      BY <1>0, <1>6, Kinds DEF Marks
    <2>2. PICK s \in S : WaitsFor(r, s)
      BY <1>1
    <2>3. want[r] \in todo[r] /\ want[r] = call[r].note
      <3>1. want[r] # None
        BY <2>1, <2>2 DEF WaitsFor, WorkInv, WorkOf
      <3> QED
        BY <1>6, <2>1, <3>1 DEF WorkInv, WorkOf
    <2>4. PICK p \in S : WaitsFor(p, r)
      BY <1>5
    <2>5. \A t \in Task : grip[t] # r
      BY <2>1 DEF LockInv
    <2>6. p \in Req /\ want[p] # None /\ holder[want[p]] = r
      <3>1. doomed[p] \subseteq Task /\ (want[p] # None => want[p] \in Note)
        BY <1>0, <1>t DEF PointTypes
      <3> QED
        BY <1>0, <2>1, <2>4, <2>5, <3>1 DEF WaitsFor, Shares
    <2>7. want[p] \in Note /\ want[p] = call[r].note
      <3>1. want[p] \in Note
        BY <1>t, <2>6 DEF PointTypes
      <3>2. want[p] \in loaded[r]
        BY <2>1, <2>6, <3>1 DEF DraftInv
      <3> QED
        BY <1>6, <2>1, <3>1, <3>2 DEF WorkInv, WorkOf
    <2> QED
      BY <2>1, <2>3, <2>6, <2>7 DEF TodoInv
  <1>7. ASSUME NEW r \in S, Inserts(r)
        PROVE  \E m, n \in call[r].notes : About[m] # About[n]
    <2>1. /\ r \in Req /\ want[r] \in todo[r] /\ About[want[r]] \in Task
          /\ grip[About[want[r]]] \in Req /\ pc[r] = "flush"
      BY <1>0, <1>1, <1>2, <1>7
    <2>2. PICK p \in S : WaitsFor(p, r)
      BY <1>5
    <2>3. /\ \A n \in Note : holder[n] # r
          /\ \A t \in Task : grip[t] # r
      <3>1. ~Deletes(r)
        BY <1>7, <2>1, Kinds
      <3> QED
        BY <1>7, <2>1, <3>1 DEF LockInv
    <2>4. PICK t \in Task : Shares(r, t)
      <3>1. /\ doomed[p] \subseteq Task
            /\ want[p] # None => want[p] \in Note /\ About[want[p]] \in Task
        BY <1>0, <1>t DEF PointTypes
      <3> QED
        BY <2>2, <2>3, <3>1 DEF WaitsFor
    <2>5. PICK n \in loaded[r] \ todo[r] : About[n] = t
      BY <2>4 DEF Shares
    <2>6. grip[About[n]] = Nobody
      BY <1>7, <2>1, <2>5 DEF ShareInv
    <2>7. n \in call[r].notes /\ want[r] \in call[r].notes
      BY <1>7, <2>1, <2>5 DEF WorkInv, WorkOf
    <2> QED
      BY <2>1, <2>6, <2>7
  <1> QED
    BY <1>3, <1>4, <1>6, <1>7

LEMMA Invariant == Spec => []Ind
  BY Initial, Inductive, PTL DEF Spec

-----------------------------------------------------------------------------
(* Types, and no draft outlives its lock.                                  *)
THEOREM TypeCorrect == Spec => []TypeOK
  <1>1. Ind => TypeOK
    BY DEF Ind
  <1> QED
    BY <1>1, Invariant, PTL

(* Whoever may be aborted by a deadlock is a bulk request, and one of them *)
(* deletes: neither markings nor insertions nor deletions alone deadlock,  *)
(* and marking or inserting one notification is never part of it, however  *)
(* many requests there are.                                                *)
THEOREM BulkDeadlocks == Spec => []OnlyBulkDeadlocks
  BY Invariant, CycleNeedsBulk, PTL

(* A notification is read if and only if a request of its recipient has    *)
(* marked it and committed.                                                *)
THEOREM ReadFaithfully == Spec => []ReadIffToldSo
  <1>1. Ind => ReadIffToldSo
    BY DEF Ind
  <1> QED
    BY <1>1, Invariant, PTL

(* The foreign key of notifications holds against markings that write the  *)
(* same rows.                                                              *)
THEOREM LinksHold == Spec => []NoDanglingLinks
  <1>1. Ind => NoDanglingLinks
    BY DEF Ind
  <1> QED
    BY <1>1, Invariant, PTL

-----------------------------------------------------------------------------
(* The pages of a listing.                                                 *)

(* A row has as many rows before it in a larger listing, or more.          *)
LEMMA RankGrows ==
    ASSUME NEW T, IsFiniteSet(T), NEW S \in SUBSET T, NEW n
    PROVE  Rank(S, n) \in Nat /\ Rank(T, n) \in Nat /\ Rank(S, n) <= Rank(T, n)
  <1> DEFINE A == {m \in S : m > n}
             B == {m \in T : m > n}
  <1>1. B \in SUBSET T /\ A \in SUBSET B
    OBVIOUS
  <1>2. IsFiniteSet(B)
    BY <1>1, FS_Subset
  <1>3. IsFiniteSet(A) /\ Cardinality(A) <= Cardinality(B)
    BY <1>1, <1>2, FS_Subset
  <1>4. Cardinality(A) \in Nat /\ Cardinality(B) \in Nat
    BY <1>2, <1>3, FS_CardinalityType
  <1> QED
    BY <1>3, <1>4 DEF Rank

(* Every row has fewer rows before it than there are.                      *)
LEMMA RankBelow ==
    ASSUME NEW S \in SUBSET Nat, IsFiniteSet(S), NEW n \in S
    PROVE  Rank(S, n) \in Nat /\ Rank(S, n) < Cardinality(S)
  <1> DEFINE A == {m \in S : m > n}
  <1>1. A \in SUBSET S /\ n \notin A
    OBVIOUS
  <1>2. IsFiniteSet(A) /\ Cardinality(A) <= Cardinality(S) /\ Cardinality(A) # Cardinality(S)
    BY <1>1, FS_Subset
  <1>3. Cardinality(A) \in Nat /\ Cardinality(S) \in Nat
    BY <1>2, FS_CardinalityType
  <1> QED
    BY <1>2, <1>3 DEF Rank

(* Multiplication is monotonic.                                            *)
LEMMA Times ==
    ASSUME NEW p \in Nat, NEW q \in Nat, NEW s \in Nat, p <= q
    PROVE  p * s <= q * s
  BY SMT

(* Integer division.                                                       *)
LEMMA Quotient ==
    ASSUME NEW a \in Nat, NEW s \in Nat, s > 0
    PROVE  a \div s \in Nat /\ (a \div s) * s <= a /\ a < (a \div s) * s + s
  <1>1. a \div s \in Nat
    BY SMT
  <1>2. (a \div s) * s <= a
    BY SMT
  <1>3. a < (a \div s) * s + s
    BY SMT
  <1> QED
    BY <1>1, <1>2, <1>3

(* math.ceil: there is a next page if and only if the pages so far have no *)
(* room for all rows.                                                      *)
LEMMA Frame ==
    ASSUME NEW rows \in Nat, NEW p \in Nat, NEW size \in Nat \ {0}
    PROVE  HasNext(rows, p, size) <=> p * size < rows
  <1>1. rows + size - 1 \in Nat /\ size > 0
    OBVIOUS
  <1>2. PICK q \in Nat : /\ q = TotalPages(rows, size)
                        /\ q * size <= rows + size - 1
                        /\ rows + size - 1 < q * size + size
    BY <1>1, Quotient DEF TotalPages
  <1>3. HasNext(rows, p, size) <=> p < q
    BY <1>2 DEF HasNext
  <1>4. p * size \in Nat /\ q * size \in Nat /\ (p + 1) * size = p * size + size
    OBVIOUS
  <1>5. CASE p < q
    <2>1. (p + 1) * size <= q * size
      BY <1>5, Times
    <2> QED
      BY <1>2, <1>3, <1>4, <1>5, <2>1
  <1>6. CASE q <= p
    <2>1. q * size <= p * size
      BY <1>6, Times
    <2> QED
      BY <1>2, <1>3, <1>4, <1>6, <2>1
  <1> QED
    BY <1>5, <1>6

(* The ranks of n rows are 0 to n - 1, each of them once.                  *)
LEMMA RankCounts ==
    ASSUME NEW S \in SUBSET Nat, IsFiniteSet(S)
    PROVE  /\ \A m, n \in S : Rank(S, m) = Rank(S, n) => m = n
           /\ \A k \in Nat : k < Cardinality(S) => \E n \in S : Rank(S, n) = k
  <1> DEFINE f == [n \in S |-> Rank(S, n)]
  <1>1. PICK N \in Nat : N = Cardinality(S)
    BY FS_CardinalityType
  <1>2. \A n \in S : Rank(S, n) \in 0..(N - 1)
    <2> TAKE n \in S
    <2>1. Rank(S, n) \in Nat /\ Rank(S, n) < N
      BY <1>1, RankBelow
    <2> QED
      BY <2>1
  <1>3. ASSUME NEW m \in S, NEW n \in S, m < n PROVE Rank(S, m) # Rank(S, n)
    <2> DEFINE A == {k \in S : k > m}
               B == {k \in S : k > n}
    <2>0. n \in Nat /\ ~(n > n) /\ n > m /\ \A k \in S : k > n => k > m
      BY <1>3
    <2>1. B \in SUBSET A /\ n \in A /\ n \notin B
      BY <2>0
    <2>2. IsFiniteSet(A)
      BY FS_Subset
    <2>3. Cardinality(A) # Cardinality(B)
      BY <2>1, <2>2, FS_Subset
    <2> QED
      BY <2>3 DEF Rank
  <1>4. \A m, n \in S : Rank(S, m) = Rank(S, n) => m = n
    BY <1>3
  <1>5. f \in Injection(S, 0..(N - 1))
    BY <1>2, <1>4 DEF Injection, IsInjective
  <1>6. IsFiniteSet(0..(N - 1)) /\ Cardinality(0..(N - 1)) = N
    BY FS_Interval
  <1>7. f \in Surjection(S, 0..(N - 1))
    BY <1>1, <1>5, <1>6, FS_Injection
  <1>8. \A k \in 0..(N - 1) : \E n \in S : Rank(S, n) = k
    BY <1>7 DEF Surjection
  <1> QED
    BY <1>1, <1>4, <1>8

(* A page holds a row for each rank that it asks for.                      *)
LEMMA PageSizes ==
    ASSUME NEW S \in SUBSET Nat, IsFiniteSet(S), NEW a \in Nat, NEW size \in Nat \ {0}
    PROVE  LET P == {n \in S : a <= Rank(S, n) /\ Rank(S, n) < a + size}
           IN  /\ Cardinality(P) <= size
               /\ a + size <= Cardinality(S) => Cardinality(P) = size
  <1> DEFINE P == {n \in S : a <= Rank(S, n) /\ Rank(S, n) < a + size}
             R == a..(a + size - 1)
             f == [n \in P |-> Rank(S, n)]
  <1>1. \A n \in S : Rank(S, n) \in Nat
    BY RankBelow
  <1>2. f \in Injection(P, R)
    <2>1. \A n \in P : Rank(S, n) \in R
      BY <1>1
    <2>2. \A m, n \in P : Rank(S, m) = Rank(S, n) => m = n
      BY RankCounts
    <2> HIDE DEF P, R
    <2> QED
      BY <2>1, <2>2 DEF Injection, IsInjective
  <1>3. IsFiniteSet(R) /\ Cardinality(R) = size
    <2>1. a \in Int /\ a + size - 1 \in Int /\ ~(a > a + size - 1)
          /\ (a + size - 1) - a + 1 = size
      OBVIOUS
    <2> QED
      BY <2>1, FS_Interval
  <1>4. Cardinality(P) <= size
    <2> HIDE DEF f, P, R
    <2> QED
      BY <1>2, <1>3, FS_Injection
  <1>5. ASSUME a + size <= Cardinality(S) PROVE Cardinality(P) = size
    <2>1. Cardinality(S) \in Nat
      BY FS_CardinalityType
    <2>2. ASSUME NEW k \in R PROVE \E n \in P : Rank(S, n) = k
      <3>1. k \in Nat /\ a <= k /\ k < a + size /\ k < Cardinality(S)
        BY <1>5, <2>1
      <3>2. PICK n \in S : Rank(S, n) = k
        BY <3>1, RankCounts
      <3> QED
        BY <3>1, <3>2
    <2>3. f \in [P -> R]
      BY <1>2 DEF Injection
    <2>4. f \in Surjection(P, R)
      <3> HIDE DEF P, R
      <3> QED
        BY <2>2, <2>3 DEF Surjection
    <2> HIDE DEF f, P, R
    <2> QED
      BY <1>2, <1>3, <2>4, FS_Injection
  <1> QED
    BY <1>4, <1>5

(* Pages cut a listing that does not change: every row is on exactly one   *)
(* of the total_pages pages, none is longer than page_size, has_next says  *)
(* that the next page is not empty, and a page that has a next is full.    *)
THEOREM PagesAreCut ==
    ASSUME NEW S \in SUBSET Nat, IsFiniteSet(S), NEW size \in Nat \ {0}
    PROVE  /\ \A n \in S : \E p \in 1..TotalPages(Cardinality(S), size) :
                 /\ n \in PageOf(S, p, size)
                 /\ \A q \in Nat \ {0} : n \in PageOf(S, q, size) => q = p
           /\ \A p \in Nat \ {0} :
                 /\ Cardinality(PageOf(S, p, size)) <= size
                 /\ HasNext(Cardinality(S), p, size) =>
                       Cardinality(PageOf(S, p, size)) = size
                 /\ HasNext(Cardinality(S), p, size) <=> PageOf(S, p + 1, size) # {}
  <1>1. PICK N \in Nat : N = Cardinality(S)
    BY FS_CardinalityType
  <1>2. \A n \in S : Rank(S, n) \in Nat /\ Rank(S, n) < N
    BY <1>1, RankBelow
  <1>3. ASSUME NEW k \in Nat
        PROVE  /\ k * size \in Nat /\ (k + 1) * size = k * size + size /\ (k + 1) - 1 = k
               /\ HasNext(N, k, size) <=> k * size < N
    BY Frame
  <1>4. ASSUME NEW n \in S, NEW p \in Nat \ {0}, NEW q \in Nat \ {0}, p < q,
               n \in PageOf(S, p, size), n \in PageOf(S, q, size)
        PROVE  FALSE
    <2>1. PICK k \in Nat : k = q - 1 /\ p <= k
      BY <1>4
    <2>2. Rank(S, n) < p * size /\ k * size <= Rank(S, n)
      BY <1>4, <2>1 DEF PageOf
    <2>3. p * size <= k * size /\ p * size \in Nat /\ k * size \in Nat
      BY <1>3, <2>1, Times
    <2> QED
      BY <1>2, <2>2, <2>3
  <1>5. ASSUME NEW n \in S
        PROVE  \E p \in 1..TotalPages(N, size) :
                 /\ n \in PageOf(S, p, size)
                 /\ \A q \in Nat \ {0} : n \in PageOf(S, q, size) => q = p
    <2>0. PICK m \in Nat : m = Rank(S, n)
      BY <1>2
    <2>1. PICK k \in Nat : k * size <= m /\ m < k * size + size
      <3>1. /\ m \div size \in Nat
            /\ (m \div size) * size <= m /\ m < (m \div size) * size + size
        BY Quotient
      <3> QED
        BY <3>1
    <2>2. n \in PageOf(S, k + 1, size)
      BY <1>3, <2>0, <2>1 DEF PageOf
    <2>3. k < TotalPages(N, size)
      <3>1. k * size < N
        BY <1>1, <1>2, <1>3, <2>0, <2>1
      <3> QED
        BY <1>3, <3>1 DEF HasNext
    <2>4. k + 1 \in 1..TotalPages(N, size)
      <3>1. TotalPages(N, size) \in Nat
        <4>1. N + size - 1 \in Nat
          OBVIOUS
        <4> QED
          BY <4>1, Quotient DEF TotalPages
      <3> QED
        BY <2>3, <3>1
    <2>5. \A q \in Nat \ {0} : n \in PageOf(S, q, size) => q = k + 1
      BY <1>4, <2>2
    <2> QED
      BY <2>2, <2>4, <2>5
  <1>6. ASSUME NEW p \in Nat \ {0}
        PROVE  /\ Cardinality(PageOf(S, p, size)) <= size
               /\ HasNext(N, p, size) => Cardinality(PageOf(S, p, size)) = size
    <2>1. PICK k \in Nat : k = p - 1 /\ k + 1 = p
      OBVIOUS
    <2>2. PageOf(S, p, size) = {n \in S : k * size <= Rank(S, n) /\ Rank(S, n) < k * size + size}
      BY <1>3, <2>1 DEF PageOf
    <2>3. HasNext(N, p, size) => k * size + size <= Cardinality(S)
      <3>1. HasNext(N, k + 1, size) <=> (k + 1) * size < N
        BY Frame
      <3> QED
        BY <1>1, <1>3, <2>1, <3>1
    <2>4. k * size \in Nat
      BY <1>3
    <2>5. /\ Cardinality(PageOf(S, p, size)) <= size
          /\ k * size + size <= Cardinality(S) => Cardinality(PageOf(S, p, size)) = size
      BY <2>2, <2>4, PageSizes
    <2> QED
      BY <2>3, <2>5
  <1>7. ASSUME NEW p \in Nat \ {0}
        PROVE  HasNext(N, p, size) <=> PageOf(S, p + 1, size) # {}
    <2>1. \A n : n \in PageOf(S, p + 1, size) <=>
                 n \in S /\ p * size <= Rank(S, n) /\ Rank(S, n) < p * size + size
      BY <1>3 DEF PageOf
    <2>2. ASSUME p * size < N PROVE PageOf(S, p + 1, size) # {}
      <3>1. PICK n \in S : Rank(S, n) = p * size
        BY <1>1, <1>3, <2>2, RankCounts
      <3> QED
        BY <1>3, <2>1, <3>1
    <2>3. ASSUME NEW n \in PageOf(S, p + 1, size) PROVE p * size < N
      <3>1. p * size <= Rank(S, n) /\ Rank(S, n) \in Nat /\ Rank(S, n) < N
        BY <1>2, <2>1
      <3>2. p * size \in Nat
        BY <1>3
      <3> QED
        BY <1>1, <3>1, <3>2
    <2> QED
      BY <1>3, <2>2, <2>3
  <1> QED
    BY <1>1, <1>5, <1>6, <1>7

-----------------------------------------------------------------------------
(* What a client that turns the pages knows.  Unless something was added,  *)
(* what it has seen comes before the page it is about to ask for; unless   *)
(* something left, or came between a COUNT and its SELECT, it has seen all *)
(* that comes before that page.                                            *)
PagesOf(r) ==
    /\ pc[r] = "idle" => seen[r] = {} /\ twice[r] = {} /\ missed[r] = {}
    /\ Turning(r) => page[r] # 0
    /\ Turning(r) /\ "added" \notin moved[r] =>
          \A n \in seen[r] \cap Listing(r) : Rank(Listing(r), n) < (page[r] - 1) * PageSize
    /\ Turning(r) /\ moved[r] \cap {"left", "pushed"} = {} =>
          /\ start[r] \subseteq Listing(r)
          /\ \A n \in start[r] : Rank(Listing(r), n) < (page[r] - 1) * PageSize => n \in seen[r]
          /\ pc[r] = "select" => total[r] = Cardinality(Listing(r))
    /\ missed[r] # {} => moved[r] \cap {"left", "pushed"} # {}
    /\ twice[r] # {} => "added" \in moved[r]

PagesInv == \A r \in Req : PagesOf(r)

(* What a step of somebody else does to a client that turns pages: the     *)
(* history tells of every change of the listing.                           *)
Told(r) ==
    /\ UNCHANGED <<page[r], total[r], seen[r], start[r], twice[r], missed[r]>>
    /\ moved[r] \subseteq moved'[r]
    /\ pc'[r] = "idle" => pc[r] = "idle"
    /\ Turning(r)' => pc'[r] = pc[r]
    /\ Turning(r)' =>
          /\ Listing(r) \subseteq Listing(r)' \/ "left" \in moved'[r]
          /\ \/ Listing(r)' \subseteq Listing(r)
             \/ "added" \in moved'[r] /\ (pc[r] = "select" => "pushed" \in moved'[r])

(* Any set of notifications is finite.                                     *)
LEMMA NoteSets ==
    ASSUME NEW S \in SUBSET Note
    PROVE  IsFiniteSet(S) /\ S \in SUBSET Nat
  <1>1. Note \subseteq 0..MaxId /\ MaxId \in Nat
    BY InboxAssumption
  <1>2. IsFiniteSet(0..MaxId)
    BY <1>1, FS_Interval
  <1>3. S \subseteq 0..MaxId /\ S \in SUBSET Nat
    BY <1>1
  <1>4. IsFiniteSet(S)
    BY <1>2, <1>3, FS_Subset
  <1> QED
    BY <1>3, <1>4

(* The place of the page that a client asks for.                           *)
LEMMA Offset ==
    ASSUME NEW p \in Nat \ {0}
    PROVE  /\ PageSize \in Nat \ {0} /\ (p - 1) * PageSize \in Nat /\ p * PageSize \in Nat
           /\ (p - 1) * PageSize <= p * PageSize /\ (p + 1) - 1 = p
  <1>1. PICK k \in Nat : k = p - 1
    OBVIOUS
  <1>2. PageSize \in Nat \ {0} /\ k <= p /\ (p + 1) - 1 = p
    BY <1>1, InboxAssumption
  <1>3. k * PageSize \in Nat /\ p * PageSize \in Nat
    BY <1>2
  <1>4. k * PageSize <= p * PageSize
    BY <1>2, Times
  <1> QED
    BY <1>1, <1>2, <1>3, <1>4

LEMMA ToldKeeps ==
    ASSUME TypeOK, TypeOK', NEW r \in Req, PagesOf(r), Told(r)
    PROVE  PagesOf(r)'
  <1>1. Listing(r) \in SUBSET Note /\ Listing(r)' \in SUBSET Note
    BY DEF Listing, TypeOK
  <1>2. /\ IsFiniteSet(Listing(r)) /\ Listing(r) \in SUBSET Nat
        /\ IsFiniteSet(Listing(r)') /\ Listing(r)' \in SUBSET Nat
    BY <1>1, NoteSets
  <1>3. /\ UNCHANGED <<page[r], total[r], seen[r], start[r], twice[r], missed[r]>>
        /\ moved[r] \subseteq moved'[r]
        /\ pc'[r] = "idle" => pc[r] = "idle"
        /\ Turning(r)' => pc'[r] = pc[r] /\ Turning(r)
    BY DEF Told, Turning
  <1>4. Turning(r)' => page[r] # 0
    BY <1>3 DEF PagesOf
  <1>5. ASSUME Turning(r)', "added" \notin moved'[r], NEW n \in seen[r] \cap Listing(r)'
        PROVE  Rank(Listing(r)', n) < (page[r] - 1) * PageSize
    <2>1. Listing(r)' \subseteq Listing(r)
      BY <1>5 DEF Told
    <2>2. Rank(Listing(r), n) < (page[r] - 1) * PageSize
      BY <1>3, <1>5, <2>1 DEF PagesOf
    <2>3. /\ Rank(Listing(r)', n) \in Nat /\ Rank(Listing(r), n) \in Nat
          /\ Rank(Listing(r)', n) <= Rank(Listing(r), n)
      BY <1>2, <2>1, RankGrows
    <2>4. (page[r] - 1) * PageSize \in Nat
      BY <1>4, <1>5, Offset DEF TypeOK
    <2> QED
      BY <2>2, <2>3, <2>4
  <1>6. ASSUME Turning(r)', moved'[r] \cap {"left", "pushed"} = {}
        PROVE  /\ start[r] \subseteq Listing(r)'
               /\ \A n \in start[r] :
                     Rank(Listing(r)', n) < (page[r] - 1) * PageSize => n \in seen[r]
               /\ pc[r] = "select" => total[r] = Cardinality(Listing(r)')
    <2>1. Listing(r) \subseteq Listing(r)' /\ (pc[r] = "select" => Listing(r)' \subseteq Listing(r))
      BY <1>6 DEF Told
    <2>2. /\ start[r] \subseteq Listing(r)
          /\ \A n \in start[r] : Rank(Listing(r), n) < (page[r] - 1) * PageSize => n \in seen[r]
          /\ pc[r] = "select" => total[r] = Cardinality(Listing(r))
      BY <1>3, <1>6 DEF PagesOf
    <2>3. ASSUME NEW n \in start[r], Rank(Listing(r)', n) < (page[r] - 1) * PageSize
          PROVE  n \in seen[r]
      <3>1. /\ Rank(Listing(r)', n) \in Nat /\ Rank(Listing(r), n) \in Nat
            /\ Rank(Listing(r), n) <= Rank(Listing(r)', n)
        BY <1>2, <2>1, RankGrows
      <3>2. (page[r] - 1) * PageSize \in Nat
        BY <1>4, <1>6, Offset DEF TypeOK
      <3> QED
        BY <2>2, <2>3, <3>1, <3>2
    <2>4. pc[r] = "select" => Listing(r)' = Listing(r)
      BY <2>1
    <2> QED
      BY <2>1, <2>2, <2>3, <2>4
  <1>7. /\ missed'[r] # {} => moved'[r] \cap {"left", "pushed"} # {}
        /\ twice'[r] # {} => "added" \in moved'[r]
        /\ pc'[r] = "idle" => seen'[r] = {} /\ twice'[r] = {} /\ missed'[r] = {}
    BY <1>3 DEF PagesOf
  <1> QED
    BY <1>3, <1>4, <1>5, <1>6, <1>7 DEF PagesOf
(* A step that leaves the listings alone, and the clients that turn pages. *)
Quiet(r) ==
    /\ pc[r] \in {"idle", "flush"}
    /\ pc'[r] \in {"flush", "end"}
    /\ \A q \in Req \ {r} : pc'[q] = pc[q]
    /\ UNCHANGED <<there, row, call, pages, moved>>

LEMMA QuietKeeps ==
    ASSUME TypeOK, TypeOK', PagesInv, NEW r \in Req, Quiet(r) PROVE PagesInv'
  <1> SUFFICES ASSUME NEW q \in Req PROVE PagesOf(q)'
    BY DEF PagesInv
  <1>1. Listing(q)' = Listing(q)
    BY DEF Quiet, Listing
  <1>2. Told(q)
    BY <1>1 DEF Told, Quiet, Turning, pages
  <1> QED
    BY <1>2, ToldKeeps DEF PagesInv

(* A step that commits tells every client.                                 *)
LEMMA WatchKeeps ==
    ASSUME TypeOK, TypeOK', PagesInv, Watch, UNCHANGED <<call, pages>>,
           \A q \in Req : /\ pc'[q] = "idle" => pc[q] = "idle"
                          /\ Turning(q)' => pc'[q] = pc[q]
    PROVE  PagesInv'
  <1> SUFFICES ASSUME NEW q \in Req PROVE PagesOf(q)'
    BY DEF PagesInv
  <1>1. moved[q] \subseteq moved'[q]
    BY DEF Watch
  <1>2. ASSUME Turning(q)'
        PROVE  /\ Listing(q) \subseteq Listing(q)' \/ "left" \in moved'[q]
               /\ \/ Listing(q)' \subseteq Listing(q)
                  \/ "added" \in moved'[q] /\ (pc[q] = "select" => "pushed" \in moved'[q])
    <2>1. Turning(q)
      BY <1>2 DEF Turning
    <2> QED
      BY <2>1 DEF Watch
  <1>3. Told(q)
    BY <1>1, <1>2 DEF Told, pages
  <1> QED
    BY <1>3, ToldKeeps DEF PagesInv

(* What a step of one client leaves to the others.                         *)
LEMMA OthersKeep ==
    ASSUME TypeOK, TypeOK', PagesInv, NEW r \in Req, PagesOf(r)',
           UNCHANGED <<there, row, call, moved>>,
           \A q \in Req \ {r} :
              UNCHANGED <<pc[q], page[q], total[q], seen[q], start[q], twice[q], missed[q]>>
    PROVE  PagesInv'
  <1> SUFFICES ASSUME NEW q \in Req \ {r} PROVE PagesOf(q)'
    BY DEF PagesInv
  <1>1. Listing(q)' = Listing(q)
    BY DEF Listing
  <1>2. Told(q)
    BY <1>1 DEF Told
  <1> QED
    BY <1>2, ToldKeeps DEF PagesInv

LEMMA BeginListKeeps ==
    ASSUME TypeOK, TypeOK', PagesInv, NEW r \in Req, BeginList(r) PROVE PagesInv'
  <1>1. /\ pc[r] = "idle" /\ pc'[r] = "count" /\ page'[r] = 1 /\ start'[r] = Listing(r)
        /\ UNCHANGED <<there, row, call, total, seen, twice, missed, moved>>
        /\ \A q \in Req \ {r} : UNCHANGED <<pc[q], page[q], start[q]>>
    BY DEF BeginList, TypeOK
  <1>2. Listing(r)' = Listing(r)
    BY <1>1 DEF Listing
  <1>3. \A n \in Listing(r) : ~(Rank(Listing(r), n) < (1 - 1) * PageSize)
    <2> SUFFICES ASSUME NEW n \in Listing(r) PROVE ~(Rank(Listing(r), n) < (1 - 1) * PageSize)
      OBVIOUS
    <2>1. IsFiniteSet(Listing(r)) /\ Listing(r) \in SUBSET Nat
      BY NoteSets DEF Listing, TypeOK
    <2>2. Rank(Listing(r), n) \in Nat
      BY <2>1, RankGrows
    <2>3. (1 - 1) * PageSize = 0
      BY Offset
    <2> QED
      BY <2>2, <2>3
  <1>4. PagesOf(r)'
    BY <1>1, <1>2, <1>3 DEF PagesOf, Turning, PagesInv
  <1> QED
    BY <1>1, <1>4, OthersKeep

LEMMA CountKeeps ==
    ASSUME TypeOK, TypeOK', PagesInv, NEW r \in Req, Count(r) PROVE PagesInv'
  <1>1. /\ pc[r] = "count" /\ pc'[r] = "select" /\ total'[r] = Cardinality(Listing(r))
        /\ UNCHANGED <<there, row, call, page, seen, start, twice, missed, moved>>
        /\ \A q \in Req \ {r} : UNCHANGED <<pc[q], total[q]>>
    BY DEF Count, TypeOK
  <1>2. Listing(r)' = Listing(r)
    BY <1>1 DEF Listing
  <1>3. PagesOf(r)'
    BY <1>1, <1>2 DEF PagesOf, Turning, PagesInv
  <1> QED
    BY <1>1, <1>3, OthersKeep
(* The next page, or the last.                                             *)
LEMMA SelectKeeps ==
    ASSUME TypeOK, TypeOK', PagesInv, NEW r \in Req, Select(r) PROVE PagesInv'
  <1>1. PICK L \in SUBSET Note : L = Listing(r)
    BY DEF Listing, TypeOK
  <1>2. PICK p \in Nat \ {0} : p = page[r]
    BY DEF Select, PagesInv, PagesOf, Turning, TypeOK
  <1>3. PICK items : items = PageOf(L, p, PageSize)
    OBVIOUS
  <1>4. IsFiniteSet(L) /\ L \in SUBSET Nat /\ \A n \in L : Rank(L, n) \in Nat
    BY NoteSets, RankGrows
  <1>5. \A n : n \in items <=> n \in L /\ (p - 1) * PageSize <= Rank(L, n)
                                       /\ Rank(L, n) < p * PageSize
    BY <1>3 DEF PageOf
  <1>6. /\ pc[r] = "select"
        /\ \A n : n \in seen'[r] <=> n \in seen[r] \/ n \in items
        /\ \A n : n \in twice'[r] <=> n \in twice[r] \/ (n \in seen[r] /\ n \in items)
        /\ UNCHANGED <<there, row, call, total, start, moved>>
        /\ \A q \in Req \ {r} :
              UNCHANGED <<pc[q], page[q], seen[q], twice[q], missed[q]>>
    BY <1>1, <1>2, <1>3 DEF Select, End, TypeOK
  <1>7. Listing(r)' = L
    BY <1>1, <1>6 DEF Listing
  <1>8. /\ "added" \notin moved[r] =>
              \A n \in seen[r] \cap L : Rank(L, n) < (p - 1) * PageSize
        /\ moved[r] \cap {"left", "pushed"} = {} =>
              /\ start[r] \subseteq L
              /\ \A n \in start[r] : Rank(L, n) < (p - 1) * PageSize => n \in seen[r]
              /\ total[r] = Cardinality(L)
        /\ missed[r] # {} => moved[r] \cap {"left", "pushed"} # {}
        /\ twice[r] # {} => "added" \in moved[r]
    BY <1>1, <1>2, <1>6 DEF PagesInv, PagesOf, Turning
  <1>9. /\ PageSize \in Nat \ {0} /\ (p - 1) * PageSize \in Nat /\ p * PageSize \in Nat
        /\ (p - 1) * PageSize <= p * PageSize /\ (p + 1) - 1 = p
    BY Offset
  <1>10. twice'[r] # {} => "added" \in moved'[r]
    BY <1>4, <1>5, <1>6, <1>8, <1>9
  <1>11. ASSUME "added" \notin moved'[r], NEW n \in seen'[r] \cap L
         PROVE  Rank(L, n) < p * PageSize
    <2>1. CASE n \in items
      BY <1>5, <2>1
    <2>2. CASE n \in seen[r]
      <3>1. Rank(L, n) < (p - 1) * PageSize /\ Rank(L, n) \in Nat
        BY <1>4, <1>6, <1>8, <1>11, <2>2
      <3> QED
        BY <1>9, <3>1
    <2> QED
      BY <1>6, <1>11, <2>1, <2>2
  <1>12. ASSUME moved'[r] \cap {"left", "pushed"} = {}, NEW n \in start'[r],
                Rank(L, n) < p * PageSize
         PROVE  n \in seen'[r]
    <2>1. n \in L /\ Rank(L, n) \in Nat
      BY <1>4, <1>6, <1>8, <1>12
    <2>2. CASE Rank(L, n) < (p - 1) * PageSize
      BY <1>6, <1>8, <1>12, <2>2
    <2>3. CASE (p - 1) * PageSize <= Rank(L, n)
      BY <1>5, <1>6, <1>12, <2>1, <2>3
    <2> QED
      BY <1>9, <2>1, <2>2, <2>3
  <1>13. CASE HasNext(total[r], p, PageSize)
    <2>1. pc'[r] = "count" /\ page'[r] = p + 1 /\ missed'[r] = missed[r]
      BY <1>2, <1>13 DEF Select, TypeOK
    <2>2. (page'[r] - 1) * PageSize = p * PageSize /\ page'[r] # 0
      BY <1>9, <2>1
    <2>3. PagesOf(r)'
      BY <1>6, <1>7, <1>8, <1>10, <1>11, <1>12, <2>1, <2>2 DEF PagesOf, Turning
    <2> QED
      BY <1>6, <2>3, OthersKeep
  <1>14. CASE ~HasNext(total[r], p, PageSize)
    <2>1. /\ pc'[r] = "end"
          /\ \A n : n \in missed'[r] <=>
                n \in start[r] /\ n \in L /\ n \notin seen[r] /\ n \notin items
      BY <1>1, <1>2, <1>3, <1>14 DEF Select, End, TypeOK
    <2>2. ASSUME moved'[r] \cap {"left", "pushed"} = {}, NEW n \in missed'[r] PROVE FALSE
      <3>1. n \in L /\ n \in start'[r] /\ n \notin seen'[r]
        BY <1>6, <2>1, <2>2
      <3>2. Rank(L, n) < Cardinality(L)
        BY <1>4, <3>1, RankBelow
      <3>3. total[r] = Cardinality(L) /\ total[r] \in Nat
        BY <1>6, <1>8, <2>2 DEF TypeOK
      <3>4. ~(p * PageSize < total[r])
        BY <1>9, <1>14, <3>3, Frame
      <3>5. Rank(L, n) < p * PageSize
        BY <1>4, <1>9, <3>1, <3>2, <3>3, <3>4
      <3> QED
        BY <1>12, <2>2, <3>1, <3>5
    <2>3. PagesOf(r)'
      BY <1>6, <1>10, <2>1, <2>2 DEF PagesOf, Turning
    <2> QED
      BY <1>6, <2>3, OthersKeep
  <1> QED
    BY <1>13, <1>14

(* Every step keeps what the clients know.                                 *)
LEMMA PagesStep ==
    TypeOK /\ TypeOK' /\ PagesInv /\ [Next]_vars => PagesInv'
  <1> SUFFICES ASSUME TypeOK, TypeOK', PagesInv, [Next]_vars PROVE PagesInv'
    OBVIOUS
  <1>1. CASE UNCHANGED vars
    BY <1>1 DEF vars, pages, PagesInv, PagesOf, Turning, Listing
  <1>2. ASSUME NEW r \in Req, Rollback(r), pc[r] = "flush" PROVE PagesInv'
    <2>1. Quiet(r)
      BY <1>2 DEF Rollback, Unlock, End, Quiet, TypeOK
    <2> QED
      BY <2>1, QuietKeeps
  <1>3. ASSUME NEW r \in Req, Commit(r) PROVE PagesInv'
    <2>1. Watch /\ UNCHANGED <<call, pages>>
      BY <1>3 DEF Commit
    <2>2. \A q \in Req : /\ pc'[q] = "idle" => pc[q] = "idle"
                         /\ Turning(q)' => pc'[q] = pc[q]
      BY <1>3 DEF Commit, End, Turning, TypeOK
    <2> QED
      BY <2>1, <2>2, WatchKeeps
  <1>4. ASSUME NEW r \in Req, BeginMark(r) \/ BeginInsert(r) \/ BeginDelete(r)
        PROVE  PagesInv'
    <2>1. Quiet(r)
      BY <1>4 DEF BeginMark, BeginInsert, BeginDelete, End, Quiet, TypeOK
    <2> QED
      BY <2>1, QuietKeeps
  <1>5. ASSUME NEW r \in Req, DeleteRow(r) \/ Aim(r) \/ Write(r) PROVE PagesInv'
    <2>1. Quiet(r)
      BY <1>5 DEF DeleteRow, Aim, Write, Quiet
    <2> QED
      BY <2>1, QuietKeeps
  <1>6. ASSUME NEW r \in Req, BreakDeadlock(r) \/ Fail(r) PROVE PagesInv'
    <2>1. pc[r] = "flush" /\ Rollback(r)
      BY <1>6 DEF BreakDeadlock, Victim, Cycle, Deadlocked, WaitsFor, Fail
    <2> QED
      BY <1>2, <2>1
  <1>8. ASSUME NEW r \in Req, InsertRow(r) PROVE PagesInv'
    <2>1. CASE ~Rollback(r)
      <3>1. Quiet(r)
        BY <1>8, <2>1 DEF InsertRow, Quiet
      <3> QED
        BY <3>1, QuietKeeps
    <2> QED
      BY <1>2, <1>8, <2>1 DEF InsertRow
  <1>7. ASSUME NEW r \in Req, BeginList(r) \/ Count(r) \/ Select(r) PROVE PagesInv'
    BY <1>7, BeginListKeeps, CountKeeps, SelectKeeps
  <1> QED
    BY <1>1, <1>3, <1>4, <1>5, <1>6, <1>7, <1>8 DEF Next, Proceed

LEMMA PagesHold == Spec => []PagesInv
  <1>1. Init => PagesInv
    BY DEF Init, PagesInv, PagesOf, Turning
  <1> QED
    BY <1>1, PagesStep, TypeCorrect, PTL DEF Spec

(* A client that turns the pages to the end misses nothing that was listed *)
(* all the time, unless a row left or came between a COUNT and its SELECT, *)
(* for any number of rows and any size of a page.                          *)
THEOREM PagesMissNothing == Spec => []MissedOnlyIfMoved
  <1>1. PagesInv => MissedOnlyIfMoved
    BY DEF PagesInv, PagesOf, MissedOnlyIfMoved
  <1> QED
    BY <1>1, PagesHold, PTL

(* It sees nothing twice unless a row was added.                           *)
THEOREM PagesRepeatNothing == Spec => []TwiceOnlyIfAdded
  <1>1. PagesInv => TwiceOnlyIfAdded
    BY DEF PagesInv, PagesOf, TwiceOnlyIfAdded
  <1> QED
    BY <1>1, PagesHold, PTL

-----------------------------------------------------------------------------
(* The inbox as Mailbox has it.                                            *)

(* What a deletion is about: it has deleted, or has still to delete, or    *)
(* somebody has deleted before, each of its tasks, and no others.          *)
DoomOf(r) ==
    Deletes(r) =>
        /\ call[r].tasks \subseteq Task /\ doomed[r] \subseteq call[r].tasks
        /\ \A t \in Task : grip[t] = r => t \in call[r].tasks
        /\ pc[r] = "flush" =>
              \A t \in call[r].tasks : t \in doomed[r] \/ t \in gone \/ grip[t] = r

DoomInv == \A r \in Req : DoomOf(r)

LEMMA DoomStep == Ind /\ DoomInv /\ [Next]_vars => DoomInv'
  <1> SUFFICES ASSUME Ind, DoomInv, [Next]_vars, NEW q \in Req PROVE DoomOf(q)'
    BY DEF DoomInv
  <1> USE DEF Ind, locks, flushes, pages
  <1>0. PointTypes /\ DoomOf(q)
    BY Points DEF DoomInv
  <1>1. call' = call
    BY DEF Next, vars, Proceed, BeginMark, BeginInsert, BeginDelete, BeginList, DeleteRow, Aim,
       Write, InsertRow, Commit, Count, Select, BreakDeadlock, Fail, Rollback
  <1>2. Deletes(q)' <=> Deletes(q)
    BY <1>1, SameKind
  <1>3. ASSUME UNCHANGED <<pc, gone, grip, doomed>> PROVE DoomOf(q)'
    BY <1>0, <1>1, <1>2, <1>3 DEF DoomOf
  <1>4. ASSUME NEW r \in Req,
               BeginMark(r) \/ BeginInsert(r) \/ BeginList(r) \/ Count(r) \/ Select(r)
        PROVE  DoomOf(q)'
    <2>1. ~Deletes(r) \/ pc'[r] # "flush"
      BY <1>4, Kinds DEF BeginMark, BeginInsert, BeginList, Count, Select, End, TypeOK
    <2>2. UNCHANGED <<gone, grip, doomed>> /\ \A s \in Req \ {r} : pc'[s] = pc[s]
      BY <1>4 DEF BeginMark, BeginInsert, BeginList, Count, Select, End, TypeOK
    <2> QED
      BY <1>0, <1>1, <1>2, <2>1, <2>2 DEF DoomOf
  <1>5. ASSUME NEW r \in Req, BeginDelete(r) PROVE DoomOf(q)'
    <2>1. CASE q = r
      <3>1. call[r].tasks \subseteq Task /\ UNCHANGED <<gone, grip>>
        BY <1>5 DEF BeginDelete, Deletes, TypeOK, Call
      <3>2. \/ pc'[r] = "end" /\ doomed'[r] = doomed[r]
            \/ pc'[r] = "flush" /\ doomed'[r] = call[r].tasks \ gone
        BY <1>5 DEF BeginDelete, End, TypeOK
      <3> QED
        BY <1>0, <1>1, <1>2, <2>1, <3>1, <3>2 DEF DoomOf
    <2>2. CASE q # r
      <3>1. pc'[q] = pc[q] /\ doomed'[q] = doomed[q] /\ UNCHANGED <<gone, grip>>
        BY <1>5, <2>2 DEF BeginDelete, End, TypeOK
      <3> QED
        BY <1>0, <1>1, <1>2, <3>1 DEF DoomOf
    <2> QED
      BY <2>1, <2>2
  <1>6. ASSUME NEW r \in Req, DeleteRow(r) PROVE DoomOf(q)'
    <2>1. PICK t \in doomed[r] :
            /\ doomed' = [doomed EXCEPT ![r] = @ \ {t}]
            /\ grip[t] = Nobody
            /\ \/ t \in gone /\ UNCHANGED grip
               \/ grip' = [grip EXCEPT ![t] = r]
      BY <1>6 DEF DeleteRow
    <2>2. t \in Task /\ UNCHANGED <<pc, gone>>
      BY <1>0, <1>6, <2>1 DEF PointTypes, DeleteRow
    <2>3. /\ \A s \in Req : doomed'[s] = IF s = r THEN doomed[r] \ {t} ELSE doomed[s]
          /\ \A u \in Task \ {t} : grip'[u] = grip[u]
          /\ (t \in gone /\ grip'[t] = grip[t]) \/ grip'[t] = r
      BY <2>1, <2>2 DEF TypeOK
    <2>4. CASE q = r
      <3>1. doomed'[q] \subseteq doomed[q] /\ (Deletes(q) => t \in call[q].tasks)
        BY <1>0, <2>1, <2>3, <2>4 DEF DoomOf
      <3>2. \A u \in Task : grip'[u] = q => u = t \/ grip[u] = q
        BY <2>3
      <3>3. \A u \in Task : u \in doomed[q] \/ u \in gone \/ grip[u] = q =>
                            u \in doomed'[q] \/ u \in gone \/ grip'[u] = q
        BY <2>1, <2>2, <2>3, <2>4
      <3> QED
        BY <1>0, <1>1, <1>2, <2>2, <3>1, <3>2, <3>3 DEF DoomOf
    <2>5. CASE q # r
      <3>1. doomed'[q] = doomed[q] /\ \A u \in Task : grip'[u] = q <=> grip[u] = q
        BY <2>1, <2>2, <2>3, <2>5, Basics
      <3> QED
        BY <1>0, <1>1, <1>2, <2>2, <3>1 DEF DoomOf
    <2> QED
      BY <2>4, <2>5
  <1>7. ASSUME NEW r \in Req, Unlock(r), pc'[r] = "end",
               \A s \in Req \ {r} : pc'[s] = pc[s], gone \subseteq gone'
        PROVE  DoomOf(q)'
    <2>1. /\ \A s \in Req : doomed'[s] = IF s = r THEN {} ELSE doomed[s]
          /\ \A t \in Task : grip'[t] = IF grip[t] = r THEN Nobody ELSE grip[t]
      BY <1>7 DEF Unlock, TypeOK
    <2> QED
      BY <1>0, <1>1, <1>2, <1>7, <2>1, Basics DEF DoomOf
  <1>8. ASSUME NEW r \in Req,
               Commit(r) \/ BreakDeadlock(r) \/ Fail(r) \/ Rollback(r)
        PROVE  DoomOf(q)'
    <2>1. /\ Unlock(r) /\ pc'[r] = "end" /\ gone \subseteq gone'
          /\ \A s \in Req \ {r} : pc'[s] = pc[s]
      BY <1>8 DEF Commit, BreakDeadlock, Fail, Rollback, End, TypeOK
    <2> QED
      BY <1>7, <2>1
  <1>9. ASSUME \/ UNCHANGED vars
               \/ \E r \in Req : Aim(r) \/ Write(r) \/ (InsertRow(r) /\ ~Rollback(r))
        PROVE  DoomOf(q)'
    BY <1>3, <1>9 DEF vars, Aim, Write, InsertRow
  <1>10. ASSUME NEW r \in Req, InsertRow(r) PROVE DoomOf(q)'
    BY <1>8, <1>9, <1>10
  <1> QED
    BY <1>4, <1>5, <1>6, <1>8, <1>9, <1>10 DEF Next, Proceed

(* And until it has begun it has found nothing; who turns pages is no      *)
(* deletion.                                                               *)
BoxOf(r) ==
    /\ pc[r] = "idle" => loaded[r] = {}
    /\ pc[r] \in {"count", "select"} => ~Deletes(r)

BoxInv == DoomInv /\ \A r \in Req : BoxOf(r)

LEMMA BoxStep == Ind /\ BoxInv /\ [Next]_vars => BoxInv'
  <1> SUFFICES ASSUME Ind, BoxInv, [Next]_vars, NEW q \in Req PROVE BoxOf(q)'
    BY DoomStep DEF BoxInv
  <1> USE DEF Ind, locks, flushes, pages
  <1>0. BoxOf(q)
    BY DEF BoxInv
  <1>1. call' = call
    BY DEF Next, vars, Proceed, BeginMark, BeginInsert, BeginDelete, BeginList, DeleteRow, Aim,
       Write, InsertRow, Commit, Count, Select, BreakDeadlock, Fail, Rollback
  <1>2. Deletes(q)' <=> Deletes(q)
    BY <1>1, SameKind
  <1>3. ASSUME UNCHANGED <<pc, loaded>> PROVE BoxOf(q)'
    BY <1>0, <1>2, <1>3 DEF BoxOf
  <1>4. ASSUME NEW r \in Req, BeginMark(r) \/ BeginInsert(r) PROVE BoxOf(q)'
    <2>1. /\ pc'[r] \in {"flush", "end"}
          /\ \A s \in Req \ {r} : pc'[s] = pc[s] /\ loaded'[s] = loaded[s]
      BY <1>4 DEF BeginMark, BeginInsert, End, TypeOK
    <2> QED
      BY <1>0, <1>2, <2>1 DEF BoxOf
  <1>5. ASSUME NEW r \in Req,
               BeginDelete(r) \/ Commit(r) \/ BreakDeadlock(r) \/ Fail(r) \/ Rollback(r)
        PROVE  BoxOf(q)'
    <2>1. /\ pc'[r] \in {"flush", "end"} /\ loaded' = loaded
          /\ \A s \in Req \ {r} : pc'[s] = pc[s]
      BY <1>5 DEF BeginDelete, Commit, BreakDeadlock, Fail, Rollback, End, TypeOK
    <2> QED
      BY <1>0, <1>2, <2>1 DEF BoxOf
  <1>6. ASSUME NEW r \in Req, BeginList(r) \/ Count(r) \/ Select(r) PROVE BoxOf(q)'
    <2>1. /\ pc'[r] # "idle" /\ loaded' = loaded
          /\ \A s \in Req \ {r} : pc'[s] = pc[s]
      BY <1>6 DEF BeginList, Count, Select, End, TypeOK
    <2>2. ~Deletes(r)
      BY <1>6 DEF BeginList, Count, Select, Deletes, BoxInv, BoxOf
    <2> QED
      BY <1>0, <1>2, <2>1, <2>2 DEF BoxOf
  <1>7. ASSUME \/ UNCHANGED vars
               \/ \E r \in Req : \/ DeleteRow(r) \/ Aim(r) \/ Write(r)
                                \/ (InsertRow(r) /\ ~Rollback(r))
        PROVE  BoxOf(q)'
    BY <1>3, <1>7 DEF vars, DeleteRow, Aim, Write, InsertRow
  <1>8. ASSUME NEW r \in Req, InsertRow(r) PROVE BoxOf(q)'
    BY <1>5, <1>7, <1>8
  <1> QED
    BY <1>4, <1>5, <1>6, <1>7, <1>8 DEF Next, Proceed

LEMMA BoxHolds == Spec => []BoxInv
  <1>1. Init => BoxInv
    <2> SUFFICES ASSUME Init, NEW r \in Req PROVE DoomOf(r) /\ BoxOf(r)
      BY DEF BoxInv, DoomInv
    <2>1. call[r] \in Call /\ pc[r] = "idle" /\ loaded[r] = {} /\ doomed[r] = {}
      BY InboxAssumption DEF Init
    <2>2. Deletes(r) => call[r].tasks \subseteq Task
      BY <2>1 DEF Call, Deletes
    <2> QED
      BY <2>1, <2>2, Basics DEF Init, DoomOf, BoxOf
  <1> QED
    BY <1>1, BoxStep, Invariant, PTL DEF Spec

-----------------------------------------------------------------------------

(* A step of one request shows only what that request has found and been   *)
(* answered.                                                               *)
LEMMA View ==
    ASSUME call' = call, NEW r \in Req,
           \A q \in Req \ {r} : UNCHANGED <<pc[q], loaded[q], answer[q]>>
    PROVE  /\ Found' = [Found EXCEPT ![r] =
                IF Marks(r) \/ Inserts(r)
                THEN IF pc'[r] = "idle" THEN {} ELSE {loaded'[r]} ELSE {}]
           /\ Results' = [Results EXCEPT ![r] = IF Writes(r) THEN answer'[r] ELSE "none"]
  <1>1. \A q \in Req : /\ Marks(q)' <=> Marks(q)
                       /\ Inserts(q)' <=> Inserts(q)
                       /\ Writes(q)' <=> Writes(q)
    BY SameKind DEF Writes
  <1>2. /\ Found = [q \in Req |-> Found[q]] /\ Found' = [q \in Req |-> Found'[q]]
        /\ Results = [q \in Req |-> Results[q]] /\ Results' = [q \in Req |-> Results'[q]]
    BY DEF Found, Results
  <1>3. /\ \A q \in Req \ {r} : Found'[q] = Found[q] /\ Results'[q] = Results[q]
        /\ Found'[r] = IF Marks(r) \/ Inserts(r)
                       THEN IF pc'[r] = "idle" THEN {} ELSE {loaded'[r]} ELSE {}
        /\ Results'[r] = IF Writes(r) THEN answer'[r] ELSE "none"
    BY <1>1 DEF Found, Results
  <1>4. Found' = [Found EXCEPT ![r] = Found'[r]]
    BY <1>2, <1>3
  <1>5. Results' = [Results EXCEPT ![r] = Results'[r]]
    BY <1>2, <1>3
  <1> QED
    BY <1>3, <1>4, <1>5

LEMMA NothingNew ==
    ASSUME call' = call, UNCHANGED <<pc, loaded, answer>>
    PROVE  UNCHANGED <<Found, Results>>
  <1>1. \A q \in Req : /\ Marks(q)' <=> Marks(q)
                       /\ Inserts(q)' <=> Inserts(q)
                       /\ Writes(q)' <=> Writes(q)
    BY SameKind DEF Writes
  <1> QED
    BY <1>1 DEF Found, Results

(* The SELECT of a worker.                                                 *)
LEMMA BeginInsertFinds ==
    ASSUME Ind, BoxInv, NEW r \in Req, BeginInsert(r) PROVE Box!FindTasks(r)
  <1> DEFINE T == Added(r)
  <1>1. /\ pc[r] = "idle" /\ Inserts(r) /\ answer[r] = "none" /\ loaded[r] = {}
        /\ pc'[r] = "flush" /\ loaded'[r] = T
        /\ UNCHANGED <<there, row, gone, call, answer>>
        /\ \A q \in Req \ {r} : UNCHANGED <<pc[q], loaded[q], answer[q]>>
    BY DEF BeginInsert, Ind, TypeOK, WorkInv, WorkOf, BoxInv, BoxOf
  <1> HIDE DEF T
  <1>2. /\ Found' = [Found EXCEPT ![r] = {T}] /\ Found[r] = {}
        /\ Results' = [Results EXCEPT ![r] = "none"] /\ Results[r] = "none"
    BY <1>1, View DEF Found, Results, Writes
  <1>3. UNCHANGED Results
    BY <1>2 DEF Results
  <1>4. call[r].kind \in {"notify", "scan"}
    BY <1>1 DEF Inserts
  <1> QED
    BY <1>1, <1>2, <1>3, <1>4 DEF Box!FindTasks, Box!Open, T, Added

(* The SELECT of a marking.                                                *)
LEMMA BeginMarkFinds ==
    ASSUME Ind, BoxInv, NEW r \in Req, BeginMark(r)
    PROVE  Box!FindAll(r) \/ Box!FindOne(r)
  <1>1. /\ pc[r] = "idle" /\ Marks(r) /\ answer[r] = "none" /\ loaded[r] = {}
        /\ UNCHANGED <<there, row, gone, call>>
        /\ \A q \in Req \ {r} : UNCHANGED <<pc[q], loaded[q], answer[q]>>
    BY DEF BeginMark, End, flushes, Ind, TypeOK, WorkInv, WorkOf, BoxInv, BoxOf
  <1>2. /\ pc'[r] # "idle" /\ loaded'[r] = Find(r)
        /\ answer'[r] = IF call[r].kind = "mark" /\ Find(r) = {} THEN "missing" ELSE "none"
    BY <1>1 DEF BeginMark, End, flushes, Ind, TypeOK
  <1>3. /\ Found' = [Found EXCEPT ![r] = {Find(r)}]
        /\ Results' = [Results EXCEPT ![r] = answer'[r]]
        /\ Found[r] = {} /\ Results[r] = "none"
    BY <1>1, <1>2, View DEF Found, Results, Writes
  <1>4. CASE call[r].kind = "mark_all"
    <2>1. Find(r) = {n \in Box!Mine(r) : ~row[n].read}
      BY <1>4 DEF Find, Box!Mine
    <2>2. UNCHANGED Results
      BY <1>2, <1>3, <1>4 DEF Results
    <2>3. Box!FindAll(r)
      BY <1>1, <1>3, <1>4, <2>1, <2>2 DEF Box!FindAll, Box!Open
    <2> QED
      BY <2>3
  <1>5. CASE call[r].kind = "mark"
    <2>1. Find(r) = Box!Mine(r) \cap {call[r].note}
      BY <1>5 DEF Find, Box!Mine
    <2>2. call[r].note \notin Box!Mine(r) => Results' = [Results EXCEPT ![r] = "missing"]
      BY <1>2, <1>3, <1>5, <2>1
    <2>3. call[r].note \in Box!Mine(r) => UNCHANGED Results
      BY <1>2, <1>3, <1>5, <2>1 DEF Results
    <2>4. Box!FindOne(r)
      BY <1>1, <1>3, <1>5, <2>1, <2>2, <2>3 DEF Box!FindOne, Box!Open, Box!Reply
    <2> QED
      BY <2>4
  <1> QED
    BY <1>1, <1>4, <1>5 DEF Marks

(* The SELECT of a deletion shows only if it finds nothing.                *)
LEMMA BeginDeleteHidden ==
    ASSUME Ind, BoxInv, NEW r \in Req, BeginDelete(r)
    PROVE  Box!NotFound(r) \/ UNCHANGED Box!vars
  <1>1. /\ pc[r] = "idle" /\ Deletes(r) /\ ~Marks(r) /\ ~Inserts(r) /\ answer[r] = "none"
        /\ UNCHANGED <<there, row, gone, call, loaded>>
        /\ \A q \in Req \ {r} : UNCHANGED <<pc[q], loaded[q], answer[q]>>
    BY Kinds DEF BeginDelete, End, Ind, TypeOK, WorkInv, WorkOf
  <1>2. /\ Found' = [Found EXCEPT ![r] = {}] /\ Found[r] = {}
        /\ Results' = [Results EXCEPT ![r] = answer'[r]] /\ Results[r] = "none"
    BY <1>1, View DEF Found, Results, Writes
  <1>3. UNCHANGED Found
    BY <1>2 DEF Found
  <1>4. ASSUME Missing(r), answer'[r] = "missing" PROVE Box!NotFound(r)
    <2>1. CASE call[r].kind = "delete_task"
      BY <1>1, <1>2, <1>3, <1>4, <2>1 DEF Missing, Box!NotFound, Box!Open, Box!Reply
    <2>2. CASE call[r].kind = "delete_project"
      <3>1. PICK s \in Req : call[s] = call[r] /\ answer[s] = "ok"
        BY <1>4, <2>2 DEF Missing
      <3>2. Results[s] = "ok"
        BY <1>1, <3>1 DEF Results, Writes, Deletes
      <3> QED
        BY <1>1, <1>2, <1>3, <1>4, <2>2, <3>1, <3>2 DEF Box!NotFound, Box!Open, Box!Reply
    <2> QED
      BY <1>1, <2>1, <2>2 DEF Deletes
  <1>5. ASSUME answer'[r] = "none" PROVE UNCHANGED Box!vars
    <2>1. UNCHANGED Results
      BY <1>2, <1>5 DEF Results
    <2> QED
      BY <1>1, <1>3, <2>1 DEF Box!vars
  <1>6. (Missing(r) /\ answer'[r] = "missing") \/ answer'[r] = "none"
    BY <1>1 DEF BeginDelete, End, Ind, TypeOK
  <1> QED
    BY <1>4, <1>5, <1>6

(* The commit of a marking writes what it has found, and that only.        *)
LEMMA CommitMarks ==
    ASSUME Ind, BoxInv, NEW r \in Req, Commit(r), Marks(r) PROVE Box!Mark(r)
  <1> USE DEF Ind
  <1>0. PointTypes /\ Nobody \notin Req
    BY Points, Basics
  <1>1. /\ pc[r] = "flush" /\ todo[r] = {} /\ answer[r] = "none" /\ ~Deletes(r)
        /\ ~Inserts(r)
        /\ pc'[r] = "end" /\ answer'[r] = "ok"
        /\ UNCHANGED <<there, call, loaded>>
        /\ \A q \in Req \ {r} : UNCHANGED <<pc[q], loaded[q], answer[q]>>
    BY Kinds DEF Commit, End, TypeOK, WorkInv, WorkOf
  <1>2. /\ Found' = [Found EXCEPT ![r] = {loaded[r]}] /\ Found[r] = {loaded[r]}
        /\ Results' = [Results EXCEPT ![r] = "ok"] /\ Results[r] = "none"
    BY <1>1, View DEF Found, Results, Writes
  <1>3. UNCHANGED Found
    BY <1>2 DEF Found
  <1>4. gone' = gone
    <2>1. \A t \in Task : grip[t] # r
      BY <1>0, <1>1 DEF LockInv
    <2> QED
      BY <2>1 DEF Commit
  <1>5. ASSUME NEW n \in Note
        PROVE  (IF holder[n] = r THEN draft[n] ELSE row[n])
                 = IF n \in loaded[r] THEN [row[n] EXCEPT !.read = TRUE] ELSE row[n]
    <2>1. row[n] \in Row /\ draft[n] \in Row
      BY DEF TypeOK
    <2>2. holder[n] = r => draft[n].link = row[n].link /\ n \in loaded[r]
      BY <1>0 DEF DraftInv
    <2>3. n \in loaded[r] => row[n].read \/ (holder[n] = r /\ draft[n].read)
      BY <1>1 DEF MarkInv
    <2>4. row[n].read => draft[n].read
      BY DEF DraftInv
    <2> QED
      BY <2>1, <2>2, <2>3, <2>4 DEF Row
  <1>6. row' = [n \in Note |->
                  IF n \in loaded[r] THEN [row[n] EXCEPT !.read = TRUE] ELSE row[n]]
    BY <1>5 DEF Commit
  <1>7. call[r].kind \in {"mark", "mark_all"}
    BY DEF Marks
  <1> QED
    BY <1>1, <1>2, <1>3, <1>4, <1>6, <1>7 DEF Box!Mark, Box!Open, Box!Reply

(* That of a deletion takes its tasks out of all notifications.            *)
LEMMA CommitDeletes ==
    ASSUME Ind, BoxInv, NEW r \in Req, Commit(r), Deletes(r) PROVE Box!Delete(r)
  <1> USE DEF Ind
  <1>0. PointTypes /\ Nobody \notin Req /\ DoomOf(r)
    BY Points, Basics DEF BoxInv, DoomInv
  <1>1. /\ pc[r] = "flush" /\ todo[r] = {} /\ doomed[r] = {} /\ answer[r] = "none"
        /\ ~Marks(r) /\ ~Inserts(r) /\ pc'[r] = "end" /\ answer'[r] = "ok"
        /\ UNCHANGED <<there, call, loaded>>
        /\ \A q \in Req \ {r} : UNCHANGED <<pc[q], loaded[q], answer[q]>>
    BY Kinds DEF Commit, End, TypeOK, WorkInv, WorkOf
  <1>2. /\ Found' = [Found EXCEPT ![r] = {}] /\ Found[r] = {}
        /\ Results' = [Results EXCEPT ![r] = "ok"] /\ Results[r] = "none"
    BY <1>1, View DEF Found, Results, Writes
  <1>3. UNCHANGED Found
    BY <1>2 DEF Found
  <1>4. /\ call[r].tasks \subseteq Task
        /\ \A t \in Task : grip[t] = r => t \in call[r].tasks
        /\ \A t \in call[r].tasks : t \in gone \/ grip[t] = r
    BY <1>0, <1>1 DEF DoomOf
  <1>5. gone' = gone \cup call[r].tasks
    BY <1>4 DEF Commit
  <1>6. ASSUME NEW n \in Note
        PROVE  (IF holder[n] = r THEN draft[n] ELSE row[n])
                 = IF n \in there /\ row[n].link \in call[r].tasks
                   THEN [row[n] EXCEPT !.link = None] ELSE row[n]
    <2>1. row[n] \in Row /\ draft[n] \in Row
      BY DEF TypeOK
    <2>2. holder[n] = r => draft[n].link = None /\ draft[n].read = row[n].read
      BY <1>0 DEF DraftInv
    <2>3. holder[n] = r => n \in there /\ row[n].link \in call[r].tasks
      BY <1>0, <1>4 DEF LockInv, MineInv
    <2>4. n \in there /\ row[n].link \in call[r].tasks => holder[n] = r
      BY <1>0, <1>1, <1>4 DEF NoDanglingLinks, LinkInv
    <2> QED
      BY <2>1, <2>2, <2>3, <2>4 DEF Row
  <1>7. row' = [n \in Note |-> IF n \in there /\ row[n].link \in call[r].tasks
                               THEN [row[n] EXCEPT !.link = None] ELSE row[n]]
    BY <1>6 DEF Commit
  <1>8. call[r].kind \in {"delete_task", "delete_project"}
    BY DEF Deletes
  <1> QED
    BY <1>1, <1>2, <1>3, <1>5, <1>7, <1>8 DEF Box!Delete, Box!Open, Box!Reply

(* That of a worker adds what it has found, whose tasks are all there.     *)
LEMMA CommitInserts ==
    ASSUME Ind, BoxInv, NEW r \in Req, Commit(r), Inserts(r) PROVE Box!Insert(r)
  <1> USE DEF Ind
  <1>0. PointTypes /\ Nobody \notin Req
    BY Points, Basics
  <1>1. /\ pc[r] = "flush" /\ todo[r] = {} /\ answer[r] = "none"
        /\ ~Marks(r) /\ ~Deletes(r)
        /\ pc'[r] = "end" /\ answer'[r] = "ok" /\ there' = there \cup loaded[r]
        /\ UNCHANGED <<call, loaded>>
        /\ \A q \in Req \ {r} : UNCHANGED <<pc[q], loaded[q], answer[q]>>
    BY Kinds DEF Commit, End, TypeOK, WorkInv, WorkOf
  <1>2. /\ Found' = [Found EXCEPT ![r] = {loaded[r]}] /\ Found[r] = {loaded[r]}
        /\ Results' = [Results EXCEPT ![r] = "ok"] /\ Results[r] = "none"
    BY <1>1, View DEF Found, Results, Writes
  <1>3. UNCHANGED Found
    BY <1>2 DEF Found
  <1>4. row' = row /\ gone' = gone
    <2>1. (\A n \in Note : holder[n] # r) /\ (\A t \in Task : grip[t] # r)
      BY <1>0, <1>1 DEF LockInv
    <2> QED
      BY <2>1 DEF Commit, TypeOK
  <1>5. \A n \in loaded[r] : About[n] \notin gone
    BY <1>1 DEF ShareInv
  <1>6. call[r].kind \in {"notify", "scan"}
    BY DEF Inserts
  <1> QED
    BY <1>1, <1>2, <1>3, <1>4, <1>5, <1>6 DEF Box!Insert, Box!Open, Box!Reply

LEMMA RollbackRefuses ==
    ASSUME Ind, NEW r \in Req, pc[r] = "flush", Rollback(r) PROVE Box!Refuse(r)
  <1>1. /\ pc'[r] = "end" /\ answer'[r] = "error" /\ answer[r] = "none"
        /\ Writes(r)
        /\ UNCHANGED <<there, row, gone, call, loaded>>
        /\ \A q \in Req \ {r} : UNCHANGED <<pc[q], loaded[q], answer[q]>>
    BY DEF Rollback, End, Ind, TypeOK, WorkInv, WorkOf, Writes
  <1>2. /\ Found' = [Found EXCEPT ![r] = Found[r]]
        /\ Results' = [Results EXCEPT ![r] = "error"] /\ Results[r] = "none"
    BY <1>1, View DEF Found, Results
  <1>3. UNCHANGED Found
    BY <1>2 DEF Found
  <1>4. call[r].kind \in {"mark", "mark_all", "notify", "scan", "delete_task", "delete_project"}
    BY <1>1 DEF Writes, Marks, Deletes, Inserts
  <1> QED
    BY <1>1, <1>2, <1>3, <1>4 DEF Box!Refuse, Box!Open, Box!Reply

(* A listing shows nothing.                                                *)
LEMMA ListHidden ==
    ASSUME Ind, BoxInv, NEW r \in Req, BeginList(r) \/ Count(r) \/ Select(r)
    PROVE  UNCHANGED Box!vars
  <1>1. ~Marks(r) /\ ~Inserts(r) /\ ~Writes(r)
    BY DEF BeginList, Count, Select, Writes, Marks, Deletes, Inserts, Ind, WorkInv, WorkOf,
       BoxInv, BoxOf
  <1>2. /\ UNCHANGED <<there, row, gone, call, loaded>>
        /\ \A q \in Req \ {r} : UNCHANGED <<pc[q], loaded[q], answer[q]>>
    BY DEF BeginList, Count, Select, End, flushes, Ind, TypeOK
  <1>3. Found' = [Found EXCEPT ![r] = {}] /\ Results' = [Results EXCEPT ![r] = "none"]
    BY <1>1, <1>2, View
  <1>4. Found[r] = {} /\ Results[r] = "none"
    BY <1>1 DEF Found, Results
  <1>5. UNCHANGED Found /\ UNCHANGED Results
    BY <1>3, <1>4 DEF Found, Results
  <1> QED
    BY <1>2, <1>5 DEF Box!vars

LEMMA BoxNext ==
    Ind /\ BoxInv /\ [Next]_vars => [Box!Next]_Box!vars
  <1> SUFFICES ASSUME Ind, BoxInv, [Next]_vars PROVE Box!Next \/ UNCHANGED Box!vars
    OBVIOUS
  <1>1. CASE UNCHANGED vars
    <2>1. UNCHANGED <<there, row, gone, call, pc, loaded, answer>>
      BY <1>1 DEF vars, flushes
    <2> QED
      BY <2>1, NothingNew DEF Box!vars
  <1>2. ASSUME NEW r \in Req, BeginInsert(r) PROVE Box!Next
    BY <1>2, BeginInsertFinds DEF Box!Next
  <1>3. ASSUME NEW r \in Req, BeginMark(r) PROVE Box!Next
    BY <1>3, BeginMarkFinds DEF Box!Next
  <1>4. ASSUME NEW r \in Req, BeginDelete(r) PROVE Box!Next \/ UNCHANGED Box!vars
    BY <1>4, BeginDeleteHidden DEF Box!Next
  <1>5. ASSUME NEW r \in Req, DeleteRow(r) \/ Aim(r) \/ Write(r) PROVE UNCHANGED Box!vars
    <2>1. UNCHANGED <<there, row, gone, call, pc, loaded, answer>>
      BY <1>5 DEF DeleteRow, Aim, Write
    <2> QED
      BY <2>1, NothingNew DEF Box!vars
  <1>6. ASSUME NEW r \in Req, Commit(r) PROVE Box!Next
    <2>1. Marks(r) \/ Deletes(r) \/ Inserts(r)
      BY <1>6 DEF Commit, Ind, WorkInv, WorkOf
    <2> QED
      BY <1>6, <2>1, CommitMarks, CommitDeletes, CommitInserts DEF Box!Next
  <1>7. ASSUME NEW r \in Req, BreakDeadlock(r) \/ Fail(r) PROVE Box!Next
    <2>1. pc[r] = "flush" /\ Rollback(r)
      BY <1>7 DEF BreakDeadlock, Victim, Cycle, Deadlocked, WaitsFor, Fail
    <2> QED
      BY <2>1, RollbackRefuses DEF Box!Next
  <1>8. ASSUME NEW r \in Req, BeginList(r) \/ Count(r) \/ Select(r)
        PROVE  UNCHANGED Box!vars
    BY <1>8, ListHidden
  <1>9. ASSUME NEW r \in Req, InsertRow(r) PROVE Box!Next \/ UNCHANGED Box!vars
    <2>1. CASE Rollback(r)
      BY <1>9, <2>1, RollbackRefuses DEF InsertRow, Box!Next
    <2>2. CASE ~Rollback(r)
      <3>1. UNCHANGED <<there, row, gone, call, pc, loaded, answer>>
        BY <1>9, <2>2 DEF InsertRow
      <3> QED
        BY <3>1, NothingNew DEF Box!vars
    <2> QED
      BY <2>1, <2>2
  <1> QED
    BY <1>1, <1>2, <1>3, <1>4, <1>5, <1>6, <1>7, <1>8, <1>9 DEF Next, Proceed

LEMMA BoxInit == Init => Box!Init
  <1> SUFFICES ASSUME Init PROVE Box!Init
    OBVIOUS
  <1>1. Found = [r \in Req |-> {}] /\ Results = [r \in Req |-> "none"]
    BY DEF Init, Found, Results
  <1> QED
    BY <1>1 DEF Init, Box!Init

(* As far as committed rows and answers go requests do not meet at all:    *)
(* every marking, insertion and deletion is one step, whatever it has      *)
(* waited for, found changed, or been aborted by.                          *)
THEOREM ImplementsMailbox == Spec => IsMailbox
  <1>1. Ind /\ BoxInv /\ [Next]_vars => [Box!Next]_Box!vars
    BY BoxNext
  <1> QED
    BY <1>1, BoxInit, BoxHolds, Invariant, PTL DEF Spec, IsMailbox, Box!Spec

-----------------------------------------------------------------------------
(* Nobody waits for ever, as far as one state can tell.                    *)

(* r is in its flush, and the guard of Write, InsertRow, Aim, DeleteRow or *)
(* Commit holds.                                                           *)
Free(r) ==
    /\ pc[r] = "flush"
    /\ \/ want[r] # None /\ ~Inserts(r) /\ holder[want[r]] = Nobody
       \/ want[r] # None /\ Inserts(r) /\ grip[About[want[r]]] = Nobody
       \/ want[r] = None /\ \E n \in todo[r] : Marks(r) => First(n, todo[r])
       \/ /\ want[r] = None /\ todo[r] = {}
          /\ \/ doomed[r] = {}
             \/ \E t \in doomed[r] : /\ First(t, doomed[r]) /\ grip[t] = Nobody
                                    /\ \A s \in Req : ~Shares(s, t)

(* Requests that wait for none but each other, and have not ended.         *)
Apart(S) ==
    /\ S # {} /\ \A r \in S : pc[r] = "flush"
    /\ \A r \in S, s \in Req : WaitsFor(r, s) => s \in S

(* Among them one goes on.                                                 *)
SomebodyGoesOn ==
    \A S \in SUBSET Req : IsFiniteSet(S) /\ Apart(S) => \E r \in S : Free(r) \/ Victim(r)

(* A set of ids that is not empty has a first one.                         *)
LEMMA FirstOf ==
    ASSUME NEW W, W \subseteq Nat, W # {}
    PROVE  \E n \in W : First(n, W)
  <1> DEFINE R == OpToRel(<, Nat)
  <1>1. PICK n \in W : \A m \in W : ~(<<m, n>> \in R)
    <2> HIDE DEF R
    <2>1. IsWellFoundedOn(R, Nat)
      BY NatLessThanWellFounded DEF R
    <2> QED
      BY <2>1, WFMin
  <1>2. \A m \in W : ~(m < n)
    BY <1>1 DEF OpToRel
  <1> QED
    BY <1>2 DEF First

(* Who cannot go on waits for another request, which has not ended.        *)
LEMMA FreeOrWaits ==
    ASSUME Ind, NEW r \in Req, pc[r] = "flush", ~Free(r)
    PROVE  \E s \in Req \ {r} : pc[s] = "flush" /\ WaitsFor(r, s)
  <1> USE Basics DEF Ind
  <1>t. PointTypes
    BY Points
  <1>3. CASE want[r] # None /\ Inserts(r)
    <2>1. want[r] \in Note /\ About[want[r]] \in Task /\ grip[About[want[r]]] # Nobody
      BY <1>3, <1>t DEF Free, PointTypes
    <2>2. /\ grip[About[want[r]]] \in Req /\ pc[grip[About[want[r]]]] = "flush"
          /\ Deletes(grip[About[want[r]]])
      BY <1>t, <2>1 DEF PointTypes, LockInv
    <2>3. grip[About[want[r]]] # r
      BY <1>3, <2>2, Kinds
    <2> QED
      BY <1>3, <2>2, <2>3 DEF WaitsFor
  <1>1. CASE want[r] # None /\ ~Inserts(r)
    <2>1. want[r] \in Note /\ want[r] \in todo[r] /\ holder[want[r]] # Nobody
      BY <1>1, <1>t DEF Free, WorkInv, WorkOf, PointTypes
    <2>2. holder[want[r]] \in Req /\ holder[want[r]] # r /\ pc[holder[want[r]]] = "flush"
      BY <1>t, <2>1 DEF PointTypes, TodoInv, LockInv
    <2> QED
      BY <1>1, <2>2 DEF WaitsFor
  <1>2. CASE want[r] = None
    <2>1. todo[r] = {}
      <3> SUFFICES ASSUME todo[r] # {} PROVE FALSE
        OBVIOUS
      <3>1. todo[r] \subseteq Nat
        BY <1>t DEF PointTypes
      <3>2. \E n \in todo[r] : First(n, todo[r])
        BY <3>1, FirstOf
      <3> QED
        BY <1>2, <3>2 DEF Free
    <2>2. PICK t \in doomed[r] : First(t, doomed[r])
      <3>1. doomed[r] \subseteq Nat /\ doomed[r] # {}
        BY <1>2, <1>t, <2>1 DEF Free, PointTypes
      <3> QED
        BY <3>1, FirstOf
    <2>3. t \in Task /\ (grip[t] # Nobody \/ \E s \in Req : Shares(s, t))
      <3>1. t \in Task
        BY <1>t, <2>2 DEF PointTypes
      <3>2. ~(grip[t] = Nobody /\ \A s \in Req : ~Shares(s, t))
        BY <1>2, <2>1, <2>2 DEF Free
      <3> QED
        BY <3>1, <3>2
    <2>4. CASE grip[t] # Nobody
      <3>0. grip[t] \in Req /\ pc[grip[t]] = "flush"
        BY <1>t, <2>3, <2>4 DEF PointTypes, LockInv
      <3>2. grip[t] # r
        <4>1. t \in Nat /\ ~(t < t)
          BY <2>3
        <4> QED
          BY <2>2, <2>3, <4>1 DEF OrderInv
      <3>1. grip[t] \in Req /\ pc[grip[t]] = "flush" /\ grip[t] # r
        BY <3>0, <3>2
      <3> QED
        BY <1>2, <2>1, <2>2, <3>1 DEF WaitsFor
    <2>5. ASSUME NEW s \in Req, Shares(s, t) PROVE pc[s] = "flush" /\ s # r /\ WaitsFor(r, s)
      <3>1. pc[s] = "flush" /\ Inserts(s)
        BY <2>5 DEF Shares
      <3>2. ~Inserts(r)
        BY <2>2 DEF WorkInv, WorkOf
      <3> QED
        BY <1>2, <2>1, <2>2, <2>5, <3>1, <3>2 DEF WaitsFor
    <2> QED
      BY <2>3, <2>4, <2>5
  <1> QED
    BY <1>1, <1>2, <1>3

(* A finite deadlock contains one that has no smaller one inside.          *)
LEMMA SmallestDeadlock ==
    ASSUME NEW S \in SUBSET Req, IsFiniteSet(S), Deadlocked(S)
    PROVE  \E r \in S : Victim(r)
  <1> DEFINE Sizes == {Cardinality(T) : T \in {U \in SUBSET S : Deadlocked(U)}}
  <1>1. \A T \in SUBSET S : IsFiniteSet(T) /\ Cardinality(T) \in Nat
    BY FS_Subset, FS_CardinalityType
  <1>2. PICK k \in Sizes : First(k, Sizes)
    <2>1. Sizes \subseteq Nat /\ Sizes # {}
      BY <1>1
    <2> HIDE DEF Sizes
    <2> QED
      BY <2>1, FirstOf
  <1>3. PICK T \in SUBSET S : Deadlocked(T) /\ Cardinality(T) = k
    OBVIOUS
  <1>4. ASSUME NEW U \in SUBSET T, Deadlocked(U) PROVE U = T
    <2>1. U \in SUBSET S /\ Cardinality(T) <= Cardinality(U)
      BY <1>2, <1>3, <1>4 DEF First
    <2>2. /\ IsFiniteSet(T) /\ Cardinality(T) \in Nat /\ Cardinality(U) \in Nat
          /\ Cardinality(U) <= Cardinality(T)
          /\ Cardinality(T) = Cardinality(U) => T = U
      BY <1>1, <2>1, FS_Subset
    <2> HIDE DEF Sizes
    <2> QED
      BY <2>1, <2>2
  <1>5. PICK r \in T : TRUE
    BY <1>3 DEF Deadlocked
  <1> HIDE DEF Sizes
  <1> QED
    <2>1. T \in SUBSET Waiting
      BY <1>3 DEF Deadlocked, Waiting
    <2> QED
      BY <1>3, <1>4, <1>5, <2>1 DEF Victim, Cycle

(* Whoever waits for a lock waits, perhaps through others, for a request   *)
(* that can go on or for a deadlock of which PostgreSQL aborts one: what   *)
(* RequestsEnd needs besides fairness, for any number of requests.         *)
THEOREM NobodyIsStuck == Spec => []SomebodyGoesOn
  <1>1. ASSUME Ind PROVE SomebodyGoesOn
    <2> SUFFICES ASSUME NEW S \in SUBSET Req, IsFiniteSet(S), Apart(S),
                        \A r \in S : ~Free(r)
                 PROVE  \E r \in S : Victim(r)
      BY DEF SomebodyGoesOn
    <2>1. \A r \in S : \E s \in S : WaitsFor(r, s)
      BY <1>1, FreeOrWaits DEF Apart
    <2>2. Deadlocked(S)
      BY <2>1 DEF Deadlocked, Apart
    <2> QED
      BY <2>2, SmallestDeadlock
  <1> QED
    BY <1>1, Invariant, PTL
=============================================================================
