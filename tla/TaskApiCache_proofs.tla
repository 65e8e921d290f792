------------------------ MODULE TaskApiCache_proofs ------------------------
(***************************************************************************)
(* Proofs about the cache of TaskApi: whose tasks it holds, and why an     *)
(* entry of it can be stale.  They rest on the invariant Ind of            *)
(* TaskApi_proofs.                                                         *)
(***************************************************************************)
EXTENDS TaskApi_proofs

(* A GET reads only tasks of its user's projects.                          *)
PageInv == \A r \in Req : pc[r] \in {"select", "fill"} =>
    \A i \in page[r].items : Owner[i.row.project] = call[r].user

(* A GET that no exposed writer of its user has overlapped holds the       *)
(* listing of now.                                                         *)
UnracedInv == \A g \in Req : pc[g] \in {"select", "fill"} /\ g \notin raced =>
    /\ \A w \in Req : Exposed(w) => call[w].user # call[g].user
    /\ page[g].total = Cardinality(Matching(call[g].user, call[g].query))
    /\ pc[g] = "fill" => page[g].items = Items(call[g].user, call[g].query)

(* An exposed writer that has purged its user's listings has left none but *)
(* excused ones, or those its DEL will remove.                             *)
PurgedInv == \A w \in Req, q \in Queries :
    Exposed(w) /\ call[w].op # "drop" /\ w \notin unpurged =>
        LET k == <<call[w].user, q>>
        IN  \/ cache[k] = NoEntry
            \/ k \in excused
            \/ pc[w] = "del" /\ OwnPurge(w) /\ k \in scan[w]

CacheInv == UnracedInv /\ PurgedInv /\ StaleOnlyIfExcused

-----------------------------------------------------------------------------
(* What one step does to listings, entries and exposed writers.            *)

(* A commit changes the listings of nobody but its caller.                 *)
LEMMA ListingSame ==
    ASSUME Ind, NEW r \in Req, Step(r), NEW u, NEW q,
           UNCHANGED <<projects, tasks>> \/ u # call[r].user
    PROVE  /\ Matching(u, q)' = Matching(u, q)
           /\ Items(u, q)' = Items(u, q)
           /\ Listing(u, q)' = Listing(u, q)
<1>1. CASE UNCHANGED <<projects, tasks>>
  BY <1>1 DEF Matching, Matches, Owned, Items, Listing
<1>2. CASE Commit(r) /\ pend[r] # NoPending /\ u # call[r].user
  <2>0. TypeOK /\ TypeOK'  BY <1>2, StepType DEF Ind
  <2>1. Owned(u)' = Owned(u)
    <3>1. projects' = IF pend[r].kind = "drop" THEN projects \ {pend[r].project}
                                              ELSE projects
      BY <1>2 DEF Commit
    <3>2. pend[r].kind = "drop" => Owner[pend[r].project] # u
      <4>1. pc[r] \in Writing /\ PendOK(pc[r], call[r], loaded[r], pend[r])
        BY <1>2 DEF Commit, Writing, Ind, PendInv
      <4> QED  BY <1>2, <4>1 DEF PendOK, Ind, CheckInv
    <3> QED  BY <3>1, <3>2 DEF Owned
  <2>2. ASSUME NEW t \in Task, tasks'[t] # tasks[t]
        PROVE  ~Matches(tasks[t], u, q) /\ ~Matches(tasks'[t], u, q)
    <3>1. Asked(call[r], t)  BY <1>2, <2>2, CommitAsked
    <3>2. /\ tasks[t] = NoRow \/ Owner[tasks[t].project] = call[r].user
          /\ tasks'[t] = NoRow \/ Owner[tasks'[t].project] = call[r].user
      <4>1. CASE call[r].op = "create"
        BY <3>1, <4>1 DEF Asked
      <4>2. CASE call[r].op = "update"
        BY <3>1, <4>2 DEF Asked
      <4>3. CASE call[r].op = "delete"
        BY <3>1, <4>3 DEF Asked
      <4>4. CASE call[r].op = "drop"
        BY <3>1, <4>4 DEF Asked
      <4> QED  BY <3>1, <4>1, <4>2, <4>3, <4>4 DEF Asked
    <3> QED  BY <1>2, <3>2 DEF Matches, Owned
  <2>3. ASSUME NEW t \in Task
        PROVE  /\ Matches(tasks[t], u, q)' <=> Matches(tasks[t], u, q)
               /\ Matches(tasks[t], u, q) => tasks'[t] = tasks[t]
    BY <2>1, <2>2 DEF Matches
  <2>4. Matching(u, q)' = Matching(u, q)  BY <2>3 DEF Matching
  <2>5. \A t \in Matching(u, q) : tasks'[t] = tasks[t]  BY <2>3 DEF Matching
  <2>6. Items(u, q)' = Items(u, q)  BY <2>4, <2>5 DEF Items
  <2> QED  BY <2>4, <2>6 DEF Listing
<1> QED  BY <1>1, <1>2, TableSame

(* An entry is new only if a GET has just written it.                      *)
LEMMA CacheStep ==
    ASSUME Ind, NEW r \in Req, Step(r), NEW k \in Key, cache'[k] # NoEntry
    PROVE  \/ /\ Fill(r) /\ k = KeyOf(r) /\ cache'[k] = page[r]
           \/ /\ cache'[k] = cache[k]
              /\ k \in excused => k \in excused'
<1>0. TypeOK  BY DEF Ind
<1>1. ASSUME NEW c \in Calls, BeginWrite(r, c) \/ BeginList(r, c)
      PROVE  UNCHANGED <<cache, excused>>
  BY <1>0, <1>1, BeginEffect DEF BeginList, history
<1>7. CASE DropWork(r)
  BY <1>7, DropEffect DEF DropMove
<1>2. CASE (Flush(r) /\ ~DropWork(r)) \/ UpdateRefresh(r)
  BY <1>2 DEF Flush, DropWork, CreateFlush, UpdateFlush, DeleteFlush, UpdateRefresh,
              history
<1>3. CASE Del(r)
  BY <1>0, <1>3 DEF TypeOK, Del
<1>4. CASE Commit(r)
  BY <1>4 DEF Commit
<1>5. CASE Fill(r)
  BY <1>0, <1>5 DEF TypeOK, Fill
<1>6. CASE Scan(r) \/ PurgeFails(r) \/ Dispatch(r) \/ Abort(r) \/ Count(r)
           \/ Select(r) \/ FillFails(r)
  BY <1>6 DEF Scan, PurgeFails, Dispatch, Abort, Undo, Count, Select, FillFails, history
<1> QED  BY <1>1, <1>2, <1>3, <1>4, <1>5, <1>6, <1>7 DEF Step, Proceed, DropWork

LEMMA GhostsGrow ==
    ASSUME Ind, NEW r \in Req, Step(r)
    PROVE  raced \subseteq raced' /\ unpurged \subseteq unpurged'
<1>0. TypeOK  BY DEF Ind
<1>1. ASSUME NEW c \in Calls, BeginWrite(r, c) \/ BeginList(r, c)
      PROVE  UNCHANGED <<raced, unpurged>>
  BY <1>0, <1>1, BeginEffect DEF BeginList, history
<1>5. CASE DropWork(r)
  BY <1>5, DropEffect DEF DropMove
<1>2. CASE (Flush(r) /\ ~DropWork(r)) \/ UpdateRefresh(r)
  BY <1>2 DEF Flush, DropWork, CreateFlush, UpdateFlush, DeleteFlush, UpdateRefresh,
              history
<1>3. CASE Scan(r) \/ Del(r) \/ PurgeFails(r) \/ Dispatch(r) \/ Commit(r) \/ Abort(r)
  BY <1>3 DEF Scan, Del, PurgeFails, Dispatch, Commit, Abort, Undo, history
<1>4. CASE Count(r) \/ Select(r) \/ Fill(r) \/ FillFails(r)
  BY <1>4 DEF Count, Select, Fill, FillFails, history
<1> QED  BY <1>1, <1>2, <1>3, <1>4, <1>5 DEF Step, Proceed, DropWork

(* A flush or a refresh leaves a writer before its first purge, unless it  *)
(* deletes a project.                                                      *)
LEMMA FlushExposure ==
    ASSUME Ind, NEW r \in Req, Flush(r) \/ UpdateRefresh(r), Exposed(r)'
    PROVE  DropLoad(r)
<1>0. TypeOK  BY DEF Ind
<1>1. pc'[r] \in {"scan", "del", "dispatch", "commit"}  BY DEF Exposed
<1>2. ASSUME UNCHANGED call, pc'[r] = "scan", Head(purge'[r]) = call[r].user
      PROVE  FALSE
  BY <1>2 DEF Exposed, OwnPurge, Target
<1>3. CASE CreateFlush(r)
  <2>1. call[r].row \in Row /\ call[r].user \in User
    BY <1>0, <1>3, CallFields DEF CreateFlush, Ind, PlaceInv, PlaceOK
  <2>2. Head(PurgeList(call[r].user, None, call[r].row.assignee)) = call[r].user
    BY <2>1, RowFields, PurgeListType
  <2>3. /\ UNCHANGED call /\ pc'[r] = "scan"
        /\ purge'[r] = PurgeList(call[r].user, None, call[r].row.assignee)
    BY <1>0, <1>1, <1>3 DEF TypeOK, CreateFlush, Fail
  <2> QED  BY <1>2, <2>2, <2>3
<1>4. CASE UpdateFlush(r)
  BY <1>0, <1>1, <1>4 DEF TypeOK, UpdateFlush, Fail
<1>5. CASE UpdateRefresh(r)
  <2>1. UNCHANGED call  BY <1>5 DEF UpdateRefresh
  <2>2. pc'[r] = "scan" /\ Head(purge'[r]) = call[r].user
    BY <1>0, <1>1, <1>5, RefreshEffect DEF TypeOK
  <2> QED  BY <1>2, <2>1, <2>2
<1>6. CASE DeleteFlush(r)
  <2>1. UNCHANGED call /\ pc'[r] = "scan" /\ purge'[r] = <<call[r].user>>
    BY <1>0, <1>6 DEF TypeOK, DeleteFlush
  <2>2. Head(purge'[r]) = call[r].user  BY <2>1
  <2> QED  BY <1>2, <2>1, <2>2
<1> QED  BY <1>3, <1>4, <1>5, <1>6 DEF Flush

(* A writer becomes exposed in the step that marks the GETs of its user.   *)
LEMMA ExposureStep ==
    ASSUME Ind, NEW r \in Req, Step(r), Exposed(r)'
    PROVE  /\ call'[r] = call[r]
           /\ Exposed(r) \/ raced' = raced \cup Racing(call[r].user)
<1>0. TypeOK  BY DEF Ind
<1>1. pc'[r] \in {"scan", "del", "dispatch", "commit"}  BY DEF Exposed
<1>2. ASSUME NEW c \in Calls, BeginWrite(r, c) \/ BeginList(r, c)  PROVE FALSE
  <2>1. pc'[r] \in {"failed", "flush", "ok", "count"}
    BY <1>0, <1>2, BeginEffect DEF TypeOK, BeginList
  <2> QED  BY <1>1, <2>1
<1>3. CASE DropWork(r)
  <2>1. PICK rows \in SUBSET Task, rest \in SUBSET Task,
             place \in {"rows", "cascade", "commit"} : DropMove(r, rows, rest, place)
    BY <1>3, DropEffect
  <2>2. pc'[r] = place /\ call' = call  BY <1>0, <2>1 DEF DropMove, TypeOK
  <2>3. place = "commit"  BY <1>1, <2>2
  <2> QED  BY <2>1, <2>2, <2>3 DEF DropMove
<1>7. ASSUME (Flush(r) /\ ~DropWork(r)) \/ UpdateRefresh(r)  PROVE FALSE
  <2>1. DropLoad(r)  BY <1>7, FlushExposure
  <2>2. ~UpdateRefresh(r)  BY <2>1 DEF DropLoad, UpdateRefresh
  <2> QED  BY <1>7, <2>1, <2>2 DEF DropWork
<1>4. CASE Scan(r) \/ PurgeFails(r)
  BY <1>4 DEF Scan, PurgeFails, Exposed
<1>5. CASE Del(r) \/ Dispatch(r)
  BY <1>5 DEF Del, Dispatch, Exposed
<1>6. CASE Commit(r) \/ Abort(r) \/ Count(r) \/ Select(r) \/ Fill(r) \/ FillFails(r)
  BY <1>0, <1>1, <1>6 DEF TypeOK, Commit, Abort, Undo, Count, Select, Fill, FillFails
<1> QED  BY <1>2, <1>3, <1>4, <1>5, <1>6, <1>7 DEF Step, Proceed, DropWork

LEMMA ExposedFrame ==
    ASSUME TypeOK, NEW r \in Req, Step(r), NEW w \in Req, w # r
    PROVE  /\ Exposed(w)' <=> Exposed(w)
           /\ OwnPurge(w)' <=> OwnPurge(w)
BY StepFrame DEF Exposed, OwnPurge, Target

-----------------------------------------------------------------------------
(* Whose tasks the cache holds.                                            *)

LEMMA GetStep ==
    ASSUME Ind, NEW r \in Req, Step(r), pc'[r] \in {"select", "fill"}
    PROVE  Count(r) \/ Select(r)
<1>0. TypeOK  BY DEF Ind
<1>1. ASSUME NEW c \in Calls, BeginWrite(r, c) \/ BeginList(r, c)  PROVE FALSE
  <2>1. pc'[r] \in {"failed", "flush", "ok", "count"}
    BY <1>0, <1>1, BeginEffect DEF TypeOK, BeginList
  <2> QED  BY <2>1
<1>2. CASE (Flush(r) /\ ~DropWork(r)) \/ UpdateRefresh(r)
  <2>1. pc'[r] \in {"failed", "scan", "refresh"}
    BY <1>0, <1>2 DEF TypeOK, Flush, DropWork, CreateFlush, UpdateFlush, DeleteFlush,
                      UpdateRefresh, Fail
  <2> QED  BY <2>1
<1>5. CASE DropWork(r)
  <2>1. pc'[r] \in {"rows", "cascade", "commit"}
    BY <1>0, <1>5, DropEffect DEF DropMove, TypeOK
  <2> QED  BY <2>1
<1>3. CASE Scan(r) \/ Del(r) \/ PurgeFails(r)
  BY <1>3, PurgeEffect
<1>4. CASE Dispatch(r) \/ Commit(r) \/ Abort(r) \/ Fill(r) \/ FillFails(r)
  BY <1>0, <1>4 DEF TypeOK, Dispatch, Commit, Abort, Undo, Fill, FillFails
<1> QED  BY <1>1, <1>2, <1>3, <1>4, <1>5 DEF Step, Proceed, DropWork

LEMMA PageStep ==
    ASSUME Ind, PageInv, NEW r \in Req, Step(r)
    PROVE  PageInv'
<1>0. TypeOK  BY DEF Ind
<1>1. ASSUME NEW g \in Req, g # r, pc'[g] \in {"select", "fill"}
      PROVE  \A i \in page'[g].items : Owner[i.row.project] = call'[g].user
  BY <1>0, <1>1, StepFrame DEF PageInv
<1>2. ASSUME pc'[r] \in {"select", "fill"}
      PROVE  \A i \in page'[r].items : Owner[i.row.project] = call'[r].user
  <2>1. CASE Count(r)
    BY <1>0, <2>1 DEF TypeOK, Count
  <2>2. CASE Select(r)
    <3>1. page'[r].items = Items(call[r].user, call[r].query) /\ UNCHANGED call
      BY <1>0, <2>2 DEF TypeOK, Select
    <3>2. \A i \in Items(call[r].user, call[r].query) :
             Owner[i.row.project] = call[r].user
      BY DEF Items, Matching, Matches, Owned
    <3> QED  BY <3>1, <3>2
  <2> QED  BY <1>2, <2>1, <2>2, GetStep
<1> QED  BY <1>1, <1>2 DEF PageInv

LEMMA IsolationStep ==
    ASSUME Ind, PageInv, TenantIsolation, NEW r \in Req, Step(r)
    PROVE  TenantIsolation'
<1>1. ASSUME NEW k \in Key, cache'[k] # NoEntry
      PROVE  \A i \in cache'[k].items : Owner[i.row.project] = k[1]
  <2>1. CASE Fill(r) /\ k = KeyOf(r) /\ cache'[k] = page[r]
    BY <2>1 DEF Fill, PageInv, KeyOf
  <2>2. CASE cache'[k] = cache[k]
    BY <1>1, <2>2 DEF TenantIsolation
  <2> QED  BY <1>1, <2>1, <2>2, CacheStep
<1> QED  BY <1>1 DEF TenantIsolation

(* Whatever requests run side by side, what the cache holds for a user lies*)
(* in that user's projects (TaskService.list_tasks, CacheService).         *)
THEOREM CacheIsTenantSafe == Spec => []TenantIsolation
<1>1. Init => PageInv /\ TenantIsolation
  BY DEF Init, PageInv, TenantIsolation
<1>2. Ind /\ PageInv /\ TenantIsolation /\ [Next]_vars => PageInv' /\ TenantIsolation'
  <2> SUFFICES ASSUME Ind, PageInv, TenantIsolation, [Next]_vars
               PROVE  PageInv' /\ TenantIsolation'
    OBVIOUS
  <2>1. ASSUME NEW r \in Req, Step(r)  PROVE PageInv' /\ TenantIsolation'
    BY <2>1, PageStep, IsolationStep
  <2>2. ASSUME NEW k \in Key, Expire(k)  PROVE PageInv' /\ TenantIsolation'
    BY <2>2 DEF Expire, Ind, TypeOK, PageInv, TenantIsolation
  <2>3. CASE UNCHANGED vars
    BY <2>3 DEF vars, PageInv, TenantIsolation
  <2> QED  BY <2>1, <2>2, <2>3, NextCases
<1> QED  BY <1>1, <1>2, IndInvariant, PTL DEF Spec

-----------------------------------------------------------------------------
(* Why an entry can be stale.                                              *)

LEMMA UnracedStep ==
    ASSUME Ind, CacheInv, NEW r \in Req, Step(r)
    PROVE  UnracedInv'
<1>0. TypeOK /\ UnracedInv  BY DEF Ind, CacheInv
<1>1. ASSUME NEW g \in Req, pc'[g] \in {"select", "fill"}, g \notin raced',
             pc[g] \in {"select", "fill"}, call'[g] = call[g]
      PROVE  /\ g \notin raced
             /\ \A w \in Req : Exposed(w)' => call'[w].user # call'[g].user
             /\ Matching(call[g].user, call[g].query)'
                  = Matching(call[g].user, call[g].query)
             /\ Items(call[g].user, call[g].query)'
                  = Items(call[g].user, call[g].query)
  <2>1. g \notin raced  BY <1>1, GhostsGrow
  <2>2. ASSUME NEW w \in Req, Exposed(w)'  PROVE call'[w].user # call'[g].user
    <3>1. CASE w # r
      BY <1>0, <1>1, <2>1, <2>2, <3>1, ExposedFrame, StepFrame DEF UnracedInv
    <3>2. CASE w = r
      <4>1. call'[r] = call[r] /\ (Exposed(r) \/ raced' = raced \cup Racing(call[r].user))
        BY <2>2, <3>2, ExposureStep
      <4>2. CASE Exposed(r)
        BY <1>0, <1>1, <2>1, <3>2, <4>1, <4>2 DEF UnracedInv
      <4>3. CASE raced' = raced \cup Racing(call[r].user)
        BY <1>1, <3>2, <4>1, <4>3 DEF Racing
      <4> QED  BY <4>1, <4>2, <4>3
    <3> QED  BY <3>1, <3>2
  <2>3. UNCHANGED <<projects, tasks>> \/ call[g].user # call[r].user
    <3>1. CASE Commit(r)
      BY <1>0, <1>1, <2>1, <3>1 DEF UnracedInv, Exposed, Commit
    <3> QED  BY <3>1, TableSame
  <2>4. /\ Matching(call[g].user, call[g].query)'
             = Matching(call[g].user, call[g].query)
        /\ Items(call[g].user, call[g].query)'
             = Items(call[g].user, call[g].query)
    BY <1>1, <2>3, ListingSame
  <2> QED  BY <2>1, <2>2, <2>4
<1>2. ASSUME NEW g \in Req, pc'[g] \in {"select", "fill"}, g \notin raced', g # r
      PROVE  /\ \A w \in Req : Exposed(w)' => call'[w].user # call'[g].user
             /\ page'[g].total = Cardinality(Matching(call[g].user, call[g].query))'
             /\ pc'[g] = "fill" => page'[g].items = Items(call[g].user, call[g].query)'
  <2>1. pc'[g] = pc[g] /\ call'[g] = call[g] /\ page'[g] = page[g]
    BY <1>0, <1>2, StepFrame
  <2>2. g \notin raced  BY <1>2, GhostsGrow
  <2>3. /\ page[g].total = Cardinality(Matching(call[g].user, call[g].query))
        /\ pc[g] = "fill" => page[g].items = Items(call[g].user, call[g].query)
    BY <1>0, <1>2, <2>1, <2>2 DEF UnracedInv
  <2>4. /\ \A w \in Req : Exposed(w)' => call'[w].user # call'[g].user
        /\ Matching(call[g].user, call[g].query)'
             = Matching(call[g].user, call[g].query)
        /\ Items(call[g].user, call[g].query)' = Items(call[g].user, call[g].query)
    BY <1>1, <1>2, <2>1
  <2>5. Cardinality(Matching(call[g].user, call[g].query))'
          = Cardinality(Matching(call[g].user, call[g].query))
    BY <2>4
  <2> QED  BY <2>1, <2>3, <2>4, <2>5
<1>3. ASSUME Count(r), r \notin raced'
      PROVE  /\ \A w \in Req : Exposed(w)' => call'[w].user # call'[r].user
             /\ page'[r].total = Cardinality(Matching(call[r].user, call[r].query))'
             /\ pc'[r] # "fill"
  <2>1. /\ UNCHANGED <<table, call, purge>> /\ pc' = [pc EXCEPT ![r] = "select"]
        /\ page'[r].total = Cardinality(Matching(call[r].user, call[r].query))
        /\ ~\E w \in Req : Exposed(w) /\ call[w].user = call[r].user
    BY <1>0, <1>3 DEF TypeOK, Count, writer
  <2>2. \A w \in Req : Exposed(w)' => Exposed(w)
    BY <1>0, <2>1 DEF TypeOK, Exposed, OwnPurge, Target
  <2>3. Matching(call[r].user, call[r].query)' = Matching(call[r].user, call[r].query)
    BY <2>1 DEF Matching, Matches, Owned, table
  <2>4. pc'[r] = "select"  BY <1>0, <2>1 DEF TypeOK
  <2> QED  BY <2>1, <2>2, <2>3, <2>4
<1>4. ASSUME Select(r), r \notin raced'
      PROVE  /\ \A w \in Req : Exposed(w)' => call'[w].user # call'[r].user
             /\ page'[r].total = Cardinality(Matching(call[r].user, call[r].query))'
             /\ page'[r].items = Items(call[r].user, call[r].query)'
  <2>1. /\ UNCHANGED <<projects, tasks, call>> /\ pc[r] = "select" /\ pc'[r] = "fill"
        /\ page'[r].total = page[r].total
        /\ page'[r].items = Items(call[r].user, call[r].query)
    BY <1>0, <1>4 DEF TypeOK, Select, table
  <2>2. r \notin raced  BY <1>4, GhostsGrow
  <2>3. page[r].total = Cardinality(Matching(call[r].user, call[r].query))
    BY <1>0, <2>1, <2>2 DEF UnracedInv
  <2>4. /\ \A w \in Req : Exposed(w)' => call'[w].user # call'[r].user
        /\ Matching(call[r].user, call[r].query)'
             = Matching(call[r].user, call[r].query)
        /\ Items(call[r].user, call[r].query)' = Items(call[r].user, call[r].query)
    BY <1>1, <1>4, <2>1
  <2>5. Cardinality(Matching(call[r].user, call[r].query))'
          = Cardinality(Matching(call[r].user, call[r].query))
    BY <2>4
  <2> QED  BY <2>1, <2>3, <2>4, <2>5
<1>5. pc'[r] \in {"select", "fill"} => Count(r) \/ Select(r)
  BY GetStep
<1> QED
  <2> SUFFICES ASSUME NEW g \in Req, pc'[g] \in {"select", "fill"}, g \notin raced'
      PROVE  /\ \A w \in Req : Exposed(w)' => call'[w].user # call'[g].user
             /\ page'[g].total = Cardinality(Matching(call[g].user, call[g].query))'
             /\ pc'[g] = "fill" => page'[g].items = Items(call[g].user, call[g].query)'
    BY DEF UnracedInv
  <2>1. CASE g # r
    BY <1>2, <2>1
  <2>2. CASE g = r
    BY <1>3, <1>4, <1>5, <2>2
  <2> QED  BY <2>1, <2>2

(* What PurgedInv says of a writer and a key.                              *)
Gone(w, k) ==
    \/ cache[k] = NoEntry
    \/ k \in excused
    \/ pc[w] = "del" /\ OwnPurge(w) /\ k \in scan[w]

LEMMA PurgedStep ==
    ASSUME Ind, CacheInv, NEW r \in Req, Step(r)
    PROVE  PurgedInv'
<1>0. TypeOK /\ UnracedInv /\ PurgedInv  BY DEF Ind, CacheInv
<1>1. ASSUME NEW k \in Key, NEW w \in Req, Exposed(w), call[w].user = k[1], w # r,
             Gone(w, k)
      PROVE  cache'[k] = NoEntry \/ k \in excused'
               \/ (pc'[w] = "del" /\ OwnPurge(w)' /\ k \in scan'[w])
  <2>1. SUFFICES ASSUME cache'[k] # NoEntry
                 PROVE  k \in excused'
                          \/ (pc'[w] = "del" /\ OwnPurge(w)' /\ k \in scan'[w])
    OBVIOUS
  <2>2. CASE Fill(r) /\ k = KeyOf(r)
    <3>1. pc[r] = "fill" /\ call[r].user = k[1]  BY <2>2 DEF Fill, KeyOf
    <3>2. r \in raced  BY <1>0, <1>1, <3>1 DEF UnracedInv
    <3> QED  BY <2>2, <3>2 DEF Fill
  <2>3. CASE cache'[k] = cache[k] /\ (k \in excused => k \in excused')
    <3>1. CASE k \in excused
      BY <2>3, <3>1
    <3>2. CASE pc[w] = "del" /\ OwnPurge(w) /\ k \in scan[w]
      BY <1>0, <1>1, <3>2, StepFrame, ExposedFrame
    <3> QED  BY <1>1, <2>1, <2>3, <3>1, <3>2 DEF Gone
  <2> QED  BY <2>1, <2>2, <2>3, CacheStep
<1>2. ASSUME NEW q \in Queries, NEW k \in Key, k = <<call[r].user, q>>,
             Exposed(r)', call[r].op # "drop", r \notin unpurged',
             Exposed(r) => Gone(r, k)
      PROVE  cache'[k] = NoEntry \/ k \in excused'
               \/ (pc'[r] = "del" /\ OwnPurge(r)' /\ k \in scan'[r])
  <2>1. pc'[r] \in {"scan", "del", "dispatch", "commit"}  BY <1>2 DEF Exposed
  <2>2. CASE Scan(r)
    <3>0. UNCHANGED <<cache, excused, call>>  BY <2>2 DEF Scan
    <3>1. CASE OwnPurge(r) /\ cache[k] # NoEntry
      <4>1. k \in {l \in Key : l[1] = Target(r) /\ cache[l] # NoEntry}
        BY <1>2, <3>1 DEF OwnPurge
      <4>2. /\ scan' = [scan EXCEPT ![r] = {l \in Key : l[1] = Target(r)
                                                       /\ cache[l] # NoEntry}]
            /\ pc' = [pc EXCEPT ![r] = "del"] /\ UNCHANGED purge
        BY <2>2, <4>1 DEF Scan
      <4>3. pc'[r] = "del" /\ k \in scan'[r]  BY <1>0, <4>1, <4>2 DEF TypeOK
      <4>4. OwnPurge(r)'  BY <3>0, <3>1, <4>2 DEF OwnPurge, Target
      <4> QED  BY <4>3, <4>4
    <3>2. CASE ~OwnPurge(r)
      BY <1>2, <2>2, <3>0, <3>2 DEF Scan, Exposed, Gone
    <3> QED  BY <3>0, <3>1, <3>2
  <2>3. CASE Del(r)
    <3>1. cache'[k] = IF k \in scan[r] THEN NoEntry ELSE cache[k]  BY <2>3 DEF Del
    <3>2. k \notin scan[r] /\ k \in excused => k \in excused'  BY <2>3 DEF Del
    <3>3. Gone(r, k)  BY <1>2, <2>3 DEF Del, Exposed
    <3> QED  BY <3>1, <3>2, <3>3 DEF Gone
  <2>4. CASE PurgeFails(r)
    <3>1. ~OwnPurge(r)  BY <1>2, <2>4 DEF PurgeFails
    <3>2. Gone(r, k)  BY <1>2, <2>4, <3>1 DEF PurgeFails, Exposed
    <3> QED  BY <2>4, <3>1, <3>2 DEF PurgeFails, Gone
  <2>5. CASE Dispatch(r)
    <3>1. Gone(r, k)  BY <1>2, <2>5 DEF Dispatch, Exposed
    <3>2. UNCHANGED <<cache, excused>> /\ pc[r] = "dispatch"
      BY <2>5 DEF Dispatch, history
    <3> QED  BY <3>1, <3>2 DEF Gone
  <2>6. ~(\E c \in Calls : BeginWrite(r, c) \/ BeginList(r, c))
    <3> SUFFICES ASSUME NEW c \in Calls, BeginWrite(r, c) \/ BeginList(r, c)
                 PROVE  FALSE
      OBVIOUS
    <3>1. pc'[r] \in {"failed", "flush", "ok", "count"}
      BY <1>0, BeginEffect DEF TypeOK, BeginList
    <3> QED  BY <2>1, <3>1
  <2>7. ~Flush(r) /\ ~UpdateRefresh(r) /\ ~Deletion(r)
    <3>1. ~DropWork(r)  BY <1>2, DropEffect DEF DropMove
    <3> QED  BY <1>2, <3>1, FlushExposure DEF DropWork
  <2>8. ~(Commit(r) \/ Abort(r) \/ Count(r) \/ Select(r) \/ Fill(r) \/ FillFails(r))
    BY <1>0, <2>1 DEF TypeOK, Commit, Abort, Undo, Count, Select, Fill, FillFails
  <2> QED  BY <2>2, <2>3, <2>4, <2>5, <2>6, <2>7, <2>8 DEF Step, Proceed
<1>3. ASSUME NEW w \in Req, NEW q \in Queries, Exposed(w)', call'[w].op # "drop",
             w \notin unpurged', NEW k, k = <<call'[w].user, q>>
      PROVE  cache'[k] = NoEntry \/ k \in excused'
               \/ (pc'[w] = "del" /\ OwnPurge(w)' /\ k \in scan'[w])
  <2>1. w \notin unpurged  BY <1>3, GhostsGrow
  <2>2. call'[w] = call[w]
    BY <1>0, <1>3, StepFrame, ExposureStep
  <2>3. k = <<call[w].user, q>> /\ k \in Key /\ k[1] = call[w].user
    <3>1. pc'[w] # "idle"  BY <1>3 DEF Exposed
    <3>2. call'[w] \in Call  BY <3>1, PlaceStep DEF PlaceInv, PlaceOK
    <3>3. call'[w].user \in User  BY <3>2, CallFields
    <3> QED  BY <1>3, <2>2, <3>3 DEF Key
  <2>4. Exposed(w) => Gone(w, k)
    BY <1>0, <1>3, <2>1, <2>2, <2>3 DEF PurgedInv, Gone
  <2>5. CASE w = r
    BY <1>2, <1>3, <2>2, <2>3, <2>4, <2>5
  <2>6. CASE w # r
    BY <1>0, <1>1, <1>3, <2>3, <2>4, <2>6, ExposedFrame
  <2> QED  BY <2>5, <2>6
<1> QED  BY <1>3 DEF PurgedInv

LEMMA StaleStep ==
    ASSUME Ind, CacheInv, NEW r \in Req, Step(r)
    PROVE  StaleOnlyIfExcused'
<1>0. TypeOK /\ UnracedInv /\ PurgedInv /\ StaleOnlyIfExcused
  BY DEF Ind, CacheInv
<1>1. ASSUME NEW k \in Key, cache'[k] # NoEntry, k \notin excused'
      PROVE  cache'[k] = Listing(k[1], k[2])'
  <2>1. CASE Fill(r) /\ k = KeyOf(r) /\ cache'[k] = page[r]
    <3>1. r \notin raced /\ pc[r] = "fill"  BY <1>1, <2>1 DEF Fill
    <3>2. /\ page[r].total = Cardinality(Matching(call[r].user, call[r].query))
          /\ page[r].items = Items(call[r].user, call[r].query)
      BY <1>0, <3>1 DEF UnracedInv
    <3>3. page[r] = [total |-> page[r].total, items |-> page[r].items]
      BY <1>0 DEF TypeOK, Entry
    <3>4. k[1] = call[r].user /\ k[2] = call[r].query  BY <2>1 DEF KeyOf
    <3>5. page[r] = Listing(k[1], k[2])  BY <3>2, <3>3, <3>4 DEF Listing
    <3>6. UNCHANGED <<projects, tasks>>  BY <2>1 DEF Fill, table
    <3>7. Listing(k[1], k[2])' = Listing(k[1], k[2])  BY <3>6, ListingSame
    <3> QED  BY <2>1, <3>5, <3>7
  <2>2. CASE cache'[k] = cache[k] /\ (k \in excused => k \in excused')
    <3>1. cache[k] = Listing(k[1], k[2])  BY <1>0, <1>1, <2>2 DEF StaleOnlyIfExcused
    <3>2. UNCHANGED <<projects, tasks>> \/ k[1] # call[r].user
      <4>1. CASE Commit(r) /\ k[1] = call[r].user
        <5>1. r \notin unpurged /\ call[r].op # "drop"
          BY <1>1, <4>1 DEF Commit
        <5>2. Exposed(r) /\ pc[r] = "commit"  BY <4>1 DEF Commit, Exposed
        <5>3. k = <<call[r].user, k[2]>> /\ k[2] \in Queries  BY <4>1 DEF Key
        <5>4. cache[k] = NoEntry \/ k \in excused
          BY <1>0, <5>1, <5>2, <5>3 DEF PurgedInv
        <5> QED  BY <1>1, <2>2, <5>4
      <4> QED  BY <4>1, TableSame
    <3>3. Listing(k[1], k[2])' = Listing(k[1], k[2])  BY <3>2, ListingSame
    <3> QED  BY <2>2, <3>1, <3>3
  <2> QED  BY <1>1, <2>1, <2>2, CacheStep
<1> QED  BY <1>1 DEF StaleOnlyIfExcused

(* A cached listing is what list_tasks would return now, unless a GET has  *)
(* raced a writer of its user, a purge has failed or a project was deleted.*)
THEOREM CacheIsExactUnlessExcused == Spec => []StaleOnlyIfExcused
<1>1. Init => CacheInv
  BY DEF Init, CacheInv, UnracedInv, PurgedInv, Exposed, StaleOnlyIfExcused
<1>2. Ind /\ CacheInv /\ [Next]_vars => CacheInv'
  <2> SUFFICES ASSUME Ind, CacheInv, [Next]_vars PROVE CacheInv'
    OBVIOUS
  <2>1. ASSUME NEW r \in Req, Step(r)  PROVE CacheInv'
    BY <2>1, UnracedStep, PurgedStep, StaleStep DEF CacheInv
  <2>2. ASSUME NEW k \in Key, Expire(k)  PROVE CacheInv'
    <3>1. /\ UNCHANGED <<projects, tasks, pc, call, purge, scan, page, raced, unpurged>>
          /\ \A l \in Key : cache'[l] # NoEntry =>
                cache'[l] = cache[l] /\ (l \in excused => l \in excused')
      BY <2>2 DEF Expire, table, writer, Ind, TypeOK
    <3>2. UnracedInv'
      BY <3>1 DEF CacheInv, UnracedInv, Exposed, OwnPurge, Target, Matching, Matches,
                  Owned, Items
    <3>3. PurgedInv'
      <4> SUFFICES ASSUME NEW w \in Req, NEW q \in Queries, Exposed(w),
                          call[w].op # "drop", w \notin unpurged
                   PROVE  Gone(w, <<call[w].user, q>>)'
        BY <3>1 DEF PurgedInv, Exposed, OwnPurge, Target, Gone
      <4>1. Gone(w, <<call[w].user, q>>)  BY DEF CacheInv, PurgedInv, Gone
      <4>2. <<call[w].user, q>> \in Key
        <5>1. call[w] \in Call  BY DEF Ind, PlaceInv, PlaceOK, Exposed
        <5> QED  BY <5>1, CallFields DEF Key
      <4> QED  BY <3>1, <4>1, <4>2 DEF Gone, OwnPurge, Target
    <3>4. StaleOnlyIfExcused'
      BY <3>1 DEF CacheInv, StaleOnlyIfExcused, Listing, Matching, Matches, Owned, Items
    <3> QED  BY <3>2, <3>3, <3>4 DEF CacheInv
  <2>3. CASE UNCHANGED vars
    BY <2>3 DEF vars, table, writer, history, CacheInv, UnracedInv, PurgedInv,
                StaleOnlyIfExcused, Exposed, OwnPurge, Target, Listing, Matching,
                Matches, Owned, Items
  <2> QED  BY <2>1, <2>2, <2>3, NextCases
<1>3. CacheInv => StaleOnlyIfExcused  BY DEF CacheInv
<1> QED  BY <1>1, <1>2, <1>3, IndInvariant, PTL DEF Spec

=============================================================================
