-------------------------- MODULE ApiProcess_proofs --------------------------
(***************************************************************************)
(* What ApiProcess guarantees for any number of requests and connections.  *)
(* The invariant says of each request what it may have failed and seen,    *)
(* and of each copy of the listing which writes in flight will not reach   *)
(* it.                                                                     *)
(***************************************************************************)
EXTENDS ApiProcess, TLAPS, FiniteSetTheorems

Flying(q) == q.pc \notin {"idle", "done"}

(* What is true of a request while Redis is rd: its place fits its kind,   *)
(* it remembers what has failed, and it has seen something old only beside *)
(* a writer.                                                               *)
ReqOf(q, rd) ==
    /\ q.pc \in {"get", "read", "set"} => q.kind = "list"
    /\ q.pc \in {"scan", "delete", "delay"} => q.kind \in Purgers
    /\ q.pc = "write" => q.kind \in Writers
    /\ q.pc = "ping" => q.kind # "drop"
    /\ q.pc \in {"select", "probe"} => q.kind = "health"
    /\ q.pc = "auth" => q.kind # "health"
    /\ q.client = "fake" => "redis" \in q.trouble
    /\ q.status = 503 => q.kind = "health" /\ q.trouble # {}
    /\ Flying(q) =>
          /\ q.status # 500
          /\ "db" \in q.trouble => q.status = 503
          /\ rd # "up" => "redis" \in q.trouble
          /\ rd # "down" /\ q.client = "fake" /\ q.kind = "list" => q.raced
    /\ q.pc = "done" =>
          /\ q.status = 200 => "db" \notin q.trouble
          /\ q.status = 500 =>
                "db" \in q.trouble \/ (~installed /\ "redis" \in q.trouble)
    /\ q.seen # None => Flying(q) /\ q.kind = "list"
    /\ q.seen = "old" => q.raced

ReqInv == \A r \in Req : ReqOf(req[r], redis)

(* A listing beside a writer is marked.                                    *)
RacedInv ==
    \A l, w \in InFlight : req[l].kind = "list" /\ req[w].kind \in Writers => req[l].raced

(* Who has a connection to Redis waits for the answer to a command.        *)
HeldInv == \A r \in held : req[r].pc \in Commands /\ req[r].client = "redis"

(* A copy that a write may make old.                                       *)
Covered(c, copies, ex) == copies[c] = "current" => ex[c]

(* Who purges does so with the copies that are not covered: the one in the *)
(* store that it does not use is covered, and the other once it has tried. *)
CoverOf(q, copies, ex) ==
    Flying(q) /\ q.kind \in Purgers =>
        /\ q.client = "fake" => Covered("redis", copies, ex)
        /\ q.client = "redis" /\ q.pc \notin {"auth", "ping"} => Covered("fake", copies, ex)
        /\ q.pc \in {"delay", "commit"} => Covered(q.client, copies, ex)

CoverInv == \A r \in Req : CoverOf(req[r], store, excused)

(* The fallback is filled without a race only while Redis is down.         *)
ExcuseInv ==
    /\ StaleNeedsCause
    /\ redis # "down" => Covered("fake", store, excused)
    /\ redis # "up" => excused["redis"]

Ind ==
    /\ TypeOK /\ NothingLeaks /\ GaugeIsExact
    /\ ReqInv /\ RacedInv /\ HeldInv /\ CoverInv /\ ExcuseInv

-----------------------------------------------------------------------------
LEMMA Fields ==
    ASSUME NEW q \in Request
    PROVE  /\ q.kind \in Kind /\ q.pc \in Places /\ q.client \in Stores
           /\ q.seen \in Copy /\ q.status \in {200, 500, 503}
           /\ q.rows \in SUBSET Row /\ q.locks \in SUBSET Row
           /\ q.trouble \in SUBSET {"db", "redis"} /\ q.raced \in BOOLEAN
  BY DEF Request

LEMMA Kindred ==
    ASSUME NEW k \in Kind
    PROVE  /\ k \in Purgers <=> k \in {"create", "change"}
           /\ k \in Writers <=> k \in {"create", "change", "drop"}
           /\ k \in {"list", "health"} <=> k \notin Writers
  BY DEF Kind, Purgers, Writers

LEMMA Updates ==
    ASSUME NEW q \in Request
    PROVE  /\ \A x \in Places : [q EXCEPT !.pc = x] \in Request
           /\ \A x \in {200, 500, 503} : [q EXCEPT !.status = x] \in Request
           /\ \A x \in Copy : [q EXCEPT !.seen = x] \in Request
           /\ \A x \in Stores : [q EXCEPT !.client = x] \in Request
           /\ \A x \in SUBSET {"db", "redis"} : [q EXCEPT !.trouble = x] \in Request
           /\ \A x \in BOOLEAN : [q EXCEPT !.raced = x] \in Request
           /\ \A x \in SUBSET Row : [q EXCEPT !.rows = x] \in Request
           /\ \A x \in SUBSET Row : [q EXCEPT !.locks = x] \in Request
  BY DEF Request

(* A request goes on, or its handler returns.                              *)
LEMMA Going ==
    ASSUME NEW q \in Request, NEW place \in Places
    PROVE  LET p == Goto(q, place) IN
           /\ p \in Request /\ p.pc = place /\ p.kind = q.kind /\ p.client = q.client
           /\ p.seen = q.seen /\ p.status = q.status /\ p.trouble = q.trouble
           /\ p.raced = q.raced
  BY DEF Goto, Request

LEMMA Returning ==
    ASSUME NEW q \in Request, NEW s \in {200, 500, 503}
    PROVE  LET p == Return(q, s) IN
           /\ p \in Request /\ p.pc = "commit" /\ p.kind = q.kind
           /\ p.client = q.client /\ p.seen = q.seen /\ p.status = s
           /\ p.trouble = q.trouble /\ p.raced = q.raced
  <1>1. /\ \A x \in Places : [q EXCEPT !.pc = x] \in Request
        /\ "commit" \in Places
    BY DEF Request, Places
  <1>2. \A x \in Request : [x EXCEPT !.status = s] \in Request
    BY DEF Request
  <1>3. PICK x \in Request : x = [q EXCEPT !.pc = "commit"]
    BY <1>1
  <1>4. PICK y \in Request : y = [x EXCEPT !.status = s]
    BY <1>2
  <1>5. Return(q, s) = y
    BY <1>3, <1>4 DEF Return
  <1> QED
    BY <1>3, <1>4, <1>5 DEF Request

LEMMA Answering ==
    ASSUME NEW q \in Request, NEW s \in {200, 500, 503}
    PROVE  LET p == Answer(q, s) IN
           /\ p \in Request /\ p.pc = "done" /\ p.kind = q.kind
           /\ p.client = q.client /\ p.seen = None /\ p.status = s
           /\ p.trouble = q.trouble /\ ~p.raced
  <1>1. \A x \in Places : [q EXCEPT !.pc = x] \in Request
    BY DEF Request
  <1>2. \A x \in Request : [x EXCEPT !.status = s] \in Request
    BY DEF Request
  <1>3. \A x \in Request : \A v \in Copy : [x EXCEPT !.seen = v] \in Request
    BY DEF Request
  <1>4. \A x \in Request : \A v \in BOOLEAN : [x EXCEPT !.raced = v] \in Request
    BY DEF Request
  <1>5. "done" \in Places /\ None \in Copy
    BY DEF Places, Copy
  <1>6. PICK x \in Request : x = [q EXCEPT !.pc = "done"]
    BY <1>1, <1>5
  <1>7. PICK y \in Request : y = [x EXCEPT !.status = s]
    BY <1>2
  <1>8. PICK z \in Request : z = [y EXCEPT !.seen = None]
    BY <1>3, <1>5
  <1>9. PICK w \in Request : w = [z EXCEPT !.raced = FALSE]
    BY <1>4
  <1>9a. \A v \in Request : \A rows \in SUBSET Row :
            [v EXCEPT !.rows = rows] \in Request /\ [v EXCEPT !.locks = rows] \in Request
    BY DEF Request
  <1>9b. PICK u \in Request : u = [w EXCEPT !.rows = {}]
    BY <1>9a
  <1>9c. PICK t \in Request : t = [u EXCEPT !.locks = {}]
    BY <1>9a
  <1>10. Answer(q, s) = t
    BY <1>6, <1>7, <1>8, <1>9, <1>9b, <1>9c DEF Answer
  <1>11. /\ x.pc = "done" /\ x.kind = q.kind /\ x.client = q.client
         /\ x.trouble = q.trouble
    BY <1>6 DEF Request
  <1>12. /\ y.pc = "done" /\ y.kind = q.kind /\ y.client = q.client
         /\ y.trouble = q.trouble /\ y.status = s
    BY <1>7, <1>11 DEF Request
  <1>13. /\ z.pc = "done" /\ z.kind = q.kind /\ z.client = q.client
         /\ z.trouble = q.trouble /\ z.status = s /\ z.seen = None
    BY <1>8, <1>12 DEF Request
  <1>14. /\ w.pc = "done" /\ w.kind = q.kind /\ w.client = q.client
         /\ w.trouble = q.trouble /\ w.status = s /\ w.seen = None /\ ~w.raced
    BY <1>9, <1>13 DEF Request
  <1>15. /\ u.pc = "done" /\ u.kind = q.kind /\ u.client = q.client
         /\ u.trouble = q.trouble /\ u.status = s /\ u.seen = None /\ ~u.raced
    BY <1>9b, <1>14 DEF Request
  <1>16. /\ t.pc = "done" /\ t.kind = q.kind /\ t.client = q.client
         /\ t.trouble = q.trouble /\ t.status = s /\ t.seen = None /\ ~t.raced
    BY <1>9c, <1>15 DEF Request
  <1> QED
    BY <1>10, <1>16

(* The requests in flight and everything that is a part of them.           *)
LEMMA Finite ==
    ASSUME Ind
    PROVE  /\ InFlight \subseteq Req /\ IsFiniteSet(InFlight)
           /\ Cardinality(InFlight) \in Nat
           /\ IsFiniteSet(busy) /\ Cardinality(busy) \in Nat
           /\ IsFiniteSet(held) /\ Cardinality(held) \in Nat
  <1>1. InFlight \subseteq Req
    BY DEF InFlight
  <1>2. busy \subseteq Req /\ held \subseteq Req
    BY DEF Ind, TypeOK
  <1>3. IsFiniteSet(InFlight) /\ IsFiniteSet(busy) /\ IsFiniteSet(held)
    BY <1>1, <1>2, FS_Subset, ApiProcessAssumption
  <1> QED
    BY <1>1, <1>3, FS_CardinalityType

(* A request stays in flight, or it is answered and no longer counts.      *)
LEMMA Counting ==
    ASSUME Ind, NEW r \in InFlight, UNCHANGED others, held' \in SUBSET (held \ {r}),
           \/ InFlight' = InFlight \ {r} /\ gauge' = gauge - 1 /\ busy' = busy \ {r}
           \/ InFlight' = InFlight /\ gauge' = gauge /\ busy' = busy
    PROVE  /\ gauge' \in Nat /\ busy' \in SUBSET Req /\ held' \in SUBSET Req
           /\ NothingLeaks' /\ GaugeIsExact'
  <1>1. /\ held \cup busy \subseteq InFlight
        /\ Cardinality(held) <= PoolSize /\ Cardinality(busy) + others <= DbConnections
        /\ gauge = Cardinality(InFlight) /\ others \in Nat
        /\ PoolSize \in Nat /\ DbConnections \in Nat
    BY ApiProcessAssumption DEF Ind, NothingLeaks, GaugeIsExact, TypeOK
  <1>2. Cardinality(held') \in Nat /\ Cardinality(held') <= PoolSize
    BY <1>1, Finite, FS_Subset, FS_CardinalityType
  <1>3. /\ busy' \subseteq busy /\ Cardinality(busy') \in Nat
        /\ Cardinality(busy') <= Cardinality(busy)
    BY Finite, FS_Subset, FS_CardinalityType
  <1>4. gauge' = Cardinality(InFlight') /\ gauge' \in Nat
    <2>1. CASE InFlight' = InFlight \ {r} /\ gauge' = gauge - 1
      <3>1. Cardinality(InFlight \ {r}) = Cardinality(InFlight) - 1
        BY Finite, FS_RemoveElement
      <3>2. Cardinality(InFlight \ {r}) \in Nat
        BY Finite, FS_RemoveElement, FS_CardinalityType
      <3> QED
        BY <2>1, <1>1, <3>1, <3>2
    <2>2. CASE InFlight' = InFlight /\ gauge' = gauge
      BY <2>2, <1>1, Finite
    <2> QED
      BY <2>1, <2>2
  <1>5. held' \cup busy' \subseteq InFlight'
    BY <1>1
  <1>6. NothingLeaks'
    BY <1>1, <1>2, <1>3, <1>5, Finite DEF NothingLeaks
  <1>7. busy' \in SUBSET Req /\ held' \in SUBSET Req
    BY <1>3 DEF Ind, TypeOK
  <1> QED
    BY <1>4, <1>6, <1>7 DEF GaugeIsExact

(* A request makes a step.                                                 *)
LEMMA Becoming ==
    ASSUME Ind, NEW r \in InFlight, NEW q \in Request, Becomes(r, q),
           q.pc # "idle", UNCHANGED others, held' \in SUBSET (held \ {r})
    PROVE  /\ req' \in [Req -> Request] /\ req'[r] = q
           /\ \A p \in Req \ {r} : req'[p] = req[p]
           /\ InFlight' \subseteq InFlight
           /\ r \in InFlight' => Flying(q)
           /\ gauge' \in Nat /\ busy' \in SUBSET Req /\ held' \in SUBSET Req
           /\ NothingLeaks' /\ GaugeIsExact'
  <1>1. /\ req' = [req EXCEPT ![r] = q]
        /\ q.pc = "done" => gauge' = gauge - 1 /\ busy' = busy \ {r}
        /\ q.pc # "done" => gauge' = gauge /\ busy' = busy
    BY DEF Becomes
  <1>2. r \in Req /\ req \in [Req -> Request]
    BY DEF InFlight, Ind, TypeOK
  <1>3. /\ req' \in [Req -> Request] /\ req'[r] = q
        /\ \A p \in Req \ {r} : req'[p] = req[p]
    BY <1>1, <1>2
  <1>4. InFlight' = IF q.pc = "done" THEN InFlight \ {r} ELSE InFlight
    <2>1. InFlight' = {p \in Req : req'[p].pc \notin {"idle", "done"}}
      BY DEF InFlight
    <2> QED
      BY <2>1, <1>2, <1>3 DEF InFlight
  <1>5. r \in InFlight' => Flying(q)
    BY <1>2, <1>3 DEF InFlight, Flying
  <1>6. \/ InFlight' = InFlight \ {r} /\ gauge' = gauge - 1 /\ busy' = busy \ {r}
        \/ InFlight' = InFlight /\ gauge' = gauge /\ busy' = busy
    BY <1>1, <1>4
  <1>7. /\ gauge' \in Nat /\ busy' \in SUBSET Req /\ held' \in SUBSET Req
        /\ NothingLeaks' /\ GaugeIsExact'
    BY <1>6, Counting
  <1> QED
    BY <1>3, <1>4, <1>5, <1>7

(* The step keeps the invariant if the request itself and the copies do.   *)
LEMMA Moves ==
    ASSUME Ind, NEW r \in InFlight, NEW q \in Request, Becomes(r, q),
           q.pc # "idle", UNCHANGED others, held' \in SUBSET (held \ {r}),
           q.kind = req[r].kind, Flying(q) /\ req[r].raced => q.raced,
           ReqOf(q, redis), UNCHANGED <<redis, installed>>,
           store' \in [Stores -> Copy], excused' \in [Stores -> BOOLEAN],
           ExcuseInv', CoverOf(q, store', excused'),
           \A w \in InFlight \ {r} : CoverOf(req[w], store', excused')
    PROVE  Ind'
  <1>1. /\ req' \in [Req -> Request] /\ req'[r] = q
        /\ \A p \in Req \ {r} : req'[p] = req[p]
        /\ InFlight' \subseteq InFlight
        /\ r \in InFlight' => Flying(q)
        /\ gauge' \in Nat /\ busy' \in SUBSET Req /\ held' \in SUBSET Req
        /\ NothingLeaks' /\ GaugeIsExact'
    BY Becoming
  <1>2. TypeOK'
    BY <1>1 DEF Ind, TypeOK
  <1>3. ReqInv'
    <2>1. \A p \in Req : ReqOf(req'[p], redis')
      BY <1>1 DEF Ind, ReqInv
    <2>2. \A p \in Req : ReqOf(req'[p], redis')
                          <=> ReqOf(req[p], redis)'
      BY DEF ReqOf, Flying
    <2> QED
      BY <2>1, <2>2 DEF ReqInv
  <1>4. RacedInv'
    <2> SUFFICES ASSUME NEW l \in InFlight', NEW w \in InFlight',
                        req'[l].kind = "list", req'[w].kind \in Writers
                 PROVE  req'[l].raced
      BY DEF RacedInv
    <2>1. /\ l \in InFlight /\ w \in InFlight /\ l \in Req /\ w \in Req
          /\ req[l].kind = "list" /\ req[w].kind \in Writers
      BY <1>1 DEF InFlight
    <2>2. req[l].raced
      BY <2>1 DEF Ind, RacedInv
    <2> QED
      BY <2>1, <2>2, <1>1
  <1>5. HeldInv'
    BY <1>1 DEF Ind, HeldInv, TypeOK
  <1>6. CoverInv'
    <2>1. \A p \in Req : CoverOf(req'[p], store', excused')
      BY <1>1 DEF CoverOf, InFlight, Flying
    <2> QED
      BY <2>1 DEF CoverInv, CoverOf, Covered, Flying
  <1> QED
    BY <1>1, <1>2, <1>3, <1>4, <1>5, <1>6 DEF Ind

(* The copies and what excuses them are left alone.                        *)
LEMMA Quiet ==
    ASSUME Ind, NEW r \in InFlight, NEW q \in Request, Becomes(r, q),
           q.pc # "idle", UNCHANGED others, held' \in SUBSET (held \ {r}),
           q.kind = req[r].kind, Flying(q) /\ req[r].raced => q.raced,
           ReqOf(q, redis), UNCHANGED <<redis, installed, store, excused>>,
           CoverOf(q, store, excused)
    PROVE  Ind'
  <1>1. /\ store' \in [Stores -> Copy] /\ excused' \in [Stores -> BOOLEAN]
        /\ store' = store /\ excused' = excused
    BY DEF Ind, TypeOK
  <1>2. ExcuseInv'
    BY <1>1 DEF Ind, ExcuseInv, StaleNeedsCause, Covered
  <1>3. CoverOf(q, store', excused')
    BY <1>1
  <1>4. \A w \in InFlight \ {r} : CoverOf(req[w], store', excused')
    BY <1>1 DEF Ind, CoverInv, InFlight
  <1> QED
    BY <1>1, <1>2, <1>3, <1>4, Moves

(* More is excused than was.                                               *)
LEMMA Excusing ==
    ASSUME Ind, NEW r \in InFlight, NEW q \in Request, Becomes(r, q),
           q.pc # "idle", UNCHANGED others, held' \in SUBSET (held \ {r}),
           q.kind = req[r].kind, Flying(q) /\ req[r].raced => q.raced,
           ReqOf(q, redis), UNCHANGED <<redis, installed, store>>,
           excused' \in [Stores -> BOOLEAN],
           \A c \in Stores : excused[c] => excused'[c],
           CoverOf(q, store, excused')
    PROVE  Ind'
  <1>1. store' \in [Stores -> Copy] /\ store' = store
    BY DEF Ind, TypeOK
  <1>2. ExcuseInv'
    BY <1>1 DEF Ind, ExcuseInv, StaleNeedsCause, Covered, Stores
  <1>3. \A w \in InFlight \ {r} : CoverOf(req[w], store', excused')
    <2> TAKE w \in InFlight \ {r}
    <2>1. CoverOf(req[w], store, excused) /\ req[w].client \in Stores
      BY Fields DEF Ind, TypeOK, CoverInv, InFlight
    <2> QED
      BY <1>1, <2>1 DEF CoverOf, Covered, Stores
  <1> QED
    BY <1>1, <1>2, <1>3, Moves

(* What Ind says of one request in flight.                                 *)
LEMMA OfOne ==
    ASSUME Ind, NEW r \in InFlight
    PROVE  /\ r \in Req /\ req[r] \in Request /\ Flying(req[r])
           /\ ReqOf(req[r], redis) /\ CoverOf(req[r], store, excused)
  BY DEF Ind, TypeOK, InFlight, Flying, ReqInv, CoverInv

(* A command is executed.                                                  *)
LEMMA Executes ==
    ASSUME Ind, NEW r \in InFlight, Execute(r, req[r]),
           UNCHANGED <<redis, installed, others>>, held' \in SUBSET (held \ {r}),
           req[r].client = "redis" => redis = "up"
    PROVE  Ind'
  <1> PICK q : q = req[r]
    OBVIOUS
  <1>1. /\ r \in Req /\ q \in Request /\ Flying(q)
        /\ ReqOf(q, redis) /\ CoverOf(q, store, excused)
    BY OfOne
  <1>2. /\ q.kind \in Kind /\ q.client \in Stores /\ q.seen \in Copy
        /\ q.status \in {200, 500, 503} /\ q.raced \in BOOLEAN
    BY <1>1, Fields
  <1>3. /\ redis # "down" => Covered("fake", store, excused)
        /\ \A c \in Stores : store[c] = "old" => excused[c]
        /\ redis # "up" => excused["redis"]
        /\ store \in [Stores -> Copy] /\ excused \in [Stores -> BOOLEAN]
    BY DEF Ind, ExcuseInv, StaleNeedsCause, TypeOK
  <1>4. None # "current" /\ None # "old"
    BY ApiProcessAssumption
  <1>5. Execute(r, q)
    OBVIOUS
  <1>6. CASE q.pc = "ping"
    <2> PICK p : p = Goto(q, Handler(q.kind))
      OBVIOUS
    <2>1. Becomes(r, p) /\ UNCHANGED <<store, excused>>
      BY <1>5, <1>6 DEF Execute
    <2>2. /\ Handler(q.kind) \in Places /\ Handler(q.kind) \in {"get", "write", "select"}
          /\ Handler(q.kind) = "get" => q.kind = "list"
          /\ Handler(q.kind) = "write" => q.kind \in Writers
          /\ Handler(q.kind) = "select" => q.kind = "health"
      BY <1>1, <1>2, <1>6 DEF Handler, Kind, Places, Commands, Purgers, Writers, ReqOf
    <2>3. /\ p \in Request /\ p.pc = Handler(q.kind) /\ p.kind = q.kind
          /\ p.client = q.client /\ p.seen = q.seen /\ p.status = q.status
          /\ p.trouble = q.trouble /\ p.raced = q.raced
      BY <1>1, <2>2, Going
    <2>4. ReqOf(p, redis)
      BY <1>1, <1>2, <1>6, <2>2, <2>3 DEF ReqOf, Flying
    <2>5. CoverOf(p, store, excused)
      BY <1>1, <1>2, <1>3, <2>2, <2>3 DEF CoverOf, Flying, Stores
    <2> QED
      BY <2>1, <2>2, <2>3, <2>4, <2>5, Quiet
  <1>7. CASE q.pc \in {"get", "scan"} /\ UNCHANGED <<store, excused>>
             /\ \E place \in {"read", "delete"} :
                    /\ place = "read" <=> q.pc = "get"
                    /\ Becomes(r, Goto(q, place))
    <2> PICK place \in {"read", "delete"} :
          (place = "read" <=> q.pc = "get") /\ Becomes(r, Goto(q, place))
      BY <1>7
    <2> PICK p : p = Goto(q, place)
      OBVIOUS
    <2>1. place \in Places
      BY DEF Places, Commands
    <2>2. /\ p \in Request /\ p.pc = place /\ p.kind = q.kind
          /\ p.client = q.client /\ p.seen = q.seen /\ p.status = q.status
          /\ p.trouble = q.trouble /\ p.raced = q.raced
      BY <1>1, <2>1, Going
    <2>3. ReqOf(p, redis)
      BY <1>1, <1>2, <1>7, <2>2 DEF ReqOf, Flying
    <2>4. CoverOf(p, store, excused)
      BY <1>1, <1>2, <1>7, <2>2 DEF CoverOf, Flying
    <2> QED
      BY <1>7, <2>2, <2>3, <2>4, Quiet
  <1> DEFINE Effect ==
        \/ q.pc \in {"get", "probe"} /\ UNCHANGED <<store, excused>>
        \/ /\ q.pc = "set"
           /\ store' = [store EXCEPT ![q.client] = q.seen]
           /\ excused' = [excused EXCEPT ![q.client] = q.raced]
  <1>8. CASE /\ Effect
             /\ \E s \in {200, q.status} :
                    /\ s = IF q.pc = "probe" THEN q.status ELSE 200
                    /\ Becomes(r, Return(q, s))
    <2> PICK s \in {200, q.status} :
          /\ s = IF q.pc = "probe" THEN q.status ELSE 200
          /\ Becomes(r, Return(q, s))
      BY <1>8
    <2>0. Effect
      BY <1>8
    <2> PICK p : p = Return(q, s)
      OBVIOUS
    <2>1. s \in {200, 500, 503}
      BY <1>2
    <2>2. /\ p \in Request /\ p.pc = "commit" /\ p.kind = q.kind
          /\ p.client = q.client /\ p.seen = q.seen /\ p.status = s
          /\ p.trouble = q.trouble /\ p.raced = q.raced
      BY <1>1, <2>1, Returning
    <2>3. ReqOf(p, redis)
      BY <1>1, <1>2, <1>8, <2>1, <2>2 DEF ReqOf, Flying
    <2>4. q.kind \notin Purgers
      BY <1>1, <1>8 DEF ReqOf, Purgers
    <2>5. CASE q.pc \in {"get", "probe"}
      <3>1. UNCHANGED <<store, excused>>
        BY <2>0, <2>5
      <3>2. CoverOf(p, store, excused)
        BY <2>2, <2>4 DEF CoverOf
      <3> QED
        BY <2>2, <2>3, <3>1, <3>2, Quiet
    <2>7. CASE q.pc = "set"
      <3>1. /\ store' = [store EXCEPT ![q.client] = q.seen]
            /\ excused' = [excused EXCEPT ![q.client] = q.raced]
        BY <2>0, <2>7
      <3>2. /\ store' \in [Stores -> Copy] /\ excused' \in [Stores -> BOOLEAN]
            /\ store'[q.client] = q.seen /\ excused'[q.client] = q.raced
            /\ \A c \in Stores \ {q.client} : store'[c] = store[c] /\ excused'[c] = excused[c]
        BY <1>2, <1>3, <3>1
      <3>3. /\ q.kind = "list" /\ (q.seen = "old" => q.raced)
            /\ redis # "down" /\ q.client = "fake" => q.raced
        BY <1>1, <2>7 DEF ReqOf
      <3>4. ExcuseInv'
        BY <1>2, <1>3, <3>2, <3>3 DEF ExcuseInv, StaleNeedsCause, Covered, Stores
      <3>5. \A w \in InFlight \ {r} : CoverOf(req[w], store', excused')
        <4> TAKE w \in InFlight \ {r}
        <4>1. CoverOf(req[w], store, excused) /\ req[w].client \in Stores
          BY OfOne, Fields
        <4>2. req[w].kind \in Purgers => q.raced
          BY <3>3 DEF Ind, RacedInv, Writers
        <4> QED
          BY <1>2, <3>2, <4>1, <4>2 DEF CoverOf, Covered, Stores
      <3>6. CoverOf(p, store', excused')
        BY <2>2, <2>4 DEF CoverOf
      <3> QED
        BY <2>2, <2>3, <3>2, <3>4, <3>5, <3>6, Moves
    <2> QED
      BY <2>0, <2>5, <2>7
  <1> DEFINE Purged ==
        /\ q.pc \in {"scan", "delete"} /\ UNCHANGED excused
        /\ \/ store[q.client] = None /\ UNCHANGED store
           \/ store' = [store EXCEPT ![q.client] = None]
  <1>8a. CASE Purged /\ Announce(r, q)
    <2>0. Purged
      BY <1>8a
    <2> PICK place \in {"delay", "commit"} : Becomes(r, Goto(q, place))
      BY <1>8a DEF Announce
    <2> PICK p : p = Goto(q, place)
      OBVIOUS
    <2>1. place \in Places
      BY DEF Places
    <2>2. /\ p \in Request /\ p.pc = place /\ p.kind = q.kind
          /\ p.client = q.client /\ p.seen = q.seen /\ p.status = q.status
          /\ p.trouble = q.trouble /\ p.raced = q.raced
      BY <1>1, <2>1, Going
    <2>3. ReqOf(p, redis)
      BY <1>1, <2>0, <2>2 DEF ReqOf, Flying
    <2>4. /\ store' \in [Stores -> Copy] /\ excused' = excused
          /\ \A c \in Stores : store'[c] \in {store[c], None}
          /\ store'[q.client] = None
      BY <1>2, <1>3, <2>0 DEF Copy
    <2>5. ExcuseInv'
      BY <1>3, <1>4, <2>4 DEF ExcuseInv, StaleNeedsCause, Covered, Stores
    <2>6. \A x : CoverOf(x, store, excused) /\ x.client \in Stores
                     => CoverOf(x, store', excused')
      BY <1>4, <2>4 DEF CoverOf, Covered, Stores
    <2>7. CoverOf(p, store', excused')
      BY <1>1, <1>2, <1>4, <2>0, <2>2, <2>4 DEF CoverOf, Covered, Flying, Stores
    <2>8. \A w \in InFlight \ {r} : CoverOf(req[w], store', excused')
      BY <2>6, OfOne, Fields
    <2>9. excused' \in [Stores -> BOOLEAN]
      BY <1>3, <2>4
    <2> QED
      BY <2>2, <2>3, <2>4, <2>5, <2>7, <2>8, <2>9, Moves
  <1>9. ASSUME q.pc \in {"get", "scan", "set", "delete", "probe"}
        PROVE  \/ /\ q.pc \in {"get", "scan"} /\ UNCHANGED <<store, excused>>
                  /\ \E place \in {"read", "delete"} :
                        /\ place = "read" <=> q.pc = "get"
                        /\ Becomes(r, Goto(q, place))
               \/ /\ Effect
                  /\ \E s \in {200, q.status} :
                        /\ s = IF q.pc = "probe" THEN q.status ELSE 200
                        /\ Becomes(r, Return(q, s))
               \/ Purged /\ Announce(r, q)
    BY <1>5, <1>9 DEF Execute
  <1>10. q.pc \in {"ping", "get", "scan", "set", "delete", "probe"}
    BY <1>5 DEF Execute
  <1> HIDE DEF Effect, Purged
  <1> QED
    BY <1>6, <1>7, <1>8, <1>8a, <1>9, <1>10

(* A command raises: Full and Break differ in what q remembers.        *)
LEMMA Raising ==
    ASSUME Ind, NEW r \in InFlight, NEW q \in Request, Raises(r, q),
           req[r].client = "redis", q.kind = req[r].kind, q.pc = req[r].pc,
           q.client = req[r].client, q.seen = req[r].seen, q.status = req[r].status,
           q.trouble = req[r].trouble \cup {"redis"}, req[r].raced => q.raced,
           redis # "down" /\ q.kind = "list" => q.raced,
           UNCHANGED <<redis, installed, store, others>>, held' \in SUBSET (held \ {r}),
           excused' \in [Stores -> BOOLEAN],
           \A c \in Stores : excused[c] => excused'[c], excused'["redis"]
    PROVE  Ind'
  <1>1. /\ q.kind \in Kind /\ q.client \in Stores /\ q.seen \in Copy
        /\ q.status \in {200, 500, 503} /\ q.raced \in BOOLEAN
    BY Fields
  <1>2. Flying(q) /\ ReqOf(q, redis) /\ "redis" \in q.trouble
    BY OfOne DEF ReqOf, Flying
  <1>3. /\ Covered("redis", store, excused')
        /\ q.kind \in Purgers /\ q.pc \notin {"auth", "ping"} => Covered("fake", store, excused')
    BY OfOne, <1>2 DEF CoverOf, Covered, Stores
  <1> DEFINE Step(p) == /\ p \in Request /\ Becomes(r, p) /\ p.pc # "idle" /\ p.kind = q.kind
                        /\ Flying(p) /\ q.raced => p.raced
                        /\ ReqOf(p, redis) /\ CoverOf(p, store, excused')
  <1>4. ASSUME NEW p, Step(p)
        PROVE  Ind'
    BY <1>4, Excusing
  <1>5. CASE q.pc = "ping" /\ installed
             /\ Becomes(r, [Goto(q, Handler(q.kind)) EXCEPT !.client = "fake"])
    <2> PICK g : g = Goto(q, Handler(q.kind))
      OBVIOUS
    <2> PICK p : p = [g EXCEPT !.client = "fake"]
      OBVIOUS
    <2>1. /\ Handler(q.kind) \in Places /\ Handler(q.kind) \in {"get", "write", "select"}
          /\ Handler(q.kind) = "get" => q.kind = "list"
          /\ Handler(q.kind) = "write" => q.kind \in Writers
          /\ Handler(q.kind) = "select" => q.kind = "health"
      BY <1>1, <1>2, <1>5 DEF Handler, Kind, Places, Commands, Purgers, Writers, ReqOf
    <2>2. /\ g \in Request /\ g.pc = Handler(q.kind) /\ g.kind = q.kind
          /\ g.client = q.client /\ g.seen = q.seen /\ g.status = q.status
          /\ g.trouble = q.trouble /\ g.raced = q.raced
      BY <2>1, Going
    <2>3. "fake" \in Stores
      BY DEF Stores
    <2>3a. \A v \in Stores : [g EXCEPT !.client = v] \in Request
      BY <2>2 DEF Request
    <2>4. p \in Request
      BY <2>3, <2>3a
    <2>5. /\ p.pc = Handler(q.kind) /\ p.kind = q.kind
          /\ p.client = "fake" /\ p.seen = q.seen /\ p.status = q.status
          /\ p.trouble = q.trouble /\ p.raced = q.raced
      BY <2>2 DEF Request
    <2>6. ReqOf(p, redis)
      <3>1. /\ q.seen # None => q.kind = "list"
            /\ q.seen = "old" => q.raced
            /\ q.status = 503 => q.kind = "health"
            /\ q.status # 500 /\ ("db" \in q.trouble => q.status = 503)
            /\ "redis" \in q.trouble
        BY <1>2 DEF ReqOf
      <3> QED
        BY <3>1, <2>1, <2>5 DEF ReqOf, Flying
    <2>7. CoverOf(p, store, excused')
      BY <1>3, <2>1, <2>5 DEF CoverOf
    <2>8. Step(p)
      BY <1>5, <2>1, <2>4, <2>5, <2>6, <2>7
    <2> QED
      BY <1>4, <2>8
  <1>6. CASE q.pc = "ping" /\ ~installed /\ Becomes(r, Answer(q, 500))
    <2>0. PICK s \in {200, 500, 503} : s = 500
      OBVIOUS
    <2> PICK p : p = Answer(q, s)
      OBVIOUS
    <2>1. /\ p \in Request /\ p.pc = "done" /\ p.kind = q.kind
          /\ p.client = q.client /\ p.seen = None /\ p.status = s
          /\ p.trouble = q.trouble /\ ~p.raced
      BY Answering
    <2>2. ~installed /\ "redis" \in p.trouble /\ None # "old" /\ ~Flying(p)
      BY <1>2, <1>6, <2>1, ApiProcessAssumption DEF Flying
    <2>3. ReqOf(p, redis)
      BY <2>0, <2>1, <2>2 DEF ReqOf
    <2>4. CoverOf(p, store, excused')
      BY <2>2 DEF CoverOf
    <2>5. Step(p)
      BY <1>6, <2>0, <2>1, <2>2, <2>3, <2>4
    <2> QED
      BY <1>4, <2>5
  <1>7. CASE q.pc = "get" /\ Becomes(r, Goto(q, "read"))
    <2> PICK p : p = Goto(q, "read")
      OBVIOUS
    <2>1. "read" \in Places
      BY DEF Places
    <2>2. /\ p \in Request /\ p.pc = "read" /\ p.kind = q.kind
          /\ p.client = q.client /\ p.seen = q.seen /\ p.status = q.status
          /\ p.trouble = q.trouble /\ p.raced = q.raced
      BY <2>1, Going
    <2>3. ReqOf(p, redis) /\ CoverOf(p, store, excused')
      BY <1>2, <1>7, <2>2 DEF ReqOf, CoverOf, Flying, Purgers
    <2>4. Step(p)
      BY <1>7, <2>2, <2>3
    <2> QED
      BY <1>4, <2>4
  <1>8. CASE \E s \in {200, 503} : /\ s = IF q.pc = "probe" THEN 503 ELSE 200
                                   /\ q.pc \in {"set", "probe"}
                                   /\ Becomes(r, Return(q, s))
    <2> PICK s \in {200, 503} : /\ s = IF q.pc = "probe" THEN 503 ELSE 200
                                /\ q.pc \in {"set", "probe"}
                                /\ Becomes(r, Return(q, s))
      BY <1>8
    <2> PICK p : p = Return(q, s)
      OBVIOUS
    <2>1. s \in {200, 500, 503}
      OBVIOUS
    <2>2. /\ p \in Request /\ p.pc = "commit" /\ p.kind = q.kind
          /\ p.client = q.client /\ p.seen = q.seen /\ p.status = s
          /\ p.trouble = q.trouble /\ p.raced = q.raced
      BY <2>1, Returning
    <2>3. ReqOf(p, redis)
      BY <1>2, <2>2 DEF ReqOf, Flying
    <2>4. CoverOf(p, store, excused')
      BY <1>3, <2>2 DEF CoverOf
    <2>5. Step(p)
      BY <2>2, <2>3, <2>4
    <2> QED
      BY <1>4, <2>5
  <1>9. CASE q.pc \in {"scan", "delete"} /\ Announce(r, q)
    <2> PICK place \in {"delay", "commit"} : Becomes(r, Goto(q, place))
      BY <1>9 DEF Announce
    <2> PICK p : p = Goto(q, place)
      OBVIOUS
    <2>1. place \in Places
      BY DEF Places
    <2>2. /\ p \in Request /\ p.pc = place /\ p.kind = q.kind
          /\ p.client = q.client /\ p.seen = q.seen /\ p.status = q.status
          /\ p.trouble = q.trouble /\ p.raced = q.raced
      BY <2>1, Going
    <2>3. ReqOf(p, redis)
      BY <1>2, <1>9, <2>2 DEF ReqOf, Flying
    <2>4. CoverOf(p, store, excused')
      BY <1>1, <1>2, <1>3, <1>9, <2>2 DEF CoverOf, Stores
    <2>5. Step(p)
      BY <2>2, <2>3, <2>4
    <2> QED
      BY <1>4, <2>5
  <1> HIDE DEF Step
  <1> QED
    BY <1>5, <1>6, <1>7, <1>8, <1>9 DEF Raises

(* A request remembers that Redis was in trouble.                          *)
LEMMA Marking ==
    ASSUME NEW q \in Request
    PROVE  LET p == [q EXCEPT !.trouble = @ \cup {"redis"}, !.raced = (@ \/ q.kind = "list")] IN
           /\ p \in Request /\ p.pc = q.pc /\ p.kind = q.kind /\ p.client = q.client
           /\ p.seen = q.seen /\ p.status = q.status
           /\ p.trouble = q.trouble \cup {"redis"} /\ (p.raced <=> q.raced \/ q.kind = "list")
  <1>1. \A x \in SUBSET {"db", "redis"} : [q EXCEPT !.trouble = x] \in Request
    BY DEF Request
  <1>2. \A x \in Request : \A v \in BOOLEAN : [x EXCEPT !.raced = v] \in Request
    BY DEF Request
  <1>3. PICK x \in Request : x = [q EXCEPT !.trouble = q.trouble \cup {"redis"}]
    BY <1>1, Fields
  <1>4. PICK y \in Request : y = [x EXCEPT !.raced = (q.raced \/ q.kind = "list")]
    BY <1>2
  <1>5. [q EXCEPT !.trouble = @ \cup {"redis"}, !.raced = (@ \/ q.kind = "list")] = y
    BY <1>3, <1>4
  <1>6. /\ x.pc = q.pc /\ x.kind = q.kind /\ x.client = q.client /\ x.seen = q.seen
        /\ x.status = q.status /\ x.trouble = q.trouble \cup {"redis"}
    BY <1>3 DEF Request
  <1>7. /\ y.pc = q.pc /\ y.kind = q.kind /\ y.client = q.client /\ y.seen = q.seen
        /\ y.status = q.status /\ y.trouble = q.trouble \cup {"redis"}
        /\ (y.raced <=> q.raced \/ q.kind = "list")
    BY <1>4, <1>6 DEF Request
  <1> QED
    BY <1>5, <1>7

(* A request that is told of the database's failure.                       *)
LEMMA Troubling ==
    ASSUME NEW q \in Request
    PROVE  LET p == [q EXCEPT !.trouble = @ \cup {"db"}] IN
           /\ p \in Request /\ p.pc = q.pc /\ p.kind = q.kind /\ p.client = q.client
           /\ p.seen = q.seen /\ p.status = q.status
           /\ p.trouble = q.trouble \cup {"db"} /\ p.raced = q.raced
  <1>1. \A x \in SUBSET {"db", "redis"} : [q EXCEPT !.trouble = x] \in Request
    BY DEF Request
  <1>2. PICK x \in Request : x = [q EXCEPT !.trouble = q.trouble \cup {"db"}]
    BY <1>1, Fields
  <1>3. /\ x.pc = q.pc /\ x.kind = q.kind /\ x.client = q.client /\ x.seen = q.seen
        /\ x.status = q.status /\ x.trouble = q.trouble \cup {"db"} /\ x.raced = q.raced
    BY <1>2 DEF Request
  <1> QED
    BY <1>2, <1>3

LEMMA ReplyKeeps == ASSUME Ind, NEW r \in Req, Reply(r) PROVE Ind'
  <1>1. r \in InFlight
    BY DEF Reply, Ind, NothingLeaks
  <1>2. Execute(r, req[r]) /\ UNCHANGED <<redis, installed, others>> /\ redis = "up"
        /\ held' = held \ {r}
    BY DEF Reply
  <1> QED
    BY <1>1, <1>2, Executes

LEMMA LocalKeeps == ASSUME Ind, NEW r \in Req, Local(r) PROVE Ind'
  <1>1. /\ Execute(r, req[r]) /\ UNCHANGED <<redis, installed, others, held>>
        /\ req[r].client = "fake" /\ req[r].pc \in Commands
    BY DEF Local, At
  <1>2. r \in InFlight
    BY <1>1 DEF InFlight, Commands
  <1>3. held' \in SUBSET (held \ {r})
    BY <1>1 DEF Ind, HeldInv
  <1> QED
    BY <1>1, <1>2, <1>3, Executes

LEMMA BreakKeeps == ASSUME Ind, NEW r \in Req, Break(r) PROVE Ind'
  <1> PICK q : q = req[r]
    OBVIOUS
  <1>1. r \in InFlight /\ q.client = "redis"
    BY DEF Break, Ind, NothingLeaks, HeldInv
  <1>2. /\ Raises(r, q) /\ UNCHANGED <<redis, installed, store, others, excused>>
        /\ redis = "down" /\ held' = held \ {r}
    BY DEF Break
  <1>3. q \in Request /\ q.trouble = q.trouble \cup {"redis"}
    BY <1>1, <1>2, OfOne DEF ReqOf
  <1>4. /\ excused' \in [Stores -> BOOLEAN] /\ excused'["redis"]
        /\ \A c \in Stores : excused[c] => excused'[c]
    BY <1>2 DEF Ind, TypeOK, ExcuseInv
  <1> QED
    BY <1>1, <1>2, <1>3, <1>4, Raising

LEMMA FullKeeps == ASSUME Ind, NEW r \in Req, Full(r) PROVE Ind'
  <1> PICK q : q = [req[r] EXCEPT !.trouble = @ \cup {"redis"},
                                  !.raced = (@ \/ req[r].kind = "list")]
    OBVIOUS
  <1>1. /\ Raises(r, q) /\ UNCHANGED <<redis, installed, store, held, others>>
        /\ excused' = [c \in Stores |-> TRUE]
        /\ req[r].pc \in Commands /\ req[r].client = "redis" /\ r \notin held
    BY DEF Full, Asks, At
  <1>2. r \in InFlight /\ held' \in SUBSET (held \ {r})
    BY <1>1 DEF InFlight, Commands, Ind, TypeOK
  <1>3. req[r] \in Request
    BY <1>2, OfOne
  <1>4. /\ q \in Request /\ q.pc = req[r].pc /\ q.kind = req[r].kind
        /\ q.client = req[r].client /\ q.seen = req[r].seen /\ q.status = req[r].status
        /\ q.trouble = req[r].trouble \cup {"redis"}
        /\ (q.raced <=> req[r].raced \/ req[r].kind = "list")
    BY <1>3, Marking
  <1>5. /\ excused' \in [Stores -> BOOLEAN] /\ excused'["redis"]
        /\ \A c \in Stores : excused[c] => excused'[c]
    BY <1>1 DEF Stores
  <1> QED
    BY <1>1, <1>2, <1>4, <1>5, Raising

LEMMA DbFailsKeeps == ASSUME Ind, NEW r \in Req, DbFails(r) PROVE Ind'
  <1>0. PICK q : q = [req[r] EXCEPT !.trouble = @ \cup {"db"}]
    OBVIOUS
  <1>1. /\ UNCHANGED <<redis, installed, store, excused, held, others>>
        /\ \/ /\ req[r].pc = "select" /\ UNCHANGED <<gauge, busy>>
              /\ req' = [req EXCEPT ![r] = [q EXCEPT !.pc = "probe", !.status = 503]]
           \/ /\ req[r].pc \in {"auth", "read", "write", "commit"}
              /\ Becomes(r, Answer(q, 500))
    BY <1>0 DEF DbFails, At
  <1>2. r \in InFlight
    BY <1>1 DEF InFlight
  <1>3. /\ req[r] \in Request /\ ReqOf(req[r], redis) /\ Flying(req[r])
        /\ CoverOf(req[r], store, excused)
    BY <1>2, OfOne
  <1>4. /\ q \in Request /\ q.pc = req[r].pc /\ q.kind = req[r].kind
        /\ q.client = req[r].client /\ q.seen = req[r].seen /\ q.status = req[r].status
        /\ q.trouble = req[r].trouble \cup {"db"} /\ q.raced = req[r].raced
    BY <1>0, <1>3, Troubling
  <1>4a. q \in Request
    BY <1>4
  <1>5. r \notin held
    BY <1>1 DEF Ind, HeldInv, Commands
  <1>6. held' \in SUBSET (held \ {r})
    BY <1>1, <1>5 DEF Ind, TypeOK
  <1>6a. UNCHANGED <<redis, installed, store, excused, others>>
    BY <1>1
  <1>7. CASE req[r].pc = "select"
    <2>0. "probe" \in Places
      BY DEF Places, Commands
    <2>1. \A x \in Places : [q EXCEPT !.pc = x] \in Request
      BY <1>4a DEF Request
    <2>2. \A x \in Request : [x EXCEPT !.status = 503] \in Request
      BY DEF Request
    <2>3. PICK x \in Request : x = [q EXCEPT !.pc = "probe"]
      BY <2>0, <2>1
    <2>4. PICK p \in Request : p = [x EXCEPT !.status = 503]
      BY <2>2
    <2>5. p = [q EXCEPT !.pc = "probe", !.status = 503]
      BY <2>3, <2>4
    <2>6. /\ p.pc = "probe" /\ p.kind = q.kind /\ p.client = q.client /\ p.seen = q.seen
          /\ p.status = 503 /\ p.trouble = q.trouble /\ p.raced = q.raced
      BY <2>3, <2>4, <1>4 DEF Request
    <2>7. Becomes(r, p)
      BY <1>1, <1>7, <2>5, <2>6 DEF Becomes
    <2>8. p.kind = "health" /\ ReqOf(p, redis)
      BY <1>3, <1>4, <1>7, <2>6 DEF ReqOf, Flying
    <2>9. CoverOf(p, store, excused)
      BY <2>8 DEF CoverOf, Purgers
    <2>10. /\ p \in Request /\ p.pc # "idle" /\ p.kind = req[r].kind
           /\ req[r].raced => p.raced
      BY <1>4, <2>4, <2>6
    <2> QED
      BY <1>6a, <1>2, <1>6, <2>7, <2>8, <2>9, <2>10, Quiet
  <1>8. CASE Becomes(r, Answer(q, 500))
    <2>1. PICK s \in {200, 500, 503} : s = 500
      OBVIOUS
    <2> PICK p : p = Answer(q, s)
      OBVIOUS
    <2>2. /\ p \in Request /\ p.pc = "done" /\ p.kind = q.kind
          /\ p.client = q.client /\ p.seen = None /\ p.status = s
          /\ p.trouble = q.trouble /\ ~p.raced
      BY <1>4a, <2>1, Answering
    <2>3. Becomes(r, p) /\ ~Flying(p)
      BY <1>8, <2>1, <2>2 DEF Flying
    <2>3a. None # "old" /\ "db" \in p.trouble
      BY <1>4, <2>2, ApiProcessAssumption
    <2>4. ReqOf(p, redis)
      BY <1>3, <1>4, <2>1, <2>2, <2>3, <2>3a DEF ReqOf
    <2>5. CoverOf(p, store, excused)
      BY <2>3 DEF CoverOf
    <2> QED
      BY <1>6a, <1>2, <1>4, <1>6, <2>2, <2>3, <2>4, <2>5, Quiet
  <1> QED
    BY <1>1, <1>7, <1>8

LEMMA QueryKeeps == ASSUME Ind, NEW r \in Req, Query(r) PROVE Ind'
  <1> PICK q : q = req[r]
    OBVIOUS
  <1>1. /\ UNCHANGED <<redis, installed, store, excused, held, others>>
        /\ \/ q.pc = "read" /\ Becomes(r, [Goto(q, "set") EXCEPT !.seen = "current"])
           \/ /\ q.pc = "write"
              /\ \E t \in Row : Becomes(r, [q EXCEPT !.rows = @ \ {t}, !.locks = @ \cup {t}])
           \/ /\ q.pc = "write"
              /\ Becomes(r, Goto(q, IF q.kind = "drop" THEN "commit" ELSE "scan"))
    BY DEF Query, At, AtRow
  <1>2. r \in InFlight
    BY <1>1 DEF InFlight
  <1>3. q \in Request /\ ReqOf(q, redis) /\ Flying(q) /\ CoverOf(q, store, excused)
    BY <1>2, OfOne
  <1>4. held' \in SUBSET (held \ {r})
    BY <1>1 DEF Ind, TypeOK, HeldInv, Commands
  <1>5. "set" \in Places /\ "scan" \in Places /\ "commit" \in Places /\ "current" \in Copy
    BY DEF Places, Commands, Copy
  <1>6. CASE q.pc = "read" /\ Becomes(r, [Goto(q, "set") EXCEPT !.seen = "current"])
    <2> PICK g : g = Goto(q, "set")
      OBVIOUS
    <2>1. /\ g \in Request /\ g.pc = "set" /\ g.kind = q.kind /\ g.client = q.client
          /\ g.seen = q.seen /\ g.status = q.status /\ g.trouble = q.trouble
          /\ g.raced = q.raced
      BY <1>3, <1>5, Going
    <2>2. \A v \in Copy : [g EXCEPT !.seen = v] \in Request
      BY <2>1 DEF Request
    <2>3. PICK p \in Request : p = [g EXCEPT !.seen = "current"]
      BY <1>5, <2>2
    <2>4. /\ p.pc = "set" /\ p.kind = q.kind /\ p.client = q.client /\ p.seen = "current"
          /\ p.status = q.status /\ p.trouble = q.trouble /\ p.raced = q.raced
      BY <2>1, <2>3 DEF Request
    <2>5. q.kind = "list"
      BY <1>3, <1>6 DEF ReqOf
    <2>6. ReqOf(p, redis)
      BY <1>3, <1>6, <2>4, <2>5 DEF ReqOf, Flying
    <2>7. CoverOf(p, store, excused)
      BY <2>4, <2>5 DEF CoverOf, Purgers
    <2> QED
      BY <1>1, <1>2, <1>4, <1>6, <2>3, <2>4, <2>6, <2>7, Quiet
  <1>7. CASE /\ q.pc = "write"
             /\ Becomes(r, Goto(q, IF q.kind = "drop" THEN "commit" ELSE "scan"))
    <2> PICK place \in {"commit", "scan"} : place = IF q.kind = "drop" THEN "commit" ELSE "scan"
      OBVIOUS
    <2> PICK p : p = Goto(q, place)
      OBVIOUS
    <2>1. /\ p \in Request /\ p.pc = place /\ p.kind = q.kind /\ p.client = q.client
          /\ p.seen = q.seen /\ p.status = q.status /\ p.trouble = q.trouble
          /\ p.raced = q.raced
      BY <1>3, <1>5, Going
    <2>2. q.kind \in Writers /\ (place = "scan" <=> q.kind \in Purgers)
      BY <1>3, <1>7 DEF ReqOf, Writers, Purgers
    <2>3. ReqOf(p, redis) /\ CoverOf(p, store, excused)
      BY <1>3, <1>7, <2>1, <2>2 DEF ReqOf, CoverOf, Flying
    <2> QED
      BY <1>1, <1>2, <1>4, <1>7, <2>1, <2>3, Quiet
  <1>8. CASE /\ q.pc = "write"
             /\ \E t \in Row : Becomes(r, [q EXCEPT !.rows = @ \ {t}, !.locks = @ \cup {t}])
    <2> PICK t \in Row : Becomes(r, [q EXCEPT !.rows = @ \ {t}, !.locks = @ \cup {t}])
      BY <1>8
    <2>1. \A x \in Request : \A v \in SUBSET Row :
             [x EXCEPT !.rows = v] \in Request /\ [x EXCEPT !.locks = v] \in Request
      BY DEF Request
    <2>2. q.rows \ {t} \in SUBSET Row /\ q.locks \cup {t} \in SUBSET Row
      BY <1>3, Fields
    <2>3. PICK x \in Request : x = [q EXCEPT !.rows = q.rows \ {t}]
      BY <1>3, <2>1, <2>2
    <2>4. PICK p \in Request : p = [x EXCEPT !.locks = q.locks \cup {t}]
      BY <2>1, <2>2
    <2>5. p = [q EXCEPT !.rows = @ \ {t}, !.locks = @ \cup {t}]
      BY <2>3, <2>4
    <2>6. /\ x.pc = q.pc /\ x.kind = q.kind /\ x.client = q.client /\ x.seen = q.seen
          /\ x.status = q.status /\ x.trouble = q.trouble /\ x.raced = q.raced
      BY <1>3, <2>3 DEF Request
    <2>7. /\ p.pc = q.pc /\ p.kind = q.kind /\ p.client = q.client /\ p.seen = q.seen
          /\ p.status = q.status /\ p.trouble = q.trouble /\ p.raced = q.raced
      BY <2>4, <2>6 DEF Request
    <2>8. ReqOf(p, redis) /\ CoverOf(p, store, excused)
      BY <1>3, <2>7 DEF ReqOf, CoverOf, Flying
    <2>9. Becomes(r, p) /\ p.pc # "idle"
      BY <1>8, <2>5, <2>7
    <2> QED
      BY <1>1, <1>2, <1>4, <2>4, <2>7, <2>8, <2>9, Quiet
  <1> QED
    BY <1>1, <1>6, <1>7, <1>8

(* .delay() has returned.                                                  *)
LEMMA DeliverKeeps == ASSUME Ind, NEW r \in Req, Deliver(r) PROVE Ind'
  <1> PICK q : q = req[r]
    OBVIOUS
  <1> PICK p : p = Goto(q, "commit")
    OBVIOUS
  <1>1. /\ UNCHANGED <<redis, installed, store, excused, held, others>>
        /\ q.pc = "delay" /\ Becomes(r, p)
    BY DEF Deliver, At
  <1>2. r \in InFlight
    BY <1>1 DEF InFlight
  <1>3. q \in Request /\ ReqOf(q, redis) /\ Flying(q) /\ CoverOf(q, store, excused)
    BY <1>2, OfOne
  <1>4. held' \in SUBSET (held \ {r})
    BY <1>1 DEF Ind, TypeOK, HeldInv, Commands
  <1>5. "commit" \in Places
    BY DEF Places
  <1>6. /\ p \in Request /\ p.pc = "commit" /\ p.kind = q.kind /\ p.client = q.client
        /\ p.seen = q.seen /\ p.status = q.status /\ p.trouble = q.trouble
        /\ p.raced = q.raced
    BY <1>3, <1>5, Going
  <1>7. ReqOf(p, redis) /\ CoverOf(p, store, excused)
    BY <1>1, <1>3, <1>6 DEF ReqOf, CoverOf, Flying
  <1> QED
    BY <1>1, <1>2, <1>4, <1>6, <1>7, Quiet

(* A connection to the database is taken.                                  *)
LEMMA CheckoutKeeps == ASSUME Ind, NEW r \in Req, Checkout(r) PROVE Ind'
  <1> PICK q : q = req[r]
    OBVIOUS
  <1>1. PICK place \in {"ping", "probe", "write"} :
          place = CASE q.pc = "select" -> "probe" [] q.kind = "drop" -> "write" [] OTHER -> "ping"
    OBVIOUS
  <1> PICK p : p = Goto(q, place)
    OBVIOUS
  <1>2. /\ q.pc \in {"auth", "select"} /\ Cardinality(busy) + others < DbConnections
        /\ busy' = busy \cup {r} /\ req' = [req EXCEPT ![r] = p]
        /\ UNCHANGED <<redis, installed, store, excused, held, others, gauge>>
    <2>1. /\ q.pc \in {"auth", "select"} /\ ~DbFull /\ busy' = busy \cup {r}
          /\ UNCHANGED <<redis, installed, store, excused, held, others, gauge>>
      BY DEF Checkout, At
    <2>2. req' = [req EXCEPT ![r] = [q EXCEPT !.pc = place]]
      BY <1>1 DEF Checkout
    <2>3. p = [q EXCEPT !.pc = place]
      BY DEF Goto
    <2>4. Cardinality(busy) \in Nat /\ others \in Nat /\ DbConnections \in Nat
      BY Finite, ApiProcessAssumption DEF Ind, TypeOK
    <2> QED
      BY <2>1, <2>2, <2>3, <2>4 DEF DbFull
  <1>3. r \in InFlight
    BY <1>2 DEF InFlight
  <1>4. q \in Request /\ ReqOf(q, redis) /\ Flying(q) /\ CoverOf(q, store, excused)
    BY <1>3, OfOne
  <1>5. place \in Places
    BY DEF Places, Commands
  <1>6. /\ p \in Request /\ p.pc = place /\ p.kind = q.kind /\ p.client = q.client
        /\ p.seen = q.seen /\ p.status = q.status /\ p.trouble = q.trouble
        /\ p.raced = q.raced
    BY <1>4, <1>5, Going
  <1>6a. /\ place = "probe" => q.pc = "select"
         /\ place = "write" => q.pc = "auth" /\ q.kind = "drop"
         /\ place = "ping" => q.pc = "auth" /\ q.kind # "drop"
    BY <1>1, <1>2, <1>4 DEF ReqOf
  <1>7. ReqOf(p, redis) /\ CoverOf(p, store, excused)
    BY <1>4, <1>6, <1>6a DEF ReqOf, CoverOf, Flying, Writers, Purgers
  <1>8. /\ req' \in [Req -> Request] /\ req'[r] = p
        /\ \A x \in Req \ {r} : req'[x] = req[x]
    BY <1>2, <1>6 DEF Ind, TypeOK
  <1>9. InFlight' = InFlight
    BY <1>2, <1>6, <1>8 DEF InFlight
  <1>10. busy' \in SUBSET Req
    BY <1>2 DEF Ind, TypeOK
  <1>11. TypeOK'
    BY <1>2, <1>8, <1>10 DEF Ind, TypeOK
  <1>12. NothingLeaks'
    <2>1. /\ held \cup busy \subseteq InFlight /\ Cardinality(held) <= PoolSize
      BY DEF Ind, NothingLeaks
    <2>2. Cardinality(busy \cup {r}) \in Nat /\ Cardinality(busy \cup {r}) <= Cardinality(busy) + 1
      <3>1. Cardinality(busy) \in Nat /\ IsFiniteSet(busy)
        BY Finite
      <3>2. Cardinality(busy \cup {r}) =
              IF r \in busy THEN Cardinality(busy) ELSE Cardinality(busy) + 1
        BY <3>1, FS_AddElement
      <3> QED
        BY <3>1, <3>2
    <2>3. Cardinality(busy \cup {r}) + others <= DbConnections
      BY <1>2, <2>2, Finite, ApiProcessAssumption DEF Ind, TypeOK
    <2> QED
      BY <1>2, <1>3, <1>9, <2>1, <2>3 DEF NothingLeaks
  <1>13. GaugeIsExact'
    BY <1>2, <1>9 DEF Ind, GaugeIsExact
  <1>14. ReqInv'
    <2>1. \A x \in Req : ReqOf(req'[x], redis')
      BY <1>2, <1>7, <1>8 DEF Ind, ReqInv
    <2>2. \A x \in Req : ReqOf(req'[x], redis') <=> ReqOf(req[x], redis)'
      BY <1>2 DEF ReqOf, Flying
    <2> QED
      BY <2>1, <2>2 DEF ReqInv
  <1>15. RacedInv'
    BY <1>6, <1>8, <1>9 DEF Ind, RacedInv, InFlight
  <1>16. HeldInv'
    BY <1>2, <1>8 DEF Ind, HeldInv, TypeOK, Commands
  <1>17. CoverInv'
    <2>1. \A x \in Req : CoverOf(req'[x], store, excused)
      BY <1>7, <1>8 DEF Ind, CoverInv
    <2> QED
      BY <1>2, <2>1 DEF CoverInv, CoverOf, Covered, Flying
  <1>18. ExcuseInv'
    BY <1>2 DEF Ind, ExcuseInv, StaleNeedsCause, Covered
  <1> QED
    BY <1>11, <1>12, <1>13, <1>14, <1>15, <1>16, <1>17, <1>18 DEF Ind

(* A connection to Redis is taken.                                         *)
LEMMA SendKeeps == ASSUME Ind, NEW r \in Req, Send(r) PROVE Ind'
  <1>1. /\ req[r].pc \in Commands /\ req[r].client = "redis" /\ r \notin held
        /\ Cardinality(held) < PoolSize /\ held' = held \cup {r}
        /\ UNCHANGED <<redis, installed, store, excused, req, busy, others, gauge>>
    BY DEF Send, Asks, At
  <1>2. r \in InFlight /\ InFlight' = InFlight
    BY <1>1 DEF InFlight, Commands
  <1>3. TypeOK'
    BY <1>1 DEF Ind, TypeOK
  <1>4. NothingLeaks'
    <2>1. /\ held \cup busy \subseteq InFlight /\ Cardinality(busy) + others <= DbConnections
      BY DEF Ind, NothingLeaks
    <2>2. Cardinality(held \cup {r}) = Cardinality(held) + 1 /\ Cardinality(held) \in Nat
      BY <1>1, Finite, FS_AddElement
    <2>3. Cardinality(held \cup {r}) <= PoolSize
      BY <1>1, <2>2, ApiProcessAssumption
    <2> QED
      BY <1>1, <1>2, <2>1, <2>3 DEF NothingLeaks
  <1>5. GaugeIsExact' /\ RacedInv' /\ HeldInv' /\ ExcuseInv'
    BY <1>1, <1>2
       DEF Ind, GaugeIsExact, RacedInv, HeldInv, ExcuseInv, StaleNeedsCause, Covered
  <1>6. ReqInv'
    BY <1>1 DEF Ind, ReqInv, ReqOf, Flying
  <1>7. CoverInv'
    BY <1>1 DEF Ind, CoverInv, CoverOf, Covered, Flying
  <1> QED
    BY <1>3, <1>4, <1>5, <1>6, <1>7 DEF Ind

(* The commit of a writer makes old ones of the copies.  Those are covered *)
(* or, if a project has been deleted, excused.                             *)
LEMMA WriteKeeps ==
    ASSUME Ind, NEW r \in Req, Commit(r), req[r].kind \in Writers
    PROVE  Ind'
  <1>1. /\ req[r].pc = "commit" /\ req[r].kind \in Writers
        /\ store' = [c \in Stores |-> Aged(store[c])]
        /\ excused' = [c \in Stores |-> excused[c] \/ req[r].kind = "drop"]
        /\ req' = [q \in Req |-> IF q = r THEN Answer(req[r], req[r].status)
                                 ELSE [req[q] EXCEPT !.seen = Aged(@)]]
        /\ gauge' = gauge - 1 /\ busy' = busy \ {r}
        /\ UNCHANGED <<redis, installed, held, others>>
    BY DEF Commit, At
  <1>2. r \in InFlight
    BY <1>1 DEF InFlight
  <1>3. /\ req[r] \in Request /\ ReqOf(req[r], redis) /\ Flying(req[r])
        /\ CoverOf(req[r], store, excused)
        /\ req[r].status \in {200, 500, 503} /\ req[r].client \in Stores
    BY <1>2, OfOne, Fields
  <1>4. None # "current" /\ None # "old"
    BY ApiProcessAssumption
  <1>5. /\ req'[r] = Answer(req[r], req[r].status)
        /\ req'[r] \in Request /\ req'[r].pc = "done" /\ req'[r].kind = req[r].kind
        /\ req'[r].client = req[r].client /\ req'[r].seen = None
        /\ req'[r].status = req[r].status /\ req'[r].trouble = req[r].trouble
        /\ ~req'[r].raced
    <2>1. req'[r] = Answer(req[r], req[r].status)
      BY <1>1
    <2> QED
      BY <2>1, <1>1, <1>3, Answering
  <1>6. \A p \in Req \ {r} :
           /\ req'[p] \in Request /\ req'[p].pc = req[p].pc /\ req'[p].kind = req[p].kind
           /\ req'[p].client = req[p].client /\ req'[p].seen = Aged(req[p].seen)
           /\ req'[p].status = req[p].status /\ req'[p].trouble = req[p].trouble
           /\ req'[p].raced = req[p].raced
    <2> TAKE p \in Req \ {r}
    <2>1. req[p] \in Request /\ Aged(req[p].seen) \in Copy
      BY Fields DEF Ind, TypeOK, Aged, Copy
    <2>2. \A x \in Request : \A v \in Copy : [x EXCEPT !.seen = v] \in Request
      BY DEF Request
    <2>3. PICK y \in Request : y = [req[p] EXCEPT !.seen = Aged(req[p].seen)]
      BY <2>1, <2>2
    <2>4. req'[p] = y
      BY <1>1, <2>3
    <2>5. /\ y.pc = req[p].pc /\ y.kind = req[p].kind /\ y.client = req[p].client
          /\ y.seen = Aged(req[p].seen) /\ y.status = req[p].status
          /\ y.trouble = req[p].trouble /\ y.raced = req[p].raced
      BY <2>1, <2>3 DEF Request
    <2> QED
      BY <2>3, <2>4, <2>5
  <1>7. req' \in [Req -> Request]
    <2>1. \E f : req' = [q \in Req |-> f[q]]
      <3>1. req' = [q \in Req |-> req'[q]]
        BY <1>1
      <3> QED
        BY <3>1
    <2>2. \A q \in Req : req'[q] \in Request
      BY <1>5, <1>6
    <2> QED
      BY <2>1, <2>2
  <1>8. InFlight' = InFlight \ {r}
    <2>1. InFlight' = {p \in Req : req'[p].pc \notin {"idle", "done"}}
      BY DEF InFlight
    <2> QED
      BY <2>1, <1>5, <1>6 DEF InFlight
  <1>9. held' \in SUBSET (held \ {r})
    BY <1>1 DEF Ind, HeldInv, TypeOK, Commands
  <1>10. /\ gauge' \in Nat /\ busy' \in SUBSET Req /\ held' \in SUBSET Req
         /\ NothingLeaks' /\ GaugeIsExact'
    BY <1>1, <1>2, <1>8, <1>9, Counting
  <1>11. /\ store' \in [Stores -> Copy] /\ excused' \in [Stores -> BOOLEAN]
         /\ \A c \in Stores : excused[c] => excused'[c]
         /\ \A c \in Stores : store'[c] # "current"
         /\ \A c \in Stores : store'[c] = "old" => store[c] \in {"current", "old"}
    BY <1>1, <1>4 DEF Ind, TypeOK, Aged, Copy
  <1>12. TypeOK'
    BY <1>1, <1>7, <1>10, <1>11 DEF Ind, TypeOK
  <1>13. ReqInv'
    <2>1. ReqOf(req'[r], redis)
      BY <1>1, <1>3, <1>4, <1>5, Kindred, Fields DEF ReqOf, Flying
    <2>2. ASSUME NEW p \in Req \ {r}
          PROVE  ReqOf(req'[p], redis)
      <3>1. ReqOf(req[p], redis)
        BY DEF Ind, ReqInv
      <3>2. req[p].seen = "current" => req[p].raced
        BY <1>1, <1>2, <1>4, <3>1 DEF ReqOf, Flying, Ind, RacedInv, InFlight
      <3>3. /\ Aged(req[p].seen) # None => req[p].seen # None
            /\ Aged(req[p].seen) = "old" => req[p].seen \in {"current", "old"}
        BY <1>4 DEF Aged
      <3> QED
        BY <1>6, <3>1, <3>2, <3>3 DEF ReqOf, Flying
    <2>3. \A p \in Req : ReqOf(req'[p], redis') <=> ReqOf(req[p], redis)'
      BY <1>1 DEF ReqOf, Flying
    <2> QED
      BY <1>1, <2>1, <2>2, <2>3 DEF ReqInv
  <1>14. RacedInv'
    BY <1>6, <1>8 DEF Ind, RacedInv, InFlight
  <1>15. HeldInv'
    BY <1>6, <1>9 DEF Ind, HeldInv, TypeOK
  <1>16. CoverInv'
    BY <1>11, <1>7 DEF CoverInv, CoverOf, Covered, Request, Stores
  <1>17. ExcuseInv'
    <2>1. CASE req[r].kind = "drop"
      <3>1. \A c \in Stores : excused'[c]
        BY <1>1, <2>1
      <3> QED
        BY <3>1 DEF ExcuseInv, StaleNeedsCause, Covered, Stores
    <2>2. CASE req[r].kind # "drop"
      <3>1. req[r].kind \in Purgers
        BY <1>1, <2>2 DEF Writers
      <3>2. Covered("redis", store, excused) /\ Covered("fake", store, excused)
        BY <1>1, <1>3, <3>1 DEF CoverOf, Flying, Stores
      <3> QED
        BY <1>1, <1>11, <3>2 DEF Ind, ExcuseInv, StaleNeedsCause, Covered, Stores
    <2> QED
      BY <2>1, <2>2
  <1> QED
    BY <1>10, <1>12, <1>13, <1>14, <1>15, <1>16, <1>17 DEF Ind

LEMMA CommitKeeps == ASSUME Ind, NEW r \in Req, Commit(r) PROVE Ind'
  <1>1. CASE req[r].kind \in Writers
    BY <1>1, WriteKeeps
  <1>2. CASE req[r].kind \notin Writers
    <2>1. PICK q : q = req[r]
      OBVIOUS
    <2>2. PICK p : p = Answer(q, q.status)
      OBVIOUS
    <2>3. /\ q.pc = "commit" /\ Becomes(r, p)
      BY <1>2, <2>1, <2>2 DEF Commit, At
    <2>4. UNCHANGED <<redis, installed, store, excused, held, others>>
      BY <1>2 DEF Commit
    <2>5. r \in InFlight
      BY <2>1, <2>3 DEF InFlight
    <2>6. q \in Request /\ ReqOf(q, redis) /\ Flying(q)
      BY <2>1, <2>5, OfOne
    <2>7. q.status \in {200, 500, 503}
      BY <2>6, Fields
    <2>8. /\ p \in Request /\ p.pc = "done" /\ p.kind = q.kind
          /\ p.client = q.client /\ p.seen = None /\ p.status = q.status
          /\ p.trouble = q.trouble /\ ~p.raced
      BY <2>2, <2>6, <2>7, Answering
    <2>9. held' \in SUBSET (held \ {r})
      BY <2>1, <2>3, <2>4 DEF Ind, HeldInv, TypeOK, Commands
    <2>10. ReqOf(p, redis) /\ CoverOf(p, store, excused) /\ ~Flying(p)
      BY <2>6, <2>8, ApiProcessAssumption DEF ReqOf, CoverOf, Flying
    <2>11. p.pc # "idle" /\ p.kind = req[r].kind
      BY <2>1, <2>8
    <2> QED
      BY <2>3, <2>4, <2>5, <2>8, <2>9, <2>10, <2>11, Quiet
  <1> QED
    BY <1>1, <1>2

LEMMA Idling == Idle \in Request /\ \A rd : ReqOf(Idle, rd)
  <1>1. /\ "list" \in Kind /\ "idle" \in Places /\ "redis" \in Stores /\ None \in Copy
        /\ 200 \in {200, 500, 503} /\ {} \in SUBSET {"db", "redis"} /\ FALSE \in BOOLEAN
        /\ {} \in SUBSET Row
    BY DEF Kind, Places, Stores, Copy
  <1>2. Idle \in Request
    BY <1>1 DEF Idle, Request
  <1> QED
    BY <1>2, ApiProcessAssumption DEF Idle, ReqOf, Flying

(* A request comes; a write marks the listings that it overtakes.          *)
LEMMA ArriveKeeps == ASSUME Ind, NEW r \in Req, Arrive(r) PROVE Ind'
  <1>0. PICK k \in Kinds[r] : \E rows \in Writes(k) :
            req' = [q \in Req |->
              IF q = r
              THEN [Idle EXCEPT !.kind = k, !.rows = rows,
                                !.pc = IF k = "health" THEN "ping" ELSE "auth",
                                !.trouble = IF redis = "up" THEN {} ELSE {"redis"},
                                !.raced = k = "list" /\ Writing # {}]
              ELSE [req[q] EXCEPT
                       !.raced = @ \/ (k \in Writers /\ q \in InFlight /\ req[q].kind = "list")]]
    BY DEF Arrive
  <1>1. PICK rows \in Writes(k) :
          req' = [q \in Req |->
            IF q = r
            THEN [Idle EXCEPT !.kind = k, !.rows = rows,
                              !.pc = IF k = "health" THEN "ping" ELSE "auth",
                              !.trouble = IF redis = "up" THEN {} ELSE {"redis"},
                              !.raced = k = "list" /\ Writing # {}]
            ELSE [req[q] EXCEPT
                     !.raced = @ \/ (k \in Writers /\ q \in InFlight /\ req[q].kind = "list")]]
    BY <1>0
  <1>2. /\ req[r].pc = "idle" /\ gauge' = gauge + 1
        /\ UNCHANGED <<redis, installed, store, excused, held, busy, others>>
    BY DEF Arrive, At
  <1>3. k \in Kind
    BY ApiProcessAssumption
  <1>3a. rows \in SUBSET Row
    BY <1>1, <1>3 DEF Writes, Row, Kind
  <1>4. /\ req'[r] \in Request /\ req'[r].kind = k
        /\ req'[r].pc = IF k = "health" THEN "ping" ELSE "auth"
        /\ req'[r].client = "redis" /\ req'[r].seen = None /\ req'[r].status = 200
        /\ req'[r].trouble = IF redis = "up" THEN {} ELSE {"redis"}
        /\ req'[r].raced <=> k = "list" /\ Writing # {}
    <2>1. PICK place \in Places : place = IF k = "health" THEN "ping" ELSE "auth"
      BY DEF Places, Commands
    <2>2. PICK t \in SUBSET {"db", "redis"} : t = IF redis = "up" THEN {} ELSE {"redis"}
      OBVIOUS
    <2>3. PICK b \in BOOLEAN : b = (k = "list" /\ Writing # {})
      OBVIOUS
    <2>4. req'[r] = [Idle EXCEPT !.kind = k, !.rows = rows, !.pc = place, !.trouble = t,
                                 !.raced = b]
      BY <1>1, <2>1, <2>2, <2>3
    <2>5. /\ \A x \in Request : \A v \in Kind : [x EXCEPT !.kind = v] \in Request
          /\ \A x \in Request : \A v \in Places : [x EXCEPT !.pc = v] \in Request
          /\ \A x \in Request : \A v \in SUBSET Row : [x EXCEPT !.rows = v] \in Request
      BY DEF Request
    <2>6. \A x \in Request : \A v \in SUBSET {"db", "redis"} : [x EXCEPT !.trouble = v] \in Request
      BY DEF Request
    <2>7. \A x \in Request : \A v \in BOOLEAN : [x EXCEPT !.raced = v] \in Request
      BY DEF Request
    <2>8a. PICK x0 \in Request : x0 = [Idle EXCEPT !.kind = k]
      BY <1>3, <2>5, Idling
    <2>8. PICK x1 \in Request : x1 = [x0 EXCEPT !.rows = rows]
      BY <1>3a, <2>5
    <2>9. PICK x2 \in Request : x2 = [x1 EXCEPT !.pc = place]
      BY <2>5
    <2>10. PICK x3 \in Request : x3 = [x2 EXCEPT !.trouble = t]
      BY <2>6
    <2>11. PICK x4 \in Request : x4 = [x3 EXCEPT !.raced = b]
      BY <2>7
    <2>12. req'[r] = x4
      BY <2>4, <2>8, <2>8a, <2>9, <2>10, <2>11
    <2>12a. x0.kind = k /\ x0.client = "redis" /\ x0.seen = None /\ x0.status = 200
      BY <2>8a, Idling DEF Idle
    <2>13. x1.kind = k /\ x1.client = "redis" /\ x1.seen = None /\ x1.status = 200
      BY <2>8, <2>12a DEF Request
    <2>14. /\ x2.kind = k /\ x2.client = "redis" /\ x2.seen = None /\ x2.status = 200
           /\ x2.pc = place
      BY <2>9, <2>13 DEF Request
    <2>15. /\ x3.kind = k /\ x3.client = "redis" /\ x3.seen = None /\ x3.status = 200
           /\ x3.pc = place /\ x3.trouble = t
      BY <2>10, <2>14 DEF Request
    <2>16. /\ x4.kind = k /\ x4.client = "redis" /\ x4.seen = None /\ x4.status = 200
           /\ x4.pc = place /\ x4.trouble = t /\ x4.raced = b
      BY <2>11, <2>15 DEF Request
    <2> QED
      BY <2>1, <2>2, <2>3, <2>12, <2>16
  <1>5. \A p \in Req \ {r} :
           /\ req'[p] \in Request /\ req'[p].pc = req[p].pc /\ req'[p].kind = req[p].kind
           /\ req'[p].client = req[p].client /\ req'[p].seen = req[p].seen
           /\ req'[p].status = req[p].status /\ req'[p].trouble = req[p].trouble
           /\ req'[p].raced <=> \/ req[p].raced
                                \/ k \in Writers /\ p \in InFlight /\ req[p].kind = "list"
    <2> TAKE p \in Req \ {r}
    <2>1. req[p] \in Request
      BY DEF Ind, TypeOK
    <2>2. PICK b \in BOOLEAN :
             b = (req[p].raced \/ (k \in Writers /\ p \in InFlight /\ req[p].kind = "list"))
      OBVIOUS
    <2>3. \A x \in Request : \A v \in BOOLEAN : [x EXCEPT !.raced = v] \in Request
      BY DEF Request
    <2>4. PICK y \in Request : y = [req[p] EXCEPT !.raced = b]
      BY <2>1, <2>3
    <2>5. req'[p] = y
      BY <1>1, <2>2, <2>4
    <2>6. /\ y.pc = req[p].pc /\ y.kind = req[p].kind /\ y.client = req[p].client
          /\ y.seen = req[p].seen /\ y.status = req[p].status
          /\ y.trouble = req[p].trouble /\ y.raced = b
      BY <2>1, <2>4 DEF Request
    <2> QED
      BY <2>2, <2>4, <2>5, <2>6
  <1>6. req' \in [Req -> Request]
    <2>1. req' = [q \in Req |-> req'[q]]
      BY <1>1
    <2> QED
      BY <1>4, <1>5, <2>1
  <1>7. InFlight' = InFlight \cup {r} /\ r \notin InFlight
    <2>1. InFlight' = {p \in Req : req'[p].pc \notin {"idle", "done"}}
      BY DEF InFlight
    <2> QED
      BY <2>1, <1>2, <1>4, <1>5 DEF InFlight
  <1>8. GaugeIsExact' /\ gauge' \in Nat
    <2>1. Cardinality(InFlight \cup {r}) = Cardinality(InFlight) + 1
      BY <1>7, Finite, FS_AddElement
    <2> QED
      BY <2>1, <1>2, <1>7, Finite DEF Ind, GaugeIsExact
  <1>9. TypeOK'
    BY <1>2, <1>6, <1>8 DEF Ind, TypeOK
  <1>10. NothingLeaks'
    BY <1>2, <1>7 DEF Ind, NothingLeaks
  <1>11. ReqInv'
    <2>1. ReqOf(req'[r], redis)
      BY <1>3, <1>4, ApiProcessAssumption DEF ReqOf, Flying, Kind
    <2>2. ASSUME NEW p \in Req \ {r}
          PROVE  ReqOf(req'[p], redis)
      <3>1. ReqOf(req[p], redis)
        BY DEF Ind, ReqInv
      <3> QED
        BY <1>5, <3>1 DEF ReqOf, Flying
    <2>3. \A p \in Req : ReqOf(req'[p], redis') <=> ReqOf(req[p], redis)'
      BY <1>2 DEF ReqOf, Flying
    <2> QED
      BY <1>2, <2>1, <2>2, <2>3 DEF ReqInv
  <1>12. RacedInv'
    <2> SUFFICES ASSUME NEW l \in InFlight', NEW w \in InFlight',
                        req'[l].kind = "list", req'[w].kind \in Writers
                 PROVE  req'[l].raced
      BY DEF RacedInv
    <2>1. l # w
      BY DEF Writers, Purgers
    <2>2. l \in Req /\ w \in Req
      BY DEF InFlight
    <2>3. CASE l = r
      <3>1. w \in InFlight /\ req[w].kind \in Writers
        BY <1>5, <1>7, <2>1, <2>2, <2>3
      <3> QED
        BY <1>4, <2>3, <3>1 DEF Writing
    <2>4. CASE w = r
      BY <1>4, <1>5, <1>7, <2>1, <2>2, <2>4
    <2>5. CASE l # r /\ w # r
      BY <1>5, <1>7, <2>2, <2>5 DEF Ind, RacedInv
    <2> QED
      BY <2>3, <2>4, <2>5
  <1>13. HeldInv'
    BY <1>2, <1>5, <1>7 DEF Ind, HeldInv, NothingLeaks, TypeOK
  <1>14. CoverInv'
    <2>1. CoverOf(req'[r], store, excused)
      BY <1>4 DEF CoverOf
    <2>2. ASSUME NEW p \in Req \ {r}
          PROVE  CoverOf(req'[p], store, excused)
      BY <1>5 DEF Ind, CoverInv, CoverOf, Flying
    <2>3. \A p \in Req : CoverOf(req'[p], store, excused)
      BY <2>1, <2>2
    <2> QED
      BY <1>2, <2>3 DEF CoverInv, CoverOf, Covered, Flying
  <1>15. ExcuseInv'
    BY <1>2 DEF Ind, ExcuseInv, StaleNeedsCause, Covered
  <1> QED
    BY <1>8, <1>9, <1>10, <1>11, <1>12, <1>13, <1>14, <1>15 DEF Ind

LEMMA LeaveKeeps == ASSUME Ind, NEW r \in Req, Leave(r) PROVE Ind'
  <1>1. /\ req[r].pc = "done" /\ req' = [req EXCEPT ![r] = Idle]
        /\ UNCHANGED <<redis, installed, store, excused, held, busy, others, gauge>>
    BY DEF Leave, At
  <1>2. /\ req' \in [Req -> Request] /\ req'[r] = Idle /\ Idle.pc = "idle"
        /\ \A p \in Req \ {r} : req'[p] = req[p]
    BY <1>1, Idling DEF Ind, TypeOK, Idle
  <1>3. InFlight' = InFlight /\ r \notin InFlight
    <2>1. InFlight' = {p \in Req : req'[p].pc \notin {"idle", "done"}}
      BY DEF InFlight
    <2> QED
      BY <2>1, <1>1, <1>2 DEF InFlight
  <1>4. TypeOK' /\ NothingLeaks' /\ GaugeIsExact'
    BY <1>1, <1>2, <1>3 DEF Ind, TypeOK, NothingLeaks, GaugeIsExact
  <1>5. ReqInv'
    <2>1. \A p \in Req : ReqOf(req'[p], redis)
      BY <1>2, Idling DEF Ind, ReqInv
    <2>2. \A p \in Req : ReqOf(req'[p], redis') <=> ReqOf(req[p], redis)'
      BY <1>1 DEF ReqOf, Flying
    <2> QED
      BY <1>1, <2>1, <2>2 DEF ReqInv
  <1>6. RacedInv' /\ HeldInv'
    BY <1>1, <1>2, <1>3 DEF Ind, RacedInv, HeldInv, NothingLeaks, InFlight
  <1>7. CoverInv'
    <2>1. \A p \in Req : CoverOf(req'[p], store, excused)
      BY <1>2 DEF Ind, CoverInv, CoverOf, Flying
    <2> QED
      BY <1>1, <2>1 DEF CoverInv, CoverOf, Covered, Flying
  <1>8. ExcuseInv'
    BY <1>1 DEF Ind, ExcuseInv, StaleNeedsCause, Covered
  <1> QED
    BY <1>4, <1>5, <1>6, <1>7, <1>8 DEF Ind

LEMMA ElsewhereKeeps == ASSUME Ind, Elsewhere PROVE Ind'
  <1>1. /\ UNCHANGED <<redis, installed, store, excused, req, held, busy, gauge>>
        /\ \/ ~DbFull /\ others' = others + 1
           \/ others > 0 /\ others' = others - 1
    BY DEF Elsewhere
  <1>2. /\ Cardinality(busy) + others <= DbConnections /\ others \in Nat
        /\ Cardinality(busy) \in Nat /\ DbConnections \in Nat
    BY Finite, ApiProcessAssumption DEF Ind, NothingLeaks, TypeOK
  <1>3. others' \in Nat /\ Cardinality(busy) + others' <= DbConnections
    BY <1>1, <1>2 DEF DbFull
  <1>4. InFlight' = InFlight
    BY <1>1 DEF InFlight
  <1>5. TypeOK' /\ NothingLeaks' /\ GaugeIsExact'
    BY <1>1, <1>3, <1>4 DEF Ind, TypeOK, NothingLeaks, GaugeIsExact
  <1>6. ReqInv' /\ CoverInv'
    BY <1>1 DEF Ind, ReqInv, ReqOf, CoverInv, CoverOf, Covered, Flying
  <1>7. RacedInv' /\ HeldInv' /\ ExcuseInv'
    BY <1>1, <1>4 DEF Ind, RacedInv, HeldInv, ExcuseInv, StaleNeedsCause, Covered
  <1> QED
    BY <1>5, <1>6, <1>7 DEF Ind

LEMMA ExpireKeeps == ASSUME Ind, NEW c \in Stores, Expire(c) PROVE Ind'
  <1>1. /\ UNCHANGED <<redis, installed, excused, req, held, busy, others, gauge>>
        /\ store' = [store EXCEPT ![c] = None]
    BY DEF Expire
  <1>2. InFlight' = InFlight
    BY <1>1 DEF InFlight
  <1>3. None # "current" /\ None # "old"
    BY ApiProcessAssumption
  <1>4. store' \in [Stores -> Copy] /\ \A d \in Stores : store'[d] \in {store[d], None}
    BY <1>1 DEF Ind, TypeOK, Copy
  <1>5. TypeOK' /\ NothingLeaks' /\ GaugeIsExact'
    BY <1>1, <1>2, <1>4 DEF Ind, TypeOK, NothingLeaks, GaugeIsExact
  <1>6. ReqInv'
    BY <1>1 DEF Ind, ReqInv, ReqOf, Flying
  <1>7. RacedInv' /\ HeldInv'
    BY <1>1, <1>2 DEF Ind, RacedInv, HeldInv
  <1>8. CoverInv'
    <2> SUFFICES ASSUME NEW r \in Req
                 PROVE  CoverOf(req[r], store, excused)'
      BY DEF CoverInv
    <2>1. req[r].client \in Stores
      BY Fields DEF Ind, TypeOK
    <2>2. CoverOf(req[r], store, excused)
      BY DEF Ind, CoverInv
    <2> QED
      BY <1>1, <1>3, <1>4, <2>1, <2>2 DEF CoverOf, Covered, Flying, Stores
  <1>9. ExcuseInv'
    BY <1>1, <1>3, <1>4 DEF Ind, ExcuseInv, StaleNeedsCause, Covered, Stores
  <1> QED
    BY <1>5, <1>6, <1>7, <1>8, <1>9 DEF Ind

(* Redis goes or comes: whoever is in flight remembers it.                 *)
LEMMA RedisTurnsKeeps == ASSUME Ind, RedisTurns PROVE Ind'
  <1>1. /\ req' = [r \in Req |->
             IF r \in InFlight
             THEN [req[r] EXCEPT !.trouble = @ \cup {"redis"},
                                 !.raced = (@ \/ req[r].kind = "list")]
             ELSE req[r]]
        /\ excused' = [c \in Stores |-> TRUE]
        /\ redis' \in {"up", "down", "hung"}
        /\ UNCHANGED <<installed, held, busy, others, gauge>>
    BY DEF RedisTurns
  <1>2. store' \in [Stores -> Copy]
    BY DEF RedisTurns, Ind, TypeOK
  <1>3. \A r \in InFlight :
           /\ req'[r] \in Request /\ req'[r].pc = req[r].pc /\ req'[r].kind = req[r].kind
           /\ req'[r].client = req[r].client /\ req'[r].seen = req[r].seen
           /\ req'[r].status = req[r].status
           /\ req'[r].trouble = req[r].trouble \cup {"redis"}
           /\ req'[r].raced <=> req[r].raced \/ req[r].kind = "list"
    <2> TAKE r \in InFlight
    <2>1. r \in Req /\ req[r] \in Request
      BY OfOne
    <2>2. PICK q : q = [req[r] EXCEPT !.trouble = @ \cup {"redis"},
                                      !.raced = (@ \/ req[r].kind = "list")]
      OBVIOUS
    <2>3. /\ q \in Request /\ q.pc = req[r].pc /\ q.kind = req[r].kind
          /\ q.client = req[r].client /\ q.seen = req[r].seen /\ q.status = req[r].status
          /\ q.trouble = req[r].trouble \cup {"redis"}
          /\ (q.raced <=> req[r].raced \/ req[r].kind = "list")
      BY <2>1, <2>2, Marking
    <2>4. req'[r] = q
      BY <1>1, <2>1, <2>2
    <2> QED
      BY <2>3, <2>4
  <1>4. \A r \in Req \ InFlight : req'[r] = req[r] /\ req[r] \in Request
    BY <1>1 DEF Ind, TypeOK
  <1>5. InFlight \subseteq Req
    BY DEF InFlight
  <1>6. req' \in [Req -> Request]
    <2>1. req' = [r \in Req |-> req'[r]]
      BY <1>1
    <2> QED
      BY <1>3, <1>4, <2>1
  <1>7. InFlight' = InFlight
    <2>1. InFlight' = {p \in Req : req'[p].pc \notin {"idle", "done"}}
      BY DEF InFlight
    <2> QED
      BY <2>1, <1>3, <1>4 DEF InFlight
  <1>8. TypeOK' /\ NothingLeaks' /\ GaugeIsExact'
    BY <1>1, <1>2, <1>6, <1>7 DEF Ind, TypeOK, NothingLeaks, GaugeIsExact
  <1>9. ReqInv'
    <2>1. ASSUME NEW r \in InFlight
          PROVE  ReqOf(req'[r], redis')
      <3>1. ReqOf(req[r], redis)
        BY OfOne
      <3> QED
        BY <1>3, <3>1 DEF ReqOf, Flying
    <2>2. ASSUME NEW r \in Req \ InFlight
          PROVE  ReqOf(req'[r], redis')
      <3>1. ReqOf(req[r], redis) /\ ~Flying(req[r])
        BY DEF Ind, ReqInv, InFlight, Flying
      <3> QED
        BY <1>4, <3>1 DEF ReqOf
    <2>3. \A r \in Req : ReqOf(req'[r], redis') <=> ReqOf(req[r], redis)'
      <3>1. installed' = installed
        BY <1>1
      <3> QED
        BY <3>1 DEF ReqOf, Flying
    <2> QED
      BY <2>1, <2>2, <2>3 DEF ReqInv
  <1>10. RacedInv' /\ HeldInv'
    <2>1. RacedInv'
      BY <1>3, <1>7 DEF Ind, RacedInv
    <2>2. held' = held /\ held \subseteq InFlight
      BY <1>1 DEF Ind, NothingLeaks
    <2>3. HeldInv'
      BY <2>2, <1>3 DEF Ind, HeldInv
    <2> QED
      BY <2>1, <2>3
  <1>11. \A c \in Stores : excused'[c]
    BY <1>1
  <1>12. CoverInv'
    <2>1. \A r \in Req : req'[r].client \in Stores
      BY <1>6, Fields
    <2> QED
      BY <1>11, <2>1 DEF CoverInv, CoverOf, Covered, Stores
  <1>13. ExcuseInv'
    BY <1>11 DEF ExcuseInv, StaleNeedsCause, Covered, Stores
  <1> QED
    BY <1>8, <1>9, <1>10, <1>12, <1>13 DEF Ind

(* The process starts anew; Redis may have executed its last command.      *)
LEMMA RestartKeeps == ASSUME Ind, Restart PROVE Ind'
  <1>1. /\ req' = [r \in Req |-> Idle]
        /\ held' = {} /\ busy' = {} /\ others' = 0 /\ gauge' = 0
        /\ UNCHANGED <<redis, installed>>
    BY DEF Restart
  <1>2. None # "current" /\ None # "old" /\ None \in Copy
    BY ApiProcessAssumption DEF Copy
  <1> DEFINE Copies == /\ store' \in [Stores -> Copy] /\ excused' \in [Stores -> BOOLEAN]
                       /\ store'["fake"] = None
                       /\ store'["redis"] = "old" => excused'["redis"]
                       /\ redis # "up" => excused'["redis"]
  <1>3. Copies
    <2>1. ASSUME NEW r \in held, redis = "up", req[r].pc \in {"set", "delete"},
                 store' = [c \in Stores |->
                   IF c = "fake" \/ req[r].pc \in {"delete"} THEN None ELSE req[r].seen],
                 excused' = [excused EXCEPT !["redis"] = req[r].raced \/ @]
          PROVE  Copies
      <3>1. /\ req[r].seen \in Copy /\ req[r].raced \in BOOLEAN
            /\ req[r].seen = "old" => req[r].raced
        BY Fields DEF Ind, TypeOK, ReqInv, ReqOf
      <3>2. "fake" \in Stores /\ "redis" \in Stores /\ excused \in [Stores -> BOOLEAN]
        BY DEF Stores, Ind, TypeOK
      <3> QED
        BY <2>1, <3>1, <3>2, <1>2
    <2>2. ASSUME store' = [store EXCEPT !["fake"] = None], UNCHANGED excused
          PROVE  Copies
      <3>1. /\ store \in [Stores -> Copy] /\ excused \in [Stores -> BOOLEAN]
            /\ "fake" \in Stores /\ "redis" \in Stores
            /\ store["redis"] = "old" => excused["redis"]
            /\ redis # "up" => excused["redis"]
        BY DEF Ind, TypeOK, ExcuseInv, StaleNeedsCause, Stores
      <3> QED
        BY <2>2, <3>1, <1>2
    <2> QED
      BY <2>1, <2>2 DEF Restart, At
  <1>4. /\ req' \in [Req -> Request] /\ \A r \in Req : req'[r] = Idle
        /\ Idle.pc = "idle"
    BY <1>1, Idling DEF Idle
  <1>5. InFlight' = {}
    <2>1. InFlight' = {p \in Req : req'[p].pc \notin {"idle", "done"}}
      BY DEF InFlight
    <2> QED
      BY <2>1, <1>4
  <1>6. TypeOK'
    BY <1>1, <1>3, <1>4 DEF Ind, TypeOK
  <1>7. NothingLeaks' /\ GaugeIsExact'
    BY <1>1, <1>5, FS_EmptySet, ApiProcessAssumption DEF NothingLeaks, GaugeIsExact
  <1>8. ReqInv'
    <2>1. \A p \in Req : ReqOf(req'[p], redis)
      BY <1>4, Idling
    <2>2. \A p \in Req : ReqOf(req'[p], redis') <=> ReqOf(req[p], redis)'
      BY <1>1 DEF ReqOf, Flying
    <2> QED
      BY <1>1, <2>1, <2>2 DEF ReqInv
  <1>9. RacedInv' /\ HeldInv'
    BY <1>1, <1>5 DEF RacedInv, HeldInv
  <1>10. CoverInv'
    BY <1>4 DEF CoverInv, CoverOf, Flying
  <1>11. ExcuseInv'
    BY <1>1, <1>2, <1>3 DEF ExcuseInv, StaleNeedsCause, Covered, Stores
  <1> QED
    BY <1>6, <1>7, <1>8, <1>9, <1>10, <1>11 DEF Ind

-----------------------------------------------------------------------------
LEMMA Initial == Init => Ind
  <1> SUFFICES ASSUME Init
               PROVE  Ind
    OBVIOUS
  <1>1. /\ \A r \in Req : req[r] = Idle
        /\ Idle.pc = "idle" /\ None # "old" /\ None # "current" /\ None \in Copy
    BY ApiProcessAssumption DEF Init, Idle, Copy
  <1>2. InFlight = {}
    BY <1>1 DEF InFlight
  <1>3. TypeOK
    BY <1>1, Idling, ApiProcessAssumption DEF Init, TypeOK
  <1>4. NothingLeaks /\ GaugeIsExact
    BY <1>2, FS_EmptySet, ApiProcessAssumption DEF Init, NothingLeaks, GaugeIsExact
  <1>5. ReqInv /\ RacedInv /\ HeldInv /\ CoverInv
    BY <1>1, <1>2, Idling DEF Init, ReqInv, RacedInv, HeldInv, CoverInv, CoverOf, Flying
  <1>6. ExcuseInv
    BY <1>1 DEF Init, ExcuseInv, StaleNeedsCause, Covered, Stores
  <1> QED
    BY <1>3, <1>4, <1>5, <1>6 DEF Ind

LEMMA Stutters == ASSUME Ind, UNCHANGED vars PROVE Ind'
  <1>1. UNCHANGED <<redis, installed, store, excused, req, held, busy, others, gauge>>
    BY DEF vars
  <1>2. InFlight' = InFlight
    BY <1>1 DEF InFlight
  <1>3. TypeOK' /\ NothingLeaks' /\ GaugeIsExact'
    BY <1>1, <1>2 DEF Ind, TypeOK, NothingLeaks, GaugeIsExact
  <1>4. ReqInv' /\ CoverInv'
    BY <1>1 DEF Ind, ReqInv, ReqOf, CoverInv, CoverOf, Covered, Flying
  <1>5. RacedInv' /\ HeldInv' /\ ExcuseInv'
    BY <1>1, <1>2 DEF Ind, RacedInv, HeldInv, ExcuseInv, StaleNeedsCause, Covered
  <1> QED
    BY <1>3, <1>4, <1>5 DEF Ind

LEMMA Inductive == Ind /\ [Next]_vars => Ind'
  <1> SUFFICES ASSUME Ind, [Next]_vars
               PROVE  Ind'
    OBVIOUS
  <1>1. ASSUME NEW r \in Req, Arrive(r) \/ Leave(r) \/ Checkout(r) \/ DbFails(r) \/ Deliver(r)
        PROVE  Ind'
    BY <1>1, ArriveKeeps, LeaveKeeps, CheckoutKeeps, DbFailsKeeps, DeliverKeeps
  <1>2. ASSUME NEW r \in Req, Proceed(r)
        PROVE  Ind'
    BY <1>2, QueryKeeps, CommitKeeps, SendKeeps, FullKeeps, ReplyKeeps, BreakKeeps,
       LocalKeeps DEF Proceed
  <1>3. ASSUME Elsewhere \/ RedisTurns \/ Restart
        PROVE  Ind'
    BY <1>3, ElsewhereKeeps, RedisTurnsKeeps, RestartKeeps
  <1>4. ASSUME NEW c \in Stores, Expire(c)
        PROVE  Ind'
    BY <1>4, ExpireKeeps
  <1>5. ASSUME UNCHANGED vars
        PROVE  Ind'
    BY <1>5, Stutters
  <1> QED
    BY <1>1, <1>2, <1>3, <1>4, <1>5 DEF Next

LEMMA Invariant == Spec => []Ind
  BY Initial, Inductive, PTL DEF Spec

(* Every variable of the process stays in its set: get_redis_client gives  *)
(* a request one of the two clients, never something else.                 *)
THEOREM TypeCorrect == Spec => []TypeOK
  <1>1. Ind => TypeOK
    BY DEF Ind
  <1> QED
    BY <1>1, Invariant, PTL

(* Whatever fails, an answered request has given its connections back and  *)
(* no pool is overdrawn: get_db's close, the pool of core/redis.py.        *)
THEOREM NothingIsLeaked == Spec => []NothingLeaks
  <1>1. Ind => NothingLeaks
    BY DEF Ind
  <1> QED
    BY <1>1, Invariant, PTL

(* http_requests_in_progress of the middleware is the number of requests   *)
(* in flight.                                                              *)
THEOREM GaugeCounts == Spec => []GaugeIsExact
  <1>1. Ind => GaugeIsExact
    BY DEF Ind
  <1> QED
    BY <1>1, Invariant, PTL

(* A listing cached in Redis or in the fallback is old only if the GET     *)
(* that stored it was raced, or a project has been deleted or Redis been   *)
(* in trouble since.                                                       *)
THEOREM StaleHasCause == Spec => []StaleNeedsCause
  <1>1. Ind => StaleNeedsCause
    BY DEF Ind, ExcuseInv
  <1> QED
    BY <1>1, Invariant, PTL

(* What a 200, a 503 and a 500 say of the dependencies of the request.     *)
THEOREM AnswersAreTrue == Spec => []AnswersMean
  <1>1. Ind => AnswersMean
    BY DEF Ind, ReqInv, ReqOf, AnswersMean
  <1> QED
    BY <1>1, Invariant, PTL
=============================================================================
