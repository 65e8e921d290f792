----------------------------- MODULE ApiProcess -----------------------------
(***************************************************************************)
(* One process of the API with its event loop and its two connection       *)
(* pools: the requests that need Redis (core/redis.py), and deletions of   *)
(* projects, run through the middleware of core/metrics.py while Redis     *)
(* goes down, hangs and comes back.  TaskApi has the rows and the filters; *)
(* here there is one listing, and a copy of it is current or old.          *)
(*                                                                         *)
(* A command to Redis takes a connection of the pool and gives it back     *)
(* when the answer is read; no timeout is set, so a Redis that hangs keeps *)
(* it.  The in-memory fallback answers at once.  The same server is the    *)
(* broker of the jobs, to which .delay() talks without an await: while it  *)
(* does, the event loop runs nothing else.                                 *)
(***************************************************************************)
EXTENDS Naturals, FiniteSets

CONSTANTS
    Req,                \* requests that may be in flight at a time
    Kinds,              \* what each of them may be
    PoolSize,           \* max_connections of the Redis pool
    DbConnections,      \* pool_size + max_overflow of the engine
    Task, Project,      \* the rows that are written, by their ids
    Images,             \* whether fakeredis may be installed: it is in requirements-dev.txt only
    None

(* A change is a PATCH or a deletion of a task, a drop is the deletion of  *)
(* a project that has tasks.  Creates and changes purge the listings.      *)
Kind == {"list", "create", "change", "drop", "health"}
Purgers == {"create", "change"}
Writers == Purgers \cup {"drop"}
Stores == {"redis", "fake"}
Copy == {None, "current", "old"}
Commands == {"ping", "get", "set", "scan", "delete", "probe"}
Places == {"idle", "auth", "select", "read", "write", "delay", "commit", "done"} \cup Commands
Row == Task \cup {Project}

ASSUME ApiProcessAssumption ==
    /\ IsFiniteSet(Req)
    /\ Kinds \in [Req -> SUBSET Kind]
    /\ PoolSize \in Nat \ {0} /\ DbConnections \in Nat \ {0}
    /\ Task \subseteq Nat /\ Project \in Nat /\ \A t \in Task : t < Project
    /\ Images \subseteq BOOLEAN
    /\ None \notin {"current", "old"}

VARIABLES
    redis,          \* "up", "down" (refuses and resets) or "hung" (says nothing)
    installed,      \* is the fakeredis package there?
    store,          \* the copy of the listing in Redis and in the fallback
    excused,        \* history: whether a copy may be old
    req,            \* what each request is doing
    held, busy,     \* who has a connection to Redis, to the database
    others,         \* connections to the database that other endpoints have
    gauge           \* http_requests_in_progress

vars == <<redis, installed, store, excused, req, held, busy, others, gauge>>

(* client: what get_redis_client gave it.  seen: the listing it has read.  *)
(* rows: what it has still to write.  locks: the rows that it has locked.  *)
(* trouble: history, what failed meanwhile.  raced: history, whether it    *)
(* ran beside a writer or a change of Redis.                               *)
Request == [kind: Kind, pc: Places, client: Stores, seen: Copy, status: {200, 500, 503},
            rows: SUBSET Row, locks: SUBSET Row,
            trouble: SUBSET {"db", "redis"}, raced: BOOLEAN]

Idle == [kind |-> "list", pc |-> "idle", client |-> "redis", seen |-> None,
         status |-> 200, rows |-> {}, locks |-> {}, trouble |-> {}, raced |-> FALSE]

InFlight == {r \in Req : req[r].pc \notin {"idle", "done"}}

(* A request is at a place: the program goes on from there.                *)
At(r, places) == req[r].pc \in places

Goto(q, place) == [q EXCEPT !.pc = place]

(* The handler returns; get_db commits before the answer leaves.           *)
Return(q, s) == [q EXCEPT !.pc = "commit", !.status = s]

(* The request is answered and its transaction over; an exception becomes  *)
(* a 500.                                                                  *)
Answer(q, s) == [q EXCEPT !.pc = "done", !.status = s, !.seen = None, !.raced = FALSE,
                          !.rows = {}, !.locks = {}]

(* Mutant: only an answer closes the session, an exception does not.       *)
BecomesKeeping(r, q) ==
    /\ req' = [req EXCEPT ![r] = q]
    /\ IF q.pc = "done"
       THEN gauge' = gauge - 1 /\ busy' = IF q.status = 500 THEN busy ELSE busy \ {r}
       ELSE UNCHANGED <<gauge, busy>>

(* Mutant: the gauge goes down after call_next, not in its finally.        *)
BecomesUncounted(r, q) ==
    /\ req' = [req EXCEPT ![r] = q]
    /\ IF q.pc = "done"
       THEN gauge' = (IF q.status = 500 THEN gauge ELSE gauge - 1) /\ busy' = busy \ {r}
       ELSE UNCHANGED <<gauge, busy>>

(* What a step makes of a request.  With the answer the session is closed  *)
(* and the middleware's finally has run.                                   *)
Becomes(r, q) ==
    /\ req' = [req EXCEPT ![r] = q]
    /\ IF q.pc = "done"
       THEN gauge' = gauge - 1 /\ busy' = busy \ {r}
       ELSE UNCHANGED <<gauge, busy>>

(* Where the handler itself begins.                                        *)
Handler(k) == CASE k = "list" -> "get" [] k \in Purgers -> "write" [] k = "health" -> "select"

(* A job is sent, or not, and the handler returns.                         *)
Announce(r, q) == \E place \in {"delay", "commit"} : Becomes(r, Goto(q, place))

(* What a request writes.  The task of a create is new, but its foreign    *)
(* key locks the project; a change may find that nothing differs.          *)
Writes(k) ==
    CASE k = "create" -> {{Project}}
      [] k = "change" -> {rows \in SUBSET Task : \A t, u \in rows : t = u}
      [] k = "drop" -> {rows \cup {Project} : rows \in SUBSET Task \ {{}}}
      [] OTHER -> {{}}

-----------------------------------------------------------------------------
Writing == {w \in InFlight : req[w].kind \in Writers}

(* Writers and the listings beside them are marked as such.                *)
Arrive(r) ==
    /\ At(r, {"idle"})
    /\ \E k \in Kinds[r] : \E rows \in Writes(k) :
          req' = [q \in Req |->
            IF q = r
            THEN [Idle EXCEPT !.kind = k, !.rows = rows,
                              !.pc = IF k = "health" THEN "ping" ELSE "auth",
                              !.trouble = IF redis = "up" THEN {} ELSE {"redis"},
                              !.raced = k = "list" /\ Writing # {}]
            ELSE [req[q] EXCEPT
                     !.raced = @ \/ (k \in Writers /\ q \in InFlight /\ req[q].kind = "list")]]
    /\ gauge' = gauge + 1
    /\ UNCHANGED <<redis, installed, store, excused, held, busy, others>>

(* The client has its answer.                                              *)
Leave(r) ==
    /\ At(r, {"done"})
    /\ req' = [req EXCEPT ![r] = Idle]
    /\ UNCHANGED <<redis, installed, store, excused, held, busy, others, gauge>>

DbFull == Cardinality(busy) + others >= DbConnections

(* A request of the endpoints that neither use Redis nor write tasks takes *)
(* or returns a connection.                                                *)
Elsewhere ==
    /\ \/ ~DbFull /\ others' = others + 1
       \/ others > 0 /\ others' = others - 1
    /\ UNCHANGED <<redis, installed, store, excused, req, held, busy, gauge>>

(* The first statement takes a connection to the database: the one of      *)
(* get_current_user, or the probe of health_check.                         *)
Checkout(r) ==
    /\ At(r, {"auth", "select"}) /\ ~DbFull
    /\ busy' = busy \cup {r}
    /\ req' = [req EXCEPT ![r].pc = CASE @ = "select" -> "probe"
                                      [] req[r].kind = "drop" -> "write"
                                      [] OTHER -> "ping"]
    /\ UNCHANGED <<redis, installed, store, excused, held, others, gauge>>

(* The row that a flush has come to: rows are written by their ids.        *)
AtRow(r, t) == At(r, {"write"}) /\ t \in req[r].rows /\ \A u \in req[r].rows : t <= u

(* Foreign keys share their lock, whoever writes the row itself waits for  *)
(* the end of the transaction that has it.                                 *)
WaitsFor(r, w) ==
    /\ req[r].kind # "create" \/ req[w].kind # "create"
    /\ \E t \in req[w].locks : w # r /\ AtRow(r, t)

(* The statements of the other handlers: a listing is read, a row written  *)
(* when its lock is free, and a flush ends.                                *)
Query(r) ==
    /\ \/ At(r, {"read"}) /\ Becomes(r, [Goto(req[r], "set") EXCEPT !.seen = "current"])
       \/ /\ \A w \in Req : ~WaitsFor(r, w)
          /\ \E t \in Row :
                AtRow(r, t) /\ Becomes(r, [req[r] EXCEPT !.rows = @ \ {t}, !.locks = @ \cup {t}])
       \/ /\ At(r, {"write"}) /\ req[r].rows = {}
          /\ Becomes(r, Goto(req[r], IF req[r].kind = "drop" THEN "commit" ELSE "scan"))
    /\ UNCHANGED <<redis, installed, store, excused, held, others>>

Aged(copy) == IF copy = "current" THEN "old" ELSE copy

(* The commit.  A writer makes every copy of the listing an old one, and   *)
(* the deletion of a project purges none.                                  *)
Commit(r) ==
    /\ At(r, {"commit"})
    /\ LET after == Answer(req[r], req[r].status)
       IN  IF req[r].kind \in Writers
           THEN /\ store' = [c \in Stores |-> Aged(store[c])]
                /\ excused' = [c \in Stores |-> excused[c] \/ req[r].kind = "drop"]
                /\ req' = [q \in Req |-> IF q = r THEN after
                                         ELSE [req[q] EXCEPT !.seen = Aged(@)]]
                /\ gauge' = gauge - 1 /\ busy' = busy \ {r}
           ELSE Becomes(r, after) /\ UNCHANGED <<store, excused>>
    /\ UNCHANGED <<redis, installed, held, others>>

(* The database fails a statement or the commit.  health_check notes it,   *)
(* anything else ends the request.                                         *)
DbFails(r) ==
    /\ LET q == [req[r] EXCEPT !.trouble = @ \cup {"db"}]
       IN  \/ /\ At(r, {"select"})
              /\ req' = [req EXCEPT ![r] = [q EXCEPT !.pc = "probe", !.status = 503]]
              /\ UNCHANGED <<gauge, busy>>
           \/ /\ At(r, {"auth", "read", "write", "commit"})
              /\ Becomes(r, Answer(q, 500))
    /\ UNCHANGED <<redis, installed, store, excused, held, others>>

(* Nobody gave a connection back for pool_timeout, 30 seconds.             *)
TimesOut(r) == DbFull /\ At(r, {"auth", "select"}) /\ DbFails(r)

-----------------------------------------------------------------------------
(* Mutant: SCAN looks for keys of another format.                          *)
ExecuteMissing(r, q) ==
    LET c == q.client IN
    \/ q.pc = "ping" /\ Becomes(r, Goto(q, Handler(q.kind))) /\ UNCHANGED <<store, excused>>
    \/ q.pc = "get" /\ store[c] # None /\ Becomes(r, Return(q, 200)) /\ UNCHANGED <<store, excused>>
    \/ q.pc = "get" /\ store[c] = None /\ Becomes(r, Goto(q, "read")) /\ UNCHANGED <<store, excused>>
    \/ /\ q.pc = "set" /\ Becomes(r, Return(q, 200))
       /\ store' = [store EXCEPT ![c] = q.seen]
       /\ excused' = [excused EXCEPT ![c] = q.raced]
    \/ q.pc = "scan" /\ Announce(r, q) /\ UNCHANGED <<store, excused>>
    \/ q.pc = "probe" /\ Becomes(r, Return(q, q.status)) /\ UNCHANGED <<store, excused>>

(* A command is executed and its answer read: PING, GET, SET with a time   *)
(* to live, SCAN, DEL, and the PING of health_check.                       *)
Execute(r, q) ==
    LET c == q.client IN
    \/ q.pc = "ping" /\ Becomes(r, Goto(q, Handler(q.kind))) /\ UNCHANGED <<store, excused>>
    \/ q.pc = "get" /\ store[c] # None /\ Becomes(r, Return(q, 200)) /\ UNCHANGED <<store, excused>>
    \/ q.pc = "get" /\ store[c] = None /\ Becomes(r, Goto(q, "read")) /\ UNCHANGED <<store, excused>>
    \/ /\ q.pc = "set" /\ Becomes(r, Return(q, 200))
       /\ store' = [store EXCEPT ![c] = q.seen]
       /\ excused' = [excused EXCEPT ![c] = q.raced]
    \/ q.pc = "scan" /\ store[c] = None /\ Announce(r, q) /\ UNCHANGED <<store, excused>>
    \/ q.pc = "scan" /\ store[c] # None /\ Becomes(r, Goto(q, "delete")) /\ UNCHANGED <<store, excused>>
    \/ /\ q.pc = "delete" /\ Announce(r, q)
       /\ store' = [store EXCEPT ![c] = None] /\ UNCHANGED excused
    \/ q.pc = "probe" /\ Becomes(r, Return(q, q.status)) /\ UNCHANGED <<store, excused>>

(* Mutant: the fallback is returned before it is made.                     *)
RaisesUnmade(r, q) ==
    \/ q.pc = "ping" /\ installed /\ Becomes(r, [Goto(q, Handler(q.kind)) EXCEPT !.client = None])
    \/ q.pc = "ping" /\ ~installed /\ Becomes(r, Answer(q, 500))
    \/ q.pc = "get" /\ Becomes(r, Goto(q, "read"))
    \/ q.pc = "set" /\ Becomes(r, Return(q, 200))
    \/ q.pc \in {"scan", "delete"} /\ Announce(r, q)
    \/ q.pc = "probe" /\ Becomes(r, Return(q, 503))

(* Mutant: get_cached_tasks lets the exception through.                    *)
RaisesThrough(r, q) ==
    \/ q.pc = "ping" /\ installed /\ Becomes(r, [Goto(q, Handler(q.kind)) EXCEPT !.client = "fake"])
    \/ q.pc = "ping" /\ ~installed /\ Becomes(r, Answer(q, 500))
    \/ q.pc = "get" /\ Becomes(r, Answer(q, 500))
    \/ q.pc = "set" /\ Becomes(r, Return(q, 200))
    \/ q.pc \in {"scan", "delete"} /\ Announce(r, q)
    \/ q.pc = "probe" /\ Becomes(r, Return(q, 503))

(* A command raises.  The first PING then falls back, if the package is    *)
(* there to import; the cache service goes on without, the probe reports.  *)
Raises(r, q) ==
    \/ q.pc = "ping" /\ installed /\ Becomes(r, [Goto(q, Handler(q.kind)) EXCEPT !.client = "fake"])
    \/ q.pc = "ping" /\ ~installed /\ Becomes(r, Answer(q, 500))
    \/ q.pc = "get" /\ Becomes(r, Goto(q, "read"))
    \/ q.pc = "set" /\ Becomes(r, Return(q, 200))
    \/ q.pc \in {"scan", "delete"} /\ Announce(r, q)
    \/ q.pc = "probe" /\ Becomes(r, Return(q, 503))

Asks(r) == At(r, Commands) /\ req[r].client = "redis" /\ r \notin held

(* A connection, from the pool or new.                                     *)
Send(r) ==
    /\ Asks(r) /\ Cardinality(held) < PoolSize
    /\ held' = held \cup {r}
    /\ UNCHANGED <<redis, installed, store, excused, req, busy, others, gauge>>

(* Mutant: a pool that waits for a connection.                             *)
FullWaits(r) == Asks(r) /\ Cardinality(held) >= PoolSize /\ UNCHANGED vars

(* There is none left: ConnectionError.                                    *)
Full(r) ==
    /\ Asks(r) /\ Cardinality(held) >= PoolSize
    /\ Raises(r, [req[r] EXCEPT !.trouble = @ \cup {"redis"}, !.raced = (@ \/ req[r].kind = "list")])
    /\ excused' = [c \in Stores |-> TRUE]
    /\ UNCHANGED <<redis, installed, store, held, others>>

Reply(r) ==
    /\ r \in held /\ redis = "up"
    /\ Execute(r, req[r])
    /\ held' = held \ {r}
    /\ UNCHANGED <<redis, installed, others>>

Break(r) ==
    /\ r \in held /\ redis = "down"
    /\ Raises(r, req[r])
    /\ held' = held \ {r}
    /\ UNCHANGED <<redis, installed, store, excused, others>>

(* .delay() returns, or raises and is caught: whether its job got through  *)
(* is NotifyWorker's matter.                                               *)
Deliver(r) ==
    /\ At(r, {"delay"}) /\ redis # "hung"
    /\ Becomes(r, Goto(req[r], "commit"))
    /\ UNCHANGED <<redis, installed, store, excused, held, others>>

(* A command to the fallback.                                              *)
Local(r) ==
    /\ At(r, Commands) /\ req[r].client = "fake"
    /\ Execute(r, req[r])
    /\ UNCHANGED <<redis, installed, held, others>>

-----------------------------------------------------------------------------
(* Redis goes down, hangs, recovers.  When it was down it has whatever its *)
(* snapshot had, with or without a command whose answer was lost.          *)
RedisTurns ==
    /\ redis' \in {"up", "down", "hung"} \ {redis}
    /\ IF redis = "down"
       THEN \E copy \in Copy : store' = [store EXCEPT !["redis"] = copy]
       ELSE UNCHANGED store
    /\ req' = [r \in Req |->
          IF r \in InFlight
          THEN [req[r] EXCEPT !.trouble = @ \cup {"redis"}, !.raced = (@ \/ req[r].kind = "list")]
          ELSE req[r]]
    /\ excused' = [c \in Stores |-> TRUE]
    /\ UNCHANGED <<installed, held, busy, others, gauge>>

(* The time to live of a copy is over.                                     *)
Expire(c) ==
    /\ store[c] # None
    /\ store' = [store EXCEPT ![c] = None]
    /\ UNCHANGED <<redis, installed, excused, req, held, busy, others, gauge>>

(* The process ends, by lifespan's shutdown or without, and is started     *)
(* anew.  Its fallback, gauge and connections are gone; one command that   *)
(* it had sent may have been executed.                                     *)
Restart ==
    /\ \/ \E r \in held :
             /\ redis = "up" /\ At(r, {"set", "delete"})
             /\ store' = [c \in Stores |->
                   IF c = "fake" \/ At(r, {"delete"}) THEN None ELSE req[r].seen]
             /\ excused' = [excused EXCEPT !["redis"] = req[r].raced \/ @]
       \/ store' = [store EXCEPT !["fake"] = None] /\ UNCHANGED excused
    /\ req' = [r \in Req |-> Idle]
    /\ held' = {} /\ busy' = {} /\ others' = 0 /\ gauge' = 0
    /\ UNCHANGED <<redis, installed>>

-----------------------------------------------------------------------------
Init ==
    /\ redis = "up" /\ installed \in Images
    /\ store = [c \in Stores |-> None] /\ excused = [c \in Stores |-> FALSE]
    /\ req = [r \in Req |-> Idle]
    /\ held = {} /\ busy = {} /\ others = 0 /\ gauge = 0

Proceed(r) == Query(r) \/ Commit(r) \/ Send(r) \/ Full(r) \/ Reply(r) \/ Break(r) \/ Local(r)

(* The event loop stands in .delay().                                      *)
LoopStands == \E r \in Req : At(r, {"delay"})

Next ==
    \/ ~LoopStands /\ \E r \in Req : Arrive(r) \/ Checkout(r) \/ DbFails(r) \/ Proceed(r)
    \/ ~LoopStands /\ Elsewhere
    \/ \E r \in Req : Leave(r) \/ Deliver(r)
    \/ RedisTurns \/ Restart
    \/ \E c \in Stores : Expire(c)

Spec == Init /\ [][Next]_vars

(* The event loop runs what is ready and PostgreSQL grants its locks in    *)
(* the order of asking, and who waits for the database is served or times  *)
(* out, however often others come in between.  .delay() returns if Redis   *)
(* stays answering or unreachable.                                         *)
FairSpec ==
    /\ Spec
    /\ \A r \in Req : SF_vars(~LoopStands /\ (Proceed(r) \/ Checkout(r) \/ TimesOut(r)))
    /\ WF_vars(\E r \in Req : Deliver(r))

-----------------------------------------------------------------------------
(* Every variable stays in its set; a client is always one of the two.     *)
TypeOK ==
    /\ redis \in {"up", "down", "hung"} /\ installed \in BOOLEAN
    /\ store \in [Stores -> Copy] /\ excused \in [Stores -> BOOLEAN]
    /\ req \in [Req -> Request]
    /\ held \in SUBSET Req /\ busy \in SUBSET Req
    /\ others \in Nat /\ gauge \in Nat

(* A request that has been answered, with whatever failure on its way, has *)
(* given its connections back, and neither pool is ever overdrawn.         *)
NothingLeaks ==
    /\ held \cup busy \subseteq InFlight
    /\ Cardinality(held) <= PoolSize /\ Cardinality(busy) + others <= DbConnections

(* The gauge of the middleware is the number of requests in flight, also   *)
(* after errors in a dependency, a handler or the commit.                  *)
GaugeIsExact == gauge = Cardinality(InFlight)

(* A copy of the listing, in Redis or in the fallback, is older than the   *)
(* table only if the GET that stored it ran beside a writer, or a project  *)
(* has been deleted since, which purges nothing, or Redis has since gone,  *)
(* come or been out of connections, so that a write may have purged the    *)
(* other store.                                                            *)
StaleNeedsCause ==
    \A c \in Stores : store[c] = "old" => excused[c]

(* What an answer says of the dependencies.  Redis alone fails no listing  *)
(* and no write while the fallback can be imported.  A 200 of /health      *)
(* means that the database answered, and Redis too unless it was in        *)
(* trouble meanwhile and the fallback answered for it; a 503 that          *)
(* something did fail.                                                     *)
AnswersMean ==
    \A r \in Req : LET q == req[r] IN q.pc = "done" =>
        /\ q.status = 200 =>
              "db" \notin q.trouble /\ (q.client = "fake" => "redis" \in q.trouble)
        /\ q.status = 503 => q.kind = "health" /\ q.trouble # {}
        /\ q.status = 500 => "db" \in q.trouble \/ (~installed /\ "redis" \in q.trouble)

(* Redis alone fails nobody (src/README.md:354).                           *)
RedisFailsNobody ==
    \A r \in Req : req[r].pc = "done" /\ req[r].status = 500 => "db" \in req[r].trouble

(* Who waits, perhaps through others, for rows of somebody who waits for   *)
(* the answer of Redis, or who does so itself.                             *)
Awaits(r) ==
    \E group \in SUBSET InFlight :
        r \in group /\ \A q \in group \ held : \E w \in group : WaitsFor(q, w)

(* A request is kept waiting only by a Redis that hangs: it has sent it a  *)
(* command, or writes a row that is locked until such a command returns,   *)
(* or the event loop stands in .delay().  Everybody else is answered,      *)
(* although no command has a timeout and those who wait keep connections.  *)
OnlyHungRedisBlocks ==
    \A r \in Req :
        []<>(r \notin InFlight \/ (redis = "hung" /\ (LoopStands \/ Awaits(r))))
=============================================================================
