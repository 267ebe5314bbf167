-------------------------- MODULE RequestLifecycle --------------------------
(***************************************************************************)
(* What surrounds every handler of the API: net/http reads the request and *)
(* writes the response under the server's timeouts, the middleware chain   *)
(* counts, recovers and sets a deadline, and each call of a store takes a  *)
(* connection of the Postgres pool or a command of Redis.  What the calls  *)
(* do is the subject of ContentService and AuthSessions; here they only    *)
(* take time, fail, or are never answered at all.                          *)
(*                                                                         *)
(* Computing takes no time next to the seconds that are counted here: a    *)
(* handler is always waiting for the client or for a store.                *)
(***************************************************************************)
EXTENDS Naturals, Sequences, FiniteSets

CONSTANTS
  Handlers,        \* goroutines of client connections, one request at a time
  Conns,           \* the connections of the Postgres pool, postgresMaxConns
  Ops,             \* the requests that clients send, of DOMAIN Route
  HeaderTimeout,   \* httpReadHeaderTimeout
  ReadTimeout,     \* httpReadTimeout
  RequestTimeout,  \* defaultRequestTimeout
  WriteTimeout     \* httpWriteTimeout

\* The calls of each handler that wait for something, in order.
Route ==
  [healthz    |-> <<>>,
   register   |-> <<"body", "wait", "redis">>,
   login      |-> <<"body", "wait", "redis">>,
   refresh    |-> <<"redis", "wait">>,
   logout     |-> <<"redis", "redis">>,
   me         |-> <<"wait">>,
   list       |-> <<"wait">>,
   create     |-> <<"wait", "body", "wait">>,
   get        |-> <<"wait", "wait">>,
   update     |-> <<"wait", "body", "wait", "wait">>,
   delete     |-> <<"wait", "wait", "wait">>,
   relate     |-> <<"wait", "body", "wait", "wait", "wait">>,
   backlinks  |-> <<"wait", "wait">>,
   profile    |-> <<"wait", "wait">>,
   content    |-> <<"wait", "wait">>,
   portfolio  |-> <<"wait", "wait", "wait", "wait">>,
   graph      |-> <<"wait", "wait", "wait">>,
   feed       |-> <<"wait">>]

ASSUME RequestAssumption ==
  /\ IsFiniteSet(Handlers)
  /\ Ops \subseteq DOMAIN Route
  /\ {HeaderTimeout, ReadTimeout, RequestTimeout, WriteTimeout} \subseteq Nat

VARIABLES
  pc,          \* what each goroutine waits for
  todo,        \* the calls that its handler has still to make
  age,         \* the time since it began to read the request
  lag,         \* the part of it that reading the header took
  held,        \* the pool's connections that each handler has acquired
  closing,     \* connections that the pool is destroying
  open,        \* the clients of the stores that are not closed
  status,      \* statusRecorder.status
  sent,        \* the status that the client of the latest request was sent
  sample,      \* the status under which that request was counted
  inFlight     \* the gauge requests_in_flight

requestVars == <<pc, todo, age, lag, held, closing, open, status, sent, sample, inFlight>>
timing == <<age, lag>>
pool == <<held, closing, open>>
metrics == <<sample, inFlight>>

Calls   == {"body", "wait", "redis"}
Outside == {"idle", "header"}
Points  == Outside \cup Calls \cup {"query", "write"}

None == "none"      \* nothing written, nothing sent, not counted

Inside(h) == pc[h] \notin Outside

RequestInit ==
  /\ pc = [h \in Handlers |-> "idle"]
  /\ todo = [h \in Handlers |-> <<>>]
  /\ age = [h \in Handlers |-> 0]
  /\ lag = [h \in Handlers |-> 0]
  /\ held = [h \in Handlers |-> {}]
  /\ closing = {}
  /\ open = {"postgres", "redis"}
  /\ status = [h \in Handlers |-> None]
  /\ sent = [h \in Handlers |-> None]
  /\ sample = [h \in Handlers |-> None]
  /\ inFlight = 0

Goto(h, point) == pc' = [pc EXCEPT ![h] = point]

\* Fault: the recorder takes the latest status, the wire keeps the first.
WriteHeaderAgain(h, s) ==
  /\ status' = [status EXCEPT ![h] = s]
  /\ sent' = IF status[h] = None THEN [sent EXCEPT ![h] = s] ELSE sent

\* Only the first WriteHeader of a response counts.
WriteHeader(h, s) ==
  IF status[h] = None
  THEN status' = [status EXCEPT ![h] = s] /\ sent' = [sent EXCEPT ![h] = s]
  ELSE UNCHANGED <<status, sent>>

\* The handler answers and makes no further call.
Answer(h, s) ==
  /\ Goto(h, "write")
  /\ todo' = [todo EXCEPT ![h] = <<>>]
  /\ WriteHeader(h, s)

\* A call is over: the handler makes its next one, or answers.  Refusals,
\* empty pages and errors make it answer early.
GoOn(h, calls) ==
  \/ /\ calls # <<>>
     /\ Goto(h, Head(calls))
     /\ todo' = [todo EXCEPT ![h] = Tail(calls)]
     /\ UNCHANGED <<status, sent>>
  \/ \E s \in {"ok", "error"} : Answer(h, s)

\* The goroutine is through with the request.
Done(h) ==
  /\ Goto(h, "idle")
  /\ age' = [age EXCEPT ![h] = 0]
  /\ lag' = [lag EXCEPT ![h] = 0]

-----------------------------------------------------------------------------
(* The client's connection *)

Accept(h) ==
  /\ pc[h] = "idle"
  /\ Goto(h, "header")
  /\ sent' = [sent EXCEPT ![h] = None]
  /\ sample' = [sample EXCEPT ![h] = None]
  /\ UNCHANGED <<todo, timing, pool, status, inFlight>>

\* The chain up to the handler: the gauge goes up and the deadline is set.
Serve(h) ==
  /\ pc[h] = "header"
  /\ lag' = [lag EXCEPT ![h] = age[h]]
  /\ inFlight' = inFlight + 1
  /\ \E op \in Ops : GoOn(h, Route[op])
  /\ UNCHANGED <<age, pool, sample>>

\* Bytes that are no request, or none in time: the chain never sees it.
LoseHeader(h) ==
  /\ pc[h] = "header"
  /\ Done(h)
  /\ UNCHANGED <<todo, pool, status, sent, metrics>>

\* decodeJSON; a body that is late or malformed is answered with an error.
ReadBody(h) ==
  /\ pc[h] = "body"
  /\ GoOn(h, todo[h])
  /\ UNCHANGED <<timing, pool, metrics>>

\* Fault: the deferred Dec is lost.
LeaveUndercounted(h) ==
  /\ pc[h] = "write"
  /\ Done(h)
  /\ sample' = [sample EXCEPT ![h] = IF status[h] = None THEN "ok" ELSE status[h]]
  /\ status' = [status EXCEPT ![h] = None]
  /\ UNCHANGED <<todo, pool, sent, inFlight>>

\* The chain is left: metrics.middleware counts the request.
Leave(h) ==
  /\ pc[h] = "write"
  /\ Done(h)
  /\ sample' = [sample EXCEPT ![h] = IF status[h] = None THEN "ok" ELSE status[h]]
  /\ status' = [status EXCEPT ![h] = None]
  /\ inFlight' = inFlight - 1
  /\ UNCHANGED <<todo, pool, sent>>

-----------------------------------------------------------------------------
(* The calls of the stores *)

Free == Conns \ (closing \cup UNION {held[h] : h \in Handlers})

Elapsed(h) == age[h] - lag[h]       \* since the deadline was set
InTime(h)  == Elapsed(h) < RequestTimeout

Acquire(h) ==
  /\ pc[h] = "wait"
  /\ InTime(h)
  /\ "postgres" \in open
  /\ \E c \in Free : held' = [held EXCEPT ![h] = {c}]
  /\ Goto(h, "query")
  /\ UNCHANGED <<todo, timing, closing, open, status, sent, metrics>>

\* The wait ends without a connection: the deadline, a client that has gone
\* away, or a closed pool.
GiveUp(h) ==
  /\ pc[h] = "wait"
  /\ \E s \in {"ok", "error"} : Answer(h, s)
  /\ UNCHANGED <<timing, pool, metrics>>

\* Fault: rows are closed at the end of the loop, not deferred.
ResultLeavesRowsOpen(h) ==
  /\ pc[h] = "query"
  /\ GoOn(h, todo[h])
  /\ held' = IF status'[h] = "error" THEN held ELSE [held EXCEPT ![h] = {}]
  /\ UNCHANGED <<timing, closing, open, metrics>>

\* The rows are read and closed, whether or not they could be scanned.
Result(h) ==
  /\ pc[h] = "query"
  /\ GoOn(h, todo[h])
  /\ held' = [held EXCEPT ![h] = {}]
  /\ UNCHANGED <<timing, closing, open, metrics>>

\* A connection on which a statement was given up is of no use any more.
Interrupt(h) ==
  /\ pc[h] = "query"
  /\ \E s \in {"ok", "error"} : Answer(h, s)
  /\ closing' = closing \cup held[h]
  /\ held' = [held EXCEPT ![h] = {}]
  /\ UNCHANGED <<timing, open, metrics>>

Destroyed(c) ==
  /\ c \in closing
  /\ closing' = closing \ {c}
  /\ UNCHANGED <<pc, todo, timing, held, open, status, sent, metrics>>

\* Commands wait for an answer of Redis or fail, at the deadline at the latest.
Command(h) ==
  /\ pc[h] = "redis"
  /\ \/ InTime(h) /\ "redis" \in open /\ GoOn(h, todo[h])
     \/ \E s \in {"ok", "error"} : Answer(h, s)
  /\ UNCHANGED <<timing, pool, metrics>>

\* A panic anywhere in a handler: deferred calls close rows, and
\* recoveryMiddleware answers, if nothing was answered before.
Panic(h) ==
  /\ Inside(h)
  /\ Answer(h, "error")
  /\ held' = [held EXCEPT ![h] = {}]
  /\ UNCHANGED <<timing, closing, open, metrics>>

-----------------------------------------------------------------------------
(* Time *)

\* Fault: the server has no WriteTimeout.
DueWithoutWriteTimeout(h) ==
  \/ pc[h] = "header" /\ age[h] >= HeaderTimeout
  \/ pc[h] = "body" /\ age[h] >= ReadTimeout
  \/ pc[h] \in {"wait", "query", "redis"} /\ ~InTime(h)

\* Whatever the goroutine waits for has to end now.
Due(h) ==
  \/ pc[h] = "header" /\ age[h] >= HeaderTimeout
  \/ pc[h] = "body" /\ age[h] >= ReadTimeout
  \/ pc[h] \in {"wait", "query", "redis"} /\ ~InTime(h)
  \/ pc[h] = "write" /\ Elapsed(h) >= WriteTimeout

Expire(h) ==
  /\ Due(h)
  /\ LoseHeader(h) \/ ReadBody(h) \/ GiveUp(h) \/ Interrupt(h) \/ Command(h) \/ Leave(h)

\* Bound on age, which no request reaches as long as every wait has its limit.
Horizon == HeaderTimeout + ReadTimeout + RequestTimeout + WriteTimeout

Aged(h) == IF pc[h] = "idle" \/ age[h] >= Horizon THEN age[h] ELSE age[h] + 1

Tick ==
  /\ \A h \in Handlers : ~Due(h)
  /\ age' = [h \in Handlers |-> Aged(h)]
  /\ UNCHANGED <<pc, todo, lag, pool, status, sent, metrics>>

\* What goes on inside the server, once a connection is accepted.
HandlerStep(h) ==
  \/ Serve(h)
  \/ LoseHeader(h)
  \/ ReadBody(h)
  \/ Acquire(h)
  \/ GiveUp(h)
  \/ Result(h)
  \/ Interrupt(h)
  \/ Command(h)
  \/ Leave(h)
  \/ Panic(h)

RequestNext ==
  \/ \E h \in Handlers : Accept(h) \/ HandlerStep(h)
  \/ \E c \in Conns : Destroyed(c)
  \/ Tick

RequestSpec == RequestInit /\ [][RequestNext]_requestVars

-----------------------------------------------------------------------------
(* Correctness *)

Written == {None, "ok", "error"}

RequestTypeOK ==
  /\ pc \in [Handlers -> Points]
  /\ todo \in [Handlers -> Seq(Calls)]
  /\ age \in [Handlers -> Nat]
  /\ lag \in [Handlers -> Nat]
  /\ held \in [Handlers -> SUBSET Conns]
  /\ closing \subseteq Conns
  /\ open \subseteq {"postgres", "redis"}
  /\ status \in [Handlers -> Written]
  /\ sent \in [Handlers -> Written]
  /\ sample \in [Handlers -> Written]
  /\ inFlight \in Nat

\* A handler has a connection exactly while its statement runs, and then one
\* that nobody else has.  So no handler holds a connection while it waits for
\* another one, for the client or for Redis, and handlers that fail, panic or
\* run into their deadline give theirs back: a full pool always drains.
OneConnEach ==
  \A h \in Handlers :
    IF pc[h] = "query"
    THEN \E c \in Conns \ closing : /\ held[h] = {c}
                                    /\ \A g \in Handlers \ {h} : c \notin held[g]
    ELSE held[h] = {}

\* The gauge requests_in_flight is the number of requests between the two ends
\* of the middleware, panics included.
GaugeIsTrue == inFlight = Cardinality({h \in Handlers : Inside(h)})

\* A request that is over was counted under the status its client was sent,
\* also if the handler panicked before or after it wrote the header.
CountedAsSent == \A h \in Handlers : pc[h] = "idle" => sample[h] = sent[h]

\* Bounded response: no request takes longer than reading its header and body,
\* or than its header and the longer one of the request and the write timeout,
\* although each call in between has no limit of its own and may never return.
AnsweredInTime ==
  \A h \in Handlers :
    \E longest \in {ReadTimeout, HeaderTimeout + RequestTimeout,
                    HeaderTimeout + WriteTimeout} : age[h] <= longest
=============================================================================
