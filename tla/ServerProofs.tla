----------------------------- MODULE ServerProofs -----------------------------
(***************************************************************************)
(* For any handlers, connections, requests and timeouts: connections are   *)
(* given back, the gauge is true and requests are counted as they were     *)
(* answered.  The invariant also bounds how old a request can be while its *)
(* handler still has calls to make; for timeouts that fit together as the  *)
(* server's do, main therefore closes the stores under no handler that     *)
(* still needs them.                                                       *)
(***************************************************************************)
EXTENDS ServerLifecycle, FiniteSetTheorems, TLAPS

(* Requests *)

LEMMA Timeouts ==
  /\ HeaderTimeout \in Nat /\ ReadTimeout \in Nat
  /\ RequestTimeout \in Nat /\ WriteTimeout \in Nat
  /\ Ops \subseteq DOMAIN Route
  /\ IsFiniteSet(Handlers)
BY RequestAssumption

USE Timeouts

\* A response is recorded, and sent as it is recorded, exactly from the end of
\* the handler to the end of the request.
WrittenOnce(h) ==
  /\ status[h] # None <=> pc[h] = "write"
  /\ pc[h] = "write" => sent[h] = status[h]
  /\ pc[h] \notin {"idle", "write"} => sent[h] = None /\ sample[h] = None
  /\ pc[h] = "idle" => sample[h] = sent[h]

\* A request whose handler has calls to make is no older than the header, the
\* body and the deadline allow.
Young(h) ==
  /\ lag[h] <= age[h] /\ lag[h] <= HeaderTimeout
  /\ pc[h] = "idle" => age[h] = 0
  /\ pc[h] = "header" => age[h] <= HeaderTimeout
  /\ pc[h] \notin {"idle", "write"} =>
       age[h] <= ReadTimeout \/ age[h] <= HeaderTimeout + RequestTimeout
  /\ \/ age[h] <= ReadTimeout
     \/ age[h] <= HeaderTimeout + RequestTimeout
     \/ age[h] <= HeaderTimeout + WriteTimeout

OneConn(h) ==
  IF pc[h] = "query"
  THEN \E c \in Conns \ closing : /\ held[h] = {c}
                                  /\ \A g \in Handlers \ {h} : c \notin held[g]
  ELSE held[h] = {}

RequestInv ==
  /\ RequestTypeOK
  /\ GaugeIsTrue
  /\ \A h \in Handlers : WrittenOnce(h) /\ Young(h) /\ OneConn(h)

LEMMA RequestInvImplies ==
  RequestInv => OneConnEach /\ GaugeIsTrue /\ CountedAsSent /\ AnsweredInTime
<1> SUFFICES ASSUME RequestInv
             PROVE  OneConnEach /\ GaugeIsTrue /\ CountedAsSent /\ AnsweredInTime
  OBVIOUS
<1>1. OneConnEach /\ GaugeIsTrue /\ CountedAsSent
  BY DEF RequestInv, OneConn, OneConnEach, WrittenOnce, CountedAsSent
<1>2. AnsweredInTime
  BY DEF RequestInv, Young, AnsweredInTime
<1> QED
  BY <1>1, <1>2

LEMMA RequestInitInv == RequestInit => RequestInv
<1> SUFFICES ASSUME RequestInit PROVE RequestInv
  OBVIOUS
<1>1. RequestTypeOK
  BY DEF RequestInit, RequestTypeOK, Points, Outside, Calls, Written
<1>2. GaugeIsTrue
  <2>1. {h \in Handlers : Inside(h)} = {}
    BY DEF RequestInit, Inside, Outside
  <2> QED
    BY <2>1, FS_EmptySet DEF RequestInit, GaugeIsTrue
<1>3. \A h \in Handlers : WrittenOnce(h) /\ Young(h) /\ OneConn(h)
  BY DEF RequestInit, WrittenOnce, Young, OneConn, None
<1> QED
  BY <1>1, <1>2, <1>3 DEF RequestInv

-----------------------------------------------------------------------------

\* Everything of one handler that a step of another leaves alone.
Untouched(g) ==
  /\ pc'[g] = pc[g] /\ age'[g] = age[g] /\ lag'[g] = lag[g] /\ held'[g] = held[g]
  /\ status'[g] = status[g] /\ sent'[g] = sent[g] /\ sample'[g] = sample[g]

Alone(h) == \A g \in Handlers \ {h} : Untouched(g)

\* The gauge follows the one handler that enters or leaves.
LEMMA GaugeFollows ==
  ASSUME RequestTypeOK, GaugeIsTrue, NEW h \in Handlers, Alone(h),
         \/ (Inside(h)' <=> Inside(h)) /\ inFlight' = inFlight
         \/ ~Inside(h) /\ Inside(h)' /\ inFlight' = inFlight + 1
         \/ Inside(h) /\ ~Inside(h)' /\ inFlight' = inFlight - 1
  PROVE  GaugeIsTrue' /\ inFlight' \in Nat
<1> DEFINE S == {g \in Handlers : Inside(g)}
           T == {g \in Handlers : Inside(g)'}
<1>1. S \subseteq Handlers /\ IsFiniteSet(S) /\ Cardinality(S) \in Nat
  BY FS_Subset, FS_CardinalityType
<1>2. inFlight = Cardinality(S)
  BY DEF GaugeIsTrue
<1>3. \A g \in Handlers \ {h} : Inside(g)' <=> Inside(g)
  BY DEF Alone, Untouched, Inside
<1>4. inFlight' = Cardinality(T) /\ Cardinality(T) \in Nat
  <2>1. CASE (Inside(h)' <=> Inside(h)) /\ inFlight' = inFlight
    <3>1. T = S
      BY <2>1, <1>3
    <3> QED
      BY <3>1, <2>1, <1>1, <1>2
  <2>2. CASE ~Inside(h) /\ Inside(h)' /\ inFlight' = inFlight + 1
    <3>1. T = S \cup {h} /\ h \notin S
      BY <2>2, <1>3
    <3>2. Cardinality(S \cup {h}) = Cardinality(S) + 1
      BY <3>1, <1>1, FS_AddElement
    <3>3. Cardinality(T) = Cardinality(S) + 1
      BY <3>1, <3>2
    <3> HIDE DEF S, T
    <3> QED
      BY <3>3, <2>2, <1>1, <1>2
  <2>3. CASE Inside(h) /\ ~Inside(h)' /\ inFlight' = inFlight - 1
    <3>1. T = S \ {h} /\ h \in S
      BY <2>3, <1>3
    <3>2. Cardinality(S \ {h}) = Cardinality(S) - 1
      BY <3>1, <1>1, FS_RemoveElement
    <3>3. IsFiniteSet(S \ {h}) /\ Cardinality(S \ {h}) \in Nat
      BY <1>1, FS_Subset, FS_CardinalityType
    <3> QED
      BY <3>1, <3>2, <3>3, <2>3, <1>2
  <2> QED
    BY <2>1, <2>2, <2>3
<1> QED
  BY <1>4 DEF GaugeIsTrue

\* What a step of one handler has to respect.
LEMMA LocalStep ==
  ASSUME RequestInv, RequestTypeOK', GaugeIsTrue', NEW h \in Handlers, Alone(h),
         WrittenOnce(h)', Young(h)', OneConn(h)',
         held'[h] \cap UNION {held[g] : g \in Handlers \ {h}} = {},
         closing' \subseteq closing \cup held[h]
  PROVE  RequestInv'
<1>1. ASSUME NEW g \in Handlers, g # h
      PROVE  WrittenOnce(g)' /\ Young(g)' /\ OneConn(g)'
  <2>1. WrittenOnce(g)' /\ Young(g)'
    BY <1>1 DEF RequestInv, Alone, Untouched, WrittenOnce, Young
  <2>2. CASE pc[g] = "query"
    <3>1. PICK c \in Conns \ closing :
                 held[g] = {c} /\ \A k \in Handlers \ {g} : c \notin held[k]
      BY <2>2, <1>1 DEF RequestInv, OneConn
    <3>2. c \notin held'[h] /\ c \notin closing'
      BY <3>1, <1>1
    <3>3. \A k \in Handlers \ {g} : c \notin held'[k]
      BY <3>1, <3>2 DEF Alone, Untouched
    <3> QED
      BY <2>1, <2>2, <3>1, <3>2, <3>3, <1>1 DEF OneConn, Alone, Untouched
  <2>3. CASE pc[g] # "query"
    BY <2>1, <2>3, <1>1 DEF RequestInv, OneConn, Alone, Untouched
  <2> QED
    BY <2>2, <2>3
<1> QED
  BY <1>1 DEF RequestInv

-----------------------------------------------------------------------------
(* The steps of a handler *)

LEMMA RoutesTyped == \A op \in Ops : Route[op] \in Seq(Calls)
<1>1. DOMAIN Route = {"healthz", "register", "login", "refresh", "logout", "me",
                      "list", "create", "get", "update", "delete", "relate",
                      "backlinks", "profile", "content", "portfolio", "graph", "feed"}
  BY DEF Route
<1>2. /\ <<>> \in Seq(Calls)
      /\ <<"wait">> \in Seq(Calls)
      /\ <<"redis", "wait">> \in Seq(Calls) /\ <<"redis", "redis">> \in Seq(Calls)
      /\ <<"wait", "wait">> \in Seq(Calls)
      /\ <<"body", "wait", "redis">> \in Seq(Calls)
      /\ <<"wait", "body", "wait">> \in Seq(Calls)
      /\ <<"wait", "wait", "wait">> \in Seq(Calls)
      /\ <<"wait", "body", "wait", "wait">> \in Seq(Calls)
      /\ <<"wait", "wait", "wait", "wait">> \in Seq(Calls)
      /\ <<"wait", "body", "wait", "wait", "wait">> \in Seq(Calls)
  BY DEF Calls
<1>3. /\ Route.healthz \in Seq(Calls) /\ Route.register \in Seq(Calls)
      /\ Route.login \in Seq(Calls) /\ Route.refresh \in Seq(Calls)
      /\ Route.logout \in Seq(Calls) /\ Route.me \in Seq(Calls)
      /\ Route.list \in Seq(Calls) /\ Route.create \in Seq(Calls)
      /\ Route.get \in Seq(Calls) /\ Route.update \in Seq(Calls)
      /\ Route.delete \in Seq(Calls) /\ Route.relate \in Seq(Calls)
      /\ Route.backlinks \in Seq(Calls) /\ Route.profile \in Seq(Calls)
      /\ Route.content \in Seq(Calls) /\ Route.portfolio \in Seq(Calls)
      /\ Route.graph \in Seq(Calls) /\ Route.feed \in Seq(Calls)
  BY <1>2 DEF Route
<1>4. \A op \in DOMAIN Route : Route[op] \in Seq(Calls)
  BY <1>1, <1>3
<1> QED
  BY <1>4

\* The handler goes on with a call, or writes its response.
Goes(h) ==
  /\ pc' \in [Handlers -> Points] /\ todo' \in [Handlers -> Seq(Calls)]
  /\ status' \in [Handlers -> Written] /\ sent' \in [Handlers -> Written]
  /\ \A g \in Handlers \ {h} :
       pc'[g] = pc[g] /\ status'[g] = status[g] /\ sent'[g] = sent[g]
  /\ \/ pc'[h] \in Calls /\ status'[h] = status[h] /\ sent'[h] = sent[h]
     \/ pc'[h] = "write" /\ status'[h] # None /\ sent'[h] = status'[h]

LEMMA AnswerGoes ==
  ASSUME RequestTypeOK, NEW h \in Handlers, WrittenOnce(h), Inside(h) \/ pc[h] = "header",
         NEW s \in {"ok", "error"}, Answer(h, s)
  PROVE  Goes(h) /\ pc'[h] = "write"
<1>1. /\ pc' = [pc EXCEPT ![h] = "write"] /\ pc' \in [Handlers -> Points]
      /\ todo' = [todo EXCEPT ![h] = <<>>] /\ todo' \in [Handlers -> Seq(Calls)]
  BY DEF RequestTypeOK, Answer, Goto, Points
<1>2. CASE status[h] = None
  <2>1. /\ status' = [status EXCEPT ![h] = s] /\ status' \in [Handlers -> Written]
        /\ sent' = [sent EXCEPT ![h] = s] /\ sent' \in [Handlers -> Written]
    BY <1>2 DEF RequestTypeOK, Answer, WriteHeader, Written
  <2> QED
    BY <1>1, <2>1 DEF RequestTypeOK, Goes, None
<1>3. CASE status[h] # None
  BY <1>1, <1>3 DEF RequestTypeOK, Goes, Answer, WriteHeader, WrittenOnce
<1> QED
  BY <1>2, <1>3

LEMMA GoOnGoes ==
  ASSUME RequestTypeOK, NEW h \in Handlers, WrittenOnce(h), Inside(h) \/ pc[h] = "header",
         NEW calls \in Seq(Calls), GoOn(h, calls)
  PROVE  Goes(h)
<1>1. CASE calls # <<>> /\ Goto(h, Head(calls))
           /\ todo' = [todo EXCEPT ![h] = Tail(calls)] /\ UNCHANGED <<status, sent>>
  <2>1. Head(calls) \in Calls /\ Tail(calls) \in Seq(Calls)
    BY <1>1
  <2> QED
    BY <1>1, <2>1 DEF RequestTypeOK, Goes, Goto, Points
<1>2. ASSUME NEW s \in {"ok", "error"}, Answer(h, s) PROVE Goes(h)
  BY <1>2, AnswerGoes
<1> QED
  BY <1>1, <1>2 DEF GoOn

\* A handler that goes on, gives back its connection and takes no time.
LEMMA GoesKeeps ==
  ASSUME RequestInv, NEW h \in Handlers, Goes(h), Inside(h),
         held' = [held EXCEPT ![h] = {}],
         closing' \subseteq closing \cup held[h], closing' \subseteq Conns,
         UNCHANGED <<timing, open, metrics>>,
         pc[h] = "write" => pc'[h] = "write"
  PROVE  RequestInv'
<1>1. RequestTypeOK'
  BY DEF RequestInv, RequestTypeOK, Goes, timing, metrics
<1>2. Alone(h) /\ held'[h] = {}
  BY DEF RequestInv, RequestTypeOK, Goes, Alone, Untouched, timing, metrics
<1>3. Inside(h)' /\ inFlight' = inFlight
  BY DEF Goes, Inside, Calls, Outside, metrics
<1>4. GaugeIsTrue'
  BY <1>2, <1>3, GaugeFollows DEF RequestInv
<1>5. WrittenOnce(h)'
  BY DEF RequestInv, WrittenOnce, Goes, Calls, Inside, Outside, metrics
<1>6. Young(h)'
  BY DEF RequestInv, Young, Goes, Calls, Inside, Outside, timing
<1>7. OneConn(h)'
  BY <1>2 DEF OneConn, Goes, Calls
<1> QED
  BY <1>1, <1>2, <1>4, <1>5, <1>6, <1>7, LocalStep

LEMMA AcceptKeeps ==
  ASSUME RequestInv, NEW h \in Handlers, Accept(h)
  PROVE  RequestInv'
<1>1. RequestTypeOK'
  BY DEF Accept, Goto, RequestInv, RequestTypeOK, Points, Outside, Written, timing, pool
<1>2. /\ Alone(h) /\ pc'[h] = "header" /\ sent'[h] = None /\ sample'[h] = None
      /\ age'[h] = age[h] /\ lag'[h] = lag[h] /\ status'[h] = status[h]
      /\ held' = held /\ closing' = closing /\ pc[h] = "idle"
  BY DEF Accept, Goto, RequestInv, RequestTypeOK, Alone, Untouched, timing, pool
<1>3. ~Inside(h) /\ ~Inside(h)' /\ inFlight' = inFlight
  BY <1>2 DEF Accept, Inside, Outside
<1>4. GaugeIsTrue'
  BY <1>2, <1>3, GaugeFollows DEF RequestInv
<1>5. WrittenOnce(h)'
  BY <1>2 DEF RequestInv, WrittenOnce
<1>6. Young(h)'
  BY <1>2 DEF RequestInv, Young, RequestTypeOK
<1>7. OneConn(h)' /\ held'[h] = {}
  BY <1>2 DEF RequestInv, OneConn
<1> QED
  BY <1>1, <1>2, <1>4, <1>5, <1>6, <1>7, LocalStep

LEMMA ServeKeeps ==
  ASSUME RequestInv, NEW h \in Handlers, Serve(h)
  PROVE  RequestInv'
<1>1. PICK op \in Ops : GoOn(h, Route[op])
  BY DEF Serve
<1>2. WrittenOnce(h) /\ pc[h] = "header" /\ Goes(h)
  BY <1>1, GoOnGoes, RoutesTyped DEF Serve, RequestInv
<1>3. /\ Alone(h) /\ lag'[h] = age[h] /\ age'[h] = age[h] /\ sample'[h] = sample[h]
      /\ held' = held /\ closing' = closing
  BY <1>2 DEF Serve, Goes, RequestInv, RequestTypeOK, Alone, Untouched, pool
<1>4. GaugeIsTrue' /\ inFlight' \in Nat
  <2>1. ~Inside(h) /\ Inside(h)' /\ inFlight' = inFlight + 1
    BY <1>2 DEF Serve, Goes, Inside, Outside, Calls
  <2> QED
    BY <2>1, <1>3, GaugeFollows DEF RequestInv
<1>5. RequestTypeOK'
  BY <1>2, <1>4 DEF Serve, Goes, RequestInv, RequestTypeOK, pool
<1>6. WrittenOnce(h)'
  BY <1>2, <1>3 DEF WrittenOnce, Goes, Calls
<1>7. Young(h)'
  BY <1>2, <1>3 DEF RequestInv, RequestTypeOK, Young, Goes, Calls
<1>8. OneConn(h)' /\ held'[h] = {}
  BY <1>2, <1>3 DEF RequestInv, OneConn, Goes, Calls
<1> QED
  BY <1>3, <1>4, <1>5, <1>6, <1>7, <1>8, LocalStep

\* The end of a request: nothing of it is left but what was sent and counted.
LEMMA DoneKeeps ==
  ASSUME RequestInv, RequestTypeOK', GaugeIsTrue', NEW h \in Handlers, Done(h),
         \A g \in Handlers \ {h} : /\ status'[g] = status[g]
                                   /\ sent'[g] = sent[g] /\ sample'[g] = sample[g],
         status'[h] = None, sample'[h] = sent'[h], held[h] = {}, UNCHANGED pool
  PROVE  RequestInv'
<1>1. /\ Alone(h) /\ pc'[h] = "idle" /\ age'[h] = 0 /\ lag'[h] = 0
      /\ held' = held /\ closing' = closing
  BY DEF Done, Goto, RequestInv, RequestTypeOK, Alone, Untouched, pool
<1>2. WrittenOnce(h)' /\ Young(h)' /\ OneConn(h)'
  BY <1>1 DEF WrittenOnce, Young, OneConn
<1> QED
  BY <1>1, <1>2, LocalStep

LEMMA LoseHeaderKeeps ==
  ASSUME RequestInv, NEW h \in Handlers, LoseHeader(h)
  PROVE  RequestInv'
<1>1. /\ pc[h] = "header" /\ Done(h) /\ WrittenOnce(h) /\ OneConn(h)
      /\ UNCHANGED <<todo, held, closing, open, status, sent, sample, inFlight>>
  BY DEF LoseHeader, RequestInv, pool, metrics
<1>2. RequestTypeOK'
  BY <1>1 DEF Done, Goto, RequestInv, RequestTypeOK, Points, Outside
<1>3. Alone(h) /\ ~Inside(h) /\ ~Inside(h)'
  BY <1>1 DEF Done, Goto, RequestInv, RequestTypeOK, Alone, Untouched, Inside, Outside
<1>4. GaugeIsTrue'
  BY <1>1, <1>3, GaugeFollows DEF RequestInv
<1>5. status'[h] = None /\ sample'[h] = sent'[h] /\ held[h] = {}
  BY <1>1 DEF WrittenOnce, OneConn
<1> QED
  BY <1>1, <1>2, <1>4, <1>5, DoneKeeps DEF pool

LEMMA LeaveKeeps ==
  ASSUME RequestInv, NEW h \in Handlers, Leave(h)
  PROVE  RequestInv'
<1>1. /\ pc[h] = "write" /\ Done(h) /\ WrittenOnce(h) /\ OneConn(h)
      /\ UNCHANGED <<todo, held, closing, open, sent>>
      /\ sample' = [sample EXCEPT ![h] = status[h]]
      /\ status' = [status EXCEPT ![h] = None]
      /\ inFlight' = inFlight - 1
  BY DEF Leave, RequestInv, WrittenOnce, pool
<1>2. Alone(h) /\ Inside(h) /\ ~Inside(h)'
  BY <1>1 DEF Done, Goto, RequestInv, RequestTypeOK, Alone, Untouched, Inside, Outside
<1>3. GaugeIsTrue' /\ inFlight' \in Nat
  BY <1>1, <1>2, GaugeFollows DEF RequestInv
<1>4. RequestTypeOK'
  BY <1>1, <1>3 DEF Done, Goto, RequestInv, RequestTypeOK, Points, Outside, Written
<1>5. status'[h] = None /\ sample'[h] = sent'[h] /\ held[h] = {}
  BY <1>1 DEF WrittenOnce, OneConn, RequestInv, RequestTypeOK
<1>6. \A g \in Handlers \ {h} : /\ status'[g] = status[g]
                                /\ sent'[g] = sent[g] /\ sample'[g] = sample[g]
  BY <1>2 DEF Alone, Untouched
<1> QED
  BY <1>1, <1>3, <1>4, <1>5, <1>6, DoneKeeps DEF pool

LEMMA AcquireKeeps ==
  ASSUME RequestInv, NEW h \in Handlers, Acquire(h)
  PROVE  RequestInv'
<1>1. PICK c \in Free : held' = [held EXCEPT ![h] = {c}]
  BY DEF Acquire
<1>2. c \in Conns /\ c \notin closing /\ \A g \in Handlers : c \notin held[g]
  BY <1>1 DEF Free
<1>3. RequestTypeOK'
  BY <1>1, <1>2 DEF Acquire, Goto, RequestInv, RequestTypeOK, Points, timing, metrics
<1>4. /\ Alone(h) /\ pc[h] = "wait" /\ pc'[h] = "query" /\ held'[h] = {c}
      /\ closing' = closing /\ inFlight' = inFlight
      /\ age'[h] = age[h] /\ lag'[h] = lag[h] /\ status'[h] = status[h]
      /\ sent'[h] = sent[h] /\ sample'[h] = sample[h]
  BY <1>1 DEF Acquire, Goto, RequestInv, RequestTypeOK, Alone, Untouched, timing, metrics
<1>5. GaugeIsTrue'
  <2>1. Inside(h) /\ Inside(h)'
    BY <1>4 DEF Inside, Outside
  <2> QED
    BY <1>4, <2>1, GaugeFollows DEF RequestInv
<1>6. WrittenOnce(h)' /\ Young(h)'
  BY <1>4 DEF RequestInv, WrittenOnce, Young
<1>7. OneConn(h)'
  BY <1>2, <1>4 DEF OneConn, Alone, Untouched
<1> QED
  BY <1>2, <1>3, <1>4, <1>5, <1>6, <1>7, LocalStep

LEMMA DestroyedKeeps ==
  ASSUME RequestInv, NEW c \in Conns, Destroyed(c)
  PROVE  RequestInv'
BY DEF RequestInv, RequestTypeOK, GaugeIsTrue, Inside, WrittenOnce, Young, OneConn,
       Destroyed, timing, metrics

\* Time goes on only as far as no wait is over.
LEMMA TickKeeps ==
  ASSUME RequestInv, Tick
  PROVE  RequestInv'
<1>1. RequestTypeOK' /\ \A h \in Handlers : age'[h] = Aged(h)
  BY DEF Tick, Aged, RequestInv, RequestTypeOK, pool, metrics
<1>2. GaugeIsTrue'
  BY DEF Tick, RequestInv, GaugeIsTrue, Inside, metrics
<1>3. ASSUME NEW h \in Handlers PROVE WrittenOnce(h)' /\ OneConn(h)'
  BY DEF Tick, RequestInv, WrittenOnce, OneConn, pool, metrics
<1>4. ASSUME NEW h \in Handlers PROVE Young(h)'
  <2>1. /\ pc'[h] = pc[h] /\ lag'[h] = lag[h] /\ ~Due(h) /\ Young(h)
        /\ age[h] \in Nat /\ lag[h] \in Nat /\ pc[h] \in Points
        /\ age'[h] = IF pc[h] = "idle" \/ age[h] >= Horizon THEN age[h] ELSE age[h] + 1
    BY <1>1 DEF Tick, Aged, RequestInv, RequestTypeOK
  <2> QED
    BY <2>1 DEF Young, Due, InTime, Elapsed, Points, Outside, Calls
<1> QED
  BY <1>1, <1>2, <1>3, <1>4 DEF RequestInv

\* A handler whose call is over, in whatever way.
LEMMA CallOver ==
  ASSUME RequestInv, NEW h \in Handlers,
         \/ ReadBody(h) \/ GiveUp(h) \/ Result(h) \/ Interrupt(h) \/ Command(h) \/ Panic(h)
  PROVE  RequestInv' /\ Goes(h)
<1> USE DEF Inside, Outside
<1>1. /\ RequestTypeOK /\ WrittenOnce(h) /\ todo[h] \in Seq(Calls) /\ held[h] \subseteq Conns
      /\ pc[h] # "query" => held = [held EXCEPT ![h] = {}]
      /\ closing \subseteq Conns
  BY DEF RequestInv, RequestTypeOK, OneConn
<1>2. CASE ReadBody(h)
  BY <1>1, <1>2, GoOnGoes, GoesKeeps DEF ReadBody, pool
<1>3. CASE GiveUp(h)
  BY <1>1, <1>3, AnswerGoes, GoesKeeps DEF GiveUp, pool
<1>4. CASE Result(h)
  BY <1>1, <1>4, GoOnGoes, GoesKeeps DEF Result
<1>5. CASE Interrupt(h)
  BY <1>1, <1>5, AnswerGoes, GoesKeeps DEF Interrupt
<1>6. CASE Command(h)
  <2>1. Goes(h) /\ Inside(h) /\ pc[h] = "redis"
    BY <1>1, <1>6, GoOnGoes, AnswerGoes DEF Command
  <2> QED
    BY <1>1, <1>6, <2>1, GoesKeeps DEF Command, pool
<1>7. CASE Panic(h)
  <2>1. Goes(h) /\ pc'[h] = "write"
    BY <1>1, <1>7, AnswerGoes DEF Panic
  <2> QED
    BY <1>1, <1>7, <2>1, GoesKeeps DEF Panic
<1> QED
  BY <1>2, <1>3, <1>4, <1>5, <1>6, <1>7

LEMMA HandlerStepKeeps ==
  ASSUME RequestInv, NEW h \in Handlers, HandlerStep(h)
  PROVE  RequestInv'
BY ServeKeeps, LoseHeaderKeeps, AcquireKeeps, LeaveKeeps, CallOver DEF HandlerStep

LEMMA RequestStutter ==
  ASSUME RequestInv, UNCHANGED requestVars
  PROVE  RequestInv'
BY DEF requestVars, RequestInv, RequestTypeOK, GaugeIsTrue, Inside, WrittenOnce, Young, OneConn

-----------------------------------------------------------------------------

\* The inductive invariant: responses, ages and connections of every handler.
THEOREM RequestInvariant == RequestSpec => []RequestInv
<1>1. RequestInv /\ [RequestNext]_requestVars => RequestInv'
  BY AcceptKeeps, HandlerStepKeeps, DestroyedKeeps, TickKeeps, RequestStutter
     DEF RequestNext
<1> QED
  BY <1>1, RequestInitInv, PTL DEF RequestSpec

\* The chain, the pool and the timeouts: every variable keeps its type.
THEOREM RequestTypes == RequestSpec => []RequestTypeOK
BY RequestInvariant, PTL DEF RequestInv

\* The pool as the handlers use it: no handler holds a connection while it
\* waits, and none is left behind, whatever fails and however calls end.
THEOREM ConnectionsComeBack == RequestSpec => []OneConnEach
BY RequestInvariant, RequestInvImplies, PTL

\* routerMetrics.middleware: the gauge counts the requests in the chain.
THEOREM GaugeStaysTrue == RequestSpec => []GaugeIsTrue
BY RequestInvariant, RequestInvImplies, PTL

\* recoveryMiddleware, statusRecorder and routerMetrics.middleware: requests are
\* counted as they were answered, panics included.
THEOREM CountsAreTrue == RequestSpec => []CountedAsSent
BY RequestInvariant, RequestInvImplies, PTL

\* The timeouts of net/http and requestTimeoutMiddleware: a bound on the time of
\* every request, for any timeouts and stores and clients that never answer.
THEOREM ResponsesAreBounded == RequestSpec => []AnsweredInTime
BY RequestInvariant, RequestInvImplies, PTL

-----------------------------------------------------------------------------
(* The server *)

LEMMA TimeoutsFit ==
  /\ ShutdownTimeout \in Nat
  /\ ReadTimeout < ShutdownTimeout
  /\ HeaderTimeout + RequestTimeout < ShutdownTimeout
BY ServerAssumption

USE TimeoutsFit

Spent(h) == pc[h] \in {"idle", "write"}     \* no call is left to make

\* What became of the listener, as far as main has got.
ListenerFits ==
  /\ main = "start" => listener = "off"
  /\ main = "serve" => listener \in {"starting", "open", "failed"}
  /\ main \in {"shutdown", "await"} => listener \in {"starting", "closed", "failed"}
  /\ main \in {"closeRedis", "closeDb", "waitConns", "exited"} => listener = "closed"
  /\ main = "fatal" => listener \in {"off", "failed"}
  /\ serverErr = "failed" <=> listener = "failed"
  /\ serverErr = "closed" => listener = "closed"

\* While main waits in Shutdown, a request that still has calls to make is at
\* least as old as the wait.
WaitedFor ==
  /\ main \in {"start", "serve"} => drain = 0
  /\ main = "shutdown" => \A h \in Handlers : ~Spent(h) => drain <= age[h]

Drained ==
  main \notin {"start", "serve", "shutdown", "fatal"} => \A h \in Handlers : Spent(h)

ClosedLate ==
  open # {"postgres", "redis"} => main \in {"closeDb", "waitConns", "exited"}

ServerInv ==
  /\ RequestInv
  /\ ServerTypeOK
  /\ ListenerFits
  /\ WaitedFor
  /\ Drained
  /\ ClosedLate

LEMMA ServerInvImplies == ServerInv => StoresOutliveHandlers /\ SignalEndsCleanly
BY DEF ServerInv, StoresOutliveHandlers, SignalEndsCleanly, ListenerFits, Drained,
       ClosedLate, Spent

LEMMA ServerInitInv == ServerInit => ServerInv
<1> SUFFICES ASSUME ServerInit PROVE ServerInv
  OBVIOUS
<1>1. RequestInit /\ RequestInv
  BY RequestInitInv DEF ServerInit
<1>2. ServerTypeOK
  <2>1. 0 \in 0 .. ShutdownTimeout
    OBVIOUS
  <2> QED
    BY <1>1, <2>1 DEF ServerInit, ServerTypeOK, Stages, RequestInv
<1>3. ListenerFits /\ WaitedFor /\ Drained
  BY DEF ServerInit, ListenerFits, WaitedFor, Drained
<1>4. ClosedLate
  BY <1>1 DEF RequestInit, ClosedLate
<1> QED
  BY <1>1, <1>2, <1>3, <1>4 DEF ServerInv

-----------------------------------------------------------------------------

\* A handler whose calls are made, and that gets no new request, makes no more,
\* and no handler gets younger without being done.
LEMMA SpentStays ==
  ASSUME RequestInv, NEW h \in Handlers, HandlerStep(h)
  PROVE  /\ Spent(h) => Spent(h)'
         /\ ~Spent(h)' => age'[h] = age[h]
         /\ \A g \in Handlers \ {h} : pc'[g] = pc[g] /\ age'[g] = age[g]
         /\ open' = open
<1>1. CASE Serve(h)
  <2>1. Goes(h)
    BY <1>1, GoOnGoes, RoutesTyped DEF Serve, RequestInv
  <2> QED
    BY <1>1, <2>1 DEF Serve, Goes, Spent, pool
<1>2. CASE LoseHeader(h) \/ Leave(h)
  BY <1>2 DEF LoseHeader, Leave, Done, Goto, RequestInv, RequestTypeOK, Spent, pool
<1>3. CASE Acquire(h)
  BY <1>3 DEF Acquire, Goto, RequestInv, RequestTypeOK, Spent, timing
<1>4. CASE ReadBody(h) \/ GiveUp(h) \/ Result(h) \/ Interrupt(h) \/ Command(h)
  <2>1. Goes(h)
    BY <1>4, CallOver
  <2> QED
    BY <1>4, <2>1 DEF ReadBody, GiveUp, Result, Interrupt, Command, Goes, Spent, timing, pool
<1>5. CASE Panic(h)
  <2>1. Goes(h)
    BY <1>5, CallOver
  <2> QED
    BY <1>5, <2>1 DEF Panic, Answer, Goto, Goes, Spent, timing, RequestInv, RequestTypeOK
<1> QED
  BY <1>1, <1>2, <1>3, <1>4, <1>5 DEF HandlerStep

LEMMA RequestKeeps ==
  ASSUME ServerInv, NEW h \in Handlers, Request(h)
  PROVE  ServerInv'
<1>1. /\ RequestInv' /\ open' = open
      /\ \A g \in Handlers \ {h} : pc'[g] = pc[g] /\ age'[g] = age[g]
      /\ listener # "open" => /\ Spent(h) => Spent(h)'
                              /\ ~Spent(h)' => age'[h] = age[h]
  <2>1. CASE listener = "open" /\ Accept(h)
    BY <2>1, AcceptKeeps DEF ServerInv, Accept, Goto, RequestInv, RequestTypeOK, timing, pool
  <2>2. CASE HandlerStep(h)
    BY <2>2, HandlerStepKeeps, SpentStays DEF ServerInv
  <2> QED
    BY <2>1, <2>2 DEF Request
<1>2. UNCHANGED <<main, listener, serverErr, signalled, drain>> /\ ~Ended
  BY DEF Request, process
<1>3. ServerTypeOK' /\ ListenerFits' /\ ClosedLate'
  BY <1>1, <1>2 DEF ServerInv, ServerTypeOK, RequestInv, ListenerFits, ClosedLate
<1>4. WaitedFor' /\ Drained'
  <2>1. CASE main \in {"start", "serve"}
    BY <1>2, <2>1 DEF ServerInv, WaitedFor, Drained
  <2>2. CASE main \notin {"start", "serve"}
    <3>1. listener # "open"
      BY <1>2, <2>2 DEF ServerInv, ServerTypeOK, Stages, ListenerFits, Ended
    <3>2. \A g \in Handlers : Spent(g) => Spent(g)'
      BY <1>1, <3>1 DEF Spent
    <3>3. \A g \in Handlers : ~Spent(g)' => age'[g] = age[g]
      BY <1>1, <3>1 DEF Spent
    <3> QED
      BY <1>2, <2>2, <3>2, <3>3 DEF ServerInv, WaitedFor, Drained
  <2> QED
    BY <2>1, <2>2
<1> QED
  BY <1>1, <1>3, <1>4 DEF ServerInv

\* No call outlasts a shutdown: the time it may take is less than Shutdown's.
LEMMA PassKeeps ==
  ASSUME ServerInv, Pass
  PROVE  ServerInv'
<1>1. RequestInv' /\ UNCHANGED <<pc, open, main, listener, serverErr, signalled>>
  BY TickKeeps DEF Pass, ServerInv, Tick, pool
<1>2. drain' \in 0 .. ShutdownTimeout
  BY DEF Pass, ServerInv, ServerTypeOK
<1>3. ServerTypeOK' /\ ListenerFits' /\ ClosedLate' /\ Drained'
  BY <1>1, <1>2 DEF ServerInv, ServerTypeOK, RequestInv, ListenerFits, ClosedLate,
     Drained, Spent
<1>4. ASSUME main = "shutdown", NEW h \in Handlers, ~Spent(h)
      PROVE  drain' <= age'[h]
  <2>1. /\ drain' = drain + 1 /\ drain <= age[h] /\ drain \in Nat
        /\ age'[h] = Aged(h) /\ ~Due(h) /\ Young(h)
        /\ age[h] \in Nat /\ lag[h] \in Nat /\ pc[h] \in Points
    BY <1>4 DEF Pass, Tick, ServerInv, ServerTypeOK, WaitedFor, RequestInv, RequestTypeOK
  <2>2. age[h] < Horizon
    BY <2>1, <1>4 DEF Horizon, Due, InTime, Elapsed, Young, Points, Outside, Calls, Spent
  <2> QED
    BY <2>1, <2>2, <1>4 DEF Aged, Spent, Horizon
<1>5. WaitedFor'
  <2>1. main \in {"start", "serve"} => drain' = 0
    BY DEF Pass, ServerInv, WaitedFor
  <2> QED
    BY <1>1, <1>4, <2>1 DEF WaitedFor, Spent
<1> QED
  BY <1>1, <1>3, <1>5 DEF ServerInv

\* When Shutdown gives up, only responses are still under way.
LEMMA ShutdownReturnsKeeps ==
  ASSUME ServerInv, ShutdownReturns
  PROVE  ServerInv'
<1>1. ASSUME NEW h \in Handlers PROVE Spent(h)
  <2>1. CASE pc[h] = "idle"
    BY <2>1 DEF Spent
  <2>2. CASE drain >= ShutdownTimeout
    <3>1. Young(h) /\ age[h] \in Nat /\ drain \in Nat /\ (~Spent(h) => drain <= age[h])
      BY DEF ServerInv, ServerTypeOK, RequestInv, RequestTypeOK, WaitedFor, ShutdownReturns
    <3> QED
      BY <2>2, <3>1 DEF Young, Spent
  <2> QED
    BY <2>1, <2>2 DEF ShutdownReturns
<1>2. RequestInv' /\ UNCHANGED <<pc, open, listener, serverErr, signalled, drain>>
      /\ main = "shutdown" /\ main' = "await"
  BY RequestStutter DEF ShutdownReturns, Reach, ServerInv, requestVars
<1>3. ServerTypeOK' /\ ListenerFits' /\ ClosedLate' /\ WaitedFor'
  BY <1>2 DEF ServerInv, ServerTypeOK, RequestInv, Stages, ListenerFits, ClosedLate, WaitedFor
<1>4. Drained'
  BY <1>1, <1>2 DEF Drained, Spent
<1> QED
  BY <1>2, <1>3, <1>4 DEF ServerInv

LEMMA CloseKeeps ==
  ASSUME ServerInv, CloseRedis \/ CloseDb
  PROVE  ServerInv'
<1>1. /\ UNCHANGED <<pc, todo, age, lag, held, closing, status, sent, sample, inFlight>>
      /\ UNCHANGED <<listener, serverErr, signalled, drain>>
      /\ open' \subseteq open
      /\ main \in {"closeRedis", "closeDb"} /\ main' \in {"closeDb", "waitConns"}
  BY DEF CloseRedis, CloseDb, Close, Reach, timing, metrics
<1>2. RequestInv'
  BY <1>1 DEF ServerInv, RequestInv, RequestTypeOK, GaugeIsTrue, Inside, WrittenOnce,
     Young, OneConn
<1> QED
  BY <1>1, <1>2 DEF ServerInv, ServerTypeOK, RequestInv, Stages, ListenerFits, WaitedFor,
     Drained, ClosedLate, Spent

\* The steps of the process that touch no handler.
LEMMA ProcessKeeps ==
  ASSUME ServerInv,
         \/ Start \/ Signal \/ Listens \/ ListenFails \/ ListenEnds \/ TakeSignal \/ TakeError
         \/ Await \/ Exit
  PROVE  ServerInv'
<1>1. UNCHANGED requestVars
  BY DEF Start, Signal, Listens, ListenFails, ListenEnds, TakeSignal, TakeError, Await, Exit
<1>2. RequestInv' /\ UNCHANGED <<pc, age, open>>
  BY <1>1, RequestStutter DEF requestVars, ServerInv
<1>3. ServerTypeOK'
  BY <1>2 DEF ServerInv, ServerTypeOK, RequestInv, Stages, Reach, Start, Signal,
     Listens, ListenFails, ListenEnds, TakeSignal, TakeError, Await, Exit
<1>4. ListenerFits'
  BY DEF ServerInv, ServerTypeOK, Stages, ListenerFits, Reach, Ended, Start, Signal, Listens,
     ListenFails, ListenEnds, TakeSignal, TakeError, Await, Exit
<1>5. WaitedFor'
  <2>1. drain' = drain /\ (main' \in {"start", "serve"} => main \in {"start", "serve"})
        /\ (main' = "shutdown" => main \in {"serve", "shutdown"})
    BY DEF Reach, Start, Signal, Listens, ListenFails, ListenEnds, TakeSignal, TakeError, Await, Exit
  <2>2. \A h \in Handlers : age[h] \in Nat
    BY DEF ServerInv, RequestInv, RequestTypeOK
  <2> QED
    BY <1>2, <2>1, <2>2 DEF ServerInv, WaitedFor, Spent
<1>6. Drained' /\ ClosedLate'
  BY <1>2 DEF ServerInv, Drained, ClosedLate, Spent, Reach, Start, Signal, Listens,
     ListenFails, ListenEnds, TakeSignal, TakeError, Await, Exit
<1> QED
  BY <1>2, <1>3, <1>4, <1>5, <1>6 DEF ServerInv

LEMMA ServerStepInv ==
  ASSUME ServerInv, [ServerNext]_serverVars
  PROVE  ServerInv'
<1>1. ASSUME NEW c \in Conns, Cleanup(c) PROVE ServerInv'
  <2>1. RequestInv' /\ UNCHANGED <<pc, age, open, main, listener, serverErr, signalled, drain>>
    BY <1>1, DestroyedKeeps DEF Cleanup, Destroyed, process, timing, ServerInv
  <2> QED
    BY <2>1 DEF ServerInv, ServerTypeOK, RequestInv, ListenerFits, WaitedFor, Drained,
       ClosedLate, Spent
<1>2. CASE UNCHANGED serverVars
  <2>1. RequestInv' /\ UNCHANGED <<pc, age, open, main, listener, serverErr, signalled, drain>>
    BY <1>2, RequestStutter DEF serverVars, requestVars, ServerInv
  <2> QED
    BY <2>1 DEF ServerInv, ServerTypeOK, RequestInv, ListenerFits, WaitedFor, Drained,
       ClosedLate, Spent
<1> QED
  BY <1>1, <1>2, RequestKeeps, PassKeeps, ShutdownReturnsKeeps, CloseKeeps, ProcessKeeps
     DEF ServerNext, MainStep

-----------------------------------------------------------------------------

\* The inductive invariant of the server: listener, ages and what is left to do.
THEOREM ServerInvariant == ServerSpec => []ServerInv
<1>1. ServerInv /\ [ServerNext]_serverVars => ServerInv'
  BY ServerStepInv
<1> QED
  BY <1>1, ServerInitInv, PTL DEF ServerSpec

\* cmd/server: every variable keeps its type.
THEOREM ServerTypes == ServerSpec => []ServerTypeOK
BY ServerInvariant, PTL DEF ServerInv

\* main, Shutdown and the deferred Close calls: as ReadTimeout, and header and
\* request timeout together, are less than shutdownTimeout, the stores are
\* closed under nobody, even if Shutdown gives up.
THEOREM StoresAreClosedLast == ServerSpec => []StoresOutliveHandlers
BY ServerInvariant, ServerInvImplies, PTL

\* main's two log.Fatalf after the start: neither is reached by a signal alone.
THEOREM SignalsAreNotFatal == ServerSpec => []SignalEndsCleanly
BY ServerInvariant, ServerInvImplies, PTL

LEMMA ServerInvKeeps ==
  ServerInv => OneConnEach /\ GaugeIsTrue /\ CountedAsSent /\ AnsweredInTime
BY RequestInvImplies DEF ServerInv

\* The composed server keeps what the handlers keep by themselves, while main
\* drains and closes, too: connections come back,
THEOREM ServerKeepsConnections == ServerSpec => []OneConnEach
BY ServerInvariant, ServerInvKeeps, PTL

\* the gauge is true,
THEOREM ServerKeepsGauge == ServerSpec => []GaugeIsTrue
BY ServerInvariant, ServerInvKeeps, PTL

\* requests are counted as they were answered,
THEOREM ServerKeepsCounts == ServerSpec => []CountedAsSent
BY ServerInvariant, ServerInvKeeps, PTL

\* and are over in time.
THEOREM ServerKeepsTime == ServerSpec => []AnsweredInTime
BY ServerInvariant, ServerInvKeeps, PTL
=============================================================================
