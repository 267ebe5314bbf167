--------------------------- MODULE ServerLifecycle ---------------------------
(***************************************************************************)
(* cmd/server: the main goroutine, the goroutine that listens, a signal    *)
(* that may come at any time, and the handlers of RequestLifecycle, which  *)
(* main waits for when it shuts down and whose stores it then closes.      *)
(*                                                                         *)
(* Server.Shutdown is modelled by its documentation: it closes listeners,  *)
(* waits until no connection is in use, and gives up at its deadline.      *)
(***************************************************************************)
EXTENDS RequestLifecycle

CONSTANT ShutdownTimeout   \* shutdownTimeout

\* The timeouts fit together: what a handler waits for except its client, who
\* reads the response, is over before a shutdown that saw it begin gives up.
ASSUME ServerAssumption ==
  /\ ShutdownTimeout \in Nat
  /\ ReadTimeout < ShutdownTimeout
  /\ HeaderTimeout + RequestTimeout < ShutdownTimeout

VARIABLES
  main,        \* where the main goroutine is
  listener,    \* what became of ListenAndServe
  serverErr,   \* the channel of one error
  signalled,   \* whether ctx is done
  drain        \* the time since Shutdown was called

serverVars == <<requestVars, main, listener, serverErr, signalled, drain>>
process == <<main, listener, serverErr, signalled, drain>>

Stages == {"start", "serve", "shutdown", "await", "closeRedis", "closeDb",
           "waitConns", "exited", "fatal"}
Ended == main \in {"exited", "fatal"}

ServerInit ==
  /\ RequestInit
  /\ main = "start"
  /\ listener = "off"
  /\ serverErr = "empty"
  /\ signalled = FALSE
  /\ drain = 0

Reach(stage) == main' = stage

\* Both pings have to succeed within startupTimeout and before any signal.
Start ==
  /\ main = "start"
  /\ \/ ~signalled /\ Reach("serve") /\ listener' = "starting"
     \/ Reach("fatal") /\ UNCHANGED listener
  /\ UNCHANGED <<requestVars, serverErr, signalled, drain>>

Signal ==
  /\ ~Ended
  /\ signalled' = TRUE
  /\ UNCHANGED <<requestVars, main, listener, serverErr, drain>>

\* ListenAndServe opens its listener, unless Shutdown was called before.
Listens ==
  /\ main = "serve"
  /\ listener = "starting"
  /\ listener' = "open"
  /\ UNCHANGED <<requestVars, main, serverErr, signalled, drain>>

\* The address is taken, which may show after Shutdown was called, or the listener
\* breaks.
ListenFails ==
  /\ ~Ended
  /\ listener \in {"starting", "open"}
  /\ listener' = "failed"
  /\ serverErr' = "failed"
  /\ UNCHANGED <<requestVars, main, signalled, drain>>

\* Fault: the goroutine keeps ErrServerClosed to itself.
ListenEndsSilently ==
  /\ ~Ended
  /\ listener \in {"starting", "closed"}
  /\ serverErr = "empty"
  /\ main \in {"shutdown", "await"}
  /\ UNCHANGED serverVars

\* ListenAndServe returns ErrServerClosed once Shutdown was called.
ListenEnds ==
  /\ ~Ended
  /\ listener \in {"starting", "closed"}
  /\ serverErr = "empty"
  /\ main \in {"shutdown", "await"}
  /\ serverErr' = "closed"
  /\ listener' = "closed"
  /\ UNCHANGED <<requestVars, main, signalled, drain>>

\* Fault: main returns, and its deferred calls run, without Shutdown.
TakeSignalAndReturn ==
  /\ main = "serve"
  /\ signalled
  /\ Reach("closeRedis")
  /\ listener' = IF listener = "open" THEN "closed" ELSE listener
  /\ UNCHANGED <<requestVars, serverErr, signalled, drain>>

TakeSignal ==
  /\ main = "serve"
  /\ signalled
  /\ Reach("shutdown")
  /\ listener' = IF listener = "open" THEN "closed" ELSE listener
  /\ UNCHANGED <<requestVars, serverErr, signalled, drain>>

\* The other branch of select; ErrServerClosed cannot come here.
TakeError ==
  /\ main = "serve"
  /\ serverErr = "failed"
  /\ Reach("fatal")
  /\ UNCHANGED <<requestVars, listener, serverErr, signalled, drain>>

\* Shutdown returns: every connection is idle, or its time is up.
ShutdownReturns ==
  /\ main = "shutdown"
  /\ (\A h \in Handlers : pc[h] = "idle") \/ drain >= ShutdownTimeout
  /\ Reach("await")
  /\ UNCHANGED <<requestVars, listener, serverErr, signalled, drain>>

\* Fault: ErrServerClosed is taken for an error.
AwaitAnyError ==
  /\ main = "await"
  /\ serverErr # "empty"
  /\ Reach("fatal")
  /\ UNCHANGED <<requestVars, listener, serverErr, signalled, drain>>

Await ==
  /\ main = "await"
  /\ serverErr # "empty"
  /\ Reach(IF serverErr = "closed" THEN "closeRedis" ELSE "fatal")
  /\ UNCHANGED <<requestVars, listener, serverErr, signalled, drain>>

\* The deferred calls, last one first.
Close(client) ==
  /\ open' = open \ {client}
  /\ UNCHANGED <<pc, todo, timing, held, closing, status, sent, metrics>>
  /\ UNCHANGED <<listener, serverErr, signalled, drain>>

CloseRedis == main = "closeRedis" /\ Reach("closeDb") /\ Close("redis")

CloseDb == main = "closeDb" /\ Reach("waitConns") /\ Close("postgres")

\* The pool's Close returns when every connection is back and destroyed.
Exit ==
  /\ main = "waitConns"
  /\ closing = {}
  /\ \A h \in Handlers : held[h] = {}
  /\ Reach("exited")
  /\ UNCHANGED <<requestVars, listener, serverErr, signalled, drain>>

MainStep ==
  \/ Start
  \/ TakeSignal
  \/ TakeError
  \/ ShutdownReturns
  \/ Await
  \/ CloseRedis
  \/ CloseDb
  \/ Exit

\* Handlers run until the process ends, connections come until it stops
\* listening.
Request(h) ==
  /\ ~Ended
  /\ (listener = "open" /\ Accept(h)) \/ HandlerStep(h)
  /\ UNCHANGED process

Cleanup(c) == ~Ended /\ Destroyed(c) /\ UNCHANGED process

Deadline(h) == ~Ended /\ Expire(h) /\ UNCHANGED process

Pass ==
  /\ ~Ended
  /\ Tick
  /\ main = "shutdown" => drain < ShutdownTimeout
  /\ drain' = IF main = "shutdown" THEN drain + 1 ELSE drain
  /\ UNCHANGED <<main, listener, serverErr, signalled>>

ServerNext ==
  \/ MainStep
  \/ Signal
  \/ Listens
  \/ ListenFails
  \/ ListenEnds
  \/ \E h \in Handlers : Request(h)
  \/ \E c \in Conns : Cleanup(c)
  \/ Pass

ServerSpec == ServerInit /\ [][ServerNext]_serverVars

\* The goroutines of the process run; stores and clients may stay silent.
FairServerSpec ==
  /\ ServerSpec
  /\ WF_serverVars(MainStep)
  /\ WF_serverVars(ListenEnds)
  /\ WF_serverVars(Pass)
  /\ \A h \in Handlers : WF_serverVars(Deadline(h))
  /\ \A c \in Conns : WF_serverVars(Cleanup(c))

-----------------------------------------------------------------------------
(* Correctness *)

ServerTypeOK ==
  /\ RequestTypeOK
  /\ main \in Stages
  /\ listener \in {"off", "starting", "open", "failed", "closed"}
  /\ serverErr \in {"empty", "failed", "closed"}
  /\ signalled \in BOOLEAN
  /\ drain \in 0 .. ShutdownTimeout

\* No handler loses its stores: when main closes them, each one has made its
\* last call and has at most its response still to write, although Shutdown
\* may have given up waiting for it.
StoresOutliveHandlers ==
  open # {"postgres", "redis"} => \A h \in Handlers : pc[h] \in {"idle", "write"}

\* Only a failure to start or to listen ends in log.Fatalf, which skips the
\* deferred calls; a signal alone never does once the server listens.
SignalEndsCleanly == main = "fatal" => listener \in {"off", "failed"}

\* Every request comes to an end, even if Postgres, Redis and the client fall
\* silent.
RequestsEnd == \A h \in Handlers : pc[h] # "idle" ~> (pc[h] = "idle" \/ Ended)

\* A signal ends the process, whatever clients and stores do.
SignalStops == signalled ~> Ended
=============================================================================
