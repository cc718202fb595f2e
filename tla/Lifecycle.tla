----------------------------- MODULE Lifecycle -----------------------------
(***************************************************************************)
(* Start, signals and shutdown of cmd/doevoe/main.go: the HTTP server, its *)
(* shutdown goroutine, the background loops (worker.Run, notifier.Run,     *)
(* recheckDNSLoop) and the store they all use, which main closes last.     *)
(***************************************************************************)
EXTENDS Integers

CONSTANTS
  Loops,    \* the background goroutines main waits for
  Handlers  \* requests that may be served at the same time

LifecycleAssumption == Loops \cap Handlers = {}

VARIABLES
  ctx,      \* canceled or not
  server,   \* the http.Server
  draining, \* the goroutine that calls srv.Shutdown
  main,     \* where main is
  store,    \* open or closed
  loop,     \* each background loop
  handler,  \* each request handler
  late      \* history: who called the store after it was closed

vars == <<ctx, server, draining, main, store, loop, handler, late>>

TypeOK ==
  /\ ctx \in {"live", "canceled"}
  /\ server \in {"serving", "failed", "closing"}
  /\ draining \in {"waiting", "draining", "done"}
  /\ main \in {"serving", "waiting", "closing", "exiting", "exited"}
  /\ store \in {"open", "closed"}
  /\ loop \in [Loops -> {"select", "working", "ended"}]
  /\ handler \in [Handlers -> {"none", "serving", "answered", "cut"}]
  /\ late \in SUBSET (Loops \cup Handlers)

Init ==
  /\ ctx = "live" /\ server = "serving" /\ draining = "waiting"
  /\ main = "serving" /\ store = "open"
  /\ loop = [l \in Loops |-> "select"]
  /\ handler = [h \in Handlers |-> "none"]
  /\ late = {}

Alive == main # "exited"
CallsStore(p) == late' = IF store = "closed" THEN late \cup {p} ELSE late

-----------------------------------------------------------------------------
(* Background loops.                                                        *)

\* select takes a tick even when the context is canceled as well.
LoopTicks(l) ==
  /\ Alive /\ loop[l] = "select"
  /\ loop' = [loop EXCEPT ![l] = "working"]
  /\ UNCHANGED <<ctx, server, draining, main, store, handler, late>>

LoopWorks(l) ==
  /\ Alive /\ loop[l] = "working"
  /\ CallsStore(l)
  /\ loop' = [loop EXCEPT ![l] = "select"]
  /\ UNCHANGED <<ctx, server, draining, main, store, handler>>

LoopEnds(l) ==
  /\ Alive /\ loop[l] = "select" /\ ctx = "canceled"
  /\ loop' = [loop EXCEPT ![l] = "ended"]
  /\ UNCHANGED <<ctx, server, draining, main, store, handler, late>>

-----------------------------------------------------------------------------
(* The HTTP server.                                                         *)

RequestArrives(h) ==
  /\ Alive /\ server = "serving" /\ handler[h] \in {"none", "answered"}
  /\ handler' = [handler EXCEPT ![h] = "serving"]
  /\ UNCHANGED <<ctx, server, draining, main, store, loop, late>>

\* A handler calls the store, several times at will, and answers.
HandlerWorks(h) ==
  /\ Alive /\ handler[h] = "serving"
  /\ CallsStore(h)
  /\ UNCHANGED <<ctx, server, draining, main, store, loop, handler>>

HandlerAnswers(h) ==
  /\ Alive /\ handler[h] = "serving"
  /\ handler' = [handler EXCEPT ![h] = "answered"]
  /\ UNCHANGED <<ctx, server, draining, main, store, loop, late>>

\* ListenAndServe fails by itself, at its start (the port is taken) or later.
ListenFails ==
  /\ Alive /\ server = "serving" /\ main = "serving"
  /\ server' = "failed"
  /\ UNCHANGED <<ctx, draining, main, store, loop, handler, late>>

Signal ==
  /\ Alive /\ ctx' = "canceled" /\ ctx = "live"
  /\ UNCHANGED <<server, draining, main, store, loop, handler, late>>

\* srv.Shutdown closes the listeners at once, which makes ListenAndServe
\* return, and then waits for the handlers, ten seconds at most.
ShutdownStarts ==
  /\ Alive /\ draining = "waiting" /\ ctx = "canceled"
  /\ draining' = "draining" /\ server' = "closing"
  /\ UNCHANGED <<ctx, main, store, loop, handler, late>>

ShutdownEnds ==
  /\ Alive /\ draining = "draining"
  /\ draining' = "done"
  /\ UNCHANGED <<ctx, server, main, store, loop, handler, late>>

-----------------------------------------------------------------------------
(* main.                                                                    *)

\* ListenAndServe returns: stop() on either path, then wg.Wait().
ServeReturnsNoStop ==
  /\ main = "serving" /\ server # "serving"
  /\ main' = "waiting"
  /\ UNCHANGED <<ctx, server, draining, store, loop, handler, late>>
ServeReturns ==
  /\ main = "serving" /\ server # "serving"
  /\ main' = "waiting" /\ ctx' = "canceled"
  /\ UNCHANGED <<server, draining, store, loop, handler, late>>

WaitedForOne == \E l \in Loops : loop[l] = "ended"
Waited == \A l \in Loops : loop[l] = "ended"
WaitReturns ==
  /\ main = "waiting" /\ Waited
  /\ main' = "closing"
  /\ UNCHANGED <<ctx, server, draining, store, loop, handler, late>>

CloseStore ==
  /\ main = "closing" /\ main' = "exiting" /\ store' = "closed"
  /\ UNCHANGED <<ctx, server, draining, loop, handler, late>>

\* main returns, or os.Exit(1): every goroutine that is left is gone.
Exit ==
  /\ main = "exiting" /\ main' = "exited"
  /\ handler' = [h \in Handlers |-> IF handler[h] = "serving" THEN "cut" ELSE handler[h]]
  /\ UNCHANGED <<ctx, server, draining, store, loop, late>>

Main == ServeReturns \/ WaitReturns \/ CloseStore \/ Exit

Next ==
  \/ \E l \in Loops : LoopTicks(l) \/ LoopWorks(l) \/ LoopEnds(l)
  \/ \E h \in Handlers : RequestArrives(h) \/ HandlerWorks(h) \/ HandlerAnswers(h)
  \/ ListenFails \/ Signal \/ ShutdownStarts \/ ShutdownEnds
  \/ Main

Spec == Init /\ [][Next]_vars

-----------------------------------------------------------------------------
(* Properties.                                                              *)

\* The background loops end, with whatever they were doing, before the store
\* is closed: none of them calls a closed store.
LoopsEndBeforeClose == late \cap Loops = {} /\ (store = "closed" => Waited)

\* main.go: "Wait for background loops ... before main returns, so nothing races
\* store.Close".
NothingRacesClose == late = {}

\* A signal, or a server that cannot listen, ends the process, whatever the
\* handlers do.
StopsInTheEnd == (ctx = "canceled" \/ server = "failed") ~> main = "exited"
=============================================================================
