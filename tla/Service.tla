------------------------------ MODULE Service ------------------------------
(***************************************************************************)
(* The way of a message through the service, and the process around it: the*)
(* program starts (Startup), answers requests (Api), builds and signs what *)
(* it queued (Message), sends it over an SMTP connection (Sender,          *)
(* ConnDeadline), and stops (Lifecycle).  The queue between them is        *)
(* Delivery.  The parts meet in it and in outcomes only: a handler refuses *)
(* a body it calls invalid, a try fails to build, an operation of a        *)
(* connection fails.  Each of them has these outcomes as its own choices,  *)
(* so a behaviour follows one part while the others stand still.           *)
(***************************************************************************)
EXTENDS Integers

CONSTANTS
  Keys, Domains, DomainOf, Idems, NoIdem, Requests, MaxSends, MaxFaults,  \* Api
  CustomNames, MaxCustoms,                                                \* Message
  Hosts, Self, Pref, MaxMXAttempts,                                       \* Sender
  MaxOps,                                                                 \* ConnDeadline
  Loops, Handlers                                                         \* Lifecycle

VARIABLES
  part,     \* what this behaviour follows
  start, tables, columns, step,
  live, verified, emails, req, answers, faults,
  row, message,
  dns, phase, route, host, err, result, open, contacts, refused, accepted, excused,
  connCtx, deadline, watcher, stopped, client, timed, ops,
  ctx, server, draining, main, store, loop, handler, late

startVars == <<start, tables, columns, step>>
apiVars == <<live, verified, emails, req, answers, faults>>
messageVars == <<row, message>>
sendVars == <<dns, phase, route, host, err, result, open, contacts, refused, accepted, excused>>
connVars == <<connCtx, deadline, watcher, stopped, client, timed, ops>>
lifeVars == <<ctx, server, draining, main, store, loop, handler, late>>
vars == <<part, startVars, apiVars, messageVars, sendVars, connVars, lifeVars>>

Started == INSTANCE Startup WITH phase <- start
Api == INSTANCE Api
Content == INSTANCE Message
Send == INSTANCE Sender
Conn == INSTANCE ConnDeadline WITH ctx <- connCtx
Life == INSTANCE Lifecycle

ASSUME ServiceAssumption ==
  /\ Api!ApiAssumption /\ Content!MessageAssumption
  /\ Send!SenderAssumption /\ Conn!ConnAssumption /\ Life!LifecycleAssumption

Parts == {"start", "api", "message", "send", "conn", "life"}

\* The parts a behaviour does not follow stay at one of their initial states.
Init ==
  /\ part \in Parts
  /\ part # "start" => tables = {}
  /\ part # "api" =>
       /\ verified = {}
       /\ req = [r \in Requests |-> [content |-> CHOOSE c \in Api!Content : TRUE,
                                     phase |-> "idle", sends |-> 0, late |-> FALSE]]
  /\ part # "send" => dns = [exists |-> FALSE, mx |-> {}, dangling |-> {}]
  /\ Started!Init /\ Api!Init /\ Content!Init /\ Send!Init /\ Conn!Init /\ Life!Init

OnStart(A) ==
  /\ part = "start" /\ A
  /\ UNCHANGED <<part, apiVars, messageVars, sendVars, connVars, lifeVars>>
OnApi(A) ==
  /\ part = "api" /\ A
  /\ UNCHANGED <<part, startVars, messageVars, sendVars, connVars, lifeVars>>
OnMessage(A) ==
  /\ part = "message" /\ A
  /\ UNCHANGED <<part, startVars, apiVars, sendVars, connVars, lifeVars>>
OnSend(A) ==
  /\ part = "send" /\ A
  /\ UNCHANGED <<part, startVars, apiVars, messageVars, connVars, lifeVars>>
OnConn(A) ==
  /\ part = "conn" /\ A
  /\ UNCHANGED <<part, startVars, apiVars, messageVars, sendVars, lifeVars>>
OnLife(A) ==
  /\ part = "life" /\ A
  /\ UNCHANGED <<part, startVars, apiVars, messageVars, sendVars, connVars>>

Next ==
  \/ OnStart(Started!Next) \/ OnApi(Api!Next) \/ OnMessage(Content!Next)
  \/ OnSend(Send!Next) \/ OnConn(Conn!Next) \/ OnLife(Life!Next)

\* A Send goes on as long as the calls of its dialogue end, which is what their
\* deadlines are for.  At a connection goroutines run and clocks advance; the
\* peer owes nothing.  In the process goroutines are scheduled, a tick ends, and
\* select, which picks at random among the cases that are ready, does not pass
\* ctx.Done() over for ever (strong fairness: LoopEnds is disabled during a
\* tick).  Nothing makes a client send, a port fail or an operator stop the
\* program, nor a handler answer.
Spec ==
  /\ Init /\ [][Next]_vars
  /\ WF_vars(OnSend(Send!Next))
  /\ WF_vars(OnConn(Conn!Watcher)) /\ WF_vars(OnConn(Conn!Client))
  /\ WF_vars(OnConn(Conn!CommandTimeout))
  /\ \A l \in Loops : WF_vars(OnLife(Life!LoopWorks(l))) /\ SF_vars(OnLife(Life!LoopEnds(l)))
  /\ WF_vars(OnLife(Life!ShutdownStarts)) /\ WF_vars(OnLife(Life!Main))

-----------------------------------------------------------------------------
(* Properties, stated and explained in the modules of the parts.            *)

\* A program that serves has its whole schema, wherever earlier starts broke.
SchemaComplete == Started!SchemaComplete

\* One key and Idempotency-Key never put two emails in the queue.
OneEmailPerIdempotencyKey == Api!OneEmailPerIdempotencyKey
\* A success names the client's own email, and no revoked key gets one.
RepliesNameTheEmail == Api!RepliesNameTheEmail
\* The loser of a race for an Idempotency-Key gets no 500.
RaceIsNoError == Api!RaceIsNoError

\* What gets into the queue can be built, but for two kinds of line breaks.
AcceptedIsBuildable == Content!AcceptedIsBuildable
\* Each header that is signed is there once, if custom names are field names.
SignedHeadersOnce == Content!SignedHeadersOnce

\* No host is tried before a better one, nor in place of it.
BestHostsFirst == Send!BestHostsFirst
\* Success and failure of a Send say where copies of the message are.
CopiesAreKnown == Send!CopiesAreKnown
\* A refusal ends its host, and a 5xx the Send; no fallback to plaintext.
RefusalIsRespected == Send!RefusalIsRespected
\* Every connection a Send dials is closed before it goes on.
ConnectionsAreClosed == Send!ConnectionsAreClosed
\* Every Send returns.
SendReturns == part = "send" => Send!SendReturns

\* No watcher outlives its connection, nor leaves an operation blocked.
WatcherEnds == Conn!WatcherEnds

\* The loops end before the store is closed.
LoopsEndBeforeClose == Life!LoopsEndBeforeClose
\* A signal, or a server that cannot listen, ends the process.
StopsInTheEnd == part = "life" => Life!StopsInTheEnd
=============================================================================
