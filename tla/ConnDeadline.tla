---------------------------- MODULE ConnDeadline ----------------------------
(***************************************************************************)
(* ctxBoundConn of internal/delivery/sender.go: a watcher goroutine forces *)
(* the connection's deadline into the past when the context of Send ends,  *)
(* while the SMTP client sets and resets the deadline around each of its   *)
(* commands.  The client is external: go-smtp, as the comment above        *)
(* ctxBoundConn describes it.                                              *)
(***************************************************************************)
EXTENDS Integers

CONSTANT MaxOps  \* bound: commands and writes of one dialogue
ConnAssumption == MaxOps \in Nat

VARIABLES
  ctx,      \* live or done: OverallTimeout elapsed, or SIGTERM
  deadline, \* of the net.Conn
  watcher,  \* the goroutine of newCtxBoundConn
  stopped,  \* the channel done is closed
  client,   \* what the SMTP client is doing
  timed,    \* the operation sets and resets a deadline: a command, not a Write
  ops       \* operations so far

vars == <<ctx, deadline, watcher, stopped, client, timed, ops>>

TypeOK ==
  /\ ctx \in {"live", "done"}
  /\ deadline \in {"none", "future", "past"}
  /\ watcher \in {"watching", "firing", "ended"}
  /\ stopped \in BOOLEAN
  /\ client \in {"between", "io", "returned", "failed", "closed"}
  /\ timed \in BOOLEAN
  /\ ops \in 0..MaxOps

\* The connection has been dialed and wrapped.
Init ==
  /\ ctx = "live" /\ deadline = "none" /\ watcher = "watching" /\ stopped = FALSE
  /\ client = "between" /\ timed = FALSE /\ ops = 0

ContextEnds ==
  /\ ctx = "live" /\ ctx' = "done"
  /\ UNCHANGED <<deadline, watcher, stopped, client, timed, ops>>

-----------------------------------------------------------------------------
(* The watcher.  If both cases of its select are ready either may be taken. *)

WatcherWakes ==
  /\ watcher = "watching" /\ ctx = "done"
  /\ watcher' = "firing"
  /\ UNCHANGED <<ctx, deadline, stopped, client, timed, ops>>

WatcherSeesStop ==
  /\ watcher = "watching" /\ stopped
  /\ watcher' = "ended"
  /\ UNCHANGED <<ctx, deadline, stopped, client, timed, ops>>

\* conn.SetDeadline(time.Now()); an operation in flight fails at once.
WatcherFires ==
  /\ watcher = "firing" /\ watcher' = "ended"
  /\ deadline' = "past"
  /\ UNCHANGED <<ctx, stopped, client, timed, ops>>

-----------------------------------------------------------------------------
(* The client.                                                              *)

\* A command starts with SetDeadline(now + CommandTimeout).
Command ==
  /\ client = "between" /\ ops < MaxOps
  /\ client' = "io" /\ timed' = TRUE /\ deadline' = "future"
  /\ ops' = ops + 1
  /\ UNCHANGED <<ctx, watcher, stopped>>

\* Writing the message, between DATA and the final dot, sets none.
WriteBody ==
  /\ client = "between" /\ ops < MaxOps
  /\ client' = "io" /\ timed' = FALSE
  /\ ops' = ops + 1
  /\ UNCHANGED <<ctx, deadline, watcher, stopped>>

\* The peer reads or answers; it may as well never do.
PeerMoves ==
  /\ client = "io" /\ deadline # "past"
  /\ client' = "returned"
  /\ UNCHANGED <<ctx, deadline, watcher, stopped, timed, ops>>

CommandTimeout ==
  /\ deadline = "future" /\ client = "io"
  /\ deadline' = "past"
  /\ UNCHANGED <<ctx, watcher, stopped, client, timed, ops>>

IOFails ==
  /\ client = "io" /\ deadline = "past"
  /\ client' = "failed"
  /\ UNCHANGED <<ctx, deadline, watcher, stopped, timed, ops>>

\* A command ends with SetDeadline(time.Time{}).
OperationReturns ==
  /\ client = "returned"
  /\ client' = "between"
  /\ deadline' = IF timed THEN "none" ELSE deadline
  /\ UNCHANGED <<ctx, watcher, stopped, timed, ops>>

\* Close: after an error, or at the end of the dialogue.
CloseUnstopped ==
  /\ client \in {"failed", "between"}
  /\ client' = "closed"
  /\ UNCHANGED <<ctx, deadline, watcher, stopped, timed, ops>>
CloseConn ==
  /\ client \in {"failed", "between"}
  /\ client' = "closed"
  /\ stopped' = TRUE
  /\ UNCHANGED <<ctx, deadline, watcher, timed, ops>>

Watcher == WatcherWakes \/ WatcherSeesStop \/ WatcherFires
Client == IOFails \/ OperationReturns \/ CloseConn
Next ==
  \/ ContextEnds \/ Watcher
  \/ Command \/ WriteBody \/ PeerMoves \/ CommandTimeout
  \/ IOFails \/ OperationReturns \/ CloseConn

Spec == Init /\ [][Next]_vars

-----------------------------------------------------------------------------
(* Properties.                                                              *)

\* No watcher outlives its connection, though Send, whose context it waits for,
\* may go on with other hosts.  And while it watches, an operation that is blocked
\* when the context ends comes to its end, though the peer owes nothing: also the
\* writing of the message, which has no deadline of its own.  (Once it has fired,
\* the next command sets a deadline again and later clears it, so an operation
\* after that one is bounded by its own timeout, or not at all.)
WatcherEnds ==
  /\ client = "closed" ~> watcher = "ended"
  /\ ctx = "done" /\ watcher # "ended" /\ client = "io" ~> client # "io"
=============================================================================
