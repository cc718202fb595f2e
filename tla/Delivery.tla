------------------------------ MODULE Delivery ------------------------------
(***************************************************************************)
(* The delivery engine: Worker.Run, Tick and process of                    *)
(* internal/delivery/worker.go on top of the emails table, with the other  *)
(* writers of that table (the API, the admin pages), restarts, and store   *)
(* calls that fail.                                                        *)
(*                                                                         *)
(* Every SQL statement is one step: database/sql is limited to a single    *)
(* connection, so statements never overlap, but anything may run between   *)
(* two of them.  A Send is one goroutine per claimed email, described by   *)
(* job[p][e].                                                              *)
(***************************************************************************)
EXTENDS EmailStore, Sequences, FiniteSets

CONSTANTS
  Emails,          \* ids that may be inserted
  Procs,           \* processes that run a worker on the database
  RcptDomain,      \* recipient domain of an address, in lower case
  Schedule,        \* delivery.Schedule: the wait after each attempt
  StaleWindow,     \* staleSendingWindow
  OverallTimeout,  \* Sender.OverallTimeout: when the context of a Send ends
  SendCap,         \* the longest a Send is taken to run (a condition, see MayWait)
  StoreLag,        \* the longest the store calls after a Send may take
  BatchSize,       \* Worker.BatchSize
  PerDomainLimit,  \* Worker.PerDomainLimit
  MaxAge,          \* bound: ages saturate here
  MaxRequeues,     \* bound: admin retries and cancels
  MaxStops,        \* bound: SIGTERMs
  MaxFaults        \* bound: crashes, failed store calls, lost SMTP replies

ASSUME DeliveryAssumption ==
  /\ RcptDomain \in [Addrs -> Addrs]
  /\ Schedule \in Seq(Nat)
  /\ StaleWindow \in Nat /\ OverallTimeout \in Nat /\ SendCap \in Nat /\ StoreLag \in Nat
  /\ BatchSize \in Nat \ {0} /\ PerDomainLimit \in Nat \ {0}
  /\ MaxAge \in Nat /\ MaxRequeues \in Nat /\ MaxStops \in Nat /\ MaxFaults \in Nat
  /\ StaleWindow <= MaxAge
  /\ \A k \in 1..Len(Schedule) : Schedule[k] <= MaxAge

VARIABLES
  email,     \* the emails table
  log,       \* number of delivery_attempts rows of an email
  pending,   \* notify_pending_failures
  proc,      \* process: "up", "stopping" (its context is canceled), "down"
  tick,      \* Tick of a process: its phase, and how long ago its `now' was read
  job,       \* goroutine of a process for an email
  accepted,  \* history: how often a recipient MX took the message
  cuts,      \* history: Sends whose context ended after the MX took the message
  late,      \* history: emails that waited for a slot past the headroom of the window
  requeues, stops, faults   \* what was used of the bounds

vars == <<email, log, pending, proc, tick, job, accepted, cuts, late, requeues, stops, faults>>

\* attempts and to are the columns as ClaimDue returned them; live says that
\* the context was not yet canceled when Send was entered; taken says that an
\* MX accepted the message during this Send.
Job == [phase: {"none", "waiting", "sending", "returned", "recorded", "failed"},
        attempts: Nat, to: Addrs \cup {NoAddr}, elapsed: Nat,
        result: {"ok", "temp", "perm"}, live: BOOLEAN, taken: BOOLEAN]
NoJob == [phase |-> "none", attempts |-> 0, to |-> NoAddr, elapsed |-> 0,
          result |-> "temp", live |-> FALSE, taken |-> FALSE]

TypeOK ==
  /\ email \in [Emails -> Row]
  /\ log \in [Emails -> Nat]
  /\ pending \in SUBSET Emails
  /\ proc \in [Procs -> {"up", "stopping", "down"}]
  /\ tick \in [Procs -> [phase: {"idle", "claim", "deliver"}, age: Nat]]
  /\ job \in [Procs -> [Emails -> Job]]
  /\ accepted \in [Emails -> Nat] /\ cuts \in [Emails -> Nat] /\ late \in SUBSET Emails
  /\ requeues \in Nat /\ stops \in Nat /\ faults \in Nat

Init ==
  /\ email = [e \in Emails |-> NoRow]
  /\ log = [e \in Emails |-> 0]
  /\ pending = {}
  /\ proc = [p \in Procs |-> "up"]
  /\ tick = [p \in Procs |-> [phase |-> "idle", age |-> 0]]
  /\ job = [p \in Procs |-> [e \in Emails |-> NoJob]]
  /\ accepted = [e \in Emails |-> 0] /\ cuts = [e \in Emails |-> 0] /\ late = {}
  /\ requeues = 0 /\ stops = 0 /\ faults = 0

Fault == faults < MaxFaults /\ faults' = faults + 1
NoFault == UNCHANGED faults
Running == \E p \in Procs : proc[p] # "down"

\* The goroutine works on a row it claimed and has not settled yet.
Holding(p, e) == job[p][e].phase \in {"waiting", "sending", "returned", "recorded"}
\* The goroutine is past the semaphore.
UsesSlot(p, e) == job[p][e].phase \in {"sending", "returned", "recorded", "failed"}

-----------------------------------------------------------------------------
(* The API and the notifier insert; the admin pages cancel and requeue.     *)

Enqueue(e, to) ==
  /\ Running
  /\ email[e].status = "none"
  /\ email' = [email EXCEPT ![e] = Enqueued(to)]
  /\ UNCHANGED <<log, pending, proc, tick, job, accepted, cuts, late, requeues, stops, faults>>

CancelEmail(e) ==
  /\ Running
  /\ requeues < MaxRequeues
  /\ Cancelable(email[e])
  /\ email' = [email EXCEPT ![e] = Canceled(email[e])]
  /\ requeues' = requeues + 1
  /\ UNCHANGED <<log, pending, proc, tick, job, accepted, cuts, late, stops, faults>>

RequeueEmail(e, newTo) ==
  /\ Running
  /\ requeues < MaxRequeues
  /\ Requeueable(email[e])
  /\ email' = [email EXCEPT ![e] = Requeued(email[e], newTo)]
  /\ requeues' = requeues + 1
  /\ UNCHANGED <<log, pending, proc, tick, job, accepted, cuts, late, stops, faults>>

-----------------------------------------------------------------------------
(* Worker.Tick                                                              *)

RequeueStaleSendingSkipped == UNCHANGED email
RequeueStaleSending ==
  email' = [e \in Emails |-> IF IsStale(email[e], StaleWindow)
                             THEN Released(email[e]) ELSE email[e]]

\* Run's select picks a ready case at random, so a tick that is due may still
\* be chosen after the context was canceled; it never waits for one then (see
\* TimePasses).  An error of RequeueStaleSending is logged and the tick goes on.
BeginTick(p) ==
  /\ proc[p] # "down"
  /\ tick[p].phase = "idle"
  /\ tick' = [tick EXCEPT ![p] = [phase |-> "claim", age |-> 0]]
  /\ \/ RequeueStaleSending /\ NoFault
     \/ UNCHANGED email /\ Fault
  /\ UNCHANGED <<log, pending, proc, job, accepted, cuts, late, requeues, stops>>

Due == {e \in Emails : IsDue(email[e])}

\* The rows of one ClaimDue: the BatchSize rows that have been due the longest.
Batches ==
  {S \in SUBSET Due :
     /\ Cardinality(S) <= BatchSize
     /\ S # Due => Cardinality(S) = BatchSize
     /\ \A e \in S, f \in Due \ S : email[e].due <= email[f].due}

Claim(S) == email' = [e \in Emails |-> IF e \in S THEN Claimed(email[e]) ELSE email[e]]

ClaimDue(p) ==
  /\ tick[p].phase = "claim"
  /\ \E S \in Batches :
       /\ Claim(S)
       /\ job' = [job EXCEPT ![p] = [e \in Emails |->
            IF e \in S THEN [NoJob EXCEPT !.phase = "waiting",
                                          !.attempts = email[e].attempts,
                                          !.to = email[e].to]
                       ELSE NoJob]]
  /\ tick' = [tick EXCEPT ![p].phase = "deliver"]
  /\ UNCHANGED <<log, pending, proc, accepted, cuts, late, requeues, stops, faults>>

\* ClaimDue returns an error and the tick ends: the UPDATE did not run, or it
\* ran and reading its RETURNING rows failed, which leaves them claimed.
ClaimFails(p) ==
  /\ tick[p].phase = "claim"
  /\ Fault
  /\ \E S \in Batches \cup {{}} : Claim(S)
  /\ tick' = [tick EXCEPT ![p] = [phase |-> "idle", age |-> 0]]
  /\ UNCHANGED <<log, pending, proc, job, accepted, cuts, late, requeues, stops>>

\* wg.Wait returns when every goroutine of the batch is done.
EndTick(p) ==
  /\ tick[p].phase = "deliver"
  /\ \A e \in Emails : job[p][e].phase = "none"
  /\ tick' = [tick EXCEPT ![p] = [phase |-> "idle", age |-> 0]]
  /\ UNCHANGED <<email, log, pending, proc, job, accepted, cuts, late, requeues, stops, faults>>

-----------------------------------------------------------------------------
(* The goroutine of one email: the semaphore of its recipient domain, then  *)
(* Worker.process.                                                          *)

SlotFree(p, e) ==
  Cardinality({f \in Emails : /\ UsesSlot(p, f)
                              /\ RcptDomain[job[p][f].to] = RcptDomain[job[p][e].to]})
    < PerDomainLimit

SetJob(p, e, j) == job' = [job EXCEPT ![p][e] = j]

\* A goroutine calls Send with the context of the process, not of its tick.
Acquire(p, e) ==
  /\ job[p][e].phase = "waiting"
  /\ SlotFree(p, e)
  /\ SetJob(p, e, [job[p][e] EXCEPT !.phase = "sending", !.live = (proc[p] = "up")])
  /\ UNCHANGED <<email, log, pending, proc, tick, accepted, cuts, late, requeues, stops, faults>>

\* An MX answers the end of DATA with 250.  A second acceptance within one Send
\* means that the reply to the first was lost on the way.
Accept(p, e) ==
  /\ job[p][e].phase = "sending" /\ job[p][e].live
  /\ IF job[p][e].taken THEN Fault ELSE NoFault
  /\ SetJob(p, e, [job[p][e] EXCEPT !.taken = TRUE])
  /\ accepted' = [accepted EXCEPT ![e] = @ + 1]
  /\ UNCHANGED <<email, log, pending, proc, tick, cuts, late, requeues, stops>>

\* SIGTERM and OverallTimeout end the context of a Send.  The watcher of its
\* connection then fails the read of a reply that is still to come.
ContextEnded(p, e) == proc[p] = "stopping" \/ job[p][e].elapsed >= OverallTimeout

\* Send returns, panics, or the domain could not be loaded; the last two count
\* as a temporary error.  It succeeds only after an acceptance, and fails after
\* one only when its context ended or an SMTP reply is lost or bad.  A Send
\* entered with a canceled context gets no further than the MX lookup, which
\* fails.
SendReturns(p, e, result) ==
  /\ job[p][e].phase = "sending"
  /\ result = "ok" => job[p][e].taken
  /\ result = "perm" => job[p][e].live
  /\ \/ /\ result = "ok" \/ ~job[p][e].taken
        /\ UNCHANGED cuts /\ NoFault
     \/ /\ result = "temp" /\ job[p][e].taken /\ ContextEnded(p, e)
        /\ cuts' = [cuts EXCEPT ![e] = @ + 1] /\ NoFault
     \/ /\ result # "ok" /\ job[p][e].taken
        /\ UNCHANGED cuts /\ Fault
  /\ SetJob(p, e, [job[p][e] EXCEPT !.phase = "returned", !.result = result])
  /\ UNCHANGED <<email, log, pending, proc, tick, accepted, late, requeues, stops>>

RecordAttempt(p, e) ==
  /\ job[p][e].phase = "returned"
  /\ SetJob(p, e, [job[p][e] EXCEPT !.phase = "recorded"])
  /\ \/ log' = [log EXCEPT ![e] = @ + 1] /\ NoFault
     \/ UNCHANGED log /\ Fault
  /\ UNCHANGED <<email, pending, proc, tick, accepted, cuts, late, requeues, stops>>

\* NextAttempt: attempts includes the one that just failed.
RetriesLeftFewer(attempts) == attempts \in 1..Len(Schedule) - 1
RetriesLeft(attempts) == attempts \in 1..Len(Schedule)

\* The statement that ends a job writes row r, or fails and is only logged.
Write(e, r) ==
  \/ email' = [email EXCEPT ![e] = r] /\ NoFault
  \/ UNCHANGED email /\ Fault

MarkSent(p, e) ==
  /\ job[p][e].phase = "recorded" /\ job[p][e].result = "ok"
  /\ Write(e, Sent(email[e]))
  /\ SetJob(p, e, NoJob)
  /\ UNCHANGED <<log, pending, proc, tick, accepted, cuts, late, requeues, stops>>

\* The next attempt is scheduled from the `now' of the tick.
MarkRetry(p, e) ==
  /\ job[p][e].phase = "recorded" /\ job[p][e].result = "temp"
  /\ RetriesLeft(job[p][e].attempts + 1)
  /\ Write(e, Retried(email[e], Schedule[job[p][e].attempts + 1] - tick[p].age))
  /\ SetJob(p, e, NoJob)
  /\ UNCHANGED <<log, pending, proc, tick, accepted, cuts, late, requeues, stops>>

\* The hook OnPermanentFailure is called whether or not MarkFailed worked.
MarkFailed(p, e) ==
  /\ job[p][e].phase = "recorded"
  /\ \/ job[p][e].result = "perm"
     \/ job[p][e].result = "temp" /\ ~RetriesLeft(job[p][e].attempts + 1)
  /\ Write(e, Failed(email[e]))
  /\ SetJob(p, e, [job[p][e] EXCEPT !.phase = "failed"])
  /\ UNCHANGED <<log, pending, proc, tick, accepted, cuts, late, requeues, stops>>

\* Notifier.PermanentFailure; its store calls may fail, which is not reported.
OnPermanentFailureSkipped(p, e) ==
  /\ job[p][e].phase = "failed"
  /\ UNCHANGED pending /\ NoFault
  /\ SetJob(p, e, NoJob)
  /\ UNCHANGED <<email, log, proc, tick, accepted, cuts, late, requeues, stops>>
OnPermanentFailure(p, e) ==
  /\ job[p][e].phase = "failed"
  /\ \/ pending' = pending \cup {e} /\ NoFault
     \/ UNCHANGED pending /\ Fault
  /\ SetJob(p, e, NoJob)
  /\ UNCHANGED <<email, log, proc, tick, accepted, cuts, late, requeues, stops>>

-----------------------------------------------------------------------------
(* Processes: SIGTERM cancels the context, and main waits for the worker    *)
(* before it exits; a crash takes every goroutine with it.                  *)

Sigterm(p) ==
  /\ proc[p] = "up" /\ stops < MaxStops
  /\ proc' = [proc EXCEPT ![p] = "stopping"]
  /\ stops' = stops + 1
  /\ UNCHANGED <<email, log, pending, tick, job, accepted, cuts, late, requeues, faults>>

Exit(p) ==
  /\ proc[p] = "stopping" /\ tick[p].phase = "idle"
  /\ proc' = [proc EXCEPT ![p] = "down"]
  /\ UNCHANGED <<email, log, pending, tick, job, accepted, cuts, late, requeues, stops, faults>>

Crash(p) ==
  /\ proc[p] # "down" /\ Fault
  /\ proc' = [proc EXCEPT ![p] = "down"]
  /\ tick' = [tick EXCEPT ![p] = [phase |-> "idle", age |-> 0]]
  /\ job' = [job EXCEPT ![p] = [e \in Emails |-> NoJob]]
  /\ UNCHANGED <<email, log, pending, accepted, cuts, late, requeues, stops>>

Start(p) ==
  /\ proc[p] = "down"
  /\ proc' = [proc EXCEPT ![p] = "up"]
  /\ UNCHANGED <<email, log, pending, tick, job, accepted, cuts, late, requeues, stops, faults>>

-----------------------------------------------------------------------------
(* Time.  That a Send with a live context ends within SendCap is a          *)
(* condition: OverallTimeout is meant to enforce it, and ConnDeadline shows *)
(* how a dialogue may outlive it.  A Send whose context was canceled before *)
(* takes no time.  The store calls that follow a Send take at most          *)
(* StoreLag; the two statements that open a tick, a free semaphore and the  *)
(* end of a tick take none, nor does Run's select once the context is       *)
(* canceled.                                                                *)

Longest(p, e) == IF job[p][e].live THEN SendCap ELSE 0

MayWait(p, e) ==
  CASE job[p][e].phase = "none"    -> TRUE
    [] job[p][e].phase = "waiting" -> ~SlotFree(p, e)
    [] job[p][e].phase = "sending" -> job[p][e].elapsed < Longest(p, e)
    [] OTHER                       -> job[p][e].elapsed < Longest(p, e) + StoreLag

\* A process that may stay as it is while time passes.
Rests(p) ==
  /\ tick[p].phase # "claim"
  /\ tick[p].phase = "deliver" => \E e \in Emails : job[p][e].phase # "none"
  /\ proc[p] = "stopping" => tick[p].phase # "idle"
  /\ \A e \in Emails : MayWait(p, e)

\* A goroutine waits for its slot still, although a Send and its store calls no
\* longer fit into what is left of the stale window of its row.  Another
\* process may then take the row for stale while this one delivers it.
WaitsTooLong(p, e) ==
  /\ job[p][e].phase = "waiting"
  /\ StaleWindow <= SendCap + StoreLag + 1 - email[e].due

\* next_attempt_at matters while an email is queued or sending only.
Later(r) == IF r.status \in {"queued", "sending"} /\ r.due > -MaxAge
            THEN [r EXCEPT !.due = @ - 1] ELSE r
Older(j) == IF j.phase \in {"sending", "returned", "recorded", "failed"}
            THEN [j EXCEPT !.elapsed = @ + 1] ELSE j
OlderTick(t) == IF t.phase = "deliver" /\ t.age < MaxAge
                THEN [t EXCEPT !.age = @ + 1] ELSE t

TimePasses ==
  /\ \A p \in Procs : Rests(p)
  /\ email' = [e \in Emails |-> Later(email[e])]
  /\ job' = [p \in Procs |-> [e \in Emails |-> Older(job[p][e])]]
  /\ tick' = [p \in Procs |-> OlderTick(tick[p])]
  /\ late' = late \cup {e \in Emails : \E p, q \in Procs : p # q /\ WaitsTooLong(p, e)}
  /\ UNCHANGED <<log, pending, proc, accepted, cuts, requeues, stops, faults>>

-----------------------------------------------------------------------------
Ticking(p) == BeginTick(p) \/ ClaimDue(p) \/ ClaimFails(p) \/ EndTick(p)

Processing(p, e) ==
  \/ Acquire(p, e) \/ Accept(p, e)
  \/ \E result \in {"ok", "temp", "perm"} : SendReturns(p, e, result)
  \/ RecordAttempt(p, e)
  \/ MarkSent(p, e) \/ MarkRetry(p, e) \/ MarkFailed(p, e)
  \/ OnPermanentFailure(p, e)

Lifecycle(p) == Sigterm(p) \/ Exit(p) \/ Crash(p) \/ Start(p)

Requests(e) ==
  \/ CancelEmail(e)
  \/ \E to \in Addrs : Enqueue(e, to)
  \/ \E newTo \in Addrs \cup {NoAddr} : RequeueEmail(e, newTo)

Next ==
  \/ \E e \in Emails : Requests(e)
  \/ \E p \in Procs : Ticking(p) \/ Lifecycle(p)
  \/ \E p \in Procs, e \in Emails : Processing(p, e)
  \/ TimePasses

Spec == Init /\ [][Next]_vars

\* The Go scheduler runs every goroutine, the ticker fires, the orchestrator
\* restarts the container (restart: unless-stopped) and the clock goes on.
\* Time is strongly fair because it stands still at the opening of each tick,
\* and Exit because the select of Run picks a ready case at random: it may
\* take the ticker many times, but not forever.
Fairness ==
  /\ \A p \in Procs : WF_vars(Ticking(p)) /\ WF_vars(Start(p)) /\ SF_vars(Exit(p))
  /\ \A p \in Procs, e \in Emails : WF_vars(Processing(p, e))
  /\ SF_vars(TimePasses)

FairSpec == Spec /\ Fairness
-----------------------------------------------------------------------------
(* Properties.                                                              *)

\* No other worker can take the row of e for stale while it is delivered: there
\* is no other worker, or a Send and its store calls fit into the stale window
\* and no goroutine ever waited so long for its slot that they no longer did.
SingleProcess == \A p, q \in Procs : p = q
SendsAreShort == SendCap + StoreLag < StaleWindow
Timely(e) == SingleProcess \/ (SendsAreShort /\ e \notin late)

\* MarkSent, MarkRetry and MarkFailed write without a guard, and process works
\* on the copy of the row that ClaimDue returned: both are right only as long
\* as the row of every running goroutine stays "sending" and stays what it was
\* when it was claimed, whatever the admin pages do meanwhile.
Ownership ==
  \A p \in Procs, e \in Emails : Timely(e) /\ Holding(p, e) =>
    /\ email[e].status = "sending"
    /\ email[e].attempts = job[p][e].attempts
    /\ email[e].to = job[p][e].to

\* Two processes never deliver the same email at the same time: the stale
\* window of RequeueStaleSending outlasts every delivery it may race with.
NoConcurrentDelivery ==
  \A e \in Emails, p, q \in Procs : Holding(p, e) /\ Holding(q, e) => p = q

\* What the stale window really guarantees: two processes deliver the same
\* email at once only if a goroutine of it waited for its slot beyond the
\* headroom that the window leaves above a Send.
OnlyLateEmailsOverlap ==
  \A e \in Emails, p, q \in Procs :
    Timely(e) /\ Holding(p, e) /\ Holding(q, e) => p = q

\* A recipient gets a message twice only for a cause: each extra copy is paid
\* for by a crash, a failed store call, a lost SMTP reply, or a Send whose
\* context ended (by SIGTERM or by OverallTimeout) between the acceptance and
\* the reply to it.  Retries, cancels, requeues and releases alone never
\* duplicate a message.
CopiesHaveCauses ==
  \A e \in Emails : Timely(e) => accepted[e] <= 1 + faults + cuts[e]

\* A temporary failure is retried as long as Schedule has entries, and no sooner
\* after the claim than Schedule says, whoever releases and claims the row in
\* between; an email is given up only by a goroutine that holds it, on a
\* permanent error or with the schedule used up, and by a process that was not
\* told to stop only on an attempt begun with a live context.  The wait counts
\* from the claim: a Send of half an hour uses up as much of it, and the next
\* try may be due at once.
RetryIsDue(e) ==
  /\ email'[e].attempts \in DOMAIN Schedule
  /\ email'[e].due >= Schedule[email'[e].attempts] + email[e].due
MayGiveUp(p, e) ==
  /\ Holding(p, e)
  /\ job[p][e].result = "perm" \/ email[e].attempts >= Len(Schedule)
  /\ job[p][e].live \/ proc[p] = "stopping"
ScheduleIsKept ==
  [][\A e \in Emails : Timely(e) /\ email[e].status = "sending" =>
       /\ email'[e].status = "queued" /\ email'[e].attempts # email[e].attempts
          => RetryIsDue(e)
       /\ email'[e].status = "failed" => \E p \in Procs : MayGiveUp(p, e)]_vars

\* Every email that failed for good is on the list of the next digest, or its
\* goroutine is about to put it there, unless a crash or a store error hit.
FailuresAreReported ==
  faults = 0 => \A e \in Emails : email[e].status = "failed" =>
    e \in pending \/ \E p \in Procs : job[p][e].phase = "failed"

\* Nothing moves a sent email: neither a late verdict of another goroutine nor
\* a requeue nor the release of stale rows.
SentIsFinal ==
  [][\A e \in Emails : Timely(e) /\ email[e].status = "sent" => email'[e] = email[e]]_vars

\* The address an email was first meant for can always be told from its row,
\* however often it was re-addressed (even back to where it started).
FirstAddress(r) == IF r.originalTo = NoAddr THEN r.to ELSE r.originalTo
FirstAddressKept ==
  [][\A e \in Emails : email[e].status # "none" =>
       FirstAddress(email'[e]) = FirstAddress(email[e])]_vars

\* Every email comes to rest: it is delivered, given up or canceled, through
\* retries, crashes in the middle of a delivery and failing store calls.
EveryEmailSettles ==
  \A e \in Emails : email[e].status \in {"queued", "sending"} ~>
                    email[e].status \in {"sent", "failed", "canceled"}

\* What LeaseQueue promises of the table: a claimed email moves only by the
\* verdict of its holder, or, once nobody holds it, back to the queue.
Lease == INSTANCE LeaseQueue
           WITH status <- [e \in Emails |-> email[e].status],
                held <- [e \in Emails |-> \E p \in Procs : Holding(p, e)]
ImplementsLease == Lease!Spec

\* Design, section 2: a redeploy loses nothing.  An email is given up only on
\* a delivery that was really tried.
RedeployLosesNothing ==
  [][\A e \in Emails :
       email[e].status = "sending" /\ email'[e].status = "failed"
       => \E p \in Procs : Holding(p, e) /\ job[p][e].live]_vars
=============================================================================
