--------------------------- MODULE DeliveryProofs ---------------------------
(* Theorems about Delivery, for every set of emails, schedule and bounds.   *)
EXTENDS Delivery, TLAPS

Address == Addrs \cup {NoAddr}
Phase == {"none", "waiting", "sending", "returned", "recorded", "failed"}

\* The SQL statements of the emails table keep a row a row.  The first steps
\* replace one field; the others chain them, which is how the provers follow
\* an EXCEPT of several fields.
LEMMA RowsStayRows ==
  ASSUME NEW r \in Row
  PROVE  /\ Claimed(r) \in Row /\ Released(r) \in Row
         /\ Sent(r) \in Row /\ Failed(r) \in Row /\ Canceled(r) \in Row
         /\ \A wait \in Int : Retried(r, wait) \in Row
         /\ \A newTo \in Address : Requeued(r, newTo) \in Row
         /\ Later(r) \in Row
<1>1. \A q \in Row, s \in Status : [q EXCEPT !.status = s] \in Row
  BY DEF Row
<1>2. \A q \in Row, n \in Nat : [q EXCEPT !.attempts = n] \in Row
  BY DEF Row
<1>3. \A q \in Row, d \in Int : [q EXCEPT !.due = d] \in Row
  BY DEF Row
<1>3a. \A q \in Row : [q EXCEPT !.due = 0] \in Row
  BY DEF Row
<1>4. \A q \in Row, a \in Address : [q EXCEPT !.to = a] \in Row /\ [q EXCEPT !.originalTo = a] \in Row
  BY DEF Row, Address
<1>5. r.attempts + 1 \in Nat /\ r.due - 1 \in Int /\ r.to \in Address /\ r.originalTo \in Address
  BY DEF Row, Address
<1>6. /\ [r EXCEPT !.status = "sending"] \in Row /\ [r EXCEPT !.status = "sent"] \in Row
      /\ [r EXCEPT !.status = "failed"] \in Row /\ [r EXCEPT !.status = "queued"] \in Row
      /\ [r EXCEPT !.status = "canceled"] \in Row
  BY <1>1 DEF Status
<1>7. Claimed(r) \in Row /\ Released(r) \in Row /\ Canceled(r) \in Row
  BY <1>3a, <1>6 DEF Claimed, Released, Canceled
<1>8. Sent(r) \in Row /\ Failed(r) \in Row
  BY <1>2, <1>5, <1>6 DEF Sent, Failed
<1>9. ASSUME NEW wait \in Int PROVE Retried(r, wait) \in Row
  <2>1. [r EXCEPT !.status = "queued", !.attempts = @ + 1] \in Row
    BY <1>2, <1>5, <1>6
  <2> QED BY <1>3, <2>1 DEF Retried
<1>10. ASSUME NEW newTo \in Address PROVE Requeued(r, newTo) \in Row
  <2> DEFINE to == IF newTo = NoAddr THEN r.to ELSE newTo
             from == IF r.originalTo = NoAddr /\ newTo \notin {NoAddr, r.to}
                     THEN r.to ELSE r.originalTo
  <2>1. [r EXCEPT !.status = "queued", !.attempts = 0] \in Row
    BY <1>2, <1>6
  <2>2. [r EXCEPT !.status = "queued", !.attempts = 0, !.due = 0] \in Row
    BY <1>3a, <2>1
  <2>3. to \in Address /\ from \in Address
    BY <1>5
  <2> HIDE DEF to, from
  <2>4. [r EXCEPT !.status = "queued", !.attempts = 0, !.due = 0, !.to = to] \in Row
    BY <1>4, <2>2, <2>3
  <2>5. [r EXCEPT !.status = "queued", !.attempts = 0, !.due = 0, !.to = to,
                  !.originalTo = from] \in Row
    BY <1>4, <2>3, <2>4
  <2> QED BY <2>5 DEF Requeued, to, from
<1>11. Later(r) \in Row
  BY <1>3, <1>5 DEF Later
<1> QED BY <1>7, <1>8, <1>9, <1>10, <1>11

LEMMA NoJobIsJob == NoJob \in Job
BY DEF NoJob, Job

\* The jobs that the steps of a goroutine write are jobs.
LEMMA JobsStayJobs ==
  ASSUME NEW j \in Job
  PROVE  /\ \A b \in BOOLEAN : [j EXCEPT !.phase = "sending", !.live = b] \in Job
         /\ \A result \in {"ok", "temp", "perm"} :
              [j EXCEPT !.phase = "returned", !.result = result] \in Job
         /\ [j EXCEPT !.taken = TRUE] \in Job
         /\ [j EXCEPT !.phase = "recorded"] \in Job
         /\ [j EXCEPT !.phase = "failed"] \in Job
         /\ Older(j) \in Job
<1>1. \A i \in Job, ph \in Phase : [i EXCEPT !.phase = ph] \in Job
  BY DEF Job, Phase
<1>2. \A i \in Job, b \in BOOLEAN : [i EXCEPT !.live = b] \in Job /\ [i EXCEPT !.taken = b] \in Job
  BY DEF Job
<1>3. \A i \in Job, result \in {"ok", "temp", "perm"} : [i EXCEPT !.result = result] \in Job
  BY DEF Job
<1>4. /\ [j EXCEPT !.phase = "sending"] \in Job /\ [j EXCEPT !.phase = "returned"] \in Job
      /\ [j EXCEPT !.phase = "recorded"] \in Job /\ [j EXCEPT !.phase = "failed"] \in Job
  BY <1>1 DEF Phase
<1>5. Older(j) \in Job
  BY DEF Job, Older
<1> QED BY <1>2, <1>3, <1>4, <1>5

\* ClaimDue gives a goroutine the row as it is.
LEMMA ClaimedJob ==
  ASSUME NEW r \in Row
  PROVE  LET j == [NoJob EXCEPT !.phase = "waiting", !.attempts = r.attempts, !.to = r.to] IN
         /\ j \in Job
         /\ j.phase = "waiting" /\ j.attempts = r.attempts /\ j.to = r.to /\ j.taken = FALSE
<1>1. [NoJob EXCEPT !.phase = "waiting"] \in Job
  BY NoJobIsJob DEF Job
<1>2. \A i \in Job, n \in Nat : [i EXCEPT !.attempts = n] \in Job
  BY DEF Job
<1>3. \A i \in Job, a \in Address : [i EXCEPT !.to = a] \in Job
  BY DEF Job, Address
<1>4. r.attempts \in Nat /\ r.to \in Address
  BY DEF Row, Address
<1>5. [NoJob EXCEPT !.phase = "waiting", !.attempts = r.attempts] \in Job
  BY <1>1, <1>2, <1>4
<1>6. [NoJob EXCEPT !.phase = "waiting", !.attempts = r.attempts, !.to = r.to] \in Job
  BY <1>3, <1>4, <1>5
<1> QED BY <1>6 DEF NoJob

\* Type correctness, first step.
LEMMA TypeInit == Init => TypeOK
BY NoJobIsJob DEF Init, TypeOK, NoRow, Row, Status

LEMMA SetJobKeepsType ==
  ASSUME job \in [Procs -> [Emails -> Job]], NEW p \in Procs, NEW e \in Emails,
         NEW j \in Job, SetJob(p, e, j)
  PROVE  job' \in [Procs -> [Emails -> Job]]
BY DEF SetJob

LEMMA TypeStep == TypeOK /\ [Next]_vars => TypeOK'
<1> SUFFICES ASSUME TypeOK, [Next]_vars PROVE TypeOK'
  OBVIOUS
<1> USE DEF TypeOK
<1>1. ASSUME NEW e \in Emails, Requests(e) PROVE TypeOK'
  <2>1. ASSUME NEW to \in Addrs, Enqueue(e, to) PROVE TypeOK'
    <3>1. Enqueued(to) \in Row
      BY DEF Enqueued, Row, Status
    <3> QED BY <2>1, <3>1 DEF Enqueue
  <2>2. CASE CancelEmail(e)
    <3>1. Canceled(email[e]) \in Row
      BY RowsStayRows
    <3> QED BY <2>2, <3>1 DEF CancelEmail
  <2>3. ASSUME NEW newTo \in Address, RequeueEmail(e, newTo) PROVE TypeOK'
    <3>1. Requeued(email[e], newTo) \in Row
      BY RowsStayRows
    <3> QED BY <2>3, <3>1 DEF RequeueEmail
  <2> QED BY <1>1, <2>1, <2>2, <2>3 DEF Requests, Address
<1>2. ASSUME NEW p \in Procs, Ticking(p) PROVE TypeOK'
  <2>1. \A e \in Emails : Claimed(email[e]) \in Row /\ Released(email[e]) \in Row
    BY RowsStayRows
  <2>2. CASE BeginTick(p)
    BY <2>1, <2>2 DEF BeginTick, RequeueStaleSending, Fault, NoFault
  <2>3. CASE ClaimDue(p)
    <3> DEFINE Claims(e) == [NoJob EXCEPT !.phase = "waiting", !.attempts = email[e].attempts,
                                          !.to = email[e].to]
    <3>1. \A e \in Emails : Claims(e) \in Job /\ NoJob \in Job
      BY ClaimedJob, NoJobIsJob
    <3>2. PICK S \in Batches :
             /\ Claim(S)
             /\ job' = [job EXCEPT ![p] = [e \in Emails |-> IF e \in S THEN Claims(e) ELSE NoJob]]
      BY <2>3 DEF ClaimDue
    <3> HIDE DEF Claims
    <3>3. job' \in [Procs -> [Emails -> Job]]
      BY <3>1, <3>2
    <3>4. email' \in [Emails -> Row]
      BY <2>1, <3>2 DEF Claim
    <3> QED BY <2>3, <3>3, <3>4 DEF ClaimDue
  <2>4. CASE ClaimFails(p)
    BY <2>1, <2>4 DEF ClaimFails, Claim, Fault
  <2>5. CASE EndTick(p)
    BY <2>5 DEF EndTick
  <2> QED BY <1>2, <2>2, <2>3, <2>4, <2>5 DEF Ticking
<1>3. ASSUME NEW p \in Procs, NEW e \in Emails, Processing(p, e) PROVE TypeOK'
  <2> DEFINE j == job[p][e]
  <2>1. /\ j \in Job /\ NoJob \in Job /\ email[e] \in Row
        /\ Sent(email[e]) \in Row /\ Failed(email[e]) \in Row
    BY RowsStayRows, NoJobIsJob
  <2>2. CASE Acquire(p, e)
    <3>1. [j EXCEPT !.phase = "sending", !.live = (proc[p] = "up")] \in Job
      BY <2>1, JobsStayJobs
    <3> QED BY <2>2, <3>1, SetJobKeepsType DEF Acquire
  <2>3. CASE Accept(p, e)
    <3>1. [j EXCEPT !.taken = TRUE] \in Job
      BY <2>1, JobsStayJobs
    <3> QED BY <2>3, <3>1, SetJobKeepsType DEF Accept, Fault, NoFault
  <2>4. ASSUME NEW result \in {"ok", "temp", "perm"}, SendReturns(p, e, result)
        PROVE  TypeOK'
    <3>1. [j EXCEPT !.phase = "returned", !.result = result] \in Job
      BY <2>1, JobsStayJobs
    <3>2. job' \in [Procs -> [Emails -> Job]]
      BY <2>4, <3>1, SetJobKeepsType DEF SendReturns
    <3>3. cuts' \in [Emails -> Nat] /\ faults' \in Nat
      BY <2>4 DEF SendReturns, Fault, NoFault
    <3> QED BY <2>4, <3>2, <3>3 DEF SendReturns
  <2>5. CASE RecordAttempt(p, e)
    <3>1. [j EXCEPT !.phase = "recorded"] \in Job
      BY <2>1, JobsStayJobs
    <3> QED BY <2>5, <3>1, SetJobKeepsType DEF RecordAttempt, Fault, NoFault
  <2>6. CASE MarkSent(p, e)
    <3>1. job' \in [Procs -> [Emails -> Job]]
      BY <2>1, <2>6, SetJobKeepsType DEF MarkSent
    <3>2. email' \in [Emails -> Row] /\ faults' \in Nat
      BY <2>1, <2>6 DEF MarkSent, Write, Fault, NoFault
    <3> QED BY <2>6, <3>1, <3>2 DEF MarkSent
  <2>7. CASE MarkRetry(p, e)
    <3> DEFINE wait == Schedule[j.attempts + 1] - tick[p].age
    <3>1. wait \in Int
      BY <2>7, DeliveryAssumption DEF MarkRetry, RetriesLeft
    <3>2. Retried(email[e], wait) \in Row
      BY <3>1, RowsStayRows
    <3>3. SetJob(p, e, NoJob) /\ Write(e, Retried(email[e], wait))
      BY <2>7 DEF MarkRetry
    <3> HIDE DEF wait
    <3>4. job' \in [Procs -> [Emails -> Job]]
      BY <2>1, <3>3, SetJobKeepsType
    <3>5. email' \in [Emails -> Row] /\ faults' \in Nat
      BY <3>2, <3>3 DEF Write, Fault, NoFault
    <3> QED BY <2>7, <3>4, <3>5 DEF MarkRetry
  <2>8. CASE MarkFailed(p, e)
    <3>1. [j EXCEPT !.phase = "failed"] \in Job
      BY <2>1, JobsStayJobs
    <3>2. job' \in [Procs -> [Emails -> Job]]
      BY <2>8, <3>1, SetJobKeepsType DEF MarkFailed
    <3>3. email' \in [Emails -> Row] /\ faults' \in Nat
      BY <2>1, <2>8 DEF MarkFailed, Write, Fault, NoFault
    <3> QED BY <2>8, <3>2, <3>3 DEF MarkFailed
  <2>9. CASE OnPermanentFailure(p, e)
    BY <2>1, <2>9, SetJobKeepsType DEF OnPermanentFailure, Fault, NoFault
  <2> QED BY <1>3, <2>2, <2>3, <2>4, <2>5, <2>6, <2>7, <2>8, <2>9 DEF Processing
<1>4. ASSUME NEW p \in Procs, Lifecycle(p) PROVE TypeOK'
  <2>1. CASE Sigterm(p)
    BY <2>1 DEF Sigterm
  <2>2. CASE Exit(p)
    BY <2>2 DEF Exit
  <2>3. CASE Crash(p)
    BY <2>3, NoJobIsJob DEF Crash, Fault
  <2>4. CASE Start(p)
    BY <2>4 DEF Start
  <2> QED BY <1>4, <2>1, <2>2, <2>3, <2>4 DEF Lifecycle
<1>5. CASE TimePasses
  <2>1. \A e \in Emails : Later(email[e]) \in Row
    BY RowsStayRows
  <2>2. \A p \in Procs, e \in Emails : Older(job[p][e]) \in Job
    BY JobsStayJobs
  <2>3. \A p \in Procs : OlderTick(tick[p]) \in [phase: {"idle", "claim", "deliver"}, age: Nat]
    BY DEF OlderTick
  <2> QED BY <1>5, <2>1, <2>2, <2>3 DEF TimePasses
<1>6. CASE UNCHANGED vars
  BY <1>6 DEF vars
<1> QED BY <1>1, <1>2, <1>3, <1>4, <1>5, <1>6 DEF Next

\* The state of the engine is always well formed: Worker.Tick, process, the
\* admin pages and restarts never write a row, job or tick outside its type.
THEOREM TypeCorrect == Spec => []TypeOK
BY TypeInit, TypeStep, PTL DEF Spec

-----------------------------------------------------------------------------
(* Ownership.                                                               *)

\* Tick waits for its goroutines, so none is left outside of "deliver".
IdleTicks ==
  \A p \in Procs : tick[p].phase # "deliver" => \A e \in Emails : job[p][e].phase = "none"

\* The time that a Send and its store calls may still take ends within the
\* stale window of the row.
Young(p, e) ==
  /\ job[p][e].elapsed <= SendCap + StoreLag
  /\ SendCap + StoreLag - job[p][e].elapsed - email[e].due < StaleWindow

\* What a goroutine has of a row it holds: the row as it was claimed, no other
\* holder, and, where there is another process, time enough.
Owns(p, e) ==
  /\ email[e].status = "sending"
  /\ email[e].attempts = job[p][e].attempts
  /\ email[e].to = job[p][e].to
  /\ \A q \in Procs : Holding(q, e) => q = p
  /\ SingleProcess \/ Young(p, e)

OwnInv ==
  /\ TypeOK /\ IdleTicks
  /\ \A p \in Procs, e \in Emails : Timely(e) /\ Holding(p, e) => Owns(p, e)

LEMMA OwnImplies == OwnInv => Ownership /\ OnlyLateEmailsOverlap
BY DEF OwnInv, Owns, Ownership, OnlyLateEmailsOverlap

\* What each statement and each step of a goroutine leaves as it was.
LEMMA RowEffects ==
  ASSUME NEW r \in Row
  PROVE  /\ Claimed(r).status = "sending" /\ Claimed(r).attempts = r.attempts
         /\ Claimed(r).to = r.to
         /\ Later(r).status = r.status /\ Later(r).attempts = r.attempts /\ Later(r).to = r.to
         /\ Sent(r).status = "sent"
BY DEF Row, Claimed, Later, Sent

LEMMA JobEffects ==
  ASSUME NEW j \in Job
  PROVE  /\ \A b \in BOOLEAN : LET i == [j EXCEPT !.phase = "sending", !.live = b] IN
              i.phase = "sending" /\ i.attempts = j.attempts /\ i.to = j.to /\ i.taken = j.taken
         /\ \A result \in {"ok", "temp", "perm"} :
              LET i == [j EXCEPT !.phase = "returned", !.result = result] IN
              i.phase = "returned" /\ i.attempts = j.attempts /\ i.to = j.to
                /\ i.taken = j.taken /\ i.result = result
         /\ LET i == [j EXCEPT !.taken = TRUE] IN
              i.phase = j.phase /\ i.attempts = j.attempts /\ i.to = j.to /\ i.taken = TRUE
                /\ i.result = j.result
         /\ LET i == [j EXCEPT !.phase = "recorded"] IN
              i.phase = "recorded" /\ i.attempts = j.attempts /\ i.to = j.to
                /\ i.taken = j.taken /\ i.result = j.result
         /\ LET i == [j EXCEPT !.phase = "failed"] IN i.phase = "failed"
         /\ Older(j).phase = j.phase /\ Older(j).attempts = j.attempts /\ Older(j).to = j.to
         /\ Older(j).taken = j.taken /\ Older(j).result = j.result
BY DEF Job, Older

LEMMA NoJobPhase == NoJob.phase = "none" /\ NoJob.taken = FALSE
BY DEF NoJob

LEMMA SetJobEffect ==
  ASSUME job \in [Procs -> [Emails -> Job]], NEW p \in Procs, NEW e \in Emails,
         NEW j \in Job, SetJob(p, e, j)
  PROVE  \A q \in Procs, f \in Emails :
           job'[q][f] = IF q = p /\ f = e THEN j ELSE job[q][f]
BY DEF SetJob

\* What a step of a goroutine, and time, do to the clocks of a job and a row.
LEMMA ClockEffects ==
  /\ NoJob.elapsed = 0
  /\ \A r \in Row : /\ Claimed(r).due = 0
                    /\ Later(r).due >= r.due - 1 /\ Later(r).due \in Int /\ r.due \in Int
  /\ \A j \in Job :
       /\ \A b \in BOOLEAN : [j EXCEPT !.phase = "sending", !.live = b].elapsed = j.elapsed
       /\ \A result \in {"ok", "temp", "perm"} :
            [j EXCEPT !.phase = "returned", !.result = result].elapsed = j.elapsed
       /\ [j EXCEPT !.taken = TRUE].elapsed = j.elapsed
       /\ [j EXCEPT !.phase = "recorded"].elapsed = j.elapsed
       /\ j.phase = "waiting" => Older(j).elapsed = j.elapsed
       /\ j.phase \in {"sending", "returned", "recorded"} =>
            Older(j).elapsed = j.elapsed + 1
<1>1. NoJob.elapsed = 0
  BY DEF NoJob
<1>2. \A r \in Row : /\ Claimed(r).due = 0
                    /\ Later(r).due >= r.due - 1 /\ Later(r).due \in Int /\ r.due \in Int
  BY DEF Row, Claimed, Later
<1>3. ASSUME NEW j \in Job
      PROVE  /\ \A b \in BOOLEAN : [j EXCEPT !.phase = "sending", !.live = b].elapsed = j.elapsed
             /\ \A result \in {"ok", "temp", "perm"} :
                  [j EXCEPT !.phase = "returned", !.result = result].elapsed = j.elapsed
             /\ [j EXCEPT !.taken = TRUE].elapsed = j.elapsed
             /\ [j EXCEPT !.phase = "recorded"].elapsed = j.elapsed
  BY DEF Job
<1>4. ASSUME NEW j \in Job
      PROVE  /\ j.phase = "waiting" => Older(j).elapsed = j.elapsed
             /\ j.phase \in {"sending", "returned", "recorded"} =>
                  Older(j).elapsed = j.elapsed + 1
  BY <1>4 DEF Job, Older
<1> QED BY <1>1, <1>2, <1>3, <1>4

\* An email that waited too long once stays late.
LEMMA TimelyBefore ==
  ASSUME [Next]_vars, NEW e \in Emails, Timely(e)' PROVE Timely(e)
<1>1. late \subseteq late'
  <2>1. ASSUME NEW f \in Emails, Requests(f) PROVE UNCHANGED late
    BY <2>1 DEF Requests, Enqueue, CancelEmail, RequeueEmail
  <2>2. ASSUME NEW p \in Procs, Ticking(p) \/ Lifecycle(p) PROVE UNCHANGED late
    BY <2>2 DEF Ticking, BeginTick, ClaimDue, ClaimFails, EndTick,
                Lifecycle, Sigterm, Exit, Crash, Start
  <2>3. ASSUME NEW p \in Procs, NEW f \in Emails, Processing(p, f) PROVE UNCHANGED late
    BY <2>3 DEF Processing, Acquire, Accept, SendReturns, RecordAttempt, MarkSent, MarkRetry,
                MarkFailed, OnPermanentFailure
  <2>4. TimePasses => late \subseteq late'
    BY DEF TimePasses
  <2>5. UNCHANGED vars => UNCHANGED late
    BY DEF vars
  <2> QED BY <2>1, <2>2, <2>3, <2>4, <2>5 DEF Next
<1> QED BY <1>1 DEF Timely, SingleProcess, SendsAreShort

\* No tick finds the row of a running goroutine stale.
LEMMA HeldIsFresh ==
  ASSUME OwnInv, NEW p \in Procs, NEW e \in Emails, Timely(e), Holding(p, e),
         NEW q \in Procs, tick[q].phase = "idle"
  PROVE  ~IsStale(email[e], StaleWindow)
<1>1. CASE SingleProcess
  BY <1>1 DEF SingleProcess, OwnInv, IdleTicks, Holding
<1>2. CASE ~SingleProcess
  <2>1. Young(p, e)
    BY <1>2 DEF OwnInv, Owns
  <2>2. /\ email[e].due \in Int /\ job[p][e].elapsed \in Nat
        /\ SendCap \in Nat /\ StoreLag \in Nat /\ StaleWindow \in Nat
    BY DeliveryAssumption DEF OwnInv, TypeOK, Row, Job
  <2>3. /\ job[p][e].elapsed <= SendCap + StoreLag
        /\ SendCap + StoreLag - job[p][e].elapsed - email[e].due < StaleWindow
    BY <2>1 DEF Young
  <2>4. ~(email[e].due <= -StaleWindow)
    BY <2>2, <2>3
  <2> QED BY <2>4 DEF IsStale
<1> QED BY <1>1, <1>2

\* A step keeps the invariant if every goroutine that goes on held its row
\* before, and both stay as they were.
LEMMA OwnStutter ==
  ASSUME OwnInv, [Next]_vars, TypeOK', IdleTicks',
         \A p \in Procs, e \in Emails : Timely(e) /\ Holding(p, e)' =>
           /\ Holding(p, e) /\ email'[e] = email[e]
           /\ job'[p][e].attempts = job[p][e].attempts
           /\ job'[p][e].to = job[p][e].to
           /\ job'[p][e].elapsed = job[p][e].elapsed
  PROVE  OwnInv'
<1>1. ASSUME NEW p \in Procs, NEW e \in Emails, Timely(e)', Holding(p, e)'
      PROVE  Owns(p, e)'
  <2>1. Timely(e)
    BY <1>1, TimelyBefore
  <2>2. /\ Holding(p, e) /\ email'[e] = email[e]
        /\ job'[p][e].attempts = job[p][e].attempts
        /\ job'[p][e].to = job[p][e].to
        /\ job'[p][e].elapsed = job[p][e].elapsed
    BY <1>1, <2>1
  <2>3. \A q \in Procs : Holding(q, e)' => Holding(q, e)
    BY <2>1
  <2>4. Owns(p, e)
    BY <2>1, <2>2 DEF OwnInv
  <2>5. Young(p, e) => Young(p, e)'
    BY <2>2 DEF Young
  <2> QED BY <2>2, <2>3, <2>4, <2>5 DEF Owns, SingleProcess
<1> QED BY <1>1 DEF OwnInv

\* A step of one goroutine, which goes on with its row or ends.
LEMMA GoroutineStep ==
  ASSUME OwnInv, [Next]_vars, TypeOK', NEW p \in Procs, NEW e \in Emails, NEW j \in Job,
         job[p][e].phase # "none", SetJob(p, e, j), tick' = tick,
         \A f \in Emails : f # e => email'[f] = email[f],
         Holding(p, e) \/ email'[e] = email[e],
         \/ j.phase \in {"none", "failed"}
         \/ /\ Holding(p, e) /\ email'[e] = email[e]
            /\ j.attempts = job[p][e].attempts /\ j.to = job[p][e].to
            /\ j.elapsed = job[p][e].elapsed
  PROVE  OwnInv'
<1>1. \A q \in Procs, f \in Emails : job'[q][f] = IF q = p /\ f = e THEN j ELSE job[q][f]
  BY SetJobEffect DEF OwnInv, TypeOK
<1>2. tick[p].phase = "deliver"
  BY DEF OwnInv, IdleTicks
<1>3. IdleTicks'
  BY <1>1, <1>2 DEF OwnInv, IdleTicks
<1>4. ASSUME NEW q \in Procs, NEW f \in Emails, Timely(f), Holding(q, f)'
      PROVE  /\ Holding(q, f) /\ email'[f] = email[f]
             /\ job'[q][f].attempts = job[q][f].attempts
             /\ job'[q][f].to = job[q][f].to
             /\ job'[q][f].elapsed = job[q][f].elapsed
  <2>1. CASE q = p /\ f = e
    BY <1>1, <1>4, <2>1 DEF Holding
  <2>2. CASE ~(q = p /\ f = e)
    <3>1. job'[q][f] = job[q][f] /\ Holding(q, f)
      BY <1>1, <1>4, <2>2 DEF Holding
    <3>2. email'[f] = email[f]
      BY <1>4, <2>2, <3>1 DEF OwnInv, Owns
    <3> QED BY <3>1, <3>2
  <2> QED BY <2>1, <2>2
<1> QED BY <1>3, <1>4, OwnStutter

LEMMA OwnInit == Init => OwnInv
<1> SUFFICES ASSUME Init PROVE OwnInv
  OBVIOUS
<1>1. \A p \in Procs, e \in Emails : job[p][e].phase = "none"
  BY NoJobPhase DEF Init
<1> QED BY <1>1, TypeInit DEF OwnInv, IdleTicks, Holding

LEMMA OwnStep == OwnInv /\ [Next]_vars => OwnInv'
<1> SUFFICES ASSUME OwnInv, [Next]_vars PROVE OwnInv'
  OBVIOUS
<1>0. /\ email \in [Emails -> Row] /\ job \in [Procs -> [Emails -> Job]]
      /\ tick \in [Procs -> [phase: {"idle", "claim", "deliver"}, age: Nat]]
  BY DEF OwnInv, TypeOK
<1>t. TypeOK'
  BY TypeStep DEF OwnInv
\* What every step that leaves the goroutines alone must keep.
<1>k. ASSUME UNCHANGED job, IdleTicks',
             \A p \in Procs, e \in Emails : Timely(e) /\ Holding(p, e) => email'[e] = email[e]
      PROVE  OwnInv'
  BY <1>t, <1>k, OwnStutter DEF Holding
<1>h. \A p \in Procs, e \in Emails : Timely(e) /\ Holding(p, e) => email[e].status = "sending"
  BY DEF OwnInv, Owns
<1>1. ASSUME NEW e \in Emails, Requests(e) PROVE OwnInv'
  <2>1. /\ UNCHANGED <<tick, job>>
        /\ \A f \in Emails : email[f].status = "sending" => email'[f] = email[f]
    BY <1>0, <1>1 DEF Requests, Enqueue, CancelEmail, RequeueEmail, Cancelable, Requeueable
  <2>2. IdleTicks'
    BY <2>1 DEF OwnInv, IdleTicks
  <2> QED BY <1>h, <1>k, <2>1, <2>2
<1>2. ASSUME NEW p \in Procs, Ticking(p) PROVE OwnInv'
  <2>1. CASE BeginTick(p) \/ ClaimFails(p) \/ EndTick(p)
    <3>1. UNCHANGED job /\ \A e \in Emails : job[p][e].phase = "none"
      BY <2>1 DEF BeginTick, ClaimFails, EndTick, OwnInv, IdleTicks
    <3>2. \A q \in Procs : q # p => tick'[q] = tick[q]
      BY <1>0, <2>1 DEF BeginTick, ClaimFails, EndTick
    <3>3. IdleTicks'
      BY <3>1, <3>2 DEF OwnInv, IdleTicks
    <3>4. ASSUME NEW q \in Procs, NEW e \in Emails, Timely(e), Holding(q, e)
          PROVE  email'[e] = email[e]
      <4>1. email[e].status = "sending"
        BY <1>h, <3>4
      <4>2. BeginTick(p) => ~IsStale(email[e], StaleWindow)
        BY <3>4, HeldIsFresh DEF BeginTick
      <4> QED BY <1>0, <2>1, <4>1, <4>2 DEF BeginTick, ClaimFails, EndTick,
                                            RequeueStaleSending, Claim, Batches, Due, IsDue
    <3> QED BY <1>k, <3>1, <3>3, <3>4
  <2>2. CASE ClaimDue(p)
    <3> DEFINE Claims(e) == [NoJob EXCEPT !.phase = "waiting", !.attempts = email[e].attempts,
                                          !.to = email[e].to]
    <3>1. \A e \in Emails : /\ Claims(e).attempts = email[e].attempts
                            /\ Claims(e).to = email[e].to
      BY <1>0, ClaimedJob
    <3>2. \A e \in Emails : Claims(e).elapsed = 0
      BY DEF NoJob
    <3>3. PICK S \in Batches :
             /\ Claim(S)
             /\ job' = [job EXCEPT ![p] = [e \in Emails |-> IF e \in S THEN Claims(e) ELSE NoJob]]
      BY <2>2 DEF ClaimDue
    <3> HIDE DEF Claims
    <3>4. /\ tick'[p].phase = "deliver" /\ UNCHANGED late
          /\ \A q \in Procs : q # p => tick'[q] = tick[q]
      BY <1>0, <2>2 DEF ClaimDue
    <3>5. /\ \A e \in Emails : job'[p][e] = IF e \in S THEN Claims(e) ELSE NoJob
          /\ \A q \in Procs : q # p => job'[q] = job[q]
      BY <1>0, <3>3
    <3>6. IdleTicks'
      BY <3>4, <3>5 DEF OwnInv, IdleTicks
    <3>7. \A e \in Emails : Holding(p, e)' => e \in S
      BY <3>5, NoJobPhase DEF Holding
    <3>8. \A q \in Procs, e \in Emails : q # p => (Holding(q, e)' <=> Holding(q, e))
      BY <3>5 DEF Holding
    <3>9. \A e \in S : e \in Emails /\ email[e].status = "queued" /\ email'[e] = Claimed(email[e])
      BY <3>3 DEF Claim, Batches, Due, IsDue
    <3>10. ASSUME NEW q \in Procs, NEW e \in Emails, Timely(e), Holding(q, e)
           PROVE  e \notin S /\ email'[e] = email[e]
      BY <1>h, <3>3, <3>9, <3>10 DEF Claim
    <3>11. ASSUME NEW q \in Procs, NEW e \in Emails, Timely(e)', Holding(q, e)'
           PROVE  Owns(q, e)'
      <4>1. Timely(e)
        BY <3>11, TimelyBefore
      <4>2. CASE q = p
        <5>1. /\ email'[e] = Claimed(email[e]) /\ email[e] \in Row
              /\ job'[p][e] = Claims(e)
          BY <1>0, <3>5, <3>7, <3>9, <3>11, <4>2
        <5>2. /\ email'[e].status = "sending"
              /\ email'[e].attempts = job'[q][e].attempts
              /\ email'[e].to = job'[q][e].to
          BY <3>1, <4>2, <5>1, RowEffects
        <5>3. \A r \in Procs : Holding(r, e)' => r = q
          BY <3>7, <3>8, <3>10, <3>11, <4>1, <4>2
        <5>4. email'[e].due = 0 /\ job'[q][e].elapsed = 0
          BY <3>2, <4>2, <5>1, ClockEffects
        <5>5. SingleProcess \/ Young(q, e)'
          <6>1. SingleProcess \/ SendCap + StoreLag < StaleWindow
            BY <4>1 DEF Timely, SendsAreShort
          <6> QED BY <5>4, <6>1, DeliveryAssumption DEF Young
        <5> QED BY <5>2, <5>3, <5>5 DEF Owns, SingleProcess
      <4>3. CASE q # p
        <5>1. Holding(q, e) /\ job'[q][e] = job[q][e]
          BY <3>5, <3>8, <3>11, <4>3
        <5>2. email'[e] = email[e] /\ e \notin S /\ Owns(q, e)
          BY <3>10, <4>1, <5>1 DEF OwnInv
        <5>3. \A r \in Procs : Holding(r, e)' => r = q
          BY <3>7, <3>8, <5>2 DEF Owns
        <5>4. Young(q, e) => Young(q, e)'
          BY <5>1, <5>2 DEF Young
        <5> QED BY <5>1, <5>2, <5>3, <5>4 DEF Owns, SingleProcess
      <4> QED BY <4>2, <4>3
    <3> QED BY <1>t, <3>6, <3>11 DEF OwnInv
  <2> QED BY <1>2, <2>1, <2>2 DEF Ticking
<1>3. ASSUME NEW p \in Procs, NEW e \in Emails, Processing(p, e) PROVE OwnInv'
  <2> DEFINE j == job[p][e]
  <2>1. j \in Job /\ NoJob \in Job
    BY <1>0, NoJobIsJob
  <2>2. CASE Acquire(p, e)
    <3>1. PICK b \in BOOLEAN : b = (proc[p] = "up")
      OBVIOUS
    <3> DEFINE i == [j EXCEPT !.phase = "sending", !.live = b]
    <3>2. i \in Job
      BY <2>1, JobsStayJobs
    <3>3. i.attempts = j.attempts /\ i.to = j.to
      BY <2>1, JobEffects
    <3>4. i.elapsed = j.elapsed
      BY <2>1, ClockEffects
    <3>5. SetJob(p, e, i) /\ j.phase = "waiting" /\ UNCHANGED <<email, tick>>
      BY <2>2, <3>1 DEF Acquire
    <3> HIDE DEF i
    <3> QED BY <1>t, <3>2, <3>3, <3>4, <3>5, GoroutineStep DEF Holding
  <2>3. CASE Accept(p, e)
    <3> DEFINE i == [j EXCEPT !.taken = TRUE]
    <3>1. i \in Job
      BY <2>1, JobsStayJobs
    <3>2. i.attempts = j.attempts /\ i.to = j.to
      BY <2>1, JobEffects
    <3>3. i.elapsed = j.elapsed
      BY <2>1, ClockEffects
    <3>4. SetJob(p, e, i) /\ j.phase = "sending" /\ UNCHANGED <<email, tick>>
      BY <2>3 DEF Accept
    <3> HIDE DEF i
    <3> QED BY <1>t, <3>1, <3>2, <3>3, <3>4, GoroutineStep DEF Holding
  <2>4. ASSUME NEW result \in {"ok", "temp", "perm"}, SendReturns(p, e, result)
        PROVE  OwnInv'
    <3> DEFINE i == [j EXCEPT !.phase = "returned", !.result = result]
    <3>1. i \in Job
      BY <2>1, JobsStayJobs
    <3>2. i.attempts = j.attempts /\ i.to = j.to
      BY <2>1, JobEffects
    <3>3. i.elapsed = j.elapsed
      BY <2>1, ClockEffects
    <3>4. SetJob(p, e, i) /\ j.phase = "sending" /\ UNCHANGED <<email, tick>>
      BY <2>4 DEF SendReturns
    <3> HIDE DEF i
    <3> QED BY <1>t, <3>1, <3>2, <3>3, <3>4, GoroutineStep DEF Holding
  <2>5. CASE RecordAttempt(p, e)
    <3> DEFINE i == [j EXCEPT !.phase = "recorded"]
    <3>1. i \in Job
      BY <2>1, JobsStayJobs
    <3>2. i.attempts = j.attempts /\ i.to = j.to
      BY <2>1, JobEffects
    <3>3. i.elapsed = j.elapsed
      BY <2>1, ClockEffects
    <3>4. SetJob(p, e, i) /\ j.phase = "returned" /\ UNCHANGED <<email, tick>>
      BY <2>5 DEF RecordAttempt
    <3> HIDE DEF i
    <3> QED BY <1>t, <3>1, <3>2, <3>3, <3>4, GoroutineStep DEF Holding
  <2>6. CASE MarkSent(p, e) \/ MarkRetry(p, e)
    <3>1. /\ SetJob(p, e, NoJob) /\ j.phase = "recorded" /\ UNCHANGED tick
          /\ \A f \in Emails : f # e => email'[f] = email[f]
      BY <1>0, <2>6 DEF MarkSent, MarkRetry, Write
    <3>2. Holding(p, e)
      BY <3>1 DEF Holding
    <3> QED BY <1>t, <2>1, <3>1, <3>2, NoJobPhase, GoroutineStep
  <2>7. CASE MarkFailed(p, e)
    <3> DEFINE i == [j EXCEPT !.phase = "failed"]
    <3>1. i \in Job
      BY <2>1, JobsStayJobs
    <3>2. i.phase = "failed"
      BY <2>1, JobEffects
    <3>3. /\ SetJob(p, e, i) /\ j.phase = "recorded" /\ UNCHANGED tick
          /\ \A f \in Emails : f # e => email'[f] = email[f]
      BY <1>0, <2>7 DEF MarkFailed, Write
    <3>4. Holding(p, e)
      BY <3>3 DEF Holding
    <3> HIDE DEF i
    <3> QED BY <1>t, <3>1, <3>2, <3>3, <3>4, GoroutineStep
  <2>8. CASE OnPermanentFailure(p, e)
    <3>1. SetJob(p, e, NoJob) /\ j.phase = "failed" /\ UNCHANGED <<email, tick>>
      BY <2>8 DEF OnPermanentFailure
    <3> QED BY <1>t, <2>1, <3>1, NoJobPhase, GoroutineStep
  <2> QED BY <1>3, <2>2, <2>3, <2>4, <2>5, <2>6, <2>7, <2>8 DEF Processing
<1>4. ASSUME NEW p \in Procs, Lifecycle(p) PROVE OwnInv'
  <2>1. CASE Sigterm(p) \/ Exit(p) \/ Start(p)
    <3>1. UNCHANGED <<email, job, tick>>
      BY <2>1 DEF Sigterm, Exit, Start
    <3>2. IdleTicks'
      BY <3>1 DEF OwnInv, IdleTicks
    <3> QED BY <1>k, <3>1, <3>2
  <2>2. CASE Crash(p)
    <3>1. /\ \A e \in Emails : job'[p][e].phase = "none"
          /\ \A q \in Procs : q # p => job'[q] = job[q] /\ tick'[q] = tick[q]
          /\ UNCHANGED email
      BY <1>0, <2>2, NoJobPhase DEF Crash
    <3>2. IdleTicks'
      BY <3>1 DEF OwnInv, IdleTicks
    <3>3. \A q \in Procs, e \in Emails : Holding(q, e)' => Holding(q, e) /\ job'[q] = job[q]
      BY <3>1 DEF Holding
    <3> QED BY <1>t, <3>1, <3>2, <3>3, OwnStutter
  <2> QED BY <1>4, <2>1, <2>2 DEF Lifecycle
<1>5. CASE TimePasses
  <2>1. \A e \in Emails : /\ email'[e].status = email[e].status
                          /\ email'[e].attempts = email[e].attempts
                          /\ email'[e].to = email[e].to
    BY <1>0, <1>5, RowEffects DEF TimePasses
  <2>2. \A p \in Procs, e \in Emails : /\ job'[p][e].phase = job[p][e].phase
                                       /\ job'[p][e].attempts = job[p][e].attempts
                                       /\ job'[p][e].to = job[p][e].to
    BY <1>0, <1>5, JobEffects DEF TimePasses
  <2>3. \A p \in Procs : tick'[p].phase = tick[p].phase
    BY <1>0, <1>5 DEF TimePasses, OlderTick
  <2>4. IdleTicks'
    BY <2>2, <2>3 DEF OwnInv, IdleTicks
  <2>5. ASSUME ~SingleProcess, NEW p \in Procs, NEW e \in Emails, Holding(p, e),
               Young(p, e), e \notin late'
        PROVE  Young(p, e)'
    <3>1. /\ job[p][e].elapsed \in Nat /\ job[p][e] \in Job
          /\ SendCap \in Nat /\ StoreLag \in Nat /\ StaleWindow \in Nat
      BY <1>0, DeliveryAssumption DEF Job
    <3>2. /\ email'[e].due >= email[e].due - 1
          /\ email'[e].due \in Int /\ email[e].due \in Int
      <4>1. email'[e] = Later(email[e]) /\ email[e] \in Row
        BY <1>0, <1>5 DEF TimePasses
      <4> QED BY <4>1, ClockEffects
    <3>3. job'[p][e] = Older(job[p][e]) /\ MayWait(p, e)
      BY <1>0, <1>5 DEF TimePasses, Rests
    <3>4. CASE job[p][e].phase = "waiting"
      <4>1. PICK q \in Procs : q # p
        BY <2>5 DEF SingleProcess
      <4>2. ~WaitsTooLong(p, e)
        BY <1>5, <2>5, <4>1 DEF TimePasses
      <4>3. ~(StaleWindow <= SendCap + StoreLag + 1 - email[e].due)
        BY <3>4, <4>2 DEF WaitsTooLong
      <4>4. job'[p][e].elapsed = job[p][e].elapsed
        BY <3>1, <3>3, <3>4, ClockEffects
      <4>5. job[p][e].elapsed <= SendCap + StoreLag
        BY <2>5 DEF Young
      <4>6. SendCap + StoreLag - job[p][e].elapsed - email'[e].due < StaleWindow
        BY <3>1, <3>2, <4>3
      <4> QED BY <4>4, <4>5, <4>6 DEF Young
    <3>5. CASE job[p][e].phase # "waiting"
      <4>1. job[p][e].phase \in {"sending", "returned", "recorded"}
        BY <2>5, <3>5 DEF Holding
      <4>2. job[p][e].elapsed < SendCap + StoreLag
        BY <3>1, <3>3, <4>1 DEF MayWait, Longest
      <4>3. job'[p][e].elapsed = job[p][e].elapsed + 1
        BY <3>1, <3>3, <4>1, ClockEffects
      <4>4. SendCap + StoreLag - job[p][e].elapsed - email[e].due < StaleWindow
        BY <2>5 DEF Young
      <4>5. job'[p][e].elapsed <= SendCap + StoreLag
        BY <3>1, <4>2, <4>3
      <4>6. SendCap + StoreLag - job'[p][e].elapsed - email'[e].due < StaleWindow
        BY <3>1, <3>2, <4>3, <4>4
      <4> QED BY <4>5, <4>6 DEF Young
    <3> QED BY <3>4, <3>5
  <2>6. ASSUME NEW p \in Procs, NEW e \in Emails, Timely(e)', Holding(p, e)' PROVE Owns(p, e)'
    <3>1. Timely(e) /\ Holding(p, e)
      BY <2>2, <2>6, TimelyBefore DEF Holding
    <3>2. Owns(p, e)
      BY <3>1 DEF OwnInv
    <3>3. \A q \in Procs : Holding(q, e)' => q = p
      BY <2>2, <3>2 DEF Owns, Holding
    <3>4. SingleProcess \/ Young(p, e)'
      BY <2>5, <2>6, <3>1, <3>2 DEF Owns, Timely, SingleProcess
    <3> QED BY <2>1, <2>2, <3>2, <3>3, <3>4 DEF Owns, SingleProcess
  <2> QED BY <1>t, <2>4, <2>6 DEF OwnInv
<1>6. CASE UNCHANGED vars
  <2>1. UNCHANGED <<email, job, tick>>
    BY <1>6 DEF vars
  <2>2. IdleTicks'
    BY <2>1 DEF OwnInv, IdleTicks
  <2> QED BY <1>k, <2>1, <2>2
<1> QED BY <1>1, <1>2, <1>3, <1>4, <1>5, <1>6 DEF Next

\* However many processes run a worker on the database, two of them deliver the
\* same email at once only if a goroutine of it waited for its slot beyond the
\* headroom of the stale window.  Nothing is assumed of batches and slots.
THEOREM DeliveriesStayApart == Spec => []OnlyLateEmailsOverlap
<1>1. OwnInv /\ [Next]_vars => OwnInv'
  BY OwnStep
<1>2. OwnInv => OnlyLateEmailsOverlap
  BY OwnImplies
<1> QED BY OwnInit, <1>1, <1>2, PTL DEF Spec

-----------------------------------------------------------------------------
(* Sent emails and duplicates.                                              *)

LEMMA SentStep ==
  OwnInv /\ [Next]_vars =>
    \A e \in Emails : Timely(e) /\ email[e].status = "sent" => email'[e] = email[e]
<1> SUFFICES ASSUME OwnInv, [Next]_vars, NEW f \in Emails, Timely(f), email[f].status = "sent"
             PROVE  email'[f] = email[f]
  OBVIOUS
<1>0. email \in [Emails -> Row]
  BY DEF OwnInv, TypeOK
<1>1. ASSUME NEW e \in Emails, Requests(e) PROVE email'[f] = email[f]
  BY <1>0, <1>1 DEF Requests, Enqueue, CancelEmail, RequeueEmail, Cancelable, Requeueable
<1>2. ASSUME NEW p \in Procs, Ticking(p) PROVE email'[f] = email[f]
  <2>1. ASSUME NEW S \in Batches \cup {{}}, Claim(S) PROVE email'[f] = email[f]
    BY <2>1 DEF Claim, Batches, Due, IsDue
  <2> QED BY <1>0, <1>2, <2>1 DEF Ticking, BeginTick, ClaimDue, ClaimFails, EndTick,
                                  RequeueStaleSending, IsStale
<1>3. ASSUME NEW p \in Procs, NEW e \in Emails, Processing(p, e) PROVE email'[f] = email[f]
  <2>1. CASE MarkSent(p, e) \/ MarkRetry(p, e) \/ MarkFailed(p, e)
    <3>1. Holding(p, e)
      BY <2>1 DEF MarkSent, MarkRetry, MarkFailed, Holding
    <3>2. e # f
      BY <3>1 DEF OwnInv, Owns
    <3> QED BY <1>0, <2>1, <3>2 DEF MarkSent, MarkRetry, MarkFailed, Write
  <2> QED BY <1>3, <2>1 DEF Processing, Acquire, Accept, SendReturns, RecordAttempt,
                            OnPermanentFailure
<1>4. ASSUME NEW p \in Procs, Lifecycle(p) PROVE email'[f] = email[f]
  BY <1>4 DEF Lifecycle, Sigterm, Exit, Crash, Start
<1>5. CASE TimePasses
  BY <1>0, <1>5 DEF TimePasses, Later
<1>6. CASE UNCHANGED vars
  BY <1>6 DEF vars
<1> QED BY <1>1, <1>2, <1>3, <1>4, <1>5, <1>6 DEF Next

\* Every worker owns the rows it delivers, from ClaimDue to its verdict, and a
\* sent email stays as it is, however many processes, batches and slots there
\* are, unless an email waited beyond the headroom of the stale window.
THEOREM WorkersOwnTheirRows == Spec => []Ownership /\ SentIsFinal
<1>1. OwnInv /\ [Next]_vars => OwnInv'
  BY OwnStep
<1>2. OwnInv => Ownership
  BY OwnImplies
<1>3. OwnInv /\ [Next]_vars =>
        [\A e \in Emails : Timely(e) /\ email[e].status = "sent" => email'[e] = email[e]]_vars
  BY SentStep
<1> QED BY OwnInit, <1>1, <1>2, <1>3, PTL DEF Spec, SentIsFinal

\* An acceptance is paid for when its goroutine will report it, or its row says
\* so.  Every other acceptance is on the bill of the email: it has cost a fault
\* or the end of a context.
PaidBy(j) ==
  /\ j.phase \in {"waiting", "sending", "returned", "recorded"}
  /\ j.taken
  /\ j.phase \in {"returned", "recorded"} => j.result = "ok"
Paid(e) == email[e].status = "sent" \/ \E p \in Procs : PaidBy(job[p][e])
Bill(e) == faults + cuts[e]
Balanced(e) == accepted[e] <= Bill(e) + 1 /\ (Paid(e) \/ accepted[e] <= Bill(e))

\* Success is reported only after an acceptance, and an acceptance only by a
\* Send that was entered.
Honest(j) ==
  /\ j.phase = "waiting" => ~j.taken
  /\ j.phase \in {"returned", "recorded"} /\ j.result = "ok" => j.taken

DupInv ==
  /\ OwnInv
  /\ \A p \in Procs, e \in Emails : Honest(job[p][e])
  /\ \A e \in Emails : Timely(e) => Balanced(e)

LEMMA BillType ==
  ASSUME TypeOK, NEW e \in Emails PROVE accepted[e] \in Nat /\ Bill(e) \in Nat
BY DEF TypeOK, Bill

\* A step of one goroutine keeps the books if it pays for its own acceptance or
\* puts it on the bill.
LEMMA GoroutinePays ==
  ASSUME DupInv, [Next]_vars, NEW p \in Procs, NEW e \in Emails, NEW j \in Job,
         SetJob(p, e, j), OwnInv', Honest(j), faults' >= faults,
         \A f \in Emails : f # e => email'[f] = email[f] /\ accepted'[f] = accepted[f]
                                    /\ cuts'[f] = cuts[f],
         Timely(e) =>
           /\ accepted'[e] <= Bill(e)' + 1
           /\ \/ accepted'[e] <= Bill(e)' \/ PaidBy(j) \/ email'[e].status = "sent"
              \/ \E q \in Procs : q # p /\ PaidBy(job[q][e])
  PROVE  DupInv'
<1>1. \A q \in Procs, f \in Emails : job'[q][f] = IF q = p /\ f = e THEN j ELSE job[q][f]
  BY SetJobEffect DEF DupInv, OwnInv, TypeOK
<1>2. \A q \in Procs, f \in Emails : Honest(job'[q][f])
  BY <1>1 DEF DupInv
<1>3. TypeOK /\ TypeOK' /\ faults \in Nat /\ faults' \in Nat
  BY DEF DupInv, OwnInv, TypeOK
<1>4. ASSUME NEW f \in Emails, Timely(f)'
      PROVE  Balanced(f)'
  <2>0. Timely(f)
    BY <1>4, TimelyBefore
  <2>1. CASE f = e
    BY <1>1, <2>0, <2>1 DEF Paid, Balanced
  <2>2. CASE f # e
    <3>1. Paid(f)' = Paid(f)
      BY <1>1, <2>2 DEF Paid
    <3>2. accepted'[f] = accepted[f] /\ cuts'[f] = cuts[f]
      BY <2>2
    <3>3. accepted[f] <= Bill(f) + 1 /\ (Paid(f) \/ accepted[f] <= Bill(f))
      BY <2>0 DEF DupInv, Balanced
    <3>4. Bill(f) \in Nat /\ Bill(f)' \in Nat /\ accepted[f] \in Nat /\ cuts[f] \in Nat
      BY <1>3, BillType DEF Bill, TypeOK
    <3>5. Bill(f)' >= Bill(f)
      BY <1>3, <3>2, <3>4 DEF Bill
    <3>6. accepted'[f] <= Bill(f)' + 1 /\ (Paid(f)' \/ accepted'[f] <= Bill(f)')
      BY <3>1, <3>2, <3>3, <3>4, <3>5
    <3> QED BY <3>6 DEF Balanced
  <2> QED BY <2>1, <2>2
<1> QED BY <1>2, <1>4 DEF DupInv

LEMMA DupInit == Init => DupInv
<1> SUFFICES ASSUME Init PROVE DupInv
  OBVIOUS
<1>1. \A p \in Procs, e \in Emails : Honest(job[p][e])
  BY NoJobPhase DEF Init, Honest
<1>2. \A e \in Emails : accepted[e] = 0 /\ Bill(e) = 0
  BY DEF Init, Bill
<1>3. \A e \in Emails : Balanced(e)
  BY <1>2 DEF Balanced
<1> QED BY <1>1, <1>3, OwnInit DEF DupInv

\* A step that is not one of a goroutine keeps the books if it accepts nothing,
\* and either leaves every payment as it is or is itself a fault.
LEMMA OthersPay ==
  ASSUME DupInv, [Next]_vars, OwnInv', UNCHANGED <<accepted, cuts>>, faults' >= faults,
         \A p \in Procs, e \in Emails : Honest(job'[p][e]),
         \/ faults' = faults + 1
         \/ \A e \in Emails : Paid(e)' = Paid(e)
  PROVE  DupInv'
<1>1. TypeOK /\ TypeOK' /\ faults \in Nat /\ faults' \in Nat
  BY DEF DupInv, OwnInv, TypeOK
<1>2. ASSUME NEW f \in Emails, Timely(f)' PROVE Balanced(f)'
  <2>0. Timely(f)
    BY <1>2, TimelyBefore
  <2>1. accepted[f] <= Bill(f) + 1 /\ (Paid(f) \/ accepted[f] <= Bill(f))
    BY <2>0 DEF DupInv, Balanced
  <2>2. accepted[f] \in Nat /\ Bill(f) \in Nat /\ cuts[f] \in Nat
    BY <1>1, BillType DEF TypeOK
  <2>3. /\ Bill(f)' >= Bill(f) /\ Bill(f)' \in Nat
        /\ faults' = faults + 1 => Bill(f)' = Bill(f) + 1
    BY <1>1, <2>2 DEF Bill
  <2>4. accepted'[f] <= Bill(f)' + 1 /\ (Paid(f)' \/ accepted'[f] <= Bill(f)')
    BY <2>1, <2>2, <2>3
  <2> QED BY <2>4 DEF Balanced
<1> QED BY <1>2 DEF DupInv

LEMMA DupStep == DupInv /\ [Next]_vars => DupInv'
<1> SUFFICES ASSUME DupInv, [Next]_vars PROVE DupInv'
  OBVIOUS
<1>0. /\ OwnInv /\ OwnInv' /\ TypeOK
      /\ email \in [Emails -> Row] /\ job \in [Procs -> [Emails -> Job]]
      /\ accepted \in [Emails -> Nat] /\ cuts \in [Emails -> Nat] /\ faults \in Nat
      /\ tick \in [Procs -> [phase: {"idle", "claim", "deliver"}, age: Nat]]
  BY OwnStep DEF DupInv, OwnInv, TypeOK
<1>1. ASSUME NEW e \in Emails, Requests(e) PROVE DupInv'
  <2>1. UNCHANGED <<job, accepted, cuts, faults>>
    BY <1>1 DEF Requests, Enqueue, CancelEmail, RequeueEmail
  <2>2. \A f \in Emails : (email'[f].status = "sent") = (email[f].status = "sent")
    <3>1. CASE CancelEmail(e)
      <4>1. Canceled(email[e]).status = "canceled"
        BY <1>0 DEF Canceled, Row
      <4> QED BY <1>0, <3>1, <4>1 DEF CancelEmail, Cancelable
    <3>2. ASSUME NEW to \in Addrs, Enqueue(e, to)
          PROVE  \A f \in Emails : (email'[f].status = "sent") = (email[f].status = "sent")
      BY <1>0, <3>2 DEF Enqueue, Enqueued
    <3>3. ASSUME NEW newTo \in Address, RequeueEmail(e, newTo)
          PROVE  \A f \in Emails : (email'[f].status = "sent") = (email[f].status = "sent")
      <4>1. Requeued(email[e], newTo).status = "queued"
        BY <1>0 DEF Requeued, Row
      <4> QED BY <1>0, <3>3, <4>1 DEF RequeueEmail, Requeueable
    <3> QED BY <1>1, <3>1, <3>2, <3>3 DEF Requests, Address
  <2>3. \A f \in Emails : Paid(f)' = Paid(f)
    BY <2>1, <2>2 DEF Paid
  <2> QED BY <1>0, <2>1, <2>3, OthersPay DEF DupInv
<1>2. ASSUME NEW p \in Procs, Ticking(p) PROVE DupInv'
  <2>1. \A q \in Procs : q # p => job'[q] = job[q]
    BY <1>0, <1>2 DEF Ticking, BeginTick, ClaimDue, ClaimFails, EndTick
  <2>2. UNCHANGED <<accepted, cuts>> /\ faults' \in {faults, faults + 1}
    BY <1>2 DEF Ticking, BeginTick, ClaimDue, ClaimFails, EndTick, Fault, NoFault
  <2>3. \A e \in Emails : job[p][e].phase = "none"
    BY <1>0, <1>2 DEF Ticking, BeginTick, ClaimDue, ClaimFails, EndTick, OwnInv, IdleTicks
  <2>4. \A e \in Emails : ~PaidBy(job[p][e])
    BY <2>3 DEF PaidBy
  <2>5. ASSUME NEW f \in Emails, NEW S \in Batches \cup {{}}, Claim(S)
        PROVE  (email'[f].status = "sent") = (email[f].status = "sent")
    BY <1>0, <2>5, RowEffects DEF Claim, Batches, Due, IsDue
  <2>6. ASSUME NEW f \in Emails, RequeueStaleSending
        PROVE  (email'[f].status = "sent") = (email[f].status = "sent")
    BY <1>0, <2>6 DEF RequeueStaleSending, IsStale, Released, Row
  <2>7. \A f \in Emails : (email'[f].status = "sent") = (email[f].status = "sent")
    BY <1>2, <2>5, <2>6 DEF Ticking, BeginTick, ClaimDue, ClaimFails, EndTick
  <2>8. \A e \in Emails : \/ job'[p][e].phase = "none"
                          \/ job'[p][e].phase = "waiting" /\ ~job'[p][e].taken
    <3>1. CASE ClaimDue(p)
      <4> DEFINE Claims(e) == [NoJob EXCEPT !.phase = "waiting", !.attempts = email[e].attempts,
                                            !.to = email[e].to]
      <4>1. \A e \in Emails : Claims(e).phase = "waiting" /\ Claims(e).taken = FALSE
        BY <1>0, ClaimedJob
      <4>2. PICK S \in Batches :
              job' = [job EXCEPT ![p] = [e \in Emails |-> IF e \in S THEN Claims(e) ELSE NoJob]]
        BY <3>1 DEF ClaimDue
      <4> HIDE DEF Claims
      <4>3. \A e \in Emails : job'[p][e] = IF e \in S THEN Claims(e) ELSE NoJob
        BY <1>0, <4>2
      <4> QED BY <4>1, <4>3, NoJobPhase
    <3>2. CASE ~ClaimDue(p)
      BY <1>2, <2>3, <3>2 DEF Ticking, BeginTick, ClaimFails, EndTick
    <3> QED BY <3>1, <3>2
  <2>9. \A e \in Emails : Honest(job'[p][e]) /\ ~PaidBy(job'[p][e])
    BY <2>8 DEF Honest, PaidBy
  <2>10. \A q \in Procs, e \in Emails : /\ Honest(job'[q][e])
                                        /\ PaidBy(job'[q][e]) <=> PaidBy(job[q][e])
    BY <2>1, <2>4, <2>9 DEF DupInv
  <2>11. \A f \in Emails : Paid(f)' = Paid(f)
    BY <2>7, <2>10 DEF Paid
  <2> QED BY <1>0, <2>2, <2>10, <2>11, OthersPay
<1>3. ASSUME NEW p \in Procs, NEW e \in Emails, Processing(p, e) PROVE DupInv'
  <2> DEFINE j == job[p][e]
  <2>1. /\ j \in Job /\ NoJob \in Job /\ Honest(j)
        /\ accepted[e] \in Nat /\ cuts[e] \in Nat /\ faults \in Nat /\ Bill(e) \in Nat
        /\ Timely(e) => accepted[e] <= Bill(e) + 1 /\ (Paid(e) \/ accepted[e] <= Bill(e))
    BY <1>0, NoJobIsJob, BillType DEF DupInv, Balanced
  <2>2. Timely(e) /\ Holding(p, e) => (PaidBy(j) \/ accepted[e] <= Bill(e))
    <3>1. Timely(e) /\ Holding(p, e) => email[e].status # "sent"
      BY <1>0 DEF OwnInv, Owns
    <3>2. \A q \in Procs : PaidBy(job[q][e]) => Holding(q, e)
      BY DEF PaidBy, Holding
    <3> QED BY <1>0, <2>1, <3>1, <3>2 DEF Paid, OwnInv, Owns
  <2>3. Honest(NoJob) /\ ~PaidBy(NoJob)
    BY NoJobPhase DEF Honest, PaidBy
  \* What a step puts on the bill of its email.
  <2>b. /\ faults' = faults /\ cuts' = cuts => Bill(e)' = Bill(e)
        /\ faults' = faults + 1 /\ cuts' = cuts => Bill(e)' = Bill(e) + 1
        /\ faults' = faults /\ cuts' = [cuts EXCEPT ![e] = @ + 1] => Bill(e)' = Bill(e) + 1
    BY <1>0, <2>1 DEF Bill
  <2>4. CASE Acquire(p, e)
    <3> DEFINE i == [j EXCEPT !.phase = "sending", !.live = (proc[p] = "up")]
    <3>1. i \in Job
      BY <2>1, JobsStayJobs
    <3>2. i.phase = "sending" /\ i.taken = j.taken
      BY <2>1, JobEffects
    <3> HIDE DEF i
    <3>3. SetJob(p, e, i) /\ j.phase = "waiting" /\ UNCHANGED <<email, accepted, cuts, faults>>
      BY <2>4 DEF Acquire, i
    <3>4. Honest(i) /\ (Timely(e) => accepted[e] <= Bill(e))
      BY <2>1, <2>2, <3>2, <3>3 DEF Honest, Holding, PaidBy
    <3>5. Timely(e) => accepted'[e] <= Bill(e)' /\ accepted'[e] <= Bill(e)' + 1
      BY <2>1, <2>b, <3>3, <3>4
    <3>6. \A f \in Emails : email'[f] = email[f] /\ accepted'[f] = accepted[f] /\ cuts'[f] = cuts[f]
      BY <3>3
    <3>7. faults' >= faults
      BY <2>1, <3>3
    <3> QED BY <1>0, <3>1, <3>3, <3>4, <3>5, <3>6, <3>7, GoroutinePays
  <2>5. CASE Accept(p, e)
    <3> DEFINE i == [j EXCEPT !.taken = TRUE]
    <3>1. i \in Job
      BY <2>1, JobsStayJobs
    <3>2. i.phase = j.phase /\ i.taken = TRUE
      BY <2>1, JobEffects
    <3> HIDE DEF i
    <3>3. SetJob(p, e, i) /\ j.phase = "sending" /\ UNCHANGED <<email, cuts>>
      BY <2>5 DEF Accept, i
    <3>4. Honest(i) /\ PaidBy(i)
      BY <3>2, <3>3 DEF Honest, PaidBy
    <3>5. accepted' = [accepted EXCEPT ![e] = @ + 1] /\ faults' = IF j.taken THEN faults + 1 ELSE faults
      BY <2>5 DEF Accept, Fault, NoFault
    <3>6. Timely(e) /\ ~j.taken => accepted[e] <= Bill(e)
      BY <2>2, <3>3 DEF Holding, PaidBy
    <3>7. Timely(e) => accepted'[e] <= Bill(e)' + 1
      BY <1>0, <2>1, <2>b, <3>3, <3>5, <3>6
    <3>8. \A f \in Emails : f # e => accepted'[f] = accepted[f] /\ cuts'[f] = cuts[f]
      BY <1>0, <3>3, <3>5
    <3>9. faults' >= faults /\ \A f \in Emails : email'[f] = email[f]
      BY <2>1, <3>3, <3>5
    <3> QED BY <1>0, <3>1, <3>3, <3>4, <3>7, <3>8, <3>9, GoroutinePays
  <2>6. ASSUME NEW result \in {"ok", "temp", "perm"}, SendReturns(p, e, result)
        PROVE  DupInv'
    <3> DEFINE i == [j EXCEPT !.phase = "returned", !.result = result]
    <3>1. i \in Job
      BY <2>1, JobsStayJobs
    <3>2. i.phase = "returned" /\ i.taken = j.taken /\ i.result = result
      BY <2>1, JobEffects
    <3> HIDE DEF i
    <3>3. SetJob(p, e, i) /\ j.phase = "sending" /\ UNCHANGED <<email, accepted>>
      BY <2>6 DEF SendReturns, i
    <3>4. /\ result = "ok" => j.taken
          /\ \/ (result = "ok" \/ ~j.taken) /\ cuts' = cuts /\ faults' = faults
             \/ cuts' = [cuts EXCEPT ![e] = @ + 1] /\ faults' = faults
             \/ cuts' = cuts /\ faults' = faults + 1
      BY <2>6 DEF SendReturns, Fault, NoFault
    <3>5. Honest(i)
      BY <3>2, <3>4 DEF Honest
    <3>6. Timely(e) /\ ~j.taken => accepted[e] <= Bill(e)
      BY <2>2, <3>3 DEF Holding, PaidBy
    <3>7. result = "ok" => PaidBy(i)
      BY <3>2, <3>4 DEF PaidBy
    <3>8. Timely(e) => accepted[e] <= Bill(e)' \/ PaidBy(i)
      BY <2>1, <2>b, <3>4, <3>6, <3>7
    <3>9. Timely(e) => accepted[e] <= Bill(e)' + 1
      BY <2>1, <2>b, <3>4
    <3>10. faults' >= faults /\ \A f \in Emails : f # e => cuts'[f] = cuts[f]
      BY <1>0, <3>4
    <3> QED BY <1>0, <3>1, <3>3, <3>5, <3>8, <3>9, <3>10, GoroutinePays
  \* The other steps accept nothing and end no Send.
  <2>p. ASSUME NEW i \in Job, SetJob(p, e, i), Honest(i), UNCHANGED <<accepted, cuts>>,
               faults' \in {faults, faults + 1},
               \A f \in Emails : f # e => email'[f] = email[f],
               Timely(e) => \/ accepted[e] <= Bill(e) \/ PaidBy(i)
                            \/ faults' = faults + 1 \/ email'[e].status = "sent"
                            \/ \E q \in Procs : q # p /\ PaidBy(job[q][e])
        PROVE  DupInv'
    <3>1. \/ faults' = faults /\ Bill(e)' = Bill(e)
          \/ faults' = faults + 1 /\ Bill(e)' = Bill(e) + 1
      BY <2>b, <2>p
    <3>2. faults' >= faults /\ (Timely(e) => accepted'[e] <= Bill(e)' + 1)
      BY <2>1, <2>p, <3>1
    <3>3. Timely(e) => \/ accepted'[e] <= Bill(e)' \/ PaidBy(i) \/ email'[e].status = "sent"
                       \/ \E q \in Procs : q # p /\ PaidBy(job[q][e])
      BY <2>1, <2>p, <3>1
    <3>4. \A f \in Emails : accepted'[f] = accepted[f] /\ cuts'[f] = cuts[f]
      BY <2>p
    <3> QED BY <1>0, <2>p, <3>2, <3>3, <3>4, GoroutinePays
  <2>7. CASE RecordAttempt(p, e)
    <3> DEFINE i == [j EXCEPT !.phase = "recorded"]
    <3>1. i \in Job
      BY <2>1, JobsStayJobs
    <3>2. i.phase = "recorded" /\ i.taken = j.taken /\ i.result = j.result
      BY <2>1, JobEffects
    <3> HIDE DEF i
    <3>3. /\ SetJob(p, e, i) /\ j.phase = "returned" /\ UNCHANGED <<email, accepted, cuts>>
          /\ faults' \in {faults, faults + 1}
      BY <2>7 DEF RecordAttempt, Fault, NoFault, i
    <3>4. Honest(i) /\ PaidBy(i) = PaidBy(j)
      BY <2>1, <3>2, <3>3 DEF Honest, PaidBy
    <3>5. Timely(e) => accepted[e] <= Bill(e) \/ PaidBy(i)
      BY <2>2, <3>3, <3>4 DEF Holding
    <3> QED BY <2>p, <3>1, <3>3, <3>4, <3>5
  <2>8. CASE MarkSent(p, e)
    <3>1. /\ SetJob(p, e, NoJob) /\ j.phase = "recorded" /\ UNCHANGED <<accepted, cuts>>
          /\ \A f \in Emails : f # e => email'[f] = email[f]
      BY <1>0, <2>8 DEF MarkSent, Write
    <3>2. \/ email'[e].status = "sent" /\ faults' = faults
          \/ faults' = faults + 1
      BY <1>0, <2>8, RowEffects DEF MarkSent, Write, Fault, NoFault
    <3> QED BY <2>1, <2>3, <2>p, <3>1, <3>2
  <2>9. CASE MarkRetry(p, e)
    <3>1. /\ SetJob(p, e, NoJob) /\ j.phase = "recorded" /\ j.result # "ok"
          /\ UNCHANGED <<accepted, cuts>>
          /\ \A f \in Emails : f # e => email'[f] = email[f]
      BY <1>0, <2>9 DEF MarkRetry, Write
    <3>2. faults' \in {faults, faults + 1}
      BY <2>9 DEF MarkRetry, Write, Fault, NoFault
    <3>3. Timely(e) => accepted[e] <= Bill(e)
      BY <2>2, <3>1 DEF Holding, PaidBy
    <3> QED BY <2>1, <2>3, <2>p, <3>1, <3>2, <3>3
  <2>10. CASE MarkFailed(p, e)
    <3> DEFINE i == [j EXCEPT !.phase = "failed"]
    <3>1. i \in Job /\ i.phase = "failed"
      BY <2>1, JobsStayJobs, JobEffects
    <3> HIDE DEF i
    <3>2. /\ SetJob(p, e, i) /\ j.phase = "recorded" /\ j.result # "ok"
          /\ UNCHANGED <<accepted, cuts>>
          /\ \A f \in Emails : f # e => email'[f] = email[f]
      BY <1>0, <2>10 DEF MarkFailed, Write, i
    <3>3. faults' \in {faults, faults + 1} /\ Honest(i)
      BY <2>10, <3>1 DEF MarkFailed, Write, Fault, NoFault, Honest
    <3>4. Timely(e) => accepted[e] <= Bill(e)
      BY <2>2, <3>2 DEF Holding, PaidBy
    <3> QED BY <2>p, <3>1, <3>2, <3>3, <3>4
  <2>11. CASE OnPermanentFailure(p, e)
    <3>1. /\ SetJob(p, e, NoJob) /\ j.phase = "failed" /\ UNCHANGED <<email, accepted, cuts>>
          /\ faults' \in {faults, faults + 1}
      BY <2>11 DEF OnPermanentFailure, Fault, NoFault
    <3>2. Timely(e) => \/ accepted[e] <= Bill(e) \/ email[e].status = "sent"
                       \/ \E q \in Procs : q # p /\ PaidBy(job[q][e])
      BY <2>1, <3>1 DEF Paid, PaidBy
    <3> QED BY <2>1, <2>3, <2>p, <3>1, <3>2
  <2> QED BY <1>3, <2>4, <2>5, <2>6, <2>7, <2>8, <2>9, <2>10, <2>11 DEF Processing
<1>4. ASSUME NEW p \in Procs, Lifecycle(p) PROVE DupInv'
  <2>1. CASE Sigterm(p) \/ Exit(p) \/ Start(p)
    <3>1. UNCHANGED <<email, job, accepted, cuts, faults>>
      BY <2>1 DEF Sigterm, Exit, Start
    <3>2. \A f \in Emails : Paid(f)' = Paid(f)
      BY <3>1 DEF Paid
    <3> QED BY <1>0, <3>1, <3>2, OthersPay DEF DupInv
  <2>2. CASE Crash(p)
    <3>1. \A q \in Procs, e \in Emails : job'[q][e] = IF q = p THEN NoJob ELSE job[q][e]
      BY <1>0, <2>2 DEF Crash
    <3>2. \A q \in Procs, e \in Emails : Honest(job'[q][e])
      BY <3>1, NoJobPhase DEF DupInv, Honest
    <3>3. UNCHANGED <<accepted, cuts>> /\ faults' = faults + 1
      BY <2>2 DEF Crash, Fault
    <3> QED BY <1>0, <3>2, <3>3, OthersPay
  <2> QED BY <1>4, <2>1, <2>2 DEF Lifecycle
<1>5. CASE TimePasses
  <2>1. \A f \in Emails : email'[f].status = email[f].status
    BY <1>0, <1>5, RowEffects DEF TimePasses
  <2>2. \A q \in Procs, f \in Emails : /\ job'[q][f].phase = job[q][f].phase
                                       /\ job'[q][f].taken = job[q][f].taken
                                       /\ job'[q][f].result = job[q][f].result
    BY <1>0, <1>5, JobEffects DEF TimePasses
  <2>3. \A q \in Procs, f \in Emails : Honest(job'[q][f]) /\ PaidBy(job'[q][f]) = PaidBy(job[q][f])
    BY <2>2 DEF DupInv, Honest, PaidBy
  <2>4. \A f \in Emails : Paid(f)' = Paid(f)
    BY <2>1, <2>3 DEF Paid
  <2>5. UNCHANGED <<accepted, cuts, faults>>
    BY <1>5 DEF TimePasses
  <2> QED BY <1>0, <2>3, <2>4, <2>5, OthersPay
<1>6. CASE UNCHANGED vars
  <2>1. UNCHANGED <<email, job, accepted, cuts, faults>>
    BY <1>6 DEF vars
  <2>2. \A f \in Emails : Paid(f)' = Paid(f)
    BY <2>1 DEF Paid
  <2> QED BY <1>0, <2>1, <2>2, OthersPay DEF DupInv
<1> QED BY <1>1, <1>2, <1>3, <1>4, <1>5, <1>6 DEF Next

\* Each copy of an email beyond the first has a cause: a crash, a failed store
\* call, a lost SMTP reply, or a context that ended between the acceptance and
\* its reply.  It holds for any number of processes, batches and slots.
THEOREM CopiesAlwaysHaveCauses == Spec => []CopiesHaveCauses
<1>1. DupInv /\ [Next]_vars => DupInv'
  BY DupStep
<1>2. DupInv => CopiesHaveCauses
  <2> SUFFICES ASSUME DupInv, NEW e \in Emails, Timely(e)
               PROVE  accepted[e] <= 1 + faults + cuts[e]
    BY DEF CopiesHaveCauses
  <2>1. accepted[e] <= Bill(e) + 1
    BY DEF DupInv, Balanced
  <2>2. accepted[e] \in Nat /\ faults \in Nat /\ cuts[e] \in Nat
    BY DEF DupInv, OwnInv, TypeOK
  <2> QED BY <2>1, <2>2 DEF Bill
<1> QED BY DupInit, <1>1, <1>2, PTL DEF Spec
=============================================================================
