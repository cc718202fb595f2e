-------------------------- MODULE DeliveryPromises --------------------------
(***************************************************************************)
(* What senders are promised: a failure for good reaches the digest,       *)
(* retries keep to the schedule, the first address stays on record, and no *)
(* email is given up without a try.                                        *)
(***************************************************************************)
EXTENDS DeliveryProofs

RepInv == TypeOK /\ IdleTicks /\ FailuresAreReported

LEMMA IdleStep == TypeOK /\ IdleTicks /\ [Next]_vars => IdleTicks'
<1> SUFFICES ASSUME TypeOK, IdleTicks, [Next]_vars PROVE IdleTicks'
  OBVIOUS
<1>0. /\ job \in [Procs -> [Emails -> Job]]
      /\ tick \in [Procs -> [phase: {"idle", "claim", "deliver"}, age: Nat]]
  BY DEF TypeOK
<1>1. ASSUME NEW e \in Emails, Requests(e) PROVE UNCHANGED <<tick, job>>
  BY <1>1 DEF Requests, Enqueue, CancelEmail, RequeueEmail
<1>2. ASSUME NEW p \in Procs, Ticking(p) PROVE IdleTicks'
  <2>1. \A q \in Procs : q # p => tick'[q] = tick[q] /\ job'[q] = job[q]
    BY <1>0, <1>2 DEF Ticking, BeginTick, ClaimDue, ClaimFails, EndTick
  <2>2. CASE ClaimDue(p)
    <3>1. tick'[p].phase = "deliver"
      BY <1>0, <2>2 DEF ClaimDue
    <3> QED BY <2>1, <3>1 DEF IdleTicks
  <2>3. CASE ~ClaimDue(p)
    <3>1. UNCHANGED job /\ \A e \in Emails : job[p][e].phase = "none"
      BY <1>2, <2>3 DEF Ticking, BeginTick, ClaimFails, EndTick, IdleTicks
    <3> QED BY <2>1, <3>1 DEF IdleTicks
  <2> QED BY <2>2, <2>3
<1>3. ASSUME NEW p \in Procs, NEW e \in Emails, Processing(p, e) PROVE IdleTicks'
  <2>1. /\ UNCHANGED tick /\ job[p][e].phase # "none"
        /\ \A q \in Procs : q # p => job'[q] = job[q]
    BY <1>0, <1>3 DEF Processing, Acquire, Accept, SendReturns, RecordAttempt, MarkSent,
                      MarkRetry, MarkFailed, OnPermanentFailure, SetJob
  <2> QED BY <2>1 DEF IdleTicks
<1>4. ASSUME NEW p \in Procs, Lifecycle(p) PROVE IdleTicks'
  <2>1. /\ \A q \in Procs : q # p => tick'[q] = tick[q] /\ job'[q] = job[q]
        /\ \/ UNCHANGED <<tick, job>>
           \/ \A e \in Emails : job'[p][e].phase = "none"
    BY <1>0, <1>4, NoJobPhase DEF Lifecycle, Sigterm, Exit, Crash, Start
  <2> QED BY <2>1 DEF IdleTicks
<1>5. CASE TimePasses
  <2>1. \A p \in Procs, e \in Emails : job'[p][e].phase = job[p][e].phase
    BY <1>0, <1>5, JobEffects DEF TimePasses
  <2>2. \A p \in Procs : tick'[p].phase = tick[p].phase
    BY <1>0, <1>5 DEF TimePasses, OlderTick
  <2> QED BY <2>1, <2>2 DEF IdleTicks
<1>6. CASE UNCHANGED vars
  BY <1>6 DEF vars, IdleTicks
<1> QED BY <1>1, <1>2, <1>3, <1>4, <1>5, <1>6 DEF Next, IdleTicks

\* No statement but MarkFailed makes a row "failed".
LEMMA NotFailed ==
  ASSUME NEW r \in Row
  PROVE  /\ Claimed(r).status # "failed" /\ Released(r).status # "failed"
         /\ Sent(r).status # "failed" /\ Canceled(r).status # "failed"
         /\ Later(r).status = r.status
         /\ \A wait \in Int : Retried(r, wait).status # "failed"
         /\ \A newTo : Requeued(r, newTo).status # "failed"
         /\ \A to : Enqueued(to).status # "failed"
BY DEF Row, Claimed, Released, Sent, Canceled, Later, Retried, Requeued, Enqueued

\* A step keeps the promise if what failed had failed before and no goroutine
\* forgets to report.
LEMMA ReportStutter ==
  ASSUME FailuresAreReported, faults' = 0 => faults = 0, pending \subseteq pending',
         \A e \in Emails : email'[e].status = "failed" => email[e].status = "failed",
         \A p \in Procs, e \in Emails :
           job[p][e].phase = "failed" => job'[p][e].phase = "failed" \/ e \in pending' \/ faults' # 0
  PROVE  FailuresAreReported'
BY DEF FailuresAreReported

LEMMA RepStep == RepInv /\ [Next]_vars => RepInv'
<1> SUFFICES ASSUME RepInv, [Next]_vars PROVE FailuresAreReported'
  BY TypeStep, IdleStep DEF RepInv
<1>0. /\ email \in [Emails -> Row] /\ job \in [Procs -> [Emails -> Job]] /\ faults \in Nat
      /\ pending \subseteq Emails /\ FailuresAreReported
      /\ tick \in [Procs -> [phase: {"idle", "claim", "deliver"}, age: Nat]]
  BY DEF RepInv, TypeOK
<1>1. ASSUME NEW e \in Emails, Requests(e) PROVE FailuresAreReported'
  <2>1. UNCHANGED <<job, pending, faults>>
    BY <1>1 DEF Requests, Enqueue, CancelEmail, RequeueEmail
  <2>2. PICK r : email' = [email EXCEPT ![e] = r] /\ r.status # "failed"
    BY <1>0, <1>1, NotFailed DEF Requests, Enqueue, CancelEmail, RequeueEmail
  <2>3. \A f \in Emails : email'[f].status = "failed" => email[f].status = "failed"
    BY <1>0, <2>2
  <2> QED BY <1>0, <2>1, <2>3, ReportStutter
<1>2. ASSUME NEW p \in Procs, Ticking(p) PROVE FailuresAreReported'
  <2>1. UNCHANGED pending /\ (faults' = 0 => faults = 0)
    <3>1. UNCHANGED pending /\ faults' \in {faults, faults + 1}
      BY <1>2 DEF Ticking, BeginTick, ClaimDue, ClaimFails, EndTick, Fault, NoFault
    <3> QED BY <1>0, <3>1
  <2>2. \A e \in Emails : job[p][e].phase = "none"
    BY <1>0, <1>2 DEF Ticking, BeginTick, ClaimDue, ClaimFails, EndTick, RepInv, IdleTicks
  <2>3. \A q \in Procs : q # p => job'[q] = job[q]
    BY <1>0, <1>2 DEF Ticking, BeginTick, ClaimDue, ClaimFails, EndTick
  <2>4. ASSUME NEW f \in Emails, email'[f].status = "failed" PROVE email[f].status = "failed"
    <3>1. CASE \E S \in Batches \cup {{}} : Claim(S)
      BY <1>0, <2>4, <3>1, NotFailed DEF Claim
    <3>2. CASE RequeueStaleSending
      BY <1>0, <2>4, <3>2, NotFailed DEF RequeueStaleSending
    <3>3. CASE UNCHANGED email
      BY <2>4, <3>3
    <3> QED BY <1>2, <3>1, <3>2, <3>3 DEF Ticking, BeginTick, ClaimDue, ClaimFails, EndTick
  <2>5. ASSUME NEW q \in Procs, NEW f \in Emails, job[q][f].phase = "failed"
        PROVE  job'[q][f].phase = "failed"
    BY <2>2, <2>3, <2>5
  <2> QED BY <1>0, <2>1, <2>4, <2>5, ReportStutter
<1>3. ASSUME NEW p \in Procs, NEW e \in Emails, Processing(p, e) PROVE FailuresAreReported'
  <2> DEFINE j == job[p][e]
  <2>1. j \in Job /\ NoJob \in Job
    BY <1>0, NoJobIsJob
  <2>2. CASE MarkFailed(p, e)
    <3> DEFINE i == [j EXCEPT !.phase = "failed"]
    <3>1. i \in Job
      BY <2>1, JobsStayJobs
    <3>2. i.phase = "failed"
      BY <2>1, JobEffects
    <3>3. /\ SetJob(p, e, i) /\ UNCHANGED pending /\ (faults' = 0 => faults = 0)
          /\ \A f \in Emails : f # e => email'[f] = email[f]
      BY <1>0, <2>2 DEF MarkFailed, Write, Fault, NoFault
    <3> HIDE DEF i
    <3>4. \A q \in Procs, f \in Emails : job'[q][f] = IF q = p /\ f = e THEN i ELSE job[q][f]
      BY <1>0, <3>1, <3>3, SetJobEffect
    <3>5. job'[p][e].phase = "failed"
      BY <3>2, <3>4
    <3>6. ASSUME faults' = 0, NEW f \in Emails, email'[f].status = "failed", f # e
          PROVE  f \in pending' \/ \E q \in Procs : job'[q][f].phase = "failed"
      <4>1. faults = 0 /\ email[f].status = "failed" /\ pending' = pending
        BY <3>3, <3>6
      <4>2. f \in pending \/ \E q \in Procs : job[q][f].phase = "failed"
        BY <1>0, <4>1 DEF FailuresAreReported
      <4>3. \A q \in Procs : job'[q][f] = job[q][f]
        BY <3>4, <3>6
      <4> QED BY <4>1, <4>2, <4>3
    <3> QED BY <3>5, <3>6 DEF FailuresAreReported
  <2>3. CASE OnPermanentFailure(p, e)
    <3>1. SetJob(p, e, NoJob) /\ UNCHANGED email
      BY <2>3 DEF OnPermanentFailure
    <3>2. \/ pending' = pending \cup {e} /\ faults' = faults
          \/ pending' = pending /\ faults' = faults + 1
      BY <2>3 DEF OnPermanentFailure, Fault, NoFault
    <3>3. \A q \in Procs, f \in Emails : job'[q][f] = IF q = p /\ f = e THEN NoJob ELSE job[q][f]
      BY <1>0, <2>1, <3>1, SetJobEffect
    <3>4. /\ faults' = 0 => faults = 0
          /\ e \in pending' \/ faults' # 0
          /\ pending \subseteq pending'
      BY <1>0, <3>2
    <3> QED BY <1>0, <3>1, <3>3, <3>4, ReportStutter
  <2>4. CASE ~MarkFailed(p, e) /\ ~OnPermanentFailure(p, e)
    <3>1. j.phase # "failed" /\ UNCHANGED pending
      BY <1>3, <2>4 DEF Processing, Acquire, Accept, SendReturns, RecordAttempt, MarkSent, MarkRetry
    <3>2. \A q \in Procs, f \in Emails : ~(q = p /\ f = e) => job'[q][f] = job[q][f]
      BY <1>0, <1>3, <2>4 DEF Processing, Acquire, Accept, SendReturns, RecordAttempt, MarkSent,
                              MarkRetry, SetJob
    <3>3. faults' = 0 => faults = 0
      BY <1>0, <1>3, <2>4 DEF Processing, Acquire, Accept, SendReturns, RecordAttempt, MarkSent,
                              MarkRetry, Write, Fault, NoFault
    <3>4. \A f \in Emails : email'[f].status = "failed" => email[f].status = "failed"
      <4>1. CASE MarkSent(p, e)
        BY <1>0, <4>1, NotFailed DEF MarkSent, Write
      <4>2. CASE MarkRetry(p, e)
        <5> DEFINE wait == Schedule[j.attempts + 1] - tick[p].age
        <5>1. wait \in Int
          BY <1>0, <4>2, DeliveryAssumption DEF MarkRetry, RetriesLeft
        <5>2. Write(e, Retried(email[e], wait))
          BY <4>2 DEF MarkRetry
        <5> HIDE DEF wait
        <5> QED BY <1>0, <5>1, <5>2, NotFailed DEF Write
      <4>3. CASE ~MarkSent(p, e) /\ ~MarkRetry(p, e)
        BY <1>3, <2>4, <4>3 DEF Processing, Acquire, Accept, SendReturns, RecordAttempt
      <4> QED BY <4>1, <4>2, <4>3
    <3> QED BY <1>0, <3>1, <3>2, <3>3, <3>4, ReportStutter
  <2> QED BY <2>2, <2>3, <2>4
<1>4. ASSUME NEW p \in Procs, Lifecycle(p) PROVE FailuresAreReported'
  <2>1. UNCHANGED <<email, pending>>
    BY <1>4 DEF Lifecycle, Sigterm, Exit, Crash, Start
  <2>2. UNCHANGED <<job, faults>> \/ faults' = faults + 1
    BY <1>4 DEF Lifecycle, Sigterm, Exit, Crash, Start, Fault
  <2> QED BY <1>0, <2>1, <2>2, ReportStutter
<1>5. CASE TimePasses
  <2>1. \A e \in Emails : email'[e].status = email[e].status
    BY <1>0, <1>5, NotFailed DEF TimePasses
  <2>2. \A q \in Procs, e \in Emails : job'[q][e].phase = job[q][e].phase
    BY <1>0, <1>5, JobEffects DEF TimePasses
  <2>3. UNCHANGED <<pending, faults>>
    BY <1>5 DEF TimePasses
  <2> QED BY <1>0, <2>1, <2>2, <2>3, ReportStutter
<1>6. CASE UNCHANGED vars
  BY <1>0, <1>6, ReportStutter DEF vars
<1> QED BY <1>1, <1>2, <1>3, <1>4, <1>5, <1>6 DEF Next

\* However many processes run and whatever admins do, an email that failed for
\* good is in the next digest, or its goroutine is about to put it there, as
\* long as nothing crashed and no store call failed.
THEOREM NoFailureIsLost == Spec => []FailuresAreReported
<1>1. Init => RepInv
  <2> SUFFICES ASSUME Init PROVE RepInv
    OBVIOUS
  <2>1. IdleTicks
    BY NoJobPhase DEF Init, IdleTicks
  <2>2. FailuresAreReported
    BY DEF Init, NoRow, FailuresAreReported
  <2> QED BY <2>1, <2>2, TypeInit DEF RepInv
<1>2. RepInv /\ [Next]_vars => RepInv'
  BY RepStep
<1>3. RepInv => FailuresAreReported
  BY DEF RepInv
<1> QED BY <1>1, <1>2, <1>3, PTL DEF Spec

-----------------------------------------------------------------------------
(* The schedule.                                                            *)

\* A claimed row is at least as old as the tick that claimed it.
AgeInv ==
  \A p \in Procs :
    /\ tick[p].age <= MaxAge
    /\ tick[p].phase = "claim" => tick[p].age = 0
    /\ \A e \in Emails : Timely(e) /\ Holding(p, e) => email[e].due <= -tick[p].age

\* A row and its tick grow older together, and stop at the cap.
LEMMA OlderByOne ==
  ASSUME NEW cap \in Nat, NEW age \in Nat, NEW older \in Nat, NEW due \in Int,
         due <= -age, older <= age + 1, older <= cap
  PROVE  (IF due > -cap THEN due - 1 ELSE due) <= -older
OBVIOUS

\* Every verdict and every release ends "sending".
LEMMA StatusAfter ==
  ASSUME NEW r \in Row
  PROVE  /\ Released(r).status = "queued" /\ Released(r).attempts = r.attempts
         /\ Sent(r).status = "sent" /\ Failed(r).status = "failed"
         /\ \A wait : /\ Retried(r, wait).status = "queued" /\ Retried(r, wait).due = wait
                     /\ Retried(r, wait).attempts = r.attempts + 1
BY DEF Row, Released, Sent, Failed, Retried

\* While an email is being sent, only the clock moves its due time.
LEMMA DueWhileSending ==
  ASSUME OwnInv, OwnInv', Next, ~TimePasses, NEW p \in Procs, NEW e \in Emails,
         Timely(e), Timely(e)', Holding(p, e), Holding(p, e)'
  PROVE  email'[e] = email[e]
<1>0. /\ email \in [Emails -> Row] /\ job \in [Procs -> [Emails -> Job]]
      /\ email[e].status = "sending" /\ email'[e].status = "sending"
  BY DEF OwnInv, TypeOK, Owns
<1>1. ASSUME NEW f \in Emails, Requests(f) PROVE email'[e] = email[e]
  BY <1>0, <1>1 DEF Requests, Enqueue, CancelEmail, RequeueEmail, Cancelable, Requeueable
<1>2. ASSUME NEW q \in Procs, Ticking(q) PROVE email'[e] = email[e]
  <2>1. CASE \E S \in Batches \cup {{}} : Claim(S)
    BY <1>0, <2>1 DEF Claim, Batches, Due, IsDue
  <2>2. CASE RequeueStaleSending
    BY <1>0, <2>2, StatusAfter DEF RequeueStaleSending
  <2> QED BY <1>2, <2>1, <2>2 DEF Ticking, BeginTick, ClaimDue, ClaimFails, EndTick
<1>3. ASSUME NEW q \in Procs, NEW f \in Emails, Processing(q, f) PROVE email'[e] = email[e]
  <2>1. CASE f # e
    BY <1>0, <1>3, <2>1 DEF Processing, Acquire, Accept, SendReturns, RecordAttempt, MarkSent,
                            MarkRetry, MarkFailed, OnPermanentFailure, Write
  <2>2. CASE f = e
    <3>1. CASE MarkSent(q, e)
      BY <1>0, <3>1, StatusAfter DEF MarkSent, Write
    <3>2. CASE MarkFailed(q, e)
      BY <1>0, <3>2, StatusAfter DEF MarkFailed, Write
    <3>3. CASE MarkRetry(q, e)
      <4> DEFINE wait == Schedule[job[q][e].attempts + 1] - tick[q].age
      <4>1. Write(e, Retried(email[e], wait))
        BY <3>3 DEF MarkRetry
      <4> HIDE DEF wait
      <4> QED BY <1>0, <4>1, StatusAfter DEF Write
    <3> QED BY <1>3, <2>2, <3>1, <3>2, <3>3 DEF Processing, Acquire, Accept, SendReturns,
                                                RecordAttempt, OnPermanentFailure
  <2> QED BY <2>1, <2>2
<1>4. ASSUME NEW q \in Procs, Lifecycle(q) PROVE email'[e] = email[e]
  BY <1>4 DEF Lifecycle, Sigterm, Exit, Crash, Start
<1> QED BY <1>1, <1>2, <1>3, <1>4 DEF Next

\* ClaimDue starts goroutines for the rows it claimed only.
LEMMA ClaimedOnly ==
  ASSUME TypeOK, NEW p \in Procs, ClaimDue(p)
  PROVE  \A e \in Emails : job'[p][e].phase # "none" => e \in Due /\ email'[e] = Claimed(email[e])
<1> DEFINE Claims(e) == [NoJob EXCEPT !.phase = "waiting", !.attempts = email[e].attempts,
                                      !.to = email[e].to]
<1>1. PICK S \in Batches :
        /\ Claim(S)
        /\ job' = [job EXCEPT ![p] = [e \in Emails |-> IF e \in S THEN Claims(e) ELSE NoJob]]
  BY DEF ClaimDue
<1> HIDE DEF Claims
<1>2. \A e \in Emails : e \notin S => job'[p][e] = NoJob
  BY <1>1 DEF TypeOK
<1>3. \A e \in Emails : job'[p][e].phase # "none" => e \in S
  BY <1>2, NoJobPhase
<1> QED BY <1>1, <1>3 DEF Claim, Batches

LEMMA AgeStep == OwnInv /\ OwnInv' /\ AgeInv /\ [Next]_vars => AgeInv'
<1> SUFFICES ASSUME OwnInv, OwnInv', AgeInv, [Next]_vars PROVE AgeInv'
  OBVIOUS
<1>0. /\ email \in [Emails -> Row] /\ job \in [Procs -> [Emails -> Job]]
      /\ tick \in [Procs -> [phase: {"idle", "claim", "deliver"}, age: Nat]]
      /\ email' \in [Emails -> Row]
      /\ tick' \in [Procs -> [phase: {"idle", "claim", "deliver"}, age: Nat]]
  BY DEF OwnInv, TypeOK
\* Steps other than the clock: a process starts or ends a tick, or it stays in
\* its tick and no goroutine of it begins to hold a row.
<1>k. ASSUME Next, ~TimePasses,
             \A p \in Procs :
               \/ tick'[p].age = 0 /\ \A e \in Emails : ~Holding(p, e)'
               \/ tick'[p] = tick[p] /\ \A e \in Emails : Holding(p, e)' => Holding(p, e)
      PROVE  AgeInv'
  <2>1. ASSUME NEW p \in Procs
        PROVE  /\ tick'[p].age <= MaxAge
               /\ tick'[p].phase = "claim" => tick'[p].age = 0
               /\ \A e \in Emails : Timely(e)' /\ Holding(p, e)' => email'[e].due <= -tick'[p].age
    <3>1. CASE tick'[p].age = 0 /\ \A e \in Emails : ~Holding(p, e)'
      BY <3>1, DeliveryAssumption
    <3>2. CASE tick'[p] = tick[p] /\ \A e \in Emails : Holding(p, e)' => Holding(p, e)
      BY <1>k, <3>2, TimelyBefore, DueWhileSending DEF AgeInv
    <3> QED BY <1>k, <3>1, <3>2
  <2> QED BY <2>1 DEF AgeInv
<1>1. CASE ~TimePasses /\ Next
  <2>1. ASSUME NEW e \in Emails, Requests(e) PROVE AgeInv'
    <3>1. UNCHANGED <<tick, job>>
      BY <2>1 DEF Requests, Enqueue, CancelEmail, RequeueEmail
    <3> QED BY <1>1, <1>k, <3>1 DEF Holding
  <2>2. ASSUME NEW p \in Procs, ClaimDue(p) PROVE AgeInv'
    <3>2. \A q \in Procs : q # p => tick'[q] = tick[q] /\ job'[q] = job[q]
      BY <1>0, <2>2 DEF ClaimDue
    <3>3. tick'[p].phase = "deliver" /\ tick'[p].age = tick[p].age /\ tick[p].phase = "claim"
      BY <1>0, <2>2 DEF ClaimDue
    <3>4. tick'[p].age = 0
      BY <3>3 DEF AgeInv
    <3>5. \A e \in Emails : Holding(p, e)' => email'[e] = Claimed(email[e])
      BY <2>2, ClaimedOnly DEF OwnInv, Holding
    <3>6. \A e \in Emails : Holding(p, e)' => email'[e].due = 0
      BY <1>0, <3>5 DEF Claimed, Row
    <3>7. ASSUME NEW q \in Procs, q # p, NEW e \in Emails, Timely(e)', Holding(q, e)'
          PROVE  email'[e].due <= -tick'[q].age
      <4>1. Holding(q, e) /\ Timely(e)
        BY <3>2, <3>7, TimelyBefore DEF Holding
      <4> QED BY <1>1, <3>2, <3>7, <4>1, DueWhileSending DEF AgeInv
    <3> QED BY <3>2, <3>3, <3>4, <3>6, <3>7, DeliveryAssumption DEF AgeInv
  <2>3. ASSUME NEW p \in Procs, BeginTick(p) \/ ClaimFails(p) \/ EndTick(p) PROVE AgeInv'
    <3>1. /\ UNCHANGED job /\ tick'[p].age = 0
          /\ \A q \in Procs : q # p => tick'[q] = tick[q]
      BY <1>0, <2>3 DEF BeginTick, ClaimFails, EndTick
    <3>2. \A e \in Emails : ~Holding(p, e)'
      BY <2>3, <3>1 DEF BeginTick, ClaimFails, EndTick, OwnInv, IdleTicks, Holding
    <3> QED BY <1>1, <1>k, <3>1, <3>2 DEF Holding
  <2>4. ASSUME NEW p \in Procs, NEW e \in Emails, Processing(p, e) PROVE AgeInv'
    <3>1. UNCHANGED tick
      BY <2>4 DEF Processing, Acquire, Accept, SendReturns, RecordAttempt, MarkSent, MarkRetry,
                  MarkFailed, OnPermanentFailure
    <3>2. \A q \in Procs, f \in Emails : ~(q = p /\ f = e) => job'[q][f] = job[q][f]
      BY <1>0, <2>4 DEF Processing, Acquire, Accept, SendReturns, RecordAttempt, MarkSent,
                        MarkRetry, MarkFailed, OnPermanentFailure, SetJob
    <3>3. Holding(p, e)' => Holding(p, e)
      <4>1. CASE OnPermanentFailure(p, e)
        <5>1. job'[p][e] = NoJob
          BY <1>0, <4>1 DEF OnPermanentFailure, SetJob
        <5> QED BY <5>1, NoJobPhase DEF Holding
      <4>2. CASE ~OnPermanentFailure(p, e)
        BY <2>4, <4>2 DEF Processing, Acquire, Accept, SendReturns, RecordAttempt, MarkSent,
                          MarkRetry, MarkFailed, Holding
      <4> QED BY <4>1, <4>2
    <3>4. \A q \in Procs, f \in Emails : Holding(q, f)' => Holding(q, f)
      BY <3>2, <3>3 DEF Holding
    <3> QED BY <1>1, <1>k, <3>1, <3>4
  <2>5. ASSUME NEW p \in Procs, Lifecycle(p) PROVE AgeInv'
    <3>1. CASE Sigterm(p) \/ Exit(p) \/ Start(p)
      <4>1. UNCHANGED <<tick, job>>
        BY <3>1 DEF Sigterm, Exit, Start
      <4> QED BY <1>1, <1>k, <4>1 DEF Holding
    <3>2. CASE Crash(p)
      <4>1. /\ tick'[p].age = 0 /\ \A e \in Emails : job'[p][e] = NoJob
            /\ \A q \in Procs : q # p => tick'[q] = tick[q] /\ job'[q] = job[q]
        BY <1>0, <3>2 DEF Crash
      <4> QED BY <1>1, <1>k, <4>1, NoJobPhase DEF Holding
    <3> QED BY <2>5, <3>1, <3>2 DEF Lifecycle
  <2> QED BY <1>1, <2>1, <2>2, <2>3, <2>4, <2>5 DEF Next, Ticking
<1>2. CASE TimePasses
  <2>1. \A p \in Procs, e \in Emails : Holding(p, e)' => Holding(p, e)
    BY <1>0, <1>2, JobEffects DEF TimePasses, Holding
  <2>2. ASSUME NEW p \in Procs
        PROVE  /\ tick'[p].age <= MaxAge
               /\ tick'[p].phase = "claim" => tick'[p].age = 0
               /\ \A e \in Emails : Timely(e)' /\ Holding(p, e)' => email'[e].due <= -tick'[p].age
    <3>1. tick'[p] = OlderTick(tick[p]) /\ tick[p].phase # "claim" /\ tick[p].age <= MaxAge
      BY <1>0, <1>2 DEF TimePasses, Rests, AgeInv
    <3>2. /\ tick'[p].phase # "claim" /\ tick'[p].age <= MaxAge
          /\ tick'[p].age <= tick[p].age + 1 /\ tick'[p].age \in Nat /\ tick[p].age \in Nat
      BY <1>0, <3>1, DeliveryAssumption DEF OlderTick
    <3>3. ASSUME NEW e \in Emails, Timely(e)', Holding(p, e)' PROVE email'[e].due <= -tick'[p].age
      <4>0. Timely(e) /\ Holding(p, e)
        BY <2>1, <3>3, TimelyBefore
      <4>1. email[e].due <= -tick[p].age /\ email[e].status = "sending" /\ email[e].due \in Int
        BY <1>0, <4>0 DEF AgeInv, OwnInv, Owns, Row
      <4>2. email'[e] = Later(email[e]) /\ email[e] \in Row
        BY <1>0, <1>2 DEF TimePasses
      <4>3. email'[e].due = IF email[e].due > -MaxAge THEN email[e].due - 1 ELSE email[e].due
        BY <4>1, <4>2 DEF Later, Row
      <4>4. MaxAge \in Nat
        BY DeliveryAssumption
      <4> QED BY ONLY <3>2, <4>1, <4>3, <4>4, OlderByOne
    <3> QED BY <3>2, <3>3
  <2> QED BY <2>2 DEF AgeInv
<1>3. CASE UNCHANGED vars
  BY <1>3, TimelyBefore DEF vars, AgeInv, Holding
<1> QED BY <1>1, <1>2, <1>3

LEMMA ScheduleStep ==
  OwnInv /\ AgeInv /\ [Next]_vars =>
    \A e \in Emails :
      /\ Timely(e) /\ email[e].status = "sending" /\ email'[e].status = "queued"
      /\ email'[e].attempts # email[e].attempts
      => RetryIsDue(e)
<1> SUFFICES ASSUME OwnInv, AgeInv, [Next]_vars, NEW e \in Emails, Timely(e),
                    email[e].status = "sending", email'[e].status = "queued",
                    email'[e].attempts # email[e].attempts
             PROVE  RetryIsDue(e)
  OBVIOUS
<1>0. /\ email \in [Emails -> Row] /\ job \in [Procs -> [Emails -> Job]]
      /\ tick \in [Procs -> [phase: {"idle", "claim", "deliver"}, age: Nat]]
  BY DEF OwnInv, TypeOK
<1>1. ASSUME NEW f \in Emails, Requests(f) PROVE FALSE
  BY <1>0, <1>1 DEF Requests, Enqueue, CancelEmail, RequeueEmail, Cancelable, Requeueable
<1>2. ASSUME NEW q \in Procs, Ticking(q) PROVE FALSE
  <2>1. CASE \E S \in Batches \cup {{}} : Claim(S)
    BY <1>0, <2>1 DEF Claim, Batches, Due, IsDue
  <2>2. CASE RequeueStaleSending
    BY <1>0, <2>2, StatusAfter DEF RequeueStaleSending
  <2> QED BY <1>2, <2>1, <2>2 DEF Ticking, BeginTick, ClaimDue, ClaimFails, EndTick
<1>3. ASSUME NEW q \in Procs, NEW f \in Emails, Processing(q, f)
      PROVE  MarkRetry(q, e)
  <2>1. f = e
    BY <1>0, <1>3 DEF Processing, Acquire, Accept, SendReturns, RecordAttempt, MarkSent,
                      MarkRetry, MarkFailed, OnPermanentFailure, Write
  <2>2. ~MarkSent(q, e) /\ ~MarkFailed(q, e)
    BY <1>0, StatusAfter DEF MarkSent, MarkFailed, Write
  <2> QED BY <1>3, <2>1, <2>2 DEF Processing, Acquire, Accept, SendReturns, RecordAttempt,
                                  OnPermanentFailure
<1>4. ASSUME NEW q \in Procs, Lifecycle(q) PROVE FALSE
  BY <1>4 DEF Lifecycle, Sigterm, Exit, Crash, Start
<1>5. ASSUME TimePasses PROVE FALSE
  BY <1>0, <1>5, RowEffects DEF TimePasses
<1>6. ASSUME UNCHANGED vars PROVE FALSE
  BY <1>6 DEF vars
<1>7. ASSUME NEW q \in Procs, MarkRetry(q, e)
      PROVE  RetryIsDue(e)
  <2> DEFINE wait == Schedule[job[q][e].attempts + 1] - tick[q].age
  <2>1. /\ Holding(q, e) /\ job[q][e].attempts + 1 \in 1..Len(Schedule)
        /\ email' = [email EXCEPT ![e] = Retried(email[e], wait)]
    BY <1>7 DEF MarkRetry, RetriesLeft, Write, Holding
  <2>2. email'[e].attempts = email[e].attempts + 1 /\ email'[e].due = wait
    <3> HIDE DEF wait
    <3> QED BY <1>0, <2>1, StatusAfter
  <2>3. job[q][e].attempts = email[e].attempts /\ email[e].due <= -tick[q].age
    BY <2>1 DEF OwnInv, Owns, AgeInv
  <2>4. Schedule[email'[e].attempts] \in Int /\ email'[e].attempts \in DOMAIN Schedule
    BY <1>0, <2>1, <2>2, <2>3, DeliveryAssumption
  <2>5. email[e].due \in Int /\ tick[q].age \in Int
    BY <1>0 DEF Row
  <2> QED BY <2>2, <2>3, <2>4, <2>5 DEF RetryIsDue
<1> QED BY <1>1, <1>2, <1>3, <1>4, <1>5, <1>6, <1>7 DEF Next

-----------------------------------------------------------------------------
(* The first address.                                                       *)

\* A row that was inserted has an address, and so has every row that a
\* goroutine works on.
AddrInv ==
  /\ TypeOK
  /\ \A e \in Emails : email[e].status # "none" => email[e].to # NoAddr
  /\ \A p \in Procs, e \in Emails : job[p][e].phase # "none" => email[e].to # NoAddr

SameFirst(new, old) == new.to # NoAddr /\ FirstAddress(new) = FirstAddress(old)

\* Re-addressing keeps the first address; every other statement keeps both
\* address columns.
LEMMA AddressEffects ==
  ASSUME NEW r \in Row, r.to # NoAddr
  PROVE  /\ SameFirst(Claimed(r), r) /\ SameFirst(Released(r), r)
         /\ SameFirst(Sent(r), r) /\ SameFirst(Failed(r), r)
         /\ SameFirst(Canceled(r), r) /\ SameFirst(Later(r), r)
         /\ \A wait : SameFirst(Retried(r, wait), r)
         /\ \A newTo : SameFirst(Requeued(r, newTo), r)
<1>1. ASSUME NEW newTo PROVE SameFirst(Requeued(r, newTo), r)
  BY DEF Row, SameFirst, FirstAddress, Requeued
<1>2. ASSUME NEW wait PROVE SameFirst(Retried(r, wait), r)
  BY DEF Row, SameFirst, FirstAddress, Retried
<1>3. /\ SameFirst(Claimed(r), r) /\ SameFirst(Released(r), r)
      /\ SameFirst(Sent(r), r) /\ SameFirst(Failed(r), r)
      /\ SameFirst(Canceled(r), r) /\ SameFirst(Later(r), r)
  BY DEF Row, SameFirst, FirstAddress, Claimed, Released, Sent, Failed, Canceled, Later
<1> QED BY <1>1, <1>2, <1>3

\* What a step may do to a row.
Addressed(e) ==
  \/ email'[e] = email[e]
  \/ email[e].to # NoAddr /\ SameFirst(email'[e], email[e])
  \/ email[e].status = "none" /\ email'[e].to # NoAddr

LEMMA AddressStep == AddrInv /\ [Next]_vars => AddrInv' /\ \A e \in Emails : Addressed(e)
<1> SUFFICES ASSUME AddrInv, [Next]_vars PROVE AddrInv' /\ \A e \in Emails : Addressed(e)
  OBVIOUS
<1>0. /\ email \in [Emails -> Row] /\ job \in [Procs -> [Emails -> Job]] /\ TypeOK'
      /\ \A e \in Emails : email[e].status # "none" => email[e].to # NoAddr
  BY TypeStep DEF AddrInv, TypeOK
\* It is enough that rows change as they may, and that goroutines start on rows
\* with an address.
<1>k. ASSUME \A e \in Emails : Addressed(e),
             \A p \in Procs, e \in Emails :
               job'[p][e].phase # "none" => job[p][e].phase # "none" \/ email[e].to # NoAddr
      PROVE  AddrInv' /\ \A e \in Emails : Addressed(e)
  BY <1>0, <1>k DEF AddrInv, Addressed, SameFirst
<1>1. ASSUME NEW e \in Emails, Requests(e) PROVE AddrInv' /\ \A f \in Emails : Addressed(f)
  <2>1. UNCHANGED job
    BY <1>1 DEF Requests, Enqueue, CancelEmail, RequeueEmail
  <2>2. ASSUME NEW to \in Addrs, Enqueue(e, to) PROVE \A f \in Emails : Addressed(f)
    <3>1. Enqueued(to).to # NoAddr
      BY StoreAssumption DEF Enqueued
    <3> QED BY <1>0, <2>2, <3>1 DEF Enqueue, Addressed
  <2>3. ASSUME CancelEmail(e) PROVE \A f \in Emails : Addressed(f)
    BY <1>0, <2>3, AddressEffects DEF CancelEmail, Cancelable, Addressed
  <2>4. ASSUME NEW newTo \in Address, RequeueEmail(e, newTo) PROVE \A f \in Emails : Addressed(f)
    BY <1>0, <2>4, AddressEffects DEF RequeueEmail, Requeueable, Addressed
  <2>5. \A f \in Emails : Addressed(f)
    BY <1>1, <2>2, <2>3, <2>4 DEF Requests, Address
  <2>6. \A p \in Procs, f \in Emails : job'[p][f] = job[p][f]
    BY <2>1
  <2> QED BY <1>k, <2>5, <2>6
<1>2. ASSUME NEW p \in Procs, Ticking(p) PROVE AddrInv' /\ \A f \in Emails : Addressed(f)
  <2>1. \A e \in Emails : Addressed(e)
    <3>1. CASE \E S \in Batches \cup {{}} : Claim(S)
      BY <1>0, <3>1, AddressEffects DEF Claim, Batches, Due, IsDue, Addressed
    <3>2. CASE RequeueStaleSending
      BY <1>0, <3>2, AddressEffects DEF RequeueStaleSending, IsStale, Addressed
    <3>3. CASE UNCHANGED email
      BY <3>3 DEF Addressed
    <3> QED BY <1>2, <3>1, <3>2, <3>3 DEF Ticking, BeginTick, ClaimDue, ClaimFails, EndTick
  <2>2. CASE ClaimDue(p)
    <3>1. ASSUME NEW e \in Emails, job'[p][e].phase # "none" PROVE email[e].to # NoAddr
      BY <1>0, <2>2, <3>1, ClaimedOnly DEF AddrInv, Due, IsDue
    <3>2. \A q \in Procs : q # p => job'[q] = job[q]
      BY <1>0, <2>2 DEF ClaimDue
    <3> QED BY <1>k, <2>1, <3>1, <3>2
  <2>3. CASE ~ClaimDue(p)
    <3>1. UNCHANGED job
      BY <1>2, <2>3 DEF Ticking, BeginTick, ClaimFails, EndTick
    <3> QED BY <1>k, <2>1, <3>1
  <2> QED BY <2>2, <2>3
<1>3. ASSUME NEW p \in Procs, NEW e \in Emails, Processing(p, e)
      PROVE  AddrInv' /\ \A f \in Emails : Addressed(f)
  <2>1. job[p][e].phase # "none" /\ email[e].to # NoAddr
    <3>1. job[p][e].phase # "none"
      BY <1>3 DEF Processing, Acquire, Accept, SendReturns, RecordAttempt, MarkSent, MarkRetry,
                  MarkFailed, OnPermanentFailure
    <3> QED BY <3>1 DEF AddrInv
  <2>2. \A q \in Procs, f \in Emails : ~(q = p /\ f = e) => job'[q][f] = job[q][f]
    BY <1>0, <1>3 DEF Processing, Acquire, Accept, SendReturns, RecordAttempt, MarkSent,
                      MarkRetry, MarkFailed, OnPermanentFailure, SetJob
  <2>3. ASSUME NEW r, Write(e, r), SameFirst(r, email[e]) PROVE \A f \in Emails : Addressed(f)
    BY <1>0, <2>1, <2>3 DEF Write, Addressed
  <2>4. CASE MarkRetry(p, e)
    <3> DEFINE wait == Schedule[job[p][e].attempts + 1] - tick[p].age
    <3>1. Write(e, Retried(email[e], wait))
      BY <2>4 DEF MarkRetry
    <3> HIDE DEF wait
    <3>2. \A f \in Emails : Addressed(f)
      BY <1>0, <2>1, <2>3, <3>1, AddressEffects
    <3> QED BY <1>k, <2>1, <2>2, <3>2
  <2>5. CASE MarkSent(p, e) \/ MarkFailed(p, e)
    <3>1. \A f \in Emails : Addressed(f)
      BY <1>0, <2>1, <2>3, <2>5, AddressEffects DEF MarkSent, MarkFailed
    <3> QED BY <1>k, <2>1, <2>2, <3>1
  <2>6. CASE UNCHANGED email
    <3>1. \A f \in Emails : Addressed(f)
      BY <2>6 DEF Addressed
    <3> QED BY <1>k, <2>1, <2>2, <3>1
  <2> QED BY <1>3, <2>4, <2>5, <2>6 DEF Processing, Acquire, Accept, SendReturns, RecordAttempt,
                                        OnPermanentFailure
<1>4. ASSUME NEW p \in Procs, Lifecycle(p) PROVE AddrInv' /\ \A f \in Emails : Addressed(f)
  <2>1. UNCHANGED email
    BY <1>4 DEF Lifecycle, Sigterm, Exit, Crash, Start
  <2>2. \A q \in Procs, e \in Emails : job'[q][e].phase # "none" => job[q][e].phase # "none"
    BY <1>0, <1>4, NoJobPhase DEF Lifecycle, Sigterm, Exit, Crash, Start
  <2> QED BY <1>k, <2>1, <2>2 DEF Addressed
<1>5. CASE TimePasses
  <2>1. \A e \in Emails : Addressed(e)
    <3>1. \A e \in Emails : email[e].to = NoAddr => Later(email[e]) = email[e]
      BY <1>0 DEF Later
    <3> QED BY <1>0, <1>5, <3>1, AddressEffects DEF TimePasses, Addressed
  <2>2. \A q \in Procs, e \in Emails : job'[q][e].phase = job[q][e].phase
    BY <1>0, <1>5, JobEffects DEF TimePasses
  <2> QED BY <1>k, <2>1, <2>2
<1>6. CASE UNCHANGED vars
  BY <1>k, <1>6 DEF vars, Addressed
<1> QED BY <1>1, <1>2, <1>3, <1>4, <1>5, <1>6 DEF Next

\* The address an email was first meant for survives every retry, requeue and
\* re-addressing, in every process.
THEOREM FirstAddressSurvives == Spec => FirstAddressKept
<1>1. Init => AddrInv
  <2> SUFFICES ASSUME Init PROVE AddrInv
    OBVIOUS
  <2> QED BY TypeInit, NoJobPhase DEF Init, AddrInv, NoRow
<1>2. AddrInv /\ [Next]_vars => AddrInv'
  BY AddressStep
<1>3. AddrInv /\ [Next]_vars =>
        [\A e \in Emails : email[e].status # "none" =>
           FirstAddress(email'[e]) = FirstAddress(email[e])]_vars
  BY AddressStep DEF Addressed, SameFirst
<1> QED BY <1>1, <1>2, <1>3, PTL DEF Spec, FirstAddressKept
-----------------------------------------------------------------------------
(* Giving up.                                                               *)

\* What a redeploy costs, it costs between SIGTERM and the exit: a process that
\* was not told to stop gives up no email on a Send it entered in vain, whatever
\* crashes, restarts and store errors went before.
OnlyStoppingSkipsTries ==
  [][\A e \in Emails :
       email[e].status = "sending" /\ email'[e].status = "failed"
       => \E p \in Procs : Holding(p, e) /\ (job[p][e].live \/ proc[p] = "stopping")]_vars

\* A process without goroutines is between two ticks, so nobody gets a slot
\* while no process could pass on a context, and a context that is canceled
\* belongs to a process on its way out.
LiveInv ==
  \A p \in Procs :
    /\ proc[p] = "down" => tick[p].phase = "idle"
    /\ \A e \in Emails : Holding(p, e) /\ job[p][e].phase # "waiting"
                        => job[p][e].live \/ proc[p] = "stopping"

LEMMA LiveEffects ==
  ASSUME NEW j \in Job
  PROVE  /\ \A b \in BOOLEAN : [j EXCEPT !.phase = "sending", !.live = b].live = b
         /\ \A result \in {"ok", "temp", "perm"} :
              [j EXCEPT !.phase = "returned", !.result = result].live = j.live
         /\ [j EXCEPT !.taken = TRUE].live = j.live
         /\ [j EXCEPT !.phase = "recorded"].live = j.live
         /\ Older(j).live = j.live
BY DEF Job, Older

LEMMA LiveStep ==
  ASSUME TypeOK, IdleTicks, LiveInv, [Next]_vars PROVE LiveInv'
<1>0. /\ job \in [Procs -> [Emails -> Job]] /\ proc \in [Procs -> {"up", "stopping", "down"}]
      /\ tick \in [Procs -> [phase: {"idle", "claim", "deliver"}, age: Nat]]
  BY DEF TypeOK
<1>1. ASSUME NEW e \in Emails, Requests(e) PROVE LiveInv'
  BY <1>1 DEF Requests, Enqueue, CancelEmail, RequeueEmail, LiveInv, Holding
<1>2. ASSUME NEW p \in Procs, Ticking(p) PROVE LiveInv'
  <2>1. UNCHANGED proc /\ \A q \in Procs : q # p => tick'[q] = tick[q] /\ job'[q] = job[q]
    BY <1>0, <1>2 DEF Ticking, BeginTick, ClaimDue, ClaimFails, EndTick
  <2>2. tick'[p].phase = "idle" \/ proc[p] # "down"
    BY <1>0, <1>2 DEF Ticking, BeginTick, ClaimDue, ClaimFails, EndTick, LiveInv
  <2>3. \A e \in Emails : job'[p][e] = job[p][e] \/ job'[p][e].phase \in {"none", "waiting"}
    <3>1. CASE ClaimDue(p)
      <4> DEFINE Claims(e) == [NoJob EXCEPT !.phase = "waiting", !.attempts = email[e].attempts,
                                            !.to = email[e].to]
      <4>1. \A e \in Emails : Claims(e).phase = "waiting"
        BY DEF NoJob
      <4>2. PICK S \in Batches :
              job' = [job EXCEPT ![p] = [e \in Emails |-> IF e \in S THEN Claims(e) ELSE NoJob]]
        BY <3>1 DEF ClaimDue
      <4> HIDE DEF Claims
      <4> QED BY <1>0, <4>1, <4>2, NoJobPhase
    <3> QED BY <1>2, <3>1 DEF Ticking, BeginTick, ClaimFails, EndTick
  <2> QED BY <2>1, <2>2, <2>3 DEF LiveInv, Holding
<1>3. ASSUME NEW p \in Procs, NEW e \in Emails, Processing(p, e) PROVE LiveInv'
  <2> DEFINE j == job[p][e]
  <2>1. j \in Job /\ NoJob \in Job
    BY <1>0, NoJobIsJob
  <2>2. UNCHANGED <<proc, tick>>
    BY <1>3 DEF Processing, Acquire, Accept, SendReturns, RecordAttempt, MarkSent, MarkRetry,
                MarkFailed, OnPermanentFailure
  \* The goroutine goes on alive, or it is done with the row.
  <2>3. ASSUME NEW i \in Job, SetJob(p, e, i),
               i.live \/ proc[p] = "stopping" \/ i.phase \in {"none", "failed"}
        PROVE  LiveInv'
    <3>1. \A q \in Procs, f \in Emails : job'[q][f] = IF q = p /\ f = e THEN i ELSE job[q][f]
      BY <1>0, <2>3, SetJobEffect
    <3> QED BY <2>2, <2>3, <3>1 DEF LiveInv, Holding
  <2>4. CASE Acquire(p, e)
    <3> DEFINE i == [j EXCEPT !.phase = "sending", !.live = (proc[p] = "up")]
    <3>1. tick[p].phase # "idle"
      BY <2>4 DEF Acquire, IdleTicks
    <3>2. proc[p] \in {"up", "stopping"}
      BY <1>0, <3>1 DEF LiveInv
    <3>3. SetJob(p, e, i)
      BY <2>4 DEF Acquire
    <3>4. i \in Job /\ i.live = (proc[p] = "up")
      BY <2>1, LiveEffects, JobsStayJobs
    <3> HIDE DEF i
    <3> QED BY <2>3, <3>2, <3>3, <3>4
  <2>5. CASE Accept(p, e)
    <3> DEFINE i == [j EXCEPT !.taken = TRUE]
    <3>1. SetJob(p, e, i) /\ j.live
      BY <2>5 DEF Accept
    <3>2. i \in Job /\ i.live
      BY <2>1, <3>1, LiveEffects, JobsStayJobs
    <3> HIDE DEF i
    <3> QED BY <2>3, <3>1, <3>2
  <2>6. ASSUME NEW result \in {"ok", "temp", "perm"}, SendReturns(p, e, result) PROVE LiveInv'
    <3> DEFINE i == [j EXCEPT !.phase = "returned", !.result = result]
    <3>1. SetJob(p, e, i) /\ (j.live \/ proc[p] = "stopping")
      BY <2>6 DEF SendReturns, LiveInv, Holding
    <3>2. i \in Job
      BY <2>1, JobsStayJobs
    <3>3. i.live = j.live
      BY <2>1, LiveEffects
    <3> HIDE DEF i
    <3> QED BY <2>3, <3>1, <3>2, <3>3
  <2>7. CASE RecordAttempt(p, e)
    <3> DEFINE i == [j EXCEPT !.phase = "recorded"]
    <3>1. SetJob(p, e, i) /\ (j.live \/ proc[p] = "stopping")
      BY <2>7 DEF RecordAttempt, LiveInv, Holding
    <3>2. i \in Job /\ i.live = j.live
      BY <2>1, LiveEffects, JobsStayJobs
    <3> HIDE DEF i
    <3> QED BY <2>3, <3>1, <3>2
  <2>8. CASE MarkSent(p, e) \/ MarkRetry(p, e) \/ OnPermanentFailure(p, e)
    <3>1. SetJob(p, e, NoJob)
      BY <2>8 DEF MarkSent, MarkRetry, OnPermanentFailure
    <3> QED BY <2>1, <2>3, <3>1, NoJobPhase
  <2>9. CASE MarkFailed(p, e)
    <3> DEFINE i == [j EXCEPT !.phase = "failed"]
    <3>1. SetJob(p, e, i)
      BY <2>9 DEF MarkFailed
    <3>2. i \in Job /\ i.phase = "failed"
      BY <2>1, JobEffects, JobsStayJobs
    <3> HIDE DEF i
    <3> QED BY <2>3, <3>1, <3>2
  <2> QED BY <1>3, <2>4, <2>5, <2>6, <2>7, <2>8, <2>9 DEF Processing
<1>4. ASSUME NEW p \in Procs, Lifecycle(p) PROVE LiveInv'
  <2>1. \A q \in Procs : q # p => UNCHANGED <<proc[q], tick[q], job[q]>>
    BY <1>0, <1>4 DEF Lifecycle, Sigterm, Exit, Crash, Start
  <2>2. CASE Sigterm(p)
    <3>1. proc'[p] = "stopping"
      BY <1>0, <2>2 DEF Sigterm
    <3> QED BY <2>1, <3>1 DEF LiveInv, Holding
  <2>3. CASE Exit(p) \/ Crash(p) \/ Start(p)
    <3>1. proc'[p] \in {"up", "down"} /\ tick'[p].phase = "idle"
      BY <1>0, <2>3 DEF Exit, Crash, Start, LiveInv
    <3>2. \A e \in Emails : job'[p][e].phase = "none"
      BY <1>0, <2>3, NoJobPhase DEF Exit, Crash, Start, IdleTicks, LiveInv
    <3> QED BY <2>1, <3>1, <3>2 DEF LiveInv, Holding
  <2> QED BY <1>4, <2>2, <2>3 DEF Lifecycle
<1>5. CASE TimePasses
  <2>1. \A p \in Procs, e \in Emails : /\ job'[p][e].phase = job[p][e].phase
                                       /\ job'[p][e].live = job[p][e].live
    BY <1>0, <1>5, JobEffects, LiveEffects DEF TimePasses
  <2>2. \A p \in Procs : tick'[p].phase = tick[p].phase
    BY <1>0, <1>5 DEF TimePasses, OlderTick
  <2>3. UNCHANGED proc
    BY <1>5 DEF TimePasses
  <2> QED BY <2>1, <2>2, <2>3 DEF LiveInv, Holding
<1>6. CASE UNCHANGED vars
  BY <1>6 DEF vars, LiveInv, Holding
<1> QED BY <1>1, <1>2, <1>3, <1>4, <1>5, <1>6 DEF Next

\* Only MarkFailed gives an email up, and it does so for a goroutine that holds it.
LEMMA GivenUp ==
  ASSUME TypeOK, Next, NEW e \in Emails,
         email[e].status = "sending", email'[e].status = "failed"
  PROVE  \E p \in Procs : MarkFailed(p, e)
<1>0. email \in [Emails -> Row] /\ email[e].status # "failed"
  BY DEF TypeOK
<1>1. ASSUME NEW f \in Emails, Requests(f) PROVE FALSE
  BY <1>0, <1>1, NotFailed DEF Requests, Enqueue, CancelEmail, RequeueEmail
<1>2. ASSUME NEW p \in Procs, Ticking(p) PROVE FALSE
  <2>1. CASE \E S \in Batches \cup {{}} : Claim(S)
    BY <1>0, <2>1, NotFailed DEF Claim
  <2>2. CASE RequeueStaleSending
    BY <1>0, <2>2, NotFailed DEF RequeueStaleSending
  <2> QED BY <1>0, <1>2, <2>1, <2>2 DEF Ticking, BeginTick, ClaimDue, ClaimFails, EndTick
<1>3. ASSUME NEW p \in Procs, NEW f \in Emails, Processing(p, f) PROVE MarkFailed(p, e)
  <2>1. CASE MarkFailed(p, f)
    <3>1. f = e
      BY <1>0, <2>1 DEF MarkFailed, Write
    <3> QED BY <2>1, <3>1
  <2>2. CASE MarkSent(p, f)
    BY <1>0, <2>2, NotFailed DEF MarkSent, Write
  <2>3. CASE MarkRetry(p, f)
    <3> DEFINE wait == Schedule[job[p][f].attempts + 1] - tick[p].age
    <3>1. wait \in Int
      BY <2>3, DeliveryAssumption DEF MarkRetry, RetriesLeft, TypeOK
    <3>2. Write(f, Retried(email[f], wait))
      BY <2>3 DEF MarkRetry
    <3> HIDE DEF wait
    <3> QED BY <1>0, <3>1, <3>2, NotFailed DEF Write
  <2>4. CASE UNCHANGED email
    BY <1>0, <2>4
  <2> QED BY <1>3, <2>1, <2>2, <2>3, <2>4 DEF Processing, Acquire, Accept, SendReturns,
                                              RecordAttempt, OnPermanentFailure
<1>4. ASSUME NEW p \in Procs, Lifecycle(p) PROVE FALSE
  BY <1>0, <1>4 DEF Lifecycle, Sigterm, Exit, Crash, Start
<1>5. CASE TimePasses
  BY <1>0, <1>5, NotFailed DEF TimePasses
<1> QED BY <1>1, <1>2, <1>3, <1>4, <1>5 DEF Next

\* The goroutine that gives an email up was really tried, or its process was
\* told to stop.
LEMMA GivenUpLive ==
  ASSUME TypeOK, LiveInv, Next, NEW e \in Emails,
         email[e].status = "sending", email'[e].status = "failed"
  PROVE  \E p \in Procs : /\ MarkFailed(p, e) /\ Holding(p, e)
                          /\ job[p][e].live \/ proc[p] = "stopping"
<1>1. PICK p \in Procs : MarkFailed(p, e)
  BY GivenUp
<1>2. Holding(p, e) /\ job[p][e].phase # "waiting"
  BY <1>1 DEF MarkFailed, Holding
<1> QED BY <1>1, <1>2 DEF LiveInv

LEMMA LiveInit == Init => TypeOK /\ IdleTicks /\ LiveInv
<1> SUFFICES ASSUME Init PROVE TypeOK /\ IdleTicks /\ LiveInv
  OBVIOUS
<1> QED BY TypeInit, NoJobPhase DEF Init, IdleTicks, LiveInv, Holding

\* Crashes, restarts, failing store calls and operators never make a process
\* give up an email that it did not really try to deliver: only a SIGTERM does.
THEOREM OnlyRedeploysSkipTries == Spec => OnlyStoppingSkipsTries
<1> DEFINE Inv == TypeOK /\ IdleTicks /\ LiveInv
<1>1. Init => Inv
  BY LiveInit
<1>2. Inv /\ [Next]_vars => Inv'
  BY TypeStep, IdleStep, LiveStep
<1>3. Inv /\ [Next]_vars =>
        [\A e \in Emails :
           email[e].status = "sending" /\ email'[e].status = "failed"
           => \E p \in Procs : Holding(p, e) /\ (job[p][e].live \/ proc[p] = "stopping")]_vars
  BY GivenUpLive
<1> QED BY <1>1, <1>2, <1>3, PTL DEF Spec, OnlyStoppingSkipsTries

LEMMA GiveUpStep ==
  ASSUME OwnInv, LiveInv, Next, NEW e \in Emails, Timely(e),
         email[e].status = "sending", email'[e].status = "failed"
  PROVE  \E p \in Procs : MayGiveUp(p, e)
<1>1. PICK p \in Procs : /\ MarkFailed(p, e) /\ Holding(p, e)
                         /\ job[p][e].live \/ proc[p] = "stopping"
  BY GivenUpLive DEF OwnInv
<1>2. job[p][e].result = "perm" \/ ~(job[p][e].attempts + 1 \in 1..Len(Schedule))
  BY <1>1 DEF MarkFailed, RetriesLeft
<1>3. email[e].attempts = job[p][e].attempts
  BY <1>1 DEF OwnInv, Owns
<1>4. job[p][e].attempts \in Nat /\ Len(Schedule) \in Nat
  BY DeliveryAssumption DEF OwnInv, TypeOK, Job
<1>5. job[p][e].result = "perm" \/ email[e].attempts >= Len(Schedule)
  BY <1>2, <1>3, <1>4
<1> QED BY <1>1, <1>5 DEF MayGiveUp

\* However many processes run and whatever admins, crashes and errors do, an
\* email is retried while Schedule has entries, no sooner after its claim than
\* it says, and is given up on a permanent error or with the schedule used up
\* only, unless it waited beyond the headroom of the stale window.
THEOREM RetriesKeepTheSchedule == Spec => ScheduleIsKept
<1> DEFINE Inv == OwnInv /\ AgeInv /\ LiveInv
<1>1. Init => Inv
  BY OwnInit, LiveInit, NoJobPhase, DeliveryAssumption DEF Init, AgeInv, Holding
<1>2. OwnInv /\ [Next]_vars => OwnInv'
  BY OwnStep
<1>3. OwnInv /\ OwnInv' /\ AgeInv /\ [Next]_vars => AgeInv'
  BY AgeStep
<1>4. OwnInv /\ LiveInv /\ [Next]_vars => LiveInv'
  BY LiveStep DEF OwnInv
<1>5. Inv /\ [Next]_vars =>
        [\A e \in Emails : Timely(e) /\ email[e].status = "sending" =>
           /\ email'[e].status = "queued" /\ email'[e].attempts # email[e].attempts
              => RetryIsDue(e)
           /\ email'[e].status = "failed" => \E p \in Procs : MayGiveUp(p, e)]_vars
  BY ScheduleStep, GiveUpStep
<1> QED BY <1>1, <1>2, <1>3, <1>4, <1>5, PTL DEF Spec, ScheduleIsKept
=============================================================================
