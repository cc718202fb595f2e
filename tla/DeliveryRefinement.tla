------------------------- MODULE DeliveryRefinement -------------------------
(***************************************************************************)
(* The worker implements LeaseQueue: the rows of the emails table and the  *)
(* goroutines behave like a queue whose emails are leased to one holder at *)
(* a time.  One process always does so, several as long as no email waits  *)
(* beyond the headroom of the stale window.                                *)
(***************************************************************************)
EXTENDS DeliveryProofs

Held(e) == \E p \in Procs : Holding(p, e)

\* No email ever waited too long: the time that OwnInv asks for.
AllTimely == \A e \in Emails : Timely(e)

\* What a lease needs: one holder, and no tick that takes its row for stale.
Apart ==
  /\ NoConcurrentDelivery
  /\ \A p, q \in Procs, e \in Emails :
       Holding(p, e) /\ tick[q].phase = "idle" => ~IsStale(email[e], StaleWindow)

LEMMA TimelyIsApart ==
  ASSUME OwnInv, AllTimely PROVE Apart /\ Ownership
<1>1. NoConcurrentDelivery /\ Ownership
  BY OwnImplies DEF AllTimely, NoConcurrentDelivery, OnlyLateEmailsOverlap
<1>2. \A p, q \in Procs, e \in Emails :
        Holding(p, e) /\ tick[q].phase = "idle" => ~IsStale(email[e], StaleWindow)
  BY HeldIsFresh DEF AllTimely
<1> QED BY <1>1, <1>2 DEF Apart

\* What each statement does to the status.
LEMMA StatusEffects ==
  ASSUME NEW r \in Row
  PROVE  /\ Claimed(r).status = "sending" /\ Released(r).status = "queued"
         /\ Sent(r).status = "sent" /\ Failed(r).status = "failed"
         /\ Canceled(r).status = "canceled" /\ Later(r).status = r.status
         /\ \A wait \in Int : Retried(r, wait).status = "queued"
         /\ \A newTo : Requeued(r, newTo).status = "queued"
BY DEF Row, Claimed, Released, Sent, Failed, Canceled, Later, Retried, Requeued

\* A step that keeps every status and every holder is a stutter of LeaseQueue.
LEMMA LeaseStutter ==
  ASSUME \A e \in Emails : email'[e].status = email[e].status,
         \A e \in Emails : Held(e)' <=> Held(e)
  PROVE  UNCHANGED Lease!vars
BY DEF Lease!vars, Held

\* A step that moves one email and keeps every holder.
LEMMA LeaseMove ==
  ASSUME email \in [Emails -> Row], NEW e \in Emails, NEW row \in Row,
         email' = [email EXCEPT ![e] = row], UNCHANGED job
  PROVE  /\ email[e].status = "none" /\ row.status = "queued" => Lease!Submit(e)
         /\ email[e].status = "queued" /\ row.status = "canceled" => Lease!Cancel(e)
         /\ Requeueable(email[e]) /\ row.status = "queued" => Lease!Requeue(e)
<1>1. [f \in Emails |-> \E p \in Procs : Holding(p, f)]' =
        [f \in Emails |-> \E p \in Procs : Holding(p, f)]
  BY DEF Holding
<1>2. [f \in Emails |-> email'[f].status] =
        [[f \in Emails |-> email[f].status] EXCEPT ![e] = row.status]
  OBVIOUS
<1> QED BY <1>1, <1>2 DEF Lease!Submit, Lease!Cancel, Lease!Requeue, Lease!Move, Requeueable

\* The holder ends: with a verdict, or without one.
LEMMA LeaseSettle ==
  ASSUME NoConcurrentDelivery, email \in [Emails -> Row], job \in [Procs -> [Emails -> Job]],
         NEW p \in Procs, NEW e \in Emails, NEW j \in Job, j.phase \in {"none", "failed"},
         SetJob(p, e, j), Holding(p, e), email[e].status = "sending",
         NEW row \in Row, row.status \in {"queued", "sent", "failed"},
         \/ email' = [email EXCEPT ![e] = row]
         \/ UNCHANGED email
  PROVE  Lease!Next
<1>1. \A f \in Emails : Held(f)' <=> (Held(f) /\ f # e)
  <2>1. \A q \in Procs, f \in Emails : job'[q][f] = IF q = p /\ f = e THEN j ELSE job[q][f]
    BY SetJobEffect
  <2>2. \A q \in Procs : ~Holding(q, e)'
    BY <2>1 DEF Holding, NoConcurrentDelivery
  <2>3. \A q \in Procs, f \in Emails : f # e => (Holding(q, f)' <=> Holding(q, f))
    BY <2>1 DEF Holding
  <2> QED BY <2>2, <2>3 DEF Held
<1>2. CASE email' = [email EXCEPT ![e] = row]
  <2>1. [f \in Emails |-> email'[f].status] =
          [[f \in Emails |-> email[f].status] EXCEPT ![e] = row.status]
    BY <1>2
  <2>2. [f \in Emails |-> Held(f)]' = [[f \in Emails |-> Held(f)] EXCEPT ![e] = FALSE]
    BY <1>1 DEF Held
  <2>3. Held(e)
    BY DEF Held
  <2>4. Lease!Settle(e, row.status)
    BY <2>1, <2>2, <2>3 DEF Lease!Settle, Lease!Move, Held
  <2> QED BY <2>4 DEF Lease!Next
<1>3. CASE UNCHANGED email
  <2>1. Lease!Drop({e})
    BY <1>1, <1>3 DEF Lease!Drop, Held
  <2> QED BY <2>1 DEF Lease!Next
<1> QED BY <1>2, <1>3

LEMMA LeaseInit == Init => Lease!Init
BY NoJobPhase DEF Init, Lease!Init, Holding, NoRow

LEMMA LeaseStep ==
  AllTimely /\ OwnInv /\ OwnInv' /\ [Next]_vars => [Lease!Next]_(Lease!vars)
<1> SUFFICES ASSUME AllTimely, OwnInv, OwnInv', [Next]_vars
             PROVE  Lease!Next \/ UNCHANGED Lease!vars
  OBVIOUS
<1>0. /\ email \in [Emails -> Row] /\ job \in [Procs -> [Emails -> Job]]
      /\ email' \in [Emails -> Row]
      /\ tick \in [Procs -> [phase: {"idle", "claim", "deliver"}, age: Nat]]
  BY DEF OwnInv, TypeOK
<1>a. Apart /\ Ownership
  BY TimelyIsApart
<1>1. ASSUME NEW e \in Emails, Requests(e) PROVE Lease!Next
  <2>1. CASE CancelEmail(e)
    <3>1. Canceled(email[e]) \in Row /\ Canceled(email[e]).status = "canceled"
      BY <1>0, RowsStayRows, StatusEffects
    <3>2. Lease!Cancel(e)
      BY <1>0, <2>1, <3>1, LeaseMove DEF CancelEmail, Cancelable
    <3> QED BY <3>2 DEF Lease!Next
  <2>2. ASSUME NEW to \in Addrs, Enqueue(e, to) PROVE Lease!Next
    <3>1. Enqueued(to) \in Row /\ Enqueued(to).status = "queued"
      BY DEF Enqueued, Row, Status
    <3>2. Lease!Submit(e)
      BY <1>0, <2>2, <3>1, LeaseMove DEF Enqueue
    <3> QED BY <3>2 DEF Lease!Next
  <2>3. ASSUME NEW newTo \in Address, RequeueEmail(e, newTo) PROVE Lease!Next
    <3>1. Requeued(email[e], newTo) \in Row /\ Requeued(email[e], newTo).status = "queued"
      BY <1>0, RowsStayRows, StatusEffects
    <3>2. Lease!Requeue(e)
      BY <1>0, <2>3, <3>1, LeaseMove DEF RequeueEmail
    <3> QED BY <3>2 DEF Lease!Next
  <2> QED BY <1>1, <2>1, <2>2, <2>3 DEF Requests, Address
<1>2. ASSUME NEW p \in Procs, Ticking(p) PROVE Lease!Next \/ UNCHANGED Lease!vars
  <2>1. \A q \in Procs : q # p => job'[q] = job[q]
    BY <1>0, <1>2 DEF Ticking, BeginTick, ClaimDue, ClaimFails, EndTick
  <2>2. \A e \in Emails : ~Holding(p, e)
    BY <1>0, <1>2 DEF Ticking, BeginTick, ClaimDue, ClaimFails, EndTick, OwnInv,
                      IdleTicks, Holding
  <2>3. CASE BeginTick(p) \/ EndTick(p)
    <3>1. UNCHANGED job
      BY <2>3 DEF BeginTick, EndTick
    <3>2. \A e \in Emails : Held(e)' <=> Held(e)
      BY <3>1 DEF Held, Holding
    <3>3. CASE UNCHANGED email
      BY <3>2, <3>3, LeaseStutter
    <3>4. CASE BeginTick(p) /\ RequeueStaleSending
      <4>0. PICK S \in SUBSET Emails : S = {e \in Emails : IsStale(email[e], StaleWindow)}
        OBVIOUS
      <4>1. \A e \in S : email[e].status = "sending" /\ ~Held(e)
        <5>1. tick[p].phase = "idle"
          BY <3>4 DEF BeginTick
        <5> QED BY <1>a, <4>0, <5>1 DEF IsStale, Apart, Held
      <4>2. \A e \in Emails : email'[e].status = IF e \in S THEN "queued" ELSE email[e].status
        BY <1>0, <3>4, <4>0, StatusEffects DEF RequeueStaleSending
      <4>3. Lease!Release(S)
        BY <3>2, <4>1, <4>2 DEF Lease!Release, Held
      <4> QED BY <4>3 DEF Lease!Next
    <3> QED BY <2>3, <3>3, <3>4 DEF BeginTick, EndTick
  <2>4. ASSUME NEW S \in SUBSET Emails, NEW H \in SUBSET S, Claim(S),
               \A e \in S : email[e].status = "queued",
               \A e \in Emails : Held(e)' <=> (Held(e) \/ e \in H)
        PROVE  Lease!Next
    <3>1. \A e \in Emails : email'[e].status = IF e \in S THEN "sending" ELSE email[e].status
      BY <1>0, <2>4, StatusEffects DEF Claim
    <3>2. Lease!Claim(S, H)
      BY <2>4, <3>1 DEF Lease!Claim, Held
    <3> QED BY <3>2 DEF Lease!Next
  <2>5. \A S \in Batches \cup {{}} : S \in SUBSET Emails /\ \A e \in S : email[e].status = "queued"
    BY DEF Batches, Due, IsDue
  <2>6. CASE ClaimFails(p)
    <3>1. PICK S \in Batches \cup {{}} : Claim(S)
      BY <2>6 DEF ClaimFails
    <3>2. \A e \in Emails : Held(e)' <=> (Held(e) \/ e \in {})
      BY <2>6 DEF ClaimFails, Held, Holding
    <3>3. S \in SUBSET Emails /\ {} \in SUBSET S /\ \A e \in S : email[e].status = "queued"
      BY <2>5
    <3> QED BY <2>4, <3>1, <3>2, <3>3
  <2>7. CASE ClaimDue(p)
    <3> DEFINE Claims(e) == [NoJob EXCEPT !.phase = "waiting", !.attempts = email[e].attempts,
                                          !.to = email[e].to]
    <3>1. \A e \in Emails : Claims(e).phase = "waiting"
      BY <1>0, ClaimedJob
    <3>2. PICK S \in Batches :
             /\ Claim(S)
             /\ job' = [job EXCEPT ![p] = [e \in Emails |-> IF e \in S THEN Claims(e) ELSE NoJob]]
      BY <2>7 DEF ClaimDue
    <3> HIDE DEF Claims
    <3>3. \A e \in Emails : job'[p][e] = IF e \in S THEN Claims(e) ELSE NoJob
      BY <1>0, <3>2
    <3>4. \A e \in Emails : Held(e)' <=> (Held(e) \/ e \in S)
      <4>1. \A e \in Emails : Holding(p, e)' <=> e \in S
        BY <3>1, <3>3, NoJobPhase DEF Holding
      <4>2. \A q \in Procs, e \in Emails : q # p => (Holding(q, e)' <=> Holding(q, e))
        BY <2>1 DEF Holding
      <4> QED BY <2>2, <4>1, <4>2 DEF Held
    <3>5. S \in SUBSET Emails /\ S \in SUBSET S /\ \A e \in S : email[e].status = "queued"
      BY <2>5
    <3> QED BY <2>4, <3>2, <3>4, <3>5
  <2> QED BY <1>2, <2>3, <2>6, <2>7 DEF Ticking
<1>3. ASSUME NEW p \in Procs, NEW e \in Emails, Processing(p, e)
      PROVE  Lease!Next \/ UNCHANGED Lease!vars
  <2> DEFINE j == job[p][e]
  <2>1. /\ j \in Job /\ NoJob \in Job
        /\ Sent(email[e]) \in Row /\ Failed(email[e]) \in Row
        /\ Sent(email[e]).status = "sent" /\ Failed(email[e]).status = "failed"
    BY <1>0, NoJobIsJob, RowsStayRows, StatusEffects
  <2>2. ASSUME NEW i \in Job, SetJob(p, e, i), UNCHANGED email,
               Holding(p, e) <=> i.phase \in {"waiting", "sending", "returned", "recorded"}
        PROVE  UNCHANGED Lease!vars
    <3>1. \A f \in Emails : Held(f)' <=> Held(f)
      BY <1>0, <2>2, SetJobEffect DEF Held, Holding
    <3> QED BY <2>2, <3>1, LeaseStutter
  <2>3. CASE Acquire(p, e)
    <3>1. PICK b \in BOOLEAN : b = (proc[p] = "up")
      OBVIOUS
    <3> DEFINE i == [j EXCEPT !.phase = "sending", !.live = b]
    <3>2. i \in Job
      BY <2>1, JobsStayJobs
    <3>3. i.phase = "sending"
      BY <2>1, JobEffects
    <3>4. SetJob(p, e, i) /\ j.phase = "waiting" /\ UNCHANGED email
      BY <2>3, <3>1 DEF Acquire
    <3> HIDE DEF i
    <3> QED BY <2>2, <3>2, <3>3, <3>4 DEF Holding
  <2>4. CASE Accept(p, e)
    <3> DEFINE i == [j EXCEPT !.taken = TRUE]
    <3>1. i \in Job /\ i.phase = j.phase
      BY <2>1, JobsStayJobs, JobEffects
    <3>2. SetJob(p, e, i) /\ UNCHANGED email
      BY <2>4 DEF Accept
    <3> HIDE DEF i
    <3> QED BY <2>2, <3>1, <3>2 DEF Holding
  <2>5. ASSUME NEW result \in {"ok", "temp", "perm"}, SendReturns(p, e, result)
        PROVE  UNCHANGED Lease!vars
    <3> DEFINE i == [j EXCEPT !.phase = "returned", !.result = result]
    <3>1. i \in Job
      BY <2>1, JobsStayJobs
    <3>2. i.phase = "returned"
      BY <2>1, JobEffects
    <3>3. SetJob(p, e, i) /\ j.phase = "sending" /\ UNCHANGED email
      BY <2>5 DEF SendReturns
    <3> HIDE DEF i
    <3> QED BY <2>2, <3>1, <3>2, <3>3 DEF Holding
  <2>6. CASE RecordAttempt(p, e)
    <3> DEFINE i == [j EXCEPT !.phase = "recorded"]
    <3>1. i \in Job /\ i.phase = "recorded"
      BY <2>1, JobsStayJobs, JobEffects
    <3>2. SetJob(p, e, i) /\ j.phase = "returned" /\ UNCHANGED email
      BY <2>6 DEF RecordAttempt
    <3> HIDE DEF i
    <3> QED BY <2>2, <3>1, <3>2 DEF Holding
  <2>7. Holding(p, e) => email[e].status = "sending"
    BY <1>a DEF AllTimely, Ownership
  <2>8. CASE MarkSent(p, e)
    <3>1. SetJob(p, e, NoJob) /\ Holding(p, e)
      BY <2>8 DEF MarkSent, Holding
    <3>2. email' = [email EXCEPT ![e] = Sent(email[e])] \/ UNCHANGED email
      BY <2>8 DEF MarkSent, Write
    <3> QED BY <1>0, <1>a, <2>1, <2>7, <3>1, <3>2, NoJobPhase, LeaseSettle DEF Apart
  <2>9. CASE MarkRetry(p, e)
    <3> DEFINE wait == Schedule[j.attempts + 1] - tick[p].age
               row == Retried(email[e], wait)
    <3>1. wait \in Int
      BY <1>0, <2>9, DeliveryAssumption DEF MarkRetry, RetriesLeft
    <3>2. row \in Row
      BY <1>0, <3>1, RowsStayRows
    <3>3. row.status = "queued"
      BY <1>0, <3>1, StatusEffects
    <3>4. /\ SetJob(p, e, NoJob) /\ Holding(p, e)
          /\ email' = [email EXCEPT ![e] = row] \/ UNCHANGED email
      BY <2>9 DEF MarkRetry, Write, Holding
    <3> HIDE DEF row
    <3> QED BY <1>0, <1>a, <2>1, <2>7, <3>2, <3>3, <3>4, NoJobPhase, LeaseSettle DEF Apart
  <2>10. CASE MarkFailed(p, e)
    <3> DEFINE i == [j EXCEPT !.phase = "failed"]
    <3>1. i \in Job /\ i.phase = "failed"
      BY <2>1, JobsStayJobs, JobEffects
    <3>2. /\ SetJob(p, e, i) /\ Holding(p, e)
          /\ email' = [email EXCEPT ![e] = Failed(email[e])] \/ UNCHANGED email
      BY <2>10 DEF MarkFailed, Write, Holding
    <3> HIDE DEF i
    <3> QED BY <1>0, <1>a, <2>1, <2>7, <3>1, <3>2, LeaseSettle DEF Apart
  <2>11. CASE OnPermanentFailure(p, e)
    <3>1. SetJob(p, e, NoJob) /\ j.phase = "failed" /\ UNCHANGED email
      BY <2>11 DEF OnPermanentFailure
    <3> QED BY <2>1, <2>2, <3>1, NoJobPhase DEF Holding
  <2> QED BY <1>3, <2>3, <2>4, <2>5, <2>6, <2>8, <2>9, <2>10, <2>11 DEF Processing
<1>4. ASSUME NEW p \in Procs, Lifecycle(p) PROVE Lease!Next \/ UNCHANGED Lease!vars
  <2>1. CASE Sigterm(p) \/ Exit(p) \/ Start(p)
    <3>1. UNCHANGED <<email, job>>
      BY <2>1 DEF Sigterm, Exit, Start
    <3> QED BY <3>1, LeaseStutter DEF Held, Holding
  <2>2. CASE Crash(p)
    <3> DEFINE S == {e \in Emails : Holding(p, e)}
    <3>1. \A q \in Procs, e \in Emails : Holding(q, e)' <=> (q # p /\ Holding(q, e))
      BY <1>0, <2>2, NoJobPhase DEF Crash, Holding
    <3>2. \A e \in Emails : Held(e)' <=> (Held(e) /\ e \notin S)
      BY <1>a, <3>1 DEF Held, Apart, NoConcurrentDelivery
    <3>3. UNCHANGED email /\ S \in SUBSET Emails
      BY <2>2 DEF Crash
    <3> HIDE DEF S
    <3>4. Lease!Drop(S)
      BY <3>2, <3>3 DEF Lease!Drop, Held
    <3> QED BY <3>3, <3>4 DEF Lease!Next
  <2> QED BY <1>4, <2>1, <2>2 DEF Lifecycle
<1>5. CASE TimePasses
  <2>1. \A e \in Emails : email'[e].status = email[e].status
    BY <1>0, <1>5, StatusEffects DEF TimePasses
  <2>2. \A q \in Procs, e \in Emails : job'[q][e].phase = job[q][e].phase
    BY <1>0, <1>5, JobEffects DEF TimePasses
  <2> QED BY <2>1, <2>2, LeaseStutter DEF Held, Holding
<1>6. CASE UNCHANGED vars
  BY <1>6, LeaseStutter DEF vars, Held, Holding
<1> QED BY <1>1, <1>2, <1>3, <1>4, <1>5, <1>6 DEF Next

\* Any number of worker processes implement the lease, with any batches and
\* slots, as long as no email waits beyond the headroom of the stale window:
\* an email that is leased moves by the verdict of its holder, or, once nobody
\* holds it, back to the queue.
THEOREM WorkersImplementLease == Spec /\ []AllTimely => ImplementsLease
<1>1. OwnInv /\ [Next]_vars => OwnInv'
  BY OwnStep
<1>2. AllTimely /\ OwnInv /\ OwnInv' /\ [Next]_vars => [Lease!Next]_(Lease!vars)
  BY LeaseStep
<1> QED BY OwnInit, LeaseInit, <1>1, <1>2, PTL DEF Spec, ImplementsLease, Lease!Spec

\* One worker process implements it whatever happens: there is nobody who could
\* take a row from it.
THEOREM WorkerImplementsLease == ASSUME SingleProcess PROVE Spec => ImplementsLease
<1>1. OwnInv /\ [Next]_vars => OwnInv'
  BY OwnStep
<1>2. AllTimely
  BY DEF AllTimely, Timely
<1>3. OwnInv /\ OwnInv' /\ [Next]_vars => [Lease!Next]_(Lease!vars)
  BY <1>2, LeaseStep
<1> QED BY OwnInit, LeaseInit, <1>1, <1>3, PTL DEF Spec, ImplementsLease, Lease!Spec
=============================================================================
