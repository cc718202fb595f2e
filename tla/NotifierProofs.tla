--------------------------- MODULE NotifierProofs ---------------------------
(***************************************************************************)
(* The notifier, for any emails, bounds, thresholds and calendars: the     *)
(* loop guard and the cooldown of the digest, one alert per incident, and  *)
(* one report per month.                                                   *)
(***************************************************************************)
EXTENDS Notifier, FiniteSetTheorems, TLAPS

\* A behaviour follows one ticker, and moves it by the steps of that ticker.
LEMMA FollowsDigest ==
  ticker = "digest" /\ [Next]_vars => ticker' = "digest" /\ [Digest!Next]_(Digest!vars)
BY DEF Next, Follows, vars, digestVars, Digest!vars

LEMMA FollowsRate ==
  ticker = "rate" /\ [Next]_vars => ticker' = "rate" /\ [Rate!Next]_(Rate!vars)
BY DEF Next, Follows, vars, rateVars, Rate!vars

-----------------------------------------------------------------------------
(* The digest.                                                              *)

\* A failure that is pending has not been named yet, except between EnqueueDigest
\* and ClearPendingFailures.
Unnamed(e) == e \in pending /\ ~(phase = "enqueued" /\ e \in batch)

\* Until it is cleared, what was listed stays pending, and it is not empty.
ListedIsPending ==
  phase \in {"listed", "ready", "enqueued"} => batch \subseteq pending /\ batch # {}

NamedInv ==
  \A e \in Emails : named[e] + (IF Unnamed(e) THEN 1 ELSE 0) <= fails[e] + faults

\* The marker of the last digest runs with the clock of its tick.
MarkerInv ==
  faults = 0 =>
    /\ phase \in {"idle", "listed", "ready"} => marker = sinceLast
    /\ phase \in {"enqueued", "cleared"} => sinceLast = age
    /\ phase = "ready" => sinceLast - age >= Cooldown

LEMMA DigestTypeStep == Digest!TypeOK /\ [Digest!Next]_(Digest!vars) => Digest!TypeOK'
<1> SUFFICES ASSUME Digest!TypeOK, [Digest!Next]_(Digest!vars) PROVE Digest!TypeOK'
  OBVIOUS
<1> USE NotifierAssumption DEF Digest!DigestAssumption, Digest!TypeOK, Digest!All, Digest!Never,
        Digest!Fault, Digest!NoFault, Digest!Goto, Digest!Digesting
<1>1. ASSUME NEW e \in Emails, Digest!UserFailure(e) PROVE Digest!TypeOK'
  <2>1. fails' \in [Emails -> 0..MaxFails] /\ faults' \in 0..MaxFaults
    BY <1>1 DEF Digest!UserFailure
  <2>2. pending' \in SUBSET (Emails \cup {SysMail})
    BY <1>1 DEF Digest!UserFailure
  <2>3. owed' \in SUBSET Emails
    BY <1>1 DEF Digest!UserFailure
  <2> QED BY <1>1, <2>1, <2>2, <2>3 DEF Digest!UserFailure
<1>2. CASE Digest!SystemFailure \/ Digest!SystemSent
  BY <1>2 DEF Digest!SystemFailure, Digest!SystemSent
<1>d. CASE Digest!DomainChecked
  <2>1. verified' \in BOOLEAN
    BY <1>d DEF Digest!DomainChecked
  <2>2. /\ flips' \in 0..MaxFlips
        /\ UNCHANGED <<pending, outbox, fails, owed, faults>> /\ UNCHANGED Digest!Digesting
    BY <1>d DEF Digest!DomainChecked
  <2> QED BY <2>1, <2>2
<1>3. CASE Digest!ListPendingFailures
  BY <1>3 DEF Digest!ListPendingFailures
<1>4. CASE Digest!CheckCooldown \/ Digest!SkipDigest
  BY <1>4 DEF Digest!CheckCooldown, Digest!SkipDigest
<1>5. CASE Digest!EnqueueDigest
  BY <1>5 DEF Digest!EnqueueDigest
<1>6. CASE Digest!ClearPendingFailures \/ Digest!SetMarker \/ Digest!Crash
  BY <1>6 DEF Digest!ClearPendingFailures, Digest!SetMarker, Digest!Crash
<1>7. CASE Digest!TimePasses
  BY <1>7 DEF Digest!TimePasses, Digest!Aged
<1>8. CASE UNCHANGED Digest!vars
  BY <1>8 DEF Digest!vars
<1> QED BY <1>1, <1>2, <1>d, <1>3, <1>4, <1>5, <1>6, <1>7, <1>8
        DEF Digest!Next, Digest!DigestTick

DigestInv == Digest!TypeOK /\ ListedIsPending /\ NamedInv /\ MarkerInv

LEMMA DigestStep == DigestInv /\ [Digest!Next]_(Digest!vars) => DigestInv'
<1> SUFFICES ASSUME DigestInv, [Digest!Next]_(Digest!vars)
             PROVE  ListedIsPending' /\ NamedInv' /\ MarkerInv'
  BY DigestTypeStep DEF DigestInv
<1>0. Digest!TypeOK /\ Digest!TypeOK' /\ ListedIsPending /\ NamedInv /\ MarkerInv
  BY DigestTypeStep DEF DigestInv
<1> USE NotifierAssumption DEF Digest!DigestAssumption, Digest!TypeOK, Digest!All, Digest!Never,
        Digest!Fault, Digest!NoFault, Digest!Goto, Digest!Digesting
<1>1. ASSUME NEW e \in Emails, Digest!UserFailure(e)
      PROVE  ListedIsPending' /\ NamedInv' /\ MarkerInv'
  <2>1. ListedIsPending' /\ MarkerInv'
    BY <1>0, <1>1 DEF Digest!UserFailure, ListedIsPending, MarkerInv
  <2>2. NamedInv'
    BY <1>0, <1>1 DEF Digest!UserFailure, NamedInv, Unnamed
  <2> QED BY <2>1, <2>2
<1>2. CASE Digest!SystemFailure \/ Digest!SystemSent \/ Digest!DomainChecked
  BY <1>0, <1>2 DEF Digest!SystemFailure, Digest!SystemSent, Digest!DomainChecked,
                    ListedIsPending, NamedInv, MarkerInv, Unnamed
<1>3. CASE Digest!ListPendingFailures
  BY <1>0, <1>3 DEF Digest!ListPendingFailures, ListedIsPending, NamedInv, MarkerInv, Unnamed
<1>4. CASE Digest!CheckCooldown
  <2>1. ListedIsPending' /\ MarkerInv'
    BY <1>0, <1>4 DEF Digest!CheckCooldown, ListedIsPending, MarkerInv
  <2>2. NamedInv'
    BY <1>0, <1>4 DEF Digest!CheckCooldown, NamedInv, Unnamed
  <2> QED BY <2>1, <2>2
<1>5. CASE Digest!SkipDigest
  <2>1. ListedIsPending' /\ MarkerInv'
    BY <1>0, <1>5 DEF Digest!SkipDigest, ListedIsPending, MarkerInv
  <2>2. NamedInv'
    BY <1>0, <1>5 DEF Digest!SkipDigest, NamedInv, Unnamed
  <2> QED BY <2>1, <2>2
<1>6. CASE Digest!EnqueueDigest
  <2>1. ListedIsPending' /\ MarkerInv'
    BY <1>0, <1>6 DEF Digest!EnqueueDigest, ListedIsPending, MarkerInv
  <2>2. NamedInv'
    BY <1>0, <1>6 DEF Digest!EnqueueDigest, ListedIsPending, NamedInv, Unnamed
  <2> QED BY <2>1, <2>2
<1>7. CASE Digest!ClearPendingFailures
  <2>1. ListedIsPending' /\ MarkerInv'
    BY <1>0, <1>7 DEF Digest!ClearPendingFailures, ListedIsPending, MarkerInv
  <2>2. NamedInv'
    BY <1>0, <1>7 DEF Digest!ClearPendingFailures, NamedInv, Unnamed
  <2> QED BY <2>1, <2>2
<1>8. CASE Digest!SetMarker
  <2>1. ListedIsPending' /\ MarkerInv'
    BY <1>0, <1>8 DEF Digest!SetMarker, ListedIsPending, MarkerInv
  <2>2. NamedInv'
    BY <1>0, <1>8 DEF Digest!SetMarker, NamedInv, Unnamed
  <2> QED BY <2>1, <2>2
<1>9. CASE Digest!Crash
  <2>1. ListedIsPending' /\ MarkerInv'
    BY <1>0, <1>9 DEF Digest!Crash, ListedIsPending, MarkerInv
  <2>2. NamedInv'
    BY <1>0, <1>9 DEF Digest!Crash, NamedInv, Unnamed
  <2> QED BY <2>1, <2>2
<1>10. CASE Digest!TimePasses
  <2>1. ListedIsPending' /\ NamedInv'
    BY <1>0, <1>10 DEF Digest!TimePasses, ListedIsPending, NamedInv, Unnamed
  <2>2. MarkerInv'
    BY <1>0, <1>10 DEF Digest!TimePasses, Digest!Aged, MarkerInv
  <2> QED BY <2>1, <2>2
<1>11. CASE UNCHANGED Digest!vars
  BY <1>0, <1>11 DEF Digest!vars, ListedIsPending, NamedInv, MarkerInv, Unnamed
<1> QED BY <1>1, <1>2, <1>3, <1>4, <1>5, <1>6, <1>7, <1>8, <1>9, <1>10, <1>11
        DEF Digest!Next, Digest!DigestTick

LEMMA DigestInit == Init => DigestInv
<1> SUFFICES ASSUME Init PROVE DigestInv
  OBVIOUS
<1> QED BY NotifierAssumption DEF Init, Digest!Init, Digest!DigestAssumption, Digest!TypeOK,
           Digest!All, Digest!Never, DigestInv, ListedIsPending, NamedInv, MarkerInv, Unnamed

LEMMA RateFaults == Rate!Next => faults' \in {faults, faults + 1}
<1> SUFFICES ASSUME Rate!Next PROVE faults' \in {faults, faults + 1}
  OBVIOUS
<1> USE DEF Rate!Fault, Rate!NoFault
<1>1. ASSUME NEW k \in Rate!Kind, Rate!Attempt(k) \/ Rate!Expire(k) PROVE faults' = faults
  BY <1>1 DEF Rate!Attempt, Rate!Expire
<1>2. ASSUME Rate!DomainChecked \/ Rate!CountAttempts \/ Rate!Nothing PROVE faults' = faults
  BY <1>2 DEF Rate!DomainChecked, Rate!CountAttempts, Rate!Nothing
<1>3. CASE Rate!ReadFired
  BY <1>3 DEF Rate!ReadFired
<1>4. CASE Rate!EnqueueAlert
  BY <1>4 DEF Rate!EnqueueAlert
<1>5. CASE Rate!SetFired
  BY <1>5 DEF Rate!SetFired
<1>6. CASE Rate!ReArm
  BY <1>6 DEF Rate!ReArm
<1>7. CASE Rate!Crash
  BY <1>7 DEF Rate!Crash
<1> QED BY <1>1, <1>2, <1>3, <1>4, <1>5, <1>6, <1>7 DEF Rate!Next, Rate!RateTick

LEMMA StatsFaults == Stats!Next => faults' \in {faults, faults + 1}
<1> SUFFICES ASSUME Stats!Next PROVE faults' \in {faults, faults + 1}
  OBVIOUS
<1> USE DEF Stats!Fault, Stats!NoFault, Stats!WriteMarker
<1>1. CASE Stats!NextMonth \/ Stats!DomainChecked \/ Stats!StatsTick
  BY <1>1 DEF Stats!NextMonth, Stats!DomainChecked, Stats!StatsTick
<1>2. CASE Stats!ReadMarker
  BY <1>2 DEF Stats!ReadMarker
<1>3. CASE Stats!FreshInstall
  BY <1>3 DEF Stats!FreshInstall
<1>4. CASE Stats!Report
  BY <1>4 DEF Stats!Report
<1>5. CASE Stats!SetMarker
  BY <1>5 DEF Stats!SetMarker
<1>6. CASE Stats!Crash
  BY <1>6 DEF Stats!Crash
<1> QED BY <1>1, <1>2, <1>3, <1>4, <1>5, <1>6 DEF Stats!Next, Stats!Ticking

\* The other tickers leave the digest as it was, and take no fault back.
LEMMA DigestRests ==
  ticker # "digest" /\ [Next]_vars =>
    ticker' = ticker /\ UNCHANGED digestVars /\ faults' \in {faults, faults + 1}
<1> SUFFICES ASSUME ticker # "digest", [Next]_vars
             PROVE  /\ ticker' = ticker /\ UNCHANGED digestVars
                    /\ faults' \in {faults, faults + 1}
  OBVIOUS
<1>1. CASE UNCHANGED vars
  BY <1>1 DEF vars
<1>2. CASE Next
  <2>1. ticker' = ticker /\ UNCHANGED digestVars /\ (Rate!Next \/ Stats!Next)
    BY <1>2 DEF Next, Follows
  <2>2. CASE Rate!Next
    BY <2>1, <2>2, RateFaults
  <2>3. CASE Stats!Next
    BY <2>1, <2>3, StatsFaults
  <2> QED BY <2>1, <2>2, <2>3
<1> QED BY <1>1, <1>2

\* In every behaviour: the invariant of the digest, or nothing ever failed.
Resting == /\ faults \in Nat /\ digests = 0
           /\ \A e \in Emails : named[e] = 0 /\ fails[e] = 0
DigestOrRest == IF ticker = "digest" THEN DigestInv ELSE Resting

LEMMA DigestOrRestStep == DigestOrRest /\ [Next]_vars => DigestOrRest'
<1> SUFFICES ASSUME DigestOrRest, [Next]_vars PROVE DigestOrRest'
  OBVIOUS
<1>1. CASE ticker = "digest"
  BY <1>1, FollowsDigest, DigestStep DEF DigestOrRest
<1>2. CASE ticker # "digest"
  BY <1>2, DigestRests DEF DigestOrRest, Resting, digestVars
<1> QED BY <1>1, <1>2

LEMMA DigestOrRestInit == Init => DigestOrRest
<1> SUFFICES ASSUME Init PROVE DigestOrRest
  OBVIOUS
<1>1. Resting
  BY DEF Init, Digest!Init, Digest!All, Resting
<1> QED BY <1>1, DigestInit DEF DigestOrRest

\* However failures, digests, faults and the clock interleave, an email is named
\* in one digest for each time it failed, but for the faults.
THEOREM FailuresAreNamedOnce == Spec => []NamedOnce
<1>1. DigestOrRest /\ [Next]_vars => DigestOrRest'
  BY DigestOrRestStep
<1>2. DigestOrRest => NamedOnce
  <2> SUFFICES ASSUME DigestOrRest, NEW e \in Emails PROVE named[e] <= fails[e] + faults
    BY DEF NamedOnce, Digest!NamedOnce
  <2>1. CASE ticker = "digest"
    BY <2>1, NotifierAssumption DEF DigestOrRest, DigestInv, NamedInv, Digest!TypeOK, Digest!All,
                                    Digest!DigestAssumption
  <2>2. CASE ticker # "digest"
    BY <2>2 DEF DigestOrRest, Resting
  <2> QED BY <2>1, <2>2
<1> QED BY DigestOrRestInit, <1>1, <1>2, PTL DEF Spec

\* For any cooldown: without a fault, the ticks of two digests are at least
\* Cooldown apart, at whatever points of a tick the clock goes on.
THEOREM DigestsAreApart == Spec => CooldownHolds
<1>1. DigestOrRest /\ [Next]_vars => DigestOrRest'
  BY DigestOrRestStep
<1>2. DigestOrRest /\ [Next]_vars =>
        [digests' > digests /\ faults' = 0 => sinceLast - age >= Cooldown]_(Digest!vars)
  <2> SUFFICES ASSUME DigestOrRest, [Next]_vars, digests' > digests, faults' = 0
               PROVE  sinceLast - age >= Cooldown
    OBVIOUS
  <2>1. CASE ticker = "digest"
    <3>1. DigestInv /\ Digest!TypeOK /\ [Digest!Next]_(Digest!vars)
      BY <2>1, FollowsDigest DEF DigestOrRest, DigestInv
    <3>2. digests \in Nat
      BY <3>1 DEF Digest!TypeOK
    <3>3. Digest!EnqueueDigest
      BY <3>1, <3>2 DEF Digest!Next, Digest!DigestTick, Digest!UserFailure, Digest!SystemFailure,
           Digest!SystemSent, Digest!DomainChecked, Digest!ListPendingFailures,
           Digest!CheckCooldown, Digest!SkipDigest, Digest!ClearPendingFailures,
           Digest!SetMarker, Digest!Crash, Digest!TimePasses, Digest!Digesting, Digest!vars
    <3>4. faults = 0 /\ phase = "ready"
      BY <3>3 DEF Digest!EnqueueDigest
    <3> QED BY <3>1, <3>4 DEF DigestInv, MarkerInv
  <2>2. CASE ticker # "digest"
    <3>1. digests \in Nat /\ digests' = digests
      BY <2>2, DigestRests DEF DigestOrRest, Resting, digestVars
    <3> QED BY <3>1
  <2> QED BY <2>1, <2>2
<1> QED BY DigestOrRestInit, <1>1, <1>2, PTL DEF Spec, CooldownHolds, Digest!CooldownHolds

-----------------------------------------------------------------------------
(* The failure-rate alert.                                                  *)

\* Unless a fault hit, the marker stands for the alert of the incident; and a
\* rate that was read below the threshold has ended the incident.
RateInv ==
  /\ alerts \in Nat /\ faults \in Nat
  /\ phase \in {"counted", "decide"} /\ Rate!BelowThreshold(seen) => calm
  /\ faults = 0 =>
       /\ calm \/ fired \/ phase = "alerted"
       /\ phase = "decide" => (seenFired <=> fired)

LEMMA RateStep ==
  RateInv /\ [Rate!Next]_(Rate!vars) =>
    RateInv' /\ (alerts' > alerts => calm \/ faults > 0)
<1> SUFFICES ASSUME RateInv, [Rate!Next]_(Rate!vars)
             PROVE  RateInv' /\ (alerts' > alerts => calm \/ faults > 0)
  OBVIOUS
<1> USE DEF RateInv, Rate!Fault, Rate!NoFault, Rate!Goto
<1>1. ASSUME NEW k \in Rate!Kind, Rate!Attempt(k) \/ Rate!Expire(k)
      PROVE  RateInv' /\ (alerts' > alerts => calm \/ faults > 0)
  BY <1>1 DEF Rate!Attempt, Rate!Expire
<1>2. CASE Rate!DomainChecked
  BY <1>2 DEF Rate!DomainChecked
<1>3. CASE Rate!CountAttempts
  <2>1. /\ phase = "idle" /\ phase' = "counted" /\ seen' = window
        /\ calm' = (calm \/ Rate!BelowThreshold(window))
        /\ UNCHANGED <<alerts, fired, faults>>
    BY <1>3 DEF Rate!CountAttempts
  <2>2. (calm => calm') /\ (Rate!BelowThreshold(seen') => calm')
    BY <2>1
  <2>3. alerts' \in Nat /\ faults' \in Nat /\ ~(alerts' > alerts)
    BY <2>1
  <2>4. faults' = 0 => calm' \/ fired'
    BY <2>1, <2>2
  <2> QED BY <2>1, <2>2, <2>3, <2>4
<1>4. CASE Rate!ReadFired
  <2>1. /\ phase = "counted" /\ phase' = "decide"
        /\ UNCHANGED <<seen, calm, alerts, fired>>
        /\ \/ seenFired' = fired /\ faults' = faults
           \/ faults' = faults + 1
    BY <1>4 DEF Rate!ReadFired
  <2>2. alerts' \in Nat /\ faults' \in Nat /\ ~(alerts' > alerts)
    BY <2>1
  <2>3. phase' \in {"counted", "decide"} /\ Rate!BelowThreshold(seen') => calm'
    BY <2>1
  <2>4. faults' = 0 => faults = 0 /\ seenFired' = fired
    BY <2>1
  <2> QED BY <2>1, <2>2, <2>3, <2>4
<1>5. CASE Rate!EnqueueAlert
  BY <1>5 DEF Rate!EnqueueAlert
<1>6. CASE Rate!SetFired
  BY <1>6 DEF Rate!SetFired
<1>7. CASE Rate!ReArm
  BY <1>7 DEF Rate!ReArm
<1>8. CASE Rate!Nothing
  BY <1>8 DEF Rate!Nothing
<1>9. CASE Rate!Crash
  BY <1>9 DEF Rate!Crash
<1>10. CASE UNCHANGED Rate!vars
  BY <1>10 DEF Rate!vars
<1> QED BY <1>1, <1>2, <1>3, <1>4, <1>5, <1>6, <1>7, <1>8, <1>9, <1>10
        DEF Rate!Next, Rate!RateTick

LEMMA RateInit == Init => RateInv
BY DEF Init, Rate!Init, RateInv

RateOrRest == IF ticker = "rate" THEN RateInv ELSE alerts = 0

LEMMA RateOrRestStep ==
  RateOrRest /\ [Next]_vars => RateOrRest' /\ (alerts' > alerts => calm \/ faults > 0)
<1> SUFFICES ASSUME RateOrRest, [Next]_vars
             PROVE  RateOrRest' /\ (alerts' > alerts => calm \/ faults > 0)
  OBVIOUS
<1>1. CASE ticker = "rate"
  BY <1>1, FollowsRate, RateStep DEF RateOrRest
<1>2. CASE ticker # "rate"
  <2>1. ticker' = ticker /\ alerts' = alerts /\ alerts = 0
    BY <1>2 DEF Next, Follows, vars, rateVars, RateOrRest
  <2> QED BY <1>2, <2>1 DEF RateOrRest
<1> QED BY <1>1, <1>2

\* For any threshold and any window: without a fault, a second alert goes out
\* only after a tick has read the rate below the threshold.
THEOREM OneAlertPerIncident == Spec => OncePerIncident
<1>1. Init => RateOrRest
  <2> SUFFICES ASSUME Init PROVE RateOrRest
    OBVIOUS
  <2>1. alerts = 0
    BY DEF Init, Rate!Init
  <2> QED BY <2>1, RateInit DEF RateOrRest
<1>2. RateOrRest /\ [Next]_vars => RateOrRest'
  BY RateOrRestStep
<1>3. RateOrRest /\ [Next]_vars => [alerts' > alerts => calm \/ faults > 0]_(Rate!vars)
  BY RateOrRestStep
<1> QED BY <1>1, <1>2, <1>3, PTL DEF Spec, OncePerIncident, Rate!OncePerIncident

-----------------------------------------------------------------------------
(* The loop guard of the digest.                                            *)

\* The failures so far, each as the email and which failure of it.
Failures == {f \in Emails \X (1..MaxFails) : f[2] <= fails[f[1]]}

\* A digest to come is one more, unless it is out and not cleared yet.
DigestDue == IF pending # {} /\ phase # "enqueued" THEN 1 ELSE 0
LoopInv == digests + DigestDue <= Cardinality(Failures) + faults

LEMMA FailuresAreFinite ==
  ASSUME IsFiniteSet(Emails), Digest!TypeOK
  PROVE  IsFiniteSet(Failures) /\ Cardinality(Failures) \in Nat
<1>1. IsFiniteSet(Emails \X (1..MaxFails))
  <2>1. MaxFails \in Int /\ 1 \in Int
    BY NotifierAssumption DEF Digest!DigestAssumption
  <2>2. IsFiniteSet(1..MaxFails)
    BY <2>1, FS_Interval
  <2> QED BY <2>2, FS_Product
<1>2. IsFiniteSet(Failures)
  BY <1>1, FS_Subset DEF Failures
<1> QED BY <1>2, FS_CardinalityType

\* A failure that reaches the hook counts one.
LEMMA OneFailureMore ==
  ASSUME IsFiniteSet(Emails), Digest!TypeOK, NEW e \in Emails, fails[e] < MaxFails,
         fails' = [fails EXCEPT ![e] = @ + 1]
  PROVE  Cardinality(Failures)' = Cardinality(Failures) + 1
<1>0. fails \in [Emails -> 0..MaxFails] /\ MaxFails \in Nat
  BY NotifierAssumption DEF Digest!TypeOK, Digest!DigestAssumption
<1>1. Failures' = Failures \cup {<<e, fails[e] + 1>>}
  <2>1. <<e, fails[e] + 1>> \in Emails \X (1..MaxFails)
    BY <1>0
  <2>2. ASSUME NEW f \in Emails \X (1..MaxFails)
        PROVE  f[2] <= fails'[f[1]] <=> (f[2] <= fails[f[1]] \/ f = <<e, fails[e] + 1>>)
    <3>1. PICK g \in Emails, k \in 1..MaxFails : f = <<g, k>>
      BY <2>2
    <3>2. k <= fails'[g] <=> (k <= fails[g] \/ (g = e /\ k = fails[e] + 1))
      BY <1>0, <3>1
    <3> QED BY <3>1, <3>2
  <2> QED BY <2>1, <2>2 DEF Failures
<1>2. <<e, fails[e] + 1>> \notin Failures
  BY <1>0 DEF Failures
<1> QED BY <1>1, <1>2, FailuresAreFinite, FS_AddElement

LEMMA LoopKept ==
  ASSUME LoopInv, Cardinality(Failures) \in Nat, digests \in Nat, faults \in Nat,
         UNCHANGED fails, NEW d \in {0, 1}, faults' = faults + d,
         NEW n \in {0, 1}, digests' = digests + n, DigestDue' + n <= DigestDue + d
  PROVE  LoopInv'
<1>1. Failures' = Failures
  BY DEF Failures
<1>2. Cardinality(Failures)' = Cardinality(Failures)
  BY <1>1
<1>3. DigestDue' \in Int /\ DigestDue \in Int
  BY DEF DigestDue
<1>4. digests + DigestDue <= Cardinality(Failures) + faults
  BY DEF LoopInv
<1>5. digests + n + DigestDue' <= Cardinality(Failures) + (faults + d)
  <2>1. PICK a \in Int, b \in Int, c \in Int, x \in Int, y \in Int :
          a = digests /\ b = DigestDue /\ c = faults /\ x = Cardinality(Failures) /\ y = DigestDue'
    BY <1>3
  <2>2. a + b <= x + c /\ y + n <= b + d
    BY <1>4, <2>1
  <2>3. n \in Int /\ d \in Int
    OBVIOUS
  <2>4. a + n + y <= x + (c + d)
    BY ONLY <2>2, <2>3
  <2> QED BY <2>1, <2>4
<1> QED BY <1>2, <1>5 DEF LoopInv

LEMMA LoopStep ==
  IsFiniteSet(Emails) /\ DigestInv /\ LoopInv /\ [Digest!Next]_(Digest!vars) => LoopInv'
<1> SUFFICES ASSUME IsFiniteSet(Emails), DigestInv, LoopInv, [Digest!Next]_(Digest!vars)
             PROVE  LoopInv'
  OBVIOUS
<1>0. Digest!TypeOK /\ ListedIsPending /\ Cardinality(Failures) \in Nat
      /\ digests \in Nat /\ faults \in Nat
  BY FailuresAreFinite, NotifierAssumption DEF DigestInv, Digest!TypeOK, Digest!DigestAssumption
<1>9. digests \in Nat
  BY <1>0
<1>10. DigestDue' + 0 <= DigestDue + 1
  <2>1. PICK a \in {0, 1}, b \in {0, 1} : a = DigestDue' /\ b = DigestDue
    BY DEF DigestDue
  <2>2. a \in 0..1 /\ b \in 0..1
    OBVIOUS
  <2>3. a + 0 <= b + 1
    BY ONLY <2>2
  <2> QED BY <2>1, <2>3
<1> USE DEF Digest!Fault, Digest!NoFault, Digest!Goto, Digest!Digesting
<1>1. ASSUME NEW e \in Emails, Digest!UserFailure(e) PROVE LoopInv'
  <2>1. Cardinality(Failures)' = Cardinality(Failures) + 1
    BY <1>0, <1>1, OneFailureMore DEF Digest!UserFailure
  <2>2. digests' = digests /\ faults' \in {faults, faults + 1}
    BY <1>1 DEF Digest!UserFailure
  <2>3. DigestDue' \in {0, 1} /\ DigestDue \in {0, 1}
    BY DEF DigestDue
  <2> QED BY <1>0, <2>1, <2>2, <2>3 DEF LoopInv
<1>2. DigestDue' \in {0, 1} /\ DigestDue \in {0, 1}
  BY DEF DigestDue
<1>3. CASE Digest!SystemFailure \/ Digest!SystemSent \/ Digest!DomainChecked \/ UNCHANGED Digest!vars
  <2>1. UNCHANGED <<fails, digests, faults, pending, phase>>
    BY <1>3 DEF Digest!SystemFailure, Digest!SystemSent, Digest!DomainChecked, Digest!vars
  <2>2. DigestDue' = DigestDue
    BY <2>1 DEF DigestDue
  <2> QED BY <1>0, <1>2, <2>1, <2>2, LoopKept
<1>4. CASE Digest!ListPendingFailures \/ Digest!TimePasses
  <2>1. /\ UNCHANGED <<fails, digests, faults, pending>>
        /\ (phase # "enqueued") = (phase' # "enqueued")
    BY <1>4 DEF Digest!ListPendingFailures, Digest!TimePasses
  <2>2. DigestDue' = DigestDue
    BY <2>1 DEF DigestDue
  <2> QED BY <1>0, <1>2, <2>1, <2>2, LoopKept
<1>5. CASE Digest!CheckCooldown \/ Digest!SkipDigest \/ Digest!SetMarker
  <2>1. /\ UNCHANGED <<fails, digests, pending>>
        /\ phase # "enqueued" /\ phase' # "enqueued"
    BY <1>5 DEF Digest!CheckCooldown, Digest!SkipDigest, Digest!SetMarker
  <2>2. faults' = faults \/ faults' = faults + 1
    BY <1>5 DEF Digest!CheckCooldown, Digest!SkipDigest, Digest!SetMarker
  <2>3. DigestDue' = DigestDue
    BY <2>1 DEF DigestDue
  <2> QED BY <1>0, <1>2, <2>1, <2>2, <2>3, LoopKept
<1>6. CASE Digest!EnqueueDigest
  <2>1. /\ UNCHANGED <<fails, pending, faults>> /\ digests' = digests + 1
        /\ phase = "ready" /\ phase' = "enqueued"
    BY <1>6 DEF Digest!EnqueueDigest
  <2>2. pending # {}
    BY <1>0, <2>1 DEF ListedIsPending
  <2>3. DigestDue = 1 /\ DigestDue' = 0
    BY <2>1, <2>2 DEF DigestDue
  <2> QED BY <1>0, <2>1, <2>3, LoopKept
<1>7. CASE Digest!ClearPendingFailures
  <2>1. /\ UNCHANGED <<fails, digests>> /\ phase = "enqueued"
        /\ \/ pending' = {} /\ faults' = faults
           \/ faults' = faults + 1
    BY <1>7 DEF Digest!ClearPendingFailures
  <2>2. CASE faults' = faults + 1
    <3>1. DigestDue' + 0 <= DigestDue + 1
      BY <1>10
    <3>2. digests' = digests + 0
      BY <1>9, <2>1
    <3> QED BY <1>0, <2>1, <2>2, <3>1, <3>2, LoopKept
  <2>3. CASE pending' = {} /\ faults' = faults
    <3>1. DigestDue' = 0
      BY <2>3 DEF DigestDue
    <3> QED BY <1>0, <1>2, <2>1, <2>3, <3>1, LoopKept
  <2> QED BY <2>1, <2>2, <2>3
<1>8. CASE Digest!Crash
  <2>1. UNCHANGED <<fails, digests, pending>> /\ faults' = faults + 1
    BY <1>8 DEF Digest!Crash
  <2>2. DigestDue' + 0 <= DigestDue + 1
    BY <1>10
  <2>3. digests' = digests + 0
    BY <1>9, <2>1
  <2> QED BY <1>0, <2>1, <2>2, <2>3, LoopKept
<1> QED BY <1>1, <1>3, <1>4, <1>5, <1>6, <1>7, <1>8 DEF Digest!Next, Digest!DigestTick

\* The notifier never feeds on itself: for any finite set of emails there are no
\* more digests than failures of users' emails, however many emails of its own
\* fail, but for the faults.
THEOREM NotifierDoesNotLoop == ASSUME IsFiniteSet(Emails) PROVE Spec => []NoLoop
<1> DEFINE Inv == DigestOrRest /\ (ticker = "digest" => LoopInv)
<1>1. Init => Inv
  <2> SUFFICES ASSUME Init PROVE LoopInv
    BY DigestOrRestInit
  <2>1. Digest!TypeOK /\ digests = 0 /\ faults = 0 /\ pending = {}
    BY DigestInit DEF Init, Digest!Init, DigestInv
  <2> QED BY <2>1, FailuresAreFinite DEF LoopInv, DigestDue
<1>2. Inv /\ [Next]_vars => Inv'
  <2> SUFFICES ASSUME Inv, [Next]_vars PROVE Inv'
    OBVIOUS
  <2>1. DigestOrRest'
    BY DigestOrRestStep
  <2>2. CASE ticker = "digest"
    BY <2>1, <2>2, FollowsDigest, LoopStep DEF DigestOrRest
  <2>3. CASE ticker # "digest"
    BY <2>1, <2>3, DigestRests
  <2> QED BY <2>2, <2>3
<1>3. Inv => NoLoop
  <2>0. NoLoop <=> digests <= Cardinality(Failures) + faults
    BY DEF NoLoop, Digest!NoLoop, Failures, Cardinality, Digest!Cardinality
  <2> SUFFICES ASSUME Inv PROVE digests <= Cardinality(Failures) + faults
    BY <2>0
  <2>1. CASE ticker = "digest"
    <3>1. Digest!TypeOK /\ LoopInv
      BY <2>1 DEF DigestOrRest, DigestInv
    <3>2. Cardinality(Failures) \in Nat /\ digests \in Nat /\ faults \in Nat
      BY <3>1, FailuresAreFinite, NotifierAssumption DEF Digest!TypeOK, Digest!DigestAssumption
    <3> QED BY <3>1, <3>2 DEF LoopInv, DigestDue
  <2>2. CASE ticker # "digest"
    <3>1. digests = 0 /\ faults \in Nat /\ Failures = {}
      BY <2>2 DEF DigestOrRest, Resting, Failures
    <3> QED BY <3>1, FS_EmptySet
  <2> QED BY <2>1, <2>2
<1> HIDE DEF Inv
<1> QED BY <1>1, <1>2, <1>3, PTL DEF Spec

-----------------------------------------------------------------------------
(* The monthly report.                                                      *)

LEMMA FollowsStats ==
  ticker = "stats" /\ [Next]_vars => ticker' = "stats" /\ [Stats!Next]_(Stats!vars)
BY DEF Next, Follows, vars, statsVars, Stats!vars

MonthTypes ==
  /\ month \in Stats!Months /\ lastStats \in 0..month /\ current \in 1..month
  /\ installed \in {0} \cup Stats!Months
  /\ reports \in [0..MaxMonth -> Nat] /\ faults \in Nat

\* The marker is behind the month of the tick, and behind it for good once a
\* report is due; a tick that began looks at months up to its own.
MarkerBehind ==
  /\ phase # "idle" => lastStats <= current
  /\ phase = "report" => lastStats < current

\* A month is reported once when the marker passes it, and again for a fault.
Passed(m) == m < lastStats \/ (phase = "sent" /\ m = current - 1)
ReportedOnce ==
  \A m \in 0..MaxMonth : reports[m] <= faults + (IF Passed(m) THEN 1 ELSE 0)

\* A month that ended a month ago is reported, or on the list of the late ones.
LateIsListed == \A m \in 1..MaxMonth : m + 2 <= month => reports[m] > 0 \/ m \in overdue

\* What else holds as long as nothing fails.
Skipless ==
  /\ lastStats = 0 <=> installed = 0
  /\ installed <= lastStats
  /\ phase = "fresh" => lastStats = 0
  /\ phase \in {"report", "sent"} => lastStats # 0
  /\ phase = "sent" => reports[current - 1] > 0 /\ lastStats < current
  /\ \A m \in 0..MaxMonth :
       /\ installed # 0 /\ installed <= m /\ m < lastStats => reports[m] > 0 \/ m \in overdue
       /\ reports[m] > 0 => installed # 0 /\ installed <= m

MonthInv ==
  MonthTypes /\ MarkerBehind /\ ReportedOnce /\ LateIsListed /\ (faults = 0 => Skipless)

\* A step that neither reports nor moves the marker.
LEMMA MonthRests ==
  ASSUME MonthInv, UNCHANGED <<lastStats, reports, installed>>,
         month' \in Stats!Months, month <= month', current' \in 1..month',
         overdue \subseteq overdue',
         \A m \in 1..MaxMonth : m + 2 <= month' => reports[m] > 0 \/ m \in overdue',
         MarkerBehind',
         faults' \in Nat,
         \/ faults' = faults /\ (phase' = "sent" => phase = "sent")
              /\ (phase = "sent" => phase' = "sent" /\ current' = current)
              /\ (faults = 0 => (phase' = "fresh" => lastStats = 0)
                                /\ (phase' = "report" => lastStats # 0))
         \/ faults' = faults + 1
  PROVE  MonthInv'
<1>1. MonthTypes'
  BY NotifierAssumption DEF MonthInv, MonthTypes, Stats!Months, Stats!StatsAssumption
<1>2. ReportedOnce'
  <2> SUFFICES ASSUME NEW m \in 0..MaxMonth
               PROVE  reports[m] <= faults' + (IF Passed(m)' THEN 1 ELSE 0)
    BY DEF ReportedOnce
  <2>1. reports[m] \in Nat /\ faults \in Nat /\ reports[m] <= faults + (IF Passed(m) THEN 1 ELSE 0)
    BY DEF MonthInv, MonthTypes, ReportedOnce
  <2>2. CASE faults' = faults + 1
    BY <2>1, <2>2
  <2>3. CASE faults' = faults
    <3>1. phase = "sent" => phase' = "sent" /\ current' = current
      BY <2>1, <2>3
    <3>2. Passed(m) => Passed(m)'
      BY <3>1 DEF Passed
    <3> QED BY <2>1, <2>3, <3>2
  <2> QED BY <2>2, <2>3
<1>3. LateIsListed'
  BY DEF LateIsListed
<1>4. ASSUME faults' = 0 PROVE Skipless'
  <2>1. /\ faults = 0 /\ faults' = faults /\ (phase' = "sent" => phase = "sent")
        /\ phase = "sent" => phase' = "sent" /\ current' = current
        /\ phase' = "fresh" => lastStats = 0
        /\ phase' = "report" => lastStats # 0
    BY <1>4 DEF MonthInv, MonthTypes
  <2>2. Skipless
    BY <2>1 DEF MonthInv
  <2>3. \A m \in 0..MaxMonth :
          /\ installed # 0 /\ installed <= m /\ m < lastStats => reports[m] > 0 \/ m \in overdue'
          /\ reports[m] > 0 => installed # 0 /\ installed <= m
    BY <2>2 DEF Skipless
  <2>4. phase' = "sent" => reports[current' - 1] > 0 /\ lastStats < current' /\ lastStats # 0
    BY <2>1, <2>2 DEF Skipless
  <2> QED BY <2>1, <2>2, <2>3, <2>4 DEF Skipless
<1> QED BY <1>1, <1>2, <1>3, <1>4 DEF MonthInv

\* A step that moves the marker to the month of the tick.
LEMMA MarkerMoves ==
  ASSUME MonthInv, phase \in {"fresh", "sent"}, phase' = "idle",
         Stats!WriteMarker(current), UNCHANGED <<month, current, reports, overdue>>
  PROVE  MonthInv'
<1>0. /\ MonthTypes /\ MarkerBehind /\ ReportedOnce /\ LateIsListed
      /\ lastStats <= current /\ MaxMonth \in Nat
  BY NotifierAssumption DEF MonthInv, MarkerBehind, Stats!StatsAssumption
<1>1. CASE UNCHANGED <<lastStats, installed>> /\ faults' = faults + 1
  <2>1. month' \in Stats!Months /\ month <= month' /\ current' \in 1..month' /\ faults' \in Nat
    BY <1>0, <1>1 DEF MonthTypes, Stats!Months
  <2>2. \A m \in 1..MaxMonth : m + 2 <= month' => reports[m] > 0 \/ m \in overdue'
    BY <1>0 DEF LateIsListed
  <2>3. MarkerBehind'
    BY DEF MarkerBehind
  <2> QED BY <1>1, <2>1, <2>2, <2>3, MonthRests
<1>2. CASE /\ lastStats' = current /\ faults' = faults
           /\ installed' = IF installed = 0 THEN current ELSE installed
  <2>1. MonthTypes'
    BY <1>0, <1>2 DEF MonthTypes, Stats!Months
  <2>2. MarkerBehind'
    BY DEF MarkerBehind
  <2>3. ReportedOnce'
    <3> SUFFICES ASSUME NEW m \in 0..MaxMonth
                 PROVE  reports[m] <= faults + (IF Passed(m)' THEN 1 ELSE 0)
      BY <1>2 DEF ReportedOnce
    <3>1. reports[m] <= faults + (IF Passed(m) THEN 1 ELSE 0) /\ reports[m] \in Nat /\ faults \in Nat
      BY <1>0 DEF ReportedOnce, MonthTypes
    <3>2. Passed(m) => Passed(m)'
      BY <1>0, <1>2 DEF Passed, MonthTypes, Stats!Months
    <3> QED BY <3>1, <3>2
  <2>4. LateIsListed'
    BY <1>0 DEF LateIsListed
  <2>5. ASSUME faults = 0 PROVE Skipless'
    <3>1. Skipless
      BY <2>5 DEF MonthInv
    <3>2. CASE installed = 0
      <4>1. lastStats' = current /\ installed' = current /\ current # 0 /\ current \in Nat
        BY <1>0, <1>2, <3>2 DEF MonthTypes, Stats!Months
      <4>2. \A m \in 0..MaxMonth : ~(reports[m] > 0)
        BY <3>1, <3>2 DEF Skipless
      <4>3. \A m \in 0..MaxMonth : ~(current <= m /\ m < current)
        BY <4>1
      <4> QED BY <4>1, <4>2, <4>3 DEF Skipless
    <3>3. CASE installed # 0
      <4>1. /\ lastStats' = current /\ installed' = installed /\ current # 0
            /\ installed \in Nat /\ current \in Nat /\ lastStats \in Nat
            /\ month \in Nat /\ current <= month
        BY <1>0, <1>2, <3>3 DEF MonthTypes, Stats!Months
      <4>2. phase = "sent" /\ reports[current - 1] > 0 /\ installed <= current
        BY <1>0, <3>1, <3>3, <4>1 DEF Skipless
      <4>3. ASSUME NEW m \in 0..MaxMonth, installed <= m, m < current
            PROVE  reports[m] > 0 \/ m \in overdue
        <5>1. CASE m = current - 1
          BY <4>2, <5>1
        <5>2. CASE m # current - 1
          <6>1. m \in 1..MaxMonth /\ m + 2 <= month
            BY <1>0, <3>3, <4>1, <4>3, <5>2
          <6> QED BY <1>0, <6>1 DEF LateIsListed
        <5> QED BY <5>1, <5>2
      <4>4. \A m \in 0..MaxMonth : reports[m] > 0 => installed # 0 /\ installed <= m
        BY <3>1 DEF Skipless
      <4> QED BY <3>3, <4>1, <4>2, <4>3, <4>4 DEF Skipless
    <3> QED BY <3>2, <3>3
  <2> QED BY <1>2, <2>1, <2>2, <2>3, <2>4, <2>5 DEF MonthInv
<1> QED BY <1>1, <1>2 DEF Stats!WriteMarker, Stats!Fault, Stats!NoFault, Stats!Unset

\* The day of the tick does not matter: the first of a month has a month before.
LEMMA PreviousIsBefore ==
  ASSUME MonthTypes PROVE Stats!Previous = current - 1 /\ current - 1 \in 0..MaxMonth
<1>1. MaxMonth \in 1..12 /\ month \in 1..MaxMonth /\ current \in 1..month
  BY NotifierAssumption DEF MonthTypes, Stats!Months, Stats!StatsAssumption
<1>2. ~(1 > Stats!Length(current - 1))
  BY <1>1 DEF Stats!Length
<1>3. current + (-1) = current - 1
  BY <1>1
<1> QED BY <1>1, <1>2, <1>3 DEF Stats!Previous, Stats!AddMonths

LEMMA MonthReported ==
  ASSUME MonthInv, phase = "report", phase' = "sent",
         reports' = [reports EXCEPT ![current - 1] = @ + 1], current - 1 \in 0..MaxMonth,
         UNCHANGED <<month, lastStats, current, installed, overdue, faults>>
  PROVE  MonthInv'
<1>0. /\ MonthTypes /\ ReportedOnce /\ LateIsListed /\ lastStats < current
      /\ current \in Nat /\ lastStats \in Nat /\ faults \in Nat
      /\ reports \in [0..MaxMonth -> Nat] /\ installed \in Nat
  BY DEF MonthInv, MarkerBehind, MonthTypes, Stats!Months
<1>1. /\ reports' \in [0..MaxMonth -> Nat] /\ reports'[current - 1] = reports[current - 1] + 1
      /\ \A m \in 0..MaxMonth : m # current - 1 => reports'[m] = reports[m]
      /\ \A m \in 0..MaxMonth : reports[m] > 0 => reports'[m] > 0
  BY <1>0
<1>2. MonthTypes' /\ MarkerBehind'
  BY <1>0, <1>1 DEF MonthTypes, MarkerBehind
<1>3. ReportedOnce'
  <2> SUFFICES ASSUME NEW m \in 0..MaxMonth
               PROVE  reports'[m] <= faults + (IF Passed(m)' THEN 1 ELSE 0)
    BY DEF ReportedOnce
  <2>1. reports[m] <= faults + (IF Passed(m) THEN 1 ELSE 0) /\ reports[m] \in Nat
    BY <1>0 DEF ReportedOnce
  <2>2. CASE m = current - 1
    <3>1. ~Passed(m) /\ Passed(m)'
      BY <1>0, <2>2 DEF Passed
    <3> QED BY <1>0, <1>1, <2>1, <2>2, <3>1
  <2>3. CASE m # current - 1
    <3>1. Passed(m) => Passed(m)'
      BY <1>0, <2>3 DEF Passed
    <3> QED BY <1>0, <1>1, <2>1, <2>3, <3>1
  <2> QED BY <2>2, <2>3
<1>4. LateIsListed'
  BY <1>0, <1>1 DEF LateIsListed
<1>5. ASSUME faults = 0 PROVE Skipless'
  <2>1. Skipless
    BY <1>5 DEF MonthInv
  <2>2. lastStats # 0 /\ installed # 0 /\ installed <= current - 1
    BY <1>0, <2>1 DEF Skipless
  <2>3. \A m \in 0..MaxMonth :
          /\ installed # 0 /\ installed <= m /\ m < lastStats => reports'[m] > 0 \/ m \in overdue
          /\ reports'[m] > 0 => installed # 0 /\ installed <= m
    BY <1>1, <2>1, <2>2 DEF Skipless
  <2>4. reports'[current - 1] > 0
    BY <1>0, <1>1
  <2> QED BY <1>0, <2>1, <2>2, <2>3, <2>4 DEF Skipless
<1> QED BY <1>2, <1>3, <1>4, <1>5 DEF MonthInv

LEMMA MonthStep == MonthInv /\ [Stats!Next]_(Stats!vars) => MonthInv'
<1> SUFFICES ASSUME MonthInv, [Stats!Next]_(Stats!vars) PROVE MonthInv'
  OBVIOUS
<1> USE DEF Stats!Fault, Stats!NoFault, Stats!Goto
<1>0. /\ MonthTypes /\ MarkerBehind /\ LateIsListed
      /\ month \in Stats!Months /\ month \in Nat /\ current \in 1..month /\ lastStats \in 0..month
      /\ faults \in Nat /\ MaxMonth \in 1..12
      /\ \A m \in 1..MaxMonth : m + 2 <= month => reports[m] > 0 \/ m \in overdue
  BY NotifierAssumption DEF MonthInv, MonthTypes, LateIsListed, Stats!Months, Stats!StatsAssumption
<1>1. CASE Stats!NextMonth
  <2>1. /\ month' = month + 1 /\ month < MaxMonth
        /\ overdue' = overdue \cup {m \in 1..month - 1 : reports[m] = 0}
        /\ UNCHANGED <<lastStats, phase, current, reports, installed, faults>>
    BY <1>1 DEF Stats!NextMonth
  <2>2. month' \in Stats!Months /\ month <= month' /\ current' \in 1..month'
    BY <1>0, <2>1 DEF Stats!Months
  <2>3. ASSUME NEW m \in 1..MaxMonth, m + 2 <= month'
        PROVE  reports[m] > 0 \/ m \in overdue'
    <3>1. m \in 1..month - 1 /\ reports[m] \in Nat
      BY <1>0, <2>1, <2>3 DEF MonthTypes
    <3> QED BY <2>1, <3>1
  <2>4. MarkerBehind'
    BY <1>0, <2>1 DEF MarkerBehind
  <2>5. faults = 0 => Skipless
    BY DEF MonthInv
  <2> QED BY <1>0, <2>1, <2>2, <2>3, <2>4, <2>5, MonthRests DEF Skipless
<1>2. CASE Stats!DomainChecked \/ UNCHANGED Stats!vars
  <2>1. UNCHANGED <<month, lastStats, phase, current, reports, installed, overdue, faults>>
    BY <1>2 DEF Stats!DomainChecked, Stats!vars
  <2>2. MarkerBehind'
    BY <1>0, <2>1 DEF MarkerBehind
  <2>3. faults = 0 => Skipless
    BY DEF MonthInv
  <2> QED BY <1>0, <2>1, <2>2, <2>3, MonthRests DEF Skipless
<1>3. CASE Stats!StatsTick
  <2>1. /\ phase = "idle" /\ phase' = "started" /\ current' = month
        /\ UNCHANGED <<month, lastStats, reports, installed, overdue, faults>>
    BY <1>3 DEF Stats!StatsTick
  <2>2. MarkerBehind' /\ current' \in 1..month'
    BY <1>0, <2>1 DEF MarkerBehind
  <2> QED BY <1>0, <2>1, <2>2, MonthRests
<1>4. CASE Stats!ReadMarker
  <2>1. /\ phase = "started"
        /\ UNCHANGED <<month, lastStats, current, reports, installed, overdue>>
        /\ \/ /\ faults' = faults
              /\ phase' = CASE lastStats = 0 -> "fresh" [] lastStats = current -> "idle"
                            [] OTHER -> "report"
           \/ faults' = faults + 1 /\ phase' = "fresh"
    BY <1>4 DEF Stats!ReadMarker, Stats!Unset
  <2>2. lastStats <= current
    BY <1>0, <2>1 DEF MarkerBehind
  <2>3. MarkerBehind'
    BY <1>0, <2>1, <2>2 DEF MarkerBehind
  <2>4. /\ phase' # "sent" /\ phase # "sent"
        /\ faults' = faults => (phase' = "fresh" => lastStats = 0) /\ (phase' = "report" => lastStats # 0)
    BY <1>0, <2>1
  <2>5. faults' \in Nat /\ month <= month'
    BY <1>0, <2>1
  <2> QED BY <1>0, <2>1, <2>3, <2>4, <2>5, MonthRests
<1>5. CASE Stats!FreshInstall \/ Stats!SetMarker
  BY <1>5, MarkerMoves DEF Stats!FreshInstall, Stats!SetMarker
<1>6. CASE Stats!Report
  <2>1. /\ phase = "report" /\ UNCHANGED <<month, lastStats, current, installed, overdue>>
        /\ \/ /\ faults' = faults /\ phase' = "sent"
              /\ reports' = [reports EXCEPT ![current - 1] = @ + 1]
           \/ faults' \in {faults, faults + 1} /\ phase' = "idle" /\ UNCHANGED reports
    BY <1>0, <1>6, PreviousIsBefore DEF Stats!Report
  <2>2. CASE phase' = "sent"
    BY <1>0, <2>1, <2>2, PreviousIsBefore, MonthReported
  <2>3. CASE phase' = "idle"
    <3>1. MarkerBehind' /\ faults' \in Nat /\ month <= month'
      BY <1>0, <2>1, <2>3 DEF MarkerBehind
    <3>2. UNCHANGED reports /\ faults' \in {faults, faults + 1}
      BY <2>1, <2>3
    <3> QED BY <1>0, <2>1, <2>3, <3>1, <3>2, MonthRests
  <2> QED BY <2>1, <2>2, <2>3
<1>7. CASE Stats!Crash
  <2>1. /\ faults' = faults + 1 /\ phase' = "idle"
        /\ UNCHANGED <<month, lastStats, current, reports, installed, overdue>>
    BY <1>7 DEF Stats!Crash
  <2>2. MarkerBehind' /\ faults' \in Nat /\ month <= month'
    BY <1>0, <2>1 DEF MarkerBehind
  <2> QED BY <1>0, <2>1, <2>2, MonthRests
<1> QED BY <1>1, <1>2, <1>3, <1>4, <1>5, <1>6, <1>7 DEF Stats!Next, Stats!Ticking

LEMMA MonthInit == Init => MonthInv
<1> SUFFICES ASSUME Stats!Init PROVE MonthInv
  BY DEF Init
<1> QED BY NotifierAssumption DEF Stats!Init, Stats!Unset, Stats!Months, Stats!StatsAssumption,
      MonthInv, MonthTypes, MarkerBehind, ReportedOnce, Passed, LateIsListed, Skipless

\* In the other behaviours nothing is reported.
NothingReported == installed = 0 /\ \A m \in 0..MaxMonth : reports[m] = 0
MonthOrRest == IF ticker = "stats" THEN MonthInv ELSE NothingReported

\* Through any downtime, any time without a verified domain and any faults: a
\* month is reported once for itself and once for each fault at most; and if
\* nothing failed, the marker has passed no month after the install that was not
\* reported, but one that was late by a whole month.
THEOREM MonthsAreReportedOnce == Spec => []EachMonthOnce
<1>1. Init => MonthOrRest
  <2> SUFFICES ASSUME Init PROVE MonthOrRest
    OBVIOUS
  <2>1. NothingReported
    BY DEF Init, Stats!Init, Stats!Unset, NothingReported
  <2> QED BY <2>1, MonthInit DEF MonthOrRest
<1>2. MonthOrRest /\ [Next]_vars => MonthOrRest'
  <2> SUFFICES ASSUME MonthOrRest, [Next]_vars PROVE MonthOrRest'
    OBVIOUS
  <2>1. CASE ticker = "stats"
    BY <2>1, FollowsStats, MonthStep DEF MonthOrRest
  <2>2. CASE ticker # "stats"
    <3>1. ticker' = ticker /\ UNCHANGED <<installed, reports>>
      BY <2>2 DEF Next, Follows, vars, statsVars
    <3> QED BY <2>2, <3>1 DEF MonthOrRest, NothingReported
  <2> QED BY <2>1, <2>2
<1>3. MonthOrRest /\ DigestOrRest => EachMonthOnce
  <2> SUFFICES ASSUME MonthOrRest, DigestOrRest PROVE Stats!EachMonthOnce
    BY DEF EachMonthOnce
  <2>1. CASE ticker = "stats"
    <3>1. MonthTypes /\ ReportedOnce /\ (faults = 0 => Skipless)
      BY <2>1 DEF MonthOrRest, MonthInv
    <3>2. ASSUME NEW m \in 0..MaxMonth PROVE reports[m] <= 1 + faults
      BY <3>1 DEF MonthTypes, ReportedOnce
    <3>3. ASSUME faults = 0, NEW m \in 0..MaxMonth
          PROVE  /\ installed # 0 /\ installed < m /\ m < lastStats => reports[m] > 0 \/ m \in overdue
                 /\ reports[m] > 0 => installed # 0 /\ installed <= m
      <4>1. installed \in Nat
        BY <3>1 DEF MonthTypes, Stats!Months
      <4> QED BY <3>1, <3>3, <4>1 DEF Skipless
    <3> QED BY <3>2, <3>3 DEF Stats!EachMonthOnce, Stats!Unset
  <2>2. CASE ticker # "stats"
    <3>1. faults \in Nat
      BY NotifierAssumption
         DEF DigestOrRest, DigestInv, Resting, Digest!TypeOK, Digest!DigestAssumption
    <3>2. installed = 0 /\ \A m \in 0..MaxMonth : reports[m] = 0
      BY <2>2 DEF MonthOrRest, NothingReported
    <3> QED BY <3>1, <3>2 DEF Stats!EachMonthOnce, Stats!Unset
  <2> QED BY <2>1, <2>2
<1>4. DigestOrRest /\ [Next]_vars => DigestOrRest'
  BY DigestOrRestStep
<1> QED BY <1>1, <1>2, <1>3, <1>4, DigestOrRestInit, PTL DEF Spec
=============================================================================
