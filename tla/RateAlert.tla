------------------------------ MODULE RateAlert ------------------------------
(***************************************************************************)
(* RateTick of internal/notify/notifier.go for one sending domain, the one *)
(* of the notifier itself: the delivery attempts of the last hour, the     *)
(* rate_fired marker, and the store calls of the tick one by one.  The     *)
(* loop over the domains repeats this for each, and an error in one goes   *)
(* on to the next.                                                         *)
(***************************************************************************)
EXTENDS Integers

CONSTANTS
  Num, Den,    \* FailureRateThreshold is Num / Den
  MinVolume,   \* FailureRateMinVolume
  MaxCount,    \* bound: attempts of one kind in the window
  MaxAlerts, MaxFlips, MaxFaults   \* bounds

RateAssumption ==
  /\ Num \in Nat /\ Den \in Nat \ {0} /\ MinVolume \in Nat
  /\ MaxCount \in Nat /\ MaxAlerts \in Nat /\ MaxFlips \in Nat /\ MaxFaults \in Nat

\* Attempts of the last hour: user or system emails, failed or delivered.
Kind == {"userBad", "userOk", "sysBad", "sysOk"}

VARIABLES
  window,    \* delivery_attempts of the last hour by kind
  fired,     \* notify_state rate_fired_<domain>
  verified,  \* the domain is verified
  phase,     \* where RateTick is
  seen,      \* what FailureRate returned, by kind
  seenFired, \* what GetState returned
  alerts,    \* history: alerts enqueued
  calm,      \* history: a tick saw the rate below the threshold since the last alert
  flips, faults

vars == <<window, fired, verified, phase, seen, seenFired, alerts, calm, flips, faults>>

TypeOK ==
  /\ window \in [Kind -> 0..MaxCount] /\ seen \in [Kind -> 0..MaxCount]
  /\ fired \in BOOLEAN /\ seenFired \in BOOLEAN /\ verified \in BOOLEAN /\ calm \in BOOLEAN
  /\ phase \in {"idle", "counted", "decide", "alerted"}
  /\ alerts \in 0..MaxAlerts /\ flips \in 0..MaxFlips /\ faults \in 0..MaxFaults

Init ==
  /\ window = [k \in Kind |-> 0] /\ seen = [k \in Kind |-> 0]
  /\ fired = FALSE /\ seenFired = FALSE /\ verified \in BOOLEAN /\ calm = TRUE
  /\ phase = "idle"
  /\ alerts = 0 /\ flips = 0 /\ faults = 0

Fault == faults < MaxFaults /\ faults' = faults + 1
NoFault == UNCHANGED faults
Goto(ph) == phase' = ph

\* FailureRate counts every attempt of the domain, the notifier's own as well.
FailedOf(w) == w["userBad"] + w["sysBad"]
TotalOf(w) == FailedOf(w) + w["userOk"] + w["sysOk"]
BelowThreshold(w) == FailedOf(w) * Den < Num * TotalOf(w) \/ (TotalOf(w) = 0 /\ Num > 0)
Elevated(w) == TotalOf(w) >= MinVolume /\ ~BelowThreshold(w)

-----------------------------------------------------------------------------
Attempt(k) ==
  /\ window[k] < MaxCount
  /\ window' = [window EXCEPT ![k] = @ + 1]
  /\ UNCHANGED <<fired, verified, phase, seen, seenFired, alerts, calm, flips, faults>>

\* An attempt is older than an hour.
Expire(k) ==
  /\ window[k] > 0
  /\ window' = [window EXCEPT ![k] = @ - 1]
  /\ UNCHANGED <<fired, verified, phase, seen, seenFired, alerts, calm, flips, faults>>

DomainChecked ==
  /\ flips < MaxFlips /\ flips' = flips + 1
  /\ verified' = ~verified
  /\ UNCHANGED <<window, fired, phase, seen, seenFired, alerts, calm, faults>>

\* FailureRate; an error leaves the domain for the next tick.
CountAttempts ==
  /\ phase = "idle"
  /\ seen' = window
  /\ calm' = (calm \/ BelowThreshold(window))
  /\ Goto("counted")
  /\ UNCHANGED <<window, fired, verified, seenFired, alerts, flips, faults>>

\* GetState; its error is ignored and reads as not fired.
ReadFiredInverted ==
  /\ phase = "counted"
  /\ seenFired' = ~fired /\ NoFault
  /\ Goto("decide")
  /\ UNCHANGED <<window, fired, verified, seen, alerts, calm, flips>>
ReadFired ==
  /\ phase = "counted"
  /\ \/ seenFired' = fired /\ NoFault
     \/ seenFired' = FALSE /\ Fault
  /\ Goto("decide")
  /\ UNCHANGED <<window, fired, verified, seen, alerts, calm, flips>>

\* The alert is queued, or skipped (domain not verified) or failed.
EnqueueAlert ==
  /\ phase = "decide" /\ Elevated(seen) /\ ~seenFired
  /\ \/ /\ verified /\ NoFault /\ alerts < MaxAlerts
        /\ alerts' = alerts + 1 /\ calm' = FALSE
        /\ Goto("alerted")
     \/ /\ \/ ~verified /\ NoFault
           \/ Fault
        /\ Goto("idle") /\ UNCHANGED <<alerts, calm>>
  /\ UNCHANGED <<window, fired, verified, seen, seenFired, flips>>

SetFired ==
  /\ phase = "alerted"
  /\ \/ fired' = TRUE /\ NoFault
     \/ UNCHANGED fired /\ Fault
  /\ Goto("idle")
  /\ UNCHANGED <<window, verified, seen, seenFired, alerts, calm, flips>>

ReArmByVolume ==
  /\ phase = "decide" /\ seenFired /\ ~Elevated(seen)
  /\ fired' = FALSE /\ NoFault
  /\ Goto("idle")
  /\ UNCHANGED <<window, verified, seen, seenFired, alerts, calm, flips>>
ReArm ==
  /\ phase = "decide" /\ seenFired /\ BelowThreshold(seen)
  /\ \/ fired' = FALSE /\ NoFault
     \/ UNCHANGED fired /\ Fault
  /\ Goto("idle")
  /\ UNCHANGED <<window, verified, seen, seenFired, alerts, calm, flips>>

Nothing ==
  /\ phase = "decide"
  /\ IF seenFired THEN ~BelowThreshold(seen) ELSE ~Elevated(seen)
  /\ Goto("idle")
  /\ UNCHANGED <<window, fired, verified, seen, seenFired, alerts, calm, flips, faults>>

Crash ==
  /\ phase # "idle" /\ Fault
  /\ Goto("idle")
  /\ UNCHANGED <<window, fired, verified, seen, seenFired, alerts, calm, flips>>

-----------------------------------------------------------------------------
RateTick == CountAttempts \/ ReadFired \/ EnqueueAlert \/ SetFired \/ ReArm \/ Nothing

Next ==
  \/ \E k \in Kind : Attempt(k) \/ Expire(k)
  \/ DomainChecked \/ RateTick \/ Crash

Spec == Init /\ [][Next]_vars

-----------------------------------------------------------------------------
(* Properties.                                                              *)

\* One alert per incident: a second one goes out only after a tick has seen the
\* rate below the threshold, whatever the window did meanwhile (a volume below
\* the minimum does not end an incident), unless a crash or store error hit.
OncePerIncident == [][alerts' > alerts => calm \/ faults > 0]_vars

\* Design, section 9: "the notifier never alerts about its own failures (no
\* loops)": an alert is about some failure of a user's email.
OwnFailuresDoNotAlert == [][alerts' > alerts => seen["userBad"] > 0]_vars

\* A rate that stays elevated is reported, or was before.
ElevatedIsReported ==
  Elevated(window) ~> (fired \/ ~Elevated(window) \/ ~verified \/ alerts = MaxAlerts)
=============================================================================
