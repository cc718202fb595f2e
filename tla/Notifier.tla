------------------------------ MODULE Notifier ------------------------------
(***************************************************************************)
(* Notifier.Run of internal/notify/notifier.go: one goroutine, three       *)
(* tickers.  Each tick runs to its end before the next begins; Digest,     *)
(* RateAlert and MonthlyStats say what it does.  They share the goroutine  *)
(* (phase), the verification of the system domain and the faults, and      *)
(* nothing else: no tick reads a row another one writes.  A behaviour      *)
(* therefore follows one of them, and in between the others stand still.   *)
(***************************************************************************)
EXTENDS Integers

CONSTANTS
  Emails, SysMail, Cooldown, MaxFails,          \* Digest
  Num, Den, MinVolume, MaxCount, MaxAlerts,     \* RateAlert
  MaxMonth,                                     \* MonthlyStats
  MaxFlips, MaxFaults

VARIABLES
  ticker,                     \* the tick this behaviour follows
  phase, verified, flips, faults,
  pending, marker, batch, age, outbox, fails, owed, digests, named, sinceLast,
  window, fired, seen, seenFired, alerts, calm,
  month, lastStats, current, day, reports, installed, overdue

digestVars == <<pending, marker, batch, age, outbox, fails, owed, digests, named, sinceLast>>
rateVars == <<window, fired, seen, seenFired, alerts, calm>>
statsVars == <<month, lastStats, current, day, reports, installed, overdue>>
vars == <<ticker, phase, verified, flips, faults, digestVars, rateVars, statsVars>>

Digest == INSTANCE Digest
Rate == INSTANCE RateAlert
Stats == INSTANCE MonthlyStats WITH marker <- lastStats

ASSUME NotifierAssumption ==
  Digest!DigestAssumption /\ Rate!RateAssumption /\ Stats!StatsAssumption

TypeOK ==
  /\ ticker = "digest" => Digest!TypeOK
  /\ ticker = "rate" => Rate!TypeOK
  /\ ticker = "stats" => Stats!TypeOK

Init ==
  /\ ticker \in {"digest", "rate", "stats"}
  /\ Digest!Init /\ Rate!Init /\ Stats!Init

Follows(t, others) == ticker = t /\ UNCHANGED <<ticker, others>>

Next ==
  \/ Follows("digest", <<rateVars, statsVars>>) /\ Digest!Next
  \/ Follows("rate", <<digestVars, statsVars>>) /\ Rate!Next
  \/ Follows("stats", <<digestVars, rateVars>>) /\ Stats!Next

\* The goroutine runs, so a tick that has begun goes on and the tickers fire.
Ticks ==
  \/ Follows("digest", <<rateVars, statsVars>>) /\ Digest!DigestTick
  \/ Follows("rate", <<digestVars, statsVars>>) /\ Rate!RateTick
  \/ Follows("stats", <<digestVars, rateVars>>) /\ Stats!Ticking
HourPasses == Follows("digest", <<rateVars, statsVars>>) /\ Digest!TimePasses

Spec == Init /\ [][Next]_vars /\ WF_vars(Ticks) /\ SF_vars(HourPasses)

-----------------------------------------------------------------------------
(* Properties, stated and explained in the modules of the ticks.            *)

\* A failure is reported once, unless it recurs or a fault hits the tick.
NamedOnce == Digest!NamedOnce
\* The notifier's own failures make no digest.
NoLoop == Digest!NoLoop
\* Two digests are an hour apart.
CooldownHolds == Digest!CooldownHolds
\* A digest that cannot be sent is kept, and its failures are named later.
PendingGetsOut == Digest!PendingGetsOut

\* One alert per incident.
OncePerIncident == Rate!OncePerIncident
\* A rate that stays elevated is reported.
ElevatedIsReported == Rate!ElevatedIsReported

\* No month after the install is skipped, over downtime or an unverified domain,
\* and none is repeated.
EachMonthOnce == Stats!EachMonthOnce

\* README.md, "Notifications": the digest batches every email that failed since
\* the last one, so a failure that no digest has named is still on the list.
NoFailureForgotten == Digest!NoFailureForgotten
=============================================================================
