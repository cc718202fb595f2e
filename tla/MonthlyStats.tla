---------------------------- MODULE MonthlyStats ----------------------------
(***************************************************************************)
(* StatsTick of internal/notify/notifier.go: the monthly report and its    *)
(* last_stats_sent marker.  The program may be down or its domain          *)
(* unverified for any part of a month, or for several.                     *)
(***************************************************************************)
EXTENDS Integers

CONSTANTS MaxMonth, MaxFlips, MaxFaults   \* bounds

StatsAssumption == MaxMonth \in 1..12 /\ MaxFlips \in Nat /\ MaxFaults \in Nat

Unset == 0
Months == 1..MaxMonth   \* of a common year

Length(m) == CASE m = 2              -> 28
               [] m \in {4, 6, 9, 11} -> 30
               [] OTHER              -> 31

VARIABLES
  month,     \* the calendar
  marker,    \* notify_state last_stats_sent
  verified,  \* the system domain is verified
  phase,     \* where StatsTick is
  current,   \* the month of the tick's now
  day,       \* and its day of the month
  reports,   \* history: how often a month was reported
  installed, \* history: the first month a marker was written
  overdue,   \* history: months that were still unreported a month after their end
  flips, faults

vars == <<month, marker, verified, phase, current, day, reports, installed, overdue, flips, faults>>

TypeOK ==
  /\ month \in Months /\ marker \in {Unset} \cup Months /\ current \in Months /\ day \in 1..31
  /\ verified \in BOOLEAN
  /\ phase \in {"idle", "started", "fresh", "report", "sent"}
  /\ reports \in [0..MaxMonth -> Nat] /\ installed \in {Unset} \cup Months
  /\ overdue \in SUBSET Months
  /\ flips \in 0..MaxFlips /\ faults \in 0..MaxFaults

Init ==
  /\ month = 1 /\ marker = Unset /\ current = 1 /\ day = 1
  /\ verified \in BOOLEAN
  /\ phase = "idle"
  /\ reports = [m \in 0..MaxMonth |-> 0] /\ installed = Unset /\ overdue = {}
  /\ flips = 0 /\ faults = 0

Fault == faults < MaxFaults /\ faults' = faults + 1
NoFault == UNCHANGED faults
Goto(ph) == phase' = ph

NextMonth ==
  /\ month < MaxMonth
  /\ month' = month + 1
  /\ overdue' = overdue \cup {m \in 1..month - 1 : reports[m] = 0}
  /\ UNCHANGED <<marker, verified, phase, current, day, reports, installed, flips, faults>>

DomainChecked ==
  /\ flips < MaxFlips /\ flips' = flips + 1
  /\ verified' = ~verified
  /\ UNCHANGED <<month, marker, phase, current, day, reports, installed, overdue, faults>>

StatsTick ==
  /\ phase = "idle"
  /\ current' = month /\ day' \in {1, Length(month)}
  /\ Goto("started")
  /\ UNCHANGED <<month, marker, verified, reports, installed, overdue, flips, faults>>

\* GetState; an error is ignored and reads like a fresh install.
ReadMarker ==
  /\ phase = "started"
  /\ \/ NoFault /\ Goto(CASE marker = Unset -> "fresh"
                          [] marker = current -> "idle"
                          [] OTHER -> "report")
     \/ Fault /\ Goto("fresh")
  /\ UNCHANGED <<month, marker, verified, current, day, reports, installed, overdue, flips>>

WriteMarker(m) ==
  \/ marker' = m /\ installed' = (IF installed = Unset THEN m ELSE installed) /\ NoFault
  \/ UNCHANGED <<marker, installed>> /\ Fault

\* A fresh install writes the marker and sends nothing.
FreshInstall ==
  /\ phase = "fresh"
  /\ WriteMarker(current)
  /\ Goto("idle")
  /\ UNCHANGED <<month, verified, current, day, reports, overdue, flips>>

\* AddDate of Go, by k months from day d of month m: a day that the target does
\* not have runs over into the month after it.
AddMonths(m, d, k) == IF m + k \in 1..12 /\ d > Length(m + k) THEN m + k + 1 ELSE m + k

\* The month before, reckoned from the first of the tick's month.
PreviousUnnormalized == AddMonths(current, day, -1)
Previous == AddMonths(current, 1, -1)

\* The month before the tick's is reported, or the domain is not verified, or a
\* store call failed: then the next tick tries again.
Report ==
  /\ phase = "report"
  /\ \/ /\ verified /\ NoFault
        /\ reports' = [reports EXCEPT ![Previous] = @ + 1]
        /\ Goto("sent")
     \/ /\ \/ ~verified /\ NoFault
           \/ Fault
        /\ UNCHANGED reports
        /\ Goto("idle")
  /\ UNCHANGED <<month, marker, verified, current, day, installed, overdue, flips>>

SetMarker ==
  /\ phase = "sent"
  /\ WriteMarker(current)
  /\ Goto("idle")
  /\ UNCHANGED <<month, verified, current, day, reports, overdue, flips>>

Crash ==
  /\ phase # "idle" /\ Fault
  /\ Goto("idle")
  /\ UNCHANGED <<month, marker, verified, current, day, reports, installed, overdue, flips>>

Ticking == StatsTick \/ ReadMarker \/ FreshInstall \/ Report \/ SetMarker

Next == NextMonth \/ DomainChecked \/ Ticking \/ Crash

Spec == Init /\ [][Next]_vars

-----------------------------------------------------------------------------
(* Properties.                                                              *)

\* Each month is reported, and once.  The marker is written after the email is
\* queued, so only a crash or store error in between may repeat a report.
\* Design, section 9: downtime on the 1st skips no month.  Once the marker has
\* passed a month after the install, that month was reported, unless it was
\* overdue for another whole month; and no month before the install is reported.
\* The install month itself is left open: README.md, "Notifications", says that
\* it gets no report, but the marker of a fresh install only holds the report of
\* the month before back, so the code reports it at the next turn of the month.
EachMonthOnce ==
  /\ \A m \in 0..MaxMonth : reports[m] <= 1 + faults
  /\ faults = 0 => \A m \in 0..MaxMonth :
       /\ installed # Unset /\ installed < m /\ m < marker => reports[m] > 0 \/ m \in overdue
       /\ reports[m] > 0 => installed # Unset /\ installed <= m
=============================================================================
