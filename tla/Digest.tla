------------------------------- MODULE Digest -------------------------------
(***************************************************************************)
(* The failure digest of internal/notify/notifier.go: the delivery worker  *)
(* calls PermanentFailure from its goroutines while the notifier's own     *)
(* goroutine lists, reports and clears notify_pending_failures.  The two   *)
(* share nothing but the database, and each store call is one step.        *)
(***************************************************************************)
EXTENDS Integers, FiniteSets

CONSTANTS
  Emails,     \* user emails that may fail
  SysMail,    \* stands for every email the notifier enqueued itself
  Cooldown,   \* the hour between two digests
  MaxFails,   \* bound: permanent failures of one email
  MaxFlips,   \* bound: changes of the system domain's verification
  MaxFaults   \* bound: crashes and failed store calls

DigestAssumption ==
  /\ SysMail \notin Emails
  /\ Cooldown \in Nat \ {0} /\ MaxFails \in Nat /\ MaxFlips \in Nat /\ MaxFaults \in Nat

\* Ages in minutes saturate at Never, which also stands for "not set": the
\* code treats an unset marker like one that is long past.
Never == Cooldown + 1

VARIABLES
  pending,    \* notify_pending_failures
  marker,     \* notify_state digest_last_sent: how long ago
  verified,   \* the system domain exists and is verified
  phase,      \* where DigestTick is
  batch,      \* what ListPendingFailures returned
  age,        \* how long ago the tick read its now
  outbox,     \* system emails that are queued and not settled
  fails,      \* history: permanent failures of each email that reached the hook
  owed,       \* history: failures that no digest has named yet
  digests,    \* history: digests enqueued
  named,      \* history: how often each email was named in a digest
  sinceLast,  \* history: how long ago the last digest's tick began
  flips, faults

vars == <<pending, marker, verified, phase, batch, age, outbox, fails, owed, digests, named,
          sinceLast, flips, faults>>

All == Emails \cup {SysMail}

TypeOK ==
  /\ pending \in SUBSET All /\ batch \in SUBSET All /\ owed \in SUBSET Emails
  /\ marker \in 0..Never /\ sinceLast \in 0..Never /\ age \in 0..1
  /\ verified \in BOOLEAN
  /\ phase \in {"idle", "listed", "ready", "enqueued", "cleared"}
  /\ outbox \in Nat /\ digests \in Nat
  /\ fails \in [Emails -> 0..MaxFails] /\ named \in [All -> Nat]
  /\ flips \in 0..MaxFlips /\ faults \in 0..MaxFaults

Init ==
  /\ pending = {} /\ batch = {} /\ owed = {}
  /\ marker = Never /\ sinceLast = Never /\ age = 0
  /\ verified \in BOOLEAN
  /\ phase = "idle"
  /\ outbox = 0 /\ digests = 0
  /\ fails = [e \in Emails |-> 0] /\ named = [e \in All |-> 0]
  /\ flips = 0 /\ faults = 0

Fault == faults < MaxFaults /\ faults' = faults + 1
NoFault == UNCHANGED faults

Goto(ph) == phase' = ph
Digesting == <<phase, batch, age, digests, named, sinceLast, marker>>

-----------------------------------------------------------------------------
(* Callers: the delivery worker and the DNS check.                          *)

\* PermanentFailure for a user email; its errors are dropped.
UserFailure(e) ==
  /\ fails[e] < MaxFails
  /\ fails' = [fails EXCEPT ![e] = @ + 1]
  /\ \/ pending' = pending \cup {e} /\ owed' = owed \cup {e} /\ NoFault
     \/ UNCHANGED <<pending, owed>> /\ Fault
  /\ UNCHANGED <<verified, outbox, flips>> /\ UNCHANGED Digesting

\* PermanentFailure for an email of the notifier: the loop guard.
SystemFailureReported ==
  /\ outbox > 0
  /\ outbox' = outbox - 1
  /\ pending' = pending \cup {SysMail}
  /\ UNCHANGED <<verified, fails, owed, flips, faults>> /\ UNCHANGED Digesting
SystemFailure ==
  /\ outbox > 0
  /\ outbox' = outbox - 1
  /\ UNCHANGED <<pending, verified, fails, owed, flips, faults>> /\ UNCHANGED Digesting

SystemSent ==
  /\ outbox > 0
  /\ outbox' = outbox - 1
  /\ UNCHANGED <<pending, verified, fails, owed, flips, faults>> /\ UNCHANGED Digesting

DomainChecked ==
  /\ flips < MaxFlips
  /\ flips' = flips + 1
  /\ verified' = ~verified
  /\ UNCHANGED <<pending, outbox, fails, owed, faults>> /\ UNCHANGED Digesting

-----------------------------------------------------------------------------
(* DigestTick                                                               *)

ListPendingFailures ==
  /\ phase = "idle" /\ pending # {}
  /\ batch' = pending /\ age' = 0
  /\ Goto("listed")
  /\ UNCHANGED <<pending, marker, verified, outbox, fails, owed, digests, named, sinceLast,
                 flips, faults>>

\* An error of GetState is ignored and reads like a digest never sent.
CheckCooldownIgnored ==
  /\ phase = "listed"
  /\ Goto("ready")
  /\ UNCHANGED <<pending, marker, verified, batch, age, outbox, fails, owed, digests, named,
                 sinceLast, flips, faults>>
\* The last digest is compared with the now of the tick.
CheckCooldown ==
  /\ phase = "listed"
  /\ \/ marker - age < Cooldown /\ Goto("idle") /\ NoFault
     \/ marker - age >= Cooldown /\ Goto("ready") /\ NoFault
     \/ Goto("ready") /\ Fault
  /\ UNCHANGED <<pending, marker, verified, batch, age, outbox, fails, owed, digests, named,
                 sinceLast, flips>>

\* enqueue: the digest is queued, or skipped while the system domain is not
\* verified, or a store call fails; only the first clears anything.
EnqueueDigest ==
  /\ phase = "ready"
  /\ verified
  /\ outbox' = outbox + 1
  /\ digests' = digests + 1
  /\ named' = [e \in All |-> named[e] + IF e \in batch THEN 1 ELSE 0]
  /\ owed' = owed \ batch
  /\ sinceLast' = age
  /\ Goto("enqueued")
  /\ UNCHANGED <<pending, marker, verified, batch, age, fails, flips, faults>>

SkipDigestCleared ==
  /\ phase = "ready"
  /\ ~verified /\ NoFault
  /\ pending' = {} /\ Goto("idle")
  /\ UNCHANGED <<marker, verified, batch, age, outbox, fails, owed, digests, named, sinceLast,
                 flips>>
SkipDigest ==
  /\ phase = "ready"
  /\ \/ ~verified /\ NoFault
     \/ Fault
  /\ Goto("idle")
  /\ UNCHANGED <<pending, marker, verified, batch, age, outbox, fails, owed, digests, named,
                 sinceLast, flips>>

\* ClearPendingFailures deletes every row, listed or not.
ClearSkipped ==
  /\ phase = "enqueued"
  /\ Goto("cleared") /\ UNCHANGED pending /\ NoFault
  /\ UNCHANGED <<marker, verified, batch, age, outbox, fails, owed, digests, named, sinceLast, flips>>
ClearPendingFailures ==
  /\ phase = "enqueued"
  /\ \/ pending' = {} /\ Goto("cleared") /\ NoFault
     \/ UNCHANGED pending /\ Goto("idle") /\ Fault
  /\ UNCHANGED <<marker, verified, batch, age, outbox, fails, owed, digests, named, sinceLast, flips>>

\* SetState("digest_last_sent", now)
SetMarker ==
  /\ phase = "cleared"
  /\ \/ marker' = age /\ NoFault
     \/ UNCHANGED marker /\ Fault
  /\ Goto("idle")
  /\ UNCHANGED <<pending, verified, batch, age, outbox, fails, owed, digests, named, sinceLast, flips>>

\* A crash ends the tick; the process is restarted at once.
Crash ==
  /\ phase # "idle" /\ Fault
  /\ Goto("idle")
  /\ UNCHANGED <<pending, marker, verified, batch, age, outbox, fails, owed, digests, named,
                 sinceLast, flips>>

\* Some minutes pass; a tick takes less than that once, never twice.
Aged(t) == IF t < Never THEN t + 1 ELSE Never
TimePasses ==
  /\ phase # "idle" => age = 0
  /\ age' = IF phase = "idle" THEN 0 ELSE age + 1
  /\ marker' = Aged(marker) /\ sinceLast' = Aged(sinceLast)
  /\ UNCHANGED <<pending, verified, phase, batch, outbox, fails, owed, digests, named, flips, faults>>

-----------------------------------------------------------------------------
DigestTick ==
  \/ ListPendingFailures \/ CheckCooldown \/ EnqueueDigest \/ SkipDigest
  \/ ClearPendingFailures \/ SetMarker

Next ==
  \/ \E e \in Emails : UserFailure(e)
  \/ SystemFailure \/ SystemSent \/ DomainChecked
  \/ DigestTick \/ Crash \/ TimePasses

Spec == Init /\ [][Next]_vars

-----------------------------------------------------------------------------
(* Properties.                                                              *)

\* A failure is named in one digest only, unless an email failed again or a
\* crash or store error hit the tick between sending and clearing.
NamedOnce == \A e \in Emails : named[e] <= fails[e] + faults

\* The notifier never feeds on itself: as many digests as user emails failed,
\* however many of its own emails fail (the loop guard of PermanentFailure).
NoLoop ==
  digests <= Cardinality({f \in Emails \X (1..MaxFails) : f[2] <= fails[f[1]]}) + faults

\* An outage makes one digest an hour: without a fault, the ticks of two
\* digests are at least Cooldown apart.
CooldownHolds ==
  [][digests' > digests /\ faults' = 0 => sinceLast - age >= Cooldown]_vars

\* A digest that cannot be sent is kept and sent later: once the system domain
\* stays verified, every failure on the list is named by a digest at last, also
\* one whose digest was skipped or failed before.  The one way out is the race
\* NoFailureForgotten is about: a digest that does not name it (it failed, or
\* failed again, after the listing) is about to clear the list.
ClearedUnseen(e) == phase = "enqueued" /\ e \in owed
PendingGetsOut ==
  <>[]verified =>
    \A e \in Emails : e \in pending \cap owed ~> e \notin owed \/ ClearedUnseen(e)

\* README.md, "Notifications": the digest batches every email that failed since
\* the last digest.  So a failure no digest has named is still on the list.
NoFailureForgotten == owed \subseteq pending
=============================================================================
