----------------------------- MODULE LeaseQueue -----------------------------
(***************************************************************************)
(* What the delivery engine promises about the emails table, without       *)
(* clocks, slots, processes or SQL: a claimed email is held by one sender, *)
(* only its holder may settle it, and nobody else can move a held email.   *)
(* An email whose holder vanished stays "sending" until it is released.    *)
(***************************************************************************)
CONSTANT Emails

VARIABLES
  status,   \* the status column of every email
  held      \* whether a sender is working on it

vars == <<status, held>>

TypeOK ==
  /\ status \in [Emails -> {"none", "queued", "sending", "sent", "failed", "canceled"}]
  /\ held \in [Emails -> BOOLEAN]

Init ==
  /\ status = [e \in Emails |-> "none"]
  /\ held = [e \in Emails |-> FALSE]

Move(e, from, to) ==
  /\ status[e] \in from
  /\ status' = [status EXCEPT ![e] = to]

Submit(e) == Move(e, {"none"}, "queued") /\ UNCHANGED held
Cancel(e) == Move(e, {"queued"}, "canceled") /\ UNCHANGED held
Requeue(e) == Move(e, {"queued", "failed", "canceled"}, "queued") /\ UNCHANGED held

\* Queued emails S are claimed in one step; H of them get a holder.  The rest
\* belong to nobody: the claim was written and its answer was lost.
Claim(S, H) ==
  /\ \A e \in S : status[e] = "queued"
  /\ status' = [e \in Emails |-> IF e \in S THEN "sending" ELSE status[e]]
  /\ held' = [e \in Emails |-> held[e] \/ e \in H]

\* The verdict of the holder.
Settle(e, verdict) ==
  /\ held[e]
  /\ Move(e, {"sending"}, verdict)
  /\ held' = [held EXCEPT ![e] = FALSE]

\* The holders of S are gone without a verdict.
Drop(S) ==
  /\ held' = [e \in Emails |-> held[e] /\ e \notin S]
  /\ UNCHANGED status

\* Emails nobody holds go back to the queue.
Release(S) ==
  /\ \A e \in S : status[e] = "sending" /\ ~held[e]
  /\ status' = [e \in Emails |-> IF e \in S THEN "queued" ELSE status[e]]
  /\ UNCHANGED held

Next ==
  \/ \E e \in Emails : Submit(e) \/ Cancel(e) \/ Requeue(e)
  \/ \E S \in SUBSET Emails : \E H \in SUBSET S : Claim(S, H)
  \/ \E e \in Emails, verdict \in {"queued", "sent", "failed"} : Settle(e, verdict)
  \/ \E S \in SUBSET Emails : Drop(S) \/ Release(S)

Spec == Init /\ [][Next]_vars
=============================================================================
