----------------------------- MODULE EmailStore -----------------------------
(***************************************************************************)
(* The emails table of internal/store/emails.go.  It is the queue and the  *)
(* log of the system at once.  Each operator below is one SQL statement of *)
(* that file as a function from a row to a row, with the WHERE clause that *)
(* guards it; the modules that EXTEND this one decide who runs it, and     *)
(* when.                                                                   *)
(*                                                                         *)
(* Time is relative: the column next_attempt_at is kept as due, the time   *)
(* that is left until it (next_attempt_at - now), because every comparison *)
(* in the code is one with the current time.                               *)
(***************************************************************************)
EXTENDS Integers

CONSTANTS
  Addrs,    \* recipient addresses an email may carry
  NoAddr    \* the empty string: original_to not set, newTo not given

ASSUME StoreAssumption == NoAddr \notin Addrs

\* "none": the id has not been inserted yet.
Status == {"none", "queued", "sending", "sent", "failed", "canceled"}

Row == [status: Status, attempts: Nat, due: Int,
        to: Addrs \cup {NoAddr}, originalTo: Addrs \cup {NoAddr}]

NoRow == [status |-> "none", attempts |-> 0, due |-> 0,
          to |-> NoAddr, originalTo |-> NoAddr]

\* EnqueueEmail: a new row is queued and due at once.
Enqueued(to) == [status |-> "queued", attempts |-> 0, due |-> 0,
                 to |-> to, originalTo |-> NoAddr]

\* ClaimDue: the rows it may take, and the claim, which stamps the claim
\* time into next_attempt_at so that staleness can be told later.
IsDue(r) == r.status = "queued" /\ r.due <= 0
ClaimedUnstamped(r) == [r EXCEPT !.status = "sending"]
Claimed(r) == [r EXCEPT !.status = "sending", !.due = 0]

\* RequeueStaleSending
IsStale(r, window) == r.status = "sending" /\ r.due <= -window
Released(r) == [r EXCEPT !.status = "queued"]

\* MarkSent, MarkRetry and MarkFailed have no guard on the status: they rely
\* on the caller still owning the row.
SentMisnamed(r) == [r EXCEPT !.status = "delivered", !.attempts = @ + 1]
SentUncounted(r) == [r EXCEPT !.status = "queued"]
Sent(r) == [r EXCEPT !.status = "sent", !.attempts = @ + 1]
Retried(r, wait) == [r EXCEPT !.status = "queued", !.attempts = @ + 1, !.due = wait]
Failed(r) == [r EXCEPT !.status = "failed", !.attempts = @ + 1]

\* CancelEmail
CancelableUnguarded(r) == r.status \in {"queued", "sending"}
Cancelable(r) == r.status = "queued"
Canceled(r) == [r EXCEPT !.status = "canceled"]

\* RequeueEmail with its requeueGuard; newTo = NoAddr leaves the recipient.
RequeueableUnguarded(r) == r.status \in {"queued", "sending", "failed", "canceled"}
RequeueableSent(r) == r.status \in {"queued", "sent", "failed", "canceled"}
Requeueable(r) == r.status \in {"queued", "failed", "canceled"}
RequeuedForgetful(r, newTo) ==
  [r EXCEPT !.status = "queued", !.attempts = 0, !.due = 0,
            !.to = IF newTo = NoAddr THEN r.to ELSE newTo,
            !.originalTo = IF newTo \notin {NoAddr, r.to} THEN r.to ELSE @]
Requeued(r, newTo) ==
  [r EXCEPT !.status = "queued", !.attempts = 0, !.due = 0,
            !.to = IF newTo = NoAddr THEN r.to ELSE newTo,
            !.originalTo = IF r.originalTo = NoAddr /\ newTo \notin {NoAddr, r.to}
                           THEN r.to ELSE @]
=============================================================================
