---------------------------- MODULE AdminEmails ----------------------------
(***************************************************************************)
(* retryEmail and cancelEmail of internal/admin/admin.go: every operator's *)
(* request reads the row, decides, and then writes with a guarded UPDATE.  *)
(* Other operators and the delivery worker run in between.  The worker is  *)
(* the one of Delivery, cut down to its claims and verdicts.               *)
(***************************************************************************)
EXTENDS EmailStore

CONSTANTS
  Emails,
  Admins,      \* requests that operators have open at the same time
  MaxRequests, \* bound: requests of one operator
  MaxClaims    \* bound: claims by the worker

AdminAssumption == MaxRequests \in Nat /\ MaxClaims \in Nat

VARIABLES
  email,   \* the emails table
  req,     \* the request an operator has open
  held,    \* emails the worker has claimed and not yet settled
  sent,    \* history: requests of each operator
  claims,  \* claims so far
  wanted   \* history: canceled by an answered request and not retried since

vars == <<email, req, held, sent, claims, wanted>>

\* to is the recipient field of the retry form; seen is the row as read;
\* newTo is what the handler passes to RequeueEmail.
Request == [op: {"none", "retry", "cancel"}, e: Emails, phase: {"read", "write", "done"},
            to: Addrs \cup {NoAddr}, seen: Row, newTo: Addrs \cup {NoAddr},
            code: {0, 303, 404, 409, 422, 500}]
NoRequest(e) == [op |-> "none", e |-> e, phase |-> "done", to |-> NoAddr, seen |-> NoRow,
                 newTo |-> NoAddr, code |-> 0]

TypeOK ==
  /\ email \in [Emails -> Row]
  /\ req \in [Admins -> Request]
  /\ held \in SUBSET Emails
  /\ sent \in [Admins -> 0..MaxRequests]
  /\ claims \in 0..MaxClaims
  /\ wanted \in SUBSET Emails

Init ==
  /\ email \in [Emails -> {NoRow} \cup {Enqueued(a) : a \in Addrs}]
  /\ req \in [Admins -> {NoRequest(e) : e \in Emails}]
  /\ held = {}
  /\ sent = [a \in Admins |-> 0]
  /\ claims = 0
  /\ wanted = {}

\* The request is over, and the handler's copy of the row with it.
Answer(a, code) ==
  req' = [req EXCEPT ![a].phase = "done", ![a].code = code, ![a].seen = NoRow]

-----------------------------------------------------------------------------
Open(a, op, e, to) ==
  /\ req[a].phase = "done" /\ sent[a] < MaxRequests
  /\ op = "cancel" => to = NoAddr
  /\ req' = [req EXCEPT ![a] = [NoRequest(e) EXCEPT !.op = op, !.phase = "read", !.to = to]]
  /\ sent' = [sent EXCEPT ![a] = @ + 1]
  /\ UNCHANGED <<email, held, claims, wanted>>

\* The status check of the handler, on the row it has just read.
Offered(op, r) == IF op = "retry" THEN Requeueable(r) ELSE Cancelable(r)

\* The form's recipient counts as a change only if it differs from the row.
ReadsRow(a) ==
  /\ req[a].phase = "read"
  /\ LET row == email[req[a].e] IN
     CASE row.status = "none" -> Answer(a, 404)
       [] row.status # "none" /\ ~Offered(req[a].op, row) -> Answer(a, 409)
       [] OTHER -> req' = [req EXCEPT ![a].phase = "write", ![a].seen = row,
                                      ![a].newTo = IF req[a].to = row.to THEN NoAddr ELSE req[a].to]
  /\ UNCHANGED <<email, held, sent, claims, wanted>>

\* The guarded UPDATE.  No row affected: emailActionError.
RetryOnSeen(a) ==
  LET e == req[a].e IN
  /\ req[a].phase = "write" /\ req[a].op = "retry"
  /\ email' = [email EXCEPT ![e] = Requeued(req[a].seen, req[a].newTo)]
  /\ wanted' = wanted \ {e}
  /\ Answer(a, 303)
  /\ UNCHANGED <<held, sent, claims>>
Retry(a) ==
  LET e == req[a].e IN
  /\ req[a].phase = "write" /\ req[a].op = "retry"
  /\ IF Requeueable(email[e])
     THEN /\ email' = [email EXCEPT ![e] = Requeued(email[e], req[a].newTo)]
          /\ wanted' = wanted \ {e}
          /\ Answer(a, 303)
     ELSE UNCHANGED <<email, wanted>> /\ Answer(a, 409)
  /\ UNCHANGED <<held, sent, claims>>

Cancel(a) ==
  LET e == req[a].e IN
  /\ req[a].phase = "write" /\ req[a].op = "cancel"
  /\ IF Cancelable(email[e])
     THEN /\ email' = [email EXCEPT ![e] = Canceled(email[e])]
          /\ wanted' = wanted \cup {e}
          /\ Answer(a, 303)
     ELSE UNCHANGED <<email, wanted>> /\ Answer(a, 409)
  /\ UNCHANGED <<held, sent, claims>>

\* A request that ends without a write: GetEmail fails, which is answered like a
\* missing row; the text in the form of a retry is no address; the UPDATE fails.
EndsEarly(a) ==
  /\ \/ req[a].phase = "read" /\ Answer(a, 404)
     \/ /\ req[a].phase = "read" /\ req[a].op = "retry" /\ req[a].to # NoAddr
        /\ Requeueable(email[req[a].e]) /\ Answer(a, 422)
     \/ req[a].phase = "write" /\ Answer(a, 500)
  /\ UNCHANGED <<email, held, sent, claims, wanted>>

-----------------------------------------------------------------------------
(* The worker.                                                              *)

WorkerClaims(e) ==
  /\ claims < MaxClaims /\ claims' = claims + 1
  /\ e \notin held /\ IsDue(email[e])
  /\ email' = [email EXCEPT ![e] = Claimed(email[e])]
  /\ held' = held \cup {e}
  /\ UNCHANGED <<req, sent, wanted>>

\* The verdict is written without a look at the row.  Backoff is cut to one
\* step of time, which passes at once.
Verdicts(r) == {Sent(r), Retried(r, 0), Failed(r)}
WorkerSettles(e) ==
  /\ e \in held /\ held' = held \ {e}
  /\ \E r \in Verdicts(email[e]) : email' = [email EXCEPT ![e] = r]
  /\ UNCHANGED <<req, sent, claims, wanted>>

Next ==
  \/ \E a \in Admins, e \in Emails, op \in {"retry", "cancel"}, to \in Addrs \cup {NoAddr} :
       Open(a, op, e, to)
  \/ \E a \in Admins : ReadsRow(a) \/ Retry(a) \/ Cancel(a) \/ EndsEarly(a)
  \/ \E e \in Emails : WorkerClaims(e) \/ WorkerSettles(e)

Spec == Init /\ [][Next]_vars

-----------------------------------------------------------------------------
(* Properties.                                                              *)

\* An answered cancel holds: the email is neither delivered nor retried by the
\* worker until an operator's retry is answered, whatever was read when.
CancelHolds == \A e \in wanted : email[e].status = "canceled"

\* A retry that is answered does not undo a re-addressing it never saw: it may
\* change the recipient only to the one its form asked for.
RetryKeepsRecipient ==
  [][\A a \in Admins, e \in Emails :
       req[a].phase = "write" /\ req'[a].phase = "done" /\ email'[e].to # email[e].to
       => req[a].e = e /\ email'[e].to = req[a].to]_vars
=============================================================================
