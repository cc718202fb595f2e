-------------------------------- MODULE Api --------------------------------
(***************************************************************************)
(* POST and GET /api/v1/emails of internal/api/api.go.  A handler is a     *)
(* chain of store calls, each of them atomic (the store has one            *)
(* connection); other requests, an admin that revokes a key, a DNS check   *)
(* that turns a domain, and a crash come in between.  Clients may send the *)
(* same request again at any time.                                         *)
(***************************************************************************)
EXTENDS Integers, Sequences, FiniteSets

CONSTANTS
  Keys, Domains,
  DomainOf,      \* the domain an API key is scoped to
  Idems, NoIdem, \* Idempotency-Key values; NoIdem: no such header
  Requests,      \* requests that may be in flight at the same time
  MaxSends,      \* bound: times one of Requests is sent
  MaxFaults      \* bound: failing store calls and crashes

ApiAssumption ==
  /\ DomainOf \in [Keys -> Domains]
  /\ NoIdem \notin Idems
  /\ MaxSends \in Nat /\ MaxFaults \in Nat

VARIABLES
  live,      \* keys with revoked = 0
  verified,  \* domains whose three flags are set
  emails,    \* the rows inserted through the API; a row's index is its id
  req,       \* the request each of Requests carries, and where its handler is
  answers,   \* history: answers given so far
  faults     \* faults so far

vars == <<live, verified, emails, req, answers, faults>>

\* invalid: refused before anything is looked up (too large, no JSON, a bad
\* address or header; 413, 400 and 422 in the code, 422 here).  offDomain: the
\* From address is not on the key's domain.
Body == {"fine", "invalid", "offDomain"}

Ids == 1..(Cardinality(Requests) * MaxSends)
NoId == 0
Content == [op: {"post"}, key: Keys, idem: Idems \cup {NoIdem}, body: Body, id: {NoId}]
           \cup [op: {"get"}, key: Keys, idem: {NoIdem}, body: {"fine"}, id: Ids]
Phase == {"idle", "auth", "check", "find", "insert", "recheck", "read"}

\* late: the key was revoked before the request arrived.
Request == [content: Content, phase: Phase, sends: 0..MaxSends, late: BOOLEAN]
EmailRow == [key: Keys, idem: Idems \cup {NoIdem}]
AnswerRecord == [to: Content, code: {200, 202, 401, 403, 404, 422, 500},
                 id: Ids \cup {NoId}, late: BOOLEAN]

TypeOK ==
  /\ live \in SUBSET Keys
  /\ verified \in SUBSET Domains
  /\ emails \in Seq(EmailRow) /\ Len(emails) <= Cardinality(Ids)
  /\ req \in [Requests -> Request]
  /\ answers \in SUBSET AnswerRecord
  /\ faults \in 0..MaxFaults

Init ==
  /\ live = Keys
  /\ verified \in SUBSET Domains
  /\ emails = <<>>
  /\ req \in [Requests -> [content: Content, phase: {"idle"}, sends: {0}, late: {FALSE}]]
  /\ answers = {}
  /\ faults = 0

-----------------------------------------------------------------------------
(* Steps of a handler.                                                      *)

\* writeJSON and jsonError: the handler ends.
Answer(r, code, id) ==
  /\ req' = [req EXCEPT ![r].phase = "idle"]
  /\ answers' = answers \cup {[to |-> req[r].content, code |-> code, id |-> id, late |-> req[r].late]}
Refuse(r, code) == Answer(r, code, NoId)
Goes(r, phase) == req' = [req EXCEPT ![r].phase = phase] /\ UNCHANGED answers

At(r, phase) == req[r].phase = phase
Carried(r) == req[r].content
Fault == faults < MaxFaults /\ faults' = faults + 1
NoFault == UNCHANGED faults
StoreSame == UNCHANGED <<live, verified, emails>>

\* The client sends its request, or sends it again.
Arrive(r) ==
  /\ At(r, "idle") /\ req[r].sends < MaxSends
  /\ req' = [req EXCEPT ![r].phase = "auth", ![r].sends = @ + 1,
                        ![r].late = Carried(r).key \notin live]
  /\ UNCHANGED answers /\ StoreSame /\ NoFault

\* auth: a store error, too, answers 401.  TouchAPIKey's error is not looked
\* at, and last_used_at, which it sets, is not modelled.
Known(k) == k \in live
AfterAuth(r) == IF Carried(r).op = "post" THEN "check" ELSE "read"
Authenticate(r) ==
  /\ At(r, "auth") /\ StoreSame
  /\ \/ ~Known(Carried(r).key) /\ Refuse(r, 401) /\ NoFault
     \/ Known(Carried(r).key) /\ Goes(r, AfterAuth(r)) /\ NoFault
     \/ Fault /\ Refuse(r, 401)

\* Validation, then GetDomain and what is checked of the domain.
FirstLookup(r) == IF Carried(r).idem = NoIdem THEN "insert" ELSE "find"
Check(r) ==
  LET c == Carried(r)
      d == DomainOf[c.key] IN
  /\ At(r, "check") /\ StoreSame
  /\ \/ c.body = "invalid" /\ Refuse(r, 422) /\ NoFault
     \/ c.body # "invalid" /\ Fault /\ Refuse(r, 500)
     \/ c.body = "offDomain" /\ Refuse(r, 422) /\ NoFault
     \/ c.body = "fine" /\ d \notin verified /\ Refuse(r, 403) /\ NoFault
     \/ c.body = "fine" /\ d \in verified /\ Goes(r, FirstLookup(r)) /\ NoFault

\* FindByIdempotencyKey
RowsOfAnyKey(k, i) == {id \in DOMAIN emails : emails[id].idem = i}
RowsOf(k, i) == {id \in DOMAIN emails : emails[id] = [key |-> k, idem |-> i]}
Found(r) == RowsOf(Carried(r).key, Carried(r).idem)
Replay(r) == \E id \in Found(r) : Answer(r, 200, id)

\* An error of the first lookup is taken for "not found".
Find(r) ==
  /\ At(r, "find") /\ StoreSame
  /\ \/ Replay(r) /\ NoFault
     \/ Found(r) = {} /\ Goes(r, "insert") /\ NoFault
     \/ Fault /\ Goes(r, "insert")

\* The partial unique index idx_emails_idem.
ConflictsNever(r) == FALSE
Conflicts(r) == Carried(r).idem # NoIdem /\ Found(r) # {}

\* enqueueOrReplay, after a failed insert
InsertFailedGivesUp(r) == Refuse(r, 500)
InsertFailed(r) == IF Carried(r).idem # NoIdem THEN Goes(r, "recheck") ELSE Refuse(r, 500)

Insert(r) ==
  /\ At(r, "insert") /\ UNCHANGED <<live, verified>>
  /\ \/ /\ ~Conflicts(r)
        /\ emails' = Append(emails, [key |-> Carried(r).key, idem |-> Carried(r).idem])
        /\ Answer(r, 202, Len(emails'))
        /\ NoFault
     \/ Conflicts(r) /\ InsertFailed(r) /\ UNCHANGED emails /\ NoFault
     \/ Fault /\ InsertFailed(r) /\ UNCHANGED emails

Recheck(r) ==
  /\ At(r, "recheck") /\ StoreSame
  /\ \/ Replay(r) /\ NoFault
     \/ Found(r) = {} /\ Refuse(r, 500) /\ NoFault
     \/ Fault /\ Refuse(r, 500)

\* getEmail: any key of the email's domain may read it.
Readable(r) ==
  {id \in DOMAIN emails : id = Carried(r).id
                          /\ DomainOf[emails[id].key] = DomainOf[Carried(r).key]}
Read(r) ==
  /\ At(r, "read") /\ StoreSame
  /\ \/ Readable(r) # {} /\ Answer(r, 200, Carried(r).id) /\ NoFault
     \/ Readable(r) = {} /\ Refuse(r, 404) /\ NoFault
     \/ Fault /\ Refuse(r, 404)

Handler(r) == \/ Authenticate(r) \/ Check(r) \/ Find(r)
              \/ Insert(r) \/ Recheck(r) \/ Read(r)

-----------------------------------------------------------------------------
(* Everybody else.                                                          *)

RevokeAPIKey(k) ==
  /\ k \in live /\ live' = live \ {k}
  /\ UNCHANGED <<verified, emails, req, answers, faults>>

\* SetDomainVerification; the checks behind it are DomainCheck.
SetDomainVerification(d) ==
  /\ verified' \in {verified \cup {d}, verified \ {d}} \ {verified}
  /\ UNCHANGED <<live, emails, req, answers, faults>>

\* The process dies: handlers end without an answer, rows stay.
Crash ==
  /\ Fault
  /\ \E r \in Requests : ~At(r, "idle")
  /\ req' = [r \in Requests |-> [req[r] EXCEPT !.phase = "idle"]]
  /\ UNCHANGED answers /\ StoreSame

Next ==
  \/ \E r \in Requests : Arrive(r) \/ Handler(r)
  \/ \E k \in Keys : RevokeAPIKey(k)
  \/ \E d \in Domains : SetDomainVerification(d)
  \/ Crash

Spec == Init /\ [][Next]_vars

-----------------------------------------------------------------------------
(* Properties.                                                              *)

\* Whatever races, retries and crashes there were, one key and Idempotency-Key
\* never put two emails in the queue.
OneEmailPerIdempotencyKey ==
  \A i, j \in DOMAIN emails : emails[i] = emails[j] /\ emails[i].idem # NoIdem => i = j

\* A client that is told an id was told that of its own email: the row has its
\* key and its Idempotency-Key, and a GET shows only emails of the key's domain.
\* Requests in flight while their key is revoked may still be served, but none
\* that arrived later.
RepliesNameTheEmail ==
  \A a \in answers : a.code \in {200, 202} =>
    /\ ~a.late
    /\ a.id \in DOMAIN emails
    /\ IF a.to.op = "post" THEN emails[a.id] = [key |-> a.to.key, idem |-> a.to.idem]
                            ELSE DomainOf[emails[a.id].key] = DomainOf[a.to.key]

\* Losing the race for an Idempotency-Key is no error: as long as the store
\* works and nothing crashes, no request is answered with 500.
RaceIsNoError == faults = 0 => \A a \in answers : a.code # 500

\* README.md, "API usage": resending a key returns the original result.
ReplayIsAnswered ==
  [][\A a \in answers' \ answers :
       a.to.op = "post" /\ a.to.idem # NoIdem /\ faults' = 0 /\ Keys = live
       /\ (\E id \in DOMAIN emails : emails[id] = [key |-> a.to.key, idem |-> a.to.idem])
       /\ a.to.body = "fine"
       => a.code \in {200, 202}]_vars
=============================================================================
