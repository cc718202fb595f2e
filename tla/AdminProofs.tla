---------------------------- MODULE AdminProofs ----------------------------
(***************************************************************************)
(* What holds of the pages of the admin UI for any number of operators,    *)
(* emails, keys, domains and sessions, and any number of requests: actions *)
(* on emails and keys, checks of domains, the list, the charts, logins.    *)
(***************************************************************************)
EXTENDS Admin, SequenceTheorems, FiniteSetTheorems, TLAPS

(* A step of the admin UI is a step of each page, or leaves it alone.       *)

LEMMA FollowsPages ==
  [Next]_vars => /\ [EmailPage!Next]_(EmailPage!vars)
                 /\ [KeyPage!Next]_(KeyPage!vars)
                 /\ [DomainPage!Next]_(DomainPage!vars)
                 /\ [SetupPage!Next]_(SetupPage!vars)
                 /\ [ListPage!Next]_(ListPage!vars)
                 /\ [Board!Next]_(Board!vars)
                 /\ [Login!Next]_(Login!vars)
BY DEF Next, vars, OnEmails, OnKeys, OnCheck, OnSetup, OnList, OnBoard, OnLogin,
       emailVars, keyVars, checkVars, setupVars, listVars, boardVars, sessionVars,
       EmailPage!vars, KeyPage!vars, DomainPage!vars, SetupPage!vars,
       ListPage!vars, Board!vars, Login!vars

-----------------------------------------------------------------------------
(* Sessions.                                                                *)

\* A session in the map is one that was handed out and has not been logged out,
\* and one that is missing from it is over.
SessionInv ==
  /\ clock \in Nat
  /\ sessions \in [Tokens -> Int] /\ began \in [Tokens -> Nat \cup {Login!Absent}]
  /\ out \subseteq {t \in Tokens : began[t] # Login!Absent}
  /\ \A t \in Tokens :
       /\ sessions[t] # Login!Absent =>
            /\ began[t] # Login!Absent /\ t \notin out
            /\ sessions[t] = began[t] + Lifetime
       /\ sessions[t] = Login!Absent /\ began[t] # Login!Absent => Login!Over(t)

\* A request that came after the end of its session finds it over.
Visit == [phase: {"auth", "passed", "refused"}, token: Tokens, op: {"page", "logout"},
          late: BOOLEAN]
VisitInv ==
  /\ visit \in [Browsers -> {Login!Closed} \cup Visit]
  /\ \A b \in Browsers : visit[b] # Login!Closed =>
       /\ began[visit[b].token] # Login!Absent
       /\ visit[b].late => Login!Over(visit[b].token)
       /\ visit[b].phase = "passed" => ~visit[b].late
       /\ visit[b].phase = "refused" => Login!Over(visit[b].token)

LEMMA ClosedIsNoVisit == Login!Closed \notin Visit /\ Login!Closed.phase = "closed"
BY DEF Login!Closed, Visit

\* What is over stays over.
LEMMA EndsAreFinal ==
  ASSUME SessionInv, [Login!Next]_(Login!vars), NEW t \in Tokens, began[t] # Login!Absent
  PROVE  /\ began'[t] = began[t]
         /\ Login!Over(t) => Login!Over(t)'
<1>1. began'[t] = began[t]
  BY DEF SessionInv, Login!Next, Login!vars, Login!Login, Login!Arrive, Login!Authed,
         Login!Logout, Login!Answered, Login!Restart, Login!TimePasses
<1>2. clock' = clock \/ clock' = clock + 1
  BY DEF Login!Next, Login!vars, Login!Login, Login!Arrive, Login!Authed,
         Login!Logout, Login!Answered, Login!Restart, Login!TimePasses
<1>3. out \subseteq out'
  BY DEF SessionInv, Login!Next, Login!vars, Login!Login, Login!Arrive, Login!Authed,
         Login!Logout, Login!Answered, Login!Restart, Login!TimePasses
<1>4. clock \in Int /\ began[t] + Lifetime \in Int
  BY AdminAssumption DEF SessionInv, Login!SessionsAssumption, Login!Absent
<1> QED BY <1>1, <1>2, <1>3, <1>4 DEF Login!Over

LEMMA SessionStep == SessionInv /\ VisitInv /\ [Login!Next]_(Login!vars) => SessionInv'
<1> SUFFICES ASSUME SessionInv, VisitInv, [Login!Next]_(Login!vars) PROVE SessionInv'
  OBVIOUS
<1> USE DEF Login!Over
<1>1. Lifetime \in Nat /\ Login!Absent = -1
  BY AdminAssumption DEF Login!SessionsAssumption, Login!Absent
<1>2. ASSUME NEW t \in Tokens, Login!Login(t) PROVE SessionInv'
  <2>1. /\ began' = [began EXCEPT ![t] = clock] /\ began[t] = Login!Absent
        /\ sessions' = [sessions EXCEPT ![t] = clock + Lifetime]
        /\ UNCHANGED <<clock, out>>
    BY <1>2 DEF Login!Login
  <2>2. /\ clock \in Nat /\ clock + Lifetime \in Int /\ clock # Login!Absent
        /\ began' \in [Tokens -> Nat \cup {Login!Absent}] /\ sessions' \in [Tokens -> Int]
        /\ t \notin out
    BY <1>1, <2>1 DEF SessionInv
  <2>3. ASSUME NEW s \in Tokens
        PROVE  /\ sessions'[s] # Login!Absent =>
                    /\ began'[s] # Login!Absent /\ s \notin out'
                    /\ sessions'[s] = began'[s] + Lifetime
               /\ sessions'[s] = Login!Absent /\ began'[s] # Login!Absent => Login!Over(s)'
    <3>1. CASE s = t
      BY <1>1, <2>1, <2>2, <3>1 DEF SessionInv
    <3>2. CASE s # t
      <4>1. sessions'[s] = sessions[s] /\ began'[s] = began[s] /\ out' = out /\ clock' = clock
        BY <2>1, <3>2 DEF SessionInv
      <4> QED BY <4>1 DEF SessionInv
    <3> QED BY <3>1, <3>2
  <2>4. out' \subseteq {s \in Tokens : began'[s] # Login!Absent}
    BY <2>1, <2>2 DEF SessionInv
  <2> QED BY <2>1, <2>2, <2>3, <2>4 DEF SessionInv
<1>3. ASSUME NEW b \in Browsers, Login!Authed(b) PROVE SessionInv'
  <2> DEFINE t == visit[b].token
  <2>1. t \in Tokens /\ began[t] # Login!Absent /\ UNCHANGED <<clock, began, out>>
    BY <1>3, ClosedIsNoVisit DEF Login!Authed, VisitInv, Visit
  <2>2. \/ UNCHANGED sessions
        \/ sessions' = [sessions EXCEPT ![t] = Login!Absent] /\ ~Login!Live(t)
    BY <1>3 DEF Login!Authed
  <2> HIDE DEF t
  <2>3. ~Login!Live(t) => Login!Over(t)
    BY <1>1, <2>1 DEF SessionInv, Login!Live
  <2>4. CASE sessions' = [sessions EXCEPT ![t] = Login!Absent] /\ ~Login!Live(t)
    BY <1>1, <2>1, <2>3, <2>4 DEF SessionInv
  <2> QED BY <2>1, <2>2, <2>4 DEF SessionInv
<1>4. ASSUME NEW b \in Browsers, Login!Logout(b) PROVE SessionInv'
  <2> DEFINE t == visit[b].token
  <2>1. t \in Tokens /\ began[t] # Login!Absent
    BY <1>4, ClosedIsNoVisit DEF Login!Logout, VisitInv, Visit
  <2>2. /\ sessions' = [sessions EXCEPT ![t] = Login!Absent]
        /\ out' = out \cup {t} /\ UNCHANGED <<clock, began>>
    BY <1>4 DEF Login!Logout
  <2> HIDE DEF t
  <2> QED BY <1>1, <2>1, <2>2 DEF SessionInv
<1>5. CASE Login!Restart
  BY <1>1, <1>5 DEF SessionInv, Login!Restart
<1>6. CASE Login!TimePasses
  BY <1>1, <1>6 DEF SessionInv, Login!TimePasses
<1>7. ASSUME UNCHANGED <<sessions, clock, began, out>> PROVE SessionInv'
  BY <1>7 DEF SessionInv
<1> QED BY <1>2, <1>3, <1>4, <1>5, <1>6, <1>7
        DEF Login!Next, Login!vars, Login!Arrive, Login!Answered

LEMMA VisitStep == SessionInv /\ VisitInv /\ [Login!Next]_(Login!vars) => VisitInv'
<1> SUFFICES ASSUME SessionInv, VisitInv, [Login!Next]_(Login!vars) PROVE VisitInv'
  OBVIOUS
<1> DEFINE Good(b) == /\ visit[b] \in {Login!Closed} \cup Visit
                      /\ visit[b] # Login!Closed =>
                           /\ began[visit[b].token] # Login!Absent
                           /\ visit[b].late => Login!Over(visit[b].token)
                           /\ visit[b].phase = "passed" => ~visit[b].late
                           /\ visit[b].phase = "refused" => Login!Over(visit[b].token)
<1>0. ASSUME NEW b \in Browsers PROVE Good(b)
  BY DEF VisitInv
<1>1. ASSUME NEW b \in Browsers, visit'[b] = visit[b] PROVE Good(b)'
  <2>1. CASE visit[b] = Login!Closed
    <3>1. Login!Closed' = Login!Closed
      BY DEF Login!Closed
    <3> QED BY <1>1, <2>1, <3>1
  <2>2. CASE visit[b] # Login!Closed
    <3>1. visit[b] \in Visit /\ visit[b].token \in Tokens
      BY <1>0, <2>2 DEF Visit
    <3> QED BY <1>0, <1>1, <2>2, <3>1, EndsAreFinal
  <2> QED BY <2>1, <2>2
<1>2. ASSUME NEW b \in Browsers, visit' = [visit EXCEPT ![b] = Login!Closed]
      PROVE  \A c \in Browsers : Good(c)'
  BY <1>1, <1>2 DEF VisitInv, Login!Closed
<1>3. (\A b \in Browsers : Good(b)') /\ visit' \in [Browsers -> {Login!Closed} \cup Visit] => VisitInv'
  BY DEF VisitInv, Login!Closed
<1> HIDE DEF Good
<1>4. ASSUME NEW b \in Browsers, visit' = [visit EXCEPT ![b] = Login!Closed] PROVE VisitInv'
  BY <1>2, <1>3, <1>4 DEF VisitInv
<1>5. ASSUME UNCHANGED visit PROVE VisitInv'
  BY <1>1, <1>3, <1>5 DEF VisitInv
<1>6. ASSUME NEW b \in Browsers, NEW v \in Visit, visit' = [visit EXCEPT ![b] = v], Good(b)'
      PROVE  VisitInv'
  BY <1>1, <1>3, <1>6 DEF VisitInv
<1> USE DEF Good
<1>7. ASSUME NEW b \in Browsers, NEW t \in Tokens, NEW op \in {"page", "logout"},
             Login!Arrive(b, t, op)
      PROVE  VisitInv'
  <2> DEFINE v == [phase |-> "auth", token |-> t, op |-> op, late |-> Login!Over(t)]
  <2>1. began[t] # Login!Absent /\ visit' = [visit EXCEPT ![b] = v]
        /\ UNCHANGED <<clock, began, out>>
    BY <1>7 DEF Login!Arrive
  <2>2. Login!Over(t) \in BOOLEAN /\ Login!Over(t)' = Login!Over(t)
    BY <2>1 DEF Login!Over
  <2>3. v \in Visit
    BY <2>2 DEF Visit
  <2>4. visit'[b] = v
    BY <2>1 DEF VisitInv
  <2>5. Good(b)'
    BY <2>1, <2>2, <2>3, <2>4
  <2> HIDE DEF v, Good
  <2> QED BY <1>6, <2>1, <2>3, <2>5
<1>8. ASSUME NEW b \in Browsers, Login!Authed(b) PROVE VisitInv'
  <2>0. visit[b] \in Visit /\ visit[b].phase = "auth"
    BY <1>0, <1>8, ClosedIsNoVisit DEF Login!Authed
  <2>1. PICK t \in Tokens : t = visit[b].token
    BY <2>0 DEF Visit
  <2>2. began[t] # Login!Absent /\ (visit[b].late => Login!Over(t))
    BY <1>0, <2>0, <2>1, ClosedIsNoVisit
  <2>3. UNCHANGED <<clock, began, out>>
    BY <1>8 DEF Login!Authed
  <2>4. Login!Over(t)' = Login!Over(t)
    BY <2>3 DEF Login!Over
  <2>5. Login!Live(t) => ~Login!Over(t)
    <3>1. ASSUME Login!Live(t) PROVE t \notin out /\ clock <= began[t] + Lifetime
      BY <3>1 DEF SessionInv, Login!Live
    <3>2. clock \in Int /\ began[t] + Lifetime \in Int
      BY <2>2, AdminAssumption DEF SessionInv, Login!SessionsAssumption
    <3> QED BY <3>1, <3>2 DEF Login!Over
  <2>6. ~Login!Live(t) => Login!Over(t)
    <3>1. CASE sessions[t] = Login!Absent
      BY <2>2, <3>1 DEF SessionInv
    <3>2. ASSUME sessions[t] # Login!Absent, ~Login!Live(t)
          PROVE  ~(clock <= began[t] + Lifetime)
      BY <3>2 DEF SessionInv, Login!Live
    <3>3. clock \in Int /\ began[t] + Lifetime \in Int
      BY <2>2, AdminAssumption DEF SessionInv, Login!SessionsAssumption
    <3> QED BY <3>1, <3>2, <3>3 DEF Login!Over
  <2>7. ASSUME NEW ph \in {"passed", "refused"}, visit' = [visit EXCEPT ![b].phase = ph],
               ph = "passed" => ~visit[b].late, ph = "refused" => Login!Over(t)
        PROVE  VisitInv'
    <3>1. PICK v \in Visit : v = [visit[b] EXCEPT !.phase = ph]
      BY <2>0, <2>7 DEF Visit
    <3>2. v.token = t /\ v.late = visit[b].late /\ v.phase = ph
      BY <2>0, <2>1, <3>1 DEF Visit
    <3>3. visit' = [visit EXCEPT ![b] = v] /\ visit'[b] = v
      BY <2>7, <3>1 DEF VisitInv
    <3>4. Good(b)'
      BY <2>2, <2>3, <2>4, <2>7, <3>2, <3>3
    <3> HIDE DEF Good
    <3> QED BY <1>6, <3>3, <3>4
  <2>8. \/ Login!Live(t) /\ visit' = [visit EXCEPT ![b].phase = "passed"]
        \/ ~Login!Live(t) /\ visit' = [visit EXCEPT ![b].phase = "refused"]
    BY <1>8, <2>1 DEF Login!Authed
  <2> HIDE DEF Good
  <2>9. visit[b].late => Login!Over(t)
    BY <2>2
  <2> QED BY <2>5, <2>6, <2>7, <2>8, <2>9
<1>9. ASSUME NEW b \in Browsers, Login!Logout(b) \/ Login!Answered(b) PROVE VisitInv'
  BY <1>4, <1>9 DEF Login!Logout, Login!Answered
<1>10. CASE Login!Restart
  BY <1>10 DEF Login!Restart, VisitInv
<1> HIDE DEF Good
<1> QED BY <1>5, <1>7, <1>8, <1>9, <1>10 DEF Login!Next, Login!vars, Login!Login, Login!TimePasses

LEMMA LoginInit == Init => SessionInv /\ VisitInv
BY DEF Init, Login!Init, SessionInv, VisitInv, Login!Absent

\* For any number of sessions and of requests that overlap with logins, logouts,
\* expiries and restarts: no handler serves a request that came after the end of
\* its session, and none is refused while its session goes on.
THEOREM NoSessionOutlivesItsEnd == Spec => []EndedSessionsStayEnded
<1>1. Init => SessionInv /\ VisitInv
  BY LoginInit
<1>2. SessionInv /\ VisitInv /\ [Next]_vars => (SessionInv /\ VisitInv)'
  BY FollowsPages, SessionStep, VisitStep
<1>3. VisitInv => EndedSessionsStayEnded
  <2> SUFFICES ASSUME VisitInv, NEW b \in Browsers
               PROVE  /\ visit[b].phase = "passed" => ~visit[b].late
                      /\ visit[b].phase = "refused" => Login!Over(visit[b].token)
    BY DEF EndedSessionsStayEnded, Login!EndedSessionsStayEnded
  <2> QED BY ClosedIsNoVisit DEF VisitInv
<1> QED BY <1>1, <1>2, <1>3, PTL DEF Spec

-----------------------------------------------------------------------------
(* Retry and cancel.                                                        *)

\* Rows that the worker holds are "sending", so no guarded UPDATE hits them and
\* no verdict hits a canceled row; a retry writes no recipient but its form's.
MailInv ==
  /\ email \in [Emails -> EmailPage!Row]
  /\ req \in [Admins -> EmailPage!Request]
  /\ held \subseteq Emails /\ wanted \subseteq Emails
  /\ \A e \in held : email[e].status = "sending"
  /\ \A e \in wanted : email[e].status = "canceled"
  /\ \A a \in Admins : req[a].newTo \in {NoAddr, req[a].to}

\* What each statement makes of a row.
LEMMA RowEffects ==
  ASSUME NEW r \in EmailPage!Row
  PROVE  /\ EmailPage!Claimed(r) \in EmailPage!Row /\ EmailPage!Claimed(r).status = "sending"
         /\ EmailPage!Claimed(r).to = r.to
         /\ EmailPage!Canceled(r) \in EmailPage!Row /\ EmailPage!Canceled(r).status = "canceled"
         /\ EmailPage!Canceled(r).to = r.to
         /\ \A q \in EmailPage!Verdicts(r) : q \in EmailPage!Row /\ q.to = r.to
         /\ \A to \in Addrs \cup {NoAddr} :
              /\ EmailPage!Requeued(r, to) \in EmailPage!Row
              /\ EmailPage!Requeued(r, to).status = "queued"
              /\ EmailPage!Requeued(r, to).to = (IF to = NoAddr THEN r.to ELSE to)
<1>1. \A q \in EmailPage!Row, st \in EmailPage!Status : [q EXCEPT !.status = st] \in EmailPage!Row
  BY DEF EmailPage!Row
<1>2. \A q \in EmailPage!Row, n \in Nat : [q EXCEPT !.attempts = n] \in EmailPage!Row
  BY DEF EmailPage!Row
<1>3. \A q \in EmailPage!Row : [q EXCEPT !.due = 0] \in EmailPage!Row
  BY DEF EmailPage!Row
<1>4. \A q \in EmailPage!Row, to \in Addrs \cup {NoAddr} :
        [q EXCEPT !.to = to] \in EmailPage!Row /\ [q EXCEPT !.originalTo = to] \in EmailPage!Row
  BY DEF EmailPage!Row
<1>5. /\ r.attempts + 1 \in Nat
      /\ r.to \in Addrs \cup {NoAddr} /\ r.originalTo \in Addrs \cup {NoAddr}
  BY DEF EmailPage!Row
<1>6. \A st \in {"sending", "sent", "failed", "queued", "canceled"} :
        [r EXCEPT !.status = st] \in EmailPage!Row
  BY <1>1 DEF EmailPage!Status
<1>7. /\ EmailPage!Claimed(r) \in EmailPage!Row /\ EmailPage!Canceled(r) \in EmailPage!Row
      /\ EmailPage!Sent(r) \in EmailPage!Row /\ EmailPage!Failed(r) \in EmailPage!Row
  <2>1. EmailPage!Claimed(r) \in EmailPage!Row
    BY <1>3, <1>6 DEF EmailPage!Claimed
  <2>2. EmailPage!Canceled(r) \in EmailPage!Row
    BY <1>6 DEF EmailPage!Canceled
  <2>3. EmailPage!Sent(r) \in EmailPage!Row
    BY <1>2, <1>5, <1>6 DEF EmailPage!Sent
  <2>4. EmailPage!Failed(r) \in EmailPage!Row
    BY <1>2, <1>5, <1>6 DEF EmailPage!Failed
  <2> QED BY <2>1, <2>2, <2>3, <2>4
<1>8. EmailPage!Retried(r, 0) \in EmailPage!Row
  <2>1. [r EXCEPT !.status = "queued", !.attempts = @ + 1] \in EmailPage!Row
    BY <1>2, <1>5, <1>6
  <2> QED BY <1>3, <2>1 DEF EmailPage!Retried
<1>9. /\ EmailPage!Claimed(r).status = "sending" /\ EmailPage!Claimed(r).to = r.to
      /\ EmailPage!Canceled(r).status = "canceled" /\ EmailPage!Canceled(r).to = r.to
      /\ EmailPage!Sent(r).to = r.to /\ EmailPage!Failed(r).to = r.to
      /\ EmailPage!Retried(r, 0).to = r.to
  BY DEF EmailPage!Row, EmailPage!Claimed, EmailPage!Canceled, EmailPage!Sent,
         EmailPage!Failed, EmailPage!Retried
<1>10. \A q \in EmailPage!Verdicts(r) : q \in EmailPage!Row /\ q.to = r.to
  BY <1>7, <1>8, <1>9 DEF EmailPage!Verdicts
<1>11. ASSUME NEW newTo \in Addrs \cup {NoAddr}
       PROVE  /\ EmailPage!Requeued(r, newTo) \in EmailPage!Row
              /\ EmailPage!Requeued(r, newTo).status = "queued"
              /\ EmailPage!Requeued(r, newTo).to = (IF newTo = NoAddr THEN r.to ELSE newTo)
  <2> DEFINE to == IF newTo = NoAddr THEN r.to ELSE newTo
             from == IF r.originalTo = NoAddr /\ newTo \notin {NoAddr, r.to}
                     THEN r.to ELSE r.originalTo
             row == [r EXCEPT !.status = "queued", !.attempts = 0, !.due = 0, !.to = to,
                              !.originalTo = from]
  <2>1. [r EXCEPT !.status = "queued", !.attempts = 0] \in EmailPage!Row
    BY <1>2, <1>6
  <2>2. [r EXCEPT !.status = "queued", !.attempts = 0, !.due = 0] \in EmailPage!Row
    BY <1>3, <2>1
  <2>3. to \in Addrs \cup {NoAddr} /\ from \in Addrs \cup {NoAddr}
    BY <1>5
  <2>4. row = EmailPage!Requeued(r, newTo)
    BY DEF EmailPage!Requeued
  <2> HIDE DEF to, from
  <2>5. [r EXCEPT !.status = "queued", !.attempts = 0, !.due = 0, !.to = to] \in EmailPage!Row
    BY <1>4, <2>2, <2>3
  <2>6. row \in EmailPage!Row
    BY <1>4, <2>3, <2>5
  <2>7. row.status = "queued" /\ row.to = to
    BY DEF EmailPage!Row
  <2> HIDE DEF row
  <2> QED BY <2>4, <2>6, <2>7 DEF to
<1> QED BY <1>7, <1>9, <1>10, <1>11

\* An answer ends a request and leaves the rest of it.
LEMMA AnswerKeeps ==
  ASSUME MailInv, NEW a \in Admins, NEW code \in {303, 404, 409, 422, 500},
         EmailPage!Answer(a, code)
  PROVE  /\ req' \in [Admins -> EmailPage!Request]
         /\ \A b \in Admins : /\ req'[b].newTo = req[b].newTo /\ req'[b].to = req[b].to
                              /\ b # a => req'[b] = req[b]
                              /\ req'[b].newTo \in {NoAddr, req'[b].to}
<1>1. req \in [Admins -> EmailPage!Request]
  BY DEF MailInv
<1>2. PICK q : q = [req[a] EXCEPT !.phase = "done"]
  OBVIOUS
<1>3. q \in EmailPage!Request /\ q.to = req[a].to /\ q.newTo = req[a].newTo
  BY <1>1, <1>2 DEF EmailPage!Request
<1>4. PICK o : o = [q EXCEPT !.code = code]
  OBVIOUS
<1>5. PICK p : p = [o EXCEPT !.seen = EmailPage!NoRow]
  OBVIOUS
<1>6. p \in EmailPage!Request /\ p.to = q.to /\ p.newTo = q.newTo
  <2>1. EmailPage!NoRow \in EmailPage!Row
    BY DEF EmailPage!NoRow, EmailPage!Row, EmailPage!Status
  <2>2. o \in EmailPage!Request /\ o.to = q.to /\ o.newTo = q.newTo
    BY <1>3, <1>4 DEF EmailPage!Request
  <2> HIDE DEF EmailPage!NoRow
  <2>3. p \in EmailPage!Request
    BY <1>5, <2>1, <2>2 DEF EmailPage!Request
  <2>4. p.to = o.to /\ p.newTo = o.newTo
    BY <1>5, <2>2 DEF EmailPage!Request
  <2> QED BY <2>2, <2>3, <2>4
<1>7. PICK R : R = [req EXCEPT ![a] = q]
  OBVIOUS
<1>8. /\ R \in [Admins -> EmailPage!Request] /\ R[a] = q
      /\ \A b \in Admins : b # a => R[b] = req[b]
      /\ req' = [R EXCEPT ![a] = p]
  <2>1. R = [req EXCEPT ![a].phase = "done"]
    BY <1>2, <1>7
  <2>2. PICK Q : Q = [R EXCEPT ![a] = o]
    OBVIOUS
  <2>3. /\ R \in [Admins -> EmailPage!Request] /\ R[a] = q
        /\ \A b \in Admins : b # a => R[b] = req[b]
    BY <1>1, <1>3, <1>7
  <2>4. Q = [R EXCEPT ![a].code = code] /\ Q[a] = o
    BY <1>4, <2>2, <2>3
  <2>5. req' = [Q EXCEPT ![a].seen = EmailPage!NoRow]
    BY <2>1, <2>4 DEF EmailPage!Answer
  <2>6. req' = [Q EXCEPT ![a] = p]
    BY <1>5, <2>4, <2>5
  <2> QED BY <2>2, <2>3, <2>6
<1>9. /\ req' \in [Admins -> EmailPage!Request]
      /\ \A b \in Admins : /\ req'[b].newTo = req[b].newTo /\ req'[b].to = req[b].to
                           /\ b # a => req'[b] = req[b]
  BY <1>3, <1>6, <1>8
<1>10. \A b \in Admins : req'[b].newTo \in {NoAddr, req'[b].to}
  BY <1>9 DEF MailInv
<1> QED BY <1>9, <1>10

\* The steps that only answer, or only open a request.
LEMMA RequestsMove ==
  ASSUME MailInv, UNCHANGED <<email, held, wanted>>,
         req' \in [Admins -> EmailPage!Request],
         \A a \in Admins : req'[a].newTo \in {NoAddr, req'[a].to}
  PROVE  MailInv'
BY DEF MailInv

\* A guarded UPDATE of a row the worker does not hold.
LEMMA RowUpdated ==
  ASSUME MailInv, NEW a \in Admins, NEW e \in Emails, NEW row \in EmailPage!Row,
         email' = [email EXCEPT ![e] = row], e \notin held, UNCHANGED held,
         EmailPage!Answer(a, 303),
         \/ row.status = "canceled" /\ wanted' = wanted \cup {e}
         \/ wanted' = wanted \ {e}
  PROVE  MailInv'
<1>1. /\ req' \in [Admins -> EmailPage!Request]
      /\ \A b \in Admins : req'[b].newTo \in {NoAddr, req'[b].to}
  BY AnswerKeeps
<1>2. email' \in [Emails -> EmailPage!Row] /\ wanted' \subseteq Emails
  BY DEF MailInv
<1>3. /\ \A f \in held' : email'[f].status = "sending"
      /\ \A f \in wanted' : email'[f].status = "canceled"
  BY DEF MailInv
<1> QED BY <1>1, <1>2, <1>3 DEF MailInv

LEMMA RequestFields ==
  ASSUME MailInv, NEW a \in Admins
  PROVE  /\ req[a].e \in Emails /\ req[a].to \in Addrs \cup {NoAddr}
         /\ req[a].newTo \in Addrs \cup {NoAddr} /\ req[a].newTo \in {NoAddr, req[a].to}
         /\ email[req[a].e] \in EmailPage!Row
BY DEF MailInv, EmailPage!Request

LEMMA OpenKeeps ==
  ASSUME MailInv, NEW a \in Admins, NEW e \in Emails, NEW op \in {"retry", "cancel"},
         NEW to \in Addrs \cup {NoAddr}, EmailPage!Open(a, op, e, to)
  PROVE  MailInv'
<1>1. PICK q : q = [EmailPage!NoRequest(e) EXCEPT !.op = op, !.phase = "read", !.to = to]
  OBVIOUS
<1>2. q = [op |-> op, e |-> e, phase |-> "read", to |-> to, seen |-> EmailPage!NoRow,
           newTo |-> NoAddr, code |-> 0]
  BY <1>1 DEF EmailPage!NoRequest
<1>3. EmailPage!NoRow \in EmailPage!Row
  BY DEF EmailPage!NoRow, EmailPage!Row, EmailPage!Status
<1>4. q \in EmailPage!Request /\ q.newTo = NoAddr
  BY <1>2, <1>3 DEF EmailPage!Request
<1>5. req' = [req EXCEPT ![a] = q] /\ UNCHANGED <<email, held, wanted>>
  BY <1>1 DEF EmailPage!Open
<1> QED BY <1>4, <1>5, RequestsMove DEF MailInv

LEMMA ReadKeeps ==
  ASSUME MailInv, NEW a \in Admins, EmailPage!ReadsRow(a)
  PROVE  MailInv'
<1> DEFINE row == email[req[a].e]
           newTo == IF req[a].to = row.to THEN NoAddr ELSE req[a].to
<1>1. UNCHANGED <<email, held, wanted>>
  BY DEF EmailPage!ReadsRow
<1>2. \/ EmailPage!Answer(a, 404) \/ EmailPage!Answer(a, 409)
      \/ req' = [req EXCEPT ![a].phase = "write", ![a].seen = row, ![a].newTo = newTo]
  BY DEF EmailPage!ReadsRow
<1>3. CASE EmailPage!Answer(a, 404) \/ EmailPage!Answer(a, 409)
  <2>1. /\ req' \in [Admins -> EmailPage!Request]
        /\ \A b \in Admins : req'[b].newTo \in {NoAddr, req'[b].to}
    BY <1>3, AnswerKeeps
  <2> QED BY <1>1, <2>1, RequestsMove
<1>4. CASE req' = [req EXCEPT ![a].phase = "write", ![a].seen = row, ![a].newTo = newTo]
  <2>1. PICK v, n : v = row /\ n = newTo
    OBVIOUS
  <2>2. v \in EmailPage!Row /\ n \in Addrs \cup {NoAddr} /\ n \in {NoAddr, req[a].to}
    BY <2>1, RequestFields
  <2>3. req' = [req EXCEPT ![a].phase = "write", ![a].seen = v, ![a].newTo = n]
    BY <1>4, <2>1
  <2> HIDE DEF row, newTo
  <2>4. req[a] \in EmailPage!Request
    BY DEF MailInv
  <2>5. PICK q1 : q1 = [req[a] EXCEPT !.phase = "write"]
    OBVIOUS
  <2>6. q1 \in EmailPage!Request /\ q1.to = req[a].to
    BY <2>4, <2>5 DEF EmailPage!Request
  <2>7. PICK q2 : q2 = [q1 EXCEPT !.seen = v]
    OBVIOUS
  <2>8. q2 \in EmailPage!Request /\ q2.to = req[a].to
    BY <2>2, <2>6, <2>7 DEF EmailPage!Request
  <2>9. PICK q3 : q3 = [q2 EXCEPT !.newTo = n]
    OBVIOUS
  <2>10. q3 \in EmailPage!Request /\ q3.to = req[a].to /\ q3.newTo = n
    BY <2>2, <2>8, <2>9 DEF EmailPage!Request
  <2>11. req' = [req EXCEPT ![a] = q3]
    <3>1. PICK R1 : R1 = [req EXCEPT ![a].phase = "write"]
      OBVIOUS
    <3>2. PICK R2 : R2 = [R1 EXCEPT ![a].seen = v]
      OBVIOUS
    <3>3. req' = [R2 EXCEPT ![a].newTo = n]
      BY <2>3, <3>1, <3>2
    <3>4. R1 = [req EXCEPT ![a] = q1]
      BY <2>5, <3>1
    <3>5. R2 = [req EXCEPT ![a] = q2]
      BY <2>7, <3>2, <3>4 DEF MailInv
    <3> QED BY <2>9, <3>3, <3>5 DEF MailInv
  <2> QED BY <1>1, <2>2, <2>10, <2>11, RequestsMove DEF MailInv
<1> QED BY <1>2, <1>3, <1>4

LEMMA MailStep == MailInv /\ [EmailPage!Next]_(EmailPage!vars) => MailInv'
<1> SUFFICES ASSUME MailInv, [EmailPage!Next]_(EmailPage!vars) PROVE MailInv'
  OBVIOUS
<1>1. ASSUME NEW a \in Admins, NEW e \in Emails, NEW op \in {"retry", "cancel"},
             NEW to \in Addrs \cup {NoAddr}, EmailPage!Open(a, op, e, to)
      PROVE  MailInv'
  BY <1>1, OpenKeeps
<1>2. ASSUME NEW a \in Admins, EmailPage!ReadsRow(a) PROVE MailInv'
  BY <1>2, ReadKeeps
<1>3. ASSUME NEW a \in Admins, EmailPage!Answer(a, 409), UNCHANGED <<email, held, wanted>>
      PROVE  MailInv'
  <2>1. /\ req' \in [Admins -> EmailPage!Request]
        /\ \A b \in Admins : req'[b].newTo \in {NoAddr, req'[b].to}
    BY <1>3, AnswerKeeps
  <2> QED BY <1>3, <2>1, RequestsMove
<1>4. ASSUME NEW a \in Admins, EmailPage!Retry(a) PROVE MailInv'
  <2>1. CASE EmailPage!Requeueable(email[req[a].e])
    <3>1. req[a].e \notin held
      BY <2>1 DEF MailInv, EmailPage!Requeueable
    <3>2. /\ email' = [email EXCEPT ![req[a].e] = EmailPage!Requeued(email[req[a].e], req[a].newTo)]
          /\ wanted' = wanted \ {req[a].e} /\ held' = held /\ EmailPage!Answer(a, 303)
      BY <1>4, <2>1 DEF EmailPage!Retry
    <3>3. EmailPage!Requeued(email[req[a].e], req[a].newTo) \in EmailPage!Row
      BY RequestFields, RowEffects
    <3> QED BY <3>1, <3>2, <3>3, RequestFields, RowUpdated
  <2>2. CASE ~EmailPage!Requeueable(email[req[a].e])
    BY <1>3, <1>4, <2>2 DEF EmailPage!Retry
  <2> QED BY <2>1, <2>2
<1>5. ASSUME NEW a \in Admins, EmailPage!Cancel(a) PROVE MailInv'
  <2>1. CASE EmailPage!Cancelable(email[req[a].e])
    <3>1. req[a].e \notin held
      BY <2>1 DEF MailInv, EmailPage!Cancelable
    <3>2. /\ email' = [email EXCEPT ![req[a].e] = EmailPage!Canceled(email[req[a].e])]
          /\ wanted' = wanted \cup {req[a].e} /\ held' = held /\ EmailPage!Answer(a, 303)
      BY <1>5, <2>1 DEF EmailPage!Cancel
    <3>3. /\ EmailPage!Canceled(email[req[a].e]) \in EmailPage!Row
          /\ EmailPage!Canceled(email[req[a].e]).status = "canceled"
      BY RequestFields, RowEffects
    <3> QED BY <3>1, <3>2, <3>3, RequestFields, RowUpdated
  <2>2. CASE ~EmailPage!Cancelable(email[req[a].e])
    BY <1>3, <1>5, <2>2 DEF EmailPage!Cancel
  <2> QED BY <2>1, <2>2
<1>6. ASSUME NEW e \in Emails, EmailPage!WorkerClaims(e) PROVE MailInv'
  <2>1. /\ email' = [email EXCEPT ![e] = EmailPage!Claimed(email[e])] /\ email[e].status = "queued"
        /\ held' = held \cup {e} /\ UNCHANGED <<req, wanted>>
    BY <1>6 DEF EmailPage!WorkerClaims, EmailPage!IsDue
  <2>2. /\ EmailPage!Claimed(email[e]) \in EmailPage!Row
        /\ EmailPage!Claimed(email[e]).status = "sending" /\ e \notin wanted
    BY <2>1, RowEffects DEF MailInv
  <2> QED BY <2>1, <2>2 DEF MailInv
<1>7. ASSUME NEW e \in Emails, EmailPage!WorkerSettles(e) PROVE MailInv'
  <2>1. PICK row \in EmailPage!Verdicts(email[e]) : email' = [email EXCEPT ![e] = row]
    BY <1>7 DEF EmailPage!WorkerSettles
  <2>2. e \in held /\ held' = held \ {e} /\ UNCHANGED <<req, wanted>>
    BY <1>7 DEF EmailPage!WorkerSettles
  <2>3. row \in EmailPage!Row /\ e \notin wanted
    BY <2>1, <2>2, RowEffects DEF MailInv
  <2> QED BY <2>1, <2>2, <2>3 DEF MailInv
<1>8. ASSUME NEW a \in Admins, EmailPage!EndsEarly(a) PROVE MailInv'
  <2>1. PICK code \in {303, 404, 409, 422, 500} : EmailPage!Answer(a, code)
    BY <1>8 DEF EmailPage!EndsEarly
  <2>2. UNCHANGED <<email, held, wanted>>
    BY <1>8 DEF EmailPage!EndsEarly
  <2> QED BY <2>1, <2>2, AnswerKeeps, RequestsMove
<1>9. CASE UNCHANGED EmailPage!vars
  BY <1>9 DEF EmailPage!vars, MailInv
<1> QED BY <1>1, <1>2, <1>4, <1>5, <1>6, <1>7, <1>8, <1>9 DEF EmailPage!Next

LEMMA MailInit == Init => MailInv
<1> SUFFICES ASSUME Init PROVE MailInv
  OBVIOUS
<1>1. \A a \in Addrs : EmailPage!Enqueued(a) \in EmailPage!Row
  BY DEF EmailPage!Enqueued, EmailPage!Row, EmailPage!Status
<1>2. EmailPage!NoRow \in EmailPage!Row
  BY DEF EmailPage!NoRow, EmailPage!Row, EmailPage!Status
<1>3. \A e \in Emails : EmailPage!NoRequest(e) \in EmailPage!Request
                       /\ EmailPage!NoRequest(e).newTo = NoAddr
  BY <1>2 DEF EmailPage!NoRequest, EmailPage!Request
<1>4. email \in [Emails -> EmailPage!Row]
  BY <1>1, <1>2 DEF Init, EmailPage!Init
<1>5. /\ req \in [Admins -> EmailPage!Request]
      /\ \A a \in Admins : req[a].newTo = NoAddr
  <2>1. req \in [Admins -> {EmailPage!NoRequest(e) : e \in Emails}]
    BY DEF Init, EmailPage!Init
  <2> QED BY <1>3, <2>1
<1> QED BY <1>4, <1>5 DEF MailInv, Init, EmailPage!Init

\* Only an answered retry changes a recipient, and to the one it asked for.
LEMMA RecipientsKept ==
  ASSUME MailInv, [EmailPage!Next]_(EmailPage!vars),
         NEW a \in Admins, NEW e \in Emails, req[a].phase = "write", req'[a].phase = "done",
         email'[e].to # email[e].to
  PROVE  req[a].e = e /\ email'[e].to = req[a].to
<1>1. ASSUME NEW b \in Admins, EmailPage!Retry(b) PROVE req[a].e = e /\ email'[e].to = req[a].to
  <2>1. /\ email' = [email EXCEPT ![req[b].e] = EmailPage!Requeued(email[req[b].e], req[b].newTo)]
        /\ EmailPage!Answer(b, 303)
    BY <1>1 DEF EmailPage!Retry, MailInv
  <2>2. b = a
    BY <2>1, AnswerKeeps
  <2>3. e = req[a].e
    BY <2>1, <2>2 DEF MailInv
  <2>4. /\ email'[e].to = (IF req[a].newTo = NoAddr THEN email[e].to ELSE req[a].newTo)
    BY <2>1, <2>2, <2>3, RequestFields, RowEffects DEF MailInv
  <2> QED BY <2>3, <2>4, RequestFields
<1>2. ASSUME NEW b \in Admins, EmailPage!Cancel(b) PROVE FALSE
  <2>1. \/ email' = [email EXCEPT ![req[b].e] = EmailPage!Canceled(email[req[b].e])]
        \/ email' = email
    BY <1>2 DEF EmailPage!Cancel
  <2>2. EmailPage!Canceled(email[req[b].e]).to = email[req[b].e].to
    BY RequestFields, RowEffects
  <2> QED BY <2>1, <2>2 DEF MailInv
<1>3. ASSUME NEW f \in Emails, EmailPage!WorkerClaims(f) \/ EmailPage!WorkerSettles(f) PROVE FALSE
  BY <1>3 DEF EmailPage!WorkerClaims, EmailPage!WorkerSettles
<1>4. ASSUME UNCHANGED email PROVE FALSE
  BY <1>4
<1> QED BY <1>1, <1>2, <1>3, <1>4
        DEF EmailPage!Next, EmailPage!vars, EmailPage!Open, EmailPage!ReadsRow,
            EmailPage!EndsEarly

\* For any number of operators and emails, and however requests and the worker
\* overlap: what an answered cancel stopped stays stopped until a retry.
THEOREM CancelsHold == Spec => []CancelHolds
<1>1. Init => MailInv
  BY MailInit
<1>2. MailInv /\ [Next]_vars => MailInv'
  BY FollowsPages, MailStep
<1>3. MailInv => CancelHolds
  BY DEF MailInv, CancelHolds, EmailPage!CancelHolds
<1> QED BY <1>1, <1>2, <1>3, PTL DEF Spec

\* And no retry undoes a re-addressing that it never saw.
THEOREM RetriesKeepTheRecipient == Spec => RetryKeepsRecipient
<1>1. Init => MailInv
  BY MailInit
<1>2. MailInv /\ [Next]_vars => MailInv'
  BY FollowsPages, MailStep
<1>3. MailInv /\ [Next]_vars =>
        [\A a \in Admins, e \in Emails :
           req[a].phase = "write" /\ req'[a].phase = "done" /\ email'[e].to # email[e].to
           => req[a].e = e /\ email'[e].to = req[a].to]_(EmailPage!vars)
  BY FollowsPages, RecipientsKept
<1> QED BY <1>1, <1>2, <1>3, PTL DEF Spec, RetryKeepsRecipient, EmailPage!RetryKeepsRecipient

-----------------------------------------------------------------------------
(* Verification of domains.                                                 *)

\* What a running check has found was there at some moment of it, and it misses
\* nothing that was there all the time, unless a lookup failed.
Evidence(c) ==
  check[c].on =>
    /\ throughout[c] \subseteq dns[check[c].domain]
    /\ dns[check[c].domain] \subseteq seen[c]
    /\ check[c].ok \subseteq seen[c]
    /\ ~check[c].indeterminate => check[c].asked \cap throughout[c] \subseteq check[c].ok

CheckTypes ==
  /\ dns \in [Domains -> SUBSET DomainPage!Record]
  /\ flags \in [Domains -> SUBSET DomainPage!Record]
  /\ check \in [DomainPage!Checkers -> DomainPage!CheckState]
  /\ throughout \in [DomainPage!Checkers -> SUBSET DomainPage!Record]
  /\ seen \in [DomainPage!Checkers -> SUBSET DomainPage!Record]

CheckInv == CheckTypes /\ \A c \in DomainPage!Checkers : Evidence(c)

\* The steps of one checker leave the others their evidence.
LEMMA OneChecker ==
  ASSUME CheckInv, NEW c \in DomainPage!Checkers, NEW q \in DomainPage!CheckState,
         NEW h \in SUBSET DomainPage!Record, NEW s \in SUBSET DomainPage!Record,
         check' = [check EXCEPT ![c] = q],
         throughout' = [throughout EXCEPT ![c] = h], seen' = [seen EXCEPT ![c] = s],
         UNCHANGED dns, flags' \in [Domains -> SUBSET DomainPage!Record],
         q.on => /\ h \subseteq dns[q.domain] /\ dns[q.domain] \subseteq s /\ q.ok \subseteq s
                 /\ ~q.indeterminate => q.asked \cap h \subseteq q.ok
  PROVE  CheckInv'
<1>1. CheckTypes'
  BY DEF CheckInv, CheckTypes
<1>2. /\ check'[c] = q /\ throughout'[c] = h /\ seen'[c] = s
      /\ \A b \in DomainPage!Checkers :
           b # c => check'[b] = check[b] /\ throughout'[b] = throughout[b] /\ seen'[b] = seen[b]
  BY DEF CheckInv, CheckTypes
<1>3. ASSUME NEW b \in DomainPage!Checkers PROVE Evidence(b)'
  <2>1. CASE b = c
    BY <1>2, <2>1 DEF Evidence
  <2>2. CASE b # c
    <3>1. check'[b] = check[b] /\ throughout'[b] = throughout[b] /\ seen'[b] = seen[b]
      BY <1>2, <2>2
    <3>2. Evidence(b)
      BY DEF CheckInv
    <3> QED BY <3>1, <3>2 DEF Evidence
  <2> QED BY <2>1, <2>2
<1>4. DomainPage!Checkers' = DomainPage!Checkers
  BY DEF DomainPage!Checkers, DomainPage!Loop
<1> QED BY <1>1, <1>3, <1>4 DEF CheckInv

LEMMA StartsKeeps ==
  ASSUME CheckInv, NEW c \in DomainPage!Checkers, NEW d \in Domains, DomainPage!Starts(c, d),
         UNCHANGED <<dns, flags>>
  PROVE  CheckInv'
<1>1. /\ throughout' = [throughout EXCEPT ![c] = dns[d]]
      /\ seen' = [seen EXCEPT ![c] = dns[d]]
      /\ dns[d] \in SUBSET DomainPage!Record /\ flags' \in [Domains -> SUBSET DomainPage!Record]
  BY DEF DomainPage!Starts, CheckInv, CheckTypes
<1>2. \/ check' = [check EXCEPT ![c] = [DomainPage!Idle(d) EXCEPT !.on = TRUE]]
      \/ check' = [check EXCEPT ![c] = [DomainPage!Idle(d) EXCEPT !.on = TRUE,
                                          !.asked = DomainPage!Record, !.indeterminate = TRUE]]
  BY DEF DomainPage!Starts
<1>3. PICK p : p = [DomainPage!Idle(d) EXCEPT !.on = TRUE]
  OBVIOUS
<1>4. p \in DomainPage!CheckState /\ p.asked = {} /\ p.ok = {}
  BY <1>3 DEF DomainPage!Idle, DomainPage!CheckState
<1>5. PICK q : q = [p EXCEPT !.asked = DomainPage!Record]
  OBVIOUS
<1>6. q \in DomainPage!CheckState /\ q.ok = {} /\ q.domain = p.domain
  BY <1>4, <1>5 DEF DomainPage!CheckState
<1>7. PICK i : i = [q EXCEPT !.indeterminate = TRUE]
  OBVIOUS
<1>8. i \in DomainPage!CheckState /\ i.ok = {} /\ i.indeterminate /\ i.domain = p.domain
  BY <1>6, <1>7 DEF DomainPage!CheckState
<1>9. p.domain = d
  BY <1>3 DEF DomainPage!Idle
<1>10. \/ check' = [check EXCEPT ![c] = p]
       \/ check' = [check EXCEPT ![c] = i]
  BY <1>2, <1>3, <1>5, <1>7
<1>11. CASE check' = [check EXCEPT ![c] = p]
  BY <1>1, <1>4, <1>9, <1>11, OneChecker
<1>12. CASE check' = [check EXCEPT ![c] = i]
  BY <1>1, <1>8, <1>9, <1>12, OneChecker
<1> QED BY <1>10, <1>11, <1>12

LEMMA CheckingKeeps ==
  ASSUME CheckInv, NEW c \in DomainPage!Checkers, DomainPage!Checking(c)
  PROVE  CheckInv'
<1>0. /\ check[c] \in DomainPage!CheckState /\ Evidence(c)
      /\ throughout[c] \in SUBSET DomainPage!Record /\ seen[c] \in SUBSET DomainPage!Record
      /\ dns[check[c].domain] \in SUBSET DomainPage!Record
  BY DEF CheckInv, CheckTypes, DomainPage!CheckState
<1>1. CASE DomainPage!Asks(c)
  <2>1. PICK r : r = DomainPage!NextRecord(check[c].asked)
    OBVIOUS
  <2>2. r \in DomainPage!Record
    BY <2>1 DEF DomainPage!NextRecord, DomainPage!Record
  <2>3. /\ check[c].on /\ UNCHANGED <<dns, flags, throughout, seen>>
        /\ \/ check' = [check EXCEPT ![c].asked = @ \cup {r},
                                     ![c].ok = @ \cup ({r} \cap dns[check[c].domain])]
           \/ check' = [check EXCEPT ![c].asked = @ \cup {r}, ![c].indeterminate = TRUE]
    BY <1>1, <2>1 DEF DomainPage!Asks
  <2>4. PICK p : p = [check[c] EXCEPT !.asked = @ \cup {r}]
    OBVIOUS
  <2>5. /\ p \in DomainPage!CheckState /\ p.on /\ p.domain = check[c].domain
        /\ p.asked = check[c].asked \cup {r} /\ p.ok = check[c].ok
        /\ p.indeterminate = check[c].indeterminate
    BY <1>0, <2>2, <2>3, <2>4 DEF DomainPage!CheckState
  <2>6. PICK R : R = [check EXCEPT ![c].asked = @ \cup {r}]
    OBVIOUS
  <2>7. R = [check EXCEPT ![c] = p] /\ R[c] = p /\ check \in [DomainPage!Checkers -> DomainPage!CheckState]
    BY <2>4, <2>6 DEF CheckInv, CheckTypes
  <2>8. \/ check' = [R EXCEPT ![c].ok = @ \cup ({r} \cap dns[check[c].domain])]
        \/ check' = [R EXCEPT ![c].indeterminate = TRUE]
    BY <2>3, <2>6
  <2>9. /\ throughout' = [throughout EXCEPT ![c] = throughout[c]]
        /\ seen' = [seen EXCEPT ![c] = seen[c]]
    BY <2>3 DEF CheckInv, CheckTypes
  <2>10. flags' \in [Domains -> SUBSET DomainPage!Record]
    BY <2>3 DEF CheckInv, CheckTypes
  <2>11. CASE check' = [R EXCEPT ![c].ok = @ \cup ({r} \cap dns[check[c].domain])]
    <3>1. PICK q : q = [p EXCEPT !.ok = @ \cup ({r} \cap dns[check[c].domain])]
      OBVIOUS
    <3>2. /\ q \in DomainPage!CheckState /\ q.on /\ q.domain = p.domain
          /\ q.asked = p.asked /\ q.indeterminate = p.indeterminate
          /\ q.ok = p.ok \cup ({r} \cap dns[check[c].domain])
      BY <2>2, <2>5, <3>1 DEF DomainPage!CheckState
    <3>3. check' = [check EXCEPT ![c] = q]
      BY <2>7, <2>11, <3>1
    <3>4. /\ throughout[c] \subseteq dns[q.domain] /\ dns[q.domain] \subseteq seen[c]
          /\ q.ok \subseteq seen[c]
          /\ ~q.indeterminate => q.asked \cap throughout[c] \subseteq q.ok
      BY <1>0, <2>3, <2>5, <3>2 DEF Evidence
    <3> QED BY <1>0, <2>3, <2>9, <2>10, <3>2, <3>3, <3>4, OneChecker
  <2>12. CASE check' = [R EXCEPT ![c].indeterminate = TRUE]
    <3>1. PICK q : q = [p EXCEPT !.indeterminate = TRUE]
      OBVIOUS
    <3>2. /\ q \in DomainPage!CheckState /\ q.on /\ q.domain = p.domain
          /\ q.indeterminate /\ q.ok = p.ok
      BY <2>5, <3>1 DEF DomainPage!CheckState
    <3>3. check' = [check EXCEPT ![c] = q]
      BY <2>7, <2>12, <3>1
    <3>4. /\ throughout[c] \subseteq dns[q.domain] /\ dns[q.domain] \subseteq seen[c]
          /\ q.ok \subseteq seen[c]
      BY <1>0, <2>3, <2>5, <3>2 DEF Evidence
    <3> QED BY <1>0, <2>3, <2>9, <2>10, <3>2, <3>3, <3>4, OneChecker
  <2> QED BY <2>8, <2>11, <2>12
<1>2. CASE DomainPage!Stores(c)
  <2>1. /\ check' = [check EXCEPT ![c] = DomainPage!Idle(check[c].domain)]
        /\ throughout' = [throughout EXCEPT ![c] = {}] /\ seen' = [seen EXCEPT ![c] = {}]
        /\ UNCHANGED dns /\ (flags' = DomainPage!Stored(c) \/ flags' = flags)
    BY <1>2 DEF DomainPage!Stores
  <2>2. /\ DomainPage!Idle(check[c].domain) \in DomainPage!CheckState
        /\ ~DomainPage!Idle(check[c].domain).on
    BY <1>0 DEF DomainPage!Idle, DomainPage!CheckState
  <2>3. check[c].ok \in SUBSET DomainPage!Record
    BY <1>0 DEF DomainPage!CheckState
  <2>4. flags' \in [Domains -> SUBSET DomainPage!Record]
    BY <2>1, <2>3 DEF DomainPage!Stored, CheckInv, CheckTypes
  <2> QED BY <2>1, <2>2, <2>4, OneChecker
<1> QED BY <1>1, <1>2 DEF DomainPage!Checking

LEMMA RecordChangesKeeps ==
  ASSUME CheckInv, NEW d \in Domains, NEW r \in DomainPage!Record, DomainPage!RecordChanges(d, r)
  PROVE  CheckInv'
<1>1. /\ \A e \in Domains : e # d => dns'[e] = dns[e]
      /\ dns' \in [Domains -> SUBSET DomainPage!Record]
      /\ UNCHANGED <<flags, check>>
  BY DEF DomainPage!RecordChanges, CheckInv, CheckTypes
<1>2. ASSUME NEW c \in DomainPage!Checkers
      PROVE  /\ throughout'[c] = IF check[c].on /\ check[c].domain = d
                                 THEN throughout[c] \cap dns'[d] ELSE throughout[c]
             /\ seen'[c] = IF check[c].on /\ check[c].domain = d
                           THEN seen[c] \cup dns'[d] ELSE seen[c]
  BY DEF DomainPage!RecordChanges
<1>3. /\ throughout' \in [DomainPage!Checkers -> SUBSET DomainPage!Record]
      /\ seen' \in [DomainPage!Checkers -> SUBSET DomainPage!Record]
  <2>1. ASSUME NEW c \in DomainPage!Checkers
        PROVE  throughout'[c] \subseteq DomainPage!Record /\ seen'[c] \subseteq DomainPage!Record
    BY <1>1, <1>2 DEF CheckInv, CheckTypes
  <2>2. /\ throughout' = [c \in DomainPage!Checkers |-> throughout'[c]]
        /\ seen' = [c \in DomainPage!Checkers |-> seen'[c]]
    BY DEF DomainPage!RecordChanges
  <2> QED BY <2>1, <2>2
<1>4. ASSUME NEW c \in DomainPage!Checkers PROVE Evidence(c)'
  <2>0. Evidence(c) /\ check'[c] = check[c]
    BY <1>1 DEF CheckInv
  <2>1. CASE check[c].on /\ check[c].domain = d
    <3>1. throughout'[c] = throughout[c] \cap dns'[d] /\ seen'[c] = seen[c] \cup dns'[d]
      BY <1>2, <2>1
    <3> QED BY <2>0, <2>1, <3>1 DEF Evidence
  <2>2. CASE ~(check[c].on /\ check[c].domain = d)
    <3>1. throughout'[c] = throughout[c] /\ seen'[c] = seen[c]
      BY <1>2, <2>2
    <3>2. check[c].on => dns'[check[c].domain] = dns[check[c].domain]
      BY <1>1, <2>2 DEF CheckInv, CheckTypes, DomainPage!CheckState
    <3> QED BY <2>0, <3>1, <3>2 DEF Evidence
  <2> QED BY <2>1, <2>2
<1>5. CheckTypes'
  BY <1>1, <1>3 DEF CheckInv, CheckTypes
<1> QED BY <1>4, <1>5 DEF CheckInv, DomainPage!Checkers, DomainPage!Loop

LEMMA CheckStep == CheckInv /\ [DomainPage!Next]_(DomainPage!vars) => CheckInv'
<1> SUFFICES ASSUME CheckInv, [DomainPage!Next]_(DomainPage!vars) PROVE CheckInv'
  OBVIOUS
<1>1. ASSUME NEW d \in Domains, NEW r \in DomainPage!Record, DomainPage!RecordChanges(d, r)
      PROVE  CheckInv'
  BY <1>1, RecordChangesKeeps
<1>2. ASSUME UNCHANGED <<dns, flags, check, throughout, seen>> PROVE CheckInv'
  BY <1>2 DEF CheckInv, CheckTypes, Evidence, DomainPage!Checkers, DomainPage!Loop
<1>3. ASSUME NEW d \in Domains, DomainPage!LoopStarts(d) PROVE CheckInv'
  BY <1>3, StartsKeeps DEF DomainPage!LoopStarts, DomainPage!Checkers
<1>4. ASSUME NEW a \in Verifiers, NEW d \in Domains, DomainPage!VerifyDomain(a, d) PROVE CheckInv'
  BY <1>4, StartsKeeps DEF DomainPage!VerifyDomain, DomainPage!Checkers
<1>5. ASSUME NEW c \in DomainPage!Checkers, DomainPage!Checking(c) PROVE CheckInv'
  BY <1>5, CheckingKeeps
<1> QED BY <1>1, <1>2, <1>3, <1>4, <1>5 DEF DomainPage!Next, DomainPage!vars, DomainPage!Tick

LEMMA CheckInit == Init => CheckInv
<1> SUFFICES ASSUME Init PROVE CheckInv
  OBVIOUS
<1>1. PICK d \in Domains : check = [c \in DomainPage!Checkers |-> DomainPage!Idle(d)]
  BY DEF Init, DomainPage!Init
<1>2. DomainPage!Idle(d) \in DomainPage!CheckState /\ ~DomainPage!Idle(d).on
  BY DEF DomainPage!Idle, DomainPage!CheckState
<1> QED BY <1>1, <1>2 DEF Init, DomainPage!Init, CheckInv, CheckTypes, Evidence

\* The flags change only when a check is stored, and then to what it found.
LEMMA FlagsFollowChecks ==
  ASSUME CheckInv, [DomainPage!Next]_(DomainPage!vars), NEW d \in Domains,
         NEW r \in DomainPage!Record
  PROVE  /\ r \in flags[d] \ flags'[d] =>
              \E c \in DomainPage!Checkers : DomainPage!Storing(c, d) /\ r \notin throughout[c]
         /\ r \in flags'[d] \ flags[d] =>
              \E c \in DomainPage!Checkers : DomainPage!Storing(c, d) /\ r \in seen[c]
<1>1. CASE flags' = flags
  BY <1>1
<1>2. ASSUME NEW c \in DomainPage!Checkers, DomainPage!Stores(c), flags' # flags
      PROVE  \/ flags'[d] = flags[d]
             \/ /\ DomainPage!Storing(c, d) /\ flags'[d] = check[c].ok
                /\ check[c].ok \subseteq seen[c] /\ throughout[c] \subseteq check[c].ok
  <2>1. /\ check[c].on /\ check[c].asked = DomainPage!Record
        /\ check' = [check EXCEPT ![c] = DomainPage!Idle(check[c].domain)]
        /\ flags' = DomainPage!Stored(c)
    BY <1>2 DEF DomainPage!Stores
  <2>2. Evidence(c) /\ throughout[c] \subseteq DomainPage!Record
    BY DEF CheckInv, CheckTypes
  <2>3. ~check'[c].on
    BY <2>1 DEF CheckInv, CheckTypes, DomainPage!Idle
  <2>4. CASE check[c].domain = d /\ ~check[c].indeterminate
    <3>1. flags'[d] = check[c].ok
      BY <2>1, <2>4 DEF DomainPage!Stored, CheckInv, CheckTypes
    <3>2. check[c].ok \subseteq seen[c] /\ throughout[c] \subseteq check[c].ok
      BY <2>1, <2>2, <2>4 DEF Evidence
    <3> QED BY <2>1, <2>3, <2>4, <3>1, <3>2 DEF DomainPage!Storing
  <2>5. CASE ~(check[c].domain = d /\ ~check[c].indeterminate)
    BY <2>1, <2>5 DEF DomainPage!Stored, CheckInv, CheckTypes
  <2> QED BY <2>4, <2>5
<1>3. flags' = flags \/ \E c \in DomainPage!Checkers : DomainPage!Stores(c)
  BY DEF DomainPage!Next, DomainPage!vars, DomainPage!RecordChanges, DomainPage!Tick,
         DomainPage!LoopStarts, DomainPage!VerifyDomain, DomainPage!Checking, DomainPage!Asks
<1> QED BY <1>1, <1>2, <1>3

\* For any number of domains, operators, changes of records and failing lookups:
\* a flag changes only by a check that saw the reason.
THEOREM FlagsNeedEvidence == Spec => FlagsHaveEvidence
<1>1. Init => CheckInv
  BY CheckInit
<1>2. CheckInv /\ [Next]_vars => CheckInv'
  BY FollowsPages, CheckStep
<1>3. CheckInv /\ [Next]_vars =>
        [\A d \in Domains, r \in DomainPage!Record :
           /\ r \in flags[d] \ flags'[d] =>
                \E c \in DomainPage!Checkers : DomainPage!Storing(c, d) /\ r \notin throughout[c]
           /\ r \in flags'[d] \ flags[d] =>
                \E c \in DomainPage!Checkers : DomainPage!Storing(c, d) /\ r \in seen[c]
        ]_(DomainPage!vars)
  BY FollowsPages, FlagsFollowChecks
<1> QED BY <1>1, <1>2, <1>3, PTL DEF Spec, FlagsHaveEvidence, DomainPage!FlagsHaveEvidence

-----------------------------------------------------------------------------
(* The records that a domain shows.                                         *)

Rec ==
  {SetupPage!SPF(addr) : addr \in IPs}
  \cup {SetupPage!SPFDeny(addr) : addr \in IPs}
  \cup {SetupPage!DKIM(SetupPage!Selector, n) : n \in Names}
  \cup {SetupPage!DMARC(policy) : policy \in {"none", "quarantine"}}
  \cup {[host |-> "@", kind |-> "other", value |-> "text"]}

\* Any zone is made of these records; the rest was written by one check.
SetupInv ==
  /\ ip \in IPs
  /\ zone \in [Names -> SUBSET Rec]
  /\ verified \in [Names -> SUBSET {"spf", "dkim", "dmarc"}]
  /\ checked \in [Names -> SUBSET {"spf", "dkim", "dmarc"}]
  /\ ShownRecordsVerify

\* A key is told from the other records by its host and value.
LEMMA KeysApart ==
  ASSUME NEW r \in Rec
  PROVE  r.host = "mail1._domainkey" => r = SetupPage!DKIM(SetupPage!Selector, r.value)
<1> USE DEF SetupPage!DKIM, SetupPage!DKIMHost, SetupPage!Selector
<1>1. CASE r \in {SetupPage!DKIM(SetupPage!Selector, n) : n \in Names}
  BY <1>1
<1>2. CASE r \notin {SetupPage!DKIM(SetupPage!Selector, n) : n \in Names}
  <2>1. r.host \in {"@", "_dmarc"}
    BY <1>2 DEF Rec, SetupPage!SPF, SetupPage!SPFDeny, SetupPage!DMARC
  <2> QED BY <2>1
<1> QED BY <1>1, <1>2

LEMMA CheckAgrees ==
  ASSUME SetupInv, NEW d \in Names
  PROVE  /\ SetupPage!SPF(ip) \in zone[d] => SetupPage!SPFOk(d)
         /\ SetupPage!DKIMOk(d) <=> SetupPage!DKIM(SetupPage!Selector, d) \in zone[d]
         /\ SetupPage!DMARC("quarantine") \in zone[d] => SetupPage!DMARCOk(d)
<1>1. zone[d] \subseteq Rec
  BY DEF SetupInv
<1>2. SetupPage!SPF(ip) \in zone[d] => SetupPage!SPFOk(d)
  <2> SUFFICES ASSUME SetupPage!SPF(ip) \in zone[d] PROVE SetupPage!SPFOk(d)
    OBVIOUS
  <2>1. SetupPage!SPF(ip) \in SetupPage!SPFRecords(d) /\ SetupPage!SPF(ip).value = ip
    BY DEF SetupPage!SPFRecords, SetupPage!TXT, SetupPage!SPF
  <2>2. ip \in Beginnings[ip]
    BY AdminAssumption DEF SetupInv, SetupPage!SetupAssumption
  <2> QED BY <2>1, <2>2 DEF SetupPage!SPFOk
<1>3. SetupPage!DKIMOk(d) <=> SetupPage!DKIM(SetupPage!Selector, d) \in zone[d]
  BY <1>1, KeysApart
     DEF SetupPage!DKIMOk, SetupPage!TXT, SetupPage!DKIM, SetupPage!DKIMHost, SetupPage!Selector
<1>4. SetupPage!DMARC("quarantine") \in zone[d] => SetupPage!DMARCOk(d)
  BY DEF SetupPage!DMARCOk, SetupPage!TXT, SetupPage!DMARC
<1> QED BY <1>2, <1>3, <1>4

LEMMA SetupStep == SetupInv /\ [SetupPage!Next]_(SetupPage!vars) => SetupInv'
<1> SUFFICES ASSUME SetupInv, [SetupPage!Next]_(SetupPage!vars) PROVE SetupInv'
  OBVIOUS
<1> USE DEF SetupInv, ShownRecordsVerify, SetupPage!ShownRecordsVerify
<1>1. ASSUME NEW d \in Names, SetupPage!CreateDomain(d) PROVE SetupInv'
  BY <1>1 DEF SetupPage!CreateDomain
<1>2. ASSUME NEW d \in Names, SetupPage!Publish(d) PROVE SetupInv'
  <2>1. SetupPage!Records(d) \subseteq Rec
    BY DEF SetupPage!Records, Rec
  <2>2. PICK shown \in SUBSET Rec : zone' = [zone EXCEPT ![d] = @ \cup shown]
    BY <1>2, <2>1 DEF SetupPage!Publish
  <2>3. zone[d] \cup shown \in SUBSET Rec
    OBVIOUS
  <2> QED BY <1>2, <2>2, <2>3 DEF SetupPage!Publish
<1>3. ASSUME NEW d \in Names, SetupPage!ZoneChanges(d) PROVE SetupInv'
  <2>1. SetupPage!Foreign(d) \subseteq Rec
    BY DEF SetupPage!Foreign, Rec
  <2>2. PICK s \in SUBSET Rec : zone' = [zone EXCEPT ![d] = s]
    <3>1. \A r \in SetupPage!Foreign(d) : zone[d] \cup {r} \in SUBSET Rec
      BY <2>1
    <3>2. \A r : zone[d] \ {r} \in SUBSET Rec
      OBVIOUS
    <3> QED BY <1>3, <3>1, <3>2 DEF SetupPage!ZoneChanges
  <2> QED BY <1>3, <2>2 DEF SetupPage!ZoneChanges
<1>4. CASE SetupPage!Redeploy
  BY <1>4 DEF SetupPage!Redeploy
<1>5. ASSUME NEW d \in Names, SetupPage!Verify(d) PROVE SetupInv'
  <2> DEFINE Ok == {f \in {"spf", "dkim", "dmarc"} :
                      CASE f = "spf"  -> SetupPage!SPFOk(d)
                        [] f = "dkim" -> SetupPage!DKIMOk(d)
                        [] OTHER      -> SetupPage!DMARCOk(d)}
              Shown == {r.kind : r \in SetupPage!Records(d) \cap zone[d]}
  <2>1. /\ verified' = [verified EXCEPT ![d] = Ok] /\ checked' = [checked EXCEPT ![d] = Shown]
        /\ UNCHANGED <<ip, zone>>
    BY <1>5 DEF SetupPage!Verify
  <2>2. /\ "spf" \in Shown <=> SetupPage!SPF(ip) \in zone[d]
        /\ "dkim" \in Shown <=> SetupPage!DKIM(SetupPage!Selector, d) \in zone[d]
        /\ "dmarc" \in Shown <=> SetupPage!DMARC("quarantine") \in zone[d]
        /\ Shown \subseteq {"spf", "dkim", "dmarc"}
    BY DEF SetupPage!Records, SetupPage!SPF, SetupPage!DKIM, SetupPage!DMARC
  <2>3. /\ "spf" \in Ok <=> SetupPage!SPFOk(d)
        /\ "dkim" \in Ok <=> SetupPage!DKIMOk(d)
        /\ "dmarc" \in Ok <=> SetupPage!DMARCOk(d)
        /\ Ok \subseteq {"spf", "dkim", "dmarc"}
    OBVIOUS
  <2> HIDE DEF Ok, Shown
  <2>4. Shown \subseteq Ok /\ ("dkim" \in Ok => "dkim" \in Shown)
    BY <2>2, <2>3, CheckAgrees
  <2> QED BY <2>1, <2>2, <2>3, <2>4
<1>6. CASE UNCHANGED SetupPage!vars
  BY <1>6 DEF SetupPage!vars
<1> QED BY <1>1, <1>2, <1>3, <1>4, <1>5, <1>6 DEF SetupPage!Next

\* For any names, addresses, other records in the zone and redeploys: the check
\* accepts what the page of a domain shows, and no other domain's key.
THEOREM ShownRecordsPass == Spec => []ShownRecordsVerify
<1>1. Init => SetupInv
  BY DEF Init, SetupPage!Init, SetupInv, ShownRecordsVerify, SetupPage!ShownRecordsVerify
<1>2. SetupInv /\ [Next]_vars => SetupInv'
  BY FollowsPages, SetupStep
<1>3. SetupInv => ShownRecordsVerify
  BY DEF SetupInv
<1> QED BY <1>1, <1>2, <1>3, PTL DEF Spec

-----------------------------------------------------------------------------
(* Keys and their notices.                                                  *)

\* a has created k and will report it; a has revoked k.
Creator(a, k) ==
  keyReq[a].op = "create" /\ keyReq[a].phase \in {"lookup", "enqueue"} /\ keyReq[a].key = k
Revoker(a, k) ==
  keyReq[a].op = "revoke" /\ keyReq[a].phase \in {"lookup", "enqueue"} /\ keyReq[a].key = k

\* A key that will be reported as created exists, was not reported yet and has
\* one creator; one that will be named as revoked is.
KeyTypes ==
  /\ key \in [Keys -> {"none", "live", "revoked"}]
  /\ notices \in [KeyPage!Notice -> Nat]
  /\ keyReq \in [Admins -> KeyPage!Request]
\* No notice says that k was created.
Unreported(k) == \A n \in KeyPage!Notice : n.key = k /\ n.about = "created" => notices[n] = 0
\* Which steps a handler takes, and what its notice will name.
Stages(a) ==
  /\ keyReq[a].op = "create" => keyReq[a].phase \in {"none", "insert", "lookup", "enqueue"}
  /\ keyReq[a].op = "revoke" => keyReq[a].phase \in {"none", "list", "update", "lookup", "enqueue"}
  /\ keyReq[a].phase = "list" => ~keyReq[a].named
  /\ keyReq[a].phase = "update" /\ keyReq[a].named => key[keyReq[a].key] # "none"
Reports(a) ==
  /\ Stages(a)
  /\ \A k \in Keys : Creator(a, k) =>
       /\ key[k] # "none"
       /\ Unreported(k)
       /\ \A b \in Admins : Creator(b, k) => b = a
  /\ \A k \in Keys : Revoker(a, k) /\ keyReq[a].named => key[k] = "revoked"
KeyInv == KeyTypes /\ NoticesAreTrue /\ \A a \in Admins : Reports(a)

\* Keys come and are revoked; they never go.
KeysGrow == \A k \in Keys : /\ key[k] # "none" => key'[k] # "none"
                            /\ key[k] = "revoked" => key'[k] = "revoked"

LEMMA NoticesStay ==
  ASSUME NoticesAreTrue, KeysGrow, UNCHANGED notices
  PROVE  NoticesAreTrue'
<1> SUFFICES ASSUME NEW n \in KeyPage!Notice, notices[n] > 0
             PROVE  IF n.about = "created" THEN key'[n.key] # "none" /\ notices[n] = 1
                    ELSE n.named => key'[n.key] = "revoked"
  BY DEF NoticesAreTrue, KeyPage!NoticesAreTrue
<1>1. n.key \in Keys
  BY DEF KeyPage!Notice
<1>2. IF n.about = "created" THEN key[n.key] # "none" /\ notices[n] = 1
      ELSE n.named => key[n.key] = "revoked"
  BY DEF NoticesAreTrue, KeyPage!NoticesAreTrue
<1>3. /\ key[n.key] # "none" => key'[n.key] # "none"
      /\ key[n.key] = "revoked" => key'[n.key] = "revoked"
  BY <1>1 DEF KeysGrow
<1> QED BY <1>2, <1>3

\* A step that gives no notice and makes nobody a creator.
LEMMA OneRequest ==
  ASSUME KeyInv, KeysGrow, key' \in [Keys -> {"none", "live", "revoked"}], UNCHANGED notices,
         NEW a \in Admins, NEW q \in KeyPage!Request, keyReq' = [keyReq EXCEPT ![a] = q],
         q.op = "create" => q.phase \in {"none", "insert", "lookup", "enqueue"},
         q.op = "revoke" => q.phase \in {"none", "list", "update", "lookup", "enqueue"},
         q.phase = "list" => ~q.named,
         q.phase = "update" /\ q.named => key'[q.key] # "none",
         q.op = "create" /\ q.phase \in {"lookup", "enqueue"} => Creator(a, q.key),
         q.op = "revoke" /\ q.phase \in {"lookup", "enqueue"} /\ q.named => key'[q.key] = "revoked"
  PROVE  KeyInv'
<1>1. KeyTypes'
  BY DEF KeyInv, KeyTypes
<1>2. NoticesAreTrue'
  BY NoticesStay DEF KeyInv
<1>3. keyReq'[a] = q /\ \A b \in Admins : b # a => keyReq'[b] = keyReq[b]
  BY DEF KeyInv, KeyTypes
<1>4. \A b \in Admins, k \in Keys : Creator(b, k)' => Creator(b, k)
  BY <1>3 DEF Creator
<1>5. ASSUME NEW b \in Admins PROVE Reports(b)'
  <2>1. Reports(b) /\ keyReq[b].key \in Keys /\ q.key \in Keys
    BY DEF KeyInv, KeyTypes, KeyPage!Request
  <2>2. ASSUME NEW k \in Keys, Creator(b, k)'
        PROVE  key'[k] # "none" /\ Unreported(k)' /\ \A c \in Admins : Creator(c, k)' => c = b
    <3>1. Creator(b, k)
      BY <1>4, <2>2
    <3>2. key[k] # "none" /\ Unreported(k) /\ \A c \in Admins : Creator(c, k) => c = b
      BY <2>1, <3>1 DEF Reports
    <3>3. Unreported(k)'
      BY <3>2 DEF Unreported
    <3> QED BY <1>4, <3>2, <3>3 DEF KeysGrow
  <2>3. Stages(b)' /\ \A k \in Keys : Revoker(b, k)' /\ keyReq'[b].named => key'[k] = "revoked"
    <3>1. CASE b = a
      BY <1>3, <3>1 DEF Stages, Revoker
    <3>2. CASE b # a
      <4>1. keyReq'[b] = keyReq[b] /\ Stages(b)
        BY <1>3, <2>1, <3>2 DEF Reports
      <4>2. Stages(b)'
        BY <2>1, <4>1 DEF Stages, KeysGrow
      <4>3. \A k \in Keys : Revoker(b, k)' => Revoker(b, k)
        BY <4>1 DEF Revoker
      <4> QED BY <2>1, <4>1, <4>2, <4>3 DEF Reports, KeysGrow
    <3> QED BY <3>1, <3>2
  <2> QED BY <2>2, <2>3 DEF Reports
<1> QED BY <1>1, <1>2, <1>5 DEF KeyInv

\* A handler that goes to another step of the same request.
LEMMA SameRequest ==
  ASSUME NEW q \in KeyPage!Request,
         NEW ph \in {"none", "list", "insert", "update", "lookup", "enqueue"}
  PROVE  /\ [q EXCEPT !.phase = ph] \in KeyPage!Request
         /\ [q EXCEPT !.phase = ph].op = q.op /\ [q EXCEPT !.phase = ph].key = q.key
         /\ [q EXCEPT !.phase = ph].named = q.named /\ [q EXCEPT !.phase = ph].phase = ph
BY DEF KeyPage!Request

LEMMA RequestEnds ==
  ASSUME KeyInv, NEW a \in Admins, KeyPage!Ends(a), UNCHANGED <<key, notices>>
  PROVE  KeyInv'
<1> DEFINE q == [keyReq[a] EXCEPT !.phase = "none"]
<1>1. keyReq' = [keyReq EXCEPT ![a] = q] /\ q \in KeyPage!Request /\ q.phase = "none"
  BY SameRequest DEF KeyInv, KeyTypes, KeyPage!Ends, KeyPage!Goes
<1> HIDE DEF q
<1>2. KeysGrow /\ key' \in [Keys -> {"none", "live", "revoked"}]
  BY DEF KeysGrow, KeyInv, KeyTypes
<1> QED BY <1>1, <1>2, OneRequest

LEMMA KeyHandler ==
  ASSUME KeyInv, NEW a \in Admins, KeyPage!Handler(a)
  PROVE  KeyInv'
<1> USE DEF KeyPage!At
<1>0. /\ keyReq \in [Admins -> KeyPage!Request]
      /\ keyReq[a] \in KeyPage!Request /\ keyReq[a].key \in Keys /\ Reports(a)
      /\ key \in [Keys -> {"none", "live", "revoked"}]
  BY DEF KeyInv, KeyTypes, KeyPage!Request
<1>1. CASE KeyPage!CreateAPIKey(a)
  <2>1. keyReq[a].phase = "insert" /\ keyReq[a].op = "create" /\ UNCHANGED notices
    BY <1>0, <1>1 DEF KeyPage!CreateAPIKey, KeyPage!Request, Reports, Stages
  <2>2. ASSUME NEW k \in Keys, key[k] = "none", key' = [key EXCEPT ![k] = "live"],
               keyReq' = [keyReq EXCEPT ![a].phase = "lookup", ![a].key = k, ![a].named = TRUE]
        PROVE  KeyInv'
    <3>1. PICK q \in KeyPage!Request :
            /\ keyReq' = [keyReq EXCEPT ![a] = q]
            /\ q.op = "create" /\ q.phase = "lookup" /\ q.key = k
      <4> DEFINE q == [keyReq[a] EXCEPT !.phase = "lookup", !.key = k, !.named = TRUE]
      <4>1. q \in KeyPage!Request /\ q.op = "create" /\ q.phase = "lookup" /\ q.key = k
        BY <1>0, <2>1 DEF KeyPage!Request
      <4>2. keyReq' = [keyReq EXCEPT ![a] = q]
        BY <1>0, <2>2 DEF KeyInv, KeyTypes
      <4> QED BY <4>1, <4>2
    <3>2. keyReq'[a] = q /\ \A b \in Admins : b # a => keyReq'[b] = keyReq[b]
      BY <1>0, <3>1
    <3>3. KeysGrow /\ key'[k] = "live" /\ \A l \in Keys : l # k => key'[l] = key[l]
      BY <1>0, <2>2 DEF KeysGrow
    <3>4. KeyTypes'
      <4>1. key' \in [Keys -> {"none", "live", "revoked"}]
        BY <1>0, <2>2
      <4>2. keyReq' \in [Admins -> KeyPage!Request]
        BY <1>0, <3>1
      <4> QED BY <2>1, <4>1, <4>2 DEF KeyInv, KeyTypes
    <3>5. NoticesAreTrue'
      BY <2>1, <3>3 DEF KeyInv, KeysGrow, NoticesAreTrue, KeyPage!NoticesAreTrue, KeyPage!Notice
    <3>6. /\ \A b \in Admins : ~Creator(b, k)
          /\ Unreported(k)
      <4>1. \A b \in Admins : ~Creator(b, k)
        BY <2>2 DEF KeyInv, Reports
      <4>2. \A n \in KeyPage!Notice : n.key = k /\ n.about = "created" => ~(notices[n] > 0)
        BY <2>2 DEF KeyInv, NoticesAreTrue, KeyPage!NoticesAreTrue
      <4>3. \A n \in KeyPage!Notice : notices[n] \in Nat
        BY DEF KeyInv, KeyTypes
      <4> QED BY <4>1, <4>2, <4>3 DEF Unreported
    <3>7. \A b \in Admins, l \in Keys :
             /\ Creator(b, l)' => (b = a /\ l = k) \/ (Creator(b, l) /\ l # k)
             /\ Revoker(b, l)' => Revoker(b, l) /\ b # a
      BY <3>1, <3>2, <3>6 DEF Creator, Revoker
    <3>8. ASSUME NEW b \in Admins PROVE Reports(b)'
      <4>1. Reports(b) /\ keyReq[b].key \in Keys
        BY DEF KeyInv, KeyTypes, KeyPage!Request
      <4>2. ASSUME NEW l \in Keys, Creator(b, l)'
            PROVE  /\ key'[l] # "none" /\ Unreported(l)'
                   /\ \A c \in Admins : Creator(c, l)' => c = b
        <5>1. UNCHANGED notices /\ \A m \in Keys : Unreported(m)' <=> Unreported(m)
          BY <2>1 DEF Unreported
        <5>2. CASE b = a /\ l = k
          BY <3>3, <3>6, <3>7, <5>1, <5>2
        <5>3. CASE Creator(b, l) /\ l # k
          <6>1. key[l] # "none" /\ Unreported(l) /\ \A c \in Admins : Creator(c, l) => c = b
            BY <4>1, <5>3 DEF Reports
          <6> QED BY <3>3, <3>7, <5>1, <5>3, <6>1
        <5> QED BY <3>7, <4>2, <5>2, <5>3
      <4>3. Stages(b)'
        <5>1. CASE b = a
          BY <3>1, <3>2, <5>1 DEF Stages
        <5>2. CASE b # a
          <6>1. keyReq'[b] = keyReq[b] /\ Stages(b)
            BY <3>2, <4>1, <5>2 DEF Reports
          <6> QED BY <3>3, <4>1, <6>1 DEF Stages, KeysGrow
        <5> QED BY <5>1, <5>2
      <4>4. ASSUME NEW l \in Keys, Revoker(b, l)', keyReq'[b].named
            PROVE  key'[l] = "revoked"
        <5>1. b # a /\ Revoker(b, l) /\ keyReq'[b] = keyReq[b]
          BY <3>2, <3>7, <4>4
        <5>2. key[l] = "revoked"
          BY <4>1, <4>4, <5>1 DEF Reports
        <5> QED BY <3>3, <5>2 DEF KeysGrow
      <4> QED BY <4>2, <4>3, <4>4 DEF Reports
    <3> QED BY <3>4, <3>5, <3>8 DEF KeyInv
  <2>3. CASE KeyPage!Ends(a) /\ UNCHANGED key
    BY <2>1, <2>3, RequestEnds
  <2> QED BY <1>1, <2>2, <2>3 DEF KeyPage!CreateAPIKey
<1>2. CASE KeyPage!ListsKeys(a)
  <2>1. /\ keyReq[a].phase = "list" /\ UNCHANGED <<key, notices>> /\ keyReq[a].op = "revoke"
    BY <1>0, <1>2 DEF KeyPage!ListsKeys, Reports, Stages, KeyPage!Request
  <2>2. PICK q \in KeyPage!Request :
          /\ keyReq' = [keyReq EXCEPT ![a] = q] /\ q.op = "revoke" /\ q.phase = "update"
          /\ q.named => key[q.key] # "none"
    <3>1. CASE KeyPage!Goes(a, "update")
      <4>1. ~keyReq[a].named
        BY <1>0, <2>1 DEF Reports, Stages
      <4> DEFINE q == [keyReq[a] EXCEPT !.phase = "update"]
      <4>2. q \in KeyPage!Request /\ q.op = "revoke" /\ q.phase = "update" /\ q.named = keyReq[a].named
        BY <1>0, <2>1, SameRequest
      <4>3. keyReq' = [keyReq EXCEPT ![a] = q]
        BY <3>1 DEF KeyPage!Goes, KeyInv, KeyTypes
      <4> HIDE DEF q
      <4> QED BY <4>1, <4>2, <4>3
    <3>2. CASE keyReq' = [keyReq EXCEPT ![a].phase = "update",
                                        ![a].named = key[keyReq[a].key] # "none"]
      <4> DEFINE q == [keyReq[a] EXCEPT !.phase = "update",
                                        !.named = key[keyReq[a].key] # "none"]
      <4>1. /\ q \in KeyPage!Request /\ q.op = "revoke" /\ q.phase = "update"
            /\ q.named => key[q.key] # "none"
        BY <1>0, <2>1 DEF KeyPage!Request
      <4>2. keyReq' = [keyReq EXCEPT ![a] = q]
        BY <1>0, <3>2 DEF KeyInv, KeyTypes
      <4> QED BY <4>1, <4>2
    <3> QED BY <1>2, <3>1, <3>2 DEF KeyPage!ListsKeys
  <2>3. KeysGrow /\ key' \in [Keys -> {"none", "live", "revoked"}]
    BY <1>0, <2>1 DEF KeysGrow
  <2> QED BY <2>1, <2>2, <2>3, OneRequest
<1>3. CASE KeyPage!RevokeAPIKey(a)
  <2>1. keyReq[a].phase = "update" /\ UNCHANGED notices /\ keyReq[a].op = "revoke"
    BY <1>0, <1>3 DEF KeyPage!RevokeAPIKey, Reports, Stages, KeyPage!Request
  <2>2. CASE KeyPage!Ends(a) /\ UNCHANGED key
    BY <2>1, <2>2, RequestEnds
  <2>3. CASE /\ key' = [key EXCEPT ![keyReq[a].key] = IF @ = "none" THEN @ ELSE "revoked"]
             /\ KeyPage!Goes(a, "lookup")
    <3>1. PICK q \in KeyPage!Request :
            /\ keyReq' = [keyReq EXCEPT ![a] = q] /\ q.op = "revoke" /\ q.phase = "lookup"
            /\ q.key = keyReq[a].key /\ q.named = keyReq[a].named
      <4> DEFINE q == [keyReq[a] EXCEPT !.phase = "lookup"]
      <4>1. /\ q \in KeyPage!Request /\ q.op = "revoke" /\ q.phase = "lookup"
            /\ q.key = keyReq[a].key /\ q.named = keyReq[a].named
        BY <1>0, <2>1, SameRequest
      <4>2. keyReq' = [keyReq EXCEPT ![a] = q]
        BY <2>3 DEF KeyPage!Goes, KeyInv, KeyTypes
      <4> HIDE DEF q
      <4> QED BY <4>1, <4>2
    <3>2. KeysGrow /\ key' \in [Keys -> {"none", "live", "revoked"}]
      BY <1>0, <2>3 DEF KeysGrow
    <3>3. q.named => key'[q.key] = "revoked"
      BY <1>0, <2>1, <2>3, <3>1 DEF Reports, Stages
    <3> QED BY <2>1, <3>1, <3>2, <3>3, OneRequest
  <2> QED BY <1>3, <2>2, <2>3 DEF KeyPage!RevokeAPIKey
<1>4. CASE KeyPage!LooksUpSystemDomain(a)
  <2>1. keyReq[a].phase = "lookup" /\ UNCHANGED <<key, notices>>
    BY <1>4 DEF KeyPage!LooksUpSystemDomain
  <2>2. CASE KeyPage!Ends(a)
    BY <2>1, <2>2, RequestEnds
  <2>3. CASE KeyPage!Goes(a, "enqueue")
    <3>1. PICK q \in KeyPage!Request :
            /\ keyReq' = [keyReq EXCEPT ![a] = q] /\ q.op = keyReq[a].op /\ q.phase = "enqueue"
            /\ q.key = keyReq[a].key /\ q.named = keyReq[a].named
      <4> DEFINE q == [keyReq[a] EXCEPT !.phase = "enqueue"]
      <4>1. /\ q \in KeyPage!Request /\ q.op = keyReq[a].op /\ q.phase = "enqueue"
            /\ q.key = keyReq[a].key /\ q.named = keyReq[a].named
        BY <1>0, <2>1, SameRequest
      <4>2. keyReq' = [keyReq EXCEPT ![a] = q]
        BY <2>3 DEF KeyPage!Goes, KeyInv, KeyTypes
      <4> HIDE DEF q
      <4> QED BY <4>1, <4>2
    <3>2. KeysGrow /\ key' \in [Keys -> {"none", "live", "revoked"}]
      BY <1>0, <2>1 DEF KeysGrow
    <3>3. q.op = "revoke" /\ q.named => key'[q.key] = "revoked"
      BY <1>0, <2>1, <3>1 DEF Reports, Revoker
    <3>4. q.op = "create" => Creator(a, q.key)
      BY <1>0, <2>1, <3>1 DEF Creator
    <3> QED BY <2>1, <3>1, <3>2, <3>3, <3>4, OneRequest
  <2> QED BY <1>4, <2>2, <2>3 DEF KeyPage!LooksUpSystemDomain, KeyPage!Ends
<1>5. CASE KeyPage!EnqueuesNotice(a)
  <2> DEFINE n == KeyPage!NoticeOf(a)
  <2>1. keyReq[a].phase = "enqueue" /\ UNCHANGED key /\ KeyPage!Ends(a)
    BY <1>5 DEF KeyPage!EnqueuesNotice
  <2>2. CASE UNCHANGED notices
    BY <2>1, <2>2, RequestEnds
  <2>3. CASE notices' = [notices EXCEPT ![n] = @ + 1]
    <3>1. /\ n \in KeyPage!Notice /\ n.key = keyReq[a].key /\ n.named = keyReq[a].named
          /\ n.about = "created" => Creator(a, n.key)
          /\ n.about = "revoked" => Revoker(a, n.key)
      BY <1>0, <2>1 DEF KeyPage!NoticeOf, KeyPage!Notice, KeyPage!Request, Creator, Revoker
    <3> HIDE DEF n
    <3>2. PICK q \in KeyPage!Request : keyReq' = [keyReq EXCEPT ![a] = q] /\ q.phase = "none"
      <4> DEFINE q == [keyReq[a] EXCEPT !.phase = "none"]
      <4>1. q \in KeyPage!Request /\ q.phase = "none"
        BY <1>0, SameRequest
      <4>2. keyReq' = [keyReq EXCEPT ![a] = q]
        BY <2>1 DEF KeyPage!Ends, KeyPage!Goes
      <4> HIDE DEF q
      <4> QED BY <4>1, <4>2
    <3>3. keyReq'[a] = q /\ \A b \in Admins : b # a => keyReq'[b] = keyReq[b]
      BY <3>2 DEF KeyInv, KeyTypes
    <3>4. /\ notices \in [KeyPage!Notice -> Nat] /\ notices' \in [KeyPage!Notice -> Nat]
          /\ notices'[n] = notices[n] + 1
          /\ \A o \in KeyPage!Notice : o # n => notices'[o] = notices[o]
      BY <2>3, <3>1 DEF KeyInv, KeyTypes
    <3>5. KeyTypes'
      BY <2>1, <3>2, <3>4 DEF KeyInv, KeyTypes
    <3>6. /\ n.about = "created" => notices[n] = 0 /\ key[n.key] # "none"
          /\ n.about = "revoked" /\ n.named => key[n.key] = "revoked"
      <4>1. n.key \in Keys
        BY <3>1 DEF KeyPage!Notice
      <4>2. n.about = "created" => Unreported(n.key) /\ key[n.key] # "none"
        BY <1>0, <3>1, <4>1 DEF Reports
      <4>3. n.about = "created" => notices[n] = 0
        BY <3>1, <4>2 DEF Unreported
      <4>4. n.about = "revoked" /\ n.named => key[n.key] = "revoked"
        BY <1>0, <3>1, <4>1 DEF Reports
      <4> QED BY <4>2, <4>3, <4>4
    <3>7. NoticesAreTrue'
      <4> SUFFICES ASSUME NEW o \in KeyPage!Notice, notices'[o] > 0
                   PROVE  IF o.about = "created" THEN key[o.key] # "none" /\ notices'[o] = 1
                          ELSE o.named => key[o.key] = "revoked"
        BY <2>1 DEF NoticesAreTrue, KeyPage!NoticesAreTrue
      <4>1. CASE o = n
        <5>1. o.about \in {"created", "revoked"}
          BY DEF KeyPage!Notice
        <5> QED BY <3>4, <3>6, <4>1, <5>1
      <4>2. CASE o # n
        BY <3>4, <4>2 DEF KeyInv, NoticesAreTrue, KeyPage!NoticesAreTrue
      <4> QED BY <4>1, <4>2
    <3>8. \A b \in Admins, k \in Keys :
            /\ Creator(b, k)' => b # a /\ Creator(b, k)
            /\ Revoker(b, k)' => b # a /\ Revoker(b, k)
      BY <3>2, <3>3 DEF Creator, Revoker
    <3>9. ASSUME NEW b \in Admins PROVE Reports(b)'
      <4>1. Reports(b) /\ UNCHANGED key
        BY <2>1 DEF KeyInv
      <4>2. ASSUME NEW k \in Keys, Creator(b, k)'
            PROVE  /\ key'[k] # "none" /\ Unreported(k)'
                   /\ \A c \in Admins : Creator(c, k)' => c = b
        <5>1. b # a /\ Creator(b, k)
          BY <3>8, <4>2
        <5>2. key[k] # "none" /\ Unreported(k) /\ \A c \in Admins : Creator(c, k) => c = b
          BY <4>1, <5>1 DEF Reports
        <5>3. ASSUME NEW o \in KeyPage!Notice, o.key = k, o.about = "created"
              PROVE  notices'[o] = 0
          <6>1. o # n
            BY <3>1, <5>1, <5>2, <5>3
          <6> QED BY <3>4, <5>2, <5>3, <6>1 DEF Unreported
        <5>4. Unreported(k)'
          BY <5>3 DEF Unreported
        <5> QED BY <3>8, <4>1, <5>2, <5>4
      <4>3. Stages(b)'
        BY <3>2, <3>3, <4>1 DEF Reports, Stages
      <4>4. ASSUME NEW k \in Keys, Revoker(b, k)', keyReq'[b].named
            PROVE  key'[k] = "revoked"
        <5>1. Revoker(b, k) /\ keyReq'[b] = keyReq[b]
          BY <3>3, <3>8, <4>4
        <5> QED BY <4>1, <4>4, <5>1 DEF Reports
      <4> QED BY <4>2, <4>3, <4>4 DEF Reports
    <3> QED BY <3>5, <3>7, <3>9 DEF KeyInv
  <2> QED BY <1>5, <2>2, <2>3 DEF KeyPage!EnqueuesNotice
<1> QED BY <1>1, <1>2, <1>3, <1>4, <1>5 DEF KeyPage!Handler

LEMMA KeyInit == Init => KeyInv
<1> SUFFICES ASSUME KeyPage!Init PROVE KeyInv
  BY DEF Init
<1>1. PICK k \in Keys : keyReq = [a \in Admins |-> KeyPage!Closed(k)]
  BY DEF KeyPage!Init
<1>2. KeyPage!Closed(k) \in KeyPage!Request /\ KeyPage!Closed(k).phase = "none"
  BY DEF KeyPage!Closed, KeyPage!Request
<1>3. KeyTypes
  BY <1>1, <1>2 DEF KeyPage!Init, KeyTypes
<1>4. NoticesAreTrue
  BY DEF KeyPage!Init, NoticesAreTrue, KeyPage!NoticesAreTrue
<1>5. ASSUME NEW a \in Admins PROVE Reports(a)
  BY <1>1, <1>2 DEF Reports, Stages, Creator, Revoker
<1> QED BY <1>3, <1>4, <1>5 DEF KeyInv

LEMMA KeyStep == KeyInv /\ [KeyPage!Next]_(KeyPage!vars) => KeyInv'
<1> SUFFICES ASSUME KeyInv, [KeyPage!Next]_(KeyPage!vars) PROVE KeyInv'
  OBVIOUS
<1>1. ASSUME NEW a \in Admins, KeyPage!Handler(a) PROVE KeyInv'
  BY <1>1, KeyHandler
<1>2. ASSUME NEW a \in Admins, NEW op \in {"create", "revoke"}, NEW k \in Keys,
             KeyPage!Opens(a, op, k)
      PROVE  KeyInv'
  <2> DEFINE q == [KeyPage!Closed(k) EXCEPT !.op = op,
                     !.phase = IF op = "create" THEN "insert" ELSE "list"]
  <2>1. /\ q \in KeyPage!Request /\ q.op = op /\ ~q.named
        /\ q.phase = IF op = "create" THEN "insert" ELSE "list"
    BY DEF KeyPage!Closed, KeyPage!Request
  <2>2. keyReq' = [keyReq EXCEPT ![a] = q] /\ UNCHANGED <<key, notices>>
    BY <1>2 DEF KeyPage!Opens
  <2> HIDE DEF q
  <2>3. KeysGrow /\ key' \in [Keys -> {"none", "live", "revoked"}]
    BY <2>2 DEF KeysGrow, KeyInv, KeyTypes
  <2> QED BY <2>1, <2>2, <2>3, OneRequest
<1>3. ASSUME UNCHANGED <<key, notices>>,
             \/ UNCHANGED keyReq
             \/ keyReq' = [a \in Admins |-> [keyReq[a] EXCEPT !.phase = "none"]]
      PROVE  KeyInv'
  <2>1. \A a \in Admins : /\ keyReq[a] \in KeyPage!Request /\ keyReq'[a] \in KeyPage!Request
                          /\ keyReq'[a].op = keyReq[a].op
                          /\ \/ keyReq'[a] = keyReq[a]
                             \/ keyReq'[a].phase = "none"
    <3> SUFFICES ASSUME NEW a \in Admins
                 PROVE  /\ keyReq[a] \in KeyPage!Request /\ keyReq'[a] \in KeyPage!Request
                        /\ keyReq'[a].op = keyReq[a].op
                        /\ \/ keyReq'[a] = keyReq[a]
                           \/ keyReq'[a].phase = "none"
      OBVIOUS
    <3>1. keyReq[a] \in KeyPage!Request
      BY DEF KeyInv, KeyTypes
    <3>2. CASE keyReq' = [b \in Admins |-> [keyReq[b] EXCEPT !.phase = "none"]]
      <4> DEFINE q == [keyReq[a] EXCEPT !.phase = "none"]
      <4>1. q \in KeyPage!Request /\ q.op = keyReq[a].op /\ q.phase = "none"
        BY <3>1, SameRequest
      <4>2. keyReq'[a] = q
        BY <3>2
      <4> HIDE DEF q
      <4> QED BY <3>1, <4>1, <4>2
    <3> QED BY <1>3, <3>1, <3>2
  <2>2. KeyTypes'
    BY <1>3, <2>1 DEF KeyInv, KeyTypes
  <2>3. NoticesAreTrue'
    BY <1>3 DEF KeyInv, NoticesAreTrue, KeyPage!NoticesAreTrue
  <2>4. \A b \in Admins, k \in Keys : /\ Creator(b, k)' => Creator(b, k)
                                      /\ Revoker(b, k)' => Revoker(b, k)
    BY <2>1 DEF Creator, Revoker
  <2>5. ASSUME NEW a \in Admins PROVE Reports(a)'
    <3>1. Reports(a)
      BY DEF KeyInv
    <3>2. CASE keyReq'[a] = keyReq[a]
      BY <1>3, <2>4, <3>1, <3>2 DEF Reports, Stages, Unreported, Revoker
    <3>3. CASE keyReq'[a].phase = "none"
      BY <1>3, <3>3 DEF Reports, Stages, Creator, Revoker
    <3> QED BY <2>1, <3>2, <3>3
  <2> QED BY <2>2, <2>3, <2>5 DEF KeyInv
<1>4. CASE KeyPage!SystemDomainChanges
  BY <1>3, <1>4 DEF KeyPage!SystemDomainChanges
<1>5. CASE KeyPage!Crash
  BY <1>3, <1>5 DEF KeyPage!Crash
<1>6. CASE UNCHANGED KeyPage!vars
  BY <1>3, <1>6 DEF KeyPage!vars
<1> QED BY <1>1, <1>2, <1>4, <1>5, <1>6 DEF KeyPage!Next

\* The operator is never told of a creation or a revocation that has not
\* happened, nor twice of a creation, however the handlers of createKey and
\* revokeKey interleave and wherever a store call fails or the process dies.
THEOREM NoticesTellTheTruth == Spec => []NoticesAreTrue
<1>1. Spec => []KeyInv
  <2>1. KeyInv /\ [Next]_vars => KeyInv'
    BY FollowsPages, KeyStep
  <2> QED BY <2>1, KeyInit, PTL DEF Spec
<1>2. KeyInv => NoticesAreTrue
  BY DEF KeyInv
<1> QED BY <1>1, <1>2, PTL
-----------------------------------------------------------------------------
(* The dashboard.                                                           *)

LEMMA SameCardinality == \A S : Board!Cardinality(S) = Cardinality(S)
BY DEF Board!Cardinality, Cardinality

\* A finite set has finitely many values under a function.
LEMMA FiniteImage ==
  ASSUME NEW W, IsFiniteSet(W), NEW f
  PROVE  IsFiniteSet({f[e] : e \in W})
<1> DEFINE g == [e \in W |-> f[e]]
<1>1. g \in Surjection(W, {f[e] : e \in W})
  BY DEF Surjection
<1> QED BY <1>1, FS_Surjection

\* The fold that sums bars, over the subsets of a set of them: only one function
\* satisfies its equation.
Sums(g, bars, field) ==
  g = [s \in SUBSET DOMAIN bars |->
         IF s = {} THEN 0
         ELSE bars[CHOOSE x \in s : TRUE][field] + g[s \ {CHOOSE x \in s : TRUE}]]

LEMMA OneSum ==
  ASSUME NEW bars, NEW field, IsFiniteSet(DOMAIN bars),
         NEW g, Sums(g, bars, field), NEW h, Sums(h, bars, field)
  PROVE  g[DOMAIN bars] = h[DOMAIN bars]
<1> DEFINE D == DOMAIN bars
           Bad == {s \in SUBSET D : g[s] # h[s]}
<1> SUFFICES ASSUME Bad # {} PROVE FALSE
  OBVIOUS
<1>1. Bad \subseteq FiniteSubsetsOf(D)
  BY FS_Subset DEF FiniteSubsetsOf
<1>2. IsWellFoundedOn(StrictSubsetOrdering(D), FiniteSubsetsOf(D))
  BY FS_StrictSubsetOrderingWellFounded
<1>3. PICK s \in Bad : \A r \in Bad : <<r, s>> \notin StrictSubsetOrdering(D)
  <2> HIDE DEF Bad
  <2> QED BY <1>1, <1>2, WFMin
<1> DEFINE x == CHOOSE x \in s : TRUE
<1>4. \A f : Sums(f, bars, field) => f[s] = IF s = {} THEN 0 ELSE bars[x][field] + f[s \ {x}]
  BY DEF Sums
<1>5. s # {} /\ x \in s
  BY <1>3, <1>4
<1> HIDE DEF x
<1>6. s \ {x} \notin Bad
  <2> DEFINE r == s \ {x}
  <2>1. s \in SUBSET D
    BY <1>3
  <2>2. r \in SUBSET D /\ r \subseteq s /\ r # s
    BY <1>5, <2>1
  <2> HIDE DEF r, Bad
  <2>3. <<r, s>> \in StrictSubsetOrdering(D)
    BY <2>1, <2>2 DEF StrictSubsetOrdering
  <2> QED BY <1>3, <2>3 DEF r
<1>7. g[s \ {x}] = h[s \ {x}]
  BY <1>3, <1>6
<1> QED BY <1>3, <1>4, <1>5, <1>7

\* Bars that count disjoint sets add up to the size of their union.
LEMMA CountsAddUp ==
  ASSUME NEW F, IsFiniteSet(F), NEW bars, IsFiniteSet(DOMAIN bars), NEW field, NEW A,
         \A x \in DOMAIN bars : A[x] \in SUBSET F /\ bars[x][field] = Cardinality(A[x]),
         \A x, y \in DOMAIN bars : x # y => A[x] \cap A[y] = {},
         NEW U, \A e : e \in U <=> \E x \in DOMAIN bars : e \in A[x]
  PROVE  Board!Total(bars, field) = Cardinality(U)
<1> DEFINE D == DOMAIN bars
           All(s) == UNION {A[x] : x \in s}
           g == [s \in SUBSET D |-> Cardinality(All(s))]
           h == CHOOSE h : Sums(h, bars, field)
<1>1. \A s \in SUBSET D : IsFiniteSet(All(s)) /\ Cardinality(All(s)) \in Nat
  <2> SUFFICES ASSUME NEW s \in SUBSET D PROVE IsFiniteSet(All(s))
    BY FS_CardinalityType
  <2>1. All(s) \in SUBSET F
    OBVIOUS
  <2> HIDE DEF All
  <2> QED BY <2>1, FS_Subset
<1>2. Cardinality(All({})) = 0
  <2>1. All({}) = {}
    OBVIOUS
  <2> QED BY <2>1, FS_EmptySet
<1>3. ASSUME NEW s \in SUBSET D, NEW x \in s
      PROVE  Cardinality(All(s)) = bars[x][field] + Cardinality(All(s \ {x}))
  <2>1. All(s) = A[x] \cup All(s \ {x}) /\ A[x] \cap All(s \ {x}) = {}
    OBVIOUS
  <2>2. IsFiniteSet(A[x]) /\ IsFiniteSet(All(s \ {x})) /\ s \ {x} \in SUBSET D
    <3>1. A[x] \in SUBSET F /\ s \ {x} \in SUBSET D
      OBVIOUS
    <3> HIDE DEF All
    <3> QED BY <1>1, <3>1, FS_Subset
  <2>3. bars[x][field] = Cardinality(A[x])
    OBVIOUS
  <2>4. Cardinality(A[x]) \in Nat
    BY <2>2, FS_CardinalityType
  <2>5. Cardinality(A[x] \cap All(s \ {x})) = 0
    BY <2>1, FS_EmptySet
  <2> HIDE DEF All
  <2>6. Cardinality(A[x] \cup All(s \ {x})) = Cardinality(A[x]) + Cardinality(All(s \ {x})) - 0
    BY <2>2, <2>5, FS_Union
  <2> QED BY <1>1, <2>1, <2>2, <2>3, <2>4, <2>6
<1> HIDE DEF All
<1>4. Sums(g, bars, field)
  <2>1. ASSUME NEW s \in SUBSET D
        PROVE  g[s] = IF s = {} THEN 0
                      ELSE bars[CHOOSE x \in s : TRUE][field] + g[s \ {CHOOSE x \in s : TRUE}]
    <3>1. CASE s = {}
      BY <1>2, <3>1
    <3>2. CASE s # {}
      <4> DEFINE x == CHOOSE x \in s : TRUE
      <4>1. x \in s
        BY <3>2
      <4> HIDE DEF x
      <4>2. g[s] = bars[x][field] + g[s \ {x}]
        BY <1>3, <4>1
      <4> QED BY <3>2, <4>2 DEF x
    <3> QED BY <3>1, <3>2
  <2>2. DOMAIN g = SUBSET DOMAIN bars
    OBVIOUS
  <2> QED BY <2>1, <2>2 DEF Sums
<1>5. Sums(h, bars, field)
  BY <1>4
<1>6. Board!Total(bars, field) = h[D]
  BY DEF Board!Total, Board!FoldFunction, Board!FoldFunctionOnSet, Board!MapThenFoldSet, Sums
<1> HIDE DEF h, g
<1>7. h[D] = g[D]
  BY <1>4, <1>5, OneSum
<1>8. All(D) = U
  BY DEF All
<1> QED BY <1>6, <1>7, <1>8 DEF g
\* The rows of a table that were created in a range of days.
Window == Board!InRange(Board!Table, view.start, view.start + view.days)

LEMMA WindowRows ==
  /\ Window \subseteq Board!Rows
  /\ \A e \in Board!Rows : Board!Table[e] = table[e]
  /\ Window = {e \in Board!Rows : view.start <= table[e].created
                                  /\ table[e].created < view.start + view.days}
BY DEF Window, Board!InRange, Board!Table

\* What a view holds, as far as it has been read with the table standing still.
Statuses == {"queued", "sending", "sent", "canceled", "failed"}
ViewFields == {"phase", "days", "start", "opened", "summary", "daily", "domains", "reasons",
               "still", "whole"}
ViewTypes ==
  /\ DOMAIN view = ViewFields
  /\ view.phase \in {"summary", "daily", "domains", "reasons", "shown"}
  /\ view.days \in Nat /\ view.opened \in Int /\ view.start = view.opened - (view.days - 1)
ViewReads ==
  /\ view.still /\ view.phase # "summary" =>
       view.summary = Board!SummaryStats(Board!Table, view.start, view.start + view.days)
  /\ view.still /\ view.whole /\ view.phase \in {"domains", "reasons", "shown"} =>
       view.daily = Board!Filled(Board!DailyVolume(Board!Table, view.start, view.start + view.days))
  /\ view.still /\ view.whole /\ view.phase \in {"reasons", "shown"} =>
       view.domains = Board!DomainVolume(Board!Table, view.start, view.start + view.days)
  /\ view.still /\ view.whole /\ view.phase = "shown" =>
       view.reasons \in
         Board!FailureReasons(Board!Table, view.start, view.start + view.days, TopReasons)
BoardInv ==
  /\ today \in Nat
  /\ \A e \in Board!Rows : table[e].created \in Nat /\ table[e].status \in Statuses
  /\ view # Board!Closed => ViewTypes /\ ViewReads

LEMMA BoardInit == Init => BoardInv
<1> SUFFICES ASSUME Init PROVE BoardInv
  OBVIOUS
<1>1. /\ table \in [Counted -> {Board!Absent} \cup UNION {Board!EmailOn(d) : d \in 0..1}]
      /\ today = 1 /\ view = Board!Closed
  BY DEF Init, Board!Init
<1>2. \A d \in 0..1 : \A r \in Board!EmailOn(d) : r.created \in Nat /\ r.status \in Statuses
  <2> SUFFICES ASSUME NEW d \in 0..1, NEW r \in Board!EmailOn(d)
               PROVE  r.created \in Nat /\ r.status \in Statuses
    OBVIOUS
  <2>1. r.created = d /\ r.status \in Statuses
    BY DEF Board!EmailOn, Statuses
  <2> QED BY <2>1
<1> QED BY <1>1, <1>2 DEF BoardInv, Board!Rows

\* A view whose request read something and nobody changed the table.
LEMMA BoardReads ==
  ASSUME BoardInv, view # Board!Closed, UNCHANGED <<table, today>>,
         view' = Board!Closed \/ (ViewTypes' /\ ViewReads')
  PROVE  BoardInv'
BY DEF BoardInv, Board!Rows

LEMMA BoardStep == BoardInv /\ [Board!Next]_(Board!vars) => BoardInv'
<1> SUFFICES ASSUME BoardInv, [Board!Next]_(Board!vars) PROVE BoardInv'
  OBVIOUS
<1> USE DEF Board!From, Board!To
<1>1. ASSUME NEW e \in Counted, Board!Edit(e) PROVE BoardInv'
  <2>1. PICK r \in Board!EmailOn(IF e \in Board!Rows THEN table[e].created ELSE today) :
               table' = [table EXCEPT ![e] = r]
    BY <1>1 DEF Board!Edit
  <2>2. r.created \in Nat /\ r.status \in Statuses
    BY DEF Board!EmailOn, Statuses, BoardInv
  <2>3. \A f \in Board!Rows' : table'[f].created \in Nat /\ table'[f].status \in Statuses
    BY <2>1, <2>2 DEF BoardInv, Board!Rows
  <2>4. UNCHANGED today
    BY <1>1 DEF Board!Edit
  <2>5. CASE view = Board!Closed
    BY <1>1, <2>3, <2>4, <2>5 DEF Board!Edit, BoardInv
  <2>6. CASE view # Board!Closed
    <3>1. view' = [view EXCEPT !.still = FALSE] /\ ViewTypes
      BY <1>1, <2>6 DEF Board!Edit, BoardInv
    <3>2. ViewTypes' /\ ~view'.still
      BY <3>1 DEF ViewTypes, ViewFields
    <3> QED BY <2>3, <2>4, <3>2 DEF BoardInv, ViewReads
  <2> QED BY <2>5, <2>6
<1>2. CASE Board!DayPasses
  BY <1>2 DEF Board!DayPasses, BoardInv, ViewTypes, ViewReads, Board!Rows, Board!Table,
              Board!Filled
<1>3. ASSUME NEW days \in Spans, Board!Open(days) PROVE BoardInv'
  <2>1. view' = Board!Opened(days, today - (days - 1)) /\ UNCHANGED <<table, today>>
    BY <1>3 DEF Board!Open, Board!FirstDay
  <2>2. days \in Nat
    BY AdminAssumption DEF Board!DashboardAssumption
  <2>3. ViewTypes' /\ view'.phase = "summary"
    BY <2>1, <2>2 DEF BoardInv, ViewTypes, ViewFields, Board!Opened
  <2>4. ViewReads'
    BY <2>3 DEF ViewReads
  <2> QED BY <2>1, <2>3, <2>4 DEF BoardInv, Board!Rows
<1>4. CASE Board!SummaryRead
  <2>1. view # Board!Closed /\ UNCHANGED <<table, today>> /\ ViewTypes
    BY <1>4 DEF Board!SummaryRead, Board!Reads, BoardInv
  <2>2. ASSUME view' = [view EXCEPT !.phase = "daily",
                          !.summary = Board!SummaryStats(Board!Table, Board!From, Board!To),
                          !.still = TRUE]
        PROVE  BoardInv'
    <3>1. /\ ViewTypes' /\ view'.phase = "daily" /\ view'.days = view.days
          /\ view'.start = view.start
          /\ view'.summary = Board!SummaryStats(Board!Table, view.start, view.start + view.days)
      BY <2>1, <2>2 DEF ViewTypes, ViewFields
    <3>2. Board!Table' = Board!Table
      BY <2>1 DEF Board!Table, Board!Rows
    <3>3. ViewReads'
      BY <3>1, <3>2 DEF ViewReads
    <3> QED BY <2>1, <3>1, <3>3, BoardReads
  <2>3. CASE view' = Board!Closed
    BY <2>1, <2>3, BoardReads
  <2> QED BY <1>4, <2>2, <2>3 DEF Board!SummaryRead
<1>5. CASE Board!DailyRead
  <2>1. /\ view # Board!Closed /\ view.phase = "daily" /\ UNCHANGED <<table, today>>
        /\ ViewTypes /\ ViewReads
    BY <1>5 DEF Board!DailyRead, Board!Reads, BoardInv
  <2>2. Board!Table' = Board!Table
    BY <2>1 DEF Board!Table, Board!Rows
  <2>3. CASE view' = [view EXCEPT !.phase = "domains", !.daily = Board!Filled(
                        Board!DailyVolume(Board!Table, Board!From, Board!To))]
    <3>1. /\ ViewTypes' /\ view'.phase = "domains" /\ view'.days = view.days
          /\ view'.start = view.start /\ view'.summary = view.summary
          /\ view'.still = view.still
          /\ view'.daily = Board!Filled(
               Board!DailyVolume(Board!Table, view.start, view.start + view.days))
      BY <2>1, <2>3 DEF ViewTypes, ViewFields
    <3>2. ViewReads'
      BY <2>1, <2>2, <3>1 DEF ViewReads, Board!Filled
    <3> QED BY <2>1, <3>1, <3>2, BoardReads
  <2>4. CASE view' = [view EXCEPT !.phase = "domains", !.daily = Board!Filled(<<>>),
                                  !.whole = FALSE]
    <3>1. /\ ViewTypes' /\ view'.phase = "domains" /\ view'.days = view.days
          /\ view'.start = view.start /\ view'.summary = view.summary
          /\ view'.still = view.still /\ ~view'.whole
      BY <2>1, <2>4 DEF ViewTypes, ViewFields
    <3>2. ViewReads'
      BY <2>1, <2>2, <3>1 DEF ViewReads
    <3> QED BY <2>1, <3>1, <3>2, BoardReads
  <2> QED BY <1>5, <2>3, <2>4 DEF Board!DailyRead
<1>6. CASE Board!DomainsRead
  <2>1. /\ view # Board!Closed /\ view.phase = "domains" /\ UNCHANGED <<table, today>>
        /\ ViewTypes /\ ViewReads
    BY <1>6 DEF Board!DomainsRead, Board!Reads, BoardInv
  <2>2. Board!Table' = Board!Table
    BY <2>1 DEF Board!Table, Board!Rows
  <2>3. CASE view' = [view EXCEPT !.phase = "reasons", !.domains =
                        Board!DomainVolume(Board!Table, Board!From, Board!To)]
    <3>1. /\ ViewTypes' /\ view'.phase = "reasons" /\ view'.days = view.days
          /\ view'.start = view.start /\ view'.summary = view.summary
          /\ view'.daily = view.daily /\ view'.still = view.still /\ view'.whole = view.whole
          /\ view'.domains = Board!DomainVolume(Board!Table, view.start, view.start + view.days)
      BY <2>1, <2>3 DEF ViewTypes, ViewFields
    <3>2. ViewReads'
      BY <2>1, <2>2, <3>1 DEF ViewReads, Board!Filled
    <3> QED BY <2>1, <3>1, <3>2, BoardReads
  <2>4. CASE view' = [view EXCEPT !.phase = "reasons", !.whole = FALSE]
    <3>1. /\ ViewTypes' /\ view'.phase = "reasons" /\ view'.days = view.days
          /\ view'.start = view.start /\ view'.summary = view.summary
          /\ view'.still = view.still /\ ~view'.whole
      BY <2>1, <2>4 DEF ViewTypes, ViewFields
    <3>2. ViewReads'
      BY <2>1, <2>2, <3>1 DEF ViewReads
    <3> QED BY <2>1, <3>1, <3>2, BoardReads
  <2> QED BY <1>6, <2>3, <2>4 DEF Board!DomainsRead
<1>7. CASE Board!ReasonsRead
  <2>1. /\ view # Board!Closed /\ view.phase = "reasons" /\ UNCHANGED <<table, today>>
        /\ ViewTypes /\ ViewReads
    BY <1>7 DEF Board!ReasonsRead, Board!Reads, BoardInv
  <2>2. Board!Table' = Board!Table
    BY <2>1 DEF Board!Table, Board!Rows
  <2>3. ASSUME NEW top \in Board!FailureReasons(Board!Table, Board!From, Board!To, TopReasons),
               view' = [view EXCEPT !.phase = "shown", !.reasons = top]
        PROVE  BoardInv'
    <3>1. /\ ViewTypes' /\ view'.phase = "shown" /\ view'.days = view.days
          /\ view'.start = view.start /\ view'.summary = view.summary
          /\ view'.daily = view.daily /\ view'.still = view.still /\ view'.whole = view.whole
          /\ view'.domains = view.domains /\ view'.reasons = top
      BY <2>1, <2>3 DEF ViewTypes, ViewFields
    <3>2. ViewReads'
      BY <2>1, <2>2, <2>3, <3>1 DEF ViewReads, Board!Filled
    <3> QED BY <2>1, <3>1, <3>2, BoardReads
  <2>4. CASE view' = [view EXCEPT !.phase = "shown", !.whole = FALSE]
    <3>1. /\ ViewTypes' /\ view'.phase = "shown" /\ view'.days = view.days
          /\ view'.start = view.start /\ view'.summary = view.summary
          /\ view'.still = view.still /\ ~view'.whole
      BY <2>1, <2>4 DEF ViewTypes, ViewFields
    <3>2. ViewReads'
      BY <2>1, <2>2, <3>1 DEF ViewReads
    <3> QED BY <2>1, <3>1, <3>2, BoardReads
  <2> QED BY <1>7, <2>3, <2>4 DEF Board!ReasonsRead
<1>8. CASE Board!Leave
  BY <1>8 DEF Board!Leave, Board!Reads, BoardInv, Board!Rows
<1>9. CASE UNCHANGED Board!vars
  BY <1>9 DEF Board!vars, BoardInv, ViewTypes, ViewReads, Board!Rows, Board!Table, Board!Filled
<1> QED BY <1>1, <1>2, <1>3, <1>4, <1>5, <1>6, <1>7, <1>8, <1>9 DEF Board!Next
LEMMA VerdictOf ==
  ASSUME NEW tab, NEW W, NEW field \in {"sent", "failed"}
  PROVE  Board!Verdicts(tab, W)[field] = Cardinality({e \in W : tab[e].status \in {field}})
<1>1. CASE field = "sent"
  BY <1>1, SameCardinality DEF Board!Verdicts, Board!Having
<1>2. CASE field = "failed"
  BY <1>2, SameCardinality DEF Board!Verdicts, Board!Having
<1> QED BY <1>1, <1>2

\* The counts of the reasons that are shown: no email is under two of them.
LEMMA TopAddsUp ==
  ASSUME NEW F, IsFiniteSet(F), NEW m \in Nat, NEW top, DOMAIN top = 1..m, NEW A,
         \A i \in 1..m : A[i] \in SUBSET F /\ top[i].count = Cardinality(A[i]),
         \A i, j \in 1..m : i # j => A[i] \cap A[j] = {}
  PROVE  /\ Board!Total(top, "count") \in Nat
         /\ Board!Total(top, "count") <= Cardinality(F)
<1> DEFINE U == UNION {A[i] : i \in 1..m}
<1>1. IsFiniteSet(1..m)
  BY FS_Interval
<1>2. \A e : e \in U <=> \E i \in 1..m : e \in A[i]
  OBVIOUS
<1> HIDE DEF U
<1>3. Board!Total(top, "count") = Cardinality(U)
  <2>1. PICK field : field = "count"
    OBVIOUS
  <2>2. \A i \in DOMAIN top : A[i] \in SUBSET F /\ top[i][field] = Cardinality(A[i])
    BY <2>1
  <2>3. /\ IsFiniteSet(DOMAIN top)
        /\ \A i, j \in DOMAIN top : i # j => A[i] \cap A[j] = {}
        /\ \A e : e \in U <=> \E i \in DOMAIN top : e \in A[i]
    BY <1>1, <1>2
  <2>4. Board!Total(top, field) = Cardinality(U)
    BY <2>2, <2>3, CountsAddUp
  <2> QED BY <2>1, <2>4
<1>4. U \in SUBSET F
  BY <1>2
<1> QED BY <1>3, <1>4, FS_Subset, FS_CardinalityType

LEMMA ViewAddsUp ==
  ASSUME IsFiniteSet(Counted), BoardInv, view # Board!Closed, view.phase = "shown",
         view.still, view.whole
  PROVE  Board!BarsAddUp
<1> DEFINE T == Board!Table
           from == view.start
           to == view.start + view.days
           Of(status) == {e \in Window : table[e].status \in {status}}
           dayOf == [e \in Window |-> table[e].created]
           domainOf == [e \in Window |-> table[e].domain]
<1>1. /\ view.days \in Nat /\ view.opened \in Int /\ view.start = view.opened - (view.days - 1)
      /\ view.summary = Board!SummaryStats(T, from, to)
      /\ view.daily = Board!Filled(Board!DailyVolume(T, from, to))
      /\ view.domains = Board!DomainVolume(T, from, to)
      /\ view.reasons \in Board!FailureReasons(T, from, to, TopReasons)
  BY DEF BoardInv, ViewTypes, ViewReads
<1>2. IsFiniteSet(Window) /\ Cardinality(Window) \in Nat
  BY WindowRows, FS_Subset, FS_CardinalityType DEF Board!Rows
<1>3. \A e \in Window : table[e].created \in from..(to-1) /\ table[e].status \in Statuses
  BY <1>1, WindowRows DEF BoardInv
<1>4. /\ \A e \in Window : T[e] = table[e]
      /\ Board!InRange(T, from, to) = Window
  BY WindowRows DEF Window
<1>5. ASSUME NEW s
      PROVE  Board!Having(T, Window, s) = Cardinality({e \in Window : table[e].status \in s})
  <2>1. {e \in Window : T[e].status \in s} = {e \in Window : table[e].status \in s}
    BY <1>4
  <2> QED BY <2>1, SameCardinality DEF Board!Having
<1> HIDE DEF T
<1>6. ASSUME NEW s
      PROVE  /\ {e \in Window : table[e].status \in s} \in SUBSET Window
             /\ IsFiniteSet({e \in Window : table[e].status \in s})
             /\ Cardinality({e \in Window : table[e].status \in s}) \in Nat
  BY <1>2, FS_Subset, FS_CardinalityType
<1>7. /\ view.summary.sent = Cardinality(Of("sent"))
      /\ view.summary.failed = Cardinality(Of("failed"))
      /\ view.summary.queued = Cardinality({e \in Window : table[e].status \in {"queued", "sending"}})
      /\ view.summary.canceled = Cardinality(Of("canceled"))
      /\ view.summary.total = Cardinality(Window)
      /\ view.summary.rated = view.summary.total - view.summary.canceled
  BY <1>1, <1>4, <1>5, SameCardinality DEF Board!SummaryStats
<1>8. view.summary.total =
        Board!Cardinality({e \in Board!Rows : view.opened - table[e].created \in 0..view.days - 1})
  <2>1. \A e \in Board!Rows : table[e].created \in Nat
    BY DEF BoardInv
  <2>2. {e \in Board!Rows : view.opened - table[e].created \in 0..view.days - 1} = Window
    BY <1>1, <2>1, WindowRows
  <2> QED BY <1>7, <2>2, SameCardinality
<1>9. DOMAIN view.daily = view.opened - view.days + 1 .. view.opened
  BY <1>1 DEF Board!Filled, Board!From, Board!To
<1>10. view.summary.rated = view.summary.sent + view.summary.failed + view.summary.queued
  <2> DEFINE A == Of("sent")
             B == Of("failed")
             C == {e \in Window : table[e].status \in {"queued", "sending"}}
             D == Of("canceled")
  <2>1. Window = ((A \cup B) \cup C) \cup D
    BY <1>3 DEF Statuses
  <2>2. A \cap B = {} /\ (A \cup B) \cap C = {} /\ ((A \cup B) \cup C) \cap D = {}
    OBVIOUS
  <2>3. /\ IsFiniteSet(A) /\ IsFiniteSet(B) /\ IsFiniteSet(C) /\ IsFiniteSet(D)
        /\ Cardinality(A) \in Nat /\ Cardinality(B) \in Nat
        /\ Cardinality(C) \in Nat /\ Cardinality(D) \in Nat
    BY <1>6
  <2> HIDE DEF A, B, C, D
  <2>4. ASSUME NEW X, NEW Y, IsFiniteSet(X), IsFiniteSet(Y), X \cap Y = {}
        PROVE  /\ IsFiniteSet(X \cup Y)
               /\ Cardinality(X \cup Y) = Cardinality(X) + Cardinality(Y)
    <3>1. /\ Cardinality(X \cap Y) = 0
          /\ Cardinality(X) \in Nat /\ Cardinality(Y) \in Nat
      BY <2>4, FS_EmptySet, FS_CardinalityType
    <3>2. /\ IsFiniteSet(X \cup Y)
          /\ Cardinality(X \cup Y) = Cardinality(X) + Cardinality(Y) - Cardinality(X \cap Y)
      BY <2>4, FS_Union
    <3> QED BY <3>1, <3>2
  <2>5. /\ IsFiniteSet(A \cup B)
        /\ Cardinality(A \cup B) = Cardinality(A) + Cardinality(B)
    BY <2>2, <2>3, <2>4
  <2>6. /\ IsFiniteSet((A \cup B) \cup C)
        /\ Cardinality((A \cup B) \cup C) = Cardinality(A \cup B) + Cardinality(C)
    BY <2>2, <2>3, <2>4, <2>5
  <2>7. Cardinality(Window) = Cardinality((A \cup B) \cup C) + Cardinality(D)
    BY <2>1, <2>2, <2>3, <2>4, <2>6
  <2> QED BY <1>7, <2>3, <2>5, <2>6, <2>7 DEF A, B, C, D
<1>11. view.summary.total = view.summary.rated + view.summary.canceled
  <2>1. Cardinality(Of("canceled")) \in Nat
    BY <1>6
  <2> HIDE DEF Of
  <2> QED BY <1>2, <1>7, <2>1
<1>12. ASSUME NEW field \in {"sent", "failed"}
       PROVE  Board!Total(view.daily, field) = view.summary[field]
  <2> DEFINE D == from..(to-1)
             A == [day \in D |-> {e \in Window : table[e].created = day
                                               /\ table[e].status \in {field}}]
  <2>1. DOMAIN view.daily = D /\ IsFiniteSet(D)
    BY <1>1, FS_Interval DEF Board!Filled, Board!From, Board!To
  <2>2. ASSUME NEW day \in D
        PROVE  A[day] \in SUBSET Of(field) /\ view.daily[day][field] = Cardinality(A[day])
    <3> DEFINE E == {e \in Window : T[e].created = day}
    <3>1. A[day] = {e \in E : T[e].status \in {field}} /\ A[day] \in SUBSET Of(field)
      BY <1>4
    <3>2. CASE day \in {T[e].created : e \in Window}
      <4>1. view.daily[day] = Board!Verdicts(T, E)
        BY <1>1, <1>4, <3>2 DEF Board!Filled, Board!DailyVolume, Board!From, Board!To
      <4>2. Board!Verdicts(T, E)[field] = Cardinality({e \in E : T[e].status \in {field}})
        BY VerdictOf
      <4> HIDE DEF E, A
      <4> QED BY <3>1, <4>1, <4>2
    <3>3. CASE day \notin {T[e].created : e \in Window}
      <4>1. view.daily[day] = [sent |-> 0, failed |-> 0]
        BY <1>1, <1>4, <3>3 DEF Board!Filled, Board!DailyVolume, Board!From, Board!To
      <4>2. A[day] = {}
        BY <3>1, <3>3
      <4>3. view.daily[day][field] = 0
        BY <4>1
      <4> HIDE DEF A
      <4> QED BY <3>1, <4>2, <4>3, FS_EmptySet
    <3> QED BY <3>2, <3>3
  <2>3. \A x, y \in D : x # y => A[x] \cap A[y] = {}
    OBVIOUS
  <2>4. \A e : e \in Of(field) <=> \E x \in D : e \in A[x]
    <3>1. \A e \in Of(field) : table[e].created \in D /\ e \in A[table[e].created]
      BY <1>3
    <3>2. \A x \in D : A[x] \subseteq Of(field)
      OBVIOUS
    <3> HIDE DEF A, D, Of
    <3> QED BY <3>1, <3>2
  <2>5. IsFiniteSet(Of(field))
    BY <1>6
  <2>6. view.summary[field] = Cardinality(Of(field))
    BY <1>7
  <2> HIDE DEF A, D, Of
  <2> QED BY <2>1, <2>2, <2>3, <2>4, <2>5, <2>6, CountsAddUp
<1>13. ASSUME NEW field \in {"sent", "failed"}
       PROVE  Board!Total(view.domains, field) = view.summary[field]
  <2> DEFINE D == {T[e].domain : e \in Window}
             A == [d \in D |-> {e \in Window : T[e].domain = d /\ T[e].status \in {field}}]
  <2>1. DOMAIN view.domains = D /\ IsFiniteSet(D)
    <3>1. DOMAIN view.domains = D
      BY <1>1, <1>4 DEF Board!DomainVolume
    <3>2. D = {domainOf[e] : e \in Window}
      BY <1>4
    <3>3. IsFiniteSet({domainOf[e] : e \in Window})
      <4> HIDE DEF domainOf
      <4> QED BY <1>2, FiniteImage
    <3> QED BY <3>1, <3>2, <3>3
  <2>2. ASSUME NEW d \in D
        PROVE  A[d] \in SUBSET Of(field) /\ view.domains[d][field] = Cardinality(A[d])
    <3> DEFINE E == {e \in Window : T[e].domain = d}
    <3>1. A[d] = {e \in E : T[e].status \in {field}} /\ A[d] \in SUBSET Of(field)
      BY <1>4
    <3>2. view.domains[d] = Board!Verdicts(T, E)
      BY <1>1, <1>4 DEF Board!DomainVolume
    <3>3. Board!Verdicts(T, E)[field] = Cardinality({e \in E : T[e].status \in {field}})
      BY VerdictOf
    <3> HIDE DEF E, A
    <3> QED BY <3>1, <3>2, <3>3
  <2>3. \A x, y \in D : x # y => A[x] \cap A[y] = {}
    OBVIOUS
  <2>4. \A e : e \in Of(field) <=> \E x \in D : e \in A[x]
    <3>1. \A e \in Of(field) : T[e].domain \in D /\ e \in A[T[e].domain]
      BY <1>4
    <3>2. \A x \in D : A[x] \subseteq Of(field)
      BY <1>4
    <3> HIDE DEF A, D, Of
    <3> QED BY <3>1, <3>2
  <2>5. IsFiniteSet(Of(field))
    BY <1>6
  <2>6. view.summary[field] = Cardinality(Of(field))
    BY <1>7
  <2> HIDE DEF A, D, Of
  <2> QED BY <2>1, <2>2, <2>3, <2>4, <2>5, <2>6, CountsAddUp
<1>14. Board!FoldFunction(LAMBDA top, sum : top.count + sum, 0, view.reasons)
         <= view.summary.failed
  <2> DEFINE F == {e \in Board!InRange(T, from, to) :
                     T[e].status = "failed" /\ T[e].reason # ""}
             R == {T[e].reason : e \in F}
             reason == [e \in F |-> T[e].reason]
             count == [r \in R |-> Board!Cardinality({e \in F : T[e].reason = r})]
  <2>1. F \in SUBSET Of("failed")
    BY <1>4
  <2>2. IsFiniteSet(F) /\ Cardinality(F) <= view.summary.failed
    <3>1. IsFiniteSet(Of("failed"))
      BY <1>6
    <3> HIDE DEF F, Of
    <3> QED BY <1>7, <2>1, <3>1, FS_Subset
  <2>3. IsFiniteSet(R)
    <3>1. R = {reason[e] : e \in F}
      OBVIOUS
    <3> HIDE DEF F, R, reason
    <3> QED BY <2>2, <3>1, FiniteImage
  <2>4. PICK s \in Board!SetToSeqs(R) :
          view.reasons = [i \in 1..(IF Len(s) < TopReasons THEN Len(s) ELSE TopReasons) |->
                            [reason |-> s[i], count |-> count[s[i]]]]
    <3>1. DOMAIN count = R
      OBVIOUS
    <3>2. PICK s \in {s \in Board!SetToSeqs(DOMAIN count) :
                       \A i, j \in DOMAIN s : i < j => count[s[i]] >= count[s[j]]} :
            view.reasons = [i \in 1..(IF Len(s) < TopReasons THEN Len(s) ELSE TopReasons) |->
                              [reason |-> s[i], count |-> count[s[i]]]]
      BY <1>1, Zenon DEF Board!FailureReasons
    <3> HIDE DEF count, R
    <3> QED BY <3>1, <3>2
  <2> DEFINE E == [r \in R |-> {e \in F : T[e].reason = r}]
  <2>5. /\ \A r \in R : E[r] \in SUBSET F /\ count[r] = Cardinality(E[r])
        /\ \A q, r \in R : q # r => E[q] \cap E[r] = {}
    <3> HIDE DEF F, R
    <3> QED BY SameCardinality
  <2>6. TopReasons \in Nat
    BY AdminAssumption DEF Board!DashboardAssumption
  <2> HIDE DEF F, R, E, reason, count
  <2>7. /\ Board!Total(view.reasons, "count") \in Nat
        /\ Board!Total(view.reasons, "count") <= Cardinality(F)
    <3>1. /\ Cardinality(R) \in Nat
          /\ s \in [1..Cardinality(R) -> R]
          /\ \A i, j \in 1..Cardinality(R) : i # j => s[i] # s[j]
      BY <2>3, <2>4, FS_CardinalityType, SameCardinality DEF Board!SetToSeqs
    <3>2. Len(s) = Cardinality(R)
      BY <3>1
    <3>3. PICK m \in 0..Len(s) :
            view.reasons = [i \in 1..m |-> [reason |-> s[i], count |-> count[s[i]]]]
      <4>1. (IF Len(s) < TopReasons THEN Len(s) ELSE TopReasons) \in 0..Len(s)
        BY <2>6, <3>1, <3>2
      <4> QED BY <2>4, <4>1
    <3>4. m \in Nat /\ \A i \in 1..m : i \in 1..Cardinality(R) /\ s[i] \in R
      BY <3>1, <3>2
    <3> DEFINE A == [i \in 1..m |-> E[s[i]]]
    <3>5. /\ DOMAIN view.reasons = 1..m
          /\ \A i \in 1..m : A[i] \in SUBSET F /\ view.reasons[i].count = Cardinality(A[i])
      BY <2>5, <3>3, <3>4
    <3>6. \A i, j \in 1..m : i # j => A[i] \cap A[j] = {}
      BY <2>5, <3>1, <3>4
    <3> HIDE DEF A
    <3> QED BY <2>2, <3>4, <3>5, <3>6, TopAddsUp
  <2>8. Cardinality(F) \in Nat /\ view.summary.failed \in Nat
    BY <1>6, <1>7, <2>2, FS_CardinalityType
  <2>9. Board!Total(view.reasons, "count") <= view.summary.failed
    BY <2>2, <2>7, <2>8
  <2> QED BY <2>9 DEF Board!Total
<1> QED
  BY <1>8, <1>9, <1>10, <1>11, <1>12, <1>13, <1>14 DEF Board!BarsAddUp
\* For any finite number of emails, any domains and reasons and any span: the
\* bars of the days and those of the domains add up to the headline, and the
\* reasons shown to no more than its failures, unless the table changed between
\* the queries or one of them failed.
THEOREM DashboardAddsUp ==
  ASSUME IsFiniteSet(Counted)
  PROVE  Spec => []BarsAddUp
<1>1. BoardInv /\ [Next]_vars => BoardInv'
  BY FollowsPages, BoardStep
<1>2. BoardInv => Board!BarsAddUp
  BY ViewAddsUp DEF Board!BarsAddUp
<1> QED BY BoardInit, <1>1, <1>2, PTL DEF Spec, BarsAddUp
-----------------------------------------------------------------------------
(* The walk over the pages of a list.                                       *)

\* An email's place in the list of a set of emails, newest first: how many of
\* the set are newer.
Before(S, id) == Cardinality({j \in S : j > id})

LEMMA Places ==
  ASSUME NEW S \in SUBSET Nat, IsFiniteSet(S)
  PROVE  /\ \A i \in S : Before(S, i) \in Nat /\ Before(S, i) < Cardinality(S)
         /\ \A i, j \in S : i > j => Before(S, i) < Before(S, j)
<1>1. ASSUME NEW i \in S
      PROVE  /\ IsFiniteSet({j \in S : j > i}) /\ Before(S, i) \in Nat
             /\ Before(S, i) < Cardinality(S)
  <2> DEFINE A == {j \in S : j > i}
  <2>1. A \in SUBSET S /\ A # S
    BY <1>1
  <2> HIDE DEF A
  <2>2. IsFiniteSet(A) /\ Cardinality(A) <= Cardinality(S) /\ Cardinality(S) # Cardinality(A)
    BY <2>1, FS_Subset
  <2>3. Cardinality(A) \in Nat /\ Cardinality(S) \in Nat
    BY <2>2, FS_CardinalityType
  <2>4. Cardinality(A) < Cardinality(S)
    BY <2>2, <2>3
  <2> QED BY <2>2, <2>3, <2>4 DEF A, Before
<1>2. ASSUME NEW i \in S, NEW j \in S, i > j
      PROVE  Before(S, i) < Before(S, j)
  <2> DEFINE A == {k \in S : k > i}
             B == {k \in S : k > j}
  <2>1. A \in SUBSET B /\ A # B
    <3>1. \A k \in S : k > i => k > j
      BY <1>2
    <3>2. i \in B /\ i \notin A
      BY <1>2
    <3> QED BY <3>1, <3>2
  <2>2. IsFiniteSet(B)
    BY <1>1
  <2>3. Cardinality(A) = Before(S, i) /\ Cardinality(B) = Before(S, j)
    BY DEF Before
  <2> HIDE DEF A, B
  <2>4. Cardinality(A) \in Nat /\ Cardinality(B) \in Nat /\ Cardinality(A) < Cardinality(B)
    BY <2>1, <2>2, FS_Subset, FS_CardinalityType
  <2> QED BY <2>3, <2>4
<1> QED BY <1>1, <1>2

\* A set of emails has an order, newest first.
Descending(s) == \A i, j \in DOMAIN s : i < j => s[i] > s[j]

LEMMA OrderExists ==
  ASSUME NEW S \in SUBSET Nat, IsFiniteSet(S)
  PROVE  \E s \in [1..Cardinality(S) -> S] : Descending(s)
<1> DEFINE N == Cardinality(S)
           place == [id \in S |-> Before(S, id) + 1]
<1>1. N \in Nat /\ IsFiniteSet(1..N) /\ Cardinality(1..N) = N
  BY FS_CardinalityType, FS_Interval
<1>2. \A i, j \in S : i > j => place[i] < place[j]
  BY Places
<1>3. place \in [S -> 1..N]
  BY <1>1, Places
<1>4. \A i, j \in S : place[i] = place[j] => i = j
  <2> SUFFICES ASSUME NEW i \in S, NEW j \in S, place[i] = place[j], i # j PROVE FALSE
    OBVIOUS
  <2>1. i > j \/ j > i
    OBVIOUS
  <2>2. place[i] \in Nat /\ place[j] \in Nat
    BY <1>3
  <2> HIDE DEF place
  <2> QED BY <1>2, <2>1, <2>2
<1> HIDE DEF place, N
<1>5. place \in Injection(S, 1..N)
  BY <1>3, <1>4 DEF Injection, IsInjective
<1>6. place \in Surjection(S, 1..N)
  BY <1>1, <1>5, FS_Injection DEF N
<1> DEFINE s == [k \in 1..N |-> CHOOSE id \in S : place[id] = k]
<1>7. \A k \in 1..N : s[k] \in S /\ place[s[k]] = k
  BY <1>6 DEF Surjection
<1>8. s \in [1..N -> S]
  BY <1>7
<1> HIDE DEF s
<1>9. ASSUME NEW i \in 1..N, NEW j \in 1..N, i < j PROVE s[i] > s[j]
  <2>1. s[i] \in S /\ s[j] \in S /\ place[s[i]] = i /\ place[s[j]] = j
    BY <1>7
  <2>2. s[i] \in S /\ s[j] \in S /\ s[i] # s[j]
    <3>1. i # j
      BY <1>1, <1>9
    <3> QED BY <2>1, <3>1
  <2>3. ~(s[j] > s[i])
    <3>1. ~(j < i)
      BY <1>1, <1>9
    <3> QED BY <1>2, <2>1, <3>1
  <2>4. s[i] \in Nat /\ s[j] \in Nat
    BY <2>2
  <2> QED BY <2>2, <2>3, <2>4
<1> QED BY <1>8, <1>9 DEF Descending, N

\* In such an order everyone has its place.
LEMMA OrderedPlaces ==
  ASSUME NEW S \in SUBSET Nat, IsFiniteSet(S),
         NEW s \in [1..Cardinality(S) -> S], Descending(s)
  PROVE  \A id \in S : s[Before(S, id) + 1] = id
<1> DEFINE N == Cardinality(S)
<1>1. N \in Nat /\ IsFiniteSet(1..N) /\ Cardinality(1..N) = N
  BY FS_CardinalityType, FS_Interval
<1>2. \A i, j \in 1..N : i < j => s[i] > s[j]
  BY DEF Descending
<1>3. \A i, j \in 1..N : s[i] = s[j] => i = j
  <2> SUFFICES ASSUME NEW i \in 1..N, NEW j \in 1..N, s[i] = s[j], i # j PROVE FALSE
    OBVIOUS
  <2>1. s[i] \in S /\ s[j] \in S /\ (i < j \/ j < i)
    <3>1. i < j \/ j < i
      BY <1>1
    <3> QED BY <3>1
  <2>2. s[i] \in Nat /\ s[j] \in Nat
    BY <2>1
  <2>3. s[i] > s[j] \/ s[j] > s[i]
    BY <1>2, <2>1
  <2> QED BY <2>2, <2>3
<1>4. s \in Injection(1..N, S)
  BY <1>3 DEF Injection, IsInjective
<1>5. s \in Surjection(1..N, S)
  BY <1>1, <1>4, FS_Injection
<1>6. ASSUME NEW k \in 1..N PROVE Before(S, s[k]) = k - 1
  <2> DEFINE A == {j \in S : j > s[k]}
             K == 1..(k - 1)
             f == [i \in K |-> s[i]]
  <2>1. \A i \in K : i \in 1..N /\ i < k
    BY <1>1
  <2>2. \A i \in K : f[i] \in A
    BY <1>2, <2>1
  <2>3. \A i, j \in K : f[i] = f[j] => i = j
    BY <1>3, <2>1
  <2>4. \A id \in A : \E i \in K : f[i] = id
    <3> SUFFICES ASSUME NEW id \in A PROVE \E i \in K : s[i] = id
      OBVIOUS
    <3>1. PICK i \in 1..N : s[i] = id
      BY <1>5 DEF Surjection
    <3>2. s[i] \in Nat /\ s[k] \in Nat /\ s[i] > s[k]
      BY <3>1
    <3>3. ~(k < i) /\ i # k
      BY <1>2, <3>2
    <3>4. i \in K
      BY <1>1, <3>3
    <3> QED BY <3>1, <3>4
  <2>5. IsFiniteSet(K) /\ Cardinality(K) = k - 1
    <3>1. 1 \in Int /\ k - 1 \in Int /\ (1 > k - 1 => k - 1 = 0) /\ (k - 1) - 1 + 1 = k - 1
      BY <1>1
    <3> QED BY <3>1, FS_Interval
  <2>6. f \in [K -> A]
    BY <2>2
  <2> HIDE DEF f, K, A
  <2>7. f \in Bijection(K, A)
    BY <2>3, <2>4, <2>6 DEF Bijection, Injection, Surjection, IsInjective
  <2>8. Cardinality(A) = k - 1
    BY <2>5, <2>7, FS_Bijection DEF ExistsBijection
  <2> QED BY <2>8 DEF A, Before
<1> SUFFICES ASSUME NEW id \in S PROVE s[Before(S, id) + 1] = id
  OBVIOUS
<1>7. PICK k \in 1..N : s[k] = id
  BY <1>5 DEF Surjection
<1>8. Before(S, id) + 1 = k
  BY <1>1, <1>6, <1>7
<1> QED BY <1>7, <1>8

\* Emails are appended with the time of their creation, so a later id is newer.
ListInv ==
  /\ listed \in Seq([created: Nat, status: ListPage!Statuses]) /\ now \in Nat
  /\ \A i \in DOMAIN listed : listed[i].created <= now
  /\ \A i, j \in DOMAIN listed : i < j => listed[i].created <= listed[j].created

LEMMA ListedTypes ==
  ASSUME ListInv
  PROVE  /\ DOMAIN listed = 1..Len(listed) /\ Len(listed) \in Nat
         /\ \A i \in DOMAIN listed : /\ i \in Nat /\ listed[i].created \in Nat
                                     /\ listed[i].status \in ListPage!Statuses
<1> DEFINE R == [created: Nat, status: ListPage!Statuses]
<1>1. \A r \in R : r.created \in Nat /\ r.status \in ListPage!Statuses
  OBVIOUS
<1>2. listed \in Seq(R)
  BY DEF ListInv
<1> HIDE DEF R
<1>3. DOMAIN listed = 1..Len(listed) /\ Len(listed) \in Nat
  BY <1>2
<1>4. \A i \in DOMAIN listed : i \in Nat /\ listed[i] \in R
  BY <1>2, <1>3
<1> QED BY <1>1, <1>3, <1>4

LEMMA LaterIsNewer ==
  ASSUME ListInv
  PROVE  \A i, j \in DOMAIN listed : ListPage!Newer(i, j) <=> i > j
<1> SUFFICES ASSUME NEW i \in DOMAIN listed, NEW j \in DOMAIN listed
             PROVE  ListPage!Newer(i, j) <=> i > j
  OBVIOUS
<1>1. /\ i \in Nat /\ listed[i].created \in Nat /\ j \in Nat /\ listed[j].created \in Nat
  BY ListedTypes
<1>2. /\ i < j => listed[i].created <= listed[j].created
      /\ j < i => listed[j].created <= listed[i].created
  BY DEF ListInv
<1>3. i = j => listed[i].created = listed[j].created
  OBVIOUS
<1> QED BY <1>1, <1>2, <1>3 DEF ListPage!Newer

\* What ORDER BY makes of any set of rows.
LEMMA OrderedRows ==
  ASSUME ListInv, NEW S \in SUBSET DOMAIN listed
  PROVE  /\ IsFiniteSet(S) /\ Cardinality(S) \in Nat
         /\ ListPage!Ordered(S) \in [1..Cardinality(S) -> S]
         /\ \A id \in S : ListPage!Ordered(S)[Before(S, id) + 1] = id
<1>1. S \in SUBSET Nat /\ IsFiniteSet(S) /\ Cardinality(S) \in Nat
  <2>1. IsFiniteSet(DOMAIN listed)
    BY ListedTypes, FS_Interval
  <2> QED BY <2>1, ListedTypes, FS_Subset, FS_CardinalityType
<1> DEFINE N == Cardinality(S)
           Newest(s) == \A i, j \in DOMAIN s : i < j => ListPage!Newer(s[i], s[j])
<1>2. \A s \in [1..N -> S] : Newest(s) <=> Descending(s)
  <2> SUFFICES ASSUME NEW s \in [1..N -> S] PROVE Newest(s) <=> Descending(s)
    OBVIOUS
  <2>1. \A i, j \in DOMAIN s : ListPage!Newer(s[i], s[j]) <=> s[i] > s[j]
    BY LaterIsNewer
  <2> QED BY <2>1 DEF Descending
<1>3. ListPage!SetToSeqs(S) = {f \in [1..N -> S] : \A i, j \in 1..N : i # j => f[i] # f[j]}
  <2>1. ListPage!Cardinality(S) = N
    BY DEF ListPage!Cardinality, Cardinality
  <2> QED BY <2>1 DEF ListPage!SetToSeqs
<1>4. \A s \in [1..N -> S] : Descending(s) => s \in ListPage!SetToSeqs(S)
  <2> SUFFICES ASSUME NEW s \in [1..N -> S], Descending(s),
                      NEW i \in 1..N, NEW j \in 1..N, i # j
               PROVE  s[i] # s[j]
    BY <1>3
  <2>1. s[i] \in Nat /\ s[j] \in Nat
    BY <1>1
  <2>2. i < j \/ j < i
    BY <1>1
  <2>3. s[i] > s[j] \/ s[j] > s[i]
    BY <2>2 DEF Descending
  <2> QED BY <2>1, <2>3
<1>5. \E s \in ListPage!SetToSeqs(S) : Newest(s)
  <2>1. PICK s \in [1..N -> S] : Descending(s)
    BY <1>1, OrderExists
  <2> QED BY <1>2, <1>4, <2>1
<1>6. ListPage!Ordered(S) \in ListPage!SetToSeqs(S) /\ Newest(ListPage!Ordered(S))
  BY <1>5 DEF ListPage!Ordered
<1>7. ListPage!Ordered(S) \in [1..N -> S] /\ Descending(ListPage!Ordered(S))
  BY <1>2, <1>3, <1>6
<1> QED BY <1>1, <1>7, OrderedPlaces

\* What a page shows of the emails it lists, and when it links to a next one.
Listable(q) == {id \in DOMAIN listed : ListPage!Matches(q, id)}

LEMMA PageShows ==
  ASSUME ListInv, NEW q, NEW off \in Nat, off = (q.page - 1) * PageSize,
         NEW id \in Listable(q), off <= Before(Listable(q), id)
  PROVE  IF Before(Listable(q), id) < off + PageSize
         THEN id \in ListPage!Shown(q) ELSE ListPage!HasNext(q)
<1> DEFINE S == Listable(q)
           N == Cardinality(S)
           all == ListPage!Ordered(S)
           b == Before(S, id)
           last == ListPage!Min({off + (PageSize + 1), N})
           f == SubSeq(all, off + 1, last)
<1>1. S \in SUBSET DOMAIN listed
  BY DEF Listable
<1>2. /\ IsFiniteSet(S) /\ N \in Nat /\ all \in [1..N -> S] /\ all[b + 1] = id
      /\ S \in SUBSET Nat
  BY <1>1, OrderedRows, ListedTypes
<1>3. b \in Nat /\ b < N
  BY <1>2, Places
<1>4. PageSize \in Nat \ {0}
  BY AdminAssumption DEF ListPage!ListingAssumption
<1>5. ListPage!Fetched(q) = f
  <2>1. Len(all) = N
    BY <1>2
  <2>2. S = {i \in DOMAIN listed : ListPage!Matches(q, i)}
    BY DEF Listable
  <2> HIDE DEF S
  <2> QED BY <2>1, <2>2 DEF ListPage!Fetched, ListPage!ListEmails
<1> HIDE DEF S, N, all, b
<1>6. last = IF off + (PageSize + 1) <= N THEN off + (PageSize + 1) ELSE N
  BY <1>2, <1>4 DEF ListPage!Min
<1> HIDE DEF last, f
<1>7. /\ f \in Seq(S) /\ Len(f) = IF off + 1 <= last THEN last - off ELSE 0
      /\ \A k \in 1..(last - off) : f[k] = all[off + k]
  <2>1. off + 1 \in Int /\ last \in Int /\ \A i \in (off + 1)..last : i \in 1..N
    BY <1>2, <1>4, <1>6
  <2>2. \A i \in (off + 1)..last : all[i] \in S
    BY <1>2, <2>1
  <2>3. /\ f \in Seq(S)
        /\ Len(f) = IF off + 1 <= last THEN last - (off + 1) + 1 ELSE 0
        /\ \A k \in 1..(last - (off + 1) + 1) : f[k] = all[off + 1 + k - 1]
    BY <2>1, <2>2, SubSeqProperties DEF f
  <2>4. last - (off + 1) + 1 = last - off
    BY <2>1
  <2>5. ASSUME NEW k \in 1..(last - off) PROVE f[k] = all[off + k]
    <3>1. off + 1 + k - 1 = off + k
      OBVIOUS
    <3>2. f[k] = all[off + 1 + k - 1]
      BY <2>3, <2>4
    <3> QED BY <3>1, <3>2
  <2> QED BY <2>3, <2>4, <2>5
<1>8. DOMAIN f = 1..Len(f)
  BY <1>7
<1>9. off <= b
  BY DEF b, S
<1>10. ASSUME b < off + PageSize PROVE id \in ListPage!Shown(q)
  <2>1. PICK k \in Nat : k = (b - off) + 1
    BY <1>3, <1>9
  <2>2. k \in 1..PageSize /\ off + k = b + 1
    BY <1>3, <1>4, <1>9, <1>10, <2>1
  <2>3. last \in Nat /\ b + 1 <= last
    BY <1>2, <1>3, <1>4, <1>6, <1>10
  <2>4. k \in 1..(last - off) /\ Len(f) = last - off
    BY <1>3, <1>7, <1>9, <2>1, <2>3
  <2>5. f[k] = id
    BY <1>2, <1>7, <2>2, <2>4
  <2>6. k \in DOMAIN f
    BY <1>8, <2>4
  <2> QED BY <1>5, <2>2, <2>5, <2>6 DEF ListPage!Shown
<1>11. ASSUME ~(b < off + PageSize) PROVE ListPage!HasNext(q)
  BY <1>2, <1>3, <1>4, <1>5, <1>6, <1>7, <1>9, <1>11 DEF ListPage!HasNext
<1> QED BY <1>10, <1>11 DEF b, S

\* The request of a link to page p of a walk: the window of its first page.
Resolved(q, p) ==
  [status |-> q.status,
   range |-> IF q.from # ListPage!NoDate \/ q.to # ListPage!NoDate THEN "custom"
             ELSE IF q.range = "custom" THEN DefaultRange ELSE q.range,
   from |-> q.from, to |-> q.to, page |-> p]

LEMMA QueryTypes ==
  ASSUME NEW q \in ListPage!Query
  PROVE  /\ q.range \in DOMAIN RangeDays \cup {"custom"} /\ q.page = 1
         /\ q.from \in Nat \cup {-1} /\ q.to \in Nat \cup {-1}
         /\ DefaultRange \in DOMAIN RangeDays /\ \A r \in DOMAIN RangeDays : RangeDays[r] \in Nat
         /\ "custom" \notin DOMAIN RangeDays
BY AdminAssumption DEF ListPage!ListingAssumption, ListPage!Query, ListPage!NoDate

\* Every link of a walk resolves to the window of its first page.
LEMMA SameWindow ==
  ASSUME NEW q \in ListPage!Query, NEW p
  PROVE  /\ ListPage!Window(Resolved(q, p)) = ListPage!Window(q)
         /\ ListPage!Window(q).range = Resolved(q, p).range
         /\ ListPage!Window(q).from = q.from /\ ListPage!Window(q).to = q.to
<1>1. /\ Resolved(q, p).from = q.from /\ Resolved(q, p).to = q.to
      /\ Resolved(q, p).range =
           IF q.from # -1 \/ q.to # -1 THEN "custom"
           ELSE IF q.range = "custom" THEN DefaultRange ELSE q.range
  BY DEF Resolved, ListPage!NoDate
<1>2. CASE q.from # -1 \/ q.to # -1
  BY <1>1, <1>2 DEF ListPage!Window, ListPage!DatesWindow, ListPage!NoDate
<1>3. CASE ~(q.from # -1 \/ q.to # -1)
  BY <1>1, <1>3, QueryTypes DEF ListPage!Window, ListPage!PresetWindow, ListPage!NoDate
<1> QED BY <1>2, <1>3

LEMMA LinksResolve ==
  ASSUME NEW q \in ListPage!Query, NEW p, NEW r
  PROVE  /\ ListPage!Link(q, p) = Resolved(q, p)
         /\ ListPage!Link(Resolved(q, r), p) = Resolved(q, p)
<1>1. /\ Resolved(q, r).status = q.status /\ Resolved(q, p).range = Resolved(q, r).range
      /\ Resolved(q, p) = [status |-> q.status, range |-> Resolved(q, p).range,
                           from |-> q.from, to |-> q.to, page |-> p]
  BY DEF Resolved
<1>2. /\ ListPage!Window(Resolved(q, r)) = ListPage!Window(q)
      /\ ListPage!Window(q).range = Resolved(q, p).range
      /\ ListPage!Window(q).from = q.from /\ ListPage!Window(q).to = q.to
  BY SameWindow
<1> QED BY <1>1, <1>2 DEF ListPage!Link

\* Every page of a walk lists what the operator asked for, as of its moment.
LEMMA ListsWhatIsWanted ==
  ASSUME ListInv, NEW q \in ListPage!Query, NEW p
  PROVE  /\ Listable(q) = ListPage!Wanted(q, now)
         /\ Listable(Resolved(q, p)) = ListPage!Wanted(q, now)
<1>1. ASSUME NEW id \in DOMAIN listed
      PROVE  ListPage!Matches(q, id) <=> id \in ListPage!Wanted(q, now)
  <2> DEFINE c == listed[id].created
             w == ListPage!Window(q)
             r == IF q.range = "custom" THEN DefaultRange ELSE q.range
             days == RangeDays[r]
  <2>1. c \in Nat /\ now \in Nat
    BY ListedTypes DEF ListInv
  <2>2. days \in Nat /\ q.from \in Nat \cup {-1} /\ q.to \in Nat \cup {-1}
    BY QueryTypes
  <2>3. CASE q.from = -1 /\ q.to = -1
    <3>1. /\ w.createdFrom = IF days = 0 THEN -1 ELSE now - 2 * days
          /\ w.createdTo = -1
      BY <2>3, QueryTypes DEF ListPage!Window, ListPage!PresetWindow, ListPage!NoDate,
                              ListPage!Unbounded, ListPage!Start
    <3>2. id \in ListPage!Wanted(q, now) <=>
            /\ q.status \in {ListPage!AnyStatus, listed[id].status}
            /\ days = 0 \/ now - c <= 2 * days
      BY <2>3 DEF ListPage!Wanted, ListPage!NoDate
    <3>3. (c >= w.createdFrom) <=> (days = 0 \/ now - c <= 2 * days)
      <4> HIDE DEF c, w, days
      <4> QED BY <2>1, <2>2, <3>1
    <3> QED BY <3>1, <3>2, <3>3 DEF ListPage!Matches, ListPage!Unbounded
  <2>4. CASE ~(q.from = -1 /\ q.to = -1)
    <3>1. /\ w.createdFrom = IF q.from = -1 THEN -1 ELSE 2 * q.from
          /\ w.createdTo = IF q.to = -1 THEN -1 ELSE 2 * (q.to + 1)
      BY <2>4 DEF ListPage!Window, ListPage!DatesWindow, ListPage!NoDate,
                  ListPage!Unbounded, ListPage!Start
    <3>2. id \in ListPage!Wanted(q, now) <=>
            /\ q.status \in {ListPage!AnyStatus, listed[id].status}
            /\ q.from = -1 \/ q.from <= c \div 2
            /\ q.to = -1 \/ c \div 2 <= q.to
      BY <2>4 DEF ListPage!Wanted, ListPage!NoDate
    <3> HIDE DEF c, w
    <3>3. (c >= w.createdFrom) <=> (q.from = -1 \/ q.from <= c \div 2)
      BY <2>1, <2>2, <3>1
    <3>4. (w.createdTo = -1 \/ c < w.createdTo) <=> (q.to = -1 \/ c \div 2 <= q.to)
      BY <2>1, <2>2, <3>1
    <3> QED BY <3>2, <3>3, <3>4 DEF c, w, ListPage!Matches, ListPage!Unbounded
  <2> QED BY <2>3, <2>4
<1>2. \A id \in DOMAIN listed :
        ListPage!Matches(Resolved(q, p), id) <=> ListPage!Matches(q, id)
  <2>1. Resolved(q, p).status = q.status
    BY DEF Resolved
  <2> QED BY <2>1, SameWindow DEF ListPage!Matches
<1>3. ListPage!Wanted(q, now) \subseteq DOMAIN listed
  BY DEF ListPage!Wanted
<1> QED BY <1>1, <1>2, <1>3 DEF Listable

\* As the walk goes on, whatever is owed and not yet shown is still listed, at a
\* place behind the p pages the operator has seen, and there is a link to it.
WalkFields == {"query", "next", "link", "shown", "owed", "fell"}
Promise(p) ==
  \A id \in walk.owed \ walk.shown :
    /\ walk.next /\ id \in ListPage!Wanted(walk.query, now)
    /\ Before(ListPage!Wanted(walk.query, now), id) >= p * PageSize
WalkInv ==
  walk # ListPage!NoWalk =>
    /\ DOMAIN walk = WalkFields /\ walk.query \in ListPage!Query
    /\ \E p \in Nat \ {0} : walk.link = Resolved(walk.query, p + 1) /\ (~walk.fell => Promise(p))

LEMMA WalkInit == Init => ListInv /\ WalkInv
<1> SUFFICES ASSUME Init PROVE ListInv /\ WalkInv
  OBVIOUS
<1>1. /\ listed \in UNION {[1..n -> [created: {0, 1}, status: ListPage!Statuses]] :
                             n \in 0..MaxListed}
      /\ \A i, j \in DOMAIN listed : i < j => listed[i].created <= listed[j].created
      /\ now = 1 /\ walk = ListPage!NoWalk
  BY DEF Init, ListPage!Init
<1> DEFINE R == [created: Nat, status: ListPage!Statuses]
           R1 == [created: {0, 1}, status: ListPage!Statuses]
<1>2. PICK n \in 0..MaxListed : listed \in [1..n -> R1]
  BY <1>1
<1>3. R1 \subseteq R /\ \A r \in R1 : r.created <= 1
  OBVIOUS
<1>4. n \in Nat
  OBVIOUS
<1> HIDE DEF R, R1
<1>5. listed \in Seq(R) /\ \A i \in DOMAIN listed : listed[i].created <= now
  BY <1>1, <1>2, <1>3, <1>4
<1> QED BY <1>1, <1>5 DEF ListInv, WalkInv, R

LEMMA ListStep == ListInv /\ [ListPage!Next]_(ListPage!vars) => ListInv'
<1> SUFFICES ASSUME ListInv, [ListPage!Next]_(ListPage!vars) PROVE ListInv'
  OBVIOUS
<1> DEFINE R == [created: Nat, status: ListPage!Statuses]
<1>1. listed \in Seq(R) /\ now \in Nat
  BY DEF ListInv
<1>2. CASE ListPage!Enqueue
  <2> DEFINE e == [created |-> now, status |-> "queued"]
  <2>1. e \in R /\ e.created = now
    BY <1>1 DEF ListPage!Statuses
  <2>2. listed' = Append(listed, e) /\ now' = now
    BY <1>2 DEF ListPage!Enqueue
  <2> HIDE DEF e, R
  <2>3. /\ listed' \in Seq(R) /\ Len(listed') = Len(listed) + 1
        /\ \A i \in 1..Len(listed) : listed'[i] = listed[i]
        /\ listed'[Len(listed) + 1] = e
    BY <1>1, <2>1, <2>2, AppendProperties
  <2>4. DOMAIN listed' = 1..(Len(listed) + 1) /\ DOMAIN listed = 1..Len(listed)
        /\ Len(listed) \in Nat
    BY <1>1, <2>3
  <2>5. \A i \in DOMAIN listed' : listed'[i].created <= now
    BY <1>1, <2>1, <2>3, <2>4 DEF ListInv
  <2>6. ASSUME NEW i \in DOMAIN listed', NEW j \in DOMAIN listed', i < j
        PROVE  listed'[i].created <= listed'[j].created
    <3>1. i \in DOMAIN listed /\ listed'[i] = listed[i]
      BY <2>3, <2>4, <2>6
    <3>2. CASE j \in DOMAIN listed
      BY <2>3, <2>4, <2>6, <3>1, <3>2 DEF ListInv
    <3>3. CASE j = Len(listed) + 1
      BY <2>1, <2>3, <3>1, <3>3 DEF ListInv
    <3> QED BY <2>4, <3>2, <3>3
  <2> QED BY <1>1, <2>2, <2>3, <2>5, <2>6 DEF ListInv, R
<1>3. ASSUME NEW id \in DOMAIN listed, ListPage!Settle(id) PROVE ListInv'
  <2>1. listed' = [listed EXCEPT ![id].status = "sent"] /\ now' = now
    BY <1>3 DEF ListPage!Settle
  <2>2. \A r \in R : [r EXCEPT !.status = "sent"] \in R
                     /\ [r EXCEPT !.status = "sent"].created = r.created
    BY DEF ListPage!Statuses
  <2> HIDE DEF R
  <2>3. listed' = [listed EXCEPT ![id] = [listed[id] EXCEPT !.status = "sent"]]
    BY <2>1
  <2>4. DOMAIN listed = 1..Len(listed) /\ Len(listed) \in Nat
        /\ \A i \in DOMAIN listed : listed[i] \in R
    BY <1>1
  <2>5. \A i \in DOMAIN listed : listed'[i] \in R /\ listed'[i].created = listed[i].created
    BY <2>2, <2>3, <2>4
  <2>6. DOMAIN listed' = DOMAIN listed
    BY <2>3
  <2>7. listed' \in Seq(R)
    <3>1. listed' \in [1..Len(listed) -> R]
      BY <2>3, <2>4, <2>5
    <3> QED BY <2>4, <3>1
  <2> QED BY <1>1, <2>1, <2>5, <2>6, <2>7 DEF ListInv, R
<1>4. CASE ListPage!TimePasses
  <2>1. listed' = listed /\ now' = now + 1
    BY <1>4 DEF ListPage!TimePasses
  <2>2. \A i \in DOMAIN listed : listed[i].created \in Nat /\ listed[i].created <= now
    BY ListedTypes DEF ListInv
  <2>3. \A i \in DOMAIN listed : listed[i].created <= now + 1
    BY <1>1, <2>2
  <2> QED BY <1>1, <2>1, <2>3 DEF ListInv
<1>5. CASE UNCHANGED <<listed, now>>
  BY <1>5 DEF ListInv
<1> QED BY <1>2, <1>3, <1>4, <1>5 DEF ListPage!Next, ListPage!vars, ListPage!Open,
           ListPage!FollowLink, ListPage!Leave

\* An email moves no further to the front when everything newer stays listed.
LEMMA PlacesKept ==
  ASSUME NEW W \in SUBSET Nat, NEW V \in SUBSET Nat, IsFiniteSet(V), NEW id,
         \A j \in W : j > id => j \in V
  PROVE  Before(W, id) \in Nat /\ Before(V, id) \in Nat /\ Before(W, id) <= Before(V, id)
<1> DEFINE A == {j \in W : j > id}
           B == {j \in V : j > id}
<1>1. A \in SUBSET B /\ B \in SUBSET V
  OBVIOUS
<1> HIDE DEF A, B
<1>2. IsFiniteSet(B)
  BY <1>1, FS_Subset
<1>3. IsFiniteSet(A) /\ Cardinality(A) <= Cardinality(B)
  BY <1>1, <1>2, FS_Subset
<1> QED BY <1>2, <1>3, FS_CardinalityType DEF A, B, Before

\* The steps of the others leave the promise of a walk alone.
LEMMA WalkGoesOn ==
  ASSUME ListInv, ListInv', WalkInv, walk # ListPage!NoWalk,
         DOMAIN walk' = DOMAIN walk, walk'.query = walk.query, walk'.link = walk.link,
         walk'.next = walk.next, walk'.shown = walk.shown, walk'.owed \subseteq walk.owed,
         ~walk'.fell => ~walk.fell,
         NEW W, W = ListPage!Wanted(walk.query, now),
         NEW V, V = ListPage!Wanted(walk.query, now)',
         ~walk'.fell => \A id \in walk'.owed :
           id \in W => id \in V /\ \A j \in W : j > id => j \in V
  PROVE  WalkInv'
<1>1. walk.query \in ListPage!Query
  BY DEF WalkInv
<1>2. PICK p \in Nat \ {0} : walk.link = Resolved(walk.query, p + 1)
                             /\ (~walk.fell => Promise(p))
  BY DEF WalkInv
<1>3. W \in SUBSET Nat /\ V \in SUBSET Nat /\ IsFiniteSet(V)
  <2>1. W \subseteq DOMAIN listed /\ V \subseteq DOMAIN listed'
    BY DEF ListPage!Wanted
  <2>2. DOMAIN listed = 1..Len(listed) /\ Len(listed) \in Nat
        /\ DOMAIN listed' = 1..Len(listed') /\ Len(listed') \in Nat
    BY DEF ListInv
  <2>3. IsFiniteSet(DOMAIN listed')
    BY <2>2, FS_Interval
  <2> QED BY <2>1, <2>2, <2>3, FS_Subset
<1>4. PageSize \in Nat
  BY AdminAssumption DEF ListPage!ListingAssumption
<1>5. ASSUME ~walk'.fell, NEW id \in walk'.owed \ walk'.shown
      PROVE  walk'.next /\ id \in V /\ Before(V, id) >= p * PageSize
  <2>1. walk.next /\ id \in W /\ Before(W, id) >= p * PageSize
    BY <1>2, <1>5 DEF Promise
  <2>2. id \in V /\ \A j \in W : j > id => j \in V
    BY <1>5, <2>1
  <2>3. Before(W, id) \in Nat /\ Before(V, id) \in Nat /\ Before(W, id) <= Before(V, id)
    BY <1>3, <2>2, PlacesKept
  <2>4. p * PageSize \in Nat
    BY <1>4
  <2> QED BY <2>1, <2>2, <2>3, <2>4
<1>6. ~walk'.fell => Promise(p)'
  BY <1>5 DEF Promise
<1>7. walk'.link = Resolved(walk'.query, p + 1)
  BY <1>2
<1> QED BY <1>1, <1>2, <1>6, <1>7 DEF WalkInv

LEMMA WalkStep ==
  ListInv /\ ListInv' /\ WalkInv /\ [ListPage!Next]_(ListPage!vars) => WalkInv'
<1> SUFFICES ASSUME ListInv, ListInv', WalkInv, [ListPage!Next]_(ListPage!vars),
                    walk' # ListPage!NoWalk
             PROVE  WalkInv'
  BY DEF WalkInv
<1>0. PageSize \in Nat \ {0}
  BY AdminAssumption DEF ListPage!ListingAssumption
<1>1. ASSUME NEW q \in ListPage!Query, ListPage!Open(q) PROVE WalkInv'
  <2>1. /\ walk' = [query |-> q, next |-> ListPage!HasNext(q), link |-> ListPage!Link(q, 2),
                    shown |-> ListPage!Shown(q), owed |-> ListPage!Wanted(q, now),
                    fell |-> FALSE]
        /\ UNCHANGED <<listed, now>>
    BY <1>1 DEF ListPage!Open
  <2>2. /\ DOMAIN walk' = WalkFields /\ walk'.query = q /\ walk'.next = ListPage!HasNext(q)
        /\ walk'.link = Resolved(q, 1 + 1) /\ walk'.shown = ListPage!Shown(q)
        /\ walk'.owed = ListPage!Wanted(q, now)
    BY <2>1, LinksResolve DEF WalkFields
  <2>3. ListPage!Wanted(q, now)' = ListPage!Wanted(q, now)
    BY <2>1 DEF ListPage!Wanted
  <2>4. ASSUME NEW id \in ListPage!Wanted(q, now), id \notin ListPage!Shown(q)
        PROVE  ListPage!HasNext(q) /\ Before(ListPage!Wanted(q, now), id) >= 1 * PageSize
    <3>1. Listable(q) = ListPage!Wanted(q, now) /\ q.page = 1
      BY ListsWhatIsWanted, QueryTypes
    <3>2. Before(Listable(q), id) \in Nat
      BY <3>1, OrderedRows, ListedTypes, Places DEF Listable
    <3>3. 0 = (q.page - 1) * PageSize /\ 0 \in Nat
      BY <1>0, <3>1
    <3>4. IF Before(Listable(q), id) < 0 + PageSize
          THEN id \in ListPage!Shown(q) ELSE ListPage!HasNext(q)
      BY <2>4, <3>1, <3>2, <3>3, PageShows
    <3> QED BY <1>0, <2>4, <3>1, <3>2, <3>4
  <2>5. Promise(1)'
    BY <2>2, <2>3, <2>4 DEF Promise
  <2> QED BY <2>2, <2>5 DEF WalkInv
<1>2. CASE ListPage!FollowLink
  <2> DEFINE l == walk.link
             q == walk.query
             W == ListPage!Wanted(q, now)
  <2>1. /\ walk # ListPage!NoWalk /\ UNCHANGED <<listed, now>>
        /\ walk' = [walk EXCEPT !.next = ListPage!HasNext(l),
                                !.link = ListPage!Link(l, l.page + 1),
                                !.shown = @ \cup ListPage!Shown(l)]
    BY <1>2 DEF ListPage!FollowLink, ListPage!NextPage
  <2>2. /\ DOMAIN walk = WalkFields /\ q \in ListPage!Query
    BY <2>1 DEF WalkInv
  <2>3. PICK p \in Nat \ {0} : l = Resolved(q, p + 1) /\ (~walk.fell => Promise(p))
    BY <2>1 DEF WalkInv
  <2>4. l.page = p + 1
    BY <2>3 DEF Resolved
  <2>5. /\ DOMAIN walk' = WalkFields /\ walk'.query = q /\ walk'.next = ListPage!HasNext(l)
        /\ walk'.link = ListPage!Link(l, l.page + 1) /\ walk'.owed = walk.owed
        /\ walk'.fell = walk.fell /\ walk'.shown = walk.shown \cup ListPage!Shown(l)
    <3> HIDE DEF l
    <3> QED BY <2>1, <2>2 DEF WalkFields
  <2>6. walk'.link = Resolved(q, (p + 1) + 1)
    BY <2>2, <2>3, <2>4, <2>5, LinksResolve
  <2>7. W' = W
    BY <2>1, <2>5 DEF ListPage!Wanted
  <2>8. ASSUME ~walk.fell, NEW id \in walk.owed \ (walk.shown \cup ListPage!Shown(l))
        PROVE  ListPage!HasNext(l) /\ id \in W /\ Before(W, id) >= (p + 1) * PageSize
    <3>1. id \in W /\ Before(W, id) >= p * PageSize
      BY <2>3, <2>8 DEF Promise
    <3>2. Listable(l) = W
      BY <2>2, <2>3, ListsWhatIsWanted
    <3>3. Before(W, id) \in Nat
      <4>1. W \in SUBSET DOMAIN listed
        BY DEF ListPage!Wanted
      <4>2. W \in SUBSET Nat /\ IsFiniteSet(W)
        BY <4>1, OrderedRows, ListedTypes
      <4> QED BY <3>1, <4>2, Places
    <3>4. /\ p * PageSize \in Nat /\ p * PageSize = (l.page - 1) * PageSize
          /\ p * PageSize + PageSize = (p + 1) * PageSize
      BY <1>0, <2>4
    <3>5. p * PageSize <= Before(Listable(l), id)
      BY <3>1, <3>2, <3>3, <3>4
    <3> HIDE DEF l, W
    <3>6. IF Before(Listable(l), id) < p * PageSize + PageSize
          THEN id \in ListPage!Shown(l) ELSE ListPage!HasNext(l)
      BY <3>1, <3>2, <3>4, <3>5, PageShows
    <3> QED BY <1>0, <2>8, <3>1, <3>2, <3>3, <3>4, <3>6
  <2>9. ~walk'.fell => Promise(p + 1)'
    BY <2>5, <2>7, <2>8 DEF Promise
  <2>10. (p + 1) \in Nat \ {0}
    OBVIOUS
  <2> QED BY <2>2, <2>5, <2>6, <2>9, <2>10 DEF WalkInv
<1>3. CASE ListPage!Leave
  BY <1>3 DEF ListPage!Leave
<1> DEFINE W == ListPage!Wanted(walk.query, now)
           V == ListPage!Wanted(walk.query, now)'
<1>4. CASE ListPage!Enqueue
  <2>1. /\ listed' = Append(listed, [created |-> now, status |-> "queued"])
        /\ UNCHANGED <<now, walk>>
    BY <1>4 DEF ListPage!Enqueue
  <2>2. \A i \in DOMAIN listed : i \in DOMAIN listed' /\ listed'[i] = listed[i]
    <3>1. DOMAIN listed = 1..Len(listed) /\ Len(listed) \in Nat
      BY ListedTypes
    <3> QED BY <2>1, <3>1
  <2>3. W \subseteq V
    BY <2>1, <2>2 DEF ListPage!Wanted
  <2> HIDE DEF W, V
  <2> QED BY <2>1, <2>3, WalkGoesOn DEF W, V
<1>5. ASSUME NEW i \in DOMAIN listed, ListPage!Settle(i) PROVE WalkInv'
  <2>1. /\ listed[i].status = "queued" /\ now' = now
        /\ listed' = [listed EXCEPT ![i].status = "sent"]
        /\ walk' = IF walk # ListPage!NoWalk /\ walk.query.status = "queued"
                   THEN [walk EXCEPT !.fell = TRUE] ELSE walk
    BY <1>5 DEF ListPage!Settle
  <2>2. walk # ListPage!NoWalk /\ DOMAIN walk = WalkFields
    BY <2>1 DEF WalkInv
  <2>3. /\ DOMAIN walk' = DOMAIN walk /\ walk'.query = walk.query /\ walk'.link = walk.link
        /\ walk'.next = walk.next /\ walk'.shown = walk.shown /\ walk'.owed = walk.owed
        /\ ~walk'.fell => ~walk.fell /\ walk.query.status # "queued"
    BY <2>1, <2>2 DEF WalkFields
  <2>4. ~walk'.fell => W \subseteq V
    <3> SUFFICES ASSUME ~walk'.fell, NEW id \in W PROVE id \in V
      OBVIOUS
    <3>1. id \in DOMAIN listed'
      BY <2>1 DEF ListPage!Wanted
    <3>2. listed'[id].created = listed[id].created
      BY <2>1 DEF ListPage!Wanted
    <3>3. id # i => listed'[id] = listed[id]
      BY <2>1 DEF ListPage!Wanted
    <3>4. walk.query.status \in {ListPage!AnyStatus, listed[id].status}
      BY DEF ListPage!Wanted
    <3>5. walk.query.status \in {ListPage!AnyStatus, listed'[id].status}
      BY <2>1, <2>3, <3>3, <3>4
    <3> QED BY <2>1, <2>3, <3>1, <3>2, <3>5 DEF ListPage!Wanted
  <2> HIDE DEF W, V
  <2> QED BY <2>1, <2>2, <2>3, <2>4, WalkGoesOn DEF W, V
<1>6. CASE ListPage!TimePasses
  <2>1. /\ now' = now + 1 /\ listed' = listed
        /\ walk' = IF walk = ListPage!NoWalk THEN walk
                   ELSE [walk EXCEPT !.owed = @ \cap ListPage!Wanted(walk.query, now')]
    BY <1>6 DEF ListPage!TimePasses
  <2>2. walk # ListPage!NoWalk /\ DOMAIN walk = WalkFields /\ walk.query \in ListPage!Query
    BY <2>1 DEF WalkInv
  <2>3. /\ DOMAIN walk' = DOMAIN walk /\ walk'.query = walk.query /\ walk'.link = walk.link
        /\ walk'.next = walk.next /\ walk'.shown = walk.shown /\ walk'.fell = walk.fell
        /\ walk'.owed = walk.owed \cap ListPage!Wanted(walk.query, now')
    BY <2>1, <2>2 DEF WalkFields
  <2>4. V = ListPage!Wanted(walk.query, now')
    BY <2>1, <2>3 DEF ListPage!Wanted
  <2>5. ASSUME NEW id \in V, NEW j \in W, j > id PROVE j \in V
    <3>1. id \in DOMAIN listed /\ j \in DOMAIN listed
      BY <2>4 DEF ListPage!Wanted
    <3>2. listed[id].created <= listed[j].created /\ listed[id].created \in Nat
          /\ listed[j].created \in Nat /\ now' \in Nat /\ now \in Nat
      BY <2>5, <3>1, ListedTypes DEF ListInv
    <3>3. \A r \in DOMAIN RangeDays : RangeDays[r] \in Nat
      BY <2>2, QueryTypes
    <3>4. \A r \in DOMAIN RangeDays : now' - listed[id].created <= 2 * RangeDays[r]
            => now' - listed[j].created <= 2 * RangeDays[r]
      BY <3>2, <3>3
    <3>5. (IF walk.query.range = "custom" THEN DefaultRange ELSE walk.query.range)
            \in DOMAIN RangeDays
      BY <2>2, QueryTypes
    <3> QED BY <2>4, <3>1, <3>4, <3>5 DEF ListPage!Wanted
  <2>6. \A id \in walk'.owed : id \in V
    BY <2>3, <2>4
  <2> HIDE DEF W, V
  <2> QED BY <2>2, <2>3, <2>5, <2>6, WalkGoesOn DEF W, V
<1>7. CASE UNCHANGED ListPage!vars
  BY <1>7 DEF ListPage!vars, WalkInv, Promise, ListPage!Wanted
<1> QED BY <1>1, <1>2, <1>3, <1>4, <1>5, <1>6, <1>7 DEF ListPage!Next

\* For any page size, presets and dates, and whatever arrives, gets its verdict or
\* grows old meanwhile: who follows the links to the last page has seen all the
\* emails asked for on the first, unless some left the filter on the way.
THEOREM WalksShowEverything == Spec => []WalkShowsEverything
<1>1. ListInv /\ WalkInv /\ [Next]_vars => (ListInv /\ WalkInv)'
  BY FollowsPages, ListStep, WalkStep
<1>2. WalkInv => WalkShowsEverything
  BY DEF WalkInv, Promise, WalkShowsEverything, ListPage!WalkShowsEverything
<1> QED BY WalkInit, <1>1, <1>2, PTL DEF Spec
=============================================================================
