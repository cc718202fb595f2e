--------------------------- MODULE ServiceProofs ---------------------------
(***************************************************************************)
(* What holds of the API, of messages, of the start and of the end of the  *)
(* program for any keys, domains, requests, headers, loops and handlers,   *)
(* and any number of faults.                                               *)
(***************************************************************************)
EXTENDS Service, SequenceTheorems, FiniteSetTheorems, TLAPS

(* A step of the service is a step of each part, or leaves it alone.        *)

LEMMA FollowsParts ==
  [Next]_vars => /\ [Api!Next]_(Api!vars)
                 /\ [Life!Next]_(Life!vars)
                 /\ [Started!Next]_(Started!vars)
                 /\ [Content!Next]_(Content!vars)
BY DEF Next, vars, OnStart, OnApi, OnMessage, OnSend, OnConn, OnLife, startVars, apiVars,
       messageVars, sendVars, connVars, lifeVars, Api!vars, Life!vars, Started!vars,
       Content!vars

-----------------------------------------------------------------------------
(* The end of the program.                                                  *)

\* main comes past wg.Wait only when every loop has ended, and the store is
\* closed after that.
LifeInv ==
  /\ late \cap Loops = {}
  /\ main \in {"closing", "exiting", "exited"} => Life!Waited
  /\ store = "closed" => main \in {"exiting", "exited"}

LEMMA LifeStep == LifeInv /\ [Life!Next]_(Life!vars) => LifeInv'
<1> SUFFICES ASSUME LifeInv, [Life!Next]_(Life!vars) PROVE LifeInv'
  OBVIOUS
<1> USE DEF LifeInv, Life!Waited, Life!Alive
<1>1. ASSUME NEW l \in Loops, Life!LoopTicks(l) \/ Life!LoopWorks(l) \/ Life!LoopEnds(l)
      PROVE  LifeInv'
  <2>1. main \notin {"closing", "exiting", "exited"} \/ loop[l] = "ended"
    OBVIOUS
  <2>2. main' \notin {"closing", "exiting", "exited"} /\ store' # "closed" /\ store # "closed"
    BY <1>1, <2>1 DEF Life!LoopTicks, Life!LoopWorks, Life!LoopEnds
  <2>3. late' = late
    BY <1>1, <2>2 DEF Life!LoopTicks, Life!LoopWorks, Life!LoopEnds, Life!CallsStore
  <2> QED BY <2>2, <2>3
<1>2. ASSUME NEW h \in Handlers,
             Life!RequestArrives(h) \/ Life!HandlerWorks(h) \/ Life!HandlerAnswers(h)
      PROVE  LifeInv'
  <2>1. h \notin Loops
    BY ServiceAssumption DEF Life!LifecycleAssumption
  <2>2. late' = late \/ late' = late \cup {h}
    BY <1>2 DEF Life!RequestArrives, Life!HandlerWorks, Life!HandlerAnswers, Life!CallsStore
  <2>3. UNCHANGED <<loop, main, store>>
    BY <1>2 DEF Life!RequestArrives, Life!HandlerWorks, Life!HandlerAnswers
  <2> QED BY <2>1, <2>2, <2>3
<1>3. CASE Life!ListenFails \/ Life!Signal \/ Life!ShutdownStarts \/ Life!ShutdownEnds
  BY <1>3 DEF Life!ListenFails, Life!Signal, Life!ShutdownStarts, Life!ShutdownEnds
<1>4. CASE Life!ServeReturns
  BY <1>4 DEF Life!ServeReturns
<1>5. CASE Life!WaitReturns
  BY <1>5 DEF Life!WaitReturns
<1>6. CASE Life!CloseStore
  BY <1>6 DEF Life!CloseStore
<1>7. CASE Life!Exit
  BY <1>7 DEF Life!Exit
<1>8. CASE UNCHANGED Life!vars
  BY <1>8 DEF Life!vars
<1> QED BY <1>1, <1>2, <1>3, <1>4, <1>5, <1>6, <1>7, <1>8 DEF Life!Next, Life!Main

\* However many loops and handlers there are, and whenever the signal comes or
\* the server fails: the loops have ended before main closes the store, and none
\* of them calls a closed one.
THEOREM LoopsNeverMeetAClosedStore == Spec => []LoopsEndBeforeClose
<1>1. Init => LifeInv
  BY DEF Init, Life!Init, LifeInv
<1>2. LifeInv /\ [Next]_vars => LifeInv'
  BY FollowsParts, LifeStep
<1>3. LifeInv => LoopsEndBeforeClose
  BY DEF LifeInv, LoopsEndBeforeClose, Life!LoopsEndBeforeClose
<1> QED BY <1>1, <1>2, <1>3, PTL DEF Spec

-----------------------------------------------------------------------------
(* The start of the program.                                                *)

\* The statements that were run so far have left what they create.
StartInv ==
  /\ step \in Nat \ {0}
  /\ tables \subseteq Started!Listed(Started!Schema)
  /\ columns \subseteq Started!Listed(Started!Migrations)
  /\ start = "schema" => \A i \in 1..(step - 1) : Started!Schema[i] \in tables
  /\ start \in {"migrate", "serving"} => tables = Started!Listed(Started!Schema)
  /\ start = "schema" => step \in 1..Len(Started!Schema)
  /\ start = "migrate" => /\ step \in 1..Len(Started!Migrations)
                          /\ \A i \in 1..(step - 1) : Started!Migrations[i] \in columns
  /\ start = "serving" => columns = Started!Listed(Started!Migrations)

LEMMA StartInit == Started!Init => StartInv
BY DEF Started!Init, StartInv, Started!Listed, Started!Schema, Started!Migrations

LEMMA StartStep == StartInv /\ [Started!Next]_(Started!vars) => StartInv'
<1> SUFFICES ASSUME StartInv, [Started!Next]_(Started!vars) PROVE StartInv'
  OBVIOUS
<1>1. /\ Len(Started!Schema) = 7 /\ DOMAIN Started!Schema = 1..7
      /\ Len(Started!Migrations) = 2 /\ DOMAIN Started!Migrations = 1..2
  BY DEF Started!Schema, Started!Migrations
<1>2. CASE Started!Start
  BY <1>2, <1>1 DEF Started!Start, Started!Goes, StartInv
<1>3. CASE Started!Load
  <2>1. start' \in {"schema", "down"} /\ step' = 1 /\ UNCHANGED <<tables, columns>>
    BY <1>3 DEF Started!Load, Started!Goes
  <2> QED BY <1>1, <2>1 DEF StartInv
<1>4. CASE Started!Create
  <2>1. /\ start = "schema" /\ step \in 1..7
        /\ tables' = tables \cup {Started!Schema[step]}
        /\ columns' = Started!Listed(Started!Migrations) \/ columns' = columns
    BY <1>1, <1>4 DEF Started!Create, StartInv
  <2>2. /\ tables' \subseteq Started!Listed(Started!Schema)
        /\ columns' \subseteq Started!Listed(Started!Migrations)
    BY <1>1, <2>1 DEF StartInv, Started!Listed
  <2>3. \A i \in 1..step : Started!Schema[i] \in tables'
    BY <2>1 DEF StartInv
  <2>4. CASE step < 7
    <3>1. start' = "schema" /\ step' = step + 1
      BY <1>1, <1>4, <2>1, <2>4 DEF Started!Create
    <3> QED BY <1>1, <2>1, <2>2, <2>3, <2>4, <3>1 DEF StartInv
  <2>5. CASE ~(step < 7)
    <3>1. start' = "migrate" /\ step' = 1
      BY <1>1, <1>4, <2>5 DEF Started!Create, Started!Goes
    <3>2. tables' = Started!Listed(Started!Schema)
      BY <1>1, <2>1, <2>2, <2>3, <2>5 DEF Started!Listed
    <3> QED BY <1>1, <2>2, <3>1, <3>2 DEF StartInv
  <2> QED BY <2>4, <2>5
<1>5. CASE Started!Migrate
  <2>1. /\ start = "migrate" /\ step \in 1..2 /\ tables' = tables
        /\ tables = Started!Listed(Started!Schema)
        /\ columns' = columns \cup {Started!Migrations[step]}
    BY <1>1, <1>5 DEF Started!Migrate, StartInv
  <2>2. columns' \subseteq Started!Listed(Started!Migrations)
    BY <1>1, <2>1 DEF StartInv, Started!Listed
  <2>3. \A i \in 1..step : Started!Migrations[i] \in columns'
    BY <2>1 DEF StartInv
  <2>4. CASE step < 2
    <3>1. start' = "migrate" /\ step' = step + 1
      BY <1>1, <1>5, <2>1, <2>4 DEF Started!Migrate
    <3> QED BY <1>1, <2>1, <2>2, <2>3, <2>4, <3>1 DEF StartInv
  <2>5. CASE ~(step < 2)
    <3>1. start' = "serving" /\ step' = 1
      BY <1>1, <1>5, <2>5 DEF Started!Migrate, Started!Goes
    <3>2. columns' = Started!Listed(Started!Migrations)
      BY <1>1, <2>1, <2>2, <2>3, <2>5 DEF Started!Listed
    <3> QED BY <1>1, <2>1, <2>2, <3>1, <3>2 DEF StartInv
  <2> QED BY <2>4, <2>5
<1>6. CASE Started!Stop
  BY <1>6 DEF Started!Stop, Started!Goes, StartInv
<1>7. CASE UNCHANGED Started!vars
  BY <1>7 DEF Started!vars, StartInv
<1> QED BY <1>2, <1>3, <1>4, <1>5, <1>6, <1>7 DEF Started!Next

\* However often the start was cut short, and whatever an older release left:
\* the program serves only with its whole schema.
THEOREM ServesWithItsSchema == Spec => []SchemaComplete
<1>1. Init => StartInv
  BY StartInit DEF Init
<1>2. StartInv /\ [Next]_vars => StartInv'
  BY FollowsParts, StartStep
<1>3. StartInv => SchemaComplete
  BY DEF StartInv, SchemaComplete, Started!SchemaComplete
<1> QED BY <1>1, <1>2, <1>3, PTL DEF Spec

-----------------------------------------------------------------------------
(* The API.                                                                 *)

\* The part of the type invariant that the argument needs.
ApiTypes ==
  /\ emails \in Seq(Api!EmailRow)
  /\ req \in [Requests -> [content: Api!Content, phase: Api!Phase, sends: 0..MaxSends,
                           late: BOOLEAN]]
  /\ faults \in Nat

\* A request that came after its key was revoked does not get past auth, and a
\* handler looks a row up a second time only because the unique index holds one,
\* or because the store failed.
Admitted(r) ==
  /\ req[r].late => req[r].content.key \notin live
  /\ req[r].phase \notin {"idle", "auth"} => ~req[r].late
  /\ req[r].phase = "read" => req[r].content.op = "get"
  /\ req[r].phase \in {"check", "find", "insert", "recheck"} => req[r].content.op = "post"
  /\ req[r].phase = "recheck" => faults > 0 \/ Api!Found(r) # {}

ApiInv ==
  /\ ApiTypes /\ \A r \in Requests : Admitted(r)
  /\ OneEmailPerIdempotencyKey /\ RepliesNameTheEmail /\ RaceIsNoError

\* Rows are only ever added.
EmailsGrow == \A id \in DOMAIN emails : id \in DOMAIN emails' /\ emails'[id] = emails[id]

LEMMA ContentTypes ==
  ASSUME ApiTypes, NEW r \in Requests
  PROVE  /\ req[r].content.key \in Keys /\ req[r].content.idem \in Idems \cup {NoIdem}
         /\ req[r].content.op \in {"get", "post"} /\ req[r].phase \in Api!Phase
         /\ req[r].late \in BOOLEAN /\ req[r].sends \in 0..MaxSends
         /\ req[r].content \in Api!Content
<1>1. req[r].content \in Api!Content
  BY DEF ApiTypes
<1>2. req[r].content.key \in Keys /\ req[r].content.idem \in Idems \cup {NoIdem}
      /\ req[r].content.op \in {"get", "post"}
  BY <1>1 DEF Api!Content
<1> QED BY <1>1, <1>2 DEF ApiTypes

\* Every step of a handler changes its own request only, and its phase only.
LEMMA PhaseMoves ==
  ASSUME ApiTypes, NEW r \in Requests, NEW ph \in Api!Phase,
         req' = [req EXCEPT ![r].phase = ph]
  PROVE  /\ req' \in [Requests -> [content: Api!Content, phase: Api!Phase, sends: 0..MaxSends,
                                   late: BOOLEAN]]
         /\ \A q \in Requests : q # r => req'[q] = req[q]
         /\ req'[r].content = req[r].content /\ req'[r].late = req[r].late
         /\ req'[r].phase = ph
BY DEF ApiTypes

\* What the other requests were admitted for stays true.
LEMMA OthersAdmitted ==
  ASSUME ApiInv, EmailsGrow, faults' \in Nat, faults' >= faults, live' \subseteq live,
         NEW q \in Requests, req'[q] = req[q]
  PROVE  Admitted(q)'
<1>1. Admitted(q) /\ faults \in Nat
  BY DEF ApiInv, ApiTypes
<1>2. Api!Found(q) # {} => Api!Found(q)' # {}
  BY DEF EmailsGrow, Api!Found, Api!RowsOf, Api!Carried
<1> QED BY <1>1, <1>2 DEF Admitted

\* A handler that gives no id ends.
LEMMA Refused ==
  ASSUME ApiInv, NEW r \in Requests, NEW code \in {401, 403, 404, 422, 500},
         Api!Refuse(r, code), Api!StoreSame, faults' \in Nat, faults' >= faults,
         code = 500 => faults' > 0
  PROVE  ApiInv'
<1> USE DEF Api!Refuse, Api!Answer, Api!StoreSame
<1>0. ApiTypes /\ faults \in Nat /\ Admitted(r)
  BY DEF ApiInv, ApiTypes
<1>1. /\ req' \in [Requests -> [content: Api!Content, phase: Api!Phase, sends: 0..MaxSends,
                                late: BOOLEAN]]
      /\ \A q \in Requests : q # r => req'[q] = req[q]
      /\ req'[r].content = req[r].content /\ req'[r].late = req[r].late
      /\ req'[r].phase = "idle"
  BY <1>0, PhaseMoves DEF Api!Phase
<1>2. ApiTypes'
  BY <1>0, <1>1 DEF ApiTypes
<1>3. ASSUME NEW q \in Requests PROVE Admitted(q)'
  <2>1. CASE q = r
    BY <1>0, <1>1, <2>1 DEF Admitted
  <2>2. CASE q # r
    BY <1>1, <2>2, OthersAdmitted DEF EmailsGrow
  <2> QED BY <2>1, <2>2
<1>4. OneEmailPerIdempotencyKey'
  BY DEF ApiInv, OneEmailPerIdempotencyKey, Api!OneEmailPerIdempotencyKey
<1>5. RepliesNameTheEmail'
  BY DEF ApiInv, RepliesNameTheEmail, Api!RepliesNameTheEmail
<1>6. RaceIsNoError'
  BY <1>0 DEF ApiInv, RaceIsNoError, Api!RaceIsNoError
<1> QED BY <1>2, <1>3, <1>4, <1>5, <1>6 DEF ApiInv

\* A handler that gives an id ends, and the row is the client's.
LEMMA Served ==
  ASSUME ApiInv, NEW r \in Requests, NEW code \in {200, 202}, NEW id,
         Api!Answer(r, code, id), EmailsGrow, OneEmailPerIdempotencyKey',
         emails' \in Seq(Api!EmailRow), UNCHANGED <<live, faults>>, ~req[r].late,
         id \in DOMAIN emails',
         IF req[r].content.op = "post"
         THEN emails'[id] = [key |-> req[r].content.key, idem |-> req[r].content.idem]
         ELSE DomainOf[emails'[id].key] = DomainOf[req[r].content.key]
  PROVE  ApiInv'
<1> USE DEF Api!Answer
<1>0. ApiTypes /\ faults \in Nat /\ Admitted(r)
  BY DEF ApiInv, ApiTypes
<1>1. /\ req' \in [Requests -> [content: Api!Content, phase: Api!Phase, sends: 0..MaxSends,
                                late: BOOLEAN]]
      /\ \A q \in Requests : q # r => req'[q] = req[q]
      /\ req'[r].content = req[r].content /\ req'[r].late = req[r].late
      /\ req'[r].phase = "idle"
  BY <1>0, PhaseMoves DEF Api!Phase
<1>2. ApiTypes'
  BY <1>0, <1>1 DEF ApiTypes
<1>3. ASSUME NEW q \in Requests PROVE Admitted(q)'
  <2>1. CASE q = r
    BY <1>0, <1>1, <2>1 DEF Admitted
  <2>2. CASE q # r
    BY <1>0, <1>1, <2>2, OthersAdmitted
  <2> QED BY <2>1, <2>2
<1>4. RepliesNameTheEmail'
  <2> SUFFICES ASSUME NEW a \in answers', a.code \in {200, 202}
               PROVE  /\ ~a.late
                      /\ a.id \in DOMAIN emails'
                      /\ IF a.to.op = "post"
                         THEN emails'[a.id] = [key |-> a.to.key, idem |-> a.to.idem]
                         ELSE DomainOf[emails'[a.id].key] = DomainOf[a.to.key]
    BY DEF RepliesNameTheEmail, Api!RepliesNameTheEmail
  <2>1. CASE a \in answers
    BY <2>1 DEF EmailsGrow, ApiInv, RepliesNameTheEmail, Api!RepliesNameTheEmail
  <2>2. CASE a = [to |-> req[r].content, code |-> code, id |-> id, late |-> req[r].late]
    BY <2>2
  <2> QED BY <2>1, <2>2 DEF Api!Carried
<1>5. RaceIsNoError'
  BY <1>0 DEF ApiInv, RaceIsNoError, Api!RaceIsNoError
<1> QED BY <1>2, <1>3, <1>4, <1>5 DEF ApiInv

\* A handler goes on to its next store call.
LEMMA GoesOn ==
  ASSUME ApiInv, NEW r \in Requests, NEW ph \in {"check", "find", "insert", "recheck", "read"},
         Api!Goes(r, ph), Api!StoreSame, faults' \in Nat, faults' >= faults,
         ~req[r].late, ph = "read" => req[r].content.op = "get",
         ph # "read" => req[r].content.op = "post",
         ph = "recheck" => faults' > 0 \/ Api!Found(r) # {}
  PROVE  ApiInv'
<1> USE DEF Api!Goes, Api!StoreSame
<1>0. ApiTypes /\ faults \in Nat /\ Admitted(r)
  BY DEF ApiInv, ApiTypes
<1>1. /\ req' \in [Requests -> [content: Api!Content, phase: Api!Phase, sends: 0..MaxSends,
                                late: BOOLEAN]]
      /\ \A q \in Requests : q # r => req'[q] = req[q]
      /\ req'[r].content = req[r].content /\ req'[r].late = req[r].late
      /\ req'[r].phase = ph
  BY <1>0, PhaseMoves DEF Api!Phase
<1>2. ApiTypes'
  BY <1>0, <1>1 DEF ApiTypes
<1>3. ASSUME NEW q \in Requests PROVE Admitted(q)'
  <2>1. CASE q = r
    <3>1. Api!Found(r)' = Api!Found(r)
      BY <1>1 DEF Api!Found, Api!RowsOf, Api!Carried
    <3> QED BY <1>0, <1>1, <2>1, <3>1 DEF Admitted
  <2>2. CASE q # r
    BY <1>1, <2>2, OthersAdmitted DEF EmailsGrow
  <2> QED BY <2>1, <2>2
<1>4. OneEmailPerIdempotencyKey' /\ RepliesNameTheEmail'
  BY DEF ApiInv, OneEmailPerIdempotencyKey, Api!OneEmailPerIdempotencyKey,
         RepliesNameTheEmail, Api!RepliesNameTheEmail
<1>5. RaceIsNoError'
  BY <1>0 DEF ApiInv, RaceIsNoError, Api!RaceIsNoError
<1> QED BY <1>2, <1>3, <1>4, <1>5 DEF ApiInv

\* Both lookups of a row give out one of the client's own.
LEMMA Replayed ==
  ASSUME ApiInv, NEW r \in Requests, Api!Replay(r), Api!StoreSame, UNCHANGED faults,
         ~req[r].late, req[r].content.op = "post"
  PROVE  ApiInv'
<1> USE DEF Api!StoreSame
<1>1. PICK id \in Api!Found(r) : Api!Answer(r, 200, id)
  BY DEF Api!Replay
<1>2. id \in DOMAIN emails
      /\ emails[id] = [key |-> req[r].content.key, idem |-> req[r].content.idem]
  BY <1>1 DEF Api!Found, Api!RowsOf, Api!Carried
<1>3. EmailsGrow /\ emails' \in Seq(Api!EmailRow) /\ OneEmailPerIdempotencyKey'
  BY DEF EmailsGrow, ApiInv, ApiTypes, OneEmailPerIdempotencyKey, Api!OneEmailPerIdempotencyKey
<1> QED BY <1>1, <1>2, <1>3, Served

\* The unique index keeps the new row apart from all there are.
LEMMA Inserted ==
  ASSUME ApiInv, NEW r \in Requests, ~Api!Conflicts(r), ~req[r].late,
         emails' = Append(emails, [key |-> req[r].content.key, idem |-> req[r].content.idem]),
         req[r].content.op = "post", UNCHANGED <<live, faults>>,
         Api!Answer(r, 202, Len(emails'))
  PROVE  ApiInv'
<1> DEFINE added == [key |-> req[r].content.key, idem |-> req[r].content.idem]
<1>1. emails \in Seq(Api!EmailRow) /\ added \in Api!EmailRow
  BY ContentTypes DEF ApiInv, ApiTypes, Api!EmailRow
<1>2. /\ emails' \in Seq(Api!EmailRow) /\ Len(emails') = Len(emails) + 1
      /\ DOMAIN emails' = DOMAIN emails \cup {Len(emails')}
      /\ Len(emails') \notin DOMAIN emails
      /\ emails'[Len(emails')] = added
      /\ \A id \in DOMAIN emails : emails'[id] = emails[id]
  BY <1>1
<1>3. EmailsGrow
  BY <1>2 DEF EmailsGrow
<1>4. \A id \in DOMAIN emails : emails[id] = added => added.idem = NoIdem
  BY DEF Api!Conflicts, Api!Found, Api!RowsOf, Api!Carried
<1>5. OneEmailPerIdempotencyKey'
  <2> SUFFICES ASSUME NEW i \in DOMAIN emails', NEW j \in DOMAIN emails',
                      emails'[i] = emails'[j], emails'[i].idem # NoIdem
               PROVE  i = j
    BY DEF OneEmailPerIdempotencyKey, Api!OneEmailPerIdempotencyKey
  <2>1. CASE i \in DOMAIN emails /\ j \in DOMAIN emails
    BY <1>2, <2>1 DEF ApiInv, OneEmailPerIdempotencyKey, Api!OneEmailPerIdempotencyKey
  <2>2. CASE i \in DOMAIN emails /\ j = Len(emails')
    BY <1>2, <1>4, <2>2
  <2>3. CASE j \in DOMAIN emails /\ i = Len(emails')
    BY <1>2, <1>4, <2>3
  <2> QED BY <1>2, <2>1, <2>2, <2>3
<1> HIDE DEF added
<1>6. emails'[Len(emails')] = [key |-> req[r].content.key, idem |-> req[r].content.idem]
  BY <1>2 DEF added
<1> QED BY <1>2, <1>3, <1>5, <1>6, Served

LEMMA HandlerKeeps ==
  ASSUME ApiInv, NEW r \in Requests, Api!Handler(r)
  PROVE  ApiInv'
<1> USE DEF Api!At, Api!Carried, Api!Fault, Api!NoFault
<1>0. ApiTypes /\ Admitted(r) /\ faults \in Nat
  BY DEF ApiInv, ApiTypes
<1>1. CASE Api!Authenticate(r)
  <2>1. req[r].phase = "auth" /\ Api!StoreSame
    BY <1>1 DEF Api!Authenticate
  <2>2. CASE Api!Refuse(r, 401) /\ (faults' = faults \/ faults' = faults + 1)
    BY <1>0, <2>1, <2>2, Refused
  <2>3. CASE req[r].content.key \in live /\ Api!Goes(r, Api!AfterAuth(r)) /\ faults' = faults
    <3>1. ~req[r].late
      BY <1>0, <2>3 DEF Admitted
    <3>2. CASE req[r].content.op = "post"
      BY <1>0, <2>1, <2>3, <3>1, <3>2, GoesOn DEF Api!AfterAuth
    <3>3. CASE req[r].content.op = "get"
      BY <1>0, <2>1, <2>3, <3>1, <3>3, GoesOn DEF Api!AfterAuth
    <3> QED BY <1>0, <3>2, <3>3, ContentTypes
  <2> QED BY <1>1, <2>2, <2>3 DEF Api!Authenticate, Api!Known
<1>2. CASE Api!Check(r)
  <2>1. req[r].phase = "check" /\ Api!StoreSame
    BY <1>2 DEF Api!Check
  <2>2. ~req[r].late /\ req[r].content.op = "post"
    BY <1>0, <2>1 DEF Admitted
  <2>3. \/ \E code \in {403, 422} : Api!Refuse(r, code) /\ faults' = faults
        \/ Api!Refuse(r, 500) /\ faults' = faults + 1
        \/ Api!Goes(r, Api!FirstLookup(r)) /\ faults' = faults
    BY <1>2 DEF Api!Check
  <2>4. CASE \E code \in {403, 422} : Api!Refuse(r, code) /\ faults' = faults
    BY <1>0, <2>1, <2>4, Refused
  <2>5. CASE Api!Refuse(r, 500) /\ faults' = faults + 1
    BY <1>0, <2>1, <2>5, Refused
  <2>6. CASE Api!Goes(r, Api!FirstLookup(r)) /\ faults' = faults
    <3>1. Api!FirstLookup(r) \in {"insert", "find"}
      BY DEF Api!FirstLookup
    <3> QED BY <1>0, <2>1, <2>2, <2>6, <3>1, GoesOn
  <2> QED BY <2>3, <2>4, <2>5, <2>6
<1>3. CASE Api!Find(r)
  <2>1. req[r].phase = "find" /\ Api!StoreSame
    BY <1>3 DEF Api!Find
  <2>2. ~req[r].late /\ req[r].content.op = "post"
    BY <1>0, <2>1 DEF Admitted
  <2>3. \/ Api!Replay(r) /\ UNCHANGED faults
        \/ Api!Goes(r, "insert") /\ (faults' = faults \/ faults' = faults + 1)
    BY <1>3 DEF Api!Find
  <2>4. CASE Api!Replay(r) /\ UNCHANGED faults
    BY <2>1, <2>2, <2>4, Replayed
  <2>5. CASE Api!Goes(r, "insert") /\ (faults' = faults \/ faults' = faults + 1)
    BY <1>0, <2>1, <2>2, <2>5, GoesOn
  <2> QED BY <2>3, <2>4, <2>5
<1>4. CASE Api!Insert(r)
  <2>1. req[r].phase = "insert" /\ UNCHANGED <<live, verified>>
    BY <1>4 DEF Api!Insert
  <2>2. ~req[r].late /\ req[r].content.op = "post"
    BY <1>0, <2>1 DEF Admitted
  <2>3. CASE /\ ~Api!Conflicts(r)
             /\ emails' = Append(emails, [key |-> req[r].content.key,
                                          idem |-> req[r].content.idem])
             /\ Api!Answer(r, 202, Len(emails')) /\ UNCHANGED faults
    BY <2>1, <2>2, <2>3, Inserted
  <2>4. ASSUME Api!InsertFailed(r), UNCHANGED emails,
               \/ Api!Conflicts(r) /\ UNCHANGED faults
               \/ faults' = faults + 1
        PROVE  ApiInv'
    <3>1. Api!StoreSame /\ faults' \in Nat /\ faults' >= faults
      BY <1>0, <2>1, <2>4 DEF Api!StoreSame
    <3>2. CASE req[r].content.idem # NoIdem
      <4>1. faults' > 0 \/ Api!Found(r) # {}
        BY <1>0, <2>4 DEF Api!Conflicts
      <4>2. Api!Goes(r, "recheck")
        BY <2>4, <3>2 DEF Api!InsertFailed
      <4> QED BY <2>2, <3>1, <4>1, <4>2, GoesOn
    <3>3. CASE req[r].content.idem = NoIdem
      <4>1. faults' > 0
        BY <1>0, <2>4, <3>3 DEF Api!Conflicts
      <4>2. Api!Refuse(r, 500)
        BY <2>4, <3>3 DEF Api!InsertFailed
      <4> QED BY <3>1, <4>1, <4>2, Refused
    <3> QED BY <3>2, <3>3
  <2> QED BY <1>4, <2>3, <2>4 DEF Api!Insert
<1>5. CASE Api!Recheck(r)
  <2>1. req[r].phase = "recheck" /\ Api!StoreSame
    BY <1>5 DEF Api!Recheck
  <2>2. /\ ~req[r].late /\ req[r].content.op = "post"
        /\ faults > 0 \/ Api!Found(r) # {}
    BY <1>0, <2>1 DEF Admitted
  <2>3. \/ Api!Replay(r) /\ UNCHANGED faults
        \/ Api!Refuse(r, 500) /\ ((faults' = faults /\ faults > 0) \/ faults' = faults + 1)
    BY <1>5, <2>2 DEF Api!Recheck
  <2>4. CASE Api!Replay(r) /\ UNCHANGED faults
    BY <2>1, <2>2, <2>4, Replayed
  <2>5. CASE Api!Refuse(r, 500) /\ ((faults' = faults /\ faults > 0) \/ faults' = faults + 1)
    BY <1>0, <2>1, <2>5, Refused
  <2> QED BY <2>3, <2>4, <2>5
<1>6. CASE Api!Read(r)
  <2>1. req[r].phase = "read" /\ Api!StoreSame
    BY <1>6 DEF Api!Read
  <2>2. ~req[r].late /\ req[r].content.op = "get"
    BY <1>0, <2>1 DEF Admitted
  <2>3. CASE Api!Refuse(r, 404) /\ (faults' = faults \/ faults' = faults + 1)
    BY <1>0, <2>1, <2>3, Refused
  <2>4. CASE Api!Readable(r) # {} /\ Api!Answer(r, 200, req[r].content.id) /\ UNCHANGED faults
    <3>1. /\ req[r].content.id \in DOMAIN emails
          /\ DomainOf[emails[req[r].content.id].key] = DomainOf[req[r].content.key]
      BY <2>4 DEF Api!Readable
    <3>2. EmailsGrow /\ emails' \in Seq(Api!EmailRow) /\ OneEmailPerIdempotencyKey'
      BY <2>1 DEF EmailsGrow, ApiInv, ApiTypes, OneEmailPerIdempotencyKey,
                  Api!OneEmailPerIdempotencyKey, Api!StoreSame
    <3>3. UNCHANGED <<live, faults, emails>>
      BY <2>1, <2>4 DEF Api!StoreSame
    <3> QED BY <2>2, <2>4, <3>1, <3>2, <3>3, Served
  <2> QED BY <1>6, <2>3, <2>4 DEF Api!Read
<1> QED BY <1>1, <1>2, <1>3, <1>4, <1>5, <1>6 DEF Api!Handler

\* The steps outside the handlers change no row, and give no answer.
LEMMA ApiRest ==
  ASSUME ApiInv, UNCHANGED <<emails, answers>>, faults' \in Nat, faults' >= faults,
         ApiTypes', \A r \in Requests : Admitted(r)'
  PROVE  ApiInv'
<1>1. faults \in Nat
  BY DEF ApiInv, ApiTypes
<1>2. OneEmailPerIdempotencyKey' /\ RepliesNameTheEmail'
  BY DEF ApiInv, OneEmailPerIdempotencyKey, Api!OneEmailPerIdempotencyKey,
         RepliesNameTheEmail, Api!RepliesNameTheEmail
<1>3. RaceIsNoError'
  BY <1>1 DEF ApiInv, RaceIsNoError, Api!RaceIsNoError
<1> QED BY <1>2, <1>3 DEF ApiInv

LEMMA ApiStep == ApiInv /\ [Api!Next]_(Api!vars) => ApiInv'
<1> SUFFICES ASSUME ApiInv, [Api!Next]_(Api!vars) PROVE ApiInv'
  OBVIOUS
<1>0. ApiTypes /\ faults \in Nat /\ \A r \in Requests : Admitted(r)
  BY DEF ApiInv, ApiTypes
<1>1. ASSUME NEW r \in Requests, Api!Arrive(r) PROVE ApiInv'
  <2>1. /\ req[r].phase = "idle" /\ req[r].sends < MaxSends
        /\ req' = [req EXCEPT ![r].phase = "auth", ![r].sends = @ + 1,
                              ![r].late = req[r].content.key \notin live]
        /\ UNCHANGED <<emails, live, answers, faults>>
    BY <1>1 DEF Api!Arrive, Api!At, Api!Carried, Api!StoreSame, Api!NoFault
  <2>2. /\ req[r].content \in Api!Content /\ req[r].sends + 1 \in 0..MaxSends
        /\ "auth" \in Api!Phase /\ (req[r].content.key \notin live) \in BOOLEAN
    BY <1>0, <2>1, ContentTypes, ServiceAssumption DEF Api!ApiAssumption, Api!Phase
  <2>3. ApiTypes'
    BY <1>0, <2>1, <2>2 DEF ApiTypes
  <2>4. /\ emails' = emails /\ live' = live /\ faults' = faults
        /\ live' \subseteq live /\ faults' >= faults /\ faults' \in Nat
    BY <1>0, <2>1
  <2>5. ASSUME NEW q \in Requests PROVE Admitted(q)'
    <3>1. CASE q = r
      <4>1. /\ req'[r].phase = "auth" /\ req'[r].content = req[r].content
            /\ req'[r].late = (req[r].content.key \notin live)
        BY <1>0, <2>1 DEF ApiTypes
      <4> QED BY <2>4, <3>1, <4>1 DEF Admitted
    <3>2. CASE q # r
      <4>1. req'[q] = req[q]
        BY <1>0, <2>1, <3>2 DEF ApiTypes
      <4> QED BY <1>0, <2>4, <4>1, OthersAdmitted DEF EmailsGrow
    <3> QED BY <3>1, <3>2
  <2> QED BY <1>0, <2>1, <2>3, <2>5, ApiRest
<1>2. ASSUME NEW r \in Requests, Api!Handler(r) PROVE ApiInv'
  BY <1>2, HandlerKeeps
<1>3. ASSUME UNCHANGED <<emails, answers, faults, req>>, live' \subseteq live PROVE ApiInv'
  <2>1. ApiTypes'
    BY <1>0, <1>3 DEF ApiTypes
  <2>2. \A q \in Requests : Admitted(q)'
    BY <1>0, <1>3, OthersAdmitted DEF EmailsGrow
  <2> QED BY <1>0, <1>3, <2>1, <2>2, ApiRest
<1>4. CASE Api!Crash
  <2>1. /\ req' = [r \in Requests |-> [req[r] EXCEPT !.phase = "idle"]]
        /\ UNCHANGED <<emails, live, answers>> /\ faults' = faults + 1
    BY <1>4 DEF Api!Crash, Api!Fault, Api!StoreSame
  <2>2. ASSUME NEW q \in Requests
        PROVE  /\ req'[q] \in [content: Api!Content, phase: Api!Phase, sends: 0..MaxSends,
                                late: BOOLEAN]
               /\ req'[q].phase = "idle" /\ req'[q].late = req[q].late
               /\ req'[q].content = req[q].content
    BY <1>0, <2>1 DEF ApiTypes, Api!Phase
  <2>3. ApiTypes'
    BY <1>0, <2>1, <2>2 DEF ApiTypes
  <2>4. ASSUME NEW q \in Requests PROVE Admitted(q)'
    BY <1>0, <2>1, <2>2 DEF Admitted
  <2> QED BY <1>0, <2>1, <2>3, <2>4, ApiRest
<1>5. ASSUME NEW k \in Keys, Api!RevokeAPIKey(k) PROVE ApiInv'
  BY <1>3, <1>5 DEF Api!RevokeAPIKey
<1>6. ASSUME NEW d \in Domains, Api!SetDomainVerification(d) PROVE ApiInv'
  BY <1>3, <1>6 DEF Api!SetDomainVerification
<1>7. CASE UNCHANGED Api!vars
  BY <1>3, <1>7 DEF Api!vars
<1> QED BY <1>1, <1>2, <1>4, <1>5, <1>6, <1>7 DEF Api!Next

LEMMA ApiInit == Init => ApiInv
<1> SUFFICES ASSUME Init PROVE ApiInv
  OBVIOUS
<1>1. /\ emails = <<>> /\ answers = {} /\ faults = 0
      /\ req \in [Requests -> [content: Api!Content, phase: {"idle"}, sends: {0}, late: {FALSE}]]
  BY DEF Init, Api!Init
<1>2. ApiTypes
  <2>1. 0 \in 0..MaxSends
    BY ServiceAssumption DEF Api!ApiAssumption
  <2>2. ASSUME NEW r \in Requests
        PROVE  req[r] \in [content: Api!Content, phase: Api!Phase, sends: 0..MaxSends,
                           late: BOOLEAN]
    BY <1>1, <2>1 DEF Api!Phase
  <2> QED BY <1>1, <2>2 DEF ApiTypes
<1>3. \A r \in Requests : req[r].phase = "idle" /\ req[r].late = FALSE
  BY <1>1
<1>4. \A r \in Requests : Admitted(r)
  BY <1>3 DEF Admitted
<1> QED BY <1>1, <1>2, <1>4
        DEF ApiInv, OneEmailPerIdempotencyKey, Api!OneEmailPerIdempotencyKey,
            RepliesNameTheEmail, Api!RepliesNameTheEmail, RaceIsNoError, Api!RaceIsNoError

\* For any number of keys, requests in flight, repetitions, crashes and failing
\* store calls: the API queues one email per key and Idempotency-Key.
THEOREM OneEmailPerKey == Spec => []OneEmailPerIdempotencyKey
<1>1. Init => ApiInv
  BY ApiInit
<1>2. ApiInv /\ [Next]_vars => ApiInv'
  BY FollowsParts, ApiStep
<1>3. ApiInv => OneEmailPerIdempotencyKey
  BY DEF ApiInv
<1> QED BY <1>1, <1>2, <1>3, PTL DEF Spec

\* Each id the API gives out is that of an email of the client's own, or of its
\* domain, and none is given to a key that was revoked before the request came.
THEOREM AnswersNameTheEmail == Spec => []RepliesNameTheEmail
<1>1. Init => ApiInv
  BY ApiInit
<1>2. ApiInv /\ [Next]_vars => ApiInv'
  BY FollowsParts, ApiStep
<1>3. ApiInv => RepliesNameTheEmail
  BY DEF ApiInv
<1> QED BY <1>1, <1>2, <1>3, PTL DEF Spec

\* Without a fault no request is answered with 500, however many of them race for
\* one Idempotency-Key.
THEOREM RacesAreNoErrors == Spec => []RaceIsNoError
<1>1. Init => ApiInv
  BY ApiInit
<1>2. ApiInv /\ [Next]_vars => ApiInv'
  BY FollowsParts, ApiStep
<1>3. ApiInv => RaceIsNoError
  BY DEF ApiInv
<1> QED BY <1>1, <1>2, <1>3, PTL DEF Spec

-----------------------------------------------------------------------------
(* The content of an email.                                                 *)

QueuedRow ==
  [system: BOOLEAN, from: Content!Text \cup {Content!Unparsable}, to: Content!Text \cup {Content!Unparsable},
   replyTo: Content!Text \cup {Content!Unparsable}, subject: Content!Text,
   html: BOOLEAN, text: BOOLEAN, customs: Content!Customs \cup {<<>>}]
Clean(r) == r.replyTo # "broken" /\ ~(r.system /\ r.subject = "broken")
MessageInv ==
  row # Content!NoEmail => row \in QueuedRow /\ (Clean(row) => Content!Builds(row))

\* Encoding makes every display name a valid value.
LEMMA NamesAreEncoded == \A name : Content!ValidAddress(name)
BY DEF Content!ValidAddress, Content!ValidHeaderValue, Content!FormatAddress

LEMMA MessageStep == MessageInv /\ [Content!Next]_(Content!vars) => MessageInv'
<1> SUFFICES ASSUME MessageInv, [Content!Next]_(Content!vars) PROVE MessageInv'
  OBVIOUS
<1>1. CASE Content!PostEmail
  <2>1. PICK f \in Content!Form : Content!Accepts(f) /\ row' = f
    BY <1>1 DEF Content!PostEmail
  <2>2. f \in QueuedRow
    BY DEF Content!Form, QueuedRow
  <2>3. Clean(f) => Content!Builds(f)
    BY <2>1 DEF Clean, Content!Accepts, Content!Builds, Content!ValidHeaderValue
  <2> QED BY <2>1, <2>2, <2>3 DEF MessageInv
<1>2. CASE Content!EnqueueNotice
  <2>1. PICK subject \in {"plain", "broken"} :
          row' = [system |-> TRUE, from |-> "", to |-> "", replyTo |-> "", subject |-> subject,
                  html |-> FALSE, text |-> TRUE, customs |-> <<>>]
    BY <1>2 DEF Content!EnqueueNotice
  <2>2. row' \in QueuedRow
    BY <2>1 DEF QueuedRow, Content!Text
  <2>3. Content!ValidHeaders(row')
    <3>1. row'.customs = <<>>
      BY <2>1
    <3>2. \A k \in DOMAIN <<>> : FALSE
      OBVIOUS
    <3>3. \A k \in DOMAIN row'.customs : FALSE
      BY <3>1, <3>2
    <3> QED BY <3>3 DEF Content!ValidHeaders
  <2>4. row'.replyTo = "" /\ row'.system /\ row'.subject = subject
    BY <2>1
  <2>5. Clean(row') => Content!Builds(row')
    BY <2>3, <2>4, NamesAreEncoded DEF Clean, Content!Builds, Content!ValidHeaderValue
  <2> QED BY <2>2, <2>5 DEF MessageInv
<1>3. ASSUME NEW to \in Content!Text, Content!Readdress(to) PROVE MessageInv'
  <2>1. row \in QueuedRow /\ row' = [row EXCEPT !.to = to]
    BY <1>3 DEF Content!Readdress, MessageInv
  <2>2. /\ row' \in QueuedRow
        /\ row'.customs = row.customs /\ row'.subject = row.subject
        /\ row'.replyTo = row.replyTo /\ row'.system = row.system
    BY <2>1 DEF QueuedRow
  <2>3. Clean(row) => Content!Builds(row)
    BY <1>3 DEF Content!Readdress, MessageInv
  <2>4. Clean(row') => Content!Builds(row')
    BY <2>2, <2>3, NamesAreEncoded DEF Clean, Content!Builds, Content!ValidHeaders
  <2> QED BY <2>2, <2>4 DEF MessageInv
<1>4. CASE Content!BuildMessage
  BY <1>4 DEF Content!BuildMessage, MessageInv
<1>5. CASE UNCHANGED Content!vars
  BY <1>5 DEF Content!vars, MessageInv
<1> QED BY <1>1, <1>2, <1>3, <1>4, <1>5 DEF Content!Next

\* Whatever custom headers there are: what the API accepts, the notifier queues or
\* an operator re-addresses can be built at every try, but for a line break in a
\* comment of reply_to or in the domain of a rate alert.
THEOREM AcceptedCanBeBuilt == Spec => []AcceptedIsBuildable
<1>1. Init => MessageInv
  BY DEF Init, Content!Init, MessageInv
<1>2. MessageInv /\ [Next]_vars => MessageInv'
  BY FollowsParts, MessageStep
<1>3. MessageInv => AcceptedIsBuildable
  BY DEF MessageInv, Clean, AcceptedIsBuildable, Content!AcceptedIsBuildable
<1> QED BY <1>1, <1>2, <1>3, PTL DEF Spec

(* The message of a try.                                                    *)

\* The custom headers of a queued email are finitely many.
LEMMA CustomsAreFinite ==
  ASSUME IsFiniteSet(CustomNames), NEW r \in QueuedRow
  PROVE  DOMAIN r.customs \in SUBSET Content!CustomKey /\ IsFiniteSet(DOMAIN r.customs)
<1> DEFINE Parts3 == (CustomNames \X {"lower", "mixed", "longer"}) \X BOOLEAN
           f == [p \in Parts3 |-> [name |-> p[1][1], spelling |-> p[1][2], broken |-> p[2]]]
<1>1. IsFiniteSet({"lower", "mixed", "longer"}) /\ IsFiniteSet(BOOLEAN)
  <2>1. ASSUME NEW a, NEW b PROVE IsFiniteSet({a, b})
    <3>1. IsFiniteSet({a}) /\ {a, b} = {a} \cup {b}
      BY FS_Singleton
    <3> QED BY <3>1, FS_AddElement
  <2>2. BOOLEAN = {TRUE, FALSE} /\ {"lower", "mixed", "longer"} = {"lower", "mixed"} \cup {"longer"}
    OBVIOUS
  <2> QED BY <2>1, <2>2, FS_AddElement
<1>2. IsFiniteSet(Parts3)
  BY <1>1, FS_Product
<1>3. f \in Surjection(Parts3, Content!CustomKey)
  <2>1. f \in [Parts3 -> Content!CustomKey]
    BY DEF Content!CustomKey
  <2>2. ASSUME NEW k \in Content!CustomKey
        PROVE  \E p \in Parts3 : f[p] = k
    <3>1. <<<<k.name, k.spelling>>, k.broken>> \in Parts3
      BY DEF Content!CustomKey
    <3>2. f[<<<<k.name, k.spelling>>, k.broken>>] = k
      BY <3>1 DEF Content!CustomKey
    <3> QED BY <3>1, <3>2
  <2> QED BY <2>1, <2>2 DEF Surjection
<1>4. IsFiniteSet(Content!CustomKey)
  BY <1>2, <1>3, FS_Surjection
<1>5. r.customs = <<>> \/ r.customs \in Content!Customs
  BY DEF QueuedRow
<1>6. DOMAIN r.customs \in SUBSET Content!CustomKey
  <2>1. CASE r.customs = <<>>
    <3>1. DOMAIN r.customs = {}
      BY <2>1
    <3> QED BY <3>1
  <2>2. CASE r.customs \in Content!Customs
    BY <2>2 DEF Content!Customs
  <2> QED BY <1>5, <2>1, <2>2
<1> QED BY <1>4, <1>6, FS_Subset

\* Names of header fields, and the custom ones of an email.
FieldNames == CustomNames \cup Content!Reserved

\* A field that a custom header of r may make.
Custom(r, name) == name \in Content!Reserved => Content!Shadowed(r, name)

LEMMA CustomFieldsAreNames ==
  ASSUME IsFiniteSet(CustomNames), NEW r \in QueuedRow, Content!ValidHeaders(r)
  PROVE  /\ Content!CustomFields(r) \in Seq(FieldNames)
         /\ \A i \in DOMAIN Content!CustomFields(r) : Custom(r, Content!CustomFields(r)[i])
<1> DEFINE K == DOMAIN r.customs
           n == Cardinality(K)
           t == Content!SetToSeq(K)
<1>1. K \in SUBSET Content!CustomKey /\ n \in Nat /\ ExistsBijection(1..n, K)
  BY CustomsAreFinite, FS_CardinalityType
<1>2. PICK g \in [1..n -> K] : \A a, b \in 1..n : g[a] = g[b] => a = b
  BY <1>1 DEF ExistsBijection, Bijection, Injection, IsInjective
<1>3. Content!Cardinality(K) = n
  BY DEF Content!Cardinality, Cardinality
<1>4. Content!IsInjective(g)
  BY <1>2 DEF Content!IsInjective
<1>5. t \in [1..n -> K]
  BY <1>2, <1>3, <1>4 DEF Content!SetToSeq
<1>6. Content!CustomFields(r) = [i \in 1..n |-> t[i].name]
  <2>1. DOMAIN t = 1..n
    BY <1>5
  <2> QED BY <2>1 DEF Content!CustomFields
<1>7. \A i \in 1..n : t[i].name \in CustomNames /\ Custom(r, t[i].name)
  <2> SUFFICES ASSUME NEW i \in 1..n PROVE t[i].name \in CustomNames /\ Custom(r, t[i].name)
    OBVIOUS
  <2>1. t[i] \in K /\ t[i].name \in CustomNames
    BY <1>1, <1>5 DEF Content!CustomKey
  <2>2. ~Content!IsReserved(t[i])
    BY <2>1 DEF Content!ValidHeaders
  <2> QED BY <2>1, <2>2 DEF Custom, Content!IsReserved, Content!Shadowed
<1> QED BY <1>1, <1>6, <1>7 DEF FieldNames
\* Where the fields of a message are: p is 1 if the email has a reply_to, and c
\* the number of its custom headers.
LEMMA WhereFieldsAre ==
  ASSUME IsFiniteSet(CustomNames), NEW r \in QueuedRow, Content!ValidHeaders(r)
  PROVE  \E p \in {0, 1}, c \in Nat :
           LET F == <<"dkim-signature">> \o Content!Fields(r)
           IN  /\ F \in Seq(FieldNames) /\ Len(F) = 8 + p + c
               /\ F[1] = "dkim-signature" /\ F[2] = "from" /\ F[3] = "to"
               /\ p = 1 => F[4] = "reply-to"
               /\ F[4+p] = "subject" /\ F[5+p] = "date" /\ F[6+p] = "message-id"
               /\ F[7+p] = "mime-version" /\ F[8+p+c] = "content-type"
               /\ \A i \in (8+p)..(7+p+c) : Custom(r, F[i])
<1> DEFINE R == IF r.replyTo = "" THEN <<>> ELSE <<"reply-to">>
           p == Len(R)
           C == Content!CustomFields(r)
           c == Len(C)
           A == <<"from", "to">> \o R
           B == A \o <<"subject", "date", "message-id", "mime-version">>
           D == B \o C
           E == D \o <<"content-type">>
           F == <<"dkim-signature">> \o E
<1>1. /\ C \in Seq(FieldNames) /\ c \in Nat
      /\ \A i \in 1..c : Custom(r, C[i])
  BY CustomFieldsAreNames
<1>2. /\ R \in Seq(FieldNames) /\ p \in {0, 1}
      /\ p = 1 => R[1] = "reply-to"
  <2>1. "reply-to" \in FieldNames
    BY DEF FieldNames, Content!Reserved
  <2>2. R = <<>> \/ R = <<"reply-to">>
    OBVIOUS
  <2> HIDE DEF R
  <2>3. CASE R = <<>>
    BY <2>1, <2>3 DEF p
  <2>4. CASE R = <<"reply-to">>
    BY <2>1, <2>4 DEF p
  <2> QED BY <2>2, <2>3, <2>4
<1>3. /\ <<"from", "to">> \in Seq(FieldNames) /\ <<"content-type">> \in Seq(FieldNames)
      /\ <<"dkim-signature">> \in Seq(FieldNames)
      /\ <<"subject", "date", "message-id", "mime-version">> \in Seq(FieldNames)
  BY DEF FieldNames, Content!Reserved
<1>4. Content!Fields(r) = E
  BY DEF Content!Fields
<1> HIDE DEF C, c, R, p
<1>5. /\ A \in Seq(FieldNames) /\ Len(A) = 2 + p
      /\ A[1] = "from" /\ A[2] = "to" /\ (p = 1 => A[3] = "reply-to")
  BY <1>2, <1>3, ConcatProperties DEF p
<1> HIDE DEF A
<1>6. /\ B \in Seq(FieldNames) /\ Len(B) = 6 + p
      /\ \A i \in 1..(2+p) : B[i] = A[i]
      /\ B[3+p] = "subject" /\ B[4+p] = "date" /\ B[5+p] = "message-id"
      /\ B[6+p] = "mime-version"
  BY <1>2, <1>3, <1>5, ConcatProperties
<1> HIDE DEF B
<1>7. /\ D \in Seq(FieldNames) /\ Len(D) = 6 + p + c
      /\ \A i \in 1..(6+p) : D[i] = B[i]
      /\ \A i \in 1..c : D[6+p+i] = C[i]
  BY <1>1, <1>2, <1>6, ConcatProperties DEF c
<1> HIDE DEF D
<1>8. /\ E \in Seq(FieldNames) /\ Len(E) = 7 + p + c
      /\ \A i \in 1..(6+p+c) : E[i] = D[i]
      /\ E[7+p+c] = "content-type"
  BY <1>1, <1>2, <1>3, <1>7, ConcatProperties
<1> HIDE DEF E
<1>9. /\ F \in Seq(FieldNames) /\ Len(F) = 8 + p + c
      /\ F[1] = "dkim-signature"
      /\ \A i \in 1..(7+p+c) : F[1+i] = E[i]
  BY <1>1, <1>2, <1>3, <1>8, ConcatProperties
<1> HIDE DEF F
<1>10. \A i \in 1..(6+p) : F[1+i] = B[i]
  BY <1>1, <1>2, <1>7, <1>8, <1>9
<1>11. /\ F[2] = "from" /\ F[3] = "to" /\ (p = 1 => F[4] = "reply-to")
       /\ F[4+p] = "subject" /\ F[5+p] = "date" /\ F[6+p] = "message-id"
       /\ F[7+p] = "mime-version"
  BY <1>2, <1>5, <1>6, <1>10
<1>12. F[8+p+c] = "content-type"
  BY <1>1, <1>2, <1>8, <1>9
<1>13. ASSUME NEW i \in (8+p)..(7+p+c)
       PROVE  Custom(r, F[i])
  <2>1. PICK j \in 1..c : i = 7 + p + j
    BY <1>1, <1>2
  <2>2. F[i] = D[6+p+j]
    BY <1>1, <1>2, <1>8, <1>9, <2>1
  <2>3. D[6+p+j] = C[j]
    BY <1>7
  <2> QED BY <1>1, <2>1, <2>2, <2>3
<1> QED BY <1>1, <1>2, <1>4, <1>9, <1>11, <1>12, <1>13 DEF F

\* The last message is the one its row makes, whatever became of the recipient.
WrittenInv ==
  message # Content!NoMessage =>
    /\ row # Content!NoEmail /\ row \in QueuedRow /\ Content!ValidHeaders(row)
    /\ message = [fields |-> <<"dkim-signature">> \o Content!Fields(row),
                  parts |-> Content!Parts(row)]

LEMMA WrittenStep ==
  MessageInv /\ WrittenInv /\ [Content!Next]_(Content!vars) => WrittenInv'
<1> SUFFICES ASSUME MessageInv, WrittenInv, [Content!Next]_(Content!vars) PROVE WrittenInv'
  OBVIOUS
<1>1. CASE Content!PostEmail \/ Content!EnqueueNotice
  BY <1>1 DEF Content!PostEmail, Content!EnqueueNotice, WrittenInv
<1>2. ASSUME NEW to \in Content!Text, Content!Readdress(to) PROVE WrittenInv'
  <2>1. row \in QueuedRow /\ row' = [row EXCEPT !.to = to] /\ UNCHANGED message
    BY <1>2 DEF Content!Readdress, MessageInv
  <2>2. /\ row' \in QueuedRow
        /\ row'.customs = row.customs /\ row'.replyTo = row.replyTo
        /\ row'.html = row.html /\ row'.text = row.text
    BY <2>1 DEF QueuedRow
  <2>3. row' # Content!NoEmail
    BY <2>2 DEF QueuedRow, Content!NoEmail
  <2>4. Content!Fields(row') = Content!Fields(row) /\ Content!Parts(row') = Content!Parts(row)
    BY <2>2 DEF Content!Fields, Content!CustomFields, Content!Parts
  <2>5. Content!ValidHeaders(row) => Content!ValidHeaders(row')
    BY <2>2 DEF Content!ValidHeaders
  <2> QED BY <2>1, <2>2, <2>3, <2>4, <2>5 DEF WrittenInv
<1>3. CASE Content!BuildMessage
  <2>1. CASE Content!Builds(row)
    <3>1. row # Content!NoEmail /\ row \in QueuedRow /\ UNCHANGED row
      BY <1>3 DEF Content!BuildMessage, MessageInv
    <3>2. message' = [fields |-> <<"dkim-signature">> \o Content!Fields(row),
                      parts |-> Content!Parts(row)]
      BY <1>3, <2>1 DEF Content!BuildMessage, Content!SignMessage
    <3> QED BY <2>1, <3>1, <3>2 DEF WrittenInv, Content!Builds
  <2>2. CASE ~Content!Builds(row)
    BY <1>3, <2>2 DEF Content!BuildMessage, WrittenInv
  <2> QED BY <2>1, <2>2
<1>4. CASE UNCHANGED Content!vars
  BY <1>4 DEF Content!vars, WrittenInv
<1> QED BY <1>1, <1>2, <1>3, <1>4 DEF Content!Next

LEMMA WrittenOnce ==
  ASSUME IsFiniteSet(CustomNames), WrittenInv
  PROVE  Content!SignedHeadersOnce
<1> SUFFICES ASSUME message # Content!NoMessage PROVE Content!SignedHeadersOnce
  BY DEF Content!SignedHeadersOnce
<1> DEFINE F == message.fields
<1>1. /\ row \in QueuedRow /\ Content!ValidHeaders(row)
      /\ F = <<"dkim-signature">> \o Content!Fields(row)
      /\ message.parts = Content!Parts(row)
  BY DEF WrittenInv
<1>2. PICK p \in {0, 1}, c \in Nat :
        /\ F \in Seq(FieldNames) /\ Len(F) = 8 + p + c
        /\ F[1] = "dkim-signature" /\ F[2] = "from" /\ F[3] = "to"
        /\ p = 1 => F[4] = "reply-to"
        /\ F[4+p] = "subject" /\ F[5+p] = "date" /\ F[6+p] = "message-id"
        /\ F[7+p] = "mime-version" /\ F[8+p+c] = "content-type"
        /\ \A i \in (8+p)..(7+p+c) : Custom(row, F[i])
  <2> DEFINE G == <<"dkim-signature">> \o Content!Fields(row)
  <2>1. \E p \in {0, 1}, c \in Nat :
          /\ G \in Seq(FieldNames) /\ Len(G) = 8 + p + c
          /\ G[1] = "dkim-signature" /\ G[2] = "from" /\ G[3] = "to"
          /\ p = 1 => G[4] = "reply-to"
          /\ G[4+p] = "subject" /\ G[5+p] = "date" /\ G[6+p] = "message-id"
          /\ G[7+p] = "mime-version" /\ G[8+p+c] = "content-type"
          /\ \A i \in (8+p)..(7+p+c) : Custom(row, G[i])
    BY <1>1, WhereFieldsAre
  <2>2. F = G
    BY <1>1
  <2> HIDE DEF F, G
  <2> QED BY <2>1, <2>2
<1> HIDE DEF F
<1>3. DOMAIN F = 1..(8+p+c)
  BY <1>2
<1>4. \A i \in DOMAIN F : \/ i \in {1, 2, 3, 4+p, 5+p, 6+p, 7+p, 8+p+c}
                          \/ p = 1 /\ i = 4
                          \/ i \in (8+p)..(7+p+c)
  BY <1>3
<1>5. ASSUME NEW k \in Content!SignedHeaders \cup {"dkim-signature"}, ~Content!Shadowed(row, k)
      PROVE  \E j \in DOMAIN F : {i \in DOMAIN F : F[i] = k} = {j}
  <2>1. k \in Content!Reserved /\ k \in {"dkim-signature", "from", "to", "subject", "date",
                                         "message-id", "mime-version", "content-type"}
    BY DEF Content!SignedHeaders, Content!Reserved
  <2>2. PICK j \in {1, 2, 3, 4+p, 5+p, 6+p, 7+p, 8+p+c} : F[j] = k
    BY <1>2, <2>1
  <2>3. j \in DOMAIN F
    BY <1>3
  <2>4. ASSUME NEW i \in DOMAIN F, F[i] = k PROVE i = j
    <3>1. i \in {1, 2, 3, 4+p, 5+p, 6+p, 7+p, 8+p+c}
      BY <1>2, <1>4, <1>5, <2>1, <2>4 DEF Custom
    <3> QED BY <1>2, <2>2, <2>4, <3>1
  <2> QED BY <2>2, <2>3, <2>4
<1>6. \A k \in Content!SignedHeaders \cup {"dkim-signature"} : ~Content!Shadowed(row, k) =>
        Content!Cardinality({i \in DOMAIN F : F[i] = k}) = 1
  <2>1. \A j : Content!Cardinality({j}) = 1
    BY FS_Singleton DEF Content!Cardinality, Cardinality
  <2> QED BY <1>5, <2>1
<1>7. /\ row.html => \E i \in DOMAIN message.parts : message.parts[i] = "html"
      /\ row.text => \E i \in DOMAIN message.parts : message.parts[i] = "text"
  <2>1. row.html \in BOOLEAN /\ row.text \in BOOLEAN
    BY <1>1 DEF QueuedRow
  <2>2. CASE row.html /\ row.text
    <3>1. message.parts = <<"text", "html">>
      <4>1. Content!Parts(row) = <<"text", "html">>
        BY <2>2 DEF Content!Parts
      <4> QED BY <1>1, <4>1
    <3>2. 1 \in DOMAIN message.parts /\ 2 \in DOMAIN message.parts
      BY <3>1
    <3> QED BY <3>1, <3>2
  <2>3. CASE row.html /\ ~row.text
    BY <1>1, <2>3 DEF Content!Parts
  <2>4. CASE ~row.html
    BY <1>1, <2>4 DEF Content!Parts
  <2> QED BY <2>1, <2>2, <2>3, <2>4
<1> QED BY <1>6, <1>7 DEF F, Content!SignedHeadersOnce

\* Whatever custom headers there are, however many and in whatever case: a header
\* that DKIM signs is in the message once, unless a custom key that is no field
\* name makes the same field, and each body the email has is in it.
THEOREM HeadersAreSignedOnce ==
  ASSUME IsFiniteSet(CustomNames)
  PROVE  Spec => []SignedHeadersOnce
<1>1. Init => MessageInv /\ WrittenInv
  BY DEF Init, Content!Init, MessageInv, WrittenInv
<1>2. MessageInv /\ WrittenInv /\ [Next]_vars => MessageInv' /\ WrittenInv'
  BY FollowsParts, MessageStep, WrittenStep
<1>3. WrittenInv => Content!SignedHeadersOnce
  BY WrittenOnce
<1> QED BY <1>1, <1>2, <1>3, PTL DEF Spec, SignedHeadersOnce
=============================================================================
