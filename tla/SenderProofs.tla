---------------------------- MODULE SenderProofs ----------------------------
(***************************************************************************)
(* What holds of one Send for any finite number of hosts, any preferences  *)
(* and any cap on the hosts tried.                                         *)
(***************************************************************************)
EXTENDS Service, FiniteSetTheorems, SequenceTheorems, TLAPS

LEMMA FollowsSending == [Next]_vars => [Send!Next]_(Send!vars)
BY DEF Next, vars, OnStart, OnApi, OnMessage, OnSend, OnConn, OnLife, startVars, apiVars,
       messageVars, sendVars, connVars, lifeVars, Send!vars

-----------------------------------------------------------------------------
(* The walk over the hosts.                                                 *)

\* The hosts to come are distinct.
Distinct(s) == \A i, j \in DOMAIN s : i # j => s[i] # s[j]

LEMMA RoutesAreDistinct ==
  ASSUME IsFiniteSet(Hosts), NEW mx \in SUBSET Hosts, NEW s \in Send!Routes(mx)
  PROVE  s \in Seq(Send!AllHosts) /\ Distinct(s)
<1>1. Cardinality(mx) \in Nat
  BY FS_Subset, FS_CardinalityType
<1>2. Send!Cardinality(mx) = Cardinality(mx)
  BY DEF Send!Cardinality, Cardinality
<1>3. PICK t \in Send!SetToSeqs(mx) : s = Send!Capped(t)
  BY DEF Send!Routes
<1>4. /\ t \in [1..Cardinality(mx) -> mx]
      /\ \A i, j \in 1..Cardinality(mx) : i # j => t[i] # t[j]
  BY <1>2, <1>3 DEF Send!SetToSeqs
<1>5. t \in Seq(Send!AllHosts) /\ Len(t) = Cardinality(mx)
  BY <1>1, <1>4 DEF Send!AllHosts
<1>6. PICK n \in 0..Len(t) : s = SubSeq(t, 1, n)
  BY <1>1, <1>3, <1>5, ServiceAssumption DEF Send!Capped, Send!SenderAssumption
<1>7. s \in Seq(Send!AllHosts) /\ Len(s) = n /\ \A i \in 1..n : s[i] = t[i]
  BY <1>1, <1>5, <1>6, SubSeqProperties
<1> QED BY <1>4, <1>5, <1>6, <1>7 DEF Distinct

\* Steps at which Send is at its current host.
AtHost == {"dial", "starttls", "helloTLS", "redial", "hello", "mail", "rcpt", "data", "write",
           "dot", "quit"}

\* The hosts to come are fresh; the current one has neither refused nor, before
\* QUIT, taken the message; a 5xx ends the Send; and a copy that nobody knows of
\* is excused by an answer that went wrong.
Fresh(h) == refused[h] = {} /\ accepted[h] = 0
SendInv ==
  /\ dns.mx \in SUBSET Hosts
  /\ phase \in AtHost \cup {"build", "lookup", "next", "done"}
  /\ route \in Seq(Send!AllHosts) /\ host \in Send!AllHosts /\ Distinct(route)
  /\ refused \in [Send!AllHosts -> SUBSET Send!SMTPError]
  /\ accepted \in [Send!AllHosts -> Nat]
  /\ excused \in BOOLEAN
  /\ \A i \in DOMAIN route : Fresh(route[i])
  /\ phase \in {"build", "lookup"} => \A h \in Send!AllHosts : Fresh(h)
  /\ phase \in AtHost =>
       /\ \A i \in DOMAIN route : route[i] # host
       /\ refused[host] = {} /\ accepted[host] = (IF phase = "quit" THEN 1 ELSE 0)
  /\ phase # "done" => \A h \in Send!AllHosts : "5xx" \notin refused[h]
  /\ ~excused => \A h \in Send!AllHosts :
       accepted[h] > 0 => h = host /\ (phase = "quit" \/ (phase = "done" /\ result = "ok"))
  /\ result \in {"none", "ok", "temp", "perm"}
  /\ result # "none" <=> phase = "done"
  /\ result = "ok" => accepted[host] = 1

\* A host that fails: the Send goes on or ends.  Only an answer that went wrong
\* leaves the message there.
LEMMA HostFailsKeeps ==
  ASSUME SendInv, phase \in AtHost, NEW e \in Send!Error, Send!HostFails(e),
         UNCHANGED dns, accepted' \in [Send!AllHosts -> Nat], excused' \in BOOLEAN,
         \A h \in Send!AllHosts : h # host => accepted'[h] = accepted[h],
         excused' \/ (phase # "quit" /\ UNCHANGED <<accepted, excused>>),
         \/ UNCHANGED refused
         \/ e \in Send!SMTPError /\ refused' = [refused EXCEPT ![host] = @ \cup {e}]
  PROVE  SendInv'
<1>1. \/ phase' = "done" /\ result' = "perm" /\ UNCHANGED <<route, host>>
      \/ e # "5xx" /\ phase' = "next" /\ UNCHANGED <<route, host, result>>
  BY DEF Send!HostFails, Send!Finish, Send!Classify
<1>2. /\ refused' \in [Send!AllHosts -> SUBSET Send!SMTPError]
      /\ \A h \in Send!AllHosts : h # host => refused'[h] = refused[h]
      /\ refused'[host] \subseteq refused[host] \cup {e}
  <2>1. refused \in [Send!AllHosts -> SUBSET Send!SMTPError] /\ host \in Send!AllHosts
    BY DEF SendInv
  <2>2. CASE UNCHANGED refused
    BY <2>1, <2>2
  <2>3. CASE e \in Send!SMTPError /\ refused' = [refused EXCEPT ![host] = @ \cup {e}]
    <3>1. refused[host] \cup {e} \in SUBSET Send!SMTPError
      BY <2>1, <2>3
    <3> QED BY <2>1, <2>3, <3>1
  <2> QED BY <2>2, <2>3
<1>3. \A i \in DOMAIN route : refused'[route[i]] = {} /\ accepted'[route[i]] = 0
  <2> SUFFICES ASSUME NEW i \in DOMAIN route
               PROVE  refused'[route[i]] = {} /\ accepted'[route[i]] = 0
    OBVIOUS
  <2>1. route[i] \in Send!AllHosts /\ route[i] # host /\ Fresh(route[i])
    BY DEF SendInv
  <2> QED BY <1>2, <2>1 DEF Fresh
<1>4. ~excused' => \A h \in Send!AllHosts : ~(accepted'[h] > 0)
  BY DEF SendInv, AtHost
<1>5. phase' # "done" => \A h \in Send!AllHosts : "5xx" \notin refused'[h]
  BY <1>1, <1>2 DEF SendInv, AtHost
<1>6. /\ phase' \in {"next", "done"} /\ result' \in {"none", "perm"}
      /\ result' # "none" <=> phase' = "done"
      /\ UNCHANGED <<route, host>>
  BY <1>1 DEF SendInv, AtHost
<1> QED BY <1>2, <1>3, <1>4, <1>5, <1>6 DEF SendInv, AtHost, Fresh

\* A step of the dialogue that the server does not fault.
LEMMA GoesKeeps ==
  ASSUME SendInv, phase \in AtHost \ {"quit"}, NEW p \in AtHost \ {"quit"}, Send!Goes(p),
         UNCHANGED <<dns, refused, accepted, excused>>
  PROVE  SendInv'
BY DEF SendInv, AtHost, Send!Goes, Fresh, Distinct

\* A Send that ends before a host is tried, or when none is left.
LEMMA FinishKeeps ==
  ASSUME SendInv, phase \in {"build", "lookup", "next"}, NEW r \in {"temp", "perm"},
         Send!Finish(r), UNCHANGED <<dns, refused, accepted, excused>>
  PROVE  SendInv'
<1>1. ~excused => \A h \in Send!AllHosts : ~(accepted[h] > 0)
  BY DEF SendInv
<1> QED BY <1>1 DEF SendInv, AtHost, Send!Finish, Fresh, Distinct

LEMMA SendInit == Init => SendInv
<1> SUFFICES ASSUME Init PROVE SendInv
  OBVIOUS
<1>1. Send!Init
  BY DEF Init
<1>2. dns.mx \in SUBSET Hosts /\ route = <<>> /\ host \in Send!AllHosts
  BY <1>1 DEF Send!Init, Send!AllHosts
<1>3. route \in Seq(Send!AllHosts) /\ DOMAIN route = {}
  BY <1>2
<1>4. /\ refused \in [Send!AllHosts -> SUBSET Send!SMTPError]
      /\ accepted \in [Send!AllHosts -> Nat]
      /\ \A h \in Send!AllHosts : refused[h] = {} /\ accepted[h] = 0
  BY <1>1 DEF Send!Init
<1>5. phase = "build" /\ result = "none" /\ excused = FALSE
  BY <1>1 DEF Send!Init
<1>6. \A h \in Send!AllHosts : Fresh(h) /\ ~(accepted[h] > 0) /\ "5xx" \notin refused[h]
  BY <1>4 DEF Fresh
<1> QED BY <1>2, <1>3, <1>4, <1>5, <1>6 DEF SendInv, AtHost, Distinct

LEMMA SendStep ==
  ASSUME IsFiniteSet(Hosts), SendInv, [Send!Next]_(Send!vars)
  PROVE  SendInv'
<1> USE DEF Send!Succeeds, Send!IsRefused, Send!Breaks, Send!FallsBack
<1>1. CASE Send!Build
  <2>1. phase = "build" /\ UNCHANGED <<dns, refused, accepted, excused>>
    BY <1>1 DEF Send!Build, Send!NoHistory
  <2>2. CASE Send!Goes("lookup")
    BY <2>1, <2>2 DEF SendInv, AtHost, Send!Goes, Fresh, Distinct
  <2>3. CASE Send!Finish("temp")
    BY <2>1, <2>3, FinishKeeps
  <2> QED BY <1>1, <2>2, <2>3 DEF Send!Build
<1>2. CASE Send!LookupMX
  <2>1. phase = "lookup" /\ UNCHANGED <<dns, refused, accepted, excused>>
    BY <1>2 DEF Send!LookupMX, Send!NoHistory
  <2>2. ASSUME NEW s \in Seq(Send!AllHosts), Distinct(s), Send!StartRoute(s)
        PROVE  SendInv'
    <3>1. \A i \in DOMAIN s : s[i] \in Send!AllHosts
      BY <2>2
    <3>2. \A h \in Send!AllHosts : refused'[h] = {} /\ accepted'[h] = 0
      BY <2>1 DEF SendInv, Fresh
    <3>3. route' = s /\ phase' = "next" /\ UNCHANGED <<host, result>>
      BY <2>2 DEF Send!StartRoute
    <3> QED BY <2>1, <2>2, <3>1, <3>2, <3>3 DEF SendInv, AtHost, Fresh, Distinct
  <2>3. <<Self>> \in Seq(Send!AllHosts) /\ Distinct(<<Self>>)
    BY DEF Send!AllHosts, Distinct
  <2>4. \A s \in Send!Routes(dns.mx) : s \in Seq(Send!AllHosts) /\ Distinct(s)
    BY RoutesAreDistinct DEF SendInv
  <2>5. \/ \E r \in {"temp", "perm"} : Send!Finish(r)
        \/ Send!StartRoute(<<Self>>)
        \/ \E s \in Send!Routes(dns.mx) : Send!StartRoute(s)
    BY <1>2 DEF Send!LookupMX, Send!Classify
  <2> QED BY <2>1, <2>2, <2>3, <2>4, <2>5, FinishKeeps
<1>3. CASE Send!NextHost
  <2>1. phase = "next" /\ UNCHANGED <<dns, refused, accepted, excused>>
    BY <1>3 DEF Send!NextHost, Send!NoHistory
  <2>2. CASE route = <<>>
    <3>1. Send!Finish(Send!Classify(err)) /\ Send!Classify(err) \in {"temp", "perm"}
      BY <1>3, <2>2 DEF Send!NextHost, Send!Classify
    <3> QED BY <2>1, <3>1, FinishKeeps
  <2>3. CASE route # <<>>
    <3>1. /\ host' = Head(route) /\ route' = Tail(route) /\ phase' = "dial"
          /\ UNCHANGED result
      BY <1>3, <2>3 DEF Send!NextHost
    <3>2. /\ Tail(route) \in Seq(Send!AllHosts) /\ Head(route) = route[1]
          /\ Len(route) \in Nat /\ 1 \in DOMAIN route
          /\ \A i \in DOMAIN Tail(route) : i + 1 \in DOMAIN route /\ Tail(route)[i] = route[i+1]
          /\ DOMAIN Tail(route) \subseteq Nat \ {0}
      BY <2>3, HeadTailProperties DEF SendInv
    <3>3. host' \in Send!AllHosts /\ Fresh(host')
      BY <3>1, <3>2 DEF SendInv
    <3>4. Distinct(route') /\ \A i \in DOMAIN route' : Fresh(route'[i]) /\ route'[i] # host'
      <4>1. \A i, j \in DOMAIN route : i # j => route[i] # route[j]
        BY DEF SendInv, Distinct
      <4>2. ASSUME NEW i \in DOMAIN route'
            PROVE  /\ i \in Nat \ {0} /\ i + 1 \in DOMAIN route
                   /\ route'[i] = route[i + 1] /\ Fresh(route'[i]) /\ route'[i] # host'
        <5>1. i \in Nat \ {0} /\ i + 1 \in DOMAIN route /\ route'[i] = route[i + 1] /\ i + 1 # 1
          BY <3>1, <3>2, <4>2
        <5>2. Fresh(route[i + 1])
          BY <5>1 DEF SendInv
        <5>3. host' = route[1] /\ 1 \in DOMAIN route
          BY <3>1, <3>2
        <5> QED BY <4>1, <5>1, <5>2, <5>3
      <4>3. ASSUME NEW i \in DOMAIN route', NEW j \in DOMAIN route', i # j
            PROVE  route'[i] # route'[j]
        <5>1. i + 1 # j + 1
          BY <4>2, <4>3
        <5> QED BY <4>1, <4>2, <5>1
      <4> QED BY <4>2, <4>3 DEF Distinct
    <3>5. \A h \in Send!AllHosts : accepted[h] > 0 => excused
      BY <2>1 DEF SendInv
    <3>6. /\ refused'[host'] = {} /\ accepted'[host'] = 0
          /\ \A i \in DOMAIN route' : refused'[route'[i]] = {} /\ accepted'[route'[i]] = 0
      BY <2>1, <3>3, <3>4 DEF Fresh
    <3>7. /\ dns'.mx \in SUBSET Hosts /\ excused' \in BOOLEAN /\ result' = "none"
          /\ refused' \in [Send!AllHosts -> SUBSET Send!SMTPError]
          /\ accepted' \in [Send!AllHosts -> Nat]
          /\ \A h \in Send!AllHosts : "5xx" \notin refused'[h]
      BY <2>1, <3>1 DEF SendInv, AtHost
    <3> QED BY <2>1, <3>1, <3>2, <3>3, <3>4, <3>5, <3>6, <3>7 DEF SendInv, AtHost, Fresh
  <2> QED BY <2>2, <2>3
<1>4. ASSUME NEW p \in {"dial", "redial"}, NEW a \in {"starttls", "hello"}, Send!Dial(p, a)
      PROVE  SendInv'
  <2>1. phase = p /\ UNCHANGED <<dns, refused, accepted, excused>>
    BY <1>4 DEF Send!Dial
  <2>2. CASE Send!Goes(a)
    BY <2>1, <2>2, GoesKeeps DEF AtHost
  <2>3. CASE \E e \in Send!Error : Send!HostFails(e)
    BY <2>1, <2>3, HostFailsKeeps DEF SendInv, AtHost
  <2> QED BY <1>4, <2>2, <2>3 DEF Send!Dial, Send!Error
<1>5. ASSUME NEW p \in AtHost \ {"quit"}, phase \in AtHost \ {"quit"},
             UNCHANGED <<dns, accepted, excused>>,
             \/ Send!Goes(p) /\ UNCHANGED refused
             \/ \E e \in Send!SMTPError : Send!Answers(e) /\ Send!HostFails(e)
             \/ Send!HostFails("io") /\ UNCHANGED refused
      PROVE  SendInv'
  <2>1. CASE Send!Goes(p) /\ UNCHANGED refused
    BY <1>5, <2>1, GoesKeeps
  <2>2. CASE \E e \in Send!SMTPError : Send!Answers(e) /\ Send!HostFails(e)
    BY <1>5, <2>2, HostFailsKeeps DEF SendInv, Send!Answers, Send!Error
  <2>3. CASE Send!HostFails("io") /\ UNCHANGED refused
    BY <1>5, <2>3, HostFailsKeeps DEF SendInv, Send!Error
  <2> QED BY <1>5, <2>1, <2>2, <2>3
<1>6. ASSUME NEW p \in {"helloTLS", "mail"}, phase \in {"starttls", "helloTLS"},
             UNCHANGED <<dns, accepted, excused>>,
             \/ Send!Goes(p) /\ UNCHANGED refused
             \/ \E e \in Send!SMTPError : Send!Answers(e) /\ Send!HostFails(e)
             \/ Send!Goes("redial") /\ UNCHANGED refused
      PROVE  SendInv'
  BY <1>5, <1>6 DEF AtHost
<1>7. CASE Send!StartTLS
  BY <1>6, <1>7 DEF Send!StartTLS, Send!NoAnswer
<1>8. CASE Send!HelloTLS
  BY <1>6, <1>8 DEF Send!HelloTLS, Send!NoAnswer
<1>9. CASE \E p \in DOMAIN Send!After : Send!Command(p)
  <2>1. PICK p \in {"hello", "mail", "rcpt", "data"} : Send!Command(p)
    BY <1>9 DEF Send!After
  <2>2. Send!After[p] \in AtHost \ {"quit"}
    BY DEF Send!After, AtHost
  <2> QED BY <1>5, <2>1, <2>2 DEF Send!Command, Send!NoAnswer, AtHost
<1>10. CASE Send!Write
  <2>1. /\ phase = "write" /\ UNCHANGED <<dns, refused, accepted, excused>>
        /\ Send!Goes("dot") \/ Send!HostFails("io")
    BY <1>10 DEF Send!Write, Send!NoAnswer
  <2> QED BY <1>5, <2>1 DEF AtHost
<1>11. CASE Send!Close
  <2>1. phase = "dot" /\ UNCHANGED dns
    BY <1>11 DEF Send!Close
  <2>2. ASSUME Send!Takes
        PROVE  /\ accepted' \in [Send!AllHosts -> Nat]
               /\ accepted'[host] = 1
               /\ \A h \in Send!AllHosts : h # host => accepted'[h] = accepted[h]
    BY <2>1, <2>2 DEF SendInv, AtHost, Send!Takes
  <2>3. CASE Send!Takes /\ Send!Goes("quit") /\ UNCHANGED <<refused, excused>>
    <3>1. phase' = "quit" /\ UNCHANGED <<route, host, result>>
      BY <2>3 DEF Send!Goes
    <3>2. \A i \in DOMAIN route : route[i] \in Send!AllHosts /\ route[i] # host
      BY <2>1 DEF SendInv, AtHost
    <3>3. ~excused' => \A h \in Send!AllHosts : accepted'[h] > 0 => h = host
      BY <2>1, <2>2, <2>3 DEF SendInv
    <3> QED BY <2>1, <2>2, <2>3, <3>1, <3>2, <3>3 DEF SendInv, AtHost, Fresh, Distinct
  <2>4. CASE Send!Takes /\ Send!HostFails("io") /\ excused' = TRUE /\ UNCHANGED refused
    BY <2>1, <2>2, <2>4, HostFailsKeeps DEF AtHost, Send!Error
  <2>5. CASE \E e \in Send!SMTPError : Send!Answers(e) /\ Send!HostFails(e) /\ Send!NoAnswer
    BY <1>5, <2>1, <2>5 DEF AtHost, Send!NoAnswer
  <2>6. CASE Send!HostFails("io") /\ UNCHANGED refused /\ Send!NoAnswer
    BY <1>5, <2>1, <2>6 DEF AtHost, Send!NoAnswer
  <2> QED BY <1>11, <2>3, <2>4, <2>5, <2>6 DEF Send!Close
<1>12. CASE Send!Quit
  <2>1. phase = "quit" /\ UNCHANGED <<dns, accepted>>
    BY <1>12 DEF Send!Quit
  <2>2. CASE Send!Finish("ok") /\ UNCHANGED <<refused, excused>>
    BY <2>1, <2>2 DEF SendInv, AtHost, Send!Finish, Fresh, Distinct
  <2>3. CASE \E e \in Send!SMTPError : Send!Answers(e) /\ Send!HostFails(e) /\ excused' = TRUE
    BY <2>1, <2>3, HostFailsKeeps DEF SendInv, AtHost, Send!Answers, Send!Error
  <2>4. CASE Send!HostFails("io") /\ excused' = TRUE /\ UNCHANGED refused
    BY <2>1, <2>4, HostFailsKeeps DEF SendInv, AtHost, Send!Error
  <2> QED BY <1>12, <2>2, <2>3, <2>4 DEF Send!Quit
<1>13. CASE UNCHANGED Send!vars
  BY <1>13 DEF Send!vars, SendInv, Fresh, Distinct
<1> QED
  BY <1>1, <1>2, <1>3, <1>4, <1>7, <1>8, <1>9, <1>10, <1>11, <1>12, <1>13 DEF Send!Next

LEMMA AllSends ==
  ASSUME IsFiniteSet(Hosts)
  PROVE  Spec => []SendInv
<1>1. SendInv /\ [Next]_vars => SendInv'
  BY FollowsSending, SendStep
<1> QED BY SendInit, <1>1, PTL DEF Spec

\* For any finite number of hosts: a host that answered a command with an SMTP
\* error is not dialed again, in plaintext least of all, and nobody is dialed
\* after a 5xx.
THEOREM RefusalsAreRespected ==
  ASSUME IsFiniteSet(Hosts)
  PROVE  Spec => RefusalIsRespected
<1>1. SendInv /\ [Send!Next]_(Send!vars) =>
        [contacts' # contacts =>
           refused[host] = {} /\ \A h \in Send!AllHosts : "5xx" \notin refused[h]]_(Send!vars)
  <2> SUFFICES ASSUME SendInv, Send!Next, contacts' # contacts
               PROVE  refused[host] = {} /\ \A h \in Send!AllHosts : "5xx" \notin refused[h]
    OBVIOUS
  <2>1. phase \in {"dial", "redial"}
    BY DEF Send!Next, Send!Build, Send!LookupMX, Send!NextHost, Send!Dial, Send!StartTLS,
           Send!HelloTLS, Send!Command, Send!Write, Send!Close, Send!Quit, Send!NoHistory,
           Send!NoAnswer, Send!Takes
  <2> QED BY <2>1 DEF SendInv, AtHost
<1> QED BY <1>1, AllSends, FollowsSending, PTL DEF Spec, RefusalIsRespected, Send!RefusalIsRespected

\* For any finite number of hosts: success names a host that took the message;
\* failure without a wrong answer after the final dot has left no copy, and
\* there are never two copies without such an answer.
THEOREM WhereCopiesAre ==
  ASSUME IsFiniteSet(Hosts)
  PROVE  Spec => []CopiesAreKnown
<1>1. SendInv => Send!CopiesAreKnown
  <2> SUFFICES ASSUME SendInv PROVE Send!CopiesAreKnown
    OBVIOUS
  <2> DEFINE C == {h \in Send!AllHosts : accepted[h] > 0}
  <2>1. Send!Copies = Cardinality(C)
    BY DEF Send!Copies, Send!Cardinality, Cardinality
  <2>2. ASSUME ~excused, C = {}
        PROVE  Send!CopiesAreKnown
    <3>1. Cardinality(C) = 0
      BY <2>2, FS_EmptySet
    <3> QED BY <2>1, <3>1 DEF SendInv, Send!CopiesAreKnown
  <2>3. ASSUME ~excused, C # {}
        PROVE  Send!CopiesAreKnown
    <3>1. C = {host} /\ result \notin {"temp", "perm"}
      BY <2>3 DEF SendInv
    <3>2. Cardinality(C) = 1
      BY <3>1, FS_Singleton
    <3> QED BY <2>1, <3>1, <3>2 DEF SendInv, Send!CopiesAreKnown
  <2>4. CASE excused
    BY <2>4 DEF SendInv, Send!CopiesAreKnown
  <2> QED BY <2>2, <2>3, <2>4 DEF SendInv
<1> QED BY <1>1, AllSends, PTL DEF CopiesAreKnown
-----------------------------------------------------------------------------
(* The order of the walk.                                                   *)

\* A route holds MX hosts, and before a host all those preferred to it: the
\* cap cuts the worst ones off.
LEMMA RoutesAreBestFirst ==
  ASSUME IsFiniteSet(Hosts), NEW mx \in SUBSET Hosts, NEW s \in Send!Routes(mx)
  PROVE  \A i \in DOMAIN s :
           /\ s[i] \in mx
           /\ \A g \in mx : Pref[g] < Pref[s[i]] => \E j \in 1..(i-1) : s[j] = g
<1> DEFINE N == Cardinality(mx)
<1>1. N \in Nat /\ IsFiniteSet(mx)
  BY FS_Subset, FS_CardinalityType
<1>2. Send!Cardinality(mx) = N
  BY DEF Send!Cardinality, Cardinality
<1>3. PICK t \in Send!SetToSeqs(mx) : Send!Sorted(t) /\ s = Send!Capped(t)
  BY DEF Send!Routes
<1>4. t \in [1..N -> mx] /\ \A i, j \in 1..N : i # j => t[i] # t[j]
  BY <1>2, <1>3 DEF Send!SetToSeqs
<1>5. \A g \in mx : \E j \in 1..N : t[j] = g
  <2>1. t \in Injection(1..N, mx)
    BY <1>4 DEF Injection, IsInjective
  <2>2. Cardinality(1..N) = N
    BY <1>1, FS_Interval
  <2>3. t \in Surjection(1..N, mx)
    BY <1>1, <2>1, <2>2, FS_Injection
  <2> QED BY <2>3 DEF Surjection
<1>6. t \in Seq(mx) /\ Len(t) = N
  BY <1>1, <1>4
<1>7. PICK n \in 0..N : s = SubSeq(t, 1, n)
  BY <1>1, <1>3, <1>6, ServiceAssumption DEF Send!Capped, Send!SenderAssumption
<1>8. Len(s) = n /\ DOMAIN s = 1..n /\ \A i \in 1..n : s[i] = t[i]
  BY <1>1, <1>6, <1>7, SubSeqProperties
<1> SUFFICES ASSUME NEW i \in 1..n, NEW g \in mx, Pref[g] < Pref[t[i]]
             PROVE  \E j \in 1..(i-1) : s[j] = g
  BY <1>1, <1>4, <1>8
<1>9. PICK j \in 1..N : t[j] = g
  BY <1>5
<1>10. \A h \in mx : Pref[h] \in Nat
  BY ServiceAssumption DEF Send!SenderAssumption
<1>11. ~(i <= j)
  <2>1. i \in 1..N /\ t[i] \in mx
    BY <1>1, <1>4
  <2>2. i < j => Pref[t[i]] <= Pref[t[j]]
    BY <1>3, <1>4, <2>1 DEF Send!Sorted
  <2> QED BY <1>9, <1>10, <2>1, <2>2
<1> QED BY <1>1, <1>8, <1>9, <1>11

\* The hosts dialed so far.
Dialed == {contacts[i] : i \in DOMAIN contacts}

\* Whoever is better than the current host has been dialed, and whoever is
\* better than a host to come has been dialed, is about to be, or is to come
\* before it.
Better(h) == {g \in dns.mx : h # Self /\ Pref[g] < Pref[h]}
OrderInv ==
  /\ contacts \in Seq(Send!AllHosts)
  /\ phase \in AtHost => Better(host) \subseteq Dialed
  /\ phase \in AtHost \ {"dial"} => host \in Dialed
  /\ \A i \in DOMAIN route : \A g \in Better(route[i]) :
       \/ g \in Dialed
       \/ phase = "dial" /\ g = host
       \/ \E j \in 1..(i-1) : route[j] = g
  /\ Send!BestHostsFirst

LEMMA OrderInit == Init => OrderInv
BY DEF Init, Send!Init, OrderInv, AtHost, Send!BestHostsFirst

\* A step that dials nobody and leaves the list of hosts as it is.
LEMMA OrderKept ==
  ASSUME OrderInv, UNCHANGED <<dns, route, host, contacts>>,
         \/ UNCHANGED phase
         \/ phase # "dial" /\ phase' # "dial" /\ (phase' \in AtHost => phase \in AtHost)
  PROVE  OrderInv'
<1>1. Dialed' = Dialed /\ \A h : Better(h)' = Better(h)
  BY DEF Dialed, Better
<1>2. Send!BestHostsFirst'
  BY DEF OrderInv, Send!BestHostsFirst
<1>3. /\ phase' \in AtHost => Better(host) \subseteq Dialed
      /\ phase' \in AtHost \ {"dial"} => host \in Dialed
  BY DEF OrderInv
<1>4. \A i \in DOMAIN route : \A g \in Better(route[i]) :
        g \in Dialed \/ (phase' = "dial" /\ g = host) \/ \E j \in 1..(i-1) : route[j] = g
  BY DEF OrderInv
<1> QED BY <1>1, <1>2, <1>3, <1>4 DEF OrderInv

\* Dialing the current host.
LEMMA OrderDial ==
  ASSUME SendInv, OrderInv, phase \in {"dial", "redial"}, contacts' = Append(contacts, host),
         UNCHANGED <<dns, route, host>>, phase' # "dial"
  PROVE  OrderInv'
<1> DEFINE n == Len(contacts)
<1>1. /\ contacts \in Seq(Send!AllHosts) /\ host \in Send!AllHosts /\ n \in Nat
      /\ DOMAIN contacts = 1..n
  BY DEF OrderInv, SendInv
<1>2. /\ contacts' \in Seq(Send!AllHosts) /\ DOMAIN contacts' = 1..(n+1)
      /\ \A i \in 1..n : contacts'[i] = contacts[i]
      /\ contacts'[n+1] = host
  BY <1>1, AppendProperties
<1>3. Dialed' = Dialed \cup {host}
  BY <1>1, <1>2 DEF Dialed
<1>4. Better(host) \subseteq Dialed /\ Better(host)' = Better(host)
  BY DEF OrderInv, AtHost, Better
<1>5. ASSUME NEW i \in 1..(n+1), contacts'[i] # Self, NEW g \in dns.mx,
             Pref[g] < Pref[contacts'[i]]
      PROVE  \E j \in 1..(i-1) : contacts'[j] = g
  <2>1. CASE i \in 1..n
    <3>1. \E j \in 1..(i-1) : contacts[j] = g
      BY <1>1, <1>2, <1>5, <2>1 DEF OrderInv, Send!BestHostsFirst
    <3> QED BY <1>1, <1>2, <2>1, <3>1
  <2>2. CASE i = n + 1
    <3>1. g \in Dialed
      BY <1>2, <1>4, <1>5, <2>2 DEF Better
    <3> QED BY <1>1, <1>2, <2>2, <3>1 DEF Dialed
  <2> QED BY <1>1, <2>1, <2>2
<1>6. Send!BestHostsFirst'
  BY <1>2, <1>5 DEF Send!BestHostsFirst
<1>7. \A i \in DOMAIN route' : \A g \in Better(route[i])' :
        g \in Dialed' \/ \E j \in 1..(i-1) : route'[j] = g
  <2> SUFFICES ASSUME NEW i \in DOMAIN route, NEW g \in Better(route[i])
               PROVE  g \in Dialed \cup {host} \/ \E j \in 1..(i-1) : route[j] = g
    BY <1>3 DEF Better
  <2> QED BY DEF OrderInv
<1>8. host' \in Dialed' /\ Better(host)' \subseteq Dialed'
  BY <1>3, <1>4
<1> QED BY <1>2, <1>6, <1>7, <1>8 DEF OrderInv

LEMMA OrderStep ==
  ASSUME IsFiniteSet(Hosts), SendInv, OrderInv, [Send!Next]_(Send!vars)
  PROVE  OrderInv'
<1> USE DEF Send!Succeeds, Send!IsRefused, Send!Breaks, Send!FallsBack
<1>1. CASE Send!LookupMX
  <2>1. phase = "lookup" /\ UNCHANGED <<dns, contacts>>
    BY <1>1 DEF Send!LookupMX, Send!NoHistory
  <2>2. ASSUME NEW s, Send!StartRoute(s),
               \A i \in DOMAIN s : \A g \in Better(s[i]) : \E j \in 1..(i-1) : s[j] = g
        PROVE  OrderInv'
    BY <2>1, <2>2 DEF OrderInv, AtHost, Send!StartRoute, Dialed, Better, Send!BestHostsFirst
  <2>3. CASE \E r \in {"temp", "perm"} : Send!Finish(r)
    BY <2>1, <2>3, OrderKept DEF Send!Finish, AtHost
  <2>4. CASE Send!StartRoute(<<Self>>)
    <3>1. \A i \in DOMAIN <<Self>> : Better(<<Self>>[i]) = {}
      BY DEF Better
    <3> QED BY <2>2, <2>4, <3>1
  <2>5. CASE \E s \in Send!Routes(dns.mx) : Send!StartRoute(s)
    <3>1. PICK s \in Send!Routes(dns.mx) : Send!StartRoute(s)
      BY <2>5
    <3>2. \A i \in DOMAIN s : \A g \in Better(s[i]) : \E j \in 1..(i-1) : s[j] = g
      <4>1. dns.mx \in SUBSET Hosts
        BY DEF SendInv
      <4>2. \A i \in DOMAIN s : \A g \in dns.mx :
              Pref[g] < Pref[s[i]] => \E j \in 1..(i-1) : s[j] = g
        BY <4>1, RoutesAreBestFirst
      <4> QED BY <4>2 DEF Better
    <3> QED BY <2>2, <3>1, <3>2
  <2> QED BY <1>1, <2>3, <2>4, <2>5 DEF Send!LookupMX, Send!Classify
<1>2. CASE Send!NextHost
  <2>1. phase = "next" /\ UNCHANGED <<dns, contacts>>
    BY <1>2 DEF Send!NextHost, Send!NoHistory
  <2>2. CASE route = <<>>
    BY <1>2, <2>1, <2>2, OrderKept DEF Send!NextHost, Send!Finish, AtHost
  <2>3. CASE route # <<>>
    <3>1. host' = Head(route) /\ route' = Tail(route) /\ phase' = "dial"
      BY <1>2, <2>3 DEF Send!NextHost
    <3>2. /\ Head(route) = route[1] /\ Len(route) \in Nat \ {0}
          /\ DOMAIN route = 1..Len(route) /\ DOMAIN Tail(route) = 1..(Len(route) - 1)
          /\ \A i \in DOMAIN Tail(route) : Tail(route)[i] = route[i+1]
      BY <2>3, HeadTailProperties DEF SendInv
    <3>3. Better(host)' \subseteq Dialed' /\ Dialed' = Dialed
      BY <2>1, <3>1, <3>2 DEF OrderInv, Better, Dialed
    <3>4. ASSUME NEW i \in DOMAIN route', NEW g \in Better(route[i])'
          PROVE  g \in Dialed' \/ g = host' \/ \E j \in 1..(i-1) : route'[j] = g
      <4>1. i \in Nat /\ i + 1 \in DOMAIN route /\ g \in Better(route[i+1])
        <5>1. i \in 1..(Len(route) - 1) /\ route'[i] = route[i+1]
          BY <3>1, <3>2, <3>4
        <5>2. g \in Better(route[i+1])
          BY <2>1, <3>4, <5>1 DEF Better
        <5> QED BY <3>2, <5>1, <5>2
      <4>2. g \in Dialed \/ \E j \in 1..i : route[j] = g
        BY <2>1, <4>1 DEF OrderInv
      <4>3. ASSUME NEW j \in 1..i, route[j] = g, j # 1
            PROVE  \E k \in 1..(i-1) : route'[k] = g
        <5>1. j - 1 \in 1..(i-1) /\ j - 1 \in DOMAIN route'
          BY <3>1, <3>2, <4>1, <4>3
        <5>2. route'[j-1] = g
          BY <3>1, <3>2, <4>3, <5>1
        <5> QED BY <5>1, <5>2
      <4> QED BY <3>1, <3>2, <3>3, <4>2, <4>3
    <3>5. Send!BestHostsFirst'
      BY <2>1 DEF OrderInv, Send!BestHostsFirst
    <3>6. contacts' \in Seq(Send!AllHosts)
      BY <2>1 DEF OrderInv
    <3> QED BY <3>1, <3>3, <3>4, <3>5, <3>6 DEF OrderInv
  <2> QED BY <2>2, <2>3
<1>3. ASSUME NEW p \in {"dial", "redial"}, NEW a \in {"starttls", "hello"}, Send!Dial(p, a)
      PROVE  OrderInv'
  BY <1>3, OrderDial DEF Send!Dial, Send!Goes, Send!HostFails, Send!Finish
<1>4. CASE Send!Build
  BY <1>4, OrderKept DEF Send!Build, Send!Goes, Send!Finish, Send!NoHistory, AtHost
<1>5. ASSUME phase \in AtHost \ {"dial"}, phase' # "dial",
             UNCHANGED <<dns, route, host, contacts>>
      PROVE  OrderInv'
  BY <1>5, OrderKept
<1>6. CASE Send!StartTLS \/ Send!HelloTLS
  BY <1>5, <1>6 DEF Send!StartTLS, Send!HelloTLS, Send!Goes, Send!HostFails, Send!Finish,
                    Send!NoAnswer, AtHost
<1>7. CASE \E p \in DOMAIN Send!After : Send!Command(p)
  BY <1>5, <1>7 DEF Send!After, Send!Command, Send!Goes, Send!HostFails, Send!Finish,
                    Send!NoAnswer, AtHost
<1>8. CASE Send!Write \/ Send!Close \/ Send!Quit
  BY <1>5, <1>8 DEF Send!Write, Send!Close, Send!Quit, Send!Takes, Send!Goes, Send!HostFails,
                    Send!Finish, Send!NoHistory, Send!NoAnswer, AtHost
<1>9. CASE UNCHANGED Send!vars
  BY <1>9, OrderKept DEF Send!vars
<1> QED
  BY <1>1, <1>2, <1>3, <1>4, <1>6, <1>7, <1>8, <1>9 DEF Send!Next

\* For any finite number of hosts and any preferences: no host is dialed before
\* one that is preferred to it, nor in place of one that the cap left out.
THEOREM BestHostsAreFirst ==
  ASSUME IsFiniteSet(Hosts)
  PROVE  Spec => []BestHostsFirst
<1>1. SendInv /\ OrderInv /\ [Next]_vars => OrderInv'
  BY FollowsSending, OrderStep
<1>2. OrderInv => Send!BestHostsFirst
  BY DEF OrderInv
<1> QED BY OrderInit, <1>1, <1>2, AllSends, PTL DEF Spec, BestHostsFirst
-----------------------------------------------------------------------------
(* A Send comes to an end.                                                  *)

\* At most so many calls follow at one host, the choice of the next one included.
CallsAtHost == [build |-> 3, lookup |-> 2, next |-> 1, dial |-> 12, starttls |-> 11,
                helloTLS |-> 10, redial |-> 9, hello |-> 8, mail |-> 7, rcpt |-> 6, data |-> 5,
                write |-> 4, dot |-> 3, quit |-> 2, done |-> 0]
HostsLeft == IF phase \in {"build", "lookup"} THEN MaxMXAttempts
             ELSE IF phase = "done" THEN 0 ELSE Len(route)
CallsLeft == CallsAtHost[phase] + 12 * HostsLeft

\* The cap bounds the hosts to come, and with them the calls.
CallsInv ==
  /\ phase \in Send!Steps
  /\ route \in Seq(Send!AllHosts) /\ Len(route) <= MaxMXAttempts
  /\ CallsLeft \in 0..(3 + 12 * MaxMXAttempts)

LEMMA RoutesAreCapped ==
  ASSUME IsFiniteSet(Hosts), NEW mx \in SUBSET Hosts, NEW s \in Send!Routes(mx)
  PROVE  Len(s) <= MaxMXAttempts
<1>1. Cardinality(mx) \in Nat
  BY FS_Subset, FS_CardinalityType
<1>2. Send!Cardinality(mx) = Cardinality(mx)
  BY DEF Send!Cardinality, Cardinality
<1>3. PICK t \in Send!SetToSeqs(mx) : s = Send!Capped(t)
  BY DEF Send!Routes
<1>4. t \in Seq(mx) /\ Len(t) \in Nat
  BY <1>1, <1>2, <1>3 DEF Send!SetToSeqs
<1>5. PICK n \in 0..Len(t) : n <= MaxMXAttempts /\ s = SubSeq(t, 1, n)
  BY <1>3, <1>4, ServiceAssumption DEF Send!Capped, Send!SenderAssumption
<1> QED BY <1>4, <1>5, SubSeqProperties

\* A step that keeps the route has fewer calls to make at this host, or ends.
LEMMA SameRoute ==
  ASSUME CallsInv, MaxMXAttempts \in Nat, UNCHANGED route, phase' \in Send!Steps,
         phase' \in {"build", "lookup"} => phase \in {"build", "lookup"},
         phase \in {"build", "lookup"} => phase' \in {"build", "lookup", "done"},
         CallsAtHost[phase'] < CallsAtHost[phase]
  PROVE  CallsInv' /\ CallsLeft' < CallsLeft
<1>1. /\ CallsAtHost[phase] \in Nat /\ CallsAtHost[phase'] \in Nat
      /\ Len(route) \in Nat
  BY DEF CallsInv, CallsAtHost, Send!Steps
<1>2. phase # "done"
  BY <1>1 DEF CallsAtHost
<1>3. HostsLeft \in Nat /\ HostsLeft' \in Nat /\ HostsLeft' <= HostsLeft
  <2>1. Len(route) <= MaxMXAttempts /\ Len(route') = Len(route)
    BY DEF CallsInv
  <2> QED BY <1>1, <1>2, <2>1 DEF HostsLeft
<1>4. CallsLeft' < CallsLeft /\ CallsLeft' \in Nat /\ CallsLeft \in Nat
  BY <1>1, <1>3 DEF CallsLeft
<1> QED BY <1>4 DEF CallsInv

LEMMA CallsStep ==
  ASSUME IsFiniteSet(Hosts), SendInv, CallsInv, Send!Next
  PROVE  CallsInv' /\ CallsLeft' < CallsLeft
<1> USE DEF Send!Succeeds, Send!IsRefused, Send!Breaks, Send!FallsBack
<1>0. MaxMXAttempts \in Nat \ {0} /\ Len(route) \in Nat
  BY ServiceAssumption DEF Send!SenderAssumption, CallsInv
<1>1. CASE Send!Build
  BY <1>0, <1>1, SameRoute DEF Send!Build, Send!Goes, Send!Finish, CallsAtHost, Send!Steps
<1>2. CASE Send!LookupMX
  <2>1. ASSUME NEW r, Send!Finish(r) PROVE CallsInv' /\ CallsLeft' < CallsLeft
    BY <1>0, <1>2, <2>1, SameRoute DEF Send!LookupMX, Send!Finish, CallsAtHost, Send!Steps
  <2>2. ASSUME NEW s \in Seq(Send!AllHosts), Len(s) <= MaxMXAttempts, Send!StartRoute(s)
        PROVE  CallsInv' /\ CallsLeft' < CallsLeft
    <3>1. /\ phase = "lookup" /\ phase' = "next" /\ route' = s /\ Len(s) \in Nat
      BY <1>2, <2>2 DEF Send!LookupMX, Send!StartRoute
    <3>2. CallsLeft = 2 + 12 * MaxMXAttempts /\ CallsLeft' = 1 + 12 * Len(s)
      BY <3>1 DEF CallsLeft, HostsLeft, CallsAtHost
    <3> QED BY <1>0, <2>2, <3>1, <3>2 DEF CallsInv, Send!Steps
  <2>3. ASSUME Send!StartRoute(<<Self>>) PROVE CallsInv' /\ CallsLeft' < CallsLeft
    <3> DEFINE s == <<Self>>
    <3>1. s \in Seq(Send!AllHosts) /\ Len(s) = 1
      BY DEF Send!AllHosts
    <3>2. Send!StartRoute(s)
      BY <2>3
    <3> HIDE DEF s
    <3>3. Len(s) <= MaxMXAttempts
      BY <1>0, <3>1
    <3> QED BY <2>2, <3>1, <3>2, <3>3
  <2>4. ASSUME NEW s \in Send!Routes(dns.mx), Send!StartRoute(s)
        PROVE  CallsInv' /\ CallsLeft' < CallsLeft
    <3>1. s \in Seq(Send!AllHosts) /\ Len(s) <= MaxMXAttempts
      BY <2>4, RoutesAreDistinct, RoutesAreCapped DEF SendInv
    <3> QED BY <2>2, <2>4, <3>1
  <2> QED BY <1>2, <2>1, <2>3, <2>4 DEF Send!LookupMX
<1>3. CASE Send!NextHost
  <2>1. CASE route = <<>>
    BY <1>0, <1>3, <2>1, SameRoute DEF Send!NextHost, Send!Finish, CallsAtHost, Send!Steps
  <2>2. CASE route # <<>>
    <3>1. phase = "next" /\ phase' = "dial" /\ route' = Tail(route)
      BY <1>3, <2>2 DEF Send!NextHost
    <3>2. route' \in Seq(Send!AllHosts) /\ Len(route') = Len(route) - 1 /\ Len(route') \in Nat
      BY <2>2, <3>1, HeadTailProperties DEF CallsInv
    <3>3. CallsLeft = 1 + 12 * Len(route) /\ CallsLeft' = 12 + 12 * Len(route')
      BY <3>1 DEF CallsLeft, HostsLeft, CallsAtHost
    <3> QED BY <1>0, <3>1, <3>2, <3>3 DEF CallsInv, Send!Steps
  <2> QED BY <2>1, <2>2
\* At a host a step goes on to a later call, to the next host or to the end.
<1>4. ASSUME phase \in AtHost, UNCHANGED route,
             \/ phase' \in {"next", "done"}
             \/ phase' \in AtHost /\ CallsAtHost[phase'] < CallsAtHost[phase]
      PROVE  CallsInv' /\ CallsLeft' < CallsLeft
  <2>1. CallsAtHost[phase'] < CallsAtHost[phase]
    BY <1>4 DEF AtHost, CallsAtHost
  <2> QED BY <1>0, <1>4, <2>1, SameRoute DEF AtHost, Send!Steps
<1>5. CASE Send!Dial("dial", "starttls") \/ Send!Dial("redial", "hello")
  BY <1>4, <1>5 DEF Send!Dial, Send!Goes, Send!HostFails, Send!Finish, AtHost, CallsAtHost
<1>6. CASE Send!StartTLS \/ Send!HelloTLS
  BY <1>4, <1>6 DEF Send!StartTLS, Send!HelloTLS, Send!Goes, Send!HostFails, Send!Finish,
                    AtHost, CallsAtHost
<1>7. ASSUME NEW p \in DOMAIN Send!After, Send!Command(p)
      PROVE  CallsInv' /\ CallsLeft' < CallsLeft
  BY <1>4, <1>7 DEF Send!After, Send!Command, Send!Goes, Send!HostFails, Send!Finish,
                    AtHost, CallsAtHost
<1>8. CASE Send!Write \/ Send!Close \/ Send!Quit
  BY <1>4, <1>8 DEF Send!Write, Send!Close, Send!Quit, Send!Goes, Send!HostFails, Send!Finish,
                    AtHost, CallsAtHost
<1> QED BY <1>1, <1>2, <1>3, <1>5, <1>6, <1>7, <1>8 DEF Send!Next

\* For any finite number of hosts: every call of a Send brings it nearer to its
\* end, and there are never more than twelve to come for each host that may be
\* tried, and three.  No fallback from one host, or one way of greeting it, to
\* another leads back to where the Send has been.
THEOREM SendsAreFinite ==
  ASSUME IsFiniteSet(Hosts)
  PROVE  Spec => /\ [](CallsLeft \in 0..(3 + 12 * MaxMXAttempts))
                 /\ [][CallsLeft' < CallsLeft]_(Send!vars)
<1>1. Init => CallsInv
  <2> SUFFICES ASSUME Init PROVE CallsInv
    OBVIOUS
  <2>1. phase = "build" /\ route = <<>> /\ MaxMXAttempts \in Nat
    BY ServiceAssumption DEF Init, Send!Init, Send!SenderAssumption
  <2>2. CallsLeft = 3 + 12 * MaxMXAttempts
    BY <2>1 DEF CallsLeft, HostsLeft, CallsAtHost
  <2>3. Len(route) = 0
    BY <2>1
  <2> QED BY <2>1, <2>2, <2>3 DEF CallsInv, Send!Steps
<1>2. CallsInv /\ UNCHANGED Send!vars => CallsInv'
  BY DEF Send!vars, CallsInv, CallsLeft, HostsLeft
<1>3. SendInv /\ CallsInv /\ [Next]_vars => CallsInv'
  BY <1>2, CallsStep, FollowsSending
<1>4. SendInv /\ CallsInv /\ [Next]_vars => [CallsLeft' < CallsLeft]_(Send!vars)
  BY CallsStep, FollowsSending
<1>5. CallsInv => CallsLeft \in 0..(3 + 12 * MaxMXAttempts)
  BY DEF CallsInv
<1> QED BY <1>1, <1>3, <1>4, <1>5, AllSends, PTL DEF Spec
=============================================================================
