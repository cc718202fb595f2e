------------------------------- MODULE Sender -------------------------------
(***************************************************************************)
(* One call of Sender.Send (internal/delivery/sender.go): the walk over    *)
(* the MX hosts of the recipient's domain and, at each host, the dialogue  *)
(* with its server.  DNS and the servers answer as they like; the context  *)
(* may expire at any moment.  Delivery uses Send by its outcome only.      *)
(***************************************************************************)
EXTENDS Integers, Sequences, FiniteSets, SequencesExt

CONSTANTS
  Hosts,       \* the MX hosts a domain may publish
  Self,        \* the recipient's domain taken as a host
  Pref,        \* preference of each host
  MaxMXAttempts

SenderAssumption ==
  /\ Self \notin Hosts
  /\ Pref \in [Hosts -> Nat]
  /\ MaxMXAttempts \in Nat \ {0}

VARIABLES
  dns,      \* the domain: it exists, its MX hosts, the ones without address
  phase,    \* the call Send is about to make
  route,    \* hosts not yet tried
  host,     \* the host being tried
  err,      \* the last error of a host
  result,   \* what Send returned
  open,     \* connections dialed and not closed
  contacts, \* history: the hosts dialed, in order
  refused,  \* history: hosts that answered a command with an error, and which
  accepted, \* history: copies each host took
  excused   \* history: a host took the message but its answer, or the one to
            \* QUIT, was not the expected one

vars == <<dns, phase, route, host, err, result, open, contacts, refused, accepted, excused>>

AllHosts == Hosts \cup {Self}
SMTPError == {"4xx", "5xx"}
Error == SMTPError \cup {"io", "notFound"}

Steps == {"build", "lookup", "next", "dial", "starttls", "helloTLS", "redial", "hello",
          "mail", "rcpt", "data", "write", "dot", "quit", "done"}

TypeOK ==
  /\ dns \in [exists: BOOLEAN, mx: SUBSET Hosts, dangling: SUBSET AllHosts]
  /\ phase \in Steps
  /\ route \in Seq(AllHosts) /\ host \in AllHosts
  /\ err \in Error \cup {"none"}
  /\ result \in {"none", "ok", "temp", "perm"} /\ open \in Nat
  /\ contacts \in Seq(AllHosts) /\ Len(contacts) <= 2 * MaxMXAttempts
  /\ refused \in [AllHosts -> SUBSET SMTPError]
  /\ accepted \in [AllHosts -> 0..1]
  /\ excused \in BOOLEAN

Init ==
  /\ dns \in [exists: BOOLEAN, mx: SUBSET Hosts, dangling: SUBSET AllHosts]
  /\ dns.exists \/ dns.mx = {}
  /\ phase = "build"
  /\ route = <<>> /\ host = Self
  /\ err = "none" /\ result = "none" /\ open = 0
  /\ contacts = <<>>
  /\ refused = [h \in AllHosts |-> {}]
  /\ accepted = [h \in AllHosts |-> 0]
  /\ excused = FALSE

\* classify.go
Classify(e) == IF e \in {"5xx", "notFound"} THEN "perm" ELSE "temp"

\* The routes Send may walk: the order among equal preferences is open.
Sorted(s) == \A i, j \in DOMAIN s : i < j => Pref[s[i]] <= Pref[s[j]]
Capped(s) == SubSeq(s, 1, IF Len(s) < MaxMXAttempts THEN Len(s) ELSE MaxMXAttempts)
RoutesCappedFirst(mx) == {s \in {Capped(t) : t \in SetToSeqs(mx)} : Sorted(s)}
Routes(mx) == {Capped(s) : s \in {t \in SetToSeqs(mx) : Sorted(t)}}

-----------------------------------------------------------------------------
(* How steps end.                                                           *)

Goes(p) == phase' = p /\ UNCHANGED <<route, host, err, result>>
Finish(r) == phase' = "done" /\ result' = r /\ UNCHANGED <<route, host, err>>

\* deliverTo returned e: a permanent error ends Send, another one the host.
HostFails(e) ==
  IF Classify(e) = "perm" THEN Finish("perm")
  ELSE phase' = "next" /\ err' = e /\ UNCHANGED <<route, host, result>>

\* The server answers the current command with an error.
Answers(e) ==
  /\ e \in SMTPError
  /\ refused' = [refused EXCEPT ![host] = @ \cup {e}]

\* Close, by NewClientStartTLS or connect after an error, or deferred in deliverTo.
HangsUp == open' = open - 1
HoldsOn == UNCHANGED open

NoHistory == UNCHANGED <<contacts, refused, accepted, excused>>
NoAnswer == UNCHANGED <<contacts, accepted, excused>>

-----------------------------------------------------------------------------
\* BuildMessage and SignMessage: their errors are no SMTP errors.
Build ==
  /\ phase = "build"
  /\ Goes("lookup") \/ Finish("temp")
  /\ HoldsOn /\ NoHistory /\ UNCHANGED dns

\* LookupMX; the expired context is one of its errors.  It is a field of
\* Sender: net.DefaultResolver reports a domain without MX records as not
\* found, other resolvers return an empty list.
StartRoute(s) == phase' = "next" /\ route' = s /\ UNCHANGED <<host, err, result>>
LookupMX ==
  /\ phase = "lookup"
  /\ \/ Finish("temp")
     \/ ~dns.exists /\ Finish(Classify("notFound"))
     \/ dns.exists /\ dns.mx = {} /\ Finish(Classify("notFound"))
     \/ dns.exists /\ dns.mx = {} /\ StartRoute(<<Self>>)
     \/ dns.mx # {} /\ \E s \in Routes(dns.mx) : StartRoute(s)
  /\ HoldsOn /\ NoHistory /\ UNCHANGED dns

NextHost ==
  /\ phase = "next"
  /\ IF route = <<>> THEN Finish(Classify(err))
     ELSE /\ host' = Head(route) /\ route' = Tail(route) /\ phase' = "dial"
          /\ UNCHANGED <<err, result>>
  /\ HoldsOn /\ NoHistory /\ UNCHANGED dns

\* A host that has no address fails as not found, and any host with io: when its
\* address is not resolved this time, or its server does not answer.
Dial(p, after) ==
  /\ phase = p
  /\ contacts' = Append(contacts, host)
  /\ \/ host \notin dns.dangling /\ Goes(after) /\ open' = open + 1
     \/ HostFails("io") /\ HoldsOn
     \/ host \in dns.dangling /\ HostFails("notFound") /\ HoldsOn
  /\ UNCHANGED <<dns, refused, accepted, excused>>

\* A call that goes well, or is answered with an error, or breaks down otherwise.
Succeeds(p) == Goes(p) /\ HoldsOn /\ UNCHANGED refused
IsRefused == \E e \in SMTPError : Answers(e) /\ HostFails(e) /\ HangsUp
Breaks == HostFails("io") /\ HangsUp /\ UNCHANGED refused
FallsBack == Goes("redial") /\ HangsUp /\ UNCHANGED refused

\* smtp.NewClientStartTLS: greeting, EHLO and STARTTLS.  Only an SMTP error
\* ends the host; without STARTTLS, or with a broken dialogue, plaintext.
StartTLSAlwaysFallsBack ==
  /\ phase = "starttls"
  /\ \/ Succeeds("helloTLS")
     \/ \E e \in SMTPError : Answers(e) /\ Goes("redial") /\ HangsUp
     \/ FallsBack
  /\ NoAnswer /\ UNCHANGED dns
StartTLS ==
  /\ phase = "starttls"
  /\ Succeeds("helloTLS") \/ IsRefused \/ FallsBack
  /\ NoAnswer /\ UNCHANGED dns

\* The second EHLO is the first use of the TLS connection: a failed handshake
\* shows here.
HelloTLSNegotiatesAgain ==
  /\ phase = "helloTLS"
  /\ Succeeds("mail") \/ IsRefused \/ Succeeds("starttls")
  /\ NoAnswer /\ UNCHANGED dns
HelloTLSLeavesOpen ==
  /\ phase = "helloTLS"
  /\ Succeeds("mail") \/ IsRefused \/ Succeeds("redial")
  /\ NoAnswer /\ UNCHANGED dns
HelloTLS ==
  /\ phase = "helloTLS"
  /\ Succeeds("mail") \/ IsRefused \/ FallsBack
  /\ NoAnswer /\ UNCHANGED dns

\* EHLO in plaintext, MAIL, RCPT and DATA.
After == [hello |-> "mail", mail |-> "rcpt", rcpt |-> "data", data |-> "write"]
Command(p) ==
  /\ phase = p
  /\ Succeeds(After[p]) \/ IsRefused \/ Breaks
  /\ NoAnswer /\ UNCHANGED dns

Write ==
  /\ phase = "write"
  /\ Succeeds("dot") \/ Breaks
  /\ NoAnswer /\ UNCHANGED dns

\* w.Close: the final dot and the server's verdict.  The answer of a server that
\* takes the message may be lost, or cut off by the end of the context.
Takes == accepted' = [accepted EXCEPT ![host] = @ + 1] /\ UNCHANGED contacts
CloseUnchecked ==
  /\ phase = "dot"
  /\ Succeeds("quit") /\ UNCHANGED excused
  /\ Takes \/ NoAnswer
  /\ UNCHANGED dns
Close ==
  /\ phase = "dot"
  /\ \/ Takes /\ Succeeds("quit") /\ UNCHANGED excused
     \/ Takes /\ Breaks /\ excused' = TRUE
     \/ (IsRefused \/ Breaks) /\ NoAnswer
  /\ UNCHANGED dns

\* The error of QUIT is returned as that of the delivery.
Quit ==
  /\ phase = "quit"
  /\ \/ Finish("ok") /\ HangsUp /\ UNCHANGED <<refused, excused>>
     \/ (IsRefused \/ Breaks) /\ excused' = TRUE
  /\ UNCHANGED <<dns, contacts, accepted>>

Next ==
  \/ Build \/ LookupMX \/ NextHost
  \/ Dial("dial", "starttls") \/ StartTLS \/ HelloTLS \/ Dial("redial", "hello")
  \/ \E p \in DOMAIN After : Command(p)
  \/ Write \/ Close \/ Quit

Spec == Init /\ [][Next]_vars

-----------------------------------------------------------------------------
(* Properties.                                                              *)

\* The hosts are tried best preference first, and no host is tried while a
\* better one was left out by the cap.
BestHostsFirst ==
  \A i \in DOMAIN contacts : contacts[i] # Self =>
    \A g \in dns.mx : Pref[g] < Pref[contacts[i]] => \E j \in 1..(i-1) : contacts[j] = g

\* A host that answered with an SMTP error is not dialed again by this Send,
\* in plaintext least of all; after a 5xx nobody is.
RefusalIsRespected ==
  [][contacts' # contacts =>
       refused[host] = {} /\ \A h \in AllHosts : "5xx" \notin refused[h]]_vars

\* Send reports success only for a message some host took, and one that reports
\* failure has left no copy anywhere, nor two copies, unless an answer after
\* the final dot went wrong.
Copies == Cardinality({h \in AllHosts : accepted[h] > 0})
CopiesAreKnown ==
  /\ result = "ok" => accepted[host] = 1
  /\ result \in {"temp", "perm"} /\ ~excused => Copies = 0
  /\ ~excused => Copies <= 1

\* Every way out of connect and deliverTo closes what was dialed, so that the
\* watcher of the connection ends (ConnDeadline): a Send that goes on to another
\* host, falls back to plaintext or returns has no connection open, and none has
\* ever two.
ConnectionsAreClosed ==
  /\ open \in {0, 1}
  /\ phase \in {"next", "dial", "redial", "done"} => open = 0

\* Every Send returns.
SendReturns == <>(result # "none")
=============================================================================
