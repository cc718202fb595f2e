---------------------------- MODULE DomainCheck ----------------------------
(***************************************************************************)
(* Verification of domains: dnscheck.Check makes three TXT lookups one     *)
(* after the other, and its caller stores the three flags.  The callers    *)
(* are recheckDNSLoop (cmd/doevoe/main.go), which goes through all domains *)
(* every hour, and verifyDomain of the admin UI; both may check one domain *)
(* at a time, while its records change and the resolver fails now and then.*)
(***************************************************************************)
EXTENDS Integers, FiniteSets

CONSTANTS
  Domains,
  Admins,     \* verify requests that may be open at the same time
  MaxChanges, \* bound: changes of DNS records
  MaxBlips,   \* bound: lookups, listings and key parses that fail
  MaxVerifies \* bound: verify requests

DomainAssumption ==
  MaxChanges \in Nat /\ MaxBlips \in Nat /\ MaxVerifies \in Nat

Record == {"spf", "dkim", "dmarc"}
Loop == "loop"
Checkers == {Loop} \cup Admins

VARIABLES
  dns,      \* the records each domain publishes correctly
  flags,    \* the verification flags stored for it
  todo,     \* domains the loop has listed and not yet checked
  check,    \* the check each checker is in
  changes, blips, verifies,  \* counters of the bounds
  held,     \* history: records present all through the running check
  seen      \* history: records present at some moment of it

vars == <<dns, flags, todo, check, changes, blips, verifies, held, seen>>

CheckState == [on: BOOLEAN, domain: Domains, asked: SUBSET Record, ok: SUBSET Record,
               indeterminate: BOOLEAN]
Idle(d) == [on |-> FALSE, domain |-> d, asked |-> {}, ok |-> {}, indeterminate |-> FALSE]

TypeOK ==
  /\ dns \in [Domains -> SUBSET Record]
  /\ flags \in [Domains -> SUBSET Record]
  /\ todo \in SUBSET Domains
  /\ check \in [Checkers -> CheckState]
  /\ changes \in 0..MaxChanges /\ blips \in 0..MaxBlips /\ verifies \in 0..MaxVerifies
  /\ held \in [Checkers -> SUBSET Record] /\ seen \in [Checkers -> SUBSET Record]

\* A new domain starts with no flag set.
Init ==
  /\ dns \in [Domains -> SUBSET Record]
  /\ flags = [d \in Domains |-> {}]
  /\ todo = {}
  /\ \E d \in Domains : check = [c \in Checkers |-> Idle(d)]
  /\ changes = 0 /\ blips = 0 /\ verifies = 0
  /\ held = [c \in Checkers |-> {}] /\ seen = [c \in Checkers |-> {}]

Blip == blips < MaxBlips /\ blips' = blips + 1

-----------------------------------------------------------------------------
(* The world.                                                               *)

RecordChanges(d, r) ==
  /\ changes < MaxChanges /\ changes' = changes + 1
  /\ dns' = [dns EXCEPT ![d] = IF r \in @ THEN @ \ {r} ELSE @ \cup {r}]
  /\ held' = [c \in Checkers |->
       IF check[c].on /\ check[c].domain = d THEN held[c] \cap dns'[d] ELSE held[c]]
  /\ seen' = [c \in Checkers |->
       IF check[c].on /\ check[c].domain = d THEN seen[c] \cup dns'[d] ELSE seen[c]]
  /\ UNCHANGED <<flags, todo, check, blips, verifies>>

-----------------------------------------------------------------------------
(* dnscheck.Check, by checker c.                                            *)

\* A key that cannot be parsed counts as an indeterminate check.
Starts(c, d) ==
  /\ ~check[c].on
  /\ \/ check' = [check EXCEPT ![c] = [Idle(d) EXCEPT !.on = TRUE]] /\ UNCHANGED blips
     \/ /\ Blip
        /\ check' = [check EXCEPT ![c] = [Idle(d) EXCEPT !.on = TRUE, !.asked = Record,
                                                         !.indeterminate = TRUE]]
  /\ held' = [held EXCEPT ![c] = dns[d]] /\ seen' = [seen EXCEPT ![c] = dns[d]]

\* The order of the lookups; a failed one does not keep the others from running.
NextRecord(asked) ==
  IF "spf" \notin asked THEN "spf" ELSE IF "dkim" \notin asked THEN "dkim" ELSE "dmarc"
Asks(c) ==
  LET r == NextRecord(check[c].asked) IN
  /\ check[c].on /\ check[c].asked # Record
  /\ \/ /\ check' = [check EXCEPT ![c].asked = @ \cup {r},
                                  ![c].ok = @ \cup ({r} \cap dns[check[c].domain])]
        /\ UNCHANGED blips
     \/ Blip /\ check' = [check EXCEPT ![c].asked = @ \cup {r}, ![c].indeterminate = TRUE]
  /\ UNCHANGED <<dns, flags, todo, changes, verifies, held, seen>>

\* The caller stores a result only if every lookup was answered.
StoredAlways(c) == [flags EXCEPT ![check[c].domain] = check[c].ok]
StoredGains(c) ==
  [flags EXCEPT ![check[c].domain] = IF check[c].indeterminate THEN @ ELSE @ \cup check[c].ok]
Stored(c) ==
  [flags EXCEPT ![check[c].domain] = IF check[c].indeterminate THEN @ ELSE check[c].ok]

\* A failed UPDATE goes unnoticed, in the loop and in the handler.
Stores(c) ==
  /\ check[c].on /\ check[c].asked = Record
  /\ check' = [check EXCEPT ![c] = Idle(check[c].domain)]
  /\ \/ flags' = Stored(c) /\ UNCHANGED blips
     \/ Blip /\ UNCHANGED flags
  /\ held' = [held EXCEPT ![c] = {}] /\ seen' = [seen EXCEPT ![c] = {}]
  /\ UNCHANGED <<dns, todo, changes, verifies>>

-----------------------------------------------------------------------------
(* The callers.                                                             *)

\* The hourly tick lists the domains; if that fails it waits for the next.
Tick ==
  /\ todo = {} /\ ~check[Loop].on
  /\ todo' = Domains
  /\ UNCHANGED <<dns, flags, check, changes, blips, verifies, held, seen>>
LoopStarts(d) ==
  /\ d \in todo /\ Starts(Loop, d) /\ todo' = todo \ {d}
  /\ UNCHANGED <<dns, flags, changes, verifies>>

VerifyDomain(a, d) ==
  /\ verifies < MaxVerifies /\ verifies' = verifies + 1
  /\ Starts(a, d)
  /\ UNCHANGED <<dns, flags, todo, changes>>

Checking(c) == Asks(c) \/ Stores(c)
Next ==
  \/ \E d \in Domains, r \in Record : RecordChanges(d, r)
  \/ Tick
  \/ \E d \in Domains : LoopStarts(d)
  \/ \E a \in Admins, d \in Domains : VerifyDomain(a, d)
  \/ \E c \in Checkers : Checking(c)

Spec == Init /\ [][Next]_vars

-----------------------------------------------------------------------------
(* Properties.                                                              *)

Storing(c, d) == check[c].on /\ check[c].domain = d /\ ~check'[c].on

\* No flag goes off, and so no domain is refused, unless its record was missing
\* at some moment of the very check that says so; a resolver that fails never
\* does it.  Nor does a flag go on unless the record was there.
FlagsHaveEvidence ==
  [][\A d \in Domains, r \in Record :
       /\ r \in flags[d] \ flags'[d] =>
            \E c \in Checkers : Storing(c, d) /\ r \notin held[c]
       /\ r \in flags'[d] \ flags[d] =>
            \E c \in Checkers : Storing(c, d) /\ r \in seen[c]]_vars

\* Once records stop changing the flags come to agree with them, though a slow
\* verification may overwrite a newer one on the way.
FlagsCatchUp == <>[](\A d \in Domains : flags[d] = dns[d])
=============================================================================
