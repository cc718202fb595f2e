------------------------------ MODULE KeyAdmin ------------------------------
(***************************************************************************)
(* createKey and revokeKey of internal/admin/admin.go with the hooks that  *)
(* notify the operator (KeyCreated, KeyRevoked of internal/notify): a      *)
(* handler writes the key first and queues the notice afterwards, in store *)
(* calls of their own, while other operators do the same and the process   *)
(* may die.                                                                *)
(***************************************************************************)
EXTENDS Integers, FiniteSets

CONSTANTS
  Keys,        \* ids a key may get
  Admins,      \* requests that may be open at the same time
  MaxRequests, \* bound: requests in all
  MaxFaults    \* bound: failing store calls and crashes

KeyAssumption == MaxRequests \in Nat /\ MaxFaults \in Nat

VARIABLES
  key,       \* the api_keys table
  notices,   \* queued notices: how often each key's creation and revocation
             \* was reported, and whether the notice names the key
  systemOk,  \* the system domain exists and is verified
  req,       \* the request of each operator
  requests, faults

vars == <<key, notices, systemOk, req, requests, faults>>

Notice == [key: Keys, about: {"created", "revoked"}, named: BOOLEAN]
Request == [op: {"create", "revoke"}, key: Keys, named: BOOLEAN,
            phase: {"none", "list", "insert", "update", "lookup", "enqueue"}]

TypeOK ==
  /\ key \in [Keys -> {"none", "live", "revoked"}]
  /\ notices \in [Notice -> Nat]
  /\ systemOk \in BOOLEAN
  /\ req \in [Admins -> Request]
  /\ requests \in 0..MaxRequests /\ faults \in 0..MaxFaults

Closed(k) == [op |-> "create", key |-> k, named |-> FALSE, phase |-> "none"]

Init ==
  /\ key \in [Keys -> {"none", "live"}]
  /\ notices = [n \in Notice |-> 0]
  /\ systemOk \in BOOLEAN
  /\ \E k \in Keys : req = [a \in Admins |-> Closed(k)]
  /\ requests = 0 /\ faults = 0

Fault == faults < MaxFaults /\ faults' = faults + 1
NoFault == UNCHANGED faults
At(a, phase) == req[a].phase = phase
Goes(a, phase) == req' = [req EXCEPT ![a].phase = phase]
Ends(a) == Goes(a, "none")

-----------------------------------------------------------------------------
Opens(a, op, k) ==
  /\ At(a, "none") /\ requests < MaxRequests /\ requests' = requests + 1
  /\ req' = [req EXCEPT ![a] = [Closed(k) EXCEPT !.op = op,
                                  !.phase = IF op = "create" THEN "insert" ELSE "list"]]
  /\ UNCHANGED <<key, notices, systemOk, faults>>

\* createKey up to CreateAPIKey; the id is a new one.  The token, of which only
\* the hash is stored and which the answer shows, is not modelled.
CreateAPIKey(a) ==
  /\ At(a, "insert")
  /\ \/ \E k \in Keys :
          /\ key[k] = "none" /\ key' = [key EXCEPT ![k] = "live"]
          /\ req' = [req EXCEPT ![a].phase = "lookup", ![a].key = k, ![a].named = TRUE]
          /\ NoFault
     \/ Fault /\ Ends(a) /\ UNCHANGED key
  /\ UNCHANGED <<notices, systemOk, requests>>

\* revokeKey lists the keys for the names in the notice; errors leave them out.
ListsKeys(a) ==
  /\ At(a, "list")
  /\ \/ /\ NoFault
        /\ req' = [req EXCEPT ![a].phase = "update", ![a].named = key[req[a].key] # "none"]
     \/ Fault /\ Goes(a, "update")
  /\ UNCHANGED <<key, notices, systemOk, requests>>

\* RevokeAPIKey has no guard; an unknown id is no error.
RevokeAPIKeyDeferred(a) ==
  /\ At(a, "update")
  /\ Goes(a, "lookup")
  /\ UNCHANGED <<key, notices, systemOk, requests, faults>>
RevokeAPIKey(a) ==
  /\ At(a, "update")
  /\ \/ /\ key' = [key EXCEPT ![req[a].key] = IF @ = "none" THEN @ ELSE "revoked"]
        /\ Goes(a, "lookup") /\ NoFault
     \/ Fault /\ Ends(a) /\ UNCHANGED key
  /\ UNCHANGED <<notices, systemOk, requests>>

\* Notifier.enqueue: GetDomainByName, and then, if the system domain is
\* verified, EnqueueEmail.  An error or an unverified domain only loses the notice.
LooksUpSystemDomain(a) ==
  /\ At(a, "lookup")
  /\ \/ Goes(a, IF systemOk THEN "enqueue" ELSE "none") /\ NoFault
     \/ Fault /\ Ends(a)
  /\ UNCHANGED <<key, notices, systemOk, requests>>

NoticeOf(a) == [key |-> req[a].key, named |-> req[a].named,
                about |-> IF req[a].op = "create" THEN "created" ELSE "revoked"]
EnqueuesNotice(a) ==
  /\ At(a, "enqueue")
  /\ \/ notices' = [notices EXCEPT ![NoticeOf(a)] = @ + 1] /\ NoFault
     \/ Fault /\ UNCHANGED notices
  /\ Ends(a)
  /\ UNCHANGED <<key, systemOk, requests>>

Handler(a) == \/ CreateAPIKey(a) \/ ListsKeys(a) \/ RevokeAPIKey(a)
              \/ LooksUpSystemDomain(a) \/ EnqueuesNotice(a)

\* A DNS check turns the system domain.
SystemDomainChanges ==
  /\ systemOk' = ~systemOk
  /\ UNCHANGED <<key, notices, req, requests, faults>>

Crash ==
  /\ Fault
  /\ \E a \in Admins : ~At(a, "none")
  /\ req' = [a \in Admins |-> [req[a] EXCEPT !.phase = "none"]]
  /\ UNCHANGED <<key, notices, systemOk, requests>>

Next ==
  \/ \E a \in Admins, op \in {"create", "revoke"}, k \in Keys : Opens(a, op, k)
  \/ \E a \in Admins : Handler(a)
  \/ SystemDomainChanges \/ Crash

Spec == Init /\ [][Next]_vars

-----------------------------------------------------------------------------
(* Properties.                                                              *)

\* The operator is never told something that has not happened: a notice of a
\* creation is about a key that exists, and it is the only one; a notice of a
\* revocation that names its key is about one that is revoked for good.
NoticesAreTrue ==
  \A n \in Notice : notices[n] > 0 =>
    IF n.about = "created" THEN key[n.key] # "none" /\ notices[n] = 1
    ELSE n.named => key[n.key] = "revoked"
=============================================================================
