----------------------------- MODULE DomainSetup -----------------------------
(***************************************************************************)
(* How a domain comes to be verified: createDomain and showDomain          *)
(* (internal/admin/admin.go) with the records of dkimkeys.Records, which   *)
(* the owner publishes, and the matching of records in dnscheck.Check.     *)
(* The zone holds other TXT records too, and a redeploy may give the       *)
(* server another address.  DomainCheck has the lookups one by one.        *)
(***************************************************************************)
EXTENDS Integers

CONSTANTS
  Names,       \* domain names in lower case
  IPs,         \* values of EGRESS_IP
  Beginnings,  \* the addresses whose text the text of an address begins with
  MaxZoneEdits, MaxMoves   \* bounds: records that come or go; redeploys

SetupAssumption ==
  /\ IPs # {} /\ Beginnings \in [IPs -> SUBSET IPs] /\ \A addr \in IPs : addr \in Beginnings[addr]
  /\ MaxZoneEdits \in Nat /\ MaxMoves \in Nat

VARIABLES
  rows,      \* domains: created or not; the name stands for the key pair as well
  ip,        \* EGRESS_IP of the running process
  zone,      \* TXT records of each domain
  verified,  \* the flags
  checked,   \* history: records of the domain page that the last check could see
  edits, moves

vars == <<rows, ip, zone, verified, checked, edits, moves>>

Selector == "mail1"
DKIMHost(selector) == IF selector = Selector THEN "mail1._domainkey" ELSE "mail._domainkey"

\* A TXT record: its host, its kind and what is told apart of its value.
SPF(addr) == [host |-> "@", kind |-> "spf", value |-> addr]
SPFDeny(addr) == [host |-> "@", kind |-> "deny", value |-> addr]   \* -ip4:addr
DKIM(selector, key) == [host |-> DKIMHost(selector), kind |-> "dkim", value |-> key]
DMARC(policy) == [host |-> "_dmarc", kind |-> "dmarc", value |-> policy]

\* dkimkeys.Records, as the page of domain d shows them.
Records(d) == {SPF(ip), DKIM(Selector, d), DMARC("quarantine")}

\* What a zone may hold besides: records of other servers, keys and policies.
Foreign(d) ==
  {SPF(addr) : addr \in IPs} \cup {SPFDeny(addr) : addr \in IPs} \cup {DKIM(Selector, n) : n \in Names}
  \cup {DMARC("none"), [host |-> "@", kind |-> "other", value |-> "text"]}

Init ==
  /\ rows = {} /\ ip \in IPs
  /\ zone = [d \in Names |-> {}]
  /\ verified = [d \in Names |-> {}] /\ checked = [d \in Names |-> {}]
  /\ edits = 0 /\ moves = 0

\* The name is brought to lower case; one that exists is refused by the table.
CreateDomain(d) ==
  /\ d \notin rows /\ rows' = rows \cup {d}
  /\ UNCHANGED <<ip, zone, verified, checked, edits, moves>>

\* The owner publishes what the page shows, in one go or one by one.
Publish(d) ==
  /\ d \in rows /\ edits < MaxZoneEdits /\ edits' = edits + 1
  /\ \E shown \in {Records(d)} \cup {{r} : r \in Records(d)} :
       zone' = [zone EXCEPT ![d] = @ \cup shown]
  /\ UNCHANGED <<rows, ip, verified, checked, moves>>
ZoneChanges(d) ==
  /\ edits < MaxZoneEdits /\ edits' = edits + 1
  /\ \/ \E r \in Foreign(d) : zone' = [zone EXCEPT ![d] = @ \cup {r}]
     \/ \E r \in zone[d] : zone' = [zone EXCEPT ![d] = @ \ {r}]
  /\ UNCHANGED <<rows, ip, verified, checked, moves>>

Redeploy ==
  /\ moves < MaxMoves /\ moves' = moves + 1
  /\ ip' \in IPs \ {ip}
  /\ UNCHANGED <<rows, zone, verified, checked, edits>>

\* dnscheck.Check: one of several records that begin with v=spf1 is enough, and
\* in it "ip4:" and the address anywhere: a longer address that begins with it,
\* or one the record denies, will do.  The TXT records at the host of the key are
\* joined and searched.
TXT(d, host) == {r \in zone[d] : r.host = host}
SPFRecords(d) == {r \in TXT(d, "@") : r.kind \in {"spf", "deny"}}
SPFOfAll(d) == SPFRecords(d) # {} /\ \A r \in SPFRecords(d) : ip \in Beginnings[r.value]
SPFOk(d) == \E r \in SPFRecords(d) : ip \in Beginnings[r.value]
DKIMOk(d) == \E r \in TXT(d, DKIMHost(Selector)) : r.value = d
DMARCOk(d) == \E r \in TXT(d, "_dmarc") : r.kind = "dmarc"

\* verifyDomain and the hourly loop, with a resolver that answers.
Verify(d) ==
  /\ d \in rows
  /\ verified' = [verified EXCEPT ![d] =
       {f \in {"spf", "dkim", "dmarc"} : CASE f = "spf"  -> SPFOk(d)
                                           [] f = "dkim" -> DKIMOk(d)
                                           [] OTHER      -> DMARCOk(d)}]
  /\ checked' = [checked EXCEPT ![d] = {r.kind : r \in Records(d) \cap zone[d]}]
  /\ UNCHANGED <<rows, ip, zone, edits, moves>>

Next ==
  \/ \E d \in Names : CreateDomain(d) \/ Publish(d) \/ ZoneChanges(d) \/ Verify(d)
  \/ Redeploy

Spec == Init /\ [][Next]_vars

-----------------------------------------------------------------------------
(* Properties.                                                              *)

\* Three files agree on the records: a domain whose zone holds what its page
\* shows, by the configuration that runs the check, is verified, whatever else
\* is in the zone; and with no key but another domain's its DKIM is not.  (SPF is
\* taken for less than the record shown: see SPFOk.)
ShownRecordsVerify ==
  \A d \in Names :
    /\ \A f \in checked[d] : f \in verified[d]
    /\ "dkim" \in verified[d] => "dkim" \in checked[d]
=============================================================================
