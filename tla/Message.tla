------------------------------ MODULE Message ------------------------------
(***************************************************************************)
(* The content of an email from its acceptance to its signature: what      *)
(* postEmail (internal/api/api.go), retryEmail (internal/admin/admin.go)   *)
(* and the notifier let into the queue, and what BuildMessage and          *)
(* SignMessage (internal/delivery/message.go) make of it at every try.     *)
(* A text is a class: "" is the empty one, "broken" holds a CR or LF.      *)
(***************************************************************************)
EXTENDS Integers, Sequences, FiniteSets, SequencesExt

CONSTANTS CustomNames,   \* names of custom headers, in lower case
          MaxCustoms     \* bound: custom headers of one email

MessageAssumption == MaxCustoms \in Nat

VARIABLES
  row,      \* the email in the queue
  message   \* what the last try made of it: header fields, body parts

vars == <<row, message>>

Text == {"", "plain", "broken"}
Unparsable == "bad"

\* The keys of the JSON object.  name is the field that the line of the header
\* makes; the key spells it in lower case, in another, or goes on after it:
\* "Subject " or "Subject: x" is no name of a field, but its line makes one.
CustomKey == [name: CustomNames, spelling: {"lower", "mixed", "longer"}, broken: BOOLEAN]
Customs == UNION {[K -> {"plain", "broken"}] :
                   K \in {K \in SUBSET CustomKey : Cardinality(K) <= MaxCustoms}}

\* from and to are display names: an address that mail.ParseAddress took is
\* always clean.  A reply_to that it took may be "broken", inside a comment.
Form == [system: {FALSE}, from: Text \cup {Unparsable}, to: Text \cup {Unparsable},
         replyTo: Text \cup {Unparsable}, subject: Text,
         html: BOOLEAN, text: BOOLEAN, customs: Customs]
NoEmail == [subject |-> "none"]
NoMessage == [fields |-> <<>>, parts |-> <<>>]

Init == row = NoEmail /\ message = NoMessage

-----------------------------------------------------------------------------
(* Validation, shared by the API and BuildMessage.                          *)

ValidHeaderValue(v) == v # "broken"

\* FormatAddress encodes a display name, line breaks included.
FormatAddressRaw(name, addr) == IF name = "" THEN addr ELSE name
FormatAddress(name, addr) == IF name = "" THEN addr ELSE "plain"
ValidAddress(name) == ValidHeaderValue(FormatAddress(name, "plain"))

Reserved == {"from", "to", "cc", "bcc", "reply-to", "subject", "date", "message-id",
             "mime-version", "content-type", "dkim-signature"}
IsReservedAsSpelled(key) == key.spelling = "lower" /\ key.name \in Reserved
IsReserved(key) == key.spelling # "longer" /\ key.name \in Reserved
ValidHeaders(r) == \A k \in DOMAIN r.customs :
  ~k.broken /\ ~IsReserved(k) /\ ValidHeaderValue(r.customs[k])

Accepts(f) ==
  /\ Unparsable \notin {f.from, f.to, f.replyTo}
  /\ f.subject # "" /\ (f.html \/ f.text)
  /\ ValidHeaderValue(f.subject)
  /\ ValidAddress(f.from) /\ ValidAddress(f.to)
  /\ ValidHeaders(f)

Builds(r) ==
  /\ ValidAddress(r.from) /\ ValidAddress(r.to)
  /\ r.replyTo # "" => ValidHeaderValue(r.replyTo)
  /\ ValidHeaderValue(r.subject)
  /\ ValidHeaders(r)

-----------------------------------------------------------------------------
PostEmail ==
  /\ row = NoEmail
  /\ \E f \in Form : Accepts(f) /\ row' = f
  /\ UNCHANGED message

\* enqueue: addresses of the configuration, taken to be clean.  The subject of a
\* rate alert ends in the name of a domain, which createDomain does not search
\* for line breaks.
EnqueueNotice ==
  /\ row = NoEmail
  /\ \E subject \in {"plain", "broken"} :
       row' = [system |-> TRUE, from |-> "", to |-> "", replyTo |-> "", subject |-> subject,
               html |-> FALSE, text |-> TRUE, customs |-> <<>>]
  /\ UNCHANGED message

\* A retry to another recipient, who may be anybody ParseAddress takes.
Readdress(to) ==
  /\ row # NoEmail
  /\ row' = [row EXCEPT !.to = to]
  /\ UNCHANGED message

\* The header fields in lower case, in the order they are written.
CustomFields(r) == LET s == SetToSeq(DOMAIN r.customs) IN [i \in DOMAIN s |-> s[i].name]
Fields(r) ==
  <<"from", "to">> \o (IF r.replyTo = "" THEN <<>> ELSE <<"reply-to">>)
    \o <<"subject", "date", "message-id", "mime-version">> \o CustomFields(r)
    \o <<"content-type">>
Parts(r) ==
  CASE r.html /\ r.text  -> <<"text", "html">>
    [] r.html /\ ~r.text -> <<"html">>
    [] OTHER             -> <<"text">>

\* A try: BuildMessage refuses the email, or SignMessage signs what it built,
\* its own field in front.
SignedHeaders == {"from", "to", "subject", "date", "message-id", "mime-version", "content-type"}
SignMessage(m) == [m EXCEPT !.fields = <<"dkim-signature">> \o @]
BuildMessage ==
  /\ row # NoEmail
  /\ message' = IF Builds(row)
                THEN SignMessage([fields |-> Fields(row), parts |-> Parts(row)])
                ELSE NoMessage
  /\ UNCHANGED row

Next ==
  \/ PostEmail
  \/ EnqueueNotice
  \/ \E to \in Text : Readdress(to)
  \/ BuildMessage

Spec == Init /\ [][Next]_vars

-----------------------------------------------------------------------------
(* Properties.                                                              *)

\* api.go: an email that could never be sent is refused at once.  What the API,
\* the notifier or a retry to somebody else gets into the queue can be built, with
\* two exceptions: a reply_to with a line break in a comment, which ParseAddress
\* takes and BuildMessage does not, and the alert about a domain with one in its
\* name.
AcceptedIsBuildable ==
  /\ row # NoEmail
  /\ row.replyTo # "broken" /\ ~(row.system /\ row.subject = "broken")
  => Builds(row)

\* A custom header whose key goes on after the name of a field makes this field.
Shadowed(r, field) == \E k \in DOMAIN r.customs : k.spelling = "longer" /\ k.name = field

\* Each header that DKIM signs is in the message once, and no signature but its
\* own, whatever custom headers there are and in whatever case their names: a
\* second one could shadow what was signed.  Only a key that is no field name can
\* bring one, which the validation does not look for.  No body is lost.
SignedHeadersOnce ==
  message # NoMessage =>
    /\ \A k \in SignedHeaders \cup {"dkim-signature"} : ~Shadowed(row, k) =>
         Cardinality({i \in DOMAIN message.fields : message.fields[i] = k}) = 1
    /\ row.html => \E i \in DOMAIN message.parts : message.parts[i] = "html"
    /\ row.text => \E i \in DOMAIN message.parts : message.parts[i] = "text"
=============================================================================
