------------------------------- MODULE Admin -------------------------------
(***************************************************************************)
(* The admin UI of internal/admin/admin.go by what its pages read and      *)
(* write: AdminEmails, KeyAdmin and DomainCheck (with the hourly loop that *)
(* checks domains too) change tables, DomainSetup shows what makes a       *)
(* domain pass, Listing and Dashboard read, Sessions lets operators in.    *)
(* The handlers share no state but the database and hold no lock across    *)
(* store calls, so a behaviour follows the operators of one kind of page.  *)
(***************************************************************************)
EXTENDS Integers

CONSTANTS
  Admins,                                       \* operators with a request open
  Emails, Addrs, NoAddr, MaxEmailRequests, MaxClaims,    \* AdminEmails
  Keys, MaxKeyRequests, MaxFaults,                       \* KeyAdmin
  Domains, Verifiers, MaxChanges, MaxBlips, MaxVerifies, \* DomainCheck
  Names, IPs, Beginnings, MaxZoneEdits, MaxMoves,        \* DomainSetup
  RangeDays, DefaultRange, PageSize, Dates, MaxListed, Horizon,          \* Listing
  Counted, Senders, Spans, Reasons, TopReasons, LastDay, MaxEdits, MaxErrors, \* Dashboard
  Tokens, Browsers, Lifetime, MaxClock, MaxVisits        \* Sessions

VARIABLES
  page,                                         \* the page this behaviour follows
  email, req, held, sent, claims, wanted,
  key, notices, systemOk, keyReq, requests, faults,
  dns, flags, todo, check, changes, blips, verifies, throughout, seen,
  rows, ip, zone, verified, checked, zoneEdits, moves,
  listed, now, walk,
  table, today, view, edits, errors,
  sessions, clock, visit, visits, began, out

emailVars == <<email, req, held, sent, claims, wanted>>
keyVars == <<key, notices, systemOk, keyReq, requests, faults>>
checkVars == <<dns, flags, todo, check, changes, blips, verifies, throughout, seen>>
setupVars == <<rows, ip, zone, verified, checked, zoneEdits, moves>>
listVars == <<listed, now, walk>>
boardVars == <<table, today, view, edits, errors>>
sessionVars == <<sessions, clock, visit, visits, began, out>>
vars == <<page, emailVars, keyVars, checkVars, setupVars, listVars, boardVars, sessionVars>>

EmailPage == INSTANCE AdminEmails WITH MaxRequests <- MaxEmailRequests
KeyPage == INSTANCE KeyAdmin WITH MaxRequests <- MaxKeyRequests, req <- keyReq
DomainPage == INSTANCE DomainCheck WITH Admins <- Verifiers, held <- throughout
SetupPage == INSTANCE DomainSetup WITH edits <- zoneEdits
ListPage == INSTANCE Listing
Board == INSTANCE Dashboard WITH Emails <- Counted
Login == INSTANCE Sessions

ASSUME AdminAssumption ==
  /\ EmailPage!StoreAssumption /\ EmailPage!AdminAssumption
  /\ KeyPage!KeyAssumption /\ DomainPage!DomainAssumption /\ SetupPage!SetupAssumption
  /\ ListPage!ListingAssumption /\ Board!DashboardAssumption /\ Login!SessionsAssumption

Pages == {"emails", "keys", "check", "setup", "list", "board", "login"}

\* The pages a behaviour does not follow stay at one of their initial states.
Init ==
  /\ page \in Pages
  /\ page # "emails" => email = [e \in Emails |-> EmailPage!NoRow]
  /\ page # "keys" => /\ key = [k \in Keys |-> "none"] /\ systemOk = FALSE
                      /\ keyReq = [a \in Admins |-> KeyPage!Closed(CHOOSE k \in Keys : TRUE)]
  /\ page # "check" => dns = [d \in Domains |-> {}]
  /\ page # "setup" => ip = CHOOSE i \in IPs : TRUE
  /\ page # "list" => listed = <<>>
  /\ page # "board" => table = [e \in Counted |-> Board!Absent]
  /\ EmailPage!Init /\ KeyPage!Init /\ DomainPage!Init /\ SetupPage!Init
  /\ ListPage!Init /\ Board!Init /\ Login!Init

OnEmails(A) ==
  /\ page = "emails" /\ A
  /\ UNCHANGED <<page, keyVars, checkVars, setupVars, listVars, boardVars, sessionVars>>
OnKeys(A) ==
  /\ page = "keys" /\ A
  /\ UNCHANGED <<page, emailVars, checkVars, setupVars, listVars, boardVars, sessionVars>>
OnCheck(A) ==
  /\ page = "check" /\ A
  /\ UNCHANGED <<page, emailVars, keyVars, setupVars, listVars, boardVars, sessionVars>>
OnSetup(A) ==
  /\ page = "setup" /\ A
  /\ UNCHANGED <<page, emailVars, keyVars, checkVars, listVars, boardVars, sessionVars>>
OnList(A) ==
  /\ page = "list" /\ A
  /\ UNCHANGED <<page, emailVars, keyVars, checkVars, setupVars, boardVars, sessionVars>>
OnBoard(A) ==
  /\ page = "board" /\ A
  /\ UNCHANGED <<page, emailVars, keyVars, checkVars, setupVars, listVars, sessionVars>>
OnLogin(A) ==
  /\ page = "login" /\ A
  /\ UNCHANGED <<page, emailVars, keyVars, checkVars, setupVars, listVars, boardVars>>

Next ==
  \/ OnEmails(EmailPage!Next) \/ OnKeys(KeyPage!Next) \/ OnCheck(DomainPage!Next)
  \/ OnSetup(SetupPage!Next) \/ OnList(ListPage!Next) \/ OnBoard(Board!Next)
  \/ OnLogin(Login!Next)

\* The ticker of recheckDNSLoop fires and a check that has begun ends.
Fairness ==
  /\ WF_vars(OnCheck(DomainPage!Tick))
  /\ WF_vars(OnCheck(\E d \in Domains : DomainPage!LoopStarts(d)))
  /\ \A c \in DomainPage!Checkers : WF_vars(OnCheck(DomainPage!Checking(c)))

Spec == Init /\ [][Next]_vars /\ Fairness

-----------------------------------------------------------------------------
(* Properties, stated and explained in the modules of the pages.            *)

\* An answered cancel holds until a retry is answered.
CancelHolds == EmailPage!CancelHolds
\* A retry re-addresses an email only to what its form asked for.
RetryKeepsRecipient == EmailPage!RetryKeepsRecipient

\* No notice tells of what did not happen.
NoticesAreTrue == KeyPage!NoticesAreTrue

\* A flag changes only with evidence from the very check that changes it.
FlagsHaveEvidence == DomainPage!FlagsHaveEvidence
\* Once the records stay, the flags agree with them in the end.
FlagsCatchUp == page = "check" => DomainPage!FlagsCatchUp

\* A zone that holds what the page of its domain shows makes it verified, and a
\* key of another domain does not.
ShownRecordsVerify == SetupPage!ShownRecordsVerify

\* Who goes through all pages of a list has seen all that was asked for.
WalkShowsEverything == ListPage!WalkShowsEverything

\* Headline and charts of the dashboard agree with each other and the table.
BarsAddUp == Board!BarsAddUp

\* No handler serves a request that came after its session had ended.
EndedSessionsStayEnded == Login!EndedSessionsStayEnded
=============================================================================
