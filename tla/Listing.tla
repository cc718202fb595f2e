------------------------------- MODULE Listing -------------------------------
(***************************************************************************)
(* GET /admin/emails of internal/admin/admin.go over ListEmails of         *)
(* internal/store/emails.go: filters, the window of creation times, pages  *)
(* by LIMIT and OFFSET, and an operator who goes from page to page while   *)
(* emails come, get their verdict and grow old.  The status stands for the *)
(* other filters (domain, search) too; those look at columns that hardly   *)
(* ever change.  A time is a number of half days.                          *)
(***************************************************************************)
EXTENDS Integers, Sequences, FiniteSets, SequencesExt

CONSTANTS
  RangeDays,     \* the days of each preset; 0: all
  DefaultRange,
  PageSize,
  Dates,         \* days that may be typed into the form
  MaxListed,     \* bound: emails
  Horizon        \* bound: of time

ListingAssumption ==
  /\ DefaultRange \in DOMAIN RangeDays /\ \A r \in DOMAIN RangeDays : RangeDays[r] \in Nat
  /\ "custom" \notin DOMAIN RangeDays
  /\ PageSize \in Nat \ {0} /\ Dates \subseteq Nat /\ MaxListed \in Nat /\ Horizon \in Nat

VARIABLES
  listed,  \* the emails table: created and status; an email's index is its id
  now,
  walk     \* the operator: the page on the screen, and a history of the walk

vars == <<listed, now, walk>>

AnyStatus == ""                  \* no status filter
NoDate == -1               \* left out, or not a date
Unbounded == -1
Statuses == {"queued", "sent"}

\* The query of a request; a link has the same form.
Query == [status: {AnyStatus} \cup Statuses, range: DOMAIN RangeDays \cup {"custom"},
          from: Dates \cup {NoDate}, to: Dates \cup {NoDate}, page: {1}]
NoWalk == [query |-> "none"]

Init ==
  /\ listed \in UNION {[1..n -> [created: {0, 1}, status: Statuses]] : n \in 0..MaxListed}
  /\ \A i, j \in DOMAIN listed : i < j => listed[i].created <= listed[j].created
  /\ now = 1
  /\ walk = NoWalk

-----------------------------------------------------------------------------
(* resolveEmailWindow: dates win, then a preset, then the default.          *)

Start(day) == 2 * day
DatesWindow(q) ==
  [range |-> "custom", from |-> q.from, to |-> q.to,
   createdFrom |-> IF q.from = NoDate THEN Unbounded ELSE Start(q.from),
   createdTo |-> IF q.to = NoDate THEN Unbounded ELSE Start(q.to + 1)]
PresetWindow(r) ==
  [range |-> r, from |-> NoDate, to |-> NoDate,
   createdFrom |-> IF RangeDays[r] = 0 THEN Unbounded ELSE now - Start(RangeDays[r]),
   createdTo |-> Unbounded]
Window(q) ==
  IF q.from # NoDate \/ q.to # NoDate THEN DatesWindow(q)
  ELSE PresetWindow(IF q.range \in DOMAIN RangeDays THEN q.range ELSE DefaultRange)

-----------------------------------------------------------------------------
(* ListEmails.                                                              *)

Matches(q, id) ==
  LET w == Window(q) IN
  /\ q.status \in {AnyStatus, listed[id].status}
  /\ listed[id].created >= w.createdFrom
  /\ w.createdTo = Unbounded \/ listed[id].created < w.createdTo
Newer(i, j) == listed[i].created > listed[j].created
               \/ (listed[i].created = listed[j].created /\ i > j)
Ordered(ids) ==
  CHOOSE s \in SetToSeqs(ids) : \A i, j \in DOMAIN s : i < j => Newer(s[i], s[j])
ListEmails(q, limit, offset) ==
  LET all == Ordered({id \in DOMAIN listed : Matches(q, id)}) IN
  SubSeq(all, offset + 1, Min({offset + limit, Len(all)}))

-----------------------------------------------------------------------------
(* The page.  One row more than it shows tells whether there is a next one. *)

\* listURL: links carry the window as it was resolved.
LinkForgetsDates(q, page) ==
  [status |-> q.status, range |-> Window(q).range, from |-> NoDate, to |-> NoDate, page |-> page]
Link(q, page) ==
  [status |-> q.status, range |-> Window(q).range, from |-> Window(q).from,
   to |-> Window(q).to, page |-> page]

Fetched(q) == ListEmails(q, PageSize + 1, (q.page - 1) * PageSize)
Shown(q) == {Fetched(q)[i] : i \in 1..PageSize \cap DOMAIN Fetched(q)}
HasNext(q) == Len(Fetched(q)) > PageSize

\* What the operator asked for, in days, as of time t.
Wanted(q, t) ==
  {id \in DOMAIN listed :
     /\ q.status \in {AnyStatus, listed[id].status}
     /\ IF q.from = NoDate /\ q.to = NoDate
        THEN LET r == IF q.range = "custom" THEN DefaultRange ELSE q.range IN
             RangeDays[r] = 0 \/ t - listed[id].created <= 2 * RangeDays[r]
        ELSE /\ q.from = NoDate \/ q.from <= listed[id].created \div 2
             /\ q.to = NoDate \/ listed[id].created \div 2 <= q.to}

\* The first page, from a form, a chip or a typed URL.  owed: what the whole
\* walk has to show; fell: an email left the filter during the walk.
Open(q) ==
  /\ walk = NoWalk
  /\ walk' = [query |-> q, next |-> HasNext(q), link |-> Link(q, 2),
              shown |-> Shown(q), owed |-> Wanted(q, now), fell |-> FALSE]
  /\ UNCHANGED <<listed, now>>

\* The operator follows the link to the next page.
NextPage(q) == [walk EXCEPT !.next = HasNext(q), !.link = Link(q, q.page + 1),
                             !.shown = @ \cup Shown(q)]
FollowLink ==
  /\ walk # NoWalk /\ walk.next
  /\ walk' = NextPage(walk.link)
  /\ UNCHANGED <<listed, now>>

Leave == walk # NoWalk /\ walk' = NoWalk /\ UNCHANGED <<listed, now>>

-----------------------------------------------------------------------------
(* Everybody else.                                                          *)

Enqueue ==
  /\ Len(listed) < MaxListed
  /\ listed' = Append(listed, [created |-> now, status |-> "queued"])
  /\ UNCHANGED <<now, walk>>

Settle(id) ==
  /\ listed[id].status = "queued"
  /\ listed' = [listed EXCEPT ![id].status = "sent"]
  /\ walk' = IF walk # NoWalk /\ walk.query.status = "queued"
             THEN [walk EXCEPT !.fell = TRUE] ELSE walk
  /\ UNCHANGED now

\* Emails that leave a rolling window are owed no longer.
TimePasses ==
  /\ now < Horizon /\ now' = now + 1
  /\ walk' = IF walk = NoWalk THEN walk
             ELSE [walk EXCEPT !.owed = @ \cap Wanted(walk.query, now')]
  /\ UNCHANGED listed

Next ==
  \/ \E q \in Query : Open(q)
  \/ FollowLink \/ Leave
  \/ Enqueue
  \/ \E id \in DOMAIN listed : Settle(id)
  \/ TimePasses

Spec == Init /\ [][Next]_vars

-----------------------------------------------------------------------------
(* Properties.                                                              *)

\* Who goes through all pages has seen every email that the filter, the preset
\* or the dates (both days included) asked for on the first of them, whatever
\* came in meanwhile; only emails that left the filter by themselves may push
\* others out of sight.
WalkShowsEverything ==
  walk # NoWalk /\ ~walk.next /\ ~walk.fell => walk.owed \subseteq walk.shown

=============================================================================
