------------------------------ MODULE Dashboard ------------------------------
(***************************************************************************)
(* GET /admin/ of internal/admin/admin.go: the headline and the charts of  *)
(* the last days.  Four queries follow one another, and the emails change  *)
(* between them; only the error of the first is looked at.                 *)
(***************************************************************************)
EXTENDS Statistics

CONSTANTS
  Emails, Senders,   \* ids, and the domains that send
  Spans,             \* days a dashboard may cover
  Reasons,           \* values of last_error
  TopReasons,        \* how many reasons are shown
  LastDay,           \* bound: of the calendar
  MaxEdits,          \* bound: emails that come or change
  MaxErrors          \* bound: queries that fail

DashboardAssumption ==
  /\ Spans \subseteq Nat \ {0} /\ TopReasons \in Nat /\ "" \notin Reasons
  /\ LastDay \in Nat /\ MaxEdits \in Nat /\ MaxErrors \in Nat

VARIABLES
  table,   \* the emails table
  today,
  view,    \* the request: what it has read so far
  edits, errors

vars == <<table, today, view, edits, errors>>

EmailOn(day) == [created: {day}, domain: Senders, status: {"queued", "sending", "sent", "canceled"}, reason: {""}]
                \cup [created: {day}, domain: Senders, status: {"failed"}, reason: Reasons]
Absent == [created |-> -1, status |-> "none", domain |-> "none", reason |-> ""]
Rows == {e \in Emails : table[e] # Absent}
Table == [e \in Rows |-> table[e]]

\* still: no email came or changed since the first query; whole: no query failed.
Closed == [phase |-> "closed"]
Opened(days, start) ==
  [phase |-> "summary", days |-> days, start |-> start, opened |-> today,
   summary |-> <<>>, daily |-> <<>>, domains |-> <<>>, reasons |-> <<>>,
   still |-> TRUE, whole |-> TRUE]

Init ==
  /\ table \in [Emails -> {Absent} \cup UNION {EmailOn(d) : d \in 0..1}]
  /\ today = 1
  /\ view = Closed
  /\ edits = 0 /\ errors = 0

\* An email comes, or gets its verdict.
Edit(e) ==
  /\ edits < MaxEdits /\ edits' = edits + 1
  /\ \E r \in EmailOn(IF e \in Rows THEN table[e].created ELSE today) :
       /\ e \in Rows => table[e].status \in {"queued", "sending"} /\ r.domain = table[e].domain
       /\ table' = [table EXCEPT ![e] = r]
  /\ view' = IF view = Closed THEN view ELSE [view EXCEPT !.still = FALSE]
  /\ UNCHANGED <<today, errors>>

DayPasses ==
  /\ today < LastDay /\ today' = today + 1
  /\ UNCHANGED <<table, view, edits, errors>>

\* The window ends with today and covers days full days.
FirstDayEarly(days) == today - days
FirstDay(days) == today - (days - 1)
Open(days) ==
  /\ view = Closed
  /\ view' = Opened(days, FirstDay(days))
  /\ UNCHANGED <<table, today, edits, errors>>

From == view.start
To == view.start + view.days
Fails == errors < MaxErrors /\ errors' = errors + 1
Works == UNCHANGED errors
Reads(phase) == view # Closed /\ view.phase = phase /\ UNCHANGED <<table, today, edits>>

SummaryRead ==
  /\ Reads("summary")
  /\ \/ Works /\ view' = [view EXCEPT !.phase = "daily", !.summary = SummaryStats(Table, From, To),
                                      !.still = TRUE]
     \/ Fails /\ view' = Closed

\* Days without emails are filled in.
Filled(daily) == [day \in From..To - 1 |-> IF day \in DOMAIN daily THEN daily[day]
                                           ELSE [sent |-> 0, failed |-> 0]]
DailyRead ==
  /\ Reads("daily")
  /\ \/ Works /\ view' = [view EXCEPT !.phase = "domains", !.daily = Filled(DailyVolume(Table, From, To))]
     \/ Fails /\ view' = [view EXCEPT !.phase = "domains", !.daily = Filled(<<>>), !.whole = FALSE]

DomainsRead ==
  /\ Reads("domains")
  /\ \/ Works /\ view' = [view EXCEPT !.phase = "reasons", !.domains = DomainVolume(Table, From, To)]
     \/ Fails /\ view' = [view EXCEPT !.phase = "reasons", !.whole = FALSE]

ReasonsRead ==
  /\ Reads("reasons")
  /\ \/ /\ Works
        /\ \E top \in FailureReasons(Table, From, To, TopReasons) :
             view' = [view EXCEPT !.phase = "shown", !.reasons = top]
     \/ Fails /\ view' = [view EXCEPT !.phase = "shown", !.whole = FALSE]

Leave == Reads("shown") /\ Works /\ view' = Closed

Next ==
  \/ \E e \in Emails : Edit(e)
  \/ DayPasses
  \/ \E days \in Spans : Open(days)
  \/ SummaryRead \/ DailyRead \/ DomainsRead \/ ReasonsRead \/ Leave

Spec == Init /\ [][Next]_vars

-----------------------------------------------------------------------------
(* Properties.                                                              *)

Total(bars, field) == FoldFunction(LAMBDA bar, sum : bar[field] + sum, 0, bars)

\* The page is about the last days, the one it was opened on included, and its
\* parts agree: the bars of the days and those of the domains add up to the
\* headline, and no failure is under two reasons.  Emails that come between the
\* queries, and a query that fails, are the only excuses.
BarsAddUp ==
  view # Closed /\ view.phase = "shown" /\ view.still /\ view.whole =>
    /\ view.summary.total =
         Cardinality({e \in Rows : view.opened - table[e].created \in 0..view.days - 1})
    /\ DOMAIN view.daily = view.opened - view.days + 1 .. view.opened
    /\ \A field \in {"sent", "failed"} :
         Total(view.daily, field) = view.summary[field]
         /\ Total(view.domains, field) = view.summary[field]
    /\ view.summary.total = view.summary.rated + view.summary.canceled
    /\ view.summary.rated = view.summary.sent + view.summary.failed + view.summary.queued
    /\ FoldFunction(LAMBDA top, sum : top.count + sum, 0, view.reasons) <= view.summary.failed
=============================================================================
