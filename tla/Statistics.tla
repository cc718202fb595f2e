----------------------------- MODULE Statistics -----------------------------
(***************************************************************************)
(* The counting queries of internal/store/stats.go, each of them one       *)
(* SELECT over the emails created in [from, to).  The callers' bounds are  *)
(* midnights, so a time is the number of its day.                          *)
(***************************************************************************)
EXTENDS Integers, FiniteSets, Functions, SequencesExt

\* rows is a function from ids to records with the fields created, status,
\* domain and reason (last_error; "" if there is none).
InRange(rows, from, to) ==
  {e \in DOMAIN rows : from <= rows[e].created /\ rows[e].created < to}

Having(rows, W, statuses) == Cardinality({e \in W : rows[e].status \in statuses})
Verdicts(rows, W) == [sent |-> Having(rows, W, {"sent"}), failed |-> Having(rows, W, {"failed"})]

\* SuccessRate is sent / rated, if rated is not 0.
SummaryStats(rows, from, to) ==
  LET W == InRange(rows, from, to) IN
  [sent |-> Having(rows, W, {"sent"}), failed |-> Having(rows, W, {"failed"}),
   queued |-> Having(rows, W, {"queued", "sending"}),
   canceled |-> Having(rows, W, {"canceled"}), total |-> Cardinality(W),
   rated |-> Cardinality(W) - Having(rows, W, {"canceled"})]

\* Days and domains without any email are omitted.
DailyVolume(rows, from, to) ==
  LET W == InRange(rows, from, to) IN
  [day \in {rows[e].created : e \in W} |-> Verdicts(rows, {e \in W : rows[e].created = day})]
DomainVolume(rows, from, to) ==
  LET W == InRange(rows, from, to) IN
  [d \in {rows[e].domain : e \in W} |-> Verdicts(rows, {e \in W : rows[e].domain = d})]

\* The most frequent reasons first, limit of them; the order of equals is open.
FailureReasons(rows, from, to, limit) ==
  LET F == {e \in InRange(rows, from, to) : rows[e].status = "failed" /\ rows[e].reason # ""}
      count == [r \in {rows[e].reason : e \in F} |-> Cardinality({e \in F : rows[e].reason = r})]
      sorted == {s \in SetToSeqs(DOMAIN count) :
                   \A i, j \in DOMAIN s : i < j => count[s[i]] >= count[s[j]]}
  IN {[i \in 1..(IF Len(s) < limit THEN Len(s) ELSE limit) |->
         [reason |-> s[i], count |-> count[s[i]]]] : s \in sorted}
=============================================================================
