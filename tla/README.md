# doevoe in TLA+

doevoe is a small self-hosted mail service: applications post emails to an HTTP
API, a worker delivers them straight to the recipient's MX hosts, operators
look after domains, keys and emails in an admin UI, and a notifier writes to
the operators when things go wrong. Everything is kept in one SQLite database,
in one process, with many goroutines. This directory models the service, checks
it with TLC, and proves with TLAPS, for every value of the constants, most of
what the runs check on small instances. Source paths are relative to
`src/`.

## 1. The system

### Components, their state and operations

| component | source | state | operations that change it |
|---|---|---|---|
| email store | `internal/store/emails.go` | table `emails`: status, attempts, next_attempt_at, to, original_to | EnqueueEmail, ClaimDue, RequeueStaleSending, MarkSent, MarkRetry, MarkFailed, CancelEmail, RequeueEmail |
| delivery worker | `internal/delivery/worker.go`, `backoff.go` | a tick, its goroutines, a semaphore per recipient domain; the row copies it claimed | Run, Tick, process, recordAttempt, retryOrFail |
| SMTP sender | `internal/delivery/sender.go`, `classify.go` | none beyond one Send: MX list, host, connection | Send, deliverTo, connect |
| connection deadline | `internal/delivery/sender.go` (ctxBoundConn) | the deadline of a net.Conn, a watcher goroutine | newCtxBoundConn, Close |
| HTTP API | `internal/api/api.go`, `store/apikeys.go` | none of its own; rows of `emails`, `api_keys`, `domains` | auth, postEmail, enqueueOrReplay, getEmail |
| message building | `internal/delivery/message.go`, `internal/dkimkeys` | none: the row of an email becomes a signed message | BuildMessage, SignMessage; the validation in postEmail, retryEmail and the notifier |
| admin UI | `internal/admin/admin.go`, `store/emails.go`, `store/stats.go` | a map of sessions in memory; rows of every table | login, logout, retryEmail, cancelEmail, createKey, revokeKey, createDomain, verifyDomain; listEmails, dashboard |
| domain verification | `internal/dnscheck`, `cmd/doevoe/main.go` (recheckDNSLoop) | three flags per domain | Check, SetDomainVerification |
| notifier | `internal/notify/notifier.go`, `store/notify.go` | `notify_pending_failures`, `notify_state` markers | PermanentFailure, DigestTick, RateTick, StatsTick, KeyCreated, KeyRevoked |
| start | `internal/config/config.go`, `internal/store/store.go` | the schema of the database | Load, Open, schema, migrations |
| lifecycle | `cmd/doevoe/main.go` | context, server, goroutines, the open store | SIGTERM, shutdown, close |
| demo data | `cmd/seed-demo` | none of the service's | not modelled |

The components call each other through the database and four hooks: the worker
calls `OnPermanentFailure` (the notifier), the admin pages call `OnKeyCreated`
and `OnKeyRevoked` (the notifier), the notifier enqueues emails that the worker
delivers, and the DNS loop sets the flags that the API and the notifier test
before they queue anything. `store.Open` allows one connection, so one SQL
statement is atomic; but no component uses a transaction over several
statements, so between any two of them everything else may happen. That is the
grain of every model here: **one action per store call or network operation.**

### What is hard

* *Interleaving*: worker, operators, API requests and notifier all read a row
  in one statement and write it in another.
* *Crashes and restarts*: a delivery may be cut off anywhere; rows left
  "sending" are recovered by age only. A start may be cut off between two
  statements of the schema, and each statement commits by itself.
* *Time*: the stale window (45m) races Sends of up to 30m; the SMTP client and
  the deadline watcher set the same deadline; a tick uses the time it began.
* *Ignored errors*: the result of MarkSent, RecordAttempt, GetState and others
  is logged or dropped, and the code goes on.
* *Agreement of distant code*: three handlers let emails into the queue that a
  fourth place must be able to build at every later try; three files must agree
  on what a verified domain publishes; a link of a page must mean the window
  the page was cut from.
* *Repetition*: clients repeat requests, operators repeat clicks, tickers
  repeat ticks, MX hosts are retried.

`PROJECT.json` lists the hazards line by line, each with the properties that
would catch it.

What makes each component correct, in a line:

* store and worker: a worker owns the rows it delivers; no copy beyond the first
  without a cause; an email is retried while the schedule says so and not sooner;
  failures are reported; every email comes to rest; the first address survives.
* sender: best host first, refusals end what they should, the result says where
  copies are, every Send returns; a blocked operation comes to an end, no
  connection and no watcher leaks.
* message: what is accepted can be built, what is signed is there once.
* API: one email per Idempotency-Key, truthful answers, no error from a race.
* admin: cancels hold, retries keep the recipient, notices are true, ended
  sessions stay ended, pages lose nothing and charts add up.
* verification: flags need evidence and catch up with the records; the records
  shown are the records checked.
* notifier: nothing named twice, forgotten, or caused by the notifier itself.
* start and lifecycle: no service without its schema, no loop after the close,
  and an end.

## 2. Modules

| module | models | state and actions |
|---|---|---|
| `EmailStore` | the statements on `emails` | one operator per SQL statement, from row to row, and one per WHERE guard; no variables |
| `LeaseQueue` | nothing in the code: the abstract promise of the engine | status and "held" per email; Submit, Cancel, Requeue, Claim, Settle, Drop, Release |
| `Delivery` | Run, Tick and process of the worker, with the other writers of `emails` as atomic statements | `email` table, `job[p][e]` for the goroutine of process p for email e, `tick[p]`, `proc[p]`; one action per store call, per outcome of Send, per event in the life of the process; TimePasses |
| `Api` | POST and GET of the API | `req[r].phase` is the store call a handler makes next; keys, domains and emails change in between |
| `Message` | validation on the three ways into the queue, BuildMessage, SignMessage | `row` is the queued email with its texts as classes, `message` the header fields and parts of the last try |
| `Sender` | one Send | `phase` is the call about to be made, `route` the hosts left, `open` the connections dialed and not closed; servers answer each command at will |
| `ConnDeadline` | one connection with its watcher, go-smtp's own deadlines (external) | `deadline`, `watcher`, `client` |
| `Startup` | config.Load, store.Open, schema and migrations | `step` is the next statement; a database of any older release, a stop anywhere |
| `Lifecycle` | main: start, signal, shutdown, close | context, server, loops, handlers, store |
| `Service` | the six above, the way of a message and the process around it | a behaviour follows one part |
| `AdminEmails` | retryEmail, cancelEmail | read the row, decide, write with a guarded UPDATE; a worker that claims and settles |
| `KeyAdmin` | createKey, revokeKey and their notices | the key is written first, its notice afterwards |
| `DomainCheck` | Check, recheckDNSLoop, verifyDomain | three lookups one by one, then one UPDATE; records change meanwhile |
| `DomainSetup` | createDomain, showDomain, dkimkeys.Records, the matching in Check | the owner's zone with other TXT records, redeploys to another address; addresses of which one begins with the other, and a record that denies, as Check looks for a substring |
| `Listing` | GET /admin/emails over ListEmails | filter, window, LIMIT and OFFSET; an operator walks from page to page while emails come and age |
| `Statistics`, `Dashboard` | the counting queries of stats.go, and the page that makes four of them | the queries one by one, emails change in between, queries fail |
| `Sessions` | login, auth, logout | the map and its critical sections; requests that overlap; restarts |
| `Admin` | the seven pages | a behaviour follows the operators of one kind of page |
| `Digest` | PermanentFailure, DigestTick | list, read the marker, enqueue, clear, write the marker |
| `RateAlert` | RateTick for one domain | the attempts of the last hour by kind; count, read the marker, enqueue, write the marker |
| `MonthlyStats` | StatsTick | calendar with months of different length, marker; read, enqueue, write |
| `Notifier` | Notifier.Run | the one goroutine of the three ticks |
| `MCDelivery`, `MCApi`, `MCService`, `MCAdmin` | values for TLC | |
| `DeliveryProofs`, `DeliveryRefinement`, `DeliveryPromises` | theorems about `Delivery` | |
| `ServiceProofs`, `SenderProofs` | theorems about `Service` | |
| `AdminProofs`, `NotifierProofs` | theorems about `Admin` and `Notifier` | |

`Service`, `Admin` and `Notifier` compose with INSTANCE. The parts each joins
share no table row that both write (for `Notifier`: only the goroutine, the
verification of the system domain and the faults), so interleaving them would
multiply states and reach no new one of either; a behaviour therefore follows
one part, and the others stand still. Where parts do meet they meet in outcomes:
a handler of `Api` refuses a body that `Message` would refuse, a Send of `Sender`
may fail to build, an operation of `ConnDeadline` may fail. `Delivery` and
`AdminEmails` are the two views of one table: `Delivery` has the operators'
UPDATEs as single steps, since only the UPDATE touches the row, and
`AdminEmails` has the handler around them with a worker cut down to its claims
and verdicts.

Definitions that no behaviour uses stand before some others under a name of
their own (`CancelableUnguarded` before `Cancelable`): each is a plausible slip
in the code that one of the properties catches.

### Abstractions that matter

* Time in `Delivery` is relative: `due` is next_attempt_at minus now, and one
  unit is about a quarter of an hour. It saturates at MaxAge, which is not below
  the stale window or any wait of the schedule, so no comparison of the code
  can tell. Time stands still at the opening of a tick (two statements), and for a
  process that was told to stop and has no tick running: Run's select has
  ctx.Done ready, so it may choose a tick that is due already and waits for none.
* A Send in `Delivery` is what `Sender` may do, as seen by the worker: accepted
  or not, at any moment, then a result. A failure after an acceptance has one of
  two causes: the context ended, by SIGTERM or OverallTimeout, and the watcher
  cut the reply to the final dot (`ContextEnded`, counted in `cuts`), or a reply
  was lost or bad (a fault, as in `Sender`'s history `excused`).
* That a Send with a live context ends within SendCap is a condition of the runs
  and theorems with several processes, and not what the code enforces (section 5).
  With one process no property depends on it but `EveryEmailSettles`.
* A failing store call is nondeterministic and counted in `faults`. Where the
  code ignores the error, the model goes on as the code does.
* Texts are classes: empty, plain, or with a CR or LF. Encodings, cryptography,
  logging, HTML and SQL text are left out; addresses, keys, hosts and months
  are model values or small numbers.
* The header name of a custom header is a name of the set with a spelling: as it
  is, in another case, or longer, such that it is no field name ("Subject: x").
* Store calls are one step where nothing that comes between them makes a
  difference: GetDomainByName and EnqueueEmail in `Digest` and `MonthlyStats` (a flip
  of the domain in between is like one after both, a crash like one before), and
  the queries of a report, whose text is left out.
  The hosts of `Sender` are a set: one host under two preferences is left out.
* In `Listing` a time is a number of half days; in `Dashboard`, whose bounds are
  midnights, a number of days.
* External behaviour taken as given: go-smtp's deadlines around each command
  (and none while the body is written), `http.Server.Shutdown` making
  ListenAndServe return at once, the resolver's two ways to say "no MX".

## 3. Runs

| run | question | bounds |
|---|---|---|
| `delivery` | Does the worker own the rows it delivers, whatever operators, crashes, store errors and SIGTERM do; has every extra copy a cause; is the schedule kept in both directions; are failures reported; does the engine implement `LeaseQueue`? | 1 process, 2 emails, one slot, 1 retry, 1 admin action, 1 SIGTERM, 1 fault |
| `delivery_live` | Does every email come to rest; is the first address kept? | 1 email, 2 retries, 2 addresses, 2 admin actions, 1 SIGTERM, 1 fault |
| `delivery_two` | Can two processes deliver one email at the same time, but for an email that waited too long for its slot? | 2 processes, 2 emails that queue for 1 slot, window 4 > Send cap 2, no retry, 1 SIGTERM, 1 fault |
| `delivery_queueing` (violated) | Can they at all? | 2 processes, 2 emails, 1 slot |
| `delivery_redeploy` (violated) | Does a redeploy lose nothing? | 1 email, 1 retry, 1 SIGTERM |
| `service` | Is the schema complete when the program serves; are answers and Idempotency-Keys honest; is what is accepted buildable and signed once; does a Send respect preferences and refusals and return; are connections closed and their watchers ended; do the loops end before the store, and does the process end? | every older schema; 2 requests of any content, 2 keys on 2 domains, 1 fault; 2 custom headers; 4 hosts, of which 3 are tried, any of them without an address; 6 operations on a connection; 3 loops, 2 handlers |
| `api_replay` (violated) | Is a repeated request answered with the original result? | 2 requests, sent twice |
| `shutdown_race` (violated) | Does nothing race the closing of the store? | 2 loops, 1 handler |
| `admin` | Do cancels hold and retries keep the recipient; are notices true; do flags follow evidence and catch up; do the shown records verify; does a walk over the pages show everything; do the charts add up; do ended sessions stay ended? | 2 operators, 2 requests each, 2 claims; 3 key requests, 1 fault; 2 record changes, 1 failing lookup, 2 verifications; 2 domains, 2 addresses, 2 edits of a zone, 1 redeploy; 3 emails on pages of one; 2 counted emails, 3 days, 1 edit, 1 failing query; 2 sessions, 2 overlapping requests |
| `notifier` | Is nothing repeated without cause, forgotten, or fed by the notifier itself? | 2 emails failing twice, cooldown of 2 steps; 1 attempt of each of 4 kinds; 5 months; 2 turns of the domain, 1 fault |
| `digest_race` (violated) | Is a failure no digest has named still on the list? | 2 emails |
| `rate_own_failures` (violated) | Is an alert about some failure of a user's email? | 2 attempts of each kind |

The largest are `delivery` (2.4 million distinct states), `admin` (1.2 million) and
`delivery_two` (1.1 million); each run takes a minute or two.

Why these bounds are enough to be of interest. Two emails with one slot make a
goroutine wait while another holds the semaphore, and give a batch that is split
by an error. One fault is enough for each single crash, lost reply or failed
call at every point (and the properties that count faults are proved for any
number). A schedule of one or two waits has its first, middle and last try. Two
operators with two requests overlap in every order, with the second acting on
what the first left behind. Two API requests are enough for a race on an index;
a request that is sent, lost by a crash and repeated is the second of them with
the same content. Four hosts with two equal preferences are the least for which
sorting, ties and the cap interact. Three emails on pages of one make a walk of
three steps, with an arrival or a verdict between any two. Three days and spans
of one and two give a dashboard a day before, in and after its window. Five
months hold a report that is overdue for more than one month, and one that is
not, and a month shorter than the day of the tick.

### Fairness

* `Delivery!Fairness`: weak fairness of each goroutine, ticker and restart (the
  Go scheduler, `time.Ticker`, `restart: unless-stopped` in docker-compose) and
  strong fairness of time, which stands still at the opening of each tick, and of
  Exit: the select of Run picks at random among ready cases, so a process that
  was told to stop may take further ticks that are due, but not for ever.
  Nobody owes a request, a SIGTERM, a crash or an acceptance.
* `Service!Spec`: a Send goes on, as each call of its dialogue ends; on a
  connection the watcher, the client and the command timeout act, the peer need
  not. `SendReturns` is therefore about the walk and the fallbacks, not about
  one blocked call (see 5). In the process ticks end, `select` does not pass over
  ctx.Done() for ever though it picks at random (strong: LoopEnds is disabled
  during a tick), the shutdown goroutine and main run. Handlers and clients owe
  nothing.
* `Notifier!Spec`: the goroutine runs; time goes on (strong, since a tick takes
  less than one unit of it).
* `Admin!Fairness`: the DNS ticker fires and a check ends. Operators owe nothing.

Deadlock is not checked where the system may really stop: no request is open, a
Send has returned, the process has exited.

## 4. Proofs

The proof modules hold for every set and every bound that satisfies the named
ASSUMEs of the specifications. Each theorem follows one line: an invariant that
is inductive, one lemma for the initial states, one for a step with a case per
action, and a temporal step.

### The delivery engine

* `TypeCorrect`: `Spec => []TypeOK`.
* **What keeps processes apart.** With one process nobody can take a row from a
  goroutine. With several, only time protects it, and the code does not always
  leave enough: a row is stamped when it is claimed, and the wait for a slot of
  its recipient domain counts against the stale window (`delivery_queueing`). The
  properties therefore speak of the emails that are `Timely`: there is one
  process, or a Send with its store calls fits into the stale window
  (`SendsAreShort`, as the 30m and 45m of worker.go) and no goroutine of the email
  ever waited for its slot so long that they no longer did (`late`, a history
  variable). The batch size and the limit per domain are free. So the theorems
  say for the deployed constants, with queueing, how far the stale window
  carries; an email that did wait too long is out of their reach, as it must be.
* `DeliveriesStayApart` (`OnlyLateEmailsOverlap`) and `WorkersOwnTheirRows`
  (`Ownership` and `SentIsFinal`). `Ownership` is not inductive alone: a claim
  overwrites the goroutines of the process, so none may be left when a tick is
  not delivering (`IdleTicks`), which wg.Wait provides; and a row must be known
  to have one holder, with time enough (`Young`: what the Send and the store calls
  may still take ends within the stale window of the row). `OwnInv` is the
  conjunction.
* `CopiesAlwaysHaveCauses` (`CopiesHaveCauses`). `DupInv` keeps books for each
  email: its acceptances are at most its bill (the faults, and the contexts of
  its Sends that ended between an acceptance and the reply), unless one more is
  *paid*: its row says "sent" or its goroutine will report it. An acceptance pays
  for itself; every step that loses such a job or row puts it on the bill.
* `WorkerImplementsLease` (one process) and `WorkersImplementLease` (any number, in
  the behaviours in which every email is always timely): every step is a step of
  `LeaseQueue` or a stutter. `OwnInv` rules out a verdict on somebody else's lease.
* `RetriesKeepTheSchedule` (`ScheduleIsKept`) from `OwnInv`, `AgeInv`, which says that
  a claimed row is at least as old as its tick, as MarkRetry reckons from the tick,
  and `LiveInv`: a goroutine that entered Send with a canceled context belongs to
  a process on its way out.
* `OnlyRedeploysSkipTries`, from `LiveInv`: with crashes, restarts, SIGTERMs and
  failing store calls, an email is given up without a real try only by a process
  that was told to stop. It is the rest of the promise that `delivery_redeploy`
  shows broken: such a process does it.
* `NoFailureIsLost` (`FailuresAreReported`) from `RepInv`, and `FirstAddressSurvives`
  (`FirstAddressKept`) from `AddrInv`: rows and copies have an address at all. Any
  number of processes, timely or not.

`SingleProcess` (any two processes are equal) is the deployment of
docker-compose.yml.

### The service (`ServiceProofs`, `SenderProofs`)

* `LoopsNeverMeetAClosedStore`, from `LifeInv`: main is past wg.Wait only when
  every loop has ended. Any number of loops and handlers.
* `ServesWithItsSchema`, from `StartInv`: the statements before `step` have left
  what they create, whatever an earlier start had.
* `OneEmailPerKey`, `AnswersNameTheEmail`, `RacesAreNoErrors`, from `ApiInv`: the
  three properties together with `Admitted`, which says that a handler looks a
  row up again only because the index holds one or a fault hit, and that a late
  request does not pass auth. Any number of requests, repetitions and crashes.
* `AcceptedCanBeBuilt` (`AcceptedIsBuildable`), from `MessageInv`: the queued row
  passes what BuildMessage refuses; a retry that re-addresses it keeps that.
* `HeadersAreSignedOnce` (`SignedHeadersOnce`), for any finite set of custom names,
  from `WrittenInv`: the custom headers of the row have distinct names, none of them
  one that BuildMessage writes itself, so the sequence it builds names each of those
  at one place only; and each body that the row has is a part of the message. A
  header is excepted if a custom name that is no field name makes it (`Shadowed`).
* `RefusalsAreRespected` and `WhereCopiesAre`, for any finite set of hosts, from
  `SendInv`: the hosts still to come are distinct (a lemma about sorted and
  capped permutations) and have neither refused nor taken the message; a 5xx has
  ended the Send; and without a wrong answer after the final dot only the current
  host may have a copy.
* `BestHostsAreFirst` (`BestHostsFirst`), for any finite set of hosts, any
  preferences and any cap, from `OrderInv`: every host of a better preference than
  one on the route was dialed or comes before it. That a capped and sorted
  permutation of the hosts leaves out none better than those it keeps is a lemma
  about sequences of sets of any size.
* `SendsAreFinite`, for any finite set of hosts and any cap, from `CallsInv`: every
  call of a Send lowers `CallsLeft`, which is at most twelve for each host that may
  be tried and three. It is the safety half of `SendReturns`: no fallback leads back
  to where the Send has been.

### The admin UI and the notifier

* `NoSessionOutlivesItsEnd`, from `SessionInv` (the map holds just the sessions
  that were handed out, not logged out and not found expired) and `VisitInv`.
* `CancelsHold` and `RetriesKeepTheRecipient`, from `MailInv`: the rows the worker
  holds are "sending", so a guarded UPDATE never hits them.
* `FlagsNeedEvidence`, from `CheckInv`: what a running check has found was there
  at some moment of it, and without a failing lookup it misses nothing that was
  there all the time.
* `ShownRecordsPass` (`ShownRecordsVerify`), from `SetupInv`: a zone holds records
  of the kinds that are modelled; among them the shown ones match what the check
  looks for, and no other domain's key does. Which addresses begin with which is
  free, and nothing is claimed of the SPF records that pass besides the shown one.
* `NoticesTellTheTruth` (`NoticesAreTrue`), from `KeyInv`: a handler on its way to
  a notice of a creation is the only creator of a key that exists and has no such
  notice; one that will name a revoked key has seen the key before it revoked it.
* `DashboardAddsUp` (`BarsAddUp`), for any finite set of emails and any window, from
  `BoardInv`. The charts are folds over functions, which the prover cannot unfold by
  induction; `OneSum` shows instead that the fold's equation has one solution, by
  taking a smallest set on which two would differ, and that a sum over a partition
  is the size of the whole.
* `WalksShowEverything` (`WalkShowsEverything`), without an assumption, from
  `ListInv` (a later id is newer) and `WalkInv`: an email that was asked for and
  not yet shown is still listed, at a place behind the pages that were seen, and
  there is a link that leads on. `Places` and `OrderedPlaces` tie the place of a row
  in ListEmails' order to the number of newer rows, so an arrival moves it back
  and never over a page's edge that the walk has passed.
* `FailuresAreNamedOnce` and `DigestsAreApart`, from `DigestInv`: what a tick lists
  is pending, an email that was named is not pending again without a new failure
  or a fault, and the marker is as old as the last digest unless a fault hit.
* `NotifierDoesNotLoop`, for any finite set of emails, from `LoopInv`: the digests
  so far, and one to come if something is pending, are at most the failures of
  users' emails and the faults.
* `OneAlertPerIncident`, from `RateInv`: without a fault either the incident is
  over or the marker says that its alert is out.
* `MonthsAreReportedOnce` (`EachMonthOnce`), from `MonthInv`: a month's reports are
  at most the faults, and one more once the marker has passed it or will; a month
  that ended a month ago is reported or on the list of the late ones; and without a
  fault a tick that has reported moves the marker past no month but those. The
  install month is left open (section 5).

Every safety property of a passing run is the subject of a theorem, but for
`ConnectionsAreClosed`, which is only model-checked.

### What the proofs changed in the models

* `HeadersAreSignedOnce` failed first on `Message!Parts`, whose cases overlapped for
  a body with text and HTML: what the prover may assume of a CASE is less than what
  TLC picks. The guards now exclude each other, as the branches of BuildMessage do.
* `Listing!Ordered` is the sequence that is sorted as ORDER BY says, chosen among
  those of the listed ids, since the library's SortSeq has no definition that a
  prover could use. No two rows are equal in that order (id is its last key), so
  there is one such sequence.

### Model-checked only

All liveness (`EveryEmailSettles`, `SendReturns`, `WatcherEnds`, `StopsInTheEnd`,
`FlagsCatchUp`, `PendingGetsOut`, `ElevatedIsReported`), which with ENABLED is
beyond the prover. And, of course, the violations: of the six properties that the
code breaks, two have a proved counterpart that says what is left of them
(`OnlyLateEmailsOverlap` of `NoConcurrentDelivery`, `OnlyRedeploysSkipTries` of
`RedeployLosesNothing`); `ReplayIsAnswered`, `NothingRacesClose`,
`NoFailureForgotten` and `OwnFailuresDoNotAlert` are refuted only. No module
declares a RECURSIVE operator.

## 5. Where code and documentation part

Shown by a run that expects the violation, and listed in `PROJECT.json`:

* `delivery_queueing`: the claim is stamped before a goroutine waits for its
  slot, so the stale window does not bound what it is meant to. Needs two
  processes on one database.
* `delivery_redeploy`: after SIGTERM goroutines still enter Send with a canceled
  context (those that wait for a slot, and those of a tick that the select chooses
  once more); the failed try counts and may be the last. In the trace the signal
  comes when the email is due for its last attempt.
* `api_replay`: the verification of the domain is tested before the
  Idempotency-Key, so a repetition may be refused with 403.
* `digest_race`: ClearPendingFailures deletes rows the digest did not list.
* `rate_own_failures`: FailureRate counts the tries of the notifier's own emails.
* `shutdown_race`: main waits for the loops but not for srv.Shutdown, so handlers
  may meet a closed store. The trace has a server that fails; the ordinary path
  has the same gap.

Seen while modelling, without a run:

* `internal/delivery/worker.go:165`: MarkRetry counts from the start of the
  tick, so a slow Send eats into the wait of the schedule (`Delivery!MarkRetry`
  subtracts the age of the tick; `ScheduleIsKept` says what is left).
* `internal/delivery/sender.go:140`: an MX host without an address record fails
  the dial with a not-found DNS error; Classify takes it for a missing recipient
  domain and the Send ends for good, with other hosts untried (`Sender!Dial`).
* `internal/delivery/sender.go:117`: with Go's resolver, a domain without MX
  records is such an error as well, so the fallback to the address is not
  reached (`Sender!LookupMX` has both resolvers).
* `internal/delivery/sender.go:311`: the watcher fires once. Between two
  operations of the client, the client's next deadline undoes it, and a body
  write sets none (`ConnDeadline!Command`, `WriteBody`), so the cap does not
  bound the dialogue, though the comment above ctxBoundConn calls it a hard cap
  on every operation. `WatcherEnds` claims what is left: the operation that is
  blocked when the context ends comes to an end. In `Delivery` the 30m are a
  condition (`MayWait`).
* `internal/delivery/sender.go:310`: SIGTERM cuts the reply to the final dot, so a
  message that the MX took counts as not delivered and is sent again after the
  restart; `Delivery!SendReturns` has it, and `CopiesHaveCauses` counts it.
* `README.md:217`: "A fresh install does not get a phantom report for its
  (incomplete) install month". StatsTick's marker of a fresh install
  (`internal/notify/notifier.go:219`) holds back the report of the month *before*
  the install; the install month is reported at the next turn of the month
  (225-229). `MonthlyStats` does as the code does, and `EachMonthOnce` leaves the
  install month open.
* `internal/delivery/message.go:73`: a custom header whose name is no field name,
  "Subject: x" or "Subject " with a blank, is not reserved and holds no line break,
  so it is accepted and written as a second Subject (129, 141-143). `Message` has
  such names ("longer"), and `SignedHeadersOnce` excepts the fields they make.
* `internal/notify/notifier.go:153`: the subject of a rate alert holds the name of
  the domain, which createDomain does not check for a line break; such an alert
  cannot be built (`Message!EnqueueNotice`, excepted by `AcceptedIsBuildable`).
* `internal/api/api.go:92`: reply_to is parsed but not checked further; one whose
  comment breaks a line is accepted and fails when it is built, for good.
  `Message` has it, and `AcceptedIsBuildable` is about all other emails.
* `internal/admin/admin.go:424`: a walk over the pages of a status filter skips
  rows when emails on earlier pages leave the filter (`walk.fell` in `Listing`).
* `internal/admin/admin.go:350`: the dashboard looks at the error of its first
  query only and shows empty charts after a failing one (`Dashboard`).
* `internal/admin/admin.go:173`: an expired session is removed when it is used
  and never otherwise (`Sessions`).
* `internal/dnscheck/dnscheck.go:44`: the SPF record passes if it *contains*
  `ip4:` and the address, so the record of a longer address that begins with it
  passes too, and so does `-ip4:`. `DomainSetup!SPFOk` is that test, on addresses
  of which one begins with the other, and `ShownRecordsVerify` claims no more of
  SPF than that the shown record passes.
* `internal/notify/notifier.go:51`: the system domain is looked up as configured,
  while createDomain stores names in lower case.
* `internal/admin/admin.go:566`: a retry or cancel that loses to another
  operator is answered as if a worker had taken the email (`AdminEmails`).
* `internal/admin/admin.go:702`: revoking a key twice queues two notices
  (`KeyAdmin!RevokeAPIKey` has no guard), though `README.md:211` says one email per
  event; `NoticesAreTrue` says nothing of repeated revocations.

## 6. Not modelled

* Demo data (`cmd/seed-demo`): a tool for screenshots.
* Text: templates, labels, the wording of notices and of the monthly report with
  the queries that fill it.
* Encodings, the cryptography of DKIM, key hashes and tokens; go-smtp, net/http
  and SQLite beyond what section 2 takes as given.
* Pages that show one row, last_used_at, the delay after a wrong password, and
  the default values of the configuration.
* The length of the real schedule and SQLite's durability.

## 7. What is left

1. *Composition.* API, engine and digest on one table: an accepted request is
   delivered, or its failure is named in a digest. The parts are checked against
   their interfaces; the whole chain is not.
2. *The Sender on top of its connections*, so that SendReturns rests on deadlines
   and not on the assumption that every call ends.
3. *Proofs* of the conditions under which the other properties of section 5 hold
   (a domain that stays verified, a server without open requests, a digest that no
   failure overtakes).
