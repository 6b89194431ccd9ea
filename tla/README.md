# HighLevel AI Lead Bridge: specification, model checking and proofs

The bridge takes webhook calls about new leads from a CRM, stores each as an
event, summarizes it with an LLM provider (or a deterministic fallback),
notifies the team, writes back to the CRM, and lets an operator inspect and
replay events that did not get through. This directory models that in TLA+,
checks the models with TLC and proves the properties that matter most with
TLAPS. Line numbers refer to the repository at the commit modelled.

## 1. The system

| Part | State it keeps | Operations | Talks to |
|---|---|---|---|
| Webhook intake (`app/api/webhooks.py`) | row of `events` | look up a duplicate, insert, process, answer | database, `EventProcessor` |
| Processing (`services/event_processor.py`) | status, attempt count, error of the row; `inferences` rows | two commits with summary, notification and synchronization between them | summarizer, notifier, sync |
| Replay (`services/event_replay.py`, `api/admin.py`) | the same row; `dead_letters` | load and limit, process, roll back, mark failed, dead-letter; detail view | database, `EventProcessor` |
| Persistence (`db/*`, `alembic/`) | the three tables | unique columns; one `AsyncSession` per request, `expire_on_commit=False` | SQLite or PostgreSQL |
| Summarizer (`services/summarizer.py`, `services/fallback.py`, `providers/*`) | attempts of this pass | provider chain with bounded retries, fallback | LLM services |
| Notifier (`services/notifier.py`, `clients/slack.py`, `clients/discord.py`) | none | one delivery with bounded retries | Slack, Discord |
| CRM sync (`services/highlevel_sync.py`, `clients/highlevel.py`) | none | note, tags, field, each with bounded retries | HighLevel |
| Admission (`core/request_limits.py`, `core/security.py`, `main.py`, payload schema) | bytes read per request | declared and streamed size limit, routing, secrets, validation | every route |
| Normalization (`services/lead_normalizer.py`) | none | cleaned lead, payload hash, event id | webhook intake |
| Settings, logging, privacy, health, cost estimate, packaging | none | | |

All requests run as coroutines of one event loop (or of several server
processes) over one database. They share nothing but the tables, and interleave
at every `await`.

What is hard here, and hard to test:

* A session reads an event once and keeps that copy across its commits, while a
  pass lasts as long as its slowest service. Anything another request writes in
  between is not seen, and a flush writes only the columns that changed with
  respect to the copy: updates get lost one column at a time.
* Two webhook calls can both find no duplicate; only the unique columns decide.
* The event is committed before it is processed and its outcome after the
  notification is sent. A crash or a refused commit at any of these points
  leaves a different half of the work done.
* Answers of services get lost after the work was done, and the client asks
  again; four clients write out the same retry loop.
* A receipt can be lost or late after its event was stored, and the sender posts
  again while the first call is still at work.
* The gates are spread over middleware, FastAPI's body reading, dependencies and
  the schema; an exception raised in one is answered by another.
* Two keys decide whether an event is new, and each is computed from a different
  form of the same body.
* Two exceptions that the code's structure suggests are impossible are not: the
  fallback can raise, and so can the CRM synchronization.

`PROJECT.json` lists each hazard with its line and the properties that watch it.

What makes the parts correct, in a sentence each:

* admission: what is handled passed every gate, and what is refused leaves no
  trace;
* identity: nothing that a lead's named fields tell is dropped as a duplicate, and
  whitespace makes no new event (but see sections 5 and 6);
* intake: an event is processed by at most one webhook call, and is acknowledged
  only if it is stored;
* processing: completed means notified, synchronized and recorded, an event in
  trouble says what the trouble is, and no pass or hand-off repeats by itself;
* replay: attempts are counted and capped; a dead letter exists exactly for
  exhausted events, and is never rewritten;
* over time: a stored event does not stay unsettled if the operator persists;
* a pass: every configured operation is attempted, no more often than allowed,
  its failures are reported, its rows tell what happened, and it ends.

## 2. The modules

| Module | Models |
|---|---|
| `LeadIdentity` | operators: validation, cleaning, payload hash and event id of a body |
| `Intake` | requests through limit, body, secrets and schema to the lookup and insert |
| `EventLifecycle` | intake, processing and replay over the tables, with overlap, refused commits and crashes |
| `EventLedger` | abstract: what is promised about one event |
| `Recovery` | `EventLifecycle` with callers that persist and finitely many faults |
| `ProcessingPass` | one pass on the wire: chain, retries, fallback, notification, CRM operations |
| `HandOff` | abstract: what a pass owes its caller between the two commits |
| `MCIntake`, `MCEventLifecycle`, `MCRecovery`, `MCProcessingPass` | instances for TLC |
| `EventLifecycle_proofs`, `LifecycleWork_proofs`, `ExclusiveLifecycle_proofs`, `Recovery_proofs`, `ProcessingPass_proofs`, `Intake_proofs`, `IntakeRefinement_proofs` | theorems |

`EventLifecycle` is the middle. Before it, `Intake` shows by refinement that the
requests which reach its lookup are the admitted ones and gives its abstract
payloads and ids their content. Behind it is `HandOff`.

`HandOff` is the joint. `EventLifecycle` takes the steps Summarize, Notify and
Sync with freely chosen outcomes; `ProcessingPass` shows, by refinement, that
these are the outcomes the code can produce and that it takes them in this
order. So the lifecycle need not carry six operations with their retries.

### LeadIdentity

A text is its words and its spacing: run together, one blank between them, or
any other whitespace between or around them. That is all `_clean` can tell apart,
and all it changes; a phone number loses its spacing altogether. `Valid` is what
the schema accepts, `Lead` is `normalize_lead`, `PayloadHash` the hash of the body as
sent and `EventId` what `derive_event_id` returns. `full_name`, `message` and the
like are functions of the other fields and are left out of `Lead`. SHA-256 is
free of collisions: a hash is the data hashed. A sender who supplies an id that
spells a derived one is not represented.

### Intake

State: `configured`, the services whose secret is set, fixed at the start;
`stored`, the rows by external id; `request`, per request that arrived, its
call, where it stands, and the bytes of its body received so far.

| Action | Code |
|---|---|
| `Arrive` | `RequestSizeLimitMiddleware.__call__` up to the app: declared length; routing |
| `Receive`, `Disconnect` | one message through `limited_receive`; the client is gone |
| `Admit` | `_verify_shared_secret`, then the body against the schema |
| `LookUp`, `Insert`, `Refuse` | the webhook up to its commit |
| `Find` | `_get_event` for the detail view or a replay |

FastAPI is external, and its order is part of the model: a webhook call's body
is read and parsed before its dependencies run, an exception in reading it is
answered 400 (so the middleware's own handler of `RequestTooLargeError` does not
see it), and the schema is checked after the dependencies. A call is admitted by
its own body, headers and size; that others are read meanwhile must not matter.

The refinement mapping: a row is an `EventLifecycle` row in status received; a
request at the insert is a session at the insert; an accepted one is a session
about to begin; a duplicate or refused one is a receipt; every other request is
not there yet.

### EventLifecycle

State: `events` and `dead_letters` are the tables, as functions on the external
ids present; `inferences` counts, per event, the passes whose rows are
committed. `session` holds what each request in flight knows: the await it is
suspended at (`at`), its copy of the row (`row`) and the problems of this pass.
`reply` is the receipt of an ended request. `passes` counts the passes
begun, `notified` and `synced` the hand-offs that `send` and `sync` reported as
done; the program cannot read them. What was really done on the wire, and where a
report is wrong (a redirect), is in `ProcessingPass`.

| Action | Code |
|---|---|
| `LookUp`, `Insert` | `receive_highlevel_webhook`: duplicate check; `create_event`, commit, `IntegrityError` |
| `Begin` | `process`, lines 55-58: status, attempt, first commit |
| `Summarize`, `Notify`, `Sync` | the three awaits between the commits |
| `Finish` | lines 86-103 and the receipt; for a replay also the check at lines 56-61 of `event_replay.py` |
| `Load` | `replay` up to `process`: not found, limit, pass |
| `Rollback`, `MarkFailed`, `DeadLetter` | the `except` branch and `_dead_letter` |
| `DatabaseError` | a statement or commit is refused, at every await that has one |
| `Crash` | a server process ends with every request in it; the requests of other processes go on |

One action is one transaction: the first UPDATE or INSERT takes the lock that
the commit releases. In `_dead_letter` the SELECT for an existing record flushes
the changed event first, so it looks while it holds the lock, and two replays of
one event cannot both find no record. If the flush has nothing to change, the
copy is dead-lettered already, and then so is the record (`DeadLetterRecorded`).
This argument, and not a run, is why `DeadLetter` is one action. `Commit` writes column by column, as the unit of work does,
and this is what lets the model lose the updates the program loses.
`error_message` is the set of problems its text names. An `Overlong` payload has
a field that no `LeadSummary` can hold; it may still be summarized by a provider
that shortens it. `BadContact` is a contact id that makes httpx reject the URL.

`Exclusive` is an assumption about the operators, not a part of the program: with
it, nobody replays an event that a request is working on. Deliveries come when
they like, with it or without. It separates what the code guarantees from what it
leaves to its operators.

Left out of this module: lookups that the database refuses (they answer 500 and
change nothing). Receipts lost on their way are in `Recovery`.

### ProcessingPass

`setup` is the part of settings and lead that a pass depends on and never
changes. `at` is the operation in progress; `asked` counts its requests and
`answer` is the answer to the last one: "temporary" stands for a connection
error, a timeout, 429, 502, 503 or 504; "error" for any other error, and for a
provider also an answer that is not a valid summary; "redirect" for a 3xx.
`applied` counts what the service did, which the program does not see: an answer
can be lost after the work was done. `rows` are the provider attempts in order.

### Recovery

Each delivery carries one payload and is made again while it is answered 500 or
not at all. At most `MaxFaults` faults happen: crashes, refused commits, and
receipts of deliveries that are lost on their way back, after which the sender
repeats what was done. Deliveries overlap each other and the operator's replays.
The operator replays events at any time that `Exclusive` leaves, and persists with
those that are neither completed nor dead-lettered (`Repair`). `worked` is a
history variable: per event, the passes begun by deliveries. The operator is
assumed to reach the event, which section 5 shows is not true of every id.

## 3. The runs

| Run | Question | Distinct states |
|---|---|---|
| `lifecycle_overlap` | What holds however requests overlap? | 1.1 million |
| `lifecycle_exclusive` | What holds in addition if operators do not replay what is being worked on? Is it the ledger? | 1.1 million |
| `processing_pass` | Is a pass bounded, isolated, truthful, finite, and nearer to its end with every step? Is it a hand-off? | 0.9 million |
| `recovery` | Is every lead stored and settled in the end, its work started by one delivery? Are receipts true and the ledger kept when calls repeat? | 0.17 million |
| `intake` | Who is admitted? Do the two keys tell events apart? Is it the lifecycle's intake? | 0.25 million |

Seven more runs each exhibit a disagreement between a document and the code
(section 5).

Bounds, and why they suffice:

* `lifecycle_overlap`: two webhook calls and two replays of one event, two
  bodies with the same id, a cap of two. Two of a kind are what each race needs
  (insert against insert, load against commit, dead letter against finish); the
  cap of two makes exhaustion reachable by a call and one replay, and leaves
  room for a lost update below it. Passes raise by a refused commit here; nothing
  distinguishes the two bodies, so they are symmetric too.
* `lifecycle_exclusive`: two deliveries, three replays, two events: three
  replays take an event past the cap and replay it once more; the second event,
  whose contact is unsendable, runs beside it and may share its crashes. The first one's
  lead is overlong, so passes raise at every await that can.
* `processing_pass`: two requests per operation (the first and the last). The
  setups are every provider chain with trivial hand-offs and every hand-off
  behind a trivial chain; chain and hand-off meet only in `summary`, which every
  chain leaves with the same values.
* `recovery`: two senders with two bodies of one event, one operator, three
  faults: enough to lose a receipt, hit the delivery that follows and then its
  replay, or one replay twice, which with a cap of two also exhausts an event.
  The operator is `Exclusive` here, which is what the ledger needs; replays that
  overlap are in `lifecycle_overlap`, and the proofs about `Recovery` that do not
  name the ledger need no such operator.
* `intake`: two webhook calls with any of eight bodies of one lead (respaced,
  with another custom field, name or unnamed field, with supplied ids) beside one
  call that meets every gate: too large as declared or as streamed, malformed,
  invalid, each secret, no route, an operator's. The limit is two bytes: a body
  within it, at it and beyond it, in one message or several. Two stored events
  and a lookup are what it takes to match two rows, or to drop what is new.

Faults are unbounded in the two lifecycle runs: every request may fail or crash.
The number of calls bounds their state spaces, and such a system stops when all
calls are made; hence `CHECK_DEADLOCK FALSE`. A pass stops when it is finished.
In `recovery` nothing remains to do once every event is settled and the sender
is answered.

Fairness:

* `ProcessingPass`: weak fairness of the whole next step. The event loop runs
  what is ready, and a client's timeout answers for a silent service.
* `Recovery`: weak fairness of every request in flight (the event loop again),
  of each delivery and of a caller's repeating a call. Strong fairness of the
  operator's repair of each event: requests that work on the event come and go,
  and a repair is disabled while one does. That callers persist is not
  guaranteed by the code but assumed of the people around it. The liveness found
  is conditional on it: without a persistent operator an event left in
  `processing` stays there, since the sender is told it is a duplicate.

Each property of a passing run has a mutant in `PROJECT.json`: a plausible slip
in a mapped definition (kept next to it under "Mutant:") that breaks it.

## 4. What is proved

Every safety property of a passing run is proved for every value of the
constants, and so are the three refinements (`Intake` of `EventLifecycle`,
`EventLifecycle` of `EventLedger`, `ProcessingPass` of `HandOff`). The assumptions:
`ConstantsAssumption` (ids are a function of payloads; the cap is in 1..20, as
the settings enforce), `SetupsAssumption` (setups are well-formed; retries are in
1..10), `RecoveryAssumption` (each delivery has a payload), `WordsAssumption` and
`IntakeAssumption` (calls are well-formed, with at most one declared length and
one body; the limit is positive).

`EventLifecycle_proofs`, for any number of events, calls and bodies, overlapping
or not: `TypeOK`, `AcceptedOnce`, `AckImpliesStored`, `CompletedWasHandedOff`,
`DeadLetterRecorded`, `DeadLetterExhausted`, `AttemptsBounded` and
`DeadLetterKept`. The invariant, `Inv`, adds to these properties what makes them
inductive:

* `Placed`: whoever is past the insert works on an event that is in the table,
  only deliveries insert, and only replays roll back or bury; `Keyed`: a row is
  stored under the id of its payload;
* `Knows`: what a request knows from the steps behind it, although its copy of
  the row may be outdated. Its copy counts no more attempts than the cap or the
  passes begun; about to begin a pass it is below the cap, about to bury it is
  at the cap; past a notification or synchronization without a problem, that
  one is counted;
* `GoodRow`: `AttemptsBounded`, `DeadLetterRecorded` and the part of
  `CompletedWasHandedOff` about the table, row by row, since `Commit` changes
  one row column by column.

The argument: no step takes anything away (`GrownStep`: events, payloads,
records and counters stay or grow), so what a request knows stays true while
others run (`KnowsStep`); a flush leaves each column either as it was stored or
as the request computed it, and both are good (`GoodRowsStep`); a receipt is
justified at the step that gives it (`ReceiptsStep`) and stays so.

`LifecycleWork_proofs`, under the same freedom, two invariants beside `Inv`.
For `TroubleNamed`, `TroubleInv` adds what each request relies on when its flush
leaves `error_message` out: if its copy names a problem, so does the stored row
(`Remembers`). This stays true because no commit clears the column
(`CommitNames`), which is why a clean pass must leave an old message standing.
For `WorkBounded`, `WorkInv` counts what is owed besides what was done: a pass
that has not left a stage yet still owes its notification, synchronization and
rows, and a request about to begin still owes its pass (`Within`). A step moves
one request from one stage to another (`Transit`) and changes the numbers of
those who owe by one (`TransitCounts`), and whoever was served stays so, in a
crash too (`WorkCrash`).

`ExclusiveLifecycle_proofs`, for operators who do not replay what is being worked
on (`Exclusive`): `CapRespected`, `PassesCounted`, `DetailAgrees`,
`DeadLetterRetained` (which fails without the assumption, section 5), and that
the lifecycle implements `EventLedger`. That deliveries do not overlap is not
assumed but shown: a stored event turns every other delivery away, so requests
past the insert are alone with their event. `ExclusiveInv` adds to `Inv`: `Alone`,
one request at work per event; `Fit`, its copy is the stored row and, unless it
is about to bury, its event is not buried; `AllExact`, counts equal passes and
records equal statuses. Then a commit writes what the handler computed
(`CommitIsExact`), and each action is shown to be one of five deeds on one event
(accept, attempt, settle, fail, bury) or none (`OneActs`). That deeds keep the
invariant and that they are ledger steps is shown once for all actions.

`Recovery_proofs`, for any number of faults and repetitions: `WorkedOnce`,
`AckImpliesStored`, `CompletedWasHandedOff` and, for `Exclusive` operators, that the
events still implement `EventLedger`. Nobody in the program reads a receipt, so
the lifecycle's invariant `Inv` survives their loss and repetition (`ReceiptStep`),
and `ExclusiveInv` with it. An event not stored has not been worked on; only an
accepted insert makes a delivery start; and whoever is about to start is the
first (`Started`).

`ProcessingPass_proofs`: `TypeOK`, `RequestsBounded`, `EveryOperationAttempted`,
`SuccessIsTrue`, `RowsTellTheChain`, `FinalAnswersStand`, `PassShrinks`, and that a
pass implements `HandOff` (initial states map to initial states, every step to a step
or a stutter). The invariant relates, per operation, requests made to the answer
held and the work done; per hand-off operation, whether the pass is past it to
what was requested and reported; and the rows to the place in the chain. `PassShrinks` is
the safety half of termination: the remaining operations, weighed so that one of
them outweighs all requests of the next, count down with every step
(`LaterIsLess`, `WalksGoOn`); fairness adds that steps are taken (`PassEnds`).

`Intake_proofs`: `TypeOK`, `HandledIsAdmitted`, `RefusedForOwnSize`, `LookupUnique`,
`NamedNewsKept`, `StoredOncePerLead`. The lemmas say what cleaning, hashing
and the ids keep and forget: the same id means the same supplied id or the same
content of the named fields (`SameIdTells`), and the same content of them, with
custom fields spelled alike, means the same id (`TellingGivesId`); fields that the
schema does not name take no part in either. The invariant says that rows are kept under
the ids of their payloads (`Keyed`, from which two of the properties follow), what a
request has passed (`Passed`), and `NamedNewsKept` itself.

`IntakeRefinement_proofs`: `Intake` implements `EventLifecycle`. The steps at the
gates are stutters (`GatesAreUnseen`); lookup, insert and refusal are the
lifecycle's steps of the payload carried.

Only model-checked: the liveness properties `PassEnds`, `LeadStored` and
`EventuallySettled` (liveness under fairness is out of the prover's reach).

## 5. Where the documents and the code disagree

* `overlapped_cap`: `docs/architecture.md:39` says replays are capped. Two
  overlapping replays read the same count, both pass the check, and count one
  pass between them (`event_processor.py:56`); more passes follow than the cap.
  What does hold then is `AttemptsBounded` and `WorkBounded`, and `CapRespected`
  with `Exclusive` operators.
* `overlapped_dead_letter`: `README.md:201` says exhausted events are retained
  in dead-letter tracking. A pass in flight overwrites the status
  (`event_processor.py:87`); the record itself stays (`DeadLetterKept`), and with
  `Exclusive` operators the status too.
* `unsendable_contact`: `README.md:190` says each CRM operation is isolated. An
  `httpx.InvalidURL` is not a `HighLevelError` (`highlevel_sync.py:60`), leaves
  `sync`, and the webhook answers 500 after the team was notified.
* `overlong_lead`: `docs/architecture.md:51` says a deterministic summary is
  emitted when no provider succeeds. `LeadSummary` bounds the lengths of fields
  the lead does not bound (`fallback.py:17`), so the fallback can raise.
* `respaced_lead`: `docs/architecture.md:32` says that the service normalizes
  whitespace and derives an id. `custom_fields` are kept as sent
  (`lead_normalizer.py:26`) and are part of the derived id, so the same lead with
  another blank in its custom message is stored and processed twice.
* `unaddressable_event`: `README.md:201` says operators can inspect and replay an
  event. Any supplied id is stored, but the routes give it one path segment
  (`admin.py:15`), which a slash ends.
* `redirected_notification`: `README.md:175` says delivery failures return
  `partially_completed` with a warning. A redirect is not followed and is not an
  error for httpx (`notifier.py:90`): it counts as delivered.

## 6. What is not modelled, and why

* Fields that the schema does not name are modelled (`extra`) and are part of
  `PayloadHash`, but not of the derived id: a body without an id that differs from
  a stored one in nothing else is dismissed as a duplicate, and what it adds is not
  stored (`lead_normalizer.py:57`). `NamedNewsKept` therefore speaks of the named
  fields only. No document says that such a body makes an event, and nothing
  reads the fields of one that is stored, so this is no run of section 5.
* Texts: prompts, notes, notifications, logs. No property is about them.
* Token counts, latencies and costs: stored with a row and read by nothing.
* Waits between retries: they change when a request is made, not whether.
* Which pass an `error_message` belongs to: a clean pass does not clear it
  (`event_processor.py:86`), so a completed event may still name a problem. That
  an event in trouble names one is `TroubleNamed`.
* Privacy and logging: what is written to the log; no state depends on it.
* Health check, settings loading, migrations, packaging: no logic over shared
  state; a migration runs while the service is down. The schema the migrations
  create is what `events` and `dead_letters` model.

Out of reach of the prover, and therefore left to TLC or not stated: liveness
and ENABLED; induction over data; anything about RECURSIVE operators (no module
here declares one).

## 7. Plan

Done, in this order, because the database is where requests meet and where most
hazards are: the lifecycle with its ledger, recovery, the pass with its
hand-off, admission and identity, and the proofs of section 4.

Left:

1. `TroubleNamed` and a bound on the work in `Recovery`, where a call may be served
   several times.
2. Ids that PostgreSQL refuses by their length as a property of bodies in
   `LeadIdentity`, so that `Refuse` happens to exactly those.
3. `Intake` composed with the whole `EventLifecycle`, beyond the insert.
