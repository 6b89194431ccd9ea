---------------------------- MODULE EventLifecycle ----------------------------
(***************************************************************************)
(* The lifecycle of lead events in the database, as the two handlers that  *)
(* write it produce it: the webhook (receive_highlevel_webhook) and the    *)
(* operators' replay (EventReplayService.replay), both of which run        *)
(* EventProcessor.process.                                                 *)
(*                                                                         *)
(* A request runs in an AsyncSession of its own.  A session reads an event *)
(* once, keeps that copy across commits (expire_on_commit=False), and its  *)
(* flush updates only the columns whose value differs from the copy.       *)
(* Requests interleave at every await, so between the read and the write   *)
(* of a column another request may have written it.  The first UPDATE or   *)
(* INSERT of a transaction takes the write lock its commit releases, hence *)
(* one action per transaction.                                             *)
(*                                                                         *)
(* A payload stands for its canonical JSON, so equality of payloads is     *)
(* equality of payload_hash.  The outcome of a downstream call is chosen   *)
(* freely among those its code can return.                                 *)
(***************************************************************************)
EXTENDS Naturals, FiniteSets, Functions

CONSTANTS
  EventIds,     \* external event ids
  Payloads,     \* canonical webhook payloads
  IdOf,         \* the external id derive_event_id gives each payload
  Overlong,     \* payloads with a field that no LeadSummary can hold
  BadContact,   \* payloads whose contact id no URL of the enabled CRM can hold
  Deliveries,   \* webhook calls
  Replays,      \* replay calls
  MaxAttempts,  \* the setting max_event_replay_attempts
  Exclusive     \* nobody replays an event that a request is working on

ASSUME ConstantsAssumption ==
  /\ IdOf \in [Payloads -> EventIds]
  /\ Overlong \subseteq Payloads
  /\ BadContact \subseteq Payloads
  /\ Deliveries \cap Replays = {}
  /\ MaxAttempts \in 1 .. 20
  /\ Exclusive \in BOOLEAN

VARIABLES
  events,        \* table events: external id -> row
  dead_letters,  \* table dead_letters: external id -> record
  inferences,    \* per event, the passes whose inference rows are committed
  session,       \* requests in flight -> what the handler holds
  reply,         \* requests that ended -> the receipt
  passes,        \* per event, the processing passes begun
  notified,      \* per event, the notifications that send reported as delivered
  synced         \* per event, the synchronizations that sync reported as completed

tables  == <<events, dead_letters, inferences>>
tallies == <<passes, notified, synced>>
vars    == <<tables, session, reply, tallies>>

Requests == Deliveries \cup Replays

Status == {"received", "processing", "completed", "partially_completed",
           "failed", "dead_lettered"}

\* An error_message, as the set of the problems its text names.
Problem == {"notification", "sync", "processing_failed",
            "replays_exhausted", "partial_at_limit"}

Row == [payload : Payloads, status : Status, attempt_count : Nat,
        error_message : SUBSET Problem]

DeadLetterRecord == [reason : SUBSET Problem, replay_attempts : Nat]

\* The await a handler is suspended at.
Stage == {"insert", "begin", "summarize", "notify", "sync", "finish",
          "rollback", "mark_failed", "dead_letter"}

\* "row" is the session's copy of the event; "problems" collects what went
\* wrong in this pass, or is the reason of the dead letter to be written.
Session == [at : Stage, row : Row, problems : SUBSET Problem]

\* "error" is an HTTP 500 and "lost" a connection cut by a crash.
Receipt == [status : Status \cup {"duplicate", "not_found", "error", "lost"},
            event : EventIds]

TablesOK ==
  /\ DOMAIN events \subseteq EventIds
  /\ events \in [DOMAIN events -> Row]
  /\ DOMAIN dead_letters \subseteq EventIds
  /\ dead_letters \in [DOMAIN dead_letters -> DeadLetterRecord]

RequestsOK ==
  /\ DOMAIN session \subseteq Requests
  /\ session \in [DOMAIN session -> Session]
  /\ DOMAIN reply \subseteq Requests \ DOMAIN session
  /\ reply \in [DOMAIN reply -> Receipt]

CountersOK ==
  /\ inferences \in [EventIds -> Nat]
  /\ passes \in [EventIds -> Nat]
  /\ notified \in [EventIds -> Nat]
  /\ synced \in [EventIds -> Nat]

TypeOK == TablesOK /\ RequestsOK /\ CountersOK

(***************************************************************************)
(* Sessions and transactions.                                              *)
(***************************************************************************)

\* f with x mapped to v, whether or not x was in its domain.
Put(f, x, v) == [y \in DOMAIN f \cup {x} |-> IF y = x THEN v ELSE f[y]]

Bump(f, e) == [f EXCEPT ![e] = @ + 1]

EventOf(q) == IdOf[session[q].row.payload]

At(q, stage) == q \in DOMAIN session /\ session[q].at = stage

\* A request past intake: a delivery that stored its event, or a replay.
Works(q) == q \in DOMAIN session /\ session[q].at # "insert"

\* A delivery comes at any time; a replay too, unless the operators wait for the
\* requests at work on the event.
Arrives(q, e) ==
  /\ q \notin DOMAIN session \cup DOMAIN reply
  /\ Exclusive /\ q \in Replays =>
       \A r \in DOMAIN session : Works(r) => EventOf(r) # e

Open(q, stage, row, problems) ==
  /\ session' = Put(session, q, [at |-> stage, row |-> row, problems |-> problems])
  /\ UNCHANGED reply

Goto(q, stage, row, problems) ==
  /\ session' = [session EXCEPT ![q] =
                   [at |-> stage, row |-> row, problems |-> problems]]
  /\ UNCHANGED reply

\* Mutant: the session outlives the receipt.
AnswerUnclosed(q, e, status) ==
  /\ reply' = Put(reply, q, [status |-> status, event |-> e])
  /\ UNCHANGED session

\* The receipt goes out and the request's session is closed.
Answer(q, e, status) ==
  /\ session' = Restrict(session, DOMAIN session \ {q})
  /\ reply' = Put(reply, q, [status |-> status, event |-> e])

\* An exception leaves process: the webhook has no handler for it (HTTP 500),
\* the replay service rolls back.
Raise(q) ==
  \/ q \in Deliveries /\ Answer(q, EventOf(q), "error")
  \/ q \in Replays /\ Goto(q, "rollback", session[q].row, {})

\* The column a flush leaves: written only if it differs from the copy.
Column(copy, new, stored) == IF new = copy THEN stored ELSE new

\* One committed UPDATE of q's event, to the row new.
Commit(q, new) ==
  LET copy == session[q].row
  IN  events' = [events EXCEPT ![EventOf(q)] =
        [payload |-> @.payload,
         status |-> Column(copy.status, new.status, @.status),
         attempt_count |->
           Column(copy.attempt_count, new.attempt_count, @.attempt_count),
         error_message |->
           Column(copy.error_message, new.error_message, @.error_message)]]

(***************************************************************************)
(* Webhook intake.                                                         *)
(***************************************************************************)

NewRow(p) == [payload |-> p, status |-> "received", attempt_count |-> 0,
              error_message |-> {}]

\* find_duplicate_event: some event has the id or the hash of p.
Duplicate(p) == \E e \in DOMAIN events : e = IdOf[p] \/ events[e].payload = p

\* Mutant: a schema without the unique columns.
NeverViolated(p) == FALSE

\* The unique columns external_event_id and payload_hash reject the row.
UniqueViolation(p) ==
  \E e \in DOMAIN events : e = IdOf[p] \/ events[e].payload = p

LookUp(d, p) ==
  /\ Arrives(d, IdOf[p])
  /\ \/ Duplicate(p) /\ Answer(d, IdOf[p], "duplicate")
     \/ ~Duplicate(p) /\ Open(d, "insert", NewRow(p), {})
  /\ UNCHANGED <<tables, tallies>>

\* create_event and its commit; an IntegrityError is answered as a duplicate.
Insert(d) ==
  /\ At(d, "insert")
  /\ LET row == session[d].row
     IN  \/ /\ ~UniqueViolation(row.payload)
            /\ events' = Put(events, EventOf(d), row)
            /\ Goto(d, "begin", row, {})
         \/ /\ UniqueViolation(row.payload)
            /\ Answer(d, EventOf(d), "duplicate")
            /\ UNCHANGED events
  /\ UNCHANGED <<dead_letters, inferences, tallies>>

(***************************************************************************)
(* EventProcessor.process, on behalf of a delivery or a replay.            *)
(***************************************************************************)

\* Mutant: the attempt is not counted.
BegunUncounted(row) == [row EXCEPT !.status = "processing"]

Begun(row) == [row EXCEPT !.status = "processing", !.attempt_count = @ + 1]

Begin(q) ==
  /\ At(q, "begin")
  /\ LET new == Begun(session[q].row)
     IN  /\ Commit(q, new)
         /\ Goto(q, "summarize", new, {})
  /\ passes' = Bump(passes, EventOf(q))
  /\ UNCHANGED <<dead_letters, inferences, notified, synced>>

\* A provider's summary or the deterministic fallback; of an overlong lead the
\* fallback cannot build a LeadSummary either, and raises.
Summarize(q) ==
  /\ At(q, "summarize")
  /\ \/ Goto(q, "notify", session[q].row, {})
     \/ session[q].row.payload \in Overlong /\ Raise(q)
  /\ UNCHANGED <<tables, tallies>>

\* send never raises.
Notify(q) ==
  /\ At(q, "notify")
  /\ \/ /\ Goto(q, "sync", session[q].row, {})
        /\ notified' = Bump(notified, EventOf(q))
     \/ /\ Goto(q, "sync", session[q].row, {"notification"})
        /\ UNCHANGED notified
  /\ UNCHANGED <<tables, passes, synced>>

\* sync catches HighLevelError only: a URL that httpx rejects raises out of it.
Sync(q) ==
  /\ At(q, "sync")
  /\ LET s == session[q]
     IN  \/ /\ s.row.payload \notin BadContact
            /\ Goto(q, "finish", s.row, s.problems)
            /\ synced' = Bump(synced, EventOf(q))
         \/ /\ s.row.payload \notin BadContact
            /\ Goto(q, "finish", s.row, s.problems \cup {"sync"})
            /\ UNCHANGED synced
         \/ /\ s.row.payload \in BadContact
            /\ Raise(q)
            /\ UNCHANGED synced
  /\ UNCHANGED <<tables, passes, notified>>

\* Mutant: the CRM's outcome is left out of the status.
FinishedWhenNotified(row, problems) ==
  [row EXCEPT !.status = IF "notification" \in problems
                           THEN "partially_completed" ELSE "completed"]

\* Mutant: a clean pass clears an earlier error_message.
FinishedClearing(row, problems) ==
  [row EXCEPT !.status = IF problems = {} THEN "completed" ELSE "partially_completed",
              !.error_message = problems]

\* The row after the pass; a clean pass leaves an earlier error_message.
Finished(row, problems) ==
  IF problems = {}
    THEN [row EXCEPT !.status = "completed"]
    ELSE [row EXCEPT !.status = "partially_completed", !.error_message = problems]

\* Mutants: the comparison with the limit off by one, either way.
SpentLate(row)  == row.attempt_count > MaxAttempts
SpentEarly(row) == row.attempt_count + 1 >= MaxAttempts

\* The attempts of this copy of the event are used up.
Spent(row) == row.attempt_count >= MaxAttempts

Finish(q) ==
  /\ At(q, "finish")
  /\ LET new == Finished(session[q].row, session[q].problems)
     IN  /\ Commit(q, new)
         /\ inferences' = Bump(inferences, EventOf(q))
         /\ IF q \in Replays /\ new.status = "partially_completed" /\ Spent(new)
              THEN Goto(q, "dead_letter", new, {"partial_at_limit"})
              ELSE Answer(q, EventOf(q), new.status)
  /\ UNCHANGED <<dead_letters, tallies>>

(***************************************************************************)
(* EventReplayService.replay around a pass.                                *)
(***************************************************************************)

\* Mutant: an event that stands as processing is taken to be in progress.
LoadUnlessProcessing(r, e) ==
  /\ Arrives(r, e)
  /\ e \in DOMAIN events /\ events[e].status # "processing"
  /\ \/ ~Spent(events[e]) /\ Open(r, "begin", events[e], {})
     \/ Spent(events[e]) /\ Open(r, "dead_letter", events[e], {"replays_exhausted"})
  /\ UNCHANGED <<tables, tallies>>

Load(r, e) ==
  /\ Arrives(r, e)
  /\ \/ e \notin DOMAIN events /\ Answer(r, e, "not_found")
     \/ /\ e \in DOMAIN events
        /\ ~Spent(events[e])
        /\ Open(r, "begin", events[e], {})
     \/ /\ e \in DOMAIN events
        /\ Spent(events[e])
        /\ Open(r, "dead_letter", events[e], {"replays_exhausted"})
  /\ UNCHANGED <<tables, tallies>>

\* Mutant: a replay whose pass raised tries another pass at once.
RolledBackToBegin(r) ==
  /\ At(r, "rollback")
  /\ IF Spent(events[EventOf(r)])
       THEN Goto(r, "mark_failed", events[EventOf(r)], {})
       ELSE Goto(r, "begin", events[EventOf(r)], {})
  /\ UNCHANGED <<tables, tallies>>

\* rollback expires the copy, so _get_event reads the stored row afresh.
Rollback(r) ==
  /\ At(r, "rollback")
  /\ Goto(r, "mark_failed", events[EventOf(r)], {})
  /\ UNCHANGED <<tables, tallies>>

MarkFailed(r) ==
  /\ At(r, "mark_failed")
  /\ LET new == [session[r].row EXCEPT !.status = "failed",
                                       !.error_message = {"processing_failed"}]
     IN  /\ Commit(r, new)
         /\ IF Spent(new)
              THEN Goto(r, "dead_letter", new, {"processing_failed"})
              ELSE Answer(r, EventOf(r), "failed")
  /\ UNCHANGED <<dead_letters, inferences, tallies>>

\* Mutants: the record is never added; an existing record is written over.
NotBuried(e, record)   == dead_letters
BuriedAgain(e, record) == Put(dead_letters, e, record)

\* create_dead_letter keeps the record an event already has.
Buried(e, record) ==
  IF e \in DOMAIN dead_letters THEN dead_letters ELSE Put(dead_letters, e, record)

\* _dead_letter: the event and its record, in one commit.  The SELECT for a record
\* flushes the UPDATE of the event first, so the lock is held when it looks.
DeadLetter(r) ==
  /\ At(r, "dead_letter")
  /\ LET e == EventOf(r)
         reason == session[r].problems
         new == [session[r].row EXCEPT !.status = "dead_lettered",
                                       !.error_message = reason]
     IN  /\ Commit(r, new)
         /\ dead_letters' =
              Buried(e, [reason |-> reason, replay_attempts |-> new.attempt_count])
         /\ Answer(r, e, "dead_lettered")
  /\ UNCHANGED <<inferences, tallies>>

(***************************************************************************)
(* Faults: a statement or commit that the database refuses, and the end of *)
(* a server process with every request in it.                              *)
(***************************************************************************)

\* Mutant: the webhook takes any database error for a duplicate.
AnyErrorDuplicate(q) ==
  /\ \/ (At(q, "begin") \/ At(q, "finish")) /\ Raise(q)
     \/ /\ \E s \in {"insert", "rollback", "mark_failed", "dead_letter"} : At(q, s)
        /\ Answer(q, EventOf(q), IF At(q, "insert") THEN "duplicate" ELSE "error")
  /\ UNCHANGED <<tables, tallies>>

DatabaseError(q) ==
  /\ \/ (At(q, "begin") \/ At(q, "finish")) /\ Raise(q)
     \/ /\ \E s \in {"insert", "rollback", "mark_failed", "dead_letter"} : At(q, s)
        /\ Answer(q, EventOf(q), "error")
  /\ UNCHANGED <<tables, tallies>>

\* One server process ends, with the requests it held.
Crash ==
  /\ \E held \in SUBSET DOMAIN session \ {{}} :
       /\ session' = Restrict(session, DOMAIN session \ held)
       /\ reply' = [q \in held \cup DOMAIN reply |->
                      IF q \in held THEN [status |-> "lost", event |-> EventOf(q)]
                                    ELSE reply[q]]
  /\ UNCHANGED <<tables, tallies>>

(***************************************************************************)
(* Specification.                                                          *)
(***************************************************************************)

Init ==
  /\ events = [e \in {} |-> NewRow(e)]
  /\ dead_letters = [e \in {} |-> {}]
  /\ session = [q \in {} |-> {}]
  /\ reply = [q \in {} |-> {}]
  /\ inferences = [e \in EventIds |-> 0]
  /\ passes = [e \in EventIds |-> 0]
  /\ notified = [e \in EventIds |-> 0]
  /\ synced = [e \in EventIds |-> 0]

Arrival ==
  \/ \E d \in Deliveries, p \in Payloads : LookUp(d, p)
  \/ \E r \in Replays, e \in EventIds : Load(r, e)

\* The next step of a request in flight.
Advance(q) ==
  \/ Insert(q) \/ Begin(q) \/ Summarize(q) \/ Notify(q) \/ Sync(q) \/ Finish(q)
  \/ Rollback(q) \/ MarkFailed(q) \/ DeadLetter(q)

Fault == Crash \/ \E q \in Requests : DatabaseError(q)

Next == Arrival \/ (\E q \in Requests : Advance(q)) \/ Fault

Spec == Init /\ [][Next]_vars

(***************************************************************************)
(* Properties that hold however requests overlap and fail.                 *)
(***************************************************************************)

\* The deliveries that own the processing of e: past intake, or answered with
\* the outcome of a pass.
Owners(e) ==
  {d \in Deliveries :
     \/ Works(d) /\ EventOf(d) = e
     \/ /\ d \in DOMAIN reply
        /\ reply[d].event = e
        /\ reply[d].status \in {"completed", "partially_completed"}}

\* Of all webhook calls that carry an event, however their lookups and inserts
\* interleave, at most one processes it (receive_highlevel_webhook).
AcceptedOnce == \A e \in EventIds : \A c, d \in Owners(e) : c = d

\* A receipt that tells the sender not to deliver again (duplicate or an
\* outcome) is given only for an event that is in the table.
AckImpliesStored ==
  \A q \in DOMAIN reply :
    reply[q].status \notin {"not_found", "error", "lost"}
      => reply[q].event \in DOMAIN events

\* An event stands as completed, in the table or in a receipt, only if a notification
\* of it was reported as delivered, a synchronization as completed, and the inference
\* rows of some pass are stored (EventProcessor.process).
Completed(e) ==
  \/ e \in DOMAIN events /\ events[e].status = "completed"
  \/ \E q \in DOMAIN reply : reply[q] = [status |-> "completed", event |-> e]

CompletedWasHandedOff ==
  \A e \in EventIds :
    Completed(e) => notified[e] > 0 /\ synced[e] > 0 /\ inferences[e] > 0

\* The event row never says dead_lettered without the record the operators
\* look for (_dead_letter writes both in one transaction).
DeadLetterRecorded ==
  \A e \in DOMAIN events :
    events[e].status = "dead_lettered" => e \in DOMAIN dead_letters

\* Only an event that used every attempt it is allowed has a dead-letter record,
\* although replay decides by a copy that other requests may have outdated.
DeadLetterExhausted ==
  \A e \in DOMAIN dead_letters :
    dead_letters[e].replay_attempts = MaxAttempts /\ passes[e] >= MaxAttempts

\* The stored attempt_count never passes the limit and never counts a pass that
\* was not begun, whatever updates of it overlapping replays lose.
AttemptsBounded ==
  \A e \in DOMAIN events :
    /\ events[e].attempt_count <= MaxAttempts
    /\ events[e].attempt_count <= passes[e]

\* An event that stands as partially completed, failed or dead-lettered names a
\* problem, although a flush leaves out an error_message equal to the session's
\* copy of it and other requests write theirs in between (process, replay).
TroubleNamed ==
  \A e \in DOMAIN events :
    events[e].status \in {"partially_completed", "failed", "dead_lettered"}
      => events[e].error_message # {}

\* The webhook and replay calls about e that were not turned away.
Served(e) ==
  {q \in Requests :
     \/ Works(q) /\ EventOf(q) = e
     \/ /\ q \in DOMAIN reply
        /\ reply[q].event = e
        /\ reply[q].status \notin {"duplicate", "not_found"}}

\* Notifications and synchronizations are not reported done, nor rows stored, more often
\* than passes were begun, and no more passes are begun than calls were served: no
\* exception, rollback or overlap repeats the work of a call by itself (process, replay).
WorkBounded ==
  \A e \in EventIds :
    /\ {notified[e], synced[e], inferences[e]} \subseteq 0 .. passes[e]
    /\ passes[e] <= Cardinality(Served(e))

\* The reason and count an event was first dead-lettered with are kept: no later
\* replay rewrites or removes the record (create_dead_letter).
DeadLetterKept ==
  [][\A e \in DOMAIN dead_letters :
       e \in DOMAIN dead_letters' /\ dead_letters'[e] = dead_letters[e]]_vars

(***************************************************************************)
(* Properties of operators who do not replay what is being worked on.      *)
(***************************************************************************)

\* MAX_EVENT_REPLAY_ATTEMPTS caps the passes an event is given.
CapRespected == \A e \in EventIds : passes[e] <= MaxAttempts

\* The attempt_count operators see is the number of passes the event was given.
PassesCounted == \A e \in DOMAIN events : events[e].attempt_count = passes[e]

\* What the detail view says (dead_lettered iff the status is) agrees with the
\* dead-letter table.
DetailAgrees ==
  \A e \in DOMAIN events :
    e \in DOMAIN dead_letters <=> events[e].status = "dead_lettered"

\* Every step about an event is a step of the ledger, or none: accepted once,
\* attempts numbered and capped, settled only from processing, buried only at
\* the cap and then for good.
Ledger == INSTANCE EventLedger WITH
  status   <- [e \in EventIds |->
                 IF e \in DOMAIN events THEN events[e].status ELSE "absent"],
  attempts <- passes

ImplementsLedger == Ledger!Spec

(***************************************************************************)
(* What the documentation says and the code does not do (see README).      *)
(***************************************************************************)

\* Once the requests about it have ended, none of them in a fault, an event with
\* a dead-letter record is shown as dead-lettered.
DeadLetterRetained ==
  \A e \in DOMAIN dead_letters :
    /\ \A q \in DOMAIN session : EventOf(q) # e
    /\ \A q \in DOMAIN reply : reply[q].status \notin {"error", "lost"}
    => events[e].status = "dead_lettered"

\* An exception ends q's pass at the stage.
RaisesAt(q, stage) ==
  /\ At(q, stage)
  /\ \/ q \in DOMAIN reply' /\ reply'[q].status = "error"
     \/ q \in DOMAIN session' /\ session'[q].at = "rollback"

\* Whatever contact the event names, a pass that reaches the CRM goes on to
\* store its outcome (HighLevelSync.sync never raises).
SyncIsIsolated == [][\A q \in Requests : ~RaisesAt(q, "sync")]_vars

\* Whatever the lead and the providers, a pass gets a summary to hand off
\* (LeadSummarizer.summarize never raises).
SummaryAlwaysEmitted == [][\A q \in Requests : ~RaisesAt(q, "summarize")]_vars
=============================================================================
