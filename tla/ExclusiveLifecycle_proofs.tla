---------------------- MODULE ExclusiveLifecycle_proofs ----------------------
(***************************************************************************)
(* What EventLifecycle promises to operators who do not replay an event    *)
(* that is being worked on, however its deliveries overlap: exact counts,  *)
(* a capped number of passes, a dead-letter table that agrees with the     *)
(* rows, and the ledger of EventLedger.                                    *)
(*                                                                         *)
(* Only one request then works on an event at a time: an event that is     *)
(* stored turns every other delivery away.  Its copy is the stored row, so *)
(* a commit writes what the handler computed, and every step is one of     *)
(* five deeds on one event, or leaves the tables alone.                    *)
(***************************************************************************)
EXTENDS EventLifecycle_proofs

(***************************************************************************)
(* The inductive invariant, beside Inv.                                    *)
(***************************************************************************)

InPass == {"summarize", "notify", "sync", "finish"}

Alone == \A q, r \in DOMAIN session :
  Works(q) /\ Works(r) /\ EventOf(q) = EventOf(r) => q = r

\* A copy of the row is the row; only a request that buries works on an event
\* that may be buried.
Fits(q) ==
  LET s == session[q]
      e == EventOf(q)
  IN  /\ s.at # "insert" => s.row = events[e]
      /\ s.at \notin {"insert", "dead_letter"} => e \notin DOMAIN dead_letters
      /\ s.at \in InPass => s.row.status = "processing"

Fit == \A q \in DOMAIN session : Fits(q)

Exact(e) ==
  /\ e \in DOMAIN events =>
       /\ events[e].attempt_count = passes[e]
       /\ e \in DOMAIN dead_letters <=> events[e].status = "dead_lettered"
  /\ e \notin DOMAIN events => passes[e] = 0 /\ e \notin DOMAIN dead_letters

AllExact == \A e \in EventIds : Exact(e)

ExclusiveInv == Inv /\ Alone /\ Fit /\ AllExact

(***************************************************************************)
(* What a step may do to an event.                                         *)
(***************************************************************************)

Accepts(e) ==
  /\ e \notin DOMAIN events
  /\ \E p \in Payloads : events' = Put(events, e, NewRow(p))
  /\ UNCHANGED <<passes, dead_letters>>

Attempts(e) ==
  /\ e \in DOMAIN events /\ e \notin DOMAIN dead_letters
  /\ events[e].attempt_count < MaxAttempts
  /\ events' = [events EXCEPT ![e] = Begun(events[e])]
  /\ passes' = Bump(passes, e)
  /\ UNCHANGED dead_letters

Settles(e) ==
  /\ e \in DOMAIN events /\ e \notin DOMAIN dead_letters
  /\ events[e].status = "processing"
  /\ \E problems \in SUBSET Problem :
       events' = [events EXCEPT ![e] = Finished(events[e], problems)]
  /\ UNCHANGED <<passes, dead_letters>>

FailedRow(row) ==
  [row EXCEPT !.status = "failed", !.error_message = {"processing_failed"}]

Fails(e) ==
  /\ e \in DOMAIN events /\ e \notin DOMAIN dead_letters
  /\ events' = [events EXCEPT ![e] = FailedRow(events[e])]
  /\ UNCHANGED <<passes, dead_letters>>

BuriedRow(row, reason) ==
  [row EXCEPT !.status = "dead_lettered", !.error_message = reason]

Buries(e) ==
  /\ e \in DOMAIN events
  /\ events[e].attempt_count = MaxAttempts
  /\ \E reason \in SUBSET Problem :
       events' = [events EXCEPT ![e] = BuriedRow(events[e], reason)]
  /\ DOMAIN dead_letters' = DOMAIN dead_letters \cup {e}
  /\ UNCHANGED passes

Deed(e) == Accepts(e) \/ Attempts(e) \/ Settles(e) \/ Fails(e) \/ Buries(e)

Idle == UNCHANGED <<events, passes, dead_letters>>

\* A deed leaves the other events alone.
LEMMA DeedIsLocal ==
  ASSUME TypeOK, NEW e \in EventIds, Deed(e), NEW c \in EventIds, c # e
  PROVE  /\ c \in DOMAIN events' <=> c \in DOMAIN events
         /\ c \in DOMAIN events => events'[c] = events[c]
         /\ c \in DOMAIN dead_letters' <=> c \in DOMAIN dead_letters
         /\ passes'[c] = passes[c]
<1>1. CASE Accepts(e)
  BY <1>1 DEF Accepts, Put
<1>2. CASE Attempts(e)
  BY <1>2 DEF Attempts, Bump, TypeOK, CountersOK
<1>3. CASE Settles(e)
  BY <1>3 DEF Settles
<1>4. CASE Fails(e)
  BY <1>4 DEF Fails
<1>5. CASE Buries(e)
  BY <1>5 DEF Buries
<1> QED
  BY <1>1, <1>2, <1>3, <1>4, <1>5 DEF Deed

\* A deed keeps the numbers of its event exact.
LEMMA DeedIsExact ==
  ASSUME TypeOK, NEW e \in EventIds, Exact(e), Deed(e)
  PROVE  Exact(e)'
<1>0. e \in DOMAIN events => events[e] \in Row
  BY DEF TypeOK, TablesOK
<1>1. CASE Accepts(e)
  BY <1>1 DEF Accepts, Put, NewRow, Exact
<1>2. CASE Attempts(e)
  <2>1. /\ e \in DOMAIN events' /\ events'[e] = Begun(events[e])
        /\ passes'[e] = passes[e] + 1 /\ dead_letters' = dead_letters
    BY <1>2, BumpType DEF Attempts, TypeOK, CountersOK
  <2>2. /\ events'[e].attempt_count = events[e].attempt_count + 1
        /\ events'[e].status = "processing"
    BY <1>0, <1>2, <2>1 DEF Attempts, Begun, Row
  <2> QED
    BY <1>2, <2>1, <2>2 DEF Attempts, Exact
<1>3. CASE Settles(e)
  <2>1. PICK problems \in SUBSET Problem :
          events' = [events EXCEPT ![e] = Finished(events[e], problems)]
    BY <1>3 DEF Settles
  <2>2. /\ e \in DOMAIN events' /\ events'[e].attempt_count = events[e].attempt_count
        /\ events'[e].status # "dead_lettered"
    BY <1>0, <1>3, <2>1 DEF Settles, Finished, Row
  <2> QED
    BY <1>3, <2>2 DEF Settles, Exact
<1>4. CASE Fails(e)
  <2>1. /\ e \in DOMAIN events' /\ events'[e].attempt_count = events[e].attempt_count
        /\ events'[e].status = "failed"
    BY <1>0, <1>4 DEF Fails, FailedRow, Row
  <2> QED
    BY <1>4, <2>1 DEF Fails, Exact
<1>5. CASE Buries(e)
  <2>1. /\ e \in DOMAIN events' /\ events'[e].attempt_count = events[e].attempt_count
        /\ events'[e].status = "dead_lettered"
    BY <1>0, <1>5 DEF Buries, BuriedRow, Row
  <2> QED
    BY <1>5, <2>1 DEF Buries, Exact
<1> QED
  BY <1>1, <1>2, <1>3, <1>4, <1>5 DEF Deed

\* Whatever is done to one event keeps all numbers exact.
LEMMA AllStayExact ==
  ASSUME TypeOK, AllExact, NEW e \in EventIds, Deed(e) \/ Idle
  PROVE  AllExact'
<1>1. CASE Deed(e)
  <2>1. ASSUME NEW c \in EventIds, c # e
        PROVE  Exact(c)'
    BY <1>1, <2>1, DeedIsLocal DEF AllExact, Exact
  <2> QED
    BY <1>1, <2>1, DeedIsExact DEF AllExact
<1>2. CASE Idle
  BY <1>2 DEF Idle, AllExact, Exact
<1> QED
  BY <1>1, <1>2

(***************************************************************************)
(* What a step may do to the requests: one request acts, on one event, and *)
(* no other request works on that event, unless this one only passes by.   *)
(***************************************************************************)

Sole(q, e) == \A r \in DOMAIN session : r # q /\ Works(r) => EventOf(r) # e

Does(q, e) ==
  /\ Deed(e) \/ Idle
  /\ \A r \in DOMAIN session' :
       r # q => r \in DOMAIN session /\ session'[r] = session[r]
  /\ Sole(q, e) \/ (Idle /\ ~Works(q)')
  /\ q \in DOMAIN session' => EventOf(q)' = e /\ Fits(q)'

\* The requests that do not act stay alone with their events and fit.
LEMMA OthersStay ==
  ASSUME Shape, Alone, Fit, NEW q, NEW e \in EventIds, Does(q, e)
  PROVE  Alone' /\ Fit'
<1>1. ASSUME NEW r \in DOMAIN session', r # q
      PROVE  /\ r \in DOMAIN session /\ session'[r] = session[r]
             /\ EventOf(r)' = EventOf(r) /\ (Works(r)' <=> Works(r))
             /\ EventOf(r) \in EventIds
             /\ Works(r) => EventOf(r) \in DOMAIN events
             /\ Fits(r)
  <2>1. r \in DOMAIN session /\ session'[r] = session[r]
    BY <1>1 DEF Does
  <2> QED
    BY <1>1, <2>1, EventOfType
       DEF EventOf, Works, Shape, TypeOK, Placed, PlacedAt, Fit
<1>2. ASSUME NEW r \in DOMAIN session', r # q
      PROVE  Fits(r)'
  <2>1. CASE ~Works(r)
    BY <1>1, <1>2, <2>1 DEF Works, Fits, InPass
  <2>2. CASE Idle
    BY <1>1, <1>2, <2>2 DEF Fits, Idle
  <2>3. CASE Works(r) /\ ~Idle
    <3>1. Deed(e) /\ EventOf(r) # e
      BY <1>1, <1>2, <2>3 DEF Does, Sole
    <3> QED
      BY <1>1, <1>2, <2>3, <3>1, DeedIsLocal DEF Fits, Shape
  <2> QED
    BY <2>1, <2>2, <2>3
<1>3. Fit'
  BY <1>2 DEF Fit, Does
<1>4. ASSUME NEW r \in DOMAIN session', r # q, Works(r)', Works(q)'
      PROVE  EventOf(r)' # EventOf(q)'
  <2>1. q \in DOMAIN session'
    BY <1>4 DEF Works
  <2> QED
    BY <1>1, <1>4, <2>1 DEF Does, Sole
<1>5. ASSUME NEW r \in DOMAIN session', NEW t \in DOMAIN session', r # q, t # q,
             Works(r)', Works(t)', EventOf(r)' = EventOf(t)'
      PROVE  r = t
  BY <1>1, <1>5 DEF Alone
<1>6. Alone'
  BY <1>4, <1>5 DEF Alone
<1> QED
  BY <1>3, <1>6

\* A request that ends acts on the event it is about.
LEMMA AnswerDoes ==
  ASSUME RequestsOK, NEW q \in DOMAIN session, NEW f, NEW status,
         Answer(q, f, status),
         Idle \/ (Deed(EventOf(q)) /\ Sole(q, EventOf(q)))
  PROVE  Does(q, EventOf(q))
<1>1. q \notin DOMAIN reply
  BY DEF RequestsOK
<1>2. /\ DOMAIN session' = DOMAIN session \ {q}
      /\ \A r \in DOMAIN session' : session'[r] = session[r]
  BY <1>1, AnswerFacts
<1> QED
  BY <1>2 DEF Does, Works

\* A request that goes on acts on its event, and fits if its copy is the row.
LEMMA GotoDoes ==
  ASSUME RequestsOK, NEW q \in DOMAIN session, Sole(q, EventOf(q)),
         NEW stage, NEW row, NEW problems, Goto(q, stage, row, problems),
         stage # "insert",
         IdOf[row.payload] = EventOf(q),
         Deed(EventOf(q)) \/ Idle,
         row = events'[EventOf(q)],
         stage # "dead_letter" => EventOf(q) \notin DOMAIN dead_letters',
         stage \in InPass => row.status = "processing"
  PROVE  Does(q, EventOf(q))
<1>1. /\ DOMAIN session' = DOMAIN session
      /\ session'[q] = [at |-> stage, row |-> row, problems |-> problems]
      /\ \A r \in DOMAIN session : r # q => session'[r] = session[r]
  BY GotoFacts
<1>2. EventOf(q)' = EventOf(q)
  BY <1>1 DEF EventOf
<1>3. Fits(q)'
  BY <1>1, <1>2 DEF Fits
<1> QED
  BY <1>1, <1>2, <1>3 DEF Does

\* A delivery that arrives does not work on its event yet; a replay that arrives
\* works on it alone, since the operators see to it.
LEMMA OpenDoes ==
  ASSUME RequestsOK, NEW q, NEW e, Arrives(q, e), Idle,
         NEW stage, NEW row, NEW problems, Open(q, stage, row, problems),
         stage = "insert" \/ (Exclusive /\ q \in Replays),
         IdOf[row.payload] = e,
         stage # "insert" => row = events[e],
         stage \notin {"insert", "dead_letter"} => e \notin DOMAIN dead_letters,
         stage \notin InPass
  PROVE  Does(q, e)
<1>1. /\ DOMAIN session' = DOMAIN session \cup {q}
      /\ session'[q] = [at |-> stage, row |-> row, problems |-> problems]
      /\ \A r \in DOMAIN session : session'[r] = session[r]
  <2>1. q \notin DOMAIN session
    BY DEF Arrives
  <2> QED
    BY <2>1, OpenFacts
<1>2. EventOf(q)' = e
  BY <1>1 DEF EventOf
<1>3. Fits(q)'
  BY <1>1, <1>2 DEF Fits, Idle
<1>4. Sole(q, e) \/ ~Works(q)'
  BY <1>1 DEF Arrives, Sole, Works
<1> QED
  BY <1>1, <1>2, <1>3, <1>4 DEF Does

\* A commit of a copy that is the row writes the new row.
LEMMA CommitIsExact ==
  ASSUME TablesOK, NEW q \in DOMAIN session, EventOf(q) \in DOMAIN events,
         session[q].row = events[EventOf(q)],
         NEW new \in Row, new.payload = session[q].row.payload, Commit(q, new)
  PROVE  events' = [events EXCEPT ![EventOf(q)] = new]
<1> DEFINE e == EventOf(q)
            copy == session[q].row
<1>1. new = [payload |-> new.payload, status |-> new.status,
             attempt_count |-> new.attempt_count, error_message |-> new.error_message]
  BY DEF Row
<1>2. \A x, y : Column(x, y, x) = y
  BY DEF Column
<1>3. events' = [events EXCEPT ![e] =
        [payload |-> events[e].payload,
         status |-> Column(copy.status, new.status, events[e].status),
         attempt_count |->
           Column(copy.attempt_count, new.attempt_count, events[e].attempt_count),
         error_message |->
           Column(copy.error_message, new.error_message, events[e].error_message)]]
  BY DEF Commit
<1>4. /\ Column(copy.status, new.status, events[e].status) = new.status
      /\ Column(copy.attempt_count, new.attempt_count, events[e].attempt_count)
           = new.attempt_count
      /\ Column(copy.error_message, new.error_message, events[e].error_message)
           = new.error_message
      /\ events[e].payload = new.payload
  BY <1>2
<1> HIDE DEF e, copy
<1> QED
  BY <1>1, <1>3, <1>4 DEF e

\* A request that is answered as it arrives is about one event, or none.
LEMMA RefusalDoes ==
  ASSUME RequestsOK, NEW q, NEW e, Arrives(q, e), Idle,
         NEW status, Answer(q, e, status)
  PROVE  Does(q, e)
<1>1. q \notin DOMAIN session /\ q \notin DOMAIN reply
  BY DEF Arrives
<1>2. /\ DOMAIN session' = DOMAIN session \ {q}
      /\ \A r \in DOMAIN session' : session'[r] = session[r]
  BY <1>1, AnswerFacts
<1> QED
  BY <1>2 DEF Does, Works

\* An exception changes no table, and its request fits the rollback.
LEMMA RaiseDoes ==
  ASSUME Shape, Alone, NEW q \in DOMAIN session, Raise(q), Fits(q), Idle,
         session[q].at \notin {"insert", "dead_letter"}
  PROVE  Does(q, EventOf(q))
<1>1. CASE Answer(q, EventOf(q), "error")
  BY <1>1, AnswerDoes DEF Shape, TypeOK
<1>2. CASE Goto(q, "rollback", session[q].row, {})
  <2>1. /\ IdOf[session[q].row.payload] = EventOf(q)
        /\ session[q].row = events'[EventOf(q)]
        /\ EventOf(q) \notin DOMAIN dead_letters'
        /\ Sole(q, EventOf(q))
    BY DEF EventOf, Fits, Idle, Alone, Sole, Works
  <2> QED
    BY <1>2, <2>1, GotoDoes DEF Shape, TypeOK, InPass
<1> QED
  BY <1>1, <1>2 DEF Raise

(***************************************************************************)
(* Each action is a deed on one event, or none, by one request.            *)
(***************************************************************************)

\* What the actions find in the session they continue.
LEMMA SessionFacts ==
  ASSUME ExclusiveInv, NEW q \in DOMAIN session
  PROVE  /\ EventOf(q) \in EventIds /\ session[q].row \in Row
         /\ session[q].problems \in SUBSET Problem
         /\ IdOf[session[q].row.payload] = EventOf(q)
         /\ Fits(q) /\ Knows(q) /\ Exact(EventOf(q))
         /\ session[q].at # "insert" =>
              /\ EventOf(q) \in DOMAIN events
              /\ session[q].row = events[EventOf(q)]
              /\ Sole(q, EventOf(q))
<1> USE DEF ExclusiveInv, Inv, Shape, TypeOK
<1>1. /\ EventOf(q) \in EventIds /\ session[q] \in Session /\ session[q].row \in Row
  BY EventOfType
<1>2. PlacedAt(q) /\ Knows(q) /\ Fits(q) /\ Exact(EventOf(q))
  BY <1>1 DEF Placed, RequestsKnow, Fit, AllExact
<1> QED
  BY <1>1, <1>2 DEF Session, EventOf, PlacedAt, Fits, Alone, Sole, Works

\* A delivery is looked up.
LEMMA LookUpDoes ==
  ASSUME ExclusiveInv, NEW d \in Deliveries, NEW p \in Payloads, LookUp(d, p)
  PROVE  IdOf[p] \in EventIds /\ Does(d, IdOf[p])
<1>1. Idle /\ Arrives(d, IdOf[p]) /\ RequestsOK /\ IdOf[p] \in EventIds
  BY ConstantsAssumption
     DEF LookUp, tables, tallies, Idle, ExclusiveInv, Inv, Shape, TypeOK
<1>2. CASE Answer(d, IdOf[p], "duplicate")
  BY <1>1, <1>2, RefusalDoes
<1>3. CASE Open(d, "insert", NewRow(p), {})
  <2>1. IdOf[NewRow(p).payload] = IdOf[p]
    BY DEF NewRow
  <2> QED
    BY <1>1, <1>3, <2>1, OpenDoes DEF InPass
<1> QED
  BY <1>1, <1>2, <1>3 DEF LookUp

\* A replay is loaded.
LEMMA LoadDoes ==
  ASSUME Exclusive, ExclusiveInv, NEW r \in Replays, NEW e \in EventIds, Load(r, e)
  PROVE  Does(r, e)
<1>1. Idle /\ Arrives(r, e) /\ RequestsOK
  BY DEF Load, tables, tallies, Idle, ExclusiveInv, Inv, Shape, TypeOK
<1>2. e \in DOMAIN events => IdOf[events[e].payload] = e
  BY DEF ExclusiveInv, Inv, Shape, Keyed
<1>3. CASE Answer(r, e, "not_found")
  BY <1>1, <1>3, RefusalDoes
<1>4. CASE e \in DOMAIN events /\ ~Spent(events[e]) /\ Open(r, "begin", events[e], {})
  <2>1. e \notin DOMAIN dead_letters
    <3>1. events[e].attempt_count = passes[e] /\ passes[e] \in Nat /\ MaxAttempts \in Nat
      BY <1>4, ConstantsAssumption
         DEF ExclusiveInv, AllExact, Exact, Inv, Shape, TypeOK, CountersOK
    <3> QED
      BY <1>4, <3>1 DEF Spent, ExclusiveInv, Inv, DeadLetterExhausted
  <2> QED
    BY <1>1, <1>2, <1>4, <2>1, OpenDoes DEF InPass
<1>5. CASE e \in DOMAIN events /\ Open(r, "dead_letter", events[e], {"replays_exhausted"})
  BY <1>1, <1>2, <1>5, OpenDoes DEF InPass
<1> QED
  BY <1>3, <1>4, <1>5 DEF Load

\* An event is stored, or rejected by a unique column.
LEMMA InsertDoes ==
  ASSUME ExclusiveInv, NEW d \in DOMAIN session, Insert(d)
  PROVE  Does(d, EventOf(d))
<1> DEFINE row == session[d].row
           e == EventOf(d)
<1>0. RequestsOK /\ session[d].at = "insert" /\ row \in Row
  BY SessionFacts DEF ExclusiveInv, Inv, Shape, TypeOK, Insert, At
<1>1. CASE Answer(d, e, "duplicate") /\ UNCHANGED events
  <2>1. Idle
    BY <1>1 DEF Insert, Idle, tallies
  <2> QED
    BY <1>0, <1>1, <2>1, AnswerDoes
<1>2. CASE /\ ~UniqueViolation(row.payload)
           /\ events' = Put(events, e, row) /\ Goto(d, "begin", row, {})
  <2>1. e \notin DOMAIN events /\ e \in EventIds /\ IdOf[row.payload] = e
    BY <1>2, SessionFacts DEF UniqueViolation, EventOf
  <2>2. row = NewRow(row.payload) /\ row.payload \in Payloads
    BY <1>0 DEF ExclusiveInv, Inv, Shape, Placed, PlacedAt, Row
  <2>3. Accepts(e)
    BY <1>2, <2>1, <2>2 DEF Accepts, Insert, tallies
  <2>4. /\ e \notin DOMAIN dead_letters' /\ row = events'[e]
        /\ Sole(d, e)
    BY <1>2, <2>1, <2>3
       DEF ExclusiveInv, AllExact, Exact, Accepts, Put, Inv, Shape, Placed, PlacedAt,
           Sole, Works
  <2> HIDE DEF row, e
  <2>5. Does(d, EventOf(d))
    BY <1>0, <1>2, <2>1, <2>3, <2>4, GotoDoes DEF InPass, Deed, e
  <2> QED
    BY <2>5
<1> QED
  BY <1>1, <1>2 DEF Insert

\* A pass begins below the limit, on an event that is not buried.
LEMMA BeginDoes ==
  ASSUME ExclusiveInv, NEW q \in DOMAIN session, Begin(q)
  PROVE  Does(q, EventOf(q))
<1> DEFINE new == Begun(session[q].row)
           e == EventOf(q)
<1>0. /\ TablesOK /\ RequestsOK /\ session[q].at = "begin"
      /\ Commit(q, new) /\ Goto(q, "summarize", new, {})
  BY DEF ExclusiveInv, Inv, Shape, TypeOK, Begin, At
<1>1. /\ e \in DOMAIN events /\ session[q].row = events[e] /\ session[q].row \in Row
      /\ e \notin DOMAIN dead_letters /\ events[e].attempt_count < MaxAttempts
      /\ IdOf[session[q].row.payload] = e /\ Sole(q, e)
  BY <1>0, SessionFacts DEF Fits, Knows
<1>2. new \in Row
  BY <1>1, RowTypes
<1>3. new.payload = session[q].row.payload /\ new.status = "processing"
  BY <1>1 DEF Begun, Row
<1>4. new = Begun(events[e])
  BY <1>1
<1>5. dead_letters' = dead_letters /\ passes' = Bump(passes, e)
  BY DEF Begin
<1> HIDE DEF new, e
<1>6. events' = [events EXCEPT ![e] = new]
  BY <1>0, <1>1, <1>2, <1>3, CommitIsExact DEF e
<1>7. Attempts(e)
  BY <1>1, <1>4, <1>5, <1>6 DEF Attempts
<1>8. e \notin DOMAIN dead_letters' /\ new = events'[e]
  BY <1>1, <1>5, <1>6
<1> QED
  BY <1>0, <1>1, <1>3, <1>7, <1>8, GotoDoes DEF Deed, InPass, e

\* Between its commits a pass touches no event.
LEMMA CallsDo ==
  ASSUME ExclusiveInv, NEW q \in DOMAIN session, Summarize(q) \/ Notify(q) \/ Sync(q)
  PROVE  Does(q, EventOf(q))
<1>0. /\ Shape /\ Alone /\ RequestsOK /\ Idle
      /\ session[q].at \in {"summarize", "notify", "sync"}
  BY DEF ExclusiveInv, Inv, Shape, TypeOK, Summarize, Notify, Sync, At, tables, tallies, Idle
<1>1. /\ session[q].row = events[EventOf(q)] /\ Fits(q)
      /\ EventOf(q) \notin DOMAIN dead_letters /\ session[q].row.status = "processing"
      /\ IdOf[session[q].row.payload] = EventOf(q) /\ Sole(q, EventOf(q))
  BY <1>0, SessionFacts DEF Fits, InPass
<1>2. ASSUME NEW stage \in {"notify", "sync", "finish"}, NEW problems,
             Goto(q, stage, session[q].row, problems)
      PROVE  Does(q, EventOf(q))
  BY <1>0, <1>1, <1>2, GotoDoes DEF Idle
<1>3. CASE Raise(q)
  BY <1>0, <1>1, <1>3, RaiseDoes
<1> QED
  BY <1>2, <1>3 DEF Summarize, Notify, Sync

\* A pass settles its event, and at the limit goes on to bury it.
LEMMA FinishDoes ==
  ASSUME ExclusiveInv, NEW q \in DOMAIN session, Finish(q)
  PROVE  Does(q, EventOf(q))
<1> DEFINE problems == session[q].problems
           new == Finished(session[q].row, problems)
           e == EventOf(q)
<1>0. /\ TablesOK /\ RequestsOK /\ session[q].at = "finish"
      /\ Commit(q, new)
      /\ \/ Goto(q, "dead_letter", new, {"partial_at_limit"})
         \/ Answer(q, e, new.status)
  BY DEF ExclusiveInv, Inv, Shape, TypeOK, Finish, At
<1>1. /\ e \in DOMAIN events /\ session[q].row = events[e] /\ session[q].row \in Row
      /\ e \notin DOMAIN dead_letters /\ events[e].status = "processing"
      /\ problems \in SUBSET Problem /\ IdOf[session[q].row.payload] = e
      /\ Sole(q, e)
  BY <1>0, SessionFacts DEF Fits, InPass
<1>2. new \in Row
  BY <1>1, RowTypes
<1>3. new.payload = session[q].row.payload
  BY <1>1 DEF Finished, Row
<1>4. new = Finished(events[e], problems)
  BY <1>1
<1>5. dead_letters' = dead_letters /\ passes' = passes
  BY DEF Finish, tallies
<1> HIDE DEF new, e, problems
<1>6. events' = [events EXCEPT ![e] = new]
  BY <1>0, <1>1, <1>2, <1>3, CommitIsExact DEF e
<1>7. Settles(e)
  BY <1>1, <1>4, <1>5, <1>6 DEF Settles
<1>8. new = events'[e]
  BY <1>1, <1>6
<1>9. CASE Answer(q, e, new.status)
  BY <1>0, <1>1, <1>7, <1>9, AnswerDoes DEF Deed, e
<1>10. CASE Goto(q, "dead_letter", new, {"partial_at_limit"})
  BY <1>0, <1>1, <1>3, <1>7, <1>8, <1>10, GotoDoes DEF Deed, InPass, e
<1> QED
  BY <1>0, <1>9, <1>10 DEF e

\* A rollback reads the row.
LEMMA RollbackDoes ==
  ASSUME ExclusiveInv, NEW r \in DOMAIN session, Rollback(r)
  PROVE  Does(r, EventOf(r))
<1>0. /\ RequestsOK /\ Idle /\ session[r].at = "rollback"
      /\ Goto(r, "mark_failed", events[EventOf(r)], {})
  BY DEF ExclusiveInv, Inv, Shape, TypeOK, Rollback, At, tables, tallies, Idle
<1>1. /\ session[r].row = events[EventOf(r)] /\ EventOf(r) \notin DOMAIN dead_letters
      /\ IdOf[session[r].row.payload] = EventOf(r) /\ Sole(r, EventOf(r))
  BY <1>0, SessionFacts DEF Fits
<1> QED
  BY <1>0, <1>1, GotoDoes DEF Idle, InPass

\* A failure is marked, and at the limit its request goes on to bury the event.
LEMMA MarkFailedDoes ==
  ASSUME ExclusiveInv, NEW r \in DOMAIN session, MarkFailed(r)
  PROVE  Does(r, EventOf(r))
<1> DEFINE new == FailedRow(session[r].row)
           e == EventOf(r)
<1>0. /\ TablesOK /\ RequestsOK /\ session[r].at = "mark_failed"
      /\ Commit(r, new)
      /\ \/ Goto(r, "dead_letter", new, {"processing_failed"})
         \/ Answer(r, e, "failed")
  BY DEF ExclusiveInv, Inv, Shape, TypeOK, MarkFailed, At, FailedRow
<1>1. /\ e \in DOMAIN events /\ session[r].row = events[e] /\ session[r].row \in Row
      /\ e \notin DOMAIN dead_letters /\ IdOf[session[r].row.payload] = e
      /\ Sole(r, e)
  BY <1>0, SessionFacts DEF Fits
<1>2. new \in Row /\ new.payload = session[r].row.payload
  BY <1>1 DEF FailedRow, Row, Status, Problem
<1>4. new = FailedRow(events[e])
  BY <1>1
<1>5. dead_letters' = dead_letters /\ passes' = passes
  BY DEF MarkFailed, tallies
<1> HIDE DEF new, e
<1>6. events' = [events EXCEPT ![e] = new]
  BY <1>0, <1>1, <1>2, CommitIsExact DEF e
<1>7. Fails(e)
  BY <1>1, <1>4, <1>5, <1>6 DEF Fails
<1>8. new = events'[e]
  BY <1>1, <1>6
<1>9. CASE Answer(r, e, "failed")
  BY <1>0, <1>1, <1>7, <1>9, AnswerDoes DEF Deed, e
<1>10. CASE Goto(r, "dead_letter", new, {"processing_failed"})
  BY <1>0, <1>1, <1>2, <1>7, <1>8, <1>10, GotoDoes DEF Deed, InPass, e
<1> QED
  BY <1>0, <1>9, <1>10 DEF e

\* An event is buried at the limit.
LEMMA DeadLetterDoes ==
  ASSUME ExclusiveInv, NEW r \in DOMAIN session, DeadLetter(r)
  PROVE  Does(r, EventOf(r))
<1> DEFINE reason == session[r].problems
           new == BuriedRow(session[r].row, reason)
           e == EventOf(r)
<1>0. /\ TablesOK /\ RequestsOK /\ session[r].at = "dead_letter"
      /\ Commit(r, new) /\ Answer(r, e, "dead_lettered")
  BY DEF ExclusiveInv, Inv, Shape, TypeOK, DeadLetter, At, BuriedRow
<1>1. /\ e \in DOMAIN events /\ session[r].row = events[e] /\ session[r].row \in Row
      /\ events[e].attempt_count = MaxAttempts /\ reason \in SUBSET Problem
      /\ Sole(r, e)
  BY <1>0, SessionFacts DEF Knows
<1>2. new \in Row /\ new.payload = session[r].row.payload
  BY <1>1 DEF BuriedRow, Row, Status
<1>4. new = BuriedRow(events[e], reason)
  BY <1>1
<1>5. passes' = passes /\ DOMAIN dead_letters' = DOMAIN dead_letters \cup {e}
  BY DEF DeadLetter, tallies, Buried, Put
<1> HIDE DEF new, e, reason
<1>6. events' = [events EXCEPT ![e] = new]
  BY <1>0, <1>1, <1>2, CommitIsExact DEF e
<1>7. Buries(e)
  BY <1>1, <1>4, <1>5, <1>6 DEF Buries
<1> QED
  BY <1>0, <1>1, <1>7, AnswerDoes DEF Deed, e

\* A refused statement or commit changes no table.
LEMMA DatabaseErrorDoes ==
  ASSUME ExclusiveInv, NEW q \in DOMAIN session, DatabaseError(q)
  PROVE  Does(q, EventOf(q))
<1>0. Shape /\ Alone /\ RequestsOK /\ Idle /\ Fits(q)
  BY DEF ExclusiveInv, Inv, Shape, TypeOK, DatabaseError, tables, tallies, Idle, Fit
<1>1. CASE (At(q, "begin") \/ At(q, "finish")) /\ Raise(q)
  BY <1>0, <1>1, RaiseDoes DEF At
<1>2. CASE Answer(q, EventOf(q), "error")
  BY <1>0, <1>2, AnswerDoes
<1> QED
  BY <1>1, <1>2 DEF DatabaseError

(***************************************************************************)
(* The invariant, and what follows from it.                                *)
(***************************************************************************)

\* Nothing is stored and nobody is served at first.
LEMMA ExclusiveInit == Init => ExclusiveInv
<1> SUFFICES ASSUME Init PROVE ExclusiveInv
  OBVIOUS
<1>1. Alone /\ Fit /\ AllExact
  BY DEF Init, Alone, Fit, AllExact, Exact
<1> QED
  BY <1>1, InvInit DEF ExclusiveInv

\* Every step but a crash or a stutter is what one request does to one event.
LEMMA OneActs ==
  ASSUME Exclusive, ExclusiveInv, Next, ~Crash
  PROVE  \E q \in Requests, e \in EventIds : Does(q, e)
<1>1. CASE Arrival
  BY <1>1, LookUpDoes, LoadDoes DEF Arrival, Requests
<1>2. ASSUME NEW q \in Requests, Advance(q) \/ DatabaseError(q)
      PROVE  \E e \in EventIds : Does(q, e)
  <2>1. q \in DOMAIN session
    BY <1>2 DEF Advance, Insert, Begin, Summarize, Notify, Sync, Finish, Rollback,
                MarkFailed, DeadLetter, DatabaseError, At
  <2>2. Does(q, EventOf(q))
    BY <1>2, <2>1, InsertDoes, BeginDoes, CallsDo, FinishDoes, RollbackDoes,
       MarkFailedDoes, DeadLetterDoes, DatabaseErrorDoes DEF Advance
  <2> QED
    BY <2>1, <2>2, SessionFacts
<1> QED
  BY <1>1, <1>2 DEF Next, Fault

\* A step is a deed on one event, or leaves the tables alone.
LEMMA StepIsDeed ==
  ASSUME Exclusive, ExclusiveInv, [Next]_vars
  PROVE  Idle \/ \E e \in EventIds : Deed(e)
<1>1. CASE Crash \/ UNCHANGED vars
  BY <1>1 DEF Crash, vars, tables, tallies, Idle
<1>2. CASE Next /\ ~Crash
  BY <1>2, OneActs DEF Does
<1> QED
  BY <1>1, <1>2

\* Every step keeps the invariant.
LEMMA ExclusiveStep ==
  ASSUME Exclusive, ExclusiveInv, [Next]_vars
  PROVE  ExclusiveInv'
<1>0. Shape /\ TypeOK /\ Alone /\ Fit /\ AllExact
  BY DEF ExclusiveInv, Inv, Shape
<1>1. Inv'
  BY InvStep DEF ExclusiveInv
<1>2. CASE Crash
  <2>1. Idle
    BY <1>2 DEF Crash, tables, tallies, Idle
  <2>2. \A q \in DOMAIN session' : q \in DOMAIN session /\ session'[q] = session[q]
    BY <1>0, <1>2, CrashFacts DEF TypeOK
  <2>3. Alone' /\ Fit'
    BY <1>0, <2>1, <2>2 DEF Alone, Works, Fit, Fits, EventOf, Idle
  <2>4. AllExact'
    BY <1>0, <2>1 DEF AllExact, Exact, Idle
  <2> QED
    BY <1>1, <2>3, <2>4 DEF ExclusiveInv
<1>3. CASE UNCHANGED vars
  BY <1>0, <1>1, <1>3
     DEF ExclusiveInv, Alone, Works, Fit, Fits, EventOf, AllExact, Exact, vars, tables, tallies
<1>4. CASE Next /\ ~Crash
  <2>1. PICK q \in Requests, e \in EventIds : Does(q, e)
    BY <1>4, OneActs
  <2>2. Alone' /\ Fit'
    BY <1>0, <2>1, OthersStay
  <2>3. AllExact'
    BY <1>0, <2>1, AllStayExact DEF Does
  <2> QED
    BY <1>1, <2>2, <2>3 DEF ExclusiveInv
<1> QED
  BY <1>2, <1>3, <1>4

\* Operators who do not replay what is being worked on keep the invariant.
THEOREM ExclusiveInvariance == ASSUME Exclusive PROVE Spec => []ExclusiveInv
BY ExclusiveInit, ExclusiveStep, PTL DEF Spec

\* The count operators see is the number of passes an event was given
\* (EventProcessor.process).
THEOREM PassesCountedHolds == ASSUME Exclusive PROVE Spec => []PassesCounted
<1>1. ExclusiveInv => PassesCounted
  BY DEF ExclusiveInv, AllExact, Exact, PassesCounted, Inv, Shape, TypeOK, TablesOK
<1> QED
  BY <1>1, ExclusiveInvariance, PTL

LEMMA CapInvariant == ExclusiveInv => CapRespected
<1>1. ASSUME ExclusiveInv, NEW e \in EventIds
      PROVE  passes[e] <= MaxAttempts
  <2>1. CASE e \in DOMAIN events
    BY <1>1, <2>1 DEF ExclusiveInv, AllExact, Exact, Inv, GoodRows, GoodRow
  <2>2. CASE e \notin DOMAIN events
    BY <1>1, <2>2, ConstantsAssumption DEF ExclusiveInv, AllExact, Exact
  <2> QED
    BY <2>1, <2>2
<1> QED
  BY <1>1 DEF CapRespected

\* No event is given more passes than the setting allows (EventReplayService.replay).
THEOREM CapRespectedHolds == ASSUME Exclusive PROVE Spec => []CapRespected
BY CapInvariant, ExclusiveInvariance, PTL

\* The detail view and the dead-letter table agree (_event_detail, _dead_letter).
THEOREM DetailAgreesHolds == ASSUME Exclusive PROVE Spec => []DetailAgrees
<1>1. ExclusiveInv => DetailAgrees
  BY DEF ExclusiveInv, AllExact, Exact, DetailAgrees, Inv, Shape, TypeOK, TablesOK
<1> QED
  BY <1>1, ExclusiveInvariance, PTL

\* For these operators an exhausted event is retained as documented: its record is
\* that of a stored event, which is shown as dead-lettered (_dead_letter).
THEOREM DeadLetterRetainedHolds == ASSUME Exclusive PROVE Spec => []DeadLetterRetained
<1>1. ASSUME ExclusiveInv, NEW e \in DOMAIN dead_letters
      PROVE  events[e].status = "dead_lettered"
  <2>1. e \in EventIds
    BY <1>1 DEF ExclusiveInv, Inv, Shape, TypeOK, TablesOK
  <2> QED
    BY <1>1, <2>1 DEF ExclusiveInv, AllExact, Exact
<1>2. ExclusiveInv => DeadLetterRetained
  BY <1>1 DEF DeadLetterRetained
<1> QED
  BY <1>2, ExclusiveInvariance, PTL

(***************************************************************************)
(* The ledger.                                                             *)
(***************************************************************************)

StatusOf(e) == IF e \in DOMAIN events THEN events[e].status ELSE "absent"

\* What a deed does to the status that the ledger shows.
LEMMA DeedShows ==
  ASSUME TypeOK, NEW e \in EventIds, Deed(e), NEW s, StatusOf(e)' = s
  PROVE  [c \in EventIds |-> StatusOf(c)']
           = [[c \in EventIds |-> StatusOf(c)] EXCEPT ![e] = s]
<1>1. ASSUME NEW c \in EventIds, c # e
      PROVE  StatusOf(c)' = StatusOf(c)
  BY <1>1, DeedIsLocal DEF StatusOf
<1> QED
  BY <1>1

\* A deed is a step of the ledger.
LEMMA DeedIsEntered ==
  ASSUME ExclusiveInv, NEW e \in EventIds, Deed(e)
  PROVE  Ledger!Next
<1> DEFINE shown == [c \in EventIds |-> StatusOf(c)]
<1>0. TypeOK /\ Exact(e) /\ passes[e] \in Nat /\ MaxAttempts \in Nat
  BY ConstantsAssumption DEF ExclusiveInv, AllExact, Inv, Shape, TypeOK, CountersOK
<1>1. e \in DOMAIN events =>
        events[e] \in Row /\ StatusOf(e) = events[e].status /\ StatusOf(e) # "absent"
  BY <1>0 DEF TypeOK, TablesOK, Row, Status, StatusOf
<1>2. ASSUME NEW s, StatusOf(e)' = s
      PROVE  Ledger!Become(e, s)
  BY <1>0, <1>2, DeedShows DEF Ledger!Become, StatusOf
<1>3. \A s : Ledger!Is(e, s) <=> StatusOf(e) = s
  BY DEF Ledger!Is, StatusOf
<1>4. CASE Accepts(e)
  <2>1. StatusOf(e) = "absent" /\ StatusOf(e)' = "received"
    BY <1>4 DEF Accepts, Put, NewRow, StatusOf
  <2>2. Ledger!Accept(e)
    BY <1>2, <1>3, <1>4, <2>1 DEF Ledger!Accept, Accepts
  <2> QED
    BY <2>2 DEF Ledger!Next
<1>5. CASE Attempts(e)
  <2>1. StatusOf(e)' = "processing"
    BY <1>1, <1>5 DEF Attempts, Begun, Row, StatusOf
  <2>2. Ledger!Attempt(e)
    BY <1>0, <1>1, <1>2, <1>3, <1>5, <2>1 DEF Ledger!Attempt, Attempts, Bump, Exact
  <2> QED
    BY <2>2 DEF Ledger!Next
<1>6. CASE Settles(e)
  <2>1. StatusOf(e) = "processing"
    BY <1>1, <1>6 DEF Settles
  <2>2. StatusOf(e)' \in {"completed", "partially_completed"}
    BY <1>1, <1>6 DEF Settles, Finished, Row, StatusOf
  <2>3. Ledger!Settle(e)
    BY <1>2, <1>3, <1>6, <2>1, <2>2 DEF Ledger!Settle, Settles
  <2> QED
    BY <2>3 DEF Ledger!Next
<1>7. CASE Fails(e)
  <2>1. StatusOf(e)' = "failed"
    BY <1>1, <1>7 DEF Fails, FailedRow, Row, StatusOf
  <2>2. Ledger!Fail(e)
    BY <1>0, <1>1, <1>2, <1>3, <1>7, <2>1 DEF Ledger!Fail, Fails, Exact
  <2> QED
    BY <2>2 DEF Ledger!Next
<1>8. CASE Buries(e)
  <2>1. StatusOf(e)' = "dead_lettered"
    BY <1>1, <1>8 DEF Buries, BuriedRow, Row, StatusOf
  <2>2. Ledger!Bury(e)
    BY <1>0, <1>1, <1>2, <1>3, <1>8, <2>1 DEF Ledger!Bury, Buries, Exact
  <2> QED
    BY <2>2 DEF Ledger!Next
<1> QED
  BY <1>4, <1>5, <1>6, <1>7, <1>8 DEF Deed

LEMMA LedgerStep ==
  ASSUME Exclusive, ExclusiveInv, [Next]_vars
  PROVE  [Ledger!Next]_(Ledger!vars)
<1>1. CASE Idle
  BY <1>1 DEF Idle, Ledger!vars
<1>2. CASE \E e \in EventIds : Deed(e)
  BY <1>2, DeedIsEntered
<1> QED
  BY <1>1, <1>2, StepIsDeed

\* Every step about an event is a step of EventLedger, or none: accepted once,
\* attempts numbered and capped, settled only from processing, buried at the cap
\* and then for good.
THEOREM LifecycleImplementsLedger == ASSUME Exclusive PROVE Spec => ImplementsLedger
<1>1. Init => Ledger!Init
  BY DEF Init, Ledger!Init
<1> QED
  BY <1>1, LedgerStep, ExclusiveInvariance, PTL DEF Spec, ImplementsLedger, Ledger!Spec
=============================================================================
