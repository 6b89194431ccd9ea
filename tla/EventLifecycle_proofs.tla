------------------------ MODULE EventLifecycle_proofs ------------------------
(***************************************************************************)
(* What holds of EventLifecycle for every set of events, payloads and      *)
(* requests and every limit, however the requests overlap.                 *)
(***************************************************************************)
EXTENDS EventLifecycle, TLAPS

(***************************************************************************)
(* Functions that grow and shrink.                                         *)
(***************************************************************************)

\* Restrict to a part of the domain keeps the values.
LEMMA RestrictType ==
  ASSUME NEW S, NEW f, f \in [DOMAIN f -> S], NEW D, D \subseteq DOMAIN f
  PROVE  /\ DOMAIN Restrict(f, D) = D
         /\ Restrict(f, D) \in [D -> S]
         /\ \A y \in D : Restrict(f, D)[y] = f[y]
BY DEF Restrict

\* A counter that is bumped stays a counter and never goes down.
LEMMA BumpType ==
  ASSUME NEW f \in [EventIds -> Nat], NEW e \in EventIds
  PROVE  /\ Bump(f, e) \in [EventIds -> Nat]
         /\ Bump(f, e)[e] = f[e] + 1
         /\ \A c \in EventIds : Bump(f, e)[c] >= f[c]
BY DEF Bump

(***************************************************************************)
(* The parts of an action preserve the types they touch.                   *)
(***************************************************************************)

\* The event a request in flight is about is one of the event ids.
LEMMA EventOfType ==
  ASSUME RequestsOK, NEW q \in DOMAIN session
  PROVE  /\ EventOf(q) \in EventIds
         /\ session[q] \in Session
         /\ session[q].row \in Row
         /\ session[q].row.payload \in Payloads
BY ConstantsAssumption DEF RequestsOK, EventOf, Session, Row

\* A request that goes to its next await keeps the types of the requests.
LEMMA GotoType ==
  ASSUME RequestsOK, NEW q \in DOMAIN session,
         NEW stage \in Stage, NEW row \in Row, NEW problems \in SUBSET Problem,
         Goto(q, stage, row, problems)
  PROVE  RequestsOK'
BY DEF RequestsOK, Goto, Session

\* A request that arrives and is let in keeps the types of the requests.
LEMMA OpenType ==
  ASSUME RequestsOK, NEW q \in Requests, q \notin DOMAIN session \cup DOMAIN reply,
         NEW stage \in Stage, NEW row \in Row, NEW problems \in SUBSET Problem,
         Open(q, stage, row, problems)
  PROVE  RequestsOK'
<1> DEFINE s == [at |-> stage, row |-> row, problems |-> problems]
<1>1. s \in Session
  BY DEF Session
<1>2. session' = Put(session, q, s) /\ reply' = reply
  BY DEF Open
<1> HIDE DEF s
<1>3. /\ DOMAIN Put(session, q, s) = DOMAIN session \cup {q}
      /\ Put(session, q, s) \in [DOMAIN Put(session, q, s) -> Session]
  <2>1. session \in [DOMAIN session -> Session]
    BY DEF RequestsOK
  <2> QED
    BY <1>1, <2>1 DEF Put
<1> QED
  BY <1>2, <1>3 DEF RequestsOK

\* A receipt that goes out keeps the types of the requests.
LEMMA AnswerType ==
  ASSUME RequestsOK, NEW q \in Requests, q \notin DOMAIN reply,
         NEW e \in EventIds, NEW status,
         status \in Status \cup {"duplicate", "not_found", "error", "lost"},
         Answer(q, e, status)
  PROVE  RequestsOK'
<1> DEFINE m == [status |-> status, event |-> e]
<1>1. m \in Receipt
  BY DEF Receipt
<1>2. session' = Restrict(session, DOMAIN session \ {q}) /\ reply' = Put(reply, q, m)
  BY DEF Answer
<1> HIDE DEF m
<1>3. /\ DOMAIN Put(reply, q, m) = DOMAIN reply \cup {q}
      /\ Put(reply, q, m) \in [DOMAIN Put(reply, q, m) -> Receipt]
  <2>1. reply \in [DOMAIN reply -> Receipt]
    BY DEF RequestsOK
  <2> QED
    BY <1>1, <2>1 DEF Put
<1>4. DOMAIN session' = DOMAIN session \ {q} /\ session' \in [DOMAIN session' -> Session]
  BY <1>2, RestrictType DEF RequestsOK
<1> QED
  BY <1>2, <1>3, <1>4 DEF RequestsOK

\* An exception that leaves process keeps the types of the requests.
LEMMA RaiseType ==
  ASSUME RequestsOK, NEW q \in DOMAIN session, Raise(q)
  PROVE  RequestsOK'
<1>0. q \in Requests /\ q \notin DOMAIN reply
  BY DEF RequestsOK
<1>1. CASE Answer(q, EventOf(q), "error")
  BY <1>0, <1>1, AnswerType, EventOfType
<1>2. CASE Goto(q, "rollback", session[q].row, {})
  BY <1>2, GotoType, EventOfType DEF Stage
<1> QED
  BY <1>1, <1>2 DEF Raise

\* A flush leaves each column old or new.
LEMMA CommitType ==
  ASSUME TablesOK, RequestsOK, NEW q \in DOMAIN session,
         NEW new \in Row, Commit(q, new)
  PROVE  /\ DOMAIN events' = DOMAIN events
         /\ events' \in [DOMAIN events -> Row]
BY DEF TablesOK, Commit, Column, Row

\* The rows a handler writes.
LEMMA RowTypes ==
  ASSUME NEW row \in Row, NEW problems \in SUBSET Problem
  PROVE  /\ Begun(row) \in Row
         /\ Finished(row, problems) \in Row
         /\ [row EXCEPT !.status = "failed", !.error_message = problems] \in Row
         /\ [row EXCEPT !.status = "dead_lettered", !.error_message = problems] \in Row
<1>2. Begun(row) \in Row
  <2>1. row.attempt_count + 1 \in Nat /\ "processing" \in Status
    BY DEF Row, Status
  <2> QED
    BY <2>1 DEF Row, Begun
<1>3. Finished(row, problems) \in Row
  BY DEF Row, Status, Finished
<1>4. [row EXCEPT !.status = "failed", !.error_message = problems] \in Row
  BY DEF Row, Status
<1>5. [row EXCEPT !.status = "dead_lettered", !.error_message = problems] \in Row
  BY DEF Row, Status
<1> QED
  BY <1>2, <1>3, <1>4, <1>5

(***************************************************************************)
(* What the parts of an action leave alone.                                *)
(***************************************************************************)

\* Goto changes the one session and no receipt.
LEMMA GotoFacts ==
  ASSUME RequestsOK, NEW q \in DOMAIN session,
         NEW stage, NEW row, NEW problems, Goto(q, stage, row, problems)
  PROVE  /\ DOMAIN session' = DOMAIN session
         /\ session'[q] = [at |-> stage, row |-> row, problems |-> problems]
         /\ \A r \in DOMAIN session : r # q => session'[r] = session[r]
         /\ reply' = reply
BY DEF RequestsOK, Goto

\* Open adds the one session and changes no receipt.
LEMMA OpenFacts ==
  ASSUME RequestsOK, NEW q, q \notin DOMAIN session,
         NEW stage, NEW row, NEW problems, Open(q, stage, row, problems)
  PROVE  /\ DOMAIN session' = DOMAIN session \cup {q}
         /\ session'[q] = [at |-> stage, row |-> row, problems |-> problems]
         /\ \A r \in DOMAIN session : session'[r] = session[r]
         /\ reply' = reply
BY DEF RequestsOK, Open, Put

\* Answer removes the one session and adds its receipt.
LEMMA AnswerFacts ==
  ASSUME RequestsOK, NEW q, q \notin DOMAIN reply,
         NEW e, NEW status, Answer(q, e, status)
  PROVE  /\ DOMAIN session' = DOMAIN session \ {q}
         /\ \A r \in DOMAIN session' : session'[r] = session[r]
         /\ DOMAIN reply' = DOMAIN reply \cup {q}
         /\ reply'[q] = [status |-> status, event |-> e]
         /\ \A r \in DOMAIN reply : reply'[r] = reply[r]
BY DEF RequestsOK, Answer, Put, Restrict

\* A crash takes some sessions away and leaves their requests lost receipts.
LEMMA CrashFacts ==
  ASSUME RequestsOK, Crash
  PROVE  /\ DOMAIN session' \subseteq DOMAIN session
         /\ \A r \in DOMAIN session' : session'[r] = session[r]
         /\ DOMAIN reply' = DOMAIN reply \cup (DOMAIN session \ DOMAIN session')
         /\ \A q \in DOMAIN session \ DOMAIN session' :
              reply'[q] = [status |-> "lost", event |-> EventOf(q)]
         /\ \A q \in DOMAIN reply : reply'[q] = reply[q]
         /\ UNCHANGED <<tables, tallies>>
<1>1. PICK held \in SUBSET DOMAIN session :
        /\ session' = Restrict(session, DOMAIN session \ held)
        /\ reply' = [q \in held \cup DOMAIN reply |->
                       IF q \in held THEN [status |-> "lost", event |-> EventOf(q)]
                                     ELSE reply[q]]
  BY DEF Crash
<1>2. /\ DOMAIN session' = DOMAIN session \ held
      /\ \A r \in DOMAIN session' : session'[r] = session[r]
  BY <1>1 DEF Restrict
<1>3. \A q \in DOMAIN reply : q \notin held
  BY DEF RequestsOK
<1>4. DOMAIN session \ DOMAIN session' = held
  BY <1>2
<1>5. UNCHANGED <<tables, tallies>>
  BY DEF Crash
<1> QED
  BY <1>1, <1>2, <1>3, <1>4, <1>5

\* Commit changes the one event and leaves it its payload.
LEMMA CommitFacts ==
  ASSUME TablesOK, NEW q \in DOMAIN session, NEW new, Commit(q, new)
  PROVE  /\ DOMAIN events' = DOMAIN events
         /\ \A e \in DOMAIN events :
              /\ events'[e].payload = events[e].payload
              /\ e # EventOf(q) => events'[e] = events[e]
              /\ events'[e].status \in {events[e].status, new.status}
              /\ events'[e].attempt_count
                   \in {events[e].attempt_count, new.attempt_count}
<1>1. DOMAIN events' = DOMAIN events
  BY DEF Commit
<1>2. ASSUME NEW e \in DOMAIN events, e # EventOf(q)
      PROVE  events'[e] = events[e]
  BY <1>2 DEF Commit
<1>3. ASSUME NEW e \in DOMAIN events, e = EventOf(q)
      PROVE  /\ events'[e].payload = events[e].payload
             /\ events'[e].status \in {events[e].status, new.status}
             /\ events'[e].attempt_count
                  \in {events[e].attempt_count, new.attempt_count}
  BY <1>3 DEF Commit, Column
<1> QED
  BY <1>1, <1>2, <1>3

(***************************************************************************)
(* Where requests stand: type correctness needs that whoever is past the   *)
(* insert works on an event that is stored, under the id of its payload.   *)
(***************************************************************************)

ReplayStages == {"rollback", "mark_failed", "dead_letter"}

PlacedAt(q) ==
  /\ session[q].at = "insert" =>
       q \in Deliveries /\ session[q].row = NewRow(session[q].row.payload)
  /\ session[q].at # "insert" => EventOf(q) \in DOMAIN events
  /\ session[q].at \in ReplayStages => q \in Replays

Placed == \A q \in DOMAIN session : PlacedAt(q)

Keyed == \A e \in DOMAIN events : IdOf[events[e].payload] = e

Shape == TypeOK /\ Placed /\ Keyed

\* The empty database has the types, and nothing to place or to key.
LEMMA TypeInit == Init => Shape
<1> SUFFICES ASSUME Init PROVE Shape
  OBVIOUS
<1> USE DEF Init
<1>1. TablesOK
  BY DEF TablesOK
<1>2. RequestsOK
  BY DEF RequestsOK
<1>3. CountersOK
  BY DEF CountersOK
<1>4. Placed /\ Keyed
  BY DEF Placed, Keyed
<1> QED
  BY <1>1, <1>2, <1>3, <1>4 DEF Shape, TypeOK

\* Every step, a fault included, keeps the types, what is placed and what is keyed.
LEMMA TypeStep ==
  ASSUME Shape, [Next]_vars
  PROVE  TypeOK'
<1> USE DEF Shape, TypeOK
<1>1. ASSUME NEW d \in Deliveries, NEW p \in Payloads, LookUp(d, p)
      PROVE  TypeOK'
  <2>0. d \in Requests /\ d \notin DOMAIN session \cup DOMAIN reply
    BY <1>1 DEF LookUp, Arrives, Requests
  <2>1. IdOf[p] \in EventIds /\ NewRow(p) \in Row
    BY ConstantsAssumption DEF NewRow, Row, Status
  <2>2. RequestsOK'
    <3>1. CASE Answer(d, IdOf[p], "duplicate")
      BY <2>0, <2>1, <3>1, AnswerType
    <3>2. CASE Open(d, "insert", NewRow(p), {})
      BY <2>0, <2>1, <3>2, OpenType DEF Stage
    <3> QED
      BY <1>1, <3>1, <3>2 DEF LookUp
  <2> QED
    BY <1>1, <2>2 DEF LookUp, tables, tallies, TablesOK, CountersOK
<1>2. ASSUME NEW r \in Replays, NEW e \in EventIds, Load(r, e)
      PROVE  TypeOK'
  <2>0. r \in Requests /\ r \notin DOMAIN session \cup DOMAIN reply
    BY <1>2 DEF Load, Arrives, Requests
  <2>1. e \in DOMAIN events => events[e] \in Row
    BY DEF TablesOK
  <2>2. RequestsOK'
    <3>1. CASE Answer(r, e, "not_found")
      BY <2>0, <3>1, AnswerType
    <3>2. CASE e \in DOMAIN events /\ Open(r, "begin", events[e], {})
      BY <2>0, <2>1, <3>2, OpenType DEF Stage
    <3>3. CASE e \in DOMAIN events /\ Open(r, "dead_letter", events[e], {"replays_exhausted"})
      BY <2>0, <2>1, <3>3, OpenType DEF Stage, Problem
    <3> QED
      BY <1>2, <3>1, <3>2, <3>3 DEF Load
  <2> QED
    BY <1>2, <2>2 DEF Load, tables, tallies, TablesOK, CountersOK
<1>3. ASSUME NEW d \in Requests, Insert(d)
      PROVE  TypeOK'
  <2> DEFINE row == session[d].row
  <2>0. d \in DOMAIN session /\ d \in Requests /\ d \notin DOMAIN reply
    BY <1>3 DEF Insert, At, RequestsOK
  <2>1. row \in Row /\ EventOf(d) \in EventIds
    BY <2>0, EventOfType
  <2>2. CASE events' = Put(events, EventOf(d), row) /\ Goto(d, "begin", row, {})
    <3>1. /\ DOMAIN Put(events, EventOf(d), row) \subseteq EventIds
          /\ Put(events, EventOf(d), row) \in [DOMAIN Put(events, EventOf(d), row) -> Row]
      BY <2>1 DEF Put, TablesOK
    <3>2. RequestsOK'
      BY <2>0, <2>1, <2>2, GotoType DEF Stage
    <3> QED
      BY <1>3, <2>2, <3>1, <3>2 DEF Insert, tallies, TablesOK, CountersOK
  <2>3. CASE Answer(d, EventOf(d), "duplicate") /\ UNCHANGED events
    <3>1. RequestsOK'
      BY <2>0, <2>1, <2>3, AnswerType
    <3> QED
      BY <1>3, <2>3, <3>1 DEF Insert, tallies, TablesOK, CountersOK
  <2> QED
    BY <1>3, <2>2, <2>3 DEF Insert
<1>4. ASSUME NEW q \in Requests, Begin(q)
      PROVE  TypeOK'
  <2> DEFINE new == Begun(session[q].row)
  <2>0. q \in DOMAIN session
    BY <1>4 DEF Begin, At
  <2>1. new \in Row /\ EventOf(q) \in EventIds
    BY <2>0, EventOfType, RowTypes
  <2>2. Commit(q, new) /\ Goto(q, "summarize", new, {})
    BY <1>4 DEF Begin
  <2>3. passes' \in [EventIds -> Nat]
    BY <1>4, <2>1, BumpType DEF Begin, CountersOK
  <2> HIDE DEF new
  <2>4. TablesOK'
    BY <1>4, <2>0, <2>1, <2>2, CommitType DEF Begin, TablesOK
  <2>5. RequestsOK'
    BY <2>0, <2>1, <2>2, GotoType DEF Stage
  <2> QED
    BY <1>4, <2>3, <2>4, <2>5 DEF Begin, CountersOK
<1>5. ASSUME NEW q \in Requests, Summarize(q)
      PROVE  TypeOK'
  <2>0. q \in DOMAIN session /\ session[q].row \in Row
    BY <1>5, EventOfType DEF Summarize, At
  <2>1. RequestsOK'
    <3>1. CASE Goto(q, "notify", session[q].row, {})
      BY <2>0, <3>1, GotoType DEF Stage
    <3>2. CASE Raise(q)
      BY <2>0, <3>2, RaiseType
    <3> QED
      BY <1>5, <3>1, <3>2 DEF Summarize
  <2> QED
    BY <1>5, <2>1 DEF Summarize, tables, tallies, TablesOK, CountersOK
<1>6. ASSUME NEW q \in Requests, Notify(q)
      PROVE  TypeOK'
  <2>0. q \in DOMAIN session /\ session[q].row \in Row /\ EventOf(q) \in EventIds
    BY <1>6, EventOfType DEF Notify, At
  <2>1. RequestsOK'
    <3>1. CASE Goto(q, "sync", session[q].row, {})
      BY <2>0, <3>1, GotoType DEF Stage
    <3>2. CASE Goto(q, "sync", session[q].row, {"notification"})
      BY <2>0, <3>2, GotoType DEF Stage, Problem
    <3> QED
      BY <1>6, <3>1, <3>2 DEF Notify
  <2>2. notified' \in [EventIds -> Nat]
    BY <1>6, <2>0, BumpType DEF Notify, CountersOK
  <2> QED
    BY <1>6, <2>1, <2>2 DEF Notify, tables, TablesOK, CountersOK
<1>7. ASSUME NEW q \in Requests, Sync(q)
      PROVE  TypeOK'
  <2>0. /\ q \in DOMAIN session /\ session[q].row \in Row /\ EventOf(q) \in EventIds
        /\ session[q].problems \in SUBSET Problem
    BY <1>7, EventOfType DEF Sync, At, Session
  <2>1. RequestsOK'
    <3>1. CASE Goto(q, "finish", session[q].row, session[q].problems)
      BY <2>0, <3>1, GotoType DEF Stage
    <3>2. CASE Goto(q, "finish", session[q].row, session[q].problems \cup {"sync"})
      <4>1. session[q].problems \cup {"sync"} \in SUBSET Problem
        BY <2>0 DEF Problem
      <4> QED
        BY <2>0, <3>2, <4>1, GotoType DEF Stage
    <3>3. CASE Raise(q)
      BY <2>0, <3>3, RaiseType
    <3> QED
      BY <1>7, <3>1, <3>2, <3>3 DEF Sync
  <2>2. synced' \in [EventIds -> Nat]
    BY <1>7, <2>0, BumpType DEF Sync, CountersOK
  <2> QED
    BY <1>7, <2>1, <2>2 DEF Sync, tables, TablesOK, CountersOK
<1>8. ASSUME NEW q \in Requests, Finish(q)
      PROVE  TypeOK'
  <2> DEFINE new == Finished(session[q].row, session[q].problems)
  <2>0. /\ q \in DOMAIN session /\ session[q].row \in Row /\ EventOf(q) \in EventIds
        /\ session[q].problems \in SUBSET Problem /\ q \notin DOMAIN reply
    BY <1>8, EventOfType DEF Finish, At, Session, RequestsOK
  <2>1. new \in Row
    BY <2>0, RowTypes
  <2>2. /\ Commit(q, new)
        /\ \/ Goto(q, "dead_letter", new, {"partial_at_limit"})
           \/ Answer(q, EventOf(q), new.status)
    BY <1>8 DEF Finish
  <2>3. inferences' \in [EventIds -> Nat]
    BY <1>8, <2>0, BumpType DEF Finish, CountersOK
  <2> HIDE DEF new
  <2>4. TablesOK'
    BY <1>8, <2>0, <2>1, <2>2, CommitType DEF Finish, TablesOK
  <2>5. RequestsOK'
    <3>1. CASE Goto(q, "dead_letter", new, {"partial_at_limit"})
      BY <2>0, <2>1, <3>1, GotoType DEF Stage, Problem
    <3>2. CASE Answer(q, EventOf(q), new.status)
      <4>1. new.status \in Status
        BY <2>1 DEF Row
      <4> QED
        BY <2>0, <3>2, <4>1, AnswerType
    <3> QED
      BY <2>2, <3>1, <3>2
  <2> QED
    BY <1>8, <2>3, <2>4, <2>5 DEF Finish, tallies, CountersOK
<1>9. ASSUME NEW r \in Requests, Rollback(r)
      PROVE  TypeOK'
  <2>0. r \in DOMAIN session /\ EventOf(r) \in DOMAIN events
    BY <1>9 DEF Rollback, At, Placed, PlacedAt
  <2>1. events[EventOf(r)] \in Row
    BY <2>0 DEF TablesOK
  <2>2. RequestsOK'
    BY <1>9, <2>0, <2>1, GotoType DEF Rollback, Stage
  <2> QED
    BY <1>9, <2>2 DEF Rollback, tables, tallies, TablesOK, CountersOK
<1>10. ASSUME NEW r \in Requests, MarkFailed(r)
       PROVE  TypeOK'
  <2> DEFINE new == [session[r].row EXCEPT !.status = "failed",
                                           !.error_message = {"processing_failed"}]
  <2>0. /\ r \in DOMAIN session /\ session[r].row \in Row /\ EventOf(r) \in EventIds
        /\ r \notin DOMAIN reply
    BY <1>10, EventOfType DEF MarkFailed, At, RequestsOK
  <2>1. new \in Row
    BY <2>0, RowTypes DEF Problem
  <2>2. /\ Commit(r, new)
        /\ \/ Goto(r, "dead_letter", new, {"processing_failed"})
           \/ Answer(r, EventOf(r), "failed")
    BY <1>10 DEF MarkFailed
  <2> HIDE DEF new
  <2>4. TablesOK'
    BY <1>10, <2>0, <2>1, <2>2, CommitType DEF MarkFailed, TablesOK
  <2>5. RequestsOK'
    <3>1. CASE Goto(r, "dead_letter", new, {"processing_failed"})
      BY <2>0, <2>1, <3>1, GotoType DEF Stage, Problem
    <3>2. CASE Answer(r, EventOf(r), "failed")
      BY <2>0, <3>2, AnswerType DEF Status
    <3> QED
      BY <2>2, <3>1, <3>2
  <2> QED
    BY <1>10, <2>4, <2>5 DEF MarkFailed, tallies, CountersOK
<1>11. ASSUME NEW r \in Requests, DeadLetter(r)
       PROVE  TypeOK'
  <2> DEFINE e      == EventOf(r)
             reason == session[r].problems
             new    == [session[r].row EXCEPT !.status = "dead_lettered",
                                              !.error_message = reason]
             record == [reason |-> reason, replay_attempts |-> new.attempt_count]
  <2>0. /\ r \in DOMAIN session /\ session[r].row \in Row /\ e \in EventIds
        /\ r \notin DOMAIN reply /\ reason \in SUBSET Problem
    BY <1>11, EventOfType DEF DeadLetter, At, RequestsOK, Session
  <2>1. new \in Row
    BY <2>0, RowTypes
  <2>2. record \in DeadLetterRecord
    BY <2>0, <2>1 DEF DeadLetterRecord, Row
  <2>3. /\ Commit(r, new)
        /\ dead_letters' = Buried(e, record)
        /\ Answer(r, e, "dead_lettered")
    BY <1>11 DEF DeadLetter
  <2> HIDE DEF new, record
  <2>4. DOMAIN events' = DOMAIN events /\ events' \in [DOMAIN events -> Row]
    BY <2>0, <2>1, <2>3, CommitType
  <2>5. /\ DOMAIN dead_letters' \subseteq EventIds
        /\ dead_letters' \in [DOMAIN dead_letters' -> DeadLetterRecord]
    BY <2>0, <2>2, <2>3 DEF Buried, Put, TablesOK
  <2>6. RequestsOK'
    BY <2>0, <2>3, AnswerType DEF Status
  <2> QED
    BY <1>11, <2>4, <2>5, <2>6 DEF DeadLetter, tallies, TablesOK, CountersOK
<1>12. ASSUME NEW q \in Requests, DatabaseError(q)
       PROVE  TypeOK'
  <2>0. /\ q \in DOMAIN session /\ q \notin DOMAIN reply
        /\ EventOf(q) \in EventIds
    BY <1>12, EventOfType DEF DatabaseError, At, RequestsOK
  <2>1. RequestsOK'
    <3>1. CASE Raise(q)
      BY <2>0, <3>1, RaiseType
    <3>2. CASE Answer(q, EventOf(q), "error")
      BY <2>0, <3>2, AnswerType
    <3> QED
      BY <1>12, <3>1, <3>2 DEF DatabaseError
  <2> QED
    BY <1>12, <2>1 DEF DatabaseError, tables, tallies, TablesOK, CountersOK
<1>13. CASE Crash
  <2>1. session' \in [DOMAIN session' -> Session]
    BY <1>13 DEF Crash, Restrict, RequestsOK
  <2>2. ASSUME NEW q \in DOMAIN session
        PROVE  [status |-> "lost", event |-> EventOf(q)] \in Receipt
    BY <2>2, EventOfType DEF Receipt
  <2>3. reply' \in [DOMAIN reply' -> Receipt]
    BY <1>13, <2>2 DEF Crash, RequestsOK
  <2>4. RequestsOK'
    BY <1>13, <2>1, <2>3, CrashFacts DEF RequestsOK
  <2> QED
    BY <1>13, <2>4 DEF Crash, tables, tallies, TablesOK, CountersOK
<1>14. CASE UNCHANGED vars
  BY <1>14 DEF vars, tables, tallies, TablesOK, RequestsOK, CountersOK
<1> QED
  BY <1>1, <1>2, <1>3, <1>4, <1>5, <1>6, <1>7, <1>8, <1>9, <1>10, <1>11, <1>12,
     <1>13, <1>14 DEF Next, Arrival, Advance, Fault

(***************************************************************************)
(* The inductive invariant.  The properties need, besides Shape, what a    *)
(* request knows from the steps behind it, which no other request can undo *)
(* since tables and counters only grow.                                    *)
(***************************************************************************)

Knows(q) ==
  LET s == session[q]
      e == EventOf(q)
  IN  /\ s.row.attempt_count <= MaxAttempts
      /\ s.row.attempt_count <= passes[e]
      /\ s.at = "begin" => s.row.attempt_count < MaxAttempts
      /\ s.at = "dead_letter" => s.row.attempt_count = MaxAttempts
      /\ s.at \in {"sync", "finish"} /\ s.problems = {} => notified[e] > 0
      /\ s.at = "finish" /\ s.problems = {} => synced[e] > 0

RequestsKnow == \A q \in DOMAIN session : Knows(q)

\* Events are never removed nor given another payload, records are never removed
\* nor changed, and no counter goes down.
Grown ==
  /\ \A e \in DOMAIN events :
       e \in DOMAIN events' /\ events'[e].payload = events[e].payload
  /\ \A e \in DOMAIN dead_letters :
       e \in DOMAIN dead_letters' /\ dead_letters'[e] = dead_letters[e]
  /\ \A e \in EventIds :
       /\ passes'[e] >= passes[e]
       /\ notified'[e] >= notified[e]
       /\ synced'[e] >= synced[e]
       /\ inferences'[e] >= inferences[e]

\* No step removes an event or a record, or takes a counter down.
LEMMA GrownStep ==
  ASSUME Shape, [Next]_vars
  PROVE  Grown
<1> USE DEF Shape, TypeOK
<1>0. \A e \in EventIds : /\ passes[e] \in Nat /\ notified[e] \in Nat
                          /\ synced[e] \in Nat /\ inferences[e] \in Nat
  BY DEF CountersOK
<1>1. ASSUME UNCHANGED <<tables, tallies>>
      PROVE  Grown
  BY <1>0, <1>1 DEF Grown, tables, tallies
<1>2. ASSUME NEW d \in Requests, Insert(d)
      PROVE  Grown
  <2>1. CASE UNCHANGED events
    BY <1>0, <1>2, <2>1 DEF Insert, Grown, tallies
  <2>2. CASE /\ ~UniqueViolation(session[d].row.payload)
             /\ events' = Put(events, EventOf(d), session[d].row)
    <3>1. EventOf(d) \notin DOMAIN events
      BY <2>2 DEF UniqueViolation, EventOf
    <3> QED
      BY <1>0, <1>2, <2>2, <3>1 DEF Insert, Grown, Put, tallies
  <2> QED
    BY <1>2, <2>1, <2>2 DEF Insert
<1>3. ASSUME NEW q \in Requests, Begin(q)
      PROVE  Grown
  <2>1. q \in DOMAIN session /\ EventOf(q) \in EventIds
    BY <1>3, EventOfType DEF Begin, At
  <2>2. Commit(q, Begun(session[q].row))
    BY <1>3 DEF Begin
  <2>3. \A e \in EventIds : passes'[e] >= passes[e]
    BY <1>3, <2>1, BumpType DEF Begin, CountersOK
  <2> QED
    BY <1>0, <1>3, <2>1, <2>2, <2>3, CommitFacts DEF Begin, Grown
<1>4. ASSUME NEW q \in Requests, Notify(q)
      PROVE  Grown
  <2>1. q \in DOMAIN session /\ EventOf(q) \in EventIds
    BY <1>4, EventOfType DEF Notify, At
  <2>2. \A e \in EventIds : notified'[e] >= notified[e]
    BY <1>0, <1>4, <2>1, BumpType DEF Notify, CountersOK
  <2> QED
    BY <1>0, <1>4, <2>2 DEF Notify, Grown, tables
<1>5. ASSUME NEW q \in Requests, Sync(q)
      PROVE  Grown
  <2>1. q \in DOMAIN session /\ EventOf(q) \in EventIds
    BY <1>5, EventOfType DEF Sync, At
  <2>2. \A e \in EventIds : synced'[e] >= synced[e]
    BY <1>0, <1>5, <2>1, BumpType DEF Sync, CountersOK
  <2> QED
    BY <1>0, <1>5, <2>2 DEF Sync, Grown, tables
<1>6. ASSUME NEW q \in Requests, Finish(q)
      PROVE  Grown
  <2>1. q \in DOMAIN session /\ EventOf(q) \in EventIds
    BY <1>6, EventOfType DEF Finish, At
  <2>2. Commit(q, Finished(session[q].row, session[q].problems))
    BY <1>6 DEF Finish
  <2>3. \A e \in EventIds : inferences'[e] >= inferences[e]
    BY <1>6, <2>1, BumpType DEF Finish, CountersOK
  <2> QED
    BY <1>0, <1>6, <2>1, <2>2, <2>3, CommitFacts DEF Finish, Grown, tallies
<1>7. ASSUME NEW r \in Requests, MarkFailed(r)
      PROVE  Grown
  <2>1. r \in DOMAIN session
    BY <1>7 DEF MarkFailed, At
  <2> QED
    BY <1>0, <1>7, <2>1, CommitFacts DEF MarkFailed, Grown, tallies
<1>8. ASSUME NEW r \in Requests, DeadLetter(r)
      PROVE  Grown
  <2>1. r \in DOMAIN session
    BY <1>8 DEF DeadLetter, At
  <2>2. PICK record : dead_letters' = Buried(EventOf(r), record)
    BY <1>8 DEF DeadLetter
  <2>3. \A e \in DOMAIN dead_letters :
          e \in DOMAIN dead_letters' /\ dead_letters'[e] = dead_letters[e]
    BY <2>2 DEF Buried, Put
  <2> QED
    BY <1>0, <1>8, <2>1, <2>3, CommitFacts DEF DeadLetter, Grown, tallies
<1>9. ASSUME NEW q \in Requests,
             Summarize(q) \/ Rollback(q) \/ DatabaseError(q)
      PROVE  Grown
  BY <1>1, <1>9 DEF Summarize, Rollback, DatabaseError
<1>10. CASE Arrival \/ Crash
  BY <1>1, <1>10 DEF Arrival, LookUp, Load, Crash
<1>11. CASE UNCHANGED vars
  BY <1>1, <1>11 DEF vars
<1> QED
  BY <1>2, <1>3, <1>4, <1>5, <1>6, <1>7, <1>8, <1>9, <1>10, <1>11
     DEF Next, Advance, Fault

\* An event is stored under the id of its payload, and the payload never changes.
LEMMA KeyedStep ==
  ASSUME Shape, [Next]_vars
  PROVE  Keyed'
<1> USE DEF Shape, TypeOK
<1>1. ASSUME NEW d \in Requests, Insert(d)
      PROVE  Keyed'
  BY <1>1 DEF Insert, Keyed, Put, EventOf
<1>2. ASSUME DOMAIN events' = DOMAIN events
      PROVE  Keyed'
  BY <1>2, GrownStep DEF Grown, Keyed
<1>3. ASSUME NEW q \in Requests,
             \/ Begin(q) \/ Finish(q) \/ MarkFailed(q) \/ DeadLetter(q)
      PROVE  DOMAIN events' = DOMAIN events
  BY <1>3 DEF Begin, Finish, MarkFailed, DeadLetter, Commit
<1>4. ASSUME NEW q \in Requests,
             Summarize(q) \/ Notify(q) \/ Sync(q) \/ Rollback(q) \/ DatabaseError(q)
      PROVE  DOMAIN events' = DOMAIN events
  BY <1>4 DEF Summarize, Notify, Sync, Rollback, DatabaseError, tables
<1>5. CASE Arrival \/ Crash \/ UNCHANGED vars
  BY <1>2, <1>5 DEF Arrival, LookUp, Load, Crash, vars, tables
<1> QED
  BY <1>1, <1>2, <1>3, <1>4, <1>5 DEF Next, Advance, Fault

\* What a request knows is not undone while it waits.
LEMMA KnowsWhileWaiting ==
  ASSUME Shape, RequestsKnow, Grown, TypeOK',
         NEW q \in DOMAIN session, session'[q] = session[q]
  PROVE  PlacedAt(q)' /\ Knows(q)'
<1>1. EventOf(q)' = EventOf(q) /\ EventOf(q) \in EventIds
  BY EventOfType DEF EventOf, Shape, TypeOK
<1>2. PlacedAt(q)'
  BY <1>1 DEF Grown, Shape, Placed, PlacedAt
<1>3. /\ session[q].row.attempt_count \in Nat
      /\ passes[EventOf(q)] \in Nat /\ passes'[EventOf(q)] \in Nat
      /\ notified[EventOf(q)] \in Nat /\ notified'[EventOf(q)] \in Nat
      /\ synced[EventOf(q)] \in Nat /\ synced'[EventOf(q)] \in Nat
  BY <1>1, EventOfType DEF Shape, TypeOK, CountersOK, Row
<1>4. /\ passes'[EventOf(q)] >= passes[EventOf(q)]
      /\ notified'[EventOf(q)] >= notified[EventOf(q)]
      /\ synced'[EventOf(q)] >= synced[EventOf(q)]
  BY <1>1 DEF Grown
<1>5. Knows(q)
  BY DEF RequestsKnow
<1>6. MaxAttempts \in Nat
  BY ConstantsAssumption
<1>7. Knows(q)'
  BY <1>1, <1>3, <1>4, <1>5, <1>6 DEF Knows
<1> QED
  BY <1>2, <1>7

\* Only the request that acts changes its session, and it knows what it needs.
Moves(q) ==
  /\ \A r \in DOMAIN session' :
       r # q => r \in DOMAIN session /\ session'[r] = session[r]
  /\ q \in DOMAIN session' => PlacedAt(q)' /\ Knows(q)'

\* A request that ends has nothing left to know.
LEMMA AnswerMoves ==
  ASSUME RequestsOK, NEW q, q \notin DOMAIN reply,
         NEW e, NEW status, Answer(q, e, status)
  PROVE  Moves(q)
<1>1. /\ DOMAIN session' = DOMAIN session \ {q}
      /\ \A r \in DOMAIN session' : session'[r] = session[r]
  BY AnswerFacts
<1> QED
  BY <1>1 DEF Moves

\* A request that goes to a stage knows what the stage asks, when it keeps to
\* its event.
LEMMA GotoMoves ==
  ASSUME RequestsOK, NEW q \in DOMAIN session,
         NEW stage, NEW row, NEW problems, Goto(q, stage, row, problems),
         stage # "insert",
         IdOf[row.payload] = EventOf(q),
         EventOf(q) \in DOMAIN events',
         stage \in ReplayStages => q \in Replays,
         row.attempt_count <= MaxAttempts,
         row.attempt_count <= passes'[EventOf(q)],
         stage = "begin" => row.attempt_count < MaxAttempts,
         stage = "dead_letter" => row.attempt_count = MaxAttempts,
         stage \in {"sync", "finish"} /\ problems = {} => notified'[EventOf(q)] > 0,
         stage = "finish" /\ problems = {} => synced'[EventOf(q)] > 0
  PROVE  Moves(q)
<1>1. /\ DOMAIN session' = DOMAIN session
      /\ session'[q] = [at |-> stage, row |-> row, problems |-> problems]
      /\ \A r \in DOMAIN session : r # q => session'[r] = session[r]
  BY GotoFacts
<1>2. EventOf(q)' = EventOf(q)
  BY <1>1 DEF EventOf
<1>3. PlacedAt(q)'
  BY <1>1, <1>2 DEF PlacedAt
<1>4. Knows(q)'
  BY <1>1, <1>2 DEF Knows
<1> QED
  BY <1>1, <1>3, <1>4 DEF Moves

\* Answering an exception keeps what is known.
LEMMA RaiseMoves ==
  ASSUME Shape, RequestsKnow, NEW q \in DOMAIN session, Raise(q),
         UNCHANGED <<tables, tallies>>, session[q].at # "insert"
  PROVE  Moves(q)
<1>0. q \notin DOMAIN reply
  BY DEF Shape, TypeOK, RequestsOK
<1>1. CASE Answer(q, EventOf(q), "error")
  BY <1>0, <1>1, AnswerMoves DEF Shape, TypeOK
<1>2. CASE q \in Replays /\ Goto(q, "rollback", session[q].row, {})
  <2>1. IdOf[session[q].row.payload] = EventOf(q) /\ EventOf(q) \in DOMAIN events'
    BY DEF EventOf, Shape, Placed, PlacedAt, tables
  <2>2. /\ session[q].row.attempt_count <= MaxAttempts
        /\ session[q].row.attempt_count <= passes'[EventOf(q)]
    BY DEF RequestsKnow, Knows, tallies
  <2> QED
    BY <1>2, <2>1, <2>2, GotoMoves DEF Shape, TypeOK
<1> QED
  BY <1>1, <1>2 DEF Raise

\* Every step leaves every request in flight with what its stage must know.
LEMMA KnowsStep ==
  ASSUME Shape, RequestsKnow, AttemptsBounded, [Next]_vars
  PROVE  Placed' /\ RequestsKnow'
<1> USE DEF Shape, TypeOK
<1>0. MaxAttempts \in Nat /\ MaxAttempts >= 1
  BY ConstantsAssumption
<1>a. ASSUME NEW q \in DOMAIN session
      PROVE  /\ q \notin DOMAIN reply
             /\ session[q].row \in Row /\ session[q].row.attempt_count \in Nat
             /\ EventOf(q) \in EventIds
             /\ IdOf[session[q].row.payload] = EventOf(q)
             /\ passes[EventOf(q)] \in Nat /\ notified[EventOf(q)] \in Nat
             /\ synced[EventOf(q)] \in Nat
             /\ PlacedAt(q) /\ Knows(q)
  BY <1>a, EventOfType DEF RequestsOK, CountersOK, Row, EventOf, Placed, RequestsKnow
<1>1. ASSUME NEW d \in Deliveries, NEW p \in Payloads, LookUp(d, p)
      PROVE  Moves(d)
  <2>0. d \notin DOMAIN session /\ d \notin DOMAIN reply
    BY <1>1 DEF LookUp, Arrives
  <2>1. CASE Answer(d, IdOf[p], "duplicate")
    BY <2>0, <2>1, AnswerMoves
  <2>2. CASE Open(d, "insert", NewRow(p), {})
    <3>1. /\ DOMAIN session' = DOMAIN session \cup {d}
          /\ session'[d] = [at |-> "insert", row |-> NewRow(p), problems |-> {}]
          /\ \A r \in DOMAIN session : session'[r] = session[r]
      BY <2>0, <2>2, OpenFacts
    <3>2. PlacedAt(d)'
      BY <3>1 DEF PlacedAt, NewRow, ReplayStages
    <3>3. /\ EventOf(d)' \in EventIds
          /\ session'[d].row.attempt_count = 0
      BY <3>1, ConstantsAssumption DEF EventOf, NewRow
    <3>4. passes' = passes
      BY <1>1 DEF LookUp, tallies
    <3>5. passes'[EventOf(d)'] \in Nat
      BY <3>3, <3>4 DEF CountersOK
    <3>6. Knows(d)'
      BY <1>0, <3>1, <3>3, <3>5 DEF Knows
    <3> QED
      BY <3>1, <3>2, <3>6 DEF Moves
  <2> QED
    BY <1>1, <2>1, <2>2 DEF LookUp
<1>2. ASSUME NEW r \in Replays, NEW e \in EventIds, Load(r, e)
      PROVE  Moves(r)
  <2>0. r \notin DOMAIN session /\ r \notin DOMAIN reply
    BY <1>2 DEF Load, Arrives
  <2>1. CASE Answer(r, e, "not_found")
    BY <2>0, <2>1, AnswerMoves
  <2>2. ASSUME NEW stage \in {"begin", "dead_letter"}, NEW problems,
               e \in DOMAIN events, Open(r, stage, events[e], problems),
               stage = "begin" => ~Spent(events[e]),
               stage = "dead_letter" => Spent(events[e])
        PROVE  Moves(r)
    <3>1. /\ DOMAIN session' = DOMAIN session \cup {r}
          /\ session'[r] = [at |-> stage, row |-> events[e], problems |-> problems]
          /\ \A q \in DOMAIN session : session'[q] = session[q]
      BY <2>0, <2>2, OpenFacts
    <3>2. events' = events /\ passes' = passes
      BY <1>2 DEF Load, tables, tallies
    <3>3. EventOf(r)' = e
      BY <2>2, <3>1 DEF EventOf, Keyed
    <3>4. PlacedAt(r)'
      BY <2>2, <3>1, <3>2, <3>3 DEF PlacedAt
    <3>5. /\ events[e].attempt_count \in Nat
          /\ events[e].attempt_count <= MaxAttempts
          /\ events[e].attempt_count <= passes[e]
      BY <2>2 DEF AttemptsBounded, TablesOK, Row
    <3>6. Knows(r)'
      BY <1>0, <2>2, <3>1, <3>2, <3>3, <3>5 DEF Knows, Spent
    <3> QED
      BY <3>1, <3>4, <3>6 DEF Moves
  <2> QED
    BY <1>2, <2>1, <2>2 DEF Load
<1>3. ASSUME NEW d \in Requests, Insert(d)
      PROVE  Moves(d)
  <2>0. d \in DOMAIN session /\ session[d].at = "insert"
    BY <1>3 DEF Insert, At
  <2>1. CASE Answer(d, EventOf(d), "duplicate")
    BY <1>a, <2>0, <2>1, AnswerMoves
  <2>2. CASE /\ events' = Put(events, EventOf(d), session[d].row)
             /\ Goto(d, "begin", session[d].row, {})
    <3>1. EventOf(d) \in DOMAIN events'
      BY <2>2 DEF Put
    <3>2. session[d].row.attempt_count = 0
      <4>1. session[d].row = NewRow(session[d].row.payload)
        BY <1>a, <2>0 DEF PlacedAt
      <4>2. \A p : NewRow(p).attempt_count = 0
        BY DEF NewRow
      <4> QED
        BY <4>1, <4>2
    <3>3. passes' = passes
      BY <1>3 DEF Insert, tallies
    <3>4. /\ session[d].row.attempt_count < MaxAttempts
          /\ session[d].row.attempt_count <= MaxAttempts
          /\ session[d].row.attempt_count <= passes'[EventOf(d)]
      BY <1>0, <1>a, <2>0, <3>2, <3>3
    <3>5. IdOf[session[d].row.payload] = EventOf(d)
      BY <1>a, <2>0
    <3> QED
      BY <2>0, <2>2, <3>1, <3>4, <3>5, GotoMoves DEF ReplayStages
  <2> QED
    BY <1>3, <2>1, <2>2 DEF Insert
<1>4. ASSUME NEW q \in Requests, Begin(q)
      PROVE  Moves(q)
  <2> DEFINE new == Begun(session[q].row)
  <2>0. q \in DOMAIN session /\ session[q].at = "begin"
    BY <1>4 DEF Begin, At
  <2>1. Commit(q, new) /\ Goto(q, "summarize", new, {})
    BY <1>4 DEF Begin
  <2>2. /\ new.payload = session[q].row.payload
        /\ new.attempt_count = session[q].row.attempt_count + 1
    BY <1>a, <2>0 DEF Begun, Row
  <2>3. /\ passes'[EventOf(q)] = passes[EventOf(q)] + 1
        /\ session[q].row.attempt_count <= passes[EventOf(q)]
        /\ session[q].row.attempt_count < MaxAttempts
    BY <1>4, <1>a, <2>0, BumpType DEF Begin, CountersOK, Knows
  <2> HIDE DEF new
  <2>4. EventOf(q) \in DOMAIN events'
    BY <1>a, <2>0, <2>1, CommitFacts DEF PlacedAt
  <2>5. /\ new.attempt_count <= MaxAttempts
        /\ new.attempt_count <= passes'[EventOf(q)]
    BY <1>0, <1>a, <2>0, <2>2, <2>3
  <2> QED
    BY <1>a, <2>0, <2>1, <2>2, <2>4, <2>5, GotoMoves DEF ReplayStages
<1>5. ASSUME NEW q \in Requests, Summarize(q)
      PROVE  Moves(q)
  <2>0. q \in DOMAIN session /\ session[q].at = "summarize"
    BY <1>5 DEF Summarize, At
  <2>1. CASE Goto(q, "notify", session[q].row, {})
    <3>1. events' = events /\ passes' = passes
      BY <1>5 DEF Summarize, tables, tallies
    <3>2. EventOf(q) \in DOMAIN events'
      BY <1>a, <2>0, <3>1 DEF PlacedAt
    <3>3. /\ session[q].row.attempt_count <= MaxAttempts
          /\ session[q].row.attempt_count <= passes'[EventOf(q)]
      BY <1>a, <2>0, <3>1 DEF Knows
    <3> QED
      BY <1>a, <2>0, <2>1, <3>2, <3>3, GotoMoves DEF ReplayStages
  <2>2. CASE Raise(q)
    BY <1>5, <2>0, <2>2, RaiseMoves DEF Summarize
  <2> QED
    BY <1>5, <2>1, <2>2 DEF Summarize
<1>6. ASSUME NEW q \in Requests, Notify(q)
      PROVE  Moves(q)
  <2>0. q \in DOMAIN session /\ session[q].at = "notify"
    BY <1>6 DEF Notify, At
  <2>1. events' = events /\ passes' = passes
    BY <1>6 DEF Notify, tables
  <2>2. EventOf(q) \in DOMAIN events'
    BY <1>a, <2>0, <2>1 DEF PlacedAt
  <2>3. /\ session[q].row.attempt_count <= MaxAttempts
        /\ session[q].row.attempt_count <= passes'[EventOf(q)]
    BY <1>a, <2>0, <2>1 DEF Knows
  <2>4. CASE Goto(q, "sync", session[q].row, {}) /\ notified' = Bump(notified, EventOf(q))
    <3>1. notified'[EventOf(q)] > 0
      BY <1>a, <2>0, <2>4, BumpType DEF CountersOK
    <3> QED
      BY <1>a, <2>0, <2>2, <2>3, <2>4, <3>1, GotoMoves DEF ReplayStages
  <2>5. CASE Goto(q, "sync", session[q].row, {"notification"})
    BY <1>a, <2>0, <2>2, <2>3, <2>5, GotoMoves DEF ReplayStages
  <2> QED
    BY <1>6, <2>4, <2>5 DEF Notify
<1>7. ASSUME NEW q \in Requests, Sync(q)
      PROVE  Moves(q)
  <2>0. q \in DOMAIN session /\ session[q].at = "sync"
    BY <1>7 DEF Sync, At
  <2>1. events' = events /\ passes' = passes /\ notified' = notified
    BY <1>7 DEF Sync, tables
  <2>2. EventOf(q) \in DOMAIN events'
    BY <1>a, <2>0, <2>1 DEF PlacedAt
  <2>3. /\ session[q].row.attempt_count <= MaxAttempts
        /\ session[q].row.attempt_count <= passes'[EventOf(q)]
        /\ session[q].problems = {} => notified'[EventOf(q)] > 0
    BY <1>a, <2>0, <2>1 DEF Knows
  <2>4. CASE Goto(q, "finish", session[q].row, session[q].problems)
             /\ synced' = Bump(synced, EventOf(q))
    <3>1. synced'[EventOf(q)] > 0
      BY <1>a, <2>0, <2>4, BumpType DEF CountersOK
    <3> QED
      BY <1>a, <2>0, <2>2, <2>3, <2>4, <3>1, GotoMoves DEF ReplayStages
  <2>5. CASE Goto(q, "finish", session[q].row, session[q].problems \cup {"sync"})
    <3>1. session[q].problems \cup {"sync"} # {}
      OBVIOUS
    <3> QED
      BY <1>a, <2>0, <2>2, <2>3, <2>5, <3>1, GotoMoves DEF ReplayStages
  <2>6. CASE Raise(q) /\ UNCHANGED synced
    BY <1>7, <2>0, <2>6, RaiseMoves DEF Sync, tallies
  <2> QED
    BY <1>7, <2>4, <2>5, <2>6 DEF Sync
<1>8. ASSUME NEW q \in Requests, Finish(q)
      PROVE  Moves(q)
  <2> DEFINE new == Finished(session[q].row, session[q].problems)
  <2>0. q \in DOMAIN session /\ session[q].at = "finish"
    BY <1>8 DEF Finish, At
  <2>1. /\ Commit(q, new) /\ passes' = passes
        /\ \/ /\ q \in Replays /\ Spent(new)
              /\ Goto(q, "dead_letter", new, {"partial_at_limit"})
           \/ Answer(q, EventOf(q), new.status)
    BY <1>8 DEF Finish, tallies
  <2>2. /\ new.payload = session[q].row.payload
        /\ new.attempt_count = session[q].row.attempt_count
    BY <1>a, <2>0 DEF Finished, Row
  <2> HIDE DEF new
  <2>3. EventOf(q) \in DOMAIN events'
    BY <1>a, <2>0, <2>1, CommitFacts DEF PlacedAt
  <2>4. /\ new.attempt_count \in Nat /\ new.attempt_count <= MaxAttempts
        /\ new.attempt_count <= passes'[EventOf(q)]
    BY <1>a, <2>0, <2>1, <2>2 DEF Knows
  <2>5. CASE Answer(q, EventOf(q), new.status)
    BY <1>a, <2>0, <2>5, AnswerMoves
  <2>6. CASE /\ q \in Replays /\ Spent(new)
             /\ Goto(q, "dead_letter", new, {"partial_at_limit"})
    <3>1. new.attempt_count = MaxAttempts
      BY <1>0, <2>4, <2>6 DEF Spent
    <3> QED
      BY <1>a, <2>0, <2>2, <2>3, <2>4, <2>6, <3>1, GotoMoves
  <2> QED
    BY <2>1, <2>5, <2>6
<1>9. ASSUME NEW r \in Requests, Rollback(r)
      PROVE  Moves(r)
  <2>0. r \in DOMAIN session /\ session[r].at = "rollback"
    BY <1>9 DEF Rollback, At
  <2>1. /\ events' = events /\ passes' = passes
        /\ Goto(r, "mark_failed", events[EventOf(r)], {})
    BY <1>9 DEF Rollback, tables, tallies
  <2>2. EventOf(r) \in DOMAIN events /\ r \in Replays
    BY <1>a, <2>0 DEF PlacedAt, ReplayStages
  <2>3. /\ IdOf[events[EventOf(r)].payload] = EventOf(r)
        /\ events[EventOf(r)].attempt_count <= MaxAttempts
        /\ events[EventOf(r)].attempt_count <= passes'[EventOf(r)]
    BY <2>1, <2>2 DEF Keyed, AttemptsBounded
  <2> QED
    BY <1>a, <2>0, <2>1, <2>2, <2>3, GotoMoves
<1>10. ASSUME NEW r \in Requests, MarkFailed(r)
       PROVE  Moves(r)
  <2> DEFINE new == [session[r].row EXCEPT !.status = "failed",
                                           !.error_message = {"processing_failed"}]
  <2>0. r \in DOMAIN session /\ session[r].at = "mark_failed"
    BY <1>10 DEF MarkFailed, At
  <2>1. /\ Commit(r, new) /\ passes' = passes
        /\ \/ Spent(new) /\ Goto(r, "dead_letter", new, {"processing_failed"})
           \/ Answer(r, EventOf(r), "failed")
    BY <1>10 DEF MarkFailed, tallies
  <2>2. /\ new.payload = session[r].row.payload
        /\ new.attempt_count = session[r].row.attempt_count
    BY <1>a, <2>0 DEF Row
  <2> HIDE DEF new
  <2>3. EventOf(r) \in DOMAIN events' /\ r \in Replays
    BY <1>a, <2>0, <2>1, CommitFacts DEF PlacedAt, ReplayStages
  <2>4. /\ new.attempt_count \in Nat /\ new.attempt_count <= MaxAttempts
        /\ new.attempt_count <= passes'[EventOf(r)]
    BY <1>a, <2>0, <2>1, <2>2 DEF Knows
  <2>5. CASE Answer(r, EventOf(r), "failed")
    BY <1>a, <2>0, <2>5, AnswerMoves
  <2>6. CASE Spent(new) /\ Goto(r, "dead_letter", new, {"processing_failed"})
    <3>1. new.attempt_count = MaxAttempts
      BY <1>0, <2>4, <2>6 DEF Spent
    <3> QED
      BY <1>a, <2>0, <2>2, <2>3, <2>4, <2>6, <3>1, GotoMoves
  <2> QED
    BY <2>1, <2>5, <2>6
<1>11. ASSUME NEW r \in Requests, DeadLetter(r)
       PROVE  Moves(r)
  BY <1>a, <1>11, AnswerMoves DEF DeadLetter, At
<1>12. ASSUME NEW q \in Requests, DatabaseError(q)
       PROVE  Moves(q)
  <2>0. q \in DOMAIN session
    BY <1>12 DEF DatabaseError, At
  <2>1. CASE (At(q, "begin") \/ At(q, "finish")) /\ Raise(q)
    BY <1>12, <2>0, <2>1, RaiseMoves DEF DatabaseError, At
  <2>2. CASE Answer(q, EventOf(q), "error")
    BY <1>a, <2>0, <2>2, AnswerMoves
  <2> QED
    BY <1>12, <2>1, <2>2 DEF DatabaseError
<1>13. ASSUME NEW q, Moves(q)
       PROVE  Placed' /\ RequestsKnow'
  <2>1. ASSUME NEW r \in DOMAIN session', r # q
        PROVE  PlacedAt(r)' /\ Knows(r)'
    BY <1>13, <2>1, GrownStep, TypeStep, KnowsWhileWaiting DEF Moves
  <2> QED
    BY <1>13, <2>1 DEF Moves, Placed, RequestsKnow
<1>14. CASE Crash
  <2>1. ASSUME NEW r \in DOMAIN session'
        PROVE  PlacedAt(r)' /\ Knows(r)'
    <3>1. r \in DOMAIN session /\ session'[r] = session[r]
      BY <1>14, <2>1, CrashFacts DEF Shape, TypeOK
    <3> QED
      BY <1>14, <3>1, GrownStep, TypeStep, KnowsWhileWaiting
  <2> QED
    BY <2>1 DEF Placed, RequestsKnow
<1>15. CASE UNCHANGED vars
  <2>1. ASSUME NEW r \in DOMAIN session
        PROVE  PlacedAt(r)' /\ Knows(r)'
    BY <1>15, <2>1, GrownStep, TypeStep, KnowsWhileWaiting DEF vars
  <2> QED
    BY <1>15, <2>1 DEF vars, Placed, RequestsKnow
<1> QED
  BY <1>1, <1>2, <1>3, <1>4, <1>5, <1>6, <1>7, <1>8, <1>9, <1>10, <1>11, <1>12,
     <1>13, <1>14, <1>15 DEF Next, Arrival, Advance, Fault

(***************************************************************************)
(* Receipts: what a new one may claim.                                     *)
(***************************************************************************)

Handled == {"completed", "partially_completed"}

NewReceipt(q) ==
  LET m == reply'[q]
  IN  \/ m.status \in {"not_found", "error", "lost"}
      \/ /\ m.event \in DOMAIN events'
         /\ m.status \in Handled =>
              At(q, "finish") /\ m.event = EventOf(q)
         /\ m.status = "completed" =>
              session[q].problems = {} /\ inferences'[m.event] > 0

\* Only the request that ends gets a receipt, and the receipt is true.
Receipts == \A q \in DOMAIN reply' :
  (q \in DOMAIN reply /\ reply'[q] = reply[q]) \/ NewReceipt(q)

\* Answering a request adds its receipt and no other.
LEMMA AnswerReceipts ==
  ASSUME RequestsOK, NEW q, q \notin DOMAIN reply,
         NEW e, NEW status, Answer(q, e, status),
         \/ status \in {"not_found", "error", "lost"}
         \/ /\ e \in DOMAIN events'
            /\ status \in Handled => At(q, "finish") /\ e = EventOf(q)
            /\ status = "completed" => session[q].problems = {} /\ inferences'[e] > 0
  PROVE  Receipts
<1>1. /\ DOMAIN reply' = DOMAIN reply \cup {q}
      /\ reply'[q] = [status |-> status, event |-> e]
      /\ \A r \in DOMAIN reply : reply'[r] = reply[r]
  BY AnswerFacts
<1>2. NewReceipt(q)
  BY <1>1 DEF NewReceipt
<1> QED
  BY <1>1, <1>2 DEF Receipts

\* Every receipt a step adds was justified before it.
LEMMA ReceiptsStep ==
  ASSUME Shape, [Next]_vars
  PROVE  Receipts
<1> USE DEF Shape, TypeOK
<1>a. ASSUME NEW q \in DOMAIN session
      PROVE  q \notin DOMAIN reply /\ EventOf(q) \in EventIds
  BY <1>a, EventOfType DEF RequestsOK
<1>b. ASSUME reply' = reply
      PROVE  Receipts
  BY <1>b DEF Receipts
<1>c. ASSUME NEW q \in DOMAIN session, Raise(q)
      PROVE  Receipts
  BY <1>a, <1>b, <1>c, AnswerReceipts DEF Raise, Goto
<1>d. ASSUME NEW p \in Payloads, Duplicate(p)
      PROVE  IdOf[p] \in DOMAIN events
  BY <1>d DEF Duplicate, Keyed
<1>1. ASSUME NEW d \in Deliveries, NEW p \in Payloads, LookUp(d, p)
      PROVE  Receipts
  <2>1. d \notin DOMAIN reply /\ events' = events
    BY <1>1 DEF LookUp, Arrives, tables
  <2>2. CASE Duplicate(p) /\ Answer(d, IdOf[p], "duplicate")
    BY <1>d, <2>1, <2>2, AnswerReceipts DEF Handled
  <2>3. CASE Open(d, "insert", NewRow(p), {})
    BY <1>b, <2>3 DEF Open
  <2> QED
    BY <1>1, <2>2, <2>3 DEF LookUp
<1>2. ASSUME NEW r \in Replays, NEW e \in EventIds, Load(r, e)
      PROVE  Receipts
  <2>1. r \notin DOMAIN reply
    BY <1>2 DEF Load, Arrives
  <2>2. CASE Answer(r, e, "not_found")
    BY <2>1, <2>2, AnswerReceipts
  <2>3. CASE reply' = reply
    BY <1>b, <2>3
  <2> QED
    BY <1>2, <2>2, <2>3 DEF Load, Open
<1>3. ASSUME NEW d \in Requests, Insert(d)
      PROVE  Receipts
  <2>1. d \in DOMAIN session /\ session[d].row.payload \in Payloads
    BY <1>3, EventOfType DEF Insert, At
  <2>2. CASE /\ UniqueViolation(session[d].row.payload)
             /\ Answer(d, EventOf(d), "duplicate")
             /\ UNCHANGED events
    <3>1. EventOf(d) \in DOMAIN events
      BY <1>d, <2>1, <2>2 DEF UniqueViolation, Duplicate, EventOf
    <3> QED
      BY <1>a, <2>1, <2>2, <3>1, AnswerReceipts DEF Handled
  <2>3. CASE reply' = reply
    BY <1>b, <2>3
  <2> QED
    BY <1>3, <2>2, <2>3 DEF Insert, Goto
<1>4. ASSUME NEW q \in Requests, Begin(q) \/ Notify(q) \/ Rollback(q)
      PROVE  Receipts
  BY <1>b, <1>4 DEF Begin, Notify, Rollback, Goto
<1>5. ASSUME NEW q \in Requests, Summarize(q) \/ Sync(q) \/ DatabaseError(q)
      PROVE  Receipts
  <2>1. q \in DOMAIN session
    BY <1>5 DEF Summarize, Sync, DatabaseError, At
  <2>2. CASE Answer(q, EventOf(q), "error")
    BY <1>a, <2>1, <2>2, AnswerReceipts
  <2> QED
    BY <1>b, <1>c, <1>5, <2>1, <2>2 DEF Summarize, Sync, DatabaseError, Goto
<1>6. ASSUME NEW q \in Requests, Finish(q)
      PROVE  Receipts
  <2> DEFINE new == Finished(session[q].row, session[q].problems)
  <2>0. At(q, "finish") /\ q \in DOMAIN session /\ session[q].row \in Row
    BY <1>6, EventOfType DEF Finish, At
  <2>1. EventOf(q) \in DOMAIN events'
    BY <1>6, <2>0, CommitFacts DEF Finish, At, Placed, PlacedAt
  <2>2. inferences'[EventOf(q)] > 0
    BY <1>6, <1>a, <2>0, BumpType DEF Finish, CountersOK
  <2>3. new.status = "completed" => session[q].problems = {}
    BY <2>0 DEF Finished, Row
  <2>4. reply' = reply \/ Answer(q, EventOf(q), new.status)
    BY <1>6 DEF Finish, Goto
  <2> HIDE DEF new
  <2> QED
    BY <1>a, <1>b, <2>0, <2>1, <2>2, <2>3, <2>4, AnswerReceipts
<1>7. ASSUME NEW r \in Requests, MarkFailed(r) \/ DeadLetter(r)
      PROVE  Receipts
  <2>0. /\ r \in DOMAIN session
        /\ session[r].at # "insert"
    BY <1>7 DEF MarkFailed, DeadLetter, At
  <2>1. DOMAIN events' = DOMAIN events
    BY <1>7 DEF MarkFailed, DeadLetter, Commit
  <2>2. EventOf(r) \in DOMAIN events'
    BY <2>0, <2>1 DEF Placed, PlacedAt
  <2>3. \/ reply' = reply
        \/ \E status \in {"failed", "dead_lettered"} : Answer(r, EventOf(r), status)
    BY <1>7 DEF MarkFailed, DeadLetter, Goto
  <2> QED
    BY <1>a, <1>b, <2>0, <2>2, <2>3, AnswerReceipts DEF Handled
<1>8. CASE Crash
  <2>1. ASSUME NEW q \in DOMAIN reply', q \notin DOMAIN reply
        PROVE  reply'[q].status = "lost"
    <3>1. reply'[q] = [status |-> "lost", event |-> EventOf(q)]
      BY <1>8, <2>1, CrashFacts
    <3> QED
      BY <3>1
  <2>2. \A q \in DOMAIN reply : reply'[q] = reply[q]
    BY <1>8, CrashFacts
  <2>3. ASSUME NEW q \in DOMAIN reply', q \notin DOMAIN reply
        PROVE  NewReceipt(q)
    BY <2>1, <2>3 DEF NewReceipt
  <2> QED
    BY <2>2, <2>3 DEF Receipts
<1>9. CASE UNCHANGED vars
  BY <1>b, <1>9 DEF vars
<1> QED
  BY <1>1, <1>2, <1>3, <1>4, <1>5, <1>6, <1>7, <1>8, <1>9
     DEF Next, Arrival, Advance, Fault

\* A step keeps AckImpliesStored: the receipts it adds are of stored events.
LEMMA AckStep ==
  ASSUME Shape, AckImpliesStored, [Next]_vars
  PROVE  AckImpliesStored'
<1>1. Receipts /\ Grown
  BY ReceiptsStep, GrownStep
<1> QED
  BY <1>1 DEF Receipts, NewReceipt, Grown, AckImpliesStored

(***************************************************************************)
(* Acceptance: who owns the processing of an event.                        *)
(***************************************************************************)

\* No delivery becomes an owner by the session it is in.
NoNewOwner ==
  \A d \in Deliveries \cap DOMAIN session' :
    session'[d].at # "insert" =>
      /\ d \in DOMAIN session /\ session[d].at # "insert"
      /\ EventOf(d)' = EventOf(d)

\* A request that stays past intake adds no owner to its event.
LEMMA GotoOwner ==
  ASSUME RequestsOK, NEW q \in DOMAIN session, session[q].at # "insert",
         NEW stage, NEW row, NEW problems, Goto(q, stage, row, problems),
         q \in Deliveries => IdOf[row.payload] = EventOf(q)
  PROVE  NoNewOwner
<1>1. /\ DOMAIN session' = DOMAIN session
      /\ session'[q] = [at |-> stage, row |-> row, problems |-> problems]
      /\ \A r \in DOMAIN session : r # q => session'[r] = session[r]
  BY GotoFacts
<1>2. EventOf(q)' = IdOf[row.payload]
  BY <1>1 DEF EventOf
<1>3. \A r \in DOMAIN session : r # q => EventOf(r)' = EventOf(r)
  BY <1>1 DEF EventOf
<1> QED
  BY <1>1, <1>2, <1>3 DEF NoNewOwner

\* A receipt that goes out adds no owner to its event.
LEMMA AnswerOwner ==
  ASSUME RequestsOK, NEW q, q \notin DOMAIN reply,
         NEW e, NEW status, Answer(q, e, status)
  PROVE  NoNewOwner
BY AnswerFacts DEF NoNewOwner, EventOf

\* Only an Insert that is accepted adds an owner to an event.
LEMMA NoNewOwnerStep ==
  ASSUME Shape, [Next]_vars, \A d \in Requests : ~Insert(d)
  PROVE  NoNewOwner
<1> USE DEF Shape, TypeOK
<1>a. ASSUME NEW q \in DOMAIN session
      PROVE  /\ q \notin DOMAIN reply
             /\ session[q].row \in Row
             /\ IdOf[session[q].row.payload] = EventOf(q)
             /\ PlacedAt(q)
  BY <1>a, EventOfType DEF RequestsOK, EventOf, Placed
<1>b. ASSUME NEW q \in DOMAIN session, session[q].at # "insert", Raise(q)
      PROVE  NoNewOwner
  BY <1>a, <1>b, GotoOwner, AnswerOwner DEF Raise
<1>1. ASSUME NEW d \in Deliveries, NEW p \in Payloads, LookUp(d, p)
      PROVE  NoNewOwner
  <2>1. d \notin DOMAIN session /\ d \notin DOMAIN reply
    BY <1>1 DEF LookUp, Arrives
  <2>2. CASE Answer(d, IdOf[p], "duplicate")
    BY <2>1, <2>2, AnswerOwner
  <2>3. CASE Open(d, "insert", NewRow(p), {})
    <3>1. /\ DOMAIN session' = DOMAIN session \cup {d}
          /\ session'[d] = [at |-> "insert", row |-> NewRow(p), problems |-> {}]
          /\ \A r \in DOMAIN session : session'[r] = session[r]
      BY <2>1, <2>3, OpenFacts
    <3> QED
      BY <3>1 DEF NoNewOwner, EventOf
  <2> QED
    BY <1>1, <2>2, <2>3 DEF LookUp
<1>2. ASSUME NEW r \in Replays, NEW e \in EventIds, Load(r, e)
      PROVE  NoNewOwner
  <2>1. r \notin DOMAIN session /\ r \notin DOMAIN reply /\ r \notin Deliveries
    BY <1>2, ConstantsAssumption DEF Load, Arrives
  <2>2. CASE Answer(r, e, "not_found")
    BY <2>1, <2>2, AnswerOwner
  <2>3. ASSUME NEW stage, NEW row, NEW problems, Open(r, stage, row, problems)
        PROVE  NoNewOwner
    <3>1. /\ DOMAIN session' = DOMAIN session \cup {r}
          /\ \A q \in DOMAIN session : session'[q] = session[q]
      BY <2>1, <2>3, OpenFacts
    <3> QED
      BY <2>1, <3>1 DEF NoNewOwner, EventOf
  <2> QED
    BY <1>2, <2>2, <2>3 DEF Load
<1>3. ASSUME NEW q \in Requests, Begin(q)
      PROVE  NoNewOwner
  <2>1. q \in DOMAIN session /\ session[q].at # "insert"
    BY <1>3 DEF Begin, At
  <2>2. Begun(session[q].row).payload = session[q].row.payload
    BY <1>a, <2>1 DEF Begun, Row
  <2> QED
    BY <1>3, <1>a, <2>1, <2>2, GotoOwner DEF Begin
<1>4. ASSUME NEW q \in Requests, Summarize(q) \/ Notify(q) \/ Sync(q)
      PROVE  NoNewOwner
  <2>1. q \in DOMAIN session /\ session[q].at # "insert"
    BY <1>4 DEF Summarize, Notify, Sync, At
  <2> QED
    BY <1>4, <1>a, <1>b, <2>1, GotoOwner DEF Summarize, Notify, Sync
<1>5. ASSUME NEW q \in Requests, Finish(q)
      PROVE  NoNewOwner
  <2>1. q \in DOMAIN session /\ session[q].at # "insert"
    BY <1>5 DEF Finish, At
  <2>2. Finished(session[q].row, session[q].problems).payload = session[q].row.payload
    BY <1>a, <2>1 DEF Finished, Row
  <2> QED
    BY <1>5, <1>a, <2>1, <2>2, GotoOwner, AnswerOwner DEF Finish
<1>6. ASSUME NEW r \in Requests, Rollback(r) \/ MarkFailed(r) \/ DeadLetter(r)
      PROVE  NoNewOwner
  <2>1. r \in DOMAIN session /\ session[r].at \in ReplayStages
    BY <1>6 DEF Rollback, MarkFailed, DeadLetter, At, ReplayStages
  <2>2. r \notin Deliveries /\ session[r].at # "insert"
    BY <1>a, <2>1, ConstantsAssumption DEF PlacedAt, ReplayStages
  <2> QED
    BY <1>6, <1>a, <2>1, <2>2, GotoOwner, AnswerOwner DEF Rollback, MarkFailed, DeadLetter
<1>7. ASSUME NEW q \in Requests, DatabaseError(q)
      PROVE  NoNewOwner
  <2>1. q \in DOMAIN session
    BY <1>7 DEF DatabaseError, At
  <2>2. CASE (At(q, "begin") \/ At(q, "finish")) /\ Raise(q)
    BY <1>b, <2>1, <2>2 DEF At
  <2>3. CASE Answer(q, EventOf(q), "error")
    BY <1>a, <2>1, <2>3, AnswerOwner
  <2> QED
    BY <1>7, <2>2, <2>3 DEF DatabaseError
<1>8. CASE Crash
  BY <1>8, CrashFacts DEF NoNewOwner, EventOf, Shape, TypeOK
<1>9. CASE UNCHANGED vars
  BY <1>9 DEF vars, NoNewOwner, EventOf
<1> QED
  BY <1>1, <1>2, <1>3, <1>4, <1>5, <1>6, <1>7, <1>8, <1>9
     DEF Next, Arrival, Advance, Fault

\* A step keeps AcceptedOnce: an accepted Insert finds its event unowned.
LEMMA AcceptedStep ==
  ASSUME Shape, AckImpliesStored, AcceptedOnce, [Next]_vars
  PROVE  AcceptedOnce'
<1> USE DEF Shape, TypeOK
<1>1. ASSUME NEW e \in EventIds, NEW d \in Owners(e)
      PROVE  e \in DOMAIN events
  BY <1>1 DEF Owners, Works, Placed, PlacedAt, AckImpliesStored
<1>2. Receipts
  BY ReceiptsStep
<1>3. ASSUME NoNewOwner, NEW e \in EventIds, NEW d \in Owners(e)'
      PROVE  d \in Owners(e)
  <2>1. d \in Deliveries
    BY DEF Owners, Works
  <2>2. CASE d \in DOMAIN session' /\ session'[d].at # "insert" /\ EventOf(d)' = e
    BY <1>3, <2>1, <2>2 DEF NoNewOwner, Owners, Works
  <2>3. CASE /\ d \in DOMAIN reply'
             /\ reply'[d].event = e
             /\ reply'[d].status \in Handled
    BY <1>2, <2>1, <2>3 DEF Receipts, NewReceipt, Handled, At, Owners, Works
  <2> QED
    BY <2>2, <2>3 DEF Owners, Works, Handled
<1>4. CASE \A d \in Requests : ~Insert(d)
  BY <1>3, <1>4, NoNewOwnerStep DEF AcceptedOnce
<1>5. ASSUME NEW d \in Requests, Insert(d)
      PROVE  AcceptedOnce'
  <2>0. d \in DOMAIN session /\ d \notin DOMAIN reply /\ EventOf(d) \in EventIds
    BY <1>5, EventOfType DEF Insert, At, RequestsOK
  <2>1. CASE Answer(d, EventOf(d), "duplicate")
    BY <1>3, <2>0, <2>1, AnswerOwner DEF AcceptedOnce
  <2>2. CASE /\ ~UniqueViolation(session[d].row.payload)
             /\ Goto(d, "begin", session[d].row, {})
    <3>1. EventOf(d) \notin DOMAIN events
      BY <2>2 DEF UniqueViolation, EventOf
    <3>2. /\ DOMAIN session' = DOMAIN session /\ reply' = reply
          /\ session'[d] = [at |-> "begin", row |-> session[d].row, problems |-> {}]
          /\ \A r \in DOMAIN session : r # d => session'[r] = session[r]
      BY <2>0, <2>2, GotoFacts
    <3>3. ASSUME NEW e \in EventIds, NEW c \in Owners(e)', c # d
          PROVE  c \in Owners(e)
      BY <3>2, <3>3 DEF Owners, Works, EventOf
    <3>4. ASSUME NEW e \in EventIds, d \in Owners(e)'
          PROVE  e \notin DOMAIN events
      <4>1. e = EventOf(d)'
        BY <2>0, <3>2, <3>4 DEF Owners, Works
      <4> QED
        BY <3>1, <3>2, <4>1 DEF EventOf
    <3> QED
      BY <1>1, <3>3, <3>4 DEF AcceptedOnce
  <2> QED
    BY <1>5, <2>1, <2>2 DEF Insert
<1> QED
  BY <1>4, <1>5

(***************************************************************************)
(* Rows: what a step may leave in the events table.                        *)
(***************************************************************************)

HandedOff(e) == notified[e] > 0 /\ synced[e] > 0 /\ inferences[e] > 0

GoodRow(e) ==
  /\ events[e].attempt_count <= MaxAttempts
  /\ events[e].attempt_count <= passes[e]
  /\ events[e].status = "dead_lettered" => e \in DOMAIN dead_letters
  /\ events[e].status = "completed" => HandedOff(e)

GoodRows == \A e \in DOMAIN events : GoodRow(e)

\* A row that is not written stays good.
LEMMA SameRow ==
  ASSUME Shape, Grown, TypeOK', NEW e \in DOMAIN events, GoodRow(e),
         e \in DOMAIN events', events'[e] = events[e]
  PROVE  GoodRow(e)'
<1>1. e \in EventIds /\ events[e].attempt_count \in Nat
  BY DEF Shape, TypeOK, TablesOK, Row
<1>2. /\ passes[e] \in Nat /\ passes'[e] \in Nat /\ notified[e] \in Nat
      /\ notified'[e] \in Nat /\ synced[e] \in Nat /\ synced'[e] \in Nat
      /\ inferences[e] \in Nat /\ inferences'[e] \in Nat
  BY <1>1 DEF Shape, TypeOK, CountersOK
<1>3. /\ passes'[e] >= passes[e] /\ notified'[e] >= notified[e]
      /\ synced'[e] >= synced[e] /\ inferences'[e] >= inferences[e]
      /\ e \in DOMAIN dead_letters => e \in DOMAIN dead_letters'
  BY <1>1 DEF Grown
<1>4. HandedOff(e) => HandedOff(e)'
  BY <1>2, <1>3 DEF HandedOff
<1>5. events[e].attempt_count <= passes[e] => events[e].attempt_count <= passes'[e]
  BY <1>1, <1>2, <1>3
<1> QED
  BY <1>3, <1>4, <1>5 DEF GoodRow

\* A commit writes columns of a good row.
LEMMA CommitRows ==
  ASSUME Shape, Grown, TypeOK', GoodRows,
         NEW q \in DOMAIN session, NEW new, Commit(q, new),
         new.attempt_count <= MaxAttempts,
         new.attempt_count <= passes'[EventOf(q)],
         new.status = "dead_lettered" => EventOf(q) \in DOMAIN dead_letters',
         new.status = "completed" =>
           /\ notified'[EventOf(q)] > 0 /\ synced'[EventOf(q)] > 0
           /\ inferences'[EventOf(q)] > 0
  PROVE  GoodRows'
<1>0. PICK e : e = EventOf(q)
  OBVIOUS
<1>1. /\ DOMAIN events' = DOMAIN events
      /\ \A c \in DOMAIN events : c # e => events'[c] = events[c]
      /\ e \in DOMAIN events =>
           /\ events'[e].status \in {events[e].status, new.status}
           /\ events'[e].attempt_count \in {events[e].attempt_count, new.attempt_count}
  BY <1>0, CommitFacts DEF Shape, TypeOK
<1>2. ASSUME NEW c \in DOMAIN events, c # e
      PROVE  GoodRow(c)'
  BY <1>1, <1>2, SameRow DEF GoodRows
<1>3. ASSUME e \in DOMAIN events
      PROVE  GoodRow(e)'
  <2>1. e \in EventIds /\ events[e].attempt_count \in Nat /\ GoodRow(e)
    BY <1>3 DEF Shape, TypeOK, TablesOK, Row, GoodRows
  <2>2. /\ passes[e] \in Nat /\ passes'[e] \in Nat /\ notified[e] \in Nat
        /\ notified'[e] \in Nat /\ synced[e] \in Nat /\ synced'[e] \in Nat
        /\ inferences[e] \in Nat /\ inferences'[e] \in Nat
    BY <2>1 DEF Shape, TypeOK, CountersOK
  <2>3. /\ passes'[e] >= passes[e] /\ notified'[e] >= notified[e]
        /\ synced'[e] >= synced[e] /\ inferences'[e] >= inferences[e]
        /\ e \in DOMAIN dead_letters => e \in DOMAIN dead_letters'
    BY <2>1 DEF Grown
  <2>4. HandedOff(e) => HandedOff(e)'
    BY <2>2, <2>3 DEF HandedOff
  <2>5. events[e].attempt_count <= passes'[e]
    BY <2>1, <2>2, <2>3 DEF GoodRow
  <2>6. /\ events'[e].attempt_count <= MaxAttempts
        /\ events'[e].attempt_count <= passes'[e]
    BY <1>0, <1>1, <1>3, <2>1, <2>5 DEF GoodRow
  <2>7. events'[e].status = "dead_lettered" => e \in DOMAIN dead_letters'
    BY <1>0, <1>1, <1>3, <2>1, <2>3 DEF GoodRow
  <2>8. events'[e].status = "completed" => HandedOff(e)'
    BY <1>0, <1>1, <1>3, <2>1, <2>4 DEF GoodRow, HandedOff
  <2> QED
    BY <2>6, <2>7, <2>8 DEF GoodRow
<1> QED
  BY <1>1, <1>2, <1>3 DEF GoodRows

\* Every step leaves the stored rows good: counted, and recorded when buried.
LEMMA GoodRowsStep ==
  ASSUME Shape, RequestsKnow, GoodRows, [Next]_vars
  PROVE  GoodRows'
<1> USE DEF Shape, TypeOK
<1>0. Grown /\ TypeOK'
  BY GrownStep, TypeStep
<1>a. ASSUME NEW q \in DOMAIN session
      PROVE  /\ session[q].row \in Row /\ session[q].problems \in SUBSET Problem
             /\ session[q].row.attempt_count \in Nat
             /\ EventOf(q) \in EventIds
             /\ PlacedAt(q) /\ Knows(q)
  BY <1>a, EventOfType DEF RequestsOK, Session, Row, Placed, RequestsKnow
<1>b. ASSUME UNCHANGED events
      PROVE  GoodRows'
  BY <1>b, <1>0, SameRow DEF GoodRows
<1>1. ASSUME NEW d \in Requests, Insert(d)
      PROVE  GoodRows'
  <2>0. d \in DOMAIN session /\ session[d].at = "insert"
    BY <1>1 DEF Insert, At
  <2>1. CASE /\ ~UniqueViolation(session[d].row.payload)
             /\ events' = Put(events, EventOf(d), session[d].row)
    <3>1. EventOf(d) \notin DOMAIN events
      BY <2>1 DEF UniqueViolation, EventOf
    <3>2. /\ DOMAIN events' = DOMAIN events \cup {EventOf(d)}
          /\ events'[EventOf(d)] = session[d].row
          /\ \A e \in DOMAIN events : events'[e] = events[e]
      BY <2>1, <3>1 DEF Put
    <3>3. session[d].row.attempt_count = 0 /\ session[d].row.status = "received"
      <4>1. session[d].row = NewRow(session[d].row.payload)
        BY <1>a, <2>0 DEF PlacedAt
      <4>2. \A p : NewRow(p).attempt_count = 0 /\ NewRow(p).status = "received"
        BY DEF NewRow
      <4> QED
        BY <4>1, <4>2
    <3>4. passes'[EventOf(d)] \in Nat /\ MaxAttempts \in Nat
      BY <1>0, <1>a, <2>0, ConstantsAssumption DEF CountersOK
    <3>5. ASSUME NEW e, e = EventOf(d)
          PROVE  GoodRow(e)'
      BY <3>2, <3>3, <3>4, <3>5 DEF GoodRow
    <3>6. ASSUME NEW e \in DOMAIN events
          PROVE  GoodRow(e)'
      BY <1>0, <3>2, <3>6, SameRow DEF GoodRows
    <3> QED
      BY <3>2, <3>5, <3>6 DEF GoodRows
  <2> QED
    BY <1>b, <1>1, <2>1 DEF Insert
<1>2. ASSUME NEW q \in Requests, Begin(q)
      PROVE  GoodRows'
  <2> DEFINE new == Begun(session[q].row)
  <2>0. q \in DOMAIN session /\ session[q].at = "begin"
    BY <1>2 DEF Begin, At
  <2>1. Commit(q, new)
    BY <1>2 DEF Begin
  <2>2. new.status = "processing" /\ new.attempt_count = session[q].row.attempt_count + 1
    BY <1>a, <2>0 DEF Begun, Row
  <2>3. /\ passes'[EventOf(q)] = passes[EventOf(q)] + 1 /\ passes[EventOf(q)] \in Nat
        /\ session[q].row.attempt_count <= passes[EventOf(q)]
        /\ session[q].row.attempt_count < MaxAttempts
        /\ session[q].row.attempt_count \in Nat /\ MaxAttempts \in Nat
    BY <1>2, <1>a, <2>0, BumpType, ConstantsAssumption DEF Begin, CountersOK, Knows
  <2> HIDE DEF new
  <2>4. new.attempt_count <= MaxAttempts /\ new.attempt_count <= passes'[EventOf(q)]
    BY <2>2, <2>3
  <2> QED
    BY <1>0, <2>0, <2>1, <2>2, <2>4, CommitRows
<1>3. ASSUME NEW q \in Requests, Finish(q)
      PROVE  GoodRows'
  <2> DEFINE new == Finished(session[q].row, session[q].problems)
  <2>0. q \in DOMAIN session /\ session[q].at = "finish"
    BY <1>3 DEF Finish, At
  <2>1. Commit(q, new)
    BY <1>3 DEF Finish
  <2>2. /\ new.status \in Handled
        /\ new.status = "completed" => session[q].problems = {}
        /\ new.attempt_count = session[q].row.attempt_count
    BY <1>a, <2>0 DEF Finished, Row, Handled
  <2>3. /\ session[q].row.attempt_count <= MaxAttempts
        /\ session[q].row.attempt_count <= passes'[EventOf(q)]
        /\ session[q].problems = {} => notified'[EventOf(q)] > 0 /\ synced'[EventOf(q)] > 0
    BY <1>3, <1>a, <2>0 DEF Finish, tallies, Knows
  <2>4. inferences'[EventOf(q)] > 0
    BY <1>3, <1>a, <2>0, BumpType DEF Finish, CountersOK
  <2> HIDE DEF new
  <2> QED
    BY <1>0, <2>0, <2>1, <2>2, <2>3, <2>4, CommitRows DEF Handled
<1>4. ASSUME NEW r \in Requests, MarkFailed(r)
      PROVE  GoodRows'
  <2> DEFINE new == [session[r].row EXCEPT !.status = "failed",
                                           !.error_message = {"processing_failed"}]
  <2>0. r \in DOMAIN session
    BY <1>4 DEF MarkFailed, At
  <2>1. Commit(r, new)
    BY <1>4 DEF MarkFailed
  <2>2. new.status = "failed" /\ new.attempt_count = session[r].row.attempt_count
    BY <1>a, <2>0 DEF Row
  <2>3. /\ session[r].row.attempt_count <= MaxAttempts
        /\ session[r].row.attempt_count <= passes'[EventOf(r)]
    BY <1>4, <1>a, <2>0 DEF MarkFailed, tallies, Knows
  <2> HIDE DEF new
  <2> QED
    BY <1>0, <2>0, <2>1, <2>2, <2>3, CommitRows
<1>5. ASSUME NEW r \in Requests, DeadLetter(r)
      PROVE  GoodRows'
  <2> DEFINE new == [session[r].row EXCEPT !.status = "dead_lettered",
                                           !.error_message = session[r].problems]
  <2>0. r \in DOMAIN session
    BY <1>5 DEF DeadLetter, At
  <2>1. Commit(r, new)
    BY <1>5 DEF DeadLetter
  <2>2. new.status = "dead_lettered" /\ new.attempt_count = session[r].row.attempt_count
    BY <1>a, <2>0 DEF Row
  <2>3. /\ session[r].row.attempt_count <= MaxAttempts
        /\ session[r].row.attempt_count <= passes'[EventOf(r)]
    BY <1>5, <1>a, <2>0 DEF DeadLetter, tallies, Knows
  <2>4. EventOf(r) \in DOMAIN dead_letters'
    BY <1>5 DEF DeadLetter, Buried, Put
  <2> HIDE DEF new
  <2> QED
    BY <1>0, <2>0, <2>1, <2>2, <2>3, <2>4, CommitRows
<1>6. ASSUME NEW q \in Requests,
             Summarize(q) \/ Notify(q) \/ Sync(q) \/ Rollback(q) \/ DatabaseError(q)
      PROVE  GoodRows'
  BY <1>b, <1>6 DEF Summarize, Notify, Sync, Rollback, DatabaseError, tables
<1>7. CASE Arrival \/ Crash \/ UNCHANGED vars
  BY <1>b, <1>7 DEF Arrival, LookUp, Load, Crash, vars, tables
<1> QED
  BY <1>1, <1>2, <1>3, <1>4, <1>5, <1>6, <1>7 DEF Next, Advance, Fault

\* A record is written by a request whose copy has used every attempt.
LEMMA ExhaustedStep ==
  ASSUME Shape, RequestsKnow, DeadLetterExhausted, [Next]_vars
  PROVE  DeadLetterExhausted'
<1> USE DEF Shape, TypeOK
<1>0. Grown /\ TypeOK'
  BY GrownStep, TypeStep
<1>1. ASSUME NEW e \in DOMAIN dead_letters
      PROVE  passes'[e] >= MaxAttempts /\ dead_letters'[e].replay_attempts = MaxAttempts
  <2>1. e \in EventIds
    BY <1>1 DEF TablesOK
  <2>2. /\ passes[e] \in Nat /\ passes'[e] \in Nat /\ MaxAttempts \in Nat
        /\ passes'[e] >= passes[e] /\ passes[e] >= MaxAttempts
        /\ dead_letters'[e] = dead_letters[e]
        /\ dead_letters[e].replay_attempts = MaxAttempts
    BY <1>0, <1>1, <2>1, ConstantsAssumption DEF CountersOK, Grown, DeadLetterExhausted
  <2> QED
    BY <2>2
<1>2. ASSUME DOMAIN dead_letters' = DOMAIN dead_letters
      PROVE  DeadLetterExhausted'
  BY <1>1, <1>2 DEF DeadLetterExhausted
<1>3. ASSUME NEW r \in Requests, DeadLetter(r)
      PROVE  DeadLetterExhausted'
  <2> DEFINE new    == [session[r].row EXCEPT !.status = "dead_lettered",
                                              !.error_message = session[r].problems]
             record == [reason |-> session[r].problems,
                        replay_attempts |-> new.attempt_count]
  <2>0. r \in DOMAIN session /\ session[r].at = "dead_letter"
    BY <1>3 DEF DeadLetter, At
  <2>1. dead_letters' = Buried(EventOf(r), record) /\ passes' = passes
    BY <1>3 DEF DeadLetter, tallies
  <2>2. /\ session[r].row \in Row /\ EventOf(r) \in EventIds
        /\ Knows(r)
    BY <2>0, EventOfType DEF RequestsKnow
  <2>3. record.replay_attempts = MaxAttempts /\ passes[EventOf(r)] >= MaxAttempts
    BY <2>0, <2>2, ConstantsAssumption DEF Knows, Row, CountersOK
  <2> HIDE DEF record
  <2>4. CASE EventOf(r) \in DOMAIN dead_letters
    BY <1>2, <2>1, <2>4 DEF Buried
  <2>5. CASE EventOf(r) \notin DOMAIN dead_letters
    <3>1. /\ DOMAIN dead_letters' = DOMAIN dead_letters \cup {EventOf(r)}
          /\ dead_letters'[EventOf(r)] = record
      BY <2>1, <2>5 DEF Buried, Put
    <3> QED
      BY <1>1, <2>1, <2>3, <3>1 DEF DeadLetterExhausted
  <2> QED
    BY <2>4, <2>5
<1>4. ASSUME NEW q \in Requests, Insert(q) \/ Begin(q) \/ Finish(q) \/ MarkFailed(q)
      PROVE  DOMAIN dead_letters' = DOMAIN dead_letters
  BY <1>4 DEF Insert, Begin, Finish, MarkFailed
<1>5. ASSUME NEW q \in Requests,
             Summarize(q) \/ Notify(q) \/ Sync(q) \/ Rollback(q) \/ DatabaseError(q)
      PROVE  DOMAIN dead_letters' = DOMAIN dead_letters
  BY <1>5 DEF Summarize, Notify, Sync, Rollback, DatabaseError, tables
<1>6. CASE Arrival \/ Crash \/ UNCHANGED vars
  BY <1>2, <1>6 DEF Arrival, LookUp, Load, Crash, vars, tables
<1> QED
  BY <1>2, <1>3, <1>4, <1>5, <1>6 DEF Next, Advance, Fault

(***************************************************************************)
(* The theorems.                                                           *)
(***************************************************************************)

Inv ==
  /\ Shape
  /\ RequestsKnow
  /\ GoodRows
  /\ DeadLetterExhausted
  /\ AckImpliesStored
  /\ AcceptedOnce
  /\ CompletedWasHandedOff

\* A step keeps CompletedWasHandedOff.
LEMMA CompletedStep ==
  ASSUME Inv, [Next]_vars
  PROVE  CompletedWasHandedOff'
<1> USE DEF Inv, Shape, TypeOK
<1>0. Receipts /\ Grown /\ GoodRows' /\ TypeOK'
  BY ReceiptsStep, GrownStep, GoodRowsStep, TypeStep
<1>1. SUFFICES ASSUME NEW e \in EventIds, Completed(e)'
               PROVE  HandedOff(e)'
  BY DEF CompletedWasHandedOff, HandedOff
<1>2. CASE e \in DOMAIN events' /\ events'[e].status = "completed"
  BY <1>0, <1>2 DEF GoodRows, GoodRow
<1>3. CASE \E q \in DOMAIN reply' : reply'[q] = [status |-> "completed", event |-> e]
  <2>1. PICK q \in DOMAIN reply' : reply'[q] = [status |-> "completed", event |-> e]
    BY <1>3
  <2>2. /\ notified[e] \in Nat /\ notified'[e] \in Nat /\ notified'[e] >= notified[e]
        /\ synced[e] \in Nat /\ synced'[e] \in Nat /\ synced'[e] >= synced[e]
        /\ inferences[e] \in Nat /\ inferences'[e] \in Nat
        /\ inferences'[e] >= inferences[e]
    BY <1>0 DEF CountersOK, Grown
  <2>3. CASE q \in DOMAIN reply /\ reply'[q] = reply[q]
    <3>1. HandedOff(e)
      BY <2>1, <2>3 DEF CompletedWasHandedOff, Completed, HandedOff
    <3> QED
      BY <2>2, <3>1 DEF HandedOff
  <2>4. CASE NewReceipt(q)
    <3>1. /\ At(q, "finish") /\ e = EventOf(q)
          /\ session[q].problems = {} /\ inferences'[e] > 0
      BY <2>1, <2>4 DEF NewReceipt, Handled
    <3>2. notified[e] > 0 /\ synced[e] > 0
      BY <3>1 DEF At, RequestsKnow, Knows
    <3> QED
      BY <2>2, <3>1, <3>2 DEF HandedOff
  <2> QED
    BY <1>0, <2>3, <2>4 DEF Receipts
<1> QED
  BY <1>1, <1>2, <1>3 DEF Completed

\* The inductive invariant holds of the empty database.
LEMMA InvInit == Init => Inv
<1> SUFFICES ASSUME Init PROVE Inv
  OBVIOUS
<1>1. Shape
  BY TypeInit
<1>2. RequestsKnow /\ GoodRows /\ DeadLetterExhausted /\ AckImpliesStored
  BY DEF Init, RequestsKnow, GoodRows, DeadLetterExhausted, AckImpliesStored
<1>3. AcceptedOnce /\ CompletedWasHandedOff
  BY DEF Init, AcceptedOnce, Owners, Works, CompletedWasHandedOff, Completed
<1> QED
  BY <1>1, <1>2, <1>3 DEF Inv

\* What a good row is, in terms of the properties of EventLifecycle.
LEMMA GoodRowsMean == GoodRows <=> (/\ AttemptsBounded /\ DeadLetterRecorded
  /\ \A e \in DOMAIN events : events[e].status = "completed" => HandedOff(e))
BY DEF GoodRows, GoodRow, AttemptsBounded, DeadLetterRecorded

\* Every step keeps the inductive invariant.
LEMMA InvStep == Inv /\ [Next]_vars => Inv'
<1> SUFFICES ASSUME Inv, [Next]_vars PROVE Inv'
  OBVIOUS
<1> USE DEF Inv
<1>1. AttemptsBounded
  BY GoodRowsMean
<1>2. Shape' /\ RequestsKnow'
  BY <1>1, TypeStep, KeyedStep, KnowsStep DEF Shape
<1>3. GoodRows' /\ DeadLetterExhausted'
  BY GoodRowsStep, ExhaustedStep
<1>4. AckImpliesStored' /\ AcceptedOnce' /\ CompletedWasHandedOff'
  BY AckStep, AcceptedStep, CompletedStep
<1> QED
  BY <1>2, <1>3, <1>4

\* Every behaviour keeps the inductive invariant.
THEOREM Invariance == Spec => []Inv
BY InvInit, InvStep, PTL DEF Spec

\* The variables keep their types: no handler leaves a malformed row, session or
\* receipt.
THEOREM TypeCorrect == Spec => []TypeOK
<1>1. Inv => TypeOK
  BY DEF Inv, Shape
<1> QED
  BY <1>1, Invariance, PTL

\* At most one webhook call processes an event, for any number of calls.
THEOREM AcceptedOnceHolds == Spec => []AcceptedOnce
<1>1. Inv => AcceptedOnce
  BY DEF Inv
<1> QED
  BY <1>1, Invariance, PTL

\* An event is acknowledged only when it is in the table.
THEOREM AckImpliesStoredHolds == Spec => []AckImpliesStored
<1>1. Inv => AckImpliesStored
  BY DEF Inv
<1> QED
  BY <1>1, Invariance, PTL

\* Of a completed event a notification and a synchronization were reported as done.
THEOREM CompletedWasHandedOffHolds == Spec => []CompletedWasHandedOff
<1>1. Inv => CompletedWasHandedOff
  BY DEF Inv
<1> QED
  BY <1>1, Invariance, PTL

\* A dead-lettered event has its record.
THEOREM DeadLetterRecordedHolds == Spec => []DeadLetterRecorded
<1>1. Inv => DeadLetterRecorded
  BY GoodRowsMean DEF Inv
<1> QED
  BY <1>1, Invariance, PTL

\* A record is written only for an event that used every attempt.
THEOREM DeadLetterExhaustedHolds == Spec => []DeadLetterExhausted
<1>1. Inv => DeadLetterExhausted
  BY DEF Inv
<1> QED
  BY <1>1, Invariance, PTL

\* The stored attempt_count stays within the limit and within the passes begun.
THEOREM AttemptsBoundedHolds == Spec => []AttemptsBounded
<1>1. Inv => AttemptsBounded
  BY GoodRowsMean DEF Inv
<1> QED
  BY <1>1, Invariance, PTL

\* No step rewrites or removes a dead-letter record.
THEOREM DeadLetterKeptHolds == Spec => DeadLetterKept
<1>1. Inv /\ [Next]_vars =>
        [\A e \in DOMAIN dead_letters :
           e \in DOMAIN dead_letters' /\ dead_letters'[e] = dead_letters[e]]_vars
  BY GrownStep DEF Inv, Grown
<1> QED
  BY <1>1, Invariance, PTL DEF Spec, DeadLetterKept
=============================================================================
