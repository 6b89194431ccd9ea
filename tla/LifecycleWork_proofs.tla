------------------------- MODULE LifecycleWork_proofs -------------------------
(***************************************************************************)
(* Two more results about EventLifecycle under every overlap and fault:    *)
(* the row of an event that is in trouble names a problem, and the work    *)
(* done for an event is paid for by calls, one pass a call.                *)
(***************************************************************************)
EXTENDS EventLifecycle_proofs, FiniteSetTheorems

(***************************************************************************)
(* The problems a row names.  A flush leaves a column out if it equals the *)
(* session's copy; so whoever holds a copy that names a problem relies on  *)
(* nobody having cleared the stored column since, and nobody does.         *)
(***************************************************************************)

Troubled == {"partially_completed", "failed", "dead_lettered"}

Named(e) == events[e].status \in Troubled => events[e].error_message # {}

Remembers(q) ==
  LET s == session[q]
  IN  /\ s.at # "insert" /\ s.row.error_message # {}
           => events[EventOf(q)].error_message # {}
      /\ s.at = "dead_letter" => s.problems # {}

TroubleInv ==
  /\ \A e \in DOMAIN events : Named(e)
  /\ \A q \in DOMAIN session : Remembers(q)

\* No event loses the problems it names.
NoneCleared ==
  \A e \in DOMAIN events :
    /\ e \in DOMAIN events'
    /\ events[e].error_message # {} => events'[e].error_message # {}

\* Only q's session changes, and it remembers what it needs.
Minds(q) ==
  /\ \A r \in DOMAIN session' :
       r # q => r \in DOMAIN session /\ session'[r] = session[r]
  /\ q \in DOMAIN session' => Remembers(q)'

LEMMA AnswerMinds ==
  ASSUME RequestsOK, NEW q, q \notin DOMAIN reply, NEW e, NEW status, Answer(q, e, status)
  PROVE  Minds(q)
<1>1. /\ DOMAIN session' = DOMAIN session \ {q}
      /\ \A r \in DOMAIN session' : session'[r] = session[r]
  BY AnswerFacts
<1> QED
  BY <1>1 DEF Minds

LEMMA GotoMinds ==
  ASSUME RequestsOK, NEW q \in DOMAIN session,
         NEW stage, NEW row, NEW problems, Goto(q, stage, row, problems),
         IdOf[row.payload] = EventOf(q),
         row.error_message # {} => events'[EventOf(q)].error_message # {},
         stage = "dead_letter" => problems # {}
  PROVE  Minds(q)
<1>1. /\ DOMAIN session' = DOMAIN session
      /\ session'[q] = [at |-> stage, row |-> row, problems |-> problems]
      /\ \A r \in DOMAIN session : r # q => session'[r] = session[r]
  BY GotoFacts
<1>2. EventOf(q)' = EventOf(q)
  BY <1>1 DEF EventOf
<1>3. Remembers(q)'
  BY <1>1, <1>2 DEF Remembers
<1> QED
  BY <1>1, <1>3 DEF Minds

LEMMA OpenMinds ==
  ASSUME RequestsOK, NEW q, q \notin DOMAIN session,
         NEW stage, NEW row, NEW problems, Open(q, stage, row, problems),
         stage # "insert" /\ row.error_message # {}
           => events'[IdOf[row.payload]].error_message # {},
         stage = "dead_letter" => problems # {}
  PROVE  Minds(q)
<1>1. /\ DOMAIN session' = DOMAIN session \cup {q}
      /\ session'[q] = [at |-> stage, row |-> row, problems |-> problems]
      /\ \A r \in DOMAIN session : session'[r] = session[r]
  BY OpenFacts
<1>2. Remembers(q)'
  BY <1>1 DEF Remembers, EventOf
<1> QED
  BY <1>1, <1>2 DEF Minds

\* A commit that writes a problem, or keeps the copy's, clears none, and leaves
\* no row in trouble unnamed.
LEMMA CommitNames ==
  ASSUME Shape, TroubleInv, NEW q \in DOMAIN session, session[q].at # "insert",
         NEW new \in Row, Commit(q, new),
         \/ new.error_message # {}
         \/ /\ new.error_message = session[q].row.error_message
            /\ new.status \notin Troubled
  PROVE  /\ NoneCleared
         /\ \A e \in DOMAIN events' : Named(e)'
         /\ new.error_message # {} => events'[EventOf(q)].error_message # {}
<1> DEFINE copy == session[q].row
<1>0. PICK e : e = EventOf(q)
  OBVIOUS
<1>1. e \in DOMAIN events /\ events[e] \in Row
  BY <1>0 DEF Shape, TypeOK, TablesOK, Placed, PlacedAt
<1>2. /\ DOMAIN events' = DOMAIN events
      /\ \A c \in DOMAIN events : c # e => events'[c] = events[c]
  BY <1>0, CommitFacts DEF Shape, TypeOK
<1>3. events'[e].status = Column(copy.status, new.status, events[e].status)
  BY <1>0, <1>1 DEF Commit
<1>4. events'[e].error_message
        = Column(copy.error_message, new.error_message, events[e].error_message)
  BY <1>0, <1>1 DEF Commit
<1>5. /\ copy.error_message # {} => events[e].error_message # {}
      /\ Named(e)
  BY <1>0, <1>1 DEF TroubleInv, Remembers
<1> HIDE DEF copy
<1>6. events[e].error_message # {} \/ new.error_message # {}
        => events'[e].error_message # {}
  <2>1. CASE new.error_message = copy.error_message
    BY <1>4, <1>5, <2>1 DEF Column
  <2>2. CASE new.error_message # copy.error_message /\ new.error_message # {}
    BY <1>4, <2>2 DEF Column
  <2> QED
    BY <2>1, <2>2 DEF copy
<1>7. Named(e)'
  <2>1. events'[e].status \in {events[e].status, new.status}
    BY <1>3 DEF Column
  <2> QED
    BY <1>5, <1>6, <2>1 DEF Named
<1>8. \A c \in DOMAIN events' : Named(c)'
  BY <1>2, <1>7 DEF Named, TroubleInv
<1> QED
  BY <1>0, <1>2, <1>6, <1>8 DEF NoneCleared

\* What q's step leaves to be shown: the others remember as before.
LEMMA MindsAll ==
  ASSUME Shape, TroubleInv, NoneCleared, NEW q, Minds(q),
         \A e \in DOMAIN events' : Named(e)'
  PROVE  TroubleInv'
<1>1. ASSUME NEW r \in DOMAIN session', r # q
      PROVE  Remembers(r)'
  <2>1. r \in DOMAIN session /\ session'[r] = session[r] /\ EventOf(r)' = EventOf(r)
    BY <1>1 DEF Minds, EventOf
  <2>2. session[r].at # "insert" => EventOf(r) \in DOMAIN events
    BY <2>1 DEF Shape, Placed, PlacedAt
  <2>3. Remembers(r)
    BY <2>1 DEF TroubleInv
  <2> QED
    BY <2>1, <2>2, <2>3 DEF Remembers, NoneCleared
<1> QED
  BY <1>1 DEF TroubleInv, Minds

\* Where no row is written, no row changes what it names.
LEMMA ReadsOnly ==
  ASSUME Shape, TroubleInv, UNCHANGED events, NEW q, Minds(q)
  PROVE  TroubleInv'
<1>1. NoneCleared /\ \A e \in DOMAIN events' : Named(e)'
  BY DEF NoneCleared, TroubleInv, Named
<1> QED
  BY <1>1, MindsAll

\* Every step keeps troubles named.
LEMMA TroubleStep ==
  ASSUME Shape, TroubleInv, [Next]_vars
  PROVE  TroubleInv'
<1> USE DEF Shape, TypeOK
<1>a. ASSUME NEW q \in DOMAIN session
      PROVE  /\ q \notin DOMAIN reply /\ session[q].row \in Row
             /\ session[q].problems \in SUBSET Problem
             /\ IdOf[session[q].row.payload] = EventOf(q)
             /\ PlacedAt(q) /\ Remembers(q)
  BY <1>a, EventOfType DEF RequestsOK, Session, EventOf, Placed, TroubleInv
<1>b. ASSUME NEW q \in DOMAIN session, session[q].at # "insert", UNCHANGED events,
             NEW stage, NEW problems, Goto(q, stage, session[q].row, problems),
             stage # "dead_letter"
      PROVE  TroubleInv'
  <2>1. Minds(q)
    BY <1>a, <1>b, GotoMinds DEF Remembers
  <2> QED
    BY <1>b, <2>1, ReadsOnly
<1>c. ASSUME NEW q, q \notin DOMAIN reply, NEW e, NEW status, Answer(q, e, status),
             UNCHANGED events
      PROVE  TroubleInv'
  BY <1>c, AnswerMinds, ReadsOnly
<1>d. ASSUME NEW q \in DOMAIN session, session[q].at # "insert", UNCHANGED events, Raise(q)
      PROVE  TroubleInv'
  BY <1>a, <1>b, <1>c, <1>d DEF Raise
<1>1. ASSUME NEW d \in Deliveries, NEW p \in Payloads, LookUp(d, p)
      PROVE  TroubleInv'
  <2>1. d \notin DOMAIN session /\ d \notin DOMAIN reply /\ UNCHANGED events
    BY <1>1 DEF LookUp, Arrives, tables
  <2>2. CASE Open(d, "insert", NewRow(p), {})
    BY <2>1, <2>2, OpenMinds, ReadsOnly
  <2> QED
    BY <1>1, <1>c, <2>1, <2>2 DEF LookUp
<1>2. ASSUME NEW r \in Replays, NEW e \in EventIds, Load(r, e)
      PROVE  TroubleInv'
  <2>1. r \notin DOMAIN session /\ r \notin DOMAIN reply /\ UNCHANGED events
    BY <1>2 DEF Load, Arrives, tables
  <2>2. ASSUME NEW stage, NEW problems, e \in DOMAIN events,
               Open(r, stage, events[e], problems), stage = "dead_letter" => problems # {}
        PROVE  TroubleInv'
    <3>1. IdOf[events[e].payload] = e
      BY <2>2 DEF Keyed
    <3> QED
      BY <2>1, <2>2, <3>1, OpenMinds, ReadsOnly
  <2> QED
    BY <1>2, <1>c, <2>1, <2>2 DEF Load
<1>3. ASSUME NEW d \in Requests, Insert(d)
      PROVE  TroubleInv'
  <2>0. d \in DOMAIN session /\ session[d].at = "insert"
    BY <1>3 DEF Insert, At
  <2>1. CASE /\ ~UniqueViolation(session[d].row.payload)
             /\ events' = Put(events, EventOf(d), session[d].row)
             /\ Goto(d, "begin", session[d].row, {})
    <3>1. EventOf(d) \notin DOMAIN events
      BY <2>1 DEF UniqueViolation, EventOf
    <3>2. /\ DOMAIN events' = DOMAIN events \cup {EventOf(d)}
          /\ events'[EventOf(d)] = session[d].row
          /\ \A e \in DOMAIN events : events'[e] = events[e]
      BY <2>1, <3>1 DEF Put
    <3>3. session[d].row.status = "received"
      <4>1. session[d].row = NewRow(session[d].row.payload)
        BY <1>a, <2>0 DEF PlacedAt
      <4>2. \A p : NewRow(p).status = "received"
        BY DEF NewRow
      <4> QED
        BY <4>1, <4>2
    <3>4. Minds(d)
      BY <1>a, <2>0, <2>1, <3>2, GotoMinds
    <3>5. NoneCleared /\ \A e \in DOMAIN events' : Named(e)'
      BY <3>2, <3>3 DEF NoneCleared, TroubleInv, Named, Troubled
    <3> QED
      BY <3>4, <3>5, MindsAll
  <2> QED
    BY <1>3, <1>a, <1>c, <2>0, <2>1 DEF Insert
<1>4. ASSUME NEW q \in Requests, Begin(q)
      PROVE  TroubleInv'
  <2> DEFINE new == Begun(session[q].row)
  <2>0. /\ q \in DOMAIN session /\ session[q].at = "begin"
        /\ Commit(q, new) /\ Goto(q, "summarize", new, {})
    BY <1>4 DEF Begin, At
  <2>1. /\ new \in Row /\ new.payload = session[q].row.payload
        /\ new.status \notin Troubled
        /\ new.error_message = session[q].row.error_message
    BY <1>a, <2>0, RowTypes DEF Begun, Row, Troubled
  <2> HIDE DEF new
  <2>2. /\ NoneCleared /\ \A e \in DOMAIN events' : Named(e)'
        /\ new.error_message # {} => events'[EventOf(q)].error_message # {}
    BY <2>0, <2>1, CommitNames
  <2>3. Minds(q)
    BY <1>a, <2>0, <2>1, <2>2, GotoMinds
  <2> QED
    BY <2>2, <2>3, MindsAll
<1>5. ASSUME NEW q \in Requests, Finish(q)
      PROVE  TroubleInv'
  <2> DEFINE new == Finished(session[q].row, session[q].problems)
  <2>0. /\ q \in DOMAIN session /\ session[q].at = "finish"
        /\ Commit(q, new)
        /\ \/ Goto(q, "dead_letter", new, {"partial_at_limit"})
           \/ Answer(q, EventOf(q), new.status)
    BY <1>5 DEF Finish, At
  <2>1. /\ new \in Row /\ new.payload = session[q].row.payload
        /\ \/ new.error_message # {}
           \/ /\ new.error_message = session[q].row.error_message
              /\ new.status \notin Troubled
    <3>1. session[q].row \in Row /\ session[q].problems \in SUBSET Problem
      BY <1>a, <2>0
    <3>2. CASE session[q].problems = {}
      BY <3>1, <3>2, RowTypes DEF Finished, Row, Troubled
    <3>3. CASE session[q].problems # {}
      BY <3>1, <3>3, RowTypes DEF Finished, Row
    <3> QED
      BY <3>2, <3>3
  <2> HIDE DEF new
  <2>2. /\ NoneCleared /\ \A e \in DOMAIN events' : Named(e)'
        /\ new.error_message # {} => events'[EventOf(q)].error_message # {}
    BY <2>0, <2>1, CommitNames
  <2>3. Minds(q)
    BY <1>a, <2>0, <2>1, <2>2, GotoMinds, AnswerMinds
  <2> QED
    BY <2>2, <2>3, MindsAll
<1>6. ASSUME NEW r \in Requests, Rollback(r)
      PROVE  TroubleInv'
  <2>0. /\ r \in DOMAIN session /\ session[r].at = "rollback" /\ UNCHANGED events
        /\ Goto(r, "mark_failed", events[EventOf(r)], {})
    BY <1>6 DEF Rollback, At, tables
  <2>1. EventOf(r) \in DOMAIN events /\ IdOf[events[EventOf(r)].payload] = EventOf(r)
    BY <1>a, <2>0 DEF PlacedAt, Keyed
  <2>2. Minds(r)
    BY <2>0, <2>1, GotoMinds
  <2> QED
    BY <2>0, <2>2, ReadsOnly
<1>7. ASSUME NEW r \in Requests, MarkFailed(r)
      PROVE  TroubleInv'
  <2> DEFINE new == [session[r].row EXCEPT !.status = "failed",
                                           !.error_message = {"processing_failed"}]
  <2>0. /\ r \in DOMAIN session /\ session[r].at = "mark_failed"
        /\ Commit(r, new)
        /\ \/ Goto(r, "dead_letter", new, {"processing_failed"})
           \/ Answer(r, EventOf(r), "failed")
    BY <1>7 DEF MarkFailed, At
  <2>1. /\ new \in Row /\ new.payload = session[r].row.payload
        /\ new.error_message # {}
    BY <1>a, <2>0 DEF Row, Status, Problem
  <2> HIDE DEF new
  <2>2. /\ NoneCleared /\ \A e \in DOMAIN events' : Named(e)'
        /\ new.error_message # {} => events'[EventOf(r)].error_message # {}
    BY <2>0, <2>1, CommitNames
  <2>3. Minds(r)
    BY <1>a, <2>0, <2>1, <2>2, GotoMinds, AnswerMinds
  <2> QED
    BY <2>2, <2>3, MindsAll
<1>8. ASSUME NEW r \in Requests, DeadLetter(r)
      PROVE  TroubleInv'
  <2> DEFINE new == [session[r].row EXCEPT !.status = "dead_lettered",
                                           !.error_message = session[r].problems]
  <2>0. /\ r \in DOMAIN session /\ session[r].at = "dead_letter"
        /\ Commit(r, new) /\ Answer(r, EventOf(r), "dead_lettered")
    BY <1>8 DEF DeadLetter, At
  <2>1. new \in Row /\ new.error_message # {}
    BY <1>a, <2>0, RowTypes DEF Row, Remembers
  <2> HIDE DEF new
  <2>2. NoneCleared /\ \A e \in DOMAIN events' : Named(e)'
    BY <2>0, <2>1, CommitNames
  <2>3. Minds(r)
    BY <1>a, <2>0, AnswerMinds
  <2> QED
    BY <2>2, <2>3, MindsAll
<1>9. ASSUME NEW q \in Requests, Summarize(q) \/ Notify(q) \/ Sync(q)
      PROVE  TroubleInv'
  <2>1. q \in DOMAIN session /\ session[q].at # "insert" /\ UNCHANGED events
    BY <1>9 DEF Summarize, Notify, Sync, At, tables
  <2> QED
    BY <1>9, <1>b, <1>d, <2>1 DEF Summarize, Notify, Sync
<1>10. ASSUME NEW q \in Requests, DatabaseError(q)
       PROVE  TroubleInv'
  <2>1. /\ q \in DOMAIN session /\ UNCHANGED events
        /\ \/ session[q].at # "insert" /\ Raise(q)
           \/ Answer(q, EventOf(q), "error")
    BY <1>10 DEF DatabaseError, At, tables
  <2> QED
    BY <1>a, <1>c, <1>d, <2>1
<1>11. CASE Crash
  <2>1. /\ UNCHANGED events
        /\ \A q \in DOMAIN session' : q \in DOMAIN session /\ session'[q] = session[q]
    BY <1>11, CrashFacts DEF tables
  <2> QED
    BY <2>1 DEF TroubleInv, Named, Remembers, EventOf
<1>12. CASE UNCHANGED vars
  BY <1>12 DEF vars, tables, TroubleInv, Named, Remembers, EventOf
<1> QED
  BY <1>1, <1>2, <1>3, <1>4, <1>5, <1>6, <1>7, <1>8, <1>9, <1>10, <1>11, <1>12
     DEF Next, Arrival, Advance, Fault

\* However updates of the row are lost, an event in trouble names a problem
\* (EventProcessor.process, EventReplayService.replay).
THEOREM TroubleNamedHolds == Spec => []TroubleNamed
<1>1. Init => TroubleInv
  BY DEF Init, TroubleInv
<1>2. Shape /\ TroubleInv /\ [Next]_vars => TroubleInv'
  BY TroubleStep
<1>3. Inv => Shape
  BY DEF Inv
<1>4. TroubleInv => TroubleNamed
  BY DEF TroubleInv, Named, Troubled, TroubleNamed
<1> QED
  BY <1>1, <1>2, <1>3, <1>4, Invariance, PTL DEF Spec

(***************************************************************************)
(* Who still owes what to an event.  A pass that is begun pays for one     *)
(* notification, one synchronization and one set of rows, each of which is *)
(* owed until its stage is left; a call that is served pays for one pass.  *)
(***************************************************************************)

InStage(e, S) == {q \in DOMAIN session : EventOf(q) = e /\ session[q].at \in S}

StageOf(q) == IF q \in DOMAIN session THEN session[q].at ELSE "ended"

Unnotified == {"summarize", "notify"}
Unsynced   == {"summarize", "notify", "sync"}
Unrecorded == {"summarize", "notify", "sync", "finish"}

Within(e) ==
  /\ notified[e] + Cardinality(InStage(e, Unnotified)) <= passes[e]
  /\ synced[e] + Cardinality(InStage(e, Unsynced)) <= passes[e]
  /\ inferences[e] + Cardinality(InStage(e, Unrecorded)) <= passes[e]
  /\ passes[e] + Cardinality(InStage(e, {"begin"})) <= Cardinality(Served(e))

FewCalls == IsFiniteSet(DOMAIN session \cup DOMAIN reply)

WorkInv == FewCalls /\ \A e \in EventIds : Within(e)

\* Request q, about e, goes to a stage or ends; whoever was served stays so.
Transit(q, e, to) ==
  /\ q \in DOMAIN session => EventOf(q) = e
  /\ \A f \in EventIds, S \in SUBSET Stage :
       InStage(f, S)' = IF f = e /\ to \in S THEN InStage(f, S) \cup {q}
                                            ELSE InStage(f, S) \ {q}
  /\ \A f \in EventIds : Served(f) \subseteq Served(f)'
  /\ to \in Stage \ {"insert"} => q \in Served(e)'
  /\ DOMAIN session' \cup DOMAIN reply' \subseteq DOMAIN session \cup DOMAIN reply \cup {q}

LEMMA GotoTransit ==
  ASSUME Shape, NEW q \in DOMAIN session, NEW e, e = EventOf(q),
         NEW to \in Stage \ {"insert"}, NEW row, NEW problems,
         Goto(q, to, row, problems), IdOf[row.payload] = e
  PROVE  Transit(q, e, to)
<1>0. RequestsOK /\ q \in Requests
  BY DEF Shape, TypeOK, RequestsOK
<1>1. /\ DOMAIN session' = DOMAIN session /\ reply' = reply
      /\ session'[q] = [at |-> to, row |-> row, problems |-> problems]
      /\ \A r \in DOMAIN session : r # q => session'[r] = session[r]
  BY <1>0, GotoFacts
<1>2. EventOf(q)' = e /\ \A r \in DOMAIN session : r # q => EventOf(r)' = EventOf(r)
  BY <1>1 DEF EventOf
<1>3. ASSUME NEW f \in EventIds, NEW S \in SUBSET Stage
      PROVE  InStage(f, S)' = IF f = e /\ to \in S THEN InStage(f, S) \cup {q}
                                                   ELSE InStage(f, S) \ {q}
  BY <1>1, <1>2 DEF InStage
<1>4. ASSUME NEW f \in EventIds, NEW r \in Served(f)
      PROVE  r \in Served(f)'
  BY <1>1, <1>2 DEF Served, Works
<1>5. q \in Served(e)'
  BY <1>0, <1>1, <1>2 DEF Served, Works
<1> QED
  BY <1>1, <1>3, <1>4, <1>5 DEF Transit

LEMMA OpenTransit ==
  ASSUME Shape, NEW q \in Requests, q \notin DOMAIN session \cup DOMAIN reply, NEW e,
         NEW to \in Stage, NEW row, NEW problems,
         Open(q, to, row, problems), IdOf[row.payload] = e
  PROVE  Transit(q, e, to) /\ q \notin Served(e)
<1>0. RequestsOK
  BY DEF Shape, TypeOK
<1>1. /\ DOMAIN session' = DOMAIN session \cup {q} /\ reply' = reply
      /\ session'[q] = [at |-> to, row |-> row, problems |-> problems]
      /\ \A r \in DOMAIN session : session'[r] = session[r]
  BY <1>0, OpenFacts
<1>2. EventOf(q)' = e /\ \A r \in DOMAIN session : EventOf(r)' = EventOf(r)
  BY <1>1 DEF EventOf
<1>3. ASSUME NEW f \in EventIds, NEW S \in SUBSET Stage
      PROVE  InStage(f, S)' = IF f = e /\ to \in S THEN InStage(f, S) \cup {q}
                                                   ELSE InStage(f, S) \ {q}
  BY <1>1, <1>2 DEF InStage
<1>4. ASSUME NEW f \in EventIds, NEW r \in Served(f)
      PROVE  r \in Served(f)'
  BY <1>1, <1>2 DEF Served, Works
<1>5. to # "insert" => q \in Served(e)'
  BY <1>1, <1>2 DEF Served, Works
<1>6. q \notin Served(e)
  BY DEF Served, Works
<1> QED
  BY <1>1, <1>3, <1>4, <1>5, <1>6 DEF Transit

LEMMA AnswerTransit ==
  ASSUME Shape, NEW q \in Requests, q \notin DOMAIN reply,
         NEW e, q \in DOMAIN session => e = EventOf(q),
         NEW status, Works(q) => status \notin {"duplicate", "not_found"},
         Answer(q, e, status)
  PROVE  Transit(q, e, "ended")
<1>0. RequestsOK
  BY DEF Shape, TypeOK
<1>1. /\ DOMAIN session' = DOMAIN session \ {q}
      /\ \A r \in DOMAIN session' : session'[r] = session[r]
      /\ DOMAIN reply' = DOMAIN reply \cup {q}
      /\ reply'[q] = [status |-> status, event |-> e]
      /\ \A r \in DOMAIN reply : reply'[r] = reply[r]
  BY <1>0, AnswerFacts
<1>2. \A r \in DOMAIN session' : EventOf(r)' = EventOf(r)
  BY <1>1 DEF EventOf
<1>3. ASSUME NEW f \in EventIds, NEW S \in SUBSET Stage
      PROVE  InStage(f, S)' = InStage(f, S) \ {q} /\ "ended" \notin S
  BY <1>1, <1>2 DEF InStage, Stage
<1>4. ASSUME NEW f \in EventIds, NEW r \in Served(f)
      PROVE  r \in Served(f)'
  <2>1. CASE r = q
    BY <1>1, <1>4, <2>1 DEF Served, Works
  <2>2. CASE r # q
    BY <1>1, <1>2, <1>4, <2>2 DEF Served, Works
  <2> QED
    BY <2>1, <2>2
<1> QED
  BY <1>1, <1>3, <1>4 DEF Transit, Stage

\* Sets of requests, counted.
LEMMA InStageCounted ==
  ASSUME FewCalls, NEW e, NEW S
  PROVE  IsFiniteSet(InStage(e, S)) /\ Cardinality(InStage(e, S)) \in Nat
<1>1. InStage(e, S) \subseteq DOMAIN session \cup DOMAIN reply
  BY DEF InStage
<1> QED
  BY <1>1, FS_Subset, FS_CardinalityType DEF FewCalls

LEMMA ServedCounted ==
  ASSUME FewCalls, NEW e
  PROVE  IsFiniteSet(Served(e)) /\ Cardinality(Served(e)) \in Nat
<1>1. Served(e) \subseteq DOMAIN session \cup DOMAIN reply
  BY DEF Served, Works
<1> QED
  BY <1>1, FS_Subset, FS_CardinalityType DEF FewCalls

LEMMA FewCallsStep ==
  ASSUME FewCalls, NEW q, NEW e, NEW to, Transit(q, e, to)
  PROVE  FewCalls'
<1>1. IsFiniteSet(DOMAIN session \cup DOMAIN reply \cup {q})
  BY FS_AddElement DEF FewCalls
<1> QED
  BY <1>1, FS_Subset DEF Transit, FewCalls

\* How a request that goes on changes the numbers of those who owe.
LEMMA TransitCounts ==
  ASSUME FewCalls, NEW q, NEW e \in EventIds, NEW to, Transit(q, e, to),
         NEW S \in SUBSET Stage
  PROVE  /\ Cardinality(InStage(e, S)) \in Nat /\ Cardinality(InStage(e, S)') \in Nat
         /\ StageOf(q) \in S /\ to \in S =>
              Cardinality(InStage(e, S)') = Cardinality(InStage(e, S))
         /\ StageOf(q) \in S /\ to \notin S =>
              Cardinality(InStage(e, S)') = Cardinality(InStage(e, S)) - 1
         /\ StageOf(q) \notin S /\ to \in S =>
              Cardinality(InStage(e, S)') = Cardinality(InStage(e, S)) + 1
         /\ StageOf(q) \notin S /\ to \notin S =>
              Cardinality(InStage(e, S)') = Cardinality(InStage(e, S))
<1> DEFINE A == InStage(e, S)
<1>1. IsFiniteSet(A) /\ Cardinality(A) \in Nat
  BY InStageCounted
<1>2. q \in A <=> StageOf(q) \in S
  BY DEF Transit, InStage, StageOf, Stage
<1>3. InStage(e, S)' = IF to \in S THEN A \cup {q} ELSE A \ {q}
  BY DEF Transit
<1> HIDE DEF A
<1>4. /\ Cardinality(A \cup {q}) = IF q \in A THEN Cardinality(A) ELSE Cardinality(A) + 1
      /\ Cardinality(A \ {q}) = IF q \in A THEN Cardinality(A) - 1 ELSE Cardinality(A)
      /\ IsFiniteSet(A \cup {q}) /\ IsFiniteSet(A \ {q})
  BY <1>1, FS_AddElement, FS_RemoveElement
<1>5. Cardinality(A \cup {q}) \in Nat /\ Cardinality(A \ {q}) \in Nat
  BY <1>4, FS_CardinalityType
<1> QED
  BY <1>1, <1>2, <1>3, <1>4, <1>5 DEF A

LEMMA ServedGrows ==
  ASSUME FewCalls, FewCalls', NEW q, NEW e, NEW to, Transit(q, e, to), NEW f \in EventIds
  PROVE  /\ Cardinality(Served(f)) \in Nat /\ Cardinality(Served(f)') \in Nat
         /\ Cardinality(Served(f)) <= Cardinality(Served(f)')
         /\ q \notin Served(f) /\ q \in Served(f)'
              => Cardinality(Served(f)) + 1 <= Cardinality(Served(f)')
<1>1. /\ IsFiniteSet(Served(f)) /\ Cardinality(Served(f)) \in Nat
      /\ IsFiniteSet(Served(f)') /\ Cardinality(Served(f)') \in Nat
  <2>1. Served(f)' \subseteq DOMAIN session' \cup DOMAIN reply'
    BY DEF Served, Works
  <2>2. IsFiniteSet(Served(f)') /\ Cardinality(Served(f)') \in Nat
    BY <2>1, FS_Subset, FS_CardinalityType DEF FewCalls
  <2> QED
    BY <2>2, ServedCounted
<1>2. Served(f) \subseteq Served(f)'
  BY DEF Transit
<1>3. Cardinality(Served(f)) <= Cardinality(Served(f)')
  BY <1>1, <1>2, FS_Subset
<1>4. ASSUME q \notin Served(f), q \in Served(f)'
      PROVE  Cardinality(Served(f)) + 1 <= Cardinality(Served(f)')
  <2>1. Cardinality(Served(f) \cup {q}) = Cardinality(Served(f)) + 1
    BY <1>1, <1>4, FS_AddElement
  <2>2. Served(f) \cup {q} \subseteq Served(f)'
    BY <1>2, <1>4
  <2> QED
    BY <1>1, <2>1, <2>2, FS_Subset
<1> QED
  BY <1>1, <1>3, <1>4

\* How q may go on to a stage, and what is paid on the way: a pass is paid for
\* by a call that was not served yet, a delivery, a synchronization and the rows
\* by the pass.
Paid(q, e, to) ==
  /\ CASE to = "begin"     -> StageOf(q) \in {"insert", "ended"} /\ q \notin Served(e)
       [] to = "summarize" -> StageOf(q) = "begin"
       [] to = "notify"    -> StageOf(q) = "summarize"
       [] to = "sync"      -> StageOf(q) = "notify"
       [] to = "finish"    -> StageOf(q) = "sync"
       [] OTHER            -> TRUE
  /\ passes' = IF to = "summarize" THEN Bump(passes, e) ELSE passes
  /\ \/ notified' = notified
     \/ to = "sync" /\ notified' = Bump(notified, e)
  /\ \/ synced' = synced
     \/ to = "finish" /\ synced' = Bump(synced, e)
  /\ \/ inferences' = inferences
     \/ /\ StageOf(q) = "finish" /\ to \notin Unrecorded \cup {"begin"}
        /\ inferences' = Bump(inferences, e)

\* A counter that is bumped for one event stands for the others.
LEMMA BumpOthers ==
  ASSUME NEW c \in [EventIds -> Nat], NEW e \in EventIds, NEW f \in EventIds
  PROVE  Bump(c, e)[f] = IF f = e THEN c[f] + 1 ELSE c[f]
BY DEF Bump

\* The event that q's step is about is within its bounds still.
LEMMA WithinStep ==
  ASSUME CountersOK, FewCalls, FewCalls', NEW q, NEW e \in EventIds, NEW to,
         Transit(q, e, to), Paid(q, e, to), Within(e)
  PROVE  Within(e)'
<1> DEFINE at == StageOf(q)
           N(S) == Cardinality(InStage(e, S))
           M(S) == Cardinality(InStage(e, S)')
           c == Cardinality(Served(e))
           d == Cardinality(Served(e)')
           B == {"begin"}
<1>1. ASSUME NEW S \in SUBSET Stage
      PROVE  /\ N(S) \in Nat /\ M(S) \in Nat
             /\ at \in S /\ to \in S => M(S) = N(S)
             /\ at \in S /\ to \notin S => M(S) = N(S) - 1
             /\ at \notin S /\ to \in S => M(S) = N(S) + 1
             /\ at \notin S /\ to \notin S => M(S) = N(S)
  BY TransitCounts
<1>2. /\ c \in Nat /\ d \in Nat /\ c <= d
      /\ q \notin Served(e) /\ q \in Served(e)' => c + 1 <= d
  BY ServedGrows
<1>3. to = "begin" => at \in {"insert", "ended"} /\ c + 1 <= d
  BY <1>2 DEF Paid, Transit, Stage
<1>4. /\ to = "summarize" => at = "begin"
      /\ to = "notify" => at = "summarize"
      /\ to = "sync" => at = "notify"
      /\ to = "finish" => at = "sync"
  BY DEF Paid
<1>5. /\ passes[e] \in Nat /\ notified[e] \in Nat /\ synced[e] \in Nat /\ inferences[e] \in Nat
      /\ passes'[e] = IF to = "summarize" THEN passes[e] + 1 ELSE passes[e]
      /\ \/ notified'[e] = notified[e]
         \/ to = "sync" /\ notified'[e] = notified[e] + 1
      /\ \/ synced'[e] = synced[e]
         \/ to = "finish" /\ synced'[e] = synced[e] + 1
      /\ \/ inferences'[e] = inferences[e]
         \/ /\ at = "finish" /\ to \notin Unrecorded \cup {"begin"}
            /\ inferences'[e] = inferences[e] + 1
  <2>1. /\ passes \in [EventIds -> Nat] /\ notified \in [EventIds -> Nat]
        /\ synced \in [EventIds -> Nat] /\ inferences \in [EventIds -> Nat]
    BY DEF CountersOK
  <2>2. /\ Bump(passes, e)[e] = passes[e] + 1
        /\ Bump(notified, e)[e] = notified[e] + 1
        /\ Bump(synced, e)[e] = synced[e] + 1
        /\ Bump(inferences, e)[e] = inferences[e] + 1
    BY <2>1, BumpType
  <2> HIDE DEF at
  <2>3. /\ passes' = IF to = "summarize" THEN Bump(passes, e) ELSE passes
        /\ \/ notified' = notified
           \/ to = "sync" /\ notified' = Bump(notified, e)
        /\ \/ synced' = synced
           \/ to = "finish" /\ synced' = Bump(synced, e)
        /\ \/ inferences' = inferences
           \/ /\ at = "finish" /\ to \notin Unrecorded \cup {"begin"}
              /\ inferences' = Bump(inferences, e)
    BY DEF Paid, at
  <2> QED
    BY <2>1, <2>2, <2>3
<1>6. /\ notified[e] + N(Unnotified) <= passes[e]
      /\ synced[e] + N(Unsynced) <= passes[e]
      /\ inferences[e] + N(Unrecorded) <= passes[e]
      /\ passes[e] + N(B) <= c
  BY DEF Within
<1>7. /\ Unnotified \in SUBSET Stage /\ Unsynced \in SUBSET Stage
      /\ Unrecorded \in SUBSET Stage /\ B \in SUBSET Stage
  BY DEF Unnotified, Unsynced, Unrecorded, Stage
<1> HIDE DEF at, N, M, c, d
<1>8. notified'[e] + M(Unnotified) <= passes'[e]
  BY <1>1, <1>3, <1>4, <1>5, <1>6, <1>7 DEF Unnotified
<1>9. synced'[e] + M(Unsynced) <= passes'[e]
  BY <1>1, <1>3, <1>4, <1>5, <1>6, <1>7 DEF Unsynced
<1>10. inferences'[e] + M(Unrecorded) <= passes'[e]
  BY <1>1, <1>3, <1>4, <1>5, <1>6, <1>7 DEF Unrecorded
<1>11. passes'[e] + M(B) <= d
  BY <1>1, <1>2, <1>3, <1>4, <1>5, <1>6, <1>7
<1> QED
  BY <1>8, <1>9, <1>10, <1>11 DEF Within, M, d, Unnotified, Unsynced, Unrecorded

\* So is every other event.
LEMMA WithinOthers ==
  ASSUME CountersOK, FewCalls, FewCalls', NEW q, NEW e \in EventIds, NEW to,
         Transit(q, e, to), Paid(q, e, to), NEW f \in EventIds, f # e, Within(f)
  PROVE  Within(f)'
<1>1. ASSUME NEW S \in SUBSET Stage
      PROVE  InStage(f, S)' = InStage(f, S)
  BY <1>1 DEF Transit, InStage
<1>2. /\ Unnotified \in SUBSET Stage /\ Unsynced \in SUBSET Stage
      /\ Unrecorded \in SUBSET Stage /\ {"begin"} \in SUBSET Stage
  BY DEF Unnotified, Unsynced, Unrecorded, Stage
<1>3. /\ passes'[f] = passes[f] /\ notified'[f] = notified[f]
      /\ synced'[f] = synced[f] /\ inferences'[f] = inferences[f]
  BY BumpOthers DEF Paid, CountersOK
<1>4. Cardinality(InStage(f, {"begin"})) \in Nat
  BY InStageCounted
<1>5. passes[f] + Cardinality(InStage(f, {"begin"})) <= Cardinality(Served(f)')
  <2>1. /\ Cardinality(Served(f)) \in Nat /\ Cardinality(Served(f)') \in Nat
        /\ Cardinality(Served(f)) <= Cardinality(Served(f)')
    BY ServedGrows
  <2>2. passes[f] \in Nat
    BY DEF CountersOK
  <2>3. passes[f] + Cardinality(InStage(f, {"begin"})) <= Cardinality(Served(f))
    BY DEF Within
  <2> QED
    BY <1>4, <2>1, <2>2, <2>3
<1>6. passes'[f] + Cardinality(InStage(f, {"begin"})') <= Cardinality(Served(f)')
  BY <1>1, <1>2, <1>3, <1>5
<1>7. /\ notified'[f] + Cardinality(InStage(f, Unnotified)') <= passes'[f]
      /\ synced'[f] + Cardinality(InStage(f, Unsynced)') <= passes'[f]
      /\ inferences'[f] + Cardinality(InStage(f, Unrecorded)') <= passes'[f]
  BY <1>1, <1>2, <1>3 DEF Within
<1> QED
  BY <1>6, <1>7 DEF Within, Unnotified, Unsynced, Unrecorded

LEMMA WorkGoesOn ==
  ASSUME Shape, WorkInv, NEW q, NEW e \in EventIds, NEW to,
         Transit(q, e, to), Paid(q, e, to)
  PROVE  WorkInv'
<1>1. CountersOK
  BY DEF Shape, TypeOK
<1>2. FewCalls'
  BY FewCallsStep DEF WorkInv
<1>3. ASSUME NEW f \in EventIds
      PROVE  Within(f)'
  BY <1>1, <1>2, WithinStep, WithinOthers DEF WorkInv
<1> QED
  BY <1>2, <1>3 DEF WorkInv

\* A step to a stage that owes nothing, on which nothing is paid.
LEMMA NothingPaid ==
  ASSUME NEW q, NEW e, NEW to, to \notin Unrecorded \cup {"begin"},
         UNCHANGED <<passes, notified, synced, inferences>>
  PROVE  Paid(q, e, to)
BY DEF Paid, Unrecorded

\* The end of a process: whoever it ends was served, and owes nothing any more.
LEMMA WorkCrash ==
  ASSUME Shape, WorkInv, Crash
  PROVE  WorkInv'
<1>1. /\ DOMAIN session' \subseteq DOMAIN session
      /\ \A q \in DOMAIN session' : session'[q] = session[q]
      /\ DOMAIN reply' = DOMAIN reply \cup (DOMAIN session \ DOMAIN session')
      /\ \A q \in DOMAIN session \ DOMAIN session' :
           reply'[q] = [status |-> "lost", event |-> EventOf(q)]
      /\ \A q \in DOMAIN reply : reply'[q] = reply[q]
      /\ UNCHANGED <<passes, notified, synced, inferences>>
  BY CrashFacts DEF Shape, TypeOK, tables, tallies
<1>2. FewCalls'
  <2>1. DOMAIN session' \cup DOMAIN reply' = DOMAIN session \cup DOMAIN reply
    BY <1>1
  <2> QED
    BY <2>1 DEF WorkInv, FewCalls
<1>3. ASSUME NEW e \in EventIds
      PROVE  Within(e)'
  <2>1. Served(e) \subseteq Served(e)'
    <3>1. ASSUME NEW q \in Requests, Works(q), EventOf(q) = e
          PROVE  q \in Served(e)'
      <4>1. CASE q \in DOMAIN session'
        <5>1. session'[q] = session[q] /\ EventOf(q)' = EventOf(q)
          BY <1>1, <4>1 DEF EventOf
        <5> QED
          BY <3>1, <4>1, <5>1 DEF Served, Works
      <4>2. CASE q \notin DOMAIN session'
        <5>1. q \in DOMAIN reply' /\ reply'[q] = [status |-> "lost", event |-> e]
          BY <1>1, <3>1, <4>2 DEF Works
        <5>2. reply'[q].event = e /\ reply'[q].status \notin {"duplicate", "not_found"}
          BY <5>1
        <5> QED
          BY <5>1, <5>2 DEF Served
      <4> QED
        BY <4>1, <4>2
    <3>2. ASSUME NEW q \in Requests, q \in DOMAIN reply, reply[q].event = e,
                 reply[q].status \notin {"duplicate", "not_found"}
          PROVE  q \in Served(e)'
      BY <1>1, <3>2 DEF Served
    <3> QED
      BY <3>1, <3>2 DEF Served
  <2>2. Served(e)' \subseteq DOMAIN session' \cup DOMAIN reply'
    BY DEF Served, Works
  <2>3. /\ IsFiniteSet(Served(e)') /\ Cardinality(Served(e)') \in Nat
        /\ Cardinality(Served(e)) \in Nat
        /\ Cardinality(Served(e)) <= Cardinality(Served(e)')
    <3>1. IsFiniteSet(Served(e)')
      BY <1>2, <2>2, FS_Subset DEF FewCalls
    <3> QED
      BY <2>1, <3>1, FS_Subset, FS_CardinalityType
  <2>4. ASSUME NEW S
        PROVE  /\ Cardinality(InStage(e, S)) \in Nat /\ Cardinality(InStage(e, S)') \in Nat
               /\ Cardinality(InStage(e, S)') <= Cardinality(InStage(e, S))
    <3>1. InStage(e, S)' \subseteq InStage(e, S)
      BY <1>1 DEF InStage, EventOf
    <3>2. IsFiniteSet(InStage(e, S)) /\ Cardinality(InStage(e, S)) \in Nat
      BY InStageCounted DEF WorkInv
    <3> QED
      BY <3>1, <3>2, FS_Subset, FS_CardinalityType
  <2>5. /\ passes[e] \in Nat /\ notified[e] \in Nat /\ synced[e] \in Nat /\ inferences[e] \in Nat
    BY DEF Shape, TypeOK, CountersOK
  <2>6. /\ notified[e] + Cardinality(InStage(e, Unnotified)) <= passes[e]
        /\ synced[e] + Cardinality(InStage(e, Unsynced)) <= passes[e]
        /\ inferences[e] + Cardinality(InStage(e, Unrecorded)) <= passes[e]
        /\ passes[e] + Cardinality(InStage(e, {"begin"})) <= Cardinality(Served(e))
    BY DEF WorkInv, Within
  <2>7. /\ notified'[e] + Cardinality(InStage(e, Unnotified)') <= passes'[e]
        /\ synced'[e] + Cardinality(InStage(e, Unsynced)') <= passes'[e]
        /\ inferences'[e] + Cardinality(InStage(e, Unrecorded)') <= passes'[e]
        /\ passes'[e] + Cardinality(InStage(e, {"begin"})') <= Cardinality(Served(e)')
    <3>1. notified[e] + Cardinality(InStage(e, Unnotified)') <= passes[e]
      BY <2>4, <2>5, <2>6
    <3>2. synced[e] + Cardinality(InStage(e, Unsynced)') <= passes[e]
      BY <2>4, <2>5, <2>6
    <3>3. inferences[e] + Cardinality(InStage(e, Unrecorded)') <= passes[e]
      BY <2>4, <2>5, <2>6
    <3>4. passes[e] + Cardinality(InStage(e, {"begin"})') <= Cardinality(Served(e)')
      BY <2>3, <2>4, <2>5, <2>6
    <3> QED
      BY <1>1, <3>1, <3>2, <3>3, <3>4
  <2> QED
    BY <2>7 DEF Within, Unnotified, Unsynced, Unrecorded
<1> QED
  BY <1>2, <1>3 DEF WorkInv

\* Every step keeps the work within what was asked for.
LEMMA WorkStep ==
  ASSUME Shape, WorkInv, [Next]_vars
  PROVE  WorkInv'
<1> USE DEF Shape, TypeOK
<1>a. ASSUME NEW q \in DOMAIN session
      PROVE  /\ q \in Requests /\ q \notin DOMAIN reply
             /\ StageOf(q) = session[q].at
             /\ EventOf(q) \in EventIds
             /\ IdOf[session[q].row.payload] = EventOf(q)
             /\ session[q].at # "insert" => EventOf(q) \in DOMAIN events
             /\ session[q].at = "insert" => q \notin Served(EventOf(q))
  BY <1>a, EventOfType DEF RequestsOK, EventOf, StageOf, Placed, PlacedAt, Served, Works
<1>b. ASSUME NEW q \in DOMAIN session, NEW to \in Stage \ {"insert"}, NEW row, NEW problems,
             Goto(q, to, row, problems), IdOf[row.payload] = EventOf(q),
             Paid(q, EventOf(q), to)
      PROVE  WorkInv'
  <2>1. Transit(q, EventOf(q), to)
    BY <1>b, GotoTransit
  <2> QED
    BY <1>a, <1>b, <2>1, WorkGoesOn
<1>c. ASSUME NEW q \in DOMAIN session, NEW status,
             session[q].at # "insert" => status \notin {"duplicate", "not_found"},
             Answer(q, EventOf(q), status), Paid(q, EventOf(q), "ended")
      PROVE  WorkInv'
  <2>1. Works(q) => status \notin {"duplicate", "not_found"}
    BY <1>c DEF Works
  <2>2. Transit(q, EventOf(q), "ended")
    BY <1>a, <1>c, <2>1, AnswerTransit
  <2> QED
    BY <1>a, <1>c, <2>2, WorkGoesOn
<1>d. ASSUME NEW q \in DOMAIN session, session[q].at # "insert", Raise(q),
             UNCHANGED <<passes, notified, synced, inferences>>
      PROVE  WorkInv'
  <2>1. Paid(q, EventOf(q), "rollback") /\ Paid(q, EventOf(q), "ended")
    BY <1>d, NothingPaid DEF Unrecorded
  <2>2. "rollback" \in Stage \ {"insert"}
    BY DEF Stage
  <2> QED
    BY <1>a, <1>b, <1>c, <1>d, <2>1, <2>2 DEF Raise
<1>1. ASSUME NEW d \in Deliveries, NEW p \in Payloads, LookUp(d, p)
      PROVE  WorkInv'
  <2>1. /\ d \in Requests /\ d \notin DOMAIN session \cup DOMAIN reply
        /\ UNCHANGED <<passes, notified, synced, inferences>>
    BY <1>1 DEF LookUp, Arrives, Requests, tables, tallies
  <2>2. IdOf[p] \in EventIds /\ NewRow(p).payload = p
    BY ConstantsAssumption DEF NewRow
  <2>3. Paid(d, IdOf[p], "ended") /\ Paid(d, IdOf[p], "insert")
    BY <2>1, NothingPaid DEF Unrecorded
  <2>4. CASE Answer(d, IdOf[p], "duplicate")
    <3>1. Transit(d, IdOf[p], "ended")
      BY <2>1, <2>4, AnswerTransit DEF Works
    <3> QED
      BY <2>2, <2>3, <3>1, WorkGoesOn
  <2>5. CASE Open(d, "insert", NewRow(p), {})
    <3>1. Transit(d, IdOf[p], "insert")
      BY <2>1, <2>2, <2>5, OpenTransit DEF Stage
    <3> QED
      BY <2>2, <2>3, <3>1, WorkGoesOn
  <2> QED
    BY <1>1, <2>4, <2>5 DEF LookUp
<1>2. ASSUME NEW r \in Replays, NEW e \in EventIds, Load(r, e)
      PROVE  WorkInv'
  <2>1. /\ r \in Requests /\ r \notin DOMAIN session \cup DOMAIN reply
        /\ UNCHANGED <<passes, notified, synced, inferences>>
    BY <1>2 DEF Load, Arrives, Requests, tables, tallies
  <2>2. Paid(r, e, "ended") /\ Paid(r, e, "dead_letter")
    BY <2>1, NothingPaid DEF Unrecorded
  <2>3. CASE Answer(r, e, "not_found")
    <3>1. Transit(r, e, "ended")
      BY <2>1, <2>3, AnswerTransit DEF Works
    <3> QED
      BY <2>2, <3>1, WorkGoesOn
  <2>4. CASE e \in DOMAIN events /\ Open(r, "begin", events[e], {})
    <3>1. IdOf[events[e].payload] = e
      BY <2>4 DEF Keyed
    <3>2. Transit(r, e, "begin") /\ r \notin Served(e)
      BY <2>1, <2>4, <3>1, OpenTransit DEF Stage
    <3>3. StageOf(r) = "ended"
      BY <2>1 DEF StageOf
    <3>4. Paid(r, e, "begin")
      BY <2>1, <3>2, <3>3 DEF Paid
    <3> QED
      BY <3>2, <3>4, WorkGoesOn
  <2>5. CASE e \in DOMAIN events /\ Open(r, "dead_letter", events[e], {"replays_exhausted"})
    <3>1. IdOf[events[e].payload] = e
      BY <2>5 DEF Keyed
    <3>2. Transit(r, e, "dead_letter")
      BY <2>1, <2>5, <3>1, OpenTransit DEF Stage
    <3> QED
      BY <2>2, <3>2, WorkGoesOn
  <2> QED
    BY <1>2, <2>3, <2>4, <2>5 DEF Load
<1>3. ASSUME NEW d \in Requests, Insert(d)
      PROVE  WorkInv'
  <2>1. /\ d \in DOMAIN session /\ session[d].at = "insert"
        /\ UNCHANGED <<passes, notified, synced, inferences>>
    BY <1>3 DEF Insert, At, tallies
  <2>2. CASE Goto(d, "begin", session[d].row, {})
    <3>1. Paid(d, EventOf(d), "begin")
      BY <1>a, <2>1 DEF Paid
    <3>2. "begin" \in Stage \ {"insert"}
      BY DEF Stage
    <3> QED
      BY <1>a, <1>b, <2>1, <2>2, <3>1, <3>2
  <2>3. CASE Answer(d, EventOf(d), "duplicate")
    <3>1. Paid(d, EventOf(d), "ended")
      BY <2>1, NothingPaid DEF Unrecorded
    <3> QED
      BY <1>c, <2>1, <2>3, <3>1
  <2> QED
    BY <1>3, <2>2, <2>3 DEF Insert
<1>4. ASSUME NEW q \in Requests, Begin(q)
      PROVE  WorkInv'
  <2>1. /\ q \in DOMAIN session /\ session[q].at = "begin"
        /\ Goto(q, "summarize", Begun(session[q].row), {})
        /\ passes' = Bump(passes, EventOf(q))
        /\ UNCHANGED <<notified, synced, inferences>>
    BY <1>4 DEF Begin, At
  <2>2. Begun(session[q].row).payload = session[q].row.payload
    BY <2>1, EventOfType DEF Begun, Row
  <2>3. Paid(q, EventOf(q), "summarize")
    BY <1>a, <2>1 DEF Paid
  <2>4. "summarize" \in Stage \ {"insert"}
    BY DEF Stage
  <2> QED
    BY <1>a, <1>b, <2>1, <2>2, <2>3, <2>4
<1>5. ASSUME NEW q \in Requests, Summarize(q)
      PROVE  WorkInv'
  <2>1. /\ q \in DOMAIN session /\ session[q].at = "summarize"
        /\ UNCHANGED <<passes, notified, synced, inferences>>
    BY <1>5 DEF Summarize, At, tables, tallies
  <2>2. CASE Goto(q, "notify", session[q].row, {})
    <3>1. Paid(q, EventOf(q), "notify")
      BY <1>a, <2>1 DEF Paid
    <3>2. "notify" \in Stage \ {"insert"}
      BY DEF Stage
    <3> QED
      BY <1>a, <1>b, <2>1, <2>2, <3>1, <3>2
  <2> QED
    BY <1>5, <1>d, <2>1, <2>2 DEF Summarize
<1>6. ASSUME NEW q \in Requests, Notify(q)
      PROVE  WorkInv'
  <2>1. /\ q \in DOMAIN session /\ session[q].at = "notify"
        /\ \/ Goto(q, "sync", session[q].row, {})
           \/ Goto(q, "sync", session[q].row, {"notification"})
        /\ notified' = notified \/ notified' = Bump(notified, EventOf(q))
        /\ UNCHANGED <<passes, synced, inferences>>
    BY <1>6 DEF Notify, At, tables
  <2>2. Paid(q, EventOf(q), "sync")
    BY <1>a, <2>1 DEF Paid
  <2>3. "sync" \in Stage \ {"insert"}
    BY DEF Stage
  <2> QED
    BY <1>a, <1>b, <2>1, <2>2, <2>3
<1>7. ASSUME NEW q \in Requests, Sync(q)
      PROVE  WorkInv'
  <2>1. /\ q \in DOMAIN session /\ session[q].at = "sync"
        /\ UNCHANGED <<passes, notified, inferences>>
    BY <1>7 DEF Sync, At, tables
  <2>2. ASSUME NEW problems, Goto(q, "finish", session[q].row, problems),
               synced' = synced \/ synced' = Bump(synced, EventOf(q))
        PROVE  WorkInv'
    <3>1. Paid(q, EventOf(q), "finish")
      BY <1>a, <2>1, <2>2 DEF Paid
    <3>2. "finish" \in Stage \ {"insert"}
      BY DEF Stage
    <3> QED
      BY <1>a, <1>b, <2>1, <2>2, <3>1, <3>2
  <2> QED
    BY <1>7, <1>d, <2>1, <2>2 DEF Sync
<1>8. ASSUME NEW q \in Requests, Finish(q)
      PROVE  WorkInv'
  <2> DEFINE new == Finished(session[q].row, session[q].problems)
  <2>1. /\ q \in DOMAIN session /\ session[q].at = "finish"
        /\ inferences' = Bump(inferences, EventOf(q))
        /\ \/ Goto(q, "dead_letter", new, {"partial_at_limit"})
           \/ Answer(q, EventOf(q), new.status)
        /\ UNCHANGED <<passes, notified, synced>>
    BY <1>8 DEF Finish, At, tallies
  <2>2. /\ new.payload = session[q].row.payload
        /\ new.status \in {"completed", "partially_completed"}
    BY <2>1, EventOfType DEF Finished, Row
  <2> HIDE DEF new
  <2>3. Paid(q, EventOf(q), "dead_letter") /\ Paid(q, EventOf(q), "ended")
    BY <1>a, <2>1 DEF Paid, Unrecorded
  <2>4. "dead_letter" \in Stage \ {"insert"}
    BY DEF Stage
  <2>5. new.status \notin {"duplicate", "not_found"}
    BY <2>2
  <2> QED
    BY <1>a, <1>b, <1>c, <2>1, <2>2, <2>3, <2>4, <2>5
<1>9. ASSUME NEW r \in Requests, Rollback(r)
      PROVE  WorkInv'
  <2>1. /\ r \in DOMAIN session /\ session[r].at = "rollback"
        /\ Goto(r, "mark_failed", events[EventOf(r)], {})
        /\ UNCHANGED <<passes, notified, synced, inferences>>
    BY <1>9 DEF Rollback, At, tables, tallies
  <2>2. IdOf[events[EventOf(r)].payload] = EventOf(r)
    BY <1>a, <2>1 DEF Keyed
  <2>3. Paid(r, EventOf(r), "mark_failed")
    BY <2>1, NothingPaid DEF Unrecorded
  <2>4. "mark_failed" \in Stage \ {"insert"}
    BY DEF Stage
  <2> QED
    BY <1>b, <2>1, <2>2, <2>3, <2>4
<1>10. ASSUME NEW r \in Requests, MarkFailed(r)
       PROVE  WorkInv'
  <2> DEFINE new == [session[r].row EXCEPT !.status = "failed",
                                           !.error_message = {"processing_failed"}]
  <2>1. /\ r \in DOMAIN session /\ session[r].at = "mark_failed"
        /\ \/ Goto(r, "dead_letter", new, {"processing_failed"})
           \/ Answer(r, EventOf(r), "failed")
        /\ UNCHANGED <<passes, notified, synced, inferences>>
    BY <1>10 DEF MarkFailed, At, tallies
  <2>2. new.payload = session[r].row.payload
    BY <2>1, EventOfType DEF Row
  <2> HIDE DEF new
  <2>3. Paid(r, EventOf(r), "dead_letter") /\ Paid(r, EventOf(r), "ended")
    BY <2>1, NothingPaid DEF Unrecorded
  <2>4. "dead_letter" \in Stage \ {"insert"}
    BY DEF Stage
  <2> QED
    BY <1>a, <1>b, <1>c, <2>1, <2>2, <2>3, <2>4
<1>11. ASSUME NEW r \in Requests, DeadLetter(r)
       PROVE  WorkInv'
  <2>1. /\ r \in DOMAIN session /\ Answer(r, EventOf(r), "dead_lettered")
        /\ UNCHANGED <<passes, notified, synced, inferences>>
    BY <1>11 DEF DeadLetter, At, tallies
  <2>2. Paid(r, EventOf(r), "ended")
    BY <2>1, NothingPaid DEF Unrecorded
  <2> QED
    BY <1>c, <2>1, <2>2
<1>12. ASSUME NEW q \in Requests, DatabaseError(q)
       PROVE  WorkInv'
  <2>1. /\ q \in DOMAIN session
        /\ \/ session[q].at # "insert" /\ Raise(q)
           \/ Answer(q, EventOf(q), "error")
        /\ UNCHANGED <<passes, notified, synced, inferences>>
    BY <1>12 DEF DatabaseError, At, tables, tallies
  <2>2. Paid(q, EventOf(q), "ended")
    BY <2>1, NothingPaid DEF Unrecorded
  <2> QED
    BY <1>c, <1>d, <2>1, <2>2
<1>13. CASE Crash
  BY <1>13, WorkCrash
<1>14. CASE UNCHANGED vars
  BY <1>14 DEF vars, tables, tallies, WorkInv, FewCalls, Within, InStage, Served, Works, EventOf
<1> QED
  BY <1>1, <1>2, <1>3, <1>4, <1>5, <1>6, <1>7, <1>8, <1>9, <1>10, <1>11, <1>12, <1>13, <1>14
     DEF Next, Arrival, Advance, Fault

LEMMA WorkInit == Init => WorkInv
<1> SUFFICES ASSUME Init PROVE WorkInv
  OBVIOUS
<1>1. DOMAIN session = {} /\ DOMAIN reply = {}
  BY DEF Init
<1>2. DOMAIN session \cup DOMAIN reply = {}
  BY <1>1
<1>3. FewCalls
  BY <1>2, FS_EmptySet DEF FewCalls
<1>4. ASSUME NEW e \in EventIds
      PROVE  Within(e)
  <2>1. ASSUME NEW S
        PROVE  Cardinality(InStage(e, S)) = 0
    <3>1. InStage(e, S) = {}
      BY <1>1 DEF InStage
    <3> QED
      BY <3>1, FS_EmptySet
  <2>2. Cardinality(Served(e)) = 0
    <3>1. Served(e) = {}
      BY <1>1 DEF Served, Works
    <3> QED
      BY <3>1, FS_EmptySet
  <2>3. passes[e] = 0 /\ notified[e] = 0 /\ synced[e] = 0 /\ inferences[e] = 0
    BY DEF Init
  <2> QED
    BY <2>1, <2>2, <2>3 DEF Within
<1> QED
  BY <1>3, <1>4 DEF WorkInv

\* What is paid for bounds what is done.
LEMMA WithinMeans ==
  ASSUME Shape, WorkInv
  PROVE  WorkBounded
<1>1. ASSUME NEW e \in EventIds
      PROVE  /\ {notified[e], synced[e], inferences[e]} \subseteq 0 .. passes[e]
             /\ passes[e] <= Cardinality(Served(e))
  <2>1. /\ passes[e] \in Nat /\ notified[e] \in Nat /\ synced[e] \in Nat
        /\ inferences[e] \in Nat
    BY DEF Shape, TypeOK, CountersOK
  <2>2. ASSUME NEW S
        PROVE  Cardinality(InStage(e, S)) \in Nat
    BY InStageCounted DEF WorkInv
  <2>3. Cardinality(Served(e)) \in Nat
    BY ServedCounted DEF WorkInv
  <2>4. /\ notified[e] + Cardinality(InStage(e, Unnotified)) <= passes[e]
        /\ synced[e] + Cardinality(InStage(e, Unsynced)) <= passes[e]
        /\ inferences[e] + Cardinality(InStage(e, Unrecorded)) <= passes[e]
        /\ passes[e] + Cardinality(InStage(e, {"begin"})) <= Cardinality(Served(e))
    BY DEF WorkInv, Within
  <2>5. notified[e] <= passes[e]
    BY <2>1, <2>2, <2>4
  <2>6. synced[e] <= passes[e]
    BY <2>1, <2>2, <2>4
  <2>7. inferences[e] <= passes[e]
    BY <2>1, <2>2, <2>4
  <2>8. passes[e] <= Cardinality(Served(e))
    BY <2>1, <2>2, <2>3, <2>4
  <2> QED
    BY <2>1, <2>5, <2>6, <2>7, <2>8
<1> QED
  BY <1>1 DEF WorkBounded

\* Whatever overlaps, raises or is rolled back, an event is given no more passes
\* than calls about it were served, and no more hand-offs than passes
\* (EventProcessor.process, EventReplayService.replay).
THEOREM WorkBoundedHolds == Spec => []WorkBounded
<1>1. Shape /\ WorkInv /\ [Next]_vars => WorkInv'
  BY WorkStep
<1>2. Inv => Shape
  BY DEF Inv
<1>3. Shape /\ WorkInv => WorkBounded
  BY WithinMeans
<1> QED
  BY WorkInit, <1>1, <1>2, <1>3, Invariance, PTL DEF Spec
=============================================================================
