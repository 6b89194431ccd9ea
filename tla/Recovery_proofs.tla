--------------------------- MODULE Recovery_proofs ---------------------------
(***************************************************************************)
(* What holds of Recovery however often calls are made again: the          *)
(* lifecycle keeps its promises when receipts are taken back or lost,      *)
(* since nobody in the program reads them, one delivery starts the work,   *)
(* and with operators who wait for it the ledger is kept.                  *)
(***************************************************************************)
EXTENDS ExclusiveLifecycle_proofs, Recovery

(***************************************************************************)
(* The lifecycle under callers that repeat themselves.                     *)
(***************************************************************************)

\* A step of Recovery is one of the lifecycle, or takes a receipt from a caller.
LEMMA RecoverySteps ==
  ASSUME [RecoveryNext]_recovery_vars
  PROVE  \/ [Next]_vars
         \/ \E q \in Requests : Reissue(q)
         \/ \E d \in Deliveries : LoseReceipt(d)
<1>1. CASE UNCHANGED recovery_vars
  BY <1>1 DEF recovery_vars
<1>2. ASSUME NEW d \in Deliveries, Deliver(d)
      PROVE  Next
  BY <1>2, RecoveryAssumption DEF Deliver, Next, Arrival
<1>3. ASSUME NEW r \in Replays, NEW e \in EventIds, Replay(r, e)
      PROVE  Next
  BY <1>3 DEF Replay, Next, Arrival
<1>4. ASSUME NEW q \in Requests, GoOn(q)
      PROVE  Next
  BY <1>4 DEF GoOn, Next
<1>5. CASE CountedFault
  BY <1>5 DEF CountedFault, Next
<1> QED
  BY <1>1, <1>2, <1>3, <1>4, <1>5 DEF RecoveryNext

\* What a step that takes a receipt away, or loses it, leaves of the receipts.
LEMMA ReceiptFacts ==
  ASSUME TypeOK,
         \/ \E q \in Requests : Reissue(q)
         \/ \E d \in Deliveries : LoseReceipt(d)
  PROVE  /\ UNCHANGED <<events, dead_letters, inferences, session, passes, notified, synced>>
         /\ DOMAIN reply' \subseteq DOMAIN reply
         /\ reply' \in [DOMAIN reply' -> Receipt]
         /\ \A q \in DOMAIN reply' :
              /\ reply'[q].event = reply[q].event
              /\ reply'[q] = reply[q] \/ reply'[q].status = "lost"
<1>0. reply \in [DOMAIN reply -> Receipt]
  BY DEF TypeOK, RequestsOK
<1>1. ASSUME NEW q \in Requests, Reissue(q)
      PROVE  /\ DOMAIN reply' \subseteq DOMAIN reply
             /\ reply' \in [DOMAIN reply' -> Receipt]
             /\ \A c \in DOMAIN reply' : reply'[c] = reply[c]
  BY <1>0, <1>1, RestrictType DEF Reissue, Restrict
<1>2. ASSUME NEW d \in Deliveries, LoseReceipt(d)
      PROVE  /\ DOMAIN reply' = DOMAIN reply
             /\ reply' \in [DOMAIN reply' -> Receipt]
             /\ \A c \in DOMAIN reply' :
                  /\ reply'[c].event = reply[c].event
                  /\ reply'[c] = reply[c] \/ reply'[c].status = "lost"
  <2>1. d \in DOMAIN reply /\ reply' = [reply EXCEPT ![d].status = "lost"]
    BY <1>2 DEF LoseReceipt
  <2>2. reply[d] \in Receipt
    BY <1>0, <2>1
  <2>3. reply'[d].event = reply[d].event /\ reply'[d].status = "lost" /\ reply'[d] \in Receipt
    BY <2>1, <2>2 DEF Receipt
  <2> QED
    BY <1>0, <2>1, <2>3
<1>3. UNCHANGED <<events, dead_letters, inferences, session, passes, notified, synced>>
  BY DEF Reissue, LoseReceipt, tables, tallies
<1> QED
  BY <1>1, <1>2, <1>3

\* A promise to a caller is broken by no receipt that is taken back or lost.
LEMMA ReceiptStep ==
  ASSUME Inv,
         \/ \E q \in Requests : Reissue(q)
         \/ \E d \in Deliveries : LoseReceipt(d)
  PROVE  Inv'
<1>0. /\ UNCHANGED <<events, dead_letters, inferences, session, passes, notified, synced>>
      /\ DOMAIN reply' \subseteq DOMAIN reply /\ reply' \in [DOMAIN reply' -> Receipt]
      /\ \A q \in DOMAIN reply' :
           /\ reply'[q].event = reply[q].event
           /\ reply'[q] = reply[q] \/ reply'[q].status = "lost"
  BY ReceiptFacts DEF Inv, Shape
<1>1. TypeOK'
  BY <1>0 DEF Inv, Shape, TypeOK, TablesOK, RequestsOK, CountersOK
<1>2. ASSUME NEW q \in DOMAIN session
      PROVE  PlacedAt(q)' /\ Knows(q)'
  BY <1>0, <1>2 DEF Inv, Shape, Placed, PlacedAt, RequestsKnow, Knows, EventOf
<1>3. ASSUME NEW e \in DOMAIN events
      PROVE  GoodRow(e)'
  BY <1>0, <1>3 DEF Inv, GoodRows, GoodRow, HandedOff
<1>4. AckImpliesStored'
  BY <1>0 DEF Inv, AckImpliesStored
<1>5. AcceptedOnce'
  <2>1. ASSUME NEW e \in EventIds, NEW d \in Owners(e)'
        PROVE  d \in Owners(e)
    BY <1>0, <2>1 DEF Owners, Works, EventOf
  <2> QED
    BY <2>1 DEF Inv, AcceptedOnce
<1>6. CompletedWasHandedOff'
  <2>1. ASSUME NEW e \in EventIds, Completed(e)'
        PROVE  Completed(e)
    BY <1>0, <2>1 DEF Completed
  <2> QED
    BY <1>0, <2>1 DEF Inv, CompletedWasHandedOff
<1> QED
  BY <1>0, <1>1, <1>2, <1>3, <1>4, <1>5, <1>6
     DEF Inv, Shape, Placed, Keyed, RequestsKnow, GoodRows, DeadLetterExhausted

LEMMA LifecycleStep ==
  ASSUME Inv, [RecoveryNext]_recovery_vars
  PROVE  Inv'
BY RecoverySteps, ReceiptStep, InvStep

(***************************************************************************)
(* Who starts the work on an event.                                        *)
(***************************************************************************)

\* The deliveries that stored e and are about to begin its pass.
Starting(e) == {d \in Deliveries : At(d, "begin") /\ EventOf(d) = e}

Started(e) ==
  /\ e \notin DOMAIN events => worked[e] = 0
  /\ \A c, d \in Starting(e) : c = d
  /\ Starting(e) # {} => worked[e] = 0
  /\ worked[e] <= 1

RecoveryInv ==
  /\ Inv
  /\ worked \in [EventIds -> Nat]
  /\ \A e \in EventIds : Started(e)

\* No delivery comes to start the work.
NoneStarts == \A e \in EventIds : Starting(e)' \subseteq Starting(e)

LEMMA GotoStarts ==
  ASSUME RequestsOK, NEW q \in DOMAIN session,
         NEW stage, NEW row, NEW problems, Goto(q, stage, row, problems),
         stage # "begin"
  PROVE  /\ NoneStarts
         /\ \A e \in EventIds : q \notin Starting(e)'
<1>1. /\ DOMAIN session' = DOMAIN session
      /\ session'[q] = [at |-> stage, row |-> row, problems |-> problems]
      /\ \A r \in DOMAIN session : r # q => session'[r] = session[r]
  BY GotoFacts
<1> QED
  BY <1>1 DEF NoneStarts, Starting, At, EventOf

LEMMA AnswerStarts ==
  ASSUME RequestsOK, NEW q, q \notin DOMAIN reply, NEW e, NEW status, Answer(q, e, status)
  PROVE  NoneStarts
<1>1. /\ DOMAIN session' = DOMAIN session \ {q}
      /\ \A r \in DOMAIN session' : session'[r] = session[r]
  BY AnswerFacts
<1> QED
  BY <1>1 DEF NoneStarts, Starting, At, EventOf

LEMMA OpenStarts ==
  ASSUME RequestsOK, NEW q, q \notin DOMAIN session,
         NEW stage, NEW row, NEW problems, Open(q, stage, row, problems),
         stage # "begin" \/ q \notin Deliveries
  PROVE  NoneStarts
<1>1. /\ DOMAIN session' = DOMAIN session \cup {q}
      /\ session'[q] = [at |-> stage, row |-> row, problems |-> problems]
      /\ \A r \in DOMAIN session : session'[r] = session[r]
  BY OpenFacts
<1> QED
  BY <1>1 DEF NoneStarts, Starting, At, EventOf

LEMMA RaiseStarts ==
  ASSUME RequestsOK, NEW q \in DOMAIN session, Raise(q)
  PROVE  NoneStarts
BY GotoStarts, AnswerStarts DEF Raise, RequestsOK

\* Only an insert makes a delivery start the work.
LEMMA NoneStartsStep ==
  ASSUME Shape, [Next]_vars, \A d \in Requests : ~Insert(d)
  PROVE  NoneStarts
<1> USE DEF Shape, TypeOK
<1>0. \A q \in DOMAIN session : q \notin DOMAIN reply
  BY DEF RequestsOK
<1>1. ASSUME NEW d \in Deliveries, NEW p \in Payloads, LookUp(d, p)
      PROVE  NoneStarts
  BY <1>1, OpenStarts, AnswerStarts DEF LookUp, Arrives
<1>2. ASSUME NEW r \in Replays, NEW e \in EventIds, Load(r, e)
      PROVE  NoneStarts
  <2>1. r \notin Deliveries /\ r \notin DOMAIN session /\ r \notin DOMAIN reply
    BY <1>2, ConstantsAssumption DEF Load, Arrives
  <2> QED
    BY <1>2, <2>1, OpenStarts, AnswerStarts DEF Load
<1>3. ASSUME NEW q \in Requests, Begin(q) \/ Notify(q) \/ Rollback(q)
      PROVE  NoneStarts
  <2>1. q \in DOMAIN session
    BY <1>3 DEF Begin, Notify, Rollback, At
  <2> QED
    BY <1>3, <2>1, GotoStarts DEF Begin, Notify, Rollback
<1>4. ASSUME NEW q \in Requests, Summarize(q) \/ Sync(q)
      PROVE  NoneStarts
  <2>1. q \in DOMAIN session
    BY <1>4 DEF Summarize, Sync, At
  <2> QED
    BY <1>4, <2>1, GotoStarts, RaiseStarts DEF Summarize, Sync
<1>5. ASSUME NEW q \in Requests, Finish(q) \/ MarkFailed(q) \/ DeadLetter(q)
      PROVE  NoneStarts
  <2>1. q \in DOMAIN session /\ q \notin DOMAIN reply
    BY <1>0, <1>5 DEF Finish, MarkFailed, DeadLetter, At
  <2> QED
    BY <1>5, <2>1, GotoStarts, AnswerStarts DEF Finish, MarkFailed, DeadLetter
<1>6. ASSUME NEW q \in Requests, DatabaseError(q)
      PROVE  NoneStarts
  <2>1. q \in DOMAIN session /\ q \notin DOMAIN reply
    BY <1>0, <1>6 DEF DatabaseError, At
  <2> QED
    BY <1>6, <2>1, RaiseStarts, AnswerStarts DEF DatabaseError
<1>7. CASE Crash
  BY <1>0, <1>7, CrashFacts DEF NoneStarts, Starting, At, EventOf
<1>8. CASE UNCHANGED vars
  BY <1>8 DEF vars, NoneStarts, Starting, At, EventOf
<1> QED
  BY <1>1, <1>2, <1>3, <1>4, <1>5, <1>6, <1>7, <1>8 DEF Next, Arrival, Advance, Fault

\* Where no delivery comes to start and none begins, what is started stays so.
LEMMA NothingStarted ==
  ASSUME RecoveryInv, NoneStarts, worked' = worked,
         \A e \in DOMAIN events : e \in DOMAIN events'
  PROVE  \A e \in EventIds : Started(e)'
BY DEF RecoveryInv, Started, NoneStarts

\* An insert stores an event on which nobody worked.
LEMMA InsertStarts ==
  ASSUME RecoveryInv, NEW d \in Requests, Insert(d), worked' = worked
  PROVE  \A e \in EventIds : Started(e)'
<1> DEFINE f == EventOf(d)
<1>0. /\ d \in DOMAIN session /\ d \notin DOMAIN reply /\ session[d].at = "insert"
      /\ RequestsOK /\ Shape
  BY DEF RecoveryInv, Inv, Shape, TypeOK, RequestsOK, Insert, At
<1>1. CASE Answer(d, f, "duplicate") /\ UNCHANGED events
  <2>1. NoneStarts
    BY <1>0, <1>1, AnswerStarts
  <2> QED
    BY <1>1, <2>1, NothingStarted
<1>2. CASE /\ ~UniqueViolation(session[d].row.payload)
           /\ events' = Put(events, f, session[d].row)
           /\ Goto(d, "begin", session[d].row, {})
  <2>1. f \notin DOMAIN events /\ f \in EventIds
    BY <1>0, <1>2, EventOfType DEF UniqueViolation, EventOf
  <2>2. /\ DOMAIN session' = DOMAIN session
        /\ session'[d] = [at |-> "begin", row |-> session[d].row, problems |-> {}]
        /\ \A r \in DOMAIN session : r # d => session'[r] = session[r]
    BY <1>0, <1>2, GotoFacts
  <2>3. EventOf(d)' = f
    BY <2>2 DEF EventOf
  <2>4. ASSUME NEW e \in EventIds, NEW c \in Starting(e)', c # d
        PROVE  c \in Starting(e)
    BY <2>2, <2>4 DEF Starting, At, EventOf
  <2>5. ASSUME NEW e \in EventIds, d \in Starting(e)'
        PROVE  e = f
    BY <2>3, <2>5 DEF Starting
  <2>6. Starting(f) = {}
    BY <1>0, <2>1 DEF Shape, Placed, PlacedAt, Starting, At
  <2>7. DOMAIN events' = DOMAIN events \cup {f}
    BY <1>2 DEF Put
  <2> HIDE DEF f
  <2>8. ASSUME NEW e \in EventIds
        PROVE  Started(e)'
    BY <2>1, <2>4, <2>5, <2>6, <2>7 DEF RecoveryInv, Started
  <2> QED
    BY <2>8
<1> QED
  BY <1>1, <1>2 DEF Insert

\* The delivery that begins is the one that stored the event, and the first.
LEMMA BeginStarts ==
  ASSUME RecoveryInv, NEW q \in Deliveries, Begin(q),
         worked' = Bump(worked, EventOf(q))
  PROVE  worked' \in [EventIds -> Nat] /\ \A e \in EventIds : Started(e)'
<1> DEFINE new == Begun(session[q].row)
<1>0. /\ q \in DOMAIN session /\ RequestsOK /\ At(q, "begin")
      /\ Goto(q, "summarize", new, {}) /\ DOMAIN events' = DOMAIN events
  BY DEF RecoveryInv, Inv, Shape, TypeOK, Begin, At, Commit
<1>f. EventOf(q) \in EventIds /\ EventOf(q) \in DOMAIN events
  BY <1>0, EventOfType DEF RecoveryInv, Inv, Shape, Placed, PlacedAt, At
<1>1. PICK f \in EventIds : f = EventOf(q) /\ f \in DOMAIN events
  BY <1>f
<1>2. NoneStarts /\ q \notin Starting(f)'
  BY <1>0, <1>1, GotoStarts
<1>3. q \in Starting(f)
  BY <1>0, <1>1 DEF Starting
<1>4. worked[f] = 0 /\ Starting(f) = {q}
  BY <1>1, <1>3 DEF RecoveryInv, Started
<1>5. Starting(f)' = {}
  BY <1>1, <1>2, <1>4 DEF NoneStarts
<1>6. /\ worked' \in [EventIds -> Nat] /\ worked'[f] = 1
      /\ \A e \in EventIds : e # f => worked'[e] = worked[e]
  BY <1>1, <1>4, BumpType DEF RecoveryInv, Bump
<1>7. ASSUME NEW e \in EventIds
      PROVE  Started(e)'
  BY <1>0, <1>1, <1>2, <1>5, <1>6, <1>7 DEF RecoveryInv, Started, NoneStarts
<1> QED
  BY <1>6, <1>7

LEMMA RecoveryInvInit == RecoveryInit => RecoveryInv
<1> SUFFICES ASSUME RecoveryInit PROVE RecoveryInv
  OBVIOUS
<1>1. Inv
  BY InvInit DEF RecoveryInit
<1>2. session = [q \in {} |-> {}] /\ worked = [e \in EventIds |-> 0]
  BY DEF RecoveryInit, Init
<1>3. \A e \in EventIds : Starting(e) = {}
  BY <1>2 DEF Starting, At
<1> QED
  BY <1>1, <1>2, <1>3 DEF RecoveryInv, Started

LEMMA RecoveryInvStep ==
  ASSUME RecoveryInv, [RecoveryNext]_recovery_vars
  PROVE  RecoveryInv'
<1>0. Inv' /\ Inv /\ Shape
  BY LifecycleStep DEF RecoveryInv, Inv
<1>a. ASSUME [Next]_vars, \A d \in Requests : ~Insert(d), worked' = worked
      PROVE  \A e \in EventIds : Started(e)'
  BY <1>0, <1>a, NoneStartsStep, GrownStep, NothingStarted DEF Grown
<1>b. ASSUME [Next]_vars, worked' = worked
      PROVE  \A e \in EventIds : Started(e)'
  BY <1>a, <1>b, InsertStarts
<1>1. CASE UNCHANGED recovery_vars
  BY <1>0, <1>1, <1>b DEF recovery_vars, RecoveryInv
<1>2. ASSUME NEW d \in Deliveries, Deliver(d)
      PROVE  RecoveryInv'
  <2>1. Next /\ worked' = worked
    BY <1>2, RecoveryAssumption DEF Deliver, Next, Arrival
  <2> QED
    BY <1>0, <1>b, <2>1 DEF RecoveryInv
<1>3. ASSUME NEW r \in Replays, NEW e \in EventIds, Replay(r, e)
      PROVE  RecoveryInv'
  <2>1. Next /\ worked' = worked
    BY <1>3 DEF Replay, Next, Arrival
  <2> QED
    BY <1>0, <1>b, <2>1 DEF RecoveryInv
<1>4. ASSUME NEW q \in Requests, GoOn(q)
      PROVE  RecoveryInv'
  <2>1. CASE q \in Deliveries /\ At(q, "begin")
    <3>1. Begin(q)
      BY <1>4, <2>1 DEF GoOn, Advance, Insert, Begin, Summarize, Notify, Sync, Finish,
                        Rollback, MarkFailed, DeadLetter, At
    <3>2. worked' = Bump(worked, EventOf(q))
      BY <1>4, <2>1 DEF GoOn
    <3> QED
      BY <1>0, <2>1, <3>1, <3>2, BeginStarts DEF RecoveryInv
  <2>2. CASE ~(q \in Deliveries /\ At(q, "begin"))
    <3>1. Next /\ worked' = worked
      BY <1>4, <2>2 DEF GoOn, Next
    <3> QED
      BY <1>0, <1>b, <3>1 DEF RecoveryInv
  <2> QED
    BY <2>1, <2>2
<1>5. ASSUME \/ \E q \in Requests : Reissue(q)
             \/ \E d \in Deliveries : LoseReceipt(d) /\ worked' = worked
      PROVE  RecoveryInv'
  <2>1. UNCHANGED <<events, session, worked>>
    BY <1>5 DEF Reissue, LoseReceipt, tables
  <2>2. \A e \in EventIds : Starting(e)' = Starting(e)
    BY <2>1 DEF Starting, At, EventOf
  <2> QED
    BY <1>0, <2>1, <2>2 DEF RecoveryInv, Started
<1>6. CASE CountedFault
  <2>1. CASE Fault
    <3>1. Next /\ worked' = worked
      BY <1>6, <2>1 DEF CountedFault, Next
    <3> QED
      BY <1>0, <1>b, <3>1 DEF RecoveryInv
  <2>2. CASE \E d \in Deliveries : LoseReceipt(d)
    BY <1>5, <1>6, <2>2 DEF CountedFault
  <2> QED
    BY <1>6, <2>1, <2>2 DEF CountedFault
<1> QED
  BY <1>1, <1>2, <1>3, <1>4, <1>5, <1>6 DEF RecoveryNext

\* Whatever calls are made again, the invariant is kept.
THEOREM RecoveryInvariance == RecoverySpec => []RecoveryInv
BY RecoveryInvInit, RecoveryInvStep, PTL DEF RecoverySpec

\* However often deliveries are made again, whatever is lost and whoever overlaps
\* whom, one delivery starts the work on an event (receive_highlevel_webhook).
THEOREM WorkedOnceHolds == RecoverySpec => []WorkedOnce
<1>1. RecoveryInv => WorkedOnce
  BY DEF RecoveryInv, Started, WorkedOnce
<1> QED
  BY <1>1, RecoveryInvariance, PTL

(***************************************************************************)
(* The lifecycle's promises to callers that repeat themselves.             *)
(***************************************************************************)

\* A sender that delivers until it is told to stop is told so only of a stored
\* event (receive_highlevel_webhook), whatever receipts it lost before.
THEOREM RecoveryAckImpliesStored == RecoverySpec => []AckImpliesStored
<1>1. RecoveryInv => AckImpliesStored
  BY DEF RecoveryInv, Inv
<1> QED
  BY <1>1, RecoveryInvariance, PTL

\* However often an event is delivered and replayed again, completed means handed
\* off (EventProcessor.process).
THEOREM RecoveryCompletedWasHandedOff == RecoverySpec => []CompletedWasHandedOff
<1>1. RecoveryInv => CompletedWasHandedOff
  BY DEF RecoveryInv, Inv
<1> QED
  BY <1>1, RecoveryInvariance, PTL

\* With operators who wait, requests stay alone with their events.
LEMMA ExclusiveRecoveryStep ==
  ASSUME Exclusive, ExclusiveInv, [RecoveryNext]_recovery_vars
  PROVE  ExclusiveInv' /\ [Ledger!Next]_(Ledger!vars)
<1>1. CASE [Next]_vars
  BY <1>1, ExclusiveStep, LedgerStep
<1>2. CASE \/ \E q \in Requests : Reissue(q)
           \/ \E d \in Deliveries : LoseReceipt(d)
  <2>1. UNCHANGED <<events, dead_letters, session, passes>>
    BY <1>2 DEF Reissue, LoseReceipt, tables, tallies
  <2>2. Inv'
    BY <1>2, ReceiptStep DEF ExclusiveInv
  <2>3. Alone' /\ Fit' /\ AllExact'
    BY <2>1 DEF ExclusiveInv, Alone, Works, Fit, Fits, EventOf, AllExact, Exact
  <2>4. UNCHANGED Ledger!vars
    BY <2>1 DEF Ledger!vars
  <2> QED
    BY <2>2, <2>3, <2>4 DEF ExclusiveInv
<1> QED
  BY <1>1, <1>2, RecoverySteps

\* So the exact counts of ExclusiveInv are kept through every repetition.
THEOREM ExclusiveRecoveryInvariance == ASSUME Exclusive PROVE RecoverySpec => []ExclusiveInv
<1>1. RecoveryInit => ExclusiveInv
  BY ExclusiveInit DEF RecoveryInit
<1> QED
  BY <1>1, ExclusiveRecoveryStep, PTL DEF RecoverySpec

\* However often calls about an event are made again, its rows tell the story of the
\* ledger: accepted once, attempted up to the cap, buried at the cap and for good.
THEOREM RecoveryImplementsLedger == ASSUME Exclusive PROVE RecoverySpec => ImplementsLedger
<1>1. RecoveryInit => Ledger!Init
  BY DEF RecoveryInit, Init, Ledger!Init
<1> QED
  BY <1>1, ExclusiveRecoveryInvariance, ExclusiveRecoveryStep, PTL
     DEF RecoverySpec, ImplementsLedger, Ledger!Spec
=============================================================================
