------------------------ MODULE IntakeRefinement_proofs ------------------------
(***************************************************************************)
(* Intake implements EventLifecycle: the steps of a webhook call up to its *)
(* lookup, and those of an operator's call, do nothing to the tables; the  *)
(* lookup, the insert and its failures are EventLifecycle's.               *)
(***************************************************************************)
EXTENDS Intake_proofs

AtWork == {"insert", "accepted", "duplicate", "refused"}

\* What a step leaves of the other requests.
LEMMA OthersStand ==
  ASSUME NEW q, Moves(q), NEW r \in DOMAIN request, r # q
  PROVE  /\ request'[r] = request[r] /\ r \in DOMAIN request'
         /\ \A s : At(r, s)' <=> At(r, s)
         /\ Carried(r)' = Carried(r)
<1>1. request'[r] = request[r] /\ r \in DOMAIN request'
  BY DEF Moves
<1> QED
  BY <1>1 DEF At, Carried

LEMMA SameStands ==
  ASSUME NEW q, Moves(q), NEW S, NEW r, r # q
  PROVE  r \in StandsAt(S)' <=> r \in StandsAt(S)
BY DEF Moves, StandsAt

\* A step that touches no row, of a request that is not at work at the tables and
\* does not come to be, is none to EventLifecycle.
LEMMA Unseen ==
  ASSUME Inv, NEW q, Moves(q), stored' = stored,
         q \in DOMAIN request => request[q].at \notin AtWork,
         request'[q].at \notin AtWork
  PROVE  UNCHANGED <<Rows, Sessions, Receipts>>
<1>1. ASSUME NEW S, S \subseteq AtWork
      PROVE  StandsAt(S)' = StandsAt(S) /\ q \notin StandsAt(S)
  <2>1. q \notin StandsAt(S) /\ q \notin StandsAt(S)'
    BY <1>1 DEF StandsAt
  <2>2. \A r : r \in StandsAt(S)' <=> r \in StandsAt(S)
    BY <2>1, SameStands
  <2> QED
    BY <2>1, <2>2 DEF StandsAt
<1>2. \A S : StandsAt(S) \subseteq DOMAIN request
  BY DEF StandsAt
<1>3. Sessions' = Sessions
  BY <1>1, <1>2, OthersStand DEF Sessions, AtWork
<1>4. Receipts' = Receipts
  BY <1>1, <1>2, OthersStand DEF Receipts, AtWork
<1> QED
  BY <1>3, <1>4 DEF Rows

\* The payload that a request at the lookup or the insert carries.
LEMMA CarriedIs ==
  ASSUME Inv, NEW q \in DOMAIN request, request[q].at \in {"lookup", "insert"},
         NEW p \in request[q].call.json
  PROVE  /\ Carried(q) = p
         /\ p \in ValidPayloads /\ IdOf[p] = EventId(p) /\ EventId(p) \in Ids
<1>1. p \in Payload /\ Valid(p) /\ \A r \in request[q].call.json : r = p
  BY CarriedPayload
<1>2. Carried(q) = p
  BY <1>1 DEF Carried
<1>3. request[q].call.to = "webhook"
  BY CallOf DEF Passed
<1>4. p \in ValidPayloads
  BY <1>1, <1>3, CallOf DEF ValidPayloads
<1> QED
  BY <1>2, <1>4 DEF IdOf, Ids

\* A request that is answered ends its session with its receipt.
LEMMA AnswerIsSeen ==
  ASSUME Inv, NEW q \in DOMAIN request, request[q].at \in {"lookup", "insert"},
         NEW p \in request[q].call.json,
         NEW step \in {"duplicate", "refused"}, Goto(q, step)
  PROVE  /\ Lifecycle!Answer(q, EventId(p), IF step = "refused" THEN "error" ELSE "duplicate")
         /\ Rows' = Rows
<1> DEFINE note == [status |-> IF step = "refused" THEN "error" ELSE "duplicate",
                    event |-> EventId(p)]
<1>1. /\ Moves(q) /\ q \in DOMAIN request'
      /\ request'[q].at = step /\ request'[q].call = request[q].call
  BY GotoMoves DEF Moves
<1>2. Carried(q)' = p
  BY <1>1, CarriedIs DEF Carried
<1>3. \A r \in DOMAIN request : r # q =>
        /\ \A s : At(r, s)' <=> At(r, s)
        /\ Carried(r)' = Carried(r)
  BY <1>1, OthersStand
<1>4. StandsAt({"insert", "accepted"})' = StandsAt({"insert", "accepted"}) \ {q}
  <2>1. q \notin StandsAt({"insert", "accepted"})'
    BY <1>1 DEF StandsAt
  <2>2. \A r : r # q =>
          (r \in StandsAt({"insert", "accepted"})' <=> r \in StandsAt({"insert", "accepted"}))
    BY <1>1, SameStands
  <2> QED
    BY <2>1, <2>2
<1>5. StandsAt({"duplicate", "refused"})' = StandsAt({"duplicate", "refused"}) \cup {q}
  <2>1. q \in StandsAt({"duplicate", "refused"})'
    BY <1>1 DEF StandsAt
  <2>2. \A r : r # q =>
          (r \in StandsAt({"duplicate", "refused"})' <=> r \in StandsAt({"duplicate", "refused"}))
    BY <1>1, SameStands
  <2> QED
    BY <2>1, <2>2
<1>6. \A S : StandsAt(S) \subseteq DOMAIN request
  BY DEF StandsAt
<1>7. Sessions' = [r \in DOMAIN Sessions \ {q} |-> Sessions[r]]
  BY <1>3, <1>4, <1>6 DEF Sessions
<1>8. At(q, "refused")' <=> step = "refused"
  BY <1>1 DEF At
<1>9. q \notin StandsAt({"duplicate", "refused"})
  BY DEF StandsAt
<1>10. Receipts' = [r \in DOMAIN Receipts \cup {q} |-> IF r = q THEN note ELSE Receipts[r]]
  BY <1>2, <1>3, <1>5, <1>6, <1>8, <1>9 DEF Receipts
<1>11. Rows' = Rows
  BY DEF Goto, Rows
<1> QED
  BY <1>7, <1>10, <1>11
     DEF Lifecycle!Answer, Lifecycle!Restrict, Lifecycle!Put

\* Nothing of the lifecycle but its rows, sessions and receipts moves.
LEMMA OnlyTheseMove ==
  ASSUME Rows' = Rows
  PROVE  UNCHANGED <<Lifecycle!tables, Lifecycle!tallies>>
BY DEF Lifecycle!tables, Lifecycle!tallies, NoneYet

\* A lookup is EventLifecycle's, of the payload carried.
LEMMA LookUpIsSeen ==
  ASSUME Inv, NEW q, LookUp(q)
  PROVE  Lifecycle!Next
<1>1. q \in DOMAIN request /\ request[q].at = "lookup" /\ q \in HttpRequests
  BY CallOf DEF LookUp, At
<1>2. PICK p \in request[q].call.json :
        Goto(q, IF Matches(p) # {} THEN "duplicate" ELSE "insert")
  BY DEF LookUp
<1>3. /\ p \in ValidPayloads /\ IdOf[p] = EventId(p) /\ EventId(p) \in Ids
      /\ Carried(q) = p
  BY <1>1, CarriedIs
<1>4. Lifecycle!Arrives(q, IdOf[p])
  BY <1>1 DEF Lifecycle!Arrives, Sessions, Receipts, StandsAt
<1>5. Lifecycle!Duplicate(p) <=> Matches(p) # {}
  <2>1. \A e \in DOMAIN stored : Rows[e].payload = stored[e]
    BY DEF Rows, RowOf
  <2>2. DOMAIN Rows = DOMAIN stored
    BY DEF Rows
  <2>3. \A e \in DOMAIN stored : PayloadHash(stored[e]) = PayloadHash(p) <=> stored[e] = p
    BY PayloadHashInjective
  <2> QED
    BY <1>3, <2>1, <2>2, <2>3 DEF Lifecycle!Duplicate, Matches
<1>a. ASSUME Lifecycle!LookUp(q, p)
      PROVE  Lifecycle!Next
  BY <1>1, <1>3, <1>a DEF Lifecycle!Next, Lifecycle!Arrival
<1>6. CASE Matches(p) # {}
  <2>1. Goto(q, "duplicate")
    BY <1>2, <1>6
  <2>2. Lifecycle!Answer(q, EventId(p), "duplicate") /\ Rows' = Rows
    BY <1>1, <2>1, AnswerIsSeen
  <2> QED
    BY <1>3, <1>4, <1>5, <1>6, <1>a, <2>2, OnlyTheseMove DEF Lifecycle!LookUp
<1>7. CASE Matches(p) = {}
  <2>1. Goto(q, "insert")
    BY <1>2, <1>7
  <2>2. /\ Moves(q) /\ q \in DOMAIN request'
        /\ request'[q].at = "insert" /\ request'[q].call = request[q].call
    BY <1>1, <2>1, GotoMoves DEF Moves
  <2>3. Carried(q)' = p /\ At(q, "insert")'
    BY <1>3, <2>2 DEF Carried, At
  <2>4. \A r \in DOMAIN request : r # q =>
          /\ \A s : At(r, s)' <=> At(r, s)
          /\ Carried(r)' = Carried(r)
    BY <2>2, OthersStand
  <2>5. StandsAt({"insert", "accepted"})' = StandsAt({"insert", "accepted"}) \cup {q}
    <3>1. q \in StandsAt({"insert", "accepted"})'
      BY <2>2 DEF StandsAt
    <3>2. \A r : r # q =>
            (r \in StandsAt({"insert", "accepted"})' <=> r \in StandsAt({"insert", "accepted"}))
      BY <2>2, SameStands
    <3> QED
      BY <3>1, <3>2
  <2>6. StandsAt({"duplicate", "refused"})' = StandsAt({"duplicate", "refused"})
    <3>1. q \notin StandsAt({"duplicate", "refused"}) /\ q \notin StandsAt({"duplicate", "refused"})'
      BY <1>1, <2>2 DEF StandsAt
    <3>2. \A r : r # q =>
            (r \in StandsAt({"duplicate", "refused"})' <=> r \in StandsAt({"duplicate", "refused"}))
      BY <2>2, SameStands
    <3> QED
      BY <3>1, <3>2
  <2>7. \A S : StandsAt(S) \subseteq DOMAIN request
    BY DEF StandsAt
  <2>8. q \notin StandsAt({"insert", "accepted"}) /\ q \notin StandsAt({"duplicate", "refused"})
    BY <1>1 DEF StandsAt
  <2>9. Sessions' = [r \in DOMAIN Sessions \cup {q} |->
          IF r = q THEN [at |-> "insert", row |-> RowOf(p), problems |-> {}] ELSE Sessions[r]]
    BY <2>3, <2>4, <2>5, <2>7, <2>8 DEF Sessions, RowOf
  <2>10. Receipts' = Receipts
    BY <2>4, <2>6, <2>7, <2>8 DEF Receipts
  <2>11. Rows' = Rows
    BY <2>1 DEF Goto, Rows
  <2>12. Lifecycle!NewRow(p) = RowOf(p)
    BY DEF Lifecycle!NewRow, RowOf
  <2>13. Lifecycle!Open(q, "insert", Lifecycle!NewRow(p), {})
    BY <2>9, <2>10, <2>12 DEF Lifecycle!Open, Lifecycle!Put
  <2> QED
    BY <1>3, <1>4, <1>5, <1>7, <1>a, <2>11, <2>13, OnlyTheseMove DEF Lifecycle!LookUp
<1> QED
  BY <1>6, <1>7

\* What EventLifecycle sees of a request at the insert.
LEMMA AtInsert ==
  ASSUME Inv, NEW q \in DOMAIN request, request[q].at = "insert",
         NEW p \in request[q].call.json
  PROVE  /\ Lifecycle!At(q, "insert")
         /\ Sessions[q] = [at |-> "insert", row |-> RowOf(p), problems |-> {}]
         /\ q \in DOMAIN Sessions
         /\ Sessions[q].row = RowOf(p) /\ Sessions[q].row.payload = p
         /\ Lifecycle!EventOf(q) = EventId(p)
<1>1. Carried(q) = p /\ IdOf[p] = EventId(p)
  BY CarriedIs
<1>2. q \in StandsAt({"insert", "accepted"}) /\ At(q, "insert")
  BY DEF StandsAt, At
<1>3. /\ q \in DOMAIN Sessions
      /\ Sessions[q] = [at |-> "insert", row |-> RowOf(p), problems |-> {}]
  BY <1>1, <1>2 DEF Sessions
<1>4. Sessions[q].row = RowOf(p) /\ Sessions[q].at = "insert"
  BY <1>3
<1>5. Sessions[q].row.payload = p
  BY <1>4 DEF RowOf
<1> QED
  BY <1>1, <1>3, <1>4, <1>5 DEF Lifecycle!At, Lifecycle!EventOf

\* The insert of a call is EventLifecycle's, or its refusal is.
LEMMA InsertIsSeen ==
  ASSUME Inv, NEW q, Insert(q)
  PROVE  Lifecycle!Next
<1>1. q \in DOMAIN request /\ request[q].at = "insert" /\ q \in HttpRequests
  BY CallOf DEF Insert, At
<1>2. PICK p \in request[q].call.json :
        \/ /\ UniqueViolation(p)
           /\ Goto(q, "duplicate")
        \/ /\ ~UniqueViolation(p)
           /\ stored' = [e \in DOMAIN stored \cup {EventId(p)} |->
                           IF e = EventId(p) THEN p ELSE stored[e]]
           /\ request' = [request EXCEPT ![q].at = "accepted"]
           /\ UNCHANGED configured
  BY DEF Insert
<1>3. /\ IdOf[p] = EventId(p) /\ Carried(q) = p
      /\ Lifecycle!At(q, "insert") /\ Sessions[q].row = RowOf(p)
      /\ Sessions[q].row.payload = p /\ Lifecycle!EventOf(q) = EventId(p)
      /\ q \in DOMAIN Sessions
  BY <1>1, CarriedIs, AtInsert
<1>4. Lifecycle!UniqueViolation(p) <=> UniqueViolation(p)
  <2>1. \A e \in DOMAIN stored : Rows[e].payload = stored[e]
    BY DEF Rows, RowOf
  <2>2. DOMAIN Rows = DOMAIN stored
    BY DEF Rows
  <2>3. \A e \in DOMAIN stored : PayloadHash(stored[e]) = PayloadHash(p) <=> stored[e] = p
    BY PayloadHashInjective
  <2> QED
    BY <1>3, <2>1, <2>2, <2>3 DEF Lifecycle!UniqueViolation, UniqueViolation
<1>5. CASE UniqueViolation(p) /\ Goto(q, "duplicate")
  <2>1. Lifecycle!Answer(q, EventId(p), "duplicate") /\ Rows' = Rows
    BY <1>1, <1>5, AnswerIsSeen
  <2>2. Lifecycle!Insert(q)
    BY <1>3, <1>4, <1>5, <2>1, OnlyTheseMove
       DEF Lifecycle!Insert, Lifecycle!tables, Lifecycle!tallies
  <2> QED
    BY <1>1, <2>2 DEF Lifecycle!Next, Lifecycle!Advance, Lifecycle!Requests
<1>6. CASE /\ ~UniqueViolation(p)
           /\ stored' = [e \in DOMAIN stored \cup {EventId(p)} |->
                           IF e = EventId(p) THEN p ELSE stored[e]]
           /\ request' = [request EXCEPT ![q].at = "accepted"]
           /\ UNCHANGED configured
  <2>1. EventId(p) \notin DOMAIN stored
    BY <1>6 DEF UniqueViolation
  <2>2. Rows' = [e \in DOMAIN Rows \cup {EventId(p)} |->
                   IF e = EventId(p) THEN RowOf(p) ELSE Rows[e]]
    <3>1. DOMAIN stored' = DOMAIN Rows \cup {EventId(p)}
      BY <1>6 DEF Rows
    <3>2. \A e \in DOMAIN stored' :
            RowOf(stored'[e]) = IF e = EventId(p) THEN RowOf(p) ELSE Rows[e]
      BY <1>6, <2>1 DEF Rows
    <3>3. Rows' = [e \in DOMAIN stored' |-> RowOf(stored'[e])]
      BY DEF Rows, RowOf
    <3> QED
      BY <3>1, <3>2, <3>3
  <2>3. /\ DOMAIN request' = DOMAIN request
        /\ \A r \in DOMAIN request \ {q} : request'[r] = request[r]
        /\ request'[q] = [request[q] EXCEPT !.at = "accepted"]
    BY <1>1, <1>6
  <2>4. request'[q].call = request[q].call /\ request'[q].at = "accepted"
    BY <1>1, <2>3, CallOf
  <2>5. Moves(q)
    BY <1>1, <1>6, <2>1, <2>3 DEF Moves
  <2>6. Carried(q)' = p /\ ~At(q, "insert")'
    BY <1>3, <2>4 DEF Carried, At
  <2>7. \A r \in DOMAIN request : r # q =>
          /\ \A s : At(r, s)' <=> At(r, s)
          /\ Carried(r)' = Carried(r)
    BY <2>5, OthersStand
  <2>8. StandsAt({"insert", "accepted"})' = StandsAt({"insert", "accepted"})
    <3>1. q \in StandsAt({"insert", "accepted"}) /\ q \in StandsAt({"insert", "accepted"})'
      BY <1>1, <2>3, <2>4 DEF StandsAt
    <3>2. \A r : r # q =>
            (r \in StandsAt({"insert", "accepted"})' <=> r \in StandsAt({"insert", "accepted"}))
      BY <2>5, SameStands
    <3> QED
      BY <3>1, <3>2
  <2>9. StandsAt({"duplicate", "refused"})' = StandsAt({"duplicate", "refused"})
    <3>1. q \notin StandsAt({"duplicate", "refused"}) /\ q \notin StandsAt({"duplicate", "refused"})'
      BY <1>1, <2>3, <2>4 DEF StandsAt
    <3>2. \A r : r # q =>
            (r \in StandsAt({"duplicate", "refused"})' <=> r \in StandsAt({"duplicate", "refused"}))
      BY <2>5, SameStands
    <3> QED
      BY <3>1, <3>2
  <2>10. \A S : StandsAt(S) \subseteq DOMAIN request
    BY DEF StandsAt
  <2>11. q \notin StandsAt({"duplicate", "refused"})
    BY <1>1 DEF StandsAt
  <2>12. Sessions' = [Sessions EXCEPT ![q] =
           [at |-> "begin", row |-> RowOf(p), problems |-> {}]]
    BY <1>3, <2>6, <2>7, <2>8, <2>10 DEF Sessions, RowOf
  <2>13. Receipts' = Receipts
    BY <2>7, <2>9, <2>10, <2>11 DEF Receipts
  <2>14. Lifecycle!Goto(q, "begin", RowOf(p), {})
    BY <2>12, <2>13 DEF Lifecycle!Goto
  <2>15. Rows' = Lifecycle!Put(Rows, EventId(p), RowOf(p))
    BY <2>2 DEF Lifecycle!Put
  <2>16. Lifecycle!Insert(q)
    BY <1>3, <1>4, <1>6, <2>14, <2>15 DEF Lifecycle!Insert, Lifecycle!tallies, NoneYet
  <2> QED
    BY <1>1, <2>16 DEF Lifecycle!Next, Lifecycle!Advance, Lifecycle!Requests
<1> QED
  BY <1>2, <1>5, <1>6

\* A refused insert is EventLifecycle's database error.
LEMMA RefuseIsSeen ==
  ASSUME Inv, NEW q, Refuse(q)
  PROVE  Lifecycle!Next
<1>1. /\ q \in DOMAIN request /\ request[q].at = "insert" /\ q \in HttpRequests
      /\ Goto(q, "refused")
  BY CallOf DEF Refuse, At
<1>2. PICK p : p \in request[q].call.json
  BY <1>1, CallOf DEF Passed, Gate
<1>3. Lifecycle!At(q, "insert") /\ Lifecycle!EventOf(q) = EventId(p)
  BY <1>1, <1>2, AtInsert
<1>4. Lifecycle!Answer(q, EventId(p), "error") /\ Rows' = Rows
  BY <1>1, <1>2, AnswerIsSeen
<1>5. Lifecycle!DatabaseError(q)
  BY <1>3, <1>4, OnlyTheseMove DEF Lifecycle!DatabaseError
<1> QED
  BY <1>1, <1>5 DEF Lifecycle!Next, Lifecycle!Fault, Lifecycle!Requests

\* The other steps are none to EventLifecycle.
LEMMA GatesAreUnseen ==
  ASSUME Inv, NEW q \in HttpRequests,
         \/ \E c \in Calls[q] : Arrive(q, c)
         \/ Receive(q) \/ Disconnect(q) \/ Admit(q) \/ Find(q)
  PROVE  UNCHANGED <<Rows, Sessions, Receipts>>
<1>1. Moves(q)
  BY ArriveStep, ReceiveStep, DisconnectStep, AdmitStep, FindStep DEF Well
<1>2. stored' = stored
  BY DEF Arrive, Receive, Disconnect, Admit, Find, Goto
<1>3. q \in DOMAIN request => request[q].at \notin AtWork
  BY DEF Arrive, Receive, Disconnect, Admit, Find, At, AtWork
<1>4. request'[q].at \notin AtWork
  <2>1. ASSUME NEW step, q \in DOMAIN request, Goto(q, step), step \notin AtWork
        PROVE  request'[q].at \notin AtWork
    BY <2>1, GotoMoves
  <2>2. ASSUME NEW c \in Calls[q], Arrive(q, c)
        PROVE  request'[q].at \notin AtWork
    BY <2>2 DEF Arrive, FirstStep, AtWork
  <2>3. CASE Receive(q)
    <3>1. PICK got, counted :
            request'[q].at = AfterMessage(request[q].call, got, counted)
      <4>1. q \in DOMAIN request
        BY <2>3 DEF Receive, At
      <4>2. PICK n \in 1 .. request[q].call.size - request[q].received :
              request' = [request EXCEPT
                ![q].received = @ + n,
                ![q].at = AfterMessage(request[q].call, request[q].received + n, Counted(q, n))]
        BY <2>3 DEF Receive
      <4>3. request'[q].at
              = AfterMessage(request[q].call, request[q].received + n, Counted(q, n))
        <5>1. request[q] = [call |-> request[q].call, at |-> request[q].at,
                            received |-> request[q].received]
          BY <4>1, CallOf
        <5> QED
          BY <4>1, <4>2, <5>1
      <4> QED
        BY <4>3
    <3> QED
      BY <3>1 DEF AfterMessage, AtWork
  <2>4. CASE Disconnect(q)
    BY <2>1, <2>4 DEF Disconnect, At, AtWork
  <2>5. CASE Admit(q)
    <3>0. q \in DOMAIN request /\ request[q].call.secret \in Secret
      <4>1. q \in DOMAIN request /\ request[q].call \in Calls[q]
        BY <2>5, CallOf DEF Admit, At
      <4> QED
        BY <4>1, IntakeAssumption DEF WebhookCall, AdminCall
    <3>1. Verdict(request[q].call) \notin AtWork
      BY <3>0 DEF Verdict, Comparison, Secret, AtWork
    <3>2. \A p : Checked(p) \notin AtWork
      BY DEF Checked, AtWork
    <3> QED
      BY <2>1, <2>5, <3>0, <3>1, <3>2 DEF Admit, AtWork
  <2>6. CASE Find(q)
    BY <2>1, <2>6 DEF Find, At, AtWork
  <2> QED
    BY <2>2, <2>3, <2>4, <2>5, <2>6
<1> QED
  BY <1>1, <1>2, <1>3, <1>4, Unseen

\* To the database a webhook call begins with its lookup: up to the insert, every
\* behaviour is one of EventLifecycle, and a refused request does nothing.
THEOREM IntakeImplementsLifecycle == Spec => ImplementsLifecycle
<1>1. Init => Lifecycle!Init
  BY DEF Init, Lifecycle!Init, Rows, Sessions, Receipts, StandsAt, NoneYet
<1>2. ASSUME Inv, [Next]_vars
      PROVE  [Lifecycle!Next]_(Lifecycle!vars)
  <2>1. ASSUME UNCHANGED <<Rows, Sessions, Receipts>>
        PROVE  UNCHANGED Lifecycle!vars
    BY <2>1, OnlyTheseMove DEF Lifecycle!vars
  <2>2. CASE UNCHANGED vars
    <3>1. UNCHANGED <<Rows, Sessions, Receipts>>
      BY <2>2 DEF vars, Rows, Sessions, Receipts, StandsAt, At, Carried
    <3> QED
      BY <2>1, <3>1
  <2>3. CASE Next
    BY <1>2, <2>1, <2>3, GatesAreUnseen, LookUpIsSeen, InsertIsSeen, RefuseIsSeen DEF Next
  <2> QED
    BY <1>2, <2>2, <2>3
<1> QED
  BY <1>1, <1>2, Invariance, PTL DEF Spec, ImplementsLifecycle, Lifecycle!Spec
=============================================================================
