---------------------------- MODULE Intake_proofs ----------------------------
(***************************************************************************)
(* Theorems about Intake and the idempotency keys of LeadIdentity, for     *)
(* every set of requests and calls and every limit.                        *)
(***************************************************************************)
EXTENDS Intake, TLAPS

(***************************************************************************)
(* The idempotency keys.                                                   *)
(***************************************************************************)

\* A hash stands for the data hashed.
LEMMA HashInjective ==
  ASSUME NEW x, NEW y, Hash(x) = Hash(y)
  PROVE  x = y
BY DEF Hash

LEMMA PayloadHashInjective ==
  ASSUME NEW p, NEW r, PayloadHash(p) = PayloadHash(r)
  PROVE  p = r
BY HashInjective DEF PayloadHash

LEMMA SuppliedIdInjective ==
  ASSUME NEW x, NEW y, SuppliedId(x) = SuppliedId(y)
  PROVE  x = y
BY DEF SuppliedId

LEMMA DerivedIdInjective ==
  ASSUME NEW x, NEW y, DerivedId(x) = DerivedId(y)
  PROVE  x = y
<1>1. Hash(x) = Hash(y)
  BY DEF DerivedId
<1> QED
  BY <1>1, HashInjective

LEMMA SuppliedIsNotDerived ==
  ASSUME NEW x, NEW y
  PROVE  SuppliedId(x) # DerivedId(y)
<1>1. "supplied" \in DOMAIN SuppliedId(x)
  BY DEF SuppliedId
<1>2. "supplied" \notin DOMAIN DerivedId(y)
  BY DEF DerivedId
<1> QED
  BY <1>1, <1>2

\* Cleaning loses nothing that Says tells: equal when cleaned, equal in words.
LEMMA CleanTells ==
  ASSUME NEW v \in Value, NEW w \in Value, v.is # "other", w.is # "other",
         Clean(v) = Clean(w)
  PROVE  Says(v) = Says(w)
<1> QED
  BY DEF Value, Clean, Says, None

LEMMA BlankSaysNothing ==
  ASSUME NEW v \in Value, v.is # "other", Clean(v) = None
  PROVE  Says(v) = Says(None)
<1> QED
  BY DEF Value, Clean, Says, None

LEMMA SupplyingSays ==
  ASSUME NEW v \in Value, v.is # "other", Clean(v) # None
  PROVE  Says(v) # Says(None)
<1> QED
  BY DEF Value, Clean, Says, None

LEMMA PhoneTells ==
  ASSUME NEW v \in Value, NEW w \in Value, v.is # "other", w.is # "other",
         CleanPhone(v) = CleanPhone(w)
  PROVE  Says(v).words = Says(w).words
<1> QED
  BY DEF Value, CleanPhone, Clean, Says, None, Text

\* A well-formed event's fields are values, and text or nothing where the schema
\* says so.
LEMMA PayloadFields ==
  ASSUME NEW p \in Payload, Valid(p)
  PROVE  /\ p.event_id \in Value /\ p.event_id.is # "other"
         /\ p.location_id \in Value /\ p.location_id.is # "other"
         /\ \A f \in ContactFields : p.contact[f] \in Value /\ p.contact[f].is # "other"
         /\ \A k \in DOMAIN p.custom_fields : p.custom_fields[k] \in Value
<1>1. /\ p.event_id \in Value /\ p.location_id \in Value
      /\ p.contact \in [ContactFields -> Value]
      /\ p.custom_fields \in UNION {[K -> Value] : K \in SUBSET CustomKeys}
  BY DEF Payload
<1>2. \A k \in DOMAIN p.custom_fields : p.custom_fields[k] \in Value
  BY <1>1
<1>3. p.event_id.is # "other" /\ p.location_id.is # "other"
  BY DEF Valid
<1>4. \A f \in ContactFields : p.contact[f].is # "other"
  BY DEF Valid
<1> QED
  BY <1>1, <1>2, <1>3, <1>4

\* What a lead keeps of a custom field is what the payload says in it.
LEMMA CustomFieldTells ==
  ASSUME NEW p \in Payload, Valid(p), NEW k
  PROVE  (IF k \in DOMAIN p.custom_fields THEN Says(p.custom_fields[k]) ELSE Says(None))
           = IF k \in KeptFields(p) THEN Says(Lead(p).custom_fields[k]) ELSE Says(None)
<1>1. CASE k \in KeptFields(p)
  BY <1>1 DEF KeptFields, Lead
<1>2. CASE k \in DOMAIN p.custom_fields /\ k \notin KeptFields(p)
  <2>1. p.custom_fields[k].is = "text" /\ Clean(p.custom_fields[k]) = None
    BY <1>2 DEF KeptFields
  <2>2. Says(p.custom_fields[k]) = Says(None)
    BY <2>1, PayloadFields, BlankSaysNothing, <1>2
  <2> QED
    BY <1>2, <2>2
<1>3. CASE k \notin DOMAIN p.custom_fields
  BY <1>3 DEF KeptFields
<1> QED
  BY <1>1, <1>2, <1>3

\* Payloads of one lead and type tell the same in the fields the schema names.
LEMMA LeadTells ==
  ASSUME NEW p \in Payload, Valid(p), NEW r \in Payload, Valid(r),
         EventType(p) = EventType(r), Lead(p) = Lead(r)
  PROVE  LeadContent(p) = LeadContent(r)
<1>0. /\ \A f \in ContactFields : /\ p.contact[f] \in Value /\ p.contact[f].is # "other"
                                  /\ r.contact[f] \in Value /\ r.contact[f].is # "other"
      /\ p.location_id \in Value /\ p.location_id.is # "other"
      /\ r.location_id \in Value /\ r.location_id.is # "other"
  BY PayloadFields
<1>1. /\ Lead(p).contact = Lead(r).contact
      /\ Lead(p).location_id = Lead(r).location_id
      /\ Lead(p).custom_fields = Lead(r).custom_fields
  OBVIOUS
<1>2. Says(p.location_id) = Says(r.location_id)
  <2>1. Clean(p.location_id) = Clean(r.location_id)
    BY <1>1 DEF Lead
  <2> QED
    BY <1>0, <2>1, CleanTells
<1>3. ASSUME NEW f \in ContactFields \ {"phone"}
      PROVE  Says(p.contact[f]) = Says(r.contact[f])
  <2>1. Lead(p).contact[f] = Clean(p.contact[f]) /\ Lead(r).contact[f] = Clean(r.contact[f])
    BY DEF Lead
  <2>2. Clean(p.contact[f]) = Clean(r.contact[f])
    BY <1>1, <2>1
  <2> QED
    BY <1>0, <2>2, CleanTells
<1>4. Says(p.contact["phone"]).words = Says(r.contact["phone"]).words
  <2>0. "phone" \in ContactFields
    BY DEF ContactFields
  <2>1. /\ Lead(p).contact["phone"] = CleanPhone(p.contact["phone"])
        /\ Lead(r).contact["phone"] = CleanPhone(r.contact["phone"])
    BY <2>0 DEF Lead
  <2>2. CleanPhone(p.contact["phone"]) = CleanPhone(r.contact["phone"])
    BY <1>1, <2>1
  <2> QED
    BY <1>0, <2>0, <2>2, PhoneTells
<1>5. KeptFields(p) = KeptFields(r)
  <2>1. DOMAIN Lead(p).custom_fields = KeptFields(p)
    BY DEF Lead
  <2>2. DOMAIN Lead(r).custom_fields = KeptFields(r)
    BY DEF Lead
  <2> QED
    BY <1>1, <2>1, <2>2
<1>6. ASSUME NEW k \in CustomKeys
      PROVE  (IF k \in DOMAIN p.custom_fields THEN Says(p.custom_fields[k]) ELSE Says(None))
           = (IF k \in DOMAIN r.custom_fields THEN Says(r.custom_fields[k]) ELSE Says(None))
  BY <1>1, <1>5, CustomFieldTells
<1> QED
  BY <1>2, <1>3, <1>4, <1>6 DEF LeadContent

\* Two payloads get one id only if their senders gave the same id, or gave none
\* and told the same in the fields the schema names (derive_event_id).
LEMMA SameIdTells ==
  ASSUME NEW p \in Payload, Valid(p), NEW r \in Payload, Valid(r),
         EventId(p) = EventId(r)
  PROVE  /\ Says(p.event_id) = Says(r.event_id)
         /\ Says(p.event_id) # Says(None) \/ LeadContent(p) = LeadContent(r)
<1>0. /\ p.event_id \in Value /\ p.event_id.is # "other"
      /\ r.event_id \in Value /\ r.event_id.is # "other"
  BY PayloadFields
<1>1. Supplied(p) <=> Supplied(r)
  BY SuppliedIsNotDerived DEF EventId
<1>2. CASE Supplied(p)
  <2>1. SuppliedId(Clean(p.event_id)) = SuppliedId(Clean(r.event_id))
    BY <1>1, <1>2 DEF EventId
  <2>2. Clean(p.event_id) = Clean(r.event_id)
    BY <2>1, SuppliedIdInjective
  <2>3. Says(p.event_id) = Says(r.event_id)
    BY <1>0, <2>2, CleanTells
  <2>4. Says(p.event_id) # Says(None)
    BY <1>0, <1>2, SupplyingSays DEF Supplied
  <2> QED
    BY <2>3, <2>4
<1>3. CASE ~Supplied(p)
  <2>1. Says(p.event_id) = Says(None) /\ Says(r.event_id) = Says(None)
    BY <1>0, <1>1, <1>3, BlankSaysNothing DEF Supplied
  <2> DEFINE fields(x) == [event_type |-> EventType(x), lead |-> Lead(x)]
  <2>2. DerivedId(fields(p)) = DerivedId(fields(r))
    BY <1>1, <1>3 DEF EventId
  <2> HIDE DEF fields
  <2>3. fields(p) = fields(r)
    BY <2>2, DerivedIdInjective
  <2>4. EventType(p) = EventType(r) /\ Lead(p) = Lead(r)
    <3>1. fields(p).event_type = fields(r).event_type /\ fields(p).lead = fields(r).lead
      BY <2>3
    <3> QED
      BY <3>1 DEF fields
  <2> QED
    BY <2>1, <2>4, LeadTells
<1> QED
  BY <1>2, <1>3

\* Fields that tell the same are cleaned to the same.
LEMMA TellingCleans ==
  ASSUME NEW v \in Value, NEW w \in Value, v.is # "other", w.is # "other",
         Says(v) = Says(w)
  PROVE  Clean(v) = Clean(w)
<1>1. /\ v = [is |-> v.is, words |-> v.words, spacing |-> v.spacing]
      /\ w = [is |-> w.is, words |-> w.words, spacing |-> w.spacing]
  BY DEF Value
<1>2. CASE v.is = "text" /\ v.words # ""
  <2>1. Says(v) =
      [words |-> v.words, run |-> IF v.spacing = "joined" THEN "joined" ELSE "divided"]
    BY <1>2 DEF Says
  <2>2. w.is = "text" /\ w.words # ""
    BY <1>2, <2>1 DEF Says, Value
  <2>3. Says(w) =
      [words |-> w.words, run |-> IF w.spacing = "joined" THEN "joined" ELSE "divided"]
    BY <2>2 DEF Says
  <2>4. v.words = w.words /\ (v.spacing # "joined" <=> w.spacing # "joined")
    <3> DEFINE run(x) == IF x.spacing = "joined" THEN "joined" ELSE "divided"
    <3>1. [words |-> v.words, run |-> run(v)] = [words |-> w.words, run |-> run(w)]
      BY <2>1, <2>3
    <3>2. v.words = w.words /\ run(v) = run(w)
      <4> HIDE DEF run
      <4> QED
        BY <3>1
    <3> QED
      BY <3>2
  <2> QED
    BY <1>2, <2>2, <2>4 DEF Clean, Value, Spacing
<1>3. CASE ~(v.is = "text" /\ v.words # "")
  <2>1. Says(v).words = ""
    BY <1>3 DEF Says, Value
  <2>2. ~(w.is = "text" /\ w.words # "")
    BY <2>1 DEF Says, Value
  <2> QED
    BY <1>3, <2>2 DEF Clean
<1> QED
  BY <1>2, <1>3

LEMMA TellingCleansPhones ==
  ASSUME NEW v \in Value, NEW w \in Value, v.is # "other", w.is # "other",
         Says(v).words = Says(w).words
  PROVE  CleanPhone(v) = CleanPhone(w)
<1> QED
  BY DEF Value, CleanPhone, Clean, Says, None, Text

\* Payloads without an id that tell the same in those fields, with custom fields and
\* type spelled alike, get one id.
LEMMA TellingGivesId ==
  ASSUME NEW p \in Payload, Valid(p), NEW r \in Payload, Valid(r),
         ~Supplied(p), ~Supplied(r), p.custom_fields = r.custom_fields,
         EventType(p) = EventType(r), LeadContent(p) = LeadContent(r)
  PROVE  EventId(p) = EventId(r)
<1>0. /\ \A f \in ContactFields : /\ p.contact[f] \in Value /\ p.contact[f].is # "other"
                                  /\ r.contact[f] \in Value /\ r.contact[f].is # "other"
      /\ p.location_id \in Value /\ p.location_id.is # "other"
      /\ r.location_id \in Value /\ r.location_id.is # "other"
  BY PayloadFields
<1>1. Clean(p.location_id) = Clean(r.location_id)
  <2>1. Says(p.location_id) = Says(r.location_id)
    BY DEF LeadContent
  <2> QED
    BY <1>0, <2>1, TellingCleans
<1>2. ASSUME NEW f \in ContactFields
      PROVE  (IF f = "phone" THEN CleanPhone(p.contact[f]) ELSE Clean(p.contact[f]))
           = (IF f = "phone" THEN CleanPhone(r.contact[f]) ELSE Clean(r.contact[f]))
  <2>1. CASE f = "phone"
    <3>1. Says(p.contact["phone"]).words = Says(r.contact["phone"]).words
      BY DEF LeadContent
    <3> QED
      BY <1>0, <2>1, <3>1, TellingCleansPhones
  <2>2. CASE f # "phone"
    <3> DEFINE said(x) == [g \in ContactFields \ {"phone"} |-> Says(x.contact[g])]
    <3>1. said(p) = said(r)
      BY DEF LeadContent
    <3>2. said(p)[f] = Says(p.contact[f]) /\ said(r)[f] = Says(r.contact[f])
      BY <2>2
    <3>3. Says(p.contact[f]) = Says(r.contact[f])
      BY <3>1, <3>2
    <3> QED
      BY <1>0, <2>2, <3>3, TellingCleans
  <2> QED
    BY <2>1, <2>2
<1>3. KeptFields(p) = KeptFields(r)
  BY DEF KeptFields
<1>4. Lead(p) = Lead(r)
  BY <1>1, <1>2, <1>3 DEF Lead
<1> QED
  BY <1>4 DEF EventId

(***************************************************************************)
(* The inductive invariant.                                                *)
(***************************************************************************)

\* A row is a well-formed payload, stored under its id.
Keyed ==
  \A e \in DOMAIN stored :
    stored[e] \in Payload /\ Valid(stored[e]) /\ EventId(stored[e]) = e

\* What a request q that stands as s is known to have passed.
Passed(q, s) ==
  /\ s \in [call : Calls[q], at : Step \cup Answer, received : Nat]
  /\ s.at = "reading" => /\ s.call.to = "webhook"
                         /\ s.received < s.call.size /\ s.received <= MaxBytes
  /\ s.at = "admit" => /\ s.received <= MaxBytes
                       /\ s.call.to = "webhook" => s.received = s.call.size
  /\ s.at = "too_large" => DeclaredTooLarge(s.call)
  /\ s.at = "cut_off" => s.received > MaxBytes
  /\ s.at \in {"lookup", "insert", "duplicate", "accepted", "refused"} =>
       s.call.to = "webhook" /\ \A p \in s.call.json : Valid(p)
  /\ s.at \notin Gate \cup {"reading", "admit"} =>
       /\ Service(s.call) \in configured /\ s.call.secret = "right"
       /\ s.received <= MaxBytes
       /\ s.call.to = "webhook" =>
            s.received = s.call.size /\ \E p \in s.call.json : Valid(p)

Inv ==
  /\ configured \subseteq {"webhook", "admin"}
  /\ Keyed
  /\ DOMAIN request \subseteq HttpRequests
  /\ \A q \in DOMAIN request : Passed(q, request[q])
  /\ NamedNewsKept

\* The properties of single requests, of the types and of the rows.
LEMMA InvMeans ==
  ASSUME Inv
  PROVE  TypeOK /\ HandledIsAdmitted /\ RefusedForOwnSize
<1>1. TypeOK
  BY DEF Inv, Keyed, Passed, TypeOK
<1>2. HandledIsAdmitted
  BY DEF Inv, Passed, HandledIsAdmitted, Past
<1>3. RefusedForOwnSize
  BY DEF Inv, Passed, RefusedForOwnSize, DeclaredTooLarge
<1> QED
  BY <1>1, <1>2, <1>3

\* Rows kept under their ids are found by their ids, and a hash adds nothing.
LEMMA KeyedLooksUp == ASSUME Keyed PROVE LookupUnique
<1>1. ASSUME NEW p \in ValidPayloads, NEW e \in Matches(p) PROVE e = EventId(p)
  <2>1. e \in DOMAIN stored /\ EventId(stored[e]) = e
    BY <1>1 DEF Matches, Keyed
  <2>2. CASE PayloadHash(stored[e]) = PayloadHash(p)
    BY <2>1, <2>2, PayloadHashInjective
  <2> QED
    BY <1>1, <2>2 DEF Matches
<1> QED
  BY <1>1 DEF LookupUnique

LEMMA KeyedStoresOnce == ASSUME Keyed PROVE StoredOncePerLead
BY TellingGivesId DEF Keyed, StoredOncePerLead

(***************************************************************************)
(* Every step keeps the invariant.                                         *)
(***************************************************************************)

\* The event that a request is dismissed for is known.
Known(q) ==
  request[q].at = "duplicate" =>
    \A p \in request[q].call.json : \E e \in DOMAIN stored :
      LET r == stored[e]
      IN  /\ Says(p.event_id) = Says(r.event_id)
          /\ Says(p.event_id) # Says(None) \/ LeadContent(p) = LeadContent(r)

\* A step moves one request, touches no setting, and takes no row away.
Moves(q) ==
  /\ q \in HttpRequests
  /\ configured' = configured
  /\ DOMAIN request' = DOMAIN request \cup {q}
  /\ \A r \in DOMAIN request \ {q} : request'[r] = request[r]
  /\ \A e \in DOMAIN stored : e \in DOMAIN stored' /\ stored'[e] = stored[e]

\* What a step has to show of the request it moves.
Well(q) == Moves(q) /\ Keyed' /\ Passed(q, request[q])' /\ Known(q)'

LEMMA WellKeeps ==
  ASSUME Inv, NEW q, Well(q)
  PROVE  Inv'
<1> USE DEF Well
<1>1. /\ configured' = configured
      /\ \A r \in DOMAIN request \ {q} : request'[r] = request[r]
      /\ DOMAIN request' = DOMAIN request \cup {q}
      /\ q \in HttpRequests
  BY DEF Moves
<1>2. ASSUME NEW r \in DOMAIN request' PROVE Passed(r, request[r])'
  <2>1. CASE r = q
    BY <2>1
  <2>2. CASE r # q
    <3>1. Passed(r, request[r]) /\ request'[r] = request[r]
      BY <1>1, <2>2 DEF Inv
    <3> QED
      BY <1>1, <3>1 DEF Passed
  <2> QED
    BY <2>1, <2>2
<1>3. ASSUME NEW r \in DOMAIN request' PROVE Known(r)'
  <2>1. CASE r = q
    BY <2>1
  <2>2. CASE r # q
    <3>1. Known(r) /\ request'[r] = request[r]
      BY <1>1, <2>2 DEF Inv, NamedNewsKept, Known
    <3> QED
      BY <3>1 DEF Known, Moves
  <2> QED
    BY <2>1, <2>2
<1>4. NamedNewsKept'
  BY <1>3 DEF NamedNewsKept, Known
<1> QED
  BY <1>1, <1>2, <1>4 DEF Inv

\* The call of a request is one of its calls.
LEMMA CallOf ==
  ASSUME Inv, NEW q \in DOMAIN request
  PROVE  /\ q \in HttpRequests /\ Passed(q, request[q])
         /\ request[q].call \in Calls[q]
         /\ request[q] = [call |-> request[q].call, at |-> request[q].at,
                          received |-> request[q].received]
         /\ request[q].received \in Nat
         /\ request[q].call.to = "webhook" =>
              /\ request[q].call.size \in Nat \ {0}
              /\ request[q].call.json \subseteq Payload
              /\ \A p, r \in request[q].call.json : p = r
<1>1. q \in HttpRequests /\ Passed(q, request[q])
  BY DEF Inv
<1>2. request[q] \in [call : Calls[q], at : Step \cup Answer, received : Nat]
  BY <1>1 DEF Passed
<1>3. request[q].call \in WebhookCall \cup AdminCall
  BY <1>1, <1>2, IntakeAssumption
<1>4. request[q].call.to = "webhook" => request[q].call \in WebhookCall
  BY <1>3 DEF WebhookCall, AdminCall
<1>5. request[q].call.to = "webhook" => \A p, r \in request[q].call.json : p = r
  BY <1>1, <1>2, IntakeAssumption
<1> QED
  BY <1>1, <1>2, <1>4, <1>5 DEF WebhookCall

LEMMA GotoMoves ==
  ASSUME Inv, NEW q \in DOMAIN request, NEW step, Goto(q, step)
  PROVE  /\ Moves(q) /\ Keyed'
         /\ request'[q] = [request[q] EXCEPT !.at = step]
         /\ request'[q].call = request[q].call
         /\ request'[q].at = step
         /\ request'[q].received = request[q].received
         /\ step # "duplicate" => Known(q)'
<1>1. /\ request[q] = [call |-> request[q].call, at |-> request[q].at,
                       received |-> request[q].received]
      /\ q \in HttpRequests
  BY CallOf
<1>2. /\ request'[q] = [request[q] EXCEPT !.at = step]
      /\ DOMAIN request' = DOMAIN request
      /\ \A r \in DOMAIN request \ {q} : request'[r] = request[r]
      /\ configured' = configured /\ stored' = stored
  BY DEF Goto
<1>3. /\ request'[q].call = request[q].call /\ request'[q].at = step
      /\ request'[q].received = request[q].received
  BY <1>1, <1>2
<1> QED
  BY <1>1, <1>2, <1>3 DEF Moves, Keyed, Inv, Known

\* A payload that matches a row is known.
LEMMA MatchIsKnown ==
  ASSUME Inv, NEW p \in Payload, Valid(p), NEW e \in DOMAIN stored,
         e = EventId(p) \/ PayloadHash(stored[e]) = PayloadHash(p)
  PROVE  /\ Says(p.event_id) = Says(stored[e].event_id)
         /\ Says(p.event_id) # Says(None) \/ LeadContent(p) = LeadContent(stored[e])
<1>1. stored[e] \in Payload /\ Valid(stored[e]) /\ EventId(stored[e]) = e
  BY DEF Inv, Keyed
<1>2. EventId(stored[e]) = EventId(p)
  BY <1>1, PayloadHashInjective
<1> QED
  BY <1>1, <1>2, SameIdTells

LEMMA ArriveStep ==
  ASSUME Inv, NEW q \in HttpRequests, NEW c \in Calls[q], Arrive(q, c)
  PROVE  Well(q)
<1> DEFINE first == IF DeclaredTooLarge(c) THEN "too_large" ELSE FirstStep(c)
<1>1. /\ request'[q] = [call |-> c, received |-> 0, at |-> first]
      /\ DOMAIN request' = DOMAIN request \cup {q}
      /\ \A r \in DOMAIN request \ {q} : request'[r] = request[r]
      /\ configured' = configured /\ stored' = stored
  BY DEF Arrive
<1>2. Moves(q) /\ Keyed'
  BY <1>1 DEF Moves, Inv, Keyed
<1>3. c \in WebhookCall \cup AdminCall
  BY IntakeAssumption
<1>4. /\ first \in {"too_large", "reading", "admit", "no_route"}
      /\ first = "too_large" => DeclaredTooLarge(c)
      /\ first = "reading" => c.to = "webhook"
      /\ first = "admit" => c.to # "webhook"
  BY DEF FirstStep
<1>5. c.to = "webhook" => c.size \in Nat \ {0}
  BY <1>3 DEF WebhookCall, AdminCall
<1>6. MaxBytes \in Nat \ {0}
  BY IntakeAssumption
<1> HIDE DEF first
<1>7. Passed(q, request[q])'
  BY <1>1, <1>4, <1>5, <1>6 DEF Passed, Step, Answer, Gate
<1>8. Known(q)'
  BY <1>1, <1>4 DEF Known
<1> QED
  BY <1>2, <1>7, <1>8 DEF Well

LEMMA ReceiveStep ==
  ASSUME Inv, NEW q, Receive(q)
  PROVE  Well(q)
<1>1. q \in DOMAIN request /\ request[q].at = "reading"
  BY DEF Receive, At
<1> DEFINE c == request[q].call
<1>2. PICK n \in 1 .. c.size - request[q].received :
        request' = [request EXCEPT
          ![q].received = @ + n,
          ![q].at = AfterMessage(c, request[q].received + n, Counted(q, n))]
  BY DEF Receive
<1> DEFINE next == AfterMessage(c, request[q].received + n, Counted(q, n))
           got == request[q].received + n
<1>3. /\ q \in HttpRequests /\ c \in Calls[q] /\ request[q].received \in Nat
      /\ request[q] = [call |-> c, at |-> request[q].at, received |-> request[q].received]
      /\ Passed(q, request[q])
  BY <1>1, CallOf
<1>4. c.to = "webhook" /\ c.size \in Nat \ {0} /\ request[q].received < c.size
  BY <1>1, <1>3, CallOf DEF Passed
<1>5. MaxBytes \in Nat
  BY IntakeAssumption
<1>6. n \in Nat /\ got \in Nat /\ got <= c.size /\ Counted(q, n) = got
  BY <1>3, <1>4 DEF Counted
<1>7. /\ request'[q] = [call |-> c, at |-> next, received |-> got]
      /\ DOMAIN request' = DOMAIN request
      /\ \A r \in DOMAIN request \ {q} : request'[r] = request[r]
  BY <1>1, <1>2, <1>3
<1>8. configured' = configured /\ stored' = stored
  BY DEF Receive
<1>9. /\ next \in {"cut_off", "reading", "malformed", "admit"}
      /\ next = "cut_off" => got > MaxBytes
      /\ next = "reading" => got <= MaxBytes /\ got < c.size
      /\ next = "admit" => got <= MaxBytes /\ got = c.size
  <2>1. next = AfterMessage(c, got, got)
    BY <1>6
  <2> HIDE DEF c, got, next
  <2>2. c.size \in Nat
    BY <1>4
  <2> QED
    BY <1>5, <1>6, <2>1, <2>2 DEF AfterMessage
<1> HIDE DEF next, got, c
<1>10. /\ request'[q].call = c /\ request'[q].at = next /\ request'[q].received = got
  BY <1>7
<1>11. Moves(q) /\ Keyed'
  BY <1>1, <1>3, <1>7, <1>8 DEF Moves, Inv, Keyed
<1>12. Passed(q, request[q])'
  BY <1>3, <1>4, <1>6, <1>7, <1>9, <1>10 DEF Passed, Step, Answer, Gate
<1>13. Known(q)'
  BY <1>9, <1>10 DEF Known
<1> QED
  BY <1>11, <1>12, <1>13 DEF Well

LEMMA DisconnectStep ==
  ASSUME Inv, NEW q, Disconnect(q)
  PROVE  Well(q)
<1>1. q \in DOMAIN request /\ request[q].at = "reading" /\ Goto(q, "disconnected")
  BY DEF Disconnect, At
<1>2. /\ Moves(q) /\ Keyed' /\ Known(q)'
      /\ request'[q] = [request[q] EXCEPT !.at = "disconnected"]
      /\ request'[q].at = "disconnected"
  BY <1>1, GotoMoves
<1>3. Passed(q, request[q])'
  BY <1>1, <1>2, CallOf DEF Passed, Step, Answer, Gate
<1> QED
  BY <1>2, <1>3 DEF Well

LEMMA AdmitStep ==
  ASSUME Inv, NEW q, Admit(q)
  PROVE  Well(q)
<1> DEFINE c == request[q].call
<1>1. q \in DOMAIN request /\ request[q].at = "admit"
  BY DEF Admit, At
<1>2. /\ c \in Calls[q] /\ q \in HttpRequests /\ request[q].received \in Nat
      /\ request[q].received <= MaxBytes
      /\ c.to = "webhook" => request[q].received = c.size
      /\ c.to = "webhook" => \A p, r \in c.json : p = r
  BY <1>1, CallOf DEF Passed
<1>3. c.secret \in Secret
  BY <1>2, IntakeAssumption DEF WebhookCall, AdminCall
<1>4. /\ Verdict(c) \in {"not_configured", "unauthenticated", "forbidden", "error", "admitted"}
      /\ Verdict(c) = "admitted" => Service(c) \in configured /\ c.secret = "right"
  BY <1>3 DEF Verdict, Comparison, Secret
<1>5. ASSUME NEW step, Goto(q, step), step # "duplicate",
             Passed(q, [call |-> c, at |-> step, received |-> request[q].received])
      PROVE  Well(q)
  <2>1. /\ Moves(q) /\ Keyed' /\ Known(q)' /\ configured' = configured
        /\ request'[q] = [call |-> c, at |-> step, received |-> request[q].received]
    BY <1>1, <1>5, GotoMoves, CallOf DEF Moves
  <2>2. Passed(q, request[q])'
    BY <1>5, <2>1 DEF Passed
  <2> QED
    BY <2>1, <2>2 DEF Well
<1> HIDE DEF c
<1>6. CASE Verdict(c) # "admitted" /\ Goto(q, Verdict(c))
  <2>1. Passed(q, [call |-> c, at |-> Verdict(c), received |-> request[q].received])
    BY <1>2, <1>4, <1>6 DEF Passed, Step, Answer, Gate
  <2> QED
    BY <1>4, <1>5, <1>6, <2>1
<1>7. CASE Verdict(c) = "admitted" /\ c.to # "webhook" /\ Goto(q, "find")
  <2>1. Passed(q, [call |-> c, at |-> "find", received |-> request[q].received])
    BY <1>2, <1>4, <1>7 DEF Passed, Step, Answer, Gate
  <2> QED
    BY <1>5, <1>7, <2>1
<1>8. ASSUME Verdict(c) = "admitted", c.to = "webhook", NEW p \in c.json, Goto(q, Checked(p))
      PROVE  Well(q)
  <2>1. Checked(p) \in {"lookup", "invalid"} /\ (Checked(p) = "lookup" => Valid(p))
    BY DEF Checked
  <2>2. Passed(q, [call |-> c, at |-> Checked(p), received |-> request[q].received])
    BY <1>2, <1>4, <1>8, <2>1 DEF Passed, Step, Answer, Gate
  <2> QED
    BY <1>5, <1>8, <2>1, <2>2
<1> QED
  BY <1>6, <1>7, <1>8 DEF Admit, c

\* Moving on behind the gates.
LEMMA GoOnStep ==
  ASSUME Inv, NEW q \in DOMAIN request, NEW step \in Step \cup Answer, Goto(q, step),
         request[q].at \in {"lookup", "insert", "find"},
         step \in {"insert", "duplicate", "refused", "found", "not_found"},
         step \in {"insert", "duplicate", "refused"} => request[q].at # "find",
         step = "duplicate" => Known(q)'
  PROVE  Well(q)
<1>1. /\ Moves(q) /\ Keyed' /\ Known(q)'
      /\ configured' = configured
      /\ request'[q].call = request[q].call /\ request'[q].at = step
      /\ request'[q].received = request[q].received
      /\ request'[q] = [request[q] EXCEPT !.at = step]
  BY GotoMoves DEF Moves
<1>2. /\ Passed(q, request[q])
      /\ request[q] \in [call : Calls[q], at : Step \cup Answer, received : Nat]
  BY CallOf DEF Passed
<1>3. request'[q] \in [call : Calls[q], at : Step \cup Answer, received : Nat]
  BY <1>1, <1>2
<1>4. Passed(q, request[q])'
  BY <1>1, <1>2, <1>3 DEF Passed, Gate
<1> QED
  BY <1>1, <1>4 DEF Well

\* The request's payload, once it stands at the lookup or the insert.
LEMMA CarriedPayload ==
  ASSUME Inv, NEW q \in DOMAIN request, request[q].at \in {"lookup", "insert"},
         NEW p \in request[q].call.json
  PROVE  /\ p \in Payload /\ Valid(p)
         /\ \A r \in request[q].call.json : r = p
BY CallOf DEF Passed

LEMMA DuplicateStep ==
  ASSUME Inv, NEW q \in DOMAIN request, request[q].at \in {"lookup", "insert"},
         NEW p \in request[q].call.json, Goto(q, "duplicate"),
         NEW e \in DOMAIN stored,
         e = EventId(p) \/ PayloadHash(stored[e]) = PayloadHash(p)
  PROVE  Well(q)
<1>1. /\ request'[q].call = request[q].call /\ stored' = stored
  BY GotoMoves DEF Goto
<1>2. Known(q)'
  BY <1>1, CarriedPayload, MatchIsKnown DEF Known
<1> QED
  BY <1>2, GoOnStep DEF Answer

LEMMA LookUpStep ==
  ASSUME Inv, NEW q, LookUp(q)
  PROVE  Well(q)
<1>1. q \in DOMAIN request /\ request[q].at = "lookup"
  BY DEF LookUp, At
<1>2. PICK p \in request[q].call.json :
        Goto(q, IF Matches(p) # {} THEN "duplicate" ELSE "insert")
  BY DEF LookUp
<1>3. CASE Matches(p) # {}
  BY <1>1, <1>2, <1>3, DuplicateStep DEF Matches
<1>4. CASE Matches(p) = {}
  BY <1>1, <1>2, <1>4, GoOnStep DEF Step
<1> QED
  BY <1>3, <1>4

LEMMA InsertStep ==
  ASSUME Inv, NEW q, Insert(q)
  PROVE  Well(q)
<1>1. q \in DOMAIN request /\ request[q].at = "insert"
  BY DEF Insert, At
<1>2. CASE \E p \in request[q].call.json : UniqueViolation(p) /\ Goto(q, "duplicate")
  BY <1>1, <1>2, DuplicateStep DEF UniqueViolation
<1>3. ASSUME NEW p \in request[q].call.json, ~UniqueViolation(p),
             stored' = [e \in DOMAIN stored \cup {EventId(p)} |->
                          IF e = EventId(p) THEN p ELSE stored[e]],
             request' = [request EXCEPT ![q].at = "accepted"],
             configured' = configured
      PROVE  Well(q)
  <2>1. p \in Payload /\ Valid(p)
    BY <1>1, CarriedPayload
  <2>2. EventId(p) \notin DOMAIN stored
    BY <1>3 DEF UniqueViolation
  <2>3. /\ DOMAIN request' = DOMAIN request /\ q \in HttpRequests
        /\ \A r \in DOMAIN request \ {q} : request'[r] = request[r]
        /\ request'[q] = [request[q] EXCEPT !.at = "accepted"]
    BY <1>1, <1>3, CallOf
  <2>4. /\ request'[q].call = request[q].call /\ request'[q].at = "accepted"
        /\ request'[q].received = request[q].received
        /\ request'[q] \in [call : Calls[q], at : Step \cup Answer, received : Nat]
    BY <1>1, <2>3, CallOf DEF Answer
  <2>5. Moves(q)
    BY <1>1, <1>3, <2>2, <2>3 DEF Moves
  <2>6. Keyed'
    BY <1>3, <2>1, <2>2 DEF Inv, Keyed
  <2>7. Passed(q, request[q])'
    BY <1>1, <1>3, <2>4, CallOf DEF Passed, Gate
  <2>8. Known(q)'
    BY <2>4 DEF Known
  <2> QED
    BY <2>5, <2>6, <2>7, <2>8 DEF Well
<1> QED
  BY <1>2, <1>3 DEF Insert

LEMMA RefuseStep ==
  ASSUME Inv, NEW q, Refuse(q)
  PROVE  Well(q)
BY GoOnStep DEF Refuse, At, Answer

LEMMA FindStep ==
  ASSUME Inv, NEW q, Find(q)
  PROVE  Well(q)
<1>1. q \in DOMAIN request /\ request[q].at = "find"
  BY DEF Find, At
<1>2. Goto(q, "found") \/ Goto(q, "not_found")
  BY DEF Find
<1> QED
  BY <1>1, <1>2, GoOnStep DEF Answer

LEMMA InvInit == Init => Inv
BY DEF Init, Inv, Keyed, NamedNewsKept

\* Every step keeps the inductive invariant.
LEMMA InvStep == Inv /\ [Next]_vars => Inv'
<1> SUFFICES ASSUME Inv, [Next]_vars PROVE Inv'
  OBVIOUS
<1>1. CASE UNCHANGED vars
  BY <1>1 DEF vars, Inv, Keyed, Passed, NamedNewsKept
<1>2. CASE Next
  <2>1. PICK q \in HttpRequests :
          \/ \E c \in Calls[q] : Arrive(q, c)
          \/ Receive(q) \/ Disconnect(q) \/ Admit(q)
          \/ LookUp(q) \/ Insert(q) \/ Refuse(q) \/ Find(q)
    BY <1>2 DEF Next
  <2>2. Well(q)
    BY <2>1, ArriveStep, ReceiveStep, DisconnectStep, AdmitStep, LookUpStep,
       InsertStep, RefuseStep, FindStep
  <2> QED
    BY <2>2, WellKeeps
<1> QED
  BY <1>1, <1>2

\* Every behaviour keeps the inductive invariant.
THEOREM Invariance == Spec => []Inv
BY InvInit, InvStep, PTL DEF Spec

\* Requests and rows keep their types, and a row is stored under its own id.
THEOREM IntakeTypeCorrect == Spec => []TypeOK
<1>1. Inv => TypeOK
  BY InvMeans
<1> QED
  BY <1>1, Invariance, PTL

\* Nothing that was refused at a gate, or not yet let through, acts on the database.
THEOREM HandledIsAdmittedHolds == Spec => []HandledIsAdmitted
<1>1. Inv => HandledIsAdmitted
  BY InvMeans
<1> QED
  BY <1>1, Invariance, PTL

\* A refusal for size is justified by the request itself, however many are read.
THEOREM RefusedForOwnSizeHolds == Spec => []RefusedForOwnSize
<1>1. Inv => RefusedForOwnSize
  BY InvMeans
<1> QED
  BY <1>1, Invariance, PTL

\* The lookup by id or hash finds one row at most, for all payloads and schedules.
THEOREM LookupUniqueHolds == Spec => []LookupUnique
<1>1. Inv => LookupUnique
  BY KeyedLooksUp DEF Inv
<1> QED
  BY <1>1, Invariance, PTL

\* A delivery is dismissed only for an event its sender named, or that tells the same
\* in every field the schema names; fields it does not name may differ
\* (derive_event_id, find_duplicate_event).
THEOREM NamedNewsKeptHolds == Spec => []NamedNewsKept
<1>1. Inv => NamedNewsKept
  BY DEF Inv
<1> QED
  BY <1>1, Invariance, PTL

\* Deliveries that normalize to one lead leave one row, whatever unnamed fields they
\* carry (normalize_lead).
THEOREM StoredOncePerLeadHolds == Spec => []StoredOncePerLead
<1>1. Inv => StoredOncePerLead
  BY KeyedStoresOnce DEF Inv
<1> QED
  BY <1>1, Invariance, PTL
=============================================================================
