-------------------------------- MODULE Intake --------------------------------
(***************************************************************************)
(* Requests on their way to the database: the size limit of the ASGI       *)
(* middleware, routing, the reading of a body in chunks, authentication,   *)
(* validation, and then the lookup and insert of the webhook or the lookup *)
(* of an operator's request.  Requests interleave between any two steps.   *)
(*                                                                         *)
(* What a stored event goes through next is EventLifecycle, which this     *)
(* module implements up to the insert.  FastAPI's order is taken as it is: *)
(* the body of a webhook call is read and parsed before its dependencies   *)
(* run, any exception in reading it but a parse error is answered 400, and *)
(* the schema is checked after the dependencies.                           *)
(***************************************************************************)
EXTENDS LeadIdentity, Naturals, FiniteSetsExt

CONSTANTS
  HttpRequests, \* HTTP requests
  Calls,        \* the calls each of them can be
  AskedIds,     \* event ids that operators ask for
  MaxBytes      \* the setting max_request_size_bytes

Secret == {"missing", "wrong", "non_ascii", "right"}

\* "declared" is the length _content_length reads, if any; "json" is what the
\* body parses to, if it does.
WebhookCall == [to : {"webhook"}, declared : SUBSET Nat, size : Nat \ {0},
                secret : Secret, json : SUBSET Payload]

AdminCall == [to : {"detail", "replay"}, declared : SUBSET Nat, secret : Secret,
              id : AskedIds]

ASSUME IntakeAssumption ==
  /\ Calls \in [HttpRequests -> SUBSET (WebhookCall \cup AdminCall)]
  /\ \A c \in UNION {Calls[q] : q \in HttpRequests} :
       /\ \A m, n \in c.declared : m = n
       /\ c.to = "webhook" => \A p, r \in c.json : p = r
  /\ MaxBytes \in Nat \ {0}

VARIABLES
  configured,   \* the services whose shared secret is set; never changes
  stored,       \* table events: external id -> payload of the row
  request       \* requests that arrived -> where they are

vars == <<configured, stored, request>>

\* A request in flight is at a step, an ended one at its answer: 413, 400 of a
\* body cut off or a client gone, 422 of a body that is no JSON or no event,
\* 404, 503, 401, 403, 500; "accepted" and "found" go on in EventLifecycle.
Step   == {"reading", "admit", "lookup", "insert", "find"}
Answer == {"too_large", "cut_off", "disconnected", "malformed", "no_route",
           "not_configured", "unauthenticated", "forbidden", "error", "invalid",
           "duplicate", "accepted", "refused", "not_found", "found"}

TypeOK ==
  /\ configured \subseteq {"webhook", "admin"}
  /\ \A e \in DOMAIN stored : Valid(stored[e]) /\ EventId(stored[e]) = e
  /\ DOMAIN request \subseteq HttpRequests
  /\ \A q \in DOMAIN request :
       request[q] \in [call : Calls[q], at : Step \cup Answer, received : Nat]

At(q, step) == q \in DOMAIN request /\ request[q].at = step

Goto(q, step) ==
  /\ request' = [request EXCEPT ![q].at = step]
  /\ UNCHANGED <<configured, stored>>

\* The service whose secret guards the call's route.
Service(c) == IF c.to = "webhook" THEN "webhook" ELSE "admin"

(***************************************************************************)
(* Size limit, routing and the body.                                       *)
(***************************************************************************)

DeclaredTooLarge(c) == \E n \in c.declared : n > MaxBytes

\* Only the webhook's route has a body to read.
FirstStep(c) ==
  IF c.to = "webhook" THEN "reading"
  ELSE IF Addressable(c.id) THEN "admit" ELSE "no_route"

Arrive(q, c) ==
  /\ q \notin DOMAIN request
  /\ request' = [r \in DOMAIN request \cup {q} |->
                   IF r # q THEN request[r]
                   ELSE [call |-> c, received |-> 0,
                         at |-> IF DeclaredTooLarge(c) THEN "too_large" ELSE FirstStep(c)]]
  /\ UNCHANGED <<configured, stored>>

\* Mutant: the middleware keeps one count for all the requests it serves.
CountedByAll(q, n) == MapThenSumSet(LAMBDA r : request[r].received, DOMAIN request) + n

\* received_bytes after a message with n bytes more.
Counted(q, n) == request[q].received + n

\* Where c stands after a message that brings it to "got" bytes of its body and
\* the middleware to "counted".
AfterMessage(c, got, counted) ==
  IF counted > MaxBytes THEN "cut_off"
  ELSE IF got < c.size THEN "reading"
  ELSE IF c.json = {} THEN "malformed" ELSE "admit"

\* One message of the body; RequestTooLargeError ends the reading with a 400.
Receive(q) ==
  /\ At(q, "reading")
  /\ LET c == request[q].call
     IN  \E n \in 1 .. c.size - request[q].received :
           request' = [request EXCEPT
             ![q].received = @ + n,
             ![q].at = AfterMessage(c, request[q].received + n, Counted(q, n))]
  /\ UNCHANGED <<configured, stored>>

Disconnect(q) == At(q, "reading") /\ Goto(q, "disconnected")

(***************************************************************************)
(* Authentication and validation.                                          *)
(***************************************************************************)

\* compare_digest raises a TypeError on texts that are not ASCII.
Comparison(secret) ==
  CASE secret = "missing"   -> "unauthenticated"
    [] secret = "wrong"     -> "forbidden"
    [] secret = "non_ascii" -> "error"
    [] secret = "right"     -> "admitted"

\* Mutant: a service without a secret lets everyone in.
VerdictIfConfigured(c) ==
  IF Service(c) \notin configured THEN "admitted" ELSE Comparison(c.secret)

Verdict(c) ==
  IF Service(c) \notin configured THEN "not_configured" ELSE Comparison(c.secret)

\* Mutant: the schema does not refuse what has the wrong type.
CheckedLoosely(p) == "lookup"

Checked(p) == IF Valid(p) THEN "lookup" ELSE "invalid"

\* The secret is checked, then the body against the schema.
Admit(q) ==
  /\ At(q, "admit")
  /\ LET c == request[q].call
     IN  \/ Verdict(c) # "admitted" /\ Goto(q, Verdict(c))
         \/ Verdict(c) = "admitted" /\ c.to # "webhook" /\ Goto(q, "find")
         \/ /\ Verdict(c) = "admitted" /\ c.to = "webhook"
            /\ \E p \in c.json : Goto(q, Checked(p))

(***************************************************************************)
(* The webhook's lookup and insert, and the lookup of an operator's call.  *)
(***************************************************************************)

\* The well-formed events that the calls carry.
ValidPayloads ==
  {p \in UNION {c.json : c \in {d \in UNION {Calls[q] : q \in HttpRequests} : d.to = "webhook"}} :
     Valid(p)}

\* The rows find_duplicate_event selects for p; scalar_one_or_none raises if
\* they are several, which LookupUnique excludes.
Matches(p) ==
  {e \in DOMAIN stored : e = EventId(p) \/ PayloadHash(stored[e]) = PayloadHash(p)}

LookUp(q) ==
  /\ At(q, "lookup")
  /\ \E p \in request[q].call.json :
       Goto(q, IF Matches(p) # {} THEN "duplicate" ELSE "insert")

\* The unique columns external_event_id and payload_hash reject the row.
UniqueViolation(p) ==
  \E e \in DOMAIN stored : e = EventId(p) \/ PayloadHash(stored[e]) = PayloadHash(p)

Insert(q) ==
  /\ At(q, "insert")
  /\ \E p \in request[q].call.json :
       \/ /\ UniqueViolation(p)
          /\ Goto(q, "duplicate")
       \/ /\ ~UniqueViolation(p)
          /\ stored' = [e \in DOMAIN stored \cup {EventId(p)} |->
                          IF e = EventId(p) THEN p ELSE stored[e]]
          /\ request' = [request EXCEPT ![q].at = "accepted"]
          /\ UNCHANGED configured

\* Mutant: every exception of the insert is taken for an IntegrityError.
RefuseAsDuplicate(q) == At(q, "insert") /\ Goto(q, "duplicate")

\* The database refuses the insert with another error than an IntegrityError,
\* as PostgreSQL does with an id of more than 128 characters.
Refuse(q) == At(q, "insert") /\ Goto(q, "refused")

\* _get_event, for the detail view and for a replay.
Find(q) ==
  /\ At(q, "find")
  /\ Goto(q, IF request[q].call.id \in DOMAIN stored THEN "found" ELSE "not_found")

(***************************************************************************)
(* Specification.                                                          *)
(***************************************************************************)

Init ==
  /\ configured \in SUBSET {"webhook", "admin"}
  /\ stored = [e \in {} |-> None]
  /\ request = [q \in {} |-> None]

Next ==
  \E q \in HttpRequests :
    \/ \E c \in Calls[q] : Arrive(q, c)
    \/ Receive(q) \/ Disconnect(q) \/ Admit(q)
    \/ LookUp(q) \/ Insert(q) \/ Refuse(q) \/ Find(q)

Spec == Init /\ [][Next]_vars

(***************************************************************************)
(* Properties.                                                             *)
(***************************************************************************)

Gate == {"too_large", "cut_off", "disconnected", "malformed", "no_route",
         "not_configured", "unauthenticated", "forbidden", "error", "invalid"}

Past(q) == request[q].at \notin Gate \cup {"reading", "admit"}

\* Whatever else is in flight, no request acts on the database unless the secret
\* of its service is set and it knows it, no more of it than the limit was read,
\* and the event it carries is well-formed.
HandledIsAdmitted ==
  \A q \in DOMAIN request : Past(q) =>
    LET c == request[q].call
    IN  /\ Service(c) \in configured /\ c.secret = "right"
        /\ request[q].received <= MaxBytes
        /\ c.to = "webhook" => request[q].received = c.size /\ \E p \in c.json : Valid(p)

\* A request is refused for its size only by what it declared or sent itself,
\* however many others are being read (RequestSizeLimitMiddleware).
RefusedForOwnSize ==
  \A q \in DOMAIN request :
    LET c == request[q].call
    IN  /\ request[q].at = "too_large" => \E n \in c.declared : n > MaxBytes
        /\ request[q].at = "cut_off" => request[q].received > MaxBytes

\* Looking up by two keys at once finds one event at most, whatever mixture of
\* ids and bodies was delivered before: scalar_one_or_none never raises.
LookupUnique ==
  \A p \in ValidPayloads : \A e, f \in Matches(p) : e = f

\* What a text tells, apart from its whitespace, which counts only in that it
\* divides words.
Says(v) ==
  IF v.is \in {"text", "other"} /\ v.words # ""
    THEN [words |-> v.words, run |-> IF v.spacing = "joined" THEN "joined" ELSE "divided"]
    ELSE [words |-> "", run |-> "none"]

\* What a payload tells in the fields that the schema names; in a phone number
\* whitespace does not count at all.
LeadContent(p) ==
  [event_type |-> Says(EventType(p)),
   location_id |-> Says(p.location_id),
   contact |-> [f \in ContactFields \ {"phone"} |-> Says(p.contact[f])],
   phone |-> Says(p.contact["phone"]).words,
   custom_fields |-> [k \in CustomKeys |->
     IF k \in DOMAIN p.custom_fields THEN Says(p.custom_fields[k]) ELSE Says(None)]]

\* All that a payload tells, the fields that the schema does not name included.
Content(p) == [lead |-> LeadContent(p), unnamed |-> Says(p.extra)]

\* A delivery is dismissed as a duplicate only if an event is stored to which its
\* sender gave the same id, or that has none either and tells the same in every
\* field the schema names.  So nothing that the bridge would summarize, notify or
\* synchronize is dropped because something else resembles it; what may be dropped,
\* if the sender gives no id, is news in a field that the schema does not name
\* (derive_event_id).
NamedNewsKept ==
  \A q \in DOMAIN request : request[q].at = "duplicate" =>
    \A p \in request[q].call.json : \E e \in DOMAIN stored :
      LET r == stored[e]
      IN  /\ Says(p.event_id) = Says(r.event_id)
          /\ Says(p.event_id) # Says(None) \/ LeadContent(p) = LeadContent(r)

\* Of deliveries without an id that tell the same in the fields the schema names,
\* with custom fields and type spelled alike, one is stored at most, whatever the
\* whitespace in and around their other fields, and whatever stands in fields that
\* the schema does not name (normalize_lead, derive_event_id).
StoredOncePerLead ==
  \A e, f \in DOMAIN stored :
    LET p == stored[e]
        r == stored[f]
    IN  /\ ~Supplied(p) /\ ~Supplied(r)
        /\ p.custom_fields = r.custom_fields /\ EventType(p) = EventType(r)
        /\ LeadContent(p) = LeadContent(r)
        => e = f

(***************************************************************************)
(* Intake implements the intake of EventLifecycle: to the database, a      *)
(* webhook call begins with its lookup, a refused one does nothing, and a  *)
(* delivery of EventLifecycle is one that got through to the lookup.       *)
(***************************************************************************)

IdOf == [p \in ValidPayloads |-> EventId(p)]

Ids == {IdOf[p] : p \in ValidPayloads}

Carried(q) == CHOOSE p \in request[q].call.json : TRUE

RowOf(p) == [payload |-> p, status |-> "received", attempt_count |-> 0,
             error_message |-> {}]

StandsAt(steps) == {q \in DOMAIN request : request[q].at \in steps}

Rows == [e \in DOMAIN stored |-> RowOf(stored[e])]

Sessions ==
  [q \in StandsAt({"insert", "accepted"}) |->
     [at |-> IF At(q, "insert") THEN "insert" ELSE "begin",
      row |-> RowOf(Carried(q)), problems |-> {}]]

Receipts ==
  [q \in StandsAt({"duplicate", "refused"}) |->
     [status |-> IF At(q, "refused") THEN "error" ELSE "duplicate",
      event |-> EventId(Carried(q))]]

NoneYet == [e \in Ids |-> 0]

Lifecycle == INSTANCE EventLifecycle WITH
  EventIds     <- Ids,
  Payloads     <- ValidPayloads,
  Overlong     <- {},
  BadContact   <- {},
  Deliveries   <- HttpRequests,
  Replays      <- {},
  MaxAttempts  <- 1,
  Exclusive    <- FALSE,
  events       <- Rows,
  dead_letters <- [e \in {} |-> None],
  session      <- Sessions,
  reply        <- Receipts,
  inferences   <- NoneYet,
  passes       <- NoneYet,
  notified     <- NoneYet,
  synced       <- NoneYet

ImplementsLifecycle == Lifecycle!Spec

(***************************************************************************)
(* What the documentation says and the code does not do (see README).      *)
(***************************************************************************)

\* The service normalizes whitespace: of deliveries without an id that differ in
\* nothing else, one is stored at most.
StoredOnceHoweverSpaced ==
  \A e, f \in DOMAIN stored :
    /\ ~Supplied(stored[e]) /\ ~Supplied(stored[f])
    /\ Content(stored[e]) = Content(stored[f])
    => e = f

\* An operator who has the secret reaches any event that is stored.
Authorized(c) == "admin" \in configured /\ c.secret = "right" /\ ~DeclaredTooLarge(c)

StoredIsReachable ==
  [][\A q \in DOMAIN request' \ DOMAIN request :
       LET c == request'[q].call
       IN  c.to # "webhook" /\ Authorized(c) /\ c.id \in DOMAIN stored
             => request'[q].at # "no_route"]_vars
=============================================================================
