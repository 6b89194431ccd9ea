----------------------------- MODULE LeadIdentity -----------------------------
(***************************************************************************)
(* How the bridge tells one lead event from another: the webhook's JSON    *)
(* body, the lead normalize_lead makes of it, and the two idempotency      *)
(* keys, the payload hash and the event id.                                *)
(*                                                                         *)
(* A text is its words and its spacing; no property looks closer.  SHA-256 *)
(* is taken to be free of collisions: a hash is the data hashed.  That a   *)
(* sender supplies an id that spells a derived one is left out.            *)
(***************************************************************************)

CONSTANTS
  Words,      \* what texts can say, apart from their whitespace; "" is nothing
  Slashed,    \* the words among them that contain a slash
  CustomKeys  \* keys of custom_fields

ASSUME WordsAssumption == "" \in Words /\ Slashed \subseteq Words \ {""}

\* Words run together, with one blank between them (or a word alone), or with any
\* other whitespace between or around them.
Spacing == {"joined", "single", "loose"}

\* A field of a JSON object; "other" is any value that is neither text nor null.
Value == [is : {"absent", "null", "text", "other"}, words : Words, spacing : Spacing]

Text(w, s) == [is |-> "text", words |-> w, spacing |-> s]
None       == [is |-> "null", words |-> "", spacing |-> "joined"]

ContactFields == {"id", "first_name", "last_name", "email", "phone", "source"}

\* "extra" stands for the fields that the schema lets through and does not name:
\* they are stored with the row and count in its hash, and nothing reads them.
Payload == [event_id : Value, event_type : Value, location_id : Value,
            contact : [ContactFields -> Value],
            custom_fields : UNION {[K -> Value] : K \in SUBSET CustomKeys},
            extra : Value]

\* The schema takes text, null or nothing where it says str | None; an
\* event_type has a default but must not be null.
Valid(p) ==
  /\ \A v \in {p.event_id, p.location_id} \cup {p.contact[f] : f \in ContactFields} :
       v.is # "other"
  /\ p.event_type.is \in {"text", "absent"}

EventType(p) ==
  IF p.event_type.is = "text" THEN p.event_type ELSE Text("contact.created", "single")

\* Anything but a text with words in it becomes None.
Clean(v) ==
  IF v.is = "text" /\ v.words # ""
    THEN [v EXCEPT !.spacing = IF @ = "loose" THEN "single" ELSE @]
    ELSE None

\* Mutant: a phone number is cleaned as any other text.
PhoneAsText(v) == Clean(v)

\* A phone number loses all of its whitespace.
CleanPhone(v) == IF Clean(v) = None THEN None ELSE Text(v.words, "joined")

\* Custom fields are kept as they are sent, unless they are blank texts.
KeptFields(p) ==
  {k \in DOMAIN p.custom_fields :
     p.custom_fields[k].is = "text" => Clean(p.custom_fields[k]) # None}

\* full_name, service_requested, preferred_schedule and message are functions
\* of the fields below.
Lead(p) ==
  [contact |-> [f \in ContactFields |->
                  IF f = "phone" THEN CleanPhone(p.contact[f]) ELSE Clean(p.contact[f])],
   location_id |-> Clean(p.location_id),
   custom_fields |-> [k \in KeptFields(p) |-> p.custom_fields[k]]]

Hash(data) == [sha256 |-> data]

\* Mutant: a hash of the content, whatever id it came with.
ContentHash(p) == Hash([p EXCEPT !.event_id = None])

PayloadHash(p) == Hash(p)

Supplied(p) == Clean(p.event_id) # None

SuppliedId(v) == [supplied |-> v]
DerivedId(fields) == [derived |-> Hash(fields)]

\* Mutant: leads are told apart by their contact alone.
EventIdOfContact(p) ==
  IF Supplied(p)
    THEN SuppliedId(Clean(p.event_id))
    ELSE DerivedId([event_type |-> EventType(p), lead |-> Lead(p).contact])

EventId(p) ==
  IF Supplied(p)
    THEN SuppliedId(Clean(p.event_id))
    ELSE DerivedId([event_type |-> EventType(p), lead |-> Lead(p)])

\* The id fits the one path segment that /admin/events/{event_id} has for it.
Addressable(e) == "supplied" \in DOMAIN e => e.supplied.words \notin Slashed
=============================================================================
