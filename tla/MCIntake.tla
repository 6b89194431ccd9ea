------------------------------- MODULE MCIntake -------------------------------
(***************************************************************************)
(* Small instances of Intake for TLC: calls with every payload through     *)
(* open gates, beside calls with one payload that meet every gate and      *)
(* operators who ask for events that may be stored.                        *)
(***************************************************************************)
EXTENDS Intake, TLC

CONSTANTS q1, q2, q3

MCWords == {"", "Ann", "Bob", "555", "new roof", "old roof", "A", "B", "x/y",
            "contact.created", "more"}
MCSlashed == {"x/y"}
MCKeys == {"message"}

Absent == [is |-> "absent", words |-> "", spacing |-> "joined"]
T(w)   == Text(w, "single")

Base ==
  [event_id |-> Absent, event_type |-> Absent, location_id |-> Absent,
   contact |-> [f \in ContactFields |->
                  IF f = "first_name" THEN T("Ann")
                  ELSE IF f = "phone" THEN T("555") ELSE Absent],
   custom_fields |-> [k \in {"message"} |-> T("new roof")],
   extra |-> Absent]

Respaced ==
  [Base EXCEPT !.contact["first_name"].spacing = "loose",
               !.contact["phone"].spacing = "joined",
               !.event_id = Text("", "loose"),
               !.event_type = T("contact.created")]
LooseMessage == [Base EXCEPT !.custom_fields["message"].spacing = "loose"]
OtherMessage == [Base EXCEPT !.custom_fields["message"].words = "old roof"]
OtherName    == [Base EXCEPT !.contact["first_name"].words = "Bob"]
Extended     == [Base EXCEPT !.extra = T("more")]
BaseA        == [Base EXCEPT !.event_id = T("A")]
OtherA       == [OtherName EXCEPT !.event_id = Text("A", "loose")]
BaseB        == [Base EXCEPT !.event_id = T("B")]
WithSlash    == [Base EXCEPT !.event_id = T("x/y")]
NumericPhone == [Base EXCEPT !.contact["phone"] = [Absent EXCEPT !.is = "other", !.words = "555"]]

Post(p) == [to |-> "webhook", declared |-> {}, size |-> 1, secret |-> "right", json |-> {p}]
Ask(to, id) == [to |-> to, declared |-> {}, secret |-> "right", id |-> id]

\* Ways to be refused, or to be let in.
GateCalls ==
  LET open == [Post(Base) EXCEPT !.size = 2, !.declared = {2}]
      ask  == Ask("detail", EventId(BaseA))
  IN  {[open EXCEPT !.size = 3, !.declared = {}], [open EXCEPT !.declared = {3}],
       [open EXCEPT !.json = {}], [open EXCEPT !.json = {NumericPhone}]}
      \cup {[open EXCEPT !.secret = s] : s \in Secret}
      \cup {ask, [ask EXCEPT !.secret = "wrong"], [ask EXCEPT !.declared = {3}],
            Ask("replay", EventId(Base)), Ask("replay", EventId(WithSlash))}

PayloadCalls ==
  {Post(p) : p \in {Base, Respaced, LooseMessage, OtherMessage, Extended,
                    BaseA, OtherA, BaseB}}

MCAsked == {EventId(p) : p \in {Base, BaseA, WithSlash}}

\* Two calls with any payload beside one that meets the gates or asks.
MCCalls    == [q \in HttpRequests |-> IF q = q3 THEN GateCalls ELSE PayloadCalls]
MCRespaced == [q \in HttpRequests |-> {Post(p) : p \in {Base, Respaced, LooseMessage}}]
MCReach    == [q \in HttpRequests |-> {Post(WithSlash), Ask("replay", EventId(WithSlash))}]
MCSymmetry == Permutations(HttpRequests \ {q3})
=============================================================================
