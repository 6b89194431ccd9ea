--------------------------- MODULE MCProcessingPass ---------------------------
(***************************************************************************)
(* Setups of ProcessingPass for TLC: every provider chain with hand-offs   *)
(* that need no request, and every hand-off behind the mock provider or    *)
(* behind a provider that cannot be created.                               *)
(***************************************************************************)
EXTENDS ProcessingPass

Chains == {s \in Setup :
  /\ s.notifier = "none" /\ s.crm = "disabled" /\ s.contact = "valid"
  /\ ~s.summary_tag /\ ~s.high_intent_tag /\ ~s.action_field
  /\ ~s.secondary => s.provider["secondary"] = "unavailable"}

Handoffs == {s \in Setup :
  /\ s.provider["primary"] # "http" /\ s.provider["secondary"] = "unavailable"
  /\ ~s.secondary /\ s.overflows = {}
  /\ s.crm # "client" => /\ s.contact = "valid"
                         /\ ~s.summary_tag /\ ~s.high_intent_tag /\ ~s.action_field}

MCSetups == Chains \cup Handoffs
=============================================================================
