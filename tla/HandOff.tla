------------------------------- MODULE HandOff -------------------------------
(***************************************************************************)
(* What a processing pass owes its caller between the two commits of       *)
(* EventProcessor.process: a summary, then one notification, then one CRM  *)
(* synchronization, each with a reported outcome, and no outcome at all    *)
(* only for a lead that cannot be summarized or whose contact the CRM's    *)
(* client cannot address.  These are the steps EventLifecycle takes as     *)
(* Summarize, Notify and Sync; ProcessingPass implements them.             *)
(***************************************************************************)
VARIABLES
  lead,       \* what is wrong with the lead: "overlong", "contact"; never changes
  stage,      \* "summarize", "notify", "sync", "finish" or "raised"
  problems    \* what is reported as failed: "notification", "sync"

vars == <<lead, stage, problems>>

Summarize ==
  /\ stage = "summarize"
  /\ stage' = "notify" \/ ("overlong" \in lead /\ stage' = "raised")
  /\ UNCHANGED <<lead, problems>>

Notify ==
  /\ stage = "notify"
  /\ stage' = "sync"
  /\ problems' \in {{}, {"notification"}}
  /\ UNCHANGED lead

Sync ==
  /\ stage = "sync"
  /\ \/ stage' = "finish" /\ problems' \in {problems, problems \cup {"sync"}}
     \/ "contact" \in lead /\ stage' = "raised" /\ UNCHANGED problems
  /\ UNCHANGED lead

Init ==
  /\ lead \subseteq {"overlong", "contact"}
  /\ stage = "summarize"
  /\ problems = {}

Next == Summarize \/ Notify \/ Sync

Spec == Init /\ [][Next]_vars
=============================================================================
