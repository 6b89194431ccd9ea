----------------------------- MODULE EventLedger -----------------------------
(***************************************************************************)
(* What the bridge promises about each lead event, without saying how: an  *)
(* event is accepted once, gets a bounded number of numbered attempts, and *)
(* is either settled by one of them, left for another, or buried for good  *)
(* once the attempts are used up.                                          *)
(*                                                                         *)
(* EventLifecycle implements it when its operators do not replay an event  *)
(* that a request is working on.                                           *)
(***************************************************************************)
EXTENDS Naturals

CONSTANTS EventIds, MaxAttempts

VARIABLES
  status,    \* per event, "absent" until it is accepted
  attempts   \* per event, the attempts begun

vars == <<status, attempts>>

Is(e, s) == status[e] = s

Become(e, s) == status' = [status EXCEPT ![e] = s]

Accept(e) ==
  /\ Is(e, "absent")
  /\ Become(e, "received")
  /\ UNCHANGED attempts

\* Any accepted event may be attempted again, a settled one included.
Attempt(e) ==
  /\ ~Is(e, "absent") /\ ~Is(e, "dead_lettered")
  /\ attempts[e] < MaxAttempts
  /\ Become(e, "processing")
  /\ attempts' = [attempts EXCEPT ![e] = @ + 1]

Settle(e) ==
  /\ Is(e, "processing")
  /\ Become(e, "completed") \/ Become(e, "partially_completed")
  /\ UNCHANGED attempts

\* A replay may fail before it could begin its attempt.
Fail(e) ==
  /\ ~Is(e, "absent") /\ ~Is(e, "dead_lettered")
  /\ Become(e, "failed")
  /\ UNCHANGED attempts

Bury(e) ==
  /\ ~Is(e, "absent")
  /\ attempts[e] = MaxAttempts
  /\ Become(e, "dead_lettered")
  /\ UNCHANGED attempts

Init ==
  /\ status = [e \in EventIds |-> "absent"]
  /\ attempts = [e \in EventIds |-> 0]

Next == \E e \in EventIds :
          Accept(e) \/ Attempt(e) \/ Settle(e) \/ Fail(e) \/ Bury(e)

Spec == Init /\ [][Next]_vars
=============================================================================
