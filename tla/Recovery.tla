------------------------------- MODULE Recovery -------------------------------
(***************************************************************************)
(* What becomes of a lead in the long run.  EventLifecycle lets every      *)
(* webhook and replay call be made once; here the callers persist: the     *)
(* sender delivers again what was not acknowledged, the operator replays   *)
(* what is neither completed nor dead-lettered, and faults are finitely    *)
(* many: crashes, refused commits, and receipts lost on their way back,    *)
(* so that a sender repeats what was done.                                 *)
(* Sender and operator are outside the program; that they persist is an    *)
(* assumption about them, that requests in flight go on is what the        *)
(* server's event loop does.                                               *)
(***************************************************************************)
EXTENDS EventLifecycle

CONSTANTS
  Carries,     \* the payload that each delivery carries, every time
  MaxFaults    \* bound: faults of a behaviour

ASSUME RecoveryAssumption ==
  Carries \in [Deliveries -> Payloads] /\ MaxFaults \in Nat

VARIABLES
  faults,      \* those that happened
  worked       \* history: per event, the passes that deliveries began

recovery_vars == <<vars, faults, worked>>

\* A call that may be made again: a delivery only while it is not acknowledged.
Unacknowledged == {"error", "lost"}

Reissue(q) ==
  /\ q \in DOMAIN reply
  /\ q \in Replays \/ reply[q].status \in Unacknowledged
  /\ reply' = Restrict(reply, DOMAIN reply \ {q})
  /\ UNCHANGED <<tables, session, tallies, faults, worked>>

\* The connection breaks, or the sender's patience ends, before the receipt of an
\* ended delivery arrives.
LoseReceipt(d) ==
  /\ d \in DOMAIN reply /\ reply[d].status \notin Unacknowledged
  /\ reply' = [reply EXCEPT ![d].status = "lost"]
  /\ UNCHANGED <<tables, session, tallies>>

CountedFault ==
  /\ faults < MaxFaults
  /\ Fault \/ \E d \in Deliveries : LoseReceipt(d)
  /\ faults' = faults + 1
  /\ UNCHANGED worked

Deliver(d) == LookUp(d, Carries[d]) /\ UNCHANGED <<faults, worked>>

Replay(r, e) == Load(r, e) /\ UNCHANGED <<faults, worked>>

GoOn(q) ==
  /\ Advance(q)
  /\ worked' = IF q \in Deliveries /\ At(q, "begin") THEN Bump(worked, EventOf(q)) ELSE worked
  /\ UNCHANGED faults

Settled(e) ==
  e \in DOMAIN events /\ events[e].status \in {"completed", "dead_lettered"}

\* The operator's round: an accepted event that is not settled.
Repair(r, e) == e \in DOMAIN events /\ ~Settled(e) /\ Replay(r, e)

RecoveryInit == Init /\ faults = 0 /\ worked = [e \in EventIds |-> 0]

RecoveryNext ==
  \/ \E d \in Deliveries : Deliver(d)
  \/ \E r \in Replays, e \in EventIds : Replay(r, e)
  \/ \E q \in Requests : GoOn(q) \/ Reissue(q)
  \/ CountedFault

\* Where operators wait (Exclusive), a repair is possible only while no request works
\* on the event: the operator who keeps trying gets through some time.
Fairness ==
  /\ \A q \in Requests : WF_recovery_vars(GoOn(q)) /\ WF_recovery_vars(Reissue(q))
  /\ \A d \in Deliveries : WF_recovery_vars(Deliver(d))
  /\ \A e \in EventIds : SF_recovery_vars(\E r \in Replays : Repair(r, e))

RecoverySpec == RecoveryInit /\ [][RecoveryNext]_recovery_vars /\ Fairness

\* However often an event is posted again, because the receipt was lost, the
\* process died or the first call is still in flight, its downstream work is
\* started by one delivery only; what else is done for it, an operator asked for.
WorkedOnce == \A e \in EventIds : worked[e] <= 1

\* No lead is lost at the door: whatever faults hit its deliveries, a sender that
\* delivers again until it is acknowledged has its event stored.
LeadStored == \A d \in Deliveries : <>(IdOf[Carries[d]] \in DOMAIN events)

\* No accepted lead is stuck: whatever status a crash or an exception left it in,
\* the replays of a persistent operator bring it to completion or to the
\* dead-letter table, and from some time on it stays settled.
EventuallySettled ==
  \A d \in Deliveries : <>[]Settled(IdOf[Carries[d]])
=============================================================================
