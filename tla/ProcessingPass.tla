---------------------------- MODULE ProcessingPass ----------------------------
(***************************************************************************)
(* One processing pass on the wire: the provider chain with its fallback   *)
(* (LeadSummarizer), the notification (WebhookNotifier) and the CRM        *)
(* operations (HighLevelContactSync).  All of them make their requests     *)
(* through the same bounded retry: a request whose answer does not come,   *)
(* or is a temporary status, is made again until the attempts are used up; *)
(* any other error is final at once.                                       *)
(*                                                                         *)
(* The services at the other end are external: they may do what a request  *)
(* asks and still have the answer lost or replaced by a gateway's error.   *)
(* Waits between attempts, formats and texts are left out.                 *)
(***************************************************************************)
EXTENDS Naturals, Sequences, FiniteSets

CONSTANTS
  Setups,      \* configurations and leads to consider
  MaxRetries   \* the setting max_retry_attempts: requests per operation

ProviderOps == {"primary", "secondary"}
CrmOps      == {"note", "tags", "field"}
Ops         == ProviderOps \cup {"notification"} \cup CrmOps

\* What select_notifier and select_highlevel_sync can come up with; "none" is
\* also the preview of demo mode.
Notifiers == {"webhook", "none", "misconfigured"}
Crms      == {"client", "disabled", "misconfigured"}

\* A setup is the part of the settings and of the lead that a pass depends on.
Setup == [provider     : [ProviderOps -> {"http", "mock", "unavailable"}],
          secondary    : BOOLEAN,    \* llm_secondary_provider is set
          overflows    : {{}, {"fallback"}, {"fallback", "mock"}},
                                     \* who cannot fit the lead in a LeadSummary
          notifier     : Notifiers,
          crm          : Crms,
          contact      : {"valid", "missing", "unsendable"},
          summary_tag     : BOOLEAN,
          high_intent_tag : BOOLEAN,
          action_field    : BOOLEAN]

ASSUME SetupsAssumption ==
  /\ Setups \subseteq Setup
  /\ MaxRetries \in 1 .. 10

VARIABLES
  setup,      \* never changes
  at,         \* the operation in progress, or where the pass stands
  asked,      \* per operation, the requests made
  answer,     \* per operation, the answer to the last request
  rows,       \* the ProviderAttempts, in order
  summary,    \* the summary handed off
  warnings,   \* the operations reported as failed
  applied     \* per operation, how often its service did what was asked

vars == <<setup, at, asked, answer, rows, summary, warnings, applied>>

Answer == {"none", "awaited", "ok", "redirect", "temporary", "error"}

Attempt == [provider : ProviderOps \cup {"fallback"}, success : BOOLEAN]

Summary == [source : {"none", "primary", "secondary", "fallback"}, high_intent : BOOLEAN]

TypeOK ==
  /\ setup \in Setups
  /\ at \in Ops \cup {"fallback", "sync", "finished", "raised"}
  /\ asked \in [Ops -> 0 .. MaxRetries]
  /\ answer \in [Ops -> Answer]
  /\ rows \in Seq(Attempt)
  /\ summary \in Summary
  /\ warnings \subseteq Ops \cup {"sync"}
  /\ applied \in [Ops -> 0 .. MaxRetries]

(***************************************************************************)
(* The retried request.                                                    *)
(***************************************************************************)

\* Operations that never reach the network in this setup.
Offline(op) ==
  \/ op \in ProviderOps /\ setup.provider[op] # "http"
  \/ op = "notification" /\ setup.notifier # "webhook"
  \/ op \in CrmOps /\ setup.contact = "unsendable"

\* Mutants: any provider, notifier or CRM error is retried; one attempt too many
\* counts as the last.
RetryAnything(op) == answer[op] \in {"temporary", "error"} /\ asked[op] < MaxRetries
RetryForever(op)  == answer[op] = "temporary"

Retries(op) == answer[op] = "temporary" /\ asked[op] < MaxRetries

Request(op) ==
  /\ at = op /\ ~Offline(op)
  /\ answer[op] = "none" \/ Retries(op)
  /\ asked' = [asked EXCEPT ![op] = @ + 1]
  /\ answer' = [answer EXCEPT ![op] = "awaited"]
  /\ UNCHANGED <<setup, at, rows, summary, warnings, applied>>

\* The service, the network and the client's timeout.  The client does not follow
\* a redirect; to a provider's client it is an error, having no summary in it.
Reply(op) ==
  /\ answer[op] = "awaited"
  /\ \/ /\ answer' = [answer EXCEPT ![op] = "ok"]
        /\ applied' = [applied EXCEPT ![op] = @ + 1]
     \/ /\ \E a \in {"temporary", "error"} : answer' = [answer EXCEPT ![op] = a]
        /\ applied' \in {applied, [applied EXCEPT ![op] = @ + 1]}
     \/ /\ op \notin ProviderOps
        /\ answer' = [answer EXCEPT ![op] = "redirect"]
        /\ UNCHANGED applied
  /\ UNCHANGED <<setup, at, asked, rows, summary, warnings>>

\* is_error is a status of 400 or more.
Succeeded(op) == at = op /\ ~Offline(op) /\ answer[op] \in {"ok", "redirect"}

\* Mutant: a temporary answer to the last attempt is neither retried nor raised.
NeverGivesUp(op) == at = op /\ ~Offline(op) /\ answer[op] = "error"

GaveUp(op) ==
  /\ at = op /\ ~Offline(op)
  /\ answer[op] \in {"temporary", "error"}
  /\ ~Retries(op)

(***************************************************************************)
(* LeadSummarizer.summarize.                                               *)
(***************************************************************************)

\* The mock provider answers without a request, or raises a ValidationError.
Mocked(op) == at = op /\ op \in ProviderOps /\ setup.provider[op] = "mock"

\* An "ok" answer of a provider is a valid LeadSummary; an invalid one is an
\* error like any other.
Summarized(op) ==
  /\ op \in ProviderOps
  /\ Succeeded(op) \/ (Mocked(op) /\ "mock" \notin setup.overflows)
  /\ rows' = Append(rows, [provider |-> op, success |-> TRUE])
  /\ \E h \in BOOLEAN : summary' = [source |-> op, high_intent |-> h]
  /\ at' = "notification"
  /\ UNCHANGED <<setup, asked, answer, warnings, applied>>

\* Mutants: the secondary provider is passed over; each provider hands over to the
\* other; the last failure is raised.
BackAndForth(op) ==
  IF ~setup.secondary THEN "fallback"
  ELSE IF op = "primary" THEN "secondary" ELSE "primary"
StraightToFallback(op) == "fallback"
NoFallback(op) == IF op = "primary" /\ setup.secondary THEN "secondary" ELSE "raised"

NextProvider(op) ==
  IF op = "primary" /\ setup.secondary THEN "secondary" ELSE "fallback"

ProviderFailed(op) ==
  /\ op \in ProviderOps
  /\ \/ GaveUp(op)
     \/ Mocked(op) /\ "mock" \in setup.overflows
     \/ at = op /\ setup.provider[op] = "unavailable"
  /\ rows' = Append(rows, [provider |-> op, success |-> FALSE])
  /\ at' = NextProvider(op)
  /\ UNCHANGED <<setup, asked, answer, summary, warnings, applied>>

\* create_fallback_summary is outside the try: its ValidationError ends the pass.
Fallback ==
  /\ at = "fallback"
  /\ \/ /\ "fallback" \notin setup.overflows
        /\ rows' = Append(rows, [provider |-> "fallback", success |-> TRUE])
        /\ summary' = [source |-> "fallback", high_intent |-> FALSE]
        /\ at' = "notification"
     \/ /\ "fallback" \in setup.overflows
        /\ at' = "raised"
        /\ UNCHANGED <<rows, summary>>
  /\ UNCHANGED <<setup, asked, answer, warnings, applied>>

(***************************************************************************)
(* Notifier.send and HighLevelSync.sync.                                   *)
(***************************************************************************)

Goes(where, failed) ==
  /\ at' = where
  /\ warnings' = warnings \cup failed
  /\ UNCHANGED <<setup, asked, answer, rows, summary, applied>>

\* PreviewNotifier and NullNotifier count as delivered, FailingNotifier does not.
Notified ==
  /\ at = "notification"
  /\ \/ Succeeded("notification") \/ setup.notifier = "none"
     \/ GaveUp("notification") \/ setup.notifier = "misconfigured"
  /\ Goes("sync", IF Succeeded("notification") \/ setup.notifier = "none"
                    THEN {} ELSE {"notification"})

Tagged == setup.summary_tag \/ (setup.high_intent_tag /\ summary.high_intent)

\* Mutant: the operations after a failed one are not attempted.
StopAtFailure(op) ==
  IF ~GaveUp(op) /\ op = "note" /\ Tagged THEN "tags"
  ELSE IF ~GaveUp(op) /\ op # "field" /\ setup.action_field THEN "field"
  ELSE "finished"

\* The next configured operation, whether or not op succeeded.
Following(op) ==
  IF op = "note" /\ Tagged THEN "tags"
  ELSE IF op # "field" /\ setup.action_field THEN "field"
  ELSE "finished"

Sync ==
  /\ at = "sync"
  /\ \/ setup.crm = "disabled" /\ Goes("finished", {})
     \/ setup.crm = "misconfigured" /\ Goes("finished", {"sync"})
     \/ /\ setup.crm = "client"
        /\ IF setup.contact = "missing" THEN Goes("finished", {"sync"})
                                        ELSE Goes("note", {})

\* Mutant: the outcome of the last attempt is not looked at.
NoWarning(op) == op \in CrmOps /\ (Succeeded(op) \/ GaveUp(op)) /\ Goes(Following(op), {})

\* Only a HighLevelError becomes a warning.
Synced(op) ==
  /\ op \in CrmOps
  /\ \/ Succeeded(op) /\ Goes(Following(op), {})
     \/ GaveUp(op) /\ Goes(Following(op), {op})
     \/ at = op /\ setup.contact = "unsendable" /\ Goes("raised", {})

(***************************************************************************)
(* Specification.                                                          *)
(***************************************************************************)

Init ==
  /\ setup \in Setups
  /\ at = "primary"
  /\ asked = [op \in Ops |-> 0]
  /\ answer = [op \in Ops |-> "none"]
  /\ rows = <<>>
  /\ summary = [source |-> "none", high_intent |-> FALSE]
  /\ warnings = {}
  /\ applied = [op \in Ops |-> 0]

Next ==
  \/ \E op \in Ops :
       Request(op) \/ Reply(op) \/ Summarized(op) \/ ProviderFailed(op) \/ Synced(op)
  \/ Fallback \/ Notified \/ Sync

\* The event loop runs what is ready, and the client's timeout answers what the
\* service does not.
Fairness == WF_vars(Next)

Spec == Init /\ [][Next]_vars /\ Fairness

(***************************************************************************)
(* Properties.                                                             *)
(***************************************************************************)

\* The requests a finished pass must have made for its hand-off.
Due ==
  (IF setup.notifier = "webhook" THEN {"notification"} ELSE {})
  \cup
  (IF setup.crm = "client" /\ setup.contact = "valid"
     THEN {"note"} \cup (IF Tagged THEN {"tags"} ELSE {})
                   \cup (IF setup.action_field THEN {"field"} ELSE {})
     ELSE {})

\* Each operation is isolated: whichever of them failed, a finished pass attempted
\* every one that is configured, and nothing else (HighLevelContactSync.sync).
EveryOperationAttempted ==
  at = "finished" =>
    {op \in Ops \ ProviderOps : asked[op] > 0} = Due

\* An operation a finished pass does not warn about was done by its service, or
\* redirected by it.
SuccessIsTrue ==
  at = "finished" =>
    \A op \in Due \ warnings : applied[op] > 0 \/ answer[op] = "redirect"

\* However often the answers are lost, no operation is requested more often than
\* the setting allows; and none that fails temporarily is left with fewer requests.
RequestsBounded ==
  \A op \in Ops :
    /\ asked[op] <= MaxRetries
    /\ answer[op] = "temporary" /\ at # op => asked[op] = MaxRetries

\* A request is refused for good by an answer that is not temporary: the service
\* that gave it is not asked again for this operation (bounded retries are for
\* temporary failures only).
FinalAnswersStand ==
  [][\A op \in Ops :
       answer[op] \in {"ok", "redirect", "error"} => answer'[op] = answer[op]]_vars

\* The most steps that a pass can still take: no sequence of answers leads from a
\* place back to itself or to an earlier one (LeadSummarizer.summarize,
\* HighLevelContactSync.sync), and at a place each request of the retry loop is
\* one step and its answer another.
Place == [primary |-> 8, secondary |-> 7, fallback |-> 6, notification |-> 5,
          sync |-> 4, note |-> 3, tags |-> 2, field |-> 1, finished |-> 0, raised |-> 0]

WorkAt(op) ==
  2 * (MaxRetries - asked[op]) + (IF answer[op] = "awaited" THEN 1 ELSE 0)

Remaining ==
  Place[at] * (2 * MaxRetries + 1) + (IF at \in Ops THEN WorkAt(at) ELSE 0)

\* Every step of a pass brings it nearer to its end, whatever its services answer:
\* a request waits for boundedly many requests, not only for finitely many.
PassShrinks == [][Remaining' \in 0 .. Remaining - 1]_vars

\* The rows tell what happened: one per provider tried, in order, failures first,
\* and the summary handed off is that of the last one.
RowsTellTheChain ==
  at \notin {"primary", "secondary", "fallback", "raised"} =>
    LET n == Len(rows)
    IN  /\ n > 0
        /\ \A i \in 1 .. n : rows[i].success <=> i = n
        /\ summary.source = rows[n].provider
        /\ rows[n].provider = "fallback" =>
             {rows[i].provider : i \in 1 .. n - 1}
               = {"primary"} \cup (IF setup.secondary THEN {"secondary"} ELSE {})

\* "Delivery failures leave the event summary intact and return
\* partially_completed with a warning" (README.md:175): a notification that is due
\* and was not delivered is warned about.
DeliveryFailureWarned ==
  at = "finished" /\ "notification" \in Due /\ applied["notification"] = 0
    => "notification" \in warnings

\* Every pass ends, with an outcome or an exception, however its services behave.
PassEnds == <>(at \in {"finished", "raised"})

\* A pass is a hand-off as EventLifecycle takes it.
Steps == INSTANCE HandOff WITH
  lead       <- (IF "fallback" \in setup.overflows THEN {"overlong"} ELSE {})
                \cup (IF setup.contact = "unsendable" THEN {"contact"} ELSE {}),
  stage      <- CASE at \in {"primary", "secondary", "fallback"} -> "summarize"
                  [] at = "notification"                        -> "notify"
                  [] at \in {"sync", "note", "tags", "field"}   -> "sync"
                  [] at = "finished"                            -> "finish"
                  [] at = "raised"                              -> "raised",
  problems   <- (warnings \cap {"notification"})
                \cup (IF at = "finished" /\ warnings \cap (CrmOps \cup {"sync"}) # {}
                        THEN {"sync"} ELSE {})

ImplementsHandOff == Steps!Spec
=============================================================================
