------------------------ MODULE ProcessingPass_proofs ------------------------
(***************************************************************************)
(* Proofs about ProcessingPass, for every set of setups and every number   *)
(* of requests per operation: what a pass asked, what it reports, and that *)
(* it is a hand-off.  The inductive invariant follows the pass along its   *)
(* stages.                                                                 *)
(***************************************************************************)
EXTENDS ProcessingPass, SequenceTheorems, TLAPS

HandoffOps == {"notification"} \cup CrmOps

\* Per operation: what its answer says of the requests made and of their effect.
Answered(op) ==
  /\ answer[op] = "none" <=> asked[op] = 0
  /\ answer[op] = "awaited" => at = op /\ applied[op] < asked[op]
  /\ answer[op] = "ok" => applied[op] > 0
  /\ answer[op] = "temporary" /\ at # op => asked[op] = MaxRetries
  /\ applied[op] <= asked[op]
  /\ Offline(op) => asked[op] = 0

\* A hand-off that was asked for and left behind is warned about or succeeded.
Reported(op) ==
  asked[op] > 0 /\ at # op => op \in warnings \/ answer[op] \in {"ok", "redirect"}

Asked(op) == asked[op] > 0

\* Where the pass stands tells which hand-offs it asked for.
Progress ==
  /\ at \in ProviderOps \cup {"fallback"} => \A op \in HandoffOps : ~Asked(op)
  /\ at \in {"notification", "sync"} => \A op \in CrmOps : ~Asked(op)
  /\ at \in {"sync", "finished"} \cup CrmOps =>
       (Asked("notification") <=> setup.notifier = "webhook")
  /\ at \in CrmOps => setup.crm = "client" /\ setup.contact # "missing"
  /\ at = "note" => ~Asked("tags") /\ ~Asked("field")
  /\ at = "tags" => Asked("note") /\ Tagged /\ ~Asked("field")
  /\ at = "field" => Asked("note") /\ (Asked("tags") <=> Tagged) /\ setup.action_field
  /\ at = "finished" => \A op \in CrmOps : Asked(op) <=> op \in Due

Failed(op) == [provider |-> op, success |-> FALSE]
Ended(op)  == [provider |-> op, success |-> TRUE]

\* The rows of the chain, by the one that gave the summary.
Chain ==
  /\ at = "primary" => rows = <<>>
  /\ at = "secondary" => setup.secondary /\ rows = <<Failed("primary")>>
  /\ at = "fallback" =>
       rows = IF setup.secondary THEN <<Failed("primary"), Failed("secondary")>>
                                 ELSE <<Failed("primary")>>
  /\ at \in HandoffOps \cup {"sync", "finished"} =>
       \/ summary.source = "primary" /\ rows = <<Ended("primary")>>
       \/ /\ summary.source = "secondary"
          /\ rows = <<Failed("primary"), Ended("secondary")>>
       \/ /\ summary.source = "fallback" /\ ~setup.secondary
          /\ rows = <<Failed("primary"), Ended("fallback")>>
       \/ /\ summary.source = "fallback" /\ setup.secondary
          /\ rows = <<Failed("primary"), Failed("secondary"), Ended("fallback")>>

\* Nothing is reported before the notification is tried.
Unreported ==
  at \in ProviderOps \cup {"fallback", "notification"} => warnings = {}

PassInv ==
  /\ TypeOK
  /\ \A op \in Ops : Answered(op)
  /\ \A op \in HandoffOps : Reported(op)
  /\ Progress
  /\ Chain
  /\ Unreported

(***************************************************************************)
(* Types.                                                                  *)
(***************************************************************************)

\* A setup is one of Setup.
LEMMA SetupType ==
  ASSUME setup \in Setups
  PROVE  setup \in Setup
BY SetupsAssumption

\* A request adds one to what was asked, within the limit.
LEMMA RequestType ==
  ASSUME TypeOK, NEW op \in Ops, Answered(op), Request(op)
  PROVE  TypeOK'
<1>1. MaxRetries \in Nat /\ MaxRetries >= 1 /\ asked[op] \in 0 .. MaxRetries
  BY SetupsAssumption DEF TypeOK
<1>2. asked[op] + 1 \in 0 .. MaxRetries
  <2>1. CASE answer[op] = "none"
    BY <1>1, <2>1 DEF Answered
  <2>2. CASE Retries(op)
    BY <1>1, <2>2 DEF Retries
  <2> QED
    BY <2>1, <2>2 DEF Request
<1>3. asked' \in [Ops -> 0 .. MaxRetries] /\ answer' \in [Ops -> Answer]
  BY <1>2 DEF Request, TypeOK, Answer
<1> QED
  BY <1>3 DEF Request, TypeOK

\* A reply is an answer, and its effect, if any, is one of a request.
LEMMA ReplyType ==
  ASSUME TypeOK, NEW op \in Ops, Answered(op), Reply(op)
  PROVE  TypeOK'
<1>1. /\ MaxRetries \in Nat
      /\ asked[op] \in 0 .. MaxRetries /\ applied[op] \in 0 .. MaxRetries
  BY SetupsAssumption DEF TypeOK
<1>2. applied[op] + 1 \in 0 .. MaxRetries
  BY <1>1 DEF Reply, Answered
<1>3. applied' \in [Ops -> 0 .. MaxRetries]
  BY <1>2 DEF Reply, TypeOK
<1>4. answer' \in [Ops -> Answer]
  BY DEF Reply, TypeOK, Answer
<1> QED
  BY <1>3, <1>4 DEF Reply, TypeOK

\* A step that leaves the requests alone, to a known place.
Walks ==
  /\ UNCHANGED <<setup, asked, answer, applied>>
  /\ at' \in Ops \cup {"fallback", "sync", "finished", "raised"}
  /\ rows' \in Seq(Attempt)
  /\ summary' \in Summary
  /\ warnings' \subseteq Ops \cup {"sync"}

\* What leaves an operation behind has given it up or has its last answer.
Leaves ==
  \A op \in Ops :
    at = op => \/ Offline(op)
               \/ answer[op] \in {"ok", "redirect"}
               \/ answer[op] \in {"temporary", "error"} /\ ~Retries(op)

\* Every step requests, replies or walks on from an operation that is done.
LEMMA Kinds ==
  ASSUME TypeOK, [Next]_vars
  PROVE  \/ \E op \in Ops : Request(op) \/ Reply(op)
         \/ Walks /\ Leaves
         \/ UNCHANGED vars
<1>1. ASSUME NEW op \in Ops, Summarized(op)
      PROVE  Walks /\ Leaves
  <2>1. [provider |-> op, success |-> TRUE] \in Attempt
    BY <1>1 DEF Summarized, Attempt
  <2>2. summary' \in Summary
    BY <1>1 DEF Summarized, Summary, ProviderOps
  <2>3. Leaves
    BY <1>1 DEF Summarized, Leaves, Succeeded, Mocked, Offline
  <2> QED
    BY <1>1, <2>1, <2>2, <2>3 DEF Summarized, Walks, TypeOK, Ops
<1>2. ASSUME NEW op \in Ops, ProviderFailed(op)
      PROVE  Walks /\ Leaves
  <2>1. [provider |-> op, success |-> FALSE] \in Attempt
    BY <1>2 DEF ProviderFailed, Attempt
  <2>2. NextProvider(op) \in Ops \cup {"fallback"}
    BY DEF NextProvider, Ops, ProviderOps
  <2>3. Leaves
    BY <1>2 DEF ProviderFailed, Leaves, GaveUp, Mocked, Offline
  <2> QED
    BY <1>2, <2>1, <2>2, <2>3 DEF ProviderFailed, Walks, TypeOK
<1>3. ASSUME NEW op \in Ops, Synced(op)
      PROVE  Walks /\ Leaves
  <2>1. Following(op) \in Ops \cup {"finished"}
    BY DEF Following, Ops, CrmOps
  <2>2. Leaves
    BY <1>3 DEF Synced, Leaves, GaveUp, Succeeded, Offline
  <2> QED
    BY <1>3, <2>1, <2>2 DEF Synced, Goes, Walks, TypeOK
<1>4. CASE Fallback
  <2>1. [provider |-> "fallback", success |-> TRUE] \in Attempt
    BY DEF Attempt
  <2>2. [source |-> "fallback", high_intent |-> FALSE] \in Summary
    BY DEF Summary
  <2>3. Leaves
    BY <1>4 DEF Fallback, Leaves, Ops, ProviderOps, CrmOps
  <2>4. rows' \in Seq(Attempt) /\ summary' \in Summary
    <3>1. rows \in Seq(Attempt) /\ summary \in Summary
      BY DEF TypeOK
    <3>2. CASE UNCHANGED <<rows, summary>>
      BY <3>1, <3>2
    <3>3. CASE /\ rows' = Append(rows, [provider |-> "fallback", success |-> TRUE])
               /\ summary' = [source |-> "fallback", high_intent |-> FALSE]
      BY <2>1, <2>2, <3>1, <3>3
    <3> QED
      BY <1>4, <3>2, <3>3 DEF Fallback
  <2>5. at' \in {"notification", "raised"}
    BY <1>4 DEF Fallback
  <2> QED
    BY <1>4, <2>3, <2>4, <2>5 DEF Fallback, Walks, TypeOK, Ops
<1>5. CASE Notified
  <2>1. Leaves
    BY <1>5 DEF Notified, Leaves, GaveUp, Succeeded, Offline
  <2> QED
    BY <1>5, <2>1 DEF Notified, Goes, Walks, TypeOK, Ops
<1>6. CASE Sync
  <2>1. Leaves
    BY <1>6 DEF Sync, Leaves, Ops, ProviderOps, CrmOps
  <2> QED
    BY <1>6, <2>1 DEF Sync, Goes, Walks, TypeOK, Ops, CrmOps
<1> QED
  BY <1>1, <1>2, <1>3, <1>4, <1>5, <1>6 DEF Next

\* Every step keeps the types.
LEMMA TypeStep ==
  ASSUME TypeOK, \A op \in Ops : Answered(op), [Next]_vars
  PROVE  TypeOK'
<1>1. CASE \E op \in Ops : Request(op) \/ Reply(op)
  BY <1>1, RequestType, ReplyType
<1>2. CASE Walks
  BY <1>2 DEF Walks, TypeOK
<1>3. CASE UNCHANGED vars
  BY <1>3 DEF vars, TypeOK
<1> QED
  BY <1>1, <1>2, <1>3, Kinds

(***************************************************************************)
(* Requests and answers.                                                   *)
(***************************************************************************)

\* Every step leaves every operation's answer true of its requests.
LEMMA AnsweredStep ==
  ASSUME TypeOK, \A op \in Ops : Answered(op), [Next]_vars
  PROVE  \A op \in Ops : Answered(op)'
<1>0. /\ MaxRetries \in Nat
      /\ \A op \in Ops : asked[op] \in Nat /\ applied[op] \in Nat /\ asked[op] <= MaxRetries
  BY SetupsAssumption DEF TypeOK
<1>1. ASSUME NEW op \in Ops, Request(op), NEW o \in Ops
      PROVE  Answered(o)'
  <2>1. CASE o = op
    <3>1. asked'[o] = asked[o] + 1 /\ answer'[o] = "awaited" /\ applied'[o] = applied[o]
      BY <1>1, <2>1 DEF Request, TypeOK
    <3>2. at' = o /\ ~Offline(o)'
      BY <1>1, <2>1 DEF Request, Offline
    <3> QED
      BY <1>0, <3>1, <3>2 DEF Answered
  <2>2. CASE o # op
    <3>1. asked'[o] = asked[o] /\ answer'[o] = answer[o] /\ applied'[o] = applied[o]
      BY <1>1, <2>2 DEF Request, TypeOK
    <3>2. at' = at /\ (Offline(o)' <=> Offline(o))
      BY <1>1 DEF Request, Offline
    <3> QED
      BY <3>1, <3>2 DEF Answered
  <2> QED
    BY <2>1, <2>2
<1>2. ASSUME NEW op \in Ops, Reply(op), NEW o \in Ops
      PROVE  Answered(o)'
  <2>0. at' = at /\ asked' = asked /\ (Offline(o)' <=> Offline(o))
    BY <1>2 DEF Reply, Offline
  <2>1. CASE o = op
    <3>1. answer[o] = "awaited" /\ at = o /\ applied[o] < asked[o]
      BY <1>2, <2>1 DEF Reply, Answered
    <3>2. /\ answer'[o] \in {"ok", "redirect", "temporary", "error"}
          /\ applied'[o] \in {applied[o], applied[o] + 1}
          /\ answer'[o] = "ok" => applied'[o] = applied[o] + 1
      BY <1>2, <2>1 DEF Reply, TypeOK
    <3> QED
      BY <1>0, <2>0, <3>1, <3>2 DEF Answered
  <2>2. CASE o # op
    <3>1. answer'[o] = answer[o] /\ applied'[o] = applied[o]
      BY <1>2, <2>2 DEF Reply, TypeOK
    <3> QED
      BY <2>0, <3>1 DEF Answered
  <2> QED
    BY <2>1, <2>2
<1>3. ASSUME Walks, Leaves, NEW o \in Ops
      PROVE  Answered(o)'
  <2>1. at = o => answer[o] # "awaited" /\ (answer[o] = "temporary" => asked[o] = MaxRetries)
    BY <1>0, <1>3 DEF Leaves, Retries, Answered
  <2>2. Offline(o)' <=> Offline(o)
    BY <1>3 DEF Walks, Offline
  <2> QED
    BY <1>3, <2>1, <2>2 DEF Walks, Answered
<1>4. ASSUME UNCHANGED vars, NEW o \in Ops
      PROVE  Answered(o)'
  BY <1>4 DEF vars, Answered, Offline
<1> QED
  BY <1>1, <1>2, <1>3, <1>4, Kinds

\* Every step leaves every hand-off that was left behind reported.
LEMMA ReportedStep ==
  ASSUME TypeOK, \A op \in Ops : Answered(op), \A op \in HandoffOps : Reported(op),
         [Next]_vars
  PROVE  \A op \in HandoffOps : Reported(op)'
<1>0. \A o \in HandoffOps : o \in Ops \ ProviderOps /\ o \notin {"fallback", "sync"}
  BY DEF HandoffOps, Ops, CrmOps, ProviderOps
<1>1. ASSUME NEW op \in Ops, Request(op), NEW o \in HandoffOps
      PROVE  Reported(o)'
  <2>1. o # op => asked'[o] = asked[o] /\ answer'[o] = answer[o]
    BY <1>0, <1>1 DEF Request, TypeOK
  <2> QED
    BY <1>1, <2>1 DEF Request, Reported
<1>2. ASSUME NEW op \in Ops, Reply(op), NEW o \in HandoffOps
      PROVE  Reported(o)'
  <2>1. at = op
    BY <1>2 DEF Reply, Answered
  <2>2. o # op => answer'[o] = answer[o]
    BY <1>0, <1>2 DEF Reply, TypeOK
  <2> QED
    BY <1>2, <2>1, <2>2 DEF Reply, Reported
<1>3. ASSUME UNCHANGED <<asked, answer>>, warnings \subseteq warnings',
             NEW o \in HandoffOps, at # o
      PROVE  Reported(o)'
  BY <1>3 DEF Reported
<1>4. ASSUME NEW op \in Ops, Summarized(op) \/ ProviderFailed(op), NEW o \in HandoffOps
      PROVE  Reported(o)'
  <2>1. at \in ProviderOps /\ UNCHANGED <<asked, answer, warnings>>
    BY <1>4 DEF Summarized, ProviderFailed, Succeeded, GaveUp, Mocked
  <2> QED
    BY <1>0, <1>3, <2>1
<1>5. ASSUME Fallback \/ Sync, NEW o \in HandoffOps
      PROVE  Reported(o)'
  <2>1. /\ at \in {"fallback", "sync"} /\ UNCHANGED <<asked, answer>>
        /\ warnings \subseteq warnings'
    BY <1>5 DEF Fallback, Sync, Goes
  <2> QED
    BY <1>0, <1>3, <2>1
<1>6. ASSUME Notified, NEW o \in HandoffOps
      PROVE  Reported(o)'
  <2>0. at = "notification" /\ UNCHANGED <<asked, answer>> /\ warnings \subseteq warnings'
    BY <1>6 DEF Notified, Goes
  <2>1. CASE o = "notification"
    <3>1. CASE Succeeded(o)
      BY <2>0, <3>1 DEF Succeeded, Reported
    <3>2. CASE setup.notifier = "none"
      <4>1. Offline(o) /\ asked[o] = 0
        BY <1>0, <1>6, <2>1, <3>2 DEF Offline, Answered
      <4> QED
        BY <2>0, <4>1 DEF Reported
    <3>3. CASE ~Succeeded(o) /\ setup.notifier # "none"
      <4>1. o \in warnings'
        BY <1>6, <2>1, <3>3 DEF Notified, Goes
      <4> QED
        BY <4>1 DEF Reported
    <3> QED
      BY <3>1, <3>2, <3>3
  <2>2. CASE o # "notification"
    BY <1>3, <2>0, <2>2
  <2> QED
    BY <2>1, <2>2
<1>7. ASSUME NEW op \in Ops, Synced(op), NEW o \in HandoffOps
      PROVE  Reported(o)'
  <2>0. at = op /\ UNCHANGED <<asked, answer>> /\ warnings \subseteq warnings'
    BY <1>7 DEF Synced, Goes, Succeeded, GaveUp
  <2>1. CASE o = op
    <3>1. CASE Succeeded(op)
      BY <2>0, <2>1, <3>1 DEF Succeeded, Reported
    <3>2. CASE setup.contact = "unsendable"
      <4>1. Offline(op) /\ asked[op] = 0
        BY <1>7, <3>2 DEF Synced, Offline, Answered
      <4> QED
        BY <2>0, <2>1, <4>1 DEF Reported
    <3>3. CASE GaveUp(op) /\ Goes(Following(op), {op})
      BY <2>1, <3>3 DEF Goes, Reported
    <3> QED
      BY <1>7, <3>1, <3>2, <3>3 DEF Synced
  <2>2. CASE o # op
    BY <1>3, <2>0, <2>2
  <2> QED
    BY <2>1, <2>2
<1>8. ASSUME UNCHANGED vars, NEW o \in HandoffOps
      PROVE  Reported(o)'
  BY <1>8 DEF vars, Reported
<1> QED
  BY <1>1, <1>2, <1>4, <1>5, <1>6, <1>7, <1>8 DEF Next

(***************************************************************************)
(* The order of the pass.                                                  *)
(***************************************************************************)

\* An operation that is over at the network was asked for.
LEMMA OverMeansAsked ==
  ASSUME TypeOK, NEW op \in Ops, Answered(op), Succeeded(op) \/ GaveUp(op)
  PROVE  Asked(op) /\ ~Offline(op) /\ at = op
<1>1. asked[op] \in Nat
  BY SetupsAssumption DEF TypeOK
<1>2. answer[op] # "none" /\ ~Offline(op) /\ at = op
  BY DEF Succeeded, GaveUp
<1> QED
  BY <1>1, <1>2 DEF Answered, Asked

\* Every step asks for the hand-offs in their order, and for those only.
LEMMA ProgressStep ==
  ASSUME TypeOK, \A op \in Ops : Answered(op), Progress, [Next]_vars
  PROVE  Progress'
<1> USE DEF Ops, ProviderOps, CrmOps, HandoffOps
<1>0. \A op \in Ops : asked[op] \in Nat
  BY SetupsAssumption DEF TypeOK
<1>1. ASSUME NEW op \in Ops, Request(op)
      PROVE  Progress'
  <2>1. at = op /\ UNCHANGED <<setup, at, summary>>
    BY <1>1 DEF Request
  <2>2. \A o \in Ops : Asked(o)' <=> Asked(o) \/ o = op
    BY <1>0, <1>1 DEF Request, Asked, TypeOK
  <2>3. (Tagged' <=> Tagged) /\ at # "finished"
    BY <2>1 DEF Tagged
  <2> QED
    BY <2>1, <2>2, <2>3 DEF Progress
<1>2. ASSUME UNCHANGED <<setup, at, summary, asked>>
      PROVE  Progress'
  BY <1>2 DEF Progress, Asked, Tagged, Due
<1>3. ASSUME NEW op \in Ops, Summarized(op) \/ ProviderFailed(op)
      PROVE  Progress'
  <2>1. at \in ProviderOps /\ UNCHANGED <<setup, asked>>
    BY <1>3 DEF Summarized, ProviderFailed, Succeeded, GaveUp, Mocked
  <2>2. at' \in {"secondary", "fallback", "notification"}
    BY <1>3 DEF Summarized, ProviderFailed, NextProvider
  <2> QED
    BY <2>1, <2>2 DEF Progress, Asked
<1>4. CASE Fallback
  BY <1>4 DEF Fallback, Progress, Asked
<1>5. CASE Notified
  <2>1. at = "notification" /\ at' = "sync" /\ UNCHANGED <<setup, asked, summary>>
    BY <1>5 DEF Notified, Goes
  <2>2. Asked("notification") <=> setup.notifier = "webhook"
    <3>1. CASE setup.notifier = "webhook"
      BY <1>5, <3>1, OverMeansAsked DEF Notified
    <3>2. CASE setup.notifier # "webhook"
      BY <3>2 DEF Offline, Answered, Asked
    <3> QED
      BY <3>1, <3>2
  <2> QED
    BY <2>1, <2>2 DEF Progress, Asked
<1>6. CASE Sync
  <2>1. at = "sync" /\ UNCHANGED <<setup, asked, summary>>
    BY <1>6 DEF Sync, Goes
  <2>2. CASE at' = "note" /\ setup.crm = "client" /\ setup.contact # "missing"
    BY <2>1, <2>2 DEF Progress, Asked
  <2>3. CASE at' = "finished" /\ (setup.crm # "client" \/ setup.contact = "missing")
    <3>1. \A op \in CrmOps : op \notin Due /\ ~Asked(op)
      BY <2>1, <2>3 DEF Due, Progress
    <3>2. Due' = Due
      BY <2>1 DEF Due, Tagged
    <3> QED
      BY <2>1, <2>3, <3>1, <3>2 DEF Progress, Asked
  <2> QED
    BY <1>6, <2>2, <2>3 DEF Sync, Goes
<1>7. ASSUME NEW op \in Ops, Synced(op)
      PROVE  Progress'
  <2>1. op \in CrmOps /\ at = op /\ UNCHANGED <<setup, asked, summary>>
    BY <1>7 DEF Synced, Goes, Succeeded, GaveUp
  <2>2. CASE at' = "raised"
    BY <2>2 DEF Progress
  <2>3. CASE at' = Following(op) /\ Asked(op) /\ ~Offline(op)
    <3>1. (Tagged' <=> Tagged) /\ Due' = Due
      BY <2>1 DEF Tagged, Due
    <3>2. setup.crm = "client" /\ setup.contact \notin {"missing", "unsendable"}
      BY <2>1, <2>3 DEF Progress, Offline
    <3>3. setup.contact = "valid"
      BY <3>2, SetupType DEF TypeOK, Setup, Notifiers, Crms
    <3>4. CASE at' = "tags"
      BY <2>1, <2>3, <3>1, <3>2, <3>4 DEF Progress, Asked, Following
    <3>5. CASE at' = "field"
      BY <2>1, <2>3, <3>1, <3>2, <3>5 DEF Progress, Asked, Following
    <3>6. CASE at' = "finished"
      <4>1. /\ Asked("note")
            /\ Asked("tags") <=> Tagged
            /\ Asked("field") <=> setup.action_field
        BY <2>1, <2>3, <3>6 DEF Progress, Following
      <4>2. \A o \in CrmOps : Asked(o) <=> o \in Due
        BY <3>2, <3>3, <4>1 DEF Due
      <4> QED
        BY <2>1, <3>1, <3>6, <4>2 DEF Progress, Asked
    <3> QED
      BY <2>3, <3>4, <3>5, <3>6 DEF Following
  <2> QED
    BY <1>7, <2>2, <2>3, OverMeansAsked DEF Synced, Goes
<1>8. ASSUME NEW op \in Ops, Reply(op)
      PROVE  Progress'
  BY <1>2, <1>8 DEF Reply
<1>9. CASE UNCHANGED vars
  BY <1>2, <1>9 DEF vars
<1> QED
  BY <1>1, <1>3, <1>4, <1>5, <1>6, <1>7, <1>8, <1>9 DEF Next

\* A row is added after the first.
LEMMA SecondRow ==
  ASSUME NEW S, NEW a \in S, NEW x \in S
  PROVE  Append(<<a>>, x) = <<a, x>>
<1> DEFINE u == Append(<<a>>, x)
           v == <<a, x>>
<1>1. <<a>> \in Seq(S) /\ Len(<<a>>) = 1 /\ <<a>>[1] = a
  OBVIOUS
<1>2. u \in Seq(S) /\ Len(u) = 2 /\ u[1] = a /\ u[2] = x
  BY <1>1, AppendProperties
<1>3. v \in Seq(S) /\ Len(v) = 2 /\ v[1] = a /\ v[2] = x
  OBVIOUS
<1> HIDE DEF u, v
<1>4. Len(u) = Len(v) /\ \A i \in 1 .. Len(u) : u[i] = v[i]
  BY <1>2, <1>3
<1>5. u = v
  BY <1>2, <1>3, <1>4, SeqEqual
<1> QED
  BY <1>5 DEF u, v

\* A row is added after the second.
LEMMA ThirdRow ==
  ASSUME NEW S, NEW a \in S, NEW b \in S, NEW x \in S
  PROVE  Append(<<a, b>>, x) = <<a, b, x>>
<1> DEFINE u == Append(<<a, b>>, x)
           v == <<a, b, x>>
<1>1. <<a, b>> \in Seq(S) /\ Len(<<a, b>>) = 2 /\ <<a, b>>[1] = a /\ <<a, b>>[2] = b
  OBVIOUS
<1>2. u \in Seq(S) /\ Len(u) = 3 /\ u[1] = a /\ u[2] = b /\ u[3] = x
  BY <1>1, AppendProperties
<1>3. v \in Seq(S) /\ Len(v) = 3 /\ v[1] = a /\ v[2] = b /\ v[3] = x
  OBVIOUS
<1> HIDE DEF u, v
<1>4. Len(u) = Len(v) /\ \A i \in 1 .. Len(u) : u[i] = v[i]
  BY <1>2, <1>3
<1>5. u = v
  BY <1>2, <1>3, <1>4, SeqEqual
<1> QED
  BY <1>5 DEF u, v

\* The rows of a chain are attempts.
LEMMA RowsAreAttempts ==
  /\ \A op \in ProviderOps : Failed(op) \in Attempt /\ Ended(op) \in Attempt
  /\ Ended("fallback") \in Attempt
BY DEF Failed, Ended, Attempt

\* Every step keeps the rows true of the providers tried so far.
LEMMA ChainStep ==
  ASSUME TypeOK, Chain, [Next]_vars
  PROVE  Chain'
<1> USE DEF Ops, ProviderOps, CrmOps, HandoffOps
<1>0. /\ Failed("primary") \in Attempt /\ Failed("secondary") \in Attempt
      /\ Ended("secondary") \in Attempt /\ Ended("fallback") \in Attempt
  BY RowsAreAttempts
<1>1. ASSUME UNCHANGED <<setup, rows, summary, at>>
      PROVE  Chain'
  BY <1>1 DEF Chain
<1>2. ASSUME UNCHANGED <<setup, rows, summary>>,
             at \in HandoffOps \cup {"sync"},
             at' \in HandoffOps \cup {"sync", "finished", "raised"}
      PROVE  Chain'
  BY <1>2 DEF Chain
<1>3. ASSUME NEW op \in ProviderOps, Summarized(op)
      PROVE  Chain'
  <2>1. at = op /\ at' = "notification" /\ summary'.source = op /\ setup' = setup
    BY <1>3 DEF Summarized, Succeeded, Mocked
  <2>0. rows' = Append(rows, Ended(op))
    BY <1>3 DEF Summarized, Ended
  <2>2. CASE op = "primary"
    <3>1. rows' = <<Ended("primary")>>
      BY <2>0, <2>1, <2>2 DEF Chain
    <3> QED
      BY <2>1, <2>2, <3>1 DEF Chain
  <2>3. CASE op = "secondary"
    <3>1. rows' = <<Failed("primary"), Ended("secondary")>>
      BY <1>0, <2>0, <2>1, <2>3, SecondRow DEF Chain
    <3> QED
      BY <2>1, <2>3, <3>1 DEF Chain
  <2> QED
    BY <2>2, <2>3
<1>4. ASSUME NEW op \in ProviderOps, ProviderFailed(op)
      PROVE  Chain'
  <2>1. at = op /\ UNCHANGED <<setup, summary>>
    BY <1>4 DEF ProviderFailed, GaveUp, Mocked
  <2>0. rows' = Append(rows, Failed(op))
    BY <1>4 DEF ProviderFailed, Failed
  <2>2. CASE op = "primary"
    <3>1. rows' = <<Failed("primary")>>
      BY <2>0, <2>1, <2>2 DEF Chain
    <3>2. at' = IF setup.secondary THEN "secondary" ELSE "fallback"
      BY <1>4, <2>2 DEF ProviderFailed, NextProvider
    <3> QED
      BY <2>1, <3>1, <3>2 DEF Chain
  <2>3. CASE op = "secondary"
    <3>1. setup.secondary /\ rows' = <<Failed("primary"), Failed("secondary")>>
      BY <1>0, <2>0, <2>1, <2>3, SecondRow DEF Chain
    <3>2. at' = "fallback"
      BY <1>4, <2>3 DEF ProviderFailed, NextProvider
    <3> QED
      BY <2>1, <3>1, <3>2 DEF Chain
  <2> QED
    BY <2>2, <2>3
<1>5. CASE Fallback
  <2>1. CASE at' = "raised"
    BY <2>1 DEF Chain
  <2>2. CASE at' = "notification"
    <3>1. /\ at = "fallback" /\ setup' = setup /\ summary'.source = "fallback"
          /\ rows' = Append(rows, Ended("fallback"))
      BY <1>5, <2>2 DEF Fallback, Ended
    <3>2. CASE setup.secondary
      <4>1. rows' = <<Failed("primary"), Failed("secondary"), Ended("fallback")>>
        BY <1>0, <3>1, <3>2, ThirdRow DEF Chain
      <4> QED
        BY <2>2, <3>1, <3>2, <4>1 DEF Chain
    <3>3. CASE ~setup.secondary
      <4>1. rows' = <<Failed("primary"), Ended("fallback")>>
        BY <1>0, <3>1, <3>3, SecondRow DEF Chain
      <4> QED
        BY <2>2, <3>1, <3>3, <4>1 DEF Chain
    <3> QED
      BY <3>2, <3>3
  <2> QED
    BY <1>5, <2>1, <2>2 DEF Fallback
<1>6. CASE Notified
  BY <1>2, <1>6 DEF Notified, Goes
<1>7. CASE Sync
  BY <1>2, <1>7 DEF Sync, Goes
<1>8. ASSUME NEW op \in Ops, Synced(op)
      PROVE  Chain'
  <2>1. at \in CrmOps /\ at' \in {"tags", "field", "finished", "raised"}
    BY <1>8 DEF Synced, Goes, Following, Succeeded, GaveUp
  <2> QED
    BY <1>2, <1>8, <2>1 DEF Synced, Goes
<1>9. ASSUME NEW op \in Ops, Request(op) \/ Reply(op)
      PROVE  Chain'
  BY <1>1, <1>9 DEF Request, Reply
<1>10. CASE UNCHANGED vars
  BY <1>1, <1>10 DEF vars
<1> QED
  BY <1>3, <1>4, <1>5, <1>6, <1>7, <1>8, <1>9, <1>10 DEF Next, Summarized, ProviderFailed

\* Every step before the notification leaves the warnings empty.
LEMMA UnreportedStep ==
  ASSUME TypeOK, Unreported, [Next]_vars
  PROVE  Unreported'
<1> USE DEF Ops, ProviderOps, CrmOps
<1>1. ASSUME UNCHANGED <<at, warnings>>
      PROVE  Unreported'
  BY <1>1 DEF Unreported
<1>2. ASSUME NEW op \in Ops, Summarized(op) \/ ProviderFailed(op)
      PROVE  Unreported'
  BY <1>2 DEF Summarized, ProviderFailed, Succeeded, GaveUp, Mocked, Unreported
<1>3. ASSUME NEW op \in Ops, Synced(op)
      PROVE  Unreported'
  <2>1. at' \in {"tags", "field", "finished", "raised"}
    BY <1>3 DEF Synced, Goes, Following
  <2> QED
    BY <2>1 DEF Unreported
<1>4. CASE Fallback
  BY <1>4 DEF Fallback, Unreported
<1>5. CASE Notified \/ Sync
  BY <1>5 DEF Notified, Sync, Goes, Unreported
<1>6. ASSUME NEW op \in Ops, Request(op) \/ Reply(op)
      PROVE  Unreported'
  BY <1>1, <1>6 DEF Request, Reply
<1> QED
  BY <1>1, <1>2, <1>3, <1>4, <1>5, <1>6 DEF Next, vars

(***************************************************************************)
(* The invariant and what follows from it.                                 *)
(***************************************************************************)

\* A pass that has not begun satisfies the invariant.
LEMMA PassInit == Init => PassInv
<1> SUFFICES ASSUME Init PROVE PassInv
  OBVIOUS
<1> USE DEF Init, Ops, ProviderOps, CrmOps, HandoffOps
<1>0. MaxRetries \in Nat
  BY SetupsAssumption
<1>1. TypeOK
  BY <1>0 DEF TypeOK, Answer, Summary
<1>2. \A op \in Ops : Answered(op)
  BY DEF Answered
<1>3. \A op \in HandoffOps : Reported(op)
  BY DEF Reported
<1>4. Progress /\ Chain /\ Unreported
  BY DEF Progress, Asked, Chain, Unreported
<1> QED
  BY <1>1, <1>2, <1>3, <1>4 DEF PassInv

\* Every step keeps the invariant.
LEMMA PassStep == PassInv /\ [Next]_vars => PassInv'
<1> SUFFICES ASSUME PassInv, [Next]_vars PROVE PassInv'
  OBVIOUS
<1> QED
  BY TypeStep, AnsweredStep, ReportedStep, ProgressStep, ChainStep, UnreportedStep
     DEF PassInv

\* The invariant holds throughout every pass.
THEOREM PassInvariance == Spec => []PassInv
<1>1. Init => PassInv
  BY PassInit
<1>2. PassInv /\ [Next]_vars => PassInv'
  BY PassStep
<1> QED
  BY <1>1, <1>2, PTL DEF Spec

\* The variables of a pass have their types, whatever the setups and the limit.
THEOREM PassTypeCorrect == Spec => []TypeOK
<1>1. PassInv => TypeOK
  BY DEF PassInv
<1> QED
  BY <1>1, PassInvariance, PTL

\* No operation is requested more often than the setting allows, and one that
\* fails temporarily is given all its requests (tenacity's stop_after_attempt
\* around every post).
THEOREM RequestsBoundedHolds == Spec => []RequestsBounded
<1>1. PassInv => RequestsBounded
  BY SetupsAssumption DEF PassInv, TypeOK, Answered, RequestsBounded
<1> QED
  BY <1>1, PassInvariance, PTL

\* A finished pass attempted every configured hand-off, whichever of the others
\* failed, and nothing else (HighLevelContactSync.sync).
THEOREM EveryOperationAttemptedHolds == Spec => []EveryOperationAttempted
<1>1. ASSUME PassInv PROVE EveryOperationAttempted
  <2> USE DEF Ops, ProviderOps, CrmOps
  <2>1. ASSUME at = "finished", NEW op \in Ops \ ProviderOps
        PROVE  asked[op] > 0 <=> op \in Due
    <3>1. CASE op = "notification"
      BY <1>1, <2>1, <3>1 DEF PassInv, Progress, Asked, Due
    <3>2. CASE op \in CrmOps
      BY <1>1, <2>1, <3>2 DEF PassInv, Progress, Asked
    <3> QED
      BY <2>1, <3>1, <3>2
  <2>2. Due \subseteq Ops \ ProviderOps
    BY DEF Due
  <2> QED
    BY <2>1, <2>2 DEF EveryOperationAttempted
<1> QED
  BY <1>1, PassInvariance, PTL

\* What a finished pass does not warn about was done by its service or redirected.
THEOREM SuccessIsTrueHolds == Spec => []SuccessIsTrue
<1>1. ASSUME PassInv PROVE SuccessIsTrue
  <2>0. EveryOperationAttempted
    BY <1>1 DEF PassInv, Progress, Asked, Due, EveryOperationAttempted, Ops,
                ProviderOps, CrmOps
  <2>1. ASSUME at = "finished", NEW op \in Due \ warnings
        PROVE  applied[op] > 0 \/ answer[op] = "redirect"
    <3>1. op \in HandoffOps /\ op \in Ops /\ at # op
      BY <2>1 DEF Due, HandoffOps, Ops, CrmOps
    <3>2. asked[op] > 0
      BY <2>0, <2>1 DEF EveryOperationAttempted
    <3> QED
      BY <1>1, <2>1, <3>1, <3>2 DEF PassInv, Reported, Answered
  <2> QED
    BY <2>1 DEF SuccessIsTrue
<1> QED
  BY <1>1, PassInvariance, PTL

\* The inference rows name the providers in the order they were tried, failures
\* first, and the summary is that of the last one (LeadSummarizer.summarize).
THEOREM RowsTellTheChainHolds == Spec => []RowsTellTheChain
<1>1. ASSUME PassInv, at \notin {"primary", "secondary", "fallback", "raised"}
      PROVE  LET n == Len(rows)
             IN  /\ n > 0
                 /\ \A i \in 1 .. n : rows[i].success <=> i = n
                 /\ summary.source = rows[n].provider
                 /\ rows[n].provider = "fallback" =>
                      {rows[i].provider : i \in 1 .. n - 1}
                        = {"primary"} \cup (IF setup.secondary THEN {"secondary"} ELSE {})
  <2> USE DEF Failed, Ended
  <2>0. at \in HandoffOps \cup {"sync", "finished"}
    BY <1>1 DEF PassInv, TypeOK, Ops, ProviderOps, HandoffOps
  <2>1. CASE summary.source = "primary" /\ rows = <<Ended("primary")>>
    <3>1. Len(rows) = 1 /\ rows[1] = Ended("primary")
      BY <2>1
    <3> QED
      BY <2>1, <3>1
  <2>2. CASE summary.source = "secondary" /\ rows = <<Failed("primary"), Ended("secondary")>>
    <3>1. Len(rows) = 2 /\ rows[1] = Failed("primary") /\ rows[2] = Ended("secondary")
      BY <2>2
    <3> QED
      BY <2>2, <3>1
  <2>3. CASE /\ summary.source = "fallback" /\ ~setup.secondary
             /\ rows = <<Failed("primary"), Ended("fallback")>>
    <3>1. Len(rows) = 2 /\ rows[1] = Failed("primary") /\ rows[2] = Ended("fallback")
      BY <2>3
    <3>2. {rows[i].provider : i \in 1 .. 1} = {"primary"}
      BY <3>1
    <3> QED
      BY <2>3, <3>1, <3>2
  <2>4. CASE /\ summary.source = "fallback" /\ setup.secondary
             /\ rows = <<Failed("primary"), Failed("secondary"), Ended("fallback")>>
    <3>1. /\ Len(rows) = 3 /\ rows[1] = Failed("primary")
          /\ rows[2] = Failed("secondary") /\ rows[3] = Ended("fallback")
      BY <2>4
    <3>2. {rows[i].provider : i \in 1 .. 2} = {"primary", "secondary"}
      BY <3>1
    <3> QED
      BY <2>4, <3>1, <3>2
  <2> QED
    BY <1>1, <2>0, <2>1, <2>2, <2>3, <2>4 DEF PassInv, Chain
<1>2. PassInv => RowsTellTheChain
  BY <1>1 DEF RowsTellTheChain
<1> QED
  BY <1>2, PassInvariance, PTL

\* A service that refused for good, or did what was asked, is not asked again.
THEOREM FinalAnswersStandHolds == Spec => FinalAnswersStand
<1>1. ASSUME PassInv, [Next]_vars, NEW op \in Ops,
             answer[op] \in {"ok", "redirect", "error"}
      PROVE  answer'[op] = answer[op]
  <2>1. ASSUME NEW o \in Ops, Request(o) PROVE answer'[op] = answer[op]
    BY <1>1, <2>1 DEF Request, Retries, PassInv, TypeOK
  <2>2. ASSUME NEW o \in Ops, Reply(o) PROVE answer'[op] = answer[op]
    BY <1>1, <2>2 DEF Reply, PassInv, TypeOK
  <2> QED
    BY <1>1, <2>1, <2>2, Kinds DEF PassInv, Walks, vars
<1>2. PassInv /\ [Next]_vars =>
        [\A op \in Ops : answer[op] \in {"ok", "redirect", "error"}
                             => answer'[op] = answer[op]]_vars
  BY <1>1
<1> QED
  BY <1>2, PassInvariance, PTL DEF Spec, FinalAnswersStand

(***************************************************************************)
(* The bound on a pass.                                                    *)
(***************************************************************************)

Size == 2 * MaxRetries + 1

Work == IF at \in Ops THEN WorkAt(at) ELSE 0

\* What is left, in numbers: no place holds more work than it counts for.
Measured ==
  /\ Size \in Nat /\ Place[at] \in 0 .. 8 /\ Place[at] * Size \in Nat
  /\ Work \in 0 .. Size
  /\ Remaining = Place[at] * Size + Work

LEMMA PassMeasured == PassInv => Measured
<1> SUFFICES ASSUME PassInv PROVE Measured
  OBVIOUS
<1>1. MaxRetries \in Nat /\ \A op \in Ops : asked[op] \in 0 .. MaxRetries
  BY SetupsAssumption DEF PassInv, TypeOK
<1>2. at \in {"primary", "secondary", "fallback", "notification", "sync", "note", "tags",
              "field", "finished", "raised"}
  BY DEF PassInv, TypeOK, Ops, ProviderOps, CrmOps
<1>3. Place[at] \in 0 .. 8
  BY <1>2 DEF Place
<1>4. Size \in Nat
  BY <1>1 DEF Size
<1>5. \A n \in 0 .. 8 : n * Size \in Nat
  BY <1>4
<1>6. ASSUME at \in Ops
      PROVE  WorkAt(at) \in 0 .. Size
  BY <1>1, <1>6 DEF WorkAt, Size
<1> QED
  BY <1>3, <1>4, <1>5, <1>6 DEF Measured, Remaining, Work, Size

\* A step to a later place leaves less, however much is to be done there.
LEMMA LaterIsLess ==
  ASSUME NEW K \in Nat, NEW a \in 0 .. 8, NEW b \in 0 .. 8, b < a,
         NEW v \in Nat, NEW w \in Nat, w < K
  PROVE  b * K + w \in 0 .. (a * K + v) - 1
<1>1. PICK d \in Nat : a = b + 1 + d
  <2>1. a - (b + 1) \in Nat /\ a = b + 1 + (a - (b + 1))
    OBVIOUS
  <2> QED
    BY <2>1
<1>2. a * K = b * K + K + d * K
  BY <1>1
<1>3. d * K \in Nat /\ b * K \in Nat
  OBVIOUS
<1> QED
  BY <1>2, <1>3

\* A step that leaves the requests alone goes to a later place.
GoesOn == Place[at'] < Place[at] /\ at' # at /\ UNCHANGED <<asked, answer>>

LEMMA WalksGoOn ==
  ASSUME PassInv, Next, \A op \in Ops : ~Request(op) /\ ~Reply(op)
  PROVE  GoesOn
<1> USE DEF Place, Ops, ProviderOps, CrmOps
<1>1. ASSUME NEW op \in Ops, Summarized(op)
      PROVE  GoesOn
  <2>1. at \in ProviderOps /\ at' = "notification" /\ UNCHANGED <<asked, answer>>
    BY <1>1 DEF Summarized, Succeeded, Mocked
  <2> QED
    BY <2>1 DEF GoesOn
<1>2. ASSUME NEW op \in Ops, ProviderFailed(op)
      PROVE  GoesOn
  <2>1. /\ at = op /\ op \in ProviderOps /\ UNCHANGED <<asked, answer>>
        /\ at' = NextProvider(op)
    BY <1>2 DEF ProviderFailed, GaveUp, Mocked
  <2> QED
    BY <2>1 DEF NextProvider, GoesOn
<1>3. ASSUME NEW op \in Ops, Synced(op)
      PROVE  GoesOn
  <2>1. /\ at = op /\ op \in CrmOps /\ UNCHANGED <<asked, answer>>
        /\ at' \in {Following(op), "raised"}
    BY <1>3 DEF Synced, Goes, Succeeded, GaveUp
  <2> QED
    BY <2>1 DEF Following, GoesOn
<1>4. CASE Fallback
  BY <1>4 DEF Fallback, GoesOn
<1>5. CASE Notified
  BY <1>5 DEF Notified, Goes, GoesOn
<1>6. CASE Sync
  <2>1. at = "sync" /\ at' \in {"finished", "note"} /\ UNCHANGED <<asked, answer>>
    BY <1>6 DEF Sync, Goes
  <2> QED
    BY <2>1 DEF GoesOn
<1> QED
  BY <1>1, <1>2, <1>3, <1>4, <1>5, <1>6 DEF Next

\* A pass has boundedly many steps before it, and each of them is one less,
\* whatever the services answer (LeadSummarizer.summarize, WebhookNotifier.send,
\* HighLevelContactSync.sync).
THEOREM PassShrinksHolds == Spec => PassShrinks
<1>1. ASSUME Measured, Measured', NEW op \in Ops, at = op, at' = op,
             WorkAt(op)' = WorkAt(op) - 1
      PROVE  Remaining' \in 0 .. Remaining - 1
  <2>1. /\ Work' = Work - 1 /\ Place[at'] * Size' = Place[at] * Size
    BY <1>1 DEF Work, Size
  <2> QED
    BY <1>1, <2>1 DEF Measured
<1>2. ASSUME PassInv, Measured, Measured', NEW op \in Ops, Request(op) \/ Reply(op)
      PROVE  Remaining' \in 0 .. Remaining - 1
  <2>1. at = op /\ at' = op
    BY <1>2 DEF Request, Reply, PassInv, Answered
  <2>2. MaxRetries \in Nat /\ asked[op] \in Nat
    BY <1>2, SetupsAssumption DEF PassInv, TypeOK
  <2>3. CASE Request(op)
    <3>1. /\ asked'[op] = asked[op] + 1 /\ answer'[op] = "awaited"
          /\ answer[op] # "awaited"
      BY <1>2, <2>3 DEF Request, Retries, PassInv, TypeOK
    <3>2. WorkAt(op)' = WorkAt(op) - 1
      BY <2>2, <3>1 DEF WorkAt
    <3> QED
      BY <1>1, <1>2, <2>1, <3>2
  <2>4. CASE Reply(op)
    <3>1. /\ asked'[op] = asked[op] /\ answer[op] = "awaited"
          /\ answer'[op] # "awaited"
      BY <1>2, <2>4 DEF Reply, PassInv, TypeOK
    <3>2. WorkAt(op)' = WorkAt(op) - 1
      BY <2>2, <3>1 DEF WorkAt
    <3> QED
      BY <1>1, <1>2, <2>1, <3>2
  <2> QED
    BY <1>2, <2>3, <2>4
<1>3. ASSUME PassInv, PassInv', Measured, Measured', GoesOn
      PROVE  Remaining' \in 0 .. Remaining - 1
  <2>1. at' \in Ops => answer'[at'] # "awaited"
    BY <1>3 DEF GoesOn, PassInv, Answered
  <2>2. MaxRetries \in Nat /\ (at' \in Ops => asked'[at'] \in Nat)
    BY <1>3, SetupsAssumption DEF PassInv, TypeOK
  <2>3. Work' < Size
    BY <2>1, <2>2 DEF Work, WorkAt, Size
  <2>4. Place[at'] < Place[at]
    BY <1>3 DEF GoesOn
  <2>5. Place[at] \in 0 .. 8 /\ Place[at'] \in 0 .. 8 /\ Size \in Nat /\ Size' = Size
        /\ Work \in Nat /\ Work' \in Nat
        /\ Remaining = Place[at] * Size + Work /\ Remaining' = Place[at'] * Size + Work'
    BY <1>3 DEF Measured, Size
  <2> QED
    BY <2>3, <2>4, <2>5, LaterIsLess
<1>4. PassInv /\ PassInv' /\ Measured /\ Measured' /\ [Next]_vars
        => [Remaining' \in 0 .. Remaining - 1]_vars
  BY <1>2, <1>3, WalksGoOn
<1> QED
  BY <1>4, PassInvariance, PassMeasured, PTL DEF Spec, PassShrinks

(***************************************************************************)
(* The refinement of HandOff.                                              *)
(***************************************************************************)

\* A pass that has not begun is a hand-off that has not begun.
LEMMA HandOffInit == Init => Steps!Init
<1> SUFFICES ASSUME Init PROVE Steps!Init
  OBVIOUS
<1> QED
  BY DEF Init, Steps!Init, CrmOps

\* Requests, replies and the providers' failures are no step of the hand-off, the
\* rest of the pass is one.
LEMMA HandOffStep ==
  ASSUME PassInv, [Next]_vars
  PROVE  [Steps!Next]_(Steps!vars)
<1> USE DEF PassInv, Ops, ProviderOps, CrmOps
<1>1. ASSUME NEW op \in Ops, Request(op) \/ Reply(op)
      PROVE  UNCHANGED Steps!vars
  BY <1>1 DEF Request, Reply, Steps!vars
<1>2. ASSUME NEW op \in Ops, Summarized(op)
      PROVE  Steps!Summarize
  <2>1. /\ at \in ProviderOps /\ at' = "notification"
        /\ UNCHANGED <<setup, warnings>>
    BY <1>2 DEF Summarized, Succeeded, Mocked
  <2> QED
    BY <2>1 DEF Steps!Summarize
<1>3. ASSUME NEW op \in Ops, ProviderFailed(op)
      PROVE  UNCHANGED Steps!vars
  <2>1. /\ at \in ProviderOps /\ at' \in {"secondary", "fallback"}
        /\ UNCHANGED <<setup, warnings>>
    BY <1>3 DEF ProviderFailed, GaveUp, Mocked, NextProvider
  <2> QED
    BY <2>1 DEF Steps!vars
<1>4. CASE Fallback
  <2>1. /\ at = "fallback" /\ UNCHANGED <<setup, warnings>>
        /\ at' = "notification" \/ (at' = "raised" /\ "fallback" \in setup.overflows)
    BY <1>4 DEF Fallback
  <2>2. Steps!Summarize
    BY <2>1 DEF Steps!Summarize
  <2> QED
    BY <2>2 DEF Steps!Next
<1>5. CASE Notified
  <2>1. /\ at = "notification" /\ at' = "sync" /\ setup' = setup
        /\ warnings = {} /\ warnings' \in {{}, {"notification"}}
    BY <1>5 DEF Notified, Goes, Unreported
  <2>2. Steps!Notify
    BY <2>1 DEF Steps!Notify
  <2> QED
    BY <2>2 DEF Steps!Next
<1>6. CASE Sync
  <2>1. /\ at = "sync" /\ at' \in {"finished", "note"} /\ setup' = setup
        /\ warnings' \in {warnings, warnings \cup {"sync"}}
    BY <1>6 DEF Sync, Goes
  <2>2. Steps!Sync \/ UNCHANGED Steps!vars
    BY <2>1 DEF Steps!Sync, Steps!vars
  <2> QED
    BY <2>2 DEF Steps!Next
<1>7. ASSUME NEW op \in Ops, Synced(op)
      PROVE  Steps!Sync \/ UNCHANGED Steps!vars
  <2>1. /\ at \in CrmOps /\ setup' = setup
        /\ at' \in {"tags", "field", "finished"}
             \/ (at' = "raised" /\ setup.contact = "unsendable")
        /\ warnings' \in {warnings, warnings \cup {op}} /\ op \in CrmOps
    BY <1>7 DEF Synced, Goes, Following, Succeeded, GaveUp
  <2> QED
    BY <2>1 DEF Steps!Sync, Steps!vars
<1>8. CASE UNCHANGED vars
  BY <1>8 DEF vars, Steps!vars
<1> QED
  BY <1>1, <1>2, <1>3, <1>4, <1>5, <1>6, <1>7, <1>8 DEF Next, Steps!Next

\* A pass is what EventLifecycle takes for one between its two commits: a summary,
\* a notification and a synchronization, in this order, and an exception only for
\* an overlong lead or a contact that cannot be addressed.
THEOREM PassImplementsHandOff == Spec => ImplementsHandOff
<1>1. Init => Steps!Init
  BY HandOffInit
<1>2. PassInv /\ [Next]_vars => [Steps!Next]_(Steps!vars)
  BY HandOffStep
<1> QED
  BY <1>1, <1>2, PassInvariance, PTL DEF Spec, ImplementsHandOff, Steps!Spec
=============================================================================
