-------------------------- MODULE BoundedRunProofs --------------------------
(***************************************************************************)
(* Theorems about BoundedRun, for any scenarios and answers of any size:   *)
(* no oracle passes on a run that did not earn it.                         *)
(***************************************************************************)
EXTENDS BoundedRun, TLAPS

EventNames == {"spawn-error", "message", "error", "error-oom", "exit", "exit-oom"}

\* What a scenario comes to: a finished run that gave up says so in a finding.
Sound(c) ==
  /\ c.channel \in {"ok", "fail-safe", "error"}
  /\ c.channel = "fail-safe" => \E f \in c.findings : f.severity = "BLOCK"

\* The scenario comes to something once, before it is told.
CallInv ==
  /\ isolation \in {"worker", "process"} /\ scenario \in Scenarios
  /\ task \in {"unspawned", "starting", "running"} => call = None
  /\ call # None => Sound(call)
  /\ answer # None => call # None
  /\ events \in Seq(EventNames)
  /\ \A i \in 1..Len(events) : events[i] = "message" => call # None /\ call.channel # "error"

\* A verdict is what the scenario came to.
OutcomeInv ==
  \/ outcome = None
  \/ outcome = Outcome(outcome.kind, {}) /\ outcome.kind \in {"crash", "oom", "timeout"}
  \/ call # None /\ call.channel # "error" /\ outcome = Outcome(call.channel, call.findings)

BoundedInv == CallInv /\ OutcomeInv

LEMMA AdaptedBlocks ==
  ASSUME NEW class, NEW about
  PROVE  Adapted(class, "BLOCK", about).severity = "BLOCK"
BY DEF Adapted

LEMMA CallIsSound ==
  ASSUME NEW s \in Scenarios, NEW where \in {"worker", "process"}, s.kind \notin Endless
  PROVE  Sound(WhatItComesTo(s, where))
PROOF
<1>0. \A channel, findings : Call(channel, findings).channel = channel /\ Call(channel, findings).findings = findings
  BY DEF Call
<1>1. \A findings : Sound(Call("ok", findings)) /\ Sound(Call("error", findings))
  BY <1>0 DEF Sound
<1>2. ASSUME NEW findings, \E f \in findings : f.severity = "BLOCK"
      PROVE  Sound(Call("fail-safe", findings))
  BY <1>0, <1>2 DEF Sound
<1>3. Failed.severity = "BLOCK"
  BY AdaptedBlocks DEF Failed
<1>4. Sound(Call("fail-safe", {Failed}))
  BY <1>2, <1>3
<1>5. ASSUME NEW e PROVE Sound(Threw(e))
  BY <1>1 DEF Threw
<1>6. CASE s.kind \notin Engines
  BY <1>1, <1>4, <1>5, <1>6 DEF WhatItComesTo, Synthetic
<1>7. CASE s.kind = "engine:parseLockfileText"
  <2>1. WhatItComesTo(s, where) = ParseLockfileText(s.given)
    BY <1>7 DEF WhatItComesTo, RunEngine, Engines
  <2> QED BY <1>1, <1>4, <1>5, <2>1 DEF ParseLockfileText
<1>8. CASE s.kind = "engine:runDiff"
  <2>1. WhatItComesTo(s, where) = RunDiff(s.given)
    BY <1>8 DEF WhatItComesTo, RunEngine, Engines
  <2>2. ASSUME FindingsSignalFailSafe(s.given.findings)
        PROVE  \E f \in AdaptFindings(s.given.findings) : f.severity = "BLOCK"
    <3>1. PICK f \in ToSet(s.given.findings) : f.detector = "analysis.failed"
      BY <2>2 DEF FindingsSignalFailSafe
    <3>2. f.severity = "BLOCK"
      BY <1>8, <3>1, ScenariosAssumption DEF GivenScenarios
    <3>3. AdaptFinding(f).severity = "BLOCK"
      <4>1. SEVERITY_MAP[f.severity] = "BLOCK"
        BY <3>2 DEF SEVERITY_MAP
      <4> QED BY <4>1, AdaptedBlocks DEF AdaptFinding
    <3> QED BY <3>3 DEF AdaptFindings
  <2>3. FindingsSignalFailSafe(s.given.findings) => Sound(Call("fail-safe", AdaptFindings(s.given.findings)))
    BY <1>2, <2>2
  <2> QED BY <1>1, <1>5, <2>1, <2>3 DEF RunDiff
<1>9. CASE s.kind = "engine:analyzeTarball"
  <2>1. WhatItComesTo(s, where) = AnalyzeTarball(s.given)
    BY <1>9 DEF WhatItComesTo, RunEngine, Engines
  <2> QED BY <1>1, <1>5, <2>1 DEF AnalyzeTarball
<1>10. CASE s.kind = "engine:extractCapabilities"
  <2>1. WhatItComesTo(s, where) = IF where = "worker" THEN WorkerExtract(s.given) ELSE ChildExtract(s.given)
    BY <1>10 DEF WhatItComesTo, RunEngine, Engines
  <2>2. ASSUME ~s.given.parsed
        PROVE  \E f \in AdaptFileCapabilities(s.given) : f.severity = "BLOCK"
    <3>1. Adapted("analysis-failed", "BLOCK", <<"parse error">>) \in AdaptFileCapabilities(s.given)
      BY <2>2 DEF AdaptFileCapabilities
    <3> QED BY <3>1, AdaptedBlocks
  <2>3. Sound(WorkerExtract(s.given))
    BY <1>1, <1>2, <2>2 DEF WorkerExtract
  <2>4. Sound(ChildExtract(s.given))
    BY <1>1 DEF ChildExtract
  <2> QED BY <2>1, <2>3, <2>4
<1> QED BY <1>6, <1>7, <1>8, <1>9, <1>10 DEF Engines

LEMMA BoundedInit == Init => BoundedInv
PROOF
<1> SUFFICES ASSUME Init PROVE BoundedInv
  OBVIOUS
<1>1. events \in Seq(EventNames) /\ \A i \in 1..Len(events) : events[i] # "message"
  <2>1. CASE events = <<"spawn-error">>
    BY <2>1 DEF EventNames
  <2>2. CASE events = <<>>
    BY <2>2
  <2> QED BY <2>1, <2>2 DEF Init
<1>2. CallInv
  BY <1>1 DEF Init, CallInv
<1>3. OutcomeInv
  BY DEF Init, OutcomeInv
<1> QED BY <1>2, <1>3 DEF BoundedInv

\* What the parent may settle on.
LEMMA SettleSound ==
  ASSUME BoundedInv, NEW kind, NEW findings, Settle(kind, findings),
         \/ kind \in {"crash", "oom", "timeout"} /\ findings = {}
         \/ call # None /\ call.channel # "error" /\ kind = call.channel /\ findings = call.findings
  PROVE  /\ OutcomeInv' /\ UNCHANGED <<scenario, isolation, call, answer>>
         /\ task' \in {task, "dead"}
PROOF
<1>1. UNCHANGED <<scenario, isolation, call, answer>> /\ task' \in {task, "dead"}
  BY DEF Settle
<1>2. Outcome(kind, findings).kind = kind
  BY DEF Outcome
<1>3. OutcomeInv'
  <2>1. CASE outcome = None
    BY <1>1, <1>2, <2>1 DEF Settle, OutcomeInv
  <2>2. CASE outcome # None
    BY <1>1, <2>2 DEF Settle, OutcomeInv, BoundedInv
  <2> QED BY <2>1, <2>2
<1> QED BY <1>1, <1>3

LEMMA HandleSound ==
  ASSUME BoundedInv, Handle
  PROVE  /\ OutcomeInv' /\ UNCHANGED <<scenario, isolation, call, answer>>
         /\ task' \in {task, "dead"}
PROOF
<1>1. events # <<>> /\ events \in Seq(EventNames)
  BY DEF Handle, BoundedInv, CallInv
<1>2. Head(events) = events[1] /\ 1 \in 1..Len(events)
  BY <1>1
<1>3. CASE OnMessage
  <2>1. call # None /\ call.channel # "error"
    BY <1>2, <1>3 DEF OnMessage, BoundedInv, CallInv
  <2> QED BY <1>3, <2>1, SettleSound DEF OnMessage
<1>4. CASE OnError
  BY <1>4, SettleSound DEF OnError
<1>5. CASE OnWorkerExit
  BY <1>5, SettleSound DEF OnWorkerExit
<1>6. CASE OnChildExit
  <2>1. CASE Parsed
    <3>1. call # None
      BY <2>1 DEF Parsed, BoundedInv, CallInv
    <3> QED BY <1>6, <2>1, <3>1, SettleSound DEF OnChildExit
  <2>2. CASE ~Parsed
    <3>1. ClassifyNoStdoutExit(ending).kind \in {"oom", "crash"} /\ ClassifyNoStdoutExit(ending).findings = {}
      BY DEF ClassifyNoStdoutExit, Outcome
    <3> QED BY <1>6, <2>2, <3>1, SettleSound DEF OnChildExit
  <2> QED BY <2>1, <2>2
<1> QED BY <1>3, <1>4, <1>5, <1>6 DEF Handle

\* An event at the end of the queue, none of them a message.
LEMMA EventsAppended ==
  ASSUME events \in Seq(EventNames), NEW more \in Seq(EventNames \ {"message"}), events' = events \o more
  PROVE  /\ events' \in Seq(EventNames)
         /\ \A i \in 1..Len(events') : events'[i] = "message" => i \in 1..Len(events) /\ events[i] = "message"
PROOF
<1>1. events' \in Seq(EventNames)
  <2>1. more \in Seq(EventNames)
    OBVIOUS
  <2> QED BY <2>1
<1>2. \A i \in 1..Len(events') : IF i <= Len(events) THEN events'[i] = events[i]
                                 ELSE i - Len(events) \in 1..Len(more) /\ events'[i] = more[i - Len(events)]
  OBVIOUS
<1>3. \A i \in 1..Len(more) : more[i] # "message"
  OBVIOUS
<1> QED BY <1>1, <1>2, <1>3

LEMMA CallKept ==
  ASSUME CallInv, NEW more \in Seq(EventNames \ {"message"}), events' = events \o more,
         UNCHANGED <<scenario, isolation, call>>,
         task' \in {"unspawned", "starting", "running"} => task \in {"unspawned", "starting", "running"},
         answer' = answer
  PROVE  CallInv'
BY EventsAppended DEF CallInv

LEMMA BoundedNext == BoundedInv /\ [Next]_vars => BoundedInv'
PROOF
<1> SUFFICES ASSUME BoundedInv, [Next]_vars PROVE BoundedInv'
  OBVIOUS
<1>0. events \in Seq(EventNames) /\ <<>> \in Seq(EventNames \ {"message"}) /\ events \o <<>> = events
      /\ <<"exit">> \in Seq(EventNames \ {"message"}) /\ Append(events, "exit") = events \o <<"exit">>
      /\ <<"error", "exit">> \in Seq(EventNames \ {"message"})
      /\ <<"error-oom", "exit">> \in Seq(EventNames \ {"message"})
      /\ <<"exit-oom">> \in Seq(EventNames \ {"message"})
  BY DEF BoundedInv, CallInv, EventNames
<1> HIDE DEF BoundedInv
<1>a. CallInv /\ OutcomeInv
  BY DEF BoundedInv
<1>1. CASE Start
  <2>1. CallInv'
    BY <1>0, <1>1, <1>a, CallKept DEF Start
  <2>2. OutcomeInv'
    BY <1>1, <1>a DEF Start, OutcomeInv
  <2> QED BY <2>1, <2>2 DEF BoundedInv
<1>2. CASE Finish
  <2>0. call = None /\ call' = WhatItComesTo(scenario, isolation) /\ scenario.kind \notin Endless
        /\ UNCHANGED <<scenario, isolation, outcome>>
    BY <1>2, <1>a DEF Finish, CallInv
  <2>1. call' # None /\ Sound(call')
    BY <1>a, <2>0, ScenariosAssumption, CallIsSound DEF CallInv, GivenScenarios
  <2>2. \A i \in 1..Len(events) : events[i] # "message"
    BY <1>a, <2>0 DEF CallInv
  <2>3. events' \in Seq(EventNames) /\ \A i \in 1..Len(events') : events'[i] = "message" => call'.channel # "error"
    <3>1. CASE events' = events \o <<"error", "exit">>
      BY <1>0, <2>2, <3>1, EventsAppended
    <3>2. CASE events' = events \o <<"message", "exit">> /\ call'.channel # "error"
      <4>1. <<"message", "exit">> \in Seq(EventNames)
        BY DEF EventNames
      <4> QED BY <1>0, <3>2, <4>1
    <3>3. CASE events' = events
      BY <1>0, <2>2, <3>3
    <3> QED BY <1>2, <3>1, <3>2, <3>3 DEF Finish
  <2>4. task' \in {"dead", "answering"}
    BY <1>2 DEF Finish
  <2>5. CallInv'
    BY <1>a, <2>0, <2>1, <2>3, <2>4 DEF CallInv
  <2>6. OutcomeInv'
    BY <1>a, <2>0 DEF OutcomeInv
  <2> QED BY <2>5, <2>6 DEF BoundedInv
<1>3. CASE WriteChunk
  <2>1. CallInv'
    BY <1>0, <1>3, <1>a, CallKept DEF WriteChunk
  <2>2. OutcomeInv'
    BY <1>3, <1>a DEF WriteChunk, OutcomeInv
  <2> QED BY <2>1, <2>2 DEF BoundedInv
<1>4. CASE ChildExits
  <2>1. CallInv'
    BY <1>0, <1>4, <1>a, CallKept DEF ChildExits
  <2>2. OutcomeInv'
    BY <1>4, <1>a DEF ChildExits, OutcomeInv
  <2> QED BY <2>1, <2>2 DEF BoundedInv
<1>5. CASE Dies
  <2>1. PICK more \in Seq(EventNames \ {"message"}) : events' = events \o more
    BY <1>0, <1>5 DEF Dies
  <2>2. CallInv'
    BY <1>5, <1>a, <2>1, CallKept DEF Dies
  <2>3. OutcomeInv'
    BY <1>5, <1>a DEF Dies, OutcomeInv
  <2> QED BY <2>2, <2>3 DEF BoundedInv
<1>6. CASE Terminated
  <2>1. CallInv'
    BY <1>0, <1>6, <1>a, CallKept DEF Terminated
  <2>2. OutcomeInv'
    BY <1>6, <1>a DEF Terminated, OutcomeInv
  <2> QED BY <2>1, <2>2 DEF BoundedInv
<1>7. CASE Handle
  <2>1. OutcomeInv' /\ UNCHANGED <<scenario, isolation, call, answer>> /\ task' \in {task, "dead"}
    BY <1>7, HandleSound
  <2>2. events # <<>> /\ events' = Tail(events)
    BY <1>7 DEF Handle
  <2>3. events' \in Seq(EventNames) /\ \A i \in 1..Len(events') : i + 1 \in 1..Len(events) /\ events'[i] = events[i + 1]
    BY <1>0, <2>2
  <2>4. CallInv'
    BY <1>a, <2>1, <2>3 DEF CallInv
  <2> QED BY <2>1, <2>4 DEF BoundedInv
<1>8. CASE OnData
  <2>1. UNCHANGED <<scenario, isolation, task, call, answer, outcome, events>>
    BY <1>8 DEF OnData, inside
  <2> QED BY <1>a, <2>1 DEF BoundedInv, CallInv, OutcomeInv
<1>9. CASE OnTimer
  <2>1. OutcomeInv' /\ UNCHANGED <<scenario, isolation, call, answer>> /\ task' \in {task, "dead"}
    BY <1>9, SettleSound DEF OnTimer
  <2>2. PICK more \in Seq(EventNames \ {"message"}) : events' = events \o more
    BY <1>0, <1>9 DEF OnTimer
  <2>3. CallInv'
    BY <1>a, <2>1, <2>2, CallKept
  <2> QED BY <2>1, <2>3 DEF BoundedInv
<1>10. CASE UNCHANGED vars
  <2>1. UNCHANGED <<scenario, isolation, task, call, answer, outcome, events>>
    BY <1>10 DEF vars, inside
  <2> QED BY <1>a, <2>1 DEF BoundedInv, CallInv, OutcomeInv
<1> QED BY <1>1, <1>2, <1>3, <1>4, <1>5, <1>6, <1>7, <1>8, <1>9, <1>10 DEF Next

LEMMA PassFollows == BoundedInv => PassIsEarned
PROOF
<1> SUFFICES ASSUME BoundedInv, outcome # None
    PROVE  /\ \A class \in Asked :
                /\ OracleFailSafe(outcome, class) =>
                      outcome.kind \in {"timeout", "oom"} \/ OracleFailSafe(Truth, class)
                /\ OracleFindingSurvives(outcome, outcome, class) => OracleFindingSurvives(Truth, Truth, class)
           /\ OracleIdentityInvariant(outcome, outcome) => OracleIdentityInvariant(outcome, Truth)
           /\ OracleNoCrash(outcome) /\ OracleNoHang(outcome) /\ OracleNoOom(outcome) => call # None
           /\ outcome.kind = "fail-safe" => \E f \in outcome.findings : f.severity = "BLOCK"
  BY DEF PassIsEarned
<1>1. CASE outcome.kind \in {"crash", "oom", "timeout"}
  BY <1>1 DEF OracleFailSafe, OracleFindingSurvives, OracleIdentityInvariant, IsVerdict,
              OracleNoCrash, OracleNoHang, OracleNoOom
<1>2. CASE call # None /\ call.channel # "error" /\ outcome = Outcome(call.channel, call.findings)
  <2>1. Truth = outcome
    BY <1>2 DEF Truth
  <2>2. outcome.kind = call.channel /\ outcome.findings = call.findings
    BY <1>2 DEF Outcome
  <2>3. Sound(call)
    BY <1>2 DEF BoundedInv, CallInv
  <2> QED BY <1>2, <2>1, <2>2, <2>3 DEF Sound
<1> QED BY <1>1, <1>2 DEF BoundedInv, OutcomeInv

(***************************************************************************)
(* Whatever oracle passes on what runBounded or runBoundedInProcess        *)
(* resolved to passes on what the scenario came to: the outcome is that,   *)
(* or says that the run crashed or hit a bound (runner.ts, oracles).       *)
(***************************************************************************)
THEOREM PassesAreEarned == Spec => []PassIsEarned
BY BoundedInit, BoundedNext, PassFollows, PTL DEF Spec
=============================================================================
