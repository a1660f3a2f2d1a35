----------------------------- MODULE BoundedRun -----------------------------
(***************************************************************************)
(* One scenario of the assurance harness under bounds: runBounded          *)
(* (assurance/src/runner/runner.ts) over a worker thread (worker.ts), and  *)
(* runBoundedInProcess (child-process-runner.ts) over a child process      *)
(* (child-entry.ts).                                                       *)
(*                                                                         *)
(* What the scenario comes to (`call') is settled inside; what the parent  *)
(* hears of it are events.  A worker's events are handled in order: a      *)
(* message, an error, its exit.  A child's answer is a line of `answer'    *)
(* chunks on stdout, and its 'exit' may be handled before chunks that are  *)
(* still in the pipe.  The engine prints to the same stdout.               *)
(***************************************************************************)
EXTENDS Integers, EngineAdapter, Oracles

CONSTANTS
    Scenarios,   \* records [kind, given]: what is run, and what the engine finds in it
    MaxChunks,   \* bound: chunks of the longest answer
    None

ASSUME MaxChunksAssumption == MaxChunks \in Nat \ {0}

VARIABLES
    isolation,   \* "worker" or "process"
    scenario,
    task,        \* "unspawned", "starting", "running", "answering", "dead"
    call,        \* what the scenario came to: [channel, findings], or None
    events,      \* of the worker or the child, for the parent's handlers
    answer,      \* chunks of the child's line, and what else is on stdout: [size, noise]
    wrote, heard,
    ending,      \* how the child ended: "code", "abort", "killed"; None while it lives
    outcome      \* what the promise resolved to, or None; the timer is armed until it is there

inside == <<scenario, isolation, task, call, answer, wrote, ending>>
vars == <<inside, outcome, events, heard>>

Init ==
    /\ isolation \in {"worker", "process"}
    /\ scenario \in Scenarios
    /\ scenario.kind = "synthetic:v8-abort" => isolation = "process"
    /\ task \in {"unspawned", "starting"}
    /\ call = None /\ answer = None /\ ending = None /\ outcome = None
    /\ events = IF task = "unspawned" THEN <<"spawn-error">> ELSE <<>>
    /\ wrote = 0 /\ heard = 0

Alive == task \in {"starting", "running", "answering"}

-----------------------------------------------------------------------------
(* Inside: what the scenario comes to.  An error is one of two: its        *)
(* message or stack has the look of a heap that ran out, or not.           *)

Call(channel, findings) == [channel |-> channel, findings |-> findings]
Failed == Adapted("analysis-failed", "BLOCK", <<"parse error">>)
Threw(error) == Call("error", {error})

\* Scenarios that test the harness itself and come to an end.
Synthetic(s) ==
    CASE s.kind = "synthetic:normal" -> Call("ok", s.given)
      [] s.kind = "synthetic:fail-safe" -> Call("fail-safe", {Failed})
      [] OTHER -> Threw(s.given)

\* A lockfile the engine says it does not support is one it gave up on.
ParseLockfileText(given) ==
    CASE given = "parsed" -> Call("ok", {})
      [] given = "UnsupportedLockfileError" -> Call("fail-safe", {Failed})
      [] OTHER -> Threw("plain")

RunDiff(given) ==
    CASE given.throws -> Threw("plain")
      [] FindingsSignalFailSafe(given.findings) -> Call("fail-safe", AdaptFindings(given.findings))
      [] OTHER -> Call("ok", AdaptFindings(given.findings))

\* A file that does not parse is given up on by the worker; the child reports
\* it as a finding of a run that is ok.
WorkerExtract(given) == Call(IF given.parsed THEN "ok" ELSE "fail-safe", AdaptFileCapabilities(given))
ChildExtract(given) == Call("ok", AdaptFileCapabilities(given))

AnalyzeTarball(given) ==
    IF given.throws THEN Threw("plain") ELSE Call("ok", AdaptPackageSnapshot(given.snapshot))

RunEngine(s, where) ==
    CASE s.kind = "engine:parseLockfileText" -> ParseLockfileText(s.given)
      [] s.kind = "engine:runDiff" -> RunDiff(s.given)
      [] s.kind = "engine:analyzeTarball" -> AnalyzeTarball(s.given)
      [] s.kind = "engine:extractCapabilities" ->
            IF where = "worker" THEN WorkerExtract(s.given) ELSE ChildExtract(s.given)

Engines == {"engine:parseLockfileText", "engine:runDiff", "engine:extractCapabilities", "engine:analyzeTarball"}
Endless == {"synthetic:hang", "synthetic:oom", "synthetic:v8-abort"}

WhatItComesTo(s, where) == IF s.kind \in Engines THEN RunEngine(s, where) ELSE Synthetic(s)

\* A finding that says the analysis failed blocks; and None is not an outcome.
GivenScenarios ==
    \A s \in Scenarios :
        /\ s.kind = "engine:runDiff" =>
              \A f \in ToSet(s.given.findings) : f.detector = "analysis.failed" => f.severity = "BLOCK"
        /\ s.kind \notin Endless => \A where \in {"worker", "process"} : WhatItComesTo(s, where) # None

ASSUME ScenariosAssumption == GivenScenarios

Start ==
    /\ task = "starting"
    /\ task' = "running"
    /\ UNCHANGED <<scenario, isolation, call, answer, wrote, ending, outcome, events, heard>>

\* An answer on stdout: clean; after something printed without a line's end; or
\* with more printed after it.
Noise == {"none", "before", "after"}

Finish ==
    /\ task = "running" /\ scenario.kind \notin Endless
    /\ call' = WhatItComesTo(scenario, isolation)
    /\ IF isolation = "worker"
       THEN /\ events' = events \o IF call'.channel = "error" THEN <<"error", "exit">> ELSE <<"message", "exit">>
            /\ task' = "dead"
            /\ UNCHANGED answer
       ELSE /\ \E size \in 1..MaxChunks, noise \in Noise : answer' = [size |-> size, noise |-> noise]
            /\ task' = "answering"
            /\ UNCHANGED events
    /\ UNCHANGED <<scenario, isolation, wrote, ending, outcome, heard>>

\* All that is written: the line, and what is printed after it.
Written == answer.size + IF answer.noise = "after" THEN 1 ELSE 0

WriteChunk ==
    /\ task = "answering" /\ wrote < Written
    /\ wrote' = wrote + 1
    /\ UNCHANGED <<scenario, isolation, task, call, answer, ending, outcome, events, heard>>

\* process.exit once the line is written.
ChildExits ==
    /\ task = "answering" /\ wrote >= answer.size
    /\ task' = "dead" /\ ending' = "code" /\ events' = Append(events, "exit")
    /\ UNCHANGED <<scenario, isolation, call, answer, wrote, outcome, heard>>

\* Whatever ends the task before its time: the heap limit, an abort, a fatal
\* error.  A worker says so in an error or only with its exit code.
Dies ==
    /\ task \in {"running", "answering"}
    /\ task' = "dead"
    /\ IF isolation = "worker"
       THEN /\ \E e \in {<<"error-oom", "exit">>, <<"exit-oom">>, <<"exit">>} : events' = events \o e
            /\ UNCHANGED ending
       ELSE ending' \in {"code", "abort"} /\ events' = Append(events, "exit")
    /\ UNCHANGED <<scenario, isolation, call, answer, wrote, outcome, heard>>

-----------------------------------------------------------------------------
(* The parent.                                                             *)

\* finish: the first outcome stands, disarms the timer and ends the task.
\* SIGKILL is at once; terminate() of a worker takes effect when it does.
Settle(kind, findings) ==
    /\ outcome' = IF outcome = None THEN Outcome(kind, findings) ELSE outcome
    /\ IF outcome = None /\ isolation = "process" /\ Alive
       THEN task' = "dead" /\ ending' = "killed"
       ELSE UNCHANGED <<task, ending>>
    /\ UNCHANGED <<scenario, isolation, call, answer, wrote>>

\* The worker's thread is stopped, wherever it is.
Terminated ==
    /\ isolation = "worker" /\ Alive /\ outcome # None
    /\ task' = "dead" /\ events' = Append(events, "exit")
    /\ UNCHANGED <<scenario, isolation, call, answer, wrote, ending, outcome, heard>>

LooksLikeOom(error) == error = "oom"

OnMessage ==
    /\ Head(events) = "message"
    /\ Settle(call.channel, call.findings)

OnError ==
    /\ Head(events) \in {"error", "error-oom", "spawn-error"}
    /\ IF Head(events) = "error-oom" \/ (Head(events) = "error" /\ \E e \in call.findings : LooksLikeOom(e))
       THEN Settle("oom", {}) ELSE Settle("crash", {})

OnWorkerExit ==
    /\ isolation = "worker" /\ Head(events) \in {"exit", "exit-oom"}
    /\ IF Head(events) = "exit-oom" THEN Settle("oom", {}) ELSE Settle("crash", {})

\* JSON.parse of the last line: whole, with nothing in front of it and nothing
\* behind it.
Parsed == answer # None /\ answer.noise # "before" /\ heard = answer.size

\* Variant: a child that says nothing and exits with code 0 is well.
ClassifyByCode(how) == Outcome(IF how = "abort" THEN "oom" ELSE IF how = "code" THEN "ok" ELSE "crash", {})

\* classifyNoStdoutExit: by signal, by what V8 wrote to stderr, by exit code.
ClassifyNoStdoutExit(how) == Outcome(IF how = "abort" THEN "oom" ELSE "crash", {})

OnChildExit ==
    /\ isolation = "process" /\ Head(events) = "exit"
    /\ IF Parsed
       THEN IF call.channel = "error" THEN Settle("crash", {}) ELSE Settle(call.channel, call.findings)
       ELSE LET o == ClassifyNoStdoutExit(ending) IN Settle(o.kind, o.findings)

Handle ==
    /\ events # <<>>
    /\ events' = Tail(events)
    /\ OnMessage \/ OnError \/ OnWorkerExit \/ OnChildExit
    /\ UNCHANGED heard

OnData ==
    /\ heard < wrote
    /\ heard' = heard + 1
    /\ UNCHANGED <<inside, outcome, events>>

\* Variant: the timer waits for a child that has begun to answer.
OnTimerIfSilent ==
    /\ outcome = None /\ heard = 0
    /\ Settle("timeout", {})
    /\ events' = IF task' # task THEN Append(events, "exit") ELSE events
    /\ UNCHANGED heard

OnTimer ==
    /\ outcome = None
    /\ Settle("timeout", {})
    /\ events' = IF task' # task THEN Append(events, "exit") ELSE events
    /\ UNCHANGED heard

-----------------------------------------------------------------------------
Next ==
    \/ Start \/ Finish \/ WriteChunk \/ ChildExits \/ Dies
    \/ Terminated \/ Handle \/ OnData \/ OnTimer

Spec == Init /\ [][Next]_vars

\* The timer fires and a worker that is told to stop stops.  The task owes
\* nothing, and no event needs to be handled before the timer.
FairSpec == Spec /\ WF_vars(OnTimer) /\ WF_vars(Terminated)

-----------------------------------------------------------------------------
\* What the scenario itself came to, as an outcome.
Truth ==
    IF call = None \/ call.channel = "error" THEN Outcome("crash", {})
    ELSE Outcome(call.channel, call.findings)

Asked == {NothingAsked, AnyFinding, "env/secret-read", "secret-read", "code-execution", "analysis-failed"}

\* No oracle passes on a run that did not earn it.  Whatever passes on the
\* outcome passes on what the scenario itself came to, unless the run hit a
\* bound - although the answer may come in part, after the exit, among other
\* output or not at all; a run that neither crashed nor hit a bound did come to
\* an end, and one that gave up blocks (runner.ts and child-process-runner.ts:
\* "Resolves to exactly one RunOutcome"; oracles/fail-safe.ts: "Fail-safe
\* outcomes are the engine's give-up path with a BLOCK finding attached").
PassIsEarned ==
    outcome # None =>
        /\ \A class \in Asked :
            /\ OracleFailSafe(outcome, class) =>
                outcome.kind \in {"timeout", "oom"} \/ OracleFailSafe(Truth, class)
            /\ OracleFindingSurvives(outcome, outcome, class) => OracleFindingSurvives(Truth, Truth, class)
        /\ OracleIdentityInvariant(outcome, outcome) => OracleIdentityInvariant(outcome, Truth)
        /\ OracleNoCrash(outcome) /\ OracleNoHang(outcome) /\ OracleNoOom(outcome) => call # None
        /\ outcome.kind = "fail-safe" => \E f \in outcome.findings : f.severity = "BLOCK"

\* A run is answered for and nothing of it is left running, whatever the
\* scenario does: hang, die, print, or answer at the last moment.
AlwaysResolves == <>[](outcome # None /\ ~Alive)
=============================================================================
