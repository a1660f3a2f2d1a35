-------------------------------- MODULE CliRun --------------------------------
(***************************************************************************)
(* One call of "vetlock diff" or "vetlock scan" (packages/cli/src/cli.ts), *)
(* from its flags to its exit code: the flags, the lockfiles, the          *)
(* configuration and whether it is to be trusted, the lockfile preflight,  *)
(* the engine, the filtering of its findings and the verdict.              *)
(*                                                                         *)
(* The engine is external here: it throws, or returns any of Reports (see  *)
(* ScanEngine).  Rendering and progress are left out, and so is the remap  *)
(* of directions in scan mode, which nothing below reads.                  *)
(***************************************************************************)
EXTENDS Naturals, FiniteSets

CONSTANTS
  Calls,      \* [scan, before, after, stdin, failOn, allowInDiff, current, baseline]
  Reports,    \* sets of findings runDiff may return
  ConfigOf,   \* text of a .vetlock.json -> VetlockConfig, NoConfig if it is malformed
  NoConfig,
  Registry,   \* ids of ALL_DETECTORS
  Family,     \* detector id -> what comes before its first dot
  Unreadable, \* a file that is there and cannot be read
  Absent

Rank == [INFO |-> 1, WARN |-> 2, BLOCK |-> 3]

\* runDiff validates its findings, parseConfig what it reads.
IsFinding(f) ==
  /\ f = [detector |-> f.detector, category |-> f.category, package |-> f.package,
          severity |-> f.severity, file |-> f.file, publishers |-> f.publishers,
          newcomers |-> f.newcomers]
  /\ f.severity \in DOMAIN Rank

ValidConfig(c) == \A o \in c.severityOverride : o[2] \in DOMAIN Rank

ASSUME ReportsAssumption ==
  \A report \in Reports : report # Absent /\ \A f \in report : IsFinding(f)

ASSUME ConfigAssumption ==
  /\ \A t \in DOMAIN ConfigOf : ConfigOf[t] = NoConfig \/ ValidConfig(ConfigOf[t])
  /\ \A c \in Calls : c.current \in DOMAIN ConfigOf \cup {Absent, Unreadable}

ASSUME AbsentAssumption == Absent \notin {0, 1, 2, 3}

VARIABLES
  call,       \* the command line and the files it finds
  pc,         \* the part of the handler that comes next
  before,     \* the lockfile compared against
  decision,   \* the result of decideConfigApplication
  fetched,    \* where the override has fetched packages from
  raw,        \* what the engine returned
  found,      \* result.findings
  code        \* the exit code

vars == <<call, pc, before, decision, fetched, raw, found, code>>

-----------------------------------------------------------------------------
(* Lockfiles.  A text has a kind and shows it by its name or its contents. *)

Pypi == {"requirements", "poetry", "uv"}
Ecosystem(kind) == IF kind \in Pypi THEN "pypi" ELSE "npm"

\* packages says whether it resolves some to a "file:" URL, some elsewhere.
Text(kind, named, sniffs, sound, packages) ==
  [kind |-> kind, named |-> named, sniffs |-> sniffs, sound |-> sound, packages |-> packages]

\* parseLockfileText does not throw.
Parses(t, hinted) == (t.sniffs \/ (hinted /\ t.named)) /\ t.sound

\* Variant: one empty lockfile for every kind.
SynthesizeNpmLockfile(t) == Text("npm", t.named, TRUE, TRUE, {})

\* Every empty lockfile is recognized by its contents but the empty
\* requirements.txt; the preflight reads it under the name of the input.
SynthesizeEmptyLockfile(t) == Text(t.kind, t.named, t.kind # "requirements", TRUE, {})

-----------------------------------------------------------------------------
(* Findings and configuration.  A finding has the fields detector,         *)
(* category, package, severity and file; the publishers its evidence names *)
(* are listed, and those that are new.                                     *)

AlwaysApplyDetectors == {"integrity.hash-mismatch", "analysis.failed"}

DefaultConfig ==
  [ignorePackages |-> {}, ignorePathsInside |-> {}, allowlist |-> {}, severityOverride |-> {},
   trustedPublishers |-> {}, failOn |-> {}]

\* ignorePathsInside, allowlist and trustedPublishers are sets of pairs of a
\* package and a path, category or publisher; severityOverride of a detector
\* and its severity.
Ignored(f, c) == f.package \in c.ignorePackages \/ <<f.package, f.file>> \in c.ignorePathsInside

\* Variant: what always applies is exempt from the path filter only.
IgnoredOf(findings, c) ==
  {f \in findings : \/ f.package \in c.ignorePackages
                    \/ (f.detector \notin AlwaysApplyDetectors /\ Ignored(f, c))}

DroppedOf(findings, c) == {f \in findings : f.detector \notin AlwaysApplyDetectors /\ Ignored(f, c)}

Allowed(f, c) ==
  f.detector \notin AlwaysApplyDetectors /\ <<f.package, f.category>> \in c.allowlist
Overrides(f, c) ==
  {o \in c.severityOverride : o[1] = f.detector /\ f.detector \notin AlwaysApplyDetectors}
Trusted(f, c) ==
  /\ f.detector = "meta.maintainer-change"
  /\ \E p \in f.publishers : <<f.package, p>> \in c.trustedPublishers

\* Trust has the last word, then an override, then the allowlist.
SeverityUnder(f, c) ==
  IF Trusted(f, c) THEN "INFO"
  ELSE IF Overrides(f, c) # {} THEN (CHOOSE o \in Overrides(f, c) : TRUE)[2]
  ELSE IF Allowed(f, c) THEN "INFO" ELSE f.severity

ApplyConfig(findings, c) ==
  {[f EXCEPT !.severity = SeverityUnder(f, c)] : f \in findings \ DroppedOf(findings, c)}

\* config.in-diff-untrusted, whose severity tells whether it was strict.
Untrusted(severity) ==
  [detector |-> "config.in-diff-untrusted", category |-> "META", package |-> "<config>",
   severity |-> severity, file |-> ".vetlock.json", publishers |-> {}, newcomers |-> {}]

Decision(config, findings, blocked) == [config |-> config, findings |-> findings, blocked |-> blocked]

\* Variant: reports an untrusted configuration and applies it.
DecideAndApply(c) ==
  LET parsed == ConfigOf[c.current]
  IN IF c.current = Absent THEN Decision(DefaultConfig, {}, FALSE)
     ELSE IF c.current = c.baseline THEN Decision(parsed, {}, FALSE)
     ELSE IF c.allowInDiff THEN Decision(parsed, {Untrusted("WARN")}, FALSE)
     ELSE Decision(parsed, {Untrusted("BLOCK")}, TRUE)

DecideConfigApplication(c) ==
  LET parsed == ConfigOf[c.current]
  IN IF c.current = Absent THEN Decision(DefaultConfig, {}, FALSE)
     ELSE IF c.current = c.baseline THEN Decision(parsed, {}, FALSE)
     ELSE IF c.allowInDiff THEN Decision(parsed, {Untrusted("WARN")}, FALSE)
     ELSE Decision(DefaultConfig, {Untrusted("BLOCK")}, TRUE)

-----------------------------------------------------------------------------
(* Flags and exit codes.                                                   *)

KnownFailOn(id) == id \in Registry \/ Family[id] \in Registry
MatchesDetectorId(d, id) == d = id \/ Family[d] = id

Graver(a, b) == IF a >= b THEN a ELSE b
VerdictCode(findings) ==
  IF \E f \in findings : f.severity = "BLOCK" THEN 2
  ELSE IF \E f \in findings : f.severity = "WARN" THEN 1 ELSE 0

\* Variant: --fail-on looks at what is left at WARN or above.
ForcedAboveInfo(findings) ==
  \E f \in findings : \/ /\ f.severity # "INFO"
                         /\ \E id \in call.failOn : MatchesDetectorId(f.detector, id)
                      \/ f.detector \in decision.config.failOn

Forced(findings) ==
  \E f \in findings : \/ \E id \in call.failOn : MatchesDetectorId(f.detector, id)
                      \/ f.detector \in decision.config.failOn

ExitCode(findings) == Graver(VerdictCode(findings), IF Forced(findings) THEN 2 ELSE 0)

-----------------------------------------------------------------------------
Init ==
  /\ call \in Calls
  /\ pc = "flags"
  /\ before = Absent
  /\ decision = Decision(DefaultConfig, {}, FALSE)
  /\ fetched = {}
  /\ raw = Absent
  /\ found = {}
  /\ code = Absent

Exit(n) == pc' = "exited" /\ code' = n
GoOn(from, to) == pc = from /\ pc' = to /\ UNCHANGED code
Fail(at, condition, n) ==
  /\ pc = at /\ condition
  /\ Exit(n)
  /\ UNCHANGED <<call, before, decision, fetched, raw, found>>

BadFlags == call.stdin \/ \E id \in call.failOn : ~KnownFailOn(id)
RejectFlags == Fail("flags", BadFlags, 1)
AcceptFlags ==
  /\ GoOn("flags", "read") /\ ~BadFlags
  /\ UNCHANGED <<call, before, decision, fetched, raw, found>>

Files == IF call.scan THEN {call.after} ELSE {call.before, call.after}
ReadFails == Fail("read", Unreadable \in Files, 3)
ReadLockfiles ==
  /\ GoOn("read", "config") /\ Unreadable \notin Files
  /\ before' = IF call.scan THEN Absent ELSE call.before
  /\ UNCHANGED <<call, decision, fetched, raw, found>>

BadConfig ==
  call.current \in {Unreadable} \cup {t \in DOMAIN ConfigOf : ConfigOf[t] = NoConfig}
ConfigFails == Fail("config", BadConfig, 3)
LoadConfigWithTrustCheck ==
  /\ GoOn("config", IF call.scan THEN "empty" ELSE "preflight") /\ ~BadConfig
  /\ decision' = DecideConfigApplication(call)
  /\ UNCHANGED <<call, before, fetched, raw, found>>

\* Scan mode parses its input to learn the kind of the empty lockfile.
EmptyFails == Fail("empty", ~Parses(call.after, TRUE), 3)
Empty ==
  /\ GoOn("empty", "preflight") /\ Parses(call.after, TRUE)
  /\ before' = SynthesizeEmptyLockfile(call.after)
  /\ UNCHANGED <<call, decision, fetched, raw, found>>

BothParse(hinted) == Parses(before, hinted) /\ Parses(call.after, hinted)
PreflightFails == Fail("preflight", ~BothParse(TRUE), 3)
Preflight ==
  /\ GoOn("preflight", "engine") /\ BothParse(TRUE)
  /\ UNCHANGED <<call, before, decision, fetched, raw, found>>

\* runDiff gets the texts without their names, and may throw later on.
Comparable == BothParse(FALSE) /\ Ecosystem(before.kind) = Ecosystem(call.after.kind)

\* The override runDiff is given, called for a package of either side.
FetchOverride ==
  /\ pc = "engine" /\ Comparable
  /\ \E p \in before.packages \cup call.after.packages :
       fetched' = fetched \cup {IF p = "file" THEN "disk" ELSE "npm"}
  /\ UNCHANGED <<call, pc, before, decision, raw, found, code>>

EngineThrows == Fail("engine", TRUE, 3)
EngineReturns ==
  /\ GoOn("engine", "filter") /\ Comparable
  /\ raw' \in Reports
  /\ found' = raw'
  /\ UNCHANGED <<call, before, decision, fetched>>

\* Variant: the configuration also filters the findings about itself.
FilterAll ==
  /\ GoOn("filter", "verdict")
  /\ found' = ApplyConfig(found \cup decision.findings, decision.config)
  /\ UNCHANGED <<call, before, decision, fetched, raw>>

Filter ==
  /\ GoOn("filter", "verdict")
  /\ found' = decision.findings \cup ApplyConfig(found, decision.config)
  /\ UNCHANGED <<call, before, decision, fetched, raw>>

Conclude ==
  /\ pc = "verdict"
  /\ Exit(ExitCode(found))
  /\ UNCHANGED <<call, before, decision, fetched, raw, found>>

Next ==
  \/ RejectFlags \/ AcceptFlags
  \/ ReadFails \/ ReadLockfiles
  \/ ConfigFails \/ LoadConfigWithTrustCheck
  \/ EmptyFails \/ Empty
  \/ PreflightFails \/ Preflight
  \/ FetchOverride \/ EngineThrows \/ EngineReturns
  \/ Filter \/ Conclude

Spec == Init /\ [][Next]_vars

-----------------------------------------------------------------------------
Answered == pc = "exited" /\ raw # Absent

TypeOK ==
  /\ pc \in {"flags", "read", "config", "empty", "preflight", "engine", "filter", "verdict", "exited"}
  /\ code \in {Absent, 0, 1, 2, 3} /\ (code # Absent <=> pc = "exited")
  /\ \A f \in found : f.severity \in DOMAIN Rank

(***************************************************************************)
(* A configuration that came with the change it is to judge changes        *)
(* nothing: every finding of the engine is reported as it was, and the     *)
(* call fails.                                                             *)
(***************************************************************************)
UntrustedConfigIsInert ==
  Answered /\ call.current \notin {Absent, call.baseline} /\ ~call.allowInDiff =>
    raw \subseteq found /\ code = 2

(***************************************************************************)
(* No configuration stands between the engine's own alarms (a package it   *)
(* could not look at, a changed hash) and exit code 2.                     *)
(***************************************************************************)
AlarmsReachTheExit ==
  Answered /\ (\E f \in raw : f.detector \in AlwaysApplyDetectors /\ f.severity = "BLOCK") =>
    code = 2

\* An entry of c speaks of f: of its package or its detector.
Mentions(c, f) ==
  \/ f.package \in c.ignorePackages
  \/ \E e \in c.ignorePathsInside \cup c.allowlist \cup c.trustedPublishers : e[1] = f.package
  \/ \E o \in c.severityOverride : o[1] = f.detector

(***************************************************************************)
(* Exit code 0 is accounted for: the engine answered, and each of its      *)
(* findings of WARN and above is spoken of by the configuration of the     *)
(* baseline.  One that changed with the diff is never passed over, even    *)
(* where --config-allow-in-diff applies it.                                *)
(***************************************************************************)
CleanExitAccountedFor ==
  code = 0 =>
    /\ raw # Absent /\ call.current \in {Absent, call.baseline}
    /\ \A f \in raw : Rank[f.severity] >= 2 =>
         call.current # Absent /\ Mentions(ConfigOf[call.current], f)

(***************************************************************************)
(* --fail-on names what fails a call at any severity: softening such a     *)
(* finding does not save the call, only ignoring its package or path does. *)
(***************************************************************************)
ForceSurvivesSoftening ==
  Answered =>
    \A f \in raw, id \in call.failOn :
      MatchesDetectorId(f.detector, id) => code = 2 \/ f \in DroppedOf(raw, decision.config)

(***************************************************************************)
(* What the preflight lets through, with the names of the files, the       *)
(* engine reads as well, without them: a lockfile that shows its kind in   *)
(* its contents can be scanned.  The exception is a requirements.txt,      *)
(* whose empty before-side is an empty text.                               *)
(***************************************************************************)
ScansReachTheEngine ==
  pc = "engine" /\ call.scan /\ call.after.sniffs => Comparable \/ call.after.kind = "requirements"

(***************************************************************************)
(* engine.ts:640: "P4c ecosystem dispatch: pypi uses the PyPI JSON API",   *)
(* npm packages come from npm.  The engine dispatches only where it is not *)
(* given an override, and the command line gives it one that knows npm.    *)
(***************************************************************************)
EachFromItsRegistry ==
  "npm" \in fetched => Ecosystem(call.after.kind) = "npm"
=============================================================================
