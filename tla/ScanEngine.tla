------------------------------ MODULE ScanEngine ------------------------------
(***************************************************************************)
(* runDiff of packages/core/src/engine.ts: the changes between two         *)
(* lockfiles become a set of package refs, a pool of workers fetches and   *)
(* analyzes each ref under two timeouts and an on-disk cache, and the      *)
(* report is assembled change by change, failure by failure, into one      *)
(* verdict.                                                                *)
(*                                                                         *)
(* A ref is identified by <<name, version>>, the key `name@version` of the *)
(* code's maps.  A change carries the resolved URL class of its two nodes. *)
(* What the detectors say of a pair of snapshots is a choice among the     *)
(* severities they can reach, since they are pure functions of contents    *)
(* this module does not represent.                                         *)
(***************************************************************************)
EXTENDS Integers, Sequences, FiniteSets, Functions

CONSTANTS
  Names, Versions, Integrities,
  NoIntegrity,       \* the empty integrity string: nothing is cached under it
  None,              \* null
  Workers,           \* the worker loops of one run
  Inputs,            \* what a run can be started on
  InitialCaches      \* what earlier runs left in the cache

Id == Names \X Versions

Kinds      == {"added", "removed", "upgraded", "integrity-changed"}
Resolved   == {"registry", "git", "file", "none"}
Ecosystems == {"npm", "pypi"}
Severities == {"INFO", "WARN", "BLOCK"}

ChangeType ==
  [kind : Kinds, name : Names,
   oldV : Versions \cup {None}, newV : Versions \cup {None},
   oldI : Integrities \cup {NoIntegrity, None},
   newI : Integrities \cup {NoIntegrity, None},
   oldResolved : Resolved, newResolved : Resolved]

RefType == [integrity : Integrities \cup {NoIntegrity}, resolved : Resolved]

\* A change names the sides its kind has, and a named side has an integrity.
WellFormed(c) ==
  /\ c \in ChangeType
  /\ c.kind # "removed" => c.newV \in Versions
  /\ c.kind = "integrity-changed" => c.newV = c.oldV
  /\ c.kind # "added" => c.oldV \in Versions
  /\ c.newV # None => c.newI # None
  /\ c.oldV # None => c.oldI # None

ASSUME NullAssumption ==
  /\ None \notin Versions \cup Names \cup Integrities \cup Id \cup RefType
  /\ NoIntegrity \notin Integrities
  /\ NoIntegrity # None

ASSUME WorkersAssumption == IsFiniteSet(Workers) /\ Workers # {}

ASSUME InputsAssumption ==
  \A in \in Inputs :
    /\ in.changes \in Seq(ChangeType)
    /\ \A k \in DOMAIN in.changes : WellFormed(in.changes[k])
    /\ in.override \in BOOLEAN
    /\ in.unlinkFails \in BOOLEAN
    /\ in.manifest \in [Id -> Id]

ASSUME CachesAssumption ==
  InitialCaches \subseteq [Integrities -> Id \cup {None}]

VARIABLES
  input,       \* the parsed lockfiles and the options of this run
  phase,       \* which loop of runDiff is running
  ci,          \* position of that loop
  refList,     \* refs.entries(): the ids in insertion order
  refOf,       \* refs: id -> ref, None when absent
  idx,         \* the shared cursor of the worker pool
  pc,          \* where each worker is
  cursor,      \* the position each worker claimed last
  res,         \* outcome a worker carries through its `finally` block
  cache,       \* integrity -> the package its snapshot describes
  puts,        \* background cache writes not finished yet
  late,        \* fetches that outlived their timeout
  temps,       \* temp tarballs on disk
  snapshots,   \* id -> the package the snapshot describes, None when absent
  failed,      \* analysisFailed: failed ids in insertion order
  findings,    \* the findings pushed so far
  named,       \* emittedFailPackages
  verdict      \* None until the run returns

refs == <<refList, refOf>>
pool == <<idx, pc, cursor, res>>
disk == <<cache, puts, late, temps>>
outcomes == <<snapshots, failed>>
report == <<findings, named, verdict>>
vars == <<input, phase, ci, refs, pool, disk, outcomes, report>>

-----------------------------------------------------------------------------
NewId(c) == <<c.name, c.newV>>
OldId(c) == <<c.name, c.oldV>>
Changes  == input.changes

Ref(w)       == refList[cursor[w]]
IntegrityOf(id) == refOf[id].integrity

\* The snapshot of an artifact carries the name and version of its manifest.
Analyzed(id) == input.manifest[id]

Finding(detector, package, from, to, direction, severity) ==
  [detector |-> detector, package |-> package, from |-> from, to |-> to,
   direction |-> direction, severity |-> severity]

LoopLength ==
  CASE phase \in {"collect", "detect", "failNew"} -> Len(Changes)
    [] phase = "failRest" -> Len(failed)
    [] OTHER -> 0

PhaseAfter ==
  [collect |-> "pool", detect |-> "failNew", failNew |-> "failRest", failRest |-> "surface"]

Init ==
  /\ input \in Inputs
  /\ phase = "parse" /\ ci = 1
  /\ refList = <<>> /\ refOf = [id \in Id |-> None]
  /\ idx = 1
  /\ pc = [w \in Workers |-> "free"]
  /\ cursor = [w \in Workers |-> 0]
  /\ res = [w \in Workers |-> None]
  /\ cache \in InitialCaches
  /\ puts = {} /\ late = {} /\ temps = {}
  /\ snapshots = [id \in Id |-> None] /\ failed = <<>>
  /\ findings = {} /\ named = {} /\ verdict = None

-----------------------------------------------------------------------------
(* Before the pool: parse both sides, collect one ref per name@version.    *)

Parse ==
  /\ phase = "parse"
  /\ phase' = IF input.oldEco = input.newEco THEN "collect" ELSE "rejected"
  /\ UNCHANGED <<input, ci, refs, pool, disk, outcomes, report>>

\* Both Map.set calls of one iteration: the new side, then the old side, which
\* replaces the ref of the new side when both have the same version.
HasNew(c) == c.kind # "removed" /\ c.newV # None
HasOld(c) == c.kind # "added" /\ c.oldV # None

RefTo(integrity, resolved) == [integrity |-> integrity, resolved |-> resolved]

WithNew(c, r) == IF HasNew(c) THEN [r EXCEPT ![NewId(c)] = RefTo(c.newI, c.newResolved)] ELSE r
WithOld(c, r) == IF HasOld(c) THEN [r EXCEPT ![OldId(c)] = RefTo(c.oldI, c.oldResolved)] ELSE r

ListNew(c) == IF HasNew(c) /\ refOf[NewId(c)] = None
              THEN Append(refList, NewId(c)) ELSE refList
ListOld(c, l, r) == IF HasOld(c) /\ r[OldId(c)] = None
                    THEN Append(l, OldId(c)) ELSE l

CollectRefs ==
  /\ phase = "collect" /\ ci <= Len(Changes)
  /\ LET c == Changes[ci] IN
       /\ refOf' = WithOld(c, WithNew(c, refOf))
       /\ refList' = ListOld(c, ListNew(c), WithNew(c, refOf))
  /\ ci' = ci + 1
  /\ UNCHANGED <<input, phase, pool, disk, outcomes, report>>

EndLoop ==
  /\ phase \in DOMAIN PhaseAfter
  /\ ci > LoopLength
  /\ phase' = PhaseAfter[phase] /\ ci' = 1
  /\ UNCHANGED <<input, refs, pool, disk, outcomes, report>>

-----------------------------------------------------------------------------
(* The worker loop and analyzeOne.                                         *)

Goto(w, from, to) == phase = "pool" /\ pc[w] = from /\ pc' = [pc EXCEPT ![w] = to]

Settle(w, outcome) ==
  IF outcome = "ok"
  THEN /\ snapshots' = [snapshots EXCEPT ![Ref(w)] = Analyzed(Ref(w))]
       /\ UNCHANGED failed
  ELSE /\ failed' = Append(failed, Ref(w))
       /\ UNCHANGED snapshots

\* Variant: the cursor is read but advanced only by the last worker.
ClaimWithoutAdvance(w) ==
  /\ idx <= Len(refList)
  /\ Goto(w, "free", IF IntegrityOf(refList[idx]) = NoIntegrity THEN "fetch" ELSE "lookup")
  /\ cursor' = [cursor EXCEPT ![w] = idx]
  /\ idx' = IF \E v \in Workers \ {w} : pc[v] = "free" THEN idx ELSE idx + 1
  /\ UNCHANGED <<input, phase, ci, refs, res, disk, outcomes, report>>

\* const cursor = idx++; past the end the worker returns.
Claim(w) ==
  /\ idx <= Len(refList)
  /\ Goto(w, "free", IF IntegrityOf(refList[idx]) = NoIntegrity THEN "fetch" ELSE "lookup")
  /\ cursor' = [cursor EXCEPT ![w] = idx]
  /\ idx' = idx + 1
  /\ UNCHANGED <<input, phase, ci, refs, res, disk, outcomes, report>>

Retire(w) ==
  /\ idx > Len(refList)
  /\ Goto(w, "free", "exited")
  /\ idx' = idx + 1
  /\ UNCHANGED <<input, phase, ci, refs, cursor, res, disk, outcomes, report>>

\* Variant: any snapshot stored under the integrity is a hit.
CacheHitByIntegrity(w) ==
  /\ Goto(w, "lookup", "free")
  /\ cache[IntegrityOf(Ref(w))] # None
  /\ snapshots' = [snapshots EXCEPT ![Ref(w)] = cache[IntegrityOf(Ref(w))]]
  /\ UNCHANGED <<input, phase, ci, refs, idx, cursor, res, disk, failed, report>>

\* A hit needs the cached snapshot to describe this very package.
CacheHit(w) ==
  /\ Goto(w, "lookup", "free")
  /\ cache[IntegrityOf(Ref(w))] = Ref(w)
  /\ snapshots' = [snapshots EXCEPT ![Ref(w)] = cache[IntegrityOf(Ref(w))]]
  /\ UNCHANGED <<input, phase, ci, refs, idx, cursor, res, disk, failed, report>>

\* cache.get answers null for an absent, unreadable or unauthentic entry.
CacheMiss(w) ==
  /\ Goto(w, "lookup", "fetch")
  /\ UNCHANGED <<input, phase, ci, refs, idx, cursor, res, disk, outcomes, report>>

\* fetchTarball leaves a temp file, whether the engine calls it or the
\* override does; an override resolves a file: URL to the file itself.
LeavesTemp(id) == ~input.override \/ refOf[id].resolved # "file"

FetchOk(w) ==
  /\ Goto(w, "fetch", IF input.override /\ input.newEco = "npm" THEN "gzip" ELSE "analyze")
  /\ temps' = IF LeavesTemp(Ref(w)) THEN temps \cup {Ref(w)} ELSE temps
  /\ UNCHANGED <<input, phase, ci, refs, idx, cursor, res, cache, puts, late,
                 outcomes, report>>

FetchFails(w) ==
  /\ Goto(w, "fetch", "free")
  /\ Settle(w, "failed")
  /\ UNCHANGED <<input, phase, ci, refs, idx, cursor, res, disk, report>>

\* Variant: only the engine's own fetch is raced against the timer.
FetchTimesOutUnlessOverridden(w) ==
  /\ ~input.override
  /\ Goto(w, "fetch", "free")
  /\ Settle(w, "failed")
  /\ late' = late \cup {Ref(w)}
  /\ UNCHANGED <<input, phase, ci, refs, idx, cursor, res, cache, puts, temps, report>>

\* withFetchTimeout stops waiting; the fetch itself goes on.
FetchTimesOut(w) ==
  /\ Goto(w, "fetch", "free")
  /\ Settle(w, "failed")
  /\ late' = late \cup {Ref(w)}
  /\ UNCHANGED <<input, phase, ci, refs, idx, cursor, res, cache, puts, temps, report>>

LateFetchEnds(id) ==
  /\ id \in late
  /\ late' = late \ {id}
  /\ \/ temps' = IF LeavesTemp(id) THEN temps \cup {id} ELSE temps
     \/ UNCHANGED temps
  /\ UNCHANGED <<input, phase, ci, refs, pool, cache, puts, outcomes, report>>

GzipOk(w) ==
  /\ Goto(w, "gzip", "analyze")
  /\ UNCHANGED <<input, phase, ci, refs, idx, cursor, res, disk, outcomes, report>>

GzipRejected(w) ==
  /\ Goto(w, "gzip", "free")
  /\ Settle(w, "failed")
  /\ UNCHANGED <<input, phase, ci, refs, idx, cursor, res, disk, report>>

\* The snapshot is written to the cache in the background, then `finally` runs.
AnalyzeOk(w) ==
  /\ Goto(w, "analyze", "cleanup")
  /\ puts' = IF IntegrityOf(Ref(w)) = NoIntegrity THEN puts ELSE puts \cup {Ref(w)}
  /\ res' = [res EXCEPT ![w] = "ok"]
  /\ UNCHANGED <<input, phase, ci, refs, idx, cursor, cache, late, temps, outcomes, report>>

\* The analysis threw.
AnalyzeFails(w) ==
  /\ Goto(w, "analyze", "cleanup")
  /\ res' = [res EXCEPT ![w] = "failed"]
  /\ UNCHANGED <<input, phase, ci, refs, idx, cursor, disk, outcomes, report>>

\* withTimeout gave up on it: its later result reaches neither map nor cache.
AnalyzeTimesOut(w) == AnalyzeFails(w)

\* finally: unlink the tarball unless the override owns it; a failing unlink is
\* swallowed.
Cleanup(w) ==
  /\ Goto(w, "cleanup", "free")
  /\ temps' = IF input.override \/ input.unlinkFails THEN temps ELSE temps \ {Ref(w)}
  /\ Settle(w, res[w])
  /\ res' = [res EXCEPT ![w] = None]
  /\ UNCHANGED <<input, phase, ci, refs, idx, cursor, cache, puts, late, report>>

PutLands(id) ==
  /\ id \in puts
  /\ puts' = puts \ {id}
  /\ cache' = [cache EXCEPT ![IntegrityOf(id)] = Analyzed(id)]
  /\ UNCHANGED <<input, phase, ci, refs, pool, late, temps, outcomes, report>>

PutFails(id) ==
  /\ id \in puts
  /\ puts' = puts \ {id}
  /\ UNCHANGED <<input, phase, ci, refs, pool, cache, late, temps, outcomes, report>>

\* Variant: the report starts with the first worker that returns.
PoolDoneEarly ==
  /\ phase = "pool"
  /\ \E w \in Workers : pc[w] = "exited"
  /\ phase' = "detect" /\ ci' = 1
  /\ UNCHANGED <<input, refs, pool, disk, outcomes, report>>

\* Promise.all over the workers.
PoolDone ==
  /\ phase = "pool"
  /\ \A w \in Workers : pc[w] = "exited"
  /\ phase' = "detect" /\ ci' = 1
  /\ UNCHANGED <<input, refs, pool, disk, outcomes, report>>

-----------------------------------------------------------------------------
(* The report.                                                             *)

HasNewSnapshot(c) == c.newV # None /\ snapshots[NewId(c)] # None
HasOldSnapshot(c) == c.oldV # None /\ snapshots[OldId(c)] # None

\* The detectors look at a pair only when the new snapshot is there; without
\* the old one they take the package for a first install.
DetectorFinding(c, severity) ==
  IF HasOldSnapshot(c)
  THEN Finding("detector", c.name, c.oldV, c.newV, "changed", severity)
  ELSE Finding("detector", c.name, None, c.newV, "added", severity)

IntegrityFinding(c) ==
  Finding("integrity.hash-mismatch", c.name, c.oldV, c.newV, "changed", "BLOCK")

\* Variant: a changed hash goes through the detectors like any change.
EmissionsOfDetectors(c) ==
  {{}} \cup {{DetectorFinding(c, s)} : s \in {t \in Severities : HasNewSnapshot(c)}}

\* What one iteration may push; the most severe finding of the detectors stands
\* for all of them.
Emissions(c) ==
  IF c.kind = "integrity-changed"
  THEN {{IntegrityFinding(c)}}
  ELSE {{}} \cup {{DetectorFinding(c, s)} : s \in {t \in Severities : HasNewSnapshot(c)}}

DetectChange ==
  /\ phase = "detect" /\ ci <= Len(Changes)
  /\ \E emitted \in Emissions(Changes[ci]) : findings' = findings \cup emitted
  /\ ci' = ci + 1
  /\ UNCHANGED <<input, phase, refs, pool, disk, outcomes, named, verdict>>

\* A detector that emits an invalid finding throws, and runDiff rejects.
DetectThrows ==
  /\ phase = "detect" /\ ci <= Len(Changes)
  /\ Changes[ci].kind # "integrity-changed" /\ HasNewSnapshot(Changes[ci])
  /\ phase' = "rejected"
  /\ UNCHANGED <<input, ci, refs, pool, disk, outcomes, report>>

FailureFinding(name, from, to, direction) ==
  Finding("analysis.failed", name, from, to, direction, "BLOCK")

\* One finding per package NAME: emittedFailPackages holds names.
EmitFailure(name, finding) ==
  IF name \in named
  THEN UNCHANGED <<findings, named>>
  ELSE findings' = findings \cup {finding} /\ named' = named \cup {name}

FailureOfChange ==
  /\ phase = "failNew" /\ ci <= Len(Changes)
  /\ LET c == Changes[ci] IN
       IF c.newV # None /\ NewId(c) \in Range(failed)
       THEN EmitFailure(c.name,
              FailureFinding(c.name, c.oldV, c.newV,
                             IF c.kind = "added" THEN "added" ELSE "changed"))
       ELSE UNCHANGED <<findings, named>>
  /\ ci' = ci + 1
  /\ UNCHANGED <<input, phase, refs, pool, disk, outcomes, verdict>>

\* Variant: failures are looked for among the new sides only.
FailureLeftDropped ==
  /\ phase = "failRest" /\ ci <= Len(failed)
  /\ ci' = ci + 1
  /\ UNCHANGED <<input, phase, refs, pool, disk, outcomes, report>>

FailureLeft ==
  /\ phase = "failRest" /\ ci <= Len(failed)
  /\ LET id == failed[ci] IN
       EmitFailure(id[1], FailureFinding(id[1], id[2], None, "changed"))
  /\ ci' = ci + 1
  /\ UNCHANGED <<input, phase, refs, pool, disk, outcomes, verdict>>

\* Workspace links, npm: aliases and non-registry sources of the new lockfile.
LinkFindings ==
  {Finding("deps.workspace-shadowing", l.name, None, None, "added",
           IF l.top THEN "BLOCK" ELSE "WARN") : l \in {k \in input.links : k.name # None}}

AliasFindings ==
  {Finding("deps.aliased-name", a.declared, None, a.version, "added", "WARN") :
     a \in {input.aliases[k] : k \in
             {j \in DOMAIN input.aliases : \A i \in 1..(j - 1) :
                <<input.aliases[i].declared, input.aliases[i].real>>
                  # <<input.aliases[j].declared, input.aliases[j].real>>}}}

\* The first change of each (name, class) speaks for the others.
SourceFindings ==
  LET listed == {k \in DOMAIN Changes :
                   /\ HasNew(Changes[k]) /\ Changes[k].newResolved \in {"git", "file"}
                   /\ \A j \in 1..(k - 1) :
                        ~ /\ HasNew(Changes[j]) /\ Changes[j].name = Changes[k].name
                          /\ Changes[j].newResolved = Changes[k].newResolved}
      source(c) ==
        IF c.newResolved = "git"
        THEN Finding("deps.non-registry-source", c.name, c.oldV, c.newV,
                     IF c.kind = "added" THEN "added" ELSE "changed", "WARN")
        ELSE Finding("deps.local-source", c.name, None, c.newV, "added", "INFO")
  IN  {source(Changes[k]) : k \in
         {j \in listed : Changes[j].newResolved = "git" \/ Changes[j].kind = "added"}}

Surface ==
  /\ phase = "surface"
  /\ findings' = findings \cup LinkFindings \cup AliasFindings \cup SourceFindings
  /\ phase' = "verdict"
  /\ UNCHANGED <<input, ci, refs, pool, disk, outcomes, named, verdict>>

HasSeverity(s) == \E f \in findings : f.severity = s

Publish ==
  /\ phase = "verdict"
  /\ verdict' = CASE HasSeverity("BLOCK") -> "BLOCK"
                  [] ~HasSeverity("BLOCK") /\ HasSeverity("WARN") -> "WARN"
                  [] findings # {} /\ ~HasSeverity("BLOCK") /\ ~HasSeverity("WARN") -> "INFO"
                  [] OTHER -> "CLEAN"
  /\ phase' = "done"
  /\ UNCHANGED <<input, ci, refs, pool, disk, outcomes, findings, named>>

-----------------------------------------------------------------------------
Fetch(w)   == FetchOk(w) \/ FetchFails(w) \/ FetchTimesOut(w)
Analyze(w) == AnalyzeOk(w) \/ AnalyzeFails(w) \/ AnalyzeTimesOut(w)
Lookup(w)  == CacheHit(w) \/ CacheMiss(w)
Gzip(w)    == GzipOk(w) \/ GzipRejected(w)

Work(w) == \/ Claim(w) \/ Retire(w) \/ Lookup(w) \/ Fetch(w)
           \/ Gzip(w) \/ Analyze(w) \/ Cleanup(w)

Background == \E id \in Id : LateFetchEnds(id) \/ PutLands(id) \/ PutFails(id)

Main == \/ Parse \/ CollectRefs \/ EndLoop \/ PoolDone
        \/ DetectChange \/ DetectThrows \/ FailureOfChange \/ FailureLeft
        \/ Surface \/ Publish

Next == Main \/ (\E w \in Workers : Work(w)) \/ Background

Spec == Init /\ [][Next]_vars

(***************************************************************************)
(* The event loop runs every continuation that is ready, and both timers   *)
(* fire; a fetch or an analysis itself may hang forever.                   *)
(***************************************************************************)
Fairness ==
  /\ WF_vars(Main)
  /\ \A w \in Workers :
       /\ WF_vars(Claim(w) \/ Retire(w) \/ Lookup(w) \/ Gzip(w) \/ Cleanup(w))
       /\ WF_vars(FetchTimesOut(w))
       /\ WF_vars(AnalyzeTimesOut(w))

FairSpec == Spec /\ Fairness

-----------------------------------------------------------------------------
(* Correctness.                                                            *)

PcValues == {"free", "lookup", "fetch", "gzip", "analyze", "cleanup", "exited"}
Phases   == {"parse", "collect", "pool", "detect", "failNew", "failRest",
             "surface", "verdict", "done", "rejected"}

TypeOK ==
  /\ input \in Inputs
  /\ phase \in Phases
  /\ ci \in Nat \ {0}
  /\ refList \in Seq(Id)
  /\ refOf \in [Id -> RefType \cup {None}]
  /\ idx \in Nat \ {0}
  /\ pc \in [Workers -> PcValues]
  /\ cursor \in [Workers -> Nat]
  /\ res \in [Workers -> {"ok", "failed", None}]
  /\ cache \in [Integrities -> Id \cup {None}]
  /\ puts \subseteq Id /\ late \subseteq Id /\ temps \subseteq Id
  /\ snapshots \in [Id -> Id \cup {None}]
  /\ failed \in Seq(Id)
  /\ named \subseteq Names
  /\ verdict \in Severities \cup {"CLEAN", None}

Active(w) == pc[w] \notin {"free", "exited"}
Settled(id) == snapshots[id] # None \/ id \in Range(failed)

(***************************************************************************)
(* Fail-closed (the REDTEAM S4 comment of engine.ts): a run in which any   *)
(* package failed to be fetched or analyzed, by an error or by a timeout,  *)
(* returns BLOCK, whatever the other packages and the detectors said.      *)
(***************************************************************************)
FailClosed == verdict # None /\ failed # <<>> => verdict = "BLOCK"

(***************************************************************************)
(* The engine keeps the promise of FailClosedRun: a package is asked for   *)
(* when its ref is collected, it answers when its worker settles it, and a *)
(* step of the pool, the cache or the report is a step of the promise or   *)
(* none at all.                                                            *)
(***************************************************************************)
Outcome ==
  [id \in Id |-> CASE id \in Range(failed) -> "failed"
                   [] id \notin Range(failed) /\ snapshots[id] # None -> "ok"
                   [] OTHER -> IF refOf[id] # None THEN "pending" ELSE "unasked"]

Tampered == \E k \in DOMAIN Changes : Changes[k].kind = "integrity-changed"

Promise == INSTANCE FailClosedRun WITH
             outcome <- Outcome, tampered <- Tampered,
             verdict <- IF phase = "rejected" THEN "rejected" ELSE verdict

KeepsPromise == Promise!Spec

(***************************************************************************)
(* A same-version hash change blocks the run, whether or not its artifact  *)
(* could be analyzed.                                                      *)
(***************************************************************************)
TamperBlocks == verdict # None /\ Tampered => verdict = "BLOCK"

(***************************************************************************)
(* The shared cursor hands every ref to one worker: no two workers are on  *)
(* the same ref, no ref fails twice or both fails and gets a snapshot, and *)
(* once the pool is done every collected ref has its outcome.              *)
(***************************************************************************)
SettledOnce ==
  /\ \A v, w \in Workers : v # w /\ Active(v) /\ Active(w) => Ref(v) # Ref(w)
  /\ \A i, j \in DOMAIN failed : failed[i] = failed[j] => i = j
  /\ \A id \in Range(failed) : snapshots[id] = None
  /\ phase \notin {"parse", "collect", "pool", "rejected"} =>
       \A id \in Id : refOf[id] # None => Settled(id)

(***************************************************************************)
(* Packages that share an integrity string never take each other's         *)
(* snapshot through the cache, whatever earlier runs left in it and in     *)
(* whatever order this run's background writes land: a snapshot is of the  *)
(* package's own artifact or says it is of this package.                   *)
(***************************************************************************)
CacheTransparent == \A id \in Id : snapshots[id] \in {None, id, Analyzed(id)}

(***************************************************************************)
(* Nothing of a package that failed is on its way to the cache: an         *)
(* analysis that was given up on must not be replayed as a clean hit.      *)
(***************************************************************************)
FailuresNotCached == \A id \in puts : id \notin Range(failed)

(***************************************************************************)
(* Every run returns or rejects although any fetch and any analysis may    *)
(* hang: the two timeouts free the worker each time.                       *)
(***************************************************************************)
Terminates == <>(phase \in {"done", "rejected"})

-----------------------------------------------------------------------------
(* Statements of comments and documents that the code does not keep.       *)

=============================================================================
