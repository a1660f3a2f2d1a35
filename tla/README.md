# TLA+ specifications of vetlock

vetlock compares two dependency lockfiles, fetches and statically analyzes the packages that
changed, and answers with a verdict (`CLEAN`, `INFO`, `WARN`, `BLOCK`) and a list of findings.
These modules specify it from the lockfile's document to the exit code: the parsers and the
changeset, the diff engine with its worker pool and the cache several runs share, extraction and
analysis of an artifact, the detectors and the escalation of their findings, the command line, the
pre-install gate, admission for agents, the HTTP service with its sandbox, and the harness that
tests all this under bounds. Paths below are relative to the repository root, `core/` stands for
`packages/core/src/`, and so on.

## The system

| Part | State it keeps | Operations | Interacts with |
|---|---|---|---|
| Lockfile parsers (`core/lockfile*.ts`) | none | text to graph, `shortestPaths` | engine |
| Changeset (`core/changeset.ts`) | none | `computeChangeset`, `pickClosest` | engine |
| Engine (`core/engine.ts`) | maps of one run: `refs`, `snapshots`, `analysisFailed`; cursor `idx`; findings | `runDiff`, `analyzeOne`, two timeout wrappers, `computeRollup`, `runScan` | all of core, detectors (callback), cache |
| Fetch (`core/fetch.ts`, `artifact-pypi.ts`) | temp tarballs | download, choice of a PyPI artifact | engine |
| Extraction and analysis (`core/extract.ts`, `analyze.ts`, `artifact-pypi.ts`, `adapter-pypi.ts`) | temp directory, writes in flight, first error | unpack under limits, walk, remove | engine |
| Capability extraction (`core/capabilities.ts`, `fold.ts`, `capability-pypi.ts`) | tables of one pass: folded constants, names | source to record | analysis |
| Cache (`core/cache.ts`) | key file, one entry file per integrity, key in memory | `get`, `put`, `getHmacKey` | engine, other processes |
| Configuration (`core/config.ts`, `config-trust.ts`) | none | `applyConfig`, `decideConfigApplication` | CLI |
| Detectors (`detectors/`) | none | `runAll`: predicates over a snapshot pair, then escalation | engine |
| CLI (`cli/cli.ts`) | none | `diff`, `scan`, `demo`; exit codes | engine (gives it a fetch override), configuration, git |
| Gate (`cli/commands/add.ts`, `guard.ts`) | allowlist file, shims on the PATH | `add`, `guard` | fetch, analysis, detectors, package manager |
| MCP (`mcp/admission.ts`, `server.ts`) | none between calls; receipts are with the agent | compare a package, evaluate a policy, issue and verify a receipt | fetch, analysis, node_modules |
| API (`api/server.ts`, `scan-queue.ts`) | limiter's timestamps, jobs | `POST /scan`, `GET /scan/:id`, sweep | engine |
| Sandbox (`api/sandbox.ts`, `scan-runner.ts`) | a directory, a child process and its output | one scan in a process of its own | engine |
| Assurance (`assurance/src`) | workers and children of a test run | bounded runner, adapter, oracles, generators | engine, extraction |

What is hard here: the pool's workers interleave at every `await` and share a cursor and three
maps; fetches and analyses that were given up on go on running; cache writes happen in the
background of the run that reads the same cache, and of other processes; the key file is created
by whichever process comes first; a process may die anywhere; API handlers wait for a body between
their limiter check and the queue; a scan's timer races its result, and sweeps race both; the files
of an archive are written while its next entries are parsed, and the stream may fail meanwhile; a
child's exit may be handled before the last of its output; the allowlist is rewritten without a
lock, shims are found through the PATH they are on, and what is installed changes while an agent's
request waits; a name may be put together in many ways and used before the declarations it is
built from are read; a configuration file that filters findings may be part of the change that
caused them. The rule that matters most is *fail closed*: a run that could not look at a package
must not come out clean.

## Modules

| Module | Models | Kind |
|---|---|---|
| `LockGraph` | the graph a parser makes | data |
| `LockSearch` | `shortestPaths`; what the provenance promises | state machine |
| `Lockfiles` | the parsers of npm, pnpm, yarn, requirements, poetry and uv, with the line reader of TOML | pure algorithm |
| `Changeset` | `computeChangeset`, `pickClosest` as operators | pure algorithm |
| `ChangesetCheck` | one `computeChangeset` call over any two graphs; what its result promises | properties |
| `LockfileDiff` | both lockfiles parsed and compared, paths searched in the new one, `computeRollup`; what the changes promise | composition, properties |
| `ScanEngine` | `runDiff`, `analyzeOne`, `withTimeout`, `withFetchTimeout`, `assertGzipTarball` | state machine |
| `FailClosedRun` | what a run promises: ask, answer, return | abstract specification |
| `SnapshotCache` | `makeCache`: `get`, `put`, `getHmacKey` | state machine |
| `Fold` | the constant folder `core/fold.ts` | pure algorithm |
| `Capabilities` | `extractCapabilities`: names, imports, dynamic code, environment, files, URLs | pure algorithm |
| `PythonCapabilities` | the line patterns of `capability-pypi.ts`, `setup.py` and `pyproject.toml` | pure algorithm |
| `TarballAnalysis` | `safeExtract` and `analyzeTarball` | state machine |
| `PypiAnalysis` | `fetchPypiArtifact`'s choice, wheel and sdist extraction, metadata, analysis | state machine |
| `Execution` | what a program loads and reads when it runs | reference semantics (external) |
| `Metamorphic` | the pairs of equivalent programs of `assurance/src/metamorphic` | data |
| `EngineAdapter` | findings and snapshots as the assurance harness sees them | pure algorithm |
| `AnalysisCheck` | what a snapshot promises about its archive | properties |
| `Detection` | `runAll` and every detector, over the facts of two snapshots | pure algorithm, as five steps |
| `CliRun` | `diff` and `scan`: flags, lockfile preflight, `loadConfigWithTrustCheck`, `decideConfigApplication`, `applyConfig`, exit code | state machine |
| `Allowlist` | `readAllowlist` and overlapping `guard --allowlist` commands | state machine |
| `InstallGate` | a command line through shell, shim, `vetlock add` and package manager; shims | state machine |
| `Admission` | an agent's request, policy and receipts | state machine |
| `GateAndAdmission` | `InstallGate` and `Admission` over one project | composition |
| `ScanService` | `RateLimiter`, `handleScanCreate`, `handleScanStatus`, `ScanQueue`, `DefaultScanBackend` | state machine |
| `SandboxRun` | `runScanInSandbox`, `runSubprocess` and the child's `main` | state machine |
| `Oracles` | the six oracles of the assurance harness | pure algorithm |
| `BoundedRun` | `runBounded` and `runBoundedInProcess` with worker and child | state machine |
| `DiffProofs` (`LockfileDiff`, `ChangesetCheck`, `LockSearch` and `CliRun`), `ScanEngineProofs`, `SnapshotProofs` (`AnalysisCheck` and `SnapshotCache`), `DetectionProofs`, `GateProofs`, `ScanServiceProofs`, `SandboxRunProofs`, `BoundedRunProofs` | theorems about these modules | proofs |
| `MCLockfileDiff`, `MCScanEngine`, `MCSnapshotCache`, `MCAnalysis`, `MCDetection`, `MCCliRun`, `MCInstallGate`, `MCScanService`, `MCSandboxRun`, `MCBoundedRun` | instances for TLC | model values |

Compositions: `LockfileDiff` runs `Changeset` and `LockSearch` on what `Lockfiles` parses. `MCScanEngine` runs
`ScanEngine` on the changes `ComputeChangeset` makes of two lockfile graphs, so the engine only
meets changesets the code can produce. `ScanEngine` instantiates `FailClosedRun` as `Promise` and
is checked, and proved, to implement it. `PypiAnalysis` extends `TarballAnalysis`, and both put
the records of `Capabilities` and `PythonCapabilities` into snapshots. `GateAndAdmission` lets the
gate's package manager change the node_modules the agent's request reads. `BoundedRun` takes its
outcomes through `EngineAdapter` to `Oracles`, as `AnalysisCheck` takes a snapshot through the
adapter.

A definition whose comment starts with `Variant:` is not part of the specification. It is the
definition below it with a plausible mistake in it (a dropped guard, a swapped order), and records
which mistake the property named in `PROJECT.json` under `mutants` catches.

### LockGraph, LockSearch, Lockfiles, LockfileDiff

A graph is a sequence of nodes, its order the insertion order of the code's `Map`. Node keys are
tuples: the path of an npm entry, a name with its suffix for the flat formats, `<<>>` for the
root. `Rollup` is `computeRollup`, `CollectSubtree` the stack of `collectSubtree`.

`LockSearch` is the loop of `shortestPaths`, an action for each way through its body: `Stop` and
`Arrive` are the two `break`s, `Pass` is the `continue` for a node that was expanded at a shorter
length, `Expand` queues the children. A path is the names below the root. In `LockfileDiff` a
search starts in the graph of any new lockfile at any of its keys (`SearchNew`): `runDiff` only asks
for keys of changed packages, and the search sees nothing of the change but the key. As it reads
neither the old lockfile nor the changes, a behaviour either compares or searches.

A lockfile is the document its reader returns: entries in file order, with the fields a parser
looks at; readers of JSON, YAML and yarn's format are libraries. The TOML of poetry and uv is read
line by line by the code itself, so `ParseSimpleToml` is too: headers, arrays of tables, dotted
headers that belong to the last table of an array, multi-line lists. Names are numbers, with
`Lower` and `Canonical` for normalization. The loops of the parsers are recursive functions over
the positions of the file: `Inserted` adds one node after the other, `Joined` one line to those
collapsed so far, `Read` lets each line act on the tables read so far.

`LockfileDiff` describes a lockfile of poetry or uv by its packages, and `TextOf` writes the lines
the two tools write for them: the hash in a list, in tables `[[package.files]]`, in the inline table
`sdist`, or nowhere (what poetry takes from a directory), dependencies in a table or a list.
`IsLockfile` says what the readers of the other formats return, without any bound on the entries.
`DiffLockfiles` compares two lockfiles of one ecosystem; `runDiff` throws for a pair of two
(`EcosystemOf`).

### Changeset

A node's key is its position. Versions are numbers in string order and `Coerce` says what
`semver.coerce` makes of them, so that two versions may coerce to one and some to none. Collapsing
of several positions of one `name@version` (last one wins, first one keeps its place in the map) is
modelled by `FirstKey` and `LastKey`. The stable sorts are written as what they come to:
`ComputeChangeset` puts each change where as many others come `Before` it, `Highest` and `Lowest`
are what a sort by coerced version leaves last and first. `localeCompare` in the final sort is
taken to be the order of versions; the result is compared as a set except where order matters to
the engine.

`CompareSpec` is one comparison of any two graphs (`IsGraph`), and what the theorems about the
changeset are about. `LockfileDiff` compares what the parsers made of two lockfiles, which is proved
to implement `CompareSpec` (`DiffIsComparison`).

### ScanEngine

`phase` and `ci` are the program counter of `runDiff`: `collect` (164-189), `pool` (199-218),
`detect` (222-280), `failNew` (291-315), `failRest` (316-335), `surface` (337-481), `verdict`
(483-517). `pc[w]` is where worker `w` is in `analyzeOne`; a worker gives way at each `await`.

- `Claim` and `Retire` are `idx++` and the test after it.
- `CacheHit` needs the cached snapshot to bear the ref's name and version; `CacheMiss` is always
  possible since `get` may answer null for any entry (see `SnapshotCache`).
- `FetchOk`, `FetchFails`, `FetchTimesOut`, `LateFetchEnds` are the outcomes of a fetch and of one
  that outlived `AbortSignal.timeout`. `GzipOk` and `GzipRejected` only happen to npm overrides.
- `AnalyzeOk`, `AnalyzeFails`, `AnalyzeTimesOut` and `Cleanup` are the `try` and `finally` around
  the analysis, for npm and PyPI. `PutLands` and `PutFails` are the background cache write.
- The detectors are a callback. They are pure functions of two snapshots, so `DetectChange` lets
  them say anything; the most severe finding of a package stands for all of them. They may throw
  (`DetectThrows`: an invalid finding), and then `runDiff` rejects.

The manifest inside an artifact names its own package and version, so a snapshot is represented by
the identity it claims (`Analyzed`); `input.manifest` may make an artifact claim another identity.

### SnapshotCache

Each call of `get` or `put` is a task; each `await` in the code separates two steps. Files that
are open for writing are inodes and hold `Torn` until the write is over; `rename` moves an inode.
`CreateKey`/`FillKey` are `O_EXCL` open and write, `TruncateKey`/`FillKey` are the in-place
regeneration of a short key file. `Crash` ends a process between two steps. The MAC is ideal: it
verifies exactly when it was made with that key over that data. Temp names contain the process id
and the millisecond, hence `Stamps`.

### Fold, Capabilities, PythonCapabilities, Execution

A text is a sequence of pieces that the code never takes apart; concatenation is `\o` and a decoder
maps the pieces one by one. A syntax tree is made of nodes with a kind, a text and children in the
order of the traversal. `TryFold` is the folder, `Declare` one of its up to five passes over the
declarations, `FoldedVars` what the last pass knows when it enters a statement. `Capabilities` has one
operator per question of the visitors: `NamesAt` what a name stands for when a place is visited,
`ImportsOf`, `DynamicOf`, `EnvOf`, `FileOp`, `LiteralUrls` and `OutermostFolds` what is recorded
there. `PythonCapabilities` has the line patterns, over lines of names, calls and literals that
stand in the code, in a docstring or in a comment.

`Execution` is what the records are held against: which modules a program loads and which
environment keys it reads. It runs the statements in order, with functions called at the end, and
lets a name hold what was assigned to it by then, be it a text, a module, `process` or its
environment. Only for the value of a single expression of texts does it share `TryFold`, with what
the names really hold in place of the folder's table.

### TarballAnalysis, PypiAnalysis

One action per event: `OnEntry` for the parser's entry handler with its refusals, then per file
`MakeDir`, `CollectData`, `AddTotal`, `WriteFile`, each of which may fail (`JobFails`) while later
entries arrive; `StreamEnds` and `StreamFails`; `Settled`, the wait for what is in flight; `Analyze`
or `AnalysisThrows`; `Cleanup` or `Abandon`. A path is a sequence of segments and a content a
record of what the analysis asks of it; its hash is itself.

`PypiAnalysis` follows the other branch of `analyzeOne`. A wheel's entries come one by one
(`WheelEntry`), an sdist's as above, except that data is collected in memory before a file is put
into its directory, that a file past its limit is written as far as it was read (`CutShort`), and
that a stream's failure does not wait for what is under way (`PypiAbandon`, `LateWrite`).
`MetadataFound` keeps the order in which the code tries the metadata: that of an info directory, of
whichever is listed last when there are several, else `METADATA`, else `PKG-INFO`. What
`pyproject.toml` and `setup.py` add are parameters (`EntryPointsIn`, `ScriptsIn`), which the run takes
from `PythonCapabilities`.

### Detection

A snapshot is a set of facts `[k, at, v, c]`: kind, place (file, script, dependency), value, context.
What a detector collects from a snapshot is then `Values` or `Places` of a kind, and "new in this
version" is a set difference, as it is in the code. A package that is not there has no facts, and
`dir` tells an added package from a changed one. A finding is its detector, category and severity,
what it is about (`of`) and, for dynamic code, the kind that the escalations look up in its
provenance. `Detect`, `Fallback`, `RaiseObf`, `RaiseTyposquat` and `RaiseCompound` are the parts of
`runAll` in their order; all findings of a pair carry the same package name, so the code's grouping
by package is one group. Which names are near popular ones, which paths are hot and which addresses
disposable are data. `obf.image-decode-exec` is left out: it looks for image files among the analyzed
ones, where `analyzeTarball` never puts any. A snapshot is a finite set of facts in which every
analyzed file has one hash and only analyzed files are minified or suspicious (`IsSnapshot`).

One detector looks at an order: `install.self-publish-shape` compares the first target that is a
`package.json` with the old version's, in the order of `snap.files` and, within a file, of `sort()`
(`ManifestTarget`, `SameShape`). `ManifestRank` is the latter. The former is the order in which the
writes of the extraction ended (`extract.ts:277`), so each side of a pair has any order of its own
(`oldOrder`, `newOrder`). A dynamic-code fact is a site; `SiteKey` is what versions are compared by, as
several sites may share a line. Dependency specs are compared as they are and classified apart
(`PlainHttp`, `ForeignHttps`). `ScriptFiles` stands for the two patterns of script names in `net.ts:147`
and `obf-js-mangler.ts:65`: they differ in `.mts` and `.cts`, which `analyze.ts:164` does not analyze.
`ScanEngine` does not use this
module: there a detector may say anything, so what holds of the engine holds of these detectors.

### CliRun

One behaviour is one call of the command; `call` holds its flags and the files it finds, and `pc`
the part of the handler that comes next. Every early return and every throw is an action of its
own (`RejectFlags`, `ReadFails`, `ConfigFails`, `EmptyFails`, `PreflightFails`, `EngineThrows`),
so that its exit code is part of the model. A lockfile text is its kind and the ways in which that
kind can be told: by name, by contents. `.vetlock.json` is a name in `ConfigOf`; the working tree's
and the baseline's are compared by that name as the code compares hashes. The engine is external
and returns any of `Reports`, since what is of interest is what happens to a finding afterwards;
`FetchOverride` is the callback the engine is given. Rendering, progress and the remap of
directions in scan mode are left out: nothing that leads to the exit code reads them.

### Allowlist, InstallGate

One command line of a developer is followed from the shell's `Lookup` along its PATH through the
`Shim` (which passes through with its directory taken off the PATH, or calls `vetlock add` with the first
spec) to `AddAllowlist`, `Fetch`, `Analyze`, `ReadInstalled`, `Decide` and the second look-up that
ends at `PackageManager`. `vetlock add` typed by hand starts at the same place. Meanwhile `Publish`
moves the registry's `latest`, `WriteShim`, `ChmodShim` and `UnlinkShim` are `guard` processes, and
`Allowlist` has two more that read, change, truncate and write the allowlist, or `Die`. What an
analysis finds is any set of severities.

### Admission, GateAndAdmission

A request's steps are the awaits of `analyzePackageInstall`: `AnalyzeNew`, `ReadInstalled`,
`FetchOld`, `AnalyzeOld`, `Compare`. `Issue` is `issue_admission_receipt` with what the agent was
told, under any policy; `Alter` changes a receipt's text. Hashes are ideal, so a receipt verifies
exactly when its identifier was made from its text. `SharedSpec` interleaves an agent with the gate.

### ScanService

A request passes `RejectHeaders`, then `PassLimiter` or `RateLimit`, waits for its body, then
`RejectBody` or `Enqueue`. A job's backend ends (`BackendEnds`), is given up on (`TimesOut`) and may
end later without effect (`LateEnds`). The limiter's timestamps of an address are the requests
that made them; `Fresh` is what the filter leaves of them. `Sweep` is the interval timer; `Enqueue` sweeps as well.
`GetResult` is `GET /scan/:id`. `Tick` is the clock; it does not pass a timer that is due.

### SandboxRun, BoundedRun

Both run something in a process (or thread) that may hang, die, fill its pipe or answer in parts,
and both turn the events they hear into one outcome. Node queues `data` and `exit` apart, so an
exit may be handled while chunks are in the pipe. `SandboxRun` has the parent's steps (`MakeDir`,
`WriteLockfiles`, `TearDown` and the handlers) and the child's (`ReadLockfiles`, `Fetch`,
`FinishScan`, `WriteAnswer`, `Exit`, `Crash`); `Verdict` is what `finalize` makes of code and
output. `BoundedRun` has a worker's message, error and exit, a child's line of output among what
the engine prints, and the timer that terminates either; what the engine answers to a scenario is
given with the scenario. `PassIsEarned` compares what `Oracles` say of the outcome with what they
would say of what the scenario itself came to.

## Runs

| Run | Checks | Bounds and why they suffice |
|---|---|---|
| `lockfiles` | nothing a lockfile pins is lost, provenance paths are real, complete and shortest, hoisting is irrelevant, swapping sides mirrors the result, upgrades start from the closest version, node keys lead to the package they stand for | one package at up to 3 positions in 5 versions (string order differs from semver order, two coerce to one, one cannot be parsed), two packages with two hashes at up to 2 positions, all pairs, as the changeset looks at one name at a time; every dependency graph of a small install tree and of a flat project, searched for each of its keys step by step; in each other format all lockfiles of up to 2 entries with every field the parser branches on, pairs of different formats, and of different ecosystems, which are refused (504 thousand states) |
| `lockfiles_rollup` | violated: the summary of a direct dependency misses what hangs below the second version of a package | as `lockfiles` |
| `engine` | fail-closed, tamper blocks, each ref settled once, cache transparent, implements `FailClosedRun`, terminates | 2 workers, 8 inputs: shared integrity with a lying manifest, two versions of one package failing on the old side, a changed hash under an override, git/file/link/alias sources, no change, mixed ecosystems, wheels with and without override; one entry cached, one not (a lookup may always miss). Two workers and three refs give every race over the cursor |
| `cache` | hits sound, no torn entry, established key kept | 3 calls in 2 processes, 2 integrities, 2 milliseconds; key file absent, short or complete; entries of this and of another install, one under a wrong name. Three calls are enough for a creator, a regenerator and a reader (1.2 million states) |
| `analysis` | a snapshot matches its archive, a record accounts for what a run does, equivalent sources agree | 515 artifacts: npm tarballs with every kind of entry and every refusal, wheels and sdists likewise, programs that put a name together in each of 11 ways and use it in each way the visitors know, hoisted uses, the metamorphic pairs, Python lines of each pattern in code, docstring and comment. Limits of 3 entries, 2 bytes each and 3 in all are one less than the archives that break them; up to three files are in flight together. `MAX_PASSES` is 3 instead of 5: the programs need at most 3 |
| `detection` | one more capability never lowers the verdict; a second escalation changes nothing; a first install is judged no milder than an upgrade; an upgrade without news is silent | about 109,000 pairs: all pairs of versions over ten themes of 5 to 8 related facts, manifest writes of two targets in two files under both orders of the files on each side, which bring each detector to both sides of each of its branches, and mixtures of up to 5 facts (added) or 3 (changed) from 16 of all categories, enough for every condition of the three escalations and the fallback |
| `cli` | an untrusted configuration is inert, alarms reach the exit code, exit code 0 is accounted for, `--fail-on` outlives softening, a scan the preflight lets through reaches the engine | all pairs of lockfiles over 7 kinds, named or not, recognizable or not, sound or not; all pairs of 9 configurations (each entry of the schema, two with several, one malformed) as working tree and baseline, with and without `--config-allow-in-diff` and `--fail-on`; engine reports of up to two of 7 findings. The configuration acts on one finding at a time and the exit code on the gravest, so two suffice to have one hide behind the other |
| `cli_fetch` | violated: packages of a Python lockfile are fetched from the npm registry | as `cli` |
| `gate` | installs are vetted, receipts are bound, trust is stated, commands end | 2 packages in 2 versions, 3 specs, 7 command lines, 2 set-ups of the PATH, 2 allowlist commands at a time, one request and one receipt under 4 policies. One command meets every state of shims, registry and allowlist; an agent meets it only through node_modules (415 thousand states) |
| `service` | rate limit over every window, retention, outcomes final, every accepted scan gets an outcome | 3 requests of one address, limit 2 per 2 ticks, queue of 1, timeout 1, retention 2, clock up to 6: one request more than the limiter and the queue admit, and time for each to expire. The limiter looks at one address at a time |
| `sandbox` | an ok is a complete scan, no process is left, the caller gets an answer | answers of up to 3 chunks, a cap of 2 and a pipe of 2: an answer may pass the cap, fill the pipe, arrive in parts (1055 states) |
| `runner` | no oracle passes on a run that did not earn it, every run resolves | 110 starts: every kind of scenario with each answer the engine may have for it, in a worker and in a child; answers of 1 or 2 chunks, of which the exit may overtake either (10,754 states) |

`MCInstallGate` restricts what interleaves so that TLC ends: the allowlist's writers step where a
command reads it (`AllowlistWhereRead`), an agent where a command installs, which is all the two
share (`AgentWhereInstalled`), and the second package is not installed at the start. The theorems
of `GateProofs` are about `SharedSpec`, without these restrictions.

Symmetry is used only in `cache`, which has no liveness property, over the calls of one process
and the milliseconds, which the specification does not tell apart. Deadlock is not checked since
every run of the modelled programs ends, or has nothing left to do.

Fairness. Everywhere, what the program itself has scheduled happens and nobody else owes anything:

- `engine`: the event loop runs every ready continuation and both timers fire (`setTimeout` and
  `AbortSignal.timeout`); no fetch and no analysis is assumed to end.
- `service`: the clock advances, the interval timer runs and the scan timer fires; no client and no
  backend is assumed to do anything.
- `sandbox`: the parent's steps and its timer; not the child's, nor any event from it.
- `runner`: the timer fires, and a worker or child that is terminated ends.
- `gate`: processes that were started run (`Lookup`, `Shim`, `Add`, `PackageManager`, as one
  condition); nobody has to type, publish or guard.

## What the runs show to differ from the documentation

1. `runDiff` fetches Python packages from PyPI unless it is given an override. The CLI always gives
   it one, and that one fetches everything but `file:` URLs from npm (`cli_fetch`).
2. `computeRollup` is said to gather all findings reachable through a direct dependency. It marks
   packages as seen by name, so what only the second version of a package depends on is missing
   (`lockfiles_rollup`).

Seen while modelling, without a run of their own:

Engine, changeset, cache:

- Which of two failed versions of a package is reported depends on which worker ended first,
  although the README promises byte-identical findings (`engine.ts:317`).
- `refs` is keyed by `name@version`, not by `(name, version, integrity)` as the comment above it
  says; on a same-version hash change the new artifact is not fetched. `TamperBlocks` shows that
  the verdict is `BLOCK` all the same.
- `semver.coerce` drops prerelease tags, so the order of prerelease and final release that the
  comment in `pickClosest` relies on is not there.
- A process that reads the key file between another one's creating and writing it replaces the
  key, so one install works under two keys until the next start, although the README speaks of one
  per install. `GetSound` shows that this costs cache hits, never a wrong one.
- `riskScore` and the rollup are the engine's, computed before the CLI filters the findings.

Lockfiles:

- `firstPypiHash` does not see an `sdist` that uv writes as an inline table, the `[metadata.files]`
  of poetry 1.1 is not read, and only the first hash of a requirement is kept.
- pnpm's `/name/version` keys (version 5) are dropped; the dependencies of every version of a name
  are given to its first node. Roots of pnpm, yarn, poetry and uv have no edges, nor has an npm
  root without a name, so there is no provenance to show.
- The search for provenance drops a chain in which a name repeats, even if another version is
  meant. This is why `PathsAreProvenance` asks for completeness only where names occur once.
- The header of the requirements parser says that `-e` and URL references are recorded with an
  empty version; lines that start with `-` are skipped. `===` counts as unpinned.
- An entry of yarn with several aliases is found only under the first of them.

Analysis:

- In `fold.ts` number plus number folds as text, `Buffer.from` with an encoding in a variable as
  utf8, and a name takes the value of its first foldable declarator in whatever scope.
- An alias of `process` used in code the walk visits before the declaration, destructuring or
  enumeration through an alias, and `process['env'].X` are not recorded; nor is an unresolved
  argument of `require.apply`, `mainModule.require` or `Module._load`. `RecordAccountsForRun` is
  therefore about the remaining ways, which `MCAnalysis` lists.
- No detector reads `parseError`. The contexts of a URL differ for `http.request` and
  `http['request']`.
- Of two entries with one path, each record has its own hash and both the capabilities of what was
  written last; hence `OnePathEach`.
- When an archive ends in the middle of an entry, that entry never ends, and the wait for what is
  in flight lasts until the engine's timeout.
- The Python patterns miss the second module of `import a, b`, imports after `;`, aliases of
  modules, `from os import environ`, computed or lower-case keys, and a URL alone on its line.
  The claim about Python is worded accordingly.
- `adapter-pypi.ts:45` says that temp files are cleaned up even on a throw: when an sdist is
  refused, writes still under way may make its directory again, and with `localArtifact` the
  temporary copy stays. `SnapshotMatchesArchive` leaves the refused sdist out. An integrity that does not match is
  ignored (`artifact-pypi.ts:121`), and which metadata file is taken may depend on the order of a
  directory's listing.

Detectors:

- `install.self-publish-shape` (`install-self-publish-shape.ts:59-66,95`) takes the first manifest
  write it meets, so one more write, in a file that comes earlier, can restore the target the old
  version had and silence the finding that the later write alone gives: `m.js` wrote `package.json`
  and now writes `./package.json`, a `WARN`; with `a.js` writing `package.json` before it, nothing. This is
  the exception `RestoresTarget` of `MoreIsNeverMilder`. As the order of `snap.files` is that in which
  the writes of the extraction ended, the finding can also come and go between two analyses of the
  same archives, although the README promises byte-identical findings (`README.md:240`).
- `install.bundled-lifecycle` is reported at `BLOCK` for hooks the old version has as well, although
  the README says that capabilities in both versions never fire. This is its exception in
  `NoNewsIsSilent`.
- In `manifest-deps-http.ts` the buckets of dependencies are merged before they are compared, so a
  peer or optional entry hides the URL of a normal one, and removing that entry makes the URL look
  new. This is why `NoNewsIsSilent` has an exception for it and `MoreIsNeverMilder` leaves
  dependencies out. The comment there also names the `dev` bucket, which is not read.
- In `net.ts` an occurrence of a URL without a context (a file that did not parse) counts less than
  one in a comment, so a comment elsewhere makes the finding `INFO`, against the comment at line 29
  ("no basis for downgrading"). This is why `MoreIsNeverMilder` leaves URLs out.

CLI and configuration:

- `trustedPublishers` is looked for in evidence that names the publishers who left as well as
  those who came, so a trusted one who is replaced makes the finding `INFO`; the comment at the
  head of `config.ts` speaks of the new maintainer.
- `runDiff` is called by the CLI without the file names its preflight uses, so `scan` of a
  `requirements.txt` fails on the empty before-side, whose kind cannot be told from its contents,
  and a lockfile that only its name identifies passes the preflight and is then refused.
  `ScansReachTheEngine` therefore speaks of texts that show their kind.
- `--fail-on` accepts only what starts with the id of a registered detector; `integrity.hash-mismatch`,
  the README's example, is refused. An unknown id and `-` as a file end in exit code 1, the code of
  a `WARN` verdict.
- Removing `.vetlock.json` in a change gives no finding: without a file there is nothing to compare.
- Tarballs the CLI's override downloads are not removed by anyone (`fetch.ts`: "Caller unlinks when
  done").
- The README's example of a `.vetlock.json` has `allowedRegistries`, which the strict schema
  refuses, and its `config.in-diff-allowed` is called `config.in-diff-untrusted` in the code.
- The default of `--config-baseline-ref` is `HEAD`, so a configuration committed together with a
  change is its own baseline.

Gate and admission:

- The shim hands `vetlock add` the first spec only, and no flags; a flag with a value of its own
  before the subcommand is taken for the subcommand. With `binDir` set and `VETLOCK_SHIM_DIR` not
  exported, or written with a trailing slash, the shim finds itself again; `MCSetups` has the default
  and what `guard --install-shim` prints.
- `latest` may move between analysis and install, the exception in `InstallsAreVetted`. Overlapping
  allowlist commands lose updates; `TrustIsStated` is about what is added. Dependencies of the
  installed package are not gated. A package manager's own exit code 3 reads like a block.
- Receipts bind texts to each other and are not signed; what `issue_admission_receipt` is given is
  the agent's word. An old version that cannot be fetched makes the request an error, whereas
  `vetlock add` then treats the package as new. `failClosed` matters only with findings of a
  lockfile comparison, since a failed analysis of a package is an error too.

Service, sandbox, harness:

- `packages/api/src/server.ts:55` says that stale addresses fall out of the limiter's map; `check`
  only touches the entry of the calling address and never leaves it empty.
- `packages/api/README.md:44` promises 410 for a scan past its retention; the sweep deletes the job,
  and from then on the answer is 404.
- `sandbox.ts:77` and `:103`: an exit handled before the last output turns a complete answer into a
  failure, and tarballs a killed child downloaded stay under `~/.cache/vetlock`. The head of
  `scan-runner.ts` describes a permission flag the parent does not pass. Nothing connects
  `runScanInSandbox` to `ScanQueue`.
- `child-entry.ts` says that its `extractCapabilities` handler mirrors the worker's; the branch for
  files that do not parse is missing. An error that speaks of memory is `oom` in a worker and a
  crash in a child. `types.ts` says that `reason` is not compared; the identity oracle compares it.
  A `SIGABRT` counts as `oom`, which the fail-safe oracle accepts.

## Proofs

Each theorem holds for every value of its module's constants under the module's named assumptions,
which TLC evaluates in the runs. TLC had found each property and each invariant below to hold
before it was proved.

`ChangesetCheck`, for graphs of any size, any versions and any coercion. Assumed: versions are
numbers and what has no value is none (`CoerceAssumption`).

| Theorem | Property | Argument |
|---|---|---|
| `KeysAreHeld` | `KeysHoldTheirPackage` | `NewSide`, `OldSide`, `UpgradeSide`: a key is the last place of the package it is made for; `NewSideDetermines`: two changes with one new side are one change |
| `UpgradesStartClosest` | `UpgradeFromClosest` | `PickCases`: the three ways in which `pickClosest` answers, each with what bounds its answer |
| `SwapsAreSymmetric` | `SwapSymmetric` | each of the four sets of changes, from its definition with the graphs exchanged |
| `HoistingIsIrrelevant` | `HoistingIrrelevant` | `SameContents`: two graphs with the same packages and hashes have the same changes up to keys, since `pickClosest` does not look at places unless two versions tie (`PicksTheSame`) |
| `NewArtifactsAreReported` | none of its own; the step from graphs to changes in `LockedArtifactsAreReported` below | each package of the new graph that the old one lacks, or has with another hash, is in one of the sets of changes (`NothingIsLost`) |

All of them rest on `RangeOfResult`: the result lists all changes and nothing else. `Before` orders the
changes of two graphs (`BeforeIsOrder`, since the new side determines a change and the old side a
removed one), the changes are finitely many, and in a finite ordered set every rank is taken
(`SortedByRank`, by induction on the rank).

`LockSearch`, for graphs of any size that list no dependency twice (`IsLockGraph`; the parsers put
them into a `Set`).

| Theorem | Property | Argument |
|---|---|---|
| `PathsAreReal` | `PathsAreProvenance` | `SearchInv`, below |

`SearchInv` says of the queue and the results: each is a chain of dependencies from the root in which
no name comes twice (`Real`); the queue holds at most two lengths, in order, and none shorter than the
results (`InLevels`, `OneLength`); the length in `seen` is that of such a chain (`SeenReal`). Where no
name has two versions it says besides that no path begins another one or comes twice (`Apart`), that
the results are shortest (`FoundShortest`), and that every shortest chain is among the results or
still has a beginning in the queue, unless there are three results (`Complete`). The last is what a
skipped node may break: that it breaks nothing rests on `CutToWay`, by which whatever reaches a node
can be cut to a chain without repetitions that is no longer, so a node that was seen closer to the
root lies on no shortest chain (`PassesRight`). With two versions of one name this fails, since the
chains avoid names and not nodes. `ChainsAre` relates these chains to the property's, which are made
length by length.

`LockfileDiff`, for lockfiles of all six formats with any number of entries in any order, any names
and any normalization of them. Assumed: normal forms are numbers and `None` is no name
(`NamesAssumption`); a lockfile of a world is one of the documents `IsLockfile` describes, and its
graph is not `None` (`WorldsAssumption`). That the parsers return graphs is not assumed but
proved.

| Theorem | Property | Argument |
|---|---|---|
| `LockedArtifactsAreReported` | `EveryLockedArtifactReported` | `ParsedTells`: the graph of a lockfile has the packages it pins, with their versions and hashes, and no others; then `DiffIsComparison` and `NewArtifactsAreReported` |
| `DiffIsComparison` | `DiffSpec => CompareSpec` | `DiffInv`, and `ParsedTells`: what is compared are graphs of named, versioned packages |
| `DiffIsSearch` | `DiffSpec => SearchSpec` | `ParsedTells`: no parser lists a dependency twice (`DedupedDeps`, `FirstOfDeps`) |
| `DiffPathsAreReal` | `PathsAreProvenance`, of the lockfiles | `DiffIsSearch` and `PathsAreReal` |

`ParsedTells` has one lemma for each parser (`NpmTells`, `PnpmTells`, `YarnTells`,
`RequirementsTell`, `PypiTells`). The flat formats share `InsertedIs`: every entry gets a node of
its own, with the entry's name, version and hash and not under the root's key. For poetry and uv
there is the text in between. `BlocksAreRead` takes it one package at a time: `Collapses` says which
lines are left of a package once its multi-line lists are joined, with nothing open after it;
`Turns` says what lines make of the table of the last package, wherever the reader's insertion point
is, and leaves the tables before it alone. `PoetryWritten` and `UvWritten` put the two together for
each place a hash may be in, and `TomlIsRead` adds what stands before and after the packages. What
makes this an induction is that the table of one package is never touched again once the header of
the next one is read: `OpenArray` appends, `OpenTable` and a dotted header reach the last table only
(`LastPackage`). The variant `OpenFlatArray`, in which a dotted header opens an array of its own, is
where the hashes get lost. Inductions run over the positions of a recursive function
(`InsertedRuns`, `JoinedRuns`, `ReadRuns`: a proof that the function has the value its defining
equation gives; `...More`: it depends on the entries so far only).

`ScanEngine`, for any names, versions, integrities, inputs, caches and any finite non-empty set of
workers. Assumed: `None` is no value of the data, every change is well-formed (a named side has an
integrity), caches hold package identities.

| Theorem | Property | Argument |
|---|---|---|
| `TypeCorrect` | `TypeOK` | with `InRange`: a worker between claim and settle has a position inside `refList` |
| `RunFailsClosed` | `FailClosed` | `ReportInv`: what `failNew` and `failRest` have passed is in `findings` as `BLOCK`, by name; `failed` does not change any more |
| `TamperedRunBlocks` | `TamperBlocks` | `ReportInv`: every changed hash `detect` has passed is in `findings` |
| `EveryRefSettledOnce` | `SettledOnce` | `PoolInv`: `refList` lists each collected id once, claimed positions are distinct and below `idx`, each position below `idx` is settled or held by a worker, exited workers imply `idx` past the end |
| `NoFailureIsCached` | `FailuresNotCached` | `PoolInv`: what is put was analyzed by the worker that still holds it or has settled it |
| `CacheIsTransparent` | `CacheTransparent` | `PoolInv`: a snapshot is stored by a hit for this id, or by an analysis of this id |
| `EngineKeepsPromise` | `KeepsPromise` | from `TypeOK`, `PoolInv` and `ReportInv`: every step is an `Ask`, `Answer`, `Return`, `Reject` of `FailClosedRun`, or leaves it unchanged |

The invariants are needed because none of the properties is inductive: that `failed` is in the
findings at the end says nothing of a state in which the loops have not run, and a claim is exclusive
only because the cursor is beyond every position claimed so far.

`SnapshotCache`, for any calls in any processes, integrities and entries that lie there. Assumed:
keys, tasks and entries are told apart (`TasksAssumption`), and a key that is made is none that
exists (`KeysAreFresh`).

| Theorem | Property | Argument |
|---|---|---|
| `HitsAreSound` | `GetSound` | `EntriesGenuine`: whatever an entry's inode holds, a put of this integrity wrote it or it lay there; `KeysOurs`: a key that verifies is one of this install |
| `OldKeyIsKept` | `EstablishedKeyKept` | `OldKeyStays`: while there is an old key no call is where a key is made |
| `NamesLeadToWholeEntries` | `NoTornEntry` | `TempsWhole`: while temp names are distinct, a name leads to its own writer's inode, and one that is renamed has been filled |

`AnalysisCheck`, for any archives and releases, any limits and any reading of a file
(`CapabilitiesIn`, `EntryPointsIn` and `ScriptsIn` are parameters). Assumed: the limits and the sizes
of files are numbers, a path has a first segment, a wheel's entries are of the types a zip has
(`ArchivesAssumption`, `ReleasesAssumption`).

| Theorem | Property | Argument |
|---|---|---|
| `SnapshotsMatchTheirArchive` | `SnapshotMatchesArchive` | `AnalysisInv`: `TarballInv` for npm; for PyPI, `Unfetched` until an artifact is chosen and `PypiInv` from then on |

The parts of the two invariants answer each other. `Accepted`: how far each entry is, what it has
passed by then, and that without an error none was dropped. `Measured`: without an error the total
is the number of bytes of the files that were counted. `Held` and `ListedOnce`: the directory and
the list hold exactly the files written so far, whatever order they were written in. `Phased`:
nothing is under way once the directory is read. `SnapshotTaken`: the snapshot is that of the
archive's files. For PyPI the same parts hold only `OnTrack`, that is without an error and before
the artifact fails: what an sdist still has under way then may be written into a directory that has
been removed, or stay unwritten. A wheel is never in that position, which is why only the sdist may
leave files behind. Its entries also end in another way, since data past a limit is cut and written,
and that error is the one that keeps the cut file out of every snapshot.

None of what is promised is inductive: that a snapshot is whole says nothing of a directory that is
being filled. `ExtractedWhole` and `PypiWhole` are where the parts meet: with every entry handed
over, none in flight and no error, every file is on disk. That the list has as many entries as the
archive has files is counted by a bijection (`OneForEachFile`), and `PersistenceIsSeen` carries what
runs by itself through the adapter of the harness.

`Detection`, for any two snapshots of any size. Assumed: snapshots as above (`WorldsAssumption`), an
entropy is a number (`EntropyAssumption`), an empty spec is no URL (`UrlAssumption`). That the orders of
files and targets have no ties (`OrdersAssumption`, `RankAssumption`) is not needed. Every property of the run `detection` is proved.

| Theorem | Property | Argument |
|---|---|---|
| `EscalationIsComplete` | `EscalationSettled` | a finding an escalation raises is a `BLOCK` and stays one; after the last one either nothing was raised or no `WARN` is left (`NoneLeft`), and without one no escalation applies |
| `UpgradesWithoutNewsAreSilent` | `NoNewsIsSilent` | nothing is fresh (`NothingFresh`), so all but the four exceptions report nothing; escalations keep detectors (`EscalateQuiet`) |
| `CapabilitiesOnlyAggravate` | `MoreIsNeverMilder` | `LessReported`: where the package with the capability has no `BLOCK`, each detector reports without it a part of what it reports with it; where another hook becomes the first, and `SelfPublishShape` looks at another script, that hook is a `BLOCK` of its own (`NewFirstHook`); where the old version had the shape with the target found, no write but one that `RestoresTarget` leaves out changes that target (`SameTarget`) |
| `InstallingIsNoMilder` | `FirstInstallNoMilder` | `AnewCovers`: where the installation has no `BLOCK`, its findings cover those of the upgrade, under other severities of the lifecycle scripts only when these are `BLOCK` |

The two comparisons of verdicts cannot go escalation by escalation, because one escalation takes
from the next what it counts. They go through two notions instead. A set of findings is *calm* when
it has no `BLOCK` and no escalation raises one of its findings; escalation leaves it as it is
(`CalmStays`), and what has no `BLOCK` in the end was calm in the beginning (`WithoutBlockIsCalm`).
A set *covers* another one when that can be mapped into it one to one, each finding to one of its
category, severity and code. What a calm set covers is calm (`CoveredIsCalm`, which compares counts
by injections), hence no graver (`CoveredIsNoGraver`); where the covering set is not calm its
verdict is `BLOCK`, and nothing is graver. Counting needs finite sets, hence the sweep over all detectors that
ends in `DetectorsReport`: each reports finitely many findings under its own names.

`ScanService`, for any requests, addresses, limits and times (`TimesAssumption`: the timeout is
shorter than the retention).

| Theorem | Property | Argument |
|---|---|---|
| `RateIsLimited` | `RateLimited` | `LimiterInv`: whatever passed less than a window ago is on record (`RecentOnRecord`), so a request that may pass makes no window exceed the limit (`WindowsBounded`, over all windows and not only the one that ends now) |
| `ResultsAreKept` | `KeptForRetention` | `PendingRuns`: a pending scan's timer is never late, so its record outlives it, and a settled one expires a retention after it was settled |
| `OutcomesAreFinal` | `OutcomeFinal` | `AnswersStand`: what a client was told is still on record, or the record has left the queue |

`SandboxRun`, for answers, caps and pipes of any size.

| Theorem | Property | Argument |
|---|---|---|
| `OkIsACompleteScan` | `OkIsComplete` | `HeardIsWritten`: what was heard is a part of what was written, that a part of one answer; `EndedIsDead`: a code is that of the process that wrote it |
| `NoProcessOutlivesItsScan` | `NoProcessLeft` | `WaitingForOutcome`: once there is an outcome the process is gone or killed |

`BoundedRun`, for any scenarios and answers of any size. Assumed: the engine's `analysis.failed` is a
`BLOCK`, and what a scenario comes to is not `None` (`ScenariosAssumption`).

| Theorem | Property | Argument |
|---|---|---|
| `PassesAreEarned` | `PassIsEarned` | `CallInv`: what a scenario came to is there before a message or an answer is, and if it gave up it has a `BLOCK` (`CallIsSound`); `OutcomeInv`: an outcome is that, or a crash or a bound without findings, which no oracle takes for more |

`CliRun`, for any calls, configurations, reports, detector ids and lockfiles. Assumed: a report is a
set of well-formed findings, an override names a severity, `Absent` is none of the values. Every
property of the run `cli` is proved.

| Theorem | Property | Argument |
|---|---|---|
| `TypeCorrect` | `TypeOK` | `ApplyConfig` maps findings to findings (`Rewritten`, `SeverityTyped`) |
| `UntrustedIsInert` | `UntrustedConfigIsInert` | the decision is the default configuration, which mentions no finding (`UnmentionedIsKept`), and a `BLOCK` of its own |
| `AlarmsAreHeard` | `AlarmsReachTheExit` | `AlarmIsKept`: none of the three ways to soften a finding, nor the filters, applies to it |
| `CleanIsAccountedFor` | `CleanExitAccountedFor` | what is not mentioned is kept, and what is kept at `WARN` or above shows in the code (`CodeOfFindings`) |
| `ForceSurvives` | `ForceSurvivesSoftening` | a rewritten finding keeps its detector |
| `ScansAreRead` | `ScansReachTheEngine` | `Preflighted`: both texts parsed under their names, and the synthesized one has the kind of the input |

Their invariant, `Inv`, carries through the steps what the last one relies on: the decision is the
one for this call's two texts (`Decided`), findings are filtered once and only with it
(`FilteredOnce`), a call without an answer has no findings and ends in 1 or 3 (`NoAnswerYet`).

`GateAndAdmission`, for any packages, versions, policies, command lines and any number of allowlist
processes, requests and receipts.

| Theorem | Property | Argument |
|---|---|---|
| `InstallsWereVetted` | `InstallsAreVetted` | `CommandInv`: what has happened to the command at each place it may be in; a command that bypasses the shim installs one spec, which is allowlisted or vetted (`Cleared`), and while it is on its way only `latest` can move (`VettedSpec`) |
| `TrustHasAReason` | `TrustIsStated` | `ListInv`: what a command holds, and what the file lists unless it is torn, is stated; one that removes alone is overlapped by nobody |
| `ReceiptsSpeakOfOneComparison` | `ReceiptsAreBound` | `AgentInv`: an analysis holds what the detectors report of its own artifact against its own installed version (`Faithful`), a receipt's identifier stands for what was issued (`Issued`); with the lemmas `Decisions`, `MoreFindings` and `NormalizedTwice` on policies |

Assumed of the command lines besides: what they ask to install is a spec, and `None`, flags and
subcommands are none (`LinesAssumption`, `SpecsAssumption`, `NoneAssumption`).

Only model-checked: the liveness properties `Terminates`, `AcceptedScanSettles`, `AlwaysReturns`,
`AlwaysResolves` and `CommandsEnd`, which are out of the prover's reach, and two invariants about
walks over programs, `RecordAccountsForRun` and `EquivalentSourcesAgree`. These are recursive
operators over syntax trees, and neither holds of every program: the first is about the ways to
put a name together that the visitors know (see the gaps under "Analysis" above), the second about
the pairs the harness generates, so a theorem would say no more than the run does.

## Plan

What would add most, in this order:

1. The composition of `ScanService` with `SandboxRun` as its backend, once the code connects them.
2. A syntax of programs for which `RecordAccountsForRun` holds in general, so that it can be proved by
   induction over programs instead of checked on those of `MCAnalysis`.
3. The `--status` of `guard`, `demo`, and the coverage gate of the harness.

## Not modelled

`runScan` of the engine: the CLI has its own copy, `SynthesizeEmptyLockfile` of `CliRun`. The
readers of JSON, YAML, yarn's format, tar, zip and gzip, parsing of JavaScript, and regular
expressions beyond what they tell apart here. Summaries of wasm files, entropy, the minified flag,
mangled names and homoglyphs, lines and snippets: functions of a file's text that nothing reads
back, and which `Detection` takes as facts. Report renderers, corpus builders, measurement scripts
and the GitHub Action. `PROJECT.json` lists every component with its status.
