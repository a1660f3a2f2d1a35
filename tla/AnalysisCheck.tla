--------------------------- MODULE AnalysisCheck ---------------------------
(***************************************************************************)
(* What a snapshot promises about the archive it was made from.            *)
(***************************************************************************)
EXTENDS PypiAnalysis, EngineAdapter

CONSTANTS
    EffectsOf,        \* program -> [loads, reads], what it does when it runs (Execution)
    Watched,          \* form of code -> the modules that are recorded when loaded
    Pairs             \* pairs of programs that mean the same (Metamorphic)

\* Where each entry goes.
Paths == [i \in DOMAIN archive |-> CASE kind = "wheel" -> Entry(i).path
                                    [] kind = "sdist" -> SdistPath(i)
                                    [] OTHER -> RelPath(i)]

\* What an archive runs by itself: the install scripts of its manifest and of
\* the packages it brings along, and its binaries.
PersistenceIn(files) ==
    LET manifest == ManifestAt(files, <<"package.json">>)
        Hooks(m) == m.scripts \cap {"preinstall", "install", "postinstall"}
    IN  {Adapted("persistence", "FLAG", <<"package", h>>) : h \in Hooks(manifest)}
        \cup (UNION {{Adapted("persistence", "FLAG", <<"bundled", <<b, h>>>>) :
                        h \in Hooks(ManifestAt(files, InnerManifest(b)))} : b \in manifest.bundled})
        \cup {Adapted("persistence", "INFO", <<"native", Extension(p)>>) :
                p \in {q \in DOMAIN files : Extension(q) \in NativeKinds}}

\* What a PyPI snapshot holds of its archive.
PypiSnapshotMatches(files) ==
    LET analyzed == {p \in DOMAIN files : IsPythonSource(p)}
        native == {p \in DOMAIN files : Extension(p) \in DOMAIN PypiBinaryKinds}
    IN  /\ snapshot.manifest \in PypiManifests(files)
        /\ RecordedOnce(files, analyzed, native)
        /\ \A f \in ToSet(snapshot.files) :
              f.capabilities \in {NotRead, CapabilitiesIn[<<Last(f.path), files[f.path]>>]}

\* A returned snapshot covers its wheel or sdist.  Whatever ends leaves no file
\* behind, but for an sdist that is refused, and no artifact that was downloaded.
PypiIsCovered ==
    /\ phase \in {"returned", "rejected"} =>
            /\ temp = release.local
            /\ phase = "returned" \/ kind = "wheel" => disk = <<>> /\ dirs = {} /\ InFlight = {}
    /\ phase = "returned" /\ OnePathEach(Paths) =>
            /\ WithinLimits
            /\ \A i \in DOMAIN archive :
                  \/ RefusalAt(i, Paths[i]) = NoError
                  \/ Entry(i).type = "Directory" /\ (kind = "wheel" \/ Paths[i] = <<>>)
            /\ PypiSnapshotMatches(ArchivedFiles(Paths))

\* A returned snapshot covers its archive: the archive is within every limit,
\* and each analysed file and each binary of it is recorded once, with the hash
\* and the capabilities of its own content and under the archive's own
\* manifest, and nothing that runs by itself is missing from what the harness
\* sees of it.  Whatever ends leaves nothing behind (extract.ts safeExtract,
\* analyze.ts analyzeTarball, artifact-pypi.ts extractPypiArtifact: writes run
\* on their own time and may fail after the last entry was read).
SnapshotMatchesArchive ==
    /\ kind = "npm" =>
            /\ TarballIsCovered
            /\ phase = "returned" /\ OnePathEach(RelPaths) =>
                  PersistenceIn(ArchivedFiles(RelPaths)) \subseteq AdaptPackageSnapshot(snapshot)
    /\ kind \in {"wheel", "sdist"} => PypiIsCovered

\* The files of a returned snapshot that are code.  Of two entries with one
\* path each is recorded with its own hash and with what was written last.
CodeFiles ==
    IF phase # "returned" \/ ~OnePathEach(Paths) THEN {}
    ELSE {f \in ToSet(snapshot.files) :
            f.capabilities.parsed /\ f.sha256.form \in {"code", "python"} /\ Extension(f.path) # "json"}

\* A module also counts as recorded if a load is recorded as decided at run
\* time, a key if all keys are recorded; nothing else will do for a name that
\* is not known before the run.
Accounts(found, file) ==
    LET effects == EffectsOf[file.program]
        recorded == found.networkModules \cup found.execModules \cup found.fsModules
    IN  /\ \A m \in effects.loads :
            \/ found.dynamicCode \cap {"dynamic-require", "dynamic-import"} # {}
            \/ m # {} /\ m \cap Watched[file.form] \subseteq recorded
        /\ \A k \in effects.reads :
            k \in found.envAccesses \/ {} \in found.envAccesses

\* Running a file does nothing its record does not account for: each watched
\* module it loads and each environment key it reads is recorded, if the name is
\* put together in a way fold.ts knows and used through an alias the visitors
\* follow, in whichever order the declarations come (capabilities.ts
\* extractCapabilities over fold.ts).  For Python this is claimed of imports
\* that stand first on their line and name one module and of literal keys in
\* capitals (capability-pypi.ts extractPythonCapabilities).
RecordAccountsForRun == \A f \in CodeFiles : Accounts(f.capabilities.found, f.sha256)

\* Two files that mean the same are reported the same: the pairs of
\* assurance/src/metamorphic, seen through engine-adapter.ts, whose first file
\* is a.js and second b.js of one archive.
EquivalentSourcesAgree ==
    \A f, g \in CodeFiles :
        (/\ f.path = <<"a.js">> /\ g.path = <<"b.js">>
         /\ \E pair \in Pairs : pair[1] = f.sha256.program /\ pair[2] = g.sha256.program)
        => AdaptFileCapabilities(f.capabilities) = AdaptFileCapabilities(g.capabilities)
=============================================================================
