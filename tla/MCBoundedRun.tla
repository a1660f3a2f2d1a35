---------------------------- MODULE MCBoundedRun ----------------------------
(***************************************************************************)
(* BoundedRun for TLC: every kind of scenario, with each answer the engine *)
(* may have for it.                                                        *)
(***************************************************************************)
EXTENDS BoundedRun

MCFinding(category, severity, detector) ==
    [category |-> category, severity |-> severity, detector |-> detector]
MCNothing == [networkModules |-> {}, execModules |-> {}, fsModules |-> {}, urlLiterals |-> {},
              encodedUrls |-> {}, envAccesses |-> {}, dynamicCode |-> {}, fsWriteTargets |-> {},
              fsReadTargets |-> {}, suspiciousLiterals |-> {}]
MCSteals == [MCNothing EXCEPT !.envAccesses = {"TOKEN"}, !.dynamicCode = {"eval"}]
MCFiles == {[parsed |-> FALSE], [parsed |-> TRUE, found |-> MCNothing], [parsed |-> TRUE, found |-> MCSteals]}

MCReports ==
    {<<>>,
     <<MCFinding("ENV", "WARN", "env.new")>>,
     <<MCFinding("META", "BLOCK", "analysis.failed")>>,
     <<MCFinding("CODE", "INFO", "code.dynamic"), MCFinding("META", "BLOCK", "analysis.failed")>>}

MCSnapshot(file) ==
    [manifest |-> [scripts |-> {"postinstall", "test"}], bundledLifecycle |-> [dep |-> {"install"}],
     nativeArtifacts |-> <<[kind |-> "wasm"]>>, files |-> <<[capabilities |-> file]>>]

Scenario(kind, givens) == {[kind |-> kind, given |-> g] : g \in givens}

MCScenarios ==
    LET engine == Scenario("engine:parseLockfileText", {"parsed", "UnsupportedLockfileError", "other"})
                  \cup Scenario("engine:runDiff", {[throws |-> t, findings |-> f] : t \in BOOLEAN, f \in MCReports})
                  \cup Scenario("engine:extractCapabilities", MCFiles)
                  \cup Scenario("engine:analyzeTarball",
                                {[throws |-> t, snapshot |-> MCSnapshot(f)] : t \in BOOLEAN, f \in MCFiles})
        own == Scenario("synthetic:normal", {{}, {Adapted("secret-read", "FLAG", <<"given">>)}})
               \cup Scenario("synthetic:fail-safe", {"given"})
               \cup Scenario("synthetic:crash", {"plain", "oom"})
               \cup Scenario("synthetic:hang", {"none"}) \cup Scenario("synthetic:oom", {"none"})
               \cup Scenario("synthetic:v8-abort", {"none"})
    IN  engine \cup own
=============================================================================
