--------------------------- MODULE EngineAdapter ---------------------------
(***************************************************************************)
(* From what the engine reports to what the assurance oracles look at      *)
(* (assurance/src/runner/engine-adapter.ts): a finding is reduced to its   *)
(* capability class, its severity and what it is about, and every          *)
(* capability of a file and every install script and binary of a package   *)
(* counts as a finding.  Findings are a set here: the oracles sort them    *)
(* before they compare.                                                    *)
(***************************************************************************)
EXTENDS Sequences, SequencesExt

CATEGORY_TO_CLASS ==
    [NET |-> "net-egress", EXEC |-> "code-execution", CODE |-> "code-execution", FS |-> "fs-write",
     ENV |-> "env/secret-read", OBF |-> "obfuscation/decode", INSTALL |-> "persistence",
     META |-> "analysis-failed", DEPS |-> "dep-graph", INTEG |-> "integrity"]
SEVERITY_MAP == [BLOCK |-> "BLOCK", WARN |-> "FLAG", INFO |-> "INFO"]

\* The scripts npm runs when a package is installed or published; the list of
\* the same name in analyze.ts once more.
ADAPTED_HOOKS == {"preinstall", "install", "postinstall", "prepare", "preprepare", "postprepare",
                  "prepublish", "prepublishOnly", "publish", "postpublish", "prepack", "pack", "postpack"}

Adapted(class, severity, about) == [capabilityClass |-> class, severity |-> severity, reason |-> about]

AdaptFinding(f) ==
    Adapted(CATEGORY_TO_CLASS[f.category], SEVERITY_MAP[f.severity], <<f.detector>>)
AdaptFindings(fs) == {AdaptFinding(f) : f \in ToSet(fs)}

\* The engine's word that a package was blocked because it could not be read.
FindingsSignalFailSafe(fs) == \E f \in ToSet(fs) : f.detector = "analysis.failed"

\* One finding for each capability; the sources of one class are kept apart by
\* the label in front of what they found.
Labelled(class, label, things) == {Adapted(class, "INFO", <<label, x>>) : x \in things}

AdaptFileCapabilities(cap) ==
    IF ~cap.parsed THEN {Adapted("analysis-failed", "BLOCK", <<"parse error">>)}
    ELSE LET c == cap.found
         IN  Labelled("net-egress", "network module", c.networkModules)
             \cup Labelled("code-execution", "exec module", c.execModules)
             \cup Labelled("fs-write", "fs module", c.fsModules)
             \cup Labelled("net-egress", "URL literal", c.urlLiterals)
             \cup Labelled("obfuscation/decode", "encoded URL", c.encodedUrls)
             \cup Labelled("env/secret-read", "env access", c.envAccesses)
             \cup Labelled("code-execution", "dynamic code", {<<d>> : d \in c.dynamicCode})
             \cup Labelled("fs-write", "fs write target", c.fsWriteTargets)
             \cup Labelled("env/secret-read", "fs read target", c.fsReadTargets)
             \cup Labelled("obfuscation/decode", "suspicious literal", c.suspiciousLiterals)

\* The hooks of the package itself and of the packages it brings along, and the
\* binaries in it, come on top of what its files can do.
AdaptPackageSnapshot(snap) ==
    LET Hook(owner, h) == Adapted("persistence", "FLAG", <<owner, h>>)
        bundled == snap.bundledLifecycle
    IN  {Hook("package", h) : h \in snap.manifest.scripts \cap ADAPTED_HOOKS}
        \cup (UNION {{Hook("bundled", <<dep, h>>) : h \in bundled[dep] \cap ADAPTED_HOOKS} : dep \in DOMAIN bundled})
        \cup {Adapted("persistence", "INFO", <<"native", a.kind>>) : a \in ToSet(snap.nativeArtifacts)}
        \cup (UNION {AdaptFileCapabilities(f.capabilities) : f \in ToSet(snap.files)})
=============================================================================
