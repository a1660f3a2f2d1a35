---------------------------- MODULE InstallGate ----------------------------
(***************************************************************************)
(* The pre-install gate: `vetlock add' (packages/cli/src/commands/add.ts)  *)
(* and the shims of `vetlock guard' (guard.ts).                            *)
(*                                                                         *)
(* One command line of the developer is followed from the shell's look-up  *)
(* of the package manager, through the shim, `vetlock add' and the look-up *)
(* that `vetlock add' makes in turn, to the package manager's own end.     *)
(* Meanwhile the registry may publish a version, and other `vetlock guard' *)
(* processes install or remove shims and rewrite the allowlist.            *)
(***************************************************************************)
EXTENDS Allowlist, Integers, Sequences

CONSTANTS
  Pms,         \* the package managers there are shims for
  LastVersion,
  Specs, NameOf, VersionOf,  \* package specs; a version, or Latest
  Lines,       \* the command lines that are typed
  Setups       \* how the developer's shell is set up

Versions == 1..LastVersion
Latest   == 0   \* the dist-tag

\* A command line is a sequence of words.  Flags take no value of their own.
IsFlag(w) == w \in {"-D", "-q"}

\* Where a line has words that are no flags: the first is its subcommand, the
\* others are what it is about.
Bare(line)       == {i \in DOMAIN line : ~IsFlag(line[i])}
First(places)    == CHOOSE i \in places : \A j \in places : i <= j
Subcommand(line) == IF Bare(line) = {} THEN None ELSE line[First(Bare(line))]
About(line)      == {i \in Bare(line) : \E j \in Bare(line) : j < i}

ASSUME PmsAssumption == "npm" \in Pms /\ Pms \subseteq {"npm", "pnpm", "yarn"}

ASSUME SpecsAssumption ==
  /\ LastVersion \in Nat
  /\ NameOf \in [Specs -> Packages] /\ VersionOf \in [Specs -> Versions \cup {Latest}]
  /\ Specs \cap {"-D", "-q", "install", "i", "add"} = {}

ASSUME NoneAssumption ==
  /\ None \notin Packages \cup Specs \cup Pms \cup Int
  /\ None \notin {"install", "i", "add", "BLOCK", "WARN", "INFO", "CLEAN"}
  /\ None \notin [pkg : Packages, version : Int, old : Int \cup {None},
                  verdict : {None, "BLOCK", "WARN", "INFO", "CLEAN"}]

\* Whatever a line asks to install is a package spec.
ASSUME LinesAssumption ==
  \A line \in Lines :
    /\ DOMAIN line \subseteq Nat
    /\ Subcommand(line) \in {"install", "i", "add"} => \A i \in About(line) : line[i] \in Specs

\* binDir: where the shims are; exported: what VETLOCK_SHIM_DIR says, if set;
\* path: PATH.  "home" is $HOME/.vetlock/bin and "real" holds the real binaries.
ASSUME SetupsAssumption ==
  \A s \in Setups : /\ s.binDir \in {"home", "custom"}
                    /\ s.exported \in {"home", "custom", "unset"}
                    /\ s.path \in Seq({"home", "custom", "real"})

VARIABLES
  \* the machine and the registry
  setup, shims, nodeModules, latest, moved,
  \* the command
  pc, pm, argv, path, bypass, spec, flags, allowlisted, vetted, shimmed, ran, exitCode

machine == <<setup, shims, nodeModules, latest, moved>>
command == <<pc, pm, argv, path, bypass, spec, flags, allowlisted, vetted, shimmed, ran,
             exitCode>>
vars    == <<machine, listVars, command>>

Init ==
  /\ ListInit
  /\ setup \in Setups
  /\ shims \in [Pms -> {"absent", "executable"}]
  /\ nodeModules \in [Packages -> Versions \cup {None}]
  /\ latest \in [Packages -> Versions] /\ moved = {}
  /\ pc = "prompt" /\ pm = None /\ argv = <<>> /\ path = <<>> /\ bypass = FALSE
  /\ spec = None /\ flags = [force |-> FALSE, dry |-> FALSE]
  /\ allowlisted = FALSE /\ vetted = None /\ shimmed = FALSE
  /\ ran = {} /\ exitCode = None

End(code) == pc' = "over" /\ exitCode' = code

-----------------------------------------------------------------------------
(* The shell and the shim.                                                 *)

\* The developer types `pm args'.
TypeLine ==
  /\ pc = "prompt"
  /\ pc' = "lookup" /\ pm' \in Pms /\ argv' \in Lines
  /\ path' = setup.path
  /\ UNCHANGED <<machine, listVars, bypass, spec, flags, allowlisted, vetted, shimmed, ran,
                 exitCode>>

\* The developer types `vetlock add spec', or a script does with flags.
TypeAdd ==
  /\ pc = "prompt"
  /\ pc' = "add" /\ spec' \in Specs
  /\ flags' \in [force : BOOLEAN, dry : BOOLEAN]
  /\ path' = setup.path
  /\ UNCHANGED <<machine, listVars, pm, argv, bypass, allowlisted, vetted, shimmed, ran,
                 exitCode>>

\* The shell skips files without the executable bit.
Provides(d) == d = "real" \/ (d = setup.binDir /\ shims[pm] = "executable")

Lookup ==
  /\ pc = "lookup"
  /\ LET found == SelectSeq(path, Provides)
     IN  IF found = <<>> THEN End(127) /\ UNCHANGED shimmed
         ELSE IF Head(found) = "real" THEN pc' = "pm" /\ UNCHANGED <<shimmed, exitCode>>
         ELSE pc' = "shim" /\ shimmed' = TRUE /\ UNCHANGED exitCode
  /\ UNCHANGED <<machine, listVars, pm, argv, path, bypass, spec, flags, allowlisted, vetted, ran>>

ShimDir == IF setup.exported = "unset" THEN "home" ELSE setup.exported

\* Variant: the default directory is dropped, whatever was exported.
StrippedHome == SelectSeq(path, LAMBDA d : d # "home")

\* awk drops every entry that is literally the shim directory.
Stripped == SelectSeq(path, LAMBDA d : d # ShimDir)

\* yarn has no short form.
IsInstall(w) == w \in {"install", "add"} \cup (IF pm = "yarn" THEN {} ELSE {"i"})

PassThrough == path' = Stripped /\ pc' = "lookup" /\ UNCHANGED spec

\* `vetlock add "$spec" --pm "$PM_NAME"' for an install that names a package.
Shim ==
  /\ pc = "shim"
  /\ IF bypass \/ ~IsInstall(Subcommand(argv)) \/ About(argv) = {}
     THEN PassThrough
     ELSE pc' = "add" /\ spec' = argv[First(About(argv))] /\ UNCHANGED path
  /\ UNCHANGED <<machine, listVars, pm, argv, bypass, flags, allowlisted, vetted, shimmed, ran,
                 exitCode>>

-----------------------------------------------------------------------------
(* runAddCommand.                                                          *)

\* By the lockfiles of the working directory.
DetectPackageManager(lockfiles) ==
  CASE "pnpm" \in lockfiles -> "pnpm"
    [] "pnpm" \notin lockfiles /\ "yarn" \in lockfiles -> "yarn"
    [] OTHER -> "npm"

\* --pm, which the shim gives, or else what is detected.
Kinds == IF pm = None THEN {DetectPackageManager(l) : l \in SUBSET Pms} ELSE {pm}

\* shellOutToPm: the package manager's name is looked up again, in the
\* same PATH, with VETLOCK_GUARD_BYPASS set and `latest' left to it.
ShellOutToPm ==
  /\ pc' = "lookup" /\ pm' \in Kinds /\ bypass' = TRUE
  /\ argv' = <<"install", spec>>

AddAllowlist ==
  /\ pc = "add"
  /\ allowlisted' = (NameOf[spec] \in ReadAllowlist)
  /\ IF ~allowlisted'
     THEN pc' = "fetch" /\ UNCHANGED <<pm, bypass, argv, exitCode>>
     ELSE IF flags.dry THEN End(0) /\ UNCHANGED <<pm, bypass, argv>>
     ELSE ShellOutToPm /\ UNCHANGED exitCode
  /\ UNCHANGED <<machine, listVars, path, spec, flags, vetted, shimmed, ran>>

\* Variant: a package that cannot be fetched is none of the gate's business.
FetchFailOpen ==
  /\ pc = "fetch"
  /\ ShellOutToPm
  /\ UNCHANGED <<machine, listVars, path, spec, flags, allowlisted, vetted, shimmed, ran, exitCode>>

FetchFails ==
  /\ pc = "fetch"
  /\ End(3)
  /\ UNCHANGED <<machine, listVars, pm, argv, path, bypass, spec, flags, allowlisted, vetted,
                 shimmed, ran>>

\* What the registry answers for a version or a tag.
Resolves(s) == IF VersionOf[s] = Latest THEN latest[NameOf[s]] ELSE VersionOf[s]

Fetch ==
  /\ pc = "fetch"
  /\ pc' = "analyze"
  /\ vetted' = [pkg |-> NameOf[spec], version |-> Resolves(spec), old |-> None,
                verdict |-> None]
  /\ moved' = moved \ {NameOf[spec]}
  /\ UNCHANGED <<setup, shims, nodeModules, latest, listVars, pm, argv, path, bypass,
                 spec, flags, allowlisted, shimmed, ran, exitCode>>

\* The tarball is unlinked, whether it could be analyzed or not.
Analyze ==
  /\ pc = "analyze"
  /\ \/ End(3)
     \/ pc' = "installed" /\ UNCHANGED exitCode
  /\ UNCHANGED <<machine, listVars, pm, argv, path, bypass, spec, flags, allowlisted, vetted,
                 shimmed, ran>>

\* A version that is on disk is fetched and analyzed too; without it the
\* package is a new one.
ReadInstalled ==
  /\ pc = "installed"
  /\ pc' = "decide"
  /\ LET on == nodeModules[vetted.pkg]
     IN  \E old \in IF on \in {None, vetted.version} THEN {None} ELSE {None, on} :
           vetted' = [vetted EXCEPT !.old = old]
  /\ UNCHANGED <<machine, listVars, pm, argv, path, bypass, spec, flags, allowlisted, shimmed, ran,
                 exitCode>>

\* computeVerdict over what the detectors find.
Severities == {"BLOCK", "WARN", "INFO"}
ComputeVerdict(found) ==
  CASE "BLOCK" \in found -> "BLOCK"
    [] "BLOCK" \notin found /\ "WARN" \in found -> "WARN"
    [] found = {"INFO"} -> "INFO"
    [] found = {} -> "CLEAN"

Decide ==
  /\ pc = "decide"
  /\ \E found \in SUBSET Severities :
       /\ vetted' = [vetted EXCEPT !.verdict = ComputeVerdict(found)]
       /\ IF vetted'.verdict = "BLOCK" /\ ~flags.force
          THEN End(3) /\ UNCHANGED <<pm, bypass, argv>>
          ELSE IF flags.dry THEN End(0) /\ UNCHANGED <<pm, bypass, argv>>
          ELSE ShellOutToPm /\ UNCHANGED exitCode
  /\ UNCHANGED <<machine, listVars, path, spec, flags, allowlisted, shimmed, ran>>

-----------------------------------------------------------------------------
\* The real package manager: installs every spec of its line, or fails.
PackageManager ==
  /\ pc = "pm"
  /\ LET asked == IF IsInstall(Subcommand(argv)) THEN {argv[i] : i \in About(argv)} ELSE {}
     IN  \/ /\ ran' = {<<NameOf[s], Resolves(s)>> : s \in asked}
            /\ nodeModules' = [p \in Packages |->
                 IF \E r \in ran' : r[1] = p THEN (CHOOSE r \in ran' : r[1] = p)[2]
                 ELSE nodeModules[p]]
            /\ End(0)
         \/ End(1) /\ UNCHANGED <<ran, nodeModules>>
  /\ UNCHANGED <<setup, shims, latest, moved, listVars, pm, argv, path, bypass, spec,
                 flags, allowlisted, vetted, shimmed>>

Publish ==
  /\ pc # "over"
  /\ \E p \in Packages :
       /\ latest[p] < LastVersion
       /\ latest' = [latest EXCEPT ![p] = @ + 1]
       /\ moved' = moved \cup {p}
  /\ UNCHANGED <<setup, shims, nodeModules, listVars, command>>

-----------------------------------------------------------------------------
(* vetlock guard.                                                          *)

\* installShim writes a file, then makes it executable; a file that was there
\* keeps its mode.
WriteShim(m) ==
  /\ pc # "over"
  /\ shims[m] = "absent"
  /\ shims' = [shims EXCEPT ![m] = "plain"]
  /\ UNCHANGED <<setup, nodeModules, latest, moved, listVars, command>>

ChmodShim(m) ==
  /\ shims[m] = "plain"
  /\ shims' = [shims EXCEPT ![m] = "executable"]
  /\ UNCHANGED <<setup, nodeModules, latest, moved, listVars, command>>

\* uninstallShim: a shim that is missing is a no-op.
UnlinkShim(m) ==
  /\ shims[m] # "absent"
  /\ shims' = [shims EXCEPT ![m] = "absent"]
  /\ UNCHANGED <<setup, nodeModules, latest, moved, listVars, command>>

-----------------------------------------------------------------------------
Add     == AddAllowlist \/ FetchFails \/ Fetch \/ Analyze \/ ReadInstalled \/ Decide
Command == TypeLine \/ TypeAdd \/ Lookup \/ Shim \/ Add \/ PackageManager
Guard   == \E m \in Pms : WriteShim(m) \/ ChmodShim(m) \/ UnlinkShim(m)

Next ==
  \/ Command \/ Publish \/ Guard
  \/ pc # "over" /\ ListNext /\ UNCHANGED <<machine, command>>
Spec == Init /\ [][Next]_vars

\* Processes that were started run; nobody has to type, publish or guard.
FairSpec == Spec /\ WF_vars(Lookup \/ Shim \/ Add \/ PackageManager)

-----------------------------------------------------------------------------
\* Was the install the developer asked for under the gate?
Gated == shimmed \/ spec # None

(***************************************************************************)
(* A package manager that was reached through the shim or `vetlock add'    *)
(* installs only what the allowlist names, or what was fetched and         *)
(* analyzed, with no BLOCK unless it was forced.  It installs the version  *)
(* that was analyzed, except that `latest' may have moved in between.      *)
(***************************************************************************)
InstallsAreVetted ==
  Gated => \A r \in ran :
    \/ allowlisted
    \/ /\ vetted # None /\ vetted.pkg = r[1] /\ vetted.verdict # None
       /\ vetted.verdict = "BLOCK" => flags.force
       /\ vetted.version = r[2] \/ r[1] \in moved

(***************************************************************************)
(* A package skips the gate only if somebody gave a reason for it and no   *)
(* undisturbed removal followed, whatever allowlist commands overlap, die  *)
(* half-way or leave a half-written file.                                  *)
(***************************************************************************)
TrustIsStated == [][allowlisted' /\ ~allowlisted => NameOf[spec] \in stated]_vars

(***************************************************************************)
(* No look-up loops: every command ends, although the package manager that *)
(* the shim or `vetlock add' looks up is found through a PATH with the     *)
(* shim in it.                                                             *)
(***************************************************************************)
CommandsEnd == (pc = "lookup") ~> (pc = "over")

=============================================================================
