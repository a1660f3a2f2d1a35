----------------------------- MODULE GateProofs -----------------------------
(***************************************************************************)
(* Theorems about the install gate and the agent that share a project, for *)
(* any packages, processes, policies and reports: what is installed was    *)
(* vetted, trust is stated, and receipts are bound to one comparison.      *)
(***************************************************************************)
EXTENDS GateAndAdmission, WellFoundedInduction, TLAPS

-----------------------------------------------------------------------------
(* The allowlist.                                                          *)

GuardStates ==
  [phase : {"idle", "read", "write"}, op : {None, "add", "remove"},
   pkg : Packages \cup {None}, list : SUBSET Packages, alone : BOOLEAN]

\* Whatever may be written or read is stated; who removes alone is alone.
ListInv ==
  /\ file = Torn \/ file \subseteq Packages
  /\ guard \in [Guards -> GuardStates]
  /\ ReadAllowlist \subseteq stated
  /\ \A g \in Guards : Busy(g) =>
       /\ guard[g].list \subseteq stated
       /\ guard[g].op = "remove" => guard[g].pkg \notin guard[g].list
       /\ guard[g].alone => \A h \in Guards \ {g} : ~Busy(h)

LEMMA ListInitInv == ListInit => ListInv
PROOF
<1> SUFFICES ASSUME ListInit PROVE ListInv
  OBVIOUS
<1>1. Idle \in GuardStates
  BY DEF Idle, GuardStates
<1>2. file \subseteq Packages /\ guard = [g \in Guards |-> Idle] /\ stated = file
  BY ListedAssumption DEF ListInit
<1>3. \A g \in Guards : guard[g] = Idle /\ ~Busy(g)
  BY <1>2 DEF Busy, Idle
<1>4. ReadAllowlist \subseteq stated
  BY <1>2 DEF ReadAllowlist
<1> QED BY <1>1, <1>2, <1>3, <1>4 DEF ListInv

LEMMA ReadIsList == ListInv => ReadAllowlist \subseteq Packages
<1> SUFFICES ASSUME ListInv PROVE ReadAllowlist \subseteq Packages
  OBVIOUS
<1>1. CASE file = Torn
  BY <1>1 DEF ReadAllowlist
<1>2. CASE file # Torn
  <2>1. file \subseteq Packages
    BY <1>2 DEF ListInv
  <2> QED BY <1>2, <2>1 DEF ReadAllowlist
<1> QED BY <1>1, <1>2

\* A command that begins marks those it overlaps.
LEMMA BeginKeeps ==
  ASSUME ListInv, NEW g \in Guards, ~Busy(g), NEW o \in {"add", "remove"}, NEW p \in Packages,
         NEW l \in SUBSET Packages, Begin(g, o, p, l)
  PROVE  /\ guard' \in [Guards -> GuardStates]
         /\ guard'[g].list = l /\ guard'[g].op = o /\ guard'[g].pkg = p
         /\ guard'[g].alone => \A h \in Guards \ {g} : ~Busy(h)'
         /\ \A h \in Guards \ {g} :
              /\ Busy(h)' <=> Busy(h)
              /\ Busy(h) => ~guard'[h].alone
              /\ guard'[h].list = guard[h].list /\ guard'[h].op = guard[h].op
              /\ guard'[h].pkg = guard[h].pkg
PROOF
<1> DEFINE others == {h \in Guards \ {g} : Busy(h)}
<1> DEFINE new == [phase |-> "read", op |-> o, pkg |-> p, list |-> l, alone |-> others = {}]
<1>1. new \in GuardStates
  BY DEF GuardStates
<1>2. guard' = [h \in Guards |-> IF h = g THEN new
                                 ELSE IF h \in others THEN [guard[h] EXCEPT !.alone = FALSE]
                                 ELSE guard[h]]
  BY DEF Begin
<1>3. ASSUME NEW h \in Guards \ {g}, Busy(h)
      PROVE  /\ guard'[h] \in GuardStates /\ guard'[h].phase = guard[h].phase /\ ~guard'[h].alone
             /\ guard'[h].list = guard[h].list /\ guard'[h].op = guard[h].op
             /\ guard'[h].pkg = guard[h].pkg
  <2>1. guard'[h] = [guard[h] EXCEPT !.alone = FALSE] /\ guard[h] \in GuardStates
    BY <1>2, <1>3 DEF ListInv
  <2> QED BY <2>1 DEF GuardStates
<1>4. ASSUME NEW h \in Guards \ {g}, ~Busy(h) PROVE guard'[h] = guard[h] /\ guard[h] \in GuardStates
  BY <1>2, <1>4 DEF ListInv
<1>5. guard'[g] = new
  BY <1>2
<1>6. guard' \in [Guards -> GuardStates]
  BY <1>1, <1>2, <1>3, <1>4, <1>5
<1>7. \A h \in Guards \ {g} : Busy(h)' <=> Busy(h)
  BY <1>3, <1>4 DEF Busy
<1>8. guard'[g].alone => \A h \in Guards \ {g} : ~Busy(h)'
  <2>1. new.alone = (others = {})
    OBVIOUS
  <2>2. guard'[g].alone = (others = {})
    BY <1>5, <2>1
  <2> QED BY <1>7, <2>2
<1>9. guard'[g].list = l /\ guard'[g].op = o /\ guard'[g].pkg = p
  BY <1>5
<1> QED BY <1>3, <1>4, <1>6, <1>7, <1>8, <1>9

LEMMA ListStep == ListInv /\ [ListNext]_listVars => ListInv'
PROOF
<1> SUFFICES ASSUME ListInv, [ListNext]_listVars PROVE ListInv'
  OBVIOUS
<1>1. ASSUME NEW g \in Guards, NEW p \in Packages, Allow(g, p) PROVE ListInv'
  <2>1. ReadAllowlist \cup {p} \in SUBSET Packages
    BY ReadIsList
  <2>2. ~Busy(g) /\ Begin(g, "add", p, ReadAllowlist \cup {p}) /\ stated' = stated \cup {p} /\ file' = file
    BY <1>1 DEF Allow
  <2>3. ReadAllowlist' = ReadAllowlist
    BY <2>2 DEF ReadAllowlist
  <2>4. guard'[g].list \subseteq stated' /\ guard'[g].op # "remove"
    BY <2>1, <2>2, BeginKeeps DEF ListInv
  <2>5. ASSUME NEW h \in Guards \ {g}, Busy(h)'
        PROVE  /\ guard'[h].list \subseteq stated'
               /\ guard'[h].op = "remove" => guard'[h].pkg \notin guard'[h].list
               /\ ~guard'[h].alone
    BY <2>1, <2>2, <2>5, BeginKeeps DEF ListInv
  <2>6. guard' \in [Guards -> GuardStates] /\ (guard'[g].alone => \A h \in Guards \ {g} : ~Busy(h)')
    BY <2>1, <2>2, BeginKeeps
  <2> QED BY <2>2, <2>3, <2>4, <2>5, <2>6 DEF ListInv
<1>2. ASSUME NEW g \in Guards, NEW p \in Packages, Disallow(g, p) PROVE ListInv'
  <2>1. ReadAllowlist \ {p} \in SUBSET Packages
    BY ReadIsList
  <2>2. ~Busy(g) /\ Begin(g, "remove", p, ReadAllowlist \ {p}) /\ stated' = stated /\ file' = file
    BY <1>2 DEF Disallow
  <2>3. ReadAllowlist' = ReadAllowlist
    BY <2>2 DEF ReadAllowlist
  <2>4. guard'[g].list \subseteq stated' /\ guard'[g].pkg \notin guard'[g].list
    BY <2>1, <2>2, BeginKeeps DEF ListInv
  <2>5. ASSUME NEW h \in Guards \ {g}, Busy(h)'
        PROVE  /\ guard'[h].list \subseteq stated'
               /\ guard'[h].op = "remove" => guard'[h].pkg \notin guard'[h].list
               /\ ~guard'[h].alone
    BY <2>1, <2>2, <2>5, BeginKeeps DEF ListInv
  <2>6. guard' \in [Guards -> GuardStates] /\ (guard'[g].alone => \A h \in Guards \ {g} : ~Busy(h)')
    BY <2>1, <2>2, BeginKeeps
  <2> QED BY <2>2, <2>3, <2>4, <2>5, <2>6 DEF ListInv
<1>3. ASSUME NEW g \in Guards, Truncate(g) PROVE ListInv'
  <2>1. guard[g] \in GuardStates /\ guard' = [guard EXCEPT ![g] = [guard[g] EXCEPT !.phase = "write"]]
    BY <1>3 DEF Truncate, ListInv
  <2>2. [guard[g] EXCEPT !.phase = "write"] \in GuardStates
    BY <2>1 DEF GuardStates
  <2>3. \A h \in Guards : /\ Busy(h)' <=> Busy(h)
                          /\ guard'[h].list = guard[h].list /\ guard'[h].op = guard[h].op
                          /\ guard'[h].pkg = guard[h].pkg /\ guard'[h].alone = guard[h].alone
    BY <1>3, <2>1 DEF Truncate, Busy, ListInv, GuardStates
  <2>4. file' = Torn /\ stated' = stated /\ ReadAllowlist' = {}
    BY <1>3 DEF Truncate, ReadAllowlist
  <2>5. guard' \in [Guards -> GuardStates] /\ (file' = Torn \/ file' \subseteq Packages)
    <3>1. guard' \in [Guards -> GuardStates]
      BY <2>1, <2>2 DEF ListInv
    <3> QED BY <2>4, <3>1
  <2>6. ReadAllowlist' \subseteq stated'
    BY <2>4
  <2>7. ASSUME NEW h \in Guards, Busy(h)'
        PROVE  /\ guard'[h].list \subseteq stated'
               /\ guard'[h].op = "remove" => guard'[h].pkg \notin guard'[h].list
               /\ guard'[h].alone => \A i \in Guards \ {h} : ~Busy(i)'
    BY <2>3, <2>4, <2>7 DEF ListInv
  <2> QED BY <2>5, <2>6, <2>7 DEF ListInv
<1>4. ASSUME NEW g \in Guards, Write(g) PROVE ListInv'
  <2>1. guard' = [guard EXCEPT ![g] = Idle] /\ Idle \in GuardStates /\ ~Busy(g)' /\ Busy(g)
    BY <1>4 DEF Write, Idle, GuardStates, Busy, ListInv
  <2>2. \A h \in Guards \ {g} : guard'[h] = guard[h] /\ (Busy(h)' <=> Busy(h))
    BY <2>1 DEF Busy, ListInv
  <2>3. file' \in {guard[g].list, Torn} /\ guard[g].list \in SUBSET Packages
    BY <1>4 DEF Write, ListInv, GuardStates
  <2>6. guard' \in [Guards -> GuardStates] /\ (file' = Torn \/ file' \subseteq Packages)
    <3>1. guard' \in [Guards -> GuardStates]
      BY <2>1 DEF ListInv
    <3> QED BY <2>3, <3>1
  <2>4. CASE guard[g].op = "remove" /\ guard[g].alone
    <3>1. file' = guard[g].list /\ stated' = stated \ {guard[g].pkg}
      BY <1>4, <2>4 DEF Write
    <3>2. ReadAllowlist' \subseteq stated'
      BY <2>1, <2>4, <3>1 DEF ListInv, ReadAllowlist
    <3>3. \A h \in Guards : ~Busy(h)'
      BY <2>1, <2>2, <2>4 DEF ListInv
    <3> QED BY <2>6, <3>2, <3>3 DEF ListInv
  <2>5. CASE ~(guard[g].op = "remove" /\ guard[g].alone)
    <3>1. stated' = stated
      BY <1>4, <2>5 DEF Write
    <3>2. guard[g].list \subseteq stated
      BY <2>1 DEF ListInv
    <3>3. ReadAllowlist' \subseteq stated'
      BY <2>3, <3>1, <3>2 DEF ReadAllowlist
    <3>4. ASSUME NEW h \in Guards, Busy(h)'
          PROVE  /\ guard'[h].list \subseteq stated'
                 /\ guard'[h].op = "remove" => guard'[h].pkg \notin guard'[h].list
                 /\ guard'[h].alone => \A i \in Guards \ {h} : ~Busy(i)'
      BY <2>1, <2>2, <3>1, <3>4 DEF ListInv
    <3> QED BY <2>6, <3>3, <3>4 DEF ListInv
  <2> QED BY <2>4, <2>5
<1>5. ASSUME NEW g \in Guards, Die(g) PROVE ListInv'
  <2>1. guard' = [guard EXCEPT ![g] = Idle] /\ Idle \in GuardStates /\ ~Busy(g)'
    BY <1>5 DEF Die, Idle, GuardStates, Busy, ListInv
  <2>2. \A h \in Guards \ {g} : guard'[h] = guard[h] /\ (Busy(h)' <=> Busy(h))
    BY <2>1 DEF Busy, ListInv
  <2>3. file' = file /\ stated' = stated /\ ReadAllowlist' = ReadAllowlist
    BY <1>5 DEF Die, ReadAllowlist
  <2> QED BY <2>1, <2>2, <2>3 DEF ListInv
<1>6. CASE UNCHANGED listVars
  BY <1>6 DEF listVars, ListInv, ReadAllowlist, Busy
<1> QED BY <1>1, <1>2, <1>3, <1>4, <1>5, <1>6 DEF ListNext

\* Only the allowlist's own commands touch it, and only `vetlock add' reads it.
LEMMA StepOfGate ==
  ASSUME [SharedNext]_<<vars, agentVars>>
  PROVE  /\ [ListNext]_listVars
         /\ AddAllowlist \/ UNCHANGED allowlisted
PROOF
<1>1. CASE TypeLine
  BY <1>1 DEF TypeLine
<1>2. CASE TypeAdd
  BY <1>2 DEF TypeAdd
<1>3. CASE Lookup
  BY <1>3 DEF Lookup
<1>4. CASE Shim
  BY <1>4 DEF Shim
<1>5. CASE AddAllowlist
  BY <1>5 DEF AddAllowlist
<1>6. CASE FetchFails
  BY <1>6 DEF FetchFails
<1>7. CASE Fetch
  BY <1>7 DEF Fetch
<1>8. CASE Analyze
  BY <1>8 DEF Analyze
<1>9. CASE ReadInstalled
  BY <1>9 DEF ReadInstalled
<1>10. CASE Decide
  BY <1>10 DEF Decide
<1>11. CASE PackageManager
  BY <1>11 DEF PackageManager
<1>12. CASE Publish
  BY <1>12 DEF Publish, command
<1>13. CASE Guard
  BY <1>13 DEF Guard, WriteShim, ChmodShim, UnlinkShim, command
<1>14. CASE ListNext /\ UNCHANGED <<machine, command>>
  BY <1>14 DEF command
<1>15. CASE UNCHANGED vars
  BY <1>15 DEF vars, command
<1> QED
  BY <1>1, <1>2, <1>3, <1>4, <1>5, <1>6, <1>7, <1>8, <1>9, <1>10, <1>11, <1>12, <1>13, <1>14, <1>15
  DEF SharedNext, Gate, Admit, Next, Command, Add

LEMMA ListHolds == SharedSpec => []ListInv
<1>1. SharedInit => ListInv
  BY ListInitInv DEF SharedInit, Init
<1>2. ListInv /\ [SharedNext]_<<vars, agentVars>> => ListInv'
  BY StepOfGate, ListStep
<1> QED BY <1>1, <1>2, PTL DEF SharedSpec

\* A package is let past the gate only when a reason was given for it and no
\* undisturbed removal followed.
THEOREM TrustHasAReason == SharedSpec => TrustIsStated
<1>1. ListInv /\ [SharedNext]_<<vars, agentVars>> =>
        [allowlisted' /\ ~allowlisted => NameOf[spec] \in stated]_vars
  <2> SUFFICES ASSUME ListInv, [SharedNext]_<<vars, agentVars>>, allowlisted', ~allowlisted
               PROVE  NameOf[spec] \in stated
    OBVIOUS
  <2>1. AddAllowlist
    BY StepOfGate
  <2>2. NameOf[spec] \in ReadAllowlist
    BY <2>1 DEF AddAllowlist
  <2> QED BY <2>2 DEF ListInv
<1> QED BY <1>1, ListHolds, PTL DEF SharedSpec, TrustIsStated

-----------------------------------------------------------------------------
(* The gate.                                                               *)

LEMMA LeastNatural ==
  ASSUME NEW S \in SUBSET Nat, S # {}
  PROVE  \E x \in S : \A y \in S : x <= y
PROOF
<1>1. \E R : /\ IsWellFoundedOn(R, Nat)
             /\ \A x, y \in Nat : y < x => <<y, x>> \in R
  <2>1. \A x, y \in Nat : y < x => <<y, x>> \in OpToRel(<, Nat)
    BY DEF OpToRel
  <2> QED BY <2>1, NatLessThanWellFounded
<1>2. PICK R : /\ IsWellFoundedOn(R, Nat)
               /\ \A x, y \in Nat : y < x => <<y, x>> \in R
  BY <1>1
<1>3. PICK x \in S : \A y \in S : ~(<<y, x>> \in R)
  BY <1>2, WFMin
<1>4. ASSUME NEW y \in S PROVE ~(y < x)
  BY <1>2, <1>3
<1> QED BY <1>4

\* What a typed line asks to install first is a spec.
LEMMA AskedIsSpec ==
  ASSUME NEW line \in Lines, IsInstall(Subcommand(line)), About(line) # {}
  PROVE  line[First(About(line))] \in Specs
PROOF
<1>1. About(line) \in SUBSET Nat
  BY LinesAssumption DEF About, Bare
<1>2. \E i \in About(line) : \A j \in About(line) : i <= j
  BY <1>1, LeastNatural
<1>3. First(About(line)) \in About(line)
  BY <1>2 DEF First
<1>4. Subcommand(line) \in {"install", "i", "add"}
  BY DEF IsInstall
<1> QED BY <1>3, <1>4, LinesAssumption

\* What `vetlock add' passes on is read as an install of that spec alone.
LEMMA PassedOnIsRead ==
  ASSUME NEW s \in Specs, argv = <<"install", s>>
  PROVE  {argv[i] : i \in About(argv)} = {s}
PROOF
<1>1. s \notin {"-D", "-q"} /\ DOMAIN argv = {1, 2} /\ argv[1] = "install" /\ argv[2] = s
  BY SpecsAssumption
<1>2. Bare(argv) = {1, 2}
  BY <1>1 DEF Bare, IsFlag
<1>3. About(argv) = {2}
  BY <1>2 DEF About
<1> QED BY <1>1, <1>3

VettedRecords ==
  [pkg : Packages, version : Int, old : Int \cup {None},
   verdict : {None, "BLOCK", "WARN", "INFO", "CLEAN"}]

\* What is vetted is what the command is about, except for `latest'.
VettedSpec ==
  /\ vetted \in VettedRecords /\ vetted.pkg = NameOf[spec]
  /\ vetted.version = Resolves(spec) \/ NameOf[spec] \in moved

Cleared ==
  \/ allowlisted
  \/ /\ VettedSpec /\ vetted.verdict # None
     /\ vetted.verdict = "BLOCK" => flags.force

GateTyped ==
  /\ spec \in Specs \cup {None} /\ vetted \in VettedRecords \cup {None}
  /\ latest \in [Packages -> Int] /\ nodeModules \in [Packages -> Int \cup {None}]
  /\ allowlisted \in BOOLEAN /\ bypass \in BOOLEAN

\* What has happened to the command at each place it may be in.
CommandInv ==
  /\ pc = "prompt" => spec = None /\ ~bypass /\ ~shimmed
  /\ pc \in {"lookup", "shim", "pm"} /\ ~bypass => spec = None /\ argv \in Lines
  /\ pc \in {"lookup", "pm"} /\ ~bypass /\ shimmed =>
       ~IsInstall(Subcommand(argv)) \/ About(argv) = {}
  /\ pc \in {"add", "fetch", "analyze", "installed", "decide"} => spec # None /\ ~bypass
  /\ pc \in {"analyze", "installed", "decide"} => VettedSpec
  /\ bypass => spec # None /\ argv = <<"install", spec>> /\ Cleared
  /\ ran # {} => pc = "over"

GateInv == GateTyped /\ CommandInv /\ InstallsAreVetted

LEMMA GateInitInv == Init => GateInv
PROOF
<1> SUFFICES ASSUME Init PROVE GateInv
  OBVIOUS
<1>1. GateTyped
  <2>1. Versions \subseteq Int
    BY SpecsAssumption DEF Versions
  <2> QED BY <2>1 DEF Init, GateTyped
<1>2. CommandInv
  BY DEF Init, CommandInv
<1>3. InstallsAreVetted
  BY DEF Init, InstallsAreVetted
<1> QED BY <1>1, <1>2, <1>3 DEF GateInv

LEMMA VettedIsSomething == \A v \in VettedRecords : v # None
BY NoneAssumption DEF VettedRecords

LEMMA VerdictIsSomething ==
  ASSUME NEW found \in SUBSET Severities
  PROVE  ComputeVerdict(found) \in {"BLOCK", "WARN", "INFO", "CLEAN"} /\ ComputeVerdict(found) # None
PROOF
<1>1. CASE "BLOCK" \in found
  BY <1>1, NoneAssumption DEF ComputeVerdict
<1>2. CASE "BLOCK" \notin found /\ "WARN" \in found
  BY <1>2, NoneAssumption DEF ComputeVerdict
<1>3. CASE "BLOCK" \notin found /\ "WARN" \notin found
  <2>1. found = {"INFO"} \/ found = {}
    BY <1>3 DEF Severities
  <2> QED BY <1>3, <2>1, NoneAssumption DEF ComputeVerdict
<1> QED BY <1>1, <1>2, <1>3

\* Nothing but the registry and node_modules matters to the gate.
LEMMA IdleGate ==
  ASSUME GateInv, UNCHANGED <<nodeModules, latest, moved, command>>
  PROVE  GateInv'
PROOF
<1>1. GateTyped'
  BY DEF GateInv, GateTyped, command
<1>2. CommandInv'
  BY DEF GateInv, CommandInv, Cleared, VettedSpec, Resolves, IsInstall, command
<1>3. InstallsAreVetted'
  BY DEF GateInv, InstallsAreVetted, Gated, command
<1> QED BY <1>1, <1>2, <1>3 DEF GateInv

LEMMA GateStep == GateInv /\ [Next]_vars => GateInv'
PROOF
<1> SUFFICES ASSUME GateInv, [Next]_vars PROVE GateInv'
  OBVIOUS
<1> USE DEF GateInv
<1>1. CASE TypeLine
  <2>1. GateTyped'
    BY <1>1 DEF TypeLine, machine, GateTyped
  <2>2. CommandInv'
    BY <1>1 DEF TypeLine, machine, CommandInv
  <2>3. InstallsAreVetted'
    BY <1>1 DEF TypeLine, machine, CommandInv, InstallsAreVetted
  <2> QED BY <2>1, <2>2, <2>3
<1>2. CASE TypeAdd
  <2>1. GateTyped'
    BY <1>2 DEF TypeAdd, machine, GateTyped
  <2>2. CommandInv'
    BY <1>2, NoneAssumption DEF TypeAdd, machine, CommandInv
  <2>3. InstallsAreVetted'
    BY <1>2 DEF TypeAdd, machine, CommandInv, InstallsAreVetted
  <2> QED BY <2>1, <2>2, <2>3
<1>3. CASE Lookup
  <2>1. /\ pc = "lookup" /\ pc' \in {"over", "pm", "shim"}
        /\ UNCHANGED <<machine, pm, argv, bypass, spec, flags, allowlisted, vetted, ran>>
        /\ pc' = "pm" => shimmed' = shimmed
    BY <1>3 DEF Lookup, End
  <2>2. GateTyped'
    BY <2>1 DEF machine, GateTyped
  <2>3. CommandInv'
    BY <2>1 DEF machine, CommandInv, Cleared, VettedSpec, Resolves, IsInstall
  <2>4. ran' = {}
    BY <2>1 DEF CommandInv
  <2> QED BY <2>2, <2>3, <2>4 DEF InstallsAreVetted
<1>4. CASE Shim
  <2>1. ran' = {} /\ InstallsAreVetted'
    BY <1>4 DEF Shim, CommandInv, InstallsAreVetted
  <2>2. CASE bypass \/ ~IsInstall(Subcommand(argv)) \/ About(argv) = {}
    <3>1. /\ pc = "shim" /\ pc' = "lookup"
          /\ UNCHANGED <<machine, pm, argv, bypass, spec, flags, allowlisted, vetted, shimmed, ran>>
      BY <1>4, <2>2 DEF Shim, PassThrough
    <3>2. GateTyped'
      BY <3>1 DEF machine, GateTyped
    <3>3. CommandInv'
      BY <2>2, <3>1 DEF machine, CommandInv, Cleared, VettedSpec, Resolves, IsInstall
    <3> QED BY <2>1, <3>2, <3>3
  <2>3. CASE ~(bypass \/ ~IsInstall(Subcommand(argv)) \/ About(argv) = {})
    <3>1. /\ pc' = "add" /\ spec' = argv[First(About(argv))]
          /\ UNCHANGED <<machine, pm, argv, bypass, flags, allowlisted, vetted, shimmed, ran>>
      BY <1>4, <2>3 DEF Shim
    <3>2. argv \in Lines /\ ~bypass
      BY <1>4, <2>3 DEF Shim, CommandInv
    <3>3. spec' \in Specs /\ spec' # None
      BY <2>3, <3>1, <3>2, AskedIsSpec, NoneAssumption
    <3>4. GateTyped'
      BY <3>1, <3>3 DEF machine, GateTyped
    <3>5. CommandInv'
      BY <2>1, <3>1, <3>2, <3>3 DEF CommandInv
    <3> QED BY <2>1, <3>4, <3>5
  <2> QED BY <2>2, <2>3
<1>5. CASE AddAllowlist
  <2>1. /\ pc = "add" /\ UNCHANGED <<machine, spec, flags, vetted, shimmed, ran>>
        /\ allowlisted' \in BOOLEAN /\ spec # None /\ ~bypass
    BY <1>5 DEF AddAllowlist, CommandInv
  <2>2. \/ pc' = "fetch" /\ bypass' = bypass
        \/ pc' = "over" /\ bypass' = bypass
        \/ pc' = "lookup" /\ bypass' = TRUE /\ argv' = <<"install", spec>> /\ allowlisted'
    BY <1>5 DEF AddAllowlist, End, ShellOutToPm
  <2>3. GateTyped'
    BY <2>1, <2>2 DEF machine, GateTyped
  <2>4. ran' = {}
    BY <2>1 DEF CommandInv
  <2>5. CommandInv'
    BY <2>1, <2>2, <2>4 DEF CommandInv, Cleared
  <2> QED BY <2>3, <2>4, <2>5 DEF InstallsAreVetted
<1>6. CASE FetchFails
  <2>1. GateTyped'
    BY <1>6 DEF FetchFails, machine, GateTyped
  <2>2. CommandInv' /\ ran' = {}
    BY <1>6 DEF FetchFails, End, machine, CommandInv
  <2> QED BY <2>1, <2>2 DEF InstallsAreVetted
<1>7. CASE Fetch
  <2>1. /\ pc = "fetch" /\ pc' = "analyze" /\ moved' = moved \ {NameOf[spec]}
        /\ vetted' = [pkg |-> NameOf[spec], version |-> Resolves(spec), old |-> None,
                      verdict |-> None]
        /\ UNCHANGED <<nodeModules, latest, argv, bypass, spec, flags, allowlisted, shimmed, ran>>
    BY <1>7 DEF Fetch
  <2>2. spec \in Specs /\ ~bypass /\ ran = {}
    BY <2>1 DEF CommandInv, GateTyped
  <2>3. NameOf[spec] \in Packages /\ Resolves(spec) \in Int
    <3>1. NameOf[spec] \in Packages /\ VersionOf[spec] \in Int /\ latest[NameOf[spec]] \in Int
      BY <2>2, SpecsAssumption DEF GateTyped, Versions, Latest
    <3> QED BY <3>1 DEF Resolves
  <2>4. vetted' \in VettedRecords /\ vetted'.pkg = NameOf[spec] /\ vetted'.version = Resolves(spec)
    BY <2>1, <2>3 DEF VettedRecords
  <2>5. VettedSpec'
    BY <2>1, <2>4 DEF VettedSpec, Resolves
  <2>6. GateTyped'
    BY <2>1, <2>4 DEF GateTyped
  <2>7. CommandInv'
    BY <2>1, <2>2, <2>5 DEF CommandInv
  <2> QED BY <2>1, <2>2, <2>6, <2>7 DEF InstallsAreVetted
<1>8. CASE Analyze
  <2>1. GateTyped'
    BY <1>8 DEF Analyze, machine, GateTyped
  <2>2. CommandInv' /\ ran' = {}
    BY <1>8 DEF Analyze, End, machine, CommandInv, VettedSpec, Resolves
  <2> QED BY <2>1, <2>2 DEF InstallsAreVetted
<1>9. CASE ReadInstalled
  <2>1. /\ pc = "installed" /\ pc' = "decide"
        /\ UNCHANGED <<machine, argv, bypass, spec, flags, allowlisted, shimmed, ran>>
    BY <1>9 DEF ReadInstalled
  <2>2. VettedSpec /\ ~bypass /\ spec # None /\ ran = {}
    BY <2>1 DEF CommandInv
  <2>3. PICK old \in Int \cup {None} : vetted' = [vetted EXCEPT !.old = old]
    <3>1. nodeModules[vetted.pkg] \in Int \cup {None}
      BY <2>2 DEF GateTyped, VettedSpec, VettedRecords
    <3> QED BY <1>9, <3>1 DEF ReadInstalled
  <2>4. vetted' \in VettedRecords /\ vetted'.pkg = vetted.pkg /\ vetted'.version = vetted.version
    BY <2>2, <2>3 DEF VettedSpec, VettedRecords
  <2>5. VettedSpec'
    BY <2>1, <2>2, <2>4 DEF VettedSpec, Resolves, machine
  <2>6. GateTyped'
    BY <2>1, <2>4 DEF GateTyped, machine
  <2>7. CommandInv'
    BY <2>1, <2>2, <2>5 DEF CommandInv
  <2> QED BY <2>1, <2>2, <2>6, <2>7 DEF InstallsAreVetted
<1>10. CASE Decide
  <2>1. /\ pc = "decide" /\ UNCHANGED <<machine, spec, flags, allowlisted, shimmed, ran>>
    BY <1>10 DEF Decide
  <2>2. VettedSpec /\ ~bypass /\ spec # None /\ ran = {}
    BY <2>1 DEF CommandInv
  <2>3. PICK found \in SUBSET Severities :
          /\ vetted' = [vetted EXCEPT !.verdict = ComputeVerdict(found)]
          /\ \/ pc' = "over" /\ bypass' = bypass
             \/ /\ vetted'.verdict = "BLOCK" => flags.force
                /\ pc' = "lookup" /\ bypass' = TRUE /\ argv' = <<"install", spec>>
    BY <1>10 DEF Decide, End, ShellOutToPm
  <2>4. /\ vetted' \in VettedRecords /\ vetted'.pkg = vetted.pkg
        /\ vetted'.version = vetted.version /\ vetted'.verdict # None
    BY <2>2, <2>3, VerdictIsSomething DEF VettedSpec, VettedRecords
  <2>5. VettedSpec'
    BY <2>1, <2>2, <2>4 DEF VettedSpec, Resolves, machine
  <2>6. GateTyped'
    BY <2>1, <2>3, <2>4 DEF GateTyped, machine
  <2>7. CommandInv'
    BY <2>1, <2>2, <2>3, <2>4, <2>5 DEF CommandInv, Cleared
  <2> QED BY <2>1, <2>2, <2>6, <2>7 DEF InstallsAreVetted
<1>11. CASE PackageManager
  <2>1. /\ pc = "pm" /\ pc' = "over" /\ ran = {}
        /\ UNCHANGED <<latest, moved, pm, argv, bypass, spec, flags, allowlisted, vetted, shimmed>>
    BY <1>11 DEF PackageManager, End, CommandInv
  <2> DEFINE asked == IF IsInstall(Subcommand(argv)) THEN {argv[i] : i \in About(argv)} ELSE {}
  <2>2. ran' \in {{}, {<<NameOf[s], Resolves(s)>> : s \in asked}}
    BY <1>11, <2>1 DEF PackageManager
  <2>3. \A s \in Specs : NameOf[s] \in Packages /\ Resolves(s) \in Int
    BY SpecsAssumption DEF Resolves, GateTyped, Versions, Latest
  <2>4. asked \subseteq Specs
    <3>1. CASE bypass
      BY <3>1, PassedOnIsRead DEF CommandInv, GateTyped
    <3>2. CASE ~bypass
      <4>1. argv \in Lines
        BY <2>1, <3>2 DEF CommandInv
      <4> QED BY <4>1, LinesAssumption DEF IsInstall
    <3> QED BY <3>1, <3>2
  <2>5. \A r \in ran' : r[1] \in Packages /\ r[2] \in Int
    BY <2>2, <2>3, <2>4
  <2>6. nodeModules' \in [Packages -> Int \cup {None}]
    <3>1. CASE UNCHANGED nodeModules
      BY <3>1 DEF GateTyped
    <3>2. CASE nodeModules' = [p \in Packages |->
                 IF \E r \in ran' : r[1] = p THEN (CHOOSE r \in ran' : r[1] = p)[2]
                 ELSE nodeModules[p]]
      <4>1. ASSUME NEW p \in Packages PROVE nodeModules'[p] \in Int \cup {None}
        <5>1. CASE \E r \in ran' : r[1] = p
          <6>1. (CHOOSE r \in ran' : r[1] = p) \in ran'
            BY <5>1
          <6> QED BY <2>5, <3>2, <5>1, <6>1
        <5>2. CASE ~\E r \in ran' : r[1] = p
          BY <3>2, <5>2 DEF GateTyped
        <5> QED BY <5>1, <5>2
      <4> QED BY <3>2, <4>1
    <3> QED BY <1>11, <3>1, <3>2 DEF PackageManager
  <2>7. GateTyped'
    BY <2>1, <2>6 DEF GateTyped
  <2>8. CommandInv'
    BY <2>1 DEF CommandInv, Cleared, VettedSpec, Resolves
  <2>9. InstallsAreVetted'
    <3>1. CASE bypass
      <4>1. spec \in Specs /\ argv = <<"install", spec>> /\ Cleared
        BY <3>1 DEF CommandInv, GateTyped
      <4>2. asked \subseteq {spec}
        BY <4>1, PassedOnIsRead
      <4>3. \A r \in ran' : r[1] = NameOf[spec] /\ r[2] = Resolves(spec)
        BY <2>2, <4>2
      <4>4. vetted \in VettedRecords => vetted # None
        BY VettedIsSomething
      <4> QED BY <2>1, <4>1, <4>3, <4>4 DEF InstallsAreVetted, Cleared, VettedSpec
    <3>2. CASE ~bypass
      <4>1. spec = None /\ (shimmed => asked = {})
        BY <2>1, <3>2 DEF CommandInv
      <4> QED BY <2>1, <2>2, <4>1 DEF InstallsAreVetted, Gated
    <3> QED BY <3>1, <3>2
  <2> QED BY <2>7, <2>8, <2>9
<1>12. CASE Publish
  <2>1. PICK p \in Packages :
          /\ latest' = [latest EXCEPT ![p] = @ + 1] /\ moved' = moved \cup {p}
    BY <1>12 DEF Publish
  <2>2. pc # "over" /\ UNCHANGED <<nodeModules, command>>
    BY <1>12 DEF Publish
  <2>3. GateTyped'
    BY <2>1, <2>2 DEF GateTyped, command
  <2>4. VettedSpec => VettedSpec'
    BY <2>1, <2>2 DEF VettedSpec, Resolves, GateTyped, command
  <2>5. ran' = {} /\ InstallsAreVetted'
    BY <2>2 DEF CommandInv, InstallsAreVetted, command
  <2>6. CommandInv'
    BY <2>2, <2>4, <2>5 DEF CommandInv, Cleared, command, IsInstall
  <2> QED BY <2>3, <2>5, <2>6
<1>13. CASE Guard
  <2>1. UNCHANGED <<nodeModules, latest, moved, command>>
    BY <1>13 DEF Guard, WriteShim, ChmodShim, UnlinkShim
  <2> QED BY <2>1, IdleGate
<1>14. CASE UNCHANGED <<machine, command>>
  BY <1>14, IdleGate DEF machine
<1> QED
  BY <1>1, <1>2, <1>3, <1>4, <1>5, <1>6, <1>7, <1>8, <1>9, <1>10, <1>11, <1>12, <1>13, <1>14
  DEF Next, Command, Add, vars

\* Whatever is published, guarded or allowed meanwhile, what a package manager
\* installs behind the gate is allowlisted or was fetched and analyzed without
\* an unforced BLOCK, in the version that was analyzed unless `latest' moved.
THEOREM InstallsWereVetted == SharedSpec => []InstallsAreVetted
<1>1. SharedInit => GateInv
  BY GateInitInv DEF SharedInit
<1>2. GateInv /\ [SharedNext]_<<vars, agentVars>> => GateInv'
  <2>1. [SharedNext]_<<vars, agentVars>> => [Next]_vars
    BY DEF SharedNext, Gate, Admit
  <2> QED BY <2>1, GateStep
<1>3. GateInv => InstallsAreVetted
  BY DEF GateInv
<1> QED BY <1>1, <1>2, <1>3, PTL DEF SharedSpec

-----------------------------------------------------------------------------
(* Decisions and receipts.                                                 *)

Resolved(policy) == Agent!NormalizedPolicy(policy)

Blocks(findings, policy) ==
  \/ Resolved(policy).failClosed /\ \E f \in findings : f.detector = "analysis.failed"
  \/ \E f \in findings : f.severity \in Resolved(policy).blockSeverities
Reviews(findings, policy) == \E f \in findings : f.severity \in Resolved(policy).reviewSeverities

LEMMA Decisions ==
  ASSUME NEW findings, NEW policy
  PROVE  Agent!EvaluatePolicy(findings, policy) =
           IF Blocks(findings, policy) THEN "block"
           ELSE IF Reviews(findings, policy) THEN "review" ELSE "allow"
BY DEF Agent!EvaluatePolicy, Blocks, Reviews, Resolved

\* What more findings are reported makes a decision no milder.
LEMMA MoreFindings ==
  ASSUME NEW findings, NEW part \in SUBSET findings, NEW policy
  PROVE  Agent!Strictness[Agent!EvaluatePolicy(part, policy)]
           <= Agent!Strictness[Agent!EvaluatePolicy(findings, policy)]
<1>1. Blocks(part, policy) => Blocks(findings, policy)
  BY DEF Blocks
<1>2. Reviews(part, policy) => Reviews(findings, policy)
  BY DEF Reviews
<1> QED BY <1>1, <1>2, Decisions DEF Agent!Strictness

\* A policy that is normalized again stays as it is.
LEMMA NormalizedTwice ==
  ASSUME NEW policy
  PROVE  Resolved(Resolved(policy)) = Resolved(policy)
BY DEF Resolved, Agent!NormalizedPolicy, Agent!Default

-----------------------------------------------------------------------------
\* What the detectors report of an artifact against what a project hash stands for.
Found(pkg, projectHash, artifact) ==
  Reported[pkg][Agent!OldSide(projectHash[2], artifact)][artifact]

Faithful(a) == a.findings = Found(a.pkg, a.projectHash, a.artifactSha256)

\* What was hashed when a receipt was issued.
Issued(said) ==
  /\ Found(said.package, said.projectHash, said.artifactSha256) \subseteq said.findingsHash
  /\ \E policy \in Policies :
       /\ said.policyHash = Resolved(policy)
       /\ said.decision = Agent!EvaluatePolicy(said.findingsHash, policy)

IsRequest(q) == q = [pc |-> q.pc, pkg |-> q.pkg, version |-> q.version, installed |-> q.installed]
IsReceipt(r) == r = [unsigned |-> r.unsigned, receiptHash |-> r.receiptHash]

AgentInv ==
  /\ IsRequest(request)
  /\ Agent!At("none") => temps = {}
  /\ \A a \in analyses : Faithful(a)
  /\ \A r \in receipts : IsReceipt(r) /\ Issued(r.receiptHash)

LEMMA IssuedIsBound ==
  ASSUME AgentInv
  PROVE  ReceiptsAreBound
PROOF
<1> SUFFICES ASSUME NEW r \in receipts, Agent!VerifyReceipt(r)
    PROVE  LET said == r.unsigned
               found == Found(said.package, said.projectHash, said.artifactSha256)
               asked == said.policyHash.blockSeverities \cup said.policyHash.reviewSeverities
           IN  /\ found \subseteq said.findingsHash
               /\ \A part \in SUBSET said.findingsHash :
                    Agent!Strictness[Agent!EvaluatePolicy(part, said.policyHash)]
                      <= Agent!Strictness[said.decision]
               /\ said.decision = "allow" =>
                    \A f \in said.findingsHash :
                        /\ f.severity \notin asked
                        /\ said.policyHash.failClosed => f.detector # "analysis.failed"
  BY DEF AgentInv, ReceiptsAreBound, Agent!ReceiptsAreBound, Found
<1> DEFINE said == r.unsigned
<1>1. Issued(said)
  BY DEF AgentInv, Agent!VerifyReceipt
<1>2. PICK policy \in Policies : /\ said.policyHash = Resolved(policy)
                                 /\ said.decision = Agent!EvaluatePolicy(said.findingsHash, policy)
  BY <1>1 DEF Issued
<1> HIDE DEF said
<1>3. \A fs : Agent!EvaluatePolicy(fs, said.policyHash) = Agent!EvaluatePolicy(fs, policy)
  <2>1. Resolved(said.policyHash) = Resolved(policy)
    BY <1>2, NormalizedTwice
  <2> QED BY <2>1, Decisions DEF Blocks, Reviews
<1>4. \A part \in SUBSET said.findingsHash :
        Agent!Strictness[Agent!EvaluatePolicy(part, said.policyHash)] <= Agent!Strictness[said.decision]
  BY <1>2, <1>3, MoreFindings
<1>5. ASSUME said.decision = "allow", NEW f \in said.findingsHash
      PROVE  /\ f.severity \notin said.policyHash.blockSeverities \cup said.policyHash.reviewSeverities
             /\ said.policyHash.failClosed => f.detector # "analysis.failed"
  <2>1. ~Blocks(said.findingsHash, policy) /\ ~Reviews(said.findingsHash, policy)
    BY <1>2, <1>5, Decisions
  <2> QED BY <1>2, <2>1 DEF Blocks, Reviews
<1>6. Found(said.package, said.projectHash, said.artifactSha256) \subseteq said.findingsHash
  BY <1>1 DEF Issued
<1> QED BY <1>4, <1>5, <1>6 DEF said

LEMMA AgentStep == AgentInv /\ Agent!Admit => AgentInv'
PROOF
<1> SUFFICES ASSUME AgentInv, Agent!Admit PROVE AgentInv'
  OBVIOUS
<1>1. CASE Agent!Ask
  BY <1>1 DEF Agent!Ask, Agent!At, AgentInv, IsRequest
<1>2. CASE Agent!AskInVain
  BY <1>2 DEF Agent!AskInVain, Agent!At, AgentInv
<1>3. CASE Agent!AnalyzeNew
  BY <1>3 DEF Agent!AnalyzeNew, Agent!At, Agent!Go, Agent!Throw, Agent!NoRequest, AgentInv, IsRequest
<1>4. CASE Agent!ReadInstalled
  BY <1>4 DEF Agent!ReadInstalled, Agent!At, AgentInv, IsRequest
<1>5. CASE Agent!FetchOld
  BY <1>5 DEF Agent!FetchOld, Agent!At, Agent!Go, Agent!Throw, Agent!NoRequest, AgentInv, IsRequest
<1>6. CASE Agent!AnalyzeOld
  BY <1>6 DEF Agent!AnalyzeOld, Agent!At, Agent!Go, Agent!Throw, Agent!NoRequest, AgentInv, IsRequest
<1>7. CASE Agent!Compare
  <2>1. Faithful(Agent!Analysis(request.installed))
    BY DEF Faithful, Found, Agent!Analysis
  <2> QED BY <1>7, <2>1 DEF Agent!Compare, Agent!At, Agent!NoRequest, AgentInv, IsRequest
<1>8. CASE Agent!Issue
  <2>1. PICK a \in analyses, others \in LockfileFindings, policy \in Policies :
          LET findings == a.findings \cup others
          IN  receipts' = receipts \cup
                {Agent!CreateReceipt([package |-> a.pkg, artifactSha256 |-> a.artifactSha256,
                   projectHash |-> a.projectHash, policyHash |-> Agent!NormalizedPolicy(policy),
                   findingsHash |-> findings,
                   decision |-> Agent!EvaluatePolicy(findings, policy)])}
    BY <1>8 DEF Agent!Issue
  <2> DEFINE said == [package |-> a.pkg, artifactSha256 |-> a.artifactSha256,
                      projectHash |-> a.projectHash, policyHash |-> Agent!NormalizedPolicy(policy),
                      findingsHash |-> a.findings \cup others,
                      decision |-> Agent!EvaluatePolicy(a.findings \cup others, policy)]
  <2>2. Issued(said)
    <3>1. Faithful(a)
      BY DEF AgentInv
    <3> QED BY <3>1 DEF Issued, Faithful, Resolved
  <2>3. receipts' = receipts \cup {[unsigned |-> said, receiptHash |-> said]}
    BY <2>1 DEF Agent!CreateReceipt
  <2> HIDE DEF said
  <2>4. \A r \in receipts' : IsReceipt(r) /\ Issued(r.receiptHash)
    BY <2>2, <2>3 DEF AgentInv, IsReceipt
  <2> QED BY <1>8, <2>4 DEF Agent!Issue, Agent!At, AgentInv
<1>9. CASE Agent!Alter
  <2>1. PICK r \in receipts, d \in {"allow", "review", "block"}, a \in analyses :
          receipts' = (receipts \ {r}) \cup
            {[r EXCEPT !.unsigned.decision = d, !.unsigned.findingsHash = a.findings]}
    BY <1>9 DEF Agent!Alter
  <2> DEFINE altered == [r EXCEPT !.unsigned.decision = d, !.unsigned.findingsHash = a.findings]
  <2>2. IsReceipt(altered) /\ altered.receiptHash = r.receiptHash
    <3>1. \A x, y : IsReceipt(x) => LET z == [x EXCEPT !.unsigned = y]
                                   IN  IsReceipt(z) /\ z.receiptHash = x.receiptHash
      BY DEF IsReceipt
    <3> DEFINE decided == [r EXCEPT !.unsigned = [r.unsigned EXCEPT !.decision = d]]
    <3>2. altered = [decided EXCEPT !.unsigned = [decided.unsigned EXCEPT !.findingsHash = a.findings]]
      OBVIOUS
    <3>3. IsReceipt(decided) /\ decided.receiptHash = r.receiptHash
      BY <3>1 DEF AgentInv
    <3> QED BY <3>1, <3>2, <3>3
  <2> HIDE DEF altered
  <2>3. \A x \in receipts' : IsReceipt(x) /\ Issued(x.receiptHash)
    BY <2>1, <2>2 DEF AgentInv, altered
  <2> QED BY <1>9, <2>3 DEF Agent!Alter, Agent!At, AgentInv
<1> QED BY <1>1, <1>2, <1>3, <1>4, <1>5, <1>6, <1>7, <1>8, <1>9 DEF Agent!Admit

\* A receipt that verifies speaks of one comparison, whatever the developer
\* installs while the agent's request is under way.
THEOREM ReceiptsSpeakOfOneComparison == SharedSpec => []ReceiptsAreBound
<1>1. SharedInit => AgentInv
  BY DEF SharedInit, Agent!AgentInit, Agent!NoRequest, Agent!At, AgentInv, IsRequest
<1>2. AgentInv /\ [SharedNext]_<<vars, agentVars>> => AgentInv'
  <2> SUFFICES ASSUME AgentInv, [SharedNext]_<<vars, agentVars>> PROVE AgentInv'
    OBVIOUS
  <2>1. CASE Agent!Admit
    BY <2>1, AgentStep
  <2>2. CASE UNCHANGED agentVars
    BY <2>2 DEF agentVars, AgentInv, Agent!At
  <2> QED BY <2>1, <2>2 DEF SharedNext, Gate, Admit
<1>3. AgentInv => ReceiptsAreBound
  BY IssuedIsBound
<1> QED BY <1>1, <1>2, <1>3, PTL DEF SharedSpec
=============================================================================
