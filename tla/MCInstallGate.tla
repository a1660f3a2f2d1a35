--------------------------- MODULE MCInstallGate ---------------------------
EXTENDS GateAndAdmission, TLC

CONSTANTS p, q, pTag, pOne, qTag

MCPackages  == {p, q}
MCSpecs     == {pTag, pOne, qTag}
MCNameOf    == pTag :> p @@ pOne :> p @@ qTag :> q
MCVersionOf == pTag :> Latest @@ pOne :> 1 @@ qTag :> Latest

\* Flags before, between and after; no, one and two specs; other subcommands.
MCLines ==
  { <<"install">>, <<"-D">>, <<"install", pTag>>, <<"-D", "i", pOne>>, <<"add", "-D", pTag>>,
    <<"install", pTag, qTag>>, <<"test", pTag>> }

MCSetups ==
  { [binDir |-> "home", exported |-> "unset", path |-> <<"home", "real">>],
    [binDir |-> "custom", exported |-> "custom", path |-> <<"custom", "real", "custom">>] }

(* The allowlist meets a command only where it is read, so its writers are   *)
(* stepped there, and beside one plain command.                              *)
AllowlistWhereRead ==
  guard' # guard =>
    /\ pc = "add" /\ ~shimmed /\ flags.dry /\ ~flags.force /\ spec # pOne
    /\ nodeModules = [pkg \in Packages |-> None] /\ latest = [pkg \in Packages |-> 1]
    /\ setup.binDir = "home" /\ shims["npm"] = "executable"

(* An agent meets a command only in node_modules, which the package manager  *)
(* changes, and receipts meet nobody.                                        *)
AgentWhereInstalled ==
  /\ pc \in {"pm", "over"} /\ ~flags.force /\ ~allowlisted /\ ~shimmed
  /\ nodeModules[q] = None /\ latest[q] = 1
  /\ setup.binDir = "home" /\ shims["npm"] = "executable"
  /\ file = {} /\ guard = [g \in Guards |-> Idle]
  /\ analyses # {} => pc = "over"

MCInit == SharedInit /\ nodeModules[q] = None
MCNext == \/ Gate /\ (requests > 0 => UNCHANGED <<shims, latest, listVars>>)
          \/ AgentWhereInstalled /\ Admit
MCSpec == MCInit /\ [][MCNext]_<<vars, agentVars>> /\ GateFairness

\* A file that is there before is a list of p.
MCListed == {{}, {p}}

F(detector, severity) == [detector |-> detector, severity |-> severity]
MCReported ==
  LET from(old) == 1 :> (IF old = None THEN {F("net.new-module", "INFO")} ELSE {})
                   @@ 2 :> (IF old = 1 THEN {F("fs.new-hotpath-write", "BLOCK"), F("net.new-module", "INFO")}
                            ELSE {F("exec.new-module", "WARN")})
      p0 == None :> from(None) @@ 1 :> from(1) @@ 2 :> from(2)
  IN  [pkg \in Packages |-> p0]
MCLockfileFindings == {{}, {F("analysis.failed", "BLOCK")}}
MCPolicies ==
  {[reviewSeverities |-> None, blockSeverities |-> b, failClosed |-> None] : b \in {None, {}}}
  \cup {[reviewSeverities |-> {}, blockSeverities |-> b, failClosed |-> c] :
          b \in {{"BLOCK", "WARN"}}, c \in {None, FALSE}}
=============================================================================
