-------------------------- MODULE GateAndAdmission --------------------------
(***************************************************************************)
(* One project: a developer under the install gate and an agent that asks  *)
(* for admission.  They share node_modules and the registry; what the gate *)
(* lets the package manager install is what the agent's request finds.     *)
(***************************************************************************)
EXTENDS InstallGate

CONSTANTS Reported, LockfileFindings, Policies, MaxRequests, MaxReceipts
VARIABLES request, requests, temps, analyses, receipts

agentVars == <<request, requests, temps, analyses, receipts>>
Agent == INSTANCE Admission

Gate  == Next /\ UNCHANGED agentVars
Admit == Agent!Admit /\ UNCHANGED vars

SharedInit == Init /\ Agent!AgentInit
SharedNext == Gate \/ Admit
GateFairness == WF_vars((Lookup \/ Shim \/ Add \/ PackageManager) /\ UNCHANGED agentVars)
SharedSpec == SharedInit /\ [][SharedNext]_<<vars, agentVars>> /\ GateFairness

ReceiptsAreBound == Agent!ReceiptsAreBound
=============================================================================
