----------------------------- MODULE Admission -----------------------------
(***************************************************************************)
(* Admission for an agent (packages/mcp/src/admission.ts, server.ts): the  *)
(* MCP server compares the package an agent wants to install with the      *)
(* version on disk, turns findings into a decision, and issues and         *)
(* verifies receipts.  The project's node_modules and the registry belong  *)
(* to others and may change at any moment.                                 *)
(***************************************************************************)
EXTENDS Naturals, FiniteSets

CONSTANTS
  Packages, Versions, Latest, None,
  Specs, NameOf, VersionOf,
  Reported,      \* package, version on disk or None, new version: what the detectors report
  LockfileFindings,  \* what analyze_lockfile_change may have reported besides: sets of findings
  Policies,      \* what an agent gives as policy; a field it leaves out is None
  MaxRequests,   \* bound: requests for an analysis
  MaxReceipts    \* bound: receipts in agents' hands

VARIABLES
  nodeModules, latest,   \* the machine's and the registry's
  request,       \* the analysis in progress: [pc, pkg, version, installed], or NoRequest
  requests,      \* requests made
  temps,         \* tarballs in the temp directory, by version
  analyses,      \* those that were returned
  receipts       \* in the hands of agents

agent == <<request, requests, temps, analyses, receipts>>

NoRequest == [pc |-> "none", pkg |-> None, version |-> None, installed |-> None]

AgentInit ==
  /\ request = NoRequest /\ requests = 0 /\ temps = {} /\ analyses = {} /\ receipts = {}

-----------------------------------------------------------------------------
(* Decisions.                                                              *)

Default(value, default) == IF value = None THEN default ELSE value

\* Without order and repetitions: the lists are sets here.
NormalizedPolicy(policy) ==
  [reviewSeverities |-> Default(policy.reviewSeverities, {"WARN", "INFO"}),
   blockSeverities  |-> Default(policy.blockSeverities, {"BLOCK"}),
   failClosed       |-> Default(policy.failClosed, TRUE)]

EvaluatePolicy(findings, policy) ==
  LET resolved == NormalizedPolicy(policy)
      seen == {f.severity : f \in findings}
      failed == resolved.failClosed /\ \E f \in findings : f.detector = "analysis.failed"
  IN  CASE failed \/ seen \cap resolved.blockSeverities # {} -> "block"
        [] ~failed /\ seen \cap resolved.blockSeverities = {}
           /\ seen \cap resolved.reviewSeverities # {} -> "review"
        [] OTHER -> "allow"

\* A hash stands for what it is the hash of.
CreateReceipt(input) == [unsigned |-> input, receiptHash |-> input]
VerifyReceipt(receipt) == receipt.receiptHash = receipt.unsigned

-----------------------------------------------------------------------------
(* analyze_package_install.                                                *)

At(pc) == request.pc = pc
Go(pc) == request' = [request EXCEPT !.pc = pc]

\* Whatever is thrown is answered as an error; both tarballs are unlinked.
Throw == request' = NoRequest /\ temps' = {}

Ask ==
  /\ At("none") /\ requests < MaxRequests
  /\ requests' = requests + 1
  /\ \E spec \in Specs :
       \E version \in {IF VersionOf[spec] = Latest THEN latest[NameOf[spec]] ELSE VersionOf[spec]} :
         request' = [pc |-> "fetched", pkg |-> NameOf[spec], version |-> version, installed |-> None]
                    /\ temps' = {version}
  /\ UNCHANGED <<analyses, receipts>>

AskInVain ==
  /\ At("none") /\ requests < MaxRequests
  /\ requests' = requests + 1
  /\ UNCHANGED <<request, temps, analyses, receipts>>

AnalyzeNew ==
  /\ At("fetched")
  /\ (Go("analyzed") /\ UNCHANGED temps) \/ Throw
  /\ UNCHANGED <<requests, analyses, receipts>>

\* A manifest on disk that cannot be read counts as nothing installed.
ReadInstalled ==
  /\ At("analyzed")
  /\ \E installed \in {None, nodeModules[request.pkg]} :
       request' = [request EXCEPT !.installed = installed,
                     !.pc = IF installed \in {None, request.version} THEN "compare" ELSE "old"]
  /\ UNCHANGED <<requests, temps, analyses, receipts>>

FetchOld ==
  /\ At("old")
  /\ (Go("oldFetched") /\ temps' = temps \cup {request.installed}) \/ Throw
  /\ UNCHANGED <<requests, analyses, receipts>>

AnalyzeOld ==
  /\ At("oldFetched")
  /\ (Go("compare") /\ temps' = temps \ {request.installed}) \/ Throw
  /\ UNCHANGED <<requests, analyses, receipts>>

\* The version to compare with: none if it is the one that is on disk.
OldSide(installed, version) == IF installed = version THEN None ELSE installed

\* The project hash covers the version that was compared with.
Analysis(installed) ==
  [pkg |-> request.pkg, artifactSha256 |-> request.version,
   projectHash |-> <<request.pkg, installed>>,
   findings |-> Reported[request.pkg][OldSide(request.installed, request.version)][request.version]]

\* Variant: the installed version is read again for the project hash.
CompareRereads ==
  /\ At("compare")
  /\ analyses' = analyses \cup {Analysis(nodeModules[request.pkg])}
  /\ request' = NoRequest /\ temps' = {}
  /\ UNCHANGED <<requests, receipts>>

Compare ==
  /\ At("compare")
  /\ analyses' = analyses \cup {Analysis(request.installed)}
  /\ request' = NoRequest /\ temps' = {}
  /\ UNCHANGED <<requests, receipts>>

-----------------------------------------------------------------------------
(* Receipts.                                                               *)

\* issue_admission_receipt, for an agent that hands on what it was told of the
\* package, and of the lockfiles.
Issue ==
  /\ Cardinality(receipts) < MaxReceipts
  /\ \E a \in analyses, others \in LockfileFindings, policy \in Policies :
       LET findings == a.findings \cup others
       IN  receipts' = receipts \cup
         {CreateReceipt([package |-> a.pkg, artifactSha256 |-> a.artifactSha256,
                         projectHash |-> a.projectHash, policyHash |-> NormalizedPolicy(policy),
                         findingsHash |-> findings,
                         decision |-> EvaluatePolicy(findings, policy)])}
  /\ UNCHANGED <<request, requests, temps, analyses>>

\* A receipt's text is changed where it is kept.
Alter ==
  /\ \E r \in receipts, d \in {"allow", "review", "block"}, a \in analyses :
       receipts' = (receipts \ {r}) \cup
         {[r EXCEPT !.unsigned.decision = d, !.unsigned.findingsHash = a.findings]}
  /\ UNCHANGED <<request, requests, temps, analyses>>

Admit == Ask \/ AskInVain \/ AnalyzeNew \/ ReadInstalled \/ FetchOld \/ AnalyzeOld \/ Compare \/ Issue \/ Alter

-----------------------------------------------------------------------------
Strictness == [allow |-> 1, review |-> 2, block |-> 3]

\* A receipt that verifies speaks of one comparison, whatever was installed
\* meanwhile: its findings hold those of the artifact it names against the
\* version its project hash stands for, its decision is no milder than that of
\* a part of them, and what it allows neither failed nor shows a
\* severity its policy asks about.  When no request is in progress no tarball
\* is left (admission.ts: "The returned artifact hash binds a future receipt to
\* the exact bytes that were analyzed").
ReceiptsAreBound ==
  /\ At("none") => temps = {}
  /\ \A r \in {x \in receipts : VerifyReceipt(x)} :
       LET said == r.unsigned
           installed == said.projectHash[2]
           found == Reported[said.package][OldSide(installed, said.artifactSha256)][said.artifactSha256]
           asked == said.policyHash.blockSeverities \cup said.policyHash.reviewSeverities
       IN  /\ found \subseteq said.findingsHash
           /\ \A part \in SUBSET said.findingsHash :
                Strictness[EvaluatePolicy(part, said.policyHash)] <= Strictness[said.decision]
           /\ said.decision = "allow" =>
                \A f \in said.findingsHash :
                    /\ f.severity \notin asked
                    /\ said.policyHash.failClosed => f.detector # "analysis.failed"
=============================================================================
