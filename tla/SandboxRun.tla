----------------------------- MODULE SandboxRun -----------------------------
(***************************************************************************)
(* One scan in a subprocess: runScanInSandbox of                           *)
(* packages/api/src/sandbox.ts and the child it starts, scan-runner.ts.    *)
(*                                                                         *)
(* Parent and child share the scan's directory, the pipe the child writes  *)
(* its answer to, and the process's end.  The answer is a number of        *)
(* chunks: `wrote' have left the child, `heard' have reached the parent's  *)
(* 'data' handler.  Node queues the events independently: 'exit' may be    *)
(* handled while chunks are still in the pipe.                             *)
(***************************************************************************)
EXTENDS Integers

CONSTANTS
  MaxAnswer,   \* bound: the chunks of the longest answer
  StdoutCap,   \* the 4 MB cap, in chunks
  PipeSize,    \* what the pipe holds; the child's write blocks beyond it
  None

ASSUME SizesAssumption == {MaxAnswer, StdoutCap, PipeSize} \subseteq Nat \ {0}
ASSUME NoneAssumption ==
  /\ None \notin Nat
  /\ None \notin {"ok", "failed", "timeout", "rejected"}
  /\ \A r \in [kind : {"result", "error", "garbled"}, size : 1..MaxAnswer, code : {0, 1}] : r # None

VARIABLES
  parent,    \* "idle", "prepared", "waiting", "settled", "returned"
  dir,       \* the sandbox directory: "absent", "empty", "partial", "ready"
  timer,     \* the wall-clock timer is armed
  heard,     \* chunks in stdoutBuf
  outcome,   \* what the promise resolved to, "rejected" when it threw
  child,     \* "none", "unspawned", "starting", "scanning", "answering", "dead"
  answer,    \* what the child writes and the code it then exits with
  wrote,
  code,      \* the exit code; None while it lives and when a signal ended it
  exitEvent, \* 'exit' is queued
  tarballs   \* tarballs its engine holds under ~/.cache, outside dir

mine  == <<parent, dir, timer, heard, outcome>>
other == <<child, answer, wrote, code, exitEvent, tarballs>>
vars  == <<mine, other>>

Init ==
  /\ parent = "idle" /\ dir = "absent" /\ timer = FALSE /\ heard = 0 /\ outcome = None
  /\ child = "none" /\ answer = None /\ wrote = 0 /\ code = None
  /\ exitEvent = FALSE /\ tarballs = 0

Alive == child \in {"starting", "scanning", "answering"}

-----------------------------------------------------------------------------
(* runScanInSandbox.                                                       *)

MakeDir ==
  /\ parent = "idle"
  /\ \/ parent' = "prepared" /\ dir' = "empty" /\ UNCHANGED outcome
     \/ parent' = "returned" /\ outcome' = "rejected" /\ UNCHANGED dir
  /\ UNCHANGED <<timer, heard, other>>

\* Both lockfiles, then the spawn; a write that fails goes to the finally block.
WriteLockfiles ==
  /\ parent = "prepared"
  /\ \/ /\ dir' = "ready" /\ parent' = "waiting" /\ timer' = TRUE
        /\ child' \in {"starting", "unspawned"}
        /\ UNCHANGED outcome
     \/ /\ dir' \in {"empty", "partial"} /\ parent' = "settled" /\ outcome' = "rejected"
        /\ UNCHANGED <<timer, child>>
  /\ UNCHANGED <<heard, answer, wrote, code, exitEvent, tarballs>>

\* rm -rf in the finally block; its failure is swallowed.
TearDown ==
  /\ parent = "settled"
  /\ parent' = "returned"
  /\ dir' \in {"absent", dir}
  /\ UNCHANGED <<timer, heard, outcome, other>>

-----------------------------------------------------------------------------
(* runSubprocess: the handlers of the child's events and of the timer.     *)

Settled == outcome # None

\* The first outcome wins and disarms the timer.
Settle(o) ==
  IF Settled THEN UNCHANGED <<parent, timer, outcome>>
  ELSE outcome' = o /\ timer' = FALSE /\ parent' = "settled"

\* SIGKILL to the group; nothing to do when there is no process any more.
KillPgroup ==
  IF Alive THEN child' = "dead" /\ exitEvent' = TRUE ELSE UNCHANGED <<child, exitEvent>>

\* Variant: the child is left to end by itself.
OnTimerWithoutKill ==
  /\ timer
  /\ Settle("timeout")
  /\ UNCHANGED <<dir, heard, other>>

OnTimer ==
  /\ timer
  /\ KillPgroup
  /\ Settle("timeout")
  /\ UNCHANGED <<dir, heard, answer, wrote, code, tarballs>>

\* Variant: a child that answers has its timer disarmed.
OnDataDisarming ==
  /\ heard < wrote
  /\ heard' = heard + 1
  /\ timer' = FALSE
  /\ UNCHANGED <<parent, dir, outcome, other>>

\* Chunks past the cap are cut off; so is the child.
OnData ==
  /\ heard < wrote
  /\ heard' = heard + 1
  /\ IF heard + 1 > StdoutCap
     THEN KillPgroup /\ Settle("failed")
     ELSE UNCHANGED <<parent, timer, outcome, child, exitEvent>>
  /\ UNCHANGED <<dir, answer, wrote, code, tarballs>>

\* 'error': the process could not be started.
OnSpawnError ==
  /\ child = "unspawned"
  /\ child' = "none"
  /\ Settle("failed")
  /\ UNCHANGED <<dir, heard, answer, wrote, code, exitEvent, tarballs>>

\* Variant: whatever parses and is no error is a result.
VerdictWithoutCode ==
  IF heard > 0 /\ heard = answer.size /\ answer.kind = "result" THEN "ok" ELSE "failed"

\* JSON.parse takes the whole answer and no part of it, and nothing that has
\* other text around it.
Verdict ==
  IF heard > 0 /\ heard = answer.size /\ answer.kind = "result" /\ code = 0
  THEN "ok" ELSE "failed"

OnExit ==
  /\ exitEvent
  /\ exitEvent' = FALSE
  /\ IF Settled THEN UNCHANGED <<parent, timer, outcome>> ELSE Settle(Verdict)
  /\ UNCHANGED <<dir, heard, child, answer, wrote, code, tarballs>>

-----------------------------------------------------------------------------
(* scan-runner.ts.                                                         *)

Answer(kind, size, exit) == answer' = [kind |-> kind, size |-> size, code |-> exit]

\* Files that are gone, or a lockfile runDiff does not parse, end in an error payload.
ReadLockfiles ==
  /\ child = "starting"
  /\ \/ dir = "ready" /\ child' = "scanning" /\ UNCHANGED answer
     \/ child' = "answering" /\ Answer("error", 1, 1)
  /\ UNCHANGED <<mine, wrote, code, exitEvent, tarballs>>

\* The engine downloads a tarball, and removes it once it is analyzed.
Fetch ==
  /\ child = "scanning"
  /\ tarballs' = 1 - tarballs
  /\ UNCHANGED <<mine, child, answer, wrote, code, exitEvent>>

\* "garbled": something else in the process printed to stdout as well.
FinishScan ==
  /\ child = "scanning" /\ tarballs = 0
  /\ child' = "answering"
  /\ \E kind \in {"result", "garbled"}, size \in 1..MaxAnswer : Answer(kind, size, 0)
  /\ UNCHANGED <<mine, wrote, code, exitEvent, tarballs>>

WriteAnswer ==
  /\ child = "answering" /\ wrote < answer.size /\ wrote - heard < PipeSize
  /\ wrote' = wrote + 1
  /\ UNCHANGED <<mine, child, answer, code, exitEvent, tarballs>>

\* process.exit after the write returned.
Exit ==
  /\ child = "answering" /\ wrote = answer.size
  /\ child' = "dead" /\ code' = answer.code /\ exitEvent' = TRUE
  /\ UNCHANGED <<mine, answer, wrote, tarballs>>

\* Out of memory, or a fatal error at any point.
Crash ==
  /\ Alive
  /\ child' = "dead" /\ code' \in {None, 1} /\ exitEvent' = TRUE
  /\ UNCHANGED <<mine, answer, wrote, tarballs>>

-----------------------------------------------------------------------------
Handlers == OnTimer \/ OnData \/ OnSpawnError \/ OnExit
Parent   == MakeDir \/ WriteLockfiles \/ TearDown \/ Handlers
Child    == ReadLockfiles \/ Fetch \/ FinishScan \/ WriteAnswer \/ Exit \/ Crash

Next == Parent \/ Child
Spec == Init /\ [][Next]_vars

\* The parent's event loop runs and its timer fires.  The child owes nothing.
FairSpec ==
  Spec /\ WF_vars(MakeDir) /\ WF_vars(WriteLockfiles) /\ WF_vars(TearDown) /\ WF_vars(OnTimer)

-----------------------------------------------------------------------------
(***************************************************************************)
(* "ok" is a complete scan: the child answered with a result, the parent   *)
(* holds all of it, the child exited by itself with code 0 and nothing cut *)
(* the answer short.                                                       *)
(***************************************************************************)
OkIsComplete ==
  outcome = "ok" =>
    /\ child = "dead" /\ code = 0
    /\ answer.kind = "result" /\ heard = answer.size /\ heard <= StdoutCap

(***************************************************************************)
(* When the caller gets its answer no process of the scan is left, however *)
(* the timer, the cap and the child's own end raced.                       *)
(***************************************************************************)
NoProcessLeft == parent = "returned" => ~Alive

(***************************************************************************)
(* The caller gets an answer whatever the child does: hang, fill the pipe, *)
(* never start.                                                            *)
(***************************************************************************)
AlwaysReturns == <>(parent = "returned")

=============================================================================
