-------------------------- MODULE SandboxRunProofs --------------------------
(***************************************************************************)
(* Theorems about SandboxRun, for answers, caps and pipes of any size: an  *)
(* "ok" is a complete scan, and no process outlives its scan.              *)
(***************************************************************************)
EXTENDS SandboxRun, TLAPS

Answers == [kind : {"result", "error", "garbled"}, size : 1..MaxAnswer, code : {0, 1}]

Typed ==
  /\ parent \in {"idle", "prepared", "waiting", "settled", "returned"}
  /\ outcome \in {None, "ok", "failed", "timeout", "rejected"}
  /\ child \in {"none", "unspawned", "starting", "scanning", "answering", "dead"}
  /\ timer \in BOOLEAN /\ exitEvent \in BOOLEAN
  /\ heard \in Nat /\ wrote \in Nat
  /\ answer \in Answers \cup {None}
  /\ code \in {None, 0, 1}

\* What the parent has heard is part of what the child wrote, which is part of
\* an answer; what is heard before the outcome is below the cap.
HeardIsWritten ==
  /\ heard <= wrote
  /\ child = "answering" => answer # None
  /\ child \in {"none", "unspawned", "starting", "scanning"} => answer = None
  /\ answer = None => wrote = 0
  /\ answer # None => wrote <= answer.size
  /\ outcome = None => heard <= StdoutCap

\* Only a process that is gone has a code or an 'exit' to be handled.
EndedIsDead == code # None \/ exitEvent => child = "dead"

\* There is a process only while the parent waits for an outcome.
WaitingForOutcome ==
  /\ timer => parent = "waiting"
  /\ parent \in {"settled", "returned"} <=> outcome # None
  /\ parent \in {"idle", "prepared"} => child = "none"
  /\ outcome # None => ~Alive

Inv == Typed /\ HeardIsWritten /\ EndedIsDead /\ WaitingForOutcome /\ OkIsComplete

LEMMA Distinct ==
  /\ None # "ok" /\ None # "failed" /\ None # "timeout" /\ None # "rejected"
  /\ None # 0 /\ None # 1
  /\ \A a \in Answers : a # None /\ a.size \in Nat /\ a.size > 0 /\ a.code \in {0, 1}
  /\ StdoutCap \in Nat
PROOF
<1>1. None # "ok" /\ None # "failed" /\ None # "timeout" /\ None # "rejected"
  BY NoneAssumption
<1>2. None # 0 /\ None # 1
  BY NoneAssumption
<1>3. \A a \in Answers : a # None /\ a.size \in Nat /\ a.size > 0 /\ a.code \in {0, 1}
  BY NoneAssumption, SizesAssumption DEF Answers
<1>4. StdoutCap \in Nat
  BY SizesAssumption
<1> QED BY <1>1, <1>2, <1>3, <1>4

LEMMA InitInv == Init => Inv
PROOF
<1> SUFFICES ASSUME Init PROVE Inv
  OBVIOUS
<1>1. Typed
  BY DEF Init, Typed
<1>2. HeardIsWritten
  BY Distinct DEF Init, HeardIsWritten
<1>3. EndedIsDead
  BY DEF Init, EndedIsDead
<1>4. WaitingForOutcome
  BY DEF Init, WaitingForOutcome
<1>5. OkIsComplete
  BY Distinct DEF Init, OkIsComplete
<1> QED BY <1>1, <1>2, <1>3, <1>4, <1>5 DEF Inv

LEMMA NextInv == Inv /\ [Next]_vars => Inv'
PROOF
<1> SUFFICES ASSUME Inv, [Next]_vars PROVE Inv'
  OBVIOUS
<1>1. CASE MakeDir
  BY <1>1, Distinct DEF MakeDir, other,
    Inv, Typed, HeardIsWritten, EndedIsDead, WaitingForOutcome, OkIsComplete, Alive
<1>2. CASE WriteLockfiles
  <2>1. Typed'
    BY <1>2, Distinct DEF WriteLockfiles, Inv, Typed, HeardIsWritten, EndedIsDead, WaitingForOutcome, OkIsComplete, Alive
  <2>2. HeardIsWritten'
    BY <1>2, Distinct DEF WriteLockfiles, Inv, Typed, HeardIsWritten, EndedIsDead, WaitingForOutcome, OkIsComplete, Alive
  <2>3. EndedIsDead'
    BY <1>2, Distinct DEF WriteLockfiles, Inv, Typed, HeardIsWritten, EndedIsDead, WaitingForOutcome, OkIsComplete, Alive
  <2>4. WaitingForOutcome'
    BY <1>2, Distinct DEF WriteLockfiles, Inv, Typed, HeardIsWritten, EndedIsDead, WaitingForOutcome, OkIsComplete, Alive
  <2>5. OkIsComplete'
    BY <1>2, Distinct DEF WriteLockfiles, Inv, Typed, HeardIsWritten, EndedIsDead, WaitingForOutcome, OkIsComplete, Alive
  <2> QED BY <2>1, <2>2, <2>3, <2>4, <2>5 DEF Inv
<1>3. CASE TearDown
  BY <1>3, Distinct DEF TearDown, other,
    Inv, Typed, HeardIsWritten, EndedIsDead, WaitingForOutcome, OkIsComplete, Alive
<1>4. CASE OnTimer
  BY <1>4, Distinct DEF OnTimer, KillPgroup, Settle, Settled,
    Inv, Typed, HeardIsWritten, EndedIsDead, WaitingForOutcome, OkIsComplete, Alive
<1>5. CASE OnData
  <2>1. Typed'
    <3>1. heard' \in Nat /\ wrote' \in Nat
      BY <1>5 DEF OnData, Inv, Typed
    <3>2. answer' \in Answers \cup {None} /\ code' \in {None, 0, 1}
      BY <1>5 DEF OnData, Inv, Typed
    <3>3. child' \in {child, "dead"} /\ parent' \in {parent, "settled"} /\ outcome' \in {outcome, "failed"}
      BY <1>5 DEF OnData, KillPgroup, Settle, Settled
    <3>4. timer' \in BOOLEAN /\ exitEvent' \in BOOLEAN
      BY <1>5, Zenon DEF OnData, KillPgroup, Settle, Settled, Inv, Typed
    <3> QED BY <3>1, <3>2, <3>3, <3>4 DEF Inv, Typed
  <2>2. HeardIsWritten'
    BY <1>5, Distinct DEF OnData, KillPgroup, Settle, Settled, Inv, Typed, HeardIsWritten, EndedIsDead, WaitingForOutcome, OkIsComplete, Alive
  <2>3. EndedIsDead'
    BY <1>5, Distinct DEF OnData, KillPgroup, Settle, Settled, Inv, Typed, HeardIsWritten, EndedIsDead, WaitingForOutcome, OkIsComplete, Alive
  <2>4. WaitingForOutcome'
    BY <1>5, Distinct DEF OnData, KillPgroup, Settle, Settled, Inv, Typed, HeardIsWritten, EndedIsDead, WaitingForOutcome, OkIsComplete, Alive
  <2>5. OkIsComplete'
    BY <1>5, Distinct DEF OnData, KillPgroup, Settle, Settled, Inv, Typed, HeardIsWritten, EndedIsDead, WaitingForOutcome, OkIsComplete, Alive
  <2> QED BY <2>1, <2>2, <2>3, <2>4, <2>5 DEF Inv
<1>6. CASE OnSpawnError
  BY <1>6, Distinct DEF OnSpawnError, Settle, Settled,
    Inv, Typed, HeardIsWritten, EndedIsDead, WaitingForOutcome, OkIsComplete, Alive
<1>7. CASE OnExit
  BY <1>7, Distinct DEF OnExit, Settle, Settled, Verdict,
    Inv, Typed, HeardIsWritten, EndedIsDead, WaitingForOutcome, OkIsComplete, Alive
<1>8. CASE ReadLockfiles
  <2>1. Typed'
    <3>1. [kind |-> "error", size |-> 1, code |-> 1] \in Answers
      BY SizesAssumption DEF Answers
    <3> QED BY <1>8, <3>1 DEF ReadLockfiles, mine, Answer, Inv, Typed
  <2>2. HeardIsWritten'
    <3>1. CASE dir = "ready" /\ child' = "scanning" /\ UNCHANGED answer
      BY <1>8, <3>1 DEF ReadLockfiles, mine, Inv, Typed, HeardIsWritten
    <3>2. CASE child' = "answering" /\ Answer("error", 1, 1)
      <4>1. wrote = 0 /\ heard <= 0
        BY <1>8 DEF ReadLockfiles, Inv, HeardIsWritten
      <4>2. answer' = [kind |-> "error", size |-> 1, code |-> 1]
        BY <3>2 DEF Answer
      <4>3. answer' \in Answers
        BY <4>2, SizesAssumption DEF Answers
      <4> QED BY <1>8, <3>2, <4>1, <4>3, Distinct DEF ReadLockfiles, mine, Inv, Typed, HeardIsWritten
    <3> QED BY <1>8, <3>1, <3>2 DEF ReadLockfiles
  <2>3. EndedIsDead'
    BY <1>8, Distinct DEF ReadLockfiles, mine, Answer, Inv, Typed, HeardIsWritten, EndedIsDead, WaitingForOutcome, OkIsComplete, Alive
  <2>4. WaitingForOutcome'
    BY <1>8, Distinct DEF ReadLockfiles, mine, Answer, Inv, Typed, HeardIsWritten, EndedIsDead, WaitingForOutcome, OkIsComplete, Alive
  <2>5. OkIsComplete'
    BY <1>8, Distinct DEF ReadLockfiles, mine, Answer, Inv, Typed, HeardIsWritten, EndedIsDead, WaitingForOutcome, OkIsComplete, Alive
  <2> QED BY <2>1, <2>2, <2>3, <2>4, <2>5 DEF Inv
<1>9. CASE Fetch
  BY <1>9, Distinct DEF Fetch, mine,
    Inv, Typed, HeardIsWritten, EndedIsDead, WaitingForOutcome, OkIsComplete, Alive
<1>10. CASE FinishScan
  <2>1. Typed'
    <3>1. answer' \in Answers
      BY <1>10 DEF FinishScan, Answer, Answers
    <3> QED BY <1>10, <3>1 DEF FinishScan, mine, Inv, Typed
  <2>2. HeardIsWritten'
    <3>1. answer' \in Answers
      BY <1>10 DEF FinishScan, Answer, Answers
    <3>2. wrote = 0 /\ heard <= 0
      BY <1>10 DEF FinishScan, Inv, HeardIsWritten
    <3> QED BY <1>10, <3>1, <3>2, Distinct DEF FinishScan, mine, Inv, Typed, HeardIsWritten
  <2>3. EndedIsDead'
    BY <1>10, Distinct DEF FinishScan, mine, Answer, Inv, Typed, HeardIsWritten, EndedIsDead, WaitingForOutcome, OkIsComplete, Alive
  <2>4. WaitingForOutcome'
    BY <1>10, Distinct DEF FinishScan, mine, Answer, Inv, Typed, HeardIsWritten, EndedIsDead, WaitingForOutcome, OkIsComplete, Alive
  <2>5. OkIsComplete'
    BY <1>10, Distinct DEF FinishScan, mine, Answer, Inv, Typed, HeardIsWritten, EndedIsDead, WaitingForOutcome, OkIsComplete, Alive
  <2> QED BY <2>1, <2>2, <2>3, <2>4, <2>5 DEF Inv
<1>11. CASE WriteAnswer
  BY <1>11, Distinct DEF WriteAnswer, mine,
    Inv, Typed, HeardIsWritten, EndedIsDead, WaitingForOutcome, OkIsComplete, Alive
<1>12. CASE Exit
  <2>1. Typed'
    <3>1. answer \in Answers
      BY <1>12 DEF Exit, Inv, Typed, HeardIsWritten
    <3>2. code' \in {0, 1}
      BY <1>12, <3>1, Distinct DEF Exit
    <3> QED BY <1>12, <3>2 DEF Exit, mine, Inv, Typed
  <2>2. HeardIsWritten'
    BY <1>12, Distinct DEF Exit, mine, Inv, Typed, HeardIsWritten, EndedIsDead, WaitingForOutcome, OkIsComplete, Alive
  <2>3. EndedIsDead'
    BY <1>12, Distinct DEF Exit, mine, Inv, Typed, HeardIsWritten, EndedIsDead, WaitingForOutcome, OkIsComplete, Alive
  <2>4. WaitingForOutcome'
    BY <1>12, Distinct DEF Exit, mine, Inv, Typed, HeardIsWritten, EndedIsDead, WaitingForOutcome, OkIsComplete, Alive
  <2>5. OkIsComplete'
    BY <1>12, Distinct DEF Exit, mine, Inv, Typed, HeardIsWritten, EndedIsDead, WaitingForOutcome, OkIsComplete, Alive
  <2> QED BY <2>1, <2>2, <2>3, <2>4, <2>5 DEF Inv
<1>13. CASE Crash
  BY <1>13, Distinct DEF Crash, mine,
    Inv, Typed, HeardIsWritten, EndedIsDead, WaitingForOutcome, OkIsComplete, Alive
<1>14. CASE UNCHANGED vars
  BY <1>14, Distinct DEF vars, mine, other,
    Inv, Typed, HeardIsWritten, EndedIsDead, WaitingForOutcome, OkIsComplete, Alive
<1> QED
  BY <1>1, <1>2, <1>3, <1>4, <1>5, <1>6, <1>7, <1>8, <1>9, <1>10, <1>11, <1>12, <1>13, <1>14
  DEF Next, Parent, Handlers, Child

LEMMA InvHolds == Spec => []Inv
BY InitInv, NextInv, PTL DEF Spec

-----------------------------------------------------------------------------
\* An "ok" of runScanInSandbox is a complete scan by a child that exited well.
THEOREM OkIsACompleteScan == Spec => []OkIsComplete
<1>1. Inv => OkIsComplete
  BY DEF Inv
<1> QED BY <1>1, InvHolds, PTL

\* When runScanInSandbox returns its child is gone.
THEOREM NoProcessOutlivesItsScan == Spec => []NoProcessLeft
<1>1. Inv => NoProcessLeft
  BY DEF Inv, WaitingForOutcome, NoProcessLeft
<1> QED BY <1>1, InvHolds, PTL
=============================================================================
