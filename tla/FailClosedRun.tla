---------------------------- MODULE FailClosedRun ----------------------------
(***************************************************************************)
(* What a run promises whoever reads its verdict, without pool, cache,     *)
(* timeouts or findings: a set of packages is asked for before any answer  *)
(* comes, each package answers once, and the verdict comes after the last  *)
(* answer and is BLOCK as soon as one of them is a failure or one of them  *)
(* was tampered with.                                                      *)
(***************************************************************************)
CONSTANTS Id, None

VARIABLES
  outcome,    \* per package: "unasked", "pending", "ok" or "failed"
  tampered,   \* some version is pinned under two hashes
  verdict     \* None, a verdict, or "rejected" when the run threw

vars == <<outcome, tampered, verdict>>

Verdicts == {"CLEAN", "INFO", "WARN", "BLOCK"}

Init ==
  /\ outcome = [id \in Id |-> "unasked"]
  /\ tampered \in BOOLEAN
  /\ verdict = None

Ask(ids) ==
  /\ verdict = None
  /\ \A id \in Id : outcome[id] \in {"unasked", "pending"}
  /\ outcome' = [id \in Id |-> IF id \in ids THEN "pending" ELSE outcome[id]]
  /\ UNCHANGED <<tampered, verdict>>

Answer(id, o) ==
  /\ verdict = None
  /\ outcome[id] = "pending"
  /\ outcome' = [outcome EXCEPT ![id] = o]
  /\ UNCHANGED <<tampered, verdict>>

Return(v) ==
  /\ verdict = None
  /\ \A id \in Id : outcome[id] # "pending"
  /\ (tampered \/ \E id \in Id : outcome[id] = "failed") => v = "BLOCK"
  /\ verdict' = v
  /\ UNCHANGED <<outcome, tampered>>

Reject ==
  /\ verdict = None
  /\ verdict' = "rejected"
  /\ UNCHANGED <<outcome, tampered>>

Next ==
  \/ \E ids \in SUBSET Id : Ask(ids)
  \/ \E id \in Id, o \in {"ok", "failed"} : Answer(id, o)
  \/ \E v \in Verdicts : Return(v)
  \/ Reject

Spec == Init /\ [][Next]_vars
=============================================================================
