--------------------------- MODULE MCSnapshotCache ---------------------------
(* Two calls of one process and one of another.                            *)
EXTENDS SnapshotCache, TLC

CONSTANTS a, b, c, p, q, x, y, ms1, ms2

MCTasks  == {a, b, c}
MCProcOf == (a :> p) @@ (b :> p) @@ (c :> q)

\* An honest entry; an entry of another install and an honest one under a
\* second name, as a restored backup may leave them.
MCInitialEntries ==
  {[i \in {x, y} |-> IF i = x THEN Sealed(x, OldKey, OldSnap) ELSE None],
   [i \in {x, y} |-> IF i = x THEN Sealed(x, OtherKey, OldSnap) ELSE Sealed(x, OldKey, OldSnap)]}

MCStamps == {ms1, ms2}

MCSymmetry == Permutations({a, b}) \cup Permutations(MCStamps)
=============================================================================
