---------------------------- MODULE ChangesetCheck ----------------------------
(***************************************************************************)
(* What the result of computeChangeset promises to the engine that         *)
(* consumes it, for the two graphs it was given.                           *)
(***************************************************************************)
EXTENDS Changeset

VARIABLES
  old, new,      \* the graphs compared, roots left out
  changes        \* what computeChangeset returned, None before

compareVars == <<old, new, changes>>

\* A sequence of nodes, whose listed ones have a name and a version.
IsGraph(g) ==
  /\ Len(g) \in Nat /\ g = [k \in 1..Len(g) |-> g[k]]
  /\ \A k \in Listed(g) : g[k].name \in Nat /\ g[k].version \in DOMAIN Coerce

CompareInit == old = None /\ new = None /\ changes = None

Compare(g, h) ==
  /\ changes = None
  /\ old' = g /\ new' = h
  /\ changes' = ComputeChangeset(g, h)

\* The comparison alone, of any two graphs.
CompareSpec == CompareInit /\ [][\E g, h : IsGraph(g) /\ IsGraph(h) /\ Compare(g, h)]_compareVars

-----------------------------------------------------------------------------
Computed == changes # None

\* Every position of one package carries one integrity, as it does in every
\* lockfile a package manager wrote.
Consistent(g) ==
  \A j, k \in Listed(g) : IdOf(g[j]) = IdOf(g[k]) => g[j].integrity = g[k].integrity

\* The artifacts a graph lists, and those of the new side that some change
\* asks the engine to analyze.
ArtifactsOf(g) == {<<g[k].name, g[k].version, g[k].integrity>> : k \in Listed(g)}
NewArtifacts == {<<c.name, c.newV, c.newI>> : c \in {d \in Range(changes) : d.newV # None}}

(***************************************************************************)
(* The changes do not depend on where packages sit in the tree: moving     *)
(* nodes around (hoisting) in either graph leaves the same changes, node   *)
(* keys aside, unless two old versions of a package coerce to one number.  *)
(***************************************************************************)
Reversed(g) == [k \in DOMAIN g |-> g[Len(g) + 1 - k]]
Unplaced(c) == <<c.kind, c.name, c.oldV, c.newV, c.oldI, c.newI>>
Distinguished(g) ==
  \A i, j \in Ids(g) :
    i[1] = j[1] /\ Coerce[i[2]] = Coerce[j[2]] => i = j \/ Coerce[i[2]] = Unparseable

HoistingIrrelevant ==
  Computed /\ Consistent(old) /\ Consistent(new) /\ Distinguished(old) =>
    {Unplaced(c) : c \in Range(changes)} =
      {Unplaced(c) : c \in Range(ComputeChangeset(Reversed(old), Reversed(new)))}

(***************************************************************************)
(* Swapping the two lockfiles turns added into removed and the reverse,    *)
(* keeps the integrity changes with their two hashes exchanged, and keeps  *)
(* the names on which an upgrade or downgrade is reported whenever each    *)
(* side has a version the other lacks.                                     *)
(***************************************************************************)
OfKind(cs, kind) == {c \in Range(cs) : c.kind = kind}

SwapSymmetric ==
  Computed =>
    LET back == ComputeChangeset(new, old) IN
      /\ {<<c.name, c.newV>> : c \in OfKind(changes, "added")}
           = {<<c.name, c.oldV>> : c \in OfKind(back, "removed")}
      /\ {<<c.name, c.newV, c.oldI, c.newI>> : c \in OfKind(changes, "integrity-changed")}
           = {<<c.name, c.newV, c.newI, c.oldI>> : c \in OfKind(back, "integrity-changed")}
      /\ \A c \in OfKind(changes, "upgraded") :
           (VersionSet(old, c.name) \ VersionSet(new, c.name) # {})
             <=> \E d \in OfKind(back, "upgraded") : d.name = c.name

(***************************************************************************)
(* The old side of an upgrade is the closest one: no parseable old version *)
(* lies strictly between it and the new one, and a higher version is taken *)
(* as the origin only when no parseable old version is at or below it.     *)
(***************************************************************************)
UpgradeFromClosest ==
  Computed =>
    \A c \in OfKind(changes, "upgraded") :
      LET parseable == {v \in VersionSet(old, c.name) : Coerce[v] # Unparseable} IN
        (Coerce[c.newV] # Unparseable /\ parseable # {}) =>
          /\ c.oldV \in parseable
          /\ \A v \in parseable :
               /\ ~(Coerce[c.oldV] < Coerce[v] /\ Coerce[v] <= Coerce[c.newV])
               /\ ~(Coerce[c.newV] <= Coerce[v] /\ Coerce[v] < Coerce[c.oldV])
               /\ Coerce[c.oldV] > Coerce[c.newV] => Coerce[v] > Coerce[c.newV]

(***************************************************************************)
(* No package is reported twice as a new artifact, and every reported side *)
(* names a node that really holds that package on that side; the engine    *)
(* reads the resolved URL and the provenance path through these keys.      *)
(***************************************************************************)
KeysHoldTheirPackage ==
  Computed =>
    /\ \A i, j \in DOMAIN changes :
         (/\ changes[i].newV # None
          /\ changes[i].name = changes[j].name
          /\ changes[i].newV = changes[j].newV) => i = j
    /\ \A c \in Range(changes) :
         /\ c.newV # None => /\ IdOf(new[c.keyNew]) = <<c.name, c.newV>>
                             /\ new[c.keyNew].integrity = c.newI
         /\ c.oldV # None => /\ IdOf(old[c.keyOld]) = <<c.name, c.oldV>>
                             /\ old[c.keyOld].integrity = c.oldI

(***************************************************************************)
(* Nothing new goes unanalyzed: every artifact only the new graph lists is *)
(* the new side of a change.  A graph that gives one package two hashes    *)
(* shows the last one only (changeset.ts:44-75).                           *)
(***************************************************************************)
NothingNewIsLost ==
  Computed /\ Consistent(new) => ArtifactsOf(new) \ ArtifactsOf(old) \subseteq NewArtifacts
=============================================================================
