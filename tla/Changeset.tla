------------------------------ MODULE Changeset ------------------------------
(***************************************************************************)
(* computeChangeset of packages/core/src/changeset.ts: what changed        *)
(* between two lockfile graphs.                                            *)
(*                                                                         *)
(* A graph is the sequence of its nodes as in LockGraph, the root left     *)
(* out; a change names a node by its position in that sequence.  A version *)
(* without a value is a workspace entry's; any other is a number whose     *)
(* order is the string order of the code's sorts, and Coerce gives what    *)
(* semver.coerce makes of it: several versions may coerce to the same      *)
(* number (1.0.0-beta and 1.0.0), and some cannot be parsed.               *)
(***************************************************************************)
EXTENDS LockGraph

CONSTANTS
  Coerce,        \* function from versions to Nat \cup {Unparseable}
  Unparseable    \* semver.coerce returned null

ASSUME CoerceAssumption ==
  /\ DOMAIN Coerce \subseteq Nat
  /\ \A v \in DOMAIN Coerce : Coerce[v] \in Nat \cup {Unparseable}
  /\ {NoVersion, None, Unparseable} \cap Nat = {}

-----------------------------------------------------------------------------
IdOf(node) == <<node.name, node.version>>

\* The positions whose nodes enter the name@version maps.
Listed(g) == {k \in DOMAIN g : g[k].version # NoVersion}
Ids(g)    == {IdOf(g[k]) : k \in Listed(g)}

Places(g, id)  == {k \in Listed(g) : IdOf(g[k]) = id}
\* Map.set on an existing key keeps the key's place and replaces the value.
FirstKey(g, id) == Min(Places(g, id))
LastKey(g, id)  == Max(Places(g, id))
Entry(g, id)    == g[LastKey(g, id)]

\* oldByName / newByName: the versions of a name, in the order of FirstKey.
VersionSet(g, name) == {id[2] : id \in {i \in Ids(g) : i[1] = name}}
ListedBy(g, name, v, w) == FirstKey(g, <<name, v>>) <= FirstKey(g, <<name, w>>)

-----------------------------------------------------------------------------
(* pickClosest: the old version an upgrade is reported from.               *)

Lexically(candidates, target) ==
  LET less == {v \in candidates : v < target}
  IN  IF less # {} THEN Max(less) ELSE Min(candidates)

\* Variant: the first listed old version.
FirstCandidate(g, name, target) ==
  CHOOSE v \in VersionSet(g, name) : \A w \in VersionSet(g, name) : ListedBy(g, name, v, w)

\* Variant: string order instead of semver order.
LexicalCandidate(g, name, target) == Lexically(VersionSet(g, name), target)

\* What sorts last, and what sorts first, in a stable sort by coerced version.
Highest(g, name, versions) ==
  CHOOSE v \in versions : \A w \in versions :
    Coerce[w] < Coerce[v] \/ (Coerce[w] = Coerce[v] /\ ListedBy(g, name, w, v))
Lowest(g, name, versions) ==
  CHOOSE v \in versions : \A w \in versions :
    Coerce[v] < Coerce[w] \/ (Coerce[v] = Coerce[w] /\ ListedBy(g, name, v, w))

PickClosest(g, name, target) ==
  LET candidates == VersionSet(g, name)
      parsed == {v \in candidates : Coerce[v] # Unparseable}
      atMost == {v \in parsed : Coerce[v] <= Coerce[target]}
  IN  CASE Coerce[target] = Unparseable \/ parsed = {} -> Lexically(candidates, target)
        [] Coerce[target] # Unparseable /\ parsed # {} ->
             IF atMost # {} THEN Highest(g, name, atMost) ELSE Lowest(g, name, parsed)

-----------------------------------------------------------------------------
(* A change carries the two node keys; 0 stands for a null key.            *)
Change(kind, name, old, new, kOld, kNew, oldV, newV) ==
  [kind |-> kind, name |-> name, keyOld |-> kOld, keyNew |-> kNew,
   oldV |-> oldV, newV |-> newV,
   oldI |-> IF kOld = 0 THEN None ELSE old[kOld].integrity,
   newI |-> IF kNew = 0 THEN None ELSE new[kNew].integrity]

\* Variant: a hash that vanished is no signal.
IntegrityReplaced(old, new) ==
  {Change("integrity-changed", id[1], old, new,
          LastKey(old, id), LastKey(new, id), id[2], id[2]) :
     id \in {i \in Ids(old) \cap Ids(new) :
               Entry(new, i).integrity \notin {NoIntegrity, Entry(old, i).integrity}}}

\* Same version on both sides, integrity differs, not both blank.
IntegrityChanged(old, new) ==
  {Change("integrity-changed", id[1], old, new,
          LastKey(old, id), LastKey(new, id), id[2], id[2]) :
     id \in {i \in Ids(old) \cap Ids(new) :
               Entry(old, i).integrity # Entry(new, i).integrity}}

Added(old, new) ==
  {Change("added", id[1], old, new, 0, LastKey(new, id), None, id[2]) :
     id \in {i \in Ids(new) : VersionSet(old, i[1]) = {}}}

\* Only a name that left the graph altogether is reported as removed.
Removed(old, new) ==
  {Change("removed", id[1], old, new, LastKey(old, id), 0, id[2], None) :
     id \in {i \in Ids(old) : VersionSet(new, i[1]) = {}}}

\* Variant: the old node is looked up by name.
UpgradedByName(old, new) ==
  {LET from == PickClosest(old, id[1], id[2])
   IN  Change("upgraded", id[1], old, new,
              Min({k \in Listed(old) : old[k].name = id[1]}), LastKey(new, id), from, id[2]) :
     id \in {i \in Ids(new) \ Ids(old) : VersionSet(old, i[1]) # {}}}

Upgraded(old, new) ==
  {LET from == PickClosest(old, id[1], id[2])
   IN  Change("upgraded", id[1], old, new,
              LastKey(old, <<id[1], from>>), LastKey(new, id), from, id[2]) :
     id \in {i \in Ids(new) \ Ids(old) : VersionSet(old, i[1]) # {}}}

KindRank(kind) == CASE kind = "added" -> 1 [] kind = "integrity-changed" -> 2
                    [] kind = "removed" -> 3 [] kind = "upgraded" -> 4

\* The final stable sort: name, kind, new version (null sorts as ''); removed
\* versions of one name tie and keep their map order.
Before(old, c, d) ==
  \/ c.name < d.name
  \/ c.name = d.name /\ KindRank(c.kind) < KindRank(d.kind)
  \/ /\ c.name = d.name /\ c.kind = d.kind
     /\ IF c.kind = "removed"
        THEN FirstKey(old, <<c.name, c.oldV>>) < FirstKey(old, <<d.name, d.oldV>>)
        ELSE c.newV < d.newV

AllChanges(old, new) ==
  IntegrityChanged(old, new) \cup Added(old, new) \cup Removed(old, new) \cup Upgraded(old, new)

\* Each change at the place that as many others come before.
ComputeChangeset(old, new) ==
  LET all == AllChanges(old, new)
  IN  [i \in 1..Cardinality(all) |->
         CHOOSE c \in all : Cardinality({d \in all : Before(old, d, c)}) = i - 1]
=============================================================================
