------------------------------ MODULE LockGraph ------------------------------
(***************************************************************************)
(* The dependency graph every lockfile parser produces.                    *)
(*                                                                         *)
(* A graph is the sequence of its nodes in the insertion order of the      *)
(* code's Map.  A node's key is a tuple, <<>> for the root; its deps are   *)
(* the keys of the nodes it depends on, in order.                          *)
(***************************************************************************)
EXTENDS Integers, FiniteSets, SequencesExt

CONSTANTS
  NoVersion,     \* the empty version string
  NoIntegrity,   \* the empty integrity string
  None           \* null

Root == <<>>

LockNode(key, name, version, integrity) ==
  [key |-> key, name |-> name, version |-> version, integrity |-> integrity, deps |-> <<>>]

EmptyRoot == LockNode(Root, None, NoVersion, NoIntegrity)

Keys(g) == {g[i].key : i \in DOMAIN g}
NodeAt(g, key) == g[CHOOSE i \in DOMAIN g : g[i].key = key]

\* The elements of a sequence at some of its positions, in order.
Nth(positions, n) == CHOOSE i \in positions : Cardinality({j \in positions : j < i}) = n - 1
Picked(s, positions) == [n \in 1..Cardinality(positions) |-> s[Nth(positions, n)]]
Only(s, Test(_)) == Picked(s, {i \in DOMAIN s : Test(s[i])})

\* byName: the keys of a name, in insertion order.
ByName(g, name) == LET named == Only(g, LAMBDA n : n.name = name)
                   IN  [i \in DOMAIN named |-> named[i].key]

\* [...new Set(s)]
Deduped(s) == Picked(s, {i \in DOMAIN s : \A j \in 1..(i - 1) : s[j] # s[i]})

\* The key of a parser that has no install paths: the name, with the version
\* and then the size of the map when it is taken.
FreshKey(g, name, version) ==
  CASE <<name>> \notin Keys(g) -> <<name>>
    [] <<name>> \in Keys(g) /\ <<name, version>> \notin Keys(g) -> <<name, version>>
    [] OTHER -> <<name, version, Len(g)>>

\* What those parsers make of the entries of a file: a node for each, after an
\* empty root.
Pin(name, version, integrity) == [name |-> name, version |-> version, integrity |-> integrity]
WithNode(g, pin) ==
  Append(g, LockNode(FreshKey(g, pin.name, pin.version), pin.name, pin.version, pin.integrity))
Inserted(pins) ==
  LET nodes[n \in 0..Len(pins)] ==
        IF n = 0 THEN <<EmptyRoot>> ELSE WithNode(nodes[n - 1], pins[n])
  IN  nodes[Len(pins)]

\* They wire a dependency to the first node of its name.
FirstOf(g, names) ==
  LET known == Only(names, LAMBDA n : ByName(g, n) # <<>>)
  IN  Deduped([i \in DOMAIN known |-> ByName(g, known[i])[1]])
=============================================================================
