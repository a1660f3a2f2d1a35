----------------------------- MODULE LockSearch ------------------------------
(***************************************************************************)
(* shortestPaths of packages/core/src/lockfile.ts: the provenance shown    *)
(* with a finding, breadth first from the root.  One action per way        *)
(* through the body of its loop; a break drops the queue.                  *)
(*                                                                         *)
(* A path is the sequence of the names below the root.                     *)
(***************************************************************************)
EXTENDS LockGraph

VARIABLES
  graph, targetKey,   \* what is searched for what, None before
  queue,              \* [key, path] still to be visited
  seen,               \* seenAtLen: key -> length of the last path it was expanded at
  results             \* the paths that are returned

searchVars == <<graph, targetKey, queue, seen, results>>

MaxPaths == 3

SearchInit == graph = None /\ targetKey = None /\ queue = <<>> /\ seen = <<>> /\ results = <<>>

StartAt(key) == [key |-> key, path |-> <<>>]

BeginSearch(g, key) ==
  /\ graph = None
  /\ graph' = g /\ targetKey' = key
  /\ queue' = IF key \in Keys(g) THEN <<StartAt(Root)>> ELSE <<>>
  /\ UNCHANGED <<seen, results>>

-----------------------------------------------------------------------------
Cur == Head(queue)

TooLong == results # <<>> /\ Len(Cur.path) > Len(results[1])
AtTarget == Cur.key = targetKey /\ Cur.path # <<>>
\* Variant: a node seen before is not expanded again, whatever the length.
SeenBefore == Cur.key \in DOMAIN seen
SeenShorter == Cur.key \in DOMAIN seen /\ seen[Cur.key] < Len(Cur.path)

Children(g, cur) ==
  IF cur.key \notin Keys(g) THEN <<>>
  ELSE LET deps == NodeAt(g, cur.key).deps
           open == Picked(deps, {i \in DOMAIN deps : /\ deps[i] \in Keys(g)
                                                     /\ ~Contains(cur.path, NodeAt(g, deps[i]).name)})
       IN  [i \in DOMAIN open |-> [key |-> open[i], path |-> Append(cur.path, NodeAt(g, open[i]).name)]]

Stop ==
  /\ queue # <<>> /\ TooLong
  /\ queue' = <<>>
  /\ UNCHANGED <<seen, results>>

Arrive ==
  /\ queue # <<>> /\ ~TooLong /\ AtTarget
  /\ results' = Append(results, Cur.path)
  /\ queue' = IF Len(results') >= MaxPaths THEN <<>> ELSE Tail(queue)
  /\ UNCHANGED seen

Pass ==
  /\ queue # <<>> /\ ~TooLong /\ ~AtTarget /\ SeenShorter
  /\ queue' = Tail(queue)
  /\ UNCHANGED <<seen, results>>

Expand ==
  /\ queue # <<>> /\ ~TooLong /\ ~AtTarget /\ ~SeenShorter
  /\ queue' = Tail(queue) \o Children(graph, Cur)
  /\ seen' = [k \in DOMAIN seen \cup {Cur.key} |-> IF k = Cur.key THEN Len(Cur.path) ELSE seen[k]]
  /\ UNCHANGED results

SearchStep == (Stop \/ Arrive \/ Pass \/ Expand) /\ UNCHANGED <<graph, targetKey>>

-----------------------------------------------------------------------------
\* A sequence of nodes, none of which lists a dependency twice.
IsLockGraph(g) ==
  /\ g # None /\ Len(g) \in Nat /\ g = [i \in 1..Len(g) |-> g[i]]
  /\ \A i \in DOMAIN g : LET deps == g[i].deps
                        IN  /\ deps \in Seq(Range(deps))
                            /\ \A j, k \in DOMAIN deps : deps[j] = deps[k] => j = k

\* The search alone, of any graph.
SearchSpec ==
  /\ SearchInit
  /\ [][(\E g, key : IsLockGraph(g) /\ BeginSearch(g, key)) \/ SearchStep]_searchVars

Searched == graph # None /\ queue = <<>>

\* The chains of dependencies from the root in which no name comes twice.
End(c) == IF c = <<>> THEN Root ELSE Last(c)
Longer(g, c) ==
  {Append(c, k) : k \in {d \in Range(NodeAt(g, End(c)).deps) \cap Keys(g) :
                           \A i \in DOMAIN c : NodeAt(g, c[i]).name # NodeAt(g, d).name}}
Chains(g) ==
  LET chains[n \in 0..Len(g)] == IF n = 0 THEN {<<>>} ELSE UNION {Longer(g, c) : c \in chains[n - 1]}
  IN  UNION {chains[n] : n \in 1..Len(g)}

Named(g, chain) == [i \in DOMAIN chain |-> NodeAt(g, chain[i]).name]

OneVersionEach(g) == \A i, j \in DOMAIN g : g[i].name = g[j].name => i = j

(***************************************************************************)
(* The provenance of a finding is real: each path is a chain of the        *)
(* dependencies in the lockfile from the project to the package, all of    *)
(* one length.  Where no name occurs in two versions they are the shortest *)
(* ones and, up to MaxPaths, all of them (lockfile.ts shortestPaths, which *)
(* follows a node again only while no shorter way to it is known).         *)
(***************************************************************************)
PathsAreProvenance ==
  Searched /\ {Root, targetKey} \subseteq Keys(graph) /\ targetKey # Root =>
    LET chains == {Named(graph, c) : c \in {d \in Chains(graph) : Last(d) = targetKey}}
        least  == {p \in chains : \A q \in chains : Len(p) <= Len(q)}
    IN  /\ Range(results) \subseteq chains
        /\ \A i, j \in DOMAIN results : Len(results[i]) = Len(results[j])
        /\ OneVersionEach(graph) => /\ Range(results) \subseteq least
                                    /\ Len(results) = Min({MaxPaths, Cardinality(least)})
=============================================================================
