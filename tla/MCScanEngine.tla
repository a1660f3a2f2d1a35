---------------------------- MODULE MCScanEngine ----------------------------
(***************************************************************************)
(* Runs of the engine on pairs of small lockfile graphs, diffed by         *)
(* computeChangeset itself.                                                *)
(***************************************************************************)
EXTENDS ScanEngine, TLC

CONSTANTS x, y, NoVersion, Unparseable

MCNames == {1, 2}
MCVersions == {1, 2}

C == INSTANCE Changeset WITH Coerce <- [v \in MCVersions |-> v]

Node(n, v, i, r) == [name |-> n, version |-> v, integrity |-> i, resolved |-> r]

ResolvedAt(g, key) == IF key = 0 THEN "none" ELSE g[key].resolved

\* The changes of computeChangeset with the resolved URLs their keys lead to.
Diffed(old, new) ==
  LET cs == C!ComputeChangeset(old, new)
  IN  [k \in DOMAIN cs |->
         [kind |-> cs[k].kind, name |-> cs[k].name,
          oldV |-> cs[k].oldV, newV |-> cs[k].newV,
          oldI |-> cs[k].oldI, newI |-> cs[k].newI,
          oldResolved |-> ResolvedAt(old, cs[k].keyOld),
          newResolved |-> ResolvedAt(new, cs[k].keyNew)]]

Run(old, new, override) ==
  [changes |-> Diffed(old, new), links |-> {}, aliases |-> <<>>,
   manifest |-> [id \in Id |-> id], oldEco |-> "npm", newEco |-> "npm", override |-> override, unlinkFails |-> FALSE]

\* 1 upgraded, 2 added with the hash of the new 1: three refs, one integrity.
SharedHash(o) ==
  Run(<<Node(1, 1, y, "registry")>>,
      <<Node(1, 2, x, "registry"), Node(2, 1, x, "registry")>>, o)

\* The same, but the artifact of the new 1 declares that it is the old 1.
Impostor == [SharedHash(FALSE) EXCEPT !.manifest[<<1, 2>>] = <<1, 1>>]

\* Both versions of 1 removed, 2 added.
TwoRemoved(o) ==
  Run(<<Node(1, 1, x, "registry"), Node(1, 2, y, "registry")>>,
      <<Node(2, 1, NoIntegrity, "registry")>>, o)

\* Same version of 1 under another hash, 2 upgraded.
Rehashed(o) ==
  Run(<<Node(1, 1, x, "registry"), Node(2, 1, y, "registry")>>,
      <<Node(1, 1, y, "registry"), Node(2, 2, NoIntegrity, "git")>>, o)

\* A local file, a git dependency, a link to a well-known name and an alias.
Surfaced(o) ==
  [Run(<<Node(1, 1, x, "registry")>>,
       <<Node(1, 2, y, "git"), Node(2, 1, NoIntegrity, "file")>>, o)
     EXCEPT !.links = {[name |-> 2, top |-> TRUE], [name |-> None, top |-> FALSE],
                       [name |-> 1, top |-> FALSE]},
            !.aliases = <<[declared |-> 1, real |-> 2, version |-> 1],
                          [declared |-> 1, real |-> 2, version |-> 2]>>]

Nothing == Run(<<Node(1, 1, x, "registry")>>, <<Node(1, 1, x, "registry")>>, FALSE)
Mixed   == [SharedHash(FALSE) EXCEPT !.oldEco = "pypi"]
Wheels(o) == [Run(<<>>, <<Node(1, 1, x, "registry"), Node(1, 2, y, "registry")>>, o)
                EXCEPT !.oldEco = "pypi", !.newEco = "pypi", !.unlinkFails = TRUE]

MCInputs == {Impostor, TwoRemoved(FALSE), Rehashed(TRUE),
             Surfaced(TRUE), Nothing, Mixed, Wheels(FALSE), Wheels(TRUE)}

\* A lookup may miss whatever is cached, so an empty cache adds nothing.
MCInitialCaches == {[i \in {x, y} |-> IF i = x THEN <<1, 2>> ELSE None]}

=============================================================================
