---------------------------- MODULE LockfileDiff ----------------------------
(***************************************************************************)
(* What vetlock diff does before anything is fetched: both lockfiles are   *)
(* parsed and their graphs compared.  Whatever is not in the changes is    *)
(* never analyzed.  Once there are findings, the paths from the project to *)
(* their package are searched in the graph of the new lockfile, and the    *)
(* findings summed up for each of its direct dependencies.                 *)
(***************************************************************************)
EXTENDS Lockfiles, LockSearch, ChangesetCheck

CONSTANT Worlds    \* pairs of a set of old and a set of new lockfiles

VARIABLES lockOld, lockNew

diffVars == <<lockOld, lockNew, old, new, changes, searchVars>>

-----------------------------------------------------------------------------
(* How poetry and uv write a package p: its hash in the list files or in   *)
(* tables [[package.files]], under wheels, in the one table sdist, or none *)
(* at all (a package that poetry takes from a directory).                  *)

Pair(key, value) == [kind |-> "pair", key |-> key, value |-> value, depth |-> 0]
Header(kind, path) == [kind |-> kind, path |-> path, depth |-> 0]
Opens(key)  == [kind |-> "pair", key |-> key, value |-> List(<<>>), depth |-> 1]
Item(value) == [kind |-> "rest", value |-> List(<<value>>), depth |-> 0]
Closes      == [kind |-> "rest", value |-> List(<<>>), depth |-> -1]

Multiline(key, values) ==
  <<Opens(key)>> \o [i \in DOMAIN values |-> Item(values[i])] \o <<Closes>>

Field(key, value) == Table(Put(EmptyMap, key, Scalar(value)))
File(p) == Field("hash", p.hash)

PackageHead(p) == <<Header("array", <<"package">>), Pair("name", Scalar(p.name)),
                    Pair("version", Scalar(p.version))>>

PoetryPackage(p) ==
  PackageHead(p)
    \o (CASE p.hashIn = "list"   -> Multiline("files", <<File(p)>>)
          [] p.hashIn = "tables" -> <<Header("array", <<"package", "files">>),
                                      Pair("hash", Scalar(p.hash))>>
          [] OTHER -> <<>>)
    \o (IF p.deps = <<>> THEN <<>>
        ELSE <<Header("table", <<"package", "dependencies">>)>>
               \o [i \in DOMAIN p.deps |-> Pair(p.deps[i], Scalar("*"))])

UvPackage(p) ==
  PackageHead(p)
    \o Multiline("dependencies",
                 [i \in DOMAIN p.deps |-> Field("name", p.deps[i])])
    \o (IF p.hashIn = "sdist" THEN <<Pair("sdist", File(p))>> ELSE Multiline("wheels", <<File(p)>>))
    \o <<Header("table", <<"package", "metadata">>), Pair("name", Scalar("*"))>>

TomlText(format, packages) ==
  LET block == [i \in DOMAIN packages |-> IF format = "uv" THEN UvPackage(packages[i])
                                          ELSE PoetryPackage(packages[i])]
  IN  (IF format = "uv" THEN <<Pair("version", Scalar("1"))>> ELSE <<>>)
        \o FlattenSeq(block)
        \o (IF format = "uv" THEN <<>>
            ELSE <<Header("table", <<"metadata">>), Pair("lock-version", Scalar("2.0"))>>)

\* The text of a lockfile the worlds describe by its packages.
TextOf(lock) == IF lock.format \in {"poetry", "uv"}
                THEN [lock EXCEPT !.text = TomlText(lock.format, @)] ELSE lock

NewGraph == ParseLockfileText(TextOf(lockNew))
Packages(g) == Only(g, LAMBDA n : n.key # Root)

\* The documents that the readers of JSON, YAML, yarn's format and lines return:
\* names are of those that Lower and Canonical know, versions of those that
\* Coerce knows.
IsSeq(s) == s \in Seq(Range(s))
Versions == DOMAIN Coerce \cup {NoVersion}

IsEntry(format, e) ==
  CASE format = "npm" -> NpmName(e) \in DOMAIN Lower \cup {None} /\ e.version \in Versions /\ IsSeq(e.deps)
    [] format = "pnpm" -> e.name \in DOMAIN Lower \cup {None} /\ e.version \in Versions /\ IsSeq(e.deps)
    [] format = "yarn" -> /\ IsSeq(e.aliases) /\ \A a \in Range(e.aliases) : a.name \in Nat \cup {None}
                          /\ e.version \in Versions /\ IsSeq(e.deps)
    [] format = "requirements" ->
         e.kind = "requirement" => /\ e.name \in DOMAIN Canonical /\ e.version \in Versions
                                   /\ IsSeq(e.hashes)
    [] format \in {"poetry", "uv"} ->
         /\ e.name \in DOMAIN Canonical /\ e.version \in Versions /\ IsSeq(e.deps)
         /\ e.hashIn = "none" \/ e.hash # None
         /\ e.hashIn \in IF format = "uv" THEN {"wheels", "sdist"} ELSE {"list", "tables", "none"}

IsLockfile(lock) ==
  /\ {"format", "text"} \subseteq DOMAIN lock
  /\ lock.format \in {"npm", "pnpm", "yarn", "requirements", "poetry", "uv"}
  /\ IsSeq(lock.text) /\ \A e \in Range(lock.text) : IsEntry(lock.format, e)
  /\ lock.format = "pnpm" => IsSeq(lock.root)

ASSUME NamesAssumption ==
  /\ Lower \in [DOMAIN Lower -> Nat] /\ Canonical \in [DOMAIN Canonical -> Nat]
  /\ None \notin DOMAIN Lower \cup DOMAIN Canonical

ASSUME WorldsAssumption ==
  \A w \in Worlds : \A lock \in w.olds \cup w.news :
    IsLockfile(lock) /\ ParseLockfileText(TextOf(lock)) # None

-----------------------------------------------------------------------------
DiffInit == /\ \E w \in Worlds : lockOld \in w.olds /\ lockNew \in w.news
            /\ CompareInit /\ SearchInit

\* A lockfile of a version its parser refuses ends the run with an error, and so
\* do lockfiles of two ecosystems.
DiffLockfiles ==
  /\ graph = None
  /\ Supported(lockOld) /\ Supported(lockNew)
  /\ EcosystemOf(lockOld) = EcosystemOf(lockNew)
  /\ Compare(Packages(ParseLockfileText(TextOf(lockOld))), Packages(NewGraph))
  /\ UNCHANGED <<lockOld, lockNew, searchVars>>

\* The search reads nothing that the comparison writes, so that a behaviour
\* does one of the two, and knows no old lockfile.
SearchNew ==
  /\ changes = None
  /\ Supported(lockNew)
  /\ \E key \in Keys(NewGraph) : BeginSearch(NewGraph, key)
  /\ lockOld' = None
  /\ UNCHANGED <<lockNew, compareVars>>

FollowPaths == SearchStep /\ UNCHANGED <<lockOld, lockNew, compareVars>>

DiffNext == DiffLockfiles \/ SearchNew \/ FollowPaths

DiffSpec == DiffInit /\ [][DiffNext]_diffVars

-----------------------------------------------------------------------------
(* computeRollup: the summary of the findings per direct dependency of the *)
(* project.                                                                *)

DirectNames(g) ==
  IF Root \notin Keys(g) THEN {}
  ELSE {NodeAt(g, k).name : k \in Range(NodeAt(g, Root).deps) \cap Keys(g)}

\* A stack of keys, visited by name.  Every node is put on it once for itself
\* and once for each node that depends on it, at most.
CollectSubtree(g, name) ==
  LET Visit(todo, node) ==
        IF node.name \in todo.seen THEN [todo EXCEPT !.stack = Front(@)]
        ELSE [stack |-> Front(todo.stack) \o node.deps, seen |-> todo.seen \cup {node.name}]
      Turn(todo) == IF todo.stack = <<>> THEN todo ELSE Visit(todo, NodeAt(g, Last(todo.stack)))
      turns == Len(g) * (Len(g) + 1)
      after[n \in 0..turns] ==
        IF n = 0 THEN [stack |-> ByName(g, name), seen |-> {}] ELSE Turn(after[n - 1])
  IN  after[turns].seen

\* What the summary of a direct dependency says, given the packages with a
\* finding of each severity.
Rollup(g, blocked, warned, noted) ==
  [n \in DirectNames(g) |->
     LET subtree == CollectSubtree(g, n)
     IN  CASE subtree \cap blocked # {} -> "BLOCK"
           [] subtree \cap blocked = {} /\ subtree \cap warned # {} -> "WARN"
           [] subtree \cap (blocked \cup warned) = {} /\ subtree \cap noted # {} -> "INFO"
           [] OTHER -> "CLEAN"]

-----------------------------------------------------------------------------
(* The artifacts a package manager installs from the lockfile, each with   *)
(* its name in normal form, its version and its hash.  A hash that only    *)
(* the sdist table of uv.lock holds is not read (see README), and yarn     *)
(* installs an aliased entry under each of its names from one artifact.    *)
PypiName(p) == Canonical[p.name]
HashRead(p) == IF p.hashIn \in {"sdist", "none"} THEN NoIntegrity ELSE p.hash

\* The first name of an entry of yarn.lock.
AliasesOf(e) == {i \in DOMAIN e.aliases : e.aliases[i].name # None}
FirstAlias(e) == e.aliases[Min(AliasesOf(e))].name

Locked(lock) ==
  CASE lock.format = "npm" ->
         {<<Lower[NpmName(e)], e.version, e.integrity>> :
            e \in {z \in Range(lock.text) : ~z.link /\ z.key # Root /\ NpmName(z) # None}}
    [] lock.format = "pnpm" -> {<<Lower[e.name], e.version, e.integrity>> :
            e \in {z \in Range(lock.text) : z.name # None}}
    [] lock.format = "yarn" -> {<<FirstAlias(e), e.version, PickIntegrity(e)>> :
            e \in {z \in Range(lock.text) : AliasesOf(z) # {}}}
    [] lock.format = "requirements" ->
         {<<Canonical[l.name], l.version, FirstHash(l.hashes)>> :
            l \in {z \in Range(lock.text) : z.kind = "requirement" /\ z.op = "=="}}
    [] lock.format \in {"poetry", "uv"} ->
         {<<PypiName(p), p.version, HashRead(p)>> : p \in Range(lock.text)}

(***************************************************************************)
(* Nothing a lockfile pins is lost on the way: every artifact the new      *)
(* lockfile pins and the old one does not is the new side of a change,     *)
(* whatever the two formats, the place of the entry in the file and the    *)
(* other versions of the package.                                          *)
(***************************************************************************)
EveryLockedArtifactReported ==
  Computed /\ Consistent(old) /\ Consistent(new) =>
    {a \in Locked(lockNew) \ Locked(lockOld) : a[2] # NoVersion} \subseteq NewArtifacts

-----------------------------------------------------------------------------
\* The nodes that can be reached from a key.
Reached(g, key) ==
  LET step(s) == s \cup UNION {Range(NodeAt(g, k).deps) : k \in s}
      within[n \in 0..Len(g)] == IF n = 0 THEN {key} ELSE step(within[n - 1])
  IN  within[Len(g)]

(***************************************************************************)
(* "For each direct dep, gather all findings under its subtree (name +     *)
(* everything reachable through it in newG)" (engine.ts:770): a finding on *)
(* a package the project reaches through a direct dependency shows in the  *)
(* summary of that dependency.                                             *)
(***************************************************************************)
RollupCoversSubtree ==
  Computed /\ Root \in Keys(NewGraph) =>
    LET g == NewGraph IN
    \A k \in Range(NodeAt(g, Root).deps) : \A r \in Reached(g, k) :
      Rollup(g, {NodeAt(g, r).name}, {}, {})[NodeAt(g, k).name] = "BLOCK"
=============================================================================
