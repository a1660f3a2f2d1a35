------------------------------ MODULE Lockfiles ------------------------------
(***************************************************************************)
(* The lockfile parsers of packages/core/src: package-lock.json,           *)
(* pnpm-lock.yaml, yarn.lock, requirements.txt, poetry.lock and uv.lock.   *)
(* Each makes a LockGraph of the document the tokenizer of its format      *)
(* returns; the TOML of poetry and uv is read line by line by the code     *)
(* itself, and so is it here.                                              *)
(***************************************************************************)
EXTENDS LockGraph

CONSTANTS
  Lower,        \* npm names are compared in lower case
  Canonical,    \* PEP 503 normal form of a PyPI name
  WorkspaceDirs, \* keys of package-lock.json that are directories of the project
  Sri           \* the integrity values of SRI shape

EntryName(e, derived) == IF e.name # None THEN e.name ELSE derived

-----------------------------------------------------------------------------
(* package-lock.json: an entry per install path; the path is the tuple of  *)
(* the names between its node_modules segments.                            *)

DeriveNameFromKey(key) ==
  IF key = Root \/ Last(key) \in WorkspaceDirs THEN None ELSE Last(key)

NpmName(e) == EntryName(e, DeriveNameFromKey(e.key))

\* resolveDepKey: the nearest node_modules on the way up that has the name.
ResolveDepKey(key, dep, keys) ==
  LET levels == {i \in 0..Len(key) : Append(SubSeq(key, 1, i), dep) \in keys}
  IN  IF levels = {} THEN None ELSE Append(SubSeq(key, 1, Max(levels)), dep)

NpmGraph(entries) ==
  LET installed == Only(entries, LAMBDA e : ~e.link /\ NpmName(e) # None)
      keys      == {installed[i].key : i \in DOMAIN installed}
      Node(e)   ==
        LET resolved == [i \in DOMAIN e.deps |-> ResolveDepKey(e.key, e.deps[i], keys)]
        IN  [LockNode(e.key, Lower[NpmName(e)], e.version, e.integrity)
               EXCEPT !.deps = Deduped(Only(resolved, LAMBDA k : k # None))]
  IN  [i \in DOMAIN installed |-> Node(installed[i])]

-----------------------------------------------------------------------------
(* pnpm-lock.yaml: entries keyed name@version(peers), the root importer's  *)
(* dependencies apart.                                                     *)

PnpmNodes(entries) ==
  LET named == Only(entries, LAMBDA e : e.name # None)
  IN  Inserted([i \in DOMAIN named |->
                  Pin(Lower[named[i].name], named[i].version, named[i].integrity)])

\* The dependencies of every entry of a name go to the first node of the name.
PnpmGraph(root, entries) ==
  LET nodes == PnpmNodes(entries)
      names(n) == FlattenSeq([i \in DOMAIN entries |->
                    IF entries[i].name # None /\ Lower[entries[i].name] = n.name
                    THEN entries[i].deps ELSE <<>>])
      deps(n) == CASE n.key = Root -> FirstOf(nodes, Deduped(root))
                   [] n.key # Root /\ n.key = ByName(nodes, n.name)[1] -> FirstOf(nodes, names(n))
                   [] OTHER -> <<>>
  IN  [i \in DOMAIN nodes |-> [nodes[i] EXCEPT !.deps = deps(nodes[i])]]

-----------------------------------------------------------------------------
(* yarn.lock, classic and berry: an entry serves the aliases of its key    *)
(* and becomes one node, under the first of them.                          *)

PickIntegrity(e) ==
  CASE e.integrity \in Sri -> e.integrity
    [] e.integrity \notin Sri /\ e.checksum \in Sri -> e.checksum
    [] OTHER -> NoIntegrity

YarnName(e) ==
  LET named == Only(e.aliases, LAMBDA a : a.name # None)
  IN  IF named = <<>> THEN None ELSE named[1].name

YarnUsable(entries) == Only(entries, LAMBDA e : YarnName(e) # None /\ e.version # NoVersion)

YarnGraph(entries) ==
  LET usable == YarnUsable(entries)
      nodes  == Inserted([i \in DOMAIN usable |->
                            Pin(YarnName(usable[i]), usable[i].version, PickIntegrity(usable[i]))])
  IN  [i \in DOMAIN nodes |->
         IF i = 1 THEN nodes[1]
         ELSE [nodes[i] EXCEPT !.deps = FirstOf(nodes, usable[i - 1].deps)]]

-----------------------------------------------------------------------------
(* requirements.txt: a line is a comment, an option (-r, -e, --hash ...) or *)
(* a requirement [name, op, version, hashes].                              *)

\* Only == pins; the operator === is read as == without a version.
PinnedVersion(line) == IF line.op = "==" THEN line.version ELSE NoVersion

FirstHash(hashes) == IF hashes = <<>> THEN NoIntegrity ELSE hashes[1]

RequirementsGraph(lines) ==
  LET reqs  == Only(lines, LAMBDA l : l.kind = "requirement")
      nodes == Inserted([i \in DOMAIN reqs |-> Pin(Canonical[reqs[i].name], PinnedVersion(reqs[i]),
                                                   FirstHash(reqs[i].hashes))])
  IN  [nodes EXCEPT ![1].deps = Deduped([i \in DOMAIN reqs |-> nodes[i + 1].key])]

-----------------------------------------------------------------------------
(* The TOML reader of poetry.lock and uv.lock.  A line opens an array of   *)
(* tables [[path]] or a table [path], sets a key, or continues a value     *)
(* whose brackets are still open.  Values are scalars, lists or tables.    *)

Scalar(s) == [is |-> "scalar", s |-> s]
List(l)   == [is |-> "list", l |-> l]
Table(t)  == [is |-> "table", t |-> t]

EmptyMap == <<>>
Lookup(map, key, default) == IF key \in DOMAIN map THEN map[key] ELSE default
Put(map, key, value) ==
  [k \in DOMAIN map \cup {key} |-> IF k = key THEN value ELSE map[k]]

\* collapseMultilineValues: lines are joined until the brackets balance.
JoinLine(joined, l) ==
  IF joined.depth > 0
  THEN [out   |-> [joined.out EXCEPT ![Len(joined.out)].value.l = @ \o l.value.l],
        depth |-> joined.depth + l.depth]
  ELSE [out |-> Append(joined.out, l), depth |-> l.depth]

NothingJoined == [out |-> <<>>, depth |-> 0]
Joined(start, lines) ==
  LET upTo[n \in 0..Len(lines)] == IF n = 0 THEN start ELSE JoinLine(upTo[n - 1], lines[n])
  IN  upTo[Len(lines)]

Collapse(lines) == Joined(NothingJoined, lines).out

\* Where key = value goes: the root, a table, the last entry of an array of
\* tables, or what a dotted header path = <<array, field>> opened inside that
\* entry: a table or the last table of a list.
Target(at, path) == [at |-> at, path |-> path]

Owner(path) == <<path[1]>>
Inside(doc, path) == Len(path) > 1 /\ Owner(path) \in DOMAIN doc.arrays

SetInLast(doc, array, key, value) ==
  [doc EXCEPT !.arrays[array][Len(doc.arrays[array])] = Put(@, key, value)]

FieldOfLast(doc, path) == Lookup(Last(doc.arrays[Owner(path)]), path[2], Scalar(None))

\* Variant: a dotted array header opens an array of its own.
OpenFlatArray(doc, path) ==
  [doc EXCEPT !.arrays = Put(@, path, Append(Lookup(@, path, <<>>), EmptyMap)),
              !.current = Target("array", path)]

OpenArray(doc, path) ==
  IF Inside(doc, path)
  THEN LET sub  == FieldOfLast(doc, path)
           list == IF sub.is = "list" THEN sub.l ELSE <<>>
       IN  [SetInLast(doc, Owner(path), path[2], List(Append(list, Table(EmptyMap))))
              EXCEPT !.current = Target("listed", path)]
  ELSE [doc EXCEPT !.arrays = Put(@, path, Append(Lookup(@, path, <<>>), EmptyMap)),
                   !.current = Target("array", path)]

OpenTable(doc, path) ==
  IF Inside(doc, path)
  THEN [SetInLast(doc, Owner(path), path[2], Table(EmptyMap))
          EXCEPT !.current = Target("sub", path)]
  ELSE [doc EXCEPT !.tables = Put(@, path, Lookup(@, path, EmptyMap)),
                   !.current = Target("table", path)]

SetKey(doc, key, value) ==
  LET path == doc.current.path
      open == FieldOfLast(doc, path)
  IN CASE doc.current.at = "root"  -> [doc EXCEPT !.root = Put(@, key, value)]
       [] doc.current.at = "table" -> [doc EXCEPT !.tables[path] = Put(@, key, value)]
       [] doc.current.at = "array" -> SetInLast(doc, path, key, value)
       [] doc.current.at = "sub"   ->
            SetInLast(doc, Owner(path), path[2], Table(Put(open.t, key, value)))
       [] doc.current.at = "listed" ->
            SetInLast(doc, Owner(path), path[2],
                      List([open.l EXCEPT ![Len(open.l)] = Table(Put(@.t, key, value))]))

ReadLine(doc, l) == CASE l.kind = "array" -> OpenArray(doc, l.path)
                      [] l.kind = "table" -> OpenTable(doc, l.path)
                      [] l.kind = "pair"  -> SetKey(doc, l.key, l.value)

EmptyDoc == [root |-> EmptyMap, tables |-> EmptyMap, arrays |-> EmptyMap,
             current |-> Target("root", <<>>)]
Read(start, lines) ==
  LET upTo[n \in 0..Len(lines)] == IF n = 0 THEN start ELSE ReadLine(upTo[n - 1], lines[n])
  IN  upTo[Len(lines)]

ParseSimpleToml(lines) == Read(EmptyDoc, Collapse(lines))

-----------------------------------------------------------------------------
(* The packages of a poetry.lock or uv.lock.                               *)

ScalarOf(v) == IF v.is = "scalar" THEN v.s ELSE None
HashIn(v)   == IF v.is = "table" THEN ScalarOf(Lookup(v.t, "hash", Scalar(None))) ELSE None

\* The hashes of a field, if it is a list of tables.
HashesOf(tbl, field) ==
  LET v == Lookup(tbl, field, Scalar(None))
  IN  IF v.is # "list" THEN <<>>
      ELSE Only([i \in DOMAIN v.l |-> HashIn(v.l[i])], LAMBDA h : h # None)

FirstPypiHash(tbl, variant) ==
  LET top == ScalarOf(Lookup(tbl, "hash", Scalar(None)))
  IN  FirstHash((IF variant = "poetry" THEN HashesOf(tbl, "files") ELSE <<>>)
                  \o HashesOf(tbl, "wheels") \o HashesOf(tbl, "sdist")
                  \o (IF top = None THEN <<>> ELSE <<top>>))

\* poetry: the keys of a table.  uv: the names of a list of tables.
ExtractPypiDepNames(tbl, variant) ==
  LET v == Lookup(tbl, "dependencies", Scalar(None))
      NameIn(e) == IF e.is = "table" THEN ScalarOf(Lookup(e.t, "name", Scalar(None))) ELSE None
  IN CASE v.is = "table" -> SetToSeq(DOMAIN v.t)
       [] v.is = "list" /\ variant = "uv" ->
            Only([i \in DOMAIN v.l |-> NameIn(v.l[i])], LAMBDA n : n # None)
       [] OTHER -> <<>>

PypiGraph(tables, variant) ==
  LET named == Only(tables, LAMBDA t : ScalarOf(Lookup(t, "name", Scalar(None))) # None)
      name(t)    == Canonical[ScalarOf(t["name"])]
      version(t) == ScalarOf(Lookup(t, "version", Scalar(NoVersion)))
      nodes == Inserted([i \in DOMAIN named |-> Pin(name(named[i]), version(named[i]),
                                                    FirstPypiHash(named[i], variant))])
      deps(t) == LET names == ExtractPypiDepNames(t, variant)
                 IN  FirstOf(nodes, [i \in DOMAIN names |-> Canonical[names[i]]])
  IN  [i \in DOMAIN nodes |->
         IF i = 1 THEN nodes[1] ELSE [nodes[i] EXCEPT !.deps = deps(named[i - 1])]]

TomlGraph(lines, variant) ==
  PypiGraph(Lookup(ParseSimpleToml(lines).arrays, <<"package">>, <<>>), variant)

-----------------------------------------------------------------------------
\* UnsupportedLockfileError: a version the parser of the format refuses.
Supported(lock) ==
  CASE lock.format = "npm"  -> lock.version >= 2
    [] lock.format = "pnpm" -> lock.version >= 5
    [] lock.format = "uv"   -> lock.version = 1
    [] OTHER -> TRUE

EcosystemOf(lock) == IF lock.format \in {"npm", "pnpm", "yarn"} THEN "npm" ELSE "pypi"

ParseLockfileText(lock) ==
  CASE lock.format = "npm"          -> NpmGraph(lock.text)
    [] lock.format = "pnpm"         -> PnpmGraph(lock.root, lock.text)
    [] lock.format = "yarn"         -> YarnGraph(lock.text)
    [] lock.format = "requirements" -> RequirementsGraph(lock.text)
    [] OTHER                        -> TomlGraph(lock.text, lock.format)
=============================================================================
