--------------------------- MODULE MCLockfileDiff ---------------------------
(* Small lockfiles for LockfileDiff: packages 1 to 3, 11 another spelling  *)
(* of 1, 20 to 22 directories of the project.                              *)
EXTENDS LockfileDiff

CONSTANTS x, y       \* integrity strings

MCLower == [n \in 1..22 |-> IF n = 11 THEN 1 ELSE n]
MCDirs == 20..22

\* As in "1.0.0" < "10.0.0" < "2.0.0" < "2.0.0-beta" < "latest".
MCCoerce == <<1, 10, 2, 2, Unparseable>>

-----------------------------------------------------------------------------
Npm(entries) == [format |-> "npm", version |-> 2, text |-> entries]
Installed(key, v, i, deps) ==
  [key |-> key, name |-> None, version |-> v, integrity |-> i, link |-> FALSE, deps |-> deps]
Project(deps) == [Installed(Root, 1, NoIntegrity, deps) EXCEPT !.name = 9]

\* Copies of packages below the project's directories: every graph of a few
\* nodes, as the changes depend on nothing else.
Copy(n, v, i) == [n |-> n, v |-> v, i |-> i]
Placed(copies) ==
  Npm([j \in DOMAIN copies |->
         Installed(<<19 + j, copies[j].n>>, copies[j].v, copies[j].i, <<>>)])

\* One package in versions whose string order is not their semver order.
OneName == {Copy(1, v, x) : v \in 1..5} \cup {Copy(1, 1, NoIntegrity)}
\* Two packages, one of them possibly without a version (a workspace entry),
\* one possibly spelt in upper case.
TwoNames == {Copy(n, v, i) : n \in 1..2, v \in 1..2, i \in {x, y}}
              \cup {Copy(2, NoVersion, NoIntegrity), Copy(11, 1, x)}

Pairs(s) == [olds |-> s, news |-> s]
Alone(s) == [olds |-> {Npm(<<>>)}, news |-> s]

SmallGraphs ==
  {[olds |-> {Placed(c) : c \in BoundedSeq(OneName, 3)},
    news |-> {Placed(c) : c \in BoundedSeq(OneName, 2)}],
   Pairs({Placed(c) : c \in BoundedSeq(TwoNames, 2)})}

-----------------------------------------------------------------------------
\* Trees: inner copies, dependencies of every package, a linked package.
Paths == <<<<1>>, <<1, 2>>, <<2>>, <<3>>, <<3, 2>>>>
Ordered(s) == SetToSortSeq(s, <)
Trees ==
  {Npm(<<Project(Ordered(r))>> \o
       [i \in DOMAIN Paths |->
          [Installed(Paths[i], IF Len(Paths[i]) = 1 THEN 1 ELSE 2, x, Ordered(d[i]))
             EXCEPT !.link = (i = l)]]) :
     r \in SUBSET {1, 2, 3}, l \in {0, 1},
     d \in {f \in [1..5 -> SUBSET {1, 2, 3}] :
              \A i \in 1..5 : Last(Paths[i]) \notin f[i] /\ (i = 4 => Cardinality(f[i]) < 2)}}

\* A project of four packages, every one of them once.
Flat ==
  {Npm(<<Project(Ordered(r))>> \o
       [i \in 1..4 |-> Installed(<<i>>, 1, x, Ordered(d[i]))]) :
     r \in {{1}, {1, 2}, {1, 2, 3}},
     d \in {f \in [1..4 -> SUBSET {1, 2, 3, 4}] : \A i \in 1..4 : i \notin f[i] /\ (i = 4 => f[i] = {})}}

-----------------------------------------------------------------------------
Pnpm(entries) == [format |-> "pnpm", version |-> 6, root |-> <<1, 2>>, text |-> entries]
PnpmEntries == {[name |-> n, version |-> v, integrity |-> x, deps |-> d] :
                  n \in {1, 2, 11}, v \in {1, 2}, d \in {<<>>, <<3, 2>>}}
                 \cup {[name |-> None, version |-> 1, integrity |-> x, deps |-> <<>>]}
PnpmLocks == {Pnpm(e) : e \in BoundedSeq(PnpmEntries, 2)}
               \cup {[Pnpm(<<>>) EXCEPT !.version = 4]}

Yarn(entries) == [format |-> "yarn", version |-> 1, text |-> entries]
YarnEntries == {[aliases |-> a, version |-> 1, integrity |-> i, checksum |-> c, deps |-> <<2>>] :
                  a \in {<<[name |-> 1, real |-> None]>>,
                         <<[name |-> None, real |-> None], [name |-> 2, real |-> 3], [name |-> 1, real |-> None]>>},
                  i \in {x, NoIntegrity}, c \in {y, None}}
YarnLocks == {Yarn(e) : e \in BoundedSeq(YarnEntries, 2)}

Requirement(n, op, v, h) ==
  [kind |-> "requirement", name |-> n, op |-> op, version |-> v, hashes |-> h]
RequirementLines == {Requirement(n, "==", v, h) : n \in {1, 2, 11}, v \in {1, 2}, h \in {<<>>, <<x, y>>}}
                      \cup {Requirement(1, "===", 1, <<>>), [kind |-> "option"], [kind |-> "comment"]}
RequirementLocks == {[format |-> "requirements", version |-> 0, text |-> t] :
                       t \in BoundedSeq(RequirementLines, 2)}

PypiPackage(n, v, h, d, at) == [name |-> n, version |-> v, hash |-> h, deps |-> d, hashIn |-> at]
PypiPackages(places) ==
  {PypiPackage(n, v, h, d, at) : n \in {1, 11}, v \in {1, 2}, h \in {x, y}, d \in {<<>>, <<1, 3>>},
                                 at \in places}
Toml(format, version, places) ==
  {[format |-> format, version |-> version, text |-> t] : t \in BoundedSeq(PypiPackages(places), 2)}

Second(l) == Len(l.text) = 2 => l.text[1].hash = x /\ l.text[1].deps = l.text[2].deps
                                  /\ (l.text[1].hashIn = l.text[2].hashIn \/ l.text[1].version = 1)
Poetry == {l \in Toml("poetry", 2, {"list", "tables", "none"}) : Second(l)}
Uv == {l \in Toml("uv", 1, {"wheels", "sdist"}) : Second(l)}
        \cup {[format |-> "uv", version |-> 2, text |-> <<>>]}

Few(s) == {l \in s : Len(l.text) <= 1}

MCWorlds ==
  SmallGraphs
    \cup {Alone(Trees), Alone(Flat), [olds |-> Few(PnpmLocks), news |-> PnpmLocks], Pairs(YarnLocks),
          [olds |-> Few(RequirementLocks), news |-> RequirementLocks],
          [olds |-> Few(Poetry), news |-> Poetry], [olds |-> Few(Uv), news |-> Uv],
          Pairs(Few(PnpmLocks) \cup Few(YarnLocks) \cup Few({Placed(c) : c \in BoundedSeq(TwoNames, 1)})),
          Pairs(Few(RequirementLocks) \cup Few(Poetry) \cup Few(Uv)),
          [olds |-> Few(YarnLocks), news |-> Few(Uv)]}
=============================================================================
