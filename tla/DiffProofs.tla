------------------------------ MODULE DiffProofs ------------------------------
(***************************************************************************)
(* Theorems about `vetlock diff`: that the parsers of the six formats lose *)
(* nothing a lockfile pins (Lockfiles, LockfileDiff), what                 *)
(* computeChangeset promises (ChangesetCheck) and what shortestPaths finds *)
(* (LockSearch), for lockfiles and graphs of any size, and what a          *)
(* configuration can and cannot do between the engine's findings and the   *)
(* exit code (CliRun), for any configurations, reports, lockfiles and      *)
(* flags.                                                                  *)
(***************************************************************************)
EXTENDS LockfileDiff, CliRun, FiniteSetTheorems, WellFoundedInduction, SequenceTheorems, TLAPS

-----------------------------------------------------------------------------
(* Numbers and finite sets.                                                *)

LEMMA LeastNatural ==
  ASSUME NEW S \in SUBSET Nat, S # {}
  PROVE  \E x \in S : \A y \in S : x <= y
PROOF
<1>1. \E R : /\ IsWellFoundedOn(R, Nat)
             /\ \A x, y \in Nat : y < x => <<y, x>> \in R
  <2>1. \A x, y \in Nat : y < x => <<y, x>> \in OpToRel(<, Nat)
    BY DEF OpToRel
  <2> QED BY <2>1, NatLessThanWellFounded, Zenon
<1>2. PICK R : /\ IsWellFoundedOn(R, Nat)
               /\ \A x, y \in Nat : y < x => <<y, x>> \in R
  BY <1>1
<1>3. PICK x \in S : \A y \in S : ~(<<y, x>> \in R)
  BY <1>2, WFMin
<1>4. ASSUME NEW y \in S PROVE ~(y < x)
  BY <1>2, <1>3
<1> QED BY <1>4

LEMMA MinOfNaturals ==
  ASSUME NEW S \in SUBSET Nat, S # {}
  PROVE  Min(S) \in S /\ \A y \in S : Min(S) <= y
BY LeastNatural DEF Min

LEMMA MaxOfBounded ==
  ASSUME NEW S \in SUBSET Nat, S # {}, NEW n \in Nat, \A s \in S : s <= n
  PROVE  Max(S) \in S /\ \A y \in S : y <= Max(S)
PROOF
<1> DEFINE T == {k \in Nat : n - k \in S}
<1>1. T # {}
  <2>1. PICK s \in S : TRUE
    OBVIOUS
  <2>2. n - s \in Nat /\ n - (n - s) = s
    BY <2>1
  <2> QED BY <2>2
<1>2. PICK x \in T : \A y \in T : x <= y
  BY <1>1, LeastNatural
<1>3. ASSUME NEW y \in S PROVE y <= n - x
  <2>1. n - y \in Nat /\ n - (n - y) = y
    OBVIOUS
  <2>2. n - y \in T
    BY <2>1
  <2> QED BY <1>2, <2>1, <2>2
<1> QED BY <1>2, <1>3 DEF Max

LEMMA FiniteHasGreatest ==
  ASSUME NEW S \in SUBSET Nat, IsFiniteSet(S), S # {}
  PROVE  \E x \in S : \A y \in S : y <= x
PROOF
<1> DEFINE Above(x) == {y \in S : x < y}
           Sizes    == {Cardinality(Above(x)) : x \in S}
<1>1. ASSUME NEW x \in S PROVE IsFiniteSet(Above(x)) /\ Cardinality(Above(x)) \in Nat
  BY FS_Subset, FS_CardinalityType
<1>2. Sizes \in SUBSET Nat /\ Sizes # {}
  BY <1>1
<1>3. PICK n \in Sizes : \A m \in Sizes : n <= m
  BY <1>2, LeastNatural
<1>4. PICK x \in S : n = Cardinality(Above(x))
  BY <1>3
<1>5. ASSUME NEW y \in S, x < y PROVE FALSE
  <2>1. Above(y) \in SUBSET Above(x) /\ y \in Above(x) /\ y \notin Above(y)
    <3>1. \A z \in S : y < z => x < z
      BY <1>5
    <3>2. ~(y < y)
      OBVIOUS
    <3>3. Above(y) \subseteq Above(x)
      BY <3>1
    <3>4. y \in Above(x) /\ y \notin Above(y)
      BY <1>5, <3>2
    <3> QED BY <3>3, <3>4
  <2>2. /\ Cardinality(Above(y)) <= Cardinality(Above(x))
        /\ Cardinality(Above(x)) = Cardinality(Above(y)) => Above(x) = Above(y)
    BY <1>1, <2>1, FS_Subset
  <2>3. Cardinality(Above(x)) <= Cardinality(Above(y))
    BY <1>3, <1>4
  <2> QED BY <1>1, <2>1, <2>2, <2>3
<1> QED BY <1>5

(* The place of an element is the number of those before it: in a finite   *)
(* set totally ordered by R each place is that of one element.             *)
LEMMA SortedByRank ==
  ASSUME NEW S, IsFiniteSet(S), NEW R,
         \A c \in S : <<c, c>> \notin R,
         \A c, d \in S : c # d => <<c, d>> \in R \/ <<d, c>> \in R,
         \A c, d, e \in S : <<c, d>> \in R /\ <<d, e>> \in R => <<c, e>> \in R
  PROVE  /\ \A i \in 1..Cardinality(S) : \E c \in S :
              Cardinality({d \in S : <<d, c>> \in R}) = i - 1
         /\ \A c \in S : \E i \in 1..Cardinality(S) :
              Cardinality({d \in S : <<d, c>> \in R}) = i - 1
         /\ \A c, e \in S :
              Cardinality({d \in S : <<d, c>> \in R}) = Cardinality({d \in S : <<d, e>> \in R})
                => c = e
PROOF
<1> DEFINE Below(c) == {d \in S : <<d, c>> \in R}
           N == Cardinality(S)
<1>1. N \in Nat
  BY FS_CardinalityType
<1>2. ASSUME NEW c \in S PROVE IsFiniteSet(Below(c)) /\ Cardinality(Below(c)) \in Nat
  BY FS_Subset, FS_CardinalityType
<1>3. PICK size \in [S -> Nat] : \A c \in S : size[c] = Cardinality(Below(c))
  <2>1. [c \in S |-> Cardinality(Below(c))] \in [S -> Nat]
    BY <1>2
  <2> QED BY <2>1
<1>4. ASSUME NEW c \in S, NEW e \in S, <<c, e>> \in R
      PROVE  size[c] < size[e]
  <2>1. Below(c) \in SUBSET Below(e) /\ c \in Below(e) /\ c \notin Below(c)
    BY <1>4
  <2>2. /\ Cardinality(Below(c)) <= Cardinality(Below(e))
        /\ Cardinality(Below(e)) = Cardinality(Below(c)) => Below(e) = Below(c)
    BY <1>2, <2>1, FS_Subset
  <2>3. size[c] <= size[e] /\ size[c] # size[e]
    BY <1>3, <2>1, <2>2
  <2> QED BY <2>3
<1>5. ASSUME NEW c \in S, NEW e \in S, size[c] = size[e]
      PROVE  c = e
  <2>1. ~(<<c, e>> \in R) /\ ~(<<e, c>> \in R)
    BY <1>4, <1>5
  <2> QED BY <2>1
<1>6. ASSUME NEW c \in S PROVE size[c] < N
  <2>1. Below(c) \in SUBSET S /\ c \notin Below(c)
    OBVIOUS
  <2>2. /\ Cardinality(Below(c)) <= N
        /\ N = Cardinality(Below(c)) => S = Below(c)
    BY <2>1, FS_Subset
  <2>3. size[c] <= N /\ size[c] # N
    BY <1>3, <2>1, <2>2
  <2> QED BY <1>1, <2>3
<1> DEFINE f == [c \in S |-> size[c] + 1]
<1>7. f \in Injection(S, 1..N)
  <2>1. f \in [S -> 1..N]
    BY <1>1, <1>6
  <2>2. \A c, e \in S : f[c] = f[e] => c = e
    BY <1>5
  <2> QED BY <2>1, <2>2 DEF Injection, IsInjective
<1>8. IsFiniteSet(1..N) /\ Cardinality(1..N) = N
  BY <1>1, FS_Interval
<1>9. f \in Surjection(S, 1..N)
  BY <1>7, <1>8, FS_Injection
<1>10. ASSUME NEW i \in 1..N PROVE \E c \in S : size[c] = i - 1
  <2>1. PICK c \in S : f[c] = i
    BY <1>9 DEF Surjection
  <2> QED BY <1>1, <2>1
<1>11. ASSUME NEW c \in S PROVE \E i \in 1..N : size[c] = i - 1
  <2>1. size[c] + 1 \in 1..N /\ size[c] = (size[c] + 1) - 1
    BY <1>1, <1>6
  <2> QED BY <2>1
<1> QED BY <1>3, <1>5, <1>10, <1>11

-----------------------------------------------------------------------------
(* Elements at some positions, in order.                                   *)

LEMMA NthIsInOrder ==
  ASSUME NEW K \in SUBSET Nat, IsFiniteSet(K)
  PROVE  /\ Cardinality(K) \in Nat
         /\ \A n \in 1..Cardinality(K) : Nth(K, n) \in K
         /\ \A i \in K : \E n \in 1..Cardinality(K) : Nth(K, n) = i
         /\ \A m, n \in 1..Cardinality(K) : m < n => Nth(K, m) < Nth(K, n)
PROOF
<1> DEFINE below == [i \in K |-> Cardinality({j \in K : j < i})]
<1>1. PICK R : \A i, j \in K : <<i, j>> \in R <=> i < j
  <2>1. \A i, j \in K : <<i, j>> \in {p \in K \X K : p[1] < p[2]} <=> i < j
    OBVIOUS
  <2> QED BY <2>1
<1>2. /\ \A n \in 1..Cardinality(K) : \E i \in K : below[i] = n - 1
      /\ \A i \in K : \E n \in 1..Cardinality(K) : below[i] = n - 1
      /\ \A i, j \in K : below[i] = below[j] => i = j
  <2>1. \A c, d \in K : c # d => <<c, d>> \in R \/ <<d, c>> \in R
    BY <1>1
  <2>2. \A c, d, e \in K : <<c, d>> \in R /\ <<d, e>> \in R => <<c, e>> \in R
    BY <1>1
  <2>3. \A c \in K : <<c, c>> \notin R
    BY <1>1
  <2> DEFINE rank(c) == Cardinality({d \in K : <<d, c>> \in R})
  <2>4. /\ \A i \in 1..Cardinality(K) : \E c \in K : rank(c) = i - 1
        /\ \A c \in K : \E i \in 1..Cardinality(K) : rank(c) = i - 1
        /\ \A c, e \in K : rank(c) = rank(e) => c = e
    BY <2>1, <2>2, <2>3, SortedByRank
  <2>5. ASSUME NEW i \in K PROVE rank(i) = below[i]
    <3>1. {d \in K : <<d, i>> \in R} = {j \in K : j < i}
      BY <1>1
    <3> QED BY <3>1
  <2> HIDE DEF rank, below
  <2> QED BY <2>4, <2>5
<1>3. ASSUME NEW i \in K, NEW j \in K, i < j PROVE below[i] < below[j]
  <2>1. {k \in K : k < i} \in SUBSET {k \in K : k < j}
    <3>1. i \in Nat /\ j \in Nat /\ \A k \in K : k \in Nat
      OBVIOUS
    <3>2. \A k \in K : k < i => k < j
      BY <1>3, <3>1
    <3> QED BY <3>2
  <2>2. i \in {k \in K : k < j} /\ i \notin {k \in K : k < i}
    BY <1>3
  <2>3. /\ IsFiniteSet({k \in K : k < j})
        /\ IsFiniteSet({k \in K : k < i})
    BY FS_Subset
  <2>4. below[i] <= below[j]
    <3>1. Cardinality({k \in K : k < i}) <= Cardinality({k \in K : k < j})
      BY <2>1, <2>3, FS_Subset
    <3> QED BY <3>1
  <2>5. below[i] # below[j]
    <3> HIDE DEF below
    <3> QED BY <1>2, <1>3
  <2>6. below[i] \in Nat /\ below[j] \in Nat
    BY <2>3, FS_CardinalityType
  <2> QED BY <2>4, <2>5, <2>6
<1>4. Cardinality(K) \in Nat
  BY FS_CardinalityType
<1>5. ASSUME NEW n \in 1..Cardinality(K) PROVE Nth(K, n) \in K /\ below[Nth(K, n)] = n - 1
  BY <1>2 DEF Nth
<1>6. ASSUME NEW i \in K PROVE \E n \in 1..Cardinality(K) : Nth(K, n) = i
  <2> HIDE DEF below
  <2>1. PICK n \in 1..Cardinality(K) : below[i] = n - 1
    BY <1>2
  <2>2. Nth(K, n) \in K /\ below[Nth(K, n)] = below[i]
    BY <1>5, <2>1
  <2> QED BY <1>2, <2>2
<1>7. ASSUME NEW m \in 1..Cardinality(K), NEW n \in 1..Cardinality(K), m < n
      PROVE  Nth(K, m) < Nth(K, n)
  <2>1. below[Nth(K, m)] = m - 1 /\ below[Nth(K, n)] = n - 1 /\ Nth(K, m) \in K /\ Nth(K, n) \in K
    BY <1>5
  <2>2. Nth(K, m) # Nth(K, n)
    <3> HIDE DEF below
    <3>1. Nth(K, m) = Nth(K, n) => m - 1 = n - 1
      BY <2>1
    <3> QED BY <1>4, <1>7, <3>1
  <2>3. ~(Nth(K, n) < Nth(K, m))
    <3> HIDE DEF below
    <3>1. Nth(K, n) < Nth(K, m) => n - 1 < m - 1
      BY <1>3, <2>1
    <3> QED BY <1>4, <1>7, <3>1
  <2>4. Nth(K, m) \in Nat /\ Nth(K, n) \in Nat
    BY <2>1
  <2> QED BY <2>2, <2>3, <2>4
<1> QED BY <1>4, <1>5, <1>6, <1>7

LEMMA PickedInOrder ==
  ASSUME NEW S, NEW s \in Seq(S), NEW K \in SUBSET DOMAIN s
  PROVE  /\ Picked(s, K) \in Seq(S)
         /\ DOMAIN Picked(s, K) = 1..Cardinality(K)
         /\ \A n \in DOMAIN Picked(s, K) : Nth(K, n) \in K /\ Picked(s, K)[n] = s[Nth(K, n)]
         /\ \A m, n \in DOMAIN Picked(s, K) : m < n => Nth(K, m) < Nth(K, n)
         /\ Range(Picked(s, K)) = {s[i] : i \in K}
PROOF
<1>1. IsFiniteSet(K) /\ K \in SUBSET Nat
  BY FS_Interval, FS_Subset
<1>2. /\ Cardinality(K) \in Nat
      /\ \A n \in 1..Cardinality(K) : Nth(K, n) \in K
      /\ \A i \in K : \E n \in 1..Cardinality(K) : Nth(K, n) = i
      /\ \A m, n \in 1..Cardinality(K) : m < n => Nth(K, m) < Nth(K, n)
  BY <1>1, NthIsInOrder
<1>3. \A i \in K : s[i] \in S
  OBVIOUS
<1>4. Picked(s, K) \in Seq(S)
  BY <1>2, <1>3 DEF Picked
<1> QED BY <1>2, <1>4 DEF Picked, Range

LEMMA DedupedIs ==
  ASSUME NEW S, NEW s \in Seq(S)
  PROVE  /\ Deduped(s) \in Seq(S)
         /\ Range(Deduped(s)) = Range(s)
         /\ \A i, j \in DOMAIN Deduped(s) : Deduped(s)[i] = Deduped(s)[j] => i = j
PROOF
<1> DEFINE K == {i \in DOMAIN s : \A j \in 1..(i - 1) : s[j] # s[i]}
<1>1. K \in SUBSET DOMAIN s /\ Deduped(s) = Picked(s, K)
  BY DEF Deduped
<1>2. ASSUME NEW i \in DOMAIN s PROVE \E k \in K : s[k] = s[i]
  <2> DEFINE T == {j \in DOMAIN s : s[j] = s[i]}
  <2>1. T \in SUBSET Nat /\ T # {}
    OBVIOUS
  <2>2. PICK k \in T : \A j \in T : k <= j
    BY <2>1, LeastNatural
  <2>3. k \in DOMAIN s /\ \A j \in 1..(k - 1) : j \in DOMAIN s /\ ~(k <= j)
    OBVIOUS
  <2> QED BY <2>2, <2>3
<1>3. ASSUME NEW i \in K, NEW j \in K, s[i] = s[j] PROVE ~(i < j)
  BY <1>3
<1>4. ASSUME NEW m \in DOMAIN Deduped(s), NEW n \in DOMAIN Deduped(s), Deduped(s)[m] = Deduped(s)[n], m < n
      PROVE  FALSE
  <2>1. /\ Nth(K, m) \in K /\ Nth(K, n) \in K /\ Nth(K, m) < Nth(K, n)
        /\ s[Nth(K, m)] = s[Nth(K, n)]
    <3> HIDE DEF K
    <3> QED BY <1>1, <1>4, PickedInOrder
  <2> QED BY <1>3, <2>1
<1>5. Deduped(s) \in Seq(S) /\ Range(Deduped(s)) = {s[i] : i \in K}
  <2> HIDE DEF K
  <2> QED BY <1>1, PickedInOrder
<1>6. \A i, j \in DOMAIN Deduped(s) : Deduped(s)[i] = Deduped(s)[j] => i = j
  <2> DOMAIN Deduped(s) \in SUBSET Nat
    BY <1>5
  <2> QED BY <1>4
<1>7. Range(Deduped(s)) = Range(s)
  <2>1. Range(Deduped(s)) = {s[i] : i \in K} /\ Range(s) = {s[i] : i \in DOMAIN s}
    BY <1>5 DEF Range
  <2> HIDE DEF K
  <2> QED BY <1>1, <1>2, <2>1
<1> QED BY <1>5, <1>6, <1>7

-----------------------------------------------------------------------------
(* The name@version maps.                                                  *)

LEMMA ListedFacts ==
  ASSUME NEW g, IsGraph(g)
  PROVE  /\ Len(g) \in Nat /\ DOMAIN g = 1..Len(g)
         /\ Listed(g) \in SUBSET (1..Len(g))
         /\ \A k \in Listed(g) : g[k].name \in Nat /\ g[k].version \in DOMAIN Coerce
PROOF
<1>1. Len(g) \in Nat /\ DOMAIN g = 1..Len(g)
  BY DEF IsGraph
<1> QED BY <1>1 DEF IsGraph, Listed

LEMMA IdFacts ==
  ASSUME NEW g, IsGraph(g), NEW id \in Ids(g)
  PROVE  /\ id = <<id[1], id[2]>> /\ id[1] \in Nat /\ id[2] \in DOMAIN Coerce /\ id[2] \in Nat
         /\ FirstKey(g, id) \in 1..Len(g) /\ IdOf(g[FirstKey(g, id)]) = id
         /\ LastKey(g, id) \in 1..Len(g) /\ IdOf(g[LastKey(g, id)]) = id
         /\ FirstKey(g, id) \in Listed(g) /\ LastKey(g, id) \in Listed(g)
PROOF
<1>1. PICK k \in Listed(g) : id = IdOf(g[k])
  BY DEF Ids
<1>2. id = <<id[1], id[2]>> /\ id[1] \in Nat /\ id[2] \in DOMAIN Coerce /\ id[2] \in Nat
  BY <1>1, ListedFacts, CoerceAssumption DEF IdOf
<1>3. k \in Places(g, id)
  BY <1>1 DEF Places
<1>4. Places(g, id) \in SUBSET (1..Len(g)) /\ Len(g) \in Nat
  BY ListedFacts DEF Places
<1>5. Places(g, id) \in SUBSET Nat /\ Places(g, id) # {} /\ \A j \in Places(g, id) : j <= Len(g)
  BY <1>3, <1>4
<1>6. FirstKey(g, id) \in Places(g, id)
  BY <1>5, MinOfNaturals DEF FirstKey
<1>7. LastKey(g, id) \in Places(g, id)
  BY <1>4, <1>5, MaxOfBounded DEF LastKey
<1> QED BY <1>2, <1>4, <1>6, <1>7 DEF Places

LEMMA VersionFacts ==
  ASSUME NEW g, IsGraph(g), NEW name
  PROVE  /\ \A v : v \in VersionSet(g, name) <=> <<name, v>> \in Ids(g)
         /\ VersionSet(g, name) \in SUBSET Nat /\ VersionSet(g, name) \in SUBSET (DOMAIN Coerce)
         /\ IsFiniteSet(VersionSet(g, name))
PROOF
<1>1. ASSUME NEW v PROVE v \in VersionSet(g, name) <=> <<name, v>> \in Ids(g)
  BY IdFacts DEF VersionSet
<1>2. ASSUME NEW v \in VersionSet(g, name)
      PROVE  v \in Nat /\ v \in DOMAIN Coerce /\ FirstKey(g, <<name, v>>) \in 1..Len(g)
  <2>1. <<name, v>> \in Ids(g)
    BY <1>1
  <2> QED BY <2>1, IdFacts
<1>3. PICK f \in [VersionSet(g, name) -> 1..Len(g)] :
        \A v \in VersionSet(g, name) : f[v] = FirstKey(g, <<name, v>>)
  <2>1. [v \in VersionSet(g, name) |-> FirstKey(g, <<name, v>>)]
          \in [VersionSet(g, name) -> 1..Len(g)]
    BY <1>2
  <2> QED BY <2>1
<1>4. ASSUME NEW v \in VersionSet(g, name), NEW w \in VersionSet(g, name), f[v] = f[w]
      PROVE  v = w
  <2>1. <<name, v>> \in Ids(g) /\ <<name, w>> \in Ids(g)
    BY <1>1
  <2>2. <<name, v>> = <<name, w>>
    BY <1>3, <1>4, <2>1, IdFacts
  <2> QED BY <2>2
<1>5. f \in Injection(VersionSet(g, name), 1..Len(g))
  BY <1>3, <1>4 DEF Injection, IsInjective
<1>6. IsFiniteSet(1..Len(g))
  BY ListedFacts, FS_Interval
<1>7. IsFiniteSet(VersionSet(g, name))
  BY <1>5, <1>6, FS_Injection
<1> QED BY <1>1, <1>2, <1>7

-----------------------------------------------------------------------------
(* The old version an upgrade is reported from.                            *)

\* The versions that share a coerced number are told apart by their place.
LEMMA CoercedRange ==
  ASSUME NEW V \in SUBSET Nat, IsFiniteSet(V), V # {}, \A v \in V : Coerce[v] \in Nat
  PROVE  /\ \E v \in V : \A w \in V : Coerce[w] <= Coerce[v]
         /\ \E v \in V : \A w \in V : Coerce[v] <= Coerce[w]
PROOF
<1> DEFINE C == {Coerce[v] : v \in V}
           f == [v \in V |-> Coerce[v]]
<1>1. C \in SUBSET Nat /\ C # {}
  OBVIOUS
<1>2. f \in Surjection(V, C)
  BY DEF Surjection
<1>3. IsFiniteSet(C)
  BY <1>2, FS_Surjection
<1>4. PICK a \in C : \A c \in C : c <= a
  BY <1>1, <1>3, FiniteHasGreatest
<1>5. PICK b \in C : \A c \in C : b <= c
  BY <1>1, LeastNatural
<1> QED BY <1>4, <1>5

LEMMA HighestIsHighest ==
  ASSUME NEW g, IsGraph(g), NEW name, NEW V \in SUBSET VersionSet(g, name), V # {},
         \A v \in V : Coerce[v] \in Nat
  PROVE  /\ Highest(g, name, V) \in V
         /\ \A w \in V : Coerce[w] <= Coerce[Highest(g, name, V)]
PROOF
<1>1. V \in SUBSET Nat /\ IsFiniteSet(V)
  BY VersionFacts, FS_Subset
<1>2. PICK v \in V : \A w \in V : Coerce[w] <= Coerce[v]
  BY <1>1, CoercedRange
<1> DEFINE T == {w \in V : Coerce[w] = Coerce[v]}
           P == {FirstKey(g, <<name, w>>) : w \in T}
<1>3. ASSUME NEW w \in V PROVE FirstKey(g, <<name, w>>) \in 1..Len(g) /\ Len(g) \in Nat
  BY VersionFacts, IdFacts, ListedFacts
<1>4. P \in SUBSET Nat /\ P # {} /\ Len(g) \in Nat /\ \A k \in P : k <= Len(g)
  <2>1. v \in T /\ \A w \in T : w \in V
    OBVIOUS
  <2> HIDE DEF T
  <2>2. FirstKey(g, <<name, v>>) \in P
    BY <2>1
  <2>3. \A k \in P : k \in 1..Len(g)
    BY <1>3, <2>1
  <2>4. Len(g) \in Nat
    BY <1>3
  <2> HIDE DEF P
  <2> QED BY <2>2, <2>3, <2>4
<1>5. Max(P) \in P /\ \A k \in P : k <= Max(P)
  BY <1>4, MaxOfBounded
<1>6. PICK x \in T : Max(P) = FirstKey(g, <<name, x>>)
  BY <1>5
<1>7. ASSUME NEW w \in V
      PROVE  Coerce[w] < Coerce[x] \/ (Coerce[w] = Coerce[x] /\ ListedBy(g, name, w, x))
  <2>1. Coerce[w] <= Coerce[v] /\ Coerce[x] = Coerce[v] /\ Coerce[w] \in Nat /\ Coerce[v] \in Nat
    BY <1>2
  <2>2. CASE Coerce[w] = Coerce[v]
    BY <1>5, <1>6, <2>1, <2>2 DEF ListedBy
  <2>3. CASE Coerce[w] # Coerce[v]
    BY <2>1, <2>3
  <2> QED BY <2>2, <2>3
<1>8. \E v0 \in V : \A w \in V :
        Coerce[w] < Coerce[v0] \/ (Coerce[w] = Coerce[v0] /\ ListedBy(g, name, w, v0))
  BY <1>7
<1>9. /\ Highest(g, name, V) \in V
      /\ \A w \in V : \/ Coerce[w] < Coerce[Highest(g, name, V)]
                      \/ Coerce[w] = Coerce[Highest(g, name, V)]
  BY <1>8, Zenon DEF Highest
<1> QED BY <1>9

LEMMA LowestIsLowest ==
  ASSUME NEW g, IsGraph(g), NEW name, NEW V \in SUBSET VersionSet(g, name), V # {},
         \A v \in V : Coerce[v] \in Nat
  PROVE  /\ Lowest(g, name, V) \in V
         /\ \A w \in V : Coerce[Lowest(g, name, V)] <= Coerce[w]
PROOF
<1>1. V \in SUBSET Nat /\ IsFiniteSet(V)
  BY VersionFacts, FS_Subset
<1>2. PICK v \in V : \A w \in V : Coerce[v] <= Coerce[w]
  BY <1>1, CoercedRange
<1> DEFINE T == {w \in V : Coerce[w] = Coerce[v]}
           P == {FirstKey(g, <<name, w>>) : w \in T}
<1>3. ASSUME NEW w \in V PROVE FirstKey(g, <<name, w>>) \in 1..Len(g) /\ Len(g) \in Nat
  BY VersionFacts, IdFacts, ListedFacts
<1>4. P \in SUBSET Nat /\ P # {}
  <2>1. v \in T /\ \A w \in T : w \in V
    OBVIOUS
  <2> HIDE DEF T
  <2>2. FirstKey(g, <<name, v>>) \in P
    BY <2>1
  <2>3. \A k \in P : k \in 1..Len(g)
    BY <1>3, <2>1
  <2>4. Len(g) \in Nat
    BY <1>3
  <2> HIDE DEF P
  <2> QED BY <2>2, <2>3, <2>4
<1>5. Min(P) \in P /\ \A k \in P : Min(P) <= k
  BY <1>4, MinOfNaturals
<1>6. PICK x \in T : Min(P) = FirstKey(g, <<name, x>>)
  BY <1>5
<1>7. ASSUME NEW w \in V
      PROVE  Coerce[x] < Coerce[w] \/ (Coerce[x] = Coerce[w] /\ ListedBy(g, name, x, w))
  <2>1. Coerce[v] <= Coerce[w] /\ Coerce[x] = Coerce[v] /\ Coerce[w] \in Nat /\ Coerce[v] \in Nat
    BY <1>2
  <2>2. CASE Coerce[w] = Coerce[v]
    BY <1>5, <1>6, <2>1, <2>2 DEF ListedBy
  <2>3. CASE Coerce[w] # Coerce[v]
    BY <2>1, <2>3
  <2> QED BY <2>2, <2>3
<1>8. \E v0 \in V : \A w \in V :
        Coerce[v0] < Coerce[w] \/ (Coerce[v0] = Coerce[w] /\ ListedBy(g, name, v0, w))
  BY <1>7
<1>9. /\ Lowest(g, name, V) \in V
      /\ \A w \in V : \/ Coerce[Lowest(g, name, V)] < Coerce[w]
                      \/ Coerce[w] = Coerce[Lowest(g, name, V)]
  BY <1>8, Zenon DEF Lowest
<1> QED BY <1>9

\* The parsed versions of a name, and those not above the target.
ParsedOf(g, name)         == {v \in VersionSet(g, name) : Coerce[v] # Unparseable}
AtMost(g, name, target)   == {v \in ParsedOf(g, name) : Coerce[v] <= Coerce[target]}

LEMMA PickCases ==
  ASSUME NEW g, IsGraph(g), NEW name, VersionSet(g, name) # {}, NEW target \in DOMAIN Coerce
  PROVE  /\ PickClosest(g, name, target) \in VersionSet(g, name)
         /\ Coerce[target] = Unparseable \/ ParsedOf(g, name) = {} =>
              PickClosest(g, name, target) = Lexically(VersionSet(g, name), target)
         /\ Coerce[target] # Unparseable /\ ParsedOf(g, name) # {} =>
              PickClosest(g, name, target) =
                IF AtMost(g, name, target) # {} THEN Highest(g, name, AtMost(g, name, target))
                                                ELSE Lowest(g, name, ParsedOf(g, name))
PROOF
<1>1. target \in Nat /\ Coerce[target] \in Nat \cup {Unparseable}
  BY CoerceAssumption
<1>2. Lexically(VersionSet(g, name), target) \in VersionSet(g, name)
  <2> DEFINE less == {v \in VersionSet(g, name) : v < target}
  <2>1. less \in SUBSET Nat /\ VersionSet(g, name) \in SUBSET Nat /\ \A v \in less : v <= target
    BY <1>1, VersionFacts
  <2>2. CASE less # {}
    <3>1. Max(less) \in less
      BY <1>1, <2>1, <2>2, MaxOfBounded
    <3> QED BY <2>2, <3>1 DEF Lexically
  <2>3. CASE less = {}
    <3>1. Min(VersionSet(g, name)) \in VersionSet(g, name)
      BY <2>1, MinOfNaturals
    <3> QED BY <2>3, <3>1 DEF Lexically
  <2> QED BY <2>2, <2>3
<1>3. \A v \in ParsedOf(g, name) : Coerce[v] \in Nat
  BY VersionFacts, CoerceAssumption DEF ParsedOf
<1>4. /\ ParsedOf(g, name) \in SUBSET VersionSet(g, name)
      /\ AtMost(g, name, target) \in SUBSET VersionSet(g, name)
      /\ \A v \in AtMost(g, name, target) : Coerce[v] \in Nat
  BY <1>3 DEF ParsedOf, AtMost
<1>5. AtMost(g, name, target) # {} => Highest(g, name, AtMost(g, name, target)) \in VersionSet(g, name)
  BY <1>4, HighestIsHighest
<1>6. ParsedOf(g, name) # {} => Lowest(g, name, ParsedOf(g, name)) \in VersionSet(g, name)
  BY <1>3, <1>4, LowestIsLowest
<1>7. /\ Coerce[target] = Unparseable \/ ParsedOf(g, name) = {} =>
           PickClosest(g, name, target) = Lexically(VersionSet(g, name), target)
      /\ Coerce[target] # Unparseable /\ ParsedOf(g, name) # {} =>
           PickClosest(g, name, target) =
             IF AtMost(g, name, target) # {} THEN Highest(g, name, AtMost(g, name, target))
                                             ELSE Lowest(g, name, ParsedOf(g, name))
  BY DEF PickClosest, ParsedOf, AtMost
<1> QED BY <1>2, <1>5, <1>6, <1>7

-----------------------------------------------------------------------------
(* The changes, each by the package it is about.                           *)

AddedOf(g, h, id)   == Change("added", id[1], g, h, 0, LastKey(h, id), None, id[2])
RemovedOf(g, h, id) == Change("removed", id[1], g, h, LastKey(g, id), 0, id[2], None)
AlteredOf(g, h, id) == Change("integrity-changed", id[1], g, h,
                              LastKey(g, id), LastKey(h, id), id[2], id[2])
UpgradeOf(g, h, id) == LET from == PickClosest(g, id[1], id[2])
                       IN  Change("upgraded", id[1], g, h,
                                  LastKey(g, <<id[1], from>>), LastKey(h, id), from, id[2])

AddedIds(g, h)    == {i \in Ids(h) : VersionSet(g, i[1]) = {}}
RemovedIds(g, h)  == {i \in Ids(g) : VersionSet(h, i[1]) = {}}
AlteredIds(g, h)  == {i \in Ids(g) \cap Ids(h) : Entry(g, i).integrity # Entry(h, i).integrity}
UpgradedIds(g, h) == {i \in Ids(h) \ Ids(g) : VersionSet(g, i[1]) # {}}

LEMMA ChangesOf ==
  ASSUME NEW g, NEW h
  PROVE  /\ Added(g, h)            = {AddedOf(g, h, id)   : id \in AddedIds(g, h)}
         /\ Removed(g, h)          = {RemovedOf(g, h, id) : id \in RemovedIds(g, h)}
         /\ IntegrityChanged(g, h) = {AlteredOf(g, h, id) : id \in AlteredIds(g, h)}
         /\ Upgraded(g, h)         = {UpgradeOf(g, h, id) : id \in UpgradedIds(g, h)}
BY DEF Added, Removed, IntegrityChanged, Upgraded, AddedOf, RemovedOf, AlteredOf, UpgradeOf,
       AddedIds, RemovedIds, AlteredIds, UpgradedIds

\* What each of the four says.
LEMMA AddedFields ==
  ASSUME NEW g, NEW h, IsGraph(h), NEW id \in AddedIds(g, h)
  PROVE  LET c == AddedOf(g, h, id) IN
         /\ c.kind = "added" /\ c.name = id[1] /\ c.oldV = None /\ c.newV = id[2]
         /\ c.keyOld = 0 /\ c.keyNew = LastKey(h, id)
         /\ c.oldI = None /\ c.newI = Entry(h, id).integrity
PROOF
<1>1. LastKey(h, id) # 0
  BY IdFacts, ListedFacts DEF AddedIds
<1> QED BY <1>1 DEF AddedOf, Change, Entry

LEMMA RemovedFields ==
  ASSUME NEW g, IsGraph(g), NEW h, NEW id \in RemovedIds(g, h)
  PROVE  LET c == RemovedOf(g, h, id) IN
         /\ c.kind = "removed" /\ c.name = id[1] /\ c.oldV = id[2] /\ c.newV = None
         /\ c.keyOld = LastKey(g, id) /\ c.keyNew = 0
         /\ c.oldI = Entry(g, id).integrity /\ c.newI = None
PROOF
<1>1. LastKey(g, id) # 0
  BY IdFacts, ListedFacts DEF RemovedIds
<1> QED BY <1>1 DEF RemovedOf, Change, Entry

LEMMA AlteredFields ==
  ASSUME NEW g, IsGraph(g), NEW h, IsGraph(h), NEW id \in AlteredIds(g, h)
  PROVE  LET c == AlteredOf(g, h, id) IN
         /\ c.kind = "integrity-changed" /\ c.name = id[1] /\ c.oldV = id[2] /\ c.newV = id[2]
         /\ c.keyOld = LastKey(g, id) /\ c.keyNew = LastKey(h, id)
         /\ c.oldI = Entry(g, id).integrity /\ c.newI = Entry(h, id).integrity
PROOF
<1>1. LastKey(g, id) # 0 /\ LastKey(h, id) # 0
  BY IdFacts, ListedFacts DEF AlteredIds
<1> QED BY <1>1 DEF AlteredOf, Change, Entry

LEMMA UpgradeFields ==
  ASSUME NEW g, IsGraph(g), NEW h, IsGraph(h), NEW id \in UpgradedIds(g, h)
  PROVE  LET c == UpgradeOf(g, h, id)
             from == PickClosest(g, id[1], id[2])
         IN
         /\ <<id[1], from>> \in Ids(g)
         /\ c.kind = "upgraded" /\ c.name = id[1] /\ c.oldV = from /\ c.newV = id[2]
         /\ c.keyOld = LastKey(g, <<id[1], from>>) /\ c.keyNew = LastKey(h, id)
         /\ c.oldI = Entry(g, <<id[1], from>>).integrity /\ c.newI = Entry(h, id).integrity
PROOF
<1> DEFINE from == PickClosest(g, id[1], id[2])
<1>1. id \in Ids(h) /\ id[2] \in DOMAIN Coerce /\ VersionSet(g, id[1]) # {}
  BY IdFacts DEF UpgradedIds
<1>2. <<id[1], from>> \in Ids(g)
  BY <1>1, PickCases, VersionFacts
<1>3. LastKey(g, <<id[1], from>>) # 0 /\ LastKey(h, id) # 0
  BY <1>1, <1>2, IdFacts, ListedFacts
<1> QED BY <1>2, <1>3 DEF UpgradeOf, Change, Entry

\* A change is one of the four, of one package.
LEMMA ChangeCases ==
  ASSUME NEW g, NEW h, NEW c \in AllChanges(g, h)
  PROVE  \/ \E id \in AddedIds(g, h) : c = AddedOf(g, h, id)
         \/ \E id \in RemovedIds(g, h) : c = RemovedOf(g, h, id)
         \/ \E id \in AlteredIds(g, h) : c = AlteredOf(g, h, id)
         \/ \E id \in UpgradedIds(g, h) : c = UpgradeOf(g, h, id)
BY ChangesOf DEF AllChanges

\* The change is determined by the package on the side it speaks of.
LEMMA NewSide ==
  ASSUME NEW g, IsGraph(g), NEW h, IsGraph(h), NEW c \in AllChanges(g, h), c.kind # "removed"
  PROVE  /\ c.kind \in {"added", "integrity-changed", "upgraded"}
         /\ <<c.name, c.newV>> \in Ids(h) /\ c.newV \in Nat /\ c.name \in Nat
         /\ c.keyNew = LastKey(h, <<c.name, c.newV>>)
         /\ c.kind = "added" <=> <<c.name, c.newV>> \in AddedIds(g, h)
         /\ c.kind = "integrity-changed" <=> <<c.name, c.newV>> \in AlteredIds(g, h)
         /\ c.kind = "upgraded" <=> <<c.name, c.newV>> \in UpgradedIds(g, h)
         /\ c.kind = "added" => c = AddedOf(g, h, <<c.name, c.newV>>)
         /\ c.kind = "integrity-changed" => c = AlteredOf(g, h, <<c.name, c.newV>>)
         /\ c.kind = "upgraded" => c = UpgradeOf(g, h, <<c.name, c.newV>>)
PROOF
<1>1. \A i \in Ids(h) : i = <<i[1], i[2]>> /\ i[1] \in Nat /\ i[2] \in Nat
  BY IdFacts
<1>2. \A i \in Ids(g) : i[2] \in VersionSet(g, i[1])
  BY IdFacts, VersionFacts
<1>3. /\ \A i \in AddedIds(g, h) : i \in Ids(h) /\ i \notin AlteredIds(g, h) /\ i \notin UpgradedIds(g, h)
      /\ \A i \in AlteredIds(g, h) : i \in Ids(h) /\ i \notin AddedIds(g, h) /\ i \notin UpgradedIds(g, h)
      /\ \A i \in UpgradedIds(g, h) : i \in Ids(h) /\ i \notin AddedIds(g, h) /\ i \notin AlteredIds(g, h)
  BY <1>2 DEF AddedIds, AlteredIds, UpgradedIds
<1>4. CASE \E id \in AddedIds(g, h) : c = AddedOf(g, h, id)
  <2>1. PICK id \in AddedIds(g, h) : c = AddedOf(g, h, id)
    BY <1>4
  <2>2. /\ c.kind = "added" /\ c.name = id[1] /\ c.newV = id[2]
        /\ c.keyNew = LastKey(h, id)
    BY <2>1, AddedFields
  <2>3. id \in Ids(h) /\ id = <<c.name, c.newV>> /\ c.name \in Nat /\ c.newV \in Nat
    BY <1>1, <1>3, <2>2
  <2> QED BY <1>3, <2>1, <2>2, <2>3
<1>5. CASE \E id \in RemovedIds(g, h) : c = RemovedOf(g, h, id)
  <2>1. PICK id \in RemovedIds(g, h) : c = RemovedOf(g, h, id)
    BY <1>5
  <2> QED BY <2>1, RemovedFields
<1>6. CASE \E id \in AlteredIds(g, h) : c = AlteredOf(g, h, id)
  <2>1. PICK id \in AlteredIds(g, h) : c = AlteredOf(g, h, id)
    BY <1>6
  <2>2. /\ c.kind = "integrity-changed" /\ c.name = id[1] /\ c.newV = id[2]
        /\ c.keyNew = LastKey(h, id)
    BY <2>1, AlteredFields
  <2>3. id \in Ids(h) /\ id = <<c.name, c.newV>> /\ c.name \in Nat /\ c.newV \in Nat
    BY <1>1, <1>3, <2>2
  <2> QED BY <1>3, <2>1, <2>2, <2>3
<1>7. CASE \E id \in UpgradedIds(g, h) : c = UpgradeOf(g, h, id)
  <2>1. PICK id \in UpgradedIds(g, h) : c = UpgradeOf(g, h, id)
    BY <1>7
  <2>2. /\ c.kind = "upgraded" /\ c.name = id[1] /\ c.newV = id[2]
        /\ c.keyNew = LastKey(h, id)
    <3> DEFINE from == PickClosest(g, id[1], id[2])
    <3>1. /\ <<id[1], from>> \in Ids(g) /\ c.kind = "upgraded" /\ c.name = id[1]
          /\ c.newV = id[2] /\ c.keyNew = LastKey(h, id)
      BY <2>1, UpgradeFields
    <3> QED BY <3>1
  <2>3. id \in Ids(h) /\ id = <<c.name, c.newV>> /\ c.name \in Nat /\ c.newV \in Nat
    BY <1>1, <1>3, <2>2
  <2> QED BY <1>3, <2>1, <2>2, <2>3
<1> QED BY <1>4, <1>5, <1>6, <1>7, ChangeCases

LEMMA OldSide ==
  ASSUME NEW g, IsGraph(g), NEW h, IsGraph(h), NEW c \in AllChanges(g, h), c.kind # "added"
  PROVE  /\ <<c.name, c.oldV>> \in Ids(g) /\ c.oldV \in Nat /\ c.name \in Nat
         /\ c.keyOld = LastKey(g, <<c.name, c.oldV>>)
         /\ c.oldI = Entry(g, <<c.name, c.oldV>>).integrity
         /\ c.kind = "removed" => /\ <<c.name, c.oldV>> \in RemovedIds(g, h)
                                  /\ c = RemovedOf(g, h, <<c.name, c.oldV>>)
                                  /\ c.newV = None
PROOF
<1>1. \A i \in Ids(g) : i = <<i[1], i[2]>> /\ i[1] \in Nat /\ i[2] \in Nat
  BY IdFacts
<1>4. CASE \E id \in AddedIds(g, h) : c = AddedOf(g, h, id)
  <2>1. PICK id \in AddedIds(g, h) : c = AddedOf(g, h, id)
    BY <1>4
  <2> QED BY <2>1, AddedFields
<1>5. CASE \E id \in RemovedIds(g, h) : c = RemovedOf(g, h, id)
  <2>1. PICK id \in RemovedIds(g, h) : c = RemovedOf(g, h, id)
    BY <1>5
  <2>2. id \in Ids(g)
    BY DEF RemovedIds
  <2>3. /\ c.kind = "removed" /\ c.name = id[1] /\ c.oldV = id[2]
        /\ c.keyOld = LastKey(g, id) /\ c.oldI = Entry(g, id).integrity
        /\ c.newV = None
    BY <2>1, RemovedFields
  <2>4. id = <<c.name, c.oldV>> /\ c.name \in Nat /\ c.oldV \in Nat
    BY <1>1, <2>2, <2>3
  <2> QED BY <2>1, <2>2, <2>3, <2>4
<1>6. CASE \E id \in AlteredIds(g, h) : c = AlteredOf(g, h, id)
  <2>1. PICK id \in AlteredIds(g, h) : c = AlteredOf(g, h, id)
    BY <1>6
  <2>2. id \in Ids(g)
    BY DEF AlteredIds
  <2>3. /\ c.kind = "integrity-changed" /\ c.name = id[1] /\ c.oldV = id[2]
        /\ c.keyOld = LastKey(g, id) /\ c.oldI = Entry(g, id).integrity
    BY <2>1, AlteredFields
  <2>4. id = <<c.name, c.oldV>> /\ c.name \in Nat /\ c.oldV \in Nat
    BY <1>1, <2>2, <2>3
  <2> QED BY <2>1, <2>2, <2>3, <2>4
<1>7. CASE \E id \in UpgradedIds(g, h) : c = UpgradeOf(g, h, id)
  <2>1. PICK id \in UpgradedIds(g, h) : c = UpgradeOf(g, h, id)
    BY <1>7
  <2> DEFINE from == PickClosest(g, id[1], id[2])
  <2>2. /\ <<id[1], from>> \in Ids(g) /\ c.kind = "upgraded" /\ c.name = id[1] /\ c.oldV = from
        /\ c.keyOld = LastKey(g, <<id[1], from>>) /\ c.oldI = Entry(g, <<id[1], from>>).integrity
    BY <2>1, UpgradeFields
  <2>3. id[1] \in Nat /\ from \in Nat
    BY <2>2, <1>1
  <2> QED BY <2>2, <2>3
<1> QED BY <1>4, <1>5, <1>6, <1>7, ChangeCases

LEMMA UpgradeSide ==
  ASSUME NEW g, IsGraph(g), NEW h, IsGraph(h), NEW c \in AllChanges(g, h), c.kind = "upgraded"
  PROVE  /\ <<c.name, c.newV>> \in UpgradedIds(g, h)
         /\ c.oldV = PickClosest(g, c.name, c.newV)
         /\ c.newI = Entry(h, <<c.name, c.newV>>).integrity
PROOF
<1>1. <<c.name, c.newV>> \in UpgradedIds(g, h) /\ c = UpgradeOf(g, h, <<c.name, c.newV>>)
  BY NewSide
<1>2. PICK id \in UpgradedIds(g, h) : c = UpgradeOf(g, h, id) /\ id = <<c.name, c.newV>>
  BY <1>1
<1> DEFINE from == PickClosest(g, id[1], id[2])
<1>3. /\ <<id[1], from>> \in Ids(g) /\ c.name = id[1] /\ c.newV = id[2]
      /\ c.oldV = from /\ c.newI = Entry(h, id).integrity
  BY <1>2, UpgradeFields
<1> QED BY <1>1, <1>2, <1>3

LEMMA NewSideIntegrity ==
  ASSUME NEW g, IsGraph(g), NEW h, IsGraph(h), NEW c \in AllChanges(g, h), c.kind # "removed"
  PROVE  c.newI = Entry(h, <<c.name, c.newV>>).integrity
PROOF
<1> DEFINE id == <<c.name, c.newV>>
<1>1. /\ c.kind \in {"added", "integrity-changed", "upgraded"}
      /\ c.kind = "added" => id \in AddedIds(g, h) /\ c = AddedOf(g, h, id)
      /\ c.kind = "integrity-changed" => id \in AlteredIds(g, h) /\ c = AlteredOf(g, h, id)
      /\ c.kind = "upgraded" => id \in UpgradedIds(g, h) /\ c = UpgradeOf(g, h, id)
  BY NewSide
<1> HIDE DEF id
<1>2. CASE c.kind = "added"
  BY <1>1, <1>2, AddedFields DEF id
<1>3. CASE c.kind = "integrity-changed"
  BY <1>1, <1>3, AlteredFields DEF id
<1>4. CASE c.kind = "upgraded"
  BY <1>4, UpgradeSide
<1> QED BY <1>1, <1>2, <1>3, <1>4

LEMMA AddedHasNoOld ==
  ASSUME NEW g, IsGraph(g), NEW h, IsGraph(h), NEW c \in AllChanges(g, h), c.kind = "added"
  PROVE  c.oldV = None
PROOF
<1>1. <<c.name, c.newV>> \in AddedIds(g, h) /\ c = AddedOf(g, h, <<c.name, c.newV>>)
  BY NewSide
<1>2. AddedOf(g, h, <<c.name, c.newV>>).oldV = None
  BY <1>1, AddedFields
<1> QED BY <1>1, <1>2

-----------------------------------------------------------------------------
(* The order of the changes.                                               *)

LEMMA NewSideDetermines ==
  ASSUME NEW g, IsGraph(g), NEW h, IsGraph(h),
         NEW c \in AllChanges(g, h), NEW d \in AllChanges(g, h),
         c.kind # "removed", d.kind # "removed", c.name = d.name, c.newV = d.newV
  PROVE  c = d
PROOF
<1> DEFINE id == <<c.name, c.newV>>
<1>1. /\ c.kind \in {"added", "integrity-changed", "upgraded"}
      /\ c.kind = "added" => id \in AddedIds(g, h) /\ c = AddedOf(g, h, id)
      /\ c.kind = "integrity-changed" => id \in AlteredIds(g, h) /\ c = AlteredOf(g, h, id)
      /\ c.kind = "upgraded" => id \in UpgradedIds(g, h) /\ c = UpgradeOf(g, h, id)
  BY NewSide
<1>2. id = <<d.name, d.newV>>
  OBVIOUS
<1>3. /\ d.kind = "added" <=> id \in AddedIds(g, h)
      /\ d.kind = "integrity-changed" <=> id \in AlteredIds(g, h)
      /\ d.kind = "upgraded" <=> id \in UpgradedIds(g, h)
      /\ d.kind = "added" => d = AddedOf(g, h, id)
      /\ d.kind = "integrity-changed" => d = AlteredOf(g, h, id)
      /\ d.kind = "upgraded" => d = UpgradeOf(g, h, id)
  <2> HIDE DEF id
  <2> QED BY <1>2, NewSide
<1> HIDE DEF id
<1> QED BY <1>1, <1>3

LEMMA OldSideDetermines ==
  ASSUME NEW g, IsGraph(g), NEW h, IsGraph(h),
         NEW c \in AllChanges(g, h), NEW d \in AllChanges(g, h),
         c.kind = "removed", d.kind = "removed", c.name = d.name, c.oldV = d.oldV
  PROVE  c = d
PROOF
<1>1. c = RemovedOf(g, h, <<c.name, c.oldV>>)
  BY OldSide
<1>2. d = RemovedOf(g, h, <<d.name, d.oldV>>)
  BY OldSide
<1> QED BY <1>1, <1>2

\* There are finitely many: a change is known by the key it carries.
LEMMA ChangesFinite ==
  ASSUME NEW g, IsGraph(g), NEW h, IsGraph(h)
  PROVE  IsFiniteSet(AllChanges(g, h))
PROOF
<1> DEFINE place(c) == IF c.kind = "removed" THEN c.keyOld ELSE Len(g) + c.keyNew
<1>1. Len(g) \in Nat /\ Len(h) \in Nat
  BY ListedFacts
<1>2. ASSUME NEW c \in AllChanges(g, h), c.kind = "removed"
      PROVE  c.keyOld \in 1..Len(g) /\ IdOf(g[c.keyOld]) = <<c.name, c.oldV>>
  <2>1. <<c.name, c.oldV>> \in Ids(g) /\ c.keyOld = LastKey(g, <<c.name, c.oldV>>)
    BY <1>2, OldSide
  <2> QED BY <2>1, IdFacts
<1>3. ASSUME NEW c \in AllChanges(g, h), c.kind # "removed"
      PROVE  c.keyNew \in 1..Len(h) /\ IdOf(h[c.keyNew]) = <<c.name, c.newV>>
  <2>1. <<c.name, c.newV>> \in Ids(h) /\ c.keyNew = LastKey(h, <<c.name, c.newV>>)
    BY <1>3, NewSide
  <2> QED BY <2>1, IdFacts
<1>4. PICK f \in [AllChanges(g, h) -> 1..(Len(g) + Len(h))] :
        \A c \in AllChanges(g, h) : f[c] = place(c)
  <2>1. ASSUME NEW c \in AllChanges(g, h) PROVE place(c) \in 1..(Len(g) + Len(h))
    BY <1>1, <1>2, <1>3
  <2>2. [c \in AllChanges(g, h) |-> place(c)] \in [AllChanges(g, h) -> 1..(Len(g) + Len(h))]
    BY <2>1
  <2> QED BY <2>2
<1>5. ASSUME NEW c \in AllChanges(g, h), NEW d \in AllChanges(g, h), f[c] = f[d]
      PROVE  c = d
  <2>1. place(c) = place(d)
    BY <1>4, <1>5
  <2>2. c.kind = "removed" <=> d.kind = "removed"
    BY <1>1, <1>2, <1>3, <2>1
  <2>3. CASE c.kind = "removed"
    <3>1. c.keyOld = d.keyOld
      BY <2>1, <2>2, <2>3
    <3>2. c.name = d.name /\ c.oldV = d.oldV
      BY <1>2, <2>2, <2>3, <3>1
    <3> QED BY <2>2, <2>3, <3>2, OldSideDetermines
  <2>4. CASE c.kind # "removed"
    <3>1. c.keyNew = d.keyNew
      BY <1>1, <1>3, <2>1, <2>2, <2>4
    <3>2. c.name = d.name /\ c.newV = d.newV
      BY <1>3, <2>2, <2>4, <3>1
    <3> QED BY <2>2, <2>4, <3>2, NewSideDetermines
  <2> QED BY <2>3, <2>4
<1>6. f \in Injection(AllChanges(g, h), 1..(Len(g) + Len(h)))
  BY <1>4, <1>5 DEF Injection, IsInjective
<1>7. IsFiniteSet(1..(Len(g) + Len(h)))
  BY <1>1, FS_Interval
<1> QED BY <1>6, <1>7, FS_Injection

LEMMA KindRanks ==
  /\ \A k \in {"added", "integrity-changed", "removed", "upgraded"} : KindRank(k) \in Nat
  /\ \A k, l \in {"added", "integrity-changed", "removed", "upgraded"} :
       KindRank(k) = KindRank(l) => k = l
PROOF
<1>1. /\ KindRank("added") = 1 /\ KindRank("integrity-changed") = 2
      /\ KindRank("removed") = 3 /\ KindRank("upgraded") = 4
  BY DEF KindRank
<1> QED BY <1>1

LEMMA ChangeTyped ==
  ASSUME NEW g, IsGraph(g), NEW h, IsGraph(h), NEW c \in AllChanges(g, h)
  PROVE  /\ c.kind \in {"added", "integrity-changed", "removed", "upgraded"}
         /\ KindRank(c.kind) \in Nat
         /\ c.name \in Nat
         /\ c.kind = "removed" => /\ <<c.name, c.oldV>> \in Ids(g)
                                  /\ FirstKey(g, <<c.name, c.oldV>>) \in Nat
         /\ c.kind # "removed" => c.newV \in Nat
PROOF
<1>1. c.kind \in {"added", "integrity-changed", "removed", "upgraded"}
  BY NewSide
<1>2. c.kind = "removed" => /\ c.name \in Nat /\ <<c.name, c.oldV>> \in Ids(g)
                            /\ FirstKey(g, <<c.name, c.oldV>>) \in Nat
  BY OldSide, IdFacts, ListedFacts
<1>3. c.kind # "removed" => c.newV \in Nat /\ c.name \in Nat
  BY NewSide
<1> QED BY <1>1, <1>2, <1>3, KindRanks

\* The removed versions of one name are listed at different places.
LEMMA FirstKeyDetermines ==
  ASSUME NEW g, IsGraph(g), NEW i \in Ids(g), NEW j \in Ids(g), FirstKey(g, i) = FirstKey(g, j)
  PROVE  i = j
BY IdFacts

LEMMA BeforeIsOrder ==
  ASSUME NEW g, IsGraph(g), NEW h, IsGraph(h)
  PROVE  /\ \A c \in AllChanges(g, h) : ~Before(g, c, c)
         /\ \A c, d \in AllChanges(g, h) : c # d => Before(g, c, d) \/ Before(g, d, c)
         /\ \A c, d, e \in AllChanges(g, h) :
              Before(g, c, d) /\ Before(g, d, e) => Before(g, c, e)
PROOF
<1>1. ASSUME NEW c \in AllChanges(g, h) PROVE ~Before(g, c, c)
  BY ChangeTyped DEF Before
<1>2. ASSUME NEW c \in AllChanges(g, h), NEW d \in AllChanges(g, h),
             ~Before(g, c, d), ~Before(g, d, c)
      PROVE  c = d
  <2>1. c.name = d.name
    BY <1>2, ChangeTyped DEF Before
  <2>2. c.kind = d.kind
    BY <1>2, <2>1, ChangeTyped, KindRanks DEF Before
  <2>3. CASE c.kind = "removed"
    <3>1. FirstKey(g, <<c.name, c.oldV>>) = FirstKey(g, <<d.name, d.oldV>>)
      <4>1. FirstKey(g, <<c.name, c.oldV>>) \in Nat /\ FirstKey(g, <<d.name, d.oldV>>) \in Nat
        BY <2>2, <2>3, ChangeTyped
      <4>2. /\ ~(FirstKey(g, <<c.name, c.oldV>>) < FirstKey(g, <<d.name, d.oldV>>))
            /\ ~(FirstKey(g, <<d.name, d.oldV>>) < FirstKey(g, <<c.name, c.oldV>>))
        BY <1>2, <2>1, <2>2, <2>3 DEF Before
      <4> QED BY <4>1, <4>2
    <3>2. <<c.name, c.oldV>> = <<d.name, d.oldV>>
      BY <2>2, <2>3, <3>1, ChangeTyped, FirstKeyDetermines
    <3> QED BY <2>1, <2>2, <2>3, <3>2, OldSideDetermines
  <2>4. CASE c.kind # "removed"
    <3>1. c.newV = d.newV
      <4>1. c.newV \in Nat /\ d.newV \in Nat
        BY <2>2, <2>4, ChangeTyped
      <4>2. ~(c.newV < d.newV) /\ ~(d.newV < c.newV)
        BY <1>2, <2>1, <2>2, <2>4 DEF Before
      <4> QED BY <4>1, <4>2
    <3> QED BY <2>1, <2>2, <2>4, <3>1, NewSideDetermines
  <2> QED BY <2>3, <2>4
<1>3. ASSUME NEW c \in AllChanges(g, h), NEW d \in AllChanges(g, h), NEW e \in AllChanges(g, h),
             Before(g, c, d), Before(g, d, e)
      PROVE  Before(g, c, e)
  BY <1>3, ChangeTyped DEF Before
<1> QED BY <1>1, <1>2, <1>3

\* The result holds every change, each at one place.
LEMMA ResultIsAllChanges ==
  ASSUME NEW g, IsGraph(g), NEW h, IsGraph(h)
  PROVE  LET cs == ComputeChangeset(g, h) IN
         /\ \A i \in DOMAIN cs : cs[i] \in AllChanges(g, h)
         /\ \A c \in AllChanges(g, h) : \E i \in DOMAIN cs : cs[i] = c
         /\ \A i, j \in DOMAIN cs : cs[i] = cs[j] => i = j
PROOF
<1> DEFINE all == AllChanges(g, h)
           R == {p \in all \X all : Before(g, p[1], p[2])}
           rank(c) == Cardinality({d \in all : Before(g, d, c)})
<1>1. ASSUME NEW c \in all
      PROVE  {d \in all : <<d, c>> \in R} = {d \in all : Before(g, d, c)}
  OBVIOUS
<1>2. /\ \A c \in all : <<c, c>> \notin R
      /\ \A c, d \in all : c # d => <<c, d>> \in R \/ <<d, c>> \in R
      /\ \A c, d, e \in all : <<c, d>> \in R /\ <<d, e>> \in R => <<c, e>> \in R
  <2>1. \A c, d \in all : <<c, d>> \in R <=> Before(g, c, d)
    OBVIOUS
  <2> QED BY <2>1, BeforeIsOrder
<1>3. IsFiniteSet(all)
  BY ChangesFinite
<1>4. /\ \A i \in 1..Cardinality(all) : \E c \in all :
           Cardinality({d \in all : <<d, c>> \in R}) = i - 1
      /\ \A c \in all : \E i \in 1..Cardinality(all) :
           Cardinality({d \in all : <<d, c>> \in R}) = i - 1
      /\ \A c, e \in all :
           Cardinality({d \in all : <<d, c>> \in R}) = Cardinality({d \in all : <<d, e>> \in R})
             => c = e
  <2> HIDE DEF R, all
  <2> QED BY <1>2, <1>3, SortedByRank
<1>5. /\ \A i \in 1..Cardinality(all) : \E c \in all : rank(c) = i - 1
      /\ \A c \in all : \E i \in 1..Cardinality(all) : rank(c) = i - 1
      /\ \A c, e \in all : rank(c) = rank(e) => c = e
  <2>1. \A c \in all : Cardinality({d \in all : <<d, c>> \in R}) = rank(c)
    BY <1>1
  <2> HIDE DEF R, all, rank
  <2> QED BY <1>4, <2>1
<1>6. /\ DOMAIN ComputeChangeset(g, h) = 1..Cardinality(all)
      /\ \A i \in 1..Cardinality(all) :
           ComputeChangeset(g, h)[i] = CHOOSE c \in all : rank(c) = i - 1
  BY DEF ComputeChangeset
<1> HIDE DEF rank, all
<1>7. ASSUME NEW i \in 1..Cardinality(all)
      PROVE  ComputeChangeset(g, h)[i] \in all /\ rank(ComputeChangeset(g, h)[i]) = i - 1
  BY <1>5, <1>6
<1>8. ASSUME NEW c \in all PROVE \E i \in 1..Cardinality(all) : ComputeChangeset(g, h)[i] = c
  BY <1>5, <1>7
<1>9. ASSUME NEW i \in 1..Cardinality(all), NEW j \in 1..Cardinality(all),
             ComputeChangeset(g, h)[i] = ComputeChangeset(g, h)[j]
      PROVE  i = j
  <2>1. i - 1 = j - 1
    BY <1>7, <1>9
  <2> QED BY <2>1
<1> QED BY <1>6, <1>7, <1>8, <1>9 DEF all

LEMMA RangeOfResult ==
  ASSUME NEW g, IsGraph(g), NEW h, IsGraph(h)
  PROVE  Range(ComputeChangeset(g, h)) = AllChanges(g, h)
BY ResultIsAllChanges DEF Range

-----------------------------------------------------------------------------
(* What is computed once stays, and is computeChangeset's.                 *)

CompareInv ==
  Computed => IsGraph(old) /\ IsGraph(new) /\ changes = ComputeChangeset(old, new)

LEMMA CompareHolds == CompareSpec => []CompareInv
PROOF
<1>1. CompareInit => CompareInv
  BY DEF CompareInit, CompareInv, Computed
<1>2. CompareInv /\ [\E g, h : IsGraph(g) /\ IsGraph(h) /\ Compare(g, h)]_compareVars => CompareInv'
  <2> SUFFICES ASSUME CompareInv,
                      [\E g, h : IsGraph(g) /\ IsGraph(h) /\ Compare(g, h)]_compareVars
               PROVE  CompareInv'
    OBVIOUS
  <2>1. CASE \E g, h : IsGraph(g) /\ IsGraph(h) /\ Compare(g, h)
    <3>1. PICK g, h : IsGraph(g) /\ IsGraph(h) /\ Compare(g, h)
      BY <2>1
    <3>2. old' = g /\ new' = h /\ changes' = ComputeChangeset(g, h)
      BY <3>1 DEF Compare
    <3>3. IsGraph(old') /\ IsGraph(new') /\ changes' = ComputeChangeset(old', new')
      BY <3>1, <3>2
    <3> QED BY <3>3 DEF CompareInv
  <2>2. CASE UNCHANGED compareVars
    BY <2>2 DEF CompareInv, Computed, compareVars
  <2> QED BY <2>1, <2>2
<1> QED BY <1>1, <1>2, PTL DEF CompareSpec

-----------------------------------------------------------------------------
(* What it promises.                                                       *)

LEMMA KeysAreRight == CompareInv => KeysHoldTheirPackage
PROOF
<1> SUFFICES ASSUME CompareInv, Computed
             PROVE  /\ \A i, j \in DOMAIN changes :
                         (/\ changes[i].newV # None
                          /\ changes[i].name = changes[j].name
                          /\ changes[i].newV = changes[j].newV) => i = j
                    /\ \A c \in Range(changes) :
                         /\ c.newV # None => /\ IdOf(new[c.keyNew]) = <<c.name, c.newV>>
                                             /\ new[c.keyNew].integrity = c.newI
                         /\ c.oldV # None => /\ IdOf(old[c.keyOld]) = <<c.name, c.oldV>>
                                             /\ old[c.keyOld].integrity = c.oldI
  BY DEF KeysHoldTheirPackage
<1>1. IsGraph(old) /\ IsGraph(new) /\ changes = ComputeChangeset(old, new)
  BY DEF CompareInv
<1>2. ASSUME NEW i \in DOMAIN changes, NEW j \in DOMAIN changes,
             changes[i].newV # None, changes[i].name = changes[j].name,
             changes[i].newV = changes[j].newV
      PROVE  i = j
  <2>1. changes[i] \in AllChanges(old, new) /\ changes[j] \in AllChanges(old, new)
    BY <1>1, ResultIsAllChanges
  <2>2. changes[i].kind # "removed" /\ changes[j].kind # "removed"
    <3>1. \A c \in AllChanges(old, new) : c.kind = "removed" => c.newV = None
      BY <1>1, OldSide
    <3> QED BY <1>2, <2>1, <3>1
  <2>3. changes[i] = changes[j]
    BY <1>1, <1>2, <2>1, <2>2, NewSideDetermines
  <2> QED BY <1>1, <2>3, ResultIsAllChanges
<1>3. ASSUME NEW c \in Range(changes), c.newV # None
      PROVE  /\ IdOf(new[c.keyNew]) = <<c.name, c.newV>>
             /\ new[c.keyNew].integrity = c.newI
  <2>1. c \in AllChanges(old, new)
    BY <1>1, RangeOfResult
  <2>2. c.kind # "removed"
    BY <1>1, <1>3, <2>1, OldSide
  <2>3. <<c.name, c.newV>> \in Ids(new) /\ c.keyNew = LastKey(new, <<c.name, c.newV>>)
    BY <1>1, <2>1, <2>2, NewSide
  <2>4. c.newI = Entry(new, <<c.name, c.newV>>).integrity
    BY <1>1, <2>1, <2>2, NewSideIntegrity
  <2> QED BY <1>1, <2>3, <2>4, IdFacts DEF Entry
<1>4. ASSUME NEW c \in Range(changes), c.oldV # None
      PROVE  /\ IdOf(old[c.keyOld]) = <<c.name, c.oldV>>
             /\ old[c.keyOld].integrity = c.oldI
  <2>1. c \in AllChanges(old, new)
    BY <1>1, RangeOfResult
  <2>2. c.kind # "added"
    BY <1>1, <1>4, <2>1, AddedHasNoOld
  <2>3. <<c.name, c.oldV>> \in Ids(old) /\ c.keyOld = LastKey(old, <<c.name, c.oldV>>)
    BY <1>1, <2>1, <2>2, OldSide
  <2>4. c.oldI = Entry(old, <<c.name, c.oldV>>).integrity
    BY <1>1, <2>1, <2>2, OldSide
  <2> QED BY <1>1, <2>3, <2>4, IdFacts DEF Entry
<1> QED BY <1>2, <1>3, <1>4

(***************************************************************************)
(* The node keys a change carries lead to the package it names, and no     *)
(* package is reported twice, for graphs of any size (changeset.ts:44-75). *)
(***************************************************************************)
THEOREM KeysAreHeld == CompareSpec => []KeysHoldTheirPackage
BY CompareHolds, KeysAreRight, PTL

LEMMA OriginIsClosest == CompareInv => UpgradeFromClosest
PROOF
<1> SUFFICES ASSUME CompareInv, Computed, NEW c \in Range(changes), c.kind = "upgraded",
                    Coerce[c.newV] # Unparseable, ParsedOf(old, c.name) # {}
             PROVE  /\ c.oldV \in ParsedOf(old, c.name)
                    /\ \A v \in ParsedOf(old, c.name) :
                         /\ ~(Coerce[c.oldV] < Coerce[v] /\ Coerce[v] <= Coerce[c.newV])
                         /\ ~(Coerce[c.newV] <= Coerce[v] /\ Coerce[v] < Coerce[c.oldV])
                         /\ Coerce[c.oldV] > Coerce[c.newV] => Coerce[v] > Coerce[c.newV]
  BY DEF UpgradeFromClosest, OfKind, ParsedOf
<1> DEFINE name == c.name
           target == c.newV
           parsed == ParsedOf(old, name)
           below == AtMost(old, name, target)
<1>1. IsGraph(old) /\ IsGraph(new) /\ c \in AllChanges(old, new)
  BY RangeOfResult DEF CompareInv
<1>2. /\ <<name, target>> \in Ids(new) /\ <<name, target>> \in UpgradedIds(old, new)
      /\ c.oldV = PickClosest(old, name, target)
  BY <1>1, NewSide, UpgradeSide
<1>3. target \in DOMAIN Coerce /\ VersionSet(old, name) # {}
  BY <1>1, <1>2, IdFacts DEF UpgradedIds
<1>4. Coerce[target] \in Nat
  BY <1>3, CoerceAssumption
<1>5. /\ \A v \in parsed : Coerce[v] \in Nat
      /\ parsed \in SUBSET VersionSet(old, name)
      /\ below \in SUBSET VersionSet(old, name) /\ below \in SUBSET parsed
      /\ \A v \in parsed : v \in below <=> Coerce[v] <= Coerce[target]
  BY <1>1, VersionFacts, CoerceAssumption DEF ParsedOf, AtMost
<1>6. c.oldV = IF below # {} THEN Highest(old, name, below) ELSE Lowest(old, name, parsed)
  BY <1>1, <1>2, <1>3, PickCases
<1> HIDE DEF parsed, below, name, target
<1>7. CASE below # {}
  <2>1. c.oldV \in below /\ \A w \in below : Coerce[w] <= Coerce[c.oldV]
    BY <1>1, <1>5, <1>6, <1>7, HighestIsHighest
  <2>2. c.oldV \in parsed /\ Coerce[c.oldV] <= Coerce[target] /\ Coerce[c.oldV] \in Nat
    BY <1>5, <2>1
  <2>3. ASSUME NEW v \in parsed
        PROVE  /\ ~(Coerce[c.oldV] < Coerce[v] /\ Coerce[v] <= Coerce[target])
               /\ ~(Coerce[target] <= Coerce[v] /\ Coerce[v] < Coerce[c.oldV])
               /\ ~(Coerce[c.oldV] > Coerce[target])
    <3>1. Coerce[v] \in Nat /\ (Coerce[v] <= Coerce[target] => Coerce[v] <= Coerce[c.oldV])
      BY <1>5, <2>1
    <3> QED BY <1>4, <2>2, <3>1
  <2> QED BY <2>2, <2>3 DEF parsed, name, target
<1>8. CASE below = {}
  <2>1. c.oldV \in parsed /\ \A w \in parsed : Coerce[c.oldV] <= Coerce[w]
    BY <1>1, <1>5, <1>6, <1>8, LowestIsLowest DEF parsed, name
  <2>2. ASSUME NEW v \in parsed
        PROVE  Coerce[v] \in Nat /\ Coerce[v] > Coerce[target] /\ Coerce[c.oldV] <= Coerce[v]
    BY <1>4, <1>5, <1>8, <2>1
  <2>3. ASSUME NEW v \in parsed
        PROVE  /\ ~(Coerce[c.oldV] < Coerce[v] /\ Coerce[v] <= Coerce[target])
               /\ ~(Coerce[target] <= Coerce[v] /\ Coerce[v] < Coerce[c.oldV])
               /\ Coerce[v] > Coerce[target]
    BY <1>4, <2>1, <2>2
  <2> QED BY <2>1, <2>3 DEF parsed, name, target
<1> QED BY <1>7, <1>8

(***************************************************************************)
(* An upgrade is reported from the closest old version, whatever versions  *)
(* coerce to one number or to none (changeset.ts:193-223).                 *)
(***************************************************************************)
THEOREM UpgradesStartClosest == CompareSpec => []UpgradeFromClosest
BY CompareHolds, OriginIsClosest, PTL

LEMMA EveryIdHasItsChange ==
  ASSUME NEW g, NEW h
  PROVE  /\ \A id \in AddedIds(g, h)    : AddedOf(g, h, id) \in AllChanges(g, h)
         /\ \A id \in RemovedIds(g, h)  : RemovedOf(g, h, id) \in AllChanges(g, h)
         /\ \A id \in AlteredIds(g, h)  : AlteredOf(g, h, id) \in AllChanges(g, h)
         /\ \A id \in UpgradedIds(g, h) : UpgradeOf(g, h, id) \in AllChanges(g, h)
BY ChangesOf DEF AllChanges

LEMMA NothingIsLost == CompareInv => NothingNewIsLost
PROOF
<1> SUFFICES ASSUME CompareInv, Computed, Consistent(new),
                    NEW k \in Listed(new),
                    <<new[k].name, new[k].version, new[k].integrity>> \notin ArtifactsOf(old)
             PROVE  <<new[k].name, new[k].version, new[k].integrity>> \in NewArtifacts
  BY DEF NothingNewIsLost, ArtifactsOf
<1> DEFINE id == IdOf(new[k])
           Names(c) == c.name = id[1] /\ c.newV = id[2] /\ c.newI = Entry(new, id).integrity
<1>1. IsGraph(old) /\ IsGraph(new) /\ Range(changes) = AllChanges(old, new)
  BY RangeOfResult DEF CompareInv
<1>2. id \in Ids(new) /\ id[1] = new[k].name /\ id[2] = new[k].version
  BY DEF Ids, IdOf
<1>3. /\ id = <<id[1], id[2]>> /\ id[2] \in Nat /\ id[2] # None
      /\ Entry(new, id).integrity = new[k].integrity
  BY <1>1, <1>2, IdFacts, CoerceAssumption DEF Consistent, Entry
<1>4. \E c \in AllChanges(old, new) : Names(c)
  <2>1. CASE id \in Ids(old)
    <3>1. LastKey(old, id) \in Listed(old) /\ IdOf(old[LastKey(old, id)]) = id
      BY <1>1, <2>1, IdFacts
    <3>2. <<id[1], id[2], Entry(old, id).integrity>> \in ArtifactsOf(old)
      BY <3>1 DEF ArtifactsOf, Entry, IdOf
    <3>3. id \in AlteredIds(old, new)
      BY <1>2, <1>3, <2>1, <3>2 DEF AlteredIds
    <3> QED BY <1>1, <3>3, AlteredFields, EveryIdHasItsChange
  <2>2. CASE id \notin Ids(old) /\ VersionSet(old, id[1]) # {}
    <3>1. id \in UpgradedIds(old, new)
      BY <1>2, <2>2 DEF UpgradedIds
    <3> DEFINE u    == UpgradeOf(old, new, id)
               from == PickClosest(old, id[1], id[2])
    <3>2. <<id[1], from>> \in Ids(old) /\ u.name = id[1] /\ u.newV = id[2]
          /\ u.newI = Entry(new, id).integrity
      <4> HIDE DEF id
      <4> QED BY <1>1, <3>1, UpgradeFields
    <3>3. u \in AllChanges(old, new)
      BY <3>1, EveryIdHasItsChange
    <3> QED BY <3>2, <3>3
  <2>3. CASE id \notin Ids(old) /\ VersionSet(old, id[1]) = {}
    <3>1. id \in AddedIds(old, new)
      BY <1>2, <2>3 DEF AddedIds
    <3> QED BY <1>1, <3>1, AddedFields, EveryIdHasItsChange
  <2> QED BY <2>1, <2>2, <2>3
<1>5. PICK c \in Range(changes) : Names(c)
  BY <1>1, <1>4
<1> QED BY <1>2, <1>3, <1>5 DEF NewArtifacts

(***************************************************************************)
(* Every artifact only the new graph lists is compared with something or   *)
(* reported as added, for any two graphs (changeset.ts:75-181).            *)
(***************************************************************************)
THEOREM NewArtifactsAreReported == CompareSpec => []NothingNewIsLost
BY CompareHolds, NothingIsLost, PTL

-----------------------------------------------------------------------------
(* The diff in the other direction.                                        *)

LEMMA AlteredSide ==
  ASSUME NEW g, IsGraph(g), NEW h, IsGraph(h),
         NEW c \in AllChanges(g, h), c.kind = "integrity-changed"
  PROVE  LET id == <<c.name, c.newV>> IN
         /\ id \in AlteredIds(g, h) /\ c.oldV = c.newV
         /\ c.oldI = Entry(g, id).integrity /\ c.newI = Entry(h, id).integrity
PROOF
<1>1. PICK id \in AlteredIds(g, h) : c = AlteredOf(g, h, id) /\ id = <<c.name, c.newV>>
  BY NewSide
<1>2. /\ c.oldV = id[2] /\ c.oldI = Entry(g, id).integrity /\ c.newI = Entry(h, id).integrity
  BY <1>1, AlteredFields
<1> QED BY <1>1, <1>2

LEMMA AddedPackages ==
  ASSUME NEW g, IsGraph(g), NEW h, IsGraph(h)
  PROVE  {<<c.name, c.newV>> : c \in OfKind(ComputeChangeset(g, h), "added")} = AddedIds(g, h)
PROOF
<1>1. OfKind(ComputeChangeset(g, h), "added") = {c \in AllChanges(g, h) : c.kind = "added"}
  BY RangeOfResult DEF OfKind
<1>2. ASSUME NEW c \in AllChanges(g, h), c.kind = "added" PROVE <<c.name, c.newV>> \in AddedIds(g, h)
  BY <1>2, NewSide
<1>3. ASSUME NEW id \in AddedIds(g, h)
      PROVE  \E c \in AllChanges(g, h) : c.kind = "added" /\ id = <<c.name, c.newV>>
  <2>1. AddedOf(g, h, id) \in AllChanges(g, h)
    BY EveryIdHasItsChange
  <2>2. /\ AddedOf(g, h, id).kind = "added" /\ AddedOf(g, h, id).name = id[1]
        /\ AddedOf(g, h, id).newV = id[2]
    BY AddedFields
  <2>3. id = <<id[1], id[2]>>
    BY IdFacts DEF AddedIds
  <2> QED BY <2>1, <2>2, <2>3
<1> QED BY <1>1, <1>2, <1>3

LEMMA RemovedPackages ==
  ASSUME NEW g, IsGraph(g), NEW h, IsGraph(h)
  PROVE  {<<c.name, c.oldV>> : c \in OfKind(ComputeChangeset(g, h), "removed")} = RemovedIds(g, h)
PROOF
<1>1. OfKind(ComputeChangeset(g, h), "removed") = {c \in AllChanges(g, h) : c.kind = "removed"}
  BY RangeOfResult DEF OfKind
<1>2. ASSUME NEW c \in AllChanges(g, h), c.kind = "removed"
      PROVE  <<c.name, c.oldV>> \in RemovedIds(g, h)
  BY <1>2, OldSide
<1>3. ASSUME NEW id \in RemovedIds(g, h)
      PROVE  \E c \in AllChanges(g, h) : c.kind = "removed" /\ id = <<c.name, c.oldV>>
  <2>1. RemovedOf(g, h, id) \in AllChanges(g, h)
    BY EveryIdHasItsChange
  <2>2. /\ RemovedOf(g, h, id).kind = "removed" /\ RemovedOf(g, h, id).name = id[1]
        /\ RemovedOf(g, h, id).oldV = id[2]
    BY RemovedFields
  <2>3. id = <<id[1], id[2]>>
    BY IdFacts DEF RemovedIds
  <2> QED BY <2>1, <2>2, <2>3
<1> QED BY <1>1, <1>2, <1>3

\* Every integrity change has its counterpart, the hashes exchanged.
LEMMA AlteredBothWays ==
  ASSUME NEW g, IsGraph(g), NEW h, IsGraph(h),
         NEW c \in AllChanges(g, h), c.kind = "integrity-changed"
  PROVE  \E d \in AllChanges(h, g) :
           /\ d.kind = "integrity-changed" /\ d.name = c.name /\ d.newV = c.newV
           /\ d.oldI = c.newI /\ d.newI = c.oldI
PROOF
<1> DEFINE id == <<c.name, c.newV>>
<1>1. /\ id \in AlteredIds(g, h) /\ id[1] = c.name /\ id[2] = c.newV
      /\ c.oldI = Entry(g, id).integrity /\ c.newI = Entry(h, id).integrity
  BY AlteredSide
<1> HIDE DEF id
<1>2. id \in AlteredIds(h, g)
  BY <1>1 DEF AlteredIds
<1> DEFINE d == AlteredOf(h, g, id)
<1>3. d \in AllChanges(h, g)
  BY <1>2, EveryIdHasItsChange
<1>4. /\ d.kind = "integrity-changed" /\ d.name = id[1] /\ d.newV = id[2]
      /\ d.oldI = Entry(h, id).integrity /\ d.newI = Entry(g, id).integrity
  BY <1>2, AlteredFields
<1> HIDE DEF d
<1> QED BY <1>1, <1>3, <1>4

LEMMA UpgradedBothWays ==
  ASSUME NEW g, IsGraph(g), NEW h, IsGraph(h),
         NEW c \in AllChanges(g, h), c.kind = "upgraded"
  PROVE  (VersionSet(g, c.name) \ VersionSet(h, c.name) # {})
           <=> \E d \in AllChanges(h, g) : d.kind = "upgraded" /\ d.name = c.name
PROOF
<1> DEFINE id == <<c.name, c.newV>>
<1>1. id \in UpgradedIds(g, h) /\ c.newV \in VersionSet(h, c.name)
  BY UpgradeSide, VersionFacts DEF UpgradedIds
<1>2. ASSUME NEW v \in VersionSet(g, c.name) \ VersionSet(h, c.name)
      PROVE  \E d \in AllChanges(h, g) : d.kind = "upgraded" /\ d.name = c.name
  <2> DEFINE j == <<c.name, v>>
  <2>1. j \in Ids(g) \ Ids(h)
    BY VersionFacts
  <2>2. j \in UpgradedIds(h, g)
    BY <1>1, <2>1 DEF UpgradedIds
  <2>3. PICK i \in UpgradedIds(h, g) : i[1] = c.name
    BY <2>2
  <2> DEFINE from == PickClosest(h, i[1], i[2])
             d == UpgradeOf(h, g, i)
  <2>4. <<i[1], from>> \in Ids(h) /\ d.kind = "upgraded" /\ d.name = i[1]
    BY <2>3, UpgradeFields
  <2>5. d \in AllChanges(h, g)
    BY EveryIdHasItsChange
  <2> HIDE DEF d
  <2> QED BY <2>3, <2>4, <2>5
<1>3. ASSUME NEW d \in AllChanges(h, g), d.kind = "upgraded", d.name = c.name
      PROVE  d.newV \in VersionSet(g, c.name) \ VersionSet(h, c.name)
  <2>1. <<c.name, d.newV>> \in Ids(g) \ Ids(h)
    BY <1>3, UpgradeSide DEF UpgradedIds
  <2> QED BY <2>1, VersionFacts
<1> QED BY <1>2, <1>3

LEMMA SwapsSymmetrically == CompareInv => SwapSymmetric
PROOF
<1> DEFINE back == ComputeChangeset(new, old)
<1> SUFFICES ASSUME CompareInv, Computed
             PROVE  /\ {<<c.name, c.newV>> : c \in OfKind(changes, "added")}
                         = {<<c.name, c.oldV>> : c \in OfKind(back, "removed")}
                    /\ {<<c.name, c.newV, c.oldI, c.newI>> : c \in OfKind(changes, "integrity-changed")}
                         = {<<c.name, c.newV, c.newI, c.oldI>> : c \in OfKind(back, "integrity-changed")}
                    /\ \A c \in OfKind(changes, "upgraded") :
                         (VersionSet(old, c.name) \ VersionSet(new, c.name) # {})
                           <=> \E d \in OfKind(back, "upgraded") : d.name = c.name
  BY DEF SwapSymmetric
<1>1. IsGraph(old) /\ IsGraph(new) /\ changes = ComputeChangeset(old, new)
  BY DEF CompareInv
<1>2. AddedIds(old, new) = RemovedIds(new, old)
  BY DEF AddedIds, RemovedIds
<1>3. \A k : /\ OfKind(changes, k) = {c \in AllChanges(old, new) : c.kind = k}
             /\ OfKind(back, k) = {c \in AllChanges(new, old) : c.kind = k}
  BY <1>1, RangeOfResult DEF OfKind
<1>4. {<<c.name, c.newV>> : c \in OfKind(changes, "added")}
        = {<<c.name, c.oldV>> : c \in OfKind(back, "removed")}
  BY <1>1, <1>2, AddedPackages, RemovedPackages
<1>5. {<<c.name, c.newV, c.oldI, c.newI>> : c \in OfKind(changes, "integrity-changed")}
        = {<<c.name, c.newV, c.newI, c.oldI>> : c \in OfKind(back, "integrity-changed")}
  <2>1. \A c \in OfKind(changes, "integrity-changed") : \E d \in OfKind(back, "integrity-changed") :
           <<c.name, c.newV, c.oldI, c.newI>> = <<d.name, d.newV, d.newI, d.oldI>>
    BY <1>1, <1>3, AlteredBothWays
  <2>2. \A c \in OfKind(back, "integrity-changed") : \E d \in OfKind(changes, "integrity-changed") :
           <<d.name, d.newV, d.oldI, d.newI>> = <<c.name, c.newV, c.newI, c.oldI>>
    BY <1>1, <1>3, AlteredBothWays
  <2> HIDE DEF back
  <2> QED BY <2>1, <2>2
<1>6. \A c \in OfKind(changes, "upgraded") :
        (VersionSet(old, c.name) \ VersionSet(new, c.name) # {})
          <=> \E d \in OfKind(back, "upgraded") : d.name = c.name
  BY <1>1, <1>3, UpgradedBothWays
<1> QED BY <1>4, <1>5, <1>6

(***************************************************************************)
(* Comparing the lockfiles the other way round reports the same packages,  *)
(* added for removed, hashes exchanged (changeset.ts:75-166).              *)
(***************************************************************************)
THEOREM SwapsAreSymmetric == CompareSpec => []SwapSymmetric
BY CompareHolds, SwapsSymmetrically, PTL

-----------------------------------------------------------------------------
(* Packages moved around in the tree.                                      *)

LEMMA PicksTheSame ==
  ASSUME NEW g, IsGraph(g), NEW a, IsGraph(a), Ids(a) = Ids(g), Distinguished(g),
         NEW name, VersionSet(g, name) # {}, NEW target \in DOMAIN Coerce
  PROVE  PickClosest(a, name, target) = PickClosest(g, name, target)
PROOF
<1>1. VersionSet(a, name) = VersionSet(g, name)
  BY DEF VersionSet
<1>2. ParsedOf(a, name) = ParsedOf(g, name) /\ AtMost(a, name, target) = AtMost(g, name, target)
  BY <1>1 DEF ParsedOf, AtMost
<1> DEFINE parsed == ParsedOf(g, name)
           below == AtMost(g, name, target)
<1>3. /\ parsed \in SUBSET VersionSet(g, name) /\ below \in SUBSET parsed
      /\ \A v \in parsed : Coerce[v] \in Nat /\ Coerce[v] # Unparseable
  BY VersionFacts, CoerceAssumption DEF ParsedOf, AtMost
<1>4. ASSUME NEW v \in parsed, NEW w \in parsed, Coerce[v] = Coerce[w]
      PROVE  v = w
  <2>1. <<name, v>> \in Ids(g) /\ <<name, w>> \in Ids(g)
    BY <1>3, VersionFacts
  <2>2. <<name, v>> = <<name, w>>
    BY <1>3, <1>4, <2>1 DEF Distinguished
  <2> QED BY <2>2
<1> HIDE DEF parsed, below
<1>5. below # {} => Highest(a, name, below) = Highest(g, name, below)
  <2> SUFFICES ASSUME below # {} PROVE Highest(a, name, below) = Highest(g, name, below)
    OBVIOUS
  <2>1. /\ below \in SUBSET VersionSet(g, name) /\ below \in SUBSET VersionSet(a, name)
        /\ \A v \in below : Coerce[v] \in Nat
    BY <1>1, <1>3
  <2>2. Highest(g, name, below) \in below /\ \A w \in below : Coerce[w] <= Coerce[Highest(g, name, below)]
    BY <2>1, HighestIsHighest
  <2>3. Highest(a, name, below) \in below /\ \A w \in below : Coerce[w] <= Coerce[Highest(a, name, below)]
    BY <2>1, HighestIsHighest
  <2>4. Coerce[Highest(a, name, below)] = Coerce[Highest(g, name, below)]
    BY <2>1, <2>2, <2>3
  <2> QED BY <1>3, <1>4, <2>2, <2>3, <2>4
<1>6. parsed # {} => Lowest(a, name, parsed) = Lowest(g, name, parsed)
  <2> SUFFICES ASSUME parsed # {} PROVE Lowest(a, name, parsed) = Lowest(g, name, parsed)
    OBVIOUS
  <2>1. /\ parsed \in SUBSET VersionSet(g, name) /\ parsed \in SUBSET VersionSet(a, name)
        /\ \A v \in parsed : Coerce[v] \in Nat
    BY <1>1, <1>3
  <2>2. Lowest(g, name, parsed) \in parsed /\ \A w \in parsed : Coerce[Lowest(g, name, parsed)] <= Coerce[w]
    BY <2>1, LowestIsLowest
  <2>3. Lowest(a, name, parsed) \in parsed /\ \A w \in parsed : Coerce[Lowest(a, name, parsed)] <= Coerce[w]
    BY <2>1, LowestIsLowest
  <2>4. Coerce[Lowest(a, name, parsed)] = Coerce[Lowest(g, name, parsed)]
    BY <2>1, <2>2, <2>3
  <2> QED BY <1>3, <1>4, <2>2, <2>3, <2>4
<1>7. /\ Coerce[target] = Unparseable \/ parsed = {} =>
           PickClosest(g, name, target) = Lexically(VersionSet(g, name), target)
      /\ Coerce[target] # Unparseable /\ parsed # {} =>
           PickClosest(g, name, target) =
             IF below # {} THEN Highest(g, name, below) ELSE Lowest(g, name, parsed)
  BY PickCases DEF parsed, below
<1>8. /\ Coerce[target] = Unparseable \/ parsed = {} =>
           PickClosest(a, name, target) = Lexically(VersionSet(g, name), target)
      /\ Coerce[target] # Unparseable /\ parsed # {} =>
           PickClosest(a, name, target) =
             IF below # {} THEN Highest(a, name, below) ELSE Lowest(a, name, parsed)
  BY <1>1, <1>2, PickCases DEF parsed, below
<1> QED BY <1>5, <1>6, <1>7, <1>8

\* Same packages with the same integrities on both sides: same changes.
LEMMA SameContents ==
  ASSUME NEW g, IsGraph(g), NEW h, IsGraph(h), NEW a, IsGraph(a), NEW b, IsGraph(b),
         Ids(a) = Ids(g), Ids(b) = Ids(h), Distinguished(g),
         \A id \in Ids(g) : Entry(a, id).integrity = Entry(g, id).integrity,
         \A id \in Ids(h) : Entry(b, id).integrity = Entry(h, id).integrity,
         NEW c \in AllChanges(g, h)
  PROVE  \E d \in AllChanges(a, b) : Unplaced(d) = Unplaced(c)
PROOF
<1>1. /\ \A name : VersionSet(a, name) = VersionSet(g, name)
      /\ \A name : VersionSet(b, name) = VersionSet(h, name)
  BY DEF VersionSet
<1>2. /\ AddedIds(a, b) = AddedIds(g, h) /\ RemovedIds(a, b) = RemovedIds(g, h)
      /\ UpgradedIds(a, b) = UpgradedIds(g, h)
  BY <1>1 DEF AddedIds, RemovedIds, UpgradedIds
<1>3. AlteredIds(a, b) = AlteredIds(g, h)
  BY DEF AlteredIds
<1>4. CASE \E id \in AddedIds(g, h) : c = AddedOf(g, h, id)
  <2>1. PICK id \in AddedIds(g, h) : c = AddedOf(g, h, id)
    BY <1>4
  <2> DEFINE d == AddedOf(a, b, id)
  <2>2. d \in AllChanges(a, b) /\ Entry(b, id).integrity = Entry(h, id).integrity
    BY <1>2, EveryIdHasItsChange DEF AddedIds
  <2>3. Unplaced(c) = <<"added", id[1], None, id[2], None, Entry(h, id).integrity>>
    BY <2>1, AddedFields DEF Unplaced
  <2>4. Unplaced(d) = <<"added", id[1], None, id[2], None, Entry(b, id).integrity>>
    BY <1>2, AddedFields DEF Unplaced
  <2> QED BY <2>2, <2>3, <2>4
<1>5. CASE \E id \in RemovedIds(g, h) : c = RemovedOf(g, h, id)
  <2>1. PICK id \in RemovedIds(g, h) : c = RemovedOf(g, h, id)
    BY <1>5
  <2> DEFINE d == RemovedOf(a, b, id)
  <2>2. d \in AllChanges(a, b) /\ Entry(a, id).integrity = Entry(g, id).integrity
    BY <1>2, EveryIdHasItsChange DEF RemovedIds
  <2>3. Unplaced(c) = <<"removed", id[1], id[2], None, Entry(g, id).integrity, None>>
    BY <2>1, RemovedFields DEF Unplaced
  <2>4. Unplaced(d) = <<"removed", id[1], id[2], None, Entry(a, id).integrity, None>>
    BY <1>2, RemovedFields DEF Unplaced
  <2> QED BY <2>2, <2>3, <2>4
<1>6. CASE \E id \in AlteredIds(g, h) : c = AlteredOf(g, h, id)
  <2>1. PICK id \in AlteredIds(g, h) : c = AlteredOf(g, h, id)
    BY <1>6
  <2> DEFINE d == AlteredOf(a, b, id)
  <2>2. /\ d \in AllChanges(a, b)
        /\ Entry(a, id).integrity = Entry(g, id).integrity
        /\ Entry(b, id).integrity = Entry(h, id).integrity
    BY <1>3, EveryIdHasItsChange DEF AlteredIds
  <2>3. Unplaced(c) = <<"integrity-changed", id[1], id[2], id[2],
                        Entry(g, id).integrity, Entry(h, id).integrity>>
    BY <2>1, AlteredFields DEF Unplaced
  <2>4. Unplaced(d) = <<"integrity-changed", id[1], id[2], id[2],
                        Entry(a, id).integrity, Entry(b, id).integrity>>
    BY <1>3, AlteredFields DEF Unplaced
  <2> QED BY <2>2, <2>3, <2>4
<1>7. CASE \E id \in UpgradedIds(g, h) : c = UpgradeOf(g, h, id)
  <2>1. PICK id \in UpgradedIds(g, h) : c = UpgradeOf(g, h, id)
    BY <1>7
  <2> DEFINE d == UpgradeOf(a, b, id)
             from == PickClosest(g, id[1], id[2])
             origin == <<id[1], from>>
  <2>2. id \in Ids(h) /\ VersionSet(g, id[1]) # {} /\ id[2] \in DOMAIN Coerce
    BY IdFacts DEF UpgradedIds
  <2>3. PickClosest(a, id[1], id[2]) = from
    BY <2>2, PicksTheSame
  <2>4. /\ origin \in Ids(g)
        /\ c.kind = "upgraded" /\ c.name = id[1] /\ c.oldV = from /\ c.newV = id[2]
        /\ c.oldI = Entry(g, origin).integrity /\ c.newI = Entry(h, id).integrity
    BY <2>1, UpgradeFields
  <2>5. /\ d.kind = "upgraded" /\ d.name = id[1] /\ d.oldV = from /\ d.newV = id[2]
        /\ d.oldI = Entry(a, origin).integrity /\ d.newI = Entry(b, id).integrity
    <3>1. id \in UpgradedIds(a, b)
      BY <1>2
    <3> QED BY <2>3, <3>1, UpgradeFields
  <2>6. d \in AllChanges(a, b)
    BY <1>2, EveryIdHasItsChange
  <2>7. /\ Entry(a, origin).integrity = Entry(g, origin).integrity
        /\ Entry(b, id).integrity = Entry(h, id).integrity
    BY <2>2, <2>4
  <2> HIDE DEF d, from, origin
  <2> QED BY <2>4, <2>5, <2>6, <2>7 DEF Unplaced
<1> QED BY <1>4, <1>5, <1>6, <1>7, ChangeCases

LEMMA ReversedGraph ==
  ASSUME NEW g, IsGraph(g)
  PROVE  /\ IsGraph(Reversed(g)) /\ Ids(Reversed(g)) = Ids(g)
         /\ Consistent(g) => \A id \in Ids(g) :
              Entry(Reversed(g), id).integrity = Entry(g, id).integrity
PROOF
<1> DEFINE r == Reversed(g)
           n == Len(g)
<1>1. n \in Nat /\ DOMAIN g = 1..n /\ DOMAIN r = 1..n
  BY ListedFacts DEF Reversed
<1>2. /\ \A k \in 1..n : n + 1 - k \in 1..n /\ n + 1 - (n + 1 - k) = k
      /\ \A k \in 1..n : r[k] = g[n + 1 - k]
  BY <1>1 DEF Reversed
<1>3. Len(r) = n
  <2>1. r = [k \in 1..n |-> g[n + 1 - k]]
    BY <1>1 DEF Reversed
  <2> QED BY <1>1, <2>1
<1>4. r = [k \in 1..n |-> r[k]]
  BY <1>1 DEF Reversed
<1> HIDE DEF r
<1>5. /\ \A k \in Listed(r) : k \in 1..n /\ n + 1 - k \in Listed(g) /\ r[k] = g[n + 1 - k]
      /\ \A k \in Listed(g) : k \in 1..n /\ n + 1 - k \in Listed(r) /\ r[n + 1 - k] = g[k]
  BY <1>1, <1>2 DEF Listed
<1>6. IsGraph(r)
  <2>1. \A k \in Listed(r) : r[k].name \in Nat /\ r[k].version \in DOMAIN Coerce
    BY <1>5, ListedFacts
  <2> QED BY <1>1, <1>3, <1>4, <2>1 DEF IsGraph
<1>7. Ids(r) = Ids(g)
  BY <1>5 DEF Ids
<1>8. ASSUME Consistent(g), NEW id \in Ids(g)
      PROVE  Entry(r, id).integrity = Entry(g, id).integrity
  <2>1. LastKey(g, id) \in Listed(g) /\ IdOf(g[LastKey(g, id)]) = id
    BY IdFacts
  <2>2. LastKey(r, id) \in Listed(r) /\ IdOf(r[LastKey(r, id)]) = id
    BY <1>6, <1>7, IdFacts
  <2>3. PICK k \in Listed(g) : r[LastKey(r, id)] = g[k]
    BY <1>5, <2>2
  <2>4. g[k].integrity = g[LastKey(g, id)].integrity
    BY <1>8, <2>1, <2>2, <2>3 DEF Consistent
  <2> QED BY <2>3, <2>4 DEF Entry
<1> QED BY <1>6, <1>7, <1>8 DEF r

LEMMA HoistsIrrelevantly == CompareInv => HoistingIrrelevant
PROOF
<1> DEFINE a == Reversed(old)
           b == Reversed(new)
<1> SUFFICES ASSUME CompareInv, Computed, Consistent(old), Consistent(new), Distinguished(old)
             PROVE  {Unplaced(c) : c \in Range(changes)}
                      = {Unplaced(c) : c \in Range(ComputeChangeset(a, b))}
  BY DEF HoistingIrrelevant
<1>1. IsGraph(old) /\ IsGraph(new) /\ changes = ComputeChangeset(old, new)
  BY DEF CompareInv
<1>2. /\ IsGraph(a) /\ Ids(a) = Ids(old)
      /\ \A id \in Ids(old) : Entry(a, id).integrity = Entry(old, id).integrity
  BY <1>1, ReversedGraph
<1>3. /\ IsGraph(b) /\ Ids(b) = Ids(new)
      /\ \A id \in Ids(new) : Entry(b, id).integrity = Entry(new, id).integrity
  BY <1>1, ReversedGraph
<1>4. Distinguished(a)
  BY <1>2 DEF Distinguished
<1> HIDE DEF a, b
<1>5. Range(changes) = AllChanges(old, new) /\ Range(ComputeChangeset(a, b)) = AllChanges(a, b)
  BY <1>1, <1>2, <1>3, RangeOfResult
<1>6. \A c \in AllChanges(old, new) : \E d \in AllChanges(a, b) : Unplaced(d) = Unplaced(c)
  BY <1>1, <1>2, <1>3, SameContents
<1>7. \A c \in AllChanges(a, b) : \E d \in AllChanges(old, new) : Unplaced(d) = Unplaced(c)
  BY <1>1, <1>2, <1>3, <1>4, SameContents
<1> QED BY <1>5, <1>6, <1>7

(***************************************************************************)
(* Moving packages around in either tree leaves the same changes, for      *)
(* lockfiles of any size (changeset.ts:44-75 keeps one node per package).  *)
(***************************************************************************)
THEOREM HoistingIsIrrelevant == CompareSpec => []HoistingIrrelevant
BY CompareHolds, HoistsIrrelevantly, PTL

-----------------------------------------------------------------------------
(* Ways through a lockfile graph.                                          *)

KeyBefore(c, i) == IF i = 1 THEN Root ELSE c[i - 1]

(* Chains of dependencies from the root, and those that repeat no name.    *)
Trails(g) == {c \in Seq(Keys(g)) : \A i \in DOMAIN c : c[i] \in Range(NodeAt(g, KeyBefore(c, i)).deps)}
Ways(g) == {c \in Trails(g) : \A i, j \in DOMAIN c :
              NodeAt(g, c[i]).name = NodeAt(g, c[j]).name => i = j}
WaysTo(g, k) == {c \in Ways(g) : c # <<>> /\ End(c) = k}

LEMMA NodeIs ==
  ASSUME NEW g, NEW k \in Keys(g)
  PROVE  \E i \in DOMAIN g : NodeAt(g, k) = g[i] /\ g[i].key = k
BY DEF NodeAt, Keys

LEMMA SameName ==
  ASSUME NEW g, OneVersionEach(g), NEW k \in Keys(g), NEW l \in Keys(g),
         NodeAt(g, k).name = NodeAt(g, l).name
  PROVE  k = l
PROOF
<1>1. PICK i \in DOMAIN g : NodeAt(g, k) = g[i] /\ g[i].key = k
  BY NodeIs
<1>2. PICK j \in DOMAIN g : NodeAt(g, l) = g[j] /\ g[j].key = l
  BY NodeIs
<1> QED BY <1>1, <1>2 DEF OneVersionEach

LEMMA NamedIs ==
  ASSUME NEW g, NEW S, NEW c \in Seq(S)
  PROVE  /\ Named(g, c) \in Seq({NodeAt(g, k).name : k \in S})
         /\ Len(Named(g, c)) = Len(c)
         /\ \A i \in 1..Len(c) : Named(g, c)[i] = NodeAt(g, c[i]).name
PROOF
<1>1. /\ Len(c) \in Nat /\ DOMAIN c = 1..Len(c)
      /\ \A i \in 1..Len(c) : c[i] \in S
  OBVIOUS
<1>2. Named(g, c) \in [1..Len(c) -> {NodeAt(g, k).name : k \in S}]
  BY <1>1 DEF Named
<1> QED BY <1>1, <1>2 DEF Named

LEMMA EndIs ==
  ASSUME NEW S, NEW c \in Seq(S)
  PROVE  /\ Len(c) = 0 => c = <<>> /\ End(c) = Root
         /\ c # <<>> => Len(c) \in DOMAIN c /\ Len(c) >= 1 /\ End(c) = c[Len(c)] /\ End(c) \in S
BY DEF End, Last

(* A trail to some node of another followed by the rest of that other.     *)
LEMMA Spliced ==
  ASSUME NEW g, NEW c \in Trails(g), NEW d \in Trails(g), NEW m \in 1..Len(c), End(d) = c[m]
  PROVE  \E e \in Trails(g) : Len(e) = Len(d) + Len(c) - m /\ End(e) = End(c)
PROOF
<1> DEFINE n == Len(d) + Len(c) - m
           e == [i \in 1..n |-> IF i <= Len(d) THEN d[i] ELSE c[i - Len(d) + m]]
<1>1. /\ c \in Seq(Keys(g)) /\ d \in Seq(Keys(g))
      /\ Len(c) \in Nat /\ Len(d) \in Nat /\ n \in Nat
      /\ DOMAIN c = 1..Len(c) /\ DOMAIN d = 1..Len(d)
      /\ m \in Nat /\ m <= Len(c)
  BY DEF Trails
<1>2. ASSUME NEW i \in 1..n
      PROVE  /\ e[i] \in Keys(g)
             /\ e[i] \in Range(NodeAt(g, KeyBefore(e, i)).deps)
  <2>1. CASE i <= Len(d)
    <3>1. i \in DOMAIN d /\ e[i] = d[i]
      BY <1>1, <2>1
    <3>2. i # 1 => i - 1 \in 1..n /\ i - 1 <= Len(d)
      BY <1>1, <2>1
    <3>3. KeyBefore(e, i) = KeyBefore(d, i)
      BY <3>2 DEF KeyBefore
    <3> QED BY <1>1, <3>1, <3>3 DEF Trails
  <2>2. CASE i > Len(d)
    <3> DEFINE j == i - Len(d) + m
    <3>1. j \in DOMAIN c /\ e[i] = c[j] /\ j # 1 /\ j - 1 \in 1..Len(c)
      BY <1>1, <2>2
    <3>2. KeyBefore(e, i) = c[j - 1]
      <4>1. CASE i = Len(d) + 1 /\ d = <<>>
        <5>1. i = 1 /\ j - 1 = m /\ End(d) = Root
          BY <1>1, <4>1 DEF End
        <5> QED BY <5>1 DEF KeyBefore
      <4>2. CASE i = Len(d) + 1 /\ d # <<>>
        <5>1. i # 1 /\ i - 1 = Len(d) /\ i - 1 \in 1..n /\ j - 1 = m
          BY <1>1, <4>2
        <5>2. End(d) = d[i - 1]
          BY <1>1, <5>1, <4>2, EndIs
        <5>3. e[i - 1] = d[i - 1]
          BY <1>1, <5>1
        <5> QED BY <5>1, <5>2, <5>3 DEF KeyBefore
      <4>3. CASE i > Len(d) + 1
        <5>1. i # 1 /\ i - 1 \in 1..n /\ i - 1 > Len(d) /\ (i - 1) - Len(d) + m = j - 1
          BY <1>1, <4>3
        <5>2. e[i - 1] = c[j - 1]
          BY <1>1, <5>1
        <5> QED BY <5>1, <5>2 DEF KeyBefore
      <4> QED BY <1>1, <2>2, <4>1, <4>2, <4>3
    <3>3. KeyBefore(c, j) = c[j - 1]
      BY <3>1 DEF KeyBefore
    <3>4. c[j] \in Keys(g) /\ c[j] \in Range(NodeAt(g, KeyBefore(c, j)).deps)
      <4> HIDE DEF j
      <4> QED BY <1>1, <3>1 DEF Trails
    <3> HIDE DEF e, j
    <3> QED BY <3>1, <3>2, <3>3, <3>4
  <2> QED BY <1>1, <2>1, <2>2
<1>3. e \in Seq(Keys(g)) /\ DOMAIN e = 1..n /\ Len(e) = n
  <2>1. e \in [1..n -> Keys(g)]
    BY <1>2
  <2> QED BY <1>1, <2>1
<1>4. e \in Trails(g)
  <2> HIDE DEF e, n
  <2> QED BY <1>2, <1>3 DEF Trails
<1>5. End(e) = End(c)
  <2>1. c # <<>> /\ End(c) = c[Len(c)]
    BY <1>1, EndIs
  <2>2. CASE n = 0
    <3>1. Len(d) = 0 /\ m = Len(c)
      <4>1. \A a, b, k \in Nat : k <= a /\ b + a - k = 0 => b = 0 /\ k = a
        OBVIOUS
      <4> QED BY <1>1, <2>2, <4>1, Zenon
    <3>2. d = <<>>
      BY <1>1, <3>1
    <3>3. e = <<>>
      <4> HIDE DEF e, n
      <4> QED BY <1>3, <2>2
    <3> QED BY <2>1, <3>1, <3>2, <3>3
  <2>3. CASE n # 0
    <3>1. n \in 1..n /\ e # <<>>
      <4>1. n \in 1..n
        BY <1>1, <2>3
      <4> HIDE DEF e, n
      <4> QED BY <1>3, <2>3, <4>1
    <3>2. End(e) = e[n]
      <4> HIDE DEF e, n
      <4> QED BY <1>3, <3>1, EndIs
    <3>3. CASE m = Len(c)
      <4>1. n = Len(d) /\ d # <<>>
        BY <1>1, <2>3, <3>3
      <4>2. e[n] = d[n] /\ End(d) = d[n]
        BY <1>1, <3>1, <4>1, EndIs
      <4> QED BY <2>1, <3>2, <3>3, <4>2
    <3>4. CASE m # Len(c)
      <4>1. ~(n <= Len(d)) /\ n - Len(d) + m = Len(c)
        <5>1. \A a, k \in Nat : k <= a /\ k # a => k < a
          OBVIOUS
        <5>2. m < Len(c)
          BY <1>1, <3>4, <5>1, Zenon
        <5> QED BY <1>1, <5>2
      <4>2. e[n] = c[Len(c)]
        BY <3>1, <4>1
      <4> QED BY <2>1, <3>2, <4>2
    <3> QED BY <3>3, <3>4
  <2> QED BY <2>2, <2>3
<1> HIDE DEF e
<1> QED BY <1>3, <1>4, <1>5

(* The beginning of a trail is one.                                        *)
LEMMA Beginning ==
  ASSUME NEW g, NEW c \in Trails(g), NEW m \in 0..Len(c)
  PROVE  /\ SubSeq(c, 1, m) \in Trails(g)
         /\ Len(SubSeq(c, 1, m)) = m
         /\ \A i \in 1..m : SubSeq(c, 1, m)[i] = c[i]
         /\ m # 0 => End(SubSeq(c, 1, m)) = c[m]
         /\ c \in Ways(g) => SubSeq(c, 1, m) \in Ways(g)
PROOF
<1> DEFINE d == SubSeq(c, 1, m)
<1>1. c \in Seq(Keys(g)) /\ Len(c) \in Nat /\ DOMAIN c = 1..Len(c)
  BY DEF Trails
<1>2. d \in Seq(Keys(g)) /\ Len(d) = m /\ DOMAIN d = 1..m /\ \A i \in 1..m : d[i] = c[i]
  BY <1>1
<1> HIDE DEF d
<1>3. ASSUME NEW i \in 1..m PROVE KeyBefore(d, i) = KeyBefore(c, i)
  BY <1>2 DEF KeyBefore
<1>4. ASSUME NEW i \in 1..m PROVE i \in 1..Len(c)
  BY <1>1
<1>5. d \in Trails(g)
  BY <1>1, <1>2, <1>3, <1>4 DEF Trails
<1>6. m # 0 => End(d) = c[m]
  BY <1>2, EndIs
<1>7. c \in Ways(g) => d \in Ways(g)
  BY <1>1, <1>2, <1>4, <1>5 DEF Ways
<1> QED BY <1>2, <1>5, <1>6, <1>7 DEF d

(* Where no name has two versions, a shortest trail repeats no name.       *)
LEMMA CutToWay ==
  ASSUME NEW g, OneVersionEach(g), NEW c \in Trails(g), c # <<>>, End(c) # Root
  PROVE  \E d \in WaysTo(g, End(c)) : Len(d) <= Len(c)
PROOF
<1> DEFINE T == {d \in Trails(g) : End(d) = End(c)}
           sizes == {Len(d) : d \in T}
<1>1. \A d \in Trails(g) : d \in Seq(Keys(g)) /\ Len(d) \in Nat /\ DOMAIN d = 1..Len(d)
  BY DEF Trails
<1>2. sizes \in SUBSET Nat /\ sizes # {} /\ Len(c) \in sizes
  BY <1>1
<1>3. PICK n \in sizes : \A k \in sizes : n <= k
  BY <1>2, LeastNatural
<1>4. PICK d \in Trails(g) : End(d) = End(c) /\ Len(d) = n
  BY <1>3
<1>5. d # <<>>
  BY <1>4 DEF End
<1>6. ASSUME NEW i \in DOMAIN d, NEW j \in DOMAIN d, i < j,
             NodeAt(g, d[i]).name = NodeAt(g, d[j]).name
      PROVE  FALSE
  <2>1. d[i] = d[j] /\ i \in 1..Len(d) /\ j \in 1..Len(d)
    BY <1>1, <1>6, SameName
  <2>0. i \in 0..Len(d) /\ i # 0
    BY <2>1
  <2>2. /\ SubSeq(d, 1, i) \in Trails(g) /\ Len(SubSeq(d, 1, i)) = i
        /\ End(SubSeq(d, 1, i)) = d[j]
    BY <2>0, <2>1, Beginning
  <2>3. PICK e \in Trails(g) : Len(e) = i + Len(d) - j /\ End(e) = End(d)
    <3> DEFINE b == SubSeq(d, 1, i)
    <3>1. b \in Trails(g) /\ Len(b) = i /\ End(b) = d[j] /\ j \in 1..Len(d)
      BY <2>1, <2>2
    <3> HIDE DEF b
    <3>2. \A a \in Trails(g), m \in 1..Len(d) :
            End(a) = d[m] => \E e \in Trails(g) : Len(e) = Len(a) + Len(d) - m /\ End(e) = End(d)
      BY Spliced
    <3>3. \E e \in Trails(g) : Len(e) = Len(b) + Len(d) - j /\ End(e) = End(d)
      BY <3>1, <3>2
    <3> QED BY <3>1, <3>3
  <2>4. Len(e) \in sizes
    BY <1>4, <2>3
  <2>5. Len(e) < n
    BY <1>1, <1>4, <1>6, <2>1, <2>3
  <2>6. n \in Nat /\ Len(e) \in Nat
    BY <1>1, <1>4, <2>3
  <2> HIDE DEF sizes
  <2> QED BY <1>3, <2>4, <2>5, <2>6
<1>7. d \in Ways(g)
  <2>1. \A i, j \in DOMAIN d : i \in Nat /\ j \in Nat
    BY <1>1, <1>4
  <2>2. \A i, j \in DOMAIN d : NodeAt(g, d[i]).name = NodeAt(g, d[j]).name => i = j
    BY <1>6, <2>1
  <2> QED BY <1>4, <2>2 DEF Ways
<1> QED BY <1>2, <1>3, <1>4, <1>5, <1>7 DEF WaysTo

LEMMA OneMore ==
  ASSUME NEW g, NEW c \in Ways(g), NEW k \in Keys(g), k \in Range(NodeAt(g, End(c)).deps),
         \A i \in DOMAIN c : NodeAt(g, c[i]).name # NodeAt(g, k).name
  PROVE  /\ Append(c, k) \in Ways(g)
         /\ Len(Append(c, k)) = Len(c) + 1
         /\ End(Append(c, k)) = k
         /\ SubSeq(Append(c, k), 1, Len(c)) = c
PROOF
<1> DEFINE d == Append(c, k)
<1>1. c \in Trails(g) /\ c \in Seq(Keys(g)) /\ Len(c) \in Nat /\ DOMAIN c = 1..Len(c)
  BY DEF Ways, Trails
<1>2. /\ d \in Seq(Keys(g)) /\ Len(d) = Len(c) + 1 /\ DOMAIN d = 1..(Len(c) + 1)
      /\ \A i \in 1..Len(c) : d[i] = c[i]
      /\ d[Len(c) + 1] = k
  BY <1>1
<1>3. SubSeq(d, 1, Len(c)) = c
  BY <1>1
<1> HIDE DEF d
<1>4. ASSUME NEW i \in 1..(Len(c) + 1)
      PROVE  d[i] \in Range(NodeAt(g, KeyBefore(d, i)).deps)
  <2>1. CASE i \in 1..Len(c)
    <3>1. i # 1 => i - 1 \in 1..Len(c)
      BY <1>1, <2>1
    <3>2. d[i] = c[i] /\ KeyBefore(d, i) = KeyBefore(c, i)
      BY <1>2, <2>1, <3>1 DEF KeyBefore
    <3> QED BY <1>1, <2>1, <3>2 DEF Trails
  <2>2. CASE i = Len(c) + 1
    <3>1. KeyBefore(d, i) = End(c)
      <4>1. CASE Len(c) = 0
        <5>1. i = 1
          BY <2>2, <4>1
        <5>2. End(c) = Root
          BY <1>1, <4>1, EndIs
        <5> QED BY <5>1, <5>2 DEF KeyBefore
      <4>2. CASE Len(c) # 0
        <5>1. c # <<>> /\ i # 1 /\ i - 1 = Len(c) /\ Len(c) \in 1..Len(c)
          BY <1>1, <2>2, <4>2
        <5>2. End(c) = c[Len(c)]
          BY <1>1, <5>1, EndIs
        <5> QED BY <1>2, <5>1, <5>2 DEF KeyBefore
      <4> QED BY <4>1, <4>2
    <3> QED BY <1>2, <2>2, <3>1
  <2> QED BY <1>1, <2>1, <2>2
<1>5. d \in Trails(g)
  BY <1>2, <1>4 DEF Trails
<1>6. ASSUME NEW i \in DOMAIN d, NEW j \in DOMAIN d, NodeAt(g, d[i]).name = NodeAt(g, d[j]).name
      PROVE  i = j
  <2>1. \A h \in DOMAIN d : (h \in DOMAIN c /\ d[h] = c[h]) \/ (h = Len(c) + 1 /\ d[h] = k)
    BY <1>1, <1>2
  <2>2. \A a, b \in DOMAIN c : NodeAt(g, c[a]).name = NodeAt(g, c[b]).name => a = b
    BY DEF Ways
  <2> QED BY <1>6, <2>1, <2>2
<1>7. d \in Ways(g)
  BY <1>5, <1>6 DEF Ways
<1>8. End(d) = k
  <2>1. d # <<>>
    BY <1>1, <1>2
  <2> QED BY <1>2, <2>1, EndIs
<1> QED BY <1>2, <1>3, <1>7, <1>8 DEF d

LEMMA NextOnTheWay ==
  ASSUME NEW g, NEW d \in Ways(g), NEW m \in 0..(Len(d) - 1)
  PROVE  /\ d[m + 1] \in Keys(g) /\ d[m + 1] \in Range(NodeAt(g, End(SubSeq(d, 1, m))).deps)
         /\ \A i \in DOMAIN SubSeq(d, 1, m) : NodeAt(g, SubSeq(d, 1, m)[i]).name # NodeAt(g, d[m + 1]).name
         /\ SubSeq(d, 1, m + 1) = Append(SubSeq(d, 1, m), d[m + 1])
PROOF
<1> DEFINE c == SubSeq(d, 1, m)
<1>1. d \in Trails(g) /\ d \in Seq(Keys(g)) /\ Len(d) \in Nat /\ DOMAIN d = 1..Len(d)
  BY DEF Ways, Trails
<1>2. m \in 0..Len(d) /\ m + 1 \in 1..Len(d) /\ m \in Nat
  BY <1>1
<1>3. /\ c \in Trails(g) /\ Len(c) = m /\ DOMAIN c = 1..m
      /\ \A i \in 1..m : c[i] = d[i]
      /\ m # 0 => End(c) = d[m]
  <2>1. c \in Trails(g) /\ Len(c) = m /\ (\A i \in 1..m : c[i] = d[i]) /\ (m # 0 => End(c) = d[m])
    BY <1>1, <1>2, Beginning
  <2> HIDE DEF c
  <2> QED BY <2>1 DEF Trails
<1>4. SubSeq(d, 1, m + 1) = Append(c, d[m + 1])
  BY <1>1, <1>2
<1> HIDE DEF c
<1>5. End(c) = KeyBefore(d, m + 1)
  <2>1. CASE m = 0
    <3>1. c = <<>>
      BY <1>3, <2>1 DEF Trails
    <3> QED BY <2>1, <3>1 DEF End, KeyBefore
  <2>2. CASE m # 0
    <3>1. m + 1 # 1 /\ (m + 1) - 1 = m
      BY <1>2, <2>2
    <3> QED BY <1>3, <2>2, <3>1 DEF KeyBefore
  <2> QED BY <2>1, <2>2
<1>6. d[m + 1] \in Keys(g) /\ d[m + 1] \in Range(NodeAt(g, End(c)).deps)
  BY <1>1, <1>2, <1>5 DEF Trails
<1>7. ASSUME NEW i \in DOMAIN c PROVE NodeAt(g, c[i]).name # NodeAt(g, d[m + 1]).name
  <2>1. i \in DOMAIN d /\ m + 1 \in DOMAIN d /\ i # m + 1 /\ c[i] = d[i]
    BY <1>1, <1>2, <1>3
  <2> QED BY <2>1 DEF Ways
<1> QED BY <1>4, <1>6, <1>7 DEF c

LEMMA LongerIs ==
  ASSUME NEW g, NEW c \in Ways(g)
  PROVE  Longer(g, c) = {d \in Ways(g) : Len(d) = Len(c) + 1 /\ SubSeq(d, 1, Len(c)) = c}
PROOF
<1>1. c \in Seq(Keys(g)) /\ Len(c) \in Nat
  BY DEF Ways, Trails
<1>2. ASSUME NEW d \in Longer(g, c)
      PROVE  d \in Ways(g) /\ Len(d) = Len(c) + 1 /\ SubSeq(d, 1, Len(c)) = c
  BY <1>2, OneMore DEF Longer
<1>3. ASSUME NEW d \in Ways(g), Len(d) = Len(c) + 1, SubSeq(d, 1, Len(c)) = c
      PROVE  d \in Longer(g, c)
  <2> DEFINE m == Len(c)
  <2>1. d \in Seq(Keys(g)) /\ m \in 0..(Len(d) - 1) /\ m + 1 = Len(d)
    BY <1>1, <1>3 DEF Ways, Trails
  <2>2. SubSeq(d, 1, Len(d)) = d
    BY <2>1
  <2> HIDE DEF m
  <2>3. /\ d[m + 1] \in Keys(g) /\ d[m + 1] \in Range(NodeAt(g, End(SubSeq(d, 1, m))).deps)
        /\ \A i \in DOMAIN SubSeq(d, 1, m) : NodeAt(g, SubSeq(d, 1, m)[i]).name # NodeAt(g, d[m + 1]).name
        /\ SubSeq(d, 1, m + 1) = Append(SubSeq(d, 1, m), d[m + 1])
    BY <2>1, NextOnTheWay
  <2>4. SubSeq(d, 1, m) = c
    BY <1>3 DEF m
  <2>5. d = Append(c, d[m + 1])
    BY <2>1, <2>2, <2>3, <2>4
  <2> QED BY <2>3, <2>4, <2>5 DEF Longer
<1> QED BY <1>2, <1>3

(* A way is no longer than the graph.                                      *)
LEMMA WaysAreShort ==
  ASSUME NEW g, Len(g) \in Nat, DOMAIN g = 1..Len(g), NEW c \in Ways(g)
  PROVE  Len(c) <= Len(g)
PROOF
<1>1. c \in Seq(Keys(g)) /\ Len(c) \in Nat /\ DOMAIN c = 1..Len(c)
  BY DEF Ways, Trails
<1> DEFINE f == [i \in 1..Len(c) |-> CHOOSE j \in DOMAIN g : NodeAt(g, c[i]) = g[j]]
<1>2. ASSUME NEW i \in 1..Len(c) PROVE f[i] \in 1..Len(g) /\ NodeAt(g, c[i]) = g[f[i]]
  <2>1. \E j \in DOMAIN g : NodeAt(g, c[i]) = g[j]
    BY <1>1, NodeIs
  <2> QED BY <2>1
<1>3. ASSUME NEW i \in 1..Len(c), NEW j \in 1..Len(c), f[i] = f[j] PROVE i = j
  <2>1. NodeAt(g, c[i]).name = NodeAt(g, c[j]).name
    BY <1>2, <1>3
  <2> QED BY <1>1, <2>1 DEF Ways
<1>4. f \in Injection(1..Len(c), 1..Len(g))
  <2>1. f \in [1..Len(c) -> 1..Len(g)]
    BY <1>2
  <2> QED BY <1>3, <2>1 DEF Injection, IsInjective
<1>5. /\ IsFiniteSet(1..Len(g)) /\ Cardinality(1..Len(g)) = Len(g)
      /\ Cardinality(1..Len(c)) = Len(c)
  <2>1. \A n \in Nat : IsFiniteSet(1..n) /\ Cardinality(1..n) = n
    BY FS_Interval
  <2> QED BY <1>1, <2>1
<1> HIDE DEF f
<1>6. Cardinality(1..Len(c)) <= Cardinality(1..Len(g))
  BY <1>4, <1>5, FS_Injection
<1> QED BY <1>5, <1>6

LEMMA LongerFinite ==
  ASSUME NEW g, Len(g) \in Nat, DOMAIN g = 1..Len(g), NEW c
  PROVE  IsFiniteSet(Longer(g, c))
PROOF
<1>1. IsFiniteSet(Keys(g))
  <2>1. IsFiniteSet(DOMAIN g)
    BY FS_Interval
  <2>2. [i \in DOMAIN g |-> g[i].key] \in Surjection(DOMAIN g, Keys(g))
    BY DEF Keys, Surjection
  <2> QED BY <2>1, <2>2, FS_Surjection
<1> DEFINE D == {d \in Range(NodeAt(g, End(c)).deps) \cap Keys(g) :
                   \A i \in DOMAIN c : NodeAt(g, c[i]).name # NodeAt(g, d).name}
<1>2. D \in SUBSET Keys(g)
  OBVIOUS
<1>3. Longer(g, c) = {Append(c, k) : k \in D}
  BY DEF Longer
<1> HIDE DEF D
<1>4. IsFiniteSet(D)
  BY <1>1, <1>2, FS_Subset
<1>5. [k \in D |-> Append(c, k)] \in Surjection(D, Longer(g, c))
  BY <1>3 DEF Surjection
<1> QED BY <1>4, <1>5, FS_Surjection

LEMMA WaysByLength ==
  ASSUME NEW g, NEW n \in Nat
  PROVE  /\ n = 0 => {c \in Ways(g) : Len(c) = n} = {<<>>}
         /\ n # 0 => {c \in Ways(g) : Len(c) = n}
                       = UNION {Longer(g, c) : c \in {d \in Ways(g) : Len(d) = n - 1}}
PROOF
<1>1. \A c \in Ways(g) : c \in Trails(g) /\ c \in Seq(Keys(g)) /\ Len(c) \in Nat
  BY DEF Ways, Trails
<1>2. <<>> \in Ways(g) /\ Len(<<>>) = 0
  BY DEF Ways, Trails
<1>3. ASSUME NEW c \in Ways(g), Len(c) = 0 PROVE c = <<>>
  BY <1>1, <1>3
<1>4. ASSUME NEW d \in Ways(g), Len(d) = n, n # 0
      PROVE  \E c \in Ways(g) : Len(c) = n - 1 /\ d \in Longer(g, c)
  <2> DEFINE c == SubSeq(d, 1, n - 1)
  <2>1. n - 1 \in 0..Len(d)
    BY <1>4
  <2>2. c \in Ways(g) /\ Len(c) = n - 1
    BY <1>1, <2>1, Beginning
  <2>3. Len(d) = Len(c) + 1 /\ SubSeq(d, 1, Len(c)) = c
    BY <1>4, <2>2
  <2> HIDE DEF c
  <2>4. d \in Longer(g, c)
    BY <2>2, <2>3, LongerIs
  <2> QED BY <2>2, <2>4
<1>5. ASSUME NEW c \in Ways(g), Len(c) = n - 1, NEW d \in Longer(g, c)
      PROVE  d \in Ways(g) /\ Len(d) = n
  BY <1>5, LongerIs
<1> QED BY <1>2, <1>3, <1>4, <1>5

LEMMA ChainsAre ==
  ASSUME NEW g, Len(g) \in Nat, DOMAIN g = 1..Len(g)
  PROVE  /\ Chains(g) = {c \in Ways(g) : c # <<>>}
         /\ IsFiniteSet(Chains(g))
PROOF
<1> DEFINE ofLen(n) == {c \in Ways(g) : Len(c) = n}
           Good(f) == f = [n \in 0..Len(g) |-> IF n = 0 THEN {<<>>}
                                               ELSE UNION {Longer(g, c) : c \in f[n - 1]}]
           chains == CHOOSE f : Good(f)
<1>1. ASSUME NEW n \in Nat
      PROVE  /\ n = 0 => ofLen(n) = {<<>>}
             /\ n # 0 => ofLen(n) = UNION {Longer(g, c) : c \in ofLen(n - 1)}
  BY WaysByLength
<1>2. Good([n \in 0..Len(g) |-> ofLen(n)])
  <2> DEFINE f == [n \in 0..Len(g) |-> ofLen(n)]
  <2>1. ASSUME NEW n \in 0..Len(g)
        PROVE  f[n] = IF n = 0 THEN {<<>>} ELSE UNION {Longer(g, c) : c \in f[n - 1]}
    <3>1. n \in Nat /\ (n # 0 => n - 1 \in 0..Len(g))
      OBVIOUS
    <3>2. f[n] = ofLen(n) /\ (n # 0 => f[n - 1] = ofLen(n - 1))
      BY <3>1
    <3> HIDE DEF ofLen, f
    <3> QED BY <1>1, <3>1, <3>2
  <2> HIDE DEF ofLen
  <2> QED BY <2>1
<1>3. Good(chains)
  <2> HIDE DEF Good
  <2> QED BY <1>2
<1>4. Chains(g) = UNION {chains[n] : n \in 1..Len(g)}
  BY DEF Chains
<1>5. ASSUME NEW n \in 0..Len(g)
      PROVE  chains[n] = IF n = 0 THEN {<<>>} ELSE UNION {Longer(g, c) : c \in chains[n - 1]}
  <2> HIDE DEF chains
  <2> QED BY <1>3
<1>6. \A n \in 0..Len(g) : chains[n] = ofLen(n) /\ IsFiniteSet(ofLen(n))
  <2> HIDE DEF chains, ofLen, Good
  <2> DEFINE Bad == {n \in 0..Len(g) : ~(chains[n] = ofLen(n) /\ IsFiniteSet(ofLen(n)))}
  <2>1. SUFFICES ASSUME Bad # {} PROVE FALSE
    OBVIOUS
  <2>2. Bad \in SUBSET Nat
    OBVIOUS
  <2>3. PICK n \in Bad : \A k \in Bad : n <= k
    BY <2>1, <2>2, LeastNatural
  <2>4. CASE n = 0
    <3>1. chains[n] = {<<>>} /\ ofLen(n) = {<<>>}
      BY <1>1, <1>5, <2>4
    <3> QED BY <3>1, FS_Singleton
  <2>5. CASE n # 0
    <3>1. n - 1 \in 0..Len(g) /\ n \in Nat /\ ~(n <= n - 1)
      BY <2>5
    <3>2. chains[n - 1] = ofLen(n - 1) /\ IsFiniteSet(ofLen(n - 1))
      BY <2>3, <3>1
    <3>3. chains[n] = ofLen(n)
      BY <1>1, <1>5, <2>5, <3>1, <3>2
    <3> DEFINE S == {Longer(g, c) : c \in ofLen(n - 1)}
    <3>4. IsFiniteSet(S)
      <4>1. [c \in ofLen(n - 1) |-> Longer(g, c)] \in Surjection(ofLen(n - 1), S)
        BY DEF Surjection
      <4> HIDE DEF S
      <4> QED BY <3>2, <4>1, FS_Surjection
    <3>5. \A T \in S : IsFiniteSet(T)
      BY LongerFinite
    <3>6. IsFiniteSet(UNION S)
      <4> HIDE DEF S
      <4> QED BY <3>4, <3>5, FS_UNION
    <3>7. IsFiniteSet(ofLen(n))
      BY <1>1, <2>5, <3>1, <3>6
    <3> QED BY <3>3, <3>7
  <2> QED BY <2>4, <2>5
<1>7. ASSUME NEW c \in Ways(g), c # <<>> PROVE \E n \in 1..Len(g) : c \in ofLen(n)
  <2>1. Len(c) \in Nat /\ Len(c) # 0
    BY <1>7 DEF Ways, Trails
  <2>2. Len(c) <= Len(g)
    BY WaysAreShort
  <2> QED BY <2>1, <2>2
<1>8. Chains(g) = {c \in Ways(g) : c # <<>>}
  <2>1. \A n \in 1..Len(g) : chains[n] = ofLen(n) /\ \A c \in ofLen(n) : c \in Ways(g) /\ c # <<>>
    <3>1. \A n \in 1..Len(g) : n \in 0..Len(g) /\ n # 0
      OBVIOUS
    <3>2. \A n \in 1..Len(g) : \A c \in ofLen(n) : c \in Ways(g) /\ c # <<>>
      BY <3>1
    <3> HIDE DEF chains, ofLen
    <3> QED BY <1>6, <3>1, <3>2
  <2> HIDE DEF chains, ofLen
  <2> QED BY <1>4, <1>7, <2>1
<1>9. IsFiniteSet(Chains(g))
  <2> HIDE DEF chains, ofLen
  <2> DEFINE S == {chains[n] : n \in 1..Len(g)}
  <2>1. [n \in 1..Len(g) |-> chains[n]] \in Surjection(1..Len(g), S)
    BY DEF Surjection
  <2>2. IsFiniteSet(1..Len(g))
    BY FS_Interval
  <2>3. \A T \in S : IsFiniteSet(T)
    <3>1. \A n \in 1..Len(g) : n \in 0..Len(g)
      OBVIOUS
    <3> QED BY <1>6, <3>1
  <2> HIDE DEF S
  <2>4. IsFiniteSet(UNION S)
    BY <2>1, <2>2, <2>3, FS_Surjection, FS_UNION
  <2> QED BY <1>4, <2>4 DEF S
<1> QED BY <1>8, <1>9

-----------------------------------------------------------------------------
(* What the search keeps.                                                  *)

ItemOf(g, c) == [key |-> End(c), path |-> Named(g, c)]
Items(g) == {ItemOf(g, c) : c \in Ways(g)}
Starts(p, q) == Len(p) <= Len(q) /\ \A i \in 1..Len(p) : p[i] = q[i]

LEMMA NamedOneMore ==
  ASSUME NEW g, NEW c \in Ways(g), NEW k \in Keys(g)
  PROVE  /\ Named(g, Append(c, k)) = Append(Named(g, c), NodeAt(g, k).name)
         /\ Len(Named(g, c)) = Len(c) /\ Len(c) \in Nat
         /\ Len(Named(g, Append(c, k))) = Len(c) + 1
         /\ \A i \in 1..Len(c) : Named(g, Append(c, k))[i] = Named(g, c)[i]
         /\ Named(g, Append(c, k))[Len(c) + 1] = NodeAt(g, k).name
PROOF
<1> DEFINE N == {NodeAt(g, h).name : h \in Keys(g)}
           d == Append(c, k)
<1>1. c \in Seq(Keys(g)) /\ Len(c) \in Nat
  BY DEF Ways, Trails
<1>2. /\ d \in Seq(Keys(g)) /\ Len(d) = Len(c) + 1
      /\ \A i \in 1..Len(c) : d[i] = c[i]
      /\ d[Len(c) + 1] = k
  BY <1>1
<1> HIDE DEF d
<1>3. /\ Named(g, c) \in Seq(N) /\ Len(Named(g, c)) = Len(c)
      /\ \A i \in 1..Len(c) : Named(g, c)[i] = NodeAt(g, c[i]).name
  BY <1>1, NamedIs
<1>4. /\ Named(g, d) \in Seq(N) /\ Len(Named(g, d)) = Len(c) + 1
      /\ \A i \in 1..(Len(c) + 1) : Named(g, d)[i] = NodeAt(g, d[i]).name
  <2>1. /\ Named(g, d) \in Seq(N) /\ Len(Named(g, d)) = Len(d)
        /\ \A i \in 1..Len(d) : Named(g, d)[i] = NodeAt(g, d[i]).name
    BY <1>2, NamedIs
  <2> QED BY <1>2, <2>1
<1> DEFINE a == Append(Named(g, c), NodeAt(g, k).name)
<1>5. NodeAt(g, k).name \in N
  OBVIOUS
<1> HIDE DEF N
<1>6. /\ a \in Seq(N) /\ Len(a) = Len(c) + 1
      /\ \A i \in 1..Len(c) : a[i] = Named(g, c)[i]
      /\ a[Len(c) + 1] = NodeAt(g, k).name
  BY <1>1, <1>3, <1>5
<1> HIDE DEF a
<1>7. ASSUME NEW i \in 1..(Len(c) + 1) PROVE Named(g, d)[i] = a[i]
  <2>1. CASE i \in 1..Len(c)
    BY <1>2, <1>3, <1>4, <1>6, <2>1
  <2>2. CASE i = Len(c) + 1
    BY <1>2, <1>4, <1>6, <2>2
  <2> QED BY <1>1, <2>1, <2>2
<1>8. Named(g, d) = a
  BY <1>4, <1>6, <1>7, SeqEqual
<1> QED BY <1>1, <1>3, <1>6, <1>8 DEF a, d

LEMMA ChildrenAre ==
  ASSUME NEW g, IsLockGraph(g), Root \in Keys(g), NEW c \in Ways(g)
  PROVE  LET ch == Children(g, ItemOf(g, c))
         IN  /\ ch \in Seq({ItemOf(g, d) : d \in Longer(g, c)})
             /\ \A d \in Longer(g, c) : \E n \in DOMAIN ch : ch[n] = ItemOf(g, d)
             /\ OneVersionEach(g) => \A m, n \in DOMAIN ch : ch[m].path = ch[n].path => m = n
PROOF
<1> DEFINE cur  == ItemOf(g, c)
           deps == NodeAt(g, End(c)).deps
           name(k) == NodeAt(g, k).name
           K == {i \in DOMAIN deps : deps[i] \in Keys(g) /\ ~Contains(Named(g, c), name(deps[i]))}
           open == Picked(deps, K)
           ch == Children(g, cur)
<1>1. c \in Seq(Keys(g)) /\ Len(c) \in Nat /\ DOMAIN c = 1..Len(c)
  BY DEF Ways, Trails
<1>2. End(c) \in Keys(g)
  BY <1>1, EndIs DEF End
<1>3. deps \in Seq(Range(deps)) /\ \A i, j \in DOMAIN deps : deps[i] = deps[j] => i = j
  <2>1. PICK i \in DOMAIN g : NodeAt(g, End(c)) = g[i]
    BY <1>2, NodeIs
  <2> QED BY <2>1 DEF IsLockGraph
<1>4. ch = [i \in DOMAIN open |-> [key |-> open[i], path |-> Append(Named(g, c), name(open[i]))]]
  BY <1>2 DEF Children, ItemOf
<1>5. ASSUME NEW k PROVE Contains(Named(g, c), name(k)) <=> \E i \in DOMAIN c : name(c[i]) = name(k)
  <2>1. /\ Len(Named(g, c)) = Len(c)
        /\ \A i \in 1..Len(c) : Named(g, c)[i] = NodeAt(g, c[i]).name
    BY <1>1, NamedIs
  <2> QED BY <1>1, <2>1 DEF Contains
<1>6. K \in SUBSET DOMAIN deps
  OBVIOUS
<1>7. ASSUME NEW i \in K
      PROVE  /\ deps[i] \in Keys(g) /\ deps[i] \in Range(deps)
             /\ \A j \in DOMAIN c : name(c[j]) # name(deps[i])
  BY <1>5 DEF Range
<1>8. ASSUME NEW i \in DOMAIN deps, deps[i] \in Keys(g), \A j \in DOMAIN c : name(c[j]) # name(deps[i])
      PROVE  i \in K
  BY <1>5, <1>8
<1> HIDE DEF K, deps
<1>9. /\ DOMAIN open = 1..Cardinality(K) /\ Cardinality(K) \in Nat
      /\ \A n \in DOMAIN open : Nth(K, n) \in K /\ open[n] = deps[Nth(K, n)]
      /\ \A m, n \in DOMAIN open : m < n => Nth(K, m) < Nth(K, n)
      /\ Range(open) = {deps[i] : i \in K}
  <2>1. IsFiniteSet(K)
    BY <1>3, <1>6, FS_Interval, FS_Subset
  <2> QED BY <1>3, <1>6, <2>1, PickedInOrder, FS_CardinalityType
<1> HIDE DEF open
<1>10. Longer(g, c) = {Append(c, k) : k \in {deps[i] : i \in K}}
  <2>1. {d \in Range(deps) \cap Keys(g) : \A i \in DOMAIN c : name(c[i]) # name(d)} = {deps[i] : i \in K}
    BY <1>6, <1>7, <1>8 DEF Range
  <2> QED BY <2>1 DEF Longer, deps
<1>11. ASSUME NEW n \in DOMAIN open
       PROVE  ch[n] = ItemOf(g, Append(c, open[n])) /\ Append(c, open[n]) \in Longer(g, c)
  <2>1. open[n] \in Keys(g) /\ open[n] \in {deps[i] : i \in K}
    BY <1>7, <1>9
  <2>2. Append(c, open[n]) \in Longer(g, c)
    BY <1>10, <2>1
  <2>3. End(Append(c, open[n])) = open[n]
    BY <1>7, <1>9, OneMore DEF deps
  <2>4. Named(g, Append(c, open[n])) = Append(Named(g, c), name(open[n]))
    BY <2>1, NamedOneMore
  <2> QED BY <1>4, <2>2, <2>3, <2>4 DEF ItemOf
<1>12. DOMAIN ch = DOMAIN open
  BY <1>4
<1> HIDE DEF ch
<1>13. ch \in Seq({ItemOf(g, d) : d \in Longer(g, c)})
  <2> DEFINE S == {ItemOf(g, d) : d \in Longer(g, c)}
  <2>1. \A n \in 1..Cardinality(K) : ch[n] \in S
    BY <1>9, <1>11
  <2>2. ch = [n \in 1..Cardinality(K) |-> ch[n]]
    BY <1>4, <1>9 DEF ch
  <2> HIDE DEF S
  <2>3. ch \in [1..Cardinality(K) -> S]
    BY <2>1, <2>2
  <2> QED BY <1>9, <2>3 DEF S
<1>14. ASSUME NEW d \in Longer(g, c) PROVE \E n \in DOMAIN ch : ch[n] = ItemOf(g, d)
  <2>1. PICK k \in Range(open) : d = Append(c, k)
    BY <1>9, <1>10
  <2>2. PICK n \in DOMAIN open : open[n] = k
    BY DEF Range
  <2> QED BY <1>11, <1>12, <2>1, <2>2
<1>15. ASSUME OneVersionEach(g), NEW m \in DOMAIN ch, NEW n \in DOMAIN ch, ch[m].path = ch[n].path
       PROVE  m = n
  <2>1. m \in DOMAIN open /\ n \in DOMAIN open /\ open[m] \in Keys(g) /\ open[n] \in Keys(g)
    BY <1>7, <1>9, <1>12
  <2>2. Named(g, Append(c, open[m])) = Named(g, Append(c, open[n]))
    <3>1. \A i \in DOMAIN open : ch[i] = ItemOf(g, Append(c, open[i]))
      BY <1>11
    <3>2. \A e : ItemOf(g, e).path = Named(g, e)
      BY DEF ItemOf
    <3> QED BY <1>15, <2>1, <3>1, <3>2
  <2>3. name(open[m]) = name(open[n])
    BY <2>1, <2>2, NamedOneMore
  <2>4. open[m] = open[n]
    BY <1>15, <2>1, <2>3, SameName
  <2>5. Nth(K, m) = Nth(K, n)
    BY <1>3, <1>6, <1>9, <2>1, <2>4
  <2>6. ~(m < n) /\ ~(n < m)
    <3>1. Nth(K, m) \in Nat /\ Nth(K, n) \in Nat
      BY <1>3, <1>6, <1>9, <2>1
    <3> QED BY <1>9, <2>1, <2>5, <3>1
  <2> QED BY <1>9, <2>1, <2>6
<1> QED BY <1>13, <1>14, <1>15 DEF ch

(* The search for t in g, with the queue q, the lengths s and the paths f  *)
(* found so far.                                                           *)
Real(g, t, q, f) ==
  /\ q \in Seq(Items(g)) /\ f \in Seq({Named(g, c) : c \in WaysTo(g, t)})
  /\ Len(f) <= MaxPaths /\ (q # <<>> => Len(f) < MaxPaths)
SeenReal(g, s) == \A k \in DOMAIN s : \E c \in Ways(g) : End(c) = k /\ s[k] = Len(c)
InLevels(q) ==
  /\ \A i, j \in DOMAIN q : i <= j => Len(q[i].path) <= Len(q[j].path)
  /\ \A j \in DOMAIN q : Len(q[j].path) <= Len(q[1].path) + 1
OneLength(q, f) ==
  \A i \in DOMAIN f : Len(f[i]) = Len(f[1]) /\ (q # <<>> => Len(f[i]) <= Len(q[1].path))
Apart(q, f) ==
  /\ \A i, j \in DOMAIN q : i # j => ~Starts(q[i].path, q[j].path)
  /\ \A i \in DOMAIN q, j \in DOMAIN f : ~Starts(q[i].path, f[j])
  /\ \A i, j \in DOMAIN f : f[i] = f[j] => i = j
Shortest(g, t) == {c \in WaysTo(g, t) : \A d \in WaysTo(g, t) : Len(c) <= Len(d)}
Underway(g, c, q) == \E i \in DOMAIN q, m \in 0..Len(c) : q[i] = ItemOf(g, SubSeq(c, 1, m))
Complete(g, t, q, f) ==
  \A c \in Shortest(g, t) : Named(g, c) \in Range(f) \/ Len(f) = MaxPaths \/ Underway(g, c, q)
FoundShortest(g, t, f) == \A i \in DOMAIN f : \A d \in WaysTo(g, t) : Len(f[i]) <= Len(d)

Right(g, t, q, s, f) ==
  /\ Real(g, t, q, f) /\ SeenReal(g, s) /\ InLevels(q) /\ OneLength(q, f)
  /\ OneVersionEach(g) => Apart(q, f) /\ Complete(g, t, q, f) /\ FoundShortest(g, t, f)

SearchInv ==
  /\ graph = None => queue = <<>> /\ seen = <<>> /\ results = <<>>
  /\ graph # None =>
       /\ IsLockGraph(graph)
       /\ {Root, targetKey} \subseteq Keys(graph) /\ targetKey # Root => Right(graph, targetKey, queue, seen, results)

LEMMA WayIs ==
  ASSUME NEW g, NEW c \in Ways(g)
  PROVE  /\ c \in Trails(g) /\ c \in Seq(Keys(g)) /\ Len(c) \in Nat /\ DOMAIN c = 1..Len(c)
         /\ Len(Named(g, c)) = Len(c)
         /\ \A i \in 1..Len(c) : Named(g, c)[i] = NodeAt(g, c[i]).name
PROOF
<1>1. c \in Trails(g) /\ c \in Seq(Keys(g)) /\ Len(c) \in Nat /\ DOMAIN c = 1..Len(c)
  BY DEF Ways, Trails
<1>2. /\ Len(Named(g, c)) = Len(c)
      /\ \A i \in 1..Len(c) : Named(g, c)[i] = NodeAt(g, c[i]).name
  BY <1>1, NamedIs
<1> QED BY <1>1, <1>2

LEMMA ItemIs ==
  ASSUME NEW g, NEW q \in Seq(Items(g)), NEW i \in DOMAIN q
  PROVE  \E c \in Ways(g) : /\ q[i] = ItemOf(g, c) /\ q[i].key = End(c) /\ q[i].path = Named(g, c)
                            /\ Len(q[i].path) = Len(c) /\ Len(c) \in Nat
PROOF
<1>1. PICK c \in Ways(g) : q[i] = ItemOf(g, c)
  <2>1. q[i] \in Items(g)
    OBVIOUS
  <2> QED BY <2>1 DEF Items
<1>3. Len(Named(g, c)) = Len(c) /\ Len(c) \in Nat
  BY WayIs
<1> QED BY <1>1, <1>3 DEF ItemOf

LEMMA TailIs ==
  ASSUME NEW S, NEW q \in Seq(S), q # <<>>
  PROVE  /\ Tail(q) \in Seq(S) /\ Len(Tail(q)) = Len(q) - 1 /\ Len(q) \in Nat
         /\ 1 \in DOMAIN q /\ Head(q) = q[1]
         /\ \A i \in DOMAIN Tail(q) : i \in Nat /\ i + 1 \in DOMAIN q /\ i + 1 # 1 /\ Tail(q)[i] = q[i + 1]
         /\ \A i \in DOMAIN q : i # 1 => i - 1 \in DOMAIN Tail(q) /\ Tail(q)[i - 1] = q[i]
PROOF
<1>1. Len(q) \in Nat \ {0} /\ DOMAIN q = 1..Len(q)
  BY EmptySeq
<1>2. /\ Tail(q) \in Seq(S) /\ Len(Tail(q)) = Len(q) - 1 /\ DOMAIN Tail(q) = 1..(Len(q) - 1)
      /\ \A i \in 1..(Len(q) - 1) : Tail(q)[i] = q[i + 1]
  <2>1. Tail(q) \in Seq(S) /\ Len(Tail(q)) = Len(q) - 1 /\ \A i \in 1..Len(Tail(q)) : Tail(q)[i] = q[i + 1]
    BY HeadTailProperties
  <2> QED BY <1>1, <2>1
<1>3. ASSUME NEW i \in DOMAIN q, i # 1 PROVE i - 1 \in 1..(Len(q) - 1) /\ (i - 1) + 1 = i
  BY <1>1, <1>3
<1> QED BY <1>1, <1>2, <1>3

LEMMA WithoutHead ==
  ASSUME NEW g, NEW t, NEW q, NEW s, NEW f, Right(g, t, q, s, f), q # <<>>
  PROVE  /\ Tail(q) \in Seq(Items(g))
         /\ InLevels(Tail(q)) /\ OneLength(Tail(q), f)
         /\ OneVersionEach(g) => Apart(Tail(q), f)
PROOF
<1> DEFINE q2 == Tail(q)
<1>1. /\ q \in Seq(Items(g)) /\ InLevels(q) /\ OneLength(q, f)
      /\ OneVersionEach(g) => Apart(q, f)
  BY DEF Right, Real
<1>2. /\ q2 \in Seq(Items(g)) /\ 1 \in DOMAIN q
      /\ \A i \in DOMAIN q2 : i \in Nat /\ i + 1 \in DOMAIN q /\ i + 1 # 1 /\ q2[i] = q[i + 1]
  BY <1>1, TailIs
<1> HIDE DEF q2
<1>3. \A i \in DOMAIN q : Len(q[i].path) \in Nat
  BY <1>1, ItemIs
<1>4. \A i \in DOMAIN q : i \in Nat /\ i >= 1
  BY <1>1
<1>5. \A i \in DOMAIN q2 : 1 \in DOMAIN q2
  BY <1>2
<1>6. ASSUME NEW i \in DOMAIN q2 PROVE Len(q[1].path) <= Len(q2[i].path)
  BY <1>1, <1>2, <1>4 DEF InLevels
<1>7. InLevels(q2)
  <2>1. ASSUME NEW i \in DOMAIN q2, NEW j \in DOMAIN q2, i <= j
        PROVE  Len(q2[i].path) <= Len(q2[j].path)
    <3>1. i + 1 \in DOMAIN q /\ j + 1 \in DOMAIN q /\ i + 1 <= j + 1
      BY <1>2, <2>1
    <3> QED BY <1>1, <1>2, <3>1 DEF InLevels
  <2>2. ASSUME NEW j \in DOMAIN q2 PROVE Len(q2[j].path) <= Len(q2[1].path) + 1
    <3>1. 1 \in DOMAIN q2 /\ Len(q[1].path) <= Len(q2[1].path)
      BY <1>5, <1>6
    <3>2. Len(q2[j].path) <= Len(q[1].path) + 1
      BY <1>1, <1>2 DEF InLevels
    <3>3. Len(q2[j].path) \in Nat /\ Len(q2[1].path) \in Nat /\ Len(q[1].path) \in Nat
      BY <1>2, <1>3, <3>1
    <3> QED BY <3>1, <3>2, <3>3
  <2> QED BY <2>1, <2>2 DEF InLevels
<1>8. OneLength(q2, f)
  <2>1. ASSUME NEW i \in DOMAIN f PROVE Len(f[i]) = Len(f[1]) /\ Len(f[i]) <= Len(q[1].path)
    BY <1>1 DEF OneLength
  <2>2. ASSUME NEW i \in DOMAIN f, q2 # <<>> PROVE Len(f[i]) <= Len(q2[1].path)
    <3>1. 1 \in DOMAIN q2
      BY <1>2, <2>2
    <3>2. Len(f[i]) \in Nat
      <4>1. f[i] \in {Named(g, c) : c \in WaysTo(g, t)}
        BY DEF Right, Real
      <4>2. PICK c \in Ways(g) : f[i] = Named(g, c)
        BY <4>1 DEF WaysTo
      <4> QED BY <4>2, WayIs
    <3>3. Len(q2[1].path) \in Nat /\ Len(q[1].path) \in Nat
      BY <1>2, <1>3, <3>1
    <3> QED BY <1>6, <2>1, <3>1, <3>2, <3>3
  <2> QED BY <2>1, <2>2 DEF OneLength
<1>9. ASSUME OneVersionEach(g) PROVE Apart(q2, f)
  <2>1. Apart(q, f)
    BY <1>1, <1>9
  <2>2. ASSUME NEW i \in DOMAIN q2, NEW j \in DOMAIN q2, i # j
        PROVE  ~Starts(q2[i].path, q2[j].path)
    <3>1. i + 1 # j + 1
      BY <1>2, <2>2
    <3> QED BY <1>2, <2>1, <3>1 DEF Apart
  <2>3. ASSUME NEW i \in DOMAIN q2, NEW j \in DOMAIN f PROVE ~Starts(q2[i].path, f[j])
    BY <1>2, <2>1 DEF Apart
  <2> QED BY <2>1, <2>2, <2>3 DEF Apart
<1> QED BY <1>2, <1>7, <1>8, <1>9 DEF q2

LEMMA FoundIs ==
  ASSUME NEW g, NEW t, NEW q, NEW f, Real(g, t, q, f), NEW i \in DOMAIN f
  PROVE  \E c \in WaysTo(g, t) : f[i] = Named(g, c) /\ Len(f[i]) = Len(c) /\ Len(c) \in Nat
PROOF
<1>1. f[i] \in {Named(g, c) : c \in WaysTo(g, t)}
  BY DEF Real
<1>2. PICK c \in WaysTo(g, t) : f[i] = Named(g, c)
  BY <1>1
<1>3. c \in Ways(g)
  BY DEF WaysTo
<1> QED BY <1>2, <1>3, WayIs

(* A shortest way that the head of the queue does not begin is still       *)
(* underway without the head.                                              *)
LEMMA StillUnderway ==
  ASSUME NEW g, NEW q \in Seq(Items(g)), q # <<>>, NEW c, Underway(g, c, q),
         \A m \in 0..Len(c) : q[1] # ItemOf(g, SubSeq(c, 1, m))
  PROVE  Underway(g, c, Tail(q))
PROOF
<1>1. PICK i \in DOMAIN q, m \in 0..Len(c) : q[i] = ItemOf(g, SubSeq(c, 1, m))
  BY DEF Underway
<1>2. i # 1
  BY <1>1
<1>3. i - 1 \in DOMAIN Tail(q) /\ Tail(q)[i - 1] = q[i]
  BY <1>2, TailIs
<1> QED BY <1>1, <1>3 DEF Underway

(* The part of a way that an item of the queue is.                         *)
LEMMA PartIs ==
  ASSUME NEW g, NEW c \in Ways(g), NEW m \in 0..Len(c), NEW item, item = ItemOf(g, SubSeq(c, 1, m))
  PROVE  /\ Len(item.path) = m /\ SubSeq(c, 1, m) \in Ways(g) /\ Len(SubSeq(c, 1, m)) = m
         /\ item.path = Named(g, SubSeq(c, 1, m))
         /\ item.key = End(SubSeq(c, 1, m))
         /\ m # 0 => item.key = c[m]
         /\ m = 0 => item.key = Root
         /\ m = Len(c) => item.path = Named(g, c)
PROOF
<1> DEFINE d == SubSeq(c, 1, m)
<1>1. c \in Trails(g) /\ c \in Seq(Keys(g)) /\ Len(c) \in Nat
  BY WayIs
<1>2. d \in Ways(g) /\ Len(d) = m /\ (m # 0 => End(d) = c[m]) /\ (m = Len(c) => d = c)
  BY <1>1, Beginning, SubSeqFull
<1> HIDE DEF d
<1>3. d \in Seq(Keys(g))
  BY <1>2 DEF Ways, Trails
<1>4. m = 0 => End(d) = Root
  BY <1>2, <1>3, EndIs
<1>5. Len(Named(g, d)) = m
  BY <1>2, WayIs
<1>6. item.path = Named(g, d) /\ item.key = End(d)
  BY DEF ItemOf, d
<1> QED BY <1>2, <1>4, <1>5, <1>6 DEF d

LEMMA BeginsRight ==
  ASSUME NEW g, NEW t \in Keys(g), t # Root
  PROVE  Right(g, t, <<StartAt(Root)>>, <<>>, <<>>)
PROOF
<1> DEFINE q == <<StartAt(Root)>>
<1>1. <<>> \in Ways(g) /\ StartAt(Root) = ItemOf(g, <<>>) /\ Len(StartAt(Root).path) = 0
  <2>1. <<>> \in Ways(g)
    BY DEF Ways, Trails
  <2>2. Named(g, <<>>) = <<>>
    BY DEF Named
  <2> QED BY <2>1, <2>2 DEF StartAt, ItemOf, End
<1>2. q \in Seq(Items(g)) /\ DOMAIN q = {1} /\ q[1] = StartAt(Root) /\ q # <<>>
  BY <1>1 DEF Items
<1> HIDE DEF q
<1>3. Real(g, t, q, <<>>) /\ SeenReal(g, <<>>)
  BY <1>2 DEF Real, SeenReal, MaxPaths
<1>4. InLevels(q) /\ OneLength(q, <<>>) /\ Apart(q, <<>>) /\ FoundShortest(g, t, <<>>)
  <2>1. DOMAIN <<>> = {}
    OBVIOUS
  <2> QED BY <1>1, <1>2, <2>1 DEF InLevels, OneLength, Apart, FoundShortest
<1>5. ASSUME NEW c \in Shortest(g, t) PROVE Underway(g, c, q)
  <2>1. SubSeq(c, 1, 0) = <<>> /\ 0 \in 0..Len(c)
    <3>1. c \in Ways(g)
      BY DEF Shortest, WaysTo
    <3>2. Len(c) \in Nat
      BY <3>1, WayIs
    <3> QED BY <3>2, SubSeqEmpty
  <2>2. q[1] = ItemOf(g, SubSeq(c, 1, 0)) /\ 1 \in DOMAIN q
    BY <1>1, <1>2, <2>1
  <2> QED BY <2>1, <2>2 DEF Underway
<1> QED BY <1>3, <1>4, <1>5 DEF Right, Complete, q

(* A path longer than those results ends the search: whatever is underway is *)
(* too long.                                                               *)
LEMMA StopsRight ==
  ASSUME NEW g, NEW t, NEW q, NEW s, NEW f, Right(g, t, q, s, f), q # <<>>,
         f # <<>>, Len(q[1].path) > Len(f[1])
  PROVE  Right(g, t, <<>>, s, f)
PROOF
<1>1. /\ Real(g, t, q, f) /\ SeenReal(g, s) /\ InLevels(q) /\ OneLength(q, f)
      /\ OneVersionEach(g) => Apart(q, f) /\ Complete(g, t, q, f) /\ FoundShortest(g, t, f)
  BY DEF Right
<1>2. Real(g, t, <<>>, f) /\ InLevels(<<>>) /\ OneLength(<<>>, f)
  BY <1>1 DEF Real, InLevels, OneLength
<1>3. ASSUME OneVersionEach(g), NEW c \in Shortest(g, t), ~(Named(g, c) \in Range(f)), Len(f) # MaxPaths
      PROVE  FALSE
  <2>1. PICK i \in DOMAIN q, m \in 0..Len(c) : q[i] = ItemOf(g, SubSeq(c, 1, m))
    BY <1>1, <1>3 DEF Complete, Underway
  <2>2. c \in WaysTo(g, t) /\ c \in Ways(g) /\ Len(c) \in Nat
    BY WayIs DEF Shortest, WaysTo
  <2>3. 1 \in DOMAIN f
    BY <1>1 DEF Real
  <2>4. PICK d \in WaysTo(g, t) : Len(f[1]) = Len(d)
    BY <1>1, <2>3, FoundIs
  <2>5. Len(c) <= Len(f[1]) /\ Len(f[1]) \in Nat
    <3>1. d \in Ways(g)
      BY DEF WaysTo
    <3> QED BY <2>4, <3>1, WayIs DEF Shortest
  <2>6. Len(q[i].path) = m
    BY <2>1, <2>2, PartIs
  <2>7. Len(q[1].path) <= Len(q[i].path) /\ Len(q[1].path) \in Nat
    <3>1. q \in Seq(Items(g))
      BY <1>1 DEF Real
    <3>2. 1 \in DOMAIN q /\ 1 <= i
      BY <3>1
    <3> QED BY <1>1, <3>1, <3>2, ItemIs DEF InLevels
  <2>8. m <= Len(c) /\ m \in Nat
    BY <2>2
  <2> QED BY <2>5, <2>6, <2>7, <2>8
<1>4. OneVersionEach(g) => Apart(<<>>, f) /\ Complete(g, t, <<>>, f)
  <2>1. OneVersionEach(g) => Complete(g, t, <<>>, f)
    BY <1>3 DEF Complete
  <2>2. Apart(q, f) => Apart(<<>>, f)
    BY DEF Apart
  <2> QED BY <1>1, <2>1, <2>2
<1> QED BY <1>1, <1>2, <1>4 DEF Right

(* A node seen closer to the root is on no shortest way.                   *)
LEMMA PassesRight ==
  ASSUME NEW g, NEW t, t # Root, NEW q, NEW s, NEW f, Right(g, t, q, s, f), q # <<>>,
         q[1].key \in DOMAIN s, s[q[1].key] < Len(q[1].path)
  PROVE  Right(g, t, Tail(q), s, f)
PROOF
<1>1. /\ Real(g, t, q, f) /\ SeenReal(g, s) /\ InLevels(q) /\ OneLength(q, f)
      /\ OneVersionEach(g) => Apart(q, f) /\ Complete(g, t, q, f) /\ FoundShortest(g, t, f)
      /\ q \in Seq(Items(g))
  BY DEF Right, Real
<1>2. /\ Tail(q) \in Seq(Items(g)) /\ InLevels(Tail(q)) /\ OneLength(Tail(q), f)
      /\ OneVersionEach(g) => Apart(Tail(q), f)
  BY WithoutHead
<1>3. Real(g, t, Tail(q), f)
  BY <1>1, <1>2 DEF Real
<1>4. PICK d \in Ways(g) : End(d) = q[1].key /\ s[q[1].key] = Len(d)
  BY <1>1 DEF SeenReal
<1>5. ASSUME OneVersionEach(g), NEW c \in Shortest(g, t), NEW m \in 0..Len(c),
             q[1] = ItemOf(g, SubSeq(c, 1, m))
      PROVE  FALSE
  <2>1. /\ c \in WaysTo(g, t) /\ c \in Ways(g) /\ c # <<>> /\ End(c) = t
        /\ \A e \in WaysTo(g, t) : Len(c) <= Len(e)
    BY DEF Shortest, WaysTo
  <2>2. Len(c) \in Nat /\ Len(d) \in Nat /\ c \in Trails(g) /\ d \in Trails(g)
    BY <2>1, WayIs
  <2>3. Len(q[1].path) = m /\ (m # 0 => q[1].key = c[m])
    BY <1>5, <2>1, PartIs
  <2>4. Len(d) < m /\ m \in 1..Len(c)
    BY <1>4, <2>2, <2>3
  <2>5. PICK e \in Trails(g) : Len(e) = Len(d) + Len(c) - m /\ End(e) = End(c)
    <3>1. End(d) = c[m]
      BY <1>4, <2>3, <2>4
    <3> QED BY <2>2, <2>4, <3>1, Spliced
  <2>6. e # <<>>
    BY <2>1, <2>5 DEF End
  <2>7. PICK h \in WaysTo(g, t) : Len(h) <= Len(e)
    BY <1>5, <2>1, <2>5, <2>6, CutToWay
  <2>8. Len(h) \in Nat
    BY WayIs DEF WaysTo
  <2>9. Len(c) <= Len(h)
    BY <2>1
  <2> QED BY <2>2, <2>4, <2>5, <2>7, <2>8, <2>9
<1>6. ASSUME OneVersionEach(g), NEW c \in Shortest(g, t), Underway(g, c, q)
      PROVE  Underway(g, c, Tail(q))
  BY <1>1, <1>5, <1>6, StillUnderway
<1>7. OneVersionEach(g) => Complete(g, t, Tail(q), f)
  BY <1>1, <1>6 DEF Complete
<1> QED BY <1>1, <1>2, <1>3, <1>7 DEF Right

LEMMA ShortestExists ==
  ASSUME NEW g, NEW t, WaysTo(g, t) # {}
  PROVE  Shortest(g, t) # {}
PROOF
<1> DEFINE sizes == {Len(c) : c \in WaysTo(g, t)}
<1>1. \A c \in WaysTo(g, t) : Len(c) \in Nat
  BY WayIs DEF WaysTo
<1>2. sizes \in SUBSET Nat /\ sizes # {}
  BY <1>1
<1>3. PICK n \in sizes : \A k \in sizes : n <= k
  BY <1>2, LeastNatural
<1>4. PICK c \in WaysTo(g, t) : Len(c) = n
  BY <1>3
<1>5. c \in Shortest(g, t)
  BY <1>3, <1>4 DEF Shortest
<1> QED BY <1>5

(* An item at the target is a shortest way to it.                          *)
LEMMA ArrivesRight ==
  ASSUME NEW g, NEW t, t # Root, NEW q, NEW s, NEW f, Right(g, t, q, s, f), q # <<>>,
         ~(f # <<>> /\ Len(q[1].path) > Len(f[1])),
         q[1].key = t, q[1].path # <<>>,
         NEW q2, q2 = IF Len(Append(f, q[1].path)) >= MaxPaths THEN <<>> ELSE Tail(q)
  PROVE  Right(g, t, q2, s, Append(f, q[1].path))
PROOF
<1> DEFINE f2 == Append(f, q[1].path)
           F == {Named(g, c) : c \in WaysTo(g, t)}
<1>1. /\ Real(g, t, q, f) /\ SeenReal(g, s) /\ InLevels(q) /\ OneLength(q, f)
      /\ OneVersionEach(g) => Apart(q, f) /\ Complete(g, t, q, f) /\ FoundShortest(g, t, f)
      /\ q \in Seq(Items(g)) /\ f \in Seq(F) /\ Len(f) < 3 /\ Len(f) \in Nat
  BY DEF Right, Real, MaxPaths
<1>2. /\ Tail(q) \in Seq(Items(g)) /\ InLevels(Tail(q)) /\ OneLength(Tail(q), f)
      /\ OneVersionEach(g) => Apart(Tail(q), f)
  BY WithoutHead
<1>3. /\ 1 \in DOMAIN q
      /\ \A i \in DOMAIN Tail(q) : i \in Nat /\ i + 1 \in DOMAIN q /\ i + 1 # 1 /\ Tail(q)[i] = q[i + 1]
  BY <1>1, TailIs
<1>4. PICK c \in WaysTo(g, t) : /\ q[1] = ItemOf(g, c) /\ q[1].path = Named(g, c)
                                /\ Len(q[1].path) = Len(c) /\ Len(c) \in Nat
  <2>1. PICK c \in Ways(g) : /\ q[1] = ItemOf(g, c) /\ q[1].key = End(c) /\ q[1].path = Named(g, c)
                             /\ Len(q[1].path) = Len(c) /\ Len(c) \in Nat
    BY <1>1, <1>3, ItemIs
  <2>2. c # <<>>
    BY <2>1 DEF Named
  <2> QED BY <2>1, <2>2 DEF WaysTo
<1>5. /\ f2 \in Seq(F) /\ Len(f2) = Len(f) + 1 /\ DOMAIN f2 = 1..(Len(f) + 1)
      /\ DOMAIN f = 1..Len(f)
      /\ \A i \in DOMAIN f : f2[i] = f[i]
      /\ f2[Len(f) + 1] = q[1].path
      /\ \A i \in DOMAIN f2 : i \in DOMAIN f \/ i = Len(f) + 1
  <2>1. q[1].path \in F
    BY <1>4
  <2> HIDE DEF F
  <2> QED BY <1>1, <2>1
<1>6. /\ q2 = IF Len(f2) >= 3 THEN <<>> ELSE Tail(q)
      /\ q2 = <<>> \/ q2 = Tail(q)
  BY DEF MaxPaths
<1> HIDE DEF f2
<1>7. Real(g, t, q2, f2)
  <2>1. q2 \in Seq(Items(g))
    BY <1>2, <1>6
  <2>2. Len(f2) <= 3 /\ (q2 # <<>> => Len(f2) < 3)
    BY <1>1, <1>5, <1>6
  <2> QED BY <1>5, <2>1, <2>2 DEF Real, MaxPaths
<1>8. InLevels(q2)
  BY <1>2, <1>6 DEF InLevels
<1>9. \A i \in DOMAIN f : Len(f[i]) \in Nat
  BY <1>1, FoundIs
<1>10. ASSUME NEW i \in DOMAIN f2 PROVE Len(f2[i]) = Len(q[1].path)
  <2>1. CASE i \in DOMAIN f
    <3>1. 1 \in DOMAIN f /\ f # <<>>
      BY <1>5, <2>1
    <3>2. Len(f[i]) = Len(f[1]) /\ Len(f[1]) <= Len(q[1].path)
      BY <1>1, <2>1, <3>1 DEF OneLength
    <3> QED BY <1>4, <1>5, <1>9, <2>1, <3>1, <3>2
  <2>2. CASE i = Len(f) + 1
    BY <1>5, <2>2
  <2> QED BY <1>5, <2>1, <2>2
<1>11. OneLength(q2, f2)
  <2>1. \A i \in DOMAIN f2 : 1 \in DOMAIN f2
    BY <1>1, <1>5
  <2>2. ASSUME q2 # <<>> PROVE Len(q[1].path) <= Len(q2[1].path)
    <3>1. 1 \in DOMAIN Tail(q) /\ q2 = Tail(q)
      BY <1>2, <1>6, <2>2
    <3>2. 1 + 1 \in DOMAIN q /\ q2[1] = q[1 + 1] /\ 1 <= 1 + 1
      BY <1>3, <3>1
    <3> QED BY <1>1, <1>3, <3>2 DEF InLevels
  <2> QED BY <1>10, <2>1, <2>2 DEF OneLength
<1>12. ASSUME OneVersionEach(g) PROVE Apart(q2, f2)
  <2>1. Apart(q, f) /\ Apart(Tail(q), f)
    BY <1>1, <1>2, <1>12
  <2>2. ASSUME NEW i \in DOMAIN Tail(q), NEW j \in DOMAIN f2 PROVE ~Starts(Tail(q)[i].path, f2[j])
    <3>1. CASE j \in DOMAIN f
      BY <1>5, <2>1, <3>1 DEF Apart
    <3>2. CASE j = Len(f) + 1
      BY <1>3, <1>5, <2>1, <3>2 DEF Apart
    <3> QED BY <1>5, <3>1, <3>2
  <2>3. ASSUME NEW i \in DOMAIN f PROVE f[i] # q[1].path
    <3>1. ~Starts(q[1].path, f[i])
      BY <1>3, <2>1 DEF Apart
    <3> QED BY <1>4, <3>1 DEF Starts
  <2>4. \A i, j \in DOMAIN f2 : f2[i] = f2[j] => i = j
    BY <1>5, <2>1, <2>3 DEF Apart
  <2>5. Apart(Tail(q), f2)
    BY <2>1, <2>2, <2>4 DEF Apart
  <2>6. Apart(<<>>, f2)
    BY <2>4 DEF Apart
  <2> QED BY <1>6, <2>5, <2>6
<1>13. ASSUME OneVersionEach(g), NEW d \in Shortest(g, t)
       PROVE  Named(g, d) \in Range(f2) \/ Len(f2) = 3 \/ Underway(g, d, q2)
  <2>1. Named(g, d) \in Range(f) \/ Underway(g, d, q)
    <3>1. Complete(g, t, q, f)
      BY <1>1, <1>13
    <3>2. Len(f) # 3
      <4>1. \A a \in Nat : a < 3 => a # 3
        OBVIOUS
      <4> QED BY <1>1, <4>1
    <3> QED BY <3>1, <3>2 DEF Complete, MaxPaths
  <2>2. CASE Named(g, d) \in Range(f)
    BY <1>5, <2>2 DEF Range
  <2>3. CASE Underway(g, d, q) /\ \E m \in 0..Len(d) : q[1] = ItemOf(g, SubSeq(d, 1, m))
    <3>1. PICK m \in 0..Len(d) : q[1] = ItemOf(g, SubSeq(d, 1, m))
      BY <2>3
    <3>2. d \in Ways(g) /\ Len(d) \in Nat /\ \A e \in WaysTo(g, t) : Len(d) <= Len(e)
      BY WayIs DEF Shortest, WaysTo
    <3>3. /\ Len(q[1].path) = m
          /\ m = Len(d) => q[1].path = Named(g, d)
      BY <3>1, <3>2, PartIs
    <3>4. Len(d) <= Len(c)
      BY <3>2
    <3>5. m = Len(d)
      BY <1>4, <3>2, <3>3, <3>4
    <3>6. Len(f) + 1 \in DOMAIN f2
      BY <1>1, <1>5
    <3> QED BY <1>5, <3>3, <3>5, <3>6 DEF Range
  <2>4. CASE Underway(g, d, q) /\ ~\E m \in 0..Len(d) : q[1] = ItemOf(g, SubSeq(d, 1, m))
    <3>1. Underway(g, d, Tail(q))
      BY <1>1, <2>4, StillUnderway
    <3>2. CASE Len(f2) >= 3
      BY <1>1, <1>5, <3>2
    <3>3. CASE ~(Len(f2) >= 3)
      <4>1. q2 = Tail(q)
        BY <1>6, <3>3
      <4> QED BY <3>1, <4>1
    <3> QED BY <3>2, <3>3
  <2> QED BY <2>1, <2>2, <2>3, <2>4
<1>14. ASSUME OneVersionEach(g), NEW d \in WaysTo(g, t) PROVE Len(q[1].path) <= Len(d)
  <2>1. CASE f = <<>>
    <3>1. PICK e \in Shortest(g, t) : TRUE
      BY ShortestExists
    <3>2. Underway(g, e, q)
      BY <1>1, <1>14, <2>1 DEF Complete, MaxPaths, Range
    <3>3. PICK i \in DOMAIN q, m \in 0..Len(e) : q[i] = ItemOf(g, SubSeq(e, 1, m))
      BY <3>2 DEF Underway
    <3>4. e \in Ways(g) /\ Len(e) \in Nat /\ Len(e) <= Len(d)
      BY WayIs DEF Shortest, WaysTo
    <3>5. Len(q[i].path) = m
      BY <3>3, <3>4, PartIs
    <3>6. Len(q[1].path) <= Len(q[i].path)
      <4>1. 1 <= i
        BY <1>1
      <4> QED BY <1>1, <1>3, <4>1 DEF InLevels
    <3>7. Len(d) \in Nat
      BY WayIs DEF WaysTo
    <3> QED BY <1>4, <3>4, <3>5, <3>6, <3>7
  <2>2. CASE f # <<>>
    <3>1. 1 \in DOMAIN f /\ 1 \in DOMAIN f2
      BY <1>1, <1>5, <2>2
    <3>2. Len(f[1]) <= Len(d) /\ f2[1] = f[1]
      BY <1>1, <1>5, <1>14, <3>1 DEF FoundShortest
    <3> QED BY <1>10, <3>1, <3>2
  <2> QED BY <2>1, <2>2
<1>15. OneVersionEach(g) => Apart(q2, f2) /\ Complete(g, t, q2, f2) /\ FoundShortest(g, t, f2)
  BY <1>10, <1>12, <1>13, <1>14 DEF Complete, FoundShortest, MaxPaths
<1> QED BY <1>1, <1>7, <1>8, <1>11, <1>15 DEF Right, f2

LEMMA StartsTransitive ==
  ASSUME NEW p, NEW q, NEW r, Len(p) \in Nat, Len(q) \in Nat, Len(r) \in Nat, Starts(p, q), Starts(q, r)
  PROVE  Starts(p, r)
PROOF
<1>1. \A i \in 1..Len(p) : i \in 1..Len(q)
  BY DEF Starts
<1> QED BY <1>1 DEF Starts

(* The queue q2 is q without its head c, followed by the children ch of it. *)
Expanded(g, q, c, ch, q2, n) ==
  /\ q2 \in Seq(Items(g)) /\ n \in Nat
  /\ \A i \in DOMAIN q2 :
       /\ i \in Nat
       /\ \/ i <= n /\ i + 1 \in DOMAIN q /\ i + 1 # 1 /\ q2[i] = q[i + 1]
          \/ i > n /\ i - n \in DOMAIN ch /\ q2[i] = ch[i - n]
  /\ \A i \in DOMAIN q : i # 1 => \E j \in DOMAIN q2 : q2[j] = q[i]
  /\ \A i \in DOMAIN ch : \E j \in DOMAIN q2 : q2[j] = ch[i]
  /\ \A i \in DOMAIN ch : Len(ch[i].path) = Len(c) + 1 /\ Starts(q[1].path, ch[i].path)

LEMMA ExpandedIs ==
  ASSUME NEW g, IsLockGraph(g), Root \in Keys(g), NEW q \in Seq(Items(g)), q # <<>>,
         NEW c \in Ways(g), q[1] = ItemOf(g, c),
         NEW ch, ch = Children(g, q[1]),
         NEW q2, q2 = Tail(q) \o ch,
         NEW n, n = Len(q) - 1
  PROVE  Expanded(g, q, c, ch, q2, n)
PROOF
<1> DEFINE tail == Tail(q)
<1>1. /\ ch \in Seq({ItemOf(g, d) : d \in Longer(g, c)})
      /\ \A d \in Longer(g, c) : \E i \in DOMAIN ch : ch[i] = ItemOf(g, d)
  BY ChildrenAre
<1>2. \A d \in Longer(g, c) : d \in Ways(g)
  BY LongerIs
<1>3. ch \in Seq(Items(g))
  <2>1. {ItemOf(g, d) : d \in Longer(g, c)} \subseteq Items(g)
    BY <1>2 DEF Items
  <2> QED BY <1>1, <2>1, SeqMonotonic
<1>4. /\ tail \in Seq(Items(g)) /\ Len(tail) = n /\ n \in Nat /\ Len(q) \in Nat
      /\ \A i \in DOMAIN tail : i \in Nat /\ i + 1 \in DOMAIN q /\ i + 1 # 1 /\ tail[i] = q[i + 1]
      /\ \A i \in DOMAIN q : i # 1 => i - 1 \in DOMAIN tail /\ tail[i - 1] = q[i]
  BY TailIs
<1> HIDE DEF tail
<1>5. /\ q2 \in Seq(Items(g)) /\ Len(ch) \in Nat /\ DOMAIN q2 = 1..(n + Len(ch))
      /\ DOMAIN ch = 1..Len(ch) /\ DOMAIN tail = 1..n
      /\ \A i \in 1..(n + Len(ch)) : q2[i] = IF i <= n THEN tail[i] ELSE ch[i - n]
  <2>1. q2 = tail \o ch
    BY DEF tail
  <2>2. /\ q2 \in Seq(Items(g)) /\ Len(q2) = Len(tail) + Len(ch)
        /\ \A i \in 1..(Len(tail) + Len(ch)) : q2[i] = IF i <= Len(tail) THEN tail[i] ELSE ch[i - Len(tail)]
    BY <1>3, <1>4, <2>1, ConcatProperties
  <2>3. Len(ch) \in Nat /\ DOMAIN ch = 1..Len(ch) /\ DOMAIN tail = 1..n /\ DOMAIN q2 = 1..Len(q2)
    BY <1>3, <1>4, <2>2
  <2> QED BY <1>4, <2>2, <2>3
<1>6. ASSUME NEW i \in DOMAIN q2
      PROVE  /\ i \in Nat
             /\ \/ i <= n /\ i + 1 \in DOMAIN q /\ i + 1 # 1 /\ q2[i] = q[i + 1]
                \/ i > n /\ i - n \in DOMAIN ch /\ q2[i] = ch[i - n]
  <2>1. CASE i <= n
    <3>1. i \in DOMAIN tail /\ q2[i] = tail[i]
      BY <1>4, <1>5, <2>1
    <3> QED BY <1>4, <2>1, <3>1
  <2>2. CASE i > n
    <3>1. ~(i <= n) /\ i - n \in 1..Len(ch)
      BY <1>4, <1>5, <2>2
    <3> QED BY <1>5, <2>2, <3>1
  <2> QED BY <1>4, <1>5, <2>1, <2>2
<1>7. ASSUME NEW i \in DOMAIN q, i # 1 PROVE \E j \in DOMAIN q2 : q2[j] = q[i]
  <2>1. i - 1 \in 1..n /\ tail[i - 1] = q[i]
    BY <1>4, <1>5, <1>7
  <2>2. i - 1 \in DOMAIN q2 /\ i - 1 <= n
    BY <1>4, <1>5, <2>1
  <2> QED BY <1>5, <2>1, <2>2
<1>8. ASSUME NEW i \in DOMAIN ch PROVE \E j \in DOMAIN q2 : q2[j] = ch[i]
  <2>1. n + i \in 1..(n + Len(ch)) /\ ~(n + i <= n) /\ (n + i) - n = i
    BY <1>4, <1>5
  <2> QED BY <1>5, <2>1
<1>9. ASSUME NEW i \in DOMAIN ch PROVE Len(ch[i].path) = Len(c) + 1 /\ Starts(q[1].path, ch[i].path)
  <2>1. PICK d \in Longer(g, c) : ch[i] = ItemOf(g, d)
    <3>1. ch[i] \in {ItemOf(g, d) : d \in Longer(g, c)}
      BY <1>1
    <3> QED BY <3>1
  <2>2. PICK k \in Keys(g) : d = Append(c, k)
    BY DEF Longer
  <2>3. ch[i].path = Named(g, Append(c, k)) /\ q[1].path = Named(g, c)
    BY <2>1, <2>2 DEF ItemOf
  <2> QED BY <2>3, NamedOneMore DEF Starts
<1> QED BY <1>4, <1>5, <1>6, <1>7, <1>8, <1>9 DEF Expanded

LEMMA ExpandsRight ==
  ASSUME NEW g, IsLockGraph(g), Root \in Keys(g), NEW t, t # Root,
         NEW q, NEW s, NEW f, Right(g, t, q, s, f), q # <<>>,
         ~(q[1].key = t /\ q[1].path # <<>>),
         NEW q2, q2 = Tail(q) \o Children(g, q[1]),
         NEW s2, s2 = [k \in DOMAIN s \cup {q[1].key} |-> IF k = q[1].key THEN Len(q[1].path) ELSE s[k]]
  PROVE  Right(g, t, q2, s2, f)
PROOF
<1>1. /\ Real(g, t, q, f) /\ SeenReal(g, s) /\ InLevels(q) /\ OneLength(q, f)
      /\ OneVersionEach(g) => Apart(q, f) /\ Complete(g, t, q, f) /\ FoundShortest(g, t, f)
      /\ q \in Seq(Items(g)) /\ Len(f) < 3 /\ Len(f) \in Nat
  BY DEF Right, Real, MaxPaths
<1>2. 1 \in DOMAIN q
  BY <1>1, TailIs
<1>3. PICK c \in Ways(g) : /\ q[1] = ItemOf(g, c) /\ q[1].key = End(c) /\ q[1].path = Named(g, c)
                           /\ Len(q[1].path) = Len(c) /\ Len(c) \in Nat
  BY <1>1, <1>2, ItemIs
<1> DEFINE ch == Children(g, q[1])
           n  == Len(q) - 1
           L  == Len(c)
<1>0. ch = Children(g, q[1]) /\ n = Len(q) - 1 /\ q2 = Tail(q) \o ch
  OBVIOUS
<1> HIDE DEF ch, n
<1>4. /\ q2 \in Seq(Items(g)) /\ n \in Nat
      /\ \A i \in DOMAIN q2 :
           /\ i \in Nat
           /\ \/ i <= n /\ i + 1 \in DOMAIN q /\ i + 1 # 1 /\ q2[i] = q[i + 1]
              \/ i > n /\ i - n \in DOMAIN ch /\ q2[i] = ch[i - n]
      /\ \A i \in DOMAIN q : i # 1 => \E j \in DOMAIN q2 : q2[j] = q[i]
      /\ \A i \in DOMAIN ch : \E j \in DOMAIN q2 : q2[j] = ch[i]
      /\ \A i \in DOMAIN ch : Len(ch[i].path) = L + 1 /\ Starts(q[1].path, ch[i].path)
  <2>1. q \in Seq(Items(g)) /\ q[1] = ItemOf(g, c)
    BY <1>1, <1>3
  <2>2. Expanded(g, q, c, ch, q2, n)
    BY <1>0, <2>1, ExpandedIs
  <2> QED BY <2>2 DEF Expanded, L
<1>5. /\ \A d \in Longer(g, c) : \E i \in DOMAIN ch : ch[i] = ItemOf(g, d)
      /\ OneVersionEach(g) => \A i, j \in DOMAIN ch : ch[i].path = ch[j].path => i = j
  <2>1. ch = Children(g, ItemOf(g, c))
    BY <1>0, <1>3
  <2> QED BY <2>1, ChildrenAre
<1>6. \A i \in DOMAIN q : Len(q[i].path) \in Nat /\ L <= Len(q[i].path) /\ Len(q[i].path) <= L + 1
  <2>1. \A i \in DOMAIN q : 1 <= i
    BY <1>1
  <2>2. \A i \in DOMAIN q : Len(q[i].path) \in Nat
    BY <1>1, ItemIs
  <2> QED BY <1>1, <1>2, <1>3, <2>1, <2>2 DEF InLevels
<1>7. \A i \in DOMAIN q2 : i # 0 /\ 1 \in DOMAIN q2
  BY <1>4
<1> HIDE DEF L
<1>8. L \in Nat
  BY <1>3 DEF L
<1>9. ASSUME NEW i \in DOMAIN q2
      PROVE  Len(q2[i].path) \in Nat /\ L <= Len(q2[i].path) /\ Len(q2[i].path) <= L + 1
  <2>1. CASE i <= n
    <3>1. i + 1 \in DOMAIN q /\ q2[i] = q[i + 1]
      BY <1>4, <2>1
    <3> QED BY <1>6, <3>1
  <2>2. CASE i > n
    <3>1. Len(q2[i].path) = L + 1
      BY <1>4, <2>2
    <3> QED BY <1>8, <3>1
  <2> QED BY <1>4, <2>1, <2>2
<1>10. InLevels(q2)
  <2>1. ASSUME NEW i \in DOMAIN q2, NEW j \in DOMAIN q2, i <= j
        PROVE  Len(q2[i].path) <= Len(q2[j].path)
    <3>1. CASE j <= n
      <4>1. i <= n /\ i \in Nat /\ j \in Nat
        BY <1>4, <2>1, <3>1
      <4>2. /\ i + 1 \in DOMAIN q /\ j + 1 \in DOMAIN q /\ i + 1 <= j + 1
            /\ q2[i] = q[i + 1] /\ q2[j] = q[j + 1]
        BY <1>4, <2>1, <3>1, <4>1
      <4> QED BY <1>1, <4>2 DEF InLevels
    <3>2. CASE ~(j <= n)
      <4>1. Len(q2[j].path) = L + 1
        BY <1>4, <3>2
      <4> QED BY <1>9, <4>1
    <3> QED BY <3>1, <3>2
  <2>2. ASSUME NEW j \in DOMAIN q2 PROVE Len(q2[j].path) <= Len(q2[1].path) + 1
    <3>1. 1 \in DOMAIN q2
      BY <1>7
    <3>2. /\ Len(q2[1].path) \in Nat /\ L <= Len(q2[1].path)
          /\ Len(q2[j].path) \in Nat /\ Len(q2[j].path) <= L + 1
      BY <1>9, <3>1
    <3>3. \A a, b \in Nat : a <= L + 1 /\ L <= b => a <= b + 1
      BY <1>8
    <3> QED BY <3>2, <3>3
  <2> QED BY <2>1, <2>2 DEF InLevels
<1>11. OneLength(q2, f)
  <2>1. ASSUME NEW i \in DOMAIN f, q2 # <<>> PROVE Len(f[i]) <= Len(q2[1].path)
    <3>1. 1 \in DOMAIN q2
      BY <1>4, <2>1
    <3>2. Len(f[i]) <= L
      BY <1>1, <1>3 DEF OneLength, L
    <3>3. Len(f[i]) \in Nat
      BY <1>1, FoundIs
    <3>4. Len(q2[1].path) \in Nat /\ L <= Len(q2[1].path)
      BY <1>9, <3>1
    <3>5. \A a, b \in Nat : a <= L /\ L <= b => a <= b
      BY <1>8
    <3> QED BY <3>2, <3>3, <3>4, <3>5
  <2> QED BY <1>1, <2>1 DEF OneLength
<1>12. Real(g, t, q2, f)
  BY <1>1, <1>4 DEF Real, MaxPaths
<1>13. SeenReal(g, s2)
  <2>1. ASSUME NEW k \in DOMAIN s2 PROVE \E d \in Ways(g) : End(d) = k /\ s2[k] = Len(d)
    <3>1. CASE k = q[1].key
      BY <1>3, <3>1
    <3>2. CASE k # q[1].key
      BY <1>1, <3>2 DEF SeenReal
    <3> QED BY <3>1, <3>2
  <2> QED BY <2>1 DEF SeenReal
<1>14. ASSUME OneVersionEach(g) PROVE Apart(q2, f)
  <2>1. Apart(q, f)
    BY <1>1, <1>14
  <2>2. \A i \in DOMAIN q : i # 1 => ~Starts(q[1].path, q[i].path) /\ ~Starts(q[i].path, q[1].path)
    BY <1>2, <2>1 DEF Apart
  <2>3. \A i \in DOMAIN ch : Len(ch[i].path) = L + 1 /\ Len(ch[i].path) \in Nat /\ Starts(q[1].path, ch[i].path)
    BY <1>4, <1>8
  <2>4. Len(q[1].path) = L
    BY <1>3 DEF L
  <2>5. ASSUME NEW i \in DOMAIN q, i # 1, NEW j \in DOMAIN ch
        PROVE  ~Starts(q[i].path, ch[j].path) /\ ~Starts(ch[j].path, q[i].path)
    <3>1. ~Starts(ch[j].path, q[i].path)
      BY <1>6, <1>8, <2>2, <2>3, <2>4, <2>5, StartsTransitive
    <3>2. ASSUME Starts(q[i].path, ch[j].path) PROVE FALSE
      <4>1. \A h \in 1..L : q[1].path[h] = ch[j].path[h]
        BY <2>3, <2>4 DEF Starts
      <4>2. \A h \in 1..Len(q[i].path) : q[i].path[h] = ch[j].path[h]
        BY <3>2 DEF Starts
      <4>3. \A h \in 1..L : h \in 1..Len(q[i].path)
        BY <1>6, <1>8
      <4>4. Starts(q[1].path, q[i].path)
        BY <1>6, <2>4, <4>1, <4>2, <4>3 DEF Starts
      <4> QED BY <2>2, <2>5, <4>4
    <3> QED BY <3>1, <3>2
  <2>6. ASSUME NEW i \in DOMAIN ch, NEW j \in DOMAIN ch, i # j PROVE ~Starts(ch[i].path, ch[j].path)
    <3>1. ASSUME NEW h \in DOMAIN ch
          PROVE  ch[h].path \in Seq({NodeAt(g, k).name : k \in Keys(g)})
      <4>1. PICK m \in DOMAIN q2 : q2[m] = ch[h]
        BY <1>4
      <4>2. PICK d \in Ways(g) : q2[m].path = Named(g, d)
        <5>1. q2 \in Seq(Items(g))
          BY <1>4
        <5> QED BY <5>1, ItemIs
      <4>3. d \in Seq(Keys(g))
        BY WayIs
      <4>4. Named(g, d) \in Seq({NodeAt(g, k).name : k \in Keys(g)})
        BY <4>3, NamedIs
      <4> QED BY <4>1, <4>2, <4>4
    <3>2. ASSUME Starts(ch[i].path, ch[j].path) PROVE FALSE
      <4>1. Len(ch[i].path) = Len(ch[j].path) /\ \A h \in 1..Len(ch[i].path) : ch[i].path[h] = ch[j].path[h]
        BY <2>3, <3>2 DEF Starts
      <4>2. ch[i].path = ch[j].path
        BY <3>1, <4>1, SeqEqual
      <4> QED BY <1>5, <1>14, <2>6, <4>2
    <3> QED BY <3>2
  <2>7. ASSUME NEW i \in DOMAIN q2, NEW j \in DOMAIN q2, i # j PROVE ~Starts(q2[i].path, q2[j].path)
    <3>1. CASE i <= n /\ j <= n
      <4>1. i + 1 \in DOMAIN q /\ j + 1 \in DOMAIN q /\ i + 1 # j + 1 /\ q2[i] = q[i + 1] /\ q2[j] = q[j + 1]
        BY <1>4, <2>7, <3>1
      <4> QED BY <2>1, <4>1 DEF Apart
    <3>2. CASE i <= n /\ j > n
      <4>1. i + 1 \in DOMAIN q /\ i + 1 # 1 /\ q2[i] = q[i + 1] /\ j - n \in DOMAIN ch /\ q2[j] = ch[j - n]
        BY <1>4, <3>2
      <4> QED BY <2>5, <4>1
    <3>3. CASE i > n /\ j <= n
      <4>1. j + 1 \in DOMAIN q /\ j + 1 # 1 /\ q2[j] = q[j + 1] /\ i - n \in DOMAIN ch /\ q2[i] = ch[i - n]
        BY <1>4, <3>3
      <4> QED BY <2>5, <4>1
    <3>4. CASE i > n /\ j > n
      <4>1. /\ i - n \in DOMAIN ch /\ q2[i] = ch[i - n] /\ j - n \in DOMAIN ch /\ q2[j] = ch[j - n]
            /\ i - n # j - n
        BY <1>4, <2>7, <3>4
      <4> QED BY <2>6, <4>1
    <3> QED BY <1>4, <3>1, <3>2, <3>3, <3>4
  <2>8. ASSUME NEW i \in DOMAIN q2, NEW j \in DOMAIN f PROVE ~Starts(q2[i].path, f[j])
    <3>1. CASE i <= n
      BY <1>4, <2>1, <3>1 DEF Apart
    <3>2. CASE i > n
      <4>1. i - n \in DOMAIN ch /\ q2[i] = ch[i - n]
        BY <1>4, <3>2
      <4>2. Len(f[j]) \in Nat
        BY <1>1, FoundIs
      <4>3. ~Starts(q[1].path, f[j])
        BY <1>2, <2>1 DEF Apart
      <4> QED BY <1>8, <2>3, <2>4, <4>1, <4>2, <4>3, StartsTransitive
    <3> QED BY <1>4, <3>1, <3>2
  <2> QED BY <2>1, <2>7, <2>8 DEF Apart
<1>15. ASSUME OneVersionEach(g), NEW d \in Shortest(g, t), Underway(g, d, q)
       PROVE  Underway(g, d, q2)
  <2>1. d \in WaysTo(g, t) /\ d \in Ways(g) /\ d # <<>> /\ End(d) = t /\ Len(d) \in Nat
    BY WayIs DEF Shortest, WaysTo
  <2>2. PICK i \in DOMAIN q, m \in 0..Len(d) : q[i] = ItemOf(g, SubSeq(d, 1, m))
    BY <1>15 DEF Underway
  <2>3. CASE i # 1
    <3>1. PICK j \in DOMAIN q2 : q2[j] = q[i]
      BY <1>4, <2>3
    <3> QED BY <2>2, <3>1 DEF Underway
  <2>4. CASE i = 1
    <3> DEFINE e == SubSeq(d, 1, m)
    <3>1. /\ Len(q[1].path) = m /\ e \in Ways(g) /\ Len(e) = m /\ q[1].path = Named(g, e) /\ q[1].key = End(e)
          /\ m # 0 => q[1].key = d[m]
      BY <2>1, <2>2, <2>4, PartIs
    <3>2. m # Len(d)
      <4>1. End(d) = d[Len(d)] /\ Len(d) # 0
        BY <2>1, WayIs, EndIs
      <4>2. m # 0 => q[1].path # <<>>
        BY <3>1, EmptySeq
      <4> QED BY <2>1, <3>1, <4>1, <4>2
    <3>3. m \in 0..(Len(d) - 1) /\ m + 1 \in 0..Len(d)
      BY <2>1, <3>2
    <3>4. SubSeq(d, 1, m + 1) \in Longer(g, e)
      <4>1. /\ d[m + 1] \in Keys(g) /\ d[m + 1] \in Range(NodeAt(g, End(e)).deps)
            /\ \A h \in DOMAIN e : NodeAt(g, e[h]).name # NodeAt(g, d[m + 1]).name
            /\ SubSeq(d, 1, m + 1) = Append(e, d[m + 1])
        BY <2>1, <3>3, NextOnTheWay
      <4> QED BY <4>1 DEF Longer
    <3> HIDE DEF e
    <3>5. \A x \in Longer(g, e) : \E h \in DOMAIN ch : ch[h] = ItemOf(g, x)
      <4>1. q[1] = ItemOf(g, e)
        BY <2>2, <2>4 DEF e
      <4>2. ch = Children(g, ItemOf(g, e)) /\ e \in Ways(g)
        BY <1>0, <3>1, <4>1
      <4>3. \A x \in Longer(g, e) : \E h \in DOMAIN Children(g, ItemOf(g, e)) :
              Children(g, ItemOf(g, e))[h] = ItemOf(g, x)
        BY <4>2, ChildrenAre
      <4> HIDE DEF ch
      <4> QED BY <4>2, <4>3
    <3>6. PICK h \in DOMAIN ch : ch[h] = ItemOf(g, SubSeq(d, 1, m + 1))
      BY <3>4, <3>5
    <3>7. PICK j \in DOMAIN q2 : q2[j] = ch[h]
      BY <1>4
    <3> QED BY <3>3, <3>6, <3>7 DEF Underway
  <2> QED BY <2>3, <2>4
<1>16. OneVersionEach(g) => Complete(g, t, q2, f)
  BY <1>1, <1>15 DEF Complete
<1> QED BY <1>1, <1>10, <1>11, <1>12, <1>13, <1>14, <1>16 DEF Right

LEMMA SearchStarts == SearchInit => SearchInv
BY DEF SearchInit, SearchInv

SearchNext == (\E g, key : IsLockGraph(g) /\ BeginSearch(g, key)) \/ SearchStep

LEMMA SearchKeeps == SearchInv /\ [SearchNext]_searchVars => SearchInv'
PROOF
<1> SUFFICES ASSUME SearchInv, [SearchNext]_searchVars
             PROVE  SearchInv'
  OBVIOUS
<1> USE DEF SearchInv
<1>1. ASSUME NEW g, NEW key, IsLockGraph(g), BeginSearch(g, key)
      PROVE  SearchInv'
  <2>1. /\ graph' = g /\ targetKey' = key /\ seen' = <<>> /\ results' = <<>>
        /\ queue' = IF key \in Keys(g) THEN <<StartAt(Root)>> ELSE <<>>
    BY <1>1 DEF BeginSearch
  <2>2. g # None
    BY <1>1 DEF IsLockGraph
  <2>3. ASSUME {Root, key} \subseteq Keys(g), key # Root
        PROVE  Right(g, key, queue', seen', results')
    BY <2>1, <2>3, BeginsRight
  <2> QED BY <1>1, <2>1, <2>2, <2>3
<1>2. ASSUME SearchStep PROVE SearchInv'
  <2>1. graph' = graph /\ targetKey' = targetKey /\ queue # <<>> /\ graph # None /\ IsLockGraph(graph)
    BY <1>2 DEF SearchStep, Stop, Arrive, Pass, Expand
  <2>2. SUFFICES ASSUME Root \in Keys(graph), targetKey \in Keys(graph), targetKey # Root
                 PROVE  Right(graph, targetKey, queue', seen', results')
    BY <2>1
  <2>3. Right(graph, targetKey, queue, seen, results)
    BY <2>1, <2>2
  <2>4. Cur = queue[1]
    <3>1. queue \in Seq(Items(graph))
      BY <2>3 DEF Right, Real
    <3> QED BY <2>1, <3>1, TailIs DEF Cur
  <2>5. CASE Stop
    <3>1. results # <<>> /\ Len(queue[1].path) > Len(results[1]) /\ queue' = <<>> /\ seen' = seen /\ results' = results
      BY <2>4, <2>5 DEF Stop, TooLong
    <3> QED BY <2>1, <2>3, <3>1, StopsRight
  <2>6. CASE Arrive
    <3>1. /\ ~(results # <<>> /\ Len(queue[1].path) > Len(results[1]))
          /\ queue[1].key = targetKey /\ queue[1].path # <<>>
          /\ results' = Append(results, queue[1].path) /\ seen' = seen
          /\ queue' = IF Len(Append(results, queue[1].path)) >= MaxPaths THEN <<>> ELSE Tail(queue)
      BY <2>4, <2>6 DEF Arrive, TooLong, AtTarget
    <3> QED BY <2>1, <2>2, <2>3, <3>1, ArrivesRight
  <2>7. CASE Pass
    <3>1. /\ queue[1].key \in DOMAIN seen /\ seen[queue[1].key] < Len(queue[1].path)
          /\ queue' = Tail(queue) /\ seen' = seen /\ results' = results
      BY <2>4, <2>7 DEF Pass, SeenShorter
    <3> QED BY <2>1, <2>2, <2>3, <3>1, PassesRight
  <2>8. CASE Expand
    <3>1. /\ ~(queue[1].key = targetKey /\ queue[1].path # <<>>)
          /\ queue' = Tail(queue) \o Children(graph, queue[1])
          /\ seen' = [k \in DOMAIN seen \cup {queue[1].key} |->
                        IF k = queue[1].key THEN Len(queue[1].path) ELSE seen[k]]
          /\ results' = results
      BY <2>4, <2>8 DEF Expand, AtTarget
    <3> QED BY <2>1, <2>2, <2>3, <3>1, ExpandsRight
  <2> QED BY <1>2, <2>5, <2>6, <2>7, <2>8 DEF SearchStep
<1>3. CASE UNCHANGED searchVars
  BY <1>3 DEF searchVars
<1> QED BY <1>1, <1>2, <1>3 DEF SearchNext

LEMMA FoundAll == SearchInv => PathsAreProvenance
PROOF
<1> SUFFICES ASSUME SearchInv, Searched, Root \in Keys(graph), targetKey \in Keys(graph), targetKey # Root
             PROVE  LET chains == {Named(graph, c) : c \in {d \in Chains(graph) : Last(d) = targetKey}}
                        least  == {p \in chains : \A q \in chains : Len(p) <= Len(q)}
                    IN  /\ Range(results) \subseteq chains
                        /\ \A i, j \in DOMAIN results : Len(results[i]) = Len(results[j])
                        /\ OneVersionEach(graph) => /\ Range(results) \subseteq least
                                                    /\ Len(results) = Min({MaxPaths, Cardinality(least)})
  BY DEF PathsAreProvenance
<1> DEFINE chains == {Named(graph, c) : c \in {d \in Chains(graph) : Last(d) = targetKey}}
           least  == {p \in chains : \A q \in chains : Len(p) <= Len(q)}
           W == WaysTo(graph, targetKey)
<1>1. /\ IsLockGraph(graph) /\ queue = <<>> /\ Right(graph, targetKey, <<>>, seen, results)
      /\ Real(graph, targetKey, <<>>, results) /\ OneLength(<<>>, results)
      /\ OneVersionEach(graph) => /\ Apart(<<>>, results) /\ Complete(graph, targetKey, <<>>, results)
                                  /\ FoundShortest(graph, targetKey, results)
  BY DEF Searched, SearchInv, Right
<1>2. Len(graph) \in Nat /\ DOMAIN graph = 1..Len(graph)
  <2>1. Len(graph) \in Nat /\ graph = [i \in 1..Len(graph) |-> graph[i]]
    BY <1>1 DEF IsLockGraph
  <2> QED BY <2>1
<1>3. Chains(graph) = {c \in Ways(graph) : c # <<>>} /\ IsFiniteSet(Chains(graph))
  BY <1>2, ChainsAre
<1>4. {d \in Chains(graph) : Last(d) = targetKey} = W
  BY <1>3 DEF WaysTo, End
<1>5. chains = {Named(graph, c) : c \in W} /\ IsFiniteSet(chains)
  <2>1. chains = {Named(graph, c) : c \in W}
    BY <1>4
  <2>2. IsFiniteSet(W)
    BY <1>3, <1>4, FS_Subset
  <2>3. [c \in W |-> Named(graph, c)] \in Surjection(W, {Named(graph, c) : c \in W})
    BY DEF Surjection
  <2> HIDE DEF chains, W
  <2> QED BY <2>1, <2>2, <2>3, FS_Surjection
<1>6. \A c \in W : c \in Ways(graph) /\ Len(Named(graph, c)) = Len(c) /\ Len(c) \in Nat
  BY WayIs DEF WaysTo
<1> HIDE DEF chains, W
<1>7. results \in Seq(chains) /\ Len(results) \in Nat /\ Len(results) <= 3 /\ DOMAIN results = 1..Len(results)
  <2>1. results \in Seq(chains) /\ Len(results) <= 3
    BY <1>1, <1>5 DEF Real, MaxPaths, W
  <2> QED BY <2>1
<1>8. Range(results) \subseteq chains
  BY <1>7 DEF Range
<1>9. ASSUME NEW i \in DOMAIN results, NEW j \in DOMAIN results PROVE Len(results[i]) = Len(results[j])
  BY <1>1 DEF OneLength
<1>10. ASSUME OneVersionEach(graph)
       PROVE  Range(results) \subseteq least /\ Len(results) = Min({MaxPaths, Cardinality(least)})
  <2>1. /\ Apart(<<>>, results) /\ Complete(graph, targetKey, <<>>, results) /\ FoundShortest(graph, targetKey, results)
    BY <1>1, <1>10
  <2>2. Range(results) \subseteq least
    <3>1. ASSUME NEW i \in DOMAIN results, NEW q \in chains PROVE Len(results[i]) <= Len(q)
      <4>1. PICK c \in W : q = Named(graph, c)
        BY <1>5
      <4> QED BY <1>6, <2>1, <4>1 DEF FoundShortest, W
    <3> QED BY <1>8, <3>1 DEF Range
  <2>3. IsFiniteSet(least)
    <3>1. least \in SUBSET chains
      OBVIOUS
    <3> HIDE DEF least
    <3> QED BY <1>5, <3>1, FS_Subset
  <2>4. IsFiniteSet(Range(results)) /\ Cardinality(Range(results)) = Len(results)
    <3> DEFINE h == [i \in 1..Len(results) |-> results[i]]
    <3>1. h \in Surjection(1..Len(results), Range(results))
      BY <1>7 DEF Surjection, Range
    <3>2. \A i, j \in 1..Len(results) : h[i] = h[j] => i = j
      BY <1>7, <2>1 DEF Apart
    <3>3. h \in Injection(1..Len(results), Range(results))
      BY <3>1, <3>2 DEF Surjection, Injection, IsInjective
    <3>4. IsFiniteSet(1..Len(results)) /\ Cardinality(1..Len(results)) = Len(results)
      <4>1. \A n \in Nat : IsFiniteSet(1..n) /\ Cardinality(1..n) = n
        BY FS_Interval
      <4> QED BY <1>7, <4>1
    <3> HIDE DEF h
    <3> QED BY <3>1, <3>3, <3>4, FS_Surjection
  <2>5. Cardinality(least) \in Nat /\ Len(results) <= Cardinality(least)
    <3> HIDE DEF least
    <3>1. Range(results) \in SUBSET least
      BY <2>2
    <3>2. Cardinality(Range(results)) <= Cardinality(least) /\ Cardinality(least) \in Nat
      BY <2>3, <3>1, FS_Subset, FS_CardinalityType
    <3> QED BY <2>4, <3>2
  <2>6. CASE Len(results) = 3
    <3>1. /\ {3, Cardinality(least)} \in SUBSET Nat /\ {3, Cardinality(least)} # {}
      BY <2>5
    <3>2. Min({3, Cardinality(least)}) \in {3, Cardinality(least)} /\ Min({3, Cardinality(least)}) <= 3
      BY <3>1, MinOfNaturals
    <3> HIDE DEF least
    <3>3. Min({3, Cardinality(least)}) = 3
      BY <2>5, <2>6, <3>2
    <3> QED BY <2>2, <2>6, <3>3 DEF MaxPaths
  <2>7. CASE Len(results) # 3
    <3>1. ASSUME NEW p \in least PROVE p \in Range(results)
      <4>1. PICK c \in W : p = Named(graph, c)
        BY <1>5
      <4>2. \A d \in W : Len(c) <= Len(d)
        <5>1. \A d \in W : Named(graph, d) \in chains
          BY <1>5
        <5>2. \A q \in chains : Len(p) <= Len(q)
          OBVIOUS
        <5> QED BY <1>6, <4>1, <5>1, <5>2
      <4>3. c \in Shortest(graph, targetKey)
        BY <4>2 DEF Shortest, W
      <4>4. ~Underway(graph, c, <<>>)
        BY DEF Underway
      <4> QED BY <2>1, <2>7, <4>1, <4>3, <4>4 DEF Complete, MaxPaths
    <3>2. least = Range(results)
      <4> HIDE DEF least
      <4> QED BY <2>2, <3>1
    <3>3. Cardinality(least) = Len(results)
      BY <2>4, <3>2
    <3>4. {3, Cardinality(least)} \in SUBSET Nat /\ {3, Cardinality(least)} # {}
      BY <2>5
    <3>5. Min({3, Cardinality(least)}) \in {3, Cardinality(least)} /\ Min({3, Cardinality(least)}) <= Cardinality(least)
      BY <3>4, MinOfNaturals
    <3> HIDE DEF least
    <3>6. Min({3, Cardinality(least)}) = Cardinality(least)
      BY <1>7, <2>5, <3>3, <3>5
    <3> QED BY <2>2, <3>3, <3>6 DEF MaxPaths
  <2> QED BY <2>6, <2>7
<1> QED BY <1>8, <1>9, <1>10 DEF chains

(* The provenance shown with a finding is real and, where no name has two  *)
(* versions, as short and as complete as it is meant to be: for every      *)
(* lockfile graph, of any size (shortestPaths of lockfile.ts).             *)
THEOREM PathsAreReal == SearchSpec => []PathsAreProvenance
PROOF
<1>1. SearchSpec => []SearchInv
  <2>1. SearchSpec => SearchInit /\ [][SearchNext]_searchVars
    BY DEF SearchSpec, SearchNext
  <2> QED BY <2>1, SearchStarts, SearchKeeps, PTL
<1> QED BY <1>1, FoundAll, PTL

-----------------------------------------------------------------------------
(* Sequences, whatever their elements.                                     *)

LEMMA SeqIs ==
  ASSUME NEW s, IsSeq(s)
  PROVE  Len(s) \in Nat /\ DOMAIN s = 1..Len(s) /\ s = [i \in 1..Len(s) |-> s[i]]
BY DEF IsSeq

LEMMA IsSeqOf ==
  ASSUME NEW X, NEW s \in Seq(X)
  PROVE  IsSeq(s)
PROOF
<1>1. \A i \in 1..Len(s) : s[i] \in Range(s)
  BY DEF Range
<1>2. Len(s) \in Nat /\ s = [i \in 1..Len(s) |-> s[i]]
  OBVIOUS
<1> QED BY <1>1, <1>2 DEF IsSeq

LEMMA AppendedIs ==
  ASSUME NEW s, IsSeq(s), NEW x
  PROVE  /\ IsSeq(Append(s, x)) /\ Len(Append(s, x)) = Len(s) + 1
         /\ Append(s, x)[Len(s) + 1] = x
         /\ \A n \in 1..Len(s) : Append(s, x)[n] = s[n]
PROOF
<1> DEFINE X == Range(s) \cup {x}
<1>1. s \in Seq(X) /\ x \in X
  BY SeqMonotonic DEF IsSeq
<1> HIDE DEF X
<1>2. Append(s, x) \in Seq(X)
  BY <1>1
<1>3. IsSeq(Append(s, x))
  BY <1>2, IsSeqOf
<1> QED BY <1>1, <1>3, AppendProperties

LEMMA ConcatIs ==
  ASSUME NEW s, IsSeq(s), NEW t, IsSeq(t)
  PROVE  /\ IsSeq(s \o t)
         /\ s \o <<>> = s /\ <<>> \o s = s
         /\ \A x : s \o Append(t, x) = Append(s \o t, x) /\ s \o <<x>> = Append(s, x)
PROOF
<1>1. ASSUME NEW x PROVE s \o Append(t, x) = Append(s \o t, x) /\ s \o <<x>> = Append(s, x)
  <2> DEFINE X == Range(s) \cup Range(t) \cup {x}
  <2>1. s \in Seq(X) /\ t \in Seq(X) /\ x \in X
    BY SeqMonotonic DEF IsSeq
  <2> HIDE DEF X
  <2> QED BY <2>1
<1>2. IsSeq(s \o t)
  <2> DEFINE X == Range(s) \cup Range(t)
  <2>1. s \in Seq(X) /\ t \in Seq(X)
    BY SeqMonotonic DEF IsSeq
  <2> HIDE DEF X
  <2>2. s \o t \in Seq(X)
    BY <2>1
  <2> QED BY <2>2, IsSeqOf
<1>3. s \o <<>> = s /\ <<>> \o s = s
  BY ConcatEmptySeq DEF IsSeq
<1> QED BY <1>1, <1>2, <1>3

LEMMA ConcatAssoc ==
  ASSUME NEW s, IsSeq(s), NEW t, IsSeq(t), NEW u, IsSeq(u)
  PROVE  (s \o t) \o u = s \o (t \o u)
PROOF
<1> DEFINE X == Range(s) \cup Range(t) \cup Range(u)
<1>1. s \in Seq(X) /\ t \in Seq(X) /\ u \in Seq(X)
  BY SeqMonotonic DEF IsSeq
<1> HIDE DEF X
<1> QED BY <1>1, ConcatAssociative

LEMMA SmallSeqs == IsSeq(<<>>) /\ \A x : IsSeq(<<x>>)
PROOF
<1>1. <<>> \in Seq({}) /\ \A x : <<x>> \in Seq({x})
  OBVIOUS
<1> QED BY <1>1, IsSeqOf

(* The last element of a sequence, and those before it.                    *)
LEMMA SplitAtLast ==
  ASSUME NEW s, IsSeq(s), Len(s) # 0
  PROVE  \E t, x : IsSeq(t) /\ s = Append(t, x) /\ Len(s) = Len(t) + 1 /\ Len(t) \in Nat
PROOF
<1>1. PICK t \in Seq(Range(s)), x \in Range(s) : s = Append(t, x)
  BY SequenceEmptyOrAppend DEF IsSeq
<1>2. IsSeq(t)
  BY IsSeqOf
<1> QED BY <1>1, <1>2, AppendedIs, SeqIs

InsertedBy(f, s) == f = [n \in 0..Len(s) |-> IF n = 0 THEN <<EmptyRoot>> ELSE WithNode(f[n - 1], s[n])]

LEMMA InsertedRuns ==
  ASSUME NEW s, Len(s) \in Nat
  PROVE  \E f : InsertedBy(f, s)
PROOF
<1> DEFINE Good(f, k) == f = [n \in 0..k |-> IF n = 0 THEN <<EmptyRoot>> ELSE WithNode(f[n - 1], s[n])]
           Bad == {k \in 0..Len(s) : ~\E f : Good(f, k)}
<1>1. SUFFICES ASSUME Bad # {} PROVE FALSE
  <2> HIDE DEF Good
  <2>1. Len(s) \in 0..Len(s)
    OBVIOUS
  <2>2. \E f : Good(f, Len(s))
    BY <2>1
  <2> QED BY <2>2 DEF Good, InsertedBy
<1>2. PICK k \in Bad : \A j \in Bad : k <= j
  <2>1. Bad \in SUBSET Nat
    OBVIOUS
  <2> HIDE DEF Bad
  <2> QED BY <1>1, <2>1, LeastNatural
<1>3. CASE k = 0
  <2>1. Good([n \in 0..0 |-> <<EmptyRoot>>], 0)
    OBVIOUS
  <2> HIDE DEF Good
  <2> QED BY <1>3, <2>1
<1>4. CASE k # 0
  <2>1. k - 1 \in 0..Len(s) /\ k \in Nat /\ ~(k <= k - 1)
    BY <1>4
  <2>2. PICK f : Good(f, k - 1)
    <3> HIDE DEF Good
    <3> QED BY <1>2, <2>1
  <2> DEFINE h == [n \in 0..k |-> IF n = k THEN WithNode(f[k - 1], s[k]) ELSE f[n]]
  <2>3. ASSUME NEW n \in 0..k PROVE h[n] = IF n = 0 THEN <<EmptyRoot>> ELSE WithNode(h[n - 1], s[n])
    <3>1. n \in Nat /\ (n # k => n \in 0..(k - 1)) /\ (n # 0 => n - 1 \in 0..k /\ n - 1 # k)
      BY <2>1
    <3>2. n # k => h[n] = IF n = 0 THEN <<EmptyRoot>> ELSE WithNode(f[n - 1], s[n])
      BY <2>2, <3>1
    <3>3. n # 0 => h[n - 1] = f[n - 1]
      BY <3>1
    <3>4. n = k => h[n] = WithNode(f[n - 1], s[n])
      OBVIOUS
    <3> HIDE DEF h
    <3> QED BY <1>4, <3>2, <3>3, <3>4
  <2>4. Good(h, k)
    <3>1. h = [n \in 0..k |-> h[n]]
      OBVIOUS
    <3> HIDE DEF h
    <3> QED BY <2>3, <3>1
  <2> HIDE DEF Good, h
  <2> QED BY <2>4
<1> QED BY <1>3, <1>4

LEMMA InsertedMore ==
  ASSUME NEW s, IsSeq(s), NEW x
  PROVE  /\ Inserted(<<>>) = <<EmptyRoot>>
         /\ Inserted(Append(s, x)) = WithNode(Inserted(s), x)
PROOF
<1> DEFINE run(q) == CHOOSE f : InsertedBy(f, q)
<1>1. ASSUME NEW q, Len(q) \in Nat
      PROVE  /\ Inserted(q) = run(q)[Len(q)]
             /\ \A n \in 0..Len(q) : run(q)[n] = IF n = 0 THEN <<EmptyRoot>> ELSE WithNode(run(q)[n - 1], q[n])
  <2>1. \E f : InsertedBy(f, q)
    BY <1>1, InsertedRuns
  <2>2. InsertedBy(run(q), q)
    BY <2>1
  <2>3. Inserted(q) = run(q)[Len(q)]
    BY DEF Inserted, InsertedBy
  <2>4. \A n \in 0..Len(q) : run(q)[n] = IF n = 0 THEN <<EmptyRoot>> ELSE WithNode(run(q)[n - 1], q[n])
    <3> HIDE DEF run
    <3> QED BY <2>2 DEF InsertedBy
  <2> QED BY <2>3, <2>4
<1> HIDE DEF run
<1> DEFINE t == Append(s, x)
<1>2. Len(<<>>) = 0 /\ Len(s) \in Nat /\ Len(t) = Len(s) + 1 /\ t[Len(s) + 1] = x
  BY AppendedIs
<1>3. \A n \in 1..Len(s) : t[n] = s[n]
  BY AppendedIs
<1> HIDE DEF t
<1>4. \A n \in 0..Len(s) : run(t)[n] = run(s)[n]
  <2> DEFINE Bad == {n \in 0..Len(s) : run(t)[n] # run(s)[n]}
  <2>1. SUFFICES ASSUME Bad # {} PROVE FALSE
    OBVIOUS
  <2>2. PICK n \in Bad : \A m \in Bad : n <= m
    <3>1. Bad \in SUBSET Nat
      OBVIOUS
    <3> HIDE DEF Bad
    <3> QED BY <2>1, <3>1, LeastNatural
  <2>3. n \in 0..Len(s) /\ n \in 0..Len(t) /\ (n # 0 => n \in 1..Len(s) /\ n - 1 \in 0..Len(s) /\ ~(n <= n - 1))
    BY <1>2
  <2>4. n # 0 => run(t)[n - 1] = run(s)[n - 1] /\ t[n] = s[n]
    BY <1>3, <2>2, <2>3
  <2>5. /\ run(t)[n] = IF n = 0 THEN <<EmptyRoot>> ELSE WithNode(run(t)[n - 1], t[n])
        /\ run(s)[n] = IF n = 0 THEN <<EmptyRoot>> ELSE WithNode(run(s)[n - 1], s[n])
    BY <1>1, <1>2, <2>3
  <2>6. run(t)[n] = run(s)[n]
    BY <2>4, <2>5
  <2> QED BY <2>6
<1>5. Inserted(<<>>) = <<EmptyRoot>>
  <2>1. 0 \in 0..Len(<<>>)
    OBVIOUS
  <2> QED BY <1>1, <1>2, <2>1
<1>6. Inserted(t) = WithNode(Inserted(s), x)
  <2>1. Len(t) \in 0..Len(t) /\ Len(t) # 0 /\ Len(t) - 1 = Len(s) /\ Len(s) \in 0..Len(s)
    BY <1>2
  <2>2. run(t)[Len(t)] = WithNode(run(t)[Len(t) - 1], t[Len(t)])
    BY <1>1, <1>2, <2>1
  <2>3. run(t)[Len(t) - 1] = Inserted(s) /\ t[Len(t)] = x
    BY <1>1, <1>2, <1>4, <2>1
  <2> QED BY <1>1, <1>2, <2>2, <2>3
<1> QED BY <1>5, <1>6 DEF t

JoinedBy(f, start, s) == f = [n \in 0..Len(s) |-> IF n = 0 THEN start ELSE JoinLine(f[n - 1], s[n])]

LEMMA JoinedRuns ==
  ASSUME NEW s, Len(s) \in Nat, NEW start
  PROVE  \E f : JoinedBy(f, start, s)
PROOF
<1> DEFINE Good(f, k) == f = [n \in 0..k |-> IF n = 0 THEN start ELSE JoinLine(f[n - 1], s[n])]
           Bad == {k \in 0..Len(s) : ~\E f : Good(f, k)}
<1>1. SUFFICES ASSUME Bad # {} PROVE FALSE
  <2> HIDE DEF Good
  <2>1. Len(s) \in 0..Len(s)
    OBVIOUS
  <2>2. \E f : Good(f, Len(s))
    BY <2>1
  <2> QED BY <2>2 DEF Good, JoinedBy
<1>2. PICK k \in Bad : \A j \in Bad : k <= j
  <2>1. Bad \in SUBSET Nat
    OBVIOUS
  <2> HIDE DEF Bad
  <2> QED BY <1>1, <2>1, LeastNatural
<1>3. CASE k = 0
  <2>1. Good([n \in 0..0 |-> start], 0)
    OBVIOUS
  <2> HIDE DEF Good
  <2> QED BY <1>3, <2>1
<1>4. CASE k # 0
  <2>1. k - 1 \in 0..Len(s) /\ k \in Nat /\ ~(k <= k - 1)
    BY <1>4
  <2>2. PICK f : Good(f, k - 1)
    <3> HIDE DEF Good
    <3> QED BY <1>2, <2>1
  <2> DEFINE h == [n \in 0..k |-> IF n = k THEN JoinLine(f[k - 1], s[k]) ELSE f[n]]
  <2>3. ASSUME NEW n \in 0..k PROVE h[n] = IF n = 0 THEN start ELSE JoinLine(h[n - 1], s[n])
    <3>1. n \in Nat /\ (n # k => n \in 0..(k - 1)) /\ (n # 0 => n - 1 \in 0..k /\ n - 1 # k)
      BY <2>1
    <3>2. n # k => h[n] = IF n = 0 THEN start ELSE JoinLine(f[n - 1], s[n])
      BY <2>2, <3>1
    <3>3. n # 0 => h[n - 1] = f[n - 1]
      BY <3>1
    <3>4. n = k => h[n] = JoinLine(f[n - 1], s[n])
      OBVIOUS
    <3> HIDE DEF h
    <3> QED BY <1>4, <3>2, <3>3, <3>4
  <2>4. Good(h, k)
    <3>1. h = [n \in 0..k |-> h[n]]
      OBVIOUS
    <3> HIDE DEF h
    <3> QED BY <2>3, <3>1
  <2> HIDE DEF Good, h
  <2> QED BY <2>4
<1> QED BY <1>3, <1>4

LEMMA JoinedMore ==
  ASSUME NEW s, IsSeq(s), NEW x, NEW start
  PROVE  /\ Joined(start, <<>>) = start
         /\ Joined(start, Append(s, x)) = JoinLine(Joined(start, s), x)
PROOF
<1> DEFINE run(q) == CHOOSE f : JoinedBy(f, start, q)
<1>1. ASSUME NEW q, Len(q) \in Nat
      PROVE  /\ Joined(start, q) = run(q)[Len(q)]
             /\ \A n \in 0..Len(q) : run(q)[n] = IF n = 0 THEN start ELSE JoinLine(run(q)[n - 1], q[n])
  <2>1. \E f : JoinedBy(f, start, q)
    BY <1>1, JoinedRuns
  <2>2. JoinedBy(run(q), start, q)
    BY <2>1
  <2>3. Joined(start, q) = run(q)[Len(q)]
    BY DEF Joined, JoinedBy
  <2>4. \A n \in 0..Len(q) : run(q)[n] = IF n = 0 THEN start ELSE JoinLine(run(q)[n - 1], q[n])
    <3> HIDE DEF run
    <3> QED BY <2>2 DEF JoinedBy
  <2> QED BY <2>3, <2>4
<1> HIDE DEF run
<1> DEFINE t == Append(s, x)
<1>2. Len(<<>>) = 0 /\ Len(s) \in Nat /\ Len(t) = Len(s) + 1 /\ t[Len(s) + 1] = x
  BY AppendedIs
<1>3. \A n \in 1..Len(s) : t[n] = s[n]
  BY AppendedIs
<1> HIDE DEF t
<1>4. \A n \in 0..Len(s) : run(t)[n] = run(s)[n]
  <2> DEFINE Bad == {n \in 0..Len(s) : run(t)[n] # run(s)[n]}
  <2>1. SUFFICES ASSUME Bad # {} PROVE FALSE
    OBVIOUS
  <2>2. PICK n \in Bad : \A m \in Bad : n <= m
    <3>1. Bad \in SUBSET Nat
      OBVIOUS
    <3> HIDE DEF Bad
    <3> QED BY <2>1, <3>1, LeastNatural
  <2>3. n \in 0..Len(s) /\ n \in 0..Len(t) /\ (n # 0 => n \in 1..Len(s) /\ n - 1 \in 0..Len(s) /\ ~(n <= n - 1))
    BY <1>2
  <2>4. n # 0 => run(t)[n - 1] = run(s)[n - 1] /\ t[n] = s[n]
    BY <1>3, <2>2, <2>3
  <2>5. /\ run(t)[n] = IF n = 0 THEN start ELSE JoinLine(run(t)[n - 1], t[n])
        /\ run(s)[n] = IF n = 0 THEN start ELSE JoinLine(run(s)[n - 1], s[n])
    BY <1>1, <1>2, <2>3
  <2>6. run(t)[n] = run(s)[n]
    BY <2>4, <2>5
  <2> QED BY <2>6
<1>5. Joined(start, <<>>) = start
  <2>1. 0 \in 0..Len(<<>>)
    OBVIOUS
  <2> QED BY <1>1, <1>2, <2>1
<1>6. Joined(start, t) = JoinLine(Joined(start, s), x)
  <2>1. Len(t) \in 0..Len(t) /\ Len(t) # 0 /\ Len(t) - 1 = Len(s) /\ Len(s) \in 0..Len(s)
    BY <1>2
  <2>2. run(t)[Len(t)] = JoinLine(run(t)[Len(t) - 1], t[Len(t)])
    BY <1>1, <1>2, <2>1
  <2>3. run(t)[Len(t) - 1] = Joined(start, s) /\ t[Len(t)] = x
    BY <1>1, <1>2, <1>4, <2>1
  <2> QED BY <1>1, <1>2, <2>2, <2>3
<1> QED BY <1>5, <1>6 DEF t

ReadBy(f, start, s) == f = [n \in 0..Len(s) |-> IF n = 0 THEN start ELSE ReadLine(f[n - 1], s[n])]

LEMMA ReadRuns ==
  ASSUME NEW s, Len(s) \in Nat, NEW start
  PROVE  \E f : ReadBy(f, start, s)
PROOF
<1> DEFINE Good(f, k) == f = [n \in 0..k |-> IF n = 0 THEN start ELSE ReadLine(f[n - 1], s[n])]
           Bad == {k \in 0..Len(s) : ~\E f : Good(f, k)}
<1>1. SUFFICES ASSUME Bad # {} PROVE FALSE
  <2> HIDE DEF Good
  <2>1. Len(s) \in 0..Len(s)
    OBVIOUS
  <2>2. \E f : Good(f, Len(s))
    BY <2>1
  <2> QED BY <2>2 DEF Good, ReadBy
<1>2. PICK k \in Bad : \A j \in Bad : k <= j
  <2>1. Bad \in SUBSET Nat
    OBVIOUS
  <2> HIDE DEF Bad
  <2> QED BY <1>1, <2>1, LeastNatural
<1>3. CASE k = 0
  <2>1. Good([n \in 0..0 |-> start], 0)
    OBVIOUS
  <2> HIDE DEF Good
  <2> QED BY <1>3, <2>1
<1>4. CASE k # 0
  <2>1. k - 1 \in 0..Len(s) /\ k \in Nat /\ ~(k <= k - 1)
    BY <1>4
  <2>2. PICK f : Good(f, k - 1)
    <3> HIDE DEF Good
    <3> QED BY <1>2, <2>1
  <2> DEFINE h == [n \in 0..k |-> IF n = k THEN ReadLine(f[k - 1], s[k]) ELSE f[n]]
  <2>3. ASSUME NEW n \in 0..k PROVE h[n] = IF n = 0 THEN start ELSE ReadLine(h[n - 1], s[n])
    <3>1. n \in Nat /\ (n # k => n \in 0..(k - 1)) /\ (n # 0 => n - 1 \in 0..k /\ n - 1 # k)
      BY <2>1
    <3>2. n # k => h[n] = IF n = 0 THEN start ELSE ReadLine(f[n - 1], s[n])
      BY <2>2, <3>1
    <3>3. n # 0 => h[n - 1] = f[n - 1]
      BY <3>1
    <3>4. n = k => h[n] = ReadLine(f[n - 1], s[n])
      OBVIOUS
    <3> HIDE DEF h
    <3> QED BY <1>4, <3>2, <3>3, <3>4
  <2>4. Good(h, k)
    <3>1. h = [n \in 0..k |-> h[n]]
      OBVIOUS
    <3> HIDE DEF h
    <3> QED BY <2>3, <3>1
  <2> HIDE DEF Good, h
  <2> QED BY <2>4
<1> QED BY <1>3, <1>4

LEMMA ReadMore ==
  ASSUME NEW s, IsSeq(s), NEW x, NEW start
  PROVE  /\ Read(start, <<>>) = start
         /\ Read(start, Append(s, x)) = ReadLine(Read(start, s), x)
PROOF
<1> DEFINE run(q) == CHOOSE f : ReadBy(f, start, q)
<1>1. ASSUME NEW q, Len(q) \in Nat
      PROVE  /\ Read(start, q) = run(q)[Len(q)]
             /\ \A n \in 0..Len(q) : run(q)[n] = IF n = 0 THEN start ELSE ReadLine(run(q)[n - 1], q[n])
  <2>1. \E f : ReadBy(f, start, q)
    BY <1>1, ReadRuns
  <2>2. ReadBy(run(q), start, q)
    BY <2>1
  <2>3. Read(start, q) = run(q)[Len(q)]
    BY DEF Read, ReadBy
  <2>4. \A n \in 0..Len(q) : run(q)[n] = IF n = 0 THEN start ELSE ReadLine(run(q)[n - 1], q[n])
    <3> HIDE DEF run
    <3> QED BY <2>2 DEF ReadBy
  <2> QED BY <2>3, <2>4
<1> HIDE DEF run
<1> DEFINE t == Append(s, x)
<1>2. Len(<<>>) = 0 /\ Len(s) \in Nat /\ Len(t) = Len(s) + 1 /\ t[Len(s) + 1] = x
  BY AppendedIs
<1>3. \A n \in 1..Len(s) : t[n] = s[n]
  BY AppendedIs
<1> HIDE DEF t
<1>4. \A n \in 0..Len(s) : run(t)[n] = run(s)[n]
  <2> DEFINE Bad == {n \in 0..Len(s) : run(t)[n] # run(s)[n]}
  <2>1. SUFFICES ASSUME Bad # {} PROVE FALSE
    OBVIOUS
  <2>2. PICK n \in Bad : \A m \in Bad : n <= m
    <3>1. Bad \in SUBSET Nat
      OBVIOUS
    <3> HIDE DEF Bad
    <3> QED BY <2>1, <3>1, LeastNatural
  <2>3. n \in 0..Len(s) /\ n \in 0..Len(t) /\ (n # 0 => n \in 1..Len(s) /\ n - 1 \in 0..Len(s) /\ ~(n <= n - 1))
    BY <1>2
  <2>4. n # 0 => run(t)[n - 1] = run(s)[n - 1] /\ t[n] = s[n]
    BY <1>3, <2>2, <2>3
  <2>5. /\ run(t)[n] = IF n = 0 THEN start ELSE ReadLine(run(t)[n - 1], t[n])
        /\ run(s)[n] = IF n = 0 THEN start ELSE ReadLine(run(s)[n - 1], s[n])
    BY <1>1, <1>2, <2>3
  <2>6. run(t)[n] = run(s)[n]
    BY <2>4, <2>5
  <2> QED BY <2>6
<1>5. Read(start, <<>>) = start
  <2>1. 0 \in 0..Len(<<>>)
    OBVIOUS
  <2> QED BY <1>1, <1>2, <2>1
<1>6. Read(start, t) = ReadLine(Read(start, s), x)
  <2>1. Len(t) \in 0..Len(t) /\ Len(t) # 0 /\ Len(t) - 1 = Len(s) /\ Len(s) \in 0..Len(s)
    BY <1>2
  <2>2. run(t)[Len(t)] = ReadLine(run(t)[Len(t) - 1], t[Len(t)])
    BY <1>1, <1>2, <2>1
  <2>3. run(t)[Len(t) - 1] = Read(start, s) /\ t[Len(t)] = x
    BY <1>1, <1>2, <1>4, <2>1
  <2> QED BY <1>1, <1>2, <2>2, <2>3
<1> QED BY <1>5, <1>6 DEF t

(* What is done to one sequence after another.                             *)
LEMMA JoinedConcat ==
  ASSUME NEW s, IsSeq(s), NEW t, IsSeq(t), NEW start
  PROVE  Joined(start, s \o t) = Joined(Joined(start, s), t)
PROOF
<1> DEFINE Good(u) == Joined(start, s \o u) = Joined(Joined(start, s), u)
           Bad == {n \in Nat : \E u : IsSeq(u) /\ Len(u) = n /\ ~Good(u)}
<1>1. SUFFICES ASSUME ~Good(t) PROVE FALSE
  OBVIOUS
<1>2. Len(t) \in Bad
  BY <1>1, SeqIs
<1>3. PICK n \in Bad : \A m \in Bad : n <= m
  <2>1. Bad \in SUBSET Nat
    OBVIOUS
  <2> HIDE DEF Bad
  <2> QED BY <1>2, <2>1, LeastNatural
<1>4. PICK u : IsSeq(u) /\ Len(u) = n /\ ~Good(u)
  OBVIOUS
<1>5. CASE Len(u) = 0
  <2>1. u = <<>>
    BY <1>4, <1>5, SeqIs
  <2>2. s \o u = s
    BY <2>1, SmallSeqs, ConcatIs
  <2>3. Joined(Joined(start, s), <<>>) = Joined(start, s)
    BY SmallSeqs, JoinedMore
  <2> QED BY <1>4, <2>1, <2>2, <2>3
<1>6. CASE Len(u) # 0
  <2>1. PICK v, x : IsSeq(v) /\ u = Append(v, x) /\ Len(u) = Len(v) + 1 /\ Len(v) \in Nat
    BY <1>4, <1>6, SplitAtLast
  <2>2. Good(v)
    <3>1. Len(v) \in Nat /\ ~(n <= Len(v))
      BY <1>4, <2>1
    <3> HIDE DEF Good
    <3>2. Len(v) \notin Bad
      <4> HIDE DEF Bad
      <4> QED BY <1>3, <3>1
    <3> QED BY <2>1, <3>1, <3>2
  <2>3. IsSeq(s \o v) /\ s \o u = Append(s \o v, x)
    BY <2>1, ConcatIs
  <2>4. /\ Joined(start, Append(s \o v, x)) = JoinLine(Joined(start, s \o v), x)
        /\ Joined(Joined(start, s), Append(v, x)) = JoinLine(Joined(Joined(start, s), v), x)
    BY <2>1, <2>3, JoinedMore
  <2> QED BY <1>4, <2>1, <2>2, <2>3, <2>4
<1> QED BY <1>5, <1>6

(* What is done to one sequence after another.                             *)
LEMMA ReadConcat ==
  ASSUME NEW s, IsSeq(s), NEW t, IsSeq(t), NEW start
  PROVE  Read(start, s \o t) = Read(Read(start, s), t)
PROOF
<1> DEFINE Good(u) == Read(start, s \o u) = Read(Read(start, s), u)
           Bad == {n \in Nat : \E u : IsSeq(u) /\ Len(u) = n /\ ~Good(u)}
<1>1. SUFFICES ASSUME ~Good(t) PROVE FALSE
  OBVIOUS
<1>2. Len(t) \in Bad
  BY <1>1, SeqIs
<1>3. PICK n \in Bad : \A m \in Bad : n <= m
  <2>1. Bad \in SUBSET Nat
    OBVIOUS
  <2> HIDE DEF Bad
  <2> QED BY <1>2, <2>1, LeastNatural
<1>4. PICK u : IsSeq(u) /\ Len(u) = n /\ ~Good(u)
  OBVIOUS
<1>5. CASE Len(u) = 0
  <2>1. u = <<>>
    BY <1>4, <1>5, SeqIs
  <2>2. s \o u = s
    BY <2>1, SmallSeqs, ConcatIs
  <2>3. Read(Read(start, s), <<>>) = Read(start, s)
    BY SmallSeqs, ReadMore
  <2> QED BY <1>4, <2>1, <2>2, <2>3
<1>6. CASE Len(u) # 0
  <2>1. PICK v, x : IsSeq(v) /\ u = Append(v, x) /\ Len(u) = Len(v) + 1 /\ Len(v) \in Nat
    BY <1>4, <1>6, SplitAtLast
  <2>2. Good(v)
    <3>1. Len(v) \in Nat /\ ~(n <= Len(v))
      BY <1>4, <2>1
    <3> HIDE DEF Good
    <3>2. Len(v) \notin Bad
      <4> HIDE DEF Bad
      <4> QED BY <1>3, <3>1
    <3> QED BY <2>1, <3>1, <3>2
  <2>3. IsSeq(s \o v) /\ s \o u = Append(s \o v, x)
    BY <2>1, ConcatIs
  <2>4. /\ Read(start, Append(s \o v, x)) = ReadLine(Read(start, s \o v), x)
        /\ Read(Read(start, s), Append(v, x)) = ReadLine(Read(Read(start, s), v), x)
    BY <2>1, <2>3, ReadMore
  <2> QED BY <1>4, <2>1, <2>2, <2>3, <2>4
<1> QED BY <1>5, <1>6


-----------------------------------------------------------------------------
(* What is picked from a sequence, and made of it.                         *)

\* s is a tuple of length n.
Tuples(s, n) == s = [i \in 1..n |-> s[i]]

LEMMA TuplesIsSeq ==
  ASSUME NEW s, NEW n \in Nat, Tuples(s, n)
  PROVE  IsSeq(s) /\ Len(s) = n /\ DOMAIN s = 1..n
PROOF
<1>1. s = [i \in 1..n |-> s[i]] /\ DOMAIN s = 1..n
  BY DEF Tuples
<1>2. \A i \in 1..n : s[i] \in Range(s)
  BY <1>1 DEF Range
<1>3. s \in Seq(Range(s)) /\ Len(s) = n
  <2> DEFINE R == Range(s)
  <2>1. \A i \in 1..n : s[i] \in R
    BY <1>2
  <2> HIDE DEF R
  <2>2. [i \in 1..n |-> s[i]] \in Seq(R) /\ Len([i \in 1..n |-> s[i]]) = n
    BY <2>1
  <2> QED BY <1>1, <2>2 DEF R
<1> QED BY <1>1, <1>3 DEF IsSeq

LEMMA PickedIs ==
  ASSUME NEW s, IsSeq(s), NEW K \in SUBSET DOMAIN s
  PROVE  IsSeq(Picked(s, K)) /\ Range(Picked(s, K)) = {s[i] : i \in K}
PROOF
<1>1. s \in Seq(Range(s))
  BY DEF IsSeq
<1>2. Picked(s, K) \in Seq(Range(s)) /\ Range(Picked(s, K)) = {s[i] : i \in K}
  BY <1>1, PickedInOrder
<1> QED BY <1>2, IsSeqOf

-----------------------------------------------------------------------------
(* The nodes of a graph that are packages.                                 *)

\* The artifact a node or an entry pins.
PinOf(n) == <<n.name, n.version, n.integrity>>
IsNamed(n) == n.version # NoVersion => n.name \in Nat /\ n.version \in DOMAIN Coerce
Pins(S) == {PinOf(n) : n \in {z \in S : z.version # NoVersion}}

LEMMA PackagesOf ==
  ASSUME NEW g, IsSeq(g), \A n \in Range(g) : n.key # Root => IsNamed(n)
  PROVE  /\ IsGraph(Packages(g))
         /\ ArtifactsOf(Packages(g)) = Pins({n \in Range(g) : n.key # Root})
PROOF
<1> DEFINE K == {i \in DOMAIN g : g[i].key # Root}
           h == Packages(g)
<1>1. h = Picked(g, K) /\ K \in SUBSET DOMAIN g
  BY DEF Packages, Only
<1>2. IsSeq(h) /\ Range(h) = {g[i] : i \in K}
  <2> HIDE DEF K
  <2> QED BY <1>1, PickedIs
<1>3. Range(h) = {n \in Range(g) : n.key # Root}
  BY <1>2 DEF Range
<1> HIDE DEF K, h
<1>4. Len(h) \in Nat /\ DOMAIN h = 1..Len(h) /\ h = [i \in 1..Len(h) |-> h[i]]
  BY <1>2, SeqIs
<1>5. \A i \in DOMAIN h : h[i] \in Range(h)
  BY DEF Range
<1>6. \A k \in Listed(h) : h[k].name \in Nat /\ h[k].version \in DOMAIN Coerce
  BY <1>3, <1>5 DEF Listed, IsNamed
<1>7. ArtifactsOf(h) = Pins(Range(h))
  <2>1. ASSUME NEW a \in ArtifactsOf(h) PROVE a \in Pins(Range(h))
    <3>1. PICK k \in Listed(h) : a = PinOf(h[k])
      BY DEF ArtifactsOf, PinOf
    <3> QED BY <1>5, <3>1 DEF Listed, Pins
  <2>2. ASSUME NEW a \in Pins(Range(h)) PROVE a \in ArtifactsOf(h)
    <3>1. PICK n \in Range(h) : n.version # NoVersion /\ a = PinOf(n)
      BY DEF Pins
    <3>2. PICK k \in DOMAIN h : n = h[k]
      BY DEF Range
    <3> QED BY <3>1, <3>2 DEF Listed, ArtifactsOf, PinOf
  <2> QED BY <2>1, <2>2
<1> QED BY <1>3, <1>4, <1>6, <1>7 DEF IsGraph, h

-----------------------------------------------------------------------------
(* The nodes of a parser that has no install paths.                        *)

LEMMA FreshIsNoRoot ==
  ASSUME NEW g, NEW name, NEW version
  PROVE  FreshKey(g, name, version) # Root
PROOF
<1>1. <<name>> # <<>> /\ <<name, version>> # <<>> /\ <<name, version, Len(g)>> # <<>>
  OBVIOUS
<1> QED BY <1>1 DEF FreshKey, Root

\* n is the node that WithNode made of a pin.
IsNodeOf(n, pin) ==
  n.key # Root /\ n = LockNode(n.key, pin.name, pin.version, pin.integrity)

LEMMA InsertedIs ==
  ASSUME NEW pins, IsSeq(pins)
  PROVE  /\ IsSeq(Inserted(pins)) /\ Len(Inserted(pins)) = Len(pins) + 1
         /\ Inserted(pins)[1] = EmptyRoot
         /\ \A i \in 1..Len(pins) : IsNodeOf(Inserted(pins)[i + 1], pins[i])
PROOF
<1> DEFINE Good(u) == /\ IsSeq(Inserted(u)) /\ Len(Inserted(u)) = Len(u) + 1
                      /\ Inserted(u)[1] = EmptyRoot
                      /\ \A i \in 1..Len(u) : IsNodeOf(Inserted(u)[i + 1], u[i])
           Bad == {n \in Nat : \E u : IsSeq(u) /\ Len(u) = n /\ ~Good(u)}
<1>1. SUFFICES ASSUME ~Good(pins) PROVE FALSE
  OBVIOUS
<1>2. Len(pins) \in Bad
  BY <1>1, SeqIs
<1>3. PICK n \in Bad : \A m \in Bad : n <= m
  <2>1. Bad \in SUBSET Nat
    OBVIOUS
  <2> HIDE DEF Bad
  <2> QED BY <1>2, <2>1, LeastNatural
<1>4. PICK u : IsSeq(u) /\ Len(u) = n /\ ~Good(u)
  OBVIOUS
<1>5. CASE Len(u) = 0
  <2>1. u = <<>>
    BY <1>4, <1>5, SeqIs
  <2>2. Inserted(u) = <<EmptyRoot>>
    BY <2>1, SmallSeqs, InsertedMore
  <2>3. IsSeq(<<EmptyRoot>>) /\ Len(<<EmptyRoot>>) = 1 /\ <<EmptyRoot>>[1] = EmptyRoot
    BY SmallSeqs
  <2> QED BY <1>4, <1>5, <2>2, <2>3
<1>6. CASE Len(u) # 0
  <2>1. PICK v, x : IsSeq(v) /\ u = Append(v, x) /\ Len(u) = Len(v) + 1 /\ Len(v) \in Nat
    BY <1>4, <1>6, SplitAtLast
  <2>2. Good(v)
    <3>1. Len(v) \in Nat /\ ~(n <= Len(v))
      BY <1>4, <2>1
    <3> HIDE DEF Good
    <3>2. Len(v) \notin Bad
      <4> HIDE DEF Bad
      <4> QED BY <1>3, <3>1
    <3> QED BY <2>1, <3>1, <3>2
  <2> DEFINE g == Inserted(v)
             m == LockNode(FreshKey(g, x.name, x.version), x.name, x.version, x.integrity)
  <2>3. Inserted(u) = Append(g, m)
    BY <2>1, InsertedMore DEF WithNode
  <2>4. IsNodeOf(m, x)
    BY FreshIsNoRoot DEF IsNodeOf, LockNode
  <2>5. IsSeq(g) /\ Len(g) = Len(v) + 1 /\ g[1] = EmptyRoot
    BY <2>2
  <2> HIDE DEF g, m
  <2>6. /\ IsSeq(Append(g, m)) /\ Len(Append(g, m)) = Len(g) + 1 /\ Append(g, m)[Len(g) + 1] = m
        /\ \A j \in 1..Len(g) : Append(g, m)[j] = g[j]
    BY <2>5, AppendedIs
  <2>7. u[Len(v) + 1] = x /\ \A j \in 1..Len(v) : u[j] = v[j]
    BY <2>1, AppendedIs
  <2>8. ASSUME NEW i \in 1..Len(u) PROVE IsNodeOf(Inserted(u)[i + 1], u[i])
    <3>1. CASE i = Len(u)
      BY <2>1, <2>3, <2>4, <2>5, <2>6, <2>7, <3>1
    <3>2. CASE i # Len(u)
      <4>1. i \in 1..Len(v) /\ i + 1 \in 1..Len(g)
        BY <2>1, <2>5, <3>2
      <4>2. IsNodeOf(g[i + 1], v[i])
        BY <2>2, <4>1 DEF g
      <4> QED BY <2>3, <2>6, <2>7, <4>1, <4>2
    <3> QED BY <3>1, <3>2
  <2>9. Inserted(u)[1] = EmptyRoot /\ Len(Inserted(u)) = Len(u) + 1 /\ IsSeq(Inserted(u))
    <3>1. 1 \in 1..Len(g)
      BY <2>1, <2>5
    <3> QED BY <2>1, <2>3, <2>5, <2>6, <3>1
  <2> QED BY <1>4, <2>8, <2>9
<1> QED BY <1>5, <1>6

\* Nodes that were given their dependencies.
Wired(g, nodes) ==
  /\ Tuples(g, Len(nodes))
  /\ \A i \in 1..Len(nodes) : /\ g[i].key = nodes[i].key /\ g[i].name = nodes[i].name
                              /\ g[i].version = nodes[i].version
                              /\ g[i].integrity = nodes[i].integrity

LEMMA WiredIs ==
  ASSUME NEW pins, IsSeq(pins), \A p \in Range(pins) : IsNamed(p), NEW g, Wired(g, Inserted(pins))
  PROVE  IsGraph(Packages(g)) /\ ArtifactsOf(Packages(g)) = Pins(Range(pins))
PROOF
<1> DEFINE nodes == Inserted(pins)
<1>1. /\ IsSeq(nodes) /\ Len(nodes) = Len(pins) + 1 /\ nodes[1] = EmptyRoot
      /\ \A i \in 1..Len(pins) : IsNodeOf(nodes[i + 1], pins[i])
  BY InsertedIs
<1>2. Len(pins) \in Nat /\ DOMAIN pins = 1..Len(pins)
  BY SeqIs
<1> HIDE DEF nodes
<1>3. IsSeq(g) /\ DOMAIN g = 1..Len(nodes)
  BY <1>1, <1>2, TuplesIsSeq DEF Wired, nodes
<1>4. g[1].key = Root
  <2>1. 1 \in 1..Len(nodes)
    BY <1>1, <1>2
  <2> QED BY <1>1, <2>1 DEF Wired, nodes, EmptyRoot, LockNode
<1>5. ASSUME NEW i \in 1..Len(pins)
      PROVE  /\ i + 1 \in DOMAIN g /\ g[i + 1].key # Root /\ g[i + 1].name = pins[i].name
             /\ g[i + 1].version = pins[i].version /\ g[i + 1].integrity = pins[i].integrity
  <2>1. i + 1 \in 1..Len(nodes)
    BY <1>1, <1>2
  <2>2. IsNodeOf(nodes[i + 1], pins[i])
    BY <1>1
  <2>3. /\ nodes[i + 1].key # Root /\ nodes[i + 1].name = pins[i].name
        /\ nodes[i + 1].version = pins[i].version /\ nodes[i + 1].integrity = pins[i].integrity
    BY <2>2 DEF IsNodeOf, LockNode
  <2> QED BY <1>3, <2>1, <2>3 DEF Wired, nodes
<1>6. ASSUME NEW n \in Range(g), n.key # Root
      PROVE  \E p \in Range(pins) : n.name = p.name /\ n.version = p.version /\ n.integrity = p.integrity
  <2>1. PICK i \in DOMAIN g : n = g[i]
    BY DEF Range
  <2>2. i # 1 /\ i - 1 \in 1..Len(pins) /\ (i - 1) + 1 = i
    BY <1>1, <1>2, <1>3, <1>4, <1>6, <2>1
  <2> QED BY <1>2, <1>5, <2>1, <2>2 DEF Range
<1>7. ASSUME NEW p \in Range(pins)
      PROVE  \E n \in Range(g) : /\ n.key # Root /\ n.name = p.name /\ n.version = p.version
                                 /\ n.integrity = p.integrity
  <2>1. PICK i \in 1..Len(pins) : p = pins[i]
    BY <1>2 DEF Range
  <2> QED BY <1>5, <2>1 DEF Range
<1>8. \A n \in Range(g) : n.key # Root => IsNamed(n)
  BY <1>6 DEF IsNamed
<1>9. Pins({n \in Range(g) : n.key # Root}) = Pins(Range(pins))
  BY <1>6, <1>7 DEF Pins, PinOf
<1> QED BY <1>3, <1>8, <1>9, PackagesOf

-----------------------------------------------------------------------------
(* Dependencies, none of them listed twice.                                *)

\* What IsLockGraph asks of the dependencies of a node.
GoodDeps(deps) ==
  deps \in Seq(Range(deps)) /\ \A j, k \in DOMAIN deps : deps[j] = deps[k] => j = k

LEMMA NoDeps == GoodDeps(<<>>)
BY SmallSeqs DEF GoodDeps, IsSeq

LEMMA DedupedDeps ==
  ASSUME NEW s, IsSeq(s)
  PROVE  GoodDeps(Deduped(s)) /\ IsSeq(Deduped(s))
PROOF
<1>1. s \in Seq(Range(s))
  BY DEF IsSeq
<1>2. /\ Deduped(s) \in Seq(Range(s))
      /\ \A i, j \in DOMAIN Deduped(s) : Deduped(s)[i] = Deduped(s)[j] => i = j
  BY <1>1, DedupedIs
<1>3. IsSeq(Deduped(s))
  BY <1>2, IsSeqOf
<1> QED BY <1>2, <1>3 DEF GoodDeps, IsSeq

LEMMA FirstOfDeps ==
  ASSUME NEW g, NEW names, IsSeq(names)
  PROVE  GoodDeps(FirstOf(g, names))
PROOF
<1> DEFINE K     == {i \in DOMAIN names : ByName(g, names[i]) # <<>>}
           known == Picked(names, K)
           keys  == [i \in DOMAIN known |-> ByName(g, known[i])[1]]
<1>1. FirstOf(g, names) = Deduped(keys)
  BY DEF FirstOf, Only
<1>2. IsSeq(known)
  <2>1. K \in SUBSET DOMAIN names
    OBVIOUS
  <2> HIDE DEF K
  <2> QED BY <2>1, PickedIs
<1> HIDE DEF known
<1>3. Tuples(keys, Len(known)) /\ Len(known) \in Nat
  <2>1. DOMAIN known = 1..Len(known) /\ Len(known) \in Nat
    BY <1>2, SeqIs
  <2> QED BY <2>1 DEF Tuples
<1> HIDE DEF keys
<1> QED BY <1>1, <1>3, TuplesIsSeq, DedupedDeps

\* What a lockfile pins, and a graph that says the same and can be searched.
Pinned(lock) == {a \in Locked(lock) : a[2] # NoVersion}

Tells(g, lock) ==
  IsGraph(Packages(g)) /\ ArtifactsOf(Packages(g)) = Pinned(lock)

IsWired(g) == IsSeq(g) /\ \A i \in DOMAIN g : GoodDeps(g[i].deps)

-----------------------------------------------------------------------------
(* What each parser makes of its file.                                     *)

LEMMA NpmTells ==
  ASSUME NEW lock, IsLockfile(lock), lock.format = "npm"
  PROVE  Tells(NpmGraph(lock.text), lock) /\ IsWired(NpmGraph(lock.text))
PROOF
<1> DEFINE s == lock.text
           K == {i \in DOMAIN s : ~s[i].link /\ NpmName(s[i]) # None}
           installed == Picked(s, K)
           keys == {installed[i].key : i \in DOMAIN installed}
           resolved(e) == [i \in DOMAIN e.deps |-> ResolveDepKey(e.key, e.deps[i], keys)]
           L(e) == {i \in DOMAIN resolved(e) : resolved(e)[i] # None}
           deps(e) == Deduped(Picked(resolved(e), L(e)))
           Node(e) == [LockNode(e.key, Lower[NpmName(e)], e.version, e.integrity)
                         EXCEPT !.deps = deps(e)]
           g == [i \in DOMAIN installed |-> Node(installed[i])]
<1>1. NpmGraph(lock.text) = g
  BY DEF NpmGraph, Only
<1>2. /\ IsSeq(s)
      /\ \A e \in Range(s) : NpmName(e) \in DOMAIN Lower \cup {None} /\ e.version \in Versions /\ IsSeq(e.deps)
  BY DEF IsLockfile, IsEntry
<1>3. IsSeq(installed) /\ Range(installed) = {s[i] : i \in K}
  <2>1. K \in SUBSET DOMAIN s
    OBVIOUS
  <2> HIDE DEF K
  <2> QED BY <1>2, <2>1, PickedIs
<1>4. Range(installed) = {e \in Range(s) : ~e.link /\ NpmName(e) # None}
  BY <1>3 DEF Range
<1> HIDE DEF installed, s, K
<1>5. \A e \in Range(installed) :
        Lower[NpmName(e)] \in Nat /\ e.version \in Versions /\ IsSeq(e.deps)
  BY <1>2, <1>4, NamesAssumption
<1>6. ASSUME NEW e \in Range(installed)
      PROVE  GoodDeps(deps(e))
  <2>1. IsSeq(e.deps)
    BY <1>5
  <2>2. DOMAIN e.deps = 1..Len(e.deps) /\ Len(e.deps) \in Nat
    BY <2>1, SeqIs
  <2>3. Tuples(resolved(e), Len(e.deps))
    BY <2>2 DEF Tuples
  <2>4. L(e) \in SUBSET DOMAIN resolved(e)
    OBVIOUS
  <2> HIDE DEF resolved, L
  <2> QED BY <2>2, <2>3, <2>4, TuplesIsSeq, PickedIs, DedupedDeps
<1> HIDE DEF deps
<1>7. ASSUME NEW e
      PROVE  /\ Node(e).key = e.key /\ Node(e).name = Lower[NpmName(e)] /\ Node(e).version = e.version
             /\ Node(e).integrity = e.integrity /\ Node(e).deps = deps(e)
  BY DEF LockNode
<1> HIDE DEF Node
<1>8. DOMAIN installed = 1..Len(installed) /\ Len(installed) \in Nat
  BY <1>3, SeqIs
<1>9. Tuples(g, Len(installed))
  BY <1>8 DEF Tuples
<1>10. IsSeq(g) /\ DOMAIN g = DOMAIN installed
  <2> DOMAIN g = DOMAIN installed
    OBVIOUS
  <2> HIDE DEF g
  <2> QED BY <1>8, <1>9, TuplesIsSeq
<1>11. Range(g) = {Node(e) : e \in Range(installed)}
  BY DEF Range
<1>12. \A i \in DOMAIN g : g[i] \in Range(g)
  BY DEF Range
<1> HIDE DEF g
<1>13. \A n \in Range(g) : IsNamed(n)
  BY <1>5, <1>7, <1>11 DEF IsNamed, Versions
<1>14. IsGraph(Packages(g)) /\ ArtifactsOf(Packages(g)) = Pins({n \in Range(g) : n.key # Root})
  BY <1>10, <1>13, PackagesOf
<1>15. Pins({n \in Range(g) : n.key # Root}) = Pinned(lock)
  <2> DEFINE P(e) == <<Lower[NpmName(e)], e.version, e.integrity>>
             E == {z \in Range(s) : ~z.link /\ z.key # Root /\ NpmName(z) # None}
  <2>1. Locked(lock) = {P(e) : e \in E}
    BY DEF Locked, s
  <2>2. \A e : PinOf(Node(e)) = P(e) /\ P(e)[2] = e.version
    BY <1>7 DEF PinOf
  <2>3. {n \in Range(g) : n.key # Root} = {Node(e) : e \in E}
    BY <1>4, <1>7, <1>11
  <2> HIDE DEF P, E
  <2>4. Pinned(lock) = {P(e) : e \in {z \in E : z.version # NoVersion}}
    BY <2>1, <2>2 DEF Pinned
  <2>5. Pins({Node(e) : e \in E}) = {P(e) : e \in {z \in E : z.version # NoVersion}}
    BY <1>7, <2>2 DEF Pins
  <2> QED BY <2>3, <2>4, <2>5
<1>16. \A i \in DOMAIN g : GoodDeps(g[i].deps)
  BY <1>6, <1>7, <1>11, <1>12
<1> QED BY <1>1, <1>10, <1>14, <1>15, <1>16 DEF Tells, IsWired

-----------------------------------------------------------------------------
(* Sequences put together.                                                 *)

FlattenedBy(f, s) == f = [i \in 1..Len(s) |-> IF i = 1 THEN s[i] ELSE f[i - 1] \o s[i]]

LEMMA FlattenedRuns ==
  ASSUME NEW s, Len(s) \in Nat
  PROVE  \E f : FlattenedBy(f, s)
PROOF
<1> DEFINE Good(f, k) == f = [i \in 1..k |-> IF i = 1 THEN s[i] ELSE f[i - 1] \o s[i]]
           Bad == {k \in 0..Len(s) : ~\E f : Good(f, k)}
<1>1. SUFFICES ASSUME Bad # {} PROVE FALSE
  <2> HIDE DEF Good
  <2>1. Len(s) \in 0..Len(s)
    OBVIOUS
  <2>2. \E f : Good(f, Len(s))
    BY <2>1
  <2> QED BY <2>2 DEF Good, FlattenedBy
<1>2. PICK k \in Bad : \A j \in Bad : k <= j
  <2> HIDE DEF Good
  <2>1. Bad \in SUBSET Nat
    OBVIOUS
  <2> HIDE DEF Bad
  <2> QED BY <1>1, <2>1, LeastNatural
<1>3. CASE k = 0
  <2>1. Good([i \in 1..0 |-> s[i]], 0)
    OBVIOUS
  <2> HIDE DEF Good
  <2> QED BY <1>3, <2>1
<1>4. CASE k # 0
  <2>1. k - 1 \in 0..Len(s) /\ k \in Nat /\ ~(k <= k - 1)
    BY <1>4
  <2>2. PICK f : Good(f, k - 1)
    <3> HIDE DEF Good
    <3> QED BY <1>2, <2>1
  <2> DEFINE top == IF k = 1 THEN s[k] ELSE f[k - 1] \o s[k]
             h == [n \in 1..k |-> IF n = k THEN top ELSE f[n]]
  <2>3. ASSUME NEW n \in 1..k PROVE h[n] = IF n = 1 THEN s[n] ELSE h[n - 1] \o s[n]
    <3>1. n \in Nat /\ (n # k => n \in 1..(k - 1)) /\ (n # 1 => n - 1 \in 1..k /\ n - 1 # k)
      BY <2>1
    <3>2. n # k => h[n] = IF n = 1 THEN s[n] ELSE f[n - 1] \o s[n]
      BY <2>2, <3>1
    <3>3. n # 1 => h[n - 1] = f[n - 1]
      BY <3>1
    <3>4. n = k => h[n] = IF n = 1 THEN s[n] ELSE f[n - 1] \o s[n]
      OBVIOUS
    <3> HIDE DEF h
    <3> QED BY <3>2, <3>3, <3>4
  <2>4. Good(h, k)
    <3>1. h = [n \in 1..k |-> h[n]]
      OBVIOUS
    <3> HIDE DEF h
    <3> QED BY <2>3, <3>1
  <2> HIDE DEF Good, h
  <2> QED BY <2>4
<1> QED BY <1>3, <1>4

LEMMA FlattenedMore ==
  ASSUME NEW s, IsSeq(s), NEW x, IsSeq(x)
  PROVE  /\ FlattenSeq(<<>>) = <<>>
         /\ FlattenSeq(Append(s, x)) = FlattenSeq(s) \o x
PROOF
<1> DEFINE run(q) == CHOOSE f : FlattenedBy(f, q)
<1>1. ASSUME NEW q, Len(q) \in Nat, Len(q) # 0
      PROVE  /\ FlattenSeq(q) = run(q)[Len(q)]
             /\ \A n \in 1..Len(q) : run(q)[n] = IF n = 1 THEN q[n] ELSE run(q)[n - 1] \o q[n]
  <2>1. \E f : FlattenedBy(f, q)
    BY <1>1, FlattenedRuns
  <2>2. FlattenedBy(run(q), q)
    BY <2>1
  <2>3. FlattenSeq(q) = run(q)[Len(q)]
    BY <1>1 DEF FlattenSeq, FlattenedBy
  <2>4. \A n \in 1..Len(q) : run(q)[n] = IF n = 1 THEN q[n] ELSE run(q)[n - 1] \o q[n]
    <3> HIDE DEF run
    <3> QED BY <2>2 DEF FlattenedBy
  <2> QED BY <2>3, <2>4
<1> HIDE DEF run
<1> DEFINE t == Append(s, x)
<1>2. Len(s) \in Nat /\ Len(t) = Len(s) + 1 /\ t[Len(s) + 1] = x
  BY AppendedIs, SeqIs
<1>3. \A n \in 1..Len(s) : t[n] = s[n]
  BY AppendedIs
<1>4. Len(s) = 0 => s = <<>>
  BY SeqIs
<1> HIDE DEF t
<1>5. Len(s) # 0 => \A n \in 1..Len(s) : run(t)[n] = run(s)[n]
  <2> SUFFICES ASSUME Len(s) # 0 PROVE \A n \in 1..Len(s) : run(t)[n] = run(s)[n]
    OBVIOUS
  <2> DEFINE Bad == {n \in 1..Len(s) : run(t)[n] # run(s)[n]}
  <2>1. SUFFICES ASSUME Bad # {} PROVE FALSE
    OBVIOUS
  <2>2. PICK n \in Bad : \A m \in Bad : n <= m
    <3>1. Bad \in SUBSET Nat
      OBVIOUS
    <3> HIDE DEF Bad
    <3> QED BY <2>1, <3>1, LeastNatural
  <2>3. n \in 1..Len(s) /\ n \in 1..Len(t) /\ (n # 1 => n - 1 \in 1..Len(s) /\ ~(n <= n - 1))
    BY <1>2
  <2>4. t[n] = s[n] /\ (n # 1 => run(t)[n - 1] = run(s)[n - 1])
    BY <1>3, <2>2, <2>3
  <2>5. Len(t) \in Nat /\ Len(t) # 0
    BY <1>2
  <2>6. /\ run(t)[n] = IF n = 1 THEN t[n] ELSE run(t)[n - 1] \o t[n]
        /\ run(s)[n] = IF n = 1 THEN s[n] ELSE run(s)[n - 1] \o s[n]
    BY <1>1, <1>2, <2>3, <2>5
  <2>7. run(t)[n] = run(s)[n]
    BY <2>4, <2>6
  <2> QED BY <2>7
<1>6. FlattenSeq(<<>>) = <<>>
  BY DEF FlattenSeq
<1>7. FlattenSeq(t) = FlattenSeq(s) \o x
  <2>1. Len(t) \in 1..Len(t) /\ Len(t) # 0 /\ Len(t) \in Nat /\ Len(t) - 1 = Len(s) /\ (Len(t) = 1 <=> Len(s) = 0)
    BY <1>2
  <2>2. FlattenSeq(t) = IF Len(t) = 1 THEN x ELSE run(t)[Len(s)] \o x
    BY <1>1, <1>2, <2>1
  <2>3. CASE Len(s) = 0
    <3>1. <<>> \o x = x
      BY ConcatIs, SmallSeqs
    <3> QED BY <1>4, <1>6, <2>1, <2>2, <2>3, <3>1
  <2>4. CASE Len(s) # 0
    <3>1. Len(s) \in 1..Len(s)
      BY <1>2, <2>4
    <3>2. run(t)[Len(s)] = FlattenSeq(s)
      BY <1>1, <1>2, <1>5, <2>4, <3>1
    <3> QED BY <2>1, <2>2, <2>4, <3>2
  <2> QED BY <2>3, <2>4
<1> QED BY <1>6, <1>7 DEF t

LEMMA FlattenedIs ==
  ASSUME NEW s, IsSeq(s), \A i \in 1..Len(s) : IsSeq(s[i])
  PROVE  IsSeq(FlattenSeq(s))
PROOF
<1> DEFINE Good(u) == (\A i \in 1..Len(u) : IsSeq(u[i])) => IsSeq(FlattenSeq(u))
           Bad == {n \in Nat : \E u : IsSeq(u) /\ Len(u) = n /\ ~Good(u)}
<1>1. SUFFICES ASSUME ~Good(s) PROVE FALSE
  OBVIOUS
<1>2. Len(s) \in Bad
  BY <1>1, SeqIs
<1>3. PICK n \in Bad : \A m \in Bad : n <= m
  <2>1. Bad \in SUBSET Nat
    OBVIOUS
  <2> HIDE DEF Bad
  <2> QED BY <1>2, <2>1, LeastNatural
<1>4. PICK u : IsSeq(u) /\ Len(u) = n /\ ~Good(u)
  OBVIOUS
<1>5. CASE Len(u) = 0
  BY <1>4, <1>5, SeqIs, SmallSeqs, FlattenedMore
<1>6. CASE Len(u) # 0
  <2>1. PICK v, x : IsSeq(v) /\ u = Append(v, x) /\ Len(u) = Len(v) + 1 /\ Len(v) \in Nat
    BY <1>4, <1>6, SplitAtLast
  <2>2. Good(v)
    <3>1. Len(v) \in Nat /\ ~(n <= Len(v))
      BY <1>4, <2>1
    <3> HIDE DEF Good
    <3>2. Len(v) \notin Bad
      <4> HIDE DEF Bad
      <4> QED BY <1>3, <3>1
    <3> QED BY <2>1, <3>1, <3>2
  <2>3. u[Len(v) + 1] = x /\ \A i \in 1..Len(v) : u[i] = v[i]
    BY <2>1, AppendedIs
  <2>4. \A i \in 1..Len(u) : IsSeq(u[i])
    BY <1>4
  <2>5. IsSeq(x) /\ \A i \in 1..Len(v) : IsSeq(v[i])
    <3>1. Len(v) + 1 \in 1..Len(u) /\ \A i \in 1..Len(v) : i \in 1..Len(u)
      BY <2>1
    <3> QED BY <2>3, <2>4, <3>1
  <2>6. IsSeq(FlattenSeq(u))
    <3>1. FlattenSeq(u) = FlattenSeq(v) \o x
      BY <2>1, <2>5, FlattenedMore
    <3>2. IsSeq(FlattenSeq(v)) /\ IsSeq(x)
      BY <2>2, <2>5
    <3>3. IsSeq(FlattenSeq(v) \o x)
      BY <3>2, ConcatIs
    <3> QED BY <3>1, <3>3
  <2> QED BY <1>4, <2>6
<1> QED BY <1>5, <1>6

-----------------------------------------------------------------------------
(* The nodes of the flat formats, given their dependencies.                *)

\* The nodes, each with dependencies and otherwise as it was.
Given(g, nodes) ==
  /\ Tuples(g, Len(nodes))
  /\ \A i \in 1..Len(nodes) : \E d : GoodDeps(d) /\ g[i] = [nodes[i] EXCEPT !.deps = d]

LEMMA InsertedNodes ==
  ASSUME NEW pins, IsSeq(pins), NEW i \in 1..Len(Inserted(pins))
  PROVE  \E k, pin : Inserted(pins)[i] = LockNode(k, pin.name, pin.version, pin.integrity)
PROOF
<1>1. /\ Len(Inserted(pins)) = Len(pins) + 1 /\ Len(pins) \in Nat /\ Inserted(pins)[1] = EmptyRoot
      /\ \A j \in 1..Len(pins) : IsNodeOf(Inserted(pins)[j + 1], pins[j])
  BY InsertedIs, SeqIs
<1>2. CASE i = 1
  <2> DEFINE pin == Pin(None, NoVersion, NoIntegrity)
  <2>1. EmptyRoot = LockNode(Root, pin.name, pin.version, pin.integrity)
    BY DEF EmptyRoot, Pin
  <2> HIDE DEF pin
  <2> QED BY <1>1, <1>2, <2>1
<1>3. CASE i # 1
  <2>1. i - 1 \in 1..Len(pins) /\ (i - 1) + 1 = i
    BY <1>1, <1>3
  <2>2. IsNodeOf(Inserted(pins)[i], pins[i - 1])
    BY <1>1, <2>1
  <2> QED BY <2>2 DEF IsNodeOf
<1> QED BY <1>2, <1>3

LEMMA GivenIs ==
  ASSUME NEW pins, IsSeq(pins), \A p \in Range(pins) : IsNamed(p), NEW g, Given(g, Inserted(pins))
  PROVE  IsWired(g) /\ IsGraph(Packages(g)) /\ ArtifactsOf(Packages(g)) = Pins(Range(pins))
PROOF
<1> DEFINE nodes == Inserted(pins)
<1>1. IsSeq(nodes) /\ Len(nodes) \in Nat
  BY InsertedIs, SeqIs
<1>2. ASSUME NEW i \in 1..Len(nodes)
      PROVE  \E k, pin : nodes[i] = LockNode(k, pin.name, pin.version, pin.integrity)
  BY InsertedNodes
<1> HIDE DEF nodes
<1>3. Tuples(g, Len(nodes)) /\ \A i \in 1..Len(nodes) : \E d : GoodDeps(d) /\ g[i] = [nodes[i] EXCEPT !.deps = d]
  BY DEF Given, nodes
<1>4. ASSUME NEW i \in 1..Len(nodes)
      PROVE  /\ GoodDeps(g[i].deps) /\ g[i].key = nodes[i].key /\ g[i].name = nodes[i].name
             /\ g[i].version = nodes[i].version /\ g[i].integrity = nodes[i].integrity
  <2>1. PICK d : GoodDeps(d) /\ g[i] = [nodes[i] EXCEPT !.deps = d]
    BY <1>3
  <2>2. PICK k, pin : nodes[i] = LockNode(k, pin.name, pin.version, pin.integrity)
    BY <1>2
  <2> QED BY <2>1, <2>2 DEF LockNode
<1>5. Wired(g, nodes)
  BY <1>3, <1>4 DEF Wired
<1>6. IsWired(g)
  BY <1>1, <1>3, <1>4, TuplesIsSeq DEF IsWired
<1> QED BY <1>5, <1>6, WiredIs DEF nodes

\* A node that was given no dependencies.
LEMMA UnchangedNode ==
  ASSUME NEW pins, IsSeq(pins), NEW i \in 1..Len(Inserted(pins))
  PROVE  [Inserted(pins)[i] EXCEPT !.deps = <<>>] = Inserted(pins)[i]
PROOF
<1>1. PICK k, pin : Inserted(pins)[i] = LockNode(k, pin.name, pin.version, pin.integrity)
  BY InsertedNodes
<1> QED BY <1>1 DEF LockNode

LEMMA YarnNameIs ==
  ASSUME NEW e, IsSeq(e.aliases), \A a \in Range(e.aliases) : a.name \in Nat \cup {None}
  PROVE  /\ AliasesOf(e) = {} => YarnName(e) = None
         /\ AliasesOf(e) # {} => YarnName(e) = FirstAlias(e) /\ YarnName(e) \in Nat
PROOF
<1> DEFINE K == AliasesOf(e)
           s == e.aliases
<1>1. s \in Seq(Range(s)) /\ K \in SUBSET DOMAIN s /\ DOMAIN s = 1..Len(s) /\ Len(s) \in Nat
  BY SeqIs DEF IsSeq, AliasesOf
<1>2. YarnName(e) = IF Picked(s, K) = <<>> THEN None ELSE Picked(s, K)[1].name
  BY DEF YarnName, Only, AliasesOf
<1>3. \A i \in K : s[i].name \in Nat
  BY DEF AliasesOf, Range
<1>4. FirstAlias(e) = s[Min(K)].name
  BY DEF FirstAlias
<1> HIDE DEF s, K
<1>5. K \in SUBSET Nat /\ IsFiniteSet(K)
  <2>1. K \in SUBSET (1..Len(s)) /\ 1 \in Int /\ Len(s) \in Int
    BY <1>1
  <2>2. IsFiniteSet(1..Len(s))
    BY <2>1, FS_Interval
  <2>3. IsFiniteSet(K)
    BY <2>1, <2>2, FS_Subset
  <2> QED BY <2>1, <2>3
<1>6. /\ Picked(s, K) \in Seq(Range(s)) /\ DOMAIN Picked(s, K) = 1..Cardinality(K)
      /\ \A n \in DOMAIN Picked(s, K) : Nth(K, n) \in K /\ Picked(s, K)[n] = s[Nth(K, n)]
  BY <1>1, PickedInOrder
<1>7. /\ Cardinality(K) \in Nat
      /\ \A i \in K : \E n \in 1..Cardinality(K) : Nth(K, n) = i
      /\ \A n \in 1..Cardinality(K) : Nth(K, n) \in K
      /\ \A m, n \in 1..Cardinality(K) : m < n => Nth(K, m) < Nth(K, n)
  BY <1>5, NthIsInOrder
<1>8. CASE K = {}
  <2>1. Cardinality(K) = 0
    BY <1>8, FS_EmptySet
  <2>2. Picked(s, K) = <<>>
    BY <1>6, <2>1
  <2> QED BY <1>2, <1>8, <2>2 DEF K
<1>9. CASE K # {}
  <2>1. Min(K) \in K /\ \A j \in K : Min(K) <= j
    BY <1>5, <1>9, MinOfNaturals
  <2>2. PICK n \in 1..Cardinality(K) : Nth(K, n) = Min(K)
    BY <1>7, <2>1
  <2>3. 1 \in 1..Cardinality(K)
    BY <1>7
  <2>4. Min(K) \in Nat /\ Nth(K, 1) \in Nat /\ Min(K) <= Nth(K, 1) /\ Nth(K, 1) \in K
    BY <1>5, <1>7, <2>1, <2>3
  <2>5. ~(1 < n)
    <3>1. 1 < n => Nth(K, 1) < Min(K)
      BY <1>7, <2>2, <2>3
    <3> QED BY <2>4, <3>1
  <2>6. n = 1
    BY <2>5
  <2>7. Picked(s, K) # <<>> /\ Picked(s, K)[1] = s[Min(K)]
    <3>1. 1 \in DOMAIN Picked(s, K) /\ DOMAIN <<>> = 1..0 /\ 1 \notin 1..0
      BY <1>6, <2>3
    <3>2. Picked(s, K)[1] = s[Nth(K, 1)]
      BY <1>6, <3>1
    <3> QED BY <2>2, <2>6, <3>1, <3>2
  <2> QED BY <1>2, <1>3, <1>4, <1>9, <2>1, <2>7 DEF K
<1> QED BY <1>8, <1>9

LEMMA YarnTells ==
  ASSUME NEW lock, IsLockfile(lock), lock.format = "yarn"
  PROVE  Tells(YarnGraph(lock.text), lock) /\ IsWired(YarnGraph(lock.text))
PROOF
<1> DEFINE s == lock.text
           K == {i \in DOMAIN s : YarnName(s[i]) # None /\ s[i].version # NoVersion}
           usable == Picked(s, K)
           PinFor(e) == Pin(YarnName(e), e.version, PickIntegrity(e))
           pins == [i \in DOMAIN usable |-> PinFor(usable[i])]
           nodes == Inserted(pins)
           g == [i \in DOMAIN nodes |->
                   IF i = 1 THEN nodes[1]
                   ELSE [nodes[i] EXCEPT !.deps = FirstOf(nodes, usable[i - 1].deps)]]
<1>1. YarnGraph(lock.text) = g
  BY DEF YarnGraph, YarnUsable, Only
<1>2. /\ IsSeq(s)
      /\ \A e \in Range(s) : /\ IsSeq(e.aliases) /\ \A a \in Range(e.aliases) : a.name \in Nat \cup {None}
                             /\ e.version \in Versions /\ IsSeq(e.deps)
  BY DEF IsLockfile, IsEntry
<1>3. IsSeq(usable) /\ Range(usable) = {s[i] : i \in K}
  <2>1. K \in SUBSET DOMAIN s
    OBVIOUS
  <2> HIDE DEF K
  <2> QED BY <1>2, <2>1, PickedIs
<1>4. Range(usable) = {e \in Range(s) : YarnName(e) # None /\ e.version # NoVersion}
  BY <1>3 DEF Range
<1>5. Locked(lock) = {<<FirstAlias(e), e.version, PickIntegrity(e)>> :
                        e \in {z \in Range(s) : AliasesOf(z) # {}}}
  BY DEF Locked
<1> HIDE DEF usable, s, K
<1>6. DOMAIN usable = 1..Len(usable) /\ Len(usable) \in Nat
  BY <1>3, SeqIs
<1>7. IsSeq(pins) /\ Len(pins) = Len(usable)
  <2>1. Tuples(pins, Len(usable))
    BY <1>6 DEF Tuples
  <2> HIDE DEF pins
  <2> QED BY <1>6, <2>1, TuplesIsSeq
<1>8. Range(pins) = {PinFor(e) : e \in Range(usable)}
  BY DEF Range
<1>9. \A e : /\ PinFor(e).name = YarnName(e) /\ PinFor(e).version = e.version
             /\ PinOf(PinFor(e)) = <<YarnName(e), e.version, PickIntegrity(e)>>
  BY DEF Pin, PinOf
<1> HIDE DEF PinFor, pins
<1>10. \A e \in Range(s) : /\ AliasesOf(e) = {} => YarnName(e) = None
                           /\ AliasesOf(e) # {} => YarnName(e) = FirstAlias(e) /\ YarnName(e) \in Nat
  BY <1>2, YarnNameIs
<1>11. \A p \in Range(pins) : IsNamed(p)
  BY <1>2, <1>4, <1>8, <1>9, <1>10 DEF IsNamed, Versions
<1>12. IsSeq(nodes) /\ Len(nodes) = Len(usable) + 1 /\ DOMAIN nodes = 1..Len(nodes)
  BY <1>7, InsertedIs, SeqIs
<1>13. ASSUME NEW i \in 1..Len(nodes) PROVE \E d : GoodDeps(d) /\ g[i] = [nodes[i] EXCEPT !.deps = d]
  <2>1. CASE i = 1
    <3>1. g[i] = nodes[i]
      BY <1>12, <2>1
    <3>2. [nodes[i] EXCEPT !.deps = <<>>] = nodes[i]
      BY <1>7, UnchangedNode
    <3> HIDE DEF g, nodes
    <3> QED BY <3>1, <3>2, NoDeps
  <2>2. CASE i # 1
    <3>1. i - 1 \in DOMAIN usable
      BY <1>6, <1>12, <2>2
    <3>2. usable[i - 1] \in Range(s)
      BY <1>4, <3>1 DEF Range
    <3>3. GoodDeps(FirstOf(nodes, usable[i - 1].deps))
      BY <1>2, <3>2, FirstOfDeps
    <3>4. g[i] = [nodes[i] EXCEPT !.deps = FirstOf(nodes, usable[i - 1].deps)]
      BY <1>12, <2>2
    <3> HIDE DEF g, nodes
    <3> QED BY <3>3, <3>4
  <2> QED BY <2>1, <2>2
<1>14. Given(g, nodes)
  <2>1. Tuples(g, Len(nodes))
    BY <1>12 DEF Tuples
  <2> HIDE DEF g, nodes
  <2> QED BY <1>13, <2>1 DEF Given
<1> HIDE DEF g
<1>15. IsWired(g) /\ IsGraph(Packages(g)) /\ ArtifactsOf(Packages(g)) = Pins(Range(pins))
  BY <1>7, <1>11, <1>14, GivenIs
<1>16. Pins(Range(pins)) = Pinned(lock)
  <2> DEFINE P(e) == <<YarnName(e), e.version, PickIntegrity(e)>>
             A(e) == <<FirstAlias(e), e.version, PickIntegrity(e)>>
             E == {z \in Range(s) : AliasesOf(z) # {}}
  <2>1. Pins(Range(pins)) = {P(e) : e \in Range(usable)}
    <3>1. \A e \in Range(usable) : PinOf(PinFor(e)) = P(e) /\ PinFor(e).version # NoVersion
      BY <1>4, <1>9
    <3> HIDE DEF P
    <3> QED BY <1>8, <3>1 DEF Pins
  <2>2. \A e \in E : P(e) = A(e) /\ A(e)[2] = e.version
    BY <1>10
  <2>3. Range(usable) = {e \in E : e.version # NoVersion}
    <3>1. None \notin Nat
      BY CoerceAssumption
    <3> QED BY <1>4, <1>10, <3>1
  <2>4. Pinned(lock) = {a \in {A(e) : e \in E} : a[2] # NoVersion}
    BY <1>5 DEF Pinned
  <2> HIDE DEF P, A, E
  <2> QED BY <2>1, <2>2, <2>3, <2>4
<1> QED BY <1>1, <1>15, <1>16 DEF Tells

LEMMA RequirementsTell ==
  ASSUME NEW lock, IsLockfile(lock), lock.format = "requirements"
  PROVE  Tells(RequirementsGraph(lock.text), lock) /\ IsWired(RequirementsGraph(lock.text))
PROOF
<1> DEFINE s == lock.text
           K == {i \in DOMAIN s : s[i].kind = "requirement"}
           reqs == Picked(s, K)
           PinFor(l) == Pin(Canonical[l.name], PinnedVersion(l), FirstHash(l.hashes))
           pins == [i \in DOMAIN reqs |-> PinFor(reqs[i])]
           nodes == Inserted(pins)
           keys == [i \in DOMAIN reqs |-> nodes[i + 1].key]
           g == [nodes EXCEPT ![1].deps = Deduped(keys)]
<1>1. RequirementsGraph(lock.text) = g
  BY DEF RequirementsGraph, Only
<1>2. /\ IsSeq(s)
      /\ \A l \in Range(s) : l.kind = "requirement" => l.name \in DOMAIN Canonical /\ l.version \in Versions
  BY DEF IsLockfile, IsEntry
<1>3. IsSeq(reqs) /\ Range(reqs) = {s[i] : i \in K}
  <2>1. K \in SUBSET DOMAIN s
    OBVIOUS
  <2> HIDE DEF K
  <2> QED BY <1>2, <2>1, PickedIs
<1>4. Range(reqs) = {l \in Range(s) : l.kind = "requirement"}
  BY <1>3 DEF Range
<1>5. Locked(lock) = {<<Canonical[l.name], l.version, FirstHash(l.hashes)>> :
                        l \in {z \in Range(s) : z.kind = "requirement" /\ z.op = "=="}}
  BY DEF Locked
<1> HIDE DEF reqs, s, K
<1>6. DOMAIN reqs = 1..Len(reqs) /\ Len(reqs) \in Nat
  BY <1>3, SeqIs
<1>7. IsSeq(pins) /\ Len(pins) = Len(reqs)
  <2>1. Tuples(pins, Len(reqs))
    BY <1>6 DEF Tuples
  <2> HIDE DEF pins
  <2> QED BY <1>6, <2>1, TuplesIsSeq
<1>8. Range(pins) = {PinFor(e) : e \in Range(reqs)}
  BY DEF Range
<1>9. \A e : /\ PinFor(e).name = Canonical[e.name] /\ PinFor(e).version = PinnedVersion(e)
             /\ PinOf(PinFor(e)) = <<Canonical[e.name], PinnedVersion(e), FirstHash(e.hashes)>>
  BY DEF Pin, PinOf
<1> HIDE DEF PinFor, pins
<1>10. \A e \in Range(reqs) : Canonical[e.name] \in Nat /\ PinnedVersion(e) \in Versions
  BY <1>2, <1>4, NamesAssumption DEF PinnedVersion, Versions
<1>11. \A p \in Range(pins) : IsNamed(p)
  BY <1>8, <1>9, <1>10 DEF IsNamed, Versions
<1>12. IsSeq(nodes) /\ Len(nodes) = Len(reqs) + 1 /\ DOMAIN nodes = 1..Len(nodes)
  BY <1>7, InsertedIs, SeqIs
<1>13. GoodDeps(Deduped(keys))
  <2>1. Tuples(keys, Len(reqs))
    BY <1>6 DEF Tuples
  <2> HIDE DEF keys
  <2> QED BY <1>6, <2>1, TuplesIsSeq, DedupedDeps
<1> HIDE DEF keys
<1>14. ASSUME NEW i \in 1..Len(nodes) PROVE \E d : GoodDeps(d) /\ g[i] = [nodes[i] EXCEPT !.deps = d]
  <2>1. CASE i = 1
    <3>1. g[i] = [nodes[i] EXCEPT !.deps = Deduped(keys)]
      BY <1>12, <2>1
    <3> HIDE DEF g, nodes
    <3> QED BY <1>13, <3>1
  <2>2. CASE i # 1
    <3>1. g[i] = nodes[i]
      BY <1>12, <2>2
    <3>2. [nodes[i] EXCEPT !.deps = <<>>] = nodes[i]
      BY <1>7, UnchangedNode
    <3> HIDE DEF g, nodes
    <3> QED BY <3>1, <3>2, NoDeps
  <2> QED BY <2>1, <2>2
<1>15. Given(g, nodes)
  <2>1. Tuples(g, Len(nodes))
    <3>1. nodes = [i \in 1..Len(nodes) |-> nodes[i]]
      BY <1>12, SeqIs
    <3> HIDE DEF nodes
    <3> QED BY <3>1 DEF Tuples
  <2> HIDE DEF g, nodes
  <2> QED BY <1>14, <2>1 DEF Given
<1> HIDE DEF g
<1>16. IsWired(g) /\ IsGraph(Packages(g)) /\ ArtifactsOf(Packages(g)) = Pins(Range(pins))
  BY <1>7, <1>11, <1>15, GivenIs
<1>17. Pins(Range(pins)) = Pinned(lock)
  <2> DEFINE P(e) == <<Canonical[e.name], PinnedVersion(e), FirstHash(e.hashes)>>
             A(e) == <<Canonical[e.name], e.version, FirstHash(e.hashes)>>
             E == {z \in Range(s) : z.kind = "requirement" /\ z.op = "=="}
             U == {e \in Range(reqs) : PinnedVersion(e) # NoVersion}
  <2>1. Pins(Range(pins)) = {P(e) : e \in U}
    <3>1. \A e \in Range(reqs) : PinOf(PinFor(e)) = P(e) /\ PinFor(e).version = PinnedVersion(e)
      BY <1>9
    <3> HIDE DEF P
    <3> QED BY <1>8, <3>1 DEF Pins
  <2>2. \A e \in U : P(e) = A(e) /\ e \in E
    BY <1>4 DEF PinnedVersion
  <2>3. U = {e \in E : e.version # NoVersion}
    BY <1>4 DEF PinnedVersion
  <2>4. Pinned(lock) = {a \in {A(e) : e \in E} : a[2] # NoVersion} /\ \A e : A(e)[2] = e.version
    BY <1>5 DEF Pinned
  <2> HIDE DEF P, A, E, U
  <2> QED BY <2>1, <2>2, <2>3, <2>4
<1> QED BY <1>1, <1>16, <1>17 DEF Tells

LEMMA PnpmTells ==
  ASSUME NEW lock, IsLockfile(lock), lock.format = "pnpm"
  PROVE  Tells(PnpmGraph(lock.root, lock.text), lock) /\ IsWired(PnpmGraph(lock.root, lock.text))
PROOF
<1> DEFINE s == lock.text
           K == {i \in DOMAIN s : s[i].name # None}
           named == Picked(s, K)
           PinFor(e) == Pin(Lower[e.name], e.version, e.integrity)
           pins == [i \in DOMAIN named |-> PinFor(named[i])]
           nodes == Inserted(pins)
           parts(n) == [i \in DOMAIN s |-> IF s[i].name # None /\ Lower[s[i].name] = n.name
                                           THEN s[i].deps ELSE <<>>]
           deps(n) == CASE n.key = Root -> FirstOf(nodes, Deduped(lock.root))
                        [] n.key # Root /\ n.key = ByName(nodes, n.name)[1] ->
                             FirstOf(nodes, FlattenSeq(parts(n)))
                        [] OTHER -> <<>>
           g == [i \in DOMAIN nodes |-> [nodes[i] EXCEPT !.deps = deps(nodes[i])]]
<1>1. PnpmGraph(lock.root, lock.text) = g
  BY DEF PnpmGraph, PnpmNodes, Only
<1>2. /\ IsSeq(s) /\ IsSeq(lock.root)
      /\ \A e \in Range(s) : e.name \in DOMAIN Lower \cup {None} /\ e.version \in Versions /\ IsSeq(e.deps)
  BY DEF IsLockfile, IsEntry
<1>3. IsSeq(named) /\ Range(named) = {s[i] : i \in K}
  <2>1. K \in SUBSET DOMAIN s
    OBVIOUS
  <2> HIDE DEF K
  <2> QED BY <1>2, <2>1, PickedIs
<1>4. Range(named) = {e \in Range(s) : e.name # None}
  BY <1>3 DEF Range
<1>5. Locked(lock) = {<<Lower[e.name], e.version, e.integrity>> : e \in {z \in Range(s) : z.name # None}}
  BY DEF Locked
<1>6. ASSUME NEW n PROVE IsSeq(FlattenSeq(parts(n)))
  <2>1. DOMAIN s = 1..Len(s) /\ Len(s) \in Nat
    BY <1>2, SeqIs
  <2>2. Tuples(parts(n), Len(s))
    BY <2>1 DEF Tuples
  <2>3. \A i \in 1..Len(s) : IsSeq(parts(n)[i])
    BY <1>2, <2>1, SmallSeqs DEF Range
  <2> HIDE DEF parts
  <2>4. IsSeq(parts(n)) /\ Len(parts(n)) = Len(s)
    BY <2>1, <2>2, TuplesIsSeq
  <2> QED BY <2>3, <2>4, FlattenedIs
<1> HIDE DEF named, s, K, parts
<1>7. DOMAIN named = 1..Len(named) /\ Len(named) \in Nat
  BY <1>3, SeqIs
<1>8. IsSeq(pins) /\ Len(pins) = Len(named)
  <2>1. Tuples(pins, Len(named))
    BY <1>7 DEF Tuples
  <2> HIDE DEF pins
  <2> QED BY <1>7, <2>1, TuplesIsSeq
<1>9. Range(pins) = {PinFor(e) : e \in Range(named)}
  BY DEF Range
<1>10. \A e : /\ PinFor(e).name = Lower[e.name] /\ PinFor(e).version = e.version
              /\ PinOf(PinFor(e)) = <<Lower[e.name], e.version, e.integrity>>
  BY DEF Pin, PinOf
<1> HIDE DEF PinFor, pins
<1>11. \A p \in Range(pins) : IsNamed(p)
  <2>1. \A e \in Range(named) : Lower[e.name] \in Nat /\ e.version \in Versions
    BY <1>2, <1>4, NamesAssumption
  <2> QED BY <1>9, <1>10, <2>1 DEF IsNamed, Versions
<1>12. IsSeq(nodes) /\ DOMAIN nodes = 1..Len(nodes)
  BY <1>8, InsertedIs, SeqIs
<1> HIDE DEF nodes
<1>13. ASSUME NEW n PROVE GoodDeps(deps(n))
  <2>1. GoodDeps(FirstOf(nodes, Deduped(lock.root)))
    BY <1>2, DedupedDeps, FirstOfDeps
  <2>2. GoodDeps(FirstOf(nodes, FlattenSeq(parts(n))))
    BY <1>6, FirstOfDeps
  <2>3. \/ deps(n) = FirstOf(nodes, Deduped(lock.root))
        \/ deps(n) = FirstOf(nodes, FlattenSeq(parts(n)))
        \/ deps(n) = <<>>
    OBVIOUS
  <2> HIDE DEF deps
  <2> QED BY <2>1, <2>2, <2>3, NoDeps
<1> HIDE DEF deps
<1>14. Given(g, nodes)
  <2>1. Tuples(g, Len(nodes))
    BY <1>12 DEF Tuples
  <2>2. \A i \in 1..Len(nodes) : g[i] = [nodes[i] EXCEPT !.deps = deps(nodes[i])]
    BY <1>12
  <2> HIDE DEF g
  <2> QED BY <1>13, <2>1, <2>2 DEF Given
<1> HIDE DEF g
<1>15. IsWired(g) /\ IsGraph(Packages(g)) /\ ArtifactsOf(Packages(g)) = Pins(Range(pins))
  BY <1>8, <1>11, <1>14, GivenIs DEF nodes
<1>16. Pins(Range(pins)) = Pinned(lock)
  <2> DEFINE P(e) == <<Lower[e.name], e.version, e.integrity>>
  <2>1. Pins(Range(pins)) = {P(e) : e \in {z \in Range(named) : z.version # NoVersion}}
    <3>1. \A e : PinOf(PinFor(e)) = P(e) /\ PinFor(e).version = e.version
      BY <1>10
    <3> HIDE DEF P
    <3> QED BY <1>9, <3>1 DEF Pins
  <2>2. Pinned(lock) = {a \in {P(e) : e \in Range(named)} : a[2] # NoVersion} /\ \A e : P(e)[2] = e.version
    BY <1>4, <1>5 DEF Pinned
  <2> HIDE DEF P
  <2> QED BY <2>1, <2>2
<1> QED BY <1>1, <1>15, <1>16 DEF Tells

-----------------------------------------------------------------------------
(* What collapseMultilineValues leaves of the lines of a package.          *)

LEMMA AppendIsThe ==
  ASSUME NEW t, IsSeq(t), NEW u, IsSeq(u), Len(t) = Len(u) + 1, \A i \in 1..Len(u) : t[i] = u[i]
  PROVE  t = Append(u, t[Len(u) + 1])
PROOF
<1> DEFINE w == Append(u, t[Len(u) + 1])
<1>1. IsSeq(w) /\ Len(w) = Len(u) + 1 /\ w[Len(u) + 1] = t[Len(u) + 1] /\ \A n \in 1..Len(u) : w[n] = u[n]
  BY AppendedIs
<1> HIDE DEF w
<1>2. Len(u) \in Nat /\ t = [i \in 1..(Len(u) + 1) |-> t[i]] /\ w = [i \in 1..(Len(u) + 1) |-> w[i]]
  BY <1>1, SeqIs
<1>3. ASSUME NEW i \in 1..(Len(u) + 1) PROVE t[i] = w[i]
  <2>1. i = Len(u) + 1 \/ i \in 1..Len(u)
    BY <1>2
  <2> QED BY <1>1, <2>1
<1>4. t = w
  BY <1>2, <1>3
<1> QED BY <1>4 DEF w

\* Nothing is open; the lines b, read then, leave the lines c.
Plain(o) == [out |-> o, depth |-> 0]
Collapses(b, c) ==
  IsSeq(b) /\ IsSeq(c) /\ \A o : IsSeq(o) => Joined(Plain(o), b) = Plain(o \o c)

LEMMA CollapseBoth ==
  ASSUME NEW b, NEW c, Collapses(b, c), NEW d, NEW e, Collapses(d, e)
  PROVE  Collapses(b \o d, c \o e)
PROOF
<1>1. IsSeq(b) /\ IsSeq(c) /\ IsSeq(d) /\ IsSeq(e) /\ IsSeq(b \o d) /\ IsSeq(c \o e)
  BY ConcatIs DEF Collapses
<1>2. ASSUME NEW o, IsSeq(o) PROVE Joined(Plain(o), b \o d) = Plain(o \o (c \o e))
  <2>1. Joined(Plain(o), b \o d) = Joined(Joined(Plain(o), b), d)
    BY <1>1, JoinedConcat
  <2>2. Joined(Plain(o), b) = Plain(o \o c) /\ IsSeq(o \o c)
    BY <1>1, <1>2, ConcatIs DEF Collapses
  <2>3. Joined(Plain(o \o c), d) = Plain((o \o c) \o e)
    BY <2>2 DEF Collapses
  <2>4. (o \o c) \o e = o \o (c \o e)
    <3>1. IsSeq(c) /\ IsSeq(e)
      BY DEF Collapses
    <3> QED BY <1>2, <3>1, ConcatAssoc
  <2> QED BY <2>1, <2>2, <2>3, <2>4
<1> QED BY <1>1, <1>2 DEF Collapses

LEMMA CollapseNothing == Collapses(<<>>, <<>>)
PROOF
<1>1. ASSUME NEW o, IsSeq(o) PROVE Joined(Plain(o), <<>>) = Plain(o \o <<>>)
  <2>1. Joined(Plain(o), <<>>) = Plain(o)
    BY SmallSeqs, JoinedMore
  <2>2. o \o <<>> = o
    BY <1>1, SmallSeqs, ConcatIs
  <2> QED BY <2>1, <2>2
<1> QED BY <1>1, SmallSeqs DEF Collapses

LEMMA JoinedOne ==
  ASSUME NEW start, NEW l
  PROVE  Joined(start, <<l>>) = JoinLine(start, l)
PROOF
<1>1. /\ Joined(start, <<>>) = start
      /\ Joined(start, Append(<<>>, l)) = JoinLine(Joined(start, <<>>), l)
  BY SmallSeqs, JoinedMore
<1>2. Append(<<>>, l) = <<l>>
  OBVIOUS
<1> QED BY <1>1, <1>2

LEMMA CollapseLine ==
  ASSUME NEW l, l.depth = 0
  PROVE  Collapses(<<l>>, <<l>>)
PROOF
<1>1. ASSUME NEW o, IsSeq(o) PROVE Joined(Plain(o), <<l>>) = Plain(o \o <<l>>)
  <2>1. JoinLine(Plain(o), l) = Plain(Append(o, l))
    BY DEF JoinLine, Plain
  <2>2. o \o <<l>> = Append(o, l)
    BY <1>1, SmallSeqs, ConcatIs
  <2> QED BY <2>1, <2>2, JoinedOne
<1> QED BY <1>1, SmallSeqs DEF Collapses

LEMMA CollapseLines ==
  ASSUME NEW b, IsSeq(b), \A i \in 1..Len(b) : b[i].depth = 0
  PROVE  Collapses(b, b)
PROOF
<1> DEFINE Good(u) == (\A i \in 1..Len(u) : u[i].depth = 0) => Collapses(u, u)
           Bad == {n \in Nat : \E u : IsSeq(u) /\ Len(u) = n /\ ~Good(u)}
<1>1. SUFFICES ASSUME ~Good(b) PROVE FALSE
  OBVIOUS
<1>2. Len(b) \in Bad
  BY <1>1, SeqIs
<1>3. PICK n \in Bad : \A m \in Bad : n <= m
  <2>1. Bad \in SUBSET Nat
    OBVIOUS
  <2> HIDE DEF Bad
  <2> QED BY <1>2, <2>1, LeastNatural
<1>4. PICK u : IsSeq(u) /\ Len(u) = n /\ ~Good(u)
  OBVIOUS
<1>5. CASE Len(u) = 0
  BY <1>4, <1>5, SeqIs, CollapseNothing
<1>6. CASE Len(u) # 0
  <2>1. PICK v, x : IsSeq(v) /\ u = Append(v, x) /\ Len(u) = Len(v) + 1 /\ Len(v) \in Nat
    BY <1>4, <1>6, SplitAtLast
  <2>2. Good(v)
    <3>1. Len(v) \in Nat /\ ~(n <= Len(v))
      BY <1>4, <2>1
    <3> HIDE DEF Good
    <3>2. Len(v) \notin Bad
      <4> HIDE DEF Bad
      <4> QED BY <1>3, <3>1
    <3> QED BY <2>1, <3>1, <3>2
  <2>3. u[Len(v) + 1] = x /\ \A i \in 1..Len(v) : u[i] = v[i]
    BY <2>1, AppendedIs
  <2>4. \A i \in 1..Len(u) : u[i].depth = 0
    BY <1>4
  <2>5. x.depth = 0 /\ \A i \in 1..Len(v) : v[i].depth = 0
    <3>1. Len(v) + 1 \in 1..Len(u) /\ \A i \in 1..Len(v) : i \in 1..Len(u)
      BY <2>1
    <3> QED BY <2>3, <2>4, <3>1
  <2>6. Collapses(v, v) /\ Collapses(<<x>>, <<x>>)
    BY <2>2, <2>5, CollapseLine
  <2>7. u = v \o <<x>>
    BY <2>1, SmallSeqs, ConcatIs
  <2>8. Collapses(u, u)
    BY <2>6, <2>7, CollapseBoth
  <2> QED BY <1>4, <2>8
<1> QED BY <1>5, <1>6

\* A key whose list was written over several lines.
Line(key, values) == [kind |-> "pair", key |-> key, value |-> List(values), depth |-> 1]
Opened(o, key, values) == [out |-> Append(o, Line(key, values)), depth |-> 1]

LEMMA JoinRest ==
  ASSUME NEW o, IsSeq(o), NEW key, NEW vs, NEW w, NEW d \in Int
  PROVE  JoinLine(Opened(o, key, vs), [kind |-> "rest", value |-> List(w), depth |-> d])
           = [out |-> Append(o, Line(key, vs \o w)), depth |-> 1 + d]
PROOF
<1> DEFINE a == Append(o, Line(key, vs))
           b == Append(o, Line(key, vs \o w))
           c == [a EXCEPT ![Len(a)].value.l = @ \o w]
<1>1. /\ IsSeq(a) /\ Len(a) = Len(o) + 1 /\ a[Len(o) + 1] = Line(key, vs)
      /\ \A n \in 1..Len(o) : a[n] = o[n]
  BY AppendedIs
<1>2. /\ IsSeq(b) /\ Len(b) = Len(o) + 1 /\ b[Len(o) + 1] = Line(key, vs \o w)
      /\ \A n \in 1..Len(o) : b[n] = o[n]
  BY AppendedIs
<1> HIDE DEF a, b
<1>3. JoinLine(Opened(o, key, vs), [kind |-> "rest", value |-> List(w), depth |-> d])
        = [out |-> c, depth |-> 1 + d]
  <2> DEFINE j == [out |-> a, depth |-> 1]
             l == [kind |-> "rest", value |-> List(w), depth |-> d]
  <2>1. Opened(o, key, vs) = j
    BY DEF Opened, a
  <2>2. j.out = a /\ j.depth = 1 /\ l.depth = d
    OBVIOUS
  <2>3. l.value.l = w
    BY DEF List
  <2> HIDE DEF j, l
  <2>4. JoinLine(j, l) = [out |-> [j.out EXCEPT ![Len(j.out)].value.l = @ \o l.value.l],
                          depth |-> j.depth + l.depth]
    BY <2>2 DEF JoinLine
  <2> QED BY <2>1, <2>2, <2>3, <2>4 DEF l
<1>4. Len(o) \in Nat /\ DOMAIN a = 1..(Len(o) + 1) /\ b = [i \in 1..(Len(o) + 1) |-> b[i]]
  BY <1>1, <1>2, SeqIs
<1>5. [Line(key, vs) EXCEPT !.value.l = @ \o w] = Line(key, vs \o w)
  <2> DEFINE r == Line(key, vs)
             x == vs \o w
  <2>1. r.value = List(vs) /\ r.value.l = vs
    BY DEF Line, List
  <2> HIDE DEF x
  <2>2. [List(vs) EXCEPT !.l = x] = List(x)
    BY DEF List
  <2>3. [r EXCEPT !.value = List(x)] = Line(key, x)
    BY DEF Line
  <2>4. [r EXCEPT !.value.l = x] = [r EXCEPT !.value = [r.value EXCEPT !.l = x]]
    OBVIOUS
  <2> HIDE DEF r
  <2>5. [r EXCEPT !.value.l = @ \o w] = [r EXCEPT !.value.l = x]
    BY <2>1 DEF x
  <2>6. [r EXCEPT !.value.l = @ \o w] = Line(key, x)
    BY <2>1, <2>2, <2>3, <2>4, <2>5
  <2> QED BY <2>6 DEF r, x
<1>6. c = [i \in 1..(Len(o) + 1) |-> c[i]]
  BY <1>4
<1>7. ASSUME NEW i \in 1..(Len(o) + 1) PROVE c[i] = b[i]
  <2>1. CASE i = Len(o) + 1
    <3>1. c[i] = [a[i] EXCEPT !.value.l = @ \o w]
      BY <1>1, <1>4, <2>1
    <3> QED BY <1>1, <1>2, <1>5, <2>1, <3>1
  <2>2. CASE i # Len(o) + 1
    <3>1. c[i] = a[i] /\ i \in 1..Len(o)
      BY <1>1, <1>4, <2>2
    <3> QED BY <1>1, <1>2, <3>1
  <2> QED BY <2>1, <2>2
<1> HIDE DEF c
<1>8. c = b
  BY <1>4, <1>6, <1>7
<1> QED BY <1>3, <1>8 DEF b

\* The lines after the opening bracket.
Rests(values) == [i \in DOMAIN values |-> Item(values[i])]

LEMMA RestsAre ==
  ASSUME NEW values, IsSeq(values)
  PROVE  IsSeq(Rests(values)) /\ Len(Rests(values)) = Len(values)
PROOF
<1>1. DOMAIN values = 1..Len(values) /\ Len(values) \in Nat
  BY SeqIs
<1>2. Tuples(Rests(values), Len(values))
  BY <1>1 DEF Tuples, Rests
<1> QED BY <1>1, <1>2, TuplesIsSeq

LEMMA JoinRests ==
  ASSUME NEW o, IsSeq(o), NEW key, NEW values, IsSeq(values)
  PROVE  Joined(Opened(o, key, <<>>), Rests(values)) = Opened(o, key, values)
PROOF
<1> DEFINE Good(u) == Joined(Opened(o, key, <<>>), Rests(u)) = Opened(o, key, u)
           Bad == {n \in Nat : \E u : IsSeq(u) /\ Len(u) = n /\ ~Good(u)}
<1>1. SUFFICES ASSUME ~Good(values) PROVE FALSE
  OBVIOUS
<1>2. Len(values) \in Bad
  BY <1>1, SeqIs
<1>3. PICK n \in Bad : \A m \in Bad : n <= m
  <2>1. Bad \in SUBSET Nat
    OBVIOUS
  <2> HIDE DEF Bad
  <2> QED BY <1>2, <2>1, LeastNatural
<1>4. PICK u : IsSeq(u) /\ Len(u) = n /\ ~Good(u)
  OBVIOUS
<1>5. CASE Len(u) = 0
  <2>1. u = <<>>
    BY <1>4, <1>5, SeqIs
  <2>2. Rests(<<>>) = <<>>
    BY DEF Rests
  <2>3. Joined(Opened(o, key, <<>>), <<>>) = Opened(o, key, <<>>)
    BY SmallSeqs, JoinedMore
  <2> QED BY <1>4, <2>1, <2>2, <2>3
<1>6. CASE Len(u) # 0
  <2>1. PICK v, x : IsSeq(v) /\ u = Append(v, x) /\ Len(u) = Len(v) + 1 /\ Len(v) \in Nat
    BY <1>4, <1>6, SplitAtLast
  <2>2. Good(v)
    <3>1. Len(v) \in Nat /\ ~(n <= Len(v))
      BY <1>4, <2>1
    <3> HIDE DEF Good
    <3>2. Len(v) \notin Bad
      <4> HIDE DEF Bad
      <4> QED BY <1>3, <3>1
    <3> QED BY <2>1, <3>1, <3>2
  <2>3. Rests(u) = Append(Rests(v), Item(x))
    <3>1. u[Len(v) + 1] = x /\ \A i \in 1..Len(v) : u[i] = v[i]
      BY <2>1, AppendedIs
    <3>2. DOMAIN u = 1..(Len(v) + 1) /\ DOMAIN v = 1..Len(v)
      BY <1>4, <2>1, SeqIs
    <3>3. Rests(u)[Len(v) + 1] = Item(x) /\ \A i \in 1..Len(v) : Rests(u)[i] = Rests(v)[i]
      <4>1. Len(v) + 1 \in DOMAIN u /\ \A i \in 1..Len(v) : i \in DOMAIN u /\ i \in DOMAIN v
        BY <2>1, <3>2
      <4> QED BY <3>1, <4>1 DEF Rests
    <3>4. /\ IsSeq(Rests(u)) /\ Len(Rests(u)) = Len(Rests(v)) + 1
          /\ IsSeq(Rests(v)) /\ Len(Rests(v)) = Len(v)
      BY <1>4, <2>1, RestsAre
    <3>5. \A i \in 1..Len(Rests(v)) : Rests(u)[i] = Rests(v)[i]
      BY <3>3, <3>4
    <3>6. Rests(u) = Append(Rests(v), Rests(u)[Len(Rests(v)) + 1])
      BY <3>4, <3>5, AppendIsThe
    <3> QED BY <3>3, <3>4, <3>6
  <2>4. Joined(Opened(o, key, <<>>), Append(Rests(v), Item(x)))
          = JoinLine(Joined(Opened(o, key, <<>>), Rests(v)), Item(x))
    BY <2>1, RestsAre, JoinedMore
  <2>5. JoinLine(Opened(o, key, v), Item(x)) = Opened(o, key, u)
    <3>1. JoinLine(Opened(o, key, v), [kind |-> "rest", value |-> List(<<x>>), depth |-> 0])
            = [out |-> Append(o, Line(key, v \o <<x>>)), depth |-> 1 + 0]
      BY JoinRest
    <3>2. v \o <<x>> = u
      BY <2>1, SmallSeqs, ConcatIs
    <3>3. 1 + 0 = 1
      OBVIOUS
    <3>4. JoinLine(Opened(o, key, v), Item(x)) = [out |-> Append(o, Line(key, u)), depth |-> 1]
      BY <3>1, <3>2, <3>3 DEF Item
    <3> QED BY <3>4 DEF Opened
  <2> QED BY <1>4, <2>2, <2>3, <2>4, <2>5
<1> QED BY <1>5, <1>6

LEMMA CollapseMultiline ==
  ASSUME NEW key, NEW values, IsSeq(values)
  PROVE  Collapses(Multiline(key, values), <<Line(key, values)>>)
PROOF
<1>1. Multiline(key, values) = (<<Opens(key)>> \o Rests(values)) \o <<Closes>>
  BY DEF Multiline, Rests
<1>2. IsSeq(Rests(values)) /\ IsSeq(<<Opens(key)>>) /\ IsSeq(<<Closes>>)
  BY RestsAre, SmallSeqs
<1>3. IsSeq(<<Opens(key)>> \o Rests(values)) /\ IsSeq(Multiline(key, values))
  BY <1>1, <1>2, ConcatIs
<1>4. ASSUME NEW o, IsSeq(o)
      PROVE  Joined(Plain(o), Multiline(key, values)) = Plain(o \o <<Line(key, values)>>)
  <2>1. Joined(Plain(o), Multiline(key, values))
          = Joined(Joined(Joined(Plain(o), <<Opens(key)>>), Rests(values)), <<Closes>>)
    BY <1>1, <1>2, <1>3, JoinedConcat
  <2>2. Joined(Plain(o), <<Opens(key)>>) = Opened(o, key, <<>>)
    <3>1. JoinLine(Plain(o), Opens(key)) = Opened(o, key, <<>>)
      BY DEF JoinLine, Plain, Opens, Opened, Line
    <3> QED BY <3>1, JoinedOne
  <2>3. Joined(Opened(o, key, <<>>), Rests(values)) = Opened(o, key, values)
    BY <1>4, JoinRests
  <2>4. Joined(Opened(o, key, values), <<Closes>>) = Plain(Append(o, Line(key, values)))
    <3>1. JoinLine(Opened(o, key, values), [kind |-> "rest", value |-> List(<<>>), depth |-> -1])
            = [out |-> Append(o, Line(key, values \o <<>>)), depth |-> 1 + (-1)]
      <4>1. ASSUME NEW d \in Int, NEW w
            PROVE  JoinLine(Opened(o, key, values), [kind |-> "rest", value |-> List(w), depth |-> d])
                     = [out |-> Append(o, Line(key, values \o w)), depth |-> 1 + d]
        BY <1>4, JoinRest
      <4>2. -1 \in Int
        OBVIOUS
      <4> QED BY <4>1, <4>2
    <3>2. values \o <<>> = values /\ 1 + (-1) = 0
      BY ConcatIs, SmallSeqs
    <3> QED BY <3>1, <3>2, JoinedOne DEF Closes, Plain
  <2>5. o \o <<Line(key, values)>> = Append(o, Line(key, values))
    BY <1>4, SmallSeqs, ConcatIs
  <2> QED BY <2>1, <2>2, <2>3, <2>4, <2>5
<1> QED BY <1>3, <1>4, SmallSeqs DEF Collapses

-----------------------------------------------------------------------------
(* A TOML document whose only array of tables is that of the packages.     *)

LEMMA LookupPut ==
  \A m, k, v, j, d : Lookup(Put(m, k, v), j, d) = IF j = k THEN v ELSE Lookup(m, j, d)
PROOF
<1> SUFFICES ASSUME NEW m, NEW k, NEW v, NEW j, NEW d
             PROVE  Lookup(Put(m, k, v), j, d) = IF j = k THEN v ELSE Lookup(m, j, d)
  OBVIOUS
<1> DEFINE p == Put(m, k, v)
<1>1. DOMAIN p = DOMAIN m \cup {k} /\ \A i \in DOMAIN p : p[i] = IF i = k THEN v ELSE m[i]
  BY DEF Put
<1> HIDE DEF p
<1>2. Lookup(p, j, d) = IF j = k THEN v ELSE Lookup(m, j, d)
  BY <1>1 DEF Lookup
<1> QED BY <1>2 DEF p

LEMMA PutTwice == \A m, k, v, w : Put(Put(m, k, v), k, w) = Put(m, k, w)
PROOF
<1> SUFFICES ASSUME NEW m, NEW k, NEW v, NEW w
             PROVE  Put(Put(m, k, v), k, w) = Put(m, k, w)
  OBVIOUS
<1> DEFINE p == Put(m, k, v)
<1>1. DOMAIN p = DOMAIN m \cup {k} /\ \A i \in DOMAIN p : p[i] = IF i = k THEN v ELSE m[i]
  BY DEF Put
<1> HIDE DEF p
<1>2. \A i \in DOMAIN m \cup {k} : (IF i = k THEN w ELSE p[i]) = (IF i = k THEN w ELSE m[i])
  BY <1>1
<1>3. DOMAIN p \cup {k} = DOMAIN m \cup {k}
  BY <1>1
<1>4. Put(p, k, w) = Put(m, k, w)
  BY <1>2, <1>3 DEF Put
<1> QED BY <1>4 DEF p

LEMMA NothingIn == DOMAIN EmptyMap = {} /\ \A k, d : Lookup(EmptyMap, k, d) = d
BY DEF Lookup, EmptyMap

\* A document in which T are the tables of the packages, and one in which t is the
\* table of the package that is being read.
Pkg == <<"package">>
Doc(root, tables, arrays, current) ==
  [root |-> root, tables |-> tables, arrays |-> arrays, current |-> current]
Packed(T) == IF T = <<>> THEN EmptyMap ELSE Put(EmptyMap, Pkg, T)

HoldsPackages(doc, T) == \E r, tb, c : doc = Doc(r, tb, Packed(T), c)
InPackage(doc, T, t, at, path) ==
  \E r, tb : doc = Doc(r, tb, Packed(Append(T, t)), Target(at, path))

LEMMA ReadOne ==
  ASSUME NEW start, NEW l
  PROVE  Read(start, <<l>>) = ReadLine(start, l)
PROOF
<1>1. /\ Read(start, <<>>) = start
      /\ Read(start, Append(<<>>, l)) = ReadLine(Read(start, <<>>), l)
  BY SmallSeqs, ReadMore
<1>2. Append(<<>>, l) = <<l>>
  OBVIOUS
<1> QED BY <1>1, <1>2

LEMMA PackedIs ==
  ASSUME NEW T, IsSeq(T), NEW t
  PROVE  /\ Packed(Append(T, t)) = Put(EmptyMap, Pkg, Append(T, t))
         /\ DOMAIN Packed(Append(T, t)) = {Pkg} /\ Packed(Append(T, t))[Pkg] = Append(T, t)
         /\ \A w : Put(Packed(T), Pkg, Append(T, w)) = Packed(Append(T, w))
         /\ Lookup(Packed(T), Pkg, <<>>) = T
PROOF
<1>1. ASSUME NEW w PROVE Append(T, w) # <<>>
  <2>1. Len(Append(T, w)) = Len(T) + 1 /\ Len(T) \in Nat
    BY AppendedIs, SeqIs
  <2>2. Len(<<>>) = 0
    OBVIOUS
  <2> QED BY <2>1, <2>2
<1>2. \A w : Packed(Append(T, w)) = Put(EmptyMap, Pkg, Append(T, w))
  BY <1>1 DEF Packed
<1>3. \A w : Put(Packed(T), Pkg, Append(T, w)) = Packed(Append(T, w))
  BY <1>2, PutTwice DEF Packed
<1>4. DOMAIN Packed(Append(T, t)) = {Pkg} /\ Packed(Append(T, t))[Pkg] = Append(T, t)
  <2> DEFINE w == Append(T, t)
             p == Put(EmptyMap, Pkg, w)
  <2> HIDE DEF w
  <2>1. DOMAIN p = DOMAIN EmptyMap \cup {Pkg} /\ p[Pkg] = w
    BY DEF Put
  <2>2. DOMAIN p = {Pkg}
    BY <2>1, NothingIn
  <2>3. Packed(w) = p
    BY <1>2 DEF w
  <2> QED BY <2>1, <2>2, <2>3 DEF w
<1>5. Lookup(Packed(T), Pkg, <<>>) = T
  BY LookupPut, NothingIn DEF Packed
<1> QED BY <1>2, <1>3, <1>4, <1>5

LEMMA OpensPackage ==
  ASSUME NEW doc, NEW T, IsSeq(T), HoldsPackages(doc, T)
  PROVE  InPackage(ReadLine(doc, Header("array", Pkg)), T, EmptyMap, "array", Pkg)
PROOF
<1>1. PICK r, tb, c : doc = Doc(r, tb, Packed(T), c)
  BY DEF HoldsPackages
<1>2. ReadLine(doc, Header("array", Pkg)) = OpenArray(doc, Pkg)
  BY DEF ReadLine, Header
<1>3. ~Inside(doc, Pkg)
  BY DEF Inside, Pkg
<1>4. OpenArray(doc, Pkg) =
        [doc EXCEPT !.arrays = Put(@, Pkg, Append(Lookup(@, Pkg, <<>>), EmptyMap)),
                    !.current = Target("array", Pkg)]
  BY <1>3 DEF OpenArray
<1>5. OpenArray(doc, Pkg) = Doc(r, tb, Put(Packed(T), Pkg, Append(Lookup(Packed(T), Pkg, <<>>), EmptyMap)),
                                Target("array", Pkg))
  BY <1>1, <1>4 DEF Doc
<1>6. Put(Packed(T), Pkg, Append(Lookup(Packed(T), Pkg, <<>>), EmptyMap)) = Packed(Append(T, EmptyMap))
  BY PackedIs
<1> QED BY <1>2, <1>5, <1>6 DEF InPackage

LEMMA LastPackage ==
  ASSUME NEW T, IsSeq(T), NEW t, NEW r, NEW tb, NEW c
  PROVE  /\ \A k, v : SetInLast(Doc(r, tb, Packed(Append(T, t)), c), Pkg, k, v)
                        = Doc(r, tb, Packed(Append(T, Put(t, k, v))), c)
         /\ \A f : /\ Owner(<<"package", f>>) = Pkg
                   /\ Inside(Doc(r, tb, Packed(Append(T, t)), c), <<"package", f>>)
                   /\ FieldOfLast(Doc(r, tb, Packed(Append(T, t)), c), <<"package", f>>)
                        = Lookup(t, f, Scalar(None))
PROOF
<1> DEFINE s == Append(T, t)
           A == Packed(s)
           doc == Doc(r, tb, A, c)
<1>1. DOMAIN A = {Pkg} /\ A[Pkg] = s
  BY PackedIs
<1>2. /\ IsSeq(s) /\ Len(s) = Len(T) + 1 /\ s[Len(T) + 1] = t /\ Len(T) \in Nat
      /\ DOMAIN s = 1..(Len(T) + 1) /\ \A n \in 1..Len(T) : s[n] = T[n]
  BY AppendedIs, SeqIs
<1> HIDE DEF s, A
<1>3. doc.arrays = A
  BY DEF Doc
<1>4. ASSUME NEW k, NEW v
      PROVE  SetInLast(doc, Pkg, k, v) = Doc(r, tb, Packed(Append(T, Put(t, k, v))), c)
  <2> DEFINE e  == [s EXCEPT ![Len(s)] = Put(@, k, v)]
             w  == Append(T, Put(t, k, v))
             A2 == [A EXCEPT ![Pkg] = e]
  <2>1. SetInLast(doc, Pkg, k, v) = [doc EXCEPT !.arrays = [A EXCEPT ![Pkg] = [A[Pkg] EXCEPT ![Len(A[Pkg])] = Put(@, k, v)]]]
    <3> HIDE DEF doc
    <3> QED BY <1>3 DEF SetInLast
  <2>2. SetInLast(doc, Pkg, k, v) = [doc EXCEPT !.arrays = A2]
    BY <1>1, <2>1
  <2>3. [doc EXCEPT !.arrays = A2] = Doc(r, tb, A2, c)
    <3> HIDE DEF A2
    <3> QED BY DEF Doc
  <2>4. e = w
    <3>1. /\ IsSeq(w) /\ Len(w) = Len(T) + 1 /\ w[Len(T) + 1] = Put(t, k, v)
          /\ \A n \in 1..Len(T) : w[n] = T[n]
      BY AppendedIs
    <3> HIDE DEF w
    <3>2. w = [i \in 1..(Len(T) + 1) |-> w[i]]
      BY <3>1, SeqIs
    <3>3. e = [i \in 1..(Len(T) + 1) |-> e[i]]
      BY <1>2
    <3>4. ASSUME NEW i \in 1..(Len(T) + 1) PROVE e[i] = w[i]
      <4>1. CASE i = Len(T) + 1
        BY <1>2, <3>1, <4>1
      <4>2. CASE i # Len(T) + 1
        <5>1. i \in 1..Len(T)
          BY <1>2, <4>2
        <5> QED BY <1>2, <3>1, <4>2, <5>1
      <4> QED BY <4>1, <4>2
    <3> HIDE DEF e
    <3> QED BY <3>2, <3>3, <3>4
  <2>5. A2 = Packed(w)
    <3>1. DOMAIN Packed(w) = {Pkg} /\ Packed(w)[Pkg] = w /\ Packed(w) = Put(EmptyMap, Pkg, w)
      BY PackedIs
    <3>2. DOMAIN A2 = {Pkg} /\ A2[Pkg] = e /\ A2 = [x \in {Pkg} |-> A2[x]]
      BY <1>1
    <3>3. Put(EmptyMap, Pkg, w) = [x \in {Pkg} |-> Put(EmptyMap, Pkg, w)[x]]
      BY NothingIn DEF Put
    <3> HIDE DEF A2, e, w
    <3> QED BY <2>4, <3>1, <3>2, <3>3
  <2> QED BY <2>2, <2>3, <2>5
<1>5. ASSUME NEW f
      PROVE  /\ Owner(<<"package", f>>) = Pkg /\ Inside(doc, <<"package", f>>)
             /\ FieldOfLast(doc, <<"package", f>>) = Lookup(t, f, Scalar(None))
  <2>1. Owner(<<"package", f>>) = Pkg /\ Len(<<"package", f>>) > 1 /\ <<"package", f>>[2] = f
    BY DEF Owner, Pkg
  <2> HIDE DEF doc
  <2>2. Inside(doc, <<"package", f>>)
    BY <1>1, <1>3, <2>1 DEF Inside
  <2>3. Last(doc.arrays[Pkg]) = t
    BY <1>1, <1>2, <1>3 DEF Last
  <2> QED BY <2>1, <2>2, <2>3 DEF FieldOfLast
<1> QED BY <1>4, <1>5 DEF s, A

\* The lines of a package, and where they put what they say.
Under(f) == <<"package", f>>

LEMMA SetsField ==
  ASSUME NEW doc, NEW T, IsSeq(T), NEW t, InPackage(doc, T, t, "array", Pkg),
         NEW k, NEW v, NEW l, l.kind = "pair", l.key = k, l.value = v
  PROVE  InPackage(ReadLine(doc, l), T, Put(t, k, v), "array", Pkg)
PROOF
<1>1. PICK r, tb : doc = Doc(r, tb, Packed(Append(T, t)), Target("array", Pkg))
  BY DEF InPackage
<1>2. doc.current.at = "array" /\ doc.current.path = Pkg
  BY <1>1 DEF Doc, Target
<1>3. ReadLine(doc, l) = SetKey(doc, k, v)
  BY DEF ReadLine
<1>4. SetKey(doc, k, v) = SetInLast(doc, Pkg, k, v)
  BY <1>2 DEF SetKey
<1>5. SetInLast(doc, Pkg, k, v) = Doc(r, tb, Packed(Append(T, Put(t, k, v))), Target("array", Pkg))
  BY <1>1, LastPackage
<1> QED BY <1>3, <1>4, <1>5 DEF InPackage

LEMMA OpensSub ==
  ASSUME NEW doc, NEW T, IsSeq(T), NEW t, NEW at, NEW path, InPackage(doc, T, t, at, path), NEW f
  PROVE  InPackage(ReadLine(doc, Header("table", Under(f))), T, Put(t, f, Table(EmptyMap)),
                   "sub", Under(f))
PROOF
<1>1. PICK r, tb : doc = Doc(r, tb, Packed(Append(T, t)), Target(at, path))
  BY DEF InPackage
<1>2. Inside(doc, Under(f)) /\ Owner(Under(f)) = Pkg /\ Under(f)[2] = f
  BY <1>1, LastPackage DEF Under
<1>3. ReadLine(doc, Header("table", Under(f))) = OpenTable(doc, Under(f))
  BY DEF ReadLine, Header
<1> DEFINE d == SetInLast(doc, Pkg, f, Table(EmptyMap))
<1>4. OpenTable(doc, Under(f)) = [d EXCEPT !.current = Target("sub", Under(f))]
  BY <1>2 DEF OpenTable
<1>5. d = Doc(r, tb, Packed(Append(T, Put(t, f, Table(EmptyMap)))), Target(at, path))
  BY <1>1, LastPackage
<1>6. [d EXCEPT !.current = Target("sub", Under(f))]
        = Doc(r, tb, Packed(Append(T, Put(t, f, Table(EmptyMap)))), Target("sub", Under(f)))
  BY <1>5 DEF Doc
<1> QED BY <1>3, <1>4, <1>6 DEF InPackage

LEMMA SetsSub ==
  ASSUME NEW doc, NEW T, IsSeq(T), NEW t, NEW f, InPackage(doc, T, t, "sub", Under(f)),
         NEW u, Lookup(t, f, Scalar(None)) = Table(u),
         NEW k, NEW v, NEW l, l.kind = "pair", l.key = k, l.value = v
  PROVE  InPackage(ReadLine(doc, l), T, Put(t, f, Table(Put(u, k, v))), "sub", Under(f))
PROOF
<1>1. PICK r, tb : doc = Doc(r, tb, Packed(Append(T, t)), Target("sub", Under(f)))
  BY DEF InPackage
<1>2. doc.current.at = "sub" /\ doc.current.path = Under(f)
  BY <1>1 DEF Doc, Target
<1>3. ReadLine(doc, l) = SetKey(doc, k, v)
  BY DEF ReadLine
<1>4. Owner(Under(f)) = Pkg /\ Under(f)[2] = f /\ FieldOfLast(doc, Under(f)) = Table(u) /\ Table(u).t = u
  BY <1>1, LastPackage DEF Under, Table
<1>5. SetKey(doc, k, v) = SetInLast(doc, Pkg, f, Table(Put(u, k, v)))
  BY <1>2, <1>4 DEF SetKey
<1>6. SetInLast(doc, Pkg, f, Table(Put(u, k, v)))
        = Doc(r, tb, Packed(Append(T, Put(t, f, Table(Put(u, k, v))))), Target("sub", Under(f)))
  BY <1>1, LastPackage
<1> QED BY <1>3, <1>5, <1>6 DEF InPackage

LEMMA OpensListed ==
  ASSUME NEW doc, NEW T, IsSeq(T), NEW t, NEW at, NEW path, InPackage(doc, T, t, at, path),
         NEW f, Lookup(t, f, Scalar(None)) = Scalar(None)
  PROVE  InPackage(ReadLine(doc, Header("array", Under(f))), T, Put(t, f, List(<<Table(EmptyMap)>>)),
                   "listed", Under(f))
PROOF
<1>1. PICK r, tb : doc = Doc(r, tb, Packed(Append(T, t)), Target(at, path))
  BY DEF InPackage
<1>2. /\ Inside(doc, Under(f)) /\ Owner(Under(f)) = Pkg /\ Under(f)[2] = f
      /\ FieldOfLast(doc, Under(f)) = Scalar(None)
  BY <1>1, LastPackage DEF Under
<1>3. ReadLine(doc, Header("array", Under(f))) = OpenArray(doc, Under(f))
  BY DEF ReadLine, Header
<1> DEFINE V == List(<<Table(EmptyMap)>>)
           d == SetInLast(doc, Pkg, f, V)
<1>4. OpenArray(doc, Under(f)) = [d EXCEPT !.current = Target("listed", Under(f))]
  <2>1. Append(<<>>, Table(EmptyMap)) = <<Table(EmptyMap)>> /\ Scalar(None).is # "list"
    BY DEF Scalar
  <2> QED BY <1>2, <2>1 DEF OpenArray
<1> HIDE DEF V
<1>5. d = Doc(r, tb, Packed(Append(T, Put(t, f, V))), Target(at, path))
  BY <1>1, LastPackage
<1>6. [d EXCEPT !.current = Target("listed", Under(f))]
        = Doc(r, tb, Packed(Append(T, Put(t, f, V))), Target("listed", Under(f)))
  BY <1>5 DEF Doc
<1>7. InPackage(ReadLine(doc, Header("array", Under(f))), T, Put(t, f, V), "listed", Under(f))
  BY <1>3, <1>4, <1>6 DEF InPackage
<1> QED BY <1>7 DEF V

LEMMA SetsListed ==
  ASSUME NEW doc, NEW T, IsSeq(T), NEW t, NEW f, InPackage(doc, T, t, "listed", Under(f)),
         NEW u, Lookup(t, f, Scalar(None)) = List(<<Table(u)>>),
         NEW k, NEW v, NEW l, l.kind = "pair", l.key = k, l.value = v
  PROVE  InPackage(ReadLine(doc, l), T, Put(t, f, List(<<Table(Put(u, k, v))>>)), "listed", Under(f))
PROOF
<1>1. PICK r, tb : doc = Doc(r, tb, Packed(Append(T, t)), Target("listed", Under(f)))
  BY DEF InPackage
<1>2. doc.current.at = "listed" /\ doc.current.path = Under(f)
  BY <1>1 DEF Doc, Target
<1>3. ReadLine(doc, l) = SetKey(doc, k, v)
  BY DEF ReadLine
<1> DEFINE V == List(<<Table(Put(u, k, v))>>)
<1>4. Owner(Under(f)) = Pkg /\ Under(f)[2] = f /\ FieldOfLast(doc, Under(f)) = List(<<Table(u)>>)
  BY <1>1, LastPackage DEF Under
<1>5. List(<<Table(u)>>).l = <<Table(u)>> /\ Table(u).t = u
  BY DEF List, Table
<1>6. [<<Table(u)>> EXCEPT ![Len(<<Table(u)>>)] = Table(Put(@.t, k, v))] = <<Table(Put(u, k, v))>>
  <2> DEFINE a == Table(u)
             b == Table(Put(u, k, v))
  <2>1. a.t = u
    BY <1>5
  <2> HIDE DEF a
  <2>2. [<<a>> EXCEPT ![Len(<<a>>)] = Table(Put(@.t, k, v))] = <<b>>
    BY <2>1
  <2> QED BY <2>2 DEF a
<1>7. SetKey(doc, k, v) = SetInLast(doc, Pkg, f, V)
  BY <1>2, <1>4, <1>5, <1>6 DEF SetKey
<1> HIDE DEF V
<1>8. SetInLast(doc, Pkg, f, V) = Doc(r, tb, Packed(Append(T, Put(t, f, V))), Target("listed", Under(f)))
  BY <1>1, LastPackage
<1>9. InPackage(ReadLine(doc, l), T, Put(t, f, V), "listed", Under(f))
  BY <1>3, <1>7, <1>8 DEF InPackage
<1> QED BY <1>9 DEF V

-----------------------------------------------------------------------------
(* What a package written in poetry.lock or uv.lock is read as.            *)

\* The lines b, collapsed to c, turn the table t of the last package into u.
Turns(c, t, u) ==
  \A doc, T, at, path :
    IsSeq(T) /\ InPackage(doc, T, t, at, path) =>
      \E into, under : InPackage(Read(doc, c), T, u, into, under)

LEMMA TurnsNothing == \A t : Turns(<<>>, t, t)
PROOF
<1>1. \A doc : Read(doc, <<>>) = doc
  BY SmallSeqs, ReadMore
<1> QED BY <1>1 DEF Turns

LEMMA TurnsOn ==
  ASSUME NEW c, NEW d, IsSeq(c), IsSeq(d), NEW t, NEW u, NEW w, Turns(c, t, u), Turns(d, u, w)
  PROVE  Turns(c \o d, t, w)
PROOF
<1> SUFFICES ASSUME NEW doc, NEW T, NEW at, NEW path, IsSeq(T), InPackage(doc, T, t, at, path)
             PROVE  \E into, under : InPackage(Read(doc, c \o d), T, w, into, under)
  BY DEF Turns
<1>1. Read(doc, c \o d) = Read(Read(doc, c), d)
  BY ReadConcat
<1>2. PICK into, under : InPackage(Read(doc, c), T, u, into, under)
  BY DEF Turns
<1>3. PICK into2, under2 : InPackage(Read(Read(doc, c), d), T, w, into2, under2)
  BY <1>2 DEF Turns
<1> QED BY <1>1, <1>3

\* The table of a package after its first three lines.
HeadTable(p) == Put(Put(EmptyMap, "name", Scalar(p.name)), "version", Scalar(p.version))

LEMMA ReadHead ==
  ASSUME NEW doc, NEW T, IsSeq(T), HoldsPackages(doc, T), NEW p
  PROVE  InPackage(Read(doc, PackageHead(p)), T, HeadTable(p), "array", Pkg)
PROOF
<1> DEFINE h == Header("array", Pkg)
           n == Pair("name", Scalar(p.name))
           v == Pair("version", Scalar(p.version))
<1>1. PackageHead(p) = (<<h>> \o <<n>>) \o <<v>>
  BY DEF PackageHead, Pkg
<1>2. IsSeq(<<h>>) /\ IsSeq(<<n>>) /\ IsSeq(<<v>>) /\ IsSeq(<<h>> \o <<n>>)
  BY SmallSeqs, ConcatIs
<1>3. n.kind = "pair" /\ n.key = "name" /\ n.value = Scalar(p.name)
  BY DEF Pair
<1>4. v.kind = "pair" /\ v.key = "version" /\ v.value = Scalar(p.version)
  BY DEF Pair
<1>5. InPackage(ReadLine(doc, h), T, EmptyMap, "array", Pkg)
  BY OpensPackage
<1> HIDE DEF h, n, v
<1>6. Read(doc, PackageHead(p)) = ReadLine(ReadLine(ReadLine(doc, h), n), v)
  <2>1. Read(doc, (<<h>> \o <<n>>) \o <<v>>) = Read(Read(doc, <<h>> \o <<n>>), <<v>>)
    BY <1>2, ReadConcat
  <2>2. Read(doc, <<h>> \o <<n>>) = Read(Read(doc, <<h>>), <<n>>)
    BY <1>2, ReadConcat
  <2>3. Read(doc, <<h>>) = ReadLine(doc, h)
    BY ReadOne
  <2>4. Read(ReadLine(doc, h), <<n>>) = ReadLine(ReadLine(doc, h), n)
    BY ReadOne
  <2>5. Read(ReadLine(ReadLine(doc, h), n), <<v>>) = ReadLine(ReadLine(ReadLine(doc, h), n), v)
    BY ReadOne
  <2> QED BY <1>1, <2>1, <2>2, <2>3, <2>4, <2>5, Zenon
<1>7. InPackage(ReadLine(ReadLine(doc, h), n), T, Put(EmptyMap, "name", Scalar(p.name)), "array", Pkg)
  BY <1>3, <1>5, SetsField
<1>8. InPackage(ReadLine(ReadLine(ReadLine(doc, h), n), v), T, HeadTable(p), "array", Pkg)
  BY <1>4, <1>7, SetsField DEF HeadTable
<1> QED BY <1>6, <1>8

\* A key whose list may have been written over several lines.
LEMMA ReadsField ==
  ASSUME NEW doc, NEW T, IsSeq(T), NEW t, InPackage(doc, T, t, "array", Pkg),
         NEW l, l.kind = "pair"
  PROVE  InPackage(Read(doc, <<l>>), T, Put(t, l.key, l.value), "array", Pkg)
BY ReadOne, SetsField

LEMMA TurnsSub ==
  ASSUME NEW t, NEW f, NEW k, NEW v, NEW l, l.kind = "pair", l.key = k, l.value = v
  PROVE  Turns(<<Header("table", Under(f))>> \o <<l>>, t, Put(t, f, Table(Put(EmptyMap, k, v))))
PROOF
<1> SUFFICES ASSUME NEW doc, NEW T, NEW at, NEW path, IsSeq(T), InPackage(doc, T, t, at, path)
             PROVE  \E into, under : InPackage(Read(doc, <<Header("table", Under(f))>> \o <<l>>), T,
                                               Put(t, f, Table(Put(EmptyMap, k, v))), into, under)
  BY DEF Turns
<1> DEFINE h == Header("table", Under(f))
           d == ReadLine(doc, h)
           s == Put(t, f, Table(EmptyMap))
<1>1. InPackage(d, T, s, "sub", Under(f))
  BY OpensSub
<1>2. Lookup(s, f, Scalar(None)) = Table(EmptyMap)
  BY LookupPut
<1>3. Read(doc, <<h>> \o <<l>>) = ReadLine(d, l)
  <2> HIDE DEF h
  <2> QED BY SmallSeqs, ReadConcat, ReadOne
<1> HIDE DEF d, s
<1>4. InPackage(ReadLine(d, l), T, Put(s, f, Table(Put(EmptyMap, k, v))), "sub", Under(f))
  BY <1>1, <1>2, SetsSub
<1>5. Put(s, f, Table(Put(EmptyMap, k, v))) = Put(t, f, Table(Put(EmptyMap, k, v)))
  BY PutTwice DEF s
<1> QED BY <1>3, <1>4, <1>5

LEMMA TurnsListed ==
  ASSUME NEW t, NEW f, Lookup(t, f, Scalar(None)) = Scalar(None),
         NEW k, NEW v, NEW l, l.kind = "pair", l.key = k, l.value = v
  PROVE  Turns(<<Header("array", Under(f))>> \o <<l>>, t, Put(t, f, List(<<Table(Put(EmptyMap, k, v))>>)))
PROOF
<1> DEFINE V == List(<<Table(Put(EmptyMap, k, v))>>)
           h == Header("array", Under(f))
           s == Put(t, f, List(<<Table(EmptyMap)>>))
<1> HIDE DEF V
<1> SUFFICES ASSUME NEW doc, NEW T, NEW at, NEW path, IsSeq(T), InPackage(doc, T, t, at, path)
             PROVE  \E into, under : InPackage(Read(doc, <<h>> \o <<l>>), T, Put(t, f, V), into, under)
  BY DEF Turns, V
<1> DEFINE d == ReadLine(doc, h)
<1>1. InPackage(d, T, s, "listed", Under(f))
  BY OpensListed
<1>2. Lookup(s, f, Scalar(None)) = List(<<Table(EmptyMap)>>)
  BY LookupPut
<1>3. Read(doc, <<h>> \o <<l>>) = ReadLine(d, l)
  <2> HIDE DEF h
  <2> QED BY SmallSeqs, ReadConcat, ReadOne
<1> HIDE DEF d, s
<1>4. InPackage(ReadLine(d, l), T, Put(s, f, V), "listed", Under(f))
  BY <1>1, <1>2, SetsListed DEF V
<1>5. Put(s, f, V) = Put(t, f, V)
  BY PutTwice DEF s
<1> QED BY <1>3, <1>4, <1>5

\* The keys of a table inside the package.
SubReads(u, t, f, w) ==
  \A doc, T :
    IsSeq(T) /\ InPackage(doc, T, Put(t, f, Table(EmptyMap)), "sub", Under(f)) =>
      InPackage(Read(doc, u), T, Put(t, f, Table(w)), "sub", Under(f))

LEMMA ReadsPairs ==
  ASSUME NEW t, NEW f, NEW lines, IsSeq(lines), \A i \in 1..Len(lines) : lines[i].kind = "pair"
  PROVE  \E w : IsFiniteSet(DOMAIN w) /\ SubReads(lines, t, f, w)
PROOF
<1> DEFINE Reads(u) == \E w : IsFiniteSet(DOMAIN w) /\ SubReads(u, t, f, w)
           Good(u) == (\A i \in 1..Len(u) : u[i].kind = "pair") => Reads(u)
           Bad == {n \in Nat : \E u : IsSeq(u) /\ Len(u) = n /\ ~Good(u)}
<1>1. SUFFICES ASSUME ~Good(lines) PROVE FALSE
  OBVIOUS
<1>2. Len(lines) \in Bad
  BY <1>1, SeqIs
<1>3. PICK n \in Bad : \A m \in Bad : n <= m
  <2> HIDE DEF Good
  <2>1. Bad \in SUBSET Nat
    OBVIOUS
  <2> HIDE DEF Bad
  <2> QED BY <1>2, <2>1, LeastNatural
<1>4. PICK u : IsSeq(u) /\ Len(u) = n /\ ~Good(u)
  OBVIOUS
<1>5. CASE Len(u) = 0
  <2>1. u = <<>>
    BY <1>4, <1>5, SeqIs
  <2>2. \A doc : Read(doc, <<>>) = doc
    BY SmallSeqs, ReadMore
  <2>3. IsFiniteSet(DOMAIN EmptyMap)
    BY NothingIn, FS_EmptySet
  <2>4. SubReads(u, t, f, EmptyMap)
    BY <2>1, <2>2 DEF SubReads
  <2> QED BY <1>4, <2>3, <2>4
<1>6. CASE Len(u) # 0
  <2>1. PICK v, x : IsSeq(v) /\ u = Append(v, x) /\ Len(u) = Len(v) + 1 /\ Len(v) \in Nat
    BY <1>4, <1>6, SplitAtLast
  <2>2. Good(v)
    <3>1. Len(v) \in Nat /\ ~(n <= Len(v))
      BY <1>4, <2>1
    <3> HIDE DEF Good
    <3>2. Len(v) \notin Bad
      <4> HIDE DEF Bad
      <4> QED BY <1>3, <3>1
    <3> QED BY <2>1, <3>1, <3>2
  <2>3. u[Len(v) + 1] = x /\ \A i \in 1..Len(v) : u[i] = v[i]
    BY <2>1, AppendedIs
  <2>4. \A i \in 1..Len(u) : u[i].kind = "pair"
    BY <1>4
  <2>5. x.kind = "pair" /\ \A i \in 1..Len(v) : v[i].kind = "pair"
    <3>1. Len(v) + 1 \in 1..Len(u) /\ \A i \in 1..Len(v) : i \in 1..Len(u)
      BY <2>1
    <3> QED BY <2>3, <2>4, <3>1
  <2>6. PICK w : IsFiniteSet(DOMAIN w) /\ SubReads(v, t, f, w)
    BY <2>2, <2>5
  <2> DEFINE s == Put(t, f, Table(w))
             z == Put(w, x.key, x.value)
  <2>7. Lookup(s, f, Scalar(None)) = Table(w) /\ Put(s, f, Table(z)) = Put(t, f, Table(z))
    BY LookupPut, PutTwice
  <2> HIDE DEF Good, Bad
  <2>8. SubReads(u, t, f, z)
    <3> SUFFICES ASSUME NEW doc, NEW T, IsSeq(T), InPackage(doc, T, Put(t, f, Table(EmptyMap)), "sub", Under(f))
                 PROVE  InPackage(Read(doc, u), T, Put(t, f, Table(z)), "sub", Under(f))
      BY DEF SubReads
    <3> DEFINE d == Read(doc, v)
    <3>1. Read(doc, u) = ReadLine(d, x)
      BY <2>1, ReadMore
    <3>2. InPackage(d, T, s, "sub", Under(f))
      BY <2>6 DEF SubReads
    <3> HIDE DEF s, d
    <3>3. InPackage(ReadLine(d, x), T, Put(s, f, Table(z)), "sub", Under(f))
      BY <2>5, <2>7, <3>2, SetsSub
    <3> HIDE DEF z
    <3> QED BY <2>7, <3>1, <3>3
  <2>9. IsFiniteSet(DOMAIN z)
    <3>1. DOMAIN z = DOMAIN w \cup {x.key}
      BY DEF Put
    <3> QED BY <2>6, <3>1, FS_AddElement
  <2>10. Reads(u)
    <3> HIDE DEF z
    <3> QED BY <2>8, <2>9
  <2> QED BY <1>4, <2>10 DEF Good
<1> QED BY <1>5, <1>6

LEMMA TurnsTable ==
  ASSUME NEW t, NEW f, NEW lines, IsSeq(lines), \A i \in 1..Len(lines) : lines[i].kind = "pair"
  PROVE  \E w : IsFiniteSet(DOMAIN w) /\ Turns(<<Header("table", Under(f))>> \o lines, t, Put(t, f, Table(w)))
PROOF
<1> DEFINE h == Header("table", Under(f))
<1>1. PICK w : IsFiniteSet(DOMAIN w) /\ SubReads(lines, t, f, w)
  BY ReadsPairs
<1>2. ASSUME NEW doc, NEW T, NEW at, NEW path, IsSeq(T), InPackage(doc, T, t, at, path)
      PROVE  InPackage(Read(doc, <<h>> \o lines), T, Put(t, f, Table(w)), "sub", Under(f))
  <2>1. InPackage(ReadLine(doc, h), T, Put(t, f, Table(EmptyMap)), "sub", Under(f))
    BY <1>2, OpensSub
  <2> HIDE DEF h
  <2>2. Read(doc, <<h>> \o lines) = Read(ReadLine(doc, h), lines)
    BY SmallSeqs, ReadConcat, ReadOne
  <2> QED BY <1>1, <1>2, <2>1, <2>2 DEF SubReads
<1> HIDE DEF h
<1>3. Turns(<<h>> \o lines, t, Put(t, f, Table(w)))
  BY <1>2 DEF Turns
<1> QED BY <1>1, <1>3 DEF h

\* The same, of the lines right after the head of the package.
Keeps(c, t, u) ==
  \A doc, T : IsSeq(T) /\ InPackage(doc, T, t, "array", Pkg) => InPackage(Read(doc, c), T, u, "array", Pkg)
Fills(c, t, u) ==
  \A doc, T : IsSeq(T) /\ InPackage(doc, T, t, "array", Pkg) =>
    \E into, under : InPackage(Read(doc, c), T, u, into, under)

LEMMA KeepsField == \A l, t : l.kind = "pair" => Keeps(<<l>>, t, Put(t, l.key, l.value))
BY ReadsField DEF Keeps

LEMMA TurnsFills ==
  ASSUME NEW c, NEW t, NEW u, Turns(c, t, u)
  PROVE  Fills(c, t, u)
BY DEF Turns, Fills

LEMMA FillsOn ==
  ASSUME NEW c, NEW d, IsSeq(c), IsSeq(d), NEW t, NEW u, NEW w, Keeps(c, t, u), Fills(d, u, w)
  PROVE  Fills(c \o d, t, w)
PROOF
<1> SUFFICES ASSUME NEW doc, NEW T, IsSeq(T), InPackage(doc, T, t, "array", Pkg)
             PROVE  \E into, under : InPackage(Read(doc, c \o d), T, w, into, under)
  BY DEF Fills
<1>1. Read(doc, c \o d) = Read(Read(doc, c), d)
  BY ReadConcat
<1>2. InPackage(Read(doc, c), T, u, "array", Pkg)
  BY DEF Keeps
<1>3. PICK into, under : InPackage(Read(Read(doc, c), d), T, w, into, under)
  BY <1>2 DEF Fills
<1> QED BY <1>1, <1>3

LEMMA TheOnly ==
  ASSUME NEW s, IsSeq(s), Len(s) = 1
  PROVE  Picked(s, {1}) = <<s[1]>>
PROOF
<1>1. s \in Seq(Range(s)) /\ DOMAIN s = 1..1 /\ {1} \in SUBSET DOMAIN s
  BY SeqIs DEF IsSeq
<1>2. Cardinality({1}) = 1
  BY FS_Singleton
<1>3. /\ DOMAIN Picked(s, {1}) = 1..1
      /\ \A n \in DOMAIN Picked(s, {1}) : Nth({1}, n) \in {1} /\ Picked(s, {1})[n] = s[Nth({1}, n)]
      /\ Picked(s, {1}) \in Seq(Range(s))
  <2>1. /\ DOMAIN Picked(s, {1}) = 1..Cardinality({1})
        /\ \A n \in DOMAIN Picked(s, {1}) : Nth({1}, n) \in {1} /\ Picked(s, {1})[n] = s[Nth({1}, n)]
        /\ Picked(s, {1}) \in Seq(Range(s))
    BY <1>1, PickedInOrder
  <2> QED BY <1>2, <2>1
<1>4. 1 \in 1..1 /\ \A n \in 1..1 : n = 1
  OBVIOUS
<1>5. Picked(s, {1})[1] = s[1]
  BY <1>3, <1>4
<1>6. Picked(s, {1}) = [n \in 1..1 |-> Picked(s, {1})[n]]
  <2>1. IsSeq(Picked(s, {1}))
    BY <1>3, IsSeqOf
  <2> QED BY <1>3, <2>1, SeqIs
<1>7. <<s[1]>> = [n \in 1..1 |-> s[1]]
  OBVIOUS
<1> QED BY <1>4, <1>5, <1>6, <1>7

LEMMA HashesAre ==
  ASSUME NEW t, NEW f
  PROVE  /\ Lookup(t, f, Scalar(None)).is # "list" => HashesOf(t, f) = <<>>
         /\ \A p : Lookup(t, f, Scalar(None)) = List(<<File(p)>>) /\ p.hash # None
                     => HashesOf(t, f) = <<p.hash>>
PROOF
<1>1. Lookup(t, f, Scalar(None)).is # "list" => HashesOf(t, f) = <<>>
  BY DEF HashesOf
<1>2. ASSUME NEW p, Lookup(t, f, Scalar(None)) = List(<<File(p)>>), p.hash # None
      PROVE  HashesOf(t, f) = <<p.hash>>
  <2> DEFINE v == Lookup(t, f, Scalar(None))
             s == [i \in DOMAIN v.l |-> HashIn(v.l[i])]
  <2>1. v.is = "list" /\ v.l = <<File(p)>>
    BY <1>2 DEF List
  <2>2. HashIn(File(p)) = p.hash
    <3>1. Lookup(Put(EmptyMap, "hash", Scalar(p.hash)), "hash", Scalar(None)) = Scalar(p.hash)
      BY LookupPut
    <3> QED BY <3>1 DEF HashIn, File, Field, Table, ScalarOf, Scalar
  <2>3. HashesOf(t, f) = Picked(s, {i \in DOMAIN s : s[i] # None})
    BY <2>1 DEF HashesOf, Only
  <2>4. DOMAIN s = 1..1 /\ s[1] = p.hash /\ Tuples(s, 1)
    <3>1. DOMAIN v.l = 1..1 /\ v.l[1] = File(p)
      BY <2>1
    <3>2. s = [i \in 1..1 |-> HashIn(v.l[i])]
      BY <3>1
    <3> QED BY <2>2, <3>1, <3>2 DEF Tuples
  <2> HIDE DEF s
  <2>5. {i \in DOMAIN s : s[i] # None} = {1}
    BY <1>2, <2>4
  <2>6. IsSeq(s) /\ Len(s) = 1
    BY <2>4, TuplesIsSeq
  <2> QED BY <2>3, <2>4, <2>5, <2>6, TheOnly
<1> QED BY <1>1, <1>2

\* The hash that stands in the package itself.
Top(t) == LET top == ScalarOf(Lookup(t, "hash", Scalar(None)))
          IN  IF top = None THEN <<>> ELSE <<top>>

LEMMA FirstHashIs ==
  ASSUME NEW t, Lookup(t, "hash", Scalar(None)) = Scalar(None), NEW format,
         NEW a, NEW b, NEW c, a = (IF format = "poetry" THEN HashesOf(t, "files") ELSE <<>>),
         b = HashesOf(t, "wheels"), c = HashesOf(t, "sdist"), NEW h
  PROVE  /\ a = <<>> /\ b = <<>> /\ c = <<>> => FirstPypiHash(t, format) = NoIntegrity
         /\ a = <<h>> /\ b = <<>> /\ c = <<>> => FirstPypiHash(t, format) = h
         /\ a = <<>> /\ b = <<h>> /\ c = <<>> => FirstPypiHash(t, format) = h
PROOF
<1>1. Top(t) = <<>>
  BY DEF Top, ScalarOf, Scalar
<1>2. FirstPypiHash(t, format) = FirstHash(((a \o b) \o c) \o Top(t))
  BY DEF FirstPypiHash, Top
<1>3. <<>> \o <<>> = <<>> /\ <<h>> \o <<>> = <<h>> /\ <<>> \o <<h>> = <<h>>
  BY SmallSeqs, ConcatIs
<1>4. FirstHash(<<>>) = NoIntegrity /\ FirstHash(<<h>>) = h
  BY DEF FirstHash
<1> QED BY <1>1, <1>2, <1>3, <1>4

\* The names of the dependencies in the table t can be listed.
DepsField(t) ==
  LET v == Lookup(t, "dependencies", Scalar(None))
  IN  (v.is = "table" => IsFiniteSet(DOMAIN v.t)) /\ (v.is = "list" => IsSeq(v.l))

\* The table t says of a package what the worlds say of p.
ReadAs(t, p, format) ==
  /\ \A d : Lookup(t, "name", d) = Scalar(p.name) /\ Lookup(t, "version", d) = Scalar(p.version)
  /\ FirstPypiHash(t, format) = HashRead(p)
  /\ DepsField(t)

\* Lines that are read as one more package.
Written(b, p, format) ==
  \E c : /\ Collapses(b, c)
         /\ \A doc, T : IsSeq(T) /\ HoldsPackages(doc, T) =>
              \E t : ReadAs(t, p, format) /\ HoldsPackages(Read(doc, c), Append(T, t))

LEMMA HeadWritten ==
  ASSUME NEW p, NEW b, NEW c, Collapses(b, c), NEW format, NEW t, ReadAs(t, p, format),
         Fills(c, HeadTable(p), t)
  PROVE  Written(PackageHead(p) \o b, p, format)
PROOF
<1> DEFINE h == PackageHead(p)
<1>1. Collapses(h, h)
  <2>1. IsSeq(h) /\ Len(h) = 3 /\ \A i \in 1..3 : h[i].depth = 0
    <3> DEFINE x == Header("array", <<"package">>)
               y == Pair("name", Scalar(p.name))
               z == Pair("version", Scalar(p.version))
    <3>1. x.depth = 0 /\ y.depth = 0 /\ z.depth = 0 /\ h = <<x, y, z>>
      BY DEF PackageHead, Header, Pair
    <3> HIDE DEF x, y, z, h
    <3>2. h \in Seq({x, y, z}) /\ Len(h) = 3 /\ h[1] = x /\ h[2] = y /\ h[3] = z
      BY <3>1
    <3>3. IsSeq(h)
      BY <3>2, IsSeqOf
    <3>4. \A i \in 1..3 : i = 1 \/ i = 2 \/ i = 3
      OBVIOUS
    <3> QED BY <3>1, <3>2, <3>3, <3>4
  <2> HIDE DEF h
  <2> QED BY <2>1, CollapseLines
<1>2. Collapses(h \o b, h \o c)
  <2> HIDE DEF h
  <2> QED BY <1>1, CollapseBoth
<1>3. ASSUME NEW doc, NEW T, IsSeq(T), HoldsPackages(doc, T)
      PROVE  HoldsPackages(Read(doc, h \o c), Append(T, t))
  <2>1. InPackage(Read(doc, h), T, HeadTable(p), "array", Pkg)
    BY <1>3, ReadHead
  <2>2. PICK into, under : InPackage(Read(Read(doc, h), c), T, t, into, under)
    <3> HIDE DEF h
    <3> QED BY <1>3, <2>1 DEF Fills
  <2>3. Read(doc, h \o c) = Read(Read(doc, h), c)
    <3>1. IsSeq(h) /\ IsSeq(c)
      BY <1>1 DEF Collapses
    <3> HIDE DEF h
    <3> QED BY <3>1, ReadConcat
  <2> HIDE DEF h
  <2> QED BY <2>2, <2>3 DEF InPackage, HoldsPackages
<1> HIDE DEF h
<1>4. Written(h \o b, p, format)
  BY <1>2, <1>3 DEF Written
<1> QED BY <1>4 DEF h

\* The last part of a package in poetry.lock, and its table with and without that.
Stars(deps) == [i \in DOMAIN deps |-> Pair(deps[i], Scalar("*"))]
DepsLines(p) == IF p.deps = <<>> THEN <<>>
                ELSE <<Header("table", <<"package", "dependencies">>)>> \o Stars(p.deps)

WithFiles(p) == IF p.hashIn = "none" THEN HeadTable(p)
                ELSE Put(HeadTable(p), "files", List(<<File(p)>>))

LEMMA DepsTurn ==
  ASSUME NEW p, IsSeq(p.deps), NEW t
  PROVE  /\ Collapses(DepsLines(p), DepsLines(p))
         /\ \E u : /\ u = t \/ \E w : IsFiniteSet(DOMAIN w) /\ u = Put(t, "dependencies", Table(w))
                   /\ Turns(DepsLines(p), t, u)
PROOF
<1>1. CASE p.deps = <<>>
  <2>1. DepsLines(p) = <<>>
    BY <1>1 DEF DepsLines
  <2> QED BY <2>1, CollapseNothing, TurnsNothing
<1>2. CASE p.deps # <<>>
  <2> DEFINE s == Stars(p.deps)
             h == Header("table", Under("dependencies"))
  <2>1. DepsLines(p) = <<h>> \o s
    BY <1>2 DEF DepsLines, Under
  <2>2. /\ IsSeq(s)
        /\ \A i \in 1..Len(s) : s[i].kind = "pair" /\ s[i].depth = 0
    <3>1. DOMAIN p.deps = 1..Len(p.deps) /\ Len(p.deps) \in Nat
      BY SeqIs
    <3>2. Tuples(s, Len(p.deps))
      BY <3>1 DEF Tuples, Stars
    <3>3. \A i \in 1..Len(p.deps) : s[i].kind = "pair" /\ s[i].depth = 0
      BY <3>1 DEF Stars, Pair
    <3> HIDE DEF s
    <3> QED BY <3>1, <3>2, <3>3, TuplesIsSeq
  <2> HIDE DEF s
  <2>3. Collapses(s, s)
    BY <2>2, CollapseLines
  <2>4. Collapses(<<h>>, <<h>>)
    <3>1. h.depth = 0
      BY DEF Header
    <3> HIDE DEF h
    <3> QED BY <3>1, CollapseLine
  <2>5. Collapses(<<h>> \o s, <<h>> \o s)
    <3> HIDE DEF h
    <3> QED BY <2>3, <2>4, CollapseBoth
  <2>6. PICK w : IsFiniteSet(DOMAIN w) /\ Turns(<<h>> \o s, t, Put(t, "dependencies", Table(w)))
    BY <2>2, TurnsTable
  <2> HIDE DEF h
  <2> QED BY <2>1, <2>5, <2>6
<1> QED BY <1>1, <1>2

LEMMA PoetryIsRead ==
  ASSUME NEW p, p.hashIn \in {"list", "tables", "none"}, p.hashIn = "none" \/ p.hash # None,
         NEW u, u = WithFiles(p) \/ \E w : IsFiniteSet(DOMAIN w) /\ u = Put(WithFiles(p), "dependencies", Table(w))
  PROVE  ReadAs(u, p, "poetry")
PROOF
<1> DEFINE H == HeadTable(p)
           F == WithFiles(p)
<1>1. /\ \A d : Lookup(H, "name", d) = Scalar(p.name) /\ Lookup(H, "version", d) = Scalar(p.version)
      /\ \A k, d : k \notin {"name", "version"} => Lookup(H, k, d) = d
  BY LookupPut, NothingIn DEF HeadTable
<1> HIDE DEF H
<1>2. /\ \A d : Lookup(F, "name", d) = Scalar(p.name) /\ Lookup(F, "version", d) = Scalar(p.version)
      /\ \A k, d : k \notin {"name", "version", "files"} => Lookup(F, k, d) = d
      /\ p.hashIn = "none" => Lookup(F, "files", Scalar(None)) = Scalar(None)
      /\ p.hashIn # "none" => Lookup(F, "files", Scalar(None)) = List(<<File(p)>>)
  BY <1>1, LookupPut DEF WithFiles, H
<1> HIDE DEF F
<1>3. \A k, d : k # "dependencies" => Lookup(u, k, d) = Lookup(F, k, d)
  BY LookupPut DEF F
<1>4. /\ Lookup(u, "hash", Scalar(None)) = Scalar(None)
      /\ HashesOf(u, "wheels") = <<>> /\ HashesOf(u, "sdist") = <<>>
  <2>1. Scalar(None).is # "list"
    BY DEF Scalar
  <2> QED BY <1>2, <1>3, <2>1, HashesAre
<1>5. HashesOf(u, "files") = IF p.hashIn = "none" THEN <<>> ELSE <<p.hash>>
  <2>1. Scalar(None).is # "list"
    BY DEF Scalar
  <2> QED BY <1>2, <1>3, <2>1, HashesAre
<1>6. FirstPypiHash(u, "poetry") = HashRead(p)
  <2>1. HashRead(p) = IF p.hashIn = "none" THEN NoIntegrity ELSE p.hash
    BY DEF HashRead
  <2>2. /\ HashesOf(u, "files") = <<>> => FirstPypiHash(u, "poetry") = NoIntegrity
        /\ HashesOf(u, "files") = <<p.hash>> => FirstPypiHash(u, "poetry") = p.hash
    BY <1>4, FirstHashIs
  <2> QED BY <1>5, <2>1, <2>2
<1>7. DepsField(u)
  <2>1. CASE u = WithFiles(p)
    <3>1. Lookup(u, "dependencies", Scalar(None)) = Scalar(None)
      BY <1>2, <2>1 DEF F
    <3> QED BY <3>1 DEF DepsField, Scalar
  <2>2. ASSUME NEW w, IsFiniteSet(DOMAIN w), u = Put(WithFiles(p), "dependencies", Table(w)) PROVE DepsField(u)
    <3>1. Lookup(u, "dependencies", Scalar(None)) = Table(w)
      BY <2>2, LookupPut
    <3> QED BY <2>2, <3>1 DEF DepsField, Table
  <2> QED BY <2>1, <2>2
<1> QED BY <1>2, <1>3, <1>6, <1>7 DEF ReadAs

LEMMA PoetryWritten ==
  ASSUME NEW p, IsSeq(p.deps), p.hashIn \in {"list", "tables", "none"}, p.hashIn = "none" \/ p.hash # None
  PROVE  Written(PoetryPackage(p), p, "poetry")
PROOF
<1> DEFINE f == CASE p.hashIn = "list" -> Multiline("files", <<File(p)>>)
                  [] p.hashIn = "tables" -> <<Header("array", <<"package", "files">>), Pair("hash", Scalar(p.hash))>>
                  [] OTHER -> <<>>
           d == DepsLines(p)
           H == HeadTable(p)
<1>1. PoetryPackage(p) = (PackageHead(p) \o f) \o d
  BY DEF PoetryPackage, DepsLines, Stars
<1>2. Collapses(d, d)
  BY DepsTurn
<1>3. PICK u : /\ u = WithFiles(p) \/ \E w : IsFiniteSet(DOMAIN w) /\ u = Put(WithFiles(p), "dependencies", Table(w))
               /\ Turns(d, WithFiles(p), u)
  BY DepsTurn
<1>4. ReadAs(u, p, "poetry")
  BY <1>3, PoetryIsRead
<1>5. \E c : Collapses(f, c) /\ Fills(c \o d, H, u)
  <2>1. CASE p.hashIn = "list"
    <3> DEFINE l == Line("files", <<File(p)>>)
    <3>1. Collapses(f, <<l>>)
      BY <2>1, SmallSeqs, CollapseMultiline
    <3>2. Keeps(<<l>>, H, WithFiles(p))
      <4>1. l.kind = "pair" /\ l.key = "files" /\ l.value = List(<<File(p)>>)
        BY DEF Line
      <4> HIDE DEF l
      <4>2. Keeps(<<l>>, H, Put(H, "files", List(<<File(p)>>)))
        BY <4>1, KeepsField
      <4> QED BY <2>1, <4>2 DEF WithFiles
    <3>3. Fills(d, WithFiles(p), u)
      BY <1>3, TurnsFills
    <3> HIDE DEF l, f, d
    <3>4. Fills(<<l>> \o d, H, u)
      BY <1>2, <3>2, <3>3, SmallSeqs, FillsOn DEF Collapses
    <3> QED BY <3>1, <3>4
  <2>2. CASE p.hashIn = "tables"
    <3> DEFINE h == Header("array", Under("files"))
               l == Pair("hash", Scalar(p.hash))
    <3>1. f = <<h>> \o <<l>>
      BY <2>2 DEF Under
    <3>2. h.depth = 0 /\ l.depth = 0
      BY DEF Header, Pair
    <3>3. Turns(<<h>> \o <<l>>, H, WithFiles(p))
      <4>1. l.kind = "pair" /\ l.key = "hash" /\ l.value = Scalar(p.hash)
        BY DEF Pair
      <4>2. Lookup(H, "files", Scalar(None)) = Scalar(None)
        BY LookupPut, NothingIn DEF HeadTable
      <4> HIDE DEF l, H
      <4>3. Turns(<<h>> \o <<l>>, H, Put(H, "files", List(<<Table(Put(EmptyMap, "hash", Scalar(p.hash)))>>)))
        BY <4>1, <4>2, TurnsListed
      <4> QED BY <2>2, <4>3 DEF WithFiles, File, Field, H
    <3> HIDE DEF h, l, f, d, H
    <3>4. Collapses(f, f)
      BY <3>1, <3>2, CollapseLine, CollapseBoth
    <3>5. Turns(f \o d, H, u)
      BY <1>2, <1>3, <3>1, <3>3, <3>4, TurnsOn DEF Collapses
    <3>6. Fills(f \o d, H, u)
      BY <3>5, TurnsFills
    <3> QED BY <3>4, <3>6
  <2>3. CASE p.hashIn = "none"
    <3>1. f = <<>> /\ WithFiles(p) = H
      BY <2>3 DEF WithFiles
    <3> HIDE DEF f, d, H
    <3>2. <<>> \o d = d
      BY <1>2, SmallSeqs, ConcatIs DEF Collapses
    <3>3. Fills(<<>> \o d, H, u)
      BY <1>3, <3>1, <3>2, TurnsFills
    <3> QED BY <3>1, <3>3, CollapseNothing
  <2> QED BY <2>1, <2>2, <2>3
<1> HIDE DEF f, d, H
<1>6. PICK c : Collapses(f, c) /\ Fills(c \o d, H, u)
  BY <1>5
<1>7. Collapses(f \o d, c \o d)
  BY <1>2, <1>6, CollapseBoth
<1>8. Written(PackageHead(p) \o (f \o d), p, "poetry")
  BY <1>4, <1>6, <1>7, HeadWritten DEF H
<1>9. (PackageHead(p) \o f) \o d = PackageHead(p) \o (f \o d)
  <2>1. IsSeq(PackageHead(p))
    <3>1. PackageHead(p) \in Seq(Range(PackageHead(p)))
      <4> DEFINE x == Header("array", <<"package">>)
                 y == Pair("name", Scalar(p.name))
                 z == Pair("version", Scalar(p.version))
      <4>1. PackageHead(p) = <<x, y, z>>
        BY DEF PackageHead
      <4> HIDE DEF x, y, z
      <4>2. PackageHead(p) \in Seq({x, y, z})
        BY <4>1
      <4> QED BY <4>2, IsSeqOf DEF IsSeq
    <3> QED BY <3>1 DEF IsSeq
  <2>2. IsSeq(f) /\ IsSeq(d)
    BY <1>2, <1>6 DEF Collapses
  <2> QED BY <2>1, <2>2, ConcatAssoc
<1> QED BY <1>1, <1>8, <1>9

LEMMA TwoIs == \A x, y : <<x>> \o <<y>> = <<x, y>>
PROOF
<1> SUFFICES ASSUME NEW x, NEW y PROVE <<x>> \o <<y>> = <<x, y>>
  OBVIOUS
<1> DEFINE t == <<x, y>>
           u == <<x>>
<1>1. t \in Seq({x, y}) /\ Len(t) = 2 /\ t[2] = y /\ t[1] = x
  OBVIOUS
<1>2. IsSeq(u) /\ Len(u) = 1 /\ u[1] = x
  BY SmallSeqs
<1> HIDE DEF t, u
<1>3. IsSeq(t) /\ Len(t) = Len(u) + 1 /\ \A i \in 1..Len(u) : t[i] = u[i]
  <2>1. IsSeq(t)
    BY <1>1, IsSeqOf
  <2>2. \A i \in 1..Len(u) : i = 1
    BY <1>2
  <2> QED BY <1>1, <1>2, <2>1, <2>2
<1>4. t = Append(u, t[Len(u) + 1])
  BY <1>2, <1>3, AppendIsThe
<1>5. t = Append(u, y)
  <2>1. Len(u) + 1 = 2
    BY <1>2
  <2> QED BY <1>1, <1>4, <2>1
<1>6. u \o <<y>> = Append(u, y)
  BY <1>2, SmallSeqs, ConcatIs
<1> QED BY <1>5, <1>6 DEF t, u

\* The table of a package in uv.lock, after each of its parts.
Fields(deps) == [i \in DOMAIN deps |-> Field("name", deps[i])]
WithDeps(p) == Put(HeadTable(p), "dependencies", List(Fields(p.deps)))
WithHash(p) == IF p.hashIn = "sdist" THEN Put(WithDeps(p), "sdist", File(p))
               ELSE Put(WithDeps(p), "wheels", List(<<File(p)>>))
Star == Table(Put(EmptyMap, "name", Scalar("*")))

LEMMA UvIsRead ==
  ASSUME NEW p, p.hashIn \in {"wheels", "sdist"}, p.hash # None, IsSeq(p.deps)
  PROVE  ReadAs(Put(WithHash(p), "metadata", Star), p, "uv")
PROOF
<1> DEFINE u == Put(WithHash(p), "metadata", Star)
           D == WithDeps(p)
<1>1. /\ \A d : Lookup(D, "name", d) = Scalar(p.name) /\ Lookup(D, "version", d) = Scalar(p.version)
      /\ \A d : Lookup(D, "dependencies", d) = List(Fields(p.deps))
      /\ \A k, d : k \notin {"name", "version", "dependencies"} => Lookup(D, k, d) = d
  <2> DEFINE L == List(Fields(p.deps))
  <2> HIDE DEF L
  <2> QED BY LookupPut, NothingIn DEF HeadTable, WithDeps, L
<1> HIDE DEF D
<1>2. /\ p.hashIn = "sdist" => \A k, d : Lookup(WithHash(p), k, d) = IF k = "sdist" THEN File(p) ELSE Lookup(D, k, d)
      /\ p.hashIn # "sdist" => \A k, d : Lookup(WithHash(p), k, d) = IF k = "wheels" THEN List(<<File(p)>>) ELSE Lookup(D, k, d)
  <2> DEFINE F == File(p)
  <2> HIDE DEF F
  <2> QED BY LookupPut DEF WithHash, D, F
<1>3. \A k, d : k # "metadata" => Lookup(u, k, d) = Lookup(WithHash(p), k, d)
  BY LookupPut
<1> HIDE DEF u
<1>4. Scalar(None).is # "list" /\ File(p).is # "list"
  BY DEF Scalar, File, Field, Table
<1>5. Lookup(u, "hash", Scalar(None)) = Scalar(None) /\ HashesOf(u, "sdist") = <<>>
  <2>1. Lookup(u, "hash", Scalar(None)) = Scalar(None) /\ Lookup(u, "sdist", Scalar(None)) \in {File(p), Scalar(None)}
    BY <1>1, <1>2, <1>3
  <2> QED BY <1>4, <2>1, HashesAre
<1>6. HashesOf(u, "wheels") = IF p.hashIn = "sdist" THEN <<>> ELSE <<p.hash>>
  <2>1. CASE p.hashIn = "sdist"
    <3>1. Lookup(u, "wheels", Scalar(None)) = Scalar(None)
      BY <1>1, <1>2, <1>3, <2>1
    <3> QED BY <1>4, <2>1, <3>1, HashesAre
  <2>2. CASE p.hashIn # "sdist"
    <3>1. Lookup(u, "wheels", Scalar(None)) = List(<<File(p)>>)
      BY <1>1, <1>2, <1>3, <2>2
    <3> QED BY <2>2, <3>1, HashesAre
  <2> QED BY <2>1, <2>2
<1>7. FirstPypiHash(u, "uv") = HashRead(p)
  <2>1. HashRead(p) = IF p.hashIn = "sdist" THEN NoIntegrity ELSE p.hash
    BY DEF HashRead
  <2>2. /\ HashesOf(u, "wheels") = <<>> => FirstPypiHash(u, "uv") = NoIntegrity
        /\ HashesOf(u, "wheels") = <<p.hash>> => FirstPypiHash(u, "uv") = p.hash
    BY <1>5, FirstHashIs
  <2> QED BY <1>6, <2>1, <2>2
<1>8. DepsField(u)
  <2>1. Lookup(u, "dependencies", Scalar(None)) = List(Fields(p.deps))
    BY <1>1, <1>2, <1>3
  <2>2. Len(p.deps) \in Nat /\ DOMAIN p.deps = 1..Len(p.deps)
    BY SeqIs
  <2>3. Tuples(Fields(p.deps), Len(p.deps))
    BY <2>2 DEF Tuples, Fields
  <2>4. IsSeq(Fields(p.deps))
    BY <2>2, <2>3, TuplesIsSeq
  <2> QED BY <2>1, <2>4 DEF DepsField, List
<1>9. \A d : Lookup(u, "name", d) = Scalar(p.name) /\ Lookup(u, "version", d) = Scalar(p.version)
  BY <1>1, <1>2, <1>3
<1> QED BY <1>7, <1>8, <1>9 DEF ReadAs, u

LEMMA UvWritten ==
  ASSUME NEW p, IsSeq(p.deps), p.hashIn \in {"wheels", "sdist"}, p.hash # None
  PROVE  Written(UvPackage(p), p, "uv")
PROOF
<1> DEFINE H == PackageHead(p)
           d == Multiline("dependencies", Fields(p.deps))
           f == IF p.hashIn = "sdist" THEN <<Pair("sdist", File(p))>> ELSE Multiline("wheels", <<File(p)>>)
           h == Header("table", Under("metadata"))
           n == Pair("name", Scalar("*"))
           e == <<h>> \o <<n>>
           dl == Line("dependencies", Fields(p.deps))
           u == Put(WithHash(p), "metadata", Star)
<1>1. UvPackage(p) = ((H \o d) \o f) \o e
  <2>1. e = <<h, n>>
    <3> HIDE DEF h, n
    <3> QED BY TwoIs
  <2>2. UvPackage(p) = ((H \o d) \o f) \o <<h, n>>
    BY DEF UvPackage, Fields, Under
  <2> HIDE DEF e, H, d, f
  <2> QED BY <2>1, <2>2
<1>2. Collapses(d, <<dl>>) /\ Keeps(<<dl>>, HeadTable(p), WithDeps(p))
  <2>1. Len(p.deps) \in Nat /\ DOMAIN p.deps = 1..Len(p.deps)
    BY SeqIs
  <2>2. Tuples(Fields(p.deps), Len(p.deps))
    BY <2>1 DEF Tuples, Fields
  <2>3. IsSeq(Fields(p.deps))
    BY <2>1, <2>2, TuplesIsSeq
  <2>4. Collapses(d, <<dl>>)
    BY <2>3, CollapseMultiline
  <2>5. dl.kind = "pair" /\ dl.key = "dependencies" /\ dl.value = List(Fields(p.deps))
    BY DEF Line
  <2> HIDE DEF dl
  <2>6. Keeps(<<dl>>, HeadTable(p), Put(HeadTable(p), "dependencies", List(Fields(p.deps))))
    BY <2>5, KeepsField
  <2> QED BY <2>4, <2>6 DEF WithDeps, dl
<1>3. \E l : Collapses(f, <<l>>) /\ Keeps(<<l>>, WithDeps(p), WithHash(p))
  <2>1. CASE p.hashIn = "sdist"
    <3> DEFINE l == Pair("sdist", File(p))
    <3>1. f = <<l>> /\ l.depth = 0 /\ l.kind = "pair" /\ l.key = "sdist" /\ l.value = File(p)
      BY <2>1 DEF Pair
    <3> HIDE DEF l
    <3>2. Collapses(<<l>>, <<l>>)
      BY <3>1, CollapseLine
    <3>3. Keeps(<<l>>, WithDeps(p), Put(WithDeps(p), "sdist", File(p)))
      BY <3>1, KeepsField
    <3> HIDE DEF f
    <3> QED BY <2>1, <3>1, <3>2, <3>3 DEF WithHash
  <2>2. CASE p.hashIn # "sdist"
    <3> DEFINE l == Line("wheels", <<File(p)>>)
    <3>1. l.kind = "pair" /\ l.key = "wheels" /\ l.value = List(<<File(p)>>)
      BY DEF Line
    <3>2. Collapses(f, <<l>>)
      BY <2>2, SmallSeqs, CollapseMultiline
    <3> HIDE DEF l
    <3>3. Keeps(<<l>>, WithDeps(p), Put(WithDeps(p), "wheels", List(<<File(p)>>)))
      BY <3>1, KeepsField
    <3> HIDE DEF f
    <3> QED BY <2>2, <3>2, <3>3 DEF WithHash
  <2> QED BY <2>1, <2>2
<1>4. Collapses(e, e) /\ Fills(e, WithHash(p), u)
  <2>1. h.depth = 0 /\ n.depth = 0 /\ n.kind = "pair" /\ n.key = "name" /\ n.value = Scalar("*")
    BY DEF Header, Pair
  <2> HIDE DEF n
  <2>2. Turns(<<h>> \o <<n>>, WithHash(p), Put(WithHash(p), "metadata", Table(Put(EmptyMap, "name", Scalar("*")))))
    BY <2>1, TurnsSub
  <2> HIDE DEF h
  <2>3. Collapses(<<h>> \o <<n>>, <<h>> \o <<n>>)
    BY <2>1, CollapseLine, CollapseBoth
  <2> QED BY <2>2, <2>3, TurnsFills DEF Star
<1>5. ReadAs(u, p, "uv")
  BY UvIsRead
<1> HIDE DEF d, f, e, dl, u, H
<1>6. PICK l : Collapses(f, <<l>>) /\ Keeps(<<l>>, WithDeps(p), WithHash(p))
  BY <1>3
<1>7. IsSeq(d) /\ IsSeq(f) /\ IsSeq(e)
  BY <1>2, <1>4, <1>6 DEF Collapses
<1>8. Fills(<<l>> \o e, WithDeps(p), u) /\ Collapses(f \o e, <<l>> \o e)
  BY <1>4, <1>6, <1>7, SmallSeqs, FillsOn, CollapseBoth
<1> DEFINE le == <<l>> \o e
           fe == f \o e
<1>9. IsSeq(le) /\ IsSeq(fe)
  BY <1>8 DEF Collapses
<1> HIDE DEF le, fe
<1>10. Fills(<<dl>> \o le, HeadTable(p), u) /\ Collapses(d \o fe, <<dl>> \o le)
  <2>1. Fills(le, WithDeps(p), u) /\ Collapses(fe, le)
    BY <1>8 DEF le, fe
  <2> QED BY <1>2, <1>9, <2>1, SmallSeqs, FillsOn, CollapseBoth
<1>11. Written(PackageHead(p) \o (d \o fe), p, "uv")
  BY <1>5, <1>10, HeadWritten
<1>12. ((H \o d) \o f) \o e = H \o (d \o fe)
  <2>1. IsSeq(H)
    <3> DEFINE x == Header("array", <<"package">>)
               y == Pair("name", Scalar(p.name))
               z == Pair("version", Scalar(p.version))
    <3>1. H = <<x, y, z>>
      BY DEF PackageHead, H
    <3> HIDE DEF x, y, z
    <3>2. H \in Seq({x, y, z})
      BY <3>1
    <3> QED BY <3>2, IsSeqOf
  <2>2. IsSeq(H \o d)
    BY <1>7, <2>1, ConcatIs
  <2>3. ((H \o d) \o f) \o e = (H \o d) \o (f \o e)
    <3> DEFINE X == H \o d
    <3>1. IsSeq(X)
      BY <2>2
    <3> HIDE DEF X
    <3>2. (X \o f) \o e = X \o (f \o e)
      BY <1>7, <3>1, ConcatAssoc
    <3> QED BY <3>2 DEF X
  <2>4. (H \o d) \o fe = H \o (d \o fe)
    <3>1. IsSeq(H) /\ IsSeq(d) /\ IsSeq(fe)
      BY <1>7, <1>9, <2>1
    <3> QED BY <3>1, ConcatAssoc
  <2> QED BY <2>3, <2>4 DEF fe
<1> QED BY <1>1, <1>11, <1>12 DEF H

-----------------------------------------------------------------------------
(* All the packages of poetry.lock or uv.lock.                             *)

\* The document has a table for each package of ps, in their order.
Holds(doc, ps, format) ==
  \E T : /\ IsSeq(T) /\ Len(T) = Len(ps) /\ HoldsPackages(doc, T)
         /\ \A i \in 1..Len(ps) : ReadAs(T[i], ps[i], format)
AllRead(lines, ps, format) ==
  \E c : /\ Collapses(lines, c)
         /\ \A doc : HoldsPackages(doc, <<>>) => Holds(Read(doc, c), ps, format)

LEMMA AllReadOn ==
  ASSUME NEW lines, NEW ps, IsSeq(ps), NEW format, AllRead(lines, ps, format),
         NEW b, NEW p, Written(b, p, format)
  PROVE  AllRead(lines \o b, Append(ps, p), format)
PROOF
<1>1. PICK c : /\ Collapses(lines, c)
               /\ \A doc : HoldsPackages(doc, <<>>) => Holds(Read(doc, c), ps, format)
  BY DEF AllRead
<1>2. PICK d : /\ Collapses(b, d)
               /\ \A doc, T : IsSeq(T) /\ HoldsPackages(doc, T) =>
                    \E t : ReadAs(t, p, format) /\ HoldsPackages(Read(doc, d), Append(T, t))
  BY DEF Written
<1>3. Collapses(lines \o b, c \o d)
  BY <1>1, <1>2, CollapseBoth
<1>4. ASSUME NEW doc, HoldsPackages(doc, <<>>) PROVE Holds(Read(doc, c \o d), Append(ps, p), format)
  <2>1. Read(doc, c \o d) = Read(Read(doc, c), d)
    BY <1>1, <1>2, ReadConcat DEF Collapses
  <2>2. PICK T : /\ IsSeq(T) /\ Len(T) = Len(ps) /\ HoldsPackages(Read(doc, c), T)
                 /\ \A i \in 1..Len(ps) : ReadAs(T[i], ps[i], format)
    BY <1>1, <1>4 DEF Holds
  <2>3. PICK t : ReadAs(t, p, format) /\ HoldsPackages(Read(Read(doc, c), d), Append(T, t))
    BY <1>2, <2>2
  <2>4. /\ IsSeq(Append(T, t)) /\ Len(Append(T, t)) = Len(ps) + 1 /\ Append(T, t)[Len(ps) + 1] = t
        /\ \A n \in 1..Len(ps) : Append(T, t)[n] = T[n]
    BY <2>2, AppendedIs
  <2>5. /\ Len(Append(ps, p)) = Len(ps) + 1 /\ Append(ps, p)[Len(ps) + 1] = p
        /\ \A n \in 1..Len(ps) : Append(ps, p)[n] = ps[n]
    BY AppendedIs
  <2>6. ASSUME NEW i \in 1..(Len(ps) + 1) PROVE ReadAs(Append(T, t)[i], Append(ps, p)[i], format)
    <3>1. CASE i = Len(ps) + 1
      BY <2>3, <2>4, <2>5, <3>1
    <3>2. CASE i # Len(ps) + 1
      <4>1. i \in 1..Len(ps)
        BY <3>2, SeqIs
      <4> QED BY <2>2, <2>4, <2>5, <4>1
    <3> QED BY <3>1, <3>2
  <2> QED BY <2>1, <2>3, <2>4, <2>5, <2>6 DEF Holds
<1> QED BY <1>3, <1>4 DEF AllRead

LEMMA AllReadNothing == \A format : AllRead(<<>>, <<>>, format)
PROOF
<1> SUFFICES ASSUME NEW format PROVE AllRead(<<>>, <<>>, format)
  OBVIOUS
<1>1. \A doc : Read(doc, <<>>) = doc
  BY SmallSeqs, ReadMore
<1>2. Len(<<>>) = 0 /\ \A i : i \notin 1..0
  OBVIOUS
<1>3. \A doc : HoldsPackages(doc, <<>>) => Holds(Read(doc, <<>>), <<>>, format)
  BY <1>1, <1>2, SmallSeqs DEF Holds
<1> QED BY <1>3, CollapseNothing DEF AllRead

LEMMA BlocksAreRead ==
  ASSUME NEW format, NEW bs, IsSeq(bs), NEW ps, IsSeq(ps), Len(bs) = Len(ps),
         \A i \in 1..Len(ps) : Written(bs[i], ps[i], format)
  PROVE  AllRead(FlattenSeq(bs), ps, format)
PROOF
<1> DEFINE Good(b, q) == (\A i \in 1..Len(q) : Written(b[i], q[i], format)) => AllRead(FlattenSeq(b), q, format)
           Bad == {n \in Nat : \E b, q : IsSeq(b) /\ IsSeq(q) /\ Len(b) = n /\ Len(q) = n /\ ~Good(b, q)}
<1>1. SUFFICES ASSUME ~Good(bs, ps) PROVE FALSE
  OBVIOUS
<1>2. Len(bs) \in Bad
  <2> HIDE DEF Good
  <2> QED BY <1>1, SeqIs
<1>3. PICK n \in Bad : \A m \in Bad : n <= m
  <2> HIDE DEF Good
  <2>1. Bad \in SUBSET Nat
    OBVIOUS
  <2> HIDE DEF Bad
  <2> QED BY <1>2, <2>1, LeastNatural
<1>4. PICK b, q : IsSeq(b) /\ IsSeq(q) /\ Len(b) = n /\ Len(q) = n /\ ~Good(b, q)
  <2> HIDE DEF Good
  <2> QED OBVIOUS
<1>5. CASE n = 0
  <2>1. \A s : IsSeq(s) /\ Len(s) = 0 => s = <<>>
    BY DEF IsSeq
  <2>2. b = <<>> /\ q = <<>>
    BY <1>4, <1>5, <2>1
  <2>3. FlattenSeq(<<>>) = <<>>
    BY SmallSeqs, FlattenedMore
  <2> QED BY <1>4, <2>2, <2>3, AllReadNothing
<1>6. CASE n # 0
  <2>1. PICK v, x : IsSeq(v) /\ b = Append(v, x) /\ Len(b) = Len(v) + 1 /\ Len(v) \in Nat
    BY <1>4, <1>6, SplitAtLast
  <2>2. PICK w, y : IsSeq(w) /\ q = Append(w, y) /\ Len(q) = Len(w) + 1 /\ Len(w) \in Nat
    BY <1>4, <1>6, SplitAtLast
  <2>3. Len(v) = Len(w) /\ Len(w) \in Nat /\ ~(n <= Len(w))
    <3>1. \A i, j \in Nat : i + 1 = j + 1 => i = j
      OBVIOUS
    <3>2. \A i \in Nat : ~(i + 1 <= i)
      OBVIOUS
    <3>3. n = Len(v) + 1 /\ n = Len(w) + 1
      BY <1>4, <2>1, <2>2
    <3> QED BY <2>1, <2>2, <3>1, <3>2, <3>3
  <2>4. Good(v, w)
    <3> HIDE DEF Good
    <3>1. Len(w) \notin Bad
      <4> HIDE DEF Bad
      <4> QED BY <1>3, <2>3
    <3> QED BY <2>1, <2>2, <2>3, <3>1
  <2>5. /\ b[Len(w) + 1] = x /\ \A i \in 1..Len(w) : b[i] = v[i]
        /\ q[Len(w) + 1] = y /\ \A i \in 1..Len(w) : q[i] = w[i]
    BY <2>1, <2>2, <2>3, AppendedIs
  <2>6. \A i \in 1..Len(q) : Written(b[i], q[i], format)
    BY <1>4
  <2>7. Written(x, y, format) /\ \A i \in 1..Len(w) : Written(v[i], w[i], format)
    <3>1. Len(w) + 1 \in 1..Len(q) /\ \A i \in 1..Len(w) : i \in 1..Len(q)
      BY <2>2
    <3> QED BY <2>5, <2>6, <3>1
  <2>8. AllRead(FlattenSeq(v), w, format)
    BY <2>4, <2>7
  <2>9. IsSeq(x)
    BY <2>7 DEF Written, Collapses
  <2>10. FlattenSeq(b) = FlattenSeq(v) \o x
    BY <2>1, <2>9, FlattenedMore
  <2>11. AllRead(FlattenSeq(b), q, format)
    BY <2>2, <2>7, <2>8, <2>10, AllReadOn
  <2> QED BY <1>4, <2>11
<1> QED BY <1>5, <1>6

LEMMA CollapseIs ==
  ASSUME NEW b, NEW c, Collapses(b, c)
  PROVE  Collapse(b) = c
PROOF
<1>1. NothingJoined = Plain(<<>>)
  BY DEF NothingJoined, Plain
<1>2. Joined(Plain(<<>>), b) = Plain(<<>> \o c) /\ <<>> \o c = c
  BY SmallSeqs, ConcatIs DEF Collapses
<1>3. Plain(c).out = c
  BY DEF Plain
<1> QED BY <1>1, <1>2, <1>3 DEF Collapse

LEMMA UvStart ==
  LET l == Pair("version", Scalar("1"))
  IN  Collapses(<<l>>, <<l>>) /\ HoldsPackages(Read(EmptyDoc, <<l>>), <<>>)
PROOF
<1> DEFINE l == Pair("version", Scalar("1"))
           r == Put(EmptyMap, "version", Scalar("1"))
<1>1. l.depth = 0 /\ l.kind = "pair" /\ l.key = "version" /\ l.value = Scalar("1")
  BY DEF Pair
<1> HIDE DEF l, r
<1>2. Read(EmptyDoc, <<l>>) = SetKey(EmptyDoc, "version", Scalar("1"))
  <2>1. ReadLine(EmptyDoc, l) = SetKey(EmptyDoc, "version", Scalar("1"))
    BY <1>1 DEF ReadLine
  <2> QED BY <2>1, ReadOne
<1>3. EmptyDoc.current.at = "root"
  BY DEF EmptyDoc, Target
<1>4. SetKey(EmptyDoc, "version", Scalar("1")) = [EmptyDoc EXCEPT !.root = Put(@, "version", Scalar("1"))]
  BY <1>3 DEF SetKey
<1>5. [EmptyDoc EXCEPT !.root = Put(@, "version", Scalar("1"))]
        = Doc(r, EmptyMap, EmptyMap, Target("root", <<>>))
  BY DEF EmptyDoc, Doc, r
<1>6. Packed(<<>>) = EmptyMap
  BY DEF Packed
<1>7. HoldsPackages(Read(EmptyDoc, <<l>>), <<>>)
  BY <1>2, <1>4, <1>5, <1>6 DEF HoldsPackages
<1>8. Collapses(<<l>>, <<l>>)
  BY <1>1, CollapseLine
<1> QED BY <1>7, <1>8 DEF l

LEMMA EmptyStart == HoldsPackages(EmptyDoc, <<>>)
PROOF
<1>1. EmptyDoc = Doc(EmptyMap, EmptyMap, EmptyMap, Target("root", <<>>))
  BY DEF EmptyDoc, Doc
<1>2. Packed(<<>>) = EmptyMap
  BY DEF Packed
<1> QED BY <1>1, <1>2 DEF HoldsPackages

LEMMA PoetryEnd ==
  LET h == Header("table", <<"metadata">>)
      l == Pair("lock-version", Scalar("2.0"))
  IN  /\ Collapses(<<h, l>>, <<h, l>>)
      /\ \A doc, T : HoldsPackages(doc, T) => HoldsPackages(Read(doc, <<h, l>>), T)
PROOF
<1> DEFINE h == Header("table", <<"metadata">>)
           l == Pair("lock-version", Scalar("2.0"))
           m == <<"metadata">>
<1>1. /\ h.depth = 0 /\ h.kind = "table" /\ h.path = m
      /\ l.depth = 0 /\ l.kind = "pair" /\ l.key = "lock-version" /\ l.value = Scalar("2.0")
  BY DEF Pair, Header
<1> HIDE DEF h, l
<1>2. <<h>> \o <<l>> = <<h, l>>
  BY TwoIs
<1>3. Collapses(<<h>> \o <<l>>, <<h>> \o <<l>>)
  BY <1>1, CollapseLine, CollapseBoth
<1>4. ASSUME NEW doc, NEW T, HoldsPackages(doc, T) PROVE HoldsPackages(Read(doc, <<h>> \o <<l>>), T)
  <2>1. PICK r, tb, c : doc = Doc(r, tb, Packed(T), c)
    BY <1>4 DEF HoldsPackages
  <2>2. Read(doc, <<h>> \o <<l>>) = ReadLine(ReadLine(doc, h), l)
    BY SmallSeqs, ReadConcat, ReadOne
  <2> DEFINE d == Doc(r, Put(tb, m, Lookup(tb, m, EmptyMap)), Packed(T), Target("table", m))
             tables == [d.tables EXCEPT ![m] = Put(@, "lock-version", Scalar("2.0"))]
  <2>3. ReadLine(doc, h) = OpenTable(doc, m)
    BY <1>1 DEF ReadLine
  <2>4. ~Inside(doc, m)
    BY DEF Inside
  <2>5. OpenTable(doc, m) = [doc EXCEPT !.tables = Put(@, m, Lookup(@, m, EmptyMap)),
                                        !.current = Target("table", m)]
    BY <2>4 DEF OpenTable
  <2>6. OpenTable(doc, m) = d
    <3> HIDE DEF m
    <3> QED BY <2>1, <2>5 DEF Doc
  <2>7. d.current.at = "table" /\ d.current.path = m
    BY DEF Doc, Target
  <2> HIDE DEF m
  <2>8. ReadLine(d, l) = SetKey(d, "lock-version", Scalar("2.0"))
    <3> HIDE DEF d
    <3> QED BY <1>1 DEF ReadLine
  <2>9. SetKey(d, "lock-version", Scalar("2.0")) = [d EXCEPT !.tables = tables]
    <3>1. SetKey(d, "lock-version", Scalar("2.0")) = [d EXCEPT !.tables[m] = Put(@, "lock-version", Scalar("2.0"))]
      <4> HIDE DEF d
      <4> QED BY <2>7 DEF SetKey
    <3> HIDE DEF d
    <3> QED BY <3>1
  <2>10. [d EXCEPT !.tables = tables] = Doc(r, tables, Packed(T), Target("table", m))
    <3> HIDE DEF tables
    <3> QED BY DEF Doc
  <2> QED BY <2>2, <2>3, <2>6, <2>8, <2>9, <2>10 DEF HoldsPackages
<1> QED BY <1>2, <1>3, <1>4 DEF h, l

LEMMA HeldIs ==
  ASSUME NEW doc, NEW T, IsSeq(T), HoldsPackages(doc, T)
  PROVE  Lookup(doc.arrays, <<"package">>, <<>>) = T
PROOF
<1>1. PICK r, tb, c : doc = Doc(r, tb, Packed(T), c)
  BY DEF HoldsPackages
<1>2. doc.arrays = Packed(T)
  BY <1>1 DEF Doc
<1> QED BY <1>2, PackedIs DEF Pkg

LEMMA TomlIsRead ==
  ASSUME NEW format \in {"poetry", "uv"}, NEW ps, IsSeq(ps), \A e \in Range(ps) : IsEntry(format, e)
  PROVE  \E T : /\ IsSeq(T) /\ Len(T) = Len(ps)
                /\ \A i \in 1..Len(ps) : ReadAs(T[i], ps[i], format)
                /\ Lookup(ParseSimpleToml(TomlText(format, ps)).arrays, <<"package">>, <<>>) = T
PROOF
<1> DEFINE bs == [i \in DOMAIN ps |-> IF format = "uv" THEN UvPackage(ps[i]) ELSE PoetryPackage(ps[i])]
           text == TomlText(format, ps)
           fl == FlattenSeq(bs)
<1>1. Len(ps) \in Nat /\ DOMAIN ps = 1..Len(ps)
  BY SeqIs
<1>2. ASSUME NEW i \in 1..Len(ps) PROVE Written(bs[i], ps[i], format)
  <2>1. ps[i] \in Range(ps)
    BY <1>1 DEF Range
  <2>2. IsEntry(format, ps[i])
    BY <2>1
  <2>3. bs[i] = IF format = "uv" THEN UvPackage(ps[i]) ELSE PoetryPackage(ps[i])
    BY <1>1
  <2> DEFINE p == ps[i]
  <2> HIDE DEF p, bs
  <2>4. /\ IsSeq(p.deps) /\ (p.hashIn = "none" \/ p.hash # None)
        /\ p.hashIn \in IF format = "uv" THEN {"wheels", "sdist"} ELSE {"list", "tables", "none"}
    BY <2>2 DEF IsEntry, p
  <2>5. CASE format = "uv"
    <3>1. p.hashIn \in {"wheels", "sdist"} /\ p.hash # None
      BY <2>4, <2>5
    <3> QED BY <2>3, <2>4, <2>5, <3>1, UvWritten DEF p
  <2>6. CASE format = "poetry"
    <3>1. p.hashIn \in {"list", "tables", "none"}
      BY <2>4, <2>6
    <3> QED BY <2>3, <2>4, <2>6, <3>1, PoetryWritten DEF p
  <2> QED BY <2>5, <2>6
<1>3. IsSeq(bs) /\ Len(bs) = Len(ps)
  <2>1. Tuples(bs, Len(ps))
    BY <1>1 DEF Tuples
  <2> HIDE DEF bs
  <2> QED BY <1>1, <2>1, TuplesIsSeq
<1>4. /\ format = "uv" => text = (<<Pair("version", Scalar("1"))>> \o fl) \o <<>>
      /\ format = "poetry" => text = (<<>> \o fl) \o <<Header("table", <<"metadata">>), Pair("lock-version", Scalar("2.0"))>>
  BY DEF TomlText
<1> HIDE DEF bs
<1>5. PICK c : /\ Collapses(fl, c)
               /\ \A doc : HoldsPackages(doc, <<>>) => Holds(Read(doc, c), ps, format)
  BY <1>2, <1>3, BlocksAreRead DEF AllRead
<1>6. IsSeq(fl) /\ IsSeq(c)
  BY <1>5 DEF Collapses
<1> HIDE DEF fl
<1>7. CASE format = "uv"
  <2> DEFINE l == Pair("version", Scalar("1"))
  <2>1. Collapses(<<l>>, <<l>>) /\ HoldsPackages(Read(EmptyDoc, <<l>>), <<>>)
    BY UvStart
  <2>2. text = (<<l>> \o fl) \o <<>>
    BY <1>4, <1>7
  <2> HIDE DEF l, text
  <2>3. Collapses(<<l>> \o fl, <<l>> \o c)
    BY <1>5, <2>1, CollapseBoth
  <2>4. text = <<l>> \o fl
    <3> DEFINE x == <<l>> \o fl
    <3>1. IsSeq(x)
      BY <2>3 DEF Collapses
    <3> HIDE DEF x
    <3>2. x \o <<>> = x
      BY <3>1, SmallSeqs, ConcatIs
    <3> QED BY <2>2, <3>2 DEF x
  <2>5. Collapse(text) = <<l>> \o c
    BY <2>3, <2>4, CollapseIs
  <2>6. Read(EmptyDoc, <<l>> \o c) = Read(Read(EmptyDoc, <<l>>), c)
    BY <1>6, SmallSeqs, ReadConcat
  <2>7. Holds(ParseSimpleToml(text), ps, format)
    BY <1>5, <2>1, <2>5, <2>6 DEF ParseSimpleToml
  <2>8. PICK T : /\ IsSeq(T) /\ Len(T) = Len(ps) /\ HoldsPackages(ParseSimpleToml(text), T)
                 /\ \A i \in 1..Len(ps) : ReadAs(T[i], ps[i], format)
    BY <2>7 DEF Holds
  <2> QED BY <2>8, HeldIs DEF text
<1>8. CASE format = "poetry"
  <2> DEFINE z == <<Header("table", <<"metadata">>), Pair("lock-version", Scalar("2.0"))>>
  <2>1. /\ Collapses(z, z)
        /\ \A doc, T : HoldsPackages(doc, T) => HoldsPackages(Read(doc, z), T)
    BY PoetryEnd
  <2>2. text = (<<>> \o fl) \o z
    BY <1>4, <1>8
  <2> HIDE DEF z, text
  <2>3. text = fl \o z
    BY <1>6, <2>2, SmallSeqs, ConcatIs
  <2>4. Collapse(text) = c \o z
    <3>1. Collapses(fl \o z, c \o z)
      BY <1>5, <2>1, CollapseBoth
    <3> QED BY <2>3, <3>1, CollapseIs
  <2>5. Read(EmptyDoc, c \o z) = Read(Read(EmptyDoc, c), z)
    BY <1>6, <2>1, ReadConcat DEF Collapses
  <2>6. Holds(Read(EmptyDoc, c), ps, format)
    BY <1>5, EmptyStart
  <2>7. PICK T : /\ IsSeq(T) /\ Len(T) = Len(ps) /\ HoldsPackages(Read(EmptyDoc, c), T)
                 /\ \A i \in 1..Len(ps) : ReadAs(T[i], ps[i], format)
    BY <2>6 DEF Holds
  <2>8. HoldsPackages(ParseSimpleToml(text), T)
    BY <2>1, <2>4, <2>5, <2>7 DEF ParseSimpleToml
  <2> QED BY <2>7, <2>8, HeldIs DEF text
<1> QED BY <1>7, <1>8

LEMMA SetToSeqIs ==
  ASSUME NEW S, IsFiniteSet(S)
  PROVE  IsSeq(SetToSeq(S))
PROOF
<1> DEFINE n == Cardinality(S)
           s == SetToSeq(S)
<1>1. n \in Nat /\ ExistsBijection(1..n, S)
  BY FS_CardinalityType
<1>2. \E f \in [1..n -> S] : IsInjective(f)
  BY <1>1 DEF ExistsBijection, Bijection, Injection, IsInjective
<1>3. s \in [1..n -> S]
  BY <1>2 DEF SetToSeq
<1> HIDE DEF s, n
<1>4. Tuples(s, n)
  BY <1>3 DEF Tuples
<1> QED BY <1>1, <1>4, TuplesIsSeq DEF s

LEMMA DepNamesAre ==
  ASSUME NEW t, DepsField(t), NEW format
  PROVE  IsSeq(ExtractPypiDepNames(t, format))
PROOF
<1> DEFINE v == Lookup(t, "dependencies", Scalar(None))
           NameIn(e) == IF e.is = "table" THEN ScalarOf(Lookup(e.t, "name", Scalar(None))) ELSE None
           s == [i \in DOMAIN v.l |-> NameIn(v.l[i])]
           K == {i \in DOMAIN s : s[i] # None}
<1>1. CASE v.is = "table"
  <2>1. ExtractPypiDepNames(t, format) = SetToSeq(DOMAIN v.t)
    BY <1>1 DEF ExtractPypiDepNames
  <2> QED BY <1>1, <2>1, SetToSeqIs DEF DepsField
<1>2. CASE v.is = "list" /\ format = "uv"
  <2>1. ExtractPypiDepNames(t, format) = Picked(s, K)
    BY <1>2 DEF ExtractPypiDepNames, Only
  <2>2. Len(v.l) \in Nat /\ DOMAIN v.l = 1..Len(v.l)
    BY <1>2, SeqIs DEF DepsField
  <2>3. Tuples(s, Len(v.l))
    BY <2>2 DEF Tuples
  <2>4. K \in SUBSET DOMAIN s
    OBVIOUS
  <2> HIDE DEF s, K
  <2>5. IsSeq(s)
    BY <2>2, <2>3, TuplesIsSeq
  <2> QED BY <2>1, <2>4, <2>5, PickedIs
<1>3. CASE v.is # "table" /\ ~(v.is = "list" /\ format = "uv")
  <2>1. ExtractPypiDepNames(t, format) = <<>>
    BY <1>3 DEF ExtractPypiDepNames
  <2> QED BY <2>1, SmallSeqs
<1> QED BY <1>1, <1>2, <1>3

LEMMA ReadNames ==
  ASSUME NEW t, NEW p, NEW format, ReadAs(t, p, format), p.name # None
  PROVE  /\ ScalarOf(Lookup(t, "name", Scalar(None))) = p.name
         /\ ScalarOf(t["name"]) = p.name
         /\ ScalarOf(Lookup(t, "version", Scalar(NoVersion))) = p.version
         /\ FirstPypiHash(t, format) = HashRead(p)
PROOF
<1>1. \A x : Scalar(x).is = "scalar" /\ Scalar(x).s = x
  BY DEF Scalar
<1>2. \A x : ScalarOf(Scalar(x)) = x
  BY <1>1 DEF ScalarOf
<1>3. /\ Lookup(t, "name", Scalar(None)) = Scalar(p.name)
      /\ Lookup(t, "version", Scalar(NoVersion)) = Scalar(p.version)
      /\ FirstPypiHash(t, format) = HashRead(p)
  BY DEF ReadAs
<1>4. Scalar(p.name) # Scalar(None)
  BY <1>2
<1>5. t["name"] = Scalar(p.name)
  BY <1>3, <1>4 DEF Lookup
<1> QED BY <1>2, <1>3, <1>5

LEMMA PypiTells ==
  ASSUME NEW lock, IsLockfile(lock), lock.format \in {"poetry", "uv"},
         NEW T, IsSeq(T), Len(T) = Len(lock.text),
         \A i \in 1..Len(lock.text) : ReadAs(T[i], lock.text[i], lock.format)
  PROVE  Tells(PypiGraph(T, lock.format), lock) /\ IsWired(PypiGraph(T, lock.format))
PROOF
<1> DEFINE s == lock.text
           format == lock.format
           K == {i \in DOMAIN T : ScalarOf(Lookup(T[i], "name", Scalar(None))) # None}
           named == Picked(T, K)
           PinFor(t) == Pin(Canonical[ScalarOf(t["name"])], ScalarOf(Lookup(t, "version", Scalar(NoVersion))),
                            FirstPypiHash(t, format))
           pins == [i \in DOMAIN named |-> PinFor(named[i])]
           nodes == Inserted(pins)
           names(t) == ExtractPypiDepNames(t, format)
           canonical(t) == [i \in DOMAIN names(t) |-> Canonical[names(t)[i]]]
           g == [i \in DOMAIN nodes |->
                   IF i = 1 THEN nodes[1]
                   ELSE [nodes[i] EXCEPT !.deps = FirstOf(nodes, canonical(named[i - 1]))]]
<1>1. PypiGraph(T, format) = g
  BY DEF PypiGraph, Only
<1>2. /\ IsSeq(s)
      /\ \A p \in Range(s) : p.name \in DOMAIN Canonical /\ p.version \in Versions
  BY DEF IsLockfile, IsEntry
<1>3. /\ DOMAIN s = 1..Len(s) /\ Len(s) \in Nat /\ DOMAIN T = 1..Len(s)
      /\ \A i \in 1..Len(s) : s[i] \in Range(s)
  BY <1>2, SeqIs DEF Range
<1>4. ASSUME NEW i \in 1..Len(s)
      PROVE  /\ ScalarOf(Lookup(T[i], "name", Scalar(None))) = s[i].name
             /\ s[i].name # None /\ DepsField(T[i])
             /\ PinFor(T[i]) = Pin(PypiName(s[i]), s[i].version, HashRead(s[i]))
  <2>1. s[i].name # None /\ ReadAs(T[i], s[i], format)
    BY <1>2, <1>3, NamesAssumption
  <2> HIDE DEF s, format
  <2>2. /\ ScalarOf(Lookup(T[i], "name", Scalar(None))) = s[i].name
        /\ ScalarOf(T[i]["name"]) = s[i].name
        /\ ScalarOf(Lookup(T[i], "version", Scalar(NoVersion))) = s[i].version
        /\ FirstPypiHash(T[i], format) = HashRead(s[i])
    BY <2>1, ReadNames
  <2>3. DepsField(T[i])
    BY <2>1 DEF ReadAs
  <2> QED BY <2>1, <2>2, <2>3 DEF PypiName
<1>5. K = DOMAIN T
  BY <1>3, <1>4
<1>6. IsSeq(named) /\ Range(named) = {T[i] : i \in 1..Len(s)}
  <2>1. K \in SUBSET DOMAIN T
    OBVIOUS
  <2>2. IsSeq(named) /\ Range(named) = {T[i] : i \in K}
    <3> HIDE DEF K
    <3> QED BY <2>1, PickedIs
  <2> QED BY <1>3, <1>5, <2>2
<1>7. Locked(lock) = {<<PypiName(p), p.version, HashRead(p)>> : p \in Range(s)}
  BY DEF Locked
<1> HIDE DEF named, s, format, K
<1>8. DOMAIN named = 1..Len(named) /\ Len(named) \in Nat
  BY <1>6, SeqIs
<1>9. IsSeq(pins) /\ Len(pins) = Len(named)
  <2>1. Tuples(pins, Len(named))
    BY <1>8 DEF Tuples
  <2> HIDE DEF pins
  <2> QED BY <1>8, <2>1, TuplesIsSeq
<1>10. Range(pins) = {Pin(PypiName(p), p.version, HashRead(p)) : p \in Range(s)}
  <2>1. Range(pins) = {PinFor(t) : t \in Range(named)}
    BY DEF Range
  <2> HIDE DEF PinFor, pins
  <2>2. {PinFor(t) : t \in Range(named)} = {PinFor(T[i]) : i \in 1..Len(s)}
    BY <1>6
  <2>3. {PinFor(T[i]) : i \in 1..Len(s)} = {Pin(PypiName(s[i]), s[i].version, HashRead(s[i])) : i \in 1..Len(s)}
    BY <1>4
  <2>4. Range(s) = {s[i] : i \in 1..Len(s)}
    BY <1>3 DEF Range
  <2>5. {Pin(PypiName(s[i]), s[i].version, HashRead(s[i])) : i \in 1..Len(s)}
          = {Pin(PypiName(p), p.version, HashRead(p)) : p \in Range(s)}
    BY <2>4
  <2> QED BY <2>1, <2>2, <2>3, <2>5
<1> HIDE DEF pins
<1>11. \A p \in Range(pins) : IsNamed(p)
  <2>1. \A p \in Range(s) : PypiName(p) \in Nat /\ p.version \in Versions
    BY <1>2, NamesAssumption DEF PypiName
  <2>2. \A n, v, h : Pin(n, v, h).name = n /\ Pin(n, v, h).version = v
    BY DEF Pin
  <2> QED BY <1>10, <2>1, <2>2 DEF IsNamed, Versions
<1>12. IsSeq(nodes) /\ Len(nodes) = Len(named) + 1 /\ DOMAIN nodes = 1..Len(nodes)
  BY <1>9, InsertedIs, SeqIs
<1>13. ASSUME NEW t \in Range(named) PROVE IsSeq(canonical(t))
  <2>1. DepsField(t)
    BY <1>4, <1>6
  <2>2. IsSeq(names(t))
    BY <2>1, DepNamesAre
  <2> HIDE DEF names
  <2>3. Len(names(t)) \in Nat /\ DOMAIN names(t) = 1..Len(names(t))
    BY <2>2, SeqIs
  <2>4. Tuples(canonical(t), Len(names(t)))
    BY <2>3 DEF Tuples
  <2> HIDE DEF canonical
  <2> QED BY <2>3, <2>4, TuplesIsSeq
<1> HIDE DEF canonical, names
<1>14. ASSUME NEW i \in 1..Len(nodes) PROVE \E d : GoodDeps(d) /\ g[i] = [nodes[i] EXCEPT !.deps = d]
  <2>1. CASE i = 1
    <3>1. g[i] = nodes[i]
      BY <1>12, <2>1
    <3>2. [nodes[i] EXCEPT !.deps = <<>>] = nodes[i]
      BY <1>9, UnchangedNode
    <3> HIDE DEF g, nodes
    <3> QED BY <3>1, <3>2, NoDeps
  <2>2. CASE i # 1
    <3>1. i - 1 \in DOMAIN named
      BY <1>8, <1>12, <2>2
    <3>2. named[i - 1] \in Range(named)
      BY <3>1 DEF Range
    <3>3. GoodDeps(FirstOf(nodes, canonical(named[i - 1])))
      BY <1>13, <3>2, FirstOfDeps
    <3>4. g[i] = [nodes[i] EXCEPT !.deps = FirstOf(nodes, canonical(named[i - 1]))]
      BY <1>12, <2>2
    <3> HIDE DEF g, nodes
    <3> QED BY <3>3, <3>4
  <2> QED BY <2>1, <2>2
<1>15. Given(g, nodes)
  <2>1. Tuples(g, Len(nodes))
    BY <1>12 DEF Tuples
  <2> HIDE DEF g, nodes
  <2> QED BY <1>14, <2>1 DEF Given
<1> HIDE DEF g
<1>16. IsWired(g) /\ IsGraph(Packages(g)) /\ ArtifactsOf(Packages(g)) = Pins(Range(pins))
  BY <1>9, <1>11, <1>15, GivenIs
<1>17. Pins(Range(pins)) = Pinned(lock)
  <2> DEFINE A(p) == <<PypiName(p), p.version, HashRead(p)>>
             P(p) == Pin(PypiName(p), p.version, HashRead(p))
  <2>1. \A p : PinOf(P(p)) = A(p) /\ P(p).version = p.version /\ A(p)[2] = p.version
    BY DEF Pin, PinOf
  <2>2. Pinned(lock) = {a \in {A(p) : p \in Range(s)} : a[2] # NoVersion}
    BY <1>7 DEF Pinned
  <2>3. Range(pins) = {P(p) : p \in Range(s)}
    BY <1>10
  <2> DEFINE R == Range(s)
             V == {p \in R : p.version # NoVersion}
             Z == {z \in Range(pins) : z.version # NoVersion}
  <2> HIDE DEF A, P, R
  <2>4. Z = {P(p) : p \in V}
    BY <2>1, <2>3 DEF R
  <2>5. Pinned(lock) = {A(p) : p \in V}
    BY <2>1, <2>2 DEF R
  <2> HIDE DEF Z, V
  <2>6. {PinOf(n) : n \in Z} = {A(p) : p \in V}
    BY <2>1, <2>4
  <2> QED BY <2>5, <2>6 DEF Pins, Z
<1> QED BY <1>1, <1>16, <1>17 DEF Tells, format

-----------------------------------------------------------------------------
(* The comparison and the search of what the files say.                    *)

\* Every parser makes a graph that says what the lockfile pins.
LEMMA ParsedTells ==
  ASSUME NEW lock, IsLockfile(lock)
  PROVE  /\ Tells(ParseLockfileText(TextOf(lock)), lock)
         /\ IsWired(ParseLockfileText(TextOf(lock)))
PROOF
<1>1. lock.format \in {"npm", "pnpm", "yarn", "requirements", "poetry", "uv"}
  BY DEF IsLockfile
<1>2. CASE lock.format = "npm"
  <2>1. ParseLockfileText(TextOf(lock)) = NpmGraph(lock.text)
    BY <1>2 DEF ParseLockfileText, TextOf
  <2> QED BY <1>2, <2>1, NpmTells
<1>3. CASE lock.format = "pnpm"
  <2>1. ParseLockfileText(TextOf(lock)) = PnpmGraph(lock.root, lock.text)
    BY <1>3 DEF ParseLockfileText, TextOf
  <2> QED BY <1>3, <2>1, PnpmTells
<1>4. CASE lock.format = "yarn"
  <2>1. ParseLockfileText(TextOf(lock)) = YarnGraph(lock.text)
    BY <1>4 DEF ParseLockfileText, TextOf
  <2> QED BY <1>4, <2>1, YarnTells
<1>5. CASE lock.format = "requirements"
  <2>1. ParseLockfileText(TextOf(lock)) = RequirementsGraph(lock.text)
    BY <1>5 DEF ParseLockfileText, TextOf
  <2> QED BY <1>5, <2>1, RequirementsTell
<1>6. CASE lock.format \in {"poetry", "uv"}
  <2> DEFINE x == TextOf(lock)
             toml == TomlText(lock.format, lock.text)
  <2>1. x = [lock EXCEPT !.text = toml]
    BY <1>6 DEF TextOf
  <2> HIDE DEF toml
  <2>2. {"format", "text"} \subseteq DOMAIN lock
    BY DEF IsLockfile
  <2>3. x.text = toml /\ x.format = lock.format
    BY <2>1, <2>2
  <2> HIDE DEF x
  <2>4. ParseLockfileText(x) = TomlGraph(toml, lock.format)
    BY <1>6, <2>3 DEF ParseLockfileText
  <2>5. IsSeq(lock.text) /\ \A e \in Range(lock.text) : IsEntry(lock.format, e)
    BY DEF IsLockfile
  <2>6. PICK T : /\ IsSeq(T) /\ Len(T) = Len(lock.text)
                 /\ \A i \in 1..Len(lock.text) : ReadAs(T[i], lock.text[i], lock.format)
                 /\ Lookup(ParseSimpleToml(toml).arrays, <<"package">>, <<>>) = T
    BY <1>6, <2>5, TomlIsRead DEF toml
  <2>7. TomlGraph(toml, lock.format) = PypiGraph(T, lock.format)
    BY <2>6 DEF TomlGraph
  <2> QED BY <1>6, <2>4, <2>6, <2>7, PypiTells DEF x
<1> QED BY <1>1, <1>2, <1>3, <1>4, <1>5, <1>6

\* Until the search begins both lockfiles are those of one world, and a result of the
\* comparison is about the two graphs they are parsed to.
DiffInv ==
  /\ \E w \in Worlds : lockNew \in w.news /\ (graph = None => lockOld \in w.olds)
  /\ Computed => /\ graph = None
                 /\ old = Packages(ParseLockfileText(TextOf(lockOld)))
                 /\ new = Packages(NewGraph)

LEMMA DiffStarts == DiffInit => DiffInv
BY DEF DiffInit, DiffInv, CompareInit, SearchInit, Computed

LEMMA DiffKeeps == DiffInv /\ [DiffNext]_diffVars => DiffInv'
PROOF
<1> SUFFICES ASSUME DiffInv, [DiffNext]_diffVars PROVE DiffInv'
  OBVIOUS
<1> USE DEF DiffInv, Computed
<1>1. CASE DiffLockfiles
  BY <1>1 DEF DiffLockfiles, Compare, searchVars, NewGraph
<1>2. CASE SearchNew
  <2>1. PICK key \in Keys(NewGraph) : BeginSearch(NewGraph, key)
    BY <1>2 DEF SearchNew
  <2>2. graph' = NewGraph /\ lockNew' = lockNew /\ changes' = None
    BY <1>2, <2>1 DEF SearchNew, BeginSearch, compareVars
  <2>3. NewGraph # None
    BY WorldsAssumption DEF NewGraph
  <2> QED BY <2>2, <2>3
<1>3. CASE FollowPaths
  BY <1>3 DEF FollowPaths, SearchStep, compareVars, NewGraph
<1>4. CASE UNCHANGED diffVars
  BY <1>4 DEF diffVars, searchVars, NewGraph
<1> QED BY <1>1, <1>2, <1>3, <1>4 DEF DiffNext

LEMMA ParsedGraphs ==
  ASSUME NEW w \in Worlds, NEW lock \in w.olds \cup w.news
  PROVE  LET g == ParseLockfileText(TextOf(lock))
         IN  IsGraph(Packages(g)) /\ ArtifactsOf(Packages(g)) = Pinned(lock) /\ IsLockGraph(g)
PROOF
<1> DEFINE g == ParseLockfileText(TextOf(lock))
<1>1. IsLockfile(lock) /\ g # None
  BY WorldsAssumption
<1>2. Tells(g, lock) /\ IsWired(g)
  BY <1>1, ParsedTells
<1> HIDE DEF g
<1>3. IsGraph(Packages(g)) /\ ArtifactsOf(Packages(g)) = Pinned(lock)
  BY <1>2 DEF Tells
<1>4. IsLockGraph(g)
  <2>1. Len(g) \in Nat /\ g = [i \in 1..Len(g) |-> g[i]]
    BY <1>2, SeqIs DEF IsWired
  <2>2. \A i \in DOMAIN g : GoodDeps(g[i].deps)
    BY <1>2 DEF IsWired
  <2> QED BY <1>1, <2>1, <2>2 DEF IsLockGraph, GoodDeps
<1> QED BY <1>3, <1>4 DEF g

LEMMA DiffCompares == DiffInv /\ [DiffNext]_diffVars
                        => [\E g, h : IsGraph(g) /\ IsGraph(h) /\ Compare(g, h)]_compareVars
PROOF
<1> SUFFICES ASSUME DiffInv, [DiffNext]_diffVars
             PROVE  [\E g, h : IsGraph(g) /\ IsGraph(h) /\ Compare(g, h)]_compareVars
  OBVIOUS
<1>1. CASE DiffLockfiles
  <2>1. PICK w \in Worlds : lockNew \in w.news /\ lockOld \in w.olds
    BY <1>1 DEF DiffInv, DiffLockfiles
  <2>2. /\ IsGraph(Packages(ParseLockfileText(TextOf(lockOld)))) /\ IsGraph(Packages(NewGraph))
    BY <2>1, ParsedGraphs DEF NewGraph
  <2> QED BY <1>1, <2>2 DEF DiffLockfiles
<1>2. CASE SearchNew
  BY <1>2 DEF SearchNew
<1>3. CASE FollowPaths
  BY <1>3 DEF FollowPaths
<1>4. CASE UNCHANGED diffVars
  BY <1>4 DEF diffVars, compareVars
<1> QED BY <1>1, <1>2, <1>3, <1>4 DEF DiffNext

LEMMA DiffSearches == DiffInv /\ [DiffNext]_diffVars
                        => [(\E g, key : IsLockGraph(g) /\ BeginSearch(g, key)) \/ SearchStep]_searchVars
PROOF
<1> SUFFICES ASSUME DiffInv, [DiffNext]_diffVars
             PROVE  [(\E g, key : IsLockGraph(g) /\ BeginSearch(g, key)) \/ SearchStep]_searchVars
  OBVIOUS
<1>1. CASE DiffLockfiles
  BY <1>1 DEF DiffLockfiles
<1>2. CASE SearchNew
  <2>1. PICK w \in Worlds : lockNew \in w.news
    BY DEF DiffInv
  <2>2. IsLockGraph(NewGraph)
    BY <2>1, ParsedGraphs DEF NewGraph
  <2> QED BY <1>2, <2>2 DEF SearchNew
<1>3. CASE FollowPaths
  BY <1>3 DEF FollowPaths
<1>4. CASE UNCHANGED diffVars
  BY <1>4 DEF diffVars
<1> QED BY <1>1, <1>2, <1>3, <1>4 DEF DiffNext

LEMMA DiffHolds == DiffSpec => []DiffInv
BY DiffStarts, DiffKeeps, PTL DEF DiffSpec

(***************************************************************************)
(* vetlock diff implements the comparison of two graphs: what it compares  *)
(* are graphs of named and versioned packages, whatever is in the          *)
(* lockfiles.  What is proved of CompareSpec holds of it (engine.ts:155).  *)
(***************************************************************************)
THEOREM DiffIsComparison == DiffSpec => CompareSpec
PROOF
<1>1. DiffInit => CompareInit
  BY DEF DiffInit
<1> QED BY <1>1, DiffHolds, DiffCompares, PTL DEF DiffSpec, CompareSpec

(***************************************************************************)
(* It implements the search for the paths too: every graph a parser makes  *)
(* can be searched, no dependency of a package being listed twice          *)
(* (lockfile.ts:187-201 and the parsers of the other formats).             *)
(***************************************************************************)
THEOREM DiffIsSearch == DiffSpec => SearchSpec
PROOF
<1>1. DiffInit => SearchInit
  BY DEF DiffInit
<1> QED BY <1>1, DiffHolds, DiffSearches, PTL DEF DiffSpec, SearchSpec

LEMMA LockedIsReported == DiffInv /\ NothingNewIsLost => EveryLockedArtifactReported
PROOF
<1> SUFFICES ASSUME DiffInv, NothingNewIsLost, Computed, Consistent(old), Consistent(new)
             PROVE  {a \in Locked(lockNew) \ Locked(lockOld) : a[2] # NoVersion} \subseteq NewArtifacts
  BY DEF EveryLockedArtifactReported
<1>1. PICK w \in Worlds : lockNew \in w.news /\ lockOld \in w.olds
  BY DEF DiffInv
<1>2. ArtifactsOf(old) = Pinned(lockOld) /\ ArtifactsOf(new) = Pinned(lockNew)
  BY <1>1, ParsedGraphs DEF DiffInv, NewGraph
<1>3. ArtifactsOf(new) \ ArtifactsOf(old) \subseteq NewArtifacts
  BY DEF NothingNewIsLost
<1> HIDE DEF NewArtifacts
<1> QED BY <1>2, <1>3 DEF Pinned

(***************************************************************************)
(* From the text of a lockfile to the changes nothing is lost: every       *)
(* artifact the new lockfile pins and the old one does not is the new side *)
(* of a change, for lockfiles of any of the six formats, of any length and *)
(* any order of their entries (the parsers, TOML reader and changeset.ts). *)
(***************************************************************************)
THEOREM LockedArtifactsAreReported == DiffSpec => []EveryLockedArtifactReported
BY DiffHolds, DiffIsComparison, NewArtifactsAreReported, LockedIsReported, PTL

(***************************************************************************)
(* The provenance paths shown are chains of dependencies that stand in the *)
(* lockfile itself, whatever its format (lockfile.ts shortestPaths).       *)
(***************************************************************************)
THEOREM DiffPathsAreReal == DiffSpec => []PathsAreProvenance
BY DiffIsSearch, PathsAreReal, PTL

-----------------------------------------------------------------------------
(* From the engine's findings to the exit code.                             *)

Unanswered == {"flags", "read", "config", "empty", "preflight", "engine"}
PcValues == Unanswered \cup {"filter", "verdict", "exited"}

\* Until the engine has answered there are no findings, and a call that ends
\* without its answer ends in 1 or 3.
NoAnswerYet ==
  pc \in Unanswered \/ (pc = "exited" /\ raw = Absent) =>
    raw = Absent /\ found = {} /\ (pc = "exited" => code \in {1, 3})

\* From the trust check on, the decision is the one for this call.
Decided ==
  pc \in {"empty", "preflight", "engine", "filter", "verdict"} \/ Answered =>
    ~BadConfig /\ decision = DecideConfigApplication(call)

\* Findings are the engine's until they are filtered, once.
FilteredOnce ==
  /\ pc = "filter" => raw \in Reports /\ found = raw
  /\ pc = "verdict" \/ Answered =>
       raw \in Reports /\ found = decision.findings \cup ApplyConfig(raw, decision.config)

\* The exit code follows from what is reported.
CodeFollows == Answered => code = ExitCode(found)

\* The lockfiles the engine gets have been parsed under their names.
Preflighted ==
  /\ call.scan /\ pc \in {"preflight", "engine"} => before = SynthesizeEmptyLockfile(call.after)
  /\ pc = "engine" => BothParse(TRUE)

Inv ==
  /\ call \in Calls
  /\ pc \in PcValues
  /\ code \in {Absent, 0, 1, 2, 3} /\ (code # Absent <=> pc = "exited")
  /\ NoAnswerYet
  /\ Decided
  /\ FilteredOnce
  /\ CodeFollows
  /\ Preflighted

-----------------------------------------------------------------------------
(* The configuration and its findings are well-typed, and filtering keeps   *)
(* findings well-typed.                                                     *)

LEMMA DecisionTyped ==
  ASSUME call \in Calls, ~BadConfig
  PROVE  /\ ValidConfig(DecideConfigApplication(call).config)
         /\ \A f \in DecideConfigApplication(call).findings : IsFinding(f)
<1>1. ValidConfig(DefaultConfig)
  BY DEF DefaultConfig, ValidConfig
<1>2. IsFinding(Untrusted("WARN")) /\ IsFinding(Untrusted("BLOCK"))
  BY DEF Untrusted, IsFinding, Rank
<1>3. call.current # Absent => ValidConfig(ConfigOf[call.current])
  BY ConfigAssumption DEF BadConfig
<1>. QED  BY <1>1, <1>2, <1>3 DEF DecideConfigApplication, Decision

LEMMA SeverityTyped ==
  ASSUME NEW f, IsFinding(f), NEW c, ValidConfig(c)
  PROVE  SeverityUnder(f, c) \in DOMAIN Rank
<1>1. {"INFO", f.severity} \subseteq DOMAIN Rank
  BY DEF Rank, IsFinding
<1>2. \A o \in Overrides(f, c) : o[2] \in DOMAIN Rank
  BY DEF Overrides, ValidConfig
<1>3. Overrides(f, c) # {} => (CHOOSE o \in Overrides(f, c) : TRUE) \in Overrides(f, c)
  OBVIOUS
<1>. QED  BY <1>1, <1>2, <1>3 DEF SeverityUnder

\* Another severity makes another finding of the same detector.
LEMMA Rewritten ==
  ASSUME NEW f, IsFinding(f), NEW s \in DOMAIN Rank
  PROVE  LET g == [f EXCEPT !.severity = s]
         IN  IsFinding(g) /\ g.detector = f.detector /\ g.severity = s
  BY DEF IsFinding

LEMMA FilteredTyped ==
  ASSUME NEW findings, \A f \in findings : IsFinding(f), NEW c, ValidConfig(c)
  PROVE  \A f \in ApplyConfig(findings, c) : IsFinding(f)
  BY Rewritten, SeverityTyped DEF ApplyConfig

\* A finding the configuration does not speak of comes through as it was.
LEMMA UnmentionedIsKept ==
  ASSUME NEW findings, NEW c, NEW f \in findings, IsFinding(f),
         ~Mentions(c, f)
  PROVE  f \in ApplyConfig(findings, c)
<1>1. f \notin DroppedOf(findings, c)
  BY DEF DroppedOf, Ignored, Mentions
<1>2. ~Trusted(f, c) /\ ~Allowed(f, c) /\ Overrides(f, c) = {}
  <2>1. ~Trusted(f, c)
    <3>1. \A p : <<f.package, p>>[1] = f.package
      OBVIOUS
    <3>. QED  BY <3>1 DEF Trusted, Mentions
  <2>2. ~Allowed(f, c)
    <3>1. <<f.package, f.category>>[1] = f.package
      OBVIOUS
    <3>. QED  BY <3>1 DEF Allowed, Mentions
  <2>. QED  BY <2>1, <2>2 DEF Overrides, Mentions
<1>3. [f EXCEPT !.severity = SeverityUnder(f, c)] = f
  BY <1>2 DEF SeverityUnder, IsFinding
<1>. QED  BY <1>1, <1>3 DEF ApplyConfig

\* An engine alarm keeps its severity under any configuration.
LEMMA AlarmIsKept ==
  ASSUME NEW findings, NEW c, NEW f \in findings, IsFinding(f),
         f.detector \in AlwaysApplyDetectors
  PROVE  f \in ApplyConfig(findings, c)
<1>1. f \notin DroppedOf(findings, c)
  BY DEF DroppedOf
<1>2. f.detector # "meta.maintainer-change"
  BY DEF AlwaysApplyDetectors
<1>3. ~Trusted(f, c) /\ ~Allowed(f, c) /\ Overrides(f, c) = {}
  <2>1. ~Trusted(f, c)
    BY <1>2 DEF Trusted
  <2>2. ~Allowed(f, c)
    BY DEF Allowed
  <2>. QED  BY <2>1, <2>2 DEF Overrides
<1>4. [f EXCEPT !.severity = SeverityUnder(f, c)] = f
  BY <1>3 DEF SeverityUnder, IsFinding
<1>. QED  BY <1>1, <1>4 DEF ApplyConfig

LEMMA CodeOfFindings ==
  ASSUME NEW findings
  PROVE  /\ ExitCode(findings) \in {0, 1, 2}
         /\ (\E f \in findings : f.severity = "BLOCK") \/ Forced(findings) => ExitCode(findings) = 2
         /\ (\E f \in findings : f.severity = "WARN") => ExitCode(findings) # 0
<1>1. /\ VerdictCode(findings) \in {0, 1, 2}
      /\ (\E f \in findings : f.severity = "BLOCK") => VerdictCode(findings) = 2
      /\ (\E f \in findings : f.severity = "WARN") => VerdictCode(findings) # 0
  BY DEF VerdictCode
<1>. QED  BY <1>1 DEF ExitCode, Graver

-----------------------------------------------------------------------------
(* The invariant.                                                           *)

LEMMA Initialized == Init => Inv
  BY AbsentAssumption DEF Init, Inv, PcValues, Unanswered, NoAnswerYet, Decided, FilteredOnce, CodeFollows,
     Preflighted, Answered

LEMMA StepKeepsInv == Inv /\ [Next]_vars => Inv'
<1>. SUFFICES ASSUME Inv, [Next]_vars
              PROVE  Inv'
  OBVIOUS
<1>. USE DEF Inv
\* What ends without an answer.
<1>1. ASSUME NEW at \in Unanswered, NEW condition, NEW n \in {1, 3},
             Fail(at, condition, n)
      PROVE  Inv'
  BY <1>1, AbsentAssumption
  DEF Fail, Exit, PcValues, Unanswered, NoAnswerYet, Decided, FilteredOnce, CodeFollows,
      Preflighted, Answered
<1>2. CASE AcceptFlags \/ ReadLockfiles
  BY <1>2, AbsentAssumption
  DEF AcceptFlags, ReadLockfiles, GoOn, PcValues, Unanswered, NoAnswerYet, Decided, FilteredOnce,
      CodeFollows, Preflighted, Answered
<1>3. CASE LoadConfigWithTrustCheck
  <2>1. (~BadConfig)'
    BY <1>3 DEF LoadConfigWithTrustCheck, BadConfig
  <2>2. pc' = IF call.scan THEN "empty" ELSE "preflight"
    BY <1>3 DEF LoadConfigWithTrustCheck, GoOn
  <2>. QED
    BY <1>3, <2>1, <2>2, AbsentAssumption
    DEF LoadConfigWithTrustCheck, GoOn, PcValues, Unanswered, NoAnswerYet, Decided, FilteredOnce,
        CodeFollows, Preflighted, Answered
<1>4. CASE Empty \/ Preflight
  <2>1. Decided'
    BY <1>4 DEF Empty, Preflight, GoOn, Decided, BadConfig, Answered, Unanswered
  <2>2. Preflighted'
    BY <1>4 DEF Empty, Preflight, GoOn, Preflighted, BothParse
  <2>. QED
    BY <1>4, <2>1, <2>2, AbsentAssumption
    DEF Empty, Preflight, GoOn, PcValues, Unanswered, NoAnswerYet, FilteredOnce, CodeFollows, Answered
<1>5. CASE FetchOverride
  <2>1. UNCHANGED <<call, pc, before, decision, raw, found, code>>
    BY <1>5 DEF FetchOverride
  <2>2. Decided' /\ Preflighted'
    BY <2>1 DEF Decided, BadConfig, Answered, Preflighted, BothParse
  <2>. QED
    BY <1>5, <2>1, <2>2
    DEF FetchOverride, PcValues, Unanswered, NoAnswerYet, FilteredOnce, CodeFollows, Answered
<1>6. CASE EngineReturns
  <2>1. Decided'
    BY <1>6 DEF EngineReturns, GoOn, Decided, BadConfig, Answered
  <2>. QED
    BY <1>6, <2>1, AbsentAssumption
    DEF EngineReturns, GoOn, PcValues, Unanswered, NoAnswerYet, FilteredOnce, CodeFollows,
        Preflighted, Answered
<1>7. CASE Filter
  <2>1. Decided'
    BY <1>7 DEF Filter, GoOn, Decided, BadConfig, Answered
  <2>. QED
    BY <1>7, <2>1, AbsentAssumption
    DEF Filter, GoOn, PcValues, Unanswered, NoAnswerYet, FilteredOnce, CodeFollows,
        Preflighted, Answered
<1>8. CASE Conclude
  <2>1. code' = ExitCode(found) /\ code' \in {0, 1, 2} /\ pc' = "exited"
    BY <1>8, CodeOfFindings DEF Conclude, Exit
  <2>2. UNCHANGED <<call, before, decision, fetched, raw, found>>
    BY <1>8 DEF Conclude
  <2>3. raw \in Reports /\ raw # Absent
    BY <1>8, ReportsAssumption DEF Conclude, FilteredOnce
  <2>4. Decided'
    BY <1>8, <2>2 DEF Conclude, Decided, BadConfig
  <2>5. CodeFollows'
    BY <2>1, <2>2 DEF CodeFollows, ExitCode, Forced
  <2>. QED
    BY <1>8, <2>1, <2>2, <2>3, <2>4, <2>5, AbsentAssumption
    DEF Conclude, PcValues, Unanswered, NoAnswerYet, FilteredOnce, Preflighted, Answered
<1>9. CASE UNCHANGED vars
  <2>1. Decided' /\ Preflighted'
    BY <1>9 DEF vars, Decided, BadConfig, Answered, Preflighted, BothParse
  <2>2. CodeFollows'
    BY <1>9 DEF vars, CodeFollows, ExitCode, Forced, Answered
  <2>. QED
    BY <1>9, <2>1, <2>2 DEF vars, PcValues, NoAnswerYet, FilteredOnce, Answered
<1>10. CASE RejectFlags \/ ReadFails \/ ConfigFails \/ EmptyFails \/ PreflightFails \/ EngineThrows
  <2>1. {"flags", "read", "config", "empty", "preflight", "engine"} \subseteq Unanswered
    BY DEF Unanswered
  <2>. QED
    BY <1>1, <1>10, <2>1
    DEF RejectFlags, ReadFails, ConfigFails, EmptyFails, PreflightFails, EngineThrows
<1>. QED
  BY <1>2, <1>3, <1>4, <1>5, <1>6, <1>7, <1>8, <1>9, <1>10 DEF Next

LEMMA Invariance == Spec => []Inv
  BY Initialized, StepKeepsInv, PTL DEF Spec

-----------------------------------------------------------------------------
(* What follows from it.                                                    *)

\* What an answered call reports: the findings about the configuration, which
\* no configuration filters, and what it leaves of the engine's.
LEMMA Reported ==
  ASSUME Inv, Answered
  PROVE  /\ found = decision.findings \cup ApplyConfig(raw, decision.config)
         /\ decision = DecideConfigApplication(call)
         /\ \A f \in raw : IsFinding(f)
         /\ \A f \in decision.findings : IsFinding(f)
         /\ ValidConfig(decision.config)
         /\ code = ExitCode(found)
         /\ ~BadConfig
  BY DecisionTyped, ReportsAssumption DEF Inv, FilteredOnce, Decided, CodeFollows

(***************************************************************************)
(* Typing: a call ends with exactly one of the four exit codes, and no     *)
(* configuration gives a finding a severity there is none of.              *)
(***************************************************************************)
THEOREM TypeCorrect == Spec => []TypeOK
<1>1. Inv => TypeOK
  <2>. SUFFICES ASSUME Inv
                PROVE  \A f \in found : IsFinding(f)
    BY DEF Inv, TypeOK, PcValues, Unanswered, IsFinding
  <2>1. CASE pc \in Unanswered \/ (pc = "exited" /\ raw = Absent)
    BY <2>1 DEF Inv, NoAnswerYet
  <2>2. CASE pc = "filter"
    BY <2>2, ReportsAssumption DEF Inv, FilteredOnce
  <2>3. CASE pc = "verdict" \/ Answered
    BY <2>3, DecisionTyped, FilteredTyped, ReportsAssumption DEF Inv, FilteredOnce, Decided
  <2>. QED  BY <2>1, <2>2, <2>3 DEF Inv, PcValues, Unanswered, Answered
<1>. QED  BY <1>1, Invariance, PTL

(***************************************************************************)
(* A configuration that came with the change leaves every finding of the   *)
(* engine as it was and fails the call.                                    *)
(***************************************************************************)
THEOREM UntrustedIsInert == Spec => []UntrustedConfigIsInert
<1>1. Inv => UntrustedConfigIsInert
  <2>. SUFFICES ASSUME Inv, Answered, call.current \notin {Absent, call.baseline}, ~call.allowInDiff
                PROVE  raw \subseteq found /\ code = 2
    BY DEF UntrustedConfigIsInert
  <2>1. decision = Decision(DefaultConfig, {Untrusted("BLOCK")}, TRUE)
    BY Reported DEF DecideConfigApplication
  <2>2. decision.config = DefaultConfig /\ Untrusted("BLOCK") \in decision.findings
    BY <2>1 DEF Decision
  <2>3. \A f \in raw : ~Mentions(DefaultConfig, f)
    BY DEF Mentions, DefaultConfig
  <2>4. raw \subseteq found
    BY <2>2, <2>3, Reported, UnmentionedIsKept
  <2>5. \E f \in found : f.severity = "BLOCK"
    BY <2>2, Reported DEF Untrusted
  <2>. QED  BY <2>4, <2>5, Reported, CodeOfFindings
<1>. QED  BY <1>1, Invariance, PTL

(***************************************************************************)
(* A package the engine could not look at, or a changed hash, ends the     *)
(* call in exit code 2 under every configuration.                          *)
(***************************************************************************)
THEOREM AlarmsAreHeard == Spec => []AlarmsReachTheExit
<1>1. Inv => AlarmsReachTheExit
  <2>. SUFFICES ASSUME Inv, Answered,
                       NEW f \in raw, f.detector \in AlwaysApplyDetectors, f.severity = "BLOCK"
                PROVE  code = 2
    BY DEF AlarmsReachTheExit
  <2>1. f \in found
    BY Reported, AlarmIsKept
  <2>. QED  BY <2>1, Reported, CodeOfFindings
<1>. QED  BY <1>1, Invariance, PTL

(***************************************************************************)
(* Exit code 0 means that the engine answered and that a configuration of  *)
(* the baseline speaks of every finding of WARN and above.                 *)
(***************************************************************************)
THEOREM CleanIsAccountedFor == Spec => []CleanExitAccountedFor
<1>1. Inv => CleanExitAccountedFor
  <2>. SUFFICES ASSUME Inv, code = 0
                PROVE  /\ raw # Absent /\ call.current \in {Absent, call.baseline}
                       /\ \A f \in raw : Rank[f.severity] >= 2 =>
                            call.current # Absent /\ Mentions(ConfigOf[call.current], f)
    BY DEF CleanExitAccountedFor
  <2>1. Answered
    BY AbsentAssumption DEF Inv, NoAnswerYet, Answered
  <2>2. \A f \in found : f.severity \notin {"BLOCK", "WARN"}
    BY <2>1, Reported, CodeOfFindings
  <2>3. call.current \in {Absent, call.baseline}
    <3>. SUFFICES ASSUME call.current \notin {Absent, call.baseline}
                  PROVE  FALSE
      OBVIOUS
    <3>1. \E s \in {"BLOCK", "WARN"} : Untrusted(s) \in decision.findings
      BY <2>1, Reported DEF DecideConfigApplication, Decision
    <3>. QED  BY <2>1, <2>2, <3>1, Reported DEF Untrusted
  <2>4. ASSUME NEW f \in raw, Rank[f.severity] >= 2
        PROVE  call.current # Absent /\ Mentions(ConfigOf[call.current], f)
    <3>1. f.severity \in {"BLOCK", "WARN"}
      BY <2>1, <2>4, Reported DEF IsFinding, Rank
    <3>2. Mentions(decision.config, f)
      BY <2>1, <2>2, <3>1, Reported, UnmentionedIsKept
    <3>3. CASE call.current = Absent
      <4>1. decision.config = DefaultConfig
        BY <2>1, <3>3, Reported DEF DecideConfigApplication, Decision
      <4>. QED  BY <3>2, <4>1 DEF Mentions, DefaultConfig
    <3>4. CASE call.current # Absent
      <4>1. decision.config = ConfigOf[call.current]
        BY <2>1, <2>3, <3>4, Reported DEF DecideConfigApplication, Decision
      <4>. QED  BY <3>2, <3>4, <4>1
    <3>. QED  BY <3>3, <3>4
  <2>. QED  BY <2>1, <2>3, <2>4 DEF Answered
<1>. QED  BY <1>1, Invariance, PTL

(***************************************************************************)
(* Softening a finding --fail-on names does not save the call.             *)
(***************************************************************************)
THEOREM ForceSurvives == Spec => []ForceSurvivesSoftening
<1>1. Inv => ForceSurvivesSoftening
  <2>. SUFFICES ASSUME Inv, Answered, NEW f \in raw, NEW id \in call.failOn,
                       MatchesDetectorId(f.detector, id),
                       f \notin DroppedOf(raw, decision.config)
                PROVE  code = 2
    BY DEF ForceSurvivesSoftening
  <2> DEFINE g == [f EXCEPT !.severity = SeverityUnder(f, decision.config)]
  <2>1. g \in found
    BY Reported DEF ApplyConfig
  <2>2. g.detector = f.detector
    BY Reported, SeverityTyped, Rewritten
  <2>3. Forced(found)
    BY <2>1, <2>2 DEF Forced
  <2>. QED  BY <2>3, Reported, CodeOfFindings
<1>. QED  BY <1>1, Invariance, PTL

(***************************************************************************)
(* A scan whose preflight passed is read by the engine as well, unless it  *)
(* is of a requirements.txt.                                               *)
(***************************************************************************)
THEOREM ScansAreRead == Spec => []ScansReachTheEngine
<1>1. Inv => ScansReachTheEngine
  <2>. SUFFICES ASSUME Inv, pc = "engine", call.scan, call.after.sniffs,
                       call.after.kind # "requirements"
                PROVE  Comparable
    BY DEF ScansReachTheEngine
  <2>1. /\ before.kind = call.after.kind
        /\ before.sniffs = (call.after.kind # "requirements")
        /\ before.sound
    BY DEF Inv, Preflighted, SynthesizeEmptyLockfile, Text
  <2>2. Parses(before, FALSE)
    BY <2>1 DEF Parses
  <2>3. Parses(call.after, FALSE)
    BY DEF Inv, Preflighted, BothParse, Parses
  <2>. QED  BY <2>1, <2>2, <2>3 DEF Comparable, BothParse
<1>. QED  BY <1>1, Invariance, PTL

=============================================================================
