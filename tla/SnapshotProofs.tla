---------------------------- MODULE SnapshotProofs --------------------------
(***************************************************************************)
(* Theorems about snapshots.  AnalysisCheck, for any npm tarball and any   *)
(* PyPI release, any limits and any reading of a file: what is returned    *)
(* covers the archive, and nothing is left behind.  SnapshotCache, for any *)
(* calls of get and put in any number of processes: a key that was there   *)
(* is kept, every hit is what this install stored, and no name leads to a  *)
(* half-written entry.  The two share nothing, and no lemma is about both. *)
(***************************************************************************)
EXTENDS AnalysisCheck, SnapshotCache, FiniteSetTheorems, SequenceTheorems, TLAPS

-----------------------------------------------------------------------------
(* An archive, the bytes of finitely many files of it, and the files that  *)
(* are written one after the other.                                        *)

ArchiveTyped ==
  /\ archive \in Seq(ToSet(archive))
  /\ \A i \in FileEntries : Entry(i).content.bytes \in Nat

\* The files that are on disk.
OnDisk == {i \in FileEntries : stage[i] = "done"}

\* A directory that holds these files, and a list that has each of them once.
RecordOf(paths, i) == [relPath |-> paths[i], sha256 |-> Entry(i).content]
Filled(paths, S, d) ==
  /\ d = [p \in {paths[i] : i \in S} |-> d[p]]
  /\ \A i \in S : d[paths[i]] = Entry(i).content
Lists(paths, S, listed) ==
  /\ listed \in Seq({RecordOf(paths, i) : i \in FileEntries})
  /\ \A i \in S : \E k \in DOMAIN listed : listed[k] = RecordOf(paths, i)
  /\ \A k \in DOMAIN listed : \E i \in S : listed[k] = RecordOf(paths, i)
  /\ \A k, l \in DOMAIN listed : listed[k].relPath = listed[l].relPath => k = l

LEMMA FilesFinite ==
  ASSUME ArchiveTyped, NEW S \in SUBSET FileEntries
  PROVE  IsFiniteSet(S) /\ DOMAIN archive = 1..Len(archive) /\ Len(archive) \in Nat
PROOF
<1>1. Len(archive) \in Nat /\ DOMAIN archive = 1..Len(archive)
  BY DEF ArchiveTyped
<1>2. IsFiniteSet(1..Len(archive))
  BY <1>1, FS_Interval
<1>3. S \in SUBSET (1..Len(archive))
  BY <1>1 DEF FileEntries
<1>4. IsFiniteSet(S)
  BY <1>2, <1>3, FS_Subset
<1> QED BY <1>1, <1>4

LEMMA BytesOfOne ==
  ASSUME NEW i, Entry(i).content.bytes \in Nat
  PROVE  LET b == {i} \X (1..Entry(i).content.bytes)
         IN  IsFiniteSet(b) /\ Cardinality(b) = Entry(i).content.bytes
PROOF
<1> DEFINE n == Entry(i).content.bytes
<1>1. IsFiniteSet({i}) /\ Cardinality({i}) = 1
  BY FS_Singleton
<1>2. IsFiniteSet(1..n) /\ Cardinality(1..n) = n
  <2>1. n \in Nat
    OBVIOUS
  <2> HIDE DEF n
  <2> QED BY <2>1, FS_Interval
<1>3. IsFiniteSet({i} \X (1..n)) /\ Cardinality({i} \X (1..n)) = 1 * n
  <2> HIDE DEF n
  <2>1. /\ IsFiniteSet({i} \X (1..n))
        /\ Cardinality({i} \X (1..n)) = Cardinality({i}) * Cardinality(1..n)
    BY <1>1, <1>2, FS_Product
  <2> QED BY <1>1, <1>2, <2>1
<1> QED BY <1>3

LEMMA BytesFinite ==
  ASSUME ArchiveTyped, NEW S \in SUBSET FileEntries
  PROVE  IsFiniteSet(BytesOf(S))
PROOF
<1> DEFINE Of(i) == {i} \X (1..Entry(i).content.bytes)
           T     == {Of(i) : i \in S}
           f     == [i \in S |-> Of(i)]
<1>1. f \in Surjection(S, T)
  BY DEF Surjection
<1>2. IsFiniteSet(T)
  <2> HIDE DEF f, T
  <2> QED BY <1>1, FilesFinite, FS_Surjection
<1>3. \A t \in T : IsFiniteSet(t)
  BY BytesOfOne DEF ArchiveTyped
<1>4. IsFiniteSet(UNION T)
  <2> HIDE DEF T
  <2> QED BY <1>2, <1>3, FS_UNION
<1> QED BY <1>4 DEF BytesOf

LEMMA OneMoreFile ==
  ASSUME ArchiveTyped, NEW S \in SUBSET FileEntries, NEW i \in FileEntries, i \notin S
  PROVE  Cardinality(BytesOf(S \cup {i})) = Cardinality(BytesOf(S)) + Entry(i).content.bytes
PROOF
<1> DEFINE b == {i} \X (1..Entry(i).content.bytes)
<1>1. Entry(i).content.bytes \in Nat
  BY DEF ArchiveTyped
<1>2. IsFiniteSet(b) /\ Cardinality(b) = Entry(i).content.bytes
  BY <1>1, BytesOfOne
<1>3. IsFiniteSet(BytesOf(S)) /\ Cardinality(BytesOf(S)) \in Nat
  BY BytesFinite, FS_CardinalityType
<1>4. BytesOf(S \cup {i}) = BytesOf(S) \cup b
  BY DEF BytesOf
<1>5. BytesOf(S) \cap b = {}
  BY DEF BytesOf
<1>6. Cardinality(BytesOf(S) \cup b) = Cardinality(BytesOf(S)) + Cardinality(b) - Cardinality(BytesOf(S) \cap b)
  <2> HIDE DEF b
  <2> DEFINE a == BytesOf(S)
  <2>1. IsFiniteSet(a) /\ IsFiniteSet(b)
    BY <1>2, <1>3
  <2> HIDE DEF a
  <2>2. Cardinality(a \cup b) = Cardinality(a) + Cardinality(b) - Cardinality(a \cap b)
    BY <2>1, FS_Union
  <2> QED BY <2>2 DEF a
<1>7. Cardinality(BytesOf(S) \cap b) = 0
  BY <1>5, FS_EmptySet
<1>8. Cardinality(BytesOf(S \cup {i})) = Cardinality(BytesOf(S)) + Cardinality(b) - 0
  BY <1>4, <1>6, <1>7, Zenon
<1>9. \A x \in Nat, y \in Nat : x + y - 0 = x + y
  OBVIOUS
<1> QED BY <1>1, <1>2, <1>3, <1>8, <1>9, Zenon

\* The directory once a file is written.
WithFile(paths, i, d) ==
  [p \in {paths[i]} \cup DOMAIN d |-> IF p = paths[i] THEN Entry(i).content ELSE d[p]]

LEMMA OneMoreHeld ==
  ASSUME NEW paths, NEW S, NEW i, NEW d, Filled(paths, S, d), \A j \in S : paths[j] # paths[i]
  PROVE  Filled(paths, S \cup {i}, WithFile(paths, i, d))
PROOF
<1> DEFINE more == [p \in {paths[i]} \cup DOMAIN d |-> IF p = paths[i] THEN Entry(i).content ELSE d[p]]
<1>1. DOMAIN d = {paths[j] : j \in S} /\ \A j \in S : d[paths[j]] = Entry(j).content
  BY DEF Filled
<1>2. {paths[i]} \cup DOMAIN d = {paths[j] : j \in S \cup {i}}
  BY <1>1
<1>3. more = [p \in {paths[j] : j \in S \cup {i}} |-> more[p]]
  BY <1>2
<1>4. \A j \in S \cup {i} : more[paths[j]] = Entry(j).content
  BY <1>1
<1> QED BY <1>3, <1>4 DEF Filled, WithFile

LEMMA OneMoreListed ==
  ASSUME NEW paths, NEW S \in SUBSET FileEntries, NEW i \in FileEntries, NEW listed,
         Lists(paths, S, listed), \A j \in S : paths[j] # paths[i]
  PROVE  Lists(paths, S \cup {i}, Append(listed, RecordOf(paths, i)))
PROOF
<1> DEFINE more == Append(listed, RecordOf(paths, i))
           all == {RecordOf(paths, j) : j \in FileEntries}
<1>1. /\ listed \in Seq(all)
      /\ \A j \in S : \E k \in DOMAIN listed : listed[k] = RecordOf(paths, j)
      /\ \A k \in DOMAIN listed : \E j \in S : listed[k] = RecordOf(paths, j)
      /\ \A k, l \in DOMAIN listed : listed[k].relPath = listed[l].relPath => k = l
  BY DEF Lists
<1>2. RecordOf(paths, i) \in all
  OBVIOUS
<1> HIDE DEF all
<1>3. /\ Len(listed) \in Nat /\ DOMAIN listed = 1..Len(listed)
      /\ more \in Seq(all) /\ DOMAIN more = 1..(Len(listed) + 1)
      /\ more[Len(listed) + 1] = RecordOf(paths, i)
      /\ \A k \in DOMAIN listed : more[k] = listed[k]
  BY <1>1, <1>2
<1> HIDE DEF more
<1>4. \A j : RecordOf(paths, j).relPath = paths[j]
  BY DEF RecordOf
<1>5. \A k \in DOMAIN listed : listed[k].relPath # paths[i]
  BY <1>1, <1>4
<1>6. \A j \in S \cup {i} : \E k \in DOMAIN more : more[k] = RecordOf(paths, j)
  BY <1>1, <1>3
<1>7. \A k \in DOMAIN more : \E j \in S \cup {i} : more[k] = RecordOf(paths, j)
  BY <1>1, <1>3
<1>8. \A k, l \in DOMAIN more : more[k].relPath = more[l].relPath => k = l
  BY <1>1, <1>3, <1>4, <1>5
<1> QED BY <1>3, <1>6, <1>7, <1>8 DEF Lists, all, more

\* A file of the archive by its path.
LEMMA ByPath ==
  ASSUME NEW paths, OnePathEach(paths)
  PROVE  /\ DOMAIN ArchivedFiles(paths) = {paths[i] : i \in FileEntries}
         /\ \A i \in FileEntries : ArchivedFiles(paths)[paths[i]] = Entry(i).content
PROOF
<1>1. ASSUME NEW i \in FileEntries PROVE (CHOOSE j \in FileEntries : paths[j] = paths[i]) = i
  BY DEF OnePathEach
<1> QED BY <1>1 DEF ArchivedFiles

LEMMA WholeDirectory ==
  ASSUME NEW paths, NEW d, OnePathEach(paths), Filled(paths, FileEntries, d)
  PROVE  d = ArchivedFiles(paths)
PROOF
<1> DEFINE at == {paths[i] : i \in FileEntries}
           held == ArchivedFiles(paths)
<1>1. held = [p \in at |-> held[p]] /\ d = [p \in at |-> d[p]]
  BY DEF ArchivedFiles, Filled
<1>2. \A p \in at : held[p] = d[p]
  <2>1. \A i \in FileEntries : held[paths[i]] = Entry(i).content
    BY ByPath
  <2> HIDE DEF held
  <2> QED BY <2>1 DEF Filled
<1> HIDE DEF at, held
<1>3. held = d
  BY <1>1, <1>2
<1> QED BY <1>3 DEF held

\* The list of files names each file of the archive once, with its hash.
LEMMA ListIsComplete ==
  ASSUME NEW paths, NEW listed, OnePathEach(paths), Lists(paths, FileEntries, listed)
  PROVE  /\ \A k \in DOMAIN listed : /\ listed[k].relPath \in DOMAIN ArchivedFiles(paths)
                                     /\ listed[k].sha256 = ArchivedFiles(paths)[listed[k].relPath]
         /\ \A p \in DOMAIN ArchivedFiles(paths) : \E k \in DOMAIN listed : listed[k].relPath = p
         /\ \A k, l \in DOMAIN listed : listed[k].relPath = listed[l].relPath => k = l
         /\ IsFiniteSet(DOMAIN listed)
PROOF
<1>1. /\ \A i \in FileEntries : \E k \in DOMAIN listed : listed[k] = RecordOf(paths, i)
      /\ \A k \in DOMAIN listed : \E i \in FileEntries : listed[k] = RecordOf(paths, i)
      /\ \A k, l \in DOMAIN listed : listed[k].relPath = listed[l].relPath => k = l
      /\ Len(listed) \in Nat /\ DOMAIN listed = 1..Len(listed)
  BY DEF Lists
<1>2. \A i : RecordOf(paths, i).relPath = paths[i] /\ RecordOf(paths, i).sha256 = Entry(i).content
  BY DEF RecordOf
<1>3. /\ DOMAIN ArchivedFiles(paths) = {paths[i] : i \in FileEntries}
      /\ \A i \in FileEntries : ArchivedFiles(paths)[paths[i]] = Entry(i).content
  BY ByPath
<1>4. IsFiniteSet(DOMAIN listed)
  BY <1>1, FS_Interval
<1>5. \A k \in DOMAIN listed : /\ listed[k].relPath \in DOMAIN ArchivedFiles(paths)
                               /\ listed[k].sha256 = ArchivedFiles(paths)[listed[k].relPath]
  BY <1>1, <1>2, <1>3
<1>6. \A p \in DOMAIN ArchivedFiles(paths) : \E k \in DOMAIN listed : listed[k].relPath = p
  BY <1>1, <1>2, <1>3
<1> QED BY <1>1, <1>4, <1>5, <1>6

\* Records of some files, one for each path of S and with its hash.
OnceEach(paths, S, f) ==
  /\ Cardinality(DOMAIN f) = Cardinality(S)
  /\ {<<x.path, x.sha256>> : x \in ToSet(f)} = {<<p, ArchivedFiles(paths)[p]>> : p \in S}

\* Records that are numbered as the list is are such records.
LEMMA OneForEachFile ==
  ASSUME NEW paths, NEW listed, OnePathEach(paths), Lists(paths, FileEntries, listed),
         NEW S \in SUBSET DOMAIN ArchivedFiles(paths), NEW f,
         DOMAIN f = {k \in DOMAIN listed : listed[k].relPath \in S},
         \A k \in DOMAIN f : f[k].path = listed[k].relPath /\ f[k].sha256 = listed[k].sha256
  PROVE  OnceEach(paths, S, f)
PROOF
<1> DEFINE K == DOMAIN f
           g == [k \in K |-> listed[k].relPath]
           archived == ArchivedFiles(paths)
<1>1. /\ \A k \in K : listed[k].relPath \in S /\ f[k].path = listed[k].relPath
                      /\ f[k].sha256 = archived[listed[k].relPath]
      /\ \A p \in S : \E k \in K : listed[k].relPath = p
  BY ListIsComplete
<1>2. g \in Bijection(K, S)
  BY <1>1, ListIsComplete DEF Bijection, Injection, Surjection, IsInjective
<1>3. IsFiniteSet(K)
  BY ListIsComplete, FS_Subset
<1>4. {<<x.path, x.sha256>> : x \in ToSet(f)} = {<<p, archived[p]>> : p \in S}
  <2>1. ToSet(f) = {f[k] : k \in K}
    BY DEF ToSet
  <2> HIDE DEF K, archived
  <2> QED BY <1>1, <2>1
<1> HIDE DEF K, g, archived
<1>5. Cardinality(K) = Cardinality(S)
  BY <1>2, <1>3, FS_Bijection DEF ExistsBijection
<1> QED BY <1>4, <1>5 DEF K, archived, OnceEach

-----------------------------------------------------------------------------
(* Tarballs of npm: the invariant.                                         *)

Stages == {"none", "mkdir", "data", "ended", "write", "done", "failed"}
Phases == {"parsing", "settling", "failing", "extracted", "analyzed", "threw", "returned", "rejected"}
Over == {"returned", "rejected"}

\* The files whose bytes have been counted.
Counted == {i \in FileEntries : stage[i] \in {"write", "done"}}

Shaped ==
  /\ archive \in Archives /\ next \in Nat \ {0} /\ totalBytes \in Nat
  /\ stage \in [DOMAIN archive -> Stages]
  /\ phase \in Phases

\* How far an entry can be, and what it has passed by then.
Accepted ==
  \A i \in DOMAIN archive :
    /\ i >= next => stage[i] = "none"
    /\ stage[i] \notin {"none", "failed"} => Refusal(i) = NoError
    /\ stage[i] \in {"data", "ended", "write"} => i \in FileEntries
    /\ stage[i] \in {"ended", "write", "done"} /\ i \in FileEntries =>
         Entry(i).content.bytes <= maxEntryBytes
    /\ firstError = NoError /\ i < next => stage[i] \notin {"none", "failed"}

Measured ==
  firstError = NoError =>
    totalBytes = Cardinality(BytesOf(Counted)) /\ totalBytes <= maxTotalBytes

Phased ==
  /\ phase \in {"settling", "extracted", "analyzed", "threw", "returned"} => next > Len(archive)
  /\ phase \in {"extracted", "analyzed", "threw", "returned"} => firstError = NoError
  /\ phase \in {"extracted", "analyzed", "threw"} \cup Over => InFlight = {}

\* The directory and the list hold the files written so far.
Held ==
  /\ phase \in Over => disk = <<>> /\ dirs = {}
  /\ OnePathEach(RelPaths) /\ phase \notin Over => Filled(RelPaths, OnDisk, disk)
ListedOnce == OnePathEach(RelPaths) => Lists(RelPaths, OnDisk, entries)

SnapshotTaken ==
  OnePathEach(RelPaths) /\ phase \in {"analyzed", "returned"} =>
    snapshot = SnapshotOf(ArchivedFiles(RelPaths), entries)

TarballInv ==
  Shaped /\ Accepted /\ Measured /\ Phased /\ Held /\ ListedOnce /\ SnapshotTaken

LEMMA ArchiveShape ==
  ASSUME Shaped
  PROVE  /\ ArchiveTyped
         /\ DOMAIN archive = 1..Len(archive) /\ Len(archive) \in Nat
         /\ \A i \in FileEntries : Entry(i).content.bytes \in Nat
PROOF
<1>1. ArchiveTyped
  BY ArchivesAssumption DEF Shaped, ArchiveTyped, FileEntries, Entry
<1> QED BY <1>1, FilesFinite DEF ArchiveTyped

-----------------------------------------------------------------------------
(* The archive never changes, nor does what is said of it.                 *)

LEMMA ArchiveStays ==
  ASSUME TarballNext
  PROVE  archive' = archive
BY DEF TarballNext, OnEntry, MakeDir, CollectData, AddTotal, WriteFile, JobFails, StreamEnds,
       StreamFails, Settled, Abandon, Analyze, AnalysisThrows, Cleanup

LEMMA Static ==
  ASSUME archive' = archive
  PROVE  /\ FileEntries' = FileEntries
         /\ \A i : Entry(i)' = Entry(i) /\ RelPath(i)' = RelPath(i) /\ Refusal(i)' = Refusal(i)
         /\ RelPaths' = RelPaths
         /\ OnePathEach(RelPaths)' = OnePathEach(RelPaths)
         /\ ArchivedFiles(RelPaths)' = ArchivedFiles(RelPaths)
PROOF
<1>1. \A i : Entry(i)' = Entry(i)
  BY DEF Entry
<1>2. \A i : RelPath(i)' = RelPath(i)
  BY <1>1 DEF RelPath
<1>3. FileEntries' = FileEntries
  BY <1>1 DEF FileEntries
<1>4. \A i : Refusal(i)' = Refusal(i)
  BY <1>1, <1>2 DEF Refusal, RefusalAt
<1>5. RelPaths' = RelPaths
  BY <1>2 DEF RelPaths
<1>6. OnePathEach(RelPaths)' = OnePathEach(RelPaths)
  BY <1>3, <1>5 DEF OnePathEach
<1>7. ArchivedFiles(RelPaths)' = ArchivedFiles(RelPaths)
  BY <1>1, <1>3, <1>5 DEF ArchivedFiles
<1> QED BY <1>1, <1>2, <1>3, <1>4, <1>5, <1>6, <1>7

-----------------------------------------------------------------------------
(* What a step does to an entry and to the error.                          *)

\* From where to where an entry may go.
Passes(i) ==
  \/ stage'[i] = stage[i]
  \/ stage[i] = "none" /\ stage'[i] = "mkdir" /\ Refusal(i) = NoError /\ i = next /\ next' = next + 1
  \/ stage[i] = "mkdir" /\ stage'[i] = "data" /\ i \in FileEntries
  \/ stage[i] = "mkdir" /\ stage'[i] = "done" /\ i \notin FileEntries
  \/ stage[i] = "data" /\ stage'[i] = "ended" /\ Entry(i).content.bytes <= maxEntryBytes
  \/ stage[i] = "ended" /\ stage'[i] = "write"
  \/ stage[i] = "write" /\ stage'[i] = "done"
  \/ stage[i] \in {"mkdir", "data", "write"} /\ stage'[i] = "failed" /\ firstError' # NoError

Moves ==
  /\ stage' \in [DOMAIN archive -> Stages]
  /\ \A i \in DOMAIN archive : Passes(i)
  /\ firstError' = NoError => firstError = NoError
  /\ \/ next' = next
     \/ /\ next' = next + 1 /\ next \in DOMAIN archive /\ phase \in {"parsing", "failing"}
        /\ firstError' = NoError => stage'[next] = "mkdir"

\* The error that is raised stands.
LEMMA RaiseStands ==
  ASSUME NEW e, e # NoError, Raise(e)
  PROVE  firstError' # NoError
BY DEF Raise

LEMMA OnEntryMoves == ASSUME TarballInv, OnEntry PROVE Moves
PROOF
<1>1. /\ next \in DOMAIN archive /\ next \in Nat /\ stage \in [DOMAIN archive -> Stages]
      /\ stage[next] = "none" /\ next' = next + 1 /\ phase \in {"parsing", "failing"}
  <2>1. /\ next \in Nat \ {0} /\ stage \in [DOMAIN archive -> Stages]
        /\ DOMAIN archive = 1..Len(archive) /\ Len(archive) \in Nat
    BY ArchiveShape DEF TarballInv, Shaped
  <2>2. next <= Len(archive) /\ next' = next + 1 /\ phase \in {"parsing", "failing"}
    BY DEF OnEntry
  <2>3. next \in DOMAIN archive
    BY <2>1, <2>2
  <2>4. stage[next] = "none"
    BY <2>1, <2>3 DEF TarballInv, Accepted
  <2> QED BY <2>1, <2>2, <2>3, <2>4
<1>2. CASE firstError # NoError
  BY <1>1, <1>2 DEF OnEntry, Moves, Passes
<1>3. CASE firstError = NoError /\ Refusal(next) # NoError
  <2>1. firstError' # NoError /\ stage' = stage
    BY <1>3, RaiseStands DEF OnEntry
  <2> QED BY <1>1, <2>1 DEF Moves, Passes
<1>4. CASE firstError = NoError /\ Refusal(next) = NoError
  <2>1. firstError' = firstError /\ stage' = [stage EXCEPT ![next] = "mkdir"]
    BY <1>4 DEF OnEntry
  <2> QED BY <1>1, <1>4, <2>1 DEF Moves, Passes, Stages
<1> QED BY <1>2, <1>3, <1>4

LEMMA JobMoves ==
  ASSUME TarballInv, NEW i \in DOMAIN archive,
         MakeDir(i) \/ CollectData(i) \/ AddTotal(i) \/ WriteFile(i) \/ JobFails(i)
  PROVE  Moves
PROOF
<1>1. stage \in [DOMAIN archive -> Stages]
  BY DEF TarballInv, Shaped
<1>2. CASE MakeDir(i)
  BY <1>1, <1>2 DEF MakeDir, Moves, Passes, Stages, FileEntries
<1>3. CASE CollectData(i)
  <2>1. CASE Entry(i).content.bytes > maxEntryBytes
    <3>1. stage' = [stage EXCEPT ![i] = "failed"] /\ firstError' # NoError
      BY <1>3, <2>1, RaiseStands DEF CollectData, NoError
    <3> QED BY <1>1, <1>3, <3>1 DEF CollectData, Moves, Passes, Stages
  <2>2. CASE ~(Entry(i).content.bytes > maxEntryBytes)
    <3>1. i \in FileEntries
      BY <1>3 DEF CollectData, TarballInv, Accepted
    <3>2. Entry(i).content.bytes <= maxEntryBytes
      BY <2>2, <3>1, ArchiveShape, ArchivesAssumption DEF TarballInv
    <3> QED BY <1>1, <1>3, <2>2, <3>2 DEF CollectData, Moves, Passes, Stages
  <2> QED BY <2>1, <2>2
<1>4. CASE AddTotal(i)
  <2>1. firstError' = NoError => firstError = NoError
    BY <1>4, RaiseStands DEF AddTotal, NoError
  <2> QED BY <1>1, <1>4, <2>1 DEF AddTotal, Moves, Passes, Stages
<1>5. CASE WriteFile(i)
  BY <1>1, <1>5 DEF WriteFile, Moves, Passes, Stages
<1>6. CASE JobFails(i)
  <2>1. firstError' # NoError
    BY <1>6, RaiseStands DEF JobFails, NoError
  <2> QED BY <1>1, <1>6, <2>1 DEF JobFails, Moves, Passes, Stages
<1> QED BY <1>2, <1>3, <1>4, <1>5, <1>6

\* All else leaves the entries alone.
Ends == StreamEnds \/ StreamFails \/ Settled \/ Abandon \/ Analyze \/ AnalysisThrows \/ Cleanup

LEMMA StepMoves == ASSUME TarballInv, TarballNext PROVE Moves
PROOF
<1>1. CASE OnEntry
  BY <1>1, OnEntryMoves
<1>2. ASSUME NEW i \in DOMAIN archive,
             MakeDir(i) \/ CollectData(i) \/ AddTotal(i) \/ WriteFile(i) \/ JobFails(i)
      PROVE  Moves
  BY <1>2, JobMoves
<1>3. CASE Ends
  BY <1>3 DEF Ends, StreamEnds, StreamFails, Settled, Abandon, Analyze, AnalysisThrows, Cleanup,
     Moves, Passes, TarballInv, Shaped
<1> QED BY <1>1, <1>2, <1>3 DEF TarballNext, Ends

LEMMA AcceptedStep == ASSUME TarballInv, TarballNext PROVE Accepted'
PROOF
<1>1. Moves /\ archive' = archive
  BY StepMoves, ArchiveStays
<1>2. /\ next \in Nat /\ DOMAIN archive = 1..Len(archive) /\ Len(archive) \in Nat
      /\ stage \in [DOMAIN archive -> Stages]
  BY ArchiveShape DEF TarballInv, Shaped
<1>3. /\ FileEntries' = FileEntries
      /\ \A i : Entry(i)' = Entry(i) /\ Refusal(i)' = Refusal(i)
  BY <1>1, Static
<1> SUFFICES ASSUME NEW i \in DOMAIN archive
             PROVE  /\ i >= next' => stage'[i] = "none"
                    /\ stage'[i] \notin {"none", "failed"} => Refusal(i) = NoError
                    /\ stage'[i] \in {"data", "ended", "write"} => i \in FileEntries
                    /\ stage'[i] \in {"ended", "write", "done"} /\ i \in FileEntries =>
                         Entry(i).content.bytes <= maxEntryBytes
                    /\ firstError' = NoError /\ i < next' => stage'[i] \notin {"none", "failed"}
  BY <1>1, <1>3 DEF Accepted
<1>4. /\ i >= next => stage[i] = "none"
      /\ stage[i] \notin {"none", "failed"} => Refusal(i) = NoError
      /\ stage[i] \in {"data", "ended", "write"} => i \in FileEntries
      /\ stage[i] \in {"ended", "write", "done"} /\ i \in FileEntries =>
           Entry(i).content.bytes <= maxEntryBytes
      /\ firstError = NoError /\ i < next => stage[i] \notin {"none", "failed"}
  BY DEF TarballInv, Accepted
<1>5. Passes(i) /\ i \in Nat /\ next' \in {next, next + 1}
  BY <1>1, <1>2 DEF Moves
<1>6. i >= next' => stage'[i] = "none"
  BY <1>2, <1>4, <1>5 DEF Passes
<1>7. /\ stage'[i] \notin {"none", "failed"} => Refusal(i) = NoError
      /\ stage'[i] \in {"data", "ended", "write"} => i \in FileEntries
      /\ stage'[i] \in {"ended", "write", "done"} /\ i \in FileEntries =>
           Entry(i).content.bytes <= maxEntryBytes
  BY <1>4, <1>5 DEF Passes
<1>8. ASSUME firstError' = NoError, i < next' PROVE stage'[i] \notin {"none", "failed"}
  <2>1. CASE i < next
    <3>1. firstError = NoError
      BY <1>1, <1>8 DEF Moves
    <3> QED BY <1>4, <1>5, <1>8, <2>1, <3>1 DEF Passes
  <2>2. CASE i = next
    <3>1. stage'[i] = "mkdir"
      BY <1>1, <1>2, <1>8, <2>2 DEF Moves
    <3> QED BY <3>1
  <2> QED BY <1>2, <1>5, <1>8, <2>1, <2>2
<1> QED BY <1>6, <1>7, <1>8

LEMMA ShapedStep == ASSUME TarballInv, TarballNext PROVE Shaped'
PROOF
<1>1. archive' = archive /\ Moves
  BY ArchiveStays, StepMoves
<1>3. Shaped /\ Accepted
  BY DEF TarballInv
<1>4. next' \in Nat \ {0}
  BY <1>1, <1>3 DEF Moves, Shaped
<1>5. totalBytes' \in Nat
  <2>1. CASE totalBytes' = totalBytes
    BY <1>3, <2>1 DEF Shaped
  <2>2. ASSUME NEW i \in DOMAIN archive, AddTotal(i) PROVE totalBytes' \in Nat
    <3>1. i \in FileEntries
      BY <1>3, <2>2 DEF Accepted, AddTotal
    <3>2. Entry(i).content.bytes \in Nat /\ totalBytes \in Nat
      BY <1>3, <3>1, ArchiveShape DEF Shaped
    <3> QED BY <2>2, <3>2 DEF AddTotal
  <2> QED BY <2>1, <2>2 DEF TarballNext, OnEntry, MakeDir, CollectData, WriteFile, JobFails,
             StreamEnds, StreamFails, Settled, Abandon, Analyze, AnalysisThrows, Cleanup
<1>7. phase' \in Phases
  BY <1>3 DEF Shaped, Phases, TarballNext, OnEntry, MakeDir, CollectData, AddTotal, WriteFile,
     JobFails, StreamEnds, StreamFails, Settled, Abandon, Analyze, AnalysisThrows, Cleanup
<1> QED BY <1>1, <1>3, <1>4, <1>5, <1>7 DEF Shaped, Moves

\* What is counted grows by the file whose bytes are added, and by no other.
LEMMA MeasuredStep == ASSUME TarballInv, TarballNext PROVE Measured'
PROOF
<1> SUFFICES ASSUME firstError' = NoError
             PROVE  totalBytes' = Cardinality(BytesOf(Counted)') /\ totalBytes' <= maxTotalBytes
  BY DEF Measured
<1>1. archive' = archive /\ Moves
  BY ArchiveStays, StepMoves
<1>2. FileEntries' = FileEntries /\ \A i : Entry(i)' = Entry(i)
  BY <1>1, Static
<1>3. firstError = NoError /\ totalBytes = Cardinality(BytesOf(Counted)) /\ totalBytes <= maxTotalBytes
  BY <1>1 DEF Moves, TarballInv, Measured
<1>4. Shaped /\ Accepted
  BY DEF TarballInv
<1>5. ASSUME Counted' = Counted PROVE BytesOf(Counted)' = BytesOf(Counted)
  BY <1>2, <1>5 DEF BytesOf
<1>6. CASE \E i \in DOMAIN archive : AddTotal(i)
  <2>1. PICK i \in DOMAIN archive : AddTotal(i)
    BY <1>6
  <2>2. i \in FileEntries /\ stage[i] = "ended" /\ stage' = [stage EXCEPT ![i] = "write"]
        /\ totalBytes' = totalBytes + Entry(i).content.bytes
    BY <1>4, <2>1 DEF Accepted, AddTotal
  <2>3. i \notin Counted /\ Counted' = Counted \cup {i} /\ Counted \in SUBSET FileEntries
    BY <1>2, <1>4, <2>2 DEF Counted, Shaped, FileEntries
  <2>4. BytesOf(Counted)' = BytesOf(Counted \cup {i})
    BY <1>2, <2>3 DEF BytesOf
  <2>5. Cardinality(BytesOf(Counted \cup {i})) = totalBytes'
    BY <1>3, <1>4, <2>2, <2>3, ArchiveShape, OneMoreFile
  <2>6. totalBytes' <= maxTotalBytes
    <3>1. ~(totalBytes' > maxTotalBytes)
      BY <2>1, RaiseStands DEF AddTotal, NoError
    <3>2. totalBytes' \in Nat /\ maxTotalBytes \in Nat
      BY ShapedStep, ArchivesAssumption DEF Shaped
    <3> QED BY <3>1, <3>2
  <2> QED BY <2>4, <2>5, <2>6
<1>7. CASE ~\E i \in DOMAIN archive : AddTotal(i)
  <2>1. totalBytes' = totalBytes
    BY <1>7 DEF TarballNext, OnEntry, MakeDir, CollectData, WriteFile, JobFails,
       StreamEnds, StreamFails, Settled, Abandon, Analyze, AnalysisThrows, Cleanup
  <2>2. \A i \in FileEntries : stage'[i] \in {"write", "done"} <=> stage[i] \in {"write", "done"}
    <3> SUFFICES ASSUME NEW i \in FileEntries
                 PROVE  stage'[i] \in {"write", "done"} <=> stage[i] \in {"write", "done"}
      OBVIOUS
    <3>1. i \in DOMAIN archive /\ Passes(i)
      BY <1>1 DEF Moves, FileEntries
    <3>2. ~(stage[i] = "ended" /\ stage'[i] = "write")
      <4>1. ASSUME NEW j \in DOMAIN archive, MakeDir(j) \/ CollectData(j) \/ WriteFile(j) \/ JobFails(j)
            PROVE  ~(stage[i] = "ended" /\ stage'[i] = "write")
        BY <1>4, <3>1, <4>1 DEF MakeDir, CollectData, WriteFile, JobFails, Shaped
      <4>2. CASE OnEntry
        BY <1>4, <3>1, <4>2 DEF OnEntry, Shaped
      <4>3. CASE Ends
        BY <4>3 DEF Ends, StreamEnds, StreamFails, Settled, Abandon, Analyze, AnalysisThrows, Cleanup
      <4> QED BY <1>7, <4>1, <4>2, <4>3 DEF TarballNext, Ends
    <3> QED BY <3>1, <3>2 DEF Passes
  <2>3. Counted' = Counted
    BY <1>2, <2>2 DEF Counted
  <2> QED BY <1>3, <1>5, <2>1, <2>3
<1> QED BY <1>6, <1>7

-----------------------------------------------------------------------------
(* The phases.                                                             *)

LEMMA InFlightStays ==
  ASSUME TarballInv, TarballNext, InFlight = {}, phase \notin {"parsing"}
  PROVE  InFlight' = {}
PROOF
<1>1. Moves /\ archive' = archive /\ stage \in [DOMAIN archive -> Stages]
  BY StepMoves, ArchiveStays DEF TarballInv, Shaped
<1>2. stage' \in [DOMAIN archive -> Stages]
  BY <1>1 DEF Moves
<1>3. ~OnEntry
  BY DEF OnEntry
<1>4. \A i \in DOMAIN archive : stage[i] \notin {"mkdir", "data", "ended", "write"}
  BY <1>1 DEF InFlight
<1>5. ASSUME NEW i \in DOMAIN archive PROVE stage'[i] \notin {"mkdir", "data", "ended", "write"}
  <2>1. stage' = stage
    BY <1>3, <1>4 DEF TarballNext, MakeDir, CollectData, AddTotal, WriteFile, JobFails,
       StreamEnds, StreamFails, Settled, Abandon, Analyze, AnalysisThrows, Cleanup
  <2> QED BY <1>4, <2>1
<1> QED BY <1>2, <1>5 DEF InFlight

LEMMA PhasedStep == ASSUME TarballInv, TarballNext PROVE Phased'
PROOF
<1>1. archive' = archive /\ Moves /\ Phased
  BY ArchiveStays, StepMoves DEF TarballInv
<1>2. next \in Nat /\ Len(archive) \in Nat
  BY ArchiveShape DEF TarballInv, Shaped
<1>3. CASE OnEntry
  BY <1>1, <1>3 DEF OnEntry, Phased, Over
<1>4. ASSUME NEW i \in DOMAIN archive,
             MakeDir(i) \/ CollectData(i) \/ AddTotal(i) \/ WriteFile(i) \/ JobFails(i)
      PROVE  Phased'
  <2>1. i \in InFlight
    BY <1>4 DEF TarballInv, Shaped, InFlight, MakeDir, CollectData, AddTotal, WriteFile, JobFails
  <2>2. phase' = phase /\ next' = next
    BY <1>4 DEF MakeDir, CollectData, AddTotal, WriteFile, JobFails
  <2>3. phase \notin {"extracted", "analyzed", "threw", "returned", "rejected"}
    BY <1>1, <2>1 DEF Phased, Over
  <2> QED BY <1>1, <2>2, <2>3 DEF Phased, Over
<1>5. CASE StreamEnds
  BY <1>1, <1>2, <1>5 DEF StreamEnds, Phased, Over
<1>6. CASE StreamFails
  BY <1>1, <1>6 DEF StreamFails, Phased, Over
<1>7. CASE Settled
  <2>1. InFlight' = {} /\ next' = next /\ firstError' = firstError /\ next > Len(archive)
    BY <1>1, <1>7, InFlightStays DEF Settled, Phased
  <2> QED BY <1>1, <1>7, <2>1 DEF Settled, Phased, Over
<1>8. CASE Abandon
  BY <1>1, <1>8, InFlightStays DEF Abandon, Phased, Over
<1>9. CASE Analyze \/ AnalysisThrows \/ Cleanup
  <2>1. InFlight' = {}
    BY <1>1, <1>9, InFlightStays DEF Analyze, AnalysisThrows, Cleanup, Phased, Over
  <2>2. next' = next /\ firstError' = firstError
    BY <1>9 DEF Analyze, AnalysisThrows, Cleanup
  <2> QED BY <1>1, <1>9, <2>1, <2>2 DEF Analyze, AnalysisThrows, Cleanup, Phased, Over
<1> QED BY <1>3, <1>4, <1>5, <1>6, <1>7, <1>8, <1>9 DEF TarballNext

-----------------------------------------------------------------------------
(* The directory, the list and the snapshot.                               *)

LEMMA OnlyWritingWrites ==
  ASSUME TarballInv, TarballNext
  PROVE  \/ \E i \in FileEntries : WriteFile(i)
         \/ OnDisk' = OnDisk /\ entries' = entries
PROOF
<1>1. archive' = archive /\ Moves /\ Shaped /\ Accepted
  BY ArchiveStays, StepMoves DEF TarballInv
<1>2. FileEntries' = FileEntries
  BY <1>1, Static
<1> SUFFICES ASSUME ~\E i \in FileEntries : WriteFile(i)
             PROVE  OnDisk' = OnDisk /\ entries' = entries
  OBVIOUS
<1>3. ~\E i \in DOMAIN archive : WriteFile(i)
  BY <1>1 DEF Accepted, WriteFile
<1>4. entries' = entries
  BY <1>3 DEF TarballNext, OnEntry, MakeDir, CollectData, AddTotal, JobFails,
     StreamEnds, StreamFails, Settled, Abandon, Analyze, AnalysisThrows, Cleanup
<1>5. \A i \in FileEntries : stage'[i] = "done" <=> stage[i] = "done"
  <2> SUFFICES ASSUME NEW i \in FileEntries
               PROVE  stage'[i] = "done" <=> stage[i] = "done"
    OBVIOUS
  <2>1. i \in DOMAIN archive /\ Passes(i)
    BY <1>1 DEF Moves, FileEntries
  <2>2. ~(stage[i] = "write" /\ stage'[i] = "done")
    <3>1. ASSUME NEW j \in DOMAIN archive, MakeDir(j) \/ CollectData(j) \/ AddTotal(j) \/ JobFails(j)
          PROVE  ~(stage[i] = "write" /\ stage'[i] = "done")
      BY <1>1, <2>1, <3>1 DEF MakeDir, CollectData, AddTotal, JobFails, Shaped
    <3>2. CASE OnEntry
      BY <1>1, <2>1, <3>2 DEF OnEntry, Shaped
    <3>3. CASE Ends
      BY <3>3 DEF Ends, StreamEnds, StreamFails, Settled, Abandon, Analyze, AnalysisThrows, Cleanup
    <3> QED BY <1>3, <3>1, <3>2, <3>3 DEF TarballNext, Ends
  <2> QED BY <2>1, <2>2 DEF Passes
<1>6. OnDisk' = OnDisk
  BY <1>2, <1>5 DEF OnDisk
<1> QED BY <1>4, <1>6

\* What is written comes on top of what is there.
LEMMA WriteAdds ==
  ASSUME TarballInv, NEW i \in FileEntries, WriteFile(i)
  PROVE  /\ phase' = phase /\ phase \notin {"extracted", "analyzed", "threw"} \cup Over
         /\ i \notin OnDisk /\ OnDisk' = OnDisk \cup {i}
         /\ entries' = Append(entries, RecordOf(RelPaths, i))
         /\ RelPath(i) = RelPaths[i]
         /\ disk' = [p \in {RelPath(i)} \cup DOMAIN disk |->
                       IF p = RelPath(i) THEN Entry(i).content ELSE disk[p]]
PROOF
<1>1. archive' = archive /\ stage \in [DOMAIN archive -> Stages] /\ i \in DOMAIN archive
  BY DEF WriteFile, TarballInv, Shaped, FileEntries
<1>2. FileEntries' = FileEntries
  BY <1>1, Static
<1>3. stage[i] = "write" /\ stage' = [stage EXCEPT ![i] = "done"] /\ phase' = phase
  BY DEF WriteFile
<1>4. i \notin OnDisk /\ OnDisk' = OnDisk \cup {i}
  BY <1>1, <1>2, <1>3 DEF OnDisk, FileEntries
<1>5. i \in InFlight
  BY <1>1, <1>3 DEF InFlight
<1>8. \A j \in FileEntries : RelPath(j) = RelPaths[j]
  BY DEF RelPaths, FileEntries
<1>6. entries' = Append(entries, RecordOf(RelPaths, i))
  BY <1>8 DEF WriteFile, AddFile, RecordOf
<1>7. disk' = [p \in {RelPath(i)} \cup DOMAIN disk |->
                 IF p = RelPath(i) THEN Entry(i).content ELSE disk[p]]
  BY DEF WriteFile, AddFile
<1> QED BY <1>3, <1>4, <1>5, <1>6, <1>7, <1>8 DEF TarballInv, Phased

LEMMA HeldStep == ASSUME TarballInv, TarballNext PROVE Held'
PROOF
<1>1. archive' = archive /\ Held /\ Phased
  BY ArchiveStays DEF TarballInv
<1>2. /\ FileEntries' = FileEntries /\ OnePathEach(RelPaths)' = OnePathEach(RelPaths)
      /\ RelPaths' = RelPaths /\ \A i : Entry(i)' = Entry(i)
  BY <1>1, Static
<1>3. CASE Abandon \/ Cleanup
  BY <1>3 DEF Abandon, Cleanup, Held, Over
<1>4. ASSUME NEW i \in FileEntries, WriteFile(i) PROVE Held'
  <2>1. phase' = phase /\ phase \notin Over /\ i \notin OnDisk /\ OnDisk' = OnDisk \cup {i}
    BY <1>4, WriteAdds
  <2>2. disk' = [p \in {RelPath(i)} \cup DOMAIN disk |->
                   IF p = RelPath(i) THEN Entry(i).content ELSE disk[p]]
    BY <1>4, WriteAdds
  <2> SUFFICES ASSUME OnePathEach(RelPaths) PROVE Filled(RelPaths, OnDisk', disk')
    BY <1>1, <1>2, <2>1 DEF Held, Filled
  <2>3. Filled(RelPaths, OnDisk, disk) /\ RelPath(i) = RelPaths[i]
    BY <1>1, <1>4, <2>1, WriteAdds DEF Held
  <2>4. \A j \in OnDisk : RelPaths[j] # RelPaths[i]
    BY <2>1 DEF OnDisk, OnePathEach
  <2>5. Filled(RelPaths, OnDisk \cup {i}, WithFile(RelPaths, i, disk))
    BY <2>3, <2>4, OneMoreHeld
  <2> QED BY <2>1, <2>2, <2>3, <2>5 DEF WithFile
<1>5. CASE ~(Abandon \/ Cleanup) /\ ~\E i \in FileEntries : WriteFile(i)
  <2>1. OnDisk' = OnDisk
    BY <1>5, OnlyWritingWrites
  <2>2. disk' = disk /\ (phase' \in Over => phase \in Over)
    BY <1>5 DEF TarballInv, Accepted, WriteFile, Over, TarballNext, OnEntry, MakeDir, CollectData,
       AddTotal, JobFails, StreamEnds, StreamFails, Settled, Analyze, AnalysisThrows
  <2>3. phase \in Over => dirs' = dirs /\ phase' = phase
    <3> SUFFICES ASSUME phase \in Over PROVE dirs' = dirs /\ phase' = phase
      OBVIOUS
    <3>1. \A i \in DOMAIN archive : stage[i] # "mkdir"
      BY <1>1 DEF Phased, InFlight, TarballInv, Shaped
    <3> QED BY <1>5, <3>1 DEF TarballInv, Accepted, WriteFile, Over, TarballNext, OnEntry, MakeDir,
           CollectData, AddTotal, JobFails, StreamEnds, StreamFails, Settled, Analyze, AnalysisThrows
  <2>4. (phase \notin Over /\ phase' \notin Over) \/ (phase' \in Over /\ phase \in Over)
    BY <2>2, <2>3
  <2> QED BY <1>1, <1>2, <2>1, <2>2, <2>3, <2>4 DEF Held, Filled
<1> QED BY <1>3, <1>4, <1>5

LEMMA ListedStep == ASSUME TarballInv, TarballNext PROVE ListedOnce'
PROOF
<1>1. archive' = archive /\ ListedOnce
  BY ArchiveStays DEF TarballInv
<1>2. /\ OnePathEach(RelPaths)' = OnePathEach(RelPaths) /\ RelPaths' = RelPaths
      /\ FileEntries' = FileEntries /\ \A i : Entry(i)' = Entry(i)
  BY <1>1, Static
<1> SUFFICES ASSUME OnePathEach(RelPaths) PROVE Lists(RelPaths, OnDisk', entries')
  BY <1>2 DEF ListedOnce, Lists, RecordOf
<1>3. Lists(RelPaths, OnDisk, entries)
  BY <1>1 DEF ListedOnce
<1>4. CASE \E i \in FileEntries : WriteFile(i)
  <2>1. PICK i \in FileEntries : WriteFile(i)
    BY <1>4
  <2>2. i \notin OnDisk /\ OnDisk' = OnDisk \cup {i} /\ entries' = Append(entries, RecordOf(RelPaths, i))
    BY <2>1, WriteAdds
  <2>3. OnDisk \in SUBSET FileEntries /\ \A j \in OnDisk : RelPaths[j] # RelPaths[i]
    BY <2>2 DEF OnDisk, OnePathEach
  <2> QED BY <1>3, <2>2, <2>3, OneMoreListed
<1>5. CASE OnDisk' = OnDisk /\ entries' = entries
  BY <1>3, <1>5
<1> QED BY <1>4, <1>5, OnlyWritingWrites

\* Once it is extracted all files of the archive are there.
LEMMA ExtractedWhole ==
  ASSUME TarballInv, phase \in {"extracted", "analyzed", "threw", "returned"}
  PROVE  /\ OnDisk = FileEntries
         /\ \A i \in DOMAIN archive : stage[i] = "done"
         /\ firstError = NoError
PROOF
<1>1. /\ next > Len(archive) /\ firstError = NoError /\ InFlight = {}
      /\ stage \in [DOMAIN archive -> Stages] /\ next \in Nat
      /\ DOMAIN archive = 1..Len(archive) /\ Len(archive) \in Nat
  <2>1. Shaped /\ Phased
    BY DEF TarballInv
  <2>2. stage \in [DOMAIN archive -> Stages] /\ next \in Nat
    BY <2>1 DEF Shaped
  <2>3. next > Len(archive) /\ firstError = NoError /\ InFlight = {}
    BY <2>1 DEF Phased, Over
  <2> QED BY <2>1, <2>2, <2>3, ArchiveShape
<1>2. ASSUME NEW i \in DOMAIN archive PROVE stage[i] = "done"
  <2>1. i < next /\ stage[i] \in Stages
    BY <1>1
  <2>2. stage[i] \notin {"none", "failed"}
    BY <1>1, <2>1 DEF TarballInv, Accepted
  <2>3. stage[i] \notin {"mkdir", "data", "ended", "write"}
    BY <1>1 DEF InFlight
  <2> QED BY <2>1, <2>2, <2>3 DEF Stages
<1> QED BY <1>1, <1>2 DEF OnDisk, FileEntries

LEMMA SnapshotStep == ASSUME TarballInv, TarballNext PROVE SnapshotTaken'
PROOF
<1>1. archive' = archive /\ SnapshotTaken
  BY ArchiveStays DEF TarballInv
<1>2. /\ OnePathEach(RelPaths)' = OnePathEach(RelPaths)
      /\ ArchivedFiles(RelPaths)' = ArchivedFiles(RelPaths)
  BY <1>1, Static
<1>3. CASE Analyze
  <2> SUFFICES ASSUME OnePathEach(RelPaths)
               PROVE  snapshot' = SnapshotOf(ArchivedFiles(RelPaths), entries)' 
    BY <1>2 DEF SnapshotTaken
  <2>1. phase = "extracted" /\ snapshot' = SnapshotOf(disk, entries) /\ entries' = entries
    BY <1>3 DEF Analyze
  <2>2. Filled(RelPaths, FileEntries, disk)
    BY <2>1, ExtractedWhole DEF TarballInv, Held, Over
  <2>5. disk = ArchivedFiles(RelPaths)
    BY <2>2, WholeDirectory
  <2>6. SnapshotOf(ArchivedFiles(RelPaths), entries)' = SnapshotOf(ArchivedFiles(RelPaths), entries)
    BY <1>2, <2>1 DEF SnapshotOf
  <2> QED BY <2>1, <2>5, <2>6
<1>4. CASE ~Analyze
  <2> SUFFICES ASSUME OnePathEach(RelPaths), phase' \in {"analyzed", "returned"}
               PROVE  snapshot' = SnapshotOf(ArchivedFiles(RelPaths), entries)' 
    BY <1>2 DEF SnapshotTaken
  <2>1. phase \in {"analyzed", "returned"} /\ snapshot' = snapshot
    BY <1>4 DEF TarballNext, OnEntry, MakeDir, CollectData, AddTotal, WriteFile, JobFails,
       StreamEnds, StreamFails, Settled, Abandon, AnalysisThrows, Cleanup
  <2>2. entries' = entries
    BY <2>1, OnlyWritingWrites, WriteAdds DEF Over
  <2>3. SnapshotOf(ArchivedFiles(RelPaths), entries)' = SnapshotOf(ArchivedFiles(RelPaths), entries)
    BY <1>2, <2>2 DEF SnapshotOf
  <2> QED BY <1>1, <2>1, <2>3 DEF SnapshotTaken
<1> QED BY <1>3, <1>4

-----------------------------------------------------------------------------
LEMMA TarballBegins == TarballInit => TarballInv
PROOF
<1> SUFFICES ASSUME TarballInit PROVE TarballInv
  OBVIOUS
<1>1. Shaped
  BY ArchivesAssumption DEF TarballInit, Shaped, Stages, Phases
<1>2. OnDisk = {} /\ Counted = {}
  BY DEF TarballInit, OnDisk, Counted, FileEntries
<1>3. Accepted
  BY <1>1, ArchiveShape DEF TarballInit, Accepted
<1>4. Measured
  <2>1. BytesOf(Counted) = {}
    BY <1>2 DEF BytesOf
  <2> QED BY <2>1, FS_EmptySet, ArchivesAssumption DEF TarballInit, Measured
<1>5. Phased
  BY DEF TarballInit, Phased, Over
<1>6. Held
  BY <1>2 DEF TarballInit, Held, Filled, Over
<1>7. ListedOnce
  BY <1>2 DEF TarballInit, ListedOnce, Lists
<1>8. SnapshotTaken
  BY DEF TarballInit, SnapshotTaken
<1> QED BY <1>1, <1>3, <1>4, <1>5, <1>6, <1>7, <1>8 DEF TarballInv

LEMMA TarballStays == TarballInv /\ [TarballNext]_tarballVars => TarballInv'
PROOF
<1> SUFFICES ASSUME TarballInv, [TarballNext]_tarballVars PROVE TarballInv'
  OBVIOUS
<1>1. CASE TarballNext
  BY <1>1, ShapedStep, AcceptedStep, MeasuredStep, PhasedStep, HeldStep, ListedStep, SnapshotStep
     DEF TarballInv
<1>2. CASE UNCHANGED tarballVars
  <2>1. archive' = archive
    BY <1>2 DEF tarballVars
  <2>2. /\ FileEntries' = FileEntries /\ RelPaths' = RelPaths
        /\ OnePathEach(RelPaths)' = OnePathEach(RelPaths)
        /\ ArchivedFiles(RelPaths)' = ArchivedFiles(RelPaths)
        /\ \A i : Entry(i)' = Entry(i) /\ Refusal(i)' = Refusal(i)
    BY <2>1, Static
  <2>3. OnDisk' = OnDisk /\ Counted' = Counted /\ InFlight' = InFlight
    BY <1>2, <2>2 DEF tarballVars, OnDisk, Counted, InFlight
  <2>4. BytesOf(Counted)' = BytesOf(Counted)
    BY <2>2, <2>3 DEF BytesOf
  <2>5. SnapshotOf(ArchivedFiles(RelPaths), entries)' = SnapshotOf(ArchivedFiles(RelPaths), entries)
    BY <1>2, <2>2 DEF tarballVars, SnapshotOf
  <2>6. Shaped' /\ Accepted'
    BY <1>2, <2>2 DEF tarballVars, TarballInv, Shaped, Accepted
  <2>7. Measured' /\ Phased'
    BY <1>2, <2>3, <2>4 DEF tarballVars, TarballInv, Measured, Phased
  <2>8. Held'
    BY <1>2, <2>2, <2>3 DEF tarballVars, TarballInv, Held, Filled
  <2>9. ListedOnce'
    BY <1>2, <2>2, <2>3 DEF tarballVars, TarballInv, ListedOnce, Lists, RecordOf
  <2>10. SnapshotTaken'
    BY <1>2, <2>2, <2>5 DEF tarballVars, TarballInv, SnapshotTaken
  <2> QED BY <2>6, <2>7, <2>8, <2>9, <2>10 DEF TarballInv
<1> QED BY <1>1, <1>2

-----------------------------------------------------------------------------
(* What it says of a snapshot that is returned.                            *)

LEMMA SnapshotIsWhole ==
  ASSUME TarballInv, phase = "returned", OnePathEach(RelPaths)
  PROVE  TarballSnapshotMatches
PROOF
<1> DEFINE archived == ArchivedFiles(RelPaths)
           manifest == ManifestAt(archived, <<"package.json">>)
           analyzed == {p \in DOMAIN archived : IsAnalyzed(p, manifest.bundled)}
           native == {p \in DOMAIN archived : Extension(p) \in NativeKinds}
           sources == {k \in DOMAIN entries : IsAnalyzed(entries[k].relPath, manifest.bundled)}
           source(k) == [FileCapabilities(entries[k].relPath, archived[entries[k].relPath])
                            EXCEPT !.sha256 = entries[k].sha256]
<1>1. /\ snapshot.manifest = manifest
      /\ snapshot.files = [k \in sources |-> source(k)]
      /\ snapshot.nativeArtifacts =
           [k \in {j \in DOMAIN entries : Extension(entries[j].relPath) \in NativeKinds} |->
              [path |-> entries[k].relPath, sha256 |-> entries[k].sha256, kind |-> Extension(entries[k].relPath)]]
      /\ snapshot.bundledLifecycle = BundledLifecycle(archived, manifest.bundled)
  BY DEF TarballInv, SnapshotTaken, SnapshotOf
<1>2. Lists(RelPaths, FileEntries, entries)
  BY ExtractedWhole DEF TarballInv, ListedOnce
<1>3. /\ \A k \in DOMAIN entries : /\ entries[k].relPath \in DOMAIN archived
                                   /\ entries[k].sha256 = archived[entries[k].relPath]
      /\ \A p \in DOMAIN archived : \E k \in DOMAIN entries : entries[k].relPath = p
  BY <1>2, ListIsComplete
<1>4. \A k \in DOMAIN entries : source(k) = FileCapabilities(entries[k].relPath, archived[entries[k].relPath])
  BY <1>3 DEF FileCapabilities
<1>5. \A k : source(k).path = entries[k].relPath /\ source(k).sha256 = entries[k].sha256
  BY DEF FileCapabilities
<1>6. OnceEach(RelPaths, analyzed, snapshot.files)
  <2>1. analyzed \in SUBSET DOMAIN archived /\ sources = {k \in DOMAIN entries : entries[k].relPath \in analyzed}
    BY <1>3
  <2> HIDE DEF analyzed, sources, source
  <2>2. /\ DOMAIN snapshot.files = {k \in DOMAIN entries : entries[k].relPath \in analyzed}
        /\ \A k \in DOMAIN snapshot.files : /\ snapshot.files[k].path = entries[k].relPath
                                            /\ snapshot.files[k].sha256 = entries[k].sha256
    BY <1>1, <1>5, <2>1
  <2> QED BY <1>2, <2>1, <2>2, OneForEachFile
<1>7. OnceEach(RelPaths, native, snapshot.nativeArtifacts)
  <2>1. native \in SUBSET DOMAIN archived
    OBVIOUS
  <2>2. /\ DOMAIN snapshot.nativeArtifacts = {k \in DOMAIN entries : entries[k].relPath \in native}
        /\ \A k \in DOMAIN snapshot.nativeArtifacts :
              /\ snapshot.nativeArtifacts[k].path = entries[k].relPath
              /\ snapshot.nativeArtifacts[k].sha256 = entries[k].sha256
    BY <1>1, <1>3
  <2> HIDE DEF native
  <2> QED BY <1>2, <2>1, <2>2, OneForEachFile
<1>8. ToSet(snapshot.files) = {FileCapabilities(p, archived[p]) : p \in analyzed}
  <2>1. ToSet(snapshot.files) = {source(k) : k \in sources}
    <3> HIDE DEF source, sources
    <3> QED BY <1>1 DEF ToSet
  <2>2. {source(k) : k \in sources} =
          {FileCapabilities(entries[k].relPath, archived[entries[k].relPath]) : k \in sources}
    <3> HIDE DEF source, archived
    <3> QED BY <1>4
  <2>3. {FileCapabilities(entries[k].relPath, archived[entries[k].relPath]) : k \in sources} =
          {FileCapabilities(p, archived[p]) : p \in analyzed}
    <3> HIDE DEF archived
    <3> QED BY <1>3
  <2> QED BY <2>1, <2>2, <2>3
<1>9. RecordedOnce(archived, analyzed, native)
  <2> HIDE DEF analyzed, native
  <2> QED BY <1>6, <1>7 DEF RecordedOnce, OnceEach
<1> QED BY <1>1, <1>8, <1>9 DEF TarballSnapshotMatches

\* What runs by itself is in the snapshot, and the harness sees it there.
LEMMA PersistenceIsSeen ==
  ASSUME TarballInv, phase = "returned", OnePathEach(RelPaths)
  PROVE  PersistenceIn(ArchivedFiles(RelPaths)) \subseteq AdaptPackageSnapshot(snapshot)
PROOF
<1> DEFINE archived == ArchivedFiles(RelPaths)
           manifest == ManifestAt(archived, <<"package.json">>)
           Run == {"preinstall", "install", "postinstall"}
           inner(b) == ManifestAt(archived, InnerManifest(b)).scripts
<1>1. /\ snapshot.manifest = manifest
      /\ snapshot.nativeArtifacts =
           [k \in {j \in DOMAIN entries : Extension(entries[j].relPath) \in NativeKinds} |->
              [path |-> entries[k].relPath, sha256 |-> entries[k].sha256, kind |-> Extension(entries[k].relPath)]]
      /\ snapshot.bundledLifecycle = BundledLifecycle(archived, manifest.bundled)
  BY DEF TarballInv, SnapshotTaken, SnapshotOf
<1>2. Lists(RelPaths, FileEntries, entries)
  BY ExtractedWhole DEF TarballInv, ListedOnce
<1>3. Run \subseteq LIFECYCLE_HOOKS /\ Run \subseteq ADAPTED_HOOKS
  BY DEF LIFECYCLE_HOOKS, ADAPTED_HOOKS
<1>4. ASSUME NEW h \in manifest.scripts \cap Run
      PROVE  Adapted("persistence", "FLAG", <<"package", h>>) \in AdaptPackageSnapshot(snapshot)
  <2> HIDE DEF manifest, Run
  <2> QED BY <1>1, <1>3 DEF AdaptPackageSnapshot
<1>5. ASSUME NEW b \in manifest.bundled, NEW h \in inner(b) \cap Run
      PROVE  Adapted("persistence", "FLAG", <<"bundled", <<b, h>>>>) \in AdaptPackageSnapshot(snapshot)
  <2>1. snapshot.bundledLifecycle =
          [name \in {c \in manifest.bundled : inner(c) \cap LIFECYCLE_HOOKS # {}} |-> inner(name) \cap LIFECYCLE_HOOKS]
    BY <1>1 DEF BundledLifecycle
  <2> HIDE DEF manifest, inner, Run
  <2>2. b \in DOMAIN snapshot.bundledLifecycle /\ h \in snapshot.bundledLifecycle[b] \cap ADAPTED_HOOKS
    BY <1>3, <2>1
  <2> DEFINE of(c) == {Adapted("persistence", "FLAG", <<"bundled", <<c, k>>>>) : k \in snapshot.bundledLifecycle[c] \cap ADAPTED_HOOKS}
  <2>3. Adapted("persistence", "FLAG", <<"bundled", <<b, h>>>>) \in of(b)
    BY <2>2
  <2>4. UNION {of(c) : c \in DOMAIN snapshot.bundledLifecycle} \subseteq AdaptPackageSnapshot(snapshot)
    BY DEF AdaptPackageSnapshot
  <2> HIDE DEF of
  <2> QED BY <2>2, <2>3, <2>4
<1>6. ASSUME NEW p \in DOMAIN archived, Extension(p) \in NativeKinds
      PROVE  Adapted("persistence", "INFO", <<"native", Extension(p)>>) \in AdaptPackageSnapshot(snapshot)
  <2>1. PICK k \in DOMAIN entries : entries[k].relPath = p
    BY <1>2, ListIsComplete
  <2>2. k \in DOMAIN snapshot.nativeArtifacts /\ snapshot.nativeArtifacts[k].kind = Extension(p)
    BY <1>1, <1>6, <2>1
  <2>3. snapshot.nativeArtifacts[k] \in ToSet(snapshot.nativeArtifacts)
    BY <2>2 DEF ToSet
  <2>4. Adapted("persistence", "INFO", <<"native", Extension(p)>>)
          \in {Adapted("persistence", "INFO", <<"native", a.kind>>) : a \in ToSet(snapshot.nativeArtifacts)}
    BY <2>2, <2>3
  <2> QED BY <2>4 DEF AdaptPackageSnapshot
<1>7. PersistenceIn(archived) =
        {Adapted("persistence", "FLAG", <<"package", h>>) : h \in manifest.scripts \cap Run}
        \cup (UNION {{Adapted("persistence", "FLAG", <<"bundled", <<b, h>>>>) : h \in inner(b) \cap Run} : b \in manifest.bundled})
        \cup {Adapted("persistence", "INFO", <<"native", Extension(p)>>) :
                p \in {q \in DOMAIN archived : Extension(q) \in NativeKinds}}
  BY DEF PersistenceIn
<1>8. ASSUME NEW x \in PersistenceIn(archived) PROVE x \in AdaptPackageSnapshot(snapshot)
  <2> HIDE DEF archived, manifest, Run, inner
  <2>1. CASE \E h \in manifest.scripts \cap Run : x = Adapted("persistence", "FLAG", <<"package", h>>)
    BY <1>4, <2>1
  <2>2. CASE \E b \in manifest.bundled : \E h \in inner(b) \cap Run :
                x = Adapted("persistence", "FLAG", <<"bundled", <<b, h>>>>)
    BY <1>5, <2>2
  <2>3. CASE \E p \in DOMAIN archived : Extension(p) \in NativeKinds
                /\ x = Adapted("persistence", "INFO", <<"native", Extension(p)>>)
    BY <1>6, <2>3
  <2> QED BY <1>7, <1>8, <2>1, <2>2, <2>3
<1> QED BY <1>8

LEMMA WithinItsLimits ==
  ASSUME TarballInv, phase = "returned"
  PROVE  WithinLimits /\ \A i \in DOMAIN archive : Refusal(i) = NoError
PROOF
<1>1. OnDisk = FileEntries /\ firstError = NoError /\ \A i \in DOMAIN archive : stage[i] = "done"
  BY ExtractedWhole
<1>2. \A i \in DOMAIN archive : Refusal(i) = NoError
  BY <1>1 DEF TarballInv, Accepted
<1>3. \A i \in FileEntries : Entry(i).content.bytes <= maxEntryBytes
  BY <1>1 DEF TarballInv, Accepted, FileEntries
<1>4. Cardinality(BytesOf(FileEntries)) <= maxTotalBytes
  <2>1. Counted = FileEntries
    BY <1>1 DEF Counted, FileEntries
  <2> QED BY <1>1, <2>1 DEF TarballInv, Measured
<1>5. Len(archive) <= maxEntries
  <2>1. DOMAIN archive = 1..Len(archive) /\ Len(archive) \in Nat /\ maxEntries \in Nat
    BY ArchiveShape, ArchivesAssumption DEF TarballInv
  <2>2. CASE Len(archive) = 0
    BY <2>1, <2>2
  <2>3. CASE Len(archive) # 0
    <3>1. Refusal(Len(archive)) = NoError
      BY <1>2, <2>1, <2>3
    <3> QED BY <2>1, <3>1 DEF Refusal, RefusalAt, NoError
  <2> QED BY <2>2, <2>3
<1> QED BY <1>2, <1>3, <1>4, <1>5 DEF WithinLimits

LEMMA TarballCovered ==
  ASSUME TarballInv
  PROVE  /\ TarballIsCovered
         /\ phase = "returned" /\ OnePathEach(RelPaths) =>
               PersistenceIn(ArchivedFiles(RelPaths)) \subseteq AdaptPackageSnapshot(snapshot)
PROOF
<1>1. phase \in {"returned", "rejected"} => disk = <<>> /\ dirs = {} /\ InFlight = {}
  BY DEF TarballInv, Held, Phased, Over
<1> QED BY <1>1, WithinItsLimits, SnapshotIsWhole, PersistenceIsSeen DEF TarballIsCovered

-----------------------------------------------------------------------------
(* Wheels and sdists: the invariant.                                       *)

PypiStages == {"none", "mkdir", "data", "ended", "write", "done", "failed", "late"}
PypiPhases == {"parsing", "settling", "failing", "extracted", "analyzed", "returned", "rejected"}

\* Nothing has gone wrong so far.  What is left to do once something has may
\* still write into a directory that was removed.
OnTrack == firstError = NoError /\ phase \notin {"failing", "rejected"}

\* An entry that was not refused.
Kept(i) ==
  /\ i <= maxEntries
  /\ \/ RefusalAt(i, Paths[i]) = NoError
     \/ Entry(i).type = "Directory" /\ (kind = "wheel" \/ Paths[i] = <<>>)

\* The files whose bytes have been counted.
PypiCounted == {i \in FileEntries : stage[i] \in {"mkdir", "write", "done"}}

PypiShaped ==
  /\ ArchiveTyped
  /\ \A i \in DOMAIN archive :
       /\ Entry(i).path # <<>> /\ Entry(i).path \in Seq(ToSet(Entry(i).path))
       /\ kind = "wheel" => Entry(i).type \in WheelTypes /\ stage[i] \in {"none", "done"}
  /\ next \in Nat \ {0}
  /\ stage \in [DOMAIN archive -> PypiStages]
  /\ phase \in PypiPhases

\* How far an entry can be, and what it has passed by then.
PypiAccepted ==
  \A i \in DOMAIN archive :
    /\ i >= next => stage[i] = "none"
    /\ stage[i] \in {"data", "ended", "write", "late"} => i \in FileEntries
    /\ OnTrack => stage[i] \notin {"failed", "late"}
    /\ OnTrack /\ i < next => Kept(i)
    /\ OnTrack /\ i < next /\ i \in FileEntries => stage[i] # "none"
    /\ OnTrack /\ i < next /\ i \in FileEntries /\ stage[i] # "data" =>
         Entry(i).content.bytes <= maxEntryBytes

PypiMeasured ==
  OnTrack => totalBytes = Cardinality(BytesOf(PypiCounted)) /\ totalBytes <= maxTotalBytes

PypiPhased ==
  /\ phase \in {"settling", "extracted", "analyzed", "returned"} => next > Len(archive)
  /\ phase \in {"extracted", "analyzed", "returned"} => firstError = NoError /\ InFlight = {}
  /\ kind = "wheel" /\ phase = "parsing" => firstError = NoError
  /\ phase \in Over => temp = release.local
  /\ phase = "returned" \/ (phase = "rejected" /\ kind = "wheel") => disk = <<>> /\ dirs = {}

\* The directory and the list hold the files written so far.
PypiHeld == OnTrack /\ OnePathEach(Paths) /\ phase # "returned" => Filled(Paths, OnDisk, disk)
PypiListed == OnTrack /\ OnePathEach(Paths) => Lists(Paths, OnDisk, entries)

\* The snapshot is one that reading these files may give.
IsSnapshotOf(held) ==
  \E manifest \in PypiManifests(held), unread \in SUBSET DOMAIN held :
    snapshot = PypiSnapshotOf(held, entries, manifest, unread)
PypiTaken ==
  OnePathEach(Paths) /\ phase \in {"analyzed", "returned"} => IsSnapshotOf(ArchivedFiles(Paths))

PypiInv ==
  PypiShaped /\ PypiAccepted /\ PypiMeasured /\ PypiPhased /\ PypiHeld /\ PypiListed /\ PypiTaken

\* Before there is an artifact.
Unfetched ==
  /\ release \in Releases /\ archive = <<>> /\ next = 1 /\ disk = <<>> /\ entries = <<>>
  /\ totalBytes = 0 /\ firstError = NoError /\ phase \in {"fetching", "rejected"}

AnalysisInv ==
  \/ kind = "npm" /\ TarballInv
  \/ kind = "pypi" /\ Unfetched
  \/ kind \in {"wheel", "sdist"} /\ PypiInv

LEMMA PypiStatic ==
  ASSUME archive' = archive, kind' = kind
  PROVE  /\ FileEntries' = FileEntries
         /\ \A i : Entry(i)' = Entry(i) /\ Kept(i)' = Kept(i)
         /\ Paths' = Paths
         /\ OnePathEach(Paths)' = OnePathEach(Paths)
         /\ ArchivedFiles(Paths)' = ArchivedFiles(Paths)
PROOF
<1>1. \A i : Entry(i)' = Entry(i)
  BY DEF Entry
<1>2. \A i : RelPath(i)' = RelPath(i) /\ SdistPath(i)' = SdistPath(i)
  BY <1>1 DEF RelPath, SdistPath
<1>3. FileEntries' = FileEntries
  BY <1>1 DEF FileEntries
<1>4. Paths' = Paths
  BY <1>1, <1>2 DEF Paths
<1>5. \A i, p : RefusalAt(i, p)' = RefusalAt(i, p)
  BY <1>1 DEF RefusalAt
<1>6. \A i : Kept(i)' = Kept(i)
  BY <1>1, <1>4, <1>5 DEF Kept
<1>7. OnePathEach(Paths)' = OnePathEach(Paths)
  BY <1>3, <1>4 DEF OnePathEach
<1>8. ArchivedFiles(Paths)' = ArchivedFiles(Paths)
  BY <1>1, <1>3, <1>4 DEF ArchivedFiles
<1> QED BY <1>1, <1>3, <1>4, <1>6, <1>7, <1>8

\* A step after the artifact was fetched.
PypiJob(i) ==
  SdistData(i) \/ SdistTotal(i) \/ SdistMakeDir(i) \/ SdistWrite(i) \/ SdistJobFails(i) \/ LateWrite(i)
PypiEnds ==
  WheelEnds \/ SdistStreamEnds \/ SdistSettled \/ PypiFails \/ PypiAbandon \/ PypiAnalyze \/ PypiCleanup
PypiStep == WheelEntry \/ SdistEntry \/ (\E i \in DOMAIN archive : PypiJob(i)) \/ PypiEnds

LEMMA AfterFetching ==
  ASSUME PypiInv, PypiNext
  PROVE  PypiStep
PROOF
<1>1. phase # "fetching"
  BY DEF PypiInv, PypiShaped, PypiPhases
<1>2. ~FetchPypiArtifact /\ ~FetchFails
  BY <1>1 DEF FetchPypiArtifact, FetchFails
<1> QED BY <1>2 DEF PypiNext, PypiStep, PypiJob, PypiEnds

LEMMA ArtifactStays ==
  ASSUME PypiStep
  PROVE  archive' = archive /\ kind' = kind /\ release' = release
BY DEF PypiStep, PypiJob, PypiEnds, WheelEntry, WheelEnds, SdistEntry, SdistData, SdistTotal, SdistMakeDir,
       SdistWrite, SdistJobFails, LateWrite, SdistStreamEnds, SdistSettled, Settled, PypiFails, PypiAbandon,
       PypiAnalyze, PypiCleanup, pypiVars

LEMMA PypiShape ==
  ASSUME PypiShaped
  PROVE  /\ DOMAIN archive = 1..Len(archive) /\ Len(archive) \in Nat
         /\ \A i \in FileEntries : i \in DOMAIN archive /\ Entry(i).content.bytes \in Nat
PROOF
<1>1. ArchiveTyped
  BY DEF PypiShaped
<1> QED BY <1>1, FilesFinite DEF ArchiveTyped, FileEntries

\* What the checks of an entry let pass.
LEMMA SdistKeeps ==
  ASSUME PypiShaped, kind = "sdist", NEW i \in DOMAIN archive, SdistRefusal(i) = NoError
  PROVE  /\ Kept(i)
         /\ i \in FileEntries => SdistPath(i) # <<>>
         /\ SdistPath(i) = <<>> \/ Entry(i).type = "Directory" \/ i \in FileEntries
PROOF
<1>1. Paths[i] = SdistPath(i)
  BY DEF Paths
<1>2. i \in Nat /\ maxEntries \in Nat
  BY PypiShape, ArchivesAssumption
<1>3. SdistPath(i) = <<>> => Entry(i).type = "Directory"
  <2> DEFINE p == Entry(i).path
  <2>1. p # <<>> /\ p \in Seq(ToSet(p))
    BY DEF PypiShaped
  <2> HIDE DEF p
  <2>2. Len(Tail(p)) = Len(p) - 1 /\ Len(p) \in Nat
    BY <2>1, HeadTailProperties
  <2>3. Len(p) > 1 => Len(Tail(p)) # 0
    BY <2>2
  <2>4. Len(<<>>) = 0
    OBVIOUS
  <2>5. Len(p) > 1 => Tail(p) # <<>>
    BY <2>3, <2>4
  <2> QED BY <2>1, <2>5 DEF SdistPath, p
<1>4. CASE SdistPath(i) = <<>>
  <2>1. i <= maxEntries
    BY <1>2, <1>4 DEF SdistRefusal, NoError
  <2> QED BY <1>1, <1>3, <1>4, <2>1 DEF Kept, FileEntries
<1>5. CASE SdistPath(i) # <<>>
  <2>1. RefusalAt(i, SdistPath(i)) = NoError
    BY <1>5 DEF SdistRefusal
  <2>2. i <= maxEntries /\ Entry(i).type \in {"File", "Directory"}
    BY <1>2, <2>1 DEF RefusalAt, NoError
  <2> QED BY <1>1, <1>5, <2>1, <2>2 DEF Kept, FileEntries
<1> QED BY <1>4, <1>5

LEMMA WheelKeeps ==
  ASSUME PypiShaped, kind = "wheel", NEW i \in DOMAIN archive, WheelRefusal(i) = NoError
  PROVE  /\ Kept(i)
         /\ Entry(i).type # "Directory" =>
              /\ i \in FileEntries /\ Entry(i).content.bytes <= maxEntryBytes
              /\ ~(totalBytes + Entry(i).content.bytes > maxTotalBytes)
PROOF
<1>1. Paths[i] = Entry(i).path
  BY DEF Paths
<1>2. i \in Nat /\ maxEntries \in Nat /\ maxEntryBytes \in Nat /\ Entry(i).type \in WheelTypes
  BY PypiShape, ArchivesAssumption DEF PypiShaped
<1>3. i <= maxEntries
  <2>1. i > maxEntries => WheelRefusal(i) # NoError
    BY <1>2 DEF WheelRefusal, NoError
  <2> QED BY <1>2, <2>1
<1>4. CASE Entry(i).type = "Directory"
  BY <1>3, <1>4 DEF Kept
<1>5. CASE Entry(i).type # "Directory"
  <2>1. /\ Entry(i).type = "File" /\ ~Entry(i).absolute /\ ".." \notin ToSet(Entry(i).path)
        /\ ~(Entry(i).content.bytes > maxEntryBytes)
        /\ ~(totalBytes + Entry(i).content.bytes > maxTotalBytes)
    BY <1>2, <1>5 DEF WheelRefusal, NoError, WheelTypes
  <2>2. i \in FileEntries /\ Entry(i).content.bytes \in Nat
    BY <2>1, PypiShape DEF FileEntries
  <2>3. RefusalAt(i, Entry(i).path) = NoError
    BY <1>2, <1>3, <2>1 DEF RefusalAt
  <2> QED BY <1>1, <1>2, <1>3, <2>1, <2>2, <2>3 DEF Kept
<1> QED BY <1>4, <1>5

-----------------------------------------------------------------------------
(* What a step does to an entry and to the error.                          *)

\* From where to where an entry may go.
Arrives(i) ==
  /\ stage[i] = "none" /\ i = next /\ next' = next + 1
  /\ \/ kind = "wheel" /\ stage'[i] = "done" /\ i \in FileEntries /\ Entry(i).content.bytes <= maxEntryBytes
     \/ kind = "sdist" /\ stage'[i] = "data" /\ i \in FileEntries
     \/ kind = "sdist" /\ stage'[i] \in {"mkdir", "done"} /\ i \notin FileEntries
GoesOn(i) ==
  \/ stage[i] = "data" /\ stage'[i] = "ended" /\ Entry(i).content.bytes <= maxEntryBytes
  \/ stage[i] = "ended" /\ stage'[i] = "mkdir"
  \/ stage[i] = "mkdir" /\ stage'[i] = "write" /\ i \in FileEntries
  \/ stage[i] = "mkdir" /\ stage'[i] = "done" /\ i \notin FileEntries
  \/ stage[i] = "write" /\ stage'[i] = "done"
GoesWrong(i) ==
  /\ firstError' # NoError
  /\ \/ stage[i] = "data" /\ stage'[i] = "late"
     \/ stage[i] \in {"ended", "mkdir", "write"} /\ stage'[i] = "failed"
PypiPasses(i) ==
  \/ stage'[i] = stage[i]
  \/ Arrives(i)
  \/ kind = "sdist" /\ (GoesOn(i) \/ GoesWrong(i) \/ (stage[i] = "late" /\ stage'[i] = "done"))

PypiMoves ==
  /\ stage' \in [DOMAIN archive -> PypiStages]
  /\ \A i \in DOMAIN archive : PypiPasses(i)
  /\ OnTrack' => OnTrack
  /\ \/ next' = next
     \/ /\ next' = next + 1 /\ next \in DOMAIN archive /\ phase = "parsing"
        /\ OnTrack' => Kept(next) /\ (next \in FileEntries => stage'[next] # "none")

LEMMA NextArrives ==
  ASSUME PypiInv, next <= Len(archive)
  PROVE  /\ next \in DOMAIN archive /\ next \in Nat /\ stage[next] = "none"
         /\ stage \in [DOMAIN archive -> PypiStages]
PROOF
<1>1. PypiShaped
  BY DEF PypiInv
<1>2. /\ next \in Nat \ {0} /\ stage \in [DOMAIN archive -> PypiStages]
      /\ DOMAIN archive = 1..Len(archive) /\ Len(archive) \in Nat
  BY <1>1, PypiShape DEF PypiShaped
<1>3. next \in DOMAIN archive
  BY <1>2
<1>4. stage[next] = "none"
  BY <1>2, <1>3 DEF PypiInv, PypiAccepted
<1> QED BY <1>2, <1>3, <1>4

LEMMA WheelMoves ==
  ASSUME PypiInv, WheelEntry
  PROVE  PypiMoves
PROOF
<1>1. kind = "wheel" /\ phase = "parsing" /\ next <= Len(archive) /\ next' = next + 1
  BY DEF WheelEntry
<1>2. /\ next \in DOMAIN archive /\ next \in Nat /\ stage[next] = "none"
      /\ stage \in [DOMAIN archive -> PypiStages]
  BY <1>1, NextArrives
<1>3. firstError = NoError /\ OnTrack
  BY <1>1 DEF PypiInv, PypiPhased, OnTrack
<1>4. CASE WheelRefusal(next) # NoError
  <2>1. stage' = stage /\ phase' = "failing"
    BY <1>4 DEF WheelEntry
  <2> QED BY <1>1, <1>2, <2>1 DEF PypiMoves, PypiPasses, OnTrack
<1>5. CASE WheelRefusal(next) = NoError /\ Entry(next).type = "Directory"
  <2>1. stage' = stage
    BY <1>5 DEF WheelEntry
  <2>2. Kept(next) /\ next \notin FileEntries
    BY <1>1, <1>2, <1>5, WheelKeeps DEF PypiInv, FileEntries
  <2> QED BY <1>1, <1>2, <1>3, <2>1, <2>2 DEF PypiMoves, PypiPasses
<1>6. CASE WheelRefusal(next) = NoError /\ Entry(next).type # "Directory"
  <2>1. stage' = [stage EXCEPT ![next] = "done"]
    BY <1>6 DEF WheelEntry
  <2>2. Kept(next) /\ next \in FileEntries /\ Entry(next).content.bytes <= maxEntryBytes
    BY <1>1, <1>2, <1>6, WheelKeeps DEF PypiInv
  <2>3. \A i \in DOMAIN archive : PypiPasses(i)
    BY <1>1, <1>2, <2>1, <2>2 DEF PypiPasses, Arrives
  <2> QED BY <1>1, <1>2, <1>3, <2>1, <2>2, <2>3 DEF PypiMoves, PypiStages
<1> QED BY <1>4, <1>5, <1>6

LEMMA SdistMoves ==
  ASSUME PypiInv, SdistEntry
  PROVE  PypiMoves
PROOF
<1>1. kind = "sdist" /\ phase = "parsing" /\ next <= Len(archive) /\ next' = next + 1 /\ phase' = phase
  BY DEF SdistEntry
<1>2. /\ next \in DOMAIN archive /\ next \in Nat /\ stage[next] = "none"
      /\ stage \in [DOMAIN archive -> PypiStages]
  BY <1>1, NextArrives
<1>3. CASE firstError # NoError
  <2>1. stage' = stage /\ firstError' = firstError
    BY <1>3 DEF SdistEntry
  <2> QED BY <1>1, <1>2, <1>3, <2>1 DEF PypiMoves, PypiPasses, OnTrack
<1>4. CASE firstError = NoError /\ SdistRefusal(next) # NoError
  <2>1. stage' = stage /\ firstError' # NoError
    BY <1>4, RaiseStands DEF SdistEntry
  <2> QED BY <1>1, <1>2, <2>1 DEF PypiMoves, PypiPasses, OnTrack
<1>5. CASE firstError = NoError /\ SdistRefusal(next) = NoError
  <2>1. /\ stage' = [stage EXCEPT ![next] = IF SdistPath(next) = <<>> THEN "done"
                                            ELSE IF Entry(next).type = "Directory" THEN "mkdir" ELSE "data"]
        /\ firstError' = firstError
    BY <1>5 DEF SdistEntry
  <2>2. /\ Kept(next)
        /\ next \in FileEntries => SdistPath(next) # <<>>
        /\ SdistPath(next) = <<>> \/ Entry(next).type = "Directory" \/ next \in FileEntries
    BY <1>1, <1>2, <1>5, SdistKeeps DEF PypiInv
  <2>3. /\ stage' \in [DOMAIN archive -> PypiStages]
        /\ \A i \in DOMAIN archive : i # next => stage'[i] = stage[i]
        /\ \/ stage'[next] \in {"mkdir", "done"} /\ next \notin FileEntries
           \/ stage'[next] = "data" /\ next \in FileEntries
    BY <1>2, <2>1, <2>2 DEF PypiStages, FileEntries
  <2>4. \A i \in DOMAIN archive : PypiPasses(i)
    BY <1>1, <1>2, <2>3 DEF PypiPasses, Arrives
  <2>5. OnTrack' = OnTrack
    BY <1>1, <2>1 DEF OnTrack
  <2> QED BY <1>1, <1>2, <2>2, <2>3, <2>4, <2>5 DEF PypiMoves
<1> QED BY <1>3, <1>4, <1>5

LEMMA PypiJobMoves ==
  ASSUME PypiInv, NEW i \in DOMAIN archive, PypiJob(i)
  PROVE  PypiMoves
PROOF
<1>1. /\ stage \in [DOMAIN archive -> PypiStages]
      /\ stage[i] \in {"data", "ended", "write", "late"} => i \in FileEntries
  BY DEF PypiInv, PypiShaped, PypiAccepted
<1>2. kind = "sdist" /\ next' = next /\ phase' = phase
  BY DEF PypiJob, SdistData, SdistTotal, SdistMakeDir, SdistWrite, SdistJobFails, LateWrite
<1>3. firstError' = NoError => firstError = NoError
  BY RaiseStands DEF PypiJob, SdistData, SdistTotal, SdistMakeDir, SdistWrite, SdistJobFails, LateWrite, NoError
<1> SUFFICES ASSUME TRUE
             PROVE  \E s \in PypiStages : /\ stage' = [stage EXCEPT ![i] = s]
                                          /\ GoesOn(i) \/ GoesWrong(i) \/ (stage[i] = "late" /\ s = "done")
  BY <1>1, <1>2, <1>3 DEF PypiMoves, PypiPasses, OnTrack
<1>4. CASE SdistData(i)
  <2>1. i \in FileEntries /\ stage[i] = "data"
    BY <1>1, <1>4 DEF SdistData
  <2>2. CASE Entry(i).content.bytes > maxEntryBytes
    <3>1. stage' = [stage EXCEPT ![i] = "late"] /\ firstError' # NoError
      BY <1>4, <2>2, RaiseStands DEF SdistData, NoError
    <3> QED BY <1>1, <2>1, <3>1 DEF GoesWrong, PypiStages
  <2>3. CASE ~(Entry(i).content.bytes > maxEntryBytes)
    <3>1. Entry(i).content.bytes <= maxEntryBytes
      BY <2>1, <2>3, PypiShape, ArchivesAssumption DEF PypiInv
    <3> QED BY <1>1, <1>4, <2>1, <2>3, <3>1 DEF SdistData, GoesOn, PypiStages
  <2> QED BY <2>2, <2>3
<1>5. CASE SdistTotal(i)
  <2>1. CASE totalBytes' > maxTotalBytes
    <3>1. stage[i] = "ended" /\ stage' = [stage EXCEPT ![i] = "failed"] /\ firstError' # NoError
      BY <1>5, <2>1, RaiseStands DEF SdistTotal, NoError
    <3> QED BY <1>1, <3>1 DEF GoesWrong, PypiStages
  <2>2. CASE ~(totalBytes' > maxTotalBytes)
    BY <1>1, <1>5, <2>2 DEF SdistTotal, GoesOn, PypiStages
  <2> QED BY <2>1, <2>2
<1>6. CASE SdistMakeDir(i)
  BY <1>1, <1>6 DEF SdistMakeDir, GoesOn, PypiStages, FileEntries
<1>7. CASE SdistWrite(i)
  BY <1>1, <1>7 DEF SdistWrite, GoesOn, PypiStages
<1>8. CASE SdistJobFails(i)
  <2>1. firstError' # NoError
    BY <1>8, RaiseStands DEF SdistJobFails, NoError
  <2> QED BY <1>1, <1>8, <2>1 DEF SdistJobFails, GoesWrong, PypiStages
<1>9. CASE LateWrite(i)
  BY <1>1, <1>9 DEF LateWrite, PypiStages
<1> QED BY <1>4, <1>5, <1>6, <1>7, <1>8, <1>9 DEF PypiJob

LEMMA PypiStepMoves ==
  ASSUME PypiInv, PypiStep
  PROVE  PypiMoves
PROOF
<1>1. CASE PypiEnds
  BY <1>1 DEF PypiEnds, WheelEnds, SdistStreamEnds, SdistSettled, Settled, PypiFails, PypiAbandon,
     PypiAnalyze, PypiCleanup, PypiMoves, PypiPasses, OnTrack, PypiInv, PypiShaped
<1> QED BY <1>1, WheelMoves, SdistMoves, PypiJobMoves DEF PypiStep

LEMMA PypiAcceptedStep ==
  ASSUME PypiInv, PypiStep
  PROVE  PypiAccepted'
PROOF
<1>1. PypiMoves /\ archive' = archive /\ kind' = kind
  BY PypiStepMoves, ArtifactStays
<1>2. /\ next \in Nat /\ DOMAIN archive = 1..Len(archive) /\ Len(archive) \in Nat
  BY PypiShape DEF PypiInv, PypiShaped
<1>3. /\ FileEntries' = FileEntries
      /\ \A i : Entry(i)' = Entry(i) /\ Kept(i)' = Kept(i)
  BY <1>1, PypiStatic
<1> SUFFICES ASSUME NEW i \in DOMAIN archive
             PROVE  /\ i >= next' => stage'[i] = "none"
                    /\ stage'[i] \in {"data", "ended", "write", "late"} => i \in FileEntries
                    /\ OnTrack' => stage'[i] \notin {"failed", "late"}
                    /\ OnTrack' /\ i < next' => Kept(i)
                    /\ OnTrack' /\ i < next' /\ i \in FileEntries => stage'[i] # "none"
                    /\ OnTrack' /\ i < next' /\ i \in FileEntries /\ stage'[i] # "data" =>
                         Entry(i).content.bytes <= maxEntryBytes
  BY <1>1, <1>3 DEF PypiAccepted
<1>4. /\ i >= next => stage[i] = "none"
      /\ stage[i] \in {"data", "ended", "write", "late"} => i \in FileEntries
      /\ OnTrack => stage[i] \notin {"failed", "late"}
      /\ OnTrack /\ i < next => Kept(i)
      /\ OnTrack /\ i < next /\ i \in FileEntries => stage[i] # "none"
      /\ OnTrack /\ i < next /\ i \in FileEntries /\ stage[i] # "data" =>
           Entry(i).content.bytes <= maxEntryBytes
  BY DEF PypiInv, PypiAccepted
<1>5. /\ PypiPasses(i) /\ i \in Nat /\ next' \in {next, next + 1}
      /\ OnTrack' => OnTrack
      /\ OnTrack' => firstError' = NoError
  BY <1>1, <1>2 DEF PypiMoves, OnTrack
<1>6. /\ i >= next' => stage'[i] = "none"
      /\ stage'[i] \in {"data", "ended", "write", "late"} => i \in FileEntries
  BY <1>2, <1>4, <1>5 DEF PypiPasses, Arrives, GoesOn, GoesWrong
<1>7. OnTrack' => stage'[i] \notin {"failed", "late"}
  BY <1>4, <1>5 DEF PypiPasses, Arrives, GoesOn, GoesWrong
<1>8. ASSUME OnTrack', i < next'
      PROVE  /\ Kept(i) /\ (i \in FileEntries => stage'[i] # "none")
             /\ i \in FileEntries /\ stage'[i] # "data" => Entry(i).content.bytes <= maxEntryBytes
  <2>1. CASE i < next
    BY <1>4, <1>5, <1>8, <2>1 DEF PypiPasses, Arrives, GoesOn, GoesWrong
  <2>2. CASE i = next
    <3>1. Kept(i) /\ (i \in FileEntries => stage'[i] # "none") /\ stage[i] = "none"
      BY <1>1, <1>2, <1>4, <1>8, <2>2 DEF PypiMoves
    <3> QED BY <1>5, <1>8, <3>1 DEF PypiPasses, Arrives, GoesOn, GoesWrong
  <2> QED BY <1>2, <1>5, <1>8, <2>1, <2>2
<1> QED BY <1>6, <1>7, <1>8

LEMMA PypiShapedStep ==
  ASSUME PypiInv, PypiStep
  PROVE  PypiShaped'
PROOF
<1>1. PypiMoves /\ archive' = archive /\ kind' = kind
  BY PypiStepMoves, ArtifactStays
<1>2. FileEntries' = FileEntries /\ \A i : Entry(i)' = Entry(i)
  BY <1>1, PypiStatic
<1>3. PypiShaped
  BY DEF PypiInv
<1>4. ArchiveTyped'
  BY <1>1, <1>2, <1>3 DEF PypiShaped, ArchiveTyped
<1>5. next' \in Nat \ {0} /\ stage' \in [DOMAIN archive -> PypiStages]
  BY <1>1, <1>3 DEF PypiMoves, PypiShaped
<1>6. ASSUME NEW i \in DOMAIN archive, kind = "wheel" PROVE stage'[i] \in {"none", "done"}
  BY <1>1, <1>3, <1>6 DEF PypiMoves, PypiPasses, Arrives, PypiShaped
<1>7. phase' \in PypiPhases
  BY <1>3 DEF PypiShaped, PypiPhases, PypiStep, PypiJob, PypiEnds, WheelEntry, WheelEnds, SdistEntry, SdistData,
     SdistTotal, SdistMakeDir, SdistWrite, SdistJobFails, LateWrite, SdistStreamEnds, SdistSettled, Settled,
     PypiFails, PypiAbandon, PypiAnalyze, PypiCleanup
<1> QED BY <1>1, <1>2, <1>3, <1>4, <1>5, <1>6, <1>7 DEF PypiShaped

\* What is counted grows by the file whose bytes are added, and by no other.
LEMMA OneIsCounted ==
  ASSUME PypiInv, PypiStep, OnTrack'
  PROVE  \/ PypiCounted' = PypiCounted /\ totalBytes' = totalBytes
         \/ \E i \in FileEntries \ PypiCounted :
               /\ PypiCounted' = PypiCounted \cup {i}
               /\ totalBytes' = totalBytes + Entry(i).content.bytes
               /\ ~(totalBytes' > maxTotalBytes)
PROOF
<1>1. /\ archive' = archive /\ kind' = kind /\ PypiShaped /\ PypiAccepted
      /\ stage \in [DOMAIN archive -> PypiStages]
  BY ArtifactStays DEF PypiInv, PypiShaped
<1>2. FileEntries' = FileEntries /\ \A i : Entry(i)' = Entry(i)
  BY <1>1, PypiStatic
<1>3. CASE WheelEntry
  <2>1. /\ kind = "wheel" /\ phase = "parsing" /\ next \in DOMAIN archive /\ stage[next] = "none"
    BY <1>3, NextArrives DEF WheelEntry
  <2>2. WheelRefusal(next) = NoError
    BY <1>3 DEF WheelEntry, OnTrack
  <2>3. CASE Entry(next).type = "Directory"
    BY <1>2, <1>3, <2>2, <2>3 DEF WheelEntry, PypiCounted
  <2>4. CASE Entry(next).type # "Directory"
    <3>1. /\ stage' = [stage EXCEPT ![next] = "done"]
          /\ totalBytes' = totalBytes + Entry(next).content.bytes
      BY <1>3, <2>2, <2>4 DEF WheelEntry
    <3>2. next \in FileEntries /\ ~(totalBytes + Entry(next).content.bytes > maxTotalBytes)
      BY <1>1, <2>1, <2>2, <2>4, WheelKeeps
    <3>3. next \notin PypiCounted /\ PypiCounted' = PypiCounted \cup {next}
      BY <1>1, <1>2, <2>1, <3>1, <3>2 DEF PypiCounted, FileEntries
    <3> QED BY <3>1, <3>2, <3>3
  <2> QED BY <2>3, <2>4
<1>4. CASE SdistEntry
  <2>1. /\ kind = "sdist" /\ next \in DOMAIN archive /\ next \in Nat /\ stage[next] = "none"
        /\ totalBytes' = totalBytes
    BY <1>4, NextArrives DEF SdistEntry
  <2>2. \A i \in FileEntries : stage'[i] \in {"mkdir", "write", "done"} <=> stage[i] \in {"mkdir", "write", "done"}
    <3> SUFFICES ASSUME NEW i \in FileEntries
                 PROVE  stage'[i] \in {"mkdir", "write", "done"} <=> stage[i] \in {"mkdir", "write", "done"}
      OBVIOUS
    <3>1. i \in DOMAIN archive /\ PypiPasses(i)
      BY <1>4, SdistMoves DEF PypiMoves, FileEntries
    <3>2. CASE i = next
      BY <2>1, <3>1, <3>2 DEF PypiPasses, Arrives, GoesOn, GoesWrong
    <3>3. CASE i # next
      <4>1. stage'[i] = stage[i]
        BY <1>1, <1>4, <3>1, <3>3 DEF SdistEntry
      <4> QED BY <4>1
    <3> QED BY <3>2, <3>3
  <2> QED BY <1>2, <2>1, <2>2 DEF PypiCounted
<1>5. ASSUME NEW i \in DOMAIN archive, SdistTotal(i)
      PROVE  \E j \in FileEntries \ PypiCounted :
               /\ PypiCounted' = PypiCounted \cup {j}
               /\ totalBytes' = totalBytes + Entry(j).content.bytes
               /\ ~(totalBytes' > maxTotalBytes)
  <2>1. stage[i] = "ended" /\ totalBytes' = totalBytes + Entry(i).content.bytes /\ i \in FileEntries
    BY <1>1, <1>5 DEF SdistTotal, PypiAccepted
  <2>2. ~(totalBytes' > maxTotalBytes)
    BY <1>5, RaiseStands DEF SdistTotal, OnTrack, NoError
  <2>3. stage' = [stage EXCEPT ![i] = "mkdir"]
    BY <1>5, <2>2 DEF SdistTotal
  <2>4. i \notin PypiCounted /\ PypiCounted' = PypiCounted \cup {i}
    BY <1>1, <1>2, <2>1, <2>3 DEF PypiCounted, FileEntries
  <2> QED BY <2>1, <2>2, <2>4
<1>6. ASSUME NEW i \in DOMAIN archive,
             SdistData(i) \/ SdistMakeDir(i) \/ SdistWrite(i) \/ SdistJobFails(i) \/ LateWrite(i)
      PROVE  PypiCounted' = PypiCounted /\ totalBytes' = totalBytes
  <2>1. totalBytes' = totalBytes /\ \A j \in DOMAIN archive : j # i => stage'[j] = stage[j]
    BY <1>1, <1>6 DEF SdistData, SdistMakeDir, SdistWrite, SdistJobFails, LateWrite
  <2>2. stage[i] # "late" /\ stage'[i] # "failed"
    <3>1. PypiAccepted' /\ OnTrack
      BY PypiAcceptedStep, PypiStepMoves DEF PypiMoves
    <3> QED BY <1>1, <3>1 DEF PypiAccepted
  <2>3. i \in FileEntries =>
          (stage'[i] \in {"mkdir", "write", "done"} <=> stage[i] \in {"mkdir", "write", "done"})
    <3>1. stage[i] # "ended"
      BY <1>6 DEF SdistData, SdistMakeDir, SdistWrite, SdistJobFails, LateWrite
    <3>2. stage[i] # "none"
      BY <1>6 DEF SdistData, SdistMakeDir, SdistWrite, SdistJobFails, LateWrite
    <3>3. PypiPasses(i)
      BY PypiStepMoves DEF PypiMoves
    <3> QED BY <2>2, <3>1, <3>2, <3>3 DEF PypiPasses, Arrives, GoesOn, GoesWrong
  <2>4. PypiCounted' = PypiCounted
    BY <1>2, <2>1, <2>3 DEF PypiCounted, FileEntries
  <2> QED BY <2>1, <2>4
<1>7. CASE PypiEnds
  <2>1. stage' = stage /\ totalBytes' = totalBytes
    BY <1>7 DEF PypiEnds, WheelEnds, SdistStreamEnds, SdistSettled, Settled, PypiFails, PypiAbandon,
       PypiAnalyze, PypiCleanup
  <2> QED BY <1>2, <2>1 DEF PypiCounted
<1> QED BY <1>3, <1>4, <1>5, <1>6, <1>7 DEF PypiStep, PypiJob

LEMMA PypiMeasuredStep ==
  ASSUME PypiInv, PypiStep
  PROVE  PypiMeasured'
PROOF
<1> SUFFICES ASSUME OnTrack'
             PROVE  totalBytes' = Cardinality(BytesOf(PypiCounted)') /\ totalBytes' <= maxTotalBytes
  BY DEF PypiMeasured
<1>1. archive' = archive /\ kind' = kind /\ OnTrack
  BY ArtifactStays, PypiStepMoves DEF PypiMoves
<1>2. FileEntries' = FileEntries /\ \A i : Entry(i)' = Entry(i)
  BY <1>1, PypiStatic
<1>3. totalBytes = Cardinality(BytesOf(PypiCounted)) /\ totalBytes <= maxTotalBytes
  BY <1>1 DEF PypiInv, PypiMeasured
<1>4. ArchiveTyped /\ PypiShaped
  BY DEF PypiInv, PypiShaped
<1>5. CASE PypiCounted' = PypiCounted /\ totalBytes' = totalBytes
  <2>1. BytesOf(PypiCounted)' = BytesOf(PypiCounted)
    BY <1>2, <1>5 DEF BytesOf
  <2> QED BY <1>3, <1>5, <2>1
<1>6. ASSUME NEW i \in FileEntries \ PypiCounted,
             PypiCounted' = PypiCounted \cup {i},
             totalBytes' = totalBytes + Entry(i).content.bytes,
             ~(totalBytes' > maxTotalBytes)
      PROVE  totalBytes' = Cardinality(BytesOf(PypiCounted)') /\ totalBytes' <= maxTotalBytes
  <2>1. BytesOf(PypiCounted)' = BytesOf(PypiCounted \cup {i})
    BY <1>2, <1>6 DEF BytesOf
  <2>2. PypiCounted \in SUBSET FileEntries
    BY DEF PypiCounted
  <2>3. Cardinality(BytesOf(PypiCounted \cup {i})) = totalBytes'
    BY <1>3, <1>4, <1>6, <2>2, OneMoreFile
  <2>4. totalBytes' \in Nat /\ maxTotalBytes \in Nat
    <3>1. totalBytes \in Nat
      BY <1>3, <1>4, <2>2, BytesFinite, FS_CardinalityType
    <3> QED BY <1>4, <1>6, <3>1, PypiShape, ArchivesAssumption
  <2> QED BY <1>6, <2>1, <2>3, <2>4
<1> QED BY <1>5, <1>6, OneIsCounted

-----------------------------------------------------------------------------
(* The phases, the directory and the list.                                 *)

\* Where nothing is under way nothing comes to be.
LEMMA NothingUnderWay ==
  ASSUME PypiInv, PypiStep, InFlight = {}, phase # "parsing"
  PROVE  InFlight' = {}
PROOF
<1>1. PypiMoves /\ archive' = archive /\ stage \in [DOMAIN archive -> PypiStages]
  BY PypiStepMoves, ArtifactStays DEF PypiInv, PypiShaped
<1>2. stage' \in [DOMAIN archive -> PypiStages] /\ next' = next
  BY <1>1 DEF PypiMoves
<1>3. next \in Nat
  BY DEF PypiInv, PypiShaped
<1>4. \A i \in DOMAIN archive : stage[i] \notin {"mkdir", "data", "ended", "write"}
  BY <1>1 DEF InFlight
<1>5. ASSUME NEW i \in DOMAIN archive PROVE stage'[i] \notin {"mkdir", "data", "ended", "write"}
  <2>1. PypiPasses(i) /\ stage[i] \notin {"mkdir", "data", "ended", "write"} /\ ~Arrives(i)
    BY <1>1, <1>2, <1>3, <1>4 DEF PypiMoves, Arrives
  <2> QED BY <2>1 DEF PypiPasses, GoesOn, GoesWrong
<1> QED BY <1>2, <1>5 DEF InFlight

LEMMA WheelAtRest ==
  ASSUME PypiShaped, kind = "wheel"
  PROVE  InFlight = {}
BY DEF PypiShaped, InFlight

LEMMA PypiPhasedStep ==
  ASSUME PypiInv, PypiStep
  PROVE  PypiPhased'
PROOF
<1>1. /\ archive' = archive /\ kind' = kind /\ release' = release
      /\ PypiMoves /\ PypiShaped /\ PypiPhased /\ PypiShaped'
  BY ArtifactStays, PypiStepMoves, PypiShapedStep DEF PypiInv
<1>2. /\ next \in Nat /\ Len(archive) \in Nat /\ DOMAIN archive = 1..Len(archive)
  BY <1>1, PypiShape DEF PypiShaped
<1>3. kind = "wheel" => InFlight' = {}
  BY <1>1, WheelAtRest, PypiShapedStep DEF PypiShaped, InFlight
<1>4. CASE WheelEntry
  <2>1. /\ phase = "parsing" /\ phase' \in {"parsing", "failing"} /\ kind = "wheel"
        /\ phase' = "parsing" => firstError' = firstError
    BY <1>4 DEF WheelEntry
  <2> QED BY <1>1, <2>1 DEF PypiPhased, Over
<1>5. CASE WheelEnds
  BY <1>1, <1>3, <1>5 DEF WheelEnds, PypiPhased, Over
<1>6. CASE SdistEntry
  BY <1>1, <1>6 DEF SdistEntry, PypiPhased, Over
<1>7. ASSUME NEW i \in DOMAIN archive, PypiJob(i) PROVE PypiPhased'
  <2>1. /\ kind = "sdist" /\ phase' = phase /\ next' = next /\ temp' = temp
    BY <1>7 DEF PypiJob, SdistData, SdistTotal, SdistMakeDir, SdistWrite, SdistJobFails, LateWrite, pypiVars
  <2>2. ASSUME phase \in {"extracted", "analyzed", "returned"} PROVE FALSE
    <3>1. OnTrack /\ InFlight = {}
      BY <1>1, <2>2 DEF PypiPhased, OnTrack
    <3>2. stage[i] # "late"
      BY <3>1 DEF PypiInv, PypiAccepted
    <3>3. stage[i] \in {"mkdir", "data", "ended", "write"} /\ i \in DOMAIN stage
      BY <1>1, <1>7, <3>2 DEF PypiJob, SdistData, SdistTotal, SdistMakeDir, SdistWrite, SdistJobFails, LateWrite,
         PypiShaped
    <3> QED BY <3>1, <3>3 DEF InFlight
  <2> QED BY <1>1, <2>1, <2>2 DEF PypiPhased, Over
<1>8. CASE SdistStreamEnds
  BY <1>1, <1>8 DEF SdistStreamEnds, PypiPhased, Over
<1>9. CASE SdistSettled
  <2>1. InFlight' = {}
    BY <1>9, NothingUnderWay DEF SdistSettled, Settled, PypiStep, PypiEnds
  <2> QED BY <1>1, <1>9, <2>1 DEF SdistSettled, Settled, PypiPhased, Over, pypiVars
<1>10. CASE PypiFails
  BY <1>1, <1>10 DEF PypiFails, PypiPhased, Over
<1>11. CASE PypiAbandon
  BY <1>1, <1>11 DEF PypiAbandon, Unlinked, PypiPhased, Over
<1>12. CASE PypiAnalyze \/ PypiCleanup
  <2>1. InFlight = {} /\ phase # "parsing"
    BY <1>1, <1>12 DEF PypiAnalyze, PypiCleanup, PypiPhased
  <2>2. InFlight' = {}
    BY <1>12, <2>1, NothingUnderWay DEF PypiStep, PypiEnds
  <2> QED BY <1>1, <1>12, <2>2 DEF PypiAnalyze, PypiCleanup, Unlinked, PypiPhased, Over, pypiVars
<1> QED BY <1>4, <1>5, <1>6, <1>7, <1>8, <1>9, <1>10, <1>11, <1>12 DEF PypiStep, PypiEnds

\* A file of the archive is written where it goes, and listed.
Writes(i) ==
  /\ OnDisk' = OnDisk \cup {i}
  /\ entries' = Append(entries, RecordOf(Paths, i))
  /\ disk' = WithFile(Paths, i, disk)

LEMMA WheelWrites ==
  ASSUME PypiInv, WheelEntry, OnTrack'
  PROVE  \/ OnDisk' = OnDisk /\ entries' = entries /\ disk' = disk
         \/ next \in FileEntries \ OnDisk /\ Writes(next)
PROOF
<1>1. /\ kind = "wheel" /\ next \in DOMAIN archive /\ stage[next] = "none" /\ archive' = archive /\ kind' = kind
      /\ stage \in [DOMAIN archive -> PypiStages]
  BY NextArrives, ArtifactStays DEF WheelEntry, PypiStep
<1>2. FileEntries' = FileEntries /\ Paths[next] = Entry(next).path
  BY <1>1, PypiStatic DEF Paths
<1>3. WheelRefusal(next) = NoError
  BY DEF WheelEntry, OnTrack
<1>4. CASE Entry(next).type = "Directory"
  BY <1>2, <1>3, <1>4 DEF WheelEntry, OnDisk
<1>5. CASE Entry(next).type # "Directory"
  <2>1. stage' = [stage EXCEPT ![next] = "done"] /\ AddFile(Entry(next).path, Entry(next).content)
    BY <1>3, <1>5 DEF WheelEntry
  <2>2. next \in FileEntries
    BY <1>1, <1>3, <1>5, WheelKeeps DEF PypiInv
  <2>3. next \notin OnDisk /\ OnDisk' = OnDisk \cup {next}
    BY <1>1, <1>2, <2>1, <2>2 DEF OnDisk, FileEntries
  <2> QED BY <1>2, <2>1, <2>2, <2>3 DEF Writes, WithFile, AddFile, RecordOf
<1> QED BY <1>4, <1>5

LEMMA SdistWrites ==
  ASSUME PypiInv, NEW i \in DOMAIN archive, SdistWrite(i)
  PROVE  i \in FileEntries \ OnDisk /\ Writes(i)
PROOF
<1>1. /\ kind = "sdist" /\ stage[i] = "write" /\ stage' = [stage EXCEPT ![i] = "done"]
      /\ archive' = archive /\ kind' = kind /\ stage \in [DOMAIN archive -> PypiStages]
  BY DEF SdistWrite, pypiVars, PypiInv, PypiShaped
<1>2. FileEntries' = FileEntries /\ Paths[i] = SdistPath(i)
  BY <1>1, PypiStatic DEF Paths
<1>3. i \in FileEntries
  BY <1>1 DEF PypiInv, PypiAccepted
<1>4. i \notin OnDisk /\ OnDisk' = OnDisk \cup {i}
  BY <1>1, <1>2, <1>3 DEF OnDisk, FileEntries
<1>5. AddFile(SdistPath(i), Entry(i).content)
  BY DEF SdistWrite
<1> QED BY <1>2, <1>3, <1>4, <1>5 DEF Writes, WithFile, AddFile, RecordOf

\* Nothing else is written as long as nothing has gone wrong.
LEMMA OneIsWritten ==
  ASSUME PypiInv, PypiStep, OnTrack'
  PROVE  \/ OnDisk' = OnDisk /\ entries' = entries /\ (disk' = disk \/ phase' = "returned")
         \/ phase # "returned" /\ \E i \in FileEntries \ OnDisk : Writes(i)
PROOF
<1>1. /\ archive' = archive /\ kind' = kind /\ OnTrack /\ PypiShaped /\ PypiAccepted /\ PypiAccepted'
      /\ stage \in [DOMAIN archive -> PypiStages]
  BY ArtifactStays, PypiStepMoves, PypiAcceptedStep DEF PypiInv, PypiShaped, PypiMoves
<1>2. FileEntries' = FileEntries
  BY <1>1, PypiStatic
<1>3. CASE WheelEntry
  BY <1>3, WheelWrites DEF WheelEntry
<1>4. CASE SdistEntry
  <2>1. disk' = disk /\ entries' = entries
    BY <1>4 DEF SdistEntry
  <2>2. \A i \in FileEntries : stage'[i] = "done" <=> stage[i] = "done"
    <3> SUFFICES ASSUME NEW i \in FileEntries PROVE stage'[i] = "done" <=> stage[i] = "done"
      OBVIOUS
    <3>1. i \in DOMAIN archive /\ PypiPasses(i) /\ kind = "sdist"
      BY <1>4, SdistMoves DEF PypiMoves, FileEntries, SdistEntry
    <3>2. CASE i = next
      <4>1. stage[i] = "none"
        BY <1>4, <3>2, NextArrives DEF SdistEntry
      <4> QED BY <3>1, <4>1 DEF PypiPasses, Arrives, GoesOn, GoesWrong
    <3>3. CASE i # next
      <4>1. stage'[i] = stage[i]
        BY <1>1, <1>4, <3>1, <3>3 DEF SdistEntry
      <4> QED BY <4>1
    <3> QED BY <3>2, <3>3
  <2> QED BY <1>2, <2>1, <2>2 DEF OnDisk
<1>5. ASSUME NEW i \in DOMAIN archive, PypiJob(i), ~SdistWrite(i)
      PROVE  OnDisk' = OnDisk /\ entries' = entries /\ disk' = disk
  <2>1. ~LateWrite(i)
    BY <1>1 DEF PypiAccepted, LateWrite
  <2>2. entries' = entries /\ disk' = disk /\ \A j \in DOMAIN archive : j # i => stage'[j] = stage[j]
    BY <1>1, <1>5, <2>1 DEF PypiJob, SdistData, SdistTotal, SdistMakeDir, SdistJobFails
  <2>3. i \in FileEntries => (stage'[i] = "done" <=> stage[i] = "done")
    BY <1>1, <1>5, <2>1 DEF PypiJob, SdistData, SdistTotal, SdistMakeDir, SdistJobFails, FileEntries
  <2>4. OnDisk' = OnDisk
    BY <1>2, <2>2, <2>3 DEF OnDisk, FileEntries
  <2> QED BY <2>2, <2>4
<1>6. ASSUME NEW i \in DOMAIN archive, SdistWrite(i)
      PROVE  phase # "returned" /\ \E j \in FileEntries \ OnDisk : Writes(j)
  <2>1. i \in InFlight
    BY <1>1, <1>6 DEF SdistWrite, InFlight
  <2>2. phase # "returned"
    BY <2>1 DEF PypiInv, PypiPhased
  <2> QED BY <1>6, <2>2, SdistWrites
<1>7. CASE PypiEnds
  <2>1. stage' = stage /\ entries' = entries
    BY <1>7 DEF PypiEnds, WheelEnds, SdistStreamEnds, SdistSettled, Settled, PypiFails, PypiAbandon,
       PypiAnalyze, PypiCleanup
  <2>2. disk' = disk \/ phase' = "returned"
    BY <1>7 DEF PypiEnds, WheelEnds, SdistStreamEnds, SdistSettled, Settled, PypiFails, PypiAbandon,
       PypiAnalyze, PypiCleanup, OnTrack
  <2> QED BY <1>2, <2>1, <2>2 DEF OnDisk
<1> QED BY <1>3, <1>4, <1>5, <1>6, <1>7 DEF PypiStep

LEMMA PypiHeldStep ==
  ASSUME PypiInv, PypiStep
  PROVE  PypiHeld' /\ PypiListed'
PROOF
<1>1. archive' = archive /\ kind' = kind /\ PypiMoves /\ PypiHeld /\ PypiListed
  BY ArtifactStays, PypiStepMoves DEF PypiInv
<1>2. /\ OnePathEach(Paths)' = OnePathEach(Paths) /\ Paths' = Paths
      /\ FileEntries' = FileEntries /\ \A i : Entry(i)' = Entry(i)
  BY <1>1, PypiStatic
<1>6. Filled(Paths, OnDisk, disk)' = Filled(Paths, OnDisk', disk')
  BY <1>2 DEF Filled
<1>7. Lists(Paths, OnDisk, entries)' = Lists(Paths, OnDisk', entries')
  BY <1>2 DEF Lists, RecordOf
<1> SUFFICES ASSUME OnTrack', OnePathEach(Paths)
             PROVE  /\ phase' # "returned" => Filled(Paths, OnDisk', disk')
                    /\ Lists(Paths, OnDisk', entries')
  BY <1>2, <1>6, <1>7 DEF PypiHeld, PypiListed
<1>3. /\ OnTrack /\ Lists(Paths, OnDisk, entries)
      /\ phase # "returned" => Filled(Paths, OnDisk, disk)
  BY <1>1 DEF PypiMoves, PypiHeld, PypiListed
<1>4. ASSUME NEW i \in FileEntries \ OnDisk, Writes(i), phase # "returned"
      PROVE  Filled(Paths, OnDisk', disk') /\ Lists(Paths, OnDisk', entries')
  <2>1. OnDisk \in SUBSET FileEntries /\ \A j \in OnDisk : Paths[j] # Paths[i]
    BY <1>4 DEF OnDisk, OnePathEach
  <2>2. Lists(Paths, OnDisk \cup {i}, Append(entries, RecordOf(Paths, i)))
    BY <1>3, <2>1, OneMoreListed
  <2>3. Filled(Paths, OnDisk \cup {i}, WithFile(Paths, i, disk))
    BY <1>3, <1>4, <2>1, OneMoreHeld
  <2> QED BY <1>4, <2>2, <2>3 DEF Writes
<1>5. phase = "returned" => phase' = "returned"
  <2> SUFFICES ASSUME phase = "returned" PROVE phase' = phase
    OBVIOUS
  <2>1. ~WheelEntry /\ ~SdistEntry /\ ~PypiEnds
    BY DEF WheelEntry, SdistEntry, PypiEnds, WheelEnds, SdistStreamEnds, SdistSettled, Settled, PypiFails,
       PypiAbandon, PypiAnalyze, PypiCleanup
  <2>2. ASSUME NEW i, PypiJob(i) PROVE phase' = phase
    BY <2>2 DEF PypiJob, SdistData, SdistTotal, SdistMakeDir, SdistWrite, SdistJobFails, LateWrite
  <2> QED BY <2>1, <2>2 DEF PypiStep
<1> QED BY <1>3, <1>4, <1>5, OneIsWritten

\* Once it is extracted all files of the archive are there.
LEMMA PypiWhole ==
  ASSUME PypiInv, phase \in {"extracted", "analyzed", "returned"}
  PROVE  /\ OnTrack /\ OnDisk = FileEntries
         /\ \A i \in DOMAIN archive : Kept(i)
         /\ \A i \in FileEntries : stage[i] = "done" /\ Entry(i).content.bytes <= maxEntryBytes
PROOF
<1>1. /\ next > Len(archive) /\ OnTrack /\ InFlight = {} /\ PypiAccepted
      /\ stage \in [DOMAIN archive -> PypiStages] /\ next \in Nat
      /\ DOMAIN archive = 1..Len(archive) /\ Len(archive) \in Nat
  <2>1. PypiShaped /\ PypiPhased /\ PypiAccepted
    BY DEF PypiInv
  <2>2. stage \in [DOMAIN archive -> PypiStages] /\ next \in Nat
    BY <2>1 DEF PypiShaped
  <2>3. next > Len(archive) /\ OnTrack /\ InFlight = {}
    BY <2>1 DEF PypiPhased, OnTrack
  <2> QED BY <2>1, <2>2, <2>3, PypiShape
<1>2. ASSUME NEW i \in DOMAIN archive
      PROVE  /\ Kept(i)
             /\ i \in FileEntries => stage[i] = "done" /\ Entry(i).content.bytes <= maxEntryBytes
  <2>1. i < next /\ stage[i] \in PypiStages /\ stage[i] \notin {"mkdir", "data", "ended", "write"}
    BY <1>1 DEF InFlight
  <2>2. /\ Kept(i) /\ stage[i] \notin {"failed", "late"}
        /\ i \in FileEntries => stage[i] # "none"
        /\ i \in FileEntries => Entry(i).content.bytes <= maxEntryBytes
    BY <1>1, <2>1 DEF PypiAccepted
  <2> QED BY <2>1, <2>2 DEF PypiStages
<1>3. OnDisk = FileEntries
  BY <1>2 DEF OnDisk, FileEntries
<1> QED BY <1>1, <1>2, <1>3 DEF FileEntries

LEMMA PypiTakenStep ==
  ASSUME PypiInv, PypiStep
  PROVE  PypiTaken'
PROOF
<1>1. archive' = archive /\ kind' = kind /\ PypiTaken
  BY ArtifactStays DEF PypiInv
<1>2. /\ OnePathEach(Paths)' = OnePathEach(Paths)
      /\ ArchivedFiles(Paths)' = ArchivedFiles(Paths)
  BY <1>1, PypiStatic
<1> DEFINE Of(held, listed) ==
             \E manifest \in PypiManifests(held), unread \in SUBSET DOMAIN held :
               snapshot' = PypiSnapshotOf(held, listed, manifest, unread)
<1>3. IsSnapshotOf(ArchivedFiles(Paths))' <=> Of(ArchivedFiles(Paths), entries')
  BY <1>2 DEF IsSnapshotOf
<1> SUFFICES ASSUME OnePathEach(Paths), phase' \in {"analyzed", "returned"}
             PROVE  Of(ArchivedFiles(Paths), entries')
  BY <1>2, <1>3 DEF PypiTaken
<1>4. CASE PypiAnalyze
  <2>1. phase = "extracted" /\ entries' = entries
    BY <1>4 DEF PypiAnalyze
  <2>2. Filled(Paths, FileEntries, disk)
    BY <2>1, PypiWhole DEF PypiInv, PypiHeld
  <2>3. disk = ArchivedFiles(Paths)
    BY <2>2, WholeDirectory
  <2>4. \E manifest \in PypiManifests(disk), unread \in SUBSET {p \in DOMAIN disk : IsPythonSource(p)} :
          snapshot' = PypiSnapshotOf(disk, entries, manifest, unread)
    BY <1>4 DEF PypiAnalyze
  <2>5. SUBSET {p \in DOMAIN disk : IsPythonSource(p)} \subseteq SUBSET DOMAIN disk
    OBVIOUS
  <2>6. Of(disk, entries)
    BY <2>4, <2>5
  <2> HIDE DEF Of
  <2> QED BY <2>1, <2>3, <2>6
<1>5. CASE ~PypiAnalyze
  <2>1. phase \in {"analyzed", "returned"} /\ snapshot' = snapshot
    <3>1. ~WheelEntry /\ ~SdistEntry
      BY DEF WheelEntry, SdistEntry
    <3>2. CASE PypiEnds
      BY <1>5, <3>2 DEF PypiEnds, WheelEnds, SdistStreamEnds, SdistSettled, Settled, PypiFails, PypiAbandon,
         PypiCleanup
    <3>3. ASSUME NEW i, PypiJob(i) PROVE phase' = phase /\ snapshot' = snapshot
      BY <3>3 DEF PypiJob, SdistData, SdistTotal, SdistMakeDir, SdistWrite, SdistJobFails, LateWrite
    <3> QED BY <3>1, <3>2, <3>3 DEF PypiStep
  <2>2. entries' = entries
    <3>1. OnTrack'
      BY PypiPhasedStep DEF PypiPhased, OnTrack
    <3>2. FileEntries \ OnDisk = {}
      BY <2>1, PypiWhole
    <3> QED BY <3>1, <3>2, OneIsWritten
  <2>3. IsSnapshotOf(ArchivedFiles(Paths))
    BY <1>1, <2>1 DEF PypiTaken
  <2> QED BY <2>1, <2>2, <2>3 DEF IsSnapshotOf
<1> QED BY <1>4, <1>5

LEMMA PypiStays ==
  ASSUME PypiInv, PypiNext
  PROVE  PypiInv' /\ kind' = kind
BY AfterFetching, ArtifactStays, PypiShapedStep, PypiAcceptedStep, PypiMeasuredStep, PypiPhasedStep,
   PypiHeldStep, PypiTakenStep DEF PypiInv

-----------------------------------------------------------------------------
(* What the invariant says of a PyPI snapshot that is returned.            *)

LEMMA PypiSnapshotIsWhole ==
  ASSUME PypiInv, phase = "returned", OnePathEach(Paths)
  PROVE  PypiSnapshotMatches(ArchivedFiles(Paths))
PROOF
<1> DEFINE archived == ArchivedFiles(Paths)
           analyzed == {p \in DOMAIN archived : IsPythonSource(p)}
           native == {p \in DOMAIN archived : Extension(p) \in DOMAIN PypiBinaryKinds}
<1>1. PICK manifest \in PypiManifests(archived), unread \in SUBSET DOMAIN archived :
        snapshot = PypiSnapshotOf(archived, entries, manifest, unread)
  BY DEF PypiInv, PypiTaken, IsSnapshotOf
<1> DEFINE Capable(e) == IF e.relPath \in unread THEN NotRead ELSE CapabilitiesIn[<<Last(e.relPath), archived[e.relPath]>>]
<1>2. /\ snapshot.manifest = manifest
      /\ snapshot.files = [k \in {j \in DOMAIN entries : IsPythonSource(entries[j].relPath)} |->
           [path |-> entries[k].relPath, sha256 |-> entries[k].sha256, capabilities |-> Capable(entries[k])]]
      /\ snapshot.nativeArtifacts = [k \in {j \in DOMAIN entries : Extension(entries[j].relPath) \in DOMAIN PypiBinaryKinds} |->
           [path |-> entries[k].relPath, sha256 |-> entries[k].sha256,
            kind |-> PypiBinaryKinds[Extension(entries[k].relPath)]]]
  <2> HIDE DEF archived
  <2> QED BY <1>1 DEF PypiSnapshotOf
<1>3. Lists(Paths, FileEntries, entries)
  BY PypiWhole DEF PypiInv, PypiListed
<1>4. \A k \in DOMAIN entries : entries[k].relPath \in DOMAIN archived
  BY <1>3, ListIsComplete
<1>5. OnceEach(Paths, analyzed, snapshot.files)
  <2>1. analyzed \in SUBSET DOMAIN archived
    OBVIOUS
  <2>2. /\ DOMAIN snapshot.files = {k \in DOMAIN entries : entries[k].relPath \in analyzed}
        /\ \A k \in DOMAIN snapshot.files : /\ snapshot.files[k].path = entries[k].relPath
                                            /\ snapshot.files[k].sha256 = entries[k].sha256
    <3> HIDE DEF archived, Capable
    <3> QED BY <1>2, <1>4
  <2> HIDE DEF analyzed
  <2> QED BY <1>3, <2>1, <2>2, OneForEachFile
<1>6. OnceEach(Paths, native, snapshot.nativeArtifacts)
  <2>1. native \in SUBSET DOMAIN archived
    OBVIOUS
  <2>2. /\ DOMAIN snapshot.nativeArtifacts = {k \in DOMAIN entries : entries[k].relPath \in native}
        /\ \A k \in DOMAIN snapshot.nativeArtifacts :
              /\ snapshot.nativeArtifacts[k].path = entries[k].relPath
              /\ snapshot.nativeArtifacts[k].sha256 = entries[k].sha256
    <3> HIDE DEF archived
    <3> QED BY <1>2, <1>4
  <2> HIDE DEF native
  <2> QED BY <1>3, <2>1, <2>2, OneForEachFile
<1>7. RecordedOnce(archived, analyzed, native)
  <2> HIDE DEF analyzed, native
  <2> QED BY <1>5, <1>6 DEF RecordedOnce, OnceEach
<1>8. ASSUME NEW f \in ToSet(snapshot.files)
      PROVE  f.capabilities \in {NotRead, CapabilitiesIn[<<Last(f.path), archived[f.path]>>]}
  <2>1. PICK k \in DOMAIN snapshot.files : f = snapshot.files[k]
    BY DEF ToSet
  <2>2. f.path = entries[k].relPath /\ f.capabilities = Capable(entries[k])
    <3> HIDE DEF archived, Capable
    <3> QED BY <1>2, <2>1
  <2> HIDE DEF archived
  <2> QED BY <2>2
<1> HIDE DEF archived
<1> QED BY <1>2, <1>7, <1>8 DEF PypiSnapshotMatches, archived

LEMMA PypiWithinLimits ==
  ASSUME PypiInv, phase = "returned"
  PROVE  WithinLimits
PROOF
<1>1. /\ OnTrack /\ OnDisk = FileEntries
      /\ \A i \in DOMAIN archive : Kept(i)
      /\ \A i \in FileEntries : stage[i] = "done" /\ Entry(i).content.bytes <= maxEntryBytes
  BY PypiWhole
<1>2. Cardinality(BytesOf(FileEntries)) <= maxTotalBytes
  <2>1. PypiCounted = FileEntries
    BY <1>1 DEF PypiCounted
  <2> QED BY <1>1, <2>1 DEF PypiInv, PypiMeasured
<1>3. Len(archive) <= maxEntries
  <2>1. DOMAIN archive = 1..Len(archive) /\ Len(archive) \in Nat /\ maxEntries \in Nat
    BY PypiShape, ArchivesAssumption DEF PypiInv
  <2>2. Len(archive) # 0 => Kept(Len(archive))
    BY <1>1, <2>1
  <2> QED BY <2>1, <2>2 DEF Kept
<1> QED BY <1>1, <1>2, <1>3 DEF WithinLimits

LEMMA PypiCovered ==
  ASSUME PypiInv
  PROVE  PypiIsCovered
PROOF
<1>1. PypiPhased /\ PypiShaped
  BY DEF PypiInv
<1>2. ASSUME phase \in {"returned", "rejected"}
      PROVE  /\ temp = release.local
             /\ phase = "returned" \/ kind = "wheel" => disk = <<>> /\ dirs = {} /\ InFlight = {}
  BY <1>1, <1>2, WheelAtRest DEF PypiPhased, Over
<1>3. ASSUME phase = "returned", NEW i \in DOMAIN archive
      PROVE  \/ RefusalAt(i, Paths[i]) = NoError
             \/ Entry(i).type = "Directory" /\ (kind = "wheel" \/ Paths[i] = <<>>)
  BY <1>3, PypiWhole DEF Kept
<1> QED BY <1>2, <1>3, PypiWithinLimits, PypiSnapshotIsWhole DEF PypiIsCovered

-----------------------------------------------------------------------------
(* Either kind of package.                                                 *)

LEMMA AnalysisBegins == AnalysisInit => AnalysisInv
PROOF
<1>1. TarballInit /\ kind = "npm" => AnalysisInv
  BY TarballBegins DEF AnalysisInv
<1>2. PypiInit => AnalysisInv
  BY DEF PypiInit, AnalysisInv, Unfetched
<1> QED BY <1>1, <1>2 DEF AnalysisInit

LEMMA Fetched ==
  ASSUME Unfetched, FetchPypiArtifact
  PROVE  kind' \in {"wheel", "sdist"} /\ PypiInv'
PROOF
<1>1. PICK i \in DOMAIN release.files :
        LET pick == release.files[i]
        IN  /\ kind' = IF pick.packagetype = "bdist_wheel" THEN "wheel" ELSE "sdist"
            /\ archive' = pick.entries
            /\ stage' = [k \in DOMAIN pick.entries |-> "none"]
  BY DEF FetchPypiArtifact, Candidates
<1>2. /\ release \in Releases /\ next' = 1 /\ disk' = <<>> /\ entries' = <<>> /\ totalBytes' = 0
      /\ firstError' = NoError /\ phase' = "parsing"
  BY DEF Unfetched, FetchPypiArtifact
<1>3. /\ archive' \in Seq(ToSet(archive'))
      /\ \A k \in DOMAIN archive' :
           /\ archive'[k].type = "File" => archive'[k].content.bytes \in Nat
           /\ archive'[k].path # <<>> /\ archive'[k].path \in Seq(ToSet(archive'[k].path))
           /\ kind' = "wheel" => archive'[k].type \in WheelTypes
  <2>1. release.files[i] \in ToSet(release.files)
    BY <1>1 DEF ToSet
  <2> QED BY <1>1, <1>2, <2>1, ReleasesAssumption
<1>4. PypiShaped'
  <2>1. ArchiveTyped'
    BY <1>3 DEF ArchiveTyped, FileEntries, Entry
  <2> QED BY <1>1, <1>2, <1>3, <2>1 DEF PypiShaped, PypiStages, PypiPhases, Entry
<1>5. \A k \in DOMAIN archive' : stage'[k] = "none" /\ k \in Nat \ {0}
  <2>1. DOMAIN archive' = 1..Len(archive') /\ Len(archive') \in Nat
    BY <1>3
  <2> QED BY <1>1, <2>1
<1>6. OnDisk' = {} /\ PypiCounted' = {} /\ InFlight' = {}
  BY <1>1, <1>5 DEF OnDisk, PypiCounted, InFlight, FileEntries
<1>7. PypiAccepted'
  BY <1>2, <1>5 DEF PypiAccepted
<1>8. PypiMeasured'
  <2>1. BytesOf(PypiCounted)' = {}
    BY <1>6 DEF BytesOf
  <2> QED BY <1>2, <2>1, FS_EmptySet, ArchivesAssumption DEF PypiMeasured
<1>9. PypiPhased'
  BY <1>2 DEF PypiPhased, Over
<1>10. PypiHeld'
  BY <1>2, <1>6 DEF PypiHeld, Filled
<1>11. PypiListed'
  BY <1>2, <1>6 DEF PypiListed, Lists
<1>12. PypiTaken'
  BY <1>2 DEF PypiTaken
<1> QED BY <1>1, <1>4, <1>7, <1>8, <1>9, <1>10, <1>11, <1>12 DEF PypiInv

LEMMA AnalysisStutters ==
  ASSUME AnalysisInv, UNCHANGED allVars
  PROVE  AnalysisInv'
PROOF
<1>1. CASE kind \in {"wheel", "sdist"} /\ PypiInv
  <2>1. archive' = archive /\ kind' = kind
    BY DEF allVars, tarballVars, pypiVars
  <2>2. /\ FileEntries' = FileEntries /\ Paths' = Paths
        /\ OnePathEach(Paths)' = OnePathEach(Paths)
        /\ ArchivedFiles(Paths)' = ArchivedFiles(Paths)
        /\ \A i : Entry(i)' = Entry(i) /\ Kept(i)' = Kept(i)
    BY <2>1, PypiStatic
  <2>3. OnDisk' = OnDisk /\ PypiCounted' = PypiCounted /\ InFlight' = InFlight /\ OnTrack' = OnTrack
    BY <2>2 DEF allVars, tarballVars, OnDisk, PypiCounted, InFlight, OnTrack
  <2>4. PypiShaped' /\ PypiAccepted'
    BY <1>1, <2>1, <2>2, <2>3 DEF allVars, tarballVars, PypiInv, PypiShaped, ArchiveTyped, PypiAccepted
  <2>5. PypiMeasured' /\ PypiPhased'
    <3>1. BytesOf(PypiCounted)' = BytesOf(PypiCounted)
      BY <2>2, <2>3 DEF BytesOf
    <3> QED BY <1>1, <2>1, <2>3, <3>1 DEF allVars, tarballVars, pypiVars, PypiInv, PypiMeasured, PypiPhased
  <2>6. PypiHeld' /\ PypiListed'
    <3>1. Filled(Paths, OnDisk, disk)' = Filled(Paths, OnDisk, disk)
      BY <2>2, <2>3 DEF allVars, tarballVars, Filled
    <3>2. \A i : RecordOf(Paths, i)' = RecordOf(Paths, i)
      BY <2>2 DEF RecordOf
    <3>3. Lists(Paths, OnDisk, entries)' <=> Lists(Paths, OnDisk, entries)
      BY <2>2, <2>3, <3>2 DEF allVars, tarballVars, Lists
    <3> QED BY <1>1, <2>2, <2>3, <3>1, <3>3 DEF allVars, tarballVars, PypiInv, PypiHeld, PypiListed
  <2>7. PypiTaken'
    BY <1>1, <2>2 DEF allVars, tarballVars, PypiInv, PypiTaken, IsSnapshotOf
  <2> QED BY <1>1, <2>1, <2>4, <2>5, <2>6, <2>7 DEF AnalysisInv, PypiInv
<1>2. CASE kind = "npm" /\ TarballInv
  <2>1. TarballInv'
    BY <1>2, TarballStays DEF allVars
  <2> QED BY <1>2, <2>1 DEF AnalysisInv, allVars, pypiVars
<1>3. CASE kind = "pypi" /\ Unfetched
  BY <1>3 DEF AnalysisInv, Unfetched, allVars, tarballVars, pypiVars
<1> QED BY <1>1, <1>2, <1>3 DEF AnalysisInv

LEMMA AnalysisStays == AnalysisInv /\ [AnalysisNext]_allVars => AnalysisInv'
PROOF
<1> SUFFICES ASSUME AnalysisInv, [AnalysisNext]_allVars PROVE AnalysisInv'
  OBVIOUS
<1>1. CASE kind = "npm" /\ TarballNext /\ UNCHANGED pypiVars
  <2>1. TarballInv'
    BY <1>1, TarballStays DEF AnalysisInv
  <2> QED BY <1>1, <2>1 DEF AnalysisInv, pypiVars
<1>2. CASE kind \in {"wheel", "sdist"} /\ PypiNext
  <2>1. PypiInv
    BY <1>2 DEF AnalysisInv
  <2> QED BY <1>2, <2>1, PypiStays DEF AnalysisInv
<1>3. CASE kind = "pypi" /\ PypiNext
  <2>1. Unfetched
    BY <1>3 DEF AnalysisInv
  <2>2. FetchPypiArtifact \/ FetchFails
    <3>1. DOMAIN archive = {}
      BY <2>1 DEF Unfetched
    <3> QED BY <1>3, <3>1 DEF PypiNext, WheelEntry, WheelEnds, SdistEntry, SdistStreamEnds, SdistSettled,
       PypiFails, PypiAbandon, PypiAnalyze, PypiCleanup
  <2>3. CASE FetchPypiArtifact
    BY <2>1, <2>3, Fetched DEF AnalysisInv
  <2>4. CASE FetchFails
    BY <1>3, <2>1, <2>4 DEF FetchFails, AnalysisInv, Unfetched
  <2> QED BY <2>2, <2>3, <2>4
<1>4. CASE UNCHANGED allVars
  BY <1>4, AnalysisStutters
<1> QED BY <1>1, <1>2, <1>3, <1>4 DEF AnalysisNext, AnalysisInv

\* A snapshot that is returned covers its archive, whichever kind it is of, and
\* the harness sees all in it that runs by itself; whatever ends leaves nothing
\* behind.
THEOREM SnapshotsMatchTheirArchive == AnalysisSpec => []SnapshotMatchesArchive
PROOF
<1>1. AnalysisInv => SnapshotMatchesArchive
  BY TarballCovered, PypiCovered DEF AnalysisInv, SnapshotMatchesArchive
<1> QED BY <1>1, AnalysisBegins, AnalysisStays, PTL DEF AnalysisSpec

-----------------------------------------------------------------------------
(* SnapshotCache: the invariant.                                           *)

Gets  == {"key", "readKey", "create", "regenerate", "fill", "adopt", "reread"}
Puts  == {"open", "write", "rename"}
Ended == {"done", "dead"}

Typed ==
  /\ keyFile \in Keys \cup {"absent", "short"}
  /\ memKey \in [Procs -> Keys \cup {None}]
  /\ pc \in [Tasks -> {"idle", "verify"} \cup Gets \cup Puts \cup Ended]
  /\ op \in [Tasks -> {None, "get", "put"}]
  /\ integrity \in [Tasks -> Integrities \cup {None}]
  /\ stamp \in [Tasks -> Stamps \cup {None}]
  /\ raw \in [Tasks -> Contents \cup {None}]
  /\ key \in [Tasks -> Keys \cup {None}]
  /\ fd \in [Tasks -> Tasks \cup {None}]
  /\ result \in [Tasks -> Snapshots \cup {None}]
  /\ inode \in [Tasks -> Contents \cup {None}]
  /\ tmpAt \in [TmpNames -> Tasks \cup {None}]
  /\ entryAt \in [Integrities -> Tasks \cup {None}]
  /\ planted \in InitialEntries

\* A call that has begun has its integrity for good.
Begun ==
  \A t \in Tasks :
    /\ pc[t] = "idle" => op[t] = None /\ result[t] = None
    /\ pc[t] \in {"idle", "verify", "open"} \cup Gets => fd[t] = None
    /\ pc[t] # "idle" => integrity[t] \in Integrities
    /\ pc[t] \in Gets => op[t] \in {"get", "put"}
    /\ pc[t] = "verify" => op[t] = "get"
    /\ pc[t] \in Puts => op[t] = "put"
    /\ pc[t] \in {"write", "rename"} => fd[t] \in Tasks /\ stamp[t] \in Stamps

-----------------------------------------------------------------------------
(* Keys.                                                                   *)

\* A key this install made, and while there is one from before, only that one.
Ours(k) == k \in Tasks \cup {OldKey} /\ (k = OldKey => first = OldKey)

\* Where a key is about to be made there was none.
Making == {"create", "regenerate", "fill", "adopt", "reread"}

KeysOurs ==
  /\ keyFile \in Keys => Ours(keyFile)
  /\ \A p \in Procs : memKey[p] # None => Ours(memKey[p])
  /\ \A t \in Tasks : pc[t] \in {"verify"} \cup Puts => Ours(key[t])

OldKeyStays ==
  first = OldKey =>
    /\ keyFile = OldKey
    /\ \A p \in Procs : memKey[p] \in {None, OldKey}
    /\ \A t \in Tasks : pc[t] \notin Making

-----------------------------------------------------------------------------
(* Entries.                                                                *)

\* An entry is what a put wrote under the integrity it was called with, or lay
\* there at the start.
Genuine(e) ==
  \/ e.snapshot \in Tasks /\ pc[e.snapshot] # "idle" /\ op[e.snapshot] = "put"
     /\ integrity[e.snapshot] = e.integrity
  \/ \E j \in Integrities : planted[j] = e

EntriesGenuine ==
  /\ \A t \in Tasks : inode[t] \in Entries => Genuine(inode[t])
  /\ \A t \in Tasks :
       op[t] = "get" /\ pc[t] \in Gets \cup {"verify"} =>
         raw[t] \in Entries /\ Genuine(raw[t])

-----------------------------------------------------------------------------
(* Temp files, while each has one writer.                                  *)

WholeEntries ==
  /\ \A t \in Tasks : fd[t] # None => fd[t] = t
  /\ \A n \in TmpNames : tmpAt[n] # None =>
       LET t == tmpAt[n] IN fd[t] # None /\ TmpName(t, stamp[t]) = n /\ pc[t] # "done"
  /\ \A t \in Tasks : pc[t] = "rename" => inode[t] # Torn
  /\ \A i \in Integrities : entryAt[i] # None =>
       inode[entryAt[i]] # Torn /\ pc[entryAt[i]] = "done"

TempsWhole == TmpNamesDistinct => WholeEntries

Inv == Typed /\ Begun /\ KeysOurs /\ OldKeyStays /\ EntriesGenuine /\ GetSound /\ TempsWhole
-----------------------------------------------------------------------------
(* What is known of names, and of files.                                   *)

LEMMA Named ==
  /\ \A t \in Tasks : ProcOf[t] \in Procs /\ t \in Keys /\ t \in Snapshots /\ t # None
  /\ OldKey \in Keys /\ {"absent", "short"} \cap Keys = {}
  /\ None \notin Keys /\ None \notin Integrities
  /\ {Torn, None} \cap Entries = {} /\ Torn \in Contents /\ Entries \subseteq Contents
  /\ \A e \in InitialEntries : e \in [Integrities -> Contents \cup {None}]
BY TasksAssumption DEF Keys, Snapshots, Contents

LEMMA NamesOfTemps ==
  ASSUME Typed, Begun, NEW t \in Tasks, pc[t] # "idle", NEW ms \in Stamps
  PROVE  TmpName(t, ms) \in TmpNames
<1>1. ProcOf[t] \in Procs /\ integrity[t] \in Integrities
  BY Named DEF Begun
<1> QED BY <1>1 DEF TmpName, TmpNames

\* What a name holds is whole and genuine, or no entry at all.
LEMMA ContentKnown ==
  ASSUME Inv, NEW i \in Integrities
  PROVE  /\ Content(i) \in Contents \cup {None}
         /\ Content(i) \in Entries => Genuine(Content(i))
<1>1. CASE entryAt[i] # None
  BY <1>1 DEF Inv, Typed, EntriesGenuine, Content
<1>2. CASE entryAt[i] = None
  <2>1. Content(i) = planted[i] /\ planted \in [Integrities -> Contents \cup {None}]
    BY <1>2, Named DEF Inv, Typed, Content
  <2> QED BY <2>1 DEF Genuine
<1> QED BY <1>1, <1>2

\* What a put seals is an entry.
LEMMA SealedIsEntry ==
  ASSUME NEW i \in Integrities, NEW k \in Keys, NEW s \in Snapshots
  PROVE  /\ Sealed(i, k, s) \in Entries
         /\ Sealed(i, k, s).integrity = i /\ Sealed(i, k, s).key = k /\ Sealed(i, k, s).snapshot = s
BY DEF Sealed, Entries

-----------------------------------------------------------------------------
(* Calls go on; their integrities stay.                                    *)

CallsGoOn ==
  /\ planted' = planted /\ first' = first
  /\ \A s \in Tasks : pc[s] # "idle" =>
       pc'[s] # "idle" /\ op'[s] = op[s] /\ integrity'[s] = integrity[s]

LEMMA CallsStay ==
  ASSUME Inv, [Next]_vars
  PROVE  CallsGoOn
PROOF
<1>1. ASSUME NEW t \in Tasks, NEW i \in Integrities, Get(t, i) PROVE CallsGoOn
  BY <1>1 DEF Get, Goto, Call, keys, files, CallsGoOn, Inv, Typed, Gets, Puts, Ended
<1>2. ASSUME NEW t \in Tasks, NEW i \in Integrities, Put(t, i) PROVE CallsGoOn
  BY <1>2 DEF Put, Goto, Call, keys, files, CallsGoOn, Inv, Typed, Gets, Puts, Ended
<1>3. ASSUME NEW t \in Tasks, KeyInMemory(t) PROVE CallsGoOn
  BY <1>3 DEF KeyInMemory, Goto, AfterKey, keys, files, CallsGoOn, Inv, Typed, Gets, Puts, Ended
<1>4. ASSUME NEW t \in Tasks, KeyNotInMemory(t) PROVE CallsGoOn
  BY <1>4 DEF KeyNotInMemory, Goto, keys, files, CallsGoOn, Inv, Typed, Gets, Puts, Ended
<1>5. ASSUME NEW t \in Tasks, ReadKey(t) PROVE CallsGoOn
  BY <1>5 DEF ReadKey, Goto, UseKey, AfterKey, files, CallsGoOn, Inv, Typed, Gets, Puts, Ended
<1>6. ASSUME NEW t \in Tasks, ReadNoKey(t) PROVE CallsGoOn
  BY <1>6 DEF ReadNoKey, Goto, keys, files, CallsGoOn, Inv, Typed, Gets, Puts, Ended
<1>7. ASSUME NEW t \in Tasks, TruncateKey(t) PROVE CallsGoOn
  BY <1>7 DEF TruncateKey, Goto, files, CallsGoOn, Inv, Typed, Gets, Puts, Ended
<1>8. ASSUME NEW t \in Tasks, CreateKey(t) PROVE CallsGoOn
  BY <1>8 DEF CreateKey, Goto, files, CallsGoOn, Inv, Typed, Gets, Puts, Ended
<1>9. ASSUME NEW t \in Tasks, KeyExists(t) PROVE CallsGoOn
  BY <1>9 DEF KeyExists, Goto, keys, files, CallsGoOn, Inv, Typed, Gets, Puts, Ended
<1>10. ASSUME NEW t \in Tasks, FillKey(t) PROVE CallsGoOn
  BY <1>10 DEF FillKey, Goto, files, CallsGoOn, Inv, Typed, Gets, Puts, Ended
<1>11. ASSUME NEW t \in Tasks, AdoptKey(t) PROVE CallsGoOn
  BY <1>11 DEF AdoptKey, Goto, UseKey, AfterKey, files, CallsGoOn, Inv, Typed, Gets, Puts, Ended
<1>12. ASSUME NEW t \in Tasks, RereadKey(t) PROVE CallsGoOn
  BY <1>12 DEF RereadKey, Goto, UseKey, AfterKey, files, CallsGoOn, Inv, Typed, Gets, Puts, Ended
<1>13. ASSUME NEW t \in Tasks, RereadThrows(t) PROVE CallsGoOn
  BY <1>13 DEF RereadThrows, Goto, keys, files, CallsGoOn, Inv, Typed, Gets, Puts, Ended
<1>14. ASSUME NEW t \in Tasks, Verify(t) PROVE CallsGoOn
  BY <1>14 DEF Verify, Goto, keys, files, CallsGoOn, Inv, Typed, Gets, Puts, Ended
<1>15. ASSUME NEW t \in Tasks, NEW ms \in Stamps, OpenTmp(t, ms) PROVE CallsGoOn
  BY <1>15 DEF OpenTmp, Goto, keys, CallsGoOn, Inv, Typed, Gets, Puts, Ended
<1>16. ASSUME NEW t \in Tasks, WriteTmp(t) PROVE CallsGoOn
  BY <1>16 DEF WriteTmp, Goto, keys, CallsGoOn, Inv, Typed, Gets, Puts, Ended
<1>17. ASSUME NEW t \in Tasks, RenameTmp(t) PROVE CallsGoOn
  BY <1>17 DEF RenameTmp, Goto, keys, CallsGoOn, Inv, Typed, Gets, Puts, Ended
<1>18. ASSUME NEW t \in Tasks, RenameThrows(t) PROVE CallsGoOn
  BY <1>18 DEF RenameThrows, Goto, keys, files, CallsGoOn, Inv, Typed, Gets, Puts, Ended
<1>19. ASSUME NEW p \in Procs, Crash(p) PROVE CallsGoOn
  BY <1>19 DEF Crash, files, CallsGoOn, Inv, Typed, Gets, Puts, Ended
<1>20. CASE UNCHANGED vars
  BY <1>20 DEF vars, keys, files, call, CallsGoOn, Inv, Typed, Gets, Puts, Ended
<1> QED BY <1>1, <1>2, <1>3, <1>4, <1>5, <1>6, <1>7, <1>8, <1>9, <1>10, <1>11, <1>12, <1>13, <1>14, <1>15, <1>16, <1>17, <1>18, <1>19, <1>20 DEF Next, Advance, KeyStep

LEMMA GenuineStays ==
  ASSUME Inv, CallsGoOn
  PROVE  \A e : Genuine(e) => Genuine(e)'
BY DEF CallsGoOn, Genuine

LEMMA StoredStays ==
  ASSUME Inv, CallsGoOn
  PROVE  \A s, i : StoredUnder(s, i) => StoredUnder(s, i)'
BY Named, TasksAssumption DEF CallsGoOn, StoredUnder, Inv, Begun

TempsGoOn ==
  \A s \in Tasks : fd[s] # None =>
    fd'[s] = fd[s] /\ stamp'[s] = stamp[s] /\ integrity'[s] = integrity[s]

LEMMA TempsStay ==
  ASSUME Inv, [Next]_vars
  PROVE  TempsGoOn
PROOF
<1>1. ASSUME NEW t \in Tasks, NEW i \in Integrities, Get(t, i) PROVE TempsGoOn
  BY <1>1 DEF Get, Goto, Call, keys, files, TempsGoOn, Inv, Typed, Begun, Gets, Puts, Ended
<1>2. ASSUME NEW t \in Tasks, NEW i \in Integrities, Put(t, i) PROVE TempsGoOn
  BY <1>2 DEF Put, Goto, Call, keys, files, TempsGoOn, Inv, Typed, Begun, Gets, Puts, Ended
<1>3. ASSUME NEW t \in Tasks, KeyInMemory(t) PROVE TempsGoOn
  BY <1>3 DEF KeyInMemory, Goto, AfterKey, keys, files, TempsGoOn, Inv, Typed, Begun, Gets, Puts, Ended
<1>4. ASSUME NEW t \in Tasks, KeyNotInMemory(t) PROVE TempsGoOn
  BY <1>4 DEF KeyNotInMemory, Goto, keys, files, TempsGoOn, Inv, Typed, Begun, Gets, Puts, Ended
<1>5. ASSUME NEW t \in Tasks, ReadKey(t) PROVE TempsGoOn
  BY <1>5 DEF ReadKey, Goto, UseKey, AfterKey, files, TempsGoOn, Inv, Typed, Begun, Gets, Puts, Ended
<1>6. ASSUME NEW t \in Tasks, ReadNoKey(t) PROVE TempsGoOn
  BY <1>6 DEF ReadNoKey, Goto, keys, files, TempsGoOn, Inv, Typed, Begun, Gets, Puts, Ended
<1>7. ASSUME NEW t \in Tasks, TruncateKey(t) PROVE TempsGoOn
  BY <1>7 DEF TruncateKey, Goto, files, TempsGoOn, Inv, Typed, Begun, Gets, Puts, Ended
<1>8. ASSUME NEW t \in Tasks, CreateKey(t) PROVE TempsGoOn
  BY <1>8 DEF CreateKey, Goto, files, TempsGoOn, Inv, Typed, Begun, Gets, Puts, Ended
<1>9. ASSUME NEW t \in Tasks, KeyExists(t) PROVE TempsGoOn
  BY <1>9 DEF KeyExists, Goto, keys, files, TempsGoOn, Inv, Typed, Begun, Gets, Puts, Ended
<1>10. ASSUME NEW t \in Tasks, FillKey(t) PROVE TempsGoOn
  BY <1>10 DEF FillKey, Goto, files, TempsGoOn, Inv, Typed, Begun, Gets, Puts, Ended
<1>11. ASSUME NEW t \in Tasks, AdoptKey(t) PROVE TempsGoOn
  BY <1>11 DEF AdoptKey, Goto, UseKey, AfterKey, files, TempsGoOn, Inv, Typed, Begun, Gets, Puts, Ended
<1>12. ASSUME NEW t \in Tasks, RereadKey(t) PROVE TempsGoOn
  BY <1>12 DEF RereadKey, Goto, UseKey, AfterKey, files, TempsGoOn, Inv, Typed, Begun, Gets, Puts, Ended
<1>13. ASSUME NEW t \in Tasks, RereadThrows(t) PROVE TempsGoOn
  BY <1>13 DEF RereadThrows, Goto, keys, files, TempsGoOn, Inv, Typed, Begun, Gets, Puts, Ended
<1>14. ASSUME NEW t \in Tasks, Verify(t) PROVE TempsGoOn
  BY <1>14 DEF Verify, Goto, keys, files, TempsGoOn, Inv, Typed, Begun, Gets, Puts, Ended
<1>15. ASSUME NEW t \in Tasks, NEW ms \in Stamps, OpenTmp(t, ms) PROVE TempsGoOn
  BY <1>15 DEF OpenTmp, Goto, keys, TempsGoOn, Inv, Typed, Begun, Gets, Puts, Ended
<1>16. ASSUME NEW t \in Tasks, WriteTmp(t) PROVE TempsGoOn
  BY <1>16 DEF WriteTmp, Goto, keys, TempsGoOn, Inv, Typed, Begun, Gets, Puts, Ended
<1>17. ASSUME NEW t \in Tasks, RenameTmp(t) PROVE TempsGoOn
  BY <1>17 DEF RenameTmp, Goto, keys, TempsGoOn, Inv, Typed, Begun, Gets, Puts, Ended
<1>18. ASSUME NEW t \in Tasks, RenameThrows(t) PROVE TempsGoOn
  BY <1>18 DEF RenameThrows, Goto, keys, files, TempsGoOn, Inv, Typed, Begun, Gets, Puts, Ended
<1>19. ASSUME NEW p \in Procs, Crash(p) PROVE TempsGoOn
  BY <1>19 DEF Crash, files, TempsGoOn, Inv, Typed, Begun, Gets, Puts, Ended
<1>20. CASE UNCHANGED vars
  BY <1>20 DEF vars, keys, files, call, TempsGoOn, Inv, Typed, Begun, Gets, Puts, Ended
<1> QED BY <1>1, <1>2, <1>3, <1>4, <1>5, <1>6, <1>7, <1>8, <1>9, <1>10, <1>11, <1>12, <1>13, <1>14, <1>15, <1>16, <1>17, <1>18, <1>19, <1>20 DEF Next, Advance, KeyStep

LEMMA DistinctBefore ==
  ASSUME Inv, TempsGoOn, TmpNamesDistinct'
  PROVE  TmpNamesDistinct
BY DEF TempsGoOn, TmpNamesDistinct, TmpName

-----------------------------------------------------------------------------
(* Each part of the invariant, by the step that is taken.                  *)

LEMMA TypedStep ==
  ASSUME Inv, [Next]_vars
  PROVE  Typed'
PROOF
<1>1. ASSUME NEW t \in Tasks, NEW i \in Integrities, Get(t, i) PROVE Typed'
  BY <1>1, ContentKnown DEF Get, Goto, Call, keys, files, Inv, Typed, Gets, Puts, Ended
<1>2. ASSUME NEW t \in Tasks, NEW i \in Integrities, Put(t, i) PROVE Typed'
  BY <1>2 DEF Put, Goto, Call, keys, files, Inv, Typed, Gets, Puts, Ended
<1>3. ASSUME NEW t \in Tasks, KeyInMemory(t) PROVE Typed'
  BY <1>3, Named DEF KeyInMemory, Goto, AfterKey, keys, files, Inv, Typed, Gets, Puts, Ended
<1>4. ASSUME NEW t \in Tasks, KeyNotInMemory(t) PROVE Typed'
  BY <1>4 DEF KeyNotInMemory, Goto, keys, files, Inv, Typed, Gets, Puts, Ended
<1>5. ASSUME NEW t \in Tasks, ReadKey(t) PROVE Typed'
  BY <1>5 DEF ReadKey, Goto, UseKey, AfterKey, files, Inv, Typed, Gets, Puts, Ended
<1>6. ASSUME NEW t \in Tasks, ReadNoKey(t) PROVE Typed'
  BY <1>6 DEF ReadNoKey, Goto, keys, files, Inv, Typed, Gets, Puts, Ended
<1>7. ASSUME NEW t \in Tasks, TruncateKey(t) PROVE Typed'
  BY <1>7 DEF TruncateKey, Goto, files, Inv, Typed, Gets, Puts, Ended
<1>8. ASSUME NEW t \in Tasks, CreateKey(t) PROVE Typed'
  BY <1>8 DEF CreateKey, Goto, files, Inv, Typed, Gets, Puts, Ended
<1>9. ASSUME NEW t \in Tasks, KeyExists(t) PROVE Typed'
  BY <1>9 DEF KeyExists, Goto, keys, files, Inv, Typed, Gets, Puts, Ended
<1>10. ASSUME NEW t \in Tasks, FillKey(t) PROVE Typed'
  BY <1>10, Named DEF FillKey, Goto, files, Inv, Typed, Gets, Puts, Ended
<1>11. ASSUME NEW t \in Tasks, AdoptKey(t) PROVE Typed'
  BY <1>11, Named DEF AdoptKey, Goto, UseKey, AfterKey, files, Inv, Typed, Gets, Puts, Ended
<1>12. ASSUME NEW t \in Tasks, RereadKey(t) PROVE Typed'
  BY <1>12 DEF RereadKey, Goto, UseKey, AfterKey, files, Inv, Typed, Gets, Puts, Ended
<1>13. ASSUME NEW t \in Tasks, RereadThrows(t) PROVE Typed'
  BY <1>13 DEF RereadThrows, Goto, keys, files, Inv, Typed, Gets, Puts, Ended
<1>14. ASSUME NEW t \in Tasks, Verify(t) PROVE Typed'
  <2>1. raw[t].snapshot \in Snapshots
    BY <1>14 DEF Verify, Goto, Inv, Begun, EntriesGenuine, Entries
  <2> QED BY <1>14, <2>1 DEF Verify, Goto, keys, files, Inv, Typed, Gets, Puts, Ended
<1>15. ASSUME NEW t \in Tasks, NEW ms \in Stamps, OpenTmp(t, ms) PROVE Typed'
  <2>1. TmpName(t, ms) \in TmpNames
    BY <1>15, NamesOfTemps DEF OpenTmp, Goto, Inv
  <2> DEFINE target == IF tmpAt[TmpName(t, ms)] = None THEN t ELSE tmpAt[TmpName(t, ms)]
  <2>2. target \in Tasks
    BY <2>1 DEF Inv, Typed
  <2>3. /\ tmpAt' = [tmpAt EXCEPT ![TmpName(t, ms)] = target]
        /\ inode' = [inode EXCEPT ![target] = Torn]
        /\ fd' = [fd EXCEPT ![t] = target]
    BY <1>15 DEF OpenTmp
  <2> HIDE DEF target
  <2>4. tmpAt' \in [TmpNames -> Tasks \cup {None}] /\ inode' \in [Tasks -> Contents \cup {None}]
        /\ fd' \in [Tasks -> Tasks \cup {None}]
    BY <2>2, <2>3, Named DEF Inv, Typed
  <2> QED BY <1>15, <2>4 DEF OpenTmp, Goto, keys, Inv, Typed, Gets, Puts, Ended
<1>16. ASSUME NEW t \in Tasks, WriteTmp(t) PROVE Typed'
  <2>1. Sealed(integrity[t], key[t], t) \in Entries
    <3>1. integrity[t] \in Integrities /\ key[t] \in Keys /\ t \in Snapshots
      BY <1>16, Named DEF WriteTmp, Goto, Inv, Begun, KeysOurs, Ours, Puts, Keys
    <3> QED BY <3>1, SealedIsEntry
  <2>2. inode' \in [Tasks -> Contents \cup {None}]
    <3>1. PICK c \in Contents : inode' = [inode EXCEPT ![fd[t]] = c]
      BY <1>16, <2>1, Named DEF WriteTmp
    <3> QED BY <3>1 DEF Inv, Typed
  <2> QED BY <1>16, <2>2 DEF WriteTmp, Goto, keys, Inv, Typed, Gets, Puts, Ended
<1>17. ASSUME NEW t \in Tasks, RenameTmp(t) PROVE Typed'
  <2>1. TmpName(t, stamp[t]) \in TmpNames
    BY <1>17, NamesOfTemps DEF RenameTmp, Goto, Inv, Begun
  <2>2. tmpAt[TmpName(t, stamp[t])] \in Tasks
    BY <1>17, <2>1 DEF RenameTmp, Inv, Typed
  <2>3. entryAt' \in [Integrities -> Tasks \cup {None}] /\ tmpAt' \in [TmpNames -> Tasks \cup {None}]
    BY <1>17, <2>2 DEF RenameTmp, Inv, Typed
  <2> QED BY <1>17, <2>3 DEF RenameTmp, Goto, keys, Inv, Typed, Gets, Puts, Ended
<1>18. ASSUME NEW t \in Tasks, RenameThrows(t) PROVE Typed'
  BY <1>18 DEF RenameThrows, Goto, keys, files, Inv, Typed, Gets, Puts, Ended
<1>19. ASSUME NEW p \in Procs, Crash(p) PROVE Typed'
  BY <1>19 DEF Crash, files, Inv, Typed, Gets, Puts, Ended
<1>20. CASE UNCHANGED vars
  BY <1>20 DEF vars, keys, files, call, Inv, Typed, Gets, Puts, Ended
<1> QED BY <1>1, <1>2, <1>3, <1>4, <1>5, <1>6, <1>7, <1>8, <1>9, <1>10, <1>11, <1>12, <1>13, <1>14, <1>15, <1>16, <1>17, <1>18, <1>19, <1>20 DEF Next, Advance, KeyStep

LEMMA BegunStep ==
  ASSUME Inv, Typed', [Next]_vars
  PROVE  Begun'
PROOF
<1>1. ASSUME NEW t \in Tasks, NEW i \in Integrities, Get(t, i) PROVE Begun'
  BY <1>1, Named DEF Get, Goto, Call, keys, files, Inv, Typed, Begun, Gets, Puts, Ended
<1>2. ASSUME NEW t \in Tasks, NEW i \in Integrities, Put(t, i) PROVE Begun'
  BY <1>2, Named DEF Put, Goto, Call, keys, files, Inv, Typed, Begun, Gets, Puts, Ended
<1>3. ASSUME NEW t \in Tasks, KeyInMemory(t) PROVE Begun'
  BY <1>3, Named DEF KeyInMemory, Goto, AfterKey, keys, files, Inv, Typed, Begun, Gets, Puts, Ended
<1>4. ASSUME NEW t \in Tasks, KeyNotInMemory(t) PROVE Begun'
  BY <1>4, Named DEF KeyNotInMemory, Goto, keys, files, Inv, Typed, Begun, Gets, Puts, Ended
<1>5. ASSUME NEW t \in Tasks, ReadKey(t) PROVE Begun'
  BY <1>5, Named DEF ReadKey, Goto, UseKey, AfterKey, files, Inv, Typed, Begun, Gets, Puts, Ended
<1>6. ASSUME NEW t \in Tasks, ReadNoKey(t) PROVE Begun'
  BY <1>6, Named DEF ReadNoKey, Goto, keys, files, Inv, Typed, Begun, Gets, Puts, Ended
<1>7. ASSUME NEW t \in Tasks, TruncateKey(t) PROVE Begun'
  BY <1>7, Named DEF TruncateKey, Goto, files, Inv, Typed, Begun, Gets, Puts, Ended
<1>8. ASSUME NEW t \in Tasks, CreateKey(t) PROVE Begun'
  BY <1>8, Named DEF CreateKey, Goto, files, Inv, Typed, Begun, Gets, Puts, Ended
<1>9. ASSUME NEW t \in Tasks, KeyExists(t) PROVE Begun'
  BY <1>9, Named DEF KeyExists, Goto, keys, files, Inv, Typed, Begun, Gets, Puts, Ended
<1>10. ASSUME NEW t \in Tasks, FillKey(t) PROVE Begun'
  BY <1>10, Named DEF FillKey, Goto, files, Inv, Typed, Begun, Gets, Puts, Ended
<1>11. ASSUME NEW t \in Tasks, AdoptKey(t) PROVE Begun'
  BY <1>11, Named DEF AdoptKey, Goto, UseKey, AfterKey, files, Inv, Typed, Begun, Gets, Puts, Ended
<1>12. ASSUME NEW t \in Tasks, RereadKey(t) PROVE Begun'
  BY <1>12, Named DEF RereadKey, Goto, UseKey, AfterKey, files, Inv, Typed, Begun, Gets, Puts, Ended
<1>13. ASSUME NEW t \in Tasks, RereadThrows(t) PROVE Begun'
  BY <1>13, Named DEF RereadThrows, Goto, keys, files, Inv, Typed, Begun, Gets, Puts, Ended
<1>14. ASSUME NEW t \in Tasks, Verify(t) PROVE Begun'
  BY <1>14, Named DEF Verify, Goto, keys, files, Inv, Typed, Begun, Gets, Puts, Ended
<1>15. ASSUME NEW t \in Tasks, NEW ms \in Stamps, OpenTmp(t, ms) PROVE Begun'
  BY <1>15, Named DEF OpenTmp, Goto, keys, Inv, Typed, Begun, Gets, Puts, Ended
<1>16. ASSUME NEW t \in Tasks, WriteTmp(t) PROVE Begun'
  BY <1>16, Named DEF WriteTmp, Goto, keys, Inv, Typed, Begun, Gets, Puts, Ended
<1>17. ASSUME NEW t \in Tasks, RenameTmp(t) PROVE Begun'
  BY <1>17, Named DEF RenameTmp, Goto, keys, Inv, Typed, Begun, Gets, Puts, Ended
<1>18. ASSUME NEW t \in Tasks, RenameThrows(t) PROVE Begun'
  BY <1>18, Named DEF RenameThrows, Goto, keys, files, Inv, Typed, Begun, Gets, Puts, Ended
<1>19. ASSUME NEW p \in Procs, Crash(p) PROVE Begun'
  BY <1>19, Named DEF Crash, files, Inv, Typed, Begun, Gets, Puts, Ended
<1>20. CASE UNCHANGED vars
  BY <1>20, Named DEF vars, keys, files, call, Inv, Typed, Begun, Gets, Puts, Ended
<1> QED BY <1>1, <1>2, <1>3, <1>4, <1>5, <1>6, <1>7, <1>8, <1>9, <1>10, <1>11, <1>12, <1>13, <1>14, <1>15, <1>16, <1>17, <1>18, <1>19, <1>20 DEF Next, Advance, KeyStep

LEMMA KeysOursStep ==
  ASSUME Inv, [Next]_vars
  PROVE  KeysOurs'
PROOF
<1>1. ASSUME NEW t \in Tasks, NEW i \in Integrities, Get(t, i) PROVE KeysOurs'
  BY <1>1, Named, TasksAssumption DEF Get, Goto, Call, keys, files, Inv, Typed, Begun, KeysOurs, Ours, Gets, Puts, Ended, Keys
<1>2. ASSUME NEW t \in Tasks, NEW i \in Integrities, Put(t, i) PROVE KeysOurs'
  BY <1>2, Named, TasksAssumption DEF Put, Goto, Call, keys, files, Inv, Typed, Begun, KeysOurs, Ours, Gets, Puts, Ended, Keys
<1>3. ASSUME NEW t \in Tasks, KeyInMemory(t) PROVE KeysOurs'
  BY <1>3, Named, TasksAssumption DEF KeyInMemory, Goto, AfterKey, keys, files, Inv, Typed, Begun, KeysOurs, Ours, Gets, Puts, Ended, Keys
<1>4. ASSUME NEW t \in Tasks, KeyNotInMemory(t) PROVE KeysOurs'
  BY <1>4, Named, TasksAssumption DEF KeyNotInMemory, Goto, keys, files, Inv, Typed, Begun, KeysOurs, Ours, Gets, Puts, Ended, Keys
<1>5. ASSUME NEW t \in Tasks, ReadKey(t) PROVE KeysOurs'
  BY <1>5, Named, TasksAssumption DEF ReadKey, Goto, UseKey, AfterKey, files, Inv, Typed, Begun, KeysOurs, Ours, Gets, Puts, Ended, Keys
<1>6. ASSUME NEW t \in Tasks, ReadNoKey(t) PROVE KeysOurs'
  BY <1>6, Named, TasksAssumption DEF ReadNoKey, Goto, keys, files, Inv, Typed, Begun, KeysOurs, Ours, Gets, Puts, Ended, Keys
<1>7. ASSUME NEW t \in Tasks, TruncateKey(t) PROVE KeysOurs'
  BY <1>7, Named, TasksAssumption DEF TruncateKey, Goto, files, Inv, Typed, Begun, KeysOurs, Ours, Gets, Puts, Ended, Keys
<1>8. ASSUME NEW t \in Tasks, CreateKey(t) PROVE KeysOurs'
  BY <1>8, Named, TasksAssumption DEF CreateKey, Goto, files, Inv, Typed, Begun, KeysOurs, Ours, Gets, Puts, Ended, Keys
<1>9. ASSUME NEW t \in Tasks, KeyExists(t) PROVE KeysOurs'
  BY <1>9, Named, TasksAssumption DEF KeyExists, Goto, keys, files, Inv, Typed, Begun, KeysOurs, Ours, Gets, Puts, Ended, Keys
<1>10. ASSUME NEW t \in Tasks, FillKey(t) PROVE KeysOurs'
  BY <1>10, Named, TasksAssumption DEF FillKey, Goto, files, Inv, Typed, Begun, KeysOurs, Ours, Gets, Puts, Ended, Keys
<1>11. ASSUME NEW t \in Tasks, AdoptKey(t) PROVE KeysOurs'
  BY <1>11, Named, TasksAssumption DEF AdoptKey, Goto, UseKey, AfterKey, files, Inv, Typed, Begun, KeysOurs, Ours, Gets, Puts, Ended, Keys
<1>12. ASSUME NEW t \in Tasks, RereadKey(t) PROVE KeysOurs'
  BY <1>12, Named, TasksAssumption DEF RereadKey, Goto, UseKey, AfterKey, files, Inv, Typed, Begun, KeysOurs, Ours, Gets, Puts, Ended, Keys
<1>13. ASSUME NEW t \in Tasks, RereadThrows(t) PROVE KeysOurs'
  BY <1>13, Named, TasksAssumption DEF RereadThrows, Goto, keys, files, Inv, Typed, Begun, KeysOurs, Ours, Gets, Puts, Ended, Keys
<1>14. ASSUME NEW t \in Tasks, Verify(t) PROVE KeysOurs'
  BY <1>14, Named, TasksAssumption DEF Verify, Goto, keys, files, Inv, Typed, Begun, KeysOurs, Ours, Gets, Puts, Ended, Keys
<1>15. ASSUME NEW t \in Tasks, NEW ms \in Stamps, OpenTmp(t, ms) PROVE KeysOurs'
  BY <1>15, Named, TasksAssumption DEF OpenTmp, Goto, keys, Inv, Typed, Begun, KeysOurs, Ours, Gets, Puts, Ended, Keys
<1>16. ASSUME NEW t \in Tasks, WriteTmp(t) PROVE KeysOurs'
  BY <1>16, Named, TasksAssumption DEF WriteTmp, Goto, keys, Inv, Typed, Begun, KeysOurs, Ours, Gets, Puts, Ended, Keys
<1>17. ASSUME NEW t \in Tasks, RenameTmp(t) PROVE KeysOurs'
  BY <1>17, Named, TasksAssumption DEF RenameTmp, Goto, keys, Inv, Typed, Begun, KeysOurs, Ours, Gets, Puts, Ended, Keys
<1>18. ASSUME NEW t \in Tasks, RenameThrows(t) PROVE KeysOurs'
  BY <1>18, Named, TasksAssumption DEF RenameThrows, Goto, keys, files, Inv, Typed, Begun, KeysOurs, Ours, Gets, Puts, Ended, Keys
<1>19. ASSUME NEW p \in Procs, Crash(p) PROVE KeysOurs'
  BY <1>19, Named, TasksAssumption DEF Crash, files, Inv, Typed, Begun, KeysOurs, Ours, Gets, Puts, Ended, Keys
<1>20. CASE UNCHANGED vars
  BY <1>20, Named, TasksAssumption DEF vars, keys, files, call, Inv, Typed, Begun, KeysOurs, Ours, Gets, Puts, Ended, Keys
<1> QED BY <1>1, <1>2, <1>3, <1>4, <1>5, <1>6, <1>7, <1>8, <1>9, <1>10, <1>11, <1>12, <1>13, <1>14, <1>15, <1>16, <1>17, <1>18, <1>19, <1>20 DEF Next, Advance, KeyStep

LEMMA OldKeyStep ==
  ASSUME Inv, [Next]_vars
  PROVE  OldKeyStays'
PROOF
<1>1. ASSUME NEW t \in Tasks, NEW i \in Integrities, Get(t, i) PROVE OldKeyStays'
  BY <1>1, Named DEF Get, Goto, Call, keys, files, Inv, Typed, OldKeyStays, Making, Gets, Puts, Ended
<1>2. ASSUME NEW t \in Tasks, NEW i \in Integrities, Put(t, i) PROVE OldKeyStays'
  BY <1>2, Named DEF Put, Goto, Call, keys, files, Inv, Typed, OldKeyStays, Making, Gets, Puts, Ended
<1>3. ASSUME NEW t \in Tasks, KeyInMemory(t) PROVE OldKeyStays'
  BY <1>3, Named DEF KeyInMemory, Goto, AfterKey, keys, files, Inv, Typed, OldKeyStays, Making, Gets, Puts, Ended
<1>4. ASSUME NEW t \in Tasks, KeyNotInMemory(t) PROVE OldKeyStays'
  BY <1>4, Named DEF KeyNotInMemory, Goto, keys, files, Inv, Typed, OldKeyStays, Making, Gets, Puts, Ended
<1>5. ASSUME NEW t \in Tasks, ReadKey(t) PROVE OldKeyStays'
  BY <1>5, Named DEF ReadKey, Goto, UseKey, AfterKey, files, Inv, Typed, OldKeyStays, Making, Gets, Puts, Ended
<1>6. ASSUME NEW t \in Tasks, ReadNoKey(t) PROVE OldKeyStays'
  BY <1>6, Named DEF ReadNoKey, Goto, keys, files, Inv, Typed, OldKeyStays, Making, Gets, Puts, Ended
<1>7. ASSUME NEW t \in Tasks, TruncateKey(t) PROVE OldKeyStays'
  BY <1>7, Named DEF TruncateKey, Goto, files, Inv, Typed, OldKeyStays, Making, Gets, Puts, Ended
<1>8. ASSUME NEW t \in Tasks, CreateKey(t) PROVE OldKeyStays'
  BY <1>8, Named DEF CreateKey, Goto, files, Inv, Typed, OldKeyStays, Making, Gets, Puts, Ended
<1>9. ASSUME NEW t \in Tasks, KeyExists(t) PROVE OldKeyStays'
  BY <1>9, Named DEF KeyExists, Goto, keys, files, Inv, Typed, OldKeyStays, Making, Gets, Puts, Ended
<1>10. ASSUME NEW t \in Tasks, FillKey(t) PROVE OldKeyStays'
  BY <1>10, Named DEF FillKey, Goto, files, Inv, Typed, OldKeyStays, Making, Gets, Puts, Ended
<1>11. ASSUME NEW t \in Tasks, AdoptKey(t) PROVE OldKeyStays'
  BY <1>11, Named DEF AdoptKey, Goto, UseKey, AfterKey, files, Inv, Typed, OldKeyStays, Making, Gets, Puts, Ended
<1>12. ASSUME NEW t \in Tasks, RereadKey(t) PROVE OldKeyStays'
  BY <1>12, Named DEF RereadKey, Goto, UseKey, AfterKey, files, Inv, Typed, OldKeyStays, Making, Gets, Puts, Ended
<1>13. ASSUME NEW t \in Tasks, RereadThrows(t) PROVE OldKeyStays'
  BY <1>13, Named DEF RereadThrows, Goto, keys, files, Inv, Typed, OldKeyStays, Making, Gets, Puts, Ended
<1>14. ASSUME NEW t \in Tasks, Verify(t) PROVE OldKeyStays'
  BY <1>14, Named DEF Verify, Goto, keys, files, Inv, Typed, OldKeyStays, Making, Gets, Puts, Ended
<1>15. ASSUME NEW t \in Tasks, NEW ms \in Stamps, OpenTmp(t, ms) PROVE OldKeyStays'
  BY <1>15, Named DEF OpenTmp, Goto, keys, Inv, Typed, OldKeyStays, Making, Gets, Puts, Ended
<1>16. ASSUME NEW t \in Tasks, WriteTmp(t) PROVE OldKeyStays'
  BY <1>16, Named DEF WriteTmp, Goto, keys, Inv, Typed, OldKeyStays, Making, Gets, Puts, Ended
<1>17. ASSUME NEW t \in Tasks, RenameTmp(t) PROVE OldKeyStays'
  BY <1>17, Named DEF RenameTmp, Goto, keys, Inv, Typed, OldKeyStays, Making, Gets, Puts, Ended
<1>18. ASSUME NEW t \in Tasks, RenameThrows(t) PROVE OldKeyStays'
  BY <1>18, Named DEF RenameThrows, Goto, keys, files, Inv, Typed, OldKeyStays, Making, Gets, Puts, Ended
<1>19. ASSUME NEW p \in Procs, Crash(p) PROVE OldKeyStays'
  BY <1>19, Named DEF Crash, files, Inv, Typed, OldKeyStays, Making, Gets, Puts, Ended
<1>20. CASE UNCHANGED vars
  BY <1>20, Named DEF vars, keys, files, call, Inv, Typed, OldKeyStays, Making, Gets, Puts, Ended
<1> QED BY <1>1, <1>2, <1>3, <1>4, <1>5, <1>6, <1>7, <1>8, <1>9, <1>10, <1>11, <1>12, <1>13, <1>14, <1>15, <1>16, <1>17, <1>18, <1>19, <1>20 DEF Next, Advance, KeyStep

LEMMA EntriesStep ==
  ASSUME Inv, [Next]_vars
  PROVE  EntriesGenuine'
PROOF
<1>1. ASSUME NEW t \in Tasks, NEW i \in Integrities, Get(t, i) PROVE EntriesGenuine'
  <2>1. ASSUME NEW u \in Tasks, op'[u] = "get", pc'[u] \in Gets \cup {"verify"}
        PROVE  raw'[u] \in Entries /\ Genuine(raw[u])'
    <3>1. CASE u = t
      <4>1. raw'[u] = Content(i) /\ Content(i) \in Entries
        BY <1>1, <2>1, <3>1 DEF Get, Goto, Plausible, Inv, Typed, Gets
      <4>2. Genuine(Content(i))
        BY <4>1, ContentKnown
      <4> QED BY <4>1, <4>2, CallsStay, GenuineStays DEF Genuine
    <3>2. CASE u # t
      <4>1. raw'[u] = raw[u] /\ raw[u] \in Entries /\ Genuine(raw[u])
        BY <1>1, <2>1, <3>2 DEF Get, Goto, Call, Inv, Typed, EntriesGenuine
      <4> QED BY <4>1, CallsStay, GenuineStays DEF Genuine
    <3> QED BY <3>1, <3>2
  <2>2. ASSUME NEW u \in Tasks, inode'[u] \in Entries PROVE Genuine(inode[u])'
    <3>1. inode'[u] = inode[u]
      BY <1>1 DEF Get, files
    <3> QED BY <2>2, <3>1, CallsStay, GenuineStays DEF Inv, EntriesGenuine, Genuine
  <2> QED BY <2>1, <2>2 DEF EntriesGenuine
<1>2. ASSUME NEW t \in Tasks, NEW i \in Integrities, Put(t, i) PROVE EntriesGenuine'
  BY <1>2, CallsStay, GenuineStays, Named DEF Put, Goto, Call, keys, files, Inv, Typed, Begun, EntriesGenuine, Genuine, Gets, Puts, Ended
<1>3. ASSUME NEW t \in Tasks, KeyInMemory(t) PROVE EntriesGenuine'
  BY <1>3, CallsStay, GenuineStays, Named DEF KeyInMemory, Goto, AfterKey, keys, files, Inv, Typed, Begun, EntriesGenuine, Genuine, Gets, Puts, Ended
<1>4. ASSUME NEW t \in Tasks, KeyNotInMemory(t) PROVE EntriesGenuine'
  BY <1>4, CallsStay, GenuineStays, Named DEF KeyNotInMemory, Goto, keys, files, Inv, Typed, Begun, EntriesGenuine, Genuine, Gets, Puts, Ended
<1>5. ASSUME NEW t \in Tasks, ReadKey(t) PROVE EntriesGenuine'
  BY <1>5, CallsStay, GenuineStays, Named DEF ReadKey, Goto, UseKey, AfterKey, files, Inv, Typed, Begun, EntriesGenuine, Genuine, Gets, Puts, Ended
<1>6. ASSUME NEW t \in Tasks, ReadNoKey(t) PROVE EntriesGenuine'
  BY <1>6, CallsStay, GenuineStays, Named DEF ReadNoKey, Goto, keys, files, Inv, Typed, Begun, EntriesGenuine, Genuine, Gets, Puts, Ended
<1>7. ASSUME NEW t \in Tasks, TruncateKey(t) PROVE EntriesGenuine'
  BY <1>7, CallsStay, GenuineStays, Named DEF TruncateKey, Goto, files, Inv, Typed, Begun, EntriesGenuine, Genuine, Gets, Puts, Ended
<1>8. ASSUME NEW t \in Tasks, CreateKey(t) PROVE EntriesGenuine'
  BY <1>8, CallsStay, GenuineStays, Named DEF CreateKey, Goto, files, Inv, Typed, Begun, EntriesGenuine, Genuine, Gets, Puts, Ended
<1>9. ASSUME NEW t \in Tasks, KeyExists(t) PROVE EntriesGenuine'
  BY <1>9, CallsStay, GenuineStays, Named DEF KeyExists, Goto, keys, files, Inv, Typed, Begun, EntriesGenuine, Genuine, Gets, Puts, Ended
<1>10. ASSUME NEW t \in Tasks, FillKey(t) PROVE EntriesGenuine'
  BY <1>10, CallsStay, GenuineStays, Named DEF FillKey, Goto, files, Inv, Typed, Begun, EntriesGenuine, Genuine, Gets, Puts, Ended
<1>11. ASSUME NEW t \in Tasks, AdoptKey(t) PROVE EntriesGenuine'
  BY <1>11, CallsStay, GenuineStays, Named DEF AdoptKey, Goto, UseKey, AfterKey, files, Inv, Typed, Begun, EntriesGenuine, Genuine, Gets, Puts, Ended
<1>12. ASSUME NEW t \in Tasks, RereadKey(t) PROVE EntriesGenuine'
  BY <1>12, CallsStay, GenuineStays, Named DEF RereadKey, Goto, UseKey, AfterKey, files, Inv, Typed, Begun, EntriesGenuine, Genuine, Gets, Puts, Ended
<1>13. ASSUME NEW t \in Tasks, RereadThrows(t) PROVE EntriesGenuine'
  BY <1>13, CallsStay, GenuineStays, Named DEF RereadThrows, Goto, keys, files, Inv, Typed, Begun, EntriesGenuine, Genuine, Gets, Puts, Ended
<1>14. ASSUME NEW t \in Tasks, Verify(t) PROVE EntriesGenuine'
  BY <1>14, CallsStay, GenuineStays, Named DEF Verify, Goto, keys, files, Inv, Typed, Begun, EntriesGenuine, Genuine, Gets, Puts, Ended
<1>15. ASSUME NEW t \in Tasks, NEW ms \in Stamps, OpenTmp(t, ms) PROVE EntriesGenuine'
  <2>1. ASSUME NEW u \in Tasks, inode'[u] \in Entries PROVE Genuine(inode[u])'
    <3>1. inode'[u] \in {inode[u], Torn}
      BY <1>15 DEF OpenTmp, Inv, Typed
    <3> QED BY <2>1, <3>1, Named, CallsStay, GenuineStays DEF Inv, EntriesGenuine, Genuine
  <2>2. ASSUME NEW u \in Tasks, op'[u] = "get", pc'[u] \in Gets \cup {"verify"}
        PROVE  raw'[u] \in Entries /\ Genuine(raw[u])'
    <3>1. raw'[u] = raw[u] /\ raw[u] \in Entries /\ Genuine(raw[u])
      BY <1>15, <2>2 DEF OpenTmp, Goto, keys, Inv, Typed, EntriesGenuine, Gets
    <3> QED BY <3>1, CallsStay, GenuineStays DEF Genuine
  <2> QED BY <2>1, <2>2 DEF EntriesGenuine
<1>16. ASSUME NEW t \in Tasks, WriteTmp(t) PROVE EntriesGenuine'
  <2>1. ASSUME NEW u \in Tasks, inode'[u] \in Entries PROVE Genuine(inode[u])'
    <3>1. CASE inode'[u] = inode[u]
      BY <2>1, <3>1, CallsStay, GenuineStays DEF Inv, EntriesGenuine, Genuine
    <3>2. CASE inode'[u] # inode[u]
      <4>1. inode'[u] = Sealed(integrity[t], key[t], t)
        BY <1>16, <2>1, <3>2, Named DEF WriteTmp, Inv, Typed
      <4>2. integrity[t] \in Integrities /\ key[t] \in Keys /\ t \in Snapshots
        BY <1>16, Named DEF WriteTmp, Goto, Inv, Begun, KeysOurs, Ours, Puts, Keys
      <4>3. inode'[u].snapshot = t /\ inode'[u].integrity = integrity[t]
        BY <4>1, <4>2, SealedIsEntry
      <4>4. op'[t] = "put" /\ pc'[t] # "idle" /\ integrity'[t] = integrity[t]
        BY <1>16 DEF WriteTmp, Goto, Inv, Typed, Begun, Puts
      <4> QED BY <4>3, <4>4 DEF Genuine
    <3> QED BY <3>1, <3>2
  <2>2. ASSUME NEW u \in Tasks, op'[u] = "get", pc'[u] \in Gets \cup {"verify"}
        PROVE  raw'[u] \in Entries /\ Genuine(raw[u])'
    <3>1. raw'[u] = raw[u] /\ raw[u] \in Entries /\ Genuine(raw[u])
      BY <1>16, <2>2 DEF WriteTmp, Goto, keys, Inv, Typed, EntriesGenuine, Gets
    <3> QED BY <3>1, CallsStay, GenuineStays DEF Genuine
  <2> QED BY <2>1, <2>2 DEF EntriesGenuine
<1>17. ASSUME NEW t \in Tasks, RenameTmp(t) PROVE EntriesGenuine'
  BY <1>17, CallsStay, GenuineStays, Named DEF RenameTmp, Goto, keys, Inv, Typed, Begun, EntriesGenuine, Genuine, Gets, Puts, Ended
<1>18. ASSUME NEW t \in Tasks, RenameThrows(t) PROVE EntriesGenuine'
  BY <1>18, CallsStay, GenuineStays, Named DEF RenameThrows, Goto, keys, files, Inv, Typed, Begun, EntriesGenuine, Genuine, Gets, Puts, Ended
<1>19. ASSUME NEW p \in Procs, Crash(p) PROVE EntriesGenuine'
  BY <1>19, CallsStay, GenuineStays, Named DEF Crash, files, Inv, Typed, Begun, EntriesGenuine, Genuine, Gets, Puts, Ended
<1>20. CASE UNCHANGED vars
  BY <1>20, CallsStay, GenuineStays, Named DEF vars, keys, files, call, Inv, Typed, Begun, EntriesGenuine, Genuine, Gets, Puts, Ended
<1> QED BY <1>1, <1>2, <1>3, <1>4, <1>5, <1>6, <1>7, <1>8, <1>9, <1>10, <1>11, <1>12, <1>13, <1>14, <1>15, <1>16, <1>17, <1>18, <1>19, <1>20 DEF Next, Advance, KeyStep

LEMMA SoundStep ==
  ASSUME Inv, [Next]_vars
  PROVE  GetSound'
PROOF
<1>1. ASSUME NEW t \in Tasks, NEW i \in Integrities, Get(t, i) PROVE GetSound'
  BY <1>1, CallsStay, StoredStays DEF Get, Goto, Call, keys, files, Inv, Typed, Begun, GetSound, StoredUnder
<1>2. ASSUME NEW t \in Tasks, NEW i \in Integrities, Put(t, i) PROVE GetSound'
  BY <1>2, CallsStay, StoredStays DEF Put, Goto, Call, keys, files, Inv, Typed, Begun, GetSound, StoredUnder
<1>3. ASSUME NEW t \in Tasks, KeyInMemory(t) PROVE GetSound'
  BY <1>3, CallsStay, StoredStays DEF KeyInMemory, Goto, AfterKey, keys, files, Inv, Typed, Begun, GetSound, StoredUnder
<1>4. ASSUME NEW t \in Tasks, KeyNotInMemory(t) PROVE GetSound'
  BY <1>4, CallsStay, StoredStays DEF KeyNotInMemory, Goto, keys, files, Inv, Typed, Begun, GetSound, StoredUnder
<1>5. ASSUME NEW t \in Tasks, ReadKey(t) PROVE GetSound'
  BY <1>5, CallsStay, StoredStays DEF ReadKey, Goto, UseKey, AfterKey, files, Inv, Typed, Begun, GetSound, StoredUnder
<1>6. ASSUME NEW t \in Tasks, ReadNoKey(t) PROVE GetSound'
  BY <1>6, CallsStay, StoredStays DEF ReadNoKey, Goto, keys, files, Inv, Typed, Begun, GetSound, StoredUnder
<1>7. ASSUME NEW t \in Tasks, TruncateKey(t) PROVE GetSound'
  BY <1>7, CallsStay, StoredStays DEF TruncateKey, Goto, files, Inv, Typed, Begun, GetSound, StoredUnder
<1>8. ASSUME NEW t \in Tasks, CreateKey(t) PROVE GetSound'
  BY <1>8, CallsStay, StoredStays DEF CreateKey, Goto, files, Inv, Typed, Begun, GetSound, StoredUnder
<1>9. ASSUME NEW t \in Tasks, KeyExists(t) PROVE GetSound'
  BY <1>9, CallsStay, StoredStays DEF KeyExists, Goto, keys, files, Inv, Typed, Begun, GetSound, StoredUnder
<1>10. ASSUME NEW t \in Tasks, FillKey(t) PROVE GetSound'
  BY <1>10, CallsStay, StoredStays DEF FillKey, Goto, files, Inv, Typed, Begun, GetSound, StoredUnder
<1>11. ASSUME NEW t \in Tasks, AdoptKey(t) PROVE GetSound'
  BY <1>11, CallsStay, StoredStays DEF AdoptKey, Goto, UseKey, AfterKey, files, Inv, Typed, Begun, GetSound, StoredUnder
<1>12. ASSUME NEW t \in Tasks, RereadKey(t) PROVE GetSound'
  BY <1>12, CallsStay, StoredStays DEF RereadKey, Goto, UseKey, AfterKey, files, Inv, Typed, Begun, GetSound, StoredUnder
<1>13. ASSUME NEW t \in Tasks, RereadThrows(t) PROVE GetSound'
  BY <1>13, CallsStay, StoredStays DEF RereadThrows, Goto, keys, files, Inv, Typed, Begun, GetSound, StoredUnder
<1>14. ASSUME NEW t \in Tasks, Verify(t) PROVE GetSound'
  <2>1. ASSUME NEW u \in Tasks, result'[u] # None
        PROVE  StoredUnder(result[u], integrity[u])'
    <3>1. CASE u # t
      <4>1. result'[u] = result[u] /\ integrity'[u] = integrity[u] /\ StoredUnder(result[u], integrity[u])
        BY <1>14, <2>1, <3>1 DEF Verify, Inv, Typed, GetSound
      <4> QED BY <4>1, CallsStay, StoredStays DEF StoredUnder
    <3>2. CASE u = t
      <4> DEFINE e == raw[t]
      <4>1. /\ e = Sealed(integrity[t], key[t], e.snapshot) /\ result'[t] = e.snapshot
            /\ integrity'[t] = integrity[t]
        BY <1>14, <2>1, <3>2 DEF Verify, Inv, Typed
      <4>2. e \in Entries /\ Genuine(e)
        BY <1>14 DEF Verify, Goto, Inv, Begun, EntriesGenuine
      <4>3. e.integrity = integrity[t] /\ e.key = key[t]
        BY <4>1 DEF Sealed
      <4>4. Ours(key[t])
        BY <1>14 DEF Verify, Goto, Inv, KeysOurs
      <4>5. StoredUnder(e.snapshot, integrity[t])
        <5>1. CASE e.snapshot \in Tasks /\ op[e.snapshot] = "put" /\ integrity[e.snapshot] = e.integrity
          BY <4>3, <5>1 DEF StoredUnder
        <5>2. CASE \E j \in Integrities : planted[j] = e
          <6>1. e.key \notin Tasks
            BY <4>2, <5>2, KeysAreFresh DEF Inv, Typed
          <6>2. key[t] = OldKey /\ first = OldKey
            BY <4>3, <4>4, <6>1 DEF Ours
          <6> QED BY <4>1, <5>2, <6>2 DEF StoredUnder
        <5> QED BY <4>2, <5>1, <5>2 DEF Genuine
      <4> QED BY <3>2, <4>1, <4>5, CallsStay, StoredStays DEF StoredUnder
    <3> QED BY <3>1, <3>2
  <2> QED BY <2>1 DEF GetSound
<1>15. ASSUME NEW t \in Tasks, NEW ms \in Stamps, OpenTmp(t, ms) PROVE GetSound'
  BY <1>15, CallsStay, StoredStays DEF OpenTmp, Goto, keys, Inv, Typed, Begun, GetSound, StoredUnder
<1>16. ASSUME NEW t \in Tasks, WriteTmp(t) PROVE GetSound'
  BY <1>16, CallsStay, StoredStays DEF WriteTmp, Goto, keys, Inv, Typed, Begun, GetSound, StoredUnder
<1>17. ASSUME NEW t \in Tasks, RenameTmp(t) PROVE GetSound'
  BY <1>17, CallsStay, StoredStays DEF RenameTmp, Goto, keys, Inv, Typed, Begun, GetSound, StoredUnder
<1>18. ASSUME NEW t \in Tasks, RenameThrows(t) PROVE GetSound'
  BY <1>18, CallsStay, StoredStays DEF RenameThrows, Goto, keys, files, Inv, Typed, Begun, GetSound, StoredUnder
<1>19. ASSUME NEW p \in Procs, Crash(p) PROVE GetSound'
  BY <1>19, CallsStay, StoredStays DEF Crash, files, Inv, Typed, Begun, GetSound, StoredUnder
<1>20. CASE UNCHANGED vars
  BY <1>20, CallsStay, StoredStays DEF vars, keys, files, call, Inv, Typed, Begun, GetSound, StoredUnder
<1> QED BY <1>1, <1>2, <1>3, <1>4, <1>5, <1>6, <1>7, <1>8, <1>9, <1>10, <1>11, <1>12, <1>13, <1>14, <1>15, <1>16, <1>17, <1>18, <1>19, <1>20 DEF Next, Advance, KeyStep

LEMMA WholeStep ==
  ASSUME Inv, WholeEntries, TmpNamesDistinct, TmpNamesDistinct', [Next]_vars
  PROVE  WholeEntries'
PROOF
<1>1. ASSUME NEW t \in Tasks, NEW i \in Integrities, Get(t, i) PROVE WholeEntries'
  BY <1>1, Named DEF Get, Goto, Call, keys, files, WholeEntries, TmpName, Inv, Typed, Begun, Gets, Puts, Ended
<1>2. ASSUME NEW t \in Tasks, NEW i \in Integrities, Put(t, i) PROVE WholeEntries'
  BY <1>2, Named DEF Put, Goto, Call, keys, files, WholeEntries, TmpName, Inv, Typed, Begun, Gets, Puts, Ended
<1>3. ASSUME NEW t \in Tasks, KeyInMemory(t) PROVE WholeEntries'
  BY <1>3, Named DEF KeyInMemory, Goto, AfterKey, keys, files, WholeEntries, TmpName, Inv, Typed, Begun, Gets, Puts, Ended
<1>4. ASSUME NEW t \in Tasks, KeyNotInMemory(t) PROVE WholeEntries'
  BY <1>4, Named DEF KeyNotInMemory, Goto, keys, files, WholeEntries, TmpName, Inv, Typed, Begun, Gets, Puts, Ended
<1>5. ASSUME NEW t \in Tasks, ReadKey(t) PROVE WholeEntries'
  BY <1>5, Named DEF ReadKey, Goto, UseKey, AfterKey, files, WholeEntries, TmpName, Inv, Typed, Begun, Gets, Puts, Ended
<1>6. ASSUME NEW t \in Tasks, ReadNoKey(t) PROVE WholeEntries'
  BY <1>6, Named DEF ReadNoKey, Goto, keys, files, WholeEntries, TmpName, Inv, Typed, Begun, Gets, Puts, Ended
<1>7. ASSUME NEW t \in Tasks, TruncateKey(t) PROVE WholeEntries'
  BY <1>7, Named DEF TruncateKey, Goto, files, WholeEntries, TmpName, Inv, Typed, Begun, Gets, Puts, Ended
<1>8. ASSUME NEW t \in Tasks, CreateKey(t) PROVE WholeEntries'
  BY <1>8, Named DEF CreateKey, Goto, files, WholeEntries, TmpName, Inv, Typed, Begun, Gets, Puts, Ended
<1>9. ASSUME NEW t \in Tasks, KeyExists(t) PROVE WholeEntries'
  BY <1>9, Named DEF KeyExists, Goto, keys, files, WholeEntries, TmpName, Inv, Typed, Begun, Gets, Puts, Ended
<1>10. ASSUME NEW t \in Tasks, FillKey(t) PROVE WholeEntries'
  BY <1>10, Named DEF FillKey, Goto, files, WholeEntries, TmpName, Inv, Typed, Begun, Gets, Puts, Ended
<1>11. ASSUME NEW t \in Tasks, AdoptKey(t) PROVE WholeEntries'
  BY <1>11, Named DEF AdoptKey, Goto, UseKey, AfterKey, files, WholeEntries, TmpName, Inv, Typed, Begun, Gets, Puts, Ended
<1>12. ASSUME NEW t \in Tasks, RereadKey(t) PROVE WholeEntries'
  BY <1>12, Named DEF RereadKey, Goto, UseKey, AfterKey, files, WholeEntries, TmpName, Inv, Typed, Begun, Gets, Puts, Ended
<1>13. ASSUME NEW t \in Tasks, RereadThrows(t) PROVE WholeEntries'
  BY <1>13, Named DEF RereadThrows, Goto, keys, files, WholeEntries, TmpName, Inv, Typed, Begun, Gets, Puts, Ended
<1>14. ASSUME NEW t \in Tasks, Verify(t) PROVE WholeEntries'
  BY <1>14, Named DEF Verify, Goto, keys, files, WholeEntries, TmpName, Inv, Typed, Begun, Gets, Puts, Ended
<1>15. ASSUME NEW t \in Tasks, NEW ms \in Stamps, OpenTmp(t, ms) PROVE WholeEntries'
  <2> DEFINE n == TmpName(t, ms)
  <2>1. n \in TmpNames /\ pc[t] = "open" /\ fd[t] = None
    BY <1>15, NamesOfTemps DEF OpenTmp, Goto, Inv, Begun
  <2>2. fd'[t] = (IF tmpAt[n] = None THEN t ELSE tmpAt[n]) /\ stamp'[t] = ms /\ integrity'[t] = integrity[t]
    BY <1>15 DEF OpenTmp, Inv, Typed
  <2>3. tmpAt[n] = None
    <3> SUFFICES ASSUME tmpAt[n] # None PROVE FALSE
      OBVIOUS
    <3>1. PICK u \in Tasks : u = tmpAt[n] /\ fd[u] # None /\ TmpName(u, stamp[u]) = n
      BY <2>1 DEF WholeEntries, Inv, Typed
    <3>2. u # t /\ fd'[u] # None /\ fd'[t] # None
      BY <2>1, <2>2, <3>1, Named, TempsStay DEF TempsGoOn
    <3>3. TmpName(u, stamp[u])' = n /\ TmpName(t, stamp[t])' = n
      BY <2>2, <3>1, TempsStay DEF TempsGoOn, TmpName
    <3> QED BY <3>2, <3>3 DEF TmpNamesDistinct
  <2>4. /\ tmpAt' = [tmpAt EXCEPT ![n] = t] /\ inode' = [inode EXCEPT ![t] = Torn]
        /\ fd' = [fd EXCEPT ![t] = t] /\ entryAt' = entryAt
        /\ pc' = [pc EXCEPT ![t] = "write"] /\ stamp' = [stamp EXCEPT ![t] = ms] /\ integrity' = integrity
    BY <1>15, <2>3 DEF OpenTmp, Goto
  <2>5. TmpName(t, stamp[t])' = n
    BY <2>2 DEF TmpName
  <2> HIDE DEF n
  <2>6. \A u \in Tasks : fd'[u] # None => fd'[u] = u
    BY <2>4, Named DEF Inv, Typed, WholeEntries
  <2>7. ASSUME NEW m \in TmpNames, tmpAt'[m] # None
        PROVE  fd'[tmpAt'[m]] # None /\ TmpName(tmpAt[m], stamp[tmpAt[m]])' = m /\ pc'[tmpAt'[m]] # "done"
    <3>1. CASE m = n
      BY <2>1, <2>4, <2>5, <3>1, Named DEF Inv, Typed
    <3>2. CASE m # n
      <4>1. PICK u \in Tasks : u = tmpAt[m] /\ fd[u] # None /\ TmpName(u, stamp[u]) = m /\ pc[u] # "done"
        BY <2>4, <2>7, <3>2 DEF WholeEntries, Inv, Typed
      <4>2. u # t /\ tmpAt'[m] = u
        BY <2>1, <2>4, <3>2, <4>1 DEF Inv, Typed
      <4>3. TmpName(u, stamp[u])' = m
        BY <2>4, <4>1, <4>2 DEF TmpName, Inv, Typed
      <4> QED BY <2>4, <4>1, <4>2, <4>3 DEF Inv, Typed, TmpName
    <3> QED BY <3>1, <3>2
  <2>8. \A u \in Tasks : pc'[u] = "rename" => inode'[u] # Torn
    BY <2>1, <2>4 DEF Inv, Typed, WholeEntries
  <2>9. \A i \in Integrities : entryAt'[i] # None => inode'[entryAt'[i]] # Torn /\ pc'[entryAt'[i]] = "done"
    BY <2>1, <2>4 DEF Inv, Typed, WholeEntries
  <2> QED BY <2>6, <2>7, <2>8, <2>9 DEF WholeEntries
<1>16. ASSUME NEW t \in Tasks, WriteTmp(t) PROVE WholeEntries'
  <2>1. pc[t] = "write" /\ fd[t] = t
    BY <1>16, Named DEF WriteTmp, Goto, Inv, Begun, WholeEntries
  <2>2. ~SharesInode(t)
    BY <2>1, Named DEF SharesInode, WholeEntries
  <2>3. Sealed(integrity[t], key[t], t) \in Entries
    <3>1. integrity[t] \in Integrities /\ key[t] \in Keys /\ t \in Snapshots
      BY <2>1, Named DEF Inv, Begun, KeysOurs, Ours, Puts, Keys
    <3> QED BY <3>1, SealedIsEntry
  <2>4. inode'[t] # Torn /\ \A u \in Tasks \ {t} : inode'[u] = inode[u]
    BY <1>16, <2>1, <2>2, <2>3, Named DEF WriteTmp, Inv, Typed
  <2>5. /\ pc' = [pc EXCEPT ![t] = "rename"] /\ UNCHANGED <<fd, stamp, integrity, tmpAt, entryAt>>
    BY <1>16 DEF WriteTmp, Goto
  <2> QED BY <2>1, <2>4, <2>5 DEF WholeEntries, TmpName, Inv, Typed
<1>17. ASSUME NEW t \in Tasks, RenameTmp(t) PROVE WholeEntries'
  <2> DEFINE n == TmpName(t, stamp[t])
  <2>1. n \in TmpNames /\ pc[t] = "rename" /\ fd[t] # None
    BY <1>17, NamesOfTemps, Named DEF RenameTmp, Goto, Inv, Begun
  <2>2. tmpAt[n] = t
    <3>1. tmpAt[n] \in Tasks
      BY <1>17, <2>1 DEF RenameTmp, Inv, Typed
    <3>2. tmpAt[n] # None
      BY <3>1, Named
    <3>3. fd[tmpAt[n]] # None /\ TmpName(tmpAt[n], stamp[tmpAt[n]]) = n
      <4> HIDE DEF n
      <4> QED BY <2>1, <3>2 DEF WholeEntries
    <3> QED BY <2>1, <3>1, <3>3 DEF TmpNamesDistinct
  <2>3. /\ entryAt' = [entryAt EXCEPT ![integrity[t]] = t] /\ tmpAt' = [tmpAt EXCEPT ![n] = None]
        /\ pc' = [pc EXCEPT ![t] = "done"] /\ UNCHANGED <<fd, stamp, integrity, inode>>
    BY <1>17, <2>2 DEF RenameTmp, Goto
  <2> HIDE DEF n
  <2>4. ASSUME NEW m \in TmpNames, tmpAt'[m] # None
        PROVE  fd'[tmpAt'[m]] # None /\ TmpName(tmpAt[m], stamp[tmpAt[m]])' = m /\ pc'[tmpAt'[m]] # "done"
    <3>1. m # n /\ tmpAt'[m] = tmpAt[m]
      BY <2>1, <2>3, <2>4 DEF Inv, Typed
    <3>2. PICK u \in Tasks : u = tmpAt[m] /\ fd[u] # None /\ TmpName(u, stamp[u]) = m /\ pc[u] # "done"
      BY <2>4, <3>1 DEF WholeEntries, Inv, Typed
    <3>3. u # t
      BY <3>1, <3>2 DEF n
    <3> QED BY <2>3, <3>1, <3>2, <3>3 DEF Inv, Typed, TmpName
  <2>5. \A i \in Integrities : entryAt'[i] # None => inode'[entryAt'[i]] # Torn /\ pc'[entryAt'[i]] = "done"
    BY <2>1, <2>3 DEF Inv, Typed, WholeEntries
  <2>6. \A u \in Tasks : pc'[u] = "rename" => inode'[u] # Torn
    BY <2>3 DEF Inv, Typed, WholeEntries
  <2>7. \A u \in Tasks : fd'[u] # None => fd'[u] = u
    BY <2>3 DEF WholeEntries
  <2> QED BY <2>4, <2>5, <2>6, <2>7 DEF WholeEntries
<1>18. ASSUME NEW t \in Tasks, RenameThrows(t) PROVE WholeEntries'
  <2> DEFINE n == TmpName(t, stamp[t])
  <2>1. tmpAt[n] = None /\ pc[t] = "rename" /\ pc' = [pc EXCEPT ![t] = "done"]
        /\ UNCHANGED <<fd, stamp, integrity, tmpAt, entryAt, inode>>
    BY <1>18 DEF RenameThrows, Goto, files
  <2>2. \A m \in TmpNames : tmpAt[m] # None => tmpAt[m] # t
    BY <2>1 DEF WholeEntries
  <2> QED BY <2>1, <2>2 DEF WholeEntries, TmpName, Inv, Typed
<1>19. ASSUME NEW p \in Procs, Crash(p) PROVE WholeEntries'
  BY <1>19, Named DEF Crash, files, WholeEntries, TmpName, Inv, Typed, Begun, Gets, Puts, Ended
<1>20. CASE UNCHANGED vars
  BY <1>20, Named DEF vars, keys, files, call, WholeEntries, TmpName, Inv, Typed, Begun, Gets, Puts, Ended
<1> QED BY <1>1, <1>2, <1>3, <1>4, <1>5, <1>6, <1>7, <1>8, <1>9, <1>10, <1>11, <1>12, <1>13, <1>14, <1>15, <1>16, <1>17, <1>18, <1>19, <1>20 DEF Next, Advance, KeyStep

-----------------------------------------------------------------------------
LEMMA InitInv == Init => Inv
PROOF
<1> SUFFICES ASSUME Init PROVE Inv
  OBVIOUS
<1>1. Typed
  BY Named DEF Init, Typed
<1>2. Begun
  BY Named DEF Init, Begun, Gets, Puts
<1>3. KeysOurs
  BY Named DEF Init, KeysOurs, Ours, Puts
<1>4. OldKeyStays
  BY DEF Init, OldKeyStays, Making
<1>5. EntriesGenuine
  BY Named DEF Init, EntriesGenuine, Gets
<1>6. GetSound
  BY DEF Init, GetSound
<1>7. TempsWhole
  BY DEF Init, TempsWhole, WholeEntries
<1> QED BY <1>1, <1>2, <1>3, <1>4, <1>5, <1>6, <1>7 DEF Inv

LEMMA NextInv == Inv /\ [Next]_vars => Inv'
PROOF
<1> SUFFICES ASSUME Inv, [Next]_vars PROVE Inv'
  OBVIOUS
<1>1. Typed'
  BY TypedStep
<1>2. Begun'
  BY <1>1, BegunStep
<1>3. TempsWhole'
  <2> SUFFICES ASSUME TmpNamesDistinct' PROVE WholeEntries'
    BY DEF TempsWhole
  <2>1. TmpNamesDistinct
    BY TempsStay, DistinctBefore
  <2>2. WholeEntries
    BY <2>1 DEF Inv, TempsWhole
  <2> QED BY <2>1, <2>2, WholeStep
<1> QED BY <1>1, <1>2, <1>3, KeysOursStep, OldKeyStep, EntriesStep, SoundStep DEF Inv

LEMMA InvHolds == Spec => []Inv
BY InitInv, NextInv, PTL DEF Spec

-----------------------------------------------------------------------------
\* Every hit is a snapshot this install stored under the integrity asked for.
THEOREM HitsAreSound == Spec => []GetSound
<1>1. Inv => GetSound
  BY DEF Inv
<1> QED BY <1>1, InvHolds, PTL

\* A key that was complete at the start is never replaced, in the file or in
\* any process's memory.
THEOREM OldKeyIsKept == Spec => []EstablishedKeyKept
<1>1. Inv => EstablishedKeyKept
  BY DEF Inv, OldKeyStays, EstablishedKeyKept
<1> QED BY <1>1, InvHolds, PTL

\* No entry's name leads to a half-written file, in any crash or race, unless
\* two puts share a temp name.
THEOREM NamesLeadToWholeEntries == Spec => []NoTornEntry
<1>1. Inv => NoTornEntry
  BY DEF Inv, TempsWhole, WholeEntries, NoTornEntry
<1> QED BY <1>1, InvHolds, PTL
=============================================================================
