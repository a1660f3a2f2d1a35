-------------------------- MODULE TarballAnalysis --------------------------
(***************************************************************************)
(* From a tarball at rest to a snapshot: safeExtract                       *)
(* (packages/core/src/extract.ts) and analyzeTarball                       *)
(* (packages/core/src/analyze.ts).                                         *)
(*                                                                         *)
(* The parser hands over one entry after another, the next one when the    *)
(* data of the last has been taken.  Every file is then written on its own *)
(* time, so several writes are under way while entries still arrive, and   *)
(* any of them may fail.  The first error stands; what is under way is     *)
(* waited for before the directory is read or removed.                     *)
(*                                                                         *)
(* An archive is a sequence of entries [type, absolute, path, content] and *)
(* a path a sequence of segments.  A content is a record with its form,    *)
(* bytes and manifest: its form is "json" if it is a package manifest and  *)
(* "null" if it is the JSON text null; module Capabilities says what else  *)
(* it holds.  Its hash is the content itself.  The removal of the          *)
(* directory always succeeds here: the code ignores a removal that fails   *)
(* and leaves the directory.                                               *)
(***************************************************************************)
EXTENDS Integers, Sequences, FiniteSets, TLC, SequencesExt

CONSTANTS
    Archives,         \* the archives a run may start from
    maxEntries, maxEntryBytes, maxTotalBytes,  \* limits of an extraction
    CapabilitiesIn,   \* <<file name, content>> -> what extractCapabilities finds
    ExtensionOf,      \* file name -> extension
    Scopes            \* path segments that start with @

ASSUME ArchivesAssumption ==
    /\ maxEntries \in Nat /\ maxEntryBytes \in Nat /\ maxTotalBytes \in Nat
    /\ \A a \in Archives :
          /\ a \in Seq(ToSet(a))
          /\ \A i \in DOMAIN a : a[i].type = "File" => a[i].content.bytes \in Nat

VARIABLES archive, next, stage, disk, dirs, entries, totalBytes, firstError, phase, snapshot
tarballVars ==
    <<archive, next, stage, disk, dirs, entries, totalBytes, firstError, phase, snapshot>>

Entry(i) == archive[i]
\* The path inside the directory: npm puts everything under package/.  The
\* path of a directory ends in a slash, so package/ itself goes too.
RelPath(i) ==
    LET p == Entry(i).path
    IN  IF Head(p) = "package" /\ (Len(p) > 1 \/ Entry(i).type = "Directory") THEN Tail(p) ELSE p

InFlight == {i \in DOMAIN stage : stage[i] \in {"mkdir", "data", "ended", "write"}}
\* The parser holds back the next entry while one still has data to give.
Collecting ==
    \E i \in DOMAIN stage : Entry(i).type = "File" /\ stage[i] \in {"mkdir", "data"}

NoError == "none"
NoSnapshot == <<>>

TarballInit ==
    /\ archive \in Archives
    /\ next = 1
    /\ stage = [i \in DOMAIN archive |-> "none"]
    /\ disk = <<>>
    /\ dirs = {<<>>}
    /\ entries = <<>>
    /\ totalBytes = 0
    /\ firstError = NoError
    /\ phase = "parsing"
    /\ snapshot = NoSnapshot

\* raiseError: the first error is the one that is thrown.
Raise(e) == firstError' = IF firstError = NoError THEN e ELSE firstError

-----------------------------------------------------------------------------
(* Entries.                                                                *)

\* What is wrong with an entry that goes to a path, by the first check that
\* finds something.
RefusalAt(i, path) ==
    CASE i > maxEntries -> "entry-count-exceeded"
      [] Entry(i).type = "SymbolicLink" -> "symlink"
      [] Entry(i).type = "Link" -> "hardlink"
      [] Entry(i).type \notin {"File", "Directory"} -> "unknown-entry-type"
      [] Entry(i).absolute -> "absolute-path"
      [] ".." \in ToSet(path) -> "traversal"
      [] OTHER -> NoError
Refusal(i) == RefusalAt(i, RelPath(i))

\* After the stream has failed the entries already received still come, as
\* long as something is waited for.
OnEntry ==
    /\ phase = "parsing" \/ (phase = "failing" /\ InFlight # {})
    /\ next <= Len(archive) /\ ~Collecting
    /\ next' = next + 1
    /\ IF firstError # NoError THEN UNCHANGED <<stage, firstError>>
       ELSE IF Refusal(next) # NoError THEN Raise(Refusal(next)) /\ UNCHANGED stage
       ELSE stage' = [stage EXCEPT ![next] = "mkdir"] /\ UNCHANGED firstError
    /\ UNCHANGED <<archive, disk, dirs, entries, totalBytes, phase, snapshot>>

\* A directory and the ones it is in.
Ancestors(p) == {SubSeq(p, 1, l) : l \in 0..Len(p)}

\* fs.mkdir(..., {recursive: true}) of an entry's directory, or of the one a
\* file goes into; a file of that name is in the way.
MakeDir(i) ==
    LET isFile == Entry(i).type = "File"
        dir == IF isFile THEN Front(RelPath(i)) ELSE RelPath(i)
    IN  /\ stage[i] = "mkdir"
        /\ Ancestors(dir) \cap DOMAIN disk = {}
        /\ dirs' = dirs \cup Ancestors(dir)
        /\ stage' = [stage EXCEPT ![i] = IF isFile THEN "data" ELSE "done"]
        /\ UNCHANGED <<archive, next, disk, entries, totalBytes, firstError, phase, snapshot>>

\* The data of an entry, up to its limit.
CollectData(i) ==
    /\ stage[i] = "data"
    /\ IF Entry(i).content.bytes > maxEntryBytes
       THEN stage' = [stage EXCEPT ![i] = "failed"] /\ Raise("entry-too-large")
       ELSE stage' = [stage EXCEPT ![i] = "ended"] /\ UNCHANGED firstError
    /\ UNCHANGED <<archive, next, disk, dirs, entries, totalBytes, phase, snapshot>>

\* addTotal: too much in all is an error, but this file is written all the same.
AddTotal(i) ==
    /\ stage[i] = "ended"
    /\ totalBytes' = totalBytes + Entry(i).content.bytes
    /\ stage' = [stage EXCEPT ![i] = "write"]
    /\ IF totalBytes' > maxTotalBytes THEN Raise("total-too-large") ELSE UNCHANGED firstError
    /\ UNCHANGED <<archive, next, disk, dirs, entries, phase, snapshot>>

\* fs.writeFile, then addEntry.
AddFile(path, content) ==
    /\ disk' = [p \in {path} \cup DOMAIN disk |-> IF p = path THEN content ELSE disk[p]]
    /\ entries' = Append(entries, [relPath |-> path, sha256 |-> content])
WriteFile(i) ==
    /\ stage[i] = "write" /\ RelPath(i) \notin dirs
    /\ AddFile(RelPath(i), Entry(i).content)
    /\ stage' = [stage EXCEPT ![i] = "done"]
    /\ UNCHANGED <<archive, next, dirs, totalBytes, firstError, phase, snapshot>>

\* A directory or a file that cannot be made, for what is in its way or for any
\* other reason.
JobFails(i) ==
    /\ stage[i] \in {"mkdir", "write"}
    /\ stage' = [stage EXCEPT ![i] = "failed"]
    /\ Raise("io")
    /\ UNCHANGED <<archive, next, disk, dirs, entries, totalBytes, phase, snapshot>>

-----------------------------------------------------------------------------
(* The stream and the extraction as a whole.                               *)

\* pipeline() resolves: every entry was handed over and taken.
StreamEnds ==
    /\ phase = "parsing" /\ next > Len(archive) /\ ~Collecting /\ firstError = NoError
    /\ phase' = "settling"
    /\ UNCHANGED <<archive, next, stage, disk, dirs, entries, totalBytes, firstError, snapshot>>

\* It rejects: for an error raised here, or because the archive is damaged.
StreamFails ==
    /\ phase = "parsing"
    /\ phase' = "failing"
    /\ UNCHANGED <<archive, next, stage, disk, dirs, entries, totalBytes, firstError, snapshot>>

\* Variant: the writes under way are not waited for.
SettledAtOnce ==
    /\ phase = "settling"
    /\ phase' = IF firstError # NoError THEN "failing" ELSE "extracted"
    /\ UNCHANGED <<archive, next, stage, disk, dirs, entries, totalBytes, firstError, snapshot>>

\* settleAll, then throw what went wrong in the meantime or go on.
Settled ==
    /\ phase = "settling" /\ InFlight = {}
    /\ phase' = IF firstError # NoError THEN "failing" ELSE "extracted"
    /\ UNCHANGED <<archive, next, stage, disk, dirs, entries, totalBytes, firstError, snapshot>>

\* settleAll and removeDir in the catch clause.
Abandon ==
    /\ phase = "failing" /\ InFlight = {}
    /\ disk' = <<>> /\ dirs' = {}
    /\ phase' = "rejected"
    /\ UNCHANGED <<archive, next, stage, entries, totalBytes, firstError, snapshot>>

-----------------------------------------------------------------------------
(* Reading what was extracted.                                             *)
NativeKinds == {"node", "so", "dylib", "dll", "exe", "wasm", "bin"}
SourceExtensions == {"js", "mjs", "cjs", "jsx", "ts", "tsx", "json"}
LIFECYCLE_HOOKS == {"preinstall", "install", "postinstall", "prepare", "preprepare", "postprepare",
                    "prepublish", "prepublishOnly", "publish", "postpublish", "prepack", "pack", "postpack"}

Extension(rel) == IF Last(rel) \in DOMAIN ExtensionOf THEN ExtensionOf[Last(rel)] ELSE ""

NoManifest == [name |-> "unknown", version |-> "0.0.0", bundled |-> {}, scripts |-> {}]

\* readManifest on a directory: no manifest where the file is missing or is
\* not JSON.
ManifestAt(d, path) ==
    IF path \in DOMAIN d /\ d[path].form = "json" THEN d[path].manifest ELSE NoManifest
InnerManifest(name) == <<"node_modules">> \o name \o <<"package.json">>

\* bundledDepNameForPath and isNestedBundled: the file of a declared bundled
\* dependency that is not one of that dependency's own dependencies.
IsBundled(rel, bundled) ==
    LET width == IF rel[2] \in Scopes THEN 2 ELSE 1
        rest == SubSeq(rel, width + 2, Len(rel))
    IN  /\ Len(rel) > width
        /\ SubSeq(rel, 2, width + 1) \in bundled
        /\ ~(Len(rest) > 1 /\ Head(rest) = "node_modules")

InNodeModules(rel) == Head(rel) = "node_modules" /\ Len(rel) > 1

\* The files whose capabilities are recorded.
IsAnalyzed(rel, bundled) ==
    /\ Extension(rel) \in SourceExtensions
    /\ InNodeModules(rel) => IsBundled(rel, bundled)

FileCapabilities(rel, content) ==
    [path |-> rel, sha256 |-> content, capabilities |-> CapabilitiesIn[<<Last(rel), content>>]]

\* The install scripts of bundled packages, for those that have any.
BundledLifecycle(d, bundled) ==
    LET Hooks(name) == ManifestAt(d, InnerManifest(name)).scripts \cap LIFECYCLE_HOOKS
    IN  [name \in {b \in bundled : Hooks(b) # {}} |-> Hooks(name)]

\* Files and binaries are numbered as their entries are.
SnapshotOf(d, listed) ==
    LET manifest == ManifestAt(d, <<"package.json">>)
    IN  [manifest |-> manifest,
         files |-> [k \in {j \in DOMAIN listed : IsAnalyzed(listed[j].relPath, manifest.bundled)} |->
                       [FileCapabilities(listed[k].relPath, d[listed[k].relPath])
                            EXCEPT !.sha256 = listed[k].sha256]],
         nativeArtifacts |-> [k \in {j \in DOMAIN listed : Extension(listed[j].relPath) \in NativeKinds} |->
                       [path |-> listed[k].relPath, sha256 |-> listed[k].sha256,
                        kind |-> Extension(listed[k].relPath)]],
         bundledLifecycle |-> BundledLifecycle(d, manifest.bundled)]

\* A manifest that is JSON null makes the analysis throw.
HasNullManifest ==
    LET paths == {<<"package.json">>}
                 \cup {InnerManifest(b) : b \in ManifestAt(disk, <<"package.json">>).bundled}
    IN  \E p \in paths \cap DOMAIN disk : disk[p].form = "null"

Analyze ==
    /\ phase = "extracted" /\ ~HasNullManifest
    /\ snapshot' = SnapshotOf(disk, entries)
    /\ phase' = "analyzed"
    /\ UNCHANGED <<archive, next, stage, disk, dirs, entries, totalBytes, firstError>>

\* A manifest of null, or a file that cannot be read.
AnalysisThrows ==
    /\ phase = "extracted"
    /\ phase' = "threw"
    /\ UNCHANGED <<archive, next, stage, disk, dirs, entries, totalBytes, firstError, snapshot>>

\* The finally clause.
Cleanup ==
    /\ phase \in {"analyzed", "threw"}
    /\ disk' = <<>> /\ dirs' = {}
    /\ phase' = IF phase = "analyzed" THEN "returned" ELSE "rejected"
    /\ UNCHANGED <<archive, next, stage, entries, totalBytes, firstError, snapshot>>

TarballNext ==
    \/ OnEntry
    \/ \E i \in DOMAIN archive : MakeDir(i) \/ CollectData(i) \/ AddTotal(i) \/ WriteFile(i) \/ JobFails(i)
    \/ StreamEnds \/ StreamFails \/ Settled \/ Abandon
    \/ Analyze \/ AnalysisThrows \/ Cleanup

TarballSpec == TarballInit /\ [][TarballNext]_tarballVars

-----------------------------------------------------------------------------
(* What a snapshot holds of its archive, whose entries go to these paths.  *)

FileEntries == {i \in DOMAIN archive : Entry(i).type = "File"}
OnePathEach(paths) == \A i, j \in FileEntries : paths[i] = paths[j] => i = j
ArchivedFiles(paths) ==
    [p \in {paths[i] : i \in FileEntries} |-> Entry(CHOOSE i \in FileEntries : paths[i] = p).content]

\* A byte is counted by its file and its place in it.
BytesOf(S) == UNION {{i} \X (1..Entry(i).content.bytes) : i \in S}
WithinLimits ==
    /\ Len(archive) <= maxEntries
    /\ \A i \in FileEntries : Entry(i).content.bytes <= maxEntryBytes
    /\ Cardinality(BytesOf(FileEntries)) <= maxTotalBytes

\* Each file and each binary once, under its own hash.
RecordedOnce(archived, analyzed, native) ==
    /\ Cardinality(DOMAIN snapshot.files) = Cardinality(analyzed)
    /\ {<<f.path, f.sha256>> : f \in ToSet(snapshot.files)} = {<<p, archived[p]>> : p \in analyzed}
    /\ Cardinality(DOMAIN snapshot.nativeArtifacts) = Cardinality(native)
    /\ {<<a.path, a.sha256>> : a \in ToSet(snapshot.nativeArtifacts)} = {<<p, archived[p]>> : p \in native}

RelPaths == [i \in DOMAIN archive |-> RelPath(i)]

TarballSnapshotMatches ==
    LET archived == ArchivedFiles(RelPaths)
        manifest == ManifestAt(archived, <<"package.json">>)
        analyzed == {p \in DOMAIN archived : IsAnalyzed(p, manifest.bundled)}
        native == {p \in DOMAIN archived : Extension(p) \in NativeKinds}
    IN  /\ snapshot.manifest = manifest
        /\ snapshot.bundledLifecycle = BundledLifecycle(archived, manifest.bundled)
        /\ RecordedOnce(archived, analyzed, native)
        /\ ToSet(snapshot.files) = {FileCapabilities(p, archived[p]) : p \in analyzed}

\* A returned snapshot covers its tarball: no entry of it is one that is
\* refused, it is within every limit, and each file and binary is recorded
\* once, with what its own content holds.  However the run ends nothing of it
\* is left on disk or under way (extract.ts safeExtract, analyze.ts
\* analyzeTarball: writes run on their own time and may fail after the last
\* entry was read).
TarballIsCovered ==
    /\ phase \in {"returned", "rejected"} => disk = <<>> /\ dirs = {} /\ InFlight = {}
    /\ phase = "returned" => WithinLimits /\ \A i \in DOMAIN archive : Refusal(i) = NoError
    /\ phase = "returned" /\ OnePathEach(RelPaths) => TarballSnapshotMatches
=============================================================================
