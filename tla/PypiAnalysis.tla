---------------------------- MODULE PypiAnalysis ----------------------------
(***************************************************************************)
(* The PyPI side of TarballAnalysis: fetchPypiArtifact,                    *)
(* extractPypiArtifact (packages/core/src/artifact-pypi.ts) and            *)
(* analyzePypi (packages/core/src/adapter-pypi.ts).                        *)
(*                                                                         *)
(* A wheel is read from memory, one entry after the other.  An sdist goes  *)
(* through a parser as an npm tarball does, but a file is put into its     *)
(* directory only when all its data is there, a file above its limit is    *)
(* written as far as it was read, and when the stream fails the directory  *)
(* is removed without waiting for what is under way.                       *)
(*                                                                         *)
(* A release is the list of its files with their entries.  Entries,        *)
(* contents and paths are those of TarballAnalysis; a content of form      *)
(* "metadata" also has its headers, one of form "toml" its sections.       *)
(***************************************************************************)
EXTENDS TarballAnalysis

CONSTANTS
    Releases,       \* [local, files]: a local artifact or what PyPI lists
    Dashed,         \* path segments with a dash in them
    InfoFile,       \* directory ending in .dist-info, .egg-info -> METADATA, PKG-INFO
    Requested,      \* [name, version] that was asked for
    EntryPointsIn,  \* content -> what analyzePyproject finds
    ScriptsIn       \* content -> what analyzeSetupPy finds

WheelTypes == {"File", "Directory", "SymbolicLink", "OtherMethod", "Encrypted"}
ASSUME ReleasesAssumption ==
    \A r \in Releases : \A f \in ToSet(r.files) :
        LET es == f.entries
        IN  /\ es \in Seq(ToSet(es))
            /\ \A i \in DOMAIN es :
                  /\ es[i].type = "File" => es[i].content.bytes \in Nat
                  /\ es[i].path # <<>> /\ es[i].path \in Seq(ToSet(es[i].path))
                  /\ f.packagetype = "bdist_wheel" => es[i].type \in WheelTypes

VARIABLES
    kind,           \* "npm", "pypi" until the artifact is chosen, "wheel" or "sdist"
    release,
    temp            \* the fetched artifact is on disk

pypiVars == <<kind, release, temp>>
allVars == <<tarballVars, pypiVars>>

NoRelease == [local |-> FALSE, files |-> <<>>]

PypiInit ==
    /\ kind = "pypi" /\ release \in Releases /\ temp = FALSE
    /\ archive = <<>> /\ next = 1 /\ stage = <<>>
    /\ disk = <<>> /\ dirs = {} /\ entries = <<>>
    /\ totalBytes = 0 /\ firstError = NoError /\ phase = "fetching" /\ snapshot = NoSnapshot

-----------------------------------------------------------------------------
(* The artifact.                                                           *)

\* A wheel for any platform first, then any wheel, then the sdist; of several
\* the first one.
Tier(f) == CASE f.packagetype = "bdist_wheel" -> (IF f.pure THEN 1 ELSE 2)
             [] f.packagetype = "sdist" -> 3
             [] OTHER -> 4
Candidates == {i \in DOMAIN release.files : Tier(release.files[i]) < 4}
IsPicked(i) ==
    LET tier(j) == Tier(release.files[j])
    IN  \A j \in Candidates : tier(i) < tier(j) \/ (tier(i) = tier(j) /\ i <= j)

FetchPypiArtifact ==
    /\ phase = "fetching"
    /\ \E i \in Candidates :
          LET pick == release.files[i]
          IN  /\ IsPicked(i)
              /\ kind' = IF pick.packagetype = "bdist_wheel" THEN "wheel" ELSE "sdist"
              /\ archive' = pick.entries
              /\ stage' = [k \in DOMAIN pick.entries |-> "none"]
    /\ temp' = TRUE /\ dirs' = {<<>>}
    /\ phase' = "parsing"
    /\ UNCHANGED <<release, next, disk, entries, totalBytes, firstError, snapshot>>

\* Nothing to choose from, an answer that is not OK, or a file that cannot be
\* written, in which case a part of it may stay.
FetchFails ==
    /\ phase = "fetching"
    /\ temp' \in {FALSE, Candidates # {}}
    /\ phase' = "rejected"
    /\ UNCHANGED <<kind, release, archive, next, stage, disk, dirs, entries, totalBytes, firstError, snapshot>>

\* The finally clause of analyzePypi: a local artifact's copy stays.
Unlinked == temp' = release.local

-----------------------------------------------------------------------------
(* Wheels.                                                                 *)
WheelRefusal(i) ==
    LET e == Entry(i)
        refusal == CASE i > maxEntries -> "entry-count-exceeded"
                     [] e.type = "SymbolicLink" -> "symlink"
                     [] e.absolute -> "absolute-path"
                     [] ".." \in ToSet(e.path) -> "traversal"
                     [] e.content.bytes > maxEntryBytes -> "entry-too-large"
                     [] e.type = "OtherMethod" -> "unknown-entry-type"
                     [] totalBytes + e.content.bytes > maxTotalBytes -> "total-too-large"
                     [] e.type = "Encrypted" -> "unknown-entry-type"
                     [] OTHER -> NoError
    IN  IF e.type = "Directory" /\ i <= maxEntries THEN NoError ELSE refusal

\* The next entry: skipped, refused, or inflated and written.
WheelEntry ==
    LET e == Entry(next)
    IN  /\ kind = "wheel" /\ phase = "parsing" /\ next <= Len(archive)
        /\ next' = next + 1
        /\ IF WheelRefusal(next) # NoError
           THEN /\ Raise(WheelRefusal(next)) /\ phase' = "failing"
                /\ UNCHANGED <<stage, disk, dirs, entries, totalBytes>>
           ELSE IF e.type = "Directory"
           THEN UNCHANGED <<stage, disk, dirs, entries, totalBytes, firstError, phase>>
           ELSE /\ Ancestors(Front(e.path)) \cap DOMAIN disk = {} /\ e.path \notin dirs
                /\ dirs' = dirs \cup Ancestors(Front(e.path))
                /\ AddFile(e.path, e.content)
                /\ stage' = [stage EXCEPT ![next] = "done"]
                /\ totalBytes' = totalBytes + e.content.bytes
                /\ UNCHANGED <<firstError, phase>>
        /\ UNCHANGED <<archive, snapshot, pypiVars>>

WheelEnds ==
    /\ kind = "wheel" /\ phase = "parsing" /\ next > Len(archive)
    /\ phase' = "extracted"
    /\ UNCHANGED <<archive, next, stage, disk, dirs, entries, totalBytes, firstError, snapshot, pypiVars>>

-----------------------------------------------------------------------------
(* Sdists.                                                                 *)

\* Everything lies under <name>-<version>/: a first segment with a dash goes.
SdistPath(i) ==
    LET p == Entry(i).path
    IN  IF Head(p) \in Dashed /\ (Len(p) > 1 \/ Entry(i).type = "Directory") THEN Tail(p) ELSE p

\* The directory everything lies under is left out before its path is looked at.
SdistRefusal(i) ==
    IF SdistPath(i) = <<>>
    THEN IF i > maxEntries THEN "entry-count-exceeded" ELSE NoError
    ELSE RefusalAt(i, SdistPath(i))

Arriving == \E i \in DOMAIN stage : Entry(i).type = "File" /\ stage[i] = "data"

SdistEntry ==
    /\ kind = "sdist" /\ phase = "parsing" /\ next <= Len(archive) /\ ~Arriving
    /\ next' = next + 1
    /\ IF firstError # NoError THEN UNCHANGED <<stage, firstError>>
       ELSE IF SdistRefusal(next) # NoError THEN Raise(SdistRefusal(next)) /\ UNCHANGED stage
       ELSE /\ stage' = [stage EXCEPT ![next] =
                  IF SdistPath(next) = <<>> THEN "done"
                  ELSE IF Entry(next).type = "Directory" THEN "mkdir" ELSE "data"]
            /\ UNCHANGED firstError
    /\ UNCHANGED <<archive, disk, dirs, entries, totalBytes, phase, snapshot, pypiVars>>

\* The data of a file.  One above its limit is an error, and no longer waited
\* for, but what was read of it goes its way.
SdistData(i) ==
    /\ kind = "sdist" /\ stage[i] = "data"
    /\ IF Entry(i).content.bytes > maxEntryBytes
       THEN stage' = [stage EXCEPT ![i] = "late"] /\ Raise("entry-too-large")
       ELSE stage' = [stage EXCEPT ![i] = "ended"] /\ UNCHANGED firstError
    /\ UNCHANGED <<archive, next, disk, dirs, entries, totalBytes, phase, snapshot, pypiVars>>

\* The 'end' event: too much in all is an error, and the file is not written.
SdistTotal(i) ==
    /\ kind = "sdist" /\ stage[i] = "ended"
    /\ totalBytes' = totalBytes + Entry(i).content.bytes
    /\ IF totalBytes' > maxTotalBytes
       THEN stage' = [stage EXCEPT ![i] = "failed"] /\ Raise("total-too-large")
       ELSE stage' = [stage EXCEPT ![i] = "mkdir"] /\ UNCHANGED firstError
    /\ UNCHANGED <<archive, next, disk, dirs, entries, phase, snapshot, pypiVars>>

\* mkdir makes the extraction directory again where it was removed.
SdistMakeDir(i) ==
    LET isFile == Entry(i).type = "File"
        dir == IF isFile THEN Front(SdistPath(i)) ELSE SdistPath(i)
    IN  /\ kind = "sdist" /\ stage[i] = "mkdir"
        /\ Ancestors(dir) \cap DOMAIN disk = {}
        /\ dirs' = dirs \cup Ancestors(dir)
        /\ stage' = [stage EXCEPT ![i] = IF isFile THEN "write" ELSE "done"]
        /\ UNCHANGED <<archive, next, disk, entries, totalBytes, firstError, phase, snapshot, pypiVars>>

SdistWrite(i) ==
    LET path == SdistPath(i)
    IN  /\ kind = "sdist" /\ stage[i] = "write"
        /\ Front(path) \in dirs /\ path \notin dirs
        /\ AddFile(path, Entry(i).content)
        /\ stage' = [stage EXCEPT ![i] = "done"]
        /\ UNCHANGED <<archive, next, dirs, totalBytes, firstError, phase, snapshot, pypiVars>>

SdistJobFails(i) ==
    /\ kind = "sdist" /\ stage[i] \in {"mkdir", "write"}
    /\ stage' = [stage EXCEPT ![i] = "failed"]
    /\ Raise("io")
    /\ UNCHANGED <<archive, next, disk, dirs, entries, totalBytes, phase, snapshot, pypiVars>>

\* The part of a file above its limit, written at any time.
CutShort(content) == [content EXCEPT !.form = "cut", !.bytes = maxEntryBytes]
LateWrite(i) ==
    LET path == SdistPath(i)
    IN  /\ kind = "sdist" /\ stage[i] = "late"
        /\ Ancestors(Front(path)) \cap DOMAIN disk = {} /\ path \notin dirs
        /\ dirs' = dirs \cup Ancestors(Front(path))
        /\ AddFile(path, CutShort(Entry(i).content))
        /\ stage' = [stage EXCEPT ![i] = "done"]
        /\ UNCHANGED <<archive, next, totalBytes, firstError, phase, snapshot, pypiVars>>

SdistStreamEnds ==
    /\ kind = "sdist" /\ phase = "parsing" /\ next > Len(archive) /\ ~Arriving /\ firstError = NoError
    /\ phase' = "settling"
    /\ UNCHANGED <<archive, next, stage, disk, dirs, entries, totalBytes, firstError, snapshot, pypiVars>>

SdistSettled == kind = "sdist" /\ Settled /\ UNCHANGED pypiVars

-----------------------------------------------------------------------------
(* Failure, for an error raised here, a damaged archive or a write that is *)
(* impossible, and the removal that follows at once.                       *)
PypiFails ==
    /\ kind \in {"wheel", "sdist"} /\ phase = "parsing"
    /\ phase' = "failing"
    /\ UNCHANGED <<archive, next, stage, disk, dirs, entries, totalBytes, firstError, snapshot, pypiVars>>

PypiAbandon ==
    /\ kind \in {"wheel", "sdist"} /\ phase = "failing"
    /\ disk' = <<>> /\ dirs' = {} /\ Unlinked
    /\ phase' = "rejected"
    /\ UNCHANGED <<archive, next, stage, entries, totalBytes, firstError, snapshot, kind, release>>

-----------------------------------------------------------------------------
(* Reading what was extracted.                                             *)
PypiBinaryKinds == [e \in {"so", "dylib", "dll", "exe", "wasm", "bin"} |-> e] @@ ("pyd" :> "dll")
IsPythonSource(rel) == Extension(rel) \in {"py", "pyi", "pyx"}

\* parseRfc822Metadata: the headers before the first empty line; it throws if
\* the name or the version is there twice.
ParsesAsMetadata(content) ==
    \A key \in {"Name", "Version"} : Cardinality({i \in DOMAIN content.headers : content.headers[i].key = key}) <= 1
Valued(content, keys) == SelectSeq(content.headers, LAMBDA h : h.key \in keys)
Field(content, key, otherwise) ==
    LET found == Valued(content, {key}) IN IF found = <<>> THEN otherwise ELSE Last(found).value
MetadataOf(content) ==
    [name |-> Field(content, "Name", Requested.name),
     version |-> Field(content, "Version", Requested.version),
     dependencies |-> FoldLeft(LAMBDA deps, h : (h.value[1] :> h.value[2]) @@ deps, <<>>, Valued(content, {"Requires-Dist"})),
     maintainers |-> Valued(content, {"Author", "Maintainer", "Author-email", "Maintainer-email"})]
NoMetadata == [name |-> Requested.name, version |-> Requested.version, dependencies |-> <<>>, maintainers |-> <<>>]

\* buildPypiManifest.  Metadata is that of an info directory, of whichever one
\* is listed last, else that of the two files in this order, if it can be read
\* and parsed at all; pyproject.toml and setup.py add to it.
MetadataAt(d, paths) == {MetadataOf(d[p]) : p \in {q \in paths \cap DOMAIN d : ParsesAsMetadata(d[q])}}
MetadataFound(d) ==
    LET inInfo == MetadataAt(d, {<<n, InfoFile[n]>> : n \in DOMAIN InfoFile})
        wheelStyle == MetadataAt(d, {<<"METADATA">>})
        sdistStyle == MetadataAt(d, {<<"PKG-INFO">>})
    IN  CASE inInfo # {} -> inInfo
          [] inInfo = {} /\ wheelStyle # {} -> wheelStyle
          [] inInfo = {} /\ wheelStyle = {} /\ sdistStyle # {} -> sdistStyle
          [] OTHER -> {NoMetadata}
PypiManifests(d) ==
    {[name |-> m.name, version |-> m.version, dependencies |-> m.dependencies, maintainers |-> m.maintainers,
      entryPoints |-> UNION {EntryPointsIn[d[p]] : p \in {<<"pyproject.toml">>} \cap DOMAIN d},
      scripts |-> UNION {ScriptsIn[d[p]] : p \in {<<"setup.py">>} \cap DOMAIN d}] : m \in MetadataFound(d)}

NotRead == [parsed |-> FALSE, found |-> {}]
PypiSnapshotOf(d, listed, manifest, unread) ==
    LET native == {k \in DOMAIN listed : Extension(listed[k].relPath) \in DOMAIN PypiBinaryKinds}
        python == {k \in DOMAIN listed : IsPythonSource(listed[k].relPath)}
        Capable(e) == IF e.relPath \in unread THEN NotRead
                      ELSE CapabilitiesIn[<<Last(e.relPath), d[e.relPath]>>]
    IN  [manifest |-> manifest,
         files |-> [k \in python |->
                       [path |-> listed[k].relPath, sha256 |-> listed[k].sha256, capabilities |-> Capable(listed[k])]],
         nativeArtifacts |-> [k \in native |->
                       [path |-> listed[k].relPath, sha256 |-> listed[k].sha256,
                        kind |-> PypiBinaryKinds[Extension(listed[k].relPath)]]],
         bundledLifecycle |-> <<>>]

\* analyzePypiArtifactFile: a file that cannot be read is recorded as such.
PypiAnalyze ==
    /\ kind \in {"wheel", "sdist"} /\ phase = "extracted"
    /\ \E manifest \in PypiManifests(disk), unread \in SUBSET {p \in DOMAIN disk : IsPythonSource(p)} :
          snapshot' = PypiSnapshotOf(disk, entries, manifest, unread)
    /\ phase' = "analyzed"
    /\ UNCHANGED <<archive, next, stage, disk, dirs, entries, totalBytes, firstError, pypiVars>>

PypiCleanup ==
    /\ kind \in {"wheel", "sdist"} /\ phase = "analyzed"
    /\ disk' = <<>> /\ dirs' = {} /\ Unlinked
    /\ phase' = "returned"
    /\ UNCHANGED <<archive, next, stage, entries, totalBytes, firstError, snapshot, kind, release>>

PypiNext ==
    \/ FetchPypiArtifact \/ FetchFails
    \/ WheelEntry \/ WheelEnds
    \/ SdistEntry \/ SdistStreamEnds \/ SdistSettled
    \/ \E i \in DOMAIN archive :
          \/ SdistData(i) \/ SdistTotal(i) \/ SdistMakeDir(i)
          \/ SdistWrite(i) \/ SdistJobFails(i) \/ LateWrite(i)
    \/ PypiFails \/ PypiAbandon
    \/ PypiAnalyze \/ PypiCleanup

\* Either kind of package.
AnalysisInit ==
    \/ TarballInit /\ kind = "npm" /\ release = NoRelease /\ temp = FALSE
    \/ PypiInit
AnalysisNext ==
    \/ kind = "npm" /\ TarballNext /\ UNCHANGED pypiVars
    \/ kind # "npm" /\ PypiNext
AnalysisSpec == AnalysisInit /\ [][AnalysisNext]_allVars
=============================================================================
