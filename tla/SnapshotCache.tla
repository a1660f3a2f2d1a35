---------------------------- MODULE SnapshotCache ----------------------------
(***************************************************************************)
(* The snapshot cache of packages/core/src/cache.ts: several processes,    *)
(* each with several get and put calls under way, share one key file and   *)
(* one entry file per integrity string.  Every await of the code is a      *)
(* point where the others run.                                             *)
(*                                                                         *)
(* A call is a task that runs once.  randomBytes gives each task its own   *)
(* key and put stores the snapshot its task brings, so a key and a         *)
(* snapshot are named by their task.  A MAC is the pair of key and data    *)
(* it was computed from.  A file that is open for writing is an inode,     *)
(* named by the task that created it; rename moves the inode, whoever      *)
(* still writes to it.                                                     *)
(***************************************************************************)
EXTENDS Integers, FiniteSets

CONSTANTS
  Tasks,          \* calls of get and put
  Procs,
  ProcOf,         \* the process, and so the cache object, of each task
  Integrities,
  Stamps,         \* values of Date.now() in temp file names
  OldKey,         \* the key of an earlier run
  OtherKey,       \* a key of another install
  OldSnap,        \* a snapshot stored by an earlier run
  InitialEntries, \* what may lie under an entry's name at the start
  Torn,           \* what a half-written file holds
  None

Keys      == Tasks \cup {OldKey, OtherKey}
Snapshots == Tasks \cup {OldSnap}
Entries   == [integrity : Integrities, key : Keys, snapshot : Snapshots]
Contents  == Entries \cup {Torn}

\* Sealed by put: integrity and snapshot under the key of this install.
Sealed(i, k, s) == [integrity |-> i, key |-> k, snapshot |-> s]

ASSUME TasksAssumption ==
  /\ ProcOf \in [Tasks -> Procs]
  /\ {OldKey, OtherKey, None, OldSnap} \cap Tasks = {} /\ OldKey # OtherKey
  /\ None \notin Integrities \cup Snapshots \cup Keys \cup {"get", "put"}
  /\ {"absent", "short"} \cap Keys = {} /\ {Torn, None} \cap Entries = {}
  /\ \A e \in InitialEntries : e \in [Integrities -> Contents \cup {None}]

\* Keys are random: nothing was sealed under one before it was made.
ASSUME KeysAreFresh ==
  \A e \in InitialEntries, i \in Integrities : e[i] \in Entries => e[i].key \notin Tasks

VARIABLES
  keyFile,   \* "absent", "short" (fewer than 32 bytes), or a key
  memKey,    \* hmacKey of each process's cache object
  first,     \* the key file at the start
  pc, op, integrity, stamp,
  raw,       \* the entry a get has read
  key,       \* what getHmacKey returned to the task
  fd,        \* the inode a put writes to
  result,    \* what a get returned
  inode,     \* content of each inode, by its creator
  tmpAt,     \* temp file name -> inode
  entryAt,   \* entry file name -> inode
  planted    \* entry file name -> content no task of this run wrote

call  == <<pc, op, integrity, stamp, raw, key, fd, result>>
keys  == <<keyFile, memKey, first>>
files == <<inode, tmpAt, entryAt, planted>>
vars  == <<keys, call, files>>

TmpName(t, ms) == <<ProcOf[t], integrity[t], ms>>
TmpNames   == Procs \X Integrities \X Stamps

Init ==
  /\ keyFile \in {"absent", "short", OldKey} /\ first = keyFile
  /\ memKey = [p \in Procs |-> None]
  /\ pc = [t \in Tasks |-> "idle"] /\ op = [t \in Tasks |-> None]
  /\ integrity = [t \in Tasks |-> None] /\ stamp = [t \in Tasks |-> None]
  /\ raw = [t \in Tasks |-> None] /\ key = [t \in Tasks |-> None]
  /\ fd = [t \in Tasks |-> None] /\ result = [t \in Tasks |-> None]
  /\ inode = [t \in Tasks |-> None]
  /\ tmpAt = [n \in TmpNames |-> None] /\ entryAt = [i \in Integrities |-> None]
  /\ planted \in InitialEntries

-----------------------------------------------------------------------------
Goto(t, from, to) == pc[t] = from /\ pc' = [pc EXCEPT ![t] = to]

\* Where a task goes on when it has its key.
AfterKey(t) == IF op[t] = "get" THEN "verify" ELSE "open"

UseKey(t, k) ==
  /\ key' = [key EXCEPT ![t] = k]
  /\ memKey' = [memKey EXCEPT ![ProcOf[t]] = k]

-----------------------------------------------------------------------------
(* get up to its key, and put up to its key.                               *)

Content(i) == IF entryAt[i] # None THEN inode[entryAt[i]] ELSE planted[i]

\* Absent, not JSON, or sealed for another integrity: null without a key.
Plausible(i, e) == e \in Entries /\ e.integrity = i

Call(t, o, i) ==
  /\ op' = [op EXCEPT ![t] = o]
  /\ integrity' = [integrity EXCEPT ![t] = i]

Get(t, i) ==
  /\ Goto(t, "idle", IF Plausible(i, Content(i)) THEN "key" ELSE "done")
  /\ Call(t, "get", i)
  /\ raw' = [raw EXCEPT ![t] = Content(i)]
  /\ UNCHANGED <<keys, stamp, key, fd, result, files>>

Put(t, i) ==
  /\ Goto(t, "idle", "key")
  /\ Call(t, "put", i)
  /\ UNCHANGED <<keys, stamp, raw, key, fd, result, files>>

-----------------------------------------------------------------------------
(* getHmacKey.                                                             *)

KeyInMemory(t) ==
  /\ memKey[ProcOf[t]] # None
  /\ Goto(t, "key", AfterKey(t))
  /\ key' = [key EXCEPT ![t] = memKey[ProcOf[t]]]
  /\ UNCHANGED <<keys, op, integrity, stamp, raw, fd, result, files>>

KeyNotInMemory(t) ==
  /\ memKey[ProcOf[t]] = None
  /\ Goto(t, "key", "readKey")
  /\ UNCHANGED <<keys, op, integrity, stamp, raw, key, fd, result, files>>

ReadKey(t) ==
  /\ keyFile \in Keys
  /\ Goto(t, "readKey", AfterKey(t))
  /\ UseKey(t, keyFile)
  /\ UNCHANGED <<keyFile, first, op, integrity, stamp, raw, fd, result, files>>

\* Variant: a key file of any length is regenerated.
ReadNoKeyRegenerates(t) ==
  /\ Goto(t, "readKey", IF keyFile = "absent" THEN "create" ELSE "regenerate")
  /\ UNCHANGED <<keys, op, integrity, stamp, raw, key, fd, result, files>>

ReadNoKey(t) ==
  /\ keyFile \notin Keys
  /\ Goto(t, "readKey", IF keyFile = "absent" THEN "create" ELSE "regenerate")
  /\ UNCHANGED <<keys, op, integrity, stamp, raw, key, fd, result, files>>

\* writeFile opens the file with O_TRUNC, then writes.
TruncateKey(t) ==
  /\ Goto(t, "regenerate", "fill")
  /\ keyFile' = "short"
  /\ UNCHANGED <<memKey, first, op, integrity, stamp, raw, key, fd, result, files>>

\* O_CREAT with O_EXCL.
CreateKey(t) ==
  /\ keyFile = "absent"
  /\ Goto(t, "create", "fill")
  /\ keyFile' = "short"
  /\ UNCHANGED <<memKey, first, op, integrity, stamp, raw, key, fd, result, files>>

KeyExists(t) ==
  /\ keyFile # "absent"
  /\ Goto(t, "create", "reread")
  /\ UNCHANGED <<keys, op, integrity, stamp, raw, key, fd, result, files>>

FillKey(t) ==
  /\ Goto(t, "fill", "adopt")
  /\ keyFile' = t
  /\ UNCHANGED <<memKey, first, op, integrity, stamp, raw, key, fd, result, files>>

AdoptKey(t) ==
  /\ Goto(t, "adopt", AfterKey(t))
  /\ UseKey(t, t)
  /\ UNCHANGED <<keyFile, first, op, integrity, stamp, raw, fd, result, files>>

RereadKey(t) ==
  /\ keyFile \in Keys
  /\ Goto(t, "reread", AfterKey(t))
  /\ UseKey(t, keyFile)
  /\ UNCHANGED <<keyFile, first, op, integrity, stamp, raw, fd, result, files>>

\* "shorter than 32 bytes after concurrent creation": get answers null, put throws.
RereadThrows(t) ==
  /\ keyFile \notin Keys
  /\ Goto(t, "reread", "done")
  /\ UNCHANGED <<keys, op, integrity, stamp, raw, key, fd, result, files>>

-----------------------------------------------------------------------------
(* The rest of get and put.                                                *)

\* Variant: a complete envelope is believed.
VerifyNothing(t) ==
  /\ Goto(t, "verify", "done")
  /\ result' = [result EXCEPT ![t] = raw[t].snapshot]
  /\ UNCHANGED <<keys, op, integrity, stamp, raw, key, fd, files>>

\* The MAC is recomputed over the integrity asked for.
Verify(t) ==
  /\ Goto(t, "verify", "done")
  /\ result' = [result EXCEPT ![t] =
       IF raw[t] = Sealed(integrity[t], key[t], raw[t].snapshot) THEN raw[t].snapshot ELSE None]
  /\ UNCHANGED <<keys, op, integrity, stamp, raw, key, fd, files>>

\* Variant: the entry is published before its data is written.
OpenTmpInPlace(t, ms) ==
  /\ Goto(t, "open", "write")
  /\ stamp' = [stamp EXCEPT ![t] = ms]
  /\ inode' = [inode EXCEPT ![t] = Torn]
  /\ fd' = [fd EXCEPT ![t] = t]
  /\ entryAt' = [entryAt EXCEPT ![integrity[t]] = t]
  /\ UNCHANGED <<keys, op, integrity, raw, key, result, tmpAt, planted>>

\* writeFile to the temp name: create or truncate, then write.
OpenTmp(t, ms) ==
  LET n == TmpName(t, ms)
      target == IF tmpAt[n] = None THEN t ELSE tmpAt[n]
  IN  /\ Goto(t, "open", "write")
      /\ stamp' = [stamp EXCEPT ![t] = ms]
      /\ tmpAt' = [tmpAt EXCEPT ![n] = target]
      /\ inode' = [inode EXCEPT ![target] = Torn]
      /\ fd' = [fd EXCEPT ![t] = target]
      /\ UNCHANGED <<keys, op, integrity, raw, key, result, entryAt, planted>>

\* Two writers of one inode leave the last one's data, or a mixture.
SharesInode(t) == \E u \in Tasks \ {t} : fd[u] = fd[t]

WriteTmp(t) ==
  /\ Goto(t, "write", "rename")
  /\ \E c \in {Sealed(integrity[t], key[t], t)} \cup {d \in {Torn} : SharesInode(t)} :
       inode' = [inode EXCEPT ![fd[t]] = c]
  /\ UNCHANGED <<keys, op, integrity, stamp, raw, key, fd, result, tmpAt, entryAt, planted>>

RenameTmp(t) ==
  LET n == TmpName(t, stamp[t]) IN
    /\ Goto(t, "rename", "done")
    /\ tmpAt[n] # None
    /\ entryAt' = [entryAt EXCEPT ![integrity[t]] = tmpAt[n]]
    /\ tmpAt' = [tmpAt EXCEPT ![n] = None]
    /\ UNCHANGED <<keys, op, integrity, stamp, raw, key, fd, result, inode, planted>>

\* Another put already moved the temp file away: put throws.
RenameThrows(t) ==
  /\ Goto(t, "rename", "done")
  /\ tmpAt[TmpName(t, stamp[t])] = None
  /\ UNCHANGED <<keys, op, integrity, stamp, raw, key, fd, result, files>>

-----------------------------------------------------------------------------
\* The process ends between two awaits of its calls; calls of the next process
\* under the same name start without its memory.
Crash(p) ==
  /\ \E t \in Tasks : ProcOf[t] = p /\ pc[t] \notin {"idle", "done", "dead"}
  /\ pc' = [t \in Tasks |-> IF ProcOf[t] = p /\ pc[t] \notin {"idle", "done"}
                            THEN "dead" ELSE pc[t]]
  /\ memKey' = [memKey EXCEPT ![p] = None]
  /\ UNCHANGED <<keyFile, first, op, integrity, stamp, raw, key, fd, result, files>>

KeyStep(t) ==
  \/ KeyInMemory(t) \/ KeyNotInMemory(t) \/ ReadKey(t) \/ ReadNoKey(t)
  \/ TruncateKey(t) \/ CreateKey(t) \/ KeyExists(t) \/ FillKey(t) \/ AdoptKey(t)
  \/ RereadKey(t) \/ RereadThrows(t)

Advance(t) ==
  \/ KeyStep(t) \/ Verify(t)
  \/ (\E ms \in Stamps : OpenTmp(t, ms)) \/ WriteTmp(t) \/ RenameTmp(t) \/ RenameThrows(t)

Next ==
  \/ \E t \in Tasks, i \in Integrities : Get(t, i) \/ Put(t, i)
  \/ \E t \in Tasks : Advance(t)
  \/ \E p \in Procs : Crash(p)

Spec == Init /\ [][Next]_vars

-----------------------------------------------------------------------------
(***************************************************************************)
(* A hit is a snapshot that a put of this install stored under the very    *)
(* integrity asked for: no torn write, no file of another install and no   *)
(* entry moved to another name is ever served, whatever processes race or  *)
(* crash.                                                                  *)
(***************************************************************************)
StoredUnder(s, i) ==
  \/ s \in Tasks /\ op[s] = "put" /\ integrity[s] = i
  \/ first = OldKey /\ \E j \in Integrities : planted[j] = Sealed(i, OldKey, s)

GetSound ==
  \A t \in Tasks : result[t] # None => StoredUnder(result[t], integrity[t])

(***************************************************************************)
(* An entry's name never leads to a half-written file, even after a crash  *)
(* in the middle of a put, as long as no two puts of a process pick the    *)
(* same temp name.                                                         *)
(***************************************************************************)
TmpNamesDistinct ==
  \A t, u \in Tasks :
    t # u /\ fd[t] # None /\ fd[u] # None => TmpName(t, stamp[t]) # TmpName(u, stamp[u])

NoTornEntry ==
  TmpNamesDistinct => \A i \in Integrities : entryAt[i] # None => inode[entryAt[i]] # Torn

(***************************************************************************)
(* A key that was complete when the run started is never replaced, so what *)
(* earlier runs stored stays valid.                                        *)
(***************************************************************************)
EstablishedKeyKept ==
  first = OldKey => keyFile = OldKey /\ \A p \in Procs : memKey[p] \in {None, OldKey}

-----------------------------------------------------------------------------
=============================================================================
