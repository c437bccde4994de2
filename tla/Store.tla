------------------------------- MODULE Store -------------------------------
(***************************************************************************)
(* cache.Store.AtomicWrite (internal/cache/store.go): replace raw/<key> by *)
(* a new payload through  tmp file -> write -> fsync -> close -> rename -> *)
(* fsync of the directory,  with the deferred removal of the tmp file on   *)
(* every error path, against                                               *)
(*   - other callers writing the same key at the same time (no lock is     *)
(*     taken anywhere on this path),                                       *)
(*   - readers that have opened the file,                                  *)
(*   - the sweep of old tmp files and `cache clear`,                       *)
(*   - the death of one caller's process and the loss of power.            *)
(*                                                                         *)
(* The file system is modelled as inodes, each with the pages written to   *)
(* it so far and how many of them the disk has, and two copies of the      *)
(* directory entry raw/<key>: the one system calls see and the one on      *)
(* disk.  A page or the directory entry may reach the disk at any time;    *)
(* only fsync makes sure that it has.                                      *)
(***************************************************************************)
EXTENDS Naturals

CONSTANTS
  Writers,     \* concurrent callers of AtomicWrite for this key
  Readers,     \* processes that have raw/<key> open
  Inodes,      \* files the disk can hold
  Data,        \* the payloads callers write
  NoData,      \* what a reader of a missing file sees
  Torn,        \* what a reader of a half-written file sees
  NoFile,      \* no inode
  Pages,       \* pages of a payload
  MaxCalls,    \* bound: AtomicWrite and clear calls in a behaviour
  MaxCrashes   \* bound: process and power failures in a behaviour

ASSUME ConstantsAssumption ==
  /\ NoFile \notin Inodes
  /\ NoData \notin Data
  /\ Torn \notin Data \cup {NoData}
  /\ Pages \in Nat \ {0}
  /\ MaxCalls \in Nat
  /\ MaxCrashes \in Nat

VARIABLES
  file,        \* file[i]: payload being written, pages written, pages on disk
  dst,         \* directory entry raw/<key> as system calls see it
  dstDisk,     \* the same entry on disk
  tmp,         \* the inodes that have a name in tmp/
  call,        \* call[w]: where w is in AtomicWrite, its inode, its rank
  held,        \* held[r]: the inode reader r has open
  acked,       \* history: the largest rank acknowledged with a nil error
  calls,       \* AtomicWrite and clear calls so far
  crashes      \* failures so far

vars == <<file, dst, dstDisk, tmp, call, held, acked, calls, crashes>>

----------------------------------------------------------------------------
File  == [payload : Data \cup {NoData}, len : 0..Pages, disk : 0..Pages]
Entry == [ino : Inodes \cup {NoFile}, rank : Nat]
Call  == [pc : {"idle", "writing", "synced", "renamed"},
          ino : Inodes \cup {NoFile}, rank : Nat]

Idle == [pc |-> "idle", ino |-> NoFile, rank |-> 0]

\* Faulty variant: the tmp name is derived from the key alone, so that two
\* callers share it.
UnusedIfNamesWereFixed(i) == i \notin {dst.ino, dstDisk.ino}

\* newTmp (store.go:174) draws 64 random bits, so the name it returns is new:
\* opening it creates an inode nothing refers to.
Unused(i) ==
  /\ i \notin tmp \cup {dst.ino, dstDisk.ino}
  /\ \A w \in Writers : call[w].ino # i
  /\ \A r \in Readers : held[r] # i

Init ==
  /\ file = [i \in Inodes |-> [payload |-> NoData, len |-> 0, disk |-> 0]]
  /\ dst = [ino |-> NoFile, rank |-> 0]
  /\ dstDisk = dst
  /\ tmp = {}
  /\ call = [w \in Writers |-> Idle]
  /\ held = [r \in Readers |-> NoFile]
  /\ acked = 0
  /\ calls = 0
  /\ crashes = 0

----------------------------------------------------------------------------
(* AtomicWrite, one action per system call.                                *)

\* Faulty variant: os.WriteFile on raw/<key> itself.
OpenInPlace(w) ==
  /\ call[w].pc = "idle"
  /\ calls < MaxCalls
  /\ \E i \in Inodes, d \in Data :
       /\ Unused(i)
       /\ file' = [file EXCEPT ![i] = [payload |-> d, len |-> 0, disk |-> 0]]
       /\ dst' = [ino |-> i, rank |-> dst.rank + 1]
       /\ call' = [call EXCEPT ![w] = [pc |-> "writing", ino |-> i, rank |-> 0]]
  /\ calls' = calls + 1
  /\ UNCHANGED <<dstDisk, tmp, held, acked, crashes>>

\* newTmp, and OpenFile with O_CREATE|O_TRUNC.
OpenTmp(w) ==
  /\ call[w].pc = "idle"
  /\ calls < MaxCalls
  /\ \E i \in Inodes, d \in Data :
       /\ Unused(i)
       /\ file' = [file EXCEPT ![i] = [payload |-> d, len |-> 0, disk |-> 0]]
       /\ tmp' = tmp \cup {i}
       /\ call' = [call EXCEPT ![w] = [pc |-> "writing", ino |-> i, rank |-> 0]]
  /\ calls' = calls + 1
  /\ UNCHANGED <<dst, dstDisk, held, acked, crashes>>

\* Faulty variant: the loop around a short write does not stop at the end.
WritePageTooMany(w) ==
  LET i == call[w].ino IN
  /\ call[w].pc = "writing"
  /\ file[i].len <= Pages
  /\ file' = [file EXCEPT ![i].len = @ + 1]
  /\ UNCHANGED <<dst, dstDisk, tmp, call, held, acked, calls, crashes>>

\* f.Write, page by page: a failure can stop it anywhere.
WritePage(w) ==
  LET i == call[w].ino IN
  /\ call[w].pc = "writing"
  /\ file[i].len < Pages
  /\ file' = [file EXCEPT ![i].len = @ + 1]
  /\ UNCHANGED <<dst, dstDisk, tmp, call, held, acked, calls, crashes>>

\* Faulty variant: the file is closed without f.Sync.
CloseUnsynced(w) ==
  /\ call[w].pc = "writing"
  /\ file[call[w].ino].len = Pages
  /\ call' = [call EXCEPT ![w].pc = "synced"]
  /\ UNCHANGED <<file, dst, dstDisk, tmp, held, acked, calls, crashes>>

\* f.Sync and f.Close.
Fsync(w) ==
  LET i == call[w].ino IN
  /\ call[w].pc = "writing"
  /\ file[i].len = Pages
  /\ file' = [file EXCEPT ![i].disk = file[i].len]
  /\ call' = [call EXCEPT ![w].pc = "synced"]
  /\ UNCHANGED <<dst, dstDisk, tmp, held, acked, calls, crashes>>

\* os.Rename, and cleanup = "".
Rename(w) ==
  LET i == call[w].ino IN
  /\ call[w].pc = "synced"
  /\ i \in tmp
  /\ tmp' = tmp \ {i}
  /\ dst' = [ino |-> i, rank |-> dst.rank + 1]
  /\ call' = [call EXCEPT
       ![w] = [pc |-> "renamed", ino |-> i, rank |-> dst.rank + 1]]
  /\ UNCHANGED <<file, dstDisk, held, acked, calls, crashes>>

\* Faulty variant: nil is returned without syncDir.
ReturnUnsynced(w) ==
  /\ call[w].pc = "renamed"
  /\ acked' = IF call[w].rank > acked THEN call[w].rank ELSE acked
  /\ call' = [call EXCEPT ![w] = Idle]
  /\ UNCHANGED <<file, dst, dstDisk, tmp, held, calls, crashes>>

\* syncDir, and the return of nil.
SyncDir(w) ==
  /\ call[w].pc = "renamed"
  /\ dstDisk' = dst
  /\ acked' = IF call[w].rank > acked THEN call[w].rank ELSE acked
  /\ call' = [call EXCEPT ![w] = Idle]
  /\ UNCHANGED <<file, dst, tmp, held, calls, crashes>>

\* Faulty variant: an error path returns without the deferred removal.
FailLeavingTmp(w) ==
  /\ call[w].pc \in {"writing", "synced"}
  /\ call' = [call EXCEPT ![w] = Idle]
  /\ UNCHANGED <<file, dst, dstDisk, tmp, held, acked, calls, crashes>>

\* Write, Sync, Close or Rename fails (the disk is full, the tmp file was
\* swept, raw/ was removed): the deferred call removes the tmp file.  Where that
\* os.Remove fails, whose error is dropped, the tmp file stays as after Kill.
Fail(w) ==
  /\ call[w].pc \in {"writing", "synced"}
  /\ tmp' = tmp \ {call[w].ino}
  /\ call' = [call EXCEPT ![w] = Idle]
  /\ UNCHANGED <<file, dst, dstDisk, held, acked, calls, crashes>>

\* syncDir fails: an error is returned although the rename has happened.
SyncDirFails(w) ==
  /\ call[w].pc = "renamed"
  /\ call' = [call EXCEPT ![w] = Idle]
  /\ UNCHANGED <<file, dst, dstDisk, tmp, held, acked, calls, crashes>>

----------------------------------------------------------------------------
(* Everybody else.                                                         *)

\* os.ReadFile in Read and ReadMeta: the open descriptor pins the inode.
OpenRead(r) ==
  /\ held[r] = NoFile
  /\ dst.ino # NoFile
  /\ held' = [held EXCEPT ![r] = dst.ino]
  /\ UNCHANGED <<file, dst, dstDisk, tmp, call, acked, calls, crashes>>

CloseRead(r) ==
  /\ held[r] # NoFile
  /\ held' = [held EXCEPT ![r] = NoFile]
  /\ UNCHANGED <<file, dst, dstDisk, tmp, call, acked, calls, crashes>>

\* SweepTmp and bootstrap's sweepOrphans remove what looks old in tmp/.  A
\* writer that was stopped for long enough looks old as well.
SweepTmp ==
  /\ \E i \in tmp : tmp' = tmp \ {i}
  /\ UNCHANGED <<file, dst, dstDisk, call, held, acked, calls, crashes>>

\* `cache clear` removes raw/ with everything in it.
Clear ==
  /\ calls < MaxCalls
  /\ dst' = [ino |-> NoFile, rank |-> dst.rank + 1]
  /\ calls' = calls + 1
  /\ UNCHANGED <<file, dstDisk, tmp, call, held, acked, crashes>>

\* The kernel writes a page, or the directory entry, to disk of its own accord.
WriteBackPage ==
  /\ \E i \in Inodes :
       /\ file[i].disk < file[i].len
       /\ file' = [file EXCEPT ![i].disk = @ + 1]
  /\ UNCHANGED <<dst, dstDisk, tmp, call, held, acked, calls, crashes>>

WriteBackEntry ==
  /\ dstDisk' = dst
  /\ UNCHANGED <<file, dst, tmp, call, held, acked, calls, crashes>>

\* The process of w is killed: no deferred call runs.
Kill(w) ==
  /\ call[w].pc # "idle"
  /\ crashes < MaxCrashes
  /\ call' = [call EXCEPT ![w] = Idle]
  /\ crashes' = crashes + 1
  /\ UNCHANGED <<file, dst, dstDisk, tmp, held, acked, calls>>

\* Power is lost: memory goes, the disk stays.  tmp/ is never synced, so any
\* of its entries may be there afterwards, the one an unsynced rename had
\* removed included.
PowerLoss ==
  /\ crashes < MaxCrashes
  /\ file' = [i \in Inodes |-> [file[i] EXCEPT !.len = file[i].disk]]
  /\ dst' = dstDisk
  /\ tmp' \in SUBSET ((tmp \cup {dst.ino}) \ {dstDisk.ino, NoFile})
  /\ call' = [w \in Writers |-> Idle]
  /\ held' = [r \in Readers |-> NoFile]
  /\ crashes' = crashes + 1
  /\ UNCHANGED <<dstDisk, acked, calls>>

----------------------------------------------------------------------------
AtomicWrite(w) ==
  \/ OpenTmp(w)
  \/ WritePage(w)
  \/ Fsync(w)
  \/ Rename(w)
  \/ SyncDir(w)
  \/ Fail(w)
  \/ SyncDirFails(w)

Next ==
  \/ \E w \in Writers : AtomicWrite(w) \/ Kill(w)
  \/ \E r \in Readers : OpenRead(r) \/ CloseRead(r)
  \/ SweepTmp
  \/ Clear
  \/ WriteBackPage
  \/ WriteBackEntry
  \/ PowerLoss

Spec == Init /\ [][Next]_vars

----------------------------------------------------------------------------
(* Properties.                                                             *)

\* Every variable has its type; in particular no write goes past the payload.
TypeOK ==
  /\ file \in [Inodes -> File]
  /\ dst \in Entry
  /\ dstDisk \in Entry
  /\ tmp \subseteq Inodes
  /\ call \in [Writers -> Call]
  /\ held \in [Readers -> Inodes \cup {NoFile}]
  /\ acked \in Nat
  /\ calls \in Nat
  /\ crashes \in Nat

\* The file raw/<key> is whole whenever it exists, and it would be whole if
\* power were lost at this moment, however many callers write at once
\* (AtomicWrite renames only what it has written and synced).
WholeFiles ==
  /\ dst.ino # NoFile => file[dst.ino].len = Pages
  /\ dstDisk.ino # NoFile => file[dstDisk.ino].disk = Pages

\* Once AtomicWrite has returned nil, no loss of power can bring back a file
\* older than the one it wrote (the rename is synced before the return).
AckedIsDurable == acked <= dstDisk.rank

\* Without a crash, every file in tmp/ belongs to a call that is still running:
\* each error path removes its tmp file, so that only crashes leave work for
\* the sweep.
OnlyCrashesLeakTmp ==
  crashes = 0 =>
    \A i \in tmp : \E w \in Writers :
      call[w].ino = i /\ call[w].pc \in {"writing", "synced"}

\* A file that some reader has open never changes under it, whatever writers
\* do meanwhile: os.ReadFile returns one payload, not a mixture.
OpenFilesAreFrozen ==
  [][\A r \in Readers : held[r] # NoFile /\ held'[r] = held[r]
       => file'[held[r]].payload = file[held[r]].payload
          /\ file'[held[r]].len = file[held[r]].len]_vars

\* The store implements the atomic register (AtomicWrite's doc comment:
\* "writes data to raw/<key> atomically").
Seen(i, n) ==
  IF i = NoFile THEN NoData ELSE IF n = Pages THEN file[i].payload ELSE Torn

SeenLen(i)  == IF i = NoFile THEN Pages ELSE file[i].len
SeenDisk(i) == IF i = NoFile THEN Pages ELSE file[i].disk

Register == INSTANCE AtomicRegister WITH
  cur    <- [payload |-> Seen(dst.ino, SeenLen(dst.ino)), rank |-> dst.rank],
  stable <- [payload |-> Seen(dstDisk.ino, SeenDisk(dstDisk.ino)),
             rank |-> dstDisk.rank]

ImplementsRegister == Register!Spec
=============================================================================
