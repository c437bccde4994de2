---------------------------- MODULE StoreProofs ----------------------------
(***************************************************************************)
(* For every number of writers, readers, inodes, pages, calls and crashes: *)
(* raw/<key> is whole at every moment and after every loss of power, an    *)
(* acknowledged write is durable, a file that is open never changes, only  *)
(* crashes leave files in tmp/, and AtomicWrite implements AtomicRegister. *)
(*                                                                         *)
(* WholeFiles and AckedIsDurable are not inductive.  They hold because the *)
(* inode a call writes is private until the rename publishes it: nobody    *)
(* else writes it, reads it, or has it as raw/<key>, in memory or on disk. *)
(* IInv says that, what the fsync before the rename has achieved, and how  *)
(* the ranks of the two copies of the directory entry are ordered.         *)
(***************************************************************************)
EXTENDS Store, TLAPS

Writing(w) == call[w].pc \in {"writing", "synced"}

Whole(i) == file[i].payload \in Data /\ file[i].len = Pages /\ file[i].disk = Pages

\* The inode of a running call is its own until it is renamed.
Private ==
  \A w \in Writers : Writing(w) =>
    /\ call[w].ino \in Inodes
    /\ call[w].ino \notin {dst.ino, dstDisk.ino}
    /\ file[call[w].ino].payload \in Data
    /\ \A v \in Writers : Writing(v) /\ call[v].ino = call[w].ino => v = w
    /\ \A r \in Readers : held[r] # call[w].ino

\* What the rename is about to publish is complete, in memory and on disk.
SyncedIsWhole ==
  \A w \in Writers : call[w].pc = "synced" => Whole(call[w].ino)

PublishedIsWhole ==
  /\ dst.ino # NoFile => Whole(dst.ino)
  /\ dstDisk.ino # NoFile => Whole(dstDisk.ino)

\* The entry on disk is never ahead of the one in memory, nor behind what
\* was acknowledged.
Ranks ==
  /\ dstDisk.rank <= dst.rank
  /\ acked <= dstDisk.rank
  /\ \A w \in Writers :
       call[w].pc = "renamed" => call[w].rank \in 1..dst.rank

IInv ==
  /\ TypeOK
  /\ Private
  /\ SyncedIsWhole
  /\ PublishedIsWhole
  /\ Ranks
  /\ OnlyCrashesLeakTmp

----------------------------------------------------------------------------
\* The initial states satisfy the invariant.
LEMMA InitIInv == Init => IInv
<1> USE ConstantsAssumption DEF Init, Idle, Call, Entry, File
<1> SUFFICES ASSUME Init PROVE IInv
  OBVIOUS
<1>1. TypeOK
  BY DEF TypeOK
<1>2. Private /\ SyncedIsWhole
  BY DEF Private, Writing, SyncedIsWhole
<1>3. PublishedIsWhole /\ Ranks /\ OnlyCrashesLeakTmp
  BY DEF PublishedIsWhole, Ranks, OnlyCrashesLeakTmp
<1> QED
  BY <1>1, <1>2, <1>3 DEF IInv

\* Every step of AtomicWrite, of a reader, of the sweep, of clear, of the
\* kernel and of a failure keeps the types.
LEMMA TypeStep == TypeOK /\ Private /\ [Next]_vars => TypeOK'
<1> USE ConstantsAssumption DEF TypeOK, File, Entry, Call, Idle
<1> SUFFICES ASSUME TypeOK, Private, [Next]_vars PROVE TypeOK'
  OBVIOUS
<1>1. ASSUME NEW w \in Writers, OpenTmp(w) PROVE TypeOK'
  BY <1>1 DEF OpenTmp
<1>2. ASSUME NEW w \in Writers, WritePage(w) PROVE TypeOK'
  <2>1. call[w].ino \in Inodes
    BY <1>2 DEF WritePage, Private, Writing
  <2>2. file[call[w].ino].len + 1 \in 0..Pages
    BY <1>2, <2>1 DEF WritePage
  <2>3. file' \in [Inodes -> File]
    BY <1>2, <2>1, <2>2 DEF WritePage
  <2> QED
    BY <1>2, <2>3 DEF WritePage
<1>3. ASSUME NEW w \in Writers, Fsync(w) PROVE TypeOK'
  <2>1. call[w].ino \in Inodes
    BY <1>3 DEF Fsync, Private, Writing
  <2>2. file' \in [Inodes -> File]
    BY <1>3, <2>1 DEF Fsync
  <2>3. call' \in [Writers -> Call]
    BY <1>3 DEF Fsync
  <2> QED
    BY <1>3, <2>2, <2>3 DEF Fsync
<1>4. ASSUME NEW w \in Writers, Rename(w) PROVE TypeOK'
  <2>1. call[w].ino \in Inodes /\ dst.rank + 1 \in Nat
    BY <1>4 DEF Rename
  <2>2. dst' \in Entry
    BY <1>4, <2>1 DEF Rename
  <2>3. call' \in [Writers -> Call]
    BY <1>4, <2>1 DEF Rename
  <2> QED
    BY <1>4, <2>2, <2>3 DEF Rename
<1>5. ASSUME NEW w \in Writers, SyncDir(w) PROVE TypeOK'
  BY <1>5 DEF SyncDir
<1>6. ASSUME NEW w \in Writers, Fail(w) \/ SyncDirFails(w) \/ Kill(w)
      PROVE  TypeOK'
  BY <1>6 DEF Fail, SyncDirFails, Kill
<1>7. ASSUME NEW r \in Readers, OpenRead(r) \/ CloseRead(r) PROVE TypeOK'
  BY <1>7 DEF OpenRead, CloseRead
<1>8. CASE SweepTmp \/ Clear \/ WriteBackEntry
  BY <1>8 DEF SweepTmp, Clear, WriteBackEntry
<1>9. CASE WriteBackPage
  BY <1>9 DEF WriteBackPage
<1>10. CASE PowerLoss
  BY <1>10 DEF PowerLoss
<1>11. CASE UNCHANGED vars
  BY <1>11 DEF vars
<1> QED
  BY <1>1, <1>2, <1>3, <1>4, <1>5, <1>6, <1>7, <1>8, <1>9, <1>10, <1>11
     DEF Next, AtomicWrite

\* Every step keeps what the invariant says beyond the types.
LEMMA IInvStep == IInv /\ [Next]_vars => IInv'
<1> USE ConstantsAssumption
<1> SUFFICES ASSUME IInv, [Next]_vars PROVE IInv'
  OBVIOUS
<1> USE DEF IInv
<1>0. TypeOK'
  BY TypeStep
<1> DEFINE Parts == /\ Private
                   /\ SyncedIsWhole
                   /\ PublishedIsWhole
                   /\ Ranks
                   /\ OnlyCrashesLeakTmp
<1> SUFFICES Parts'
  BY <1>0
<1>1. ASSUME NEW w \in Writers, OpenTmp(w) PROVE Parts'
  <2>1. PICK i \in Inodes, d \in Data :
          /\ Unused(i)
          /\ file' = [file EXCEPT ![i] = [payload |-> d, len |-> 0, disk |-> 0]]
          /\ tmp' = tmp \cup {i}
          /\ call' = [call EXCEPT ![w] = [pc |-> "writing", ino |-> i, rank |-> 0]]
    BY <1>1 DEF OpenTmp
  <2>2. UNCHANGED <<dst, dstDisk, held, acked, crashes>> /\ call[w].pc = "idle"
    BY <1>1 DEF OpenTmp
  <2>3. \A v \in Writers \ {w} : call'[v] = call[v]
    BY <2>1 DEF TypeOK
  <2>4. call'[w] = [pc |-> "writing", ino |-> i, rank |-> 0]
    BY <2>1 DEF TypeOK
  <2>5. file'[i].payload = d /\ \A j \in Inodes \ {i} : file'[j] = file[j]
    BY <2>1 DEF TypeOK
  <2>6. Private'
    BY <2>1, <2>2, <2>3, <2>4, <2>5 DEF Private, Writing, Unused
  <2>7. SyncedIsWhole'
    BY <2>1, <2>2, <2>3, <2>4, <2>5
       DEF Private, SyncedIsWhole, Writing, Whole, Unused
  <2>8. PublishedIsWhole'
    BY <2>1, <2>2, <2>5 DEF PublishedIsWhole, Whole, Unused, TypeOK, Entry
  <2>9. Ranks'
    BY <2>2, <2>3, <2>4 DEF Ranks
  <2>10. OnlyCrashesLeakTmp'
    BY <2>1, <2>2, <2>3, <2>4 DEF OnlyCrashesLeakTmp
  <2> QED
    BY <2>6, <2>7, <2>8, <2>9, <2>10
<1>2. ASSUME NEW w \in Writers, WritePage(w) PROVE Parts'
  <2> DEFINE i == call[w].ino
  <2>1. /\ call[w].pc = "writing" /\ i \in Inodes
        /\ UNCHANGED <<dst, dstDisk, tmp, call, held, acked, crashes>>
    BY <1>2 DEF WritePage, Private, Writing
  <2>2. /\ file'[i].payload = file[i].payload
        /\ \A j \in Inodes \ {i} : file'[j] = file[j]
    BY <1>2, <2>1 DEF WritePage, TypeOK, File
  <2>3. Private'
    BY <2>1, <2>2 DEF Private, Writing
  <2>4. SyncedIsWhole'
    BY <2>1, <2>2 DEF Private, Writing, SyncedIsWhole, Whole
  <2>5. PublishedIsWhole'
    BY <2>1, <2>2
       DEF Private, Writing, PublishedIsWhole, Whole, TypeOK, Entry
  <2> QED
    BY <2>1, <2>3, <2>4, <2>5 DEF Ranks, OnlyCrashesLeakTmp
<1>3. ASSUME NEW w \in Writers, Fsync(w) PROVE Parts'
  <2> DEFINE i == call[w].ino
  <2>1. /\ call[w].pc = "writing" /\ i \in Inodes /\ file[i].len = Pages
        /\ UNCHANGED <<dst, dstDisk, tmp, held, acked, crashes>>
    BY <1>3 DEF Fsync, Private, Writing
  <2>2. /\ file'[i].payload = file[i].payload
        /\ file'[i].len = Pages /\ file'[i].disk = Pages
        /\ \A j \in Inodes \ {i} : file'[j] = file[j]
    BY <1>3, <2>1 DEF Fsync, TypeOK, File
  <2>3. /\ call'[w].pc = "synced" /\ call'[w].ino = i
        /\ \A v \in Writers \ {w} : call'[v] = call[v]
    BY <1>3 DEF Fsync, TypeOK, Call
  <2>4. Private'
    BY <2>1, <2>2, <2>3 DEF Private, Writing
  <2>5. SyncedIsWhole'
    BY <2>1, <2>2, <2>3 DEF Private, Writing, SyncedIsWhole, Whole
  <2>6. PublishedIsWhole'
    BY <2>1, <2>2
       DEF Private, Writing, PublishedIsWhole, Whole, TypeOK, Entry
  <2>7. Ranks'
    BY <2>1, <2>3 DEF Ranks
  <2>8. OnlyCrashesLeakTmp'
    BY <2>1, <2>3 DEF OnlyCrashesLeakTmp
  <2> QED
    BY <2>4, <2>5, <2>6, <2>7, <2>8
<1>4. ASSUME NEW w \in Writers, Rename(w) PROVE Parts'
  <2> DEFINE i == call[w].ino
  <2>1. /\ call[w].pc = "synced" /\ i \in Inodes /\ Whole(i)
        /\ tmp' = tmp \ {i}
        /\ dst'.ino = i /\ dst'.rank = dst.rank + 1
        /\ UNCHANGED <<file, dstDisk, held, acked, crashes>>
    BY <1>4 DEF Rename, Private, Writing, SyncedIsWhole
  <2>2. /\ call'[w].pc = "renamed" /\ call'[w].rank = dst.rank + 1
        /\ \A v \in Writers \ {w} : call'[v] = call[v]
    BY <1>4 DEF Rename, TypeOK, Call
  <2>3. Private'
    BY <2>1, <2>2 DEF Private, Writing
  <2>4. SyncedIsWhole' /\ PublishedIsWhole'
    BY <2>1, <2>2 DEF SyncedIsWhole, PublishedIsWhole, Whole
  <2>5. Ranks'
    BY <2>1, <2>2 DEF Ranks, TypeOK, Entry, Call
  <2>6. OnlyCrashesLeakTmp'
    BY <2>1, <2>2 DEF OnlyCrashesLeakTmp
  <2> QED
    BY <2>3, <2>4, <2>5, <2>6
<1>5. ASSUME NEW w \in Writers, SyncDir(w) PROVE Parts'
  <2>1. /\ call[w].pc = "renamed" /\ dstDisk' = dst
        /\ acked' \in {acked, call[w].rank}
        /\ UNCHANGED <<file, dst, tmp, held, crashes>>
    BY <1>5 DEF SyncDir
  <2>2. /\ call'[w].pc = "idle"
        /\ \A v \in Writers \ {w} : call'[v] = call[v]
    BY <1>5 DEF SyncDir, TypeOK, Call, Idle
  <2>3. Private'
    BY <2>1, <2>2 DEF Private, Writing
  <2>4. SyncedIsWhole' /\ PublishedIsWhole'
    BY <2>1, <2>2 DEF SyncedIsWhole, PublishedIsWhole, Whole
  <2>5. Ranks'
    BY <2>1, <2>2 DEF Ranks, TypeOK, Entry, Call
  <2>6. OnlyCrashesLeakTmp'
    BY <2>1, <2>2 DEF OnlyCrashesLeakTmp
  <2> QED
    BY <2>3, <2>4, <2>5, <2>6
<1>6. ASSUME NEW w \in Writers, Fail(w) \/ SyncDirFails(w) \/ Kill(w)
      PROVE  Parts'
  <2>1. UNCHANGED <<file, dst, dstDisk, held, acked>>
    BY <1>6 DEF Fail, SyncDirFails, Kill
  <2>2. /\ call'[w].pc = "idle"
        /\ \A v \in Writers \ {w} : call'[v] = call[v]
    BY <1>6 DEF Fail, SyncDirFails, Kill, TypeOK, Call, Idle
  <2>3. Private'
    BY <2>1, <2>2 DEF Private, Writing
  <2>4. SyncedIsWhole' /\ PublishedIsWhole'
    BY <2>1, <2>2 DEF SyncedIsWhole, PublishedIsWhole, Whole
  <2>5. Ranks'
    BY <2>1, <2>2 DEF Ranks
  <2>6. OnlyCrashesLeakTmp'
    <3>1. CASE Fail(w)
      BY <3>1, <2>2 DEF Fail, OnlyCrashesLeakTmp
    <3>2. CASE SyncDirFails(w)
      BY <3>2, <2>2 DEF SyncDirFails, OnlyCrashesLeakTmp
    <3>3. CASE Kill(w)
      BY <3>3 DEF Kill, OnlyCrashesLeakTmp, TypeOK
    <3> QED
      BY <1>6, <3>1, <3>2, <3>3
  <2> QED
    BY <2>3, <2>4, <2>5, <2>6
<1>7. ASSUME NEW r \in Readers, OpenRead(r) \/ CloseRead(r) PROVE Parts'
  <2>1. /\ UNCHANGED <<file, dst, dstDisk, tmp, call, acked, crashes>>
        /\ \A q \in Readers : held'[q] \in {held[q], dst.ino, NoFile}
    BY <1>7 DEF OpenRead, CloseRead, TypeOK
  <2>2. Private'
    BY <2>1 DEF Private, Writing
  <2>3. SyncedIsWhole' /\ PublishedIsWhole'
    BY <2>1 DEF SyncedIsWhole, PublishedIsWhole, Whole
  <2> QED
    BY <2>1, <2>2, <2>3 DEF Ranks, OnlyCrashesLeakTmp
<1>8. CASE SweepTmp \/ Clear \/ WriteBackEntry
  <2>1. /\ UNCHANGED <<file, call, held, acked, crashes>> /\ tmp' \subseteq tmp
        /\ \/ dst' = dst
           \/ dst'.ino = NoFile /\ dst'.rank = dst.rank + 1
        /\ \/ dstDisk' = dstDisk
           \/ dstDisk' = dst /\ dst' = dst
    <3>1. CASE SweepTmp
      BY <3>1 DEF SweepTmp
    <3>2. CASE Clear
      BY <3>2 DEF Clear
    <3>3. CASE WriteBackEntry
      BY <3>3 DEF WriteBackEntry
    <3> QED
      BY <1>8, <3>1, <3>2, <3>3
  <2>2. Private'
    BY <2>1 DEF Private, Writing
  <2>3. SyncedIsWhole' /\ PublishedIsWhole'
    BY <2>1 DEF SyncedIsWhole, PublishedIsWhole, Whole
  <2>4. Ranks'
    BY <2>1 DEF Ranks, TypeOK, Entry, Call
  <2> QED
    BY <2>1, <2>2, <2>3, <2>4 DEF OnlyCrashesLeakTmp
<1>9. CASE WriteBackPage
  <2>1. PICK i \in Inodes : /\ file[i].disk < file[i].len
                            /\ file' = [file EXCEPT ![i].disk = @ + 1]
    BY <1>9 DEF WriteBackPage
  <2>2. UNCHANGED <<dst, dstDisk, tmp, call, held, acked, crashes>>
    BY <1>9 DEF WriteBackPage
  <2>3. ~ Whole(i) /\ file'[i].payload = file[i].payload
    BY <2>1 DEF Whole, TypeOK, File
  <2>4. \A j \in Inodes \ {i} : file'[j] = file[j]
    BY <2>1 DEF TypeOK
  <2>5. Private'
    BY <2>2, <2>3, <2>4 DEF Private, Writing
  <2>6. \A j \in Inodes : Whole(j) => Whole(j)'
    BY <2>3, <2>4 DEF Whole
  <2>7. SyncedIsWhole'
    BY <2>2, <2>6 DEF SyncedIsWhole, Private, Writing
  <2>8. PublishedIsWhole'
    BY <2>2, <2>6 DEF PublishedIsWhole, TypeOK, Entry
  <2> QED
    BY <2>2, <2>5, <2>7, <2>8 DEF Ranks, OnlyCrashesLeakTmp
<1>10. CASE PowerLoss
  <2>1. /\ dst' = dstDisk /\ dstDisk' = dstDisk /\ acked' = acked
        /\ \A w \in Writers : call'[w].pc = "idle"
        /\ crashes' = crashes + 1
        /\ \A i \in Inodes : /\ file'[i].payload = file[i].payload
                              /\ file'[i].len = file[i].disk
                              /\ file'[i].disk = file[i].disk
    BY <1>10 DEF PowerLoss, Idle, TypeOK, File
  <2>2. Private' /\ SyncedIsWhole'
    BY <2>1 DEF Private, Writing, SyncedIsWhole
  <2>3. PublishedIsWhole'
    BY <2>1 DEF PublishedIsWhole, Whole, TypeOK, Entry
  <2>4. Ranks'
    BY <2>1 DEF Ranks, TypeOK, Entry
  <2>5. OnlyCrashesLeakTmp'
    BY <2>1 DEF OnlyCrashesLeakTmp, TypeOK
  <2> QED
    BY <2>2, <2>3, <2>4, <2>5
<1>11. CASE UNCHANGED vars
  BY <1>11 DEF vars, Private, Writing, SyncedIsWhole, PublishedIsWhole, Whole,
               Ranks, OnlyCrashesLeakTmp
<1> QED
  BY <1>1, <1>2, <1>3, <1>4, <1>5, <1>6, <1>7, <1>8, <1>9, <1>10, <1>11
     DEF Next, AtomicWrite

----------------------------------------------------------------------------
\* The invariant holds in every reachable state of the store.
LEMMA Invariance == Spec => []IInv
<1>1. Init => IInv
  BY InitIInv
<1>2. IInv /\ [Next]_vars => IInv'
  BY IInvStep
<1> QED
  BY <1>1, <1>2, PTL DEF Spec

\* Type correctness of the store.
THEOREM TypeCorrect == Spec => []TypeOK
<1>1. IInv => TypeOK
  BY DEF IInv
<1> QED
  BY <1>1, Invariance, PTL

\* No reader of raw/<key>, and no reader after a loss of power, finds a part
\* of a payload, whatever callers of AtomicWrite are doing.
THEOREM AlwaysWhole == Spec => []WholeFiles
<1>1. IInv => WholeFiles
  BY DEF IInv, PublishedIsWhole, Whole, WholeFiles
<1> QED
  BY <1>1, Invariance, PTL

\* A write that AtomicWrite has acknowledged is never lost with the power.
THEOREM Durability == Spec => []AckedIsDurable
<1>1. IInv => AckedIsDurable
  BY DEF IInv, Ranks, AckedIsDurable
<1> QED
  BY <1>1, Invariance, PTL

\* As long as nothing crashes, no error path of AtomicWrite leaves a file in
\* tmp/ behind.
THEOREM NoLeakWithoutCrash == Spec => []OnlyCrashesLeakTmp
<1>1. IInv => OnlyCrashesLeakTmp
  BY DEF IInv
<1> QED
  BY <1>1, Invariance, PTL

\* One step leaves an open file alone.
Frozen ==
  \A r \in Readers : held[r] # NoFile /\ held'[r] = held[r]
    => file'[held[r]].payload = file[held[r]].payload
       /\ file'[held[r]].len = file[held[r]].len

\* Every step of the store does, because the inode a call writes is private.
LEMMA FrozenStep == IInv /\ [Next]_vars => Frozen
<1> USE ConstantsAssumption
<1> SUFFICES ASSUME IInv, [Next]_vars,
                    NEW r \in Readers, held[r] # NoFile, held'[r] = held[r]
             PROVE  /\ file'[held[r]].payload = file[held[r]].payload
                    /\ file'[held[r]].len = file[held[r]].len
  BY DEF Frozen
<1>1. held[r] \in Inodes
  BY DEF IInv, TypeOK
<1>2. ASSUME NEW w \in Writers, OpenTmp(w) PROVE file'[held[r]] = file[held[r]]
  BY <1>1, <1>2 DEF OpenTmp, Unused, IInv, TypeOK
<1>3. ASSUME NEW w \in Writers, WritePage(w) \/ Fsync(w)
      PROVE  file'[held[r]] = file[held[r]]
  <2>1. Writing(w) /\ call[w].ino \in Inodes /\ call[w].ino # held[r]
    BY <1>3 DEF WritePage, Fsync, IInv, Private, Writing
  <2> QED
    BY <1>1, <1>3, <2>1 DEF WritePage, Fsync, IInv, TypeOK
<1>4. CASE WriteBackPage
  BY <1>1, <1>4 DEF WriteBackPage, IInv, TypeOK, File
<1>5. CASE PowerLoss
  BY <1>5 DEF PowerLoss
<1>6. CASE file' = file
  BY <1>6
<1> QED
  BY <1>2, <1>3, <1>4, <1>5, <1>6
     DEF Next, AtomicWrite, Rename, SyncDir, Fail, SyncDirFails, Kill, OpenRead,
         CloseRead, SweepTmp, Clear, WriteBackEntry, vars

\* An open raw/<key> never changes under its reader.
THEOREM OpenFilesNeverChange == Spec => OpenFilesAreFrozen
<1>1. IInv /\ [Next]_vars => [Frozen]_vars
  BY FrozenStep
<1> QED
  BY <1>1, Invariance, PTL DEF Spec, OpenFilesAreFrozen, Frozen

----------------------------------------------------------------------------
(* AtomicWrite implements the atomic register.                             *)

Cur == [payload |-> Seen(dst.ino, SeenLen(dst.ino)), rank |-> dst.rank]
Stable == [payload |-> Seen(dstDisk.ino, SeenDisk(dstDisk.ino)),
           rank |-> dstDisk.rank]

\* A step that touches neither directory entry nor a published inode is not
\* visible in the register.
LEMMA Invisible ==
  ASSUME UNCHANGED <<dst, dstDisk>>, UNCHANGED acked,
         dst.ino # NoFile => file'[dst.ino] = file[dst.ino],
         dstDisk.ino # NoFile => file'[dstDisk.ino] = file[dstDisk.ino]
  PROVE  Cur' = Cur /\ Stable' = Stable /\ acked' = acked
BY DEF Cur, Stable, Seen, SeenLen, SeenDisk

\* Every step of the store is a step of the register or invisible in it.
LEMMA RegisterStep == IInv /\ [Next]_vars => [Register!Next]_(Register!regvars)
<1> USE ConstantsAssumption
<1> SUFFICES ASSUME IInv, [Next]_vars PROVE [Register!Next]_(Register!regvars)
  OBVIOUS
<1> USE DEF Register!Next, Register!regvars
<1> DEFINE Stutter == Cur' = Cur /\ Stable' = Stable /\ acked' = acked
<1>0. Stutter => UNCHANGED Register!regvars
  BY DEF Cur, Stable
<1>1. ASSUME NEW w \in Writers, OpenTmp(w) PROVE Stutter
  <2>1. PICK i \in Inodes, d \in Data :
          Unused(i) /\ file' = [file EXCEPT ![i] = [payload |-> d, len |-> 0, disk |-> 0]]
    BY <1>1 DEF OpenTmp
  <2>2. UNCHANGED <<dst, dstDisk>> /\ UNCHANGED acked
    BY <1>1 DEF OpenTmp
  <2>3. \A j \in Inodes \ {i} : file'[j] = file[j]
    BY <2>1 DEF IInv, TypeOK
  <2> QED
    BY <2>1, <2>2, <2>3, Invisible DEF Unused, IInv, TypeOK, Entry
<1>2. ASSUME NEW w \in Writers, WritePage(w) \/ Fsync(w) PROVE Stutter
  <2>1. /\ call[w].ino \in Inodes
        /\ call[w].ino \notin {dst.ino, dstDisk.ino}
    BY <1>2 DEF WritePage, Fsync, IInv, Private, Writing
  <2>2. UNCHANGED <<dst, dstDisk>> /\ UNCHANGED acked
    BY <1>2 DEF WritePage, Fsync
  <2>3. \A j \in Inodes \ {call[w].ino} : file'[j] = file[j]
    BY <1>2, <2>1 DEF WritePage, Fsync, IInv, TypeOK
  <2> QED
    BY <2>1, <2>2, <2>3, Invisible DEF IInv, TypeOK, Entry
<1>3. ASSUME NEW w \in Writers, Rename(w) PROVE Register!Publish
  <2>1. Whole(call[w].ino) /\ call[w].ino \in Inodes
    BY <1>3 DEF Rename, IInv, SyncedIsWhole, Private, Writing
  <2>2. /\ dst' = [ino |-> call[w].ino, rank |-> dst.rank + 1]
        /\ UNCHANGED <<file, dstDisk>> /\ UNCHANGED acked
    BY <1>3 DEF Rename
  <2>3. Cur' = [payload |-> file[call[w].ino].payload, rank |-> Cur.rank + 1]
    BY <2>1, <2>2 DEF Cur, Seen, SeenLen, Whole
  <2>4. Stable' = Stable
    BY <2>2 DEF Stable, Seen, SeenDisk
  <2> QED
    BY <2>1, <2>2, <2>3, <2>4 DEF Register!Publish, Cur, Stable, Whole
<1>5. ASSUME dstDisk' = dst, UNCHANGED <<file, dst>>
      PROVE  Cur' = Cur /\ Stable' = Cur
  BY <1>5 DEF Cur, Stable, Seen, SeenLen, SeenDisk, IInv, PublishedIsWhole, Whole
<1>6. ASSUME NEW w \in Writers, SyncDir(w) PROVE Register!FlushAndAcknowledge
  <2>1. Cur' = Cur /\ Stable' = Cur
    BY <1>5, <1>6 DEF SyncDir
  <2>2. /\ call[w].rank \in 1..dst.rank
        /\ acked' = IF call[w].rank > acked THEN call[w].rank ELSE acked
    BY <1>6 DEF SyncDir, IInv, Ranks
  <2>3. Stable'.rank = dst.rank
    BY <2>1 DEF Cur
  <2> QED
    BY <2>1, <2>2, <2>3 DEF Register!FlushAndAcknowledge, Cur, Stable
<1>7. CASE WriteBackEntry
  <2>1. Cur' = Cur /\ Stable' = Cur /\ acked' = acked
    BY <1>5, <1>7 DEF WriteBackEntry
  <2> QED
    BY <2>1 DEF Register!Flush, Cur, Stable
<1>8. CASE Clear
  <2>1. /\ dst' = [ino |-> NoFile, rank |-> dst.rank + 1]
        /\ UNCHANGED <<file, dstDisk>> /\ UNCHANGED acked
    BY <1>8 DEF Clear
  <2>2. Cur' = [payload |-> NoData, rank |-> Cur.rank + 1]
    BY <2>1 DEF Cur, Seen
  <2>3. Stable' = Stable
    BY <2>1 DEF Stable, Seen, SeenDisk
  <2> QED
    BY <2>1, <2>2, <2>3 DEF Register!Remove, Cur, Stable
<1>9. CASE WriteBackPage
  <2>1. PICK i \in Inodes : /\ file[i].disk < file[i].len
                            /\ file' = [file EXCEPT ![i].disk = @ + 1]
    BY <1>9 DEF WriteBackPage
  <2>2. ~ Whole(i)
    BY <2>1 DEF Whole, IInv, TypeOK, File
  <2>3. \A j \in Inodes \ {i} : file'[j] = file[j]
    BY <2>1 DEF IInv, TypeOK
  <2>4. UNCHANGED <<dst, dstDisk>> /\ UNCHANGED acked
    BY <1>9 DEF WriteBackPage
  <2> QED
    BY <1>0, <2>2, <2>3, <2>4, Invisible
       DEF IInv, PublishedIsWhole, TypeOK, Entry
<1>10. CASE PowerLoss
  <2>1. /\ dst' = dstDisk /\ dstDisk' = dstDisk /\ acked' = acked
        /\ \A i \in Inodes : /\ file'[i].payload = file[i].payload
                              /\ file'[i].len = file[i].disk
                              /\ file'[i].disk = file[i].disk
    BY <1>10 DEF PowerLoss, IInv, TypeOK, File
  <2>2. Cur' = Stable /\ Stable' = Stable
    BY <2>1 DEF Cur, Stable, Seen, SeenLen, SeenDisk, IInv, TypeOK, Entry
  <2> QED
    BY <2>1, <2>2 DEF Register!Crash, Cur, Stable
<1>11. CASE UNCHANGED <<file, dst, dstDisk, acked>>
  <2>1. Stutter
    BY <1>11, Invisible
  <2> QED
    BY <1>0, <2>1
<1> QED
  BY <1>0, <1>1, <1>2, <1>3, <1>6, <1>7, <1>8, <1>9, <1>10, <1>11
     DEF Next, AtomicWrite, Fail, SyncDirFails, Kill, OpenRead, CloseRead,
         SweepTmp, vars

\* AtomicWrite, with everything that can happen around it, implements the
\* register that changes from one whole payload to the next in one step.
THEOREM Refinement == Spec => ImplementsRegister
<1>1. Init => Register!Init
  BY DEF Init, Register!Init, Seen, SeenLen, SeenDisk
<1>2. IInv /\ [Next]_vars => [Register!Next]_(Register!regvars)
  BY RegisterStep
<1> QED
  BY <1>1, <1>2, Invariance, PTL DEF Spec, ImplementsRegister, Register!Spec
=============================================================================
