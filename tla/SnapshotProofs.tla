--------------------------- MODULE SnapshotProofs ---------------------------
(***************************************************************************)
(* For any number of servers, pages and days: a load that nothing disturbed *)
(* yields one version that is at least as new as the last run that had     *)
(* succeeded.                                                              *)
(*                                                                         *)
(* It rests on what the file is between two truncations: pages of  *)
(* one body (Uniform), which is not older than any acknowledged run, since *)
(* a run asks the registry only after the ones before it (Order).  A load  *)
(* that is not disturbed copies that file (Copying).                       *)
(***************************************************************************)
EXTENDS Snapshot, SequenceTheorems, TLAPS

\* What a run fetches is not older than what earlier runs have written.
Order ==
  /\ acked <= today
  /\ upd.pc # "idle" => acked <= upd.body /\ upd.body <= today

\* Without a loss of power the file is of one body, not older than `acked`.
Uniform ==
  /\ intact => OneVersion(file) /\ \A k \in 1..Len(file) : acked <= file[k]
  /\ upd.pc = "write" => intact /\ \A k \in 1..Len(file) : file[k] = upd.body

\* A load that is not disturbed has copied the first pages of the file.
Copying ==
  \A s \in Servers : srv[s].pc = "loading" /\ srv[s].quiet =>
    /\ intact
    /\ upd.pc # "write"
    /\ srv[s].size = Len(file)
    /\ Len(srv[s].copy) <= Len(file)
    /\ \A k \in 1..Len(srv[s].copy) : srv[s].copy[k] = file[k]
    /\ \A k \in 1..Len(file) : srv[s].floor <= file[k]

IInv ==
  /\ TypeOK
  /\ Order
  /\ Uniform
  /\ Copying
 
  /\ QuietLoadIsExact

----------------------------------------------------------------------------
(* Images.                                                                 *)

\* What the assumption says of the numbers.
LEMMA Numbers == Pages \in Nat \ {0} /\ MaxDay \in Nat \ {0}
BY SnapshotAssumption

\* An image is a sequence of pages.
LEMMA ImageIsSeq ==
  ASSUME NEW x \in Image
  PROVE  /\ x \in Seq(Page) /\ Len(x) \in 0..Pages /\ DOMAIN x = 1..Len(x)
         /\ \A k \in 1..Len(x) : x[k] \in Page
<1> USE Numbers
<1>1. PICK n \in 0..Pages : x \in [1..n -> Page]
  BY DEF Image
<1>2. x \in Seq(Page)
  BY <1>1, SeqDef
<1>3. Len(x) \in Nat /\ DOMAIN x = 1..Len(x) /\ x \in [1..Len(x) -> Page]
  BY <1>2, LenProperties
<1>4. Len(x) = n
  BY <1>1, <1>3
<1> QED
  BY <1>2, <1>3, <1>4

\* A short sequence of pages is an image.
LEMMA SeqIsImage ==
  ASSUME NEW x \in Seq(Page), Len(x) <= Pages
  PROVE  x \in Image
<1>1. Len(x) \in Nat /\ x \in [1..Len(x) -> Page]
  BY LenProperties
<1>2. Len(x) \in 0..Pages
  BY <1>1, Numbers
<1> QED
  BY <1>1, <1>2 DEF Image

\* A page is written, or copied, at the end.
LEMMA AppendPage ==
  ASSUME NEW x \in Image, NEW p \in Page, Len(x) < Pages
  PROVE  /\ Append(x, p) \in Image
         /\ Len(Append(x, p)) = Len(x) + 1
         /\ \A k \in 1..Len(x) + 1 : Append(x, p)[k] = IF k = Len(x) + 1 THEN p ELSE x[k]
<1>1. x \in Seq(Page) /\ Len(x) \in 0..Pages
  BY ImageIsSeq
<1>2. /\ Append(x, p) \in Seq(Page) /\ Len(Append(x, p)) = Len(x) + 1
      /\ \A k \in 1..Len(x) : Append(x, p)[k] = x[k]
      /\ Append(x, p)[Len(x) + 1] = p
  BY <1>1, AppendProperties
<1>3. Append(x, p) \in Image
  <2> DEFINE y == Append(x, p)
  <2>1. y \in Seq(Page) /\ Len(y) <= Pages
    BY <1>1, <1>2, Numbers
  <2> HIDE DEF y
  <2>2. y \in Image
    BY <2>1, SeqIsImage
  <2> QED
    BY <2>2 DEF y
<1>4. \A k \in 1..Len(x) + 1 : k # Len(x) + 1 => k \in 1..Len(x)
  BY <1>1, Numbers
<1> QED
  BY <1>2, <1>3, <1>4

\* An empty file is an image.
LEMMA EmptyImage == <<>> \in Image /\ Len(<<>>) = 0
<1>1. ASSUME NEW e, e = <<>> PROVE e \in Image
  <2>1. e \in Seq(Page) /\ Len(e) = 0
    BY <1>1, EmptySeq
  <2>2. e \in Seq(Page) /\ Len(e) <= Pages
    BY <2>1, Numbers
  <2> QED
    BY <2>2, SeqIsImage
<1>2. Len(<<>>) = 0
  BY EmptySeq
<1> QED
  BY <1>1, <1>2

\* A server that is not running has its type.
LEMMA DownTyped == Down \in Server
BY EmptyImage, Numbers DEF Down, Server

----------------------------------------------------------------------------
(* The initial states, and the steps.                                      *)

LEMMA InitIInv == Init => IInv
<1> USE Numbers, EmptyImage
<1> SUFFICES ASSUME Init PROVE IInv
  OBVIOUS
<1>1. srv \in [Servers -> Server]
  BY DownTyped DEF Init
<1>2. /\ today = 1 /\ fetchedAt = 0 /\ file = <<>> /\ disk = <<>> /\ intact = TRUE
      /\ upd = [pc |-> "idle", body |-> 0] /\ acked = 0 /\ runs = 0 /\ faults = 0
      /\ scheduled \in BOOLEAN /\ name = [seen |-> FALSE, disk |-> FALSE]
      /\ \A s \in Servers : srv[s].pc = "down"
  BY DEF Init, Down
<1>3. TypeOK
  BY <1>1, <1>2 DEF TypeOK, Day, Updater
<1>4. Order /\ Copying /\ QuietLoadIsExact
  BY <1>2 DEF Order, Copying, QuietLoadIsExact
<1>5. Uniform
  <2>1. \A k \in DOMAIN file : FALSE
    BY <1>2
  <2> QED
    BY <1>2, <2>1 DEF Uniform, OneVersion
<1> QED
  BY <1>3, <1>4, <1>5 DEF IInv

\* A step that leaves the file and the servers alone, and does not take update-db
\* into its write.
LEMMA QuietStep ==
  ASSUME IInv, TypeOK', Order', UNCHANGED <<file, srv, intact, acked>>,
         upd'.pc # "write"
  PROVE  IInv'
<1>1. Uniform'
  BY DEF IInv, Uniform
<1>2. Copying'
  BY DEF IInv, Copying
<1>3. QuietLoadIsExact'
  BY DEF IInv, QuietLoadIsExact
<1> QED
  BY <1>1, <1>2, <1>3 DEF IInv

LEMMA FetchKeeps == ASSUME IInv, Fetch PROVE IInv'
<1> USE Numbers
<1>1. /\ upd' = [pc |-> "build", body |-> today] /\ fetchedAt' = today
      /\ UNCHANGED <<today, scheduled, name, file, disk, srv, intact, acked, runs, faults>>
  BY DEF Fetch
<1>2. TypeOK' /\ Order'
  BY <1>1 DEF IInv, TypeOK, Order, Updater, Day
<1> QED
  BY <1>1, <1>2, QuietStep

LEMMA StartUpdaterKeeps == ASSUME IInv, StartUpdater PROVE IInv'
<1>1. TypeOK' /\ Order'
  BY DEF IInv, StartUpdater, TypeOK, Order
<1>2. Uniform' /\ Copying' /\ QuietLoadIsExact'
  BY DEF IInv, StartUpdater, Uniform, Copying, QuietLoadIsExact
<1> QED
  BY <1>1, <1>2 DEF IInv

LEMMA FailKeeps == ASSUME IInv, Fail PROVE IInv'
<1> USE Numbers
<1>1. TypeOK' /\ Order'
  BY DEF IInv, Fail, TypeOK, Order, Updater
<1> QED
  BY <1>1, QuietStep DEF Fail

LEMMA NextDayKeeps == ASSUME IInv, NextDay PROVE IInv'
<1> USE Numbers
<1>1. TypeOK'
  BY DEF IInv, NextDay, TypeOK, Day
<1>2. Order'
  BY DEF IInv, NextDay, TypeOK, Order, Day, Updater
<1>3. Uniform' /\ Copying' /\ QuietLoadIsExact'
  BY DEF IInv, NextDay, Uniform, Copying, QuietLoadIsExact
<1> QED
  BY <1>1, <1>2, <1>3 DEF IInv

LEMMA WriteBackKeeps == ASSUME IInv, WriteBack PROVE IInv'
<1>1. TypeOK' /\ Order'
  BY DEF IInv, WriteBack, TypeOK, Order
<1>2. Uniform' /\ Copying' /\ QuietLoadIsExact'
  BY DEF IInv, WriteBack, Uniform, Copying, QuietLoadIsExact
<1> QED
  BY <1>1, <1>2 DEF IInv

\* The truncation disturbs every load, and starts a file of one body.
LEMMA TruncateKeeps == ASSUME IInv, Truncate PROVE IInv'
<1> USE Numbers
<1>1. /\ upd' = [upd EXCEPT !.pc = "write"] /\ file' = <<>> /\ srv' = Disturb /\ intact' = TRUE
      /\ UNCHANGED <<today, fetchedAt, scheduled, disk, acked, runs, faults>> /\ upd.pc = "build"
      /\ name' = [name EXCEPT !.seen = TRUE]
  BY DEF Truncate
<1>2. srv' \in [Servers -> Server]
  <2>1. \A s \in Servers : srv[s] \in Server
    BY DEF IInv, TypeOK
  <2>2. \A s \in Servers : [srv[s] EXCEPT !.quiet = FALSE] \in Server
    BY <2>1 DEF Server
  <2> QED
    BY <1>1, <2>1, <2>2 DEF Disturb
<1>3. \A s \in Servers :
        /\ srv'[s].pc = srv[s].pc /\ srv'[s].copy = srv[s].copy /\ srv'[s].floor = srv[s].floor
        /\ srv[s].pc = "loading" => srv'[s].quiet = FALSE
        /\ srv[s].pc # "loading" => srv'[s] = srv[s]
  BY <1>1 DEF IInv, TypeOK, Disturb, Server
<1>4. TypeOK'
  BY <1>1, <1>2, EmptyImage DEF IInv, TypeOK, Updater
<1>5. Order'
  BY <1>1 DEF IInv, TypeOK, Order, Updater
<1>6. Uniform'
  <2>1. \A k \in DOMAIN file' : FALSE
    BY <1>1
  <2>2. Len(file') = 0
    BY <1>1, EmptyImage
  <2> QED
    BY <1>1, <2>1, <2>2 DEF Uniform, OneVersion
<1>7. Copying'
  BY <1>3 DEF Copying
<1>8. QuietLoadIsExact'
  BY <1>3 DEF IInv, QuietLoadIsExact
<1> QED
  BY <1>4, <1>5, <1>6, <1>7, <1>8 DEF IInv

LEMMA WritePageKeeps == ASSUME IInv, WritePage PROVE IInv'
<1> USE Numbers
<1>1. /\ upd.pc = "write" /\ Len(file) < Pages /\ file' = Append(file, upd.body)
      /\ UNCHANGED <<today, fetchedAt, scheduled, name, disk, upd, srv, intact, acked, runs, faults>>
  BY DEF WritePage
<1>2. file \in Image /\ upd.body \in Page /\ Len(file) \in 0..Pages
  BY ImageIsSeq DEF IInv, TypeOK, Updater, Page
<1>3. /\ file' \in Image /\ Len(file') = Len(file) + 1
      /\ \A k \in 1..Len(file) + 1 :
           file'[k] = IF k = Len(file) + 1 THEN upd.body ELSE file[k]
  BY <1>1, <1>2, AppendPage
<1>4. TypeOK' /\ Order'
  BY <1>1, <1>3 DEF IInv, TypeOK, Order
<1>5. \A k \in 1..Len(file') : file'[k] = upd.body
  <2>1. \A k \in 1..Len(file) : file[k] = upd.body
    BY <1>1 DEF IInv, Uniform
  <2>2. \A k \in 1..Len(file) + 1 : k # Len(file) + 1 => k \in 1..Len(file)
    BY <1>2
  <2> QED
    BY <1>3, <2>1, <2>2
<1>6. Uniform'
  <2>1. DOMAIN file' = 1..Len(file')
    BY <1>3, ImageIsSeq
  <2>2. acked <= upd.body /\ intact
    BY <1>1 DEF IInv, Order, Uniform
  <2> QED
    BY <1>1, <1>5, <2>1, <2>2 DEF Uniform, OneVersion
<1>7. Copying' /\ QuietLoadIsExact'
  BY <1>1 DEF IInv, Copying, QuietLoadIsExact
<1> QED
  BY <1>4, <1>6, <1>7 DEF IInv

LEMMA CloseKeeps == ASSUME IInv, Close PROVE IInv'
<1> USE Numbers
<1>1. /\ upd.pc = "write" /\ Len(file) = Pages /\ upd' = [pc |-> "idle", body |-> 0]
      /\ acked' = upd.body /\ runs' = runs + 1
      /\ UNCHANGED <<today, fetchedAt, scheduled, name, file, disk, srv, intact, faults>>
  BY DEF Close
<1>2. TypeOK'
  BY <1>1 DEF IInv, TypeOK, Updater
<1>3. Order'
  BY <1>1 DEF IInv, Order
<1>4. Uniform'
  BY <1>1 DEF IInv, Uniform, TypeOK, Updater
<1>5. Copying' /\ QuietLoadIsExact'
  BY <1>1 DEF IInv, Copying, QuietLoadIsExact
<1> QED
  BY <1>2, <1>3, <1>4, <1>5 DEF IInv

\* A step of one server, the others and the file being left alone.
LEMMA ServerStep ==
  ASSUME IInv, NEW s \in Servers, NEW t \in Server, srv' = [srv EXCEPT ![s] = t],
         UNCHANGED <<today, fetchedAt, scheduled, name, file, disk, upd, intact, acked, runs>>,
         faults' \in Nat,
         t.pc = "up" /\ t.quiet => OneVersion(t.copy) /\ t.copy[1] >= t.floor,
         t.pc = "loading" /\ t.quiet =>
           /\ intact /\ upd.pc # "write" /\ t.size = Len(file) /\ Len(t.copy) <= Len(file)
           /\ \A k \in 1..Len(t.copy) : t.copy[k] = file[k]
           /\ \A k \in 1..Len(file) : t.floor <= file[k]
  PROVE  IInv'
<1>1. /\ srv' \in [Servers -> Server] /\ srv'[s] = t
      /\ \A r \in Servers : r # s => srv'[r] = srv[r]
  BY DEF IInv, TypeOK
<1>2. TypeOK' /\ Order' /\ Uniform'
  BY <1>1 DEF IInv, TypeOK, Order, Uniform
<1>3. Copying'
  BY <1>1 DEF IInv, Copying
<1>4. QuietLoadIsExact'
  BY <1>1 DEF IInv, QuietLoadIsExact
<1> QED
  BY <1>2, <1>3, <1>4 DEF IInv

LEMMA KillKeeps == ASSUME IInv, NEW s \in Servers, Kill(s) PROVE IInv'
<1>1. Down \in Server /\ Down.pc = "down"
  BY DownTyped DEF Down
<1>2. faults' \in Nat
  BY DEF IInv, TypeOK, Kill
<1> QED
  BY <1>1, <1>2, ServerStep DEF Kill

LEMMA MapFileKeeps == ASSUME IInv, NEW s \in Servers, MapFile(s) PROVE IInv'
<1> USE Numbers
<1> DEFINE t == [pc |-> "loading", size |-> Len(file), copy |-> <<>>,
                 quiet |-> intact /\ upd.pc # "write", floor |-> acked]
<1>1. /\ srv' = [srv EXCEPT ![s] = t]
      /\ UNCHANGED <<today, fetchedAt, scheduled, name, file, disk, upd, intact, acked, runs, faults>>
  BY DEF MapFile
<1>2. Len(file) \in 0..Pages /\ <<>> \in Image /\ Len(<<>>) = 0
  BY ImageIsSeq, EmptyImage DEF IInv, TypeOK
<1>3. t \in Server
  BY <1>2 DEF IInv, TypeOK, Server
<1>4. /\ t.pc = "loading" /\ t.size = Len(file) /\ t.copy = <<>> /\ t.floor = acked
      /\ t.quiet => intact /\ upd.pc # "write"
  OBVIOUS
<1>5. intact => \A k \in 1..Len(file) : acked <= file[k]
  BY DEF IInv, Uniform
<1>6. faults' \in Nat
  BY <1>1 DEF IInv, TypeOK
<1>7. Len(t.copy) = 0 /\ Len(t.copy) <= Len(file)
  BY <1>2
<1> HIDE DEF t
<1>8. t.pc # "up"
  BY <1>4
<1>9. t.quiet =>
        /\ intact /\ upd.pc # "write" /\ t.size = Len(file) /\ Len(t.copy) <= Len(file)
        /\ \A k \in 1..Len(t.copy) : t.copy[k] = file[k]
        /\ \A k \in 1..Len(file) : t.floor <= file[k]
  <2>1. \A k \in 1..Len(t.copy) : FALSE
    BY <1>7
  <2> QED
    BY <1>4, <1>5, <1>7, <2>1
<1> QED
  BY <1>1, <1>3, <1>6, <1>8, <1>9, ServerStep

LEMMA ReadPageKeeps == ASSUME IInv, NEW s \in Servers, ReadPage(s) PROVE IInv'
<1> USE Numbers
<1> DEFINE k == Len(srv[s].copy) + 1
           t == [srv[s] EXCEPT !.copy = Append(srv[s].copy, file[k])]
<1>1. /\ srv[s].pc = "loading" /\ k <= srv[s].size
      /\ srv' = [srv EXCEPT ![s] = IF k <= Len(file) THEN t ELSE Down]
      /\ UNCHANGED <<today, fetchedAt, scheduled, name, file, disk, upd, intact, acked, runs, faults>>
  BY DEF ReadPage
<1>2. faults' \in Nat
  BY <1>1 DEF IInv, TypeOK
<1>3. CASE ~ k <= Len(file)
  BY <1>1, <1>2, <1>3, ServerStep, DownTyped DEF Down
<1>4. CASE k <= Len(file)
  <2>1. /\ srv[s] \in Server /\ srv[s].copy \in Image /\ file \in Image
        /\ srv[s].size \in 0..Pages
    BY DEF IInv, TypeOK, Server
  <2>2. Len(srv[s].copy) \in 0..Pages /\ Len(file) \in 0..Pages
    BY <2>1, ImageIsSeq
  <2>3. k \in 1..Len(file) /\ Len(srv[s].copy) < Pages
    BY <1>1, <1>4, <2>1, <2>2
  <2>4. file[k] \in Page
    BY <2>1, <2>3, ImageIsSeq
  <2> DEFINE new == Append(srv[s].copy, file[k])
  <2>5. /\ new \in Image /\ Len(new) = k
        /\ \A j \in 1..k : new[j] = IF j = k THEN file[k] ELSE srv[s].copy[j]
    BY <2>1, <2>3, <2>4, AppendPage
  <2>6. /\ t \in Server /\ t.pc = "loading" /\ t.copy = new /\ t.size = srv[s].size
        /\ t.quiet = srv[s].quiet /\ t.floor = srv[s].floor
    BY <1>1, <2>1, <2>5 DEF Server
  <2>7. srv' = [srv EXCEPT ![s] = t]
    BY <1>1, <1>4
  <2>8. \A j \in 1..k : j # k => j \in 1..Len(srv[s].copy)
    BY <2>2
  <2> HIDE DEF t, new, k
  <2>9. t.quiet =>
          /\ intact /\ upd.pc # "write" /\ t.size = Len(file) /\ Len(t.copy) <= Len(file)
          /\ \A j \in 1..Len(t.copy) : t.copy[j] = file[j]
          /\ \A j \in 1..Len(file) : t.floor <= file[j]
    BY <1>1, <1>4, <2>5, <2>6, <2>8 DEF IInv, Copying
  <2> QED
    BY <1>1, <1>2, <2>6, <2>7, <2>9, ServerStep
<1> QED
  BY <1>3, <1>4

LEMMA ParseKeeps == ASSUME IInv, NEW s \in Servers, Parse(s) PROVE IInv'
<1> USE Numbers
<1> DEFINE t == [srv[s] EXCEPT !.pc = "up"]
<1>1. /\ srv[s].pc = "loading" /\ Len(srv[s].copy) = srv[s].size
      /\ UNCHANGED <<today, fetchedAt, scheduled, name, file, disk, upd, intact, acked, runs, faults>>
      /\ \/ Len(srv[s].copy) = Pages /\ srv' = [srv EXCEPT ![s] = t]
         \/ srv' = [srv EXCEPT ![s] = Down]
  BY DEF Parse, Full
<1>2. faults' \in Nat
  BY <1>1 DEF IInv, TypeOK
<1>3. CASE srv' = [srv EXCEPT ![s] = Down]
  BY <1>1, <1>2, <1>3, ServerStep, DownTyped DEF Down
<1>4. CASE Len(srv[s].copy) = Pages /\ srv' = [srv EXCEPT ![s] = t]
  <2>1. srv[s] \in Server /\ srv[s].copy \in Image
    BY DEF IInv, TypeOK, Server
  <2>2. DOMAIN srv[s].copy = 1..Pages
    BY <1>4, <2>1, ImageIsSeq
  <2>3. /\ t \in Server /\ t.pc = "up" /\ t.copy = srv[s].copy
        /\ t.quiet = srv[s].quiet /\ t.floor = srv[s].floor
    BY <2>1 DEF Server
  <2>4. ASSUME t.quiet PROVE OneVersion(t.copy) /\ t.copy[1] >= t.floor
    <3>1. /\ intact /\ Pages = Len(file)
          /\ \A k \in 1..Pages : srv[s].copy[k] = file[k]
          /\ \A k \in 1..Pages : srv[s].floor <= file[k]
      BY <1>1, <1>4, <2>3, <2>4 DEF IInv, Copying
    <3>2. OneVersion(file) /\ DOMAIN file = 1..Pages
      BY <3>1, ImageIsSeq DEF IInv, Uniform, TypeOK
    <3>3. 1 \in 1..Pages
      OBVIOUS
    <3>4. file[1] \in Nat /\ srv[s].floor \in Nat
      BY <2>1, <3>2, <3>3, ImageIsSeq, <3>1 DEF IInv, TypeOK, Server, Page
    <3> HIDE DEF t
    <3> QED
      BY <2>2, <2>3, <3>1, <3>2, <3>3, <3>4 DEF OneVersion
  <2> HIDE DEF t
  <2> QED
    BY <1>1, <1>2, <1>4, <2>3, <2>4, ServerStep
<1> QED
  BY <1>1, <1>3, <1>4

\* After a loss of power nothing is promised of the file, and no server runs.
LEMMA PowerLossKeeps == ASSUME IInv, PowerLoss PROVE IInv'
<1> USE Numbers
<1>1. PICK n \in 0..Pages : file' \in [1..n -> Page]
  BY DEF PowerLoss
<1>2. /\ disk' = file' /\ upd' = [pc |-> "idle", body |-> 0]
      /\ srv' = [s \in Servers |-> Down] /\ intact' = FALSE /\ acked' = 0 /\ runs' = 0
      /\ faults' = faults + 1 /\ UNCHANGED <<today, fetchedAt, scheduled>>
  BY DEF PowerLoss
<1>3. file' \in Image
  BY <1>1 DEF Image
<1>4. TypeOK'
  <2>1. srv' \in [Servers -> Server]
    BY <1>2, DownTyped
  <2>2. upd' \in Updater
    BY <1>2 DEF Updater
  <2>3. acked' \in 0..MaxDay /\ runs' \in Nat /\ faults' \in Nat
    BY <1>2 DEF IInv, TypeOK
  <2>4. name' \in [seen : BOOLEAN, disk : BOOLEAN]
    BY DEF IInv, TypeOK, PowerLoss
  <2> QED
    BY <1>2, <1>3, <2>1, <2>2, <2>3, <2>4 DEF IInv, TypeOK
<1>5. Order' /\ Uniform'
  BY <1>2 DEF IInv, TypeOK, Order, Uniform, Day
<1>6. \A s \in Servers : srv'[s].pc = "down"
  BY <1>2 DEF Down
<1>7. Copying' /\ QuietLoadIsExact'
  BY <1>6 DEF Copying, QuietLoadIsExact
<1> QED
  BY <1>4, <1>5, <1>7 DEF IInv

----------------------------------------------------------------------------
(* The theorems.                                                           *)

\* Every step keeps the invariant.
LEMMA StepKeeps == IInv /\ [Next]_vars => IInv'
<1> SUFFICES ASSUME IInv, [Next]_vars PROVE IInv'
  OBVIOUS
<1>1. CASE Update
  BY <1>1, FetchKeeps, TruncateKeeps, WritePageKeeps, CloseKeeps DEF Update
<1>2. CASE Fail
  BY <1>2, FailKeeps
<1>3. ASSUME NEW s \in Servers, Load(s) \/ Kill(s) PROVE IInv'
  BY <1>3, MapFileKeeps, ReadPageKeeps, ParseKeeps, KillKeeps DEF Load
<1>4. CASE StartUpdater \/ NextDay \/ WriteBack \/ PowerLoss
  BY <1>4, StartUpdaterKeeps, NextDayKeeps, WriteBackKeeps, PowerLossKeeps
<1>5. CASE UNCHANGED vars
  BY <1>5 DEF vars, IInv, TypeOK, Order, Uniform, Copying, QuietLoadIsExact
<1> QED
  BY <1>1, <1>2, <1>3, <1>4, <1>5 DEF Next

LEMMA Invariance == Spec => []IInv
BY InitIInv, StepKeeps, PTL DEF Spec

\* Every variable keeps its type, whatever update-db, the servers and the power
\* do (the pages of a torn file are pages).
THEOREM TypeCorrect == Spec => []TypeOK
<1>1. IInv => TypeOK
  BY DEF IInv
<1> QED
  BY <1>1, Invariance, PTL

\* A load during which update-db does not write yields one version, not older
\* than the last run that has succeeded.
THEOREM ExactLoads == Spec => []QuietLoadIsExact
<1>1. IInv => QuietLoadIsExact
  BY DEF IInv
<1> QED
  BY <1>1, Invariance, PTL
=============================================================================
