------------------------------ MODULE Snapshot ------------------------------
(***************************************************************************)
(* The parsed snapshot parsed/ipv4-ranges.bin between the two processes    *)
(* that share the cache directory: `update-db` (subcommands.go:178), which *)
(* fetches, builds and overwrites it in place with os.WriteFile, and       *)
(* `serve` (subcommands.go:323), which maps it, copies it page by page,    *)
(* parses the copy once and then answers from it until it dies.            *)
(*                                                                         *)
(* The registry publishes one file a day, so a version is a day.  A fetch  *)
(* takes at most minutes (the client's timeout, subcommands.go:202) and is *)
(* one step: Mirror's Begin and Return in one, on one day.  There is one   *)
(* updater at a time.  Who starts it depends on the deployment:            *)
(*   - deploy/k8s/cronjob.yaml runs it every day, whatever the servers do; *)
(*   - docker-compose.yml:65 starts the updater's container when a server  *)
(*     is healthy, and until then only `bootstrap`, which a server's       *)
(*     container runs first, calls update-db, if the snapshot's name does  *)
(*     not exist (bootstrap.go:41).                                        *)
(***************************************************************************)
EXTENDS Naturals, Sequences

CONSTANTS
  Servers,     \* the processes that serve
  Pages,       \* pages of a snapshot
  MaxDay,      \* bound: days
  MaxRuns,     \* bound: successful runs of update-db between losses of power
  MaxFaults    \* bound: failures of update-db, deaths of servers, power losses

ASSUME SnapshotAssumption ==
  /\ Pages \in Nat \ {0}
  /\ MaxDay \in Nat \ {0}
  /\ MaxRuns \in Nat
  /\ MaxFaults \in Nat

VARIABLES
  today,       \* the day
  fetchedAt,   \* FetchedAt in the sidecar of the raw file, 0 if there is none
  scheduled,   \* does update-db run every day: the CronJob, a started container
  name,        \* does the snapshot's name exist, as seen and on disk
  file,        \* the pages of the snapshot as system calls see them
  disk,        \* the pages when the kernel last wrote all of them back
  upd,         \* where update-db is, its fetched body
  srv,         \* srv[s]: where s is in its life, its copy of the snapshot
  intact,      \* history: no power loss since the file was last truncated
  acked,       \* history: the version of the last run that has succeeded
  runs,        \* successful runs since the last power loss
  faults       \* faults so far

vars ==
  <<today, fetchedAt, scheduled, name, file, disk, upd, srv, intact, acked, runs, faults>>

----------------------------------------------------------------------------
Day == 1..MaxDay

\* What a page holds: rows of a version, or zeros where the disk never got any.
Page == 0..MaxDay
Image == UNION {[1..n -> Page] : n \in 0..Pages}

Updater == [pc : {"idle", "build", "write"}, body : 0..MaxDay]

\* size: pages mapped; copy: pages copied; quiet, floor: history, whether
\* nothing disturbed the load, and `acked` when it began.
Server == [pc : {"down", "loading", "up"}, size : 0..Pages, copy : Image,
           quiet : BOOLEAN, floor : 0..MaxDay]

Down == [pc |-> "down", size |-> 0, copy |-> <<>>, quiet |-> FALSE, floor |-> 0]

Init ==
  /\ today = 1
  /\ fetchedAt = 0
  /\ scheduled \in BOOLEAN           \* k8s, or compose
  /\ name = [seen |-> FALSE, disk |-> FALSE]
  /\ file = <<>>
  /\ disk = <<>>
  /\ upd = [pc |-> "idle", body |-> 0]
  /\ srv = [s \in Servers |-> Down]
  /\ intact = TRUE
  /\ acked = 0
  /\ runs = 0
  /\ faults = 0

----------------------------------------------------------------------------
(* update-db.                                                              *)

\* Faulty variant: bootstrap leaves a missing snapshot to the updater.
FetchScheduled ==
  /\ upd.pc = "idle"
  /\ runs < MaxRuns
  /\ scheduled
  /\ upd' = [pc |-> "build", body |-> today]
  /\ fetchedAt' = today
  /\ UNCHANGED <<today, scheduled, name, file, disk, srv, intact, acked, runs, faults>>

\* update-db is started, and fetcher.Fetch returns: raw/<key> and its sidecar
\* are on disk.
Fetch ==
  /\ upd.pc = "idle"
  /\ runs < MaxRuns
  /\ scheduled \/ ~ name.seen
  /\ upd' = [pc |-> "build", body |-> today]
  /\ fetchedAt' = today
  /\ UNCHANGED <<today, scheduled, name, file, disk, srv, intact, acked, runs, faults>>

\* Servers that are loading now are disturbed.
Disturb == [s \in Servers |->
  IF srv[s].pc = "loading" THEN [srv[s] EXCEPT !.quiet = FALSE] ELSE srv[s]]

\* Faulty variant: the file is opened without O_TRUNC.
OpenUntruncated ==
  /\ upd.pc = "build"
  /\ upd' = [upd EXCEPT !.pc = "write"]
  /\ name' = [name EXCEPT !.seen = TRUE]
  /\ srv' = Disturb
  /\ UNCHANGED <<today, fetchedAt, scheduled, file, disk, intact, acked, runs, faults>>

\* rir.Build and rir.Snapshot have succeeded; os.WriteFile opens the file,
\* which makes or truncates it.
Truncate ==
  /\ upd.pc = "build"
  /\ upd' = [upd EXCEPT !.pc = "write"]
  /\ name' = [name EXCEPT !.seen = TRUE]
  /\ file' = <<>>
  /\ srv' = Disturb
  /\ intact' = TRUE
  /\ UNCHANGED <<today, fetchedAt, scheduled, disk, acked, runs, faults>>

\* Faulty variant: a short write is written again from its start.
WritePageTwice ==
  /\ upd.pc = "write"
  /\ Len(file) <= Pages
  /\ file' = Append(file, upd.body)
  /\ UNCHANGED <<today, fetchedAt, scheduled, name, disk, upd, srv, intact, acked, runs, faults>>

WritePage ==
  /\ upd.pc = "write"
  /\ Len(file) < Pages
  /\ file' = Append(file, upd.body)
  /\ UNCHANGED <<today, fetchedAt, scheduled, name, disk, upd, srv, intact, acked, runs, faults>>

\* os.WriteFile returns, without an fsync, and update-db exits with 0.
Close ==
  /\ upd.pc = "write"
  /\ Len(file) = Pages
  /\ upd' = [pc |-> "idle", body |-> 0]
  /\ acked' = upd.body
  /\ runs' = runs + 1
  /\ UNCHANGED <<today, fetchedAt, scheduled, name, file, disk, srv, intact, faults>>

\* The build or a write fails, or the process is killed: what was
\* written so far stays, under the name that `serve` opens.  (A fetch that fails
\* changes nothing here.)
Fail ==
  /\ upd.pc # "idle"
  /\ faults < MaxFaults
  /\ upd' = [pc |-> "idle", body |-> 0]
  /\ faults' = faults + 1
  /\ UNCHANGED <<today, fetchedAt, scheduled, name, file, disk, srv, intact, acked, runs>>

----------------------------------------------------------------------------
(* serve.                                                                  *)

\* openSnapshot: mmap.Open maps as many pages as the file has now.
MapFile(s) ==
  /\ srv[s].pc = "down"
  /\ file # <<>>
  /\ srv' = [srv EXCEPT ![s] =
       [pc |-> "loading", size |-> Len(file), copy |-> <<>>,
        quiet |-> intact /\ upd.pc # "write", floor |-> acked]]
  /\ UNCHANGED <<today, fetchedAt, scheduled, name, file, disk, upd, intact, acked, runs, faults>>

\* LoadSnapshot's ReadAt copies the mapping.  A page that the file has lost
\* since it was mapped raises SIGBUS, which ends the process.
ReadPage(s) ==
  LET k == Len(srv[s].copy) + 1 IN
  /\ srv[s].pc = "loading"
  /\ k <= srv[s].size
  /\ srv' = [srv EXCEPT ![s] =
       IF k <= Len(file) THEN [@ EXCEPT !.copy = Append(srv[s].copy, file[k])]
       ELSE Down]
  /\ UNCHANGED <<today, fetchedAt, scheduled, name, file, disk, upd, intact, acked, runs, faults>>

OneVersion(image) == \A j, k \in DOMAIN image : image[j] = image[k]

\* rir.LoadSnapshot refuses a bad header and a file that ends before the rows
\* it counts, and takes a whole snapshot.  Nothing in the file ties its rows
\* together (the raw_sha256 it is written with is zero, and none is expected):
\* a mixture of two versions passes if their counts happen to fit, and so do
\* rows of zeros.
Full(image) == Len(image) = Pages /\ image[1] # 0

Parse(s) ==
  LET copy == srv[s].copy IN
  /\ srv[s].pc = "loading"
  /\ Len(copy) = srv[s].size
  /\ \/ Full(copy) /\ srv' = [srv EXCEPT ![s] = [@ EXCEPT !.pc = "up"]]
     \/ ~ (Full(copy) /\ OneVersion(copy)) /\ srv' = [srv EXCEPT ![s] = Down]
  /\ UNCHANGED <<today, fetchedAt, scheduled, name, file, disk, upd, intact, acked, runs, faults>>

\* The process dies; it is started again, and loads what is there then.
Kill(s) ==
  /\ srv[s].pc # "down"
  /\ faults < MaxFaults
  /\ srv' = [srv EXCEPT ![s] = Down]
  /\ faults' = faults + 1
  /\ UNCHANGED <<today, fetchedAt, scheduled, name, file, disk, upd, intact, acked, runs>>

----------------------------------------------------------------------------
(* The world.                                                              *)

NextDay ==
  /\ today < MaxDay
  /\ today' = today + 1
  /\ UNCHANGED <<fetchedAt, scheduled, name, file, disk, upd, srv, intact, acked, runs, faults>>

\* docker starts the updater's container when a server is healthy, and from then
\* on restarts it by itself.
StartUpdater ==
  /\ ~ scheduled
  /\ \E s \in Servers : srv[s].pc = "up"
  /\ scheduled' = TRUE
  /\ UNCHANGED <<today, fetchedAt, name, file, disk, upd, srv, intact, acked, runs, faults>>

\* The kernel has written everything back, of its own accord.
WriteBack ==
  /\ disk' = file
  /\ name' = [name EXCEPT !.disk = name.seen]
  /\ UNCHANGED <<today, fetchedAt, scheduled, file, upd, srv, intact, acked, runs, faults>>

\* A loss of power leaves any length, and in each page what was written, what
\* was there before, or zeros: nothing was synced, the new name neither.  The
\* sidecar was.
PowerLoss ==
  /\ faults < MaxFaults
  /\ \E e \in {name.seen, name.disk} : name' = [seen |-> e, disk |-> e]
  /\ \E n \in 0..Pages :
       /\ n <= Len(file) \/ n <= Len(disk)
       /\ file = disk => n = Len(file)
       /\ ~ name'.seen => n = 0
       /\ file' \in [1..n -> Page]
       /\ \A k \in 1..n :
            \/ k <= Len(file) /\ file'[k] = file[k]
            \/ k <= Len(disk) /\ file'[k] = disk[k]
            \/ file # disk /\ file'[k] = 0
  /\ disk' = file'
  /\ upd' = [pc |-> "idle", body |-> 0]
  /\ srv' = [s \in Servers |-> Down]
  /\ intact' = FALSE
  /\ acked' = 0
  /\ runs' = 0
  /\ faults' = faults + 1
  /\ UNCHANGED <<today, fetchedAt, scheduled>>

----------------------------------------------------------------------------
Update == Fetch \/ Truncate \/ WritePage \/ Close

Load(s) == MapFile(s) \/ ReadPage(s) \/ Parse(s)

Next ==
  \/ Update
  \/ Fail
  \/ \E s \in Servers : Load(s) \/ Kill(s)
  \/ StartUpdater
  \/ NextDay
  \/ WriteBack
  \/ PowerLoss

Spec == Init /\ [][Next]_vars

\* update-db runs every day once something schedules it (the CronJob, or the
\* updater's loop), bootstrap runs it when it finds no snapshot, a run that does
\* not fail comes to its end, and a server that exits is restarted.  While none
\* of these starts it, Fetch is not enabled and the fairness says nothing.
FairSpec ==
  /\ Spec
  /\ WF_vars(Update)
  /\ WF_vars(StartUpdater)
  /\ \A s \in Servers : WF_vars(Load(s))

----------------------------------------------------------------------------
(* Properties.                                                             *)

TypeOK ==
  /\ today \in Day
  /\ fetchedAt \in 0..MaxDay
  /\ scheduled \in BOOLEAN
  /\ name \in [seen : BOOLEAN, disk : BOOLEAN]
  /\ file \in Image
  /\ disk \in Image
  /\ upd \in Updater
  /\ srv \in [Servers -> Server]
  /\ intact \in BOOLEAN
  /\ acked \in 0..MaxDay
  /\ runs \in Nat
  /\ faults \in Nat

\* A load that no write and no power loss disturbed yields one version, at
\* least as new as the last run that had succeeded when the load began: a run
\* that was killed halfway neither mixes versions nor brings an old one back.
QuietLoadIsExact ==
  \A s \in Servers :
    srv[s].pc = "up" /\ srv[s].quiet =>
      /\ OneVersion(srv[s].copy)
      /\ srv[s].copy[1] >= srv[s].floor

\* The exception: the first snapshot is torn before any server of the compose
\* deployment was healthy.  Its name exists, so bootstrap does not repair it;
\* no server comes up, so the updater's container is not started.
Stranded ==
  /\ ~ scheduled /\ upd.pc = "idle"
  /\ name.seen /\ ~ (Full(file) /\ OneVersion(file))

\* Every server comes to serve for good, after every torn file that faults can
\* leave and every load that an update disturbed, since the next run repairs the
\* file; only a deployment that no run comes to is left out (with k8s's CronJob
\* `scheduled` holds from the start, and there is no exception).
ServersComeUp == (\A s \in Servers : <>[](srv[s].pc = "up")) \/ <>[]Stranded

----------------------------------------------------------------------------
(* What the documents say, and the code does not do.                       *)

\* handleReadyz answers 200: the sidecar's age is at most 48 hours.
Ready(s) == srv[s].pc = "up" /\ fetchedAt # 0 /\ today - fetchedAt <= 2

\* docs/http-api.md:12, `/readyz` means "DB loaded + fresh (age <= 48h)".
ReadyMeansFresh ==
  \A s \in Servers : Ready(s) => today - srv[s].copy[1] <= 2
=============================================================================
