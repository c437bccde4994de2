------------------------------ MODULE Fetcher ------------------------------
(***************************************************************************)
(* cache.Fetcher.fetchOnce (internal/cache/fetch.go): refresh raw/<key>    *)
(* and its sidecar raw/<key>.meta by a conditional GET.  The two files are *)
(* two atomic registers (AtomicRegister, which Store implements) in one    *)
(* directory: a write publishes a whole new value, an fsync of the         *)
(* directory puts both entries on disk, and a loss of power takes each     *)
(* entry back to its copy on disk.  What can go wrong is in between: the   *)
(* files are written one after the other, read one after the other, and    *)
(* nothing orders one `update-db` process against another: fetch.go takes  *)
(* no lock.                                                                *)
(*                                                                         *)
(* A payload is the version of the delegated-stats file it holds, 1, 2,    *)
(* ...; 0 is no file.  An entity tag names the version it came with; 0 is  *)
(* no tag (the meta's ETag and Last-Modified both empty).                  *)
(***************************************************************************)
EXTENDS Naturals

CONSTANTS
  Updaters,     \* processes that run update-db against one cache directory
  NoMeta,       \* no sidecar
  MaxVersion,   \* bound: versions the origin publishes
  MaxFaults     \* bound: failures, crashes and cache clears

ASSUME FetcherAssumption ==
  /\ MaxVersion \in Nat \ {0}
  /\ MaxFaults \in Nat
  /\ NoMeta \notin [etag : 0..MaxVersion, sha : 1..MaxVersion]

VARIABLES
  origin,       \* the version the registry's server has now
  raw,          \* raw/<key> as system calls see it
  rawDisk,      \* the same entry on disk
  meta,         \* raw/<key>.meta as system calls see it
  metaDisk,     \* the same entry on disk
  up,           \* up[p]: where p is in fetchOnce, and its local variables
  faults        \* failures so far

vars == <<origin, raw, rawDisk, meta, metaDisk, up, faults>>

----------------------------------------------------------------------------
Version == 1..MaxVersion
Meta == [etag : 0..MaxVersion, sha : Version]

\* prev: the sidecar the request was built from; next: the one to be written;
\* body: what Fetch will return; since: history, the origin's version when the
\* call began.
Local ==
  [pc : {"idle", "stat", "request", "readCached", "writeRaw", "syncRaw",
         "writeMeta", "syncMeta", "done"},
   prev : Meta \cup {NoMeta}, next : Meta \cup {NoMeta},
   body : 0..MaxVersion, since : 0..MaxVersion]

Idle == [pc |-> "idle", prev |-> NoMeta, next |-> NoMeta, body |-> 0, since |-> 0]

\* The cache starts empty (cache.New has made its directories).
Init ==
  /\ origin = 1
  /\ raw = 0
  /\ rawDisk = 0
  /\ meta = NoMeta
  /\ metaDisk = NoMeta
  /\ up = [p \in Updaters |-> Idle]
  /\ faults = 0

files == <<raw, rawDisk, meta, metaDisk>>

----------------------------------------------------------------------------
(* fetchOnce.                                                              *)

\* readMetaOk, first half: ReadMeta.  Without a sidecar the GET is plain.
ReadMeta(p) ==
  /\ up[p].pc \in {"idle", "done"}
  /\ up' = [up EXCEPT ![p] =
       [pc |-> IF meta = NoMeta THEN "request" ELSE "stat", prev |-> meta,
        next |-> NoMeta, body |-> 0, since |-> origin]]
  /\ UNCHANGED <<origin, files, faults>>

\* Faulty variant: readMetaOk does not look whether raw/<key> is there.
StatRawSkipped(p) ==
  /\ up[p].pc = "stat"
  /\ up' = [up EXCEPT ![p].pc = "request"]
  /\ UNCHANGED <<origin, files, faults>>

\* readMetaOk, second half: Stat.  A sidecar without its payload is ignored.
StatRaw(p) ==
  /\ up[p].pc = "stat"
  /\ up' = [up EXCEPT ![p] =
       [@ EXCEPT !.pc = "request",
                 !.prev = IF raw = 0 THEN NoMeta ELSE up[p].prev]]
  /\ UNCHANGED <<origin, files, faults>>

\* The server has the version the request names: 304.
AnswerNotModified(p) ==
  /\ up[p].pc = "request"
  /\ up[p].prev # NoMeta
  /\ up[p].prev.etag = origin
  /\ up' = [up EXCEPT ![p].pc = "readCached"]
  /\ UNCHANGED <<origin, files, faults>>

\* Faulty variant: an error page is taken for the payload, whatever its status.
AnswerAnyStatus(p) ==
  /\ up[p].pc = "request"
  /\ up' = [up EXCEPT ![p] =
       [@ EXCEPT !.pc = "writeRaw", !.next = [etag |-> 0, sha |-> 0], !.body = 0]]
  /\ UNCHANGED <<origin, files, faults>>

\* Otherwise 200 with the current version, with a validator or without one.
\* A server may also answer 200 to a request it could have answered with 304.
AnswerOK(p) ==
  /\ up[p].pc = "request"
  /\ \E tag \in {0, origin} :
       up' = [up EXCEPT ![p] =
         [pc |-> "writeRaw", prev |-> up[p].prev,
          next |-> [etag |-> tag, sha |-> origin],
          body |-> origin, since |-> up[p].since]]
  /\ UNCHANGED <<origin, files, faults>>

\* Faulty variant: what Store.Read gives is returned without a look at its error.
ReadCachedUnchecked(p) ==
  /\ up[p].pc = "readCached"
  /\ up' = [up EXCEPT ![p] =
       [@ EXCEPT !.pc = "writeMeta", !.body = raw, !.next = up[p].prev]]
  /\ UNCHANGED <<origin, files, faults>>

\* After a 304: Store.Read.  The payload may have gone since the Stat ("304
\* but cache missing").  The sidecar is written again for its FetchedAt.
ReadCached(p) ==
  /\ up[p].pc = "readCached"
  /\ up' = [up EXCEPT ![p] =
       IF raw = 0 THEN Idle
       ELSE [@ EXCEPT !.pc = "writeMeta", !.body = raw, !.next = up[p].prev]]
  /\ UNCHANGED <<origin, files, faults>>

\* After a 200: Store.AtomicWrite of the payload takes effect.
WriteRaw(p) ==
  /\ up[p].pc = "writeRaw"
  /\ raw' = up[p].body
  /\ up' = [up EXCEPT ![p].pc = "syncRaw"]
  /\ UNCHANGED <<origin, rawDisk, meta, metaDisk, faults>>

\* Faulty variant: AtomicWrite returns before it has synced the directory.
SyncRawSkipped(p) ==
  /\ up[p].pc = "syncRaw"
  /\ up' = [up EXCEPT ![p].pc = "writeMeta"]
  /\ UNCHANGED <<origin, files, faults>>

\* ... and is on disk: the directory holds both entries.
SyncRaw(p) ==
  /\ up[p].pc = "syncRaw"
  /\ rawDisk' = raw
  /\ metaDisk' = meta
  /\ up' = [up EXCEPT ![p].pc = "writeMeta"]
  /\ UNCHANGED <<origin, raw, meta, faults>>

\* WriteMeta takes effect.
WriteMeta(p) ==
  /\ up[p].pc = "writeMeta"
  /\ meta' = up[p].next
  /\ up' = [up EXCEPT ![p].pc = "syncMeta"]
  /\ UNCHANGED <<origin, raw, rawDisk, metaDisk, faults>>

\* ... and is on disk: Fetch returns the body.
SyncMeta(p) ==
  /\ up[p].pc = "syncMeta"
  /\ rawDisk' = raw
  /\ metaDisk' = meta
  /\ up' = [up EXCEPT ![p].pc = "done"]
  /\ UNCHANGED <<origin, raw, meta, faults>>

\* Faulty variant: a failed refresh serves what is cached.
FailServingCached(p) ==
  /\ up[p].pc \notin {"idle", "done"}
  /\ faults < MaxFaults
  /\ up' = [up EXCEPT ![p] = [@ EXCEPT !.pc = "done", !.body = raw]]
  /\ faults' = faults + 1
  /\ UNCHANGED <<origin, files>>

\* The request, its body, or a write fails, at whichever step, or the process
\* is killed there: what was published stays, and no step is undone.
Fail(p) ==
  /\ up[p].pc \notin {"idle", "done"}
  /\ faults < MaxFaults
  /\ up' = [up EXCEPT ![p] = Idle]
  /\ faults' = faults + 1
  /\ UNCHANGED <<origin, files>>

----------------------------------------------------------------------------
(* Everybody else.                                                         *)

\* The registry publishes a new file.
Publish ==
  /\ origin < MaxVersion
  /\ origin' = origin + 1
  /\ UNCHANGED <<files, up, faults>>

\* `cache clear` removes the files of raw/ one by one.
ClearRaw ==
  /\ raw # 0
  /\ faults < MaxFaults
  /\ raw' = 0
  /\ faults' = faults + 1
  /\ UNCHANGED <<origin, rawDisk, meta, metaDisk, up>>

ClearMeta ==
  /\ meta # NoMeta
  /\ faults < MaxFaults
  /\ meta' = NoMeta
  /\ faults' = faults + 1
  /\ UNCHANGED <<origin, raw, rawDisk, metaDisk, up>>

\* The kernel writes an entry to disk of its own accord.
WriteBack ==
  /\ \/ rawDisk' = raw /\ UNCHANGED metaDisk
     \/ metaDisk' = meta /\ UNCHANGED rawDisk
  /\ UNCHANGED <<origin, raw, meta, up, faults>>

PowerLoss ==
  /\ faults < MaxFaults
  /\ raw' = rawDisk
  /\ meta' = metaDisk
  /\ up' = [p \in Updaters |-> Idle]
  /\ faults' = faults + 1
  /\ UNCHANGED <<origin, rawDisk, metaDisk>>

----------------------------------------------------------------------------
Fetch(p) ==
  \/ ReadMeta(p)
  \/ StatRaw(p)
  \/ AnswerNotModified(p)
  \/ AnswerOK(p)
  \/ ReadCached(p)
  \/ WriteRaw(p)
  \/ SyncRaw(p)
  \/ WriteMeta(p)
  \/ SyncMeta(p)

Next ==
  \/ \E p \in Updaters : Fetch(p) \/ Fail(p)
  \/ Publish
  \/ ClearRaw
  \/ ClearMeta
  \/ WriteBack
  \/ PowerLoss

Spec == Init /\ [][Next]_vars

\* update-db is run again and again (deploy/k8s/cronjob.yaml: every day), the
\* server it asks answers, and a run that does not fail comes to its end.
\* Nothing makes the kernel write back, the origin publish, or a fault happen.
FairSpec == Spec /\ \A p \in Updaters : WF_vars(Fetch(p))

----------------------------------------------------------------------------
(* Properties.                                                             *)

TypeOK ==
  /\ origin \in Version
  /\ raw \in 0..MaxVersion
  /\ rawDisk \in 0..MaxVersion
  /\ meta \in Meta \cup {NoMeta}
  /\ metaDisk \in Meta \cup {NoMeta}
  /\ up \in [Updaters -> Local]
  /\ faults \in Nat

\* The payload a sidecar vouches for is in raw/<key> or has been replaced by a
\* newer one (fetchOnce writes the payload first, and syncs it first), so that
\* a 304 never confirms a payload older than the server's.
Covers(r, m) == r # 0 /\ m # NoMeta => r >= m.sha

RawCoversMeta == Covers(raw, meta)

\* What Fetch returns is at least as new as what the origin had when Fetch was
\* called, through a 200 or through a 304, whatever failed and was cleared
\* before.
FetchIsFresh ==
  \A p \in Updaters : up[p].pc = "done" => up[p].body >= up[p].since

\* fetchOnce keeps the promise of Fetch (fetch.go:34): each call that returns
\* has a payload that the origin had between the call and the return, whatever
\* the files it reads and writes have been through.
Promised(l) ==
  CASE l.pc = "idle" -> [state |-> "none", since |-> 0, got |-> 0]
    [] l.pc = "done" -> [state |-> "returned", since |-> l.since, got |-> l.body]
    [] OTHER -> [state |-> "running", since |-> l.since, got |-> 0]

Promise == INSTANCE Mirror WITH
  Callers <- Updaters, call <- [p \in Updaters |-> Promised(up[p])]

ImplementsMirror == Promise!Spec

\* Calls come one at a time: what concurrencyPolicy: Forbid does for the
\* CronJob, and what the lock of cache/lock.go would do for every updater if
\* a command took it.
Busy(p) == up[p].pc \notin {"idle", "done"}
Serial == \A p, q \in Updaters : Busy(p) /\ Busy(q) => p = q

\* The cache comes to hold the origin's last version, from every state that
\* faults and clears can leave behind, and then keeps it.
CatchesUp == <>[](raw = origin)
=============================================================================
