--------------------------- MODULE CommandProofs ---------------------------
(***************************************************************************)
(* Two commands, each from its own module: the fetch of `update-db`, and   *)
(* `check`.                                                                *)
(*                                                                         *)
(* Fetcher.  For any number of versions, faults and updaters whose calls   *)
(* come one at a time (Serial): the payload on disk covers the sidecar,    *)
(* Fetch returns a payload at least as new as the origin's when it was     *)
(* called, and fetchOnce implements Mirror.  Serial is a hypothesis of the *)
(* theorems and not of the module, because the code does not enforce it:   *)
(* with two calls at once none of this holds, and run fetcher_two_updaters *)
(* shows where it ends.  RawCoversMeta is not inductive.  After a loss of  *)
(* power any copy of raw/<key> may meet any copy of the sidecar, so all    *)
(* four pairs must cover; and the sidecar about to be written must be      *)
(* covered before it exists, which is what writing and syncing the payload *)
(* first achieves.                                                         *)
(*                                                                         *)
(* Check.  For any inputs and any size of the CSV buffer: the rows are     *)
(* those of the first inputs given, and exit 0 means that at most a buffer *)
(* of them is missing.  What is behind standard output says too little to  *)
(* be inductive.  In the loop, the output, the buffer, the row and the     *)
(* inputs that are left are, in this order, the header and dedup's list;   *)
(* and that this list has each input once, in the order of first use, is   *)
(* an induction over dedup's loop.                                         *)
(***************************************************************************)
EXTENDS Fetcher, Check, FiniteSetTheorems, SequenceTheorems, WellFoundedInduction, TLAPS

----------------------------------------------------------------------------
(* Fetches that come one at a time.                                        *)

\* A sidecar no newer than version v; its tag, if any, names its payload.
Sound(m, v) == m # NoMeta => m.sha <= v /\ m.etag \in {0, m.sha}

\* Both copies of the payload cover m.
Covered(m) == Covers(raw, m) /\ Covers(rawDisk, m)

\* Nothing in the cache is from the future.
Past ==
  /\ raw <= origin /\ rawDisk <= origin
  /\ Sound(meta, origin) /\ Sound(metaDisk, origin)

\* Whichever copies a loss of power leaves, they fit.
CopiesCover == Covered(meta) /\ Covered(metaDisk)

\* Nothing in a call is from the future.
Begun(l) ==
  /\ Sound(l.prev, origin)
  /\ l.since <= origin
  /\ l.body <= origin

\* A call that will ask or has asked whether prev is current.
Asking(l) ==
  l.pc \in {"stat", "request", "readCached"} =>
    /\ Covered(l.prev)
    /\ l.pc = "readCached" => l.prev # NoMeta /\ l.prev.sha >= l.since

\* A call that has a new payload to write and its sidecar after it.
Replacing(l) ==
  l.pc \in {"writeRaw", "syncRaw"} =>
    /\ l.next # NoMeta /\ l.next.sha = l.body /\ l.next.etag \in {0, l.body}
    /\ l.body >= l.since
    /\ Sound(meta, l.body) /\ Sound(metaDisk, l.body)
    /\ l.pc = "syncRaw" => raw \in {0, l.body}

\* A call whose payload is in place and on disk.
Finishing(l) ==
  /\ l.pc \in {"writeMeta", "syncMeta", "done"} => l.body >= l.since
  /\ l.pc = "writeMeta" =>
       l.next # NoMeta /\ Sound(l.next, origin) /\ Covered(l.next)

Progress(p) ==
  Begun(up[p]) /\ Asking(up[p]) /\ Replacing(up[p]) /\ Finishing(up[p])

IInv ==
  /\ TypeOK
  /\ Past
  /\ CopiesCover
  /\ \A p \in Updaters : Progress(p)

----------------------------------------------------------------------------
\* The empty cache satisfies the invariant.
LEMMA InitIInv == Init => IInv
<1> USE FetcherAssumption
<1> SUFFICES ASSUME Init PROVE IInv
  OBVIOUS
<1>1. TypeOK
  BY DEF Init, TypeOK, Version, Local, Idle
<1>2. Past /\ CopiesCover
  BY DEF Init, Past, CopiesCover, Covered, Covers, Sound, Idle
<1>3. ASSUME NEW p \in Updaters PROVE Progress(p)
  <2>1. up[p] = Idle /\ origin = 1
    BY DEF Init
  <2> QED
    BY <2>1 DEF Progress, Begun, Sound, Asking, Replacing, Finishing, Idle
<1> QED
  BY <1>1, <1>2, <1>3 DEF IInv

\* Every step of Fetch, of the origin, of clear and of a fault keeps the types.
LEMMA TypeStep == TypeOK /\ [Next]_vars => TypeOK'
<1> USE FetcherAssumption DEF TypeOK, Version, Local, Idle, Meta
<1> SUFFICES ASSUME TypeOK, [Next]_vars PROVE TypeOK'
  OBVIOUS
<1>1. ASSUME NEW p \in Updaters, ReadMeta(p) PROVE TypeOK'
  <2>1. [pc |-> IF meta = NoMeta THEN "request" ELSE "stat", prev |-> meta,
         next |-> NoMeta, body |-> 0, since |-> origin] \in Local
    OBVIOUS
  <2> QED
    BY <1>1, <2>1 DEF ReadMeta, files
<1>2. ASSUME NEW p \in Updaters, StatRaw(p) PROVE TypeOK'
  <2>1. [up[p] EXCEPT !.pc = "request",
                      !.prev = IF raw = 0 THEN NoMeta ELSE up[p].prev] \in Local
    OBVIOUS
  <2> QED
    BY <1>2, <2>1 DEF StatRaw, files
<1>3. ASSUME NEW p \in Updaters, AnswerNotModified(p) PROVE TypeOK'
  BY <1>3 DEF AnswerNotModified, files
<1>4. ASSUME NEW p \in Updaters, AnswerOK(p) PROVE TypeOK'
  <2>1. PICK tag \in {0, origin} :
          up' = [up EXCEPT ![p] =
            [pc |-> "writeRaw", prev |-> up[p].prev,
             next |-> [etag |-> tag, sha |-> origin],
             body |-> origin, since |-> up[p].since]]
    BY <1>4 DEF AnswerOK
  <2>2. [etag |-> tag, sha |-> origin] \in Meta
    OBVIOUS
  <2>3. [pc |-> "writeRaw", prev |-> up[p].prev,
         next |-> [etag |-> tag, sha |-> origin],
         body |-> origin, since |-> up[p].since] \in Local
    BY <2>2
  <2> QED
    BY <1>4, <2>1, <2>3 DEF AnswerOK, files
<1>5. ASSUME NEW p \in Updaters, ReadCached(p) PROVE TypeOK'
  <2>1. raw # 0 => [up[p] EXCEPT !.pc = "writeMeta", !.body = raw,
                                 !.next = up[p].prev] \in Local
    OBVIOUS
  <2> QED
    BY <1>5, <2>1 DEF ReadCached, files
<1>6. ASSUME NEW p \in Updaters, WriteRaw(p) \/ SyncRaw(p) PROVE TypeOK'
  BY <1>6 DEF WriteRaw, SyncRaw
<1>7. ASSUME NEW p \in Updaters, WriteMeta(p) \/ SyncMeta(p) PROVE TypeOK'
  BY <1>7 DEF WriteMeta, SyncMeta
<1>8. ASSUME NEW p \in Updaters, Fail(p) PROVE TypeOK'
  BY <1>8 DEF Fail, files
<1>9. CASE Publish
  BY <1>9 DEF Publish, files
<1>10. CASE ClearRaw \/ ClearMeta \/ WriteBack \/ PowerLoss
  BY <1>10 DEF ClearRaw, ClearMeta, WriteBack, PowerLoss
<1>11. CASE UNCHANGED vars
  BY <1>11 DEF vars
<1> QED
  BY <1>1, <1>2, <1>3, <1>4, <1>5, <1>6, <1>7, <1>8, <1>9, <1>10, <1>11
     DEF Next, Fetch

\* What a step of a call does to the cache and to the call itself.
LEMMA CallStep ==
  ASSUME IInv, NEW u \in Updaters, Fetch(u) \/ Fail(u)
  PROVE  Past' /\ CopiesCover' /\ Progress(u)'
<1> USE FetcherAssumption
<1> USE DEF IInv, TypeOK, Version, Local, Meta, Past, CopiesCover, Covered, Covers,
            Sound, Progress, Begun, Asking, Replacing, Finishing
<1>1. CASE ReadMeta(u)
  <2>1. /\ up'[u].pc = IF meta = NoMeta THEN "request" ELSE "stat"
        /\ up'[u].prev = meta /\ up'[u].since = origin /\ up'[u].body = 0
        /\ UNCHANGED <<origin, files>>
    BY <1>1 DEF ReadMeta
  <2> QED
    BY <2>1 DEF files
<1>2. CASE StatRaw(u)
  <2>1. /\ up'[u].pc = "request" /\ up'[u].since = up[u].since
        /\ up[u].pc = "stat" /\ up'[u].prev \in {NoMeta, up[u].prev}
        /\ up'[u].body = up[u].body
        /\ UNCHANGED <<origin, files>>
    BY <1>2 DEF StatRaw
  <2> QED
    BY <2>1 DEF files
<1>3. CASE AnswerNotModified(u)
  <2>1. /\ up'[u].pc = "readCached" /\ up'[u].since = up[u].since
        /\ up[u].pc = "request" /\ up'[u].prev = up[u].prev
        /\ up[u].prev # NoMeta /\ up[u].prev.etag = origin
        /\ up'[u].body = up[u].body
        /\ UNCHANGED <<origin, files>>
    BY <1>3 DEF AnswerNotModified
  <2>2. up[u].prev.sha >= up[u].since
    BY <2>1
  <2> QED
    BY <2>1, <2>2 DEF files
<1>4. CASE AnswerOK(u)
  <2>1. PICK tag \in {0, origin} :
          up' = [up EXCEPT ![u] =
            [pc |-> "writeRaw", prev |-> up[u].prev,
             next |-> [etag |-> tag, sha |-> origin],
             body |-> origin, since |-> up[u].since]]
    BY <1>4 DEF AnswerOK
  <2>2. /\ up'[u].pc = "writeRaw" /\ up'[u].since = up[u].since
        /\ up'[u].body = origin /\ up'[u].prev = up[u].prev
        /\ up'[u].next = [etag |-> tag, sha |-> origin]
    BY <2>1
  <2>3. up'[u].next # NoMeta
    BY <2>2
  <2> QED
    BY <1>4, <2>2, <2>3 DEF AnswerOK, files
<1>5. CASE ReadCached(u)
  <2>1. UNCHANGED <<origin, files>> /\ up[u].pc = "readCached"
    BY <1>5 DEF ReadCached
  <2>2. CASE raw = 0
    BY <1>5, <2>1, <2>2 DEF ReadCached, Idle, files
  <2>3. CASE raw # 0
    <3>1. /\ up'[u].pc = "writeMeta" /\ up'[u].since = up[u].since
          /\ up'[u].body = raw /\ up'[u].prev = up[u].prev
          /\ up'[u].next = up[u].prev
      BY <1>5, <2>3 DEF ReadCached
    <3> QED
      BY <2>1, <2>3, <3>1 DEF files
  <2> QED
    BY <2>2, <2>3
<1>6. CASE WriteRaw(u)
  <2>1. /\ up'[u].pc = "syncRaw" /\ up[u].pc = "writeRaw"
        /\ up'[u].since = up[u].since /\ up'[u].body = up[u].body
        /\ up'[u].prev = up[u].prev /\ up'[u].next = up[u].next
        /\ raw' = up[u].body /\ UNCHANGED <<origin, rawDisk, meta, metaDisk>>
    BY <1>6 DEF WriteRaw
  <2> QED
    BY <2>1
<1>7. CASE SyncRaw(u)
  <2>1. /\ up'[u].pc = "writeMeta" /\ up[u].pc = "syncRaw"
        /\ up'[u].since = up[u].since /\ up'[u].body = up[u].body
        /\ up'[u].prev = up[u].prev /\ up'[u].next = up[u].next
        /\ rawDisk' = raw /\ metaDisk' = meta /\ UNCHANGED <<origin, raw, meta>>
    BY <1>7 DEF SyncRaw
  <2> QED
    BY <2>1
<1>8. CASE WriteMeta(u)
  <2>1. /\ up'[u].pc = "syncMeta" /\ up[u].pc = "writeMeta"
        /\ up'[u].since = up[u].since /\ up'[u].body = up[u].body
        /\ up'[u].prev = up[u].prev /\ up'[u].next = up[u].next
        /\ meta' = up[u].next /\ UNCHANGED <<origin, raw, rawDisk, metaDisk>>
    BY <1>8 DEF WriteMeta
  <2> QED
    BY <2>1
<1>9. CASE SyncMeta(u)
  <2>1. /\ up'[u].pc = "done" /\ up[u].pc = "syncMeta"
        /\ up'[u].since = up[u].since /\ up'[u].body = up[u].body
        /\ up'[u].prev = up[u].prev
        /\ rawDisk' = raw /\ metaDisk' = meta /\ UNCHANGED <<origin, raw, meta>>
    BY <1>9 DEF SyncMeta
  <2> QED
    BY <2>1
<1>10. CASE Fail(u)
  BY <1>10 DEF Fail, Idle, files
<1> QED
  BY <1>1, <1>2, <1>3, <1>4, <1>5, <1>6, <1>7, <1>8, <1>9, <1>10 DEF Fetch

\* It is a step of a busy updater; the others stay where they are.
LEMMA CallIsOne ==
  ASSUME TypeOK, NEW u \in Updaters, Fetch(u) \/ Fail(u)
  PROVE  /\ Busy(u) \/ Busy(u)'
         /\ \A p \in Updaters \ {u} : up'[p] = up[p]
         /\ UNCHANGED origin
<1> USE DEF TypeOK, Busy, files
<1>1. CASE ReadMeta(u) \/ StatRaw(u)
  BY <1>1 DEF ReadMeta, StatRaw
<1>2. CASE AnswerNotModified(u) \/ AnswerOK(u)
  BY <1>2 DEF AnswerNotModified, AnswerOK
<1>3. CASE ReadCached(u)
  BY <1>3 DEF ReadCached
<1>4. CASE WriteRaw(u) \/ SyncRaw(u) \/ WriteMeta(u) \/ SyncMeta(u)
  BY <1>4 DEF WriteRaw, SyncRaw, WriteMeta, SyncMeta
<1>5. CASE Fail(u)
  BY <1>5 DEF Fail
<1> QED
  BY <1>1, <1>2, <1>3, <1>4, <1>5 DEF Fetch

\* What a call has returned does not depend on the cache any more.
LEMMA Resting ==
  ASSUME NEW p \in Updaters, Progress(p), ~ Busy(p),
         up'[p] = up[p], UNCHANGED origin
  PROVE  Progress(p)'
BY DEF Progress, Begun, Sound, Asking, Replacing, Finishing, Busy

\* What everybody else does keeps the cache consistent.
LEMMA CacheStep ==
  ASSUME IInv,
         \/ Publish \/ ClearRaw \/ ClearMeta \/ WriteBack \/ PowerLoss
         \/ UNCHANGED vars
  PROVE  Past' /\ CopiesCover'
<1> USE FetcherAssumption
<1> USE DEF IInv, TypeOK, Version, Meta, Past, CopiesCover, Covered, Covers, Sound
<1>1. CASE Publish
  BY <1>1 DEF Publish, files
<1>2. CASE ClearRaw
  BY <1>2 DEF ClearRaw
<1>3. CASE ClearMeta
  BY <1>3 DEF ClearMeta
<1>4. CASE WriteBack
  BY <1>4 DEF WriteBack
<1>5. CASE PowerLoss
  BY <1>5 DEF PowerLoss
<1>6. CASE UNCHANGED vars
  BY <1>6 DEF vars, files
<1> QED
  BY <1>1, <1>2, <1>3, <1>4, <1>5, <1>6

\* ... and the calls that run.
LEMMA OutsideStep ==
  ASSUME IInv, NEW p \in Updaters,
         \/ Publish \/ ClearRaw \/ ClearMeta \/ WriteBack \/ PowerLoss
         \/ UNCHANGED vars
  PROVE  Progress(p)'
<1> USE FetcherAssumption
<1> USE DEF IInv, TypeOK, Version, Local, Meta, Past, CopiesCover, Covered, Covers,
            Sound, Progress, Begun, Asking, Replacing, Finishing
<1>1. CASE Publish
  BY <1>1 DEF Publish, files
<1>2. CASE ClearRaw
  BY <1>2 DEF ClearRaw
<1>3. CASE ClearMeta
  BY <1>3 DEF ClearMeta
<1>4. CASE WriteBack
  BY <1>4 DEF WriteBack
<1>5. CASE PowerLoss
  <2>1. /\ raw' = rawDisk /\ meta' = metaDisk /\ up'[p] = Idle
        /\ UNCHANGED <<origin, rawDisk, metaDisk>>
    BY <1>5 DEF PowerLoss
  <2> QED
    BY <2>1 DEF Idle
<1>6. CASE UNCHANGED vars
  BY <1>6 DEF vars, files
<1> QED
  BY <1>1, <1>2, <1>3, <1>4, <1>5, <1>6

\* Every step keeps the invariant, as long as one call runs at a time.
LEMMA IInvStep == IInv /\ Serial /\ Serial' /\ [Next]_vars => IInv'
<1> SUFFICES ASSUME IInv, Serial, Serial', [Next]_vars PROVE IInv'
  OBVIOUS
<1>0. TypeOK'
  BY TypeStep DEF IInv
<1>1. ASSUME NEW u \in Updaters, Fetch(u) \/ Fail(u) PROVE IInv'
  <2>1. Past' /\ CopiesCover' /\ Progress(u)'
    BY <1>1, CallStep
  <2>2. ASSUME NEW p \in Updaters \ {u} PROVE Progress(p)'
    <3>1. up'[p] = up[p] /\ UNCHANGED origin
      BY <1>1, CallIsOne DEF IInv
    <3>2. Busy(u) \/ Busy(u)'
      BY <1>1, CallIsOne DEF IInv
    <3>3. ~ Busy(p)
      BY <3>1, <3>2 DEF Serial, Busy
    <3> QED
      BY <3>1, <3>3, Resting DEF IInv
  <2> QED
    BY <1>0, <2>1, <2>2 DEF IInv
<1>2. CASE \/ Publish \/ ClearRaw \/ ClearMeta \/ WriteBack \/ PowerLoss
           \/ UNCHANGED vars
  <2>1. \A p \in Updaters : Progress(p)'
    BY <1>2, OutsideStep
  <2>2. Past' /\ CopiesCover'
    BY <1>2, CacheStep
  <2> QED
    BY <1>0, <2>1, <2>2 DEF IInv
<1> QED
  BY <1>1, <1>2 DEF Next

----------------------------------------------------------------------------
\* As long as calls come one at a time the invariant holds.
LEMMA Invariance == Spec /\ []Serial => []IInv
<1>1. Init => IInv
  BY InitIInv
<1>2. IInv /\ Serial /\ Serial' /\ [Next]_vars => IInv'
  BY IInvStep
<1> QED
  BY <1>1, <1>2, PTL DEF Spec

\* A single updater's calls do.
LEMMA OneUpdaterIsSerial == (\E u : Updaters = {u}) => Serial
BY DEF Serial

\* Type correctness of the fetcher, for any number of updaters at once.
THEOREM TypeCorrect == Spec => []TypeOK
<1>1. Init => TypeOK
  BY InitIInv DEF IInv
<1>2. TypeOK /\ [Next]_vars => TypeOK'
  BY TypeStep
<1> QED
  BY <1>1, <1>2, PTL DEF Spec

\* Calls that come one at a time never let the sidecar get ahead of the
\* payload, through crashes, losses of power and cache clears at any step.
THEOREM SidecarCovered == Spec /\ []Serial => []RawCoversMeta
<1>1. IInv => RawCoversMeta
  BY DEF IInv, CopiesCover, Covered, RawCoversMeta
<1> QED
  BY <1>1, Invariance, PTL

\* What Fetch returns is never older than what the origin had when Fetch was
\* called, if calls come one at a time.
THEOREM Freshness == Spec /\ []Serial => []FetchIsFresh
<1>1. IInv => FetchIsFresh
  BY DEF IInv, Progress, Finishing, FetchIsFresh
<1> QED
  BY <1>1, Invariance, PTL

----------------------------------------------------------------------------
(* Fetch keeps its promise.                                                *)

Calls == [p \in Updaters |-> Promised(up[p])]

\* A step of a call that leaves what its caller sees of it is invisible.
LEMMA Unseen ==
  ASSUME TypeOK, NEW u \in Updaters, \A p \in Updaters \ {u} : up'[p] = up[p],
         Promised(up'[u]) = Promised(up[u])
  PROVE  Calls' = Calls
<1>1. \A p \in Updaters : Promised(up'[p]) = Promised(up[p])
  OBVIOUS
<1> QED
  BY <1>1 DEF Calls

\* One that does not changes one caller's view.
LEMMA Shows ==
  ASSUME TypeOK, NEW u \in Updaters, \A p \in Updaters \ {u} : up'[p] = up[p],
         NEW r, Promised(up'[u]) = r
  PROVE  Calls' = [Calls EXCEPT ![u] = r]
<1>1. \A p \in Updaters : Promised(up'[p]) = IF p = u THEN r ELSE Promised(up[p])
  OBVIOUS
<1> QED
  BY <1>1 DEF Calls

\* The call is where the pc says.
LEMMA CallOf ==
  ASSUME NEW u \in Updaters
  PROVE  /\ up[u].pc = "idle" => Calls[u] = Promise!NoCall
         /\ up[u].pc = "done" =>
              Calls[u] = Promise!Returned(up[u].since, up[u].body)
         /\ Busy(u) => Calls[u] = Promise!Running(up[u].since)
BY DEF Calls, Promised, Busy, Promise!NoCall, Promise!Running, Promise!Returned

\* A call that ends without a result is an abort.
LEMMA Aborts ==
  ASSUME NEW S \in SUBSET Updaters, UNCHANGED origin,
         \A p \in S : up'[p] = Idle,
         \A p \in Updaters \ S : up'[p] = up[p]
  PROVE  Promise!Abort
<1>1. \A p \in S : Promised(up'[p]) = Promise!NoCall
  BY DEF Promised, Idle, Promise!NoCall
<1>2. Calls' = [p \in Updaters |-> IF p \in S THEN Promise!NoCall ELSE Calls[p]]
  BY <1>1 DEF Calls
<1> QED
  BY <1>2 DEF Promise!Abort, Calls

\* Every step of a call is Begin, Return or Abort, or invisible.
LEMMA CallKeepsPromise ==
  ASSUME IInv, NEW u \in Updaters, Fetch(u) \/ Fail(u)
  PROVE  [Promise!Next]_(Promise!mirrorvars)
<1> USE DEF Promise!Next
<1>0. /\ \A p \in Updaters \ {u} : up'[p] = up[p]
      /\ UNCHANGED origin
      /\ TypeOK
  BY CallIsOne DEF IInv
<1>1. CASE ReadMeta(u)
  <2>0. /\ up[u].pc \in {"idle", "done"}
        /\ up'[u].pc \in {"request", "stat"} /\ up'[u].since = origin
    BY <1>0, <1>1 DEF ReadMeta, TypeOK
  <2>1. Promised(up'[u]) = Promise!Running(origin)
    BY <2>0 DEF Promised, Promise!Running
  <2>2. Calls' = [Calls EXCEPT ![u] = Promise!Running(origin)]
    BY <1>0, <2>1, Shows
  <2>3. Calls[u] \in {Promise!NoCall, Promise!Returned(up[u].since, up[u].body)}
    BY <2>0, CallOf
  <2>4. Calls[u].state # "running"
    BY <2>3 DEF Promise!NoCall, Promise!Returned
  <2> QED
    BY <1>0, <2>2, <2>4 DEF Promise!Begin, Calls
<1>2. CASE \/ StatRaw(u) \/ AnswerNotModified(u) \/ AnswerOK(u) \/ WriteRaw(u)
           \/ SyncRaw(u) \/ WriteMeta(u)
  <2>1. Busy(u) /\ Busy(u)' /\ up'[u].since = up[u].since
    <3> USE DEF Busy, TypeOK
    <3>1. CASE StatRaw(u)
      BY <1>0, <3>1 DEF StatRaw
    <3>2. CASE AnswerNotModified(u)
      BY <1>0, <3>2 DEF AnswerNotModified
    <3>3. CASE AnswerOK(u)
      <4>1. PICK tag \in {0, origin} :
              up' = [up EXCEPT ![u] =
                [pc |-> "writeRaw", prev |-> up[u].prev,
                 next |-> [etag |-> tag, sha |-> origin],
                 body |-> origin, since |-> up[u].since]]
        BY <3>3 DEF AnswerOK
      <4>2. up[u].pc = "request"
        BY <3>3 DEF AnswerOK
      <4>3. up'[u].pc = "writeRaw" /\ up'[u].since = up[u].since
        BY <1>0, <4>1
      <4> QED
        BY <4>2, <4>3
    <3>4. CASE WriteRaw(u)
      BY <1>0, <3>4 DEF WriteRaw
    <3>5. CASE SyncRaw(u)
      BY <1>0, <3>5 DEF SyncRaw
    <3>6. CASE WriteMeta(u)
      BY <1>0, <3>6 DEF WriteMeta
    <3> QED
      BY <1>2, <3>1, <3>2, <3>3, <3>4, <3>5, <3>6
  <2>2. Promised(up'[u]) = Promised(up[u])
    BY <2>1 DEF Busy, Promised
  <2>3. Calls' = Calls
    BY <1>0, <2>2, Unseen
  <2> QED
    BY <1>0, <2>3 DEF Promise!mirrorvars, Calls
<1>3. CASE ReadCached(u)
  <2>1. CASE raw = 0
    <3>1. up'[u] = Idle
      BY <1>0, <1>3, <2>1 DEF ReadCached, TypeOK
    <3>2. Promise!Abort
      BY <1>0, <3>1, Aborts, {u} \in SUBSET Updaters
    <3> QED
      BY <3>2
  <2>2. CASE raw # 0
    <3>1. Busy(u) /\ Busy(u)' /\ up'[u].since = up[u].since
      BY <1>3, <2>2 DEF ReadCached, Busy, IInv, TypeOK, Local
    <3>2. Promised(up'[u]) = Promised(up[u])
      BY <3>1 DEF Busy, Promised
    <3>3. Calls' = Calls
      BY <1>0, <3>2, Unseen
    <3> QED
      BY <1>0, <3>3 DEF Promise!mirrorvars, Calls
  <2> QED
    BY <2>1, <2>2
<1>4. CASE SyncMeta(u)
  <2>1. /\ up[u].pc = "syncMeta" /\ up'[u].pc = "done"
        /\ up'[u].since = up[u].since /\ up'[u].body = up[u].body
    BY <1>4 DEF SyncMeta, IInv, TypeOK, Local
  <2>2. Promised(up'[u]) = Promise!Returned(up[u].since, up[u].body)
    BY <2>1 DEF Promised, Promise!Returned
  <2>3. Calls' = [Calls EXCEPT ![u] = Promise!Returned(up[u].since, up[u].body)]
    BY <1>0, <2>2, Shows
  <2>4. Calls[u] = Promise!Running(up[u].since)
    BY <2>1, CallOf DEF Busy
  <2>5. up[u].body \in up[u].since..origin
    BY <2>1 DEF IInv, Progress, Begun, Finishing, TypeOK, Local, Version
  <2>6. Calls[u].state = "running" /\ Calls[u].since = up[u].since
    BY <2>4 DEF Promise!Running
  <2>7. \E v \in Calls[u].since..origin :
          Calls' = [Calls EXCEPT ![u] = Promise!Returned(Calls[u].since, v)]
    BY <2>3, <2>5, <2>6
  <2> QED
    BY <1>0, <2>6, <2>7 DEF Promise!Return, Calls
<1>5. CASE Fail(u)
  <2>1. up'[u] = Idle
    BY <1>5 DEF Fail, IInv, TypeOK
  <2>2. Promise!Abort
    BY <1>0, <2>1, Aborts, {u} \in SUBSET Updaters
  <2> QED
    BY <2>2
<1> QED
  BY <1>1, <1>2, <1>3, <1>4, <1>5 DEF Fetch

\* Every step of the fetcher is a step of the promise or invisible in it.
LEMMA PromiseStep == IInv /\ [Next]_vars => [Promise!Next]_(Promise!mirrorvars)
<1> SUFFICES ASSUME IInv, [Next]_vars
             PROVE  [Promise!Next]_(Promise!mirrorvars)
  OBVIOUS
<1>1. ASSUME NEW u \in Updaters, Fetch(u) \/ Fail(u)
      PROVE  [Promise!Next]_(Promise!mirrorvars)
  BY <1>1, CallKeepsPromise
<1>2. CASE Publish
  <2>1. Calls' = Calls
    BY <1>2 DEF Publish, Calls
  <2> QED
    BY <1>2, <2>1 DEF Publish, Promise!Next, Promise!Publish, Calls
<1>3. CASE ClearRaw \/ ClearMeta \/ WriteBack \/ UNCHANGED vars
  <2>1. UNCHANGED <<origin, up>>
    BY <1>3 DEF ClearRaw, ClearMeta, WriteBack, vars
  <2>2. Calls' = Calls
    BY <2>1 DEF Calls
  <2> QED
    BY <2>1, <2>2 DEF Promise!mirrorvars, Calls
<1>4. CASE PowerLoss
  <2>1. UNCHANGED origin /\ \A p \in Updaters : up'[p] = Idle
    BY <1>4 DEF PowerLoss
  <2>2. Promise!Abort
    BY <2>1, Aborts
  <2> QED
    BY <2>2 DEF Promise!Next
<1> QED
  BY <1>1, <1>2, <1>3, <1>4 DEF Next

\* fetchOnce, with its two files, its conditional request and everything that
\* can happen to them, implements a fetch in one step, as long as calls come
\* one at a time.
THEOREM Refinement == Spec /\ []Serial => ImplementsMirror
<1>1. Init => Promise!Init
  BY DEF Init, Promise!Init, Promised, Idle, Promise!NoCall
<1>2. IInv /\ [Next]_vars => [Promise!Next]_(Promise!mirrorvars)
  BY PromiseStep
<1> QED
  BY <1>1, <1>2, Invariance, PTL DEF Spec, ImplementsMirror, Promise!Spec

----------------------------------------------------------------------------
(* Loops.                                                                  *)

\* Induction on the naturals, over a set.
LEMMA Induction ==
  ASSUME NEW S, 0 \in S, \A n \in Nat : n \in S => n + 1 \in S
  PROVE  \A n \in Nat : n \in S
<1> SUFFICES ASSUME NEW k \in Nat, k \notin S PROVE FALSE
  OBVIOUS
<1> DEFINE R == OpToRel(<, Nat)
           T == Nat \ S
<1>1. IsWellFoundedOn(R, Nat)
  BY NatLessThanWellFounded, Zenon
<1>2. \A m, n \in Nat : m < n => <<m, n>> \in R
  BY DEF OpToRel
<1>3. T \subseteq Nat /\ T # {}
  OBVIOUS
<1> HIDE DEF R, T
<1>4. PICK n \in T : \A m \in T : <<m, n>> \notin R
  BY <1>1, <1>3, WFMin
<1>5. n \in Nat /\ n \notin S
  BY <1>4 DEF T
<1>6. n - 1 \in Nat /\ n - 1 < n
  BY <1>5
<1>7. n - 1 \in S
  BY <1>2, <1>4, <1>5, <1>6 DEF T
<1> QED
  BY <1>5, <1>6, <1>7

\* collectInputs gives inputs: what is skipped is not among them.
LEMMA GivenIsInputs ==
  ASSUME args \in Seq(Inputs), file \in Seq(Line)
  PROVE  Given \in Seq(Inputs)
<1> DEFINE N == Len(file)
           Pass(t, n) == IF file[n] = Skipped THEN t ELSE Append(t, file[n])
           UpTo(f, k) == [n \in 0..k |-> IF n = 0 THEN args ELSE Pass(f[n - 1], n)]
           M == {k \in Nat : \E f : f = UpTo(f, k)}
<1>1. N \in Nat /\ \A n \in 1..N : file[n] \in Inputs \cup {Skipped}
  BY DEF Line
<1>2. 0 \in M
  <2> DEFINE f == [n \in 0..0 |-> args]
  <2>1. f = UpTo(f, 0)
    OBVIOUS
  <2> QED
    BY <2>1
<1>3. ASSUME NEW k \in Nat, k \in M PROVE k + 1 \in M
  <2>1. PICK f : f = UpTo(f, k)
    BY <1>3
  <2> DEFINE h == [n \in 0..k + 1 |-> IF n <= k THEN f[n] ELSE Pass(f[k], k + 1)]
  <2> HIDE DEF Pass
  <2>2. ASSUME NEW n \in 0..k + 1
        PROVE  h[n] = IF n = 0 THEN args ELSE Pass(h[n - 1], n)
    <3>1. CASE n = 0
      BY <2>1, <3>1
    <3>2. CASE n \in 1..k
      <4>1. n - 1 \in 0..k /\ n \in 0..k /\ n # 0
        BY <3>2
      <4> QED
        BY <2>1, <4>1
    <3>3. CASE n = k + 1
      BY <3>3
    <3> QED
      BY <3>1, <3>2, <3>3
  <2>3. h = UpTo(h, k + 1)
    BY <2>2
  <2> HIDE DEF h, UpTo
  <2> QED
    BY <2>3
<1> HIDE DEF M
<1>4. N \in M
  BY <1>1, <1>2, <1>3, Induction
<1>5. \E f : f = UpTo(f, N)
  BY <1>4 DEF M
<1> DEFINE g == CHOOSE h : h = UpTo(h, N)
<1>6. g = UpTo(g, N)
  <2> HIDE DEF UpTo
  <2> QED
    BY <1>5
<1>7. Given = g[N]
  BY DEF Given
<1> HIDE DEF g
<1> DEFINE S == {n \in Nat : n <= N => g[n] \in Seq(Inputs)}
<1>8. 0 \in S
  BY <1>1, <1>6
<1>9. ASSUME NEW n \in Nat, n \in S PROVE n + 1 \in S
  <2> SUFFICES ASSUME n + 1 <= N PROVE g[n + 1] \in Seq(Inputs)
    OBVIOUS
  <2>1. g[n + 1] = Pass(g[n], n + 1)
    <3> HIDE DEF Pass
    <3> QED
      BY <1>1, <1>6
  <2>2. g[n] \in Seq(Inputs) /\ file[n + 1] \in Inputs \cup {Skipped}
    BY <1>1, <1>9
  <2> QED
    BY <2>1, <2>2, AppendProperties
<1> HIDE DEF S
<1>10. N \in S
  BY <1>1, <1>8, <1>9, Induction
<1> QED
  BY <1>1, <1>7, <1>10 DEF S

\* The place where x is first in s.
First(s, x, a) == a \in DOMAIN s /\ s[a] = x /\ \A j \in 1..a - 1 : s[j] # x

\* d is the first n of s, each once, in the order of their first places.
Firsts(d, s, n) ==
  /\ d \in Seq(Inputs)
  /\ \A k \in 1..n : \E i \in DOMAIN d : d[i] = s[k]
  /\ \A i \in DOMAIN d : \E a \in 1..n : First(s, d[i], a)
  /\ \A i, j \in DOMAIN d, a, b \in 1..n :
       i < j /\ First(s, d[i], a) /\ First(s, d[j], b) => a < b

\* There is one such place.
LEMMA FirstIsUnique ==
  ASSUME NEW s \in Seq(Inputs), NEW x, NEW a, NEW b, First(s, x, a), First(s, x, b)
  PROVE  a = b
BY DEF First

\* A pass of dedup's loop.
LEMMA DedupPass ==
  ASSUME NEW s \in Seq(Inputs), NEW n \in Nat, n + 1 <= Len(s), NEW d, Firsts(d, s, n)
  PROVE  Firsts(IF \E i \in 1..n : s[i] = s[n + 1] THEN d ELSE Append(d, s[n + 1]),
                s, n + 1)
<1>1. n + 1 \in DOMAIN s /\ s[n + 1] \in Inputs /\ d \in Seq(Inputs) /\ Len(d) \in Nat
  BY DEF Firsts
<1>2. ASSUME NEW i \in DOMAIN d, NEW a, First(s, d[i], a) PROVE a \in 1..n
  <2>1. PICK b \in 1..n : First(s, d[i], b)
    BY DEF Firsts
  <2>2. a = b
    BY <1>2, <2>1, FirstIsUnique
  <2> QED
    BY <2>2
<1>3. CASE \E i \in 1..n : s[i] = s[n + 1]
  <2>1. \A k \in 1..n + 1 : \E i \in DOMAIN d : d[i] = s[k]
    <3>1. \A k \in 1..n : \E i \in DOMAIN d : d[i] = s[k]
      BY DEF Firsts
    <3>2. \A k \in 1..n + 1 : k \in 1..n \/ k = n + 1
      OBVIOUS
    <3> QED
      BY <1>3, <3>1, <3>2
  <2>2. \A i \in DOMAIN d : \E a \in 1..n + 1 : First(s, d[i], a)
    BY DEF Firsts
  <2>3. \A i, j \in DOMAIN d, a, b \in 1..n + 1 :
          i < j /\ First(s, d[i], a) /\ First(s, d[j], b) => a < b
    BY <1>2 DEF Firsts
  <2>4. Firsts(d, s, n + 1)
    BY <1>1, <2>1, <2>2, <2>3 DEF Firsts
  <2> QED
    BY <1>3, <2>4
<1>4. CASE ~ \E i \in 1..n : s[i] = s[n + 1]
  <2> DEFINE e == Append(d, s[n + 1])
             m == Len(d) + 1
  <2>1. /\ e \in Seq(Inputs) /\ DOMAIN e = 1..m /\ DOMAIN d = 1..Len(d)
        /\ \A i \in DOMAIN d : e[i] = d[i]
        /\ e[m] = s[n + 1]
    BY <1>1, AppendProperties
  <2> HIDE DEF e
  <2>2. First(s, e[m], n + 1)
    BY <1>1, <1>4, <2>1 DEF First
  <2>3. \A k \in 1..n + 1 : \E i \in DOMAIN e : e[i] = s[k]
    <3> SUFFICES ASSUME NEW k \in 1..n + 1 PROVE \E i \in DOMAIN e : e[i] = s[k]
      OBVIOUS
    <3>1. CASE k = n + 1
      BY <1>1, <2>1, <3>1
    <3>2. CASE k # n + 1
      <4>1. PICK i \in DOMAIN d : d[i] = s[k]
        BY <3>2 DEF Firsts
      <4> QED
        BY <1>1, <2>1, <4>1
    <3> QED
      BY <3>1, <3>2
  <2>4. \A i \in DOMAIN e : i = m \/ i \in DOMAIN d
    BY <1>1, <2>1
  <2>5. \A i \in DOMAIN e : \E a \in 1..n + 1 : First(s, e[i], a)
    <3> SUFFICES ASSUME NEW i \in DOMAIN e PROVE \E a \in 1..n + 1 : First(s, e[i], a)
      OBVIOUS
    <3>1. CASE i = m
      BY <2>2, <3>1
    <3>2. CASE i \in DOMAIN d
      BY <2>1, <3>2 DEF Firsts
    <3> QED
      BY <2>4, <3>1, <3>2
  <2>6. ASSUME NEW i \in DOMAIN e, NEW j \in DOMAIN e, NEW a \in 1..n + 1,
               NEW b \in 1..n + 1, i < j, First(s, e[i], a), First(s, e[j], b)
        PROVE  a < b
    <3>1. i \in DOMAIN d /\ a \in 1..n
      BY <1>1, <1>2, <2>1, <2>6
    <3>2. CASE j = m
      <4>1. b = n + 1
        BY <2>2, <2>6, <3>2, FirstIsUnique
      <4> QED
        BY <3>1, <4>1
    <3>3. CASE j \in DOMAIN d
      BY <1>2, <2>1, <2>6, <3>1, <3>3 DEF Firsts
    <3> QED
      BY <2>4, <3>2, <3>3
  <2> QED
    BY <1>4, <2>1, <2>3, <2>5, <2>6 DEF Firsts, e
<1> QED
  BY <1>3, <1>4

\* dedup keeps the first of each input, in their order.
LEMMA DedupKeepsFirsts ==
  ASSUME NEW s \in Seq(Inputs)
  PROVE  Firsts(Dedup(s), s, Len(s))
<1> DEFINE N == Len(s)
           Pass(t, n) == IF \E i \in 1..n - 1 : s[i] = s[n] THEN t ELSE Append(t, s[n])
           UpTo(f, k) == [n \in 0..k |-> IF n = 0 THEN <<>> ELSE Pass(f[n - 1], n)]
           M == {k \in Nat : \E f : f = UpTo(f, k)}
<1>1. N \in Nat /\ \A n \in 1..N : s[n] \in Inputs
  OBVIOUS
<1>2. 0 \in M
  <2> DEFINE f == [n \in 0..0 |-> <<>>]
  <2>1. f = UpTo(f, 0)
    OBVIOUS
  <2> QED
    BY <2>1
<1>3. ASSUME NEW k \in Nat, k \in M PROVE k + 1 \in M
  <2>1. PICK f : f = UpTo(f, k)
    BY <1>3
  <2> DEFINE h == [n \in 0..k + 1 |-> IF n <= k THEN f[n] ELSE Pass(f[k], k + 1)]
  <2> HIDE DEF Pass
  <2>2. ASSUME NEW n \in 0..k + 1
        PROVE  h[n] = IF n = 0 THEN <<>> ELSE Pass(h[n - 1], n)
    <3>1. CASE n = 0
      BY <2>1, <3>1
    <3>2. CASE n \in 1..k
      <4>1. n - 1 \in 0..k /\ n \in 0..k /\ n # 0
        BY <3>2
      <4> QED
        BY <2>1, <4>1
    <3>3. CASE n = k + 1
      BY <3>3
    <3> QED
      BY <3>1, <3>2, <3>3
  <2>3. h = UpTo(h, k + 1)
    BY <2>2
  <2> HIDE DEF h, UpTo
  <2> QED
    BY <2>3
<1> HIDE DEF M
<1>4. N \in M
  BY <1>1, <1>2, <1>3, Induction
<1>5. \E f : f = UpTo(f, N)
  BY <1>4 DEF M
<1> DEFINE g == CHOOSE h : h = UpTo(h, N)
<1>6. g = UpTo(g, N)
  <2> HIDE DEF UpTo
  <2> QED
    BY <1>5
<1>7. Dedup(s) = g[N]
  BY DEF Dedup
<1> HIDE DEF g
<1> DEFINE S == {n \in Nat : n <= N => Firsts(g[n], s, n)}
<1>8. 0 \in S
  <2>1. g[0] = <<>>
    BY <1>1, <1>6
  <2>2. Firsts(<<>>, s, 0)
    BY DEF Firsts
  <2> QED
    BY <2>1, <2>2
<1>9. ASSUME NEW n \in Nat, n \in S PROVE n + 1 \in S
  <2> SUFFICES ASSUME n + 1 <= N PROVE Firsts(g[n + 1], s, n + 1)
    OBVIOUS
  <2>1. g[n + 1] = Pass(g[n], n + 1)
    <3> HIDE DEF Pass
    <3> QED
      BY <1>1, <1>6
  <2>2. (n + 1) - 1 = n
    OBVIOUS
  <2>3. g[n + 1] = IF \E i \in 1..n : s[i] = s[n + 1] THEN g[n] ELSE Append(g[n], s[n + 1])
    BY <2>1, <2>2
  <2>4. Firsts(g[n], s, n)
    BY <1>9
  <2> QED
    BY <2>3, <2>4, DedupPass
<1> HIDE DEF S
<1>10. N \in S
  BY <1>1, <1>8, <1>9, Induction
<1> QED
  BY <1>1, <1>7, <1>10 DEF S

----------------------------------------------------------------------------
(* The rows of a check.                                                    *)

\* The inputs to answer.
Wanted == Dedup(Given)

\* Each input has its turn, and the turns are in the order of first use.
LEMMA TurnsAreFirstUses ==
  ASSUME Given \in Seq(Inputs)
  PROVE  /\ Wanted \in Seq(Inputs)
         /\ \A x \in Range(Given) : \E k \in DOMAIN Wanted : Wanted[k] = x
         /\ \A i, k \in DOMAIN Wanted :
              /\ FirstUse(Wanted[k]) <= FirstUse(Wanted[i]) <=> k <= i
              /\ Wanted[k] = Wanted[i] <=> k = i
<1> DEFINE s == Given
           d == Wanted
<1>1. Firsts(d, s, Len(s)) /\ Len(s) \in Nat /\ DOMAIN s = 1..Len(s)
  BY DedupKeepsFirsts DEF Wanted
<1>2. d \in Seq(Inputs) /\ Len(d) \in Nat /\ DOMAIN d = 1..Len(d)
  BY <1>1 DEF Firsts
<1>3. \A x \in Range(s) : \E k \in DOMAIN d : d[k] = x
  BY <1>1 DEF Firsts, Range
<1>4. ASSUME NEW i \in DOMAIN d
      PROVE  FirstUse(d[i]) \in 1..Len(s) /\ First(s, d[i], FirstUse(d[i]))
  <2>1. PICK a \in 1..Len(s) : First(s, d[i], a)
    BY <1>1 DEF Firsts
  <2>2. \E b \in DOMAIN s : s[b] = d[i] /\ \A j \in 1..b - 1 : s[j] # d[i]
    BY <2>1 DEF First
  <2>3. First(s, d[i], FirstUse(d[i]))
    BY <2>2 DEF First, FirstUse
  <2> QED
    BY <1>1, <2>3 DEF First
<1>5. ASSUME NEW i \in DOMAIN d, NEW j \in DOMAIN d, i < j
      PROVE  FirstUse(d[i]) < FirstUse(d[j])
  BY <1>1, <1>4, <1>5 DEF Firsts
<1> HIDE DEF s, d
<1>6. ASSUME NEW i \in DOMAIN d, NEW k \in DOMAIN d
      PROVE  /\ FirstUse(d[k]) <= FirstUse(d[i]) <=> k <= i
             /\ d[k] = d[i] <=> k = i
  <2>1. FirstUse(d[i]) \in Nat /\ FirstUse(d[k]) \in Nat /\ i \in Nat /\ k \in Nat
    BY <1>1, <1>2, <1>4
  <2>2. CASE k < i
    BY <1>5, <2>1, <2>2
  <2>3. CASE i < k
    BY <1>5, <2>1, <2>3
  <2>4. CASE k = i
    BY <2>1, <2>4
  <2> QED
    BY <2>1, <2>2, <2>3, <2>4
<1> QED
  BY <1>2, <1>3, <1>6 DEF s, d

Headers == IF format = "csv" THEN 1 ELSE 0

\* Item i of what is written: the header of a CSV file, or the row whose turn
\* it is.
Item(e, i) ==
  IF i <= Headers THEN e = Header
  ELSE i - Headers \in DOMAIN Wanted /\ e \in Row /\ e.input = Wanted[i - Headers]

\* Of o, the first n are items, and a torn row may follow.
Shown(o, n) ==
  /\ n \in 0..Len(o)
  /\ \A i \in 1..n : Item(o[i], i)
  /\ n = Len(o) \/ (n = Len(o) - 1 /\ o[n + 1] = Torn)

\* Standard output has got n items; when the check has succeeded, these are all
\* but those of a buffer.
Written(n) ==
  /\ Shown(out, n)
  /\ exit = "0" =>
       Len(Wanted) + Headers <= n + (IF format = "csv" THEN BufferRows ELSE 0)

\* The row that is not written yet.
Pending == IF pc = "write" THEN 1 ELSE 0

\* Rows that are written or in the buffer.
Done == Len(out) + Len(buffer) - (IF wrote THEN 1 ELSE 0)

\* The loop: output, buffer, row and todo are Wanted, in this order.
Underway ==
  /\ \A i \in 1..Len(out) : Item(out[i], i)
  /\ \A i \in 1..Len(buffer) : Item(buffer[i], Len(out) + i)
  /\ Len(buffer) <= BufferRows
  /\ wrote => format = "csv"
  /\ format # "csv" => buffer = <<>>
  /\ format = "csv" /\ ~ wrote => out = <<>> /\ buffer = <<>>
  /\ Done \in Nat
  /\ Done + Pending + Len(todo) = Len(Wanted)
  /\ pc = "write" => row \in Row /\ row.input = Wanted[Done + 1]
  /\ \A i \in 1..Len(todo) : todo[i] = Wanted[Done + Pending + i]

CheckInvariant ==
  /\ CheckTypeOK
  /\ Given \in Seq(Inputs)
  /\ pc # "exited" => exit = "no"
  /\ pc = "collect" => out = <<>> /\ buffer = <<>> /\ ~ wrote
  /\ pc \in {"classify", "write"} => Underway
  /\ \E n \in Nat : Written(n)

----------------------------------------------------------------------------
(* The invariant is what the properties say.                               *)

\* The rows are the items after the header.
LEMMA RowsAreItems ==
  ASSUME CheckInvariant, NEW n \in Nat, Written(n)
  PROVE  /\ RowsAt = Headers + 1..n
         /\ \A i \in RowsAt : /\ i - Headers \in DOMAIN Wanted
                              /\ out[i].input = Wanted[i - Headers]
<1> DEFINE h == Headers
           len == Len(out)
<1>1. /\ h \in Nat /\ n \in Nat /\ len \in Nat /\ n <= len /\ DOMAIN out = 1..len
      /\ \A i \in 1..n : Item(out[i], i)
      /\ n = len \/ (n = len - 1 /\ out[n + 1] = Torn)
  BY DEF CheckInvariant, CheckTypeOK, Headers, Written, Shown
<1>2. \A e \in Row : e # Header /\ e # Torn
  BY CheckAssumption DEF Row
<1>3. ASSUME NEW i \in h + 1..n
      PROVE  /\ i \in RowsAt /\ i - h \in DOMAIN Wanted
             /\ out[i].input = Wanted[i - h]
  <2> HIDE DEF h, len
  <2>1. i \in 1..n /\ ~ i <= h /\ i \in 1..len
    BY <1>1
  <2>2. i - h \in DOMAIN Wanted /\ out[i] \in Row /\ out[i].input = Wanted[i - h]
    BY <1>1, <2>1 DEF Item, h
  <2> QED
    BY <1>1, <1>2, <2>1, <2>2 DEF RowsAt
<1>4. ASSUME NEW i \in RowsAt PROVE i \in h + 1..n
  <2>1. i \in 1..len /\ out[i] # Header /\ out[i] # Torn
    BY <1>1 DEF RowsAt
  <2> HIDE DEF len
  <2>2. i <= n
    BY <1>1, <2>1
  <2>3. ~ i <= h
    BY <1>1, <2>1, <2>2 DEF Item
  <2> HIDE DEF h
  <2> QED
    BY <1>1, <2>1, <2>2, <2>3
<1> QED
  BY <1>3, <1>4

\* It says which rows are behind standard output.
LEMMA RowsFollow == CheckInvariant => RowsAnswerInputs
<1> SUFFICES ASSUME CheckInvariant PROVE RowsAnswerInputs
  OBVIOUS
<1>1. PICK n \in Nat : Written(n)
  BY DEF CheckInvariant
<1> DEFINE h == Headers
           d == Wanted
<1>2. h \in {0, 1} /\ Len(out) \in Nat /\ DOMAIN out = 1..Len(out)
  BY DEF Headers, CheckInvariant, CheckTypeOK
<1>3. /\ d \in Seq(Inputs) /\ Len(d) \in Nat /\ DOMAIN d = 1..Len(d)
      /\ \A x \in Range(Given) : \E k \in DOMAIN d : d[k] = x
      /\ \A i, k \in DOMAIN d : /\ FirstUse(d[k]) <= FirstUse(d[i]) <=> k <= i
                                /\ d[k] = d[i] <=> k = i
  BY TurnsAreFirstUses DEF CheckInvariant
<1>4. /\ RowsAt = h + 1..n
      /\ \A i \in RowsAt : i - h \in DOMAIN d /\ out[i].input = d[i - h]
  BY <1>1, RowsAreItems
<1> HIDE DEF h, d
<1>5. ASSUME NEW i \in RowsAt, NEW x \in Range(Given)
      PROVE  FirstUse(x) <= FirstUse(out[i].input)
               <=> \E j \in RowsAt : j <= i /\ out[j].input = x
  <2>1. PICK k \in DOMAIN d : d[k] = x
    BY <1>3
  <2>2. i \in h + 1..n /\ i - h \in DOMAIN d /\ out[i].input = d[i - h]
    BY <1>4
  <2>3. FirstUse(x) <= FirstUse(out[i].input) <=> k <= i - h
    BY <1>3, <2>1, <2>2
  <2>4. ASSUME k <= i - h PROVE \E j \in RowsAt : j <= i /\ out[j].input = x
    <3>1. k + h \in RowsAt /\ k + h <= i /\ (k + h) - h = k
      BY <1>2, <1>3, <1>4, <2>2, <2>4
    <3> QED
      BY <1>4, <2>1, <3>1
  <2>5. ASSUME NEW j \in RowsAt, j <= i, out[j].input = x PROVE k <= i - h
    <3>1. j - h \in DOMAIN d /\ d[j - h] = d[k]
      BY <1>4, <2>1, <2>5
    <3>2. j - h = k
      BY <1>3, <2>1, <3>1
    <3> QED
      BY <1>2, <1>4, <2>2, <2>5, <3>2
  <2> QED
    BY <2>3, <2>4, <2>5
<1>6. ASSUME NEW i \in RowsAt, NEW j \in RowsAt, i # j PROVE out[i].input # out[j].input
  <2>1. i - h \in DOMAIN d /\ j - h \in DOMAIN d /\ i - h # j - h
    BY <1>2, <1>4, <1>6
  <2> QED
    BY <1>3, <1>4, <2>1
<1>7. ASSUME NEW i \in DOMAIN out, out[i] = Torn PROVE i = Len(out)
  <2> DEFINE len == Len(out)
  <2>1. /\ len \in Nat /\ i \in 1..len
        /\ \A j \in 1..n : Item(out[j], j)
        /\ n = len \/ n = len - 1
    BY <1>1, <1>2 DEF Written, Shown
  <2> HIDE DEF len
  <2>2. CASE i <= n
    <3>1. Item(Torn, i)
      BY <1>7, <2>1, <2>2
    <3> QED
      BY <3>1, CheckAssumption DEF Item, Row
  <2>3. CASE ~ i <= n
    BY <2>1, <2>3 DEF len
  <2> QED
    BY <2>2, <2>3
<1> QED
  BY <1>5, <1>6, <1>7 DEF RowsAnswerInputs

\* It says how many rows are missing there.
LEMMA LossIsOneBuffer == CheckInvariant => ExitZeroWritesAll
<1> SUFFICES ASSUME CheckInvariant, exit = "0"
             PROVE  Cardinality(Range(Given) \ {out[i].input : i \in RowsAt})
                      <= IF format = "csv" THEN BufferRows ELSE 0
  BY DEF ExitZeroWritesAll
<1> DEFINE h == Headers
           d == Wanted
           lost == Range(Given) \ {out[i].input : i \in RowsAt}
           most == IF format = "csv" THEN BufferRows ELSE 0
<1>1. PICK n \in Nat : Written(n)
  BY DEF CheckInvariant
<1>2. h \in {0, 1} /\ most \in Nat /\ Len(d) + h <= n + most
  BY <1>1, CheckAssumption DEF Headers, Written, Shown
<1>3. /\ Len(d) \in Nat /\ DOMAIN d = 1..Len(d)
      /\ \A x \in Range(Given) : \E k \in DOMAIN d : d[k] = x
  BY TurnsAreFirstUses DEF CheckInvariant
<1>4. /\ RowsAt = h + 1..n
      /\ \A i \in RowsAt : out[i].input = d[i - h]
  BY <1>1, RowsAreItems
<1> DEFINE m == IF h <= n THEN n - h ELSE 0
           late == m + 1..Len(d)
           f == [k \in late |-> d[k]]
           T == {d[k] : k \in late}
<1>5. m \in Nat /\ (Len(d) - m <= most)
  BY <1>2, <1>3
<1>6. lost \subseteq T
  <2> SUFFICES ASSUME NEW x \in lost PROVE x \in T
    OBVIOUS
  <2>1. PICK k \in DOMAIN d : d[k] = x
    BY <1>3
  <2> SUFFICES ASSUME k <= m PROVE FALSE
    BY <1>3, <1>5, <2>1
  <2>2. k + h \in RowsAt /\ (k + h) - h = k
    <3> HIDE DEF h, d
    <3> QED
      BY <1>2, <1>3, <1>4
  <2> QED
    BY <1>4, <2>1, <2>2
<1> HIDE DEF h, d, lost, most, m
<1>7. IsFiniteSet(late) /\ Cardinality(late) <= most
  <2> DEFINE a == m + 1
             b == Len(d)
  <2>1. a \in Int /\ b \in Int /\ b - a + 1 <= most /\ late = a..b
    BY <1>2, <1>3, <1>5
  <2> HIDE DEF a, b, late
  <2>2. IsFiniteSet(a..b) /\ Cardinality(a..b) = IF a > b THEN 0 ELSE b - a + 1
    BY <2>1, FS_Interval
  <2> QED
    BY <1>2, <2>1, <2>2
<1>8. f \in Surjection(late, T)
  BY DEF Surjection
<1>9. IsFiniteSet(T) /\ Cardinality(T) <= Cardinality(late)
  <2> HIDE DEF f, T, late
  <2> QED
    BY <1>7, <1>8, FS_Surjection
<1>10. IsFiniteSet(lost) /\ Cardinality(lost) <= Cardinality(T)
  BY <1>6, <1>9, FS_Subset
<1>11. Cardinality(late) \in Nat /\ Cardinality(T) \in Nat /\ Cardinality(lost) \in Nat
  BY <1>7, <1>9, <1>10, FS_CardinalityType
<1>12. Cardinality(lost) <= most
  BY <1>2, <1>7, <1>9, <1>10, <1>11
<1> QED
  BY <1>12 DEF lost, most

----------------------------------------------------------------------------
(* Each step keeps the invariant.                                          *)

Buffered == Row \cup {Header}
Behind == Row \cup {Header, Torn}

\* s, then t.
LEMMA Joined ==
  ASSUME NEW S, NEW s \in Seq(S), NEW t \in Seq(S)
  PROVE  /\ s \o t \in Seq(S) /\ Len(s \o t) = Len(s) + Len(t)
         /\ \A i \in 1..Len(s) : (s \o t)[i] = s[i]
         /\ \A i \in 1..Len(t) : (s \o t)[Len(s) + i] = t[i]
<1> DEFINE m == Len(s)
           n == Len(t)
           o == s \o t
<1>1. m \in Nat /\ n \in Nat
  OBVIOUS
<1>2. /\ o \in Seq(S) /\ Len(o) = m + n
      /\ \A i \in 1..m + n : o[i] = IF i <= m THEN s[i] ELSE t[i - m]
  BY ConcatProperties
<1> HIDE DEF m, n, o
<1>3. ASSUME NEW i \in 1..m PROVE o[i] = s[i]
  BY <1>1, <1>2
<1>4. ASSUME NEW i \in 1..n PROVE o[m + i] = t[i]
  <2>1. m + i \in 1..m + n /\ ~ m + i <= m /\ (m + i) - m = i
    BY <1>1
  <2> QED
    BY <1>2, <2>1
<1> QED
  BY <1>2, <1>3, <1>4 DEF m, n, o

\* s, then e.
LEMMA Added ==
  ASSUME NEW S, NEW s \in Seq(S), NEW e \in S, NEW o, o = Append(s, e)
  PROVE  /\ o \in Seq(S) /\ Len(o) = Len(s) + 1
         /\ \A i \in 1..Len(s) : o[i] = s[i]
         /\ o[Len(s) + 1] = e
BY AppendProperties

\* A part of some rows is the first of them, and maybe a torn one.
LEMMA PartialIsFirstRows ==
  ASSUME NEW b \in Seq(Buffered), NEW p \in Partial(b)
  PROVE  /\ p \in Seq(Behind)
         /\ \E n \in 0..Len(b) - 1 :
              /\ \A i \in 1..n : p[i] = b[i]
              /\ Len(p) = n \/ (Len(p) = n + 1 /\ p[n + 1] = Torn)
<1>1. PICK n \in 0..Len(b) - 1 : p \in {SubSeq(b, 1, n), Append(SubSeq(b, 1, n), Torn)}
  BY DEF Partial
<1> DEFINE s == SubSeq(b, 1, n)
<1>2. Len(b) \in Nat /\ n \in Nat /\ n <= Len(b)
  BY <1>1
<1>3. \A i \in 1..n : b[i] \in Behind
  <2>1. b \in Seq(Behind)
    BY SeqMonotonic DEF Buffered, Behind
  <2> QED
    BY <1>2, <2>1, ElementOfSeq
<1>4. s \in Seq(Behind) /\ Len(s) = n /\ \A i \in 1..n : s[i] = b[i]
  <2>1. 1 \in Int /\ n \in Int /\ (1 <= n => n - 1 + 1 = n) /\ (~ 1 <= n => n = 0)
    BY <1>2
  <2>2. /\ s \in Seq(Behind)
        /\ Len(s) = IF 1 <= n THEN n - 1 + 1 ELSE 0
        /\ \A i \in 1..n - 1 + 1 : s[i] = b[1 + i - 1]
    <3> HIDE DEF Behind
    <3> QED
      BY <1>3, <2>1, SubSeqProperties
  <2> HIDE DEF s
  <2> QED
    BY <1>2, <2>2
<1> HIDE DEF s
<1>5. CASE p = s
  BY <1>1, <1>4, <1>5
<1>6. CASE p = Append(s, Torn)
  <2>1. Torn \in Behind
    BY DEF Behind
  <2>2. /\ p \in Seq(Behind) /\ Len(p) = n + 1 /\ p[n + 1] = Torn
        /\ \A i \in 1..n : p[i] = s[i]
    BY <1>4, <1>6, <2>1, Added
  <2> QED
    BY <1>1, <1>4, <2>2
<1> QED
  BY <1>1, <1>5, <1>6 DEF s

\* A command that has not begun to write has the invariant.
LEMMA InitCheckInvariant == CheckInit => CheckInvariant
<1> SUFFICES ASSUME CheckInit PROVE CheckInvariant
  OBVIOUS
<1>1. args \in Seq(Inputs) /\ file \in Seq(Line)
  <2>1. \A S, n : n \in Nat => BoundedSeq(S, n) \subseteq Seq(S)
    BY DEF BoundedSeq, SeqOf
  <2> QED
    BY <2>1, CheckAssumption DEF CheckInit
<1>2. CheckTypeOK
  <2>1. todo \in Seq(Inputs) /\ buffer \in Seq(Row \cup {Header})
    BY EmptySeq DEF CheckInit
  <2>2. out \in Seq(Row \cup {Header, Torn})
    BY EmptySeq DEF CheckInit
  <2> QED
    BY <1>1, <2>1, <2>2 DEF CheckInit, CheckTypeOK
<1>3. Written(0)
  BY DEF CheckInit, Written, Shown
<1> QED
  BY <1>1, <1>2, <1>3, GivenIsInputs DEF CheckInit, CheckInvariant

\* The request does not change.
LEMMA WantedStays == CheckInvariant /\ [CheckNext]_checkVars =>
  UNCHANGED <<args, file, format, Given, Wanted, Headers>>
<1> SUFFICES ASSUME [CheckNext]_checkVars
             PROVE  UNCHANGED <<args, file, format, Given, Wanted, Headers>>
  OBVIOUS
<1>1. UNCHANGED <<args, file, format>>
  BY DEF CheckNext, Step, Refuse, Start, Classify, WriteDirect, WriteBuffered, Finish,
         FillUp, Kill, request, output, checkVars
<1> QED
  BY <1>1 DEF Given, Wanted, Headers

\* The rows that WriteBuffered adds.
NewRows == IF wrote THEN <<row>> ELSE <<Header, row>>

\* They may be put into the buffer.
LEMMA NewRowsTyped ==
  ASSUME row \in Row
  PROVE  NewRows \in Seq(Buffered)
<1>1. <<row>> \in Seq(Buffered) /\ <<Header, row>> \in Seq(Buffered)
  <2>1. row \in Buffered /\ Header \in Buffered
    BY DEF Buffered
  <2> HIDE DEF Buffered
  <2> QED
    BY <2>1
<1> QED
  BY <1>1 DEF NewRows

\* The types.
LEMMA CheckTypes == CheckInvariant /\ [CheckNext]_checkVars => CheckTypeOK'
<1> SUFFICES ASSUME CheckInvariant, [CheckNext]_checkVars PROVE CheckTypeOK'
  OBVIOUS
<1> USE DEF CheckInvariant, CheckTypeOK
<1>0. /\ UNCHANGED request
      /\ out \in Seq(Behind) /\ buffer \in Seq(Buffered)
  BY WantedStays DEF request, Behind, Buffered
<1>1. out \o buffer \in Seq(Behind)
  <2>1. buffer \in Seq(Behind)
    BY <1>0, SeqMonotonic DEF Buffered, Behind
  <2> QED
    BY <1>0, <2>1, ConcatProperties
<1>2. \A p \in Partial(buffer) : out \o p \in Seq(Behind)
  BY <1>0, PartialIsFirstRows, ConcatProperties
<1>3. Append(out, Torn) \in Seq(Behind)
  BY <1>0, AppendProperties DEF Behind
<1>13. <<>> \in Seq(Buffered)
  BY EmptySeq
<1>4. CASE Refuse
  BY <1>0, <1>4 DEF Refuse, Exit, output, request
<1>5. CASE Start
  <2>1. todo' \in Seq(Inputs)
    BY <1>5, TurnsAreFirstUses DEF Start, Wanted
  <2> QED
    BY <1>0, <1>5, <2>1 DEF Start, output, request
<1>6. CASE Classify
  <2>1. Head(todo) \in Inputs /\ Tail(todo) \in Seq(Inputs)
    BY <1>6, HeadTailProperties DEF Classify
  <2> QED
    BY <1>0, <1>6, <2>1 DEF Classify, output, request, Row
<1>7. CASE WriteDirect
  <2>1. out' \in Seq(Behind)
    <3>1. row \in Behind
      BY <1>7 DEF WriteDirect, Underway, Behind
    <3>2. Append(out, row) \in Seq(Behind)
      BY <1>0, <3>1, AppendProperties
    <3> QED
      BY <1>0, <1>3, <1>7, <3>2 DEF WriteDirect
  <2> QED
    BY <1>0, <1>7, <2>1 DEF WriteDirect, Exit, request, Behind
<1>8. CASE WriteBuffered
  <2>1. row \in Row
    BY <1>8 DEF WriteBuffered, Underway
  <2>2. NewRows \in Seq(Buffered) /\ buffer \o NewRows \in Seq(Buffered)
    BY <1>0, <2>1, NewRowsTyped, ConcatProperties
  <2>3. /\ \/ UNCHANGED <<out, exit>> /\ pc' = "classify" /\ buffer' = buffer \o NewRows
           \/ out' = out \o buffer /\ buffer' = NewRows /\ pc' = "classify" /\ exit' = exit
           \/ /\ \E p \in Partial(buffer) : out' = out \o p
              /\ buffer' = <<>> /\ pc' = "exited" /\ exit' = "1"
        /\ wrote' = TRUE /\ row' = NoRow /\ todo' = todo /\ full' = full
    BY <1>8 DEF WriteBuffered, NewRows, Exit
  <2>4. out' \in Seq(Behind) /\ buffer' \in Seq(Buffered)
    BY <1>0, <1>1, <1>2, <1>13, <2>2, <2>3
  <2> QED
    BY <1>0, <2>3, <2>4 DEF request, Behind, Buffered
<1>9. CASE Finish
  <2>1. out' \in Seq(Behind) /\ buffer' \in Seq(Buffered)
    <3>1. CASE out' = out \o buffer
      BY <1>1, <1>13, <1>9, <3>1 DEF Finish
    <3>2. CASE \E p \in Partial(buffer) : out' = out \o p
      BY <1>2, <1>13, <1>9, <3>2 DEF Finish
    <3>3. CASE out' = out
      BY <1>0, <1>13, <1>9, <3>3 DEF Finish
    <3> QED
      BY <1>9, <3>1, <3>2, <3>3 DEF Finish
  <2> QED
    BY <1>0, <1>9, <2>1 DEF Finish, Exit, request, Behind, Buffered
<1>10. CASE FillUp
  BY <1>0, <1>10 DEF FillUp, output, request
<1>11. CASE Kill
  <2>1. out' \in Seq(Behind)
    BY <1>0, <1>3, <1>11 DEF Kill
  <2> QED
    BY <1>0, <1>11, <2>1 DEF Kill, Exit, request, Behind
<1>12. CASE UNCHANGED checkVars
  BY <1>0, <1>12 DEF checkVars, request
<1> QED
  BY <1>4, <1>5, <1>6, <1>7, <1>8, <1>9, <1>10, <1>11, <1>12 DEF CheckNext, Step

\* What a full output has got of the buffer.
LEMMA ShownInPart ==
  ASSUME CheckTypeOK, Underway, NEW p \in Partial(buffer), NEW o, o = out \o p
  PROVE  \E n \in Nat : Shown(o, n) /\ n >= Len(out)
<1> DEFINE len == Len(out)
<1>1. out \in Seq(Behind) /\ buffer \in Seq(Buffered) /\ len \in Nat
  BY DEF CheckTypeOK, Behind, Buffered
<1>2. PICK n \in 0..Len(buffer) - 1 :
        /\ p \in Seq(Behind)
        /\ \A i \in 1..n : p[i] = buffer[i]
        /\ Len(p) = n \/ (Len(p) = n + 1 /\ p[n + 1] = Torn)
  BY <1>1, PartialIsFirstRows
<1>3. n \in Nat /\ Len(buffer) \in Nat /\ n <= Len(buffer)
  BY <1>1, <1>2
<1>4. /\ o \in Seq(Behind) /\ Len(o) = len + Len(p)
      /\ \A i \in 1..len : o[i] = out[i]
      /\ \A i \in 1..Len(p) : o[len + i] = p[i]
  BY <1>1, <1>2, Joined
<1>5. /\ \A i \in 1..len : Item(out[i], i)
      /\ \A i \in 1..Len(buffer) : Item(buffer[i], len + i)
  BY DEF Underway
<1> HIDE DEF len
<1>6. ASSUME NEW i \in 1..len + n PROVE Item(o[i], i)
  <2>1. CASE i <= len
    BY <1>1, <1>4, <1>5, <2>1
  <2>2. CASE ~ i <= len
    <3> DEFINE j == i - len
    <3>1. j \in 1..n /\ j \in 1..Len(p) /\ j \in 1..Len(buffer) /\ i = len + j
      BY <1>1, <1>2, <1>3, <2>2
    <3> HIDE DEF j
    <3>2. o[i] = buffer[j]
      BY <1>2, <1>4, <3>1
    <3> QED
      BY <1>5, <3>1, <3>2
  <2> QED
    BY <2>1, <2>2
<1>7. len + n = Len(o) \/ (len + n = Len(o) - 1 /\ o[len + n + 1] = Torn)
  <2>1. CASE Len(p) = n
    BY <1>4, <2>1
  <2>2. CASE Len(p) = n + 1 /\ p[n + 1] = Torn
    <3>1. n + 1 \in 1..Len(p) /\ len + (n + 1) = len + n + 1
      BY <1>1, <1>3, <2>2
    <3>2. o[len + (n + 1)] = p[n + 1]
      BY <1>4, <3>1
    <3>3. Len(o) = len + (n + 1)
      BY <1>4, <2>2
    <3>4. len + n = Len(o) - 1
      BY <1>1, <1>3, <3>3
    <3> QED
      BY <2>2, <3>1, <3>2, <3>4
  <2> QED
    BY <1>2, <2>1, <2>2
<1>8. Shown(o, len + n)
  <2>1. len + n \in 0..Len(o)
    BY <1>1, <1>3, <1>4, <1>2
  <2> QED
    BY <1>6, <1>7, <2>1 DEF Shown
<1> QED
  BY <1>1, <1>3, <1>8 DEF len

\* What an output has got that took the buffer.
LEMMA ShownInFull ==
  ASSUME CheckTypeOK, Underway, NEW o, o = out \o buffer
  PROVE  Len(o) = Len(out) + Len(buffer) /\ Shown(o, Len(o))
<1> DEFINE len == Len(out)
<1>1. out \in Seq(Behind) /\ buffer \in Seq(Behind) /\ len \in Nat /\ Len(buffer) \in Nat
  BY SeqMonotonic DEF CheckTypeOK, Behind
<1>2. /\ Len(o) = len + Len(buffer)
      /\ \A i \in 1..len : o[i] = out[i]
      /\ \A i \in 1..Len(buffer) : o[len + i] = buffer[i]
  BY <1>1, Joined
<1>3. /\ \A i \in 1..len : Item(out[i], i)
      /\ \A i \in 1..Len(buffer) : Item(buffer[i], len + i)
  BY DEF Underway
<1> HIDE DEF len
<1>4. ASSUME NEW i \in 1..Len(o) PROVE Item(o[i], i)
  <2>1. CASE i <= len
    BY <1>1, <1>2, <1>3, <2>1
  <2>2. CASE ~ i <= len
    <3> DEFINE j == i - len
    <3>1. j \in 1..Len(buffer) /\ i = len + j
      BY <1>1, <1>2, <2>2
    <3> HIDE DEF j
    <3> QED
      BY <1>2, <1>3, <3>1
  <2> QED
    BY <2>1, <2>2
<1>5. Len(o) \in Nat
  BY <1>1, <1>2
<1> QED
  BY <1>2, <1>4, <1>5 DEF Shown, len

\* What an output has got that is left as it is, or gets a torn row.
LEMMA ShownAsBefore ==
  ASSUME CheckTypeOK, \A i \in 1..Len(out) : Item(out[i], i),
         NEW o \in {out, Append(out, Torn)}
  PROVE  Shown(o, Len(out))
<1>1. out \in Seq(Behind) /\ Len(out) \in Nat /\ Torn \in Behind
  BY DEF CheckTypeOK, Behind
<1>2. CASE o = out
  BY <1>1, <1>2 DEF Shown
<1>3. CASE o = Append(out, Torn)
  <2>1. /\ Len(o) = Len(out) + 1
        /\ \A i \in 1..Len(out) : o[i] = out[i]
        /\ o[Len(out) + 1] = Torn
    BY <1>1, <1>3, Added
  <2> DEFINE len == Len(out)
  <2>2. len \in 0..Len(o) /\ len = Len(o) - 1
    BY <1>1, <2>1
  <2> QED
    BY <2>1, <2>2 DEF Shown
<1> QED
  BY <1>2, <1>3

\* The invariant of a command that has ended.
LEMMA Ends ==
  ASSUME CheckInvariant, [CheckNext]_checkVars, pc' = "exited",
         NEW n \in Nat, Shown(out', n),
         exit' = "0" => Len(Wanted) + Headers <= n + (IF format = "csv" THEN BufferRows ELSE 0)
  PROVE  CheckInvariant'
<1>1. UNCHANGED <<args, file, format, Given, Wanted, Headers>> /\ CheckTypeOK'
  BY WantedStays, CheckTypes
<1>2. Written(n)'
  BY <1>1 DEF Written, Shown, Item
<1>3. (Given \in Seq(Inputs))'
  BY <1>1 DEF CheckInvariant
<1> QED
  BY <1>1, <1>2, <1>3 DEF CheckInvariant

\* The invariant of a command in its loop.
LEMMA GoesOn ==
  ASSUME CheckInvariant, [CheckNext]_checkVars, pc' \in {"classify", "write"}, exit' = "no",
         \A i \in 1..Len(out') : Item(out'[i], i), Underway'
  PROVE  CheckInvariant'
<1>1. UNCHANGED <<args, file, format, Given, Wanted, Headers>> /\ CheckTypeOK'
  BY WantedStays, CheckTypes
<1>2. Len(out') \in Nat
  BY <1>1 DEF CheckTypeOK
<1>3. Written(Len(out))'
  BY <1>1, <1>2 DEF Written, Shown, Item
<1>4. (Given \in Seq(Inputs))'
  BY <1>1 DEF CheckInvariant
<1> QED
  BY <1>1, <1>2, <1>3, <1>4 DEF CheckInvariant

\* Before the loop.
LEMMA StepBefore ==
  ASSUME CheckInvariant, [CheckNext]_checkVars, Refuse \/ Start
  PROVE  CheckInvariant'
<1>1. /\ CheckTypeOK /\ Given \in Seq(Inputs) /\ exit = "no" /\ out = <<>> /\ buffer = <<>>
      /\ ~ wrote /\ UNCHANGED <<row, output, full>>
  BY DEF Refuse, Start, CheckInvariant
<1>2. Len(out) = 0 /\ Len(buffer) = 0 /\ out' = <<>> /\ buffer' = <<>> /\ ~ wrote'
  BY <1>1 DEF output
<1>3. CASE Refuse
  <2>1. Shown(out', 0)
    BY <1>2 DEF Shown
  <2> QED
    BY <1>3, <2>1, Ends DEF Refuse, Exit
<1>4. CASE Start
  <2>1. UNCHANGED <<args, file, format, Given, Wanted, Headers>>
    BY WantedStays
  <2>2. todo' = Wanted /\ pc' = "classify"
    BY <1>4 DEF Start, Wanted
  <2>3. Wanted \in Seq(Inputs) /\ Len(Wanted) \in Nat
    BY <1>1, TurnsAreFirstUses
  <2>4. Done' = 0 /\ Pending' = 0
    BY <1>2, <2>2 DEF Done, Pending
  <2>5. Underway'
    BY <1>2, <2>1, <2>2, <2>3, <2>4, CheckAssumption DEF Underway
  <2> QED
    BY <1>1, <1>2, <1>4, <2>2, <2>5, GoesOn DEF Start
<1> QED
  BY <1>3, <1>4

\* The head of todo becomes the row.
LEMMA StepClassify ==
  ASSUME CheckInvariant, [CheckNext]_checkVars, Classify
  PROVE  CheckInvariant'
<1>1. /\ CheckTypeOK /\ exit = "no" /\ exit' = "no" /\ pc = "classify" /\ pc' = "write"
      /\ todo # <<>> /\ todo' = Tail(todo) /\ Underway /\ UNCHANGED output
      /\ \E answered \in BOOLEAN : row' = [input |-> Head(todo), answered |-> answered]
  BY DEF Classify, CheckInvariant
<1>2. UNCHANGED <<args, file, format, Given, Wanted, Headers, out, buffer, wrote, Done>>
  BY <1>1, WantedStays DEF output, Done
<1> DEFINE d == Wanted
           m == Done
           t == Tail(todo)
<1>3. /\ m \in Nat /\ Len(todo) \in Nat /\ m + Len(todo) = Len(d) /\ Len(todo) # 0
      /\ \A i \in 1..Len(todo) : todo[i] = d[m + i]
  <2>1. Pending = 0
    BY <1>1 DEF Pending
  <2>2. Len(todo) \in Nat /\ Len(todo) # 0
    BY <1>1, EmptySeq DEF CheckTypeOK
  <2>3. m \in Nat /\ m + 0 + Len(todo) = Len(d) /\ \A i \in 1..Len(todo) : todo[i] = d[m + 0 + i]
    BY <1>1, <2>1 DEF Underway
  <2> HIDE DEF d, m
  <2> QED
    BY <2>2, <2>3
<1>4. /\ Len(t) = Len(todo) - 1
      /\ \A i \in 1..Len(t) : t[i] = todo[i + 1]
      /\ Head(todo) = todo[1] /\ Head(todo) \in Inputs
  BY <1>1, HeadTailProperties DEF CheckTypeOK
<1>5. Pending' = 1
  BY <1>1 DEF Pending
<1>6. /\ m + 1 + Len(t) = Len(d)
      /\ \A i \in 1..Len(t) : t[i] = d[m + 1 + i]
      /\ Head(todo) = d[m + 1]
  <2> HIDE DEF d, m, t
  <2>1. ASSUME NEW i \in 1..Len(t) PROVE t[i] = d[m + 1 + i]
    <3>1. i + 1 \in 1..Len(todo) /\ m + (i + 1) = m + 1 + i
      BY <1>3, <1>4
    <3> QED
      BY <1>3, <1>4, <3>1
  <2>2. 1 \in 1..Len(todo)
    BY <1>3
  <2>3. Head(todo) = d[m + 1]
    BY <1>3, <1>4, <2>2
  <2>4. m + 1 + Len(t) = Len(d)
    <3> DEFINE c == Len(todo)
               e == Len(d)
               f == Len(t)
    <3>1. m \in Nat /\ c \in Nat /\ m + c = e /\ f = c - 1
      BY <1>3, <1>4
    <3> HIDE DEF c, e, f
    <3>2. m + 1 + f = e
      BY <3>1
    <3> QED
      BY <3>2 DEF e, f
  <2> QED
    BY <2>1, <2>3, <2>4
<1>7. row' \in Row /\ row'.input = d[m + 1]
  <2> HIDE DEF d, m
  <2> QED
    BY <1>1, <1>4, <1>6 DEF Row
<1>8. Underway'
  <2>1. /\ (\A i \in 1..Len(out) : Item(out[i], i))'
        /\ (\A i \in 1..Len(buffer) : Item(buffer[i], Len(out) + i))'
    BY <1>1, <1>2 DEF Underway, Item
  <2>2. /\ (Len(buffer) <= BufferRows)' /\ (wrote => format = "csv")'
        /\ (format # "csv" => buffer = <<>>)'
        /\ (format = "csv" /\ ~ wrote => out = <<>> /\ buffer = <<>>)'
    BY <1>1, <1>2 DEF Underway
  <2>3. (Done \in Nat)' /\ (Done + Pending + Len(todo) = Len(Wanted))'
    BY <1>1, <1>2, <1>3, <1>5, <1>6
  <2>4. (pc = "write" => row \in Row /\ row.input = Wanted[Done + 1])'
    BY <1>2, <1>7
  <2>5. (\A i \in 1..Len(todo) : todo[i] = Wanted[Done + Pending + i])'
    BY <1>1, <1>2, <1>5, <1>6
  <2> QED
    BY <2>1, <2>2, <2>3, <2>4, <2>5 DEF Underway
<1>9. \A i \in 1..Len(out') : Item(out'[i], i)
  BY <1>1, <1>2 DEF Underway
<1> QED
  BY <1>1, <1>8, <1>9, GoesOn

\* A row goes straight to standard output.
LEMMA StepWriteDirect ==
  ASSUME CheckInvariant, [CheckNext]_checkVars, WriteDirect
  PROVE  CheckInvariant'
<1>1. /\ CheckTypeOK /\ exit = "no" /\ pc = "write" /\ format # "csv" /\ Underway
      /\ UNCHANGED <<todo, wrote, buffer>>
  BY DEF WriteDirect, CheckInvariant
<1>2. UNCHANGED <<args, file, format, Given, Wanted, Headers>>
  BY WantedStays
<1>3. CASE out' \in {out, Append(out, Torn)} /\ Exit("1")
  <2>1. Len(out) \in Nat /\ \A i \in 1..Len(out) : Item(out[i], i)
    BY <1>1 DEF Underway, CheckTypeOK
  <2>2. Shown(out', Len(out))
    BY <1>1, <1>3, <2>1, ShownAsBefore
  <2> QED
    BY <1>3, <2>1, <2>2, Ends DEF Exit
<1>4. CASE out' = Append(out, row) /\ pc' = "classify" /\ exit' = exit
  <2> DEFINE d == Wanted
             m == Done
             len == Len(out)
  <2>1. /\ buffer = <<>> /\ ~ wrote /\ Headers = 0 /\ Pending = 1 /\ Pending' = 0
        /\ len \in Nat /\ m = len /\ Len(todo) \in Nat
    BY <1>1, <1>4 DEF Underway, CheckTypeOK, Pending, Done, Headers
  <2>2. /\ m + 1 + Len(todo) = Len(d) /\ Len(d) \in Nat
        /\ row \in Row /\ row.input = d[m + 1]
        /\ \A i \in 1..Len(todo) : todo[i] = d[m + 1 + i]
        /\ \A i \in 1..len : Item(out[i], i)
    BY <1>1, <2>1, TurnsAreFirstUses DEF Underway, CheckInvariant
  <2>3. /\ Len(out') = len + 1 /\ out'[len + 1] = row
        /\ \A i \in 1..len : out'[i] = out[i]
    <3>1. out \in Seq(Behind) /\ row \in Behind
      BY <1>1, <2>2 DEF CheckTypeOK, Behind
    <3> QED
      BY <1>4, <3>1, Added
  <2>4. Item(row, len + 1)
    <3>1. len + 1 \in DOMAIN d
      <4>1. DOMAIN d = 1..Len(d)
        BY TurnsAreFirstUses DEF CheckInvariant
      <4> HIDE DEF d, m, len
      <4> QED
        BY <2>1, <2>2, <4>1
    <3> HIDE DEF d, m, len
    <3>2. len + 1 - 0 = len + 1 /\ ~ len + 1 <= 0
      BY <2>1
    <3> QED
      BY <2>1, <2>2, <3>1, <3>2 DEF Item, d
  <2>5. \A i \in 1..Len(out') : Item(out'[i], i)
    <3> SUFFICES ASSUME NEW i \in 1..Len(out') PROVE Item(out'[i], i)
      OBVIOUS
    <3> HIDE DEF len
    <3>1. i \in 1..len \/ i = len + 1
      BY <2>1, <2>3
    <3> QED
      BY <2>2, <2>3, <2>4, <3>1
  <2>6. Done' = m + 1
    <3>1. Done' = Len(out') + Len(<<>>) - 0
      BY <1>1, <2>1 DEF Done
    <3> QED
      BY <2>1, <2>3, <3>1
  <2>7. Underway'
    <3>1. (\A i \in 1..Len(out) : Item(out[i], i))'
      BY <1>2, <2>5 DEF Item
    <3>2. /\ (\A i \in 1..Len(buffer) : Item(buffer[i], Len(out) + i))'
          /\ (Len(buffer) <= BufferRows)' /\ (wrote => format = "csv")'
          /\ (format # "csv" => buffer = <<>>)'
          /\ (format = "csv" /\ ~ wrote => out = <<>> /\ buffer = <<>>)'
      BY <1>1, <1>2, <2>1, CheckAssumption
    <3>3. /\ (Done \in Nat)' /\ (Done + Pending + Len(todo) = Len(Wanted))'
          /\ (\A i \in 1..Len(todo) : todo[i] = Wanted[Done + Pending + i])'
      <4> HIDE DEF m, len
      <4>1. m + 1 + 0 = m + 1 /\ m + 1 \in Nat
        BY <2>1
      <4> QED
        BY <1>1, <1>2, <2>1, <2>2, <2>6, <4>1
    <3>4. (pc = "write" => row \in Row /\ row.input = Wanted[Done + 1])'
      BY <1>4
    <3> QED
      BY <3>1, <3>2, <3>3, <3>4 DEF Underway
  <2> QED
    BY <1>1, <1>4, <2>5, <2>7, GoesOn
<1> QED
  BY <1>3, <1>4 DEF WriteDirect

\* The rows that WriteBuffered adds are the next items.
LEMMA NewRowsAreNext ==
  ASSUME CheckTypeOK, Underway, Given \in Seq(Inputs), pc = "write", format = "csv"
  PROVE  /\ NewRows \in Seq(Buffered)
         /\ Len(NewRows) = IF wrote THEN 1 ELSE 2
         /\ \A i \in 1..Len(NewRows) : Item(NewRows[i], Len(out) + Len(buffer) + i)
         /\ buffer # <<>> => wrote
<1> DEFINE d == Wanted
           k == Len(out) + Len(buffer)
<1>1. /\ Len(out) \in Nat /\ Len(buffer) \in Nat /\ Len(todo) \in Nat /\ k \in Nat
      /\ Headers = 1 /\ Pending = 1 /\ row \in Row
      /\ buffer # <<>> => wrote
  BY DEF CheckTypeOK, Headers, Pending, Underway
<1>2. DOMAIN d = 1..Len(d) /\ Len(d) \in Nat
  BY TurnsAreFirstUses
<1>3. /\ Done \in Nat /\ Done + 1 + Len(todo) = Len(d) /\ row.input = d[Done + 1]
      /\ Done = k - (IF wrote THEN 1 ELSE 0)
      /\ ~ wrote => k = 0
  <2>1. Done \in Nat /\ Done + Pending + Len(todo) = Len(d) /\ row.input = d[Done + 1]
    BY DEF Underway
  <2>2. Done = k - (IF wrote THEN 1 ELSE 0)
    BY DEF Done
  <2>3. ~ wrote => k = 0
    BY DEF Underway
  <2> HIDE DEF d, k
  <2> QED
    BY <1>1, <2>1, <2>2, <2>3
<1> HIDE DEF d, k
<1>4. Done + 1 \in DOMAIN d
  BY <1>1, <1>2, <1>3
<1>5. ASSUME NEW i \in Nat, i - 1 = Done + 1 PROVE Item(row, i)
  <2>1. ~ i <= 1
    BY <1>3, <1>5
  <2> QED
    BY <1>1, <1>3, <1>4, <1>5, <2>1 DEF Item, d
<1>6. Item(Header, 1)
  BY <1>1 DEF Item
<1>7. CASE wrote
  <2>1. NewRows = <<row>> /\ Len(NewRows) = 1 /\ NewRows[1] = row
    BY <1>7 DEF NewRows
  <2>2. Item(row, k + 1)
    BY <1>1, <1>3, <1>5, <1>7
  <2>3. \A i \in 1..Len(NewRows) : Item(NewRows[i], k + i)
    BY <2>1, <2>2
  <2> QED
    BY <1>1, <1>7, <2>1, <2>3, NewRowsTyped DEF k
<1>8. CASE ~ wrote
  <2>1. /\ NewRows = <<Header, row>> /\ Len(NewRows) = 2
        /\ NewRows[1] = Header /\ NewRows[2] = row
    BY <1>8 DEF NewRows
  <2>2. Item(row, 2) /\ k = 0
    BY <1>1, <1>3, <1>5, <1>8
  <2>3. \A i \in 1..Len(NewRows) : Item(NewRows[i], k + i)
    <3>1. ASSUME NEW i \in 1..2 PROVE k + i = i /\ (i = 1 \/ i = 2)
      BY <2>2
    <3> QED
      BY <1>6, <2>1, <2>2, <3>1
  <2> QED
    BY <1>1, <1>8, <2>1, <2>3, NewRowsTyped DEF k
<1> QED
  BY <1>7, <1>8

\* The buffer takes the row, or makes room for it.
LEMMA StepWriteBuffered ==
  ASSUME CheckInvariant, [CheckNext]_checkVars, WriteBuffered
  PROVE  CheckInvariant'
<1>1. /\ CheckTypeOK /\ exit = "no" /\ pc = "write" /\ format = "csv" /\ Underway
      /\ Given \in Seq(Inputs) /\ todo' = todo /\ wrote'
  BY DEF WriteBuffered, CheckInvariant
<1>2. UNCHANGED <<args, file, format, Given, Wanted, Headers>>
  BY WantedStays
<1>3. \/ /\ out' = out /\ buffer' = buffer \o NewRows
         /\ Len(buffer \o NewRows) <= BufferRows
         /\ pc' = "classify" /\ exit' = exit
      \/ /\ out' = out \o buffer /\ buffer' = NewRows /\ buffer # <<>>
         /\ pc' = "classify" /\ exit' = exit
      \/ /\ \E p \in Partial(buffer) : out' = out \o p
         /\ pc' = "exited" /\ exit' = "1"
  BY <1>1 DEF WriteBuffered, NewRows, Exit
<1>4. CASE (\E p \in Partial(buffer) : out' = out \o p) /\ pc' = "exited" /\ exit' = "1"
  <2>1. PICK n \in Nat : Shown(out', n)
    BY <1>1, <1>4, ShownInPart
  <2> QED
    BY <1>4, <2>1, Ends
<1> DEFINE d == Wanted
           m == Done
           len == Len(out)
           b == Len(buffer)
           a == Len(NewRows)
<1>5. /\ out \in Seq(Behind) /\ buffer \in Seq(Buffered)
      /\ len \in Nat /\ b \in Nat /\ Len(todo) \in Nat
      /\ BufferRows \in Nat /\ BufferRows >= 2
  BY <1>1, CheckAssumption DEF CheckTypeOK, Behind, Buffered
<1>6. /\ NewRows \in Seq(Buffered) /\ a = (IF wrote THEN 1 ELSE 2)
      /\ \A i \in 1..a : Item(NewRows[i], len + b + i)
      /\ buffer # <<>> => wrote
  BY <1>1, NewRowsAreNext
<1>7. /\ \A i \in 1..len : Item(out[i], i)
      /\ \A i \in 1..b : Item(buffer[i], len + i)
      /\ m \in Nat /\ m + 1 + Len(todo) = Len(d)
      /\ \A i \in 1..Len(todo) : todo[i] = d[m + 1 + i]
      /\ m = len + b - (IF wrote THEN 1 ELSE 0)
      /\ b <= BufferRows
  BY <1>1 DEF Underway, Pending, Done
<1>8. a \in Nat /\ m + 1 = len + b + a - 1
  <2> HIDE DEF m, len, b, a
  <2> QED
    BY <1>5, <1>6, <1>7
<1>9. ASSUME pc' = "classify", exit' = exit,
             Len(out') + Len(buffer') = len + b + a,
             Len(buffer') <= BufferRows,
             \A i \in 1..Len(out') : Item(out'[i], i),
             \A i \in 1..Len(buffer') : Item(buffer'[i], Len(out') + i)
      PROVE  CheckInvariant'
  <2>1. Done' = m + 1 /\ Pending' = 0
    <3>1. Done' = Len(out') + Len(buffer') - 1
      BY <1>1 DEF Done
    <3> QED
      BY <1>8, <1>9, <3>1 DEF Pending
  <2>2. Underway'
    <3>1. /\ (\A i \in 1..Len(out) : Item(out[i], i))'
          /\ (\A i \in 1..Len(buffer) : Item(buffer[i], Len(out) + i))'
      BY <1>2, <1>9 DEF Item
    <3>2. /\ (Len(buffer) <= BufferRows)' /\ (wrote => format = "csv")'
          /\ (format # "csv" => buffer = <<>>)'
          /\ (format = "csv" /\ ~ wrote => out = <<>> /\ buffer = <<>>)'
      BY <1>1, <1>2, <1>9
    <3>3. /\ (Done \in Nat)' /\ (Done + Pending + Len(todo) = Len(Wanted))'
          /\ (\A i \in 1..Len(todo) : todo[i] = Wanted[Done + Pending + i])'
      <4> HIDE DEF m
      <4>1. m + 1 + 0 = m + 1 /\ m + 1 \in Nat
        BY <1>7
      <4> QED
        BY <1>1, <1>2, <1>7, <2>1, <4>1
    <3>4. (pc = "write" => row \in Row /\ row.input = Wanted[Done + 1])'
      BY <1>9
    <3> QED
      BY <3>1, <3>2, <3>3, <3>4 DEF Underway
  <2> QED
    BY <1>1, <1>9, <2>2, GoesOn
<1>10. CASE /\ out' = out /\ buffer' = buffer \o NewRows
            /\ Len(buffer \o NewRows) <= BufferRows
            /\ pc' = "classify" /\ exit' = exit
  <2> DEFINE both == buffer \o NewRows
  <2>1. /\ Len(buffer') = b + a
        /\ \A i \in 1..b : buffer'[i] = buffer[i]
        /\ \A i \in 1..a : buffer'[b + i] = NewRows[i]
    <3>1. buffer \in Seq(Buffered) /\ NewRows \in Seq(Buffered)
      BY <1>5, <1>6
    <3>2. /\ Len(both) = Len(buffer) + Len(NewRows)
          /\ \A i \in 1..Len(buffer) : both[i] = buffer[i]
          /\ \A i \in 1..Len(NewRows) : both[Len(buffer) + i] = NewRows[i]
      BY <3>1, Joined
    <3>3. buffer' = both
      BY <1>10
    <3> HIDE DEF both
    <3> QED
      BY <3>2, <3>3
  <2> HIDE DEF b, a, len, m, d, both
  <2>2. ASSUME NEW i \in 1..Len(buffer') PROVE Item(buffer'[i], len + i)
    <3>1. CASE i <= b
      <4>1. i \in 1..b
        BY <1>5, <1>8, <2>1, <3>1
      <4> QED
        BY <1>7, <2>1, <4>1
    <3>2. CASE ~ i <= b
      <4> DEFINE j == i - b
      <4>1. j \in 1..a /\ i = b + j /\ len + i = len + b + j
        BY <1>5, <1>8, <2>1, <3>2
      <4> HIDE DEF j
      <4> QED
        BY <1>6, <2>1, <4>1
    <3> QED
      BY <3>1, <3>2
  <2>3. Len(out') + Len(buffer') = len + b + a
    BY <1>5, <1>8, <1>10, <2>1 DEF len
  <2> QED
    BY <1>7, <1>9, <1>10, <2>2, <2>3 DEF len
<1>11. CASE /\ out' = out \o buffer /\ buffer' = NewRows /\ buffer # <<>>
            /\ pc' = "classify" /\ exit' = exit
  <2>1. Len(out') = len + b /\ Shown(out', Len(out'))
    BY <1>1, <1>11, ShownInFull
  <2>2. Len(buffer') <= BufferRows
    <3>1. Len(buffer') = 1
      BY <1>6, <1>11
    <3> QED
      BY <1>5, <3>1
  <2>3. \A i \in 1..Len(out') : Item(out'[i], i)
    BY <2>1 DEF Shown
  <2>4. \A i \in 1..Len(buffer') : Item(buffer'[i], Len(out') + i)
    BY <1>6, <1>11, <2>1
  <2> QED
    BY <1>9, <1>11, <2>1, <2>2, <2>3, <2>4
<1> QED
  BY <1>3, <1>4, <1>10, <1>11

\* The last rows are in the buffer.
LEMMA StepFinish ==
  ASSUME CheckInvariant, [CheckNext]_checkVars, Finish
  PROVE  CheckInvariant'
<1>1. /\ CheckTypeOK /\ pc = "classify" /\ todo = <<>> /\ Underway
      /\ pc' = "exited" /\ exit' = "0"
  BY DEF Finish, Exit, CheckInvariant
<1> DEFINE len == Len(out)
           b == Len(buffer)
           w == IF wrote THEN 1 ELSE 0
           h == Headers
           most == IF format = "csv" THEN BufferRows ELSE 0
<1>2. /\ len \in Nat /\ b \in Nat /\ Len(Wanted) = len + b - w
      /\ b <= most /\ h <= w + most - b
  <2>1. len \in Nat /\ b \in Nat /\ Len(todo) = 0 /\ Pending = 0
    BY <1>1 DEF CheckTypeOK, Pending
  <2>2. Done = len + b - w /\ Done \in Nat /\ Done + 0 + 0 = Len(Wanted)
    BY <1>1, <2>1 DEF Underway, Done
  <2>3. b <= most /\ h <= w + most - b
    <3>1. BufferRows \in Nat /\ BufferRows >= 2
      BY CheckAssumption
    <3>2. b <= BufferRows
      BY <1>1 DEF Underway
    <3>3. CASE format # "csv"
      BY <1>1, <2>1, <3>3 DEF Underway, Headers
    <3>4. CASE format = "csv" /\ wrote
      <4> HIDE DEF b
      <4> QED
        BY <2>1, <3>1, <3>2, <3>4 DEF Headers
    <3>5. CASE format = "csv" /\ ~ wrote
      BY <1>1, <3>1, <3>5 DEF Underway, Headers
    <3> QED
      BY <3>3, <3>4, <3>5
  <2> HIDE DEF len, b, w
  <2> QED
    BY <2>1, <2>2, <2>3 DEF w
<1>3. h \in Nat /\ most \in Nat /\ w \in Nat
  BY CheckAssumption DEF Headers
<1>4. \E n \in Nat : Shown(out', n) /\ n >= len /\ Len(Wanted) + h <= n + most
  <2>1. CASE out' = out \o buffer
    <3>1. Len(out') = len + b /\ Shown(out', Len(out'))
      BY <1>1, <2>1, ShownInFull
    <3>2. len + b \in Nat /\ len + b >= len /\ Len(Wanted) + h <= (len + b) + most
      <4> HIDE DEF len, b, w, h, most
      <4> QED
        BY <1>2, <1>3
    <3> QED
      BY <3>1, <3>2
  <2>2. CASE \E p \in Partial(buffer) : out' = out \o p
    <3>1. PICK n \in Nat : Shown(out', n) /\ n >= len
      BY <1>1, <2>2, ShownInPart
    <3>2. Len(Wanted) + h <= n + most
      <4> HIDE DEF len, b, w, h, most
      <4> QED
        BY <1>2, <1>3, <3>1
    <3> QED
      BY <3>1, <3>2
  <2>3. CASE out' = out
    <3>1. Shown(out', len)
      BY <1>1, <2>3, ShownAsBefore DEF Underway
    <3>2. Len(Wanted) + h <= len + most
      <4> HIDE DEF len, b, w, h, most
      <4> QED
        BY <1>2, <1>3
    <3> QED
      BY <1>2, <3>1, <3>2
  <2> QED
    BY <2>1, <2>2, <2>3 DEF Finish
<1> QED
  BY <1>1, <1>4, Ends

\* A signal.
LEMMA StepKill ==
  ASSUME CheckInvariant, [CheckNext]_checkVars, Kill
  PROVE  CheckInvariant'
<1>1. /\ CheckTypeOK /\ pc # "exited" /\ pc' = "exited" /\ exit' = "killed"
      /\ out' \in {out, Append(out, Torn)}
  BY DEF Kill, Running, Exit, CheckInvariant
<1>2. Len(out) \in Nat /\ \A i \in 1..Len(out) : Item(out[i], i)
  BY <1>1 DEF CheckInvariant, CheckTypeOK, Underway
<1>3. Shown(out', Len(out))
  BY <1>1, <1>2, ShownAsBefore
<1> QED
  BY <1>1, <1>2, <1>3, Ends

\* Nothing but the space behind standard output.
LEMMA StepElse ==
  ASSUME CheckInvariant, [CheckNext]_checkVars, FillUp \/ UNCHANGED checkVars
  PROVE  CheckInvariant'
<1>1. UNCHANGED <<args, file, format, Given, Wanted, Headers>> /\ CheckTypeOK'
  BY WantedStays, CheckTypes
<1>2. UNCHANGED <<pc, todo, row, wrote, buffer, out, exit>>
  BY DEF FillUp, output, checkVars
<1>3. UNCHANGED <<Done, Pending>>
  BY <1>2 DEF Done, Pending
<1>4. Underway => Underway'
  BY <1>1, <1>2, <1>3 DEF Underway, Item
<1>5. \A n : Written(n) => Written(n)'
  BY <1>1, <1>2 DEF Written, Shown, Item
<1> QED
  BY <1>1, <1>2, <1>4, <1>5 DEF CheckInvariant

\* Every step keeps it.
LEMMA CheckStep == CheckInvariant /\ [CheckNext]_checkVars => CheckInvariant'
BY StepBefore, StepClassify, StepWriteDirect, StepWriteBuffered, StepFinish, StepKill,
   StepElse DEF CheckNext, Step

\* It always holds.
LEMMA CheckInvariance == CheckSpec => []CheckInvariant
BY InitCheckInvariant, CheckStep, PTL DEF CheckSpec

\* Every state of a check is of the right type.
THEOREM CheckTyped == CheckSpec => []CheckTypeOK
<1>1. CheckInvariant => CheckTypeOK
  BY DEF CheckInvariant
<1> QED
  BY <1>1, CheckInvariance, PTL

\* The rows of a check answer the inputs, each once, in the order of their first
\* use, whatever the output format, and a torn row is the last.
THEOREM RowsInOrder == CheckSpec => []RowsAnswerInputs
BY CheckInvariance, RowsFollow, PTL

\* What a check that exits with 0 may have lost is a last buffer of CSV rows.
THEOREM NothingLostButABuffer == CheckSpec => []ExitZeroWritesAll
BY CheckInvariance, LossIsOneBuffer, PTL
=============================================================================
