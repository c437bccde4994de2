--------------------------- MODULE AtomicRegister ---------------------------
(***************************************************************************)
(* What cache.Store promises about one file raw/<key>: the file is a       *)
(* register that changes from one whole payload to another, or to none, in *)
(* one step; a power failure takes it back to a value it had before, one   *)
(* at least as recent as every write the store has acknowledged; and       *)
(* nothing else ever happens to it.  Store refines this module; Fetcher is *)
(* built on two of these registers, raw/<key> and raw/<key>.meta.          *)
(*                                                                         *)
(* A value is a pair of a payload and a rank: the rank counts the writes   *)
(* that took effect, so that "at least as recent as" is a comparison.      *)
(***************************************************************************)
EXTENDS Naturals

CONSTANTS
  Data,      \* the payloads
  NoData     \* what a reader of a missing file sees

VARIABLES
  cur,       \* what a reader sees now
  stable,    \* what a reader would see after a power failure
  acked      \* the largest rank some caller was told is on disk

regvars == <<cur, stable, acked>>

Value == [payload : Data \cup {NoData}, rank : Nat]

Init ==
  /\ cur = [payload |-> NoData, rank |-> 0]
  /\ stable = cur
  /\ acked = 0

\* A write takes effect: one whole payload replaces another.
Publish ==
  /\ \E d \in Data : cur' = [payload |-> d, rank |-> cur.rank + 1]
  /\ UNCHANGED <<stable, acked>>

\* The file is removed (the cache is cleared).
Remove ==
  /\ cur' = [payload |-> NoData, rank |-> cur.rank + 1]
  /\ UNCHANGED <<stable, acked>>

\* The current value reaches the disk, because a caller forced it or because
\* the kernel wrote it back.
Flush ==
  /\ stable' = cur
  /\ UNCHANGED <<cur, acked>>

\* A caller is told that its write of rank r is on disk.
Acknowledge ==
  /\ \E r \in 1..stable.rank : acked' = IF r > acked THEN r ELSE acked
  /\ UNCHANGED <<cur, stable>>

\* A caller forces the value out and learns of it in one step.
FlushAndAcknowledge ==
  /\ stable' = cur
  /\ \E r \in 1..stable'.rank : acked' = IF r > acked THEN r ELSE acked
  /\ UNCHANGED cur

\* A power failure: what was not flushed is lost.
Crash ==
  /\ cur' = stable
  /\ UNCHANGED <<stable, acked>>

Next == Publish \/ Remove \/ Flush \/ Acknowledge \/ FlushAndAcknowledge \/ Crash

Spec == Init /\ [][Next]_regvars
=============================================================================
