----------------------------- MODULE MCSnapshot -----------------------------
(* Snapshot with snapshots of two or three pages: enough for a prefix, a   *)
(* mixture and a hole.  Servers only read, so one is enough; two servers   *)
(* are the sum of their behaviours.                                        *)
EXTENDS Snapshot
=============================================================================
