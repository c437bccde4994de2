------------------------------ MODULE MCEnrich ------------------------------
(* Enrich with two processes, so that one can truncate or overwrite what   *)
(* the other writes, and entries that live for one tick.                   *)
EXTENDS Enrich
=============================================================================
