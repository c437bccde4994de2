------------------------------ MODULE MCCheck ------------------------------
(* Check with up to five inputs, of which some are given twice, and a CSV  *)
(* buffer that they can fill and overflow.                                 *)
EXTENDS Check
=============================================================================
