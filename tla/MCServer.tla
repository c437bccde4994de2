------------------------------ MODULE MCServer ------------------------------
(* Server with two requests, of one client or of two: single checks, a     *)
(* batch with a filter, one without, and one that is too large.            *)
EXTENDS Server

MCAsked ==
  {[kind |-> "check", hosts |-> 1, filter |-> NoCC]}
    \cup {[kind |-> "batch", hosts |-> n, filter |-> NoCC] : n \in {1, MaxBatch + 1}}
    \cup {[kind |-> "batch", hosts |-> MaxBatch, filter |-> cc] : cc \in Countries}
=============================================================================
