------------------------------ MODULE MCStore ------------------------------
(* Store with two concurrent writers, one reader and two-page payloads.    *)
EXTENDS Store, TLC

Symmetry == Permutations(Inodes) \cup Permutations(Writers) \cup Permutations(Data)
=============================================================================
