------------------------------- MODULE MCRir -------------------------------
(* Rir with words of two bits: 4 IPv4 addresses, 16 IPv6 addresses, and    *)
(* prefixes shorter than, as long as and longer than a word.               *)
EXTENDS Rir, TLC

Symmetry == Permutations(Countries)
=============================================================================
