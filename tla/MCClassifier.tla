---------------------------- MODULE MCClassifier ----------------------------
(* Classifier with Indonesia and two other countries: enough for a source, *)
(* the ccTLD and the address to disagree pairwise.                         *)
EXTENDS Classifier
=============================================================================
