------------------------------- MODULE MCRoom -------------------------------
(* Instances of Room for TLC.                                               *)
EXTENDS Room


Symmetry == Permutations(Humans) \cup Permutations(Computers)
=============================================================================
