--------------------------- MODULE MCExternalTun ----------------------------
(* Instance of ExternalTun for model checking: application threads and     *)
(* generations are interchangeable.                                        *)
EXTENDS ExternalTun, TLC

Symmetry == Permutations(Foreign) \cup Permutations(Generations)
=============================================================================
