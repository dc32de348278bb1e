----------------------------- MODULE MCMmlBatch -----------------------------
(* The constants of the runs about MmlBatch: three elements, requests of   *)
(* up to three names, repeated ones included, and reports of up to two     *)
(* records with two attributes.                                            *)
EXTENDS MmlBatch

Symmetry == Permutations(Names)
=============================================================================
