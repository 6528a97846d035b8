----------------------------- MODULE MCRelease -----------------------------
(* Maintainers are interchangeable where only safety is checked. *)
EXTENDS Release, TLC

Symmetry == Permutations(Maintainers)
=============================================================================
