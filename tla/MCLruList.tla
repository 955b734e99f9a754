----------------------------- MODULE MCLruList -----------------------------
(* Instances of LruList for TLC. *)
EXTENDS LruList, TLC

KeySymmetry == Permutations(Keys)
=============================================================================
