---------------------------- MODULE MCCacheStore ----------------------------
(***************************************************************************)
(* The properties of CacheStore, and its instances for TLC.                *)
(***************************************************************************)
EXTENDS CacheStoreProperties, TLC

CONSTANTS k1, k2, k3, small, large, huge

\* Sizes of one-byte keys with their values: a resize can displace others, huge fits nowhere.
MCSizes == [p \in Keys \X Values |-> CASE p[2] = small -> 2 [] p[2] = large -> 4
                                       [] p[2] = huge -> 9]

KeySymmetry == Permutations(Keys)
=============================================================================
