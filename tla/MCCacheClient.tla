--------------------------- MODULE MCCacheClient ---------------------------
(* Instances of CacheClient for TLC. *)
EXTENDS CacheClient
=============================================================================
