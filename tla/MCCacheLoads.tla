---------------------------- MODULE MCCacheLoads ----------------------------
(* Small instances of CacheLoads for TLC. *)
EXTENDS CacheLoads, TLC

CONSTANTS l1, l2

OneLoad == {l1}
TwoLoads == {l1, l2}
Alone == "overlap" \notin upset
Slots == Permutations(Loads)
=============================================================================
