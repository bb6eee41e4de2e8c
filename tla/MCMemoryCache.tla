---------------------------- MODULE MCMemoryCache ---------------------------
(* Three keys and buffers that fit one, two or three at a time, or not at    *)
(* all.                                                                      *)
EXTENDS MemoryCache, TLC
Buffers == {1, 2, 5}
KeySymmetry == Permutations(Keys)
=============================================================================
