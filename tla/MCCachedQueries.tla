-------------------------- MODULE MCCachedQueries --------------------------
(***************************************************************************)
(* Small instances of CachedQueries.                                       *)
(***************************************************************************)
EXTENDS CachedQueries, TLC

CONSTANTS r1, r2, r3, a1, a2

MCRequest == {r1, r2, r3}
MCAddress == {a1, a2}
MCList == [at: Address, key: Key, version: Version]

(***************************************************************************)
(* A URL's second content is shorter than its first.                       *)
(***************************************************************************)
MCSize(k, v) == IF v = 0 THEN 2 ELSE 1

MCSymmetry == Permutations(MCRequest) \cup Permutations(MCAddress)
=============================================================================
