------------------------------- MODULE MCCache -------------------------------
(***************************************************************************)
(* TLC instances of the cache.                                              *)
(***************************************************************************)
EXTENDS CacheProperties, TLC

Blk(s, n) == {<<t, s>> : t \in 1..n}

OneSet   == Blk(0, 3)                          \* one set, one block too many
LargeSet == Blk(0, 5)
\* A BRRIP set and an SRRIP set that overflow.
TwoKinds == Blk(0, 3) \cup Blk(1, 5)
\* Of each kind of set of a DRRIP cache one: an SRRIP set, which never overflows, a
\* follower and a BRRIP set.
Duel     == Blk(0, 1) \cup Blk(1, 3) \cup Blk(3, 3)

\* Words and values are only copied, never compared.
DataSymmetry == Permutations(Words) \cup Permutations(Values)

\* The last call is compared with the step that makes it and never read by another:
\* states that differ in it alone need not be told apart, since TLC checks
\* PROPERTIES on every step it generates.
WithoutCall == <<policy, blocks, replacement, lasthit, memory>>

ReadOnly  == {"Read"}
ReadWrite == {"Read", "Write"}
=============================================================================
