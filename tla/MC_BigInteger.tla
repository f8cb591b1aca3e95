---------------------------- MODULE MC_BigInteger ----------------------------
(* Two or three objects of blocks of two bits.                                *)
EXTENDS BigIntegerRefinement

CONSTANTS r1, r2, r3

MCObjects == {r1, r2}
MCThreeObjects == {r1, r2, r3}
MCCounts == -3 .. 3
MCPlaces == {0, 2, 3}
MCArrays == {<<>>, <<0>>, <<3, 0>>, <<0, 1>>, <<2, 3>>, <<1, 3, 0>>}
MCPieces == {<<>>, <<1>>, <<0, 0, 0>>, <<1, 0, 1>>, <<0, 1, 1, 1>>}
MCTexts == {<<>>, <<0>>, <<0, 2>>, <<1, 0, 2>>, <<3>>}

MCFewCounts == {-1, 1, 2}
MCFewPlaces == {0, 1}
MCFewArrays == {<<2>>}
MCFewTexts == {<<1, 0>>}

Symmetry == Permutations(MCObjects)
ThreeSymmetry == Permutations(MCThreeObjects)
==============================================================================
