-------------------------------- MODULE MCFs --------------------------------
(* Instances of Fs for TLC.                                                *)
EXTENDS Fs

\* A seeded directory, a path in it and a path beside it; with one entry to
\* a block, the root and the seeded directory each grow and shrink by blocks.
PathDef == {<<"etc">>, <<"a">>, <<"etc", "a">>}
SeedDef == <<<<"etc">>>>

ContentsAreEqual == Permutations(Version)
=============================================================================
