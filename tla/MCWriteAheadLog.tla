--------------------------- MODULE MCWriteAheadLog ---------------------------
(* WriteAheadLog for TLC: writers and switchers are interchangeable.        *)
EXTENDS WriteAheadLog, TLC

WriterSymmetry == Permutations(Writers) \union Permutations(Switchers)
=============================================================================
