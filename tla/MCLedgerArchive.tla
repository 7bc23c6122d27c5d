--------------------------- MODULE MCLedgerArchive ---------------------------
(* LedgerArchive for TLC: writers are interchangeable.                      *)
EXTENDS LedgerArchive

WriterSymmetry == Permutations(Writers) \union Permutations(Switchers)
=============================================================================
