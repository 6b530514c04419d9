--------------------------- MODULE MCReadReceipts ---------------------------
(* ReadReceipts for TLC: direct messages are interchangeable.                 *)
EXTENDS ReadReceipts, TLC

DirectSymmetry == Permutations(Reads \ GroupReads)
=============================================================================
