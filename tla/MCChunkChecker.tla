--------------------------- MODULE MCChunkChecker ---------------------------
(***************************************************************************)
(* A small instance of ChunkChecker.                                       *)
(***************************************************************************)
EXTENDS ChunkChecker

DigitsTwice == [ch \in Char \ {CR, LF} |-> IF ch \in Digit THEN 2 ELSE 1]
=============================================================================
