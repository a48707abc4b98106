-------------------------- MODULE MCClientStatistics --------------------------
(***************************************************************************)
(* A small instance of ClientStatistics: two workers, words of four bits.  *)
(***************************************************************************)
EXTENDS ClientStatistics

CONSTANTS w1, w2

TwoWorkers == {w1, w2}
SmallAndLarge == {1, 5}
=============================================================================
