------------------------------- MODULE MCLens -------------------------------
(***************************************************************************)
(* An instance of Lens for TLC: a zoom axis a few steps long.              *)
(***************************************************************************)
EXTENDS Lens

MCGoals == {-1, 4}
MCSeats == {0}
MCStopLow == -3
MCNarrow == -2

=============================================================================
