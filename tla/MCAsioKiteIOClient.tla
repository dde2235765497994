------------------------- MODULE MCAsioKiteIOClient -------------------------
(***************************************************************************)
(* AsioKiteIOClient for the runs that check safety only, in which threads  *)
(* may be exchanged for each other.                                        *)
(***************************************************************************)
EXTENDS AsioKiteIOClient, TLC

Symmetry == Permutations(Threads)
=============================================================================
