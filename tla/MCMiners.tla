------------------------------ MODULE MCMiners ------------------------------
(***************************************************************************)
(* TLC instance of Miners.  The jobs are of the periods 0, 1 (compiled     *)
(* ahead), 0 (the recovery of the kernel) and 0 again in an epoch whose    *)
(* DAG is too large.                                                       *)
(***************************************************************************)
EXTENDS Miners

MCJobBlock == <<0, 2, 1, 0>>
MCJobEpoch == <<1, 1, 1, 2>>
MCTooLarge == {2}

\* The jobs are of a chain that grows, as the proof about the DAG assumes.
ASSUME MCEpochsGoForward == OpenCl!EpochsGoForward
=============================================================================
