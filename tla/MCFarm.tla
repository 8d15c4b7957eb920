------------------------------- MODULE MCFarm -------------------------------
(***************************************************************************)
(* TLC instance of Farm: two miners, the second too small for the second   *)
(* epoch, and jobs of two epochs.                                          *)
(***************************************************************************)
EXTENDS Farm

MCJobEpoch == <<1, 1, 2>>
MCTooSmall == {<<1, 2>>}
MCModes == {"parallel", "sequential"}
MCReasons == {"api"}

\* The jobs are of a chain that grows, as the proofs about the DAG assume.
ASSUME MCEpochsGoForward == EpochsGoForward
=============================================================================
