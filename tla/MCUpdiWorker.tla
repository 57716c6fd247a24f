---------------------------- MODULE MCUpdiWorker ----------------------------
(***************************************************************************)
(* UpdiWorker for TLC.  The contents of a page are interchangeable, so     *)
(* safety runs with several of them may use the symmetry below.            *)
(***************************************************************************)
EXTENDS UpdiWorker, TLC

DataSymmetry == Permutations(Data)
=============================================================================
