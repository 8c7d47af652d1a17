--------------------------- MODULE MCXpcListener ---------------------------
(* Instances of XpcListener for TLC.                                        *)
EXTENDS XpcListener, TLC

ProcSymmetry == Permutations(Procs) \cup Permutations(Inodes)
=============================================================================
