---------------------------- MODULE MCLoopState ----------------------------
(* Instances of LoopState for TLC.  Coroutines, and channels of one kind, are *)
(* interchangeable.                                                           *)
EXTENDS LoopState, TLC

Symmetry == Permutations(Tasks) \cup Permutations(ProcessChannels) \cup Permutations(PlainChannels)
=============================================================================
