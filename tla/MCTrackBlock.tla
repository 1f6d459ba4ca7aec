---------------------------- MODULE MCTrackBlock ----------------------------
(* Block tracking with model values for its threads, which are
   interchangeable. *)
EXTENDS TrackBlock, TLC

CONSTANTS th1, th2, th3, th4

TwoThreads == {th1, th2}

FourThreads == {th1, th2, th3, th4}

Symmetry == Permutations(Threads)
=============================================================================
