---------------------------- MODULE MCReplayStore ----------------------------
(* ReplayStore for TLC: workers and, unless a proof is watched, jti values *)
(* are interchangeable.                                                    *)
EXTENDS ReplayStore, TLC

NoneWatched == {}

AllWatched == Proof

Symmetry == Permutations(Workers) \cup Permutations(Jtis)
=============================================================================
