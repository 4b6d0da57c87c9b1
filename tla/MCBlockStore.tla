---------------------------- MODULE MCBlockStore ----------------------------
(* Small instances of BlockStore: a few concurrent requests for one or two *)
(* blocks.                                                                 *)
EXTENDS BlockStore, TLC

Symmetry == Permutations(Calls) \cup Permutations(Payloads)
=============================================================================
