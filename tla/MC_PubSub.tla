------------------------------ MODULE MC_PubSub ------------------------------
(* Constants for model-checking the broker and its subscribers.            *)
EXTENDS PubSub, TLC

CONSTANTS a, b

MCIds == {a, b}
MCSymmetry == Permutations(MCIds)
=============================================================================
