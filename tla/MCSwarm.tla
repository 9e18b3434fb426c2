------------------------------ MODULE MCSwarm ------------------------------
(* Small swarms for TLC. *)
EXTENDS Swarm, TLC

CONSTANTS
    NumBlocks,   \* blocks of every piece but the first
    Seeds,       \* remote peers that offer every piece
    First        \* a piece of a full window, the one the other remote peers offer

Blocks == [i \in Pieces |-> IF i = First THEN Window ELSE NumBlocks]
Offers == [p \in Peers |-> IF p \in Seeds THEN Pieces ELSE {First}]
Symmetry == Permutations(Peers) \cup Permutations(Pieces) \cup Permutations(Workers)
=============================================================================
