----------------------------- MODULE MCPtzMoves -----------------------------
(* Two axes with two positions each; two preset names, both of which are     *)
(* also names of hardware slots; room for one preset, so that a full         *)
(* collection, a taken name and a free one all occur; two clients.           *)
EXTENDS PtzMoves, TLC

CONSTANTS pan, tilt, left, right, c1, c2, hw1, hw2, hw3

MCAxis     == {pan, tilt}
MCPosition == {left, right}
MCRank     == [a \in MCAxis |-> IF a = pan THEN 1 ELSE 2]
MCHome     == [a \in MCAxis |-> left]
MCInSlots  == {[a \in MCAxis |-> right]}
MCHw       == <<hw1, hw2, hw3>>
Clients    == Permutations({c1, c2})
=============================================================================
