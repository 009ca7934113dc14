---------------------------- MODULE MCSettlement ----------------------------
(* Instances of Settlement for TLC. *)
EXTENDS Settlement, TLC

CONSTANTS alice, bob, alice0, bob0

MCGenesis == [u \in Users |-> IF u = alice THEN alice0 ELSE bob0]

Slots == Permutations(Requests) \union Permutations(Intents)
           \union Permutations(Commitments \ {alice0, bob0})
=============================================================================
