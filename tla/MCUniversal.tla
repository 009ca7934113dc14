----------------------------- MODULE MCUniversal -----------------------------
(* Instances of Universal for TLC. *)
EXTENDS Universal, RouteCards, TLC

Slots == Permutations(Quotes) \union Permutations(Routes) \union Permutations(Calls)
           \union Permutations(Refunds)
=============================================================================
