---------------------------- MODULE MCCreditPool ----------------------------
(* Instances of CreditPool for TLC. *)
EXTENDS CreditPool, TLC

Slots == Permutations(Users) \union Permutations(Requests) \union Permutations(Calls)
=============================================================================
