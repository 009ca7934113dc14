------------------------------ MODULE MCPayments ------------------------------
(***************************************************************************)
(* Payments for TLC. The two parts share their model values, and with them *)
(* their symmetry: the slots are requests of the accounts and calls of the *)
(* platform, the ids intents and refunds. The quote stays open: one that   *)
(* expires only keeps a settlement from beginning.                         *)
(***************************************************************************)
EXTENDS Payments, RouteCards, TLC

CONSTANTS alice, alice0, slot1, slot2, id1, id2

MCGenesis == alice :> alice0

Slots == Permutations({slot1, slot2}) \union Permutations({id1, id2})
           \union Permutations(Commitments \ {alice0})

ASSUME ApiConstantsHold == ApiConstants

MCPaymentsSpec == PaymentsInit /\ [][PaymentsNext /\ UNCHANGED expired]_allVars
=============================================================================
