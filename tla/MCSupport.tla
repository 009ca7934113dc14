------------------------------ MODULE MCSupport ------------------------------
(***************************************************************************)
(* Support for TLC: two merchants of one brand, two devices, two payments. *)
(***************************************************************************)
EXTENDS Support, TLC

CONSTANTS m1, m2, a1, a2, b1, d1, d2

(* Two merchants of one brand, the second with an address of its own only. *)
MCBrandOf == m1 :> b1 @@ m2 :> b1
MCAddressesOf == m1 :> {a1, a2} @@ m2 :> {a2}

ASSUME SupportConstantsHold == SupportConstants

(* Of the two devices one at a time loads its vault or pays, and what a    *)
(* passkey lets pass is explored on the first.                             *)
Busy(d) == device'[d].seen # 0 \/ device'[d].pays # 0
InTurn == ~(Busy(d1) /\ Busy(d2)) /\ ~device'[d2].passkey

MCSupportSpec == SupportInit /\ [][SupportNext /\ InTurn]_allVars
=============================================================================
