------------------------------- MODULE MCClient -------------------------------
(***************************************************************************)
(* Client for TLC: two tabs and two payments of the wallet; on the sheet   *)
(* two strangers, one with the name of a brand, the other one of two       *)
(* people.                                                                 *)
(***************************************************************************)
EXTENDS Client, TLC

CONSTANTS t1, t2, p1, p2, n1, n2, w1, w2

MCCalled == n1 :> {} @@ n2 :> {w1, w2}
MCBrandOf == n1 :> "unverified_brand" @@ n2 :> "not_a_brand"

ASSUME ClientConstantsHold == ClientConstants

(* Payments are alike, and so are tabs: the first payment that is built is *)
(* called p1, and with all tabs at rest it is t1 that begins something.    *)
InTurn ==
  /\ intent'[p2] # None => intent'[p1] # None
  /\ op[t2] = Idle /\ op'[t2] # Idle => op[t1] # Idle

Loads(t) == part = "wallet" /\ Load(t)
Repairs(t) == part = "wallet" /\ Repair(t, TRUE)
Finishes(t) == part = "wallet" /\ Finish(t)
Leaves(t) == part = "wallet" /\ Leave(t)
Takes(p) == part = "wallet" /\ Take(p)
Decides(p) == part = "wallet" /\ (Settle(p) \/ Refuse(p))

(* The fairness of the device wallet; the screens need none.               *)
MCClientSpec ==
  /\ ClientInit /\ [][(WalletStep /\ InTurn) \/ ScreenStep]_allVars
  /\ \A t \in Tabs : /\ WF_vars(Loads(t)) /\ WF_vars(Repairs(t))
                      /\ WF_vars(Finishes(t)) /\ WF_vars(Leaves(t))
  /\ \A p \in Payments : WF_vars(Takes(p)) /\ WF_vars(Decides(p))

(* Device and server come to agree, and a spend kept aside is applied.     *)
WalletSettles == WalletAgrees /\ AsideIsRepaired
=============================================================================
