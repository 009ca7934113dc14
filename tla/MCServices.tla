------------------------------ MODULE MCServices ------------------------------
(* Services for TLC.                                                       *)
EXTENDS Services, RouteCards, TLC

CONSTANTS m1, m2, i1, i2, i3, h1, h2, c1, c2

(* Two intents of one merchant, one over the limit, and one of another.    *)
MCMerchantOf == i1 :> m1 @@ i2 :> m2 @@ i3 :> m1

ASSUME ServicesConstantsHold == ServicesConstants

(* Challenges are alike, and so are calls of /prove; and calls touch       *)
(* nothing of each other's: h1 is issued first, and c2 follows on c1.  Of  *)
(* the merchants m1 is revoked first.                                      *)
InTurn ==
  /\ m2 \in revoked' => m1 \in revoked'
  /\ issued'[h2] # None => issued'[h1] # None
  /\ call'[c2] # None =>
       call[c1] # None /\ call[c1].at \notin {"verifying", "proving"}

MCServicesSpec == ServicesInit /\ [][ServicesNext /\ InTurn]_allVars /\ ServicesFair
=============================================================================
