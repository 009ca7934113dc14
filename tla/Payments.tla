------------------------------- MODULE Payments -------------------------------
(***************************************************************************)
(* The two ways money moves, composed: payments between the accounts       *)
(* (Settlement) and settlements and refunds at the remote Stripe API       *)
(* (Universal).  The server keeps their state apart, so the first state    *)
(* chooses which of them runs, and what holds of a part then holds of it   *)
(* beside the other.                                                       *)
(***************************************************************************)
EXTENDS Settlement, Routing

CONSTANTS
  Quotes, Routes, Calls, Refunds, Wanted, StubsAllowed, ChainRequired, Opening, MaxUpsets

VARIABLES part,
  quote, intent, expired, route, account, legs, index, bookings, intents, settle, refund,
  payment, sender, receiver, disk, paid, returned, checks, restarts

Api == INSTANCE Universal_proofs WITH
  StripeApi <- TRUE, events <- bookings, call <- settle, crashes <- restarts

(* Every payment asked for ends at Stripe.                                 *)
ApiConstants ==
  /\ Api!ConstantTypes /\ Api!NoneIsFresh
  /\ \A i \in Wanted : Plan(i).target = "stripe_test"

apiVars == <<quote, intent, expired, route, account, legs, index, bookings, intents, settle,
             refund, payment, sender, receiver, disk, paid, returned, checks, restarts>>
allVars == <<part, vars, apiVars>>

PaymentsInit ==
  /\ part \in {"accounts", "stripe"} /\ Init /\ Api!Init
  /\ part = "accounts" => account.kyc = "enhanced_verified"

PaymentsNext ==
  /\ UNCHANGED part
  /\ \/ part = "accounts" /\ Next /\ UNCHANGED apiVars
     \/ part = "stripe" /\ Api!Next /\ UNCHANGED vars

PaymentsSpec == PaymentsInit /\ [][PaymentsNext]_allVars

-----------------------------------------------------------------------------
(* Through the remote Stripe API money is given back once, and called      *)
(* given back only when it was (refundUniversal).                          *)
RefundsHold == part = "stripe" => Api!ReturnedOnce /\ Api!RefundIsReal
=============================================================================
