--------------------------- MODULE Payments_proofs ---------------------------
(***************************************************************************)
(* What the universal platform keeps, kept beside the accounts: the        *)
(* theorems of Universal_proofs for the remote Stripe API, carried over to *)
(* the composition.                                                        *)
(***************************************************************************)
EXTENDS Payments, TLAPS

(* Whichever part runs, the platform's variables behave as the platform    *)
(* does.                                                                   *)
LEMMA ApiRuns == PaymentsSpec => Api!Spec
<1>1. PaymentsInit => Api!Init
  BY DEF PaymentsInit
<1>2. [PaymentsNext]_allVars => [Api!Next]_(Api!vars)
  BY DEF PaymentsNext, allVars, apiVars, Api!vars, Api!platformVars, Api!railVars,
     Api!moneyVars, Api!boundVars
<1> QED BY <1>1, <1>2, PTL DEF PaymentsSpec, Api!Spec

(* Money that went to the remote Stripe API is given back at most once,    *)
(* and a payment is called refunded only when Stripe has given it back,    *)
(* whatever refunds, charges, lost answers and restarts come between       *)
(* (refundUniversal).                                                      *)
THEOREM RefundsKeep == ASSUME ApiConstants PROVE PaymentsSpec => []RefundsHold
<1>1. /\ Api!ConstantTypes /\ Api!NoneIsFresh
      /\ \A i \in Wanted : Api!Plan(i).target = "stripe_test"
  BY DEF ApiConstants, Api!Plan, Plan, Api!RailFor, RailFor, Api!AdapterFor, AdapterFor
<1>2. Api!Spec => []Api!RefundIsReal
  BY <1>1, Api!RefundsAreReal
<1>3. Api!Spec => []Api!ReturnedOnce
  BY <1>1, Api!MoneyReturnsOnce
<1>4. Api!RefundIsReal /\ Api!ReturnedOnce => RefundsHold
  BY DEF RefundsHold
<1> QED BY <1>2, <1>3, <1>4, ApiRuns, PTL
=============================================================================
