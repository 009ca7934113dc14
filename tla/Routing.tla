------------------------------- MODULE Routing -------------------------------
(***************************************************************************)
(* Which rails a universal payment takes: the method and asset registries, *)
(* the quote engine's refusals, the compliance decision on a route, the    *)
(* route planner and the mapping of its adapters to registered rails.      *)
(* All of it is a function of the payment intent.                          *)
(***************************************************************************)

Assets == {"CIRCLE_UNIT", "INR", "USD", "USDC", "BTC"}

Methods == {"internal_ledger", "upi", "card", "stablecoin_wallet",
            "partner_ledger", "bank_sandbox", "bitcoin_sandbox", "stripe_test"}

SupportedAssets(method) ==
  CASE method = "internal_ledger"   -> {"CIRCLE_UNIT"}
    [] method = "upi"               -> {"INR"}
    [] method = "card"              -> {"INR", "USD"}
    [] method = "stablecoin_wallet" -> {"USDC"}
    [] method = "partner_ledger"    -> {"INR", "USD", "USDC", "CIRCLE_UNIT"}
    [] method = "bank_sandbox"      -> {"USD", "INR"}
    [] method = "bitcoin_sandbox"   -> {"BTC"}
    [] method = "stripe_test"       -> {"USD", "BTC", "INR", "CIRCLE_UNIT"}

(* The pairs with a rate: one asset has a rate to itself, and one pair of  *)
(* assets has none.                                                        *)
Rated ==
  {<<"INR", "INR">>} \union
  {p \in Assets \X Assets : p[1] # p[2] /\ {p[1], p[2]} # {"USDC", "BTC"}}

PaymentIntents ==
  [source : Assets, sourceMethod : Methods, target : Assets, targetMethod : Methods]

Quotable(i) ==
  /\ i.source \in SupportedAssets(i.sourceMethod)
  /\ i.target \in SupportedAssets(i.targetMethod)
  /\ <<i.source, i.target>> \in Rated

(* evaluateRouteCompliance.                                                *)
Decision(i) ==
  CASE i.source = "INR" /\ i.target \in {"USD", "USDC"} -> "challenge"
    [] i.source = "INR" /\ i.target = "BTC"             -> "enhanced_kyc_required"
    [] i.source = "CIRCLE_UNIT" /\ i.target = "USD"     -> "challenge"
    [] OTHER                                            -> "allow"

AdapterFor(method) ==
  CASE method = "stablecoin_wallet" -> "mock_usdc"
    [] method = "upi"               -> "mock_upi"
    [] method = "card"              -> "mock_card"
    [] OTHER                        -> method

(* An adapter nobody registered is served by the fallback, a stub rail.    *)
RailFor(adapter) ==
  CASE adapter \in {"stripe_test", "bank_sandbox", "bitcoin_sandbox"} -> "stripe_test"
    [] adapter = "mock_upi"        -> "sandbox_psp"
    [] adapter = "internal_ledger" -> "internal_ledger"
    [] OTHER                       -> "stub"

Plan(i) ==
  [source |-> RailFor(AdapterFor(i.sourceMethod)),
   target |-> RailFor(AdapterFor(i.targetMethod)),
   fx |-> i.source # i.target]
=============================================================================
