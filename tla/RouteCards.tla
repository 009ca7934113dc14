------------------------------ MODULE RouteCards ------------------------------
(* The route cards of the demo screen, and card payments, for the runs.    *)

InrUsd == [source |-> "INR", sourceMethod |-> "upi",
           target |-> "USD", targetMethod |-> "stripe_test"]
InrCircle == [source |-> "INR", sourceMethod |-> "upi",
              target |-> "CIRCLE_UNIT", targetMethod |-> "internal_ledger"]
CircleUsd == [source |-> "CIRCLE_UNIT", sourceMethod |-> "internal_ledger",
              target |-> "USD", targetMethod |-> "stripe_test"]
CardUsd == [source |-> "INR", sourceMethod |-> "card",
            target |-> "USD", targetMethod |-> "stripe_test"]
InrCardUsd == [InrUsd EXCEPT !.targetMethod = "card"]

ToUsd == {InrUsd}
CardsAndStubs == {InrUsd, InrCircle, CircleUsd, CardUsd, InrCardUsd}
CircleAndStubs == CardsAndStubs \ {InrUsd}
=============================================================================
