------------------------------ MODULE Universal ------------------------------
(***************************************************************************)
(* The universal adapter platform: quote, route, settle, reconcile and     *)
(* refund (universalService.ts), over the sandbox ledger of balances       *)
(* (sandboxLedger.ts), the receiver's clearance (sandboxAccounts.ts) and   *)
(* the rail adapters (Rails.tla).                                          *)
(*                                                                         *)
(* settleUniversal awaits the proof, then the rails, then the testnet; a   *)
(* rail awaits only when it is Stripe's real TEST API.  A call is cut at   *)
(* those awaits.  One sender pays one receiver and every amount is one     *)
(* unit of the source or of the target asset.                              *)
(*                                                                         *)
(* persistUniversal writes the whole platform to the store.  Rails change  *)
(* without it, so "disk" is kept apart from memory here.                   *)
(***************************************************************************)
EXTENDS Rails, Routing, Integers, FiniteSets

CONSTANTS
  Quotes, Routes,
  Calls,         \* calls of /universal/settle; each books legs and a payment
  Refunds,       \* calls of /universal/refund
  Wanted,        \* the payment intents that quotes are asked for
  StripeApi,     \* stripeTestMode() is stripe_api: the rail is remote
  StubsAllowed,  \* NYXPAY_ALLOW_STUB_RAILS, or not a strict deployment
  ChainRequired, \* NYXPAY_UNIVERSAL_REQUIRE_TESTNET_TX
  Opening,       \* the sender's opening balance
  MaxUpsets,     \* bound: changes of the receiver's clearance, and restarts
  None

(* Paying out of Stripe TEST is left out: the source leg never waits.      *)
ConstantTypes ==
  /\ Wanted \subseteq {i \in PaymentIntents : Plan(i).source # "stripe_test"}
  /\ StripeApi \in BOOLEAN /\ StubsAllowed \in BOOLEAN /\ ChainRequired \in BOOLEAN
  /\ Opening \in Nat /\ MaxUpsets \in Nat

Sides == {"source", "fx", "target"}

VARIABLES
  quote,    \* "none", "stored", or "used": deleted by a settlement
  intent,   \* the intent a quote was made for
  expired,  \* quotes past their 120 seconds
  route,    \* the quote a route was planned for
  account,  \* the receiver's KYC level, wallet screening and sanctions flag
  legs,     \* the adapters' entries, by side and by the call that booked them
  index,    \* the adapters' indexes from intent keys, one key per route
  events,   \* webhook event ids the adapters have seen
  intents,  \* PaymentIntents at Stripe, by call
  call,     \* settlements in progress
  refund,   \* refunds in progress
  payment,  \* the payment records
  sender,   \* the sender's balance
  receiver, \* the receiver's balance
  disk,     \* legs, index, events and payments as last persisted
  paid,     \* history: payments whose debit went through
  returned, \* history: how often a payment's money was returned
  checks, crashes

platformVars == <<quote, intent, expired, route>>
railVars == <<legs, index, events, intents>>
moneyVars == <<sender, receiver, paid, returned>>
boundVars == <<checks, crashes>>
vars == <<platformVars, account, railVars, call, refund, payment, moneyVars,
          disk, boundVars>>

Levels == {"unverified", "sandbox_verified", "enhanced_verified"}
Gaps == {"webhook_missing", "target_credit_missing", "conversion_pending",
         "ledger_debit_failed", "testnet_missing", "refund_pending"}
CallRecord == [at : {"proving", "target", "chain", "answered", "lost"},
               route : Routes, src : Calls \union {None}, tgt : Calls \union {None},
               acked : BOOLEAN]
RefundRecord == [at : {"target", "answered", "lost"}, pay : Calls]
Payment == [state : {"settled", "reconciled", "reversal_pending", "refunded",
                     "manual_review"},
            route : Routes, src : Calls, tgt : Calls, gaps : SUBSET Gaps]
Legs == [Sides -> [Calls -> Statuses]]
Index == [Sides -> [Routes -> Calls \union {None}]]
Events == SUBSET (Sides \X Calls \X {"auto", "provider"})

NoneIsFresh ==
  None \notin Quotes \union Wanted \union Calls \union CallRecord \union RefundRecord
                \union Payment

ASSUME UniversalConstants == ConstantTypes /\ NoneIsFresh

TypeOK ==
  /\ quote \in [Quotes -> {"none", "stored", "used"}]
  /\ intent \in [Quotes -> Wanted \union {None}]
  /\ expired \subseteq Quotes
  /\ route \in [Routes -> Quotes \union {None}]
  /\ account \in [kyc : Levels, screened : BOOLEAN, clear : BOOLEAN]
  /\ legs \in Legs
  /\ index \in Index
  /\ events \in Events
  /\ intents \in [Calls -> {"none", "charged", "refunded"}]
  /\ call \in [Calls -> CallRecord \union {None}]
  /\ refund \in [Refunds -> RefundRecord \union {None}]
  /\ payment \in [Calls -> Payment \union {None}]
  /\ sender \in Nat
  /\ receiver \in Nat
  /\ disk \in [legs : Legs, index : Index, events : Events,
               payment : [Calls -> Payment \union {None}]]
  /\ paid \subseteq Calls
  /\ returned \in [Calls -> Nat]
  /\ checks \in Nat
  /\ crashes \in Nat

Init ==
  /\ quote = [q \in Quotes |-> "none"]
  /\ intent = [q \in Quotes |-> None]
  /\ expired = {}
  /\ route = [r \in Routes |-> None]
  /\ account \in [kyc : {"unverified", "enhanced_verified"}, screened : {TRUE},
                  clear : {TRUE}]
  /\ legs = [s \in Sides |-> [c \in Calls |-> "none"]]
  /\ index = [s \in Sides |-> [r \in Routes |-> None]]
  /\ events = {}
  /\ intents = [c \in Calls |-> "none"]
  /\ call = [c \in Calls |-> None]
  /\ refund = [f \in Refunds |-> None]
  /\ payment = [c \in Calls |-> None]
  /\ sender = Opening
  /\ receiver = 0
  /\ disk = [legs |-> legs, index |-> index, events |-> events,
             payment |-> payment]
  /\ paid = {}
  /\ returned = [c \in Calls |-> 0]
  /\ checks = 0
  /\ crashes = 0

(* persistUniversal at the end of a handler.                               *)
Persist ==
  disk' = [legs |-> legs', index |-> index', events |-> events',
           payment |-> payment']

PlanOf(r) == Plan(intent[route[r]])

RailOf(side, r) ==
  CASE side = "source" -> PlanOf(r).source
    [] side = "target" -> PlanOf(r).target
    [] side = "fx"     -> "mock_fx"

Remote(r) == StripeApi /\ RailOf("target", r) = "stripe_test"

At(c, place) == call[c] # None /\ call[c].at = place
InFlight(c) == call[c] # None /\ call[c].at \in {"proving", "target", "chain"}

-----------------------------------------------------------------------------
(* Quotes, routes and the receiver's clearance.                            *)

CreateQuote(q, i) ==
  /\ account.clear
  /\ Quotable(i)
  /\ quote[q] = "none"
  /\ quote' = [quote EXCEPT ![q] = "stored"]
  /\ intent' = [intent EXCEPT ![q] = i]
  /\ UNCHANGED <<expired, route, account, railVars, call, refund, payment,
                 moneyVars, boundVars>>
  /\ Persist

Expire(q) ==
  /\ quote[q] # "none"
  /\ expired' = expired \union {q}
  /\ UNCHANGED <<quote, intent, route, account, railVars, call, refund, payment,
                 moneyVars, disk, boundVars>>

CreateRoute(r, q) ==
  /\ route[r] = None
  /\ quote[q] = "stored"
  /\ q \notin expired
  /\ route' = [route EXCEPT ![r] = q]
  /\ UNCHANGED <<quote, intent, expired, account, railVars, call, refund, payment,
                 moneyVars, boundVars>>
  /\ Persist

(* An enhanced verification screens the wallet unless it says not to.      *)
VerifyAccount(level, screened, clear) ==
  /\ checks + crashes < MaxUpsets
  /\ checks' = checks + 1
  /\ account' = [kyc |-> level, clear |-> clear,
                 screened |-> IF screened = "unset"
                              THEN level = "enhanced_verified" \/ account.screened
                              ELSE screened = "yes"]
  /\ UNCHANGED <<platformVars, railVars, call, refund, payment, moneyVars, crashes>>
  /\ Persist

Cleared(decision) ==
  /\ account.clear
  /\ decision = "challenge" => account.kyc # "unverified"
  /\ decision = "enhanced_kyc_required" =>
       account.kyc = "enhanced_verified" /\ account.screened

-----------------------------------------------------------------------------
(* settleUniversal.                                                        *)

(* Everything settleUniversal checks, all of it before the proof.          *)
MaySettle(r) ==
  /\ route[r] # None
  /\ route[r] \notin expired
  /\ Cleared(Decision(intent[route[r]]))

BeginSettle(c, r) ==
  /\ call[c] = None
  /\ MaySettle(r)
  /\ call' = [call EXCEPT ![c] = [at |-> "proving", route |-> r,
                                  src |-> None, tgt |-> None, acked |-> FALSE]]
  /\ UNCHANGED <<platformVars, account, railVars, refund, payment, moneyVars,
                 disk, boundVars>>

ProofFails(c) ==
  /\ At(c, "proving")
  /\ call' = [call EXCEPT ![c].at = "answered"]
  /\ UNCHANGED <<platformVars, account, railVars, refund, payment, moneyVars,
                 disk, boundVars>>

(* The settlement a rail answers with: the one its index names, or a new   *)
(* one booked by the call.                                                 *)
Booked(side, c, r) ==
  LET prev == index[side][r]
  IN  IF prev # None /\ Replays(RailOf(side, r), legs[side][prev])
      THEN prev ELSE c

(* A stub refuses under strict settings.                                   *)
Settles(rail) == rail = "stub" => StubsAllowed

(* Mutant of SettledLeg: the entry keeps the status of its reservation.    *)
ReservedLeg(side, c, r) == [legs[side] EXCEPT ![Booked(side, c, r)] = "reserved"]

(* The status of a leg after settle() and the event the platform delivers  *)
(* to a local rail right away; that event has the settlement's own id.     *)
SelfAcked(side, c, r, status) ==
  IF TakesWebhooks(RailOf(side, r)) /\ <<side, Booked(side, c, r), "auto">> \notin events
  THEN Acknowledged(status) ELSE status

SettledLeg(side, c, r) ==
  LET id == Booked(side, c, r)
      now == IF id = c THEN "settled" ELSE legs[side][id]
  IN  [legs[side] EXCEPT ![id] = SelfAcked(side, c, r, now)]

FxLeg(c, r) ==
  IF PlanOf(r).fx THEN [legs["fx"] EXCEPT ![c] = "settled"] ELSE legs["fx"]

Indexed(sides, c, r) ==
  [s \in Sides |-> IF s \in sides /\ Durable(RailOf(s, r))
                   THEN [index[s] EXCEPT ![r] = Booked(s, c, r)] ELSE index[s]]

AutoEvents(sides, c, r) ==
  {<<s, Booked(s, c, r), "auto">> : s \in {x \in sides : TakesWebhooks(RailOf(x, r))}}

(* The proof holds and no rail has to be waited for: source, conversion    *)
(* and target are booked in one stretch.  The platform delivers the target *)
(* event itself only to the local Stripe ledger.                           *)
SettleLocally(c) ==
  LET r == call[c].route
      tgt == Booked("target", c, r)
      acking == IF StripeApi THEN {"source"} ELSE {"source", "target"}
  IN  /\ At(c, "proving")
      /\ Settles(RailOf("source", r)) /\ Settles(RailOf("target", r))
      /\ Remote(r) => tgt # c
      /\ legs' = [source |-> SettledLeg("source", c, r), fx |-> FxLeg(c, r),
                  target |-> IF Remote(r) THEN legs["target"]
                             ELSE SettledLeg("target", c, r)]
      /\ index' = Indexed({"source", "target"}, c, r)
      /\ events' = events \union AutoEvents(acking, c, r)
      /\ call' = [call EXCEPT ![c].at = "chain",
                              ![c].src = Booked("source", c, r), ![c].tgt = tgt,
                              ![c].acked = RailOf("target", r) = "stub"
                                             \/ legs'["target"][tgt] # "settled"]
      /\ UNCHANGED <<platformVars, account, intents, refund, payment, moneyVars,
                     disk, boundVars>>

(* Stripe's API has to be asked.                                           *)
SettleSource(c) ==
  LET r == call[c].route
      src == Booked("source", c, r)
  IN  /\ At(c, "proving")
      /\ Settles(RailOf("source", r))
      /\ Remote(r)
      /\ Booked("target", c, r) = c
      /\ legs' = [legs EXCEPT
           !["source"][src] = IF src = c THEN "settled" ELSE @,
           !["fx"] = FxLeg(c, r)]
      /\ index' = Indexed({"source"}, c, r)
      /\ call' = [call EXCEPT ![c].at = "target", ![c].src = src, ![c].tgt = c]
      /\ UNCHANGED <<platformVars, account, events, intents, refund, payment,
                     moneyVars, disk, boundVars>>

(* Stripe creates and confirms the PaymentIntent; its answer is under way. *)
StripeCharges(c) ==
  /\ At(c, "target")
  /\ intents[c] = "none"
  /\ intents' = [intents EXCEPT ![c] = "charged"]
  /\ UNCHANGED <<platformVars, account, legs, index, events, call, refund,
                 payment, moneyVars, disk, boundVars>>

(* The event of sandbox_psp is delivered once the target has settled.      *)
TargetSettles(c) ==
  LET r == call[c].route
      src == call[c].src
      auto == <<"source", src, "auto">>
      acks == TakesWebhooks(RailOf("source", r)) /\ auto \notin events
  IN  /\ At(c, "target")
      /\ intents[c] = "charged"
      /\ legs' = [legs EXCEPT
           !["target"][c] = "settled",
           !["source"][src] = IF acks THEN Acknowledged(@) ELSE @]
      /\ index' = [index EXCEPT !["target"][r] = c]
      /\ events' = IF acks THEN events \union {auto} ELSE events
      /\ call' = [call EXCEPT ![c].at = "chain"]
      /\ UNCHANGED <<platformVars, account, intents, refund, payment, moneyVars,
                     disk, boundVars>>

(* Mutant of Undo: the money is left on the rail.                          *)
UndoNothing(side, c, id) == legs[side]

(* The refund() a failing settlement asks a rail for; the answer is not    *)
(* looked at.                                                              *)
Undo(side, c, id) ==
  IF Refundable(RailOf(side, call[c].route), legs[side][id])
  THEN [legs[side] EXCEPT ![id] = "refunded"] ELSE legs[side]

SourceRefused(c) ==
  /\ At(c, "proving")
  /\ ~Settles(RailOf("source", call[c].route))
  /\ call' = [call EXCEPT ![c].at = "answered"]
  /\ UNCHANGED <<platformVars, account, railVars, refund, payment, moneyVars,
                 disk, boundVars>>

(* The target refuses at once, and the source is undone in the same        *)
(* stretch; sandbox_psp has no event then.                                 *)
TargetRefused(c) ==
  LET r == call[c].route
      src == Booked("source", c, r)
      rail == RailOf("source", r)
  IN  /\ At(c, "proving")
      /\ Settles(rail) /\ ~Settles(RailOf("target", r))
      /\ legs' = [legs EXCEPT
           !["source"][src] = LET now == IF src = c THEN "settled" ELSE @
                              IN  IF Refundable(rail, now) THEN "refunded" ELSE now,
           !["fx"] = FxLeg(c, r)]
      /\ index' = Indexed({"source"}, c, r)
      /\ call' = [call EXCEPT ![c].at = "answered"]
      /\ UNCHANGED <<platformVars, account, events, intents, refund, payment,
                     moneyVars, disk, boundVars>>

(* Stripe declines the charge, and the source is undone.                   *)
TargetDeclines(c) ==
  /\ At(c, "target")
  /\ intents[c] = "none"
  /\ legs' = [legs EXCEPT !["source"] = Undo("source", c, call[c].src)]
  /\ call' = [call EXCEPT ![c].at = "answered"]
  /\ UNCHANGED <<platformVars, account, index, events, intents, refund, payment,
                 moneyVars, disk, boundVars>>

(* The connection to Stripe breaks: the exception leaves settleUniversal   *)
(* on the spot, whether or not the charge was made.                        *)
TargetUnreachable(c) ==
  /\ At(c, "target")
  /\ call' = [call EXCEPT ![c].at = "answered"]
  /\ UNCHANGED <<platformVars, account, railVars, refund, payment, moneyVars,
                 disk, boundVars>>

(* The testnet submission is required and did not come off: the target     *)
(* and then the source are refunded.  Stripe may decline, or be out of     *)
(* reach, in which case the source is not asked.                           *)
ChainFails(c) ==
  LET tgt == call[c].tgt
      source == Undo("source", c, call[c].src)
      asks == /\ Remote(call[c].route)
              /\ Refundable("stripe_test", legs["target"][tgt])
  IN  /\ At(c, "chain")
      /\ ChainRequired
      /\ \/ /\ asks => intents[tgt] = "charged"
            /\ legs' = [legs EXCEPT !["target"] = Undo("target", c, tgt),
                                    !["source"] = source]
            /\ intents' = IF asks THEN [intents EXCEPT ![tgt] = "refunded"] ELSE intents
         \/ /\ asks
            /\ legs' = [legs EXCEPT !["source"] = source]
            /\ UNCHANGED intents
         \/ /\ asks
            /\ UNCHANGED <<legs, intents>>
      /\ call' = [call EXCEPT ![c].at = "answered"]
      /\ UNCHANGED <<platformVars, account, index, events, refund, payment,
                     moneyVars, disk, boundVars>>

(* The gaps the record starts with.  The target's status was read before   *)
(* the testnet was asked.                                                  *)
ApplyGaps(c, witnessed) ==
  {g \in {"webhook_missing", "testnet_missing", "ledger_debit_failed"} :
     \/ g = "webhook_missing" /\ ~call[c].acked
     \/ g = "testnet_missing" /\ ~witnessed
     \/ g = "ledger_debit_failed" /\ sender = 0}

(* The last stretch: debit if the balance allows, credit, record, and the  *)
(* quote is used up.                                                       *)
Apply(c, witnessed) ==
  LET r == call[c].route
      gaps == ApplyGaps(c, witnessed)
  IN  /\ At(c, "chain")
      /\ sender' = IF sender > 0 THEN sender - 1 ELSE sender
      /\ paid' = IF sender > 0 THEN paid \union {c} ELSE paid
      /\ receiver' = receiver + 1
      /\ payment' = [payment EXCEPT ![c] =
           [state |-> IF gaps = {} THEN "reconciled" ELSE "settled", route |-> r,
            src |-> call[c].src, tgt |-> call[c].tgt, gaps |-> gaps]]
      /\ quote' = [quote EXCEPT ![route[r]] = "used"]
      /\ call' = [call EXCEPT ![c].at = "answered"]
      /\ UNCHANGED <<intent, expired, route, account, railVars, refund, returned,
                     boundVars>>
      /\ Persist

-----------------------------------------------------------------------------
(* refundUniversal.                                                        *)

(* Mutant of Reverse: the receiver keeps the credit.                       *)
ReverseSenderOnly(p) ==
  /\ sender' = sender + 1
  /\ returned' = [returned EXCEPT ![p] = @ + 1]
  /\ UNCHANGED receiver

(* reverseSettlement: no look at what was debited; never below zero.       *)
Reverse(p) ==
  /\ sender' = sender + 1
  /\ receiver' = IF receiver > 0 THEN receiver - 1 ELSE 0
  /\ returned' = [returned EXCEPT ![p] = @ + 1]

RailOfPayment(side, p) == RailOf(side, payment[p].route)

(* A rail without refund() is passed over.                                 *)
TargetRefundable(p) ==
  LET rail == RailOfPayment("target", p)
  IN  HasRefund(rail) => Refundable(rail, legs["target"][payment[p].tgt])

(* The target gave the money back; the FX desk and the source follow, and  *)
(* what they answer does not matter.                                       *)
Refunded(p) ==
  LET src == payment[p].src
  IN  /\ legs' = [legs EXCEPT
           !["target"][payment[p].tgt] =
              IF HasRefund(RailOfPayment("target", p)) THEN "refunded" ELSE @,
           !["fx"][p] = IF Refundable("mock_fx", @) THEN "refunded" ELSE @,
           !["source"][src] =
              IF Refundable(RailOfPayment("source", p), @) THEN "refunded" ELSE @]
      /\ payment' = [payment EXCEPT ![p].state = "refunded", ![p].gaps = {}]
      /\ Reverse(p)
      /\ UNCHANGED paid

NotRefunded(p) ==
  /\ payment' = [payment EXCEPT ![p].state = "manual_review",
                                ![p].gaps = @ \union {"refund_pending"}]
  /\ UNCHANGED <<legs, moneyVars>>

RefundLocally(f, p) ==
  /\ refund[f] = None
  /\ payment[p] # None
  /\ ~(Remote(payment[p].route) /\ TargetRefundable(p))
  /\ IF TargetRefundable(p) THEN Refunded(p) ELSE NotRefunded(p)
  /\ refund' = [refund EXCEPT ![f] = [at |-> "answered", pay |-> p]]
  /\ UNCHANGED <<platformVars, account, index, events, intents, call, boundVars>>
  /\ Persist

AskRefund(f, p) ==
  /\ refund[f] = None
  /\ payment[p] # None
  /\ Remote(payment[p].route) /\ TargetRefundable(p)
  /\ payment' = [payment EXCEPT ![p].state = "reversal_pending"]
  /\ refund' = [refund EXCEPT ![f] = [at |-> "target", pay |-> p]]
  /\ UNCHANGED <<platformVars, account, railVars, call, moneyVars, disk, boundVars>>

(* Mutant of RefundAnswered: a declined refund is taken for one.           *)
RefundAnsweredBlindly(f, ok) ==
  LET p == refund[f].pay
  IN  /\ refund[f] # None /\ refund[f].at = "target"
      /\ Refunded(p)
      /\ intents' = IF ok THEN [intents EXCEPT ![payment[p].tgt] = "refunded"] ELSE intents
      /\ refund' = [refund EXCEPT ![f].at = "answered"]
      /\ UNCHANGED <<platformVars, account, index, events, call, boundVars>>
      /\ Persist

(* Stripe refunds a charge once.                                           *)
RefundAnswered(f, ok) ==
  LET p == refund[f].pay
      pi == payment[p].tgt
  IN  /\ refund[f] # None /\ refund[f].at = "target"
      /\ ok => intents[pi] = "charged"
      /\ intents' = IF ok THEN [intents EXCEPT ![pi] = "refunded"] ELSE intents
      /\ IF ok THEN Refunded(p) ELSE NotRefunded(p)
      /\ refund' = [refund EXCEPT ![f].at = "answered"]
      /\ UNCHANGED <<platformVars, account, index, events, call, boundVars>>
      /\ Persist

(* The connection breaks, before or after Stripe has refunded.             *)
RefundUnreachable(f) ==
  LET pi == payment[refund[f].pay].tgt
  IN  /\ refund[f] # None /\ refund[f].at = "target"
      /\ \/ UNCHANGED intents
         \/ intents[pi] = "charged" /\ intents' = [intents EXCEPT ![pi] = "refunded"]
      /\ refund' = [refund EXCEPT ![f].at = "answered"]
      /\ UNCHANGED <<platformVars, account, legs, index, events, call, payment,
                     moneyVars, disk, boundVars>>

-----------------------------------------------------------------------------
(* reconcileUniversalPayment recomputes the gaps from scratch.             *)
Reconcile(p) ==
  LET gaps == StatusGaps(RailOfPayment("target", p), legs["target"][payment[p].tgt])
  IN  /\ payment[p] # None
      /\ payment' = [payment EXCEPT ![p].gaps = gaps,
           ![p].state = IF gaps = {} /\ @ # "refunded" THEN "reconciled" ELSE @]
      /\ UNCHANGED <<platformVars, account, railVars, call, refund, moneyVars,
                     boundVars>>
      /\ Persist

(* The provider's event for a settlement, once it exists there.  The event *)
(* id is noted before the settlement is looked up, and nothing is          *)
(* persisted.                                                              *)
Webhook(side, c) ==
  LET rail == RailOf(side, call[c].route)
      event == <<side, c, "provider">>
  IN  /\ call[c] # None
      /\ TakesWebhooks(rail)
      /\ legs[side][c] # "none" \/ (side = "target" /\ intents[c] # "none")
      /\ event \notin events
      /\ events' = events \union {event}
      /\ legs' = [legs EXCEPT ![side][c] = Acknowledged(@)]
      /\ UNCHANGED <<platformVars, account, index, intents, call, refund, payment,
                     moneyVars, disk, boundVars>>

-----------------------------------------------------------------------------
(* Restarts.  The legs of the internal ledger and the FX desk are gone.    *)

Stored(saved) ==
  [s \in Sides |-> [c \in Calls |->
     IF call[c] # None /\ Durable(RailOf(s, call[c].route)) THEN saved[s][c] ELSE "none"]]

Restart ==
  /\ checks + crashes < MaxUpsets
  /\ crashes' = crashes + 1
  /\ call' = [c \in Calls |-> IF InFlight(c) THEN [call[c] EXCEPT !.at = "lost"]
                              ELSE call[c]]
  /\ refund' = [f \in Refunds |-> IF refund[f] # None /\ refund[f].at = "target"
                                  THEN [refund[f] EXCEPT !.at = "lost"] ELSE refund[f]]
  /\ UNCHANGED <<platformVars, account, intents, returned, checks>>

Crash ==
  /\ Restart
  /\ legs' = Stored(disk.legs)
  /\ index' = disk.index
  /\ events' = disk.events
  /\ payment' = disk.payment
  /\ UNCHANGED <<sender, receiver, paid>>
  /\ Persist

(* debitSender and creditReceiver each persist the platform on their own,  *)
(* before the payment is recorded.                                         *)
CrashWhileApplying(c) ==
  /\ At(c, "chain")
  /\ Restart
  /\ sender' = IF sender > 0 THEN sender - 1 ELSE sender
  /\ paid' = IF sender > 0 THEN paid \union {c} ELSE paid
  /\ receiver' \in IF sender > 0 THEN {receiver, receiver + 1} ELSE {receiver + 1}
  /\ legs' = Stored(legs)
  /\ UNCHANGED <<index, events, payment>>
  /\ Persist

-----------------------------------------------------------------------------
SettleStep(c) ==
  \/ ProofFails(c) \/ SourceRefused(c) \/ TargetRefused(c)
  \/ SettleLocally(c) \/ SettleSource(c)
  \/ TargetSettles(c) \/ TargetDeclines(c) \/ TargetUnreachable(c)
  \/ ChainFails(c)
  \/ \E witnessed \in BOOLEAN : Apply(c, witnessed)

(* Everything but the begin of a settlement or a refund and the events.    *)
OtherStep ==
  \/ \E q \in Quotes : Expire(q) \/ \E i \in Wanted : CreateQuote(q, i)
  \/ \E r \in Routes, q \in Quotes : CreateRoute(r, q)
  \/ \E level \in Levels \ {"unverified"}, screened \in {"unset", "yes", "no"},
        clear \in BOOLEAN : VerifyAccount(level, screened, clear)
  \/ \E c \in Calls : SettleStep(c) \/ StripeCharges(c)
  \/ \E f \in Refunds : RefundUnreachable(f) \/ \E ok \in BOOLEAN : RefundAnswered(f, ok)
  \/ \E p \in Calls : Reconcile(p)
  \/ Crash
  \/ \E c \in Calls : CrashWhileApplying(c)

Next ==
  \/ OtherStep
  \/ \E c \in Calls, r \in Routes : BeginSettle(c, r)
  \/ \E f \in Refunds, p \in Calls : RefundLocally(f, p) \/ AskRefund(f, p)
  \/ \E side \in {"source", "target"}, c \in Calls : Webhook(side, c)

Spec == Init /\ [][Next]_vars

(* Awaited proofs, rails and testnets answer, Stripe delivers its events,  *)
(* and operators reconcile what is stuck, as the runbook tells them to.    *)
FairSpec ==
  /\ Spec
  /\ \A c \in Calls : /\ WF_vars(SettleStep(c))
                       /\ WF_vars(Webhook("target", c))
                       /\ WF_vars(Reconcile(c))

(* The demo screen settles a route once and refunds a payment once, and    *)
(* no event for a settlement comes after its refund.                       *)
NewRoute(r) == \A c \in Calls : call[c] # None => call[c].route # r
NewRefund(p) == \A f \in Refunds : refund[f] # None => refund[f].pay # p

OnceNext ==
  \/ OtherStep
  \/ \E c \in Calls, r \in Routes : NewRoute(r) /\ BeginSettle(c, r)
  \/ \E f \in Refunds, p \in Calls :
       NewRefund(p) /\ (RefundLocally(f, p) \/ AskRefund(f, p))
  \/ \E side \in {"source", "target"}, c \in Calls :
       legs[side][c] # "refunded" /\ Webhook(side, c)

OnceSpec == Init /\ [][OnceNext]_vars

-----------------------------------------------------------------------------
(* A rail with an index of intent keys never holds two live settlements of *)
(* one route, though the route is settled again after a restart, a lost    *)
(* answer or a double click: the retry finds the first settlement.  The    *)
(* remote Stripe API is left out: its entry is indexed when the answer is  *)
(* there, and a retry that comes before books a second charge.             *)
OneChargePerRoute ==
  \A s \in {"source", "target"}, c, d \in Calls :
    /\ call[c] # None /\ call[d] # None
    /\ call[c].route = call[d].route
    /\ Durable(RailOf(s, call[c].route))
    /\ ~(s = "target" /\ Remote(call[c].route))
    /\ Live(legs[s][c]) /\ Live(legs[s][d])
    => c = d

(* Money stands on a rail only for a settlement in progress or a payment   *)
(* that was not refunded, and a settled payment has money on both its      *)
(* rails: a failing testnet submission and a refund undo every leg         *)
(* (settleUniversal, refundUniversal).                                     *)
LegsFollowPayments ==
  \A c \in Calls, s \in {"source", "target"} :
    /\ Live(legs[s][c]) =>
         InFlight(c) \/ (payment[c] # None /\ payment[c].state # "refunded")
    /\ payment[c] # None /\ payment[c].state \in {"settled", "reconciled"} =>
         Live(legs[s][c])

(* The balances are what the payments say: the sender was debited once for *)
(* every payment that could be paid, the receiver holds one credit per     *)
(* payment that stands, and a refund gave back exactly one of each.        *)
BalancesFollowPayments ==
  /\ receiver = Cardinality({c \in Calls :
                  payment[c] # None /\ payment[c].state # "refunded"})
  /\ sender + Cardinality(paid)
       = Opening + Cardinality({c \in Calls : returned[c] = 1})

(* The event id of a provider is noted even if the adapter has no entry    *)
(* for it yet; the entry made later is then never acknowledged.            *)
EventWasted(p) ==
  /\ <<"target", payment[p].tgt, "provider">> \in events
  /\ legs["target"][payment[p].tgt] = "settled"

(* A payment over a rail that acknowledges settlements is reconciled in    *)
(* the end: the platform, the provider and the operators between them      *)
(* close every gap (reconcileUniversalPayment), unless the event was there *)
(* before the settlement.                                                  *)
PaymentReconciles ==
  \A c \in Calls :
    payment[c] # None /\ TakesWebhooks(RailOfPayment("target", c))
      ~> /\ payment[c] # None
         /\ payment[c].state = "reconciled" \/ EventWasted(c)

(* A reconciled payment was paid for: a debit that failed stays a gap      *)
(* until somebody closes it.                                               *)
ReconciledIsPaid ==
  \A c \in Calls :
    payment[c] # None /\ payment[c].state = "reconciled" => c \in paid

(* A payment's money is given back once, however many refunds are asked    *)
(* for and however they interleave (refundUniversal).                      *)
ReturnedOnce == \A c \in Calls : returned[c] <= 1

(* A payment through Stripe is called refunded only when Stripe has given  *)
(* the money back.                                                         *)
RefundIsReal ==
  \A c \in Calls :
    payment[c] # None /\ payment[c].state = "refunded" /\ Remote(payment[c].route) =>
      intents[payment[c].tgt] = "refunded"

=============================================================================
