------------------------------- MODULE Services -------------------------------
(***************************************************************************)
(* The server's services that share no state with each other in these      *)
(* models, composed with transaction authorization (TxAuth): the circuits  *)
(* of the Compact contract, receiving payments, the universal platform and *)
(* the compliance desk.  The first state chooses which of them runs.       *)
(*                                                                         *)
(* The universal platform is here on local rails, without stubs and        *)
(* restarts, and used the way the demo screen uses it: a route is settled  *)
(* once and a payment refunded once.  The calls of a service all come from *)
(* Calls.                                                                  *)
(***************************************************************************)
EXTENDS TxAuth

CONSTANTS
  Kinds, Roots, Leaves, ZkRequired,
  Orders, Payments, Credits, Others,
  Quotes, Routes, Refunds, Wanted, ChainRequired, Opening,
  Tokens, Transfers, Decoys, Accounts, MaxKeys

VARIABLES service,
  ledger, bag, persisted, lastRoot, queue, staged, compactCall, compactCrashes, torn,
  revokedSeller, status, observed, unmatched, reported, confirmed, confirm, credit,
  tip, burned, receiveCrashes,
  quote, intent, expired, route, account, legs, index, events, intents, settle,
  refund, payment, sender, receiver, disk, paid, returned, checks, platformCrashes,
  serving, mem, store, lapsed, due, old, begun, joined, viewKeys, shown

Compact == INSTANCE CompactLedger_proofs WITH call <- compactCall, crashes <- compactCrashes

Receive == INSTANCE ReceivePay WITH
  Confirms <- Calls, revoked <- revokedSeller, spent <- burned, crashes <- receiveCrashes

Once == INSTANCE Universal_proofs WITH
  StripeApi <- FALSE, StubsAllowed <- FALSE, MaxUpsets <- 0,
  call <- settle, crashes <- platformCrashes

Desk == INSTANCE ComplianceDesk WITH
  up <- serving, disk <- store, issued <- viewKeys, reported <- shown

(* What the constants of the parts have to be.                             *)
ServicesConstants ==
  /\ Compact!ConstantTypes /\ Receive!ConstantTypes /\ Desk!ConstantTypes
  /\ Once!ConstantTypes /\ Once!NoneIsFresh

compactVars == <<ledger, bag, persisted, lastRoot, queue, staged, compactCall,
                 compactCrashes, torn>>
receiveVars == <<revokedSeller, status, observed, unmatched, reported, confirmed,
                 confirm, credit, tip, burned, receiveCrashes>>
onceVars == <<quote, intent, expired, route, account, legs, index, events, intents,
              settle, refund, payment, sender, receiver, disk, paid, returned, checks,
              platformCrashes>>
deskVars == <<serving, mem, store, lapsed, due, old, begun, joined, viewKeys, shown>>
allVars == <<service, compactVars, vars, receiveVars, onceVars, deskVars>>

ServicesInit ==
  /\ service \in {"compact", "auth", "receive", "once", "desk"}
  /\ Compact!Init /\ Init /\ Receive!Init /\ Once!Init /\ Desk!Init
  /\ service # "once" => account.kyc = "enhanced_verified"

ServicesNext ==
  /\ UNCHANGED service
  /\ \/ /\ service = "compact" /\ Compact!Next
        /\ UNCHANGED <<vars, receiveVars, onceVars, deskVars>>
     \/ /\ service = "auth" /\ Next
        /\ UNCHANGED <<compactVars, receiveVars, onceVars, deskVars>>
     \/ /\ service = "receive" /\ Receive!Next
        /\ UNCHANGED <<compactVars, vars, onceVars, deskVars>>
     \/ /\ service = "once" /\ Once!OnceNext
        /\ UNCHANGED <<compactVars, vars, receiveVars, deskVars>>
     \/ /\ service = "desk" /\ Desk!Next
        /\ UNCHANGED <<compactVars, vars, receiveVars, onceVars>>

OthersOfCompact == <<service, vars, receiveVars, onceVars, deskVars>>
OthersOfDesk == <<service, compactVars, vars, receiveVars, onceVars>>
Takes == service = "compact" /\ Compact!Take /\ UNCHANGED OthersOfCompact
Runs == service = "compact" /\ Compact!Run /\ UNCHANGED OthersOfCompact
Continues(c) == service = "compact" /\ Compact!Continues(c) /\ UNCHANGED OthersOfCompact
Flushes == service = "desk" /\ Desk!Flush(TRUE, FALSE) /\ UNCHANGED OthersOfDesk
Purges == service = "desk" /\ Desk!Purge /\ UNCHANGED OthersOfDesk
Emits == service = "desk" /\ (\E e \in Decoys : Desk!EmitDecoy(e)) /\ UNCHANGED OthersOfDesk

(* The queue of the circuits moves on, and the timers of the desk run.     *)
ServicesFair ==
  /\ WF_compactVars(Takes) /\ WF_compactVars(Runs)
  /\ \A c \in Calls : WF_compactVars(Continues(c))
  /\ WF_deskVars(Flushes) /\ WF_deskVars(Purges) /\ WF_deskVars(Emits)

ServicesSpec == ServicesInit /\ [][ServicesNext]_allVars /\ ServicesFair

(* The properties of the services, under their own names; those of TxAuth  *)
(* come with its module.                                                   *)
OtherTypes ==
  CASE service = "compact" -> Compact!TypeOK
    [] service = "receive" -> Receive!TypeOK
    [] service = "once" -> Once!TypeOK
    [] service = "desk" -> Desk!TypeOK
    [] OTHER -> TRUE

(* A start rebuilds the contract, every attestation given out is recorded  *)
(* in it, and a payment nobody interfered with is accepted.                *)
ContractHolds ==
  service = "compact" =>
    Compact!ReplayRestores /\ Compact!AttestedIsRecorded /\ Compact!UndisturbedIsAccepted

(* A circuit that throws does not hold up the calls behind it.             *)
EveryCallEnds == Compact!EveryCallEnds

(* After every step what arrived for an order is accounted for, and a step *)
(* that credits overwrites nothing another handler has written.            *)
InboundHolds ==
  [][service = "receive" =>
       Receive!InboundAccounted' /\ Receive!CreditKeepsOthers]_allVars

(* The rails' legs and the two balances say what the payments say.         *)
MoneyFollowsPayments ==
  service = "once" => Once!LegsFollowPayments /\ Once!BalancesFollowPayments

(* Sessions are completed once, the newest view key attests, and reports   *)
(* stand.                                                                  *)
DeskHolds == service = "desk" => Desk!DeskHolds

(* The desk's timers leave nothing due, old or expired behind.             *)
TimersMoveOn == Desk!TimersMoveOn
=============================================================================
