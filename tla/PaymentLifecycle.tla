-------------------------- MODULE PaymentLifecycle --------------------------
(***************************************************************************)
(* The durable record of one peer-to-peer payment and the two functions    *)
(* that move it: advancePaymentLifecycle (paymentLifecycle.ts) and         *)
(* reconcilePayment (reconciliation.ts).  Both are synchronous, so here    *)
(* they are operators from records to records; Settlement.tla calls them   *)
(* from the handlers.                                                      *)
(*                                                                         *)
(* Ids, timestamps and note texts are left out.  The timeline is kept as   *)
(* the set of states that were entered ("trail").                          *)
(***************************************************************************)

LifecycleStates ==
  {"created", "proof_prepared", "user_authorized", "proof_verified",
   "rail_reserved", "settled", "device_applied", "recipient_notified",
   "reconciled", "proof_failed", "rail_failed", "device_apply_failed",
   "reversal_pending", "refunded", "manual_review"}

SuccessTerminal == {"reconciled", "refunded"}

FailureTerminal == {"proof_failed", "rail_failed", "manual_review"}

(* The states the risk engine and the recon summary count as money moved.  *)
PostSettle == {"settled", "device_applied", "recipient_notified", "reconciled"}

(* Who supplied railSettlementId: nobody yet, the rail adapter, or the     *)
(* caller of the public reconcile endpoint.                                *)
Receipts == {"none", "rail", "caller"}

Record ==
  [state: LifecycleStates, attested: BOOLEAN, rail: BOOLEAN,
   receipt: Receipts, trail: SUBSET LifecycleStates]

(* The transition table, as in the source.                                 *)
Allowed(s) ==
  CASE s = "created"             -> {"proof_prepared", "user_authorized",
                                     "proof_failed", "manual_review"}
    [] s = "proof_prepared"      -> {"user_authorized", "proof_failed",
                                     "manual_review"}
    [] s = "user_authorized"     -> {"proof_verified", "proof_failed",
                                     "manual_review"}
    [] s = "proof_verified"      -> {"rail_reserved", "settled", "rail_failed",
                                     "manual_review"}
    [] s = "rail_reserved"       -> {"settled", "rail_failed",
                                     "reversal_pending"}
    [] s = "settled"             -> {"device_applied", "device_apply_failed",
                                     "recipient_notified", "reconciled"}
    [] s = "device_applied"      -> {"recipient_notified", "reconciled"}
    [] s = "recipient_notified"  -> {"reconciled"}
    [] s = "device_apply_failed" -> {"device_applied", "reversal_pending",
                                     "manual_review"}
    [] s = "reversal_pending"    -> {"refunded", "manual_review"}
    [] s = "rail_failed"         -> {"reversal_pending", "manual_review"}
    [] s = "manual_review"       -> {"refunded", "reconciled"}
    [] OTHER                     -> {}

CreatedRecord ==
  [state |-> "created", attested |-> FALSE, rail |-> FALSE,
   receipt |-> "none", trail |-> {"created"}]

(* Mutant of MayAdvance: the table is not consulted.                       *)
MayAdvanceOffTable(s, next) ==
  s \in SuccessTerminal \union FailureTerminal
    => next \in {s, "refunded", "manual_review"}

(* A terminal record only takes its own state, a refund or a review; any   *)
(* other record takes its own state or a state the table allows.           *)
MayAdvance(s, next) ==
  /\ s \in SuccessTerminal \union FailureTerminal
       => next \in {s, "refunded", "manual_review"}
  /\ next = s \/ next \in Allowed(s)

(* "patched" is the record with the caller's patch already on it: the      *)
(* patch is dropped together with the transition when that is refused.     *)
Advance(rec, patched, next) ==
  IF MayAdvance(rec.state, next)
  THEN [patched EXCEPT !.state = next, !.trail = @ \union {next}]
  ELSE rec

AdvanceTo(rec, next) == Advance(rec, rec, next)

-----------------------------------------------------------------------------
(* reconcilePayment: "receipt" is the caller's settlement id, if any, and  *)
(* "device" and "notified" the two acknowledgements.                       *)
ReconcileGaps(rec, receipt) ==
  {g \in {"proof_incomplete", "rail_receipt_missing"} :
     \/ g = "proof_incomplete" /\ ~rec.attested
     \/ g = "rail_receipt_missing"
          /\ rec.rail /\ rec.receipt = "none" /\ receipt = "none"}

ReconcileAcks(rec, receipt, device, notified) ==
  LET withReceipt ==
        IF receipt # "none" /\ rec.receipt = "none"
        THEN Advance(rec, [rec EXCEPT !.receipt = receipt], rec.state)
        ELSE rec
      withDevice ==
        IF device THEN AdvanceTo(withReceipt, "device_applied")
                  ELSE withReceipt
  IN  IF notified THEN AdvanceTo(withDevice, "recipient_notified")
                  ELSE withDevice

ReconcileReady(rec, receipt, device, notified) ==
  /\ ReconcileGaps(rec, receipt) = {}
  /\ \/ device
     \/ ReconcileAcks(rec, receipt, device, notified).state
          \in {"device_applied", "recipient_notified"}

Reconciled(rec, receipt, device, notified) ==
  LET acked == ReconcileAcks(rec, receipt, device, notified)
  IN  IF ReconcileReady(rec, receipt, device, notified)
      THEN AdvanceTo(acked, "reconciled")
      ELSE acked
=============================================================================
