-------------------------------- MODULE Rails --------------------------------
(***************************************************************************)
(* The rail adapters a universal payment is settled over: sandbox_psp,     *)
(* stripe_test and internal_ledger, the stub that serves every other       *)
(* adapter, and mock_fx for the conversion leg.                            *)
(* An adapter keeps a map from settlement ids to entries, and all but the  *)
(* internal ledger and the FX desk an index from intent keys to settlement *)
(* ids.  What it does depends on nothing but the status of the entry, so   *)
(* its methods are operators on statuses here; Universal.tla keeps the     *)
(* maps.  Quotes and reserves are never read again and are left out.       *)
(***************************************************************************)

Rails == {"sandbox_psp", "stripe_test", "internal_ledger", "stub", "mock_fx"}

(* "none": the adapter has no entry under the id.                          *)
Statuses == {"none", "settled", "webhook_acked", "refunded"}

(* Money is where the settlement put it.                                   *)
Live(status) == status \in {"settled", "webhook_acked"}

-----------------------------------------------------------------------------
(* settle(): the intent key is in the index ("status" is that of the entry *)
(* it points to), and the existing settlement is the answer.               *)
(* Mutant of PspReplays: a settlement is booked whatever the index has.    *)
PspReplaysNever(status) == FALSE

PspReplays(status) == TRUE

StripeReplays(status) == Live(status)

Replays(rail, status) ==
  \/ rail = "sandbox_psp" /\ PspReplays(status)
  \/ rail = "stripe_test" /\ StripeReplays(status)

-----------------------------------------------------------------------------
(* refund() accepts the entry.                                             *)

PspRefundable(status) == Live(status)
StripeRefundable(status) == Live(status)
InternalRefundable(status) == status = "settled"
FxRefundable(status) == status # "none"

Refundable(rail, status) ==
  CASE rail = "sandbox_psp"     -> PspRefundable(status)
    [] rail = "stripe_test"     -> StripeRefundable(status)
    [] rail = "internal_ledger" -> InternalRefundable(status)
    [] rail = "mock_fx"         -> FxRefundable(status)
    [] rail = "stub"            -> FALSE

HasRefund(rail) == rail # "stub"

-----------------------------------------------------------------------------
(* handleWebhook().                                                        *)
TakesWebhooks(rail) == rail \in {"sandbox_psp", "stripe_test"}

(* An event not seen before acknowledges any known entry, whatever its     *)
(* status was.                                                             *)
Acknowledged(status) == IF status = "none" THEN "none" ELSE "webhook_acked"

(* Mutant of StatusGaps: an acknowledged entry still waits for its event.  *)
StatusGapsAlways(rail, status) ==
  {g \in {"webhook_missing", "target_credit_missing"} :
     \/ g = "webhook_missing" /\ rail # "stub" /\ Live(status)
     \/ g = "target_credit_missing" /\ rail = "stripe_test" /\ status = "none"}

(* status(), as the gap a reconciliation makes of it: only stripe_test     *)
(* calls an entry it does not have "not_found".                            *)
StatusGaps(rail, status) ==
  {g \in {"webhook_missing", "target_credit_missing"} :
     \/ g = "webhook_missing" /\ rail # "stub" /\ status = "settled"
     \/ g = "target_credit_missing" /\ rail = "stripe_test" /\ status = "none"}

(* The adapters whose maps are exported with the store; the others start   *)
(* empty after a restart.                                                  *)
Durable(rail) == rail \in {"sandbox_psp", "stripe_test"}
=============================================================================
