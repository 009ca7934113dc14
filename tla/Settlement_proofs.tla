------------------------- MODULE Settlement_proofs -------------------------
(***************************************************************************)
(* Proofs about Settlement, SerialSettlement and Ledgers for any accounts, *)
(* requests, intents and commitments.                                      *)
(*                                                                         *)
(* 1. Typing: []TypeOK.                                                    *)
(* 2. Phase, an inductive invariant that ties the await a call is at to    *)
(*    the state of its record and to the ledger: []RecordMatchesLedger and *)
(*    the action properties FailureIsFinal and RevokedIsNotAuthorized      *)
(*    follow from it.                                                      *)
(* 3. AllEarned, on what a record has gone through, inductive with Phase:  *)
(*    []ReconciledIsEarned; and the nullifier list, inductive with Phase   *)
(*    by itself.  Together they are []AccountsHold.                        *)
(* 4. Nonces, an inductive invariant on the burned session nonces:         *)
(*    []IntentSettlesOnce follows from it and Phase.                       *)
(* 5. With one operation open per account (SerialSettlement), settlement   *)
(*    implements the abstract ledger of commitment chains.  The inductive  *)
(*    invariant is Chains: what a call read before its awaits is still so  *)
(*    while it waits.  Capped, beside it, says the same of the count the   *)
(*    risk engine made.                                                    *)
(* 6. Beside the credit pool (Ledgers) both ledgers behave as they do      *)
(*    alone.                                                               *)
(***************************************************************************)
EXTENDS Ledgers, FiniteSetTheorems, TLAPS

-----------------------------------------------------------------------------
(* The two functions on records.                                           *)

(* Advancing a record gives a record (advancePaymentLifecycle).            *)
LEMMA AdvanceType ==
  ASSUME NEW rec \in Record, NEW patched \in Record, NEW next \in LifecycleStates
  PROVE  Advance(rec, patched, next) \in Record
BY DEF Advance, Record

(* So does advancing it without a patch.                                   *)
LEMMA AdvanceToType ==
  ASSUME NEW rec \in Record, NEW next \in LifecycleStates
  PROVE  AdvanceTo(rec, next) \in Record
BY AdvanceType DEF AdvanceTo

(* Reconciling a record gives a record (reconcilePayment), and so does the *)
(* part of it before the last transition.                                  *)
LEMMA ReconcileType ==
  ASSUME NEW rec \in Record, NEW receipt \in Receipts,
         NEW device \in BOOLEAN, NEW notified \in BOOLEAN
  PROVE  /\ ReconcileAcks(rec, receipt, device, notified) \in Record
         /\ Reconciled(rec, receipt, device, notified) \in Record
<1> DEFINE withReceipt ==
             IF receipt # "none" /\ rec.receipt = "none"
             THEN Advance(rec, [rec EXCEPT !.receipt = receipt], rec.state)
             ELSE rec
           withDevice ==
             IF device THEN AdvanceTo(withReceipt, "device_applied")
                       ELSE withReceipt
<1>1. rec.state \in LifecycleStates /\ [rec EXCEPT !.receipt = receipt] \in Record
  BY DEF Record
<1>2. withReceipt \in Record
  BY <1>1, AdvanceType
<1> HIDE DEF withReceipt
<1>3. withDevice \in Record
  BY <1>2, AdvanceToType DEF LifecycleStates
<1> HIDE DEF withDevice
<1>4. (IF notified THEN AdvanceTo(withDevice, "recipient_notified")
                   ELSE withDevice) \in Record
  BY <1>3, AdvanceToType DEF LifecycleStates
<1>5. ReconcileAcks(rec, receipt, device, notified) \in Record
  BY <1>4 DEF ReconcileAcks, withReceipt, withDevice
<1>6. Reconciled(rec, receipt, device, notified) \in Record
  BY <1>5, AdvanceToType DEF Reconciled, LifecycleStates
<1> QED BY <1>5, <1>6

(* The states of a record before its transfer.                             *)
PreSettle == {"created", "proof_prepared", "user_authorized", "proof_verified",
              "rail_reserved"}

(* Reconciling moves a payment only within the settled states: a payment   *)
(* that has not settled, or has failed, keeps its state, whatever evidence *)
(* is put forward.                                                         *)
LEMMA ReconcileKeepsPhase ==
  ASSUME NEW rec \in Record, NEW receipt \in Receipts,
         NEW device \in BOOLEAN, NEW notified \in BOOLEAN,
         rec.state \in PreSettle \union FailureTerminal \union PostSettle,
         NEW saved \in {ReconcileAcks(rec, receipt, device, notified),
                        Reconciled(rec, receipt, device, notified)}
  PROVE  /\ rec.state \notin PostSettle => saved.state = rec.state
         /\ rec.state \in PostSettle => saved.state \in PostSettle
<1> DEFINE withReceipt ==
             IF receipt # "none" /\ rec.receipt = "none"
             THEN Advance(rec, [rec EXCEPT !.receipt = receipt], rec.state)
             ELSE rec
           withDevice ==
             IF device THEN AdvanceTo(withReceipt, "device_applied")
                       ELSE withReceipt
           acked == IF notified THEN AdvanceTo(withDevice, "recipient_notified")
                                ELSE withDevice
           Keeps(x) == /\ rec.state \notin PostSettle => x.state = rec.state
                       /\ rec.state \in PostSettle => x.state \in PostSettle
<1> USE DEF PreSettle, FailureTerminal, SuccessTerminal, PostSettle
<1>1. \A x \in Record, next \in PostSettle \ {"settled"} :
        Keeps(x) => Keeps(AdvanceTo(x, next)) /\ AdvanceTo(x, next) \in Record
  <2> SUFFICES ASSUME NEW x \in Record, NEW next \in PostSettle \ {"settled"}, Keeps(x)
               PROVE  Keeps(AdvanceTo(x, next)) /\ AdvanceTo(x, next) \in Record
    OBVIOUS
  <2>1. AdvanceTo(x, next) \in Record
    BY AdvanceToType DEF LifecycleStates
  <2>2. AdvanceTo(x, next).state = x.state \/ AdvanceTo(x, next).state = next
    BY DEF AdvanceTo, Advance, Record
  <2>3. x.state \notin PostSettle => AdvanceTo(x, next).state = x.state
    BY DEF AdvanceTo, Advance, Record, MayAdvance, Allowed
  <2> QED BY <2>1, <2>2, <2>3
<1>2. withReceipt \in Record /\ Keeps(withReceipt)
  <2>1. rec.state \in LifecycleStates /\ [rec EXCEPT !.receipt = receipt] \in Record
    BY DEF Record
  <2>2. withReceipt \in Record
    BY <2>1, AdvanceType
  <2>3. withReceipt.state = rec.state
    BY <2>1 DEF Advance, Record
  <2> QED BY <2>2, <2>3
<1> HIDE DEF withReceipt
<1>3. withDevice \in Record /\ Keeps(withDevice)
  BY <1>1, <1>2
<1> HIDE DEF withDevice
<1>4. acked \in Record /\ Keeps(acked)
  BY <1>1, <1>3
<1> HIDE DEF acked
<1>5. Keeps(AdvanceTo(acked, "reconciled"))
  BY <1>1, <1>4
<1>6. ReconcileAcks(rec, receipt, device, notified) = acked
  BY DEF ReconcileAcks, withReceipt, withDevice, acked
<1>7. Reconciled(rec, receipt, device, notified)
        \in {acked, AdvanceTo(acked, "reconciled")}
  BY <1>6 DEF Reconciled
<1> QED BY <1>4, <1>5, <1>6, <1>7

-----------------------------------------------------------------------------
(* Typing.                                                                 *)

(* The initial state is well typed.                                        *)
LEMMA InitType == Init => TypeOK
<1> SUFFICES ASSUME Init PROVE TypeOK
  OBVIOUS
<1>1. owner \in [Commitments -> Users \union {None}]
  BY DEF Init
<1> QED BY <1>1, GenesisInjective DEF Init, TypeOK, Publishers

(* A well-typed call keeps its type when it moves on.                      *)
LEMMA CallType ==
  ASSUME TypeOK, NEW r \in Requests, call[r] # None
  PROVE  /\ call[r] \in Call
         /\ \A place \in Waiting \union {"answered", "lost"} :
              [call EXCEPT ![r].at = place]
                \in [Requests -> Call \union {None}]
BY DEF TypeOK, Call

(* The records a payment passes through are records.                       *)
LEMMA StageTypes ==
  ASSUME TypeOK, NEW r \in Requests, life[r] # None
  PROVE  /\ life[r] \in Record
         /\ Prepared(r) \in Record
         /\ Authorized(r) \in Record
         /\ Verified(r) \in Record
         /\ Reserved(r) \in Record
         /\ Settled(r) \in Record
         /\ DeviceApplied(r) \in Record
<1> USE DEF LifecycleStates
<1>1. life[r] \in Record
  BY DEF TypeOK
<1>2. Prepared(r) \in Record /\ Authorized(r) \in Record
  BY <1>1, AdvanceToType DEF Prepared, Authorized
<1>3. [life[r] EXCEPT !.attested = TRUE] \in Record
  BY <1>1 DEF Record
<1>4. Verified(r) \in Record
  BY <1>1, <1>3, AdvanceType DEF Verified
<1>5. [Verified(r) EXCEPT !.rail = TRUE] \in Record
  BY <1>4 DEF Record
<1>6. Reserved(r) \in Record
  BY <1>4, <1>5, AdvanceType DEF Reserved
<1>7. [life[r] EXCEPT !.receipt = "rail"] \in Record
  BY <1>1 DEF Record, Receipts
<1>8. Settled(r) \in Record
  BY <1>1, <1>7, AdvanceType DEF Settled
<1>9. DeviceApplied(r) \in Record
  BY <1>8, AdvanceToType DEF DeviceApplied
<1> QED BY <1>1, <1>2, <1>4, <1>6, <1>8, <1>9

(* A record is opened together with the call that works on it.             *)
HasRecord == \A r \in Requests : call[r] # None <=> life[r] # None

Typed == TypeOK /\ HasRecord

(* A refusal writes a record and nothing else that is typed (failSettle).  *)
LEMMA FailTyped ==
  ASSUME Typed, NEW r \in Requests, call[r] # None, NEW rec \in Record,
         NEW state \in LifecycleStates, Fail(r, rec, state)
  PROVE  Typed'
<1>1. AdvanceTo(rec, state) \in Record
  BY AdvanceToType
<1>2. call' \in [Requests -> Call \union {None}]
  BY CallType DEF Typed, Fail
<1>3. TypeOK'
  BY <1>1, <1>2 DEF Typed, TypeOK, Fail, balanceVars, boundVars
<1>4. HasRecord'
  <2>1. call'[r] # None /\ life'[r] # None
    BY <1>1, NoneIsFresh, CallType DEF Typed, TypeOK, Fail, Call
  <2>2. \A s \in Requests \ {r} : call'[s] = call[s] /\ life'[s] = life[s]
    BY DEF Typed, TypeOK, Fail
  <2> QED BY <2>1, <2>2 DEF Typed, HasRecord
<1> QED BY <1>3, <1>4 DEF Typed

(* Every answer to a call in progress keeps the types.                     *)
LEMMA AnswerTyped ==
  ASSUME Typed, NEW r \in Requests, Answer(r)
  PROVE  Typed'
<1> USE DEF Typed
<1>1. call[r] # None /\ life[r] # None
  BY DEF Answer, ProbeFails, ScreenFails, RiskHolds, WitnessMalformed, Authorize,
         ProofFails, ProofPasses, ChainFails, Apply, At, HasRecord
<1>2. /\ life[r] \in Record /\ Prepared(r) \in Record /\ Authorized(r) \in Record
      /\ Reserved(r) \in Record /\ DeviceApplied(r) \in Record
  BY <1>1, StageTypes
<1>3. call[r] \in Call
  BY <1>1, CallType
<1>4. CASE \/ ProbeFails(r) \/ ScreenFails(r) \/ RiskHolds(r)
           \/ WitnessMalformed(r) \/ ProofFails(r) \/ ChainFails(r)
  BY <1>1, <1>2, <1>4, FailTyped
     DEF ProbeFails, ScreenFails, RiskHolds, WitnessMalformed, ProofFails,
         ChainFails, LifecycleStates
<1>5. CASE Authorize(r)
  <2>1. call'[r] \in Call /\ call' \in [Requests -> Call \union {None}]
    BY <1>3, <1>5 DEF Authorize, TypeOK, Call, Waiting
  <2>2. TypeOK'
    BY <1>2, <1>5, <2>1 DEF Authorize, TypeOK, balanceVars, boundVars
  <2>3. HasRecord'
    BY <1>2, <1>5, <2>1, NoneIsFresh DEF Authorize, TypeOK, HasRecord
  <2> QED BY <2>2, <2>3
<1>6. CASE ProofPasses(r)
  <2>1. call'[r] \in Call /\ call' \in [Requests -> Call \union {None}]
    BY <1>3, <1>6 DEF ProofPasses, TypeOK, Call, Waiting
  <2>2. TypeOK'
    BY <1>2, <1>6, <2>1 DEF ProofPasses, TypeOK, balanceVars, boundVars
  <2>3. HasRecord'
    BY <1>2, <1>6, <2>1, NoneIsFresh DEF ProofPasses, TypeOK, HasRecord
  <2> QED BY <2>2, <2>3
<1>7. CASE Apply(r)
  <2>1. call'[r] \in Call /\ call' \in [Requests -> Call \union {None}]
    BY <1>3, <1>7 DEF Apply, TypeOK, Call
  <2>2. life'[r] \in Record /\ life' \in [Requests -> Record \union {None}]
    <3>1. Reconciled(DeviceApplied(r), "rail", TRUE, call[r].note) \in Record
      BY <1>2, <1>3, ReconcileType DEF Receipts, Call
    <3> QED BY <1>7, <3>1 DEF Apply, TypeOK
  <2>3. TypeOK'
    <3>1. /\ commit' \in [Users -> Commitments]
          /\ policy' \in [Users -> Publishers]
          /\ spent' \in [Commitments -> Nat]
      BY <1>3, <1>7 DEF Apply, Transfer, TypeOK, Call, Publishers
    <3>2. notes' \in [Requests -> Note \union {None}]
      BY <1>3, <1>7 DEF Apply, Transfer, TypeOK, Call, Note
    <3>3. events' \in [Requests -> Event \union {None}]
      BY <1>3, <1>7 DEF Apply, Transfer, TypeOK, Call, Event
    <3> QED BY <1>7, <2>1, <2>2, <3>1, <3>2, <3>3
            DEF Apply, TypeOK, boundVars
  <2>4. HasRecord'
    BY <1>7, <2>1, <2>2, NoneIsFresh DEF Apply, TypeOK, HasRecord
  <2> QED BY <2>3, <2>4
<1> QED BY <1>4, <1>5, <1>6, <1>7 DEF Answer

(* So does opening a call (handleSettle).                                  *)
LEMMA OpenTyped ==
  ASSUME Typed, NEW r \in Requests, NEW u \in Users, NEW to \in Users,
         NEW i \in Intents, NEW old \in Commitments, NEW nf \in Commitments,
         NEW new \in Commitments, NEW note \in BOOLEAN,
         \/ Confirm(r, u, i, old, nf, new, to, note)
         \/ ConfirmRefused(r, u, i, nf, to)
  PROVE  Typed'
<1> USE DEF Typed
<1>1. CreatedRecord \in Record
  BY DEF CreatedRecord, Record, LifecycleStates, Receipts
<1>2. AdvanceTo(CreatedRecord, "proof_failed") \in Record
  BY <1>1, AdvanceToType DEF LifecycleStates
<1>3. policy[u] \in Publishers
  BY DEF TypeOK
<1>4. /\ NewCall("probe", u, i, old, new, to, note) \in Call
      /\ NewCall("answered", u, i, nf, nf, to, FALSE) \in Call
  BY <1>3 DEF NewCall, Call, Waiting
<1>5. CASE Confirm(r, u, i, old, nf, new, to, note)
  <2>1. TypeOK'
    BY <1>1, <1>4, <1>5 DEF Confirm, TypeOK, boundVars
  <2>2. HasRecord'
    BY <1>1, <1>4, <1>5, NoneIsFresh DEF Confirm, TypeOK, HasRecord
  <2> QED BY <2>1, <2>2
<1>6. CASE ConfirmRefused(r, u, i, nf, to)
  <2>1. TypeOK'
    BY <1>2, <1>4, <1>6 DEF ConfirmRefused, TypeOK, balanceVars, boundVars
  <2>2. HasRecord'
    BY <1>2, <1>4, <1>6, NoneIsFresh DEF ConfirmRefused, TypeOK, HasRecord
  <2> QED BY <2>1, <2>2
<1> QED BY <1>5, <1>6

(* A restart keeps every call's type and forgets none of them.             *)
LEMMA RestartTyped ==
  ASSUME Typed, Restart
  PROVE  /\ call' \in [Requests -> Call \union {None}]
         /\ \A r \in Requests : call'[r] # None <=> call[r] # None
         /\ revoked' = revoked /\ reconciles' = reconciles
         /\ crashes' \in Nat
<1>1. ASSUME NEW r \in Requests
      PROVE  /\ call'[r] \in Call \union {None}
             /\ call'[r] # None <=> call[r] # None
  <2>1. CASE InFlight(r)
    <3>1. call[r] # None /\ call[r] \in Call
      BY <2>1, CallType DEF InFlight, Typed
    <3>2. [call[r] EXCEPT !.at = "lost"] \in Call
      BY <3>1 DEF Call
    <3>3. call'[r] = [call[r] EXCEPT !.at = "lost"]
      BY <2>1 DEF Restart
    <3> QED BY <3>1, <3>2, <3>3, NoneIsFresh
  <2>2. CASE ~InFlight(r)
    BY <2>2 DEF Restart, Typed, TypeOK
  <2> QED BY <2>1, <2>2
<1>2. call' \in [Requests -> Call \union {None}]
  BY <1>1 DEF Restart
<1> QED BY <1>1, <1>2 DEF Restart, Typed, TypeOK

(* And so do all the other steps.                                          *)
LEMMA NextTyped == Typed /\ [Next]_vars => Typed'
<1> SUFFICES ASSUME Typed, [Next]_vars PROVE Typed'
  OBVIOUS
<1> USE DEF Typed
<1>1. ASSUME NEW r \in Requests, NEW u \in Users, NEW to \in Users,
             NEW i \in Intents, NEW old \in Commitments, NEW nf \in Commitments,
             NEW new \in Commitments, NEW note \in BOOLEAN,
             Confirm(r, u, i, old, nf, new, to, note)
      PROVE  Typed'
  BY <1>1, OpenTyped
<1>2. ASSUME NEW r \in Requests, NEW u \in Users, NEW to \in Users,
             NEW i \in Intents, NEW nf \in Commitments,
             ConfirmRefused(r, u, i, nf, to)
      PROVE  Typed'
  BY <1>2, OpenTyped
<1>3. ASSUME NEW r \in Requests, Answer(r) PROVE Typed'
  BY <1>3, AnswerTyped
<1>4. ASSUME NEW r \in Requests, NEW new \in Commitments, ClaimNote(r, new)
      PROVE  Typed'
  <2>1. notes[r] \in Note /\ notes[r].to \in Users
    BY <1>4 DEF ClaimNote, TypeOK, Note
  <2>2. notes' \in [Requests -> Note \union {None}]
    BY <1>4, <2>1 DEF ClaimNote, TypeOK, Note
  <2>3. TypeOK'
    BY <1>4, <2>1, <2>2 DEF ClaimNote, Replace, TypeOK, boundVars
  <2>4. HasRecord'
    BY <1>4 DEF ClaimNote, HasRecord
  <2> QED BY <2>3, <2>4
<1>5. ASSUME NEW u \in Users, NEW old \in Commitments, NEW new \in Commitments,
             Reseal(u, old, new)
      PROVE  Typed'
  BY <1>5 DEF Reseal, Replace, TypeOK, HasRecord, paymentVars, boundVars
<1>6. ASSUME NEW u \in Users, NEW e \in PolicyEdits, PutPolicy(u, e)
      PROVE  Typed'
  BY <1>6 DEF PutPolicy, TypeOK, HasRecord, Publishers, balanceVars, paymentVars,
              boundVars
<1>7. ASSUME NEW u \in Users, Revoke(u) PROVE Typed'
  BY <1>7 DEF Revoke, TypeOK, HasRecord, balanceVars, paymentVars, boundVars
<1>8. ASSUME NEW r \in Requests, NEW receipt \in {"none", "caller"},
             NEW device \in BOOLEAN, NEW notified \in BOOLEAN,
             Reconcile(r, receipt, device, notified)
      PROVE  Typed'
  <2>1. life[r] \in Record /\ receipt \in Receipts
    BY <1>8 DEF Reconcile, TypeOK, Receipts
  <2>2. life'[r] \in Record /\ life' \in [Requests -> Record \union {None}]
    BY <1>8, <2>1, ReconcileType DEF Reconcile, TypeOK
  <2>3. TypeOK'
    BY <1>8, <2>2 DEF Reconcile, TypeOK, balanceVars
  <2>4. HasRecord'
    BY <1>8, <2>2, NoneIsFresh DEF Reconcile, TypeOK, HasRecord
  <2> QED BY <2>3, <2>4
<1>9. CASE Crash
  BY <1>9, RestartTyped DEF Crash, TypeOK, HasRecord, balanceVars
<1>10. ASSUME NEW u \in Users, NEW i \in Intents, NEW nf \in Commitments,
              CrashAfterBurn(u, i, nf)
       PROVE  Typed'
  BY <1>10, RestartTyped DEF CrashAfterBurn, TypeOK, HasRecord, balanceVars
<1>11. ASSUME NEW r \in Requests, CrashWhileAdvancing(r) PROVE Typed'
  <2>1. Restart /\ call[r] # None /\ life[r] # None
    BY <1>11 DEF CrashWhileAdvancing, At, HasRecord
  <2>2. life'[r] \in Record /\ life' \in [Requests -> Record \union {None}]
    BY <1>11, <2>1, StageTypes DEF CrashWhileAdvancing, TypeOK
  <2>3. TypeOK'
    BY <1>11, <2>1, <2>2, RestartTyped DEF CrashWhileAdvancing, TypeOK, balanceVars
  <2>4. HasRecord'
    BY <1>11, <2>1, <2>2, RestartTyped, NoneIsFresh
       DEF CrashWhileAdvancing, TypeOK, HasRecord
  <2> QED BY <2>3, <2>4
<1>12. ASSUME NEW r \in Requests, CrashWhileApplying(r) PROVE Typed'
  <2>1. Restart /\ call[r] # None /\ life[r] # None /\ call[r] \in Call
    BY <1>12, CallType DEF CrashWhileApplying, At, HasRecord
  <2>2. life'[r] \in Record /\ life' \in [Requests -> Record \union {None}]
    <3>1. ReconcileAcks(DeviceApplied(r), "rail", TRUE, call[r].note) \in Record
      BY <2>1, StageTypes, ReconcileType DEF Receipts, Call
    <3>2. Settled(r) \in Record /\ DeviceApplied(r) \in Record
      BY <2>1, StageTypes
    <3>3. PICK saved \in Record : life' = [life EXCEPT ![r] = saved]
      BY <1>12, <3>1, <3>2 DEF CrashWhileApplying
    <3> QED BY <3>3 DEF TypeOK
  <2>3. /\ commit' \in [Users -> Commitments]
        /\ policy' \in [Users -> Publishers]
        /\ spent' \in [Commitments -> Nat]
    BY <1>12, <2>1 DEF CrashWhileApplying, Transfer, TypeOK, Call, Publishers
  <2>4. /\ notes' \in [Requests -> Note \union {None}]
        /\ events' \in [Requests -> Event \union {None}]
    BY <1>12, <2>1 DEF CrashWhileApplying, Transfer, TypeOK, Call, Note, Event
  <2>5. TypeOK'
    BY <1>12, <2>1, <2>2, <2>3, <2>4, RestartTyped DEF CrashWhileApplying, TypeOK
  <2>6. HasRecord'
    BY <1>12, <2>1, <2>2, RestartTyped, NoneIsFresh
       DEF CrashWhileApplying, TypeOK, HasRecord
  <2> QED BY <2>5, <2>6
<1>13. ASSUME NEW r \in Requests, NEW receipt \in {"none", "caller"},
              NEW device \in BOOLEAN, NEW notified \in BOOLEAN,
              CrashWhileReconciling(r, receipt, device, notified)
       PROVE  Typed'
  <2>1. Restart /\ life[r] \in Record /\ receipt \in Receipts
    BY <1>13 DEF CrashWhileReconciling, TypeOK, Receipts
  <2>2. life'[r] \in Record /\ life' \in [Requests -> Record \union {None}]
    BY <1>13, <2>1, ReconcileType DEF CrashWhileReconciling, TypeOK
  <2>3. TypeOK'
    BY <1>13, <2>1, <2>2, RestartTyped DEF CrashWhileReconciling, TypeOK, balanceVars
  <2>4. HasRecord'
    BY <1>13, <2>1, <2>2, RestartTyped, NoneIsFresh
       DEF CrashWhileReconciling, TypeOK, HasRecord
  <2> QED BY <2>3, <2>4
<1>14. CASE UNCHANGED vars
  BY <1>14 DEF vars, balanceVars, paymentVars, boundVars, TypeOK, HasRecord
<1> QED
  BY <1>1, <1>2, <1>3, <1>4, <1>5, <1>6, <1>7, <1>8, <1>9, <1>10, <1>11, <1>12,
     <1>13, <1>14 DEF Next

(* Every reachable state is well typed.                                    *)
THEOREM Typing == Spec => []TypeOK
<1>1. Init => Typed
  BY InitType DEF Init, HasRecord, Typed
<1>2. Typed /\ [Next]_vars => Typed'
  BY NextTyped
<1>3. Typed => TypeOK
  BY DEF Typed
<1> QED BY <1>1, <1>2, <1>3, PTL DEF Spec

-----------------------------------------------------------------------------
(* Record and ledger.                                                      *)

(* Where a call waits determines the state of its record, and the record   *)
(* determines whether its transfer is on the ledger: for a call c, its     *)
(* record l, its transfer e and its note n.                                *)
InPhase(c, l, e, n) ==
  /\ c # None /\ c.at = "probe" => l.state = "created"
  /\ c # None /\ c.at = "circuits" => l.state = "user_authorized"
  /\ c # None /\ c.at = "chain" => l.state = "rail_reserved"
  /\ l # None => l.state \in PreSettle \union FailureTerminal \union PostSettle
  /\ e # None <=> (l # None /\ l.state \in PostSettle)
  /\ n # None => e # None

Phase == \A r \in Requests : InPhase(call[r], life[r], events[r], notes[r])

PhaseInv == Typed /\ Phase

(* The state each stretch of settlePublicPayment leaves its record in.     *)
LEMMA StageStates ==
  ASSUME PhaseInv, NEW r \in Requests
  PROVE  /\ At(r, "probe") =>
              /\ Prepared(r).state = "proof_prepared"
              /\ Authorized(r).state = "user_authorized"
              /\ AdvanceTo(life[r], "proof_failed").state = "proof_failed"
              /\ AdvanceTo(Prepared(r), "proof_failed").state = "proof_failed"
              /\ AdvanceTo(Prepared(r), "manual_review").state = "manual_review"
              /\ AdvanceTo(Authorized(r), "proof_failed").state = "proof_failed"
         /\ At(r, "circuits") =>
              /\ Verified(r).state = "proof_verified"
              /\ Reserved(r).state = "rail_reserved"
              /\ AdvanceTo(life[r], "proof_failed").state = "proof_failed"
         /\ At(r, "chain") =>
              /\ Settled(r).state = "settled"
              /\ DeviceApplied(r).state = "device_applied"
              /\ AdvanceTo(life[r], "rail_failed").state = "rail_failed"
<1>0. \A place : At(r, place) => life[r] # None
  BY DEF At, PhaseInv, Typed, HasRecord
<1>1. life[r] # None =>
        /\ life[r] \in Record /\ Prepared(r) \in Record /\ Authorized(r) \in Record
        /\ Verified(r) \in Record /\ Settled(r) \in Record
  BY StageTypes DEF PhaseInv, Typed
<1>2. \A rec, patched \in Record, next \in LifecycleStates :
        MayAdvance(rec.state, next) => Advance(rec, patched, next).state = next
  BY DEF Advance, Record
<1>3. \A rec \in Record, next \in LifecycleStates :
        MayAdvance(rec.state, next) => AdvanceTo(rec, next).state = next
  BY <1>2 DEF AdvanceTo
<1>4. /\ MayAdvance("created", "proof_prepared")
      /\ MayAdvance("created", "proof_failed")
      /\ MayAdvance("proof_prepared", "user_authorized")
      /\ MayAdvance("proof_prepared", "proof_failed")
      /\ MayAdvance("proof_prepared", "manual_review")
      /\ MayAdvance("user_authorized", "proof_failed")
      /\ MayAdvance("user_authorized", "proof_verified")
      /\ MayAdvance("proof_verified", "rail_reserved")
      /\ MayAdvance("rail_reserved", "settled")
      /\ MayAdvance("rail_reserved", "rail_failed")
      /\ MayAdvance("settled", "device_applied")
  BY DEF MayAdvance, Allowed, SuccessTerminal, FailureTerminal
<1>5. life[r] # None =>
        /\ [life[r] EXCEPT !.attested = TRUE] \in Record
        /\ [Verified(r) EXCEPT !.rail = TRUE] \in Record
        /\ [life[r] EXCEPT !.receipt = "rail"] \in Record
  BY <1>1 DEF Record, Receipts
<1> USE DEF LifecycleStates
<1>6. ASSUME At(r, "probe")
      PROVE  /\ Prepared(r).state = "proof_prepared"
             /\ Authorized(r).state = "user_authorized"
             /\ AdvanceTo(life[r], "proof_failed").state = "proof_failed"
             /\ AdvanceTo(Prepared(r), "proof_failed").state = "proof_failed"
             /\ AdvanceTo(Prepared(r), "manual_review").state = "manual_review"
             /\ AdvanceTo(Authorized(r), "proof_failed").state = "proof_failed"
  <2>0. life[r] # None
    BY <1>0, <1>6
  <2>1. life[r].state = "created"
    BY <2>0, <1>6 DEF PhaseInv, Phase, InPhase, At
  <2>2. Prepared(r).state = "proof_prepared"
    BY <2>0, <2>1, <1>1, <1>3, <1>4 DEF Prepared
  <2>3. Authorized(r).state = "user_authorized"
    BY <2>0, <2>2, <1>1, <1>3, <1>4 DEF Authorized
  <2> QED BY <2>0, <2>1, <2>2, <2>3, <1>1, <1>3, <1>4
<1>7. ASSUME At(r, "circuits")
      PROVE  /\ Verified(r).state = "proof_verified"
             /\ Reserved(r).state = "rail_reserved"
             /\ AdvanceTo(life[r], "proof_failed").state = "proof_failed"
  <2>0. life[r] # None
    BY <1>0, <1>7
  <2>1. life[r].state = "user_authorized"
    BY <2>0, <1>7 DEF PhaseInv, Phase, InPhase, At
  <2>2. Verified(r).state = "proof_verified"
    BY <2>0, <2>1, <1>1, <1>2, <1>4, <1>5 DEF Verified
  <2>3. Reserved(r).state = "rail_reserved"
    BY <2>0, <2>2, <1>1, <1>2, <1>4, <1>5 DEF Reserved
  <2> QED BY <2>0, <2>1, <2>2, <2>3, <1>1, <1>3, <1>4
<1>8. ASSUME At(r, "chain")
      PROVE  /\ Settled(r).state = "settled"
             /\ DeviceApplied(r).state = "device_applied"
             /\ AdvanceTo(life[r], "rail_failed").state = "rail_failed"
  <2>0. life[r] # None
    BY <1>0, <1>8
  <2>1. life[r].state = "rail_reserved"
    BY <2>0, <1>8 DEF PhaseInv, Phase, InPhase, At
  <2>2. Settled(r).state = "settled"
    BY <2>0, <2>1, <1>1, <1>2, <1>4, <1>5 DEF Settled
  <2>3. DeviceApplied(r).state = "device_applied"
    BY <2>0, <2>2, <1>1, <1>3, <1>4 DEF DeviceApplied
  <2> QED BY <2>0, <2>1, <2>2, <2>3, <1>1, <1>3, <1>4
<1> QED BY <1>6, <1>7, <1>8

(* A request whose call, record, transfer and note stay as they are stays  *)
(* in phase.                                                               *)
LEMMA PhaseUntouched ==
  ASSUME Phase, NEW s \in Requests,
         call'[s] = call[s], life'[s] = life[s],
         events'[s] = events[s], notes'[s] = notes[s]
  PROVE  InPhase(call'[s], life'[s], events'[s], notes'[s])
BY DEF Phase

(* A call a restart ends waits nowhere.                                    *)
LEMMA RestartPhase ==
  ASSUME PhaseInv, Restart, NEW s \in Requests
  PROVE  /\ InPhase(call'[s], life[s], events[s], notes[s])
         /\ call'[s] # None => call'[s].at \notin Waiting
<1>1. CASE InFlight(s)
  <2>1. call[s] \in Call /\ call'[s] = [call[s] EXCEPT !.at = "lost"]
    BY <1>1, CallType DEF InFlight, Restart, PhaseInv, Typed
  <2>2. call'[s].at = "lost"
    BY <2>1 DEF Call
  <2> QED BY <2>2 DEF PhaseInv, Phase, InPhase, Waiting
<1>2. CASE ~InFlight(s)
  <2>1. call'[s] = call[s]
    BY <1>2 DEF Restart
  <2> QED BY <1>2, <2>1 DEF PhaseInv, Phase, InFlight
<1> QED BY <1>1, <1>2

(* A failed payment is in phase.                                           *)
LEMMA FailPhase ==
  ASSUME PhaseInv, NEW r \in Requests, InFlight(r), NEW rec, NEW state,
         Fail(r, rec, state), AdvanceTo(rec, state).state \in FailureTerminal
  PROVE  InPhase(call'[r], life'[r], events'[r], notes'[r])
<1>1. call[r] \in Call
  BY CallType DEF InFlight, PhaseInv, Typed
<1>2. call'[r].at = "answered"
  BY <1>1 DEF Fail, Call, PhaseInv, Typed, TypeOK
<1>3. life'[r] = AdvanceTo(rec, state)
  BY DEF Fail, PhaseInv, Typed, TypeOK
<1>4. events[r] = None /\ notes[r] = None
  BY DEF InFlight, Waiting, PhaseInv, Phase, InPhase, PostSettle
<1>5. events'[r] = None /\ notes'[r] = None
  BY <1>4 DEF Fail
<1> QED BY <1>2, <1>3, <1>5 DEF InPhase, FailureTerminal, PostSettle

(* An answer to one call touches no other request.                         *)
LEMMA AnswerFrame ==
  ASSUME TypeOK, NEW r \in Requests, Answer(r), NEW s \in Requests \ {r}
  PROVE  /\ call'[s] = call[s] /\ life'[s] = life[s]
         /\ events'[s] = events[s] /\ notes'[s] = notes[s]
<1>1. ASSUME NEW rec, NEW state, Fail(r, rec, state)
      PROVE  /\ call'[s] = call[s] /\ life'[s] = life[s]
             /\ events'[s] = events[s] /\ notes'[s] = notes[s]
  BY <1>1 DEF Fail, TypeOK
<1>2. CASE Authorize(r)
  BY <1>2 DEF Authorize, TypeOK
<1>3. CASE ProofPasses(r)
  BY <1>3 DEF ProofPasses, TypeOK
<1>4. CASE Apply(r)
  BY <1>4 DEF Apply, Transfer, TypeOK
<1> QED BY <1>1, <1>2, <1>3, <1>4
        DEF Answer, ProbeFails, ScreenFails, RiskHolds, WitnessMalformed,
            ProofFails, ChainFails

(* An answer leaves what the call was opened with; only the place and the  *)
(* policy commitment its circuits run on change.                           *)
LEMMA AnswerCall ==
  ASSUME Typed, NEW r \in Requests, Answer(r)
  PROVE  /\ call[r] # None /\ call[r] \in Call /\ call'[r] \in Call
         /\ call'[r].intent = call[r].intent /\ call'[r].user = call[r].user
         /\ call'[r].old = call[r].old /\ call'[r].new = call[r].new
<1> USE DEF Typed
<1>1. call[r] # None /\ call[r] \in Call /\ call \in [Requests -> Call \union {None}]
  BY CallType
     DEF Answer, ProbeFails, ScreenFails, RiskHolds, WitnessMalformed, Authorize,
         ProofFails, ProofPasses, ChainFails, Apply, At, TypeOK
<1>2. policy[call[r].user] \in Publishers
  BY <1>1 DEF TypeOK, Call
<1>3. call[r].base \in Publishers
        /\ \A place \in Waiting \union {"answered"} :
             [call[r] EXCEPT !.at = place]
               = [call[r] EXCEPT !.at = place, !.base = call[r].base]
  BY <1>1 DEF Call
<1>4. ASSUME NEW rec, NEW state, Fail(r, rec, state)
      PROVE  call'[r] = [call[r] EXCEPT !.at = "answered"]
  BY <1>1, <1>4 DEF Fail
<1>5. PICK place \in Waiting \union {"answered"}, base \in Publishers :
        call'[r] = [call[r] EXCEPT !.at = place, !.base = base]
  <2>1. CASE Authorize(r)
    <3>1. call'[r] = [call[r] EXCEPT !.at = "circuits", !.base = policy[call[r].user]]
      BY <1>1, <2>1 DEF Authorize
    <3> QED BY <1>2, <3>1 DEF Waiting
  <2>2. CASE ProofPasses(r)
    <3>1. call'[r] = [call[r] EXCEPT !.at = "chain"]
      BY <1>1, <2>2 DEF ProofPasses
    <3> QED BY <1>3, <3>1 DEF Waiting
  <2>3. CASE Apply(r)
    <3>1. call'[r] = [call[r] EXCEPT !.at = "answered"]
      BY <1>1, <2>3 DEF Apply
    <3> QED BY <1>3, <3>1
  <2>4. CASE call'[r] = [call[r] EXCEPT !.at = "answered"]
    BY <1>3, <2>4
  <2> QED BY <1>4, <2>1, <2>2, <2>3, <2>4
          DEF Answer, ProbeFails, ScreenFails, RiskHolds, WitnessMalformed,
              ProofFails, ChainFails
<1> QED BY <1>1, <1>5 DEF Call, Waiting

(* Every answer keeps every request in phase.                              *)
LEMMA AnswerPhase ==
  ASSUME PhaseInv, NEW r \in Requests, Answer(r)
  PROVE  Phase'
<1>1. InFlight(r) /\ call[r] \in Call
  BY CallType DEF Answer, ProbeFails, ScreenFails, RiskHolds, WitnessMalformed,
       Authorize, ProofFails, ProofPasses, ChainFails, Apply, At, InFlight,
       Waiting, PhaseInv, Typed
<1>2. ASSUME NEW s \in Requests \ {r}
      PROVE  InPhase(call'[s], life'[s], events'[s], notes'[s])
  <2>1. call'[s] = call[s] /\ life'[s] = life[s] /\ events'[s] = events[s]
          /\ notes'[s] = notes[s]
    BY AnswerFrame DEF PhaseInv, Typed
  <2> QED BY <2>1, PhaseUntouched DEF PhaseInv
<1>3. InPhase(call'[r], life'[r], events'[r], notes'[r])
  <2>1. CASE \/ ProbeFails(r) \/ ScreenFails(r) \/ RiskHolds(r)
             \/ WitnessMalformed(r) \/ ProofFails(r) \/ ChainFails(r)
    BY <1>1, <2>1, StageStates, FailPhase
       DEF ProbeFails, ScreenFails, RiskHolds, WitnessMalformed, ProofFails,
           ChainFails, FailureTerminal
  <2>2. CASE Authorize(r)
    <3>1. life'[r] = Authorized(r) /\ Authorized(r).state = "user_authorized"
      BY <2>2, StageStates DEF Authorize, PhaseInv, Typed, TypeOK
    <3>2. call'[r].at = "circuits"
      BY <1>1, <2>2 DEF Authorize, PhaseInv, Typed, TypeOK, Call
    <3>3. events'[r] = None /\ notes'[r] = None
      BY <2>2 DEF Authorize, At, PhaseInv, Phase, InPhase, PostSettle
    <3> QED BY <3>1, <3>2, <3>3 DEF InPhase, PreSettle, PostSettle
  <2>3. CASE ProofPasses(r)
    <3>1. life'[r] = Reserved(r) /\ Reserved(r).state = "rail_reserved"
      BY <2>3, StageStates DEF ProofPasses, PhaseInv, Typed, TypeOK
    <3>2. call'[r].at = "chain"
      BY <1>1, <2>3 DEF ProofPasses, PhaseInv, Typed, TypeOK, Call
    <3>3. events'[r] = None /\ notes'[r] = None
      BY <2>3 DEF ProofPasses, At, PhaseInv, Phase, InPhase, PostSettle
    <3> QED BY <3>1, <3>2, <3>3 DEF InPhase, PreSettle, PostSettle
  <2>4. CASE Apply(r)
    <3>1. life'[r] = Reconciled(DeviceApplied(r), "rail", TRUE, call[r].note)
      BY <2>4 DEF Apply, PhaseInv, Typed, TypeOK
    <3>2. DeviceApplied(r) \in Record /\ DeviceApplied(r).state = "device_applied"
      <4>1. life[r] # None
        BY <1>1 DEF InFlight, PhaseInv, Typed, HasRecord
      <4> QED BY <2>4, <4>1, StageTypes, StageStates DEF Apply, PhaseInv, Typed
    <3>3. life'[r].state \in PostSettle
      <4>1. DeviceApplied(r).state \in PostSettle
        BY <3>2 DEF PostSettle
      <4>2. call[r].note \in BOOLEAN
        BY <1>1 DEF Call
      <4> QED BY <3>1, <3>2, <4>1, <4>2, ReconcileKeepsPhase DEF Receipts
    <3>4. life'[r] \in Record
      BY <1>1, <3>1, <3>2, ReconcileType DEF Receipts, Call
    <3>5. events'[r] = [user |-> call[r].user, old |-> call[r].old,
                        new |-> call[r].new]
      BY <2>4 DEF Apply, Transfer, PhaseInv, Typed, TypeOK
    <3>6. events'[r] # None
      BY <1>1, <3>5, NoneIsFresh DEF Event, Call
    <3>7. call'[r].at = "answered"
      BY <1>1, <2>4 DEF Apply, PhaseInv, Typed, TypeOK, Call
    <3> QED BY <3>3, <3>4, <3>6, <3>7, NoneIsFresh DEF InPhase
  <2> QED BY <2>1, <2>2, <2>3, <2>4 DEF Answer
<1> QED BY <1>2, <1>3 DEF Phase

(* So does opening a call.                                                 *)
LEMMA OpenPhase ==
  ASSUME PhaseInv, NEW r \in Requests, NEW u \in Users, NEW to \in Users,
         NEW i \in Intents, NEW old \in Commitments, NEW nf \in Commitments,
         NEW new \in Commitments, NEW note \in BOOLEAN,
         \/ Confirm(r, u, i, old, nf, new, to, note)
         \/ ConfirmRefused(r, u, i, nf, to)
  PROVE  Phase'
<1>1. call[r] = None /\ life[r] = None
  BY DEF Confirm, ConfirmRefused, PhaseInv, Typed, HasRecord
<1>2. events[r] = None /\ notes[r] = None
  BY <1>1 DEF PhaseInv, Phase, InPhase
<1>3. ASSUME NEW s \in Requests \ {r}
      PROVE  InPhase(call'[s], life'[s], events'[s], notes'[s])
  <2>1. call'[s] = call[s] /\ life'[s] = life[s] /\ events'[s] = events[s]
          /\ notes'[s] = notes[s]
    BY DEF Confirm, ConfirmRefused, PhaseInv, Typed, TypeOK
  <2> QED BY <2>1, PhaseUntouched DEF PhaseInv
<1>4. CreatedRecord.state = "created"
  BY DEF CreatedRecord
<1>5. AdvanceTo(CreatedRecord, "proof_failed").state = "proof_failed"
  BY DEF AdvanceTo, Advance, MayAdvance, Allowed, CreatedRecord, SuccessTerminal,
         FailureTerminal
<1>6. InPhase(call'[r], life'[r], events'[r], notes'[r])
  <2>1. CASE Confirm(r, u, i, old, nf, new, to, note)
    <3>1. /\ life'[r] = CreatedRecord /\ call'[r].at = "probe"
          /\ events'[r] = None /\ notes'[r] = None
      BY <1>2, <2>1 DEF Confirm, NewCall, PhaseInv, Typed, TypeOK
    <3> QED BY <1>4, <3>1 DEF InPhase, PreSettle, PostSettle
  <2>2. CASE ConfirmRefused(r, u, i, nf, to)
    <3>1. /\ life'[r] = AdvanceTo(CreatedRecord, "proof_failed")
          /\ call'[r].at = "answered"
          /\ events'[r] = None /\ notes'[r] = None
      BY <1>2, <2>2 DEF ConfirmRefused, NewCall, PhaseInv, Typed, TypeOK
    <3> QED BY <1>5, <3>1 DEF InPhase, FailureTerminal, PostSettle
  <2> QED BY <2>1, <2>2
<1> QED BY <1>3, <1>6 DEF Phase

(* Reconciling, in whole or cut short by a restart, leaves a request in    *)
(* phase: c is what has become of its call.                                *)
LEMMA ReconcilePhase ==
  ASSUME PhaseInv, NEW r \in Requests, life[r] # None,
         NEW receipt \in {"none", "caller"}, NEW device \in BOOLEAN,
         NEW notified \in BOOLEAN,
         NEW saved \in {ReconcileAcks(life[r], receipt, device, notified),
                        Reconciled(life[r], receipt, device, notified)},
         NEW c, InPhase(c, life[r], events[r], notes[r])
  PROVE  InPhase(c, saved, events[r], notes[r])
<1>1. life[r] \in Record /\ receipt \in Receipts
  BY DEF PhaseInv, Typed, TypeOK, Receipts
<1>2. life[r].state \in PreSettle \union FailureTerminal \union PostSettle
  BY DEF PhaseInv, Phase, InPhase
<1>3. /\ life[r].state \notin PostSettle => saved.state = life[r].state
      /\ life[r].state \in PostSettle => saved.state \in PostSettle
  BY <1>1, <1>2, ReconcileKeepsPhase
<1>4. saved # None
  BY <1>1, ReconcileType, NoneIsFresh
<1> QED BY <1>2, <1>3, <1>4 DEF InPhase, PostSettle

(* A restart while a transfer is being applied leaves its request settled. *)
LEMMA ApplyCrashPhase ==
  ASSUME PhaseInv, NEW r \in Requests, CrashWhileApplying(r)
  PROVE  InPhase(call'[r], life'[r], events'[r], notes'[r])
<1>1. /\ Restart /\ Transfer(r) /\ At(r, "chain")
      /\ call[r] \in Call /\ life[r] # None
  BY CallType DEF CrashWhileApplying, At, PhaseInv, Typed, HasRecord
<1>2. /\ Settled(r) \in Record /\ DeviceApplied(r) \in Record
      /\ Settled(r).state = "settled" /\ DeviceApplied(r).state = "device_applied"
  BY <1>1, StageTypes, StageStates DEF PhaseInv, Typed
<1>3. ReconcileAcks(DeviceApplied(r), "rail", TRUE, call[r].note) \in Record
  BY <1>1, <1>2, ReconcileType DEF Receipts, Call
<1>4. ReconcileAcks(DeviceApplied(r), "rail", TRUE, call[r].note).state \in PostSettle
  <2>1. DeviceApplied(r).state \in PostSettle /\ call[r].note \in BOOLEAN
    BY <1>1, <1>2 DEF PostSettle, Call
  <2> QED BY <1>2, <2>1, ReconcileKeepsPhase DEF Receipts
<1>5. PICK saved \in Record : /\ life' = [life EXCEPT ![r] = saved]
                              /\ saved.state \in PostSettle
  BY <1>2, <1>3, <1>4 DEF CrashWhileApplying, PostSettle
<1>6. life'[r] = saved /\ saved # None
  BY <1>5, NoneIsFresh DEF PhaseInv, Typed, TypeOK
<1>7. events'[r] \in Event
  BY <1>1 DEF Transfer, PhaseInv, Typed, TypeOK, Event, Call
<1>8. call'[r] # None => call'[r].at \notin Waiting
  BY <1>1, RestartPhase
<1> QED BY <1>5, <1>6, <1>7, <1>8, NoneIsFresh DEF InPhase, Waiting

(* Every step keeps every request in phase.                                *)
LEMMA NextPhase == PhaseInv /\ [Next]_vars => Phase'
<1> SUFFICES ASSUME PhaseInv, [Next]_vars PROVE Phase'
  OBVIOUS
<1>1. ASSUME NEW r \in Requests, NEW u \in Users, NEW to \in Users,
             NEW i \in Intents, NEW old \in Commitments, NEW nf \in Commitments,
             NEW new \in Commitments, NEW note \in BOOLEAN,
             Confirm(r, u, i, old, nf, new, to, note)
      PROVE  Phase'
  BY <1>1, OpenPhase
<1>2. ASSUME NEW r \in Requests, NEW u \in Users, NEW to \in Users,
             NEW i \in Intents, NEW nf \in Commitments,
             ConfirmRefused(r, u, i, nf, to)
      PROVE  Phase'
  BY <1>2, OpenPhase
<1>3. ASSUME NEW r \in Requests, Answer(r) PROVE Phase'
  BY <1>3, AnswerPhase
<1>4. ASSUME NEW r \in Requests, NEW new \in Commitments, ClaimNote(r, new)
      PROVE  Phase'
  <2>1. /\ UNCHANGED <<call, life, events>>
        /\ \A s \in Requests : notes'[s] # None => notes[s] # None
    BY <1>4 DEF ClaimNote, PhaseInv, Typed, TypeOK
  <2> QED BY <2>1 DEF PhaseInv, Phase, InPhase
<1>5. ASSUME NEW u \in Users, NEW old \in Commitments, NEW new \in Commitments,
             Reseal(u, old, new)
      PROVE  Phase'
  BY <1>5 DEF Reseal, PhaseInv, Phase, paymentVars
<1>6. ASSUME NEW u \in Users, NEW e \in PolicyEdits, PutPolicy(u, e)
      PROVE  Phase'
  BY <1>6 DEF PutPolicy, PhaseInv, Phase, paymentVars
<1>7. ASSUME NEW u \in Users, Revoke(u) PROVE Phase'
  BY <1>7 DEF Revoke, PhaseInv, Phase, paymentVars
<1>8. ASSUME NEW r \in Requests, NEW receipt \in {"none", "caller"},
             NEW device \in BOOLEAN, NEW notified \in BOOLEAN,
             Reconcile(r, receipt, device, notified)
      PROVE  Phase'
  <2>1. life'[r] = Reconciled(life[r], receipt, device, notified) /\ life[r] # None
    BY <1>8 DEF Reconcile, PhaseInv, Typed, TypeOK
  <2>2. UNCHANGED <<call, events, notes>>
          /\ \A s \in Requests \ {r} : life'[s] = life[s]
    BY <1>8 DEF Reconcile, PhaseInv, Typed, TypeOK
  <2>3. InPhase(call[r], life[r], events[r], notes[r])
    BY DEF PhaseInv, Phase
  <2>4. InPhase(call[r], life'[r], events[r], notes[r])
    BY <2>1, <2>3, ReconcilePhase
  <2> QED BY <2>2, <2>4 DEF PhaseInv, Phase
<1>9. CASE Crash
  <2>1. Restart /\ UNCHANGED <<life, events, notes>>
    BY <1>9 DEF Crash
  <2> QED BY <2>1, RestartPhase DEF Phase
<1>10. ASSUME NEW u \in Users, NEW i \in Intents, NEW nf \in Commitments,
              CrashAfterBurn(u, i, nf)
       PROVE  Phase'
  <2>1. Restart /\ UNCHANGED <<life, events, notes>>
    BY <1>10 DEF CrashAfterBurn
  <2> QED BY <2>1, RestartPhase DEF Phase
<1>11. ASSUME NEW r \in Requests, CrashWhileAdvancing(r) PROVE Phase'
  <2>1. Restart /\ UNCHANGED <<events, notes>>
          /\ \A s \in Requests \ {r} : life'[s] = life[s]
    BY <1>11 DEF CrashWhileAdvancing, PhaseInv, Typed, TypeOK
  <2>2. life'[r].state \in {"proof_prepared", "proof_verified"}
    BY <1>11, StageStates DEF CrashWhileAdvancing, PhaseInv, Typed, TypeOK
  <2>3. life[r].state \notin PostSettle /\ life[r] # None
    BY <1>11 DEF CrashWhileAdvancing, At, PhaseInv, Typed, HasRecord, Phase,
                InPhase, PostSettle
  <2>4. events[r] = None /\ notes[r] = None
    BY <2>3 DEF PhaseInv, Phase, InPhase
  <2>5. call'[r] # None => call'[r].at \notin Waiting
    BY <2>1, RestartPhase
  <2>6. InPhase(call'[r], life'[r], events'[r], notes'[r])
    BY <2>1, <2>2, <2>4, <2>5 DEF InPhase, PreSettle, PostSettle, Waiting
  <2> QED BY <2>1, <2>6, RestartPhase DEF Phase
<1>12. ASSUME NEW r \in Requests, CrashWhileApplying(r) PROVE Phase'
  <2>1. Restart /\ \A s \in Requests \ {r} :
          life'[s] = life[s] /\ events'[s] = events[s] /\ notes'[s] = notes[s]
    BY <1>12 DEF CrashWhileApplying, Transfer, PhaseInv, Typed, TypeOK
  <2>2. InPhase(call'[r], life'[r], events'[r], notes'[r])
    BY <1>12, ApplyCrashPhase
  <2> QED BY <2>1, <2>2, RestartPhase DEF Phase
<1>13. ASSUME NEW r \in Requests, NEW receipt \in {"none", "caller"},
              NEW device \in BOOLEAN, NEW notified \in BOOLEAN,
              CrashWhileReconciling(r, receipt, device, notified)
       PROVE  Phase'
  <2>1. life'[r] = ReconcileAcks(life[r], receipt, device, notified)
          /\ life[r] # None
    BY <1>13 DEF CrashWhileReconciling, PhaseInv, Typed, TypeOK
  <2>2. Restart /\ UNCHANGED <<events, notes>>
          /\ \A s \in Requests \ {r} : life'[s] = life[s]
    BY <1>13 DEF CrashWhileReconciling, PhaseInv, Typed, TypeOK
  <2>3. InPhase(call'[r], life[r], events[r], notes[r])
    BY <2>2, RestartPhase
  <2>4. InPhase(call'[r], life'[r], events'[r], notes'[r])
    BY <2>1, <2>2, <2>3, ReconcilePhase
  <2> QED BY <2>2, <2>4, RestartPhase DEF Phase
<1>14. CASE UNCHANGED vars
  BY <1>14 DEF vars, balanceVars, paymentVars, boundVars, PhaseInv, Phase
<1> QED
  BY <1>1, <1>2, <1>3, <1>4, <1>5, <1>6, <1>7, <1>8, <1>9, <1>10, <1>11, <1>12,
     <1>13, <1>14 DEF Next

(* The inductive invariant holds of every reachable state.                 *)
THEOREM Phases == Spec => []PhaseInv
<1>1. Init => PhaseInv
  BY InitType DEF Init, PhaseInv, Typed, HasRecord, Phase, InPhase
<1>2. PhaseInv /\ [Next]_vars => PhaseInv'
  BY NextTyped, NextPhase DEF PhaseInv
<1> QED BY <1>1, <1>2, PTL DEF Spec

(* The lifecycle record and the ledger agree on what has settled, whoever  *)
(* calls the reconcile endpoint and wherever a restart falls.              *)
THEOREM RecordsMatch == Spec => []RecordMatchesLedger
<1>1. PhaseInv => RecordMatchesLedger
  BY DEF PhaseInv, Phase, InPhase, RecordMatchesLedger
<1> QED BY <1>1, Phases, PTL

(* One step leaves a failed payment as it is: nothing answers it any more, *)
(* and reconciling does not move it.                                       *)
LEMMA FailureStays ==
  ASSUME PhaseInv, [Next]_vars, NEW r \in Requests,
         life[r] # None, life[r].state \in FailureTerminal
  PROVE  life'[r].state = life[r].state
<1>1. call[r] # None /\ ~InFlight(r)
  BY DEF PhaseInv, Typed, HasRecord, Phase, InPhase, InFlight, Waiting, FailureTerminal
<1>2. ASSUME NEW s \in Requests, NEW u \in Users, NEW to \in Users,
             NEW i \in Intents, NEW old \in Commitments, NEW nf \in Commitments,
             NEW new \in Commitments, NEW note \in BOOLEAN,
             Confirm(s, u, i, old, nf, new, to, note)
      PROVE  life'[r] = life[r]
  BY <1>1, <1>2 DEF Confirm, PhaseInv, Typed, TypeOK
<1>3. ASSUME NEW s \in Requests, NEW u \in Users, NEW to \in Users,
             NEW i \in Intents, NEW nf \in Commitments,
             ConfirmRefused(s, u, i, nf, to)
      PROVE  life'[r] = life[r]
  BY <1>1, <1>3 DEF ConfirmRefused, PhaseInv, Typed, TypeOK
<1>4. ASSUME NEW s \in Requests, Answer(s) PROVE life'[r] = life[r]
  <2>1. InFlight(s)
    BY <1>4 DEF Answer, ProbeFails, ScreenFails, RiskHolds, WitnessMalformed,
         Authorize, ProofFails, ProofPasses, ChainFails, Apply, At, InFlight, Waiting
  <2> QED BY <1>1, <1>4, <2>1, AnswerFrame DEF PhaseInv, Typed
<1>5. ASSUME NEW s \in Requests, CrashWhileAdvancing(s) \/ CrashWhileApplying(s)
      PROVE  life'[r] = life[r]
  <2>1. InFlight(s)
    BY <1>5 DEF CrashWhileAdvancing, CrashWhileApplying, At, InFlight, Waiting
  <2> QED BY <1>1, <1>5, <2>1
          DEF CrashWhileAdvancing, CrashWhileApplying, PhaseInv, Typed, TypeOK
<1>6. ASSUME NEW s \in Requests, NEW receipt \in {"none", "caller"},
             NEW device \in BOOLEAN, NEW notified \in BOOLEAN,
             \/ Reconcile(s, receipt, device, notified)
             \/ CrashWhileReconciling(s, receipt, device, notified)
      PROVE  life'[r].state = life[r].state
  <2>1. CASE s # r
    BY <1>6, <2>1 DEF Reconcile, CrashWhileReconciling, PhaseInv, Typed, TypeOK
  <2>2. CASE s = r
    <3>1. life[r] \in Record /\ receipt \in Receipts
      BY DEF PhaseInv, Typed, TypeOK, Receipts
    <3>2. life'[r] \in {ReconcileAcks(life[r], receipt, device, notified),
                        Reconciled(life[r], receipt, device, notified)}
      BY <1>6, <2>2 DEF Reconcile, CrashWhileReconciling, PhaseInv, Typed, TypeOK
    <3>3. life[r].state \notin PostSettle
      BY DEF FailureTerminal, PostSettle
    <3> QED BY <3>1, <3>2, <3>3, ReconcileKeepsPhase
  <2> QED BY <2>1, <2>2
<1>7. CASE UNCHANGED life
  BY <1>7
<1>8. ASSUME \/ \E s \in Requests, new \in Commitments : ClaimNote(s, new)
             \/ \E u \in Users, old, new \in Commitments : Reseal(u, old, new)
             \/ \E u \in Users, e \in PolicyEdits : PutPolicy(u, e)
             \/ \E u \in Users : Revoke(u)
             \/ Crash
             \/ \E u \in Users, i \in Intents, nf \in Commitments :
                   CrashAfterBurn(u, i, nf)
             \/ UNCHANGED vars
      PROVE  UNCHANGED life
  BY <1>8 DEF ClaimNote, Reseal, PutPolicy, Revoke, Crash, CrashAfterBurn, vars,
              paymentVars
<1> QED BY <1>2, <1>3, <1>4, <1>5, <1>6, <1>7, <1>8 DEF Next

(* A failed or held payment stays so and never gets a transfer.            *)
THEOREM FailuresAreFinal == Spec => FailureIsFinal
<1>1. PhaseInv /\ PhaseInv' /\ [Next]_vars
        => [\A r \in Requests :
              life[r] # None /\ life[r].state \in FailureTerminal =>
                /\ life'[r].state = life[r].state
                /\ events'[r] = None]_vars
  <2> SUFFICES ASSUME PhaseInv, PhaseInv', [Next]_vars, NEW r \in Requests,
                      life[r] # None, life[r].state \in FailureTerminal
               PROVE  /\ life'[r].state = life[r].state
                      /\ events'[r] = None
    OBVIOUS
  <2>1. life'[r].state = life[r].state
    BY FailureStays
  <2>2. life'[r].state \notin PostSettle
    BY <2>1 DEF FailureTerminal, PostSettle
  <2>3. InPhase(call'[r], life'[r], events'[r], notes'[r])
    BY DEF PhaseInv, Phase
  <2> QED BY <2>1, <2>2, <2>3 DEF InPhase
<1> QED BY <1>1, Phases, PTL DEF Spec, FailureIsFinal

(* One step of anybody's leaves a payment whose party is revoked while the *)
(* proof server is probed without a transfer, and does not start its       *)
(* circuits.                                                               *)
LEMMA UnscreenedStops ==
  ASSUME PhaseInv, [Next]_vars, NEW r \in Requests, At(r, "probe"), ~Screened(r)
  PROVE  events'[r] = None /\ ~At(r, "circuits")'
<1>1. /\ call[r] # None /\ call[r].at = "probe" /\ events[r] = None
      /\ TypeOK
  BY DEF At, PhaseInv, Typed, Phase, InPhase, PostSettle, HasRecord
<1>2. ASSUME events'[r] = events[r], call'[r] = call[r]
      PROVE  events'[r] = None /\ ~At(r, "circuits")'
  BY <1>1, <1>2 DEF At
<1>3. ASSUME NEW s \in Requests, NEW u \in Users, NEW to \in Users,
             NEW i \in Intents, NEW old \in Commitments, NEW nf \in Commitments,
             NEW new \in Commitments, NEW note \in BOOLEAN,
             \/ Confirm(s, u, i, old, nf, new, to, note)
             \/ ConfirmRefused(s, u, i, nf, to)
      PROVE  events'[r] = events[r] /\ call'[r] = call[r]
  <2>1. s # r
    BY <1>1, <1>3 DEF Confirm, ConfirmRefused
  <2> QED BY <1>1, <1>3, <2>1 DEF Confirm, ConfirmRefused, TypeOK
<1>4. ASSUME NEW s \in Requests, Answer(s)
      PROVE  events'[r] = None /\ ~At(r, "circuits")'
  <2>1. CASE s # r
    BY <1>1, <1>2, <1>4, <2>1, AnswerFrame
  <2>2. CASE s = r
    <3>1. PICK rec, state : Fail(r, rec, state)
      BY <1>1, <1>4, <2>2
         DEF Answer, ProbeFails, ScreenFails, RiskHolds, WitnessMalformed,
             Authorize, ProofFails, ProofPasses, ChainFails, Apply, At
    <3>2. events' = events /\ call' = [call EXCEPT ![r].at = "answered"]
      BY <3>1 DEF Fail
    <3>3. call[r] \in Call
      BY <1>1, CallType
    <3>4. call'[r].at = "answered"
      BY <1>1, <3>2, <3>3 DEF TypeOK, Call
    <3> QED BY <1>1, <3>2, <3>4 DEF At
  <2> QED BY <2>1, <2>2
<1>5. ASSUME Restart, events'[r] = events[r]
      PROVE  events'[r] = None /\ ~At(r, "circuits")'
  BY <1>1, <1>5, RestartPhase DEF At, Waiting
<1>6. ASSUME NEW s \in Requests, CrashWhileApplying(s)
      PROVE  Restart /\ events'[r] = events[r]
  <2>1. s # r
    BY <1>1, <1>6 DEF CrashWhileApplying, At
  <2> QED BY <1>1, <1>6, <2>1 DEF CrashWhileApplying, Transfer, TypeOK
<1>7. ASSUME \/ Crash
             \/ \E u \in Users, i \in Intents, nf \in Commitments :
                   CrashAfterBurn(u, i, nf)
             \/ \E s \in Requests : CrashWhileAdvancing(s)
             \/ \E s \in Requests, receipt \in {"none", "caller"},
                   device, notified \in BOOLEAN :
                     CrashWhileReconciling(s, receipt, device, notified)
      PROVE  Restart /\ events'[r] = events[r]
  BY <1>7 DEF Crash, CrashAfterBurn, CrashWhileAdvancing, CrashWhileReconciling
<1>8. ASSUME \/ \E s \in Requests, new \in Commitments : ClaimNote(s, new)
             \/ \E u \in Users, old, new \in Commitments : Reseal(u, old, new)
             \/ \E u \in Users, e \in PolicyEdits : PutPolicy(u, e)
             \/ \E u \in Users : Revoke(u)
             \/ \E s \in Requests, receipt \in {"none", "caller"},
                   device, notified \in BOOLEAN :
                     Reconcile(s, receipt, device, notified)
             \/ UNCHANGED vars
      PROVE  events'[r] = events[r] /\ call'[r] = call[r]
  BY <1>8 DEF ClaimNote, Reseal, PutPolicy, Revoke, Reconcile, vars, paymentVars
<1>9. CASE \E s \in Requests, u, to \in Users, i \in Intents,
             old, nf, new \in Commitments, note \in BOOLEAN :
               Confirm(s, u, i, old, nf, new, to, note)
  <2>1. events'[r] = events[r] /\ call'[r] = call[r]
    BY <1>3, <1>9
  <2> QED BY <1>2, <2>1
<1>10. CASE \E s \in Requests, u, to \in Users, i \in Intents,
              nf \in Commitments : ConfirmRefused(s, u, i, nf, to)
  <2>1. events'[r] = events[r] /\ call'[r] = call[r]
    BY <1>3, <1>10
  <2> QED BY <1>2, <2>1
<1>11. CASE \E s \in Requests : CrashWhileApplying(s)
  BY <1>5, <1>6, <1>11
<1> QED BY <1>2, <1>4, <1>5, <1>7, <1>8, <1>9, <1>10, <1>11 DEF Next

(* A revocation that lands while the proof server is probed stops the      *)
(* payment, whichever of the two parties it names.                         *)
THEOREM RevocationStops == Spec => RevokedIsNotAuthorized
<1>1. PhaseInv /\ [Next]_vars
        => [\A r \in Requests :
              At(r, "probe") /\ {call[r].user, call[r].to} \intersect revoked # {} =>
                events'[r] = None /\ ~At(r, "circuits")']_vars
  BY UnscreenedStops DEF Screened
<1> QED BY <1>1, Phases, PTL DEF Spec, RevokedIsNotAuthorized

-----------------------------------------------------------------------------
(* What a reconciled payment has gone through.                             *)

(* A record that has been reserved was proved; one that has settled was    *)
(* reserved too, and carries the receipt of its rail.                      *)
Earned(l) ==
  /\ l.state \in PostSettle \union {"rail_reserved"} =>
       /\ {"proof_verified", "rail_reserved"} \subseteq l.trail
       /\ l.attested
  /\ l.state \in PostSettle => "settled" \in l.trail /\ l.receipt = "rail"

AllEarned == \A r \in Requests : life[r] # None => Earned(life[r])

(* Advancing a record keeps its trail, the proof of it and its receipt.    *)
LEMMA AdvanceKeeps ==
  ASSUME NEW x \in Record, NEW next \in LifecycleStates
  PROVE  /\ AdvanceTo(x, next) \in Record
         /\ x.trail \subseteq AdvanceTo(x, next).trail
         /\ AdvanceTo(x, next).attested = x.attested
         /\ AdvanceTo(x, next).receipt = x.receipt
<1>1. AdvanceTo(x, next) \in Record
  BY AdvanceToType
<1> QED BY <1>1 DEF AdvanceTo, Advance, Record

(* So does reconciling it, except that a receipt it lacks may be given.    *)
LEMMA ReconcileKeeps ==
  ASSUME NEW rec \in Record, NEW receipt \in Receipts,
         NEW device \in BOOLEAN, NEW notified \in BOOLEAN,
         NEW saved \in {ReconcileAcks(rec, receipt, device, notified),
                        Reconciled(rec, receipt, device, notified)}
  PROVE  /\ rec.trail \subseteq saved.trail
         /\ saved.attested = rec.attested
         /\ rec.receipt # "none" => saved.receipt = rec.receipt
<1> DEFINE withReceipt ==
             IF receipt # "none" /\ rec.receipt = "none"
             THEN Advance(rec, [rec EXCEPT !.receipt = receipt], rec.state)
             ELSE rec
           withDevice ==
             IF device THEN AdvanceTo(withReceipt, "device_applied")
                       ELSE withReceipt
           acked == IF notified THEN AdvanceTo(withDevice, "recipient_notified")
                                ELSE withDevice
           Keeps(x) == /\ rec.trail \subseteq x.trail
                       /\ x.attested = rec.attested
                       /\ rec.receipt # "none" => x.receipt = rec.receipt
<1>1. \A x \in Record, next \in LifecycleStates :
        Keeps(x) => Keeps(AdvanceTo(x, next)) /\ AdvanceTo(x, next) \in Record
  BY AdvanceKeeps
<1>2. withReceipt \in Record /\ Keeps(withReceipt)
  <2>1. rec.state \in LifecycleStates /\ [rec EXCEPT !.receipt = receipt] \in Record
    BY DEF Record
  <2>2. withReceipt \in Record
    BY <2>1, AdvanceType
  <2>3. Keeps(withReceipt)
    BY <2>1 DEF Advance, Record
  <2> QED BY <2>2, <2>3
<1> HIDE DEF withReceipt
<1>3. withDevice \in Record /\ Keeps(withDevice)
  BY <1>1, <1>2 DEF LifecycleStates
<1> HIDE DEF withDevice
<1>4. acked \in Record /\ Keeps(acked)
  BY <1>1, <1>3 DEF LifecycleStates
<1> HIDE DEF acked
<1>5. Keeps(AdvanceTo(acked, "reconciled"))
  BY <1>1, <1>4 DEF LifecycleStates
<1>6. ReconcileAcks(rec, receipt, device, notified) = acked
  BY DEF ReconcileAcks, withReceipt, withDevice, acked
<1>7. Reconciled(rec, receipt, device, notified)
        \in {acked, AdvanceTo(acked, "reconciled")}
  BY <1>6 DEF Reconciled
<1> QED BY <1>4, <1>5, <1>6, <1>7

(* Reconciling earns nothing: a record has what it must have had before.   *)
LEMMA ReconcileEarned ==
  ASSUME NEW rec \in Record, Earned(rec), NEW receipt \in Receipts,
         NEW device \in BOOLEAN, NEW notified \in BOOLEAN,
         rec.state \in PreSettle \union FailureTerminal \union PostSettle,
         NEW saved \in {ReconcileAcks(rec, receipt, device, notified),
                        Reconciled(rec, receipt, device, notified)}
  PROVE  Earned(saved)
<1>1. /\ rec.trail \subseteq saved.trail
      /\ saved.attested = rec.attested
      /\ rec.receipt # "none" => saved.receipt = rec.receipt
  BY ReconcileKeeps
<1>2. /\ rec.state \notin PostSettle => saved.state = rec.state
      /\ rec.state \in PostSettle => saved.state \in PostSettle
  BY ReconcileKeepsPhase
<1> QED BY <1>1, <1>2 DEF Earned

(* A payment whose proofs pass has earned its reservation, and one that is *)
(* applied its settlement.                                                 *)
LEMMA StageEarned ==
  ASSUME PhaseInv, AllEarned, NEW r \in Requests
  PROVE  /\ At(r, "circuits") => Earned(Reserved(r))
         /\ At(r, "chain") =>
              /\ Earned(Settled(r)) /\ Earned(DeviceApplied(r))
              /\ \A saved \in {ReconcileAcks(DeviceApplied(r), "rail", TRUE, call[r].note),
                               Reconciled(DeviceApplied(r), "rail", TRUE, call[r].note)} :
                   Earned(saved)
<1>1. ASSUME At(r, "circuits") PROVE Earned(Reserved(r))
  <2>1. life[r] # None /\ life[r].state = "user_authorized" /\ life[r] \in Record
    BY <1>1, StageTypes DEF At, PhaseInv, Typed, HasRecord, Phase, InPhase
  <2>2. [life[r] EXCEPT !.attested = TRUE] \in Record
    BY <2>1 DEF Record
  <2>3. MayAdvance("user_authorized", "proof_verified")
          /\ MayAdvance("proof_verified", "rail_reserved")
    BY DEF MayAdvance, Allowed, SuccessTerminal, FailureTerminal
  <2>4. /\ Verified(r) \in Record /\ Verified(r).state = "proof_verified"
        /\ Verified(r).attested /\ "proof_verified" \in Verified(r).trail
    BY <2>1, <2>2, <2>3, StageTypes, StageStates, <1>1
       DEF Verified, Advance, Record, PhaseInv, Typed
  <2>5. /\ Reserved(r).state = "rail_reserved" /\ Reserved(r).attested
        /\ {"proof_verified", "rail_reserved"} \subseteq Reserved(r).trail
    BY <2>3, <2>4 DEF Reserved, Advance, Record
  <2> QED BY <2>5 DEF Earned, PostSettle
<1>2. ASSUME At(r, "chain")
      PROVE  /\ Earned(Settled(r)) /\ Earned(DeviceApplied(r))
             /\ \A saved \in {ReconcileAcks(DeviceApplied(r), "rail", TRUE, call[r].note),
                              Reconciled(DeviceApplied(r), "rail", TRUE, call[r].note)} :
                  Earned(saved)
  <2>1. /\ life[r] # None /\ life[r].state = "rail_reserved" /\ life[r] \in Record
        /\ Settled(r) \in Record /\ DeviceApplied(r) \in Record
        /\ call[r].note \in BOOLEAN
    BY <1>2, StageTypes, CallType
       DEF At, PhaseInv, Typed, HasRecord, Phase, InPhase, Call
  <2>2. MayAdvance("rail_reserved", "settled")
    BY DEF MayAdvance, Allowed, SuccessTerminal, FailureTerminal
  <2>3. /\ Settled(r).attested = life[r].attested
        /\ Settled(r).receipt = "rail"
        /\ life[r].trail \union {"settled"} \subseteq Settled(r).trail
    BY <2>1, <2>2 DEF Settled, Advance, Record
  <2>4. Earned(life[r])
    BY <2>1 DEF AllEarned
  <2>5. Earned(Settled(r))
    BY <2>1, <2>3, <2>4 DEF Earned
  <2>6. /\ Settled(r).trail \subseteq DeviceApplied(r).trail
        /\ DeviceApplied(r).attested = Settled(r).attested
        /\ DeviceApplied(r).receipt = Settled(r).receipt
    BY <2>1, AdvanceKeeps DEF DeviceApplied, LifecycleStates
  <2>7. Settled(r).state = "settled" /\ DeviceApplied(r).state = "device_applied"
    BY <1>2, StageStates
  <2>8. Earned(DeviceApplied(r))
    BY <2>5, <2>6, <2>7 DEF Earned, PostSettle
  <2> QED BY <2>1, <2>5, <2>7, <2>8, ReconcileEarned DEF Receipts, PostSettle
<1> QED BY <1>1, <1>2

(* What one step may make of the record of a payment.                      *)
RecordMoves(r) ==
  \/ life'[r] = life[r]
  \/ life[r] = None
       /\ life'[r] \in {CreatedRecord, AdvanceTo(CreatedRecord, "proof_failed")}
  \/ life'[r].state \in FailureTerminal
       \union {"proof_prepared", "user_authorized", "proof_verified"}
  \/ At(r, "circuits") /\ life'[r] = Reserved(r)
  \/ At(r, "chain")
       /\ life'[r] \in {Settled(r), DeviceApplied(r),
                         ReconcileAcks(DeviceApplied(r), "rail", TRUE, call[r].note),
                         Reconciled(DeviceApplied(r), "rail", TRUE, call[r].note)}
  \/ life[r] # None
       /\ \E receipt \in Receipts, device, notified \in BOOLEAN :
            life'[r] \in {ReconcileAcks(life[r], receipt, device, notified),
                          Reconciled(life[r], receipt, device, notified)}

(* A step of anybody's moves a record in one of these ways.                *)
LEMMA RecordStep ==
  ASSUME PhaseInv, [Next]_vars, NEW r \in Requests
  PROVE  RecordMoves(r)
<1> USE DEF RecordMoves
<1>1. TypeOK /\ HasRecord
  BY DEF PhaseInv, Typed
<1>2. ASSUME NEW s \in Requests, NEW u \in Users, NEW to \in Users,
             NEW i \in Intents, NEW old \in Commitments, NEW nf \in Commitments,
             NEW new \in Commitments, NEW note \in BOOLEAN,
             \/ Confirm(s, u, i, old, nf, new, to, note)
             \/ ConfirmRefused(s, u, i, nf, to)
      PROVE  RecordMoves(r)
  BY <1>1, <1>2 DEF Confirm, ConfirmRefused, TypeOK, HasRecord
<1>3. ASSUME NEW s \in Requests, Answer(s) PROVE RecordMoves(r)
  <2>1. CASE s # r
    BY <1>1, <1>3, <2>1, AnswerFrame
  <2>2. CASE s = r
    <3>1. CASE \/ ProbeFails(r) \/ ScreenFails(r) \/ RiskHolds(r)
               \/ WitnessMalformed(r) \/ ProofFails(r) \/ ChainFails(r)
      <4>1. life'[r].state \in FailureTerminal
        BY <1>1, <3>1, StageStates
           DEF ProbeFails, ScreenFails, RiskHolds, WitnessMalformed, ProofFails,
               ChainFails, Fail, FailureTerminal, TypeOK
      <4> QED BY <4>1
    <3>2. CASE Authorize(r)
      <4>1. life'[r].state = "user_authorized"
        BY <1>1, <3>2, StageStates DEF Authorize, TypeOK
      <4> QED BY <4>1
    <3>3. CASE ProofPasses(r)
      BY <1>1, <3>3 DEF ProofPasses, TypeOK
    <3>4. CASE Apply(r)
      BY <1>1, <3>4 DEF Apply, TypeOK
    <3> QED BY <1>3, <2>2, <3>1, <3>2, <3>3, <3>4 DEF Answer
  <2> QED BY <2>1, <2>2
<1>4. ASSUME NEW s \in Requests, CrashWhileAdvancing(s) PROVE RecordMoves(r)
  <2>1. CASE s # r
    BY <1>1, <1>4, <2>1 DEF CrashWhileAdvancing, TypeOK
  <2>2. CASE s = r
    <3>1. life'[r].state \in {"proof_prepared", "proof_verified"}
      BY <1>1, <1>4, <2>2, StageStates DEF CrashWhileAdvancing, TypeOK
    <3> QED BY <3>1
  <2> QED BY <2>1, <2>2
<1>5. ASSUME NEW s \in Requests, CrashWhileApplying(s) PROVE RecordMoves(r)
  BY <1>1, <1>5 DEF CrashWhileApplying, TypeOK
<1>6. ASSUME NEW s \in Requests, NEW receipt \in {"none", "caller"},
             NEW device \in BOOLEAN, NEW notified \in BOOLEAN,
             \/ Reconcile(s, receipt, device, notified)
             \/ CrashWhileReconciling(s, receipt, device, notified)
      PROVE  RecordMoves(r)
  <2>1. CASE s # r
    BY <1>1, <1>6, <2>1 DEF Reconcile, CrashWhileReconciling, TypeOK
  <2>2. CASE s = r
    <3>1. receipt \in Receipts
      BY DEF Receipts
    <3>2. /\ life[r] # None
          /\ life'[r] \in {ReconcileAcks(life[r], receipt, device, notified),
                           Reconciled(life[r], receipt, device, notified)}
      BY <1>1, <1>6, <2>2 DEF Reconcile, CrashWhileReconciling, TypeOK
    <3> QED BY <3>1, <3>2
  <2> QED BY <2>1, <2>2
<1>7. ASSUME \/ \E s \in Requests, new \in Commitments : ClaimNote(s, new)
             \/ \E u \in Users, old, new \in Commitments : Reseal(u, old, new)
             \/ \E u \in Users, e \in PolicyEdits : PutPolicy(u, e)
             \/ \E u \in Users : Revoke(u)
             \/ Crash
             \/ \E u \in Users, i \in Intents, nf \in Commitments :
                   CrashAfterBurn(u, i, nf)
             \/ UNCHANGED vars
      PROVE  RecordMoves(r)
  <2>1. UNCHANGED life
    BY <1>7 DEF ClaimNote, Reseal, PutPolicy, Revoke, Crash, CrashAfterBurn, vars,
                paymentVars
  <2> QED BY <2>1
<1> HIDE DEF RecordMoves
<1>8. CASE \E s \in Requests, u, to \in Users, i \in Intents,
             old, nf, new \in Commitments, note \in BOOLEAN :
               Confirm(s, u, i, old, nf, new, to, note)
  BY <1>2, <1>8
<1>9. CASE \E s \in Requests, u, to \in Users, i \in Intents,
             nf \in Commitments : ConfirmRefused(s, u, i, nf, to)
  BY <1>2, <1>9
<1>10. CASE \E s \in Requests, receipt \in {"none", "caller"},
              device, notified \in BOOLEAN :
              \/ Reconcile(s, receipt, device, notified)
              \/ CrashWhileReconciling(s, receipt, device, notified)
  BY <1>6, <1>10
<1> QED BY <1>3, <1>4, <1>5, <1>7, <1>8, <1>9, <1>10 DEF Next

(* Every step leaves every record with what its state calls for.           *)
LEMMA NextEarned == PhaseInv /\ AllEarned /\ [Next]_vars => AllEarned'
<1> SUFFICES ASSUME PhaseInv, AllEarned, [Next]_vars, NEW r \in Requests,
                    life'[r] # None
             PROVE  Earned(life'[r])
  BY DEF AllEarned
<1>1. CASE life'[r] = life[r]
  BY <1>1 DEF AllEarned
<1>2. CASE life'[r] \in {CreatedRecord, AdvanceTo(CreatedRecord, "proof_failed")}
  <2>1. life'[r].state \in {"created", "proof_failed"}
    BY <1>2 DEF AdvanceTo, Advance, MayAdvance, Allowed, CreatedRecord,
                SuccessTerminal, FailureTerminal
  <2> QED BY <2>1 DEF Earned, PostSettle
<1>3. CASE life'[r].state \in FailureTerminal
             \union {"proof_prepared", "user_authorized", "proof_verified"}
  BY <1>3 DEF Earned, PostSettle, FailureTerminal
<1>4. CASE At(r, "circuits") /\ life'[r] = Reserved(r)
  BY <1>4, StageEarned
<1>5. CASE At(r, "chain")
             /\ life'[r] \in {Settled(r), DeviceApplied(r),
                               ReconcileAcks(DeviceApplied(r), "rail", TRUE, call[r].note),
                               Reconciled(DeviceApplied(r), "rail", TRUE, call[r].note)}
  BY <1>5, StageEarned
<1>6. CASE life[r] # None
             /\ \E receipt \in Receipts, device, notified \in BOOLEAN :
                  life'[r] \in {ReconcileAcks(life[r], receipt, device, notified),
                                Reconciled(life[r], receipt, device, notified)}
  <2>1. /\ life[r] \in Record /\ Earned(life[r])
        /\ life[r].state \in PreSettle \union FailureTerminal \union PostSettle
    BY <1>6, StageTypes DEF PhaseInv, Typed, Phase, InPhase, AllEarned
  <2> QED BY <1>6, <2>1, ReconcileEarned
<1> QED BY <1>1, <1>2, <1>3, <1>4, <1>5, <1>6, RecordStep DEF RecordMoves

(* A reconciled payment was proved, reserved and settled, and carries the  *)
(* receipt of its rail, whatever the callers of the reconcile endpoint     *)
(* put forward and wherever a restart falls.                               *)
THEOREM ReconciledOnesAreEarned == Spec => []ReconciledIsEarned
<1>1. Init => AllEarned
  BY DEF Init, AllEarned
<1>2. PhaseInv /\ AllEarned /\ [Next]_vars => AllEarned'
  BY NextEarned
<1>3. AllEarned => ReconciledIsEarned
  BY DEF AllEarned, Earned, ReconciledIsEarned, PostSettle
<1> QED BY <1>1, <1>2, <1>3, Phases, PTL DEF Spec

-----------------------------------------------------------------------------
(* The nullifier list.                                                     *)

(* The transfers that spent a commitment.                                  *)
Spending(c) == {r \in Requests : events[r] # None /\ events[r].old = c}

(* They are finitely many.                                                 *)
LEMMA SpendingFinite ==
  ASSUME NEW c
  PROVE  IsFiniteSet(Spending(c)) /\ Cardinality(Spending(c)) \in Nat
<1>1. Spending(c) \in SUBSET Requests
  BY DEF Spending
<1> QED BY <1>1, RequestsFinite, FS_Subset, FS_CardinalityType

(* The nullifier list and the ledger change together, by a transfer that   *)
(* was not there before, or the list alone, by a burn of what is unspent.  *)
LEMMA SpentStep ==
  ASSUME PhaseInv, [Next]_vars
  PROVE  \/ UNCHANGED <<spent, events>>
         \/ \E r \in Requests : At(r, "chain") /\ Transfer(r)
         \/ \E c \in Commitments :
              spent[c] = 0 /\ spent' = [spent EXCEPT ![c] = 1] /\ UNCHANGED events
<1> DEFINE Goal ==
         \/ UNCHANGED <<spent, events>>
         \/ \E r \in Requests : At(r, "chain") /\ Transfer(r)
         \/ \E c \in Commitments :
              spent[c] = 0 /\ spent' = [spent EXCEPT ![c] = 1] /\ UNCHANGED events
<1>1. ASSUME NEW u \in Users, NEW new \in Commitments, Replace(u, new), UNCHANGED events
      PROVE  Goal
  <2>1. commit[u] \in Commitments
    BY DEF PhaseInv, Typed, TypeOK
  <2> QED BY <1>1, <2>1 DEF Replace
<1>2. ASSUME NEW r \in Requests, NEW new \in Commitments, ClaimNote(r, new)
      PROVE  Goal
  <2>1. notes[r].to \in Users
    BY <1>2 DEF ClaimNote, PhaseInv, Typed, TypeOK, Note
  <2> QED BY <1>1, <1>2, <2>1 DEF ClaimNote
<1>3. ASSUME NEW u \in Users, NEW old \in Commitments, NEW new \in Commitments,
             Reseal(u, old, new)
      PROVE  Goal
  BY <1>1, <1>3 DEF Reseal, paymentVars
<1>4. ASSUME NEW r \in Requests, Answer(r) PROVE Goal
  BY <1>4 DEF Answer, ProbeFails, ScreenFails, RiskHolds, WitnessMalformed, Fail,
              Authorize, ProofFails, ProofPasses, ChainFails, Apply, balanceVars
<1>5. ASSUME NEW r \in Requests, CrashWhileAdvancing(r) \/ CrashWhileApplying(r)
      PROVE  Goal
  BY <1>5 DEF CrashWhileAdvancing, CrashWhileApplying, balanceVars
<1>6. ASSUME NEW r \in Requests, NEW u \in Users, NEW to \in Users,
             NEW i \in Intents, NEW old \in Commitments, NEW nf \in Commitments,
             NEW new \in Commitments, NEW note \in BOOLEAN,
             Confirm(r, u, i, old, nf, new, to, note)
      PROVE  Goal
  BY <1>6 DEF Confirm
<1>7. ASSUME \/ \E r \in Requests, u, to \in Users, i \in Intents,
                   nf \in Commitments : ConfirmRefused(r, u, i, nf, to)
             \/ \E u \in Users, e \in PolicyEdits : PutPolicy(u, e)
             \/ \E u \in Users : Revoke(u)
      PROVE  UNCHANGED <<spent, events>>
  BY <1>7 DEF ConfirmRefused, PutPolicy, Revoke, balanceVars, paymentVars
<1>8. ASSUME \/ \E r \in Requests, receipt \in {"none", "caller"},
                   device, notified \in BOOLEAN :
                     \/ Reconcile(r, receipt, device, notified)
                     \/ CrashWhileReconciling(r, receipt, device, notified)
             \/ Crash
             \/ \E u \in Users, i \in Intents, nf \in Commitments :
                   CrashAfterBurn(u, i, nf)
             \/ UNCHANGED vars
      PROVE  UNCHANGED <<spent, events>>
  BY <1>8 DEF Reconcile, CrashWhileReconciling, Crash, CrashAfterBurn, vars,
              balanceVars, paymentVars
<1>9. UNCHANGED <<spent, events>> => Goal
  OBVIOUS
<1>10. Goal
  <2> HIDE DEF Goal
  <2>1. ASSUME \E r \in Requests, u, to \in Users, i \in Intents,
                  old, nf, new \in Commitments, note \in BOOLEAN :
                    Confirm(r, u, i, old, nf, new, to, note)
        PROVE  Goal
    BY <1>6, <2>1
  <2> QED BY <1>2, <1>3, <1>4, <1>5, <1>7, <1>8, <1>9, <2>1 DEF Next
<1> QED BY <1>10

(* Every step keeps the nullifier list explained.                          *)
LEMMA NextAccounted == PhaseInv /\ NullifiersAccounted /\ [Next]_vars => NullifiersAccounted'
<1> SUFFICES ASSUME PhaseInv, NullifiersAccounted, [Next]_vars, NEW c \in Commitments
             PROVE  /\ Cardinality(Spending(c)') <= spent'[c]
                    /\ spent'[c] <= Cardinality(Spending(c)') + 1
  BY DEF NullifiersAccounted, Spending
<1>1. /\ Cardinality(Spending(c)) <= spent[c]
      /\ spent[c] <= Cardinality(Spending(c)) + 1
  BY DEF NullifiersAccounted, Spending
<1>2. /\ spent \in [Commitments -> Nat] /\ Cardinality(Spending(c)) \in Nat
      /\ IsFiniteSet(Spending(c))
  BY SpendingFinite DEF PhaseInv, Typed, TypeOK
<1>3. CASE UNCHANGED <<spent, events>>
  <2>1. Spending(c)' = Spending(c) /\ spent'[c] = spent[c]
    BY <1>3 DEF Spending
  <2> QED BY <1>1, <2>1
<1>4. ASSUME NEW r \in Requests, At(r, "chain"), Transfer(r)
      PROVE  /\ Cardinality(Spending(c)') <= spent'[c]
             /\ spent'[c] <= Cardinality(Spending(c)') + 1
  <2>1. call[r] \in Call /\ events[r] = None
    BY <1>4, CallType DEF At, PhaseInv, Typed, Phase, InPhase, PostSettle
  <2>2. /\ events'[r] # None /\ events'[r].old = call[r].old
        /\ \A s \in Requests \ {r} : events'[s] = events[s]
        /\ spent' = [spent EXCEPT ![call[r].old] = @ + 1]
    <3>1. events'[r] = [user |-> call[r].user, old |-> call[r].old,
                        new |-> call[r].new]
      BY <1>4 DEF Transfer, PhaseInv, Typed, TypeOK
    <3>2. events'[r] \in Event
      BY <2>1, <3>1 DEF Call, Event
    <3> QED BY <1>4, <3>1, <3>2, NoneIsFresh DEF Transfer, PhaseInv, Typed, TypeOK
  <2>3. call[r].old \in Commitments /\ r \notin Spending(c)
    BY <2>1 DEF Call, Spending
  <2>4. CASE c = call[r].old
    <3>1. Spending(c)' = Spending(c) \union {r}
      BY <2>2, <2>4 DEF Spending
    <3>2. Cardinality(Spending(c)') = Cardinality(Spending(c)) + 1
      BY <1>2, <2>3, <3>1, FS_AddElement
    <3>3. spent'[c] = spent[c] + 1
      BY <1>2, <2>2, <2>4
    <3> QED BY <1>1, <1>2, <3>2, <3>3
  <2>5. CASE c # call[r].old
    <3>1. Spending(c)' = Spending(c) /\ spent'[c] = spent[c]
      BY <1>2, <2>1, <2>2, <2>5 DEF Spending
    <3> QED BY <1>1, <3>1
  <2> QED BY <2>4, <2>5
<1>5. ASSUME NEW d \in Commitments, spent[d] = 0, spent' = [spent EXCEPT ![d] = 1],
             UNCHANGED events
      PROVE  /\ Cardinality(Spending(c)') <= spent'[c]
             /\ spent'[c] <= Cardinality(Spending(c)') + 1
  <2>1. Spending(c)' = Spending(c)
    BY <1>5 DEF Spending
  <2>2. CASE c = d
    <3>1. spent[c] = 0 /\ spent'[c] = 1
      BY <1>2, <1>5, <2>2
    <3> QED BY <1>1, <1>2, <2>1, <3>1
  <2>3. CASE c # d
    BY <1>1, <1>2, <1>5, <2>1, <2>3
  <2> QED BY <2>2, <2>3
<1> QED BY <1>3, <1>4, <1>5, SpentStep

(* The books of settlement: every nullifier on the list is explained, and  *)
(* a payment is reconciled only on evidence.                               *)
THEOREM AccountsAreKept == Spec => []AccountsHold
<1>1. Init => NullifiersAccounted
  <2> SUFFICES ASSUME Init, NEW c \in Commitments
               PROVE  /\ Cardinality(Spending(c)) <= spent[c]
                      /\ spent[c] <= Cardinality(Spending(c)) + 1
    BY DEF NullifiersAccounted, Spending
  <2>1. Spending(c) = {} /\ spent[c] = 0
    BY DEF Init, Spending
  <2> QED BY <2>1, FS_EmptySet
<1>2. PhaseInv /\ NullifiersAccounted /\ [Next]_vars => NullifiersAccounted'
  BY NextAccounted
<1>3. NullifiersAccounted /\ ReconciledIsEarned => AccountsHold
  BY DEF AccountsHold
<1> QED BY <1>1, <1>2, <1>3, Phases, ReconciledOnesAreEarned, PTL DEF Spec

-----------------------------------------------------------------------------
(* Session nonces.                                                         *)

(* Every call has burned its nonce, and no two calls have the same one.    *)
Nonces ==
  /\ \A r \in Requests : call[r] # None => call[r].intent \in burned
  /\ \A r, s \in Requests :
       call[r] # None /\ call[s] # None /\ call[r].intent = call[s].intent => r = s

(* A step that opens no call keeps every call's intent, and burned nonces  *)
(* stay burned.                                                            *)
LEMMA IntentsKept ==
  ASSUME Typed, [Next]_vars
  PROVE  \/ /\ burned \subseteq burned'
            /\ \A r \in Requests :
                 /\ call'[r] # None <=> call[r] # None
                 /\ call[r] # None => call'[r].intent = call[r].intent
         \/ \E r \in Requests, i \in Intents :
              /\ call[r] = None /\ i \notin burned
              /\ burned' = burned \union {i}
              /\ call'[r].intent = i
              /\ \A s \in Requests \ {r} : call'[s] = call[s]
<1> DEFINE Kept == /\ burned \subseteq burned'
                   /\ \A r \in Requests :
                        /\ call'[r] # None <=> call[r] # None
                        /\ call[r] # None => call'[r].intent = call[r].intent
<1> USE DEF Typed
<1>1. ASSUME NEW r \in Requests, NEW u \in Users, NEW to \in Users,
             NEW i \in Intents, NEW old \in Commitments, NEW nf \in Commitments,
             NEW new \in Commitments, NEW note \in BOOLEAN,
             \/ Confirm(r, u, i, old, nf, new, to, note)
             \/ ConfirmRefused(r, u, i, nf, to)
      PROVE  /\ call[r] = None /\ i \notin burned
             /\ burned' = burned \union {i}
             /\ call'[r].intent = i
             /\ \A s \in Requests \ {r} : call'[s] = call[s]
  BY <1>1 DEF Confirm, ConfirmRefused, SessionVerified, NewCall, TypeOK
<1>2. ASSUME NEW r \in Requests, Answer(r) PROVE Kept
  <2>1. UNCHANGED burned
    BY <1>2 DEF Answer, ProbeFails, ScreenFails, RiskHolds, WitnessMalformed,
                Authorize, ProofFails, ProofPasses, ChainFails, Apply, Fail
  <2>2. /\ call[r] # None /\ call'[r] # None
        /\ call'[r].intent = call[r].intent
    BY <1>2, AnswerCall, NoneIsFresh
  <2> QED BY <1>2, <2>1, <2>2, AnswerFrame
<1>3. ASSUME Restart, burned \subseteq burned' PROVE Kept
  <2>1. ASSUME NEW r \in Requests, call[r] # None
        PROVE  call'[r].intent = call[r].intent
    BY <1>3, <2>1, CallType DEF Restart, Call
  <2> QED BY <1>3, <2>1, RestartTyped
<1>4. ASSUME \/ Crash
             \/ \E u \in Users, i \in Intents, nf \in Commitments :
                   CrashAfterBurn(u, i, nf)
             \/ \E r \in Requests : CrashWhileAdvancing(r) \/ CrashWhileApplying(r)
             \/ \E r \in Requests, receipt \in {"none", "caller"},
                   device, notified \in BOOLEAN :
                     CrashWhileReconciling(r, receipt, device, notified)
      PROVE  Restart /\ burned \subseteq burned'
  BY <1>4 DEF Crash, CrashAfterBurn, CrashWhileAdvancing, CrashWhileApplying,
              CrashWhileReconciling
<1>5. ASSUME \/ \E r \in Requests, new \in Commitments : ClaimNote(r, new)
             \/ \E u \in Users, old, new \in Commitments : Reseal(u, old, new)
             \/ \E u \in Users, e \in PolicyEdits : PutPolicy(u, e)
             \/ \E u \in Users : Revoke(u)
             \/ \E r \in Requests, receipt \in {"none", "caller"},
                   device, notified \in BOOLEAN :
                     Reconcile(r, receipt, device, notified)
             \/ UNCHANGED vars
      PROVE  UNCHANGED <<call, burned>>
  BY <1>5 DEF ClaimNote, Reseal, PutPolicy, Revoke, Reconcile, vars
<1>6. CASE \E r \in Requests, u, to \in Users, i \in Intents,
              old, nf, new \in Commitments, note \in BOOLEAN :
             Confirm(r, u, i, old, nf, new, to, note)
  BY <1>1, <1>6
<1>7. CASE \E r \in Requests, u, to \in Users, i \in Intents, nf \in Commitments :
             ConfirmRefused(r, u, i, nf, to)
  BY <1>1, <1>7
<1>8. CASE UNCHANGED <<call, burned>>
  BY <1>8
<1> QED BY <1>2, <1>3, <1>4, <1>5, <1>6, <1>7, <1>8 DEF Next

(* Nonces holds of every reachable state.                                  *)
LEMMA NoncesInvariant == Spec => [](Typed /\ Nonces)
<1>1. Init => Typed /\ Nonces
  BY InitType DEF Init, Typed, HasRecord, Nonces
<1>2. Typed /\ Nonces /\ [Next]_vars => (Typed /\ Nonces)'
  BY NextTyped, IntentsKept DEF Nonces
<1> QED BY <1>1, <1>2, PTL DEF Spec

(* A session nonce pays for at most one transfer.                          *)
THEOREM IntentsSettleOnce == Spec => []IntentSettlesOnce
<1>1. PhaseInv /\ Nonces => IntentSettlesOnce
  BY DEF PhaseInv, Typed, HasRecord, Phase, InPhase, Nonces, IntentSettlesOnce
<1> QED BY <1>1, Phases, NoncesInvariant, PTL

-----------------------------------------------------------------------------
(* What a step does to commitments, nullifiers and calls is one of five    *)
(* things, whichever handler takes it.                                     *)

(* Nothing, except that calls move on or end.                              *)
Quiet ==
  /\ UNCHANGED <<commit, policy, spent, owner, events>>
  /\ \A r \in Requests : InFlight(r)' =>
       /\ InFlight(r)
       /\ call'[r].user = call[r].user
       /\ call'[r].old = call[r].old
       /\ call'[r].new = call[r].new
       /\ call'[r].base \in {call[r].base, policy[call[r].user]}

(* A call is opened for the present commitment.                            *)
Opened(r, new) ==
  /\ UNCHANGED <<commit, policy, spent, events>>
  /\ owner[new] = None
  /\ call'[r] \in Call
  /\ owner' = [owner EXCEPT ![new] = call'[r].user]
  /\ call'[r].old = commit[call'[r].user]
  /\ call'[r].new = new
  /\ call'[r].base = policy[call'[r].user]
  /\ \A s \in Requests \ {r} : call'[s] = call[s]

(* The commitment of an account is replaced by one it may use.             *)
Replaced(u, new) ==
  /\ UNCHANGED <<call, policy, events>>
  /\ owner[new] \in {None, u}
  /\ new # commit[u]
  /\ Replace(u, new)

PolicyEdited == UNCHANGED <<call, commit, spent, owner, events>>

(* A transfer is entered, and its call is over.                            *)
Paid(r) ==
  /\ At(r, "chain")
  /\ Transfer(r)
  /\ UNCHANGED owner
  /\ \A s \in Requests : InFlight(s)' => s # r /\ InFlight(s) /\ call'[s] = call[s]

(* Calls a restart has ended are not in flight, and the others are as they *)
(* were.                                                                   *)
LEMMA RestartQuiet ==
  ASSUME Typed, Restart, NEW r \in Requests
  PROVE  ~InFlight(r)'
<1>1. CASE InFlight(r)
  <2>1. call[r] \in Call /\ call'[r] = [call[r] EXCEPT !.at = "lost"]
    BY <1>1, CallType DEF InFlight, Restart, Typed
  <2> QED BY <2>1 DEF InFlight, Waiting, Call
<1>2. CASE ~InFlight(r)
  BY <1>2 DEF Restart, InFlight
<1> QED BY <1>1, <1>2

(* An answer is quiet or pays.                                             *)
LEMMA AnswerKind ==
  ASSUME Typed, NEW r \in Requests, Answer(r)
  PROVE  Quiet \/ Paid(r)
<1>1. /\ call[r] # None /\ call[r] \in Call /\ call'[r] \in Call
      /\ call'[r].user = call[r].user /\ call'[r].old = call[r].old
      /\ call'[r].new = call[r].new
  BY AnswerCall
<1>2. \A s \in Requests \ {r} : call'[s] = call[s]
  BY AnswerFrame DEF Typed
<1>3. InFlight(r)
  BY DEF Answer, ProbeFails, ScreenFails, RiskHolds, WitnessMalformed, Authorize,
         ProofFails, ProofPasses, ChainFails, Apply, At, InFlight, Waiting
<1>4. ASSUME NEW rec, NEW state, Fail(r, rec, state) PROVE Quiet
  <2>1. call'[r].at = "answered"
    BY <1>1, <1>4 DEF Fail, Call, Typed, TypeOK
  <2> QED BY <1>2, <1>4, <2>1 DEF Fail, Quiet, InFlight, Waiting, balanceVars
<1>5. CASE Authorize(r)
  <2>1. call'[r].base = policy[call[r].user]
    BY <1>1, <1>5 DEF Authorize, Typed, TypeOK, Call
  <2> QED BY <1>1, <1>2, <1>3, <1>5, <2>1 DEF Authorize, Quiet, InFlight, balanceVars
<1>6. CASE ProofPasses(r)
  <2>1. call'[r].base = call[r].base
    BY <1>1, <1>6 DEF ProofPasses, Typed, TypeOK, Call
  <2> QED BY <1>1, <1>2, <1>3, <1>6, <2>1 DEF ProofPasses, Quiet, InFlight, balanceVars
<1>7. CASE Apply(r)
  <2>1. call'[r].at = "answered"
    BY <1>1, <1>7 DEF Apply, Call, Typed, TypeOK
  <2> QED BY <1>2, <1>7, <2>1 DEF Apply, Paid, InFlight, Waiting
<1> QED BY <1>4, <1>5, <1>6, <1>7
        DEF Answer, ProbeFails, ScreenFails, RiskHolds, WitnessMalformed,
            ProofFails, ChainFails

(* Every step is of one of the five kinds.                                 *)
LEMMA StepKinds ==
  ASSUME Typed, [Next]_vars, \A u \in Users : owner[commit[u]] = u
  PROVE  \/ Quiet
         \/ \E r \in Requests, new \in Commitments : Opened(r, new)
         \/ \E u \in Users, new \in Commitments : Replaced(u, new)
         \/ PolicyEdited
         \/ \E r \in Requests : Paid(r)
<1>1. ASSUME NEW r \in Requests, NEW u \in Users, NEW to \in Users,
             NEW i \in Intents, NEW old \in Commitments, NEW nf \in Commitments,
             NEW new \in Commitments, NEW note \in BOOLEAN,
             Confirm(r, u, i, old, nf, new, to, note)
      PROVE  Opened(r, new)
  <2>1. call'[r] = NewCall("probe", u, i, old, new, to, note)
    BY <1>1 DEF Confirm, Typed, TypeOK
  <2>2. call'[r] \in Call
    BY <2>1 DEF NewCall, Call, Waiting, Typed, TypeOK
  <2> QED BY <1>1, <2>1, <2>2
          DEF Confirm, BoundToTip, NewCall, Opened, Typed, TypeOK
<1>2. ASSUME NEW r \in Requests, NEW u \in Users, NEW to \in Users,
             NEW i \in Intents, NEW nf \in Commitments,
             ConfirmRefused(r, u, i, nf, to)
      PROVE  Quiet
  <2>1. ~InFlight(r)'
    BY <1>2 DEF ConfirmRefused, NewCall, InFlight, Waiting, Typed, TypeOK
  <2> QED BY <1>2, <2>1 DEF ConfirmRefused, Quiet, InFlight, balanceVars, Typed, TypeOK
<1>3. ASSUME NEW r \in Requests, Answer(r) PROVE Quiet \/ Paid(r)
  BY <1>3, AnswerKind
<1>4. ASSUME NEW r \in Requests, NEW new \in Commitments, ClaimNote(r, new)
      PROVE  \E u \in Users : Replaced(u, new)
  <2>1. notes[r].to \in Users /\ owner[new] = None
    BY <1>4 DEF ClaimNote, Typed, TypeOK, Note
  <2>2. new # commit[notes[r].to]
    BY <2>1, NoneIsFresh
  <2> QED BY <1>4, <2>1, <2>2 DEF ClaimNote, Replaced
<1>5. ASSUME NEW u \in Users, NEW old \in Commitments, NEW new \in Commitments,
             Reseal(u, old, new)
      PROVE  Replaced(u, new)
  BY <1>5 DEF Reseal, Replaced, paymentVars
<1>6. ASSUME NEW u \in Users, NEW e \in PolicyEdits, PutPolicy(u, e)
      PROVE  PolicyEdited
  BY <1>6 DEF PutPolicy, PolicyEdited, balanceVars, paymentVars
<1>7. ASSUME UNCHANGED <<commit, policy, spent, owner, events, call>> PROVE Quiet
  BY <1>7 DEF Quiet, InFlight
<1>8. ASSUME \/ \E u \in Users : Revoke(u)
             \/ \E r \in Requests, receipt \in {"none", "caller"},
                   device, notified \in BOOLEAN :
                     Reconcile(r, receipt, device, notified)
             \/ UNCHANGED vars
      PROVE  UNCHANGED <<commit, policy, spent, owner, events, call>>
  BY <1>8 DEF Revoke, Reconcile, vars, balanceVars, paymentVars
<1>9. ASSUME \/ Crash
             \/ \E u \in Users, i \in Intents, nf \in Commitments :
                   CrashAfterBurn(u, i, nf)
             \/ \E r \in Requests : CrashWhileAdvancing(r)
             \/ \E r \in Requests, receipt \in {"none", "caller"},
                   device, notified \in BOOLEAN :
                     CrashWhileReconciling(r, receipt, device, notified)
      PROVE  Quiet
  <2>1. Restart /\ UNCHANGED <<commit, policy, spent, owner, events>>
    BY <1>9 DEF Crash, CrashAfterBurn, CrashWhileAdvancing, CrashWhileReconciling,
                balanceVars
  <2> QED BY <2>1, RestartQuiet DEF Quiet
<1>10. ASSUME NEW r \in Requests, CrashWhileApplying(r) PROVE Paid(r)
  <2>1. Restart
    BY <1>10 DEF CrashWhileApplying
  <2> QED BY <1>10, <2>1, RestartQuiet DEF CrashWhileApplying, Paid
<1> QED BY <1>1, <1>2, <1>3, <1>4, <1>5, <1>6, <1>7, <1>8, <1>9, <1>10 DEF Next

-----------------------------------------------------------------------------
(* The inductive invariant: every present commitment belongs to its        *)
(* account and is unspent, whatever was burned was in use once, and a call *)
(* in flight still rests on what it read.                                  *)
Chains ==
  /\ \A u \in Users : owner[commit[u]] = u /\ spent[commit[u]] = 0
  /\ \A c \in Commitments : spent[c] # 0 => owner[c] # None
  /\ \A c \in Commitments : spent[c] <= 1
  /\ \A r \in Requests : InFlight(r) =>
       /\ call[r].old = commit[call[r].user]
       /\ call[r].base = policy[call[r].user]
       /\ call[r].new # commit[call[r].user]
       /\ owner[call[r].new] = call[r].user
       /\ spent[call[r].new] = 0

SerialInv == Typed /\ Chains

(* Registration starts the chains.                                        *)
LEMMA ChainsInit == Init => Chains
<1> SUFFICES ASSUME Init PROVE Chains
  OBVIOUS
<1>1. ASSUME NEW u \in Users PROVE owner[commit[u]] = u /\ spent[commit[u]] = 0
  <2>1. Genesis[u] \in Commitments
    BY GenesisInjective
  <2>2. (CHOOSE v \in Users : Genesis[v] = Genesis[u]) = u
    BY GenesisInjective
  <2> QED BY <2>1, <2>2 DEF Init
<1> QED BY <1>1 DEF Init, Chains, InFlight

(* Opening a call on a fresh commitment keeps the chains.                  *)
LEMMA OpenedChains ==
  ASSUME SerialInv, NEW r \in Requests, NEW new \in Commitments, Opened(r, new)
  PROVE  Chains'
<1> USE DEF SerialInv, Typed, TypeOK
<1>1. call'[r].user \in Users
  BY DEF Opened, Call
<1>2. \A u \in Users : commit[u] # new
  BY NoneIsFresh DEF Opened, Chains
<1>3. spent[new] = 0
  BY DEF Opened, Chains
<1>4. owner'[new] = call'[r].user /\ \A c \in Commitments \ {new} : owner'[c] = owner[c]
  BY DEF Opened
<1>5. \A u \in Users : owner'[commit'[u]] = u /\ spent'[commit'[u]] = 0
  BY <1>2, <1>4 DEF Opened, Chains
<1>6. \A c \in Commitments : spent'[c] # 0 => owner'[c] # None
  BY <1>1, <1>4, NoneIsFresh DEF Opened, Chains
<1>7. \A c \in Commitments : spent'[c] <= 1
  BY DEF Opened, Chains
<1>8. ASSUME NEW s \in Requests, InFlight(s)'
      PROVE  /\ call'[s].old = commit'[call'[s].user]
             /\ call'[s].base = policy'[call'[s].user]
             /\ call'[s].new # commit'[call'[s].user]
             /\ owner'[call'[s].new] = call'[s].user
             /\ spent'[call'[s].new] = 0
  <2>1. CASE s = r
    BY <1>1, <1>2, <1>3, <1>4, <2>1 DEF Opened
  <2>2. CASE s # r
    <3>1. InFlight(s) /\ call'[s] = call[s] /\ call[s] \in Call
      BY <1>8, <2>2 DEF Opened, InFlight
    <3>2. call[s].new \in Commitments /\ call[s].user \in Users
      BY <3>1 DEF Call
    <3>3. owner[call[s].new] = call[s].user
      BY <3>1 DEF Chains
    <3>4. call[s].new # new
      BY <3>2, <3>3, NoneIsFresh DEF Opened
    <3> QED BY <1>4, <3>1, <3>2, <3>4 DEF Opened, Chains
  <2> QED BY <2>1, <2>2
<1> QED BY <1>5, <1>6, <1>7, <1>8 DEF Chains

(* Moving an idle account to a fresh commitment keeps the chains, whether  *)
(* by a claim, a reseal or a transfer: "old" is what it moves from.        *)
LEMMA MovedChains ==
  ASSUME SerialInv, NEW u \in Users, NEW new \in Commitments, new # commit[u],
         spent[new] = 0, ~Busy(u)',
         commit' = [commit EXCEPT ![u] = new],
         spent' = [spent EXCEPT ![commit[u]] = 1],
         owner' \in [Commitments -> Users \union {None}], owner'[new] = u,
         \A c \in Commitments \ {new} : owner'[c] = owner[c],
         owner[new] \in {None, u},
         \A v \in Users \ {u} : policy'[v] = policy[v],
         \A s \in Requests : InFlight(s)' => InFlight(s) /\ call'[s] = call[s]
  PROVE  Chains'
<1> USE DEF SerialInv, Typed, TypeOK
<1>1. \A v \in Users \ {u} : commit[v] # new /\ commit[v] # commit[u]
  BY NoneIsFresh DEF Chains
<1>2. \A v \in Users : owner'[commit'[v]] = v /\ spent'[commit'[v]] = 0
  BY <1>1 DEF Chains
<1>3. \A c \in Commitments : spent'[c] # 0 => owner'[c] # None
  BY NoneIsFresh DEF Chains
<1>4. \A c \in Commitments : spent'[c] <= 1
  BY DEF Chains
<1>5. ASSUME NEW s \in Requests, InFlight(s)'
      PROVE  /\ call'[s].old = commit'[call'[s].user]
             /\ call'[s].base = policy'[call'[s].user]
             /\ call'[s].new # commit'[call'[s].user]
             /\ owner'[call'[s].new] = call'[s].user
             /\ spent'[call'[s].new] = 0
  <2>1. InFlight(s) /\ call'[s] = call[s] /\ call[s] \in Call
    BY <1>5 DEF InFlight
  <2>2. call[s].user # u
    BY <1>5, <2>1 DEF Busy
  <2>3. call[s].new \in Commitments /\ call[s].user \in Users \ {u}
    BY <2>1, <2>2 DEF Call
  <2>4. /\ call[s].old = commit[call[s].user] /\ call[s].base = policy[call[s].user]
        /\ call[s].new # commit[call[s].user]
        /\ owner[call[s].new] = call[s].user /\ spent[call[s].new] = 0
    BY <2>1 DEF Chains
  <2>5. call[s].new # new /\ call[s].new # commit[u]
    BY <2>3, <2>4, NoneIsFresh DEF Chains
  <2> QED BY <2>1, <2>3, <2>4, <2>5
<1> QED BY <1>2, <1>3, <1>4, <1>5 DEF Chains

(* The hypotheses of the last lemma, as one step.                          *)
Moved(u, new) ==
  /\ new # commit[u]
  /\ spent[new] = 0
  /\ ~Busy(u)'
  /\ commit' = [commit EXCEPT ![u] = new]
  /\ spent' = [spent EXCEPT ![commit[u]] = 1]
  /\ owner' \in [Commitments -> Users \union {None}]
  /\ owner'[new] = u
  /\ \A c \in Commitments \ {new} : owner'[c] = owner[c]
  /\ owner[new] \in {None, u}
  /\ \A v \in Users \ {u} : policy'[v] = policy[v]
  /\ \A s \in Requests : InFlight(s)' => InFlight(s) /\ call'[s] = call[s]

(* A claim or a reseal of a disciplined wallet is a move ...               *)
LEMMA ReplacedMoves ==
  ASSUME SerialInv, Disciplined, NEW u \in Users, NEW new \in Commitments,
         Replaced(u, new)
  PROVE  Moved(u, new)
<1> USE DEF SerialInv, Typed, TypeOK
<1>1. commit'[u] = new /\ commit'[u] # commit[u]
  BY DEF Replaced, Replace
<1>2. ~Busy(u)'
  BY <1>1 DEF Disciplined
<1>3. ~Busy(u)
  BY <1>2 DEF Busy, InFlight, Replaced
<1>4. owner[new] = None
  <2>1. SUFFICES ASSUME owner[new] # None PROVE FALSE
    OBVIOUS
  <2>2. PICK r \in Requests : At(r, "chain") /\ call[r].new = new
    BY <1>1, <2>1 DEF Disciplined
  <2>3. InFlight(r) /\ owner[new] = call[r].user
    BY <2>2 DEF At, InFlight, Waiting, Chains
  <2>4. call[r].user = u
    BY <2>1, <2>3 DEF Replaced
  <2> QED BY <1>3, <2>3, <2>4 DEF Busy
<1>5. spent[new] = 0 /\ spent[commit[u]] = 0
  BY <1>4 DEF Chains
<1>6. \A s \in Requests : InFlight(s)' => InFlight(s) /\ call'[s] = call[s]
  BY DEF Replaced, InFlight
<1> QED BY <1>1, <1>2, <1>4, <1>5, <1>6 DEF Replaced, Replace, Moved

(* ... and so is a transfer.                                               *)
LEMMA PaidMoves ==
  ASSUME SerialInv, Disciplined, NEW r \in Requests, Paid(r),
         NEW u \in Users, u = call[r].user,
         NEW new \in Commitments, new = call[r].new
  PROVE  Moved(u, new)
<1> USE DEF SerialInv, Typed, TypeOK
<1>1. InFlight(r)
  BY DEF Paid, At, InFlight, Waiting
<1>2. /\ call[r].old = commit[u] /\ new # commit[u]
      /\ owner[new] = u /\ spent[new] = 0 /\ spent[commit[u]] = 0
  BY <1>1 DEF Chains
<1>3. /\ commit' = [commit EXCEPT ![u] = new]
      /\ spent' = [spent EXCEPT ![commit[u]] = 1]
      /\ policy' = [policy EXCEPT ![u] = r]
  BY <1>2 DEF Paid, Transfer
<1>4. ~Busy(u)'
  BY <1>2, <1>3 DEF Disciplined
<1> QED BY <1>2, <1>3, <1>4 DEF Paid, Moved

(* Every step of a disciplined wallet keeps the chains.                    *)
LEMMA NextChains == SerialInv /\ [SerialNext]_vars => SerialInv'
<1> SUFFICES ASSUME SerialInv, [SerialNext]_vars PROVE SerialInv'
  OBVIOUS
<1>1. [Next]_vars /\ Typed
  BY DEF SerialNext, SerialInv
<1>2. Typed'
  BY <1>1, NextTyped
<1>3. CASE UNCHANGED vars
  <2>1. Chains'
    BY <1>3 DEF vars, balanceVars, SerialInv, Chains, InFlight
  <2> QED BY <1>2, <2>1 DEF SerialInv
<1>4. CASE SerialNext
  <2>1. Disciplined
    BY <1>4 DEF SerialNext
  <2>2. ASSUME Quiet PROVE Chains'
    <3>1. \A r \in Requests : InFlight(r)' =>
            /\ InFlight(r) /\ call'[r].user = call[r].user
            /\ call'[r].old = call[r].old /\ call'[r].new = call[r].new
            /\ call'[r].base = policy[call[r].user]
      BY <2>2 DEF Quiet, SerialInv, Chains
    <3>2. UNCHANGED <<commit, policy, spent, owner>>
      BY <2>2 DEF Quiet
    <3>3. \A r \in Requests : InFlight(r)' =>
            /\ call'[r].old = commit'[call'[r].user]
            /\ call'[r].base = policy'[call'[r].user]
            /\ call'[r].new # commit'[call'[r].user]
            /\ owner'[call'[r].new] = call'[r].user
            /\ spent'[call'[r].new] = 0
      BY <3>1, <3>2 DEF SerialInv, Chains
    <3> QED BY <3>2, <3>3 DEF SerialInv, Chains
  <2>3. ASSUME NEW r \in Requests, NEW new \in Commitments, Opened(r, new)
        PROVE  Chains'
    BY <2>3, OpenedChains
  <2>4. ASSUME NEW u \in Users, NEW new \in Commitments, Replaced(u, new)
        PROVE  Chains'
    BY <2>1, <2>4, ReplacedMoves, MovedChains DEF Moved
  <2>5. ASSUME PolicyEdited PROVE Chains'
    <3>1. \A r \in Requests : InFlight(r)' = InFlight(r)
      BY <2>5 DEF PolicyEdited, InFlight
    <3>2. \A r \in Requests : InFlight(r) => policy'[call[r].user] = policy[call[r].user]
      <4>1. SUFFICES ASSUME NEW r \in Requests, InFlight(r),
                            NEW u \in Users, u = call[r].user
                     PROVE  policy'[u] = policy[u]
        BY <1>1, CallType DEF InFlight, Typed, Call
      <4>2. Busy(u)'
        BY <2>5, <3>1, <4>1 DEF PolicyEdited, Busy
      <4> QED BY <2>1, <4>2 DEF Disciplined
    <3>3. UNCHANGED <<call, commit, spent, owner>>
      BY <2>5 DEF PolicyEdited
    <3>4. \A r \in Requests : InFlight(r)' =>
            /\ call'[r].old = commit'[call'[r].user]
            /\ call'[r].base = policy'[call'[r].user]
            /\ call'[r].new # commit'[call'[r].user]
            /\ owner'[call'[r].new] = call'[r].user
            /\ spent'[call'[r].new] = 0
      BY <3>1, <3>2, <3>3 DEF SerialInv, Chains
    <3> QED BY <3>3, <3>4 DEF SerialInv, Chains
  <2>6. ASSUME NEW r \in Requests, Paid(r) PROVE Chains'
    <3>1. PICK u \in Users, new \in Commitments :
            u = call[r].user /\ new = call[r].new
      BY <1>1, <2>6, CallType DEF Paid, At, Typed, Call
    <3>2. Moved(u, new)
      BY <2>1, <2>6, <3>1, PaidMoves
    <3> QED BY <3>2, MovedChains DEF Moved
  <2>7. Chains'
    BY <1>1, <2>2, <2>3, <2>4, <2>5, <2>6, StepKinds DEF SerialInv, Chains
  <2> QED BY <1>2, <2>7 DEF SerialInv
<1> QED BY <1>3, <1>4

(* The chains hold of every reachable state.                               *)
LEMMA SerialInvariant == SerialSpec => []SerialInv
<1>1. Init => SerialInv
  BY InitType, ChainsInit DEF Init, SerialInv, Typed, HasRecord
<1> QED BY <1>1, NextChains, PTL DEF SerialSpec

(* A disciplined wallet can always spend the commitment the server shows.  *)
THEOREM TipsAreUnspent == SerialSpec => []TipUnspent
<1>1. SerialInv => TipUnspent
  BY DEF SerialInv, Chains, TipUnspent
<1> QED BY <1>1, SerialInvariant, PTL

(* With one operation open per account no nullifier is pushed twice.       *)
THEOREM NothingSpentTwice == SerialSpec => []SingleSpend
<1>1. SerialInv => SingleSpend
  BY DEF SerialInv, Chains, SingleSpend
<1> QED BY <1>1, SerialInvariant, PTL

(* The phases of Settlement hold here too.                                 *)
LEMMA SerialPhases == SerialSpec => []PhaseInv
<1>1. Init => PhaseInv
  BY InitType DEF Init, PhaseInv, Typed, HasRecord, Phase, InPhase
<1>2. PhaseInv /\ [SerialNext]_vars => PhaseInv'
  BY NextTyped, NextPhase DEF PhaseInv, SerialNext
<1> QED BY <1>1, <1>2, PTL DEF SerialSpec

(* A transfer replaces exactly what its circuits were run on.              *)
THEOREM WitnessesApply == SerialSpec => AppliesToItsWitness
<1>1. SerialInv /\ [SerialNext]_vars
        => [\A r \in Requests :
              events'[r] # events[r] =>
                /\ call[r].old = commit[call[r].user]
                /\ call[r].base = policy[call[r].user]]_vars
  <2> SUFFICES ASSUME SerialInv, [SerialNext]_vars, NEW r \in Requests,
                      events'[r] # events[r]
               PROVE  /\ call[r].old = commit[call[r].user]
                      /\ call[r].base = policy[call[r].user]
    OBVIOUS
  <2>1. PICK s \in Requests : Paid(s)
    BY StepKinds DEF SerialInv, Chains, SerialNext, Quiet, Opened, Replaced,
                     PolicyEdited
  <2>2. s = r
    BY <2>1 DEF Paid, Transfer, SerialInv, Typed, TypeOK
  <2>3. InFlight(r)
    BY <2>1, <2>2 DEF Paid, At, InFlight, Waiting
  <2> QED BY <2>3 DEF SerialInv, Chains
<1> QED BY <1>1, SerialInvariant, PTL DEF SerialSpec, AppliesToItsWitness

-----------------------------------------------------------------------------
(* Refinement.                                                             *)

(* A move of an account is a move of the abstract ledger.                  *)
LEMMA MovesAbstractly ==
  ASSUME SerialInv, NEW u \in Users, NEW new \in Commitments, Moved(u, new)
  PROVE  Ledger!Move(u, new)
<1> USE DEF SerialInv, Typed, TypeOK
<1>1. new \notin {c \in Commitments : spent[c] > 0}
  BY DEF Moved
<1>2. \A v \in Users : commit[v] # new
  BY NoneIsFresh DEF Moved, Chains
<1>3. commit[u] \in Commitments /\ commit' = [commit EXCEPT ![u] = new]
  BY DEF Moved
<1>4. {c \in Commitments : spent'[c] > 0}
        = {c \in Commitments : spent[c] > 0} \union {commit[u]}
  BY <1>3 DEF Moved
<1> QED BY <1>1, <1>2, <1>3, <1>4 DEF Ledger!Move

(* One operation at a time per account implements the ledger of commitment *)
(* chains: no commitment is spent twice, abandoned unspent or taken up     *)
(* again, and no transfer is entered twice, across restarts too.           *)
THEOREM LedgerImplemented == SerialSpec => ImplementsLedger
<1>1. Init => Ledger!Init
  BY DEF Init, Ledger!Init
<1>2. SerialInv /\ PhaseInv /\ [SerialNext]_vars => [Ledger!Next]_(Ledger!vars)
  <2> SUFFICES ASSUME SerialInv, PhaseInv, [SerialNext]_vars
               PROVE  [Ledger!Next]_(Ledger!vars)
    OBVIOUS
  <2>1. ASSUME UNCHANGED <<commit, spent, events>> PROVE UNCHANGED Ledger!vars
    BY <2>1 DEF Ledger!vars
  <2>2. CASE UNCHANGED vars
    BY <2>1, <2>2 DEF vars, balanceVars, paymentVars
  <2>3. CASE SerialNext
    <3>1. Disciplined /\ [Next]_vars
      BY <2>3 DEF SerialNext
    <3>2. ASSUME \/ Quiet \/ PolicyEdited
                 \/ \E r \in Requests, new \in Commitments : Opened(r, new)
          PROVE  UNCHANGED <<commit, spent, events>>
      BY <3>2 DEF Quiet, PolicyEdited, Opened
    <3>3. ASSUME NEW u \in Users, NEW new \in Commitments, Replaced(u, new)
          PROVE  Ledger!Next
      <4>1. Ledger!Move(u, new)
        BY <3>1, <3>3, ReplacedMoves, MovesAbstractly
      <4>2. UNCHANGED {r \in Requests : events[r] # None}
        BY <3>3 DEF Replaced
      <4> QED BY <4>1, <4>2 DEF Ledger!Next, Ledger!Renew
    <3>4. ASSUME NEW r \in Requests, Paid(r) PROVE Ledger!Next
      <4>1. call[r] \in Call /\ InFlight(r)
        BY <3>4, CallType DEF Paid, At, InFlight, Waiting, SerialInv, Typed
      <4>2. PICK u \in Users, new \in Commitments :
              u = call[r].user /\ new = call[r].new
        BY <4>1 DEF Call
      <4>3. Ledger!Move(u, new)
        BY <3>1, <3>4, <4>2, PaidMoves, MovesAbstractly
      <4>4. events[r] = None
        BY <4>1 DEF PhaseInv, Phase, InPhase, InFlight, Waiting, PostSettle
      <4>5. events' = [events EXCEPT ![r] = [user |-> call[r].user,
                         old |-> call[r].old, new |-> call[r].new]]
        BY <3>4 DEF Paid, Transfer
      <4>6. events'[r] # None /\ \A s \in Requests \ {r} : events'[s] = events[s]
        BY <4>1, <4>5, NoneIsFresh DEF SerialInv, Typed, TypeOK, Event, Call
      <4>7. {s \in Requests : events'[s] # None}
              = {s \in Requests : events[s] # None} \union {r}
        BY <4>6
      <4>8. Ledger!Pay(u, new, r)
        BY <4>3, <4>4, <4>7 DEF Ledger!Pay
      <4> QED BY <4>8 DEF Ledger!Next
    <3> QED BY <2>1, <3>1, <3>2, <3>3, <3>4, StepKinds DEF SerialInv, Chains
  <2> QED BY <2>2, <2>3
<1> QED BY <1>1, <1>2, SerialInvariant, SerialPhases, PTL
        DEF SerialSpec, ImplementsLedger, Ledger!Spec

-----------------------------------------------------------------------------
(* The limit of the risk engine.  It counts the payments of an account     *)
(* while a call is at its probe; the count stays below the limit until     *)
(* that call settles, since no other call of the account is open.          *)

(* The payments of an account that are on the ledger.                      *)
Entered(u) == {r \in Requests : /\ call[r] # None /\ call[r].user = u
                                /\ events[r] # None}

Admitted(r) == At(r, "circuits") \/ At(r, "chain")

Capped ==
  /\ \A u \in Users : Cardinality(Entered(u)) <= MaxSettles
  /\ \A r \in Requests, u \in Users : Admitted(r) /\ call[r].user = u =>
       Cardinality(Entered(u)) < MaxSettles

CappedInv == PhaseInv /\ OneCallPerAccount /\ Capped

(* What the engine counts is what is on the ledger, a finite set.          *)
LEMMA EnteredCounted ==
  ASSUME PhaseInv, NEW u
  PROVE  /\ PaymentsOf(u, PostSettle) = Entered(u)
         /\ IsFiniteSet(Entered(u)) /\ Cardinality(Entered(u)) \in Nat
<1>1. \A r \in Requests : call[r] # None =>
        (events[r] # None <=> life[r] # None /\ life[r].state \in PostSettle)
  BY DEF PhaseInv, Phase, InPhase
<1>2. PaymentsOf(u, PostSettle) = Entered(u)
  BY <1>1 DEF PaymentsOf, Entered
<1>3. Entered(u) \in SUBSET Requests
  BY DEF Entered
<1> QED BY <1>2, <1>3, RequestsFinite, FS_Subset, FS_CardinalityType

(* A call keeps its account, and gets past its probe only when the engine  *)
(* has not reached its limit.                                              *)
CallMoves(r) ==
  /\ call[r] # None => call'[r] # None /\ call'[r].user = call[r].user
  /\ Admitted(r)' => \/ Admitted(r)
                     \/ call[r] # None /\ ~RiskLimited(call[r].user)
  /\ call[r] = None => events'[r] = events[r]

(* Opening, refusing or answering a call moves it so.                      *)
LEMMA HandlerMoves ==
  ASSUME PhaseInv, NEW s \in Requests, NEW r \in Requests,
         \/ \E u, to \in Users, i \in Intents, old, nf, new \in Commitments,
              note \in BOOLEAN : Confirm(s, u, i, old, nf, new, to, note)
         \/ \E u, to \in Users, i \in Intents, nf \in Commitments :
              ConfirmRefused(s, u, i, nf, to)
         \/ Answer(s)
  PROVE  CallMoves(r)
<1>1. TypeOK /\ Typed
  BY DEF PhaseInv, Typed
<1>2. ASSUME NEW u \in Users, NEW to \in Users, NEW i \in Intents,
             NEW old \in Commitments, NEW nf \in Commitments,
             NEW new \in Commitments, NEW note \in BOOLEAN,
             \/ Confirm(s, u, i, old, nf, new, to, note)
             \/ ConfirmRefused(s, u, i, nf, to)
      PROVE  CallMoves(r)
  <2>1. UNCHANGED events /\ call[s] = None
        /\ \A t \in Requests \ {s} : call'[t] = call[t]
    BY <1>1, <1>2 DEF Confirm, ConfirmRefused, TypeOK
  <2>2. call'[s].at \in {"probe", "answered"}
    BY <1>1, <1>2 DEF Confirm, ConfirmRefused, NewCall, TypeOK
  <2> QED BY <2>1, <2>2 DEF CallMoves, Admitted, At
<1>3. CASE Answer(s)
  <2>1. CASE s # r
    BY <1>1, <1>3, <2>1, AnswerFrame DEF CallMoves, Admitted, At
  <2>2. CASE s = r
    <3>1. /\ call[r] # None /\ call[r] \in Call /\ call'[r] \in Call
          /\ call'[r].user = call[r].user
      BY <1>1, <1>3, <2>2, AnswerCall
    <3>2. Admitted(r) \/ ~RiskLimited(call[r].user) \/ ~Admitted(r)'
      <4>1. ASSUME NEW rec, NEW state, Fail(r, rec, state) PROVE ~Admitted(r)'
        <5>1. call'[r] = [call[r] EXCEPT !.at = "answered"]
          BY <1>1, <4>1 DEF Fail, TypeOK
        <5>2. call'[r].at = "answered"
          BY <3>1, <5>1 DEF Call
        <5> QED BY <5>2 DEF Admitted, At
      <4>2. CASE Authorize(r)
        BY <4>2 DEF Authorize
      <4>3. CASE ProofPasses(r) \/ Apply(r)
        BY <4>3 DEF ProofPasses, Apply, Admitted
      <4> QED BY <1>3, <2>2, <4>1, <4>2, <4>3
              DEF Answer, ProbeFails, ScreenFails, RiskHolds, WitnessMalformed,
                  ProofFails, ChainFails
    <3> QED BY <3>1, <3>2, NoneIsFresh DEF CallMoves
  <2> QED BY <2>1, <2>2
<1>4. CASE \E u, to \in Users, i \in Intents, old, nf, new \in Commitments,
              note \in BOOLEAN : Confirm(s, u, i, old, nf, new, to, note)
  BY <1>2, <1>4
<1>5. CASE \E u, to \in Users, i \in Intents, nf \in Commitments :
              ConfirmRefused(s, u, i, nf, to)
  <2>1. PICK u \in Users, to \in Users, i \in Intents, nf \in Commitments :
          ConfirmRefused(s, u, i, nf, to)
    BY <1>5
  <2>2. nf \in Commitments /\ FALSE \in BOOLEAN
    OBVIOUS
  <2> QED BY <1>2, <2>1, <2>2
<1> QED BY <1>3, <1>4, <1>5

(* So does a restart ...                                                   *)
LEMMA RestartMoves ==
  ASSUME PhaseInv, Restart, NEW r \in Requests,
         call[r] = None => events'[r] = events[r]
  PROVE  CallMoves(r)
<1>1. ~InFlight(r)'
  BY RestartQuiet DEF PhaseInv
<1>2. ~Admitted(r)'
  BY <1>1 DEF Admitted, At, InFlight, Waiting
<1>3. CASE InFlight(r)
  <2>1. call[r] \in Call /\ call'[r] = [call[r] EXCEPT !.at = "lost"]
    BY <1>3, CallType DEF InFlight, Restart, PhaseInv, Typed
  <2>2. call'[r] \in Call /\ call'[r].user = call[r].user
    BY <2>1 DEF Call
  <2> QED BY <1>2, <2>2, NoneIsFresh DEF CallMoves
<1>4. CASE ~InFlight(r)
  BY <1>2, <1>4 DEF Restart, CallMoves
<1> QED BY <1>3, <1>4

(* ... and every other step.                                               *)
LEMMA NextMoves ==
  ASSUME PhaseInv, [Next]_vars, NEW r \in Requests
  PROVE  CallMoves(r)
<1>1. CASE \/ \E s \in Requests, u, to \in Users, i \in Intents,
                 old, nf, new \in Commitments, note \in BOOLEAN :
                   Confirm(s, u, i, old, nf, new, to, note)
           \/ \E s \in Requests, u, to \in Users, i \in Intents,
                 nf \in Commitments : ConfirmRefused(s, u, i, nf, to)
           \/ \E s \in Requests : Answer(s)
  BY <1>1, HandlerMoves
<1>2. CASE \/ Crash
           \/ \E u \in Users, i \in Intents, nf \in Commitments :
                 CrashAfterBurn(u, i, nf)
           \/ \E s \in Requests : CrashWhileAdvancing(s) \/ CrashWhileApplying(s)
           \/ \E s \in Requests, receipt \in {"none", "caller"},
                 device, notified \in BOOLEAN :
                   CrashWhileReconciling(s, receipt, device, notified)
  <2>1. Restart
    BY <1>2 DEF Crash, CrashAfterBurn, CrashWhileAdvancing, CrashWhileReconciling,
                CrashWhileApplying
  <2>2. call[r] = None => events'[r] = events[r]
    BY <1>2 DEF Crash, CrashAfterBurn, CrashWhileAdvancing, CrashWhileReconciling,
                CrashWhileApplying, Transfer, At, PhaseInv, Typed, TypeOK
  <2> QED BY <2>1, <2>2, RestartMoves
<1>3. CASE \/ \E s \in Requests, new \in Commitments : ClaimNote(s, new)
           \/ \E u \in Users, old, new \in Commitments : Reseal(u, old, new)
           \/ \E u \in Users, e \in PolicyEdits : PutPolicy(u, e)
           \/ \E u \in Users : Revoke(u)
           \/ \E s \in Requests, receipt \in {"none", "caller"},
                 device, notified \in BOOLEAN :
                   Reconcile(s, receipt, device, notified)
           \/ UNCHANGED vars
  <2>1. UNCHANGED <<call, events>>
    BY <1>3 DEF ClaimNote, Reseal, PutPolicy, Revoke, Reconcile, vars, paymentVars
  <2> QED BY <2>1 DEF CallMoves, Admitted, At
<1> QED BY <1>1, <1>2, <1>3 DEF Next

(* A step that enters no transfer keeps the count of every account.        *)
LEMMA EnteredSame ==
  ASSUME PhaseInv, \A r \in Requests : CallMoves(r), UNCHANGED events, NEW u
  PROVE  Entered(u)' = Entered(u)
<1>1. \A r \in Requests : events[r] # None => call[r] # None
  BY DEF PhaseInv, Typed, HasRecord, Phase, InPhase
<1> QED BY <1>1 DEF Entered, CallMoves

(* A transfer adds its own payment, to the count of its account alone.     *)
LEMMA EnteredMore ==
  ASSUME PhaseInv, \A s \in Requests : CallMoves(s), NEW r \in Requests, Paid(r), NEW u
  PROVE  /\ call[r].user = u =>
              Cardinality(Entered(u)') = Cardinality(Entered(u)) + 1
         /\ call[r].user # u => Entered(u)' = Entered(u)
<1>1. \A s \in Requests : events[s] # None => call[s] # None
  BY DEF PhaseInv, Typed, HasRecord, Phase, InPhase
<1>2. call[r] # None /\ call[r] \in Call /\ events[r] = None
  BY CallType DEF Paid, At, PhaseInv, Typed, Phase, InPhase, PostSettle
<1>3. events'[r] # None /\ \A s \in Requests \ {r} : events'[s] = events[s]
  <2>1. events'[r] = [user |-> call[r].user, old |-> call[r].old, new |-> call[r].new]
    BY DEF Paid, Transfer, PhaseInv, Typed, TypeOK
  <2>2. events'[r] \in Event
    BY <1>2, <2>1 DEF Call, Event
  <2> QED BY <2>2, NoneIsFresh DEF Paid, Transfer, PhaseInv, Typed, TypeOK
<1>4. ASSUME call[r].user = u
      PROVE  Cardinality(Entered(u)') = Cardinality(Entered(u)) + 1
  <2>1. Entered(u)' = Entered(u) \union {r} /\ r \notin Entered(u)
    BY <1>1, <1>2, <1>3, <1>4 DEF Entered, CallMoves
  <2> QED BY <2>1, EnteredCounted, FS_AddElement
<1>5. ASSUME call[r].user # u PROVE Entered(u)' = Entered(u)
  BY <1>1, <1>2, <1>3, <1>5 DEF Entered, CallMoves
<1> QED BY <1>4, <1>5

(* Every step of a disciplined wallet stays within the limit.              *)
LEMMA NextCapped ==
  SerialInv /\ CappedInv /\ [SerialNext]_vars => CappedInv'
<1> SUFFICES ASSUME SerialInv, CappedInv, [SerialNext]_vars PROVE CappedInv'
  OBVIOUS
<1> USE LimitType
<1>1. [Next]_vars /\ PhaseInv
  BY DEF SerialNext, CappedInv
<1>2. PhaseInv'
  BY <1>1, NextTyped, NextPhase DEF PhaseInv
<1>3. OneCallPerAccount'
  <2>1. CASE UNCHANGED vars
    BY <2>1 DEF vars, CappedInv, OneCallPerAccount, InFlight
  <2> QED BY <2>1 DEF SerialNext, Disciplined
<1>4. \A r \in Requests : CallMoves(r)
  BY <1>1, NextMoves
<1>5. ASSUME NEW r \in Requests, NEW u \in Users, Admitted(r)', call'[r].user = u
      PROVE  /\ call[r] # None /\ call[r].user = u
             /\ Cardinality(Entered(u)) < MaxSettles
  <2>1. CASE Admitted(r)
    BY <1>4, <1>5, <2>1 DEF CallMoves, CappedInv, Capped, Admitted, At
  <2>2. CASE call[r] # None /\ ~RiskLimited(call[r].user)
    <3>1. call[r].user = u
      BY <1>4, <1>5, <2>2 DEF CallMoves
    <3>2. PaymentsOf(u, PostSettle) = Entered(u) /\ Cardinality(Entered(u)) \in Nat
      BY <1>1, EnteredCounted
    <3> QED BY <2>2, <3>1, <3>2 DEF RiskLimited
  <2> QED BY <1>4, <1>5, <2>1, <2>2 DEF CallMoves
<1>6. CASE UNCHANGED events
  <2>1. \A u \in Users : Entered(u)' = Entered(u)
    BY <1>1, <1>4, <1>6, EnteredSame
  <2>2. \A u \in Users : Cardinality(Entered(u)') <= MaxSettles
    BY <2>1 DEF Capped, CappedInv
  <2>3. ASSUME NEW r \in Requests, NEW u \in Users, Admitted(r)', call'[r].user = u
        PROVE  Cardinality(Entered(u)') < MaxSettles
    BY <1>5, <2>1, <2>3
  <2> QED BY <1>2, <1>3, <2>2, <2>3 DEF CappedInv, Capped
<1>7. ASSUME NEW r \in Requests, Paid(r) PROVE Capped'
  <2>1. At(r, "chain") /\ call[r] # None /\ call[r].user \in Users
    BY <1>1, <1>7, CallType DEF Paid, At, PhaseInv, Typed, Call
  <2>2. ASSUME NEW u \in Users PROVE Cardinality(Entered(u)') <= MaxSettles
    <3>1. Cardinality(Entered(u)) \in Nat /\ Cardinality(Entered(u)) <= MaxSettles
      BY <1>1, EnteredCounted DEF CappedInv, Capped
    <3>2. CASE call[r].user = u
      <4>1. Cardinality(Entered(u)) < MaxSettles
        BY <2>1, <3>2 DEF Admitted, CappedInv, Capped
      <4>2. Cardinality(Entered(u)') = Cardinality(Entered(u)) + 1
        BY <1>1, <1>4, <1>7, <3>2, EnteredMore
      <4> QED BY <3>1, <4>1, <4>2
    <3>3. CASE call[r].user # u
      <4>1. Entered(u)' = Entered(u)
        BY <1>1, <1>4, <1>7, <3>3, EnteredMore
      <4> QED BY <3>1, <4>1
    <3> QED BY <3>2, <3>3
  <2>3. ASSUME NEW s \in Requests, NEW u \in Users, Admitted(s)', call'[s].user = u
        PROVE  Cardinality(Entered(u)') < MaxSettles
    <3>1. InFlight(s) /\ s # r /\ InFlight(r)
      BY <1>7, <2>3 DEF Paid, Admitted, At, InFlight, Waiting
    <3>2. call[s].user = u /\ Cardinality(Entered(u)) < MaxSettles
      BY <1>5, <2>3
    <3>3. call[r].user # u
      BY <3>1, <3>2 DEF CappedInv, OneCallPerAccount
    <3>4. Entered(u)' = Entered(u)
      BY <1>1, <1>4, <1>7, <3>3, EnteredMore
    <3> QED BY <3>2, <3>4
  <2> QED BY <2>2, <2>3 DEF Capped
<1>8. UNCHANGED events \/ \E r \in Requests : Paid(r)
  <2>1. \A u \in Users : owner[commit[u]] = u
    BY DEF SerialInv, Chains
  <2> QED BY <1>1, <2>1, StepKinds
          DEF SerialInv, Quiet, Opened, Replaced, PolicyEdited
<1> QED BY <1>2, <1>3, <1>6, <1>7, <1>8 DEF CappedInv

(* No account settles more payments within the hour than the risk engine   *)
(* allows, as long as it has one operation open at a time: what the engine *)
(* counted at its check is still the count when the payment settles.       *)
THEOREM VelocityIsCapped == SerialSpec => []VelocityCap
<1>1. Init => CappedInv
  <2> SUFFICES ASSUME Init PROVE CappedInv
    OBVIOUS
  <2>1. \A u : Entered(u) = {}
    BY DEF Init, Entered
  <2>2. OneCallPerAccount /\ \A r \in Requests : ~Admitted(r)
    BY DEF Init, OneCallPerAccount, InFlight, Admitted, At
  <2>3. PhaseInv
    BY InitType DEF Init, PhaseInv, Typed, HasRecord, Phase, InPhase
  <2> QED BY <2>1, <2>2, <2>3, FS_EmptySet, LimitType DEF CappedInv, Capped
<1>2. CappedInv => VelocityCap
  BY EnteredCounted DEF CappedInv, Capped, VelocityCap
<1> QED BY <1>1, <1>2, NextCapped, SerialInvariant, PTL DEF SerialSpec

-----------------------------------------------------------------------------
(* Beside the credit pool.                                                 *)

(* Whichever ledger runs, the accounts behave as they do alone.            *)
LEMMA AccountRuns == LedgersSpec => SerialSpec
<1>1. LedgersInit => Init
  BY DEF LedgersInit
<1>2. [LedgersNext]_allVars => [SerialNext]_vars
  BY DEF LedgersNext, allVars
<1> QED BY <1>1, <1>2, PTL DEF LedgersSpec, SerialSpec

(* And so does the pool.                                                   *)
LEMMA PoolRuns == LedgersSpec => Pool!Spec
<1>1. LedgersInit => Pool!Init
  BY DEF LedgersInit
<1>2. [LedgersNext]_allVars => [Pool!Next]_(Pool!vars)
  BY DEF LedgersNext, allVars, poolVars, Pool!vars, Pool!accountVars, Pool!poolVars,
     Pool!loanVars, Pool!overlaps
<1> QED BY <1>1, <1>2, PTL DEF LedgersSpec, Pool!Spec

(* The pool's books are exact but for what overlapping calls overwrite, and*)
(* bounded even then; up to such overlaps what a handler checked before its*)
(* circuit still holds after it: the pool lends no more than it was given  *)
(* and burns no commitment in use (server/credit).                         *)
THEOREM PoolKeeps == ASSUME PoolConstants PROVE LedgersSpec => []PoolHolds
<1>1. Pool!Constants /\ Pool!FiniteBooks
  BY DEF PoolConstants, Pool!Constants
<1>2. Pool!Spec => [](Pool!TypeOK /\ Pool!Sound)
  BY <1>1, Pool!PoolTyping
<1>3. Pool!Spec => []Pool!BooksHold
  BY <1>1, Pool!BooksAreKept
<1>4. Pool!Spec => []Pool!ChecksHold
  BY <1>1, Pool!ChecksStillHold
<1>5. Pool!TypeOK /\ Pool!BooksHold /\ Pool!ChecksHold => PoolHolds
  BY DEF PoolHolds
<1> QED BY <1>2, <1>3, <1>4, <1>5, PoolRuns, PTL

(* A loan that was repaid or liquidated never owes again nor ends another  *)
(* way, unless one of its repayments was overlapped by another one or by   *)
(* the liquidation (repayLoan, liquidateIfDue).                            *)
THEOREM LoansStayOver == ASSUME PoolConstants PROVE LedgersSpec => LoanEndsOnce
<1>1. Pool!Constants
  BY DEF PoolConstants, Pool!Constants
<1>2. Pool!Spec => Pool!LoanEndsOnce
  BY <1>1, Pool!LoansEndOnce
<1> QED BY <1>2, PoolRuns, PTL DEF LoanEndsOnce
=============================================================================
