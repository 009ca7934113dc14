----------------------------- MODULE Settlement -----------------------------
(***************************************************************************)
(* Peer-to-peer settlement on the server: handleSettle (index.ts),         *)
(* settlePublicPayment and claimNote (payments.ts), the reseal, policy and *)
(* KYC-revocation endpoints and the public reconcile endpoint, all on one  *)
(* in-memory store.                                                        *)
(*                                                                         *)
(* The server is a single Node process: a handler runs without             *)
(* interruption up to its next await on real I/O, so there is one action   *)
(* per stretch between two such awaits.  settlePublicPayment has three:    *)
(* the proof-server probe, the circuits and SNARKs, and the on-chain       *)
(* submission (with the dynamic import after it).  What a stretch read     *)
(* before an await may have been changed by another handler after it.      *)
(*                                                                         *)
(* The store is saved whole to SQLite before every await and before every  *)
(* answer, so at rest memory and disk agree and a restart finds the        *)
(* variables below as they are; the stretches that save more than once     *)
(* have a Crash action for the states in between.                          *)
(*                                                                         *)
(* A balance commitment is an opaque token; its nullifier, the hash        *)
(* sha256("balnf:" + commitment), is identified with it.  A policy         *)
(* commitment is named by whoever published it.                            *)
(***************************************************************************)
EXTENDS PaymentLifecycle, Naturals, FiniteSets

CONSTANTS
  Users,         \* registered accounts
  Requests,      \* calls of POST /confirm or /api/settle, and their payments
  Intents,       \* intent commitments; the first 48 characters are the session nonce
  Commitments,   \* balance commitments
  Genesis,       \* the commitment each account registered with
  PolicyEdits,   \* calls of PUT /policy
  MaxSettles,    \* LIMITS.maxSettlesPerHour: everything happens within one hour
  MaxFailed,     \* LIMITS.maxFailedProofsPerHour
  MaxCrashes,    \* bound: server restarts
  MaxReconciles, \* bound: calls of the public reconcile endpoint
  Registered,    \* publisher of the policy commitment an account registered with
  None           \* no record, note, event or call

(* Openings are random, so no two accounts register the same commitment.   *)
ASSUME GenesisInjective ==
  /\ Genesis \in [Users -> Commitments]
  /\ \A u, v \in Users : Genesis[u] = Genesis[v] => u = v

ASSUME RequestsFinite == IsFiniteSet(Requests)
ASSUME LimitType == MaxSettles \in Nat

VARIABLES
  commit,    \* user.balanceCommitment
  policy,    \* user.policyCommitment
  spent,     \* store.spentNullifiers: how often each nullifier was pushed
  burned,    \* store.spentChallenges: the session nonces used up
  revoked,   \* accounts whose KYC leaf or nullifier is revoked
  life,      \* store.paymentLifecycle
  notes,     \* store.notes, by the payment that created the note
  events,    \* the valid_transfer events of store.events, by payment
  call,      \* the handlers in progress and their local variables
  owner,     \* history: the wallet that generated a commitment
  crashes,   \* bound counter
  reconciles \* bound counter

balanceVars == <<commit, spent, owner>>
paymentVars == <<life, notes, events>>
boundVars == <<crashes, reconciles>>
vars == <<balanceVars, policy, burned, revoked, paymentVars, call, boundVars>>

Publishers == {Registered} \union Requests \union PolicyEdits
Event == [user : Users, old : Commitments, new : Commitments]
Note == [to : Users, claimed : BOOLEAN]

(* The await a call is waiting at; "lost": the process stopped under it.   *)
Waiting == {"probe", "circuits", "chain"}
Call ==
  [at : Waiting \union {"answered", "lost"}, user : Users, intent : Intents,
   old : Commitments, new : Commitments, to : Users, note : BOOLEAN,
   base : Publishers]

ASSUME NoneIsFresh ==
  None \notin Users \union Record \union Note \union Event \union Call

TypeOK ==
  /\ commit \in [Users -> Commitments]
  /\ policy \in [Users -> Publishers]
  /\ spent \in [Commitments -> Nat]
  /\ burned \subseteq Intents
  /\ revoked \subseteq Users
  /\ life \in [Requests -> Record \union {None}]
  /\ notes \in [Requests -> Note \union {None}]
  /\ events \in [Requests -> Event \union {None}]
  /\ call \in [Requests -> Call \union {None}]
  /\ owner \in [Commitments -> Users \union {None}]
  /\ crashes \in Nat
  /\ reconciles \in Nat

Init ==
  /\ commit = Genesis
  /\ policy = [u \in Users |-> Registered]
  /\ spent = [c \in Commitments |-> 0]
  /\ burned = {}
  /\ revoked = {}
  /\ life = [r \in Requests |-> None]
  /\ notes = [r \in Requests |-> None]
  /\ events = [r \in Requests |-> None]
  /\ call = [r \in Requests |-> None]
  /\ owner = [c \in Commitments |->
                IF \E u \in Users : Genesis[u] = c
                THEN CHOOSE u \in Users : Genesis[u] = c ELSE None]
  /\ crashes = 0
  /\ reconciles = 0

At(r, place) == call[r] # None /\ call[r].at = place
InFlight(r) == call[r] # None /\ call[r].at \in Waiting

PaymentsOf(u, states) ==
  {r \in Requests : /\ call[r] # None /\ call[r].user = u
                    /\ life[r] # None /\ life[r].state \in states}

-----------------------------------------------------------------------------
(* Mutant of SessionVerified: the nonce is not looked up.                  *)
SessionNotBurned(u, i, nf) == spent[nf] = 0 /\ u \notin revoked

(* Mutant of BoundToTip: only the nullifier is tied to the account.        *)
BoundByNullifier(u, old, nf) == nf = commit[u]

(* Mutant of NewCall: the witness is built from the wrong field.           *)
NewCallFromTip(place, u, i, old, new, to, note) ==
  [at |-> place, user |-> u, intent |-> i, old |-> old, new |-> new,
   to |-> to, note |-> note, base |-> commit[u]]

(* handleSettle and settlePublicPayment up to the proof-server probe.  The *)
(* session nonce is burned before the payment is looked at.  A refusal     *)
(* before the burn (nullifier spent, nonce burned, KYC revoked) leaves the *)
(* store as it was and is no step.  nf is the commitment the nullifier in  *)
(* the body belongs to.                                                    *)
SessionVerified(u, i, nf) ==
  /\ spent[nf] = 0
  /\ i \notin burned
  /\ u \notin revoked

BoundToTip(u, old, nf) ==
  /\ old = commit[u]
  /\ nf = commit[u]

NewCall(place, u, i, old, new, to, note) ==
  [at |-> place, user |-> u, intent |-> i, old |-> old, new |-> new,
   to |-> to, note |-> note, base |-> policy[u]]

Confirm(r, u, i, old, nf, new, to, note) ==
  /\ call[r] = None
  /\ SessionVerified(u, i, nf)
  /\ BoundToTip(u, old, nf)
  /\ owner[new] = None
  /\ burned' = burned \union {i}
  /\ life' = [life EXCEPT ![r] = CreatedRecord]
  /\ call' = [call EXCEPT ![r] = NewCall("probe", u, i, old, new, to, note)]
  /\ owner' = [owner EXCEPT ![new] = u]
  /\ UNCHANGED <<commit, spent, policy, revoked, notes, events, boundVars>>

(* A wrong signature, a stale commitment or a foreign nullifier: the       *)
(* payment fails, and its session nonce stays burned.                      *)
ConfirmRefused(r, u, i, nf, to) ==
  /\ call[r] = None
  /\ SessionVerified(u, i, nf)
  /\ burned' = burned \union {i}
  /\ life' = [life EXCEPT ![r] = AdvanceTo(CreatedRecord, "proof_failed")]
  /\ call' = [call EXCEPT ![r] =
                NewCall("answered", u, i, nf, nf, to, FALSE)]
  /\ UNCHANGED <<balanceVars, policy, revoked, notes, events, boundVars>>

-----------------------------------------------------------------------------
(* Mutant of Fail: the handler does not return after it.                   *)
FailAndGoOn(r, rec, state) ==
  /\ life' = [life EXCEPT ![r] = AdvanceTo(rec, state)]
  /\ call' = [call EXCEPT ![r].at = "chain"]
  /\ UNCHANGED <<balanceVars, policy, burned, revoked, notes, events,
                 boundVars>>

(* From the probe's answer to the start of the circuits.                   *)
Fail(r, rec, state) ==
  /\ life' = [life EXCEPT ![r] = AdvanceTo(rec, state)]
  /\ call' = [call EXCEPT ![r].at = "answered"]
  /\ UNCHANGED <<balanceVars, policy, burned, revoked, notes, events,
                 boundVars>>

Prepared(r) == AdvanceTo(life[r], "proof_prepared")
Authorized(r) == AdvanceTo(Prepared(r), "user_authorized")

(* Mutant of Screened: the recipient is not looked up.                     *)
ScreenedSender(r) == call[r].user \notin revoked

Screened(r) == call[r].user \notin revoked /\ call[r].to \notin revoked

(* Mutant of RiskLimited: the limit itself is still let through.           *)
RiskLimitedLate(u) ==
  \/ Cardinality(PaymentsOf(u, {"proof_failed"})) > MaxFailed
  \/ Cardinality(PaymentsOf(u, PostSettle)) > MaxSettles

(* evaluatePaymentRisk: the velocity and failed-proof limits force a hold. *)
RiskLimited(u) ==
  \/ Cardinality(PaymentsOf(u, {"proof_failed"})) >= MaxFailed
  \/ Cardinality(PaymentsOf(u, PostSettle)) >= MaxSettles

ProbeFails(r) == At(r, "probe") /\ Fail(r, life[r], "proof_failed")

(* A revoked party, or a recipient whose last sanctions screening failed.  *)
ScreenFails(r) ==
  /\ At(r, "probe")
  /\ Fail(r, Prepared(r), "proof_failed")

(* Besides its limits the engine may hold any payment: a locked account,   *)
(* too many recipients, a challenge without the biometric step-up.         *)
RiskHolds(r) ==
  /\ At(r, "probe")
  /\ Screened(r)
  /\ Fail(r, Prepared(r), "manual_review")

WitnessMalformed(r) ==
  /\ At(r, "probe")
  /\ Screened(r)
  /\ ~RiskLimited(call[r].user)
  /\ Fail(r, Authorized(r), "proof_failed")

Authorize(r) ==
  /\ At(r, "probe")
  /\ Screened(r)
  /\ ~RiskLimited(call[r].user)
  /\ life' = [life EXCEPT ![r] = Authorized(r)]
  /\ call' = [call EXCEPT ![r].at = "circuits",
                          ![r].base = policy[call[r].user]]
  /\ UNCHANGED <<balanceVars, policy, burned, revoked, notes, events,
                 boundVars>>

-----------------------------------------------------------------------------
(* Mutant of Verified: the digests of the proofs are not recorded.         *)
VerifiedUnattested(r) == AdvanceTo(life[r], "proof_verified")

(* The circuits and the session circuit come back; the internal ledger     *)
(* reserves and settles without I/O and never refuses.                     *)
Verified(r) == Advance(life[r], [life[r] EXCEPT !.attested = TRUE], "proof_verified")
Reserved(r) == Advance(Verified(r), [Verified(r) EXCEPT !.rail = TRUE], "rail_reserved")

ProofFails(r) == At(r, "circuits") /\ Fail(r, life[r], "proof_failed")

ProofPasses(r) ==
  /\ At(r, "circuits")
  /\ life' = [life EXCEPT ![r] = Reserved(r)]
  /\ call' = [call EXCEPT ![r].at = "chain"]
  /\ UNCHANGED <<balanceVars, policy, burned, revoked, notes, events,
                 boundVars>>

(* requireOnchain, and the broadcast found no funded wallet.               *)
ChainFails(r) == At(r, "chain") /\ Fail(r, life[r], "rail_failed")

(* The public state change, written from the locals of the call: nothing   *)
(* checked before the circuits is checked again.                           *)
Transfer(r) ==
  LET u == call[r].user
      old == call[r].old
      new == call[r].new
  IN  /\ spent' = [spent EXCEPT ![old] = @ + 1]
      /\ commit' = [commit EXCEPT ![u] = new]
      /\ policy' = [policy EXCEPT ![u] = r]
      /\ notes' = IF call[r].note
                  THEN [notes EXCEPT ![r] = [to |-> call[r].to, claimed |-> FALSE]]
                  ELSE notes
      /\ events' = [events EXCEPT ![r] = [user |-> u, old |-> old, new |-> new]]

Settled(r) == Advance(life[r], [life[r] EXCEPT !.receipt = "rail"], "settled")
DeviceApplied(r) == AdvanceTo(Settled(r), "device_applied")

Apply(r) ==
  /\ At(r, "chain")
  /\ Transfer(r)
  /\ life' = [life EXCEPT ![r] =
                Reconciled(DeviceApplied(r), "rail", TRUE, call[r].note)]
  /\ call' = [call EXCEPT ![r].at = "answered"]
  /\ UNCHANGED <<owner, burned, revoked, boundVars>>

-----------------------------------------------------------------------------
(* Mutants of Replace: the nullifier is pushed unseen, or not at all.      *)
ReplaceAndPush(u, new) ==
  /\ commit' = [commit EXCEPT ![u] = new]
  /\ spent' = [spent EXCEPT ![commit[u]] = @ + 1]
  /\ owner' = [owner EXCEPT ![new] = u]

ReplaceUnburned(u, new) ==
  /\ commit' = [commit EXCEPT ![u] = new]
  /\ owner' = [owner EXCEPT ![new] = u]
  /\ UNCHANGED spent

(* The other handlers that write what a settlement reads.  Burning the     *)
(* nullifier of the present commitment is skipped when it already is.      *)
Replace(u, new) ==
  /\ commit' = [commit EXCEPT ![u] = new]
  /\ spent' = IF spent[commit[u]] = 0
              THEN [spent EXCEPT ![commit[u]] = 1] ELSE spent
  /\ owner' = [owner EXCEPT ![new] = u]

ClaimNote(r, new) ==
  /\ notes[r] # None
  /\ ~notes[r].claimed
  /\ owner[new] = None
  /\ notes' = [notes EXCEPT ![r].claimed = TRUE]
  /\ Replace(notes[r].to, new)
  /\ UNCHANGED <<policy, burned, revoked, life, events, call, boundVars>>

(* Mutant of Reseal: the new commitment may be the present one.            *)
ResealToSelf(u, old, new) ==
  /\ commit[u] = old
  /\ owner[new] \in {None, u}
  /\ Replace(u, new)
  /\ UNCHANGED <<policy, burned, revoked, paymentVars, call, boundVars>>

(* POST /reseal-balance names the present commitment and any other one,    *)
(* a fresh one or one the wallet has used before.                          *)
Reseal(u, old, new) ==
  /\ old # new
  /\ commit[u] = old
  /\ owner[new] \in {None, u}
  /\ Replace(u, new)
  /\ UNCHANGED <<policy, burned, revoked, paymentVars, call, boundVars>>

PutPolicy(u, e) ==
  /\ \A v \in Users : policy[v] # e
  /\ policy' = [policy EXCEPT ![u] = e]
  /\ UNCHANGED <<balanceVars, burned, revoked, paymentVars, call, boundVars>>

Revoke(u) ==
  /\ u \notin revoked
  /\ revoked' = revoked \union {u}
  /\ UNCHANGED <<balanceVars, policy, burned, paymentVars, call, boundVars>>

(* POST /api/payments/:id/reconcile, open to any caller at any time.       *)
Reconcile(r, receipt, device, notified) ==
  /\ life[r] # None
  /\ reconciles < MaxReconciles
  /\ reconciles' = reconciles + 1
  /\ life' = [life EXCEPT ![r] = Reconciled(life[r], receipt, device, notified)]
  /\ UNCHANGED <<balanceVars, policy, burned, revoked, notes, events, call,
                 crashes>>

-----------------------------------------------------------------------------
(* A restart: every call in progress is gone, what was saved is loaded.    *)
Restart ==
  /\ crashes < MaxCrashes
  /\ crashes' = crashes + 1
  /\ call' = [r \in Requests |->
                IF InFlight(r) THEN [call[r] EXCEPT !.at = "lost"] ELSE call[r]]
  /\ UNCHANGED <<revoked, reconciles>>

Crash ==
  /\ \E r \in Requests : InFlight(r)
  /\ Restart
  /\ UNCHANGED <<balanceVars, policy, burned, life, notes, events>>

(* Between the save that burns the nonce and the one that opens the record. *)
CrashAfterBurn(u, i, nf) ==
  /\ SessionVerified(u, i, nf)
  /\ Restart
  /\ burned' = burned \union {i}
  /\ UNCHANGED <<balanceVars, policy, life, notes, events>>

(* Between two of the lifecycle saves of one stretch.                      *)
CrashWhileAdvancing(r) ==
  /\ Restart
  /\ \/ At(r, "probe") /\ life' = [life EXCEPT ![r] = Prepared(r)]
     \/ At(r, "circuits") /\ life' = [life EXCEPT ![r] = Verified(r)]
  /\ UNCHANGED <<balanceVars, policy, burned, notes, events>>

CrashWhileReconciling(r, receipt, device, notified) ==
  /\ life[r] # None
  /\ Restart
  /\ life' = [life EXCEPT ![r] =
                ReconcileAcks(life[r], receipt, device, notified)]
  /\ UNCHANGED <<balanceVars, policy, burned, notes, events>>

CrashWhileApplying(r) ==
  /\ At(r, "chain")
  /\ Restart
  /\ Transfer(r)
  /\ \E saved \in {Settled(r), DeviceApplied(r),
                   ReconcileAcks(DeviceApplied(r), "rail", TRUE, call[r].note)} :
       life' = [life EXCEPT ![r] = saved]
  /\ UNCHANGED <<owner, burned>>

-----------------------------------------------------------------------------
Answer(r) ==
  \/ ProbeFails(r) \/ ScreenFails(r) \/ RiskHolds(r) \/ WitnessMalformed(r)
  \/ Authorize(r)
  \/ ProofFails(r) \/ ProofPasses(r)
  \/ ChainFails(r) \/ Apply(r)

Next ==
  \/ \E r \in Requests, u, to \in Users, i \in Intents, old, nf, new \in Commitments,
        note \in BOOLEAN : Confirm(r, u, i, old, nf, new, to, note)
  \/ \E r \in Requests, u, to \in Users, i \in Intents, nf \in Commitments :
        ConfirmRefused(r, u, i, nf, to)
  \/ \E r \in Requests : Answer(r)
  \/ \E r \in Requests, new \in Commitments : ClaimNote(r, new)
  \/ \E u \in Users, old, new \in Commitments : Reseal(u, old, new)
  \/ \E u \in Users, e \in PolicyEdits : PutPolicy(u, e)
  \/ \E u \in Users : Revoke(u)
  \/ \E r \in Requests, receipt \in {"none", "caller"}, device, notified \in BOOLEAN :
        Reconcile(r, receipt, device, notified)
  \/ Crash
  \/ \E u \in Users, i \in Intents, nf \in Commitments : CrashAfterBurn(u, i, nf)
  \/ \E r \in Requests : CrashWhileAdvancing(r) \/ CrashWhileApplying(r)
  \/ \E r \in Requests, receipt \in {"none", "caller"}, device, notified \in BOOLEAN :
        CrashWhileReconciling(r, receipt, device, notified)

Spec == Init /\ [][Next]_vars

(* An awaited probe, proof or broadcast comes back, well or badly: each    *)
(* has a time limit of its own.                                            *)
FairSpec == Spec /\ \A r \in Requests : WF_vars(Answer(r))

-----------------------------------------------------------------------------
(* What holds however the handlers interleave and the server restarts.     *)

(* A session nonce pays for at most one transfer: it is burned before the  *)
(* first await, so a replayed or doubled confirm of one intent cannot      *)
(* settle twice, not even around a restart (verifyPaymentSessionAuth).     *)
IntentSettlesOnce ==
  \A r, s \in Requests :
    /\ events[r] # None
    /\ events[s] # None
    /\ call[r].intent = call[s].intent
    => r = s

(* The lifecycle says a payment settled exactly when its transfer is on    *)
(* the ledger, and a note exists only for a transfer: neither a restart    *)
(* inside the apply stretch nor a call of the reconcile endpoint while the *)
(* payment waits for the chain makes record and ledger disagree.           *)
RecordMatchesLedger ==
  \A r \in Requests :
    /\ events[r] # None <=> (life[r] # None /\ life[r].state \in PostSettle)
    /\ notes[r] # None => events[r] # None

(* A reconciled payment was proved, reserved and settled, and carries the  *)
(* receipt its rail issued, whatever evidence the caller of the reconcile  *)
(* endpoint put forward before or after.                                   *)
ReconciledIsEarned ==
  \A r \in Requests :
    life[r] # None /\ life[r].state = "reconciled" =>
      /\ {"proof_verified", "rail_reserved", "settled"} \subseteq life[r].trail
      /\ life[r].attested
      /\ life[r].receipt = "rail"

(* The nullifier list is explained by the ledger: every transfer pushed    *)
(* the nullifier of the commitment it spent, and nothing but one burn by a *)
(* claim or a reseal adds to that.                                         *)
NullifiersAccounted ==
  \A c \in Commitments :
    LET transfers == Cardinality({r \in Requests :
                       events[r] # None /\ events[r].old = c})
    IN  transfers <= spent[c] /\ spent[c] <= transfers + 1

(* Every nullifier on the ledger is explained by a settlement or a claim,  *)
(* and a payment is reconciled only on evidence.                           *)
AccountsHold == NullifiersAccounted /\ ReconciledIsEarned

(* A failed or held payment stays so, and never moves money: no late       *)
(* answer and no reconcile call revives it.                                *)
FailureIsFinal ==
  [][\A r \in Requests :
       life[r] # None /\ life[r].state \in FailureTerminal =>
         /\ life'[r].state = life[r].state
         /\ events'[r] = None]_vars

(* A revocation that lands while the proof server is being probed stops    *)
(* the payment, for the sender and for the recipient alike.                *)
RevokedIsNotAuthorized ==
  [][\A r \in Requests :
       At(r, "probe") /\ {call[r].user, call[r].to} \intersect revoked # {} =>
         events'[r] = None /\ ~At(r, "circuits")']_vars

(* Every confirm is answered or lost to a restart, and the payment record  *)
(* of one that is not lost reaches a final state (settlePublicPayment).    *)
EveryPaymentEnds ==
  \A r \in Requests :
    life[r] # None ~> /\ ~InFlight(r)
                      /\ \/ At(r, "lost")
                         \/ /\ life[r] # None
                            /\ life[r].state \in SuccessTerminal \union FailureTerminal

(* No two transfers spend one balance commitment: the nullifier list keeps *)
(* a second payment from the same balance out (payments.ts, check 3).      *)
NoDoubleSpend ==
  \A r, s \in Requests :
    events[r] # None /\ events[s] # None /\ events[r].old = events[s].old => r = s

(* No nullifier enters the list twice, be it from a transfer, a claim or a *)
(* reseal: the checks before the circuits still hold when the push is made.*)
SingleSpend == \A c \in Commitments : spent[c] <= 1

(* The present commitment of an account has not been burned: a wallet can  *)
(* always spend what the server shows (reseal-balance, claimNote).         *)
TipUnspent == \A u \in Users : spent[commit[u]] = 0
=============================================================================
