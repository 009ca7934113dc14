# Formal model of Circle

Circle is a payment service: a single Node/Express process (`server/index.ts`) that keeps one
in-memory store, saved whole to SQLite (`server/services/store.ts`), a Midnight Compact contract run
in process (`server/services/compactLedger.ts`), and a React client whose vault keeps the amounts
(`src/lib`). Balances never reach the server: an account is a *balance commitment*, and a payment
replaces it and publishes the old commitment's nullifier.

This directory holds TLA+ modules translated from that code, the TLC configurations that check them
on small instances, and TLAPS proofs for instances of any size: each safety property a passing run
checks is also a theorem. Paths below are relative to the repository; `src/lib` is the
client's library.

1. [The system](#1-the-system) · 2. [The modules](#2-the-modules) · 3. [The runs](#3-the-runs) ·
4. [Fairness](#4-fairness) · 5. [The proofs](#5-the-proofs) ·
6. [Where the code and its documents part](#6-where-the-code-and-its-documents-part) ·
7. [What is not modelled](#7-what-is-not-modelled) · 8. [Plan](#8-plan)

## 1. The system

### How it runs

The server is one event loop. A handler runs without interruption from one await on real input or
output to the next, and the store is changed in memory by every handler; `saveStore` writes it whole
before an answer goes out. So the unit of atomicity in all server modules is *the stretch between two
awaits*, what a stretch read may be stale in the next one, and a restart keeps what was saved and
loses the handlers in progress. The client keeps an encrypted vault on the device; it is the only
party that knows amounts and openings, and several tabs may share it.

| Component | State | Operations | What is hard |
|---|---|---|---|
| Settlement (`services/payments.ts`, `riskEngine.ts`, handlers of `index.ts`) | `users[].balanceCommitment`, `policyCommitment`, `spentNullifiers`, `spentChallenges`, `notes`, `events` | confirm / settle, claim a note, reseal, policy edit, KYC revocation | three awaits (probe, circuits, chain) between the checks and the state change; restarts between two saves |
| Payment lifecycle (`paymentLifecycle.ts`, `reconciliation.ts`) | `paymentLifecycle` records | advance, reconcile | public reconcile endpoint races the settlement |
| Universal platform (`universalService.ts`, `sandboxLedger.ts`, `sandboxAccounts.ts`) | quotes, routes, payments, two balances, receiver's clearance | quote, route, settle, reconcile, refund, webhook | several legs, each of which may fail after another has settled; retries; restarts |
| Route planning (`quoteEngine.ts`, `routePlanner.ts`, registries) | none: tables | plan, price, gate | methods and assets that only some rails support |
| Rail adapters (`txAuth/rails/*`) | entries by settlement id, index by intent key, webhook event ids | settle, refund, status, webhook | idempotency, early and late provider events, a remote API |
| Credit pool (`credit/service.ts`) | `poolTotal`, `poolOutstanding`, deposits, loans, standing | deposit, borrow, repay, miss, liquidate | the same checks-await-write shape, on shared totals |
| Compact runtime and proofs (`compactLedger.ts`, `proofServer.ts`, `zkProve.ts`, `contracts/nyxpay.compact`) | contract state, one witness bag, replay file, chain of circuits | stage, run, replay, publish KYC root, attest | a bag shared by all callers; replay after a restart |
| Transaction authorization (`txAuth/*`) | merchants, registry root, challenges | issue, sign, prove, verify, revoke | signature, registry and challenge read at different times |
| Receiving payments (`receivePay/*`) | destinations, observations, confirmations | mint, observe, reconcile, confirm, credit | confirmations and credits of one order overlap |
| Device wallet (`src/lib/bootstrap.ts`, `deviceVault.ts`, `pendingApply.ts`, `fund.ts`, `disputes.ts`, `payments.ts`) | vault (balance, opening, commitment), spend kept aside | load and align, pay, top up, refund, repair | two sides changed one after the other; tabs, time-outs, failing saves |
| Identity and KYC (`store.ts`, `compliance/services/*`, both `nyxproof.ts`) | credential leaves and root, revoked nullifiers, issuance records, session challenges | enrol, register, revoke, rescreen, prove and verify a session | equal leaves of one document; revocation and rescreen change different records |
| Verified merchant (`verifiedMerchant.ts`, `brandsCatalog.ts`) | leaves, brand roots, nullifiers, challenges, sealed secrets | enrol, challenge, prove, verify, revoke | three records of one fact; secrets sealed by an earlier process |
| HSM appliance (`merchantHsm.ts`, `hsmAppliance/`) | a sealed file of keys, the map in memory | register, sign, verify over HTTP | restarts, torn files, calls given up on |
| On-chain broadcast (`preprodBroadcast.ts`, `preprodWallet.ts`, `onchain.ts`, `universalOnchain.ts`, `scripts/midnight-deploy.ts`) | a deployment file two processes share | submit, fall back, deploy | a submission that lands and does not answer |
| Recovery (`recoveryKit.ts`, `services/vault.ts`, `keyStore.ts`, `webauthnVault.ts`, `Recovery.tsx`) | keys and vault of each device, kits, threshold record | sign up, enrol, sign out, restore | tabs that close half-way; backups of different age |
| Disputes (`services/disputes.ts`, `src/lib/disputes.ts`, `SpendingInsights.tsx`) | dispute records; the vault's history | open, refund on the device, advance | six awaits over a copy of the vault |
| Compliance desk (`compliance/services/*`, `relay.ts`) | sessions, held-back events, logs, view keys | enrol, flush, purge, report, disclose | in memory until another service saves; timers and crashes |
| Screens (`App.tsx`, `Wallet.tsx`, `PaymentPing.tsx`, `UniversalAdapterDemo.tsx`) | phase, pending bundle, sheet; session pointer and view | ask, edit, verify, accept; refund; sign in and out | handlers are not cancelled: late answers write the state of a later moment |
| Voice session (`voice.ts`) | recognizer, transcript, timers | listen, stop | five ways to end that race |
| The rest: policy and currency arithmetic, configuration, limits, scripts | | | see section 7 |

### How the parts interact

* The wallet builds an *intent* (old and new commitment, policy, nonce), and `POST /confirm` runs
  `handleSettle`: session proof, `settlePublicPayment`, Compact circuits through
  `attestAndExecutePayment`, the chain if required, then the store. The wallet applies the spend to
  its vault when the answer comes, and keeps it aside when it cannot save.
* Settlement, credit, receiving and the reseal endpoint all replace the same `balanceCommitment` and
  push to the same `spentNullifiers`.
* Every prover shares the Compact runtime's witness bag and its chain of circuits.
* The universal platform books legs on rail adapters, and asks the Compact runtime for a route proof;
  provider events reach the adapters through the webhook endpoint, operators the reconcile endpoint.
* Receiving a payment uses the merchants and the signer of transaction authorization, and its credit
  writes an account that settlement may be writing.
* Settlement and the universal platform broadcast through the same wallet and the same deployment file,
  which the deployment script writes too.
* The wallet screen builds an intent, `PaymentPing` gates it (policy, brand, the server's verdict on the
  recipient), and only then the device wallet confirms.

### What makes each part correct

| Part | Correct means |
|---|---|
| Settlement | one nonce pays once; no balance is spent twice; the nullifier list, lifecycle records and transfers tell one story; failures are final; revocation stops what is not proved yet; every payment ends |
| Universal | money stands on a rail only for a payment that stands; balances follow payments; a retried route is charged once; money goes back once and really; every payment can be reconciled |
| Credit | the books equal what was deposited, lent and seized; nothing is lent that is not there; a loan ends once; standing is earned; each unless calls overlap that nothing keeps apart (section 6) |
| Compact runtime | what a restart rebuilds is what was there; what is attested is recorded; an undisturbed caller is served; the chain never stops |
| Authorization | a challenge authorizes once, for an intent its merchant signed, of a merchant in good standing; with a proof the server made, for the intent it was issued for |
| Receiving | nothing reported disappears; "matched" and "credited" are true; a credit overwrites nothing |
| Wallet | device and server come to agree; only settled payments are deducted, each once |
| Identity, merchants | root, leaves and nullifiers say the same of who is in good standing; a verdict rests on a fresh challenge |
| Appliance, broadcast | keys given out stay good; a transaction a caller is told of is on the chain and its own |
| Recovery, disputes | a vault that opens has its keys; no fewer than the threshold release; each refund is added once |
| Desk | a session is used once; what was reported stays; timers keep up |
| Screens, voice | what is sent is what was accepted, gated; the screen says what the server did; one command is told, the last one heard |

## 2. The modules

| Module | Models | Used by |
|---|---|---|
| `PaymentLifecycle` | the transition table and the two functions on lifecycle records, as operators | `Settlement` |
| `Settlement` | the account endpoints with their awaits and restarts | `SerialSettlement`, `Payments`, `MCSettlement` |
| `AccountLedger` | abstract: what the account endpoints promise, chains of commitments | refined by `SerialSettlement` |
| `SerialSettlement` | `Settlement` under the discipline of one open operation per account | `Ledgers` |
| `Routing`, `Rails` | pure: planning and compliance tables; what each adapter accepts by the status of an entry | `Universal` |
| `Universal` | the universal platform with its rails, balances, events and restarts | `MCUniversal`, `Universal_proofs`; with its proofs by `Payments` and `Services` |
| `RouteCards` | the demo screen's payment intents, for the runs | the same |
| `CreditPool` | Circle Credit v1 | `MCCreditPool`, `CreditPool_proofs`; with its proofs by `Ledgers` |
| `CompactLedger`, `TxAuth`, `ReceivePay` | the Compact runtime; authorization; receiving | `Services`; `CompactLedger` with its proofs (`CompactLedger_proofs`) |
| `ComplianceDesk` | enrolment sessions, settlement relay, logs, view keys, reports and their timers | `Services` |
| `VerifiedMerchant` | brand registries, merchant challenges and verdicts | `Support` |
| `MerchantKeys` | the appliance and the signer that calls it | `Support` |
| `Identity` | issuance, registry, revocation, rescreen, session and payment proofs | `Support` |
| `Broadcast` | broadcasting to the test network, next to the deployment script | `Support` |
| `Recovery` | keys and vault on the devices of an account, kits, the threshold backup | `Support`, run `restored_stale` |
| `Disputes` | a dispute and its refund on the device | `Support` |
| `DeviceWallet` | vault, tabs and the server's answers to one account | `Client`, run `commitment_reused` |
| `PaySheet` | the wallet screen and the sheet on which a payment is accepted | `Client` |
| `AdapterDemo` | the adapter's screen: payment, refund, tampering | `Client` |
| `AppShell` | which screen is shown for which account; session pointer and vaults | `Client` |
| `VoiceListen` | one listening session of the voice assistant | `Client` |
| `Payments` | composes `Settlement` and `Universal` at the remote Stripe API | `MCPayments`, `Payments_proofs` |
| `Services` | composes `CompactLedger`, `TxAuth`, `ReceivePay`, `Universal` on local rails and `ComplianceDesk` | `MCServices`, `Services_proofs` |
| `Support` | composes `VerifiedMerchant`, `MerchantKeys`, `Identity`, `Broadcast`, `Recovery` and `Disputes` | `MCSupport`, `Support_proofs` |
| `Ledgers` | composes `SerialSettlement` and `CreditPool` | `MCSettlementAndPool`, `Settlement_proofs` |
| `Client` | composes `DeviceWallet`, `PaySheet`, `AdapterDemo`, `AppShell` and `VoiceListen` | `MCClient`, `Client_proofs` |
| `Settlement_proofs`, `CreditPool_proofs`, `Universal_proofs`, `Payments_proofs`, `CompactLedger_proofs`, `Services_proofs`, `Support_proofs`, `Client_proofs` | theorems | |

The modules named `MC...` give the constants values. Five runs are of several models at once (`Payments`,
`Ledgers`, `Services`, `Support`, `Client`): each model keeps its own variables, the first state chooses
which of them moves, and their properties are stated of the part that was chosen, so the state space is
the sum of the parts and not their product. For each composition it is proved that a part behaves by its
own specification in it, and the theorems of the parts are carried over.

### State and actions

**Settlement.** `commit`, `policy`, `spent`, `burned`, `life`, `notes`, `events` are the fields of the
store; `call` holds the handlers in progress with their local variables and the await they are at
(`probe`, `circuits`, `chain`); `owner` is history. A nullifier is the hash of a commitment and is
identified with it; `spent` counts how often it was pushed, because the code keeps a list.
`Confirm` is `handleSettle` up to the probe; `ProbeFails`, `ScreenFails`, `RiskHolds`,
`WitnessMalformed` and `Authorize` are the ways out of the probe; the circuits end in a refusal or
`Reserved`; the chain in a failure or `Transfer`, the stretch that writes commitment, nullifier, note,
event and record. `ClaimNote`, `Reseal`, `PutPolicy`, `Revoke`, `Reconcile` are the other handlers.
Saves inside a stretch get a crash action of their own (`CrashAfterBurn`, `CrashWhileAdvancing`,
`CrashWhileApplying`, `CrashWhileReconciling`); `Crash` is a restart at rest.

**Universal.** `legs` are the adapters' entries by side (source, FX desk, target) and by the call that
booked them, `index` the adapters' maps from intent keys, `events` the webhook ids they have seen,
`intents` the charges at Stripe. `BeginSettle` is the endpoint up to the proof; a local rail settles
in one stretch (`SettleLocally`), a remote target is charged while the call waits (`SettleSource`,
`StripeCharges`, `TargetSettles` / `TargetDeclines` / `TargetUnreachable`); `ChainFails` undoes the
legs, `Apply` debits, credits and records. `RefundLocally`, `AskRefund`, `RefundAnswered`,
`RefundUnreachable`, `Reconcile`, `Webhook`, `VerifyAccount` are the rest. `disk` is what was last
persisted: the platform persists less often than the rails change.

**CreditPool.** `request` is what devices composed and `call` its deliveries, one request possibly
several times; a call reads (`Begin...`), waits if the circuits' keys are deployed, and applies
(`Apply...`). `Liquidate`, `RecordMiss`, `TimePasses` are the passing of due dates. What overlapped is
history: `twice` (deliveries of one request), `raced` (two repayments of one loan, or one and its
liquidation), `rushed` (two deposits, a deposit and a seizure, two loans, two repayments).

**DeviceWallet.** `tip`, `spent`, `wire` on the server, `vault` and `aside` on the device, `op` what a
tab is doing. `Leave` is a closed tab, a time-out or a broken network, at any point.

**CompactLedger.** `bag` says who staged each part of the witness bag, `queue` is the promise chain,
`staged` the copy its head has taken. `Take` and `Run` are one turn. A witness is named after the call
that staged it and a commitment opens with the witness of its own call only, so "commitment mismatch"
is `Accepts` being false. `persisted` is the replay file; `Replay` folds the circuits over it.

**TxAuth.** `pending`, `late`, `spent` are the challenge map, expiry and burned list; `signed` and
`proofs` are what the agent holds and may use in any order. `Verify` takes any proof whatever, since
`POST /verify` takes it from the request's body and its digest has no key; what the digest is over is
what `Verifies` demands. Whether the server had made it is history (`proved`). A registry root is the set
of active merchants it is computed over.

**ReceivePay.** `status`, `observed`, `unmatched`, `confirmed` are the destination's state; `tip` and
`spent` are the merchant's account, which `OtherHandler` may change while a credit is proved.

**VerifiedMerchant.** `leaf`, `root`, `nullifiers` are `brandRegistries` and the revoked list, `pending`
and `burned` the challenges; every handler is one stretch. `sealedIn` names the start whose key sealed a
merchant's secret: without `MERCHANT_KEK` the key is derived from the process. `verdicts` is history.

**MerchantKeys.** `keys` in memory, `file` on disk, `call` the signer's HTTP calls, which time out while the
appliance goes on. `StopInSave` tears the file; `Loaded` treats what it cannot read as empty.

**Identity.** `leaves` is the sequence `store.kycLeaves` with its duplicates, `issuance` the records the
rescreen reads, `asked` / `burned` the session challenges. `Rescreen` is the whole loop, folded over the
records. A session is recorded with whether its credential was live, in time and current.

**Broadcast.** `file` is `onchain-deployment.json`; the server's step reads it, submits (contract call,
then a transfer, then the fallback on the recorded transaction) and writes it back while the script does
the same. `chain` is external. A refusal gives either reason: what mentions a time-out is called unfunded.

**Recovery.** A vault is its version; `device` says which keys, vault and open screen a device has. Sign-up
is three steps that a closed tab may cut (`Register`, `SaveFirst`, `SealKit`); `BeginLoad` and `EndLoad` are
the awaits around the alignment of a loaded vault, which a sign-out may overtake. A payment is
`BeginChange` (the vault is read and the request sent), `ServerTakes` and `SaveChange`; between any two of
them it may be given up (`GiveUp`: the 90-second abort, a lost answer, a refusal, a save that fails) or lost
with its tab, and a request nobody waits for any more may still be taken (`LateTakes`). `strayed` and `raced`
are history: what the server took was not saved before the vault was looked at again; a sign-out
overtook a load or a payment.

**Disputes.** `flow` is what a click is doing and the copy of the vault it works on; `disk` the saved vault,
`shown` the screen's.

**ComplianceDesk.** `mem` and `disk` are the store; every save copies all of `mem`. `Flush`, `Purge`,
`EmitDecoy` are the timers.

**PaySheet.** `phase`, `bundle`, `sheet` (the state of `PaymentPing` while it is mounted), `confirm` (the
handler that `busy` stands for). React renders and runs effects before the next event, so `Render` is part
of every action. `Answered`, `Prefetched`, `VerifyAnswered`, `BrandAnswered` come back in any order.

**AdapterDemo.** `meta` is `settleMeta`; `paying` and `refunding` carry the `meta` they closed over. `returned`
and `refused` are history: the payments whose money a refund moved back, and those whose refund the rail
refused, which leaves them in `manual_review` and is answered like the others.

**AppShell.** `loads` are the handlers under way and how far they are; `session` is the pointer in the local
storage, `vaults` the accounts saved on the device.

**VoiceListen.** `set` are the timers that are set; an action is one callback. Two transcripts are told apart
by the command they parse to, whether it is complete, final, and in another script.

### Abstractions all modules share

* Hashes, commitments, signatures and SNARKs are ideal: equal tokens mean equal preimages.
* Ids, timestamps, texts and amounts are left out unless a property tells them apart; an amount is a
  unit or a small number. Expiry is an action that may happen at any time.
* One user action that the client repeats, or that a proxy delivers twice, is two calls.

## 3. The runs

`tlc -workers 2 -config <cfg> <module>`; sizes are distinct states, times on two cores.

| Run | Module | Instance | States, time | Shows |
|---|---|---|---|---|
| `settlement_and_refunds` | `MCPayments` | *accounts*: 1 account, 2 confirms, 2 intents, 3 commitments, 2 settles and 2 failures an hour, 1 restart, 1 reconcile; *stripe*: the remote API, 1 quote, 1 route, 2 settlements, 2 refunds | 549 296, 2 min | whatever interleaves: `IntentSettlesOnce`, `AccountsHold` (nullifiers explained, reconciled earned), `RecordMatchesLedger`, `FailureIsFinal`; money goes back once and really (`RefundsHold`) |
| `settlement_live` | `MCSettlement` | 2 accounts, 1 confirm, 2 restarts, 1 reconcile | 312 776, 1 min | `EveryPaymentEnds`, `RevokedIsNotAuthorized` |
| `settlement_and_pool` | `MCSettlementAndPool` | *account*: 1 account, 2 confirms, 2 intents, 4 commitments, 1 policy edit, 1 restart; *pool*: 2 users, 3 requests, 3 deliveries, seed 2, loans of 2 on 3, grace 1, with and without the circuits' keys | 324 418, 3 min | `ImplementsLedger`, `SingleSpend`, `TipUnspent`, `AppliesToItsWitness`, `VelocityCap`; the pool's books and checks (`PoolHolds`) and `LoanEndsOnce`, with circuits awaited, up to the overlaps they name |
| `double_spend` | `MCSettlement` | 1 account, 2 confirms | violation | `NoDoubleSpend` fails, section 6 |
| `universal_api` | `MCUniversal` | 1 quote and route of four kinds, 2 settlements, 1 clearance change or restart, the remote Stripe API, stubs forbidden, required testnet | 183 198, 3 min | `OneChargePerRoute`, `PaymentReconciles` |
| `gap_erased` | `MCUniversal` | 1 quote, 2 routes, 2 settlements | violation | `ReconciledIsPaid` fails |
| `installment_twice` | `MCCreditPool` | 1 user, grace 0 | violation | `StandingIsEarned` fails |
| `services` | `MCServices` | Compact: 2 calls of 3 kinds, 2 roots, 1 leaf, 1 restart. TxAuth: 2 merchants, 3 intents, 2 challenges, 2 proofs, 1 restart. ReceivePay: 1 order, 2 payments, 2 confirmations, 2 credits, 1 other handler, 1 restart. Universal on local rails (`OnceNext`): 1 quote, 2 routes, 2 settlements, 2 refunds. Desk: 1 session, 1 transfer, 1 decoy, 1 account, 2 view keys, one replacing the other, any number of crashes | 419 294, 3 min | `ContractHolds`, `EveryCallEnds`, `AuthorizationIsEarned`, `InboundHolds`, `MoneyFollowsPayments`, `DeskHolds`, `TimersMoveOn` |
| `support` | `MCSupport` | merchants: 2 of one brand, 2 addresses, 3 challenges, 2 starts. Appliance: 2 keys, 3 calls, 2 starts. Identity: 2 names, 1 document, 2 jurisdictions, 2 issuances. Broadcast: 2, one of them required. Recovery: 2 devices, 2 holders, 1 stranger, threshold 2, 2 versions, the second by a payment that may be cut short. Disputes: 2 payments, 2 clicks, 2 seals | 720 066, 3 min | `RegistryAgrees`, `MerchantsHold`, `IdentityHolds`, `SubmittedIsOnChain`, `RecoveryHolds`, `DisputesHold` |
| `restored_stale` | `Recovery` | 2 devices, 2 versions | violation | `RestoredIsCurrent` fails |
| `wallet` | `MCClient` | wallet: 2 tabs, 2 payments, 1 top-up, 1 refund, balance 1. Sheet: 2 amounts around the limit, 2 strangers (one a brand's name, one two people may bear), 2 payments, 2 commands of the tour. Demo: 2 payments, 1 tampering. Frame: 2 accounts, 2 loads. Voice: 2 commands | 676 469, 3 min | `ClientTypes`, `PaymentsAreKept`, `WalletSettles`, `AcceptedIsGated`, `TellsTheTruth`, `ViewHasAccount` |
| `commitment_reused` | `DeviceWallet` | 1 tab, 1 payment | violation | `BurnedStaysBurned` fails |

Every model's `TypeOK` is checked in one run (`TypeOK`, `OtherTypes`, `PartTypes`, `ClientTypes`, and inside
`PoolHolds`). Deadlock is not checked: every model is a service that may stop when all calls it was given have
ended. Each part of a composed run was also explored alone, with TLC's coverage, and every action of each
fires.

### Why the bounds are enough

* *Two of everything that races.* Every hazard in the settlement, credit, receiving and Compact
  models is a pair: a check of one call and a write of another (or of the same call after a restart).
  A third call repeats one of the two roles. Three requests in the pool let a lender, a borrower and a
  repayment meet.
* *One restart* splits a history in before and after. What two restarts could do beyond that is
  restart a recovery, and recovery here is a single synchronous load; `settlement_live` has two all the same.
* *Commitments*: one per operation that may draw one, and one left unused.
* *Limits* (`MaxSettles`, `MaxFailed`) are at 1 or 2 so that the runs reach them.
* *Kinds of route*: the five of `RouteCards` cover each pairing of a rail that acknowledges itself,
  waits for events, is a stub without refund, or forgets its entries at a restart. The remote API is
  explored with one route, since its calls interact only through the route's key and the charge; in
  `settlement_and_refunds` its quote stays open, since one that expires only keeps a settlement from beginning.
* *Bounds in guards.* `MaxUpsets` is how often the receiver's clearance changes or the server restarts
  (together), `MaxBegun` how many payments a sheet builds (an edited payment that is rebuilt counts
  anew, so 2 lets an edit happen, or a second intent overtake the first), `MaxGuides` the tour's commands,
  `MaxLoads` the handlers begun at the frame (two: a sign-out between them is the interesting case),
  `MaxPays` and `MaxTampers` payments and tampered routes at the demo (two payments: a refund of the
  first races the second), `MaxIssuances`, `MaxStarts`, `MaxVersions`, `MaxSeals`, `MaxKeys` what they say.
  A policy edit (`PolicyEdits`) is one more constant set, and each edit is made once.
* *Symmetry* is used for safety runs only, over calls, requests and commitments that no constant
  tells apart. `wallet` has a liveness property; there the payment built first is called `p1`, and with both
  tabs at rest it is `t1` that begins something (`InTurn`), which excludes no history but the renamed ones.
  `services` has one too: challenge `h1` is issued before `h2`, and call `c2` begins when `c1` has
  ended, since calls of `/prove` write nothing that the other reads. Merchant `m1`, which has an intent over the
  limit besides what `m2` has, is revoked before `m2`.
* *Recovery* is not symmetric: one device keeps its keys with the tab, the other in IndexedDB. Of the two
  one at a time loads its vault or pays, and only the first enrols a passkey (`InTurn` of `MCSupport`);
  this does leave histories out, of payments that race on two devices, which `double_spend` and
  the proof of `RecoveryKeeps`, made without it, are about.
* *Due dates*: an installment is ahead, overdue, or so overdue that paying it counts as a miss; these
  are the three cases the code distinguishes.

## 4. Fairness

* `settlement_live`: weak fairness of the answer of each awaited probe, proof and broadcast. Each has
  a time limit (the probe's 2.5 s abort in `proofServer.ts`, the proving provider's and the wallet
  SDK's own), after which the handler goes on with a refusal. Nothing is assumed of restarts; a call that
  one of them loses is excepted by name (`lost`), since its record stays open (section 6).
* `universal_api`: awaited proofs, rails and testnets answer; the provider delivers its event for
  a settlement that exists; operators run the reconcile endpoint on stuck payments, as `docs/PRODUCTION.md:75`
  tells them. Nothing is assumed of restarts, retries, refunds or clearance.
* `wallet`: the server answers what it took; a tab finishes or is left (the wallet gives up after 90
  seconds); the user opens the app again and, when told to, taps *Repair*. Nothing is assumed about new
  operations or about failing saves, nor of the screens and the voice session, which have safety
  properties only.
* `services`: the event loop runs continuations that are ready, and `/prove` answers or times out; the
  desk's timers (`index.ts:2203`) fire while the process is up. No fairness is assumed for the other three
  services, which have safety properties only.

## 5. The proofs

`tlapm Settlement_proofs.tla`, and the same of `CreditPool_proofs`, `Universal_proofs`,
`Payments_proofs`, `CompactLedger_proofs`, `Services_proofs`, `Support_proofs` and `Client_proofs`. They
hold for any sets of accounts, requests, intents, commitments, quotes, routes, calls, merchants, devices,
tabs, names, commands and the rest, and for any limits. What they assume of the constants is

* of the accounts: no two register the same commitment (`GenesisInjective`: openings are random), `None` is
  none of the other values, and, only where payments are counted (`AccountsAreKept`, `VelocityIsCapped`),
  requests are finitely many (`RequestsFinite`) and the limit is a number (`LimitType`);
* of the pool: amounts and terms are positive and `None` is no record (`Constants`); for the books, which
  are sums, users and requests are finitely many (`FiniteBooks`);
* of the universal platform: no quote pays out of Stripe TEST (`ConstantTypes`, `NoneIsFresh`).
  `RailsChargeOnce` is about deployments where Stripe is its real TEST API (`StripeApi`), `RefundsKeep` about
  payments that end there (`ApiConstants`), `MoneyFollows` about local rails without restarts (`LocalOnly`);
* of the other parts: the types of their constants, named `ServicesConstants`, `SupportConstants`,
  `ClientConstants` where they are hypotheses of a theorem of a composition. TLC evaluates each of these at the start of
  the run it belongs to.

Of the accounts (`Settlement_proofs`):

| Theorem | Says | Rests on |
|---|---|---|
| `Typing` | `Spec => []TypeOK` | `Typed` is inductive (`NextTyped`), one step per action; `AdvanceType` and `ReconcileType` about records |
| `RecordsMatch` | `Spec => []RecordMatchesLedger` | `Phase` |
| `FailuresAreFinal` | `Spec => FailureIsFinal` | `Phase`, `FailureStays` |
| `IntentsSettleOnce` | `Spec => []IntentSettlesOnce` | `Nonces`, `Phase` |
| `RevocationStops` | `Spec => RevokedIsNotAuthorized` | `Phases`, `UnscreenedStops` |
| `ReconciledOnesAreEarned` | `Spec => []ReconciledIsEarned` | `AllEarned` |
| `AccountsAreKept` | `Spec => []AccountsHold` | `ReconciledOnesAreEarned`, `SpentStep` |
| `TipsAreUnspent` | `SerialSpec => []TipUnspent` | `Chains` |
| `NothingSpentTwice` | `SerialSpec => []SingleSpend` | `Chains` |
| `WitnessesApply` | `SerialSpec => AppliesToItsWitness` | `Chains`, `Phase` |
| `LedgerImplemented` | `SerialSpec => ImplementsLedger`, a refinement | `Chains`, `MovesAbstractly` |
| `VelocityIsCapped` | `SerialSpec => []VelocityCap` | `Capped`, `NextMoves` |
| `PoolKeeps`, `LoansStayOver` | `LedgersSpec => []PoolHolds`, `LedgersSpec => LoanEndsOnce`, circuits awaited or not | `PoolRuns` and the theorems of the pool; `AccountRuns` does the same for the accounts |

Of the credit pool (`CreditPool_proofs`):

| Theorem | Says | Rests on |
|---|---|---|
| `PoolTyping` | `Spec => [](TypeOK /\ Sound)` | one lemma per operation |
| `LoansEndOnce` | `Spec => LoanEndsOnce`: the end of a loan stands, unless it was raced over | `SettledInv`, `Ends` |
| `NothingOverlaps` | `Spec => [](~keys => twice = {} /\ raced = {} /\ rushed = {})` | `Undisturbed` |
| `BooksAreKept` | `Spec => []BooksHold`: the total and what is lent out are exact, unless deposits were rushed or a loan was raced over | `BooksInv`, `SettledInv`, the lemmas on sums |
| `ChecksStillHold` | `Spec => []ChecksHold`: nothing is lent that was not given, unless loans were rushed or one was raced over; no account's commitment is spent, unless a request was delivered twice at once | `Lending`, `Tips` |

Of the universal platform (`Universal_proofs`, `Payments_proofs`):

| Theorem | Says | Rests on |
|---|---|---|
| `UniversalTyping` | `Spec => []TypeOK` | `Typed`, one lemma per action |
| `RailsChargeOnce` | `StripeApi` and `Spec => []OneChargePerRoute` | `BooksHeld`, `BookedKept` |
| `RefundsAreReal` | `Spec => []RefundIsReal` | `MoneyKept` |
| `MoneyReturnsOnce` | payments ending at Stripe and `Spec => []ReturnedOnce` | `MoneyKept`, `Kept` |
| `RefundsKeep` | `PaymentsSpec => []RefundsHold` | the last two, `ApiRuns` |
| `OnceTyping`, `MoneyFollows` | `LocalOnly` and `OnceSpec => []` of the payments, their legs and the two balances | `OnceInv` |

Of the services (`CompactLedger_proofs`, `Services_proofs`):

| Theorem | Says | Rests on |
|---|---|---|
| `Typing`, `ContractKept` (of `CompactLedger`) | `Spec => []TypeOK`, and of the contract all that the run checks | `CompactInv` |
| `Typing`, `AuthorizationsAreEarned` (of `TxAuth`) | `Spec => []TypeOK`, `Spec => []AuthorizationIsEarned`, whatever proofs requests bring | `Earned`, `FirstTime` |
| `ServicesTyping` | `ServicesSpec => []OtherTypes` | the types of each part |
| `AuthorizationsHold` | `ServicesSpec => []AuthorizationIsEarned` | `AuthRuns` |
| `ContractKeeps` | `ServicesSpec => []ContractHolds` | `CompactRuns`, `ContractKept` |
| `InboundKeeps` | `ServicesSpec => InboundHolds` | `ReceiveRuns`, `InboundInv` |
| `MoneyKeeps` | `ServicesSpec => []MoneyFollowsPayments` | `OnceRuns`, `MoneyFollows` |
| `DeskKeeps` | `ServicesSpec => []DeskHolds` | `DeskRuns`, `DeskInv` |

Of what stands around a payment (`Support_proofs`):

| Theorem | Says | Rests on |
|---|---|---|
| `MerchantTyping`, `RegistriesAgree` | `Spec => []TypeOK`, `Spec => []RegistryAgrees` | `StartAgrees`, `RevokeAgrees` |
| `VerdictsStayFresh` | `Spec => []VerdictsAreFresh` | `FreshInv`, `VerifyFresh`, `RegistriesAgree` |
| `RegisteredKeysLast` | the keys given out are in memory and on disk | `KeyInv` |
| `SessionsEarned` | registry, leaves and nullifiers agree; a verified session had a credential | `RegistryInv`, `SessionInv` |
| `AnswersAreOnChain` | a transaction a caller is told of is on the chain and its own | `ChainInv` |
| `VaultsRecover` | a vault that opens has its keys, unless `raced`; before any restore the server names the newest version, unless `strayed`; threshold and passkey hold | `KitInv` |
| `RefundsFit` | each balance, saved or shown, fits its history, and each refund was disputed | `DisputeInv` |
| `SupportTyping`, `MerchantsKeepFaith`, `IdentityKeeps`, `SubmissionsAreReal`, `RecoveryKeeps`, `DisputesKeep` | the same under `SupportSpec`, for each property of the run | the theorems above |

Of the client (`Client_proofs`):

| Theorem | Says | Rests on |
|---|---|---|
| `WalletTyping`, `DeductionsWereSettled` | `Spec => []TypeOK`, `Spec => []DeductedWasSettled` (of `DeviceWallet`) | `Flow` |
| `PaymentsStayKept` | `Spec => []PaymentsAreKept` | `Flow`, `Kept` |
| `AcceptedWasGated` | what is sent is what was accepted, and was gated | `SheetsInv` |
| `DemoIsTruthful` | what the demo's screen shows as sent was settled; what it calls back in the wallet is, or its refund was refused | `DemoInv` |
| `ShownAccountIsKept` | a screen that works on an account has one; with nothing under way it is the session's, and its vault is saved | `ShellInv` |
| `OneCommandIsTold` | one command is told, the last one heard | `VoiceInv` |
| `ClientTyping`, `PaymentsKeep`, `AcceptedKeeps`, `TruthKeeps`, `AccountKeeps` | the same under `ClientSpec` | the theorems above, `ClientParts` |

*`Phase`* is needed because `RecordMatchesLedger` alone says nothing of a call that waits: a handler
about to apply would have to be known to have a record in `rail_reserved` or `proof_verified` that no
reconcile call has moved meanwhile. `Phase` ties the await a call is at to the states its record may
have and to the absence of its transfer; `ReconcileKeepsPhase` says reconciling moves records within
the settled states only.

*`Nonces`*: the nonce of every call, in progress or ended, is burned, and no two calls share one (a confirm
whose nonce is burned opens no call).

*`AllEarned`*: `ReconciledIsEarned` looks at reconciled records only, and one reconcile call may take a
record there from any settled state. So what a record must have gone through is said of each state from
`rail_reserved` on: it was proved and reserved, and once settled it has the receipt of the rail.
`ReconcileKeeps` says that a reconcile call may give a receipt to a record that lacks one, and takes none
away; `RecordStep` reduces all actions to the six things a step may make of a record.

*`SpentStep`* does the same for `NullifiersAccounted`: in a step the nullifier list grows together with the
ledger, by a transfer that was not there before (`Phase` is needed for that), or alone, by a burn of a
commitment that nothing has spent yet. The property is inductive with these two cases and the cardinality
of a set that gains one element.

*`Capped`*: the risk engine counts at the probe, and the payment settles two awaits later. That the count
still stands then needs more than the check: a call past its probe finds its account strictly below the
limit, and no other call of the account can settle before it, which is the discipline's `OneCallPerAccount`.
`Phase` makes the engine's count, over records, one over the ledger.

*`BooksHeld`* (the universal platform). `OneChargePerRoute` compares two live entries and says nothing of the
index. `Held` says that every entry of `sandbox_psp`, refunded ones included, was made by a call that the
index names under its route: so two entries of one route are one. A call that settles the route again is
answered with the entry the index names (`BookedKept`). `Saved` says the same of what is on disk,
since a restart takes entries and index back to it together, and `RefundHeld` that the answer to a refund finds
the entry it was asked for, since the code writes `refunded` there without looking again. `Typed` carries what
they rest on: a call keeps its route, and the route its rails (`Continues`). With the local Stripe ledger the
theorem does not hold: `handleWebhook` acknowledges a refunded entry too, so an event that comes
after a refund revives it beside the one booked since.

*`Flow`* and *`Kept`* (the wallet). `Flow` ties what a tab is doing to what has become of its request: a tab
that applies a payment has one that settled. It holds however tabs overlap, are closed or fail, and gives
`DeductedWasSettled`. That the balance is right (`MoneyAddsUp`) is promised only while operations are carried through one
at a time (`~strayed`), and `Kept` says what that keeps true on the way: one tab is busy at most, what it
holds is the vault as it is, and a payment that settled and is not yet taken off the vault is waited for or kept
aside. The last case is the delicate one, since the wallet does not look at what it kept aside before it
builds the next payment. What prevents the loss is on the server: it has burned the commitment the vault
would spend again (`Owed`), so the next payment is refused until *Repair* applies the one kept aside.

*`Sound`* and *`Core`* (the pool). A repayment writes what is left of the loan as it read it before its
circuit, so a loan may come to owe more than it did; `Sound` says that even so it never owes less
than nothing, because what a call wants to pay is bounded by what *it* read. `Core` says what a call that waits
still knows, circuits awaited or not. `Apart`: calls that wait at once are noted as overlapping. So a deposit that was not
rushed read the pool's total as it is (`DepositReads`), a repayment of a loan that was not raced over finds
it active and owing what it read (`LoanReads`), and a delivery of an account none of whose requests overlapped with
itself is the first of its request (`AccountReads`): the requests that left any trace had their old commitment spent
(`Tips`), which is why a request delivered twice is refused the second time. `LoanEndsOnce` needs one more fact,
`Over`: a loan that is repaid or liquidated owes nothing, so that the due dates which go on passing over
it, and repayments of it that were not raced over, change nothing. `NothingOverlaps` closes the circle: without
keys the exceptions never occur, because a handler that opens a call is the only one to have one open.

*`Chains`* is about the disciplined specification: what a call read before its awaits (commitment,
policy) is still the account's while it waits, the commitment it will move to is its own and unused,
and the present commitment of every account is unspent. It fails without the discipline, which is what
`double_spend` shows. `StepKinds` reduces the actions, the many ways of a call to be answered included, to five
kinds of change of the ledger, so that `Chains` and the refinement are proved once per kind.

*`Earned`*: the verifier compares neither the challenge's intent nor the limit, so the authorization rests on
what signing and proving checked earlier. `Earned` carries those checks along: nothing over the limit is
asked for or signed, and the challenge of every call and of every proof *the server made* was issued for its very
intent. Of a proof that a request brings along nothing of the kind is known, and the property promises less
of it: an intent with its merchant's signature (section 6). That a challenge authorizes once holds of both,
by a second fact: what has authorized is burned, and what is burned is not pending (part of `TypeOK`), so a proof that
verifies is the first of its challenge (`FirstTime`).

*`FreshInv`*: what a verdict rested on, and that its challenge is burned and pending for nobody. The call that
verifies draws a challenge that is neither pending nor burned, so the verdict it adds shares its challenge
with no earlier one. `VerdictsAreFresh` also says that a payer is never shown the address of a merchant whose
nullifier is published; that is not about verdicts and follows from `RegistryAgrees`, which is inductive
once the types are known: a start recomputes every root, and a revocation the root of one brand, from the
leaves of the same step.

*`BooksInv`* (the pool). The books are sums over the users and the requests. That changing a function at one
point changes its sum by the difference is proved once (the lemmas on sums), by looking at a smallest set for
which it would fail, since an induction theorem over an operator cannot be instantiated here. What is exact while
nothing overlaps (`BooksBalance`) follows from `Core`: what a call read is what it writes to. What holds however
calls overlap needs bounds. A repayment writes what it *read* less its amount, so a loan may come to owe more
than the books say was repaid. `Covers` bounds that: there is an amount for each loan, no more than it owes and
no more than what any waiting repayment of it read, and what is outstanding never exceeds the sum of these.
`Given` says that a waiting deposit read no more than was given, `Marked` that the request of a loan is in
the spent list, so that it is lent once, `SeizedOver` that a seized loan is over, so that its collateral is added
once. `Lending` is what the check before a loan's circuit leaves behind: while one loan waits, what is owed and its
amount together were given. Deposits, repayments and liquidations that go on meanwhile keep it; a second
loan proved at the same time would not, nor would a loan raced over, whose repayments make `outstanding`
smaller than what is owed and the liquidity that the next check looks at larger than it is.

*`MoneyKept`* and *`Kept`* (payments ending at Stripe). A payment's record carries its route. The API returns
money of a charge at most once, and a payment is `refunded`, or a leg returned, only if the charge is in `Back`.
Both hold in memory and on disk, because a restart brings the older of two stories back.

*`OnceInv`* (payments on local rails). It counts: one payment of a route, both of its legs, one debit and one
credit, and the balances are the cardinalities of what is settled and not refunded. `SoundAt` says of every call
how far its two legs, its payment and its money have come, so that a failure in the middle undoes what stands.

*`CompactInv`* has five parts besides the types. `QueueInv` says that the chain of circuits holds what open calls
may run, each once; `FileInv` that the file has each circuit of a call at most once; `ReplayInv` that it
replays to the state in memory, by the recurrence `ReplayOneMore`, itself proved with a least element;
`RootInv` that continuations wait in the order of their circuits, so that the root remembered last is the one
published last unless one of them waits; `AloneInv` that a call nobody overlapped finds its own witness.

*`DeskInv`*: memory and disk differ in sessions and logs only, and neither holds a completed session, so that a crash
brings none back. *`InboundInv`*: an order gets no further than what was matched and confirmed allows, and a
payment that was reported is matched or unmatched.

*`KeyInv`*, *`RegistryInv`*, *`SessionInv`*, *`ChainInv`* carry a fact across awaits. Every key a signer was told
of is in the map and the file; root and leaves agree while the nullifiers lag; each verified session had its
credential when it was asked for; every copy of the deployment file that a process has read names a transaction
of the script's, and the chain only grows. *`KitInv`* separates what holds until a sign-out overtakes a load or a
payment (`KitKeys`: a vault that opens, that a payment spends, or that was just registered has its keys) from
what holds until a first restore and while nothing strayed (`KitNewest`: one device at most has the account, its
vault is the newest version unless that is the one its payment has still to save, and no load has found
another). *`DisputeInv`* places each click:
`FlowFits` says which step its copy of the vault is in step with, and the balance lies between the record of
a refund and its credit.

*`SheetsInv`*: a bundle, a sheet and a confirm in progress belong to one payment, and the verdict that opens
the gate is one on the name that is shown, unless the name was typed by hand (section 6). *`DemoInv`* follows
a payment and a refund through the closures of the demo, with every answer given once (`AnsweredOnce`), and says of
each refund that was answered that it was carried out or refused (`MetaInv`). *`ShellInv`* says which
account each handler under way will show. *`VoiceInv`* says that a session is final exactly when it has told one
command, the right one, and that the timer of a final command is set for what was heard last.

*Compositions.* A theorem of a part is one of its composition because the composed specification implies the
part's: either the part was chosen and moves by its own next-state relation, or it stutters in its initial
state (`ApiRuns`, `AccountRuns`, `PoolRuns`, `CompactRuns`, `AuthRuns`, `OnceRuns`, `DeskRuns`, `ReceiveRuns`,
`ClientParts`).

Proving led to corrections of the models. `AcceptedIsGated` was not inductive, since a typed name could keep the
verdict on another one; the code does that, the model now records it (`typed`), and section 6 tells it. Roots are
taken up in the order in which they were asked for (`NextInTurn`), which the promise chain guarantees
and `RootPublished` needs. The sums of the pool run over fixed domains. Some `CASE`s without a last
alternative became conditions, and the wallet run's fairness is stated of the wallet alone.

Model-checked only: liveness under fairness (`EveryPaymentEnds`, `PaymentReconciles`, `WalletSettles`,
`EveryCallEnds`, `TimersMoveOn`), which rests on `ENABLED`, and the violations of section 6. Induction over
data is out of reach as well: what `Replay` computes is proved one step at a time, not for a file of any length in
closed form. No module declares a recursive operator.

## 6. Where the code and its documents part

Five disagreements have a run that ends in a counterexample; the trace is what a reader should look at.

* **Two payments of one balance** (`double_spend`). `payments.ts:111` checks the nullifier before three
  awaits, `:373` pushes it after them without looking again. Two confirms of the same balance with
  their own nonces both apply; `docs/COMPLIANCE.md:83` names the nullifier set as the control against
  this. The wallet's busy guard keeps one tab from it, not two tabs or two devices. `settlement_and_pool`
  and the proofs about `SerialSettlement` say that one operation at a time is enough to make everything right.
* **A reconciled payment nobody paid** (`gap_erased`). `universalService.ts:617` recomputes the gaps
  from an empty list and forgets `ledger_debit_failed`.
* **One installment counted twice** (`installment_twice`). `credit/service.ts:510` tests the installment's
  nullifier before the circuit is awaited.
* **A burned commitment taken up again** (`commitment_reused`). `index.ts:1969` says a reseal burns the
  old commitment so that it "cannot be reused"; the handler does not look at the new one, and the
  wallet's load reseals to the old one when an answer was lost. The account is stuck until the next
  reseal to a fresh commitment.
* **A kit that restores the past** (`restored_stale`). `Recovery.tsx:149` says a kit "restores keys + balance
  on any device"; it is sealed at sign-up and never again, so after a payment it restores the balance
  of the sign-up, which the next load pushes to the server.

Smaller ones, met while modelling, that have no run:

* `LAUNCH_CHECKLIST.md:75`, `THREAT_MODEL.md:37`: a quote is single-use after settlement. A route keeps
  its own copy of the quote (`universalService.ts:583`), so it may be settled again until the quote
  expires.
* `sandboxLedger.ts:9` ("every settle/refund is atomic wrt balance") and `CIRCLED_TRUST_SURFACE.md:87`
  against `universalService.ts:511`: the credit follows a debit that failed, and each is persisted alone.
* `universalService.ts:667` ("Safe on repeat"): an event that comes after a refund reopens the entry
  (`stripeTest.ts:370`, `sandboxPsp.ts:218`), which can then be refunded again.
* `CIRCLED_REALISM_BOUNDARY.md:42` against `universalService.ts:484`: when a required testnet
  transaction fails the FX leg is not undone.
* `LAUNCH_CHECKLIST.md:70`, `PRODUCTION.md:75`: payments over the internal ledger have no webhook and
  stay in `webhook_missing`; `PaymentReconciles` is stated of acknowledging rails only. Records a
  restart has orphaned never reach a final state either (`LAUNCH_CHECKLIST.md:30`: open gaps go to 0).
* `stripeTest.ts:354`: the id of an event is noted before its entry is looked up, so an early event is
  lost and its repetition is ignored. `stripeTest.ts:216`: the index is read before the fetch and no
  Idempotency-Key is sent, so two overlapping settlements charge twice although
  `universalService.ts:756` speaks of idempotency. `OneChargePerRoute` is therefore stated of
  the rails that index their entries by the intent before they wait, not of the target leg at the remote
  API, and `PaymentReconciles` excepts a payment whose event came too early.
* `PRODUCTION.md:76` against an exception of `stripeFetch`: the source leg stays settled.
* `paymentMethodRegistry.ts:38` promises refunds for methods whose fallback rail has none.
* `CIRCLED_TRUST_SURFACE.md:126`: creating a quote never compares the amount with the balance.
* `reconciliation.ts:23` types an answer that `:72` always gives as `"reconciled"`.
* `paymentLifecycle.ts` allows `rail_failed → reversal_pending` and `manual_review → reconciled`, which
  the guard on final states makes unreachable.
* `sanctionsRescreen.ts:8` says stale credentials are revoked; `:42` marks a stale credential clear without a
  provider having looked, which renews it.
* `universalService.ts:336`: the receiver's clearance is read before the proof and not after it; `:642`: a
  refund asked of a refunded payment puts it into `manual_review`, and a reconciliation then calls it
  reconciled.
* `universalPersist.ts:55` ("Unique live Midnight Preprod transaction caused by this settlement"): with the
  anchor fallback the recorded transaction is the script's. The deployment file is read, changed and
  written by two processes, and a change of the other in between is lost.
* `brandsCatalog.ts:134` answers "payment address bound in brand registry" also for a revoked merchant, with
  no address.
* `disputes.ts:46`: a refund "is applied on-device after approval"; the device credits first and advances
  the dispute to approved last.
* `compactLedger.ts:659` says the lock serializes the shared witness bag; callers stage their witness
  outside it, so an honest circuit may be refused when calls overlap (`UndisturbedIsAccepted` is stated
  of calls no other call overlaps). No wrong witness is ever accepted where the contract checks a
  commitment; the policy and repayment circuits check none.
* `credit/service.ts` under overlapping calls, with the circuits' keys deployed. Two repayments of one loan, or
  two deliveries of one, both pass the checks (`:505-511`) and subtract twice: what is lent out is shown too low, and
  since liquidity is `poolTotal - poolOutstanding` (`:93`, `:338`) the pool offers, and lends, more than it has. Two
  loans whose circuits overlap pass the same check of the liquidity. Of two overlapping deposits, or a deposit and a
  seizure, the total loses one. A repayment that waits while its loan is liquidated makes it repaid (`:571-572`).
  A refused disbursement has burned the borrower's commitment. `BooksHold`, `ChecksHold` and `LoanEndsOnce` hold with
  keys and without, and except these overlaps, and no others, by name (`raced`, `rushed`, `twice`); with two
  devices, or a request delivered twice, nothing in the code excludes them.
* `docs/rail-agnostic-tx-auth.md:34` has the verification check "challenge + intent binding". That the challenge was
  issued for the intent is compared when a proof is made (`prover.ts:44`) and not when it is verified:
  `index.ts:1170` takes the proof from the body, and `verifier.ts:109` recomputes a digest without a key over
  values the caller has. A challenge issued for one signed intent can so authorize another signed
  one; `OfItsIntent` promises the intent of the challenge only of proofs the server made.
* A payment that is cut short (`bootstrap.ts:511-570`: a closed tab, the 90-second abort, a lost answer, a failing
  save) after the server took it leaves the device with the old vault, and `loadVault` (`deviceVault.ts:460`) then
  makes the server name that one; `NamesTheNewest` excepts it (`strayed`). The repair by the payment kept aside is
  `DeviceWallet`'s. A sign-out while a payment is under way is followed by the save of its vault, without keys
  (`raced`).
* `preprodWallet.ts:181` calls any failure that mentions a time-out or "0n" an unfunded wallet, and tells its user
  to fund it.
* `receivePay/confirm.ts:62` writes `confirmed` over `credited`; `credit.ts` credits an order again.
* The sheet of a payment. `PaymentPing.tsx:26` and `:369` say that Accept saves a new contact; it is saved
  when the intent is built (`bootstrap.ts:392`), so after a denial the same name is no stranger and its
  identity is not checked. An edited payment is built anew after Accept (`Wallet.tsx:480`) and settled
  without the new payment's own second Accept or check of a stranger, against
  `CIRCLED_VOICE_FALLBACK.md:107` and `PRODUCTION.md:9`; `AcceptedIsGated` therefore asks for the
  gates of the payment that was on the sheet. The confirm material is prefetched without the note
  (`Wallet.tsx:347`), so a note is dropped when the prefetch is used. The identity picked from several
  is not passed on (`PaymentPing.tsx:236`). A name typed by hand while the sheet needs no verdict is not
  verified again when a stranger's payment of that very name arrives: the effect at `PaymentPing.tsx:134` sees
  `verifyState` "done", and `:89` resets it only when the name changes, so the verdict of an earlier request,
  on another name, stands, against `:88` ("Reset the identity-verification gate whenever the target name
  changes") and `:203` ("Identity gate for non-contact payees: must run verification"). It takes two
  commands of the tour, a refused unlock and a late verdict; `AcceptedIsGated` excepts typed names. The timers
  that close a credit error (2.8 s) go home from whatever
  is shown by then.
* The adapter's demo. A refund request shows the pending amount of the moment (`UniversalAdapterDemo.tsx:590`);
  approving refunds the latest payment and not the one it was asked of (`:619`) and then writes back the
  receipt it had closed over (`:642`), so a newer payment disappears from the screen. A refund that the rail refuses
  leaves the payment in `manual_review` and is answered with success (`universalService.ts:626-681`); the screen marks
  it refunded and says that the money is "back in your wallet" (`:644`). `ScreenTellsTruth` says that
  what is called refunded was given back, and excepts just these, by name (`refused`). Further, the tampered
  route is called blocked on any failure (`:563`);
  a name the demo does not know pays the selected receiver (`:416`).
* The frame. Loads and payments that end after a sign-out bring the account back to the screen
  (`ViewHasAccount` is stated of moments with nothing under way). `App.tsx:143` says "Keep session pointer"
  and the next line clears it. The voice test, the tour and the demo sign-up erase every vault of the device
  first. A sign-up that fails after saving leaves the session pointing to the new account.
* The voice session. A command may be told after an error was (`voice.ts:446` does not end the session);
  when nothing was heard, neither the hard timer nor the engine's end tells the caller, whose screen keeps
  listening; interim texts and errors may be told after `stop`.

## 7. What is not modelled

* **Configuration, limits, observability**: read once at the start, or counters nothing depends on; the
  switches that change control flow are constants of the modules.
* **Arithmetic and language of the client** (`policy.ts`, `currency.ts`, `splitPay.ts`, `spokenNumbers.ts`,
  `i18n.ts`, `voiceNormalize.ts`): pure functions over decimals and texts without state. What a
  transcript parses to is a value in `VoiceListen`; the limit above which Accept is asked twice is a constant
  of `PaySheet`; the circuits' caps are in `Settlement` and `CompactLedger`.
* **Screens**: charts, the theatre, the proof displays, layout and animation. The *Repair vault* button of the
  wallet screen is `Repair` in `DeviceWallet`; `PaySheet` leaves it out.
* **Cryptography and secret sharing**: ideal. **Generated contract code** (`contracts/managed`) and vendor SDKs:
  by how they are used. **Scripts** other than the deployment are smoke tests, and the service worker caches
  assets.
* **Persistence**: a restart finds what `saveStore` wrote last; the migration of old files and the SQLite handle
  are left out.
* Inside modelled parts: paying out of Stripe's remote API; rates, fees and reserves; the pass-or-fail standing
  proof of the pool; replay files of earlier contract versions; openings of vaults of earlier versions and the
  claims of demo peers; several confirms of one intent by the wallet (the server side has them); enrolment of
  agents' merchants during a run.

## 8. Plan

1. **Proofs**: every safety property of a passing run is proved. Left: the pool's standing for installments
   that are not repeated (`StandingIsEarned` under the discipline `installment_twice` lacks), and abstract
   specifications of the platform and the pool with their refinements.
2. **Compositions**: wallet and settlement over one account, to state the double-spend discipline from
   the wallet's side; `Identity` as the registry whose root `Settlement` proves membership of.
3. **Client arithmetic**: `spokenNumbers`, `currency`, `splitPay` as operators against reference definitions
   over bounded inputs.
