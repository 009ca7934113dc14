----------------------------- MODULE DeviceWallet -----------------------------
(***************************************************************************)
(* The wallet of one account (src/lib): the encrypted vault on the device  *)
(* holds the balance and the opening of its commitment, the server only    *)
(* the commitment.  Payments, top-ups and refunds change both sides, one   *)
(* after the other, and a tab may be closed, time out or fail to save in   *)
(* between.  Two things bring the sides together again: loading the vault  *)
(* pushes its balance to the server (alignBalanceCommitmentWithServer),    *)
(* and a spend that settled but was not saved is kept aside for a repair   *)
(* (pendingApply.ts).                                                      *)
(*                                                                         *)
(* Amounts are one unit.  A commitment is the pair of the balance and the  *)
(* opening it hides, and an opening is named after the payment or credit   *)
(* that drew it.  A load, from reading the vault to saving it, is one      *)
(* step.  Openings of vaults from earlier versions are not modelled.       *)
(***************************************************************************)
EXTENDS Integers, FiniteSets

CONSTANTS
  Tabs,       \* pages of the app open on the device
  Payments,
  TopUps, Refunds,
  Opening,    \* the first balance
  None

Credits == TopUps \union Refunds

ASSUME OpeningType == Opening \in Nat
ASSUME Distinct ==
  /\ TopUps \intersect Refunds = {}
  /\ Payments \intersect Credits = {}
  /\ {"first", None} \intersect (Payments \union Credits) = {}

VARIABLES
  tip,      \* server: balanceCommitment
  spent,    \* server: commitments whose nullifier is spent
  wire,     \* server: what became of a payment's confirm request
  vault,    \* device: the vault on disk
  aside,    \* device: circle_pending_local_apply
  op,       \* what a tab is doing, with the vault it holds
  intent,   \* the commitments a payment was built with
  begun,    \* credits that were begun
  deducted, \* history: payments taken off the vault's balance
  credited, \* history: credits added to it
  strayed   \* history: an operation was abandoned, overlapped with another
            \* one, or gave a refund while a repair was outstanding

serverVars == <<tip, spent, wire>>
deviceVars == <<vault, aside>>
history == <<deducted, credited, strayed>>
vars == <<serverVars, deviceVars, op, intent, begun, history>>

Openings == {"first"} \union Payments \union Credits
Commitments == Nat \X Openings
Vault == [balance : Nat, opening : Openings, commitment : Commitments]
Intent == [old : Commitments, new : Commitments]
Idle == [at |-> "idle", id |-> None, held |-> None]
Busy == [at : {"ping", "waiting", "applying", "clearing", "resealing", "crediting"},
         id : Payments \union Credits, held : Vault]

ASSUME NoneIsNoIntent == None \notin Intent

TypeOK ==
  /\ tip \in Commitments
  /\ spent \subseteq Commitments
  /\ wire \in [Payments -> {"none", "sent", "proving", "settled", "refused"}]
  /\ vault \in Vault
  /\ aside \in Payments \union {None}
  /\ op \in [Tabs -> Busy \union {Idle}]
  /\ intent \in [Payments -> Intent \union {None}]
  /\ begun \subseteq Credits
  /\ deducted \subseteq Payments
  /\ credited \subseteq Credits
  /\ strayed \in BOOLEAN

Init ==
  /\ tip = <<Opening, "first">>
  /\ spent = {}
  /\ wire = [p \in Payments |-> "none"]
  /\ vault = [balance |-> Opening, opening |-> "first",
              commitment |-> <<Opening, "first">>]
  /\ aside = None
  /\ op = [t \in Tabs |-> Idle]
  /\ intent = [p \in Payments |-> None]
  /\ begun = {}
  /\ deducted = {}
  /\ credited = {}
  /\ strayed = FALSE

Alone(t) == \A u \in Tabs \ {t} : op[u] = Idle
At(t, where) == op[t].at = where

-----------------------------------------------------------------------------
(* Bringing vault and server together.                                     *)

Expected(v) == <<v.balance, v.opening>>
Aligned(v) == [v EXCEPT !.commitment = Expected(v)]

Spend(v, p) == [balance |-> v.balance - 1, opening |-> p, commitment |-> intent[p].new]
Credited(v, c) == [balance |-> v.balance + 1, opening |-> c,
                   commitment |-> <<v.balance + 1, c>>]

(* The reseal of the server's commitment to a new one burns the old.       *)
Resealed(old, new) == IF old = new THEN spent ELSE spent \union {old}

(* Mutant of Pushed: the vault's own commitment is given as the old one.   *)
PushedFromVault(v) ==
  IF v.commitment = tip
    THEN tip' = Expected(v) /\ spent' = Resealed(tip, Expected(v))
    ELSE UNCHANGED <<tip, spent>>

Pushed(v) == tip' = Expected(v) /\ spent' = Resealed(tip, Expected(v))

(* loadVault.  Out of reach of the server the vault stays as it is.        *)
Loaded(online) ==
  IF online THEN Pushed(vault) /\ vault' = Aligned(vault)
            ELSE UNCHANGED <<tip, spent, vault>>

(* A screen is opened.                                                     *)
Load(t) ==
  /\ op[t] = Idle
  /\ Loaded(TRUE)
  /\ strayed' = (strayed \/ ~Alone(t))
  /\ UNCHANGED <<wire, aside, op, intent, begun, deducted, credited>>

(* What Repair makes of the vault v: the spend may have been saved.        *)
Repaired(v) == IF v.commitment = intent[aside].new THEN v ELSE Spend(v, aside)

(* Mutant of RepairWorks: the balance need not cover the spend.            *)
RepairAlways(v) == TRUE

RepairWorks(v) == v.commitment = intent[aside].new \/ v.balance >= 1

(* Mutant of Forgotten: the spend that was kept aside stays there.         *)
Remembered == UNCHANGED aside

Forgotten == aside' = None

(* Repair vault.                                                           *)
Repair(t, online) ==
  LET v == IF online THEN Aligned(vault) ELSE vault
  IN  /\ op[t] = Idle
      /\ aside # None
      /\ RepairWorks(v)
      /\ IF online THEN Pushed(vault) ELSE UNCHANGED <<tip, spent>>
      /\ vault' = Repaired(v)
      /\ Forgotten
      /\ deducted' = deducted \union {aside}
      /\ strayed' = (strayed \/ ~Alone(t))
      /\ UNCHANGED <<wire, op, intent, begun, credited>>

-----------------------------------------------------------------------------
(* A payment: clientIntent, clientConfirm.                                 *)

BuildIntent(t, p, online) ==
  /\ op[t] = Idle
  /\ intent[p] = None
  /\ vault.balance >= 1
  /\ Loaded(online)
  /\ intent' = [intent EXCEPT ![p] =
                  [old |-> vault'.commitment, new |-> <<vault.balance - 1, p>>]]
  /\ op' = [op EXCEPT ![t] = [at |-> "ping", id |-> p, held |-> vault']]
  /\ strayed' = (strayed \/ ~Alone(t))
  /\ UNCHANGED <<wire, aside, begun, deducted, credited>>

Accept(t, online) ==
  /\ At(t, "ping")
  /\ Loaded(online)
  /\ wire' = [wire EXCEPT ![op[t].id] = "sent"]
  /\ op' = [op EXCEPT ![t].at = "waiting", ![t].held = vault']
  /\ UNCHANGED <<aside, intent, begun, history>>

(* Mutant of Acceptable: the nullifier is not looked up.                   *)
AcceptableTwice(p) == intent[p].old = tip

Acceptable(p) == intent[p].old = tip /\ tip \notin spent

(* The server's checks, and later, whatever came in between, its answer.   *)
Take(p) ==
  /\ wire[p] = "sent"
  /\ wire' = [wire EXCEPT ![p] = IF Acceptable(p) THEN "proving" ELSE "refused"]
  /\ UNCHANGED <<tip, spent, deviceVars, op, intent, begun, history>>

Settle(p) ==
  /\ wire[p] = "proving"
  /\ wire' = [wire EXCEPT ![p] = "settled"]
  /\ spent' = spent \union {intent[p].old}
  /\ tip' = intent[p].new
  /\ UNCHANGED <<deviceVars, op, intent, begun, history>>

Refuse(p) ==
  /\ wire[p] = "proving"
  /\ wire' = [wire EXCEPT ![p] = "refused"]
  /\ UNCHANGED <<tip, spent, deviceVars, op, intent, begun, history>>

(* Mutant of Succeeded: any answer is taken for a success.                 *)
Responded(p) == wire[p] \in {"settled", "refused"}

Succeeded(p) == wire[p] = "settled"

AnswerOk(t) ==
  /\ At(t, "waiting")
  /\ Succeeded(op[t].id)
  /\ aside' = op[t].id
  /\ op' = [op EXCEPT ![t].at = "applying"]
  /\ UNCHANGED <<serverVars, vault, intent, begun, history>>

AnswerRefused(t) ==
  /\ At(t, "waiting")
  /\ wire[op[t].id] = "refused"
  /\ op' = [op EXCEPT ![t] = Idle]
  /\ UNCHANGED <<serverVars, deviceVars, intent, begun, history>>

(* applySpend on the vault loaded before the request.                      *)
ApplySpend(t) ==
  /\ At(t, "applying")
  /\ op[t].held.balance >= 1
  /\ vault' = Spend(op[t].held, op[t].id)
  /\ deducted' = deducted \union {op[t].id}
  /\ op' = [op EXCEPT ![t].at = "clearing"]
  /\ UNCHANGED <<serverVars, aside, intent, begun, credited, strayed>>

(* Too little balance, or the vault cannot be saved.                       *)
ApplyFails(t) ==
  /\ At(t, "applying")
  /\ op' = [op EXCEPT ![t] = Idle]
  /\ UNCHANGED <<serverVars, deviceVars, intent, begun, history>>

Clear(t) ==
  /\ At(t, "clearing")
  /\ aside' = None
  /\ op' = [op EXCEPT ![t] = Idle]
  /\ UNCHANGED <<serverVars, vault, intent, begun, history>>

-----------------------------------------------------------------------------
(* A top-up (fundWallet) repairs first and tries again when the server has *)
(* moved on; a refund (approveRefundOnDevice) does neither.                *)

BeginTopUp(t, f) ==
  LET repairs == aside # None /\ RepairWorks(Aligned(vault))
      v == Aligned(IF repairs THEN Repaired(Aligned(vault)) ELSE vault)
  IN  /\ op[t] = Idle
      /\ f \notin begun
      /\ begun' = begun \union {f}
      /\ tip' = Expected(v)
      /\ spent' = IF Expected(v) = Expected(vault) THEN Resealed(tip, Expected(v))
                  ELSE Resealed(tip, Expected(vault)) \union {Expected(vault)}
      /\ vault' = v
      /\ aside' = IF repairs THEN None ELSE aside
      /\ deducted' = IF repairs THEN deducted \union {aside} ELSE deducted
      /\ op' = [op EXCEPT ![t] = [at |-> "resealing", id |-> f, held |-> v]]
      /\ strayed' = (strayed \/ ~Alone(t))
      /\ UNCHANGED <<wire, intent, credited>>

BeginRefund(t, r) ==
  /\ op[t] = Idle
  /\ r \notin begun
  /\ begun' = begun \union {r}
  /\ Loaded(TRUE)
  /\ op' = [op EXCEPT ![t] = [at |-> "resealing", id |-> r, held |-> vault']]
  /\ strayed' = (strayed \/ ~Alone(t) \/ aside # None)
  /\ UNCHANGED <<wire, aside, intent, deducted, credited>>

ResealCredit(t) ==
  LET held == op[t].held
      new == <<held.balance + 1, op[t].id>>
  IN  /\ At(t, "resealing")
      /\ op[t].id \in TopUps \/ held.commitment = tip
      /\ tip' = new
      /\ spent' = Resealed(tip, Expected(held)) \union {Expected(held)}
      /\ vault' = IF held.commitment = tip THEN vault ELSE held
      /\ op' = [op EXCEPT ![t].at = "crediting"]
      /\ UNCHANGED <<wire, aside, intent, begun, history>>

RefundRefused(t) ==
  /\ At(t, "resealing")
  /\ op[t].id \in Refunds
  /\ op[t].held.commitment # tip
  /\ op' = [op EXCEPT ![t] = Idle]
  /\ UNCHANGED <<serverVars, deviceVars, intent, begun, history>>

ApplyCredit(t) ==
  /\ At(t, "crediting")
  /\ vault' = Credited(op[t].held, op[t].id)
  /\ credited' = credited \union {op[t].id}
  /\ op' = [op EXCEPT ![t] = Idle]
  /\ UNCHANGED <<serverVars, aside, intent, begun, deducted, strayed>>

(* The tab is closed, the request takes longer than it waits for, or the   *)
(* network fails.                                                          *)
Leave(t) ==
  /\ op[t] # Idle
  /\ op' = [op EXCEPT ![t] = Idle]
  /\ strayed' = (strayed \/ ~At(t, "ping"))
  /\ UNCHANGED <<serverVars, deviceVars, intent, begun, deducted, credited>>

-----------------------------------------------------------------------------
Answer(t) == AnswerOk(t) \/ AnswerRefused(t)

Finish(t) ==
  \/ ApplySpend(t) \/ ApplyFails(t) \/ Clear(t)
  \/ ResealCredit(t) \/ RefundRefused(t) \/ ApplyCredit(t)

Next ==
  \/ \E t \in Tabs :
       \/ Load(t)
       \/ \E online \in BOOLEAN : Repair(t, online)
       \/ \E p \in Payments, online \in BOOLEAN : BuildIntent(t, p, online)
       \/ \E online \in BOOLEAN : Accept(t, online)
       \/ Answer(t) \/ Finish(t) \/ Leave(t)
       \/ \E f \in TopUps : BeginTopUp(t, f)
       \/ \E r \in Refunds : BeginRefund(t, r)
  \/ \E p \in Payments : Take(p) \/ Settle(p) \/ Refuse(p)

Spec == Init /\ [][Next]_vars

(* The server answers, a tab finishes or is left, and the user opens the   *)
(* app again and taps Repair when told to.                                 *)
FairSpec ==
  /\ Spec
  /\ \A t \in Tabs : /\ WF_vars(Load(t)) /\ WF_vars(Repair(t, TRUE))
                      /\ WF_vars(Finish(t)) /\ WF_vars(Leave(t))
  /\ \A p \in Payments : WF_vars(Take(p)) /\ WF_vars(Settle(p) \/ Refuse(p))

-----------------------------------------------------------------------------
Settled == {p \in Payments : wire[p] = "settled"}
AtRest == aside = None /\ \A t \in Tabs : op[t] = Idle

(* As long as operations are carried through one at a time, the device's   *)
(* balance is right whenever nothing is outstanding: it has deducted the   *)
(* payments the server settled, each once, and added its credits, even if  *)
(* saves failed and were repaired (clientConfirm, repairPendingLocalApply).*)
(* A payment made before the repair would hide the first one; it is        *)
(* refused because loading the vault put the burned commitment back.       *)
MoneyAddsUp ==
  AtRest /\ ~strayed =>
    /\ deducted = Settled
    /\ vault.balance = Opening + Cardinality(credited) - Cardinality(Settled)

(* However tabs are closed, overlap or fail, nothing is deducted on the    *)
(* device that the server did not settle.                                  *)
DeductedWasSettled == deducted \subseteq Settled

(* Undisturbed operations leave the right balance on the device, and only  *)
(* what the server settled is deducted.                                    *)
PaymentsAreKept == MoneyAddsUp /\ DeductedWasSettled

(* In the end the server holds the commitment that the device can open     *)
(* (alignBalanceCommitmentWithServer).                                     *)
Agrees == vault.commitment = Expected(vault) /\ tip = vault.commitment
WalletAgrees == <>[]Agrees

(* A spend kept aside does not stay there, unless the balance no longer    *)
(* covers it: two tabs may have spent one commitment.                      *)
AsideIsRepaired == aside # None ~> aside = None \/ vault.balance = 0

(* The reseal endpoint: a commitment that was burned does not become the   *)
(* account's commitment again.                                             *)
BurnedStaysBurned == tip \notin spent
=============================================================================
