------------------------------- MODULE Disputes -------------------------------
(***************************************************************************)
(* Disputes and refunds (src/lib/disputes.ts, services/disputes.ts) as the *)
(* insights screen drives them.  One click opens a dispute at the server,  *)
(* marks the payment, brings the server's balance commitment to the        *)
(* vault's, reseals it with the refund added, credits the vault, records   *)
(* the refund in the history and at last advances the dispute.  Each click *)
(* works on the vault the screen showed when it was clicked, so two of     *)
(* them, or a click and a change of the budgets, overwrite each other.     *)
(*                                                                         *)
(* A payment is one unit.  A commitment is the balance with the opening    *)
(* that hides it, and openings are numbered in the order they are drawn.   *)
(***************************************************************************)
EXTENDS Integers, FiniteSets

CONSTANTS Payments,   \* the settled outgoing payments in the history
          Clicks,     \* clicks on "Dispute / refund", each used once
          Opening,    \* the balance before the first refund
          MaxSeals,   \* bound on the openings drawn
          None

Statuses == {"opened", "merchant_review", "refund_approved", "refund_rejected", "closed"}

(* What the constants have to be.                                          *)
ConstantTypes ==
  /\ IsFiniteSet(Payments) /\ Opening \in Nat /\ MaxSeals \in Nat
  /\ None \notin Payments /\ None \notin Statuses

VARIABLES disk,      \* the vault in local storage
          shown,     \* the vault the screens render (App's vaultSnapshot)
          tip,       \* the balance commitment at the server
          seals,     \* openings drawn so far
          flow,      \* per click: where its handler is, its payment, its vault
          dispute    \* per click: the status of the dispute it opened

vars == <<disk, shown, tip, seals, flow, dispute>>

Vault == [balance : Nat, opening : 0..MaxSeals,
          status : [Payments -> {"settled", "disputed", "refunded"}]]
Stages == {"idle", "opening", "marking", "aligning", "resealing", "crediting", "recording",
           "advancing"}
First == [balance |-> Opening, opening |-> 0, status |-> [p \in Payments |-> "settled"]]
Commitment(v) == <<v.balance, v.opening>>

TypeOK ==
  /\ disk \in Vault /\ shown \in Vault
  /\ tip \in Nat \X (0..MaxSeals) /\ seals \in 0..MaxSeals
  /\ flow \in [Clicks -> [at : Stages, p : Payments \union {None}, held : Vault]]
  /\ dispute \in [Clicks -> Statuses \union {None}]

Init ==
  /\ disk = First /\ shown = First
  /\ tip = Commitment(First) /\ seals = 0
  /\ flow = [c \in Clicks |-> [at |-> "idle", p |-> None, held |-> First]]
  /\ dispute = [c \in Clicks |-> None]

At(c, stage) == flow[c].at = stage
Becomes(c, stage, v) == flow' = [flow EXCEPT ![c].at = stage, ![c].held = v]
Quiet == \A c \in Clicks : At(c, "idle")

-----------------------------------------------------------------------------
(* Mutant of Offered: the button stays on a payment that was disputed.     *)
OfferedAlways(p) == p \in Payments

(* The button is on the card of an outgoing payment not yet disputed.      *)
Offered(p) == shown.status[p] = "settled"

Click(c, p) ==
  /\ At(c, "idle") /\ flow[c].p = None /\ Offered(p)
  /\ flow' = [flow EXCEPT ![c] = [at |-> "opening", p |-> p, held |-> shown]]
  /\ UNCHANGED <<disk, shown, tip, seals, dispute>>

(* openDispute saves the record at the server, then answers, or is lost.   *)
Open(c, answered) ==
  /\ At(c, "opening")
  /\ dispute' = [dispute EXCEPT ![c] = "opened"]
  /\ flow' = [flow EXCEPT ![c].at = IF answered THEN "marking" ELSE "idle"]
  /\ UNCHANGED <<disk, shown, tip, seals>>

(* A request fails before it changes anything: the handler shows an alert. *)
Fail(c) ==
  /\ flow[c].at \in {"opening", "aligning", "resealing"}
  /\ flow' = [flow EXCEPT ![c].at = "idle"]
  /\ UNCHANGED <<disk, shown, tip, seals, dispute>>

(* markPaymentDisputed, and the screen is given the marked vault.          *)
Mark(c) ==
  /\ At(c, "marking")
  /\ LET next == [flow[c].held EXCEPT !.status[flow[c].p] = "disputed"] IN
       disk' = next /\ shown' = next /\ Becomes(c, "aligning", next)
  /\ UNCHANGED <<tip, seals, dispute>>

(* alignBalanceCommitmentWithServer: the held vault's commitment goes to   *)
(* the server; the vault is saved only when the server had another one.    *)
Align(c) ==
  /\ At(c, "aligning")
  /\ tip' = Commitment(flow[c].held)
  /\ disk' = IF tip = tip' THEN disk ELSE flow[c].held
  /\ Becomes(c, "resealing", flow[c].held)
  /\ UNCHANGED <<shown, seals, dispute>>

(* The reseal is accepted while the server still has the aligned one.      *)
Reseal(c) ==
  /\ At(c, "resealing") /\ tip = Commitment(flow[c].held) /\ seals < MaxSeals
  /\ seals' = seals + 1
  /\ LET v == [flow[c].held EXCEPT !.balance = @ + 1, !.opening = seals'] IN
       tip' = Commitment(v) /\ Becomes(c, "crediting", v)
  /\ UNCHANGED <<disk, shown, dispute>>

(* applyCredit saves the balance with the payment still disputed.          *)
Credit(c) ==
  /\ At(c, "crediting")
  /\ disk' = flow[c].held
  /\ Becomes(c, "recording", flow[c].held)
  /\ UNCHANGED <<shown, tip, seals, dispute>>

(* The history with the refunded payment is saved.                         *)
Record(c) ==
  /\ At(c, "recording")
  /\ LET next == [flow[c].held EXCEPT !.status[flow[c].p] = "refunded"] IN
       disk' = next /\ Becomes(c, "advancing", next)
  /\ UNCHANGED <<shown, tip, seals, dispute>>

(* The dispute is advanced, or the call throws, before or after it reached *)
(* the server, and the refunded vault is kept from the screen.             *)
Advance(c, reached, thrown) ==
  /\ At(c, "advancing") /\ (reached \/ thrown)
  /\ dispute' = IF reached THEN [dispute EXCEPT ![c] = "refund_approved"] ELSE dispute
  /\ shown' = IF thrown THEN shown ELSE flow[c].held
  /\ flow' = [flow EXCEPT ![c].at = "idle"]
  /\ UNCHANGED <<disk, tip, seals>>

(* updateSpendingBudgets saves the shown vault with other caps.            *)
SaveBudgets ==
  /\ disk' = shown
  /\ UNCHANGED <<shown, tip, seals, flow, dispute>>

(* The page is closed and opened again: loadVault aligns when it can.      *)
Reopen(online) ==
  /\ shown' = disk
  /\ tip' = IF online THEN Commitment(disk) ELSE tip
  /\ flow' = [c \in Clicks |-> [flow[c] EXCEPT !.at = "idle"]]
  /\ UNCHANGED <<disk, seals, dispute>>

(* Anyone may set a dispute's status through the endpoint.                 *)
Operate(c, status) ==
  /\ dispute[c] # None
  /\ dispute' = [dispute EXCEPT ![c] = status]
  /\ UNCHANGED <<disk, shown, tip, seals, flow>>

Next ==
  \/ SaveBudgets \/ \E online \in BOOLEAN : Reopen(online)
  \/ \E c \in Clicks :
       \/ \E p \in Payments : Click(c, p)
       \/ \E answered \in BOOLEAN : Open(c, answered)
       \/ Fail(c) \/ Mark(c) \/ Align(c) \/ Reseal(c) \/ Credit(c) \/ Record(c)
       \/ \E reached, thrown \in BOOLEAN : Advance(c, reached, thrown)
       \/ \E status \in Statuses : Operate(c, status)

Spec == Init /\ [][Next]_vars

-----------------------------------------------------------------------------
(* Properties.                                                             *)

With(v, statuses) == Cardinality({p \in Payments : v.status[p] \in statuses})

(* Whatever overwrites what, a vault's balance fits its own history: every *)
(* refunded payment was added once, and what else was added is at most the *)
(* payments still under dispute.                                           *)
BalanceFitsHistory(v) ==
  v.balance - Opening \in With(v, {"refunded"})..With(v, {"refunded", "disputed"})

(* No refund without a dispute at the server about that payment.           *)
RefundWasDisputed(v) ==
  \A p \in Payments : v.status[p] # "settled" =>
    \E c \in Clicks : flow[c].p = p /\ dispute[c] # None

(* Both hold of the vault on the device and of the one on the screen,      *)
(* through double clicks, lost answers and reopened pages.                 *)
DisputesHold ==
  \A v \in {disk, shown} : BalanceFitsHistory(v) /\ RefundWasDisputed(v)
===============================================================================
