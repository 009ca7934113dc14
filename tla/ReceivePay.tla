------------------------------ MODULE ReceivePay ------------------------------
(***************************************************************************)
(* Receiving payments (server/receivePay): a merchant mints a destination  *)
(* for an order, payments that arrive are matched to orders or flagged,    *)
(* the merchant signs a confirmation of what was matched, and the payment  *)
(* is credited to the merchant's private balance.  runReceiveWorkflow is   *)
(* the five in that order.                                                 *)
(*                                                                         *)
(* Confirming awaits the merchant's signer and crediting awaits a circuit  *)
(* and its proof; the rest awaits nothing.  Balance commitments a credit   *)
(* brings are named after the call; other handlers replace the account's   *)
(* commitment meanwhile (Settlement.tla, CreditPool.tla).                  *)
(***************************************************************************)
EXTENDS Integers, FiniteSets

CONSTANTS
  Orders,      \* order references
  Payments,    \* references of inbound payments
  Confirms,    \* calls of /confirm
  Credits,     \* calls of /credit
  Others,      \* what other handlers replace the account's commitment by
  MaxCrashes,  \* bound: restarts
  None

Commitments == {"opening"} \union Credits \union Others

VARIABLES
  revoked,    \* the merchant was revoked
  status,     \* of the order's destination; "none" before it is minted
  observed,   \* the payment an order was matched with
  unmatched,  \* the payments that were flagged, by order
  reported,   \* history: the payments that were reported, by order
  confirmed,  \* calls whose confirmation was stored, by order
  confirm,    \* calls of /confirm
  credit,     \* calls of /credit
  tip,        \* balanceCommitment of the merchant's account
  spent,      \* commitments whose nullifier is spent
  crashes

vars == <<revoked, status, observed, unmatched, reported, confirmed, confirm, credit,
          tip, spent, crashes>>
orderVars == <<status, observed, unmatched, reported, confirmed>>

Statuses == {"none", "minted", "inbound_detected", "reconciled", "confirmed", "credited"}
ConfirmRecord == [at : {"signing", "answered", "lost"}, order : Orders]
CreditRecord == [at : {"proving", "answered", "refused", "lost"}, order : Orders,
                 account : BOOLEAN, old : Commitments]

(* What the constants have to be.                                          *)
ConstantTypes ==
  /\ MaxCrashes \in Nat
  /\ None \notin Payments \union ConfirmRecord \union CreditRecord
  /\ Credits \intersect Others = {} /\ "opening" \notin Credits

TypeOK ==
  /\ revoked \in BOOLEAN
  /\ status \in [Orders -> Statuses]
  /\ observed \in [Orders -> Payments \union {None}]
  /\ unmatched \subseteq Payments \X Orders /\ reported \subseteq Payments \X Orders
  /\ confirmed \subseteq Confirms \X Orders
  /\ confirm \in [Confirms -> ConfirmRecord \union {None}]
  /\ credit \in [Credits -> CreditRecord \union {None}]
  /\ tip \in Commitments /\ spent \subseteq Commitments
  /\ crashes \in 0..MaxCrashes

Init ==
  /\ revoked = FALSE
  /\ status = [o \in Orders |-> "none"] /\ observed = [o \in Orders |-> None]
  /\ unmatched = {} /\ reported = {} /\ confirmed = {}
  /\ confirm = [c \in Confirms |-> None] /\ credit = [k \in Credits |-> None]
  /\ tip = "opening" /\ spent = {} /\ crashes = 0

(* by_order_ref: one destination for an order, ever.                       *)
Mint(o) ==
  /\ ~revoked /\ status[o] = "none"
  /\ status' = [status EXCEPT ![o] = "minted"]
  /\ UNCHANGED <<revoked, observed, unmatched, reported, confirmed, confirm, credit,
                 tip, spent, crashes>>

(* observeInbound: right says that destination, amount and currency, as    *)
(* far as they were given, are those of the mint.                          *)
NeverTaken(o, p) == FALSE
TakenByAnother(o, p) == observed[o] # None /\ observed[o] # p
Observe(o, p) ==
  /\ reported' = reported \union {<<p, o>>}
  /\ \E right \in BOOLEAN :
       IF status[o] = "none" \/ ~right \/ TakenByAnother(o, p)
       THEN /\ unmatched' = unmatched \union {<<p, o>>}
            /\ UNCHANGED <<status, observed>>
       ELSE /\ observed' = [observed EXCEPT ![o] = p]
            /\ status' = [status EXCEPT ![o] = IF @ = "minted" THEN "inbound_detected" ELSE @]
            /\ unmatched' = unmatched
  /\ UNCHANGED <<revoked, confirmed, confirm, credit, tip, spent, crashes>>

(* reconcileByOrderRef                                                     *)
Reconciled(o) ==
  IF status[o] \in {"reconciled", "confirmed", "credited"} THEN status[o] ELSE "reconciled"
Matched(o) == observed[o] # None

Reconcile(o) ==
  /\ Matched(o)
  /\ status' = [status EXCEPT ![o] = Reconciled(o)]
  /\ UNCHANGED <<revoked, observed, unmatched, reported, confirmed, confirm, credit,
                 tip, spent, crashes>>

(* issueSettlementConfirmation reconciles first, returns the confirmation  *)
(* there is, and otherwise waits for the merchant's signature.             *)
Confirmations(o) == {c \in Confirms : <<c, o>> \in confirmed}
HasOne(o) == status[o] \in {"confirmed", "credited"} /\ Confirmations(o) # {}

BeginConfirm(c) ==
  /\ confirm[c] = None
  /\ \E o \in Orders :
       /\ Matched(o)
       /\ status' = [status EXCEPT ![o] = Reconciled(o)]
       /\ confirm' = [confirm EXCEPT ![c] =
            [at |-> IF HasOne(o) \/ revoked THEN "answered" ELSE "signing", order |-> o]]
  /\ UNCHANGED <<revoked, observed, unmatched, reported, confirmed, credit,
                 tip, spent, crashes>>

(* The status is written whatever it has become.                           *)
EndConfirm(c) ==
  /\ confirm[c] # None /\ confirm[c].at = "signing"
  /\ confirm' = [confirm EXCEPT ![c].at = "answered"]
  /\ confirmed' = confirmed \union {<<c, confirm[c].order>>}
  /\ status' = [status EXCEPT ![confirm[c].order] = "confirmed"]
  /\ UNCHANGED <<revoked, observed, unmatched, reported, credit, tip, spent, crashes>>

(* The signer is out of reach or refuses.                                  *)
FailConfirm(c) ==
  /\ confirm[c] # None /\ confirm[c].at = "signing"
  /\ confirm' = [confirm EXCEPT ![c].at = "answered"]
  /\ UNCHANGED <<revoked, orderVars, credit, tip, spent, crashes>>

(* creditPrivateBalance, up to its circuit.  The caller may name the       *)
(* account, and the balance it believes to be the account's; an order that *)
(* was credited may be credited again.                                     *)
BeginCredit(k) ==
  /\ credit[k] = None
  /\ \E o \in Orders, account \in BOOLEAN, old \in spent \union {tip} :
       /\ status[o] \in {"confirmed", "credited"} /\ Confirmations(o) # {}
       /\ credit' = [credit EXCEPT ![k] = [at |-> "proving", order |-> o,
                                           account |-> account, old |-> old]]
  /\ UNCHANGED <<revoked, orderVars, confirm, tip, spent, crashes>>

(* After the proof, the account must still hold the balance named.         *)
HeldBefore(k) == TRUE
StillHolds(k) == tip = credit[k].old

EndCredit(k) ==
  /\ credit[k] # None /\ credit[k].at = "proving"
  /\ IF credit[k].account => StillHolds(k)
     THEN /\ credit' = [credit EXCEPT ![k].at = "answered"]
          /\ status' = [status EXCEPT ![credit[k].order] = "credited"]
          /\ IF credit[k].account THEN spent' = spent \union {tip} /\ tip' = k
             ELSE UNCHANGED <<spent, tip>>
     ELSE /\ credit' = [credit EXCEPT ![k].at = "refused"]
          /\ UNCHANGED <<spent, tip, status>>
  /\ UNCHANGED <<revoked, observed, unmatched, reported, confirmed, confirm, crashes>>

FailCredit(k) ==
  /\ credit[k] # None /\ credit[k].at = "proving"
  /\ credit' = [credit EXCEPT ![k].at = "refused"]
  /\ UNCHANGED <<revoked, orderVars, confirm, tip, spent, crashes>>

(* A payment, a reseal or a loan of the same account; a payment that was   *)
(* overtaken burns a balance from before.                                  *)
OtherHandler(x) ==
  /\ x \notin spent \union {tip}
  /\ tip' = x /\ \E old \in spent \union {tip} : spent' = spent \union {old}
  /\ UNCHANGED <<revoked, orderVars, confirm, credit, crashes>>

Revoke ==
  /\ ~revoked /\ revoked' = TRUE
  /\ UNCHANGED <<orderVars, confirm, credit, tip, spent, crashes>>

Crash ==
  /\ crashes < MaxCrashes /\ crashes' = crashes + 1
  /\ confirm' = [c \in Confirms |-> IF confirm[c] # None /\ confirm[c].at = "signing"
                                    THEN [confirm[c] EXCEPT !.at = "lost"] ELSE confirm[c]]
  /\ credit' = [k \in Credits |-> IF credit[k] # None /\ credit[k].at = "proving"
                                  THEN [credit[k] EXCEPT !.at = "lost"] ELSE credit[k]]
  /\ UNCHANGED <<revoked, orderVars, tip, spent>>

Next ==
  \/ \E o \in Orders : Mint(o) \/ Reconcile(o) \/ \E p \in Payments : Observe(o, p)
  \/ \E c \in Confirms : BeginConfirm(c) \/ EndConfirm(c) \/ FailConfirm(c)
  \/ \E k \in Credits : BeginCredit(k) \/ EndCredit(k) \/ FailCredit(k)
  \/ \E x \in Others : OtherHandler(x)
  \/ Revoke \/ Crash

Spec == Init /\ [][Next]_vars

-----------------------------------------------------------------------------
(* resolveBuyerPaymentState, for a buyer that says it has paid.            *)
BuyerState(o) ==
  IF Confirmations(o) # {} THEN "payment_received_and_matched"
  ELSE IF observed[o] # None \/ status[o] \notin {"none", "minted"}
       THEN "payment_sent_not_yet_matched"
       ELSE "payment_sent"

(* A payment is never accepted in silence: what was reported for an order  *)
(* is what the order was matched with, or it is flagged.  The buyer is     *)
(* told "matched" of matched orders only, and only those are credited,     *)
(* also when two confirmations or credits of an order overlap.             *)
InboundAccounted ==
  /\ \A pair \in reported : observed[pair[2]] = pair[1] \/ pair \in unmatched
  /\ \A o \in Orders :
       /\ BuyerState(o) = "payment_received_and_matched" => observed[o] # None
       /\ status[o] = "credited" => BuyerState(o) = "payment_received_and_matched"

(* A credit replaces the account's present balance only, and that one is   *)
(* the balance its caller named: what other handlers did while the credit  *)
(* was proved is never overwritten.                                        *)
CreditKeepsOthers == \A k \in Credits : tip' = k /\ tip # k => credit[k].old = tip
=============================================================================
