----------------------------- MODULE AdapterDemo -----------------------------
(***************************************************************************)
(* The screen of the universal adapter (UniversalAdapterDemo.tsx): two     *)
(* phones, on one of which a payment is spoken or typed, accepted and      *)
(* settled, and on the other a refund is approved; and a route that is     *)
(* tampered with for show.                                                 *)
(*                                                                         *)
(* A handler runs to its next await and keeps what it read before, in      *)
(* particular the last payment (settleMeta); answers come in any order.    *)
(* The server is what the screen sees of it: a payment settles, a refund   *)
(* succeeds or leaves the payment in manual review, and both answer with   *)
(* success (Universal.tla has the rest).  Balances, the activity lists and *)
(* who pays whom are left out.                                             *)
(***************************************************************************)
EXTENDS Integers

CONSTANTS
  Amounts,
  MaxPays,    \* bound: payments sent
  MaxTampers, \* bound: routes tampered with at a time
  None

VARIABLES
  loaded,     \* the accounts are there
  phase,
  hearing,    \* speech recognition is on
  pending,    \* pendingAmount
  sent,       \* the amounts sent so far; payments are numbered
  paying,     \* confirmPay under way
  record,     \* server: what became of a payment
  meta,       \* settleMeta: the last payment
  request,    \* refundRequest
  refunding,  \* approveRefund under way, with the settleMeta it has read
  tamper,     \* tamperState
  tampering,  \* tampered settlements under way
  answered,   \* history: refunds of a payment that were answered well
  returned,   \* history: payments of which a refund moved the money back
  refused,    \* history: payments whose money is not back since the rail refused
              \* the refund, though the server's answer is a good one
  overlapped  \* history: a payment began while another one, its refund or
              \* the microphone was under way

vars == <<loaded, phase, hearing, pending, sent, paying, record, meta, request,
          refunding, tamper, tampering, answered, returned, refused, overlapped>>

Phases == {"home", "listening", "ping", "settling", "settled", "error"}
Ids == 1..MaxPays
Paying == [id : Ids, settled : BOOLEAN]
Meta == [pay : Ids, refunded : BOOLEAN]
Request == [amount : Amounts \union {0}, status : {"pending", "processing"}]

ConstantTypes ==
  /\ Amounts \subseteq Nat \ {0} /\ MaxPays \in Nat /\ MaxTampers \in Nat
  /\ None \notin Meta \union Request

TypeOK ==
  /\ loaded \in BOOLEAN /\ hearing \in BOOLEAN /\ overlapped \in BOOLEAN
  /\ phase \in Phases
  /\ pending \in Amounts \union {0}
  /\ sent \in [Ids -> Amounts \union {0}]
  /\ paying \subseteq Paying
  /\ record \in [Ids -> {"none", "settled", "refunded", "manual_review"}]
  /\ meta \in Meta \union {None}
  /\ request \in Request \union {None}
  /\ refunding \in [of : Meta, done : BOOLEAN] \union {None}
  /\ tamper \in {"idle", "running", "blocked"} /\ tampering \in 0..MaxTampers
  /\ answered \in [Ids -> 0..MaxPays]
  /\ returned \subseteq Ids /\ refused \subseteq Ids

Init ==
  /\ loaded = FALSE /\ phase = "home" /\ hearing = FALSE /\ pending = 0
  /\ sent = [p \in Ids |-> 0] /\ paying = {}
  /\ record = [p \in Ids |-> "none"]
  /\ meta = None /\ request = None /\ refunding = None
  /\ tamper = "idle" /\ tampering = 0
  /\ answered = [p \in Ids |-> 0] /\ returned = {} /\ refused = {}
  /\ overlapped = FALSE

busy == phase \in {"listening", "settling"} \/ tamper = "running"

payVars == <<sent, paying, record, meta>>
refundVars == <<request, refunding, answered, returned, refused>>
tamperVars == <<tamper, tampering>>

-----------------------------------------------------------------------------
(* Saying or typing a payment.                                             *)

LoadAccounts ==
  /\ ~loaded /\ loaded' = TRUE
  /\ UNCHANGED <<phase, hearing, pending, payVars, refundVars, tamperVars, overlapped>>

(* The widget of the sender's phone, or the error's button.                *)
StartVoice ==
  /\ loaded /\ phase \notin {"ping", "settling"}
  /\ hearing' = TRUE /\ phase' = "listening"
  /\ UNCHANGED <<loaded, pending, payVars, refundVars, tamperVars, overlapped>>

(* Typed entry, also from the widget when there is no microphone.          *)
OpenTypedEntry ==
  /\ phase = "error" \/ (loaded /\ (~busy \/ phase \notin {"ping", "settling"}))
  /\ hearing' = FALSE /\ pending' = 0 /\ phase' = "ping"
  /\ UNCHANGED <<loaded, payVars, refundVars, tamperVars, overlapped>>

(* Something was heard: an amount, none, or one above the balance.         *)
Heard(a, short) ==
  /\ hearing /\ hearing' = FALSE
  /\ IF short THEN phase' = "error" /\ UNCHANGED pending
              ELSE phase' = "ping" /\ pending' = a
  /\ UNCHANGED <<loaded, payVars, refundVars, tamperVars, overlapped>>

NotHeard(to) ==
  /\ hearing /\ hearing' = FALSE
  /\ to \in {"home", "error"} /\ phase' = to
  /\ UNCHANGED <<loaded, pending, payVars, refundVars, tamperVars, overlapped>>

(* Denied, done, another person: back to the widget.  The tabs of senders  *)
(* and receivers do not answer while the screen is busy.                   *)
GoHome(tab) ==
  /\ CASE tab = "deny"     -> phase = "ping"
       [] tab = "done"     -> phase = "settled"
       [] tab = "switch"   -> phase = "error"
       [] tab = "sender"   -> ~busy
       [] tab = "receiver" -> ~busy
  /\ phase' = "home"
  /\ tamper' = IF tab \in {"deny", "done"} THEN tamper ELSE "idle"
  /\ UNCHANGED <<loaded, hearing, pending, payVars, refundVars, tampering, overlapped>>

-----------------------------------------------------------------------------
(* confirmPay: quote, route, settlement and balances, one after the other. *)

Fresh(p) == sent[p] = 0 /\ \A q \in Ids : q < p => sent[q] # 0

ConfirmPay(a) ==
  /\ \E p \in Ids : /\ Fresh(p)
                    /\ sent' = [sent EXCEPT ![p] = a]
                    /\ paying' = paying \union {[id |-> p, settled |-> FALSE]}
  /\ pending' = a /\ phase' = "settling" /\ tamper' = "idle"
  /\ overlapped' = (overlapped \/ paying # {} \/ refunding # None \/ hearing)
  /\ UNCHANGED <<loaded, hearing, record, meta, refundVars, tampering>>

(* On the sheet (PaySheet.tla), or the demonstration for the judges.       *)
Accept(a) == phase = "ping" /\ ConfirmPay(a)
RunJudgeDemo(a) == loaded /\ ~busy /\ ConfirmPay(a)

ServerSettles(c) ==
  /\ c \in paying /\ ~c.settled
  /\ paying' = (paying \ {c}) \union {[c EXCEPT !.settled = TRUE]}
  /\ record' = [record EXCEPT ![c.id] = "settled"]
  /\ UNCHANGED <<loaded, phase, hearing, pending, sent, meta, refundVars, tamperVars,
                 overlapped>>

PaymentShown(c) ==
  /\ c \in paying /\ c.settled
  /\ paying' = paying \ {c}
  /\ meta' = [pay |-> c.id, refunded |-> FALSE]
  /\ phase' = "settled"
  /\ UNCHANGED <<loaded, hearing, pending, sent, record, refundVars, tamperVars, overlapped>>

(* A refusal, or an answer that is lost.                                   *)
PaymentFails(c) ==
  /\ c \in paying
  /\ paying' = paying \ {c}
  /\ phase' = "error"
  /\ UNCHANGED <<loaded, hearing, pending, sent, record, meta, refundVars, tamperVars,
                 overlapped>>

-----------------------------------------------------------------------------
(* Refunds.                                                                *)

(* The button is shown after a payment, on an error, and below.            *)
RequestRefund ==
  /\ phase \in {"settled", "error"} \/ ~busy
  /\ meta # None /\ request = None
  /\ ~meta.refunded
  /\ request' = [amount |-> pending, status |-> "pending"]
  /\ phase' = "home"
  /\ UNCHANGED <<loaded, hearing, pending, payVars, refunding, answered, returned, refused,
                 tamperVars, overlapped>>

DeclineRefund ==
  /\ request # None /\ request.status = "pending"
  /\ request' = None
  /\ UNCHANGED <<loaded, phase, hearing, pending, payVars, refunding, answered, returned,
                 refused, tamperVars, overlapped>>

(* What is refunded is the last payment, asked for or not.                 *)
ApproveRefund ==
  /\ meta # None /\ request # None /\ request.status = "pending"
  /\ request' = [request EXCEPT !.status = "processing"]
  /\ refunding' = [of |-> meta, done |-> FALSE]
  /\ overlapped' = (overlapped \/ paying # {})
  /\ UNCHANGED <<loaded, phase, hearing, pending, payVars, answered, returned, refused,
                 tamperVars>>

(* The target's rail refunds a payment once.  When it does not, the server *)
(* puts the payment to manual review, and still answers with success.      *)
ServerRefunds(works) ==
  LET p == refunding.of.pay
      moves == works /\ p \notin returned
  IN  /\ refunding # None /\ ~refunding.done
      /\ refunding' = [refunding EXCEPT !.done = TRUE]
      /\ record' = [record EXCEPT ![p] = IF moves THEN "refunded" ELSE "manual_review"]
      /\ returned' = IF moves THEN returned \union {p} ELSE returned
      /\ refused' = IF works \/ p \in returned THEN refused \ {p} ELSE refused \union {p}
      /\ UNCHANGED <<loaded, phase, hearing, pending, sent, paying, meta, request, answered,
                     tamperVars, overlapped>>

Marked(of) == [of EXCEPT !.refunded = TRUE]

RefundShown ==
  /\ refunding # None /\ refunding.done
  /\ meta' = Marked(refunding.of)
  /\ answered' = [answered EXCEPT ![refunding.of.pay] = @ + 1]
  /\ refunding' = None /\ request' = None
  /\ UNCHANGED <<loaded, phase, hearing, pending, sent, paying, record, returned, refused,
                 tamperVars, overlapped>>

RefundFails ==
  /\ refunding # None
  /\ refunding' = None /\ request' = None
  /\ phase' = "error"
  /\ UNCHANGED <<loaded, hearing, pending, payVars, answered, returned, refused, tamperVars,
                 overlapped>>

-----------------------------------------------------------------------------
(* tamperRouteDemo.  The server refuses a route that was not quoted, and   *)
(* the screen takes any failure for that.                                  *)
TamperRoute ==
  /\ loaded /\ ~busy /\ tampering < MaxTampers
  /\ tamper' = "running" /\ tampering' = tampering + 1
  /\ UNCHANGED <<loaded, phase, hearing, pending, payVars, refundVars, overlapped>>

TamperBlocked ==
  /\ tampering > 0 /\ tampering' = tampering - 1
  /\ tamper' = "blocked"
  /\ UNCHANGED <<loaded, phase, hearing, pending, payVars, refundVars, overlapped>>

-----------------------------------------------------------------------------
Next ==
  \/ LoadAccounts \/ StartVoice \/ OpenTypedEntry
  \/ \E a \in Amounts \union {0}, short \in BOOLEAN : Heard(a, short)
  \/ \E to \in Phases : NotHeard(to)
  \/ \E tab \in {"deny", "done", "switch", "sender", "receiver"} : GoHome(tab)
  \/ \E a \in Amounts : Accept(a) \/ RunJudgeDemo(a)
  \/ \E c \in paying : ServerSettles(c) \/ PaymentShown(c) \/ PaymentFails(c)
  \/ RequestRefund \/ DeclineRefund \/ ApproveRefund
  \/ \E works \in BOOLEAN : ServerRefunds(works)
  \/ RefundShown \/ RefundFails
  \/ TamperRoute \/ TamperBlocked

Spec == Init /\ [][Next]_vars

-----------------------------------------------------------------------------
(* When the screen says that a payment's money is back in the wallet, one  *)
(* refund of it was answered, no second one is asked for after that, and   *)
(* the server has moved the money back, however payments, refunds and lost *)
(* answers overlap.  The exception is a refund that the rail refused: the  *)
(* server leaves such a payment in manual review, answers with success,    *)
(* and the screen says "back in your wallet" of it as well (refused).      *)
(* And what "Sent" shows, unless handlers overlapped, is the payment the   *)
(* server settled, with its amount.                                        *)
ScreenTellsTruth ==
  /\ \A p \in Ids : answered[p] <= 1
  /\ meta # None /\ meta.refunded =>
       answered[meta.pay] = 1 /\ (meta.pay \in returned \/ meta.pay \in refused)
  /\ phase = "settled" /\ ~overlapped =>
       meta # None /\ record[meta.pay] # "none" /\ sent[meta.pay] = pending
=============================================================================
