---------------------------- MODULE Client_proofs ----------------------------
(***************************************************************************)
(* Proofs about Client for any tabs, payments, amounts, names, people,     *)
(* accounts and commands, and any bounds.  The parts come first, each with *)
(* an inductive invariant of its own; the composition comes last.          *)
(*                                                                         *)
(* The device wallet, with two invariants:                                 *)
(* 1. Flow ties the place a tab is at to what became of its request.  It   *)
(*    is inductive with TypeOK and gives []DeductedWasSettled, however     *)
(*    tabs overlap or are left.                                            *)
(* 2. Tidy holds as long as nothing strayed: one tab is busy at most, what *)
(*    it holds is the vault as it is, and a spend that settled and is not  *)
(*    yet taken off blocks the next one, because the server has burned     *)
(*    what the vault would spend.  With Flow it is inductive and gives     *)
(*    []PaymentsAreKept: the balance is right at rest.                     *)
(* The sheet (SheetsInv): which verdict is still asked for, and on which   *)
(* name; what was pressed is what is shown; what is confirmed was gated.   *)
(* The adapter's screen (DemoInv): what is remembered of the last payment  *)
(* is what the server has of it, and a refund is answered once.            *)
(* The frame (ShellInv): every handler that will show an account carries   *)
(* one, and alone it is the one the session points to.                     *)
(* The voice session (VoiceInv): the timer of a final command is set for   *)
(* what was heard last, with the engine at its end.                        *)
(***************************************************************************)
EXTENDS Client, FiniteSetTheorems, TLAPS

-----------------------------------------------------------------------------
(* Typing, and what a tab's place says of its payment.                     *)

(* What a tab is doing goes with what became of its payment's request: o   *)
(* is the operation of a tab.                                              *)
Placed(o) ==
  /\ o.at = "ping" => /\ o.id \in Payments
                      /\ intent[o.id] # None
                      /\ wire[o.id] = "none"
  /\ o.at = "waiting" => o.id \in Payments /\ wire[o.id] # "none"
  /\ o.at \in {"applying", "clearing"} => o.id \in Payments /\ wire[o.id] = "settled"
  /\ o.at \in {"resealing", "crediting"} => o.id \in Credits

Flow ==
  /\ \A p \in Payments : wire[p] # "none" => intent[p] # None
  /\ \A t \in Tabs : Placed(op[t])
  /\ \A t, u \in Tabs :
       At(t, "ping") /\ At(u, "ping") /\ op[t].id = op[u].id => t = u
  /\ aside # None => wire[aside] = "settled"
  /\ deducted \subseteq Settled

FlowInv == TypeOK /\ Flow

(* A tab that is at something is busy, and stays so at another place.      *)
LEMMA BusyTab ==
  ASSUME TypeOK, NEW t \in Tabs, op[t] # Idle
  PROVE  /\ op[t] \in Busy
         /\ op[t].id \in Payments \union Credits /\ op[t].held \in Vault
         /\ op[t].at \in {"ping", "waiting", "applying", "clearing", "resealing",
                          "crediting"}
BY DEF TypeOK, Busy

(* An idle tab is nowhere.                                                 *)
LEMMA IdleTab ==
  ASSUME NEW t \in Tabs, op[t] = Idle
  PROVE  op[t].at = "idle" /\ op[t].id = None
BY DEF Idle

(* The commitments the wallet names are commitments.                       *)
LEMMA VaultTypes ==
  ASSUME NEW v \in Vault
  PROVE  /\ v.balance \in Nat /\ v.opening \in Openings /\ v.commitment \in Commitments
         /\ Expected(v) \in Commitments
         /\ Aligned(v) \in Vault
         /\ Aligned(v).balance = v.balance /\ Aligned(v).opening = v.opening
         /\ Aligned(v).commitment = Expected(v)
         /\ \A c \in Credits : Credited(v, c) \in Vault
         /\ \A p \in Payments : v.balance >= 1 /\ intent[p] \in Intent => Spend(v, p) \in Vault
<1>1. /\ v.balance \in Nat /\ v.opening \in Openings /\ v.commitment \in Commitments
      /\ Expected(v) \in Commitments
  BY DEF Vault, Commitments, Expected
<1>2. /\ Aligned(v) \in Vault
      /\ Aligned(v).balance = v.balance /\ Aligned(v).opening = v.opening
      /\ Aligned(v).commitment = Expected(v)
  BY <1>1 DEF Vault, Aligned
<1>3. ASSUME NEW c \in Credits PROVE Credited(v, c) \in Vault
  <2>1. c \in Openings /\ v.balance + 1 \in Nat
    BY <1>1 DEF Openings
  <2> QED BY <2>1 DEF Credited, Vault, Commitments
<1>4. ASSUME NEW p \in Payments, v.balance >= 1, intent[p] \in Intent
      PROVE  Spend(v, p) \in Vault
  <2>1. p \in Openings /\ v.balance - 1 \in Nat /\ intent[p].new \in Commitments
    BY <1>1, <1>4 DEF Openings, Intent
  <2> QED BY <2>1 DEF Spend, Vault
<1> QED BY <1>1, <1>2, <1>3, <1>4

(* A reseal burns nothing but the commitment it replaces.                  *)
LEMMA ResealTypes ==
  ASSUME TypeOK, NEW old \in Commitments, NEW new
  PROVE  Resealed(old, new) \subseteq Commitments /\ spent \subseteq Resealed(old, new)
BY DEF Resealed, TypeOK

(* Loading the vault leaves both sides typed, and the balance and the      *)
(* opening of the vault as they were.                                      *)
LEMMA LoadTypes ==
  ASSUME TypeOK, NEW online \in BOOLEAN, Loaded(online)
  PROVE  /\ tip' \in Commitments /\ spent' \subseteq Commitments /\ vault' \in Vault
         /\ vault'.balance = vault.balance /\ vault'.opening = vault.opening
         /\ spent \subseteq spent'
<1>1. vault \in Vault /\ tip \in Commitments /\ spent \subseteq Commitments
  BY DEF TypeOK
<1>2. CASE online
  <2>1. vault' = Aligned(vault) /\ tip' = Expected(vault)
          /\ spent' = Resealed(tip, Expected(vault))
    BY <1>2 DEF Loaded, Pushed
  <2> QED BY <1>1, <2>1, VaultTypes, ResealTypes
<1>3. CASE ~online
  BY <1>1, <1>3 DEF Loaded
<1> QED BY <1>2, <1>3

(* Repairing leaves a vault.                                               *)
LEMMA RepairTypes ==
  ASSUME FlowInv, aside # None, NEW v \in Vault, RepairWorks(v)
  PROVE  Repaired(v) \in Vault
<1>1. aside \in Payments /\ intent[aside] \in Intent
  BY DEF FlowInv, TypeOK, Flow
<1> QED BY <1>1, VaultTypes DEF Repaired, RepairWorks

(* A tab that moves on, to anywhere but the ping, leaves the rest as it is. *)
LEMMA OneTab ==
  ASSUME FlowInv, NEW t \in Tabs, \A s \in Tabs \ {t} : op'[s] = op[s],
         UNCHANGED <<wire, intent>>, op'[t].at # "ping", Placed(op'[t]),
         aside' # None => wire[aside'] = "settled", deducted' \subseteq Settled
  PROVE  Flow'
<1>1. \A s \in Tabs : Placed(op'[s])
  BY DEF FlowInv, Flow
<1>2. \A s \in Tabs : Placed(op[s])'
  BY <1>1 DEF Placed
<1>3. \A s, u \in Tabs :
        At(s, "ping")' /\ At(u, "ping")' /\ op'[s].id = op'[u].id => s = u
  BY DEF FlowInv, Flow, At
<1>4. Settled' = Settled
  BY DEF Settled
<1> QED BY <1>2, <1>3, <1>4 DEF Flow, FlowInv

(* A tab that only changes its place keeps its payment and its vault.      *)
LEMMA TabMoves ==
  ASSUME TypeOK, NEW t \in Tabs, op[t] # Idle,
         NEW place \in {"ping", "waiting", "applying", "clearing", "resealing", "crediting"},
         op' = [op EXCEPT ![t].at = place]
  PROVE  /\ op'[t] \in Busy
         /\ op'[t].at = place /\ op'[t].id = op[t].id /\ op'[t].held = op[t].held
         /\ \A s \in Tabs \ {t} : op'[s] = op[s]
         /\ op' \in [Tabs -> Busy \union {Idle}]
<1>1. op[t] \in Busy /\ op \in [Tabs -> Busy \union {Idle}]
  BY BusyTab DEF TypeOK
<1>2. op'[t] = [op[t] EXCEPT !.at = place]
  BY <1>1
<1>3. /\ op'[t] \in Busy
      /\ op'[t].at = place /\ op'[t].id = op[t].id /\ op'[t].held = op[t].held
  BY <1>1, <1>2 DEF Busy
<1> QED BY <1>1, <1>3

(* A tab that stops, by itself or not, is idle.                            *)
LEMMA TabStops ==
  ASSUME TypeOK, NEW t \in Tabs, op' = [op EXCEPT ![t] = Idle]
  PROVE  /\ op'[t] = Idle /\ op'[t].at = "idle"
         /\ \A s \in Tabs \ {t} : op'[s] = op[s]
         /\ op' \in [Tabs -> Busy \union {Idle}]
BY DEF TypeOK, Idle

(* The initial state.                                                      *)
LEMMA InitFlow == Init => FlowInv
<1> SUFFICES ASSUME Init PROVE FlowInv
  OBVIOUS
<1>1. <<Opening, "first">> \in Commitments
  BY OpeningType DEF Commitments, Openings
<1>2. vault \in Vault
  BY <1>1, OpeningType DEF Init, Vault, Openings
<1>3. TypeOK
  BY <1>1, <1>2 DEF Init, TypeOK
<1>4. Flow
  BY IdleTab DEF Init, Flow, Placed, At, Settled, Idle
<1> QED BY <1>3, <1>4 DEF FlowInv

(* Loading the vault.                                                      *)
LEMMA LoadFlow ==
  ASSUME FlowInv, NEW t \in Tabs, Load(t)
  PROVE  FlowInv'
<1>1. /\ tip' \in Commitments /\ spent' \subseteq Commitments /\ vault' \in Vault
  BY LoadTypes DEF Load, FlowInv
<1>2. TypeOK'
  BY <1>1 DEF Load, FlowInv, TypeOK
<1>3. Flow'
  BY DEF Load, FlowInv, Flow, Placed, At, Settled
<1> QED BY <1>2, <1>3 DEF FlowInv

(* Repairing takes a payment the server settled off the balance.           *)
LEMMA RepairFlow ==
  ASSUME FlowInv, NEW t \in Tabs, NEW online \in BOOLEAN, Repair(t, online)
  PROVE  FlowInv'
<1> DEFINE v == IF online THEN Aligned(vault) ELSE vault
<1>1. vault \in Vault /\ aside \in Payments /\ aside # None
  BY DEF Repair, FlowInv, TypeOK
<1>2. v \in Vault
  BY <1>1, VaultTypes
<1>3. vault' = Repaired(v) /\ RepairWorks(v)
  BY DEF Repair
<1>4. vault' \in Vault
  BY <1>1, <1>2, <1>3, RepairTypes
<1>5. tip' \in Commitments /\ spent' \subseteq Commitments
  <2>1. Expected(vault) \in Commitments
    BY <1>1, VaultTypes
  <2> QED BY <2>1, ResealTypes DEF Repair, Pushed, FlowInv, TypeOK
<1>6. TypeOK'
  BY <1>1, <1>4, <1>5 DEF Repair, Forgotten, FlowInv, TypeOK
<1>7. Flow'
  BY <1>1 DEF Repair, Forgotten, FlowInv, Flow, Placed, At, Settled
<1> QED BY <1>6, <1>7 DEF FlowInv

(* A payment is built.                                                     *)
LEMMA BuildFlow ==
  ASSUME FlowInv, NEW t \in Tabs, NEW p \in Payments, NEW online \in BOOLEAN,
         BuildIntent(t, p, online)
  PROVE  FlowInv'
<1> DEFINE built == [old |-> vault'.commitment, new |-> <<vault.balance - 1, p>>]
           now == [at |-> "ping", id |-> p, held |-> vault']
<1>1. /\ tip' \in Commitments /\ spent' \subseteq Commitments /\ vault' \in Vault
  BY LoadTypes DEF BuildIntent, FlowInv
<1>2. built \in Intent
  <2>1. vault.balance - 1 \in Nat /\ p \in Openings
    BY DEF BuildIntent, FlowInv, TypeOK, Vault, Openings
  <2>2. vault'.commitment \in Commitments
    BY <1>1 DEF Vault
  <2> QED BY <2>1, <2>2 DEF Intent, Commitments
<1>3. now \in Busy
  BY <1>1 DEF Busy
<1>4. /\ intent' = [intent EXCEPT ![p] = built] /\ op' = [op EXCEPT ![t] = now]
      /\ UNCHANGED <<wire, aside, begun, deducted, credited>>
      /\ intent[p] = None /\ op[t] = Idle
  BY DEF BuildIntent
<1> HIDE DEF built, now
<1>5. TypeOK'
  <2>1. strayed' \in BOOLEAN
    BY DEF BuildIntent, FlowInv, TypeOK
  <2> QED BY <1>1, <1>2, <1>3, <1>4, <2>1 DEF FlowInv, TypeOK
<1>6. /\ op'[t] = now /\ \A s \in Tabs \ {t} : op'[s] = op[s]
      /\ intent'[p] = built /\ built # None
      /\ \A q \in Payments \ {p} : intent'[q] = intent[q]
  BY <1>2, <1>4, NoneIsNoIntent DEF FlowInv, TypeOK
<1>7. now.at = "ping" /\ now.id = p
  BY DEF now
<1>8. wire[p] = "none"
  BY <1>4 DEF FlowInv, Flow
<1>9. \A s \in Tabs : Placed(op[s])'
  <2>1. Placed(op[t])'
    BY <1>4, <1>6, <1>7, <1>8 DEF Placed
  <2>2. ASSUME NEW s \in Tabs \ {t} PROVE Placed(op[s])'
    BY <1>4, <1>6 DEF Placed, FlowInv, Flow
  <2> QED BY <2>1, <2>2
<1>10. \A s \in Tabs \ {t} : ~(At(s, "ping")' /\ op'[s].id = p)
  BY <1>4, <1>6 DEF At, FlowInv, Flow, Placed
<1>11. \A s, u \in Tabs :
         At(s, "ping")' /\ At(u, "ping")' /\ op'[s].id = op'[u].id => s = u
  BY <1>6, <1>7, <1>10 DEF At, FlowInv, Flow
<1>12. Flow'
  BY <1>4, <1>6, <1>9, <1>11 DEF FlowInv, Flow, Settled
<1> QED BY <1>5, <1>12 DEF FlowInv

(* A payment is accepted on the device and sent.                           *)
LEMMA AcceptFlow ==
  ASSUME FlowInv, NEW t \in Tabs, NEW online \in BOOLEAN, Accept(t, online)
  PROVE  FlowInv'
<1> DEFINE p == op[t].id
           now == [at |-> "waiting", id |-> p, held |-> vault']
<1>1. /\ tip' \in Commitments /\ spent' \subseteq Commitments /\ vault' \in Vault
  BY LoadTypes DEF Accept, FlowInv
<1>2. op[t] # Idle /\ At(t, "ping") /\ p \in Payments /\ wire[p] = "none" /\ intent[p] # None
  <2>1. At(t, "ping") /\ Placed(op[t])
    BY DEF Accept, FlowInv, Flow
  <2> QED BY <2>1, IdleTab DEF At, Placed
<1>3. /\ op'[t] = now /\ now \in Busy /\ op' \in [Tabs -> Busy \union {Idle}]
      /\ \A s \in Tabs \ {t} : op'[s] = op[s]
  <2>1. op[t] \in Busy /\ op \in [Tabs -> Busy \union {Idle}]
    BY <1>2, BusyTab DEF FlowInv, TypeOK
  <2>2. op'[t] = [op[t] EXCEPT !.at = "waiting", !.held = vault']
    BY <2>1 DEF Accept
  <2>3. op'[t] = now /\ now \in Busy
    BY <1>1, <2>1, <2>2 DEF Busy
  <2>4. op' = [op EXCEPT ![t].at = "waiting", ![t].held = vault']
    BY DEF Accept
  <2> QED BY <2>1, <2>3, <2>4
<1>4. /\ wire' = [wire EXCEPT ![p] = "sent"]
      /\ UNCHANGED <<aside, intent, begun, history>>
  BY DEF Accept
<1>5. now.at = "waiting" /\ now.id = p
  OBVIOUS
<1> HIDE DEF p, now
<1>6. TypeOK'
  <2>1. wire' \in [Payments -> {"none", "sent", "proving", "settled", "refused"}]
    BY <1>2, <1>4 DEF FlowInv, TypeOK
  <2>2. UNCHANGED <<aside, intent, begun, deducted, credited, strayed>>
    BY <1>4 DEF history
  <2> QED BY <1>1, <1>3, <2>1, <2>2 DEF FlowInv, TypeOK
<1>7. /\ op'[t] = now /\ \A s \in Tabs \ {t} : op'[s] = op[s]
      /\ wire'[p] = "sent" /\ \A q \in Payments \ {p} : wire'[q] = wire[q]
  BY <1>2, <1>3, <1>4 DEF FlowInv, TypeOK
<1>8. \A s \in Tabs : Placed(op[s])'
  <2>1. Placed(op[t])'
    BY <1>2, <1>5, <1>7 DEF Placed
  <2>2. ASSUME NEW s \in Tabs \ {t} PROVE Placed(op[s])'
    <3>1. ~(At(s, "ping") /\ op[s].id = p)
      BY <1>2 DEF FlowInv, Flow, p
    <3> QED BY <1>2, <1>4, <1>7, <3>1 DEF Placed, FlowInv, Flow, At
  <2> QED BY <2>1, <2>2
<1>9. \A s, u \in Tabs :
         At(s, "ping")' /\ At(u, "ping")' /\ op'[s].id = op'[u].id => s = u
  BY <1>5, <1>7 DEF At, FlowInv, Flow
<1>10. aside' # None => wire'[aside'] = "settled"
  BY <1>2, <1>4, <1>7 DEF FlowInv, Flow, TypeOK
<1>11. deducted' \subseteq Settled'
  BY <1>2, <1>4, <1>7 DEF FlowInv, Flow, TypeOK, Settled, history
<1>12. Flow'
  BY <1>2, <1>4, <1>7, <1>8, <1>9, <1>10, <1>11 DEF FlowInv, Flow
<1> QED BY <1>6, <1>12 DEF FlowInv

(* The server takes a request and decides on it.                           *)
LEMMA ServerFlow ==
  ASSUME FlowInv, NEW p \in Payments, Take(p) \/ Settle(p) \/ Refuse(p)
  PROVE  FlowInv'
<1>1. /\ wire[p] \in {"sent", "proving"}
      /\ wire' \in [Payments -> {"none", "sent", "proving", "settled", "refused"}]
      /\ wire'[p] \in {"proving", "settled", "refused"}
      /\ \A q \in Payments \ {p} : wire'[q] = wire[q]
  BY DEF Take, Settle, Refuse, FlowInv, TypeOK
<1>2. UNCHANGED <<vault, aside, op, intent, begun, deducted, credited, strayed>>
  BY DEF Take, Settle, Refuse, deviceVars, history
<1>3. intent[p] \in Intent
  BY <1>1 DEF FlowInv, Flow, TypeOK
<1>4. tip' \in Commitments /\ spent' \subseteq Commitments
  BY <1>3 DEF Take, Settle, Refuse, FlowInv, TypeOK, Intent
<1>5. TypeOK'
  BY <1>1, <1>2, <1>4 DEF FlowInv, TypeOK
<1>6. \A t \in Tabs : Placed(op[t])'
  BY <1>1, <1>2 DEF FlowInv, Flow, Placed
<1>7. \A t, u \in Tabs :
        At(t, "ping")' /\ At(u, "ping")' /\ op'[t].id = op'[u].id => t = u
  BY <1>2 DEF FlowInv, Flow, At
<1>8. aside' # None => wire'[aside'] = "settled"
  BY <1>1, <1>2 DEF FlowInv, Flow, TypeOK
<1>9. deducted' \subseteq Settled'
  BY <1>1, <1>2 DEF FlowInv, Flow, TypeOK, Settled
<1>10. \A q \in Payments : wire'[q] # "none" => intent'[q] # None
  BY <1>1, <1>2 DEF FlowInv, Flow, TypeOK
<1> QED BY <1>5, <1>6, <1>7, <1>8, <1>9, <1>10 DEF FlowInv, Flow

(* The wallet learns the answer.                                           *)
LEMMA AnswerFlow ==
  ASSUME FlowInv, NEW t \in Tabs, Answer(t)
  PROVE  FlowInv'
<1>1. op[t] # Idle /\ At(t, "waiting") /\ op[t].id \in Payments /\ TypeOK
  <2>1. At(t, "waiting") /\ Placed(op[t]) /\ TypeOK
    BY DEF Answer, AnswerOk, AnswerRefused, FlowInv, Flow
  <2> QED BY <2>1, IdleTab DEF At, Placed
<1>2. CASE AnswerOk(t)
  <2>1. /\ op' \in [Tabs -> Busy \union {Idle}] /\ op'[t].at = "applying"
        /\ op'[t].id = op[t].id /\ \A s \in Tabs \ {t} : op'[s] = op[s]
    BY <1>1, <1>2, TabMoves DEF AnswerOk
  <2>2. /\ aside' = op[t].id /\ wire[op[t].id] = "settled"
        /\ UNCHANGED <<tip, spent, wire, vault, intent, begun, deducted, credited, strayed>>
    BY <1>2 DEF AnswerOk, Succeeded, serverVars, history
  <2>3. TypeOK'
    BY <1>1, <2>1, <2>2 DEF TypeOK
  <2>4. Placed(op'[t])
    BY <1>1, <2>1, <2>2 DEF Placed
  <2>5. Flow'
    BY <2>1, <2>2, <2>4, OneTab DEF FlowInv, Flow
  <2> QED BY <2>3, <2>5 DEF FlowInv
<1>3. CASE AnswerRefused(t)
  <2>1. /\ op' \in [Tabs -> Busy \union {Idle}] /\ op'[t].at = "idle"
        /\ \A s \in Tabs \ {t} : op'[s] = op[s]
    BY <1>1, <1>3, TabStops DEF AnswerRefused
  <2>2. UNCHANGED <<tip, spent, wire, vault, aside, intent, begun, deducted, credited,
                    strayed>>
    BY <1>3 DEF AnswerRefused, serverVars, deviceVars, history
  <2>3. TypeOK'
    BY <1>1, <2>1, <2>2 DEF TypeOK
  <2>4. Placed(op'[t])
    BY <2>1 DEF Placed
  <2>5. Flow'
    BY <2>1, <2>2, <2>4, OneTab DEF FlowInv, Flow
  <2> QED BY <2>3, <2>5 DEF FlowInv
<1> QED BY <1>2, <1>3 DEF Answer

(* A tab is left.                                                          *)
LEMMA LeaveFlow ==
  ASSUME FlowInv, NEW t \in Tabs, Leave(t)
  PROVE  FlowInv'
<1>1. /\ op' \in [Tabs -> Busy \union {Idle}] /\ op'[t].at = "idle"
      /\ \A s \in Tabs \ {t} : op'[s] = op[s]
  BY TabStops DEF Leave, FlowInv
<1>2. UNCHANGED <<tip, spent, wire, vault, aside, intent, begun, deducted, credited>>
  BY DEF Leave, serverVars, deviceVars
<1>3. strayed' \in BOOLEAN
  BY DEF Leave, FlowInv, TypeOK
<1>4. TypeOK'
  BY <1>1, <1>2, <1>3 DEF FlowInv, TypeOK
<1>5. Placed(op'[t])
  BY <1>1 DEF Placed
<1>6. Flow'
  BY <1>1, <1>2, <1>5, OneTab DEF FlowInv, Flow
<1> QED BY <1>4, <1>6 DEF FlowInv

(* A spend is saved, or cannot be, and is no longer kept aside.            *)
LEMMA SpendFlow ==
  ASSUME FlowInv, NEW t \in Tabs, ApplySpend(t) \/ ApplyFails(t) \/ Clear(t)
  PROVE  FlowInv'
<1>1. /\ op[t] # Idle /\ op[t].at \in {"applying", "clearing"} /\ TypeOK
      /\ op[t].id \in Payments /\ wire[op[t].id] = "settled"
  <2>1. op[t].at \in {"applying", "clearing"} /\ Placed(op[t]) /\ TypeOK
    BY DEF ApplySpend, ApplyFails, Clear, At, FlowInv, Flow
  <2> QED BY <2>1, IdleTab DEF Placed
<1>2. CASE ApplySpend(t)
  <2>1. /\ op' \in [Tabs -> Busy \union {Idle}] /\ op'[t].at = "clearing"
        /\ op'[t].id = op[t].id /\ \A s \in Tabs \ {t} : op'[s] = op[s]
    BY <1>1, <1>2, TabMoves DEF ApplySpend
  <2>2. UNCHANGED <<tip, spent, wire, aside, intent, begun, credited, strayed>>
          /\ deducted' = deducted \union {op[t].id}
    BY <1>2 DEF ApplySpend, serverVars
  <2>3. vault' \in Vault
    <3>1. op[t].held \in Vault /\ op[t].held.balance >= 1 /\ intent[op[t].id] \in Intent
      BY <1>1, <1>2, BusyTab DEF ApplySpend, FlowInv, Flow, TypeOK
    <3> QED BY <1>1, <1>2, <3>1, VaultTypes DEF ApplySpend
  <2>4. TypeOK'
    BY <1>1, <2>1, <2>2, <2>3 DEF TypeOK
  <2>5. Placed(op'[t])
    BY <1>1, <2>1 DEF Placed
  <2>6. deducted' \subseteq Settled
    BY <1>1, <2>2 DEF FlowInv, Flow, Settled
  <2>7. Flow'
    BY <2>1, <2>2, <2>5, <2>6, OneTab DEF FlowInv, Flow
  <2> QED BY <2>4, <2>7 DEF FlowInv
<1>3. CASE ApplyFails(t) \/ Clear(t)
  <2>1. /\ op' \in [Tabs -> Busy \union {Idle}] /\ op'[t].at = "idle"
        /\ \A s \in Tabs \ {t} : op'[s] = op[s]
    BY <1>1, <1>3, TabStops DEF ApplyFails, Clear
  <2>2. /\ UNCHANGED <<tip, spent, wire, vault, intent, begun, deducted, credited, strayed>>
        /\ aside' \in {aside, None}
    BY <1>3 DEF ApplyFails, Clear, serverVars, deviceVars, history
  <2>3. TypeOK'
    BY <1>1, <2>1, <2>2 DEF TypeOK
  <2>4. Placed(op'[t])
    BY <2>1 DEF Placed
  <2>5. Flow'
    BY <2>1, <2>2, <2>4, OneTab DEF FlowInv, Flow
  <2> QED BY <2>3, <2>5 DEF FlowInv
<1> QED BY <1>2, <1>3

(* A credit is begun.                                                      *)
LEMMA BeginFlow ==
  ASSUME FlowInv, NEW t \in Tabs, NEW c \in Credits,
         \/ c \in TopUps /\ BeginTopUp(t, c)
         \/ c \in Refunds /\ BeginRefund(t, c)
  PROVE  FlowInv'
<1>1. TypeOK /\ vault \in Vault
  BY DEF FlowInv, TypeOK
<1>2. /\ tip' \in Commitments /\ spent' \subseteq Commitments /\ vault' \in Vault
      /\ aside' \in {aside, None} /\ deducted' \subseteq deducted \union {aside}
      /\ aside = None => deducted' \subseteq deducted
      /\ op' = [op EXCEPT ![t] = [at |-> "resealing", id |-> c, held |-> vault']]
      /\ begun' = begun \union {c} /\ UNCHANGED <<wire, intent, credited>>
  <2>1. CASE BeginTopUp(t, c)
    <3> DEFINE repairs == aside # None /\ RepairWorks(Aligned(vault))
               w == IF repairs THEN Repaired(Aligned(vault)) ELSE vault
    <3>1. Aligned(vault) \in Vault
      BY <1>1, VaultTypes
    <3>2. w \in Vault
      BY <1>1, <3>1, RepairTypes
    <3>3. Aligned(w) \in Vault /\ Expected(Aligned(w)) \in Commitments
            /\ Expected(vault) \in Commitments
      BY <1>1, <3>2, VaultTypes
    <3>4. /\ tip' = Expected(Aligned(w)) /\ vault' = Aligned(w)
          /\ spent' = IF Expected(Aligned(w)) = Expected(vault)
                      THEN Resealed(tip, Expected(Aligned(w)))
                      ELSE Resealed(tip, Expected(vault)) \union {Expected(vault)}
          /\ aside' = IF repairs THEN None ELSE aside
          /\ deducted' = IF repairs THEN deducted \union {aside} ELSE deducted
          /\ op' = [op EXCEPT ![t] = [at |-> "resealing", id |-> c, held |-> Aligned(w)]]
          /\ begun' = begun \union {c} /\ UNCHANGED <<wire, intent, credited>>
      BY <2>1 DEF BeginTopUp
    <3>5. spent' \subseteq Commitments
      BY <1>1, <3>3, <3>4, ResealTypes DEF TypeOK
    <3> QED BY <3>3, <3>4, <3>5
  <2>2. CASE BeginRefund(t, c)
    BY <1>1, <2>2, LoadTypes DEF BeginRefund
  <2> QED BY <2>1, <2>2
<1>3. strayed' \in BOOLEAN
  BY <1>1 DEF BeginTopUp, BeginRefund, TypeOK
<1> DEFINE now == [at |-> "resealing", id |-> c, held |-> vault']
<1>4. now \in Busy /\ now.at = "resealing" /\ now.id = c
  BY <1>2 DEF Busy
<1> HIDE DEF now
<1>5. /\ op' \in [Tabs -> Busy \union {Idle}] /\ op'[t] = now
      /\ \A s \in Tabs \ {t} : op'[s] = op[s]
  BY <1>1, <1>2, <1>4 DEF TypeOK, now
<1>6. TypeOK'
  BY <1>1, <1>2, <1>3, <1>5 DEF TypeOK
<1>7. Placed(op'[t])
  BY <1>4, <1>5 DEF Placed
<1>8. deducted' \subseteq Settled
  BY <1>1, <1>2 DEF FlowInv, Flow, Settled, TypeOK
<1>9. Flow'
  BY <1>2, <1>4, <1>5, <1>7, <1>8, OneTab DEF FlowInv, Flow
<1> QED BY <1>6, <1>9 DEF FlowInv

(* A credit is resealed, refused or applied.                               *)
LEMMA CreditFlow ==
  ASSUME FlowInv, NEW t \in Tabs,
         ResealCredit(t) \/ RefundRefused(t) \/ ApplyCredit(t)
  PROVE  FlowInv'
<1>1. /\ op[t] # Idle /\ TypeOK /\ op[t].id \in Credits /\ op[t].held \in Vault
      /\ vault \in Vault
  <2>1. op[t].at \in {"resealing", "crediting"} /\ Placed(op[t]) /\ TypeOK
    BY DEF ResealCredit, RefundRefused, ApplyCredit, At, FlowInv, Flow
  <2> QED BY <2>1, IdleTab, BusyTab DEF Placed, TypeOK
<1>2. CASE ResealCredit(t)
  <2>1. /\ op' \in [Tabs -> Busy \union {Idle}] /\ op'[t].at = "crediting"
        /\ op'[t].id = op[t].id /\ \A s \in Tabs \ {t} : op'[s] = op[s]
    BY <1>1, <1>2, TabMoves DEF ResealCredit
  <2>2. UNCHANGED <<wire, aside, intent, begun, deducted, credited, strayed>>
          /\ vault' \in Vault
    BY <1>1, <1>2 DEF ResealCredit, history
  <2>3. tip' \in Commitments
    <3>1. op[t].held.balance + 1 \in Nat /\ op[t].id \in Openings
      BY <1>1 DEF Vault, Openings
    <3> QED BY <1>2, <3>1 DEF ResealCredit, Commitments
  <2>4. spent' \subseteq Commitments
    <3>1. Expected(op[t].held) \in Commitments
      BY <1>1, VaultTypes
    <3> QED BY <1>1, <1>2, <3>1, ResealTypes DEF ResealCredit, TypeOK
  <2>5. TypeOK'
    BY <1>1, <2>1, <2>2, <2>3, <2>4 DEF TypeOK
  <2>6. Placed(op'[t])
    BY <1>1, <2>1 DEF Placed
  <2>7. Flow'
    BY <2>1, <2>2, <2>6, OneTab DEF FlowInv, Flow
  <2> QED BY <2>5, <2>7 DEF FlowInv
<1>3. CASE RefundRefused(t) \/ ApplyCredit(t)
  <2>1. /\ op' \in [Tabs -> Busy \union {Idle}] /\ op'[t].at = "idle"
        /\ \A s \in Tabs \ {t} : op'[s] = op[s]
    BY <1>1, <1>3, TabStops DEF RefundRefused, ApplyCredit
  <2>2. /\ UNCHANGED <<tip, spent, wire, aside, intent, begun, deducted, strayed>>
        /\ vault' \in {vault, Credited(op[t].held, op[t].id)}
        /\ credited' \subseteq credited \union {op[t].id}
    BY <1>3 DEF RefundRefused, ApplyCredit, serverVars, deviceVars, history
  <2>3. vault' \in Vault
    BY <1>1, <2>2, VaultTypes
  <2>4. TypeOK'
    BY <1>1, <2>1, <2>2, <2>3 DEF TypeOK
  <2>5. Placed(op'[t])
    BY <2>1 DEF Placed
  <2>6. Flow'
    BY <2>1, <2>2, <2>5, OneTab DEF FlowInv, Flow
  <2> QED BY <2>4, <2>6 DEF FlowInv
<1> QED BY <1>2, <1>3

(* Every step keeps types and flow.                                        *)
LEMMA NextFlow == FlowInv /\ [Next]_vars => FlowInv'
<1> SUFFICES ASSUME FlowInv, [Next]_vars PROVE FlowInv'
  OBVIOUS
<1>1. ASSUME NEW t \in Tabs, NEW online \in BOOLEAN,
             Load(t) \/ Repair(t, online) \/ Accept(t, online)
      PROVE  FlowInv'
  BY <1>1, LoadFlow, RepairFlow, AcceptFlow
<1>2. ASSUME NEW t \in Tabs, NEW p \in Payments, NEW online \in BOOLEAN,
             BuildIntent(t, p, online)
      PROVE  FlowInv'
  BY <1>2, BuildFlow
<1>3. ASSUME NEW t \in Tabs, Answer(t) \/ Finish(t) \/ Leave(t) PROVE FlowInv'
  BY <1>3, AnswerFlow, SpendFlow, CreditFlow, LeaveFlow DEF Finish
<1>4. ASSUME NEW t \in Tabs, NEW f \in TopUps, BeginTopUp(t, f) PROVE FlowInv'
  BY <1>4, BeginFlow DEF Credits
<1>5. ASSUME NEW t \in Tabs, NEW r \in Refunds, BeginRefund(t, r) PROVE FlowInv'
  BY <1>5, BeginFlow DEF Credits
<1>6. ASSUME NEW p \in Payments, Take(p) \/ Settle(p) \/ Refuse(p) PROVE FlowInv'
  BY <1>6, ServerFlow
<1>7. CASE UNCHANGED vars
  BY <1>7 DEF vars, serverVars, deviceVars, history, FlowInv, TypeOK, Flow, Placed,
              At, Settled
<1>8. \A t \in Tabs : Load(t) => FlowInv'
  BY LoadFlow
<1> QED BY <1>1, <1>2, <1>3, <1>4, <1>5, <1>6, <1>7, <1>8 DEF Next

(* The device wallet and its server are well typed in every reachable      *)
(* state.                                                                  *)
THEOREM WalletTyping == Spec => []TypeOK
<1>1. FlowInv => TypeOK
  BY DEF FlowInv
<1> QED BY <1>1, InitFlow, NextFlow, PTL DEF Spec

(* However tabs are closed, overlap or fail, nothing is deducted on the    *)
(* device that the server did not settle.                                  *)
THEOREM DeductionsWereSettled == Spec => []DeductedWasSettled
<1>1. FlowInv => DeductedWasSettled
  BY DEF FlowInv, Flow, DeductedWasSettled
<1> QED BY <1>1, InitFlow, NextFlow, PTL DEF Spec

-----------------------------------------------------------------------------
(* The money, as long as nothing strayed.                                  *)

(* The commitments of payment p were built from the vault as it still is.  *)
Built(p) ==
  /\ vault.balance >= 1
  /\ intent[p] = [old |-> vault.commitment, new |-> <<vault.balance - 1, p>>]

(* Payment p settled and is still to be taken off the vault; until then    *)
(* the server has burned what the vault would spend.                       *)
Owed(p) ==
  /\ Built(p)
  /\ wire[p] = "settled"
  /\ p \notin deducted
  /\ vault.commitment \in spent

(* What a busy tab holds and what its payment or credit has come to.       *)
Stage(t) ==
  LET p == op[t].id
  IN  /\ ~At(t, "clearing") => op[t].held = vault
      /\ At(t, "ping") => Built(p)
      /\ At(t, "waiting") =>
           /\ Built(p)
           /\ p \notin deducted
           /\ wire[p] \in {"proving", "settled"} => aside = None
           /\ wire[p] = "settled" => vault.commitment \in spent
      /\ At(t, "applying") => aside = p
      /\ At(t, "clearing") => aside = p /\ p \in deducted
      /\ op[t].at \in {"resealing", "crediting"} =>
           p \in begun /\ p \notin credited /\ aside = None

Waits(t, p) == At(t, "waiting") /\ op[t].id = p

Staged == \A t \in Tabs : op[t] # Idle => Alone(t) /\ Stage(t)

AsideOwed == aside # None /\ (\A t \in Tabs : ~At(t, "clearing")) => Owed(aside)

(* A request that is out has its tab waiting; one that settled is taken    *)
(* off, kept aside or still waited for.                                    *)
Traced ==
  \A p \in Payments :
    /\ wire[p] \in {"sent", "proving"} => \E t \in Tabs : Waits(t, p)
    /\ wire[p] = "settled" =>
         p \in deducted \/ p = aside \/ \E t \in Tabs : Waits(t, p)

Sound == vault.commitment = Expected(vault) /\ credited \subseteq begun

Balanced ==
  /\ IsFiniteSet(deducted) /\ IsFiniteSet(credited)
  /\ vault.balance = Opening + Cardinality(credited) - Cardinality(deducted)

Tidy == Staged /\ AsideOwed /\ Traced /\ Sound /\ Balanced

(* With one tab t busy at most, what Tidy says is said of t ...            *)
LEMMA SoleTab ==
  ASSUME Tidy, NEW t \in Tabs, op[t] # Idle \/ Alone(t)
  PROVE  /\ \A s \in Tabs \ {t} : op[s] = Idle /\ op[s].at = "idle"
         /\ op[t] # Idle => Stage(t)
         /\ aside # None /\ ~At(t, "clearing") => Owed(aside)
         /\ \A p \in Payments :
              /\ wire[p] \in {"sent", "proving"} => Waits(t, p)
              /\ wire[p] = "settled" => p \in deducted \/ p = aside \/ Waits(t, p)
<1>1. \A s \in Tabs \ {t} : op[s] = Idle /\ op[s].at = "idle"
  BY IdleTab DEF Tidy, Staged, Alone
<1>2. op[t] # Idle => Stage(t)
  BY DEF Tidy, Staged
<1>3. aside # None /\ ~At(t, "clearing") => Owed(aside)
  BY <1>1 DEF Tidy, AsideOwed, At
<1>4. ASSUME NEW p \in Payments
      PROVE  /\ wire[p] \in {"sent", "proving"} => Waits(t, p)
             /\ wire[p] = "settled" => p \in deducted \/ p = aside \/ Waits(t, p)
  BY <1>1 DEF Tidy, Traced, Waits, At
<1> QED BY <1>1, <1>2, <1>3, <1>4

(* ... and need be shown of t alone.                                       *)
LEMMA SoleTabNext ==
  ASSUME NEW t \in Tabs, \A s \in Tabs \ {t} : op'[s] = Idle,
         op'[t] # Idle => Stage(t)',
         aside' # None /\ ~At(t, "clearing")' => Owed(aside)',
         \A p \in Payments :
           /\ wire'[p] \in {"sent", "proving"} => Waits(t, p)'
           /\ wire'[p] = "settled" => p \in deducted' \/ p = aside' \/ Waits(t, p)',
         Sound', Balanced'
  PROVE  Tidy'
<1>1. Staged'
  BY DEF Staged, Alone
<1>2. AsideOwed'
  BY DEF AsideOwed
<1>3. Traced'
  BY DEF Traced
<1> QED BY <1>1, <1>2, <1>3 DEF Tidy

(* Aligning a vault that agrees with itself changes nothing.               *)
LEMMA AlignedSame ==
  ASSUME NEW v \in Vault, v.commitment = Expected(v)
  PROVE  Aligned(v) = v
BY DEF Aligned, Vault

(* A step that changes only the server's commitment, and burns more, keeps *)
(* all that.                                                               *)
LEMMA QuietTidy ==
  ASSUME Tidy, UNCHANGED <<wire, vault, aside, op, intent, begun, deducted, credited>>,
         spent \subseteq spent'
  PROVE  Tidy'
<1>1. Staged'
  BY DEF Tidy, Staged, Alone, Stage, At, Built
<1>2. AsideOwed'
  BY DEF Tidy, AsideOwed, At, Owed, Built
<1>3. Traced'
  BY DEF Tidy, Traced, Waits, At
<1>4. Sound' /\ Balanced'
  BY DEF Tidy, Sound, Balanced, Expected
<1> QED BY <1>1, <1>2, <1>3, <1>4 DEF Tidy

(* Loading a vault that agrees with itself leaves it as it is.             *)
LEMMA LoadSame ==
  ASSUME FlowInv, Tidy, NEW online \in BOOLEAN, Loaded(online)
  PROVE  vault' = vault /\ spent \subseteq spent'
<1>1. vault \in Vault /\ vault.commitment = Expected(vault)
  BY DEF FlowInv, TypeOK, Tidy, Sound
<1> QED BY <1>1, AlignedSame, LoadTypes DEF Loaded, FlowInv

(* Taking an owed payment off the vault leaves it in order.                *)
LEMMA SpendSound ==
  ASSUME FlowInv, Tidy, NEW p \in Payments, Owed(p)
  PROVE  /\ Repaired(vault) = Spend(vault, p) \/ aside # p
         /\ Spend(vault, p) \in Vault
         /\ Spend(vault, p).commitment = Expected(Spend(vault, p))
         /\ IsFiniteSet(deducted \union {p})
         /\ Spend(vault, p).balance =
              Opening + Cardinality(credited) - Cardinality(deducted \union {p})
<1>1. /\ vault \in Vault /\ vault.balance \in Nat /\ vault.balance >= 1
      /\ vault.commitment = <<vault.balance, vault.opening>>
      /\ intent[p].new = <<vault.balance - 1, p>> /\ intent[p] \in Intent
      /\ p \notin deducted
  <2>1. intent[p] = [old |-> vault.commitment, new |-> <<vault.balance - 1, p>>]
    BY DEF Owed, Built
  <2>2. intent[p] \in Intent
    BY DEF FlowInv, Flow, TypeOK, Owed
  <2> QED BY <2>1, <2>2 DEF FlowInv, TypeOK, Vault, Tidy, Sound, Expected, Owed, Built
<1>2. vault.commitment # intent[p].new
  BY <1>1
<1>3. aside = p => Repaired(vault) = Spend(vault, p)
  BY <1>2 DEF Repaired
<1>4. Spend(vault, p) = [balance |-> vault.balance - 1, opening |-> p,
                         commitment |-> <<vault.balance - 1, p>>]
  BY <1>1 DEF Spend
<1>5. Spend(vault, p) \in Vault
  BY <1>1, VaultTypes
<1>6. Spend(vault, p).commitment = Expected(Spend(vault, p))
  BY <1>4 DEF Expected
<1>7. /\ IsFiniteSet(deducted \union {p})
      /\ Cardinality(deducted \union {p}) = Cardinality(deducted) + 1
      /\ Cardinality(deducted) \in Nat /\ Cardinality(credited) \in Nat
  BY <1>1, FS_AddElement, FS_CardinalityType DEF Tidy, Balanced
<1>8. Spend(vault, p).balance =
        Opening + Cardinality(credited) - Cardinality(deducted \union {p})
  BY <1>1, <1>4, <1>7, OpeningType DEF Tidy, Balanced
<1> QED BY <1>3, <1>5, <1>6, <1>7, <1>8

(* A screen is opened, or a spend is repaired, with every tab idle.        *)
LEMMA LoadTidy ==
  ASSUME FlowInv, Tidy, NEW t \in Tabs, Load(t)
  PROVE  Tidy'
<1>1. vault' = vault /\ spent \subseteq spent'
  BY LoadSame DEF Load
<1>2. UNCHANGED <<wire, aside, op, intent, begun, deducted, credited>>
  BY DEF Load
<1> QED BY <1>1, <1>2, QuietTidy

(* With every tab idle a repair takes off what is owed, once.              *)
LEMMA RepairTidy ==
  ASSUME FlowInv, Tidy, NEW t \in Tabs, NEW online \in BOOLEAN, Repair(t, online), ~strayed'
  PROVE  Tidy'
<1>1. op[t] = Idle /\ Alone(t) /\ op' = op /\ aside # None /\ aside \in Payments
  BY DEF Repair, FlowInv, TypeOK
<1>2. /\ \A s \in Tabs : op[s] = Idle /\ op[s].at = "idle"
      /\ Owed(aside)
      /\ \A p \in Payments :
           /\ wire[p] \notin {"sent", "proving"}
           /\ wire[p] = "settled" => p \in deducted \/ p = aside
  <2>1. op[t].at = "idle"
    BY <1>1, IdleTab
  <2> QED BY <1>1, <2>1, SoleTab DEF Waits, At
<1>3. vault' = Spend(vault, aside)
  <2>1. vault.commitment = Expected(vault) /\ vault \in Vault
    BY DEF Tidy, Sound, FlowInv, TypeOK
  <2>2. vault' = Repaired(vault)
    BY <2>1, AlignedSame DEF Repair
  <2> QED BY <1>1, <1>2, <2>2, SpendSound
<1>4. /\ aside' = None /\ deducted' = deducted \union {aside}
      /\ UNCHANGED <<wire, op, intent, begun, credited>>
  BY DEF Repair, Forgotten
<1>5. Sound' /\ Balanced'
  BY <1>1, <1>2, <1>3, <1>4, SpendSound DEF Sound, Balanced, Expected, Tidy
<1> QED BY <1>1, <1>2, <1>4, <1>5, SoleTabNext

(* With every tab idle a payment is built from the vault as it is.         *)
LEMMA BuildTidy ==
  ASSUME FlowInv, Tidy, NEW t \in Tabs, NEW p \in Payments, NEW online \in BOOLEAN,
         BuildIntent(t, p, online), ~strayed'
  PROVE  Tidy'
<1>1. /\ op[t] = Idle /\ Alone(t) /\ intent[p] = None /\ vault.balance >= 1
      /\ op[t].at = "idle"
      /\ UNCHANGED <<wire, aside, begun, deducted, credited>>
      /\ vault' = vault /\ spent \subseteq spent'
  BY LoadSame, IdleTab DEF BuildIntent
<1>2. /\ op'[t] = [at |-> "ping", id |-> p, held |-> vault]
      /\ \A s \in Tabs \ {t} : op'[s] = op[s]
      /\ intent'[p] = [old |-> vault.commitment, new |-> <<vault.balance - 1, p>>]
      /\ \A q \in Payments \ {p} : intent'[q] = intent[q]
  BY <1>1 DEF BuildIntent, FlowInv, TypeOK
<1>3. /\ \A s \in Tabs \ {t} : op'[s] = Idle
      /\ aside # None => Owed(aside)
      /\ \A q \in Payments :
           /\ wire[q] \notin {"sent", "proving"}
           /\ wire[q] = "settled" => q \in deducted \/ q = aside
  BY <1>1, <1>2, SoleTab DEF Waits, At
<1>4. Stage(t)'
  BY <1>1, <1>2 DEF Stage, At, Built
<1>5. aside' # None => Owed(aside)'
  <2>1. ASSUME aside # None PROVE aside \in Payments \ {p}
    BY <1>1, <2>1 DEF FlowInv, Flow, TypeOK
  <2> QED BY <1>1, <1>2, <1>3, <2>1 DEF Owed, Built
<1>6. Sound' /\ Balanced'
  BY <1>1 DEF Tidy, Sound, Balanced, Expected
<1> QED BY <1>1, <1>3, <1>4, <1>5, <1>6, SoleTabNext

(* What is accepted is sent for the first time.                            *)
LEMMA AcceptTidy ==
  ASSUME FlowInv, Tidy, NEW t \in Tabs, NEW online \in BOOLEAN, Accept(t, online)
  PROVE  Tidy'
<1> DEFINE p == op[t].id
<1>1. op[t] # Idle /\ At(t, "ping") /\ p \in Payments /\ wire[p] = "none"
  <2>1. At(t, "ping") /\ Placed(op[t])
    BY DEF Accept, FlowInv, Flow
  <2> QED BY <2>1, IdleTab DEF At, Placed
<1>2. /\ UNCHANGED <<aside, intent, begun, deducted, credited>>
      /\ vault' = vault /\ spent \subseteq spent'
      /\ wire' = [wire EXCEPT ![p] = "sent"]
  BY LoadSame DEF Accept, history
<1>3. /\ op'[t].at = "waiting" /\ op'[t].id = p /\ op'[t].held = vault
      /\ \A s \in Tabs \ {t} : op'[s] = op[s]
  <2>1. op[t] \in Busy /\ op \in [Tabs -> Busy \union {Idle}]
    BY <1>1, BusyTab DEF FlowInv, TypeOK
  <2>2. op'[t] = [op[t] EXCEPT !.at = "waiting", !.held = vault']
    BY <2>1 DEF Accept
  <2>3. \A s \in Tabs \ {t} : op'[s] = op[s]
    BY <2>1 DEF Accept
  <2> QED BY <1>2, <2>1, <2>2, <2>3 DEF Busy
<1>4. /\ \A s \in Tabs \ {t} : op'[s] = Idle
      /\ Stage(t)
      /\ aside # None => Owed(aside)
      /\ \A q \in Payments :
           /\ wire[q] \notin {"sent", "proving"}
           /\ wire[q] = "settled" => q \in deducted \/ q = aside
  BY <1>1, <1>3, SoleTab DEF Waits, At
<1>5. /\ wire'[p] = "sent"
      /\ \A q \in Payments \ {p} : wire'[q] = wire[q]
  BY <1>1, <1>2 DEF FlowInv, TypeOK
<1>6. Built(p) /\ p \notin deducted
  BY <1>1, <1>4 DEF Stage, FlowInv, Flow, Settled
<1> HIDE DEF p
<1>7. Stage(t)'
  BY <1>2, <1>3, <1>5, <1>6 DEF Stage, At, Built
<1>8. aside' # None => Owed(aside)'
  <2>1. ASSUME aside # None PROVE aside \in Payments \ {p}
    BY <1>1, <2>1 DEF FlowInv, Flow, TypeOK
  <2> QED BY <1>2, <1>4, <1>5, <2>1 DEF Owed, Built
<1>9. Sound' /\ Balanced'
  BY <1>2 DEF Tidy, Sound, Balanced, Expected
<1>10. \A q \in Payments :
         /\ wire'[q] \in {"sent", "proving"} => Waits(t, q)'
         /\ wire'[q] = "settled" => q \in deducted' \/ q = aside' \/ Waits(t, q)'
  BY <1>2, <1>3, <1>4, <1>5 DEF Waits, At
<1> QED BY <1>4, <1>7, <1>8, <1>9, <1>10, SoleTabNext

(* The server takes a request only when nothing is owed, and settles it    *)
(* while its tab waits.                                                    *)
LEMMA ServerTidy ==
  ASSUME FlowInv, Tidy, NEW p \in Payments, Take(p) \/ Settle(p) \/ Refuse(p)
  PROVE  Tidy'
<1>1. /\ wire[p] \in {"sent", "proving"}
      /\ wire'[p] \in {"proving", "settled", "refused"}
      /\ \A q \in Payments \ {p} : wire'[q] = wire[q]
  BY DEF Take, Settle, Refuse, FlowInv, TypeOK
<1>2. UNCHANGED <<vault, aside, op, intent, begun, deducted, credited>>
  BY DEF Take, Settle, Refuse, deviceVars, history
<1>3. PICK t \in Tabs : Waits(t, p)
  BY <1>1 DEF Tidy, Traced
<1>4. op[t] # Idle /\ At(t, "waiting") /\ op[t].id = p
  BY <1>3, IdleTab DEF Waits, At
<1>5. /\ \A s \in Tabs \ {t} : op'[s] = Idle
      /\ Stage(t)
      /\ aside # None => Owed(aside)
      /\ \A q \in Payments :
           /\ wire[q] \in {"sent", "proving"} => Waits(t, q)
           /\ wire[q] = "settled" => q \in deducted \/ q = aside \/ Waits(t, q)
  BY <1>2, <1>4, SoleTab DEF At
<1>6. /\ Built(p) /\ p \notin deducted /\ op[t].held = vault
      /\ wire[p] = "proving" => aside = None
  BY <1>4, <1>5 DEF Stage, At
<1>7. spent \subseteq spent' /\ intent[p].old = vault.commitment
  BY <1>6 DEF Built, Take, Settle, Refuse
<1>8. wire'[p] \in {"proving", "settled"} => aside = None
  <2>1. CASE Take(p)
    <3>1. wire'[p] = "proving" => Acceptable(p)
      BY <2>1 DEF Take, FlowInv, TypeOK
    <3>2. Acceptable(p) => vault.commitment \notin spent
      BY <1>7 DEF Acceptable
    <3>3. wire'[p] # "settled"
      BY <2>1 DEF Take, FlowInv, TypeOK
    <3> QED BY <1>5, <3>1, <3>2, <3>3 DEF Owed
  <2>2. CASE Settle(p) \/ Refuse(p)
    BY <1>6, <2>2 DEF Settle, Refuse
  <2> QED BY <2>1, <2>2
<1>9. wire'[p] = "settled" => vault.commitment \in spent'
  BY <1>7 DEF Take, Settle, Refuse, FlowInv, TypeOK
<1>10. Stage(t)'
  BY <1>2, <1>4, <1>6, <1>8, <1>9 DEF Stage, At, Built
<1>11. aside' # None => Owed(aside)'
  <2>1. ASSUME aside # None PROVE aside \in Payments \ {p}
    BY <1>1, <2>1 DEF FlowInv, Flow, TypeOK
  <2> QED BY <1>1, <1>2, <1>5, <1>7, <2>1 DEF Owed, Built
<1>12. \A q \in Payments :
         /\ wire'[q] \in {"sent", "proving"} => Waits(t, q)'
         /\ wire'[q] = "settled" => q \in deducted' \/ q = aside' \/ Waits(t, q)'
  BY <1>1, <1>2, <1>4, <1>5 DEF Waits, At
<1>13. Sound' /\ Balanced'
  BY <1>2 DEF Tidy, Sound, Balanced, Expected
<1> QED BY <1>5, <1>10, <1>11, <1>12, <1>13, SoleTabNext

(* The wallet learns that a payment settled, and keeps it aside, or that   *)
(* it was refused.                                                         *)
LEMMA AnswerTidy ==
  ASSUME FlowInv, Tidy, NEW t \in Tabs, Answer(t)
  PROVE  Tidy'
<1> DEFINE p == op[t].id
<1>1. op[t] # Idle /\ At(t, "waiting") /\ p \in Payments /\ TypeOK
  <2>1. At(t, "waiting") /\ Placed(op[t]) /\ TypeOK
    BY DEF Answer, AnswerOk, AnswerRefused, FlowInv, Flow
  <2> QED BY <2>1, IdleTab DEF At, Placed
<1>2. /\ \A s \in Tabs \ {t} : op[s] = Idle
      /\ Stage(t)
      /\ aside # None => Owed(aside)
      /\ \A q \in Payments :
           /\ wire[q] \in {"sent", "proving"} => Waits(t, q)
           /\ wire[q] = "settled" => q \in deducted \/ q = aside \/ Waits(t, q)
  BY <1>1, SoleTab DEF At
<1>3. Sound /\ Balanced
  BY DEF Tidy
<1>4. CASE AnswerOk(t)
  <2>1. /\ op'[t].at = "applying" /\ op'[t].id = p /\ op'[t].held = op[t].held
        /\ \A s \in Tabs \ {t} : op'[s] = Idle
    BY <1>1, <1>2, <1>4, TabMoves DEF AnswerOk
  <2>2. /\ aside' = p /\ wire[p] = "settled"
        /\ UNCHANGED <<tip, spent, wire, vault, intent, begun, deducted, credited>>
    BY <1>4 DEF AnswerOk, Succeeded, serverVars, history
  <2>3. /\ op[t].held = vault /\ Built(p) /\ p \notin deducted /\ aside = None
        /\ vault.commitment \in spent
    BY <1>1, <1>2, <2>2 DEF Stage, At
  <2> HIDE DEF p
  <2>4. Stage(t)'
    BY <2>1, <2>2, <2>3 DEF Stage, At
  <2>5. Owed(aside)'
    BY <2>2, <2>3 DEF Owed, Built
  <2>6. \A q \in Payments :
          /\ wire'[q] \notin {"sent", "proving"}
          /\ wire'[q] = "settled" => q \in deducted' \/ q = aside'
    BY <1>1, <1>2, <2>2, <2>3, Distinct DEF Waits, p
  <2>7. Sound' /\ Balanced'
    BY <1>3, <2>2 DEF Sound, Balanced, Expected
  <2> QED BY <2>1, <2>4, <2>5, <2>6, <2>7, SoleTabNext
<1>5. CASE AnswerRefused(t)
  <2>1. /\ op'[t] = Idle /\ op'[t].at = "idle"
        /\ \A s \in Tabs \ {t} : op'[s] = Idle
    BY <1>1, <1>2, <1>5, TabStops DEF AnswerRefused
  <2>2. /\ wire[p] = "refused"
        /\ UNCHANGED <<tip, spent, wire, vault, aside, intent, begun, deducted, credited>>
    BY <1>5 DEF AnswerRefused, serverVars, deviceVars, history
  <2>3. aside' # None => Owed(aside)'
    BY <1>2, <2>2 DEF Owed, Built
  <2>4. \A q \in Payments :
          /\ wire'[q] \notin {"sent", "proving"}
          /\ wire'[q] = "settled" => q \in deducted' \/ q = aside'
    BY <1>2, <2>2 DEF Waits
  <2>5. Sound' /\ Balanced'
    BY <1>3, <2>2 DEF Sound, Balanced, Expected
  <2> QED BY <2>1, <2>3, <2>4, <2>5, SoleTabNext
<1> QED BY <1>4, <1>5 DEF Answer

(* A settled payment is taken off the vault it was built from, once, or    *)
(* stays owed.                                                             *)
LEMMA SpendTidy ==
  ASSUME FlowInv, Tidy, NEW t \in Tabs, ApplySpend(t) \/ ApplyFails(t) \/ Clear(t)
  PROVE  Tidy'
<1> DEFINE p == op[t].id
<1>1. /\ op[t] # Idle /\ op[t].at \in {"applying", "clearing"} /\ TypeOK
      /\ p \in Payments
  <2>1. op[t].at \in {"applying", "clearing"} /\ Placed(op[t]) /\ TypeOK
    BY DEF ApplySpend, ApplyFails, Clear, At, FlowInv, Flow
  <2> QED BY <2>1, IdleTab DEF Placed
<1>2. /\ \A s \in Tabs \ {t} : op[s] = Idle
      /\ Stage(t)
      /\ aside # None /\ ~At(t, "clearing") => Owed(aside)
      /\ \A q \in Payments :
           /\ wire[q] \notin {"sent", "proving"}
           /\ wire[q] = "settled" => q \in deducted \/ q = aside
  BY <1>1, SoleTab DEF Waits, At
<1>3. aside = p /\ p # None
  BY <1>1, <1>2, Distinct DEF Stage, At
<1>4. Sound /\ Balanced
  BY DEF Tidy
<1>5. CASE ApplySpend(t)
  <2>1. /\ op'[t].at = "clearing" /\ op'[t].id = p
        /\ \A s \in Tabs \ {t} : op'[s] = Idle
    BY <1>1, <1>2, <1>5, TabMoves DEF ApplySpend
  <2>2. op[t].held = vault /\ Owed(p)
    BY <1>2, <1>3, <1>5 DEF ApplySpend, Stage, At
  <2>3. /\ vault' = Spend(vault, p) /\ deducted' = deducted \union {p}
        /\ UNCHANGED <<wire, aside, intent, begun, credited>>
    BY <1>5, <2>2 DEF ApplySpend, serverVars
  <2> HIDE DEF p
  <2>4. Stage(t)'
    BY <1>3, <2>1, <2>3 DEF Stage, At
  <2>5. Sound' /\ Balanced'
    BY <1>1, <1>4, <2>2, <2>3, SpendSound DEF Sound, Balanced, Expected
  <2>6. At(t, "clearing")'
    BY <2>1 DEF At
  <2> QED BY <1>2, <2>1, <2>3, <2>4, <2>5, <2>6, SoleTabNext
<1>6. CASE ApplyFails(t) \/ Clear(t)
  <2>1. /\ op'[t] = Idle /\ op'[t].at = "idle"
        /\ \A s \in Tabs \ {t} : op'[s] = Idle
    BY <1>1, <1>2, <1>6, TabStops DEF ApplyFails, Clear
  <2>2. UNCHANGED <<tip, spent, wire, vault, intent, begun, deducted, credited>>
    BY <1>6 DEF ApplyFails, Clear, serverVars, deviceVars, history
  <2>3. aside' # None => aside' = aside /\ ~At(t, "clearing")
    BY <1>6 DEF ApplyFails, Clear, deviceVars, At
  <2>4. aside' # None => Owed(aside)'
    BY <1>2, <2>2, <2>3 DEF Owed, Built
  <2>5. aside' = aside \/ p \in deducted
    BY <1>2, <1>6 DEF ApplyFails, Clear, deviceVars, Stage
  <2>6. \A q \in Payments :
          /\ wire'[q] \notin {"sent", "proving"}
          /\ wire'[q] = "settled" => q \in deducted' \/ q = aside'
    BY <1>2, <1>3, <2>2, <2>5
  <2>7. Sound' /\ Balanced'
    BY <1>4, <2>2 DEF Sound, Balanced, Expected
  <2> QED BY <2>1, <2>4, <2>6, <2>7, SoleTabNext
<1> QED BY <1>5, <1>6

(* A top-up first takes off what is owed; a refund is begun with nothing   *)
(* owed.                                                                   *)
LEMMA BeginTidy ==
  ASSUME FlowInv, Tidy, NEW t \in Tabs, NEW c \in Credits, ~strayed',
         \/ c \in TopUps /\ BeginTopUp(t, c)
         \/ c \in Refunds /\ BeginRefund(t, c)
  PROVE  Tidy'
<1>1. /\ op[t] = Idle /\ Alone(t) /\ op[t].at = "idle" /\ c \notin begun
      /\ TypeOK /\ vault \in Vault /\ vault.commitment = Expected(vault)
      /\ Aligned(vault) = vault
  BY IdleTab, AlignedSame DEF BeginTopUp, BeginRefund, FlowInv, TypeOK, Tidy, Sound
<1>2. /\ \A s \in Tabs \ {t} : op[s] = Idle
      /\ aside # None => Owed(aside)
      /\ \A q \in Payments :
           /\ wire[q] \notin {"sent", "proving"}
           /\ wire[q] = "settled" => q \in deducted \/ q = aside
  BY <1>1, SoleTab DEF Waits, At
<1>3. Sound /\ Balanced
  BY DEF Tidy
<1>4. /\ op' = [op EXCEPT ![t] = [at |-> "resealing", id |-> c, held |-> vault']]
      /\ begun' = begun \union {c} /\ UNCHANGED <<wire, intent, credited>>
      /\ aside' = None
      /\ \/ vault' = vault /\ aside = None /\ deducted' = deducted
         \/ /\ aside # None /\ vault' = Spend(vault, aside)
            /\ deducted' = deducted \union {aside}
  <2>1. CASE BeginTopUp(t, c) /\ aside = None
    BY <1>1, <2>1 DEF BeginTopUp
  <2>2. CASE BeginTopUp(t, c) /\ aside # None
    <3>1. Owed(aside) /\ aside \in Payments
      BY <1>1, <1>2, <2>2 DEF TypeOK
    <3>2. RepairWorks(vault)
      BY <3>1 DEF Owed, Built, RepairWorks
    <3>3. /\ Repaired(vault) = Spend(vault, aside)
          /\ Aligned(Spend(vault, aside)) = Spend(vault, aside)
      BY <3>1, SpendSound, AlignedSame
    <3> QED BY <1>1, <2>2, <3>2, <3>3 DEF BeginTopUp
  <2>3. CASE BeginRefund(t, c)
    <3>1. aside = None
      BY <2>3 DEF BeginRefund
    <3>2. vault' = vault
      BY <2>3, LoadSame DEF BeginRefund
    <3> QED BY <2>3, <3>1, <3>2 DEF BeginRefund
  <2> QED BY <2>1, <2>2, <2>3
<1>5. /\ op'[t] = [at |-> "resealing", id |-> c, held |-> vault']
      /\ \A s \in Tabs \ {t} : op'[s] = Idle
  BY <1>1, <1>2, <1>4 DEF TypeOK
<1>6. Stage(t)'
  BY <1>1, <1>3, <1>4, <1>5 DEF Stage, At, Sound
<1>7. Sound' /\ Balanced'
  <2>1. CASE vault' = vault /\ aside = None /\ deducted' = deducted
    BY <1>3, <1>4, <2>1 DEF Sound, Balanced, Expected
  <2>2. CASE /\ aside # None /\ vault' = Spend(vault, aside)
             /\ deducted' = deducted \union {aside}
    <3>1. Owed(aside) /\ aside \in Payments
      BY <1>1, <1>2, <2>2 DEF TypeOK
    <3> QED BY <1>3, <1>4, <2>2, <3>1, SpendSound DEF Sound, Balanced, Expected
  <2> QED BY <1>4, <2>1, <2>2
<1>8. \A q \in Payments :
        /\ wire'[q] \notin {"sent", "proving"}
        /\ wire'[q] = "settled" => q \in deducted'
  BY <1>2, <1>4, Distinct DEF FlowInv, TypeOK
<1> QED BY <1>4, <1>5, <1>6, <1>7, <1>8, SoleTabNext

(* A credit is added to the vault it was begun with, once.                 *)
LEMMA CreditTidy ==
  ASSUME FlowInv, Tidy, NEW t \in Tabs,
         ResealCredit(t) \/ RefundRefused(t) \/ ApplyCredit(t)
  PROVE  Tidy'
<1> DEFINE c == op[t].id
<1>1. /\ op[t] # Idle /\ op[t].at \in {"resealing", "crediting"} /\ TypeOK
      /\ c \in Credits /\ vault \in Vault
  <2>1. op[t].at \in {"resealing", "crediting"} /\ Placed(op[t]) /\ TypeOK
    BY DEF ResealCredit, RefundRefused, ApplyCredit, At, FlowInv, Flow
  <2> QED BY <2>1, IdleTab DEF Placed, TypeOK
<1>2. /\ \A s \in Tabs \ {t} : op[s] = Idle
      /\ Stage(t)
      /\ \A q \in Payments :
           /\ wire[q] \notin {"sent", "proving"}
           /\ wire[q] = "settled" => q \in deducted \/ q = aside
  BY <1>1, SoleTab DEF Waits, At
<1>3. aside = None /\ c \in begun /\ c \notin credited /\ op[t].held = vault
  BY <1>1, <1>2 DEF Stage, At
<1>4. Sound /\ Balanced
  BY DEF Tidy
<1>5. CASE ResealCredit(t)
  <2>1. /\ op'[t].at = "crediting" /\ op'[t].id = c /\ op'[t].held = op[t].held
        /\ \A s \in Tabs \ {t} : op'[s] = Idle
    BY <1>1, <1>2, <1>5, TabMoves DEF ResealCredit
  <2>2. vault' = vault /\ UNCHANGED <<wire, aside, intent, begun, deducted, credited>>
    BY <1>3, <1>5 DEF ResealCredit, history
  <2> HIDE DEF c
  <2>3. Stage(t)'
    BY <1>3, <2>1, <2>2 DEF Stage, At
  <2>4. Sound' /\ Balanced'
    BY <1>4, <2>2 DEF Sound, Balanced, Expected
  <2> QED BY <1>2, <1>3, <2>1, <2>2, <2>3, <2>4, SoleTabNext
<1>6. CASE RefundRefused(t)
  <2>1. op'[t] = Idle /\ \A s \in Tabs \ {t} : op'[s] = Idle
    BY <1>1, <1>2, <1>6, TabStops DEF RefundRefused
  <2>2. UNCHANGED <<wire, vault, aside, intent, begun, deducted, credited>>
    BY <1>6 DEF RefundRefused, serverVars, deviceVars, history
  <2>3. Sound' /\ Balanced'
    BY <1>4, <2>2 DEF Sound, Balanced, Expected
  <2> QED BY <1>2, <1>3, <2>1, <2>2, <2>3, SoleTabNext
<1>7. CASE ApplyCredit(t)
  <2>1. op'[t] = Idle /\ \A s \in Tabs \ {t} : op'[s] = Idle
    BY <1>1, <1>2, <1>7, TabStops DEF ApplyCredit
  <2>2. /\ vault' = Credited(vault, c) /\ credited' = credited \union {c}
        /\ UNCHANGED <<wire, aside, intent, begun, deducted>>
    BY <1>3, <1>7 DEF ApplyCredit, serverVars
  <2>3. Sound'
    BY <1>3, <1>4, <2>2 DEF Sound, Expected, Credited
  <2>4. Balanced'
    <3>1. /\ IsFiniteSet(credited \union {c})
          /\ Cardinality(credited \union {c}) = Cardinality(credited) + 1
          /\ Cardinality(deducted) \in Nat /\ Cardinality(credited) \in Nat
      BY <1>3, <1>4, FS_AddElement, FS_CardinalityType DEF Balanced
    <3>2. vault'.balance = vault.balance + 1
      BY <2>2 DEF Credited
    <3> QED BY <1>4, <2>2, <3>1, <3>2, OpeningType DEF Balanced
  <2> QED BY <1>2, <1>3, <2>1, <2>2, <2>3, <2>4, SoleTabNext
<1> QED BY <1>5, <1>6, <1>7

(* A tab that is left before anything was sent leaves nothing behind.      *)
LEMMA LeaveTidy ==
  ASSUME FlowInv, Tidy, NEW t \in Tabs, Leave(t), ~strayed'
  PROVE  Tidy'
<1>1. op[t] # Idle /\ At(t, "ping")
  BY DEF Leave
<1>2. /\ \A s \in Tabs \ {t} : op[s] = Idle
      /\ aside # None => Owed(aside)
      /\ \A q \in Payments :
           /\ wire[q] \notin {"sent", "proving"}
           /\ wire[q] = "settled" => q \in deducted \/ q = aside
  BY <1>1, SoleTab DEF Waits, At
<1>3. op'[t] = Idle /\ \A s \in Tabs \ {t} : op'[s] = Idle
  BY <1>2, TabStops DEF Leave, FlowInv
<1>4. UNCHANGED <<spent, wire, vault, aside, intent, begun, deducted, credited>>
  BY DEF Leave, serverVars, deviceVars
<1>5. aside' # None => Owed(aside)'
  BY <1>2, <1>4 DEF Owed, Built
<1>6. Sound' /\ Balanced'
  BY <1>4 DEF Tidy, Sound, Balanced, Expected
<1> QED BY <1>2, <1>3, <1>4, <1>5, <1>6, SoleTabNext

(* The invariant: as long as nothing strayed, everything is in order.      *)
Kept == ~strayed => Tidy

(* The initial state is in order.                                          *)
LEMMA InitKept == Init => Kept
<1> SUFFICES ASSUME Init PROVE Tidy
  BY DEF Kept
<1>1. Staged /\ AsideOwed /\ Traced
  BY DEF Init, Staged, AsideOwed, Traced
<1>2. Sound
  BY DEF Init, Sound, Expected
<1>3. Balanced
  BY FS_EmptySet, OpeningType DEF Init, Balanced
<1> QED BY <1>1, <1>2, <1>3 DEF Tidy

(* What has strayed stays strayed.                                         *)
LEMMA StrayedStays == TypeOK /\ [Next]_vars /\ strayed => strayed'
BY DEF TypeOK, Next, Load, Repair, BuildIntent, Accept, Answer, AnswerOk, AnswerRefused,
       Finish, ApplySpend, ApplyFails, Clear, ResealCredit, RefundRefused, ApplyCredit,
       Leave, BeginTopUp, BeginRefund, Take, Settle, Refuse, vars, history

(* Every step that does not stray leaves everything in order.              *)
LEMMA NextKept == FlowInv /\ Kept /\ [Next]_vars => Kept'
<1> SUFFICES ASSUME FlowInv, Kept, [Next]_vars, ~strayed' PROVE Tidy'
  BY DEF Kept
<1>1. Tidy
  BY StrayedStays DEF Kept, FlowInv
<1>2. ASSUME NEW t \in Tabs, NEW online \in BOOLEAN,
             Load(t) \/ Repair(t, online) \/ Accept(t, online)
      PROVE  Tidy'
  BY <1>1, <1>2, LoadTidy, RepairTidy, AcceptTidy
<1>3. ASSUME NEW t \in Tabs, NEW p \in Payments, NEW online \in BOOLEAN,
             BuildIntent(t, p, online)
      PROVE  Tidy'
  BY <1>1, <1>3, BuildTidy
<1>4. ASSUME NEW t \in Tabs, Answer(t) \/ Finish(t) \/ Leave(t) PROVE Tidy'
  BY <1>1, <1>4, AnswerTidy, SpendTidy, CreditTidy, LeaveTidy DEF Finish
<1>5. ASSUME NEW t \in Tabs, NEW f \in TopUps, BeginTopUp(t, f) PROVE Tidy'
  BY <1>1, <1>5, BeginTidy DEF Credits
<1>6. ASSUME NEW t \in Tabs, NEW r \in Refunds, BeginRefund(t, r) PROVE Tidy'
  BY <1>1, <1>6, BeginTidy DEF Credits
<1>7. ASSUME NEW p \in Payments, Take(p) \/ Settle(p) \/ Refuse(p) PROVE Tidy'
  BY <1>1, <1>7, ServerTidy
<1>8. ASSUME UNCHANGED vars PROVE Tidy'
  BY <1>1, <1>8, QuietTidy DEF vars, serverVars, deviceVars, history
<1>9. \A t \in Tabs : Load(t) => Tidy'
  BY <1>1, LoadTidy
<1> QED BY <1>2, <1>3, <1>4, <1>5, <1>6, <1>7, <1>8, <1>9 DEF Next

(* Undisturbed operations leave the right balance on the device whatever   *)
(* is refused, not saved or repaired, and only what the server settled is  *)
(* deducted.                                                               *)
THEOREM PaymentsStayKept == Spec => []PaymentsAreKept
<1>1. Init => FlowInv /\ Kept
  BY InitFlow, InitKept
<1>2. FlowInv /\ Kept /\ [Next]_vars => (FlowInv /\ Kept)'
  BY NextFlow, NextKept
<1>3. FlowInv /\ Kept => PaymentsAreKept
  <2> SUFFICES ASSUME FlowInv, Kept, AtRest, ~strayed
               PROVE  /\ deducted = Settled
                      /\ vault.balance = Opening + Cardinality(credited) - Cardinality(Settled)
    BY DEF PaymentsAreKept, MoneyAddsUp, DeductedWasSettled, FlowInv, Flow
  <2>1. Tidy /\ aside = None /\ \A t \in Tabs : op[t].at = "idle"
    BY IdleTab DEF Kept, AtRest
  <2>2. deducted = Settled
    BY <2>1, Distinct DEF Tidy, Traced, Waits, At, Settled, FlowInv, Flow, TypeOK
  <2> QED BY <2>1, <2>2 DEF Tidy, Balanced
<1> QED BY <1>1, <1>2, <1>3, PTL DEF Spec

-----------------------------------------------------------------------------
(* The sheet on which payments are accepted (PaySheet).                    *)

(* A request of credit is under way, counted.                              *)
HasKind(kind) == IF kind \in asking THEN 1 ELSE 0

(* Payments are numbered as they are built, and each failed request of     *)
(* credit leaves one timer.                                                *)
CountInv ==
  /\ \A r \in building : r.id \in 1..made
  /\ timers + HasKind("loan") + HasKind("standing") <= asked
  /\ made + asked <= MaxBegun

(* What is pending has its recipient among the contacts.                   *)
BundleInv ==
  bundle # None => bundle.name \in contacts

(* The verdict on the sheet, and the one that is asked for, are on the     *)
(* name that stands there.                                                 *)
Named(s) ==
  /\ s.result # None => s.result.name = s.name
  /\ \A r \in s.requests : r.current => r.name = s.name

(* A sheet that shows the payment b beside the contacts known: what was    *)
(* pressed first is what it shows; the one current request is still waited *)
(* for; and where a verdict is needed it is asked for, on this name unless *)
(* that was typed before.                                                  *)
SheetOK(s, b, known) ==
  /\ s.props = Sheet!Props(b)
  /\ s.armed => s.pressed = [amount |-> s.amount, name |-> s.name]
  /\ \A r \in s.requests : r.current => s.verify # "done"
  /\ \A r, q \in s.requests : r.current /\ q.current => r = q
  /\ Sheet!Needed(b) => /\ s.verify # "idle" \/ s.name = Blank
                        /\ s.typed => s.name # Blank
  /\ ~s.typed => Named(s) \/ (~Sheet!Needed(b) /\ s.name \in known \union {Blank})

(* The sheet, when there is one.                                           *)
SheetInv == sheet # None => SheetOK(sheet, bundle, contacts)

(* What was accepted by hand went through the gates of its payment.        *)
Gated(c) ==
  ~c.guided => /\ c.of.second => c.twice
               /\ c.of.stranger => c.checked \/ c.typed

(* The confirmation in progress: what it settles is what was wanted, with  *)
(* the papers of that payment.                                             *)
ConfirmInv ==
  confirm # None /\ confirm.at \in {"unlock", "rebuild", "settle"} =>
    /\ Gated(confirm)
    /\ confirm.at = "unlock" => confirm.to = confirm.of
    /\ confirm.at = "settle" =>
         /\ [amount |-> confirm.to.amount, name |-> confirm.to.name] = confirm.wanted
         /\ confirm.papers = confirm.to.id

(* The inductive invariant of the sheet.                                   *)
SheetsInv == Sheet!TypeOK /\ CountInv /\ BundleInv /\ SheetInv /\ ConfirmInv

-----------------------------------------------------------------------------

(* A sheet before it looks again whether it needs a verdict: one may be    *)
(* needed that nobody has asked for yet.                                   *)
AlmostOK(s, b, known) ==
  /\ s.props = Sheet!Props(b)
  /\ s.armed => s.pressed = [amount |-> s.amount, name |-> s.name]
  /\ \A r \in s.requests : r.current => s.verify # "done"
  /\ \A r, q \in s.requests : r.current /\ q.current => r = q
  /\ Sheet!Needed(b) /\ s.typed => s.name # Blank
  /\ ~s.typed => \/ Named(s)
                 \/ ~Sheet!Needed(b) /\ s.name \in known \union {Blank}
                 \/ Sheet!Needed(b) /\ s.name # Blank /\ s.verify = "idle"

(* Two sheets that show the same and were pressed alike.                   *)
GatedAlike(s, u) ==
  /\ u.props = s.props /\ u.amount = s.amount /\ u.name = s.name /\ u.armed = s.armed
  /\ u.pressed = s.pressed /\ u.typed = s.typed

(* The requests of a name, once a new one is the current one.              *)
WithRequest(R, n, pick) ==
  {[r EXCEPT !.current = FALSE] : r \in R}
     \union {[name |-> n, pick |-> pick, current |-> TRUE]}

(* The current one is of that name, and the others are not current.        *)
LEMMA RequestsOf ==
  ASSUME NEW R \in SUBSET Sheet!Request, NEW n \in Names, NEW pick \in Persons \union {None}
  PROVE  /\ WithRequest(R, n, pick) \in SUBSET Sheet!Request
         /\ \A r \in WithRequest(R, n, pick) : r.current => r.name = n
         /\ \A r, q \in WithRequest(R, n, pick) : r.current /\ q.current => r = q
  <1> DEFINE Q == WithRequest(R, n, pick)
  <1>1. \A r \in R : /\ [r EXCEPT !.current = FALSE] \in Sheet!Request
                     /\ [r EXCEPT !.current = FALSE].current = FALSE
    BY DEF Sheet!Request
  <1>2. [name |-> n, pick |-> pick, current |-> TRUE] \in Sheet!Request
    BY DEF Sheet!Request
  <1>3. \A q \in Q : q.current => q = [name |-> n, pick |-> pick, current |-> TRUE]
    BY <1>1 DEF WithRequest
  <1>4. \A r \in Q : r.current => r.name = n
    BY <1>3
  <1>5. \A r, q \in Q : r.current /\ q.current => r = q
    BY <1>3
  <1>6. Q \in SUBSET Sheet!Request
    BY <1>1, <1>2 DEF WithRequest
  <1> QED BY <1>4, <1>5, <1>6

(* A sheet that has asked for a verdict on its name.                       *)
LEMMA RequestedIs ==
  ASSUME NEW s \in Sheet!Sheet, s.name \in Names, NEW pick \in Persons \union {None}
  PROVE  LET u == Sheet!Requested(s, pick)
         IN  /\ u \in Sheet!Sheet /\ GatedAlike(s, u)
             /\ u.verify = "checking" /\ u.result = None
             /\ \A r \in u.requests : r.current => r.name = s.name
             /\ \A r, q \in u.requests : r.current /\ q.current => r = q
  <1> DEFINE Q == WithRequest(s.requests, s.name, pick)
  <1>1. s.requests \in SUBSET Sheet!Request
    BY DEF Sheet!Sheet
  <1>2. /\ Q \in SUBSET Sheet!Request
        /\ \A r \in Q : r.current => r.name = s.name
        /\ \A r, q \in Q : r.current /\ q.current => r = q
    BY <1>1, RequestsOf
  <1>3. Sheet!Requested(s, pick) =
          [s EXCEPT !.verify = "checking", !.result = None, !.requests = Q]
    BY DEF Sheet!Requested, Sheet!Sheet, WithRequest
  <1> HIDE DEF Q
  <1> QED BY <1>2, <1>3 DEF Sheet!Sheet, GatedAlike

(* A sheet that looks up the brand again.                                  *)
LEMMA BrandedIs ==
  ASSUME NEW s \in Sheet!Sheet
  PROVE  LET u == Sheet!Branded(s)
         IN  /\ u \in Sheet!Sheet /\ GatedAlike(s, u)
             /\ u.verify = s.verify /\ u.result = s.result /\ u.requests = s.requests
  <1> DEFINE b == IF s.name = Blank THEN "not_a_brand" ELSE "loading"
             u == [s EXCEPT !.ack = FALSE, !.brand = b]
  <1>1. b \in {"loading", "verified", "unverified_brand", "not_a_brand"}
    OBVIOUS
  <1>2. Sheet!Branded(s) = u
    BY DEF Sheet!Branded
  <1> HIDE DEF b
  <1>3. u \in Sheet!Sheet
    BY <1>1 DEF Sheet!Sheet
  <1>4. /\ GatedAlike(s, u)
        /\ u.verify = s.verify /\ u.result = s.result /\ u.requests = s.requests
    BY DEF Sheet!Sheet, GatedAlike
  <1> QED BY <1>2, <1>3, <1>4

(* Looking again makes the sheet right.                                    *)
LEMMA CheckedOK ==
  ASSUME NEW s \in Sheet!Sheet, NEW b, NEW known, AlmostOK(s, b, known)
  PROVE  Sheet!Checked(s, b) \in Sheet!Sheet /\ SheetOK(Sheet!Checked(s, b), b, known)
  <1>1. CASE Sheet!Needed(b) /\ s.name # Blank /\ s.verify = "idle"
    <2>1. s.name \in Names
      BY <1>1 DEF Sheet!Sheet, Sheet!Shown
    <2> DEFINE u == Sheet!Requested(s, None)
    <2>2. /\ u \in Sheet!Sheet /\ GatedAlike(s, u)
          /\ u.verify = "checking" /\ u.result = None
          /\ \A r \in u.requests : r.current => r.name = s.name
          /\ \A r, q \in u.requests : r.current /\ q.current => r = q
      BY <2>1, RequestedIs
    <2>3. Sheet!Checked(s, b) = u
      BY <1>1 DEF Sheet!Checked
    <2> HIDE DEF u
    <2> QED BY <1>1, <2>2, <2>3 DEF SheetOK, AlmostOK, Named, GatedAlike
  <1>2. CASE ~(Sheet!Needed(b) /\ s.name # Blank /\ s.verify = "idle")
    <2>1. Sheet!Checked(s, b) = s
      BY <1>2 DEF Sheet!Checked
    <2> QED BY <1>2, <2>1 DEF SheetOK, AlmostOK
  <1> QED BY <1>1, <1>2

(* So does another name: its verdict is asked for anew.                    *)
LEMMA RenamedOK ==
  ASSUME NEW s \in Sheet!Sheet, NEW b, NEW known, NEW n \in Sheet!Shown,
         s.props = Sheet!Props(b), ~s.armed,
         \A r, q \in s.requests : r.current /\ q.current => r = q,
         Sheet!Needed(b) /\ s.typed => n # Blank,
         ~s.typed /\ Sheet!Needed(b) /\ n = Blank => \A r \in s.requests : ~r.current,
         ~s.typed /\ ~Sheet!Needed(b) => n \in known \union {Blank}
  PROVE  Sheet!Renamed(s, n, b) \in Sheet!Sheet /\ SheetOK(Sheet!Renamed(s, n, b), b, known)
  <1> DEFINE t == [s EXCEPT !.name = n, !.verify = "idle", !.result = None]
             u == Sheet!Branded(t)
  <1>1. /\ t \in Sheet!Sheet
        /\ t.props = s.props /\ t.armed = s.armed /\ t.typed = s.typed
        /\ t.name = n /\ t.verify = "idle" /\ t.result = None /\ t.requests = s.requests
    BY DEF Sheet!Sheet
  <1>2. Sheet!Renamed(s, n, b) = Sheet!Checked(u, b)
    BY DEF Sheet!Renamed
  <1> HIDE DEF t
  <1>3. /\ u \in Sheet!Sheet /\ GatedAlike(t, u)
        /\ u.verify = t.verify /\ u.result = t.result /\ u.requests = t.requests
    BY <1>1, BrandedIs
  <1> HIDE DEF u
  <1>4. AlmostOK(u, b, known)
    BY <1>1, <1>3 DEF AlmostOK, Named, GatedAlike
  <1> QED BY <1>2, <1>3, <1>4, CheckedOK

(* From the payment b0 and the contacts k0 to b and k: contacts are only   *)
(* added, and another payment has its recipient among them.                *)
Follows(b0, k0, b, k) ==
  /\ b0 \in Sheet!Bundle \union {None} /\ b \in Sheet!Bundle \union {None}
  /\ k0 \subseteq k
  /\ b0 # None => b0.name \in k0
  /\ b # None => b.name \in k
  /\ Sheet!Needed(b) => b = b0 \/ b.name \notin k0

(* What the sheet is given of a payment.                                   *)
LEMMA PropsAre ==
  ASSUME Sheet!ConstantTypes, NEW b \in Sheet!Bundle \union {None}
  PROVE  /\ Sheet!Props(b) \in (Amounts \union {0}) \X Sheet!Shown
         /\ Sheet!Props(b)[1] \in Amounts \union {0} /\ Sheet!Props(b)[2] \in Sheet!Shown
         /\ b = None => Sheet!Props(b)[1] = 0 /\ Sheet!Props(b)[2] = Blank
         /\ b # None => /\ Sheet!Props(b)[1] = b.amount /\ Sheet!Props(b)[2] = b.name
                        /\ b.amount # 0 /\ b.name # Blank
  BY DEF Sheet!ConstantTypes, Sheet!Props, Sheet!Bundle, Sheet!Shown

(* A sheet that is given another payment.                                  *)
LEMMA RerenderedOK ==
  ASSUME Sheet!ConstantTypes, NEW s \in Sheet!Sheet, NEW b0, NEW k0, NEW b, NEW k,
         SheetOK(s, b0, k0), Follows(b0, k0, b, k)
  PROVE  Sheet!Rerendered(s, b) \in Sheet!Sheet /\ SheetOK(Sheet!Rerendered(s, b), b, k)
  <1> DEFINE to == Sheet!Props(b)
             now == [s EXCEPT !.props = to, !.amount = to[1], !.armed = FALSE,
                              !.pressed = None]
  <1>0. /\ b0 \in Sheet!Bundle \union {None} /\ b \in Sheet!Bundle \union {None}
        /\ Sheet!Needed(b) => b # None
    BY DEF Follows, Sheet!Needed
  <1>1. /\ to \in (Amounts \union {0}) \X Sheet!Shown
        /\ to[1] \in Amounts \union {0} /\ to[2] \in Sheet!Shown
        /\ b = None => to[1] = 0 /\ to[2] = Blank
        /\ b # None => to[1] = b.amount /\ to[2] = b.name /\ b.amount # 0 /\ b.name # Blank
    BY <1>0, PropsAre
  <1>2. /\ b0 = None => Sheet!Props(b0)[1] = 0 /\ Sheet!Props(b0)[2] = Blank
        /\ b0 # None => Sheet!Props(b0)[1] = b0.amount /\ Sheet!Props(b0)[2] = b0.name
    BY <1>0, PropsAre
  <1>3. to = Sheet!Props(b)
    OBVIOUS
  <1>4. Sheet!Rerendered(s, b) =
          IF s.props = to THEN Sheet!Checked(s, b)
          ELSE IF s.name # to[2] THEN Sheet!Renamed([now EXCEPT !.typed = FALSE], to[2], b)
          ELSE Sheet!Checked(IF s.props[2] # to[2] THEN Sheet!Branded(now) ELSE now, b)
    BY DEF Sheet!Rerendered
  <1>5. /\ now \in Sheet!Sheet /\ now.props = to /\ ~now.armed /\ now.name = s.name
        /\ now.verify = s.verify /\ now.result = s.result /\ now.requests = s.requests
        /\ now.typed = s.typed
    BY <1>1 DEF Sheet!Sheet
  <1> HIDE DEF now, to
  <1>6. CASE s.props = to
    <2>1. Sheet!Needed(b) => b = b0
      BY <1>0, <1>1, <1>2, <1>3, <1>6 DEF SheetOK, Follows
    <2>2. AlmostOK(s, b, k)
      BY <2>1, <1>3, <1>6 DEF AlmostOK, SheetOK, Follows
    <2> QED BY <1>4, <1>6, <2>2, CheckedOK
  <1>7. CASE s.props # to /\ s.name # to[2]
    <2> DEFINE u == [now EXCEPT !.typed = FALSE]
    <2>1. /\ u \in Sheet!Sheet /\ u.props = to /\ ~u.armed /\ ~u.typed
          /\ u.requests = s.requests
      BY <1>5 DEF Sheet!Sheet
    <2>2. Sheet!Rerendered(s, b) = Sheet!Renamed(u, to[2], b)
      BY <1>4, <1>7
    <2> HIDE DEF u
    <2>3. Sheet!Needed(b) => to[2] # Blank
      BY <1>0, <1>1
    <2>4. to[2] \in k \union {Blank}
      BY <1>1 DEF Follows
    <2>5. \A r, q \in u.requests : r.current /\ q.current => r = q
      BY <2>1 DEF SheetOK
    <2> QED BY <1>1, <1>3, <2>1, <2>2, <2>3, <2>4, <2>5, RenamedOK
  <1>8. CASE s.props # to /\ s.name = to[2]
    <2> DEFINE u == IF s.props[2] # to[2] THEN Sheet!Branded(now) ELSE now
    <2>1. /\ u \in Sheet!Sheet /\ GatedAlike(now, u)
          /\ u.verify = s.verify /\ u.result = s.result /\ u.requests = s.requests
      BY <1>5, BrandedIs DEF GatedAlike
    <2>2. Sheet!Rerendered(s, b) = Sheet!Checked(u, b)
      BY <1>4, <1>8
    <2> HIDE DEF u
    <2>3. u.props = to /\ ~u.armed /\ u.name = to[2] /\ u.typed = s.typed
      BY <1>5, <1>8, <2>1 DEF GatedAlike
    <2>4. Sheet!Needed(b) => to[2] # Blank /\ to[2] = b.name
      BY <1>0, <1>1
    <2>5. ~s.typed => Named(u) \/ (~Sheet!Needed(b) /\ to[2] \in k \union {Blank})
      BY <1>8, <2>1, <2>3, <2>4 DEF SheetOK, Follows, Named
    <2>6. AlmostOK(u, b, k)
      BY <1>3, <2>1, <2>3, <2>4, <2>5 DEF SheetOK, AlmostOK
    <2> QED BY <2>1, <2>2, <2>6, CheckedOK
  <1> QED BY <1>6, <1>7, <1>8

(* A sheet that comes up.                                                  *)
LEMMA MountedOK ==
  ASSUME Sheet!ConstantTypes, NEW b \in Sheet!Bundle \union {None}, NEW k, b # None => b.name \in k
  PROVE  Sheet!Mounted(b) \in Sheet!Sheet /\ SheetOK(Sheet!Mounted(b), b, k)
  <1> DEFINE to == Sheet!Props(b)
             s == [props |-> to, amount |-> to[1], name |-> Blank, armed |-> FALSE,
                   verify |-> "idle", result |-> None, requests |-> {},
                   brand |-> "not_a_brand", ack |-> FALSE, pressed |-> None, typed |-> FALSE]
  <1>0. Sheet!Needed(b) => b # None
    BY DEF Sheet!Needed
  <1>1. /\ to \in (Amounts \union {0}) \X Sheet!Shown
        /\ to[1] \in Amounts \union {0} /\ to[2] \in Sheet!Shown
        /\ b = None => to[1] = 0 /\ to[2] = Blank
        /\ b # None => to[1] = b.amount /\ to[2] = b.name /\ b.amount # 0 /\ b.name # Blank
    BY PropsAre
  <1>2. Sheet!Mounted(b) = Sheet!Renamed(s, to[2], b) /\ to = Sheet!Props(b)
    BY DEF Sheet!Mounted
  <1>3. s \in Sheet!Sheet /\ s.props = to /\ ~s.armed /\ s.requests = {} /\ ~s.typed
    BY <1>1 DEF Sheet!Sheet, Sheet!Shown
  <1> HIDE DEF s, to
  <1>4. ~Sheet!Needed(b) => to[2] \in k \union {Blank}
    BY <1>1
  <1> QED BY <1>0, <1>1, <1>2, <1>3, <1>4, RenamedOK

-----------------------------------------------------------------------------

(* The types of what the screen shows,                                     *)
ScreenTyped ==
  /\ phase \in Sheet!Phases /\ Known \subseteq contacts /\ contacts \subseteq Names
  /\ bundle \in Sheet!Bundle \union {None}
  /\ credit \in Sheet!Kinds \union {None} /\ flow \in BOOLEAN

(* of the payments, the requests of credit and the counters,               *)
CountsTyped ==
  /\ made \in 0..MaxBegun /\ preparing \subseteq 1..made
  /\ building \subseteq [id : Sheet!Ids, amount : Amounts, name : Names]
  /\ prepared \in (1..made) \union {None}
  /\ asking \subseteq Sheet!Kinds /\ asked \in 0..MaxBegun /\ timers \in 0..MaxBegun
  /\ guides \in 0..MaxGuides

(* and with them what does not depend on the sheet.                        *)
SheetBasics == ScreenTyped /\ CountsTyped /\ CountInv /\ BundleInv

(* The types of the sheet and of the confirmation.                         *)
SheetTyped == sheet \in Sheet!Sheet \union {None}
ConfirmTyped == confirm \in Sheet!Confirm \union Sheet!Booking \union {None}

(* The parts of the invariant, one after the other.                        *)
LEMMA SheetParts ==
  SheetsInv <=> SheetBasics /\ SheetTyped /\ ConfirmTyped /\ SheetInv /\ ConfirmInv
  BY DEF SheetsInv, Sheet!TypeOK, SheetBasics, ScreenTyped, CountsTyped, SheetTyped, ConfirmTyped

(* A payment that is built.                                                *)
LEMMA BuiltType ==
  ASSUME Sheet!ConstantTypes, contacts \subseteq Names, NEW id \in Sheet!Ids, NEW p,
         p.amount \in Amounts, p.name \in Names
  PROVE  /\ Sheet!Built(id, p) \in Sheet!Bundle
         /\ Sheet!Built(id, p).id = id /\ Sheet!Built(id, p).amount = p.amount
         /\ Sheet!Built(id, p).name = p.name
         /\ Sheet!Built(id, p).stranger => p.name \notin contacts
  <1>1. \A x \in Sheet!Ids, a \in Amounts, n \in Names, s, t \in BOOLEAN :
          [id |-> x, amount |-> a, name |-> n, second |-> s, stranger |-> t] \in Sheet!Bundle
    BY DEF Sheet!Bundle
  <1>2. (p.amount >= Limit) \in BOOLEAN /\ (p.name \notin contacts) \in BOOLEAN
    <2>1. p.amount \in Nat /\ Limit \in Nat
      BY DEF Sheet!ConstantTypes
    <2>2. \A x, y \in Nat : (x >= y) \in BOOLEAN
      OBVIOUS
    <2> QED BY <2>1, <2>2, Zenon
  <1>3. Sheet!Built(id, p) \in Sheet!Bundle
    BY <1>1, <1>2, Zenon DEF Sheet!Built
  <1> QED BY <1>3, Zenon DEF Sheet!Built

(* A payment that is built anew by a confirmation, with the next number.   *)
LEMMA Rebuilding ==
  ASSUME Sheet!ConstantTypes, SheetBasics, ConfirmTyped, Sheet!At("rebuild"),
         made + asked < MaxBegun
  PROVE  LET now == Sheet!Built(made + 1, confirm.wanted)
         IN  /\ confirm \in Sheet!Confirm /\ confirm.wanted \in Sheet!Payment
             /\ made + 1 \in Sheet!Ids
             /\ now \in Sheet!Bundle /\ now.id = made + 1
             /\ now.amount = confirm.wanted.amount /\ now.name = confirm.wanted.name
             /\ now.stranger => confirm.wanted.name \notin contacts
  <1>1. confirm \in Sheet!Confirm /\ confirm.wanted \in Sheet!Payment
    BY DEF ConfirmTyped, Sheet!At, Sheet!busy, Sheet!Booking, Sheet!Confirm
  <1>2. made + 1 \in Sheet!Ids
    BY DEF SheetBasics, CountsTyped, CountInv, Sheet!ConstantTypes, Sheet!Ids
  <1>3. contacts \subseteq Names
    BY DEF SheetBasics, ScreenTyped
  <1> QED BY <1>1, <1>2, <1>3, BuiltType DEF Sheet!Payment

(* A payment whose clientIntent has answered.                              *)
LEMMA AnsweredIs ==
  ASSUME Sheet!ConstantTypes, SheetBasics, NEW r, Sheet!Answered(r)
  PROVE  /\ r.id \in 1..made /\ r.id \in Sheet!Ids /\ r.amount \in Amounts /\ r.name \in Names
         /\ bundle' \in Sheet!Bundle /\ bundle'.name = r.name
         /\ bundle'.stranger => r.name \notin contacts
  <1>1. r \in building /\ building \subseteq [id : Sheet!Ids, amount : Amounts, name : Names]
    BY DEF Sheet!Answered, SheetBasics, CountsTyped
  <1>2. r.id \in 1..made /\ r.id \in Sheet!Ids /\ r.amount \in Amounts /\ r.name \in Names
    BY <1>1 DEF SheetBasics, CountInv
  <1>3. contacts \subseteq Names /\ bundle' = Sheet!Built(r.id, r)
    BY DEF SheetBasics, ScreenTyped, Sheet!Answered
  <1> QED BY <1>2, <1>3, BuiltType

(* Every step keeps the types of the screen, and the recipient of what is  *)
(* pending among the contacts.                                             *)
LEMMA ScreenKept ==
  ASSUME Sheet!ConstantTypes, SheetBasics, ConfirmTyped, Sheet!Next
  PROVE  ScreenTyped' /\ BundleInv'
  <1> USE DEF SheetBasics, ScreenTyped, BundleInv
  <1>1. ASSUME NEW to \in Sheet!Phases, Sheet!Open(to) PROVE ScreenTyped' /\ BundleInv'
    BY <1>1 DEF Sheet!Open, Sheet!Go, Sheet!intentVars, Sheet!creditVars
  <1>2. ASSUME NEW to \in {"app", "home"}, Sheet!Guide(to) PROVE ScreenTyped' /\ BundleInv'
    BY <1>2 DEF Sheet!Guide, Sheet!Go, Sheet!intentVars, Sheet!creditVars, Sheet!Phases
  <1>3. ASSUME NEW p \in Sheet!Payment, NEW guided \in BOOLEAN, Sheet!Ask(p, guided)
        PROVE  ScreenTyped' /\ BundleInv'
    BY <1>3 DEF Sheet!Ask, Sheet!Phases
  <1>4. ASSUME NEW r \in building, Sheet!Answered(r) PROVE ScreenTyped' /\ BundleInv'
    BY <1>4, AnsweredIs DEF Sheet!Answered, Sheet!Phases, Sheet!creditVars
  <1>5. ASSUME NEW r \in building, Sheet!NotBuilt(r) PROVE ScreenTyped' /\ BundleInv'
    <2>1. r.name \in Names
      BY <1>5 DEF CountsTyped
    <2> QED BY <1>5, <2>1 DEF Sheet!NotBuilt, Sheet!Go, Sheet!Phases, Sheet!creditVars
  <1>6. ASSUME NEW i \in preparing, Sheet!Prefetched(i) PROVE ScreenTyped' /\ BundleInv'
    BY <1>6 DEF Sheet!Prefetched, Sheet!creditVars
  <1>7. ASSUME NEW r \in Sheet!Request, NEW status, Sheet!VerifyAnswered(r, status)
        PROVE  ScreenTyped' /\ BundleInv'
    BY <1>7 DEF Sheet!VerifyAnswered, Sheet!screenVars, Sheet!intentVars, Sheet!creditVars
  <1>8. ASSUME NEW status, Sheet!BrandAnswered(status) PROVE ScreenTyped' /\ BundleInv'
    BY <1>8 DEF Sheet!BrandAnswered, Sheet!screenVars, Sheet!intentVars, Sheet!creditVars
  <1>9. ASSUME NEW a \in Amounts, Sheet!EditAmount(a) PROVE ScreenTyped' /\ BundleInv'
    BY <1>9 DEF Sheet!EditAmount, Sheet!screenVars, Sheet!intentVars, Sheet!creditVars
  <1>10. ASSUME NEW n \in Sheet!Shown, Sheet!EditName(n) PROVE ScreenTyped' /\ BundleInv'
    BY <1>10 DEF Sheet!EditName, Sheet!screenVars, Sheet!intentVars, Sheet!creditVars
  <1>11. CASE Sheet!Acknowledge
    BY <1>11 DEF Sheet!Acknowledge, Sheet!screenVars, Sheet!intentVars, Sheet!creditVars
  <1>12. ASSUME NEW p \in Persons, Sheet!PickPerson(p) PROVE ScreenTyped' /\ BundleInv'
    BY <1>12 DEF Sheet!PickPerson, Sheet!screenVars, Sheet!intentVars, Sheet!creditVars
  <1>13. ASSUME NEW to \in {"app", "contacts"}, Sheet!Leave(to) PROVE ScreenTyped' /\ BundleInv'
    BY <1>13 DEF Sheet!Leave, Sheet!Phases, Sheet!intentVars, Sheet!creditVars
  <1>14. CASE Sheet!Deny
    BY <1>14 DEF Sheet!Deny, Sheet!Phases, Sheet!intentVars
  <1>15. CASE Sheet!Accept
    BY <1>15 DEF Sheet!Accept, Sheet!intentVars, Sheet!creditVars
  <1>16. CASE Sheet!GuideConfirm
    BY <1>16 DEF Sheet!GuideConfirm, Sheet!intentVars, Sheet!creditVars
  <1>17. CASE Sheet!Unlocked
    BY <1>17 DEF Sheet!Unlocked, Sheet!Go, Sheet!Phases, Sheet!intentVars, Sheet!creditVars
  <1>18. CASE Sheet!Rebuilt
    BY <1>18, Rebuilding DEF Sheet!Rebuilt, Sheet!Phases, Sheet!Payment, Sheet!creditVars
  <1>19. CASE Sheet!NotPaid
    BY <1>19 DEF Sheet!NotPaid, Sheet!Go, Sheet!Phases, Sheet!intentVars, Sheet!creditVars
  <1>20. CASE Sheet!Settled
    BY <1>20 DEF Sheet!Settled, Sheet!Phases, Sheet!creditVars
  <1>21. ASSUME NEW to \in {"ping", "error"}, Sheet!NotSettled(to) PROVE ScreenTyped' /\ BundleInv'
    BY <1>21 DEF Sheet!NotSettled, Sheet!Go, Sheet!Phases, Sheet!intentVars, Sheet!creditVars
  <1>22. ASSUME NEW kind \in Sheet!Kinds, Sheet!AskCredit(kind) PROVE ScreenTyped' /\ BundleInv'
    BY <1>22 DEF Sheet!AskCredit, Sheet!Phases, Sheet!intentVars
  <1>23. ASSUME NEW kind \in Sheet!Kinds, Sheet!CreditReady(kind) PROVE ScreenTyped' /\ BundleInv'
    BY <1>23 DEF Sheet!CreditReady, Sheet!Go, Sheet!Phases, Sheet!intentVars
  <1>24. ASSUME NEW kind \in Sheet!Kinds, Sheet!CreditFails(kind) PROVE ScreenTyped' /\ BundleInv'
    BY <1>24 DEF Sheet!CreditFails, Sheet!Phases, Sheet!intentVars
  <1>25. CASE Sheet!TimerFires
    BY <1>25 DEF Sheet!TimerFires, Sheet!Go, Sheet!Phases, Sheet!intentVars
  <1>26. CASE Sheet!ConfirmCredit
    BY <1>26 DEF Sheet!ConfirmCredit, Sheet!Phases, Sheet!intentVars
  <1>27. CASE Sheet!CreditUnlocked
    BY <1>27 DEF Sheet!CreditUnlocked, Sheet!Go, Sheet!Phases, Sheet!intentVars, Sheet!creditVars
  <1>28. CASE Sheet!CreditBooked
    BY <1>28 DEF Sheet!CreditBooked, Sheet!Phases, Sheet!intentVars
  <1>29. CASE Sheet!CreditRefused
    BY <1>29 DEF Sheet!CreditRefused, Sheet!Phases, Sheet!intentVars, Sheet!creditVars
  <1> QED BY <1>1, <1>2, <1>3, <1>4, <1>5, <1>6, <1>7, <1>8, <1>9, <1>10, <1>11, <1>12,
             <1>13, <1>14, <1>15, <1>16, <1>17, <1>18, <1>19, <1>20, <1>21, <1>22, <1>23,
             <1>24, <1>25, <1>26, <1>27, <1>28, <1>29 DEF Sheet!Next

(* Every step keeps the counters.                                          *)
LEMMA CountsKept ==
  ASSUME Sheet!ConstantTypes, SheetBasics, ConfirmTyped, Sheet!Next
  PROVE  CountsTyped' /\ CountInv'
  <1> USE DEF SheetBasics, CountsTyped, CountInv
  <1>0. asking' = asking => HasKind("loan")' = HasKind("loan")
                            /\ HasKind("standing")' = HasKind("standing")
    BY DEF HasKind
  <1>1. ASSUME NEW to \in Sheet!Phases, Sheet!Open(to) PROVE CountsTyped' /\ CountInv'
    BY <1>1, <1>0 DEF Sheet!Open, Sheet!Go, Sheet!screenVars, Sheet!intentVars, Sheet!creditVars
  <1>2. ASSUME NEW to \in {"app", "home"}, Sheet!Guide(to) PROVE CountsTyped' /\ CountInv'
    BY <1>2, <1>0 DEF Sheet!Guide, Sheet!Go, Sheet!Guided, Sheet!ConstantTypes, Sheet!intentVars,
                      Sheet!creditVars
  <1>3. ASSUME NEW p \in Sheet!Payment, NEW guided \in BOOLEAN, Sheet!Ask(p, guided)
        PROVE  CountsTyped' /\ CountInv'
    BY <1>3, <1>0 DEF Sheet!Ask, Sheet!Payment, Sheet!Guided, Sheet!ConstantTypes, Sheet!Ids
  <1>4. ASSUME NEW r \in building, Sheet!Answered(r) PROVE CountsTyped' /\ CountInv'
    BY <1>4, <1>0, AnsweredIs DEF Sheet!Answered, Sheet!creditVars
  <1>5. ASSUME NEW r \in building, Sheet!NotBuilt(r) PROVE CountsTyped' /\ CountInv'
    BY <1>5, <1>0 DEF Sheet!NotBuilt, Sheet!Go, Sheet!screenVars, Sheet!intentVars, Sheet!creditVars
  <1>6. ASSUME NEW i \in preparing, Sheet!Prefetched(i) PROVE CountsTyped' /\ CountInv'
    BY <1>6, <1>0 DEF Sheet!Prefetched, Sheet!Go, Sheet!screenVars, Sheet!intentVars,
                      Sheet!creditVars
  <1>7. ASSUME NEW r \in Sheet!Request,
               NEW status \in {"verified", "ambiguous", "unverified"},
               Sheet!VerifyAnswered(r, status)
        PROVE  CountsTyped' /\ CountInv'
    BY <1>7, <1>0 DEF Sheet!VerifyAnswered, Sheet!Go, Sheet!screenVars, Sheet!intentVars,
                      Sheet!creditVars
  <1>8. ASSUME NEW status \in {"verified", "unverified_brand", "not_a_brand"},
               Sheet!BrandAnswered(status)
        PROVE  CountsTyped' /\ CountInv'
    BY <1>8, <1>0 DEF Sheet!BrandAnswered, Sheet!Go, Sheet!screenVars, Sheet!intentVars,
                      Sheet!creditVars
  <1>9. ASSUME NEW a \in Amounts, Sheet!EditAmount(a) PROVE CountsTyped' /\ CountInv'
    BY <1>9, <1>0 DEF Sheet!EditAmount, Sheet!Go, Sheet!screenVars, Sheet!intentVars,
                      Sheet!creditVars
  <1>10. ASSUME NEW n \in Sheet!Shown, Sheet!EditName(n) PROVE CountsTyped' /\ CountInv'
    BY <1>10, <1>0 DEF Sheet!EditName, Sheet!Go, Sheet!screenVars, Sheet!intentVars,
                       Sheet!creditVars
  <1>11. CASE Sheet!Acknowledge
    BY <1>11, <1>0 DEF Sheet!Acknowledge, Sheet!Go, Sheet!screenVars, Sheet!intentVars,
                       Sheet!creditVars
  <1>12. ASSUME NEW p \in Persons, Sheet!PickPerson(p) PROVE CountsTyped' /\ CountInv'
    BY <1>12, <1>0 DEF Sheet!PickPerson, Sheet!Go, Sheet!screenVars, Sheet!intentVars,
                       Sheet!creditVars
  <1>13. ASSUME NEW to \in {"app", "contacts"}, Sheet!Leave(to) PROVE CountsTyped' /\ CountInv'
    BY <1>13, <1>0 DEF Sheet!Leave, Sheet!Go, Sheet!screenVars, Sheet!intentVars, Sheet!creditVars
  <1>14. CASE Sheet!Deny
    BY <1>14, <1>0 DEF Sheet!Deny, Sheet!Go, Sheet!screenVars, Sheet!intentVars, Sheet!creditVars
  <1>15. CASE Sheet!Accept
    BY <1>15, <1>0 DEF Sheet!Accept, Sheet!Go, Sheet!screenVars, Sheet!intentVars, Sheet!creditVars
  <1>16. CASE Sheet!GuideConfirm
    BY <1>16, <1>0 DEF Sheet!GuideConfirm, Sheet!Go, Sheet!Guided, Sheet!ConstantTypes,
                       Sheet!intentVars, Sheet!creditVars
  <1>17. CASE Sheet!Unlocked
    BY <1>17, <1>0 DEF Sheet!Unlocked, Sheet!Go, Sheet!screenVars, Sheet!intentVars,
                       Sheet!creditVars
  <1>18. CASE Sheet!Rebuilt
    <2>1. /\ made' = made + 1 /\ made + asked < MaxBegun
          /\ UNCHANGED <<building, preparing, prepared, asking, asked, timers, guides>>
      BY <1>18 DEF Sheet!Rebuilt, Sheet!creditVars
    <2> QED BY <2>1, <1>0 DEF Sheet!ConstantTypes, Sheet!Ids
  <1>19. CASE Sheet!NotPaid
    BY <1>19, <1>0 DEF Sheet!NotPaid, Sheet!Go, Sheet!screenVars, Sheet!intentVars, Sheet!creditVars
  <1>20. CASE Sheet!Settled
    BY <1>20, <1>0 DEF Sheet!Settled, Sheet!Go, Sheet!screenVars, Sheet!intentVars, Sheet!creditVars
  <1>21. ASSUME NEW to \in {"ping", "error"}, Sheet!NotSettled(to) PROVE CountsTyped' /\ CountInv'
    BY <1>21, <1>0 DEF Sheet!NotSettled, Sheet!Go, Sheet!screenVars, Sheet!intentVars,
                       Sheet!creditVars
  <1>22. ASSUME NEW kind \in Sheet!Kinds, Sheet!AskCredit(kind) PROVE CountsTyped' /\ CountInv'
    BY <1>22 DEF Sheet!AskCredit, Sheet!Go, Sheet!intentVars, HasKind, Sheet!Kinds,
                 Sheet!ConstantTypes
  <1>23. ASSUME NEW kind \in Sheet!Kinds, Sheet!CreditReady(kind) PROVE CountsTyped' /\ CountInv'
    BY <1>23 DEF Sheet!CreditReady, Sheet!Go, Sheet!intentVars, HasKind, Sheet!Kinds,
                 Sheet!ConstantTypes
  <1>24. ASSUME NEW kind \in Sheet!Kinds, Sheet!CreditFails(kind) PROVE CountsTyped' /\ CountInv'
    BY <1>24 DEF Sheet!CreditFails, Sheet!Go, Sheet!intentVars, HasKind, Sheet!Kinds,
                 Sheet!ConstantTypes
  <1>25. CASE Sheet!TimerFires
    BY <1>25, <1>0 DEF Sheet!TimerFires, Sheet!Go, Sheet!intentVars, HasKind, Sheet!Kinds,
                       Sheet!ConstantTypes
  <1>26. CASE Sheet!ConfirmCredit
    BY <1>26, <1>0 DEF Sheet!ConfirmCredit, Sheet!Go, Sheet!screenVars, Sheet!intentVars,
                       Sheet!creditVars
  <1>27. CASE Sheet!CreditUnlocked
    BY <1>27, <1>0 DEF Sheet!CreditUnlocked, Sheet!Go, Sheet!screenVars, Sheet!intentVars,
                       Sheet!creditVars
  <1>28. CASE Sheet!CreditBooked
    BY <1>28, <1>0 DEF Sheet!CreditBooked, Sheet!Go, Sheet!screenVars, Sheet!intentVars,
                       Sheet!creditVars
  <1>29. CASE Sheet!CreditRefused
    BY <1>29, <1>0 DEF Sheet!CreditRefused, Sheet!Go, Sheet!screenVars, Sheet!intentVars,
                       Sheet!creditVars
  <1> QED BY <1>1, <1>2, <1>3, <1>4, <1>5, <1>6, <1>7, <1>8, <1>9, <1>10, <1>11, <1>12,
             <1>13, <1>14, <1>15, <1>16, <1>17, <1>18, <1>19, <1>20, <1>21, <1>22, <1>23,
             <1>24, <1>25, <1>26, <1>27, <1>28, <1>29 DEF Sheet!Next

(* The sheet after each render: it is gone, comes up, or is given what is  *)
(* pending now.                                                            *)
LEMMA RenderOK ==
  ASSUME Sheet!ConstantTypes, SheetTyped, SheetInv,
         Follows(bundle, contacts, bundle', contacts'), Sheet!Render
  PROVE  SheetTyped' /\ SheetInv'
  <1>1. CASE sheet' = None
    BY <1>1 DEF SheetTyped, SheetInv
  <1>2. CASE sheet' # None /\ sheet = None
    <2>1. sheet' = Sheet!Mounted(bundle')
      BY <1>2 DEF Sheet!Render
    <2>2. bundle' \in Sheet!Bundle \union {None} /\ (bundle' # None => bundle'.name \in contacts')
      BY DEF Follows
    <2> DEFINE b == bundle'
               k == contacts'
    <2>3. b \in Sheet!Bundle \union {None} /\ (b # None => b.name \in k)
      BY <2>2
    <2> HIDE DEF b, k
    <2>4. Sheet!Mounted(b) \in Sheet!Sheet /\ SheetOK(Sheet!Mounted(b), b, k)
      BY <2>3, MountedOK
    <2>5. sheet' \in Sheet!Sheet /\ SheetOK(sheet', bundle', contacts')
      BY <2>1, <2>4 DEF b, k
    <2> QED BY <2>5 DEF SheetTyped, SheetInv
  <1>3. CASE sheet' # None /\ sheet # None
    <2>1. sheet' = Sheet!Rerendered(sheet, bundle')
      BY <1>3 DEF Sheet!Render
    <2>2. sheet \in Sheet!Sheet /\ SheetOK(sheet, bundle, contacts)
      BY <1>3 DEF SheetTyped, SheetInv
    <2> DEFINE s == sheet
               b0 == bundle
               k0 == contacts
               b == bundle'
               k == contacts'
    <2>3. s \in Sheet!Sheet /\ SheetOK(s, b0, k0) /\ Follows(b0, k0, b, k)
      BY <2>2
    <2> HIDE DEF s, b0, k0, b, k
    <2>4. Sheet!Rerendered(s, b) \in Sheet!Sheet /\ SheetOK(Sheet!Rerendered(s, b), b, k)
      BY <2>3, RerenderedOK
    <2>5. sheet' \in Sheet!Sheet /\ SheetOK(sheet', bundle', contacts')
      BY <2>1, <2>4 DEF s, b, k
    <2> QED BY <2>5 DEF SheetTyped, SheetInv
  <1> QED BY <1>1, <1>2, <1>3

(* The sheet is not touched.                                               *)
LEMMA SheetSame ==
  ASSUME SheetTyped, SheetInv, UNCHANGED <<sheet, bundle, contacts>>
  PROVE  SheetTyped' /\ SheetInv'
  BY DEF SheetTyped, SheetInv

(* A sheet whose name, requests and verdict stay is as good as before.     *)
LEMMA SheetLike ==
  ASSUME SheetInv, sheet # None, NEW u \in Sheet!Sheet, sheet' = u,
         UNCHANGED <<bundle, contacts>>,
         u.props = sheet.props /\ u.name = sheet.name /\ u.typed = sheet.typed,
         u.verify = sheet.verify /\ u.result = sheet.result /\ u.requests = sheet.requests,
         u.armed => u.pressed = [amount |-> u.amount, name |-> u.name]
  PROVE  SheetTyped' /\ SheetInv'
  <1>1. SheetOK(sheet, bundle, contacts)
    BY DEF SheetInv
  <1>2. SheetOK(u, bundle, contacts)
    BY <1>1 DEF SheetOK, Named
  <1> QED BY <1>2 DEF SheetTyped, SheetInv

(* A verdict is one of three.                                              *)
LEMMA VerdictType ==
  ASSUME NEW n, NEW pick
  PROVE  Sheet!Verdict(n, pick) \in {"verified", "ambiguous", "unverified"}
  BY DEF Sheet!Verdict

(* A verdict arrives,                                                      *)
LEMMA VerifyOK ==
  ASSUME SheetTyped, SheetInv, NEW r \in Sheet!Request, NEW status, Sheet!VerifyAnswered(r, status)
  PROVE  SheetTyped' /\ SheetInv'
  <1>1. /\ sheet # None /\ sheet \in Sheet!Sheet /\ r \in sheet.requests
        /\ SheetOK(sheet, bundle, contacts)
        /\ bundle' = bundle /\ contacts' = contacts
    BY DEF SheetTyped, SheetInv, Sheet!VerifyAnswered, Sheet!screenVars, Sheet!intentVars
  <1>2. status \in {"verified", "ambiguous", "unverified"} /\ r.name \in Names
    BY VerdictType DEF Sheet!VerifyAnswered, Sheet!Request
  <1> DEFINE rest == [sheet EXCEPT !.requests = @ \ {r}]
             u == [rest EXCEPT !.verify = "done",
                               !.result = [name |-> r.name, status |-> status]]
  <1>3. /\ rest \in Sheet!Sheet /\ rest.requests = sheet.requests \ {r}
        /\ GatedAlike(sheet, rest) /\ rest.verify = sheet.verify /\ rest.result = sheet.result
    BY <1>1 DEF Sheet!Sheet, GatedAlike
  <1>4. sheet' = IF r.current THEN u ELSE rest
    BY DEF Sheet!VerifyAnswered
  <1> HIDE DEF rest
  <1>5. CASE r.current
    <2>1. /\ u \in Sheet!Sheet /\ u.requests = sheet.requests \ {r}
          /\ GatedAlike(sheet, u) /\ u.verify = "done"
          /\ u.result = [name |-> r.name, status |-> status]
      BY <1>2, <1>3 DEF Sheet!Sheet, GatedAlike, Sheet!Result
    <2> HIDE DEF u
    <2>2. \A q \in u.requests : ~q.current
      BY <1>1, <1>5, <2>1 DEF SheetOK
    <2>3. SheetOK(u, bundle, contacts)
      BY <1>1, <1>5, <2>1, <2>2 DEF SheetOK, Named, GatedAlike
    <2> QED BY <1>1, <1>4, <1>5, <2>1, <2>3 DEF SheetTyped, SheetInv
  <1>6. CASE ~r.current
    <2>1. SheetOK(rest, bundle, contacts)
      BY <1>1, <1>3 DEF SheetOK, Named, GatedAlike
    <2> QED BY <1>1, <1>3, <1>4, <1>6, <2>1 DEF SheetTyped, SheetInv
  <1> QED BY <1>5, <1>6

(* the brand arrives,                                                      *)
LEMMA BrandOK ==
  ASSUME SheetTyped, SheetInv,
         NEW status \in {"verified", "unverified_brand", "not_a_brand"}, Sheet!BrandAnswered(status)
  PROVE  SheetTyped' /\ SheetInv'
  <1> DEFINE u == [sheet EXCEPT !.brand = status]
  <1>1. sheet # None /\ sheet \in Sheet!Sheet /\ sheet' = u /\ UNCHANGED <<bundle, contacts>>
    BY DEF SheetTyped, Sheet!BrandAnswered, Sheet!screenVars, Sheet!intentVars
  <1>2. /\ u \in Sheet!Sheet
        /\ u.props = sheet.props /\ u.name = sheet.name /\ u.typed = sheet.typed
        /\ u.verify = sheet.verify /\ u.result = sheet.result /\ u.requests = sheet.requests
        /\ u.armed = sheet.armed /\ u.pressed = sheet.pressed /\ u.amount = sheet.amount
    BY <1>1 DEF Sheet!Sheet
  <1> HIDE DEF u
  <1>3. u.armed => u.pressed = [amount |-> u.amount, name |-> u.name]
    BY <1>1, <1>2 DEF SheetInv, SheetOK
  <1> QED BY <1>1, <1>2, <1>3, SheetLike

(* the warning is acknowledged,                                            *)
LEMMA AcknowledgeOK ==
  ASSUME SheetTyped, SheetInv, Sheet!Acknowledge
  PROVE  SheetTyped' /\ SheetInv'
  <1> DEFINE u == [sheet EXCEPT !.ack = ~sheet.ack]
  <1>1. sheet # None /\ sheet \in Sheet!Sheet /\ sheet' = u /\ UNCHANGED <<bundle, contacts>>
    BY DEF SheetTyped, Sheet!Acknowledge, Sheet!Editing, Sheet!Ready, Sheet!screenVars,
           Sheet!intentVars
  <1>2. /\ u \in Sheet!Sheet
        /\ u.props = sheet.props /\ u.name = sheet.name /\ u.typed = sheet.typed
        /\ u.verify = sheet.verify /\ u.result = sheet.result /\ u.requests = sheet.requests
        /\ u.armed = sheet.armed /\ u.pressed = sheet.pressed /\ u.amount = sheet.amount
    BY <1>1 DEF Sheet!Sheet
  <1> HIDE DEF u
  <1>3. u.armed => u.pressed = [amount |-> u.amount, name |-> u.name]
    BY <1>1, <1>2 DEF SheetInv, SheetOK
  <1> QED BY <1>1, <1>2, <1>3, SheetLike

(* the amount is edited,                                                   *)
LEMMA EditAmountOK ==
  ASSUME SheetTyped, SheetInv, NEW a \in Amounts, Sheet!EditAmount(a)
  PROVE  SheetTyped' /\ SheetInv'
  <1> DEFINE u == [Sheet!Disarmed(sheet) EXCEPT !.amount = a]
  <1>1. sheet # None /\ sheet \in Sheet!Sheet /\ sheet' = u /\ UNCHANGED <<bundle, contacts>>
    BY DEF SheetTyped, Sheet!EditAmount, Sheet!Editing, Sheet!Ready, Sheet!screenVars,
           Sheet!intentVars
  <1>2. /\ u \in Sheet!Sheet
        /\ u.props = sheet.props /\ u.name = sheet.name /\ u.typed = sheet.typed
        /\ u.verify = sheet.verify /\ u.result = sheet.result /\ u.requests = sheet.requests
        /\ ~u.armed
    BY <1>1 DEF Sheet!Sheet, Sheet!Disarmed
  <1> HIDE DEF u
  <1> QED BY <1>1, <1>2, SheetLike

(* Accept is pressed,                                                      *)
LEMMA AcceptOK ==
  ASSUME SheetTyped, SheetInv, Sheet!Accept
  PROVE  SheetTyped' /\ SheetInv'
  <1>0. UNCHANGED <<bundle, contacts>>
    BY DEF Sheet!Accept, Sheet!intentVars
  <1>1. CASE bundle.second /\ ~sheet.armed
    <2> DEFINE u == [sheet EXCEPT !.armed = TRUE, !.pressed = Sheet!Wanted]
    <2>1. sheet # None /\ sheet \in Sheet!Sheet /\ sheet' = u /\ Sheet!Wanted \in Sheet!Payment
      BY <1>1 DEF SheetTyped, Sheet!Accept, Sheet!Editing, Sheet!Ready
    <2>2. /\ u \in Sheet!Sheet
          /\ u.props = sheet.props /\ u.name = sheet.name /\ u.typed = sheet.typed
          /\ u.verify = sheet.verify /\ u.result = sheet.result
          /\ u.requests = sheet.requests
          /\ u.pressed = Sheet!Wanted /\ u.amount = sheet.amount
      BY <2>1 DEF Sheet!Sheet
    <2> HIDE DEF u
    <2>3. u.armed => u.pressed = [amount |-> u.amount, name |-> u.name]
      BY <2>2 DEF Sheet!Wanted
    <2> QED BY <1>0, <2>1, <2>2, <2>3, SheetLike
  <1>2. CASE ~(bundle.second /\ ~sheet.armed)
    BY <1>0, <1>2, SheetSame DEF Sheet!Accept
  <1> QED BY <1>1, <1>2

(* With nothing being asked, no request is the current one.                *)
LEMMA NoneCurrent ==
  ASSUME Sheet!ConstantTypes, SheetTyped, SheetInv, sheet # None,
         Sheet!Needed(bundle), sheet.verify # "checking"
  PROVE  \A r \in sheet.requests : ~r.current
  <1>1. SheetOK(sheet, bundle, contacts) /\ sheet \in Sheet!Sheet
    BY DEF SheetInv, SheetTyped
  <1>2. CASE sheet.verify = "done"
    BY <1>1, <1>2 DEF SheetOK
  <1>3. CASE sheet.verify = "idle"
    <2>1. sheet.name = Blank /\ Named(sheet)
      BY <1>1, <1>3 DEF SheetOK
    <2>2. \A r \in sheet.requests : r.name # Blank
      BY <1>1 DEF Sheet!Sheet, Sheet!Request, Sheet!ConstantTypes
    <2> QED BY <2>1, <2>2 DEF Named
  <1> QED BY <1>1, <1>2, <1>3 DEF Sheet!Sheet

(* A person is picked,                                                     *)
LEMMA PickOK ==
  ASSUME Sheet!ConstantTypes, SheetTyped, SheetInv, NEW p \in Persons, Sheet!PickPerson(p)
  PROVE  SheetTyped' /\ SheetInv'
  <1>1. /\ SheetOK(sheet, bundle, contacts) /\ sheet \in Sheet!Sheet
        /\ Sheet!Needed(bundle) /\ sheet.result # None
        /\ sheet' = Sheet!Requested(sheet, p) /\ bundle' = bundle /\ contacts' = contacts
    BY DEF SheetInv, SheetTyped, Sheet!PickPerson, Sheet!Resolving, Sheet!Ready,
           Sheet!screenVars, Sheet!intentVars
  <1>2. sheet.name \in Names
    BY <1>1 DEF SheetOK, Named, Sheet!Sheet, Sheet!Result, Sheet!Shown
  <1> DEFINE u == Sheet!Requested(sheet, p)
  <1>3. /\ u \in Sheet!Sheet /\ GatedAlike(sheet, u)
        /\ u.verify = "checking" /\ u.result = None
        /\ \A r \in u.requests : r.current => r.name = sheet.name
        /\ \A r, q \in u.requests : r.current /\ q.current => r = q
    BY <1>1, <1>2, RequestedIs
  <1>4. sheet' = u
    BY <1>1
  <1> HIDE DEF u
  <1>5. SheetOK(u, bundle, contacts)
    BY <1>1, <1>3 DEF SheetOK, Named, GatedAlike
  <1> QED BY <1>1, <1>3, <1>4, <1>5 DEF SheetTyped, SheetInv

(* the name is edited,                                                     *)
LEMMA EditNameOK ==
  ASSUME Sheet!ConstantTypes, SheetTyped, SheetInv, NEW n \in Sheet!Shown, Sheet!EditName(n)
  PROVE  SheetTyped' /\ SheetInv'
  <1> DEFINE s == [Sheet!Disarmed(sheet) EXCEPT !.typed = ~Sheet!Needed(bundle)]
             needed == Sheet!Needed(bundle)
  <1>1. /\ SheetOK(sheet, bundle, contacts) /\ sheet \in Sheet!Sheet /\ sheet # None
        /\ ~(needed /\ sheet.verify = "checking")
        /\ sheet' = Sheet!Renamed(s, n, bundle) /\ bundle' = bundle /\ contacts' = contacts
    BY DEF SheetInv, SheetTyped, Sheet!EditName, Sheet!Editing, Sheet!Ready, Sheet!screenVars,
           Sheet!intentVars
  <1>2. (~needed) \in BOOLEAN
    BY Zenon
  <1>3. needed => \A r \in sheet.requests : ~r.current
    BY <1>1, NoneCurrent
  <1> HIDE DEF needed
  <1>4. /\ s \in Sheet!Sheet /\ s.props = sheet.props /\ ~s.armed
        /\ s.requests = sheet.requests /\ s.typed = ~needed
    BY <1>1, <1>2 DEF Sheet!Sheet, Sheet!Disarmed, needed
  <1>5. /\ s.props = Sheet!Props(bundle)
        /\ \A r, q \in s.requests : r.current /\ q.current => r = q
    BY <1>1, <1>4 DEF SheetOK
  <1>6. /\ Sheet!Needed(bundle) => ~s.typed /\ \A r \in s.requests : ~r.current
        /\ ~Sheet!Needed(bundle) => s.typed
    BY <1>3, <1>4 DEF needed
  <1> DEFINE u == Sheet!Renamed(s, n, bundle)
  <1>7. sheet' = u
    BY <1>1
  <1> HIDE DEF s
  <1>8. u \in Sheet!Sheet /\ SheetOK(u, bundle, contacts)
    BY <1>4, <1>5, <1>6, RenamedOK
  <1> HIDE DEF u
  <1> QED BY <1>1, <1>7, <1>8 DEF SheetTyped, SheetInv

(* and every step keeps the sheet right.                                   *)
LEMMA SheetStep ==
  ASSUME Sheet!ConstantTypes, SheetBasics, ConfirmTyped, SheetTyped, SheetInv, Sheet!Next
  PROVE  SheetTyped' /\ SheetInv'
  <1> USE DEF SheetBasics, ScreenTyped, BundleInv
  <1>0. bundle' \in Sheet!Bundle \union {None} /\ (bundle' # None => bundle'.name \in contacts')
    BY ScreenKept
  <1>1. ASSUME NEW to \in Sheet!Phases, Sheet!Open(to) PROVE SheetTyped' /\ SheetInv'
    <2>1. Follows(bundle, contacts, bundle', contacts') /\ Sheet!Render
      BY <1>1, <1>0 DEF Sheet!Open, Sheet!Go, Follows, Sheet!Needed, Sheet!intentVars,
                        Sheet!creditVars
    <2> QED BY <2>1, RenderOK
  <1>2. ASSUME NEW to \in {"app", "home"}, Sheet!Guide(to) PROVE SheetTyped' /\ SheetInv'
    <2>1. Follows(bundle, contacts, bundle', contacts') /\ Sheet!Render
      BY <1>2, <1>0 DEF Sheet!Guide, Sheet!Go, Follows, Sheet!Needed, Sheet!intentVars,
                        Sheet!creditVars
    <2> QED BY <2>1, RenderOK
  <1>3. ASSUME NEW p \in Sheet!Payment, NEW guided \in BOOLEAN, Sheet!Ask(p, guided)
        PROVE  SheetTyped' /\ SheetInv'
    <2>1. Follows(bundle, contacts, bundle', contacts') /\ Sheet!Render
      BY <1>3, <1>0 DEF Sheet!Ask, Follows, Sheet!Needed, Sheet!intentVars, Sheet!creditVars
    <2> QED BY <2>1, RenderOK
  <1>4. ASSUME NEW r \in building, Sheet!Answered(r) PROVE SheetTyped' /\ SheetInv'
    <2>1. Follows(bundle, contacts, bundle', contacts')
      BY <1>4, AnsweredIs DEF Sheet!Answered, Follows, Sheet!Needed, Sheet!creditVars
    <2> QED BY <1>4, <2>1, RenderOK DEF Sheet!Answered
  <1>5. ASSUME NEW r \in building, Sheet!NotBuilt(r) PROVE SheetTyped' /\ SheetInv'
    <2>1. Follows(bundle, contacts, bundle', contacts') /\ Sheet!Render
      BY <1>5, <1>0 DEF Sheet!NotBuilt, Sheet!Go, Follows, Sheet!Needed, Sheet!intentVars,
                        Sheet!creditVars
    <2> QED BY <2>1, RenderOK
  <1>6. ASSUME NEW i \in preparing, Sheet!Prefetched(i) PROVE SheetTyped' /\ SheetInv'
    BY <1>6, SheetSame DEF Sheet!Prefetched, Sheet!creditVars
  <1>7. ASSUME NEW r \in Sheet!Request,
               NEW status \in {"verified", "ambiguous", "unverified"},
               Sheet!VerifyAnswered(r, status)
        PROVE  SheetTyped' /\ SheetInv'
    BY <1>7, VerifyOK
  <1>8. ASSUME NEW status \in {"verified", "unverified_brand", "not_a_brand"},
               Sheet!BrandAnswered(status)
        PROVE  SheetTyped' /\ SheetInv'
    BY <1>8, BrandOK
  <1>9. ASSUME NEW a \in Amounts, Sheet!EditAmount(a) PROVE SheetTyped' /\ SheetInv'
    BY <1>9, EditAmountOK
  <1>10. ASSUME NEW n \in Sheet!Shown, Sheet!EditName(n) PROVE SheetTyped' /\ SheetInv'
    BY <1>10, EditNameOK
  <1>11. CASE Sheet!Acknowledge
    BY <1>11, AcknowledgeOK
  <1>12. ASSUME NEW p \in Persons, Sheet!PickPerson(p) PROVE SheetTyped' /\ SheetInv'
    BY <1>12, PickOK
  <1>13. ASSUME NEW to \in {"app", "contacts"}, Sheet!Leave(to) PROVE SheetTyped' /\ SheetInv'
    <2>1. Follows(bundle, contacts, bundle', contacts') /\ Sheet!Render
      BY <1>13, <1>0 DEF Sheet!Leave, Follows, Sheet!Needed, Sheet!intentVars, Sheet!creditVars
    <2> QED BY <2>1, RenderOK
  <1>14. CASE Sheet!Deny
    <2>1. Follows(bundle, contacts, bundle', contacts') /\ Sheet!Render
      BY <1>14, <1>0 DEF Sheet!Deny, Follows, Sheet!Needed, Sheet!intentVars, Sheet!creditVars
    <2> QED BY <2>1, RenderOK
  <1>15. CASE Sheet!Accept
    BY <1>15, AcceptOK
  <1>16. CASE Sheet!GuideConfirm
    BY <1>16, SheetSame DEF Sheet!GuideConfirm, Sheet!intentVars
  <1>17. CASE Sheet!Unlocked
    <2>1. Follows(bundle, contacts, bundle', contacts') /\ Sheet!Render
      BY <1>17, <1>0 DEF Sheet!Unlocked, Sheet!Go, Follows, Sheet!Needed, Sheet!intentVars,
                         Sheet!creditVars
    <2> QED BY <2>1, RenderOK
  <1>18. CASE Sheet!Rebuilt
    <2>1. Follows(bundle, contacts, bundle', contacts')
      BY <1>18, <1>0, Rebuilding DEF Sheet!Rebuilt, Follows, Sheet!Needed
    <2> QED BY <1>18, <2>1, RenderOK DEF Sheet!Rebuilt
  <1>19. CASE Sheet!NotPaid
    <2>1. Follows(bundle, contacts, bundle', contacts') /\ Sheet!Render
      BY <1>19, <1>0 DEF Sheet!NotPaid, Sheet!Go, Follows, Sheet!Needed, Sheet!intentVars,
                         Sheet!creditVars
    <2> QED BY <2>1, RenderOK
  <1>20. CASE Sheet!Settled
    <2>1. Follows(bundle, contacts, bundle', contacts') /\ Sheet!Render
      BY <1>20, <1>0 DEF Sheet!Settled, Follows, Sheet!Needed, Sheet!intentVars, Sheet!creditVars
    <2> QED BY <2>1, RenderOK
  <1>21. ASSUME NEW to \in {"ping", "error"}, Sheet!NotSettled(to) PROVE SheetTyped' /\ SheetInv'
    <2>1. Follows(bundle, contacts, bundle', contacts') /\ Sheet!Render
      BY <1>21, <1>0 DEF Sheet!NotSettled, Sheet!Go, Follows, Sheet!Needed, Sheet!intentVars,
                         Sheet!creditVars
    <2> QED BY <2>1, RenderOK
  <1>22. ASSUME NEW kind \in Sheet!Kinds, Sheet!AskCredit(kind) PROVE SheetTyped' /\ SheetInv'
    <2>1. Follows(bundle, contacts, bundle', contacts') /\ Sheet!Render
      BY <1>22, <1>0 DEF Sheet!AskCredit, Follows, Sheet!Needed, Sheet!intentVars, Sheet!creditVars
    <2> QED BY <2>1, RenderOK
  <1>23. ASSUME NEW kind \in Sheet!Kinds, Sheet!CreditReady(kind) PROVE SheetTyped' /\ SheetInv'
    <2>1. Follows(bundle, contacts, bundle', contacts') /\ Sheet!Render
      BY <1>23, <1>0 DEF Sheet!CreditReady, Sheet!Go, Follows, Sheet!Needed, Sheet!intentVars,
                         Sheet!creditVars
    <2> QED BY <2>1, RenderOK
  <1>24. ASSUME NEW kind \in Sheet!Kinds, Sheet!CreditFails(kind) PROVE SheetTyped' /\ SheetInv'
    <2>1. Follows(bundle, contacts, bundle', contacts') /\ Sheet!Render
      BY <1>24, <1>0 DEF Sheet!CreditFails, Follows, Sheet!Needed, Sheet!intentVars,
                         Sheet!creditVars
    <2> QED BY <2>1, RenderOK
  <1>25. CASE Sheet!TimerFires
    <2>1. Follows(bundle, contacts, bundle', contacts') /\ Sheet!Render
      BY <1>25, <1>0 DEF Sheet!TimerFires, Sheet!Go, Follows, Sheet!Needed, Sheet!intentVars,
                         Sheet!creditVars
    <2> QED BY <2>1, RenderOK
  <1>26. CASE Sheet!ConfirmCredit
    <2>1. CASE credit = "standing"
      <3>1. Follows(bundle, contacts, bundle', contacts')
        BY <1>26, <2>1 DEF Sheet!ConfirmCredit, Follows, Sheet!Needed, Sheet!intentVars
      <3> QED BY <1>26, <2>1, <3>1, RenderOK DEF Sheet!ConfirmCredit
    <2>2. CASE credit # "standing"
      BY <1>26, <2>2, SheetSame DEF Sheet!ConfirmCredit, Sheet!intentVars
    <2> QED BY <2>1, <2>2
  <1>27. CASE Sheet!CreditUnlocked
    <2>1. Follows(bundle, contacts, bundle', contacts') /\ Sheet!Render
      BY <1>27, <1>0 DEF Sheet!CreditUnlocked, Sheet!Go, Follows, Sheet!Needed, Sheet!intentVars,
                         Sheet!creditVars
    <2> QED BY <2>1, RenderOK
  <1>28. CASE Sheet!CreditBooked
    <2>1. Follows(bundle, contacts, bundle', contacts') /\ Sheet!Render
      BY <1>28, <1>0 DEF Sheet!CreditBooked, Follows, Sheet!Needed, Sheet!intentVars,
                         Sheet!creditVars
    <2> QED BY <2>1, RenderOK
  <1>29. CASE Sheet!CreditRefused
    <2>1. Follows(bundle, contacts, bundle', contacts') /\ Sheet!Render
      BY <1>29, <1>0 DEF Sheet!CreditRefused, Follows, Sheet!Needed, Sheet!intentVars,
                         Sheet!creditVars
    <2> QED BY <2>1, RenderOK
  <1> QED BY <1>1, <1>2, <1>3, <1>4, <1>5, <1>6, <1>7, <1>8, <1>9, <1>10, <1>11, <1>12,
             <1>13, <1>14, <1>15, <1>16, <1>17, <1>18, <1>19, <1>20, <1>21, <1>22, <1>23,
             <1>24, <1>25, <1>26, <1>27, <1>28, <1>29 DEF Sheet!Next

(* The confirmation is not touched,                                        *)
LEMMA ConfirmSame ==
  ASSUME ConfirmTyped, ConfirmInv, UNCHANGED confirm
  PROVE  ConfirmTyped' /\ ConfirmInv'
  BY DEF ConfirmTyped, ConfirmInv

(* is over,                                                                *)
LEMMA ConfirmOver == confirm' = None => ConfirmTyped' /\ ConfirmInv'
  BY DEF ConfirmTyped, ConfirmInv

(* goes on with a payment whose gates were passed,                         *)
LEMMA ConfirmIs ==
  ASSUME NEW c, confirm' = c, c \in Sheet!Confirm, Gated(c),
         c.at = "unlock" => c.to = c.of,
         c.at = "settle" => /\ [amount |-> c.to.amount, name |-> c.to.name] = c.wanted
                            /\ c.papers = c.to.id
  PROVE  ConfirmTyped' /\ ConfirmInv'
  BY DEF ConfirmTyped, ConfirmInv

(* or books a credit.                                                      *)
LEMMA BookingIs ==
  ASSUME NEW a \in {"credit unlock", "credit"}, confirm' = [at |-> a]
  PROVE  ConfirmTyped' /\ ConfirmInv'
  <1>1. [at |-> a] \in Sheet!Booking /\ [at |-> a].at = a
    BY DEF Sheet!Booking
  <1>2. ConfirmTyped'
    BY <1>1 DEF ConfirmTyped
  <1>3. a \notin {"unlock", "rebuild", "settle"}
    OBVIOUS
  <1>4. confirm'.at \notin {"unlock", "rebuild", "settle"}
    BY <1>1, <1>3
  <1> QED BY <1>2, <1>4 DEF ConfirmInv

(* The papers of a payment are named after it.                             *)
LEMMA PaperType ==
  ASSUME NEW b \in Sheet!Bundle
  PROVE  Sheet!Papers(b) = b.id /\ b.id \in Sheet!Ids
  BY DEF Sheet!Papers, Sheet!Bundle

(* A payment that is sent goes with its own papers.                        *)
LEMMA SendingOK ==
  ASSUME NEW c \in Sheet!Confirm, confirm' = Sheet!Sending(c), Gated(c),
         [amount |-> c.to.amount, name |-> c.to.name] = c.wanted
  PROVE  ConfirmTyped' /\ ConfirmInv'
  <1> DEFINE u == [c EXCEPT !.at = "settle", !.papers = Sheet!Papers(c.to)]
  <1>1. c.to \in Sheet!Bundle /\ Sheet!Papers(c.to) = c.to.id /\ c.to.id \in Sheet!Ids
    BY PaperType DEF Sheet!Confirm
  <1>2. u \in Sheet!Confirm /\ u.at = "settle" /\ u.papers = c.to.id
    BY <1>1 DEF Sheet!Confirm
  <1>3. /\ u.to = c.to /\ u.of = c.of /\ u.wanted = c.wanted /\ u.twice = c.twice
        /\ u.checked = c.checked /\ u.typed = c.typed /\ u.guided = c.guided
    BY DEF Sheet!Confirm
  <1>4. confirm' = u
    BY DEF Sheet!Sending
  <1> HIDE DEF u
  <1>5. Gated(u)
    BY <1>3 DEF Gated
  <1> QED BY <1>2, <1>3, <1>4, <1>5, ConfirmIs

(* Accept begins a confirmation only if the gates are passed: the sheet    *)
(* shows what is pending or what was typed over it.                        *)
LEMMA AcceptConfirm ==
  ASSUME Sheet!ConstantTypes, SheetBasics, SheetTyped, SheetInv, ConfirmTyped, ConfirmInv,
         Sheet!Accept
  PROVE  ConfirmTyped' /\ ConfirmInv'
  <1>1. CASE bundle.second /\ ~sheet.armed
    BY <1>1, ConfirmSame DEF Sheet!Accept
  <1>2. CASE ~(bundle.second /\ ~sheet.armed)
    <2>1. /\ bundle \in Sheet!Bundle /\ sheet \in Sheet!Sheet /\ Sheet!Wanted \in Sheet!Payment
          /\ ~Sheet!Blocked
          /\ SheetOK(sheet, bundle, contacts)
      BY DEF Sheet!Accept, Sheet!Editing, Sheet!Ready, SheetBasics, ScreenTyped, SheetTyped,
             SheetInv
    <2> DEFINE twice == sheet.pressed = Sheet!Wanted
               checked == sheet.result = [name |-> sheet.name, status |-> "verified"]
    <2>2. confirm' = [at |-> "unlock", of |-> bundle, to |-> bundle, wanted |-> Sheet!Wanted,
                      papers |-> None, twice |-> twice, checked |-> checked,
                      typed |-> sheet.typed, guided |-> FALSE]
      BY <1>2 DEF Sheet!Accept
    <2>3. twice \in BOOLEAN /\ checked \in BOOLEAN
      BY Zenon
    <2>4. bundle.second => twice
      BY <1>2, <2>1 DEF SheetOK, Sheet!Wanted
    <2>5. bundle.stranger => checked \/ sheet.typed
      <3> SUFFICES ASSUME bundle.stranger, ~sheet.typed PROVE checked
        OBVIOUS
      <3>1. Sheet!Needed(bundle) /\ sheet.name # Blank
        BY <2>1 DEF Sheet!Needed, Sheet!Accept, Sheet!Wanted, Sheet!Payment, Sheet!ConstantTypes
      <3>2. sheet.result # None /\ sheet.result.status = "verified" /\ Named(sheet)
        BY <2>1, <3>1 DEF Sheet!Blocked, SheetOK
      <3>3. sheet.result \in Sheet!Result /\ sheet.result.name = sheet.name
        BY <2>1, <3>2 DEF Sheet!Sheet, Named
      <3> QED BY <3>2, <3>3 DEF Sheet!Result
    <2>6. sheet.typed \in BOOLEAN
      BY <2>1 DEF Sheet!Sheet
    <2> HIDE DEF twice, checked
    <2> DEFINE c == [at |-> "unlock", of |-> bundle, to |-> bundle, wanted |-> Sheet!Wanted,
                     papers |-> None, twice |-> twice, checked |-> checked,
                     typed |-> sheet.typed, guided |-> FALSE]
    <2>7. c \in Sheet!Confirm
      BY <2>1, <2>3, <2>6 DEF Sheet!Confirm
    <2>8. /\ c.at = "unlock" /\ c.to = bundle /\ c.of = bundle /\ c.twice = twice
          /\ c.checked = checked /\ c.typed = sheet.typed
      OBVIOUS
    <2>9. confirm' = c
      BY <2>2
    <2> HIDE DEF c
    <2>10. Gated(c)
      BY <2>4, <2>5, <2>8 DEF Gated
    <2> QED BY <2>7, <2>8, <2>9, <2>10, ConfirmIs
  <1> QED BY <1>1, <1>2

(* The tour begins one by its own command.                                 *)
LEMMA GuideConfirmOK ==
  ASSUME SheetBasics, Sheet!GuideConfirm
  PROVE  ConfirmTyped' /\ ConfirmInv'
  <1> DEFINE c == [at |-> "unlock", of |-> bundle, to |-> bundle,
                   wanted |-> [amount |-> bundle.amount, name |-> bundle.name],
                   papers |-> None, twice |-> FALSE, checked |-> FALSE,
                   typed |-> FALSE, guided |-> TRUE]
  <1>1. bundle \in Sheet!Bundle /\ confirm' = c
    BY DEF Sheet!GuideConfirm, SheetBasics, ScreenTyped
  <1>2. c \in Sheet!Confirm /\ c.at = "unlock" /\ c.to = c.of /\ c.guided
    BY <1>1 DEF Sheet!Confirm, Sheet!Bundle, Sheet!Payment
  <1> HIDE DEF c
  <1> QED BY <1>1, <1>2, ConfirmIs DEF Gated

(* The vault is unlocked: what is sent is what was wanted, or is built     *)
(* anew first.                                                             *)
LEMMA UnlockedOK ==
  ASSUME ConfirmTyped, ConfirmInv, Sheet!Unlocked
  PROVE  ConfirmTyped' /\ ConfirmInv'
  <1>1. confirm \in Sheet!Confirm /\ confirm.to = confirm.of /\ Gated(confirm)
    BY DEF ConfirmTyped, ConfirmInv, Sheet!Unlocked, Sheet!At, Sheet!busy, Sheet!Booking
  <1>2. CASE Sheet!Changed(confirm)
    <2> DEFINE u == [confirm EXCEPT !.at = "rebuild"]
    <2>1. confirm' = u
      BY <1>2 DEF Sheet!Unlocked
    <2>2. /\ u \in Sheet!Confirm /\ u.at = "rebuild"
          /\ u.of = confirm.of /\ u.twice = confirm.twice /\ u.checked = confirm.checked
          /\ u.typed = confirm.typed /\ u.guided = confirm.guided
      BY <1>1 DEF Sheet!Confirm
    <2> HIDE DEF u
    <2>3. Gated(u)
      BY <1>1, <2>2 DEF Gated
    <2> QED BY <2>1, <2>2, <2>3, ConfirmIs
  <1>3. CASE ~Sheet!Changed(confirm)
    <2>1. confirm' = Sheet!Sending(confirm)
      BY <1>3 DEF Sheet!Unlocked
    <2>2. [amount |-> confirm.to.amount, name |-> confirm.to.name] = confirm.wanted
      BY <1>1, <1>3 DEF Sheet!Changed
    <2> QED BY <1>1, <2>1, <2>2, SendingOK
  <1> QED BY <1>2, <1>3

(* What was built anew is what was wanted.                                 *)
LEMMA RebuiltOK ==
  ASSUME Sheet!ConstantTypes, SheetBasics, ConfirmTyped, ConfirmInv, Sheet!Rebuilt
  PROVE  ConfirmTyped' /\ ConfirmInv'
  <1> DEFINE now == Sheet!Built(made + 1, confirm.wanted)
             c == [confirm EXCEPT !.to = now]
  <1>1. Sheet!At("rebuild") /\ made + asked < MaxBegun /\ confirm' = Sheet!Sending(c)
    BY DEF Sheet!Rebuilt
  <1>2. /\ confirm \in Sheet!Confirm /\ confirm.wanted \in Sheet!Payment /\ now \in Sheet!Bundle
        /\ now.amount = confirm.wanted.amount /\ now.name = confirm.wanted.name
    BY <1>1, Rebuilding
  <1>3. Gated(confirm)
    BY <1>1 DEF ConfirmInv, Sheet!At, Sheet!busy
  <1> HIDE DEF now
  <1>4. /\ c \in Sheet!Confirm /\ c.to = now /\ c.wanted = confirm.wanted
        /\ c.of = confirm.of /\ c.twice = confirm.twice /\ c.checked = confirm.checked
        /\ c.typed = confirm.typed /\ c.guided = confirm.guided
    BY <1>2 DEF Sheet!Confirm
  <1> HIDE DEF c
  <1>5. Gated(c)
    BY <1>3, <1>4 DEF Gated
  <1>6. [amount |-> c.to.amount, name |-> c.to.name] = c.wanted
    BY <1>2, <1>4 DEF Sheet!Payment
  <1> QED BY <1>1, <1>4, <1>5, <1>6, SendingOK

(* Every step keeps the confirmation right.                                *)
LEMMA ConfirmStep ==
  ASSUME Sheet!ConstantTypes, SheetBasics, SheetTyped, SheetInv, ConfirmTyped, ConfirmInv,
         Sheet!Next
  PROVE  ConfirmTyped' /\ ConfirmInv'
  <1>1. ASSUME NEW to \in Sheet!Phases, Sheet!Open(to) PROVE ConfirmTyped' /\ ConfirmInv'
    BY <1>1, ConfirmSame DEF Sheet!Open
  <1>2. ASSUME NEW to \in {"app", "home"}, Sheet!Guide(to) PROVE ConfirmTyped' /\ ConfirmInv'
    BY <1>2, ConfirmSame DEF Sheet!Guide
  <1>3. ASSUME NEW p \in Sheet!Payment, NEW guided \in BOOLEAN, Sheet!Ask(p, guided)
        PROVE  ConfirmTyped' /\ ConfirmInv'
    BY <1>3, ConfirmSame DEF Sheet!Ask
  <1>4. ASSUME NEW r \in building, Sheet!Answered(r) PROVE ConfirmTyped' /\ ConfirmInv'
    BY <1>4, ConfirmSame DEF Sheet!Answered
  <1>5. ASSUME NEW r \in building, Sheet!NotBuilt(r) PROVE ConfirmTyped' /\ ConfirmInv'
    BY <1>5, ConfirmSame DEF Sheet!NotBuilt
  <1>6. ASSUME NEW i \in preparing, Sheet!Prefetched(i) PROVE ConfirmTyped' /\ ConfirmInv'
    BY <1>6, ConfirmSame DEF Sheet!Prefetched
  <1>7. ASSUME NEW r \in Sheet!Request,
               NEW status \in {"verified", "ambiguous", "unverified"},
               Sheet!VerifyAnswered(r, status)
        PROVE  ConfirmTyped' /\ ConfirmInv'
    BY <1>7, ConfirmSame DEF Sheet!VerifyAnswered, Sheet!screenVars
  <1>8. ASSUME NEW status \in {"verified", "unverified_brand", "not_a_brand"},
               Sheet!BrandAnswered(status)
        PROVE  ConfirmTyped' /\ ConfirmInv'
    BY <1>8, ConfirmSame DEF Sheet!BrandAnswered, Sheet!screenVars
  <1>9. ASSUME NEW a \in Amounts, Sheet!EditAmount(a) PROVE ConfirmTyped' /\ ConfirmInv'
    BY <1>9, ConfirmSame DEF Sheet!EditAmount, Sheet!screenVars
  <1>10. ASSUME NEW n \in Sheet!Shown, Sheet!EditName(n) PROVE ConfirmTyped' /\ ConfirmInv'
    BY <1>10, ConfirmSame DEF Sheet!EditName, Sheet!screenVars
  <1>11. CASE Sheet!Acknowledge
    BY <1>11, ConfirmSame DEF Sheet!Acknowledge, Sheet!screenVars
  <1>12. ASSUME NEW p \in Persons, Sheet!PickPerson(p) PROVE ConfirmTyped' /\ ConfirmInv'
    BY <1>12, ConfirmSame DEF Sheet!PickPerson, Sheet!screenVars
  <1>13. ASSUME NEW to \in {"app", "contacts"}, Sheet!Leave(to) PROVE ConfirmTyped' /\ ConfirmInv'
    BY <1>13, ConfirmSame DEF Sheet!Leave
  <1>14. CASE Sheet!Deny
    BY <1>14, ConfirmSame DEF Sheet!Deny
  <1>15. CASE Sheet!Accept
    BY <1>15, AcceptConfirm
  <1>16. CASE Sheet!GuideConfirm
    BY <1>16, GuideConfirmOK
  <1>17. CASE Sheet!Unlocked
    BY <1>17, UnlockedOK
  <1>18. CASE Sheet!Rebuilt
    BY <1>18, RebuiltOK
  <1>19. CASE Sheet!NotPaid
    BY <1>19, ConfirmOver DEF Sheet!NotPaid
  <1>20. CASE Sheet!Settled
    BY <1>20, ConfirmOver DEF Sheet!Settled
  <1>21. ASSUME NEW to \in {"ping", "error"},
                Sheet!NotSettled(to) PROVE ConfirmTyped' /\ ConfirmInv'
    BY <1>21, ConfirmOver DEF Sheet!NotSettled
  <1>22. ASSUME NEW kind \in Sheet!Kinds, Sheet!AskCredit(kind) PROVE ConfirmTyped' /\ ConfirmInv'
    BY <1>22, ConfirmSame DEF Sheet!AskCredit
  <1>23. ASSUME NEW kind \in Sheet!Kinds, Sheet!CreditReady(kind) PROVE ConfirmTyped' /\ ConfirmInv'
    BY <1>23, ConfirmSame DEF Sheet!CreditReady
  <1>24. ASSUME NEW kind \in Sheet!Kinds, Sheet!CreditFails(kind) PROVE ConfirmTyped' /\ ConfirmInv'
    BY <1>24, ConfirmSame DEF Sheet!CreditFails
  <1>25. CASE Sheet!TimerFires
    BY <1>25, ConfirmSame DEF Sheet!TimerFires
  <1>26. CASE Sheet!ConfirmCredit
    BY <1>26, BookingIs, ConfirmSame DEF Sheet!ConfirmCredit
  <1>27. CASE Sheet!CreditUnlocked
    BY <1>27, BookingIs DEF Sheet!CreditUnlocked
  <1>28. CASE Sheet!CreditBooked
    BY <1>28, ConfirmOver DEF Sheet!CreditBooked
  <1>29. CASE Sheet!CreditRefused
    BY <1>29, ConfirmOver DEF Sheet!CreditRefused
  <1> QED BY <1>1, <1>2, <1>3, <1>4, <1>5, <1>6, <1>7, <1>8, <1>9, <1>10, <1>11, <1>12,
             <1>13, <1>14, <1>15, <1>16, <1>17, <1>18, <1>19, <1>20, <1>21, <1>22, <1>23,
             <1>24, <1>25, <1>26, <1>27, <1>28, <1>29 DEF Sheet!Next

(* The invariant holds at the start,                                       *)
LEMMA SheetsInitially == Sheet!ConstantTypes /\ Sheet!Init => SheetsInv
  <1> SUFFICES ASSUME Sheet!ConstantTypes, Sheet!Init PROVE SheetsInv
    OBVIOUS
  <1> USE DEF Sheet!Init
  <1>1. Sheet!TypeOK
    <2>1. 0 \in 0..MaxBegun /\ 0 \in 0..MaxGuides /\ Known \subseteq Names
      BY DEF Sheet!ConstantTypes
    <2>2. building = {} /\ preparing = {} /\ asking = {}
      OBVIOUS
    <2> QED BY <2>1, <2>2 DEF Sheet!TypeOK, Sheet!Phases
  <1>2. CountInv
    BY DEF Sheet!ConstantTypes, CountInv, HasKind
  <1>3. BundleInv /\ SheetInv /\ ConfirmInv
    BY DEF BundleInv, SheetInv, ConfirmInv
  <1> QED BY <1>1, <1>2, <1>3 DEF SheetsInv

(* and after every step.                                                   *)
LEMMA SheetsInductive == Sheet!ConstantTypes /\ SheetsInv /\ [Sheet!Next]_(Sheet!vars) => SheetsInv'
  <1> SUFFICES ASSUME Sheet!ConstantTypes, SheetsInv, [Sheet!Next]_(Sheet!vars) PROVE SheetsInv'
    OBVIOUS
  <1>1. SheetBasics /\ SheetTyped /\ ConfirmTyped /\ SheetInv /\ ConfirmInv
    BY SheetParts
  <1>2. CASE Sheet!Next
    <2>1. ScreenTyped' /\ BundleInv'
      BY <1>1, <1>2, ScreenKept
    <2>2. CountsTyped' /\ CountInv'
      BY <1>1, <1>2, CountsKept
    <2>3. SheetTyped' /\ SheetInv'
      BY <1>1, <1>2, SheetStep
    <2>4. ConfirmTyped' /\ ConfirmInv'
      BY <1>1, <1>2, ConfirmStep
    <2> QED BY <2>1, <2>2, <2>3, <2>4
        DEF SheetsInv, Sheet!TypeOK, ScreenTyped, CountsTyped, SheetTyped, ConfirmTyped
  <1>3. CASE UNCHANGED Sheet!vars
    BY <1>3 DEF Sheet!vars, SheetsInv, Sheet!TypeOK, CountInv, BundleInv, SheetInv, ConfirmInv,
                HasKind
  <1> QED BY <1>2, <1>3

(* What goes to the server is what was accepted on the sheet, with its own *)
(* papers and through its gates (Wallet.tsx, PaymentPing.tsx).             *)
THEOREM AcceptedWasGated ==
  ASSUME Sheet!ConstantTypes PROVE Sheet!Spec => [](Sheet!TypeOK /\ Sheet!AcceptedIsGated)
  <1>1. Sheet!Init => SheetsInv
    BY SheetsInitially
  <1>2. SheetsInv /\ [Sheet!Next]_(Sheet!vars) => SheetsInv'
    BY SheetsInductive
  <1>3. SheetsInv => Sheet!TypeOK /\ Sheet!AcceptedIsGated
    BY DEF SheetsInv, ConfirmInv, Sheet!AcceptedIsGated, Sheet!At, Sheet!busy, Gated
  <1> QED BY <1>1, <1>2, <1>3, PTL DEF Sheet!Spec

-----------------------------------------------------------------------------
(* The screen of the universal adapter (AdapterDemo).                      *)

(* Nothing is known of a payment before it is sent.                        *)
UnsentInv ==
  \A p \in Demo!Ids : sent[p] = 0 =>
    /\ record[p] = "none" /\ answered[p] = 0
    /\ meta # None => meta.pay # p
    /\ refunding # None => refunding.of.pay # p

(* A payment under way has not been shown, nor its refund asked for.       *)
PayingInv ==
  /\ \A c \in paying :
       /\ sent[c.id] # 0 /\ answered[c.id] = 0
       /\ c.settled => record[c.id] # "none"
       /\ meta # None => meta.pay # c.id
       /\ refunding # None => refunding.of.pay # c.id
  /\ \A c, d \in paying : c.id = d.id => c = d

(* What the screen remembers of the last payment is what the server has of *)
(* it: a refund that was answered was carried out or refused.              *)
MetaInv ==
  meta # None =>
    /\ record[meta.pay] # "none"
    /\ IF meta.refunded THEN answered[meta.pay] = 1 /\ meta.pay \in returned \union refused
                        ELSE answered[meta.pay] = 0

(* A refund is asked for of a payment that was not refunded, and approved  *)
(* while it is.                                                            *)
RequestInv ==
  /\ request # None => meta # None /\ ~meta.refunded
  /\ refunding # None =>
       /\ request # None /\ request.status = "processing"
       /\ ~refunding.of.refunded
       /\ answered[refunding.of.pay] = 0
       /\ record[refunding.of.pay] # "none"
       /\ refunding.done => refunding.of.pay \in returned \union refused

(* A payment is refunded once.                                             *)
AnsweredOnce == \A p \in Demo!Ids : answered[p] \in {0, 1}

(* As long as nothing overlaps the screen shows the payment that is under  *)
(* way.                                                                    *)
DemoAlone ==
  ~overlapped =>
    /\ \A c, d \in paying : c = d
    /\ paying # {} => stage = "settling" /\ ~hearing /\ refunding = None
    /\ \A c \in paying : sent[c.id] = pending
    /\ refunding # None => refunding.of = meta
    /\ stage = "settled" => meta # None /\ sent[meta.pay] = pending

(* The inductive invariant of the screen of the adapter.                   *)
DemoInv ==
  /\ Demo!TypeOK /\ UnsentInv /\ PayingInv /\ MetaInv /\ RequestInv /\ AnsweredOnce /\ DemoAlone
-----------------------------------------------------------------------------
(* Moving about leaves payments and refunds alone.                         *)
LEMMA MovesAbout ==
  ASSUME DemoInv, Demo!TypeOK', UNCHANGED <<Demo!payVars, Demo!refundVars, overlapped>>,
         ~overlapped /\ paying # {} => stage' = "settling" /\ ~hearing' /\ pending' = pending,
         stage' = "settled" => stage = "settled" /\ pending' = pending
  PROVE  DemoInv'
  BY DEF DemoInv, UnsentInv, PayingInv, MetaInv, RequestInv, AnsweredOnce, DemoAlone,
         Demo!payVars, Demo!refundVars

(* Alone, a payment under way keeps the screen on it.                      *)
LEMMA KeepsScreen ==
  ASSUME DemoInv, ~overlapped, paying # {}
  PROVE  stage = "settling" /\ ~hearing /\ Demo!busy
  BY DEF DemoInv, DemoAlone, Demo!busy

(* The accounts are there.                                                 *)
LEMMA LoadAccountsStep == ASSUME DemoInv, Demo!LoadAccounts PROVE DemoInv'
  <1> USE DEF Demo!LoadAccounts, Demo!payVars, Demo!refundVars, Demo!tamperVars
  <1>1. Demo!TypeOK'
    BY DEF DemoInv, Demo!TypeOK
  <1> QED BY <1>1, KeepsScreen, MovesAbout

(* The microphone is switched on,                                          *)
LEMMA StartVoiceStep == ASSUME DemoInv, Demo!StartVoice PROVE DemoInv'
  <1> USE DEF Demo!StartVoice, Demo!payVars, Demo!refundVars, Demo!tamperVars
  <1>1. Demo!TypeOK'
    BY DEF DemoInv, Demo!TypeOK, Demo!Phases
  <1> QED BY <1>1, KeepsScreen, MovesAbout

(* the amount is to be typed,                                              *)
LEMMA OpenTypedEntryStep == ASSUME DemoInv, Demo!OpenTypedEntry PROVE DemoInv'
  <1> USE DEF Demo!OpenTypedEntry, Demo!payVars, Demo!refundVars, Demo!tamperVars
  <1>1. Demo!TypeOK'
    BY DEF DemoInv, Demo!TypeOK, Demo!Phases
  <1> QED BY <1>1, KeepsScreen, MovesAbout

(* it is heard or typed,                                                   *)
LEMMA HeardStep ==
  ASSUME DemoInv, NEW a \in Amounts \union {0}, NEW short \in BOOLEAN, Demo!Heard(a, short)
  PROVE  DemoInv'
  <1> USE DEF Demo!Heard, Demo!payVars, Demo!refundVars, Demo!tamperVars
  <1>1. Demo!TypeOK'
    BY DEF DemoInv, Demo!TypeOK, Demo!Phases
  <1> QED BY <1>1, KeepsScreen, MovesAbout

(* or it is not heard.                                                     *)
LEMMA NotHeardStep == ASSUME DemoInv, NEW to \in Demo!Phases, Demo!NotHeard(to) PROVE DemoInv'
  <1> USE DEF Demo!NotHeard, Demo!payVars, Demo!refundVars, Demo!tamperVars
  <1>1. Demo!TypeOK'
    BY DEF DemoInv, Demo!TypeOK
  <1> QED BY <1>1, KeepsScreen, MovesAbout

(* The screen goes home, or to the other side.                             *)
LEMMA GoHomeStep ==
  ASSUME DemoInv, NEW tab \in {"deny", "done", "switch", "sender", "receiver"}, Demo!GoHome(tab)
  PROVE  DemoInv'
  <1>1. stage \in {"ping", "settled", "error"} \/ ~Demo!busy
    BY DEF Demo!GoHome
  <1>2. tamper' = tamper \/ tamper' = "idle"
    BY DEF Demo!GoHome
  <1>3. /\ stage' = "home"
        /\ UNCHANGED <<loaded, hearing, pending, Demo!payVars, Demo!refundVars, tampering,
                      overlapped>>
    BY DEF Demo!GoHome
  <1>4. Demo!TypeOK'
    BY <1>2, <1>3 DEF DemoInv, Demo!TypeOK, Demo!Phases, Demo!payVars, Demo!refundVars
  <1> QED BY <1>1, <1>3, <1>4, KeepsScreen, MovesAbout

(* A route is tampered with,                                               *)
LEMMA TamperRouteStep == ASSUME Demo!ConstantTypes, DemoInv, Demo!TamperRoute PROVE DemoInv'
  <1> USE DEF Demo!TamperRoute, Demo!payVars, Demo!refundVars
  <1>1. tampering \in 0..MaxTampers /\ MaxTampers \in Nat
    BY DEF DemoInv, Demo!TypeOK, Demo!ConstantTypes
  <1>2. tampering' \in 0..MaxTampers
    BY <1>1
  <1>3. Demo!TypeOK'
    BY <1>2 DEF DemoInv, Demo!TypeOK
  <1> QED BY <1>3, KeepsScreen, MovesAbout

(* and what comes of it.                                                   *)
LEMMA TamperBlockedStep == ASSUME Demo!ConstantTypes, DemoInv, Demo!TamperBlocked PROVE DemoInv'
  <1> USE DEF Demo!TamperBlocked, Demo!payVars, Demo!refundVars
  <1>1. tampering \in 0..MaxTampers /\ MaxTampers \in Nat
    BY DEF DemoInv, Demo!TypeOK, Demo!ConstantTypes
  <1>2. tampering' \in 0..MaxTampers
    BY <1>1
  <1>3. Demo!TypeOK'
    BY <1>2 DEF DemoInv, Demo!TypeOK
  <1> QED BY <1>3, KeepsScreen, MovesAbout

-----------------------------------------------------------------------------

(* A payment is sent, under the next number.                               *)
LEMMA ConfirmPayStep ==
  ASSUME Demo!ConstantTypes, DemoInv, NEW a \in Amounts, Demo!ConfirmPay(a)
  PROVE  DemoInv'
  <1>1. PICK p \in Demo!Ids : /\ Demo!Fresh(p)
                              /\ sent' = [sent EXCEPT ![p] = a]
                              /\ paying' = paying \union {[id |-> p, settled |-> FALSE]}
    BY DEF Demo!ConfirmPay
  <1>2. /\ pending' = a /\ stage' = "settling" /\ tamper' = "idle"
        /\ overlapped' = (overlapped \/ paying # {} \/ refunding # None \/ hearing)
        /\ UNCHANGED <<loaded, hearing, record, meta, Demo!refundVars, tampering>>
    BY DEF Demo!ConfirmPay
  <1>3. sent[p] = 0 /\ a # 0 /\ a \in Amounts
    BY <1>1 DEF Demo!Fresh, Demo!ConstantTypes
  <1>4. /\ sent'[p] = a
        /\ \A q \in Demo!Ids : q # p => sent'[q] = sent[q]
    BY <1>1 DEF DemoInv, Demo!TypeOK
  <1>5. [id |-> p, settled |-> FALSE] \in Demo!Paying
    BY DEF Demo!Paying
  <1>6. (overlapped \/ paying # {} \/ refunding # None \/ hearing) \in BOOLEAN
    BY Zenon
  <1>7. Demo!TypeOK'
    BY <1>1, <1>2, <1>5, <1>6 DEF DemoInv, Demo!TypeOK, Demo!Phases, Demo!refundVars
  <1>8. UnsentInv'
    BY <1>2, <1>3, <1>4 DEF DemoInv, UnsentInv, Demo!refundVars
  <1>9. PayingInv'
    <2>1. \A c \in paying : c.id \in Demo!Ids /\ sent[c.id] # 0
      BY DEF DemoInv, Demo!TypeOK, Demo!Paying, PayingInv
    <2>2. \A c \in paying : c.id # p /\ sent'[c.id] = sent[c.id]
      BY <1>3, <1>4, <2>1
    <2>3. /\ answered[p] = 0 /\ (meta # None => meta.pay # p)
          /\ (refunding # None => refunding.of.pay # p)
      BY <1>3 DEF DemoInv, UnsentInv
    <2> DEFINE new == [id |-> p, settled |-> FALSE]
    <2>4. new.id = p /\ ~new.settled
      OBVIOUS
    <2>5. paying' = paying \union {new}
      BY <1>1
    <2> HIDE DEF new
    <2>6. \A c \in paying' :
            /\ sent'[c.id] # 0 /\ answered'[c.id] = 0
            /\ c.settled => record'[c.id] # "none"
            /\ meta' # None => meta'.pay # c.id
            /\ refunding' # None => refunding'.of.pay # c.id
      <3> SUFFICES ASSUME NEW c \in paying'
                   PROVE  /\ sent'[c.id] # 0 /\ answered'[c.id] = 0
                          /\ c.settled => record'[c.id] # "none"
                          /\ meta' # None => meta'.pay # c.id
                          /\ refunding' # None => refunding'.of.pay # c.id
        OBVIOUS
      <3>1. CASE c \in paying
        BY <1>2, <2>1, <2>2, <3>1 DEF DemoInv, PayingInv, Demo!refundVars
      <3>2. CASE c = new
        BY <1>2, <1>3, <1>4, <2>3, <2>4, <3>2 DEF Demo!refundVars
      <3> QED BY <2>5, <3>1, <3>2
    <2>7. \A c, d \in paying' : c.id = d.id => c = d
      BY <2>2, <2>4, <2>5 DEF DemoInv, PayingInv
    <2> QED BY <2>6, <2>7 DEF PayingInv
  <1>10. MetaInv' /\ RequestInv' /\ AnsweredOnce'
    BY <1>2 DEF DemoInv, MetaInv, RequestInv, AnsweredOnce, Demo!refundVars
  <1>11. DemoAlone'
    <2> SUFFICES ASSUME ~overlapped' PROVE DemoAlone'
      BY DEF DemoAlone
    <2>1. paying = {} /\ refunding = None /\ ~hearing
      BY <1>2
    <2>2. paying' = {[id |-> p, settled |-> FALSE]} /\ hearing' = hearing /\ refunding' = None
      BY <1>1, <1>2, <2>1 DEF Demo!refundVars
    <2>3. \A c, d \in paying' : c = d
      BY <2>2
    <2>4. \A c \in paying' : sent'[c.id] = pending'
      BY <1>2, <1>4, <2>2
    <2> QED BY <1>2, <2>1, <2>2, <2>3, <2>4 DEF DemoAlone
  <1> QED BY <1>7, <1>8, <1>9, <1>10, <1>11 DEF DemoInv

(* The server settles it,                                                  *)
LEMMA ServerSettlesStep ==
  ASSUME Demo!ConstantTypes, DemoInv, NEW c \in paying, Demo!ServerSettles(c)
  PROVE  DemoInv'
  <1> DEFINE d == [c EXCEPT !.settled = TRUE]
  <1>1. c \in Demo!Paying /\ c.id \in Demo!Ids
    BY DEF DemoInv, Demo!TypeOK, Demo!Paying
  <1>2. d \in Demo!Paying /\ d.id = c.id /\ d.settled
    BY <1>1 DEF Demo!Paying
  <1>3. paying' = (paying \ {c}) \union {d}
    BY DEF Demo!ServerSettles
  <1> HIDE DEF d
  <1>4. /\ record' \in [Demo!Ids -> {"none", "settled", "refunded", "manual_review"}]
        /\ record'[c.id] = "settled"
        /\ \A p \in Demo!Ids : p # c.id => record'[p] = record[p]
    BY <1>1 DEF Demo!ServerSettles, DemoInv, Demo!TypeOK
  <1>5. UNCHANGED <<loaded, stage, hearing, pending, sent, meta, Demo!refundVars, Demo!tamperVars,
                    overlapped>>
    BY DEF Demo!ServerSettles
  <1>6. Demo!TypeOK'
    BY <1>2, <1>3, <1>4, <1>5 DEF DemoInv, Demo!TypeOK, Demo!refundVars, Demo!tamperVars
  <1>7. /\ sent[c.id] # 0 /\ answered[c.id] = 0
        /\ meta # None => meta.pay # c.id
        /\ refunding # None => refunding.of.pay # c.id
    BY DEF DemoInv, PayingInv
  <1>8. UnsentInv'
    BY <1>4, <1>5, <1>7 DEF DemoInv, UnsentInv, Demo!refundVars
  <1>9. PayingInv'
    <2>1. \A x \in paying' : \E y \in paying : /\ x.id = y.id /\ y.id \in Demo!Ids
                                               /\ x = y \/ (x = d /\ y = c)
      BY <1>1, <1>2, <1>3 DEF DemoInv, Demo!TypeOK, Demo!Paying
    <2>2. \A x \in paying' :
            /\ sent'[x.id] # 0 /\ answered'[x.id] = 0
            /\ x.settled => record'[x.id] # "none"
            /\ meta' # None => meta'.pay # x.id
            /\ refunding' # None => refunding'.of.pay # x.id
      <3> SUFFICES ASSUME NEW x \in paying'
                   PROVE  /\ sent'[x.id] # 0 /\ answered'[x.id] = 0
                          /\ x.settled => record'[x.id] # "none"
                          /\ meta' # None => meta'.pay # x.id
                          /\ refunding' # None => refunding'.of.pay # x.id
        OBVIOUS
      <3>1. PICK y \in paying : x.id = y.id /\ y.id \in Demo!Ids /\ (x = y \/ (x = d /\ y = c))
        BY <2>1
      <3>2. /\ sent[y.id] # 0 /\ answered[y.id] = 0
            /\ y.settled => record[y.id] # "none"
            /\ meta # None => meta.pay # y.id
            /\ refunding # None => refunding.of.pay # y.id
        BY DEF DemoInv, PayingInv
      <3>3. x.settled => record'[x.id] # "none"
        BY <1>4, <3>1, <3>2
      <3> QED BY <1>5, <3>1, <3>2, <3>3 DEF Demo!refundVars
    <2>3. \A x, y \in paying' : x.id = y.id => x = y
      BY <1>2, <1>3 DEF DemoInv, PayingInv
    <2> QED BY <2>2, <2>3 DEF PayingInv
  <1>10. MetaInv' /\ AnsweredOnce'
    BY <1>4, <1>5, <1>7 DEF DemoInv, Demo!TypeOK, Demo!Meta, MetaInv, AnsweredOnce, Demo!refundVars
  <1>11. RequestInv'
    <2>1. refunding # None => refunding.of.pay \in Demo!Ids
      BY DEF DemoInv, Demo!TypeOK, Demo!Meta
    <2>2. refunding # None => record'[refunding.of.pay] = record[refunding.of.pay]
      BY <1>4, <1>7, <2>1
    <2> QED BY <1>5, <2>2 DEF DemoInv, RequestInv, Demo!refundVars
  <1>12. DemoAlone'
    <2> SUFFICES ASSUME ~overlapped' PROVE DemoAlone'
      BY DEF DemoAlone
    <2>1. /\ \A x, y \in paying : x = y
          /\ stage = "settling" /\ ~hearing /\ refunding = None
          /\ sent[c.id] = pending
      BY <1>5 DEF DemoInv, DemoAlone
    <2>2. paying' = {d}
      BY <1>3, <2>1
    <2> QED BY <1>2, <1>5, <2>1, <2>2 DEF DemoAlone, Demo!refundVars
  <1> QED BY <1>6, <1>8, <1>9, <1>10, <1>11, <1>12 DEF DemoInv

(* the screen shows it,                                                    *)
LEMMA PaymentShownStep ==
  ASSUME Demo!ConstantTypes, DemoInv, NEW c \in paying, Demo!PaymentShown(c)
  PROVE  DemoInv'
  <1> DEFINE m == [pay |-> c.id, refunded |-> FALSE]
  <1>1. c \in Demo!Paying /\ c.id \in Demo!Ids /\ c.settled
    BY DEF DemoInv, Demo!TypeOK, Demo!Paying, Demo!PaymentShown
  <1>2. m \in Demo!Meta /\ m # None /\ m.pay = c.id /\ m.refunded = FALSE
    <2>1. m \in Demo!Meta
      BY <1>1 DEF Demo!Meta
    <2> QED BY <2>1 DEF Demo!ConstantTypes
  <1>3. /\ paying' = paying \ {c} /\ meta' = m /\ stage' = "settled"
        /\ UNCHANGED <<loaded, hearing, pending, sent, record, Demo!refundVars, Demo!tamperVars,
                       overlapped>>
    BY DEF Demo!PaymentShown
  <1> HIDE DEF m
  <1>4. Demo!TypeOK'
    BY <1>2, <1>3 DEF DemoInv, Demo!TypeOK, Demo!Phases, Demo!refundVars, Demo!tamperVars
  <1>5. /\ sent[c.id] # 0 /\ answered[c.id] = 0 /\ record[c.id] # "none"
        /\ refunding # None => refunding.of.pay # c.id
        /\ \A x \in paying' : x.id # c.id
    BY <1>1, <1>3 DEF DemoInv, PayingInv
  <1>6. UnsentInv'
    BY <1>2, <1>3, <1>5 DEF DemoInv, UnsentInv, Demo!refundVars
  <1>7. PayingInv'
    BY <1>2, <1>3, <1>5 DEF DemoInv, PayingInv, Demo!refundVars
  <1>8. MetaInv' /\ AnsweredOnce'
    BY <1>2, <1>3, <1>5 DEF DemoInv, MetaInv, AnsweredOnce, Demo!refundVars
  <1>9. RequestInv'
    BY <1>2, <1>3 DEF DemoInv, RequestInv, Demo!refundVars
  <1>10. DemoAlone'
    <2> SUFFICES ASSUME ~overlapped' PROVE DemoAlone'
      BY DEF DemoAlone
    <2>1. /\ \A x, y \in paying : x = y
          /\ refunding = None /\ sent[c.id] = pending
      BY <1>3 DEF DemoInv, DemoAlone
    <2>2. paying' = {}
      BY <1>3, <2>1
    <2> QED BY <1>2, <1>3, <2>1, <2>2 DEF DemoAlone, Demo!refundVars
  <1> QED BY <1>4, <1>6, <1>7, <1>8, <1>9, <1>10 DEF DemoInv

(* or that it failed.                                                      *)
LEMMA PaymentFailsStep ==
  ASSUME DemoInv, NEW c \in paying, Demo!PaymentFails(c)
  PROVE  DemoInv'
  <1> USE DEF Demo!PaymentFails, Demo!refundVars, Demo!tamperVars
  <1>1. Demo!TypeOK'
    BY DEF DemoInv, Demo!TypeOK, Demo!Phases
  <1>2. UnsentInv' /\ PayingInv' /\ MetaInv' /\ RequestInv' /\ AnsweredOnce'
    BY DEF DemoInv, UnsentInv, PayingInv, MetaInv, RequestInv, AnsweredOnce
  <1>3. DemoAlone'
    <2>1. ~overlapped => paying' = {}
      BY DEF DemoInv, DemoAlone
    <2> QED BY <2>1 DEF DemoInv, DemoAlone
  <1> QED BY <1>1, <1>2, <1>3 DEF DemoInv

(* A refund is asked for,                                                  *)
LEMMA RequestRefundStep ==
  ASSUME Demo!ConstantTypes, DemoInv, Demo!RequestRefund
  PROVE  DemoInv'
  <1> DEFINE q == [amount |-> pending, status |-> "pending"]
  <1>1. q \in Demo!Request /\ q # None
    <2>1. q \in Demo!Request
      BY DEF DemoInv, Demo!TypeOK, Demo!Request
    <2> QED BY <2>1 DEF Demo!ConstantTypes
  <1>2. /\ request = None /\ meta # None /\ ~meta.refunded
        /\ request' = q /\ stage' = "home"
        /\ UNCHANGED <<loaded, hearing, pending, Demo!payVars, refunding, answered, returned, refused,
                       Demo!tamperVars, overlapped>>
    BY DEF Demo!RequestRefund
  <1> HIDE DEF q
  <1>3. Demo!TypeOK'
    BY <1>1, <1>2 DEF DemoInv, Demo!TypeOK, Demo!Phases, Demo!payVars, Demo!tamperVars
  <1>4. UnsentInv' /\ PayingInv' /\ MetaInv' /\ AnsweredOnce'
    BY <1>2 DEF DemoInv, UnsentInv, PayingInv, MetaInv, AnsweredOnce, Demo!payVars
  <1>5. RequestInv'
    BY <1>2 DEF DemoInv, RequestInv, Demo!payVars
  <1>6. DemoAlone'
    <2>1. paying # {} => overlapped
      BY KeepsScreen DEF Demo!RequestRefund
    <2> QED BY <1>2, <2>1 DEF DemoInv, DemoAlone, Demo!payVars
  <1> QED BY <1>3, <1>4, <1>5, <1>6 DEF DemoInv

(* declined,                                                               *)
LEMMA DeclineRefundStep ==
  ASSUME DemoInv, Demo!DeclineRefund
  PROVE  DemoInv'
  <1> USE DEF Demo!DeclineRefund, Demo!payVars, Demo!tamperVars
  <1>1. Demo!TypeOK'
    BY DEF DemoInv, Demo!TypeOK
  <1>2. UnsentInv' /\ PayingInv' /\ MetaInv' /\ RequestInv' /\ AnsweredOnce' /\ DemoAlone'
    BY DEF DemoInv, UnsentInv, PayingInv, MetaInv, RequestInv, AnsweredOnce, DemoAlone
  <1> QED BY <1>1, <1>2 DEF DemoInv

(* or approved: the payment it is of is read now.                          *)
LEMMA ApproveRefundStep ==
  ASSUME Demo!ConstantTypes, DemoInv, Demo!ApproveRefund
  PROVE  DemoInv'
  <1> DEFINE q == [request EXCEPT !.status = "processing"]
             r == [of |-> meta, done |-> FALSE]
  <1>1. /\ meta \in Demo!Meta /\ ~meta.refunded /\ refunding = None
        /\ request \in Demo!Request /\ request # None
    BY DEF Demo!ApproveRefund, DemoInv, Demo!TypeOK, RequestInv
  <1>2. q \in Demo!Request /\ q # None /\ q.status = "processing"
    <2>1. q \in Demo!Request /\ q.status = "processing"
      BY <1>1 DEF Demo!Request
    <2> QED BY <2>1 DEF Demo!ConstantTypes
  <1>3. r \in [of : Demo!Meta, done : BOOLEAN] /\ r.of = meta /\ ~r.done
    BY <1>1
  <1>4. /\ request' = q /\ refunding' = r
        /\ overlapped' = (overlapped \/ paying # {})
        /\ UNCHANGED <<loaded, stage, hearing, pending, Demo!payVars, answered, returned, refused,
                       Demo!tamperVars>>
    BY DEF Demo!ApproveRefund
  <1> HIDE DEF q, r
  <1>5. (overlapped \/ paying # {}) \in BOOLEAN
    BY Zenon
  <1>6. Demo!TypeOK'
    BY <1>2, <1>3, <1>4, <1>5 DEF DemoInv, Demo!TypeOK, Demo!payVars, Demo!tamperVars
  <1>7. UnsentInv' /\ PayingInv' /\ MetaInv' /\ AnsweredOnce'
    BY <1>1, <1>3, <1>4 DEF DemoInv, UnsentInv, PayingInv, MetaInv, AnsweredOnce, Demo!payVars,
                            Demo!ApproveRefund
  <1>8. RequestInv'
    BY <1>1, <1>2, <1>3, <1>4 DEF DemoInv, MetaInv, RequestInv, Demo!ApproveRefund, Demo!payVars
  <1>9. DemoAlone'
    BY <1>3, <1>4 DEF DemoInv, DemoAlone, Demo!payVars
  <1> QED BY <1>6, <1>7, <1>8, <1>9 DEF DemoInv

(* The server refunds, or finds that it has,                               *)
LEMMA ServerRefundsStep ==
  ASSUME DemoInv, NEW works \in BOOLEAN, Demo!ServerRefunds(works)
  PROVE  DemoInv'
  <1> DEFINE r == [refunding EXCEPT !.done = TRUE]
             p == refunding.of.pay
             moves == works /\ p \notin returned
             end == IF moves THEN "refunded" ELSE "manual_review"
  <1>1. refunding # None /\ refunding \in [of : Demo!Meta, done : BOOLEAN] /\ p \in Demo!Ids
    BY DEF Demo!ServerRefunds, DemoInv, Demo!TypeOK, Demo!Meta
  <1>2. r \in [of : Demo!Meta, done : BOOLEAN] /\ r.of = refunding.of /\ r.done
    BY <1>1
  <1>3. /\ refunding' = r /\ record' = [record EXCEPT ![p] = end]
        /\ UNCHANGED <<loaded, stage, hearing, pending, sent, paying, meta, request,
                       answered, Demo!tamperVars, overlapped>>
    BY DEF Demo!ServerRefunds
  <1>4. end \in {"refunded", "manual_review"}
    OBVIOUS
  <1>12. /\ \A x \in returned \union refused : x \in returned' \union refused'
         /\ returned' \subseteq Demo!Ids /\ refused' \subseteq Demo!Ids
         /\ p \in returned' \union refused'
    BY <1>1 DEF Demo!ServerRefunds, DemoInv, Demo!TypeOK
  <1> HIDE DEF r, p, moves, end
  <1>5. /\ record' \in [Demo!Ids -> {"none", "settled", "refunded", "manual_review"}]
        /\ record'[p] \in {"refunded", "manual_review"}
        /\ \A x \in Demo!Ids : x # p => record'[x] = record[x]
    BY <1>1, <1>3, <1>4 DEF DemoInv, Demo!TypeOK
  <1>6. Demo!TypeOK'
    BY <1>2, <1>3, <1>5, <1>12 DEF DemoInv, Demo!TypeOK, Demo!tamperVars
  <1>7. UnsentInv'
    BY <1>1, <1>2, <1>3, <1>5 DEF DemoInv, UnsentInv, p
  <1>8. PayingInv'
    BY <1>1, <1>2, <1>3, <1>5 DEF DemoInv, Demo!TypeOK, Demo!Paying, PayingInv, p
  <1>9. MetaInv' /\ AnsweredOnce'
    BY <1>1, <1>3, <1>5, <1>12 DEF DemoInv, Demo!TypeOK, Demo!Meta, MetaInv, AnsweredOnce
  <1>10. RequestInv'
    BY <1>1, <1>2, <1>3, <1>5, <1>12 DEF DemoInv, RequestInv, p
  <1>11. DemoAlone'
    BY <1>1, <1>2, <1>3 DEF DemoInv, DemoAlone
  <1> QED BY <1>6, <1>7, <1>8, <1>9, <1>10, <1>11 DEF DemoInv

(* the screen shows it: a payment is refunded on the screen once.          *)
LEMMA RefundShownStep ==
  ASSUME Demo!ConstantTypes, DemoInv, Demo!RefundShown
  PROVE  DemoInv'
  <1> DEFINE p == refunding.of.pay
             m == [refunding.of EXCEPT !.refunded = TRUE]
  <1>1. /\ refunding # None /\ refunding \in [of : Demo!Meta, done : BOOLEAN] /\ p \in Demo!Ids
        /\ refunding.of \in Demo!Meta /\ refunding.done
    BY DEF Demo!RefundShown, DemoInv, Demo!TypeOK, Demo!Meta
  <1>2. m \in Demo!Meta /\ m # None /\ m.pay = p /\ m.refunded
    <2>1. m \in Demo!Meta /\ m.pay = p /\ m.refunded
      BY <1>1 DEF Demo!Meta
    <2> QED BY <2>1 DEF Demo!ConstantTypes
  <1>3. /\ answered[p] = 0 /\ record[p] # "none" /\ p \in returned \union refused
        /\ meta # None /\ sent[p] # 0
    BY <1>1 DEF DemoInv, RequestInv, UnsentInv
  <1>4. /\ meta' = m /\ answered' = [answered EXCEPT ![p] = answered[p] + 1]
        /\ refunding' = None /\ request' = None
        /\ UNCHANGED <<loaded, stage, hearing, pending, sent, paying, record, returned, refused,
                       Demo!tamperVars, overlapped>>
    BY DEF Demo!RefundShown, Demo!Marked
  <1> HIDE DEF m, p
  <1>5. 1 \in 0..MaxPays
    BY <1>1 DEF Demo!Ids, Demo!ConstantTypes
  <1>6. /\ answered' \in [Demo!Ids -> 0..MaxPays] /\ answered'[p] = 1
        /\ \A x \in Demo!Ids : x # p => answered'[x] = answered[x]
    BY <1>1, <1>3, <1>4, <1>5 DEF DemoInv, Demo!TypeOK
  <1>7. Demo!TypeOK'
    BY <1>2, <1>4, <1>6 DEF DemoInv, Demo!TypeOK, Demo!tamperVars
  <1>8. UnsentInv'
    BY <1>2, <1>3, <1>4, <1>6 DEF DemoInv, UnsentInv
  <1>9. PayingInv'
    BY <1>1, <1>2, <1>4, <1>6 DEF DemoInv, Demo!TypeOK, Demo!Paying, PayingInv, p
  <1>10. MetaInv' /\ RequestInv' /\ AnsweredOnce'
    BY <1>2, <1>3, <1>4, <1>6 DEF DemoInv, MetaInv, RequestInv, AnsweredOnce
  <1>11. DemoAlone'
    BY <1>1, <1>2, <1>4 DEF DemoInv, DemoAlone, p
  <1> QED BY <1>7, <1>8, <1>9, <1>10, <1>11 DEF DemoInv

(* or that it failed.                                                      *)
LEMMA RefundFailsStep ==
  ASSUME DemoInv, Demo!RefundFails
  PROVE  DemoInv'
  <1> USE DEF Demo!RefundFails, Demo!payVars, Demo!tamperVars
  <1>1. Demo!TypeOK'
    BY DEF DemoInv, Demo!TypeOK, Demo!Phases
  <1>2. UnsentInv' /\ PayingInv' /\ MetaInv' /\ RequestInv' /\ AnsweredOnce' /\ DemoAlone'
    BY DEF DemoInv, UnsentInv, PayingInv, MetaInv, RequestInv, AnsweredOnce, DemoAlone
  <1> QED BY <1>1, <1>2 DEF DemoInv

(* Every step keeps the invariant,                                         *)
LEMMA DemoInductive == Demo!ConstantTypes /\ DemoInv /\ [Demo!Next]_(Demo!vars) => DemoInv'
  <1> SUFFICES ASSUME Demo!ConstantTypes, DemoInv, [Demo!Next]_(Demo!vars) PROVE DemoInv'
    OBVIOUS
  <1>1. ASSUME NEW a \in Amounts, Demo!Accept(a) \/ Demo!RunJudgeDemo(a) PROVE DemoInv'
    BY <1>1, ConfirmPayStep DEF Demo!Accept, Demo!RunJudgeDemo
  <1>2. CASE Demo!Next
    BY <1>1, <1>2, LoadAccountsStep, StartVoiceStep, OpenTypedEntryStep, HeardStep,
       NotHeardStep, GoHomeStep, ServerSettlesStep, PaymentShownStep, PaymentFailsStep,
       RequestRefundStep, DeclineRefundStep, ApproveRefundStep, ServerRefundsStep,
       RefundShownStep, RefundFailsStep, TamperRouteStep, TamperBlockedStep DEF Demo!Next
  <1>3. CASE UNCHANGED Demo!vars
    BY <1>3 DEF Demo!vars, DemoInv, Demo!TypeOK, UnsentInv, PayingInv, MetaInv, RequestInv,
                AnsweredOnce, DemoAlone
  <1> QED BY <1>2, <1>3

(* which holds at the start.                                               *)
LEMMA DemoInitially == Demo!ConstantTypes /\ Demo!Init => DemoInv
  <1> SUFFICES ASSUME Demo!ConstantTypes, Demo!Init PROVE DemoInv
    OBVIOUS
  <1> USE DEF Demo!Init
  <1>1. 0 \in 0..MaxPays /\ 0 \in 0..MaxTampers
    BY DEF Demo!ConstantTypes
  <1>2. Demo!TypeOK
    BY <1>1 DEF Demo!TypeOK, Demo!Phases
  <1> QED BY <1>2 DEF DemoInv, UnsentInv, PayingInv, MetaInv, RequestInv, AnsweredOnce, DemoAlone

(* The screen of the adapter says what the server did                      *)
(* (UniversalAdapterDemo.tsx).                                             *)
THEOREM DemoIsTruthful ==
  ASSUME Demo!ConstantTypes PROVE Demo!Spec => [](Demo!TypeOK /\ Demo!ScreenTellsTruth)
  <1>1. Demo!Init => DemoInv
    BY DemoInitially
  <1>2. DemoInv /\ [Demo!Next]_(Demo!vars) => DemoInv'
    BY DemoInductive
  <1>3. DemoInv => Demo!TypeOK /\ Demo!ScreenTellsTruth
    BY DEF DemoInv, MetaInv, AnsweredOnce, DemoAlone, Demo!ScreenTellsTruth
  <1> QED BY <1>1, <1>2, <1>3, PTL DEF Demo!Spec

-----------------------------------------------------------------------------
(* The frame around the screens (AppShell).                                *)

(* Screens of an account, and those behind the settings.                   *)
Area == Shell!AccountViews \union Shell!FromSettings

(* A handler that will show the account it carries.                        *)
Owned(l) ==
  \/ l.at = "made"
  \/ l.kind \in {"restore", "recover", "wallet"}
  \/ l.kind = "circle" /\ l.at = "found"

(* A handler whose account the session pointed to when it got it.          *)
SavedFor(l) == l.at = "made" \/ (l.kind = "circle" /\ l.at = "found")

(* Before the page has started nothing is shown; a screen of an account    *)
(* has one, and so has what will show one.                                 *)
ShownInv ==
  /\ ~booted => view = "loading" /\ loads = {}
  /\ view \in Area => user \in Accounts
  /\ \A l \in loads : Owned(l) => l.of \in Accounts

(* As long as nothing overlapped one handler runs at most, its account is  *)
(* the one on the device, and so is the one on display.                    *)
ShellAlone ==
  ~mingled =>
    /\ \A l, m \in loads : l = m
    /\ \A l \in loads : SavedFor(l) => l.of = session /\ l.of \in vaults
    /\ view \in Area =>
         /\ user = session /\ user \in vaults
         /\ \A l \in loads : l.kind = "recover" \/ (l.kind = "wallet" /\ l.of = user)

(* The inductive invariant of the frame.                                   *)
ShellInv == Shell!TypeOK /\ ShownInv /\ ShellAlone

(* A handler under way.                                                    *)
LoadOf(id, kind, of, at) == [id |-> id, kind |-> kind, of |-> of, at |-> at]

(* Where it may be.                                                        *)
Stages == {"found", "missing", "beats", "making", "made"}

(* Screens inside the area and outside.                                    *)
LEMMA AreasAre ==
  /\ Area \subseteq Shell!Views /\ "loading" \notin Area
  /\ \A v \in {"menu", "gate", "intro", "director", "onboarding", "universal", "truth"} :
       v \in Shell!Views /\ v \notin Area
  /\ \A v \in {"wallet", "settings", "zk-demo", "recovery", "merchant"} : v \in Area
  /\ Shell!Framed \subseteq Shell!Views /\ "loading" \in Shell!Views
  /\ "loading" \notin Shell!Framed
  BY DEF Area, Shell!AccountViews, Shell!FromSettings, Shell!Views, Shell!Framed

(* No button leads into the area from outside.                             *)
LEMMA LeadsKeep ==
  ASSUME NEW lead \in Shell!Leads
  PROVE  /\ lead[1] \in Shell!Views /\ lead[2] \in Shell!Views /\ lead[1] # "loading"
         /\ lead[2] \in Area => lead[1] \in Area
  <1>1. CASE lead \in {"settings"} \X Shell!FromSettings
    BY <1>1 DEF Area, Shell!AccountViews, Shell!FromSettings, Shell!Views, Shell!Framed
  <1>2. CASE lead \in (Shell!FromSettings \ {"merchant"}) \X {"settings"}
    BY <1>2 DEF Area, Shell!AccountViews, Shell!FromSettings, Shell!Views, Shell!Framed
  <1>3. CASE lead \in Shell!Framed \X {"menu"}
    BY <1>3, AreasAre
  <1>4. CASE lead \in
  {<<"intro", "welcome">>, <<"welcome", "menu">>, <<"gate", "menu">>,
   <<"menu", "truth">>, <<"truth", "menu">>, <<"universal", "menu">>,
   <<"director", "onboarding">>, <<"zk-demo", "wallet">>,
   <<"wallet", "recovery">>, <<"recovery", "wallet">>, <<"settings", "recovery">>,
   <<"wallet", "settings">>, <<"settings", "wallet">>}
    BY <1>4 DEF Area, Shell!AccountViews, Shell!FromSettings, Shell!Views, Shell!Framed
  <1> QED BY <1>1, <1>2, <1>3, <1>4 DEF Shell!Leads

(* A screen is shown.                                                      *)
LEMMA ShowTyped ==
  ASSUME Shell!TypeOK, NEW v \in Shell!Views, Shell!Show(v), Shell!ConstantTypes
  PROVE  view' = v /\ view' \in Shell!Views /\ launch' \in 0..MaxLoads
  BY DEF Shell!TypeOK, Shell!Show, Shell!ConstantTypes

(* The fields of a handler.                                                *)
LEMMA LoadTyped ==
  ASSUME NEW id \in 1..MaxLoads, NEW kind \in Shell!Kinds, NEW of \in Accounts \union {None},
         NEW at \in Stages
  PROVE  /\ LoadOf(id, kind, of, at) \in Shell!Loading
         /\ LoadOf(id, kind, of, at).id = id
         /\ LoadOf(id, kind, of, at).kind = kind /\ LoadOf(id, kind, of, at).of = of
         /\ LoadOf(id, kind, of, at).at = at
  BY DEF LoadOf, Shell!Loading, Stages

(* A handler begins: with no overlap it is the only one,                   *)
LEMMA LoadBegun ==
  ASSUME Shell!ConstantTypes, Shell!TypeOK, ShownInv, ShellAlone,
         NEW kind \in Shell!Kinds, NEW of \in Accounts \union {None}, NEW at \in Stages,
         Shell!BeginLoad(kind, of, at),
         at = "made" \/ kind \in {"restore", "recover", "wallet"}
           \/ (kind = "circle" /\ at = "found") => of \in Accounts
  PROVE  /\ loads' \subseteq Shell!Loading
         /\ opened' \in 1..MaxLoads /\ opened' \in 0..MaxLoads /\ mingled' \in BOOLEAN
         /\ \A l \in loads' : Owned(l) => l.of \in Accounts
         /\ ~mingled' =>
              /\ ~mingled /\ \A l, m \in loads' : l = m
              /\ \A l \in loads' : l.kind = kind /\ l.of = of /\ l.at = at
  <1>1. opened' \in 1..MaxLoads /\ opened' \in 0..MaxLoads
    BY DEF Shell!BeginLoad, Shell!TypeOK, Shell!ConstantTypes
  <1> DEFINE new == LoadOf(opened', kind, of, at)
  <1>2. loads' = loads \union {new}
    BY DEF Shell!BeginLoad, LoadOf
  <1>3. new \in Shell!Loading /\ new.kind = kind /\ new.of = of /\ new.at = at
    BY <1>1, LoadTyped
  <1> HIDE DEF new
  <1>4. mingled' \in BOOLEAN /\ (~mingled' => ~mingled /\ loads = {})
    <2>1. mingled' = (mingled \/ loads # {})
      BY DEF Shell!BeginLoad
    <2>2. (mingled \/ loads # {}) \in BOOLEAN
      BY Zenon
    <2> QED BY <2>1, <2>2
  <1>5. \A l \in loads' : Owned(l) => l.of \in Accounts
    BY <1>2, <1>3 DEF ShownInv, Owned
  <1> QED BY <1>1, <1>2, <1>3, <1>4, <1>5 DEF Shell!TypeOK

(* it ends: with no overlap none is left,                                  *)
LEMMA LoadEnded ==
  ASSUME Shell!TypeOK, ShownInv, ShellAlone, NEW l, Shell!End(l)
  PROVE  /\ l \in loads /\ l \in Shell!Loading /\ loads' \subseteq loads
         /\ loads' \subseteq Shell!Loading
         /\ booted /\ UNCHANGED <<booted, mingled, opened>>
         /\ \A m \in loads' : Owned(m) => m.of \in Accounts
         /\ ~mingled => loads' = {}
  BY DEF Shell!End, Shell!TypeOK, ShownInv, ShellAlone

(* or it goes on: with no overlap it is still the only one, and no account *)
(* is on display.                                                          *)
LEMMA LoadMoved ==
  ASSUME Shell!TypeOK, ShownInv, ShellAlone, NEW l, NEW of \in Accounts \union {None},
         NEW at \in Stages, Shell!Goes(l, of, at), l \in loads,
         l.kind \in {"tour", "explore", "signup"}, at = "made" => of \in Accounts
  PROVE  /\ loads' \subseteq Shell!Loading /\ booted
         /\ UNCHANGED <<view, booted, user, demo, launch, mingled, opened>>
         /\ \A m \in loads' : Owned(m) => m.of \in Accounts
         /\ ~mingled =>
              /\ \A m, n \in loads' : m = n
              /\ \A m \in loads' : m.of = of /\ m.at = at
              /\ view \notin Area
              /\ \A m \in loads' : m.kind \in {"tour", "explore", "signup"}
  <1> DEFINE next == [l EXCEPT !.of = of, !.at = at]
  <1>1. /\ loads' = (loads \ {l}) \union {next}
        /\ UNCHANGED <<view, booted, user, demo, launch, mingled, opened>>
    BY DEF Shell!Goes
  <1>2. l \in Shell!Loading
    BY DEF Shell!TypeOK
  <1>3. next \in Shell!Loading /\ next.kind = l.kind /\ next.of = of /\ next.at = at
    BY <1>2 DEF Shell!Loading, Stages
  <1> HIDE DEF next
  <1>4. loads' \subseteq Shell!Loading /\ booted
    BY <1>1, <1>3 DEF Shell!TypeOK, ShownInv
  <1>5. \A m \in loads' : Owned(m) => m.of \in Accounts
    BY <1>1, <1>3 DEF ShownInv, Owned
  <1>6. ~mingled => view \notin Area
    BY DEF ShellAlone
  <1>7. ~mingled => loads' = {next}
    BY <1>1 DEF ShellAlone
  <1> QED BY <1>1, <1>3, <1>4, <1>5, <1>6, <1>7

(* A handler that ends and shows a screen. *)
LEMMA EndShows ==
  ASSUME Shell!ConstantTypes, ShellInv, NEW l, Shell!End(l), NEW v \in Shell!Views, Shell!Show(v),
         user' \in Accounts \union {None}, session' \in Accounts \union {None},
         vaults' \subseteq Accounts, demo' \in BOOLEAN,
         v \in Area => user' \in Accounts,
         ~mingled /\ v \in Area => user' = session' /\ user' \in vaults'
  PROVE  ShellInv'
  <1>1. Shell!TypeOK /\ ShownInv /\ ShellAlone
    BY DEF ShellInv
  <1>2. view' = v /\ view' \in Shell!Views /\ launch' \in 0..MaxLoads
    BY <1>1, ShowTyped
  <1>3. /\ loads' \subseteq Shell!Loading /\ booted /\ UNCHANGED <<booted, mingled, opened>>
        /\ \A m \in loads' : Owned(m) => m.of \in Accounts
        /\ ~mingled => loads' = {}
    BY <1>1, LoadEnded
  <1>4. Shell!TypeOK'
    BY <1>1, <1>2, <1>3 DEF Shell!TypeOK
  <1>5. ShownInv'
    BY <1>2, <1>3 DEF ShownInv, Owned
  <1>6. ShellAlone'
    BY <1>2, <1>3 DEF ShellAlone
  <1> QED BY <1>4, <1>5, <1>6 DEF ShellInv

(* A handler that ends where nobody looks. *)
LEMMA EndStays ==
  ASSUME Shell!ConstantTypes, ShellInv, NEW l, Shell!End(l), UNCHANGED <<view, launch>>,
         user' \in Accounts \union {None}, session' \in Accounts \union {None},
         vaults' \subseteq Accounts, demo' \in BOOLEAN,
         view \in Area => user' \in Accounts,
         ~mingled /\ view \in Area => user' = session' /\ user' \in vaults'
  PROVE  ShellInv'
  <1>1. Shell!TypeOK /\ ShownInv /\ ShellAlone
    BY DEF ShellInv
  <1>3. /\ loads' \subseteq Shell!Loading /\ booted /\ UNCHANGED <<booted, mingled, opened>>
        /\ \A m \in loads' : Owned(m) => m.of \in Accounts
        /\ ~mingled => loads' = {}
    BY <1>1, LoadEnded
  <1>4. Shell!TypeOK'
    BY <1>1, <1>3 DEF Shell!TypeOK
  <1>5. ShownInv'
    BY <1>3 DEF ShownInv, Owned
  <1>6. ShellAlone'
    BY <1>3 DEF ShellAlone
  <1> QED BY <1>4, <1>5, <1>6 DEF ShellInv

(* The page is opened,                                                     *)
LEMMA ColdStartInv ==
  ASSUME Shell!ConstantTypes, ShellInv, NEW readable \in BOOLEAN, Shell!ColdStart(readable)
  PROVE  ShellInv'
  <1>1. /\ Shell!TypeOK /\ ShownInv /\ ShellAlone /\ ~booted /\ loads = {} /\ view = "loading"
        /\ booted' = TRUE /\ demo' = FALSE
        /\ UNCHANGED <<vaults, loads, mingled, opened>>
    BY DEF ShellInv, ShownInv, Shell!ColdStart
  <1>2. CASE readable /\ session \in vaults
    <2>1. user' = session /\ session' = session /\ Shell!Show("wallet")
      BY <1>2 DEF Shell!ColdStart
    <2>2. /\ view' = "wallet" /\ view' \in Shell!Views
          /\ launch' \in 0..MaxLoads /\ session \in Accounts
      BY <1>1, <1>2, <2>1, ShowTyped, AreasAre DEF Shell!TypeOK
    <2>3. Shell!TypeOK'
      BY <1>1, <2>1, <2>2 DEF Shell!TypeOK
    <2>4. ShownInv' /\ ShellAlone'
      BY <1>1, <1>2, <2>1, <2>2 DEF ShownInv, ShellAlone
    <2> QED BY <2>3, <2>4 DEF ShellInv
  <1>3. CASE ~(readable /\ session \in vaults)
    <2>1. user' = user /\ session' = None /\ Shell!Show("intro")
      BY <1>3 DEF Shell!ColdStart
    <2>2. view' = "intro" /\ view' \in Shell!Views /\ launch' \in 0..MaxLoads /\ view' \notin Area
      BY <1>1, <2>1, ShowTyped, AreasAre
    <2>3. Shell!TypeOK'
      BY <1>1, <2>1, <2>2 DEF Shell!TypeOK
    <2>4. ShownInv' /\ ShellAlone'
      BY <1>1, <2>1, <2>2 DEF ShownInv, ShellAlone
    <2> QED BY <2>3, <2>4 DEF ShellInv
  <1> QED BY <1>2, <1>3

(* and opened anew.                                                        *)
LEMMA ReloadInv ==
  ASSUME Shell!ConstantTypes, ShellInv, Shell!Reload
  PROVE  ShellInv'
  <1>1. /\ Shell!TypeOK /\ booted' = FALSE /\ user' = None /\ view' = "loading" /\ launch' = 0
        /\ loads' = {} /\ mingled' = FALSE /\ opened' = 0
        /\ UNCHANGED <<session, vaults, demo>>
    BY DEF ShellInv, Shell!Reload, Shell!device
  <1>2. view' \in Shell!Views /\ view' \notin Area /\ 0 \in 0..MaxLoads
    BY <1>1, AreasAre DEF Shell!ConstantTypes
  <1>3. Shell!TypeOK'
    BY <1>1, <1>2 DEF Shell!TypeOK
  <1>4. ShownInv' /\ ShellAlone'
    BY <1>1, <1>2 DEF ShownInv, ShellAlone
  <1> QED BY <1>3, <1>4 DEF ShellInv

(* A button that leads elsewhere: within the area only from within it. *)
LEMMA MovesInv ==
  ASSUME Shell!ConstantTypes, ShellInv, NEW to \in Shell!Views, Shell!Show(to), view # "loading",
         to \in Area => view \in Area, demo' \in BOOLEAN,
         UNCHANGED <<booted, user, Shell!device, loads, mingled, opened>>
  PROVE  ShellInv'
  <1>1. Shell!TypeOK /\ ShownInv /\ ShellAlone /\ booted
    BY DEF ShellInv, ShownInv
  <1>2. view' = to /\ view' \in Shell!Views /\ launch' \in 0..MaxLoads
    BY <1>1, ShowTyped
  <1>3. Shell!TypeOK'
    BY <1>1, <1>2 DEF Shell!TypeOK, Shell!device
  <1>4. ShownInv'
    BY <1>1, <1>2 DEF ShownInv, Owned
  <1>5. ShellAlone'
    BY <1>1, <1>2 DEF ShellAlone, SavedFor, Shell!device
  <1> QED BY <1>3, <1>4, <1>5 DEF ShellInv

(* Signing out leaves the area.                                            *)
LEMMA SignOutInv ==
  ASSUME Shell!ConstantTypes, ShellInv, Shell!SignOut
  PROVE  ShellInv'
  <1>1. /\ Shell!TypeOK /\ ShownInv /\ ShellAlone /\ booted
        /\ user' = None /\ session' = None /\ vaults' = {} /\ demo' = FALSE
        /\ UNCHANGED <<booted, loads, opened>>
    BY AreasAre DEF ShellInv, ShownInv, Shell!SignOut
  <1>2. view' = "menu" /\ view' \in Shell!Views /\ view' \notin Area /\ launch' \in 0..MaxLoads
    BY <1>1, ShowTyped, AreasAre DEF Shell!SignOut
  <1>3. mingled' \in BOOLEAN /\ (~mingled' => loads' = {})
    <2>1. mingled' = (mingled \/ loads # {})
      BY DEF Shell!SignOut
    <2>2. (mingled \/ loads # {}) \in BOOLEAN
      BY Zenon
    <2> QED BY <1>1, <2>1, <2>2
  <1>4. Shell!TypeOK'
    BY <1>1, <1>2, <1>3 DEF Shell!TypeOK
  <1>5. ShownInv' /\ ShellAlone'
    BY <1>1, <1>2, <1>3 DEF ShownInv, ShellAlone, Owned
  <1> QED BY <1>4, <1>5 DEF ShellInv

(* A handler that begins. *)
LEMMA BeginsInv ==
  ASSUME Shell!ConstantTypes, ShellInv, NEW kind \in Shell!Kinds, NEW of \in Accounts \union {None},
         NEW at \in Stages, Shell!BeginLoad(kind, of, at),
         at = "made" \/ kind \in {"restore", "recover", "wallet"}
           \/ (kind = "circle" /\ at = "found") => of \in Accounts,
         at = "made" \/ (kind = "circle" /\ at = "found") => of = session' /\ of \in vaults',
         view # "loading", view' \in Shell!Views, launch' \in 0..MaxLoads,
         view' \in Area =>
           /\ view \in Area /\ UNCHANGED Shell!device
           /\ kind = "recover" \/ (kind = "wallet" /\ of = user),
         demo' \in BOOLEAN, vaults' \subseteq Accounts, UNCHANGED <<booted, user, session>>
  PROVE  ShellInv'
  <1>1. Shell!TypeOK /\ ShownInv /\ ShellAlone /\ booted
    BY DEF ShellInv, ShownInv
  <1>2. /\ loads' \subseteq Shell!Loading
        /\ opened' \in 1..MaxLoads /\ opened' \in 0..MaxLoads /\ mingled' \in BOOLEAN
        /\ \A l \in loads' : Owned(l) => l.of \in Accounts
        /\ ~mingled' =>
             /\ ~mingled /\ \A l, m \in loads' : l = m
             /\ \A l \in loads' : l.kind = kind /\ l.of = of /\ l.at = at
    BY <1>1, LoadBegun
  <1>3. Shell!TypeOK'
    BY <1>1, <1>2 DEF Shell!TypeOK, Shell!ConstantTypes
  <1>4. ShownInv'
    BY <1>1, <1>2 DEF ShownInv, Owned
  <1>5. ShellAlone'
    BY <1>1, <1>2 DEF ShellAlone, SavedFor, Shell!device
  <1> QED BY <1>3, <1>4, <1>5 DEF ShellInv

(* A button that waits for its handler.                                    *)
LEMMA PressInv ==
  ASSUME Shell!ConstantTypes, ShellInv, NEW kind \in Shell!Kinds, NEW of \in Accounts \union {None},
         NEW at \in Stages, Shell!Press(kind, of, at), view # "loading",
         at # "made", kind # "circle",
         kind \in {"restore", "recover", "wallet"} => of \in Accounts,
         view \in Area => kind = "recover" \/ (kind = "wallet" /\ of = user),
         view \in Area => UNCHANGED Shell!device,
         demo' \in BOOLEAN, vaults' \subseteq Accounts, UNCHANGED session
  PROVE  ShellInv'
  <1>1. Shell!TypeOK /\ ShownInv /\ ShellAlone
    BY DEF ShellInv
  <1>2. Shell!BeginLoad(kind, of, at) /\ launch' = opened' /\ UNCHANGED <<view, booted, user>>
    BY DEF Shell!Press
  <1>3. opened' \in 0..MaxLoads
    BY <1>1, <1>2 DEF Shell!BeginLoad, Shell!TypeOK, Shell!ConstantTypes
  <1>4. launch' \in 0..MaxLoads
    BY <1>2, <1>3
  <1>5. view' \in Shell!Views
    BY <1>1, <1>2 DEF Shell!TypeOK
  <1> QED BY <1>2, <1>4, <1>5, BeginsInv

(* Circle is opened from the menu,                                         *)
LEMMA OpenCircleInv ==
  ASSUME Shell!ConstantTypes, ShellInv, Shell!OpenCircle
  PROVE  ShellInv'
  <1>1. /\ Shell!TypeOK /\ view = "menu" /\ demo' = FALSE
        /\ UNCHANGED <<booted, user, Shell!device>>
    BY DEF ShellInv, Shell!OpenCircle
  <1>2. CASE session = None
    <2>1. Shell!Show("gate") /\ UNCHANGED <<loads, mingled, opened>>
      BY <1>2 DEF Shell!OpenCircle
    <2> QED BY <1>1, <2>1, MovesInv, AreasAre
  <1>3. CASE session # None
    <2> DEFINE at == IF session \in vaults THEN "found" ELSE "missing"
    <2>1. Shell!BeginLoad("circle", session, at) /\ UNCHANGED <<view, launch>>
      BY <1>3 DEF Shell!OpenCircle
    <2>2. /\ at \in Stages /\ at # "made" /\ (at = "found" => session \in vaults)
          /\ "circle" \in Shell!Kinds /\ session \in Accounts /\ vaults \subseteq Accounts
      BY <1>1, <1>3 DEF Stages, Shell!Kinds, Shell!TypeOK
    <2> HIDE DEF at
    <2>3. launch' \in 0..MaxLoads
      BY <1>1, <2>1 DEF Shell!TypeOK
    <2> QED BY <1>1, <2>1, <2>2, <2>3, BeginsInv, AreasAre DEF Shell!device
  <1> QED BY <1>2, <1>3

(* or the test wallet,                                                     *)
LEMMA OpenVoiceInv ==
  ASSUME Shell!ConstantTypes, ShellInv, Shell!OpenVoice
  PROVE  ShellInv'
  <1>1. /\ Shell!TypeOK /\ view = "menu" /\ demo' = FALSE /\ UNCHANGED <<booted, user, session>>
        /\ Shell!BeginLoad("voice", None, "making") /\ Shell!Show("loading") /\ vaults' = {}
    BY DEF ShellInv, Shell!OpenVoice
  <1>2. view' = "loading" /\ launch' = 0 /\ "voice" \in Shell!Kinds /\ "making" \in Stages
    BY <1>1 DEF Shell!Show, Shell!Kinds, Stages
  <1>3. launch' \in 0..MaxLoads
    BY <1>1, <1>2 DEF Shell!TypeOK, Shell!BeginLoad, Shell!ConstantTypes
  <1> QED BY <1>1, <1>2, <1>3, BeginsInv, AreasAre

(* or the guided tour.                                                     *)
LEMMA EnterTourInv ==
  ASSUME Shell!ConstantTypes, ShellInv, Shell!EnterTour
  PROVE  ShellInv'
  <1>1. /\ Shell!TypeOK /\ view # "loading" /\ demo' = TRUE
        /\ UNCHANGED <<booted, user, Shell!device>>
        /\ Shell!BeginLoad("tour", None, "beats") /\ view' = "director" /\ launch' = opened'
    BY DEF ShellInv, Shell!EnterTour
  <1>2. "tour" \in Shell!Kinds /\ "beats" \in Stages
    BY DEF Shell!Kinds, Stages
  <1>3. launch' \in 0..MaxLoads
    BY <1>1 DEF Shell!TypeOK, Shell!BeginLoad, Shell!ConstantTypes
  <1>4. vaults' \subseteq Accounts
    BY <1>1 DEF Shell!TypeOK, Shell!device
  <1> QED BY <1>1, <1>2, <1>3, <1>4, BeginsInv, AreasAre DEF Shell!device

(* The buttons of the other screens.                                       *)
LEMMA AsksInv ==
  ASSUME Shell!ConstantTypes, ShellInv,
         \/ \E mode \in {"tour", "explore"} : Shell!Launch(mode)
         \/ Shell!AskCreate \/ Shell!SignUp \/ Shell!AskWallet
         \/ \E a \in Accounts : Shell!AskRestore(a) \/ Shell!AskRecover(a)
  PROVE  ShellInv'
  <1>1. /\ {"tour", "explore", "create", "restore", "recover", "wallet", "signup",
             "demo signup"} \subseteq Shell!Kinds
        /\ "beats" \in Stages /\ "making" \in Stages
    BY DEF Shell!Kinds, Stages
  <1>2. Shell!TypeOK /\ ShownInv
    BY DEF ShellInv
  <1>3. ASSUME NEW mode \in {"tour", "explore"}, Shell!Launch(mode)
        PROVE  ShellInv'
    BY <1>1, <1>2, <1>3, PressInv, AreasAre DEF Shell!Launch, Shell!device, Shell!TypeOK
  <1>4. CASE Shell!AskCreate
    BY <1>1, <1>2, <1>4, PressInv, AreasAre DEF Shell!AskCreate, Shell!device, Shell!TypeOK
  <1>5. CASE Shell!SignUp
    <2> DEFINE kind == IF demo THEN "demo signup" ELSE "signup"
    <2>1. /\ view = "onboarding" /\ Shell!Press(kind, None, "making")
          /\ vaults' \subseteq Accounts /\ UNCHANGED <<session, demo>>
      BY <1>2, <1>5 DEF Shell!SignUp, Shell!TypeOK
    <2>2. kind \in Shell!Kinds /\ kind \notin {"circle", "restore", "recover", "wallet"}
      BY <1>1
    <2> HIDE DEF kind
    <2> QED BY <1>1, <1>2, <2>1, <2>2, PressInv, AreasAre DEF Shell!TypeOK
  <1>6. CASE Shell!AskWallet
    <2>1. view \in Area /\ view # "loading" /\ user \in Accounts
      BY <1>2, <1>6, AreasAre DEF Shell!AskWallet, ShownInv
    <2> QED BY <1>1, <1>2, <1>6, <2>1, PressInv DEF Shell!AskWallet, Shell!device, Shell!TypeOK
  <1>7. ASSUME NEW a \in Accounts, Shell!AskRestore(a)
        PROVE  ShellInv'
    BY <1>1, <1>2, <1>7, PressInv, AreasAre DEF Shell!AskRestore, Shell!device, Shell!TypeOK
  <1>8. ASSUME NEW a \in Accounts, Shell!AskRecover(a)
        PROVE  ShellInv'
    BY <1>1, <1>2, <1>8, PressInv, AreasAre DEF Shell!AskRecover, Shell!device, Shell!TypeOK
  <1> QED BY <1>3, <1>4, <1>5, <1>6, <1>7, <1>8

(* The beats of the tour are over.                                         *)
LEMMA BeatsInv ==
  ASSUME Shell!ConstantTypes, ShellInv, NEW l \in loads, Shell!BeatsOver(l)
  PROVE  ShellInv'
  <1>1. Shell!TypeOK /\ ShownInv /\ ShellAlone /\ "making" \in Stages
    BY DEF ShellInv, Stages
  <1>2. /\ Shell!Goes(l, None, "making") /\ vaults' = {} /\ session' = session
        /\ l.kind \in {"tour", "explore", "signup"}
    BY DEF Shell!BeatsOver, Shell!Launched
  <1>3. /\ loads' \subseteq Shell!Loading /\ booted
        /\ UNCHANGED <<view, booted, user, demo, launch, mingled, opened>>
        /\ \A m \in loads' : Owned(m) => m.of \in Accounts
        /\ ~mingled =>
             /\ \A m, n \in loads' : m = n
             /\ \A m \in loads' : m.of = None /\ m.at = "making"
             /\ view \notin Area
             /\ \A m \in loads' : m.kind \in {"tour", "explore", "signup"}
    BY <1>1, <1>2, LoadMoved
  <1>4. Shell!TypeOK'
    BY <1>1, <1>2, <1>3 DEF Shell!TypeOK
  <1>5. ShownInv'
    BY <1>1, <1>3 DEF ShownInv, Owned
  <1>6. ShellAlone'
    BY <1>3 DEF ShellAlone, SavedFor
  <1> QED BY <1>4, <1>5, <1>6 DEF ShellInv

(* An account is made and saved before it is shown.                        *)
LEMMA MadeInv ==
  ASSUME Shell!ConstantTypes, ShellInv, NEW l \in loads, NEW a \in Accounts,
         Shell!DirectorMade(l, a) \/ Shell!SignUpMade(l, a)
  PROVE  ShellInv'
  <1>1. Shell!TypeOK /\ ShownInv /\ ShellAlone /\ "made" \in Stages
    BY DEF ShellInv, Stages
  <1>2. /\ Shell!Goes(l, a, "made") /\ vaults' = vaults \union {a} /\ session' = a
        /\ l.kind \in {"tour", "explore", "signup"}
    BY DEF Shell!DirectorMade, Shell!SignUpMade, Shell!Launched, Shell!Saved
  <1>3. /\ loads' \subseteq Shell!Loading /\ booted
        /\ UNCHANGED <<view, booted, user, demo, launch, mingled, opened>>
        /\ \A m \in loads' : Owned(m) => m.of \in Accounts
        /\ ~mingled =>
             /\ \A m, n \in loads' : m = n
             /\ \A m \in loads' : m.of = a /\ m.at = "made"
             /\ view \notin Area
             /\ \A m \in loads' : m.kind \in {"tour", "explore", "signup"}
    BY <1>1, <1>2, LoadMoved
  <1>4. Shell!TypeOK'
    BY <1>1, <1>2, <1>3 DEF Shell!TypeOK
  <1>5. ShownInv'
    BY <1>1, <1>3 DEF ShownInv, Owned
  <1>6. ShellAlone'
    BY <1>2, <1>3 DEF ShellAlone, SavedFor
  <1> QED BY <1>4, <1>5, <1>6 DEF ShellInv

(* Handlers that end.                                                      *)
LEMMA EndsInv ==
  ASSUME Shell!ConstantTypes, ShellInv, NEW l \in loads,
         \/ Shell!CircleLoaded(l) \/ \E unread \in BOOLEAN : Shell!CircleNotLoaded(l, unread)
         \/ Shell!VoiceFails(l) \/ Shell!DirectorReady(l) \/ Shell!Create(l)
         \/ Shell!Restored(l) \/ Shell!SignedUp(l)
         \/ Shell!Recovered(l) \/ Shell!WalletDone(l) \/ Shell!LoadFails(l)
         \/ \E a \in Accounts : Shell!VoiceReady(l, a) \/ Shell!DemoSignedUp(l, a)
  PROVE  ShellInv'
  <1>1. Shell!TypeOK /\ ShownInv /\ ShellAlone
    BY DEF ShellInv
  <1>2. /\ user \in Accounts \union {None} /\ session \in Accounts \union {None}
        /\ vaults \subseteq Accounts /\ demo \in BOOLEAN /\ l \in Shell!Loading /\ FALSE \in BOOLEAN
        /\ None \in Accounts \union {None}
    BY <1>1 DEF Shell!TypeOK
  <1>3. /\ Owned(l) => l.of \in Accounts
        /\ ~mingled /\ SavedFor(l) => l.of = session /\ l.of \in vaults
        /\ view \in Area => user \in Accounts
        /\ ~mingled /\ view \in Area =>
             /\ user = session /\ user \in vaults
             /\ l.kind = "recover" \/ (l.kind = "wallet" /\ l.of = user)
    BY <1>1 DEF ShownInv, ShellAlone
  <1>4. CASE Shell!CircleLoaded(l)
    <2>1. /\ Shell!End(l) /\ user' = l.of /\ Shell!Show("wallet") /\ UNCHANGED <<session, demo>>
          /\ vaults' \in {vaults, vaults \union {l.of}} /\ Owned(l) /\ SavedFor(l)
      BY <1>4 DEF Shell!CircleLoaded, Owned, SavedFor
    <2> QED BY <1>2, <1>3, <2>1, EndShows, AreasAre
  <1>5. ASSUME NEW unread \in BOOLEAN, Shell!CircleNotLoaded(l, unread)
        PROVE  ShellInv'
    <2>1. /\ Shell!End(l) /\ session' \in {None, session} /\ Shell!Show("gate")
          /\ UNCHANGED <<user, vaults, demo>>
      BY <1>5 DEF Shell!CircleNotLoaded
    <2> QED BY <1>2, <2>1, EndShows, AreasAre
  <1>6. CASE Shell!VoiceFails(l)
    <2>1. Shell!End(l) /\ Shell!Show("gate") /\ UNCHANGED <<user, session, vaults, demo>>
      BY <1>6 DEF Shell!VoiceFails, Shell!device
    <2> QED BY <1>2, <2>1, EndShows, AreasAre
  <1>7. CASE Shell!DirectorReady(l)
    <2> DEFINE v == IF l.kind = "tour" THEN "wallet" ELSE "zk-demo"
    <2>1. /\ Shell!End(l) /\ user' = l.of /\ Shell!Show(v) /\ UNCHANGED <<session, vaults, demo>>
          /\ Owned(l) /\ SavedFor(l)
      BY <1>7 DEF Shell!DirectorReady, Shell!device, Owned, SavedFor
    <2>2. v \in Area /\ v \in Shell!Views
      BY AreasAre
    <2> HIDE DEF v
    <2> QED BY <1>2, <1>3, <2>1, <2>2, EndShows
  <1>8. CASE Shell!Create(l)
    <2>1. /\ Shell!End(l) /\ Shell!Show("onboarding") /\ demo' = FALSE
          /\ UNCHANGED <<user, session, vaults>>
      BY <1>8 DEF Shell!Create, Shell!device
    <2> QED BY <1>2, <2>1, EndShows, AreasAre
  <1>9. CASE Shell!Restored(l)
    <2>1. /\ Shell!End(l) /\ vaults' = vaults \union {l.of} /\ session' = l.of /\ user' = l.of
          /\ demo' = FALSE /\ Shell!Show("wallet") /\ Owned(l)
      BY <1>9 DEF Shell!Restored, Shell!Saved, Owned
    <2> QED BY <1>2, <1>3, <2>1, EndShows, AreasAre
  <1>10. CASE Shell!SignedUp(l)
    <2>1. /\ Shell!End(l) /\ user' = l.of /\ Shell!Show("wallet")
          /\ UNCHANGED <<session, vaults, demo>>
          /\ Owned(l) /\ SavedFor(l)
      BY <1>10 DEF Shell!SignedUp, Shell!device, Owned, SavedFor
    <2> QED BY <1>2, <1>3, <2>1, EndShows, AreasAre
  <1>11. CASE Shell!Recovered(l)
    <2>1. /\ Shell!End(l) /\ vaults' = vaults \union {l.of} /\ session' = l.of /\ user' = l.of
          /\ UNCHANGED <<view, launch, demo>> /\ Owned(l)
      BY <1>11 DEF Shell!Recovered, Shell!Saved, Owned
    <2> QED BY <1>2, <1>3, <2>1, EndStays
  <1>12. CASE Shell!WalletDone(l)
    <2>1. /\ Shell!End(l) /\ vaults' = vaults \union {l.of} /\ session' = session /\ user' = l.of
          /\ UNCHANGED <<view, launch, demo>> /\ Owned(l) /\ l.kind # "recover"
      BY <1>12 DEF Shell!WalletDone, Owned
    <2> QED BY <1>2, <1>3, <2>1, EndStays
  <1>13. CASE Shell!LoadFails(l)
    <2>1. Shell!End(l) /\ UNCHANGED <<view, user, session, vaults, demo, launch>>
      BY <1>13 DEF Shell!LoadFails, Shell!device
    <2> QED BY <1>2, <1>3, <2>1, EndStays
  <1>14. ASSUME NEW a \in Accounts, Shell!VoiceReady(l, a)
         PROVE  ShellInv'
    <2>1. /\ Shell!End(l) /\ vaults' = vaults \union {a} /\ session' = a /\ user' = a
          /\ UNCHANGED demo /\ Shell!Show("wallet")
      BY <1>14 DEF Shell!VoiceReady, Shell!Saved
    <2> QED BY <1>2, <2>1, EndShows, AreasAre
  <1>15. ASSUME NEW a \in Accounts, Shell!DemoSignedUp(l, a)
         PROVE  ShellInv'
    <2>1. /\ Shell!End(l) /\ vaults' = vaults \union {a} /\ session' = a /\ user' = a
          /\ UNCHANGED demo /\ Shell!Show("zk-demo")
      BY <1>15 DEF Shell!DemoSignedUp, Shell!Saved
    <2> QED BY <1>2, <2>1, EndShows, AreasAre
  <1> QED BY <1>4, <1>5, <1>6, <1>7, <1>8, <1>9, <1>10, <1>11, <1>12, <1>13, <1>14, <1>15

(* Every step keeps the invariant.                                         *)
LEMMA ShellInductive == Shell!ConstantTypes /\ ShellInv /\ [Shell!Next]_(Shell!vars) => ShellInv'
  <1> SUFFICES ASSUME Shell!ConstantTypes, ShellInv, [Shell!Next]_(Shell!vars) PROVE ShellInv'
    OBVIOUS
  <1>1. ASSUME NEW lead \in Shell!Leads, Shell!Go(lead[1], lead[2])
        PROVE  ShellInv'
    <2>1. /\ lead[1] \in Shell!Views /\ lead[2] \in Shell!Views /\ lead[1] # "loading"
          /\ lead[2] \in Area => lead[1] \in Area
      BY LeadsKeep
    <2> QED BY <1>1, <2>1, MovesInv DEF Shell!Go, ShellInv, Shell!TypeOK
  <1>2. CASE Shell!MerchantBack
    <2> DEFINE to == IF user # None THEN "settings" ELSE "menu"
    <2>1. Shell!Go("merchant", to) /\ to \in Shell!Views
      BY <1>2, AreasAre DEF Shell!MerchantBack
    <2> HIDE DEF to
    <2> QED BY <2>1, MovesInv, AreasAre DEF Shell!Go, ShellInv, Shell!TypeOK
  <1>3. ASSUME NEW from \in Shell!Views, NEW to \in Shell!Views, Shell!Showcase(from, to)
        PROVE  ShellInv'
    <2>1. /\ view \in {"menu", "settings"} /\ to \in {"universal", "menu"} /\ Shell!Show(to)
          /\ demo' = TRUE /\ UNCHANGED <<booted, user, Shell!device, loads, mingled, opened>>
      BY <1>3 DEF Shell!Showcase
    <2> QED BY <2>1, MovesInv, AreasAre
  <1>4. ASSUME NEW l \in loads, NEW a \in Accounts,
               Shell!DirectorMade(l, a) \/ Shell!SignUpMade(l, a)
        PROVE ShellInv'
    BY <1>4, MadeInv
  <1>5. ASSUME NEW l \in loads, Shell!BeatsOver(l)
        PROVE ShellInv'
    BY <1>5, BeatsInv
  <1>9. CASE Shell!Next
    BY <1>1, <1>2, <1>3, <1>4, <1>5, <1>9, ColdStartInv, ReloadInv, SignOutInv, OpenCircleInv,
       OpenVoiceInv, EnterTourInv, AsksInv, EndsInv
       DEF Shell!Next
  <1>10. CASE UNCHANGED Shell!vars
    BY <1>10 DEF Shell!vars, Shell!device, ShellInv, Shell!TypeOK, ShownInv, ShellAlone, Owned,
                 SavedFor
  <1> QED BY <1>9, <1>10

(* A screen that works on an account has one, and at rest it is the one of *)
(* the session, with its vault on the device (App.tsx).                    *)
THEOREM ShownAccountIsKept ==
  ASSUME Shell!ConstantTypes PROVE Shell!Spec => [](Shell!TypeOK /\ Shell!ViewHasAccount)
  <1>1. Shell!Init => ShellInv
    <2> SUFFICES ASSUME Shell!Init PROVE ShellInv
      OBVIOUS
    <2>1. Shell!TypeOK
      <3>1. view \in Shell!Views /\ opened \in 0..MaxLoads /\ launch \in 0..MaxLoads
        BY AreasAre DEF Shell!Init, Shell!ConstantTypes
      <3> QED BY <3>1 DEF Shell!Init, Shell!TypeOK
    <2>2. ShownInv /\ ShellAlone
      BY AreasAre DEF Shell!Init, ShownInv, ShellAlone
    <2> QED BY <2>1, <2>2 DEF ShellInv
  <1>2. ShellInv /\ [Shell!Next]_(Shell!vars) => ShellInv'
    BY ShellInductive
  <1>3. ShellInv => Shell!TypeOK /\ Shell!ViewHasAccount
    <2> SUFFICES ASSUME ShellInv PROVE Shell!TypeOK /\ Shell!ViewHasAccount
      OBVIOUS
    <2>1. Shell!AccountViews \subseteq Area
      BY DEF Area
    <2> QED BY <2>1 DEF ShellInv, ShownInv, ShellAlone, Shell!ViewHasAccount, Shell!ConstantTypes
  <1> QED BY <1>1, <1>2, <1>3, PTL DEF Shell!Spec

-----------------------------------------------------------------------------
(* A session of the voice assistant (VoiceListen).                         *)

(* The types, with one command told at most counted loosely.               *)
VoiceTyped ==
  /\ engine \in {"off", "on", "stopping", "done"}
  /\ stopped \in BOOLEAN /\ finalized \in BOOLEAN /\ switched \in BOOLEAN
  /\ restarted \in BOOLEAN /\ closed \in BOOLEAN
  /\ heard \in Listen!Transcript \union {None} /\ due \in Listen!Transcript \union {None}
  /\ stableKey \in Commands \union {None}
  /\ set \subseteq {"stable", "commit", "silence", "hard", "switch"}
  /\ told \in [finals : 0..2, right : BOOLEAN]

(* The session is final exactly when it has told one command, the right    *)
(* one.                                                                    *)
ToldInv ==
  /\ told.finals = IF finalized THEN 1 ELSE 0
  /\ told.right
  /\ finalized => stopped
  /\ closed => stopped

(* The timer of a final command is set for what was heard last, and        *)
(* nothing is heard after it.                                              *)
CommitInv ==
  "commit" \in set =>
    /\ due = heard /\ due # None /\ due.command # None
    /\ engine = "done" \/ (engine = "off" /\ Listen!Over)

(* The inductive invariant of a session.                                   *)
VoiceInv == VoiceTyped /\ ToldInv /\ CommitInv

(* A session that finishes tells what was heard last, once.                *)
LEMMA FinishTells ==
  ASSUME VoiceTyped, ToldInv, NEW t, Listen!Finish(t), ~Listen!Over => t = heard, UNCHANGED closed
  PROVE  /\ ToldInv' /\ stopped' \in BOOLEAN /\ finalized' \in BOOLEAN
         /\ told' \in [finals : 0..2, right : BOOLEAN]
         /\ ~Listen!Over => finalized'
         /\ Listen!Over => finalized' = finalized /\ stopped' = stopped
  <1>1. CASE Listen!Over
    BY <1>1 DEF Listen!Finish, VoiceTyped, ToldInv
  <1>2. CASE ~Listen!Over
    <2>1. /\ ~finalized /\ ~stopped /\ ~closed /\ told.finals = 0 /\ told.right
          /\ told' = [finals |-> told.finals + 1, right |-> told.right /\ t = heard /\ ~closed]
          /\ finalized' = TRUE /\ stopped' = TRUE
      BY <1>2 DEF Listen!Finish, Listen!Over, ToldInv, VoiceTyped
    <2>2. told.right /\ t = heard /\ ~closed
      BY <1>2, <2>1
    <2>5. (told.right /\ t = heard /\ ~closed) = TRUE
      BY <2>2, Zenon
    <2>6. told.finals + 1 = 1
      BY <2>1
    <2>3. told' = [finals |-> 1, right |-> TRUE]
      BY <2>1, <2>5, <2>6, Zenon
    <2>4. told'.finals = 1 /\ told'.right /\ told' \in [finals : 0..2, right : BOOLEAN]
      BY <2>3
    <2> QED BY <1>2, <2>1, <2>4 DEF ToldInv
  <1> QED BY <1>1, <1>2

(* One that does not finish tells nothing.                                 *)
LEMMA QuietTells ==
  ASSUME VoiceTyped, ToldInv, Listen!Quiet, UNCHANGED closed
  PROVE  /\ ToldInv' /\ stopped' \in BOOLEAN /\ finalized' \in BOOLEAN
         /\ told' \in [finals : 0..2, right : BOOLEAN]
         /\ finalized' = finalized /\ stopped' = stopped
  BY DEF Listen!Quiet, VoiceTyped, ToldInv

(* A transcript arrives: one that commits is the last.                     *)
LEMMA ResultInv ==
  ASSUME Listen!ConstantTypes, VoiceInv, NEW t \in Listen!Transcript, Listen!Result(t)
  PROVE  VoiceInv'
  <1>1. VoiceTyped /\ ToldInv /\ CommitInv /\ "commit" \notin set
    BY DEF VoiceInv, CommitInv, Listen!Result
  <1>2. /\ ToldInv' /\ stopped' \in BOOLEAN /\ finalized' \in BOOLEAN
        /\ told' \in [finals : 0..2, right : BOOLEAN]
    BY <1>1, QuietTells DEF Listen!Result
  <1>3. /\ t.command \in Commands \union {None} /\ t.final \in BOOLEAN
        /\ t.shaped \in BOOLEAN /\ t.foreign \in BOOLEAN
    BY DEF Listen!Transcript
  <1>4. VoiceTyped'
    BY <1>1, <1>2, <1>3 DEF Listen!Result, VoiceTyped
  <1>5. CASE Listen!Switches(t)
    <2>1. "commit" \notin set'
      BY <1>1, <1>5 DEF Listen!Result
    <2> QED BY <1>2, <1>4, <2>1 DEF VoiceInv, CommitInv
  <1>6. CASE ~Listen!Switches(t) /\ Listen!Commits(t)
    <2>1. due' = t /\ heard' = t /\ t.command # None /\ t.final
      BY <1>6 DEF Listen!Result, Listen!Commits
    <2>2. engine' = "done"
      BY <2>1 DEF Listen!Result, Listen!Switches
    <2>3. CommitInv'
      BY <2>1, <2>2 DEF CommitInv, Listen!ConstantTypes
    <2> QED BY <1>2, <1>4, <2>3 DEF VoiceInv
  <1>7. CASE ~Listen!Switches(t) /\ ~Listen!Commits(t)
    <2>1. "commit" \notin set'
      BY <1>1, <1>7 DEF Listen!Result
    <2> QED BY <1>2, <1>4, <2>1 DEF VoiceInv, CommitInv
  <1> QED BY <1>5, <1>6, <1>7

(* What a timer, an error or the end do once they have told or not.        *)
LEMMA TimerLeaves ==
  ASSUME VoiceInv, Listen!Quiet \/ (\E t : Listen!Finish(t) /\ (~Listen!Over => t = heard)),
         UNCHANGED <<Listen!parsing, closed>>, restarted' \in BOOLEAN,
         engine' \in {"off", "on", "stopping", "done"},
         set' \subseteq set,
         "commit" \in set' /\ engine = "done" =>
           engine' = "done" \/ (engine' = "off" /\ Listen!Over'),
         "commit" \in set' /\ engine = "off" /\ Listen!Over => engine' = "off"
  PROVE  VoiceInv'
  <1>1. VoiceTyped /\ ToldInv /\ CommitInv
    BY DEF VoiceInv
  <1>2. /\ ToldInv' /\ stopped' \in BOOLEAN /\ finalized' \in BOOLEAN
        /\ told' \in [finals : 0..2, right : BOOLEAN]
        /\ Listen!Over => Listen!Over'
    <2>1. CASE Listen!Quiet
      BY <1>1, <2>1, QuietTells DEF Listen!Over
    <2>2. ASSUME NEW t, Listen!Finish(t), ~Listen!Over => t = heard
          PROVE  /\ ToldInv' /\ stopped' \in BOOLEAN /\ finalized' \in BOOLEAN
                 /\ told' \in [finals : 0..2, right : BOOLEAN]
                 /\ Listen!Over => Listen!Over'
      BY <1>1, <2>2, FinishTells DEF Listen!Over
    <2> QED BY <2>1, <2>2
  <1>3. VoiceTyped'
    BY <1>1, <1>2 DEF VoiceTyped, Listen!parsing
  <1>4. CommitInv'
    BY <1>1, <1>2 DEF CommitInv, Listen!parsing
  <1> QED BY <1>2, <1>3, <1>4 DEF VoiceInv

(* The engine is stopped.                                                  *)
LEMMA StoppingIs ==
  ASSUME VoiceTyped, Listen!StopEngine
  PROVE  /\ engine' \in {"off", "on", "stopping", "done"}
         /\ engine = "done" => engine' = "done"
         /\ engine = "off" => engine' = "off"
  BY DEF VoiceTyped, Listen!StopEngine

(* A timer fires,                                                          *)
LEMMA FiresInv ==
  ASSUME VoiceInv, NEW timer \in {"stable", "commit", "silence", "hard"}, Listen!Fires(timer)
  PROVE  VoiceInv'
  <1>1. Listen!Quiet \/ (\E t : Listen!Finish(t) /\ (~Listen!Over => t = heard))
    <2>1. CASE timer = "commit"
      <3>1. Listen!Finish(due) /\ "commit" \in set
        BY <2>1 DEF Listen!Fires
      <3>2. due = heard
        BY <3>1 DEF VoiceInv, CommitInv
      <3> QED BY <3>1, <3>2
    <2>2. CASE timer # "commit"
      <3>1. Listen!Quiet \/ Listen!Finish(heard)
        BY <2>2 DEF Listen!Fires
      <3> QED BY <3>1
    <2> QED BY <2>1, <2>2
  <1>2. /\ engine' \in {"off", "on", "stopping", "done"}
        /\ engine = "done" => engine' = "done"
        /\ engine = "off" => engine' = "off"
    <2>1. Listen!StopEngine \/ engine' = engine
      BY DEF Listen!Fires
    <2> QED BY <2>1, StoppingIs DEF VoiceInv, VoiceTyped
  <1>3. set' \subseteq set /\ restarted' \in BOOLEAN /\ UNCHANGED <<Listen!parsing, closed>>
    BY DEF Listen!Fires, Listen!Left, VoiceInv, VoiceTyped
  <1> QED BY <1>1, <1>2, <1>3, TimerLeaves

(* the engine is switched to the other language,                           *)
LEMMA SwitchFiresInv ==
  ASSUME VoiceInv, Listen!SwitchFires
  PROVE  VoiceInv'
  <1>1. /\ engine' \in {"off", "on", "stopping", "done"}
        /\ engine = "done" => engine' = "done"
        /\ engine = "off" /\ Listen!Over => engine' = "off"
    BY DEF Listen!SwitchFires, VoiceInv, VoiceTyped
  <1>2. /\ set' \subseteq set /\ restarted' \in BOOLEAN /\ UNCHANGED <<Listen!parsing, closed>>
        /\ Listen!Quiet
    BY DEF Listen!SwitchFires, VoiceInv, VoiceTyped
  <1> QED BY <1>1, <1>2, TimerLeaves

(* it errs,                                                                *)
LEMMA EngineErrsInv ==
  ASSUME VoiceInv, NEW silent \in BOOLEAN, Listen!EngineErrs(silent)
  PROVE  VoiceInv'
  <1>1. Listen!Quiet \/ (\E t : Listen!Finish(t) /\ (~Listen!Over => t = heard))
    <2>1. Listen!Quiet \/ Listen!Finish(heard)
      BY DEF Listen!EngineErrs
    <2> QED BY <2>1
  <1>2. engine' \in {"off", "on", "stopping", "done"} /\ "commit" \notin set'
    <2>1. Listen!StopEngine \/ engine' = engine
      BY DEF Listen!EngineErrs
    <2>2. "commit" \notin set'
      BY DEF Listen!EngineErrs
    <2> QED BY <2>1, <2>2, StoppingIs DEF VoiceInv, VoiceTyped
  <1>3. set' \subseteq set /\ restarted' \in BOOLEAN /\ UNCHANGED <<Listen!parsing, closed>>
    BY DEF Listen!EngineErrs, VoiceInv, VoiceTyped
  <1> QED BY <1>1, <1>2, <1>3, TimerLeaves

(* or it ends: it is not started again once a command is due.              *)
LEMMA EngineEndsInv ==
  ASSUME VoiceInv, NEW starts \in BOOLEAN, Listen!EngineEnds(starts)
  PROVE  VoiceInv'
  <1> DEFINE again == ~Listen!Over /\ heard # None /\ heard.command = None /\ ~restarted
  <1>1. /\ engine # "off" /\ restarted' = (restarted \/ again)
        /\ engine' = IF again /\ starts THEN "on" ELSE "off"
        /\ IF heard = None \/ (again /\ starts) THEN Listen!Quiet ELSE Listen!Finish(heard)
        /\ Listen!Left({}) /\ UNCHANGED <<Listen!parsing, closed>>
    BY DEF Listen!EngineEnds
  <1>2. again \in BOOLEAN
    BY Zenon
  <1>3. "commit" \in set => ~again /\ heard # None
    BY DEF VoiceInv, CommitInv
  <1> HIDE DEF again
  <1>4. engine' \in {"off", "on", "stopping", "done"}
    BY <1>1
  <1>5. Listen!Quiet \/ Listen!Finish(heard)
    BY <1>1
  <1>6. Listen!Quiet \/ (\E t : Listen!Finish(t) /\ (~Listen!Over => t = heard))
    BY <1>5
  <1>7. set' \subseteq set
    BY <1>1 DEF Listen!Left
  <1>8. restarted' \in BOOLEAN
    BY <1>1, <1>2 DEF VoiceInv, VoiceTyped
  <1>9. "commit" \in set' => engine' = "off" /\ Listen!Over'
    <2> SUFFICES ASSUME "commit" \in set' PROVE engine' = "off" /\ Listen!Over'
      OBVIOUS
    <2>1. ~again /\ heard # None
      BY <1>3, <1>7
    <2>2. engine' = "off" /\ Listen!Finish(heard)
      BY <1>1, <2>1
    <2>3. Listen!Over'
      BY <2>2 DEF Listen!Finish, Listen!Over
    <2> QED BY <2>2, <2>3
  <1> QED BY <1>1, <1>4, <1>6, <1>7, <1>8, <1>9, TimerLeaves

(* The caller stops the session.                                           *)
LEMMA StopInv ==
  ASSUME VoiceInv, Listen!Stop
  PROVE  VoiceInv'
  <1>1. /\ engine' \in {"off", "on", "stopping", "done"}
        /\ "commit" \notin set' /\ set' \subseteq set
        /\ stopped' = TRUE /\ closed' = TRUE
        /\ UNCHANGED <<finalized, told, Listen!parsing, restarted>>
    BY StoppingIs DEF Listen!Stop, VoiceInv
  <1> QED BY <1>1 DEF VoiceInv, VoiceTyped, ToldInv, CommitInv, Listen!parsing

(* Every step keeps the invariant.                                         *)
LEMMA VoiceInductive == Listen!ConstantTypes /\ VoiceInv /\ [Listen!Next]_(Listen!vars) => VoiceInv'
  <1> SUFFICES ASSUME Listen!ConstantTypes, VoiceInv, [Listen!Next]_(Listen!vars) PROVE VoiceInv'
    OBVIOUS
  <1>1. CASE Listen!Next
    BY <1>1, ResultInv, FiresInv, SwitchFiresInv, EngineErrsInv, EngineEndsInv, StopInv
       DEF Listen!Next
  <1>2. CASE UNCHANGED Listen!vars
    BY <1>2 DEF Listen!vars, VoiceInv, VoiceTyped, ToldInv, CommitInv, Listen!Over
  <1> QED BY <1>1, <1>2

(* A session of the voice assistant tells one command, the one that was    *)
(* heard last, and none once it was stopped (voice.ts).                    *)
THEOREM OneCommandIsTold ==
  ASSUME Listen!ConstantTypes PROVE Listen!Spec => [](Listen!TypeOK /\ Listen!OneRightCommand)
  <1>1. Listen!Init => VoiceInv
    <2> SUFFICES ASSUME Listen!Init PROVE VoiceInv
      OBVIOUS
    <2> USE DEF Listen!Init
    <2>1. told \in [finals : 0..2, right : BOOLEAN] /\ told.finals = 0 /\ told.right
      OBVIOUS
    <2>2. "commit" \notin set
      OBVIOUS
    <2>3. VoiceTyped
      BY <2>1 DEF VoiceTyped
    <2> QED BY <2>1, <2>2, <2>3 DEF VoiceInv, ToldInv, CommitInv
  <1>2. VoiceInv /\ [Listen!Next]_(Listen!vars) => VoiceInv'
    BY VoiceInductive
  <1>3. VoiceInv => Listen!TypeOK /\ Listen!OneRightCommand
    BY DEF VoiceInv, VoiceTyped, ToldInv, Listen!TypeOK, Listen!OneRightCommand
  <1> QED BY <1>1, <1>2, <1>3, PTL DEF Listen!Spec

-----------------------------------------------------------------------------
(* The composition.                                                        *)

(* Every behavior of the composition is one of each of its parts.          *)
LEMMA ClientParts ==
  ClientSpec => Spec /\ Sheet!Spec /\ Demo!Spec /\ Shell!Spec /\ Listen!Spec
  <1>1. ClientInit => Init /\ Sheet!Init /\ Demo!Init /\ Shell!Init /\ Listen!Init
    BY DEF ClientInit
  <1>2. [WalletStep \/ ScreenStep]_allVars => [Next]_vars /\ [Sheet!Next]_(Sheet!vars)
    BY DEF WalletStep, ScreenStep, screens, allVars, vars, sheetVars, Sheet!vars
  <1>3. [WalletStep \/ ScreenStep]_allVars => [Demo!Next]_(Demo!vars) /\ [Shell!Next]_(Shell!vars)
    BY DEF WalletStep, ScreenStep, screens, allVars, demoVars, Demo!vars, shellVars, Shell!vars,
           Shell!device
  <1>4. [WalletStep \/ ScreenStep]_allVars => [Listen!Next]_(Listen!vars)
    BY DEF WalletStep, ScreenStep, screens, allVars, voiceVars, Listen!vars
  <1> QED BY <1>1, <1>2, <1>3, <1>4, PTL
        DEF ClientSpec, Spec, Sheet!Spec, Demo!Spec, Shell!Spec, Listen!Spec

Parts == {"wallet", "sheet", "demo", "shell", "voice"}

(* The part that runs is one of the five, and stays the one.               *)
LEMMA PartIsOne == ClientSpec => [](part \in Parts)
  <1>1. ClientInit => part \in Parts
    BY DEF ClientInit, Parts
  <1>2. part \in Parts /\ [WalletStep \/ ScreenStep]_allVars => (part \in Parts)'
    BY DEF WalletStep, ScreenStep, screens, allVars
  <1> QED BY <1>1, <1>2, PTL DEF ClientSpec

(* The variables of the part that runs have their types.                   *)
THEOREM ClientTyping == ASSUME ClientConstants PROVE ClientSpec => []ClientTypes
  <1>1. Sheet!Spec => [](Sheet!TypeOK /\ Sheet!AcceptedIsGated)
    BY AcceptedWasGated DEF ClientConstants
  <1>2. Demo!Spec => [](Demo!TypeOK /\ Demo!ScreenTellsTruth)
    BY DemoIsTruthful DEF ClientConstants
  <1>3. Shell!Spec => [](Shell!TypeOK /\ Shell!ViewHasAccount)
    BY ShownAccountIsKept DEF ClientConstants
  <1>4. Listen!Spec => [](Listen!TypeOK /\ Listen!OneRightCommand)
    BY OneCommandIsTold DEF ClientConstants
  <1>5. /\ part \in Parts /\ TypeOK /\ Sheet!TypeOK /\ Demo!TypeOK /\ Shell!TypeOK
        /\ Listen!TypeOK
        => ClientTypes
    BY DEF Parts, ClientTypes
  <1> QED BY <1>1, <1>2, <1>3, <1>4, <1>5, WalletTyping, ClientParts, PartIsOne, PTL

(* The balance on the device is right at rest as long as nothing strayed,  *)
(* and nothing is deducted that the server did not settle, beside the      *)
(* other parts (payments.ts, pendingApply.ts).                             *)
THEOREM PaymentsKeep == ClientSpec => []PaymentsAreKept
  BY PaymentsStayKept, ClientParts, PTL

(* What goes to the server was accepted on the sheet and gated.            *)
THEOREM AcceptedKeeps == ASSUME ClientConstants PROVE ClientSpec => []AcceptedIsGated
  <1>1. Sheet!Spec => [](Sheet!TypeOK /\ Sheet!AcceptedIsGated)
    BY AcceptedWasGated DEF ClientConstants
  <1> QED BY <1>1, ClientParts, PTL DEF AcceptedIsGated

(* The screen of the adapter says what the server did, and the voice       *)
(* assistant tells the one command that was heard last.                    *)
THEOREM TruthKeeps == ASSUME ClientConstants PROVE ClientSpec => []TellsTheTruth
  <1>1. Demo!Spec => [](Demo!TypeOK /\ Demo!ScreenTellsTruth)
    BY DemoIsTruthful DEF ClientConstants
  <1>2. Listen!Spec => [](Listen!TypeOK /\ Listen!OneRightCommand)
    BY OneCommandIsTold DEF ClientConstants
  <1> QED BY <1>1, <1>2, ClientParts, PTL DEF TellsTheTruth

(* A screen that works on an account has one, the one of the session.      *)
THEOREM AccountKeeps == ASSUME ClientConstants PROVE ClientSpec => []ViewHasAccount
  <1>1. Shell!Spec => [](Shell!TypeOK /\ Shell!ViewHasAccount)
    BY ShownAccountIsKept DEF ClientConstants
  <1> QED BY <1>1, ClientParts, PTL DEF ViewHasAccount
=============================================================================
