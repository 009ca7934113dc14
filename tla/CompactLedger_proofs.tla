------------------------ MODULE CompactLedger_proofs ------------------------
(***************************************************************************)
(* Proofs about CompactLedger for any calls, roots and leaves.             *)
(*                                                                         *)
(* The inductive invariant is CompactInv:                                  *)
(*   QueueInv   what a call may still have in the chain, by where it       *)
(*              stands: each circuit of a call is in the chain once, and   *)
(*              not after it has run;                                      *)
(*   FileInv    the file has each circuit of a call at most once, and      *)
(*              every circuit a live call has run;                         *)
(*   ReplayInv  the contract in memory is what the file replays to;        *)
(*   RootInv    the remembered root is the contract's, or a continuation   *)
(*              waits that will set it;                                    *)
(*   AloneInv   what a call nobody overlaps has for itself.                *)
(* The lemmas go through the steps in the order of the module; the turn of *)
(* a circuit comes last, cut into what it does to each of these parts.     *)
(***************************************************************************)
EXTENDS CompactLedger, WellFoundedInduction, FiniteSetTheorems, TLAPS

-----------------------------------------------------------------------------
(* The replay: the contract after each prefix of a file.                   *)

(* A set of numbers that is not empty has a least one.                     *)
LEMMA LeastIs ==
  ASSUME NEW F, F \subseteq Nat, F # {}
  PROVE  \E i \in F : \A j \in F : i <= j
  <1>1. PICK i \in F : \A j \in F : ~(<<j, i>> \in OpToRel(<, Nat))
    BY NatLessThanWellFounded, WFMin
  <1>2. ASSUME NEW j \in F PROVE i <= j
    <2>1. j \in Nat /\ i \in Nat /\ <<j, i>> \notin OpToRel(<, Nat)
      BY <1>1
    <2>2. <<j, i>> \in Nat \X Nat /\ <<j, i>>[1] = j /\ <<j, i>>[2] = i
      BY <2>1
    <2>3. ~(<<j, i>>[1] < <<j, i>>[2])
      BY <2>1, <2>2, Zenon DEF OpToRel
    <2>4. ~(j < i)
      BY <2>2, <2>3, Zenon
    <2>5. j \in Nat /\ i \in Nat
      OBVIOUS
    <2> QED BY <2>4, <2>5
  <1> QED BY <1>2

(* f is the contract after each of the first n steps.                      *)
Follows(f, steps, n) ==
  f = [i \in 0..n |-> IF i = 0 THEN Genesis ELSE Applied(f[i - 1], steps[i])]

(* The states, taken one at a time.                                        *)
LEMMA FollowsOne ==
  ASSUME NEW steps, NEW n \in Nat, NEW f, Follows(f, steps, n)
  PROVE  f[0] = Genesis /\ \A i \in 1..n : f[i] = Applied(f[i - 1], steps[i])
BY DEF Follows

(* Two files that agree so far have led to the same contract.              *)
LEMMA FollowsAgree ==
  ASSUME NEW k \in Nat, NEW s, NEW t, NEW f, NEW g,
         Follows(f, s, k), Follows(g, t, k + 1), \A i \in 1..k : t[i] = s[i]
  PROVE  \A i \in 0..k : g[i] = f[i]
<1> DEFINE F == {i \in 0..k : f[i] # g[i]}
<1> SUFFICES ASSUME F # {} PROVE FALSE
  OBVIOUS
<1>1. F \subseteq Nat
  OBVIOUS
<1>2. PICK i \in F : \A j \in F : i <= j
  BY <1>1, LeastIs
<1>3. i \in 0..k /\ f[i] # g[i]
  OBVIOUS
<1>4. i # 0
  <2>1. k + 1 \in Nat
    OBVIOUS
  <2>2. f[0] = Genesis
    BY FollowsOne
  <2>3. g[0] = Genesis
    BY <2>1, FollowsOne
  <2> QED BY <1>3, <2>2, <2>3
<1>5. i - 1 \in 0..k /\ i - 1 \notin F
  BY <1>2, <1>3, <1>4
<1>6. f[i - 1] = g[i - 1]
  BY <1>5
<1>7. i \in 1..k /\ i \in 1..(k + 1) /\ k + 1 \in Nat
  BY <1>3, <1>4
<1>8. f[i] = Applied(f[i - 1], s[i]) /\ g[i] = Applied(g[i - 1], t[i])
  BY <1>7, FollowsOne
<1> QED BY <1>3, <1>6, <1>7, <1>8

(* There are such states, however many steps are taken.                    *)
LEMMA FollowsExists == ASSUME NEW steps PROVE \A n \in Nat : \E f : Follows(f, steps, n)
<1> DEFINE F == {n \in Nat : ~\E f : Follows(f, steps, n)}
<1> SUFFICES ASSUME F # {} PROVE FALSE
  OBVIOUS
<1>1. PICK n \in F : \A j \in F : n <= j
  BY LeastIs
<1>2. n \in Nat /\ ~\E f : Follows(f, steps, n)
  OBVIOUS
<1>3. CASE n = 0
  <2> DEFINE f == [i \in 0..0 |-> Genesis]
  <2>1. f = [i \in 0..0 |-> IF i = 0 THEN Genesis ELSE Applied(f[i - 1], steps[i])]
    OBVIOUS
  <2>2. Follows(f, steps, 0)
    BY <2>1 DEF Follows
  <2> QED BY <1>2, <1>3, <2>2
<1>4. CASE n # 0
  <2>1. n - 1 \in Nat /\ n - 1 \notin F
    BY <1>1, <1>2, <1>4
  <2>2. PICK g : Follows(g, steps, n - 1)
    BY <2>1
  <2> DEFINE f == [i \in 0..n |-> IF i = n THEN Applied(g[n - 1], steps[n]) ELSE g[i]]
  <2>3. g[0] = Genesis /\ \A i \in 1..(n - 1) : g[i] = Applied(g[i - 1], steps[i])
    BY <2>1, <2>2, FollowsOne
  <2>4. ASSUME NEW i \in 0..n
        PROVE  f[i] = IF i = 0 THEN Genesis ELSE Applied(f[i - 1], steps[i])
    <3>1. CASE i = n
      BY <3>1, <1>2, <1>4
    <3>2. CASE i # n /\ i # 0
      <4>1. i \in 1..(n - 1) /\ i - 1 \in 0..n /\ i - 1 # n
        BY <3>2, <1>2
      <4>2. f[i] = g[i] /\ f[i - 1] = g[i - 1]
        BY <4>1, <3>2
      <4> HIDE DEF f
      <4> QED BY <2>3, <4>1, <4>2, <3>2
    <3>3. CASE i # n /\ i = 0
      BY <3>3, <2>3
    <3> QED BY <3>1, <3>2, <3>3
  <2>5. f = [i \in 0..n |-> f[i]]
    OBVIOUS
  <2> HIDE DEF f
  <2>6. Follows(f, steps, n)
    BY <2>4, <2>5, Zenon DEF Follows
  <2> QED BY <1>2, <2>6
<1> QED BY <1>3, <1>4

(* The states of the model are such states.                                *)
LEMMA StatesFollow == ASSUME NEW steps, Len(steps) \in Nat
                      PROVE  Follows(States(steps), steps, Len(steps))
<1>1. \E f : Follows(f, steps, Len(steps))
  BY FollowsExists
<1> QED BY <1>1 DEF States, Follows

(* What replaying a file and one more step makes of the contract.          *)
LEMMA ReplayEmpty == Replay(<<>>) = Genesis /\ Replays(<<>>)
<1>1. Len(<<>>) = 0
  OBVIOUS
<1>2. States(<<>>)[0] = Genesis
  <2> DEFINE f == States(<<>>)
  <2>1. Follows(f, <<>>, 0)
    BY <1>1, StatesFollow
  <2> HIDE DEF f
  <2> QED BY <2>1 DEF Follows
<1> QED BY <1>1, <1>2 DEF Replay, Replays

(* A circuit more in the file is a circuit more on the contract, and the   *)
(* file replays if it did before and the circuit is accepted.              *)
LEMMA ReplayOneMore ==
  ASSUME NEW S, NEW steps \in Seq(S), NEW x \in S
  PROVE  /\ Replay(Append(steps, x)) = Applied(Replay(steps), x)
         /\ Replays(Append(steps, x)) <=> Replays(steps) /\ Accepts(Replay(steps), x)
<1> DEFINE more == Append(steps, x)
<1> DEFINE k == Len(steps)
<1>1. /\ more \in Seq(S) /\ Len(more) = k + 1 /\ k \in Nat /\ more[k + 1] = x
      /\ \A i \in 1..k : more[i] = steps[i]
  OBVIOUS
<1>0. Len(steps) = k
  OBVIOUS
<1> HIDE DEF more, k
<1>2. Follows(States(steps), steps, k) /\ Follows(States(more), more, k + 1)
  <2>1. Len(steps) \in Nat /\ Len(more) \in Nat
    BY <1>0, <1>1
  <2>2. Follows(States(steps), steps, Len(steps)) /\ Follows(States(more), more, Len(more))
    BY <2>1, StatesFollow
  <2> QED BY <1>0, <1>1, <2>2
<1>3. \A i \in 0..k : States(more)[i] = States(steps)[i]
  <2>1. \A i \in 1..k : more[i] = steps[i]
    BY <1>1
  <2>2. k \in Nat
    BY <1>1
  <2> DEFINE f == States(steps)
             g == States(more)
  <2>3. Follows(f, steps, k) /\ Follows(g, more, k + 1)
    BY <1>2
  <2> HIDE DEF f, g
  <2>4. \A i \in 0..k : g[i] = f[i]
    BY <2>1, <2>2, <2>3, FollowsAgree
  <2> QED BY <2>4 DEF f, g
<1>4. States(more)[k + 1] = Applied(States(more)[k], x)
  <2>1. k + 1 \in 1..(k + 1) /\ (k + 1) - 1 = k /\ k + 1 \in Nat
    BY <1>1
  <2> QED BY <1>1, <1>2, <2>1, FollowsOne
<1>5. Replay(more) = Applied(Replay(steps), x)
  BY <1>1, <1>3, <1>4 DEF Replay, k
<1>6. ASSUME NEW n \in 1..k
      PROVE  Accepts(States(more)[n - 1], more[n]) <=> Accepts(States(steps)[n - 1], steps[n])
  <2>1. n - 1 \in 0..k
    BY <1>1
  <2> QED BY <1>1, <1>3, <2>1
<1>7. Accepts(States(more)[(k + 1) - 1], more[k + 1]) <=> Accepts(Replay(steps), x)
  <2>1. (k + 1) - 1 = k /\ k \in 0..k
    BY <1>1
  <2> QED BY <1>1, <1>3, <2>1 DEF Replay, k
<1>8. 1..Len(more) = (1..k) \union {k + 1}
  BY <1>1
<1>9. Replays(more) <=> Replays(steps) /\ Accepts(Replay(steps), x)
  BY <1>6, <1>7, <1>8 DEF Replays, k
<1> QED BY <1>5, <1>9 DEF more

-----------------------------------------------------------------------------
(* The inductive invariant.                                                *)

(* The circuits that are not proofs.                                       *)
Publish == {"publish_kyc_root", "publish_kyc_leaf"}

(* The circuits of a call of that kind.                                    *)
PipelineOf(r) == ToSet(Pipeline[r.kind])

(* The file has the circuit of the call.                                   *)
Recorded(c, k) == \E n \in 1..Len(persisted) : persisted[n].call = c /\ persisted[n].circuit = k

(* The circuits a call has run, and those it may have in the chain, by     *)
(* where it stands.                                                        *)
Standing(r) ==
  /\ r.at \in {"root", "leaf", "synced"} =>
       /\ r.kind \in KycKinds /\ ~r.broke /\ r.done \subseteq Publish
       /\ r.at = "root" => "publish_kyc_leaf" \notin r.done
  /\ r.at = "answered" => PipelineOf(r) \subseteq r.done
MayRun(k, r) ==
  /\ k \notin r.done
  /\ \/ k = "publish_kyc_root" /\ r.at = "root"
     \/ k = "publish_kyc_leaf" /\ r.at = "leaf"
     \/ k \in PipelineOf(r) /\ r.at \in {"proving", "refused"}

(* What is in the chain are circuits of calls that may still run them,     *)
MayQueue(q, cs) == \A n \in 1..Len(q) : cs[q[n].call] # None /\ MayRun(q[n].circuit, cs[q[n].call])

(* and nothing is in it twice.                                             *)
OnceEach(q) == \A m, n \in 1..Len(q) : q[m] = q[n] => m = n

(* The chain of circuits, and the calls.                                   *)
QueueInv ==
  /\ \A c \in Calls : call[c] # None => Standing(call[c])
  /\ MayQueue(queue, call) /\ OnceEach(queue)
  /\ staged # None => queue # <<>>

(* The file: each circuit of a call at most once, of its root and leaf.    *)
FileInv ==
  /\ \A n \in 1..Len(persisted) :
       LET s == persisted[n] IN
         /\ call[s.call] # None /\ s.circuit \in call[s.call].done
         /\ s.root = call[s.call].root /\ s.leaf = call[s.call].leaf
  /\ \A m, n \in 1..Len(persisted) :
       persisted[m].call = persisted[n].call /\ persisted[m].circuit = persisted[n].circuit
         => m = n
  /\ \A c \in Calls : call[c] # None /\ (~torn \/ Live(c)) =>
       \A k \in call[c].done : Recorded(c, k)

(* The contract in memory, and the file.                                   *)
ReplayInv ==
  /\ ReplayRestores /\ Replay(persisted) \in Ledger
  /\ InsertedLeaves = Replay(persisted).tree

(* Continuations wait in the order of their circuits, and the root last    *)
(* remembered is the root last published unless one of them waits.         *)
LastPublished(n) ==
  n \in 1..Len(persisted) /\ Publishes(n) /\ \A m \in 1..Len(persisted) : Publishes(m) => m <= n
Waits(r) == r # None /\ r.at = "root" /\ "publish_kyc_root" \in r.done
RootInv ==
  /\ \A m, n \in 1..Len(persisted) :
       m < n /\ Publishes(m) /\ Publishes(n) /\ Waits(call[persisted[m].call])
         => Waits(call[persisted[n].call])
  /\ lastRoot # None => \E n \in 1..Len(persisted) : Publishes(n)
  /\ \A n \in 1..Len(persisted) : LastPublished(n) =>
       /\ Replay(persisted).root = persisted[n].root
       /\ lastRoot \in {None, persisted[n].root} \/ Waits(call[persisted[n].call])

(* A call nobody overlaps has the chain, the bag and the contract for      *)
(* itself.                                                                 *)
Alone(c) == Live(c) /\ call[c].alone
Ahead(r, now) ==
  /\ r.at = "root" /\ "publish_kyc_root" \in r.done => now.root = r.root
  /\ r.at = "root" /\ r.ready => r.leaf \in now.tree
  /\ r.at = "leaf" => now.root = r.root
  /\ r.at = "leaf" /\ "publish_kyc_leaf" \in r.done => r.leaf \in now.tree
  /\ r.at \in {"synced", "proving"} /\ r.kind \in KycKinds =>
       now.root = r.root /\ r.leaf \in now.tree
Holds(c, r, b) ==
  r.at = "proving" => \A k \in PipelineOf(r) \intersect Committed : b[SlotOf[k]] = c

(* An undisturbed call is not refused by a circuit, and as long as it      *)
(* lives what the next circuit asserts is so.                              *)
AloneInv ==
  /\ \A c \in Calls : call[c] # None /\ call[c].alone => call[c].why # "circuit"
  /\ \A c \in Calls : Alone(c) =>
       /\ ~call[c].broke
       /\ \A d \in Calls : Live(d) => d = c
       /\ \A n \in 1..Len(queue) : queue[n].call = c
       /\ Ahead(call[c], Replay(persisted))
       /\ Holds(c, call[c], bag) /\ (staged # None => Holds(c, call[c], staged))

(* The inductive invariant.                                                *)
CompactInv == TypeOK /\ QueueInv /\ FileInv /\ ReplayInv /\ RootInv /\ AloneInv

-----------------------------------------------------------------------------

(* The sets of circuits, and how they overlap.                             *)
LEMMA ProofsAre ==
  /\ Witnessed \subseteq Proofs /\ Members \subseteq Proofs /\ Committed \subseteq Witnessed
  /\ \A k \in Witnessed : SlotOf[k] \in Slots
  /\ Proofs \subseteq Circuits /\ Publish \subseteq Circuits /\ Proofs \intersect Publish = {}
  /\ Circuits = Proofs \union Publish
<1>1. Witnessed = {"prove_policy_update", "prove_spend_update", "prove_credit_update",
                   "prove_collateral_lock", "prove_pool_deposit", "prove_loan_repayment",
                   "prove_credit_standing", "prove_strategy_commitment"}
  BY DEF Witnessed, SlotOf
<1>2. \A k \in Witnessed : SlotOf[k] \in Slots
  BY DEF Slots
<1>3. Circuits = Proofs \union Publish
  BY DEF Circuits, Publish
<1>4. Proofs \intersect Publish = {}
  BY <1>1 DEF Proofs, Publish, Members
<1> QED BY <1>2, <1>3, <1>4 DEF Proofs, Committed

(* A line of one circuit.                                                  *)
LEMMA SingleLine ==
  ASSUME NEW k
  PROVE  /\ <<k>> \in Seq({k}) /\ ToSet(<<k>>) = {k}
         /\ \A m, n \in 1..Len(<<k>>) : <<k>>[m] = <<k>>[n] => m = n
BY DEF ToSet

(* The line of a payment has three different circuits.                     *)
LEMMA PaymentLine ==
  /\ Pipeline["payment"] =
       <<"prove_recipient_valid", "prove_policy_update", "prove_spend_update">>
  /\ ToSet(Pipeline["payment"]) =
       {"prove_recipient_valid", "prove_policy_update", "prove_spend_update"}
  /\ Pipeline["payment"] \in Seq(Proofs)
  /\ \A m, n \in 1..Len(Pipeline["payment"]) :
       Pipeline["payment"][m] = Pipeline["payment"][n] => m = n
<1> DEFINE p == <<"prove_recipient_valid", "prove_policy_update", "prove_spend_update">>
<1>1. /\ Pipeline["payment"] = p
      /\ p = <<"prove_recipient_valid", "prove_policy_update", "prove_spend_update">>
  BY DEF Pipeline
<1>2. /\ Len(p) = 3 /\ p[1] = "prove_recipient_valid" /\ p[2] = "prove_policy_update"
      /\ p[3] = "prove_spend_update"
  OBVIOUS
<1>3. p \in Seq({"prove_recipient_valid", "prove_policy_update", "prove_spend_update"})
  OBVIOUS
<1>4. {"prove_recipient_valid", "prove_policy_update", "prove_spend_update"} \subseteq Proofs
  BY DEF Proofs, Witnessed, SlotOf, Members
<1>5. p \in Seq(Proofs)
  BY <1>3, <1>4
<1>6. DOMAIN p = 1..3
  OBVIOUS
<1> HIDE DEF p
<1>7. ToSet(p) = {"prove_recipient_valid", "prove_policy_update", "prove_spend_update"}
  BY <1>2, <1>6 DEF ToSet
<1>8. \A m, n \in 1..Len(p) : p[m] = p[n] => m = n
  BY <1>2
<1> QED BY <1>1, <1>5, <1>7, <1>8

(* Every other kind of call runs one proof.                                *)
LEMMA SinglesAre ==
  ASSUME NEW kind \in DOMAIN Pipeline, kind # "payment"
  PROVE  \E k \in Proofs : /\ Pipeline[kind] = <<k>> /\ (k \in Members => kind = "session")
                           /\ (kind = "session" => k \notin Witnessed)
<1>1. kind \in {"session", "route", "credit", "lock", "deposit", "repay", "standing",
                "strategy"}
  BY DEF Pipeline
<1>2. /\ Pipeline["session"] = <<"prove_session_auth">>
      /\ Pipeline["route"] = <<"prove_authorized_transaction">>
      /\ Pipeline["credit"] = <<"prove_credit_update">>
      /\ Pipeline["lock"] = <<"prove_collateral_lock">>
      /\ Pipeline["deposit"] = <<"prove_pool_deposit">>
      /\ Pipeline["repay"] = <<"prove_loan_repayment">>
      /\ Pipeline["standing"] = <<"prove_credit_standing">>
      /\ Pipeline["strategy"] = <<"prove_strategy_commitment">>
  BY DEF Pipeline
<1>3. {"prove_session_auth", "prove_authorized_transaction", "prove_credit_update",
       "prove_collateral_lock", "prove_pool_deposit", "prove_loan_repayment",
       "prove_credit_standing", "prove_strategy_commitment"} \subseteq Proofs
  BY DEF Proofs, Witnessed, SlotOf, Members
<1>4. "prove_session_auth" \notin Witnessed
  BY DEF Witnessed, SlotOf
<1>5. {"prove_authorized_transaction", "prove_credit_update",
       "prove_collateral_lock", "prove_pool_deposit", "prove_loan_repayment",
       "prove_credit_standing", "prove_strategy_commitment"} \intersect Members = {}
  BY DEF Members
<1> HIDE DEF Pipeline
<1> QED BY <1>1, <1>2, <1>3, <1>4, <1>5

(* The circuits of a kind of call.                                         *)
LEMMA LinesAre ==
  ASSUME NEW kind \in DOMAIN Pipeline
  PROVE  /\ Pipeline[kind] \in Seq(Proofs) /\ ToSet(Pipeline[kind]) \subseteq Proofs
         /\ ToSet(Pipeline[kind]) \intersect Publish = {}
         /\ \A m, n \in 1..Len(Pipeline[kind]) : Pipeline[kind][m] = Pipeline[kind][n] => m = n
         /\ \A n \in 1..Len(Pipeline[kind]) : Pipeline[kind][n] \in ToSet(Pipeline[kind])
         /\ kind \notin KycKinds => ToSet(Pipeline[kind]) \intersect Members = {}
         /\ kind = "payment" => \A k \in ToSet(Pipeline[kind]) \intersect Committed :
                                  SlotOf[k] = "spend"
         /\ kind = "session" => ToSet(Pipeline[kind]) \intersect Committed = {}
<1>1. CASE kind = "payment"
  <2>1. ToSet(Pipeline[kind]) \subseteq Proofs
    BY <1>1, PaymentLine DEF Proofs, Witnessed, SlotOf, Members
  <2>2. \A k \in ToSet(Pipeline[kind]) \intersect Committed : SlotOf[k] = "spend"
    BY <1>1, PaymentLine DEF Committed, Witnessed, SlotOf
  <2>3. \A n \in 1..Len(Pipeline[kind]) : Pipeline[kind][n] \in ToSet(Pipeline[kind])
    <3>1. DOMAIN Pipeline[kind] = 1..Len(Pipeline[kind])
      BY <1>1, PaymentLine
    <3> QED BY <3>1 DEF ToSet
  <2>4. kind \in KycKinds /\ kind # "session"
    BY <1>1 DEF KycKinds
  <2> QED BY <1>1, <2>1, <2>2, <2>3, <2>4, PaymentLine, ProofsAre
<1>2. CASE kind # "payment"
  <2>1. PICK k \in Proofs : /\ Pipeline[kind] = <<k>> /\ (k \in Members => kind = "session")
                            /\ (kind = "session" => k \notin Witnessed)
    BY <1>2, SinglesAre
  <2>2. /\ ToSet(Pipeline[kind]) = {k} /\ Pipeline[kind] \in Seq({k})
        /\ \A m, n \in 1..Len(Pipeline[kind]) : Pipeline[kind][m] = Pipeline[kind][n] => m = n
    BY <2>1, SingleLine
  <2>3. \A n \in 1..Len(Pipeline[kind]) : Pipeline[kind][n] \in ToSet(Pipeline[kind])
    BY <2>2
  <2>4. Pipeline[kind] \in Seq(Proofs)
    BY <2>2
  <2>5. kind = "session" => kind \in KycKinds
    BY DEF KycKinds
  <2> QED BY <1>2, <2>1, <2>2, <2>3, <2>4, <2>5, ProofsAre
<1> QED BY <1>1, <1>2

-----------------------------------------------------------------------------
(* The fields of a call, after each kind of change of it.                  *)

(* The fields of a call, and what is not one.                              *)
LEMMA CallFields ==
  ASSUME NEW r \in CallRecord
  PROVE  /\ r.at \in Ats /\ r.kind \in Kinds /\ r.root \in Roots /\ r.leaf \in Leaves
         /\ r.ready \in BOOLEAN /\ r.done \subseteq Circuits /\ r.broke \in BOOLEAN
         /\ r.why \in {"none", "circuit", "balance", "zk"} /\ r.alone \in BOOLEAN
         /\ (ConstantTypes => r # None)
BY DEF CallRecord, ConstantTypes

(* What a change of a call that moves on leaves alone.                     *)
SameButAt(s, r) ==
  /\ s.kind = r.kind /\ s.root = r.root /\ s.leaf = r.leaf /\ s.ready = r.ready
  /\ s.done = r.done /\ s.broke = r.broke /\ s.alone = r.alone
SameButRun(s, r) ==
  /\ s.at = r.at /\ s.why = r.why /\ s.kind = r.kind /\ s.root = r.root
  /\ s.leaf = r.leaf /\ s.ready = r.ready /\ s.alone = r.alone

(* A call that moves on.                                                   *)
LEMMA CallMoves ==
  ASSUME ConstantTypes, TypeOK, NEW c \in Calls, call[c] # None, NEW a \in Ats,
         call' = [call EXCEPT ![c].at = a]
  PROVE  /\ call' \in [Calls -> CallRecord \union {None}]
         /\ call'[c] # None /\ call'[c].at = a /\ call'[c].why = call[c].why
         /\ SameButAt(call'[c], call[c])
         /\ \A d \in Calls \ {c} : call'[d] = call[d]
<1>1. call \in [Calls -> CallRecord \union {None}] /\ call[c] \in CallRecord
  BY DEF TypeOK
<1> DEFINE r == [call[c] EXCEPT !.at = a]
           goal(s) == s \in CallRecord /\ s.at = a /\ s.why = call[c].why /\ SameButAt(s, call[c])
<1>2. goal(r)
  BY <1>1 DEF CallRecord, Ats, SameButAt, SameButRun
<1>3. call' = [call EXCEPT ![c] = r]
  BY <1>1
<1>4. None \notin CallRecord
  BY DEF ConstantTypes
<1> HIDE DEF r
<1>5. call' \in [Calls -> {None, r} \union CallRecord] /\ call'[c] = r
      /\ \A d \in Calls \ {c} : call'[d] = call[d]
  BY <1>1, <1>3
<1>6. r \in CallRecord
  BY <1>2
<1>7. {None, r} \union CallRecord = CallRecord \union {None}
  BY <1>6
<1> HIDE DEF goal
<1>8. goal(call'[c])
  BY <1>2, <1>5
<1> QED BY <1>4, <1>5, <1>6, <1>7, <1>8 DEF goal

(* A call that is refused.                                                 *)
LEMMA CallRefuses ==
  ASSUME ConstantTypes, TypeOK, NEW c \in Calls, call[c] # None,
         NEW w \in {"circuit", "balance", "zk"},
         call' = [call EXCEPT ![c].at = "refused", ![c].why = w]
  PROVE  /\ call' \in [Calls -> CallRecord \union {None}]
         /\ call'[c] # None /\ call'[c].at = "refused" /\ call'[c].why = w
         /\ SameButAt(call'[c], call[c])
         /\ \A d \in Calls \ {c} : call'[d] = call[d]
<1>1. call \in [Calls -> CallRecord \union {None}] /\ call[c] \in CallRecord
  BY DEF TypeOK
<1> DEFINE r == [call[c] EXCEPT !.at = "refused", !.why = w]
           goal(s) == s \in CallRecord /\ s.at = "refused" /\ s.why = w /\ SameButAt(s, call[c])
<1>2. goal(r)
  BY <1>1 DEF CallRecord, Ats, SameButAt, SameButRun
<1>3. call' = [call EXCEPT ![c] = r]
  <2> DEFINE one == [call EXCEPT ![c].at = "refused"]
             two == [one EXCEPT ![c].why = w]
  <2>1. /\ one = [d \in Calls |-> one[d]] /\ one[c] = [call[c] EXCEPT !.at = "refused"]
        /\ \A d \in Calls \ {c} : one[d] = call[d]
    BY <1>1
  <2>2. call' = two
    OBVIOUS
  <2> HIDE DEF one
  <2>3. /\ two = [d \in Calls |-> two[d]] /\ two[c] = [one[c] EXCEPT !.why = w]
        /\ \A d \in Calls \ {c} : two[d] = one[d]
    BY <2>1
  <2>4. two[c] = r
    BY <2>1, <2>3
  <2> DEFINE three == [call EXCEPT ![c] = r]
  <2> HIDE DEF two, r
  <2>5. /\ three = [d \in Calls |-> three[d]] /\ three[c] = r
        /\ \A d \in Calls \ {c} : three[d] = call[d]
    BY <1>1
  <2>6. \A d \in Calls : two[d] = three[d]
    BY <2>1, <2>3, <2>4, <2>5
  <2> HIDE DEF three
  <2>7. two = three
    BY <2>3, <2>5, <2>6
  <2> QED BY <2>2, <2>7 DEF three
<1>4. None \notin CallRecord
  BY DEF ConstantTypes
<1> HIDE DEF r
<1>5. call' \in [Calls -> {None, r} \union CallRecord] /\ call'[c] = r
      /\ \A d \in Calls \ {c} : call'[d] = call[d]
  BY <1>1, <1>3
<1>6. r \in CallRecord
  BY <1>2
<1>7. {None, r} \union CallRecord = CallRecord \union {None}
  BY <1>6
<1> HIDE DEF goal
<1>8. goal(call'[c])
  BY <1>2, <1>5
<1> QED BY <1>4, <1>5, <1>6, <1>7, <1>8 DEF goal

(* A call one of whose circuits has run.                                   *)
LEMMA CallRuns ==
  ASSUME ConstantTypes, TypeOK, NEW c \in Calls, call[c] # None, NEW k \in Circuits,
         call' = [call EXCEPT ![c].done = @ \union {k}]
  PROVE  /\ call' \in [Calls -> CallRecord \union {None}]
         /\ call'[c] # None /\ call'[c].done = call[c].done \union {k}
         /\ call'[c].broke = call[c].broke /\ SameButRun(call'[c], call[c])
         /\ \A d \in Calls \ {c} : call'[d] = call[d]
<1>1. call \in [Calls -> CallRecord \union {None}] /\ call[c] \in CallRecord
  BY DEF TypeOK
<1> DEFINE r == [call[c] EXCEPT !.done = @ \union {k}]
           goal(s) == s \in CallRecord /\ s.done = call[c].done \union {k}
         /\ s.broke = call[c].broke /\ SameButRun(s, call[c])
<1>2. goal(r)
  BY <1>1 DEF CallRecord, Ats, SameButAt, SameButRun
<1>3. call' = [call EXCEPT ![c] = r]
  BY <1>1
<1>4. None \notin CallRecord
  BY DEF ConstantTypes
<1> HIDE DEF r
<1>5. call' \in [Calls -> {None, r} \union CallRecord] /\ call'[c] = r
      /\ \A d \in Calls \ {c} : call'[d] = call[d]
  BY <1>1, <1>3
<1>6. r \in CallRecord
  BY <1>2
<1>7. {None, r} \union CallRecord = CallRecord \union {None}
  BY <1>6
<1> HIDE DEF goal
<1>8. goal(call'[c])
  BY <1>2, <1>5
<1> QED BY <1>4, <1>5, <1>6, <1>7, <1>8 DEF goal

(* A call one of whose circuits has thrown.                                *)
LEMMA CallBreaks ==
  ASSUME ConstantTypes, TypeOK, NEW c \in Calls, call[c] # None, 
         call' = [call EXCEPT ![c].broke = TRUE]
  PROVE  /\ call' \in [Calls -> CallRecord \union {None}]
         /\ call'[c] # None /\ call'[c].done = call[c].done
         /\ call'[c].broke = TRUE /\ SameButRun(call'[c], call[c])
         /\ \A d \in Calls \ {c} : call'[d] = call[d]
<1>1. call \in [Calls -> CallRecord \union {None}] /\ call[c] \in CallRecord
  BY DEF TypeOK
<1> DEFINE r == [call[c] EXCEPT !.broke = TRUE]
           goal(s) == s \in CallRecord /\ s.done = call[c].done
         /\ s.broke = TRUE /\ SameButRun(s, call[c])
<1>2. goal(r)
  BY <1>1 DEF CallRecord, Ats, SameButAt, SameButRun
<1>3. call' = [call EXCEPT ![c] = r]
  BY <1>1
<1>4. None \notin CallRecord
  BY DEF ConstantTypes
<1> HIDE DEF r
<1>5. call' \in [Calls -> {None, r} \union CallRecord] /\ call'[c] = r
      /\ \A d \in Calls \ {c} : call'[d] = call[d]
  BY <1>1, <1>3
<1>6. r \in CallRecord
  BY <1>2
<1>7. {None, r} \union CallRecord = CallRecord \union {None}
  BY <1>6
<1> HIDE DEF goal
<1>8. goal(call'[c])
  BY <1>2, <1>5
<1> QED BY <1>4, <1>5, <1>6, <1>7, <1>8 DEF goal

(* What a new call, or a look at the ledger, does to the calls there are:  *)
(* those in progress are no longer alone.                                  *)
LEMMA DisturbedFields ==
  ASSUME ConstantTypes, TypeOK, NEW d \in Calls
  PROVE  /\ Disturbed[d] \in CallRecord \union {None}
         /\ ~Live(d) => Disturbed[d] = call[d]
         /\ Live(d) => /\ Disturbed[d] = [call[d] EXCEPT !.alone = FALSE]
                       /\ Disturbed[d] # None /\ Disturbed[d].alone = FALSE
         /\ call[d] # None =>
              LET r == Disturbed[d] IN
              /\ r # None /\ r.at = call[d].at /\ r.kind = call[d].kind
              /\ r.root = call[d].root /\ r.leaf = call[d].leaf /\ r.ready = call[d].ready
              /\ r.done = call[d].done /\ r.broke = call[d].broke /\ r.why = call[d].why
<1>1. call[d] \in CallRecord \union {None} /\ None \notin CallRecord
  BY DEF TypeOK, ConstantTypes
<1>2. CASE Live(d)
  <2>1. call[d] \in CallRecord
    BY <1>1, <1>2 DEF Live
  <2>2. Disturbed[d] = [call[d] EXCEPT !.alone = FALSE]
    BY <1>2 DEF Disturbed
  <2> DEFINE r == [call[d] EXCEPT !.alone = FALSE]
  <2>3. /\ r \in CallRecord /\ r.alone = FALSE
        /\ r.at = call[d].at /\ r.kind = call[d].kind
        /\ r.root = call[d].root /\ r.leaf = call[d].leaf /\ r.ready = call[d].ready
        /\ r.done = call[d].done /\ r.broke = call[d].broke /\ r.why = call[d].why
    BY <2>1 DEF CallRecord
  <2> QED BY <1>1, <1>2, <2>2, <2>3
<1>3. CASE ~Live(d)
  <2>1. Disturbed[d] = call[d]
    BY <1>3 DEF Disturbed
  <2> QED BY <1>1, <1>3, <2>1
<1> QED BY <1>2, <1>3

-----------------------------------------------------------------------------
(* Parts of the invariant that a step leaves alone.                        *)

(* What a circuit does to the contract.                                    *)
LEMMA AppliedFields ==
  ASSUME NEW l \in Ledger, NEW s \in Step
  PROVE  /\ Applied(l, s) \in Ledger
         /\ Applied(l, s).root = IF s.circuit = "publish_kyc_root" THEN s.root ELSE l.root
         /\ Applied(l, s).tree = IF s.circuit = "publish_kyc_leaf"
                                 THEN l.tree \union {s.leaf} ELSE l.tree
<1>1. s.circuit \in Circuits /\ s.root \in Roots /\ s.leaf \in Leaves
  BY DEF Step
<1>2. CASE s.circuit = "publish_kyc_root"
  BY <1>1, <1>2 DEF Applied, Ledger
<1>3. CASE s.circuit = "publish_kyc_leaf"
  BY <1>1, <1>3 DEF Applied, Ledger
<1>4. CASE s.circuit \notin Publish
  <2>1. s.circuit \in Proofs
    BY <1>1, <1>4, ProofsAre
  <2>2. Applied(l, s) = [l EXCEPT !.count[s.circuit] = @ + 1]
    BY <1>4 DEF Applied, Publish
  <2>3. l.count \in [Proofs -> Nat] /\ l.count[s.circuit] + 1 \in Nat
    BY <2>1 DEF Ledger
  <2> DEFINE n == [l.count EXCEPT ![s.circuit] = @ + 1]
  <2>4. n \in [Proofs -> Nat]
    BY <2>3
  <2>5. Applied(l, s) = [l EXCEPT !.count = n]
    BY <2>2 DEF Ledger
  <2> HIDE DEF n
  <2>6. /\ [l EXCEPT !.count = n] \in Ledger /\ [l EXCEPT !.count = n].root = l.root
        /\ [l EXCEPT !.count = n].tree = l.tree
    BY <2>4 DEF Ledger
  <2> QED BY <1>4, <2>5, <2>6 DEF Publish
<1> QED BY <1>2, <1>3, <1>4 DEF Publish

(* The first contract has no root and no leaves.                           *)
LEMMA GenesisIs == Genesis \in Ledger /\ Genesis.root = None /\ Genesis.tree = {}
BY DEF Genesis, Ledger

(* The contract as it is in memory, or would be after a start.             *)
LEMMA BaseIs ==
  ASSUME ReplayInv
  PROVE  (IF ledger = None THEN Replay(persisted) ELSE ledger) = Replay(persisted)
BY DEF ReplayInv, ReplayRestores

-----------------------------------------------------------------------------
(* Steps that leave the file alone.                                        *)

(* A step that runs no circuit keeps what the call has run.                *)
CallKept(d) ==
  /\ call[d] # None =>
       /\ call'[d] # None /\ call'[d].done = call[d].done
       /\ call'[d].root = call[d].root /\ call'[d].leaf = call[d].leaf
       /\ Live(d)' => Live(d)
  /\ call[d] = None /\ call'[d] # None => call'[d].done = {}

(* So do all calls.                                                        *)
CallsKept == \A d \in Calls : CallKept(d)

(* The entries of the file and the chain have the types they should.       *)
LEMMA FileCalls ==
  ASSUME TypeOK
  PROVE  /\ \A n \in 1..Len(persisted) :
              /\ persisted[n] \in Step /\ persisted[n].call \in Calls
              /\ persisted[n].circuit \in Circuits
         /\ Len(persisted) \in Nat /\ Len(queue) \in Nat
         /\ \A n \in 1..Len(queue) :
              /\ queue[n].call \in Calls /\ queue[n].circuit \in Circuits
              /\ queue[n] = Job(queue[n].call, queue[n].circuit)
<1>1. persisted \in Seq(Step) /\ queue \in Seq([circuit : Circuits, call : Calls])
  BY DEF TypeOK
<1>2. \A n \in 1..Len(persisted) : persisted[n] \in Step
  BY <1>1
<1>3. \A n \in 1..Len(queue) : queue[n] \in [circuit : Circuits, call : Calls]
  <2> DEFINE J == [circuit : Circuits, call : Calls]
  <2>1. queue \in Seq(J)
    BY <1>1
  <2> HIDE DEF J
  <2>2. \A n \in 1..Len(queue) : queue[n] \in J
    BY <2>1
  <2> QED BY <2>2 DEF J
<1> QED BY <1>1, <1>2, <1>3 DEF Step, Job

(* FileInv, when the file stays and the calls keep what they have run.     *)
LEMMA FileStays ==
  ASSUME TypeOK, FileInv, persisted' = persisted, torn' = torn, CallsKept
  PROVE  FileInv'
<1>1. \A n \in 1..Len(persisted') :
       LET s == persisted'[n] IN
         /\ call'[s.call] # None /\ s.circuit \in call'[s.call].done
         /\ s.root = call'[s.call].root /\ s.leaf = call'[s.call].leaf
  BY FileCalls DEF FileInv, CallsKept, CallKept
<1>2. ASSUME NEW c \in Calls, call'[c] # None, ~torn' \/ Live(c)', NEW k \in call'[c].done
      PROVE  Recorded(c, k)'
  <2>1. call[c] # None /\ k \in call[c].done /\ (~torn \/ Live(c))
    BY <1>2 DEF CallsKept, CallKept
  <2>2. Recorded(c, k)
    BY <2>1 DEF FileInv
  <2> QED BY <2>2 DEF Recorded
<1> QED BY <1>1, <1>2 DEF FileInv

(* ReplayInv, when the file stays and the contract is dropped or replayed. *)
LEMMA ReplayStays ==
  ASSUME ReplayInv, persisted' = persisted, ledger' \in {ledger, None, Replay(persisted)}
  PROVE  ReplayInv'
<1>1. InsertedLeaves' = InsertedLeaves
  BY DEF InsertedLeaves
<1>2. Replay(persisted') = Replay(persisted) /\ (Replays(persisted') <=> Replays(persisted))
  OBVIOUS
<1> QED BY <1>1, <1>2 DEF ReplayInv, ReplayRestores

(* The model and the invariant mean the same by a continuation that waits. *)
LEMMA PendingIs == \A c : Pending(c) <=> Waits(call[c])
BY DEF Pending, Waits, Live

(* RootInv, when the same continuations wait.                              *)
LEMMA RootStays ==
  ASSUME TypeOK, FileInv, RootInv, persisted' = persisted, lastRoot' = lastRoot,
         \A d \in Calls : call[d] # None => (Waits(call'[d]) <=> Waits(call[d]))
  PROVE  RootInv'
<1>1. \A n \in 1..Len(persisted) :
        Waits(call'[persisted[n].call]) <=> Waits(call[persisted[n].call])
  BY FileCalls DEF FileInv
<1>3. /\ \A n : Publishes(n)' <=> Publishes(n)
      /\ \A n : LastPublished(n)' <=> LastPublished(n)
      /\ Replay(persisted') = Replay(persisted) /\ Len(persisted') = Len(persisted)
  BY DEF Publishes, LastPublished
<1> HIDE DEF Waits, Publishes, LastPublished
<1> QED BY <1>1, <1>3 DEF RootInv

-----------------------------------------------------------------------------
(* The chain of circuits when a call adds its own.                         *)

(* p is the chain q with the circuits ks of c behind it.                   *)
Joined(q, p, c, ks) ==
  /\ Len(p) = Len(q) + Len(ks)
  /\ \A n \in 1..Len(q) : p[n] = q[n]
  /\ \A n \in 1..Len(ks) : p[Len(q) + n] = Job(c, ks[n])

(* A publication joins the chain.                                          *)
LEMMA JoinedOne ==
  ASSUME TypeOK, NEW c \in Calls, NEW k \in Circuits, queue' = Append(queue, Job(c, k))
  PROVE  Joined(queue, queue', c, <<k>>) /\ queue' \in Seq([circuit : Circuits, call : Calls])
<1>1. Job(c, k) \in [circuit : Circuits, call : Calls]
  BY DEF Job
<1>2. queue \in Seq([circuit : Circuits, call : Calls])
  BY DEF TypeOK
<1>3. Len(<<k>>) = 1 /\ <<k>>[1] = k
  OBVIOUS
<1>4. /\ queue' \in Seq([circuit : Circuits, call : Calls])
      /\ Len(queue') = Len(queue) + 1 /\ queue'[Len(queue) + 1] = Job(c, k)
      /\ \A n \in 1..Len(queue) : queue'[n] = queue[n]
  BY <1>1, <1>2
<1> QED BY <1>3, <1>4 DEF Joined

(* The proofs of a call join the chain.                                    *)
LEMMA JoinedLine ==
  ASSUME TypeOK, NEW c \in Calls, NEW kind \in DOMAIN Pipeline,
         queue' = queue \o Jobs(c, kind)
  PROVE  /\ Joined(queue, queue', c, Pipeline[kind])
         /\ queue' \in Seq([circuit : Circuits, call : Calls])
<1>1. Pipeline[kind] \in Seq(Circuits)
  BY LinesAre, ProofsAre
<1> DEFINE ks == Pipeline[kind]
           js == Jobs(c, kind)
<1>2. js = [n \in 1..Len(ks) |-> Job(c, ks[n])]
  BY DEF Jobs
<1> HIDE DEF ks
<1>3. ks \in Seq(Circuits) /\ Len(ks) \in Nat /\ \A n \in 1..Len(ks) : ks[n] \in Circuits
  BY <1>1 DEF ks
<1> HIDE DEF js
<1>4. /\ js \in Seq([circuit : Circuits, call : Calls])
      /\ Len(js) = Len(ks) /\ \A n \in 1..Len(ks) : js[n] = Job(c, ks[n])
  <2>1. \A n \in 1..Len(ks) : Job(c, ks[n]) \in [circuit : Circuits, call : Calls]
    BY <1>3 DEF Job
  <2> QED BY <1>2, <1>3, <2>1
<1>5. queue \in Seq([circuit : Circuits, call : Calls])
  BY DEF TypeOK
<1>6. queue' = queue \o js
  BY DEF js
<1>7. /\ queue' \in Seq([circuit : Circuits, call : Calls])
      /\ Len(queue') = Len(queue) + Len(js)
      /\ \A n \in 1..Len(queue) : queue'[n] = queue[n]
      /\ \A n \in 1..Len(js) : queue'[Len(queue) + n] = js[n]
  <2> DEFINE J == [circuit : Circuits, call : Calls]
  <2>1. queue \in Seq(J) /\ js \in Seq(J)
    BY <1>4, <1>5
  <2> HIDE DEF J
  <2>2. /\ queue' \in Seq(J)
        /\ Len(queue') = Len(queue) + Len(js)
        /\ \A n \in 1..Len(queue) : queue'[n] = queue[n]
        /\ \A n \in 1..Len(js) : queue'[Len(queue) + n] = js[n]
    BY <1>6, <2>1
  <2> QED BY <2>2 DEF J
<1> QED BY <1>4, <1>7 DEF Joined, ks

(* Circuits of a call that had none in the chain keep it in order.         *)
LEMMA QueueJoins ==
  ASSUME NEW q, NEW p, NEW c, NEW ks, NEW cs, NEW ds, Joined(q, p, c, ks),
         Len(q) \in Nat, Len(ks) \in Nat,
         MayQueue(q, cs), OnceEach(q), OnceEach(ks),
         \A n \in 1..Len(q) : q[n].call # c /\ ds[q[n].call] # None
                                /\ MayRun(q[n].circuit, ds[q[n].call]),
         ds[c] # None, \A n \in 1..Len(ks) : MayRun(ks[n], ds[c])
  PROVE  MayQueue(p, ds) /\ OnceEach(p)
<1>1. \A n \in 1..Len(ks) : Job(c, ks[n]).call = c /\ Job(c, ks[n]).circuit = ks[n]
  BY DEF Job
<1>2. ASSUME NEW n \in 1..Len(p)
      PROVE  \/ n \in 1..Len(q) /\ p[n] = q[n]
             \/ n - Len(q) \in 1..Len(ks) /\ p[n] = Job(c, ks[n - Len(q)])
  <2>1. CASE n <= Len(q)
    BY <2>1 DEF Joined
  <2>2. CASE ~(n <= Len(q))
    <3>1. n - Len(q) \in 1..Len(ks) /\ Len(q) + (n - Len(q)) = n
      BY <2>2 DEF Joined
    <3> QED BY <3>1 DEF Joined
  <2> QED BY <2>1, <2>2
<1>3. MayQueue(p, ds)
  <2> SUFFICES ASSUME NEW n \in 1..Len(p)
               PROVE  ds[p[n].call] # None /\ MayRun(p[n].circuit, ds[p[n].call])
    BY DEF MayQueue
  <2>1. CASE n \in 1..Len(q) /\ p[n] = q[n]
    BY <2>1
  <2>2. CASE n - Len(q) \in 1..Len(ks) /\ p[n] = Job(c, ks[n - Len(q)])
    BY <1>1, <2>2
  <2> QED BY <1>2, <2>1, <2>2
<1>4. ASSUME NEW m \in 1..Len(p), NEW n \in 1..Len(p), p[m] = p[n] PROVE m = n
  <2>1. CASE m \in 1..Len(q) /\ p[m] = q[m]
    <3>1. p[m].call # c
      BY <2>1
    <3>2. n \in 1..Len(q) /\ p[n] = q[n]
      BY <1>1, <1>2, <1>4, <3>1
    <3> QED BY <1>4, <2>1, <3>2 DEF OnceEach
  <2>2. CASE m - Len(q) \in 1..Len(ks) /\ p[m] = Job(c, ks[m - Len(q)])
    <3>1. p[m].call = c /\ p[m].circuit = ks[m - Len(q)]
      BY <1>1, <2>2
    <3>2. n - Len(q) \in 1..Len(ks) /\ p[n] = Job(c, ks[n - Len(q)])
      BY <1>2, <1>4, <3>1
    <3>3. ks[n - Len(q)] = ks[m - Len(q)]
      BY <1>1, <1>4, <3>1, <3>2
    <3>4. n - Len(q) = m - Len(q)
      BY <2>2, <3>2, <3>3 DEF OnceEach
    <3> QED BY <3>4, <2>2, <3>2
  <2> QED BY <1>2, <2>1, <2>2
<1> QED BY <1>3, <1>4 DEF OnceEach

-----------------------------------------------------------------------------
(* Steps that move one call on.                                            *)

(* A call that moves on.                                                   *)
LEMMA MoveKeeps ==
  ASSUME ConstantTypes, CompactInv, NEW c \in Calls, Live(c),
         call' \in [Calls -> CallRecord \union {None}], call'[c] # None,
         SameButAt(call'[c], call[c]), \A d \in Calls \ {c} : call'[d] = call[d],
         persisted' = persisted, torn' = torn, ledger' = ledger, staged' = staged,
         crashes' = crashes, lastRoot' \in Roots \union {None}, bag' \in Bags,
         queue' \in Seq([circuit : Circuits, call : Calls]),
         Standing(call'[c]), MayQueue(queue', call'), OnceEach(queue'),
         staged # None => queue' # <<>>,
         RootInv',
         call'[c].alone => call'[c].why # "circuit",
         Alone(c) /\ Live(c)' =>
           /\ \A n \in 1..Len(queue') : queue'[n].call = c
           /\ Ahead(call'[c], Replay(persisted)) /\ Holds(c, call'[c], bag')
           /\ (staged # None => Holds(c, call'[c], staged))
  PROVE  CompactInv'
<1>1. TypeOK'
  BY DEF CompactInv, TypeOK
<1>2. QueueInv'
  BY DEF CompactInv, QueueInv
<1>3. CallsKept
  BY DEF CallsKept, CallKept, Live, SameButAt
<1>4. FileInv' /\ ReplayInv'
  BY <1>3, FileStays, ReplayStays DEF CompactInv
<1>5. \A d \in Calls : Live(d)' => Live(d)
  BY DEF Live
<1>6. \A d \in Calls : call'[d] # None /\ call'[d].alone => call'[d].why # "circuit"
  BY DEF CompactInv, AloneInv
<1>7. ASSUME NEW d \in Calls, Alone(d)'
      PROVE  /\ d = c /\ Alone(c) /\ Live(c)' /\ ~call'[c].broke
             /\ \A e \in Calls : Live(e)' => e = c
  <2>1. Alone(d)
    BY <1>7 DEF Alone, Live, SameButAt
  <2>2. d = c
    BY <2>1 DEF CompactInv, AloneInv
  <2>3. ~call[c].broke /\ \A e \in Calls : Live(e) => e = c
    BY <2>1, <2>2 DEF CompactInv, AloneInv
  <2> QED BY <1>5, <1>7, <2>1, <2>2, <2>3 DEF Alone, SameButAt
<1>8. AloneInv'
  BY <1>6, <1>7 DEF AloneInv
<1> QED BY <1>1, <1>2, <1>4, <1>8 DEF CompactInv

(* What holds of a call in progress.                                       *)
LEMMA LiveCall ==
  ASSUME ConstantTypes, CompactInv, NEW c \in Calls, Live(c)
  PROVE  /\ call[c] \in CallRecord /\ call[c] # None /\ Standing(call[c])
         /\ \A n \in 1..Len(queue) : queue[n].call = c => MayRun(queue[n].circuit, call[c])
         /\ call[c].alone => Alone(c) /\ call[c].why # "circuit" /\ ~call[c].broke
         /\ Pipeline[call[c].kind] = Pipeline[call[c].kind] /\ call[c].kind \in DOMAIN Pipeline
         /\ call[c].at \in {"root", "leaf", "synced", "proving"}
<1>1. call[c] # None /\ call[c] \in CallRecord
  BY DEF Live, CompactInv, TypeOK
<1>2. /\ Standing(call[c])
      /\ \A n \in 1..Len(queue) : queue[n].call = c => MayRun(queue[n].circuit, call[c])
  BY <1>1 DEF CompactInv, QueueInv, MayQueue
<1>3. call[c].alone => Alone(c) /\ call[c].why # "circuit" /\ ~call[c].broke
  BY <1>1 DEF CompactInv, AloneInv, Alone
<1>4. call[c].kind \in DOMAIN Pipeline
  BY <1>1, CallFields DEF ConstantTypes
<1> QED BY <1>1, <1>2, <1>3, <1>4 DEF Live

(* A call that moves on and leaves the chain alone.                        *)
LEMMA QuietMoveKeeps ==
  ASSUME ConstantTypes, CompactInv, NEW c \in Calls, Live(c),
         call' \in [Calls -> CallRecord \union {None}], call'[c] # None,
         SameButAt(call'[c], call[c]), \A d \in Calls \ {c} : call'[d] = call[d],
         UNCHANGED <<ledger, bag, persisted, queue, staged, crashes, torn>>,
         lastRoot' \in Roots \union {None}, RootInv',
         Standing(call'[c]),
         \A n \in 1..Len(queue) : queue[n].call = c => MayRun(queue[n].circuit, call'[c]),
         call'[c].alone => call'[c].why # "circuit",
         Alone(c) /\ Live(c)' =>
           call'[c].at # "proving" /\ Ahead(call'[c], Replay(persisted))
  PROVE  CompactInv'
<1>1. /\ bag' \in Bags /\ queue' \in Seq([circuit : Circuits, call : Calls])
      /\ OnceEach(queue') /\ (staged # None => queue' # <<>>)
  BY DEF CompactInv, TypeOK, QueueInv
<1>2. MayQueue(queue', call')
  BY FileCalls DEF CompactInv, QueueInv, MayQueue
<1>3. Alone(c) => \A n \in 1..Len(queue') : queue'[n].call = c
  BY DEF CompactInv, AloneInv
<1> QED BY <1>1, <1>2, <1>3, MoveKeeps DEF Holds

(* RootInv, when one call moves on and waits as it did.                    *)
LEMMA OtherRootsStay ==
  ASSUME CompactInv, NEW c \in Calls, persisted' = persisted, lastRoot' = lastRoot,
         Waits(call'[c]) <=> Waits(call[c]), \A d \in Calls \ {c} : call'[d] = call[d]
  PROVE  RootInv'
BY RootStays DEF CompactInv

(* The continuation after the leaf.                                        *)
LEMMA LeafPublishedKeeps ==
  ASSUME ConstantTypes, CompactInv, NEW c \in Calls, LeafPublished(c) PROVE CompactInv'
<1>1. /\ Live(c) /\ call[c].at = "leaf" /\ "publish_kyc_leaf" \in call[c].done
      /\ call' = [call EXCEPT ![c].at = "synced"]
      /\ UNCHANGED <<ledger, bag, persisted, lastRoot, queue, staged, crashes, torn>>
  BY DEF LeafPublished
<1>2. call[c] \in CallRecord /\ call[c] # None /\ Standing(call[c])
  BY <1>1, LiveCall
<1>3. /\ call' \in [Calls -> CallRecord \union {None}] /\ call'[c] # None
      /\ \A d \in Calls \ {c} : call'[d] = call[d]
      /\ call'[c].at = "synced" /\ call'[c].why = call[c].why
      /\ SameButAt(call'[c], call[c])
  BY <1>1, <1>2, CallMoves DEF Ats, CompactInv
<1>4. call'[c].at = "synced" /\ call'[c].why = call[c].why /\ SameButAt(call'[c], call[c])
  BY <1>3
<1>5. Standing(call'[c])
  BY <1>1, <1>2, <1>4 DEF Standing, SameButAt
<1>6. \A n \in 1..Len(queue) : queue[n].call # c
  <2> SUFFICES ASSUME NEW n \in 1..Len(queue), queue[n].call = c PROVE FALSE
    OBVIOUS
  <2>1. MayRun(queue[n].circuit, call[c])
    BY <1>1, LiveCall
  <2> QED BY <1>1, <2>1 DEF MayRun
<1>7. RootInv'
  BY <1>1, <1>3, <1>4, OtherRootsStay DEF Waits
<1>8. call'[c].alone => call'[c].why # "circuit"
  BY <1>1, <1>4, LiveCall DEF SameButAt
<1>9. Alone(c) => Ahead(call'[c], Replay(persisted))
  <2>1. Alone(c) => Ahead(call[c], Replay(persisted))
    BY DEF CompactInv, AloneInv
  <2> QED BY <1>1, <1>4, <2>1 DEF Ahead, SameButAt
<1>10. lastRoot' \in Roots \union {None}
  BY <1>1 DEF CompactInv, TypeOK
<1> QED BY <1>1, <1>3, <1>4, <1>5, <1>6, <1>7, <1>8, <1>9, <1>10, QuietMoveKeeps

(* A call that ends: refused or answered.                                  *)
LEMMA EndKeeps ==
  ASSUME ConstantTypes, CompactInv, NEW c \in Calls,
         RefuseBalance(c) \/ RefuseCircuit(c) \/ Answer(c)
  PROVE  CompactInv'
<1>1. /\ Live(c)
      /\ UNCHANGED <<ledger, bag, persisted, lastRoot, queue, staged, crashes, torn>>
      /\ call[c].at # "root" \/ call[c].broke
  BY DEF RefuseBalance, RefuseCircuit, Answer
<1>2. call[c] \in CallRecord /\ call[c] # None /\ Standing(call[c])
  BY <1>1, LiveCall
<1>3. /\ call' \in [Calls -> CallRecord \union {None}] /\ call'[c] # None
      /\ SameButAt(call'[c], call[c]) /\ \A d \in Calls \ {c} : call'[d] = call[d]
      /\ \/ call'[c].at = "refused" /\ call'[c].why = "balance" /\ call[c].at = "synced"
         \/ call'[c].at = "refused" /\ call'[c].why = "circuit" /\ call[c].broke
         \/ /\ call'[c].at \in {"answered", "refused"} /\ call[c].at = "proving"
            /\ call'[c].why \in {call[c].why, "zk"} /\ PipelineOf(call[c]) \subseteq call[c].done
  <2>1. CASE RefuseBalance(c)
    <3>1. call' = [call EXCEPT ![c].at = "refused", ![c].why = "balance"] /\ call[c].at = "synced"
      BY <2>1 DEF RefuseBalance
    <3>2. /\ call' \in [Calls -> CallRecord \union {None}] /\ call'[c] # None
          /\ call'[c].at = "refused" /\ call'[c].why = "balance"
          /\ SameButAt(call'[c], call[c]) /\ \A d \in Calls \ {c} : call'[d] = call[d]
      BY <1>2, <3>1, CallRefuses DEF CompactInv
    <3> QED BY <3>1, <3>2
  <2>2. CASE RefuseCircuit(c)
    <3>1. call' = [call EXCEPT ![c].at = "refused", ![c].why = "circuit"] /\ call[c].broke
      BY <2>2 DEF RefuseCircuit
    <3>2. /\ call' \in [Calls -> CallRecord \union {None}] /\ call'[c] # None
          /\ call'[c].at = "refused" /\ call'[c].why = "circuit"
          /\ SameButAt(call'[c], call[c]) /\ \A d \in Calls \ {c} : call'[d] = call[d]
      BY <1>2, <3>1, CallRefuses DEF CompactInv
    <3> QED BY <3>1, <3>2
  <2>3. CASE Answer(c)
    <3>1. /\ call[c].at = "proving" /\ PipelineOf(call[c]) \subseteq call[c].done
          /\ \/ call' = [call EXCEPT ![c].at = "answered"]
             \/ call' = [call EXCEPT ![c].at = "refused", ![c].why = "zk"]
      BY <2>3 DEF Answer, PipelineOf
    <3>2. CASE call' = [call EXCEPT ![c].at = "answered"]
      <4>1. /\ call' \in [Calls -> CallRecord \union {None}] /\ call'[c] # None
            /\ call'[c].at = "answered" /\ call'[c].why = call[c].why
            /\ SameButAt(call'[c], call[c]) /\ \A d \in Calls \ {c} : call'[d] = call[d]
        BY <1>2, <3>2, CallMoves DEF CompactInv, Ats
      <4> QED BY <3>1, <4>1
    <3>3. CASE call' = [call EXCEPT ![c].at = "refused", ![c].why = "zk"]
      <4>1. /\ call' \in [Calls -> CallRecord \union {None}] /\ call'[c] # None
            /\ call'[c].at = "refused" /\ call'[c].why = "zk"
            /\ SameButAt(call'[c], call[c]) /\ \A d \in Calls \ {c} : call'[d] = call[d]
        BY <1>2, <3>3, CallRefuses DEF CompactInv
      <4> QED BY <3>1, <4>1
    <3> QED BY <3>1, <3>2, <3>3
  <2> QED BY <2>1, <2>2, <2>3
<1>4. Standing(call'[c])
  BY <1>3 DEF Standing, SameButAt, PipelineOf
<1>5. ASSUME NEW n \in 1..Len(queue), queue[n].call = c
      PROVE  MayRun(queue[n].circuit, call'[c])
  <2>1. MayRun(queue[n].circuit, call[c])
    BY <1>1, <1>5, LiveCall
  <2>2. call[c].at = "proving" /\ call'[c].at = "refused"
    <3>1. CASE call[c].at = "synced"
      BY <2>1, <3>1 DEF MayRun
    <3>2. CASE call[c].broke /\ call'[c].at = "refused"
      BY <1>1, <1>2, <3>2 DEF Live, Standing
    <3>3. CASE PipelineOf(call[c]) \subseteq call[c].done /\ call[c].at = "proving"
      BY <2>1, <3>3 DEF MayRun
    <3> QED BY <1>3, <3>1, <3>2, <3>3
  <2>3. call'[c].at = "refused" /\ queue[n].circuit \in PipelineOf(call[c])
    BY <2>1, <2>2 DEF MayRun
  <2> QED BY <1>3, <2>1, <2>3 DEF MayRun, SameButAt, PipelineOf
<1>6. RootInv'
  <2>1. call[c].at # "root"
    BY <1>1, <1>2 DEF Standing
  <2> QED BY <1>1, <1>3, <2>1, OtherRootsStay DEF Waits
<1>7. call'[c].alone => call'[c].why # "circuit"
  BY <1>1, <1>3, LiveCall DEF SameButAt
<1>8. ~Live(c)'
  BY <1>3 DEF Live
<1>9. lastRoot' \in Roots \union {None}
  BY <1>1 DEF CompactInv, TypeOK
<1> QED BY <1>1, <1>3, <1>4, <1>5, <1>6, <1>7, <1>8, <1>9, QuietMoveKeeps

-----------------------------------------------------------------------------
(* The continuations of a call, and its end.                               *)

(* Who has no circuit in the chain.                                        *)
LEMMA NoJobs ==
  ASSUME ConstantTypes, CompactInv, NEW c \in Calls, Live(c), call[c].at # "proving",
         call[c].at = "root" => "publish_kyc_root" \in call[c].done,
         call[c].at = "leaf" => "publish_kyc_leaf" \in call[c].done
  PROVE  /\ \A n \in 1..Len(queue) : queue[n].call # c
         /\ Alone(c) => queue = <<>> /\ staged = None
<1>1. ASSUME NEW n \in 1..Len(queue), queue[n].call = c PROVE FALSE
  <2>1. MayRun(queue[n].circuit, call[c])
    BY <1>1, LiveCall
  <2> QED BY <2>1 DEF MayRun, Live
<1>2. ASSUME Alone(c) PROVE queue = <<>> /\ staged = None
  <2>1. \A n \in 1..Len(queue) : queue[n].call = c
    BY <1>2 DEF CompactInv, AloneInv
  <2>2. Len(queue) = 0
    <3>1. Len(queue) \in Nat
      BY FileCalls DEF CompactInv
    <3>2. CASE Len(queue) # 0
      <4>1. 1 \in 1..Len(queue)
        BY <3>1, <3>2
      <4> QED BY <1>1, <2>1, <4>1
    <3> QED BY <3>2
  <2>3. queue = <<>>
    BY <2>2 DEF CompactInv, TypeOK
  <2> QED BY <2>3 DEF CompactInv, QueueInv
<1> QED BY <1>1, <1>2

(* A call that moves on and adds circuits to the chain.                    *)
LEMMA AddingMoveKeeps ==
  ASSUME ConstantTypes, CompactInv, NEW c \in Calls, Live(c),
         call' \in [Calls -> CallRecord \union {None}], call'[c] # None,
         SameButAt(call'[c], call[c]), \A d \in Calls \ {c} : call'[d] = call[d],
         call'[c].why = call[c].why,
         UNCHANGED <<ledger, persisted, staged, crashes, torn>>, bag' \in Bags,
         lastRoot' \in Roots \union {None}, RootInv',
         Standing(call'[c]),
         \A n \in 1..Len(queue) : queue[n].call # c,
         NEW ks, Joined(queue, queue', c, ks), Len(ks) \in Nat, OnceEach(ks),
         queue' \in Seq([circuit : Circuits, call : Calls]),
         \A n \in 1..Len(ks) : MayRun(ks[n], call'[c]),
         Alone(c) => /\ queue = <<>> /\ staged = None
                     /\ Ahead(call'[c], Replay(persisted)) /\ Holds(c, call'[c], bag')
  PROVE  CompactInv'
<1>1. Len(queue) \in Nat /\ MayQueue(queue, call) /\ OnceEach(queue)
  BY FileCalls DEF CompactInv, QueueInv
<1>2. \A n \in 1..Len(queue) : /\ queue[n].call # c /\ call'[queue[n].call] # None
                               /\ MayRun(queue[n].circuit, call'[queue[n].call])
  BY <1>1, FileCalls DEF CompactInv, MayQueue
<1>3. MayQueue(queue', call') /\ OnceEach(queue')
  BY <1>1, <1>2, QueueJoins
<1>4. staged # None => queue' # <<>>
  <2>1. CASE staged # None
    <3>1. queue # <<>> /\ queue \in Seq([circuit : Circuits, call : Calls])
      BY <2>1 DEF CompactInv, QueueInv, TypeOK
    <3>2. Len(queue) > 0
      BY <3>1
    <3>3. Len(queue') > 0
      BY <1>1, <3>2 DEF Joined
    <3> QED BY <3>3
  <2> QED BY <2>1
<1>5. Alone(c) => \A n \in 1..Len(queue') : queue'[n].call = c
  <2> SUFFICES ASSUME Alone(c), NEW n \in 1..Len(queue') PROVE queue'[n].call = c
    OBVIOUS
  <2>1. Len(queue) = 0
    OBVIOUS
  <2>2. n \in 1..Len(ks) /\ Len(queue) + n = n
    BY <2>1 DEF Joined
  <2>3. queue'[n] = Job(c, ks[n])
    BY <2>2 DEF Joined
  <2> QED BY <2>3 DEF Job
<1>6. call'[c].alone => call'[c].why # "circuit"
  BY LiveCall DEF SameButAt
<1>7. /\ persisted' = persisted /\ torn' = torn /\ ledger' = ledger /\ staged' = staged
      /\ crashes' = crashes
  OBVIOUS
<1>8. Alone(c) /\ Live(c)' =>
           /\ \A n \in 1..Len(queue') : queue'[n].call = c
           /\ Ahead(call'[c], Replay(persisted)) /\ Holds(c, call'[c], bag')
           /\ (staged # None => Holds(c, call'[c], staged))
  BY <1>5
<1> QED BY <1>3, <1>4, <1>6, <1>7, <1>8, MoveKeeps

(* After its circuit, a call remembers its root.                           *)
LEMMA RootRemembered ==
  ASSUME ConstantTypes, CompactInv, NEW c \in Calls, Pending(c), NextInTurn(c),
         lastRoot' = call[c].root, persisted' = persisted,
         call'[c] # None, call'[c].at # "root", \A d \in Calls \ {c} : call'[d] = call[d]
  PROVE  RootInv'
<1>1. /\ Waits(call[c]) /\ ~Waits(call'[c])
      /\ \A d \in Calls \ {c} : Waits(call'[d]) <=> Waits(call[d])
  BY PendingIs DEF Waits
<1>2. \A m, n \in 1..Len(persisted) :
        m < n /\ Publishes(m) /\ Publishes(n) /\ persisted[n].call = c
          => ~Waits(call[persisted[m].call])
  BY PendingIs DEF NextInTurn
<1>3. \A n \in 1..Len(persisted) : persisted[n].call \in Calls
  BY FileCalls DEF CompactInv
<1>4. /\ \A n : Publishes(n)' <=> Publishes(n)
      /\ \A n : LastPublished(n)' <=> LastPublished(n)
      /\ Replay(persisted') = Replay(persisted) /\ Len(persisted') = Len(persisted)
  BY DEF Publishes, LastPublished
<1>5. PICK i \in 1..Len(persisted) : persisted[i].call = c /\ Publishes(i)
  <2>1. Live(c) /\ call[c] # None /\ "publish_kyc_root" \in call[c].done
    BY DEF Pending, Live
  <2>2. Recorded(c, "publish_kyc_root")
    BY <2>1 DEF CompactInv, FileInv
  <2> QED BY <2>2 DEF Recorded, Publishes
<1>6. persisted[i].root = call[c].root
  BY <1>5 DEF CompactInv, FileInv
<1>7. \A n \in 1..Len(persisted) : Publishes(n) /\ persisted[n].call = c => n = i
  BY <1>5 DEF CompactInv, FileInv, Publishes
<1>8. RootInv
  BY DEF CompactInv
<1>9. ASSUME NEW m \in 1..Len(persisted), NEW n \in 1..Len(persisted), m < n,
             Publishes(m), Publishes(n), Waits(call'[persisted[m].call])
      PROVE  Waits(call'[persisted[n].call])
  <2>1. persisted[m].call # c /\ Waits(call[persisted[m].call])
    BY <1>1, <1>3, <1>9
  <2>2. persisted[n].call # c
    BY <1>2, <1>9, <2>1
  <2>3. Waits(call[persisted[n].call])
    BY <1>8, <1>9, <2>1 DEF RootInv
  <2> QED BY <1>1, <1>3, <2>2, <2>3
<1>10. ASSUME NEW n \in 1..Len(persisted), LastPublished(n)
       PROVE  /\ Replay(persisted).root = persisted[n].root
              /\ lastRoot' \in {None, persisted[n].root} \/ Waits(call'[persisted[n].call])
  <2>1. Replay(persisted).root = persisted[n].root
    BY <1>8, <1>10 DEF RootInv
  <2>2. i <= n /\ Publishes(n) /\ i \in Nat /\ n \in Nat
    BY <1>5, <1>10 DEF LastPublished
  <2>3. CASE i = n
    BY <1>6, <2>1, <2>3
  <2>4. CASE i # n
    <3>1. i < n
      BY <2>2, <2>4
    <3>2. Waits(call[persisted[n].call])
      BY <1>1, <1>5, <1>8, <2>2, <3>1 DEF RootInv
    <3>3. persisted[n].call # c
      BY <1>7, <2>2, <2>4
    <3> QED BY <1>1, <1>3, <2>1, <3>2, <3>3
  <2> QED BY <2>3, <2>4
<1>11. \E n \in 1..Len(persisted) : Publishes(n)
  BY <1>5
<1> HIDE DEF Waits, Publishes, LastPublished
<1> QED BY <1>4, <1>9, <1>10, <1>11 DEF RootInv

(* The continuation after the root: it remembers the root, and those       *)
(* behind it in the file wait still, so that it is the last one published  *)
(* that decides.                                                           *)
LEMMA RootPublishedKeeps ==
  ASSUME ConstantTypes, CompactInv, NEW c \in Calls, RootPublished(c) PROVE CompactInv'
<1>1. /\ Live(c) /\ call[c].at = "root" /\ "publish_kyc_root" \in call[c].done
      /\ Pending(c) /\ NextInTurn(c) /\ lastRoot' = call[c].root
      /\ UNCHANGED <<ledger, bag, persisted, staged, crashes, torn>>
  BY DEF RootPublished, Pending
<1>2. call[c] \in CallRecord /\ call[c] # None /\ Standing(call[c])
  BY <1>1, LiveCall
<1>3. /\ \A n \in 1..Len(queue) : queue[n].call # c
      /\ Alone(c) => queue = <<>> /\ staged = None
  BY <1>1, NoJobs
<1>4. lastRoot' \in Roots \union {None}
  BY <1>1, <1>2, CallFields
<1>5. Alone(c) => Ahead(call[c], Replay(persisted))
  BY DEF CompactInv, AloneInv
<1>6. CASE call[c].ready /\ call' = [call EXCEPT ![c].at = "synced"] /\ queue' = queue
  <2>1. /\ call' \in [Calls -> CallRecord \union {None}] /\ call'[c] # None
        /\ \A d \in Calls \ {c} : call'[d] = call[d]
        /\ call'[c].at = "synced" /\ call'[c].why = call[c].why
        /\ SameButAt(call'[c], call[c])
    BY <1>2, <1>6, CallMoves DEF Ats, CompactInv
  <2>2. Standing(call'[c])
    BY <1>1, <1>2, <2>1 DEF Standing, SameButAt
  <2>3. RootInv'
    BY <1>1, <2>1, RootRemembered
  <2>4. call'[c].alone => call'[c].why # "circuit"
    BY <1>1, <2>1, LiveCall DEF SameButAt
  <2>5. Alone(c) => Ahead(call'[c], Replay(persisted))
    BY <1>1, <1>5, <1>6, <2>1 DEF Ahead, SameButAt
  <2>6. UNCHANGED <<ledger, bag, persisted, queue, staged, crashes, torn>>
    BY <1>1, <1>6
  <2> QED BY <1>1, <1>3, <1>4, <2>1, <2>2, <2>3, <2>4, <2>5, <2>6, QuietMoveKeeps
<1>7. CASE ~call[c].ready /\ call' = [call EXCEPT ![c].at = "leaf"]
           /\ queue' = Append(queue, Job(c, "publish_kyc_leaf"))
  <2>1. /\ call' \in [Calls -> CallRecord \union {None}] /\ call'[c] # None
        /\ \A d \in Calls \ {c} : call'[d] = call[d]
        /\ call'[c].at = "leaf" /\ call'[c].why = call[c].why
        /\ SameButAt(call'[c], call[c])
    BY <1>2, <1>7, CallMoves DEF Ats, CompactInv
  <2>2. Standing(call'[c])
    BY <1>1, <1>2, <2>1 DEF Standing, SameButAt
  <2>3. RootInv'
    BY <1>1, <2>1, RootRemembered
  <2>4. /\ Joined(queue, queue', c, <<"publish_kyc_leaf">>)
        /\ queue' \in Seq([circuit : Circuits, call : Calls])
    BY <1>7, JoinedOne DEF Circuits, CompactInv
  <2>5. "publish_kyc_leaf" \notin call'[c].done
    BY <1>1, <1>2, <2>1 DEF Standing, SameButAt
  <2>6. Alone(c) => Ahead(call'[c], Replay(persisted)) /\ Holds(c, call'[c], bag')
    BY <1>1, <1>5, <2>1, <2>5 DEF Ahead, Holds, SameButAt
  <2>7. bag' \in Bags
    BY <1>1 DEF CompactInv, TypeOK
  <2> DEFINE ks == <<"publish_kyc_leaf">>
  <2>8. Len(ks) \in Nat /\ OnceEach(ks) /\ \A n \in 1..Len(ks) : MayRun(ks[n], call'[c])
    <3>1. Len(ks) = 1 /\ ks[1] = "publish_kyc_leaf"
      OBVIOUS
    <3>2. MayRun("publish_kyc_leaf", call'[c])
      BY <2>1, <2>5 DEF MayRun
    <3> HIDE DEF ks
    <3> QED BY <3>1, <3>2 DEF OnceEach
  <2>9. Joined(queue, queue', c, ks)
    BY <2>4
  <2>10. UNCHANGED <<ledger, persisted, staged, crashes, torn>>
    BY <1>1
  <2> HIDE DEF ks
  <2> QED BY <1>1, <1>3, <1>4, <2>1, <2>2, <2>3, <2>4, <2>6, <2>7, <2>8, <2>9, <2>10,
             AddingMoveKeeps
<1> QED BY <1>6, <1>7 DEF RootPublished

(* Staging the witness puts the call's own in the bag.                     *)
LEMMA StageKeeps ==
  ASSUME ConstantTypes, CompactInv, NEW c \in Calls, Stage(c) PROVE CompactInv'
<1>1. /\ Live(c) /\ call[c].at = "synced" /\ call' = [call EXCEPT ![c].at = "proving"]
      /\ bag' = IF call[c].kind = "payment"
                THEN [bag EXCEPT !["spend"] = c, !["policy"] = c] ELSE bag
      /\ queue' = queue \o Jobs(c, call[c].kind)
      /\ UNCHANGED <<ledger, persisted, lastRoot, staged, crashes, torn>>
  BY DEF Stage
<1>2. call[c] \in CallRecord /\ call[c] # None /\ Standing(call[c])
      /\ call[c].kind \in DOMAIN Pipeline
  BY <1>1, LiveCall
<1>3. /\ \A n \in 1..Len(queue) : queue[n].call # c
      /\ Alone(c) => queue = <<>> /\ staged = None
  BY <1>1, NoJobs
<1>4. /\ call' \in [Calls -> CallRecord \union {None}] /\ call'[c] # None
      /\ \A d \in Calls \ {c} : call'[d] = call[d]
      /\ call'[c].at = "proving" /\ call'[c].why = call[c].why
      /\ SameButAt(call'[c], call[c])
  BY <1>1, <1>2, CallMoves DEF Ats, CompactInv
<1>5. Standing(call'[c])
  BY <1>4 DEF Standing
<1>6. RootInv'
  BY <1>1, <1>4, OtherRootsStay DEF Waits
<1> DEFINE ks == Pipeline[call[c].kind]
<1>7. /\ Joined(queue, queue', c, ks) /\ queue' \in Seq([circuit : Circuits, call : Calls])
  BY <1>1, <1>2, JoinedLine DEF CompactInv
<1>8. Len(ks) \in Nat /\ OnceEach(ks) /\ \A n \in 1..Len(ks) : MayRun(ks[n], call'[c])
  <2>1. /\ ks \in Seq(Proofs) /\ ToSet(ks) \intersect Publish = {} /\ OnceEach(ks)
        /\ \A n \in 1..Len(ks) : ks[n] \in ToSet(ks)
    BY <1>2, LinesAre DEF OnceEach
  <2>2. Len(ks) \in Nat
    BY <2>1
  <2>3. PipelineOf(call'[c]) = ToSet(ks) /\ call'[c].done \subseteq Publish
    BY <1>1, <1>2, <1>4 DEF PipelineOf, SameButAt, Standing
  <2> HIDE DEF ks
  <2> QED BY <1>4, <2>1, <2>2, <2>3 DEF MayRun
<1>9. bag' \in Bags /\ (call[c].kind = "payment" => bag'["spend"] = c)
  <2>1. bag \in [Slots -> Calls \union {None}]
    BY DEF CompactInv, TypeOK, Bags
  <2>2. "spend" \in Slots /\ "policy" \in Slots
    BY DEF Slots, Witnessed, SlotOf
  <2>3. CASE call[c].kind = "payment"
    BY <1>1, <2>1, <2>2, <2>3 DEF Bags
  <2>4. CASE call[c].kind # "payment"
    BY <1>1, <2>1, <2>4 DEF Bags
  <2> QED BY <2>3, <2>4
<1>10. Alone(c) => Ahead(call'[c], Replay(persisted)) /\ Holds(c, call'[c], bag')
  <2> SUFFICES ASSUME Alone(c)
               PROVE  Ahead(call'[c], Replay(persisted)) /\ Holds(c, call'[c], bag')
    OBVIOUS
  <2>1. Ahead(call[c], Replay(persisted))
    BY DEF CompactInv, AloneInv
  <2>2. Ahead(call'[c], Replay(persisted))
    BY <1>1, <1>4, <2>1 DEF Ahead, SameButAt
  <2>3. call[c].kind \in {"payment", "session"}
    BY <1>1, <1>2 DEF Standing, KycKinds
  <2>4. PipelineOf(call'[c]) = ToSet(Pipeline[call[c].kind])
    BY <1>4 DEF PipelineOf, SameButAt
  <2>5. \A k \in PipelineOf(call'[c]) \intersect Committed : bag'[SlotOf[k]] = c
    BY <1>2, <1>9, <2>3, <2>4, LinesAre
  <2> QED BY <2>2, <2>5 DEF Holds
<1>11. lastRoot' \in Roots \union {None}
  BY <1>1 DEF CompactInv, TypeOK
<1>12. UNCHANGED <<ledger, persisted, staged, crashes, torn>>
  BY <1>1
<1> HIDE DEF ks
<1> QED BY <1>1, <1>3, <1>4, <1>5, <1>6, <1>7, <1>8, <1>9, <1>10, <1>11, <1>12,
           AddingMoveKeeps

-----------------------------------------------------------------------------
(* Steps that begin a call.                                                *)

(* A new call.                                                             *)
IsBegun(c, at, kind, root, leaf) ==
  /\ call' \in [Calls -> CallRecord \union {None}]
  /\ call'[c] # None /\ call'[c].at = at /\ call'[c].kind = kind
  /\ call'[c].root = root /\ call'[c].leaf = leaf /\ call'[c].done = {}
  /\ call'[c].broke = FALSE /\ call'[c].why = "none"
  /\ (call'[c].alone <=> Quiet) /\ (call'[c].ready <=> leaf \in InsertedLeaves)
  /\ \A d \in Calls \ {c} : call'[d] = Disturbed[d]

(* The fields of a new call, and of the calls it disturbs.                 *)
LEMMA BegunFields ==
  ASSUME ConstantTypes, TypeOK, NEW c \in Calls, NEW at \in Ats, NEW kind \in Kinds,
         NEW root \in Roots, NEW leaf \in Leaves, call' = Begun(c, at, kind, root, leaf)
  PROVE  IsBegun(c, at, kind, root, leaf)
<1> DEFINE r == [at |-> at, kind |-> kind, root |-> root, leaf |-> leaf,
                 ready |-> leaf \in InsertedLeaves, done |-> {}, broke |-> FALSE,
                 why |-> "none", alone |-> Quiet]
<1>0. Quiet \in BOOLEAN /\ (leaf \in InsertedLeaves) \in BOOLEAN
  BY DEF Quiet
<1> DEFINE q == Quiet
           i == leaf \in InsertedLeaves
<1>1. q \in BOOLEAN /\ i \in BOOLEAN
  BY <1>0
<1> HIDE DEF q, i
<1>2. /\ r \in CallRecord
      /\ r.at = at /\ r.kind = kind /\ r.root = root /\ r.leaf = leaf
      /\ r.ready = i /\ r.done = {} /\ r.broke = FALSE /\ r.why = "none" /\ r.alone = q
  <2> DEFINE s == [at |-> at, kind |-> kind, root |-> root, leaf |-> leaf,
                   ready |-> i, done |-> {}, broke |-> FALSE, why |-> "none", alone |-> q]
  <2>1. s \in CallRecord
    BY <1>1 DEF CallRecord
  <2>2. r = s
    BY DEF q, i
  <2> QED BY <2>1, <2>2
<1>3. call' = [Disturbed EXCEPT ![c] = r]
  BY DEF Begun
<1> HIDE DEF r
<1>4. None \notin CallRecord
  BY DEF ConstantTypes
<1>5. \A d \in Calls : Disturbed[d] \in CallRecord \union {None}
  BY DisturbedFields
<1>6. Disturbed = [d \in Calls |-> Disturbed[d]]
  BY DEF Disturbed
<1>7. /\ call' = [d \in Calls |-> call'[d]] /\ call'[c] = r
      /\ \A d \in Calls \ {c} : call'[d] = Disturbed[d]
  BY <1>3, <1>6
<1>8. \A d \in Calls : call'[d] \in CallRecord \union {None}
  BY <1>2, <1>5, <1>7
<1>9. call' \in [Calls -> CallRecord \union {None}]
  BY <1>7, <1>8
<1>10. (call'[c].ready <=> leaf \in InsertedLeaves) /\ (call'[c].alone <=> Quiet)
  BY <1>1, <1>2, <1>7 DEF q, i
<1> QED BY <1>2, <1>4, <1>7, <1>9, <1>10 DEF IsBegun

(* Calls go on where they were when another begins, or the ledger is read. *)
LEMMA DisturbedKeep ==
  ASSUME ConstantTypes, TypeOK, NEW d \in Calls, call'[d] = Disturbed[d]
  PROVE  /\ call'[d] = None <=> call[d] = None
         /\ Live(d)' <=> Live(d)
         /\ Live(d) => ~call'[d].alone
         /\ call[d] # None =>
              /\ call'[d].done = call[d].done /\ call'[d].root = call[d].root
              /\ call'[d].leaf = call[d].leaf /\ call'[d].why = call[d].why
              /\ call'[d].broke = call[d].broke
              /\ Standing(call'[d]) <=> Standing(call[d])
              /\ \A k : MayRun(k, call'[d]) <=> MayRun(k, call[d])
              /\ call'[d].alone => call[d].alone
         /\ Waits(call'[d]) <=> Waits(call[d])
<1>1. call'[d] = None <=> call[d] = None
  BY DisturbedFields DEF Live
<1>2. Live(d) => ~call'[d].alone
  BY DisturbedFields
<1>3. CASE call[d] = None
  BY <1>1, <1>3 DEF Live, Waits
<1>4. CASE call[d] # None
  <2>1. /\ call'[d] # None /\ call'[d].at = call[d].at /\ call'[d].kind = call[d].kind
        /\ call'[d].root = call[d].root /\ call'[d].leaf = call[d].leaf
        /\ call'[d].done = call[d].done /\ call'[d].broke = call[d].broke
        /\ call'[d].why = call[d].why
    BY <1>4, DisturbedFields
  <2>2. Live(d)' <=> Live(d)
    BY <1>4, <2>1 DEF Live
  <2>3. ~Live(d) => call'[d] = call[d]
    BY DisturbedFields
  <2>4. Standing(call'[d]) <=> Standing(call[d])
    BY <2>1 DEF Standing, PipelineOf
  <2>5. \A k : MayRun(k, call'[d]) <=> MayRun(k, call[d])
    BY <2>1 DEF MayRun, PipelineOf
  <2>6. Waits(call'[d]) <=> Waits(call[d])
    BY <1>4, <2>1 DEF Waits
  <2>7. call'[d].alone => call[d].alone
    BY <1>2, <2>3
  <2> QED BY <1>1, <1>2, <2>1, <2>2, <2>4, <2>5, <2>6, <2>7
<1> QED BY <1>3, <1>4

(* A call begins, whatever it puts in the bag and the chain: it is alone   *)
(* only if no other one lives.                                             *)
LEMMA BeginKeeps ==
  ASSUME ConstantTypes, CompactInv, NEW c \in Calls, call[c] = None,
         call' \in [Calls -> CallRecord \union {None}], call'[c] # None,
         call'[c].done = {}, call'[c].broke = FALSE, call'[c].why = "none",
         call'[c].alone <=> Quiet, \A d \in Calls \ {c} : call'[d] = Disturbed[d],
         UNCHANGED <<ledger, persisted, lastRoot, staged, crashes, torn>>, bag' \in Bags,
         call'[c].at \in {"root", "synced", "proving"},
         call'[c].at \in {"root", "synced"} => call'[c].kind \in KycKinds,
         NEW ks, Joined(queue, queue', c, ks), Len(ks) \in Nat, OnceEach(ks),
         queue' \in Seq([circuit : Circuits, call : Calls]),
         \A n \in 1..Len(ks) : MayRun(ks[n], call'[c]),
         Quiet => Ahead(call'[c], Replay(persisted)) /\ Holds(c, call'[c], bag')
  PROVE  CompactInv'
<1>1. TypeOK /\ QueueInv /\ FileInv /\ ReplayInv /\ RootInv /\ AloneInv
  BY DEF CompactInv
<1>3. /\ call' \in [Calls -> CallRecord \union {None}] /\ call'[c] # None
      /\ call'[c].done = {} /\ call'[c].broke = FALSE /\ call'[c].why = "none"
      /\ call'[c].alone <=> Quiet
      /\ \A d \in Calls \ {c} : call'[d] = Disturbed[d]
  OBVIOUS
<1>4. TypeOK'
  BY <1>1, <1>3 DEF TypeOK
<1>5. \A d \in Calls : call[d] # None => d # c
  OBVIOUS
<1>6. \A n \in 1..Len(queue) : /\ queue[n].call \in Calls /\ call[queue[n].call] # None
                               /\ queue[n].call # c /\ MayRun(queue[n].circuit, call[queue[n].call])
  BY <1>1, FileCalls DEF QueueInv, MayQueue
<1>7. \A n \in 1..Len(queue) : /\ queue[n].call # c /\ call'[queue[n].call] # None
                               /\ MayRun(queue[n].circuit, call'[queue[n].call])
  BY <1>1, <1>3, <1>6, DisturbedKeep
<1>8. MayQueue(queue', call') /\ OnceEach(queue')
  BY <1>1, <1>3, <1>7, FileCalls, QueueJoins DEF QueueInv
<1>9. staged # None => queue' # <<>>
  <2>1. CASE staged # None
    <3>1. queue # <<>> /\ queue \in Seq([circuit : Circuits, call : Calls])
      BY <1>1, <2>1 DEF QueueInv, TypeOK
    <3>2. Len(queue) > 0 /\ Len(queue) \in Nat
      BY <3>1
    <3>3. Len(queue') > 0
      BY <3>2 DEF Joined
    <3> QED BY <3>3
  <2> QED BY <2>1
<1>10. ASSUME NEW d \in Calls, call'[d] # None PROVE Standing(call'[d])
  <2>1. CASE d = c
    BY <1>3, <2>1 DEF Standing
  <2>2. CASE d # c
    BY <1>1, <1>3, <1>10, <2>2, DisturbedKeep DEF QueueInv
  <2> QED BY <2>1, <2>2
<1>11. QueueInv'
  BY <1>8, <1>9, <1>10 DEF QueueInv
<1>12. CallsKept
  <2> SUFFICES ASSUME NEW d \in Calls PROVE CallKept(d)
    BY DEF CallsKept
  <2>1. CASE d = c
    BY <1>3, <2>1 DEF CallKept
  <2>2. CASE d # c
    BY <1>1, <1>3, <2>2, DisturbedKeep DEF CallKept
  <2> QED BY <2>1, <2>2
<1>13. FileInv' /\ ReplayInv'
  BY <1>1, <1>12, FileStays, ReplayStays
<1>14. RootInv'
  <2>1. \A d \in Calls : call[d] # None => (Waits(call'[d]) <=> Waits(call[d]))
    BY <1>1, <1>3, DisturbedKeep
  <2> QED BY <1>1, <2>1, RootStays
<1>15. \A d \in Calls : call'[d] # None /\ call'[d].alone => call'[d].why # "circuit"
  BY <1>1, <1>3, DisturbedKeep DEF AloneInv
<1>16. ASSUME NEW d \in Calls, Alone(d)'
       PROVE  /\ ~call'[d].broke
              /\ \A e \in Calls : Live(e)' => e = d
              /\ \A n \in 1..Len(queue') : queue'[n].call = d
              /\ Ahead(call'[d], Replay(persisted'))
              /\ Holds(d, call'[d], bag') /\ (staged' # None => Holds(d, call'[d], staged'))
  <2>1. d = c
    BY <1>1, <1>3, <1>16, DisturbedKeep DEF Alone
  <2>2. Quiet
    BY <1>3, <1>16, <2>1 DEF Alone
  <2>3. \A e \in Calls : Live(e)' => e = c
    BY <1>1, <1>3, <2>2, DisturbedKeep DEF Quiet
  <2>4. queue = <<>> /\ staged = None
    BY <1>1, <2>2 DEF Quiet, QueueInv
  <2>5. ASSUME NEW n \in 1..Len(queue') PROVE queue'[n].call = c
    <3>1. Len(queue) = 0
      BY <2>4
    <3>2. n \in 1..Len(ks) /\ Len(queue) + n = n
      BY <3>1 DEF Joined
    <3>3. queue'[n] = Job(c, ks[n])
      BY <3>2 DEF Joined
    <3> QED BY <3>3 DEF Job
  <2> QED BY <1>3, <2>1, <2>2, <2>3, <2>4, <2>5
<1>17. AloneInv'
  BY <1>15, <1>16 DEF AloneInv
<1> QED BY <1>4, <1>11, <1>13, <1>14, <1>17 DEF CompactInv

-----------------------------------------------------------------------------
(* The turn of a circuit begins; the contract is read; restarts.           *)

(* What has been published has been published last.                        *)
LEMMA LastIs ==
  ASSUME TypeOK, NEW i \in 1..Len(persisted), Publishes(i)
  PROVE  \E n \in 1..Len(persisted) : LastPublished(n)
<1> DEFINE k == Len(persisted)
           F == {j \in Nat : \E n \in 1..k : n = k - j /\ Publishes(n)}
<1>1. k \in Nat
  BY FileCalls
<1> HIDE DEF k
<1>2. k - i \in F
  BY <1>1 DEF k
<1>3. PICK j \in F : \A h \in F : j <= h
  <2>1. F \subseteq Nat /\ F # {}
    BY <1>2
  <2> QED BY <2>1, LeastIs
<1>4. PICK n \in 1..k : n = k - j /\ Publishes(n)
  BY <1>3
<1>5. ASSUME NEW m \in 1..k, Publishes(m) PROVE m <= n
  <2>1. k - m \in F
    BY <1>1, <1>5
  <2>2. j <= k - m /\ j \in Nat
    BY <1>3, <2>1
  <2> QED BY <1>1, <1>4, <2>2
<1> QED BY <1>4, <1>5 DEF k, LastPublished

(* A call that finds its root and leaf published begins,                   *)
LEMMA BeginSyncedKeeps ==
  ASSUME ConstantTypes, CompactInv, NEW c \in Calls, BeginSynced(c) PROVE CompactInv'
<1>1. PICK kind \in Kinds \intersect KycKinds, root \in Roots, leaf \in InsertedLeaves :
        ledger # None /\ lastRoot = root /\ call' = Begun(c, "synced", kind, root, leaf)
  BY DEF BeginSynced
<1>2. /\ call[c] = None
      /\ UNCHANGED <<ledger, bag, persisted, lastRoot, queue, staged, crashes, torn>>
  BY DEF BeginSynced
<1>3. leaf \in Leaves /\ leaf \in Replay(persisted).tree
  <2>1. Replay(persisted) \in Ledger /\ InsertedLeaves = Replay(persisted).tree
    BY DEF CompactInv, ReplayInv
  <2> QED BY <1>1, <2>1 DEF Ledger
<1>4. /\ call' \in [Calls -> CallRecord \union {None}] /\ call'[c] # None
      /\ call'[c].at = "synced" /\ call'[c].kind = kind
      /\ call'[c].root = root /\ call'[c].leaf = leaf /\ call'[c].done = {}
      /\ call'[c].broke = FALSE /\ call'[c].why = "none" /\ (call'[c].alone <=> Quiet)
      /\ \A d \in Calls \ {c} : call'[d] = Disturbed[d]
  <2>1. "synced" \in Ats /\ kind \in Kinds /\ root \in Roots /\ leaf \in Leaves /\ TypeOK
    BY <1>3 DEF CompactInv, Ats
  <2>2. call' = Begun(c, "synced", kind, root, leaf)
    BY <1>1
  <2>3. IsBegun(c, "synced", kind, root, leaf)
    BY <2>1, <2>2, BegunFields
  <2> QED BY <2>3 DEF IsBegun
<1>5. Quiet => Ahead(call'[c], Replay(persisted)) /\ Holds(c, call'[c], bag')
  <2> SUFFICES ASSUME Quiet PROVE Replay(persisted).root = root
    BY <1>3, <1>4 DEF Ahead, Holds
  <2>1. root # None
    BY <1>1 DEF ConstantTypes
  <2>2. PICK i \in 1..Len(persisted) : Publishes(i)
    BY <1>1, <2>1 DEF CompactInv, RootInv
  <2>3. PICK n \in 1..Len(persisted) : LastPublished(n)
    BY <2>2, LastIs DEF CompactInv
  <2>4. /\ Replay(persisted).root = persisted[n].root
        /\ lastRoot \in {None, persisted[n].root} \/ Waits(call[persisted[n].call])
    BY <2>3 DEF CompactInv, RootInv
  <2>5. ~Waits(call[persisted[n].call])
    <3>1. persisted[n].call \in Calls
      BY FileCalls DEF CompactInv
    <3> QED BY <3>1, PendingIs DEF Quiet, Pending
  <2> QED BY <1>1, <2>1, <2>4, <2>5
<1> DEFINE ks == <<>>
<1>6. /\ Joined(queue, queue', c, ks) /\ Len(ks) \in Nat /\ OnceEach(ks)
      /\ \A n \in 1..Len(ks) : MayRun(ks[n], call'[c])
  <2>1. Len(ks) = 0 /\ Len(queue) \in Nat
    BY FileCalls DEF CompactInv
  <2> HIDE DEF ks
  <2> QED BY <1>2, <2>1 DEF Joined, OnceEach
<1>7. bag' \in Bags /\ queue' \in Seq([circuit : Circuits, call : Calls])
  BY <1>2 DEF CompactInv, TypeOK
<1>8. UNCHANGED <<ledger, persisted, lastRoot, staged, crashes, torn>>
  BY <1>2
<1> HIDE DEF ks
<1> QED BY <1>1, <1>2, <1>4, <1>5, <1>6, <1>7, <1>8, BeginKeeps

(* a call that has to publish them first,                                  *)
LEMMA BeginSyncKeeps ==
  ASSUME ConstantTypes, CompactInv, NEW c \in Calls, BeginSync(c) PROVE CompactInv'
<1>1. PICK kind \in Kinds \intersect KycKinds, root \in Roots, leaf \in Leaves :
        call' = Begun(c, "root", kind, root, leaf)
  BY DEF BeginSync
<1>2. /\ call[c] = None /\ queue' = Append(queue, Job(c, "publish_kyc_root"))
      /\ UNCHANGED <<ledger, bag, persisted, lastRoot, staged, crashes, torn>>
  BY DEF BeginSync
<1>4. /\ call' \in [Calls -> CallRecord \union {None}] /\ call'[c] # None
      /\ call'[c].at = "root" /\ call'[c].kind = kind
      /\ call'[c].root = root /\ call'[c].leaf = leaf /\ call'[c].done = {}
      /\ call'[c].broke = FALSE /\ call'[c].why = "none" /\ (call'[c].alone <=> Quiet)
      /\ (call'[c].ready <=> leaf \in InsertedLeaves)
      /\ \A d \in Calls \ {c} : call'[d] = Disturbed[d]
  <2>1. "root" \in Ats /\ kind \in Kinds /\ root \in Roots /\ leaf \in Leaves /\ TypeOK
    BY DEF CompactInv, Ats
  <2>2. call' = Begun(c, "root", kind, root, leaf)
    BY <1>1
  <2>3. IsBegun(c, "root", kind, root, leaf)
    BY <2>1, <2>2, BegunFields
  <2> QED BY <2>3 DEF IsBegun
<1>5. Ahead(call'[c], Replay(persisted)) /\ Holds(c, call'[c], bag')
  <2>1. InsertedLeaves = Replay(persisted).tree
    BY DEF CompactInv, ReplayInv
  <2> QED BY <1>4, <2>1 DEF Ahead, Holds
<1> DEFINE ks == <<"publish_kyc_root">>
<1>6. /\ Joined(queue, queue', c, ks) /\ queue' \in Seq([circuit : Circuits, call : Calls])
  BY <1>2, JoinedOne DEF Circuits, CompactInv
<1>7. Len(ks) \in Nat /\ OnceEach(ks) /\ \A n \in 1..Len(ks) : MayRun(ks[n], call'[c])
  <2>1. Len(ks) = 1 /\ ks[1] = "publish_kyc_root"
    OBVIOUS
  <2>2. MayRun("publish_kyc_root", call'[c])
    BY <1>4 DEF MayRun
  <2> HIDE DEF ks
  <2> QED BY <2>1, <2>2 DEF OnceEach
<1>8. bag' \in Bags
  BY <1>2 DEF CompactInv, TypeOK
<1>9. UNCHANGED <<ledger, persisted, lastRoot, staged, crashes, torn>>
  BY <1>2
<1> HIDE DEF ks
<1> QED BY <1>1, <1>2, <1>4, <1>5, <1>6, <1>7, <1>8, <1>9, BeginKeeps

(* and a call of one proof.                                                *)
LEMMA BeginSingleKeeps ==
  ASSUME ConstantTypes, CompactInv, NEW c \in Calls, BeginSingle(c) PROVE CompactInv'
<1>1. PICK kind \in Kinds \ KycKinds, root \in Roots, leaf \in Leaves :
        /\ call' = Begun(c, "proving", kind, root, leaf)
        /\ bag' = [s \in Slots |->
                     IF \E k \in ToSet(Pipeline[kind]) \intersect Witnessed : SlotOf[k] = s
                     THEN c ELSE bag[s]]
        /\ queue' = queue \o Jobs(c, kind)
  BY DEF BeginSingle
<1>2. /\ call[c] = None
      /\ UNCHANGED <<ledger, persisted, lastRoot, staged, crashes, torn>>
  BY DEF BeginSingle
<1>3. kind \in DOMAIN Pipeline
  BY DEF ConstantTypes
<1>4. /\ call' \in [Calls -> CallRecord \union {None}] /\ call'[c] # None
      /\ call'[c].at = "proving" /\ call'[c].kind = kind
      /\ call'[c].root = root /\ call'[c].leaf = leaf /\ call'[c].done = {}
      /\ call'[c].broke = FALSE /\ call'[c].why = "none" /\ (call'[c].alone <=> Quiet)
      /\ \A d \in Calls \ {c} : call'[d] = Disturbed[d]
  <2>1. "proving" \in Ats /\ kind \in Kinds /\ root \in Roots /\ leaf \in Leaves /\ TypeOK
    BY DEF CompactInv, Ats
  <2>2. call' = Begun(c, "proving", kind, root, leaf)
    BY <1>1
  <2>3. IsBegun(c, "proving", kind, root, leaf)
    BY <2>1, <2>2, BegunFields
  <2> QED BY <2>3 DEF IsBegun
<1>5. bag' \in Bags
  BY <1>1 DEF CompactInv, TypeOK, Bags
<1>6. Ahead(call'[c], Replay(persisted)) /\ Holds(c, call'[c], bag')
  <2>1. PipelineOf(call'[c]) = ToSet(Pipeline[kind])
    BY <1>4 DEF PipelineOf
  <2>2. ASSUME NEW k \in ToSet(Pipeline[kind]) \intersect Committed PROVE bag'[SlotOf[k]] = c
    <3>1. k \in Witnessed /\ SlotOf[k] \in Slots
      BY ProofsAre
    <3> QED BY <1>1, <3>1
  <2> QED BY <1>4, <2>1, <2>2 DEF Ahead, Holds
<1> DEFINE ks == Pipeline[kind]
<1>7. /\ Joined(queue, queue', c, ks) /\ queue' \in Seq([circuit : Circuits, call : Calls])
  BY <1>1, <1>3, JoinedLine DEF CompactInv
<1>8. Len(ks) \in Nat /\ OnceEach(ks) /\ \A n \in 1..Len(ks) : MayRun(ks[n], call'[c])
  <2>1. /\ ks \in Seq(Proofs) /\ OnceEach(ks) /\ \A n \in 1..Len(ks) : ks[n] \in ToSet(ks)
    BY <1>3, LinesAre DEF OnceEach
  <2>2. Len(ks) \in Nat
    BY <2>1
  <2>3. PipelineOf(call'[c]) = ToSet(ks)
    BY <1>4 DEF PipelineOf
  <2> HIDE DEF ks
  <2> QED BY <1>4, <2>1, <2>2, <2>3 DEF MayRun
<1> HIDE DEF ks
<1> QED BY <1>1, <1>2, <1>4, <1>5, <1>6, <1>7, <1>8, BeginKeeps

-----------------------------------------------------------------------------
(* The steps of no call.                                                   *)

(* The turn of a circuit begins: the bag is copied.                        *)
LEMMA TakeKeeps == ASSUME ConstantTypes, CompactInv, Take PROVE CompactInv'
<1>1. /\ queue # <<>> /\ staged = None /\ staged' = bag
      /\ UNCHANGED <<ledger, bag, persisted, lastRoot, queue, call, crashes, torn>>
  BY DEF Take
<1>2. TypeOK'
  BY <1>1 DEF CompactInv, TypeOK
<1>3. QueueInv'
  BY <1>1 DEF CompactInv, QueueInv
<1>4. FileInv' /\ ReplayInv' /\ RootInv'
  <2>1. CallsKept
    <3> SUFFICES ASSUME NEW d \in Calls PROVE CallKept(d)
      BY DEF CallsKept
    <3> QED BY <1>1 DEF CallKept, Live
  <2> QED BY <1>1, <2>1, FileStays, ReplayStays, RootStays DEF CompactInv
<1>5. AloneInv'
  <2>1. \A d \in Calls : (Alone(d)' <=> Alone(d)) /\ (Live(d)' <=> Live(d))
    BY <1>1 DEF Alone, Live
  <2> QED BY <1>1, <2>1 DEF CompactInv, AloneInv
<1> QED BY <1>2, <1>3, <1>4, <1>5 DEF CompactInv

(* The contract is replayed when somebody reads it.                        *)
LEMMA ReadKeeps == ASSUME ConstantTypes, CompactInv, ReadLedger PROVE CompactInv'
<1>1. /\ ledger' = Replay(persisted) /\ call' = Disturbed
      /\ bag' = IF persisted = <<>> THEN bag ELSE Last(persisted).bag
      /\ UNCHANGED <<persisted, lastRoot, queue, staged, crashes, torn>>
  BY DEF ReadLedger
<1>2. \A d \in Calls : call'[d] = Disturbed[d]
  BY <1>1
<1>3. bag' \in Bags
  <2>1. CASE persisted = <<>>
    BY <1>1, <2>1 DEF CompactInv, TypeOK
  <2>2. CASE persisted # <<>>
    <3>1. persisted \in Seq(Step)
      BY DEF CompactInv, TypeOK
    <3>2. Last(persisted) \in Step
      BY <2>2, <3>1 DEF Last
    <3> QED BY <1>1, <2>2, <3>2 DEF Step
  <2> QED BY <2>1, <2>2
<1>4. call' \in [Calls -> CallRecord \union {None}]
  <2>1. \A d \in Calls : Disturbed[d] \in CallRecord \union {None}
    BY DisturbedFields DEF CompactInv
  <2>2. Disturbed = [d \in Calls |-> Disturbed[d]]
    BY DEF Disturbed
  <2> QED BY <1>1, <2>1, <2>2
<1>5. TypeOK'
  BY <1>1, <1>3, <1>4 DEF CompactInv, TypeOK, ReplayInv
<1>6. QueueInv'
  <2>1. MayQueue(queue, call')
    BY <1>2, FileCalls, DisturbedKeep DEF CompactInv, QueueInv, MayQueue
  <2>2. \A d \in Calls : call'[d] # None => Standing(call'[d])
    BY <1>2, DisturbedKeep DEF CompactInv, QueueInv
  <2> QED BY <1>1, <2>1, <2>2 DEF CompactInv, QueueInv
<1>7. FileInv' /\ ReplayInv' /\ RootInv'
  <2>1. CallsKept
    <3> SUFFICES ASSUME NEW d \in Calls PROVE CallKept(d)
      BY DEF CallsKept
    <3> QED BY <1>2, DisturbedKeep DEF CallKept, CompactInv
  <2>2. \A d \in Calls : call[d] # None => (Waits(call'[d]) <=> Waits(call[d]))
    BY <1>2, DisturbedKeep DEF CompactInv
  <2> QED BY <1>1, <2>1, <2>2, FileStays, ReplayStays, RootStays DEF CompactInv
<1>8. AloneInv'
  <2>1. \A d \in Calls : ~Alone(d)'
    BY <1>2, DisturbedKeep DEF Alone, CompactInv
  <2>2. \A d \in Calls : call'[d] # None /\ call'[d].alone => call'[d].why # "circuit"
    BY <1>2, DisturbedKeep DEF CompactInv, AloneInv
  <2> QED BY <2>1, <2>2 DEF AloneInv
<1> QED BY <1>5, <1>6, <1>7, <1>8 DEF CompactInv

(* A restart, which may find the file empty.                               *)
LEMMA CrashKeeps ==
  ASSUME ConstantTypes, CompactInv, Crash \/ CrashInSave PROVE CompactInv'
<1>1. /\ crashes < MaxCrashes /\ crashes' = crashes + 1
      /\ ledger' = None /\ bag' = [s \in Slots |-> None] /\ lastRoot' = None
      /\ queue' = <<>> /\ staged' = None
      /\ call' = [c \in Calls |->
                    IF Live(c) THEN [call[c] EXCEPT !.at = "lost"] ELSE call[c]]
      /\ \/ persisted' = persisted /\ torn' = torn
         \/ persisted' = <<>> /\ torn' = TRUE
  BY DEF Crash, CrashInSave, Restarted
<1>2. ASSUME NEW d \in Calls
      PROVE  /\ call'[d] \in CallRecord \union {None}
             /\ (call'[d] = None <=> call[d] = None)
             /\ ~Live(d)'
             /\ call[d] # None => /\ call'[d].done = call[d].done /\ call'[d].why = call[d].why
                                  /\ call'[d].root = call[d].root
                                  /\ call'[d].leaf = call[d].leaf
                                  /\ call'[d].alone = call[d].alone
                                  /\ Standing(call[d]) => Standing(call'[d])
  <2>1. call[d] \in CallRecord \union {None} /\ None \notin CallRecord
    BY DEF CompactInv, TypeOK, ConstantTypes
  <2>2. CASE Live(d)
    <3>1. call[d] \in CallRecord /\ call[d] # None
      BY <2>1, <2>2 DEF Live
    <3>2. call'[d] = [call[d] EXCEPT !.at = "lost"]
      BY <1>1, <2>2
    <3>3. /\ call'[d] \in CallRecord /\ call'[d].at = "lost"
          /\ call'[d].done = call[d].done /\ call'[d].why = call[d].why
          /\ call'[d].root = call[d].root /\ call'[d].leaf = call[d].leaf
          /\ call'[d].alone = call[d].alone
      BY <3>1, <3>2 DEF CallRecord, Ats
    <3> QED BY <2>1, <3>1, <3>3 DEF Live, Standing
  <2>3. CASE ~Live(d)
    <3>1. call'[d] = call[d]
      BY <1>1, <2>3
    <3> QED BY <2>1, <2>3, <3>1 DEF Live
  <2> QED BY <2>2, <2>3
<1>3. TypeOK'
  <2>1. call' \in [Calls -> CallRecord \union {None}]
    BY <1>1, <1>2
  <2>2. bag' \in Bags
    BY <1>1 DEF Bags
  <2>3. persisted' \in Seq(Step) /\ torn' \in BOOLEAN
    <3>1. persisted \in Seq(Step) /\ torn \in BOOLEAN
      BY DEF CompactInv, TypeOK
    <3>2. <<>> \in Seq(Step)
      OBVIOUS
    <3> QED BY <1>1, <3>1, <3>2, Zenon
  <2>4. crashes' \in 0..MaxCrashes
    BY <1>1 DEF CompactInv, TypeOK, ConstantTypes
  <2> QED BY <1>1, <2>1, <2>2, <2>3, <2>4 DEF TypeOK
<1>4. QueueInv'
  <2>1. \A d \in Calls : call'[d] # None => Standing(call'[d])
    BY <1>2 DEF CompactInv, QueueInv
  <2>2. Len(queue') = 0
    BY <1>1
  <2> QED BY <1>1, <2>1, <2>2 DEF QueueInv, MayQueue, OnceEach
<1>5. FileInv' /\ ReplayInv' /\ RootInv'
  <2>1. CASE persisted' = persisted /\ torn' = torn
    <3>1. CallsKept
      <4> SUFFICES ASSUME NEW d \in Calls PROVE CallKept(d)
        BY DEF CallsKept
      <4> QED BY <1>2 DEF CallKept
    <3>2. FileInv' /\ ReplayInv'
      BY <1>1, <2>1, <3>1, FileStays, ReplayStays DEF CompactInv
    <3>3. \A d \in Calls : ~Waits(call'[d])
      <4> SUFFICES ASSUME NEW d \in Calls PROVE ~Waits(call'[d])
        OBVIOUS
      <4>1. ~Live(d)'
        BY <1>2
      <4> QED BY <4>1 DEF Live, Waits
    <3>4. RootInv'
      <4>1. /\ \A n : LastPublished(n)' <=> LastPublished(n)
            /\ Replay(persisted') = Replay(persisted) /\ Len(persisted') = Len(persisted)
        BY <2>1 DEF LastPublished, Publishes
      <4>2. \A n \in 1..Len(persisted) : ~Waits(call'[persisted[n].call])
        BY <3>3, FileCalls DEF CompactInv
      <4>3. \A n \in 1..Len(persisted) :
              LastPublished(n) => Replay(persisted).root = persisted[n].root
        BY DEF CompactInv, RootInv
      <4> HIDE DEF Waits, Publishes, LastPublished
      <4> QED BY <1>1, <2>1, <4>1, <4>2, <4>3 DEF RootInv
    <3> QED BY <3>2, <3>4
  <2>2. CASE persisted' = <<>> /\ torn' = TRUE
    <3>1. Len(persisted') = 0
      BY <2>2
    <3>2. FileInv'
      BY <1>2, <2>2, <3>1 DEF FileInv
    <3>3. InsertedLeaves' = {}
      BY <3>1 DEF InsertedLeaves
    <3>4. Replay(persisted') = Genesis /\ Replays(persisted')
      BY <2>2, ReplayEmpty
    <3>5. ReplayInv'
      BY <1>1, <3>3, <3>4, GenesisIs DEF ReplayInv, ReplayRestores
    <3>6. RootInv'
      BY <1>1, <3>1 DEF RootInv, LastPublished
    <3> QED BY <3>2, <3>5, <3>6
  <2> QED BY <1>1, <2>1, <2>2
<1>6. AloneInv'
  BY <1>2 DEF Alone, AloneInv, CompactInv
<1> QED BY <1>3, <1>4, <1>5, <1>6 DEF CompactInv

-----------------------------------------------------------------------------
(* A circuit that throws.                                                  *)

(* The circuit whose turn it is.                                           *)
TurnOf(c, k, step) ==
  /\ c = Head(queue).call /\ k = Head(queue).circuit
  /\ step = [circuit |-> k, call |-> c, root |-> call[c].root, leaf |-> call[c].leaf,
             bag |-> staged]

(* The circuit whose turn it is is one its call may run.                   *)
LEMMA TurnIs ==
  ASSUME ConstantTypes, CompactInv, staged # None, NEW c, NEW k, NEW step, TurnOf(c, k, step)
  PROVE  /\ c \in Calls /\ k \in Circuits /\ call[c] # None /\ call[c] \in CallRecord
         /\ MayRun(k, call[c]) /\ Standing(call[c])
         /\ queue # <<>> /\ 1 \in 1..Len(queue) /\ queue[1].call = c
         /\ step \in Step /\ step.circuit = k /\ step.call = c
         /\ step.root = call[c].root /\ step.leaf = call[c].leaf /\ step.bag = staged
<1>1. queue # <<>> /\ queue \in Seq([circuit : Circuits, call : Calls])
  BY DEF CompactInv, QueueInv, TypeOK
<1>2. 1 \in 1..Len(queue) /\ Head(queue) = queue[1]
  BY <1>1
<1>3. queue[1].call = c /\ queue[1].circuit = k /\ c \in Calls /\ k \in Circuits
  BY <1>2, FileCalls DEF TurnOf, CompactInv
<1>4. call[c] # None /\ MayRun(k, call[c])
  BY <1>2, <1>3 DEF CompactInv, QueueInv, MayQueue
<1>5. call[c] \in CallRecord /\ Standing(call[c])
  BY <1>3, <1>4 DEF CompactInv, TypeOK, QueueInv
<1>6. staged \in Bags /\ call[c].root \in Roots /\ call[c].leaf \in Leaves
  BY <1>5, CallFields DEF CompactInv, TypeOK
<1>7. step \in Step /\ step.circuit = k /\ step.call = c
      /\ step.root = call[c].root /\ step.leaf = call[c].leaf /\ step.bag = staged
  BY <1>3, <1>6 DEF TurnOf, Step
<1> QED BY <1>1, <1>2, <1>3, <1>4, <1>5, <1>7

(* Its call when the next one has its turn.                                *)
LEMMA TurnPasses ==
  ASSUME ConstantTypes, CompactInv, staged # None, NEW c, NEW k, NEW step, TurnOf(c, k, step),
         queue' = Tail(queue), call'[c] # None, SameButRun(call'[c], call[c]),
         \A d \in Calls \ {c} : call'[d] = call[d],
         call'[c].done \subseteq call[c].done \union {k},
         call'[c].at \in {"root", "leaf"} => ~call'[c].broke,
         staged' = None, call[c].done \subseteq call'[c].done
  PROVE  /\ QueueInv' /\ queue' \in Seq([circuit : Circuits, call : Calls])
         /\ \A n \in 1..Len(queue') : n + 1 \in 1..Len(queue) /\ queue'[n] = queue[n + 1]
<1>1. /\ c \in Calls /\ call[c] # None /\ MayRun(k, call[c]) /\ Standing(call[c])
      /\ 1 \in 1..Len(queue) /\ queue # <<>>
  BY TurnIs
<1>2. /\ queue' \in Seq([circuit : Circuits, call : Calls])
      /\ \A n \in 1..Len(queue') : n + 1 \in 1..Len(queue) /\ queue'[n] = queue[n + 1]
  <2> DEFINE J == [circuit : Circuits, call : Calls]
  <2>1. queue \in Seq(J)
    BY DEF CompactInv, TypeOK
  <2> HIDE DEF J
  <2>2. queue' \in Seq(J) /\ Len(queue') = Len(queue) - 1
        /\ \A n \in 1..Len(queue') : n + 1 \in 1..Len(queue) /\ queue'[n] = queue[n + 1]
    BY <1>1, <2>1
  <2> QED BY <2>2 DEF J
<1>3. OnceEach(queue) /\ MayQueue(queue, call)
  BY DEF CompactInv, QueueInv
<1>4. OnceEach(queue')
  <2> SUFFICES ASSUME NEW m \in 1..Len(queue'), NEW n \in 1..Len(queue'), queue'[m] = queue'[n]
               PROVE  m = n
    BY DEF OnceEach
  <2>1. m + 1 = n + 1
    BY <1>2, <1>3 DEF OnceEach
  <2> QED BY <2>1
<1>5. ASSUME NEW n \in 1..Len(queue')
      PROVE  call'[queue'[n].call] # None /\ MayRun(queue'[n].circuit, call'[queue'[n].call])
  <2> DEFINE j == queue[n + 1]
  <2>1. n + 1 \in 1..Len(queue) /\ queue'[n] = j
    BY <1>2
  <2>2. j.call \in Calls /\ call[j.call] # None /\ MayRun(j.circuit, call[j.call])
        /\ j = Job(j.call, j.circuit)
    BY <1>3, <2>1, FileCalls DEF MayQueue, CompactInv
  <2>3. CASE j.call = c
    <3>1. Head(queue) = queue[1] /\ queue[1] = Job(c, k)
      <4>1. Head(queue) = queue[1]
        BY <1>1
      <4>2. queue[1] = Job(queue[1].call, queue[1].circuit)
        BY <1>1, FileCalls DEF CompactInv
      <4> QED BY <4>1, <4>2 DEF TurnOf
    <3>2. j # queue[1]
      BY <1>1, <1>3, <2>1 DEF OnceEach
    <3>3. j.circuit # k
      BY <2>2, <2>3, <3>1, <3>2
    <3>4. j.circuit \notin call'[c].done
      BY <2>2, <2>3, <3>3 DEF MayRun
    <3>5. MayRun(j.circuit, call'[c])
      <4>1. MayRun(j.circuit, call[c])
        BY <2>2, <2>3
      <4> HIDE DEF j
      <4> QED BY <3>4, <4>1 DEF MayRun, SameButRun, PipelineOf
    <3> QED BY <2>1, <2>3, <3>5
  <2>4. CASE j.call # c
    <3>1. call'[j.call] = call[j.call]
      BY <2>2, <2>4
    <3> QED BY <2>1, <2>2, <3>1
  <2> QED BY <2>3, <2>4
<1>6. Standing(call'[c])
  <2>1. call[c].at \notin {"answered", "synced"}
    BY <1>1 DEF MayRun, Standing
  <2>2. CASE call[c].at \in {"root", "leaf"}
    <3>1. call[c].kind \in Kinds
      BY <1>1, CallFields, TurnIs
    <3>2. /\ k \notin PipelineOf(call[c]) /\ k \in Publish
          /\ call[c].at = "root" => k = "publish_kyc_root"
      BY <1>1, <2>2, <3>1, LinesAre DEF MayRun, PipelineOf, ConstantTypes, Publish
    <3>3. call[c].kind \in KycKinds /\ call[c].done \subseteq Publish
          /\ (call[c].at = "root" => "publish_kyc_leaf" \notin call[c].done)
      BY <1>1, <2>2 DEF Standing
    <3> QED BY <2>2, <3>2, <3>3 DEF Standing, SameButRun
  <2>3. CASE call[c].at \notin {"root", "leaf", "answered", "synced"}
    BY <2>3 DEF Standing, SameButRun
  <2> QED BY <2>1, <2>2, <2>3
<1>7. \A d \in Calls : call'[d] # None => Standing(call'[d])
  BY <1>6 DEF CompactInv, QueueInv
<1>8. QueueInv'
  BY <1>4, <1>5, <1>7 DEF QueueInv, MayQueue
<1> QED BY <1>2, <1>8

(* A circuit that throws.                                                  *)
LEMMA ThrowKeeps ==
  ASSUME ConstantTypes, CompactInv, staged # None, NEW c, NEW k, NEW step, TurnOf(c, k, step),
         ~Accepts(Replay(persisted), step),
         queue' = Tail(queue), bag' = staged, ledger' = Replay(persisted),
         call' = [call EXCEPT ![c].broke = TRUE],
         persisted' = persisted, staged' = None, UNCHANGED <<lastRoot, crashes, torn>>
  PROVE  CompactInv'
<1>1. /\ c \in Calls /\ k \in Circuits /\ call[c] # None /\ call[c] \in CallRecord
      /\ MayRun(k, call[c]) /\ Standing(call[c])
      /\ 1 \in 1..Len(queue) /\ queue[1].call = c
      /\ step.circuit = k /\ step.call = c
      /\ step.root = call[c].root /\ step.leaf = call[c].leaf /\ step.bag = staged
  BY TurnIs
<1>2. /\ call' \in [Calls -> CallRecord \union {None}] /\ call'[c] # None
      /\ call'[c].done = call[c].done /\ call'[c].broke = TRUE
      /\ SameButRun(call'[c], call[c]) /\ \A d \in Calls \ {c} : call'[d] = call[d]
  BY <1>1, CallBreaks DEF CompactInv
<1>3. k \in Proofs
  <2>1. k \notin Publish
    BY <1>1, ProofsAre DEF Accepts
  <2> QED BY <1>1, <2>1, ProofsAre
<1>4. k \in PipelineOf(call[c]) /\ call[c].at \in {"proving", "refused"}
  BY <1>1, <1>3, ProofsAre DEF MayRun, Publish
<1>5. ~call[c].alone \/ ~Live(c)
  <2> SUFFICES ASSUME Live(c), call[c].alone PROVE FALSE
    OBVIOUS
  <2>1. Alone(c) /\ call[c].at = "proving"
    BY <1>4 DEF Alone, Live
  <2>2. Ahead(call[c], Replay(persisted)) /\ Holds(c, call[c], staged)
    BY <1>1, <2>1 DEF CompactInv, AloneInv
  <2>3. call[c].kind \in DOMAIN Pipeline
    BY <1>1, CallFields DEF ConstantTypes
  <2>4. k \in Members => call[c].kind \in KycKinds
    BY <1>4, <2>3, LinesAre DEF PipelineOf
  <2>5. k \in Members => step.root = Replay(persisted).root /\ step.leaf \in Replay(persisted).tree
    BY <1>1, <2>1, <2>2, <2>4 DEF Ahead
  <2>6. k \in Committed => step.bag[SlotOf[k]] = step.call
    BY <1>1, <1>4, <2>1, <2>2 DEF Holds
  <2> QED BY <1>1, <2>5, <2>6 DEF Accepts
<1>6. /\ QueueInv' /\ queue' \in Seq([circuit : Circuits, call : Calls])
      /\ \A n \in 1..Len(queue') : n + 1 \in 1..Len(queue) /\ queue'[n] = queue[n + 1]
  BY <1>1, <1>2, <1>4, TurnPasses DEF SameButRun
<1>7. TypeOK'
  BY <1>2, <1>6 DEF CompactInv, TypeOK, ReplayInv
<1>8. CallsKept
  <2> SUFFICES ASSUME NEW d \in Calls PROVE CallKept(d)
    BY DEF CallsKept
  <2> QED BY <1>1, <1>2 DEF CallKept, Live, SameButRun
<1>9. RootInv'
  <2>1. \A d \in Calls : call[d] # None => (Waits(call'[d]) <=> Waits(call[d]))
    BY <1>1, <1>2 DEF Waits, SameButRun
  <2> QED BY <2>1, RootStays DEF CompactInv
<1>10. FileInv' /\ ReplayInv'
  BY <1>8, FileStays, ReplayStays DEF CompactInv
<1>11. \A d \in Calls : call'[d] # None /\ call'[d].alone => call'[d].why # "circuit"
  BY <1>1, <1>2 DEF CompactInv, AloneInv, SameButRun
<1>12. \A d \in Calls : ~Alone(d)'
  <2> SUFFICES ASSUME NEW d \in Calls, Alone(d)' PROVE FALSE
    OBVIOUS
  <2>1. Alone(d)
    BY <1>1, <1>2 DEF Alone, Live, SameButRun
  <2>2. d = c
    BY <1>1, <2>1 DEF CompactInv, AloneInv
  <2> QED BY <1>5, <2>1, <2>2 DEF Alone
<1>13. AloneInv'
  BY <1>11, <1>12 DEF AloneInv
<1> QED BY <1>6, <1>7, <1>9, <1>10, <1>13 DEF CompactInv

-----------------------------------------------------------------------------
(* A circuit that is accepted: the file and the replay.                    *)

(* The step of a circuit that is accepted.                                 *)
Accepted(c, k, step) ==
  /\ TurnOf(c, k, step) /\ staged # None /\ Accepts(Replay(persisted), step)
  /\ queue' = Tail(queue) /\ bag' = staged /\ staged' = None
  /\ ledger' = Applied(Replay(persisted), step) /\ persisted' = Append(persisted, step)
  /\ call' = [call EXCEPT ![c].done = @ \union {k}]
  /\ UNCHANGED <<lastRoot, crashes, torn>>

(* What it does to the calls and the file.                                 *)
Ran(c, k, step) ==
  /\ c \in Calls /\ k \in Circuits /\ call[c] # None /\ call[c] \in CallRecord
  /\ MayRun(k, call[c]) /\ Standing(call[c])
  /\ step \in Step /\ step.circuit = k /\ step.call = c
  /\ step.root = call[c].root /\ step.leaf = call[c].leaf /\ step.bag = staged
  /\ call' \in [Calls -> CallRecord \union {None}] /\ call'[c] # None
  /\ call'[c].done = call[c].done \union {k} /\ call'[c].broke = call[c].broke
  /\ SameButRun(call'[c], call[c]) /\ \A d \in Calls \ {c} : call'[d] = call[d]
  /\ Len(persisted) \in Nat /\ Len(persisted') = Len(persisted) + 1
  /\ persisted' \in Seq(Step) /\ persisted'[Len(persisted) + 1] = step
  /\ \A n \in 1..Len(persisted) : persisted'[n] = persisted[n] /\ n \in 1..Len(persisted')
  /\ \A n \in 1..Len(persisted') : n \in 1..Len(persisted) \/ n = Len(persisted) + 1

(* A circuit that is accepted goes to the end of the file, and to what its *)
(* call has run.                                                           *)
LEMMA AcceptedRuns ==
  ASSUME ConstantTypes, CompactInv, NEW c, NEW k, NEW step, Accepted(c, k, step)
  PROVE  Ran(c, k, step)
<1>1. /\ c \in Calls /\ k \in Circuits /\ call[c] # None /\ call[c] \in CallRecord
      /\ MayRun(k, call[c]) /\ Standing(call[c])
      /\ step \in Step /\ step.circuit = k /\ step.call = c
      /\ step.root = call[c].root /\ step.leaf = call[c].leaf /\ step.bag = staged
  BY TurnIs DEF Accepted
<1>2. call' = [call EXCEPT ![c].done = @ \union {k}] /\ TypeOK
  BY DEF Accepted, CompactInv
<1>3. /\ call' \in [Calls -> CallRecord \union {None}] /\ call'[c] # None
      /\ call'[c].done = call[c].done \union {k} /\ call'[c].broke = call[c].broke
      /\ SameButRun(call'[c], call[c]) /\ \A d \in Calls \ {c} : call'[d] = call[d]
  BY <1>1, <1>2, CallRuns
<1>4. persisted \in Seq(Step) /\ persisted' = Append(persisted, step)
  BY DEF Accepted, CompactInv, TypeOK
<1> HIDE DEF CompactInv, Accepted
<1>5. /\ Len(persisted) \in Nat /\ Len(persisted') = Len(persisted) + 1
      /\ persisted' \in Seq(Step) /\ persisted'[Len(persisted) + 1] = step
      /\ \A n \in 1..Len(persisted) : persisted'[n] = persisted[n] /\ n \in 1..Len(persisted')
      /\ \A n \in 1..Len(persisted') : n \in 1..Len(persisted) \/ n = Len(persisted) + 1
  <2> DEFINE S == Step
  <2> HIDE DEF S
  <2>1. persisted \in Seq(S) /\ step \in S
    BY <1>1, <1>4 DEF S
  <2>2. /\ Len(persisted) \in Nat /\ Len(persisted') = Len(persisted) + 1
        /\ persisted' \in Seq(S) /\ persisted'[Len(persisted) + 1] = step
        /\ \A n \in 1..Len(persisted) : persisted'[n] = persisted[n]
    BY <1>4, <2>1
  <2> QED BY <2>2 DEF S
<1> QED BY <1>1, <1>3, <1>5 DEF Ran

(* Its entry is the call's first of that circuit.                          *)
LEMMA NotBefore ==
  ASSUME CompactInv, NEW c, NEW k, NEW step, Ran(c, k, step), NEW n \in 1..Len(persisted)
  PROVE  persisted[n].call # c \/ persisted[n].circuit # k
BY DEF CompactInv, FileInv, Ran, MayRun

(* FileInv: it was not in the file before.                                 *)
LEMMA AcceptedFile ==
  ASSUME ConstantTypes, CompactInv, NEW c, NEW k, NEW step, Accepted(c, k, step),
         Ran(c, k, step)
  PROVE  FileInv'
<1> DEFINE L == Len(persisted)
<1>1. ASSUME NEW n \in 1..Len(persisted')
      PROVE  LET s == persisted'[n] IN
             /\ call'[s.call] # None /\ s.circuit \in call'[s.call].done
             /\ s.root = call'[s.call].root /\ s.leaf = call'[s.call].leaf
  <2>1. CASE n \in 1..L
    <3>1. persisted'[n] = persisted[n] /\ persisted[n].call \in Calls
      BY <2>1, FileCalls DEF Ran, CompactInv
    <3>2. /\ call[persisted[n].call] # None
          /\ persisted[n].circuit \in call[persisted[n].call].done
          /\ persisted[n].root = call[persisted[n].call].root
          /\ persisted[n].leaf = call[persisted[n].call].leaf
      BY <2>1 DEF CompactInv, FileInv
    <3>3. CASE persisted[n].call = c
      BY <3>1, <3>2, <3>3 DEF Ran, SameButRun
    <3>4. CASE persisted[n].call # c
      BY <3>1, <3>2, <3>4 DEF Ran
    <3> QED BY <3>3, <3>4
  <2>2. CASE n = L + 1
    BY <2>2 DEF Ran, SameButRun
  <2> QED BY <2>1, <2>2 DEF Ran
<1>2. ASSUME NEW m \in 1..Len(persisted'), NEW n \in 1..Len(persisted'),
             persisted'[m].call = persisted'[n].call,
             persisted'[m].circuit = persisted'[n].circuit
      PROVE  m = n
  <2>1. CASE m \in 1..L /\ n \in 1..L
    BY <1>2, <2>1 DEF Ran, CompactInv, FileInv
  <2>2. CASE m \in 1..L /\ n = L + 1
    BY <1>2, <2>2, NotBefore DEF Ran
  <2>3. CASE m = L + 1 /\ n \in 1..L
    BY <1>2, <2>3, NotBefore DEF Ran
  <2> QED BY <2>1, <2>2, <2>3 DEF Ran
<1>3. ASSUME NEW d \in Calls, call'[d] # None, ~torn' \/ Live(d)', NEW j \in call'[d].done
      PROVE  Recorded(d, j)'
  <2>1. CASE d = c /\ j = k
    <3>1. L + 1 \in 1..Len(persisted')
      BY DEF Ran
    <3> QED BY <2>1, <3>1 DEF Recorded, Ran
  <2>2. CASE d # c \/ j # k
    <3>1. call[d] # None /\ (~torn \/ Live(d)) /\ j \in call[d].done
      BY <1>3, <2>2 DEF Ran, Accepted, Live, SameButRun
    <3>2. PICK n \in 1..L : persisted[n].call = d /\ persisted[n].circuit = j
      BY <3>1 DEF CompactInv, FileInv, Recorded
    <3> QED BY <3>2 DEF Recorded, Ran
  <2> QED BY <2>1, <2>2
<1> QED BY <1>1, <1>2, <1>3 DEF FileInv

(* The contract after it.                                                  *)
LEMMA AcceptedReplay ==
  ASSUME ConstantTypes, CompactInv, NEW c, NEW k, NEW step, Accepted(c, k, step),
         Ran(c, k, step)
  PROVE  /\ ReplayInv'
         /\ Replay(persisted)' = Applied(Replay(persisted), step)
<1>1. persisted \in Seq(Step) /\ step \in Step /\ persisted' = Append(persisted, step)
  BY DEF CompactInv, TypeOK, Ran, Accepted
<1>2. /\ Replay(persisted)' = Applied(Replay(persisted), step)
      /\ Replays(persisted)' <=> Replays(persisted) /\ Accepts(Replay(persisted), step)
  <2>1. /\ Replay(Append(persisted, step)) = Applied(Replay(persisted), step)
        /\ Replays(Append(persisted, step)) <=>
             Replays(persisted) /\ Accepts(Replay(persisted), step)
    BY <1>1, ReplayOneMore
  <2> QED BY <1>1, <2>1
<1>3. Replays(persisted) /\ Replay(persisted) \in Ledger
      /\ InsertedLeaves = Replay(persisted).tree
  BY DEF CompactInv, ReplayInv, ReplayRestores
<1>4. ReplayRestores'
  BY <1>2, <1>3 DEF ReplayRestores, Accepted
<1>5. /\ Applied(Replay(persisted), step) \in Ledger
      /\ k = "publish_kyc_leaf" => Applied(Replay(persisted), step).tree
                                   = Replay(persisted).tree \union {step.leaf}
      /\ k # "publish_kyc_leaf" => Applied(Replay(persisted), step).tree
                                   = Replay(persisted).tree
  <2> DEFINE l == Replay(persisted)
  <2>1. l \in Ledger /\ step \in Step /\ step.circuit = k
    BY <1>3 DEF Ran
  <2> HIDE DEF l
  <2>2. /\ Applied(l, step) \in Ledger
        /\ k = "publish_kyc_leaf" => Applied(l, step).tree = l.tree \union {step.leaf}
        /\ k # "publish_kyc_leaf" => Applied(l, step).tree = l.tree
    BY <2>1, AppliedFields
  <2> QED BY <2>2 DEF l
<1>6. InsertedLeaves' = IF k = "publish_kyc_leaf" THEN InsertedLeaves \union {step.leaf}
                        ELSE InsertedLeaves
  <2> DEFINE L == Len(persisted)
  <2>1. ASSUME NEW x \in InsertedLeaves PROVE x \in InsertedLeaves'
    <3>1. PICK n \in 1..L : persisted[n].circuit = "publish_kyc_leaf" /\ x = persisted[n].leaf
      BY <2>1 DEF InsertedLeaves
    <3> QED BY <3>1 DEF InsertedLeaves, Ran
  <2>2. k = "publish_kyc_leaf" => step.leaf \in InsertedLeaves'
    <3>1. L + 1 \in 1..Len(persisted')
      BY DEF Ran
    <3> QED BY <3>1 DEF InsertedLeaves, Ran
  <2>3. ASSUME NEW x \in InsertedLeaves'
        PROVE  x \in InsertedLeaves \/ (k = "publish_kyc_leaf" /\ x = step.leaf)
    <3>1. PICK n \in 1..Len(persisted') :
            persisted'[n].circuit = "publish_kyc_leaf" /\ x = persisted'[n].leaf
      BY <2>3 DEF InsertedLeaves
    <3>2. CASE n \in 1..L
      BY <3>1, <3>2 DEF InsertedLeaves, Ran
    <3>3. CASE n = L + 1
      BY <3>1, <3>3 DEF Ran
    <3> QED BY <3>2, <3>3 DEF Ran
  <2> QED BY <2>1, <2>2, <2>3
<1> QED BY <1>2, <1>3, <1>4, <1>5, <1>6 DEF ReplayInv

-----------------------------------------------------------------------------
(* A circuit that is accepted: the root, and calls nobody overlaps.        *)

(* The root last published and its continuation.                           *)
LEMMA AcceptedRoot ==
  ASSUME ConstantTypes, CompactInv, NEW c, NEW k, NEW step, Accepted(c, k, step),
         Ran(c, k, step), Replay(persisted)' = Applied(Replay(persisted), step)
  PROVE  RootInv'
<1> DEFINE L == Len(persisted)
           now == Replay(persisted)
<1>1. now \in Ledger /\ step \in Step /\ step.circuit = k
  BY DEF CompactInv, ReplayInv, Ran
<1>2. /\ k = "publish_kyc_root" => Applied(now, step).root = step.root
      /\ k # "publish_kyc_root" => Applied(now, step).root = now.root
  <2> HIDE DEF now
  <2> QED BY <1>1, AppliedFields
<1>3. \A n \in 1..L : persisted[n].call \in Calls /\ call[persisted[n].call] # None
                        /\ (Publishes(n)' <=> Publishes(n)) /\ persisted'[n] = persisted[n]
  BY FileCalls DEF CompactInv, FileInv, Publishes, Ran
<1>4. \A n \in 1..Len(persisted') :
        n = L + 1 => (Publishes(n)' <=> k = "publish_kyc_root")
  BY DEF Publishes, Ran
<1>5. ASSUME NEW n \in 1..L, Publishes(n)
      PROVE  Waits(call'[persisted[n].call]) <=> Waits(call[persisted[n].call])
  <2>1. CASE persisted[n].call # c
    BY <1>3, <2>1 DEF Ran
  <2>2. CASE persisted[n].call = c
    <3>1. "publish_kyc_root" \in call[c].done
      BY <1>5, <2>2 DEF CompactInv, FileInv, Publishes
    <3> QED BY <2>2, <3>1 DEF Ran, Waits, SameButRun
  <2> QED BY <2>1, <2>2
<1>6. k = "publish_kyc_root" => Waits(call'[c]) /\ step.root = call[c].root
  <2> SUFFICES ASSUME k = "publish_kyc_root" PROVE Waits(call'[c]) /\ step.root = call[c].root
    OBVIOUS
  <2>1. call[c].kind \in DOMAIN Pipeline
    BY CallFields DEF Ran, ConstantTypes
  <2>2. k \notin PipelineOf(call[c])
    BY <2>1, LinesAre DEF PipelineOf, Publish
  <2>3. call[c].at = "root"
    BY <2>2 DEF Ran, MayRun
  <2> QED BY <2>3 DEF Ran, Waits, SameButRun
<1>7. ASSUME NEW m \in 1..Len(persisted'), NEW n \in 1..Len(persisted'), m < n,
             Publishes(m)', Publishes(n)', Waits(call'[persisted'[m].call])
      PROVE  Waits(call'[persisted'[n].call])
  <2>1. m \in 1..L
    BY <1>7 DEF Ran
  <2>2. CASE n \in 1..L
    BY <1>3, <1>5, <1>7, <2>1, <2>2 DEF CompactInv, RootInv
  <2>3. CASE n = L + 1
    BY <1>4, <1>6, <1>7, <2>3 DEF Ran
  <2> QED BY <2>2, <2>3 DEF Ran
<1>8. lastRoot' # None => \E n \in 1..Len(persisted') : Publishes(n)'
  <2> SUFFICES ASSUME lastRoot # None PROVE \E n \in 1..Len(persisted') : Publishes(n)'
    BY DEF Accepted
  <2>1. PICK n \in 1..L : Publishes(n)
    BY DEF CompactInv, RootInv
  <2> QED BY <1>3, <2>1 DEF Ran
<1>9. ASSUME NEW n \in 1..Len(persisted'), LastPublished(n)'
      PROVE  /\ Replay(persisted)'.root = persisted'[n].root
             /\ lastRoot' \in {None, persisted'[n].root} \/ Waits(call'[persisted'[n].call])
  <2>1. Publishes(n)' /\ \A m \in 1..Len(persisted') : Publishes(m)' => m <= n
    BY <1>9 DEF LastPublished
  <2>2. CASE k = "publish_kyc_root"
    <3>1. n = L + 1
      <4>1. PICK m \in 1..Len(persisted') : m = L + 1
        BY DEF Ran
      <4>2. Publishes(m)'
        BY <1>4, <2>2, <4>1
      <4> QED BY <2>1, <4>1, <4>2 DEF Ran
    <3>2. persisted'[n] = step
      BY <3>1 DEF Ran
    <3>3. Waits(call'[persisted'[n].call])
      BY <1>6, <2>2, <3>2 DEF Ran
    <3> QED BY <1>2, <2>2, <3>2, <3>3
  <2>3. CASE k # "publish_kyc_root"
    <3>1. n \in 1..L
      BY <1>4, <2>1, <2>3 DEF Ran
    <3>2. LastPublished(n)
      BY <1>3, <2>1, <3>1 DEF LastPublished, Ran
    <3>3. /\ now.root = persisted[n].root
          /\ lastRoot \in {None, persisted[n].root} \/ Waits(call[persisted[n].call])
      BY <3>1, <3>2 DEF CompactInv, RootInv
    <3>4. Waits(call'[persisted[n].call]) <=> Waits(call[persisted[n].call])
      BY <1>5, <2>1, <1>3, <3>1
    <3> QED BY <1>2, <1>3, <2>3, <3>1, <3>3, <3>4 DEF Accepted
  <2> QED BY <2>2, <2>3
<1> QED BY <1>7, <1>8, <1>9 DEF RootInv

(* A call that has the chain for itself.                                   *)
LEMMA AcceptedAlone ==
  ASSUME ConstantTypes, CompactInv, NEW c, NEW k, NEW step, Accepted(c, k, step),
         Ran(c, k, step), Replay(persisted)' = Applied(Replay(persisted), step),
         \A n \in 1..Len(queue') : n + 1 \in 1..Len(queue) /\ queue'[n] = queue[n + 1]
  PROVE  AloneInv'
<1>1. \A d \in Calls : (call'[d] = None <=> call[d] = None) /\ (Live(d)' <=> Live(d))
                         /\ (Alone(d)' <=> Alone(d))
                         /\ (call[d] # None => call'[d].why = call[d].why
                                                 /\ call'[d].alone = call[d].alone)
  BY DEF Ran, Live, Alone, SameButRun
<1>2. \A d \in Calls : call'[d] # None /\ call'[d].alone => call'[d].why # "circuit"
  BY <1>1 DEF CompactInv, AloneInv
<1>3. ASSUME NEW d \in Calls, Alone(d)'
      PROVE  /\ ~call'[d].broke
             /\ \A e \in Calls : Live(e)' => e = d
             /\ \A n \in 1..Len(queue') : queue'[n].call = d
             /\ Ahead(call'[d], Replay(persisted)')
             /\ Holds(d, call'[d], bag') /\ (staged' # None => Holds(d, call'[d], staged'))
  <2>1. Alone(d)
    BY <1>1, <1>3
  <2>2. /\ ~call[d].broke
        /\ \A e \in Calls : Live(e) => e = d
        /\ \A n \in 1..Len(queue) : queue[n].call = d
        /\ Ahead(call[d], Replay(persisted)) /\ Holds(d, call[d], staged)
    BY <2>1 DEF CompactInv, AloneInv, Accepted
  <2>3. d = c
    <3>1. queue[1].call = c /\ 1 \in 1..Len(queue)
      BY TurnIs DEF Accepted
    <3> QED BY <2>2, <3>1
  <2>4. ~call'[d].broke /\ \A e \in Calls : Live(e)' => e = d
    BY <1>1, <2>2, <2>3 DEF Ran
  <2>5. \A n \in 1..Len(queue') : queue'[n].call = d
    BY <2>2
  <2>6. Holds(d, call'[d], bag') /\ staged' = None
    <3>1. call'[d].at = call[d].at /\ call'[d].kind = call[d].kind
      BY <2>3 DEF Ran, SameButRun
    <3> QED BY <2>2, <3>1 DEF Holds, PipelineOf, Accepted
  <2>7. Ahead(call'[d], Replay(persisted)')
    <3> DEFINE now == Replay(persisted)
               next == Applied(now, step)
    <3>1. now \in Ledger /\ step \in Step /\ step.circuit = k
      BY DEF CompactInv, ReplayInv, Ran
    <3>2. /\ k = "publish_kyc_root" => next.root = step.root
          /\ k # "publish_kyc_root" => next.root = now.root
          /\ k = "publish_kyc_leaf" => next.tree = now.tree \union {step.leaf}
          /\ k # "publish_kyc_leaf" => next.tree = now.tree
      <4> HIDE DEF now
      <4> QED BY <3>1, AppliedFields
    <3>3. call[c].kind \in DOMAIN Pipeline
      BY CallFields DEF Ran, ConstantTypes
    <3>4. PipelineOf(call[c]) \intersect Publish = {}
      BY <3>3, LinesAre DEF PipelineOf
    <3>5. /\ k = "publish_kyc_root" => call[c].at = "root"
          /\ k = "publish_kyc_leaf" => call[c].at = "leaf"
      BY <3>4 DEF Ran, MayRun, Publish
    <3>6. Ahead(call[c], now)
      BY <2>2, <2>3
    <3>7. Replay(persisted)' = next
      OBVIOUS
    <3>8. Ahead(call'[c], next)
      <4> HIDE DEF now, next
      <4>1. /\ call'[c].at = call[c].at /\ call'[c].kind = call[c].kind
            /\ call'[c].root = call[c].root /\ call'[c].leaf = call[c].leaf
            /\ call'[c].ready = call[c].ready /\ call'[c].done = call[c].done \union {k}
            /\ step.root = call[c].root /\ step.leaf = call[c].leaf
        BY DEF Ran, SameButRun
      <4>2. CASE k = "publish_kyc_root"
        BY <3>2, <3>5, <3>6, <4>1, <4>2 DEF Ahead
      <4>3. CASE k = "publish_kyc_leaf"
        BY <3>2, <3>5, <3>6, <4>1, <4>3 DEF Ahead
      <4>4. CASE k \notin Publish
        BY <3>2, <3>6, <4>1, <4>4 DEF Ahead, Publish
      <4> QED BY <4>2, <4>3, <4>4 DEF Publish
    <3> QED BY <2>3, <3>7, <3>8
  <2> QED BY <2>4, <2>5, <2>6, <2>7
<1> QED BY <1>2, <1>3 DEF AloneInv

(* A circuit that is accepted.                                             *)
LEMMA AcceptKeeps ==
  ASSUME ConstantTypes, CompactInv, NEW c, NEW k, NEW step, Accepted(c, k, step)
  PROVE  CompactInv'
<1>1. Ran(c, k, step)
  BY AcceptedRuns
<1>2. ReplayInv' /\ Replay(persisted)' = Applied(Replay(persisted), step)
  BY <1>1, AcceptedReplay
<1>3. FileInv'
  BY <1>1, AcceptedFile
<1>4. RootInv'
  BY <1>1, <1>2, AcceptedRoot
<1>5. /\ QueueInv' /\ queue' \in Seq([circuit : Circuits, call : Calls])
      /\ \A n \in 1..Len(queue') : n + 1 \in 1..Len(queue) /\ queue'[n] = queue[n + 1]
  <2>1. TurnOf(c, k, step) /\ staged # None /\ queue' = Tail(queue) /\ staged' = None
    BY DEF Accepted
  <2>2. call'[c].at \in {"root", "leaf"} => ~call'[c].broke
    BY <1>1 DEF Ran, Standing, SameButRun
  <2>3. /\ call'[c] # None /\ SameButRun(call'[c], call[c])
        /\ \A d \in Calls \ {c} : call'[d] = call[d]
        /\ call'[c].done = call[c].done \union {k}
    BY <1>1 DEF Ran
  <2> QED BY <2>1, <2>2, <2>3, TurnPasses
<1>6. AloneInv'
  BY <1>1, <1>2, <1>5, AcceptedAlone
<1>7. TypeOK'
  <2>1. ledger' \in Ledger
    <3> DEFINE now == Replay(persisted)
    <3>1. now \in Ledger /\ step \in Step
      BY <1>1 DEF CompactInv, ReplayInv, Ran
    <3>2. Applied(now, step) \in Ledger
      <4> HIDE DEF now
      <4> QED BY <3>1, AppliedFields
    <3> QED BY <3>2 DEF Accepted
  <2> QED BY <1>1, <1>5, <2>1 DEF CompactInv, TypeOK, Accepted, Ran
<1> QED BY <1>2, <1>3, <1>4, <1>5, <1>6, <1>7 DEF CompactInv

-----------------------------------------------------------------------------
(* The steps together, and what the invariant promises.                    *)

(* A circuit runs, is accepted or throws.                                  *)
LEMMA RunKeeps == ASSUME ConstantTypes, CompactInv, Run PROVE CompactInv'
<1> DEFINE c == Head(queue).call
           k == Head(queue).circuit
           step == [circuit |-> k, call |-> c, root |-> call[c].root, leaf |-> call[c].leaf,
                    bag |-> staged]
           now == Replay(persisted)
           base == IF ledger = None THEN Replay(persisted) ELSE ledger
           accepted == (ledger = None => Replays(persisted)) /\ Accepts(base, step)
<1>1. /\ staged # None /\ staged' = None /\ queue' = Tail(queue) /\ bag' = staged
      /\ ledger' = IF accepted THEN Applied(base, step)
                   ELSE IF ledger = None /\ ~Replays(persisted) THEN None ELSE base
      /\ persisted' = IF accepted THEN Append(persisted, step) ELSE persisted
      /\ call' = IF accepted THEN [call EXCEPT ![c].done = @ \union {k}]
                 ELSE [call EXCEPT ![c].broke = TRUE]
      /\ UNCHANGED <<lastRoot, crashes, torn>>
  BY DEF Run, ChainGoesOn, BagOfTheTurn, Records
<1>2. base = now /\ Replays(persisted)
  BY BaseIs DEF CompactInv, ReplayInv, ReplayRestores
<1>3. accepted <=> Accepts(now, step)
  BY <1>2
<1>4. TurnOf(c, k, step)
  BY DEF TurnOf
<1> HIDE DEF c, k, step
<1>5. CASE Accepts(now, step)
  <2>1. accepted
    BY <1>3, <1>5
  <2>2. /\ ledger' = Applied(now, step) /\ persisted' = Append(persisted, step)
        /\ call' = [call EXCEPT ![c].done = @ \union {k}]
    <3> HIDE DEF base, accepted, now
    <3> QED BY <1>1, <1>2, <2>1
  <2>3. Accepted(c, k, step)
    BY <1>1, <1>4, <1>5, <2>2 DEF Accepted
  <2> QED BY <2>3, AcceptKeeps
<1>6. CASE ~Accepts(now, step)
  <2>1. ~accepted
    BY <1>3, <1>6
  <2>2. /\ ledger' = now /\ persisted' = persisted /\ call' = [call EXCEPT ![c].broke = TRUE]
    <3> HIDE DEF base, accepted, now
    <3> QED BY <1>1, <1>2, <2>1
  <2>3. /\ staged # None /\ queue' = Tail(queue) /\ bag' = staged /\ staged' = None
        /\ UNCHANGED <<lastRoot, crashes, torn>>
    BY <1>1
  <2> HIDE DEF accepted, base
  <2> QED BY <1>4, <1>6, <2>2, <2>3, ThrowKeeps
<1> QED BY <1>5, <1>6

(* The invariant holds at the start,                                       *)
LEMMA CompactStarts == ASSUME ConstantTypes, Init PROVE CompactInv
<1>1. /\ ledger = None /\ bag = [s \in Slots |-> None] /\ persisted = <<>>
      /\ lastRoot = None /\ queue = <<>> /\ staged = None
      /\ call = [c \in Calls |-> None] /\ crashes = 0 /\ torn = FALSE
  BY DEF Init
<1>2. TypeOK
  <2>1. bag \in Bags
    BY <1>1 DEF Bags
  <2>2. call \in [Calls -> CallRecord \union {None}]
    BY <1>1
  <2>3. persisted \in Seq(Step) /\ queue \in Seq([circuit : Circuits, call : Calls])
    BY <1>1
  <2>4. crashes \in 0..MaxCrashes /\ torn \in BOOLEAN
    <3>1. MaxCrashes \in Nat
      BY DEF ConstantTypes
    <3>2. crashes = 0 /\ torn = FALSE
      BY <1>1
    <3>3. crashes \in 0..MaxCrashes
      BY <3>1, <3>2
    <3>4. torn \in BOOLEAN
      BY <3>2
    <3> QED BY <3>3, <3>4
  <2>5. ledger \in Ledger \union {None} /\ lastRoot \in Roots \union {None}
        /\ staged \in Bags \union {None}
    BY <1>1
  <2> QED BY <2>1, <2>2, <2>3, <2>4, <2>5 DEF TypeOK
<1>3. Len(persisted) = 0 /\ Len(queue) = 0 /\ \A c \in Calls : call[c] = None
  BY <1>1
<1>4. QueueInv
  BY <1>1, <1>3 DEF QueueInv, MayQueue, OnceEach
<1>5. FileInv
  BY <1>3 DEF FileInv
<1>6. ReplayInv
  <2>1. InsertedLeaves = {}
    BY <1>3 DEF InsertedLeaves
  <2> QED BY <1>1, <2>1, ReplayEmpty, GenesisIs DEF ReplayInv, ReplayRestores
<1>7. RootInv
  BY <1>1, <1>3 DEF RootInv
<1>8. AloneInv
  BY <1>3 DEF AloneInv, Alone, Live
<1> QED BY <1>2, <1>4, <1>5, <1>6, <1>7, <1>8 DEF CompactInv

(* when nothing happens,                                                   *)
LEMMA CompactIdles ==
  ASSUME CompactInv, UNCHANGED vars PROVE CompactInv'
<1>1. TypeOK' /\ QueueInv' /\ InsertedLeaves' = InsertedLeaves
  BY DEF CompactInv, TypeOK, QueueInv, InsertedLeaves, vars
<1>2. FileInv'
  BY DEF CompactInv, FileInv, Recorded, Live, vars
<1>3. ReplayInv'
  BY <1>1 DEF CompactInv, ReplayInv, ReplayRestores, vars
<1>4. RootInv'
  BY DEF CompactInv, RootInv, LastPublished, Publishes, vars
<1>5. AloneInv'
  BY DEF CompactInv, AloneInv, Alone, Live, vars
<1> QED BY <1>1, <1>2, <1>3, <1>4, <1>5 DEF CompactInv

(* and after every step.                                                   *)
LEMMA CompactStep == ASSUME ConstantTypes, CompactInv, [Next]_vars PROVE CompactInv'
<1>1. CASE UNCHANGED vars
  BY <1>1, CompactIdles
<1>2. ASSUME NEW c \in Calls, BeginSynced(c) PROVE CompactInv'
  BY <1>2, BeginSyncedKeeps
<1>3. ASSUME NEW c \in Calls, BeginSync(c) PROVE CompactInv'
  BY <1>3, BeginSyncKeeps
<1>4. ASSUME NEW c \in Calls, BeginSingle(c) PROVE CompactInv'
  BY <1>4, BeginSingleKeeps
<1>5. ASSUME NEW c \in Calls, RootPublished(c) PROVE CompactInv'
  BY <1>5, RootPublishedKeeps
<1>6. ASSUME NEW c \in Calls, LeafPublished(c) PROVE CompactInv'
  BY <1>6, LeafPublishedKeeps
<1>7. ASSUME NEW c \in Calls, Stage(c) PROVE CompactInv'
  BY <1>7, StageKeeps
<1>8. ASSUME NEW c \in Calls, RefuseBalance(c) \/ RefuseCircuit(c) \/ Answer(c)
      PROVE  CompactInv'
  BY <1>8, EndKeeps
<1>9. CASE Take
  BY <1>9, TakeKeeps
<1>10. CASE Run
  BY <1>10, RunKeeps
<1>11. CASE ReadLedger
  BY <1>11, ReadKeeps
<1>12. CASE Crash \/ CrashInSave
  BY <1>12, CrashKeeps
<1> QED BY <1>1, <1>2, <1>3, <1>4, <1>5, <1>6, <1>7, <1>8, <1>9, <1>10, <1>11, <1>12 DEF Next

(* Each circuit of a call that has its attestation is in the file exactly  *)
(* once.                                                                   *)
LEMMA OnceInTheFile ==
  ASSUME CompactInv, ~torn, NEW c \in Calls, call[c] # None, call[c].at = "answered",
         NEW k \in ToSet(Pipeline[call[c].kind])
  PROVE  Cardinality({n \in 1..Len(persisted) :
                        persisted[n].call = c /\ persisted[n].circuit = k}) = 1
<1>1. k \in call[c].done
  BY DEF CompactInv, QueueInv, Standing, PipelineOf
<1>2. PICK n \in 1..Len(persisted) : persisted[n].call = c /\ persisted[n].circuit = k
  BY <1>1 DEF CompactInv, FileInv, Recorded
<1>3. {m \in 1..Len(persisted) : persisted[m].call = c /\ persisted[m].circuit = k} = {n}
  BY <1>2 DEF CompactInv, FileInv
<1> QED BY <1>3, FS_Singleton

(* The invariant promises the three properties of the contract.            *)
LEMMA CompactPromises ==
  ASSUME CompactInv
  PROVE  ReplayRestores /\ AttestedIsRecorded /\ UndisturbedIsAccepted
<1>1. ReplayRestores
  BY DEF CompactInv, ReplayInv
<1>2. AttestedIsRecorded
  <2> SUFFICES ASSUME ~torn, NEW c \in Calls,
                      NEW k \in IF call[c] # None /\ call[c].at = "answered"
                                THEN ToSet(Pipeline[call[c].kind]) ELSE {}
               PROVE  Cardinality({n \in 1..Len(persisted) :
                                     persisted[n].call = c /\ persisted[n].circuit = k}) = 1
    BY DEF AttestedIsRecorded
  <2>1. call[c] # None /\ call[c].at = "answered" /\ k \in ToSet(Pipeline[call[c].kind])
    OBVIOUS
  <2> QED BY <2>1, OnceInTheFile
<1>3. UndisturbedIsAccepted
  BY DEF CompactInv, AloneInv, UndisturbedIsAccepted
<1> QED BY <1>1, <1>2, <1>3

(* Every reachable state is well typed.                                    *)
THEOREM Typing ==
  ASSUME ConstantTypes
  PROVE  Spec => []TypeOK
<1>1. Init => CompactInv
  BY CompactStarts
<1>2. CompactInv /\ [Next]_vars => CompactInv'
  BY CompactStep
<1>3. CompactInv => TypeOK
  BY DEF CompactInv
<1> QED BY <1>1, <1>2, <1>3, PTL DEF Spec

(* A start rebuilds the contract there was, every attestation given out is *)
(* recorded in it exactly once, and a call nobody overlaps is accepted,    *)
(* however calls, circuits and restarts interleave.                        *)
THEOREM ContractKept ==
  ASSUME ConstantTypes
  PROVE  Spec => [](ReplayRestores /\ AttestedIsRecorded /\ UndisturbedIsAccepted)
<1>1. Init => CompactInv
  BY CompactStarts
<1>2. CompactInv /\ [Next]_vars => CompactInv'
  BY CompactStep
<1>3. CompactInv => ReplayRestores /\ AttestedIsRecorded /\ UndisturbedIsAccepted
  BY CompactPromises
<1> QED BY <1>1, <1>2, <1>3, PTL DEF Spec
=============================================================================
