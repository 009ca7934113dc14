----------------------------- MODULE CompactLedger -----------------------------
(***************************************************************************)
(* The Compact contract as the server runs it (compactLedger.ts, the       *)
(* attestations of proofServer.ts, the circuits of nyxpay.compact).        *)
(*                                                                         *)
(* The contract's state lives in memory and is rebuilt, the first time a   *)
(* circuit is wanted after a start, by replaying the circuits in a file.   *)
(* Circuits take their private inputs from one bag that all callers share. *)
(* A caller stages its witness in the bag and then joins the chain of      *)
(* circuits, which runs them one at a time: the turn of a circuit takes a  *)
(* copy of the bag, waits for the context, puts the copy back and runs.    *)
(*                                                                         *)
(* A call is cut at its awaits, the queue's included, and the steps of     *)
(* different calls interleave in every order.  A witness is named after    *)
(* the call that staged it, and so are the commitments to it: a commitment *)
(* opens with the witness of its own call only.                            *)
(***************************************************************************)
EXTENDS Integers, FiniteSets, SequencesExt

CONSTANTS
  Calls,       \* calls that execute circuits
  Kinds,       \* the kinds of call there are
  Roots,       \* KYC roots of the application
  Leaves,      \* credential leaves
  ZkRequired,  \* NYXPAY_REQUIRE_ZK_PROVE
  MaxCrashes,  \* bound: restarts
  None

(* The circuits a call runs, in the order they join the chain.             *)
Pipeline ==
  [payment  |-> <<"prove_recipient_valid", "prove_policy_update", "prove_spend_update">>,
   session  |-> <<"prove_session_auth">>,
   route    |-> <<"prove_authorized_transaction">>,
   credit   |-> <<"prove_credit_update">>,
   lock     |-> <<"prove_collateral_lock">>,
   deposit  |-> <<"prove_pool_deposit">>,
   repay    |-> <<"prove_loan_repayment">>,
   standing |-> <<"prove_credit_standing">>,
   strategy |-> <<"prove_strategy_commitment">>]

(* The part of the bag a circuit reads.                                    *)
SlotOf ==
  [prove_policy_update |-> "policy", prove_spend_update |-> "spend",
   prove_credit_update |-> "credit", prove_collateral_lock |-> "lock",
   prove_pool_deposit |-> "pool", prove_loan_repayment |-> "repay",
   prove_credit_standing |-> "standing", prove_strategy_commitment |-> "strategy"]
Witnessed == DOMAIN SlotOf
Slots == {SlotOf[k] : k \in Witnessed}

(* Policy and repayment circuits check their amounts, but no commitment to *)
(* them: they accept any caller's witness.                                 *)
Committed == Witnessed \ {"prove_policy_update", "prove_loan_repayment"}
Members == {"prove_recipient_valid", "prove_session_auth"}
Proofs == Witnessed \union Members \union {"prove_authorized_transaction"}
Circuits == Proofs \union {"publish_kyc_root", "publish_kyc_leaf"}
KycKinds == {"payment", "session"}

VARIABLES
  ledger,    \* circuitCtx: the contract's state, None before the first replay
  bag,       \* who staged each part of the witness bag
  persisted, \* the replay file
  lastRoot,  \* lastSyncedRootHex
  queue,     \* compactChain: the circuits waiting for their turn
  staged,    \* the copy of the bag taken by the circuit whose turn it is
  call,      \* the calls
  crashes,
  torn       \* history: a restart has caught the file half written

vars == <<ledger, bag, persisted, lastRoot, queue, staged, call, crashes, torn>>

Bags == [Slots -> Calls \union {None}]
Step == [circuit : Circuits, call : Calls, root : Roots, leaf : Leaves, bag : Bags]
Ledger == [root : Roots \union {None}, tree : SUBSET Leaves, count : [Proofs -> Nat]]
Ats == {"root", "leaf", "synced", "proving", "answered", "refused", "lost"}
CallRecord == [at : Ats, kind : Kinds, root : Roots, leaf : Leaves, ready : BOOLEAN,
               done : SUBSET Circuits, broke : BOOLEAN,
               why : {"none", "circuit", "balance", "zk"}, alone : BOOLEAN]

(* What the constants have to be.                                          *)
ConstantTypes ==
  /\ Kinds \subseteq DOMAIN Pipeline /\ MaxCrashes \in Nat /\ ZkRequired \in BOOLEAN
  /\ None \notin Calls \union Roots \union Bags \union Ledger \union CallRecord

TypeOK ==
  /\ ledger \in Ledger \union {None} /\ bag \in Bags
  /\ persisted \in Seq(Step)
  /\ lastRoot \in Roots \union {None}
  /\ queue \in Seq([circuit : Circuits, call : Calls])
  /\ staged \in Bags \union {None}
  /\ call \in [Calls -> CallRecord \union {None}]
  /\ crashes \in 0..MaxCrashes /\ torn \in BOOLEAN

-----------------------------------------------------------------------------
(* The contract.                                                           *)

Genesis == [root |-> None, tree |-> {}, count |-> [k \in Proofs |-> 0]]

(* What a circuit asserts: membership is of the root last published, and   *)
(* a commitment among the arguments opens with the witness in the bag.     *)
Accepts(l, step) ==
  /\ step.circuit \in Members => step.root = l.root /\ step.leaf \in l.tree
  /\ step.circuit \in Committed => step.bag[SlotOf[step.circuit]] = step.call

Applied(l, step) ==
  CASE step.circuit = "publish_kyc_root" -> [l EXCEPT !.root = step.root]
    [] step.circuit = "publish_kyc_leaf" -> [l EXCEPT !.tree = @ \union {step.leaf}]
    [] OTHER -> [l EXCEPT !.count[step.circuit] = @ + 1]

(* The contract after each prefix of a file, and after all of it.          *)
States(steps) ==
  LET state[n \in 0..Len(steps)] ==
        IF n = 0 THEN Genesis ELSE Applied(state[n - 1], steps[n])
  IN  state
Replay(steps) == States(steps)[Len(steps)]
Replays(steps) == \A n \in 1..Len(steps) : Accepts(States(steps)[n - 1], steps[n])

InsertedLeaves ==
  {persisted[n].leaf : n \in {m \in 1..Len(persisted) :
                                persisted[m].circuit = "publish_kyc_leaf"}}

-----------------------------------------------------------------------------
Live(c) == call[c] # None /\ call[c].at \in {"root", "leaf", "synced", "proving"}
Quiet == queue = <<>> /\ \A c \in Calls : ~Live(c)
Disturbed == [c \in Calls |-> IF Live(c) THEN [call[c] EXCEPT !.alone = FALSE] ELSE call[c]]
Job(c, k) == [circuit |-> k, call |-> c]
Jobs(c, kind) == [n \in 1..Len(Pipeline[kind]) |-> Job(c, Pipeline[kind][n])]

Init ==
  /\ ledger = None /\ bag = [s \in Slots |-> None] /\ persisted = <<>>
  /\ lastRoot = None /\ queue = <<>> /\ staged = None
  /\ call = [c \in Calls |-> None]
  /\ crashes = 0 /\ torn = FALSE

Begun(c, at, kind, root, leaf) ==
  [Disturbed EXCEPT ![c] =
     [at |-> at, kind |-> kind, root |-> root, leaf |-> leaf,
      ready |-> leaf \in InsertedLeaves, done |-> {}, broke |-> FALSE, why |-> "none",
      alone |-> Quiet]]

(* syncKycRoot, when the ledger has this root and leaf already.            *)
BeginSynced(c) ==
  /\ call[c] = None
  /\ \E kind \in Kinds \intersect KycKinds, root \in Roots, leaf \in InsertedLeaves :
       /\ ledger # None /\ lastRoot = root
       /\ call' = Begun(c, "synced", kind, root, leaf)
  /\ UNCHANGED <<ledger, bag, persisted, lastRoot, queue, staged, crashes, torn>>

BeginSync(c) ==
  /\ call[c] = None
  /\ \E kind \in Kinds \intersect KycKinds, root \in Roots, leaf \in Leaves :
       /\ ~(ledger # None /\ lastRoot = root /\ leaf \in InsertedLeaves)
       /\ call' = Begun(c, "root", kind, root, leaf)
  /\ queue' = Append(queue, Job(c, "publish_kyc_root"))
  /\ UNCHANGED <<ledger, bag, persisted, lastRoot, staged, crashes, torn>>

(* The other callers stage their witness, if any, and run one circuit.     *)
BeginSingle(c) ==
  /\ call[c] = None
  /\ \E kind \in Kinds \ KycKinds, root \in Roots, leaf \in Leaves :
       /\ root = CHOOSE r \in Roots : TRUE
       /\ leaf = CHOOSE l \in Leaves : TRUE
       /\ call' = Begun(c, "proving", kind, root, leaf)
       /\ bag' = [s \in Slots |->
                    IF \E k \in ToSet(Pipeline[kind]) \intersect Witnessed : SlotOf[k] = s
                    THEN c ELSE bag[s]]
       /\ queue' = queue \o Jobs(c, kind)
  /\ UNCHANGED <<ledger, persisted, lastRoot, staged, crashes, torn>>

(* The continuations after publish_kyc_root are as many microtasks behind  *)
(* their circuits as one another: they come in the order of the circuits.  *)
Pending(c) == Live(c) /\ call[c].at = "root" /\ "publish_kyc_root" \in call[c].done
Publishes(n) == persisted[n].circuit = "publish_kyc_root"
NextInTurn(c) ==
  \A m, n \in 1..Len(persisted) :
    m < n /\ Publishes(m) /\ Publishes(n) /\ persisted[n].call = c
      => ~Pending(persisted[m].call)

(* Whether the leaf is there was read when the call began.                 *)
RootPublished(c) ==
  /\ Pending(c) /\ NextInTurn(c)
  /\ lastRoot' = call[c].root
  /\ IF call[c].ready
     THEN call' = [call EXCEPT ![c].at = "synced"] /\ queue' = queue
     ELSE /\ call' = [call EXCEPT ![c].at = "leaf"]
          /\ queue' = Append(queue, Job(c, "publish_kyc_leaf"))
  /\ UNCHANGED <<ledger, bag, persisted, staged, crashes, torn>>

LeafPublished(c) ==
  /\ Live(c) /\ call[c].at = "leaf" /\ "publish_kyc_leaf" \in call[c].done
  /\ call' = [call EXCEPT ![c].at = "synced"]
  /\ UNCHANGED <<ledger, bag, persisted, lastRoot, queue, staged, crashes, torn>>

(* A payment stages its two witnesses and sends its three circuits off; a  *)
(* session has no witness in the bag.                                      *)
Stage(c) ==
  /\ Live(c) /\ call[c].at = "synced"
  /\ call' = [call EXCEPT ![c].at = "proving"]
  /\ bag' = IF call[c].kind = "payment"
            THEN [bag EXCEPT !["spend"] = c, !["policy"] = c] ELSE bag
  /\ queue' = queue \o Jobs(c, call[c].kind)
  /\ UNCHANGED <<ledger, persisted, lastRoot, staged, crashes, torn>>

(* The declared balance does not cover the amount.                         *)
RefuseBalance(c) ==
  /\ Live(c) /\ call[c].at = "synced" /\ call[c].kind = "payment"
  /\ call' = [call EXCEPT ![c].at = "refused", ![c].why = "balance"]
  /\ UNCHANGED <<ledger, bag, persisted, lastRoot, queue, staged, crashes, torn>>

(* withCompactLock: the turn of the first circuit in the chain.            *)
Take ==
  /\ queue # <<>> /\ staged = None
  /\ staged' = bag
  /\ UNCHANGED <<ledger, bag, persisted, lastRoot, queue, call, crashes, torn>>

(* The context is there, or is rebuilt; the copy of the bag is put back    *)
(* and the circuit runs.  What throws leaves the contract and the file     *)
(* alone, and the chain goes on either way.                                *)
BagLeftByReplay == IF ledger = None /\ persisted # <<>> THEN Last(persisted).bag ELSE staged
BagOfTheTurn == staged

RecordsAll(accepted, step) == TRUE
RecordsWitnessed(accepted, step) == accepted /\ step.circuit \in Witnessed
Records(accepted, step) == accepted

DropsTheChain(accepted) == queue' = IF accepted THEN Tail(queue) ELSE <<>>
ChainGoesOn(accepted) == queue' = Tail(queue)

Run ==
  LET c    == Head(queue).call
      cold == ledger = None
      base == IF cold THEN Replay(persisted) ELSE ledger
      step == [circuit |-> Head(queue).circuit, call |-> c, root |-> call[c].root,
               leaf |-> call[c].leaf, bag |-> BagOfTheTurn]
      accepted == (cold => Replays(persisted)) /\ Accepts(base, step)
  IN /\ staged # None /\ staged' = None
     /\ ChainGoesOn(accepted)
     /\ bag' = BagOfTheTurn
     /\ ledger' = IF accepted THEN Applied(base, step)
                  ELSE IF cold /\ ~Replays(persisted) THEN None ELSE base
     /\ persisted' = IF Records(accepted, step) THEN Append(persisted, step) ELSE persisted
     /\ call' = IF accepted THEN [call EXCEPT ![c].done = @ \union {step.circuit}]
                ELSE [call EXCEPT ![c].broke = TRUE]
     /\ UNCHANGED <<lastRoot, crashes, torn>>

(* Promise.all rejects with the first circuit that throws; the others of   *)
(* the call stay in the chain and run.                                     *)
RefuseCircuit(c) ==
  /\ Live(c) /\ call[c].broke
  /\ call' = [call EXCEPT ![c].at = "refused", ![c].why = "circuit"]
  /\ UNCHANGED <<ledger, bag, persisted, lastRoot, queue, staged, crashes, torn>>

(* All circuits have run and /prove has answered or timed out.             *)
Answer(c) ==
  /\ Live(c) /\ call[c].at = "proving"
  /\ ToSet(Pipeline[call[c].kind]) \subseteq call[c].done
  /\ \E snark \in BOOLEAN :
       call' = IF snark \/ ~ZkRequired \/ call[c].kind \notin KycKinds \union {"route"}
               THEN [call EXCEPT ![c].at = "answered"]
               ELSE [call EXCEPT ![c].at = "refused", ![c].why = "zk"]
  /\ UNCHANGED <<ledger, bag, persisted, lastRoot, queue, staged, crashes, torn>>

(* readCompactLedger takes no turn in the chain: before the first circuit  *)
(* it replays the file, and leaves the last witnesses of the file behind.  *)
ReadLedger ==
  /\ ledger = None /\ Replays(persisted)
  /\ ledger' = Replay(persisted)
  /\ bag' = IF persisted = <<>> THEN bag ELSE Last(persisted).bag
  /\ call' = Disturbed
  /\ UNCHANGED <<persisted, lastRoot, queue, staged, crashes, torn>>

Restarted ==
  /\ crashes < MaxCrashes /\ crashes' = crashes + 1
  /\ ledger' = None /\ bag' = [s \in Slots |-> None] /\ lastRoot' = None
  /\ queue' = <<>> /\ staged' = None
  /\ call' = [c \in Calls |-> IF Live(c) THEN [call[c] EXCEPT !.at = "lost"] ELSE call[c]]

Crash == Restarted /\ UNCHANGED <<persisted, torn>>

(* writeFileSync was cut short: loadPersisted starts from an empty file.   *)
CrashInSave == staged # None /\ Restarted /\ persisted' = <<>> /\ torn' = TRUE

Next ==
  \/ \E c \in Calls :
       \/ BeginSynced(c) \/ BeginSync(c) \/ BeginSingle(c)
       \/ RootPublished(c) \/ LeafPublished(c) \/ Stage(c) \/ RefuseBalance(c)
       \/ RefuseCircuit(c) \/ Answer(c)
  \/ Take \/ Run \/ ReadLedger \/ Crash \/ CrashInSave

Spec == Init /\ [][Next]_vars

(* The event loop runs what is ready, and /prove answers within 90 s.      *)
Continues(c) == RootPublished(c) \/ LeafPublished(c) \/ Stage(c)
                  \/ RefuseCircuit(c) \/ Answer(c)
FairSpec == Spec /\ WF_vars(Take) /\ WF_vars(Run) /\ \A c \in Calls : WF_vars(Continues(c))

-----------------------------------------------------------------------------
(* A restart finds in the file exactly the contract that was in memory,    *)
(* and the replay meets no assertion that fails: what throws is not in the *)
(* file, and what is in it comes after what it depends on.                 *)
ReplayRestores ==
  Replays(persisted) /\ (ledger # None => Replay(persisted) = ledger)

(* A call that was told its proofs are done has each of its circuits in    *)
(* the file once, across restarts, unless a restart tore the file.         *)
AttestedIsRecorded ==
  torn \/ \A c \in Calls : \A k \in IF call[c] # None /\ call[c].at = "answered"
                                     THEN ToSet(Pipeline[call[c].kind]) ELSE {} :
    Cardinality({n \in 1..Len(persisted) :
                   persisted[n].call = c /\ persisted[n].circuit = k}) = 1

(* A call no other call overlaps is never refused by a circuit, also when  *)
(* it is the first after a restart, whose replay overwrites the bag.       *)
UndisturbedIsAccepted ==
  \A c \in Calls : call[c] # None /\ call[c].alone => call[c].why # "circuit"

(* Every call is answered, refused or cut off by a restart: a circuit that *)
(* throws does not hold up the chain.                                      *)
EveryCallEnds == \A c \in Calls : Live(c) ~> ~Live(c)
=============================================================================
