------------------------------ MODULE Broadcast ------------------------------
(***************************************************************************)
(* Putting a settlement on the chain: broadcastSettlement                  *)
(* (services/preprodBroadcast.ts) over the wallet that submits             *)
(* (preprodWallet.ts), asked by the peer-to-peer settlement (onchain.ts)   *)
(* and by the universal one (universalOnchain.ts), and the script that     *)
(* funds the wallet and deploys the contract (scripts/midnight-deploy.ts). *)
(* They share a file, data/onchain-deployment.json, that each of the two   *)
(* processes reads, changes and writes back.                               *)
(*                                                                         *)
(* The server runs one step at a time: between its read of the file and    *)
(* its write only the script can move.  The chain is external: a           *)
(* submission may land and still fail to answer.                           *)
(***************************************************************************)
EXTENDS Integers, FiniteSets, Sequences

CONSTANTS
  Broadcasts,     \* settlements that are broadcast
  Required,       \* those whose caller requires a transaction of their own
  AllowFallback,  \* NYXPAY_ALLOW_ANCHOR_FALLBACK
  None

Kinds == {"contract-call", "unshielded-transfer", "anchor-fallback"}

(* What the constants have to be.                                          *)
ConstantTypes ==
  /\ Required \subseteq Broadcasts /\ AllowFallback \in BOOLEAN
  /\ {None, "script"} \cap Broadcasts = {} /\ None \notin Kinds

VARIABLES
  up,       \* the server runs
  seed,     \* a wallet seed is configured
  funded,   \* the wallet has a balance
  chain,    \* who caused each transaction of the network; its place is its id
  file,     \* onchain-deployment.json
  run,      \* the broadcasts
  script,   \* the deployment script
  answer    \* what the callers were told

vars == <<up, seed, funded, chain, file, run, script, answer>>

(* What liveSubmit makes of an error: one that speaks of a timeout, or of  *)
(* 0n, is taken for an empty wallet, whatever the wallet holds.            *)
Reasons == {"unfunded", "unavailable"}

File == [tx : Nat, contract : Nat, last : Nat]
Run == [at : {"idle", "call", "transfer", "read", "write", "refused", "anchor", "over"},
        tx : Nat, kind : Kinds \union {None}, seen : File \union {None},
        reason : Reasons \union {None}]
Answer == [status : {"submitted", "skipped", "failed", "requires_funding"},
           tx : Nat, kind : Kinds \union {None}]
Script == [at : {"start", "funds", "register", "deploy", "read", "write", "over"},
           put : [tx : Nat, contract : Nat], seen : File \union {None},
           then : {"deploy", "over"}]

TypeOK ==
  /\ up \in BOOLEAN /\ seed \in BOOLEAN /\ funded \in BOOLEAN
  /\ chain \in Seq(Broadcasts \union {"script"})
  /\ file \in File
  /\ run \in [Broadcasts -> Run]
  /\ script \in Script
  /\ answer \in [Broadcasts -> Answer \union {None}]

Idle == [at |-> "idle", tx |-> 0, kind |-> None, seen |-> None, reason |-> None]

Init ==
  /\ up = TRUE /\ seed \in BOOLEAN /\ funded = FALSE
  /\ chain = <<>> /\ file = [tx |-> 0, contract |-> 0, last |-> 0]
  /\ run = [b \in Broadcasts |-> Idle]
  /\ script = [at |-> "start", put |-> [tx |-> 0, contract |-> 0], seen |-> None,
               then |-> "deploy"]
  /\ answer = [b \in Broadcasts |-> None]

-----------------------------------------------------------------------------
(* The server's side.                                                      *)

(* Its steps are synchronous from the read of the file to the write.       *)
Free == up /\ \A b \in Broadcasts : run[b].at # "write"

Go(b, next) == run' = [run EXCEPT ![b] = next]
Says(b, s, tx, kind) ==
  /\ Go(b, [Idle EXCEPT !.at = "over"])
  /\ answer' = [answer EXCEPT ![b] = [status |-> s, tx |-> tx, kind |-> kind]]

(* The transaction lands, and the wallet learns its id or does not.        *)
Lands(b) == chain' = Append(chain, b)

(* broadcastSettlement up to the wallet: without a seed it is over.        *)
Begin(b) ==
  /\ Free /\ run[b].at = "idle"
  /\ \/ /\ ~seed
        /\ Says(b, IF b \in Required THEN "failed" ELSE "skipped", 0, None)
     \/ /\ seed /\ UNCHANGED answer
        /\ Go(b, [run[b] EXCEPT !.at = IF file.contract # 0 THEN "call" ELSE "transfer"])
  /\ UNCHANGED <<up, seed, funded, chain, file, script>>

Refuse(b, reason) ==
  /\ Go(b, [run[b] EXCEPT !.at = "refused", !.reason = reason])
  /\ UNCHANGED <<up, seed, funded, file, script, answer>>

(* liveSubmit without a proof server, with live submission switched off,   *)
(* or with a wallet that does not come up.                                 *)
Unavailable(b) ==
  /\ Free /\ run[b].at \in {"call", "transfer"}
  /\ \E reason \in Reasons : Refuse(b, reason)
  /\ UNCHANGED chain

(* submitContractAnchor; whatever its failure, the transfer is tried next. *)
CallContract(b) ==
  /\ Free /\ run[b].at = "call"
  /\ \/ /\ Lands(b)
        /\ Go(b, [run[b] EXCEPT !.at = "read", !.tx = Len(chain) + 1,
                                !.kind = "contract-call"])
     \/ /\ Lands(b) \/ UNCHANGED chain
        /\ Go(b, [run[b] EXCEPT !.at = "transfer"])
  /\ UNCHANGED <<up, seed, funded, file, script, answer>>

(* submitUnshieldedSelfTransfer: with no balance it times out.             *)
Transfer(b) ==
  /\ Free /\ run[b].at = "transfer"
  /\ \/ ~funded /\ Refuse(b, "unfunded") /\ UNCHANGED chain
     \/ /\ funded /\ Lands(b)
        /\ Go(b, [run[b] EXCEPT !.at = "read", !.tx = Len(chain) + 1,
                                !.kind = "unshielded-transfer"])
        /\ UNCHANGED <<up, seed, funded, file, script, answer>>
     \/ /\ funded /\ (Lands(b) \/ UNCHANGED chain)
        /\ \E reason \in Reasons : Refuse(b, reason)

(* Not as it is: the fallback is allowed whoever asks.                     *)
AnchorForAll(b) == AllowFallback
AnchorAllowed(b) == AllowFallback /\ b \notin Required

(* A submission that was refused: what the caller is told, or the fallback *)
(* to a transaction of the file.                                           *)
Refused(b) ==
  /\ Free /\ run[b].at = "refused"
  /\ IF run[b].reason = "unfunded" THEN Says(b, "requires_funding", 0, None)
     ELSE IF AnchorAllowed(b) /\ file.tx # 0
          THEN /\ Go(b, [run[b] EXCEPT !.at = "read", !.tx = file.tx,
                                       !.kind = "anchor-fallback"])
               /\ UNCHANGED answer
          ELSE Says(b, IF b \in Required THEN "failed" ELSE "skipped", 0, None)
  /\ UNCHANGED <<up, seed, funded, chain, file, script>>

(* saveDeployment: the file is read, and then written with the patch.      *)
ReadFile(b) ==
  /\ Free /\ run[b].at = "read"
  /\ Go(b, [run[b] EXCEPT !.at = "write", !.seen = file])
  /\ UNCHANGED <<up, seed, funded, chain, file, script, answer>>
WriteFile(b) ==
  /\ up /\ run[b].at = "write"
  /\ file' = [run[b].seen EXCEPT !.last = run[b].tx]
  /\ Says(b, "submitted", run[b].tx, run[b].kind)
  /\ UNCHANGED <<up, seed, funded, chain, script>>

(* The server stops: its broadcasts are not taken up again.                *)
Stop ==
  /\ up /\ up' = FALSE
  /\ run' = [b \in Broadcasts |-> IF run[b].at = "idle" THEN Idle
                                  ELSE [Idle EXCEPT !.at = "over"]]
  /\ UNCHANGED <<seed, funded, chain, file, script, answer>>
Restart == ~up /\ up' = TRUE /\ UNCHANGED <<seed, funded, chain, file, run, script, answer>>

-----------------------------------------------------------------------------
(* The script's side, once through its main.                               *)
ScriptTo(next) == script' = [script EXCEPT !.at = next]
Keeps(to, put) == script' = [script EXCEPT !.at = "read", !.put = put, !.then = to]

(* A seed is made when there is none; an empty wallet asks the faucet, and *)
(* the script fails when nothing comes.                                    *)
Prepare ==
  /\ script.at = "start" /\ seed' = TRUE
  /\ ScriptTo(IF funded THEN "register" ELSE "funds")
  /\ UNCHANGED <<up, funded, chain, file, run, answer>>
Fund ==
  /\ script.at = "funds"
  /\ \/ funded' = TRUE /\ ScriptTo("register")
     \/ UNCHANGED funded /\ ScriptTo("over")
  /\ UNCHANGED <<up, seed, chain, file, run, answer>>

(* The DUST registration, when there are coins to register.                *)
RegisterDust ==
  /\ script.at = "register"
  /\ \/ /\ chain' = Append(chain, "script")
        /\ Keeps("deploy", [tx |-> Len(chain) + 1, contract |-> 0])
     \/ UNCHANGED chain /\ ScriptTo("deploy")
  /\ UNCHANGED <<up, seed, funded, file, run, answer>>

(* The contract, when the wallet is in step with the chain in time.        *)
Deploy ==
  /\ script.at = "deploy"
  /\ \/ /\ chain' = Append(chain, "script")
        /\ Keeps("over", [tx |-> Len(chain) + 1, contract |-> Len(chain) + 1])
     \/ UNCHANGED chain /\ ScriptTo("over")
  /\ UNCHANGED <<up, seed, funded, file, run, answer>>

ScriptReads ==
  /\ script.at = "read"
  /\ script' = [script EXCEPT !.at = "write", !.seen = file]
  /\ UNCHANGED <<up, seed, funded, chain, file, run, answer>>
ScriptWrites ==
  /\ script.at = "write"
  /\ file' = [script.seen EXCEPT !.tx = script.put.tx,
                !.contract = IF script.put.contract # 0 THEN script.put.contract ELSE @]
  /\ script' = [script EXCEPT !.at = script.then, !.seen = None]
  /\ UNCHANGED <<up, seed, funded, chain, run, answer>>

Server ==
  \/ Stop \/ Restart
  \/ \E b \in Broadcasts :
       \/ Begin(b) \/ Unavailable(b) \/ CallContract(b) \/ Transfer(b)
       \/ Refused(b) \/ ReadFile(b) \/ WriteFile(b)
Deployment ==
  Prepare \/ Fund \/ RegisterDust \/ Deploy \/ ScriptReads \/ ScriptWrites

Next == Server \/ Deployment

Spec == Init /\ [][Next]_vars

(* What the universal settlement makes of an answer.                       *)
Receipt(b) ==
  IF answer[b] # None /\ answer[b].status = "submitted" /\ answer[b].tx # 0
  THEN [status |-> "submitted", txHash |-> answer[b].tx,
        txKind |-> IF answer[b].kind = "anchor-fallback" THEN None ELSE answer[b].kind]
  ELSE [status |-> "unavailable", txHash |-> 0, txKind |-> None]

-----------------------------------------------------------------------------
(* A caller that is told of a transaction is told of one that is on the    *)
(* chain, and its receipt names it; its own, unless the fallback answered  *)
(* with one of the script's, for which the receipt has no kind and which a *)
(* caller that requires its own is never given.                            *)
SubmittedIsOnChain ==
  \A b \in Broadcasts :
    LET receipt == Receipt(b)
    IN answer[b] # None /\ answer[b].status = "submitted" =>
         /\ receipt.status = "submitted" /\ receipt.txHash \in 1..Len(chain)
         /\ chain[receipt.txHash] = IF receipt.txKind = None THEN "script" ELSE b
         /\ b \in Required => chain[receipt.txHash] = b
=============================================================================
