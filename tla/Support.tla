------------------------------- MODULE Support -------------------------------
(***************************************************************************)
(* What stands around a payment, composed: verified merchants, the         *)
(* appliance with their keys, identities, broadcasts to the test network,  *)
(* recovery and disputes.                                                  *)
(* None of them shares state with another, so the first state chooses      *)
(* which one runs, and what holds of a part then holds of it beside any of *)
(* the others.                                                             *)
(***************************************************************************)
EXTENDS VerifiedMerchant

CONSTANTS
  Calls,                                               \* MerchantKeys
  Names, Documents, Jurisdictions, Domestic,           \* Identity; its nonces are
  SessionNonces, Intents, MaxIssuances,                \* named SessionNonces here
  Broadcasts, Required, AllowFallback,                 \* Broadcast
  Devices, Durable, Holders, Strangers, Threshold, MaxVersions,       \* Recovery
  Payments, Clicks, Opening, MaxSeals                  \* Disputes

VARIABLES part,
  configured, running, keyStarts, keys, keyFile, keyCall, signed, registered, torn,
  leaves, kycRoot, revoked, issuance, account, asked, proof, spent, sessions,
  serverUp, seed, funded, chain, deployment, broadcast, script, answer,
  made, named, device, files, late, cloud, uploaded, released, restored, soft, strayed, raced,
  vault, shown, tip, seals, flow, dispute

Keys == INSTANCE MerchantKeys WITH starts <- keyStarts, file <- keyFile, call <- keyCall
Person == INSTANCE Identity WITH
  Nonces <- SessionNonces, root <- kycRoot, pending <- asked, burned <- spent
Chain == INSTANCE Broadcast WITH up <- serverUp, file <- deployment, run <- broadcast
Kit == INSTANCE Recovery WITH tip <- named
Dispute == INSTANCE Disputes WITH disk <- vault

(* What the constants of all parts have to be.                             *)
SupportConstants ==
  /\ ConstantTypes /\ Keys!ConstantTypes /\ Person!ConstantTypes
  /\ Chain!ConstantTypes /\ Kit!ConstantTypes /\ Dispute!ConstantTypes

keyVars == <<configured, running, keyStarts, keys, keyFile, keyCall, signed, registered, torn>>
personVars == <<leaves, kycRoot, revoked, issuance, account, asked, proof, spent, sessions>>
chainVars == <<serverUp, seed, funded, chain, deployment, broadcast, script, answer>>
kitVars == <<made, named, device, files, late, cloud, uploaded, released, restored, soft,
             strayed, raced>>
disputeVars == <<vault, shown, tip, seals, flow, dispute>>
allVars == <<part, vars, keyVars, personVars, chainVars, kitVars, disputeVars>>

SupportInit ==
  /\ part \in {"merchants", "keys", "identity", "broadcast", "recovery", "disputes"}
  /\ Init /\ Keys!Init /\ Person!Init /\ Chain!Init /\ Kit!Init /\ Dispute!Init
  /\ part # "keys" => configured
  /\ part # "broadcast" => seed

SupportNext ==
  /\ UNCHANGED part
  /\ \/ /\ part = "merchants" /\ Next
        /\ UNCHANGED <<keyVars, personVars, chainVars, kitVars, disputeVars>>
     \/ /\ part = "keys" /\ Keys!Next
        /\ UNCHANGED <<vars, personVars, chainVars, kitVars, disputeVars>>
     \/ /\ part = "identity" /\ Person!Next
        /\ UNCHANGED <<vars, keyVars, chainVars, kitVars, disputeVars>>
     \/ /\ part = "broadcast" /\ Chain!Next
        /\ UNCHANGED <<vars, keyVars, personVars, kitVars, disputeVars>>
     \/ /\ part = "recovery" /\ Kit!Next
        /\ UNCHANGED <<vars, keyVars, personVars, chainVars, disputeVars>>
     \/ /\ part = "disputes" /\ Dispute!Next
        /\ UNCHANGED <<vars, keyVars, personVars, chainVars, kitVars>>

SupportSpec == SupportInit /\ [][SupportNext]_allVars

-----------------------------------------------------------------------------
(* The variables of the part that runs have their types.                   *)
PartTypes ==
  CASE part = "merchants" -> TypeOK
    [] part = "keys" -> Keys!TypeOK
    [] part = "identity" -> Person!TypeOK
    [] part = "broadcast" -> Chain!TypeOK
    [] part = "recovery" -> Kit!TypeOK
    [] part = "disputes" -> Dispute!TypeOK
(* A verdict on a merchant rests on a challenge of its own call, and the   *)
(* appliance keeps the keys it has given out.                              *)
MerchantsHold == VerdictsAreFresh /\ Keys!KeysLast
(* The registry of credentials agrees with itself, and sessions are earned.*)
IdentityHolds == Person!RegistryAgrees /\ Person!SessionsAreEarned
(* A caller told of a transaction is told of one on the chain.             *)
SubmittedIsOnChain == Chain!SubmittedIsOnChain
(* Vaults open with their keys, and the server names the newest one.       *)
RecoveryHolds == Kit!RecoveryHolds
(* Balances fit their histories, and refunds were disputed.                *)
DisputesHold == Dispute!DisputesHold
=============================================================================
