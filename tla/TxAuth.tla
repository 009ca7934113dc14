-------------------------------- MODULE TxAuth --------------------------------
(***************************************************************************)
(* Rail-agnostic transaction authorization (server/txAuth): an agent       *)
(* commits to an intent, is issued a challenge for it, has the merchant    *)
(* sign the intent, has the server prove the three together against the    *)
(* registry of merchants, and has the proof verified.  Each part is an     *)
(* endpoint; runAuthorizeWorkflow is the parts in that order.              *)
(*                                                                         *)
(* Signing and proving are cut at their awaits (the merchant's HSM, the    *)
(* Compact circuit, the proof server); issuing, verifying and revoking     *)
(* await nothing.  The agent keeps signatures and proofs and may use them  *)
(* in any order and more than once.  What it has verified need not be a    *)
(* proof the server made: a proof is a digest without a key over values    *)
(* the agent holds, and is part of the request.  An intent is named, not   *)
(* spelled out: equal commitments are equal intents.                       *)
(***************************************************************************)
EXTENDS Integers, FiniteSets

CONSTANTS
  Merchants,
  Intents,
  MerchantOf,  \* the merchant an intent names
  OverLimit,   \* intents above the merchants' limit of 1 000 000
  Challenges,
  Calls,       \* calls of /prove
  MaxCrashes,  \* bound: restarts
  None

ASSUME ConstantTypes ==
  /\ MerchantOf \in [Intents -> Merchants]
  /\ OverLimit \subseteq Intents
  /\ MaxCrashes \in Nat /\ None \notin Intents

VARIABLES
  revoked,     \* merchants that were revoked; the root is over the others
  issued,      \* intent a challenge was issued for
  pending,     \* challenges in the map
  spent,       \* spent_challenges
  late,        \* challenges past their five minutes
  asked,       \* intents whose signature is being waited for
  signed,      \* intents the agent holds the merchant's signature of
  call,        \* calls of /prove
  proofs,      \* proofs the server has made
  authorized,  \* history: the verifications that succeeded
  crashes

vars == <<revoked, issued, pending, spent, late, asked, signed, call, proofs,
          authorized, crashes>>

Proof == [challenge : Challenges, intent : Intents, root : SUBSET Merchants]
CallRecord == [at : {"verifying", "proving", "answered", "refused", "lost"},
               challenge : Challenges, intent : Intents, root : SUBSET Merchants]
Authorization == [challenge : Challenges, intent : Intents, revoked : SUBSET Merchants,
                  proved : BOOLEAN, times : Nat]

TypeOK ==
  /\ revoked \subseteq Merchants
  /\ issued \in [Challenges -> Intents \union {None}]
  /\ pending \subseteq Challenges /\ spent \subseteq Challenges /\ late \subseteq Challenges
  /\ pending \intersect spent = {}
  /\ asked \subseteq Intents /\ signed \subseteq Intents
  /\ call \in [Calls -> CallRecord \union {None}]
  /\ proofs \subseteq Proof /\ authorized \subseteq Authorization
  /\ crashes \in 0..MaxCrashes

Init ==
  /\ revoked = {} /\ issued = [ch \in Challenges |-> None]
  /\ pending = {} /\ spent = {} /\ late = {}
  /\ asked = {} /\ signed = {}
  /\ call = [c \in Calls |-> None]
  /\ proofs = {} /\ authorized = {} /\ crashes = 0

(* computeRegistryRoot: a root stands for the merchants it is over.        *)
Root == Merchants \ revoked
Active(i) == MerchantOf[i] \notin revoked

IssueChallenge(ch) ==
  /\ issued[ch] = None
  /\ \E i \in Intents : issued' = [issued EXCEPT ![ch] = i]
  /\ pending' = pending \union {ch}
  /\ UNCHANGED <<revoked, spent, late, asked, signed, call, proofs, authorized, crashes>>

Expire(ch) ==
  /\ ch \in pending \ late
  /\ late' = late \union {ch}
  /\ UNCHANGED <<revoked, issued, pending, spent, asked, signed, call, proofs,
                 authorized, crashes>>

(* authorizeIntent, before and after the HSM.                              *)
MaySign(i) == Active(i) /\ i \notin OverLimit

AskSignature(i) ==
  /\ MaySign(i)
  /\ i \notin asked \union signed
  /\ asked' = asked \union {i}
  /\ UNCHANGED <<revoked, issued, pending, spent, late, signed, call, proofs,
                 authorized, crashes>>

Sign(i) ==
  /\ i \in asked
  /\ asked' = asked \ {i} /\ signed' = signed \union {i}
  /\ UNCHANGED <<revoked, issued, pending, spent, late, call, proofs, authorized, crashes>>

(* generateAuthorizedTxProof, up to the verification of the signature: the *)
(* challenge must be pending and issued for this very intent.              *)
ForAnyIntent(ch, i) == issued[ch] # None
ForThisIntent(ch, i) == issued[ch] = i

BeginProve(c) ==
  /\ call[c] = None
  /\ \E ch \in pending \ late, i \in signed :
       /\ Active(i) /\ ForThisIntent(ch, i)
       /\ call' = [call EXCEPT ![c] = [at |-> "verifying", challenge |-> ch,
                                       intent |-> i, root |-> {}]]
  /\ UNCHANGED <<revoked, issued, pending, spent, late, asked, signed, proofs,
                 authorized, crashes>>

(* The signature is good; leaf, path and root are read now.                *)
ReadRegistry(c) ==
  /\ call[c] # None /\ call[c].at = "verifying"
  /\ call' = [call EXCEPT ![c].at = IF Active(call[c].intent) THEN "proving" ELSE "refused",
                          ![c].root = Root]
  /\ UNCHANGED <<revoked, issued, pending, spent, late, asked, signed, proofs,
                 authorized, crashes>>

(* The circuit and the SNARK may fail: the proof is the digest either way. *)
EndProve(c) ==
  /\ call[c] # None /\ call[c].at = "proving"
  /\ call' = [call EXCEPT ![c].at = "answered"]
  /\ proofs' = proofs \union {[challenge |-> call[c].challenge,
                               intent |-> call[c].intent, root |-> call[c].root]}
  /\ UNCHANGED <<revoked, issued, pending, spent, late, asked, signed, authorized, crashes>>

(* consumeChallenge deletes the challenge from the map, spent or late.      *)
(* Mutant of PendingWithout: it stays there.                               *)
PendingStill(ch) == pending
PendingWithout(ch) == pending \ {ch}

(* verifyAuthorizedTransaction: the checks in one stretch with the burning *)
(* of the challenge.  The proof has to be of this registry, of a pending   *)
(* challenge and of an intent with the merchant's signature; the intent    *)
(* the challenge was issued for is not looked at.  A proof of more than    *)
(* ten minutes is of a challenge that is late already.                     *)
Verifies(p) ==
  /\ Active(p.intent) /\ p.root = Root /\ p.challenge \in pending
  /\ p.intent \in signed

Earlier(p) == {a \in authorized : a.challenge = p.challenge}

Verify(p) ==
  /\ Verifies(p) /\ p.challenge \notin late
  /\ spent' = spent \union {p.challenge}
  /\ pending' = PendingWithout(p.challenge)
  /\ authorized' = authorized \union
       {[challenge |-> p.challenge, intent |-> p.intent, revoked |-> revoked,
         proved |-> p \in proofs, times |-> Cardinality(Earlier(p)) + 1]}
  /\ UNCHANGED <<revoked, issued, late, asked, signed, call, proofs, crashes>>

(* consumeChallenge drops a challenge that came too late.                  *)
VerifyLate(p) ==
  /\ Verifies(p) /\ p.challenge \in late
  /\ pending' = PendingWithout(p.challenge)
  /\ UNCHANGED <<revoked, issued, spent, late, asked, signed, call, proofs,
                 authorized, crashes>>

(* revokeMerchant; nothing enrolls a merchant again.                       *)
Revoke(m) ==
  /\ m \notin revoked
  /\ revoked' = revoked \union {m}
  /\ UNCHANGED <<issued, pending, spent, late, asked, signed, call, proofs,
                 authorized, crashes>>

(* All of this is saved as it changes; what was awaited is gone.           *)
Crash ==
  /\ crashes < MaxCrashes /\ crashes' = crashes + 1
  /\ asked' = {}
  /\ call' = [c \in Calls |->
                IF call[c] # None /\ call[c].at \in {"verifying", "proving"}
                THEN [call[c] EXCEPT !.at = "lost"] ELSE call[c]]
  /\ UNCHANGED <<revoked, issued, pending, spent, late, signed, proofs, authorized>>

Next ==
  \/ \E ch \in Challenges : IssueChallenge(ch) \/ Expire(ch)
  \/ \E i \in Intents : AskSignature(i) \/ Sign(i)
  \/ \E c \in Calls : BeginProve(c) \/ ReadRegistry(c) \/ EndProve(c)
  \/ \E p \in Proof : Verify(p) \/ VerifyLate(p)
  \/ \E m \in Merchants : Revoke(m)
  \/ Crash

Spec == Init /\ [][Next]_vars

-----------------------------------------------------------------------------
(* A challenge authorizes once, however often, early or late its proofs    *)
(* are presented, restarts included.                                       *)
OncePerChallenge == \A a \in authorized : a.times = 1

(* What is authorized is an intent its merchant signed, under the limit.   *)
(* With a proof the server made it is the intent the challenge was issued  *)
(* for: that is checked when the proof is begun, in another request than   *)
(* the one that verifies it.  With any other proof it may be another       *)
(* signed intent of the agent's.                                           *)
OfItsIntent ==
  \A a \in authorized :
    /\ a.intent \in signed \ OverLimit
    /\ a.proved => issued[a.challenge] = a.intent

(* No merchant is authorized for after it was revoked, however early its   *)
(* signature was given and its proof was made.                             *)
OfTheStanding == \A a \in authorized : MerchantOf[a.intent] \notin a.revoked

(* The server never compares the challenge's intent when it verifies: what *)
(* holds then rests on what signing and proving checked at other times.    *)
AuthorizationIsEarned == OncePerChallenge /\ OfItsIntent /\ OfTheStanding
=============================================================================
