---------------------------- MODULE VerifiedMerchant ----------------------------
(***************************************************************************)
(* The verified-merchant skill (services/verifiedMerchant.ts) with the     *)
(* brand catalogue that enrols merchants (services/brandsCatalog.ts).  A   *)
(* merchant is a leaf of its brand's registry; an agent asks whether an    *)
(* address belongs to a merchant, and the answer burns a challenge.        *)
(*                                                                         *)
(* No handler awaits, and each saves before it answers, so each is a step. *)
(* A verification only ever reads the challenge it has issued itself, so   *)
(* the time a challenge has does not matter here.  Digests are ideal: a    *)
(* root is the set of its leaves, a signature names what it signs.         *)
(***************************************************************************)
EXTENDS Integers, FiniteSets

CONSTANTS
  Merchants,    \* identifiers of demo and registered catalogue merchants
  BrandOf,      \* brand of a merchant
  AddressesOf,  \* payment addresses its credential is bound to
  Addresses,    \* addresses an agent may ask about
  Nonces,       \* challenges are named by their nonce
  AutoProve,    \* allowMerchantAutoProve()
  DurableKek,   \* MERCHANT_KEK is configured
  MaxStarts,    \* bound: starts of the server
  None

Brands == {BrandOf[m] : m \in Merchants}

(* What the constants have to be.                                          *)
ConstantTypes ==
  /\ AddressesOf \in [Merchants -> SUBSET Addresses]
  /\ BrandOf \in [Merchants -> Brands]
  /\ AutoProve \in BOOLEAN /\ DurableKek \in BOOLEAN
  /\ MaxStarts \in Nat
  /\ None \notin Merchants

VARIABLES
  up,          \* the process listens
  starts,      \* starts so far; a key derived from the process is named after its start
  leaf,        \* of each merchant: "absent", "live" or "revoked"
  sealedIn,    \* the start whose key sealed the merchant's secret
  root,        \* of each brand: the leaves its root commits to
  nullifiers,  \* revokedVendorNullifiers
  pending,     \* merchantChallenges
  burned,      \* spentMerchantChallenges
  verdicts     \* history: what verifications that succeeded rested on

vars == <<up, starts, leaf, sealedIn, root, nullifiers, pending, burned, verdicts>>
registryVars == <<up, starts, leaf, sealedIn, root, nullifiers>>

Challenge == [merchant : Merchants, address : Addresses, root : SUBSET Merchants]
Proof == [by : Merchants, root : SUBSET Merchants, challenge : Nonces,
          address : Addresses]
Verdict == [merchant : Merchants, address : Addresses, challenge : Nonces,
            live : BOOLEAN, fresh : BOOLEAN]

TypeOK ==
  /\ up \in BOOLEAN /\ starts \in 0..MaxStarts
  /\ leaf \in [Merchants -> {"absent", "live", "revoked"}]
  /\ sealedIn \in [Merchants -> 0..MaxStarts]
  /\ root \in [Brands -> SUBSET Merchants]
  /\ nullifiers \subseteq Merchants
  /\ pending \in [Nonces -> Challenge \union {None}]
  /\ burned \subseteq Nonces
  /\ verdicts \subseteq Verdict

Init ==
  /\ up = FALSE /\ starts = 0
  /\ leaf = [m \in Merchants |-> "absent"] /\ sealedIn = [m \in Merchants |-> 0]
  /\ root = [b \in Brands |-> {}] /\ nullifiers = {}
  /\ pending = [c \in Nonces |-> None] /\ burned = {} /\ verdicts = {}

(* Not as it is: the revoked leaves stay.                                  *)
RecomputedWithRevoked(leaves) ==
  [b \in Brands |-> {m \in Merchants : BrandOf[m] = b /\ leaves[m] # "absent"}]

(* recomputBrandRoot: the leaves of a brand that are not revoked.          *)
Recomputed(leaves) ==
  [b \in Brands |-> {m \in Merchants : BrandOf[m] = b /\ leaves[m] = "live"}]

(* The name of the key at hand.                                            *)
Kek(start) == IF DurableKek THEN 0 ELSE start

(* ensureDemoBrandRegistries and ensureRegisteredBrandsInRegistry: at a    *)
(* start, merchants that have no leaf are enrolled, revoked ones stay so.  *)
Start ==
  /\ ~up /\ starts < MaxStarts
  /\ up' = TRUE /\ starts' = starts + 1
  /\ leaf' = [m \in Merchants |-> IF leaf[m] = "absent" THEN "live" ELSE leaf[m]]
  /\ sealedIn' = [m \in Merchants |->
                    IF leaf[m] = "absent" THEN Kek(starts + 1) ELSE sealedIn[m]]
  /\ root' = Recomputed(leaf')
  /\ UNCHANGED <<nullifiers, pending, burned, verdicts>>

Stop ==
  /\ up /\ up' = FALSE
  /\ UNCHANGED <<starts, leaf, sealedIn, root, nullifiers, pending, burned, verdicts>>

Issued(c) == pending[c] # None \/ c \in burned

(* issueMerchantChallenge: for a merchant that is not revoked, any address.*)
Challenged(m, a) == [merchant |-> m, address |-> a, root |-> root[BrandOf[m]]]

AskChallenge(m, a, c) ==
  /\ up /\ leaf[m] = "live" /\ ~Issued(c)
  /\ pending' = [pending EXCEPT ![c] = Challenged(m, a)]
  /\ UNCHANGED <<registryVars, burned, verdicts>>

(* proveAuthorizedVendor, run by the server with the merchant's key; it    *)
(* throws when the key was sealed by another process, and refuses an       *)
(* address the credential is not bound to.                                 *)
ServerProof(m, a, c) ==
  [by |-> m, root |-> root[BrandOf[m]], challenge |-> c, address |-> a]
CanProve(m, a) ==
  AutoProve /\ a \in AddressesOf[m] /\ sealedIn[m] = Kek(starts)

(* A proof from outside: a merchant's signer answered a challenge that was *)
(* issued before, with the root it was given.                              *)
OutsideProofs ==
  {[by |-> pending[c].merchant, root |-> pending[c].root, challenge |-> c,
    address |-> pending[c].address] : c \in {d \in Nonces : pending[d] # None}}

(* The challenge a proof has to be bound to: the one this call issued.     *)
GivenChallenge(c, p) == IF p = None THEN c ELSE p.challenge
Expected(c, p) == c

(* The checks of verifyMerchantPayment after a proof is at hand.           *)
Accepted(m, a, c, p) ==
  /\ p.challenge = c /\ p.address = a
  /\ p.by \notin nullifiers
  /\ p.by = m /\ p.root = root[BrandOf[m]]
  /\ sealedIn[m] = Kek(starts)
  /\ a \in AddressesOf[m]

Passed(m, a, c, p) ==
  [merchant |-> m, address |-> a, challenge |-> c, live |-> leaf[m] = "live",
   fresh |-> ~Issued(c)]

(* verifyMerchantPayment with the proof p, None to have the server prove.  *)
(* It issues its own challenge c first; a refusal leaves that pending.     *)
Verify(m, a, c, p) ==
  /\ up /\ leaf[m] = "live" /\ m \notin nullifiers /\ ~Issued(c)
  /\ LET proof == IF p = None THEN ServerProof(m, a, c) ELSE p
         chal == Expected(c, p)
     IN IF (p # None \/ CanProve(m, a)) /\ Accepted(m, a, chal, proof)
        THEN /\ burned' = burned \union {chal}
             /\ pending' = [pending EXCEPT ![chal] = None]
             /\ verdicts' = verdicts \union {Passed(m, a, chal, proof)}
        ELSE /\ pending' = [pending EXCEPT ![c] = Challenged(m, a)]
             /\ UNCHANGED <<burned, verdicts>>
  /\ UNCHANGED registryVars

(* revokeMerchant: leaf, nullifier and the brand's root change together.   *)
Revoke(m) ==
  /\ up /\ leaf[m] = "live"
  /\ leaf' = [leaf EXCEPT ![m] = "revoked"]
  /\ nullifiers' = nullifiers \union {m}
  /\ root' = [root EXCEPT ![BrandOf[m]] = Recomputed(leaf')[BrandOf[m]]]
  /\ UNCHANGED <<up, starts, sealedIn, pending, burned, verdicts>>

Next ==
  \/ Start \/ Stop
  \/ \E m \in Merchants : Revoke(m)
  \/ \E m \in Merchants, a \in Addresses, c \in Nonces :
       \/ AskChallenge(m, a, c)
       \/ \E p \in OutsideProofs \union {None} : Verify(m, a, c, p)

Spec == Init /\ [][Next]_vars

(* classifyRecipient, which /api/recipients/verify passes on: what a payer *)
(* is told of a registered merchant, and the address that goes with it.    *)
Classified(m) ==
  [status |-> "verified",
   address |-> IF leaf[m] = "live" THEN AddressesOf[m] ELSE {}]

-----------------------------------------------------------------------------
(* The registry's three records of who may be paid agree whatever order    *)
(* enrolment, revocation and starts come in: a root commits to exactly the *)
(* leaves that are live, and the nullifiers are the revoked ones.          *)
RegistryAgrees ==
  /\ \A b \in Brands : root[b] = {m \in Merchants : BrandOf[m] = b /\ leaf[m] = "live"}
  /\ nullifiers = {m \in Merchants : leaf[m] = "revoked"}

(* A success burned a challenge that this very call issued, so that no     *)
(* proof made before the call counts, burned it once, for a merchant that  *)
(* was live and an address its credential is bound to; a burned challenge  *)
(* is never pending again, and no payer is shown the address of a merchant *)
(* whose nullifier is published.                                           *)
VerdictsAreFresh ==
  /\ \A v \in verdicts :
       /\ v.live /\ v.fresh /\ v.address \in AddressesOf[v.merchant]
       /\ v.challenge \in burned
       /\ \A w \in verdicts : w.challenge = v.challenge => w = v
  /\ \A c \in burned : pending[c] = None
  /\ \A m \in nullifiers : Classified(m).address = {}
=============================================================================
