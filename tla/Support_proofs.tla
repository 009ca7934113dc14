---------------------------- MODULE Support_proofs ----------------------------
(***************************************************************************)
(* Proofs about what stands around a payment: the verified-merchant skill, *)
(* the appliance with the merchants' keys, identities, broadcasts to the   *)
(* test network, recovery and disputes.  Each part has an inductive        *)
(* invariant of its own, over its own variables, and at the end every      *)
(* property of Support follows, since a behaviour of Support is one of     *)
(* every part.                                                             *)
(*                                                                         *)
(* Of merchants: that the three records of a brand agree is inductive once *)
(* the variables have their types; that a verdict rests on a fresh         *)
(* challenge and a live merchant follows from the same invariant, because  *)
(* a challenge that is burned is burned in every later state.              *)
(***************************************************************************)
EXTENDS Support, Sequences, FiniteSetTheorems, WellFoundedInduction, TLAPS

USE DEF Brands

(* A merchant's brand is a brand.                                          *)
LEMMA BrandsOfMerchants ==
  ASSUME ConstantTypes, NEW m \in Merchants PROVE BrandOf[m] \in Brands
  BY DEF ConstantTypes

(* A root that is computed from the leaves is a set of merchants.          *)
LEMMA RecomputedType ==
  ASSUME NEW tree PROVE Recomputed(tree) \in [Brands -> SUBSET Merchants]
  BY DEF Recomputed

(* A challenge is made for a merchant with its brand's root.               *)
LEMMA ChallengedType ==
  ASSUME ConstantTypes, TypeOK, NEW m \in Merchants, NEW a \in Addresses
  PROVE Challenged(m, a) \in Challenge
  <1>1. root[BrandOf[m]] \in SUBSET Merchants
    BY BrandsOfMerchants DEF TypeOK
  <1> QED BY <1>1 DEF Challenged, Challenge

(* A start keeps the types.                                                *)
LEMMA StartTypes == ASSUME ConstantTypes, TypeOK, Start PROVE TypeOK'
  <1>1. starts' \in 0..MaxStarts
    BY DEF Start, TypeOK, ConstantTypes
  <1>2. leaf' \in [Merchants -> {"absent", "live", "revoked"}]
    BY DEF Start, TypeOK
  <1>3. Kek(starts + 1) \in 0..MaxStarts
    BY DEF Start, TypeOK, Kek, ConstantTypes
  <1>4. sealedIn' \in [Merchants -> 0..MaxStarts]
    BY <1>3 DEF Start, TypeOK
  <1>5. root' \in [Brands -> SUBSET Merchants]
    BY RecomputedType DEF Start
  <1> QED BY <1>1, <1>2, <1>4, <1>5 DEF Start, TypeOK

(* A revocation keeps the types.                                           *)
LEMMA RevokeTypes ==
  ASSUME ConstantTypes, TypeOK, NEW m \in Merchants, Revoke(m) PROVE TypeOK'
  <1>1. leaf' \in [Merchants -> {"absent", "live", "revoked"}]
    BY DEF Revoke, TypeOK
  <1>2. Recomputed(leaf')[BrandOf[m]] \in SUBSET Merchants
    BY RecomputedType, BrandsOfMerchants
  <1>3. root' \in [Brands -> SUBSET Merchants]
    BY <1>2 DEF Revoke, TypeOK
  <1> QED BY <1>1, <1>3 DEF Revoke, TypeOK

(* What a verification does to the records, as three facts.                *)
LEMMA VerifyEffect ==
  ASSUME NEW m \in Merchants, NEW a \in Addresses, NEW c \in Nonces, NEW p,
         Verify(m, a, c, p)
  PROVE  /\ UNCHANGED registryVars /\ ~Issued(c)
         /\ \/ /\ burned' = burned \union {c}
               /\ pending' = [pending EXCEPT ![c] = None]
               /\ verdicts' = verdicts \union {Passed(m, a, c, p)}
               /\ leaf[m] = "live" /\ a \in AddressesOf[m]
            \/ /\ pending' = [pending EXCEPT ![c] = Challenged(m, a)]
               /\ UNCHANGED <<burned, verdicts>>
  BY DEF Verify, Expected, Passed, Accepted

(* A verdict is one.                                                       *)
LEMMA PassedType ==
  ASSUME NEW m \in Merchants, NEW a \in Addresses, NEW c \in Nonces, NEW p
  PROVE  Passed(m, a, c, p) \in Verdict
  BY DEF Passed, Verdict, Issued

(* A verification keeps the types.                                         *)
LEMMA VerifyTypes ==
  ASSUME ConstantTypes, TypeOK, NEW m \in Merchants, NEW a \in Addresses,
         NEW c \in Nonces, NEW p, Verify(m, a, c, p)
  PROVE  TypeOK'
  <1>1. Challenged(m, a) \in Challenge \union {None}
    BY ChallengedType
  <1>2. pending' \in [Nonces -> Challenge \union {None}]
    BY <1>1, VerifyEffect DEF TypeOK
  <1>3. burned' \subseteq Nonces
    BY VerifyEffect DEF TypeOK
  <1>4. verdicts' \subseteq Verdict
    BY VerifyEffect, PassedType DEF TypeOK
  <1>5. UNCHANGED registryVars
    BY VerifyEffect
  <1> QED BY <1>2, <1>3, <1>4, <1>5 DEF TypeOK, registryVars

(* A challenge that is asked for keeps the types.                          *)
LEMMA AskTypes ==
  ASSUME ConstantTypes, TypeOK, NEW m \in Merchants, NEW a \in Addresses,
         NEW c \in Nonces, AskChallenge(m, a, c)
  PROVE  TypeOK'
  <1>1. Challenged(m, a) \in Challenge \union {None}
    BY ChallengedType
  <1>2. pending' \in [Nonces -> Challenge \union {None}]
    BY <1>1 DEF AskChallenge, TypeOK
  <1> QED BY <1>2 DEF AskChallenge, TypeOK, registryVars

(* A server that has not started is within its bound of starts.            *)
LEMMA NoStartYet == ASSUME ConstantTypes PROVE 0 \in 0..MaxStarts
  <1>1. MaxStarts \in Nat
    BY DEF ConstantTypes
  <1> QED BY <1>1

(* The variables have their types in every reachable state.                *)
THEOREM MerchantTyping == ASSUME ConstantTypes PROVE Spec => []TypeOK
  <1>1. Init => TypeOK
    <2> SUFFICES ASSUME Init PROVE TypeOK
      OBVIOUS
    <2>1. 0 \in 0..MaxStarts
      BY NoStartYet
    <2>2. up \in BOOLEAN /\ starts \in 0..MaxStarts
      BY <2>1 DEF Init
    <2>3. sealedIn \in [Merchants -> 0..MaxStarts]
      BY <2>1 DEF Init
    <2>4. leaf \in [Merchants -> {"absent", "live", "revoked"}]
      BY DEF Init
    <2>5. root \in [Brands -> SUBSET Merchants] /\ nullifiers \subseteq Merchants
      BY DEF Init
    <2>6. pending \in [Nonces -> Challenge \union {None}]
      BY DEF Init
    <2> QED BY <2>2, <2>3, <2>4, <2>5, <2>6 DEF Init, TypeOK
  <1>2. TypeOK /\ [Next]_vars => TypeOK'
    <2> SUFFICES ASSUME TypeOK, [Next]_vars PROVE TypeOK'
      OBVIOUS
    <2>1. ASSUME Start PROVE TypeOK'
      BY <2>1, StartTypes
    <2>2. ASSUME Stop PROVE TypeOK'
      BY <2>2 DEF Stop, TypeOK
    <2>3. ASSUME NEW m \in Merchants, Revoke(m) PROVE TypeOK'
      BY <2>3, RevokeTypes
    <2>4. ASSUME NEW m \in Merchants, NEW a \in Addresses, NEW c \in Nonces,
                 AskChallenge(m, a, c)
          PROVE  TypeOK'
      BY <2>4, AskTypes
    <2>5. ASSUME NEW m \in Merchants, NEW a \in Addresses, NEW c \in Nonces,
                 NEW p \in OutsideProofs \union {None}, Verify(m, a, c, p)
          PROVE  TypeOK'
      BY <2>5, VerifyTypes
    <2>6. ASSUME UNCHANGED vars PROVE TypeOK'
      BY <2>6 DEF vars, TypeOK
    <2> QED BY <2>1, <2>2, <2>3, <2>4, <2>5, <2>6 DEF Next
  <1> QED BY <1>1, <1>2, PTL DEF Spec

-----------------------------------------------------------------------------
(* A revocation takes exactly the merchant's leaf out of its brand's root, *)
(* and leaves the other brands as they were.                               *)
LEMMA RevokeAgrees ==
  ASSUME ConstantTypes, TypeOK, RegistryAgrees, NEW m \in Merchants, Revoke(m)
  PROVE  RegistryAgrees'
  <1>1. /\ leaf' = [leaf EXCEPT ![m] = "revoked"]
        /\ nullifiers' = nullifiers \union {m}
        /\ root' = [root EXCEPT ![BrandOf[m]] = Recomputed(leaf')[BrandOf[m]]]
    BY DEF Revoke
  <1>2. ASSUME NEW b \in Brands
        PROVE root'[b] = {n \in Merchants : BrandOf[n] = b /\ leaf'[n] = "live"}
    <2>1. CASE b = BrandOf[m]
      BY <1>1, <2>1 DEF TypeOK, Recomputed
    <2>2. CASE b # BrandOf[m]
      <3>1. root'[b] = root[b]
        BY <1>1, <2>2 DEF TypeOK
      <3>2. \A n \in Merchants : BrandOf[n] = b => leaf'[n] = leaf[n]
        BY <1>1, <2>2 DEF TypeOK
      <3> QED BY <3>1, <3>2 DEF RegistryAgrees
    <2> QED BY <2>1, <2>2
  <1>3. nullifiers' = {n \in Merchants : leaf'[n] = "revoked"}
    BY <1>1 DEF TypeOK, RegistryAgrees
  <1> QED BY <1>2, <1>3 DEF RegistryAgrees

(* A start enrols who has no leaf and recomputes every root.               *)
LEMMA StartAgrees ==
  ASSUME TypeOK, RegistryAgrees, Start PROVE RegistryAgrees'
  <1>1. \A n \in Merchants : leaf'[n] = "revoked" <=> leaf[n] = "revoked"
    BY DEF Start, TypeOK
  <1>2. nullifiers' = {n \in Merchants : leaf'[n] = "revoked"}
    BY <1>1 DEF Start, RegistryAgrees
  <1> QED BY <1>2 DEF Start, RegistryAgrees, Recomputed

(* The registry's root, its leaves and the published nullifiers agree in   *)
(* every reachable state (recomputBrandRoot, revokeMerchant).              *)
THEOREM RegistriesAgree == ASSUME ConstantTypes PROVE Spec => []RegistryAgrees
  <1>1. Init => RegistryAgrees
    BY DEF Init, RegistryAgrees
  <1>2. TypeOK /\ RegistryAgrees /\ [Next]_vars => RegistryAgrees'
    <2> SUFFICES ASSUME TypeOK, RegistryAgrees, [Next]_vars PROVE RegistryAgrees'
      OBVIOUS
    <2>1. ASSUME Start PROVE RegistryAgrees'
      BY <2>1, StartAgrees
    <2>2. ASSUME NEW m \in Merchants, Revoke(m) PROVE RegistryAgrees'
      BY <2>2, RevokeAgrees
    <2>3. ASSUME UNCHANGED <<leaf, root, nullifiers>> PROVE RegistryAgrees'
      BY <2>3 DEF RegistryAgrees
    <2>4. ASSUME NEW m \in Merchants, NEW a \in Addresses, NEW c \in Nonces,
                 NEW p, AskChallenge(m, a, c) \/ Verify(m, a, c, p)
          PROVE  UNCHANGED <<leaf, root, nullifiers>>
      BY <2>4 DEF AskChallenge, Verify, registryVars
    <2> QED BY <2>1, <2>2, <2>3, <2>4 DEF Next, Stop, vars
  <1> QED BY <1>1, <1>2, MerchantTyping, PTL DEF Spec

-----------------------------------------------------------------------------
(* What a verdict rested on, and that its challenge stays burned; without  *)
(* the classification of payees, which follows from RegistryAgrees.        *)
FreshInv ==
  /\ \A v \in verdicts :
       /\ v.live /\ v.fresh /\ v.address \in AddressesOf[v.merchant]
       /\ v.challenge \in burned
       /\ \A w \in verdicts : w.challenge = v.challenge => w = v
  /\ \A c \in burned : pending[c] = None

(* A verification that succeeds adds one verdict, on a challenge no other  *)
(* verdict has.                                                            *)
LEMMA VerifyFresh ==
  ASSUME TypeOK, FreshInv, NEW m \in Merchants, NEW a \in Addresses,
         NEW c \in Nonces, NEW p, Verify(m, a, c, p)
  PROVE  FreshInv'
  <1>1. c \notin burned /\ pending[c] = None
    BY VerifyEffect DEF Issued
  <1>2. ASSUME burned' = burned \union {c}, pending' = [pending EXCEPT ![c] = None],
               verdicts' = verdicts \union {Passed(m, a, c, p)},
               leaf[m] = "live", a \in AddressesOf[m]
        PROVE  FreshInv'
    <2> DEFINE new == Passed(m, a, c, p)
    <2>1. /\ new.live /\ new.fresh /\ new.address \in AddressesOf[new.merchant]
          /\ new.challenge = c
      BY <1>1, <1>2 DEF Passed, Issued
    <2>2. \A v \in verdicts : v.challenge # c
      BY <1>1 DEF FreshInv
    <2>3. \A d \in burned' : pending'[d] = None
      BY <1>2 DEF FreshInv, TypeOK
    <2> HIDE DEF new
    <2>4. verdicts' = verdicts \union {new}
      BY <1>2 DEF new
    <2> QED BY <1>2, <2>1, <2>2, <2>3, <2>4 DEF FreshInv
  <1>3. ASSUME pending' = [pending EXCEPT ![c] = Challenged(m, a)],
               UNCHANGED <<burned, verdicts>>
        PROVE  FreshInv'
    BY <1>1, <1>3 DEF FreshInv, TypeOK
  <1> QED BY <1>2, <1>3, VerifyEffect

(* Every verification that succeeded burned a challenge of its own, for a  *)
(* live merchant and an address of its credential, and no payer is shown   *)
(* the address of a revoked merchant (verifyMerchantPayment,               *)
(* classifyRecipient).                                                     *)
THEOREM VerdictsStayFresh == ASSUME ConstantTypes PROVE Spec => []VerdictsAreFresh
  <1>1. Init => FreshInv
    BY DEF Init, FreshInv
  <1>2. TypeOK /\ FreshInv /\ [Next]_vars => FreshInv'
    <2> SUFFICES ASSUME TypeOK, FreshInv, [Next]_vars PROVE FreshInv'
      OBVIOUS
    <2>1. ASSUME UNCHANGED <<burned, pending, verdicts>> PROVE FreshInv'
      BY <2>1 DEF FreshInv
    <2>2. ASSUME NEW m \in Merchants, NEW a \in Addresses, NEW c \in Nonces,
                 AskChallenge(m, a, c)
          PROVE  FreshInv'
      BY <2>2 DEF AskChallenge, Issued, FreshInv, TypeOK
    <2>3. ASSUME NEW m \in Merchants, NEW a \in Addresses, NEW c \in Nonces,
                 NEW p \in OutsideProofs \union {None}, Verify(m, a, c, p)
          PROVE  FreshInv'
      BY <2>3, VerifyFresh
    <2>4. ASSUME NEW m \in Merchants, Revoke(m)
          PROVE  UNCHANGED <<burned, pending, verdicts>>
      BY <2>4 DEF Revoke
    <2> QED BY <2>1, <2>2, <2>3, <2>4 DEF Next, Start, Stop, vars
  <1>3. RegistryAgrees => \A m \in nullifiers : Classified(m).address = {}
    BY DEF RegistryAgrees, Classified
  <1>4. FreshInv /\ RegistryAgrees => VerdictsAreFresh
    BY <1>3 DEF FreshInv, VerdictsAreFresh
  <1> QED BY <1>1, <1>2, <1>4, MerchantTyping, RegistriesAgree, PTL DEF Spec

HIDE DEF Brands

-----------------------------------------------------------------------------
(* The appliance.                                                          *)

(* The bound on starts is a number, and nothing is not a call.             *)
LEMMA KeyConstants == ASSUME Keys!ConstantTypes PROVE MaxStarts \in Nat /\ None \notin Calls
  BY DEF Keys!ConstantTypes

(* A call of the signer, as the step that sends it makes it.               *)
LEMMA KeySendTypes ==
  ASSUME Keys!TypeOK, NEW c \in Calls, NEW op \in {"register", "sign", "verify"},
         NEW m \in Merchants, NEW s \in Calls \union {None}, Keys!Send(c, op, m, s)
  PROVE  Keys!TypeOK'
  <1> DEFINE new == [at |-> "sent", op |-> op, merchant |-> m, of |-> s,
                     ok |-> FALSE, arrived |-> FALSE]
  <1>1. new \in Keys!Call
    BY DEF Keys!Call
  <1>2. keyCall' = [keyCall EXCEPT ![c] = new]
    BY DEF Keys!Send
  <1> HIDE DEF new
  <1>3. keyCall' \in [Calls -> Keys!Call \union {None}]
    BY <1>1, <1>2 DEF Keys!TypeOK
  <1> QED BY <1>3 DEF Keys!TypeOK, Keys!Send

(* A call that got an answer, or was given up on, is still a call.         *)
LEMMA KeyCallTypes ==
  ASSUME Keys!TypeOK, NEW c \in Calls, keyCall[c] # None, NEW ok \in BOOLEAN
  PROVE  /\ Keys!Answered(c, ok) \in [Calls -> Keys!Call \union {None}]
         /\ [keyCall EXCEPT ![c].arrived = TRUE] \in [Calls -> Keys!Call \union {None}]
         /\ [keyCall EXCEPT ![c].at = "failed"] \in [Calls -> Keys!Call \union {None}]
  <1>1. keyCall \in [Calls -> Keys!Call \union {None}] /\ keyCall[c] \in Keys!Call
    BY DEF Keys!TypeOK
  <1> DEFINE now == keyCall[c]
             done == [[[now EXCEPT !.arrived = TRUE] EXCEPT !.ok = ok /\ now.at = "sent"]
                        EXCEPT !.at = IF now.at = "sent" THEN "answered" ELSE now.at]
  <1>2. done \in Keys!Call /\ [now EXCEPT !.arrived = TRUE] \in Keys!Call
        /\ [now EXCEPT !.at = "failed"] \in Keys!Call
    BY <1>1 DEF Keys!Call
  <1>3. Keys!Answered(c, ok) = [keyCall EXCEPT ![c] = done]
    BY <1>1 DEF Keys!Answered, Keys!Call
  <1>4. /\ [keyCall EXCEPT ![c].arrived = TRUE]
             = [keyCall EXCEPT ![c] = [now EXCEPT !.arrived = TRUE]]
        /\ [keyCall EXCEPT ![c].at = "failed"]
             = [keyCall EXCEPT ![c] = [now EXCEPT !.at = "failed"]]
    BY <1>1
  <1> HIDE DEF done, now
  <1> QED BY <1>1, <1>2, <1>3, <1>4

(* A running appliance has been started.                                   *)
KeysTyped == Keys!TypeOK /\ (running => keyStarts # 0)

(* The appliance and its signer keep the types.                            *)
LEMMA KeyTyping ==
  ASSUME Keys!ConstantTypes
  PROVE  /\ Keys!Init => KeysTyped
         /\ KeysTyped /\ [Keys!Next]_(Keys!vars) => KeysTyped'
  <1> USE KeyConstants
  <1>0. 0 \in 0..MaxStarts
    OBVIOUS
  <1>1. ASSUME Keys!Init PROVE KeysTyped
    <2>1. Keys!NoKeys \in Keys!KeyMap
      BY DEF Keys!NoKeys, Keys!KeyMap
    <2>2. keyFile \in [under : 0..MaxStarts, keys : Keys!KeyMap]
      BY <1>0, <1>1, <2>1 DEF Keys!Init, Keys!Unreadable
    <2> QED BY <1>0, <1>1, <2>1, <2>2 DEF Keys!Init, Keys!TypeOK, KeysTyped
  <1>2. ASSUME KeysTyped, [Keys!Next]_(Keys!vars) PROVE KeysTyped'
    <2> USE <1>2 DEF KeysTyped
    <2>1. CASE Keys!Start
      <3>1. Keys!Loaded(keyStarts + 1) \in Keys!KeyMap
        BY DEF Keys!Loaded, Keys!NoKeys, Keys!KeyMap, Keys!TypeOK
      <3>2. keyStarts' \in 0..MaxStarts
        BY <2>1 DEF Keys!Start, Keys!TypeOK
      <3> QED BY <2>1, <3>1, <3>2 DEF Keys!Start, Keys!TypeOK
    <2>2. CASE Keys!Stop
      BY <2>2 DEF Keys!Stop, Keys!TypeOK, Keys!NoKeys, Keys!KeyMap
    <2>3. ASSUME NEW c \in Calls, Keys!GiveUp(c) PROVE KeysTyped'
      <3>1. keyCall' \in [Calls -> Keys!Call \union {None}]
        BY <2>3, KeyCallTypes DEF Keys!GiveUp
      <3> QED BY <2>3, <3>1 DEF Keys!GiveUp, Keys!TypeOK
    <2>4. ASSUME NEW c \in Calls, Keys!Register(c) PROVE KeysTyped'
      <3>1. keyCall' \in [Calls -> Keys!Call \union {None}]
        BY <2>4, KeyCallTypes DEF Keys!Register, Keys!Arrives
      <3>2. keys' \in Keys!KeyMap /\ registered' \in Keys!KeyMap
        BY <2>4 DEF Keys!Register, Keys!TypeOK, Keys!KeyMap
      <3>3. Keys!Master(keyStarts) \in 0..MaxStarts
        <4>1. keyStarts \in 0..MaxStarts /\ configured \in BOOLEAN
          BY DEF Keys!TypeOK
        <4>2. running => keyStarts # 0
          BY DEF KeysTyped
        <4> QED BY <4>1, <4>2, <2>4 DEF Keys!Master, Keys!Register, Keys!Arrives
      <3>4. keyFile' \in [under : 0..MaxStarts, keys : Keys!KeyMap]
        BY <2>4, <3>2, <3>3 DEF Keys!Register, Keys!Saved
      <3> QED BY <2>4, <3>1, <3>2, <3>4 DEF Keys!Register, Keys!TypeOK
    <2>5. ASSUME NEW c \in Calls, Keys!StopInSave(c) PROVE KeysTyped'
      <3>1. keyCall' \in [Calls -> Keys!Call \union {None}]
        BY <2>5, KeyCallTypes DEF Keys!StopInSave, Keys!Arrives
      <3>2. Keys!NoKeys \in Keys!KeyMap
        BY DEF Keys!NoKeys, Keys!KeyMap
      <3>3. Keys!Unreadable \in [under : 0..MaxStarts, keys : Keys!KeyMap]
        BY <1>0, <3>2 DEF Keys!Unreadable
      <3> QED BY <2>5, <3>1, <3>2, <3>3 DEF Keys!StopInSave, Keys!TypeOK
    <2>6. ASSUME NEW c \in Calls, Keys!Sign(c) PROVE KeysTyped'
      <3>1. keyCall' \in [Calls -> Keys!Call \union {None}]
        BY <2>6, KeyCallTypes DEF Keys!Sign, Keys!Arrives
      <3>2. keyCall[c] \in Keys!Call
        BY <2>6 DEF Keys!Sign, Keys!Arrives, Keys!TypeOK
      <3>3. keys[keyCall[c].merchant] \in Calls \union {None} /\ keyCall[c].merchant \in Merchants
        BY <3>2 DEF Keys!Call, Keys!TypeOK, Keys!KeyMap
      <3>4. signed' \subseteq [merchant : Merchants, key : Calls, call : Calls]
        BY <2>6, <3>3 DEF Keys!Sign, Keys!TypeOK
      <3> QED BY <2>6, <3>1, <3>4 DEF Keys!Sign, Keys!TypeOK
    <2>7. ASSUME NEW c \in Calls, Keys!Verify(c) PROVE KeysTyped'
      <3>1. keyCall' \in [Calls -> Keys!Call \union {None}]
        BY <2>7, KeyCallTypes DEF Keys!Verify, Keys!Arrives
      <3> QED BY <2>7, <3>1 DEF Keys!Verify, Keys!TypeOK
    <2>8. CASE UNCHANGED Keys!vars
      BY <2>8 DEF Keys!vars, Keys!TypeOK
    <2>9. ASSUME NEW c \in Calls, NEW op \in {"register", "sign", "verify"},
                 NEW m \in Merchants, NEW s \in Calls \union {None}, Keys!Send(c, op, m, s)
          PROVE  KeysTyped'
      BY <2>9, KeySendTypes DEF Keys!Send
    <2> QED BY <2>1, <2>2, <2>3, <2>4, <2>5, <2>6, <2>7, <2>8, <2>9 DEF Keys!Next
  <1> QED BY <1>1, <1>2

(* What is on disk while the master key is configured is what was last     *)
(* registered, and so is what a process has that loaded it; a first        *)
(* process has all keys registered so far, whatever key it saves under.    *)
KeyInv ==
  /\ keyStarts = 0 => registered = Keys!NoKeys /\ keyFile = Keys!Unreadable
  /\ keyStarts = 1 /\ running /\ ~torn => keys = registered
  /\ configured /\ ~torn /\ running => keys = registered
  /\ configured /\ ~torn => \/ keyFile.keys = registered /\ keyFile.under = 1
                            \/ keyFile = Keys!Unreadable /\ registered = Keys!NoKeys
  /\ ~running => keys = Keys!NoKeys

(* A start loads what was registered, when it can.                         *)
LEMMA KeyStartInv == ASSUME KeysTyped, KeyInv, Keys!Start PROVE KeyInv'
  <1> USE DEF Keys!Start, KeyInv, KeysTyped, Keys!TypeOK
  <1>1. ASSUME configured, ~torn PROVE keys' = registered
    BY <1>1 DEF Keys!Loaded, Keys!Master, Keys!Unreadable
  <1>2. ASSUME keyStarts' = 1 PROVE keys' = registered
    BY <1>2 DEF Keys!Loaded, Keys!Unreadable
  <1> QED BY <1>1, <1>2 DEF Keys!NoKeys, Keys!Unreadable

(* A registration changes what is in memory, on disk and registered alike. *)
LEMMA KeyRegisterInv ==
  ASSUME KeysTyped, KeyInv, NEW c \in Calls, Keys!Register(c) PROVE KeyInv'
  <1> USE DEF Keys!Register, Keys!Arrives, KeyInv, KeysTyped
  <1>1. keys = registered => keys' = registered'
    OBVIOUS
  <1>2. keyFile' = [under |-> Keys!Master(keyStarts), keys |-> keys']
    BY DEF Keys!Saved
  <1>3. configured => Keys!Master(keyStarts) = 1
    BY DEF Keys!Master
  <1>4. /\ running' /\ running /\ keyStarts' # 0 /\ UNCHANGED <<configured, keyStarts, torn>>
        /\ keyStarts = 1 /\ ~torn => keys' = registered'
        /\ configured /\ ~torn => keys' = registered'
    BY <1>1
  <1> HIDE DEF Keys!Register, Keys!Arrives
  <1>5. keyFile'.keys = keys' /\ keyFile'.under = Keys!Master(keyStarts)
    BY <1>2
  <1> QED BY <1>3, <1>4, <1>5

(* Every merchant signs with the key last registered for it, across stops, *)
(* starts and calls given up on, as long as no save is cut short and the   *)
(* master key outlives the process (hsmAppliance, merchantHsm.ts).         *)
THEOREM RegisteredKeysLast == ASSUME Keys!ConstantTypes PROVE Keys!Spec => []Keys!KeysLast
  <1>1. Keys!Init => KeyInv
    BY DEF Keys!Init, KeyInv
  <1>2. KeysTyped /\ KeyInv /\ [Keys!Next]_(Keys!vars) => KeyInv'
    <2> SUFFICES ASSUME KeysTyped, KeyInv, [Keys!Next]_(Keys!vars) PROVE KeyInv'
      OBVIOUS
    <2>1. CASE Keys!Stop
      BY <2>1 DEF Keys!Stop, KeyInv, Keys!NoKeys, Keys!Unreadable
    <2>2. ASSUME NEW c \in Calls, Keys!StopInSave(c) PROVE KeyInv'
      BY <2>2 DEF Keys!StopInSave, Keys!Arrives, KeyInv, KeysTyped
    <2>3. ASSUME UNCHANGED <<configured, running, keyStarts, keys, keyFile, registered, torn>>
          PROVE  KeyInv'
      BY <2>3 DEF KeyInv, Keys!NoKeys, Keys!Unreadable
    <2>4. ASSUME NEW c \in Calls,
                 \/ Keys!GiveUp(c) \/ Keys!Sign(c) \/ Keys!Verify(c)
                 \/ \E op, m, s : Keys!Send(c, op, m, s)
          PROVE  UNCHANGED <<configured, running, keyStarts, keys, keyFile, registered, torn>>
      BY <2>4 DEF Keys!GiveUp, Keys!Sign, Keys!Verify, Keys!Send
    <2>5. CASE UNCHANGED Keys!vars
      BY <2>3, <2>5 DEF Keys!vars
    <2> QED BY <2>1, <2>2, <2>3, <2>4, <2>5, KeyStartInv, KeyRegisterInv DEF Keys!Next
  <1>3. KeysTyped /\ KeyInv => Keys!KeysLast
    BY DEF KeyInv, Keys!KeysLast, KeysTyped, Keys!TypeOK
  <1> QED BY <1>1, <1>2, <1>3, KeyTyping, PTL DEF Keys!Spec

-----------------------------------------------------------------------------
(* Identity.                                                               *)

(* The first of some places is one of them, and before the others.         *)
LEMMA FirstIs ==
  ASSUME NEW F, F \subseteq Nat, F # {}
  PROVE  Person!First(F) \in F /\ \A j \in F : Person!First(F) <= j
  <1>1. PICK i \in F : \A j \in F : ~(<<j, i>> \in OpToRel(<, Nat))
    BY NatLessThanWellFounded, WFMin
  <1>2. ASSUME NEW j \in F PROVE i <= j
    <2>1. j \in Nat /\ i \in Nat /\ <<j, i>> \notin OpToRel(<, Nat)
      BY <1>1
    <2>2. <<j, i>> \in Nat \X Nat /\ <<j, i>>[1] = j /\ <<j, i>>[2] = i
      BY <2>1
    <2>3. ~(<<j, i>>[1] < <<j, i>>[2])
      BY <2>1, <2>2, Zenon DEF OpToRel
    <2>4. ~(j < i)
      BY <2>2, <2>3, Zenon
    <2>5. j \in Nat /\ i \in Nat
      OBVIOUS
    <2> QED BY <2>4, <2>5
  <1> QED BY <1>2 DEF Person!First

(* It is the only one.                                                     *)
LEMMA FirstOne ==
  ASSUME NEW F, F \subseteq Nat, NEW i \in F, \A j \in F : i <= j
  PROVE  Person!First(F) = i
  <1>1. F # {}
    OBVIOUS
  <1>2. Person!First(F) \in F /\ \A j \in F : Person!First(F) <= j
    BY <1>1, FirstIs
  <1>3. Person!First(F) <= i /\ i <= Person!First(F) /\ Person!First(F) \in Nat /\ i \in Nat
    BY <1>2
  <1> QED BY <1>3

(* The first leaf with a nullifier.                                        *)
LEMMA PlacesAre ==
  ASSUME NEW all \in Seq(Person!Credential), NEW d, Person!PlacesUnder(all, d) # {}
  PROVE  /\ Person!FirstOf(all, d) \in 1..Len(all)
         /\ all[Person!FirstOf(all, d)].of.doc = d
         /\ \A j \in 1..Len(all) : all[j].of.doc = d => Person!FirstOf(all, d) <= j
  <1>1. Person!PlacesUnder(all, d) \subseteq Nat
    BY DEF Person!PlacesUnder
  <1>2. /\ Person!FirstOf(all, d) \in Person!PlacesUnder(all, d)
        /\ \A j \in Person!PlacesUnder(all, d) : Person!FirstOf(all, d) <= j
    BY <1>1, FirstIs DEF Person!FirstOf
  <1> QED BY <1>2 DEF Person!PlacesUnder

(* A place with the nullifier and none before it is the first.             *)
LEMMA PlaceFirst ==
  ASSUME NEW all, Len(all) \in Nat, NEW d, NEW i \in 1..Len(all), all[i].of.doc = d,
         \A j \in 1..Len(all) : all[j].of.doc = d => i <= j
  PROVE  Person!PlacesUnder(all, d) # {} /\ Person!FirstOf(all, d) = i
  <1>1. /\ Person!PlacesUnder(all, d) \subseteq Nat /\ i \in Person!PlacesUnder(all, d)
        /\ \A j \in Person!PlacesUnder(all, d) : i <= j
    BY DEF Person!PlacesUnder
  <1> QED BY <1>1, FirstOne DEF Person!FirstOf

(* The root is a sequence of leaves.                                       *)
LEMMA ActiveType ==
  ASSUME NEW all \in Seq(Person!Credential)
  PROVE  Person!Active(all) \in Seq(Person!Leaf)
  <1> DEFINE live == {i \in 1..Len(all) : ~all[i].revoked}
             Reached(n) == {i \in 1..Len(all) : Cardinality(live \cap (1..i)) >= n}
  <1>0. /\ \A S : Person!Cardinality(S) = Cardinality(S)
        /\ Len(all) \in Nat
    BY DEF Person!Cardinality, Cardinality, Person!IsFiniteSet, IsFiniteSet
  <1>1. IsFiniteSet(live) /\ Cardinality(live) \in Nat
    <2>1. IsFiniteSet(1..Len(all))
      BY <1>0, FS_Interval
    <2>2. live \subseteq 1..Len(all)
      OBVIOUS
    <2> HIDE DEF live
    <2> QED BY <2>1, <2>2, FS_Subset, FS_CardinalityType
  <1>2. ASSUME NEW n \in 1..Cardinality(live), n \in Nat
        PROVE  all[Person!First(Reached(n))].of \in Person!Leaf
    <2>1. live \cap (1..Len(all)) = live
      OBVIOUS
    <2>2. Len(all) \in Reached(n)
      <3>1. CASE Len(all) = 0
        <4>1. live = {}
          BY <1>0, <3>1
        <4> QED BY <1>0, <3>1, <4>1, FS_EmptySet
      <3>2. CASE Len(all) # 0
        <4>1. Len(all) \in 1..Len(all)
          BY <1>0, <3>2
        <4>2. Cardinality(live \cap (1..Len(all))) = Cardinality(live)
          BY <2>1
        <4>3. Cardinality(live) >= n
          BY <1>1
        <4> HIDE DEF live
        <4> QED BY <4>1, <4>2, <4>3
      <3> QED BY <3>1, <3>2
    <2>3. Reached(n) \subseteq 1..Len(all) /\ Reached(n) # {}
      BY <2>2
    <2> HIDE DEF Reached
    <2>4. Person!First(Reached(n)) \in 1..Len(all)
      BY <1>0, <2>3, FirstIs
    <2>5. \A c \in Person!Credential : c.of \in Person!Leaf
      BY DEF Person!Credential
    <2>6. all[Person!First(Reached(n))] \in Person!Credential
      BY <2>4
    <2> QED BY <2>5, <2>6
  <1>3. Person!Active(all) = [n \in 1..Cardinality(live) |-> all[Person!First(Reached(n))].of]
    BY <1>0 DEF Person!Active
  <1> HIDE DEF live, Reached
  <1> QED BY <1>1, <1>2, <1>3

(* What a member of the registry is made of.                               *)
LEMMA CredentialIs ==
  \A c \in Person!Credential : c.of \in Person!Leaf /\ c.revoked \in BOOLEAN
  BY DEF Person!Credential

(* What a leaf is made of.                                                 *)
LEMMA LeafIs == \A l \in Person!Leaf : l.doc \in Documents /\ l.jur \in Jurisdictions
  BY DEF Person!Leaf

(* A sequence taken to another, member by member.                          *)
LEMMA MapType ==
  ASSUME NEW T, NEW R, NEW s \in Seq(T), NEW t, t = [i \in DOMAIN s |-> t[i]],
         \A i \in DOMAIN s : t[i] \in R
  PROVE  t \in Seq(R) /\ Len(t) = Len(s)
  OBVIOUS

(* A leaf is revoked only with its nullifier, and a revoked nullifier has  *)
(* its first leaf revoked.                                                 *)
LeavesAgree(all, R) ==
  /\ \A i \in 1..Len(all) : all[i].revoked => all[i].of.doc \in R
  /\ \A d \in R : Person!PlacesUnder(all, d) # {} /\ all[Person!FirstOf(all, d)].revoked

(* A leaf appended, even one that is there already, leaves the first ones  *)
(* where they are.                                                         *)
LEMMA AppendAgrees ==
  ASSUME NEW all \in Seq(Person!Credential), NEW R, LeavesAgree(all, R),
         NEW c \in Person!Credential, ~c.revoked
  PROVE  LeavesAgree(Append(all, c), R)
  <1> DEFINE new == Append(all, c)
  <1>1. /\ Len(all) \in Nat /\ Len(new) = Len(all) + 1 /\ new[Len(all) + 1] = c
        /\ \A i \in 1..Len(all) : new[i] = all[i]
    OBVIOUS
  <1> HIDE DEF new
  <1>2. ASSUME NEW i \in 1..Len(new), new[i].revoked PROVE new[i].of.doc \in R
    <2>1. i \in 1..Len(all)
      BY <1>1, <1>2
    <2> QED BY <1>1, <1>2, <2>1 DEF LeavesAgree
  <1>3. ASSUME NEW d \in R
        PROVE  Person!PlacesUnder(new, d) # {} /\ new[Person!FirstOf(new, d)].revoked
    <2> DEFINE k == Person!FirstOf(all, d)
    <2>1. Person!PlacesUnder(all, d) # {} /\ all[k].revoked
      BY DEF LeavesAgree
    <2>2. /\ k \in 1..Len(all) /\ all[k].of.doc = d
          /\ \A j \in 1..Len(all) : all[j].of.doc = d => k <= j
      BY <2>1, PlacesAre
    <2> HIDE DEF k
    <2>3. k \in 1..Len(new) /\ new[k].of.doc = d /\ new[k].revoked
      BY <1>1, <2>1, <2>2
    <2>4. \A j \in 1..Len(new) : new[j].of.doc = d => k <= j
      <3> SUFFICES ASSUME NEW j \in 1..Len(new), new[j].of.doc = d PROVE k <= j
        OBVIOUS
      <3>1. CASE j \in 1..Len(all)
        BY <1>1, <2>2, <3>1
      <3>2. CASE j = Len(all) + 1
        BY <1>1, <2>2, <3>2
      <3> QED BY <1>1, <3>1, <3>2
    <2>5. Person!PlacesUnder(new, d) # {} /\ Person!FirstOf(new, d) = k
      BY <1>1, <2>3, <2>4, PlaceFirst
    <2> QED BY <2>3, <2>5
  <1> QED BY <1>2, <1>3 DEF LeavesAgree, new

(* The first leaves of some documents are revoked.                         *)
Strikes(all, new, D) ==
  /\ new \in Seq(Person!Credential) /\ Len(new) = Len(all)
  /\ \A i \in 1..Len(all) :
       /\ new[i].of = all[i].of
       /\ new[i].revoked <=> all[i].revoked \/ \E d \in D : i = Person!FirstOf(all, d)
  /\ \A d \in D : Person!PlacesUnder(all, d) # {}

(* Striking the first leaves of some documents, and naming the documents   *)
(* revoked, keeps the two in agreement.                                    *)
LEMMA StrikesAgree ==
  ASSUME NEW all \in Seq(Person!Credential), NEW R, LeavesAgree(all, R),
         NEW new, NEW D, Strikes(all, new, D)
  PROVE  LeavesAgree(new, R \union D)
  <1>1. /\ Len(all) \in Nat /\ Len(new) = Len(all)
        /\ \A i \in 1..Len(all) : new[i].of = all[i].of
    BY DEF Strikes
  <1>2. \A d \in D : Person!PlacesUnder(all, d) # {}
    BY DEF Strikes
  <1>3. ASSUME NEW i \in 1..Len(new), new[i].revoked PROVE new[i].of.doc \in R \union D
    <2>1. i \in 1..Len(all) /\ new[i].of = all[i].of
      BY <1>1
    <2>2. CASE all[i].revoked
      BY <2>1, <2>2 DEF LeavesAgree
    <2>3. CASE \E d \in D : i = Person!FirstOf(all, d)
      BY <1>2, <2>1, <2>3, PlacesAre
    <2> QED BY <1>3, <2>1, <2>2, <2>3 DEF Strikes
  <1>4. ASSUME NEW d \in R \union D
        PROVE  Person!PlacesUnder(new, d) # {} /\ new[Person!FirstOf(new, d)].revoked
    <2> DEFINE k == Person!FirstOf(all, d)
    <2>1. Person!PlacesUnder(all, d) # {}
      BY <1>2 DEF LeavesAgree
    <2>2. /\ k \in 1..Len(all) /\ all[k].of.doc = d
          /\ \A j \in 1..Len(all) : all[j].of.doc = d => k <= j
      BY <2>1, PlacesAre
    <2>3. new[k].revoked
      <3>1. CASE d \in R
        BY <2>2, <3>1 DEF LeavesAgree, Strikes
      <3>2. CASE d \in D
        BY <2>2, <3>2 DEF Strikes
      <3> QED BY <3>1, <3>2
    <2> HIDE DEF k
    <2>4. Person!PlacesUnder(new, d) # {} /\ Person!FirstOf(new, d) = k
      <3>1. /\ Len(new) \in Nat /\ k \in 1..Len(new) /\ new[k].of.doc = d
            /\ \A j \in 1..Len(new) : new[j].of.doc = d => k <= j
        BY <1>1, <2>2
      <3> QED BY <3>1, PlaceFirst
    <2> QED BY <2>3, <2>4
  <1> QED BY <1>3, <1>4 DEF LeavesAgree

(* Revoking by a nullifier that some leaf has revokes the first of them.   *)
LEMMA RevokedInStrikes ==
  ASSUME NEW all \in Seq(Person!Credential), NEW d, Person!PlacesUnder(all, d) # {}
  PROVE  Strikes(all, Person!RevokedIn(all, d), {d})
  <1> DEFINE k == Person!FirstOf(all, d)
             c == [all[k] EXCEPT !.revoked = TRUE]
  <1>1. k \in 1..Len(all)
    BY PlacesAre
  <1>2. all[k] \in Person!Credential
    BY <1>1
  <1>3. c \in Person!Credential /\ c.of = all[k].of /\ c.revoked
    BY <1>2 DEF Person!Credential
  <1>4. Person!RevokedIn(all, d) = [all EXCEPT ![k] = c]
    BY DEF Person!RevokedIn
  <1> HIDE DEF c, k
  <1>5. /\ [all EXCEPT ![k] = c] \in Seq(Person!Credential)
        /\ Len([all EXCEPT ![k] = c]) = Len(all)
        /\ \A i \in 1..Len(all) : [all EXCEPT ![k] = c][i] = IF i = k THEN c ELSE all[i]
    BY <1>1, <1>3
  <1>6. ASSUME NEW i \in 1..Len(all)
        PROVE  /\ [all EXCEPT ![k] = c][i].of = all[i].of
               /\ [all EXCEPT ![k] = c][i].revoked <=> all[i].revoked \/ i = k
    <2>1. CASE i = k
      BY <1>1, <1>3, <1>5, <2>1
    <2>2. CASE i # k
      BY <1>1, <1>5, <2>2
    <2> QED BY <2>1, <2>2
  <1> QED BY <1>4, <1>5, <1>6 DEF Strikes, k

(* The registry, whatever the sessions do.                                 *)
RegistryInv ==
  /\ leaves \in Seq(Person!Credential) /\ kycRoot \in Person!Root
  /\ revoked \subseteq Documents /\ issuance \in Seq(Person!Issuance)
  /\ account \in [Names -> Person!Leaf \union {None}]
  /\ LeavesAgree(leaves, revoked)
  /\ leaves # <<>> => kycRoot = Person!Active(leaves)
  /\ (\E u \in Names : account[u] # None) => leaves # <<>>

(* The sessions, whatever the registry does beside gaining leaves.         *)
SessionInv ==
  /\ asked \in [SessionNonces -> Person!Challenge \union {None}]
  /\ proof \in [SessionNonces \union Intents -> Person!Proof \union {None}]
  /\ spent \subseteq SessionNonces \union Intents
  /\ \A c \in spent \cap SessionNonces : asked[c] = None
  /\ sessions \subseteq Person!Session
  /\ \A c \in SessionNonces \union Intents : proof[c] # None =>
       /\ leaves # <<>> /\ proof[c].of = c
       /\ c \in Intents => proof[c].leaf # None
  /\ Person!SessionsAreEarned

IdentityInv == RegistryInv /\ SessionInv

(* The agreement in the next state is that of the next values.             *)
LEMMA LeavesAgreeNext ==
  /\ LeavesAgree(leaves, revoked)' <=> LeavesAgree(leaves', revoked')
  /\ (kycRoot = Person!Active(leaves))' <=> kycRoot' = Person!Active(leaves')
  BY DEF LeavesAgree, Person!PlacesUnder, Person!FirstOf, Person!First, Person!Active

(* A step of the registry keeps it, when the root is computed anew or      *)
(* nothing it is computed from changed.                                    *)
LEMMA RegistryStep ==
  ASSUME leaves' \in Seq(Person!Credential), leaves' # <<>>,
         \/ kycRoot' = Person!Active(leaves')
         \/ leaves' = leaves /\ UNCHANGED kycRoot,
         revoked' \subseteq Documents, issuance' \in Seq(Person!Issuance),
         account' \in [Names -> Person!Leaf \union {None}],
         LeavesAgree(leaves', revoked'), RegistryInv
  PROVE  RegistryInv'
  <1>1. kycRoot' = Person!Active(leaves')
    BY DEF RegistryInv
  <1>2. kycRoot' \in Person!Root
    BY <1>1, ActiveType DEF Person!Root
  <1> QED BY <1>1, <1>2, LeavesAgreeNext DEF RegistryInv

(* The sessions stay while the registry goes on.                           *)
LEMMA SessionsStay ==
  ASSUME SessionInv, UNCHANGED <<asked, proof, spent, sessions>>, leaves # <<>> => leaves' # <<>>
  PROVE  SessionInv'
  BY DEF SessionInv, Person!SessionsAreEarned

(* The registry stays while the sessions go on.                            *)
LEMMA RegistryStays ==
  ASSUME RegistryInv, UNCHANGED <<leaves, kycRoot, revoked, issuance, account>>
  PROVE  RegistryInv'
  BY LeavesAgreeNext DEF RegistryInv

(* Enrol appends a leaf that stands.                                       *)
LEMMA EnrolStep ==
  ASSUME Person!ConstantTypes, RegistryInv, NEW u \in Names, NEW l \in Person!Leaf,
         Person!Enrol(u, l), issuance' \in Seq(Person!Issuance)
  PROVE  RegistryInv' /\ leaves' # <<>>
  <1> DEFINE c == [of |-> l, revoked |-> FALSE]
  <1>1. c \in Person!Credential /\ ~c.revoked
    BY DEF Person!Credential
  <1>2. /\ leaves' = Append(leaves, c) /\ kycRoot' = Person!Active(leaves')
        /\ account' = [account EXCEPT ![u] = l] /\ revoked' = revoked
    BY DEF Person!Enrol
  <1> HIDE DEF c
  <1>3. leaves' \in Seq(Person!Credential) /\ leaves' # <<>>
    <2>1. leaves \in Seq(Person!Credential)
      BY DEF RegistryInv
    <2>2. Append(leaves, c) \in Seq(Person!Credential) /\ Append(leaves, c) # <<>>
      BY <1>1, <2>1
    <2> QED BY <1>2, <2>2
  <1>4. LeavesAgree(leaves', revoked')
    BY <1>1, <1>2, AppendAgrees DEF RegistryInv
  <1>5. /\ revoked' \subseteq Documents
        /\ account' \in [Names -> Person!Leaf \union {None}]
    BY <1>2 DEF RegistryInv
  <1> QED BY <1>2, <1>3, <1>4, <1>5, RegistryStep

(* A registration, passed or refused by the provider.                      *)
LEMMA RegisterStep ==
  ASSUME Person!ConstantTypes, IdentityInv, NEW u \in Names, NEW d \in Documents,
         NEW j \in Jurisdictions, NEW pass \in BOOLEAN, NEW clear \in BOOLEAN,
         Person!Register(u, d, j, pass, clear)
  PROVE  IdentityInv'
  <1> DEFINE l == [doc |-> d, jur |-> j]
             rec == [of |-> IF pass THEN l ELSE None, clear |-> clear, stale |-> FALSE]
  <1>1. l \in Person!Leaf
    BY DEF Person!Leaf
  <1>2. /\ issuance' = Append(issuance, rec)
        /\ IF pass THEN Person!Enrol(u, l) ELSE UNCHANGED <<leaves, kycRoot, revoked, account>>
        /\ UNCHANGED <<asked, proof, spent, sessions>>
    BY DEF Person!Register, Person!sessionVars
  <1> HIDE DEF l
  <1>3. rec \in Person!Issuance
    BY <1>1 DEF Person!Issuance
  <1> HIDE DEF rec
  <1>4. issuance' \in Seq(Person!Issuance)
    BY <1>2, <1>3 DEF IdentityInv, RegistryInv
  <1>5. CASE pass
    BY <1>1, <1>2, <1>4, <1>5, EnrolStep, SessionsStay DEF IdentityInv
  <1>6. CASE ~pass
    <2>1. UNCHANGED <<leaves, kycRoot, revoked, account>>
      BY <1>2, <1>6
    <2>2. RegistryInv'
      BY <1>4, <2>1, LeavesAgreeNext DEF IdentityInv, RegistryInv
    <2> QED BY <1>2, <2>1, <2>2, SessionsStay DEF IdentityInv
  <1> QED BY <1>5, <1>6

(* A seeded peer.                                                          *)
LEMMA SeedStep ==
  ASSUME Person!ConstantTypes, IdentityInv, NEW u \in Names, NEW d \in Documents,
         Person!SeedPeer(u, d)
  PROVE  IdentityInv'
  <1>1. [doc |-> d, jur |-> Domestic] \in Person!Leaf
    BY DEF Person!Leaf, Person!ConstantTypes
  <1>2. /\ Person!Enrol(u, [doc |-> d, jur |-> Domestic])
        /\ UNCHANGED <<issuance, asked, proof, spent, sessions>>
    BY DEF Person!SeedPeer, Person!sessionVars
  <1>3. issuance' \in Seq(Person!Issuance)
    BY <1>2 DEF IdentityInv, RegistryInv
  <1> QED BY <1>1, <1>2, <1>3, EnrolStep, SessionsStay DEF IdentityInv

(* Striking leaves the registry as long as it was.                         *)
LEMMA StrikesKeep ==
  ASSUME NEW all \in Seq(Person!Credential), all # <<>>, NEW new, NEW D, Strikes(all, new, D)
  PROVE  new \in Seq(Person!Credential) /\ new # <<>>
  BY DEF Strikes

(* The revocation endpoint.                                                *)
LEMMA RevokeStep ==
  ASSUME Person!ConstantTypes, IdentityInv, NEW d \in Documents, Person!Revoke(d)
  PROVE  IdentityInv'
  <1>1. /\ Person!PlacesUnder(leaves, d) # {} /\ leaves' = Person!RevokedIn(leaves, d)
        /\ kycRoot' = Person!Active(leaves') /\ revoked' = revoked \union {d}
        /\ UNCHANGED <<issuance, account, asked, proof, spent, sessions>>
    BY DEF Person!Revoke, Person!sessionVars
  <1>2. leaves \in Seq(Person!Credential) /\ leaves # <<>>
    BY <1>1 DEF IdentityInv, RegistryInv, Person!PlacesUnder
  <1>3. Strikes(leaves, leaves', {d})
    BY <1>1, <1>2, RevokedInStrikes
  <1>4. LeavesAgree(leaves', revoked')
    BY <1>1, <1>2, <1>3, StrikesAgree DEF IdentityInv, RegistryInv
  <1>5. leaves' \in Seq(Person!Credential) /\ leaves' # <<>>
    BY <1>2, <1>3, StrikesKeep
  <1>6. RegistryInv'
    <2>1. /\ revoked' \subseteq Documents /\ issuance' \in Seq(Person!Issuance)
          /\ account' \in [Names -> Person!Leaf \union {None}]
      BY <1>1 DEF IdentityInv, RegistryInv
    <2> QED BY <1>1, <1>4, <1>5, <2>1, RegistryStep DEF IdentityInv
  <1> QED BY <1>1, <1>5, <1>6, SessionsStay DEF IdentityInv

(* A day passes.                                                           *)
LEMMA AgeStep ==
  ASSUME Person!ConstantTypes, IdentityInv, Person!Age
  PROVE  IdentityInv'
  <1>1. /\ issuance' = [i \in DOMAIN issuance |-> [issuance[i] EXCEPT !.stale = TRUE]]
        /\ UNCHANGED <<leaves, kycRoot, revoked, account, asked, proof, spent, sessions>>
    BY DEF Person!Age, Person!sessionVars
  <1>2. \A rec \in Person!Issuance : [rec EXCEPT !.stale = TRUE] \in Person!Issuance
    BY DEF Person!Issuance
  <1>3. issuance' \in Seq(Person!Issuance)
    <2>1. issuance \in Seq(Person!Issuance)
      BY DEF IdentityInv, RegistryInv
    <2>2. \A i \in DOMAIN issuance :
            [issuance[i] EXCEPT !.stale = TRUE] \in Person!Issuance
      BY <1>2, <2>1
    <2> QED BY <1>1, <2>1, <2>2, MapType
  <1>4. RegistryInv'
    BY <1>1, <1>3, LeavesAgreeNext DEF IdentityInv, RegistryInv
  <1> QED BY <1>1, <1>4, SessionsStay DEF IdentityInv

(* What one visit makes of a record.                                       *)
LEMMA RescreenedType ==
  ASSUME NEW rec \in Person!Issuance, NEW force, NEW hit, NEW revokes \in BOOLEAN
  PROVE  Person!Rescreened(rec, force, hit, revokes) \in Person!Issuance
  <1>1. \A clear \in BOOLEAN :
          [rec EXCEPT !.stale = FALSE, !.clear = clear] \in Person!Issuance
    BY DEF Person!Issuance
  <1>2. rec.clear \in BOOLEAN
    BY DEF Person!Issuance
  <1> QED BY <1>1, <1>2 DEF Person!Rescreened

(* A record that strikes is one of a leaf there is.                        *)
LEMMA StrikingIs ==
  ASSUME RegistryInv, NEW force, NEW hit, NEW i \in Person!Striking(force, hit)
  PROVE  /\ issuance[i].of \in Person!Leaf /\ issuance[i].of.doc \in Documents
         /\ Person!PlacesUnder(leaves, issuance[i].of.doc) # {}
  <1>1. i \in DOMAIN issuance /\ Person!Fallen(leaves, issuance[i])
    BY DEF Person!Striking
  <1>2. issuance[i] \in Person!Issuance
    BY <1>1 DEF RegistryInv
  <1>3. issuance[i].of # None /\ Person!PlacesOf(leaves, issuance[i].of) # {}
    BY <1>1 DEF Person!Fallen
  <1>4. issuance[i].of \in Person!Leaf
    BY <1>2, <1>3 DEF Person!Issuance
  <1>5. Person!PlacesUnder(leaves, issuance[i].of.doc) # {}
    BY <1>3 DEF Person!PlacesOf, Person!PlacesUnder
  <1> QED BY <1>4, <1>5, LeafIs

(* The first half of a rescreen, over the records: it strikes the first    *)
(* leaves of some documents and names exactly those revoked.               *)
LEMMA VisitedIs ==
  ASSUME RegistryInv, NEW force, NEW hit
  PROVE  LET seen == Person!Visited(force, hit)
         IN /\ seen.issuance \in Seq(Person!Issuance)
            /\ \E D \in SUBSET Documents :
                 /\ Strikes(leaves, seen.leaves, D) /\ seen.revoked = revoked \union D
                 /\ D = {} => seen.leaves = leaves
  <1> DEFINE seen == Person!Visited(force, hit)
             S == Person!Striking(force, hit)
             D == {issuance[i].of.doc : i \in S}
  <1>1. /\ seen.leaves = [k \in DOMAIN leaves |->
                            IF k \in {Person!FirstOf(leaves, d) : d \in D}
                            THEN [leaves[k] EXCEPT !.revoked = TRUE] ELSE leaves[k]]
        /\ seen.revoked = revoked \union D
        /\ seen.issuance = [i \in DOMAIN issuance |->
             Person!Rescreened(issuance[i], force, hit, i \in S /\ ~Person!FoundRevoked(i, S))]
    BY DEF Person!Visited
  <1>2. D \in SUBSET Documents /\ \A d \in D : Person!PlacesUnder(leaves, d) # {}
    BY StrikingIs
  <1> HIDE DEF seen, S, D
  <1>3. leaves \in Seq(Person!Credential) /\ issuance \in Seq(Person!Issuance)
    BY DEF RegistryInv
  <1>4. seen.issuance \in Seq(Person!Issuance)
    <2>1. \A i \in DOMAIN issuance :
            Person!Rescreened(issuance[i], force, hit, i \in S /\ ~Person!FoundRevoked(i, S))
              \in Person!Issuance
      <3> SUFFICES ASSUME NEW i \in DOMAIN issuance
                   PROVE  Person!Rescreened(issuance[i], force, hit,
                            i \in S /\ ~Person!FoundRevoked(i, S)) \in Person!Issuance
        OBVIOUS
      <3> DEFINE b == i \in S /\ ~Person!FoundRevoked(i, S)
      <3>1. b \in BOOLEAN /\ issuance[i] \in Person!Issuance
        BY <1>3
      <3> HIDE DEF b
      <3>2. Person!Rescreened(issuance[i], force, hit, b) \in Person!Issuance
        BY <3>1, RescreenedType
      <3> QED BY <3>2 DEF b
    <2> QED BY <1>1, <1>3, <2>1, MapType
  <1>5. ASSUME NEW k \in DOMAIN leaves
        PROVE  /\ seen.leaves[k] \in Person!Credential /\ seen.leaves[k].of = leaves[k].of
               /\ seen.leaves[k].revoked
                    <=> leaves[k].revoked \/ \E d \in D : k = Person!FirstOf(leaves, d)
    <2>0. leaves[k] \in Person!Credential
      BY <1>3
    <2>1. CASE \E d \in D : k = Person!FirstOf(leaves, d)
      <3>1. seen.leaves[k] = [leaves[k] EXCEPT !.revoked = TRUE]
        BY <1>1, <2>1
      <3> QED BY <2>0, <2>1, <3>1 DEF Person!Credential
    <2>2. CASE ~\E d \in D : k = Person!FirstOf(leaves, d)
      <3>1. seen.leaves[k] = leaves[k]
        BY <1>1, <2>2
      <3> QED BY <2>0, <2>2, <3>1, CredentialIs
    <2> QED BY <2>1, <2>2
  <1>6. seen.leaves \in Seq(Person!Credential) /\ Len(seen.leaves) = Len(leaves)
    <2>1. DOMAIN seen.leaves = DOMAIN leaves
      BY <1>1
    <2>2. \A k \in DOMAIN leaves : seen.leaves[k] \in Person!Credential
      BY <1>5
    <2>3. seen.leaves = [k \in DOMAIN leaves |-> seen.leaves[k]]
      BY <1>1
    <2> QED BY <1>3, <2>1, <2>2, <2>3, MapType
  <1>7. DOMAIN leaves = 1..Len(leaves)
    BY <1>3
  <1>8. Strikes(leaves, seen.leaves, D)
    BY <1>2, <1>5, <1>6, <1>7 DEF Strikes
  <1>9. D = {} => seen.leaves = leaves
    BY <1>1, <1>3
  <1> QED BY <1>1, <1>2, <1>4, <1>8, <1>9 DEF seen

(* A rescreen: what its visits strike, and then the leaf of the nullifier  *)
(* that is still standing.                                                 *)
LEMMA RescreenStep ==
  ASSUME Person!ConstantTypes, IdentityInv, NEW force \in BOOLEAN,
         NEW hit \in Documents \union {None}, Person!Rescreen(force, hit)
  PROVE  IdentityInv'
  <1> DEFINE seen == Person!Visited(force, hit)
             left == hit # None /\ Person!Standing(seen.leaves, hit)
  <1>1. /\ issuance' = seen.issuance
        /\ leaves' = IF left THEN Person!RevokedIn(seen.leaves, hit) ELSE seen.leaves
        /\ revoked' = seen.revoked \union (IF left THEN {hit} ELSE {})
        /\ kycRoot' = IF leaves' = leaves THEN kycRoot ELSE Person!Active(leaves')
        /\ UNCHANGED <<account, asked, proof, spent, sessions>>
    BY DEF Person!Rescreen, Person!sessionVars
  <1>2. PICK D \in SUBSET Documents :
          /\ Strikes(leaves, seen.leaves, D) /\ seen.revoked = revoked \union D
          /\ D = {} => seen.leaves = leaves
    BY VisitedIs DEF IdentityInv
  <1>3. seen.issuance \in Seq(Person!Issuance)
    BY VisitedIs DEF IdentityInv
  <1>4. left => Person!PlacesUnder(seen.leaves, hit) # {} /\ hit \in Documents
    BY DEF Person!Standing, Person!PlacesUnder
  <1> HIDE DEF seen, left
  <1>5. /\ leaves \in Seq(Person!Credential) /\ LeavesAgree(leaves, revoked)
        /\ revoked \subseteq Documents
    BY DEF IdentityInv, RegistryInv
  <1>6. /\ seen.leaves \in Seq(Person!Credential) /\ Len(seen.leaves) = Len(leaves)
        /\ LeavesAgree(seen.leaves, seen.revoked)
    <2>1. LeavesAgree(seen.leaves, seen.revoked)
      BY <1>2, <1>5, StrikesAgree
    <2> QED BY <1>2, <2>1 DEF Strikes
  <1>7. /\ leaves' \in Seq(Person!Credential) /\ Len(leaves') = Len(leaves)
        /\ LeavesAgree(leaves', revoked') /\ revoked' \subseteq Documents
    <2>1. CASE left
      <3>1. Strikes(seen.leaves, leaves', {hit})
        BY <1>1, <1>4, <1>6, <2>1, RevokedInStrikes
      <3>2. LeavesAgree(leaves', seen.revoked \union {hit})
        BY <1>6, <3>1, StrikesAgree
      <3>3. revoked' = seen.revoked \union {hit}
        BY <1>1, <2>1
      <3> QED BY <1>2, <1>4, <1>5, <1>6, <2>1, <3>1, <3>2, <3>3 DEF Strikes
    <2>2. CASE ~left
      <3>1. leaves' = seen.leaves /\ revoked' = seen.revoked
        BY <1>1, <2>2
      <3> QED BY <1>2, <1>5, <1>6, <3>1
    <2> QED BY <2>1, <2>2
  <1>8. leaves # <<>> <=> leaves' # <<>>
    BY <1>5, <1>7
  <1>9. RegistryInv'
    <2>1. /\ issuance' \in Seq(Person!Issuance) /\ UNCHANGED account
          /\ account' \in [Names -> Person!Leaf \union {None}]
      BY <1>1, <1>3 DEF IdentityInv, RegistryInv
    <2>2. CASE leaves # <<>>
      BY <1>1, <1>7, <1>8, <2>1, <2>2, RegistryStep DEF IdentityInv
    <2>3. CASE leaves = <<>>
      <3>1. leaves' = leaves /\ kycRoot' = kycRoot
        BY <1>1, <1>8, <2>3
      <3> QED BY <1>7, <2>1, <2>3, <3>1, LeavesAgreeNext DEF IdentityInv, RegistryInv
    <2> QED BY <2>2, <2>3
  <1> QED BY <1>1, <1>8, <1>9, SessionsStay DEF IdentityInv

(* A device's proof: of its own challenge, and of a registered person.     *)
ProofHolds(c, p) ==
  p # None => /\ leaves # <<>> /\ p.of = c
              /\ c \in Intents => p.leaf # None

(* A challenge is issued with the root of that moment.                     *)
LEMMA AskStep ==
  ASSUME Person!ConstantTypes, IdentityInv, NEW c \in SessionNonces,
         NEW unlinkable \in BOOLEAN, Person!AskChallenge(c, unlinkable)
  PROVE  IdentityInv'
  <1> DEFINE ch == [root |-> kycRoot, unlinkable |-> unlinkable, over |-> FALSE]
  <1>1. ch \in Person!Challenge
    BY DEF Person!Challenge, IdentityInv, RegistryInv
  <1>2. /\ c \notin spent /\ asked' = [asked EXCEPT ![c] = ch]
        /\ UNCHANGED <<leaves, kycRoot, revoked, issuance, account, proof, spent, sessions>>
    BY DEF Person!AskChallenge, Person!registryVars
  <1> HIDE DEF ch
  <1>3. /\ asked' \in [SessionNonces -> Person!Challenge \union {None}]
        /\ \A d \in SessionNonces \ {c} : asked'[d] = asked[d]
    BY <1>1, <1>2 DEF IdentityInv, SessionInv
  <1>4. SessionInv'
    BY <1>2, <1>3 DEF IdentityInv, SessionInv, Person!SessionsAreEarned
  <1> QED BY <1>2, <1>4, RegistryStays DEF IdentityInv

(* A device makes a proof.                                                 *)
LEMMA ProofStep ==
  ASSUME IdentityInv, NEW c \in SessionNonces \union Intents, NEW p \in Person!Proof,
         ProofHolds(c, p), proof' = [proof EXCEPT ![c] = p],
         UNCHANGED <<leaves, kycRoot, revoked, issuance, account, asked, spent, sessions>>
  PROVE  IdentityInv'
  <1>1. /\ proof' \in [SessionNonces \union Intents -> Person!Proof \union {None}]
        /\ proof'[c] = p
        /\ \A d \in (SessionNonces \union Intents) \ {c} : proof'[d] = proof[d]
    BY DEF IdentityInv, SessionInv
  <1>2. SessionInv'
    BY <1>1 DEF IdentityInv, SessionInv, Person!SessionsAreEarned, ProofHolds
  <1> QED BY <1>2, RegistryStays DEF IdentityInv

(* A proof for a session, whose credential may be left out.                *)
LEMMA ProveSessionStep ==
  ASSUME Person!ConstantTypes, IdentityInv, NEW u \in Names, NEW c \in SessionNonces,
         Person!ProveSession(u, c)
  PROVE  IdentityInv'
  <1> DEFINE own == IF asked[c].unlinkable THEN None ELSE account[u]
             p == [of |-> c, root |-> asked[c].root, over |-> FALSE, leaf |-> own]
  <1>1. /\ account[u] # None /\ asked[c] # None /\ proof' = [proof EXCEPT ![c] = p]
        /\ UNCHANGED <<leaves, kycRoot, revoked, issuance, account, asked, spent, sessions>>
    BY DEF Person!ProveSession, Person!registryVars
  <1>2. account[u] \in Person!Leaf /\ leaves # <<>>
    BY <1>1 DEF IdentityInv, RegistryInv
  <1>3. asked[c] \in Person!Challenge
    BY <1>1 DEF IdentityInv, SessionInv
  <1>4. asked[c].root \in Person!Root
    BY <1>3 DEF Person!Challenge
  <1>5. own \in Person!Leaf \union {None}
    BY <1>2
  <1> HIDE DEF own
  <1>6. p \in Person!Proof /\ p.of = c
    BY <1>4, <1>5 DEF Person!Proof
  <1>7. c \notin Intents
    BY DEF Person!ConstantTypes
  <1> HIDE DEF p
  <1>8. ProofHolds(c, p)
    BY <1>2, <1>6, <1>7 DEF ProofHolds
  <1> QED BY <1>1, <1>6, <1>8, ProofStep

(* A proof for a payment, which names its credential.                      *)
LEMMA ProvePaymentStep ==
  ASSUME Person!ConstantTypes, IdentityInv, NEW u \in Names, NEW i \in Intents,
         Person!ProvePayment(u, i)
  PROVE  IdentityInv'
  <1> DEFINE p == [of |-> i, root |-> kycRoot, over |-> FALSE, leaf |-> account[u]]
  <1>1. /\ account[u] # None /\ proof' = [proof EXCEPT ![i] = p]
        /\ UNCHANGED <<leaves, kycRoot, revoked, issuance, account, asked, spent, sessions>>
    BY DEF Person!ProvePayment, Person!registryVars
  <1>2. account[u] \in Person!Leaf /\ leaves # <<>> /\ kycRoot \in Person!Root
    BY <1>1 DEF IdentityInv, RegistryInv
  <1>3. p \in Person!Proof /\ p.of = i /\ p.leaf = account[u]
    BY <1>2 DEF Person!Proof
  <1> HIDE DEF p
  <1>4. ProofHolds(i, p)
    BY <1>1, <1>2, <1>3 DEF ProofHolds
  <1> QED BY <1>1, <1>3, <1>4, ProofStep

(* A window closes: of a challenge, or of a payment's proof.               *)
LEMMA WindowStep ==
  ASSUME Person!ConstantTypes, IdentityInv, NEW c \in SessionNonces \union Intents,
         Person!WindowCloses(c)
  PROVE  IdentityInv'
  <1>0. UNCHANGED <<leaves, kycRoot, revoked, issuance, account, spent, sessions>>
    BY DEF Person!WindowCloses, Person!registryVars
  <1>1. CASE /\ c \in SessionNonces /\ asked[c] # None
             /\ asked' = [asked EXCEPT ![c].over = TRUE] /\ UNCHANGED proof
    <2> DEFINE ch == [asked[c] EXCEPT !.over = TRUE]
    <2>1. asked[c] \in Person!Challenge
      BY <1>1 DEF IdentityInv, SessionInv
    <2>2. ch \in Person!Challenge
      BY <2>1 DEF Person!Challenge
    <2>3. asked' = [asked EXCEPT ![c] = ch] /\ c \notin spent
      BY <1>1 DEF IdentityInv, SessionInv
    <2> HIDE DEF ch
    <2>4. /\ asked' \in [SessionNonces -> Person!Challenge \union {None}]
          /\ \A d \in SessionNonces \ {c} : asked'[d] = asked[d]
      BY <2>2, <2>3 DEF IdentityInv, SessionInv
    <2>5. SessionInv'
      BY <1>0, <1>1, <2>3, <2>4 DEF IdentityInv, SessionInv, Person!SessionsAreEarned
    <2> QED BY <1>0, <2>5, RegistryStays DEF IdentityInv
  <1>2. CASE /\ c \in Intents /\ proof[c] # None
             /\ proof' = [proof EXCEPT ![c].over = TRUE] /\ UNCHANGED asked
    <2> DEFINE p == [proof[c] EXCEPT !.over = TRUE]
    <2>1. proof[c] \in Person!Proof /\ ProofHolds(c, proof[c])
      BY <1>2 DEF IdentityInv, SessionInv, ProofHolds
    <2>2. p \in Person!Proof /\ p.of = proof[c].of /\ p.leaf = proof[c].leaf
      BY <2>1 DEF Person!Proof
    <2>3. proof' = [proof EXCEPT ![c] = p]
      BY <1>2
    <2> HIDE DEF p
    <2>4. ProofHolds(c, p)
      BY <1>2, <2>1, <2>2 DEF ProofHolds
    <2> QED BY <1>0, <1>2, <2>2, <2>3, <2>4, ProofStep
  <1> QED BY <1>1, <1>2 DEF Person!WindowCloses

(* A session is accepted: of a challenge not used before, in its window,   *)
(* against the root there is.                                              *)
LEMMA AcceptStep ==
  ASSUME Person!ConstantTypes, IdentityInv, NEW c \in SessionNonces \union Intents,
         c \notin spent, NEW p \in Person!Proof, p.of = c, p.root = kycRoot,
         p.leaf # None => Person!Stands(p.leaf), c \in Intents => p.leaf # None,
         leaves # <<>>,
         NEW inTime, inTime = TRUE,
         sessions' = sessions \union {Person!Accepted(p, inTime)},
         spent' = spent \union {c},
         asked' \in [SessionNonces -> Person!Challenge \union {None}],
         \A d \in SessionNonces \ {c} : asked'[d] = asked[d],
         c \in SessionNonces => asked'[c] = None,
         UNCHANGED <<leaves, kycRoot, revoked, issuance, account, proof>>
  PROVE  IdentityInv'
  <1> DEFINE s == Person!Accepted(p, inTime)
  <1>1. p.root = Person!Active(leaves)
    BY DEF IdentityInv, RegistryInv
  <1>2. p.leaf # None => p.leaf.doc \notin revoked
    BY DEF Person!Stands
  <1>3. /\ s \in Person!Session /\ s.of = c /\ s.inTime = TRUE /\ s.current = TRUE
        /\ s.linked = (p.leaf # None) /\ s.live = TRUE
    <2>1. s = [of |-> c, linked |-> (p.leaf # None), live |-> TRUE, current |-> TRUE,
               inTime |-> TRUE]
      BY <1>1, <1>2, Zenon DEF Person!Accepted
    <2> HIDE DEF s
    <2> QED BY <2>1 DEF Person!Session
  <1> HIDE DEF s
  <1>4. /\ sessions' \subseteq Person!Session /\ spent' \subseteq SessionNonces \union Intents
        /\ \A d \in spent' \cap SessionNonces : asked'[d] = None
    BY <1>3 DEF IdentityInv, SessionInv, s
  <1>5. Person!SessionsAreEarned'
    <2>1. sessions' = sessions \union {s}
      BY DEF s
    <2>2. Person!SessionsAreEarned
      BY DEF IdentityInv, SessionInv
    <2>3. \A t \in sessions : t.of \in spent
      BY <2>2 DEF Person!SessionsAreEarned
    <2>4. \A t \in sessions' :
            /\ t.of \in spent' /\ t.inTime /\ t.current
            /\ t.linked => t.live
            /\ t.of \in Intents => t.linked
      BY <1>3, <2>1, <2>2 DEF Person!SessionsAreEarned
    <2>5. \A t, r \in sessions' : r.of = t.of => r = t
      <3>1. \A t \in sessions : t.of # s.of
        BY <1>3, <2>3
      <3>2. \A t, r \in sessions : r.of = t.of => r = t
        BY <2>2 DEF Person!SessionsAreEarned
      <3>3. ASSUME NEW t \in sessions', NEW r \in sessions', r.of = t.of PROVE r = t
        <4>1. (t \in sessions \/ t = s) /\ (r \in sessions \/ r = s)
          BY <2>1, Zenon
        <4> QED BY <3>1, <3>2, <3>3, <4>1
      <3> QED BY <3>3
    <2> QED BY <2>4, <2>5 DEF Person!SessionsAreEarned
  <1>6. SessionInv'
    BY <1>4, <1>5 DEF IdentityInv, SessionInv
  <1> QED BY <1>6, RegistryStays DEF IdentityInv

(* verifyAndBurn, with any device's proof.                                 *)
LEMMA VerifySessionStep ==
  ASSUME Person!ConstantTypes, IdentityInv, NEW c \in SessionNonces, NEW d \in SessionNonces,
         proof[d] # None, Person!VerifySession(c, proof[d])
  PROVE  IdentityInv'
  <1>1. /\ asked[c] # None /\ c \notin spent /\ asked' = [asked EXCEPT ![c] = None]
        /\ UNCHANGED <<leaves, kycRoot, revoked, issuance, account, proof>>
    BY DEF Person!VerifySession, Person!PendingWithout, Person!registryVars
  <1>2. /\ asked' \in [SessionNonces -> Person!Challenge \union {None}] /\ asked'[c] = None
        /\ \A e \in SessionNonces \ {c} : asked'[e] = asked[e]
    BY <1>1 DEF IdentityInv, SessionInv
  <1>3. CASE asked[c].over
    <2>1. UNCHANGED <<spent, sessions>>
      BY <1>3 DEF Person!VerifySession
    <2>2. SessionInv'
      BY <1>1, <1>2, <2>1 DEF IdentityInv, SessionInv, Person!SessionsAreEarned
    <2> QED BY <1>1, <2>2, RegistryStays DEF IdentityInv
  <1>4. CASE ~asked[c].over
    <2>1. /\ proof[d].of = c /\ proof[d].root = kycRoot
          /\ proof[d].leaf # None => Person!Stands(proof[d].leaf)
          /\ spent' = spent \union {c}
          /\ sessions' = sessions \union {Person!Accepted(proof[d], TRUE)}
      BY <1>4 DEF Person!VerifySession
    <2>2. proof[d] \in Person!Proof /\ leaves # <<>>
      BY DEF IdentityInv, SessionInv
    <2>3. c \notin Intents
      BY DEF Person!ConstantTypes
    <2> QED BY <1>1, <1>2, <2>1, <2>2, <2>3, AcceptStep
  <1> QED BY <1>3, <1>4

(* verifyPaymentSessionAuth.                                               *)
LEMMA VerifyPaymentStep ==
  ASSUME Person!ConstantTypes, IdentityInv, NEW i \in Intents, Person!VerifyPayment(i)
  PROVE  IdentityInv'
  <1>1. /\ proof[i] # None /\ i \notin spent /\ ~proof[i].over
        /\ proof[i].root = kycRoot /\ Person!Stands(proof[i].leaf)
        /\ spent' = spent \union {i}
        /\ sessions' = sessions \union {Person!Accepted(proof[i], ~proof[i].over)}
        /\ UNCHANGED <<leaves, kycRoot, revoked, issuance, account, asked, proof>>
    BY DEF Person!VerifyPayment, Person!registryVars
  <1>2. /\ proof[i] \in Person!Proof /\ leaves # <<>> /\ proof[i].of = i
        /\ proof[i].leaf # None
    BY <1>1 DEF IdentityInv, SessionInv
  <1>3. (~proof[i].over) = TRUE
    BY <1>1
  <1>4. i \notin SessionNonces
    BY DEF Person!ConstantTypes
  <1>5. /\ asked' \in [SessionNonces -> Person!Challenge \union {None}]
        /\ \A e \in SessionNonces \ {i} : asked'[e] = asked[e]
    BY <1>1 DEF IdentityInv, SessionInv
  <1>6. sessions' = sessions \union {Person!Accepted(proof[i], TRUE)}
    BY <1>1, <1>3, Zenon
  <1> QED BY <1>1, <1>2, <1>4, <1>5, <1>6, AcceptStep

(* The invariant of identities holds at first and in every step.           *)
LEMMA IdentityInductive ==
  ASSUME Person!ConstantTypes
  PROVE  /\ Person!Init => IdentityInv
         /\ IdentityInv /\ [Person!Next]_personVars => IdentityInv'
  <1>1. ASSUME Person!Init PROVE IdentityInv
    <2>1. LeavesAgree(leaves, revoked)
      BY <1>1 DEF Person!Init, LeavesAgree
    <2>2. RegistryInv
      BY <1>1, <2>1 DEF Person!Init, RegistryInv, Person!Root
    <2>3. SessionInv
      BY <1>1 DEF Person!Init, SessionInv, Person!SessionsAreEarned
    <2> QED BY <2>2, <2>3 DEF IdentityInv
  <1>2. ASSUME IdentityInv, [Person!Next]_personVars PROVE IdentityInv'
    <2>1. CASE UNCHANGED personVars
      BY <1>2, <2>1, RegistryStays, SessionsStay DEF personVars, IdentityInv
    <2>2. CASE Person!Next
      <3>1. CASE Person!Age
        BY <1>2, <3>1, AgeStep
      <3>2. CASE \E u \in Names, d \in Documents :
                   \/ Person!SeedPeer(u, d)
                   \/ \E j \in Jurisdictions, pass, clear \in BOOLEAN :
                        Person!Register(u, d, j, pass, clear)
        BY <1>2, <3>2, SeedStep, RegisterStep
      <3>3. CASE \E d \in Documents : Person!Revoke(d)
        BY <1>2, <3>3, RevokeStep
      <3>4. CASE \E force \in BOOLEAN, hit \in Documents \union {None} :
                   Person!Rescreen(force, hit)
        BY <1>2, <3>4, RescreenStep
      <3>5. CASE \E c \in SessionNonces, unlinkable \in BOOLEAN :
                   Person!AskChallenge(c, unlinkable)
        BY <1>2, <3>5, AskStep
      <3>6. CASE \E u \in Names, c \in SessionNonces : Person!ProveSession(u, c)
        BY <1>2, <3>6, ProveSessionStep
      <3>7. CASE \E u \in Names, i \in Intents : Person!ProvePayment(u, i)
        BY <1>2, <3>7, ProvePaymentStep
      <3>8. CASE \E c \in SessionNonces \union Intents : Person!WindowCloses(c)
        BY <1>2, <3>8, WindowStep
      <3>9. CASE \E c, d \in SessionNonces :
                   proof[d] # None /\ Person!VerifySession(c, proof[d])
        BY <1>2, <3>9, VerifySessionStep
      <3>10. CASE \E i \in Intents : Person!VerifyPayment(i)
        BY <1>2, <3>10, VerifyPaymentStep
      <3> QED BY <2>2, <3>1, <3>2, <3>3, <3>4, <3>5, <3>6, <3>7, <3>8, <3>9, <3>10
            DEF Person!Next
    <2> QED BY <1>2, <2>1, <2>2
  <1> QED BY <1>1, <1>2

(* However registrations, revocations, rescreens and sessions follow each  *)
(* other, the registry agrees with itself and every session was earned.    *)
THEOREM SessionsEarned ==
  ASSUME Person!ConstantTypes
  PROVE  Person!Spec => [](Person!TypeOK /\ Person!RegistryAgrees /\ Person!SessionsAreEarned)
  <1>1. IdentityInv => Person!TypeOK /\ Person!RegistryAgrees /\ Person!SessionsAreEarned
    BY DEF IdentityInv, RegistryInv, SessionInv, Person!TypeOK, Person!RegistryAgrees,
           LeavesAgree
  <1>2. Person!Spec => Person!Init /\ [][Person!Next]_personVars
    BY DEF Person!Spec, Person!vars, personVars
  <1>3. Person!Init => IdentityInv
    BY IdentityInductive
  <1>4. IdentityInv /\ [Person!Next]_personVars => IdentityInv'
    BY IdentityInductive
  <1> QED BY <1>1, <1>2, <1>3, <1>4, PTL

-----------------------------------------------------------------------------
(* Broadcasts.                                                             *)

(* What the constants of the broadcasts are, for the steps that need it.   *)
LEMMA ChainConstants ==
  ASSUME Chain!ConstantTypes
  PROVE  /\ None \notin Chain!Kinds /\ None \notin Broadcasts /\ "script" \notin Broadcasts
         /\ Required \subseteq Broadcasts
  BY DEF Chain!ConstantTypes

(* Its first and its last record.                                          *)
LEMMA ChainIdleTypes == Chain!Idle \in Chain!Run /\ [Chain!Idle EXCEPT !.at = "over"] \in Chain!Run
  BY DEF Chain!Idle, Chain!Run

(* Answers are answers.                                                    *)
LEMMA ChainAnswerTypes ==
  ASSUME NEW s \in {"submitted", "skipped", "failed", "requires_funding"}, NEW tx \in Nat,
         NEW kind \in Chain!Kinds \union {None}
  PROVE  [status |-> s, tx |-> tx, kind |-> kind] \in Chain!Answer
  BY DEF Chain!Answer

(* What ends a broadcast keeps the types of both maps.                     *)
LEMMA ChainSaysTypes ==
  ASSUME Chain!TypeOK, NEW b \in Broadcasts,
         NEW s \in {"submitted", "skipped", "failed", "requires_funding"}, NEW tx \in Nat,
         NEW kind \in Chain!Kinds \union {None}, Chain!Says(b, s, tx, kind)
  PROVE  /\ broadcast' \in [Broadcasts -> Chain!Run]
         /\ answer' \in [Broadcasts -> Chain!Answer \union {None}]
  BY ChainIdleTypes, ChainAnswerTypes DEF Chain!Says, Chain!Go, Chain!TypeOK

(* A broadcast that goes on keeps the types.                               *)
LEMMA ChainGoTypes ==
  ASSUME Chain!TypeOK, NEW b \in Broadcasts, NEW next \in Chain!Run, Chain!Go(b, next)
  PROVE  broadcast' \in [Broadcasts -> Chain!Run]
  BY DEF Chain!Go, Chain!TypeOK

(* Transactions of the network are added at its end.                       *)
ChainGrows ==
  /\ Len(chain) <= Len(chain')
  /\ \A i \in 1..Len(chain) : chain'[i] = chain[i]

(* The chain only grows, so a transaction on it stays on it.               *)
LEMMA ChainAppends ==
  ASSUME Chain!TypeOK, NEW x \in Broadcasts \union {"script"}, chain' = Append(chain, x)
  PROVE  /\ ChainGrows /\ chain' \in Seq(Broadcasts \union {"script"})
         /\ Len(chain) + 1 \in 1..Len(chain') /\ chain'[Len(chain) + 1] = x
  BY DEF Chain!TypeOK, ChainGrows

(* A transaction of the script; and one that b may be told of.             *)
ScriptsTx(net, tx) == tx \in 1..Len(net) /\ net[tx] = "script"
TxFor(net, b, tx, kind) ==
  /\ kind \in Chain!Kinds /\ tx \in 1..Len(net)
  /\ IF kind = "anchor-fallback" THEN net[tx] = "script" /\ b \notin Required ELSE net[tx] = b
FileOf(net, f) == f \in Chain!File /\ (f.tx # 0 => ScriptsTx(net, f.tx))

(* The file, in every copy a process has read, names transactions of the   *)
(* script, and so does what the script is about to put there; a broadcast  *)
(* that has a transaction, and what it answered, names its own or, by the  *)
(* fallback, one of the script's.                                          *)
ChainInv ==
  /\ FileOf(chain, deployment)
  /\ script.at \in {"read", "write"} => ScriptsTx(chain, script.put.tx)
  /\ script.at = "write" => FileOf(chain, script.seen)
  /\ \A b \in Broadcasts :
       /\ broadcast[b].at \in {"read", "write"} =>
            TxFor(chain, b, broadcast[b].tx, broadcast[b].kind)
       /\ broadcast[b].at = "write" => FileOf(chain, broadcast[b].seen)
       /\ answer[b] # None /\ answer[b].status = "submitted" =>
            TxFor(chain, b, answer[b].tx, answer[b].kind)

(* None of that is lost when transactions are added.                       *)
LEMMA ChainKeeps ==
  ASSUME Chain!TypeOK, Chain!TypeOK', ChainGrows
  PROVE  /\ \A tx : ScriptsTx(chain, tx) => ScriptsTx(chain', tx)
         /\ \A f : FileOf(chain, f) => FileOf(chain', f)
         /\ \A b, tx, kind : TxFor(chain, b, tx, kind) => TxFor(chain', b, tx, kind)
  <1>1. Len(chain) \in Nat /\ Len(chain') \in Nat
    BY DEF Chain!TypeOK
  <1> QED BY <1>1 DEF ChainGrows, ScriptsTx, FileOf, TxFor

(* What the invariant says of one broadcast, and of the script.            *)
ChainBroadcast(net, b, run, ans) ==
  /\ run.at \in {"read", "write"} => TxFor(net, b, run.tx, run.kind)
  /\ run.at = "write" => FileOf(net, run.seen)
  /\ ans # None /\ ans.status = "submitted" => TxFor(net, b, ans.tx, ans.kind)

(* A step of one broadcast.                                                *)
ChainStepOf(b) ==
  /\ UNCHANGED <<deployment, script>> /\ ChainGrows
  /\ \A o \in Broadcasts \ {b} : broadcast'[o] = broadcast[o] /\ answer'[o] = answer[o]
  /\ ChainBroadcast(chain', b, broadcast'[b], answer'[b])

(* A step of one broadcast keeps the invariant, when what it holds is      *)
(* true.                                                                   *)
LEMMA ChainBroadcastInv ==
  ASSUME Chain!TypeOK, Chain!TypeOK', ChainInv, NEW b \in Broadcasts, ChainStepOf(b)
  PROVE  ChainInv'
  <1>1. FileOf(chain', deployment')
    BY ChainKeeps DEF ChainInv, ChainStepOf
  <1>2. script'.at \in {"read", "write"} => ScriptsTx(chain', script'.put.tx)
    BY ChainKeeps DEF ChainInv, ChainStepOf
  <1>3. script'.at = "write" => FileOf(chain', script'.seen)
    BY ChainKeeps DEF ChainInv, ChainStepOf
  <1>4. ASSUME NEW o \in Broadcasts
        PROVE  ChainBroadcast(chain', o, broadcast'[o], answer'[o])
    <2>1. ChainBroadcast(chain, o, broadcast[o], answer[o])
      BY DEF ChainInv, ChainBroadcast
    <2>2. ChainBroadcast(chain', o, broadcast[o], answer[o])
      BY <2>1, ChainKeeps DEF ChainBroadcast, ChainStepOf
    <2> QED BY <2>2 DEF ChainStepOf
  <1> QED BY <1>1, <1>2, <1>3, <1>4 DEF ChainInv, ChainBroadcast

(* A step of the script.                                                   *)
LEMMA ChainScriptInv ==
  ASSUME Chain!TypeOK, Chain!TypeOK', ChainInv, ChainGrows, UNCHANGED <<broadcast, answer>>,
         FileOf(chain', deployment'),
         script'.at \in {"read", "write"} => ScriptsTx(chain', script'.put.tx),
         script'.at = "write" => FileOf(chain', script'.seen)
  PROVE  ChainInv'
  <1>1. ASSUME NEW o \in Broadcasts
        PROVE  ChainBroadcast(chain', o, broadcast'[o], answer'[o])
    <2>1. ChainBroadcast(chain, o, broadcast[o], answer[o])
      BY DEF ChainInv, ChainBroadcast
    <2> QED BY <2>1, ChainKeeps DEF ChainBroadcast
  <1> QED BY <1>1 DEF ChainInv, ChainBroadcast

(* The steps that say something to the caller, without a transaction.      *)
LEMMA ChainRefusesInv ==
  ASSUME Chain!ConstantTypes, Chain!TypeOK, ChainInv, NEW b \in Broadcasts,
         NEW s \in {"skipped", "failed", "requires_funding"}, Chain!Says(b, s, 0, None),
         UNCHANGED <<serverUp, seed, funded, chain, deployment, script>>
  PROVE  Chain!TypeOK' /\ ChainInv'
  <1>1. Chain!TypeOK'
    <2>1. /\ broadcast' \in [Broadcasts -> Chain!Run]
          /\ answer' \in [Broadcasts -> Chain!Answer \union {None}]
      BY ChainSaysTypes
    <2> QED BY <2>1 DEF Chain!TypeOK
  <1>2. ChainStepOf(b)
    <2>1. broadcast'[b].at = "over"
      BY DEF Chain!Says, Chain!Go, Chain!Idle, Chain!TypeOK
    <2>2. answer'[b].status = s
      BY DEF Chain!Says, Chain!TypeOK
    <2>3. \A o \in Broadcasts \ {b} : broadcast'[o] = broadcast[o] /\ answer'[o] = answer[o]
      BY DEF Chain!Says, Chain!Go, Chain!TypeOK
    <2> QED BY <2>1, <2>2, <2>3 DEF ChainStepOf, ChainBroadcast, ChainGrows, Chain!TypeOK
  <1> QED BY <1>1, <1>2, ChainBroadcastInv

(* The steps that take a broadcast on, to the stage "at" and with a        *)
(* transaction when it has one.                                            *)
LEMMA ChainGoesOnInv ==
  ASSUME Chain!ConstantTypes, Chain!TypeOK, ChainInv, NEW b \in Broadcasts,
         NEW next \in Chain!Run, Chain!Go(b, next), ChainGrows,
         chain' \in Seq(Broadcasts \union {"script"}),
         UNCHANGED <<serverUp, seed, funded, deployment, script, answer>>,
         next.at \in {"read", "write"} => TxFor(chain', b, next.tx, next.kind),
         next.at = "write" => FileOf(chain', next.seen)
  PROVE  Chain!TypeOK' /\ ChainInv'
  <1>1. Chain!TypeOK'
    BY ChainGoTypes DEF Chain!TypeOK
  <1>2. /\ broadcast'[b] = next /\ answer'[b] = answer[b]
        /\ \A o \in Broadcasts \ {b} : broadcast'[o] = broadcast[o]
    BY DEF Chain!Go, Chain!TypeOK
  <1>3. answer[b] # None /\ answer[b].status = "submitted" =>
          TxFor(chain', b, answer[b].tx, answer[b].kind)
    BY <1>1, ChainKeeps DEF ChainInv
  <1>4. ChainStepOf(b)
    BY <1>2, <1>3 DEF ChainStepOf, ChainBroadcast
  <1> QED BY <1>1, <1>4, ChainBroadcastInv

(* A chain that stays as it is grows by nothing.                           *)
LEMMA ChainStill ==
  ASSUME Chain!TypeOK, UNCHANGED chain
  PROVE  ChainGrows /\ chain' \in Seq(Broadcasts \union {"script"})
  <1>1. Len(chain) \in Nat
    BY DEF Chain!TypeOK
  <1> QED BY <1>1 DEF ChainGrows, Chain!TypeOK

(* The broadcasts' steps up to the wallet's answer.                        *)
LEMMA ChainBeginInv ==
  ASSUME Chain!ConstantTypes, Chain!TypeOK, ChainInv, NEW b \in Broadcasts, Chain!Begin(b)
  PROVE  Chain!TypeOK' /\ ChainInv'
  <1>1. CASE Chain!Says(b, IF b \in Required THEN "failed" ELSE "skipped", 0, None)
    BY <1>1, ChainRefusesInv DEF Chain!Begin
  <1>2. ASSUME UNCHANGED answer,
               Chain!Go(b, [broadcast[b] EXCEPT !.at = IF deployment.contract # 0
                                                       THEN "call" ELSE "transfer"])
        PROVE  Chain!TypeOK' /\ ChainInv'
    <2> DEFINE next == [broadcast[b] EXCEPT !.at = IF deployment.contract # 0
                                                   THEN "call" ELSE "transfer"]
    <2>1. next \in Chain!Run /\ next.at \in {"call", "transfer"}
      BY DEF Chain!TypeOK, Chain!Run
    <2> HIDE DEF next
    <2> QED BY <1>2, <2>1, ChainGoesOnInv, ChainStill DEF Chain!Begin, next
  <1> QED BY <1>1, <1>2 DEF Chain!Begin

(* A broadcast is refused.                                                 *)
LEMMA ChainRefuseInv ==
  ASSUME Chain!ConstantTypes, Chain!TypeOK, ChainInv, NEW b \in Broadcasts,
         NEW reason \in Chain!Reasons, Chain!Refuse(b, reason),
         UNCHANGED chain \/ Chain!Lands(b)
  PROVE  Chain!TypeOK' /\ ChainInv'
  <1> DEFINE next == [broadcast[b] EXCEPT !.at = "refused", !.reason = reason]
  <1>1. next \in Chain!Run /\ next.at = "refused"
    BY DEF Chain!TypeOK, Chain!Run, Chain!Reasons
  <1>2. Chain!Go(b, next)
    BY DEF Chain!Refuse
  <1>3. ChainGrows /\ chain' \in Seq(Broadcasts \union {"script"})
    BY ChainStill, ChainAppends DEF Chain!Lands
  <1> HIDE DEF next
  <1> QED BY <1>1, <1>2, <1>3, ChainGoesOnInv DEF Chain!Refuse

(* A transaction of the wallet that answers is the broadcast's own.        *)
LEMMA ChainLandsInv ==
  ASSUME Chain!ConstantTypes, Chain!TypeOK, ChainInv, NEW b \in Broadcasts,
         NEW kind \in {"contract-call", "unshielded-transfer"}, Chain!Lands(b),
         Chain!Go(b, [broadcast[b] EXCEPT !.at = "read", !.tx = Len(chain) + 1, !.kind = kind]),
         UNCHANGED <<serverUp, seed, funded, deployment, script, answer>>
  PROVE  Chain!TypeOK' /\ ChainInv'
  <1> DEFINE next == [broadcast[b] EXCEPT !.at = "read", !.tx = Len(chain) + 1, !.kind = kind]
  <1>1. Len(chain) + 1 \in Nat /\ broadcast[b] \in Chain!Run
    BY DEF Chain!TypeOK
  <1>2. next \in Chain!Run /\ next.at = "read" /\ next.tx = Len(chain) + 1 /\ next.kind = kind
    BY <1>1 DEF Chain!Run, Chain!Kinds
  <1>3. Chain!Go(b, next)
    OBVIOUS
  <1> HIDE DEF next
  <1>4. TxFor(chain', b, next.tx, next.kind)
    BY <1>2, ChainAppends DEF TxFor, Chain!Lands, Chain!Kinds
  <1> QED BY <1>2, <1>3, <1>4, ChainGoesOnInv, ChainAppends DEF Chain!Lands

(* A call to the chain, and what it finds.                                 *)
LEMMA ChainCallInv ==
  ASSUME Chain!ConstantTypes, Chain!TypeOK, ChainInv, NEW b \in Broadcasts,
         Chain!CallContract(b)
  PROVE  Chain!TypeOK' /\ ChainInv'
  <1>1. ASSUME Chain!Lands(b),
               Chain!Go(b, [broadcast[b] EXCEPT !.at = "read", !.tx = Len(chain) + 1,
                                                !.kind = "contract-call"])
        PROVE  Chain!TypeOK' /\ ChainInv'
    BY <1>1, ChainLandsInv DEF Chain!CallContract
  <1>2. ASSUME Chain!Lands(b) \/ UNCHANGED chain,
               Chain!Go(b, [broadcast[b] EXCEPT !.at = "transfer"])
        PROVE  Chain!TypeOK' /\ ChainInv'
    <2> DEFINE next == [broadcast[b] EXCEPT !.at = "transfer"]
    <2>1. next \in Chain!Run /\ next.at = "transfer"
      BY DEF Chain!TypeOK, Chain!Run
    <2>2. ChainGrows /\ chain' \in Seq(Broadcasts \union {"script"})
      BY <1>2, ChainStill, ChainAppends DEF Chain!Lands
    <2>3. Chain!Go(b, next)
      BY <1>2
    <2> HIDE DEF next
    <2> QED BY <2>1, <2>2, <2>3, ChainGoesOnInv DEF Chain!CallContract
  <1> QED BY <1>1, <1>2 DEF Chain!CallContract

(* The transfer to oneself, when the contract call did not land.           *)
LEMMA ChainTransferInv ==
  ASSUME Chain!ConstantTypes, Chain!TypeOK, ChainInv, NEW b \in Broadcasts,
         Chain!Transfer(b)
  PROVE  Chain!TypeOK' /\ ChainInv'
  <1>1. ASSUME Chain!Lands(b),
               Chain!Go(b, [broadcast[b] EXCEPT !.at = "read", !.tx = Len(chain) + 1,
                                                !.kind = "unshielded-transfer"]),
               UNCHANGED <<serverUp, seed, funded, deployment, script, answer>>
        PROVE  Chain!TypeOK' /\ ChainInv'
    BY <1>1, ChainLandsInv
  <1>2. "unfunded" \in Chain!Reasons
    BY DEF Chain!Reasons
  <1> QED BY <1>1, <1>2, ChainRefuseInv DEF Chain!Transfer

(* A submission was refused: the caller is told, or given a transaction of *)
(* the file.                                                               *)
LEMMA ChainRefusedInv ==
  ASSUME Chain!ConstantTypes, Chain!TypeOK, ChainInv, NEW b \in Broadcasts,
         Chain!Refused(b)
  PROVE  Chain!TypeOK' /\ ChainInv'
  <1>1. ASSUME NEW s \in {"skipped", "failed", "requires_funding"}, Chain!Says(b, s, 0, None)
        PROVE  Chain!TypeOK' /\ ChainInv'
    BY <1>1, ChainRefusesInv DEF Chain!Refused
  <1>2. ASSUME Chain!AnchorAllowed(b), deployment.tx # 0, UNCHANGED answer,
               Chain!Go(b, [broadcast[b] EXCEPT !.at = "read", !.tx = deployment.tx,
                                                !.kind = "anchor-fallback"])
        PROVE  Chain!TypeOK' /\ ChainInv'
    <2> DEFINE next == [broadcast[b] EXCEPT !.at = "read", !.tx = deployment.tx,
                                            !.kind = "anchor-fallback"]
    <2>1. broadcast[b] \in Chain!Run /\ deployment.tx \in Nat
      BY DEF Chain!TypeOK, Chain!File
    <2>2. /\ next \in Chain!Run /\ next.at = "read" /\ next.tx = deployment.tx
          /\ next.kind = "anchor-fallback"
      BY <2>1 DEF Chain!Run, Chain!Kinds
    <2>3. Chain!Go(b, next)
      BY <1>2
    <2> HIDE DEF next
    <2>4. TxFor(chain, b, next.tx, next.kind)
      BY <1>2, <2>2 DEF TxFor, ChainInv, FileOf, ScriptsTx, Chain!AnchorAllowed, Chain!Kinds
    <2>5. UNCHANGED <<serverUp, seed, funded, chain, deployment, script>>
      BY DEF Chain!Refused
    <2> QED BY <1>2, <2>2, <2>3, <2>4, <2>5, ChainGoesOnInv, ChainStill
  <1> QED BY <1>1, <1>2 DEF Chain!Refused

(* The file is read, and written back with the transaction.                *)
LEMMA ChainReadInv ==
  ASSUME Chain!ConstantTypes, Chain!TypeOK, ChainInv, NEW b \in Broadcasts,
         Chain!ReadFile(b)
  PROVE  Chain!TypeOK' /\ ChainInv'
  <1> DEFINE next == [broadcast[b] EXCEPT !.at = "write", !.seen = deployment]
  <1>1. broadcast[b] \in Chain!Run /\ deployment \in Chain!File
    BY DEF Chain!TypeOK
  <1>2. /\ next \in Chain!Run /\ next.seen = deployment
        /\ next.tx = broadcast[b].tx /\ next.kind = broadcast[b].kind
    BY <1>1 DEF Chain!Run
  <1>3. Chain!Go(b, next)
    BY DEF Chain!ReadFile
  <1> HIDE DEF next
  <1>4. TxFor(chain, b, next.tx, next.kind) /\ FileOf(chain, next.seen)
    BY <1>2 DEF ChainInv, Chain!ReadFile
  <1> QED BY <1>2, <1>3, <1>4, ChainGoesOnInv, ChainStill DEF Chain!ReadFile

(* A broadcast writes the deployment file.                                 *)
LEMMA ChainWriteInv ==
  ASSUME Chain!ConstantTypes, Chain!TypeOK, ChainInv, NEW b \in Broadcasts,
         Chain!WriteFile(b)
  PROVE  Chain!TypeOK' /\ ChainInv'
  <1>1. /\ TxFor(chain, b, broadcast[b].tx, broadcast[b].kind)
        /\ FileOf(chain, broadcast[b].seen)
    BY DEF ChainInv, Chain!WriteFile
  <1>2. broadcast[b].tx \in Nat /\ broadcast[b].kind \in Chain!Kinds
    BY <1>1 DEF Chain!TypeOK, Chain!Run, TxFor
  <1>3. FileOf(chain, deployment')
    <2> DEFINE old == broadcast[b].seen
               new == [old EXCEPT !.last = broadcast[b].tx]
    <2>1. old \in Chain!File
      BY <1>1 DEF FileOf
    <2>2. new \in Chain!File /\ new.tx = old.tx
      BY <1>2, <2>1 DEF Chain!File
    <2>3. deployment' = new
      BY DEF Chain!WriteFile
    <2> HIDE DEF new
    <2> QED BY <1>1, <2>2, <2>3 DEF FileOf
  <1>4. Chain!TypeOK'
    <2>1. /\ broadcast' \in [Broadcasts -> Chain!Run]
          /\ answer' \in [Broadcasts -> Chain!Answer \union {None}]
      BY <1>2, ChainSaysTypes DEF Chain!WriteFile
    <2>2. UNCHANGED <<serverUp, seed, funded, chain, script>>
      BY DEF Chain!WriteFile
    <2> QED BY <1>3, <2>1, <2>2 DEF Chain!TypeOK, FileOf
  <1>5. /\ broadcast'[b].at = "over" /\ answer'[b].tx = broadcast[b].tx
        /\ answer'[b].kind = broadcast[b].kind
        /\ \A o \in Broadcasts \ {b} : broadcast'[o] = broadcast[o] /\ answer'[o] = answer[o]
    BY DEF Chain!WriteFile, Chain!Says, Chain!Go, Chain!Idle, Chain!TypeOK
  <1>6. UNCHANGED <<chain, script>>
    BY DEF Chain!WriteFile
  <1>7. ASSUME NEW o \in Broadcasts
        PROVE  ChainBroadcast(chain, o, broadcast'[o], answer'[o])
    <2>1. CASE o = b
      BY <1>1, <1>5, <2>1 DEF ChainBroadcast
    <2>2. CASE o # b
      <3>1. broadcast'[o] = broadcast[o] /\ answer'[o] = answer[o]
        BY <1>5, <2>2
      <3>2. ChainBroadcast(chain, o, broadcast[o], answer[o])
        BY DEF ChainInv, ChainBroadcast
      <3> QED BY <3>1, <3>2
    <2> QED BY <2>1, <2>2
  <1>8. ChainInv'
    BY <1>3, <1>6, <1>7 DEF ChainInv, ChainBroadcast
  <1> QED BY <1>4, <1>8

(* A stop of the server leaves no broadcast on its way.                    *)
LEMMA ChainStopInv ==
  ASSUME Chain!TypeOK, ChainInv, Chain!Stop PROVE Chain!TypeOK' /\ ChainInv'
  <1>1. broadcast' \in [Broadcasts -> Chain!Run]
    BY ChainIdleTypes DEF Chain!Stop
  <1>2. \A b \in Broadcasts : broadcast'[b].at \in {"idle", "over"}
    BY DEF Chain!Stop, Chain!Idle
  <1> QED BY <1>1, <1>2 DEF Chain!Stop, ChainInv, Chain!TypeOK

(* The script at another stage, with what it is about to put or has read.  *)
LEMMA ChainScriptTypes ==
  ASSUME NEW s \in Chain!Script, NEW tx \in Nat, NEW contract \in Nat,
         NEW at \in {"start", "funds", "register", "deploy", "read", "write", "over"},
         NEW f \in Chain!File \union {None}, NEW to \in {"deploy", "over"}
  PROVE  /\ [s EXCEPT !.at = at] \in Chain!Script
         /\ [s EXCEPT !.at = at, !.seen = f] \in Chain!Script
         /\ [s EXCEPT !.at = "read", !.put = [tx |-> tx, contract |-> contract],
                      !.then = to] \in Chain!Script
  <1>1. [s EXCEPT !.at = at] \in Chain!Script
    BY DEF Chain!Script
  <1>2. [s EXCEPT !.at = at, !.seen = f] \in Chain!Script
    BY DEF Chain!Script
  <1> DEFINE put == [tx |-> tx, contract |-> contract]
  <1>3. put \in [tx : Nat, contract : Nat]
    OBVIOUS
  <1> HIDE DEF put
  <1>4. [s EXCEPT !.at = "read", !.put = put, !.then = to] \in Chain!Script
    BY <1>3 DEF Chain!Script
  <1> QED BY <1>1, <1>2, <1>4 DEF put

(* A step of the script that neither keeps nor has a transaction.          *)
LEMMA ChainScriptGoesOn ==
  ASSUME Chain!TypeOK, ChainInv, UNCHANGED <<serverUp, chain, deployment, broadcast, answer>>,
         seed' \in BOOLEAN, funded' \in BOOLEAN,
         NEW next \in {"funds", "register", "deploy", "over"}, Chain!ScriptTo(next)
  PROVE  Chain!TypeOK' /\ ChainInv'
  <1>1. script' \in Chain!Script /\ script'.at = next
    <2>1. script \in Chain!Script
      BY DEF Chain!TypeOK
    <2> QED BY <2>1 DEF Chain!ScriptTo, Chain!Script
  <1>2. Chain!TypeOK'
    BY <1>1 DEF Chain!TypeOK
  <1>3. ChainGrows
    BY ChainStill
  <1>4. FileOf(chain', deployment')
    BY DEF ChainInv
  <1> QED BY <1>1, <1>2, <1>3, <1>4, ChainScriptInv

(* A transaction of the script lands, and the script is to keep it.        *)
LEMMA ChainScriptLands ==
  ASSUME Chain!TypeOK, ChainInv,
         UNCHANGED <<serverUp, seed, funded, deployment, broadcast, answer>>,
         chain' = Append(chain, "script"), NEW to \in {"deploy", "over"},
         NEW contract \in {0, Len(chain) + 1},
         Chain!Keeps(to, [tx |-> Len(chain) + 1, contract |-> contract])
  PROVE  Chain!TypeOK' /\ ChainInv'
  <1>1. Len(chain) + 1 \in Nat /\ script \in Chain!Script
    BY DEF Chain!TypeOK
  <1>2. script' \in Chain!Script
    BY <1>1, ChainScriptTypes DEF Chain!Keeps
  <1>3. script'.at = "read" /\ script'.put.tx = Len(chain) + 1
    BY <1>1 DEF Chain!Keeps, Chain!Script
  <1>4. ChainGrows /\ chain' \in Seq(Broadcasts \union {"script"})
        /\ ScriptsTx(chain', Len(chain) + 1)
    BY ChainAppends DEF ScriptsTx
  <1>5. Chain!TypeOK'
    BY <1>2, <1>4 DEF Chain!TypeOK
  <1>6. FileOf(chain', deployment')
    BY <1>4, <1>5, ChainKeeps DEF ChainInv
  <1> QED BY <1>3, <1>4, <1>5, <1>6, ChainScriptInv

(* The deployment script reads the file.                                   *)
LEMMA ChainScriptReads ==
  ASSUME Chain!TypeOK, ChainInv, Chain!ScriptReads PROVE Chain!TypeOK' /\ ChainInv'
  <1>1. script \in Chain!Script /\ deployment \in Chain!File
    BY DEF Chain!TypeOK
  <1>2. script' \in Chain!Script
    BY <1>1, ChainScriptTypes DEF Chain!ScriptReads
  <1>3. script'.put = script.put /\ script'.seen = deployment
    BY <1>1 DEF Chain!ScriptReads, Chain!Script
  <1>4. UNCHANGED <<serverUp, seed, funded, chain, deployment, broadcast, answer>>
    BY DEF Chain!ScriptReads
  <1>5. Chain!TypeOK'
    BY <1>2, <1>4 DEF Chain!TypeOK
  <1>6. ScriptsTx(chain, script.put.tx) /\ FileOf(chain, deployment)
    BY DEF Chain!ScriptReads, ChainInv
  <1> QED BY <1>3, <1>4, <1>5, <1>6, ChainScriptInv, ChainStill

(* The deployment script writes the file it read, with its own             *)
(* transaction.                                                            *)
LEMMA ChainScriptWrites ==
  ASSUME Chain!TypeOK, ChainInv, Chain!ScriptWrites PROVE Chain!TypeOK' /\ ChainInv'
  <1>1. script \in Chain!Script /\ script.put \in [tx : Nat, contract : Nat]
    BY DEF Chain!TypeOK, Chain!Script
  <1>2. ScriptsTx(chain, script.put.tx) /\ script.seen \in Chain!File
    BY DEF Chain!ScriptWrites, ChainInv, FileOf
  <1>3. deployment' \in Chain!File /\ deployment'.tx = script.put.tx
    BY <1>1, <1>2 DEF Chain!ScriptWrites, Chain!File
  <1>4. script.then \in {"deploy", "over"}
    BY <1>1 DEF Chain!Script
  <1>5. script' \in Chain!Script /\ script'.at = script.then
    <2>1. script' \in Chain!Script
      BY <1>1, <1>4, ChainScriptTypes DEF Chain!ScriptWrites
    <2>2. script'.at = script.then
      BY <1>1 DEF Chain!ScriptWrites, Chain!Script
    <2> QED BY <2>1, <2>2
  <1>6. UNCHANGED <<serverUp, seed, funded, chain, broadcast, answer>>
    BY DEF Chain!ScriptWrites
  <1>7. Chain!TypeOK'
    BY <1>3, <1>5, <1>6 DEF Chain!TypeOK
  <1>8. FileOf(chain', deployment')
    BY <1>2, <1>3, <1>6 DEF FileOf
  <1> QED BY <1>4, <1>5, <1>6, <1>7, <1>8, ChainScriptInv, ChainStill

(* The steps of the script.                                                *)
LEMMA ChainDeploymentInv ==
  ASSUME Chain!TypeOK, ChainInv, Chain!Deployment PROVE Chain!TypeOK' /\ ChainInv'
  <1>1. CASE Chain!Prepare
    <2>1. Chain!ScriptTo("register") \/ Chain!ScriptTo("funds")
      BY <1>1 DEF Chain!Prepare
    <2> QED BY <1>1, <2>1, ChainScriptGoesOn DEF Chain!Prepare, Chain!TypeOK
  <1>2. CASE Chain!Fund
    BY <1>2, ChainScriptGoesOn DEF Chain!Fund, Chain!TypeOK
  <1>3. CASE Chain!RegisterDust
    <2>1. CASE UNCHANGED chain /\ Chain!ScriptTo("deploy")
      BY <1>3, <2>1, ChainScriptGoesOn DEF Chain!RegisterDust, Chain!TypeOK
    <2>2. CASE /\ chain' = Append(chain, "script")
               /\ Chain!Keeps("deploy", [tx |-> Len(chain) + 1, contract |-> 0])
      BY <1>3, <2>2, ChainScriptLands DEF Chain!RegisterDust
    <2> QED BY <1>3, <2>1, <2>2 DEF Chain!RegisterDust
  <1>4. CASE Chain!Deploy
    <2>1. CASE UNCHANGED chain /\ Chain!ScriptTo("over")
      BY <1>4, <2>1, ChainScriptGoesOn DEF Chain!Deploy, Chain!TypeOK
    <2>2. CASE chain' = Append(chain, "script")
               /\ Chain!Keeps("over", [tx |-> Len(chain) + 1, contract |-> Len(chain) + 1])
      BY <1>4, <2>2, ChainScriptLands DEF Chain!Deploy
    <2> QED BY <1>4, <2>1, <2>2 DEF Chain!Deploy
  <1> QED BY <1>1, <1>2, <1>3, <1>4, ChainScriptReads, ChainScriptWrites DEF Chain!Deployment

(* The types and the invariant together.                                   *)
LEMMA ChainInductive ==
  ASSUME Chain!ConstantTypes
  PROVE  /\ Chain!Init => Chain!TypeOK /\ ChainInv
         /\ Chain!TypeOK /\ ChainInv /\ [Chain!Next]_(Chain!vars) => Chain!TypeOK' /\ ChainInv'
  <1>1. ASSUME Chain!Init PROVE Chain!TypeOK /\ ChainInv
    <2>1. broadcast \in [Broadcasts -> Chain!Run] /\ \A b \in Broadcasts : broadcast[b].at = "idle"
      BY <1>1, ChainIdleTypes DEF Chain!Init, Chain!Idle
    <2>2. script \in Chain!Script /\ script.at = "start"
      BY <1>1 DEF Chain!Init, Chain!Script
    <2>3. deployment \in Chain!File /\ deployment.tx = 0
      BY <1>1 DEF Chain!Init, Chain!File
    <2>4. chain \in Seq(Broadcasts \union {"script"})
      BY <1>1 DEF Chain!Init
    <2>5. /\ answer \in [Broadcasts -> Chain!Answer \union {None}]
          /\ \A b \in Broadcasts : answer[b] = None
      BY <1>1 DEF Chain!Init
    <2> QED BY <1>1, <2>1, <2>2, <2>3, <2>4, <2>5 DEF Chain!Init, Chain!TypeOK, ChainInv, FileOf
  <1>2. ASSUME Chain!TypeOK, ChainInv, [Chain!Next]_(Chain!vars) PROVE Chain!TypeOK' /\ ChainInv'
    <2>1. CASE Chain!Deployment
      BY <1>2, <2>1, ChainDeploymentInv
    <2>2. CASE Chain!Stop
      BY <1>2, <2>2, ChainStopInv
    <2>3. CASE Chain!Restart
      BY <1>2, <2>3 DEF Chain!Restart, Chain!TypeOK, ChainInv
    <2>4. ASSUME NEW b \in Broadcasts, Chain!Unavailable(b) PROVE Chain!TypeOK' /\ ChainInv'
      BY <1>2, <2>4, ChainRefuseInv DEF Chain!Unavailable
    <2>5. CASE UNCHANGED Chain!vars
      BY <1>2, <2>5 DEF Chain!vars, Chain!TypeOK, ChainInv
    <2> QED BY <1>2, <2>1, <2>2, <2>3, <2>4, <2>5, ChainBeginInv, ChainCallInv, ChainTransferInv,
               ChainRefusedInv, ChainReadInv, ChainWriteInv DEF Chain!Next, Chain!Server
  <1> QED BY <1>1, <1>2

(* A caller is told of a transaction that is on the chain, and of one of   *)
(* its own unless it may be given the fallback (broadcastSettlement,       *)
(* universalOnchain.ts), whatever the server and the deployment script     *)
(* overwrite in the file they share.                                       *)
THEOREM AnswersAreOnChain ==
  ASSUME Chain!ConstantTypes PROVE Chain!Spec => []Chain!SubmittedIsOnChain
  <1>1. ASSUME Chain!TypeOK, ChainInv PROVE Chain!SubmittedIsOnChain
    <2> SUFFICES ASSUME NEW b \in Broadcasts, answer[b] # None, answer[b].status = "submitted"
                 PROVE  LET receipt == Chain!Receipt(b)
                        IN /\ receipt.status = "submitted" /\ receipt.txHash \in 1..Len(chain)
                           /\ chain[receipt.txHash] = IF receipt.txKind = None THEN "script" ELSE b
                           /\ b \in Required => chain[receipt.txHash] = b
      BY DEF Chain!SubmittedIsOnChain
    <2>1. TxFor(chain, b, answer[b].tx, answer[b].kind)
      BY <1>1 DEF ChainInv
    <2>2. answer[b].tx # 0 /\ answer[b].kind # None
      BY <1>1, <2>1, ChainConstants DEF TxFor, Chain!TypeOK
    <2>3. Chain!Receipt(b) = [status |-> "submitted", txHash |-> answer[b].tx,
                              txKind |-> IF answer[b].kind = "anchor-fallback" THEN None
                                         ELSE answer[b].kind]
      BY <2>2 DEF Chain!Receipt
    <2> QED BY <2>1, <2>2, <2>3 DEF TxFor
  <1> QED BY <1>1, ChainInductive, PTL DEF Chain!Spec

-----------------------------------------------------------------------------
(* Recovery.                                                               *)

(* Recovery's finite sets are those of FiniteSetTheorems.                  *)
LEMMA KitSets ==
  /\ \A S : Kit!IsFiniteSet(S) <=> IsFiniteSet(S)
  /\ \A S : Kit!Cardinality(S) = Cardinality(S)
  BY DEF Kit!IsFiniteSet, IsFiniteSet, Kit!Cardinality, Cardinality

(* The constants of recovery, for the steps that need them.                *)
LEMMA KitConstants ==
  ASSUME Kit!ConstantTypes
  PROVE  /\ IsFiniteSet(Holders) /\ Threshold \in Nat \ {0} /\ MaxVersions \in Nat
         /\ 0 \in Kit!Version /\ 1 \in Kit!Version
  <1>1. Cardinality(Holders) \in Nat
    BY KitSets, FS_CardinalityType DEF Kit!ConstantTypes
  <1> QED BY <1>1, KitSets DEF Kit!ConstantTypes, Kit!Version

(* A step on one device leaves the others alone.                           *)
LEMMA KitBecomes ==
  ASSUME Kit!TypeOK, NEW d \in Devices, NEW next \in Kit!Device, Kit!Becomes(d, next)
  PROVE  /\ device' \in [Devices -> Kit!Device] /\ device'[d] = next
         /\ \A e \in Devices \ {d} : device'[e] = device[e]
  BY DEF Kit!TypeOK, Kit!Becomes

-----------------------------------------------------------------------------
(* What is invariant of one device: what a load has read and what a        *)
(* payment spends came from an open vault, and a vault that opens, that is *)
(* paid from or that was just registered has its keys; as long as no       *)
(* sign-out overtook a load or a payment.                                  *)
KitKeysOf(now) ==
  /\ now.step = "registered" => now.keys
  /\ now.due # 0 => now.pays # 0
  /\ \/ raced
     \/ /\ now.open => now.keys
        /\ now.pays # 0 => now.keys
        /\ now.seen # 0 => now.open
KitKeys == \A d \in Devices : KitKeysOf(device[d])

(* Before a first restore, and while no payment the server took has        *)
(* strayed, one device at most has the account, or pays, or is about to    *)
(* save its first vault; its vault is the newest version, unless that is   *)
(* the one its payment has still to save; the server names the newest, and *)
(* no load has found another.                                              *)
KitActive(now) == now.open \/ now.step = "registered" \/ now.pays # 0
KitFits(now) ==
  /\ KitActive(now) => made # 0
  /\ now.open /\ now.due = 0 => now.vault = made
  /\ now.due # 0 => now.due = made
  /\ now.step = "registered" => made = 1 /\ ~now.open /\ now.pays = 0
  /\ now.seen # 0 => now.held = now.seen
KitNewest ==
  restored = {} /\ ~strayed =>
    /\ named = made
    /\ \A d \in Devices : KitFits(device[d])
    /\ \A d, e \in Devices : KitActive(device[d]) /\ KitActive(device[e]) => d = e

(* The record is what was enrolled, it was opened by enough holders, and   *)
(* every high-value payment has asserted a passkey.                        *)
KitRecordInv == Kit!ThresholdHolds /\ ~soft

KitInv == Kit!TypeOK /\ KitKeys /\ KitNewest /\ KitRecordInv

(* What a step of a device does while the newest version is named: it      *)
(* leaves that to the server, and makes no device active.                  *)
KitQuiet(d, next) ==
  /\ UNCHANGED named
  /\ KitActive(next) => KitActive(device[d])
  /\ KitFits(next)

(* A step on one device that makes no version, and restores none.          *)
LEMMA KitStep ==
  ASSUME Kit!ConstantTypes, KitInv, NEW d \in Devices, NEW next \in Kit!Device,
         Kit!Becomes(d, next), UNCHANGED <<made, restored, soft>>, named' \in Kit!Version,
         raced' \in BOOLEAN, raced => raced', raced' \/ KitKeysOf(next),
         next.step = "registered" => next.keys, next.due # 0 => next.pays # 0,
         late' \subseteq Kit!Version, strayed' \in BOOLEAN, strayed => strayed',
         restored = {} /\ ~strayed' => KitQuiet(d, next),
         files' \subseteq Kit!Version, cloud' \in Kit!Content \union {None},
         uploaded' \in Kit!Content \union {None},
         UNCHANGED released, cloud' = uploaded'
  PROVE  KitInv'
  <1> USE DEF KitInv
  <1>1. /\ device' \in [Devices -> Kit!Device] /\ device'[d] = next
        /\ \A e \in Devices \ {d} : device'[e] = device[e]
    BY KitBecomes
  <1>2. Kit!TypeOK'
    BY <1>1 DEF Kit!TypeOK
  <1>3. KitKeys'
    BY <1>1 DEF KitKeys, KitKeysOf
  <1>4. KitNewest'
    <2> SUFFICES ASSUME restored = {}, ~strayed' PROVE KitNewest'
      BY DEF KitNewest
    <2>1. KitQuiet(d, next) /\ named = made /\ (\A e \in Devices : KitFits(device[e]))
          /\ \A e, f \in Devices : KitActive(device[e]) /\ KitActive(device[f]) => e = f
      BY DEF KitNewest
    <2>2. \A e \in Devices : KitActive(device'[e]) => KitActive(device[e])
      BY <1>1, <2>1 DEF KitQuiet
    <2>3. \A e \in Devices : KitFits(device'[e])
      BY <1>1, <2>1 DEF KitQuiet
    <2>4. \A e \in Devices : KitFits(device[e])'
      BY <2>3 DEF KitFits, KitActive
    <2>5. \A e \in Devices : KitActive(device[e])' => KitActive(device[e])
      BY <2>2 DEF KitActive
    <2>6. named' = made'
      BY <2>1 DEF KitQuiet
    <2> QED BY <2>1, <2>4, <2>5, <2>6 DEF KitNewest
  <1>5. KitRecordInv'
    BY DEF KitRecordInv, Kit!ThresholdHolds
  <1> QED BY <1>2, <1>3, <1>4, <1>5

(* A device in the middle of its steps is one that KitStep speaks of.      *)
LEMMA KitNow ==
  ASSUME Kit!ConstantTypes, KitInv, NEW d \in Devices
  PROVE  /\ device[d] \in Kit!Device /\ device[d].vault \in Kit!Version
         /\ device[d].seen \in Kit!Version /\ device[d].held \in Kit!Version
         /\ device[d].pays \in Kit!Version /\ device[d].due \in Kit!Version
         /\ device[d].open \in BOOLEAN /\ device[d].keys \in BOOLEAN
         /\ KitKeysOf(device[d]) /\ made \in Kit!Version /\ named \in Kit!Version
         /\ files \subseteq Kit!Version /\ cloud = uploaded /\ raced \in BOOLEAN
         /\ late \subseteq Kit!Version /\ strayed \in BOOLEAN
         /\ cloud \in Kit!Content \union {None} /\ uploaded \in Kit!Content \union {None}
         /\ restored = {} /\ ~strayed => named = made /\ KitFits(device[d])
         /\ 0 \in Kit!Version /\ 1 \in Kit!Version
  <1>1. device[d] \in Kit!Device
    BY DEF KitInv, Kit!TypeOK
  <1>2. KitKeysOf(device[d]) /\ cloud = uploaded
    BY DEF KitInv, KitKeys, KitRecordInv, Kit!ThresholdHolds
  <1> QED BY <1>1, <1>2, KitConstants DEF KitInv, Kit!TypeOK, Kit!Device, KitNewest

(* What becomes of a payment that is cut short.                            *)
LEMMA KitCutsShort ==
  ASSUME Kit!ConstantTypes, KitInv, NEW d \in Devices, Kit!CutsShort(d)
  PROVE  /\ late' \subseteq Kit!Version /\ strayed' \in BOOLEAN /\ (strayed => strayed')
         /\ ~strayed' => device[d].due = 0
  <1>1. strayed' \in BOOLEAN /\ (strayed => strayed') /\ (~strayed' => device[d].due = 0)
    BY KitNow DEF Kit!CutsShort
  <1>2. late' \subseteq Kit!Version
    BY KitNow DEF Kit!CutsShort
  <1> QED BY <1>1, <1>2

(* A step that changes neither the vault nor its keys.                     *)
LEMMA KitAside ==
  ASSUME Kit!ConstantTypes, KitInv, NEW d \in Devices, NEW next \in Kit!Device,
         Kit!Becomes(d, next),
         UNCHANGED <<made, named, released, restored, late, soft, strayed, raced>>,
         next.step # "registered", next.open = device[d].open, next.keys = device[d].keys,
         next.vault = device[d].vault, next.seen = device[d].seen, next.held = device[d].held,
         next.pays = device[d].pays, next.due = device[d].due,
         files' \subseteq Kit!Version, cloud' \in Kit!Content \union {None},
         uploaded' \in Kit!Content \union {None}, cloud' = uploaded'
  PROVE  KitInv'
  <1>1. (raced \/ KitKeysOf(next)) /\ (next.due # 0 => next.pays # 0)
    BY KitNow DEF KitKeysOf
  <1>2. restored = {} /\ ~strayed => KitQuiet(d, next)
    BY KitNow DEF KitQuiet, KitFits, KitActive
  <1> QED BY <1>1, <1>2, KitNow, KitStep

(* Sign-up, up to the registration and after it.                           *)
LEMMA KitGenerate ==
  ASSUME Kit!ConstantTypes, KitInv, NEW d \in Devices, Kit!Generate(d) PROVE KitInv'
  <1> DEFINE next == [device[d] EXCEPT !.step = "generated"]
  <1>1. next \in Kit!Device /\ next.step = "generated"
        /\ next.open = device[d].open /\ next.keys = device[d].keys
        /\ next.vault = device[d].vault /\ next.seen = device[d].seen
        /\ next.held = device[d].held /\ next.pays = device[d].pays
        /\ next.due = device[d].due
    BY KitNow DEF Kit!Device, Kit!Steps
  <1>2. Kit!Becomes(d, next)
    BY DEF Kit!Generate
  <1> HIDE DEF next
  <1>3. UNCHANGED <<made, named, released, restored, late, soft, strayed, raced>>
        /\ UNCHANGED <<files, cloud, uploaded>>
    BY DEF Kit!Generate, Kit!payVars
  <1> QED BY <1>1, <1>2, <1>3, KitNow, KitAside

(* The first vault of an account is saved.                                 *)
LEMMA KitSaveFirst ==
  ASSUME Kit!ConstantTypes, KitInv, NEW d \in Devices, Kit!SaveFirst(d) PROVE KitInv'
  <1> DEFINE next == [device[d] EXCEPT !.step = "saved", !.vault = 1, !.open = TRUE]
  <1>1. next \in Kit!Device /\ next.step = "saved"
        /\ next.open /\ next.keys = device[d].keys
        /\ next.vault = 1 /\ next.seen = device[d].seen
        /\ next.held = device[d].held /\ next.pays = device[d].pays
        /\ next.due = device[d].due
    BY KitNow DEF Kit!Device, Kit!Steps
  <1>2. Kit!Becomes(d, next) /\ device[d].step = "registered"
    BY DEF Kit!SaveFirst
  <1> HIDE DEF next
  <1>0. UNCHANGED <<made, named, files, cloud, uploaded, released, restored, late, soft,
                    strayed, raced>>
    BY DEF Kit!SaveFirst, Kit!payVars
  <1>3. (raced \/ KitKeysOf(next)) /\ (next.due # 0 => next.pays # 0)
    BY <1>1, <1>2, KitNow DEF KitKeysOf
  <1>4. restored = {} /\ ~strayed => KitQuiet(d, next)
    BY <1>0, <1>1, <1>2, KitNow DEF KitQuiet, KitFits, KitActive
  <1> QED BY <1>0, <1>1, <1>2, <1>3, <1>4, KitNow, KitStep

(* A recovery kit is sealed.                                               *)
LEMMA KitSeal ==
  ASSUME Kit!ConstantTypes, KitInv, NEW d \in Devices, Kit!SealKit(d) PROVE KitInv'
  <1> PICK kept \in {0, 1} : Kit!Becomes(d, [device[d] EXCEPT !.step = "sealed", !.kit = kept])
    BY DEF Kit!SealKit
  <1> DEFINE next == [device[d] EXCEPT !.step = "sealed", !.kit = kept]
  <1>1. next \in Kit!Device /\ next.step = "sealed"
        /\ next.open = device[d].open /\ next.keys = device[d].keys
        /\ next.vault = device[d].vault /\ next.seen = device[d].seen
        /\ next.held = device[d].held /\ next.pays = device[d].pays
        /\ next.due = device[d].due
    BY KitNow DEF Kit!Device, Kit!Steps
  <1>2. Kit!Becomes(d, next)
    OBVIOUS
  <1> HIDE DEF next
  <1>3. UNCHANGED <<made, named, released, restored, late, soft, strayed, raced>>
        /\ UNCHANGED <<files, cloud, uploaded>>
    BY DEF Kit!SealKit, Kit!payVars
  <1> QED BY <1>1, <1>2, <1>3, KitNow, KitAside

(* The kit is enrolled while the account is made.                          *)
LEMMA KitEnrollFirst ==
  ASSUME Kit!ConstantTypes, KitInv, NEW d \in Devices, Kit!EnrollKit(d) PROVE KitInv'
  <1> DEFINE next == [device[d] EXCEPT !.step = "enrolled"]
             content == [kind |-> "kit", version |-> 1]
  <1>1. next \in Kit!Device /\ next.step = "enrolled"
        /\ next.open = device[d].open /\ next.keys = device[d].keys
        /\ next.vault = device[d].vault /\ next.seen = device[d].seen
        /\ next.held = device[d].held /\ next.pays = device[d].pays
        /\ next.due = device[d].due
    BY KitNow DEF Kit!Device, Kit!Steps
  <1>2. content \in Kit!Content
    BY KitConstants DEF Kit!Content
  <1>3. Kit!Becomes(d, next) /\ (Kit!Provision(content) \/ UNCHANGED <<cloud, uploaded>>)
    BY DEF Kit!EnrollKit
  <1> HIDE DEF next, content
  <1>4. cloud' \in Kit!Content \union {None} /\ uploaded' \in Kit!Content \union {None}
        /\ cloud' = uploaded'
    BY <1>2, <1>3, KitNow DEF Kit!Provision
  <1>5. UNCHANGED <<made, named, files, released, restored, late, soft, strayed, raced>>
    BY DEF Kit!EnrollKit, Kit!payVars
  <1> QED BY <1>1, <1>3, <1>4, <1>5, KitNow, KitAside

(* The recovery file is downloaded.                                        *)
LEMMA KitDownload ==
  ASSUME Kit!ConstantTypes, KitInv, NEW d \in Devices, Kit!Download(d) PROVE KitInv'
  <1> DEFINE next == [device[d] EXCEPT !.step = "none"]
  <1>1. next \in Kit!Device /\ next.step = "none"
        /\ next.open = device[d].open /\ next.keys = device[d].keys
        /\ next.vault = device[d].vault /\ next.seen = device[d].seen
        /\ next.held = device[d].held /\ next.pays = device[d].pays
        /\ next.due = device[d].due
    BY KitNow DEF Kit!Device, Kit!Steps
  <1>2. Kit!Becomes(d, next) /\ files' \subseteq Kit!Version
    BY KitNow DEF Kit!Download
  <1> HIDE DEF next
  <1>3. UNCHANGED <<made, named, cloud, uploaded, released, restored, late, soft, strayed,
                    raced>>
    BY DEF Kit!Download, Kit!payVars
  <1> QED BY <1>1, <1>2, <1>3, KitNow, KitAside

(* A passkey is enrolled.                                                  *)
LEMMA KitPasskey ==
  ASSUME Kit!ConstantTypes, KitInv, NEW d \in Devices, Kit!EnrollPasskey(d) PROVE KitInv'
  <1> DEFINE next == [device[d] EXCEPT !.passkey = TRUE]
  <1>1. next \in Kit!Device /\ next.step = device[d].step
        /\ next.open = device[d].open /\ next.keys = device[d].keys
        /\ next.vault = device[d].vault /\ next.seen = device[d].seen
        /\ next.held = device[d].held /\ next.pays = device[d].pays
        /\ next.due = device[d].due
    BY KitNow DEF Kit!Device
  <1>2. Kit!Becomes(d, next)
    BY DEF Kit!EnrollPasskey
  <1> HIDE DEF next
  <1>3. UNCHANGED <<made, named, files, cloud, uploaded, released, restored, late, soft,
                    strayed, raced>>
    BY DEF Kit!EnrollPasskey, Kit!payVars
  <1>4. (raced \/ KitKeysOf(next)) /\ (next.step = "registered" => next.keys)
        /\ (next.due # 0 => next.pays # 0)
    BY <1>1, KitNow DEF KitKeysOf
  <1>5. restored = {} /\ ~strayed => KitQuiet(d, next)
    BY <1>1, <1>3, KitNow DEF KitQuiet, KitFits, KitActive
  <1> QED BY <1>1, <1>2, <1>3, <1>4, <1>5, KitNow, KitStep

(* Tabs that close, loads, and the end of an account on a device.          *)
LEMMA KitTabCloses ==
  ASSUME Kit!ConstantTypes, KitInv, NEW d \in Devices, Kit!TabCloses(d) PROVE KitInv'
  <1> DEFINE now == device[d]
             next == [now EXCEPT !.step = "none", !.seen = 0, !.held = 0,
                        !.pays = 0, !.due = 0,
                        !.open = now.open /\ d \in Durable,
                        !.keys = now.keys /\ d \in Durable]
  <1>1. next \in Kit!Device /\ next.step = "none"
        /\ next.open = (now.open /\ d \in Durable) /\ next.keys = (now.keys /\ d \in Durable)
        /\ next.vault = now.vault /\ next.seen = 0 /\ next.held = 0
        /\ next.pays = 0 /\ next.due = 0
    BY KitNow DEF Kit!Device, Kit!Steps
  <1>2. Kit!Becomes(d, next) /\ Kit!CutsShort(d)
        /\ UNCHANGED <<made, named, files, cloud, uploaded, released, restored, soft, raced>>
    BY DEF Kit!TabCloses
  <1> HIDE DEF next
  <1>3. raced \/ KitKeysOf(next)
    BY <1>1, KitNow DEF KitKeysOf
  <1>4. restored = {} /\ ~strayed' => KitQuiet(d, next)
    BY <1>1, <1>2, KitNow, KitCutsShort DEF KitQuiet, KitFits, KitActive
  <1> QED BY <1>1, <1>2, <1>3, <1>4, KitNow, KitCutsShort, KitStep

(* A vault begins to load.                                                 *)
LEMMA KitBeginLoad ==
  ASSUME Kit!ConstantTypes, KitInv, NEW d \in Devices, Kit!BeginLoad(d) PROVE KitInv'
  <1> DEFINE next == [device[d] EXCEPT !.seen = named, !.held = device[d].vault]
  <1>1. next \in Kit!Device /\ next.step = device[d].step
        /\ next.open = device[d].open /\ next.keys = device[d].keys
        /\ next.vault = device[d].vault /\ next.seen = named /\ next.held = device[d].vault
        /\ next.pays = device[d].pays /\ next.due = device[d].due
    BY KitNow DEF Kit!Device
  <1>2. /\ Kit!Becomes(d, next) /\ device[d].open
        /\ strayed' = (strayed \/ device[d].due # 0)
        /\ UNCHANGED <<made, named, files, late, cloud, uploaded, released, restored, soft,
                       raced>>
    BY DEF Kit!BeginLoad
  <1> HIDE DEF next
  <1>3. strayed' \in BOOLEAN /\ (strayed => strayed') /\ (~strayed' => device[d].due = 0)
    BY <1>2, KitNow
  <1>4. (raced \/ KitKeysOf(next)) /\ (next.step = "registered" => next.keys)
        /\ (next.due # 0 => next.pays # 0)
    BY <1>1, <1>2, KitNow DEF KitKeysOf
  <1>5. restored = {} /\ ~strayed' => KitQuiet(d, next)
    BY <1>1, <1>2, <1>3, KitNow DEF KitQuiet, KitFits, KitActive
  <1> QED BY <1>1, <1>2, <1>3, <1>4, <1>5, KitNow, KitStep

(* A vault has been loaded.                                                *)
LEMMA KitEndLoad ==
  ASSUME Kit!ConstantTypes, KitInv, NEW d \in Devices, Kit!EndLoad(d) PROVE KitInv'
  <1> DEFINE now == [device[d] EXCEPT !.seen = 0, !.held = 0]
             next == [now EXCEPT !.vault = device[d].held, !.open = TRUE]
  <1>1. now \in Kit!Device /\ now.step = device[d].step
        /\ now.open = device[d].open /\ now.keys = device[d].keys
        /\ now.vault = device[d].vault /\ now.seen = 0 /\ now.held = 0
        /\ now.pays = device[d].pays /\ now.due = device[d].due
    BY KitNow DEF Kit!Device
  <1>2. \/ /\ device[d].held # device[d].seen /\ named' = device[d].held
           /\ Kit!Becomes(d, next)
        \/ UNCHANGED named /\ Kit!Becomes(d, now)
    BY DEF Kit!EndLoad
  <1>0. device[d].seen # 0
        /\ UNCHANGED <<made, files, cloud, uploaded, released, restored, late, soft, strayed,
                       raced>>
    BY DEF Kit!EndLoad, Kit!Loading, Kit!payVars
  <1> HIDE DEF now
  <1>3. next \in Kit!Device /\ next.step = now.step
        /\ next.open /\ next.keys = now.keys
        /\ next.vault = device[d].held /\ next.seen = now.seen /\ next.held = now.held
        /\ next.pays = now.pays /\ next.due = now.due
    BY <1>1, KitNow DEF Kit!Device
  <1> HIDE DEF next
  <1>4. CASE UNCHANGED named /\ Kit!Becomes(d, now)
    <2>1. (raced \/ KitKeysOf(now)) /\ (now.step = "registered" => now.keys)
          /\ (now.due # 0 => now.pays # 0)
      BY <1>1, <1>4, KitNow DEF KitKeysOf
    <2>2. restored = {} /\ ~strayed => KitQuiet(d, now)
      BY <1>1, <1>4, KitNow DEF KitQuiet, KitFits, KitActive
    <2> QED BY <1>0, <1>1, <1>4, <2>1, <2>2, KitNow, KitStep
  <1>5. CASE /\ device[d].held # device[d].seen /\ named' = device[d].held
             /\ Kit!Becomes(d, next)
    <2>1. ~(restored = {} /\ ~strayed)
      BY <1>0, <1>5, KitNow DEF KitFits
    <2>2. (raced \/ KitKeysOf(next)) /\ (next.step = "registered" => next.keys)
          /\ (next.due # 0 => next.pays # 0)
      BY <1>0, <1>1, <1>3, KitNow DEF KitKeysOf
    <2> QED BY <1>0, <1>3, <1>5, <2>1, <2>2, KitNow, KitStep
  <1> QED BY <1>2, <1>4, <1>5

(* The owner signs out.                                                    *)
LEMMA KitSignOut ==
  ASSUME Kit!ConstantTypes, KitInv, NEW d \in Devices, Kit!SignOut(d) PROVE KitInv'
  <1> DEFINE next == Kit!Cleared(device[d])
  <1>1. next \in Kit!Device /\ next.step = device[d].step
        /\ ~next.open /\ next.seen = device[d].seen /\ next.held = device[d].held
        /\ next.pays = device[d].pays /\ next.due = device[d].due
    BY KitNow DEF Kit!Device, Kit!Cleared
  <1>2. /\ Kit!Becomes(d, next) /\ device[d].step = "none"
        /\ raced' = (raced \/ Kit!Loading(d) \/ Kit!Paying(d))
        /\ UNCHANGED <<made, named, files, late, soft, strayed, cloud, uploaded, released,
                       restored>>
    BY DEF Kit!SignOut, Kit!payVars
  <1> HIDE DEF next
  <1>3. raced' \in BOOLEAN /\ (raced => raced')
        /\ (~raced' => device[d].seen = 0 /\ device[d].pays = 0)
    BY <1>2, KitNow DEF Kit!Loading, Kit!Paying
  <1>4. (raced' \/ KitKeysOf(next)) /\ (next.due # 0 => next.pays # 0)
    BY <1>1, <1>2, <1>3, KitNow DEF KitKeysOf
  <1>5. restored = {} /\ ~strayed => KitQuiet(d, next)
    BY <1>1, <1>2, KitNow DEF KitQuiet, KitFits, KitActive
  <1> QED BY <1>1, <1>2, <1>3, <1>4, <1>5, KitNow, KitStep

(* A device is lost.                                                       *)
LEMMA KitLose ==
  ASSUME Kit!ConstantTypes, KitInv, NEW d \in Devices, Kit!Lose(d) PROVE KitInv'
  <1>1. Kit!Fresh \in Kit!Device
    BY KitConstants DEF Kit!Fresh, Kit!Device, Kit!Steps
  <1>2. /\ Kit!Fresh.step = "none" /\ ~Kit!Fresh.open /\ Kit!Fresh.seen = 0
        /\ Kit!Fresh.pays = 0 /\ Kit!Fresh.due = 0
    BY DEF Kit!Fresh
  <1>3. /\ Kit!Becomes(d, Kit!Fresh) /\ Kit!CutsShort(d)
        /\ UNCHANGED <<made, named, files, cloud, uploaded, released, restored, soft, raced>>
    BY DEF Kit!Lose
  <1>4. raced \/ KitKeysOf(Kit!Fresh)
    BY <1>2 DEF KitKeysOf
  <1>5. KitQuiet(d, Kit!Fresh)
    BY <1>2, <1>3 DEF KitQuiet, KitFits, KitActive
  <1> QED BY <1>1, <1>2, <1>3, <1>4, <1>5, KitNow, KitCutsShort, KitStep

(* The registration makes the first version, and the server one for each   *)
(* payment it takes, on the device that is active; there is no other.      *)
LEMMA KitMakes ==
  ASSUME Kit!ConstantTypes, KitInv, NEW d \in Devices, NEW next \in Kit!Device,
         Kit!Becomes(d, next), made' = made + 1, named' = made + 1, made' \in Kit!Version,
         KitKeysOf(next),
         restored = {} /\ ~strayed =>
           /\ \A e \in Devices \ {d} : ~KitActive(device[e])
           /\ next.step = "registered" => made = 0 /\ next.pays = 0
           /\ next.open => next.due # 0
           /\ next.due # 0 => next.due = made + 1
           /\ next.step = "registered" => ~next.open
           /\ next.seen # 0 => next.held = next.seen,
         UNCHANGED <<files, late, cloud, uploaded, released, restored, soft, strayed, raced>>
  PROVE  KitInv'
  <1>1. /\ device' \in [Devices -> Kit!Device] /\ device'[d] = next
        /\ \A e \in Devices \ {d} : device'[e] = device[e]
    BY KitBecomes DEF KitInv
  <1>2. Kit!TypeOK'
    BY <1>1 DEF KitInv, Kit!TypeOK
  <1>3. KitKeys'
    BY <1>1 DEF KitInv, KitKeys, KitKeysOf
  <1>4. KitNewest'
    <2> SUFFICES ASSUME restored = {}, ~strayed PROVE KitNewest'
      BY DEF KitNewest
    <2>0. made \in Nat /\ made' # 0
      BY KitNow DEF Kit!Version
    <2>1. \A e \in Devices \ {d} : ~KitActive(device'[e])
      BY <1>1
    <2>2. \A e \in Devices : KitActive(device[e])' => e = d
      BY <2>1 DEF KitActive
    <2>3. KitFits(device[d])'
      BY <1>1, <2>0 DEF KitFits, KitActive
    <2>4. ASSUME NEW e \in Devices \ {d} PROVE KitFits(device[e])'
      <3>1. KitFits(device[e]) /\ KitKeysOf(device[e]) /\ device'[e] = device[e]
        BY <1>1, KitNow
      <3>2. ~KitActive(device[e])
        OBVIOUS
      <3> QED BY <3>1, <3>2 DEF KitFits, KitActive, KitKeysOf
    <2> QED BY <2>2, <2>3, <2>4 DEF KitNewest
  <1> QED BY <1>2, <1>3, <1>4 DEF KitInv, KitRecordInv, Kit!ThresholdHolds

(* An account is registered.                                               *)
LEMMA KitRegister ==
  ASSUME Kit!ConstantTypes, KitInv, NEW d \in Devices, Kit!Register(d) PROVE KitInv'
  <1> DEFINE next == [device[d] EXCEPT !.step = "registered", !.keys = TRUE]
  <1>1. next \in Kit!Device /\ next.step = "registered"
        /\ next.open = device[d].open /\ next.keys
        /\ next.vault = device[d].vault /\ next.seen = device[d].seen
        /\ next.held = device[d].held /\ next.pays = device[d].pays
        /\ next.due = device[d].due
    BY KitNow DEF Kit!Device, Kit!Steps
  <1>2. Kit!Becomes(d, next) /\ made = 0 /\ made' = made + 1 /\ named' = made + 1
        /\ UNCHANGED <<files, late, cloud, uploaded, released, restored, soft, strayed, raced>>
    BY DEF Kit!Register, Kit!payVars
  <1> HIDE DEF next
  <1>3. made' \in Kit!Version
    BY <1>2, KitConstants
  <1>4. KitKeysOf(next)
    BY <1>1, KitNow DEF KitKeysOf
  <1>5. ASSUME restored = {}, ~strayed PROVE \A e \in Devices : ~KitActive(device[e])
    BY <1>2, <1>5 DEF KitInv, KitNewest, KitFits
  <1>6. ASSUME restored = {}, ~strayed
        PROVE  /\ \A e \in Devices \ {d} : ~KitActive(device[e])
               /\ next.pays = 0 /\ ~next.open /\ next.due = 0
               /\ next.seen # 0 => next.held = next.seen
    BY <1>1, <1>5, <1>6, KitNow DEF KitActive, KitFits, KitKeysOf
  <1> QED BY <1>1, <1>2, <1>3, <1>4, <1>6, KitMakes

(* A payment begins, on the vault of the device.                           *)
LEMMA KitBeginChange ==
  ASSUME Kit!ConstantTypes, KitInv, NEW d \in Devices, NEW high \in BOOLEAN,
         NEW asserted \in BOOLEAN, Kit!BeginChange(d, high, asserted)
  PROVE  KitInv'
  <1> DEFINE next == [device[d] EXCEPT !.pays = device[d].vault]
  <1>1. next \in Kit!Device /\ next.step = device[d].step
        /\ next.open = device[d].open /\ next.keys = device[d].keys
        /\ next.vault = device[d].vault /\ next.seen = device[d].seen
        /\ next.held = device[d].held /\ next.pays = device[d].vault
        /\ next.due = device[d].due
    BY KitNow DEF Kit!Device
  <1>2. /\ Kit!Becomes(d, next) /\ device[d].open /\ device[d].keys /\ device[d].pays = 0
        /\ UNCHANGED <<made, named, files, late, cloud, uploaded, released, restored, strayed,
                       raced>>
    BY DEF Kit!BeginChange, Kit!Paying
  <1> HIDE DEF next
  <1>3. soft = FALSE /\ soft' = soft
    BY DEF Kit!BeginChange, Kit!Passes, KitInv, KitRecordInv, Kit!TypeOK
  <1>4. device[d].due = 0
    BY <1>2, KitNow DEF KitKeysOf
  <1>5. KitKeysOf(next)
    BY <1>1, <1>2, <1>4, KitNow DEF KitKeysOf
  <1>6. restored = {} /\ ~strayed => KitQuiet(d, next)
    BY <1>1, <1>2, <1>4, KitNow DEF KitQuiet, KitFits, KitActive
  <1> QED BY <1>1, <1>2, <1>3, <1>4, <1>5, <1>6, KitNow, KitStep DEF KitKeysOf

(* The server takes a payment.                                             *)
LEMMA KitServerTakes ==
  ASSUME Kit!ConstantTypes, KitInv, NEW d \in Devices, Kit!ServerTakes(d) PROVE KitInv'
  <1> DEFINE next == [device[d] EXCEPT !.due = made + 1]
  <1>0. made + 1 \in Kit!Version /\ made \in Nat
    BY KitNow, KitConstants DEF Kit!Version, Kit!ServerTakes
  <1>1. next \in Kit!Device /\ next.step = device[d].step
        /\ next.open = device[d].open /\ next.keys = device[d].keys
        /\ next.vault = device[d].vault /\ next.seen = device[d].seen
        /\ next.held = device[d].held /\ next.pays = device[d].pays
        /\ next.due = made + 1
    BY <1>0, KitNow DEF Kit!Device
  <1>2. /\ Kit!Becomes(d, next) /\ device[d].pays # 0 /\ device[d].due = 0
        /\ made' = made + 1 /\ named' = made + 1
        /\ UNCHANGED <<files, late, cloud, uploaded, released, restored, soft, strayed, raced>>
    BY DEF Kit!ServerTakes, Kit!Paying, Kit!payVars
  <1> HIDE DEF next
  <1>3. KitKeysOf(next)
    BY <1>1, <1>2, KitNow DEF KitKeysOf
  <1>4. ASSUME restored = {}, ~strayed
        PROVE  /\ \A e \in Devices \ {d} : ~KitActive(device[e])
               /\ next.step # "registered" /\ next.due = made + 1 /\ next.due # 0
               /\ next.seen # 0 => next.held = next.seen
    <2>1. KitActive(device[d])
      BY <1>2 DEF KitActive
    <2>2. \A e \in Devices \ {d} : ~KitActive(device[e])
      BY <1>4, <2>1 DEF KitInv, KitNewest
    <2> QED BY <1>0, <1>1, <1>2, <1>4, <2>2, KitNow DEF KitFits
  <1> QED BY <1>0, <1>1, <1>2, <1>3, <1>4, KitMakes

(* The device saves the vault of its payment.                              *)
LEMMA KitSaveChange ==
  ASSUME Kit!ConstantTypes, KitInv, NEW d \in Devices, Kit!SaveChange(d) PROVE KitInv'
  <1> DEFINE next == [device[d] EXCEPT !.pays = 0, !.due = 0, !.open = TRUE,
                                       !.vault = device[d].due]
  <1>1. next \in Kit!Device /\ next.step = device[d].step
        /\ next.open /\ next.keys = device[d].keys
        /\ next.vault = device[d].due /\ next.seen = device[d].seen
        /\ next.held = device[d].held /\ next.pays = 0 /\ next.due = 0
    BY KitNow DEF Kit!Device
  <1>2. /\ Kit!Becomes(d, next) /\ device[d].due # 0
        /\ UNCHANGED <<made, named, files, late, cloud, uploaded, released, restored, soft,
                       strayed, raced>>
    BY DEF Kit!SaveChange, Kit!VaultSaved, Kit!payVars
  <1> HIDE DEF next
  <1>3. (raced \/ KitKeysOf(next)) /\ (next.step = "registered" => next.keys)
    BY <1>1, <1>2, KitNow DEF KitKeysOf
  <1>4. device[d].pays # 0
    BY <1>2, KitNow DEF KitKeysOf
  <1>5. restored = {} /\ ~strayed => KitQuiet(d, next)
    BY <1>1, <1>2, <1>4, KitNow DEF KitQuiet, KitFits, KitActive
  <1> QED BY <1>1, <1>2, <1>3, <1>5, KitNow, KitStep

(* The device gives a payment up.                                          *)
LEMMA KitGiveUp ==
  ASSUME Kit!ConstantTypes, KitInv, NEW d \in Devices, Kit!GiveUp(d) PROVE KitInv'
  <1> DEFINE next == [device[d] EXCEPT !.pays = 0, !.due = 0]
  <1>1. next \in Kit!Device /\ next.step = device[d].step
        /\ next.open = device[d].open /\ next.keys = device[d].keys
        /\ next.vault = device[d].vault /\ next.seen = device[d].seen
        /\ next.held = device[d].held /\ next.pays = 0 /\ next.due = 0
    BY KitNow DEF Kit!Device
  <1>2. /\ Kit!Becomes(d, next) /\ Kit!CutsShort(d)
        /\ UNCHANGED <<made, named, files, cloud, uploaded, released, restored, soft, raced>>
    BY DEF Kit!GiveUp
  <1> HIDE DEF next
  <1>3. (raced \/ KitKeysOf(next)) /\ (next.step = "registered" => next.keys)
    BY <1>1, KitNow DEF KitKeysOf
  <1>4. restored = {} /\ ~strayed' => KitQuiet(d, next)
    BY <1>1, <1>2, KitNow, KitCutsShort DEF KitQuiet, KitFits, KitActive
  <1> QED BY <1>1, <1>2, <1>3, <1>4, KitNow, KitCutsShort, KitStep

(* A payment that was given up is taken after all.                         *)
LEMMA KitLateTakes ==
  ASSUME Kit!ConstantTypes, KitInv, NEW v \in late, Kit!LateTakes(v) PROVE KitInv'
  <1>1. made + 1 \in Kit!Version
    BY KitConstants DEF Kit!Version, Kit!LateTakes, KitInv, Kit!TypeOK
  <1>2. /\ made' = made + 1 /\ named' = made + 1 /\ late' = late \ {v} /\ strayed' = TRUE
        /\ UNCHANGED <<device, files, cloud, uploaded, released, restored, soft, raced>>
    BY DEF Kit!LateTakes
  <1>3. Kit!TypeOK'
    BY <1>1, <1>2 DEF KitInv, Kit!TypeOK
  <1>4. KitKeys' /\ KitNewest'
    BY <1>2 DEF KitInv, KitKeys, KitKeysOf, KitNewest
  <1> QED BY <1>2, <1>3, <1>4 DEF KitInv, KitRecordInv, Kit!ThresholdHolds

(* What is enrolled again from the recovery screen.                        *)
LEMMA KitEnroll ==
  ASSUME Kit!ConstantTypes, KitInv, NEW d \in Devices, Kit!Enroll(d) PROVE KitInv'
  <1>1. device[d].vault \in Kit!Version /\ device[d].kit \in Kit!Version
    BY KitNow DEF Kit!Device
  <1>2. Kit!Backup(d) \in Kit!Content
    BY <1>1 DEF Kit!Backup, Kit!Enroll, Kit!Content
  <1>3. cloud' \in Kit!Content \union {None} /\ uploaded' \in Kit!Content \union {None}
        /\ cloud' = uploaded'
    BY <1>2 DEF Kit!Enroll, Kit!Provision
  <1>4. UNCHANGED <<made, named, device, files, late, released, restored, soft, strayed, raced>>
    BY DEF Kit!Enroll, Kit!payVars
  <1>5. Kit!TypeOK'
    BY <1>3, <1>4 DEF KitInv, Kit!TypeOK
  <1>6. KitKeys' /\ KitNewest'
    BY <1>4 DEF KitInv, KitKeys, KitKeysOf, KitNewest, KitFits, KitActive
  <1> QED BY <1>3, <1>4, <1>5, <1>6 DEF KitInv, KitRecordInv, Kit!ThresholdHolds

(* A restore brings vault and keys together, and is the first or not the   *)
(* first: nothing is claimed of the newest version after it.               *)
LEMMA KitRestore ==
  ASSUME Kit!ConstantTypes, KitInv, NEW d \in Devices, NEW v \in Kit!Version,
         device[d].step = "none", Kit!RestoreOn(d, v),
         released' \subseteq 0..Kit!Cardinality(Holders),
         \A n \in released' : n >= Threshold
  PROVE  KitInv'
  <1> DEFINE next == [device[d] EXCEPT !.keys = TRUE, !.vault = v, !.open = TRUE, !.kit = v]
  <1>1. next \in Kit!Device /\ next.step = device[d].step /\ next.open /\ next.keys
        /\ next.pays = device[d].pays /\ next.due = device[d].due
    BY KitNow DEF Kit!Device
  <1>2. Kit!Becomes(d, next) /\ restored' # {}
    BY DEF Kit!RestoreOn
  <1> HIDE DEF next
  <1>3. /\ device' \in [Devices -> Kit!Device] /\ device'[d] = next
        /\ \A e \in Devices \ {d} : device'[e] = device[e]
    BY <1>1, <1>2, KitBecomes DEF KitInv
  <1>4. restored' \subseteq BOOLEAN
    <2>1. restored \subseteq BOOLEAN /\ restored' = restored \union {v = named}
      BY DEF Kit!RestoreOn, KitInv, Kit!TypeOK
    <2>2. (v = named) \in BOOLEAN
      OBVIOUS
    <2> QED BY <2>1, <2>2
  <1>5. UNCHANGED <<made, named, files, late, cloud, uploaded, soft, strayed, raced>>
    BY DEF Kit!RestoreOn, Kit!payVars
  <1>6. Kit!TypeOK'
    BY <1>3, <1>4, <1>5 DEF KitInv, Kit!TypeOK
  <1>7. KitKeys'
    BY <1>1, <1>3, <1>5 DEF KitKeys, KitKeysOf, KitInv
  <1>8. KitNewest'
    BY <1>2 DEF KitNewest
  <1> QED BY <1>5, <1>6, <1>7, <1>8 DEF KitInv, KitRecordInv, Kit!ThresholdHolds

(* A vault is restored from a recovery file.                               *)
LEMMA KitRestoreFile ==
  ASSUME Kit!ConstantTypes, KitInv, NEW d \in Devices, NEW v \in Kit!Version,
         Kit!RestoreFile(d, v)
  PROVE  KitInv'
  <1>1. /\ released' \subseteq 0..Kit!Cardinality(Holders)
        /\ \A n \in released' : n >= Threshold
    BY DEF Kit!RestoreFile, KitInv, Kit!TypeOK, KitRecordInv, Kit!ThresholdHolds
  <1> QED BY <1>1, KitRestore DEF Kit!RestoreFile

(* The holders that open the record are holders, and enough of them.       *)
LEMMA KitRestoreCloud ==
  ASSUME Kit!ConstantTypes, KitInv, NEW d \in Devices, NEW wanted, Kit!RestoreCloud(d, wanted)
  PROVE  KitInv'
  <1> DEFINE n == Kit!Cardinality(Kit!Selected(wanted))
  <1>1. n \in 0..Kit!Cardinality(Holders)
    <2>1. Kit!Selected(wanted) \subseteq Holders
      BY DEF Kit!Selected
    <2>2. IsFiniteSet(Holders)
      BY KitConstants
    <2>3. /\ Cardinality(Kit!Selected(wanted)) \in Nat /\ Cardinality(Holders) \in Nat
          /\ Cardinality(Kit!Selected(wanted)) <= Cardinality(Holders)
      BY <2>1, <2>2, FS_Subset, FS_CardinalityType
    <2> QED BY <2>3, KitSets
  <1>2. cloud \in Kit!Content /\ n >= Threshold /\ device[d].step = "none"
    BY KitNow DEF Kit!RestoreCloud, Kit!MayRelease
  <1>3. released' = released \union {n}
    BY DEF Kit!RestoreCloud
  <1> HIDE DEF n
  <1>4. /\ released' \subseteq 0..Kit!Cardinality(Holders)
        /\ \A m \in released' : m >= Threshold
    BY <1>1, <1>2, <1>3 DEF KitInv, Kit!TypeOK, KitRecordInv, Kit!ThresholdHolds
  <1>5. CASE cloud.kind = "kit"
    <2>1. cloud.version \in Kit!Version
      BY <1>2 DEF Kit!Content
    <2>2. Kit!RestoreOn(d, cloud.version)
      BY <1>5 DEF Kit!RestoreCloud
    <2> QED BY <1>2, <1>4, <2>1, <2>2, KitRestore
  <1>6. CASE cloud.kind # "kit"
    <2>1. UNCHANGED <<made, named, device, files, late, cloud, uploaded, restored, soft, strayed,
                      raced>>
      BY <1>6 DEF Kit!RestoreCloud, Kit!payVars
    <2>2. Kit!TypeOK'
      BY <1>4, <2>1 DEF KitInv, Kit!TypeOK
    <2>3. KitKeys' /\ KitNewest'
      BY <2>1 DEF KitInv, KitKeys, KitKeysOf, KitNewest, KitFits, KitActive
    <2> QED BY <1>4, <2>1, <2>2, <2>3 DEF KitInv, KitRecordInv, Kit!ThresholdHolds
  <1> QED BY <1>5, <1>6

(* The invariant of recovery holds at first and in every step.             *)
LEMMA KitInductive ==
  ASSUME Kit!ConstantTypes
  PROVE  /\ Kit!Init => KitInv
         /\ KitInv /\ [Kit!Next]_(Kit!vars) => KitInv'
  <1>1. ASSUME Kit!Init PROVE KitInv
    <2>1. Kit!Fresh \in Kit!Device
      BY KitConstants DEF Kit!Fresh, Kit!Device, Kit!Steps
    <2>2. device \in [Devices -> Kit!Device]
          /\ \A d \in Devices : /\ device[d].step = "none" /\ ~device[d].open
                                /\ device[d].seen = 0 /\ device[d].pays = 0
                                /\ device[d].due = 0
      BY <1>1, <2>1 DEF Kit!Init, Kit!Fresh
    <2>3. Kit!TypeOK
      BY <1>1, <2>2, KitConstants DEF Kit!Init, Kit!TypeOK
    <2>4. KitKeys /\ KitNewest
      BY <1>1, <2>2 DEF Kit!Init, KitKeys, KitKeysOf, KitNewest, KitFits, KitActive
    <2> QED BY <1>1, <2>3, <2>4 DEF Kit!Init, KitInv, KitRecordInv, Kit!ThresholdHolds
  <1>2. ASSUME KitInv, [Kit!Next]_(Kit!vars) PROVE KitInv'
    <2>1. CASE UNCHANGED Kit!vars
      <3>1. Kit!TypeOK'
        BY <1>2, <2>1 DEF Kit!vars, KitInv, Kit!TypeOK
      <3>2. KitKeys' /\ KitNewest'
        BY <1>2, <2>1
           DEF Kit!vars, KitInv, KitKeys, KitKeysOf, KitNewest, KitFits, KitActive
      <3> QED BY <1>2, <2>1, <3>1, <3>2 DEF Kit!vars, KitInv, KitRecordInv, Kit!ThresholdHolds
    <2>2. ASSUME NEW d \in Devices, NEW high \in BOOLEAN, NEW asserted \in BOOLEAN,
                 Kit!BeginChange(d, high, asserted)
          PROVE  KitInv'
      BY <1>2, <2>2, KitBeginChange
    <2>3. ASSUME NEW d \in Devices, NEW v \in Kit!Version, Kit!RestoreFile(d, v) PROVE KitInv'
      BY <1>2, <2>3, KitRestoreFile
    <2>4. ASSUME NEW d \in Devices, NEW wanted, Kit!RestoreCloud(d, wanted) PROVE KitInv'
      BY <1>2, <2>4, KitRestoreCloud
    <2>5. ASSUME NEW d \in Devices,
                 \/ Kit!Generate(d) \/ Kit!Register(d) \/ Kit!SaveFirst(d) \/ Kit!SealKit(d)
                 \/ Kit!EnrollKit(d) \/ Kit!Download(d)
          PROVE  KitInv'
      BY <1>2, <2>5, KitGenerate, KitRegister, KitSaveFirst, KitSeal, KitEnrollFirst, KitDownload
    <2>6. ASSUME NEW d \in Devices,
                 \/ Kit!TabCloses(d) \/ Kit!BeginLoad(d) \/ Kit!EndLoad(d) \/ Kit!EnrollPasskey(d)
                 \/ Kit!Enroll(d) \/ Kit!SignOut(d) \/ Kit!Lose(d)
          PROVE  KitInv'
      BY <1>2, <2>6, KitTabCloses, KitBeginLoad, KitEndLoad, KitPasskey, KitEnroll, KitSignOut,
         KitLose
    <2>7. ASSUME NEW d \in Devices, Kit!ServerTakes(d) \/ Kit!SaveChange(d) \/ Kit!GiveUp(d)
          PROVE  KitInv'
      BY <1>2, <2>7, KitServerTakes, KitSaveChange, KitGiveUp
    <2>8. ASSUME NEW v \in late, Kit!LateTakes(v) PROVE KitInv'
      BY <1>2, <2>8, KitLateTakes
    <2> QED BY <1>2, <2>1, <2>2, <2>3, <2>4, <2>5, <2>6, <2>7, <2>8 DEF Kit!Next
  <1> QED BY <1>1, <1>2

(* A vault opens with the keys of its device unless a sign-out overtook a  *)
(* load or a payment; until the first restore the server names the newest  *)
(* vault, unless a payment it took was not saved on its device before      *)
(* anything else looked at the vault there; the record is released to no   *)
(* fewer holders than the threshold and is what was enrolled last, and a   *)
(* high-value payment has asserted a passkey (recovery.ts, vault.ts).      *)
THEOREM VaultsRecover == ASSUME Kit!ConstantTypes PROVE Kit!Spec => []Kit!RecoveryHolds
  <1>1. KitInv => Kit!RecoveryHolds
    BY DEF KitInv, KitKeys, KitKeysOf, KitNewest, KitRecordInv, Kit!RecoveryHolds,
           Kit!OpensWithKeys, Kit!NamesTheNewest
  <1> QED BY <1>1, KitInductive, PTL DEF Kit!Spec

-----------------------------------------------------------------------------
(* Disputes.                                                               *)

(* The finite sets of disputes are those of FiniteSetTheorems.             *)
LEMMA DisputeSets ==
  /\ \A S : Dispute!IsFiniteSet(S) <=> IsFiniteSet(S)
  /\ \A S : Dispute!Cardinality(S) = Cardinality(S)
  BY DEF Dispute!IsFiniteSet, IsFiniteSet, Dispute!Cardinality, Cardinality

(* The constants of disputes, for the steps that need them.                *)
LEMMA DisputeConstants ==
  ASSUME Dispute!ConstantTypes
  PROVE  /\ IsFiniteSet(Payments) /\ Opening \in Nat /\ MaxSeals \in Nat
         /\ None \notin Payments /\ None \notin Dispute!Statuses
  BY DisputeSets DEF Dispute!ConstantTypes

(* The payments of a vault with one of the statuses are a number.          *)
LEMMA DisputeWith ==
  ASSUME Dispute!ConstantTypes, NEW v, NEW S
  PROVE  Dispute!With(v, S) \in Nat
  <1>1. {p \in Payments : v.status[p] \in S} \subseteq Payments
    OBVIOUS
  <1>2. Cardinality({p \in Payments : v.status[p] \in S}) \in Nat
    BY <1>1, DisputeConstants, FS_Subset, FS_CardinalityType
  <1> QED BY <1>2, DisputeSets DEF Dispute!With

(* The vault with another status of one payment.                           *)
Marks == {"settled", "disputed", "refunded"}

(* The three statuses of a payment are marks.                              *)
LEMMA MarksAre == "settled" \in Marks /\ "disputed" \in Marks /\ "refunded" \in Marks
  BY DEF Marks
Marked(v, p, s) == [v EXCEPT !.status[p] = s]

(* Marking a payment changes its status and nothing else of the vault.     *)
LEMMA MarkedVault ==
  ASSUME NEW v \in Dispute!Vault, NEW p \in Payments,
         NEW s \in Marks
  PROVE  /\ Marked(v, p, s) \in Dispute!Vault
         /\ Marked(v, p, s).balance = v.balance /\ Marked(v, p, s).opening = v.opening
         /\ Marked(v, p, s).status[p] = s
         /\ \A q \in Payments \ {p} : Marked(v, p, s).status[q] = v.status[q]
  <1>1. v.status \in [Payments -> Marks]
    BY DEF Dispute!Vault, Marks
  <1>2. Marked(v, p, s) = [v EXCEPT !.status = [v.status EXCEPT ![p] = s]]
    BY DEF Marked
  <1> DEFINE st == [v.status EXCEPT ![p] = s]
  <1>3. /\ st \in [Payments -> Marks] /\ st[p] = s
        /\ \A q \in Payments \ {p} : st[q] = v.status[q]
    BY <1>1
  <1>4. Marked(v, p, s) = [v EXCEPT !.status = st]
    BY <1>2
  <1> HIDE DEF st
  <1>5. /\ Marked(v, p, s) \in Dispute!Vault /\ Marked(v, p, s).status = st
        /\ Marked(v, p, s).balance = v.balance /\ Marked(v, p, s).opening = v.opening
    BY <1>3, <1>4 DEF Dispute!Vault, Marks
  <1> QED BY <1>3, <1>5

(* One payment more has a status of S; or as many as before.               *)
LEMMA MarkedCount ==
  ASSUME Dispute!ConstantTypes, NEW v \in Dispute!Vault, NEW p \in Payments,
         NEW s \in Marks, NEW S
  PROVE  /\ v.status[p] \notin S /\ s \in S =>
              Dispute!With(Marked(v, p, s), S) = Dispute!With(v, S) + 1
         /\ (v.status[p] \in S <=> s \in S) =>
              Dispute!With(Marked(v, p, s), S) = Dispute!With(v, S)
  <1> DEFINE old == {q \in Payments : v.status[q] \in S}
             new == {q \in Payments : Marked(v, p, s).status[q] \in S}
  <1>1. IsFiniteSet(old)
    BY DisputeConstants, FS_Subset
  <1>0. /\ Marked(v, p, s).status[p] = s
        /\ \A q \in Payments \ {p} : Marked(v, p, s).status[q] = v.status[q]
    BY MarkedVault
  <1>2. ASSUME v.status[p] \notin S, s \in S PROVE new = old \union {p} /\ p \notin old
    BY <1>0, <1>2
  <1>3. ASSUME v.status[p] \in S <=> s \in S PROVE new = old
    BY <1>0, <1>3
  <1>4. /\ Dispute!With(v, S) = Cardinality(old)
        /\ Dispute!With(Marked(v, p, s), S) = Cardinality(new)
    BY DisputeSets DEF Dispute!With
  <1> HIDE DEF old, new
  <1>5. ASSUME new = old \union {p}, p \notin old PROVE Cardinality(new) = Cardinality(old) + 1
    BY <1>1, <1>5, FS_AddElement
  <1> QED BY <1>2, <1>3, <1>4, <1>5

(* How far a balance is inside what its history allows.                    *)
Above(v, n) == v.balance - Opening >= Dispute!With(v, {"refunded"}) + n
Below(v, n) == v.balance - Opening + n <= Dispute!With(v, {"refunded", "disputed"})
Fits(v) == Above(v, 0) /\ Below(v, 0)

(* The two bounds together are the property of the balance.                *)
LEMMA FitsIsFitting ==
  ASSUME Dispute!ConstantTypes, NEW v \in Dispute!Vault
  PROVE  Dispute!BalanceFitsHistory(v) <=> Fits(v)
  <1>1. v.balance \in Nat /\ Opening \in Nat
    BY DisputeConstants DEF Dispute!Vault
  <1> QED BY <1>1, DisputeWith DEF Dispute!BalanceFitsHistory, Fits, Above, Below

(* A number that fits with one to spare fits.                              *)
LEMMA BelowLess ==
  ASSUME Dispute!ConstantTypes, NEW v \in Dispute!Vault, Below(v, 1)
  PROVE  Below(v, 0)
  <1>1. v.balance \in Nat /\ Opening \in Nat
    BY DisputeConstants DEF Dispute!Vault
  <1> QED BY <1>1, DisputeWith DEF Below

(* A balance above with one to spare is above.                             *)
LEMMA AboveLess ==
  ASSUME Dispute!ConstantTypes, NEW v \in Dispute!Vault, Above(v, 1)
  PROVE  Above(v, 0)
  <1>1. v.balance \in Nat /\ Opening \in Nat
    BY DisputeConstants DEF Dispute!Vault
  <1> QED BY <1>1, DisputeWith DEF Above

(* What a vault may say while its payment goes from settled to refunded.   *)
LEMMA DisputedFits ==
  ASSUME Dispute!ConstantTypes, NEW v \in Dispute!Vault, NEW p \in Payments,
         v.status[p] = "settled", Fits(v)
  PROVE  Above(Marked(v, p, "disputed"), 0) /\ Below(Marked(v, p, "disputed"), 1)
  <1>1. v.balance \in Nat /\ Opening \in Nat
    BY DisputeConstants DEF Dispute!Vault
  <1>2. Dispute!With(Marked(v, p, "disputed"), {"refunded"}) = Dispute!With(v, {"refunded"})
    BY MarksAre, MarkedCount
  <1>3. Dispute!With(Marked(v, p, "disputed"), {"refunded", "disputed"})
          = Dispute!With(v, {"refunded", "disputed"}) + 1
    BY MarksAre, MarkedCount
  <1>4. Marked(v, p, "disputed").balance = v.balance
    BY MarksAre, MarkedVault
  <1> QED BY <1>1, <1>2, <1>3, <1>4, DisputeWith DEF Fits, Above, Below

(* The refunded payment is counted, so nothing is to spare.                *)
LEMMA RefundedFits ==
  ASSUME Dispute!ConstantTypes, NEW v \in Dispute!Vault, NEW p \in Payments,
         v.status[p] = "disputed", Above(v, 1), Below(v, 0)
  PROVE  Fits(Marked(v, p, "refunded"))
  <1>1. v.balance \in Nat /\ Opening \in Nat
    BY DisputeConstants DEF Dispute!Vault
  <1>2. Dispute!With(Marked(v, p, "refunded"), {"refunded"}) = Dispute!With(v, {"refunded"}) + 1
    BY MarksAre, MarkedCount
  <1>3. Dispute!With(Marked(v, p, "refunded"), {"refunded", "disputed"})
          = Dispute!With(v, {"refunded", "disputed"})
    BY MarksAre, MarkedCount
  <1>4. Marked(v, p, "refunded").balance = v.balance
    BY MarksAre, MarkedVault
  <1> QED BY <1>1, <1>2, <1>3, <1>4, DisputeWith DEF Fits, Above, Below

(* The reseal adds the payment to the balance.                             *)
Resealed(v, n) == [v EXCEPT !.balance = v.balance + 1, !.opening = n]

(* With the payment added, the balance is above with one to spare and      *)
(* below with none.                                                        *)
LEMMA ResealedFits ==
  ASSUME Dispute!ConstantTypes, NEW v \in Dispute!Vault, NEW n \in 0..MaxSeals,
         Above(v, 0), Below(v, 1)
  PROVE  /\ Resealed(v, n) \in Dispute!Vault /\ Resealed(v, n).status = v.status
         /\ Above(Resealed(v, n), 1) /\ Below(Resealed(v, n), 0)
  <1>1. v.balance \in Nat /\ Opening \in Nat
    BY DisputeConstants DEF Dispute!Vault
  <1>2. /\ Resealed(v, n) \in Dispute!Vault /\ Resealed(v, n).status = v.status
        /\ Resealed(v, n).balance = v.balance + 1
    <2> DEFINE b == v.balance + 1
    <2>1. b \in Nat
      BY <1>1
    <2> HIDE DEF b
    <2>2. [v EXCEPT !.balance = b, !.opening = n] \in Dispute!Vault
      BY <2>1 DEF Dispute!Vault
    <2>3. /\ [v EXCEPT !.balance = b, !.opening = n].status = v.status
          /\ [v EXCEPT !.balance = b, !.opening = n].balance = b
      BY DEF Dispute!Vault
    <2> QED BY <2>2, <2>3 DEF Resealed, b
  <1>3. \A S : Dispute!With(Resealed(v, n), S) = Dispute!With(v, S)
    BY <1>2 DEF Dispute!With
  <1> QED BY <1>1, <1>2, <1>3, DisputeWith DEF Above, Below

(* Where a handler is, its vault is in step with that.                     *)
FlowFits(f) ==
  /\ f.at # "idle" => f.p \in Payments
  /\ f.at \in {"opening", "marking"} => f.held.status[f.p] = "settled" /\ Fits(f.held)
  /\ f.at \in {"aligning", "resealing"} =>
       f.held.status[f.p] = "disputed" /\ Above(f.held, 0) /\ Below(f.held, 1)
  /\ f.at \in {"crediting", "recording"} =>
       f.held.status[f.p] = "disputed" /\ Above(f.held, 1) /\ Below(f.held, 0)
  /\ f.at = "advancing" => Fits(f.held)

(* Every copy of the vault there is names only payments that were disputed *)
(* at the server, and the two that are shown or kept fit their history.    *)
DisputeInv ==
  /\ Dispute!TypeOK
  /\ Fits(vault) /\ Dispute!RefundWasDisputed(vault)
  /\ Fits(shown) /\ Dispute!RefundWasDisputed(shown)
  /\ \A c \in Clicks :
       /\ FlowFits(flow[c]) /\ Dispute!RefundWasDisputed(flow[c].held)
       /\ flow[c].at = "marking" => dispute[c] # None

(* A payment's click stays its click, and its dispute stays at the server. *)
DisputesStay ==
  \A c \in Clicks : /\ flow[c].p \in Payments => flow'[c].p = flow[c].p
                    /\ dispute[c] # None => dispute'[c] # None

Refunds(v) ==
  \A p \in Payments : v.status[p] # "settled" =>
    \E c \in Clicks : flow'[c].p = p /\ dispute'[c] # None

(* Refunds is RefundWasDisputed of the next state.                         *)
LEMMA RefundsAre ==
  /\ Dispute!RefundWasDisputed(vault)' <=> Refunds(vault')
  /\ Dispute!RefundWasDisputed(shown)' <=> Refunds(shown')
  /\ \A c : Dispute!RefundWasDisputed(flow[c].held)' <=> Refunds(flow'[c].held)
  BY DEF Refunds, Dispute!RefundWasDisputed

(* What was disputed stays so while disputes and payments stay.            *)
LEMMA RefundsStay ==
  ASSUME DisputesStay
  PROVE \A v : Dispute!RefundWasDisputed(v) => Refunds(v)
  BY DEF DisputesStay, Dispute!RefundWasDisputed, Refunds

(* A vault may mark a payment that a click disputes.                       *)
LEMMA RefundsMarked ==
  ASSUME NEW v \in Dispute!Vault, NEW p \in Payments, NEW s \in Marks, Refunds(v),
         NEW c \in Clicks, flow'[c].p = p, dispute'[c] # None
  PROVE  Refunds(Marked(v, p, s))
  <1>1. \A q \in Payments \ {p} : Marked(v, p, s).status[q] = v.status[q]
    BY MarkedVault
  <1> QED BY <1>1 DEF Refunds

Flow == [at : Dispute!Stages, p : Payments \union {None}, held : Dispute!Vault]

(* A step of one click.                                                    *)
LEMMA DisputeStep ==
  ASSUME Dispute!ConstantTypes, DisputeInv, NEW c \in Clicks, DisputesStay,
         NEW f \in Flow, flow' = [flow EXCEPT ![c] = f],
         FlowFits(f), Refunds(f.held), f.at = "marking" => dispute'[c] # None,
         vault' \in Dispute!Vault, Fits(vault'), Refunds(vault'),
         shown' \in Dispute!Vault, Fits(shown'), Refunds(shown'),
         tip' \in Nat \X (0..MaxSeals), seals' \in 0..MaxSeals,
         dispute' \in [Clicks -> Dispute!Statuses \union {None}],
         \A d \in Clicks \ {c} : dispute[d] # None => dispute'[d] # None
  PROVE  DisputeInv'
  <1>1. flow \in [Clicks -> Flow]
    BY DEF DisputeInv, Dispute!TypeOK, Flow
  <1>2. /\ flow' \in [Clicks -> Flow] /\ flow'[c] = f
        /\ \A d \in Clicks \ {c} : flow'[d] = flow[d]
    BY <1>1
  <1>3. Dispute!TypeOK'
    BY <1>2 DEF Dispute!TypeOK, Flow
  <1>4. ASSUME NEW d \in Clicks
        PROVE  /\ FlowFits(flow'[d]) /\ Refunds(flow'[d].held)
               /\ flow'[d].at = "marking" => dispute'[d] # None
    <2>1. CASE d = c
      BY <1>2, <2>1
    <2>2. CASE d # c
      BY <1>2, <2>2, RefundsStay DEF DisputeInv
    <2> QED BY <2>1, <2>2
  <1>5. \A d \in Clicks : FlowFits(flow[d])'
    BY <1>4 DEF FlowFits, Fits, Above, Below, Dispute!With
  <1>6. Fits(vault)' /\ Fits(shown)'
    BY DEF Fits, Above, Below, Dispute!With
  <1> QED BY <1>3, <1>4, <1>5, <1>6, RefundsAre DEF DisputeInv

(* A handler goes on with the vault v; or with the one it has.             *)
FlowTo(f, at, v) == [f EXCEPT !.at = at, !.held = v]
FlowAt(f, at) == [f EXCEPT !.at = at]

(* A handler's record after it goes on.                                    *)
LEMMA FlowRecords ==
  ASSUME NEW f \in Flow, NEW at \in Dispute!Stages, NEW v \in Dispute!Vault
  PROVE  /\ FlowTo(f, at, v) \in Flow /\ FlowTo(f, at, v).at = at
         /\ FlowTo(f, at, v).p = f.p /\ FlowTo(f, at, v).held = v
         /\ FlowAt(f, at) \in Flow /\ FlowAt(f, at).at = at
         /\ FlowAt(f, at).p = f.p /\ FlowAt(f, at).held = f.held
  <1>1. FlowTo(f, at, v) \in Flow /\ FlowAt(f, at) \in Flow
    BY DEF FlowTo, FlowAt, Flow
  <1>2. /\ FlowTo(f, at, v).at = at /\ FlowTo(f, at, v).p = f.p /\ FlowTo(f, at, v).held = v
        /\ FlowAt(f, at).at = at /\ FlowAt(f, at).p = f.p /\ FlowAt(f, at).held = f.held
    BY DEF FlowTo, FlowAt, Flow
  <1> QED BY <1>1, <1>2

(* What a step may rely on.                                                *)
LEMMA DisputeNow ==
  ASSUME Dispute!ConstantTypes, DisputeInv, NEW c \in Clicks
  PROVE  /\ flow[c] \in Flow /\ flow[c].held \in Dispute!Vault /\ FlowFits(flow[c])
         /\ vault \in Dispute!Vault /\ shown \in Dispute!Vault
         /\ Fits(vault) /\ Fits(shown)
         /\ tip \in Nat \X (0..MaxSeals) /\ seals \in 0..MaxSeals
         /\ dispute \in [Clicks -> Dispute!Statuses \union {None}]
         /\ flow[c].at # "idle" => flow[c].p \in Payments
  <1>1. flow[c] \in Flow /\ FlowFits(flow[c])
    BY DEF DisputeInv, Dispute!TypeOK, Flow
  <1>2. flow[c].held \in Dispute!Vault
    BY <1>1 DEF Flow
  <1> QED BY <1>1, <1>2 DEF DisputeInv, Dispute!TypeOK, FlowFits

(* The commitment of a vault is one the server takes.                      *)
LEMMA CommitmentType ==
  ASSUME NEW v \in Dispute!Vault PROVE Dispute!Commitment(v) \in Nat \X (0..MaxSeals)
  BY DEF Dispute!Vault, Dispute!Commitment

(* A step of a click that leaves its payment and the disputes stays true   *)
(* to them.                                                                *)
LEMMA DisputesAreKept ==
  ASSUME DisputeInv, NEW c \in Clicks, NEW f, flow' = [flow EXCEPT ![c] = f],
         flow[c].p \in Payments => f.p = flow[c].p,
         dispute[c] # None => dispute'[c] # None,
         \A d \in Clicks \ {c} : dispute[d] # None => dispute'[d] # None
  PROVE  DisputesStay
  <1>1. flow'[c] = f /\ \A d \in Clicks \ {c} : flow'[d] = flow[d]
    BY DEF DisputeInv, Dispute!TypeOK
  <1> QED BY <1>1 DEF DisputesStay

(* A click takes the shown vault, where its payment is settled.            *)
LEMMA DisputeClick ==
  ASSUME Dispute!ConstantTypes, DisputeInv, NEW c \in Clicks, NEW p \in Payments,
         Dispute!Click(c, p)
  PROVE  DisputeInv'
  <1> DEFINE f == [at |-> "opening", p |-> p, held |-> shown]
  <1>1. f \in Flow /\ f.at = "opening" /\ f.p = p /\ f.held = shown
    BY DisputeNow DEF Flow, Dispute!Stages
  <1>2. flow' = [flow EXCEPT ![c] = f] /\ flow[c].p = None /\ shown.status[p] = "settled"
    BY DEF Dispute!Click, Dispute!Offered
  <1> HIDE DEF f
  <1>3. UNCHANGED <<vault, shown, tip, seals, dispute>>
    BY DEF Dispute!Click
  <1>4. DisputesStay
    BY <1>2, <1>3, DisputesAreKept, DisputeConstants
  <1>5. Refunds(vault) /\ Refunds(shown)
    BY <1>4, RefundsStay DEF DisputeInv
  <1>6. FlowFits(f)
    BY <1>1, <1>2, DisputeNow DEF FlowFits
  <1> QED BY <1>1, <1>2, <1>3, <1>4, <1>5, <1>6, DisputeNow, DisputeStep

(* A handler stops, or is at a place where its vault fits: its vault is    *)
(* the one it had.                                                         *)
LEMMA DisputeMoves ==
  ASSUME Dispute!ConstantTypes, DisputeInv, NEW c \in Clicks, NEW at \in Dispute!Stages,
         flow' = [flow EXCEPT ![c].at = at], flow[c].at # "idle",
         \/ at = "idle"
         \/ /\ at = "marking" /\ flow[c].at = "opening"
            /\ dispute'[c] # None,
         UNCHANGED <<vault, tip, seals>>, shown' \in {shown, flow[c].held},
         Fits(shown'),
         dispute' \in [Clicks -> Dispute!Statuses \union {None}],
         \A d \in Clicks : dispute[d] # None => dispute'[d] # None
  PROVE  DisputeInv'
  <1> DEFINE f == FlowAt(flow[c], at)
  <1>0. flow[c] \in Flow /\ flow[c].held \in Dispute!Vault /\ flow[c].p \in Payments
    BY DisputeNow
  <1>1. f \in Flow /\ f.at = at /\ f.p = flow[c].p /\ f.held = flow[c].held
    BY <1>0, FlowRecords
  <1>2. flow' = [flow EXCEPT ![c] = f]
    BY DEF FlowAt
  <1> HIDE DEF f
  <1>3. DisputesStay
    <2>1. \A d \in Clicks \ {c} : dispute[d] # None => dispute'[d] # None
      OBVIOUS
    <2> QED BY <1>1, <1>2, <2>1, DisputesAreKept
  <1>4. Refunds(vault) /\ Refunds(shown) /\ Refunds(f.held)
    BY <1>1, <1>3, RefundsStay DEF DisputeInv
  <1>5. FlowFits(f)
    BY <1>0, <1>1, DisputeNow DEF FlowFits
  <1>6. shown' \in Dispute!Vault /\ Refunds(shown')
    BY <1>0, <1>1, <1>4, DisputeNow
  <1> QED BY <1>1, <1>2, <1>3, <1>4, <1>5, <1>6, DisputeNow, DisputeStep

(* The dispute is at the server before its answer lets the handler go on.  *)
LEMMA DisputeOpen ==
  ASSUME Dispute!ConstantTypes, DisputeInv, NEW c \in Clicks, NEW answered \in BOOLEAN,
         Dispute!Open(c, answered)
  PROVE  DisputeInv'
  <1>1. /\ dispute' = [dispute EXCEPT ![c] = "opened"] /\ flow[c].at = "opening"
        /\ flow' = [flow EXCEPT ![c].at = IF answered THEN "marking" ELSE "idle"]
        /\ UNCHANGED <<vault, shown, tip, seals>>
    BY DEF Dispute!Open, Dispute!At
  <1>2. /\ dispute' \in [Clicks -> Dispute!Statuses \union {None}] /\ dispute'[c] # None
        /\ \A d \in Clicks : dispute[d] # None => dispute'[d] # None
    BY <1>1, DisputeNow, DisputeConstants DEF Dispute!Statuses
  <1>3. "idle" \in Dispute!Stages /\ "marking" \in Dispute!Stages
    BY DEF Dispute!Stages
  <1>4. Fits(shown')
    BY <1>1, DisputeNow
  <1>5. CASE answered
    BY <1>1, <1>2, <1>3, <1>4, <1>5, DisputeMoves
  <1>6. CASE ~answered
    BY <1>1, <1>2, <1>3, <1>4, <1>6, DisputeMoves
  <1> QED BY <1>5, <1>6

(* A request fails before it changes anything.                             *)
LEMMA DisputeFail ==
  ASSUME Dispute!ConstantTypes, DisputeInv, NEW c \in Clicks, Dispute!Fail(c)
  PROVE  DisputeInv'
  <1>1. /\ flow[c].at # "idle" /\ flow' = [flow EXCEPT ![c].at = "idle"]
        /\ UNCHANGED <<vault, shown, tip, seals, dispute>>
    BY DEF Dispute!Fail
  <1>2. Fits(shown') /\ "idle" \in Dispute!Stages
    BY <1>1, DisputeNow DEF Dispute!Stages
  <1> QED BY <1>1, <1>2, DisputeNow, DisputeMoves

(* The handler ends; the screen gets the refunded vault or keeps its own.  *)
LEMMA DisputeAdvance ==
  ASSUME Dispute!ConstantTypes, DisputeInv, NEW c \in Clicks, NEW reached \in BOOLEAN,
         NEW thrown \in BOOLEAN, Dispute!Advance(c, reached, thrown)
  PROVE  DisputeInv'
  <1>1. /\ flow[c].at = "advancing" /\ flow' = [flow EXCEPT ![c].at = "idle"]
        /\ UNCHANGED <<vault, tip, seals>> /\ shown' \in {shown, flow[c].held}
    BY DEF Dispute!Advance, Dispute!At
  <1>2. /\ dispute' \in [Clicks -> Dispute!Statuses \union {None}]
        /\ \A d \in Clicks : dispute[d] # None => dispute'[d] # None
    BY DisputeNow, DisputeConstants DEF Dispute!Advance, Dispute!Statuses
  <1>3. Fits(shown') /\ "idle" \in Dispute!Stages
    BY <1>1, DisputeNow DEF Dispute!Stages, FlowFits
  <1> QED BY <1>1, <1>2, <1>3, DisputeMoves

(* The steps that change the held vault, and what they save of it.         *)
LEMMA DisputeHolds ==
  ASSUME Dispute!ConstantTypes, DisputeInv, NEW c \in Clicks, NEW at \in Dispute!Stages,
         at # "marking", NEW v \in Dispute!Vault, Dispute!Becomes(c, at, v),
         flow[c].at # "idle", FlowFits(FlowTo(flow[c], at, v)),
         UNCHANGED dispute, Refunds(v),
         vault' \in {vault, v, flow[c].held}, Fits(vault'),
         shown' \in {shown, v}, Fits(shown'),
         tip' \in Nat \X (0..MaxSeals), seals' \in 0..MaxSeals
  PROVE  DisputeInv'
  <1> DEFINE f == FlowTo(flow[c], at, v)
  <1>0. flow[c] \in Flow /\ flow[c].held \in Dispute!Vault /\ flow[c].p \in Payments
    BY DisputeNow
  <1>1. f \in Flow /\ f.at = at /\ f.p = flow[c].p /\ f.held = v
    BY <1>0, FlowRecords
  <1>2. flow' = [flow EXCEPT ![c] = f]
    BY DEF FlowTo, Dispute!Becomes
  <1> HIDE DEF f
  <1>3. DisputesStay
    BY <1>1, <1>2, DisputesAreKept
  <1>4. Refunds(vault) /\ Refunds(shown) /\ Refunds(flow[c].held)
    BY <1>3, RefundsStay DEF DisputeInv
  <1>5. /\ vault' \in Dispute!Vault /\ Refunds(vault')
        /\ shown' \in Dispute!Vault /\ Refunds(shown')
    BY <1>0, <1>4, DisputeNow
  <1>6. FlowFits(f)
    BY DEF f
  <1> QED BY <1>1, <1>2, <1>3, <1>4, <1>5, <1>6, DisputeNow, DisputeStep

(* A handler that is on its way keeps its payment and all disputes.        *)
LEMMA DisputeRefunds ==
  ASSUME Dispute!ConstantTypes, DisputeInv, NEW c \in Clicks, NEW at \in Dispute!Stages,
         NEW v \in Dispute!Vault, Dispute!Becomes(c, at, v), UNCHANGED dispute
  PROVE  DisputesStay /\ Refunds(flow[c].held) /\ flow'[c].p = flow[c].p
  <1>1. flow[c] \in Flow /\ flow' = [flow EXCEPT ![c] = FlowTo(flow[c], at, v)]
    BY DisputeNow DEF FlowTo, Dispute!Becomes
  <1>2. FlowTo(flow[c], at, v).p = flow[c].p
    BY <1>1, FlowRecords
  <1>3. DisputesStay
    BY <1>1, <1>2, DisputesAreKept
  <1>4. flow'[c].p = flow[c].p
    BY <1>1, <1>2 DEF DisputeInv, Dispute!TypeOK
  <1> QED BY <1>3, <1>4, RefundsStay DEF DisputeInv

(* The stages a handler goes to.                                           *)
LEMMA StagesAre ==
  /\ "idle" \in Dispute!Stages /\ "aligning" \in Dispute!Stages
  /\ "resealing" \in Dispute!Stages /\ "crediting" \in Dispute!Stages
  /\ "recording" \in Dispute!Stages /\ "advancing" \in Dispute!Stages
  BY DEF Dispute!Stages

(* Where a handler stands with a vault.                                    *)
LEMMA FlowFitsAt ==
  ASSUME NEW f \in Flow, NEW v \in Dispute!Vault, f.p \in Payments
  PROVE  /\ v.status[f.p] = "disputed" /\ Above(v, 0) /\ Below(v, 1) =>
              FlowFits(FlowTo(f, "aligning", v)) /\ FlowFits(FlowTo(f, "resealing", v))
         /\ v.status[f.p] = "disputed" /\ Above(v, 1) /\ Below(v, 0) =>
              FlowFits(FlowTo(f, "crediting", v)) /\ FlowFits(FlowTo(f, "recording", v))
         /\ Fits(v) => FlowFits(FlowTo(f, "advancing", v))
  <1>1. \A at \in Dispute!Stages :
          /\ FlowTo(f, at, v).at = at /\ FlowTo(f, at, v).p = f.p
          /\ FlowTo(f, at, v).held = v
    BY FlowRecords
  <1> QED BY <1>1, StagesAre DEF FlowFits

(* The payment is marked disputed, with the dispute at the server.         *)
LEMMA DisputeMark ==
  ASSUME Dispute!ConstantTypes, DisputeInv, NEW c \in Clicks, Dispute!Mark(c)
  PROVE  DisputeInv'
  <1> DEFINE next == Marked(flow[c].held, flow[c].p, "disputed")
  <1>1. /\ flow[c].at = "marking" /\ vault' = next /\ shown' = next
        /\ Dispute!Becomes(c, "aligning", next) /\ UNCHANGED <<tip, seals, dispute>>
    BY DEF Dispute!Mark, Dispute!At, Marked
  <1>2. /\ flow[c].p \in Payments /\ flow[c] \in Flow /\ flow[c].held \in Dispute!Vault
        /\ flow[c].held.status[flow[c].p] = "settled" /\ Fits(flow[c].held)
    BY <1>1, DisputeNow DEF FlowFits
  <1>3. next \in Dispute!Vault /\ next.status[flow[c].p] = "disputed"
    BY <1>2, MarksAre, MarkedVault
  <1>4. Above(next, 0) /\ Below(next, 1)
    BY <1>2, DisputedFits
  <1>5. Refunds(next)
    <2>1. dispute'[c] # None
      BY <1>1 DEF DisputeInv
    <2>2. Refunds(flow[c].held) /\ flow'[c].p = flow[c].p
      BY <1>1, <1>3, StagesAre, DisputeRefunds
    <2> QED BY <1>2, <2>1, <2>2, MarksAre, RefundsMarked
  <1> HIDE DEF next
  <1>6. FlowFits(FlowTo(flow[c], "aligning", next))
    BY <1>2, <1>3, <1>4, FlowFitsAt
  <1>7. Fits(next)
    BY <1>3, <1>4, BelowLess DEF Fits
  <1> QED BY <1>1, <1>3, <1>5, <1>6, <1>7, StagesAre, DisputeNow, DisputeHolds

(* The server is brought to the held vault, which may be saved.            *)
LEMMA DisputeAlign ==
  ASSUME Dispute!ConstantTypes, DisputeInv, NEW c \in Clicks, Dispute!Align(c)
  PROVE  DisputeInv'
  <1> DEFINE held == flow[c].held
  <1>1. /\ flow[c].at = "aligning" /\ vault' \in {vault, held}
        /\ tip' = Dispute!Commitment(held)
        /\ Dispute!Becomes(c, "resealing", held) /\ UNCHANGED <<shown, seals, dispute>>
    BY DEF Dispute!Align, Dispute!At
  <1>2. /\ flow[c].p \in Payments /\ flow[c] \in Flow /\ held \in Dispute!Vault
        /\ held.status[flow[c].p] = "disputed" /\ Above(held, 0) /\ Below(held, 1)
    BY <1>1, DisputeNow DEF FlowFits
  <1>3. Refunds(held)
    BY <1>1, <1>2, StagesAre, DisputeRefunds
  <1>4. tip' \in Nat \X (0..MaxSeals)
    BY <1>1, <1>2, CommitmentType
  <1> HIDE DEF held
  <1>5. FlowFits(FlowTo(flow[c], "resealing", held))
    BY <1>2, FlowFitsAt
  <1>6. Fits(held)
    BY <1>2, BelowLess DEF Fits
  <1>7. Fits(vault') /\ Fits(shown') /\ shown' \in {shown, held} /\ seals' \in 0..MaxSeals
    BY <1>1, <1>6, DisputeNow
  <1> QED BY <1>1, <1>2, <1>3, <1>4, <1>5, <1>7, StagesAre, DisputeHolds

(* The balance is resealed with the payment added.                         *)
LEMMA DisputeReseal ==
  ASSUME Dispute!ConstantTypes, DisputeInv, NEW c \in Clicks, Dispute!Reseal(c)
  PROVE  DisputeInv'
  <1> DEFINE v == Resealed(flow[c].held, seals')
  <1>1. /\ flow[c].at = "resealing" /\ seals < MaxSeals /\ seals' = seals + 1
        /\ tip' = Dispute!Commitment(v)
        /\ Dispute!Becomes(c, "crediting", v) /\ UNCHANGED <<vault, shown, dispute>>
    BY DEF Dispute!Reseal, Dispute!At, Resealed
  <1>2. /\ flow[c].p \in Payments /\ flow[c] \in Flow /\ flow[c].held \in Dispute!Vault
        /\ flow[c].held.status[flow[c].p] = "disputed"
        /\ Above(flow[c].held, 0) /\ Below(flow[c].held, 1)
    BY <1>1, DisputeNow DEF FlowFits
  <1>3. seals' \in 0..MaxSeals
    BY <1>1, DisputeNow, DisputeConstants
  <1>4. /\ v \in Dispute!Vault /\ v.status = flow[c].held.status
        /\ Above(v, 1) /\ Below(v, 0)
    BY <1>2, <1>3, ResealedFits
  <1> HIDE DEF v
  <1>5. Refunds(v)
    <2>1. Refunds(flow[c].held)
      BY <1>1, <1>4, StagesAre, DisputeRefunds
    <2> QED BY <1>4, <2>1 DEF Refunds
  <1>6. tip' \in Nat \X (0..MaxSeals)
    BY <1>1, <1>4, CommitmentType
  <1>7. FlowFits(FlowTo(flow[c], "crediting", v))
    BY <1>2, <1>4, FlowFitsAt
  <1>8. Fits(vault') /\ Fits(shown') /\ vault' = vault /\ shown' = shown
    BY <1>1, DisputeNow
  <1> QED BY <1>1, <1>3, <1>4, <1>5, <1>6, <1>7, <1>8, StagesAre, DisputeHolds

(* The resealed balance is saved with the payment still disputed.          *)
LEMMA DisputeCredit ==
  ASSUME Dispute!ConstantTypes, DisputeInv, NEW c \in Clicks, Dispute!Credit(c)
  PROVE  DisputeInv'
  <1> DEFINE held == flow[c].held
  <1>1. /\ flow[c].at = "crediting" /\ vault' = held
        /\ Dispute!Becomes(c, "recording", held) /\ UNCHANGED <<shown, tip, seals, dispute>>
    BY DEF Dispute!Credit, Dispute!At
  <1>2. /\ flow[c].p \in Payments /\ flow[c] \in Flow /\ held \in Dispute!Vault
        /\ held.status[flow[c].p] = "disputed" /\ Above(held, 1) /\ Below(held, 0)
    BY <1>1, DisputeNow DEF FlowFits
  <1>3. Refunds(held)
    BY <1>1, <1>2, StagesAre, DisputeRefunds
  <1> HIDE DEF held
  <1>5. FlowFits(FlowTo(flow[c], "recording", held))
    BY <1>2, FlowFitsAt
  <1>6. Fits(held)
    BY <1>2, AboveLess DEF Fits
  <1>7. /\ Fits(vault') /\ Fits(shown') /\ shown' = shown
        /\ seals' \in 0..MaxSeals /\ tip' \in Nat \X (0..MaxSeals)
    BY <1>1, <1>6, DisputeNow
  <1> QED BY <1>1, <1>2, <1>3, <1>5, <1>7, StagesAre, DisputeHolds

(* The payment is recorded as refunded: a click has disputed it, since the *)
(* held vault has it disputed.                                             *)
LEMMA DisputeRecord ==
  ASSUME Dispute!ConstantTypes, DisputeInv, NEW c \in Clicks, Dispute!Record(c)
  PROVE  DisputeInv'
  <1> DEFINE next == Marked(flow[c].held, flow[c].p, "refunded")
  <1>1. /\ flow[c].at = "recording" /\ vault' = next
        /\ Dispute!Becomes(c, "advancing", next) /\ UNCHANGED <<shown, tip, seals, dispute>>
    BY DEF Dispute!Record, Dispute!At, Marked
  <1>2. /\ flow[c].p \in Payments /\ flow[c] \in Flow /\ flow[c].held \in Dispute!Vault
        /\ flow[c].held.status[flow[c].p] = "disputed"
        /\ Above(flow[c].held, 1) /\ Below(flow[c].held, 0)
    BY <1>1, DisputeNow DEF FlowFits
  <1>3. next \in Dispute!Vault /\ Fits(next)
    BY <1>2, MarksAre, MarkedVault, RefundedFits
  <1>4. Refunds(next)
    <2>1. Refunds(flow[c].held) /\ flow'[c].p = flow[c].p
      BY <1>1, <1>3, StagesAre, DisputeRefunds
    <2>2. PICK d \in Clicks : flow'[d].p = flow[c].p /\ dispute'[d] # None
      BY <1>2, <2>1 DEF Refunds
    <2> QED BY <1>2, <2>1, <2>2, MarksAre, RefundsMarked
  <1> HIDE DEF next
  <1>5. FlowFits(FlowTo(flow[c], "advancing", next))
    BY <1>2, <1>3, FlowFitsAt
  <1>7. /\ Fits(vault') /\ Fits(shown') /\ shown' = shown
        /\ seals' \in 0..MaxSeals /\ tip' \in Nat \X (0..MaxSeals)
    BY <1>1, <1>3, DisputeNow
  <1> QED BY <1>1, <1>3, <1>4, <1>5, <1>7, StagesAre, DisputeHolds

(* The shown vault is saved, or the page is opened again.                  *)
LEMMA DisputeSave ==
  ASSUME Dispute!ConstantTypes, DisputeInv, Dispute!SaveBudgets
  PROVE  DisputeInv'
  <1>1. vault' = shown /\ UNCHANGED <<shown, tip, seals, flow, dispute>>
    BY DEF Dispute!SaveBudgets
  <1>2. Dispute!TypeOK'
    BY <1>1 DEF DisputeInv, Dispute!TypeOK
  <1>3. Fits(vault)' /\ Fits(shown)' /\ \A c \in Clicks : FlowFits(flow[c])'
    BY <1>1 DEF DisputeInv, FlowFits, Fits, Above, Below, Dispute!With
  <1> QED BY <1>1, <1>2, <1>3 DEF DisputeInv, Dispute!RefundWasDisputed

(* The page is opened again: every handler is gone, its payment stays its  *)
(* own.                                                                    *)
LEMMA DisputeReopen ==
  ASSUME Dispute!ConstantTypes, DisputeInv, NEW online \in BOOLEAN, Dispute!Reopen(online)
  PROVE  DisputeInv'
  <1>1. /\ shown' = vault /\ tip' \in {tip, Dispute!Commitment(vault)}
        /\ flow' = [c \in Clicks |-> FlowAt(flow[c], "idle")]
        /\ UNCHANGED <<vault, seals, dispute>>
    BY DEF Dispute!Reopen, FlowAt
  <1>2. ASSUME NEW c \in Clicks
        PROVE  /\ flow'[c] \in Flow /\ flow'[c].at = "idle"
               /\ flow'[c].p = flow[c].p /\ flow'[c].held = flow[c].held
    <2>1. flow'[c] = FlowAt(flow[c], "idle") /\ flow[c] \in Flow
      BY <1>1 DEF DisputeInv, Dispute!TypeOK, Flow
    <2>2. flow[c].held \in Dispute!Vault
      BY <2>1 DEF Flow
    <2>3. FlowAt(flow[c], "idle") \in Flow
      BY <2>1, <2>2, StagesAre, FlowRecords
    <2>4. FlowAt(flow[c], "idle").at = "idle" /\ FlowAt(flow[c], "idle").p = flow[c].p
      BY <2>1, <2>2, StagesAre, FlowRecords
    <2>5. FlowAt(flow[c], "idle").held = flow[c].held
      BY <2>1, <2>2, StagesAre, FlowRecords
    <2> QED BY <2>1, <2>3, <2>4, <2>5
  <1>3. flow' \in [Clicks -> Flow]
    BY <1>1, <1>2
  <1>4. vault \in Dispute!Vault /\ tip \in Nat \X (0..MaxSeals)
    BY DEF DisputeInv, Dispute!TypeOK
  <1>5. tip' \in Nat \X (0..MaxSeals)
    BY <1>1, <1>4, CommitmentType
  <1>6. Dispute!TypeOK'
    BY <1>1, <1>3, <1>4, <1>5 DEF DisputeInv, Dispute!TypeOK, Flow
  <1>7. DisputesStay
    BY <1>1, <1>2 DEF DisputesStay
  <1>8. Fits(vault)' /\ Fits(shown)'
    BY <1>1 DEF DisputeInv, Fits, Above, Below, Dispute!With
  <1>9. ASSUME NEW c \in Clicks
        PROVE  FlowFits(flow'[c]) /\ Refunds(flow'[c].held) /\ flow'[c].at # "marking"
    BY <1>2, <1>7, RefundsStay DEF DisputeInv, FlowFits
  <1>10. \A c \in Clicks : FlowFits(flow[c])'
    BY <1>9 DEF FlowFits, Fits, Above, Below, Dispute!With
  <1>11. Refunds(vault') /\ Refunds(shown')
    BY <1>1, <1>7, RefundsStay DEF DisputeInv
  <1> QED BY <1>6, <1>8, <1>9, <1>10, <1>11, RefundsAre DEF DisputeInv

(* Whoever sets the status of a dispute, it stays at the server.           *)
LEMMA DisputeOperate ==
  ASSUME Dispute!ConstantTypes, DisputeInv, NEW c \in Clicks,
         NEW status \in Dispute!Statuses, Dispute!Operate(c, status)
  PROVE  DisputeInv'
  <1>1. /\ dispute' = [dispute EXCEPT ![c] = status]
        /\ UNCHANGED <<vault, shown, tip, seals, flow>>
    BY DEF Dispute!Operate
  <1>2. /\ dispute' \in [Clicks -> Dispute!Statuses \union {None}]
        /\ \A d \in Clicks : dispute[d] # None => dispute'[d] # None
    BY <1>1, DisputeConstants DEF DisputeInv, Dispute!TypeOK
  <1>3. Dispute!TypeOK' /\ DisputesStay
    BY <1>1, <1>2 DEF DisputeInv, Dispute!TypeOK, DisputesStay
  <1>4. Fits(vault)' /\ Fits(shown)' /\ \A d \in Clicks : FlowFits(flow[d])'
    BY <1>1 DEF DisputeInv, FlowFits, Fits, Above, Below, Dispute!With
  <1>5. /\ Refunds(vault') /\ Refunds(shown')
        /\ \A d \in Clicks : Refunds(flow'[d].held)
    BY <1>1, <1>3, RefundsStay DEF DisputeInv
  <1>6. \A d \in Clicks : (flow[d].at = "marking" => dispute[d] # None)'
    BY <1>1, <1>2 DEF DisputeInv
  <1> QED BY <1>3, <1>4, <1>5, <1>6, RefundsAre DEF DisputeInv

(* The invariant of disputes holds at first and in every step.             *)
LEMMA DisputeInductive ==
  ASSUME Dispute!ConstantTypes
  PROVE  /\ Dispute!Init => DisputeInv
         /\ DisputeInv /\ [Dispute!Next]_disputeVars => DisputeInv'
  <1>1. ASSUME Dispute!Init PROVE DisputeInv
    <2> DEFINE f == [at |-> "idle", p |-> None, held |-> Dispute!First]
    <2>1. /\ Dispute!First \in Dispute!Vault /\ Dispute!First.balance = Opening
          /\ \A p \in Payments : Dispute!First.status[p] = "settled"
      BY DisputeConstants DEF Dispute!First, Dispute!Vault
    <2>2. \A S : "settled" \notin S => Dispute!With(Dispute!First, S) = 0
      <3> SUFFICES ASSUME NEW S, "settled" \notin S
                   PROVE  Dispute!With(Dispute!First, S) = 0
        OBVIOUS
      <3>1. {p \in Payments : Dispute!First.status[p] \in S} = {}
        BY <2>1
      <3> QED BY <3>1, FS_EmptySet, DisputeSets DEF Dispute!With
    <2>3. Fits(Dispute!First)
      BY <2>1, <2>2, DisputeConstants DEF Fits, Above, Below
    <2>4. f \in Flow /\ f.at = "idle" /\ f.held = Dispute!First
      BY <2>1, StagesAre DEF Flow
    <2>5. \A c \in Clicks : flow[c] = f
      BY <1>1 DEF Dispute!Init
    <2>6. \A c \in Clicks : FlowFits(f)
      BY <2>4 DEF FlowFits
    <2>7. Dispute!RefundWasDisputed(Dispute!First)
      BY <2>1 DEF Dispute!RefundWasDisputed
    <2>8. Dispute!TypeOK
      <3>1. Dispute!Commitment(Dispute!First) \in Nat \X (0..MaxSeals)
        BY <2>1, CommitmentType
      <3>2. flow \in [Clicks -> Flow]
        BY <1>1, <2>4 DEF Dispute!Init
      <3> QED BY <1>1, <2>1, <3>1, <3>2, DisputeConstants
            DEF Dispute!Init, Dispute!TypeOK, Flow
    <2>9. vault = Dispute!First /\ shown = Dispute!First
      BY <1>1 DEF Dispute!Init
    <2> HIDE DEF f
    <2> QED BY <2>3, <2>4, <2>5, <2>6, <2>7, <2>8, <2>9 DEF DisputeInv
  <1>2. ASSUME DisputeInv, [Dispute!Next]_disputeVars PROVE DisputeInv'
    <2>1. CASE UNCHANGED disputeVars
      <3>1. UNCHANGED <<vault, shown, tip, seals, flow, dispute>>
        BY <2>1 DEF disputeVars
      <3>2. Dispute!TypeOK'
        BY <1>2, <3>1 DEF DisputeInv, Dispute!TypeOK
      <3>3. Fits(vault)' /\ Fits(shown)' /\ \A d \in Clicks : FlowFits(flow[d])'
        BY <1>2, <3>1 DEF DisputeInv, FlowFits, Fits, Above, Below, Dispute!With
      <3> QED BY <1>2, <3>1, <3>2, <3>3 DEF DisputeInv, Dispute!RefundWasDisputed
    <2>2. CASE Dispute!Next
      <3>1. CASE Dispute!SaveBudgets
        BY <1>2, <3>1, DisputeSave
      <3>2. CASE \E online \in BOOLEAN : Dispute!Reopen(online)
        BY <1>2, <3>2, DisputeReopen
      <3>3. ASSUME NEW c \in Clicks,
                   \/ \E p \in Payments : Dispute!Click(c, p)
                   \/ \E answered \in BOOLEAN : Dispute!Open(c, answered)
                   \/ Dispute!Fail(c) \/ Dispute!Mark(c) \/ Dispute!Align(c)
                   \/ Dispute!Reseal(c) \/ Dispute!Credit(c) \/ Dispute!Record(c)
                   \/ \E reached, thrown \in BOOLEAN : Dispute!Advance(c, reached, thrown)
                   \/ \E status \in Dispute!Statuses : Dispute!Operate(c, status)
            PROVE  DisputeInv'
        <4>1. CASE \E p \in Payments : Dispute!Click(c, p)
          BY <1>2, <4>1, DisputeClick
        <4>2. CASE \E answered \in BOOLEAN : Dispute!Open(c, answered)
          BY <1>2, <4>2, DisputeOpen
        <4>3. CASE \E reached, thrown \in BOOLEAN : Dispute!Advance(c, reached, thrown)
          BY <1>2, <4>3, DisputeAdvance
        <4>4. CASE \E status \in Dispute!Statuses : Dispute!Operate(c, status)
          BY <1>2, <4>4, DisputeOperate
        <4> QED BY <1>2, <3>3, <4>1, <4>2, <4>3, <4>4, DisputeFail, DisputeMark,
                   DisputeAlign, DisputeReseal, DisputeCredit, DisputeRecord
      <3> QED BY <2>2, <3>1, <3>2, <3>3 DEF Dispute!Next
    <2> QED BY <1>2, <2>1, <2>2
  <1> QED BY <1>1, <1>2

(* Whatever overwrites what on the device, a balance fits the history      *)
(* beside it, and no payment is refunded that was not disputed.            *)
THEOREM RefundsFit == ASSUME Dispute!ConstantTypes PROVE Dispute!Spec => []Dispute!DisputesHold
  <1>1. DisputeInv => Dispute!DisputesHold
    <2>1. DisputeInv => vault \in Dispute!Vault /\ shown \in Dispute!Vault
      BY DEF DisputeInv, Dispute!TypeOK
    <2> QED BY <2>1, FitsIsFitting DEF DisputeInv, Dispute!DisputesHold
  <1>2. Dispute!Spec => Dispute!Init /\ [][Dispute!Next]_disputeVars
    BY DEF Dispute!Spec, Dispute!vars, disputeVars
  <1>3. Dispute!Init => DisputeInv
    BY DisputeInductive
  <1>4. DisputeInv /\ [Dispute!Next]_disputeVars => DisputeInv'
    BY DisputeInductive
  <1> QED BY <1>1, <1>2, <1>3, <1>4, PTL

-----------------------------------------------------------------------------
(* All parts beside each other.                                            *)

(* Whichever part runs, each part's variables behave as the part does.     *)
LEMMA SupportParts ==
  SupportSpec => /\ Spec /\ Keys!Spec /\ Person!Spec /\ Chain!Spec /\ Kit!Spec
                 /\ Dispute!Spec
  <1>1. SupportInit => /\ Init /\ Keys!Init /\ Person!Init /\ Chain!Init /\ Kit!Init
                       /\ Dispute!Init
    BY DEF SupportInit
  <1>2. [SupportNext]_allVars => [Next]_vars /\ [Keys!Next]_(Keys!vars)
    BY DEF SupportNext, allVars, vars, keyVars, Keys!vars
  <1>3. [SupportNext]_allVars => [Person!Next]_(Person!vars) /\ [Chain!Next]_(Chain!vars)
    BY DEF SupportNext, allVars, personVars, Person!vars, chainVars, Chain!vars
  <1>4. [SupportNext]_allVars => [Kit!Next]_(Kit!vars) /\ [Dispute!Next]_(Dispute!vars)
    BY DEF SupportNext, allVars, kitVars, Kit!vars, disputeVars, Dispute!vars
  <1> QED BY <1>1, <1>2, <1>3, <1>4, PTL
        DEF SupportSpec, Spec, Keys!Spec, Person!Spec, Chain!Spec, Kit!Spec, Dispute!Spec

Parts == {"merchants", "keys", "identity", "broadcast", "recovery", "disputes"}

(* The part that runs is one of the six, and stays the one.                *)
LEMMA PartIsOne == SupportSpec => [](part \in Parts)
  <1>1. SupportInit => part \in Parts
    BY DEF SupportInit, Parts
  <1>2. part \in Parts /\ [SupportNext]_allVars => (part \in Parts)'
    BY DEF SupportNext, allVars
  <1> QED BY <1>1, <1>2, PTL DEF SupportSpec

(* The variables of the part that runs have their types.                   *)
THEOREM SupportTyping == ASSUME SupportConstants PROVE SupportSpec => []PartTypes
  <1>1. Spec => []TypeOK
    BY MerchantTyping DEF SupportConstants
  <1>2. Keys!Spec => []KeysTyped
    <2>1. Keys!ConstantTypes
      BY DEF SupportConstants
    <2> QED BY <2>1, KeyTyping, PTL DEF Keys!Spec
  <1>3. Person!Spec =>
          [](Person!TypeOK /\ Person!RegistryAgrees /\ Person!SessionsAreEarned)
    BY SessionsEarned DEF SupportConstants
  <1>4. Chain!Spec => []Chain!TypeOK
    <2>1. Chain!ConstantTypes
      BY DEF SupportConstants
    <2> QED BY <2>1, ChainInductive, PTL DEF Chain!Spec
  <1>5. Kit!Spec => []Kit!TypeOK
    <2>1. Kit!ConstantTypes
      BY DEF SupportConstants
    <2>2. KitInv => Kit!TypeOK
      BY DEF KitInv
    <2> QED BY <2>1, <2>2, KitInductive, PTL DEF Kit!Spec
  <1>6. Dispute!Spec => []Dispute!TypeOK
    <2>1. Dispute!ConstantTypes
      BY DEF SupportConstants
    <2>2. DisputeInv => Dispute!TypeOK
      BY DEF DisputeInv
    <2>3. Dispute!Spec => Dispute!Init /\ [][Dispute!Next]_disputeVars
      BY DEF Dispute!Spec, Dispute!vars, disputeVars
    <2>4. /\ Dispute!Init => DisputeInv
          /\ DisputeInv /\ [Dispute!Next]_disputeVars => DisputeInv'
      BY <2>1, DisputeInductive
    <2> QED BY <2>2, <2>3, <2>4, PTL
  <1>7. /\ part \in Parts /\ TypeOK /\ KeysTyped /\ Person!TypeOK /\ Chain!TypeOK
        /\ Kit!TypeOK /\ Dispute!TypeOK
        => PartTypes
    BY DEF Parts, PartTypes, KeysTyped
  <1> QED BY <1>1, <1>2, <1>3, <1>4, <1>5, <1>6, <1>7, SupportParts, PartIsOne, PTL

(* A verdict on a merchant rests on a challenge of its own call and on a   *)
(* merchant that was not revoked, and the appliance keeps the keys it has  *)
(* given out (verifiedMerchant.ts, hsmAppliance.ts).                       *)
THEOREM MerchantsKeepFaith == ASSUME SupportConstants PROVE SupportSpec => []MerchantsHold
  <1>1. Spec => []VerdictsAreFresh
    BY VerdictsStayFresh DEF SupportConstants
  <1>2. Keys!Spec => []Keys!KeysLast
    BY RegisteredKeysLast DEF SupportConstants
  <1> QED BY <1>1, <1>2, SupportParts, PTL DEF MerchantsHold

(* The registry of credentials agrees with itself, and a session was       *)
(* accepted once, in its window, against the registry of that moment and   *)
(* with a credential that stood (kycRegistry.ts, nyxproof.ts).             *)
THEOREM IdentityKeeps == ASSUME SupportConstants PROVE SupportSpec => []IdentityHolds
  <1>1. Person!Spec =>
          [](Person!TypeOK /\ Person!RegistryAgrees /\ Person!SessionsAreEarned)
    BY SessionsEarned DEF SupportConstants
  <1> QED BY <1>1, SupportParts, PTL DEF IdentityHolds

(* A caller told of a transaction is told of one on the chain.             *)
THEOREM SubmissionsAreReal == ASSUME SupportConstants PROVE SupportSpec => []SubmittedIsOnChain
  <1>1. Chain!Spec => []Chain!SubmittedIsOnChain
    BY AnswersAreOnChain DEF SupportConstants
  <1> QED BY <1>1, SupportParts, PTL DEF SubmittedIsOnChain

(* Vaults open with their keys, and the server names the newest one.       *)
THEOREM RecoveryKeeps == ASSUME SupportConstants PROVE SupportSpec => []RecoveryHolds
  <1>1. Kit!Spec => []Kit!RecoveryHolds
    BY VaultsRecover DEF SupportConstants
  <1> QED BY <1>1, SupportParts, PTL DEF RecoveryHolds

(* Balances fit their histories, and refunds were disputed.                *)
THEOREM DisputesKeep == ASSUME SupportConstants PROVE SupportSpec => []DisputesHold
  <1>1. Dispute!Spec => []Dispute!DisputesHold
    BY RefundsFit DEF SupportConstants
  <1> QED BY <1>1, SupportParts, PTL DEF DisputesHold
===============================================================================
