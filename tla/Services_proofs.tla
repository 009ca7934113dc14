-------------------------- MODULE Services_proofs --------------------------
(***************************************************************************)
(* Proofs about the services, for any merchants, orders, tokens, routes    *)
(* and calls.                                                              *)
(*                                                                         *)
(* 1. TxAuth.  The verification takes any proof of a signed intent and a   *)
(*    pending challenge, and compares neither the challenge's intent nor   *)
(*    the limit: that an authorization is earned rests on what signing and *)
(*    proving checked earlier.  The inductive invariant Earned carries     *)
(*    those checks along: from the signatures, over the calls of /prove,   *)
(*    to the proofs the server makes.                                      *)
(* 2. The compliance desk.  DeskInv: memory and database differ in         *)
(*    sessions and logs only, and neither holds a session completed.       *)
(* 3. Receiving payments.  InboundInv: an order gets no further than what  *)
(*    was matched and confirmed allows, and what was reported is matched   *)
(*    or in the unmatched list.                                            *)
(* 4. The composition.  Whichever service runs, each part behaves by its   *)
(*    own specification, so that its theorems hold of it beside the        *)
(*    others; CompactLedger and Universal have theirs in their own         *)
(*    modules.                                                             *)
(***************************************************************************)
EXTENDS Services, FiniteSetTheorems, TLAPS

-----------------------------------------------------------------------------
(* Transaction authorization.                                              *)

(* A challenge in the map has not authorized anything yet, a challenge of  *)
(* a call, of a proof the server made or of an authorization with one was  *)
(* issued for its very intent, and only intents under the limit are        *)
(* signed.                                                                 *)
Bound(ch, i) == issued[ch] = i /\ i \notin OverLimit

Earned ==
  /\ asked \intersect OverLimit = {} /\ signed \intersect OverLimit = {}
  /\ \A ch \in pending \union spent : issued[ch] # None
  /\ \A c \in Calls : call[c] # None => Bound(call[c].challenge, call[c].intent)
  /\ \A p \in proofs : Bound(p.challenge, p.intent)
  /\ \A a \in authorized : a.challenge \in spent
  /\ AuthorizationIsEarned

Inv == TypeOK /\ Earned

-----------------------------------------------------------------------------
(* A proof whose challenge is pending has authorized nothing before.       *)
LEMMA FirstTime ==
  ASSUME Inv, NEW p \in Proof, p.challenge \in pending
  PROVE  Earlier(p) = {} /\ Cardinality(Earlier(p)) + 1 = 1
<1>1. Earlier(p) = {}
  BY DEF Inv, Earned, TypeOK, Earlier
<1> QED BY <1>1, FS_EmptySet

(* At the start nothing is signed, issued or authorized.                   *)
LEMMA InitInv ==
  ASSUME Init
  PROVE  Inv
<1>1. TypeOK
  BY ConstantTypes DEF Init, TypeOK
<1>2. Earned
  BY DEF Init, Earned, AuthorizationIsEarned, OncePerChallenge, OfItsIntent, OfTheStanding
<1> QED BY <1>1, <1>2 DEF Inv

(* A call of /prove keeps the challenge and the intent it came with, while *)
(* it reads the registry, is answered, or is lost in a restart.            *)
CallsKept ==
  /\ call' \in [Calls -> CallRecord \union {None}]
  /\ \A c \in Calls : call'[c] # None =>
       /\ call[c] # None
       /\ call'[c].challenge = call[c].challenge /\ call'[c].intent = call[c].intent

(* A call that only moves to another place keeps its challenge and intent, *)
LEMMA OneCallKept ==
  ASSUME TypeOK, NEW c \in Calls, call[c] # None,
         NEW place \in {"verifying", "proving", "answered", "refused", "lost"},
         NEW root \in SUBSET Merchants,
         call' = [call EXCEPT ![c] = [call[c] EXCEPT !.at = place, !.root = root]]
  PROVE  CallsKept
<1> DEFINE now == [call[c] EXCEPT !.at = place, !.root = root]
<1>1. call[c] \in CallRecord
  BY DEF TypeOK
<1>2. /\ now \in CallRecord
      /\ now.challenge = call[c].challenge /\ now.intent = call[c].intent
  BY <1>1 DEF CallRecord
<1>3. call' = [call EXCEPT ![c] = now]
  OBVIOUS
<1> HIDE DEF now
<1> QED BY <1>2, <1>3 DEF TypeOK, CallsKept

(* and so do all steps but the one that begins a call.                     *)
LEMMA KeepingCalls ==
  ASSUME TypeOK,
         \/ \E c \in Calls : ReadRegistry(c) \/ EndProve(c)
         \/ Crash
  PROVE  CallsKept
<1>1. ASSUME NEW c \in Calls, ReadRegistry(c) PROVE CallsKept
  <2> DEFINE place == IF Active(call[c].intent) THEN "proving" ELSE "refused"
  <2>1. /\ call[c] # None /\ Root \in SUBSET Merchants
        /\ call' = [call EXCEPT ![c] = [call[c] EXCEPT !.at = place, !.root = Root]]
    BY <1>1 DEF ReadRegistry, Root, TypeOK
  <2>2. place \in {"verifying", "proving", "answered", "refused", "lost"}
    OBVIOUS
  <2> HIDE DEF place
  <2> QED BY <2>1, <2>2, OneCallKept
<1>2. ASSUME NEW c \in Calls, EndProve(c) PROVE CallsKept
  <2>1. call[c] \in CallRecord
    BY <1>2 DEF EndProve, TypeOK
  <2>2. /\ call[c].root \in SUBSET Merchants
        /\ [call[c] EXCEPT !.at = "answered"]
             = [call[c] EXCEPT !.at = "answered", !.root = call[c].root]
    BY <2>1 DEF CallRecord
  <2>3. call' = [call EXCEPT ![c] = [call[c] EXCEPT !.at = "answered",
                                                    !.root = call[c].root]]
    BY <1>2, <2>2 DEF EndProve
  <2> QED BY <1>2, <2>2, <2>3, OneCallKept DEF EndProve
<1>3. ASSUME Crash PROVE CallsKept
  <2>1. ASSUME NEW c \in Calls, call[c] # None
        PROVE  LET now == [call[c] EXCEPT !.at = "lost"]
               IN  now \in CallRecord /\ now.challenge = call[c].challenge
                                      /\ now.intent = call[c].intent
    BY <2>1 DEF TypeOK, CallRecord
  <2> QED BY <1>3, <2>1 DEF Crash, CallsKept, TypeOK
<1> QED BY <1>1, <1>2, <1>3

(* The actions of Next one by one: types.                                  *)
LEMMA NextType ==
  ASSUME Inv, [Next]_vars
  PROVE  TypeOK'
<1> USE DEF TypeOK
<1>1. ASSUME NEW ch \in Challenges, IssueChallenge(ch) PROVE TypeOK'
  BY <1>1 DEF IssueChallenge, Inv, Earned
<1>2. ASSUME NEW ch \in Challenges, Expire(ch) PROVE TypeOK'
  BY <1>2 DEF Expire, Inv
<1>3. ASSUME NEW i \in Intents, AskSignature(i) PROVE TypeOK'
  BY <1>3 DEF AskSignature, Inv
<1>4. ASSUME NEW i \in Intents, Sign(i) PROVE TypeOK'
  BY <1>4 DEF Sign, Inv
<1>5. ASSUME NEW c \in Calls, BeginProve(c) PROVE TypeOK'
  BY <1>5 DEF BeginProve, CallRecord, Inv
<1>6. ASSUME NEW c \in Calls, ReadRegistry(c) PROVE TypeOK'
  BY <1>6, KeepingCalls DEF ReadRegistry, CallsKept, Inv
<1>7. ASSUME NEW c \in Calls, EndProve(c) PROVE TypeOK'
  <2>1. call' \in [Calls -> CallRecord \union {None}]
    BY <1>7, KeepingCalls DEF CallsKept, Inv
  <2>2. [challenge |-> call[c].challenge, intent |-> call[c].intent,
         root |-> call[c].root] \in Proof
    BY <1>7 DEF EndProve, Inv, CallRecord, Proof
  <2> QED BY <1>7, <2>1, <2>2 DEF EndProve, Inv
<1>8. ASSUME NEW p \in Proof, Verify(p) PROVE TypeOK'
  <2>1. p \in Proof /\ p.challenge \in pending
    BY <1>8 DEF Verify, Verifies, Inv
  <2>2. Cardinality(Earlier(p)) + 1 \in Nat
    BY <2>1, FirstTime
  <2> DEFINE n == Cardinality(Earlier(p)) + 1
             new == [challenge |-> p.challenge, intent |-> p.intent, revoked |-> revoked,
                     proved |-> p \in proofs, times |-> n]
  <2>5. authorized' = authorized \union {new}
    BY <1>8 DEF Verify
  <2> HIDE DEF n
  <2>6. (p \in proofs) \in BOOLEAN
    BY SMT
  <2>7. new \in Authorization
    BY <2>1, <2>2, <2>6 DEF Authorization, Proof, Inv, n
  <2> HIDE DEF new
  <2>3. authorized' \subseteq Authorization
    BY <2>5, <2>7 DEF Inv
  <2>4. pending' \intersect spent' = {}
    BY <1>8 DEF Verify, PendingWithout, Inv
  <2> QED BY <1>8, <2>1, <2>3, <2>4 DEF Verify, PendingWithout, Inv
<1>9. ASSUME NEW p \in Proof, VerifyLate(p) PROVE TypeOK'
  BY <1>9 DEF VerifyLate, PendingWithout, Inv
<1>10. ASSUME NEW m \in Merchants, Revoke(m) PROVE TypeOK'
  BY <1>10 DEF Revoke, Inv
<1>11. ASSUME Crash PROVE TypeOK'
  <2>1. call' \in [Calls -> CallRecord \union {None}]
    BY <1>11, KeepingCalls DEF CallsKept, Inv
  <2> QED BY <1>11, <2>1, ConstantTypes DEF Crash, Inv
<1>12. CASE UNCHANGED vars
  BY <1>12 DEF vars, Inv
<1> QED BY <1>1, <1>2, <1>3, <1>4, <1>5, <1>6, <1>7, <1>8, <1>9, <1>10, <1>11, <1>12
        DEF Next

(* A step that signs nothing over the limit, and at most moves calls and   *)
(* takes challenges away, disturbs nothing.                                *)
LEMMA QuietEarned ==
  ASSUME Inv, CallsKept, pending' \subseteq pending,
         issued' = issued, spent' = spent, proofs' = proofs, authorized' = authorized,
         signed \subseteq signed', (asked' \union signed') \intersect OverLimit = {}
  PROVE  Earned'
<1>1. \A c \in Calls : call'[c] # None => Bound(call[c].challenge, call[c].intent)'
  BY DEF Inv, Earned, Bound, CallsKept
<1>2. (\A c \in Calls : call[c] # None => Bound(call[c].challenge, call[c].intent))'
  BY <1>1 DEF CallsKept, Bound
<1>3. AuthorizationIsEarned'
  BY DEF Inv, Earned, AuthorizationIsEarned, OncePerChallenge, OfItsIntent, OfTheStanding
<1> QED BY <1>2, <1>3 DEF Inv, Earned, Bound

(* A new challenge is bound to its intent, the old ones stay bound: none   *)
(* that a call, a proof or an authorization holds was unissued.            *)
LEMMA IssueEarned ==
  ASSUME Inv, NEW ch \in Challenges, IssueChallenge(ch)
  PROVE  Earned'
<1>1. PICK i \in Intents : issued' = [issued EXCEPT ![ch] = i]
  BY DEF IssueChallenge
<1>2. issued[ch] = None /\ issued'[ch] # None
  BY <1>1, ConstantTypes DEF IssueChallenge, Inv, TypeOK
<1>3. ASSUME NEW other \in Challenges, issued[other] # None
      PROVE  issued'[other] = issued[other]
  BY <1>1, <1>2, <1>3 DEF Inv, TypeOK
<1>4. ASSUME NEW other \in Challenges, NEW j \in Intents, Bound(other, j)
      PROVE  issued'[other] = j /\ j \notin OverLimit
  BY <1>3, <1>4, ConstantTypes DEF Bound
<1>5. \A other \in pending' \union spent' : issued'[other] # None
  BY <1>2, <1>3 DEF IssueChallenge, Inv, Earned, TypeOK
<1>6. (\A c \in Calls : call[c] # None => Bound(call[c].challenge, call[c].intent))'
  <2>1. ASSUME NEW c \in Calls, call[c] # None
        PROVE  issued'[call[c].challenge] = call[c].intent /\ call[c].intent \notin OverLimit
    <3>1. call[c].challenge \in Challenges /\ call[c].intent \in Intents
      BY <2>1 DEF Inv, TypeOK, CallRecord
    <3> QED BY <1>4, <2>1, <3>1 DEF Inv, Earned
  <2> QED BY <2>1 DEF IssueChallenge, Bound
<1>7. (\A p \in proofs : Bound(p.challenge, p.intent))'
  <2>1. ASSUME NEW p \in proofs
        PROVE  issued'[p.challenge] = p.intent /\ p.intent \notin OverLimit
    <3>1. p.challenge \in Challenges /\ p.intent \in Intents
      BY DEF Inv, TypeOK, Proof
    <3> QED BY <1>4, <3>1 DEF Inv, Earned
  <2> QED BY <2>1 DEF IssueChallenge, Bound
<1>8. AuthorizationIsEarned'
  <2>1. ASSUME NEW a \in authorized, a.proved
        PROVE  issued'[a.challenge] = a.intent
    <3>1. a.challenge \in Challenges /\ a.intent \in Intents
      BY DEF Inv, TypeOK, Authorization
    <3>2. issued[a.challenge] = a.intent
      BY <2>1 DEF Inv, Earned, AuthorizationIsEarned, OfItsIntent
    <3> QED BY <1>3, <3>1, <3>2, ConstantTypes
  <2> QED BY <2>1 DEF IssueChallenge, Inv, Earned, AuthorizationIsEarned, OncePerChallenge,
                      OfItsIntent, OfTheStanding
<1> QED BY <1>5, <1>6, <1>7, <1>8 DEF IssueChallenge, Inv, Earned

(* A verified proof brings its bond with it, and its challenge, pending    *)
(* until now, had authorized nothing.                                      *)
LEMMA VerifyEarned ==
  ASSUME Inv, NEW p \in Proof, Verify(p)
  PROVE  Earned'
<1> DEFINE new == [challenge |-> p.challenge, intent |-> p.intent, revoked |-> revoked,
                   proved |-> p \in proofs, times |-> Cardinality(Earlier(p)) + 1]
<1>1. /\ p \in Proof /\ p.challenge \in pending /\ MerchantOf[p.intent] \notin revoked
      /\ p.intent \in signed
  BY DEF Verify, Verifies, Active, Inv, TypeOK
<1>2. Cardinality(Earlier(p)) + 1 = 1
  BY <1>1, FirstTime
<1>3. /\ new.challenge = p.challenge /\ new.intent = p.intent
      /\ new.revoked = revoked /\ new.times = 1
  BY <1>2
<1>9. new.proved => p \in proofs
  BY Zenon
<1>4. authorized' = authorized \union {new}
  BY DEF Verify
<1> HIDE DEF new
<1>5. /\ new.proved => issued[new.challenge] = new.intent
      /\ new.intent \in signed \ OverLimit
  BY <1>1, <1>3, <1>9 DEF Inv, Earned, Bound
<1>6. AuthorizationIsEarned'
  <2>1. UNCHANGED <<issued, signed>>
    BY DEF Verify
  <2> QED BY <1>1, <1>3, <1>4, <1>5, <2>1
          DEF Inv, Earned, AuthorizationIsEarned, OncePerChallenge, OfItsIntent,
              OfTheStanding
<1>7. \A a \in authorized' : a.challenge \in spent'
  BY <1>3, <1>4 DEF Verify, Inv, Earned
<1>8. \A ch \in pending' \union spent' : issued'[ch] # None
  BY <1>1 DEF Verify, PendingWithout, Inv, Earned
<1> QED BY <1>6, <1>7, <1>8 DEF Verify, Inv, Earned, Bound

(* The actions of Next one by one: what an authorization rests on.         *)
LEMMA NextEarned ==
  ASSUME Inv, [Next]_vars
  PROVE  Earned'
<1> USE DEF Inv
<1>0. /\ (asked \union signed) \intersect OverLimit = {}
      /\ call' = call => CallsKept
  BY DEF Earned, CallsKept, TypeOK
<1>1. ASSUME NEW ch \in Challenges, IssueChallenge(ch) PROVE Earned'
  BY <1>1, IssueEarned
<1>2. ASSUME NEW ch \in Challenges, Expire(ch) PROVE Earned'
  BY <1>0, <1>2, QuietEarned DEF Expire
<1>3. ASSUME NEW i \in Intents, AskSignature(i) PROVE Earned'
  BY <1>0, <1>3, QuietEarned DEF AskSignature, MaySign
<1>4. ASSUME NEW i \in Intents, Sign(i) PROVE Earned'
  BY <1>0, <1>4, QuietEarned DEF Sign
<1>5. ASSUME NEW c \in Calls, BeginProve(c) PROVE Earned'
  <2>1. PICK ch \in pending \ late, i \in signed :
             /\ ForThisIntent(ch, i)
             /\ call' = [call EXCEPT ![c] = [at |-> "verifying", challenge |-> ch,
                                             intent |-> i, root |-> {}]]
    BY <1>5 DEF BeginProve
  <2>2. Bound(ch, i)
    BY <2>1 DEF ForThisIntent, Bound, Earned
  <2>3. ASSUME NEW d \in Calls, call'[d] # None
        PROVE  Bound(call'[d].challenge, call'[d].intent)
    BY <2>1, <2>2, <2>3 DEF TypeOK, Earned
  <2>4. AuthorizationIsEarned'
    BY <1>5 DEF BeginProve, Earned, AuthorizationIsEarned, OncePerChallenge, OfItsIntent,
                OfTheStanding
  <2> QED BY <1>5, <2>3, <2>4 DEF BeginProve, Earned, Bound
<1>6. ASSUME NEW c \in Calls, ReadRegistry(c) PROVE Earned'
  <2>1. CallsKept
    BY <1>6, KeepingCalls
  <2> QED BY <1>0, <1>6, <2>1, QuietEarned DEF ReadRegistry
<1>7. ASSUME NEW c \in Calls, EndProve(c) PROVE Earned'
  <2> DEFINE new == [challenge |-> call[c].challenge, intent |-> call[c].intent,
                     root |-> call[c].root]
  <2>1. CallsKept
    BY <1>7, KeepingCalls
  <2>2. Bound(new.challenge, new.intent)
    BY <1>7 DEF EndProve, Earned
  <2>3. proofs' = proofs \union {new}
    BY <1>7 DEF EndProve
  <2> HIDE DEF new
  <2>4. (\A p \in proofs : Bound(p.challenge, p.intent))'
    BY <1>7, <2>2, <2>3 DEF EndProve, Earned, Bound
  <2>5. (\A d \in Calls : call[d] # None => Bound(call[d].challenge, call[d].intent))'
    <3>1. \A d \in Calls : call'[d] # None => Bound(call[d].challenge, call[d].intent)
      BY <2>1 DEF Earned, CallsKept
    <3> QED BY <1>7, <2>1, <3>1 DEF EndProve, CallsKept, Bound
  <2>6. AuthorizationIsEarned'
    BY <1>7 DEF EndProve, Earned, AuthorizationIsEarned, OncePerChallenge, OfItsIntent,
                OfTheStanding
  <2> QED BY <1>7, <2>4, <2>5, <2>6 DEF EndProve, Earned
<1>8. ASSUME NEW p \in Proof, Verify(p) PROVE Earned'
  BY <1>8, VerifyEarned
<1>9. ASSUME NEW p \in Proof, VerifyLate(p) PROVE Earned'
  BY <1>0, <1>9, QuietEarned DEF VerifyLate, PendingWithout
<1>10. ASSUME NEW m \in Merchants, Revoke(m) PROVE Earned'
  BY <1>0, <1>10, QuietEarned DEF Revoke
<1>11. ASSUME Crash PROVE Earned'
  <2>1. CallsKept
    BY <1>11, KeepingCalls
  <2> QED BY <1>0, <1>11, <2>1, QuietEarned DEF Crash
<1>12. CASE UNCHANGED vars
  BY <1>0, <1>12, QuietEarned DEF vars
<1> QED BY <1>1, <1>2, <1>3, <1>4, <1>5, <1>6, <1>7, <1>8, <1>9, <1>10, <1>11, <1>12
        DEF Next

-----------------------------------------------------------------------------
(* The invariant holds of every behavior.                                  *)
LEMMA Inductive == Spec => []Inv
<1>1. Init => Inv
  BY InitInv
<1>2. Inv /\ [Next]_vars => Inv'
  BY NextType, NextEarned DEF Inv
<1> QED BY <1>1, <1>2, PTL DEF Spec

(* The state of the authorization endpoints keeps its types; a challenge   *)
(* is never both in the map and burned.                                    *)
THEOREM Typing == Spec => []TypeOK
<1>1. Inv => TypeOK
  BY DEF Inv
<1> QED BY <1>1, Inductive, PTL

(* Whatever order signatures, proofs and verifications are used in, and    *)
(* however often: each challenge authorizes once, an intent its merchant   *)
(* signed, under the limit, of a merchant not revoked by then; with a      *)
(* proof the server made, the intent the challenge was issued for.         *)
THEOREM AuthorizationsAreEarned == Spec => []AuthorizationIsEarned
<1>1. Inv => AuthorizationIsEarned
  BY DEF Inv, Earned
<1> QED BY <1>1, Inductive, PTL

-----------------------------------------------------------------------------
(* The compliance desk.                                                    *)

(* What the store holds, whoever saved it last: sessions of tokens given   *)
(* out and not completed, and what was released and issued so far.  Only   *)
(* sessions and logs differ between the memory and the disk.               *)
StoreHolds(s) ==
  /\ s.sessions \subseteq begun
  /\ \A t \in s.sessions : joined[t] = 0
  /\ s.keys = viewKeys
  /\ shown \subseteq s.released

DeskInv ==
  /\ Desk!TypeOK
  /\ \A t \in Tokens : joined[t] <= 1 /\ (t \notin begun => joined[t] = 0)
  /\ StoreHolds(mem) /\ StoreHolds(store)
  /\ mem.queued = store.queued /\ mem.released = store.released

(* The first state.                                                        *)
LEMMA DeskStarts == Desk!ConstantTypes /\ Desk!Init => DeskInv
BY DEF Desk!ConstantTypes, Desk!Init, Desk!Empty, Desk!TypeOK, Desk!Stored,
   DeskInv, StoreHolds

(* The fields of a store.                                                  *)
LEMMA StoreFields ==
  ASSUME NEW s \in Desk!Stored
  PROVE  /\ s.sessions \subseteq Tokens /\ s.queued \subseteq Desk!Events
         /\ s.released \subseteq Desk!Events /\ s.logs \subseteq Desk!Logs
         /\ s.keys \in [Accounts -> 0..MaxKeys]
BY DEF Desk!Stored

(* Sessions that lapsed are dropped, and nothing else is.                  *)
LEMMA PurgedFields ==
  ASSUME NEW s \in Desk!Stored
  PROVE  /\ Desk!Purged(s) \in Desk!Stored
         /\ Desk!Purged(s).sessions = s.sessions \ lapsed
         /\ Desk!Purged(s).queued = s.queued /\ Desk!Purged(s).released = s.released
         /\ Desk!Purged(s).logs = s.logs /\ Desk!Purged(s).keys = s.keys
BY DEF Desk!Stored, Desk!Purged

(* A store with other sessions, of tokens that were given out and not      *)
(* completed.                                                              *)
LEMMA SessionsHold ==
  ASSUME DeskInv, NEW s \in Desk!Stored, NEW now \in Desk!Stored, StoreHolds(s),
         now.sessions \subseteq s.sessions, now.queued = s.queued,
         now.released = s.released, now.keys = s.keys
  PROVE  StoreHolds(now)
BY DEF StoreHolds

(* Enrolment.                                                              *)
LEMMA EnrolmentKeeps ==
  ASSUME DeskInv, NEW t \in Tokens,
         Desk!BeginHandshake(t) \/ \E intime \in BOOLEAN : Desk!CompleteHandshake(t, intime)
  PROVE  DeskInv'
<1> DEFINE rest == Desk!Purged(mem)
<1>1. /\ mem \in Desk!Stored /\ store \in Desk!Stored
      /\ begun \subseteq Tokens /\ joined \in [Tokens -> 0..2]
      /\ UNCHANGED <<serving, lapsed, due, old, viewKeys, shown>>
  BY DEF DeskInv, Desk!TypeOK, Desk!BeginHandshake, Desk!CompleteHandshake
<1>2. /\ rest \in Desk!Stored /\ rest.sessions = mem.sessions \ lapsed
      /\ rest.queued = mem.queued /\ rest.released = mem.released /\ rest.keys = mem.keys
  BY <1>1, PurgedFields
<1> HIDE DEF rest
<1>3. CASE Desk!BeginHandshake(t)
  <2> DEFINE now == [rest EXCEPT !.sessions = @ \union {t}]
  <2>1. /\ now \in Desk!Stored /\ now.sessions = rest.sessions \union {t}
        /\ now.queued = rest.queued /\ now.released = rest.released /\ now.keys = rest.keys
    BY <1>2 DEF Desk!Stored
  <2>2. /\ mem' = now /\ store' = now /\ begun' = begun \union {t} /\ joined' = joined
        /\ t \notin begun
    BY <1>3 DEF Desk!BeginHandshake, Desk!Saved, rest
  <2> HIDE DEF now
  <2>3. StoreHolds(mem)' /\ StoreHolds(store)'
    BY <1>1, <1>2, <2>1, <2>2 DEF DeskInv, StoreHolds
  <2>4. Desk!TypeOK'
    BY <1>1, <2>1, <2>2 DEF DeskInv, Desk!TypeOK
  <2> QED BY <1>1, <2>1, <2>2, <2>3, <2>4 DEF DeskInv
<1>4. ASSUME NEW intime \in BOOLEAN, Desk!CompleteHandshake(t, intime), t \in rest.sessions
      PROVE  DeskInv'
  <2> DEFINE now == [rest EXCEPT !.sessions = @ \ {t}]
             n == IF intime /\ joined[t] < 2 THEN joined[t] + 1 ELSE joined[t]
  <2>1. /\ now \in Desk!Stored /\ now.sessions = rest.sessions \ {t}
        /\ now.queued = rest.queued /\ now.released = rest.released /\ now.keys = rest.keys
    BY <1>2 DEF Desk!Stored
  <2>2. mem' = now /\ store' = now /\ joined' = [joined EXCEPT ![t] = n]
    BY <1>4 DEF Desk!CompleteHandshake, Desk!Wiped, Desk!Saved, Desk!Without, rest
  <2>3. begun' = begun /\ t \in begun
    BY <1>4 DEF Desk!CompleteHandshake
  <2>4. joined[t] = 0
    BY <1>2, <1>4 DEF DeskInv, StoreHolds
  <2>5. n \in 0..1
    BY <2>4
  <2> HIDE DEF now, n
  <2>6. /\ joined' \in [Tokens -> 0..2]
        /\ \A x \in Tokens : joined'[x] = IF x = t THEN n ELSE joined[x]
    BY <1>1, <2>2, <2>5
  <2>7. StoreHolds(mem)' /\ StoreHolds(store)'
    <3>1. now.sessions \subseteq begun /\ \A x \in now.sessions : joined'[x] = 0
      BY <1>1, <1>2, <2>1, <2>6 DEF DeskInv, StoreHolds
    <3>2. now.keys = viewKeys /\ shown \subseteq now.released
      BY <1>2, <2>1 DEF DeskInv, StoreHolds
    <3> QED BY <1>1, <2>2, <2>3, <3>1, <3>2 DEF StoreHolds
  <2>8. Desk!TypeOK'
    BY <1>1, <2>1, <2>2, <2>3, <2>6 DEF DeskInv, Desk!TypeOK
  <2>9. \A x \in Tokens : joined'[x] <= 1 /\ (x \notin begun' => joined'[x] = 0)
    BY <2>3, <2>5, <2>6 DEF DeskInv
  <2> QED BY <2>2, <2>7, <2>8, <2>9 DEF DeskInv
<1>5. ASSUME NEW intime \in BOOLEAN, Desk!CompleteHandshake(t, intime), t \notin rest.sessions
      PROVE  DeskInv'
  <2>1. mem' = rest /\ UNCHANGED <<store, begun, joined>>
    BY <1>5 DEF Desk!CompleteHandshake, Desk!Changed, rest
  <2>2. StoreHolds(rest)
    BY <1>1, <1>2, SessionsHold DEF DeskInv
  <2>3. StoreHolds(mem)' /\ StoreHolds(store)'
    BY <1>1, <2>1, <2>2 DEF DeskInv, StoreHolds
  <2> QED BY <1>1, <1>2, <2>1, <2>3 DEF DeskInv, Desk!TypeOK
<1> QED BY <1>3, <1>4, <1>5

(* The relay: transfers and decoys are apart, so that a decoy takes no     *)
(* transfer back, and what is released is saved at once.                   *)
LEMMA RelayKeeps ==
  ASSUME Desk!ConstantTypes, DeskInv,
         \/ \E e \in Transfers : Desk!Submit(e)
         \/ \E e \in Decoys : Desk!EmitDecoy(e)
         \/ \E logged, show \in BOOLEAN : Desk!Flush(logged, show)
         \/ Desk!Report
  PROVE  DeskInv'
<1>1. /\ mem \in Desk!Stored /\ store \in Desk!Stored
      /\ UNCHANGED <<serving, lapsed, begun, joined, viewKeys>>
      /\ shown \subseteq Transfers /\ due \subseteq Desk!Events /\ old \subseteq Desk!Logs
      /\ shown \subseteq mem.released
  BY DEF DeskInv, StoreHolds, Desk!TypeOK, Desk!Submit, Desk!EmitDecoy, Desk!Flush, Desk!Report,
     Desk!history
<1>2. ASSUME NEW e \in Transfers, Desk!Submit(e) PROVE DeskInv'
  <2> DEFINE now == Desk!Queue(mem, e)
  <2>1. e \in Desk!Events
    BY DEF Desk!Events
  <2>2. /\ now \in Desk!Stored /\ now.sessions = mem.sessions /\ now.keys = mem.keys
        /\ now.released = mem.released \ {e}
    BY <1>1, <2>1 DEF Desk!Stored, Desk!Queue
  <2>3. /\ mem' = now /\ store' = now /\ UNCHANGED <<due, old, shown>>
        /\ e \notin mem.released
    BY <1>2 DEF Desk!Submit, Desk!Saved, Desk!history
  <2> HIDE DEF now
  <2>4. StoreHolds(mem)' /\ StoreHolds(store)'
    BY <1>1, <2>2, <2>3 DEF DeskInv, StoreHolds
  <2> QED BY <1>1, <2>2, <2>3, <2>4 DEF DeskInv, Desk!TypeOK
<1>3. ASSUME NEW e \in Decoys, Desk!EmitDecoy(e) PROVE DeskInv'
  <2> DEFINE now == [Desk!Queue(mem, e) EXCEPT !.logs = @ \union {<<"decoy", e>>}]
  <2>1. e \in Desk!Events /\ <<"decoy", e>> \in Desk!Logs /\ e \notin Transfers
    BY DEF Desk!Events, Desk!Logs, Desk!ConstantTypes
  <2>2. /\ now \in Desk!Stored /\ now.sessions = mem.sessions /\ now.keys = mem.keys
        /\ now.released = mem.released \ {e}
    BY <1>1, <2>1 DEF Desk!Stored, Desk!Queue
  <2>3. /\ mem' = now /\ store' = now /\ shown' = shown
        /\ due' \subseteq due /\ old' \subseteq old
    BY <1>3 DEF Desk!EmitDecoy, Desk!Saved, Desk!history
  <2> HIDE DEF now
  <2>4. StoreHolds(mem)' /\ StoreHolds(store)'
    BY <1>1, <2>1, <2>2, <2>3 DEF DeskInv, StoreHolds
  <2> QED BY <1>1, <2>2, <2>3, <2>4 DEF DeskInv, Desk!TypeOK
<1>4. ASSUME NEW logged \in BOOLEAN, NEW show \in BOOLEAN, Desk!Flush(logged, show)
      PROVE  DeskInv'
  <2> DEFINE now == Desk!Flushed(logged)
  <2>1. Desk!Ready \subseteq Desk!Events /\ ({"release"} \X Desk!Ready) \subseteq Desk!Logs
    <3>1. Desk!Ready \subseteq Desk!Events
      BY <1>1 DEF Desk!Ready
    <3> QED BY <3>1 DEF Desk!Logs
  <2>2. /\ now \in Desk!Stored /\ now.sessions = mem.sessions /\ now.keys = mem.keys
        /\ mem.released \subseteq now.released
    <3> DEFINE logs == IF logged THEN mem.logs \union ({"release"} \X Desk!Ready) ELSE mem.logs
    <3>1. now = [mem EXCEPT !.queued = @ \ Desk!Ready, !.released = @ \union Desk!Ready,
                            !.logs = logs]
      BY DEF Desk!Flushed
    <3>2. logs \subseteq Desk!Logs
      BY <1>1, <2>1 DEF Desk!Stored
    <3> HIDE DEF logs, now
    <3> QED BY <1>1, <2>1, <3>1, <3>2 DEF Desk!Stored
  <2>3. /\ UNCHANGED <<mem, store>> \/ (mem' = now /\ store' = now)
        /\ due' = due /\ old' \subseteq old
        /\ shown' = shown \/ shown' = shown \union (mem'.released \intersect Transfers)
    BY <1>4 DEF Desk!Flush, Desk!Saved, Desk!Show
  <2> HIDE DEF now
  <2>4. /\ mem' \in Desk!Stored /\ store' \in Desk!Stored /\ mem'.released = store'.released
        /\ mem'.queued = store'.queued
        /\ mem'.sessions = mem.sessions /\ mem'.keys = mem.keys
        /\ store'.sessions \in {mem.sessions, store.sessions}
        /\ store'.keys \in {mem.keys, store.keys}
        /\ mem.released \subseteq mem'.released
    BY <1>1, <2>2, <2>3 DEF DeskInv
  <2>5. shown' \subseteq mem'.released /\ shown' \subseteq Transfers
    BY <1>1, <2>3, <2>4
  <2>6. StoreHolds(mem)' /\ StoreHolds(store)'
    BY <1>1, <2>4, <2>5 DEF DeskInv, StoreHolds
  <2> QED BY <1>1, <2>3, <2>4, <2>5, <2>6 DEF DeskInv, Desk!TypeOK
<1>5. ASSUME Desk!Report PROVE DeskInv'
  BY <1>1, <1>5 DEF Desk!Report, DeskInv, StoreHolds, Desk!TypeOK
<1> QED BY <1>2, <1>3, <1>4, <1>5

(* The hourly timer drops sessions and logs, and nothing else.             *)
LEMMA PurgeKeeps ==
  ASSUME DeskInv, Desk!Purge
  PROVE  DeskInv'
<1>1. /\ mem \in Desk!Stored /\ store \in Desk!Stored
      /\ UNCHANGED <<serving, lapsed, due, begun, joined, viewKeys, shown>>
      /\ old' \subseteq old
  BY DEF DeskInv, Desk!TypeOK, Desk!Purge, Desk!history
<1> DEFINE logs == IF mem.logs \intersect old = {} THEN mem.logs
                   ELSE (mem.logs \ old) \union {<<"purge", None>>}
           kept == Desk!Kept
<1>2. kept = [mem EXCEPT !.logs = logs]
  BY DEF Desk!Kept
<1>3. logs \subseteq Desk!Logs
  BY <1>1, StoreFields DEF Desk!Logs
<1> HIDE DEF logs, kept
<1>4. /\ kept \in Desk!Stored /\ kept.sessions = mem.sessions /\ kept.keys = mem.keys
      /\ kept.queued = mem.queued /\ kept.released = mem.released
  BY <1>1, <1>2, <1>3 DEF Desk!Stored
<1>5. /\ Desk!Purged(kept) \in Desk!Stored
      /\ Desk!Purged(kept).sessions = kept.sessions \ lapsed
      /\ Desk!Purged(kept).queued = kept.queued /\ Desk!Purged(kept).released = kept.released
      /\ Desk!Purged(kept).keys = kept.keys
  BY <1>4, PurgedFields
<1>6. mem' = Desk!Purged(kept) /\ (store' = store \/ store' = kept)
  BY DEF Desk!Purge, kept
<1>7. StoreHolds(Desk!Purged(kept)) /\ StoreHolds(kept)
  BY <1>1, <1>4, <1>5, SessionsHold DEF DeskInv
<1>8. StoreHolds(mem)' /\ StoreHolds(store)'
  BY <1>1, <1>6, <1>7 DEF DeskInv, StoreHolds
<1> QED BY <1>1, <1>4, <1>5, <1>6, <1>8 DEF DeskInv, Desk!TypeOK

(* View keys are saved as they are issued.                                 *)
LEMMA KeysKeep ==
  ASSUME Desk!ConstantTypes, DeskInv, NEW a \in Accounts, Desk!IssueViewKey(a)
  PROVE  DeskInv'
<1>1. /\ mem \in Desk!Stored /\ mem.keys = viewKeys /\ viewKeys \in [Accounts -> 0..MaxKeys]
      /\ MaxKeys \in Nat /\ viewKeys[a] < MaxKeys
      /\ UNCHANGED <<serving, lapsed, due, old, begun, joined, shown>>
      /\ viewKeys' = [viewKeys EXCEPT ![a] = @ + 1]
  BY DEF DeskInv, StoreHolds, Desk!TypeOK, Desk!IssueViewKey, Desk!ConstantTypes
<1>2. viewKeys' \in [Accounts -> 0..MaxKeys] /\ viewKeys' = [viewKeys EXCEPT ![a] = viewKeys'[a]]
  BY <1>1
<1> DEFINE now == [mem EXCEPT !.keys[a] = viewKeys'[a]]
<1>3. now = [mem EXCEPT !.keys = [mem.keys EXCEPT ![a] = viewKeys'[a]]]
  OBVIOUS
<1>4. now = [mem EXCEPT !.keys = viewKeys']
  BY <1>1, <1>2, <1>3
<1>5. mem' = now /\ store' = now
  BY DEF Desk!IssueViewKey, Desk!Saved
<1> HIDE DEF now
<1>6. /\ now \in Desk!Stored /\ now.sessions = mem.sessions /\ now.keys = viewKeys'
      /\ now.queued = mem.queued /\ now.released = mem.released
  BY <1>1, <1>2, <1>4 DEF Desk!Stored
<1>7. StoreHolds(mem)' /\ StoreHolds(store)'
  BY <1>1, <1>5, <1>6 DEF DeskInv, StoreHolds
<1> QED BY <1>1, <1>2, <1>5, <1>6, <1>7 DEF DeskInv, Desk!TypeOK

(* Every step of the desk.                                                 *)
LEMMA DeskStep == Desk!ConstantTypes /\ DeskInv /\ [Desk!Next]_(Desk!vars) => DeskInv'
<1> SUFFICES ASSUME Desk!ConstantTypes, DeskInv, [Desk!Next]_(Desk!vars) PROVE DeskInv'
  OBVIOUS
<1>1. ASSUME \/ \E t \in Tokens : Desk!Lapse(t)
             \/ \E e \in Desk!Events : Desk!FallDue(e)
             \/ \E l \in Desk!Logs : Desk!Age(l)
             \/ Desk!Crash
             \/ UNCHANGED Desk!vars
      PROVE  DeskInv'
  BY <1>1 DEF Desk!Lapse, Desk!FallDue, Desk!Age, Desk!Crash, Desk!vars, Desk!history, DeskInv,
     StoreHolds, Desk!TypeOK
<1>2. ASSUME Desk!Restart PROVE DeskInv'
  BY <1>2 DEF Desk!Restart, Desk!history, DeskInv, StoreHolds, Desk!TypeOK
<1> QED BY <1>1, <1>2, EnrolmentKeeps, RelayKeeps, PurgeKeeps, KeysKeep DEF Desk!Next

(* Whatever was in memory only when the desk's process died.               *)
LEMMA DeskPromises == Desk!ConstantTypes /\ DeskInv => Desk!DeskHolds
<1> SUFFICES ASSUME Desk!ConstantTypes, DeskInv PROVE Desk!DeskHolds
  OBVIOUS
<1>1. Desk!HandshakesOnce
  BY DEF DeskInv, Desk!HandshakesOnce
<1>2. Desk!NewestKeyAttests
  BY DEF Desk!ConstantTypes, DeskInv, StoreHolds, Desk!TypeOK,
     Desk!NewestKeyAttests, Desk!Attests
<1>3. Desk!ReportsStand
  BY DEF DeskInv, StoreHolds, Desk!ReportsStand
<1> QED BY <1>1, <1>2, <1>3 DEF Desk!DeskHolds

-----------------------------------------------------------------------------
(* Receiving payments.                                                     *)

(* What was reported is accounted for, and an order gets no further than   *)
(* what was matched and confirmed allows, with it the calls in progress.   *)
Has(cs, o) == \E c \in Calls : <<c, o>> \in cs

InboundInv ==
  /\ Receive!TypeOK
  /\ \A pair \in reported : observed[pair[2]] = pair[1] \/ pair \in unmatched
  /\ \A o \in Orders :
       /\ observed[o] # None => status[o] # "none"
       /\ Has(confirmed, o) => observed[o] # None
       /\ status[o] = "credited" => Has(confirmed, o)
  /\ \A c \in Calls : confirm[c] # None /\ confirm[c].at = "signing" =>
       observed[confirm[c].order] # None
  /\ \A k \in Credits : credit[k] # None /\ credit[k].at = "proving" =>
       Has(confirmed, credit[k].order)

(* Nothing is minted, reported or called at the start.                     *)
LEMMA InboundStarts == Receive!ConstantTypes /\ Receive!Init => InboundInv
<1> SUFFICES ASSUME Receive!ConstantTypes, Receive!Init PROVE InboundInv
  OBVIOUS
<1>1. /\ revokedSeller = FALSE
      /\ status = [o \in Orders |-> "none"] /\ observed = [o \in Orders |-> None]
      /\ unmatched = {} /\ reported = {} /\ confirmed = {}
      /\ confirm = [c \in Calls |-> None] /\ credit = [k \in Credits |-> None]
      /\ tip = "opening" /\ burned = {} /\ receiveCrashes = 0 /\ MaxCrashes \in Nat
  BY DEF Receive!ConstantTypes, Receive!Init
<1>2. /\ status \in [Orders -> Receive!Statuses]
      /\ tip \in Receive!Commitments
  BY <1>1 DEF Receive!Statuses, Receive!Commitments
<1>3. /\ observed \in [Orders -> Payments \union {None}]
      /\ confirm \in [Calls -> Receive!ConfirmRecord \union {None}]
      /\ credit \in [Credits -> Receive!CreditRecord \union {None}]
  BY <1>1
<1>4. receiveCrashes \in 0..MaxCrashes
  BY <1>1
<1>5. Receive!TypeOK
  BY <1>1, <1>2, <1>3, <1>4 DEF Receive!TypeOK
<1>6. \A o \in Orders : status[o] = "none" /\ observed[o] = None /\ ~Has(confirmed, o)
  BY <1>1 DEF Has
<1> QED BY <1>1, <1>5, <1>6 DEF InboundInv

(* What is minted and matched stays so; what is confirmed is confirmed.    *)
OrdersKept ==
  /\ \A o \in Orders :
       /\ observed[o] # None => observed'[o] # None
       /\ status[o] # "none" => status'[o] # "none"
  /\ confirmed \subseteq confirmed'

(* What was confirmed stays confirmed, and Confirmations are what Has      *)
(* says.                                                                   *)
LEMMA ConfirmationsKept ==
  /\ \A cs, ds, o : cs \subseteq ds /\ Has(cs, o) => Has(ds, o)
  /\ \A o : Receive!Confirmations(o) # {} <=> Has(confirmed, o)
BY DEF Has, Receive!Confirmations

(* Calls that are still waiting waited for the same order before.          *)
WaitingKept ==
  /\ \A c \in Calls : confirm'[c] # None /\ confirm'[c].at = "signing" =>
       /\ confirm[c] # None /\ confirm[c].at = "signing"
       /\ confirm'[c].order = confirm[c].order /\ confirm[c].order \in Orders
  /\ \A k \in Credits : credit'[k] # None /\ credit'[k].at = "proving" =>
       /\ credit[k] # None /\ credit[k].at = "proving"
       /\ credit'[k].order = credit[k].order /\ credit[k].order \in Orders

(* When no call begins to sign or to prove, those that do are ones that    *)
(* did.                                                                    *)
LEMMA NothingNewWaits ==
  ASSUME InboundInv, OrdersKept, WaitingKept
  PROVE  /\ \A c \in Calls : confirm'[c] # None /\ confirm'[c].at = "signing" =>
              observed'[confirm'[c].order] # None
         /\ \A k \in Credits : credit'[k] # None /\ credit'[k].at = "proving" =>
              Has(confirmed', credit'[k].order)
<1>1. ASSUME NEW k \in Credits, credit'[k] # None, credit'[k].at = "proving"
      PROVE  Has(confirmed', credit'[k].order)
  <2>1. /\ credit[k] # None /\ credit[k].at = "proving" /\ credit'[k].order = credit[k].order
        /\ credit[k].order \in Orders
    BY <1>1 DEF WaitingKept
  <2>2. Has(confirmed, credit[k].order)
    BY <2>1 DEF InboundInv
  <2> QED BY <2>1, <2>2, ConfirmationsKept DEF OrdersKept
<1> QED BY <1>1 DEF InboundInv, OrdersKept, WaitingKept

(* The parts of the state a step leaves alone wait as before.              *)
LEMMA WaitingStays ==
  ASSUME InboundInv
  PROVE  /\ UNCHANGED <<confirm, credit>> => WaitingKept
         /\ \A c \in Calls : confirm[c] # None =>
              confirm[c] \in Receive!ConfirmRecord /\ confirm[c].order \in Orders
         /\ \A k \in Credits : credit[k] # None =>
              credit[k] \in Receive!CreditRecord /\ credit[k].order \in Orders
BY DEF InboundInv, Receive!TypeOK, Receive!ConfirmRecord, Receive!CreditRecord, WaitingKept

(* Destinations: minted, matched or flagged, reconciled.                   *)
LEMMA OrderKeeps ==
  ASSUME Receive!ConstantTypes, InboundInv, NEW o \in Orders,
         Receive!Mint(o) \/ Receive!Reconcile(o) \/ \E p \in Payments : Receive!Observe(o, p)
  PROVE  InboundInv'
<1>1. /\ UNCHANGED <<revokedSeller, confirmed, confirm, credit, tip, burned, receiveCrashes>>
      /\ status \in [Orders -> Receive!Statuses]
      /\ observed \in [Orders -> Payments \union {None}]
  BY DEF Receive!Mint, Receive!Reconcile, Receive!Observe, InboundInv, Receive!TypeOK
<1>3. CASE Receive!Mint(o) \/ Receive!Reconcile(o)
  <2>1. UNCHANGED <<observed, unmatched, reported>>
    BY <1>3 DEF Receive!Mint, Receive!Reconcile
  <2>2. /\ status' \in [Orders -> Receive!Statuses]
        /\ \A x \in Orders : /\ status[x] # "none" => status'[x] # "none"
                             /\ status'[x] = "credited" => status[x] = "credited"
    BY <1>1, <1>3 DEF Receive!Mint, Receive!Reconcile, Receive!Reconciled, Receive!Statuses
  <2>3. OrdersKept /\ WaitingKept
    BY <1>1, <2>1, <2>2, WaitingStays DEF OrdersKept
  <2> QED BY <1>1, <2>1, <2>2, <2>3, NothingNewWaits DEF InboundInv, Receive!TypeOK
<1>4. ASSUME NEW p \in Payments, Receive!Observe(o, p) PROVE InboundInv'
  <2>1. reported' = reported \union {<<p, o>>}
    BY <1>4 DEF Receive!Observe
  <2>2. \/ unmatched' = unmatched \union {<<p, o>>} /\ UNCHANGED <<status, observed>>
        \/ /\ observed' = [observed EXCEPT ![o] = p] /\ status[o] # "none"
           /\ status' = [status EXCEPT ![o] = IF @ = "minted" THEN "inbound_detected" ELSE @]
           /\ unmatched' = unmatched /\ (observed[o] = None \/ observed[o] = p)
    BY <1>4 DEF Receive!Observe, Receive!TakenByAnother
  <2>3. p # None
    BY DEF Receive!ConstantTypes
  <2>4. /\ status' \in [Orders -> Receive!Statuses]
        /\ observed' \in [Orders -> Payments \union {None}]
        /\ \A x \in Orders : /\ status[x] # "none" => status'[x] # "none"
                             /\ status'[x] = "credited" => status[x] = "credited"
                             /\ observed[x] # None => observed'[x] = observed[x]
                             /\ observed'[x] # None => status'[x] # "none"
    <3>1. \A x \in Orders : observed[x] # None => status[x] # "none"
      BY DEF InboundInv
    <3> DEFINE now == IF status[o] = "minted" THEN "inbound_detected" ELSE status[o]
    <3>2. /\ now \in Receive!Statuses /\ (status[o] # "none" => now # "none")
          /\ (now = "credited" => status[o] = "credited")
      BY <1>1 DEF Receive!Statuses
    <3>3. CASE UNCHANGED <<status, observed>>
      BY <1>1, <3>1, <3>3
    <3>4. CASE /\ observed' = [observed EXCEPT ![o] = p] /\ status[o] # "none"
               /\ status' = [status EXCEPT ![o] = now]
               /\ observed[o] = None \/ observed[o] = p
      <4> HIDE DEF now
      <4>1. /\ status' \in [Orders -> Receive!Statuses]
            /\ \A x \in Orders : status'[x] = IF x = o THEN now ELSE status[x]
        BY <1>1, <3>2, <3>4
      <4>2. /\ observed' \in [Orders -> Payments \union {None}]
            /\ \A x \in Orders : observed'[x] = IF x = o THEN p ELSE observed[x]
        BY <1>1, <3>4
      <4> QED BY <2>3, <3>1, <3>2, <3>4, <4>1, <4>2
    <3> QED BY <2>2, <3>3, <3>4
  <2>5. /\ unmatched' \subseteq Payments \X Orders /\ reported' \subseteq Payments \X Orders
        /\ \A pair \in reported' : observed'[pair[2]] = pair[1] \/ pair \in unmatched'
    <3>1. /\ unmatched \subseteq Payments \X Orders /\ reported \subseteq Payments \X Orders
          /\ \A pair \in reported : observed[pair[2]] = pair[1] \/ pair \in unmatched
      BY DEF InboundInv, Receive!TypeOK
    <3>2. ASSUME NEW pair \in reported, observed[pair[2]] = pair[1]
          PROVE  observed'[pair[2]] = pair[1]
      <4>1. pair[1] \in Payments /\ pair[2] \in Orders
        BY <3>1
      <4>2. pair[1] # None
        BY <4>1 DEF Receive!ConstantTypes
      <4> QED BY <2>4, <3>2, <4>1, <4>2
    <3>3. observed'[o] = p \/ <<p, o>> \in unmatched'
      BY <1>1, <2>2
    <3>4. <<p, o>>[1] = p /\ <<p, o>>[2] = o
      OBVIOUS
    <3>5. unmatched \subseteq unmatched'
      BY <2>2
    <3> QED BY <2>1, <2>2, <3>1, <3>2, <3>3, <3>4, <3>5
  <2>6. OrdersKept /\ WaitingKept
    BY <1>1, <2>4, WaitingStays DEF OrdersKept
  <2> QED BY <1>1, <2>4, <2>5, <2>6, NothingNewWaits DEF InboundInv, Receive!TypeOK
<1> QED BY <1>3, <1>4

(* Confirmations: waited for when the order was matched.                   *)
LEMMA ConfirmKeeps ==
  ASSUME Receive!ConstantTypes, InboundInv, NEW c \in Calls,
         Receive!BeginConfirm(c) \/ Receive!EndConfirm(c) \/ Receive!FailConfirm(c)
  PROVE  InboundInv'
<1>1. /\ UNCHANGED <<revokedSeller, observed, unmatched, reported, credit, tip, burned,
                     receiveCrashes>>
      /\ status \in [Orders -> Receive!Statuses] /\ confirmed \subseteq Calls \X Orders
      /\ confirm \in [Calls -> Receive!ConfirmRecord \union {None}]
  BY DEF Receive!BeginConfirm, Receive!EndConfirm, Receive!FailConfirm, Receive!orderVars,
     InboundInv, Receive!TypeOK
<1>2. CASE Receive!BeginConfirm(c)
  <2>1. PICK o \in Orders :
          /\ Receive!Matched(o)
          /\ status' = [status EXCEPT ![o] = Receive!Reconciled(o)]
          /\ confirm' = [confirm EXCEPT ![c] =
               [at |-> IF Receive!HasOne(o) \/ revokedSeller THEN "answered" ELSE "signing",
                order |-> o]]
    BY <1>2 DEF Receive!BeginConfirm
  <2> DEFINE at == IF Receive!HasOne(o) \/ revokedSeller THEN "answered" ELSE "signing"
             now == [at |-> at, order |-> o]
  <2>2. now \in Receive!ConfirmRecord /\ now.order = o
    BY DEF Receive!ConfirmRecord
  <2>3. confirm' = [confirm EXCEPT ![c] = now]
    BY <2>1
  <2> HIDE DEF now, at
  <2>4. confirm' \in [Calls -> Receive!ConfirmRecord \union {None}]
    BY <1>1, <2>2, <2>3
  <2>5. /\ status' \in [Orders -> Receive!Statuses]
        /\ \A x \in Orders : /\ status[x] # "none" => status'[x] # "none"
                             /\ status'[x] = "credited" => status[x] = "credited"
    BY <1>1, <2>1 DEF Receive!Reconciled, Receive!Statuses
  <2>6. confirmed' = confirmed
    BY <1>2 DEF Receive!BeginConfirm
  <2>8. \A d \in Calls : confirm'[d] # None /\ confirm'[d].at = "signing" =>
               observed'[confirm'[d].order] # None
    BY <1>1, <2>1, <2>2, <2>3 DEF InboundInv, Receive!Matched
  <2>9. \A k \in Credits : credit'[k] # None /\ credit'[k].at = "proving" =>
               Has(confirmed', credit'[k].order)
    BY <1>1, <2>6, WaitingStays DEF InboundInv
  <2> QED BY <1>1, <2>4, <2>5, <2>6, <2>8, <2>9 DEF InboundInv, Receive!TypeOK
<1>3. CASE Receive!EndConfirm(c) \/ Receive!FailConfirm(c)
  <2> DEFINE now == [confirm[c] EXCEPT !.at = "answered"]
  <2>1. /\ confirm[c] # None /\ confirm[c].at = "signing"
        /\ confirm' = [confirm EXCEPT ![c] = now]
        /\ confirmed \subseteq confirmed'
    BY <1>3 DEF Receive!EndConfirm, Receive!FailConfirm, Receive!orderVars
  <2>2. /\ confirm[c] \in Receive!ConfirmRecord /\ confirm[c].order \in Orders
        /\ observed[confirm[c].order] # None
    BY <2>1, WaitingStays DEF InboundInv
  <2>3. now \in Receive!ConfirmRecord /\ now.at = "answered"
    BY <2>2 DEF Receive!ConfirmRecord
  <2> HIDE DEF now
  <2> DEFINE o == confirm[c].order
  <2>4. /\ confirmed' \subseteq Calls \X Orders
        /\ status' \in [Orders -> Receive!Statuses]
        /\ \A x \in Orders :
             /\ status[x] # "none" => status'[x] # "none"
             /\ status'[x] = "credited" => status[x] = "credited"
             /\ Has(confirmed', x) => Has(confirmed, x) \/ x = o
    <3>1. CASE Receive!EndConfirm(c)
      <4>1. /\ confirmed' = confirmed \union {<<c, o>>}
            /\ status' = [status EXCEPT ![o] = "confirmed"]
        BY <3>1 DEF Receive!EndConfirm
      <4>2. \A x \in Orders : Has(confirmed', x) =>
               Has(confirmed, x) \/ x = o
        BY <4>1 DEF Has
      <4>3. "confirmed" \in Receive!Statuses
        BY DEF Receive!Statuses
      <4> HIDE DEF o
      <4>4. o \in Orders
        BY <2>2 DEF o
      <4>5. /\ status' \in [Orders -> Receive!Statuses]
            /\ \A x \in Orders : status'[x] = IF x = o THEN "confirmed" ELSE status[x]
        BY <1>1, <4>1, <4>3, <4>4
      <4>6. confirmed' \subseteq Calls \X Orders
        BY <1>1, <4>1, <4>4
      <4> QED BY <4>2, <4>5, <4>6
    <3>2. CASE Receive!FailConfirm(c)
      BY <1>1, <3>2 DEF Receive!FailConfirm, Receive!orderVars
    <3> QED BY <1>3, <3>1, <3>2
  <2>5. \A x \in Orders : Has(confirmed, x) => Has(confirmed', x)
    BY <2>1, ConfirmationsKept
  <2>6. OrdersKept /\ WaitingKept
    BY <1>1, <2>1, <2>3, <2>4, WaitingStays DEF OrdersKept, WaitingKept
  <2>7. confirm' \in [Calls -> Receive!ConfirmRecord \union {None}]
    BY <1>1, <2>1, <2>3
  <2> HIDE DEF o
  <2>8. observed[o] # None
    BY <2>2 DEF o
  <2>9. \A x \in Orders :
          /\ observed'[x] # None => status'[x] # "none"
          /\ Has(confirmed', x) => observed'[x] # None
          /\ status'[x] = "credited" => Has(confirmed', x)
    BY <1>1, <2>4, <2>5, <2>8 DEF InboundInv
  <2> QED BY <1>1, <2>4, <2>6, <2>7, <2>9, NothingNewWaits DEF InboundInv, Receive!TypeOK
<1> QED BY <1>2, <1>3

(* Credits: of orders that are confirmed.                                  *)
LEMMA CreditKeeps ==
  ASSUME Receive!ConstantTypes, InboundInv, NEW k \in Credits,
         Receive!BeginCredit(k) \/ Receive!EndCredit(k) \/ Receive!FailCredit(k)
  PROVE  InboundInv' /\ Receive!CreditKeepsOthers
<1>1. /\ UNCHANGED <<revokedSeller, observed, unmatched, reported, confirmed, confirm,
                     receiveCrashes>>
      /\ status \in [Orders -> Receive!Statuses]
      /\ credit \in [Credits -> Receive!CreditRecord \union {None}]
      /\ tip \in Receive!Commitments /\ burned \subseteq Receive!Commitments
      /\ k \in Receive!Commitments
  BY DEF Receive!BeginCredit, Receive!EndCredit, Receive!FailCredit, Receive!orderVars,
     InboundInv, Receive!TypeOK, Receive!Commitments
<1>3. CASE Receive!BeginCredit(k)
  <2>1. PICK o \in Orders, acc \in BOOLEAN, was \in burned \union {tip} :
          /\ Has(confirmed, o)
          /\ credit' = [credit EXCEPT ![k] = [at |-> "proving", order |-> o,
                                              account |-> acc, old |-> was]]
    BY <1>3, ConfirmationsKept DEF Receive!BeginCredit
  <2> DEFINE now == [at |-> "proving", order |-> o, account |-> acc, old |-> was]
  <2>2. now \in Receive!CreditRecord /\ now.order = o
    BY <1>1 DEF Receive!CreditRecord
  <2>3. credit' = [credit EXCEPT ![k] = now]
    BY <2>1
  <2> HIDE DEF now
  <2>4. credit' \in [Credits -> Receive!CreditRecord \union {None}]
    BY <1>1, <2>2, <2>3
  <2>5. UNCHANGED <<status, tip, burned>>
    BY <1>3 DEF Receive!BeginCredit, Receive!orderVars
  <2>6. \A j \in Credits : credit'[j] # None /\ credit'[j].at = "proving" =>
               Has(confirmed', credit'[j].order)
    <3> SUFFICES ASSUME NEW j \in Credits, credit'[j] # None, credit'[j].at = "proving"
                 PROVE  Has(confirmed', credit'[j].order)
      OBVIOUS
    <3>1. CASE j = k
      BY <1>1, <2>1, <2>2, <2>3, <3>1
    <3>2. CASE j # k
      BY <1>1, <2>3, <3>2, WaitingStays DEF InboundInv
    <3> QED BY <3>1, <3>2
  <2>7. InboundInv'
    BY <1>1, <2>4, <2>5, <2>6 DEF InboundInv, Receive!TypeOK
  <2> QED BY <2>5, <2>7 DEF Receive!CreditKeepsOthers
<1>4. CASE Receive!EndCredit(k) \/ Receive!FailCredit(k)
  <2>1. PICK place \in {"answered", "refused"} :
          credit' = [credit EXCEPT ![k] = [credit[k] EXCEPT !.at = place]]
    BY <1>4 DEF Receive!EndCredit, Receive!FailCredit
  <2> DEFINE now == [credit[k] EXCEPT !.at = place]
             o == credit[k].order
  <2>2. credit[k] # None /\ credit[k].at = "proving"
    BY <1>4 DEF Receive!EndCredit, Receive!FailCredit
  <2>3. /\ credit[k] \in Receive!CreditRecord /\ o \in Orders
        /\ Has(confirmed, o)
    BY <2>2, WaitingStays DEF InboundInv
  <2>4. now \in Receive!CreditRecord /\ now.at = place
    BY <2>3 DEF Receive!CreditRecord
  <2>5. /\ \/ status' = status \/ status' = [status EXCEPT ![o] = "credited"]
        /\ \/ UNCHANGED <<tip, burned>>
           \/ tip' = k /\ burned' = burned \union {tip} /\ credit[k].old = tip
    BY <1>4 DEF Receive!EndCredit, Receive!FailCredit, Receive!orderVars, Receive!StillHolds
  <2>6. credit' = [credit EXCEPT ![k] = now]
    BY <2>1
  <2> HIDE DEF now, o
  <2>7. /\ status' \in [Orders -> Receive!Statuses]
        /\ \A x \in Orders : /\ status[x] # "none" => status'[x] # "none"
                             /\ status'[x] = "credited" => status[x] = "credited" \/ x = o
    BY <1>1, <2>3, <2>5 DEF Receive!Statuses
  <2>8. OrdersKept /\ WaitingKept
    BY <1>1, <2>4, <2>6, <2>7, WaitingStays DEF OrdersKept, WaitingKept
  <2>9. credit' \in [Credits -> Receive!CreditRecord \union {None}]
    BY <1>1, <2>4, <2>6
  <2>10. \A x \in Orders :
          /\ observed'[x] # None => status'[x] # "none"
          /\ status'[x] = "credited" => Has(confirmed', x)
    BY <1>1, <2>3, <2>7 DEF InboundInv
  <2>11. InboundInv'
    BY <1>1, <2>5, <2>7, <2>8, <2>9, <2>10, NothingNewWaits DEF InboundInv, Receive!TypeOK
  <2>12. Receive!CreditKeepsOthers
    <3> SUFFICES ASSUME NEW j \in Credits, tip' = j, tip # j PROVE credit[j].old = tip
      BY DEF Receive!CreditKeepsOthers
    <3> QED BY <2>5
  <2> QED BY <2>11, <2>12
<1> QED BY <1>3, <1>4

(* Other handlers, revocations and restarts touch no order.                *)
LEMMA OthersKeep ==
  ASSUME Receive!ConstantTypes, InboundInv,
         \/ \E x \in Others : Receive!OtherHandler(x)
         \/ Receive!Revoke \/ Receive!Crash \/ UNCHANGED Receive!vars
  PROVE  InboundInv' /\ Receive!CreditKeepsOthers
<1>1. UNCHANGED <<status, observed, unmatched, reported, confirmed>>
  BY DEF Receive!OtherHandler, Receive!Revoke, Receive!Crash, Receive!vars, Receive!orderVars
<1>3. ASSUME WaitingKept, revokedSeller' \in BOOLEAN,
             confirm' \in [Calls -> Receive!ConfirmRecord \union {None}],
             credit' \in [Credits -> Receive!CreditRecord \union {None}],
             tip' \in Receive!Commitments, burned' \subseteq Receive!Commitments,
             receiveCrashes' \in 0..MaxCrashes
      PROVE  InboundInv'
  <2>1. OrdersKept
    BY <1>1 DEF OrdersKept
  <2> QED BY <1>1, <1>3, <2>1, NothingNewWaits DEF InboundInv, Receive!TypeOK
<1>4. CASE Receive!Crash
  <2>1. /\ UNCHANGED <<revokedSeller, tip, burned>> /\ receiveCrashes' \in 0..MaxCrashes
    <3>1. /\ receiveCrashes \in 0..MaxCrashes /\ MaxCrashes \in Nat
          /\ receiveCrashes < MaxCrashes /\ receiveCrashes' = receiveCrashes + 1
      BY <1>4 DEF Receive!Crash, InboundInv, Receive!TypeOK, Receive!ConstantTypes
    <3>2. UNCHANGED <<revokedSeller, tip, burned>>
      BY <1>4 DEF Receive!Crash
    <3> QED BY <3>1, <3>2
  <2>2. ASSUME NEW c \in Calls
        PROVE  /\ confirm'[c] \in Receive!ConfirmRecord \union {None}
               /\ confirm'[c] # None => confirm'[c].at # "signing"
    <3>1. confirm'[c] = IF confirm[c] # None /\ confirm[c].at = "signing"
                        THEN [confirm[c] EXCEPT !.at = "lost"] ELSE confirm[c]
      BY <1>4 DEF Receive!Crash
    <3> QED BY <3>1, WaitingStays DEF Receive!ConfirmRecord
  <2>3. ASSUME NEW k \in Credits
        PROVE  /\ credit'[k] \in Receive!CreditRecord \union {None}
               /\ credit'[k] # None => credit'[k].at # "proving"
    <3>1. credit'[k] = IF credit[k] # None /\ credit[k].at = "proving"
                       THEN [credit[k] EXCEPT !.at = "lost"] ELSE credit[k]
      BY <1>4 DEF Receive!Crash
    <3> QED BY <3>1, WaitingStays DEF Receive!CreditRecord
  <2>4. confirm' \in [Calls -> Receive!ConfirmRecord \union {None}]
        /\ credit' \in [Credits -> Receive!CreditRecord \union {None}]
    BY <1>4, <2>2, <2>3 DEF Receive!Crash
  <2>5. WaitingKept
    BY <2>2, <2>3 DEF WaitingKept
  <2>6. tip \in Receive!Commitments /\ burned \subseteq Receive!Commitments
        /\ revokedSeller \in BOOLEAN
    BY DEF InboundInv, Receive!TypeOK
  <2> QED BY <1>3, <2>1, <2>4, <2>5, <2>6 DEF Receive!CreditKeepsOthers
<1>5. CASE UNCHANGED <<confirm, credit>> /\ ~Receive!Crash
  <2> DEFINE goal == /\ revokedSeller' \in BOOLEAN /\ receiveCrashes' \in 0..MaxCrashes
                     /\ tip' \in Receive!Commitments /\ burned' \subseteq Receive!Commitments
                     /\ tip' = tip \/ tip' \in Others
  <2>1. goal
    <3>1. /\ revokedSeller \in BOOLEAN /\ receiveCrashes \in 0..MaxCrashes
          /\ tip \in Receive!Commitments /\ burned \subseteq Receive!Commitments
      BY DEF InboundInv, Receive!TypeOK
    <3>2. ASSUME NEW x \in Others, Receive!OtherHandler(x) PROVE goal
      BY <3>1, <3>2 DEF Receive!OtherHandler, Receive!Commitments
    <3>3. CASE Receive!Revoke \/ UNCHANGED Receive!vars
      BY <3>1, <3>3 DEF Receive!Revoke, Receive!vars
    <3> HIDE DEF goal
    <3> QED BY <1>5, <3>2, <3>3
  <2>2. InboundInv'
    BY <1>3, <1>5, <2>1, WaitingStays DEF InboundInv, Receive!TypeOK
  <2> QED BY <2>1, <2>2 DEF Receive!CreditKeepsOthers, Receive!ConstantTypes
<1> QED BY <1>4, <1>5 DEF Receive!OtherHandler, Receive!Revoke, Receive!vars

(* Steps of orders and confirmations leave the balance alone.              *)
LEMMA InboundStep ==
  Receive!ConstantTypes /\ InboundInv /\ [Receive!Next]_(Receive!vars) =>
    InboundInv' /\ Receive!CreditKeepsOthers
<1> SUFFICES ASSUME Receive!ConstantTypes, InboundInv, [Receive!Next]_(Receive!vars)
             PROVE  InboundInv' /\ Receive!CreditKeepsOthers
  OBVIOUS
<1>1. ASSUME NEW o \in Orders,
             Receive!Mint(o) \/ Receive!Reconcile(o) \/ \E p \in Payments : Receive!Observe(o, p)
      PROVE  InboundInv' /\ Receive!CreditKeepsOthers
  <2>1. tip' = tip
    BY <1>1 DEF Receive!Mint, Receive!Reconcile, Receive!Observe
  <2> QED BY <1>1, <2>1, OrderKeeps DEF Receive!CreditKeepsOthers
<1>2. ASSUME NEW c \in Calls,
             Receive!BeginConfirm(c) \/ Receive!EndConfirm(c) \/ Receive!FailConfirm(c)
      PROVE  InboundInv' /\ Receive!CreditKeepsOthers
  <2>1. tip' = tip
    BY <1>2 DEF Receive!BeginConfirm, Receive!EndConfirm, Receive!FailConfirm
  <2> QED BY <1>2, <2>1, ConfirmKeeps DEF Receive!CreditKeepsOthers
<1> QED BY <1>1, <1>2, CreditKeeps, OthersKeep DEF Receive!Next

(* The buyer is told "matched" of matched orders only.                     *)
LEMMA InboundPromises == InboundInv => Receive!InboundAccounted
<1> SUFFICES ASSUME InboundInv PROVE Receive!InboundAccounted
  OBVIOUS
<1>1. \A o \in Orders : Receive!BuyerState(o) = "payment_received_and_matched" <=>
                        Has(confirmed, o)
  <2> SUFFICES ASSUME NEW o \in Orders
               PROVE  Receive!BuyerState(o) = "payment_received_and_matched" <=>
                        Has(confirmed, o)
    OBVIOUS
  <2>1. Receive!Confirmations(o) # {} <=> Has(confirmed, o)
    BY ConfirmationsKept
  <2>2. CASE Receive!Confirmations(o) # {}
    BY <2>1, <2>2 DEF Receive!BuyerState
  <2>3. CASE ~(Receive!Confirmations(o) # {})
    BY <2>1, <2>3 DEF Receive!BuyerState
  <2> QED BY <2>2, <2>3
<1> QED BY <1>1 DEF InboundInv, Receive!InboundAccounted

-----------------------------------------------------------------------------
(* The composition.                                                        *)

(* Whichever service runs, the contract's variables behave as the contract *)
(* does,                                                                   *)
LEMMA CompactRuns == ServicesSpec => Compact!Spec
<1>1. ServicesInit => Compact!Init
  BY DEF ServicesInit
<1>2. [ServicesNext]_allVars => [Compact!Next]_(Compact!vars)
  BY DEF ServicesNext, allVars, compactVars, Compact!vars
<1> QED BY <1>1, <1>2, PTL DEF ServicesSpec, Compact!Spec

(* those of the authorization as the authorization does,                   *)
LEMMA AuthRuns == ServicesSpec => Spec
<1>1. ServicesInit => Init
  BY DEF ServicesInit
<1>2. [ServicesNext]_allVars => [Next]_vars
  BY DEF ServicesNext, allVars, vars
<1> QED BY <1>1, <1>2, PTL DEF ServicesSpec, Spec

(* those of the platform as the platform does,                             *)
LEMMA OnceRuns == ServicesSpec => Once!OnceSpec
<1>1. ServicesInit => Once!Init
  BY DEF ServicesInit
<1>2. [ServicesNext]_allVars => [Once!OnceNext]_(Once!vars)
  BY DEF ServicesNext, allVars, onceVars, Once!vars, Once!platformVars, Once!railVars,
     Once!moneyVars, Once!boundVars
<1> QED BY <1>1, <1>2, PTL DEF ServicesSpec, Once!OnceSpec

(* and the desk and the receiving side keep their invariants, crediting in *)
(* place.                                                                  *)
LEMMA DeskRuns == ASSUME ServicesConstants PROVE ServicesSpec => []DeskInv
<1>1. Desk!ConstantTypes
  BY DEF ServicesConstants
<1>2. ServicesInit => DeskInv
  BY <1>1, DeskStarts DEF ServicesInit
<1>3. [ServicesNext]_allVars => [Desk!Next]_(Desk!vars)
  BY DEF ServicesNext, allVars, deskVars, Desk!vars
<1>4. DeskInv /\ [ServicesNext]_allVars => DeskInv'
  BY <1>1, <1>3, DeskStep
<1> QED BY <1>2, <1>4, PTL DEF ServicesSpec

(* The same of receiving payments, with what a step that credits may do.   *)
LEMMA ReceiveRuns ==
  ASSUME ServicesConstants
  PROVE  ServicesSpec => []InboundInv /\ [][InboundInv' /\ Receive!CreditKeepsOthers]_allVars
<1>1. Receive!ConstantTypes
  BY DEF ServicesConstants
<1>2. ServicesInit => InboundInv
  BY <1>1, InboundStarts DEF ServicesInit
<1>3. [ServicesNext]_allVars => [Receive!Next]_(Receive!vars)
  BY DEF ServicesNext, allVars, receiveVars, Receive!vars
<1>4. InboundInv /\ [ServicesNext]_allVars => InboundInv' /\ Receive!CreditKeepsOthers
  BY <1>1, <1>3, InboundStep
<1>5. InboundInv /\ [ServicesNext]_allVars =>
        [InboundInv' /\ Receive!CreditKeepsOthers]_allVars
  BY <1>4
<1> QED BY <1>2, <1>4, <1>5, PTL DEF ServicesSpec

(* Every reachable state of the service that runs is well typed.           *)
THEOREM ServicesTyping == ASSUME ServicesConstants PROVE ServicesSpec => []OtherTypes
<1>1. Compact!ConstantTypes /\ Once!ConstantTypes /\ Once!NoneIsFresh
  BY DEF ServicesConstants
<1>2. Compact!Spec => []Compact!TypeOK
  BY <1>1, Compact!Typing
<1>3. Once!OnceSpec => []Once!TypeOK
  BY <1>1, Once!OnceTyping
<1>4. Compact!TypeOK /\ InboundInv /\ Once!TypeOK /\ DeskInv => OtherTypes
  BY DEF OtherTypes, InboundInv, DeskInv
<1> QED BY <1>2, <1>3, <1>4, CompactRuns, OnceRuns, DeskRuns, ReceiveRuns, PTL

(* Beside the other services too, each challenge authorizes once, a signed *)
(* intent under the limit, and that it was issued for if the server made   *)
(* the proof (verifyAuthorizedTransaction).                                *)
THEOREM AuthorizationsHold == ServicesSpec => [](TypeOK /\ AuthorizationIsEarned)
BY AuthRuns, Typing, AuthorizationsAreEarned, PTL

(* The contract in memory is the one a start rebuilds from the file, every *)
(* attestation given out is recorded in it exactly once, and a payment     *)
(* nobody interferes with is accepted, in whatever order calls, circuits   *)
(* and restarts come (executeCircuit, replayPersisted).                    *)
THEOREM ContractKeeps == ASSUME ServicesConstants PROVE ServicesSpec => []ContractHolds
<1>1. Compact!ConstantTypes
  BY DEF ServicesConstants
<1>2. Compact!Spec =>
        [](Compact!ReplayRestores /\ Compact!AttestedIsRecorded /\ Compact!UndisturbedIsAccepted)
  BY <1>1, Compact!ContractKept
<1>3. Compact!ReplayRestores /\ Compact!AttestedIsRecorded /\ Compact!UndisturbedIsAccepted =>
        ContractHolds
  BY DEF ContractHolds
<1> QED BY <1>2, <1>3, CompactRuns, PTL

(* What arrives for an order is matched to it or listed as unmatched, an   *)
(* order is credited only when a confirmation was signed for what arrived, *)
(* and a step that credits overwrites nothing another handler has written  *)
(* between its awaits (the receive handlers).                              *)
THEOREM InboundKeeps == ASSUME ServicesConstants PROVE ServicesSpec => InboundHolds
<1>1. InboundInv => Receive!InboundAccounted
  BY InboundPromises
<1>2. (InboundInv => Receive!InboundAccounted)'
  BY InboundPromises, PTL
<1>3. [InboundInv' /\ Receive!CreditKeepsOthers]_allVars =>
        [service = "receive" =>
           Receive!InboundAccounted' /\ Receive!CreditKeepsOthers]_allVars
  BY <1>2
<1> QED BY <1>3, ReceiveRuns, PTL DEF InboundHolds

(* On local rails, with routes settled and payments refunded once, the     *)
(* rails' legs and the two balances are what the payments say              *)
(* (settleUniversal, refundUniversal).                                     *)
THEOREM MoneyKeeps == ASSUME ServicesConstants PROVE ServicesSpec => []MoneyFollowsPayments
<1>1. Once!ConstantTypes /\ Once!NoneIsFresh
  BY DEF ServicesConstants
<1>2. Once!LocalOnly
  BY DEF Once!LocalOnly
<1>3. Once!OnceSpec => [](Once!LegsFollowPayments /\ Once!BalancesFollowPayments)
  BY <1>1, <1>2, Once!MoneyFollows
<1>4. Once!LegsFollowPayments /\ Once!BalancesFollowPayments => MoneyFollowsPayments
  BY DEF MoneyFollowsPayments
<1> QED BY <1>3, <1>4, OnceRuns, PTL

(* A session token completes one enrolment, an account's newest view key   *)
(* is the one that attests, and a report released stays released, though   *)
(* the desk saves its store late and restarts in between (complianceDesk). *)
THEOREM DeskKeeps == ASSUME ServicesConstants PROVE ServicesSpec => []DeskHolds
<1>1. Desk!ConstantTypes
  BY DEF ServicesConstants
<1>2. DeskInv => DeskHolds
  BY <1>1, DeskPromises DEF DeskHolds
<1> QED BY <1>2, DeskRuns, PTL
=============================================================================
