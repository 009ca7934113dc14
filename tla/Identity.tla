------------------------------- MODULE Identity -------------------------------
(***************************************************************************)
(* Credentials: issuance (services/kycIssuance.ts), the registry of leaves *)
(* and its root (store.ts issueKyc, kycRegistry.ts), revocation            *)
(* (revocation.ts), the sanctions rescreen (sanctionsRescreen.ts), and the *)
(* sessions that rest on a credential (services/nyxproof.ts with the       *)
(* device's side, src/lib/nyxproof.ts).                                    *)
(*                                                                         *)
(* No handler awaits, and each saves before it answers, so each is a step. *)
(* Digests are ideal: a leaf is the document and the jurisdiction it is    *)
(* computed from, its nullifier is the document, a root is the sequence of *)
(* the leaves it is computed from.                                         *)
(***************************************************************************)
EXTENDS Integers, FiniteSets, Sequences

CONSTANTS
  Names,          \* display names, compared without case
  Documents,      \* hashes of document references
  Jurisdictions,
  Domestic,       \* "IN", the jurisdiction a seeded peer gets
  Nonces,         \* of challenges a relying party asks for
  Intents,        \* commitments of payments; the challenge is derived from one
  MaxIssuances,   \* bound: issuances asked for
  None

(* What the constants have to be.                                          *)
ConstantTypes ==
  /\ Domestic \in Jurisdictions
  /\ Nonces \cap Intents = {}
  /\ MaxIssuances \in Nat
  /\ None \notin Documents

Leaf == [doc : Documents, jur : Jurisdictions]

VARIABLES
  leaves,     \* kycLeaves: [of, revoked] in the order they were issued
  root,       \* kycRoot; None is that of a new store, which no leaves have
  revoked,    \* revokedNullifiers
  issuance,   \* issuanceRecords: [of, clear, stale]; "of" is None for a refusal
  account,    \* credential of a registered name
  pending,    \* nyxproofChallenges
  proof,      \* the session proof a device holds for a challenge or an intent
  burned,     \* spentChallenges
  sessions    \* history: sessions that were accepted

vars == <<leaves, root, revoked, issuance, account, pending, proof, burned, sessions>>
registryVars == <<leaves, root, revoked, issuance, account>>
sessionVars == <<pending, proof, burned, sessions>>

Credential == [of : Leaf, revoked : BOOLEAN]
Issuance == [of : Leaf \union {None}, clear : BOOLEAN, stale : BOOLEAN]
Root == Seq(Leaf) \union {None}
Challenge == [root : Root, unlinkable : BOOLEAN, over : BOOLEAN]
Proof == [of : Nonces \union Intents, root : Root,
          leaf : Leaf \union {None}, over : BOOLEAN]
Session == [of : Nonces \union Intents, linked : BOOLEAN,
            live : BOOLEAN, current : BOOLEAN, inTime : BOOLEAN]

TypeOK ==
  /\ leaves \in Seq(Credential) /\ root \in Root
  /\ revoked \subseteq Documents
  /\ issuance \in Seq(Issuance)
  /\ account \in [Names -> Leaf \union {None}]
  /\ pending \in [Nonces -> Challenge \union {None}]
  /\ proof \in [Nonces \union Intents -> Proof \union {None}]
  /\ burned \subseteq Nonces \union Intents
  /\ \A c \in burned \cap Nonces : pending[c] = None
  /\ sessions \subseteq Session

Init ==
  /\ leaves = <<>> /\ root = None /\ revoked = {} /\ issuance = <<>>
  /\ account = [u \in Names |-> None]
  /\ pending = [c \in Nonces |-> None] /\ proof = [c \in Nonces \union Intents |-> None]
  /\ burned = {} /\ sessions = {}

-----------------------------------------------------------------------------
(* Registry.                                                               *)

First(found) == CHOOSE i \in found : \A j \in found : i <= j

(* recomputeRoot: the leaves that are not revoked, in their order.  The    *)
(* n-th of them is where n are reached.                                    *)
Active(all) ==
  LET live == {i \in 1..Len(all) : ~all[i].revoked}
      Reached(n) == {i \in 1..Len(all) : Cardinality(live \cap (1..i)) >= n}
  IN [n \in 1..Cardinality(live) |-> all[First(Reached(n))].of]

(* Where a leaf is, and where the leaves with a nullifier are.             *)
PlacesOf(all, l) == {i \in 1..Len(all) : all[i].of = l}
PlacesUnder(all, d) == {i \in 1..Len(all) : all[i].of.doc = d}
FirstOf(all, d) == First(PlacesUnder(all, d))

(* issueKyc appends a leaf, even one that is there already, and publishing *)
(* it adds nothing; createPublicAccount ties the name to it.               *)
Enrol(u, l) ==
  /\ leaves' = Append(leaves, [of |-> l, revoked |-> FALSE])
  /\ root' = Active(leaves')
  /\ account' = [account EXCEPT ![u] = l]
  /\ UNCHANGED revoked

(* POST /api/register: one account per name; the issuance is recorded, as  *)
(* a refusal when the provider does not pass the document.                 *)
Register(u, d, j, pass, clear) ==
  /\ account[u] = None /\ Len(issuance) < MaxIssuances
  /\ pass => clear
  /\ LET l == [doc |-> d, jur |-> j]
     IN /\ issuance' = Append(issuance, [of |-> IF pass THEN l ELSE None,
                                         clear |-> clear, stale |-> FALSE])
        /\ IF pass THEN Enrol(u, l) ELSE UNCHANGED <<leaves, root, revoked, account>>
  /\ UNCHANGED sessionVars

(* POST /api/seed/peer: an account with no issuance record.                *)
SeedPeer(u, d) ==
  /\ account[u] = None
  /\ Enrol(u, [doc |-> d, jur |-> Domestic])
  /\ UNCHANGED <<issuance, sessionVars>>

(* revokeByNullifier: the first leaf with the nullifier, not the others.   *)
RevokedIn(all, d) ==
  IF PlacesUnder(all, d) = {} THEN all
  ELSE [all EXCEPT ![FirstOf(all, d)].revoked = TRUE]

(* POST /api/kyc/revoke.                                                   *)
Revoke(d) ==
  /\ PlacesUnder(leaves, d) # {}
  /\ leaves' = RevokedIn(leaves, d)
  /\ root' = Active(leaves')
  /\ revoked' = revoked \union {d}
  /\ UNCHANGED <<issuance, account, sessionVars>>

(* A day passes: every screening is due again.                             *)
Age ==
  /\ issuance' = [i \in DOMAIN issuance |-> [issuance[i] EXCEPT !.stale = TRUE]]
  /\ issuance' # issuance
  /\ UNCHANGED <<leaves, root, revoked, account, sessionVars>>

(* rescreen: the records it looks at are the stale ones, or all when       *)
(* forced.  Those that are hit, by the nullifier hit or by force, lose     *)
(* their leaf and the others are marked clear; then every leaf of the      *)
(* nullifier that still stands is asked to be revoked.                     *)
Looked(rec, force) == rec.stale \/ force
Hit(rec, hit) == hit # None /\ rec.of # None /\ rec.of.doc = hit
Struck(rec, force, hit) ==
  Looked(rec, force) /\ (Hit(rec, hit) \/ (force /\ hit # None))
Fallen(all, rec) ==
  LET found == IF rec.of = None THEN {} ELSE PlacesOf(all, rec.of)
  IN found # {} /\ ~all[First(found)].revoked

Rescreened(rec, force, hit, revokes) ==
  IF ~Looked(rec, force) THEN rec
  ELSE [rec EXCEPT !.stale = FALSE,
          !.clear = IF ~Struck(rec, force, hit) THEN TRUE
                    ELSE rec.clear /\ ~revokes]

(* The records are visited in their order, and the first one that strikes  *)
(* a leaf that stands revokes by its document: the records after it find   *)
(* the document's first leaf revoked, and its other leaves as they were.   *)
Striking(force, hit) ==
  {i \in DOMAIN issuance :
     Struck(issuance[i], force, hit) /\ Fallen(leaves, issuance[i])}
FoundRevoked(i, striking) ==
  \E j \in striking :
    /\ j < i /\ issuance[j].of.doc = issuance[i].of.doc
    /\ leaves[FirstOf(leaves, issuance[i].of.doc)].of = issuance[i].of

Visited(force, hit) ==
  LET striking == Striking(force, hit)
      docs == {issuance[i].of.doc : i \in striking}
  IN [leaves |-> [k \in DOMAIN leaves |->
                    IF k \in {FirstOf(leaves, d) : d \in docs}
                    THEN [leaves[k] EXCEPT !.revoked = TRUE] ELSE leaves[k]],
      revoked |-> revoked \union docs,
      issuance |-> [i \in DOMAIN issuance |->
                      Rescreened(issuance[i], force, hit,
                                 i \in striking /\ ~FoundRevoked(i, striking))]]

Standing(all, d) ==
  \E i \in 1..Len(all) : all[i].of.doc = d /\ ~all[i].revoked

(* The timer's rescreen has no options; an operator's call may have both.  *)
Rescreen(force, hit) ==
  LET seen == Visited(force, hit)
      left == hit # None /\ Standing(seen.leaves, hit)
  IN /\ issuance' = seen.issuance
     /\ leaves' = IF left THEN RevokedIn(seen.leaves, hit) ELSE seen.leaves
     /\ revoked' = seen.revoked \union (IF left THEN {hit} ELSE {})
     /\ root' = IF leaves' = leaves THEN root ELSE Active(leaves')
     /\ UNCHANGED <<account, sessionVars>>

-----------------------------------------------------------------------------
(* Sessions.                                                               *)

(* issueChallenge: with the root of that moment.                           *)
AskChallenge(c, unlinkable) ==
  /\ pending[c] = None /\ c \notin burned /\ proof[c] = None
  /\ pending' = [pending EXCEPT ![c] = [root |-> root, unlinkable |-> unlinkable,
                                        over |-> FALSE]]
  /\ UNCHANGED <<registryVars, proof, burned, sessions>>

(* proveSessionAuth on the device of u: bound to the challenge and to the  *)
(* root it carries; the credential is left out when unlinkable.            *)
ProveSession(u, c) ==
  /\ account[u] # None /\ pending[c] # None /\ ~pending[c].over /\ proof[c] = None
  /\ proof' = [proof EXCEPT ![c] =
                [of |-> c, root |-> pending[c].root, over |-> FALSE,
                 leaf |-> IF pending[c].unlinkable THEN None ELSE account[u]]]
  /\ UNCHANGED <<registryVars, pending, burned, sessions>>

(* provePaymentSessionAuth: the device makes the challenge and the window  *)
(* itself, from the commitment and the root it has just read.              *)
ProvePayment(u, i) ==
  /\ account[u] # None /\ proof[i] = None
  /\ proof' = [proof EXCEPT ![i] = [of |-> i, root |-> root, over |-> FALSE,
                                    leaf |-> account[u]]]
  /\ UNCHANGED <<registryVars, pending, burned, sessions>>

(* The window of a challenge, or of a payment's proof, closes.             *)
WindowCloses(c) ==
  /\ \/ /\ c \in Nonces /\ pending[c] # None /\ ~pending[c].over
        /\ pending' = [pending EXCEPT ![c].over = TRUE]
        /\ UNCHANGED proof
     \/ /\ c \in Intents /\ proof[c] # None /\ ~proof[c].over
        /\ proof' = [proof EXCEPT ![c].over = TRUE]
        /\ UNCHANGED pending
  /\ UNCHANGED <<registryVars, burned, sessions>>

(* Not as it is: the leaf is looked at, the nullifier is not.              *)
LeafNotRevoked(l) ==
  LET found == PlacesOf(leaves, l)
  IN found # {} /\ ~leaves[First(found)].revoked

(* A credential stands: its leaf, the first there is, is not revoked and   *)
(* neither is its nullifier.                                               *)
Stands(l) ==
  LET found == PlacesOf(leaves, l)
  IN found # {} /\ ~leaves[First(found)].revoked /\ l.doc \notin revoked

Accepted(p, inTime) ==
  [of |-> p.of, linked |-> p.leaf # None,
   live |-> p.leaf # None => p.leaf.doc \notin revoked,
   current |-> p.root = Active(leaves), inTime |-> inTime]

(* Not as it is: a challenge that is used up stays.                        *)
PendingStill(c) == pending
PendingWithout(c) == [pending EXCEPT ![c] = None]

(* verifyAndBurn with the proof p for the challenge c.  A challenge that   *)
(* is over is deleted and can not be told from an unknown one after that.  *)
VerifySession(c, p) ==
  /\ pending[c] # None /\ c \notin burned
  /\ IF pending[c].over
     THEN pending' = PendingWithout(c) /\ UNCHANGED <<burned, sessions>>
     ELSE /\ p.of = c /\ p.root = root
          /\ p.leaf # None => Stands(p.leaf)
          /\ burned' = burned \union {c}
          /\ pending' = PendingWithout(c)
          /\ sessions' = sessions \union {Accepted(p, TRUE)}
  /\ UNCHANGED <<registryVars, proof>>

(* verifyPaymentSessionAuth: the same checks, with no record of a          *)
(* challenge to delete.                                                    *)
VerifyPayment(i) ==
  LET p == proof[i]
  IN /\ p # None /\ i \notin burned /\ ~p.over
     /\ p.root = root /\ Stands(p.leaf)
     /\ burned' = burned \union {i}
     /\ sessions' = sessions \union {Accepted(p, ~p.over)}
     /\ UNCHANGED <<registryVars, pending, proof>>

Next ==
  \/ Age
  \/ \E u \in Names, d \in Documents :
       SeedPeer(u, d) \/ \E j \in Jurisdictions, pass, clear \in BOOLEAN :
                            Register(u, d, j, pass, clear)
  \/ \E d \in Documents : Revoke(d)
  \/ \E force \in BOOLEAN, hit \in Documents \union {None} : Rescreen(force, hit)
  \/ \E c \in Nonces, unlinkable \in BOOLEAN : AskChallenge(c, unlinkable)
  \/ \E u \in Names, c \in Nonces : ProveSession(u, c)
  \/ \E u \in Names, i \in Intents : ProvePayment(u, i)
  \/ \E c \in Nonces \union Intents : WindowCloses(c)
  \/ \E c, d \in Nonces : proof[d] # None /\ VerifySession(c, proof[d])
  \/ \E i \in Intents : VerifyPayment(i)

Spec == Init /\ [][Next]_vars

-----------------------------------------------------------------------------
(* However registrations, revocations and rescreens follow each other, the *)
(* root is that of the leaves not revoked, a leaf is revoked only with its *)
(* nullifier, and a revoked nullifier has its first leaf revoked.          *)
RegistryAgrees ==
  /\ leaves # <<>> => root = Active(leaves)
  /\ \A i \in 1..Len(leaves) : leaves[i].revoked => leaves[i].of.doc \in revoked
  /\ \A d \in revoked :
       PlacesUnder(leaves, d) # {} /\ leaves[FirstOf(leaves, d)].revoked

(* A session was accepted once, in its window and against the registry of  *)
(* that moment; and one that named its credential had one whose document   *)
(* was not revoked, however often the document was registered.             *)
SessionsAreEarned ==
  \A s \in sessions :
    /\ s.of \in burned /\ s.inTime /\ s.current
    /\ s.linked => s.live
    /\ s.of \in Intents => s.linked
    /\ \A t \in sessions : t.of = s.of => t = s
=============================================================================
