------------------------------- MODULE Recovery -------------------------------
(***************************************************************************)
(* One account, the devices it is used from and its backups: sign-up       *)
(* (bootstrap.ts), the sealed recovery kit (recoveryKit.ts), the vault and *)
(* its keys on a device (vaultCrypto.ts, keyStore.ts, deviceVault.ts), the *)
(* passkey gate (webauthnVault.ts), the recovery screen (Recovery.tsx) and *)
(* the server's threshold record (services/vault.ts).                      *)
(*                                                                         *)
(* A vault is named by its version: 1 at sign-up, one more per payment;    *)
(* the server's balance commitment names one of them.  What a version      *)
(* holds, two tabs of a device, and the repair of a payment that was       *)
(* settled and not saved are DeviceWallet's.  Ciphers are ideal, and a     *)
(* wrong passphrase changes nothing.                                       *)
(***************************************************************************)
EXTENDS Integers, FiniteSets

CONSTANTS
  Devices,
  Durable,      \* those whose browser has IndexedDB
  Holders,      \* of a share of the threshold key
  Strangers,    \* holder identifiers the record does not have
  Threshold,
  MaxVersions,  \* bound: versions of the vault
  None

(* What the constants have to be.                                          *)
ConstantTypes ==
  /\ Durable \subseteq Devices /\ IsFiniteSet(Holders)
  /\ Threshold \in 1..Cardinality(Holders) /\ Holders \cap Strangers = {}
  /\ MaxVersions \in Nat \ {0}

VARIABLES
  made,      \* versions so far, 0 before the account is registered
  tip,       \* the version that the server's balance commitment names
  device,    \* what each device has
  files,     \* kit files the user has kept
  late,      \* versions spent by requests nobody waits for any more
  cloud,     \* the server's recovery record, or None
  uploaded,  \* history: what was last enrolled
  released,  \* history: how many holders opened the record, of each release
  restored,  \* history: whether a version was the tip, of each restore
  soft,      \* history: a high-value payment passed without an assertion
  strayed,   \* history: the server took a payment whose vault no one saved, or
             \* a loadVault began before it was saved
  raced      \* history: a sign-out overtook a loadVault or a payment of its tab

vars == <<made, tip, device, files, late, cloud, uploaded, released, restored, soft, strayed,
          raced>>

Version == 0..MaxVersions
Content == [kind : {"kit", "ciphertext"}, version : Version \ {0}]
Steps == {"none", "generated", "registered", "saved", "sealed", "enrolled"}
Device == [step : Steps,         \* of a sign-up in a tab of this device
           vault : Version,      \* ciphertext in localStorage
           open : BOOLEAN,       \* its wrap key is there
           keys : BOOLEAN,       \* the account's private keys
           kit : Version,        \* kit in localStorage
           seen : Version,       \* tip a loadVault under way has read
           held : Version,       \* vault that loadVault has decrypted
           pays : Version,       \* vault that a payment under way spends
           due : Version,        \* vault of it that the server has taken
           passkey : BOOLEAN]    \* one is enrolled

TypeOK ==
  /\ made \in Version /\ tip \in Version
  /\ device \in [Devices -> Device]
  /\ files \subseteq Version /\ late \subseteq Version
  /\ cloud \in Content \union {None} /\ uploaded \in Content \union {None}
  /\ released \subseteq 0..Cardinality(Holders) /\ restored \subseteq BOOLEAN
  /\ soft \in BOOLEAN /\ strayed \in BOOLEAN /\ raced \in BOOLEAN

Fresh == [step |-> "none", vault |-> 0, open |-> FALSE, keys |-> FALSE, kit |-> 0,
          seen |-> 0, held |-> 0, pays |-> 0, due |-> 0, passkey |-> FALSE]

Init ==
  /\ made = 0 /\ tip = 0
  /\ device = [d \in Devices |-> Fresh]
  /\ files = {} /\ late = {} /\ cloud = None /\ uploaded = None
  /\ released = {} /\ restored = {}
  /\ soft = FALSE /\ strayed = FALSE /\ raced = FALSE

Becomes(d, next) == device' = [device EXCEPT ![d] = next]
Loading(d) == device[d].seen # 0
Paying(d) == device[d].pays # 0

(* Only payments, and what cuts them short, change these.                  *)
payVars == <<late, soft, strayed>>

-----------------------------------------------------------------------------
(* Sign-up.  The exported private keys live in the tab's memory only.      *)

(* createFreshVaultWithRecovery: the keys are sealed in the key store,     *)
(* under their own name; they become the account's when it is registered.  *)
Generate(d) ==
  /\ made = 0 /\ device[d].step = "none"
  /\ Becomes(d, [device[d] EXCEPT !.step = "generated"])
  /\ UNCHANGED <<made, tip, files, cloud, uploaded, released, restored, payVars, raced>>

(* registerAccount: the server takes the first balance commitment.         *)
Register(d) ==
  /\ made = 0 /\ device[d].step = "generated"
  /\ made' = 1 /\ tip' = 1
  /\ Becomes(d, [device[d] EXCEPT !.step = "registered", !.keys = TRUE])
  /\ UNCHANGED <<files, cloud, uploaded, released, restored, payVars, raced>>

(* The keys are bound to the account's id, and the vault is saved.         *)
SaveFirst(d) ==
  /\ device[d].step = "registered"
  /\ Becomes(d, [device[d] EXCEPT !.step = "saved", !.vault = 1, !.open = TRUE])
  /\ UNCHANGED <<made, tip, files, cloud, uploaded, released, restored, payVars, raced>>

(* sealRecoveryKit, of the vault as it is now; a full localStorage refuses *)
(* the kit and sign-up goes on.                                            *)
SealKit(d) ==
  /\ device[d].step = "saved"
  /\ \E kept \in {0, 1} :
       Becomes(d, [device[d] EXCEPT !.step = "sealed", !.kit = kept])
  /\ UNCHANGED <<made, tip, files, cloud, uploaded, released, restored, payVars, raced>>

(* provisionCloudVaultMeta: the user's record is replaced.                 *)
Provision(content) == cloud' = content /\ uploaded' = content

(* The kit is enrolled, and downloaded; either may fail unnoticed.         *)
EnrollKit(d) ==
  /\ device[d].step = "sealed"
  /\ \/ Provision([kind |-> "kit", version |-> 1])
     \/ UNCHANGED <<cloud, uploaded>>
  /\ Becomes(d, [device[d] EXCEPT !.step = "enrolled"])
  /\ UNCHANGED <<made, tip, files, released, restored, payVars, raced>>
Download(d) ==
  /\ device[d].step = "enrolled"
  /\ files' = files \union {1} \/ UNCHANGED files
  /\ Becomes(d, [device[d] EXCEPT !.step = "none"])
  /\ UNCHANGED <<made, tip, cloud, uploaded, released, restored, payVars, raced>>

-----------------------------------------------------------------------------
(* The device afterwards.                                                  *)

(* A payment is cut short.  The server has taken it, and no one saves its  *)
(* vault; or it has not, and its request may still be on the way, or never *)
(* left, or was refused.                                                   *)
CutsShort(d) ==
  /\ strayed' = (strayed \/ device[d].due # 0)
  /\ \/ UNCHANGED late
     \/ Paying(d) /\ device[d].due = 0 /\ late' = late \union {device[d].pays}

(* The tab goes: sign-up, loads and payments are cut short.  Without       *)
(* IndexedDB the wrap key was in sessionStorage and the private keys in    *)
(* memory.                                                                 *)
TabCloses(d) ==
  /\ LET now == device[d]
     IN Becomes(d, [now EXCEPT !.step = "none", !.seen = 0, !.held = 0,
                      !.pays = 0, !.due = 0,
                      !.open = now.open /\ d \in Durable,
                      !.keys = now.keys /\ d \in Durable])
  /\ CutsShort(d)
  /\ UNCHANGED <<made, tip, files, cloud, uploaded, released, restored, soft, raced>>

(* loadVault: decrypts, and reads the server's commitment...               *)
BeginLoad(d) ==
  /\ device[d].open /\ ~Loading(d) /\ tip # 0
  /\ Becomes(d, [device[d] EXCEPT !.seen = tip, !.held = device[d].vault])
  /\ strayed' = (strayed \/ device[d].due # 0)
  /\ UNCHANGED <<made, tip, files, late, cloud, uploaded, released, restored, soft, raced>>

(* ...and when that is not of this vault, pushes the vault's own, which    *)
(* the server takes if the one replaced is still there; the vault is saved *)
(* after that.  A failure is passed over.                                  *)
EndLoad(d) ==
  /\ Loading(d)
  /\ LET now == [device[d] EXCEPT !.seen = 0, !.held = 0]
         push == device[d].held # device[d].seen
     IN \/ /\ push /\ tip = device[d].seen
           /\ tip' = device[d].held
           /\ Becomes(d, [now EXCEPT !.vault = device[d].held, !.open = TRUE])
        \/ UNCHANGED tip /\ Becomes(d, now)
  /\ UNCHANGED <<made, files, cloud, uploaded, released, restored, payVars, raced>>

(* registerVaultPasskey.                                                  *)
EnrollPasskey(d) ==
  /\ device[d].open /\ ~device[d].passkey
  /\ Becomes(d, [device[d] EXCEPT !.passkey = TRUE])
  /\ UNCHANGED <<made, tip, files, cloud, uploaded, released, restored, payVars, raced>>

(* ensureVaultUnlocked; "asserted" is the outcome of asking for a passkey. *)
(* A low-value payment passes in an unlocked session without being asked,  *)
(* and where asking fails.                                                 *)
Passes(d, high, asserted) ==
  IF high THEN device[d].passkey /\ asserted ELSE asserted => device[d].passkey

(* A payment: the vault was aligned with the server when it was loaded,    *)
(* and the payment is built, signed and sent on it.                        *)
BeginChange(d, high, asserted) ==
  /\ device[d].open /\ device[d].keys /\ ~Paying(d) /\ made < MaxVersions
  /\ Passes(d, high, asserted)
  /\ Becomes(d, [device[d] EXCEPT !.pays = device[d].vault])
  /\ soft' = (soft \/ (high /\ ~asserted))
  /\ UNCHANGED <<made, tip, files, late, cloud, uploaded, released, restored, strayed, raced>>

(* The server takes the new commitment for the one that is spent.          *)
ServerTakes(d) ==
  /\ Paying(d) /\ device[d].due = 0
  /\ device[d].pays = tip /\ made < MaxVersions
  /\ made' = made + 1 /\ tip' = made + 1
  /\ Becomes(d, [device[d] EXCEPT !.due = made + 1])
  /\ UNCHANGED <<files, payVars, cloud, uploaded, released, restored, raced>>

(* The mutant leaves the vault of the device behind.                       *)
VaultLeft(d, v) == device[d].vault
VaultSaved(d, v) == v

(* The answer is there, and the device saves the new vault.                *)
SaveChange(d) ==
  /\ device[d].due # 0
  /\ Becomes(d, [device[d] EXCEPT !.pays = 0, !.due = 0, !.open = TRUE,
                                  !.vault = VaultSaved(d, device[d].due)])
  /\ UNCHANGED <<made, tip, files, payVars, cloud, uploaded, released, restored, raced>>

(* An abort after 90 seconds, a lost answer, a refusal, a failing save.    *)
GiveUp(d) ==
  /\ Paying(d)
  /\ Becomes(d, [device[d] EXCEPT !.pays = 0, !.due = 0])
  /\ CutsShort(d)
  /\ UNCHANGED <<made, tip, files, cloud, uploaded, released, restored, soft, raced>>

(* A request that nobody waits for any more arrives.                       *)
LateTakes(v) ==
  /\ v \in late /\ v = tip /\ made < MaxVersions
  /\ made' = made + 1 /\ tip' = made + 1
  /\ late' = late \ {v} /\ strayed' = TRUE
  /\ UNCHANGED <<device, files, cloud, uploaded, released, restored, soft, raced>>

(* enrollCloudRecovery: the kit of this device, and without one the        *)
(* vault's ciphertext, which only this device's wrap key opens.            *)
Backup(d) ==
  IF device[d].kit # 0 THEN [kind |-> "kit", version |-> device[d].kit]
  ELSE [kind |-> "ciphertext", version |-> device[d].vault]

(* The recovery screen's enroll.                                           *)
Enroll(d) ==
  /\ made # 0 /\ (device[d].kit # 0 \/ device[d].vault # 0)
  /\ Provision(Backup(d))
  /\ UNCHANGED <<made, tip, device, files, released, restored, payVars, raced>>

(* clearAllVaults: vaults and keys go, a kit in localStorage and a passkey *)
(* stay.                                                                   *)
Cleared(now) == [now EXCEPT !.vault = 0, !.open = FALSE, !.keys = FALSE]

(* A sign-out; and a device that is lost is replaced by an empty one.      *)
SignOut(d) ==
  /\ device[d].vault # 0 /\ device[d].step = "none"
  /\ Becomes(d, Cleared(device[d]))
  /\ raced' = (raced \/ Loading(d) \/ Paying(d))
  /\ UNCHANGED <<made, tip, files, payVars, cloud, uploaded, released, restored>>
Lose(d) ==
  /\ made # 0 /\ Becomes(d, Fresh) /\ CutsShort(d)
  /\ UNCHANGED <<made, tip, files, cloud, uploaded, released, restored, soft, raced>>

(* restoreFromRecoveryKit: keys already there are kept, the vault and the  *)
(* kit of this device are replaced.                                        *)
RestoreOn(d, version) ==
  /\ Becomes(d, [device[d] EXCEPT !.keys = TRUE, !.vault = version, !.open = TRUE,
                                  !.kit = version])
  /\ restored' = restored \union {version = tip}
  /\ UNCHANGED <<made, tip, files, cloud, uploaded, payVars, raced>>

(* restoreKit, from a pasted file or the kit this device has kept.         *)
RestoreFile(d, version) ==
  /\ version \in files \union ({device[d].kit} \ {0})
  /\ device[d].step = "none"
  /\ RestoreOn(d, version) /\ UNCHANGED released

(* The holders of the record among those asked for.                        *)
Selected(asked) == {asked[i] : i \in DOMAIN asked} \cap Holders

(* releaseSharesForRecovery with a list of holder identifiers.             *)
MayRelease(asked) ==
  /\ cloud # None
  /\ Cardinality(DOMAIN asked) >= Threshold
  /\ Cardinality(Selected(asked)) >= Threshold

(* The endpoint, and restoreKit with what it answers, which goes on only   *)
(* with a kit.                                                             *)
RestoreCloud(d, asked) ==
  /\ device[d].step = "none" /\ MayRelease(asked)
  /\ released' = released \union {Cardinality(Selected(asked))}
  /\ IF cloud.kind = "kit" THEN RestoreOn(d, cloud.version)
     ELSE UNCHANGED <<made, tip, device, files, cloud, uploaded, restored, payVars, raced>>

Next ==
  \/ \E v \in late : LateTakes(v)
  \/ \E d \in Devices :
       \/ Generate(d) \/ Register(d) \/ SaveFirst(d) \/ SealKit(d) \/ EnrollKit(d)
       \/ Download(d) \/ TabCloses(d) \/ BeginLoad(d) \/ EndLoad(d)
       \/ EnrollPasskey(d) \/ Enroll(d) \/ SignOut(d) \/ Lose(d)
       \/ \E high, asserted \in BOOLEAN : BeginChange(d, high, asserted)
       \/ ServerTakes(d) \/ SaveChange(d) \/ GiveUp(d)
       \/ \E v \in Version : RestoreFile(d, v)
       \/ \E asked \in [1..Threshold -> Holders \union Strangers] : RestoreCloud(d, asked)

Spec == Init /\ [][Next]_vars

-----------------------------------------------------------------------------
(* A vault that opens has the account's keys beside it, whatever tabs      *)
(* close, loads overlap and backups are restored, unless a sign-out        *)
(* overtook a load or a payment, which then saves the vault again.         *)
OpensWithKeys == raced \/ \A d \in Devices : device[d].open => device[d].keys

(* Until a first restore the server names the newest vault there is, as    *)
(* long as every payment the server took is saved on its device before     *)
(* anything else looks at the vault.  A payment that is cut short by a     *)
(* closed tab, a lost answer or a failing save, or overtaken by a load,    *)
(* leaves the vault of the device behind the server's commitment, and the  *)
(* next load pushes the old one (strayed).                                 *)
NamesTheNewest == restored = {} /\ ~strayed => tip = made

(* The record holds what was enrolled last, and no fewer than the          *)
(* threshold of different holders opens it.                                *)
ThresholdHolds ==
  /\ cloud = uploaded
  /\ \A holders \in released : holders >= Threshold

(* And a high-value payment has asserted a passkey.                        *)
RecoveryHolds == OpensWithKeys /\ NamesTheNewest /\ ThresholdHolds /\ ~soft

(* "Passphrase kit restores keys + balance on any device": the vault that  *)
(* a restore brings back is the one the server's commitment names.         *)
RestoredIsCurrent == \A current \in restored : current
=============================================================================
