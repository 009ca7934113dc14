------------------------------ MODULE MerchantKeys ------------------------------
(***************************************************************************)
(* Where merchants' signing keys live: the appliance (server/hsmAppliance) *)
(* and the signer that calls it (services/merchantHsm.ts).  The appliance  *)
(* holds its keys in memory, saves the whole map sealed under a master key *)
(* at every registration, and loads it at a start; a file it cannot read   *)
(* is treated as none.  The master key is configured, or derived from the  *)
(* process.  The file is written in place: a stop in the middle tears it.  *)
(*                                                                         *)
(* The signer's calls are requests over HTTP with a time limit: the        *)
(* appliance may have answered a call that the signer gave up on.          *)
(***************************************************************************)
EXTENDS Integers, FiniteSets

CONSTANTS
  Merchants,
  Calls,       \* calls of the signer; a call of register brings a secret of its own
  MaxStarts,   \* bound: starts of the appliance
  None

(* What the constants have to be.                                          *)
ConstantTypes ==
  /\ MaxStarts \in Nat
  /\ None \notin Calls

VARIABLES
  configured,  \* MERCHANT_HSM_MASTER_KEY is set; a choice of the deployment
  running,     \* the appliance listens
  starts,
  keys,        \* keys in memory: the call that registered a merchant's key
  file,        \* what is on disk, and the master key it is sealed under
  call,        \* the signer's calls
  signed,      \* signatures the signer received: [merchant, key, call]
  registered,  \* history: the key last registered for a merchant
  torn         \* history: a save was cut short

vars == <<configured, running, starts, keys, file, call, signed, registered, torn>>

KeyMap == [Merchants -> Calls \union {None}]
Call == [at : {"sent", "answered", "failed"}, op : {"register", "sign", "verify"},
         merchant : Merchants, of : Calls \union {None}, ok : BOOLEAN, arrived : BOOLEAN]

TypeOK ==
  /\ configured \in BOOLEAN /\ running \in BOOLEAN /\ starts \in 0..MaxStarts
  /\ torn \in BOOLEAN
  /\ keys \in KeyMap /\ file \in [under : 0..MaxStarts, keys : KeyMap]
  /\ call \in [Calls -> Call \union {None}]
  /\ signed \subseteq [merchant : Merchants, key : Calls, call : Calls]
  /\ registered \in KeyMap

NoKeys == [m \in Merchants |-> None]
Unreadable == [under |-> 0, keys |-> NoKeys]

(* masterKey: named after the process when it is not configured.           *)
Master(start) == IF configured THEN 1 ELSE start

Init ==
  /\ configured \in BOOLEAN
  /\ running = FALSE /\ starts = 0 /\ keys = NoKeys /\ file = Unreadable
  /\ call = [c \in Calls |-> None] /\ signed = {} /\ registered = NoKeys /\ torn = FALSE

(* loadStore: no file, a torn one or one of another master key makes it {}.*)
Loaded(start) == IF file.under = Master(start) THEN file.keys ELSE NoKeys

Start ==
  /\ ~running /\ starts < MaxStarts
  /\ running' = TRUE /\ starts' = starts + 1
  /\ keys' = Loaded(starts + 1)
  /\ UNCHANGED <<configured, file, call, signed, registered, torn>>

Stop ==
  /\ running /\ running' = FALSE /\ keys' = NoKeys
  /\ UNCHANGED <<configured, starts, file, call, signed, registered, torn>>

(* ExternalHsmSigner: registerKey, sign, and verify of a signature it got. *)
Send(c, op, m, s) ==
  /\ call[c] = None
  /\ op = "verify" => \E g \in signed : g.call = s /\ g.merchant = m
  /\ op # "verify" => s = None
  /\ call' = [call EXCEPT ![c] = [at |-> "sent", op |-> op, merchant |-> m, of |-> s,
                                  ok |-> FALSE, arrived |-> FALSE]]
  /\ UNCHANGED <<configured, running, starts, keys, file, signed, registered, torn>>

(* The limit of 15 s passes, or nothing listens: the call throws.          *)
GiveUp(c) ==
  /\ call[c] # None /\ call[c].at = "sent"
  /\ call' = [call EXCEPT ![c].at = "failed"]
  /\ UNCHANGED <<configured, running, starts, keys, file, signed, registered, torn>>

(* POST /keys/register, whether or not the signer still waits: the map     *)
(* with the new key is saved whole.                                        *)
SavesTheNewKey(map, start) ==
  [under |-> Master(start),
   keys |-> [m \in Merchants |-> IF map[m] # keys[m] THEN map[m] ELSE None]]
Saved(map, start) == [under |-> Master(start), keys |-> map]

Arrives(c, op) == running /\ call[c] # None /\ ~call[c].arrived /\ call[c].op = op
Answered(c, ok) ==
  [call EXCEPT ![c].arrived = TRUE, ![c].ok = ok /\ call[c].at = "sent",
               ![c].at = IF call[c].at = "sent" THEN "answered" ELSE @]

Register(c) ==
  /\ Arrives(c, "register")
  /\ keys' = [keys EXCEPT ![call[c].merchant] = c]
  /\ file' = Saved(keys', starts)
  /\ call' = Answered(c, TRUE)
  /\ registered' = [registered EXCEPT ![call[c].merchant] = c]
  /\ UNCHANGED <<configured, running, starts, signed, torn>>

(* The process stops in writeFileSync.                                     *)
StopInSave(c) ==
  /\ Arrives(c, "register")
  /\ file' = Unreadable /\ running' = FALSE /\ keys' = NoKeys /\ torn' = TRUE
  /\ call' = [call EXCEPT ![c].arrived = TRUE]
  /\ UNCHANGED <<configured, starts, signed, registered>>

(* POST /sign: 404 without a key, on which the signer throws.              *)
Sign(c) ==
  /\ Arrives(c, "sign") /\ call[c].at = "sent"
  /\ LET key == keys[call[c].merchant]
     IN /\ call' = Answered(c, key # None)
        /\ signed' = IF key = None THEN signed
                     ELSE signed \union {[merchant |-> call[c].merchant, key |-> key,
                                          call |-> c]}
  /\ UNCHANGED <<configured, running, starts, keys, file, registered, torn>>

(* POST /verify: compares with a signature under the present key.          *)
Verify(c) ==
  /\ Arrives(c, "verify") /\ call[c].at = "sent"
  /\ \E g \in signed :
       /\ g.call = call[c].of
       /\ call' = Answered(c, keys[call[c].merchant] = g.key)
  /\ UNCHANGED <<configured, running, starts, keys, file, signed, registered, torn>>

Next ==
  \/ Start \/ Stop
  \/ \E c \in Calls :
       \/ GiveUp(c) \/ Register(c) \/ StopInSave(c) \/ Sign(c) \/ Verify(c)
       \/ \E op \in {"register", "sign", "verify"}, m \in Merchants,
             s \in Calls \union {None} : Send(c, op, m, s)

Spec == Init /\ [][Next]_vars

-----------------------------------------------------------------------------
(* Every merchant signs with the key last registered for it, across stops  *)
(* and starts of the appliance and calls the signer gave up on, as long as *)
(* no save was cut short and the master key is configured or the first     *)
(* process still runs: a signature stops verifying only because the        *)
(* merchant was registered again.                                          *)
KeysLast ==
  running /\ ~torn /\ (configured \/ starts = 1) => keys = registered
=============================================================================
