-------------------------------- MODULE Client --------------------------------
(***************************************************************************)
(* What runs in the browser, composed: the device wallet with its server,  *)
(* the sheet on which payments are accepted, the screen of the universal   *)
(* adapter, the frame around the screens and a session of the voice        *)
(* assistant.  In these models none of them shares state with another, so  *)
(* the first state chooses which one runs, and what holds of a part then   *)
(* holds of it beside any of the others.                                   *)
(***************************************************************************)
EXTENDS DeviceWallet

CONSTANTS
  Amounts,                                             \* PaySheet, AdapterDemo
  Limit, Names, Blank, Known, Persons, Called, Cleared, BrandOf,      \* PaySheet
  MaxBegun, MaxGuides,
  MaxPays, MaxTampers,                                 \* AdapterDemo
  Accounts, MaxLoads,                                  \* AppShell
  Commands                                             \* VoiceListen

VARIABLES part,
  phase, contacts, made, building, bundle, preparing, prepared, sheet, confirm,
  credit, flow, asking, timers, asked, guides,
  loaded, stage, hearing, pending, sent, paying, record, meta, request, refunding,
  tamper, tampering, answered, returned, refused, overlapped,
  view, booted, user, session, vaults, demo, loads, launch, mingled, opened,
  engine, stopped, finalized, heard, stableKey, set, due, switched, restarted, closed, told

Sheet == INSTANCE PaySheet
Demo == INSTANCE AdapterDemo WITH phase <- stage
Shell == INSTANCE AppShell WITH overlapped <- mingled, begun <- opened
Listen == INSTANCE VoiceListen

(* What the constants of the screens have to be.                           *)
ClientConstants ==
  /\ Sheet!ConstantTypes /\ Demo!ConstantTypes
  /\ Shell!ConstantTypes /\ Listen!ConstantTypes

sheetVars == <<phase, contacts, made, building, bundle, preparing, prepared, sheet,
               confirm, credit, flow, asking, timers, asked, guides>>
demoVars == <<loaded, stage, hearing, pending, sent, paying, record, meta, request,
              refunding, tamper, tampering, answered, returned, refused, overlapped>>
shellVars == <<view, booted, user, session, vaults, demo, loads, launch, mingled,
               opened>>
voiceVars == <<engine, stopped, finalized, heard, stableKey, set, due, switched,
               restarted, closed, told>>
screens == <<part, sheetVars, demoVars, shellVars, voiceVars>>
allVars == <<vars, screens>>

ClientInit ==
  /\ part \in {"wallet", "sheet", "demo", "shell", "voice"}
  /\ Init /\ Sheet!Init /\ Demo!Init /\ Shell!Init /\ Listen!Init
  /\ part # "shell" => session = None /\ ~demo
  /\ part # "voice" => engine = "on"

WalletStep == part = "wallet" /\ Next /\ UNCHANGED screens

ScreenStep ==
  /\ UNCHANGED <<part, vars>>
  /\ \/ /\ part = "sheet" /\ Sheet!Next
        /\ UNCHANGED <<demoVars, shellVars, voiceVars>>
     \/ /\ part = "demo" /\ Demo!Next
        /\ UNCHANGED <<sheetVars, shellVars, voiceVars>>
     \/ /\ part = "shell" /\ Shell!Next
        /\ UNCHANGED <<sheetVars, demoVars, voiceVars>>
     \/ /\ part = "voice" /\ Listen!Next
        /\ UNCHANGED <<sheetVars, demoVars, shellVars>>

ClientSpec == ClientInit /\ [][WalletStep \/ ScreenStep]_allVars

-----------------------------------------------------------------------------
(* The variables of the part that runs have their types.                   *)
ClientTypes ==
  CASE part = "wallet" -> TypeOK
    [] part = "sheet" -> Sheet!TypeOK
    [] part = "demo" -> Demo!TypeOK
    [] part = "shell" -> Shell!TypeOK
    [] part = "voice" -> Listen!TypeOK
(* What the wallet sends is what was accepted on the sheet, gated.         *)
AcceptedIsGated == Sheet!AcceptedIsGated
(* The screen of the adapter says of payments and refunds what the server  *)
(* did, refused refunds aside, and a session of the voice assistant tells  *)
(* the one command that was heard last.                                    *)
TellsTheTruth == Demo!ScreenTellsTruth /\ Listen!OneRightCommand
(* A screen that works on an account has one, the one of the session.      *)
ViewHasAccount == Shell!ViewHasAccount
=============================================================================
