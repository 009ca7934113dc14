------------------------------- MODULE AppShell -------------------------------
(***************************************************************************)
(* The frame of the web app (App.tsx): which screen is shown, whose        *)
(* account it shows, and what the device keeps of accounts: the pointer to *)
(* the session and the encrypted vaults.  The menu, the gate, the sign-up, *)
(* the guided tour and the recovery screen each load or make an account    *)
(* and then show it.  None of them is cancelled when the screen is left or *)
(* the account signed out, so that their ends come at any time.            *)
(*                                                                         *)
(* A handler runs to its next await.  The chrome around the screens, the   *)
(* proofs on display and the copy of the vault in the settings are left    *)
(* out, as is what a vault holds (DeviceWallet.tla, Recovery.tla).         *)
(***************************************************************************)
EXTENDS Integers

CONSTANTS
  Accounts,
  MaxLoads, \* bound: loads begun since the page was opened
  None

ConstantTypes == MaxLoads \in Nat /\ None \notin Accounts

VARIABLES
  view,
  booted,
  user,       \* the account on display
  session,    \* circled_user_id
  vaults,     \* accounts with a vault on the device
  demo,       \* demo mode
  loads,      \* handlers under way
  launch,     \* the handler the screen's buttons wait for; 0 if none
  overlapped, \* history: an account was changed while a handler was under way
  begun       \* bound counter

device == <<session, vaults>>
vars == <<view, booted, user, device, demo, loads, launch, overlapped, begun>>

AccountViews == {"wallet", "settings", "credit", "strategy", "zk-demo", "recovery"}
FromSettings == {"credit", "strategy", "merchant", "rails", "privacy", "terms"}
Framed == AccountViews \union FromSettings \union {"onboarding", "director"}
Views == Framed \union {"loading", "intro", "welcome", "menu", "gate", "truth", "universal"}

Kinds == {"circle", "voice", "tour", "explore", "create", "restore", "demo signup",
          "signup", "recover", "wallet"}
Loading == [id : 1..MaxLoads, kind : Kinds, of : Accounts \union {None},
            at : {"found", "missing", "beats", "making", "made"}]

TypeOK ==
  /\ view \in Views
  /\ booted \in BOOLEAN /\ demo \in BOOLEAN /\ overlapped \in BOOLEAN
  /\ user \in Accounts \union {None} /\ session \in Accounts \union {None}
  /\ vaults \subseteq Accounts
  /\ loads \subseteq Loading
  /\ launch \in 0..MaxLoads /\ begun \in 0..MaxLoads

(* A page is opened on a device that has been used or not.                 *)
Init ==
  /\ view = "loading" /\ booted = FALSE
  /\ user = None
  /\ session \in Accounts \union {None}
  /\ vaults = IF session = None THEN {} ELSE {session}
  /\ demo \in BOOLEAN
  /\ loads = {} /\ launch = 0
  /\ overlapped = FALSE /\ begun = 0

-----------------------------------------------------------------------------
(* The parts handlers are made of.                                         *)

(* A screen that is left forgets which of its buttons were waiting.        *)
Show(v) == view' = v /\ launch' = IF v = view THEN launch ELSE 0

BeginLoad(kind, of, at) ==
  /\ begun < MaxLoads /\ begun' = begun + 1
  /\ loads' = loads \union {[id |-> begun', kind |-> kind, of |-> of, at |-> at]}
  /\ overlapped' = (overlapped \/ loads # {})

(* A button that waits for its handler.                                    *)
Press(kind, of, at) ==
  /\ \A l \in loads : l.id # launch
  /\ BeginLoad(kind, of, at)
  /\ launch' = begun' /\ UNCHANGED <<view, booted, user>>

End(l) ==
  /\ l \in loads /\ loads' = loads \ {l}
  /\ UNCHANGED <<booted, overlapped, begun>>

Goes(l, of, at) ==
  /\ loads' = (loads \ {l}) \union {[l EXCEPT !.of = of, !.at = at]}
  /\ UNCHANGED <<view, booted, user, demo, launch, overlapped, begun>>

(* Mutant of Saved: the session is left as it was.                         *)
SavedWithoutSession(a) == vaults' = vaults \union {a} /\ UNCHANGED session

(* An account is saved on the device, and the session points to it.        *)
Saved(a) == vaults' = vaults \union {a} /\ session' = a

-----------------------------------------------------------------------------
(* The page is opened: the session's vault is loaded, or the intro shown.  *)
ColdStart(readable) ==
  /\ ~booted /\ booted' = TRUE
  /\ demo' = FALSE
  /\ IF readable /\ session \in vaults
     THEN user' = session /\ UNCHANGED session /\ Show("wallet")
     ELSE session' = None /\ UNCHANGED user /\ Show("intro")
  /\ UNCHANGED <<vaults, loads, overlapped, begun>>

(* The page is opened anew: the device remembers, the handlers are gone.   *)
Reload ==
  /\ booted /\ booted' = FALSE
  /\ user' = None
  /\ view' = "loading" /\ launch' = 0
  /\ loads' = {} /\ overlapped' = FALSE /\ begun' = 0
  /\ UNCHANGED <<device, demo>>

(* Buttons that only lead to another screen.                               *)
Leads ==
  {<<"intro", "welcome">>, <<"welcome", "menu">>, <<"gate", "menu">>,
   <<"menu", "truth">>, <<"truth", "menu">>, <<"universal", "menu">>,
   <<"director", "onboarding">>, <<"zk-demo", "wallet">>,
   <<"wallet", "recovery">>, <<"recovery", "wallet">>, <<"settings", "recovery">>,
   <<"wallet", "settings">>, <<"settings", "wallet">>}
    \union ({"settings"} \X FromSettings)
    \union ((FromSettings \ {"merchant"}) \X {"settings"})
    \union (Framed \X {"menu"})

Go(from, to) ==
  /\ view = from /\ Show(to)
  /\ UNCHANGED <<booted, user, device, demo, loads, overlapped, begun>>

MerchantBack == Go("merchant", IF user # None THEN "settings" ELSE "menu")

(* enterShowcase: the universal adapter, or the menu from the settings.    *)
Showcase(from, to) ==
  /\ <<from, to>> \in {<<"menu", "universal">>, <<"settings", "menu">>}
  /\ view = from /\ Show(to)
  /\ demo' = TRUE
  /\ UNCHANGED <<booted, user, device, loads, overlapped, begun>>

(* handleSignOut                                                           *)
SignOut ==
  /\ view \in Framed /\ user # None
  /\ user' = None /\ session' = None /\ vaults' = {}
  /\ demo' = FALSE
  /\ Show("menu")
  /\ overlapped' = (overlapped \/ loads # {})
  /\ UNCHANGED <<booted, loads, begun>>

-----------------------------------------------------------------------------
(* handleMenuSelect: Circle.  The vault is looked up at once, decrypted    *)
(* and brought in line with the server later.                              *)
OpenCircle ==
  /\ view = "menu" /\ demo' = FALSE
  /\ IF session = None
     THEN Show("gate") /\ UNCHANGED <<loads, overlapped, begun>>
     ELSE /\ BeginLoad("circle", session, IF session \in vaults THEN "found" ELSE "missing")
          /\ UNCHANGED <<view, launch>>
  /\ UNCHANGED <<booted, user, device>>

CircleLoaded(l) ==
  /\ l.kind = "circle" /\ l.at = "found" /\ End(l)
  /\ user' = l.of /\ Show("wallet")
  /\ vaults' \in {vaults, vaults \union {l.of}}
  /\ UNCHANGED <<session, demo>>

(* Nothing on the device that can be read; or a failure further on.        *)
CircleNotLoaded(l, unread) ==
  /\ l.kind = "circle" /\ End(l)
  /\ session' = IF unread THEN None ELSE session
  /\ Show("gate")
  /\ UNCHANGED <<user, vaults, demo>>

(* The test wallet: bootstrapProductionDemo erases all vaults first.       *)
OpenVoice ==
  /\ view = "menu" /\ demo' = FALSE
  /\ BeginLoad("voice", None, "making") /\ Show("loading")
  /\ vaults' = {}
  /\ UNCHANGED <<booted, user, session>>

VoiceReady(l, a) ==
  /\ l.kind = "voice" /\ End(l)
  /\ Saved(a) /\ user' = a /\ Show("wallet")
  /\ UNCHANGED demo

VoiceFails(l) ==
  /\ l.kind = "voice" /\ End(l)
  /\ Show("gate")
  /\ UNCHANGED <<user, device, demo>>

-----------------------------------------------------------------------------
(* The guided tour (DemoDirector.tsx) launches as soon as it is entered,   *)
(* or by its buttons; it counts its beats before it makes the account, and *)
(* shows it a moment after it was saved.                                   *)
EnterTour ==
  /\ view \in {"menu", "truth"} /\ demo' = TRUE
  /\ BeginLoad("tour", None, "beats")
  /\ view' = "director" /\ launch' = begun'
  /\ UNCHANGED <<booted, user, device>>

Launch(mode) ==
  /\ view = "director" /\ Press(mode, None, "beats")
  /\ UNCHANGED <<device, demo>>

Launched(l) == l \in loads /\ l.kind \in {"tour", "explore"}

BeatsOver(l) ==
  /\ Launched(l) /\ l.at = "beats" /\ Goes(l, None, "making")
  /\ vaults' = {} /\ UNCHANGED session

DirectorMade(l, a) ==
  /\ Launched(l) /\ l.at = "making" /\ Goes(l, a, "made")
  /\ Saved(a)

DirectorReady(l) ==
  /\ Launched(l) /\ l.at = "made" /\ End(l)
  /\ user' = l.of /\ Show(IF l.kind = "tour" THEN "wallet" ELSE "zk-demo")
  /\ UNCHANGED <<device, demo>>

-----------------------------------------------------------------------------
(* The gate: create an account, or restore one from its recovery kit.      *)
AskCreate ==
  /\ view = "gate" /\ Press("create", None, "making")
  /\ UNCHANGED <<device, demo>>

Create(l) ==
  /\ l.kind = "create" /\ End(l)
  /\ demo' = FALSE /\ Show("onboarding")
  /\ UNCHANGED <<user, device>>

AskRestore(a) ==
  /\ view = "gate" /\ Press("restore", a, "making")
  /\ UNCHANGED <<device, demo>>

Restored(l) ==
  /\ l.kind = "restore" /\ End(l)
  /\ Saved(l.of) /\ user' = l.of
  /\ demo' = FALSE /\ Show("wallet")

(* Sign-up (Onboarding.tsx): a demo account as above, or a product account *)
(* whose recovery kit is sealed after it was saved.                        *)
SignUp ==
  /\ view = "onboarding"
  /\ Press(IF demo THEN "demo signup" ELSE "signup", None, "making")
  /\ vaults' = IF demo THEN {} ELSE vaults
  /\ UNCHANGED <<session, demo>>

DemoSignedUp(l, a) ==
  /\ l.kind = "demo signup" /\ End(l)
  /\ Saved(a) /\ user' = a /\ Show("zk-demo")
  /\ UNCHANGED demo

SignUpMade(l, a) ==
  /\ l \in loads /\ l.kind = "signup" /\ l.at = "making"
  /\ Goes(l, a, "made")
  /\ Saved(a)

SignedUp(l) ==
  /\ l.kind = "signup" /\ l.at = "made" /\ End(l)
  /\ user' = l.of /\ Show("wallet")
  /\ UNCHANGED <<device, demo>>

(* The recovery screen restores an account from a kit.                     *)
AskRecover(a) ==
  /\ view = "recovery" /\ Press("recover", a, "making")
  /\ UNCHANGED <<device, demo>>

Recovered(l) ==
  /\ l.kind = "recover" /\ End(l)
  /\ Saved(l.of) /\ user' = l.of
  /\ UNCHANGED <<view, launch, demo>>

(* A payment of the wallet, or the recovery screen's confirmation of the   *)
(* vault at hand: both save the vault and show the account once more.      *)
AskWallet ==
  /\ view \in {"wallet", "recovery"} /\ Press("wallet", user, "making")
  /\ UNCHANGED <<device, demo>>

WalletDone(l) ==
  /\ l.kind = "wallet" /\ End(l)
  /\ user' = l.of /\ vaults' = vaults \union {l.of}
  /\ UNCHANGED <<session, view, launch, demo>>

(* An error on a screen that may be gone.                                  *)
LoadFails(l) ==
  /\ l.kind \notin {"circle", "voice"}
  /\ l.at = "making" \/ (l.kind = "signup" /\ l.at = "made")
  /\ End(l)
  /\ UNCHANGED <<view, user, device, demo, launch>>

-----------------------------------------------------------------------------
Next ==
  \/ \E readable \in BOOLEAN : ColdStart(readable)
  \/ Reload \/ SignOut \/ MerchantBack
  \/ \E lead \in Leads : Go(lead[1], lead[2])
  \/ \E from, to \in Views : Showcase(from, to)
  \/ OpenCircle \/ OpenVoice \/ EnterTour
  \/ \E mode \in {"tour", "explore"} : Launch(mode)
  \/ AskCreate \/ SignUp \/ AskWallet
  \/ \E a \in Accounts : AskRestore(a) \/ AskRecover(a)
  \/ \E l \in loads :
       \/ CircleLoaded(l) \/ \E unread \in BOOLEAN : CircleNotLoaded(l, unread)
       \/ VoiceFails(l) \/ BeatsOver(l) \/ DirectorReady(l)
       \/ Create(l) \/ Restored(l) \/ SignedUp(l) \/ Recovered(l) \/ WalletDone(l)
       \/ LoadFails(l)
       \/ \E a \in Accounts : \/ VoiceReady(l, a) \/ DirectorMade(l, a)
                              \/ DemoSignedUp(l, a) \/ SignUpMade(l, a)

Spec == Init /\ [][Next]_vars

-----------------------------------------------------------------------------
(* A screen that works on an account has one, whatever handlers come to    *)
(* their ends after signing out or leaving.  Once nothing is under way it  *)
(* is the account the session points to, with its vault on the device, so  *)
(* that opening the page again shows the same wallet; unless the account   *)
(* was changed while a handler was under way.                              *)
ViewHasAccount ==
  view \in AccountViews =>
    /\ user # None
    /\ loads = {} /\ ~overlapped => user = session /\ user \in vaults
=============================================================================
