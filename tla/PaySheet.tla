------------------------------ MODULE PaySheet ------------------------------
(***************************************************************************)
(* The wallet screen (Wallet.tsx) and the sheet on which a payment is      *)
(* accepted (PaymentPing.tsx, DisambiguationFlow.tsx), with the server's   *)
(* check of a recipient's name (POST /api/recipients/verify).              *)
(*                                                                         *)
(* A handler of the screen runs to its next await; what it awaits comes    *)
(* back in any order, also after another intent was begun.  A render and   *)
(* the effects it causes belong to the step that caused them, because      *)
(* React flushes them before the next event.  A guided tour may give the   *)
(* screen a command at any time.                                           *)
(*                                                                         *)
(* A payment is its amount and the name of its recipient.  The name of a   *)
(* sheet that has no payment yet is Blank.                                 *)
(***************************************************************************)
EXTENDS Integers, FiniteSets

CONSTANTS
  Amounts,
  Limit,      \* policy T2: amountThreshold
  Names, Blank,
  Known,      \* names in the vault's contacts at the start
  Persons,
  Called,     \* identities the server finds for a name
  Cleared,    \* identities with KYC done and no sanction
  BrandOf,    \* the brand catalogue's status of a name
  MaxBegun,   \* bound: payments built, a rebuilt one counted anew, and credit requests
  MaxGuides,  \* bound: commands of the guided tour
  None

ConstantTypes ==
  /\ Amounts \subseteq Nat \ {0} /\ Limit \in Nat
  /\ MaxBegun \in Nat /\ MaxGuides \in Nat
  /\ Known \subseteq Names /\ Blank \notin Names /\ Cleared \subseteq Persons
  /\ Called \in [Names -> SUBSET Persons]
  /\ BrandOf \in [Names -> {"verified", "unverified_brand", "not_a_brand"}]
  /\ None \notin Names \union Persons

VARIABLES
  phase,
  contacts,  \* names in the vault's contacts
  made,      \* payments built so far; they are numbered
  building,  \* runIntent at its clientIntent
  bundle,    \* pendingBundle
  preparing, \* payments whose confirm material is being prefetched
  prepared,  \* preparedRef: the payment the material was made for
  sheet,     \* the state of PaymentPing, None when it is not mounted
  confirm,   \* confirmSend or confirmCredit in progress: busy
  credit,    \* pendingCredit
  flow,      \* creditFlow
  asking,    \* runCreditIntent at its awaits
  timers,    \* timers that will close an error
  asked, guides \* bound counters

vars == <<phase, contacts, made, building, bundle, preparing, prepared, sheet,
          confirm, credit, flow, asking, timers, asked, guides>>

Phases == {"home", "app", "contacts", "listening", "verifying", "ping", "settling",
           "settled", "denied", "error"}
Ids == 1..MaxBegun
Kinds == {"loan", "standing"}
Shown == Names \union {Blank}
Payment == [amount : Amounts, name : Names]
Bundle == [id : Ids, amount : Amounts, name : Names, second : BOOLEAN, stranger : BOOLEAN]
Request == [name : Names, pick : Persons \union {None}, current : BOOLEAN]
Result == [name : Names, status : {"verified", "ambiguous", "unverified"}]
Sheet == [props : (Amounts \union {0}) \X Shown, amount : Amounts \union {0}, name : Shown,
          armed : BOOLEAN, verify : {"idle", "checking", "done"},
          result : Result \union {None}, requests : SUBSET Request,
          brand : {"loading", "verified", "unverified_brand", "not_a_brand"},
          ack : BOOLEAN, pressed : Payment \union {None},
          typed : BOOLEAN] \* history: the name was typed while no verdict was needed
Confirm == [at : {"unlock", "rebuild", "settle"}, of : Bundle, to : Bundle,
            wanted : Payment, papers : Ids \union {None}, twice : BOOLEAN,
            checked : BOOLEAN, typed : BOOLEAN, guided : BOOLEAN]
Booking == [at : {"credit unlock", "credit"}]

TypeOK ==
  /\ phase \in Phases
  /\ Known \subseteq contacts /\ contacts \subseteq Names
  /\ made \in 0..MaxBegun /\ preparing \subseteq 1..made
  /\ building \subseteq [id : Ids, amount : Amounts, name : Names]
  /\ bundle \in Bundle \union {None}
  /\ prepared \in (1..made) \union {None}
  /\ sheet \in Sheet \union {None}
  /\ confirm \in Confirm \union Booking \union {None}
  /\ credit \in Kinds \union {None}
  /\ flow \in BOOLEAN
  /\ asking \subseteq Kinds /\ asked \in 0..MaxBegun /\ timers \in 0..MaxBegun
  /\ guides \in 0..MaxGuides

Init ==
  /\ phase = "home"
  /\ contacts = Known
  /\ made = 0 /\ building = {} /\ bundle = None
  /\ preparing = {} /\ prepared = None
  /\ sheet = None
  /\ confirm = None
  /\ credit = None /\ flow = FALSE
  /\ asking = {} /\ timers = 0
  /\ asked = 0 /\ guides = 0

busy == confirm # None
At(place) == busy /\ confirm.at = place

-----------------------------------------------------------------------------
(* The sheet's state as its effects leave it.                              *)

Props(b) == IF b = None THEN <<0, Blank>> ELSE <<b.amount, b.name>>
Needed(b) == b # None /\ b.stranger

(* runRecipientVerify: an earlier request is no longer the current one.    *)
Requested(s, pick) ==
  [s EXCEPT !.verify = "checking", !.result = None,
            !.requests = {[r EXCEPT !.current = FALSE] : r \in @}
                           \union {[name |-> s.name, pick |-> pick, current |-> TRUE]}]

Checked(s, b) ==
  IF Needed(b) /\ s.name # Blank /\ s.verify = "idle" THEN Requested(s, None) ELSE s

Branded(s) == [s EXCEPT !.ack = FALSE,
                        !.brand = IF s.name = Blank THEN "not_a_brand" ELSE "loading"]

(* Mutant of Renamed: an edited name keeps the verdict on the old one.     *)
RenamedVerified(s, n, b) == Checked(Branded([s EXCEPT !.name = n]), b)

(* The name changes: both gates start again.                               *)
Renamed(s, n, b) ==
  Checked(Branded([s EXCEPT !.name = n, !.verify = "idle", !.result = None]), b)

Mounted(b) ==
  Renamed([props |-> Props(b), amount |-> Props(b)[1], name |-> Blank, armed |-> FALSE,
           verify |-> "idle", result |-> None, requests |-> {}, brand |-> "not_a_brand",
           ack |-> FALSE, pressed |-> None, typed |-> FALSE], Props(b)[2], b)

Rerendered(s, b) ==
  LET to == Props(b)
      now == [s EXCEPT !.props = to, !.amount = to[1], !.armed = FALSE, !.pressed = None]
  IN  IF s.props = to THEN Checked(s, b)
      ELSE IF s.name # to[2] THEN Renamed([now EXCEPT !.typed = FALSE], to[2], b)
      ELSE Checked(IF s.props[2] # to[2] THEN Branded(now) ELSE now, b)

(* What is on the screen once phase, creditFlow and bundle have changed.   *)
Render ==
  sheet' = IF phase' \in {"verifying", "ping"} /\ ~flow'
             THEN IF sheet = None THEN Mounted(bundle') ELSE Rerendered(sheet, bundle')
             ELSE None

Go(p) == phase' = p /\ UNCHANGED <<bundle, flow>> /\ Render

intentVars == <<contacts, made, building, preparing, prepared>>
creditVars == <<credit, asking, timers, asked>>

-----------------------------------------------------------------------------
(* Moving about, speaking, asking for a payment.                           *)

Open(to) ==
  /\ \/ phase = "home" /\ to \in {"app", "contacts", "listening", "error"}
     \/ phase = "app" /\ to \in {"home", "contacts", "listening", "error"}
     \/ phase = "contacts" /\ to = "app"
     \/ phase = "listening" /\ to \in {"home", "app"}
     \/ phase \in {"settled", "denied", "error"} /\ to = "home"
  /\ Go(to)
  /\ UNCHANGED <<intentVars, creditVars, confirm, guides>>

(* A command of the guided tour may come at any time.                      *)
Guided == guides < MaxGuides /\ guides' = guides + 1

Guide(to) ==
  /\ phase # to
  /\ Guided
  /\ Go(to)
  /\ UNCHANGED <<intentVars, creditVars, confirm>>

(* runIntent: heard, typed, a contact's pay button, a retry, or the guide, *)
(* which alone may come at any time.                                       *)
Ask(p, guided) ==
  /\ IF guided THEN Guided
     ELSE phase \in {"app", "contacts", "listening", "error"} /\ UNCHANGED guides
  /\ made + asked < MaxBegun
  /\ made' = made + 1
  /\ building' = building \union {[id |-> made', amount |-> p.amount, name |-> p.name]}
  /\ phase' = "verifying" /\ bundle' = None /\ credit' = None /\ flow' = FALSE
  /\ Render
  /\ UNCHANGED <<contacts, preparing, prepared, confirm, asking, asked, timers>>

(* clientIntent adds an unknown name to the contacts, then builds.         *)
Built(id, p) ==
  [id |-> id, amount |-> p.amount, name |-> p.name, second |-> p.amount >= Limit,
   stranger |-> p.name \notin contacts]

Answered(r) ==
  /\ r \in building
  /\ building' = building \ {r}
  /\ contacts' = contacts \union {r.name}
  /\ bundle' = Built(r.id, r)
  /\ phase' = "ping" /\ UNCHANGED flow
  /\ Render
  /\ prepared' = None
  /\ preparing' = preparing \union {r.id}
  /\ UNCHANGED <<made, creditVars, confirm, guides>>

(* No money, no network or a policy: the name may be a contact by then.    *)
NotBuilt(r) ==
  /\ r \in building
  /\ building' = building \ {r}
  /\ contacts' \in {contacts, contacts \union {r.name}}
  /\ Go("error")
  /\ UNCHANGED <<made, preparing, prepared, creditVars, confirm, guides>>

(* prepareConfirm comes back, or fails.                                    *)
Prefetched(i) ==
  /\ i \in preparing
  /\ preparing' = preparing \ {i}
  /\ prepared' \in {i, None}
  /\ UNCHANGED <<phase, contacts, made, building, bundle, sheet, flow, creditVars,
                 confirm, guides>>

-----------------------------------------------------------------------------
(* The sheet.                                                              *)

screenVars == <<phase, intentVars, bundle, flow, creditVars, confirm, guides>>

(* POST /api/recipients/verify.                                            *)
Verdict(n, pick) ==
  LET scoped == IF pick = None THEN Called[n] ELSE Called[n] \intersect {pick}
  IN  IF BrandOf[n] = "verified" THEN "verified"
      ELSE IF Cardinality(scoped) > 1 THEN "ambiguous"
      ELSE IF scoped \intersect Cleared # {} THEN "verified"
      ELSE "unverified"

(* The answer, or after four seconds or a failure none.                    *)
VerifyAnswered(r, status) ==
  /\ sheet # None /\ r \in sheet.requests
  /\ status \in {Verdict(r.name, r.pick), "unverified"}
  /\ LET rest == [sheet EXCEPT !.requests = @ \ {r}]
     IN  sheet' = IF r.current
                  THEN [rest EXCEPT !.verify = "done",
                                    !.result = [name |-> r.name, status |-> status]]
                  ELSE rest
  /\ UNCHANGED screenVars

BrandAnswered(status) ==
  /\ sheet # None /\ sheet.brand = "loading"
  /\ status \in {BrandOf[sheet.name], "not_a_brand"}
  /\ sheet' = [sheet EXCEPT !.brand = status]
  /\ UNCHANGED screenVars

(* Nothing can be pressed behind a spinner; then either the people who may *)
(* be meant are shown, or the payment itself.                              *)
Ready == sheet # None /\ phase = "ping" /\ ~busy /\ sheet.brand # "loading"

Resolving ==
  /\ Ready /\ Needed(bundle)
  /\ sheet.verify = "done" /\ sheet.result # None /\ sheet.result.status # "verified"

Editing == Ready /\ ~Resolving /\ ~(Needed(bundle) /\ sheet.verify = "checking")

Disarmed(s) == [s EXCEPT !.armed = FALSE]

EditAmount(a) ==
  /\ Editing /\ sheet.amount # a
  /\ sheet' = [Disarmed(sheet) EXCEPT !.amount = a]
  /\ UNCHANGED screenVars

EditName(n) ==
  /\ Editing /\ sheet.name # n
  /\ sheet' = Renamed([Disarmed(sheet) EXCEPT !.typed = ~Needed(bundle)], n, bundle)
  /\ UNCHANGED screenVars

Acknowledge ==
  /\ Editing /\ sheet.brand = "unverified_brand"
  /\ sheet' = [sheet EXCEPT !.ack = ~@]
  /\ UNCHANGED screenVars

PickPerson(p) ==
  /\ Resolving /\ sheet.result.status = "ambiguous"
  /\ p \in Called[sheet.result.name]
  /\ sheet' = Requested(sheet, p)
  /\ UNCHANGED screenVars

(* Nobody fits: with more context from the app, or in person.              *)
Leave(to) ==
  /\ Resolving
  /\ to = "contacts" => sheet.result.status # "ambiguous"
  /\ phase' = to /\ bundle' = None /\ UNCHANGED flow
  /\ Render
  /\ UNCHANGED <<intentVars, creditVars, confirm, guides>>

Deny ==
  /\ phase = "ping" /\ ~busy
  /\ phase' = "denied" /\ bundle' = None /\ credit' = None /\ flow' = FALSE
  /\ Render
  /\ UNCHANGED <<intentVars, asking, asked, timers, confirm, guides>>

-----------------------------------------------------------------------------
(* Accept, and confirmSend.                                                *)

Blocked ==
  \/ sheet.brand = "unverified_brand" /\ ~sheet.ack
  \/ Needed(bundle) /\ (sheet.result = None \/ sheet.result.status # "verified")

Wanted == [amount |-> sheet.amount, name |-> sheet.name]

Accept ==
  /\ Editing /\ bundle # None /\ Wanted \in Payment /\ ~Blocked
  /\ IF bundle.second /\ ~sheet.armed
     THEN /\ sheet' = [sheet EXCEPT !.armed = TRUE, !.pressed = Wanted]
          /\ UNCHANGED confirm
     ELSE /\ confirm' =
               [at |-> "unlock", of |-> bundle, to |-> bundle, wanted |-> Wanted,
                papers |-> None, twice |-> sheet.pressed = Wanted,
                checked |-> sheet.result = [name |-> sheet.name, status |-> "verified"],
                typed |-> sheet.typed, guided |-> FALSE]
          /\ UNCHANGED sheet
  /\ UNCHANGED <<phase, intentVars, bundle, flow, creditVars, guides>>

(* The guided tour confirms what is pending, whatever the sheet shows.     *)
GuideConfirm ==
  /\ ~busy /\ credit = None /\ bundle # None
  /\ Guided
  /\ confirm' = [at |-> "unlock", of |-> bundle, to |-> bundle,
                 wanted |-> [amount |-> bundle.amount, name |-> bundle.name],
                 papers |-> None, twice |-> FALSE, checked |-> FALSE,
                 typed |-> FALSE, guided |-> TRUE]
  /\ UNCHANGED <<phase, intentVars, bundle, sheet, flow, creditVars>>

Changed(c) == c.wanted # [amount |-> c.of.amount, name |-> c.of.name]

(* clientConfirm takes the prefetched material only if it was made for the *)
(* payment, and makes its own otherwise.                                   *)
Papers(b) == IF prepared = b.id THEN prepared ELSE b.id

Sending(c) == [c EXCEPT !.at = "settle", !.papers = Papers(c.to)]

(* The vault is unlocked; a payment that was edited is built anew.         *)
Unlocked ==
  /\ At("unlock")
  /\ IF Changed(confirm)
     THEN confirm' = [confirm EXCEPT !.at = "rebuild"] /\ Go("verifying")
     ELSE confirm' = Sending(confirm) /\ Go("settling")
  /\ UNCHANGED <<intentVars, creditVars, guides>>

Rebuilt ==
  LET now == Built(made + 1, confirm.wanted)
  IN  /\ At("rebuild") /\ made + asked < MaxBegun
      /\ made' = made + 1
      /\ contacts' = contacts \union {now.name}
      /\ bundle' = now
      /\ confirm' = Sending([confirm EXCEPT !.to = now])
      /\ phase' = "settling" /\ UNCHANGED flow
      /\ Render
      /\ UNCHANGED <<building, preparing, prepared, creditVars, guides>>

(* The unlock is refused, or the edited payment cannot be built.           *)
NotPaid ==
  /\ At("unlock") \/ At("rebuild")
  /\ confirm' = None
  /\ Go("ping")
  /\ UNCHANGED <<intentVars, creditVars, guides>>

Settled ==
  /\ At("settle")
  /\ confirm' = None /\ prepared' = None
  /\ phase' = "settled" /\ bundle' = None /\ UNCHANGED flow
  /\ Render
  /\ UNCHANGED <<contacts, made, building, preparing, creditVars, guides>>

(* The server refuses, or it settles and the vault does not follow.        *)
NotSettled(to) ==
  /\ At("settle")
  /\ confirm' = None
  /\ Go(to)
  /\ UNCHANGED <<intentVars, creditVars, guides>>

-----------------------------------------------------------------------------
(* Circle Credit by voice: runCreditIntent and confirmCredit.              *)

AskCredit(kind) ==
  /\ phase \in {"app", "listening"}
  /\ made + asked < MaxBegun /\ asked' = asked + 1
  /\ asking' = asking \union {kind}
  /\ credit' = kind /\ flow' = TRUE /\ bundle' = None /\ phase' = "verifying"
  /\ Render
  /\ UNCHANGED <<intentVars, timers, confirm, guides>>

CreditReady(kind) ==
  /\ kind \in asking
  /\ asking' = asking \ {kind}
  /\ credit' = kind
  /\ Go("ping")
  /\ UNCHANGED <<intentVars, asked, timers, confirm, guides>>

CreditFails(kind) ==
  /\ kind \in asking
  /\ asking' = asking \ {kind}
  /\ timers' = timers + 1
  /\ credit' = None /\ flow' = FALSE /\ phase' = "error" /\ UNCHANGED bundle
  /\ Render
  /\ UNCHANGED <<intentVars, asked, confirm, guides>>

(* The error closes after 2.8 seconds, whatever is on the screen by then.  *)
TimerFires ==
  /\ timers > 0 /\ timers' = timers - 1
  /\ Go("home")
  /\ UNCHANGED <<intentVars, credit, asking, asked, confirm, guides>>

(* By the sheet or by the guide; a standing is only shown.                 *)
ConfirmCredit ==
  /\ credit # None /\ ~busy
  /\ IF credit = "standing"
     THEN /\ credit' = None /\ flow' = FALSE /\ phase' = "settled"
          /\ UNCHANGED <<confirm, bundle>>
          /\ Render
     ELSE /\ confirm' = [at |-> "credit unlock"]
          /\ UNCHANGED <<phase, credit, flow, bundle, sheet>>
  /\ UNCHANGED <<intentVars, asking, asked, timers, guides>>

CreditUnlocked ==
  /\ At("credit unlock")
  /\ confirm' = [at |-> "credit"]
  /\ Go("settling")
  /\ UNCHANGED <<intentVars, creditVars, guides>>

CreditBooked ==
  /\ At("credit")
  /\ confirm' = None /\ credit' = None /\ flow' = FALSE /\ phase' = "settled"
  /\ UNCHANGED bundle /\ Render
  /\ UNCHANGED <<intentVars, asking, asked, timers, guides>>

(* The vault stays locked, or the pool refuses.                            *)
CreditRefused ==
  /\ At("credit unlock") \/ At("credit")
  /\ confirm' = None /\ phase' = "ping" /\ UNCHANGED bundle
  /\ flow' = (flow \/ At("credit"))
  /\ Render
  /\ UNCHANGED <<intentVars, creditVars, guides>>

-----------------------------------------------------------------------------
Next ==
  \/ \E to \in Phases : Open(to)
  \/ \E to \in {"app", "home"} : Guide(to)
  \/ \E p \in Payment, guided \in BOOLEAN : Ask(p, guided)
  \/ \E r \in building : Answered(r) \/ NotBuilt(r)
  \/ \E i \in preparing : Prefetched(i)
  \/ \E r \in Request, status \in {"verified", "ambiguous", "unverified"} :
        VerifyAnswered(r, status)
  \/ \E status \in {"verified", "unverified_brand", "not_a_brand"} : BrandAnswered(status)
  \/ \E a \in Amounts : EditAmount(a)
  \/ \E n \in Shown : EditName(n)
  \/ Acknowledge
  \/ \E p \in Persons : PickPerson(p)
  \/ \E to \in {"app", "contacts"} : Leave(to)
  \/ Deny \/ Accept \/ GuideConfirm
  \/ Unlocked \/ Rebuilt \/ NotPaid
  \/ Settled \/ \E to \in {"ping", "error"} : NotSettled(to)
  \/ \E kind \in Kinds : AskCredit(kind) \/ CreditReady(kind) \/ CreditFails(kind)
  \/ TimerFires \/ ConfirmCredit \/ CreditUnlocked \/ CreditBooked \/ CreditRefused

Spec == Init /\ [][Next]_vars

-----------------------------------------------------------------------------
(* What goes to the server is what was accepted, with its own papers: the  *)
(* amount and the name on the sheet when Accept was pressed, pressed twice *)
(* on the same payment if the policy asks for it, and for a stranger after *)
(* a verdict on this very name, however edits, answers, prefetches and the *)
(* other payments of a guided tour interleave (confirmSend, PaymentPing).  *)
(* Only where the name had been typed while the sheet needed no verdict,   *)
(* before the stranger's payment came, is it not asked for anew            *)
(* (PaymentPing.tsx:134 sees a request that is "done"): an earlier verdict *)
(* may then stand for it.                                                  *)
AcceptedIsGated ==
  At("settle") =>
    /\ [amount |-> confirm.to.amount, name |-> confirm.to.name] = confirm.wanted
    /\ confirm.papers = confirm.to.id
    /\ ~confirm.guided => /\ confirm.of.second => confirm.twice
                          /\ confirm.of.stranger => confirm.checked \/ confirm.typed
=============================================================================
