--------------------------- MODULE Universal_proofs ---------------------------
(***************************************************************************)
(* Proofs about the universal platform, for any quotes, routes, calls,     *)
(* refunds and payment intents and for either mode of Stripe.              *)
(*                                                                         *)
(* 1. Typed: the state is well formed, and what is referred to exists: a   *)
(*    settlement in progress has a route, which has a quote and an intent. *)
(* 2. BooksHeld: an entry that sandbox_psp has was made by a call that the *)
(*    index of intent keys names, in memory and on disk.                   *)
(* 3. MoneyKept: what is returned is a payment's money, and through the    *)
(*    Stripe API it is returned once at most, and by Stripe.               *)
(* 4. OnceInv, for local rails used once: where every call stands, its     *)
(*    legs, its payment and its part of the balances agree.                *)
(***************************************************************************)
EXTENDS Universal, FiniteSetTheorems, TLAPS

-----------------------------------------------------------------------------
(* Types.                                                                  *)

Outer == {"source", "target"}
Rail(s, c) == RailOf(s, call[c].route)

PlatformNamed ==
  /\ \A q \in Quotes : quote[q] # "none" => intent[q] # None
  /\ \A r \in Routes : route[r] # None => quote[route[r]] # "none"

CallsNamed ==
  \A c \in Calls : call[c] # None =>
    /\ route[call[c].route] # None
    /\ call[c].at \in {"target", "chain"} => call[c].src \in Calls /\ call[c].tgt \in Calls
    /\ call[c].at = "target" => StripeApi /\ Rail("target", c) = "stripe_test"

PaymentsNamed ==
  /\ \A p \in Calls : payment[p] # None \/ disk.payment[p] # None =>
       call[p] # None /\ ~InFlight(p)
  /\ \A f \in Refunds : refund[f] # None /\ refund[f].at = "target" =>
       payment[refund[f].pay] # None

Typed == TypeOK /\ PlatformNamed /\ CallsNamed /\ PaymentsNamed

(* A call keeps its route, and the route its rails.                        *)
Continues ==
  \A c \in Calls : call[c] # None =>
    /\ call'[c] # None
    /\ call'[c].route = call[c].route
    /\ \A s \in Sides : Rail(s, c)' = Rail(s, c)

(* What is assumed of the constants.                                       *)
LEMMA TypesOfConstants ==
  /\ Wanted \subseteq {i \in PaymentIntents : Plan(i).source # "stripe_test"}
  /\ Opening \in Nat
BY UniversalConstants DEF ConstantTypes

(* None is none of the records and names.                                  *)
LEMMA FreshNone ==
  None \notin Quotes \union Wanted \union Calls \union CallRecord \union RefundRecord
                \union Payment
BY UniversalConstants DEF NoneIsFresh

(* What calls, refunds and payments are made of.                           *)
LEMMA PartTypes ==
  ASSUME TypeOK
  PROVE  /\ \A c \in Calls : call[c] # None =>
              /\ call[c] \in CallRecord /\ call[c].route \in Routes
              /\ call[c].src \in Calls \union {None} /\ call[c].tgt \in Calls \union {None}
              /\ call[c].acked \in BOOLEAN
         /\ \A p \in Calls : payment[p] # None =>
              /\ payment[p] \in Payment /\ payment[p].route \in Routes
              /\ payment[p].src \in Calls /\ payment[p].tgt \in Calls
              /\ payment[p].gaps \subseteq Gaps
         /\ \A f \in Refunds : refund[f] # None =>
              refund[f] \in RefundRecord /\ refund[f].pay \in Calls
         /\ \A s \in Sides : legs[s] \in [Calls -> Statuses]
         /\ \A s \in Sides : index[s] \in [Routes -> Calls \union {None}]
         /\ disk.legs \in Legs /\ disk.index \in Index /\ disk.events \in Events
         /\ disk.payment \in [Calls -> Payment \union {None}]
BY DEF TypeOK, CallRecord, Payment, RefundRecord, Legs, Index

(* Every side of every route has a rail.                                   *)
LEMMA RailTypes ==
  ASSUME NEW s \in Sides, NEW r
  PROVE  RailOf(s, r) \in Rails
BY DEF RailOf, PlanOf, Plan, RailFor, Rails, Sides

(* A rail refunds only what it has.                                        *)
LEMMA RefundableIsThere ==
  ASSUME NEW rail \in Rails, NEW status, Refundable(rail, status)
  PROVE  status # "none"
BY DEF Rails, Refundable, PspRefundable, StripeRefundable, InternalRefundable, FxRefundable,
       Live

(* What is persisted is what there is.                                     *)
LEMMA Persisted ==
  ASSUME Persist, legs' \in Legs, index' \in Index, events' \in Events,
         payment' \in [Calls -> Payment \union {None}]
  PROVE  /\ disk' \in [legs : Legs, index : Index, events : Events,
                       payment : [Calls -> Payment \union {None}]]
         /\ disk'.legs = legs' /\ disk'.index = index' /\ disk'.payment = payment'
BY DEF Persist

(* The first state.                                                        *)
LEMMA InitTyped == Init => Typed
<1> SUFFICES ASSUME Init PROVE Typed
  OBVIOUS
<1>1. legs \in Legs /\ index \in Index
  BY DEF Init, Legs, Index, Statuses, Sides
<1>2. events \in Events /\ payment \in [Calls -> Payment \union {None}]
  BY DEF Init, Events
<1>3. disk \in [legs : Legs, index : Index, events : Events,
                payment : [Calls -> Payment \union {None}]] /\ disk.payment = payment
  BY <1>1, <1>2 DEF Init
<1>4. account \in [kyc : Levels, screened : BOOLEAN, clear : BOOLEAN]
  BY DEF Init, Levels
<1>5. TypeOK
  BY <1>1, <1>2, <1>3, <1>4, TypesOfConstants DEF Init, TypeOK
<1> QED BY <1>3, <1>5 DEF Init, Typed, PlatformNamed, CallsNamed, PaymentsNamed

(* Rails depend on nothing else.                                           *)
LEMMA SameRails ==
  ASSUME NEW d, NEW s, call'[d].route = call[d].route, UNCHANGED <<intent, route>>
  PROVE  Rail(s, d)' = Rail(s, d)
BY DEF Rail, RailOf, PlanOf

(* Rails depend on the route's quote and intent.                           *)
LEMMA RailsStay ==
  ASSUME Typed, call' = call, \A r \in Routes : route[r] # None =>
           route'[r] = route[r] /\ intent'[route[r]] = intent[route[r]]
  PROVE  Continues
<1> SUFFICES ASSUME NEW c \in Calls, call[c] # None, NEW s \in Sides
             PROVE  Rail(s, c)' = Rail(s, c)
  BY DEF Continues
<1>1. call[c].route \in Routes /\ route[call[c].route] # None
  BY PartTypes DEF Typed, CallsNamed
<1> DEFINE r == call[c].route
<1>2. route'[r] = route[r] /\ intent'[route'[r]] = intent[route[r]]
  BY <1>1
<1>3. RailOf(s, r)' = RailOf(s, r)
  BY <1>2 DEF RailOf, PlanOf
<1> QED BY <1>3 DEF Rail

(* Quotes, routes and the receiver's clearance.                            *)
LEMMA QuoteTyped ==
  ASSUME Typed, NEW q \in Quotes, NEW i \in Wanted, CreateQuote(q, i)
  PROVE  Typed' /\ Continues
<1>1. /\ UNCHANGED <<expired, route, account, railVars, call, refund, payment, moneyVars,
                     boundVars>>
      /\ Persist /\ quote[q] = "none"
      /\ quote' = [quote EXCEPT ![q] = "stored"] /\ intent' = [intent EXCEPT ![q] = i]
  BY DEF CreateQuote
<1>2. i # None
  BY FreshNone
<1>3. PlatformNamed'
  BY <1>1, <1>2 DEF Typed, TypeOK, PlatformNamed
<1>4. Continues
  BY <1>1, RailsStay DEF Typed, TypeOK, PlatformNamed
<1>5. TypeOK' /\ disk'.payment = payment'
  BY <1>1, Persisted DEF Typed, TypeOK, railVars, moneyVars, boundVars
<1>6. CallsNamed' /\ PaymentsNamed'
  BY <1>1, <1>4, <1>5 DEF Typed, CallsNamed, PaymentsNamed, Continues, InFlight, Sides
<1> QED BY <1>3, <1>4, <1>5, <1>6 DEF Typed

(* A route is made of an open quote.                                       *)
LEMMA RouteTyped ==
  ASSUME Typed, NEW r \in Routes, NEW q \in Quotes, CreateRoute(r, q)
  PROVE  Typed' /\ Continues
<1>1. /\ UNCHANGED <<quote, intent, expired, account, railVars, call, refund, payment,
                     moneyVars, boundVars>>
      /\ Persist /\ quote[q] = "stored" /\ route[r] = None
      /\ route' = [route EXCEPT ![r] = q]
  BY DEF CreateRoute
<1>2. q # None
  BY FreshNone
<1>3. PlatformNamed'
  BY <1>1, <1>2 DEF Typed, TypeOK, PlatformNamed
<1>4. Continues
  BY <1>1, RailsStay DEF Typed, TypeOK
<1>5. TypeOK' /\ disk'.payment = payment'
  BY <1>1, Persisted DEF Typed, TypeOK, railVars, moneyVars, boundVars
<1>6. \A c \in Calls : call[c] # None => route'[call[c].route] # None
  BY <1>1, <1>2 DEF Typed, TypeOK, CallsNamed
<1>7. CallsNamed' /\ PaymentsNamed'
  BY <1>1, <1>4, <1>5, <1>6 DEF Typed, CallsNamed, PaymentsNamed, Continues, InFlight, Sides
<1> QED BY <1>3, <1>4, <1>5, <1>7 DEF Typed

(* The receiver is cleared, or looked at again.                            *)
LEMMA ClearanceTyped ==
  ASSUME Typed,
         \/ \E q \in Quotes : Expire(q)
         \/ \E level \in Levels \ {"unverified"}, screened \in {"unset", "yes", "no"},
               clear \in BOOLEAN : VerifyAccount(level, screened, clear)
  PROVE  Typed' /\ Continues
<1>1. /\ UNCHANGED <<quote, intent, route, railVars, call, refund, payment, moneyVars>>
      /\ expired' \subseteq Quotes /\ checks' \in Nat /\ crashes' \in Nat
      /\ disk' = disk \/ Persist
  BY DEF Expire, VerifyAccount, Typed, TypeOK, platformVars, boundVars
<1>2. account' \in [kyc : Levels, screened : BOOLEAN, clear : BOOLEAN]
  <2>1. CASE \E q \in Quotes : Expire(q)
    BY <2>1 DEF Expire, Typed, TypeOK
  <2>2. ASSUME NEW level \in Levels \ {"unverified"}, NEW screened \in {"unset", "yes", "no"},
               NEW clear \in BOOLEAN, VerifyAccount(level, screened, clear)
        PROVE  account' \in [kyc : Levels, screened : BOOLEAN, clear : BOOLEAN]
    <3> DEFINE now == IF screened = "unset"
                      THEN level = "enhanced_verified" \/ account.screened ELSE screened = "yes"
    <3>1. account' = [kyc |-> level, clear |-> clear, screened |-> now]
      BY <2>2 DEF VerifyAccount
    <3>2. now \in BOOLEAN
      OBVIOUS
    <3> HIDE DEF now
    <3> QED BY <3>1, <3>2
  <2> QED BY <2>1, <2>2
<1>3. Continues
  BY <1>1, RailsStay
<1>4. TypeOK' /\ (disk'.payment = payment' \/ disk'.payment = disk.payment)
  BY <1>1, <1>2, Persisted DEF Typed, TypeOK, railVars, moneyVars
<1>5. CallsNamed' /\ PaymentsNamed' /\ PlatformNamed'
  BY <1>1, <1>3, <1>4 DEF Typed, PlatformNamed, CallsNamed, PaymentsNamed, Continues,
     InFlight, Sides
<1> QED BY <1>3, <1>4, <1>5 DEF Typed

(* A call that moves on, and the platform as it is.                        *)
LEMMA CallMoves ==
  ASSUME Typed, NEW c \in Calls, call[c] # None, NEW y \in CallRecord,
         y.route = call[c].route,
         y.at \in {"target", "chain"} => y.src \in Calls /\ y.tgt \in Calls,
         y.at = "target" => StripeApi /\ Rail("target", c) = "stripe_test",
         call' = [call EXCEPT ![c] = y], UNCHANGED <<intent, route>>
  PROVE  /\ call' \in [Calls -> CallRecord \union {None}]
         /\ Continues /\ CallsNamed'
         /\ \A d \in Calls \ {c} : call'[d] = call[d]
         /\ call'[c] = y
<1>1. /\ call' \in [Calls -> CallRecord \union {None}]
      /\ call'[c] = y /\ \A d \in Calls \ {c} : call'[d] = call[d]
  BY DEF Typed, TypeOK
<1>2. y # None
  BY FreshNone
<1>3. \A d \in Calls : call[d] # None => call'[d] # None /\ call'[d].route = call[d].route
  BY <1>1, <1>2
<1>4. Continues
  BY <1>3, SameRails DEF Continues
<1>5. CallsNamed'
  <2> SUFFICES ASSUME NEW d \in Calls, call'[d] # None
               PROVE  /\ route'[call'[d].route] # None
                      /\ call'[d].at \in {"target", "chain"} =>
                           call'[d].src \in Calls /\ call'[d].tgt \in Calls
                      /\ call'[d].at = "target" =>
                           StripeApi /\ Rail("target", d)' = "stripe_test"
    BY DEF CallsNamed
  <2>1. call[d] # None /\ "target" \in Sides
    BY <1>1 DEF Sides
  <2>2. Rail("target", d)' = Rail("target", d)
    BY <1>4, <2>1 DEF Continues
  <2>3. CASE d = c
    BY <1>1, <2>1, <2>2, <2>3 DEF Typed, CallsNamed
  <2>4. CASE d # c
    BY <1>1, <2>1, <2>2, <2>4 DEF Typed, CallsNamed
  <2> QED BY <2>3, <2>4
<1> QED BY <1>1, <1>4, <1>5

(* It ends, and so do payments' calls stay ended.                          *)
Ended(x) == [x EXCEPT !.at = "answered"]

(* The fields of a call that ends,                                         *)
LEMMA EndedCall ==
  ASSUME NEW x \in CallRecord
  PROVE  /\ Ended(x) \in CallRecord /\ Ended(x).at = "answered" /\ Ended(x).route = x.route
         /\ Ended(x).src = x.src /\ Ended(x).tgt = x.tgt
BY DEF Ended, CallRecord

(* What a call in flight may become.                                       *)
LEMMA PaymentsStayNamed ==
  ASSUME Typed, NEW c \in Calls, InFlight(c), call' \in [Calls -> CallRecord \union {None}],
         call'[c] # None, \A d \in Calls \ {c} : call'[d] = call[d],
         UNCHANGED <<payment, refund, disk>>
  PROVE  PaymentsNamed'
BY DEF Typed, PaymentsNamed, InFlight

(* A leg that is booked.                                                   *)
LEMMA LegTypes ==
  ASSUME TypeOK, NEW s \in Outer, NEW c \in Calls, NEW r \in Routes
  PROVE  /\ Booked(s, c, r) \in Calls
         /\ SettledLeg(s, c, r) \in [Calls -> Statuses]
         /\ FxLeg(c, r) \in [Calls -> Statuses]
         /\ \A d \in Calls \ {Booked(s, c, r)} : SettledLeg(s, c, r)[d] = legs[s][d]
         /\ Booked(s, c, r) # c =>
              (SettledLeg(s, c, r)[Booked(s, c, r)] # "none" <=> legs[s][Booked(s, c, r)] # "none")
         /\ Booked(s, c, r) = c => SettledLeg(s, c, r)[c] # "none"
<1>1. /\ s \in Sides /\ "fx" \in Sides
      /\ legs[s] \in [Calls -> Statuses] /\ legs["fx"] \in [Calls -> Statuses]
      /\ index[s] \in [Routes -> Calls \union {None}]
  BY PartTypes DEF Outer, Sides
<1>2. Booked(s, c, r) \in Calls
  BY <1>1 DEF Booked
<1>3. \A status \in Statuses : SelfAcked(s, c, r, status) \in Statuses
        /\ (SelfAcked(s, c, r, status) # "none" <=> status # "none")
  BY DEF SelfAcked, Acknowledged, Statuses
<1> DEFINE id == Booked(s, c, r)
           now == IF id = c THEN "settled" ELSE legs[s][id]
<1>4. now \in Statuses /\ (id = c => now # "none") /\ (id # c => now = legs[s][id])
  BY <1>1, <1>2 DEF Statuses
<1>5. SettledLeg(s, c, r) = [legs[s] EXCEPT ![id] = SelfAcked(s, c, r, now)]
  BY DEF SettledLeg
<1> HIDE DEF now, id
<1>6. id = Booked(s, c, r)
  BY DEF id
<1>7. /\ SettledLeg(s, c, r) \in [Calls -> Statuses]
      /\ \A d \in Calls \ {id} : SettledLeg(s, c, r)[d] = legs[s][d]
      /\ SettledLeg(s, c, r)[id] = SelfAcked(s, c, r, now)
  BY <1>1, <1>2, <1>3, <1>4, <1>5, <1>6
<1>8. FxLeg(c, r) \in [Calls -> Statuses]
  BY <1>1 DEF FxLeg, Statuses
<1> QED BY <1>2, <1>3, <1>4, <1>6, <1>7, <1>8

(* What a failing settlement leaves of a leg.                              *)
LEMMA UndoTypes ==
  ASSUME TypeOK, NEW s \in Outer, NEW c \in Calls, NEW id \in Calls
  PROVE  /\ Undo(s, c, id) \in [Calls -> Statuses]
         /\ \A d \in Calls : Undo(s, c, id)[d] # "none" <=> legs[s][d] # "none"
<1>1. s \in Sides /\ legs[s] \in [Calls -> Statuses]
  BY PartTypes DEF Outer, Sides
<1>2. RailOf(s, call[c].route) \in Rails
  BY <1>1, RailTypes
<1>3. Refundable(RailOf(s, call[c].route), legs[s][id]) => legs[s][id] # "none"
  BY <1>2, RefundableIsThere
<1>4. "refunded" \in Statuses /\ "refunded" # "none"
  BY DEF Statuses
<1> QED BY <1>1, <1>3, <1>4 DEF Undo

(* The index after booking, and the events the platform delivers itself.   *)
LEMMA IndexTypes ==
  ASSUME TypeOK, NEW c \in Calls, NEW r \in Routes, NEW sides \in SUBSET Outer
  PROVE  /\ Indexed(sides, c, r) \in Index
         /\ AutoEvents(sides, c, r) \in Events
<1>1. \A s \in Sides : index[s] \in [Routes -> Calls \union {None}]
  BY PartTypes
<1>2. \A s \in sides : s \in Sides /\ Booked(s, c, r) \in Calls
  BY LegTypes DEF Outer, Sides
<1> QED BY <1>1, <1>2 DEF Indexed, AutoEvents, Index, Events

(* A settlement begins.                                                    *)
LEMMA BeginTyped ==
  ASSUME Typed, NEW c \in Calls, NEW r \in Routes, BeginSettle(c, r)
  PROVE  Typed' /\ Continues
<1> DEFINE y == [at |-> "proving", route |-> r, src |-> None, tgt |-> None, acked |-> FALSE]
<1>1. /\ UNCHANGED <<platformVars, account, railVars, refund, payment, moneyVars, disk,
                     boundVars>>
      /\ call[c] = None /\ route[r] # None /\ call' = [call EXCEPT ![c] = y]
  BY DEF BeginSettle, MaySettle
<1>2. /\ y \in CallRecord /\ y # None /\ y.route = r /\ y.at = "proving"
  <2>1. y \in CallRecord
    BY DEF CallRecord
  <2> QED BY <2>1, FreshNone
<1> HIDE DEF y
<1>3. /\ call' \in [Calls -> CallRecord \union {None}]
      /\ call'[c] = y /\ \A d \in Calls \ {c} : call'[d] = call[d]
  BY <1>1, <1>2 DEF Typed, TypeOK
<1>4. Continues
  BY <1>1, <1>3, SameRails DEF Continues, platformVars
<1>5. CallsNamed'
  <2> SUFFICES ASSUME NEW d \in Calls, call'[d] # None
               PROVE  /\ route'[call'[d].route] # None
                      /\ call'[d].at \in {"target", "chain"} =>
                           call'[d].src \in Calls /\ call'[d].tgt \in Calls
                      /\ call'[d].at = "target" =>
                           StripeApi /\ Rail("target", d)' = "stripe_test"
    BY DEF CallsNamed
  <2>1. CASE d = c
    BY <1>1, <1>2, <1>3, <2>1 DEF platformVars
  <2>2. CASE d # c
    <3>1. call[d] # None /\ call'[d] = call[d] /\ "target" \in Sides
      BY <1>3, <2>2 DEF Sides
    <3>2. Rail("target", d)' = Rail("target", d)
      BY <1>4, <3>1 DEF Continues
    <3> QED BY <1>1, <3>1, <3>2 DEF Typed, CallsNamed, platformVars
  <2> QED BY <2>1, <2>2
<1>6. TypeOK'
  BY <1>1, <1>3 DEF Typed, TypeOK, platformVars, railVars, moneyVars, boundVars
<1>7. PaymentsNamed' /\ PlatformNamed'
  BY <1>1, <1>3 DEF Typed, PaymentsNamed, PlatformNamed, InFlight, platformVars
<1> QED BY <1>4, <1>5, <1>6, <1>7 DEF Typed

(* A settlement that ends without more, by a failed proof, a refusing rail *)
(* or a broken connection.                                                 *)
LEMMA EndTyped ==
  ASSUME Typed, NEW c \in Calls, ProofFails(c) \/ SourceRefused(c) \/ TargetUnreachable(c)
  PROVE  Typed' /\ Continues
<1>1. /\ UNCHANGED <<platformVars, account, railVars, refund, payment, moneyVars, disk,
                     boundVars>>
      /\ call[c] # None /\ InFlight(c) /\ call' = [call EXCEPT ![c] = Ended(call[c])]
  BY DEF ProofFails, SourceRefused, TargetUnreachable, At, InFlight, Ended, Typed, TypeOK
<1>2. call[c] \in CallRecord
  BY <1>1, PartTypes DEF Typed
<1> DEFINE y == Ended(call[c])
<1>3. y \in CallRecord /\ y.route = call[c].route /\ y.at = "answered"
  BY <1>2, EndedCall
<1> HIDE DEF y
<1>4. /\ call' \in [Calls -> CallRecord \union {None}] /\ Continues /\ CallsNamed'
      /\ call'[c] = y /\ \A d \in Calls \ {c} : call'[d] = call[d]
  BY <1>1, <1>3, CallMoves DEF y, platformVars
<1>5. PaymentsNamed'
  BY <1>1, <1>3, <1>4, FreshNone, PaymentsStayNamed
<1>6. TypeOK' /\ PlatformNamed'
  BY <1>1, <1>4 DEF Typed, TypeOK, PlatformNamed, platformVars, railVars, moneyVars, boundVars
<1> QED BY <1>4, <1>5, <1>6 DEF Typed

(* A settlement that moves on or ends and books or undoes on the way.      *)
LEMMA RailsTyped ==
  ASSUME Typed, NEW c \in Calls, InFlight(c), NEW y \in CallRecord, y.route = call[c].route,
         y.at \in {"target", "chain"} => y.src \in Calls /\ y.tgt \in Calls,
         y.at = "target" => StripeApi /\ Rail("target", c) = "stripe_test",
         call' = [call EXCEPT ![c] = y],
         legs' \in Legs, index' \in Index, events' \in Events,
         intents' \in [Calls -> {"none", "charged", "refunded"}],
         UNCHANGED <<platformVars, account, refund, payment, moneyVars, disk, boundVars>>
  PROVE  Typed' /\ Continues
<1>1. call[c] # None /\ UNCHANGED <<intent, route>>
  BY DEF InFlight, platformVars
<1>2. /\ call' \in [Calls -> CallRecord \union {None}] /\ Continues /\ CallsNamed'
      /\ call'[c] = y /\ \A d \in Calls \ {c} : call'[d] = call[d]
  BY <1>1, CallMoves
<1>3. PaymentsNamed'
  BY <1>2, FreshNone, PaymentsStayNamed
<1>4. TypeOK' /\ PlatformNamed'
  BY <1>2 DEF Typed, TypeOK, PlatformNamed, platformVars, moneyVars, boundVars
<1> QED BY <1>2, <1>3, <1>4 DEF Typed

(* A call that has booked.                                                 *)
Moved(x, at, src, tgt, acked) ==
  [x EXCEPT !.at = at, !.src = src, !.tgt = tgt, !.acked = acked]

(* and of one that moves on.                                               *)
LEMMA MovedCall ==
  ASSUME NEW x \in CallRecord, NEW at \in {"target", "chain"}, NEW src \in Calls,
         NEW tgt \in Calls, NEW acked \in BOOLEAN
  PROVE  /\ Moved(x, at, src, tgt, acked) \in CallRecord
         /\ Moved(x, at, src, tgt, acked).at = at
         /\ Moved(x, at, src, tgt, acked).route = x.route
         /\ Moved(x, at, src, tgt, acked).src = src
         /\ Moved(x, at, src, tgt, acked).tgt = tgt
<1> DEFINE y1 == [x EXCEPT !.at = at]
           y2 == [y1 EXCEPT !.src = src]
           y3 == [y2 EXCEPT !.tgt = tgt]
           y4 == [y3 EXCEPT !.acked = acked]
<1>1. Moved(x, at, src, tgt, acked) = y4
  BY DEF Moved
<1>2. y1 \in CallRecord /\ y1.at = at /\ y1.route = x.route
  BY DEF CallRecord
<1> HIDE DEF y1
<1>3. y2 \in CallRecord /\ y2.at = at /\ y2.route = x.route /\ y2.src = src
  BY <1>2 DEF CallRecord
<1> HIDE DEF y2
<1>4. y3 \in CallRecord /\ y3.at = at /\ y3.route = x.route /\ y3.src = src /\ y3.tgt = tgt
  BY <1>3 DEF CallRecord
<1> HIDE DEF y3
<1>5. y4 \in CallRecord /\ y4.at = at /\ y4.route = x.route /\ y4.src = src /\ y4.tgt = tgt
  BY <1>4 DEF CallRecord
<1> QED BY <1>1, <1>5

(* What a call in flight is.                                               *)
LEMMA FlightTypes ==
  ASSUME Typed, NEW c \in Calls, NEW place \in {"proving", "target", "chain"}, At(c, place)
  PROVE  /\ InFlight(c) /\ call[c] # None /\ call[c] \in CallRecord
         /\ call[c].route \in Routes /\ call[c].acked \in BOOLEAN
         /\ place # "proving" => call[c].src \in Calls /\ call[c].tgt \in Calls
         /\ place = "target" => StripeApi /\ Rail("target", c) = "stripe_test"
         /\ payment[c] = None
<1>1. InFlight(c) /\ call[c] # None
  BY DEF At, InFlight
<1> QED BY <1>1, PartTypes DEF At, Typed, CallsNamed, PaymentsNamed

(* All legs are booked in one stretch.                                     *)
LEMMA LocallyTyped ==
  ASSUME Typed, NEW c \in Calls, SettleLocally(c)
  PROVE  Typed' /\ Continues
<1> DEFINE r == call[c].route
           src == Booked("source", c, r)
           tgt == Booked("target", c, r)
           acked == RailOf("target", r) = "stub" \/ legs'["target"][tgt] # "settled"
           y == Moved(call[c], "chain", src, tgt, acked)
           acking == IF StripeApi THEN {"source"} ELSE {"source", "target"}
<1>1. /\ At(c, "proving")
      /\ UNCHANGED <<platformVars, account, intents, refund, payment, moneyVars, disk,
                     boundVars>>
      /\ legs' = [source |-> SettledLeg("source", c, r), fx |-> FxLeg(c, r),
                  target |-> IF Remote(r) THEN legs["target"]
                             ELSE SettledLeg("target", c, r)]
      /\ index' = Indexed({"source", "target"}, c, r)
      /\ events' = events \union AutoEvents(acking, c, r)
  BY DEF SettleLocally
<1>2. /\ InFlight(c) /\ call[c] # None /\ call[c] \in CallRecord /\ r \in Routes
  BY <1>1, FlightTypes
<1>3. src \in Calls /\ tgt \in Calls
  BY <1>2, LegTypes DEF Typed, Outer
<1>4. call' = [call EXCEPT ![c] = y]
  BY <1>1, <1>2 DEF SettleLocally, Moved, Typed, TypeOK
<1>5. acked \in BOOLEAN
  OBVIOUS
<1>6. legs' \in Legs
  <2>1. /\ SettledLeg("source", c, r) \in [Calls -> Statuses]
        /\ SettledLeg("target", c, r) \in [Calls -> Statuses]
        /\ FxLeg(c, r) \in [Calls -> Statuses] /\ legs["target"] \in [Calls -> Statuses]
    BY <1>2, LegTypes, PartTypes DEF Typed, Outer, Sides
  <2> HIDE DEF r
  <2> QED BY <1>1, <2>1 DEF Legs, Sides
<1>7. index' \in Index /\ events' \in Events
  <2>1. acking \in SUBSET Outer /\ {"source", "target"} \in SUBSET Outer
    BY DEF Outer
  <2>2. AutoEvents(acking, c, r) \in Events /\ Indexed({"source", "target"}, c, r) \in Index
    BY <1>2, <2>1, IndexTypes DEF Typed
  <2> QED BY <1>1, <2>2 DEF Typed, TypeOK, Events
<1> HIDE DEF acked, src, tgt
<1>8. y \in CallRecord /\ y.route = call[c].route /\ y.at = "chain" /\ y.src \in Calls
        /\ y.tgt \in Calls
  <2> DEFINE x == call[c]
  <2>1. x \in CallRecord
    BY <1>2
  <2>2. y = Moved(x, "chain", src, tgt, acked) /\ x.route = call[c].route
    OBVIOUS
  <2> HIDE DEF x, y
  <2>3. /\ Moved(x, "chain", src, tgt, acked) \in CallRecord
        /\ Moved(x, "chain", src, tgt, acked).at = "chain"
        /\ Moved(x, "chain", src, tgt, acked).route = x.route
        /\ Moved(x, "chain", src, tgt, acked).src = src
        /\ Moved(x, "chain", src, tgt, acked).tgt = tgt
    BY <2>1, <1>3, <1>5, MovedCall
  <2> QED BY <2>2, <2>3, <1>3
<1>9. intents' \in [Calls -> {"none", "charged", "refunded"}]
  BY <1>1 DEF Typed, TypeOK
<1> HIDE DEF y, r
<1> QED BY <1>1, <1>2, <1>4, <1>6, <1>7, <1>8, <1>9, RailsTyped DEF r

(* The source is booked and Stripe is asked.                               *)
LEMMA SourceTyped ==
  ASSUME Typed, NEW c \in Calls, SettleSource(c)
  PROVE  Typed' /\ Continues
<1> DEFINE r == call[c].route
           src == Booked("source", c, r)
           y == Moved(call[c], "target", src, c, call[c].acked)
<1>1. /\ At(c, "proving") /\ Remote(r)
      /\ UNCHANGED <<platformVars, account, events, intents, refund, payment, moneyVars, disk,
                     boundVars>>
      /\ index' = Indexed({"source"}, c, r)
  BY DEF SettleSource
<1>2. /\ InFlight(c) /\ call[c] # None /\ call[c] \in CallRecord /\ r \in Routes
      /\ call[c].acked \in BOOLEAN
  BY <1>1, FlightTypes
<1>3. src \in Calls
  BY <1>2, LegTypes DEF Typed, Outer
<1>4. call' = [call EXCEPT ![c] = y]
  BY <1>2 DEF SettleSource, Moved, Typed, TypeOK, CallRecord
<1>5. legs' \in Legs
  <2>1. FxLeg(c, r) \in [Calls -> Statuses] /\ legs["source"] \in [Calls -> Statuses]
    BY <1>2, LegTypes, PartTypes DEF Typed, Outer, Sides
  <2>2. legs' = [legs EXCEPT !["source"][src] = IF src = c THEN "settled" ELSE @,
                             !["fx"] = FxLeg(c, r)]
    BY DEF SettleSource
  <2> HIDE DEF r, src
  <2> QED BY <2>1, <2>2 DEF Typed, TypeOK, Legs, Statuses, Sides
<1>6. index' \in Index
  BY <1>1, <1>2, IndexTypes DEF Typed, Outer
<1>7. StripeApi /\ Rail("target", c) = "stripe_test"
  BY <1>1 DEF Remote, Rail
<1> HIDE DEF src
<1>8. y \in CallRecord /\ y.route = call[c].route /\ y.at = "target" /\ y.src \in Calls
        /\ y.tgt \in Calls
  BY <1>2, <1>3, MovedCall
<1>9. events' \in Events /\ intents' \in [Calls -> {"none", "charged", "refunded"}]
  BY <1>1 DEF Typed, TypeOK
<1> HIDE DEF y, r
<1> QED BY <1>1, <1>2, <1>4, <1>5, <1>6, <1>7, <1>8, <1>9, RailsTyped DEF r

(* Stripe has charged, and its answer arrives.                             *)
LEMMA TargetTyped ==
  ASSUME Typed, NEW c \in Calls, TargetSettles(c)
  PROVE  Typed' /\ Continues
<1> DEFINE r == call[c].route
           src == call[c].src
           auto == <<"source", src, "auto">>
           acks == TakesWebhooks(RailOf("source", r)) /\ auto \notin events
           y == Moved(call[c], "chain", src, call[c].tgt, call[c].acked)
<1>1. At(c, "target")
      /\ UNCHANGED <<platformVars, account, intents, refund, payment, moneyVars, disk,
                     boundVars>>
      /\ index' = [index EXCEPT !["target"][r] = c]
      /\ events' = IF acks THEN events \union {auto} ELSE events
  BY DEF TargetSettles
<1>2. /\ InFlight(c) /\ call[c] # None /\ call[c] \in CallRecord /\ r \in Routes
      /\ call[c].acked \in BOOLEAN /\ src \in Calls /\ call[c].tgt \in Calls
  BY <1>1, FlightTypes
<1>3. call' = [call EXCEPT ![c] = y]
  BY <1>2 DEF TargetSettles, Moved, Typed, TypeOK, CallRecord
<1>4. \A st \in Statuses : Acknowledged(st) \in Statuses
  BY DEF Acknowledged, Statuses
<1>5. legs' \in Legs
  BY <1>2, <1>4 DEF TargetSettles, Typed, TypeOK, Legs, Sides, Statuses
<1>6. index' \in Index
  BY <1>1, <1>2 DEF Typed, TypeOK, Index, Sides
<1>7. events' \in Events
  BY <1>1, <1>2 DEF Typed, TypeOK, Events, Sides
<1>8. y \in CallRecord /\ y.route = call[c].route /\ y.at = "chain" /\ y.src \in Calls
        /\ y.tgt \in Calls
  <2> DEFINE x == call[c]
             tgt == x.tgt
             acked == x.acked
  <2>1. x \in CallRecord /\ src \in Calls /\ tgt \in Calls /\ acked \in BOOLEAN
    BY <1>2
  <2>2. y = Moved(x, "chain", src, tgt, acked) /\ x.route = call[c].route
    OBVIOUS
  <2> HIDE DEF x, y, src, tgt, acked
  <2>3. /\ Moved(x, "chain", src, tgt, acked) \in CallRecord
        /\ Moved(x, "chain", src, tgt, acked).at = "chain"
        /\ Moved(x, "chain", src, tgt, acked).route = x.route
        /\ Moved(x, "chain", src, tgt, acked).src = src
        /\ Moved(x, "chain", src, tgt, acked).tgt = tgt
    BY <2>1, MovedCall
  <2> QED BY <2>1, <2>2, <2>3
<1>9. intents' \in [Calls -> {"none", "charged", "refunded"}]
  BY <1>1 DEF Typed, TypeOK
<1> HIDE DEF y, r
<1> QED BY <1>1, <1>2, <1>3, <1>5, <1>6, <1>7, <1>8, <1>9, RailsTyped DEF r

(* A target that refuses or declines, and a chain that fails: legs are     *)
(* undone and the call ends.                                               *)
LEMMA UndoneTyped ==
  ASSUME Typed, NEW c \in Calls, TargetRefused(c) \/ TargetDeclines(c) \/ ChainFails(c)
  PROVE  Typed' /\ Continues
<1>1. /\ InFlight(c) /\ call[c] # None /\ call[c] \in CallRecord /\ call[c].route \in Routes
  BY FlightTypes DEF TargetRefused, TargetDeclines, ChainFails
<1>2. /\ UNCHANGED <<platformVars, account, events, refund, payment, moneyVars, disk, boundVars>>
      /\ call' = [call EXCEPT ![c] = Ended(call[c])]
  BY DEF TargetRefused, TargetDeclines, ChainFails, Ended, Typed, TypeOK
<1>3. legs' \in Legs
  <2>1. CASE TargetRefused(c)
    <3> DEFINE r == call[c].route
               src == Booked("source", c, r)
               now == IF src = c THEN "settled" ELSE legs["source"][src]
    <3>1. FxLeg(c, r) \in [Calls -> Statuses] /\ legs["source"] \in [Calls -> Statuses]
            /\ src \in Calls
      BY <1>1, LegTypes, PartTypes DEF Typed, Outer, Sides
    <3>2. now \in Statuses /\ "refunded" \in Statuses
      BY <3>1 DEF Statuses
    <3>3. legs' = [legs EXCEPT
             !["source"] = [legs["source"] EXCEPT
               ![src] = IF Refundable(RailOf("source", r), now) THEN "refunded" ELSE now],
             !["fx"] = FxLeg(c, r)]
      BY <2>1 DEF TargetRefused, Typed, TypeOK, Legs, Sides
    <3> HIDE DEF r, src, now
    <3> QED BY <3>1, <3>2, <3>3 DEF Typed, TypeOK, Legs
  <2>2. CASE TargetDeclines(c)
    <3>1. call[c].src \in Calls
      BY <2>2, FlightTypes DEF TargetDeclines
    <3>2. Undo("source", c, call[c].src) \in [Calls -> Statuses]
      BY <3>1, UndoTypes DEF Typed, Outer
    <3> QED BY <2>2, <3>2 DEF TargetDeclines, Typed, TypeOK, Legs
  <2>3. CASE ChainFails(c)
    <3>1. call[c].src \in Calls /\ call[c].tgt \in Calls
      BY <2>3, FlightTypes DEF ChainFails
    <3>2. /\ Undo("source", c, call[c].src) \in [Calls -> Statuses]
          /\ Undo("target", c, call[c].tgt) \in [Calls -> Statuses]
      BY <3>1, UndoTypes DEF Typed, Outer
    <3>3. \/ legs' = [legs EXCEPT !["target"] = Undo("target", c, call[c].tgt),
                                 !["source"] = Undo("source", c, call[c].src)]
          \/ legs' = [legs EXCEPT !["source"] = Undo("source", c, call[c].src)]
          \/ legs' = legs
      BY <2>3 DEF ChainFails
    <3> QED BY <3>2, <3>3 DEF Typed, TypeOK, Legs
  <2> QED BY <2>1, <2>2, <2>3
<1>4. index' \in Index
  BY <1>1, IndexTypes DEF TargetRefused, TargetDeclines, ChainFails, Typed, TypeOK, Outer
<1>5. intents' \in [Calls -> {"none", "charged", "refunded"}]
  BY DEF TargetRefused, TargetDeclines, ChainFails, Typed, TypeOK
<1>6. events' \in Events
  BY <1>2 DEF Typed, TypeOK
<1> DEFINE y == Ended(call[c])
<1>7. y \in CallRecord /\ y.route = call[c].route /\ y.at = "answered"
  BY <1>1, EndedCall
<1>8. call' = [call EXCEPT ![c] = y]
  BY <1>2
<1> HIDE DEF y
<1> QED BY <1>1, <1>2, <1>3, <1>4, <1>5, <1>6, <1>7, <1>8, RailsTyped

(* The last stretch.                                                       *)
LEMMA ApplyTyped ==
  ASSUME Typed, NEW c \in Calls, NEW witnessed \in BOOLEAN, Apply(c, witnessed)
  PROVE  Typed' /\ Continues
<1> DEFINE gaps == ApplyGaps(c, witnessed)
           y == Ended(call[c])
           p == [state |-> IF gaps = {} THEN "reconciled" ELSE "settled",
                 route |-> call[c].route, src |-> call[c].src, tgt |-> call[c].tgt,
                 gaps |-> gaps]
<1>1. /\ At(c, "chain")
      /\ UNCHANGED <<intent, expired, route, account, railVars, refund, returned, boundVars>>
      /\ payment' = [payment EXCEPT ![c] = p]
      /\ quote' = [quote EXCEPT ![route[call[c].route]] = "used"]
      /\ sender' = IF sender > 0 THEN sender - 1 ELSE sender
      /\ paid' = IF sender > 0 THEN paid \union {c} ELSE paid
      /\ receiver' = receiver + 1
      /\ Persist
  BY DEF Apply
<1>2. /\ InFlight(c) /\ call[c] # None /\ call[c] \in CallRecord /\ call[c].route \in Routes
      /\ call[c].src \in Calls /\ call[c].tgt \in Calls /\ payment[c] = None
  BY <1>1, FlightTypes
<1>3. call' = [call EXCEPT ![c] = y]
  BY DEF Apply, Ended, Typed, TypeOK
<1>4. y \in CallRecord /\ y.route = call[c].route /\ y.at = "answered"
  BY <1>2, EndedCall
<1>5. gaps \subseteq Gaps
  BY DEF ApplyGaps, Gaps
<1>6. p \in Payment
  <2> HIDE DEF gaps
  <2> QED BY <1>2, <1>5 DEF Payment
<1> HIDE DEF y, p
<1>7. p # None /\ y # None
  BY <1>4, <1>6, FreshNone
<1>8. /\ call' \in [Calls -> CallRecord \union {None}] /\ Continues /\ CallsNamed'
      /\ call'[c] = y /\ \A d \in Calls \ {c} : call'[d] = call[d]
  BY <1>1, <1>2, <1>3, <1>4, CallMoves
<1>9. route[call[c].route] \in Quotes
  BY <1>2 DEF Typed, TypeOK, CallsNamed
<1>10. /\ quote' \in [Quotes -> {"none", "stored", "used"}]
       /\ \A q \in Quotes : quote'[q] # "none" <=> quote[q] # "none"
  <2>1. quote[route[call[c].route]] # "none"
    BY <1>2 DEF Typed, PlatformNamed, CallsNamed
  <2> QED BY <1>1, <1>9, <2>1 DEF Typed, TypeOK
<1>11. /\ payment' \in [Calls -> Payment \union {None}]
       /\ payment'[c] = p /\ \A d \in Calls \ {c} : payment'[d] = payment[d]
  BY <1>1, <1>6 DEF Typed, TypeOK
<1>12. /\ disk' \in [legs : Legs, index : Index, events : Events,
                     payment : [Calls -> Payment \union {None}]]
       /\ disk'.payment = payment'
  BY <1>1, <1>11, Persisted DEF Typed, TypeOK, railVars
<1>13. sender' \in Nat /\ receiver' \in Nat /\ paid' \subseteq Calls
  BY <1>1 DEF Typed, TypeOK
<1>14. TypeOK'
  BY <1>1, <1>8, <1>10, <1>11, <1>12, <1>13 DEF Typed, TypeOK, railVars, boundVars
<1>15. PlatformNamed'
  <2>1. /\ intent' = intent /\ route' = route
        /\ \A r \in Routes : route[r] # None => route[r] \in Quotes
    BY <1>1 DEF Typed, TypeOK
  <2> QED BY <2>1, <1>10 DEF Typed, PlatformNamed
<1>16. PaymentsNamed'
  <2>1. \A f \in Refunds : refund[f] # None => refund[f].pay \in Calls
    BY PartTypes DEF Typed
  <2>2. refund' = refund
    BY <1>1
  <2> QED BY <1>4, <1>7, <1>8, <1>11, <1>12, <2>1, <2>2 DEF Typed, PaymentsNamed, InFlight
<1> QED BY <1>8, <1>14, <1>15, <1>16 DEF Typed

(* Refunds, reconciliations, charges and events: no call moves.            *)
LEMMA StillTyped ==
  ASSUME Typed, UNCHANGED <<platformVars, account, call, boundVars>>,
         legs' \in Legs, index' \in Index, events' \in Events,
         intents' \in [Calls -> {"none", "charged", "refunded"}],
         sender' \in Nat, receiver' \in Nat, paid' \subseteq Calls, returned' \in [Calls -> Nat],
         payment' \in [Calls -> Payment \union {None}],
         \A p \in Calls : payment'[p] # None <=> payment[p] # None,
         refund' \in [Refunds -> RefundRecord \union {None}],
         \A f \in Refunds : refund'[f] # None /\ refund'[f].at = "target" =>
           payment[refund'[f].pay] # None,
         disk' = disk \/ Persist
  PROVE  Typed' /\ Continues
<1>1. Continues
  BY RailsStay DEF platformVars
<1>2. /\ disk' \in [legs : Legs, index : Index, events : Events,
                    payment : [Calls -> Payment \union {None}]]
      /\ disk'.payment = payment' \/ disk' = disk
  BY Persisted DEF Typed, TypeOK
<1>3. TypeOK'
  BY <1>2 DEF Typed, TypeOK, platformVars, boundVars
<1>4. CallsNamed'
  BY <1>1 DEF Typed, CallsNamed, Continues, Sides, platformVars
<1>5. PlatformNamed'
  BY DEF Typed, PlatformNamed, platformVars
<1>6. PaymentsNamed'
  <2>1. \A f \in Refunds : refund'[f] # None => refund'[f].pay \in Calls
    BY DEF RefundRecord
  <2> QED BY <1>2, <2>1 DEF Typed, PaymentsNamed, InFlight
<1> QED BY <1>1, <1>3, <1>4, <1>5, <1>6 DEF Typed

(* A payment in another state.                                             *)
Stated(x, state, gaps) == [x EXCEPT !.state = state, !.gaps = gaps]

(* A payment in another state is a payment.                                *)
LEMMA StatedPayment ==
  ASSUME NEW x \in Payment, NEW gaps \in SUBSET Gaps,
         NEW state \in {"settled", "reconciled", "reversal_pending", "refunded",
                        "manual_review"}
  PROVE  /\ Stated(x, state, gaps) \in Payment
         /\ Stated(x, state, gaps).tgt = x.tgt
<1> DEFINE y1 == [x EXCEPT !.state = state]
           y2 == [y1 EXCEPT !.gaps = gaps]
<1>1. Stated(x, state, gaps) = y2
  BY DEF Stated
<1>2. y1 \in Payment /\ y1.tgt = x.tgt
  BY DEF Payment
<1> HIDE DEF y1
<1>3. y2 \in Payment /\ y2.tgt = x.tgt
  BY <1>2 DEF Payment
<1> QED BY <1>1, <1>3

(* Only the one payment changes, and stays on its legs.                    *)
Restated(p) ==
  /\ payment' \in [Calls -> Payment \union {None}]
  /\ \A d \in Calls : payment'[d] # None <=> payment[d] # None
  /\ \A d \in Calls : payment[d] # None => payment'[d].tgt = payment[d].tgt

(* Only that payment changes.                                              *)
LEMMA PaymentRestated ==
  ASSUME TypeOK, NEW p \in Calls, payment[p] # None, NEW gaps \in SUBSET Gaps,
         NEW state \in {"settled", "reconciled", "reversal_pending", "refunded",
                        "manual_review"},
         payment' = [payment EXCEPT ![p] = Stated(payment[p], state, gaps)]
  PROVE  Restated(p)
<1>1. payment[p] \in Payment
  BY PartTypes
<1>2. /\ Stated(payment[p], state, gaps) \in Payment
      /\ Stated(payment[p], state, gaps).tgt = payment[p].tgt
  BY <1>1, StatedPayment
<1>3. Stated(payment[p], state, gaps) # None
  BY <1>2, FreshNone
<1> QED BY <1>2, <1>3 DEF TypeOK, Restated

(* The answer of the rails to a refund.                                    *)
LEMMA RefundTypes ==
  ASSUME TypeOK, NEW p \in Calls, payment[p] # None, Refunded(p) \/ NotRefunded(p)
  PROVE  /\ Restated(p) /\ legs' \in Legs
         /\ sender' \in Nat /\ receiver' \in Nat /\ paid' \subseteq Calls
         /\ returned' \in [Calls -> Nat]
<1>1. payment[p] \in Payment /\ payment[p].src \in Calls /\ payment[p].tgt \in Calls
        /\ payment[p].gaps \subseteq Gaps
  BY PartTypes
<1>2. CASE Refunded(p)
  <2>1. payment' = [payment EXCEPT ![p] = Stated(payment[p], "refunded", {})]
    BY <1>2 DEF Refunded, Stated, TypeOK
  <2>2. Restated(p)
    BY <2>1, PaymentRestated
  <2>3. legs' \in Legs
    <3> DEFINE src == payment[p].src
               tgt == payment[p].tgt
               a == IF HasRefund(RailOfPayment("target", p)) THEN "refunded"
                    ELSE legs["target"][tgt]
               b == IF Refundable(RailOfPayment("source", p), legs["source"][src])
                    THEN "refunded" ELSE legs["source"][src]
               x == IF Refundable("mock_fx", legs["fx"][p]) THEN "refunded" ELSE legs["fx"][p]
    <3>1. \A s \in Sides : legs[s] \in [Calls -> Statuses]
      BY PartTypes
    <3>2. a \in Statuses /\ b \in Statuses /\ x \in Statuses
      BY <1>1, <3>1 DEF Sides, Statuses
    <3>3. legs' = [legs EXCEPT !["target"][tgt] = a, !["fx"][p] = x, !["source"][src] = b]
      BY <1>2 DEF Refunded
    <3> HIDE DEF a, b, x
    <3>4. /\ legs'["target"] = [legs["target"] EXCEPT ![tgt] = a]
          /\ legs'["fx"] = [legs["fx"] EXCEPT ![p] = x]
          /\ legs'["source"] = [legs["source"] EXCEPT ![src] = b]
          /\ legs' = [s \in Sides |-> legs'[s]]
      BY <3>3 DEF TypeOK, Legs, Sides
    <3>5. \A s \in Sides : legs'[s] \in [Calls -> Statuses]
      BY <1>1, <3>1, <3>2, <3>4 DEF Sides
    <3> QED BY <3>4, <3>5 DEF Legs
  <2>4. sender' \in Nat /\ receiver' \in Nat /\ paid' \subseteq Calls
          /\ returned' \in [Calls -> Nat]
    BY <1>2 DEF Refunded, Reverse, TypeOK
  <2> QED BY <2>2, <2>3, <2>4
<1>3. CASE NotRefunded(p)
  <2> DEFINE gaps == payment[p].gaps \union {"refund_pending"}
  <2>1. payment' = [payment EXCEPT ![p] = Stated(payment[p], "manual_review", gaps)]
    BY <1>3 DEF NotRefunded, Stated, TypeOK
  <2>2. gaps \in SUBSET Gaps
    BY <1>1 DEF Gaps
  <2> HIDE DEF gaps
  <2>3. Restated(p)
    BY <2>1, <2>2, PaymentRestated
  <2>4. UNCHANGED <<legs, moneyVars>>
    BY <1>3 DEF NotRefunded
  <2> QED BY <2>3, <2>4 DEF TypeOK, moneyVars
<1> QED BY <1>2, <1>3

(* A refund, in one stretch or in two.                                     *)
LEMMA RefundTyped ==
  ASSUME Typed, NEW f \in Refunds, NEW p \in Calls, RefundLocally(f, p) \/ AskRefund(f, p)
  PROVE  Typed' /\ Continues
<1>1. CASE RefundLocally(f, p)
  <2> DEFINE y == [at |-> "answered", pay |-> p]
  <2>1. /\ payment[p] # None /\ Persist /\ (Refunded(p) \/ NotRefunded(p))
        /\ refund' = [refund EXCEPT ![f] = y]
        /\ UNCHANGED <<platformVars, account, index, events, intents, call, boundVars>>
    BY <1>1 DEF RefundLocally
  <2>2. /\ Restated(p) /\ legs' \in Legs
        /\ sender' \in Nat /\ receiver' \in Nat /\ paid' \subseteq Calls
        /\ returned' \in [Calls -> Nat]
    BY <2>1, RefundTypes DEF Typed
  <2>3. y \in RefundRecord /\ y.at = "answered"
    BY DEF RefundRecord
  <2> HIDE DEF y
  <2>4. /\ refund' \in [Refunds -> RefundRecord \union {None}]
        /\ \A g \in Refunds : refund'[g] # None /\ refund'[g].at = "target" =>
             payment[refund'[g].pay] # None
    BY <2>1, <2>3 DEF Typed, TypeOK, PaymentsNamed
  <2>5. index' \in Index /\ events' \in Events
          /\ intents' \in [Calls -> {"none", "charged", "refunded"}]
    BY <2>1 DEF Typed, TypeOK
  <2> QED BY <2>1, <2>2, <2>4, <2>5, StillTyped DEF Restated
<1>2. CASE AskRefund(f, p)
  <2> DEFINE y == [at |-> "target", pay |-> p]
  <2>1. /\ payment[p] # None
        /\ refund' = [refund EXCEPT ![f] = y]
        /\ UNCHANGED <<platformVars, account, railVars, call, moneyVars, disk, boundVars>>
    BY <1>2 DEF AskRefund
  <2>2. payment' = [payment EXCEPT ![p] = Stated(payment[p], "reversal_pending", payment[p].gaps)]
    BY <1>2, PartTypes DEF AskRefund, Stated, Typed, TypeOK, Payment
  <2>3. payment[p].gaps \in SUBSET Gaps
    BY <2>1, PartTypes DEF Typed
  <2>4. Restated(p)
    BY <2>1, <2>2, <2>3, PaymentRestated DEF Typed
  <2>5. y \in RefundRecord /\ y.pay = p
    BY DEF RefundRecord
  <2> HIDE DEF y
  <2>6. /\ refund' \in [Refunds -> RefundRecord \union {None}]
        /\ \A g \in Refunds : refund'[g] # None /\ refund'[g].at = "target" =>
             payment[refund'[g].pay] # None
    BY <2>1, <2>5 DEF Typed, TypeOK, PaymentsNamed
  <2>7. /\ legs' \in Legs /\ index' \in Index /\ events' \in Events
        /\ intents' \in [Calls -> {"none", "charged", "refunded"}]
        /\ sender' \in Nat /\ receiver' \in Nat /\ paid' \subseteq Calls
        /\ returned' \in [Calls -> Nat]
    BY <2>1 DEF Typed, TypeOK, railVars, moneyVars
  <2> QED BY <2>1, <2>4, <2>6, <2>7, StillTyped DEF Restated
<1> QED BY <1>1, <1>2

(* What Stripe answers to a refund.                                        *)
LEMMA AnswerTyped ==
  ASSUME Typed, NEW f \in Refunds,
         RefundUnreachable(f) \/ \E ok \in BOOLEAN : RefundAnswered(f, ok)
  PROVE  Typed' /\ Continues
<1> DEFINE p == refund[f].pay
           y == [refund[f] EXCEPT !.at = "answered"]
<1>1. /\ refund[f] # None /\ refund[f].at = "target"
      /\ refund' = [refund EXCEPT ![f] = y]
      /\ UNCHANGED <<platformVars, account, index, events, call, boundVars>>
      /\ disk' = disk \/ Persist
  BY DEF RefundUnreachable, RefundAnswered, Typed, TypeOK
<1>2. refund[f] \in RefundRecord /\ p \in Calls /\ payment[p] # None
  BY <1>1, PartTypes DEF Typed, PaymentsNamed
<1>3. payment[p].tgt \in Calls
  BY <1>2, PartTypes DEF Typed
<1>4. y \in RefundRecord /\ y.at = "answered"
  BY <1>2 DEF RefundRecord
<1>5. intents' \in [Calls -> {"none", "charged", "refunded"}]
  BY DEF RefundUnreachable, RefundAnswered, Typed, TypeOK
<1>6. /\ Restated(p) /\ legs' \in Legs
      /\ sender' \in Nat /\ receiver' \in Nat /\ paid' \subseteq Calls
      /\ returned' \in [Calls -> Nat]
  <2>1. CASE RefundUnreachable(f)
    BY <2>1 DEF RefundUnreachable, Restated, Typed, TypeOK, moneyVars
  <2>2. CASE \E ok \in BOOLEAN : RefundAnswered(f, ok)
    <3>1. Refunded(p) \/ NotRefunded(p)
      BY <2>2 DEF RefundAnswered
    <3> QED BY <1>2, <3>1, RefundTypes DEF Typed
  <2> QED BY <2>1, <2>2
<1> HIDE DEF y
<1>7. /\ refund' \in [Refunds -> RefundRecord \union {None}]
      /\ \A g \in Refunds : refund'[g] # None /\ refund'[g].at = "target" =>
           payment[refund'[g].pay] # None
  BY <1>1, <1>4 DEF Typed, TypeOK, PaymentsNamed
<1>8. index' \in Index /\ events' \in Events
  BY <1>1 DEF Typed, TypeOK
<1> QED BY <1>1, <1>5, <1>6, <1>7, <1>8, StillTyped DEF Restated

(* A reconciliation.                                                       *)
LEMMA ReconcileTypes ==
  ASSUME Typed, NEW p \in Calls, Reconcile(p)
  PROVE  Restated(p)
<1> DEFINE gaps == StatusGaps(RailOfPayment("target", p), legs["target"][payment[p].tgt])
           state == IF gaps = {} /\ payment[p].state # "refunded" THEN "reconciled"
                    ELSE payment[p].state
<1>1. payment[p] # None /\ payment[p] \in Payment
  BY PartTypes DEF Reconcile, Typed
<1>2. payment' = [payment EXCEPT ![p] = Stated(payment[p], state, gaps)]
  BY <1>1 DEF Reconcile, Stated, Typed, TypeOK, Payment
<1>3. gaps \in SUBSET Gaps
  BY DEF StatusGaps, Gaps
<1>4. state \in {"settled", "reconciled", "reversal_pending", "refunded", "manual_review"}
  BY <1>1 DEF Payment
<1> HIDE DEF gaps, state
<1> QED BY <1>1, <1>2, <1>3, <1>4, PaymentRestated DEF Typed

(* It gives one payment its state.                                         *)
LEMMA ReconcileTyped ==
  ASSUME Typed, NEW p \in Calls, Reconcile(p)
  PROVE  Typed' /\ Continues
<1>1. /\ payment[p] # None /\ Persist
      /\ UNCHANGED <<platformVars, account, railVars, call, refund, moneyVars, boundVars>>
  BY DEF Reconcile
<1>2. Restated(p)
  BY ReconcileTypes
<1>3. /\ legs' \in Legs /\ index' \in Index /\ events' \in Events
      /\ intents' \in [Calls -> {"none", "charged", "refunded"}]
      /\ sender' \in Nat /\ receiver' \in Nat /\ paid' \subseteq Calls
      /\ returned' \in [Calls -> Nat] /\ refund' \in [Refunds -> RefundRecord \union {None}]
  BY <1>1 DEF Typed, TypeOK, railVars, moneyVars
<1>4. refund' = refund
  BY <1>1
<1> QED BY <1>1, <1>2, <1>3, <1>4, StillTyped DEF Restated, Typed, PaymentsNamed

(* A charge at Stripe, an event.                                           *)
LEMMA EventTyped ==
  ASSUME Typed, NEW c \in Calls,
         StripeCharges(c) \/ \E side \in Outer : Webhook(side, c)
  PROVE  Typed' /\ Continues
<1>1. UNCHANGED <<platformVars, account, index, call, refund, payment, moneyVars, disk,
                  boundVars>>
  BY DEF StripeCharges, Webhook
<1>2. intents' \in [Calls -> {"none", "charged", "refunded"}]
  <2>1. CASE StripeCharges(c)
    BY <2>1 DEF StripeCharges, Typed, TypeOK
  <2>2. CASE \E side \in Outer : Webhook(side, c)
    BY <2>2 DEF Webhook, Typed, TypeOK
  <2> QED BY <2>1, <2>2
<1>3. legs' \in Legs /\ events' \in Events
  BY DEF StripeCharges, Webhook, Acknowledged, Typed, TypeOK, Legs, Events, Sides, Outer, Statuses
<1>4. /\ index' \in Index /\ sender' \in Nat /\ receiver' \in Nat /\ paid' \subseteq Calls
      /\ returned' \in [Calls -> Nat] /\ refund' \in [Refunds -> RefundRecord \union {None}]
      /\ payment' \in [Calls -> Payment \union {None}]
      /\ payment' = payment /\ refund' = refund /\ disk' = disk
  BY <1>1 DEF Typed, TypeOK, moneyVars
<1> QED BY <1>1, <1>2, <1>3, <1>4, StillTyped DEF Typed, PaymentsNamed

(* What a restart leaves of calls and refunds.                             *)
Lost(x) == [x EXCEPT !.at = "lost"]

(* No call and no refund of it is in flight any more, and the rest of      *)
(* memory is what it was or what was saved.                                *)
LEMMA Restarted ==
  ASSUME Typed, Restart
  PROVE  /\ call' \in [Calls -> CallRecord \union {None}] /\ Continues /\ CallsNamed'
         /\ \A c \in Calls : (call'[c] # None <=> call[c] # None) /\ ~InFlight(c)'
         /\ refund' \in [Refunds -> RefundRecord \union {None}]
         /\ \A f \in Refunds : refund'[f] # None => refund'[f].at # "target"
         /\ UNCHANGED <<platformVars, account, intents, returned>>
         /\ checks' \in Nat /\ crashes' \in Nat
<1>1. \A c \in Calls : call'[c] = IF InFlight(c) THEN Lost(call[c]) ELSE call[c]
  BY DEF Restart, Lost
<1>2. \A x \in CallRecord : Lost(x) \in CallRecord /\ Lost(x).at = "lost" /\ Lost(x).route = x.route
  BY DEF CallRecord, Lost
<1>3. \A c \in Calls : call[c] # None => call[c] \in CallRecord
  BY PartTypes DEF Typed
<1>4. \A x \in CallRecord : x # None
  BY FreshNone
<1>5. \A c \in Calls : /\ call'[c] \in CallRecord \union {None}
                       /\ call'[c] # None <=> call[c] # None
                       /\ call[c] # None => call'[c].route = call[c].route
                                            /\ call'[c].at \notin {"proving", "target", "chain"}
  <2> SUFFICES ASSUME NEW c \in Calls
               PROVE  /\ call'[c] \in CallRecord \union {None}
                      /\ call'[c] # None <=> call[c] # None
                      /\ call[c] # None => call'[c].route = call[c].route
                                           /\ call'[c].at \notin {"proving", "target", "chain"}
    OBVIOUS
  <2>1. CASE InFlight(c)
    <3>1. call[c] # None
      BY <2>1 DEF InFlight
    <3> QED BY <1>1, <1>2, <1>3, <1>4, <2>1, <3>1
  <2>2. CASE ~InFlight(c)
    BY <1>1, <1>3, <2>2 DEF InFlight
  <2> QED BY <2>1, <2>2
<1>6. call' \in [Calls -> CallRecord \union {None}]
  BY <1>5 DEF Restart
<1>7. UNCHANGED <<platformVars, account, intents, returned, checks>> /\ crashes' = crashes + 1
  BY DEF Restart
<1>8. Continues
  BY <1>5, <1>7, SameRails DEF Continues, platformVars
<1>9. CallsNamed'
  BY <1>5, <1>7 DEF Typed, CallsNamed, platformVars
<1>10. \A c \in Calls : ~InFlight(c)'
  BY <1>5 DEF InFlight
<1>11. /\ refund' \in [Refunds -> RefundRecord \union {None}]
       /\ \A f \in Refunds : refund'[f] # None => refund'[f].at # "target"
  <2>1. \A x \in RefundRecord : Lost(x) \in RefundRecord /\ Lost(x).at = "lost"
    BY DEF RefundRecord, Lost
  <2>2. refund' = [f \in Refunds |-> IF refund[f] # None /\ refund[f].at = "target"
                                     THEN Lost(refund[f]) ELSE refund[f]]
    BY DEF Restart, Lost
  <2> QED BY <2>1, <2>2 DEF Typed, TypeOK
<1>12. checks' \in Nat /\ crashes' \in Nat
  BY <1>7 DEF Typed, TypeOK
<1> QED BY <1>5, <1>6, <1>7, <1>8, <1>9, <1>10, <1>11, <1>12

(* A restart.                                                              *)
LEMMA CrashTyped ==
  ASSUME Typed, Crash \/ \E c \in Calls : CrashWhileApplying(c)
  PROVE  Typed' /\ Continues
<1>1. Restart /\ Persist
  BY DEF Crash, CrashWhileApplying
<1>2. /\ call' \in [Calls -> CallRecord \union {None}] /\ Continues /\ CallsNamed'
      /\ \A c \in Calls : (call'[c] # None <=> call[c] # None) /\ ~InFlight(c)'
      /\ refund' \in [Refunds -> RefundRecord \union {None}]
      /\ \A f \in Refunds : refund'[f] # None => refund'[f].at # "target"
      /\ UNCHANGED <<platformVars, account, intents, returned>>
      /\ checks' \in Nat /\ crashes' \in Nat
  BY <1>1, Restarted
<1>3. /\ disk.legs \in Legs /\ disk.index \in Index /\ disk.events \in Events
      /\ disk.payment \in [Calls -> Payment \union {None}]
  BY PartTypes DEF Typed
<1>4. \A saved \in Legs : Stored(saved) \in Legs
  BY DEF Stored, Legs, Statuses
<1>5. /\ legs' \in Legs /\ index' \in Index /\ events' \in Events
      /\ payment' \in [Calls -> Payment \union {None}]
      /\ payment' = payment \/ payment' = disk.payment
  BY <1>3, <1>4 DEF Crash, CrashWhileApplying, Typed, TypeOK
<1>6. sender' \in Nat /\ receiver' \in Nat /\ paid' \subseteq Calls
  BY DEF Crash, CrashWhileApplying, Typed, TypeOK
<1>7. /\ disk' \in [legs : Legs, index : Index, events : Events,
                    payment : [Calls -> Payment \union {None}]]
      /\ disk'.payment = payment'
  BY <1>1, <1>5, Persisted
<1>8. TypeOK'
  BY <1>2, <1>5, <1>6, <1>7 DEF Typed, TypeOK, platformVars
<1>9. PlatformNamed' /\ PaymentsNamed'
  BY <1>2, <1>5, <1>7 DEF Typed, PlatformNamed, PaymentsNamed, platformVars
<1> QED BY <1>2, <1>8, <1>9 DEF Typed

(* Every step.                                                             *)
LEMMA NextTyped == Typed /\ [Next]_vars => Typed' /\ Continues
<1> SUFFICES ASSUME Typed, [Next]_vars PROVE Typed' /\ Continues
  OBVIOUS
<1>1. CASE UNCHANGED vars
  <2>1. UNCHANGED <<platformVars, account, railVars, call, refund, payment, moneyVars, disk,
                    boundVars>>
    BY <1>1 DEF vars
  <2>2. /\ legs' \in Legs /\ index' \in Index /\ events' \in Events
        /\ intents' \in [Calls -> {"none", "charged", "refunded"}]
        /\ sender' \in Nat /\ receiver' \in Nat /\ paid' \subseteq Calls
        /\ returned' \in [Calls -> Nat] /\ refund' \in [Refunds -> RefundRecord \union {None}]
        /\ payment' \in [Calls -> Payment \union {None}]
    BY <2>1 DEF Typed, TypeOK, railVars, moneyVars
  <2>3. payment' = payment /\ refund' = refund /\ disk' = disk
    BY <2>1
  <2> QED BY <2>1, <2>2, <2>3, StillTyped DEF Typed, PaymentsNamed
<1>2. CASE \E q \in Quotes : Expire(q) \/ \E i \in Wanted : CreateQuote(q, i)
  BY <1>2, QuoteTyped, ClearanceTyped
<1>3. CASE \E r \in Routes, q \in Quotes : CreateRoute(r, q)
  BY <1>3, RouteTyped
<1>4. CASE \E level \in Levels \ {"unverified"}, screened \in {"unset", "yes", "no"},
              clear \in BOOLEAN : VerifyAccount(level, screened, clear)
  BY <1>4, ClearanceTyped
<1>5. ASSUME NEW c \in Calls, SettleStep(c) \/ StripeCharges(c)
      PROVE  Typed' /\ Continues
  BY <1>5, EndTyped, UndoneTyped, LocallyTyped, SourceTyped, TargetTyped, ApplyTyped, EventTyped
     DEF SettleStep
<1>6. CASE \E f \in Refunds : RefundUnreachable(f) \/ \E ok \in BOOLEAN : RefundAnswered(f, ok)
  BY <1>6, AnswerTyped
<1>7. CASE \E p \in Calls : Reconcile(p)
  BY <1>7, ReconcileTyped
<1>8. CASE Crash \/ \E c \in Calls : CrashWhileApplying(c)
  BY <1>8, CrashTyped
<1>9. CASE \E c \in Calls, r \in Routes : BeginSettle(c, r)
  BY <1>9, BeginTyped
<1>10. CASE \E f \in Refunds, p \in Calls : RefundLocally(f, p) \/ AskRefund(f, p)
  BY <1>10, RefundTyped
<1>11. CASE \E side \in {"source", "target"}, c \in Calls : Webhook(side, c)
  BY <1>11, EventTyped DEF Outer
<1> QED BY <1>1, <1>2, <1>3, <1>4, <1>5, <1>6, <1>7, <1>8, <1>9, <1>10, <1>11 DEF Next, OtherStep

(* The universal platform is well typed in every reachable state, through  *)
(* restarts that take memory back to what was saved last.                  *)
THEOREM UniversalTyping == Spec => []TypeOK
<1>1. Typed => TypeOK
  BY DEF Typed
<1>2. Typed /\ [Next]_vars => Typed'
  BY NextTyped
<1> QED BY InitTyped, <1>1, <1>2, PTL DEF Spec

-----------------------------------------------------------------------------
(* Entries and indexes.                                                    *)

Held ==
  \A s \in Outer, c \in Calls : legs[s][c] # "none" =>
    call[c] # None /\ (Rail(s, c) = "sandbox_psp" => index[s][call[c].route] = c)

Saved ==
  \A s \in Outer, c \in Calls : disk.legs[s][c] # "none" =>
    call[c] # None /\ (Rail(s, c) = "sandbox_psp" => disk.index[s][call[c].route] = c)

(* A refund at Stripe is of an entry that is there.                        *)
RefundHeld ==
  \A f \in Refunds : refund[f] # None /\ refund[f].at = "target" =>
    legs["target"][payment[refund[f].pay].tgt] # "none"

BooksHeld == Held /\ Saved /\ RefundHeld

(* What steps do to one side's entries, restarts apart: none goes, and a   *)
(* call that makes one is named by the index.                              *)
KeptOn(s) ==
  \A d \in Calls :
    /\ legs[s][d] # "none" => legs'[s][d] # "none"
    /\ legs'[s][d] # "none" =>
         /\ legs[s][d] # "none" \/ call[d] # None
         /\ call[d] # None /\ Rail(s, d) = "sandbox_psp" =>
              \/ legs[s][d] # "none" /\ index'[s][call[d].route] = index[s][call[d].route]
              \/ index'[s][call[d].route] = d

(* The entries are the ones that were there.                               *)
SameOn(s) ==
  /\ index'[s] = index[s]
  /\ \A d \in Calls : legs'[s][d] # "none" <=> legs[s][d] # "none"

(* Refunds at Stripe were there before, and payments keep their target.    *)
Follows ==
  /\ \A f \in Refunds : refund'[f] # None /\ refund'[f].at = "target" =>
       refund[f] # None /\ refund[f].at = "target" /\ refund'[f].pay = refund[f].pay
  /\ \A p \in Calls : payment[p] # None =>
       payment'[p] # None /\ payment'[p].tgt = payment[p].tgt

(* So nothing is lost.                                                     *)
LEMMA SameKept ==
  ASSUME NEW s \in Outer, SameOn(s)
  PROVE  KeptOn(s)
BY DEF SameOn, KeptOn

(* Nothing is booked at the start.                                         *)
LEMMA InitHeld == Init => BooksHeld
<1> SUFFICES ASSUME Init PROVE BooksHeld
  OBVIOUS
<1>1. \A s \in Outer, c \in Calls : legs[s][c] = "none" /\ disk.legs[s][c] = "none"
  BY DEF Init, Outer, Sides
<1>2. \A f \in Refunds : refund[f] = None
  BY DEF Init
<1> QED BY <1>1, <1>2 DEF BooksHeld, Held, Saved, RefundHeld

(* What is on disk is what was there or what is there now.                 *)
LEMMA SavedStays ==
  ASSUME Saved, Continues, Held', disk' = disk \/ Persist
  PROVE  Saved'
<1>1. CASE disk' = disk
  <2> SUFFICES ASSUME NEW s \in Outer, NEW c \in Calls, disk'.legs[s][c] # "none"
               PROVE  call'[c] # None
                      /\ (Rail(s, c)' = "sandbox_psp" => disk'.index[s][call'[c].route] = c)
    BY DEF Saved
  <2>1. call[c] # None /\ (Rail(s, c) = "sandbox_psp" => disk.index[s][call[c].route] = c)
    BY <1>1 DEF Saved
  <2>2. s \in Sides
    BY DEF Outer, Sides
  <2>3. call'[c] # None /\ call'[c].route = call[c].route /\ Rail(s, c)' = Rail(s, c)
    BY <2>1, <2>2 DEF Continues
  <2> QED BY <1>1, <2>1, <2>3
<1>2. CASE Persist
  <2>1. disk'.legs = legs' /\ disk'.index = index'
    BY <1>2 DEF Persist
  <2> QED BY <2>1 DEF Held, Saved
<1> QED BY <1>1, <1>2

(* A step that keeps both sides.                                           *)
LEMMA HeldStays ==
  ASSUME Typed, BooksHeld, Continues, \A s \in Outer : KeptOn(s), Follows,
         disk' = disk \/ Persist
  PROVE  BooksHeld'
<1>1. Held'
  <2> SUFFICES ASSUME NEW s \in Outer, NEW c \in Calls, legs'[s][c] # "none"
               PROVE  call'[c] # None
                      /\ (Rail(s, c)' = "sandbox_psp" => index'[s][call'[c].route] = c)
    BY DEF Held
  <2>1. call[c] # None
    BY DEF KeptOn, BooksHeld, Held
  <2>2. s \in Sides
    BY DEF Outer, Sides
  <2>3. call'[c] # None /\ call'[c].route = call[c].route /\ Rail(s, c)' = Rail(s, c)
    BY <2>1, <2>2 DEF Continues
  <2>4. Rail(s, c) = "sandbox_psp" => index'[s][call[c].route] = c
    BY <2>1 DEF KeptOn, BooksHeld, Held
  <2> QED BY <2>3, <2>4
<1>2. RefundHeld'
  <2> SUFFICES ASSUME NEW f \in Refunds, refund'[f] # None, refund'[f].at = "target"
               PROVE  legs'["target"][payment'[refund'[f].pay].tgt] # "none"
    BY DEF RefundHeld
  <2> DEFINE p == refund[f].pay
  <2>1. refund[f] # None /\ refund[f].at = "target" /\ refund'[f].pay = p
    BY DEF Follows
  <2>2. p \in Calls /\ payment[p] # None
    BY <2>1, PartTypes DEF Typed, PaymentsNamed
  <2>3. payment'[p].tgt = payment[p].tgt /\ payment[p].tgt \in Calls
    BY <2>2, PartTypes DEF Typed, Follows
  <2>4. legs["target"][payment[p].tgt] # "none"
    BY <2>1 DEF BooksHeld, RefundHeld
  <2>5. "target" \in Outer
    BY DEF Outer
  <2> QED BY <2>1, <2>3, <2>4, <2>5 DEF KeptOn
<1>3. Saved'
  BY <1>1, SavedStays DEF BooksHeld
<1> QED BY <1>1, <1>2, <1>3 DEF BooksHeld

(* An entry is booked: sandbox_psp answers a key it knows with the entry   *)
(* the index names, so a call that makes one finds no other there.         *)
LEMMA BookedKept ==
  ASSUME Typed, Held, NEW s \in Outer, NEW c \in Calls, call[c] # None, NEW r \in Routes,
         r = call[c].route, NEW b \in Calls, b = Booked(s, c, r),
         index'[s] = IF Durable(RailOf(s, r)) THEN [index[s] EXCEPT ![r] = b] ELSE index[s],
         \A d \in Calls : d # b => (legs'[s][d] # "none" <=> legs[s][d] # "none"),
         b # c => (legs'[s][b] # "none" <=> legs[s][b] # "none"),
         b = c => legs'[s][c] # "none"
  PROVE  KeptOn(s)
<1> SUFFICES ASSUME NEW d \in Calls, legs'[s][d] # "none", call[d] # None,
                    Rail(s, d) = "sandbox_psp"
             PROVE  \/ legs[s][d] # "none"
                         /\ index'[s][call[d].route] = index[s][call[d].route]
                    \/ index'[s][call[d].route] = d
  BY DEF KeptOn
<1>1. index[s] \in [Routes -> Calls \union {None}] /\ call[d].route \in Routes
  BY PartTypes DEF Typed, Outer, Sides
<1>2. CASE call[d].route # r
  BY <1>1, <1>2
<1>3. CASE call[d].route = r
  <2>1. RailOf(s, r) = "sandbox_psp" /\ Durable(RailOf(s, r))
    BY <1>3 DEF Rail, Durable
  <2>2. index'[s][r] = b
    BY <1>1, <2>1
  <2>3. CASE d = b
    BY <1>3, <2>2, <2>3
  <2>4. CASE d # b
    <3>1. legs[s][d] # "none"
      BY <2>4
    <3>2. index[s][r] = d
      BY <1>3, <3>1 DEF Held
    <3>3. d # None
      BY FreshNone
    <3>4. b = d
      BY <2>1, <3>2, <3>3 DEF Booked, Replays, PspReplays
    <3> QED BY <2>4, <3>4
  <2> QED BY <2>3, <2>4
<1> QED BY <1>2, <1>3

(* What Indexed does to a side.                                            *)
LEMMA IndexedSide ==
  ASSUME NEW s \in Outer, NEW c \in Calls, NEW r \in Routes, NEW sides \in SUBSET Outer,
         index' = Indexed(sides, c, r)
  PROVE  index'[s] = IF s \in sides /\ Durable(RailOf(s, r))
                     THEN [index[s] EXCEPT ![r] = Booked(s, c, r)] ELSE index[s]
BY DEF Indexed, Outer, Sides

(* Steps that leave the adapters' maps, refunds and payments alone.        *)
LEMMA IdleHeld ==
  ASSUME Typed, BooksHeld, Continues, UNCHANGED <<legs, index, refund>>,
         disk' = disk \/ Persist,
         \A p \in Calls : payment[p] # None =>
           payment'[p] # None /\ payment'[p].tgt = payment[p].tgt
  PROVE  BooksHeld'
<1>1. \A s \in Outer : KeptOn(s)
  BY SameKept DEF SameOn
<1>2. Follows
  BY DEF Follows
<1> QED BY <1>1, <1>2, HeldStays

(* Quotes, routes, proofs that fail and the receiver,                      *)
LEMMA PlatformHeld ==
  ASSUME Typed, BooksHeld, Continues,
         \/ \E q \in Quotes : Expire(q) \/ \E i \in Wanted : CreateQuote(q, i)
         \/ \E r \in Routes, q \in Quotes : CreateRoute(r, q)
         \/ \E level \in Levels \ {"unverified"}, screened \in {"unset", "yes", "no"},
               clear \in BOOLEAN : VerifyAccount(level, screened, clear)
         \/ \E c \in Calls, r \in Routes : BeginSettle(c, r)
         \/ \E c \in Calls : ProofFails(c) \/ SourceRefused(c) \/ TargetUnreachable(c)
         \/ \E c \in Calls : StripeCharges(c)
  PROVE  BooksHeld'
<1>1. UNCHANGED <<legs, index, refund, payment>> /\ (disk' = disk \/ Persist)
  BY DEF Expire, CreateQuote, CreateRoute, VerifyAccount, BeginSettle, ProofFails,
     SourceRefused, TargetUnreachable, StripeCharges, railVars
<1> QED BY <1>1, IdleHeld

(* and the last stretch of a settlement.                                   *)
LEMMA ApplyHeld ==
  ASSUME Typed, BooksHeld, Continues, NEW c \in Calls, NEW witnessed \in BOOLEAN,
         Apply(c, witnessed)
  PROVE  BooksHeld'
<1>1. UNCHANGED <<legs, index, refund>> /\ Persist /\ At(c, "chain")
      /\ \A p \in Calls \ {c} : payment'[p] = payment[p]
  BY DEF Apply, railVars, Typed, TypeOK
<1>2. payment[c] = None
  BY <1>1, FlightTypes
<1> QED BY <1>1, <1>2, IdleHeld

(* Settlements that book an entry.                                         *)
LEMMA LocallyHeld ==
  ASSUME Typed, BooksHeld, Continues, NEW c \in Calls, SettleLocally(c)
  PROVE  BooksHeld'
<1> DEFINE r == call[c].route
<1>1. /\ At(c, "proving") /\ (Remote(r) => Booked("target", c, r) # c)
      /\ legs'["source"] = SettledLeg("source", c, r)
      /\ legs'["target"] = IF Remote(r) THEN legs["target"] ELSE SettledLeg("target", c, r)
      /\ index' = Indexed({"source", "target"}, c, r)
      /\ UNCHANGED <<refund, payment, disk>>
  BY DEF SettleLocally
<1>2. call[c] # None /\ r \in Routes
  BY <1>1, FlightTypes
<1>3. "source" \in Outer /\ "target" \in Outer /\ {"source", "target"} \in SUBSET Outer
  BY DEF Outer
<1>4. ASSUME NEW s \in Outer PROVE KeptOn(s)
  <2> DEFINE b == Booked(s, c, r)
  <2>1. /\ b \in Calls
        /\ \A d \in Calls \ {b} : SettledLeg(s, c, r)[d] = legs[s][d]
        /\ b # c => (SettledLeg(s, c, r)[b] # "none" <=> legs[s][b] # "none")
        /\ b = c => SettledLeg(s, c, r)[c] # "none"
    BY <1>2, LegTypes DEF Typed
  <2>2. index'[s] = IF Durable(RailOf(s, r)) THEN [index[s] EXCEPT ![r] = b] ELSE index[s]
    BY <1>1, <1>2, <1>3, IndexedSide DEF Outer
  <2>3. legs'[s] = SettledLeg(s, c, r) \/ (legs'[s] = legs[s] /\ b # c)
    BY <1>1 DEF Outer
  <2>4. /\ \A d \in Calls : d # b => (legs'[s][d] # "none" <=> legs[s][d] # "none")
        /\ b # c => (legs'[s][b] # "none" <=> legs[s][b] # "none")
        /\ b = c => legs'[s][c] # "none"
    BY <2>1, <2>3
  <2> QED BY <1>2, <2>1, <2>2, <2>4, BookedKept DEF BooksHeld
<1>5. Follows
  BY <1>1 DEF Follows
<1> QED BY <1>1, <1>4, <1>5, HeldStays

(* The source is booked, and Stripe is asked.                              *)
LEMMA SourceHeld ==
  ASSUME Typed, BooksHeld, Continues, NEW c \in Calls, SettleSource(c) \/ TargetRefused(c)
  PROVE  BooksHeld'
<1> DEFINE r == call[c].route
           b == Booked("source", c, r)
<1>1. /\ At(c, "proving") /\ index' = Indexed({"source"}, c, r)
      /\ UNCHANGED <<refund, payment, disk>>
  BY DEF SettleSource, TargetRefused
<1>2. call[c] # None /\ r \in Routes
  BY <1>1, FlightTypes
<1>3. "source" \in Outer /\ "target" \in Outer /\ {"source"} \in SUBSET Outer
  BY DEF Outer
<1>4. b \in Calls /\ legs["source"] \in [Calls -> Statuses]
  BY <1>2, <1>3, LegTypes, PartTypes DEF Typed, Outer, Sides
<1>5. legs'["target"] = legs["target"]
      /\ \E now \in Statuses :
           /\ legs'["source"] = [legs["source"] EXCEPT ![b] = now]
           /\ IF b = c THEN now # "none" ELSE now # "none" <=> legs["source"][b] # "none"
  <2>1. CASE SettleSource(c)
    <3> DEFINE now == IF b = c THEN "settled" ELSE legs["source"][b]
    <3>1. legs' = [legs EXCEPT !["source"][b] = now, !["fx"] = FxLeg(c, r)]
      BY <2>1 DEF SettleSource
    <3>2. now \in Statuses
      BY <1>4 DEF Statuses
    <3>3. IF b = c THEN now # "none" ELSE now # "none" <=> legs["source"][b] # "none"
      OBVIOUS
    <3> HIDE DEF now, b
    <3>4. legs'["target"] = legs["target"]
          /\ legs'["source"] = [legs["source"] EXCEPT ![b] = now]
      BY <3>1 DEF Typed, TypeOK, Legs, Sides
    <3> QED BY <3>2, <3>3, <3>4
  <2>2. CASE TargetRefused(c)
    <3> DEFINE old == IF b = c THEN "settled" ELSE legs["source"][b]
               now == IF Refundable(RailOf("source", r), old) THEN "refunded" ELSE old
    <3>1. legs' = [legs EXCEPT !["source"] = [legs["source"] EXCEPT ![b] = now],
                               !["fx"] = FxLeg(c, r)]
      BY <2>2 DEF TargetRefused, Typed, TypeOK, Legs, Sides
    <3>2. old \in Statuses /\ "refunded" \in Statuses
      BY <1>4 DEF Statuses
    <3>3. Refundable(RailOf("source", r), old) => old # "none"
      BY RailTypes, RefundableIsThere DEF Sides
    <3>4. IF b = c THEN now # "none" ELSE now # "none" <=> legs["source"][b] # "none"
      BY <3>3
    <3>5. now \in Statuses
      BY <3>2
    <3> HIDE DEF now, b
    <3>6. legs'["target"] = legs["target"]
          /\ legs'["source"] = [legs["source"] EXCEPT ![b] = now]
      BY <3>1 DEF Typed, TypeOK, Legs, Sides
    <3> QED BY <3>4, <3>5, <3>6
  <2> QED BY <2>1, <2>2
<1>6. KeptOn("source")
  <2>1. index'["source"] = IF Durable(RailOf("source", r))
                           THEN [index["source"] EXCEPT ![r] = b] ELSE index["source"]
    BY <1>1, <1>2, <1>3, IndexedSide
  <2>2. PICK now \in Statuses :
           /\ legs'["source"] = [legs["source"] EXCEPT ![b] = now]
           /\ IF b = c THEN now # "none" ELSE now # "none" <=> legs["source"][b] # "none"
    BY <1>5
  <2> HIDE DEF b
  <2>3. /\ \A d \in Calls : d # b => (legs'["source"][d] # "none" <=> legs["source"][d] # "none")
        /\ b # c => (legs'["source"][b] # "none" <=> legs["source"][b] # "none")
        /\ b = c => legs'["source"][c] # "none"
    BY <1>4, <2>2
  <2> USE DEF b
  <2> QED BY <1>2, <1>3, <1>4, <2>1, <2>3, BookedKept DEF BooksHeld
<1>7. KeptOn("target")
  <2>1. index'["target"] = index["target"]
    BY <1>1 DEF Indexed, Sides
  <2> QED BY <1>3, <1>5, <2>1, SameKept DEF SameOn
<1>8. Follows
  BY <1>1 DEF Follows
<1> QED BY <1>1, <1>6, <1>7, <1>8, HeldStays DEF Outer

(* Stripe's entry is no concern of sandbox_psp's index.                    *)
LEMMA TargetHeld ==
  ASSUME Typed, BooksHeld, Continues, NEW c \in Calls, TargetSettles(c)
  PROVE  BooksHeld'
<1> DEFINE r == call[c].route
           src == call[c].src
<1>1. /\ At(c, "target") /\ index' = [index EXCEPT !["target"][r] = c]
      /\ UNCHANGED <<refund, payment, disk>>
  BY DEF TargetSettles
<1>2. /\ call[c] # None /\ r \in Routes /\ src \in Calls
      /\ Rail("target", c) = "stripe_test"
  BY <1>1, FlightTypes
<1>3. /\ legs["source"] \in [Calls -> Statuses] /\ legs["target"] \in [Calls -> Statuses]
      /\ index["target"] \in [Routes -> Calls \union {None}]
  BY PartTypes DEF Typed, Sides
<1>4. /\ legs'["target"] = [legs["target"] EXCEPT ![c] = "settled"]
      /\ \E now : legs'["source"] = [legs["source"] EXCEPT ![src] = now]
                  /\ (now # "none" <=> legs["source"][src] # "none")
  <2> DEFINE acks == TakesWebhooks(RailOf("source", r)) /\ <<"source", src, "auto">> \notin events
             now == IF acks THEN Acknowledged(legs["source"][src]) ELSE legs["source"][src]
  <2>1. legs' = [legs EXCEPT !["target"][c] = "settled", !["source"][src] = now]
    BY DEF TargetSettles, Typed, TypeOK, Legs, Sides
  <2>2. now # "none" <=> legs["source"][src] # "none"
    BY DEF Acknowledged
  <2> HIDE DEF now
  <2>3. /\ legs'["target"] = [legs["target"] EXCEPT ![c] = "settled"]
        /\ legs'["source"] = [legs["source"] EXCEPT ![src] = now]
    BY <2>1 DEF Typed, TypeOK, Legs, Sides
  <2> QED BY <2>2, <2>3
<1>5. /\ index'["source"] = index["source"]
      /\ \A x \in Routes : x # r => index'["target"][x] = index["target"][x]
  BY <1>1 DEF Typed, TypeOK, Index, Sides
<1>6. KeptOn("source")
  BY <1>2, <1>3, <1>4, <1>5, SameKept DEF SameOn, Outer
<1>7. KeptOn("target")
  <2>1. /\ legs'["target"][c] = "settled"
        /\ \A d \in Calls \ {c} : legs'["target"][d] = legs["target"][d]
    BY <1>3, <1>4
  <2>2. ASSUME NEW d \in Calls, legs'["target"][d] # "none", call[d] # None,
               Rail("target", d) = "sandbox_psp"
        PROVE  legs["target"][d] # "none"
               /\ index'["target"][call[d].route] = index["target"][call[d].route]
    <3>1. call[d].route \in Routes /\ call[d].route # r /\ d # c
      BY <1>2, <2>2, PartTypes DEF Typed, Rail
    <3> QED BY <1>5, <2>1, <2>2, <3>1
  <2> QED BY <1>2, <2>1, <2>2 DEF KeptOn
<1>8. Follows
  BY <1>1 DEF Follows
<1> QED BY <1>1, <1>6, <1>7, <1>8, HeldStays DEF Outer

(* Settlements that undo an entry.                                         *)
LEMMA UndoneHeld ==
  ASSUME Typed, BooksHeld, Continues, NEW c \in Calls, TargetDeclines(c) \/ ChainFails(c)
  PROVE  BooksHeld'
<1>1. UNCHANGED <<index, refund, payment, disk>>
  BY DEF TargetDeclines, ChainFails
<1>2. call[c].src \in Calls /\ call[c].tgt \in Calls
  BY FlightTypes DEF TargetDeclines, ChainFails
<1>3. /\ \A d \in Calls : Undo("source", c, call[c].src)[d] # "none" <=> legs["source"][d] # "none"
      /\ \A d \in Calls : Undo("target", c, call[c].tgt)[d] # "none" <=> legs["target"][d] # "none"
  BY <1>2, UndoTypes DEF Typed, Outer
<1>4. /\ legs'["source"] = Undo("source", c, call[c].src) \/ legs'["source"] = legs["source"]
      /\ legs'["target"] = Undo("target", c, call[c].tgt) \/ legs'["target"] = legs["target"]
  BY DEF TargetDeclines, ChainFails, Typed, TypeOK, Legs, Sides
<1>5. \A s \in Outer : KeptOn(s)
  BY <1>1, <1>3, <1>4, SameKept DEF SameOn, Outer
<1>6. Follows
  BY <1>1 DEF Follows
<1> QED BY <1>1, <1>5, <1>6, HeldStays

(* A refund, if there is an entry to refund.                               *)
LEMMA RefundedSame ==
  ASSUME Typed, NEW p \in Calls, payment[p] # None, index' = index,
         \/ NotRefunded(p)
         \/ /\ Refunded(p)
            /\ HasRefund(RailOfPayment("target", p)) =>
                 legs["target"][payment[p].tgt] # "none"
  PROVE  /\ \A s \in Outer : KeptOn(s)
         /\ \A q \in Calls : payment[q] # None =>
              payment'[q] # None /\ payment'[q].tgt = payment[q].tgt
<1>1. payment[p] \in Payment /\ payment[p].src \in Calls /\ payment[p].tgt \in Calls
  BY PartTypes DEF Typed
<1>2. \A q \in Calls : payment[q] # None =>
        payment'[q] # None /\ payment'[q].tgt = payment[q].tgt
  BY <1>1, RefundTypes DEF Typed, Restated
<1>3. CASE NotRefunded(p)
  <2>1. legs' = legs
    BY <1>3 DEF NotRefunded
  <2> QED BY <1>2, <2>1, SameKept DEF SameOn
<1>4. CASE /\ Refunded(p)
           /\ HasRefund(RailOfPayment("target", p)) =>
                legs["target"][payment[p].tgt] # "none"
  <2> DEFINE src == payment[p].src
             tgt == payment[p].tgt
             a == IF HasRefund(RailOfPayment("target", p)) THEN "refunded"
                  ELSE legs["target"][tgt]
             b == IF Refundable(RailOfPayment("source", p), legs["source"][src])
                  THEN "refunded" ELSE legs["source"][src]
             x == IF Refundable("mock_fx", legs["fx"][p]) THEN "refunded" ELSE legs["fx"][p]
  <2>1. legs' = [legs EXCEPT !["target"][tgt] = a, !["fx"][p] = x, !["source"][src] = b]
    BY <1>4 DEF Refunded, Typed, TypeOK, Legs, Sides
  <2>2. a # "none" <=> legs["target"][tgt] # "none"
    BY <1>4
  <2>3. b # "none" <=> legs["source"][src] # "none"
    BY RailTypes, RefundableIsThere DEF RailOfPayment, Sides
  <2> HIDE DEF a, b, x
  <2>4. /\ legs'["target"] = [legs["target"] EXCEPT ![tgt] = a]
        /\ legs'["source"] = [legs["source"] EXCEPT ![src] = b]
    BY <2>1 DEF Typed, TypeOK, Legs, Sides
  <2>5. legs["source"] \in [Calls -> Statuses] /\ legs["target"] \in [Calls -> Statuses]
    BY PartTypes DEF Typed, Sides
  <2>6. \A s \in Outer : SameOn(s)
    BY <1>1, <2>2, <2>3, <2>4, <2>5 DEF SameOn, Outer
  <2> QED BY <1>2, <2>6, SameKept
<1> QED BY <1>3, <1>4

(* Both rails take the money back in one stretch,                          *)
LEMMA RefundKeepsHeld ==
  ASSUME Typed, BooksHeld, Continues, NEW f \in Refunds, NEW p \in Calls, RefundLocally(f, p)
  PROVE  BooksHeld'
<1> DEFINE y == [at |-> "answered", pay |-> p]
<1>1. /\ payment[p] # None /\ Persist /\ index' = index
      /\ IF TargetRefundable(p) THEN Refunded(p) ELSE NotRefunded(p)
      /\ refund' = [refund EXCEPT ![f] = y]
  BY DEF RefundLocally
<1>2. RailOfPayment("target", p) \in Rails
  BY RailTypes DEF RailOfPayment, Sides
<1>3. TargetRefundable(p) /\ HasRefund(RailOfPayment("target", p)) =>
        legs["target"][payment[p].tgt] # "none"
  BY <1>2, RefundableIsThere DEF TargetRefundable
<1>5. /\ \A s \in Outer : KeptOn(s)
      /\ \A q \in Calls : payment[q] # None =>
           payment'[q] # None /\ payment'[q].tgt = payment[q].tgt
  BY <1>1, <1>3, RefundedSame
<1>6. y.at # "target"
  OBVIOUS
<1>7. Follows
  BY <1>1, <1>5, <1>6 DEF Follows, Typed, TypeOK
<1> QED BY <1>1, <1>5, <1>7, HeldStays

(* or the remote Stripe is asked,                                          *)
LEMMA AskHeld ==
  ASSUME Typed, BooksHeld, Continues, NEW f \in Refunds, NEW p \in Calls, AskRefund(f, p)
  PROVE  BooksHeld'
<1> DEFINE y == [at |-> "target", pay |-> p]
<1>1. /\ payment[p] # None /\ Remote(payment[p].route) /\ TargetRefundable(p)
      /\ payment' = [payment EXCEPT ![p].state = "reversal_pending"]
      /\ refund' = [refund EXCEPT ![f] = y]
      /\ UNCHANGED <<legs, index, disk>>
  BY DEF AskRefund, railVars
<1>2. \A s \in Outer : KeptOn(s)
  BY <1>1, SameKept DEF SameOn
<1>3. payment[p] \in Payment
  BY <1>1, PartTypes DEF Typed
<1>4. \A q \in Calls : payment[q] # None => payment'[q].tgt = payment[q].tgt
  BY <1>1, <1>3 DEF Payment, Typed, TypeOK
<1>5. legs["target"][payment[p].tgt] # "none"
  <2>1. RailOfPayment("target", p) = "stripe_test"
    BY <1>1 DEF Remote, RailOfPayment
  <2> QED BY <1>1, <2>1, RefundableIsThere DEF TargetRefundable, HasRefund, Rails
<1>6. RefundHeld'
  <2> SUFFICES ASSUME NEW g \in Refunds, refund'[g] # None, refund'[g].at = "target"
               PROVE  legs'["target"][payment'[refund'[g].pay].tgt] # "none"
    BY DEF RefundHeld
  <2>1. CASE g = f
    <3>1. refund'[g].pay = p
      BY <1>1, <2>1 DEF Typed, TypeOK
    <3> QED BY <1>1, <1>4, <1>5, <3>1
  <2>2. CASE g # f
    <3>1. refund'[g] = refund[g]
      BY <1>1, <2>2 DEF Typed, TypeOK
    <3>2. payment[refund[g].pay] # None /\ refund[g].pay \in Calls
      BY <3>1, PartTypes DEF Typed, PaymentsNamed
    <3> QED BY <1>1, <1>4, <3>1, <3>2 DEF BooksHeld, RefundHeld
  <2> QED BY <2>1, <2>2
<1>7. Held'
  <2> SUFFICES ASSUME NEW s \in Outer, NEW c \in Calls, legs[s][c] # "none"
               PROVE  call'[c] # None
                      /\ (Rail(s, c)' = "sandbox_psp" => index[s][call'[c].route] = c)
    BY <1>1 DEF Held
  <2>1. call'[c] # None /\ call'[c].route = call[c].route /\ Rail(s, c)' = Rail(s, c)
    BY DEF Continues, BooksHeld, Held, Outer, Sides
  <2> QED BY <2>1 DEF BooksHeld, Held
<1> QED BY <1>1, <1>6, <1>7, SavedStays DEF BooksHeld

(* and answers.                                                            *)
LEMMA AnswerHeld ==
  ASSUME Typed, BooksHeld, Continues, NEW f \in Refunds,
         RefundUnreachable(f) \/ \E ok \in BOOLEAN : RefundAnswered(f, ok)
  PROVE  BooksHeld'
<1> DEFINE p == refund[f].pay
           y == [refund[f] EXCEPT !.at = "answered"]
<1>1. /\ refund[f] # None /\ refund[f].at = "target" /\ index' = index
      /\ refund' = [refund EXCEPT ![f] = y] /\ (disk' = disk \/ Persist)
  BY DEF RefundUnreachable, RefundAnswered, Typed, TypeOK
<1>2. refund[f] \in RefundRecord /\ p \in Calls /\ payment[p] # None
      /\ legs["target"][payment[p].tgt] # "none"
  BY <1>1, PartTypes DEF Typed, PaymentsNamed, BooksHeld, RefundHeld
<1>3. y.at # "target"
  BY <1>2 DEF RefundRecord
<1>4. /\ \A s \in Outer : KeptOn(s)
      /\ \A q \in Calls : payment[q] # None =>
           payment'[q] # None /\ payment'[q].tgt = payment[q].tgt
  <2>1. CASE RefundUnreachable(f)
    BY <2>1, SameKept DEF RefundUnreachable, SameOn
  <2>2. CASE \E ok \in BOOLEAN : RefundAnswered(f, ok)
    <3>1. Refunded(p) \/ NotRefunded(p)
      BY <2>2 DEF RefundAnswered
    <3> HIDE DEF p
    <3> QED BY <1>1, <1>2, <3>1, RefundedSame
  <2> QED BY <2>1, <2>2
<1>5. Follows
  <2> HIDE DEF y
  <2> QED BY <1>1, <1>3, <1>4 DEF Follows, Typed, TypeOK
<1> QED BY <1>1, <1>4, <1>5, HeldStays

(* The gaps are looked at again.                                           *)
LEMMA ReconcileHeld ==
  ASSUME Typed, BooksHeld, Continues, NEW p \in Calls, Reconcile(p)
  PROVE  BooksHeld'
<1>1. Persist /\ UNCHANGED <<legs, index, refund>>
  BY DEF Reconcile, railVars
<1> QED BY <1>1, ReconcileTypes, IdleHeld DEF Restated

(* An event changes an entry that is there.                                *)
LEMMA WebhookHeld ==
  ASSUME Typed, BooksHeld, Continues, NEW side \in Outer, NEW c \in Calls, Webhook(side, c)
  PROVE  BooksHeld'
<1>1. /\ legs' = [legs EXCEPT ![side][c] = Acknowledged(@)]
      /\ UNCHANGED <<index, refund, payment, disk>>
  BY DEF Webhook
<1>2. legs[side] \in [Calls -> Statuses]
  BY PartTypes DEF Typed, Outer, Sides
<1>3. Acknowledged(legs[side][c]) # "none" <=> legs[side][c] # "none"
  BY DEF Acknowledged
<1>4. \A s \in Outer : SameOn(s)
  BY <1>1, <1>2, <1>3 DEF SameOn, Typed, TypeOK, Legs, Outer, Sides
<1>5. \A s \in Outer : KeptOn(s)
  BY <1>4, SameKept
<1>6. Follows
  BY <1>1 DEF Follows
<1> QED BY <1>1, <1>5, <1>6, HeldStays

(* A restart takes entries and index back together.                        *)
LEMMA CrashHeld ==
  ASSUME Typed, BooksHeld, Continues, Crash \/ \E c \in Calls : CrashWhileApplying(c)
  PROVE  BooksHeld'
<1>1. Restart /\ Persist
  BY DEF Crash, CrashWhileApplying
<1>2. RefundHeld'
  BY <1>1, Restarted DEF RefundHeld
<1>3. \/ legs' = Stored(disk.legs) /\ index' = disk.index
      \/ legs' = Stored(legs) /\ index' = index
  BY DEF Crash, CrashWhileApplying
<1>4. Held'
  <2> SUFFICES ASSUME NEW s \in Outer, NEW c \in Calls, legs'[s][c] # "none"
               PROVE  call'[c] # None
                      /\ (Rail(s, c)' = "sandbox_psp" => index'[s][call'[c].route] = c)
    BY DEF Held
  <2>1. s \in Sides
    BY DEF Outer, Sides
  <2>2. call[c] # None
    BY <1>3, <2>1 DEF Stored
  <2>3. call'[c] # None /\ call'[c].route = call[c].route /\ Rail(s, c)' = Rail(s, c)
    BY <2>1, <2>2 DEF Continues
  <2>4. CASE legs' = Stored(disk.legs) /\ index' = disk.index
    <3>1. disk.legs[s][c] # "none"
      BY <2>1, <2>4 DEF Stored
    <3>2. Rail(s, c) = "sandbox_psp" => disk.index[s][call[c].route] = c
      BY <3>1 DEF BooksHeld, Saved
    <3> QED BY <2>3, <2>4, <3>2
  <2>5. CASE legs' = Stored(legs) /\ index' = index
    <3>1. legs[s][c] # "none"
      BY <2>1, <2>5 DEF Stored
    <3>2. Rail(s, c) = "sandbox_psp" => index[s][call[c].route] = c
      BY <3>1 DEF BooksHeld, Held
    <3> QED BY <2>3, <2>5, <3>2
  <2> QED BY <1>3, <2>4, <2>5
<1>5. Saved'
  BY <1>1, <1>4, SavedStays DEF BooksHeld
<1> QED BY <1>2, <1>4, <1>5 DEF BooksHeld

(* Every step keeps the books.                                             *)
LEMMA NextHeld == Typed /\ BooksHeld /\ [Next]_vars => BooksHeld'
<1> SUFFICES ASSUME Typed, BooksHeld, [Next]_vars PROVE BooksHeld'
  OBVIOUS
<1> USE NextTyped
<1>1. CASE UNCHANGED vars
  <2>1. UNCHANGED <<legs, index, refund, payment, disk>>
    BY <1>1 DEF vars, railVars
  <2> QED BY <2>1, IdleHeld
<1>2. CASE \/ \E q \in Quotes : Expire(q) \/ \E i \in Wanted : CreateQuote(q, i)
           \/ \E r \in Routes, q \in Quotes : CreateRoute(r, q)
           \/ \E level \in Levels \ {"unverified"}, screened \in {"unset", "yes", "no"},
                 clear \in BOOLEAN : VerifyAccount(level, screened, clear)
           \/ \E c \in Calls, r \in Routes : BeginSettle(c, r)
  BY <1>2, PlatformHeld
<1>3. ASSUME NEW c \in Calls, SettleStep(c) \/ StripeCharges(c)
      PROVE  BooksHeld'
  <2>1. CASE ProofFails(c) \/ SourceRefused(c) \/ TargetUnreachable(c) \/ StripeCharges(c)
    BY <2>1, PlatformHeld
  <2>2. CASE TargetRefused(c) \/ SettleSource(c)
    BY <2>2, SourceHeld
  <2>3. CASE SettleLocally(c)
    BY <2>3, LocallyHeld
  <2>4. CASE TargetSettles(c)
    BY <2>4, TargetHeld
  <2>5. CASE TargetDeclines(c) \/ ChainFails(c)
    BY <2>5, UndoneHeld
  <2>6. CASE \E witnessed \in BOOLEAN : Apply(c, witnessed)
    BY <2>6, ApplyHeld
  <2> QED BY <1>3, <2>1, <2>2, <2>3, <2>4, <2>5, <2>6 DEF SettleStep
<1>4. CASE \E f \in Refunds : RefundUnreachable(f) \/ \E ok \in BOOLEAN : RefundAnswered(f, ok)
  BY <1>4, AnswerHeld
<1>5. CASE \E p \in Calls : Reconcile(p)
  BY <1>5, ReconcileHeld
<1>6. CASE Crash \/ \E c \in Calls : CrashWhileApplying(c)
  BY <1>6, CrashHeld
<1>7. CASE \E f \in Refunds, p \in Calls : RefundLocally(f, p) \/ AskRefund(f, p)
  BY <1>7, RefundKeepsHeld, AskHeld
<1>8. CASE \E side \in {"source", "target"}, c \in Calls : Webhook(side, c)
  BY <1>8, WebhookHeld DEF Outer
<1> QED BY <1>1, <1>2, <1>3, <1>4, <1>5, <1>6, <1>7, <1>8 DEF Next, OtherStep

(* Where Stripe is the real TEST API, a rail with an index of intent keys  *)
(* never holds two live settlements of one route, whatever the calls,      *)
(* refunds, events and restarts (sandboxPspAdapter.ts).  On a local Stripe *)
(* ledger it is not so: an event that comes after a refund brings the      *)
(* refunded entry back to life beside the one booked since.                *)
THEOREM RailsChargeOnce ==
  ASSUME StripeApi
  PROVE  Spec => []OneChargePerRoute
<1>1. Typed /\ BooksHeld => OneChargePerRoute
  <2> SUFFICES ASSUME Typed, BooksHeld, NEW s \in Outer, NEW c \in Calls, NEW d \in Calls,
                      call[c] # None, call[d] # None, call[c].route = call[d].route,
                      Durable(RailOf(s, call[c].route)),
                      ~(s = "target" /\ Remote(call[c].route)),
                      Live(legs[s][c]), Live(legs[s][d])
               PROVE  c = d
    BY DEF OneChargePerRoute, Outer
  <2> DEFINE r == call[c].route
  <2>1. r \in Routes /\ route[r] # None
    BY PartTypes DEF Typed, CallsNamed
  <2>2. route[r] \in Quotes /\ intent[route[r]] # None
    BY <2>1 DEF Typed, TypeOK, PlatformNamed
  <2>3. intent[route[r]] \in Wanted
    BY <2>2 DEF Typed, TypeOK
  <2>4. Plan(intent[route[r]]).source # "stripe_test"
    BY <2>3, TypesOfConstants
  <2>5. RailOf("source", r) # "stripe_test"
    BY <2>4 DEF RailOf, PlanOf
  <2>6. s = "target" => RailOf("target", r) # "stripe_test"
    BY DEF Remote
  <2>7. RailOf(s, r) = "sandbox_psp"
    BY <2>5, <2>6 DEF Durable, Outer
  <2>8. legs[s][c] # "none" /\ legs[s][d] # "none"
    BY DEF Live
  <2>9. index[s][r] = c /\ index[s][r] = d
    BY <2>7, <2>8 DEF BooksHeld, Held, Rail
  <2> QED BY <2>9
<1>2. Init => Typed /\ BooksHeld
  BY InitTyped, InitHeld
<1>3. Typed /\ BooksHeld /\ [Next]_vars => Typed' /\ BooksHeld'
  BY NextTyped, NextHeld
<1> QED BY <1>1, <1>2, <1>3, PTL DEF Spec
-----------------------------------------------------------------------------
(* Refunds.                                                                *)

(* A call whose money goes to the remote Stripe API, and the charges that  *)
(* Stripe has given back.                                                  *)
ViaApi(c) == StripeApi /\ Rail("target", c) = "stripe_test"
Back == {c \in Calls : intents[c] = "refunded"}

(* A payment record x of a call with the route own, whose money was        *)
(* returned n times.                                                       *)
Kept(x, own, n, viaApi, back) ==
  /\ n # 0 => x # None
  /\ x # None =>
       /\ x.route = own
       /\ viaApi => /\ n <= 1
                    /\ x.state = "refunded" \/ n # 0 => x.tgt \in back

(* A record y that is x with another state, refunded only if x was, or one *)
(* that was just made.                                                     *)
Carried(x, y, own) ==
  IF x = None THEN y # None => y.route = own /\ y.state # "refunded"
  ELSE /\ y # None /\ y.route = x.route /\ y.tgt = x.tgt
       /\ y.state = "refunded" => x.state = "refunded"

MoneyKept ==
  /\ \A f \in Refunds : refund[f] # None /\ refund[f].at = "target" => ViaApi(refund[f].pay)
  /\ \A p \in Calls :
       /\ Kept(payment[p], call[p].route, returned[p], ViaApi(p), Back)
       /\ Kept(disk.payment[p], call[p].route, returned[p], ViaApi(p), Back)

(* A record that is carried along stays what it has to be, when no money   *)
(* is returned.                                                            *)
LEMMA CarriedKept ==
  ASSUME NEW x, NEW y, NEW own, NEW n, NEW viaApi, NEW back, NEW after,
         Kept(x, own, n, viaApi, back), Carried(x, y, own), back \subseteq after,
         n \in Nat
  PROVE  Kept(y, own, n, viaApi, after)
BY DEF Kept, Carried

(* The route of a call that was in the first state, and its rails, stay.   *)
LEMMA SameCall ==
  ASSUME Typed, Continues, NEW p \in Calls,
         call[p] # None
  PROVE  call'[p].route = call[p].route /\ ViaApi(p)' = ViaApi(p)
BY DEF Continues, ViaApi, Sides

(* Every step: what the records are after it is what they have to be.      *)
LEMMA KeptStays ==
  ASSUME Typed, Continues, MoneyKept,
         \A f \in Refunds : refund'[f] # None /\ refund'[f].at = "target" =>
           \/ refund[f] # None /\ refund[f].at = "target" /\ refund'[f].pay = refund[f].pay
           \/ refund'[f].pay \in Calls /\ payment[refund'[f].pay] # None
                /\ ViaApi(refund'[f].pay),
         Back \subseteq Back',
         \A p \in Calls :
           Kept(payment'[p], call'[p].route, returned'[p], ViaApi(p)', Back'),
         \/ disk'.payment = payment'
         \/ disk' = disk /\ returned' = returned
  PROVE  MoneyKept'
<1>1. ASSUME NEW f \in Refunds, refund'[f] # None, refund'[f].at = "target"
      PROVE  ViaApi(refund[f].pay)'
  <2> DEFINE p == refund'[f].pay
  <2>1. CASE refund[f] # None /\ refund[f].at = "target" /\ refund'[f].pay = refund[f].pay
    <3>1. p \in Calls /\ payment[p] # None /\ ViaApi(p)
      BY <2>1, PartTypes DEF Typed, PaymentsNamed, MoneyKept
    <3>2. call[p] # None
      BY <3>1 DEF Typed, PaymentsNamed
    <3>3. ViaApi(p)
      BY <3>1
    <3> QED BY <3>1, <3>2, SameCall DEF ViaApi, Rail
  <2>2. CASE p \in Calls /\ payment[p] # None /\ ViaApi(p)
    <3>2. call[p] # None
      BY <2>2 DEF Typed, PaymentsNamed
    <3> QED BY <2>2, <3>2, SameCall DEF ViaApi, Rail
  <2> QED BY <1>1, <2>1, <2>2
<1>2. ASSUME NEW p \in Calls, disk' = disk, returned' = returned
      PROVE  Kept(disk'.payment[p], call'[p].route, returned'[p], ViaApi(p)', Back')
  <2> DEFINE x == disk.payment[p]
  <2>1. Kept(x, call[p].route, returned[p], ViaApi(p), Back)
    BY DEF MoneyKept
  <2>2. returned[p] \in Nat
    BY DEF Typed, TypeOK
  <2>3. CASE x = None
    BY <1>2, <2>1, <2>3 DEF Kept
  <2>4. CASE x # None
    <3>1. call[p] # None
      BY <2>4 DEF Typed, PaymentsNamed
    <3>2. call'[p].route = call[p].route /\ ViaApi(p)' = ViaApi(p)
      BY <3>1, SameCall
    <3>3. Carried(x, x, call[p].route)
      BY <2>4 DEF Carried
    <3> HIDE DEF x
    <3>4. Kept(x, call[p].route, returned[p], ViaApi(p), Back')
      BY <2>1, <2>2, <3>3, CarriedKept
    <3> QED BY <1>2, <3>2, <3>4 DEF x
  <2> QED BY <2>3, <2>4
<1> QED BY <1>1, <1>2 DEF MoneyKept

(* A step that returns no money: records are carried along.                *)
LEMMA NothingReturned ==
  ASSUME Typed, Continues, MoneyKept, returned' = returned,
         \A f \in Refunds : refund'[f] # None /\ refund'[f].at = "target" =>
           \/ refund[f] # None /\ refund[f].at = "target" /\ refund'[f].pay = refund[f].pay
           \/ refund'[f].pay \in Calls /\ payment[refund'[f].pay] # None
                /\ ViaApi(refund'[f].pay),
         \A d \in Calls : intents[d] = "refunded" => intents'[d] = "refunded",
         \A p \in Calls : Carried(payment[p], payment'[p], call'[p].route),
         disk' = disk \/ Persist
  PROVE  MoneyKept'
<1>1. Back \subseteq Back'
  BY DEF Back
<1>2. disk'.payment = payment' \/ disk' = disk
  BY DEF Persist
<1>3. ASSUME NEW p \in Calls
      PROVE  Kept(payment'[p], call'[p].route, returned'[p], ViaApi(p)', Back')
  <2> DEFINE x == payment[p]
             y == payment'[p]
  <2>1. Kept(x, call[p].route, returned[p], ViaApi(p), Back)
    BY DEF MoneyKept
  <2>2. returned[p] \in Nat /\ Carried(x, y, call'[p].route)
    BY DEF Typed, TypeOK
  <2> HIDE DEF y
  <2>3. CASE x = None
    <3>1. Kept(y, call'[p].route, returned[p], ViaApi(p)', Back')
      BY <2>1, <2>2, <2>3 DEF Kept, Carried
    <3> QED BY <3>1 DEF y
  <2>4. CASE x # None
    <3>1. call[p] # None
      BY <2>4 DEF Typed, PaymentsNamed
    <3>2. call'[p].route = call[p].route /\ ViaApi(p)' = ViaApi(p)
      BY <3>1, SameCall
    <3> HIDE DEF x
    <3>4. Kept(y, call[p].route, returned[p], ViaApi(p), Back')
      BY <1>1, <2>1, <2>2, <3>2, CarriedKept
    <3> QED BY <3>2, <3>4 DEF y
  <2> QED BY <2>3, <2>4
<1> QED BY <1>1, <1>2, <1>3, KeptStays

(* No money has gone anywhere at the start.                                *)
LEMMA InitMoney == Init => MoneyKept
<1> SUFFICES ASSUME Init PROVE MoneyKept
  OBVIOUS
<1>1. \A p \in Calls : payment[p] = None /\ disk.payment[p] = None /\ returned[p] = 0
  BY DEF Init
<1>2. \A f \in Refunds : refund[f] = None
  BY DEF Init
<1> QED BY <1>1, <1>2 DEF MoneyKept, Kept

(* Steps that leave payments, refunds and what Stripe gave back.           *)
LEMMA IdleMoney ==
  ASSUME Typed, Continues, MoneyKept, UNCHANGED <<payment, refund, returned>>,
         \A d \in Calls : intents[d] = "refunded" => intents'[d] = "refunded",
         disk' = disk \/ Persist
  PROVE  MoneyKept'
<1>1. \A p \in Calls : Carried(payment[p], payment'[p], call'[p].route)
  BY DEF Carried
<1> QED BY <1>1, NothingReturned

(* The settlements, and a charge at Stripe.                                *)
LEMMA StepMoney ==
  ASSUME Typed, Continues, MoneyKept, NEW c \in Calls,
         SettleStep(c) \/ StripeCharges(c)
  PROVE  MoneyKept'
<1>1. CASE \/ ProofFails(c) \/ SourceRefused(c) \/ TargetRefused(c) \/ SettleLocally(c)
           \/ SettleSource(c) \/ TargetSettles(c) \/ TargetDeclines(c) \/ TargetUnreachable(c)
           \/ ChainFails(c) \/ StripeCharges(c)
  <2>1. UNCHANGED <<payment, refund, moneyVars, disk>>
    BY <1>1 DEF ProofFails, SourceRefused, TargetRefused, SettleLocally, SettleSource,
       TargetSettles, TargetDeclines, TargetUnreachable, ChainFails, StripeCharges
  <2>2. \A d \in Calls : intents[d] = "refunded" => intents'[d] = "refunded"
    <3>1. CASE ChainFails(c)
      <4>1. call[c].tgt \in Calls
        BY <3>1, FlightTypes DEF ChainFails
      <4> QED BY <3>1, <4>1 DEF ChainFails, Typed, TypeOK
    <3>2. CASE StripeCharges(c)
      BY <3>2 DEF StripeCharges, Typed, TypeOK
    <3>3. CASE \/ ProofFails(c) \/ SourceRefused(c) \/ TargetRefused(c) \/ SettleLocally(c)
               \/ SettleSource(c) \/ TargetSettles(c) \/ TargetDeclines(c)
               \/ TargetUnreachable(c)
      <4>1. intents' = intents
        BY <3>3 DEF ProofFails, SourceRefused, TargetRefused, SettleLocally, SettleSource,
           TargetSettles, TargetDeclines, TargetUnreachable, railVars
      <4> QED BY <4>1
    <3> QED BY <1>1, <3>1, <3>2, <3>3
  <2> QED BY <2>1, <2>2, IdleMoney DEF moneyVars
<1>2. ASSUME NEW witnessed \in BOOLEAN, Apply(c, witnessed)
      PROVE  MoneyKept'
  <2> DEFINE gaps == ApplyGaps(c, witnessed)
             x == [state |-> IF gaps = {} THEN "reconciled" ELSE "settled",
                   route |-> call[c].route, src |-> call[c].src, tgt |-> call[c].tgt,
                   gaps |-> gaps]
  <2>1. /\ At(c, "chain") /\ Persist /\ UNCHANGED <<railVars, refund, returned>>
        /\ payment' = [payment EXCEPT ![c] = x]
    BY <1>2 DEF Apply
  <2>2. call[c] # None /\ payment[c] = None
    BY <2>1, FlightTypes
  <2>3. call'[c].route = call[c].route
    BY <2>2 DEF Continues
  <2>4. x.route = call[c].route /\ x.state # "refunded"
    OBVIOUS
  <2> HIDE DEF x
  <2>5. \A p \in Calls : Carried(payment[p], payment'[p], call'[p].route)
    BY <2>1, <2>2, <2>3, <2>4 DEF Carried, Typed, TypeOK
  <2> QED BY <2>1, <2>5, NothingReturned DEF railVars
<1> QED BY <1>1, <1>2 DEF SettleStep

(* A payment in another state is the same payment.                         *)
LEMMA StatedSame ==
  ASSUME NEW x \in Payment, NEW gaps \in SUBSET Gaps,
         NEW state \in {"settled", "reconciled", "reversal_pending", "refunded",
                        "manual_review"}
  PROVE  LET y == Stated(x, state, gaps)
         IN  y # None /\ y.route = x.route /\ y.tgt = x.tgt /\ y.state = state
<1> DEFINE y1 == [x EXCEPT !.state = state]
           y2 == [y1 EXCEPT !.gaps = gaps]
<1>1. Stated(x, state, gaps) = y2
  BY DEF Stated
<1>2. y1 \in Payment /\ y1.tgt = x.tgt /\ y1.route = x.route /\ y1.state = state
  BY DEF Payment
<1> HIDE DEF y1
<1>3. y2 \in Payment /\ y2.tgt = x.tgt /\ y2.route = x.route /\ y2.state = state
  BY <1>2 DEF Payment
<1>4. y2 # None
  BY <1>3, FreshNone
<1> QED BY <1>1, <1>3, <1>4

(* A payment's rails are its call's.                                       *)
LEMMA PaymentRails ==
  ASSUME Typed, MoneyKept, NEW p \in Calls, payment[p] # None
  PROVE  /\ call[p] # None /\ payment[p] \in Payment /\ payment[p].tgt \in Calls
         /\ payment[p].gaps \subseteq Gaps
         /\ Remote(payment[p].route) = ViaApi(p)
<1>1. payment[p].route = call[p].route
  BY DEF MoneyKept, Kept
<1> QED BY <1>1, PartTypes DEF Typed, PaymentsNamed, Remote, ViaApi, Rail

(* A refund that the target's rail made.  Through the Stripe API it is of  *)
(* a charge that had not been given back.                                  *)
LEMMA RefundedMoney ==
  ASSUME Typed, Continues, MoneyKept, NEW p \in Calls, payment[p] # None, Refunded(p), Persist,
         ViaApi(p) => /\ intents[payment[p].tgt] # "refunded"
                      /\ intents'[payment[p].tgt] = "refunded",
         \A d \in Calls : intents[d] = "refunded" => intents'[d] = "refunded",
         \A f \in Refunds : refund'[f] # None /\ refund'[f].at = "target" =>
           refund[f] # None /\ refund[f].at = "target" /\ refund'[f].pay = refund[f].pay
  PROVE  MoneyKept'
<1> DEFINE y == Stated(payment[p], "refunded", {})
<1>1. /\ payment' = [payment EXCEPT ![p] = y]
      /\ returned' = [returned EXCEPT ![p] = @ + 1]
  BY DEF Refunded, Reverse, Stated, Typed, TypeOK
<1>2. /\ call[p] # None /\ payment[p] \in Payment /\ payment[p].tgt \in Calls
      /\ Kept(payment[p], call[p].route, returned[p], ViaApi(p), Back)
  BY PaymentRails DEF MoneyKept
<1>3. y # None /\ y.route = payment[p].route /\ y.tgt = payment[p].tgt /\ y.state = "refunded"
  BY <1>2, StatedSame
<1> HIDE DEF y
<1>4. Back \subseteq Back'
  BY DEF Back
<1>5. returned \in [Calls -> Nat] /\ payment \in [Calls -> Payment \union {None}]
  BY DEF Typed, TypeOK
<1>6. Kept(payment'[p], call'[p].route, returned'[p], ViaApi(p)', Back')
  <2>1. call'[p].route = call[p].route /\ ViaApi(p)' = ViaApi(p)
    BY <1>2, SameCall
  <2>2. payment'[p] = y /\ returned'[p] = returned[p] + 1
    BY <1>1, <1>5
  <2>3. ViaApi(p) => returned[p] = 0 /\ payment[p].tgt \in Back'
    BY <1>2, <1>5 DEF Kept, Back
  <2>4. y.route = call[p].route
    BY <1>2, <1>3 DEF Kept
  <2>5. Kept(y, call[p].route, returned[p] + 1, ViaApi(p), Back')
    BY <1>3, <1>5, <2>3, <2>4 DEF Kept
  <2> QED BY <2>1, <2>2, <2>5
<1>7. ASSUME NEW q \in Calls \ {p}
      PROVE  Kept(payment'[q], call'[q].route, returned'[q], ViaApi(q)', Back')
  <2>1. payment'[q] = payment[q] /\ returned'[q] = returned[q]
    BY <1>1, <1>5
  <2>2. Kept(payment[q], call[q].route, returned[q], ViaApi(q), Back)
    BY DEF MoneyKept
  <2>3. CASE payment[q] = None
    BY <2>1, <2>2, <2>3 DEF Kept
  <2>4. CASE payment[q] # None
    <3>1. call'[q].route = call[q].route /\ ViaApi(q)' = ViaApi(q)
      BY <2>4, SameCall DEF Typed, PaymentsNamed
    <3>2. Carried(payment[q], payment[q], call[q].route) /\ returned[q] \in Nat
      BY <1>5, <2>4 DEF Carried
    <3>3. Kept(payment[q], call[q].route, returned[q], ViaApi(q), Back')
      BY <1>4, <2>2, <3>2, CarriedKept
    <3> QED BY <2>1, <3>1, <3>3
  <2> QED BY <2>3, <2>4
<1>8. disk'.payment = payment'
  BY DEF Persist
<1> QED BY <1>4, <1>6, <1>7, <1>8, KeptStays

(* One payment gets another state, not refunded unless it was.             *)
LEMMA RestatedMoney ==
  ASSUME Typed, Continues, MoneyKept, NEW p \in Calls, payment[p] # None,
         NEW gaps \in SUBSET Gaps,
         NEW state \in {"settled", "reconciled", "reversal_pending", "refunded",
                        "manual_review"},
         state = "refunded" => payment[p].state = "refunded",
         payment' = [payment EXCEPT ![p] = Stated(payment[p], state, gaps)]
  PROVE  \A q \in Calls : Carried(payment[q], payment'[q], call'[q].route)
<1> DEFINE y == Stated(payment[p], state, gaps)
<1>1. y # None /\ y.route = payment[p].route /\ y.tgt = payment[p].tgt /\ y.state = state
  BY PaymentRails, StatedSame
<1> HIDE DEF y
<1>2. payment' = [payment EXCEPT ![p] = y]
  BY DEF y
<1> QED BY <1>1, <1>2 DEF Carried, Typed, TypeOK

(* The target's rail did not give the money back.                          *)
LEMMA NotRefundedCarried ==
  ASSUME Typed, Continues, MoneyKept, NEW p \in Calls, payment[p] # None, NotRefunded(p)
  PROVE  \A q \in Calls : Carried(payment[q], payment'[q], call'[q].route)
<1> DEFINE gaps == payment[p].gaps \union {"refund_pending"}
<1>1. payment' = [payment EXCEPT ![p] = Stated(payment[p], "manual_review", gaps)]
  BY DEF NotRefunded, Stated, Typed, TypeOK
<1>2. gaps \in SUBSET Gaps
  BY PaymentRails DEF Gaps
<1> HIDE DEF gaps
<1> QED BY <1>1, <1>2, RestatedMoney

(* A refund that begins, on any rail.                                      *)
LEMMA RefundMoney ==
  ASSUME Typed, Continues, MoneyKept, NEW f \in Refunds, NEW p \in Calls,
         RefundLocally(f, p) \/ AskRefund(f, p)
  PROVE  MoneyKept'
<1>1. CASE RefundLocally(f, p)
  <2> DEFINE y == [at |-> "answered", pay |-> p]
  <2>1. /\ payment[p] # None /\ Persist /\ intents' = intents
        /\ ~(Remote(payment[p].route) /\ TargetRefundable(p))
        /\ IF TargetRefundable(p) THEN Refunded(p) ELSE NotRefunded(p)
        /\ refund' = [refund EXCEPT ![f] = y]
    BY <1>1 DEF RefundLocally
  <2>2. y.at # "target"
    OBVIOUS
  <2> HIDE DEF y
  <2>3. \A g \in Refunds : refund'[g] # None /\ refund'[g].at = "target" =>
          refund[g] # None /\ refund[g].at = "target" /\ refund'[g].pay = refund[g].pay
    BY <2>1, <2>2 DEF Typed, TypeOK
  <2>4. CASE TargetRefundable(p)
    <3>1. ~ViaApi(p)
      BY <2>1, <2>4, PaymentRails
    <3> QED BY <2>1, <2>3, <2>4, <3>1, RefundedMoney
  <2>5. CASE ~TargetRefundable(p)
    <3>1. returned' = returned
      BY <2>1, <2>5 DEF NotRefunded, moneyVars
    <3>2. \A q \in Calls : Carried(payment[q], payment'[q], call'[q].route)
      BY <2>1, <2>5, NotRefundedCarried
    <3> QED BY <2>1, <2>3, <3>1, <3>2, NothingReturned
  <2> QED BY <2>4, <2>5
<1>2. CASE AskRefund(f, p)
  <2> DEFINE y == [at |-> "target", pay |-> p]
  <2>1. /\ payment[p] # None /\ Remote(payment[p].route)
        /\ refund' = [refund EXCEPT ![f] = y]
        /\ UNCHANGED <<railVars, moneyVars, disk>>
    BY <1>2 DEF AskRefund
  <2>2. payment' = [payment EXCEPT ![p] = Stated(payment[p], "reversal_pending", payment[p].gaps)]
    BY <1>2, PartTypes DEF AskRefund, Stated, Typed, TypeOK, Payment
  <2>3. payment[p].gaps \in SUBSET Gaps /\ ViaApi(p)
    BY <2>1, PaymentRails
  <2>4. \A q \in Calls : Carried(payment[q], payment'[q], call'[q].route)
    BY <2>1, <2>2, <2>3, RestatedMoney
  <2>5. y.pay = p
    OBVIOUS
  <2> HIDE DEF y
  <2>6. \A g \in Refunds : refund'[g] # None /\ refund'[g].at = "target" =>
          \/ refund[g] # None /\ refund[g].at = "target" /\ refund'[g].pay = refund[g].pay
          \/ /\ refund'[g].pay \in Calls /\ payment[refund'[g].pay] # None
             /\ ViaApi(refund'[g].pay)
    BY <2>1, <2>3, <2>5 DEF Typed, TypeOK
  <2> QED BY <2>1, <2>4, <2>6, NothingReturned DEF railVars, moneyVars
<1> QED BY <1>1, <1>2

(* A refund that Stripe answers.                                           *)
LEMMA AnswerMoney ==
  ASSUME Typed, Continues, MoneyKept, NEW f \in Refunds,
         RefundUnreachable(f) \/ \E ok \in BOOLEAN : RefundAnswered(f, ok)
  PROVE  MoneyKept'
<1> DEFINE p == refund[f].pay
           y == [refund[f] EXCEPT !.at = "answered"]
           pi == payment[p].tgt
<1>1. /\ refund[f] # None /\ refund[f].at = "target"
      /\ refund' = [refund EXCEPT ![f] = y] /\ (disk' = disk \/ Persist)
      /\ intents' = intents \/ intents' = [intents EXCEPT ![pi] = "refunded"]
  BY DEF RefundUnreachable, RefundAnswered, Typed, TypeOK
<1>2. refund[f] \in RefundRecord /\ p \in Calls /\ payment[p] # None
  BY <1>1, PartTypes DEF Typed, PaymentsNamed
<1>3. y.at # "target"
  BY <1>2 DEF RefundRecord
<1> HIDE DEF y
<1>4. \A g \in Refunds : refund'[g] # None /\ refund'[g].at = "target" =>
        refund[g] # None /\ refund[g].at = "target" /\ refund'[g].pay = refund[g].pay
  BY <1>1, <1>3 DEF Typed, TypeOK
<1>5. pi \in Calls /\ \A d \in Calls : intents[d] = "refunded" => intents'[d] = "refunded"
  <2>1. pi \in Calls
    BY <1>2, PaymentRails
  <2> HIDE DEF pi
  <2> QED BY <1>1, <2>1 DEF Typed, TypeOK
<1>6. CASE RefundUnreachable(f)
  <2>1. UNCHANGED <<payment, moneyVars>>
    BY <1>6 DEF RefundUnreachable
  <2>2. \A q \in Calls : Carried(payment[q], payment'[q], call'[q].route)
    BY <2>1 DEF Carried
  <2> QED BY <1>1, <1>4, <1>5, <2>1, <2>2, NothingReturned DEF moneyVars
<1>7. ASSUME RefundAnswered(f, TRUE)
      PROVE  MoneyKept'
  <2>1. Persist /\ Refunded(p) /\ intents[pi] = "charged"
        /\ intents' = [intents EXCEPT ![pi] = "refunded"]
    BY <1>7 DEF RefundAnswered
  <2>2. intents'[pi] = "refunded"
    BY <1>5, <2>1 DEF Typed, TypeOK
  <2> QED BY <1>2, <1>4, <1>5, <2>1, <2>2, RefundedMoney
<1>8. ASSUME RefundAnswered(f, FALSE)
      PROVE  MoneyKept'
  <2>1. Persist /\ NotRefunded(p)
    BY <1>8 DEF RefundAnswered
  <2>2. returned' = returned
    BY <2>1 DEF NotRefunded, moneyVars
  <2>3. \A q \in Calls : Carried(payment[q], payment'[q], call'[q].route)
    BY <1>2, <2>1, NotRefundedCarried
  <2> QED BY <1>4, <1>5, <2>1, <2>2, <2>3, NothingReturned
<1> QED BY <1>6, <1>7, <1>8

(* A reconciliation refunds nothing.                                       *)
LEMMA ReconcileMoney ==
  ASSUME Typed, Continues, MoneyKept, NEW p \in Calls, Reconcile(p)
  PROVE  MoneyKept'
<1> DEFINE gaps == StatusGaps(RailOfPayment("target", p), legs["target"][payment[p].tgt])
           state == IF gaps = {} /\ payment[p].state # "refunded" THEN "reconciled"
                    ELSE payment[p].state
<1>1. /\ payment[p] # None /\ payment[p] \in Payment /\ Persist
      /\ UNCHANGED <<railVars, refund, moneyVars>>
  BY PartTypes DEF Reconcile, Typed
<1>2. payment' = [payment EXCEPT ![p] = Stated(payment[p], state, gaps)]
  BY <1>1 DEF Reconcile, Stated, Typed, TypeOK, Payment
<1>3. gaps \in SUBSET Gaps
  BY DEF StatusGaps, Gaps
<1>4. /\ state \in {"settled", "reconciled", "reversal_pending", "refunded", "manual_review"}
      /\ state = "refunded" => payment[p].state = "refunded"
  BY <1>1 DEF Payment
<1> HIDE DEF gaps, state
<1>5. \A q \in Calls : Carried(payment[q], payment'[q], call'[q].route)
  BY <1>1, <1>2, <1>3, <1>4, RestatedMoney
<1> QED BY <1>1, <1>5, NothingReturned DEF railVars, moneyVars

(* What a restart takes back was saved after the last return of money.     *)
LEMMA CrashMoney ==
  ASSUME Typed, Continues, MoneyKept, Crash \/ \E c \in Calls : CrashWhileApplying(c)
  PROVE  MoneyKept'
<1>1. /\ UNCHANGED <<intents, returned>> /\ Persist
      /\ \A f \in Refunds : refund'[f] # None => refund'[f].at # "target"
  BY Restarted DEF Crash, CrashWhileApplying
<1>2. CASE \E c \in Calls : CrashWhileApplying(c)
  <2>1. payment' = payment
    BY <1>2 DEF CrashWhileApplying
  <2>2. \A q \in Calls : Carried(payment[q], payment'[q], call'[q].route)
    BY <2>1 DEF Carried
  <2> QED BY <1>1, <2>2, NothingReturned
<1>3. CASE Crash
  <2>1. payment' = disk.payment
    BY <1>3 DEF Crash
  <2>2. Back' = Back
    BY <1>1 DEF Back
  <2>3. ASSUME NEW p \in Calls
        PROVE  Kept(payment'[p], call'[p].route, returned'[p], ViaApi(p)', Back')
    <3> DEFINE x == disk.payment[p]
    <3>1. Kept(x, call[p].route, returned[p], ViaApi(p), Back) /\ payment'[p] = x
      BY <2>1 DEF MoneyKept
    <3>2. CASE x = None
      BY <1>1, <3>1, <3>2 DEF Kept
    <3>3. CASE x # None
      <4>1. call'[p].route = call[p].route /\ ViaApi(p)' = ViaApi(p)
        BY <3>3, SameCall DEF Typed, PaymentsNamed
      <4> HIDE DEF x
      <4> QED BY <1>1, <2>2, <3>1, <4>1
    <3> QED BY <3>2, <3>3
  <2>4. disk'.payment = payment'
    BY <1>1 DEF Persist
  <2> QED BY <1>1, <2>2, <2>3, <2>4, KeptStays
<1> QED BY <1>2, <1>3

(* Every step keeps the records.                                           *)
LEMMA NextMoney == Typed /\ MoneyKept /\ [Next]_vars => MoneyKept'
<1> SUFFICES ASSUME Typed, MoneyKept, [Next]_vars PROVE MoneyKept'
  OBVIOUS
<1> USE NextTyped
<1>1. CASE UNCHANGED vars
  <2>1. UNCHANGED <<payment, refund, intents, returned, disk>>
    BY <1>1 DEF vars, railVars, moneyVars
  <2> QED BY <2>1, IdleMoney
<1>2. CASE \/ \E q \in Quotes : Expire(q) \/ \E i \in Wanted : CreateQuote(q, i)
           \/ \E r \in Routes, q \in Quotes : CreateRoute(r, q)
           \/ \E level \in Levels \ {"unverified"}, screened \in {"unset", "yes", "no"},
                 clear \in BOOLEAN : VerifyAccount(level, screened, clear)
           \/ \E c \in Calls, r \in Routes : BeginSettle(c, r)
           \/ \E side \in {"source", "target"}, c \in Calls : Webhook(side, c)
  <2>1. UNCHANGED <<payment, refund, intents, returned>> /\ (disk' = disk \/ Persist)
    BY <1>2 DEF Expire, CreateQuote, CreateRoute, VerifyAccount, BeginSettle, Webhook,
       railVars, moneyVars
  <2> QED BY <2>1, IdleMoney
<1>3. CASE \E c \in Calls : SettleStep(c) \/ StripeCharges(c)
  BY <1>3, StepMoney
<1>4. CASE \E f \in Refunds : RefundUnreachable(f) \/ \E ok \in BOOLEAN : RefundAnswered(f, ok)
  BY <1>4, AnswerMoney
<1>5. CASE \E p \in Calls : Reconcile(p)
  BY <1>5, ReconcileMoney
<1>6. CASE Crash \/ \E c \in Calls : CrashWhileApplying(c)
  BY <1>6, CrashMoney
<1>7. CASE \E f \in Refunds, p \in Calls : RefundLocally(f, p) \/ AskRefund(f, p)
  BY <1>7, RefundMoney
<1> QED BY <1>1, <1>2, <1>3, <1>4, <1>5, <1>6, <1>7 DEF Next, OtherStep

(* The invariant of the records.                                           *)
LEMMA MoneyStays == Spec => [](Typed /\ MoneyKept)
<1>1. Init => Typed /\ MoneyKept
  BY InitTyped, InitMoney
<1>2. Typed /\ MoneyKept /\ [Next]_vars => Typed' /\ MoneyKept'
  BY NextTyped, NextMoney
<1> QED BY <1>1, <1>2, PTL DEF Spec

(* A payment through the Stripe API is called refunded only when Stripe    *)
(* has given the money back, in memory and in what a restart brings back   *)
(* (refundUniversal).                                                      *)
THEOREM RefundsAreReal == Spec => []RefundIsReal
<1>1. Typed /\ MoneyKept => RefundIsReal
  <2> SUFFICES ASSUME Typed, MoneyKept, NEW c \in Calls, payment[c] # None,
                      payment[c].state = "refunded", Remote(payment[c].route)
               PROVE  intents[payment[c].tgt] = "refunded"
    BY DEF RefundIsReal
  <2>1. ViaApi(c)
    BY PaymentRails
  <2> QED BY <2>1 DEF MoneyKept, Kept, Back
<1> QED BY <1>1, MoneyStays, PTL

(* Where every payment goes to the Stripe API, its money is given back at  *)
(* most once, however many refunds are asked for, answered, lost and asked *)
(* for again after a restart (refundUniversal).                            *)
THEOREM MoneyReturnsOnce ==
  ASSUME StripeApi, \A i \in Wanted : Plan(i).target = "stripe_test"
  PROVE  Spec => []ReturnedOnce
<1>1. Typed /\ MoneyKept => ReturnedOnce
  <2> SUFFICES ASSUME Typed, MoneyKept, NEW c \in Calls
               PROVE  returned[c] <= 1
    BY DEF ReturnedOnce
  <2>1. returned[c] \in Nat
    BY DEF Typed, TypeOK
  <2>2. CASE returned[c] = 0
    BY <2>2
  <2>3. CASE returned[c] # 0
    <3> DEFINE r == call[c].route
    <3>1. Kept(payment[c], r, returned[c], ViaApi(c), Back) /\ payment[c] # None
      BY <2>3 DEF MoneyKept, Kept
    <3>2. r \in Routes /\ route[r] # None
      BY <3>1, PartTypes DEF Typed, PaymentsNamed, CallsNamed
    <3>3. route[r] \in Quotes /\ intent[route[r]] # None
      BY <3>2 DEF Typed, TypeOK, PlatformNamed
    <3>4. intent[route[r]] \in Wanted
      BY <3>3 DEF Typed, TypeOK
    <3>5. ViaApi(c)
      BY <3>4 DEF ViaApi, Rail, RailOf, PlanOf
    <3> QED BY <3>1, <3>5 DEF Kept
  <2> QED BY <2>2, <2>3
<1> QED BY <1>1, MoneyStays, PTL

-----------------------------------------------------------------------------
(* Local rails, no stubs, no restarts, and every route settled once.       *)
LocalOnly == ~StripeApi /\ ~StubsAllowed /\ MaxUpsets = 0

(* Money stands on a rail, and the rail takes it back.                     *)
Stands(rail, leg) ==
  rail # "stub" /\ Live(leg) /\ (rail = "internal_ledger" => leg = "settled")

(* The legs, the payment and the money of call c, which is in state x.     *)
Sound(c, x, p, ls, lt, rs, rt, wasPaid, n) ==
  /\ x # None => x.at \in {"proving", "chain", "answered"}
  /\ x = None \/ x.at = "proving" => ls = "none" /\ lt = "none" /\ p = None
  /\ x # None /\ x.at = "chain" =>
       x.src = c /\ x.tgt = c /\ p = None /\ Stands(rs, ls) /\ Stands(rt, lt)
  /\ x # None /\ x.at = "answered" /\ p = None => ~Live(ls) /\ ~Live(lt)
  /\ p # None =>
       /\ p.src = c /\ p.tgt = c /\ p.route = x.route
       /\ p.state \in {"settled", "reconciled", "refunded"}
       /\ p.state # "refunded" => Stands(rs, ls) /\ Stands(rt, lt) /\ n = 0
       /\ p.state = "refunded" => ~Live(ls) /\ ~Live(lt) /\ n = 1
  /\ p = None => ~wasPaid /\ n = 0
SoundAt(c) ==
  Sound(c, call[c], payment[c], legs["source"][c], legs["target"][c], Rail("source", c),
        Rail("target", c), c \in paid, returned[c])

RoutesOnce ==
  \A c, d \in Calls : call[c] # None /\ call[d] # None /\ call[c].route = call[d].route => c = d
IndexOwn ==
  \A s \in Outer, r \in Routes : index[s][r] # None =>
    LET d == index[s][r] IN call[d] # None /\ call[d].route = r /\ call[d].at # "proving"
RefundsOnce ==
  /\ \A f \in Refunds : refund[f] # None => refund[f].at = "answered"
  /\ \A p \in Calls : payment[p] # None /\ payment[p].state = "refunded" =>
       \E f \in Refunds : refund[f] # None /\ refund[f].pay = p

Standing == {c \in Calls : payment[c] # None /\ payment[c].state # "refunded"}
GivenBack == {c \in Calls : returned[c] = 1}
Balances ==
  /\ IsFiniteSet(Standing) /\ IsFiniteSet(GivenBack) /\ IsFiniteSet(paid)
  /\ receiver = Cardinality(Standing)
  /\ sender + Cardinality(paid) = Opening + Cardinality(GivenBack)

OnceInv ==
  RoutesOnce /\ IndexOwn /\ RefundsOnce /\ Balances /\ \A c \in Calls : SoundAt(c)

-----------------------------------------------------------------------------

(* The rails of the two outer legs.                                        *)
LEMMA OuterRails ==
  ASSUME NEW s \in Outer, NEW r
  PROVE  RailOf(s, r) \in {"stripe_test", "sandbox_psp", "internal_ledger", "stub"}
BY DEF Outer, RailOf, PlanOf, Plan, RailFor

(* Money that stands can be taken back.                                    *)
LEMMA StandsRefundable ==
  ASSUME NEW rail \in {"stripe_test", "sandbox_psp", "internal_ledger", "stub"}, NEW leg,
         Stands(rail, leg)
  PROVE  Refundable(rail, leg) /\ HasRefund(rail)
BY DEF Stands, Live, Refundable, HasRefund, PspRefundable, StripeRefundable, InternalRefundable

(* The other calls.                                                        *)
OtherSame(d) ==
  /\ call'[d] = call[d] /\ payment'[d] = payment[d]
  /\ legs'["source"][d] = legs["source"][d] /\ legs'["target"][d] = legs["target"][d]
  /\ (d \in paid' <=> d \in paid) /\ returned'[d] = returned[d]

(* A call is sound when what belongs to it stays.                          *)
LEMMA OtherSound ==
  ASSUME Continues, NEW d \in Calls, SoundAt(d), OtherSame(d)
  PROVE  SoundAt(d)'
<1>1. call[d] # None => Rail("source", d)' = Rail("source", d)
                          /\ Rail("target", d)' = Rail("target", d)
  BY DEF Continues, Sides
<1> DEFINE x == call[d]  p == payment[d]  ls == legs["source"][d]  lt == legs["target"][d]
           w == d \in paid  n == returned[d]
           rs == Rail("source", d)  rt == Rail("target", d)
           rs2 == Rail("source", d)'  rt2 == Rail("target", d)'
           w2 == d \in paid'
<1>2. Sound(d, x, p, ls, lt, rs, rt, w, n)
  BY DEF SoundAt
<1>3. (x # None => rs2 = rs /\ rt2 = rt) /\ (w2 <=> w) /\ w \in BOOLEAN /\ w2 \in BOOLEAN
  BY <1>1 DEF OtherSame
<1>4. SoundAt(d)' <=> Sound(d, x, p, ls, lt, rs2, rt2, w2, n)
  BY DEF SoundAt, OtherSame
<1> HIDE DEF x, p, ls, lt, w, n, rs, rt, rs2, rt2, w2
<1>5. CASE x = None
  BY <1>2, <1>3, <1>5, <1>4 DEF Sound
<1>6. CASE x # None
  <2>1. rs2 = rs /\ rt2 = rt
    BY <1>3, <1>6
  <2>2. Sound(d, x, p, ls, lt, rs, rt, w2, n)
    BY <1>2, <1>3 DEF Sound
  <2> QED BY <1>4, <2>1, <2>2
<1> QED BY <1>5, <1>6

(* One call moves, and the others are as they were.                        *)
LEMMA OneMoves ==
  ASSUME Continues, OnceInv, NEW c \in Calls, \A d \in Calls \ {c} : OtherSame(d),
         SoundAt(c)', RoutesOnce', IndexOwn', RefundsOnce', Balances'
  PROVE  OnceInv'
<1>1. ASSUME NEW d \in Calls PROVE SoundAt(d)'
  <2>1. CASE d = c
    BY <2>1
  <2>2. CASE d # c
    BY <2>2, OtherSound DEF OnceInv
  <2> QED BY <2>1, <2>2
<1> QED BY <1>1 DEF OnceInv

(* Routes are settled once, when no call begins;                           *)
LEMMA RoutesStay ==
  ASSUME Continues, RoutesOnce, \A d \in Calls : call'[d] # None => call[d] # None
  PROVE  RoutesOnce'
BY DEF Continues, RoutesOnce

(* the index names calls that booked, when it stays;                       *)
LEMMA IndexStays ==
  ASSUME Typed, Continues, IndexOwn, index' = index,
         \A d \in Calls : call[d] # None /\ call[d].at # "proving" => call'[d].at # "proving"
  PROVE  IndexOwn'
<1> SUFFICES ASSUME NEW s \in Outer, NEW r \in Routes, index[s][r] # None
             PROVE  LET d == index[s][r] IN
                    call'[d] # None /\ call'[d].route = r /\ call'[d].at # "proving"
  BY DEF IndexOwn
<1>1. index[s] \in [Routes -> Calls \union {None}]
  BY PartTypes DEF Typed, Outer, Sides
<1>2. index[s][r] \in Calls
  BY <1>1
<1> DEFINE d == index[s][r]
<1>3. call[d] # None /\ call[d].route = r /\ call[d].at # "proving"
  BY DEF IndexOwn
<1> QED BY <1>2, <1>3 DEF Continues

(* refunds are of one payment each, when none begins;                      *)
LEMMA RefundsStay ==
  ASSUME RefundsOnce, refund' = refund,
         \A p \in Calls : payment'[p] # None /\ payment'[p].state = "refunded" =>
           payment[p] # None /\ payment[p].state = "refunded"
  PROVE  RefundsOnce'
BY DEF RefundsOnce

(* the balances are right, when neither they nor the payments change.      *)
LEMMA BalancesStay ==
  ASSUME Balances, UNCHANGED moneyVars, Standing' = Standing
  PROVE  Balances'
BY DEF Balances, GivenBack, moneyVars

(* A leg of its own.                                                       *)
LEMMA BookedOwn ==
  ASSUME Typed, OnceInv, NEW c \in Calls, At(c, "proving"), NEW s \in Outer
  PROVE  Booked(s, c, call[c].route) = c
<1> DEFINE r == call[c].route
<1>1. r \in Routes /\ call[c] # None /\ call[c].at = "proving"
  BY FlightTypes DEF At
<1>2. index[s] \in [Routes -> Calls \union {None}]
  BY PartTypes DEF Typed, Outer, Sides
<1>3. index[s][r] = None
  <2> SUFFICES ASSUME index[s][r] # None PROVE FALSE
    OBVIOUS
  <2> DEFINE d == index[s][r]
  <2>1. d \in Calls /\ call[d] # None /\ call[d].route = r /\ call[d].at # "proving"
    BY <1>1, <1>2 DEF OnceInv, IndexOwn
  <2>2. d = c
    BY <1>1, <2>1 DEF OnceInv, RoutesOnce
  <2> QED BY <1>1, <2>1, <2>2
<1> QED BY <1>3 DEF Booked

(* A rail that settles a leg has the money standing on it, and the legs of *)
(* the other calls stay as they were.                                      *)
LEMMA SettledStands ==
  ASSUME LocalOnly, Typed, OnceInv, NEW c \in Calls, At(c, "proving"), NEW s \in Outer,
         Settles(RailOf(s, call[c].route))
  PROVE  /\ Stands(Rail(s, c), SettledLeg(s, c, call[c].route)[c])
         /\ \A d \in Calls \ {c} : SettledLeg(s, c, call[c].route)[d] = legs[s][d]
<1> DEFINE r == call[c].route
           rail == RailOf(s, r)
           leg == SelfAcked(s, c, r, "settled")
<1>1. Booked(s, c, r) = c /\ r \in Routes /\ legs[s] \in [Calls -> Statuses]
  BY BookedOwn, FlightTypes, PartTypes DEF Typed, Outer, Sides
<1>2. SettledLeg(s, c, r) = [legs[s] EXCEPT ![c] = leg]
  BY <1>1 DEF SettledLeg
<1>3. rail # "stub"
  BY DEF Settles, LocalOnly
<1>4. leg = "settled" \/ (leg = "webhook_acked" /\ TakesWebhooks(rail))
  BY DEF SelfAcked, Acknowledged
<1>5. Stands(rail, leg)
  <2> HIDE DEF rail, leg
  <2> QED BY <1>3, <1>4 DEF Stands, Live, TakesWebhooks
<1> HIDE DEF leg
<1>6. /\ SettledLeg(s, c, r)[c] = leg
      /\ \A d \in Calls \ {c} : SettledLeg(s, c, r)[d] = legs[s][d]
  BY <1>1, <1>2
<1> QED BY <1>5, <1>6 DEF Rail

(* Nothing is settled, refunded or lost.                                   *)
LEMMA IdleOnce ==
  ASSUME Continues, OnceInv, UNCHANGED <<legs, index, call, refund, moneyVars>>,
         \A p \in Calls : payment'[p] = payment[p], Typed
  PROVE  OnceInv'
<1>1. \A d \in Calls : OtherSame(d)
  BY DEF OtherSame, moneyVars
<1>2. \A d \in Calls : SoundAt(d)'
  BY <1>1, OtherSound DEF OnceInv
<1>3. Standing' = Standing
  BY DEF Standing
<1>4. RoutesOnce' /\ IndexOwn'
  BY RoutesStay, IndexStays DEF OnceInv
<1>5. RefundsOnce' /\ Balances'
  BY <1>3, RefundsStay, BalancesStay DEF OnceInv
<1> QED BY <1>2, <1>4, <1>5 DEF OnceInv

(* A call that stays where it is on the rails, or takes its money back.    *)
LEMMA MoveOnce ==
  ASSUME Typed, Continues, OnceInv, NEW c \in Calls, call[c] # None, NEW y \in CallRecord,
         y.at # "proving", call' = [call EXCEPT ![c] = y],
         UNCHANGED <<refund, payment, moneyVars>>, IndexOwn',
         \A s \in Outer, d \in Calls \ {c} : legs'[s][d] = legs[s][d],
         SoundAt(c)'
  PROVE  OnceInv'
<1>1. call'[c] = y /\ \A d \in Calls \ {c} : call'[d] = call[d]
  BY DEF Typed, TypeOK
<1>2. \A d \in Calls \ {c} : OtherSame(d)
  BY <1>1 DEF OtherSame, moneyVars, Outer
<1>3. \A d \in Calls : call'[d] # None => call[d] # None
  BY <1>1
<1>4. RoutesOnce'
  BY <1>3, RoutesStay DEF OnceInv
<1>5. Standing' = Standing
  BY DEF Standing
<1>6. RefundsOnce' /\ Balances'
  BY <1>5, RefundsStay, BalancesStay DEF OnceInv
<1> QED BY <1>2, <1>4, <1>6, OneMoves

(* A settlement begins.                                                    *)
LEMMA BeginOnce ==
  ASSUME Typed, Continues, OnceInv, NEW c \in Calls, NEW r \in Routes, NewRoute(r),
         BeginSettle(c, r)
  PROVE  OnceInv'
<1> DEFINE y == [at |-> "proving", route |-> r, src |-> None, tgt |-> None, acked |-> FALSE]
<1>1. /\ call[c] = None /\ call' = [call EXCEPT ![c] = y]
      /\ UNCHANGED <<railVars, refund, payment, moneyVars>>
  BY DEF BeginSettle
<1>2. y.at = "proving" /\ y.route = r /\ y # None
  <2>1. y \in CallRecord
    BY DEF CallRecord
  <2> QED BY <2>1, FreshNone
<1> HIDE DEF y
<1>3. call'[c] = y /\ \A d \in Calls \ {c} : call'[d] = call[d]
  BY <1>1 DEF Typed, TypeOK
<1>4. \A d \in Calls \ {c} : OtherSame(d)
  BY <1>1, <1>3 DEF OtherSame, moneyVars, railVars
<1>5. SoundAt(c)'
  <2>1. legs["source"][c] = "none" /\ legs["target"][c] = "none" /\ payment[c] = None
        /\ c \notin paid /\ returned[c] = 0
    BY <1>1 DEF OnceInv, SoundAt, Sound
  <2>2. legs'["source"][c] = "none" /\ legs'["target"][c] = "none" /\ payment'[c] = None
        /\ c \notin paid' /\ returned'[c] = 0
    BY <1>1, <2>1 DEF railVars, moneyVars
  <2> QED BY <1>2, <1>3, <2>2 DEF SoundAt, Sound
<1>6. RoutesOnce'
  BY <1>2, <1>3 DEF OnceInv, RoutesOnce, NewRoute
<1>7. IndexOwn'
  BY <1>1, <1>3, IndexStays DEF OnceInv, railVars
<1>8. Standing' = Standing
  BY <1>1 DEF Standing
<1>9. RefundsOnce' /\ Balances'
  BY <1>1, <1>8, RefundsStay, BalancesStay DEF OnceInv
<1> QED BY <1>4, <1>5, <1>6, <1>7, <1>9, OneMoves

(* It ends before a rail is asked.                                         *)
LEMMA FailsOnce ==
  ASSUME Typed, Continues, OnceInv, NEW c \in Calls, ProofFails(c) \/ SourceRefused(c)
  PROVE  OnceInv'
<1> DEFINE y == Ended(call[c])
<1>1. /\ At(c, "proving") /\ UNCHANGED <<railVars, refund, payment, moneyVars>>
      /\ call' = [call EXCEPT ![c] = y]
  BY DEF ProofFails, SourceRefused, Ended, Typed, TypeOK
<1>2. call[c] \in CallRecord /\ call[c] # None /\ call[c].at = "proving"
  BY <1>1, FlightTypes DEF At
<1>3. y \in CallRecord /\ y.at = "answered" /\ y # None
  BY <1>2, EndedCall, FreshNone
<1> HIDE DEF y
<1>4. call'[c] = y /\ \A d \in Calls \ {c} : call'[d] = call[d]
  BY <1>1 DEF Typed, TypeOK
<1>5. legs["source"][c] = "none" /\ legs["target"][c] = "none" /\ payment[c] = None
      /\ c \notin paid /\ returned[c] = 0
  BY <1>2 DEF OnceInv, SoundAt, Sound
<1>6. legs'["source"][c] = "none" /\ legs'["target"][c] = "none" /\ payment'[c] = None
      /\ c \notin paid' /\ returned'[c] = 0
  BY <1>1, <1>5 DEF railVars, moneyVars
<1>7. SoundAt(c)'
  BY <1>3, <1>4, <1>6 DEF SoundAt, Sound, Live
<1>8. IndexOwn'
  BY <1>1, <1>3, <1>4, IndexStays DEF OnceInv, railVars
<1> QED BY <1>1, <1>2, <1>3, <1>7, <1>8, MoveOnce DEF railVars

(* The index after booking.                                                *)
LEMMA IndexedOwn ==
  ASSUME Typed, Continues, OnceInv, NEW c \in Calls, At(c, "proving"),
         NEW sides \in SUBSET Outer, index' = Indexed(sides, c, call[c].route),
         call'[c].at # "proving", \A d \in Calls \ {c} : call'[d] = call[d]
  PROVE  IndexOwn'
<1> DEFINE r == call[c].route
<1>1. r \in Routes /\ call[c] # None
  BY FlightTypes
<1>2. call'[c] # None /\ call'[c].route = r
  BY <1>1 DEF Continues
<1> SUFFICES ASSUME NEW s \in Outer, NEW t \in Routes, index'[s][t] # None
             PROVE  LET d == index'[s][t] IN
                    call'[d] # None /\ call'[d].route = t /\ call'[d].at # "proving"
  BY DEF IndexOwn
<1>3. index[s] \in [Routes -> Calls \union {None}]
  BY PartTypes DEF Typed, Outer, Sides
<1>4. index'[s] = index[s] \/ index'[s] = [index[s] EXCEPT ![r] = c]
  <2>1. index' = Indexed(sides, c, r)
    OBVIOUS
  <2>2. Booked(s, c, r) = c
    BY BookedOwn
  <2> HIDE DEF r
  <2>3. index'[s] = IF s \in sides /\ Durable(RailOf(s, r))
                    THEN [index[s] EXCEPT ![r] = Booked(s, c, r)] ELSE index[s]
    BY <1>1, <2>1, IndexedSide
  <2> QED BY <2>2, <2>3
<1>5. CASE index'[s][t] = index[s][t]
  <2> DEFINE d == index[s][t]
  <2>1. d \in Calls
    BY <1>3, <1>5
  <2>2. call[d] # None /\ call[d].route = t /\ call[d].at # "proving"
    BY <1>5 DEF OnceInv, IndexOwn
  <2>3. d # c
    BY <2>2 DEF At
  <2> QED BY <1>5, <2>1, <2>2, <2>3
<1>6. CASE index'[s][t] # index[s][t]
  <2>1. t = r /\ index'[s][t] = c
    BY <1>1, <1>3, <1>4, <1>6
  <2> QED BY <1>2, <2>1
<1> QED BY <1>5, <1>6

(* Both legs settle in one stretch.                                        *)
LEMMA LocallyOnce ==
  ASSUME LocalOnly, Typed, Continues, OnceInv, NEW c \in Calls, SettleLocally(c)
  PROVE  OnceInv'
<1> DEFINE r == call[c].route
           acked == RailOf("target", r) = "stub" \/ legs'["target"][c] # "settled"
           y == Moved(call[c], "chain", c, c, acked)
<1>1. /\ At(c, "proving")
      /\ Settles(RailOf("source", r)) /\ Settles(RailOf("target", r))
      /\ UNCHANGED <<refund, payment, moneyVars>>
      /\ legs' = [source |-> SettledLeg("source", c, r), fx |-> FxLeg(c, r),
                  target |-> IF Remote(r) THEN legs["target"]
                             ELSE SettledLeg("target", c, r)]
      /\ index' = Indexed({"source", "target"}, c, r)
  BY DEF SettleLocally
<1>2. call[c] # None /\ call[c] \in CallRecord /\ "source" \in Outer /\ "target" \in Outer
  BY <1>1, FlightTypes DEF Outer
<1>3. Booked("source", c, r) = c /\ Booked("target", c, r) = c /\ ~Remote(r)
  BY <1>1, <1>2, BookedOwn DEF Remote, LocalOnly
<1>4. call' = [call EXCEPT ![c] = y]
  BY <1>2, <1>3 DEF SettleLocally, Moved, Typed, TypeOK
<1>5. acked \in BOOLEAN
  OBVIOUS
<1> HIDE DEF acked
<1>6. y \in CallRecord /\ y.at = "chain" /\ y.src = c /\ y.tgt = c /\ y # None
  <2> DEFINE x == call[c]
  <2>1. x \in CallRecord
    BY <1>2
  <2>2. y = Moved(x, "chain", c, c, acked)
    OBVIOUS
  <2> HIDE DEF x, y
  <2>3. /\ Moved(x, "chain", c, c, acked) \in CallRecord
        /\ Moved(x, "chain", c, c, acked).at = "chain"
        /\ Moved(x, "chain", c, c, acked).src = c
        /\ Moved(x, "chain", c, c, acked).tgt = c
    BY <2>1, <1>5, MovedCall
  <2> QED BY <2>2, <2>3, FreshNone
<1> HIDE DEF y
<1>7. call'[c] = y /\ \A d \in Calls \ {c} : call'[d] = call[d]
  BY <1>4 DEF Typed, TypeOK
<1>8. legs'["source"] = SettledLeg("source", c, r) /\ legs'["target"] = SettledLeg("target", c, r)
  <2> HIDE DEF r
  <2> QED BY <1>1, <1>3
<1>9. /\ Stands(Rail("source", c), legs'["source"][c])
      /\ Stands(Rail("target", c), legs'["target"][c])
      /\ \A s \in Outer, d \in Calls \ {c} : legs'[s][d] = legs[s][d]
  BY <1>1, <1>2, <1>8, SettledStands DEF Outer
<1>10. Rail("source", c)' = Rail("source", c) /\ Rail("target", c)' = Rail("target", c)
  BY <1>2 DEF Continues, Sides
<1>11. SoundAt(c)'
  <2>1. payment[c] = None /\ c \notin paid /\ returned[c] = 0
    BY <1>1 DEF OnceInv, SoundAt, Sound, At
  <2>2. payment'[c] = None /\ c \notin paid' /\ returned'[c] = 0
    BY <1>1, <2>1 DEF moneyVars
  <2> QED BY <1>6, <1>7, <1>9, <1>10, <2>2 DEF SoundAt, Sound
<1>12. IndexOwn'
  <2>1. {"source", "target"} \in SUBSET Outer
    BY DEF Outer
  <2> QED BY <1>1, <1>6, <1>7, <2>1, IndexedOwn
<1> QED BY <1>1, <1>2, <1>4, <1>6, <1>9, <1>11, <1>12, MoveOnce

(* Nothing waits for Stripe.                                               *)
LEMMA NothingRemote ==
  ASSUME LocalOnly, Typed, OnceInv
  PROVE  /\ \A c \in Calls : ~At(c, "target")
         /\ \A r : ~Remote(r)
         /\ \A f \in Refunds : ~(refund[f] # None /\ refund[f].at = "target")
         /\ ~(checks + crashes < MaxUpsets)
<1>1. checks \in Nat /\ crashes \in Nat
  BY DEF Typed, TypeOK
<1>2. ~(checks + crashes < MaxUpsets)
  BY <1>1 DEF LocalOnly
<1>3. ASSUME NEW c \in Calls PROVE ~At(c, "target")
  BY DEF OnceInv, SoundAt, Sound, At
<1>4. \A f \in Refunds : ~(refund[f] # None /\ refund[f].at = "target")
  BY DEF OnceInv, RefundsOnce
<1> QED BY <1>2, <1>3, <1>4 DEF Remote, LocalOnly

(* The target refuses: the source has settled and is undone.               *)
LEMMA TargetRefusedOnce ==
  ASSUME LocalOnly, Typed, Continues, OnceInv, NEW c \in Calls, TargetRefused(c)
  PROVE  OnceInv'
<1> DEFINE r == call[c].route
           rail == RailOf("source", r)
           y == Ended(call[c])
<1>1. /\ At(c, "proving") /\ Settles(rail)
      /\ UNCHANGED <<refund, payment, moneyVars>>
      /\ index' = Indexed({"source"}, c, r)
      /\ call' = [call EXCEPT ![c] = y]
  BY DEF TargetRefused, Ended, Typed, TypeOK
<1>2. /\ call[c] \in CallRecord /\ call[c] # None /\ call[c].at = "proving" /\ r \in Routes
      /\ "source" \in Outer /\ "target" \in Outer
  BY <1>1, FlightTypes DEF At, Outer
<1>3. y \in CallRecord /\ y.at = "answered" /\ y # None
  BY <1>2, EndedCall, FreshNone
<1> HIDE DEF y
<1>4. call'[c] = y /\ \A d \in Calls \ {c} : call'[d] = call[d]
  BY <1>1 DEF Typed, TypeOK
<1>5. Booked("source", c, r) = c
  BY <1>1, <1>2, BookedOwn
<1>6. Refundable(rail, "settled")
  <2>1. rail \in {"stripe_test", "sandbox_psp", "internal_ledger", "stub"}
    BY <1>2, OuterRails
  <2>2. Stands(rail, "settled")
    BY <1>1 DEF Stands, Live, Settles, LocalOnly
  <2> HIDE DEF rail
  <2> QED BY <2>1, <2>2, StandsRefundable
<1>7. /\ legs'["source"][c] = "refunded" /\ legs'["target"] = legs["target"]
      /\ \A d \in Calls \ {c} : legs'["source"][d] = legs["source"][d]
  <2>1. legs' = [legs EXCEPT !["source"][c] = "refunded", !["fx"] = FxLeg(c, r)]
    BY <1>5, <1>6 DEF TargetRefused
  <2>2. legs \in Legs
    BY DEF Typed, TypeOK
  <2> DEFINE fx == FxLeg(c, r)
  <2> HIDE DEF fx
  <2>3. legs' = [legs EXCEPT !["source"][c] = "refunded", !["fx"] = fx]
    BY <2>1 DEF fx
  <2> QED BY <2>2, <2>3 DEF Legs, Sides
<1>8. legs["target"][c] = "none" /\ payment[c] = None /\ c \notin paid /\ returned[c] = 0
  BY <1>2 DEF OnceInv, SoundAt, Sound
<1>9. legs'["target"][c] = "none" /\ payment'[c] = None /\ c \notin paid' /\ returned'[c] = 0
  BY <1>1, <1>7, <1>8 DEF moneyVars
<1>10. SoundAt(c)'
  BY <1>3, <1>4, <1>7, <1>9 DEF SoundAt, Sound, Live
<1>11. IndexOwn'
  <2>1. {"source"} \in SUBSET Outer
    BY DEF Outer
  <2> QED BY <1>1, <1>3, <1>4, <2>1, IndexedOwn
<1> QED BY <1>1, <1>2, <1>3, <1>7, <1>10, <1>11, MoveOnce DEF Outer

(* The testnet fails, and both legs are undone.                            *)
LEMMA ChainFailsOnce ==
  ASSUME LocalOnly, Typed, Continues, OnceInv, NEW c \in Calls, ChainFails(c)
  PROVE  OnceInv'
<1> DEFINE y == Ended(call[c])
           src == Undo("source", c, call[c].src)
           tgt == Undo("target", c, call[c].tgt)
<1>1. /\ At(c, "chain")
      /\ UNCHANGED <<index, refund, payment, moneyVars>>
      /\ call' = [call EXCEPT ![c] = y]
  BY DEF ChainFails, Ended, Typed, TypeOK
<1>2. legs' = [legs EXCEPT !["target"] = tgt, !["source"] = src]
  BY NothingRemote DEF ChainFails
<1>3. call[c] \in CallRecord /\ call[c] # None /\ call[c].at = "chain"
      /\ "source" \in Outer /\ "target" \in Outer
  BY <1>1, FlightTypes DEF At, Outer
<1>4. y \in CallRecord /\ y.at = "answered" /\ y # None
  BY <1>3, EndedCall, FreshNone
<1> HIDE DEF y
<1>5. call'[c] = y /\ \A d \in Calls \ {c} : call'[d] = call[d]
  BY <1>1 DEF Typed, TypeOK
<1>6. /\ call[c].src = c /\ call[c].tgt = c /\ payment[c] = None /\ c \notin paid
      /\ returned[c] = 0
      /\ Stands(Rail("source", c), legs["source"][c])
      /\ Stands(Rail("target", c), legs["target"][c])
  BY <1>3 DEF OnceInv, SoundAt, Sound
<1>7. /\ legs["source"] \in [Calls -> Statuses] /\ legs["target"] \in [Calls -> Statuses]
      /\ legs \in Legs
  BY PartTypes DEF Typed, TypeOK, Sides
<1>8. ASSUME NEW s \in Outer, Stands(Rail(s, c), legs[s][c]), legs[s] \in [Calls -> Statuses]
      PROVE  /\ Undo(s, c, c)[c] = "refunded"
             /\ \A d \in Calls \ {c} : Undo(s, c, c)[d] = legs[s][d]
  <2>1. Rail(s, c) \in {"stripe_test", "sandbox_psp", "internal_ledger", "stub"}
    BY OuterRails DEF Rail
  <2>2. Refundable(Rail(s, c), legs[s][c])
    BY <1>8, <2>1, StandsRefundable
  <2> QED BY <1>8, <2>2 DEF Undo, Rail
<1>9. /\ src[c] = "refunded" /\ \A d \in Calls \ {c} : src[d] = legs["source"][d]
      /\ tgt[c] = "refunded" /\ \A d \in Calls \ {c} : tgt[d] = legs["target"][d]
  BY <1>3, <1>6, <1>7, <1>8
<1> HIDE DEF src, tgt
<1>10. legs'["source"] = src /\ legs'["target"] = tgt
  BY <1>2, <1>7 DEF Legs, Sides
<1>11. SoundAt(c)'
  <2>1. payment'[c] = None /\ c \notin paid' /\ returned'[c] = 0
    BY <1>1, <1>6 DEF moneyVars
  <2> QED BY <1>4, <1>5, <1>9, <1>10, <2>1 DEF SoundAt, Sound, Live
<1>12. IndexOwn'
  BY <1>1, <1>4, <1>5, IndexStays DEF OnceInv
<1> QED BY <1>1, <1>3, <1>4, <1>9, <1>10, <1>11, <1>12, MoveOnce DEF Outer

(* An event acknowledges money that stands, and nothing else.              *)
LEMMA EventOnce ==
  ASSUME Typed, Continues, OnceInv, NEW side \in Outer, NEW c \in Calls,
         legs[side][c] # "refunded", Webhook(side, c)
  PROVE  OnceInv'
<1> DEFINE now == Acknowledged(legs[side][c])
<1>1. /\ call[c] # None /\ TakesWebhooks(RailOf(side, call[c].route))
      /\ UNCHANGED <<index, call, refund, payment, moneyVars>>
      /\ legs' = [legs EXCEPT ![side][c] = now]
  BY DEF Webhook, Typed, TypeOK
<1>2. legs \in Legs /\ side \in Sides /\ legs[side] \in [Calls -> Statuses]
  BY PartTypes DEF Typed, TypeOK, Outer, Sides
<1>3. now = legs[side][c] \/ (legs[side][c] = "settled" /\ now = "webhook_acked")
  <2>1. legs[side][c] \in Statuses
    BY <1>2
  <2> QED BY <2>1 DEF Acknowledged, Statuses
<1> HIDE DEF now
<1>4. /\ legs'[side][c] = now /\ \A d \in Calls \ {c} : legs'[side][d] = legs[side][d]
      /\ \A s \in Sides \ {side} : legs'[s] = legs[s]
  BY <1>1, <1>2 DEF Legs
<1>5. \A d \in Calls \ {c} : OtherSame(d)
  BY <1>1, <1>4 DEF OtherSame, moneyVars, Sides, Outer
<1>6. SoundAt(c)'
  <2>1. SoundAt(c)
    BY DEF OnceInv
  <2>2. Rail("source", c)' = Rail("source", c) /\ Rail("target", c)' = Rail("target", c)
    BY <1>1 DEF Continues, Sides
  <2> DEFINE x == call[c]  p == payment[c]  rs == Rail("source", c)  rt == Rail("target", c)
             w == c \in paid  n == returned[c]
             ls == legs["source"][c]  lt == legs["target"][c]
             us == legs'["source"][c]  ut == legs'["target"][c]
  <2>3. Sound(c, x, p, ls, lt, rs, rt, w, n)
    BY <2>1 DEF SoundAt
  <2>4. /\ us = ls \/ (ls = "settled" /\ us = "webhook_acked" /\ rs # "internal_ledger")
        /\ ut = lt \/ (lt = "settled" /\ ut = "webhook_acked" /\ rt # "internal_ledger")
    BY <1>1, <1>3, <1>4 DEF Outer, Sides, Rail, TakesWebhooks
  <2>5. SoundAt(c)' <=> Sound(c, x, p, us, ut, rs, rt, w, n)
    BY <1>1, <2>2 DEF SoundAt, moneyVars
  <2>6. w \in BOOLEAN
    OBVIOUS
  <2> HIDE DEF x, p, ls, lt, us, ut, w, n, rs, rt
  <2>7. Sound(c, x, p, us, ut, rs, rt, w, n)
    BY <2>3, <2>4, <2>6 DEF Sound, Stands, Live
  <2> QED BY <2>5, <2>7
<1>7. Standing' = Standing
  BY <1>1 DEF Standing
<1>8. RoutesOnce' /\ IndexOwn' /\ RefundsOnce' /\ Balances'
  BY <1>1, <1>7, RoutesStay, IndexStays, RefundsStay, BalancesStay DEF OnceInv
<1> QED BY <1>5, <1>6, <1>8, OneMoves

(* One payment more that stands.                                           *)
LEMMA BalancesApplied ==
  ASSUME Typed, Balances, NEW c \in Calls, c \notin Standing, c \notin paid,
         Standing' = Standing \union {c}, returned' = returned,
         receiver' = receiver + 1,
         sender' = IF sender > 0 THEN sender - 1 ELSE sender,
         paid' = IF sender > 0 THEN paid \union {c} ELSE paid
  PROVE  Balances'
<1>1. /\ IsFiniteSet(Standing \union {c}) /\ IsFiniteSet(paid \union {c})
      /\ Cardinality(Standing \union {c}) = Cardinality(Standing) + 1
      /\ Cardinality(paid \union {c}) = Cardinality(paid) + 1
      /\ Cardinality(paid) \in Nat /\ Cardinality(Standing) \in Nat
      /\ Cardinality(GivenBack) \in Nat
  BY FS_AddElement, FS_CardinalityType DEF Balances
<1>2. GivenBack' = GivenBack
  BY DEF GivenBack
<1>3. sender \in Nat /\ receiver \in Nat /\ Opening \in Nat
  BY TypesOfConstants DEF Typed, TypeOK
<1>4. receiver' = Cardinality(Standing')
  BY <1>1 DEF Balances
<1>5. sender' + Cardinality(paid') = Opening + Cardinality(GivenBack')
  <2>1. sender + Cardinality(paid) = Opening + Cardinality(GivenBack)
    BY DEF Balances
  <2>2. CASE sender > 0
    <3>1. sender' = sender - 1 /\ Cardinality(paid') = Cardinality(paid) + 1
      BY <1>1, <2>2
    <3> QED BY <1>1, <1>2, <1>3, <2>1, <3>1
  <2>3. CASE ~(sender > 0)
    BY <1>2, <2>1, <2>3
  <2> QED BY <2>2, <2>3
<1> QED BY <1>1, <1>2, <1>4, <1>5 DEF Balances

(* One payment is given back.                                              *)
LEMMA BalancesReturned ==
  ASSUME Typed, Balances, NEW p \in Calls, p \in Standing, returned[p] = 0,
         Standing' = Standing \ {p}, GivenBack' = GivenBack \union {p}, paid' = paid,
         sender' = sender + 1, receiver' = IF receiver > 0 THEN receiver - 1 ELSE 0
  PROVE  Balances'
<1>1. p \notin GivenBack
  BY DEF GivenBack
<1>2. /\ IsFiniteSet(Standing \ {p}) /\ IsFiniteSet(GivenBack \union {p})
      /\ Cardinality(Standing \ {p}) = Cardinality(Standing) - 1
      /\ Cardinality(GivenBack \union {p}) = Cardinality(GivenBack) + 1
      /\ Cardinality(paid) \in Nat /\ Cardinality(Standing) \in Nat
      /\ Cardinality(Standing \ {p}) \in Nat
      /\ Cardinality(GivenBack) \in Nat
  <2>1. IsFiniteSet(Standing) /\ IsFiniteSet(GivenBack) /\ IsFiniteSet(paid)
    BY DEF Balances
  <2>2. IsFiniteSet(Standing \ {p}) /\ Cardinality(Standing \ {p}) = Cardinality(Standing) - 1
    BY <2>1, FS_RemoveElement
  <2>3. /\ IsFiniteSet(GivenBack \union {p})
        /\ Cardinality(GivenBack \union {p}) = Cardinality(GivenBack) + 1
    BY <1>1, <2>1, FS_AddElement
  <2> QED BY <2>1, <2>2, <2>3, FS_CardinalityType
<1>3. sender \in Nat /\ receiver \in Nat /\ Opening \in Nat
  BY TypesOfConstants DEF Typed, TypeOK
<1>4. receiver' = Cardinality(Standing')
  <2>1. receiver = Cardinality(Standing)
    BY DEF Balances
  <2> QED BY <1>2, <2>1
<1>5. sender' + Cardinality(paid') = Opening + Cardinality(GivenBack')
  <2>1. sender + Cardinality(paid) = Opening + Cardinality(GivenBack)
    BY DEF Balances
  <2> QED BY <1>2, <1>3, <2>1
<1> QED BY <1>2, <1>4, <1>5 DEF Balances

(* The payment is recorded.                                                *)
LEMMA ApplyOnce ==
  ASSUME Typed, Continues, OnceInv, NEW c \in Calls, NEW witnessed \in BOOLEAN,
         Apply(c, witnessed)
  PROVE  OnceInv'
<1> DEFINE r == call[c].route
           gaps == ApplyGaps(c, witnessed)
           state == IF gaps = {} THEN "reconciled" ELSE "settled"
           p == [state |-> state, route |-> r, src |-> call[c].src, tgt |-> call[c].tgt,
                 gaps |-> gaps]
           y == Ended(call[c])
<1>1. /\ At(c, "chain")
      /\ sender' = IF sender > 0 THEN sender - 1 ELSE sender
      /\ paid' = IF sender > 0 THEN paid \union {c} ELSE paid
      /\ receiver' = receiver + 1
      /\ UNCHANGED <<railVars, refund, returned>>
      /\ call' = [call EXCEPT ![c] = y]
      /\ payment' = [payment EXCEPT ![c] = p]
  BY DEF Apply, Ended, Typed, TypeOK
<1>2. call[c] \in CallRecord /\ call[c] # None /\ call[c].at = "chain" /\ r \in Routes
      /\ call[c].src \in Calls /\ call[c].tgt \in Calls
  BY <1>1, FlightTypes DEF At
<1>3. /\ call[c].src = c /\ call[c].tgt = c /\ payment[c] = None /\ c \notin paid
      /\ returned[c] = 0
      /\ Stands(Rail("source", c), legs["source"][c])
      /\ Stands(Rail("target", c), legs["target"][c])
  BY <1>2 DEF OnceInv, SoundAt, Sound
<1>4. y \in CallRecord /\ y.at = "answered" /\ y # None /\ y.route = r
  BY <1>2, EndedCall, FreshNone
<1>5. gaps \subseteq Gaps /\ state \in {"settled", "reconciled"}
  BY DEF ApplyGaps, Gaps
<1> HIDE DEF gaps, state, y
<1>6. /\ p # None /\ p.src = c /\ p.tgt = c /\ p.route = r
      /\ p.state \in {"settled", "reconciled"}
  <2>1. p \in Payment
    BY <1>2, <1>5 DEF Payment
  <2>2. p # None
    BY <2>1, FreshNone
  <2> QED BY <1>3, <1>5, <2>2
<1> HIDE DEF p
<1>7. /\ call'[c] = y /\ \A d \in Calls \ {c} : call'[d] = call[d]
      /\ payment'[c] = p /\ \A d \in Calls \ {c} : payment'[d] = payment[d]
  BY <1>1 DEF Typed, TypeOK
<1>8. \A d \in Calls \ {c} : OtherSame(d)
  BY <1>1, <1>7 DEF OtherSame, railVars
<1>9. SoundAt(c)'
  <2>1. /\ Rail("source", c)' = Rail("source", c) /\ Rail("target", c)' = Rail("target", c)
        /\ legs'["source"][c] = legs["source"][c] /\ legs'["target"][c] = legs["target"][c]
        /\ returned'[c] = 0
    BY <1>1, <1>2, <1>3 DEF Continues, Sides, railVars
  <2> QED BY <1>3, <1>4, <1>6, <1>7, <2>1 DEF SoundAt, Sound
<1>10. Balances'
  <2>1. c \notin Standing /\ Standing' = Standing \union {c}
    BY <1>3, <1>6, <1>7 DEF Standing
  <2> QED BY <1>1, <1>3, <2>1, BalancesApplied DEF OnceInv
<1>11. RoutesOnce' /\ IndexOwn' /\ RefundsOnce'
  <2>1. \A d \in Calls : call'[d] # None => call[d] # None
    BY <1>2, <1>7
  <2>2. \A d \in Calls : call[d] # None /\ call[d].at # "proving" => call'[d].at # "proving"
    BY <1>4, <1>7
  <2>3. \A q \in Calls : payment'[q] # None /\ payment'[q].state = "refunded" =>
          payment[q] # None /\ payment[q].state = "refunded"
    BY <1>6, <1>7
  <2> QED BY <1>1, <2>1, <2>2, <2>3, RoutesStay, IndexStays, RefundsStay DEF OnceInv, railVars
<1> QED BY <1>8, <1>9, <1>10, <1>11, OneMoves

(* What a payment in another state keeps.                                  *)
Restating(x, z, state) ==
  z # None /\ z.route = x.route /\ z.tgt = x.tgt /\ z.src = x.src /\ z.state = state

(* Its legs, its call and its route stay.                                  *)
LEMMA StatedKeeps ==
  ASSUME NEW x \in Payment, NEW gaps \in SUBSET Gaps,
         NEW state \in {"settled", "reconciled", "reversal_pending", "refunded",
                        "manual_review"}
  PROVE  Restating(x, Stated(x, state, gaps), state)
<1>1. Stated(x, state, gaps) \in Payment
  BY StatedPayment
<1>2. Stated(x, state, gaps) # None
  BY <1>1, FreshNone
<1>3. /\ Stated(x, state, gaps).route = x.route /\ Stated(x, state, gaps).tgt = x.tgt
      /\ Stated(x, state, gaps).src = x.src /\ Stated(x, state, gaps).state = state
  BY DEF Stated, Payment
<1> QED BY <1>2, <1>3 DEF Restating

(* The payment is given back: the target is always refundable.             *)
LEMMA RefundOnce ==
  ASSUME LocalOnly, Typed, Continues, OnceInv, NEW f \in Refunds, NEW p \in Calls, NewRefund(p),
         RefundLocally(f, p)
  PROVE  OnceInv'
<1> DEFINE y == [at |-> "answered", pay |-> p]
           z == Stated(payment[p], "refunded", {})
           rs == Rail("source", p)
           rt == Rail("target", p)
<1>1. /\ payment[p] # None /\ payment[p] \in Payment /\ call[p] # None
      /\ UNCHANGED <<index, call>>
      /\ refund' = [refund EXCEPT ![f] = y]
  BY PartTypes DEF RefundLocally, Typed, PaymentsNamed
<1>2. payment[p].state # "refunded"
  BY <1>1 DEF OnceInv, RefundsOnce, NewRefund
<1>3. /\ payment[p].src = p /\ payment[p].tgt = p /\ payment[p].route = call[p].route
      /\ Stands(rs, legs["source"][p]) /\ Stands(rt, legs["target"][p]) /\ returned[p] = 0
      /\ call[p].at = "answered"
  BY <1>1, <1>2 DEF OnceInv, SoundAt, Sound
<1>4. /\ rs = RailOfPayment("source", p) /\ rt = RailOfPayment("target", p)
      /\ rs \in {"stripe_test", "sandbox_psp", "internal_ledger", "stub"}
      /\ rt \in {"stripe_test", "sandbox_psp", "internal_ledger", "stub"}
  BY <1>3, OuterRails DEF Rail, RailOfPayment, Outer
<1>5. /\ Refundable(rs, legs["source"][p]) /\ Refundable(rt, legs["target"][p])
      /\ HasRefund(rt)
  <2> HIDE DEF rs, rt
  <2> QED BY <1>3, <1>4, StandsRefundable
<1>6. Refunded(p)
  BY <1>3, <1>4, <1>5 DEF RefundLocally, TargetRefundable
<1>7. /\ payment' = [payment EXCEPT ![p] = z] /\ paid' = paid
      /\ returned' = [returned EXCEPT ![p] = @ + 1] /\ sender' = sender + 1
      /\ receiver' = IF receiver > 0 THEN receiver - 1 ELSE 0
  BY <1>6 DEF Refunded, Reverse, Stated, Typed, TypeOK
<1>8. z # None /\ z.route = payment[p].route /\ z.tgt = p /\ z.src = p /\ z.state = "refunded"
  <2> DEFINE x == payment[p]
  <2>1. x \in Payment /\ {} \in SUBSET Gaps /\ z = Stated(x, "refunded", {})
    BY <1>1
  <2> HIDE DEF x, z
  <2>2. Restating(x, z, "refunded")
    BY <2>1, StatedKeeps
  <2>3. x.src = p /\ x.tgt = p /\ x.route = payment[p].route
    BY <1>3 DEF x
  <2> QED BY <2>2, <2>3 DEF Restating
<1> HIDE DEF z
<1>9. /\ legs'["source"][p] = "refunded" /\ legs'["target"][p] = "refunded"
      /\ \A d \in Calls \ {p} : /\ legs'["source"][d] = legs["source"][d]
                                /\ legs'["target"][d] = legs["target"][d]
  <2> DEFINE fx == IF Refundable("mock_fx", legs["fx"][p]) THEN "refunded" ELSE legs["fx"][p]
  <2>1. legs' = [legs EXCEPT !["target"][p] = "refunded", !["fx"][p] = fx,
                             !["source"][p] = "refunded"]
    BY <1>3, <1>4, <1>5, <1>6 DEF Refunded
  <2>2. legs \in Legs
    BY DEF Typed, TypeOK
  <2> HIDE DEF fx
  <2> QED BY <2>1, <2>2 DEF Legs, Sides
<1>10. /\ payment'[p] = z /\ \A d \in Calls \ {p} : payment'[d] = payment[d]
       /\ returned'[p] = 1 /\ \A d \in Calls \ {p} : returned'[d] = returned[d]
  BY <1>3, <1>7 DEF Typed, TypeOK
<1>11. \A d \in Calls \ {p} : OtherSame(d)
  BY <1>1, <1>7, <1>9, <1>10 DEF OtherSame
<1>12. SoundAt(p)'
  BY <1>1, <1>3, <1>8, <1>9, <1>10 DEF SoundAt, Sound, Live
<1>13. Balances'
  <2>1. p \in Standing /\ Standing' = Standing \ {p}
    BY <1>1, <1>2, <1>8, <1>10 DEF Standing
  <2>2. GivenBack' = GivenBack \union {p}
    BY <1>10 DEF GivenBack
  <2> QED BY <1>3, <1>7, <2>1, <2>2, BalancesReturned DEF OnceInv
<1>14. RefundsOnce'
  <2>1. y.at = "answered" /\ y.pay = p /\ y # None
    <3>1. y \in RefundRecord
      BY DEF RefundRecord
    <3> QED BY <3>1, FreshNone
  <2> HIDE DEF y
  <2>2. refund'[f] = y /\ \A g \in Refunds \ {f} : refund'[g] = refund[g]
    BY <1>1 DEF Typed, TypeOK
  <2>3. \A g \in Refunds : refund'[g] # None => refund'[g].at = "answered"
    BY <2>1, <2>2 DEF OnceInv, RefundsOnce
  <2>4. ASSUME NEW q \in Calls, payment'[q] # None, payment'[q].state = "refunded"
        PROVE  \E g \in Refunds : refund'[g] # None /\ refund'[g].pay = q
    <3>1. CASE q = p
      BY <2>1, <2>2, <3>1
    <3>2. CASE q # p
      <4>1. PICK g \in Refunds : refund[g] # None /\ refund[g].pay = q
        BY <1>10, <2>4, <3>2 DEF OnceInv, RefundsOnce
      <4>2. g # f
        BY <4>1 DEF RefundLocally
      <4> QED BY <2>2, <4>1, <4>2
    <3> QED BY <3>1, <3>2
  <2> QED BY <2>3, <2>4 DEF RefundsOnce
<1>15. RoutesOnce' /\ IndexOwn'
  BY <1>1, RoutesStay, IndexStays DEF OnceInv
<1> QED BY <1>11, <1>12, <1>13, <1>14, <1>15, OneMoves

(* The gaps are looked at again.                                           *)
LEMMA ReconcileOnce ==
  ASSUME Typed, Continues, OnceInv, NEW p \in Calls, Reconcile(p)
  PROVE  OnceInv'
<1> DEFINE gaps == StatusGaps(RailOfPayment("target", p), legs["target"][payment[p].tgt])
           state == IF gaps = {} /\ payment[p].state # "refunded" THEN "reconciled"
                    ELSE payment[p].state
           z == Stated(payment[p], state, gaps)
<1>1. /\ payment[p] # None /\ payment[p] \in Payment /\ call[p] # None
      /\ UNCHANGED <<railVars, call, refund, moneyVars>>
      /\ payment' = [payment EXCEPT ![p] = z]
  <2>1. /\ payment[p] # None /\ payment[p] \in Payment
        /\ UNCHANGED <<railVars, call, refund, moneyVars>>
    BY PartTypes DEF Reconcile, Typed
  <2>2. call[p] # None
    BY <2>1 DEF Typed, PaymentsNamed
  <2>3. payment' = [payment EXCEPT ![p] = z]
    BY <2>1 DEF Reconcile, Stated, Typed, TypeOK, Payment
  <2> QED BY <2>1, <2>2, <2>3
<1>2. gaps \in SUBSET Gaps
  BY DEF StatusGaps, Gaps
<1>3. SoundAt(p)
  BY DEF OnceInv
<1>4. payment[p].state \in {"settled", "reconciled", "refunded"}
  BY <1>1, <1>3 DEF SoundAt, Sound
<1>5. /\ state \in {"settled", "reconciled", "refunded"}
      /\ state = "refunded" <=> payment[p].state = "refunded"
  BY <1>4
<1> HIDE DEF gaps, state
<1>6. z # None /\ z.route = payment[p].route /\ z.tgt = payment[p].tgt
      /\ z.src = payment[p].src /\ z.state = state
  <2> DEFINE x == payment[p]
  <2>1. x \in Payment /\ gaps \in SUBSET Gaps /\ z = Stated(x, state, gaps)
    BY <1>1, <1>2
  <2> HIDE DEF x, z
  <2>2. Restating(x, z, state)
    BY <1>5, <2>1, StatedKeeps
  <2> QED BY <2>2 DEF Restating, x
<1> HIDE DEF z
<1>7. payment'[p] = z /\ \A d \in Calls \ {p} : payment'[d] = payment[d]
  BY <1>1 DEF Typed, TypeOK
<1>8. \A d \in Calls \ {p} : OtherSame(d)
  BY <1>1, <1>7 DEF OtherSame, railVars, moneyVars
<1>9. SoundAt(p)'
  <2>1. /\ Rail("source", p)' = Rail("source", p) /\ Rail("target", p)' = Rail("target", p)
        /\ legs'["source"][p] = legs["source"][p] /\ legs'["target"][p] = legs["target"][p]
        /\ returned'[p] = returned[p] /\ call'[p] = call[p]
    BY <1>1 DEF Continues, Sides, railVars, moneyVars
  <2> QED BY <1>1, <1>3, <1>5, <1>6, <1>7, <2>1 DEF SoundAt, Sound
<1>10. Standing' = Standing
  BY <1>1, <1>5, <1>6, <1>7 DEF Standing
<1>11. \A q \in Calls : payment'[q] # None /\ payment'[q].state = "refunded" =>
         payment[q] # None /\ payment[q].state = "refunded"
  BY <1>1, <1>5, <1>6, <1>7
<1>12. RoutesOnce' /\ IndexOwn' /\ RefundsOnce' /\ Balances'
  BY <1>1, <1>10, <1>11, RoutesStay, IndexStays, RefundsStay, BalancesStay DEF OnceInv, railVars
<1> QED BY <1>8, <1>9, <1>12, OneMoves

(* The steps are steps of the platform.                                    *)
LEMMA OnceIsNext == [OnceNext]_vars => [Next]_vars
<1> SUFFICES ASSUME OnceNext PROVE Next
  OBVIOUS
<1>1. CASE OtherStep
  BY <1>1 DEF Next
<1>2. CASE \E c \in Calls, r \in Routes : NewRoute(r) /\ BeginSettle(c, r)
  BY <1>2 DEF Next
<1>3. CASE \E f \in Refunds, p \in Calls : NewRefund(p) /\ (RefundLocally(f, p) \/ AskRefund(f, p))
  BY <1>3 DEF Next
<1>4. CASE \E side \in {"source", "target"}, c \in Calls :
             legs[side][c] # "refunded" /\ Webhook(side, c)
  BY <1>4 DEF Next
<1> QED BY <1>1, <1>2, <1>3, <1>4 DEF OnceNext

(* The first state.                                                        *)
LEMMA InitOnce == Init => OnceInv
<1> SUFFICES ASSUME Init PROVE OnceInv
  OBVIOUS
<1>1. /\ \A c \in Calls : call[c] = None /\ payment[c] = None /\ returned[c] = 0
           /\ legs["source"][c] = "none" /\ legs["target"][c] = "none"
      /\ \A s \in Sides, r \in Routes : index[s][r] = None
      /\ \A f \in Refunds : refund[f] = None
      /\ paid = {} /\ receiver = 0 /\ sender = Opening
  BY DEF Init, Sides
<1>2. \A c \in Calls : SoundAt(c)
  BY <1>1 DEF SoundAt, Sound
<1>3. RoutesOnce /\ IndexOwn /\ RefundsOnce
  BY <1>1 DEF RoutesOnce, IndexOwn, RefundsOnce, Outer, Sides
<1>4. Standing = {} /\ GivenBack = {}
  BY <1>1 DEF Standing, GivenBack
<1>5. Balances
  BY <1>1, <1>4, FS_EmptySet, TypesOfConstants DEF Balances
<1> QED BY <1>2, <1>3, <1>5 DEF OnceInv

(* Every step keeps the invariant.                                         *)
LEMMA NextOnce ==
  ASSUME LocalOnly, Typed, Continues, OnceInv, [OnceNext]_vars
  PROVE  OnceInv'
<1> USE NothingRemote
<1>1. CASE UNCHANGED vars
  BY <1>1, IdleOnce DEF vars, railVars
<1>2. CASE \/ \E q \in Quotes : Expire(q) \/ \E i \in Wanted : CreateQuote(q, i)
           \/ \E r \in Routes, q \in Quotes : CreateRoute(r, q)
  <2>1. UNCHANGED <<payment, railVars, call, refund, moneyVars>>
    BY <1>2 DEF Expire, CreateQuote, CreateRoute
  <2> QED BY <2>1, IdleOnce DEF railVars
<1>3. CASE \E level \in Levels \ {"unverified"}, screened \in {"unset", "yes", "no"},
              clear \in BOOLEAN : VerifyAccount(level, screened, clear)
  BY <1>3 DEF VerifyAccount
<1>4. ASSUME NEW c \in Calls, SettleStep(c) \/ StripeCharges(c)
      PROVE  OnceInv'
  <2>1. CASE ProofFails(c) \/ SourceRefused(c)
    BY <2>1, FailsOnce
  <2>2. CASE TargetRefused(c)
    BY <2>2, TargetRefusedOnce
  <2>3. CASE SettleLocally(c)
    BY <2>3, LocallyOnce
  <2>4. CASE SettleSource(c)
    BY <2>4 DEF SettleSource
  <2>5. CASE TargetSettles(c)
    BY <2>5 DEF TargetSettles
  <2>6. CASE TargetDeclines(c) \/ TargetUnreachable(c) \/ StripeCharges(c)
    BY <2>6 DEF TargetDeclines, TargetUnreachable, StripeCharges
  <2>7. CASE ChainFails(c)
    BY <2>7, ChainFailsOnce
  <2>8. CASE \E witnessed \in BOOLEAN : Apply(c, witnessed)
    BY <2>8, ApplyOnce
  <2> QED BY <1>4, <2>1, <2>2, <2>3, <2>4, <2>5, <2>6, <2>7, <2>8 DEF SettleStep
<1>5. CASE \E f \in Refunds : RefundUnreachable(f) \/ \E ok \in BOOLEAN : RefundAnswered(f, ok)
  BY <1>5 DEF RefundUnreachable, RefundAnswered
<1>6. CASE \E p \in Calls : Reconcile(p)
  BY <1>6, ReconcileOnce
<1>7. CASE Crash \/ \E c \in Calls : CrashWhileApplying(c)
  BY <1>7 DEF Crash, CrashWhileApplying, Restart
<1>8. CASE \E c \in Calls, r \in Routes : NewRoute(r) /\ BeginSettle(c, r)
  BY <1>8, BeginOnce
<1>9. CASE \E f \in Refunds, p \in Calls : NewRefund(p) /\ (RefundLocally(f, p) \/ AskRefund(f, p))
  <2>1. PICK f \in Refunds, p \in Calls : NewRefund(p) /\ (RefundLocally(f, p) \/ AskRefund(f, p))
    BY <1>9
  <2>2. ~AskRefund(f, p)
    BY DEF AskRefund
  <2> QED BY <2>1, <2>2, RefundOnce
<1>10. CASE \E side \in {"source", "target"}, c \in Calls :
             legs[side][c] # "refunded" /\ Webhook(side, c)
  BY <1>10, EventOnce DEF Outer
<1> QED BY <1>1, <1>2, <1>3, <1>4, <1>5, <1>6, <1>7, <1>8, <1>9, <1>10 DEF OnceNext, OtherStep

(* The state is well formed.                                               *)
THEOREM OnceTyping == OnceSpec => []TypeOK
<1>1. Init => Typed
  BY InitTyped
<1>2. Typed /\ [OnceNext]_vars => Typed'
  BY OnceIsNext, NextTyped
<1>3. Typed => TypeOK
  BY DEF Typed
<1> QED BY <1>1, <1>2, <1>3, PTL DEF OnceSpec

(* On local rails, without stubs and restarts, with routes settled and     *)
(* payments refunded once, the rails' legs and both balances are what the  *)
(* payments say (settleUniversal, refundUniversal).                        *)
THEOREM MoneyFollows ==
  ASSUME LocalOnly
  PROVE  OnceSpec => [](LegsFollowPayments /\ BalancesFollowPayments)
<1>1. Init => Typed /\ OnceInv
  BY InitTyped, InitOnce
<1>2. Typed /\ OnceInv /\ [OnceNext]_vars => Typed' /\ OnceInv'
  BY OnceIsNext, NextTyped, NextOnce
<1>3. Typed /\ OnceInv => LegsFollowPayments /\ BalancesFollowPayments
  <2> SUFFICES ASSUME Typed, OnceInv PROVE LegsFollowPayments /\ BalancesFollowPayments
    OBVIOUS
  <2>1. BalancesFollowPayments
    BY DEF BalancesFollowPayments, OnceInv, Balances, Standing, GivenBack
  <2>2. ASSUME NEW c \in Calls, NEW s \in {"source", "target"}
        PROVE  /\ Live(legs[s][c]) =>
                    InFlight(c) \/ (payment[c] # None /\ payment[c].state # "refunded")
               /\ payment[c] # None /\ payment[c].state \in {"settled", "reconciled"} =>
                    Live(legs[s][c])
    <3>1. SoundAt(c)
      BY DEF OnceInv
    <3>2. ~Live("none")
      BY DEF Live
    <3> QED BY <3>1, <3>2 DEF SoundAt, Sound, Stands, InFlight
  <2> QED BY <2>1, <2>2 DEF LegsFollowPayments
<1> QED BY <1>1, <1>2, <1>3, PTL DEF OnceSpec
=============================================================================
