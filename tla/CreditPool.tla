------------------------------ MODULE CreditPool ------------------------------
(***************************************************************************)
(* Circle Credit v1 (server/credit/service.ts): a pool that lenders        *)
(* deposit into and borrowers draw overcollateralized loans from, repaid   *)
(* in installments or liquidated.                                          *)
(*                                                                         *)
(* deposit, borrow and repay check, await a Compact circuit if its keys    *)
(* are present, and then change accounts, pool and loan in one stretch     *)
(* that ends in saveStore.  A call is cut at that await; where the keys    *)
(* are not deployed nothing comes between the two halves.  Liquidation     *)
(* awaits nothing.  Balances are seen by the server only as commitments:   *)
(* the ones a request brings are named after the request that made them.   *)
(*                                                                         *)
(* Nothing serializes the calls: two of them may wait for a circuit and    *)
(* write what they read before it.  Which of them did is kept as history,  *)
(* and what is stated of the pool names the overlaps it does not survive.  *)
(***************************************************************************)
EXTENDS Integers, FiniteSets, Functions

CONSTANTS
  Users,
  Requests,   \* requests a device composes; a request may be sent twice
  Calls,      \* deliveries of a request to the server
  Seed,       \* the pool's first liquidity
  Deposits,   \* the amounts deposited
  LoanSizes, Collaterals, Terms,
  Grace,      \* gracePeriodMisses
  Gated,      \* the jurisdiction gate is on
  None

ConstantTypes ==
  /\ Seed \in Nat /\ Grace \in Nat /\ Gated \in BOOLEAN
  /\ Deposits \subseteq Nat \ {0} /\ LoanSizes \subseteq Nat \ {0}
  /\ Collaterals \subseteq Nat \ {0} /\ Terms \subseteq Nat \ {0}

VARIABLES
  keys,        \* creditArtifactsPresent: the circuits can be proved
  tip,         \* balanceCommitment of the accounts
  spent,       \* commitments whose nullifier is spent
  revoked,     \* accounts whose KYC leaf is revoked
  request,     \* what the devices composed
  call,        \* calls, with what they read before the await
  total,       \* poolTotal
  outstanding, \* poolOutstanding
  share,       \* deposited, by lender
  loan,        \* loans, named after the request they were borrowed by
  counted,     \* spentInstallmentNullifiers: loan and number of installment
  onTime,      \* standing: installments paid on time
  seized,      \* loans liquidated: a default each, the collateral in the pool
  twice,       \* history: requests of which two deliveries waited at once
  raced,       \* history: loans of which two repayments, or one and the
               \* liquidation, overlapped
  rushed       \* history: the operations of which two overlapped; a deposit
               \* is also overlapped by a seizure

accountVars == <<keys, tip, spent, revoked>>
poolVars == <<total, outstanding, share>>
loanVars == <<loan, counted, onTime, seized>>
overlaps == <<twice, raced, rushed>>
vars == <<accountVars, request, call, poolVars, loanVars, overlaps>>

(* The commitments a device makes up: the first one, the one left after    *)
(* the request, and for a borrower the one between lock and disbursement.  *)
PoolCommitments == (Users \X {"opening"}) \union (Requests \X {"after", "locked"})

Operations == {"deposit", "borrow", "repay"}
Request == [op : Operations, user : Users, old : PoolCommitments,
            amount : Nat, collateral : Nat, terms : Nat, loan : Requests \union {None}]
CallRecord == [at : {"proving", "answered"}, req : Requests, base : Nat, nth : Nat]
Loan == [user : Users, amount : Nat, collateral : Nat, remaining : Int, each : Nat,
         paid : Nat, missed : Nat, status : {"active", "repaid", "liquidated"},
         due : {"ahead", "overdue", "late"}]

(* The books are sums.                                                     *)
FiniteBooks == IsFiniteSet(Users) /\ IsFiniteSet(Requests)

NoneIsFresh == None \notin Requests \union Request \union CallRecord \union Loan

TypeOK ==
  /\ keys \in BOOLEAN
  /\ tip \in [Users -> PoolCommitments]
  /\ spent \subseteq PoolCommitments
  /\ revoked \subseteq Users
  /\ request \in [Requests -> Request \union {None}]
  /\ call \in [Calls -> CallRecord \union {None}]
  /\ total \in Nat
  /\ outstanding \in Nat
  /\ share \in [Users -> Nat]
  /\ loan \in [Requests -> Loan \union {None}]
  /\ counted \subseteq Requests \X Nat
  /\ onTime \in [Users -> Nat]
  /\ seized \subseteq Requests
  /\ twice \subseteq Requests /\ raced \subseteq Requests /\ rushed \subseteq Operations

Init ==
  /\ keys \in BOOLEAN
  /\ tip = [u \in Users |-> <<u, "opening">>]
  /\ spent = {}
  /\ revoked = {}
  /\ request = [q \in Requests |-> None]
  /\ call = [c \in Calls |-> None]
  /\ total = Seed
  /\ outstanding = 0
  /\ share = [u \in Users |-> 0]
  /\ loan = [q \in Requests |-> None]
  /\ counted = {}
  /\ onTime = [u \in Users |-> 0]
  /\ seized = {}
  /\ twice = {} /\ raced = {} /\ rushed = {}

Smaller(a, b) == IF a <= b THEN a ELSE b
AtLeast0(n) == IF n > 0 THEN n ELSE 0
CeilDiv(n, d) == (n + d - 1) \div d

Proving(c) == call[c] # None /\ call[c].at = "proving"
RequestOf(c) == request[call[c].req]

(* What waits for a circuit: a delivery of the request q, a repayment of   *)
(* the loan l, an operation.                                               *)
Delivered(q) == \E c \in Calls : Proving(c) /\ call[c].req = q
RepayWaits(l) == \E c \in Calls : Proving(c) /\ l # None /\ RequestOf(c).loan = l
Waits(op) == \E c \in Calls : Proving(c) /\ RequestOf(c).op = op

Noted(overlapped, x, meets) == IF meets THEN overlapped \union {x} ELSE overlapped

(* Without the keys no handler awaits anything: a call that was opened is  *)
(* answered before anything else happens.                                  *)
Quiet == keys \/ \A c \in Calls : ~Proving(c)

Due(l) == Smaller(loan[l].each, loan[l].remaining)

-----------------------------------------------------------------------------
(* The devices.  A request is made against the balance the server shows.   *)

Compose(q, r) ==
  /\ Quiet
  /\ request[q] = None
  /\ r.old = tip[r.user]
  /\ request' = [request EXCEPT ![q] = r]
  /\ UNCHANGED <<accountVars, call, poolVars, loanVars, overlaps>>

ComposeDeposit(q, u, amount) ==
  Compose(q, [op |-> "deposit", user |-> u, old |-> tip[u], amount |-> amount,
              collateral |-> 0, terms |-> 0, loan |-> None])

ComposeBorrow(q, u, amount, collateral, terms) ==
  Compose(q, [op |-> "borrow", user |-> u, old |-> tip[u], amount |-> amount,
              collateral |-> collateral, terms |-> terms, loan |-> None])

ComposeRepay(q, l) ==
  /\ loan[l] # None
  /\ Compose(q, [op |-> "repay", user |-> loan[l].user, old |-> tip[loan[l].user],
                 amount |-> Due(l), collateral |-> 0, terms |-> 0, loan |-> l])

(* A reseal stands for any spend of the account outside this module.  It   *)
(* does not mind a commitment that is spent already.                       *)
Reseal(q, u) ==
  /\ Quiet
  /\ request[q] = None
  /\ request' = [request EXCEPT ![q] =
       [op |-> "deposit", user |-> u, old |-> tip[u], amount |-> 0,
        collateral |-> 0, terms |-> 0, loan |-> None]]
  /\ spent' = spent \union {tip[u]}
  /\ tip' = [tip EXCEPT ![u] = <<q, "after">>]
  /\ UNCHANGED <<keys, revoked, call, poolVars, loanVars, overlaps>>

Revoke(u) ==
  /\ Quiet
  /\ u \notin revoked
  /\ revoked' = revoked \union {u}
  /\ UNCHANGED <<keys, tip, spent, request, call, poolVars, loanVars, overlaps>>

-----------------------------------------------------------------------------
(* The checks before the circuit.                                          *)

Open(c, q, base, nth) ==
  /\ Quiet
  /\ call[c] = None
  /\ call' = [call EXCEPT ![c] = [at |-> "proving", req |-> q, base |-> base, nth |-> nth]]
  /\ twice' = Noted(twice, q, Delivered(q))
  /\ raced' = Noted(raced, request[q].loan, RepayWaits(request[q].loan))
  /\ rushed' = Noted(rushed, request[q].op, Waits(request[q].op))
  /\ UNCHANGED <<accountVars, request, poolVars, loanVars>>

Current(r) == r.old = tip[r.user]

BeginDeposit(c, q) ==
  LET r == request[q]
  IN  /\ r # None /\ r.op = "deposit" /\ r.amount > 0
      /\ Current(r)
      /\ Open(c, q, total, 0)

(* Mutant of BeginBorrow: the pool's liquidity is not looked at.           *)
BeginBorrowBlind(c, q) ==
  LET r == request[q]
  IN  /\ r # None /\ r.op = "borrow"
      /\ 2 * r.collateral >= 3 * r.amount
      /\ Gated => r.user \notin revoked
      /\ Current(r)
      /\ Open(c, q, 0, 0)

BeginBorrow(c, q) ==
  LET r == request[q]
  IN  /\ r # None /\ r.op = "borrow"
      /\ 2 * r.collateral >= 3 * r.amount
      /\ Gated => r.user \notin revoked
      /\ r.amount <= total - outstanding
      /\ Current(r)
      /\ Open(c, q, 0, 0)

(* Mutant of BeginRepay: the loan may be over.                             *)
BeginRepayAgain(c, q) ==
  LET r == request[q]
  IN  /\ r # None /\ r.op = "repay"
      /\ Current(r)
      /\ r.amount = Due(r.loan)
      /\ <<r.loan, loan[r.loan].paid>> \notin counted
      /\ Open(c, q, loan[r.loan].remaining, loan[r.loan].paid)

(* A borrower's credential does not change here, so that a loan is never   *)
(* repaid under another identity than it was borrowed under.               *)
BeginRepay(c, q) ==
  LET r == request[q]
  IN  /\ r # None /\ r.op = "repay"
      /\ loan[r.loan].status = "active"
      /\ Current(r)
      /\ r.amount = Due(r.loan)
      /\ <<r.loan, loan[r.loan].paid>> \notin counted
      /\ Open(c, q, loan[r.loan].remaining, loan[r.loan].paid)

CircuitFails(c) ==
  /\ Proving(c)
  /\ keys
  /\ call' = [call EXCEPT ![c].at = "answered"]
  /\ UNCHANGED <<accountVars, request, poolVars, loanVars, overlaps>>

-----------------------------------------------------------------------------
(* The stretch after the circuit.  The nullifier is that of whatever the   *)
(* account's commitment is by now.                                         *)

Answer(c) == call' = [call EXCEPT ![c].at = "answered"]

AlreadySpent(c) ==
  /\ Proving(c)
  /\ tip[RequestOf(c).user] \in spent
  /\ Answer(c)
  /\ UNCHANGED <<accountVars, request, poolVars, loanVars, overlaps>>

Burn(u, new) ==
  /\ tip[u] \notin spent
  /\ spent' = spent \union {tip[u]}
  /\ tip' = [tip EXCEPT ![u] = new]
  /\ UNCHANGED <<keys, revoked>>

(* The total read before the circuit is what the deposit is added to.      *)
ApplyDeposit(c) ==
  LET r == RequestOf(c)
  IN  /\ Proving(c) /\ r.op = "deposit"
      /\ Burn(r.user, <<call[c].req, "after">>)
      /\ total' = call[c].base + r.amount
      /\ share' = [share EXCEPT ![r.user] = @ + r.amount]
      /\ Answer(c)
      /\ UNCHANGED <<request, outstanding, loanVars, overlaps>>

NewLoan(r) ==
  [user |-> r.user, amount |-> r.amount, collateral |-> r.collateral,
   remaining |-> r.amount, each |-> CeilDiv(r.amount, r.terms), paid |-> 0,
   missed |-> 0, status |-> "active", due |-> "ahead"]

ApplyBorrow(c) ==
  LET q == call[c].req
      r == RequestOf(c)
  IN  /\ Proving(c) /\ r.op = "borrow"
      /\ <<q, "locked">> \notin spent \union {tip[r.user]}
      /\ tip[r.user] \notin spent
      /\ spent' = spent \union {tip[r.user], <<q, "locked">>}
      /\ tip' = [tip EXCEPT ![r.user] = <<q, "after">>]
      /\ outstanding' = outstanding + r.amount
      /\ loan' = [loan EXCEPT ![q] = NewLoan(r)]
      /\ Answer(c)
      /\ UNCHANGED <<keys, revoked, request, total, share, counted, onTime,
                     seized, overlaps>>

(* The second nullifier is taken: the first stays burned.                  *)
BorrowConflict(c) ==
  LET r == RequestOf(c)
  IN  /\ Proving(c) /\ r.op = "borrow"
      /\ tip[r.user] \notin spent
      /\ <<call[c].req, "locked">> \in spent \union {tip[r.user]}
      /\ spent' = spent \union {tip[r.user]}
      /\ Answer(c)
      /\ UNCHANGED <<keys, tip, revoked, request, poolVars, loanVars, overlaps>>

(* Mutant of Repaid: an installment leaves the pool's books as they were.  *)
RepaidOffTheBooks(c) ==
  UNCHANGED outstanding

(* Mutant of Repaid: the difference is not kept from falling below zero.   *)
RepaidUnclamped(c) ==
  outstanding' = outstanding - RequestOf(c).amount

Repaid(c) ==
  outstanding' = AtLeast0(outstanding - RequestOf(c).amount)

ApplyRepay(c) ==
  LET r == RequestOf(c)
      l == r.loan
      rest == call[c].base - r.amount
      late == loan[l].due = "late"
  IN  /\ Proving(c) /\ r.op = "repay"
      /\ Burn(r.user, <<call[c].req, "after">>)
      /\ Repaid(c)
      /\ loan' = [loan EXCEPT
           ![l].remaining = rest,
           ![l].paid = @ + 1,
           ![l].missed = IF late THEN @ + 1 ELSE @,
           ![l].due = "ahead",
           ![l].status = IF rest = 0 THEN "repaid" ELSE @]
      /\ counted' = counted \union {<<l, call[c].nth>>}
      /\ onTime' = IF late THEN onTime ELSE [onTime EXCEPT ![r.user] = @ + 1]
      /\ Answer(c)
      /\ UNCHANGED <<request, total, share, seized, overlaps>>

-----------------------------------------------------------------------------
(* Time and liquidation.                                                   *)

(* A due date passes, and then the day of grace a payment has.  Nobody     *)
(* looks at the due date of a loan that is over, unless a repayment waits. *)
TimePasses(l) ==
  /\ Quiet
  /\ loan[l] # None
  /\ loan[l].status = "active" \/ RepayWaits(l)
  /\ loan[l].due # "late"
  /\ loan' = [loan EXCEPT ![l].due = IF @ = "ahead" THEN "overdue" ELSE "late"]
  /\ UNCHANGED <<accountVars, request, call, poolVars, counted, onTime, seized, overlaps>>

Overdue(l) ==
  /\ loan[l] # None
  /\ loan[l].status = "active"
  /\ loan[l].due # "ahead"

RecordMiss(l) ==
  /\ Quiet
  /\ Overdue(l)
  /\ loan[l].missed + 1 <= Grace
  /\ loan' = [loan EXCEPT ![l].missed = @ + 1, ![l].due = "ahead"]
  /\ UNCHANGED <<accountVars, request, call, poolVars, counted, onTime, seized, overlaps>>

(* Mutant of Seized: what is left of the loan stays outstanding.           *)
SeizedButOwed(l) ==
  /\ total' = total + loan[l].collateral
  /\ UNCHANGED outstanding

Seized(l) ==
  /\ total' = total + loan[l].collateral
  /\ outstanding' = AtLeast0(outstanding - loan[l].remaining)

Liquidate(l) ==
  /\ Quiet
  /\ Overdue(l)
  /\ loan[l].missed + 1 > Grace
  /\ Seized(l)
  /\ loan' = [loan EXCEPT ![l].missed = @ + 1, ![l].due = "ahead",
                          ![l].status = "liquidated", ![l].remaining = 0]
  /\ seized' = seized \union {l}
  /\ raced' = Noted(raced, l, RepayWaits(l))
  /\ rushed' = Noted(rushed, "deposit", Waits("deposit"))
  /\ UNCHANGED <<accountVars, request, call, share, counted, onTime, twice>>

-----------------------------------------------------------------------------
Next ==
  \/ \E q \in Requests, u \in Users :
       \/ \E amount \in Deposits : ComposeDeposit(q, u, amount)
       \/ \E amount \in LoanSizes, collateral \in Collaterals, terms \in Terms :
            ComposeBorrow(q, u, amount, collateral, terms)
       \/ Reseal(q, u)
  \/ \E q, l \in Requests : ComposeRepay(q, l)
  \/ \E u \in Users : Revoke(u)
  \/ \E c \in Calls, q \in Requests :
       BeginDeposit(c, q) \/ BeginBorrow(c, q) \/ BeginRepay(c, q)
  \/ \E c \in Calls :
       \/ CircuitFails(c) \/ AlreadySpent(c)
       \/ ApplyDeposit(c) \/ ApplyBorrow(c) \/ BorrowConflict(c) \/ ApplyRepay(c)
  \/ \E l \in Requests : TimePasses(l) \/ RecordMiss(l) \/ Liquidate(l)

Spec == Init /\ [][Next]_vars

-----------------------------------------------------------------------------
(* What each loan still owes the pool, and what of its collateral the pool *)
(* has.                                                                    *)
Owes == [l \in Requests |->
           IF loan[l] # None /\ loan[l].status = "active" THEN loan[l].remaining ELSE 0]
Taken == [l \in Requests |-> IF l \in seized THEN loan[l].collateral ELSE 0]
Owed == SumFunction(Owes)
Funded == Seed + SumFunction(share) + SumFunction(Taken)

(* The books.  However calls overlap, the pool never shows more than it    *)
(* was given, nor more lent out than is owed.  Its total is exact unless a *)
(* deposit was overlapped by another one or by a seizure, and loses one of *)
(* them then.  What is lent out is exact unless a loan was raced over: two *)
(* repayments of one loan subtract twice, and the pool then shows more     *)
(* liquidity than it has.                                                  *)
BooksHold ==
  LET given == Funded
      owed == Owed
  IN  /\ total <= given /\ outstanding <= owed
      /\ "deposit" \notin rushed => total = given
      /\ raced = {} => outstanding = owed

(* What the handlers check before their circuit still holds when they rely *)
(* on it after.  The pool never lends more than it was given, though       *)
(* deposits, repayments and liquidations go on while a loan is proved:     *)
(* only two loans proved at once, or liquidity shown too high by a raced   *)
(* loan, can do that.  And the commitment of an account is not spent, so   *)
(* that it can go on, unless two deliveries of one of its requests         *)
(* overlapped.                                                             *)
ChecksHold ==
  /\ raced = {} /\ "borrow" \notin rushed => Owed <= Funded
  /\ \A u \in Users : (\A q \in twice : request[q].user # u) => tip[u] \notin spent

(* A repaid or liquidated loan is over, with its collateral released or    *)
(* seized but not both, and nothing is owed on it again, whatever waits for*)
(* a circuit: unless a repayment of the loan was waiting when another one  *)
(* began or when the loan was liquidated.                                  *)
LoanEndsOnce ==
  [][\A l \in Requests \ raced :
       loan[l] # None /\ loan[l].status # "active" =>
         loan'[l].status = loan[l].status /\ loan'[l].remaining = 0]_vars

(* The standing rests on facts: no more points than installments counted   *)
(* ("Installment already counted").                                        *)
StandingIsEarned ==
  \A u \in Users : onTime[u] <= Cardinality({n \in counted : loan[n[1]].user = u})
=============================================================================
