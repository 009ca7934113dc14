--------------------------- MODULE CreditPool_proofs ---------------------------
(***************************************************************************)
(* Proofs about Circle Credit for any users, requests, deliveries, amounts *)
(* and terms.                                                              *)
(*                                                                         *)
(* 1. Sound, inductive with TypeOK: a loan never owes less than nothing,   *)
(*    whatever its repayments overwrite, and a call belongs to a request.  *)
(* 2. Core: calls that overlap are noted, and for what did not overlap     *)
(*    what a call read before its circuit is still so after it: the        *)
(*    account's commitment, the pool's total, what is left of the loan.    *)
(* 3. BooksInv: the books are exact up to the overlaps that are noted;     *)
(*    where updates are lost they stay below what was given, and below a   *)
(*    cover of what each loan owes that no waiting repayment can write     *)
(*    less than.                                                           *)
(***************************************************************************)
EXTENDS CreditPool, WellFoundedInduction, FiniteSetTheorems, TLAPS

Constants == ConstantTypes /\ NoneIsFresh

-----------------------------------------------------------------------------
(* Types.                                                                  *)

Sound ==
  /\ \A l \in Requests : loan[l] # None => loan[l].remaining \in Nat
  /\ \A q \in Requests : request[q] # None =>
       /\ request[q].op = "repay" =>
            request[q].loan \in Requests /\ loan[request[q].loan] # None
       /\ request[q].op = "borrow" => request[q].terms # 0
  /\ \A c \in Calls : call[c] # None =>
       /\ request[call[c].req] # None
       /\ Proving(c) /\ RequestOf(c).op = "repay" =>
            RequestOf(c).amount <= call[c].base

PoolInv == TypeOK /\ Sound

(* What calls, requests and loans are made of.                             *)
LEMMA PartTypes ==
  ASSUME TypeOK
  PROVE  /\ \A c \in Calls : call[c] # None =>
              /\ call[c] \in CallRecord /\ call[c].req \in Requests
              /\ call[c].base \in Nat /\ call[c].nth \in Nat
         /\ \A q \in Requests : request[q] # None =>
              /\ request[q] \in Request /\ request[q].user \in Users
              /\ request[q].amount \in Nat /\ request[q].collateral \in Nat
              /\ request[q].terms \in Nat
         /\ \A l \in Requests : loan[l] # None =>
              /\ loan[l] \in Loan /\ loan[l].user \in Users
              /\ loan[l].each \in Nat /\ loan[l].paid \in Nat /\ loan[l].missed \in Nat
BY DEF TypeOK, CallRecord, Request, Loan

(* An answer ends one call and touches no other.                           *)
LEMMA Answered ==
  ASSUME Constants, TypeOK, NEW c \in Calls, Proving(c), Answer(c)
  PROVE  /\ call' \in [Calls -> CallRecord \union {None}]
         /\ \A d \in Calls : call'[d] # None => call[d] # None /\ call'[d].req = call[d].req
         /\ \A d \in Calls : Proving(d)' => d # c /\ Proving(d) /\ call'[d] = call[d]
<1>1. call[c] \in CallRecord /\ call'[c] = [call[c] EXCEPT !.at = "answered"]
  BY PartTypes DEF Proving, Answer, TypeOK
<1>2. /\ call'[c] \in CallRecord /\ call'[c].at = "answered"
      /\ call'[c].req = call[c].req
  BY <1>1 DEF CallRecord
<1>3. \A d \in Calls \ {c} : call'[d] = call[d]
  BY DEF Answer, TypeOK
<1> QED BY <1>1, <1>2, <1>3 DEF TypeOK, Answer, Proving, Constants, NoneIsFresh

(* The first state.                                                        *)
LEMMA InitSound == Constants /\ Init => PoolInv
<1> SUFFICES ASSUME Constants, Init PROVE PoolInv
  OBVIOUS
<1>1. \A u \in Users : <<u, "opening">> \in PoolCommitments
  BY DEF PoolCommitments
<1> QED BY <1>1 DEF Init, Constants, ConstantTypes, PoolInv, TypeOK, Sound

(* A request adds itself and nothing else.                                 *)
LEMMA ComposeSound ==
  ASSUME Constants, PoolInv, NEW q \in Requests, NEW r \in Request, Compose(q, r),
         r.op = "repay" => r.loan \in Requests /\ loan[r.loan] # None,
         r.op = "borrow" => r.terms # 0
  PROVE  PoolInv'
<1>1. request' \in [Requests -> Request \union {None}]
  BY DEF Compose, PoolInv, TypeOK
<1>2. request'[q] = r /\ \A p \in Requests \ {q} : request'[p] = request[p]
  BY DEF Compose, PoolInv, TypeOK
<1>3. TypeOK'
  BY <1>1 DEF Compose, PoolInv, TypeOK, accountVars, poolVars, loanVars, overlaps
<1>4. \A c \in Calls : call[c] # None => call[c].req \in Requests \ {q}
  BY PartTypes DEF Compose, PoolInv, Sound
<1>5. UNCHANGED <<call, loan>>
  BY DEF Compose, loanVars
<1>6. \A c \in Calls : call'[c] # None =>
        /\ request'[call'[c].req] # None
        /\ Proving(c)' /\ RequestOf(c)'.op = "repay" =>
             RequestOf(c)'.amount <= call'[c].base
  BY <1>2, <1>4, <1>5 DEF PoolInv, Sound, Proving, RequestOf
<1>7. \A p \in Requests : request'[p] # None =>
        /\ request'[p].op = "repay" =>
             request'[p].loan \in Requests /\ loan'[request'[p].loan] # None
        /\ request'[p].op = "borrow" => request'[p].terms # 0
  BY <1>2, <1>5 DEF PoolInv, Sound
<1> QED BY <1>3, <1>5, <1>6, <1>7 DEF PoolInv, Sound

(* Whatever a device composes is a request.                                *)
LEMMA DeviceSound ==
  ASSUME Constants, PoolInv, NEW q \in Requests
  PROVE  /\ \A u \in Users, amount \in Deposits : ComposeDeposit(q, u, amount) => PoolInv'
         /\ \A u \in Users, amount \in LoanSizes, collateral \in Collaterals, terms \in Terms :
              ComposeBorrow(q, u, amount, collateral, terms) => PoolInv'
         /\ \A l \in Requests : ComposeRepay(q, l) => PoolInv'
<1> USE DEF Constants, ConstantTypes
<1>1. ASSUME NEW u \in Users, NEW amount \in Deposits, ComposeDeposit(q, u, amount)
      PROVE  PoolInv'
  <2> DEFINE r == [op |-> "deposit", user |-> u, old |-> tip[u], amount |-> amount,
                   collateral |-> 0, terms |-> 0, loan |-> None]
  <2>1. r \in Request /\ r.op = "deposit"
    BY DEF Request, Operations, PoolInv, TypeOK
  <2>2. Compose(q, r)
    BY <1>1 DEF ComposeDeposit
  <2> HIDE DEF r
  <2> QED BY <2>1, <2>2, ComposeSound
<1>2. ASSUME NEW u \in Users, NEW amount \in LoanSizes, NEW collateral \in Collaterals,
             NEW terms \in Terms, ComposeBorrow(q, u, amount, collateral, terms)
      PROVE  PoolInv'
  <2> DEFINE r == [op |-> "borrow", user |-> u, old |-> tip[u], amount |-> amount,
                   collateral |-> collateral, terms |-> terms, loan |-> None]
  <2>1. r \in Request /\ r.op = "borrow" /\ r.terms # 0
    BY DEF Request, Operations, PoolInv, TypeOK
  <2>2. Compose(q, r)
    BY <1>2 DEF ComposeBorrow
  <2> HIDE DEF r
  <2> QED BY <2>1, <2>2, ComposeSound
<1>3. ASSUME NEW l \in Requests, ComposeRepay(q, l) PROVE PoolInv'
  <2> DEFINE r == [op |-> "repay", user |-> loan[l].user, old |-> tip[loan[l].user],
                   amount |-> Due(l), collateral |-> 0, terms |-> 0, loan |-> l]
  <2>1. loan[l] # None /\ loan[l].user \in Users /\ loan[l].each \in Nat
          /\ loan[l].remaining \in Nat
    BY <1>3, PartTypes DEF ComposeRepay, PoolInv, Sound
  <2>2. Due(l) \in Nat
    BY <2>1 DEF Due, Smaller
  <2>3. r \in Request /\ r.op = "repay" /\ r.loan = l
    BY <2>1, <2>2 DEF Request, Operations, PoolInv, TypeOK
  <2>4. Compose(q, r)
    BY <1>3 DEF ComposeRepay
  <2> HIDE DEF r
  <2> QED BY <2>1, <2>3, <2>4, ComposeSound
<1> QED BY <1>1, <1>2, <1>3

(* Opening a call keeps what is sound, given what it reads.                *)
LEMMA OpenSound ==
  ASSUME Constants, PoolInv, NEW c \in Calls, NEW q \in Requests, NEW base \in Nat,
         NEW nth \in Nat, Open(c, q, base, nth), request[q] # None,
         request[q].op = "repay" => request[q].amount <= base
  PROVE  PoolInv'
<1>1. [at |-> "proving", req |-> q, base |-> base, nth |-> nth] \in CallRecord
  BY DEF CallRecord
<1>5. twice' \subseteq Requests /\ raced' \subseteq Requests /\ rushed' \subseteq Operations
  <2>1. request[q].op \in Operations /\ request[q].loan \in Requests \union {None}
    BY DEF PoolInv, TypeOK, Request
  <2> QED BY <2>1 DEF Open, Noted, RepayWaits, PoolInv, TypeOK
<1>2. TypeOK'
  BY <1>1, <1>5 DEF Open, PoolInv, TypeOK, accountVars, poolVars, loanVars
<1>3. /\ call'[c] = [at |-> "proving", req |-> q, base |-> base, nth |-> nth]
      /\ \A d \in Calls \ {c} : call'[d] = call[d]
      /\ UNCHANGED <<request, loan>>
  BY DEF Open, PoolInv, TypeOK, loanVars
<1>4. \A d \in Calls : call'[d] # None =>
        /\ request'[call'[d].req] # None
        /\ Proving(d)' /\ RequestOf(d)'.op = "repay" =>
             RequestOf(d)'.amount <= call'[d].base
  BY <1>3 DEF PoolInv, Sound, Proving, RequestOf
<1> QED BY <1>2, <1>3, <1>4 DEF PoolInv, Sound

(* The three handlers open calls of their own requests.                    *)
LEMMA BeginSound ==
  ASSUME Constants, PoolInv, NEW c \in Calls, NEW q \in Requests,
         BeginDeposit(c, q) \/ BeginBorrow(c, q) \/ BeginRepay(c, q)
  PROVE  PoolInv'
<1>1. CASE BeginDeposit(c, q)
  <2>1. total \in Nat /\ 0 \in Nat
    BY DEF PoolInv, TypeOK
  <2> QED BY <1>1, <2>1, OpenSound DEF BeginDeposit
<1>2. CASE BeginBorrow(c, q)
  <2>1. 0 \in Nat
    OBVIOUS
  <2> QED BY <1>2, <2>1, OpenSound DEF BeginBorrow
<1>3. CASE BeginRepay(c, q)
  <2> DEFINE l == request[q].loan
  <2>1. request[q] # None /\ l \in Requests /\ loan[l] # None
    BY <1>3 DEF BeginRepay, PoolInv, Sound
  <2>2. loan[l].remaining \in Nat /\ loan[l].paid \in Nat /\ loan[l].each \in Nat
    BY <2>1, PartTypes DEF PoolInv, Sound
  <2>3. request[q].amount <= loan[l].remaining
    BY <1>3, <2>2 DEF BeginRepay, Due, Smaller
  <2>4. Open(c, q, loan[l].remaining, loan[l].paid)
    BY <1>3 DEF BeginRepay
  <2> QED BY <2>1, <2>2, <2>3, <2>4, OpenSound
<1> QED BY <1>1, <1>2, <1>3

(* A step that opens no call and drops no request or loan keeps the calls  *)
(* and requests sound.                                                     *)
Steady ==
  /\ \A q \in Requests : request[q] # None => request'[q] = request[q]
  /\ \A q \in Requests : request'[q] # None =>
       \/ request[q] # None
       \/ request'[q].op = "deposit"
  /\ \A l \in Requests : loan[l] # None => loan'[l] # None
  /\ \A c \in Calls : call'[c] # None => call[c] # None /\ call'[c].req = call[c].req
  /\ \A c \in Calls : Proving(c)' => Proving(c) /\ call'[c] = call[c]

(* A step that leaves calls, deposits and requests steady keeps the        *)
(* invariant.                                                              *)
LEMMA SteadySound ==
  ASSUME PoolInv, TypeOK', Steady,
         \A l \in Requests : loan'[l] # None => loan'[l].remaining \in Nat
  PROVE  PoolInv'
<1>1. \A q \in Requests : request'[q] # None =>
        /\ request'[q].op = "repay" =>
             request'[q].loan \in Requests /\ loan'[request'[q].loan] # None
        /\ request'[q].op = "borrow" => request'[q].terms # 0
  BY DEF PoolInv, Sound, Steady
<1>2. ASSUME NEW c \in Calls, call'[c] # None
      PROVE  /\ request'[call'[c].req] # None
             /\ Proving(c)' /\ RequestOf(c)'.op = "repay" =>
                  RequestOf(c)'.amount <= call'[c].base
  <2>1. /\ call[c] # None /\ call'[c].req = call[c].req /\ call[c].req \in Requests
        /\ request[call[c].req] # None
    BY <1>2, PartTypes DEF PoolInv, Sound, Steady
  <2>2. request'[call'[c].req] = request[call[c].req]
    BY <2>1 DEF Steady
  <2> QED BY <2>1, <2>2 DEF PoolInv, Sound, Steady, RequestOf
<1> QED BY <1>1, <1>2 DEF PoolInv, Sound

(* Calls that fail, or find their commitment spent, change no books.       *)
LEMMA RefusalSound ==
  ASSUME Constants, PoolInv, NEW c \in Calls,
         CircuitFails(c) \/ AlreadySpent(c) \/ BorrowConflict(c)
  PROVE  PoolInv'
<1>1. /\ Proving(c) /\ Answer(c)
      /\ UNCHANGED <<request, loan, keys, tip, revoked, poolVars, counted, onTime, seized>>
      /\ UNCHANGED overlaps
  BY DEF CircuitFails, AlreadySpent, BorrowConflict, Answer, accountVars, loanVars
<1>2. spent' \subseteq PoolCommitments
  <2>1. RequestOf(c).user \in Users
    BY <1>1, PartTypes DEF Proving, RequestOf, PoolInv, Sound
  <2> QED BY <2>1 DEF CircuitFails, AlreadySpent, BorrowConflict, PoolInv, TypeOK, accountVars
<1>3. TypeOK'
  BY <1>1, <1>2, Answered DEF PoolInv, TypeOK, poolVars, overlaps
<1>4. Steady
  BY <1>1, Answered DEF Steady, PoolInv
<1> QED BY <1>1, <1>3, <1>4, SteadySound DEF PoolInv, Sound

(* A deposit.                                                              *)
LEMMA DepositSound ==
  ASSUME Constants, PoolInv, NEW c \in Calls, ApplyDeposit(c)
  PROVE  PoolInv'
<1> DEFINE q == call[c].req
           r == RequestOf(c)
<1>1. /\ Proving(c) /\ Answer(c)
      /\ UNCHANGED <<request, outstanding, loanVars, keys, revoked, overlaps>>
  BY DEF ApplyDeposit, Burn
<1>2. /\ q \in Requests /\ call[c].base \in Nat
      /\ r.user \in Users /\ r.amount \in Nat
  BY <1>1, PartTypes DEF Proving, RequestOf, PoolInv, Sound
<1>3. <<q, "after">> \in PoolCommitments
  BY <1>2 DEF PoolCommitments
<1>4. tip' \in [Users -> PoolCommitments] /\ spent' \subseteq PoolCommitments
  BY <1>2, <1>3 DEF ApplyDeposit, Burn, PoolInv, TypeOK
<1>5. total' \in Nat /\ share' \in [Users -> Nat]
  BY <1>2 DEF ApplyDeposit, PoolInv, TypeOK
<1>6. TypeOK'
  BY <1>1, <1>4, <1>5, Answered DEF PoolInv, TypeOK, loanVars, overlaps
<1>7. Steady
  BY <1>1, Answered DEF Steady, PoolInv, loanVars
<1> QED BY <1>1, <1>6, <1>7, SteadySound DEF PoolInv, Sound, loanVars

(* What a borrowing opens is a loan.                                       *)
LEMMA NewLoanIs ==
  ASSUME Constants, PoolInv, NEW c \in Calls, Proving(c), RequestOf(c).op = "borrow"
  PROVE  NewLoan(RequestOf(c)) \in Loan /\ NewLoan(RequestOf(c)) # None
<1> DEFINE r == RequestOf(c)
<1>1. /\ r # None /\ r.user \in Users /\ r.amount \in Nat
      /\ r.collateral \in Nat /\ r.terms \in Nat /\ r.terms # 0
  BY PartTypes DEF Proving, RequestOf, PoolInv, Sound
<1>2. CeilDiv(r.amount, r.terms) \in Nat
  <2>1. \A n \in Nat, d \in Nat \ {0} : (n + d - 1) \div d \in Nat
    OBVIOUS
  <2> QED BY <1>1, <2>1 DEF CeilDiv
<1>3. NewLoan(r) \in Loan
  BY <1>1, <1>2 DEF NewLoan, Loan
<1> QED BY <1>3 DEF Constants, NoneIsFresh

(* A borrowing opens a loan that owes what was lent, in its terms.         *)
LEMMA BorrowSound ==
  ASSUME Constants, PoolInv, NEW c \in Calls, ApplyBorrow(c)
  PROVE  PoolInv'
<1> DEFINE q == call[c].req
           r == RequestOf(c)
<1>1. /\ Proving(c) /\ Answer(c)
      /\ UNCHANGED <<keys, revoked, request, total, share, counted, onTime, seized, overlaps>>
  BY DEF ApplyBorrow
<1>2. /\ q \in Requests /\ r # None /\ r.user \in Users /\ r.amount \in Nat
      /\ r.collateral \in Nat /\ r.terms \in Nat /\ r.terms # 0
  BY <1>1, PartTypes DEF ApplyBorrow, Proving, RequestOf, PoolInv, Sound
<1>4. NewLoan(r) \in Loan /\ NewLoan(r) # None /\ NewLoan(r).remaining = r.amount
  BY <1>1, NewLoanIs DEF ApplyBorrow, NewLoan
<1>5. <<q, "after">> \in PoolCommitments /\ <<q, "locked">> \in PoolCommitments
  BY <1>2 DEF PoolCommitments
<1>6. tip' \in [Users -> PoolCommitments] /\ spent' \subseteq PoolCommitments
  BY <1>2, <1>5 DEF ApplyBorrow, PoolInv, TypeOK
<1>7. /\ loan' = [loan EXCEPT ![q] = NewLoan(r)]
      /\ outstanding' = outstanding + r.amount
  BY DEF ApplyBorrow
<1> HIDE DEF q, r
<1>8. TypeOK'
  BY <1>1, <1>2, <1>4, <1>6, <1>7, Answered DEF PoolInv, TypeOK, overlaps
<1>10. Steady
  BY <1>1, <1>2, <1>4, <1>7, Answered DEF Steady, PoolInv, TypeOK
<1>11. \A l \in Requests : loan'[l] # None => loan'[l].remaining \in Nat
  BY <1>2, <1>4, <1>7 DEF PoolInv, TypeOK, Sound
<1> QED BY <1>8, <1>10, <1>11, SteadySound

(* Whatever changes one loan leaves the others.                            *)
LEMMA LoanChanged ==
  ASSUME Constants, PoolInv, NEW l \in Requests, NEW new \in Loan,
         new.remaining \in Nat, loan' = [loan EXCEPT ![l] = new]
  PROVE  /\ loan' \in [Requests -> Loan \union {None}]
         /\ \A m \in Requests : loan[m] # None => loan'[m] # None
         /\ \A m \in Requests : loan'[m] # None => loan'[m].remaining \in Nat
BY DEF PoolInv, TypeOK, Sound, Constants, NoneIsFresh

(* A loan with other figures and another status is a loan.                 *)
Edited(x, remaining, paid, missed, due, status) ==
  [x EXCEPT !.remaining = remaining, !.paid = paid, !.missed = missed,
            !.due = due, !.status = status]

(* A loan with other figures is a loan.                                    *)
LEMMA LoanEdited ==
  ASSUME NEW x \in Loan, NEW remaining \in Nat, NEW paid \in Nat, NEW missed \in Nat,
         NEW due \in {"ahead", "overdue", "late"},
         NEW status \in {"active", "repaid", "liquidated"}
  PROVE  Edited(x, remaining, paid, missed, due, status) \in Loan
<1> DEFINE y1 == [x EXCEPT !.remaining = remaining]
           y2 == [y1 EXCEPT !.paid = paid]
           y3 == [y2 EXCEPT !.missed = missed]
           y4 == [y3 EXCEPT !.due = due]
           y5 == [y4 EXCEPT !.status = status]
           y == Edited(x, remaining, paid, missed, due, status)
<1>1. y = y5
  BY DEF Edited
<1> HIDE DEF y
<1>2. y1 \in Loan
  BY DEF Loan
<1> HIDE DEF y1
<1>3. y2 \in Loan
  BY <1>2 DEF Loan
<1> HIDE DEF y2
<1>4. y3 \in Loan
  BY <1>3 DEF Loan
<1> HIDE DEF y3
<1>5. y4 \in Loan
  BY <1>4 DEF Loan
<1> HIDE DEF y4
<1>6. y5 \in Loan
  BY <1>5 DEF Loan
<1> HIDE DEF y5
<1>7. y \in Loan
  BY <1>1, <1>6
<1> QED BY <1>7 DEF y

(* It has those figures.                                                   *)
LEMMA EditedFields ==
  ASSUME NEW x \in Loan, NEW remaining, NEW paid, NEW missed, NEW due, NEW status
  PROVE  /\ Edited(x, remaining, paid, missed, due, status).remaining = remaining
         /\ Edited(x, remaining, paid, missed, due, status).status = status
         /\ Edited(x, remaining, paid, missed, due, status).collateral = x.collateral
BY DEF Edited, Loan

(* An installment.                                                         *)
LEMMA RepaySound ==
  ASSUME Constants, PoolInv, NEW c \in Calls, ApplyRepay(c)
  PROVE  PoolInv'
<1> DEFINE q == call[c].req
           r == RequestOf(c)
           l == r.loan
           late == loan[l].due = "late"
           rest == call[c].base - r.amount
           paid == loan[l].paid + 1
           missed == IF late THEN loan[l].missed + 1 ELSE loan[l].missed
           status == IF rest = 0 THEN "repaid" ELSE loan[l].status
           new == Edited(loan[l], rest, paid, missed, "ahead", status)
<1>1. /\ Proving(c) /\ Answer(c) /\ r.op = "repay"
      /\ UNCHANGED <<request, total, share, seized, keys, revoked, overlaps>>
  BY DEF ApplyRepay, Burn
<1>2. /\ q \in Requests /\ r # None /\ call[c].base \in Nat /\ call[c].nth \in Nat
      /\ r.user \in Users /\ r.amount \in Nat
      /\ l \in Requests /\ loan[l] # None /\ r.amount <= call[c].base
  BY <1>1, PartTypes DEF Proving, RequestOf, PoolInv, Sound
<1>3. rest \in Nat
  BY <1>2
<1>4. loan' = [loan EXCEPT ![l] = new]
  BY <1>2 DEF ApplyRepay, Edited, PoolInv, TypeOK
<1>5. new \in Loan /\ new.remaining = rest
  <2>1. loan[l] \in Loan
    BY <1>2, PartTypes DEF PoolInv
  <2>2. /\ paid \in Nat /\ missed \in Nat
        /\ status \in {"active", "repaid", "liquidated"}
    BY <2>1 DEF Loan
  <2>3. "ahead" \in {"ahead", "overdue", "late"}
    OBVIOUS
  <2> HIDE DEF rest, l, late, paid, missed, status
  <2>4. new = Edited(loan[l], rest, paid, missed, "ahead", status)
    OBVIOUS
  <2> HIDE DEF new, q, r
  <2>5. Edited(loan[l], rest, paid, missed, "ahead", status) \in Loan
    BY <1>3, <2>1, <2>2, <2>3, LoanEdited
  <2>6. Edited(loan[l], rest, paid, missed, "ahead", status).remaining = rest
    BY <2>1, EditedFields
  <2> QED BY <2>4, <2>5, <2>6
<1>6. <<q, "after">> \in PoolCommitments
  BY <1>2 DEF PoolCommitments
<1>7. tip' \in [Users -> PoolCommitments] /\ spent' \subseteq PoolCommitments
  BY <1>2, <1>6 DEF ApplyRepay, Burn, PoolInv, TypeOK
<1>8. outstanding' \in Nat
  BY <1>2 DEF ApplyRepay, Repaid, AtLeast0, PoolInv, TypeOK
<1>9. counted' \subseteq Requests \X Nat
  BY <1>2 DEF ApplyRepay, PoolInv, TypeOK
<1>10. onTime' \in [Users -> Nat]
  BY <1>2 DEF ApplyRepay, PoolInv, TypeOK
<1> HIDE DEF q, r, l, late, rest, paid, missed, status, new
<1>11. TypeOK'
  BY <1>1, <1>2, <1>3, <1>4, <1>5, <1>7, <1>8, <1>9, <1>10, LoanChanged, Answered
     DEF PoolInv, TypeOK, overlaps
<1>12. Steady
  BY <1>1, <1>2, <1>3, <1>4, <1>5, LoanChanged, Answered DEF Steady, PoolInv
<1> QED BY <1>2, <1>3, <1>4, <1>5, <1>11, <1>12, LoanChanged, SteadySound

(* A reseal, a revocation.                                                 *)
LEMMA OutsideSound ==
  ASSUME Constants, PoolInv, NEW q \in Requests, NEW u \in Users,
         Reseal(q, u) \/ Revoke(u)
  PROVE  PoolInv'
<1>1. CASE Reseal(q, u)
  <2> DEFINE r == [op |-> "deposit", user |-> u, old |-> tip[u], amount |-> 0,
                   collateral |-> 0, terms |-> 0, loan |-> None]
  <2>1. r \in Request /\ r.op = "deposit"
    BY DEF Request, Operations, PoolInv, TypeOK
  <2>2. request' = [request EXCEPT ![q] = r] /\ request[q] = None
    BY <1>1 DEF Reseal
  <2>3. <<q, "after">> \in PoolCommitments
    BY DEF PoolCommitments
  <2>4. UNCHANGED <<keys, revoked, call, poolVars, loanVars, overlaps>>
    BY <1>1 DEF Reseal
  <2>5. tip' \in [Users -> PoolCommitments] /\ spent' \subseteq PoolCommitments
    BY <1>1, <2>3 DEF Reseal, PoolInv, TypeOK
  <2> HIDE DEF r
  <2>6. TypeOK'
    BY <2>1, <2>2, <2>4, <2>5 DEF PoolInv, TypeOK, poolVars, loanVars, overlaps
  <2>7. Steady
    BY <2>1, <2>2, <2>4 DEF Steady, PoolInv, TypeOK, loanVars, Proving
  <2> QED BY <2>4, <2>6, <2>7, SteadySound DEF PoolInv, Sound, loanVars
<1>2. CASE Revoke(u)
  <2>1. TypeOK'
    BY <1>2 DEF Revoke, PoolInv, TypeOK, poolVars, loanVars, overlaps
  <2>2. UNCHANGED <<request, call, loan>>
    BY <1>2 DEF Revoke, loanVars
  <2> QED BY <2>1, <2>2 DEF PoolInv, Sound, Proving, RequestOf
<1> QED BY <1>1, <1>2

(* What time and liquidation make of a loan.                               *)
Aged(l, missed, due, status, remaining) ==
  loan' = [loan EXCEPT ![l] = Edited(loan[l], remaining, loan[l].paid, missed, due, status)]

(* What the passing of due dates makes of a loan.                          *)
LEMMA TimeAges ==
  ASSUME PoolInv, NEW l \in Requests, loan[l] # None
  PROVE  /\ TimePasses(l) => \E due \in {"overdue", "late"} :
              Aged(l, loan[l].missed, due, loan[l].status, loan[l].remaining)
         /\ RecordMiss(l) =>
              Aged(l, loan[l].missed + 1, "ahead", loan[l].status, loan[l].remaining)
         /\ Liquidate(l) => Aged(l, loan[l].missed + 1, "ahead", "liquidated", 0)
<1>1. loan[l] \in Loan /\ loan \in [Requests -> Loan \union {None}]
  BY PartTypes DEF PoolInv, TypeOK
<1>2. ASSUME TimePasses(l)
      PROVE  \E due \in {"overdue", "late"} :
               Aged(l, loan[l].missed, due, loan[l].status, loan[l].remaining)
  <2> DEFINE due == IF loan[l].due = "ahead" THEN "overdue" ELSE "late"
  <2>1. loan' = [loan EXCEPT ![l] = [loan[l] EXCEPT !.due = due]]
    BY <1>1, <1>2 DEF TimePasses
  <2>2. [loan[l] EXCEPT !.due = due]
          = Edited(loan[l], loan[l].remaining, loan[l].paid, loan[l].missed, due,
                   loan[l].status)
    BY <1>1 DEF Edited, Loan
  <2> QED BY <2>1, <2>2 DEF Aged
<1>3. ASSUME RecordMiss(l)
      PROVE  Aged(l, loan[l].missed + 1, "ahead", loan[l].status, loan[l].remaining)
  <2>1. loan' = [loan EXCEPT ![l] = [loan[l] EXCEPT !.missed = loan[l].missed + 1,
                                                    !.due = "ahead"]]
    BY <1>1, <1>3 DEF RecordMiss
  <2>2. [loan[l] EXCEPT !.missed = loan[l].missed + 1, !.due = "ahead"]
          = Edited(loan[l], loan[l].remaining, loan[l].paid, loan[l].missed + 1, "ahead",
                   loan[l].status)
    BY <1>1 DEF Edited, Loan
  <2> QED BY <2>1, <2>2 DEF Aged
<1>4. ASSUME Liquidate(l)
      PROVE  Aged(l, loan[l].missed + 1, "ahead", "liquidated", 0)
  <2>1. loan' = [loan EXCEPT ![l] = [loan[l] EXCEPT !.missed = loan[l].missed + 1,
                    !.due = "ahead", !.status = "liquidated", !.remaining = 0]]
    BY <1>1, <1>4 DEF Liquidate
  <2>2. [loan[l] EXCEPT !.missed = loan[l].missed + 1, !.due = "ahead",
                        !.status = "liquidated", !.remaining = 0]
          = Edited(loan[l], 0, loan[l].paid, loan[l].missed + 1, "ahead", "liquidated")
    BY <1>1 DEF Edited, Loan
  <2> QED BY <2>1, <2>2 DEF Aged
<1> QED BY <1>2, <1>3, <1>4

(* Time, a recorded miss and a liquidation.                                *)
LEMMA TimeSound ==
  ASSUME Constants, PoolInv, NEW l \in Requests,
         TimePasses(l) \/ RecordMiss(l) \/ Liquidate(l)
  PROVE  PoolInv'
<1>1. /\ loan[l] # None /\ loan[l] \in Loan /\ loan[l].paid \in Nat
      /\ loan[l].missed \in Nat /\ loan[l].remaining \in Nat /\ loan[l].collateral \in Nat
      /\ loan[l].status \in {"active", "repaid", "liquidated"}
  BY PartTypes DEF TimePasses, RecordMiss, Liquidate, Overdue, PoolInv, Sound, Loan
<1>2. PICK missed \in Nat, due \in {"ahead", "overdue", "late"},
           status \in {"active", "repaid", "liquidated"}, remaining \in Nat :
        Aged(l, missed, due, status, remaining)
  <2>1. loan[l].missed + 1 \in Nat
    BY <1>1
  <2> QED BY <1>1, <2>1, TimeAges
<1> DEFINE new == Edited(loan[l], remaining, loan[l].paid, missed, due, status)
<1>3. loan' = [loan EXCEPT ![l] = new]
  BY <1>2 DEF Aged
<1>4. new \in Loan /\ new.remaining = remaining
  <2>1. new = Edited(loan[l], remaining, loan[l].paid, missed, due, status)
    OBVIOUS
  <2> HIDE DEF new
  <2>2. Edited(loan[l], remaining, loan[l].paid, missed, due, status) \in Loan
    BY <1>1, LoanEdited
  <2>3. Edited(loan[l], remaining, loan[l].paid, missed, due, status).remaining = remaining
    BY <1>1, EditedFields
  <2> QED BY <2>1, <2>2, <2>3
<1> HIDE DEF new
<1>5. /\ loan' \in [Requests -> Loan \union {None}]
      /\ \A m \in Requests : loan[m] # None => loan'[m] # None
      /\ \A m \in Requests : loan'[m] # None => loan'[m].remaining \in Nat
  BY <1>3, <1>4, LoanChanged
<1>6. total' \in Nat /\ outstanding' \in Nat /\ seized' \subseteq Requests
  BY <1>1 DEF TimePasses, RecordMiss, Liquidate, Seized, AtLeast0, poolVars, PoolInv, TypeOK
<1>7. UNCHANGED <<accountVars, request, call, share, counted, onTime>>
  BY DEF TimePasses, RecordMiss, Liquidate, poolVars
<1>10. twice' \subseteq Requests /\ raced' \subseteq Requests /\ rushed' \subseteq Operations
  BY DEF TimePasses, RecordMiss, Liquidate, Noted, Operations, overlaps, PoolInv, TypeOK
<1>8. TypeOK'
  BY <1>5, <1>6, <1>7, <1>10 DEF PoolInv, TypeOK, accountVars
<1>9. Steady
  BY <1>5, <1>7 DEF Steady, Proving
<1> QED BY <1>5, <1>8, <1>9, SteadySound

(* Every step.                                                             *)
LEMMA NextSound == Constants /\ PoolInv /\ [Next]_vars => PoolInv'
<1> SUFFICES ASSUME Constants, PoolInv, [Next]_vars PROVE PoolInv'
  OBVIOUS
<1>1. CASE UNCHANGED vars
  BY <1>1 DEF vars, accountVars, poolVars, loanVars, overlaps, PoolInv, TypeOK, Sound,
              Proving, RequestOf
<1>2. CASE \E q \in Requests, u \in Users :
             \/ \E amount \in Deposits : ComposeDeposit(q, u, amount)
             \/ \E amount \in LoanSizes, collateral \in Collaterals, terms \in Terms :
                  ComposeBorrow(q, u, amount, collateral, terms)
             \/ Reseal(q, u)
  BY <1>2, DeviceSound, OutsideSound
<1>3. CASE \E q, l \in Requests : ComposeRepay(q, l)
  BY <1>3, DeviceSound
<1>4. ASSUME NEW u \in Users, Revoke(u) PROVE PoolInv'
  <2>1. TypeOK'
    BY <1>4 DEF Revoke, PoolInv, TypeOK, poolVars, loanVars, overlaps
  <2>2. UNCHANGED <<request, call, loan>>
    BY <1>4 DEF Revoke, loanVars
  <2> QED BY <2>1, <2>2 DEF PoolInv, Sound, Proving, RequestOf
<1>5. CASE \E c \in Calls, q \in Requests :
             BeginDeposit(c, q) \/ BeginBorrow(c, q) \/ BeginRepay(c, q)
  BY <1>5, BeginSound
<1>6. CASE \E c \in Calls :
             \/ CircuitFails(c) \/ AlreadySpent(c)
             \/ ApplyDeposit(c) \/ ApplyBorrow(c) \/ BorrowConflict(c) \/ ApplyRepay(c)
  BY <1>6, RefusalSound, DepositSound, BorrowSound, RepaySound
<1>7. CASE \E l \in Requests : TimePasses(l) \/ RecordMiss(l) \/ Liquidate(l)
  BY <1>7, TimeSound
<1> QED BY <1>1, <1>2, <1>3, <1>4, <1>5, <1>6, <1>7 DEF Next

(* The state of the pool is well formed: in particular the pool never      *)
(* shows a negative total, lends a negative sum or has a loan owe less     *)
(* than nothing, though a repayment writes what it read before its circuit.*)
THEOREM PoolTyping ==
  ASSUME Constants
  PROVE  Spec => [](TypeOK /\ Sound)
<1>1. Init => PoolInv
  BY InitSound
<1>2. PoolInv /\ [Next]_vars => PoolInv'
  BY NextSound
<1> QED BY <1>1, <1>2, PTL DEF Spec, PoolInv

(* A loan that is written anew; the others stay.                           *)
LEMMA LoanWritten ==
  ASSUME Constants, PoolInv, NEW l \in Requests, NEW new \in Loan,
         loan' = [loan EXCEPT ![l] = new]
  PROVE  loan'[l] = new /\ loan'[l] # None /\ \A m \in Requests \ {l} : loan'[m] = loan[m]
BY DEF PoolInv, TypeOK, Constants, NoneIsFresh

(* What an installment makes of its loan.                                  *)
LEMMA RepayEdits ==
  ASSUME Constants, PoolInv, NEW c \in Calls, ApplyRepay(c),
         NEW l, l = RequestOf(c).loan, NEW a, a = RequestOf(c).amount,
         NEW base, base = call[c].base
  PROVE  /\ l \in Requests /\ a \in Nat /\ base \in Nat /\ a <= base
         /\ loan[l] # None /\ loan'[l] # None
         /\ loan'[l].remaining = base - a
         /\ loan'[l].status = (IF base - a = 0 THEN "repaid" ELSE loan[l].status)
         /\ loan'[l].collateral = loan[l].collateral
         /\ \A m \in Requests \ {l} : loan'[m] = loan[m]
<1> DEFINE late == loan[l].due = "late"
           rest == base - a
           paid == loan[l].paid + 1
           missed == IF late THEN loan[l].missed + 1 ELSE loan[l].missed
           status == IF rest = 0 THEN "repaid" ELSE loan[l].status
<1>1. /\ l \in Requests /\ a \in Nat /\ base \in Nat /\ a <= base
      /\ loan[l] # None /\ loan[l] \in Loan
  BY PartTypes DEF ApplyRepay, Proving, RequestOf, PoolInv, Sound
<1>2. loan' = [loan EXCEPT ![l] = Edited(loan[l], rest, paid, missed, "ahead", status)]
  BY <1>1 DEF ApplyRepay, Edited, PoolInv, TypeOK
<1>3. /\ paid \in Nat /\ missed \in Nat /\ rest \in Nat
      /\ status \in {"active", "repaid", "liquidated"}
      /\ "ahead" \in {"ahead", "overdue", "late"}
  BY <1>1 DEF Loan
<1>4. rest = base - a /\ status = (IF base - a = 0 THEN "repaid" ELSE loan[l].status)
  OBVIOUS
<1> HIDE DEF late, rest, paid, missed, status
<1>5. PICK new : new = Edited(loan[l], rest, paid, missed, "ahead", status)
  OBVIOUS
<1>6. new \in Loan
  BY <1>1, <1>3, <1>5, LoanEdited
<1>7. /\ new.remaining = rest /\ new.status = status
      /\ new.collateral = loan[l].collateral
  BY <1>1, <1>5, EditedFields
<1>8. loan' = [loan EXCEPT ![l] = new]
  BY <1>2, <1>5
<1>9. loan'[l] = new /\ loan'[l] # None /\ \A m \in Requests \ {l} : loan'[m] = loan[m]
  BY <1>1, <1>6, <1>8, LoanWritten
<1> QED BY <1>1, <1>4, <1>7, <1>9

(* What time and liquidation leave of a loan.                              *)
LEMMA TimeEdits ==
  ASSUME Constants, PoolInv, NEW l \in Requests,
         TimePasses(l) \/ RecordMiss(l) \/ Liquidate(l)
  PROVE  /\ loan[l] # None /\ loan[l].remaining \in Nat /\ loan[l].collateral \in Nat
         /\ loan'[l] # None /\ loan'[l].collateral = loan[l].collateral
         /\ \A m \in Requests \ {l} : loan'[m] = loan[m]
         /\ \/ /\ UNCHANGED <<total, outstanding, seized>>
               /\ loan'[l].status = loan[l].status /\ loan'[l].remaining = loan[l].remaining
            \/ /\ Liquidate(l)
               /\ loan'[l].status = "liquidated" /\ loan'[l].remaining = 0
<1>1. /\ loan[l] # None /\ loan[l] \in Loan /\ loan[l].paid \in Nat
      /\ loan[l].missed \in Nat /\ loan[l].remaining \in Nat /\ loan[l].collateral \in Nat
      /\ loan[l].status \in {"active", "repaid", "liquidated"}
  BY PartTypes DEF TimePasses, RecordMiss, Liquidate, Overdue, PoolInv, Sound, Loan
<1>2. PICK missed \in Nat, due \in {"ahead", "overdue", "late"},
           status \in {"active", "repaid", "liquidated"}, remaining \in Nat :
        /\ Aged(l, missed, due, status, remaining)
        /\ \/ /\ UNCHANGED <<total, outstanding, seized>>
              /\ status = loan[l].status /\ remaining = loan[l].remaining
           \/ Liquidate(l) /\ status = "liquidated" /\ remaining = 0
  <2>1. loan[l].missed + 1 \in Nat
    BY <1>1
  <2>2. CASE TimePasses(l)
    BY <1>1, <2>2, TimeAges DEF TimePasses, poolVars
  <2>3. CASE RecordMiss(l)
    BY <1>1, <2>1, <2>3, TimeAges DEF RecordMiss, poolVars
  <2>4. CASE Liquidate(l)
    BY <1>1, <2>1, <2>4, TimeAges
  <2> QED BY <2>2, <2>3, <2>4
<1>3. PICK new : new = Edited(loan[l], remaining, loan[l].paid, missed, due, status)
  OBVIOUS
<1>4. new \in Loan
  BY <1>1, <1>3, LoanEdited
<1>5. /\ new.remaining = remaining /\ new.status = status
      /\ new.collateral = loan[l].collateral
  BY <1>1, <1>3, EditedFields
<1>6. loan' = [loan EXCEPT ![l] = new]
  BY <1>2, <1>3 DEF Aged
<1>7. loan'[l] = new /\ loan'[l] # None /\ \A m \in Requests \ {l} : loan'[m] = loan[m]
  BY <1>4, <1>6, LoanWritten
<1> QED BY <1>1, <1>2, <1>5, <1>7

-----------------------------------------------------------------------------
(* What overlaps, and what holds of what does not.                         *)

(* Request q has been carried out, in part or whole.                       *)
Used(q) ==
  \/ <<q, "after">> \in spent \/ <<q, "locked">> \in spent \/ loan[q] # None
  \/ \E u \in Users : tip[u] = <<q, "after">>

(* No two deliveries of a request of the account overlapped.               *)
Calm(u) == \A q \in twice : request[q].user # u

(* Calls that wait at once are noted.                                      *)
Apart ==
  /\ \A q \in twice : request[q] # None
  /\ \A c, d \in Calls : Proving(c) /\ Proving(d) /\ c # d =>
       /\ call[c].req = call[d].req => call[c].req \in twice
       /\ RequestOf(c).loan = RequestOf(d).loan => RequestOf(c).loan \in raced \union {None}
       /\ RequestOf(c).op = RequestOf(d).op => RequestOf(c).op \in rushed

(* An account shows a commitment of its own.                               *)
OwnTip(u) ==
  \/ tip[u] = <<u, "opening">>
  \/ \E q \in Requests :
       tip[u] = <<q, "after">> /\ request[q] # None /\ request[q].user = u

Tips ==
  /\ \A u \in Users : OwnTip(u)
  /\ \A q \in Requests : Used(q) => request[q] # None /\ request[q].old \in spent
  /\ \A u \in Users : Calm(u) => tip[u] \notin spent

(* What was borrowed is marked so.                                         *)
Marked == \A q \in Requests : loan[q] # None => <<q, "locked">> \in spent

(* What a call that waits has read of the account, the pool and the loan.  *)
AccountReads ==
  \A c \in Calls : Proving(c) =>
    /\ RequestOf(c).old \in spent \union {tip[RequestOf(c).user]}
    /\ Calm(RequestOf(c).user) => ~Used(call[c].req)
DepositReads ==
  \A c \in Calls : Proving(c) /\ RequestOf(c).op = "deposit" /\ "deposit" \notin rushed =>
    call[c].base = total
LoanReads ==
  \A c \in Calls : Proving(c) /\ RequestOf(c).op = "repay" /\ RequestOf(c).loan \notin raced =>
    /\ loan[RequestOf(c).loan].status = "active"
    /\ call[c].base = loan[RequestOf(c).loan].remaining

Over == \A l \in Requests \ raced :
          loan[l] # None /\ loan[l].status # "active" => loan[l].remaining = 0

Core == Apart /\ Tips /\ Marked /\ AccountReads /\ DepositReads /\ LoanReads /\ Over

(* A step that lets what is over be.                                       *)
Ends ==
  \A l \in Requests \ raced :
    loan[l] # None /\ loan[l].status # "active" =>
      loan'[l].status = loan[l].status /\ loan'[l].remaining = 0

SettledInv == PoolInv /\ Core

(* Calls are answered or stay as they are; requests stay, and so does what *)
(* was noted.                                                              *)
Fewer == \A c \in Calls : Proving(c)' =>
           Proving(c) /\ call'[c] = call[c] /\ RequestOf(c)' = RequestOf(c)
Kept ==
  /\ \A q \in Requests : request[q] # None => request'[q] = request[q]
  /\ twice \subseteq twice' /\ raced \subseteq raced' /\ rushed \subseteq rushed'

(* The first state.                                                        *)
LEMMA InitSettled == Constants /\ Init => Core
<1> SUFFICES ASSUME Constants, Init PROVE Core
  OBVIOUS
<1>1. \A c \in Calls : ~Proving(c)
  BY DEF Init, Proving
<1>2. Tips
  BY DEF Init, Tips, Used, OwnTip
<1> QED BY <1>1, <1>2 DEF Init, Core, Apart, Marked, AccountReads, DepositReads, LoanReads, Over

(* An account that was calm after a step was calm before it.               *)
LEMMA CalmBefore ==
  ASSUME PoolInv, Apart, Kept, NEW u \in Users, Calm(u)'
  PROVE  Calm(u)
BY DEF Calm, Kept, Apart, PoolInv, TypeOK

(* Fewer calls overlap no more.                                            *)
LEMMA ApartStill ==
  ASSUME PoolInv, Apart, Kept, Fewer, \A q \in twice' : request'[q] # None
  PROVE  Apart'
BY DEF Apart, Kept, Fewer

(* What a waiting call asks for.                                           *)
LEMMA OpenCall ==
  ASSUME PoolInv, NEW c \in Calls, Proving(c)
  PROVE  /\ call[c].req \in Requests /\ RequestOf(c) = request[call[c].req]
         /\ RequestOf(c) # None /\ RequestOf(c).user \in Users
         /\ RequestOf(c).amount \in Nat
         /\ RequestOf(c).op = "repay" => RequestOf(c).loan \in Requests
BY PartTypes DEF PoolInv, Sound, Proving, RequestOf

(* Calls whose request was not carried out since, and whose account moved  *)
(* only by spending, read what they read.                                  *)
LEMMA AccountStill ==
  ASSUME PoolInv, Apart, AccountReads, Kept, Fewer, spent \subseteq spent',
         NEW q, \A p \in Requests \ {q} : Used(p)' => Used(p),
         \A u \in Users : tip'[u] = tip[u] \/ tip[u] \in spent',
         \A c \in Calls : Proving(c)' /\ call[c].req = q => ~Calm(RequestOf(c).user)
  PROVE  AccountReads'
<1> SUFFICES ASSUME NEW c \in Calls, Proving(c)'
             PROVE  /\ RequestOf(c)'.old \in spent' \union {tip'[RequestOf(c)'.user]}
                    /\ Calm(RequestOf(c).user)' => ~Used(call[c].req)'
  BY DEF AccountReads
<1>1. Proving(c) /\ call'[c] = call[c] /\ RequestOf(c)' = RequestOf(c)
  BY DEF Fewer
<1>2. call[c].req \in Requests /\ RequestOf(c).user \in Users
  BY <1>1, OpenCall
<1>3. RequestOf(c).old \in spent' \union {tip'[RequestOf(c).user]}
  BY <1>1, <1>2 DEF AccountReads
<1>4. PICK u \in Users, p \in Requests : u = RequestOf(c).user /\ p = call[c].req
  BY <1>2
<1>5. ASSUME Calm(u)', Used(p)' PROVE FALSE
  <2>1. Calm(u)
    BY <1>5, CalmBefore
  <2>2. ~Used(p) /\ p # q
    BY <1>1, <1>4, <2>1 DEF AccountReads
  <2> QED BY <1>5, <2>2
<1>6. RequestOf(c)'.user = u /\ call'[c].req = p
  BY <1>1, <1>4
<1>7. Calm(RequestOf(c).user)' => ~Used(call[c].req)'
  BY <1>5, <1>6 DEF Calm, Used
<1> QED BY <1>1, <1>3, <1>7

(* What the loans are to the calls: how they stand and what is left.       *)
LoansStay == \A l \in Requests :
  /\ loan'[l] # None <=> loan[l] # None
  /\ loan[l] # None => loan'[l].status = loan[l].status /\ loan'[l].remaining = loan[l].remaining

(* A step that leaves accounts, pool and loans alone.                      *)
LEMMA QuietStep ==
  ASSUME Constants, PoolInv, Core, Kept, Fewer, UNCHANGED <<tip, spent, total>>, LoansStay,
         \A q \in twice' : request'[q] # None
  PROVE  Core' /\ Ends
<1>1. Apart'
  BY ApartStill DEF Core
<1>2. \A p \in Requests : Used(p)' => Used(p)
  BY DEF Used, LoansStay
<1>3. AccountReads'
  <2>1. \A c \in Calls : Proving(c)' => call[c].req # None
    BY OpenCall DEF Fewer, Constants, NoneIsFresh
  <2> QED BY <1>2, <2>1, AccountStill DEF Core
<1>4. Tips'
  <2>1. ASSUME NEW u \in Users PROVE OwnTip(u)'
    BY DEF Core, Tips, OwnTip, Kept
  <2>2. ASSUME NEW q \in Requests, Used(q)' PROVE request'[q] # None /\ request'[q].old \in spent'
    <3>1. request[q] # None /\ request[q].old \in spent
      BY <1>2, <2>2 DEF Core, Tips
    <3> QED BY <3>1 DEF Kept
  <2>3. ASSUME NEW u \in Users, Calm(u)' PROVE tip'[u] \notin spent'
    BY <2>3, CalmBefore DEF Core, Tips
  <2> QED BY <2>1, <2>2, <2>3 DEF Tips
<1>5. Marked' /\ Over' /\ Ends
  BY DEF Core, Marked, Over, Ends, LoansStay, Kept
<1>6. DepositReads'
  BY DEF Core, DepositReads, Fewer, Kept
<1>7. LoanReads'
  <2> SUFFICES ASSUME NEW c \in Calls, Proving(c)', RequestOf(c)'.op = "repay",
                      RequestOf(c)'.loan \notin raced'
               PROVE  /\ loan'[RequestOf(c)'.loan].status = "active"
                      /\ call'[c].base = loan'[RequestOf(c)'.loan].remaining
    BY DEF LoanReads
  <2>1. Proving(c) /\ call'[c] = call[c] /\ RequestOf(c)' = RequestOf(c)
    BY DEF Fewer
  <2>2. RequestOf(c).loan \in Requests /\ loan[RequestOf(c).loan] # None
    BY <2>1, OpenCall DEF PoolInv, Sound, Core, RequestOf
  <2> QED BY <2>1, <2>2 DEF Core, LoanReads, Kept, LoansStay
<1> QED BY <1>1, <1>3, <1>4, <1>5, <1>6, <1>7 DEF Core

(* Two accounts show different commitments, none of them one between lock  *)
(* and disbursement.                                                       *)
LEMMA TipsDiffer ==
  ASSUME Tips
  PROVE  /\ \A u, v \in Users : tip[u] = tip[v] => u = v
         /\ \A u \in Users, q \in Requests : tip[u] # <<q, "locked">>
<1>1. ASSUME NEW u \in Users, NEW v \in Users, tip[u] = tip[v] PROVE u = v
  <2>1. OwnTip(u) /\ OwnTip(v)
    BY DEF Tips
  <2>2. CASE tip[u] = <<u, "opening">>
    BY <1>1, <2>1, <2>2 DEF OwnTip
  <2>3. CASE \E q \in Requests :
               tip[u] = <<q, "after">> /\ request[q] # None /\ request[q].user = u
    BY <1>1, <2>1, <2>3 DEF OwnTip
  <2> QED BY <2>1, <2>2, <2>3 DEF OwnTip
<1>2. \A u \in Users, q \in Requests : tip[u] # <<q, "locked">>
  BY DEF Tips, OwnTip
<1> QED BY <1>1, <1>2

(* An account that moves on by request q, which was made for what it moves *)
(* from or for what is spent, leaves the commitments in order.             *)
LEMMA TipsMove ==
  ASSUME PoolInv, Apart, Tips, Kept, NEW q \in Requests, NEW u \in Users,
         tip' = [tip EXCEPT ![u] = <<q, "after">>],
         spent \union {tip[u]} \subseteq spent',
         spent' \subseteq spent \union {tip[u], <<q, "locked">>},
         Calm(u) => ~Used(q),
         request[q] # None => request[q].user = u,
         request'[q] # None, request'[q].user = u, request'[q].old \in spent',
         \A p \in Requests \ {q} : request'[p] = request[p],
         \A p \in Requests \ {q} : loan'[p] # None => loan[p] # None
  PROVE  Tips' /\ \A p \in Requests \ {q} : Used(p)' => Used(p)
<1>1. tip'[u] = <<q, "after">> /\ \A v \in Users \ {u} : tip'[v] = tip[v]
  BY DEF PoolInv, TypeOK
<1>2. <<q, "after">> # <<q, "locked">>
  OBVIOUS
<1>3. ASSUME NEW p \in Requests \ {q}, Used(p)' PROVE Used(p)
  <2>1. <<p, "after">> # <<q, "locked">> /\ <<p, "locked">> # <<q, "locked">>
          /\ <<p, "after">> # <<q, "after">>
    OBVIOUS
  <2>2. <<p, "locked">> \in spent' => <<p, "locked">> \in spent
    BY <2>1, TipsDiffer
  <2>3. <<p, "after">> \in spent' => <<p, "after">> \in spent \/ tip[u] = <<p, "after">>
    BY <2>1
  <2>4. \A v \in Users : tip'[v] = <<p, "after">> => tip[v] = <<p, "after">>
    BY <1>1, <2>1
  <2> QED BY <1>3, <2>2, <2>3, <2>4 DEF Used
<1>4. ASSUME NEW v \in Users PROVE OwnTip(v)'
  <2>1. CASE v = u
    BY <1>1, <2>1 DEF OwnTip
  <2>2. CASE v # u
    BY <1>1, <2>2 DEF Tips, OwnTip, Kept
  <2> QED BY <2>1, <2>2
<1>5. ASSUME NEW p \in Requests, Used(p)' PROVE request'[p] # None /\ request'[p].old \in spent'
  <2>1. CASE p = q
    BY <2>1
  <2>2. CASE p # q
    <3>1. request[p] # None /\ request[p].old \in spent
      BY <1>3, <1>5, <2>2 DEF Tips
    <3> QED BY <2>2, <3>1
  <2> QED BY <2>1, <2>2
<1>6. ASSUME NEW v \in Users, Calm(v)' PROVE tip'[v] \notin spent'
  <2>1. Calm(v)
    BY <1>6, CalmBefore
  <2>2. CASE v = u
    <3>1. <<q, "after">> \notin spent /\ tip[u] # <<q, "after">>
      BY <2>1, <2>2 DEF Used
    <3> QED BY <1>1, <1>2, <2>2, <3>1
  <2>3. CASE v # u
    BY <1>1, <2>1, <2>3, TipsDiffer DEF Tips
  <2> QED BY <2>2, <2>3
<1> QED BY <1>3, <1>4, <1>5, <1>6 DEF Tips

(* A composed request, or a revocation.                                    *)
LEMMA ComposeSettled ==
  ASSUME Constants, PoolInv, Core, NEW q \in Requests, NEW r, NEW u, Compose(q, r) \/ Revoke(u)
  PROVE  Core' /\ Ends
<1>1. UNCHANGED <<tip, spent, call, total, loan, overlaps>>
  BY DEF Compose, Revoke, accountVars, poolVars, loanVars
<1>2. \A p \in Requests : request[p] # None => request'[p] = request[p]
  BY DEF Compose, Revoke, PoolInv, TypeOK
<1>3. Kept /\ LoansStay
  BY <1>1, <1>2 DEF Kept, LoansStay, overlaps
<1>4. Fewer
  BY <1>1, <1>2, OpenCall DEF Fewer, Proving, RequestOf
<1>5. \A p \in twice' : request'[p] # None
  BY <1>1, <1>2 DEF Core, Apart, PoolInv, TypeOK, overlaps
<1> QED BY <1>1, <1>3, <1>4, <1>5, QuietStep

(* A reseal.                                                               *)
LEMMA ResealSettled ==
  ASSUME Constants, PoolInv, Core, NEW q \in Requests, NEW u \in Users, Reseal(q, u)
  PROVE  Core' /\ Ends
<1> DEFINE r == [op |-> "deposit", user |-> u, old |-> tip[u], amount |-> 0,
                 collateral |-> 0, terms |-> 0, loan |-> None]
<1>1. UNCHANGED <<call, total, loan, overlaps>>
  BY DEF Reseal, poolVars, loanVars
<1>2. r \in Request /\ r.old = tip[u] /\ r.user = u
  BY DEF Request, Operations, PoolInv, TypeOK
<1>3. request' = [request EXCEPT ![q] = r] /\ request[q] = None
  BY DEF Reseal
<1> HIDE DEF r
<1>4. r # None
  BY <1>2 DEF Constants, NoneIsFresh
<1>5. /\ request'[q] # None /\ request'[q].user = u /\ request'[q].old = tip[u]
      /\ \A p \in Requests \ {q} : request'[p] = request[p]
  BY <1>2, <1>3, <1>4 DEF PoolInv, TypeOK
<1>6. tip' = [tip EXCEPT ![u] = <<q, "after">>] /\ spent' = spent \union {tip[u]}
  BY DEF Reseal
<1>7. Kept
  BY <1>1, <1>3, <1>5 DEF Kept, overlaps
<1>8. \A c \in Calls : Proving(c) => call[c].req \in Requests \ {q}
  BY <1>3, OpenCall
<1>9. Fewer
  BY <1>1, <1>5, <1>8 DEF Fewer, Proving, RequestOf
<1>10. Apart'
  <2>1. \A p \in twice' : request'[p] # None
    BY <1>1, <1>7 DEF Core, Apart, Kept, PoolInv, TypeOK, overlaps
  <2> QED BY <1>7, <1>9, <2>1, ApartStill DEF Core
<1>11. ~Used(q)
  BY <1>3 DEF Core, Tips
<1>12. Tips' /\ \A p \in Requests \ {q} : Used(p)' => Used(p)
  <2>1. request'[q].old \in spent' /\ spent \union {tip[u]} \subseteq spent'
          /\ spent' \subseteq spent \union {tip[u], <<q, "locked">>}
    BY <1>5, <1>6
  <2>2. \A p \in Requests \ {q} : loan'[p] # None => loan[p] # None
    BY <1>1
  <2> QED BY <1>3, <1>5, <1>6, <1>7, <1>11, <2>1, <2>2, TipsMove DEF Core
<1>13. \A v \in Users : tip'[v] = tip[v] \/ tip[v] \in spent'
  BY <1>6 DEF PoolInv, TypeOK
<1>14. AccountReads'
  <2>1. \A c \in Calls : Proving(c)' /\ call[c].req = q => ~Calm(RequestOf(c).user)
    BY <1>8, <1>9 DEF Fewer
  <2> QED BY <1>6, <1>7, <1>9, <1>12, <1>13, <2>1, AccountStill DEF Core
<1>15. Marked' /\ DepositReads' /\ LoanReads' /\ Over' /\ Ends
  BY <1>1, <1>6, <1>9 DEF Core, Marked, DepositReads, LoanReads, Over, Ends, Fewer, overlaps
<1> QED BY <1>10, <1>12, <1>14, <1>15 DEF Core
(* A call that opens has read what its checks ask for; what it overlaps is *)
(* noted.                                                                  *)
LEMMA BeginSettled ==
  ASSUME Constants, PoolInv, Core, NEW c \in Calls, NEW q \in Requests,
         BeginDeposit(c, q) \/ BeginBorrow(c, q) \/ BeginRepay(c, q)
  PROVE  Core' /\ Ends
<1>1. PICK base, nth : Open(c, q, base, nth) /\
        /\ request[q] # None
        /\ request[q].old = tip[request[q].user]
        /\ request[q].op = "deposit" => base = total
        /\ request[q].op = "repay" =>
             /\ loan[request[q].loan].status = "active"
             /\ base = loan[request[q].loan].remaining
  <2>1. CASE BeginDeposit(c, q)
    BY <2>1 DEF BeginDeposit, Current
  <2>2. CASE BeginBorrow(c, q)
    BY <2>2 DEF BeginBorrow, Current
  <2>3. CASE BeginRepay(c, q)
    BY <2>3 DEF BeginRepay, Current
  <2> QED BY <2>1, <2>2, <2>3
<1>2. /\ UNCHANGED <<tip, spent, request, total, loan>>
      /\ call[c] = None
      /\ call' = [call EXCEPT ![c] = [at |-> "proving", req |-> q, base |-> base, nth |-> nth]]
  BY <1>1 DEF Open, accountVars, poolVars, loanVars
<1>3. /\ call'[c].req = q /\ call'[c].base = base /\ RequestOf(c)' = request[q]
      /\ ~Proving(c)
  BY <1>2 DEF Proving, RequestOf, PoolInv, TypeOK
<1>4. \A d \in Calls \ {c} : /\ Proving(d)' <=> Proving(d)
                             /\ call'[d] = call[d] /\ RequestOf(d)' = RequestOf(d)
  BY <1>2 DEF Proving, RequestOf, PoolInv, TypeOK
<1>5. Kept
  BY <1>1, <1>2 DEF Kept, Open, Noted
<1>6. Apart'
  <2>1. \A p \in twice' : request'[p] # None
    BY <1>1, <1>2 DEF Core, Apart, Open, Noted
  <2>2. ASSUME NEW d \in Calls \ {c}, Proving(d)
        PROVE  /\ call[d].req = q => q \in twice'
               /\ RequestOf(d).loan = request[q].loan => request[q].loan \in raced' \union {None}
               /\ RequestOf(d).op = request[q].op => request[q].op \in rushed'
    <3>1. call[d].req = q => q \in twice'
      BY <1>1, <2>2 DEF Open, Noted, Delivered
    <3>2. RequestOf(d).loan = request[q].loan => request[q].loan \in raced' \union {None}
      BY <1>1, <2>2 DEF Open, Noted, RepayWaits
    <3>3. RequestOf(d).op = request[q].op => request[q].op \in rushed'
      BY <1>1, <2>2 DEF Open, Noted, Waits
    <3> QED BY <3>1, <3>2, <3>3
  <2>3. ASSUME NEW d \in Calls, NEW e \in Calls, Proving(d)', Proving(e)', d # e
        PROVE  /\ call'[d].req = call'[e].req => call'[d].req \in twice'
               /\ RequestOf(d)'.loan = RequestOf(e)'.loan =>
                    RequestOf(d)'.loan \in raced' \union {None}
               /\ RequestOf(d)'.op = RequestOf(e)'.op => RequestOf(d)'.op \in rushed'
    <3>1. CASE d = c
      BY <1>3, <1>4, <2>2, <2>3, <3>1
    <3>2. CASE e = c
      BY <1>3, <1>4, <2>2, <2>3, <3>2
    <3>3. CASE d # c /\ e # c
      <4>1. /\ Proving(d) /\ Proving(e) /\ call'[d] = call[d] /\ call'[e] = call[e]
            /\ RequestOf(d)' = RequestOf(d) /\ RequestOf(e)' = RequestOf(e)
        BY <1>4, <2>3, <3>3
      <4> QED BY <1>5, <2>3, <4>1 DEF Core, Apart, Kept
    <3> QED BY <3>1, <3>2, <3>3
  <2> QED BY <2>1, <2>3 DEF Apart
<1>7. Tips'
  <2>1. ASSUME NEW u \in Users, Calm(u)' PROVE tip'[u] \notin spent'
    BY <1>2, <1>5, <2>1, CalmBefore DEF Core, Tips
  <2>2. \A u \in Users : OwnTip(u)'
    BY <1>2 DEF Core, Tips, OwnTip
  <2>3. \A p \in Requests : Used(p)' => request'[p] # None /\ request'[p].old \in spent'
    BY <1>2 DEF Core, Tips, Used
  <2> QED BY <2>1, <2>2, <2>3 DEF Tips
<1>8. AccountReads'
  <2> SUFFICES ASSUME NEW d \in Calls, Proving(d)'
               PROVE  /\ RequestOf(d)'.old \in spent' \union {tip'[RequestOf(d)'.user]}
                      /\ Calm(RequestOf(d).user)' => ~Used(call[d].req)'
    BY DEF AccountReads
  <2>1. PICK u \in Users, p \in Requests :
          /\ p = call'[d].req /\ u = request[p].user /\ RequestOf(d)' = request[p]
    <3>1. CASE d = c
      BY <1>1, <1>3, <3>1, PartTypes DEF PoolInv
    <3>2. CASE d # c
      BY <1>4, <3>2, OpenCall
    <3> QED BY <3>1, <3>2
  <2>2. request[p].old \in spent \union {tip[u]}
    <3>1. CASE d = c
      BY <1>1, <1>3, <2>1, <3>1
    <3>2. CASE d # c
      BY <1>4, <2>1, <3>2 DEF Core, AccountReads
    <3> QED BY <3>1, <3>2
  <2>3. Calm(u) => ~Used(p)
    <3>1. CASE d = c
      BY <1>1, <1>3, <2>1, <3>1 DEF Core, Tips
    <3>2. CASE d # c
      BY <1>4, <2>1, <3>2 DEF Core, AccountReads
    <3> QED BY <3>1, <3>2
  <2>4. Calm(u)' => ~Used(p)'
    <3>1. Used(p)' => Used(p)
      BY <1>2 DEF Used
    <3>2. Calm(u)' => Calm(u)
      BY <1>5, CalmBefore DEF Core
    <3> QED BY <2>3, <3>1, <3>2
  <2> QED BY <1>2, <2>1, <2>2, <2>4 DEF Calm, Used
<1>9. DepositReads'
  BY <1>1, <1>2, <1>3, <1>4, <1>5 DEF Core, DepositReads, Kept
<1>10. LoanReads'
  BY <1>1, <1>2, <1>3, <1>4, <1>5 DEF Core, LoanReads, Kept
<1>11. Marked' /\ Over' /\ Ends
  BY <1>2, <1>5 DEF Core, Marked, Over, Ends, Kept
<1> QED BY <1>6, <1>7, <1>8, <1>9, <1>10, <1>11 DEF Core

(* What an answer that leaves the requests alone keeps of the calls.       *)
LEMMA AnswerKeeps ==
  ASSUME Constants, PoolInv, Core, NEW c \in Calls, Proving(c), Answer(c),
         UNCHANGED <<request, overlaps>>
  PROVE  Kept /\ Fewer /\ Apart' /\ ~Proving(c)'
<1>1. \A d \in Calls : Proving(d)' => d # c /\ Proving(d) /\ call'[d] = call[d]
  BY Answered DEF PoolInv
<1>2. Kept /\ Fewer
  BY <1>1 DEF Kept, Fewer, RequestOf, overlaps
<1>3. \A p \in twice' : request'[p] # None
  BY DEF Core, Apart, overlaps
<1> QED BY <1>1, <1>2, <1>3, ApartStill DEF Core

(* A call that fails, or finds its commitment spent.                       *)
LEMMA RefusalSettled ==
  ASSUME Constants, PoolInv, Core, NEW c \in Calls, CircuitFails(c) \/ AlreadySpent(c)
  PROVE  Core' /\ Ends
<1>1. /\ Proving(c) /\ Answer(c)
      /\ UNCHANGED <<request, overlaps, tip, spent, total, loan>>
  BY DEF CircuitFails, AlreadySpent, Answer, accountVars, poolVars, loanVars
<1>2. Kept /\ Fewer /\ LoansStay
  BY <1>1, AnswerKeeps DEF LoansStay
<1>3. \A p \in twice' : request'[p] # None
  BY <1>1 DEF Core, Apart, overlaps
<1> QED BY <1>1, <1>2, <1>3, QuietStep

(* A loan whose second nullifier is taken: another delivery of the same    *)
(* request was carried out.                                                *)
LEMMA ConflictSettled ==
  ASSUME Constants, PoolInv, Core, NEW c \in Calls, BorrowConflict(c)
  PROVE  Core' /\ Ends
<1>1. PICK u \in Users, q \in Requests : u = RequestOf(c).user /\ q = call[c].req
  BY OpenCall DEF BorrowConflict
<1>2. /\ Proving(c) /\ Answer(c) /\ UNCHANGED <<request, overlaps, tip, total, loan>>
      /\ <<q, "locked">> \in spent \union {tip[u]} /\ spent' = spent \union {tip[u]}
  BY <1>1 DEF BorrowConflict, poolVars, loanVars
<1>3. Kept /\ Fewer /\ Apart'
  BY <1>2, AnswerKeeps
<1>4. ~Calm(u)
  <2> SUFFICES ASSUME Calm(u) PROVE FALSE
    OBVIOUS
  <2>1. ~Used(q)
    BY <1>1, <1>2 DEF Core, AccountReads
  <2>2. tip[u] # <<q, "locked">>
    BY TipsDiffer DEF Core
  <2> QED BY <1>2, <2>1, <2>2 DEF Used
<1>5. \A p \in Requests : Used(p)' => Used(p)
  <2>1. \A p \in Requests : tip[u] # <<p, "locked">>
    BY TipsDiffer DEF Core
  <2> QED BY <1>2, <2>1 DEF Used
<1>6. Tips'
  <2>1. ASSUME NEW v \in Users, Calm(v)' PROVE tip'[v] \notin spent'
    <3>1. Calm(v)
      BY <1>3, <2>1, CalmBefore DEF Core
    <3>2. v # u
      BY <1>4, <3>1
    <3> QED BY <1>2, <3>1, <3>2, TipsDiffer DEF Core, Tips
  <2>2. \A v \in Users : OwnTip(v)'
    BY <1>2 DEF Core, Tips, OwnTip
  <2>3. \A p \in Requests : Used(p)' => request'[p] # None /\ request'[p].old \in spent'
    BY <1>2, <1>5 DEF Core, Tips
  <2> QED BY <2>1, <2>2, <2>3 DEF Tips
<1>7. AccountReads'
  <2>1. \A d \in Calls : Proving(d)' => call[d].req # None
    BY <1>3, OpenCall DEF Fewer, Constants, NoneIsFresh
  <2> QED BY <1>2, <1>3, <1>5, <2>1, AccountStill DEF Core
<1>8. Marked' /\ DepositReads' /\ LoanReads' /\ Over' /\ Ends
  BY <1>2, <1>3 DEF Core, Marked, DepositReads, LoanReads, Over, Ends, Fewer, overlaps
<1> QED BY <1>3, <1>6, <1>7, <1>8 DEF Core

(* What the three handlers do to the account.                              *)
LEMMA AccountMoves ==
  ASSUME Constants, PoolInv, Core, NEW c \in Calls, Proving(c), Answer(c),
         UNCHANGED <<request, overlaps>>,
         tip' = [tip EXCEPT ![RequestOf(c).user] = <<call[c].req, "after">>],
         \/ spent' = spent \union {tip[RequestOf(c).user]}
         \/ spent' = spent \union {tip[RequestOf(c).user], <<call[c].req, "locked">>},
         \A p \in Requests \ {call[c].req} : loan'[p] # None => loan[p] # None
  PROVE  Tips' /\ AccountReads'
<1>1. PICK u \in Users, q \in Requests :
        /\ u = RequestOf(c).user /\ q = call[c].req
        /\ RequestOf(c) = request[q] /\ request[q] # None
  BY OpenCall
<1>2. tip' = [tip EXCEPT ![u] = <<q, "after">>]
  BY <1>1
<1>3. /\ spent \union {tip[u]} \subseteq spent'
      /\ spent' \subseteq spent \union {tip[u], <<q, "locked">>}
  BY <1>1
<1>4. Kept /\ Fewer /\ ~Proving(c)'
  BY AnswerKeeps
<1>5. /\ Calm(u) => ~Used(q)
      /\ request[q].old \in spent'
  BY <1>1, <1>3 DEF Core, AccountReads
<1>6. Tips' /\ \A p \in Requests \ {q} : Used(p)' => Used(p)
  <2>1. \A p \in Requests \ {q} : loan'[p] # None => loan[p] # None
    BY <1>1
  <2>2. request'[q] # None /\ request'[q].user = u /\ request'[q].old \in spent'
    BY <1>1, <1>5
  <2> QED BY <1>1, <1>2, <1>3, <1>4, <1>5, <2>1, <2>2, TipsMove DEF Core
<1>7. ASSUME NEW d \in Calls, Proving(d)', call[d].req = q PROVE ~Calm(RequestOf(d).user)
  <2>1. Proving(d) /\ d # c
    BY <1>4, <1>7 DEF Fewer
  <2>2. q \in twice
    BY <1>1, <1>7, <2>1 DEF Core, Apart
  <2>3. RequestOf(d) = request[q]
    BY <1>7 DEF RequestOf
  <2> QED BY <2>2, <2>3 DEF Calm
<1>8. \A v \in Users : tip'[v] = tip[v] \/ tip[v] \in spent'
  BY <1>2, <1>3 DEF PoolInv, TypeOK
<1>9. AccountReads'
  BY <1>3, <1>4, <1>6, <1>7, <1>8, AccountStill DEF Core
<1> QED BY <1>6, <1>9

(* A deposit: no other one that waits has read the total.                  *)
LEMMA DepositSettled ==
  ASSUME Constants, PoolInv, Core, NEW c \in Calls, ApplyDeposit(c)
  PROVE  Core' /\ Ends
<1>1. /\ Proving(c) /\ Answer(c) /\ RequestOf(c).op = "deposit"
      /\ UNCHANGED <<request, overlaps, loan>>
      /\ tip' = [tip EXCEPT ![RequestOf(c).user] = <<call[c].req, "after">>]
      /\ spent' = spent \union {tip[RequestOf(c).user]}
  BY DEF ApplyDeposit, Burn, loanVars
<1>2. Kept /\ Fewer /\ Apart' /\ ~Proving(c)'
  BY <1>1, AnswerKeeps
<1>3. Tips' /\ AccountReads'
  BY <1>1, AccountMoves
<1>4. DepositReads'
  <2>1. ASSUME NEW d \in Calls, Proving(d)', RequestOf(d)'.op = "deposit"
        PROVE  "deposit" \in rushed'
    <3>1. Proving(d) /\ d # c /\ RequestOf(d).op = "deposit"
      BY <1>2, <2>1 DEF Fewer
    <3> QED BY <1>1, <1>2, <3>1 DEF Core, Apart, Kept
  <2> QED BY <2>1 DEF DepositReads
<1>5. Marked' /\ LoanReads' /\ Over' /\ Ends
  BY <1>1, <1>2 DEF Core, Marked, LoanReads, Over, Ends, Fewer, overlaps
<1> QED BY <1>2, <1>3, <1>4, <1>5 DEF Core

(* A loan is a new one: its request was not carried out before.            *)
LEMMA BorrowSettled ==
  ASSUME Constants, PoolInv, Core, NEW c \in Calls, ApplyBorrow(c)
  PROVE  Core' /\ Ends
<1> DEFINE q == call[c].req
<1>1. /\ Proving(c) /\ Answer(c)
      /\ UNCHANGED <<request, total, overlaps>>
      /\ loan' = [loan EXCEPT ![q] = NewLoan(RequestOf(c))]
      /\ tip' = [tip EXCEPT ![RequestOf(c).user] = <<q, "after">>]
      /\ spent' = spent \union {tip[RequestOf(c).user], <<q, "locked">>}
      /\ <<q, "locked">> \notin spent
  BY DEF ApplyBorrow
<1>2. q \in Requests /\ loan[q] = None
  BY <1>1, OpenCall DEF Core, Marked
<1>3. /\ loan'[q].status = "active"
      /\ \A p \in Requests \ {q} : loan'[p] = loan[p]
  BY <1>1, <1>2 DEF NewLoan, PoolInv, TypeOK
<1>4. Tips' /\ AccountReads'
  BY <1>1, <1>3, AccountMoves
<1>5. Kept /\ Fewer /\ Apart'
  BY <1>1, AnswerKeeps
<1> HIDE DEF q
<1>6. Marked'
  BY <1>1, <1>3 DEF Core, Marked
<1>7. DepositReads'
  BY <1>1, <1>5 DEF Core, DepositReads, Fewer, overlaps
<1>8. LoanReads'
  <2> SUFFICES ASSUME NEW d \in Calls, Proving(d)', RequestOf(d)'.op = "repay",
                      RequestOf(d)'.loan \notin raced'
               PROVE  /\ loan'[RequestOf(d)'.loan].status = "active"
                      /\ call'[d].base = loan'[RequestOf(d)'.loan].remaining
    BY DEF LoanReads
  <2>1. Proving(d) /\ call'[d] = call[d] /\ RequestOf(d)' = RequestOf(d)
    BY <1>5 DEF Fewer
  <2>2. RequestOf(d).loan \in Requests /\ loan[RequestOf(d).loan] # None
    BY <2>1, OpenCall DEF PoolInv, Sound, RequestOf
  <2>3. RequestOf(d).loan # q
    BY <1>2, <2>2
  <2> QED BY <1>3, <1>5, <2>1, <2>2, <2>3 DEF Core, LoanReads, Kept
<1>9. Over' /\ Ends
  BY <1>1, <1>2, <1>3 DEF Core, Over, Ends, overlaps
<1> QED BY <1>4, <1>5, <1>6, <1>7, <1>8, <1>9 DEF Core

(* An installment: no other repayment of the loan waits, unless it was     *)
(* raced over.                                                             *)
LEMMA RepaySettled ==
  ASSUME Constants, PoolInv, Core, NEW c \in Calls, ApplyRepay(c)
  PROVE  Core' /\ Ends
<1> DEFINE l == RequestOf(c).loan
           a == RequestOf(c).amount
           base == call[c].base
<1>1. /\ Proving(c) /\ Answer(c) /\ RequestOf(c).op = "repay"
      /\ UNCHANGED <<request, total, overlaps>>
      /\ tip' = [tip EXCEPT ![RequestOf(c).user] = <<call[c].req, "after">>]
      /\ spent' = spent \union {tip[RequestOf(c).user]}
  BY DEF ApplyRepay, Burn
<1>2. /\ l \in Requests /\ a \in Nat /\ base \in Nat /\ a <= base
      /\ loan[l] # None /\ loan'[l] # None
      /\ loan'[l].remaining = base - a
      /\ loan'[l].status = (IF base - a = 0 THEN "repaid" ELSE loan[l].status)
      /\ loan'[l].collateral = loan[l].collateral
      /\ \A m \in Requests \ {l} : loan'[m] = loan[m]
  BY RepayEdits
<1>3. l \notin raced => loan[l].status = "active"
  BY <1>1 DEF Core, LoanReads
<1>4. Kept /\ Fewer /\ Apart' /\ ~Proving(c)'
  BY <1>1, AnswerKeeps
<1>5. ASSUME NEW d \in Calls, Proving(d)', RequestOf(d)'.loan = l PROVE l \in raced'
  <2>1. Proving(d) /\ d # c /\ RequestOf(d).loan = l
    BY <1>4, <1>5 DEF Fewer
  <2>2. l # None
    BY <1>2 DEF Constants, NoneIsFresh
  <2> QED BY <1>1, <1>4, <2>1, <2>2 DEF Core, Apart, Kept
<1>6. RequestOf(c).loan = l
  OBVIOUS
<1> HIDE DEF l, a, base
<1>7. Tips' /\ AccountReads'
  BY <1>1, <1>2, AccountMoves
<1>8. Marked'
  BY <1>1, <1>2 DEF Core, Marked
<1>9. DepositReads'
  BY <1>1, <1>4 DEF Core, DepositReads, Fewer, overlaps
<1>10. LoanReads'
  <2> SUFFICES ASSUME NEW d \in Calls, Proving(d)', RequestOf(d)'.op = "repay",
                      RequestOf(d)'.loan \notin raced'
               PROVE  /\ loan'[RequestOf(d)'.loan].status = "active"
                      /\ call'[d].base = loan'[RequestOf(d)'.loan].remaining
    BY DEF LoanReads
  <2>1. Proving(d) /\ call'[d] = call[d] /\ RequestOf(d)' = RequestOf(d)
    BY <1>4 DEF Fewer
  <2>2. RequestOf(d).loan \in Requests /\ RequestOf(d).loan # l
    BY <1>5, <2>1, OpenCall
  <2> QED BY <1>2, <1>4, <2>1, <2>2 DEF Core, LoanReads, Kept
<1>11. Over' /\ Ends
  BY <1>1, <1>2, <1>3 DEF Core, Over, Ends, overlaps
<1> QED BY <1>4, <1>7, <1>8, <1>9, <1>10, <1>11 DEF Core

(* Time and liquidation: a repayment or a deposit that waits is noted.     *)
LEMMA TimeSettled ==
  ASSUME Constants, PoolInv, Core, NEW l \in Requests,
         TimePasses(l) \/ RecordMiss(l) \/ Liquidate(l)
  PROVE  Core' /\ Ends
<1>1. /\ loan[l] # None /\ loan'[l] # None
      /\ \A m \in Requests \ {l} : loan'[m] = loan[m]
      /\ \/ /\ UNCHANGED <<total, outstanding, seized>>
            /\ loan'[l].status = loan[l].status /\ loan'[l].remaining = loan[l].remaining
         \/ /\ Liquidate(l)
            /\ loan'[l].status = "liquidated" /\ loan'[l].remaining = 0
  BY TimeEdits
<1>2. UNCHANGED <<tip, spent, request, call, twice>>
  BY DEF TimePasses, RecordMiss, Liquidate, accountVars, overlaps
<1>3. Kept /\ Fewer
  <2>1. raced \subseteq raced' /\ rushed \subseteq rushed'
    BY DEF TimePasses, RecordMiss, Liquidate, overlaps, Noted
  <2> QED BY <1>2, <2>1 DEF Kept, Fewer, Proving, RequestOf
<1>4. \A p \in twice' : request'[p] # None
  BY <1>2 DEF Core, Apart
<1>5. \A m \in Requests : loan'[m] # None <=> loan[m] # None
  BY <1>1
<1>6. CASE /\ UNCHANGED <<total, outstanding, seized>>
           /\ loan'[l].status = loan[l].status /\ loan'[l].remaining = loan[l].remaining
  <2>1. LoansStay
    BY <1>1, <1>6 DEF LoansStay
  <2> QED BY <1>2, <1>3, <1>4, <1>6, <2>1, QuietStep
<1>7. CASE Liquidate(l) /\ loan'[l].status = "liquidated" /\ loan'[l].remaining = 0
  <2>1. Apart'
    BY <1>3, <1>4, ApartStill DEF Core
  <2>2. \A p \in Requests : Used(p)' => Used(p)
    BY <1>2, <1>5 DEF Used
  <2>3. Tips'
    <3>1. ASSUME NEW u \in Users, Calm(u)' PROVE tip'[u] \notin spent'
      BY <1>2, <1>3, <3>1, CalmBefore DEF Core, Tips
    <3>2. \A u \in Users : OwnTip(u)'
      BY <1>2 DEF Core, Tips, OwnTip
    <3>3. \A p \in Requests : Used(p)' => request'[p] # None /\ request'[p].old \in spent'
      BY <1>2, <2>2 DEF Core, Tips
    <3> QED BY <3>1, <3>2, <3>3 DEF Tips
  <2>4. AccountReads'
    <3>1. \A c \in Calls : Proving(c)' => call[c].req # None
      BY <1>3, OpenCall DEF Fewer, Constants, NoneIsFresh
    <3> QED BY <1>2, <1>3, <2>2, <3>1, AccountStill DEF Core
  <2>8. loan[l].status = "active" /\ loan'[l].remaining = 0
    BY <1>7 DEF Liquidate, Overdue
  <2>9. Over' /\ Ends
    BY <1>1, <1>3, <2>8 DEF Core, Over, Ends, Kept
  <2>5. Marked'
    BY <1>2, <1>5 DEF Core, Marked
  <2>6. DepositReads'
    <3>1. ASSUME NEW c \in Calls, Proving(c)', RequestOf(c)'.op = "deposit"
          PROVE  "deposit" \in rushed'
      <4>1. Proving(c) /\ RequestOf(c).op = "deposit"
        BY <1>3, <3>1 DEF Fewer
      <4> QED BY <1>7, <4>1 DEF Liquidate, Noted, Waits
    <3> QED BY <3>1 DEF DepositReads
  <2>7. LoanReads'
    <3> SUFFICES ASSUME NEW c \in Calls, Proving(c)', RequestOf(c)'.op = "repay",
                        RequestOf(c)'.loan \notin raced'
                 PROVE  /\ loan'[RequestOf(c)'.loan].status = "active"
                        /\ call'[c].base = loan'[RequestOf(c)'.loan].remaining
      BY DEF LoanReads
    <3>1. Proving(c) /\ call'[c] = call[c] /\ RequestOf(c)' = RequestOf(c)
      BY <1>3 DEF Fewer
    <3>2. RequestOf(c).loan \in Requests /\ RequestOf(c).loan # None
      BY <3>1, OpenCall DEF Constants, NoneIsFresh
    <3>3. RequestOf(c).loan # l
      BY <1>7, <3>1, <3>2 DEF Liquidate, Noted, RepayWaits
    <3> QED BY <1>1, <1>3, <3>1, <3>2, <3>3 DEF Core, LoanReads, Kept
  <2> QED BY <2>1, <2>3, <2>4, <2>5, <2>6, <2>7, <2>9 DEF Core
<1> QED BY <1>1, <1>6, <1>7

(* Every step.                                                             *)
LEMMA NextSettled ==
  Constants /\ SettledInv /\ [Next]_vars => Core' /\ (Next => Ends)
<1> SUFFICES ASSUME Constants, PoolInv, Core, [Next]_vars
             PROVE  Core' /\ Ends
  BY DEF SettledInv
<1>1. CASE UNCHANGED vars
  <2>1. UNCHANGED <<tip, spent, request, call, total, loan, overlaps>>
    BY <1>1 DEF vars, accountVars, poolVars, loanVars
  <2>2. Kept /\ Fewer /\ LoansStay /\ \A q \in twice' : request'[q] # None
    BY <2>1 DEF Kept, Fewer, LoansStay, Proving, RequestOf, overlaps, Core, Apart
  <2> QED BY <2>1, <2>2, QuietStep
<1>2. CASE \E q \in Requests, u \in Users :
             \/ \E amount \in Deposits : ComposeDeposit(q, u, amount)
             \/ \E amount \in LoanSizes, collateral \in Collaterals, terms \in Terms :
                  ComposeBorrow(q, u, amount, collateral, terms)
             \/ Reseal(q, u)
  BY <1>2, ComposeSettled, ResealSettled DEF ComposeDeposit, ComposeBorrow
<1>3. CASE \E q, l \in Requests : ComposeRepay(q, l)
  BY <1>3, ComposeSettled DEF ComposeRepay
<1>4. CASE \E u \in Users : Revoke(u)
  <2>1. PICK u \in Users : Revoke(u)
    BY <1>4
  <2>2. UNCHANGED <<tip, spent, request, call, total, loan, overlaps>>
    BY <2>1 DEF Revoke, poolVars, loanVars
  <2>3. Kept /\ Fewer /\ LoansStay /\ \A q \in twice' : request'[q] # None
    BY <2>2 DEF Kept, Fewer, LoansStay, Proving, RequestOf, overlaps, Core, Apart
  <2> QED BY <2>2, <2>3, QuietStep
<1>5. CASE \E c \in Calls, q \in Requests :
             BeginDeposit(c, q) \/ BeginBorrow(c, q) \/ BeginRepay(c, q)
  BY <1>5, BeginSettled
<1>6. CASE \E c \in Calls :
             \/ CircuitFails(c) \/ AlreadySpent(c)
             \/ ApplyDeposit(c) \/ ApplyBorrow(c) \/ BorrowConflict(c) \/ ApplyRepay(c)
  BY <1>6, RefusalSettled, ConflictSettled, DepositSettled, BorrowSettled, RepaySettled
<1>7. CASE \E l \in Requests : TimePasses(l) \/ RecordMiss(l) \/ Liquidate(l)
  BY <1>7, TimeSettled
<1> QED BY <1>1, <1>2, <1>3, <1>4, <1>5, <1>6, <1>7 DEF Next

(* The pool keeps its invariant.                                           *)
LEMMA SettledHolds == ASSUME Constants PROVE Spec => []SettledInv
<1>1. Init => SettledInv
  BY InitSound, InitSettled DEF SettledInv
<1>2. SettledInv /\ [Next]_vars => SettledInv'
  BY NextSound, NextSettled DEF SettledInv
<1> QED BY <1>1, <1>2, PTL DEF Spec

(* A repaid or liquidated loan is over: no later step makes it owe again   *)
(* or gives it another end, unless a repayment of it waited for its        *)
(* circuit when another one began or when the loan was liquidated.         *)
THEOREM LoansEndOnce ==
  ASSUME Constants
  PROVE  Spec => LoanEndsOnce
<1>1. SettledInv /\ [Next]_vars =>
        [\A l \in Requests \ raced :
          loan[l] # None /\ loan[l].status # "active" =>
            loan'[l].status = loan[l].status /\ loan'[l].remaining = 0]_vars
  BY NextSettled DEF Ends
<1> QED BY <1>1, SettledHolds, PTL DEF Spec, LoanEndsOnce

(* Without the circuits' keys no call waits for another.                   *)
Undisturbed ==
  ~keys => /\ \A c, d \in Calls : Proving(c) /\ Proving(d) => c = d
           /\ overlaps = <<{}, {}, {}>>

(* Where the circuits are not deployed nothing overlaps, so that what is   *)
(* stated of the pool up to overlaps holds without exception.              *)
THEOREM NothingOverlaps ==
  ASSUME Constants
  PROVE  Spec => [](~keys => twice = {} /\ raced = {} /\ rushed = {})
<1>1. Init => Undisturbed
  BY DEF Init, Undisturbed, Proving, overlaps
<1>2. PoolInv /\ Undisturbed /\ [Next]_vars => Undisturbed'
  <2> SUFFICES ASSUME PoolInv, Undisturbed, [Next]_vars PROVE Undisturbed'
    OBVIOUS
  <2>1. CASE \E c \in Calls, q \in Requests :
               BeginDeposit(c, q) \/ BeginBorrow(c, q) \/ BeginRepay(c, q)
    <3>5. PICK c \in Calls, q \in Requests : \E base, nth : Open(c, q, base, nth)
      BY <2>1 DEF BeginDeposit, BeginBorrow, BeginRepay
    <3>1. PICK base, nth : Open(c, q, base, nth)
      BY <3>5
    <3>2. /\ Quiet /\ keys' = keys
          /\ call' = [call EXCEPT ![c] =
                        [at |-> "proving", req |-> q, base |-> base, nth |-> nth]]
      BY <3>1 DEF Open, accountVars
    <3>3. ~keys => \A d \in Calls : Proving(d)' => d = c
      BY <3>2 DEF Quiet, Proving, PoolInv, TypeOK
    <3>4. ~keys => overlaps' = overlaps
      BY <3>1, <3>2 DEF Open, Quiet, Delivered, RepayWaits, Waits, Noted, overlaps
    <3> QED BY <3>2, <3>3, <3>4 DEF Undisturbed
  <2>2. CASE \E l \in Requests : TimePasses(l) \/ RecordMiss(l) \/ Liquidate(l)
    <3>1. PICK l \in Requests : TimePasses(l) \/ RecordMiss(l) \/ Liquidate(l)
      BY <2>2
    <3>2. Quiet /\ keys' = keys /\ call' = call
      BY <3>1 DEF TimePasses, RecordMiss, Liquidate, accountVars
    <3>3. ~keys => overlaps' = overlaps
      BY <3>1, <3>2 DEF TimePasses, RecordMiss, Liquidate, Quiet, RepayWaits, Waits, Noted,
                        overlaps
    <3> QED BY <3>2, <3>3 DEF Undisturbed, Proving
  <2>3. CASE \E c \in Calls :
               \/ CircuitFails(c) \/ AlreadySpent(c)
               \/ ApplyDeposit(c) \/ ApplyBorrow(c) \/ BorrowConflict(c) \/ ApplyRepay(c)
    <3>1. PICK c \in Calls : Answer(c) /\ Proving(c)
      BY <2>3 DEF CircuitFails, AlreadySpent, ApplyDeposit, ApplyBorrow, BorrowConflict,
                  ApplyRepay, Answer
    <3>2. keys' = keys /\ overlaps' = overlaps
      BY <2>3 DEF CircuitFails, AlreadySpent, ApplyDeposit, ApplyBorrow, BorrowConflict,
                  ApplyRepay, Burn, accountVars
    <3>3. \A d \in Calls : Proving(d)' => Proving(d)
      BY <3>1 DEF Answer, Proving, PoolInv, TypeOK
    <3> QED BY <3>2, <3>3 DEF Undisturbed
  <2>4. CASE UNCHANGED <<keys, call, overlaps>>
    BY <2>4 DEF Undisturbed, Proving
  <2> QED BY <2>1, <2>2, <2>3, <2>4 DEF Next, vars, accountVars, ComposeDeposit,
             ComposeBorrow, ComposeRepay, Compose, Reseal, Revoke
<1>3. Undisturbed => (~keys => twice = {} /\ raced = {} /\ rushed = {})
  BY DEF Undisturbed, overlaps
<1>4. Spec => []PoolInv
  BY InitSound, NextSound, PTL DEF Spec
<1> QED BY <1>1, <1>2, <1>3, <1>4, PTL DEF Spec

-----------------------------------------------------------------------------
(* Sums over finite sets.                                                  *)

(* A set of numbers that is not empty has a least one.                     *)
LEMMA LeastIs ==
  ASSUME NEW F, F \subseteq Nat, F # {}
  PROVE  \E i \in F : \A j \in F : i <= j
<1>1. PICK i \in F : \A j \in F : ~(<<j, i>> \in OpToRel(<, Nat))
  BY NatLessThanWellFounded, WFMin
<1>2. ASSUME NEW j \in F PROVE i <= j
  <2>1. j \in Nat /\ i \in Nat /\ <<j, i>> \notin OpToRel(<, Nat)
    BY <1>1
  <2>2. <<j, i>> \in Nat \X Nat /\ <<j, i>>[1] = j /\ <<j, i>>[2] = i
    BY <2>1
  <2>3. ~(<<j, i>>[1] < <<j, i>>[2])
    BY <2>1, <2>2, Zenon DEF OpToRel
  <2>4. ~(j < i)
    BY <2>2, <2>3, Zenon
  <2>5. j \in Nat /\ i \in Nat
    OBVIOUS
  <2> QED BY <2>4, <2>5
<1> QED BY <1>2

(* Among subsets of a finite set there is one that no element can be taken *)
(* from.                                                                   *)
LEMMA SmallestIs ==
  ASSUME NEW S, IsFiniteSet(S), NEW B, B \subseteq SUBSET S, B # {}
  PROVE  \E s \in B : \A x \in s : s \ {x} \notin B
<1> DEFINE F == {Cardinality(s) : s \in B}
<1>1. \A s \in B : IsFiniteSet(s) /\ Cardinality(s) \in Nat
  BY FS_Subset, FS_CardinalityType
<1>2. F \subseteq Nat /\ F # {}
  BY <1>1
<1> HIDE DEF F
<1>3. PICK i \in F : \A j \in F : i <= j
  BY <1>2, LeastIs
<1>4. PICK s \in B : i = Cardinality(s)
  BY <1>3 DEF F
<1>5. ASSUME NEW x \in s, s \ {x} \in B PROVE FALSE
  <2>1. Cardinality(s \ {x}) = Cardinality(s) - 1
    BY <1>1, FS_RemoveElement
  <2>2. i <= Cardinality(s \ {x})
    BY <1>3, <1>5 DEF F
  <2> QED BY <1>1, <1>4, <2>1, <2>2
<1> QED BY <1>5

-----------------------------------------------------------------------------
Pick(s) == CHOOSE x \in s : TRUE

(* g is the sum of f over each of the sets in D; over each subset of S.    *)
SumsOver(f, D, g) ==
  g = [s \in D |-> IF s = {} THEN 0 ELSE f[Pick(s)] + g[s \ {Pick(s)}]]
SumsUp(f, S, g) == SumsOver(f, SUBSET S, g)

LEMMA PickIs == \A s : s # {} => Pick(s) \in s
BY DEF Pick

(* There are such sums, over sets of any finite size.                      *)
LEMMA SumsExist ==
  ASSUME NEW S, IsFiniteSet(S), NEW f
  PROVE  \E g : SumsUp(f, S, g)
<1> DEFINE D(n) == {s \in SUBSET S : Cardinality(s) <= n}
           F == {n \in Nat : ~ \E g : SumsOver(f, D(n), g)}
<1>1. \A s \in SUBSET S : IsFiniteSet(s) /\ Cardinality(s) \in Nat
  BY FS_Subset, FS_CardinalityType
<1>2. F = {}
  <2> SUFFICES ASSUME F # {} PROVE FALSE
    OBVIOUS
  <2>1. PICK n \in F : \A j \in F : n <= j
    BY LeastIs
  <2>2. n \in Nat /\ ~ \E g : SumsOver(f, D(n), g)
    OBVIOUS
  <2>3. \A s \in D(0) : s = {}
    BY <1>1, FS_EmptySet
  <2>4. CASE n = 0
    <3> DEFINE g == [s \in D(0) |-> 0]
    <3>1. g = [s \in D(0) |-> IF s = {} THEN 0 ELSE f[Pick(s)] + g[s \ {Pick(s)}]]
      BY <2>3
    <3> QED BY <2>2, <2>4, <3>1 DEF SumsOver
  <2>5. CASE n # 0
    <3>1. n - 1 \in Nat /\ ~(n <= n - 1)
      BY <2>2, <2>5
    <3>2. PICK g : SumsOver(f, D(n - 1), g)
      BY <2>1, <3>1
    <3> DEFINE h == [s \in D(n) |->
                       IF s = {} THEN 0 ELSE f[Pick(s)] + g[s \ {Pick(s)}]]
    <3>3. \A t \in D(n - 1) :
            g[t] = IF t = {} THEN 0 ELSE f[Pick(t)] + g[t \ {Pick(t)}]
      BY <3>2 DEF SumsOver
    <3>4. \A t \in D(n - 1) : t \in D(n)
      <4>1. \A k \in Nat : k <= n - 1 => k <= n
        BY <2>2
      <4> QED BY <1>1, <4>1
    <3>5. \A t \in D(n - 1) : h[t] = g[t]
      BY <3>3, <3>4
    <3>6. ASSUME NEW s \in D(n), s # {} PROVE s \ {Pick(s)} \in D(n - 1)
      <4>1. Pick(s) \in s /\ IsFiniteSet(s)
        BY <1>1, <3>6, PickIs
      <4>2. Cardinality(s \ {Pick(s)}) = Cardinality(s) - 1
        BY <4>1, FS_RemoveElement
      <4> QED BY <1>1, <2>2, <4>2
    <3>7. \A s \in D(n) : s # {} => h[s \ {Pick(s)}] = g[s \ {Pick(s)}]
      BY <3>5, <3>6
    <3>8. h = [s \in D(n) |-> IF s = {} THEN 0 ELSE f[Pick(s)] + h[s \ {Pick(s)}]]
      BY <3>7
    <3> QED BY <2>2, <3>8 DEF SumsOver
  <2> QED BY <2>4, <2>5
<1>3. Cardinality(S) \in Nat /\ D(Cardinality(S)) = SUBSET S
  BY <1>1, FS_Subset
<1> QED BY <1>2, <1>3 DEF SumsUp

(* What the sum of the values of a function is.                            *)
LEMMA SumIs ==
  ASSUME NEW f, IsFiniteSet(DOMAIN f)
  PROVE  \E g : SumsUp(f, DOMAIN f, g) /\ SumFunction(f) = g[DOMAIN f]
<1> DEFINE g == CHOOSE h : SumsUp(f, DOMAIN f, h)
<1>1. SumsUp(f, DOMAIN f, g)
  BY SumsExist
<1>2. SumFunction(f) = g[DOMAIN f]
  BY DEF SumFunction, SumFunctionOnSet, FoldFunctionOnSet, MapThenFoldSet, SumsUp, SumsOver, Pick
<1> QED BY <1>1, <1>2

(* Sums are numbers.                                                       *)
LEMMA SumsAre ==
  ASSUME NEW S, IsFiniteSet(S), NEW f \in [S -> Int], NEW g, SumsUp(f, S, g)
  PROVE  g[{}] = 0 /\ \A s \in SUBSET S : g[s] \in Int
<1>1. \A s \in SUBSET S : g[s] = IF s = {} THEN 0 ELSE f[Pick(s)] + g[s \ {Pick(s)}]
  BY DEF SumsUp, SumsOver
<1>2. \A s \in SUBSET S : g[s] \in Int
  <2> DEFINE B == {s \in SUBSET S : g[s] \notin Int}
  <2> SUFFICES ASSUME B # {} PROVE FALSE
    OBVIOUS
  <2>1. PICK s \in B : \A x \in s : s \ {x} \notin B
    BY SmallestIs
  <2>2. s \in SUBSET S /\ g[s] \notin Int
    BY <2>1
  <2>3. s # {} /\ g[s] = f[Pick(s)] + g[s \ {Pick(s)}]
    <3>1. g[s] = IF s = {} THEN 0 ELSE f[Pick(s)] + g[s \ {Pick(s)}]
      BY <1>1, <2>2
    <3> HIDE DEF B
    <3> QED BY <2>2, <3>1
  <2>4. Pick(s) \in s
    BY <2>3, PickIs
  <2>5. g[s \ {Pick(s)}] \in Int /\ f[Pick(s)] \in Int
    BY <2>1, <2>2, <2>4
  <2> QED BY <2>2, <2>3, <2>5
<1> QED BY <1>1, <1>2

(* It does not matter which element is taken first.                        *)
LEMMA SumsSplit ==
  ASSUME NEW S, IsFiniteSet(S), NEW f \in [S -> Int], NEW g, SumsUp(f, S, g),
         NEW s0 \in SUBSET S, NEW x0 \in s0
  PROVE  g[s0] = f[x0] + g[s0 \ {x0}]
<1> DEFINE B == {s \in SUBSET S : ~ \A x \in S : x \in s => g[s] = f[x] + g[s \ {x}]}
<1> SUFFICES ASSUME B # {} PROVE FALSE
  OBVIOUS
<1>1. PICK s \in B : \A x \in s : s \ {x} \notin B
  BY SmallestIs
<1>2. PICK x \in S : x \in s /\ g[s] # f[x] + g[s \ {x}]
  OBVIOUS
<1> DEFINE y == Pick(s)
<1>3. y \in s /\ y \in S
  BY <1>2, PickIs
<1>4. g[s] = f[y] + g[s \ {y}]
  BY <1>2 DEF SumsUp, SumsOver
<1>5. x # y
  BY <1>2, <1>4
<1>6. s \ {y} \notin B /\ s \ {x} \notin B /\ s \ {x} \in SUBSET S /\ s \ {y} \in SUBSET S
  BY <1>1, <1>2, <1>3
<1>7. g[s \ {y}] = f[x] + g[(s \ {y}) \ {x}]
  BY <1>2, <1>5, <1>6
<1>8. g[s \ {x}] = f[y] + g[(s \ {y}) \ {x}]
  <2>1. g[s \ {x}] = f[y] + g[(s \ {x}) \ {y}]
    BY <1>3, <1>5, <1>6
  <2>2. (s \ {x}) \ {y} = (s \ {y}) \ {x}
    OBVIOUS
  <2> QED BY <2>1, <2>2
<1>9. g[(s \ {y}) \ {x}] \in Int /\ f[x] \in Int /\ f[y] \in Int
  BY <1>2, <1>3, SumsAre
<1>10. \A a, b, c \in Int : a + (b + c) = b + (a + c)
  OBVIOUS
<1> HIDE DEF y, B
<1>11. f[y] + (f[x] + g[(s \ {y}) \ {x}]) = f[x] + (f[y] + g[(s \ {y}) \ {x}])
  BY <1>9, <1>10
<1> QED BY <1>2, <1>4, <1>7, <1>8, <1>11

(* Sums of functions that agree agree.                                     *)
LEMMA SumsAgree ==
  ASSUME NEW S, IsFiniteSet(S), NEW T, IsFiniteSet(T),
         NEW f \in [S -> Int], NEW e \in [T -> Int],
         NEW g, SumsUp(f, S, g), NEW h, SumsUp(e, T, h),
         S \subseteq T, \A x \in S : f[x] = e[x]
  PROVE  g[S] = h[S]
<1> DEFINE B == {s \in SUBSET S : g[s] # h[s]}
<1> SUFFICES ASSUME B # {} PROVE FALSE
  OBVIOUS
<1>1. PICK s \in B : \A x \in s : s \ {x} \notin B
  BY SmallestIs
<1>2. s \in SUBSET S /\ s \in SUBSET T /\ g[s] # h[s]
  OBVIOUS
<1>3. s # {}
  BY <1>2, SumsAre
<1>4. PICK x \in s : TRUE
  BY <1>3
<1>5. g[s] = f[x] + g[s \ {x}] /\ h[s] = e[x] + h[s \ {x}]
  BY <1>2, SumsSplit
<1>6. g[s \ {x}] = h[s \ {x}]
  BY <1>1
<1> QED BY <1>2, <1>5, <1>6

(* A sum of numbers is a number.                                           *)
LEMMA SumType ==
  ASSUME NEW S, IsFiniteSet(S), NEW f \in [S -> Int]
  PROVE  SumFunction(f) \in Int
<1>1. PICK g : SumsUp(f, S, g) /\ SumFunction(f) = g[S]
  BY SumIs
<1> QED BY <1>1, SumsAre

(* A sum is any one of its values and the sum of the others.               *)
LEMMA SumSplits ==
  ASSUME NEW S, IsFiniteSet(S), NEW f \in [S -> Int], NEW x \in S,
         NEW R, R = S \ {x}, NEW e \in [R -> Int], \A y \in R : e[y] = f[y]
  PROVE  SumFunction(f) = f[x] + SumFunction(e)
<1>1. PICK g : SumsUp(f, S, g) /\ SumFunction(f) = g[S]
  BY SumIs
<1>2. IsFiniteSet(R) /\ R \subseteq S
  BY FS_RemoveElement
<1>3. PICK h : SumsUp(e, R, h) /\ SumFunction(e) = h[R]
  BY <1>2, SumIs
<1>4. h[R] = g[R]
  BY <1>1, <1>2, <1>3, SumsAgree
<1>5. g[S] = f[x] + g[R]
  BY <1>1, SumsSplit
<1> QED BY <1>1, <1>3, <1>4, <1>5

(* One value changes: the sum by as much.                                  *)
LEMMA SumMoves ==
  ASSUME NEW S, IsFiniteSet(S), NEW f \in [S -> Int], NEW e \in [S -> Int], NEW x \in S,
         \A y \in S \ {x} : e[y] = f[y]
  PROVE  SumFunction(e) = SumFunction(f) - f[x] + e[x]
<1> DEFINE R == S \ {x}
           rest == [y \in R |-> f[y]]
<1>1. rest \in [R -> Int] /\ IsFiniteSet(R)
  BY FS_RemoveElement
<1>2. R = S \ {x} /\ \A y \in R : rest[y] = f[y]
  OBVIOUS
<1>3. \A y \in R : rest[y] = e[y]
  OBVIOUS
<1> HIDE DEF R, rest
<1>4. SumFunction(f) = f[x] + SumFunction(rest)
  BY <1>1, <1>2, SumSplits
<1>5. SumFunction(e) = e[x] + SumFunction(rest)
  BY <1>1, <1>2, <1>3, SumSplits
<1>6. SumFunction(rest) \in Int
  BY <1>1, SumType
<1> QED BY <1>4, <1>5, <1>6

(* Sums are as their values are.                                           *)
LEMMA SumsCompare ==
  ASSUME NEW S, IsFiniteSet(S), NEW f \in [S -> Int], NEW e \in [S -> Int],
         \A x \in S : f[x] <= e[x]
  PROVE  SumFunction(f) <= SumFunction(e)
<1>1. PICK g : SumsUp(f, S, g) /\ SumFunction(f) = g[S]
  BY SumIs
<1>2. PICK h : SumsUp(e, S, h) /\ SumFunction(e) = h[S]
  BY SumIs
<1> DEFINE B == {s \in SUBSET S : ~ (g[s] <= h[s])}
<1> SUFFICES ASSUME B # {} PROVE FALSE
  BY <1>1, <1>2
<1>3. PICK s \in B : \A x \in s : s \ {x} \notin B
  BY SmallestIs
<1>4. s \in SUBSET S /\ ~ (g[s] <= h[s])
  OBVIOUS
<1>5. s # {}
  <2>1. g[{}] = 0 /\ h[{}] = 0
    BY <1>1, <1>2, SumsAre
  <2> QED BY <1>4, <2>1
<1>6. PICK x \in s : TRUE
  BY <1>5
<1>7. g[s \ {x}] <= h[s \ {x}]
  BY <1>3
<1>8. g[s] = f[x] + g[s \ {x}]
  BY <1>1, <1>4, SumsSplit
<1>9. h[s] = e[x] + h[s \ {x}]
  BY <1>2, <1>4, SumsSplit
<1>10. g[s \ {x}] \in Int
  BY <1>1, <1>4, SumsAre
<1>11. h[s \ {x}] \in Int
  BY <1>2, <1>4, SumsAre
<1>12. f[x] \in Int /\ e[x] \in Int /\ f[x] <= e[x]
  BY <1>4
<1> HIDE DEF B
<1> QED BY <1>4, <1>7, <1>8, <1>9, <1>10, <1>11, <1>12

(* A sum of what is not negative is not negative.                          *)
LEMMA SumNat ==
  ASSUME NEW S, IsFiniteSet(S), NEW f \in [S -> Nat]
  PROVE  SumFunction(f) \in Nat
<1>1. f \in [S -> Int]
  OBVIOUS
<1>2. PICK g : SumsUp(f, S, g) /\ SumFunction(f) = g[S]
  BY <1>1, SumIs
<1> DEFINE B == {s \in SUBSET S : g[s] \notin Nat}
<1> SUFFICES ASSUME B # {} PROVE FALSE
  BY <1>2
<1>3. PICK s \in B : \A x \in s : s \ {x} \notin B
  BY SmallestIs
<1>4. s \in SUBSET S /\ g[s] \notin Nat
  OBVIOUS
<1>5. s # {}
  <2>1. g[{}] = 0
    BY <1>1, <1>2, SumsAre
  <2> QED BY <1>4, <2>1
<1>6. PICK x \in s : TRUE
  BY <1>5
<1>7. g[s \ {x}] \in Nat /\ f[x] \in Nat
  BY <1>3, <1>4
<1>8. g[s] = f[x] + g[s \ {x}]
  BY <1>1, <1>2, <1>4, SumsSplit
<1> HIDE DEF B
<1> QED BY <1>4, <1>7, <1>8

(* A sum of zeros is zero.                                                 *)
LEMMA SumOfZeros ==
  ASSUME NEW S, IsFiniteSet(S), NEW f \in [S -> Int], \A x \in S : f[x] = 0
  PROVE  SumFunction(f) = 0
<1>1. PICK g : SumsUp(f, S, g) /\ SumFunction(f) = g[S]
  BY SumIs
<1> DEFINE B == {s \in SUBSET S : g[s] # 0}
<1> SUFFICES ASSUME B # {} PROVE FALSE
  BY <1>1
<1>2. PICK s \in B : \A x \in s : s \ {x} \notin B
  BY SmallestIs
<1>3. s \in SUBSET S /\ g[s] # 0
  OBVIOUS
<1>4. s # {}
  <2>1. g[{}] = 0
    BY <1>1, SumsAre
  <2> QED BY <1>3, <2>1
<1>5. PICK x \in s : TRUE
  BY <1>4
<1>6. g[s \ {x}] = 0 /\ f[x] = 0
  BY <1>2, <1>3
<1>7. g[s] = f[x] + g[s \ {x}]
  BY <1>1, <1>3, SumsSplit
<1> HIDE DEF B
<1> QED BY <1>3, <1>6, <1>7

-----------------------------------------------------------------------------
(* The books.                                                              *)

(* What was seized is over.                                                *)
SeizedOver == \A l \in seized : loan[l] # None /\ loan[l].status # "active"

(* The pool shows no more than it was given, nor did a deposit that waits  *)
(* for its circuit read more.                                              *)
Given ==
  /\ total <= Funded
  /\ \A c \in Calls : Proving(c) /\ RequestOf(c).op = "deposit" => call[c].base <= Funded

(* What is shown as lent out is covered by what each loan will owe at      *)
(* least, though a repayment that waits may yet write what it read.        *)
Covers(low) ==
  /\ \A l \in Requests : low[l] <= Owes[l]
  /\ \A c \in Calls : Proving(c) /\ RequestOf(c).op = "repay" =>
       low[RequestOf(c).loan] <= call[c].base
  /\ outstanding <= SumFunction(low)
LentOut == \E low \in [Requests -> Nat] : Covers(low)

(* Where nothing overlaps nothing is lost.                                 *)
BooksBalance ==
  /\ raced = {} => outstanding = Owed
  /\ "deposit" \notin rushed => total = Funded

(* What is owed was given, with the loan that waits, if one does.          *)
Lending ==
  raced = {} /\ "borrow" \notin rushed =>
    /\ Owed <= Funded
    /\ \A c \in Calls : Proving(c) /\ RequestOf(c).op = "borrow" =>
         Owed + RequestOf(c).amount <= Funded

Bounds == SeizedOver /\ Given /\ LentOut
BooksInv == Bounds /\ BooksBalance /\ Lending

(* What a loan owes and what was taken of its collateral.                  *)
LEMMA OwesIs ==
  ASSUME PoolInv, SeizedOver
  PROVE  /\ Owes \in [Requests -> Nat] /\ Taken \in [Requests -> Nat]
         /\ \A l \in Requests : loan[l] # None /\ loan[l].status = "active" =>
              Owes[l] = loan[l].remaining
         /\ \A l \in Requests : ~(loan[l] # None /\ loan[l].status = "active") => Owes[l] = 0
         /\ \A l \in Requests : l \in seized => Taken[l] = loan[l].collateral
         /\ \A l \in Requests : l \notin seized => Taken[l] = 0
<1>1. \A l \in Requests : loan[l] # None => loan[l].remaining \in Nat
  BY DEF PoolInv, Sound
<1>2. \A l \in seized : l \in Requests /\ loan[l].collateral \in Nat
  BY PartTypes DEF PoolInv, TypeOK, SeizedOver, Loan
<1> QED BY <1>1, <1>2 DEF Owes, Taken

(* The sums are numbers.                                                   *)
LEMMA SumsTypes ==
  ASSUME Constants, FiniteBooks, PoolInv, SeizedOver
  PROVE  /\ Owed \in Nat /\ SumFunction(share) \in Nat /\ SumFunction(Taken) \in Nat
         /\ Funded \in Nat /\ Funded = Seed + SumFunction(share) + SumFunction(Taken)
<1>1. Owes \in [Requests -> Nat] /\ Taken \in [Requests -> Nat] /\ share \in [Users -> Nat]
  BY OwesIs DEF PoolInv, TypeOK
<1>2. Owed \in Nat
  BY <1>1, SumNat DEF Owed, FiniteBooks
<1>3. SumFunction(share) \in Nat
  BY <1>1, SumNat DEF FiniteBooks
<1>4. SumFunction(Taken) \in Nat
  BY <1>1, SumNat DEF FiniteBooks
<1>5. Seed \in Nat
  BY DEF Constants, ConstantTypes
<1> QED BY <1>2, <1>3, <1>4, <1>5 DEF Funded

(* In the first state there are no loans and no shares.                    *)
LEMMA InitBooks == ASSUME Constants, FiniteBooks, Init PROVE BooksInv
<1>1. PoolInv
  BY InitSound
<1>2. SeizedOver
  BY DEF Init, SeizedOver
<1>3. \A l \in Requests : Owes[l] = 0 /\ Taken[l] = 0
  BY DEF Init, Owes, Taken
<1>4. Owes \in [Requests -> Nat] /\ Taken \in [Requests -> Nat] /\ share \in [Users -> Nat]
  BY <1>1, <1>2, OwesIs DEF PoolInv, TypeOK
<1>5. Owed = 0
  BY <1>3, <1>4, SumOfZeros DEF Owed, FiniteBooks
<1>6. SumFunction(Taken) = 0
  BY <1>3, <1>4, SumOfZeros DEF FiniteBooks
<1>7. SumFunction(share) = 0
  <2>1. \A u \in Users : share[u] = 0
    BY DEF Init
  <2> QED BY <1>4, <2>1, SumOfZeros DEF FiniteBooks
<1>8. Funded = Seed /\ total = Seed /\ outstanding = 0 /\ Seed \in Nat
  BY <1>6, <1>7 DEF Funded, Init, Constants, ConstantTypes
<1>9. \A c \in Calls : ~Proving(c)
  BY DEF Init, Proving
<1>10. Given /\ BooksBalance /\ Lending
  BY <1>5, <1>8, <1>9 DEF Given, BooksBalance, Lending
<1>11. Covers(Owes)
  BY <1>3, <1>5, <1>8, <1>9 DEF Covers, Owed
<1> QED BY <1>2, <1>4, <1>10, <1>11 DEF BooksInv, Bounds, LentOut

(* A step that lets less be owed and more be given.                        *)
LEMMA LendingStill ==
  ASSUME PoolInv, Lending, Kept, Fewer, Owed \in Nat, Owed' \in Nat, Funded \in Nat,
         Funded' \in Nat, raced = {} => Owed' <= Owed, Funded <= Funded'
  PROVE  Lending'
<1> SUFFICES ASSUME raced' = {}, "borrow" \notin rushed'
             PROVE  /\ Owed' <= Funded'
                    /\ \A c \in Calls : Proving(c)' /\ RequestOf(c)'.op = "borrow" =>
                         Owed' + RequestOf(c)'.amount <= Funded'
  BY DEF Lending
<1>1. raced = {} /\ "borrow" \notin rushed
  BY DEF Kept
<1>2. Owed' <= Owed /\ Owed <= Funded /\ Funded <= Funded'
  BY <1>1 DEF Lending
<1>3. ASSUME NEW c \in Calls, Proving(c)', RequestOf(c)'.op = "borrow"
      PROVE  Owed' + RequestOf(c)'.amount <= Funded'
  <2>1. Proving(c) /\ RequestOf(c)' = RequestOf(c) /\ RequestOf(c).op = "borrow"
    BY <1>3 DEF Fewer
  <2>2. Owed + RequestOf(c).amount <= Funded
    BY <1>1, <2>1 DEF Lending
  <2>3. RequestOf(c).amount \in Nat
    BY <2>1, OpenCall
  <2> QED BY <1>2, <2>1, <2>2, <2>3
<1> QED BY <1>2, <1>3

(* A step that leaves the books alone, and answers calls at most.          *)
LEMMA StillBooks ==
  ASSUME PoolInv, BooksInv, Kept, Fewer, UNCHANGED <<total, outstanding, share>>,
         Owes' = Owes, Taken' = Taken, SeizedOver', Constants, FiniteBooks
  PROVE  BooksInv'
<1>1. Owed' = Owed /\ Funded' = Funded /\ Owed \in Nat /\ Funded \in Nat
  BY SumsTypes DEF Owed, Funded, BooksInv, Bounds
<1>2. Given'
  BY <1>1 DEF BooksInv, Bounds, Given, Fewer
<1>3. BooksBalance'
  BY <1>1 DEF BooksInv, BooksBalance, Kept
<1>6. Lending'
  <2>1. Owed' <= Owed /\ Funded <= Funded' /\ Owed' \in Nat /\ Funded' \in Nat
    BY <1>1
  <2> QED BY <1>1, <2>1, LendingStill DEF BooksInv
<1>4. PICK low \in [Requests -> Nat] : Covers(low)
  BY DEF BooksInv, Bounds, LentOut
<1>5. Covers(low)'
  BY <1>4 DEF Covers, Fewer
<1> QED BY <1>2, <1>3, <1>4, <1>5, <1>6 DEF BooksInv, Bounds, LentOut

(* Where loans and seizures stay, so does what is owed and taken.          *)
LEMMA StillOwes ==
  ASSUME UNCHANGED <<loan, seized>>
  PROVE  Owes' = Owes /\ Taken' = Taken
BY DEF Owes, Taken

(* The devices, a reseal, a revocation.                                    *)
LEMMA OutsideBooks ==
  ASSUME Constants, FiniteBooks, PoolInv, BooksInv, NEW q \in Requests, NEW u \in Users,
         (\E r : Compose(q, r)) \/ Reseal(q, u) \/ Revoke(u)
  PROVE  BooksInv'
<1>1. UNCHANGED <<call, total, outstanding, share, loan, seized, overlaps>>
  BY DEF Compose, Reseal, Revoke, poolVars, loanVars
<1>2. \A p \in Requests : request[p] # None => request'[p] = request[p]
  BY DEF Compose, Reseal, Revoke, PoolInv, TypeOK
<1>3. Kept
  BY <1>1, <1>2 DEF Kept, overlaps
<1>4. Fewer
  BY <1>1, <1>2, OpenCall DEF Fewer, Proving, RequestOf
<1>5. SeizedOver'
  BY <1>1 DEF BooksInv, Bounds, SeizedOver
<1> QED BY <1>1, <1>3, <1>4, <1>5, StillOwes, StillBooks

(* A call that opens has read a total that was given, and what is left of  *)
(* its loan.                                                               *)
LEMMA BeginBooks ==
  ASSUME Constants, FiniteBooks, PoolInv, BooksInv, NEW c \in Calls, NEW q \in Requests,
         BeginDeposit(c, q) \/ BeginBorrow(c, q) \/ BeginRepay(c, q)
  PROVE  BooksInv'
<1>1. PICK base, nth : Open(c, q, base, nth) /\
        /\ request[q] # None
        /\ request[q].op = "deposit" => base = total
        /\ request[q].op = "borrow" => request[q].amount <= total - outstanding
        /\ request[q].op = "repay" =>
             /\ loan[request[q].loan].status = "active"
             /\ base = loan[request[q].loan].remaining
  <2>1. CASE BeginDeposit(c, q)
    BY <2>1 DEF BeginDeposit
  <2>2. CASE BeginBorrow(c, q)
    BY <2>2 DEF BeginBorrow
  <2>3. CASE BeginRepay(c, q)
    BY <2>3 DEF BeginRepay
  <2> QED BY <2>1, <2>2, <2>3
<1>2. /\ UNCHANGED <<request, total, outstanding, share, loan, seized>>
      /\ call' = [call EXCEPT ![c] = [at |-> "proving", req |-> q, base |-> base, nth |-> nth]]
  BY <1>1 DEF Open, accountVars, poolVars, loanVars
<1>3. /\ call'[c].req = q /\ call'[c].base = base
      /\ \A d \in Calls \ {c} : call'[d] = call[d]
  BY <1>2 DEF PoolInv, TypeOK
<1>4. Owes' = Owes /\ Taken' = Taken
  BY <1>2, StillOwes
<1>5. Owed' = Owed /\ Funded' = Funded
  BY <1>2, <1>4 DEF Owed, Funded
<1>13. raced \subseteq raced' /\ rushed \subseteq rushed'
  BY <1>1 DEF Open, Noted
<1>6. SeizedOver' /\ BooksBalance'
  BY <1>2, <1>5, <1>13 DEF BooksInv, Bounds, SeizedOver, BooksBalance
<1>7. \A d \in Calls \ {c} : Proving(d)' => Proving(d) /\ RequestOf(d)' = RequestOf(d)
  BY <1>2, <1>3 DEF Proving, RequestOf
<1>8. RequestOf(c)' = request[q]
  BY <1>2, <1>3 DEF RequestOf
<1>9. Given'
  BY <1>1, <1>2, <1>3, <1>5, <1>7, <1>8 DEF BooksInv, Bounds, Given
<1>10. PICK low \in [Requests -> Nat] : Covers(low)
  BY DEF BooksInv, Bounds, LentOut
<1>11. request[q].op = "repay" => low[request[q].loan] <= base
  <2> SUFFICES ASSUME request[q].op = "repay" PROVE low[request[q].loan] <= base
    OBVIOUS
  <2>1. request[q].loan \in Requests /\ loan[request[q].loan] # None
    BY <1>1 DEF PoolInv, Sound
  <2>2. Owes[request[q].loan] = base
    BY <1>1, <2>1, OwesIs DEF BooksInv, Bounds
  <2> QED BY <1>10, <2>1, <2>2 DEF Covers
<1>12. Covers(low)'
  BY <1>2, <1>3, <1>4, <1>7, <1>8, <1>10, <1>11 DEF Covers
<1>14. request[q].op = "borrow" /\ raced = {} => Owed + request[q].amount <= Funded
  <2>1. request[q].amount \in Nat /\ total \in Nat /\ outstanding \in Nat
    BY <1>1, PartTypes DEF PoolInv, TypeOK
  <2>2. Owed \in Nat /\ Funded \in Nat
    BY SumsTypes DEF BooksInv, Bounds
  <2>3. total <= Funded /\ (raced = {} => outstanding = Owed)
    BY DEF BooksInv, Bounds, Given, BooksBalance
  <2> QED BY <1>1, <2>1, <2>2, <2>3
<1>15. Lending'
  <2> SUFFICES ASSUME raced' = {}, "borrow" \notin rushed'
               PROVE  /\ Owed' <= Funded'
                      /\ \A d \in Calls : Proving(d)' /\ RequestOf(d)'.op = "borrow" =>
                           Owed' + RequestOf(d)'.amount <= Funded'
    BY DEF Lending
  <2>1. raced = {} /\ "borrow" \notin rushed
    BY <1>13
  <2>2. Owed <= Funded
    BY <2>1 DEF BooksInv, Lending
  <2>3. ASSUME NEW d \in Calls, Proving(d)', RequestOf(d)'.op = "borrow"
        PROVE  Owed + RequestOf(d)'.amount <= Funded
    <3>1. CASE d = c
      BY <1>8, <1>14, <2>1, <2>3, <3>1
    <3>2. CASE d # c
      BY <1>7, <2>1, <2>3, <3>2 DEF BooksInv, Lending
    <3> QED BY <3>1, <3>2
  <2> QED BY <1>5, <2>2, <2>3
<1> QED BY <1>6, <1>9, <1>10, <1>12, <1>15 DEF BooksInv, Bounds, LentOut

(* A call that is refused.                                                 *)
LEMMA RefusalBooks ==
  ASSUME Constants, FiniteBooks, PoolInv, Core, BooksInv, NEW c \in Calls,
         CircuitFails(c) \/ AlreadySpent(c) \/ BorrowConflict(c)
  PROVE  BooksInv'
<1>1. /\ Proving(c) /\ Answer(c)
      /\ UNCHANGED <<request, total, outstanding, share, loan, seized, overlaps>>
  BY DEF CircuitFails, AlreadySpent, BorrowConflict, Answer, poolVars, loanVars
<1>2. Kept /\ Fewer
  BY <1>1, AnswerKeeps
<1>3. SeizedOver'
  BY <1>1 DEF BooksInv, Bounds, SeizedOver
<1> QED BY <1>1, <1>2, <1>3, StillOwes, StillBooks

(* A deposit: the pool and the lender's share grow by as much.             *)
LEMMA DepositBooks ==
  ASSUME Constants, FiniteBooks, PoolInv, Core, BooksInv, NEW c \in Calls, ApplyDeposit(c),
         PoolInv'
  PROVE  BooksInv'
<1> DEFINE r == RequestOf(c)
<1>1. /\ Proving(c) /\ Answer(c) /\ r.op = "deposit"
      /\ UNCHANGED <<request, outstanding, loan, seized, overlaps>>
      /\ total' = call[c].base + r.amount
      /\ share' = [share EXCEPT ![r.user] = @ + r.amount]
  BY DEF ApplyDeposit, Burn, loanVars
<1>2. r.user \in Users /\ r.amount \in Nat /\ call[c].base \in Nat
  BY <1>1, PartTypes DEF PoolInv, Sound, Proving, RequestOf
<1>4. Kept /\ Fewer
  BY <1>1, AnswerKeeps
<1>5. Owes' = Owes /\ Taken' = Taken /\ Owed' = Owed
  BY <1>1, StillOwes DEF Owed
<1>6. SeizedOver'
  BY <1>1 DEF BooksInv, Bounds, SeizedOver
<1>7. SumFunction(share') = SumFunction(share) + r.amount
  <2>1. share \in [Users -> Int] /\ share' \in [Users -> Int] /\ SumFunction(share) \in Int
    BY SumsTypes DEF PoolInv, TypeOK, BooksInv, Bounds
  <2>2. share'[r.user] = share[r.user] + r.amount /\ share[r.user] \in Int
        /\ \A u \in Users \ {r.user} : share'[u] = share[u]
    BY <1>1, <1>2, <2>1
  <2> HIDE DEF r
  <2>3. SumFunction(share') = SumFunction(share) - share[r.user] + share'[r.user]
    BY <1>2, <2>1, <2>2, SumMoves DEF FiniteBooks
  <2> QED BY <1>2, <2>1, <2>2, <2>3
<1>8. Funded' = Funded + r.amount /\ Funded \in Nat
  <2>1. /\ SumFunction(share) \in Nat /\ SumFunction(Taken) \in Nat /\ Funded \in Nat
        /\ Funded = Seed + SumFunction(share) + SumFunction(Taken)
    BY SumsTypes DEF BooksInv, Bounds
  <2>2. Funded' = Seed + SumFunction(share') + SumFunction(Taken)
    BY <1>5 DEF Funded
  <2>3. Seed \in Nat
    BY DEF Constants, ConstantTypes
  <2> HIDE DEF r
  <2> QED BY <1>2, <1>7, <2>1, <2>2, <2>3
<1>9. Given'
  BY <1>1, <1>2, <1>4, <1>8, SumsTypes, PartTypes
     DEF BooksInv, Bounds, Given, Fewer, PoolInv, Proving
<1>10. BooksBalance'
  <2>1. "deposit" \notin rushed => call[c].base = total
    BY <1>1 DEF Core, DepositReads
  <2> HIDE DEF r
  <2> QED BY <1>1, <1>2, <1>5, <1>8, <2>1 DEF BooksInv, BooksBalance, overlaps
<1>13. Lending'
  <2>1. Owed \in Nat
    BY SumsTypes DEF BooksInv, Bounds
  <2>2. Funded' \in Nat /\ Funded <= Funded' /\ Owed' <= Owed /\ Owed' \in Nat
    BY <1>2, <1>5, <1>8, <2>1
  <2> QED BY <1>4, <1>8, <2>1, <2>2, LendingStill DEF BooksInv
<1>11. PICK low \in [Requests -> Nat] : Covers(low)
  BY DEF BooksInv, Bounds, LentOut
<1>12. Covers(low)'
  BY <1>1, <1>4, <1>5, <1>11 DEF Covers, Fewer
<1> QED BY <1>6, <1>9, <1>10, <1>11, <1>12, <1>13 DEF BooksInv, Bounds, LentOut

(* One loan changes: what is owed changes by what it owed and owes.        *)
LEMMA OwedMoves ==
  ASSUME Constants, FiniteBooks, PoolInv, PoolInv', SeizedOver, SeizedOver', NEW l \in Requests,
         \A m \in Requests \ {l} : Owes'[m] = Owes[m]
  PROVE  Owed' = Owed - Owes[l] + Owes'[l] /\ Owed \in Nat /\ Owed' \in Nat
<1>1. Owes \in [Requests -> Nat] /\ Owes' \in [Requests -> Nat]
  <2>1. Owes \in [Requests -> Nat]
    BY OwesIs
  <2>2. \A m \in Requests : loan'[m] # None => loan'[m].remaining \in Nat
    BY DEF PoolInv, Sound
  <2>3. Owes' \in [Requests -> Nat]
    BY <2>2 DEF Owes
  <2> QED BY <2>1, <2>3
<1>2. SumFunction(Owes) \in Nat
  BY <1>1, SumNat DEF FiniteBooks
<1>3. SumFunction(Owes') \in Nat
  BY <1>1, SumNat DEF FiniteBooks
<1>4. Owes \in [Requests -> Int] /\ Owes' \in [Requests -> Int]
  BY <1>1
<1>5. SumFunction(Owes') = SumFunction(Owes) - Owes[l] + Owes'[l]
  BY <1>4, SumMoves DEF FiniteBooks
<1> QED BY <1>2, <1>3, <1>5 DEF Owed

(* The cover of one loan changes, and the sum as much.                     *)
CoverMoved(low, new, l, n) ==
  /\ new \in [Requests -> Nat] /\ new[l] = n
  /\ \A m \in Requests \ {l} : new[m] = low[m]
  /\ SumFunction(new) = SumFunction(low) - low[l] + n
  /\ SumFunction(low) \in Nat /\ SumFunction(new) \in Nat

(* A cover can be changed so.                                              *)
LEMMA CoverMoves ==
  ASSUME FiniteBooks, NEW low \in [Requests -> Nat], NEW l \in Requests, NEW n \in Nat
  PROVE  \E new : CoverMoved(low, new, l, n)
<1> DEFINE new == [low EXCEPT ![l] = n]
<1>1. /\ new \in [Requests -> Nat] /\ new[l] = n
      /\ \A m \in Requests \ {l} : new[m] = low[m]
  OBVIOUS
<1> HIDE DEF new
<1>2. low \in [Requests -> Int] /\ new \in [Requests -> Int]
  BY <1>1
<1>3. SumFunction(new) = SumFunction(low) - low[l] + n
  BY <1>1, <1>2, SumMoves DEF FiniteBooks
<1>4. SumFunction(low) \in Nat
  BY SumNat DEF FiniteBooks
<1>5. SumFunction(new) \in Nat
  BY <1>1, SumNat DEF FiniteBooks
<1> QED BY <1>1, <1>3, <1>4, <1>5 DEF CoverMoved

(* A loan: as much is lent out as is owed on it.  Its request is marked,   *)
(* so that it cannot be lent again.                                        *)
LEMMA BorrowBooks ==
  ASSUME Constants, FiniteBooks, PoolInv, Core, BooksInv, NEW c \in Calls, ApplyBorrow(c),
         PoolInv'
  PROVE  BooksInv'
<1> DEFINE r == RequestOf(c)
           q == call[c].req
<1>1. /\ Proving(c) /\ Answer(c) /\ r.op = "borrow"
      /\ <<q, "locked">> \notin spent
      /\ UNCHANGED <<request, total, share, seized, overlaps>>
      /\ outstanding' = outstanding + r.amount
      /\ loan' = [loan EXCEPT ![q] = NewLoan(r)]
  BY DEF ApplyBorrow
<1>2. q \in Requests /\ r.amount \in Nat
  BY <1>1, PartTypes DEF PoolInv, Sound, Proving, RequestOf
<1>4. Kept /\ Fewer /\ ~Proving(c)'
  BY <1>1, AnswerKeeps
<1>5. loan[q] = None
  BY <1>1, <1>2 DEF Core, Marked
<1>3. raced = {} /\ "borrow" \notin rushed => Owed + r.amount <= Funded
  BY <1>1 DEF BooksInv, Lending
<1>23. ASSUME NEW d \in Calls, Proving(d)', RequestOf(d)'.op = "borrow"
       PROVE  "borrow" \in rushed'
  <2>1. Proving(d) /\ d # c /\ RequestOf(d).op = "borrow"
    BY <1>4, <1>23 DEF Fewer
  <2> QED BY <1>1, <1>4, <2>1 DEF Core, Apart, Kept
<1>6. /\ NewLoan(r).status = "active" /\ NewLoan(r).remaining = r.amount
  BY DEF NewLoan
<1> HIDE DEF r, q
<1>7. loan'[q] = NewLoan(r) /\ \A m \in Requests \ {q} : loan'[m] = loan[m]
  BY <1>1, <1>2 DEF PoolInv, TypeOK
<1>8. NewLoan(r) # None
  BY <1>1, NewLoanIs DEF r
<1>10. q \notin seized
  BY <1>5 DEF BooksInv, Bounds, SeizedOver
<1>11. SeizedOver'
  BY <1>1, <1>7, <1>10 DEF BooksInv, Bounds, SeizedOver, PoolInv, TypeOK
<1>12. Taken' = Taken
  <2>1. \A l \in Requests : (IF l \in seized' THEN loan'[l].collateral ELSE 0)
                              = (IF l \in seized THEN loan[l].collateral ELSE 0)
    BY <1>1, <1>7, <1>10
  <2> QED BY <2>1 DEF Taken
<1>13. Owes[q] = 0 /\ Owes'[q] = r.amount /\ \A m \in Requests \ {q} : Owes'[m] = Owes[m]
  BY <1>2, <1>5, <1>6, <1>7, <1>8 DEF Owes
<1>14. Owed' = Owed + r.amount
  <2>1. Owed' = Owed - Owes[q] + Owes'[q]
    BY <1>2, <1>11, <1>13, OwedMoves DEF BooksInv, Bounds
  <2>2. Owed \in Nat
    BY SumsTypes DEF BooksInv, Bounds
  <2> QED BY <1>2, <1>13, <2>1, <2>2
<1>15. Funded' = Funded
  BY <1>1, <1>12 DEF Funded
<1>16. Given'
  BY <1>1, <1>4, <1>15 DEF BooksInv, Bounds, Given, Fewer
<1>17. BooksBalance' /\ Lending'
  BY <1>1, <1>3, <1>14, <1>15, <1>23 DEF BooksInv, BooksBalance, Lending, overlaps
<1>18. PICK low \in [Requests -> Nat] : Covers(low)
  BY DEF BooksInv, Bounds, LentOut
<1>19. PICK new : CoverMoved(low, new, q, r.amount)
  BY <1>2, CoverMoves
<1>20. /\ new \in [Requests -> Nat] /\ new[q] = r.amount
       /\ \A m \in Requests \ {q} : new[m] = low[m]
       /\ SumFunction(new) = SumFunction(low) - low[q] + r.amount
       /\ SumFunction(low) \in Nat /\ SumFunction(new) \in Nat
  BY <1>19 DEF CoverMoved
<1>21. low[q] = 0
  BY <1>2, <1>13, <1>18 DEF Covers
<1>22. Covers(new)'
  <2>1. \A m \in Requests : new[m] <= Owes'[m]
    BY <1>2, <1>13, <1>18, <1>20 DEF Covers
  <2>2. ASSUME NEW d \in Calls, Proving(d)', RequestOf(d)'.op = "repay"
        PROVE  new[RequestOf(d)'.loan] <= call'[d].base
    <3>1. Proving(d) /\ call'[d] = call[d] /\ RequestOf(d)' = RequestOf(d)
      BY <1>4, <2>2 DEF Fewer
    <3>2. RequestOf(d).loan \in Requests /\ loan[RequestOf(d).loan] # None
      BY <2>2, <3>1, PartTypes DEF PoolInv, Sound, Proving, RequestOf
    <3>3. new[RequestOf(d).loan] = low[RequestOf(d).loan]
      BY <1>5, <1>20, <3>2
    <3> QED BY <1>18, <2>2, <3>1, <3>3 DEF Covers
  <2>3. outstanding' <= SumFunction(new)
    BY <1>1, <1>2, <1>18, <1>20, <1>21 DEF Covers, PoolInv, TypeOK
  <2> QED BY <2>1, <2>2, <2>3 DEF Covers
<1> QED BY <1>11, <1>16, <1>17, <1>20, <1>22 DEF BooksInv, Bounds, LentOut

(* An installment: what it writes is at most what it read less its amount, *)
(* so that what is covered shrinks by no more than the pool's figure.      *)
LEMMA RepayBooks ==
  ASSUME Constants, FiniteBooks, PoolInv, Core, BooksInv, NEW c \in Calls, ApplyRepay(c),
         PoolInv'
  PROVE  BooksInv'
<1> DEFINE l == RequestOf(c).loan
           a == RequestOf(c).amount
           base == call[c].base
<1>1. /\ Proving(c) /\ Answer(c) /\ RequestOf(c).op = "repay"
      /\ UNCHANGED <<request, total, share, seized, overlaps>>
      /\ outstanding' = AtLeast0(outstanding - a)
  BY DEF ApplyRepay, Burn, Repaid
<1>2. /\ l \in Requests /\ a \in Nat /\ base \in Nat /\ a <= base
      /\ loan[l] # None /\ loan'[l] # None
      /\ loan'[l].remaining = base - a
      /\ loan'[l].status = (IF base - a = 0 THEN "repaid" ELSE loan[l].status)
      /\ loan'[l].collateral = loan[l].collateral
      /\ \A m \in Requests \ {l} : loan'[m] = loan[m]
  BY RepayEdits
<1>4. Kept /\ Fewer
  BY <1>1, AnswerKeeps
<1>5. raced = {} => loan[l].status = "active" /\ base = loan[l].remaining
  BY <1>1 DEF Core, LoanReads
<1>6. PICK low \in [Requests -> Nat] : Covers(low)
  BY DEF BooksInv, Bounds, LentOut
<1>7. low[l] <= base
  BY <1>1, <1>6 DEF Covers
<1> HIDE DEF l, a, base
<1>9. SeizedOver'
  BY <1>1, <1>2 DEF BooksInv, Bounds, SeizedOver, PoolInv, TypeOK
<1>10. Taken' = Taken
  <2>1. \A m \in Requests : (IF m \in seized' THEN loan'[m].collateral ELSE 0)
                              = (IF m \in seized THEN loan[m].collateral ELSE 0)
    BY <1>1, <1>2
  <2> QED BY <2>1 DEF Taken
<1>11. Funded' = Funded
  BY <1>1, <1>10 DEF Funded
<1>12. Given'
  BY <1>1, <1>4, <1>11 DEF BooksInv, Bounds, Given, Fewer
<1>13. /\ Owes'[l] = (IF loan[l].status = "active" THEN base - a ELSE 0)
       /\ Owes[l] = (IF loan[l].status = "active" THEN loan[l].remaining ELSE 0)
       /\ \A m \in Requests \ {l} : Owes'[m] = Owes[m]
  BY <1>2 DEF Owes
<1>14. Owed' = Owed - Owes[l] + Owes'[l] /\ Owed \in Nat /\ Owed' \in Nat
  BY <1>2, <1>9, <1>13, OwedMoves DEF BooksInv, Bounds
<1>15. raced = {} => Owed' = Owed - a
  BY <1>2, <1>5, <1>13, <1>14
<1>8. BooksBalance' /\ Lending'
  <2>1. BooksBalance'
    BY <1>1, <1>2, <1>11, <1>14, <1>15 DEF BooksInv, BooksBalance, AtLeast0, overlaps
  <2>2. Funded \in Nat
    BY SumsTypes DEF BooksInv, Bounds
  <2>3. (raced = {} => Owed' <= Owed) /\ Funded <= Funded' /\ Funded' \in Nat
    BY <1>2, <1>11, <1>14, <1>15, <2>2
  <2>4. Lending'
    BY <1>4, <1>14, <2>2, <2>3, LendingStill DEF BooksInv
  <2> QED BY <2>1, <2>4
<1>16. low[l] <= Owes[l] /\ low[l] \in Nat
  BY <1>2, <1>6 DEF Covers
<1>17. PICK n : n \in Nat /\ n = AtLeast0(low[l] - a)
  BY <1>2, <1>16 DEF AtLeast0
<1>18. PICK new : CoverMoved(low, new, l, n)
  BY <1>2, <1>17, CoverMoves
<1>19. /\ new \in [Requests -> Nat] /\ new[l] = n
       /\ \A m \in Requests \ {l} : new[m] = low[m]
       /\ SumFunction(new) = SumFunction(low) - low[l] + n
       /\ SumFunction(low) \in Nat /\ SumFunction(new) \in Nat
  BY <1>18 DEF CoverMoved
<1>20. new[l] <= Owes'[l]
  BY <1>2, <1>7, <1>13, <1>16, <1>17, <1>19 DEF AtLeast0
<1>21. \A m \in Requests : new[m] <= low[m]
  BY <1>2, <1>16, <1>17, <1>19 DEF AtLeast0
<1>22. Covers(new)'
  <2>1. \A m \in Requests : new[m] <= Owes'[m]
    BY <1>6, <1>13, <1>19, <1>20 DEF Covers
  <2>2. ASSUME NEW d \in Calls, Proving(d)', RequestOf(d)'.op = "repay"
        PROVE  new[RequestOf(d)'.loan] <= call'[d].base
    <3>1. Proving(d) /\ call'[d] = call[d] /\ RequestOf(d)' = RequestOf(d)
      BY <1>4, <2>2 DEF Fewer
    <3>2. RequestOf(d).loan \in Requests /\ call[d].base \in Nat
      BY <2>2, <3>1, PartTypes DEF PoolInv, Sound, Proving, RequestOf
    <3>3. low[RequestOf(d).loan] <= call[d].base
      BY <1>6, <2>2, <3>1 DEF Covers
    <3>4. /\ new[RequestOf(d).loan] <= low[RequestOf(d).loan]
          /\ new[RequestOf(d).loan] \in Nat /\ low[RequestOf(d).loan] \in Nat
      BY <1>19, <1>21, <3>2
    <3> QED BY <3>1, <3>2, <3>3, <3>4
  <2>3. outstanding' <= SumFunction(new)
    <3>1. outstanding <= SumFunction(low) /\ outstanding \in Nat
      BY <1>6 DEF Covers, PoolInv, TypeOK
    <3> QED BY <1>1, <1>2, <1>16, <1>17, <1>19, <3>1 DEF AtLeast0
  <2> QED BY <2>1, <2>2, <2>3 DEF Covers
<1> QED BY <1>8, <1>9, <1>12, <1>19, <1>22 DEF BooksInv, Bounds, LentOut

(* Time costs nothing; a liquidation gives the pool the collateral for     *)
(* what was owed.                                                          *)
LEMMA TimeBooks ==
  ASSUME Constants, FiniteBooks, PoolInv, BooksInv, NEW l \in Requests,
         TimePasses(l) \/ RecordMiss(l) \/ Liquidate(l), PoolInv'
  PROVE  BooksInv'
<1>1. UNCHANGED <<request, call, share, twice>>
  BY DEF TimePasses, RecordMiss, Liquidate, poolVars, overlaps
<1>2. /\ loan[l] # None /\ loan[l].remaining \in Nat /\ loan[l].collateral \in Nat
      /\ loan'[l] # None /\ loan'[l].collateral = loan[l].collateral
      /\ \A m \in Requests \ {l} : loan'[m] = loan[m]
      /\ \/ /\ UNCHANGED <<total, outstanding, seized>>
            /\ loan'[l].status = loan[l].status /\ loan'[l].remaining = loan[l].remaining
         \/ /\ Liquidate(l)
            /\ loan'[l].status = "liquidated" /\ loan'[l].remaining = 0
  BY TimeEdits
<1>3. Kept /\ Fewer
  <2>1. raced \subseteq raced' /\ rushed \subseteq rushed'
    BY DEF TimePasses, RecordMiss, Liquidate, overlaps, Noted
  <2> QED BY <1>1, <2>1 DEF Kept, Fewer, Proving, RequestOf
<1>5. seized \subseteq Requests
  BY DEF PoolInv, TypeOK
<1>6. CASE /\ UNCHANGED <<total, outstanding, seized>>
           /\ loan'[l].status = loan[l].status /\ loan'[l].remaining = loan[l].remaining
  <2>1. SeizedOver'
    BY <1>2, <1>5, <1>6 DEF BooksInv, Bounds, SeizedOver
  <2>2. Owes' = Owes
    <3>1. \A m \in Requests :
            (IF loan'[m] # None /\ loan'[m].status = "active" THEN loan'[m].remaining ELSE 0)
          = (IF loan[m] # None /\ loan[m].status = "active" THEN loan[m].remaining ELSE 0)
      BY <1>2, <1>6
    <3> QED BY <3>1 DEF Owes
  <2>3. Taken' = Taken
    <3>1. \A m \in Requests : (IF m \in seized' THEN loan'[m].collateral ELSE 0)
                                = (IF m \in seized THEN loan[m].collateral ELSE 0)
      BY <1>2, <1>6
    <3> QED BY <3>1 DEF Taken
  <2> QED BY <1>1, <1>3, <1>6, <2>1, <2>2, <2>3, StillBooks
<1>7. CASE Liquidate(l) /\ loan'[l].status = "liquidated" /\ loan'[l].remaining = 0
  <2>1. /\ loan[l].status = "active" /\ seized' = seized \union {l}
        /\ total' = total + loan[l].collateral
        /\ outstanding' = AtLeast0(outstanding - loan[l].remaining)
    BY <1>7 DEF Liquidate, Overdue, Seized
  <2>2. l \notin seized
    BY <2>1 DEF BooksInv, Bounds, SeizedOver
  <2>3. SeizedOver'
    BY <1>2, <1>5, <1>7, <2>1 DEF BooksInv, Bounds, SeizedOver
  <2>4. /\ Owes[l] = loan[l].remaining /\ Owes'[l] = 0
        /\ \A m \in Requests \ {l} : Owes'[m] = Owes[m]
    BY <1>2, <1>7, <2>1 DEF Owes
  <2>5. Owed' = Owed - loan[l].remaining /\ Owed \in Nat /\ Owed' \in Nat
    <3>1. Owed' = Owed - Owes[l] + Owes'[l] /\ Owed \in Nat /\ Owed' \in Nat
      BY <2>3, <2>4, OwedMoves DEF BooksInv, Bounds
    <3> QED BY <1>2, <2>4, <3>1
  <2>6. /\ Taken[l] = 0 /\ Taken'[l] = loan[l].collateral
        /\ \A m \in Requests \ {l} : Taken'[m] = Taken[m]
    BY <1>2, <2>1, <2>2 DEF Taken
  <2>7. SumFunction(Taken') = SumFunction(Taken) + loan[l].collateral
    <3>1. Taken \in [Requests -> Int]
      BY OwesIs DEF BooksInv, Bounds
    <3>2. Taken' \in [Requests -> Int]
      <4>1. Taken' = [m \in Requests |-> Taken'[m]]
        BY DEF Taken
      <4>2. \A m \in Requests : Taken'[m] \in Int
        BY <1>2, <2>6, <3>1
      <4> QED BY <4>1, <4>2
    <3>3. SumFunction(Taken') = SumFunction(Taken) - Taken[l] + Taken'[l]
      BY <2>6, <3>1, <3>2, SumMoves DEF FiniteBooks
    <3>4. SumFunction(Taken) \in Int
      BY <3>1, SumType DEF FiniteBooks
    <3> QED BY <1>2, <2>6, <3>3, <3>4
  <2>8. Funded' = Funded + loan[l].collateral /\ Funded \in Nat
    <3>1. /\ SumFunction(share) \in Nat /\ SumFunction(Taken) \in Nat /\ Funded \in Nat
          /\ Funded = Seed + SumFunction(share) + SumFunction(Taken)
      BY SumsTypes DEF BooksInv, Bounds
    <3>2. Funded' = Seed + SumFunction(share) + SumFunction(Taken')
      BY <1>1 DEF Funded
    <3>3. Seed \in Nat
      BY DEF Constants, ConstantTypes
    <3> QED BY <1>2, <2>7, <3>1, <3>2, <3>3
  <2>9. Given'
    <3>1. total' <= Funded'
      BY <1>2, <2>1, <2>8 DEF BooksInv, Bounds, Given, PoolInv, TypeOK
    <3>2. \A d \in Calls : Proving(d)' /\ RequestOf(d)'.op = "deposit" => call'[d].base <= Funded'
      BY <1>2, <1>3, <2>8, PartTypes DEF BooksInv, Bounds, Given, Fewer, PoolInv, Proving
    <3> QED BY <3>1, <3>2 DEF Given
  <2>10. BooksBalance'
    BY <1>2, <1>3, <2>1, <2>5, <2>8 DEF BooksInv, BooksBalance, AtLeast0, Kept
  <2>17. Lending'
    <3>1. Funded' \in Nat /\ Funded <= Funded' /\ Owed' <= Owed
      BY <1>2, <2>5, <2>8
    <3> QED BY <1>3, <2>5, <2>8, <3>1, LendingStill DEF BooksInv
  <2>11. PICK low \in [Requests -> Nat] : Covers(low)
    BY DEF BooksInv, Bounds, LentOut
  <2>12. 0 \in Nat
    OBVIOUS
  <2>13. PICK new : CoverMoved(low, new, l, 0)
    BY <2>12, CoverMoves
  <2>14. /\ new \in [Requests -> Nat] /\ new[l] = 0
         /\ \A m \in Requests \ {l} : new[m] = low[m]
         /\ SumFunction(new) = SumFunction(low) - low[l] + 0
         /\ SumFunction(low) \in Nat /\ SumFunction(new) \in Nat
    BY <2>13 DEF CoverMoved
  <2>15. low[l] <= loan[l].remaining /\ low[l] \in Nat
    BY <2>4, <2>11 DEF Covers
  <2>16. Covers(new)'
    <3>1. \A m \in Requests : new[m] <= Owes'[m]
      BY <2>4, <2>11, <2>14 DEF Covers
    <3>2. ASSUME NEW d \in Calls, Proving(d)', RequestOf(d)'.op = "repay"
          PROVE  new[RequestOf(d)'.loan] <= call'[d].base
      <4>1. Proving(d) /\ call'[d] = call[d] /\ RequestOf(d)' = RequestOf(d)
        BY <1>3, <3>2 DEF Fewer
      <4>2. RequestOf(d).loan \in Requests /\ call[d].base \in Nat
        BY <3>2, <4>1, PartTypes DEF PoolInv, Sound, Proving, RequestOf
      <4>3. low[RequestOf(d).loan] <= call[d].base
        BY <2>11, <3>2, <4>1 DEF Covers
      <4>4. CASE RequestOf(d).loan = l
        BY <2>14, <4>1, <4>2, <4>4
      <4>5. CASE RequestOf(d).loan # l
        BY <2>14, <4>1, <4>2, <4>3, <4>5
      <4> QED BY <4>4, <4>5
    <3>3. outstanding' <= SumFunction(new)
      <4>1. outstanding <= SumFunction(low) /\ outstanding \in Nat
        BY <2>11 DEF Covers, PoolInv, TypeOK
      <4> QED BY <1>2, <2>1, <2>14, <2>15, <4>1 DEF AtLeast0
    <3> QED BY <3>1, <3>2, <3>3 DEF Covers
  <2> QED BY <2>3, <2>9, <2>10, <2>14, <2>16, <2>17 DEF BooksInv, Bounds, LentOut
<1> QED BY <1>2, <1>6, <1>7

(* Every step.                                                             *)
LEMMA NextBooks ==
  Constants /\ FiniteBooks /\ SettledInv /\ BooksInv /\ [Next]_vars /\ PoolInv' => BooksInv'
<1> SUFFICES ASSUME Constants, FiniteBooks, PoolInv, Core, BooksInv, [Next]_vars, PoolInv'
             PROVE  BooksInv'
  BY DEF SettledInv
<1>1. CASE UNCHANGED vars
  <2>1. UNCHANGED <<request, call, total, outstanding, share, loan, seized, overlaps>>
    BY <1>1 DEF vars, poolVars, loanVars
  <2>2. Kept /\ Fewer /\ SeizedOver'
    BY <2>1 DEF Kept, Fewer, Proving, RequestOf, BooksInv, Bounds, SeizedOver, overlaps
  <2> QED BY <2>1, <2>2, StillOwes, StillBooks
<1>2. CASE \E q \in Requests, u \in Users :
             \/ \E amount \in Deposits : ComposeDeposit(q, u, amount)
             \/ \E amount \in LoanSizes, collateral \in Collaterals, terms \in Terms :
                  ComposeBorrow(q, u, amount, collateral, terms)
             \/ Reseal(q, u)
  <2>1. PICK q \in Requests, u \in Users : (\E r : Compose(q, r)) \/ Reseal(q, u)
    BY <1>2 DEF ComposeDeposit, ComposeBorrow
  <2> QED BY <2>1, OutsideBooks
<1>3. CASE \E q, l \in Requests : ComposeRepay(q, l)
  <2>1. PICK q \in Requests, l \in Requests : loan[l] # None /\ \E r : Compose(q, r)
    BY <1>3 DEF ComposeRepay
  <2>2. loan[l].user \in Users
    BY <2>1, PartTypes DEF PoolInv
  <2> QED BY <2>1, <2>2, OutsideBooks
<1>4. ASSUME NEW u \in Users, Revoke(u) PROVE BooksInv'
  <2>1. UNCHANGED <<request, call, total, outstanding, share, loan, seized, overlaps>>
    BY <1>4 DEF Revoke, poolVars, loanVars
  <2>2. Kept /\ Fewer /\ SeizedOver'
    BY <2>1 DEF Kept, Fewer, Proving, RequestOf, BooksInv, Bounds, SeizedOver, overlaps
  <2> QED BY <2>1, <2>2, StillOwes, StillBooks
<1>5. CASE \E c \in Calls, q \in Requests :
             BeginDeposit(c, q) \/ BeginBorrow(c, q) \/ BeginRepay(c, q)
  BY <1>5, BeginBooks
<1>6. CASE \E c \in Calls :
             \/ CircuitFails(c) \/ AlreadySpent(c)
             \/ ApplyDeposit(c) \/ ApplyBorrow(c) \/ BorrowConflict(c) \/ ApplyRepay(c)
  BY <1>6, RefusalBooks, DepositBooks, BorrowBooks, RepayBooks
<1>7. CASE \E l \in Requests : TimePasses(l) \/ RecordMiss(l) \/ Liquidate(l)
  BY <1>7, TimeBooks
<1> QED BY <1>1, <1>2, <1>3, <1>4, <1>5, <1>6, <1>7 DEF Next

(* The books keep what is stated of them.                                  *)
LEMMA BooksInvHolds == ASSUME Constants, FiniteBooks PROVE Spec => [](SettledInv /\ BooksInv)
<1>1. Init => BooksInv
  BY InitBooks
<1>2. SettledInv /\ SettledInv' /\ BooksInv /\ [Next]_vars => BooksInv'
  BY NextBooks DEF SettledInv
<1> QED BY <1>1, <1>2, SettledHolds, PTL DEF Spec

(* The pool's books: however calls overlap, the pool never shows more than *)
(* it was given, nor more lent out than is owed; its total is exact while  *)
(* no deposit was overlapped, and what is lent out while no loan was raced *)
(* over by two repayments, or one and the liquidation.                     *)
THEOREM BooksAreKept ==
  ASSUME Constants, FiniteBooks
  PROVE  Spec => []BooksHold
<1>1. SettledInv /\ BooksInv => BooksHold
  <2> SUFFICES ASSUME PoolInv, BooksInv PROVE BooksHold
    BY DEF SettledInv
  <2>1. PICK low \in [Requests -> Nat] : Covers(low)
    BY DEF BooksInv, Bounds, LentOut
  <2>2. Owes \in [Requests -> Int] /\ low \in [Requests -> Int]
    BY OwesIs DEF BooksInv, Bounds
  <2>3. SumFunction(low) <= Owed
    BY <2>1, <2>2, SumsCompare DEF Covers, Owed, FiniteBooks
  <2>4. SumFunction(low) \in Int /\ Owed \in Int /\ outstanding \in Int
    BY <2>2, SumType DEF FiniteBooks, Owed, PoolInv, TypeOK
  <2>5. outstanding <= SumFunction(low) /\ total <= Funded
    BY <2>1 DEF Covers, BooksInv, Bounds, Given
  <2> QED BY <2>3, <2>4, <2>5 DEF BooksHold, BooksInv, BooksBalance
<1> QED BY <1>1, BooksInvHolds, PTL

(* What is checked before a circuit still holds when it is relied on after *)
(* it: the pool never lends more than it was given, unless two loans       *)
(* waited at once or a loan was raced over; and the commitment of an       *)
(* account is not spent unless two deliveries of one of its requests       *)
(* overlapped.                                                             *)
THEOREM ChecksStillHold ==
  ASSUME Constants, FiniteBooks
  PROVE  Spec => []ChecksHold
<1>1. SettledInv /\ BooksInv => ChecksHold
  <2> SUFFICES ASSUME Core, BooksInv PROVE ChecksHold
    BY DEF SettledInv
  <2>1. raced = {} /\ "borrow" \notin rushed => Owed <= Funded
    BY DEF BooksInv, Lending
  <2>2. \A u \in Users : (\A q \in twice : request[q].user # u) => tip[u] \notin spent
    BY DEF Core, Tips, Calm
  <2> QED BY <2>1, <2>2 DEF ChecksHold
<1> QED BY <1>1, BooksInvHolds, PTL
=============================================================================
