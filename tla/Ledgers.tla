------------------------------- MODULE Ledgers -------------------------------
(***************************************************************************)
(* The two ledgers the server keeps, composed: the accounts of well-       *)
(* behaved wallets (SerialSettlement) and the credit pool (CreditPool).    *)
(* The server keeps their state apart but for the account's commitment,    *)
(* which each of them sees the other change as a reseal; so the first      *)
(* state chooses which of them runs, and what holds of a part then holds   *)
(* of it beside the other.                                                 *)
(***************************************************************************)
EXTENDS SerialSettlement

CONSTANTS
  PoolUsers, PoolRequests, Deliveries, Seed, Deposits, LoanSizes, Collaterals, Terms,
  Grace, Gated

VARIABLES part, keys, tip, nullifiers, barred, request, delivery, total, outstanding,
          share, loan, counted, onTime, seized, twice, raced, rushed

Pool == INSTANCE CreditPool_proofs WITH
  Users <- PoolUsers, Requests <- PoolRequests, Calls <- Deliveries, spent <- nullifiers,
  revoked <- barred, call <- delivery

PoolConstants == Pool!ConstantTypes /\ Pool!NoneIsFresh /\ Pool!FiniteBooks

poolVars == <<keys, tip, nullifiers, barred, request, delivery, total, outstanding, share,
              loan, counted, onTime, seized, twice, raced, rushed>>
allVars == <<part, vars, poolVars>>

LedgersInit ==
  /\ part \in {"account", "pool"} /\ Init /\ Pool!Init
  /\ part = "account" => keys

LedgersNext ==
  /\ UNCHANGED part
  /\ \/ part = "account" /\ SerialNext /\ UNCHANGED poolVars
     \/ part = "pool" /\ Pool!Next /\ UNCHANGED vars

LedgersSpec == LedgersInit /\ [][LedgersNext]_allVars

-----------------------------------------------------------------------------
(* The books of the pool never show more than was given, nor more lent out *)
(* than is owed, and are exact while no calls overlap that write the same  *)
(* figure; the pool lends no more than it was given, though deposits,      *)
(* repayments and liquidations pass a loan that is proved, unless two      *)
(* loans were proved at once or a loan was raced over.                     *)
PoolHolds ==
  part = "pool" =>
    Pool!TypeOK /\ Pool!BooksHold /\ Pool!ChecksHold

(* A loan that is over stays over, released or seized, unless a repayment  *)
(* of it waited for its circuit when another began or when it was          *)
(* liquidated: the pool's property under this module's own name.           *)
LoanEndsOnce == Pool!LoanEndsOnce
=============================================================================
