---------------------------- MODULE AccountLedger ----------------------------
(***************************************************************************)
(* What the account endpoints promise together: the balance commitment of  *)
(* an account is a chain.  Every change leaves the present commitment      *)
(* burned for good and moves to one that was never in use, and a transfer  *)
(* is entered once, against the commitment it spent.                       *)
(***************************************************************************)
CONSTANTS Users, Commitments, Genesis, Payments

VARIABLES
  tip,    \* the present commitment of each account
  burned, \* the commitments an account has moved away from
  booked  \* the payments whose transfer is on the ledger

vars == <<tip, burned, booked>>

Init ==
  /\ tip = Genesis
  /\ burned = {}
  /\ booked = {}

Move(u, c) ==
  /\ c \notin burned
  /\ \A v \in Users : tip[v] # c
  /\ tip' = [tip EXCEPT ![u] = c]
  /\ burned' = burned \union {tip[u]}

(* A transfer out of the account.                                          *)
Pay(u, c, p) ==
  /\ p \notin booked
  /\ Move(u, c)
  /\ booked' = booked \union {p}

(* A note claimed, a balance resealed or topped up.                        *)
Renew(u, c) == Move(u, c) /\ UNCHANGED booked

Next ==
  \E u \in Users, c \in Commitments :
    Renew(u, c) \/ \E p \in Payments : Pay(u, c, p)

Spec == Init /\ [][Next]_vars
=============================================================================
