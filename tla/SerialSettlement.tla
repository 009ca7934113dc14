-------------------------- MODULE SerialSettlement --------------------------
(***************************************************************************)
(* Settlement under the discipline one well-behaved wallet keeps: an       *)
(* account has one operation open at a time, and every reseal goes to a    *)
(* fresh commitment.  The wallet screen disables its buttons while a       *)
(* payment runs, but nothing on the server enforces either rule; the runs  *)
(* of Settlement itself show what happens without them.                    *)
(***************************************************************************)
EXTENDS Settlement

Busy(u) == \E r \in Requests : InFlight(r) /\ call[r].user = u

OneCallPerAccount ==
  \A r, s \in Requests :
    InFlight(r) /\ InFlight(s) /\ call[r].user = call[s].user => r = s

(* A step of a disciplined wallet: it starts no second call, it changes an *)
(* account only when that leaves no call of the account open, and it never *)
(* goes back to a commitment it has used.                                  *)
Disciplined ==
  /\ OneCallPerAccount'
  /\ \A u \in Users :
       /\ commit'[u] # commit[u] \/ policy'[u] # policy[u] => ~Busy(u)'
       /\ commit'[u] # commit[u] => owner[commit'[u]] = None
                                     \/ \E r \in Requests : At(r, "chain")
                                          /\ call[r].new = commit'[u]

SerialNext == Next /\ Disciplined

SerialSpec == Init /\ [][SerialNext]_vars

-----------------------------------------------------------------------------
Ledger == INSTANCE AccountLedger WITH
  tip <- commit,
  burned <- {c \in Commitments : spent[c] > 0},
  booked <- {r \in Requests : events[r] # None},
  Payments <- Requests

(* With one operation at a time the server implements the ledger of        *)
(* commitment chains: no commitment is spent twice, abandoned unspent, or  *)
(* taken up again, across restarts too.                                    *)
ImplementsLedger == Ledger!Spec

(* A transfer replaces exactly the balance commitment and the policy       *)
(* commitment its circuits were run on.                                    *)
AppliesToItsWitness ==
  [][\A r \in Requests :
       events'[r] # events[r] =>
         /\ call[r].old = commit[call[r].user]
         /\ call[r].base = policy[call[r].user]]_vars

(* No account settles more payments within the hour than the risk engine   *)
(* allows: what the engine counted at its check is still the count when    *)
(* the payment settles.                                                    *)
VelocityCap ==
  \A u \in Users : Cardinality(PaymentsOf(u, PostSettle)) <= MaxSettles
=============================================================================
