------------------------- MODULE MCSettlementAndPool -------------------------
(* An instance of Ledgers for TLC.  The parts share their model values,    *)
(* and with them their symmetry: ra, rb are requests of the wallet and     *)
(* users of the pool, ca, cb, cc its fresh commitments and their requests. *)
EXTENDS Ledgers, TLC

CONSTANTS alice, alice0, ra, rb, ca, cb, cc

MCGenesis == alice :> alice0

Slots == Permutations({ra, rb}) \union Permutations({ca, cb, cc})
           \union Permutations(Deliveries)

ASSUME PoolConstantsHold == PoolConstants
=============================================================================
