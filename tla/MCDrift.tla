------------------------------ MODULE MCDrift ------------------------------
(***************************************************************************)
(* DriftTransaction with two owners, whose transactions alternate, and     *)
(* other stakers.  The fund's vault is the only venue; its cooldown is     *)
(* zero or one second, as Drift's admin likes, and a second passes.        *)
(***************************************************************************)
EXTENDS DriftTransaction, TLC

CONSTANTS
  k1, k2, p1, usdc, market,
  Funds,      \* USDC in each wallet
  OthersHave  \* USDC the other stakers start with

MCKeys == {k1, k2}
MCPrograms == {p1}
MCNameLens == {MAX_NAME_LEN}
MCMints == {usdc}
MCVenues == {market}
MCVenueMint == [v \in MCVenues |-> usdc]
MCWalletFunds == [m \in MCMints |-> Funds]
MCOtherFunds == [m \in MCMints |-> OthersHave]

\* Owners are interchangeable; every property of the run is a safety property.
Symmetry == Permutations(MCKeys)
=============================================================================
