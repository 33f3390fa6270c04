------------------------------ MODULE MCKamino ------------------------------
(***************************************************************************)
(* KaminoExit, and with it KaminoUsdc, on two owners, one adapter, one     *)
(* reserve with other users, and an account that is none.  No symmetry:    *)
(* one property is a liveness property.                                    *)
(***************************************************************************)
EXTENDS KaminoExit

CONSTANTS
  k1, k2, p1, usdc, main, dud,
  Funds,      \* USDC in each wallet
  OthersHave  \* USDC of the reserve's other users

MCKeys == {k1, k2}
MCPrograms == {p1}
MCNameLens == {MAX_NAME_LEN}
MCMints == {usdc}
MCVenues == {main, dud}
MCReserves == {main}
MCVenueMint == [v \in MCVenues |-> IF v = main THEN usdc ELSE NoMint]
MCWalletFunds == [m \in MCMints |-> Funds]
MCOtherFunds == [m \in MCMints |-> OthersHave]
=============================================================================
