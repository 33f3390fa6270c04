----------------------------- MODULE MCMarginfi -----------------------------
(***************************************************************************)
(* MarginfiUsdc on two owners, one adapter, one bank, and an account that  *)
(* is no bank.  A second mint appears in positions only: nobody holds any. *)
(***************************************************************************)
EXTENDS MarginfiUsdc, TLC

CONSTANTS
  k1, k2, p1, usdc, wsol, main, dud,
  Funds  \* USDC in each wallet

MCKeys == {k1, k2}
MCPrograms == {p1}
MCNameLens == {MAX_NAME_LEN}
MCMints == {usdc, wsol}
MCVenues == {main, dud}
MCBanks == {main}
MCVenueMint == [v \in MCVenues |-> IF v = main THEN usdc ELSE NoMint]
MCWalletFunds == [m \in MCMints |-> IF m = usdc THEN Funds ELSE 0]
MCOtherFunds == [m \in MCMints |-> 0]

\* Owners are interchangeable; every property of the run is a safety property.
Symmetry == Permutations(MCKeys)
=============================================================================
