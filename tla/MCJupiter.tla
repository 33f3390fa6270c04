----------------------------- MODULE MCJupiter -----------------------------
(***************************************************************************)
(* JupiterLp on two owners and another liquidity provider.  The pool is    *)
(* the only venue; a second mint appears in positions only: nobody holds   *)
(* any.                                                                    *)
(***************************************************************************)
EXTENDS JupiterLp, TLC

CONSTANTS
  k1, k2, p1, usdc, wsol, jlp,
  Funds,      \* USDC in each wallet
  OthersHave  \* USDC the others start with

MCKeys == {k1, k2}
MCPrograms == {p1}
MCNameLens == {MAX_NAME_LEN}
MCMints == {usdc, wsol}
MCVenues == {jlp}
MCVenueMint == [v \in MCVenues |-> usdc]
MCWalletFunds == [m \in MCMints |-> IF m = usdc THEN Funds ELSE 0]
MCOtherFunds == [m \in MCMints |-> IF m = usdc THEN OthersHave ELSE 0]

\* Owners are interchangeable; every property of the run is a safety property.
Symmetry == Permutations(MCKeys)
=============================================================================
