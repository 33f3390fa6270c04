------------------------------ MODULE MCMaple ------------------------------
(***************************************************************************)
(* MapleSyrup on one owner, other users of the whirlpool and four prices:  *)
(* a quarter, one, nine quarters and four USDC per syrupUSDC.  The         *)
(* whirlpool is the only venue; a second mint appears in positions only.   *)
(***************************************************************************)
EXTENDS MapleSyrup

CONSTANTS
  k1, p1, usdc, wsol, orca,
  Funds,      \* USDC in each wallet
  OthersHave  \* USDC the others start with

MCKeys == {k1}
MCPrograms == {p1}
MCNameLens == {MAX_NAME_LEN}
MCMints == {usdc, wsol}
MCVenues == {orca}
MCVenueMint == [v \in MCVenues |-> usdc]
MCWalletFunds == [m \in MCMints |-> IF m = usdc THEN Funds ELSE 0]
MCOtherFunds == [m \in MCMints |-> IF m = usdc THEN OthersHave ELSE 0]
=============================================================================
