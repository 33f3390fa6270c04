---------------------------- MODULE MCDispatcher ----------------------------
(***************************************************************************)
(* Dispatcher on two owners (either may be the admin), two venues for      *)
(* USDC, two USDC in all, the owners'; one interface upgrade.  Three of    *)
(* four candidate programs are executable, and the registry has room for   *)
(* two: it fills up and refuses the third.  Everybody else gets USDC from  *)
(* a venue (as a borrower does).  A second mint appears in positions only: *)
(* no venue takes it and nobody holds any.                                 *)
(***************************************************************************)
EXTENDS Dispatcher, TLC

CONSTANTS k1, k2, p1, p2, p3, p4, usdc, wsol, main, side

MCKeys == {k1, k2}
MCPrograms == {p1, p2, p3, p4}
MCExecutable == {p1, p2, p3}
MCNameLens == {MAX_NAME_LEN, MAX_NAME_LEN + 1}
MCMints == {usdc, wsol}
MCVenues == {main, side}
MCVenueMint == [v \in MCVenues |-> usdc]
MCWalletFunds == [m \in MCMints |-> IF m = usdc THEN 1 ELSE 0]
MCOtherFunds == [m \in MCMints |-> 0]

\* Owners are interchangeable, so are executable programs and venues, in the
\* model and in every property of the run; all of them are safety properties.
Symmetry == Permutations(MCKeys) \cup Permutations(MCExecutable)
              \cup Permutations(MCVenues)
=============================================================================
