----------------------------- MODULE KaminoExit -----------------------------
(***************************************************************************)
(* KaminoUsdc with an owner who wants her money back: what she may lose on *)
(* the way in and out, and that she gets out.                              *)
(*                                                                         *)
(* The programs schedule nothing.  The fairness is the owner's own: she    *)
(* sends the withdrawal of everything booked again and again, so that one  *)
(* of her transactions lands while it can succeed.  It has to be strong:   *)
(* the admin pauses and re-activates the adapter (pause_adapter) and       *)
(* borrowers empty and refill the reserve, so the withdrawal need not stay *)
(* possible from any point on.  Nothing is assumed of admin and borrowers. *)
(***************************************************************************)
EXTENDS KaminoUsdc, Functions

\* withdraw of all that is booked.
FullExit(owner) ==
  /\ <<owner, Kamino>> \in DOMAIN position
  /\ \E res \in Reserves : KWithdraw(owner, res, total_shares[<<owner, Kamino>>])

PersistentOwners == KSpec /\ \A owner \in Keys : SF_kvars(FullExit(owner))

\* The route is open, and the reserve has the liquidity for all that is booked.
CanLeave(k) ==
  /\ Movable(k[1], Kamino)
  /\ venue[k] \in Reserves
  /\ total_shares[k] > 0 => ExitValue(k) <= protocol[venue[k]]

\* Nothing is booked for the position.
Out(k) == k \in DOMAIN position => total_shares[k] = 0

\* A persistent owner gets out: no matter how often the admin pauses the adapter
\* and borrowers drain the reserve, if time and again both the route is open and
\* the liquidity is there, then her books are emptied, time and again if she
\* comes back.
EveryoneGetsOut ==
  \A k \in Keys \X {Kamino} : []<>CanLeave(k) => []<>Out(k)

-----------------------------------------------------------------------------
(* what the values reported come to *)

\* The positions bound to a reserve.
Holders(res) == {k \in DOMAIN position : venue[k] = res}

\* The values the adapter reports for a reserve's positions together never
\* exceed the liquidity the reserve holds and has lent out: no cToken is
\* counted for two positions, and none that its position could not redeem.
ValuesCovered ==
  \A res \in Reserves :
     SumFunctionOnSet([k \in Holders(res) |-> ReportedValue(k)], Holders(res)) * SF
        <= LiquidityNow(res)

-----------------------------------------------------------------------------
(* what a deposit or a withdrawal costs *)

Supply(k) == reserve[venue[k]].supply

\* What the owner of a position has, in wallet, pool and reserve, in units of
\* 1/SF, as a fraction.
WealthOver(k) == IF Supply(k) = 0 THEN 1 ELSE Supply(k)
Wealth(k) ==
  (wallet[<<k[1], position[k]>>] + pool[k]) * SF * WealthOver(k)
     + (IF Supply(k) = 0 THEN 0 ELSE total_shares[k] * LiquidityNow(venue[k]))

\* A deposit costs its owner less than one cToken and a withdrawal less than one
\* base unit: klend's rounding is all that is lost, although adapter_deposit asks
\* for no minimum and may book nothing at all.
CostStep ==
  \A k \in DOMAIN position :
     LET w == <<k[1], position[k]>> IN
     venue[k] \in Reserves =>
        /\ wallet'[w] < wallet[w] =>
              Wealth(k)' * WealthOver(k) + LiquidityNow(venue[k])' * WealthOver(k)
                 > Wealth(k) * WealthOver(k)'
        /\ wallet'[w] >= wallet[w] /\ total_shares'[k] < total_shares[k] =>
              Wealth(k)' * WealthOver(k) + SF * WealthOver(k) * WealthOver(k)'
                 > Wealth(k) * WealthOver(k)'

RoundingIsAllItCosts == [][CostStep]_kvars

\* The adapter implements ShareCustody: cTokens are the units.
Custody == INSTANCE ShareCustody WITH
  Positions <- PositionKeys, Units <- Amount,
  booked <- total_shares, held <- collateral_vault

KKeepsCustody == Custody!Spec
=============================================================================
