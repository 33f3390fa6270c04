----------------------------- MODULE JupiterLp -----------------------------
(***************************************************************************)
(* The jupiter-lp adapter behind the dispatcher (programs/jupiter-lp/src), *)
(* over the JLP pool it adds liquidity to and removes it from.             *)
(*                                                                         *)
(* The adapter books the LP tokens a deposit added to the position's token *)
(* account and prices what that account holds: the books and the account   *)
(* are different numbers as soon as somebody sends LP tokens there.        *)
(*                                                                         *)
(* Jupiter is external; it is modelled by what the adapter relies on: LP   *)
(* tokens are minted and burned at the pool's assets under management per  *)
(* LP token, rounded down, less a fee that stays in the pool; the AUM      *)
(* follows the prices of all the pool's assets, but the pool account's     *)
(* aumUsd is what the last liquidity instruction computed.  A venue other  *)
(* than JlpPool stands for accounts Jupiter refuses: adapter_initialize    *)
(* records pool, custody and LP mint unchecked.                            *)
(***************************************************************************)
EXTENDS Dispatcher, Functions

CONSTANTS
  Jupiter,  \* program id of the jupiter-lp adapter
  JlpPool,  \* the pool, its custody and its LP mint, among the venues
  Fees,     \* what Jupiter may keep of an amount, in base units
  MaxAum    \* bound on the AUM prices and others' liquidity lead to

ASSUME JupiterAssumption ==
  /\ Jupiter \in Programs
  /\ JlpPool \in Venues
  /\ VenueMint[JlpPool] \in Mints
  /\ Fees \subseteq Nat
  /\ MaxAum \in Nat

VARIABLES
  lp_token_account,  \* <<owner, Jupiter>> -> LP tokens in the position's account
  lp_elsewhere,      \* LP tokens everybody else holds
  lp_supply,         \* supply of the LP mint
  aum,               \* value of the pool's assets at current prices
  aum_usd            \* Pool.aumUsd: the same when it was last computed

jupiterVars == <<lp_token_account, lp_elsewhere, lp_supply, aum, aum_usd>>
jvars == <<vars, jupiterVars>>

-----------------------------------------------------------------------------
(* Jupiter *)

\* A pool that has LP tokens and no assets left takes no liquidity.
TakesLiquidity == lp_supply = 0 \/ aum > 0
LpFor(amount) == IF lp_supply = 0 THEN amount ELSE (amount * lp_supply) \div aum

\* The part of the pool `lp` LP tokens stand for.
PartOf(lp) == (lp * aum) \div lp_supply

\* The token program's checked additions, to the account and to the supply.
MayMint(k, lp) == lp_token_account[k] + lp <= MaxU64 /\ lp_supply + lp <= MaxU64

\* Each liquidity instruction computes the AUM and stores it.
AumBecomes(n) == aum' = n /\ aum_usd' = n

-----------------------------------------------------------------------------
(* the adapter's own arithmetic *)

\* Mutant: all the LP tokens in the account are booked.
LpBalance(before, after) == after

\* shares_minted: what the CPI added to lp_token_account.
LpMinted(before, after) == after - before

\* Mutant: the pool's balance is taken for its change.
JPoolBalance(before, after) == after

\* amount_out: what the CPI moved into the pool.
JAmountOut(before, after) == after - before

\* Mutant: the division of lp_value_usdc is rounded up.
LpValueRoundedUp(k) ==
  IF lp_token_account[k] = 0 THEN 0
  ELSE (lp_token_account[k] * aum_usd + lp_supply - 1) \div lp_supply

\* lp_value_usdc, from the stored AUM.
LpValueUsdc(lp) == IF lp = 0 THEN 0 ELSE (lp * aum_usd) \div lp_supply

\* The value adapter_current_value returns: of the LP tokens the account holds.
LpValue(k) == LpValueUsdc(lp_token_account[k])

-----------------------------------------------------------------------------
(* the instructions *)

JInit ==
  /\ Init
  /\ lp_token_account = NoAccounts
  /\ lp_elsewhere = 0
  /\ lp_supply = 0
  /\ aum = 0
  /\ aum_usd = 0

\* open_position, adapter_initialize in its CPI: the state and the LP token
\* account are created, pool, custody and LP mint are recorded unchecked.
JOpenPosition(owner, mint, chosen) ==
  /\ OpenPosition(owner, Jupiter, mint, chosen)
  /\ lp_token_account' = Create(lp_token_account, <<owner, Jupiter>>, 0)
  /\ UNCHANGED <<lp_elsewhere, lp_supply, aum, aum_usd>>

\* The route is open and the position is bound to the pool.
PoolBound(owner) ==
  /\ Movable(owner, Jupiter)
  /\ venue[<<owner, Jupiter>>] = JlpPool

\* CPI add_liquidity2 with no minimum out.
AddLiquidity(k, amount, fee) ==
  LET bought == LpFor(amount - fee) IN
  /\ TakesLiquidity
  /\ fee <= amount
  /\ MayMint(k, bought)
  /\ lp_token_account' = [lp_token_account EXCEPT ![k] = @ + bought]
  /\ lp_supply' = lp_supply + bought
  /\ AumBecomes(aum + amount)
  /\ UNCHANGED lp_elsewhere

\* What remove_liquidity2 asks for: the account, the mint and the custody hold
\* enough, and the fee is no more than the part.
Removable(k, lp, fee) ==
  /\ lp <= lp_token_account[k]
  /\ lp <= lp_supply
  /\ PartOf(lp) - fee \in 0..protocol[JlpPool]

\* CPI remove_liquidity2 with no minimum out.
RemoveLiquidity(k, lp, fee) ==
  /\ lp_token_account' = [lp_token_account EXCEPT ![k] = @ - lp]
  /\ lp_supply' = lp_supply - lp
  /\ AumBecomes(aum - (PartOf(lp) - fee))
  /\ UNCHANGED lp_elsewhere

\* deposit with adapter_deposit: what the CPI added to the token account is
\* booked.
JDeposit(owner, amount, fee) ==
  LET k == <<owner, Jupiter>>
      bought == LpFor(amount - fee)
      minted == LpMinted(lp_token_account[k], lp_token_account[k] + bought)
  IN
  /\ amount > 0
  /\ PoolBound(owner)
  /\ wallet[<<owner, position[k]>>] >= amount
  /\ AddLiquidity(k, amount, fee)
  /\ total_shares[k] + minted <= MaxU64
  /\ DepositEffect(owner, Jupiter, amount, amount, minted)

\* What a withdrawal has to pass: InsufficientShares beyond the books.
JMayWithdraw(owner, shares, fee) ==
  LET k == <<owner, Jupiter>> IN
  /\ shares > 0
  /\ PoolBound(owner)
  /\ shares <= total_shares[k]
  /\ Removable(k, shares, fee)

\* withdraw with adapter_withdraw.
JWithdraw(owner, shares, fee) ==
  LET k == <<owner, Jupiter>>
      redeemed == PartOf(shares) - fee
  IN
  /\ JMayWithdraw(owner, shares, fee)
  /\ RemoveLiquidity(k, shares, fee)
  /\ WithdrawEffect(owner, Jupiter, shares, redeemed,
                    JAmountOut(pool[k], pool[k] + redeemed))

-----------------------------------------------------------------------------
(* LP tokens are tokens; the pool's other users; prices *)

SendLp(k, lp) ==
  /\ lp <= lp_elsewhere
  /\ lp_token_account[k] + lp <= MaxU64
  /\ lp_token_account' = [lp_token_account EXCEPT ![k] = @ + lp]
  /\ lp_elsewhere' = lp_elsewhere - lp
  /\ UNCHANGED <<vars, lp_supply, aum, aum_usd>>

OthersAdd(amount) ==
  /\ TakesLiquidity
  /\ aum + amount <= MaxAum
  /\ lp_supply + LpFor(amount) <= MaxU64
  /\ ProtocolInflow(JlpPool, amount)
  /\ lp_elsewhere' = lp_elsewhere + LpFor(amount)
  /\ lp_supply' = lp_supply + LpFor(amount)
  /\ AumBecomes(aum + amount)
  /\ UNCHANGED lp_token_account

OthersRemove(lp) ==
  /\ lp \in 1..lp_elsewhere
  /\ lp <= lp_supply
  /\ ProtocolOutflow(JlpPool, PartOf(lp))
  /\ lp_elsewhere' = lp_elsewhere - lp
  /\ lp_supply' = lp_supply - lp
  /\ AumBecomes(aum - PartOf(lp))
  /\ UNCHANGED lp_token_account

\* Traders open, close and are liquidated: USDC flows, the AUM follows prices,
\* and nobody stores it.
TradersPay(amount) ==
  /\ ProtocolInflow(JlpPool, amount) \/ ProtocolOutflow(JlpPool, amount)
  /\ UNCHANGED jupiterVars

PricesMove ==
  /\ aum' \in 0..MaxAum
  /\ UNCHANGED <<vars, lp_token_account, lp_elsewhere, lp_supply, aum_usd>>

JOwnerStep ==
  \E owner \in Keys :
     \/ \E mint \in Mints, chosen \in Venues : JOpenPosition(owner, mint, chosen)
     \/ \E amount \in Amount, fee \in Fees :
           JDeposit(owner, amount, fee) \/ JWithdraw(owner, amount, fee)

JOthersStep ==
  \/ \E amount \in Amount :
        \/ \E k \in DOMAIN position : SendLp(k, amount)
        \/ OthersAdd(amount)
        \/ OthersRemove(amount)
        \/ TradersPay(amount)
  \/ PricesMove

JNext ==
  \/ RegistryNext /\ UNCHANGED <<fundVars, jupiterVars>>
  \/ JOwnerStep
  \/ JOthersStep
  \/ \E k \in DOMAIN position, amount \in Amount :
        DonateToPool(k, amount) /\ UNCHANGED jupiterVars

JSpec == JInit /\ [][JNext]_jvars

-----------------------------------------------------------------------------
\* Type invariant of the adapter's and the pool's accounts.
JTypeOK ==
  /\ TypeOK
  /\ DOMAIN position \subseteq Keys \X {Jupiter}
  /\ lp_token_account \in [DOMAIN position -> Amount]
  /\ lp_elsewhere \in Nat
  /\ lp_supply \in Nat
  /\ aum \in Nat
  /\ aum_usd \in Nat

\* Everything booked can be withdrawn at once whenever the pool's custody holds
\* enough for it: no history of fees, roundings, price moves and LP tokens sent
\* by others leaves more on the books than the account and the mint can burn.
JExitNeverBlocked ==
  \A k \in DOMAIN position :
     LET shares == total_shares[k] IN
     /\ PoolBound(k[1]) /\ shares > 0
     /\ lp_supply > 0 => PartOf(shares) <= protocol[JlpPool]
     => \E fee \in Fees : ENABLED JWithdraw(k[1], shares, fee)

\* As long as nothing moved the AUM since the pool stored it, what is reported
\* is what can be had: a withdrawal of all the account holds pays the value
\* that was reported less the fee, and never more.
JFullExitStep ==
  \A k \in DOMAIN position :
     LET w == <<k[1], position[k]>>
         paid == wallet'[w] - wallet[w]
     IN
     /\ total_shares'[k] < total_shares[k]
     /\ lp_token_account'[k] = 0
     /\ aum_usd = aum
     => \E fee \in Fees : paid = LpValue(k) - fee

JFullExitPaysValue == [][JFullExitStep]_jvars

\* The values the adapter reports for all positions together never exceed the AUM
\* the pool has stored, whoever else holds LP tokens and whoever sent the
\* positions some: they count as the holdings of one position and nobody else's.
LpCovered ==
  SumFunctionOnSet([k \in DOMAIN position |-> LpValue(k)], DOMAIN position) <= aum_usd

\* The adapter implements ShareCustody: LP tokens somebody sends count in the
\* reported value and are never paid out.
JCustody == INSTANCE ShareCustody WITH
  Positions <- PositionKeys, Units <- Amount, booked <- total_shares,
  held <- lp_token_account

JKeepsCustody == JCustody!Spec
=============================================================================
