------------------------------ MODULE DriftIf ------------------------------
(***************************************************************************)
(* The drift-if adapter behind the dispatcher (programs/drift-if/src),     *)
(* over Drift's USDC insurance fund.                                       *)
(*                                                                         *)
(* The adapter books the shares its stake in the fund grew by.  A          *)
(* withdrawal issues Drift's request and its removal in one instruction,   *)
(* so the removal meets a cooldown that began in the same second.  The     *)
(* cooldown is Drift's admin's to change at any time.                      *)
(*                                                                         *)
(* Drift is external; it is modelled by what the adapter relies on: a      *)
(* stake gets shares at the fund's rate, a removal pays the shares' part   *)
(* of the vault once the cooldown is over, both rounded down, and a stake  *)
(* answers to its authority, the position, only.  A fund nobody has a      *)
(* stake in belongs to the protocol; revenue is paid into the vault and    *)
(* losses are drawn from it.  The spot market is not checked by            *)
(* adapter_initialize, but Drift's init_if_stake takes none but the one of *)
(* MARKET_INDEX.  protocol[SpotMarket] is the insurance_fund_vault.        *)
(***************************************************************************)
EXTENDS Dispatcher, Functions

CONSTANTS
  Drift,             \* program id of the drift-if adapter
  SpotMarket,        \* the spot market of MARKET_INDEX, among the venues
  Periods,           \* cooldowns Drift's admin may set
  MaxShares,         \* bound on the shares other stakers get
  MaxTime            \* bound on the time that passes

ASSUME DriftAssumption ==
  /\ Drift \in Programs
  /\ SpotMarket \in Venues
  /\ VenueMint[SpotMarket] \in Mints
  /\ Periods \subseteq Nat
  /\ MaxShares \in Nat
  /\ MaxTime \in Nat

VARIABLES
  if_shares,         \* <<owner, Drift>> -> InsuranceFundStake.if_shares
  other_shares,      \* shares of everybody else's stakes, the protocol's included
  fund_shares,       \* SpotMarket.insurance_fund.total_shares
  unstaking_period,  \* SpotMarket.insurance_fund.unstaking_period
  now                \* Clock::get()?.unix_timestamp

driftVars == <<if_shares, other_shares, fund_shares, unstaking_period, now>>
dvars == <<vars, driftVars>>

FundVault == protocol[SpotMarket]

-----------------------------------------------------------------------------
(* Drift *)

\* The fund's shares as the next stake finds them: those of a fund without
\* stakes are the protocol's, one for each unit in the vault.
SharesOut == IF fund_shares = 0 THEN FundVault ELSE fund_shares

\* Shares for a stake of `amount`; a drained fund that has stakes takes none.
TakesStakes == FundVault > 0 \/ fund_shares = 0
StakeFor(amount) ==
  IF FundVault = 0 THEN amount ELSE (amount * SharesOut) \div FundVault

\* What the vault pays for `shares`.
Worth(shares) == (shares * FundVault) \div fund_shares

\* Drift's checked subtractions, from the shares and from the vault.
CanPay(shares) == shares <= fund_shares /\ Worth(shares) <= FundVault

-----------------------------------------------------------------------------
(* the adapter's own arithmetic *)

\* Mutant: the amount is booked for the shares it bought.
AmountForShares(before, after, amount) == amount

\* shares_minted: what the CPI added to the stake, whatever the amount was.
Minted(before, after, amount) == after - before

\* Mutant: the pool's balance is taken for its change.
PoolBalance(before, after) == after

\* amount_out: what the removal moved into the pool.
AmountOut(before, after) == after - before

\* Mutant: a removal is refused only while the clock has not moved at all.
CooldownIgnored(requested_at) == now >= requested_at

\* remove_insurance_fund_stake's condition on the time of the request.
CooldownOver(requested_at) == now - requested_at >= unstaking_period

\* Mutant: the stake is valued over a total that leaves the others' shares out.
ValueOfOwnTotal(k) ==
  IF if_shares[k] = 0 THEN 0
  ELSE (if_shares[k] * FundVault) \div (fund_shares - other_shares)

\* Mutant: the division of stake_value_usdc is rounded up.
ValueRoundedUp(k) ==
  IF if_shares[k] = 0 THEN 0
  ELSE (if_shares[k] * FundVault + fund_shares - 1) \div fund_shares

\* stake_value_usdc.
StakeValueUsdc(shares) == IF shares = 0 THEN 0 ELSE Worth(shares)

\* The value adapter_current_value returns.
StakeValue(k) == StakeValueUsdc(if_shares[k])

-----------------------------------------------------------------------------
(* the instructions *)

DInit ==
  /\ Init
  /\ if_shares = NoAccounts
  /\ other_shares = 0
  /\ fund_shares = 0
  /\ unstaking_period \in Periods
  /\ now = 0

\* CPIs initialize_user_stats and initialize_insurance_fund_stake: a stake
\* whose authority is the position.
InitIfStake(k) ==
  /\ if_shares' = Create(if_shares, k, 0)
  /\ UNCHANGED <<other_shares, fund_shares, unstaking_period, now>>

\* open_position, adapter_initialize in its CPI.
DOpenPosition(owner, mint) ==
  /\ OpenPosition(owner, Drift, mint, SpotMarket)
  /\ InitIfStake(<<owner, Drift>>)

\* deposit with adapter_deposit: add_stake, then the change is booked.
DDeposit(owner, amount) ==
  LET k == <<owner, Drift>>
      bought == StakeFor(amount)
      minted == Minted(if_shares[k], if_shares[k] + bought, amount)
  IN
  /\ amount > 0
  /\ Movable(owner, Drift)
  /\ wallet[<<owner, position[k]>>] >= amount
  /\ TakesStakes
  /\ total_shares[k] + minted <= MaxU64
  /\ DepositEffect(owner, Drift, amount, amount, minted)
  /\ if_shares' = [if_shares EXCEPT ![k] = @ + bought]
  /\ other_shares' = other_shares + SharesOut - fund_shares
  /\ fund_shares' = SharesOut + bought
  /\ UNCHANGED <<unstaking_period, now>>

\* adapter_withdraw's InsufficientShares check.
SharesOnBooks(k, shares) == shares <= total_shares[k]

\* What a withdrawal has to pass: request_remove and remove_stake are in the same
\* instruction, so the request is made now; a removal that fails takes the
\* request with it.
DMayWithdraw(owner, shares) ==
  LET k == <<owner, Drift>>
      requested_at == now
  IN
  /\ shares > 0
  /\ Movable(owner, Drift)
  /\ SharesOnBooks(k, shares)
  /\ shares <= if_shares[k]
  /\ CooldownOver(requested_at)
  /\ CanPay(shares)

\* withdraw with adapter_withdraw.
DWithdraw(owner, shares) ==
  LET k == <<owner, Drift>>
      redeemed == Worth(shares)
  IN
  /\ DMayWithdraw(owner, shares)
  /\ WithdrawEffect(owner, Drift, shares, redeemed,
                    AmountOut(pool[k], pool[k] + redeemed))
  /\ if_shares' = [if_shares EXCEPT ![k] = @ - shares]
  /\ fund_shares' = fund_shares - shares
  /\ UNCHANGED <<other_shares, unstaking_period, now>>

-----------------------------------------------------------------------------
(* Drift's other stakers, its revenue and losses, time, and its admin *)

OtherStake(amount) ==
  /\ amount > 0
  /\ TakesStakes
  /\ ProtocolInflow(SpotMarket, amount)
  /\ other_shares + StakeFor(amount) <= MaxShares
  /\ other_shares' = other_shares + SharesOut - fund_shares + StakeFor(amount)
  /\ fund_shares' = SharesOut + StakeFor(amount)
  /\ UNCHANGED <<if_shares, unstaking_period, now>>

OtherUnstake(shares) ==
  /\ shares \in 1..other_shares
  /\ CanPay(shares)
  /\ ProtocolOutflow(SpotMarket, Worth(shares))
  /\ other_shares' = other_shares - shares
  /\ fund_shares' = fund_shares - shares
  /\ UNCHANGED <<if_shares, unstaking_period, now>>

RevenueOrLoss(amount) ==
  /\ ProtocolInflow(SpotMarket, amount) \/ ProtocolOutflow(SpotMarket, amount)
  /\ UNCHANGED driftVars

TimePasses ==
  /\ now < MaxTime
  /\ now' = now + 1
  /\ UNCHANGED <<vars, if_shares, other_shares, fund_shares, unstaking_period>>

\* Drift's admin sets another cooldown.
PeriodChanges ==
  /\ unstaking_period' \in Periods
  /\ UNCHANGED <<vars, if_shares, other_shares, fund_shares, now>>

DOwnerStep ==
  \E owner \in Keys :
     \/ \E mint \in Mints : DOpenPosition(owner, mint)
     \/ \E amount \in Amount : DDeposit(owner, amount) \/ DWithdraw(owner, amount)

DOthersStep ==
  \E amount \in Amount :
     \/ OtherStake(amount)
     \/ OtherUnstake(amount)
     \/ RevenueOrLoss(amount)

DNext ==
  \/ RegistryNext /\ UNCHANGED <<fundVars, driftVars>>
  \/ DOwnerStep
  \/ DOthersStep
  \/ \E k \in DOMAIN position, amount \in Amount :
        DonateToPool(k, amount) /\ UNCHANGED driftVars
  \/ TimePasses
  \/ PeriodChanges

DSpec == DInit /\ [][DNext]_dvars

-----------------------------------------------------------------------------
\* Type invariant of the adapter's and the fund's accounts.
DTypeOK ==
  /\ TypeOK
  /\ DOMAIN position \subseteq Keys \X {Drift}
  /\ venue \in [DOMAIN position -> {SpotMarket}]
  /\ if_shares \in [DOMAIN position -> Nat]
  /\ other_shares \in Nat
  /\ fund_shares \in Nat
  /\ unstaking_period \in Periods
  /\ now \in 0..MaxTime

\* The books and the stake, two accounts of two programs, never part: nothing is
\* held that could not be withdrawn, and nothing booked that is not held,
\* whatever rounding, revenue and losses come between.
StakeIsBooked == \A k \in DOMAIN position : total_shares[k] = if_shares[k]

\* A position is diluted by nobody: unless the fund takes a loss, its reported
\* value never falls while its own stake rests, although stakes and removals of
\* all the others are rounded, and some of them mint nothing or pay nothing.
DilutionStep ==
  \A k \in DOMAIN position :
     /\ if_shares'[k] = if_shares[k]
     /\ FundVault' < FundVault => fund_shares' # fund_shares
     => StakeValue(k)' >= StakeValue(k)

NobodyDiluted == [][DilutionStep]_dvars

\* The values the adapter reports for all positions together never exceed what is
\* in the fund's vault, whoever else has a stake in it: no share is counted for
\* two positions, and what the positions are told they have is there.
StakesCovered ==
  SumFunctionOnSet([k \in DOMAIN position |-> StakeValue(k)], DOMAIN position)
     <= FundVault

\* Reported is what leaving pays: a withdrawal that empties the books brings its
\* owner exactly the value reported before it, no more and no less.
DFullExitStep ==
  \A k \in DOMAIN position :
     LET w == <<k[1], position[k]>> IN
     total_shares'[k] < total_shares[k] /\ total_shares'[k] = 0
     => wallet'[w] - wallet[w] = StakeValue(k)

DFullExitPaysValue == [][DFullExitStep]_dvars

\* "The one-tx form here is correct only where the cooldown is 0"
\* (adapter_withdraw.rs): while the route is open the whole stake can be
\* withdrawn whenever the cooldown is zero, and never while it is not, however
\* long the owner waits and however often the withdrawal is tried.
CooldownDecides ==
  \A k \in DOMAIN position :
     Movable(k[1], Drift) /\ total_shares[k] > 0
     => (ENABLED DWithdraw(k[1], total_shares[k]) <=> unstaking_period = 0)

\* The same for any withdrawal, as what no step does: while there is a cooldown,
\* nothing that has been staked is taken off the books.
LockedStep ==
  unstaking_period > 0 =>
     \A k \in DOMAIN total_shares : total_shares'[k] >= total_shares[k]

LockedByCooldown == [][LockedStep]_dvars

\* The adapter implements ShareCustody: the shares of the stake are the units
\* held, total_shares the ones booked.
Custody == INSTANCE ShareCustody WITH
  Positions <- PositionKeys, Units <- Amount, booked <- total_shares, held <- if_shares

KeepsCustody == Custody!Spec
=============================================================================
