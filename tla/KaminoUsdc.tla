----------------------------- MODULE KaminoUsdc -----------------------------
(***************************************************************************)
(* The kamino-usdc adapter behind the dispatcher                           *)
(* (programs/kamino-usdc/src), over the klend reserves it deposits into.   *)
(*                                                                         *)
(* One action is one dispatcher instruction with everything it calls:      *)
(* owner -> pool transfer, adapter CPI, refresh_reserve, klend deposit or  *)
(* redeem, the measured balance change, the booked shares, pool -> owner   *)
(* transfer.  klend itself is external; it is modelled by what the adapter *)
(* relies on: a refresh accrues interest on the borrowed amount up to the  *)
(* current slot, cTokens are minted and redeemed at the reserve's stored   *)
(* rate, rounded against the user, and a redemption needs the liquidity to *)
(* be there.  Its other users deposit, redeem, borrow and repay.           *)
(*                                                                         *)
(* Users of the other adapters do not appear: their instructions touch     *)
(* none of the accounts below.  A position's venue is the kamino_reserve   *)
(* its state records; protocol[res] is that reserve's                      *)
(* total_available_amount.  A venue that is not in Reserves stands for a   *)
(* `reserve` klend refuses, or one recorded with a vault of another mint   *)
(* than its cToken: adapter_initialize checks neither.                     *)
(***************************************************************************)
EXTENDS Dispatcher

CONSTANTS
  Kamino,       \* program id of the kamino-usdc adapter
  Reserves,     \* the klend reserves among the venues
  SF,           \* klend's fixed-point scale, 2^60 in the code
  RateDiv,      \* a slot's interest is the borrowed amount over RateDiv
  BorrowLimit,  \* bound on what a reserve has lent out when it makes a loan
  MaxSlot       \* bound on the slots that pass

ASSUME KaminoAssumption ==
  /\ Kamino \in Programs
  /\ Reserves \subseteq Venues
  /\ \A res \in Reserves : VenueMint[res] \in Mints
  /\ SF \in Nat \ {0}
  /\ RateDiv \in Nat \ {0}
  /\ BorrowLimit \in Nat
  /\ MaxSlot \in Nat

VARIABLES
  collateral_vault,  \* <<owner, Kamino>> -> cTokens in the position's vault
  outside,           \* reserve -> its cTokens in everybody else's accounts
  reserve,           \* reserve -> its borrowed_sf, supply, last_update_slot
  slot               \* Clock::get()?.slot

kaminoVars == <<collateral_vault, outside, reserve, slot>>
kvars == <<vars, kaminoVars>>

Reserve == [borrowed_sf : Nat, supply : Nat, last_update_slot : 0..MaxSlot]

-----------------------------------------------------------------------------
(* klend *)

\* Interest on the borrowed amount, up to the current slot.
Interest(borrowed_sf, slots) == (borrowed_sf * slots) \div RateDiv

\* A reserve after klend's refresh_reserve in the current slot.
RefreshedReserve(res) ==
  LET r == reserve[res] IN
  [borrowed_sf |-> r.borrowed_sf
                     + Interest(r.borrowed_sf, slot - r.last_update_slot),
   supply |-> r.supply,
   last_update_slot |-> slot]

\* A reserve's liquidity, available and lent out, in units of 1/SF.
LiquiditySf(r, available) == available * SF + r.borrowed_sf

\* cTokens minted for `amount`; one to one into an empty reserve.
CollateralFor(amount, r, available) ==
  IF r.supply = 0 \/ LiquiditySf(r, available) = 0 THEN amount
  ELSE (amount * SF * r.supply) \div LiquiditySf(r, available)

\* Tokens paid for `collateral` cTokens.
LiquidityFor(collateral, r, available) ==
  (collateral * LiquiditySf(r, available)) \div (r.supply * SF)

\* klend takes no more than `amount`, and no less than `minted` is worth: up to
\* the rounding of the mint, the rest may stay with the depositor.
MayConsume(amount, minted, r, available) ==
  {c \in 0..amount :
     IF r.supply = 0 \/ LiquiditySf(r, available) = 0 THEN c = amount
     ELSE c * SF * r.supply >= minted * LiquiditySf(r, available)}

-----------------------------------------------------------------------------
(* the adapter's own arithmetic *)

\* Mutant: the adapter does not CPI refresh_reserve.
NoRefresh(res) == reserve[res]

\* The reserve as an adapter instruction finds it: it has called
\* refresh_reserve before it deposits, redeems or reads a value.
AdapterRefresh(res) == RefreshedReserve(res)

\* Mutant: the account's balance is taken for its change.
WholeBalance(before, after) == after

\* Mutant: the account is not reloaded after the CPI.
NotReloaded(before, after) == before - before

\* shares_after - shares_before, usdc_after - usdc_before: what the klend CPI
\* moved, whatever was in the account already.
Measured(before, after) == after - before

\* Mutant: only the liquidity that is not lent out is valued.
ValueOfAvailable(shares, r, available) ==
  IF shares = 0 THEN 0 ELSE (shares * available) \div r.supply

\* collateral_value_usdc: the borrowed amount is cut to whole units first.
CollateralValue(shares, r, available) ==
  IF shares = 0 THEN 0
  ELSE (shares * (available + r.borrowed_sf \div SF)) \div r.supply

-----------------------------------------------------------------------------
(* the instructions *)

KInit ==
  /\ Init
  /\ collateral_vault = NoAccounts
  /\ outside = [res \in Reserves |-> 0]
  /\ reserve = [res \in Reserves |->
                  [borrowed_sf |-> 0, supply |-> 0, last_update_slot |-> 0]]
  /\ slot = 0

\* open_position, adapter_initialize in its CPI: the state and the collateral
\* vault are created, the reserve is recorded unchecked.
KOpenPosition(owner, mint, chosen) ==
  /\ OpenPosition(owner, Kamino, mint, chosen)
  /\ collateral_vault' = Create(collateral_vault, <<owner, Kamino>>, 0)
  /\ UNCHANGED <<outside, reserve, slot>>

\* The route is open and the position is bound to a reserve that serves it.
Bound(owner, res) ==
  /\ Movable(owner, Kamino)
  /\ venue[<<owner, Kamino>>] = res

\* deposit with adapter_deposit; mint and vault are SPL accounts, whose additions
\* are checked.
KDeposit(owner, res, amount) ==
  LET k == <<owner, Kamino>>
      r == AdapterRefresh(res)
      minted == CollateralFor(amount, r, protocol[res])
      booked == Measured(collateral_vault[k], collateral_vault[k] + minted)
  IN
  /\ amount > 0
  /\ Bound(owner, res)
  /\ wallet[<<owner, position[k]>>] >= amount
  /\ r.supply + minted <= MaxU64
  /\ collateral_vault[k] + minted <= MaxU64
  /\ total_shares[k] + booked <= MaxU64
  /\ \E consumed \in MayConsume(amount, minted, r, protocol[res]) :
        DepositEffect(owner, Kamino, amount, consumed, booked)
  /\ collateral_vault' = [collateral_vault EXCEPT ![k] = @ + minted]
  /\ reserve' = [reserve EXCEPT ![res] = [r EXCEPT !.supply = @ + minted]]
  /\ UNCHANGED <<outside, slot>>

\* Mutant: off by one, the last share has to stay.
OneShareStays(k, shares) == shares < total_shares[k]

\* adapter_withdraw's InsufficientShares check.
SharesBooked(k, shares) == shares <= total_shares[k]

\* What a withdrawal has to pass: InsufficientShares beyond the books, and what
\* klend's redemption asks of the vault, the supply and the liquidity.
KMayWithdraw(owner, res, shares) ==
  LET k == <<owner, Kamino>>
      r == AdapterRefresh(res)
  IN
  /\ shares > 0
  /\ Bound(owner, res)
  /\ SharesBooked(k, shares)
  /\ shares <= collateral_vault[k]
  /\ shares <= r.supply
  /\ LiquidityFor(shares, r, protocol[res]) <= protocol[res]

\* withdraw with adapter_withdraw.
KWithdraw(owner, res, shares) ==
  LET k == <<owner, Kamino>>
      r == AdapterRefresh(res)
      redeemed == LiquidityFor(shares, r, protocol[res])
      amount_out == Measured(pool[k], pool[k] + redeemed)
  IN
  /\ KMayWithdraw(owner, res, shares)
  /\ WithdrawEffect(owner, Kamino, shares, redeemed, amount_out)
  /\ collateral_vault' = [collateral_vault EXCEPT ![k] = @ - shares]
  /\ reserve' = [reserve EXCEPT ![res] = [r EXCEPT !.supply = @ - shares]]
  /\ UNCHANGED <<outside, slot>>

\* The value adapter_current_value returns.
ReportedValue(k) ==
  CollateralValue(total_shares[k], AdapterRefresh(venue[k]), protocol[venue[k]])

\* current_value with adapter_current_value: not signed by the owner, writes
\* only the reserve it refreshes; shares against a zero-supply reserve fail.
KCurrentValue(owner, res) ==
  LET k == <<owner, Kamino>> IN
  /\ Routable(Kamino)
  /\ k \in DOMAIN position
  /\ venue[k] = res
  /\ total_shares[k] = 0 \/ AdapterRefresh(res).supply > 0
  /\ ReportedValue(k) <= MaxU64
  /\ reserve' = [reserve EXCEPT ![res] = AdapterRefresh(res)]
  /\ UNCHANGED <<vars, collateral_vault, outside, slot>>

-----------------------------------------------------------------------------
(* klend's other users, each refreshing the reserve first, and time *)

OtherDeposit(res, amount) ==
  LET r == RefreshedReserve(res)
      minted == CollateralFor(amount, r, protocol[res])
  IN
  /\ amount > 0
  /\ r.supply + minted <= MaxU64
  /\ ProtocolInflow(res, amount)
  /\ reserve' = [reserve EXCEPT ![res] = [r EXCEPT !.supply = @ + minted]]
  /\ outside' = [outside EXCEPT ![res] = @ + minted]
  /\ UNCHANGED <<collateral_vault, slot>>

OtherRedeem(res, collateral) ==
  LET r == RefreshedReserve(res) IN
  /\ collateral > 0
  /\ collateral <= outside[res]
  /\ collateral <= r.supply
  /\ ProtocolOutflow(res, LiquidityFor(collateral, r, protocol[res]))
  /\ reserve' = [reserve EXCEPT ![res] = [r EXCEPT !.supply = @ - collateral]]
  /\ outside' = [outside EXCEPT ![res] = @ - collateral]
  /\ UNCHANGED <<collateral_vault, slot>>

Borrow(res, amount) ==
  LET r == RefreshedReserve(res) IN
  /\ amount > 0
  /\ r.borrowed_sf + amount * SF <= BorrowLimit * SF
  /\ ProtocolOutflow(res, amount)
  /\ reserve' = [reserve EXCEPT ![res] = [r EXCEPT !.borrowed_sf = @ + amount * SF]]
  /\ UNCHANGED <<collateral_vault, outside, slot>>

Repay(res, amount) ==
  LET r == RefreshedReserve(res) IN
  /\ amount > 0
  /\ amount * SF <= r.borrowed_sf
  /\ ProtocolInflow(res, amount)
  /\ reserve' = [reserve EXCEPT ![res] = [r EXCEPT !.borrowed_sf = @ - amount * SF]]
  /\ UNCHANGED <<collateral_vault, outside, slot>>

\* cTokens may be sent to a vault, a plain token account owned by the position.
DonateCollateral(k, res, collateral) ==
  /\ k \in DOMAIN collateral_vault
  /\ venue[k] = res
  /\ collateral \in 1..outside[res]
  /\ collateral_vault[k] + collateral <= MaxU64
  /\ collateral_vault' = [collateral_vault EXCEPT ![k] = @ + collateral]
  /\ outside' = [outside EXCEPT ![res] = @ - collateral]
  /\ UNCHANGED <<vars, reserve, slot>>

Tick ==
  /\ slot < MaxSlot
  /\ slot' = slot + 1
  /\ UNCHANGED <<vars, collateral_vault, outside, reserve>>

OwnerStep(res) ==
  \E owner \in Keys :
     \/ \E amount \in Amount : KDeposit(owner, res, amount)
     \/ \E shares \in Amount : KWithdraw(owner, res, shares)
     \/ KCurrentValue(owner, res)

OthersStep(res) ==
  \E amount \in Amount :
     \/ OtherDeposit(res, amount)
     \/ OtherRedeem(res, amount)
     \/ Borrow(res, amount)
     \/ Repay(res, amount)
     \/ \E k \in DOMAIN position : DonateCollateral(k, res, amount)

KNext ==
  \/ RegistryNext /\ UNCHANGED <<fundVars, kaminoVars>>
  \/ \E owner \in Keys, mint \in Mints, chosen \in Venues :
        KOpenPosition(owner, mint, chosen)
  \/ \E res \in Reserves : OwnerStep(res) \/ OthersStep(res)
  \/ \E k \in DOMAIN position, amount \in Amount :
        DonateToPool(k, amount) /\ UNCHANGED kaminoVars
  \/ Tick

KSpec == KInit /\ [][KNext]_kvars

-----------------------------------------------------------------------------
\* Type invariant of the adapter's and the reserves' accounts.
KTypeOK ==
  /\ TypeOK
  /\ DOMAIN position \subseteq Keys \X {Kamino}
  /\ collateral_vault \in [DOMAIN position -> Nat]
  /\ outside \in [Reserves -> Nat]
  /\ slot \in 0..MaxSlot
  /\ reserve \in [Reserves -> Reserve]
  /\ \A res \in Reserves : reserve[res].last_update_slot <= slot

\* Booked shares are backed one for one by cTokens in the position's own vault:
\* deposits book what arrived and nothing that was sent there by others, and
\* withdrawals never redeem a cToken they do not take off the books.
SharesBacked ==
  \A k \in DOMAIN position : total_shares[k] <= collateral_vault[k]

\* What redeeming everything booked for a position would pay now.
ExitValue(k) ==
  LiquidityFor(total_shares[k], RefreshedReserve(venue[k]), protocol[venue[k]])

\* Full exit is never blocked by the adapter's own books: while the route is
\* open, the reserve has cTokens out for the booked shares, and when it has the
\* liquidity too, a withdrawal of all of them goes through, whatever deposits,
\* donations and partial withdrawals came before.
ExitNeverBlocked ==
  \A k \in DOMAIN position :
     /\ venue[k] \in Reserves
     /\ Movable(k[1], Kamino)
     /\ total_shares[k] > 0
     => /\ reserve[venue[k]].supply > 0
        /\ ExitValue(k) <= protocol[venue[k]]
              => ENABLED KWithdraw(k[1], venue[k], total_shares[k])

\* The value current_value reports is what withdrawing everything in the same
\* slot would pay, short by at most one base unit (collateral_value_usdc cuts
\* the borrowed amount to whole units before it multiplies, klend does not),
\* and never above it; the "corrupt state" branch of collateral_value_usdc
\* (shares against a zero-supply reserve) is never taken.
ValueTight ==
  \A k \in DOMAIN position :
     total_shares[k] > 0 =>
        /\ reserve[venue[k]].supply > 0
        /\ ReportedValue(k) \in {ExitValue(k), ExitValue(k) - 1}

\* The liquidity behind a cToken, interest up to the current slot included,
\* never falls: no deposit, withdrawal or value read of one user takes anything
\* from the value of the others' positions.
LiquidityNow(res) == LiquiditySf(RefreshedReserve(res), protocol[res])

RateStep ==
  \A res \in Reserves :
     reserve[res].supply > 0 /\ reserve'[res].supply > 0 =>
        LiquidityNow(res)' * reserve[res].supply
           >= LiquidityNow(res) * reserve'[res].supply

RateNeverFalls == [][RateStep]_kvars
=============================================================================
