---------------------------- MODULE DriftProofs ----------------------------
(***************************************************************************)
(* Proofs about module DriftIf: its type invariant, that the books follow  *)
(* the stake, that a cooldown keeps everything on the books, that the      *)
(* adapter implements Dispatcher and ShareCustody, that every share of the *)
(* fund is somebody's, that nobody is diluted, that the reported values    *)
(* are in the vault, and that a full exit pays what was reported.          *)
(***************************************************************************)
EXTENDS DriftTransaction, DispatcherProofs, ArithmeticProofs

\* The inductive invariant.
DInv == Inv /\ DTypeOK /\ StakeIsBooked

\* The fund's part of DTypeOK.
FundOK ==
  /\ other_shares \in Nat /\ fund_shares \in Nat
  /\ unstaking_period \in Periods /\ now \in 0..MaxTime

\* What every step is shown to do.
DHolds ==
  /\ [Next]_vars
  /\ DTypeOK' /\ StakeIsBooked'
  /\ LockedStep
  /\ [Custody!Next]_(Custody!vars)

-----------------------------------------------------------------------------
(* Arithmetic *)

\* The types of everything the steps read.
LEMMA DFacts ==
  ASSUME DInv
  PROVE  /\ FundOK
         /\ SpotMarket \in Venues /\ VenueMint[SpotMarket] \in Mints
         /\ FundVault \in Nat /\ others[VenueMint[SpotMarket]] \in Nat
         /\ SharesOut \in Nat /\ SharesOut >= fund_shares
         /\ DOMAIN total_shares = DOMAIN position
         /\ DOMAIN if_shares = DOMAIN position
         /\ \A k \in DOMAIN position :
               /\ k \in PositionKeys /\ venue[k] = SpotMarket
               /\ if_shares[k] \in Nat /\ pool[k] \in Nat
               /\ total_shares[k] \in Amount /\ total_shares[k] \in Nat
               /\ total_shares[k] = if_shares[k]
<1>1. SpotMarket \in Venues /\ VenueMint[SpotMarket] \in Mints
  BY DriftAssumption
<1>2. FundVault \in Nat /\ others[VenueMint[SpotMarket]] \in Nat
  BY <1>1 DEF DInv, Inv, TypeOK, FundVault
<1>3. FundOK
  BY DEF DInv, DTypeOK, FundOK
<1>4. SharesOut \in Nat /\ SharesOut >= fund_shares
  BY <1>2, <1>3 DEF SharesOut, FundOK
<1>5. QED
  BY <1>1, <1>2, <1>3, <1>4, DispatcherAssumption
  DEF DInv, DTypeOK, StakeIsBooked, Inv, TypeOK, Amount

\* A stake gets a natural number of shares, whatever the rate.
LEMMA StakeForNat ==
  ASSUME DInv, NEW amount \in Nat
  PROVE  StakeFor(amount) \in Nat
  BY DFacts, QuotientNat DEF StakeFor

\* What can be paid is a natural number.
LEMMA WorthNat ==
  ASSUME DInv, NEW shares \in Nat \ {0}, CanPay(shares)
  PROVE  Worth(shares) \in Nat /\ Worth(shares) <= FundVault /\ shares <= fund_shares
<1>1. fund_shares \in Nat \ {0}
  BY DFacts DEF FundOK, CanPay
<1>2. QED
  BY <1>1, DFacts, QuotientNat DEF Worth, CanPay

-----------------------------------------------------------------------------
(* Books and stake *)

\* Steps that leave the books and the stakes alone.
LEMMA DUntouched ==
  ASSUME DInv, [Next]_vars, FundOK',
         UNCHANGED <<position, venue, total_shares, if_shares>>
  PROVE  DHolds
<1>1. Inv'
  BY NextInv DEF DInv
<1>2. DTypeOK' /\ StakeIsBooked'
  BY <1>1 DEF DInv, DTypeOK, StakeIsBooked, Inv, FundOK
<1>3. LockedStep
  BY DFacts DEF LockedStep
<1>4. UNCHANGED Custody!vars
  BY DEF Custody!vars
<1>5. QED
  BY <1>2, <1>3, <1>4 DEF DHolds

\* What is left to show of a deposit or withdrawal that leaves n shares in the
\* stake and on the books.
LEMMA DMoved ==
  ASSUME DInv, Next, FundOK', UNCHANGED <<position, venue>>,
         NEW k \in DOMAIN position, NEW n \in Amount,
         if_shares' = [if_shares EXCEPT ![k] = n],
         total_shares' = [total_shares EXCEPT ![k] = n],
         unstaking_period > 0 => n >= total_shares[k]
  PROVE  /\ [Next]_vars
         /\ DTypeOK' /\ StakeIsBooked'
         /\ LockedStep
<1>1. Inv'
  BY NextInv DEF DInv
<1>2. n \in Nat
  BY DispatcherAssumption DEF Amount
<1>3. if_shares' \in [DOMAIN position -> Nat]
  BY <1>2 DEF DInv, DTypeOK
<1>4. DTypeOK'
  BY <1>1, <1>3 DEF DInv, DTypeOK, Inv, FundOK
<1>5. StakeIsBooked'
  BY DFacts DEF StakeIsBooked
<1>6. LockedStep
  BY DFacts DEF LockedStep
<1>7. QED
  BY <1>4, <1>5, <1>6

-----------------------------------------------------------------------------
(* The instructions *)

\* deposit: what the CPI adds to the stake is what is booked.
LEMMA DDepositStep ==
  ASSUME DInv, NEW owner \in Keys, NEW amount \in Amount, DDeposit(owner, amount)
  PROVE  DHolds
<1> DEFINE k == <<owner, Drift>>
           bought == StakeFor(amount)
           minted == Minted(if_shares[k], if_shares[k] + bought, amount)
<1>1. /\ amount > 0 /\ Movable(owner, Drift)
      /\ wallet[<<owner, position[k]>>] >= amount
      /\ total_shares[k] + minted <= MaxU64
      /\ DepositEffect(owner, Drift, amount, amount, minted)
      /\ if_shares' = [if_shares EXCEPT ![k] = @ + bought]
      /\ other_shares' = other_shares + SharesOut - fund_shares
      /\ fund_shares' = SharesOut + bought
      /\ UNCHANGED <<unstaking_period, now>>
  BY DEF DDeposit
<1>2. k \in DOMAIN position
  BY <1>1 DEF Movable
<1>3. amount \in Nat /\ bought \in Nat
  BY StakeForNat, DispatcherAssumption DEF Amount
<1> HIDE DEF bought
<1>4. minted = bought
  BY <1>2, <1>3, DFacts DEF Minted
<1>5. minted \in 0..(MaxU64 - total_shares[k]) /\ amount \in 0..amount
  BY <1>1, <1>2, <1>3, <1>4, DFacts, DispatcherAssumption
<1>6. Deposit(owner, Drift, amount)
  BY <1>1, <1>5 DEF Deposit
<1>7. Next
  BY <1>6, DriftAssumption DEF Next
<1>8. FundOK'
  BY <1>1, <1>3, DFacts DEF FundOK
<1>9. /\ UNCHANGED <<position, venue>>
      /\ total_shares' = [total_shares EXCEPT ![k] = total_shares[k] + bought]
      /\ if_shares' = [if_shares EXCEPT ![k] = total_shares[k] + bought]
  BY <1>1, <1>2, <1>4, DFacts DEF DepositEffect
<1>10. total_shares[k] + bought \in Amount
  BY <1>1, <1>2, <1>3, <1>4, DFacts, DispatcherAssumption DEF Amount
<1> HIDE DEF k, minted
<1>11. total_shares[k] + bought >= total_shares[k]
  BY <1>2, <1>3, DFacts
<1>12. [Next]_vars /\ DTypeOK' /\ StakeIsBooked' /\ LockedStep
  BY <1>2, <1>7, <1>8, <1>9, <1>10, <1>11, DMoved
<1>13. Custody!Mint(k, bought)
  BY <1>1, <1>2, <1>9, <1>10, DFacts DEF Custody!Mint
<1>14. k \in PositionKeys /\ bought \in Amount
  BY <1>2, <1>3, <1>10, DFacts, DispatcherAssumption DEF Amount
<1>15. Custody!Next
  BY <1>13, <1>14 DEF Custody!Next
<1>16. QED
  BY <1>12, <1>15 DEF DHolds

\* withdraw: only without a cooldown, and no more than is booked.
LEMMA DWithdrawStep ==
  ASSUME DInv, NEW owner \in Keys, NEW shares \in Amount, DWithdraw(owner, shares)
  PROVE  DHolds
<1> DEFINE k == <<owner, Drift>>
           redeemed == Worth(shares)
<1>1. /\ shares > 0 /\ Movable(owner, Drift)
      /\ SharesOnBooks(k, shares)
      /\ CooldownOver(now) /\ CanPay(shares)
      /\ WithdrawEffect(owner, Drift, shares, redeemed,
                        AmountOut(pool[k], pool[k] + redeemed))
      /\ if_shares' = [if_shares EXCEPT ![k] = @ - shares]
      /\ fund_shares' = fund_shares - shares
      /\ UNCHANGED <<other_shares, unstaking_period, now>>
  BY DEF DWithdraw, DMayWithdraw
<1>2. k \in DOMAIN position
  BY <1>1 DEF Movable
<1>3. shares \in Nat \ {0} /\ shares <= total_shares[k]
  BY <1>1, DispatcherAssumption DEF SharesOnBooks, Amount
<1>4. redeemed \in Nat /\ redeemed <= FundVault /\ shares <= fund_shares
  BY <1>1, <1>3, WorthNat
<1> HIDE DEF redeemed
<1>5. AmountOut(pool[k], pool[k] + redeemed) = redeemed
  BY <1>2, <1>4, DFacts DEF AmountOut
<1>6. Burned(shares, total_shares[k]) = shares
  BY <1>3 DEF Burned
<1>7. Withdraw(owner, Drift, shares)
  <2>1. redeemed \in 0..protocol[venue[k]]
    BY <1>2, <1>4, DFacts DEF FundVault
  <2>2. WithdrawEffect(owner, Drift, Burned(shares, total_shares[k]), redeemed, redeemed)
    BY <1>1, <1>5, <1>6
  <2>3. QED
    BY <1>1, <2>1, <2>2 DEF Withdraw
<1>8. Next
  BY <1>7, DriftAssumption DEF Next
<1>9. FundOK'
  BY <1>1, <1>3, <1>4, DFacts DEF FundOK
<1>10. /\ UNCHANGED <<position, venue>>
       /\ total_shares' = [total_shares EXCEPT ![k] = total_shares[k] - shares]
       /\ if_shares' = [if_shares EXCEPT ![k] = total_shares[k] - shares]
  BY <1>1, <1>2, DFacts DEF WithdrawEffect
<1>11. unstaking_period = 0
  <2>1. unstaking_period \in Periods /\ now \in 0..MaxTime
    BY DEF DInv, DTypeOK
  <2>2. unstaking_period \in Nat /\ now \in Nat
    BY <2>1, DriftAssumption
  <2>3. QED
    BY <1>1, <2>2 DEF CooldownOver
<1> HIDE DEF k
<1>12. total_shares[k] - shares \in Amount
  BY <1>2, <1>3, DFacts, DispatcherAssumption DEF Amount
<1>13. [Next]_vars /\ DTypeOK' /\ StakeIsBooked' /\ LockedStep
  <2>1. unstaking_period > 0 => total_shares[k] - shares >= total_shares[k]
    BY <1>11
  <2>2. QED
    BY <1>2, <1>8, <1>9, <1>10, <1>12, <2>1, DMoved
<1>14. Custody!Burn(k, shares, shares)
  <2>1. k \in DOMAIN total_shares /\ shares <= shares /\ if_shares[k] = total_shares[k]
    BY <1>2, <1>3, DFacts
  <2>2. if_shares' = [if_shares EXCEPT ![k] = @ - shares]
    BY <1>10, <2>1
  <2>3. QED
    BY <1>3, <1>10, <2>1, <2>2 DEF Custody!Burn
<1>15. k \in PositionKeys /\ shares \in 0..shares
  BY <1>2, <1>3, DFacts
<1>16. Custody!Next
  BY <1>14, <1>15 DEF Custody!Next
<1>17. QED
  BY <1>13, <1>16 DEF DHolds

\* open_position creates the state and the stake, both empty.
LEMMA DOpenPositionStep ==
  ASSUME DInv, NEW owner \in Keys, NEW mint \in Mints, DOpenPosition(owner, mint)
  PROVE  DHolds
<1> DEFINE k == <<owner, Drift>>
<1>1. /\ OpenPosition(owner, Drift, mint, SpotMarket)
      /\ position' = Create(position, k, mint)
      /\ venue' = Create(venue, k, SpotMarket)
      /\ total_shares' = Create(total_shares, k, 0)
      /\ if_shares' = Create(if_shares, k, 0)
      /\ k \notin DOMAIN position
      /\ UNCHANGED <<other_shares, fund_shares, unstaking_period, now>>
  BY DEF DOpenPosition, InitIfStake, OpenPosition
<1>2. Next
  BY <1>1, DriftAssumption DEF Next
<1>3. Inv'
  BY <1>2, NextInv DEF DInv
<1>4. k \in Keys \X {Drift} /\ k \in PositionKeys
  BY DriftAssumption DEF PositionKeys
<1> HIDE DEF k
<1>5. DOMAIN position' = DOMAIN position \cup {k}
  BY <1>1, CreateAdds
<1>6. /\ if_shares' \in [DOMAIN position' -> Nat]
      /\ venue' \in [DOMAIN position' -> {SpotMarket}]
  BY <1>1, <1>5 DEF Create, DInv, DTypeOK
<1>7. DTypeOK'
  BY <1>1, <1>3, <1>4, <1>5, <1>6 DEF DInv, DTypeOK, Inv
<1>8. /\ if_shares'[k] = 0 /\ total_shares'[k] = 0
      /\ \A q \in DOMAIN position :
            if_shares'[q] = if_shares[q] /\ total_shares'[q] = total_shares[q]
  BY <1>1, DFacts DEF Create
<1>9. StakeIsBooked'
  BY <1>5, <1>8 DEF DInv, StakeIsBooked
<1>10. LockedStep
  BY <1>8, DFacts DEF LockedStep
<1>11. Custody!Open(k)
  BY <1>1, DFacts DEF Custody!Open, Custody!Opened, Create
<1>12. Custody!Next
  BY <1>4, <1>11 DEF Custody!Next
<1>13. QED
  BY <1>2, <1>7, <1>9, <1>10, <1>12 DEF DHolds

-----------------------------------------------------------------------------
(* Drift's other stakers, revenue, losses and time *)

\* Amounts others move in and out of the vault are the dispatcher's.
LEMMA VaultFlow ==
  ASSUME DInv, NEW amount \in Nat,
         ProtocolInflow(SpotMarket, amount) \/ ProtocolOutflow(SpotMarket, amount)
  PROVE  Next /\ UNCHANGED <<position, venue, total_shares>>
<1>1. /\ ProtocolInflow(SpotMarket, amount) => amount \in 0..others[VenueMint[SpotMarket]]
      /\ ProtocolOutflow(SpotMarket, amount) => amount \in 0..protocol[SpotMarket]
  BY DFacts DEF ProtocolInflow, ProtocolOutflow, FundVault
<1>2. SpotMarket \in {u \in Venues : VenueMint[u] \in Mints}
  BY DFacts
<1>3. Next
  BY <1>1, <1>2 DEF Next
<1>4. QED
  BY <1>3 DEF ProtocolInflow, ProtocolOutflow

\* Other stakers' shares stay natural numbers.
LEMMA DOthersStepHolds ==
  ASSUME DInv, NEW amount \in Amount,
         OtherStake(amount) \/ OtherUnstake(amount) \/ RevenueOrLoss(amount)
  PROVE  DHolds
<1>1. amount \in Nat
  BY DispatcherAssumption DEF Amount
<1>2. CASE OtherStake(amount)
  <2>1. /\ ProtocolInflow(SpotMarket, amount)
        /\ other_shares' = other_shares + SharesOut - fund_shares + StakeFor(amount)
        /\ fund_shares' = SharesOut + StakeFor(amount)
        /\ UNCHANGED <<if_shares, unstaking_period, now>>
    BY <1>2 DEF OtherStake
  <2>2. FundOK'
    BY <1>1, <2>1, StakeForNat, DFacts DEF FundOK
  <2>3. QED
    BY <1>1, <2>1, <2>2, VaultFlow, DUntouched
<1>3. CASE OtherUnstake(amount)
  <2>1. /\ amount \in 1..other_shares
        /\ CanPay(amount)
        /\ ProtocolOutflow(SpotMarket, Worth(amount))
        /\ other_shares' = other_shares - amount
        /\ fund_shares' = fund_shares - amount
        /\ UNCHANGED <<if_shares, unstaking_period, now>>
    BY <1>3 DEF OtherUnstake
  <2>2. Worth(amount) \in Nat /\ amount <= fund_shares
    BY <1>1, <2>1, WorthNat
  <2>3. FundOK'
    BY <1>1, <2>1, <2>2, DFacts DEF FundOK
  <2>4. QED
    BY <2>1, <2>2, <2>3, VaultFlow, DUntouched
<1>4. CASE RevenueOrLoss(amount)
  <2>1. UNCHANGED <<if_shares, other_shares, fund_shares, unstaking_period, now>>
    BY <1>4 DEF RevenueOrLoss, driftVars
  <2>2. FundOK'
    BY <2>1, DFacts DEF FundOK
  <2>3. ProtocolInflow(SpotMarket, amount) \/ ProtocolOutflow(SpotMarket, amount)
    BY <1>4 DEF RevenueOrLoss
  <2>4. QED
    BY <1>1, <2>1, <2>2, <2>3, VaultFlow, DUntouched
<1>5. QED
  BY <1>2, <1>3, <1>4

\* Registry steps, donations to a pool and stuttering leave the fund alone.
LEMMA DSharedStep ==
  ASSUME DInv, [Next]_vars, UNCHANGED driftVars,
         UNCHANGED <<position, venue, total_shares>>
  PROVE  DHolds
<1>1. UNCHANGED <<if_shares, other_shares, fund_shares, unstaking_period, now>>
  BY DEF driftVars
<1>2. FundOK'
  BY <1>1, DFacts DEF FundOK
<1>3. QED
  BY <1>1, <1>2, DUntouched

\* Time passes over everything.
LEMMA TimePassesStep ==
  ASSUME DInv, TimePasses
  PROVE  DHolds
<1>1. /\ now < MaxTime /\ now' = now + 1
      /\ UNCHANGED <<vars, if_shares, other_shares, fund_shares, unstaking_period>>
  BY DEF TimePasses
<1>2. FundOK'
  BY <1>1, DFacts, DriftAssumption DEF FundOK
<1>3. UNCHANGED <<position, venue, total_shares>>
  BY <1>1 DEF vars, fundVars
<1>4. QED
  BY <1>1, <1>2, <1>3, DUntouched

\* The cooldown changes under everything.
LEMMA PeriodChangesStep ==
  ASSUME DInv, PeriodChanges
  PROVE  DHolds
<1>1. /\ unstaking_period' \in Periods
      /\ UNCHANGED <<vars, if_shares, other_shares, fund_shares, now>>
  BY DEF PeriodChanges
<1>2. FundOK'
  BY <1>1, DFacts DEF FundOK
<1>3. UNCHANGED <<position, venue, total_shares>>
  BY <1>1 DEF vars, fundVars
<1>4. QED
  BY <1>1, <1>2, <1>3, DUntouched

-----------------------------------------------------------------------------
\* Nothing exists at the start, and the fund is without stakes.
LEMMA DInitInv == DInit => DInv /\ Custody!Init
<1> SUFFICES ASSUME DInit PROVE DInv /\ Custody!Init
  OBVIOUS
<1>1. Inv
  BY InitInv DEF DInit
<1>2. DOMAIN position = {} /\ DOMAIN venue = {}
  BY DEF DInit, Init, NoAccounts
<1>3. if_shares \in [DOMAIN position -> Nat] /\ venue \in [DOMAIN position -> {SpotMarket}]
  BY DEF DInit, Init, NoAccounts
<1>4. FundOK
  BY DriftAssumption DEF DInit, FundOK
<1>5. DInv
  BY <1>1, <1>2, <1>3, <1>4 DEF DInv, DTypeOK, FundOK, StakeIsBooked, Inv
<1>6. Custody!Init
  BY DEF DInit, Init, NoAccounts, Custody!Init
<1>7. QED
  BY <1>5, <1>6

\* Every step is one of the dispatcher and of ShareCustody or none, keeps the
\* invariant, and takes nothing off the books under a cooldown.
LEMMA DNextStep == DInv /\ [DNext]_dvars => DHolds
<1> SUFFICES ASSUME DInv, [DNext]_dvars PROVE DHolds
  OBVIOUS
<1>1. CASE RegistryNext /\ UNCHANGED <<fundVars, driftVars>>
  <2>1. Next
    BY <1>1 DEF Next, fundVars
  <2>2. QED
    BY <1>1, <2>1, DSharedStep DEF fundVars
<1>2. CASE DOwnerStep
  BY <1>2, DOpenPositionStep, DDepositStep, DWithdrawStep DEF DOwnerStep
<1>3. CASE DOthersStep
  BY <1>3, DOthersStepHolds DEF DOthersStep
<1>4. CASE \E k \in DOMAIN position, amount \in Amount :
              DonateToPool(k, amount) /\ UNCHANGED driftVars
  <2>1. PICK k \in DOMAIN position, amount \in Amount :
               DonateToPool(k, amount) /\ UNCHANGED driftVars
    BY <1>4
  <2>2. Next
    BY <2>1, DFacts DEF Next
  <2>3. QED
    BY <2>1, <2>2, DSharedStep DEF DonateToPool
<1>5. CASE TimePasses
  BY <1>5, TimePassesStep
<1>6. CASE PeriodChanges
  BY <1>6, PeriodChangesStep
<1>7. CASE UNCHANGED dvars
  BY <1>7, DSharedStep DEF dvars, vars, fundVars
<1>8. QED
  BY <1>1, <1>2, <1>3, <1>4, <1>5, <1>6, <1>7 DEF DNext

\* The invariant is inductive.
LEMMA DNextInv == DInv /\ [DNext]_dvars => DInv'
<1>1. SUFFICES ASSUME DInv, [DNext]_dvars PROVE DInv'
  OBVIOUS
<1>2. DHolds
  BY <1>1, DNextStep
<1>3. Inv'
  BY <1>1, <1>2, NextInv DEF DHolds, DInv
<1>4. QED
  BY <1>2, <1>3 DEF DHolds, DInv

-----------------------------------------------------------------------------
\* The adapter's invariant holds in every reachable state.
THEOREM DInvariant == DSpec => []DInv
  BY DInitInv, DNextInv, PTL DEF DSpec

\* The accounts of the adapter and the fund keep their types.
THEOREM DTypeCorrect == DSpec => []DTypeOK
<1>1. DInv => DTypeOK
  BY DEF DInv
<1>2. QED
  BY <1>1, DInvariant, PTL

\* total_shares and the stake's if_shares are equal after any deposits,
\* withdrawals, revenue and losses, at any rates.
THEOREM StakeAlwaysBooked == DSpec => []StakeIsBooked
<1>1. DInv => StakeIsBooked
  BY DEF DInv
<1>2. QED
  BY <1>1, DInvariant, PTL

\* While there is a cooldown, nothing staked is taken off the books.
THEOREM CooldownLocks == DSpec => LockedByCooldown
<1>1. DInv /\ [DNext]_dvars => [LockedStep]_dvars
  BY DNextStep DEF DHolds
<1>2. QED
  BY <1>1, DInvariant, PTL DEF DSpec, LockedByCooldown

\* The drift-if adapter behind the dispatcher implements the dispatcher over an
\* arbitrary adapter.
THEOREM DriftImplementsDispatcher == DSpec => Spec
<1>1. DInit => Init
  BY DEF DInit
<1>2. DInv /\ [DNext]_dvars => [Next]_vars
  BY DNextStep DEF DHolds
<1>3. QED
  BY <1>1, <1>2, DInvariant, PTL DEF DSpec, Spec

\* The adapter keeps custody of the stake's shares as ShareCustody promises.
THEOREM DriftKeepsCustody == DSpec => KeepsCustody
<1>1. DInv /\ [DNext]_dvars => [Custody!Next]_(Custody!vars)
  BY DNextStep DEF DHolds
<1>2. QED
  BY <1>1, DInitInv, DInvariant, PTL DEF DSpec, KeepsCustody, Custody!Spec

-----------------------------------------------------------------------------
(* DriftTransaction implements DriftIf *)

\* The draft, field by field.
Draft(in_wallet, in_pool, booked, stake, request, vault, fund, rest) ==
  [wallet |-> in_wallet, pool |-> in_pool, booked |-> booked, stake |-> stake,
   request |-> request, vault |-> vault, fund |-> fund, others |-> rest]

Untouched ==
  Draft(wallet[Purse], pool[Key], total_shares[Key], if_shares[Key], 0,
        FundVault, fund_shares, other_shares)

Paid ==
  Draft(wallet[Purse] - argument, pool[Key] + argument, total_shares[Key],
        if_shares[Key], 0, FundVault, fund_shares, other_shares)

Staked(booked) ==
  Draft(wallet[Purse] - argument, (pool[Key] + argument) - argument, booked,
        if_shares[Key] + StakeFor(argument), 0, FundVault + argument,
        SharesOut + StakeFor(argument), other_shares + SharesOut - fund_shares)

NowBooked ==
  total_shares[Key] + ((if_shares[Key] + StakeFor(argument)) - if_shares[Key])

Requested ==
  Draft(wallet[Purse], pool[Key], total_shares[Key], if_shares[Key], argument,
        FundVault, fund_shares, other_shares)

Removed(in_wallet, in_pool, booked) ==
  Draft(in_wallet, in_pool, booked, if_shares[Key] - argument, 0,
        FundVault - Worth(argument), fund_shares - argument, other_shares)

Arrived == (pool[Key] + Worth(argument)) - pool[Key]

\* What a deposit, and what a withdrawal, has checked when it has come so far.
Payable == argument <= wallet[Purse]
Redeemable ==
  /\ argument <= total_shares[Key]
  /\ argument <= if_shares[Key]
  /\ CooldownOver(now)
  /\ CanPay(argument)

\* What the draft holds at each step, as a function of the accounts it was
\* taken from.
Progress ==
  /\ pc = "TransferIn" => draft = Untouched
  /\ pc = "ReadStake" => draft = Paid /\ Payable
  /\ pc = "AddStake" => draft = Paid /\ Payable /\ before = if_shares[Key]
  /\ pc = "BookDeposit" =>
        /\ draft = Staked(total_shares[Key]) /\ Payable /\ TakesStakes
        /\ before = if_shares[Key]
  /\ pc = "ReadPool" => draft = Untouched
  /\ pc = "RequestRemove" =>
        draft = Untouched /\ argument <= total_shares[Key] /\ before = pool[Key]
  /\ pc = "RemoveStake" =>
        /\ draft = Requested /\ argument <= total_shares[Key]
        /\ argument <= if_shares[Key] /\ before = pool[Key]
  /\ pc = "BookWithdraw" =>
        /\ draft = Removed(wallet[Purse], pool[Key] + Worth(argument), total_shares[Key])
        /\ Redeemable /\ before = pool[Key]
  /\ pc = "Forward" =>
        /\ draft = Removed(wallet[Purse], pool[Key] + Worth(argument),
                           total_shares[Key] - argument)
        /\ Redeemable /\ amount_out = Arrived
  /\ pc = "Commit" =>
        \/ /\ draft = Staked(NowBooked) /\ Payable /\ TakesStakes
           /\ NowBooked <= MaxU64
        \/ /\ draft = Removed(wallet[Purse] + Arrived,
                              (pool[Key] + Worth(argument)) - Arrived,
                              total_shares[Key] - argument)
           /\ Redeemable

Underway ==
  pc # "idle" =>
     signer \in Keys /\ argument \in Amount /\ argument > 0 /\ Movable(signer, Drift)

\* The inductive invariant of the steps.
XInv ==
  /\ withdraw_request = [owner \in Keys |-> 0]
  /\ Underway
  /\ Progress

\* Between Begin and Commit the accounts are as they were, and with them all
\* that is computed from them.
LEMMA Resting ==
  ASSUME UNCHANGED <<dvars, signer, argument>>
  PROVE  /\ wallet'[Purse'] = wallet[Purse] /\ pool'[Key'] = pool[Key]
         /\ total_shares'[Key'] = total_shares[Key] /\ if_shares'[Key'] = if_shares[Key]
         /\ FundVault' = FundVault /\ fund_shares' = fund_shares
         /\ other_shares' = other_shares
         /\ StakeFor(argument)' = StakeFor(argument) /\ SharesOut' = SharesOut
         /\ Worth(argument)' = Worth(argument)
         /\ (TakesStakes' <=> TakesStakes) /\ (CanPay(argument)' <=> CanPay(argument))
         /\ (CooldownOver(now)' <=> CooldownOver(now))
         /\ (Movable(signer, Drift)' <=> Movable(signer, Drift))
<1>1. /\ signer' = signer /\ argument' = argument /\ position' = position
      /\ wallet' = wallet /\ pool' = pool /\ total_shares' = total_shares
      /\ venue' = venue /\ protocol' = protocol /\ UNCHANGED registryVars
      /\ if_shares' = if_shares /\ other_shares' = other_shares
      /\ fund_shares' = fund_shares /\ UNCHANGED <<unstaking_period, now>>
  BY DEF dvars, vars, driftVars, fundVars
<1>2. Key' = Key /\ Purse' = Purse /\ FundVault' = FundVault /\ SharesOut' = SharesOut
  BY <1>1 DEF Key, Purse, FundVault, SharesOut
<1>3. Movable(signer, Drift)' <=> Movable(signer, Drift)
  BY <1>1 DEF Movable, Routable, Misbound, registryVars
<1>4. /\ StakeFor(argument)' = StakeFor(argument) /\ Worth(argument)' = Worth(argument)
      /\ (TakesStakes' <=> TakesStakes) /\ (CanPay(argument)' <=> CanPay(argument))
      /\ (CooldownOver(now)' <=> CooldownOver(now))
  BY <1>1, <1>2 DEF StakeFor, Worth, TakesStakes, CanPay, CooldownOver
<1>5. QED
  BY <1>1, <1>2, <1>3, <1>4

\* ... and so all that is known of them at a step.
LEMMA DraftsRest ==
  ASSUME UNCHANGED <<dvars, signer, argument>>
  PROVE  /\ Untouched' = Untouched /\ Paid' = Paid /\ Requested' = Requested
         /\ NowBooked' = NowBooked /\ Arrived' = Arrived
         /\ Staked(total_shares[Key])' = Staked(total_shares[Key])
         /\ Staked(NowBooked)' = Staked(NowBooked)
         /\ Removed(wallet[Purse], pool[Key] + Worth(argument), total_shares[Key])'
              = Removed(wallet[Purse], pool[Key] + Worth(argument), total_shares[Key])
         /\ Removed(wallet[Purse], pool[Key] + Worth(argument),
                    total_shares[Key] - argument)'
              = Removed(wallet[Purse], pool[Key] + Worth(argument),
                        total_shares[Key] - argument)
         /\ Removed(wallet[Purse] + Arrived, (pool[Key] + Worth(argument)) - Arrived,
                    total_shares[Key] - argument)'
              = Removed(wallet[Purse] + Arrived, (pool[Key] + Worth(argument)) - Arrived,
                        total_shares[Key] - argument)
         /\ (Payable' <=> Payable) /\ (Redeemable' <=> Redeemable)
<1>1. argument' = argument
  OBVIOUS
<1>2. NowBooked' = NowBooked /\ Arrived' = Arrived
  BY <1>1, Resting DEF NowBooked, Arrived
<1>3. /\ Untouched' = Untouched /\ Paid' = Paid /\ Requested' = Requested
      /\ Staked(total_shares[Key])' = Staked(total_shares[Key])
      /\ Staked(NowBooked)' = Staked(NowBooked)
  BY <1>1, <1>2, Resting DEF Untouched, Paid, Requested, Staked, Draft
<1>4. /\ Removed(wallet[Purse], pool[Key] + Worth(argument), total_shares[Key])'
           = Removed(wallet[Purse], pool[Key] + Worth(argument), total_shares[Key])
      /\ Removed(wallet[Purse], pool[Key] + Worth(argument),
                 total_shares[Key] - argument)'
           = Removed(wallet[Purse], pool[Key] + Worth(argument),
                     total_shares[Key] - argument)
      /\ Removed(wallet[Purse] + Arrived, (pool[Key] + Worth(argument)) - Arrived,
                 total_shares[Key] - argument)'
           = Removed(wallet[Purse] + Arrived, (pool[Key] + Worth(argument)) - Arrived,
                     total_shares[Key] - argument)
  BY <1>1, <1>2, Resting DEF Removed, Draft
<1>5. (Payable' <=> Payable) /\ (Redeemable' <=> Redeemable)
  BY <1>1, Resting DEF Payable, Redeemable
<1>6. QED
  BY <1>2, <1>3, <1>4, <1>5

\* A step of a transaction before its last changes no account and adds to the
\* draft what Progress says.
LEMMA StepProgress ==
  ASSUME XInv,
         \/ TransferIn \/ ReadStake \/ AddStake \/ BookDeposit
         \/ ReadPool \/ RequestRemove \/ RemoveStake \/ BookWithdraw \/ Forward
  PROVE  XInv' /\ UNCHANGED dvars
<1>1. /\ UNCHANGED <<dvars, signer, argument>> /\ withdraw_request' = withdraw_request
      /\ pc # "idle"
  BY DEF At, TransferIn, ReadStake, AddStake, BookDeposit, ReadPool, RequestRemove,
         RemoveStake, BookWithdraw, Forward
<1>2. Underway' /\ (withdraw_request = [owner \in Keys |-> 0])'
  BY <1>1, Resting DEF XInv, Underway
<1>3. Progress'
  <2>1. CASE TransferIn
    <3>1. /\ pc = "TransferIn" /\ pc' = "ReadStake" /\ draft.wallet >= argument
          /\ draft' = [draft EXCEPT !.wallet = @ - argument, !.pool = @ + argument]
      BY <2>1 DEF TransferIn, At
    <3>2. draft = Untouched
      BY <3>1 DEF XInv, Progress
    <3>3. draft' = Paid /\ Payable
      BY <3>1, <3>2 DEF Untouched, Paid, Draft, Payable
    <3>4. QED
      BY <1>1, <3>1, <3>3, DraftsRest DEF Progress
  <2>2. CASE ReadStake
    <3>1. /\ pc = "ReadStake" /\ pc' = "AddStake"
          /\ before' = draft.stake /\ draft' = draft
      BY <2>2 DEF ReadStake, At
    <3>2. draft = Paid /\ Payable
      BY <3>1 DEF XInv, Progress
    <3>3. before' = if_shares[Key]
      BY <3>1, <3>2 DEF Paid, Draft
    <3>4. QED
      BY <1>1, <3>1, <3>2, <3>3, DraftsRest, Resting DEF Progress
  <2>3. CASE AddStake
    <3>1. /\ pc = "AddStake" /\ pc' = "BookDeposit" /\ before' = before /\ TakesStakes
          /\ draft' = [draft EXCEPT !.pool = @ - argument, !.vault = @ + argument,
                                    !.stake = @ + StakeFor(argument),
                                    !.others = @ + SharesOut - fund_shares,
                                    !.fund = SharesOut + StakeFor(argument)]
      BY <2>3 DEF AddStake, At
    <3>2. draft = Paid /\ Payable /\ before = if_shares[Key]
      BY <3>1 DEF XInv, Progress
    <3>3. draft' = Staked(total_shares[Key])
      BY <3>1, <3>2 DEF Paid, Draft, Staked
    <3>4. draft' = Staked(total_shares[Key])' /\ Payable' /\ TakesStakes'
      BY <1>1, <3>1, <3>2, <3>3, DraftsRest, Resting
    <3>5. before' = if_shares'[Key']
      BY <1>1, <3>1, <3>2, Resting
    <3>6. QED
      BY <3>1, <3>4, <3>5 DEF Progress
  <2>4. CASE BookDeposit
    <3>1. /\ pc = "BookDeposit" /\ pc' = "Commit"
          /\ draft.booked + (draft.stake - before) <= MaxU64
          /\ draft' = [draft EXCEPT !.booked = @ + (draft.stake - before)]
      BY <2>4 DEF BookDeposit, At, Minted
    <3>2. /\ draft = Staked(total_shares[Key]) /\ Payable /\ TakesStakes
          /\ before = if_shares[Key]
      BY <3>1 DEF XInv, Progress
    <3>3. draft' = Staked(NowBooked) /\ NowBooked <= MaxU64
      BY <3>1, <3>2 DEF Draft, Staked, NowBooked
    <3>4. /\ draft' = Staked(NowBooked)' /\ NowBooked' <= MaxU64
          /\ Payable' /\ TakesStakes'
      BY <1>1, <3>2, <3>3, DraftsRest, Resting
    <3>5. QED
      BY <3>1, <3>4 DEF Progress
  <2>5. CASE ReadPool
    <3>1. /\ pc = "ReadPool" /\ pc' = "RequestRemove" /\ argument <= draft.booked
          /\ before' = draft.pool /\ draft' = draft
      BY <2>5 DEF ReadPool, At
    <3>2. draft = Untouched
      BY <3>1 DEF XInv, Progress
    <3>3. argument <= total_shares[Key] /\ before' = pool[Key]
      BY <3>1, <3>2 DEF Untouched, Draft
    <3>4. QED
      BY <1>1, <3>1, <3>2, <3>3, DraftsRest, Resting DEF Progress
  <2>6. CASE RequestRemove
    <3>1. /\ pc = "RequestRemove" /\ pc' = "RemoveStake" /\ argument <= draft.stake
          /\ draft' = [draft EXCEPT !.request = argument] /\ before' = before
      BY <2>6 DEF RequestRemove, At
    <3>2. draft = Untouched /\ argument <= total_shares[Key] /\ before = pool[Key]
      BY <3>1 DEF XInv, Progress
    <3>3. draft' = Requested /\ argument <= if_shares[Key]
      BY <3>1, <3>2 DEF Untouched, Requested, Draft
    <3>4. QED
      BY <1>1, <3>1, <3>2, <3>3, DraftsRest, Resting DEF Progress
  <2>7. CASE RemoveStake
    <3>1. /\ pc = "RemoveStake" /\ pc' = "BookWithdraw" /\ before' = before
          /\ CooldownOver(now) /\ CanPay(draft.request)
          /\ draft' = [draft EXCEPT !.pool = @ + Worth(draft.request),
                                    !.vault = @ - Worth(draft.request),
                                    !.stake = @ - draft.request,
                                    !.fund = @ - draft.request,
                                    !.request = 0]
      BY <2>7 DEF RemoveStake, At
    <3>2. /\ draft = Requested /\ argument <= total_shares[Key]
          /\ argument <= if_shares[Key] /\ before = pool[Key]
      BY <3>1 DEF XInv, Progress
    <3>3. draft.request = argument
      BY <3>2 DEF Requested, Draft
    <3>4. /\ draft' = Removed(wallet[Purse], pool[Key] + Worth(argument), total_shares[Key])
          /\ Redeemable
      BY <3>1, <3>2, <3>3 DEF Requested, Removed, Draft, Redeemable
    <3>5. QED
      BY <1>1, <3>1, <3>2, <3>4, DraftsRest, Resting DEF Progress
  <2>8. CASE BookWithdraw
    <3>1. /\ pc = "BookWithdraw" /\ pc' = "Forward"
          /\ amount_out' = draft.pool - before
          /\ draft' = [draft EXCEPT !.booked = @ - argument]
      BY <2>8 DEF BookWithdraw, At, AmountOut
    <3>2. /\ draft = Removed(wallet[Purse], pool[Key] + Worth(argument), total_shares[Key])
          /\ Redeemable /\ before = pool[Key]
      BY <3>1 DEF XInv, Progress
    <3>3. /\ draft' = Removed(wallet[Purse], pool[Key] + Worth(argument),
                              total_shares[Key] - argument)
          /\ amount_out' = Arrived
      BY <3>1, <3>2 DEF Removed, Draft, Arrived
    <3>4. QED
      BY <1>1, <3>1, <3>2, <3>3, DraftsRest, Resting DEF Progress
  <2>9. CASE Forward
    <3>1. /\ pc = "Forward" /\ pc' = "Commit"
          /\ draft' = [draft EXCEPT !.pool = @ - amount_out, !.wallet = @ + amount_out]
      BY <2>9 DEF Forward, At
    <3>2. /\ draft = Removed(wallet[Purse], pool[Key] + Worth(argument),
                             total_shares[Key] - argument)
          /\ Redeemable /\ amount_out = Arrived
      BY <3>1 DEF XInv, Progress
    <3>3. draft' = Removed(wallet[Purse] + Arrived,
                           (pool[Key] + Worth(argument)) - Arrived,
                           total_shares[Key] - argument)
      BY <3>1, <3>2 DEF Removed, Draft
    <3>4. /\ draft' = Removed(wallet[Purse] + Arrived,
                              (pool[Key] + Worth(argument)) - Arrived,
                              total_shares[Key] - argument)'
          /\ Redeemable'
      BY <1>1, <3>2, <3>3, DraftsRest
    <3>5. QED
      BY <3>1, <3>4 DEF Progress
  <2>10. QED
    BY <2>1, <2>2, <2>3, <2>4, <2>5, <2>6, <2>7, <2>8, <2>9
<1>4. QED
  BY <1>1, <1>2, <1>3 DEF XInv

\* The last step of a deposit is DDeposit, that of a withdrawal DWithdraw.
LEMMA CommitStep ==
  ASSUME DInv, XInv, Commit
  PROVE  DNext /\ XInv'
<1>1. /\ signer \in Keys /\ argument \in Amount /\ argument > 0
      /\ Movable(signer, Drift)
  BY DEF Commit, XInv, Underway
<1>2. /\ Key \in DOMAIN position /\ venue[Key] = SpotMarket
      /\ pool[Key] \in Nat /\ argument \in Nat
  <2>1. Key \in DOMAIN position
    BY <1>1 DEF Movable, Key
  <2>2. venue[Key] = SpotMarket /\ pool[Key] \in Nat
    BY <2>1 DEF DInv, DTypeOK, TypeOK
  <2>3. QED
    BY <1>1, <2>1, <2>2, DispatcherAssumption DEF Amount
<1>3. CASE /\ draft = Staked(NowBooked) /\ Payable /\ TakesStakes
           /\ NowBooked <= MaxU64
  <2>1. /\ draft.wallet = wallet[Purse] - argument
        /\ draft.pool = (pool[Key] + argument) - argument
        /\ draft.booked = NowBooked
        /\ draft.stake = if_shares[Key] + StakeFor(argument) /\ draft.request = 0
        /\ draft.vault = FundVault + argument
        /\ draft.fund = SharesOut + StakeFor(argument)
        /\ draft.others = other_shares + SharesOut - fund_shares
    BY <1>3 DEF Staked, Draft
  <2>2. draft.pool = pool[Key] + (argument - argument)
    BY <1>2, <2>1
  <2>3. DDeposit(signer, argument)
    BY <1>1, <1>2, <1>3, <2>1, <2>2
       DEF DDeposit, DepositEffect, Commit, Minted, Payable, NowBooked, Key, Purse, FundVault
  <2>4. withdraw_request' = [owner \in Keys |-> 0]
    BY <2>1 DEF Commit, XInv
  <2>5. QED
    BY <1>1, <2>3, <2>4
       DEF DNext, DOwnerStep, Commit, Over, XInv, Underway, Progress
<1>4. CASE /\ draft = Removed(wallet[Purse] + Arrived,
                              (pool[Key] + Worth(argument)) - Arrived,
                              total_shares[Key] - argument)
           /\ Redeemable
  <2>1. /\ draft.wallet = wallet[Purse] + Arrived
        /\ draft.pool = (pool[Key] + Worth(argument)) - Arrived
        /\ draft.booked = total_shares[Key] - argument
        /\ draft.stake = if_shares[Key] - argument /\ draft.request = 0
        /\ draft.vault = FundVault - Worth(argument)
        /\ draft.fund = fund_shares - argument /\ draft.others = other_shares
    BY <1>4 DEF Removed, Draft
  <2>2. draft.pool = pool[Key] + (Worth(argument) - Arrived)
    <3>1. Worth(argument) \in Nat /\ Arrived \in Int
      BY <1>1, <1>2, <1>4, WorthNat DEF Redeemable, Arrived
    <3>2. QED
      BY <1>2, <2>1, <3>1
  <2>3. DWithdraw(signer, argument)
    BY <1>1, <1>2, <1>4, <2>1, <2>2
       DEF DWithdraw, DMayWithdraw, WithdrawEffect, Commit, AmountOut, SharesOnBooks, Redeemable,
           Arrived, Key, Purse, FundVault
  <2>4. withdraw_request' = [owner \in Keys |-> 0]
    BY <2>1 DEF Commit, XInv
  <2>5. QED
    BY <1>1, <2>3, <2>4
       DEF DNext, DOwnerStep, Commit, Over, XInv, Underway, Progress
<1>5. QED
  BY <1>3, <1>4 DEF Commit, XInv, Progress

\* Every step is a step of DriftIf or changes none of its variables.
LEMMA XStep == DInv /\ XInv /\ [XNext]_xvars => [DNext]_dvars /\ XInv'
<1> SUFFICES ASSUME DInv, XInv, [XNext]_xvars PROVE [DNext]_dvars /\ XInv'
  OBVIOUS
<1>1. ASSUME NEW owner \in Keys, NEW n \in Amount, NEW first \in {"TransferIn", "ReadPool"},
             Begin(owner, n, first)
      PROVE  UNCHANGED dvars /\ XInv'
  <2>1. /\ UNCHANGED dvars /\ signer' = owner /\ argument' = n /\ pc' = first
        /\ draft' = Accounts(owner) /\ n > 0 /\ Movable(owner, Drift)
        /\ withdraw_request' = withdraw_request
    BY <1>1 DEF Begin
  <2>2. /\ position' = position /\ wallet' = wallet /\ pool' = pool
        /\ total_shares' = total_shares /\ venue' = venue /\ protocol' = protocol
        /\ UNCHANGED registryVars /\ if_shares' = if_shares
        /\ other_shares' = other_shares /\ fund_shares' = fund_shares
    BY <2>1 DEF dvars, vars, driftVars, fundVars
  <2>3. Movable(signer, Drift)'
    BY <2>1, <2>2 DEF Movable, Routable, Misbound, registryVars
  <2>4. withdraw_request[owner] = 0
    BY DEF XInv
  <2>5. draft' = Untouched'
    BY <2>1, <2>2, <2>4 DEF Accounts, Untouched, Draft, Key, Purse, FundVault
  <2>6. Underway' /\ Progress'
    BY <2>1, <2>3, <2>5 DEF Underway, Progress
  <2>7. QED
    BY <2>1, <2>6 DEF XInv
<1>2. CASE Fails
  BY <1>2 DEF Fails, Over, XInv, Underway, Progress
<1>3. CASE Otherwise
  <2>1. /\ pc = "idle" /\ pc' = "idle" /\ withdraw_request' = withdraw_request
    BY <1>3 DEF Otherwise, transaction
  <2>2. DNext
    BY <1>3 DEF Otherwise, DNext, DOwnerStep
  <2>3. QED
    BY <2>1, <2>2 DEF XInv, Underway, Progress
<1>4. CASE UNCHANGED xvars
  <2>1. /\ UNCHANGED <<dvars, signer, argument>> /\ withdraw_request' = withdraw_request
        /\ pc' = pc /\ draft' = draft /\ before' = before /\ amount_out' = amount_out
    BY <1>4 DEF xvars, transaction
  <2>2. Underway' /\ Progress'
    <3>1. Underway'
      BY <2>1, Resting DEF XInv, Underway
    <3>2. Progress'
      BY <2>1, Resting, DraftsRest DEF XInv, Progress
    <3>3. QED
      BY <3>1, <3>2
  <2>3. QED
    BY <2>1, <2>2 DEF XInv
<1>5. QED
  BY <1>1, <1>2, <1>3, <1>4, StepProgress, CommitStep DEF XNext, Proceed

\* Before the first transaction nothing is requested and none is underway.
LEMMA XInitInv == XInit => DInit /\ XInv
  BY DEF XInit, XInv, Underway, Progress

\* Both invariants are kept.
LEMMA XNextInv == DInv /\ XInv /\ [XNext]_xvars => DInv' /\ XInv'
  BY XStep, DNextInv

\* deposit and withdraw, step by step and failing anywhere, do what DriftIf says
\* they do, or nothing.
THEOREM StepsImplementDrift == XSpec => DSpec
<1>1. XSpec => [](DInv /\ XInv)
  BY XInitInv, DInitInv, XNextInv, PTL DEF XSpec
<1>2. DInv /\ XInv /\ [XNext]_xvars => [DNext]_dvars
  BY XStep
<1>3. QED
  BY <1>1, <1>2, XInitInv, PTL DEF XSpec, DSpec

\* No request to remove stake outlives its transaction.
THEOREM RequestsNeverLinger == XSpec => []NoRequestLingers
<1>1. XSpec => [](DInv /\ XInv)
  BY XInitInv, DInitInv, XNextInv, PTL DEF XSpec
<1>2. XInv => NoRequestLingers
  BY DEF XInv, NoRequestLingers
<1>3. QED
  BY <1>1, <1>2, PTL

-----------------------------------------------------------------------------
(* Whose the fund is *)

\* The shares of the fund are those of the positions' stakes and everybody else's.
SharesAddUp ==
  /\ IsFiniteSet(DOMAIN position)
  /\ fund_shares = other_shares + SumFunctionOnSet(if_shares, DOMAIN position)

\* The inductive invariant of what the shares are worth.
FundInv == DInv /\ SharesAddUp

\* No stake is above the fund.
StakesFit ==
  /\ FundVault \in Nat /\ fund_shares \in Nat
  /\ \A k \in DOMAIN position : if_shares[k] <= fund_shares

\* A stake is one of the summands of the fund, so the fund is at least as large.
LEMMA StakeInFund == FundInv => StakesFit
<1> SUFFICES ASSUME FundInv, NEW k \in DOMAIN position
             PROVE  if_shares[k] <= fund_shares
  BY DFacts DEF FundInv, FundOK, StakesFit
<1>1. if_shares[k] <= SumFunctionOnSet(if_shares, DOMAIN position)
  BY SumAbove, DFacts DEF FundInv, SharesAddUp
<1>2. SumFunctionOnSet(if_shares, DOMAIN position) \in Nat
  BY SumNat, DFacts DEF FundInv, SharesAddUp
<1>3. QED
  BY <1>1, <1>2, DFacts DEF FundInv, SharesAddUp, FundOK

\* A stake changes by as much as the fund less the others' shares.
LEMMA OneStakeChanges ==
  ASSUME FundInv, NEW k \in DOMAIN position, NEW n \in Nat,
         if_shares' = [if_shares EXCEPT ![k] = n], position' = position,
         other_shares' \in Nat, fund_shares' \in Nat,
         (fund_shares' - other_shares') + if_shares[k] = (fund_shares - other_shares) + n
  PROVE  SharesAddUp'
<1> DEFINE v == if_shares
           w == if_shares'
           D == DOMAIN position
<1>1. /\ IsFiniteSet(D) /\ \A y \in D : v[y] \in Nat /\ w[y] \in Nat
      /\ \A y \in D \ {k} : v[y] = w[y]
      /\ w[k] = n /\ v[k] = if_shares[k] /\ k \in D
  BY DFacts DEF FundInv, SharesAddUp
<1>2. fund_shares = other_shares + SumFunctionOnSet(v, D)
  BY DEF FundInv, SharesAddUp
<1>3. fund_shares \in Nat /\ other_shares \in Nat
  BY DFacts DEF FundInv, FundOK
<1> HIDE DEF v, w, D
<1>4. SumFunctionOnSet(w, D) + v[k] = SumFunctionOnSet(v, D) + w[k]
  BY <1>1, SumChange
<1>5. SumFunctionOnSet(w, D) \in Nat /\ SumFunctionOnSet(v, D) \in Nat
  BY <1>1, SumNat
<1>6. fund_shares' = other_shares' + SumFunctionOnSet(w, D)
  BY <1>1, <1>2, <1>3, <1>4, <1>5
<1>7. QED
  BY <1>1, <1>6 DEF SharesAddUp, w, D

\* A deposit adds to the fund what it adds to the stake; the shares of a fund
\* without stakes pass to the protocol first.
LEMMA DepositAddsUp ==
  ASSUME FundInv, NEW owner \in Keys, NEW amount \in Amount, DDeposit(owner, amount)
  PROVE  SharesAddUp'
<1> DEFINE k == <<owner, Drift>>
<1>1. /\ if_shares' = [if_shares EXCEPT ![k] = @ + StakeFor(amount)]
      /\ other_shares' = other_shares + SharesOut - fund_shares
      /\ fund_shares' = SharesOut + StakeFor(amount)
      /\ k \in DOMAIN position /\ position' = position
  BY DEF DDeposit, Movable, DepositEffect
<1>2. amount \in Nat /\ DInv
  BY DispatcherAssumption DEF FundInv, Amount
<1>3. StakeFor(amount) \in Nat
  BY <1>2, StakeForNat
<1>4. /\ if_shares[k] \in Nat /\ SharesOut \in Nat /\ SharesOut >= fund_shares
      /\ fund_shares \in Nat /\ other_shares \in Nat
      /\ DOMAIN if_shares = DOMAIN position
  BY <1>1, <1>2, DFacts DEF FundOK
<1> HIDE DEF k
<1>5. if_shares[k] + StakeFor(amount) \in Nat
  BY <1>3, <1>4
<1>6. if_shares' = [if_shares EXCEPT ![k] = if_shares[k] + StakeFor(amount)]
  BY <1>1, <1>4
<1>7. /\ other_shares' \in Nat /\ fund_shares' \in Nat
      /\ (fund_shares' - other_shares') + if_shares[k]
           = (fund_shares - other_shares) + (if_shares[k] + StakeFor(amount))
  BY <1>1, <1>3, <1>4
<1>8. QED
  BY <1>1, <1>5, <1>6, <1>7, OneStakeChanges

\* A withdrawal takes from the fund what it takes from the stake.
LEMMA WithdrawalAddsUp ==
  ASSUME FundInv, NEW owner \in Keys, NEW shares \in Amount, DWithdraw(owner, shares)
  PROVE  SharesAddUp'
<1> DEFINE k == <<owner, Drift>>
<1>1. /\ if_shares' = [if_shares EXCEPT ![k] = @ - shares]
      /\ other_shares' = other_shares /\ fund_shares' = fund_shares - shares
      /\ shares <= if_shares[k]
      /\ k \in DOMAIN position /\ position' = position
  BY DEF DWithdraw, DMayWithdraw, Movable, WithdrawEffect
<1>2. shares \in Nat /\ DInv
  BY DispatcherAssumption DEF FundInv, Amount
<1>3. /\ if_shares[k] \in Nat /\ fund_shares \in Nat /\ other_shares \in Nat
      /\ DOMAIN if_shares = DOMAIN position
  BY <1>1, <1>2, DFacts DEF FundOK
<1>4. if_shares[k] <= fund_shares
  BY <1>1, StakeInFund DEF StakesFit
<1> HIDE DEF k
<1>5. if_shares[k] - shares \in Nat /\ fund_shares' \in Nat /\ other_shares' \in Nat
  BY <1>1, <1>2, <1>3, <1>4
<1>6. if_shares' = [if_shares EXCEPT ![k] = if_shares[k] - shares]
  BY <1>1, <1>3
<1>7. (fund_shares' - other_shares') + if_shares[k]
        = (fund_shares - other_shares) + (if_shares[k] - shares)
  BY <1>1, <1>2, <1>3, <1>5
<1>8. QED
  BY <1>1, <1>2, <1>3, <1>5, <1>6, <1>7, OneStakeChanges

\* Opening adds an empty stake.
LEMMA OpeningAddsUp ==
  ASSUME FundInv, NEW owner \in Keys, NEW mint \in Mints, DOpenPosition(owner, mint)
  PROVE  SharesAddUp'
<1> DEFINE k == <<owner, Drift>>
           v == if_shares
           w == if_shares'
           D == DOMAIN position
<1>1. /\ if_shares' = Create(if_shares, k, 0) /\ position' = Create(position, k, mint)
      /\ k \notin D
      /\ UNCHANGED <<other_shares, fund_shares>>
  BY DEF DOpenPosition, InitIfStake, OpenPosition
<1> HIDE DEF k
<1>2. DOMAIN position' = D \cup {k}
  BY <1>1, CreateAdds
<1>3. /\ IsFiniteSet(D) /\ w[k] = 0
      /\ \A y \in D : v[y] \in Nat /\ w[y] = v[y]
  BY <1>1, DFacts DEF FundInv, SharesAddUp, Create
<1>4. fund_shares = other_shares + SumFunctionOnSet(v, D)
  BY DEF FundInv, SharesAddUp
<1> HIDE DEF v, w, D
<1>5. SumFunctionOnSet(w, D \cup {k}) = w[k] + SumFunctionOnSet(v, D)
  BY <1>1, <1>3, SumAdd
<1>6. SumFunctionOnSet(w, D \cup {k}) = SumFunctionOnSet(v, D)
  BY <1>3, <1>5, SumNat
<1>7. IsFiniteSet(D \cup {k})
  BY <1>3, FS_AddElement
<1>8. QED
  BY <1>1, <1>2, <1>4, <1>6, <1>7 DEF SharesAddUp, w

\* Every step keeps the sum.
LEMMA FundNextInv == FundInv /\ [DNext]_dvars => FundInv'
<1> SUFFICES ASSUME FundInv, [DNext]_dvars PROVE SharesAddUp'
  BY DNextInv DEF FundInv
<1>1. ASSUME position' = position, if_shares' = if_shares,
             fund_shares' - other_shares' = fund_shares - other_shares,
             fund_shares' \in Nat, other_shares' \in Nat
      PROVE  SharesAddUp'
  <2>1. SumFunctionOnSet(if_shares, DOMAIN position) \in Nat
    BY SumNat, DFacts DEF FundInv, SharesAddUp
  <2>2. fund_shares \in Nat /\ other_shares \in Nat
    BY DFacts DEF FundInv, FundOK
  <2>3. QED
    BY <1>1, <2>1, <2>2 DEF FundInv, SharesAddUp
<1>2. ASSUME UNCHANGED <<position, if_shares, other_shares, fund_shares>>
      PROVE  SharesAddUp'
  BY <1>2 DEF FundInv, SharesAddUp
<1>3. CASE RegistryNext /\ UNCHANGED <<fundVars, driftVars>>
  BY <1>2, <1>3 DEF fundVars, driftVars
<1>4. CASE DOwnerStep
  BY <1>4, OpeningAddsUp, DepositAddsUp, WithdrawalAddsUp DEF DOwnerStep
<1>5. ASSUME NEW amount \in Amount, OtherStake(amount)
      PROVE  SharesAddUp'
  <2>1. /\ position' = position /\ if_shares' = if_shares
        /\ other_shares' = other_shares + SharesOut - fund_shares + StakeFor(amount)
        /\ fund_shares' = SharesOut + StakeFor(amount)
    BY <1>5 DEF OtherStake, ProtocolInflow
  <2>2. amount \in Nat /\ DInv
    BY DispatcherAssumption DEF FundInv, Amount
  <2>3. StakeFor(amount) \in Nat
    BY <2>2, StakeForNat
  <2>4. /\ SharesOut \in Nat /\ SharesOut >= fund_shares
        /\ fund_shares \in Nat /\ other_shares \in Nat
    BY <2>2, DFacts DEF FundOK
  <2>5. /\ fund_shares' - other_shares' = fund_shares - other_shares
        /\ fund_shares' \in Nat /\ other_shares' \in Nat
    BY <2>1, <2>3, <2>4
  <2>6. QED
    BY <1>1, <2>1, <2>5
<1>6. ASSUME NEW shares \in Amount, OtherUnstake(shares)
      PROVE  SharesAddUp'
  <2>1. /\ position' = position /\ if_shares' = if_shares
        /\ other_shares' = other_shares - shares
        /\ fund_shares' = fund_shares - shares
        /\ shares \in 1..other_shares /\ shares <= fund_shares
    BY <1>6 DEF OtherUnstake, ProtocolOutflow, CanPay
  <2>2. fund_shares \in Nat /\ other_shares \in Nat
    BY DFacts DEF FundInv, FundOK
  <2>3. /\ fund_shares' - other_shares' = fund_shares - other_shares
        /\ fund_shares' \in Nat /\ other_shares' \in Nat
    BY <2>1, <2>2
  <2>4. QED
    BY <1>1, <2>1, <2>3
<1>7. ASSUME NEW amount \in Amount, RevenueOrLoss(amount)
      PROVE  SharesAddUp'
  BY <1>2, <1>7 DEF RevenueOrLoss, ProtocolInflow, ProtocolOutflow, driftVars
<1>8. CASE \E k \in DOMAIN position, amount \in Amount :
              DonateToPool(k, amount) /\ UNCHANGED driftVars
  BY <1>2, <1>8 DEF DonateToPool, driftVars
<1>9. CASE TimePasses \/ PeriodChanges \/ UNCHANGED dvars
  BY <1>2, <1>9 DEF TimePasses, PeriodChanges, dvars, vars, fundVars, driftVars
<1>10. QED
  BY <1>3, <1>4, <1>5, <1>6, <1>7, <1>8, <1>9 DEF DNext, DOthersStep

\* The fund starts without stakes.
LEMMA FundInitInv == DInit => FundInv
<1> SUFFICES ASSUME DInit PROVE SharesAddUp
  BY DInitInv DEF FundInv
<1>1. DOMAIN position = {}
  BY DEF DInit, Init, NoAccounts
<1>2. SumFunctionOnSet(if_shares, {}) = 0
  BY SumEmpty
<1>3. IsFiniteSet({})
  BY FS_EmptySet
<1>4. QED
  BY <1>1, <1>2, <1>3 DEF DInit, SharesAddUp

\* Every share of the insurance fund is a position's or somebody else's, through any
\* stakes, removals, revenue and losses: adapter_deposit and adapter_withdraw
\* neither create nor strand a share, at any rate.
THEOREM FundIsAccounted == DSpec => []SharesAddUp
<1>1. DSpec => []FundInv
  BY FundInitInv, FundNextInv, PTL DEF DSpec
<1>2. FundInv => SharesAddUp
  BY DEF FundInv
<1>3. QED
  BY <1>1, <1>2, PTL
-----------------------------------------------------------------------------
(* What a share is worth *)

\* No share of the fund loses by the step.
RateKept == FundVault' * fund_shares >= FundVault * fund_shares'

\* A stake gets no more shares than it pays for.
LEMMA StakingKeepsRate ==
  ASSUME DInv, fund_shares > 0, NEW amount \in Nat, TakesStakes,
         FundVault' = FundVault + amount,
         fund_shares' = SharesOut + StakeFor(amount)
  PROVE  RateKept
<1> DEFINE V == FundVault
           F == fund_shares
           m == (amount * F) \div V
<1>1. V \in Nat \ {0} /\ F \in Nat
  BY DFacts DEF FundOK, TakesStakes
<1>2. FundVault' = V + amount /\ fund_shares' = F + m
  BY <1>1 DEF SharesOut, StakeFor
<1>3. amount * F \in Nat
  BY <1>1, TimesNat
<1>4. m \in Nat /\ m * V <= amount * F
  BY <1>1, <1>3, QuotientBounds
<1> HIDE DEF m
<1>5. amount * F >= m * V
  BY <1>1, <1>3, <1>4, TimesNat
<1>6. (V + amount) * F >= V * (F + m)
  BY <1>1, <1>4, <1>5, MintKeepsRate
<1>7. QED
  BY <1>2, <1>6 DEF RateKept

\* A removal pays no more than the shares are worth.
LEMMA RemovingKeepsRate ==
  ASSUME DInv, NEW shares \in Nat \ {0}, CanPay(shares),
         FundVault' = FundVault - Worth(shares),
         fund_shares' = fund_shares - shares
  PROVE  RateKept
<1> DEFINE V == FundVault
           F == fund_shares
           paid == (shares * V) \div F
<1>1. V \in Nat /\ F \in Nat \ {0}
  BY DFacts DEF FundOK, CanPay
<1>2. FundVault' = V - paid /\ fund_shares' = F - shares
  BY DEF Worth
<1>3. shares * V \in Nat
  BY <1>1, TimesNat
<1>4. paid \in Nat /\ paid * F <= shares * V
  BY <1>1, <1>3, QuotientBounds
<1> HIDE DEF paid
<1>5. (V - paid) * F >= V * (F - shares)
  BY <1>1, <1>4, BurnKeepsRate
<1>6. QED
  BY <1>2, <1>5 DEF RateKept

\* Revenue in a fund whose shares rest.
LEMMA RestingKeepsRate ==
  ASSUME DInv, FundVault' \in Nat, FundVault' >= FundVault, fund_shares' = fund_shares
  PROVE  RateKept
<1>1. FundVault \in Nat /\ fund_shares \in Nat
  BY DFacts DEF FundOK
<1> DEFINE V == FundVault
           W == FundVault'
           F == fund_shares
<1>2. V \in Nat /\ W \in Nat /\ F \in Nat /\ V <= W /\ F <= F
  BY <1>1
<1> HIDE DEF V, W, F
<1>3. V * F <= W * F /\ V * F \in Nat /\ W * F \in Nat
  BY <1>2, TimesMonotone
<1>4. W * F >= V * F
  BY <1>3
<1>5. QED
  BY <1>4 DEF RateKept, V, W, F

\* Only a loss lowers what a share is worth.
LEMMA RateStep ==
  ASSUME DInv, [DNext]_dvars, fund_shares > 0,
         FundVault' < FundVault => fund_shares' # fund_shares
  PROVE  RateKept
<1>1. FundVault \in Nat /\ FundVault' \in Nat
  <2>1. DInv'
    BY DNextInv
  <2>2. protocol' \in [Venues -> Nat]
    BY <2>1 DEF DInv, Inv, TypeOK
  <2>3. QED
    BY <2>2, DFacts DEF FundVault
<1>2. ASSUME fund_shares' = fund_shares
      PROVE  RateKept
  BY <1>1, <1>2, RestingKeepsRate
<1>3. protocol \in [Venues -> Nat] /\ SpotMarket \in Venues
  BY DFacts DEF DInv, Inv, TypeOK
<1>4. ASSUME NEW owner \in Keys, NEW amount \in Amount, DDeposit(owner, amount)
      PROVE  RateKept
  <2> DEFINE k == <<owner, Drift>>
  <2>1. /\ protocol' = [protocol EXCEPT ![venue[k]] = @ + amount]
        /\ k \in DOMAIN position /\ TakesStakes
        /\ fund_shares' = SharesOut + StakeFor(amount)
    BY <1>4 DEF DDeposit, Movable, DepositEffect
  <2>2. venue[k] = SpotMarket /\ amount \in Nat
    BY <2>1, DFacts, DispatcherAssumption DEF Amount
  <2>3. FundVault' = FundVault + amount
    BY <1>3, <2>1, <2>2 DEF FundVault
  <2>4. QED
    BY <2>1, <2>2, <2>3, StakingKeepsRate
<1>5. ASSUME NEW owner \in Keys, NEW shares \in Amount, DWithdraw(owner, shares)
      PROVE  RateKept
  <2> DEFINE k == <<owner, Drift>>
  <2>1. /\ protocol' = [protocol EXCEPT ![venue[k]] = @ - Worth(shares)]
        /\ k \in DOMAIN position /\ CanPay(shares) /\ shares > 0
        /\ fund_shares' = fund_shares - shares
    BY <1>5 DEF DWithdraw, DMayWithdraw, Movable, WithdrawEffect
  <2>2. venue[k] = SpotMarket /\ shares \in Nat \ {0}
    BY <2>1, DFacts, DispatcherAssumption DEF Amount
  <2>3. FundVault' = FundVault - Worth(shares)
    BY <1>3, <2>1, <2>2 DEF FundVault
  <2>4. QED
    BY <2>1, <2>2, <2>3, RemovingKeepsRate
<1>6. ASSUME NEW amount \in Amount, OtherStake(amount)
      PROVE  RateKept
  <2>1. /\ protocol' = [protocol EXCEPT ![SpotMarket] = @ + amount] /\ TakesStakes
        /\ fund_shares' = SharesOut + StakeFor(amount)
    BY <1>6 DEF OtherStake, ProtocolInflow
  <2>2. FundVault' = FundVault + amount /\ amount \in Nat
    BY <1>3, <2>1, DispatcherAssumption DEF FundVault, Amount
  <2>3. QED
    BY <2>1, <2>2, StakingKeepsRate
<1>7. ASSUME NEW shares \in Amount, OtherUnstake(shares)
      PROVE  RateKept
  <2>1. /\ protocol' = [protocol EXCEPT ![SpotMarket] = @ - Worth(shares)]
        /\ CanPay(shares) /\ shares \in 1..other_shares
        /\ fund_shares' = fund_shares - shares
    BY <1>7 DEF OtherUnstake, ProtocolOutflow
  <2>2. FundVault' = FundVault - Worth(shares) /\ shares \in Nat \ {0}
    BY <1>3, <2>1, DFacts DEF FundVault, FundOK
  <2>3. QED
    BY <2>1, <2>2, RemovingKeepsRate
<1>8. CASE \/ RegistryNext /\ UNCHANGED <<fundVars, driftVars>>
           \/ \E owner \in Keys, mint \in Mints : DOpenPosition(owner, mint)
           \/ \E amount \in Amount : RevenueOrLoss(amount)
           \/ \E k \in DOMAIN position, amount \in Amount :
                 DonateToPool(k, amount) /\ UNCHANGED driftVars
           \/ TimePasses \/ PeriodChanges \/ UNCHANGED dvars
  BY <1>2, <1>8 DEF DOpenPosition, InitIfStake, RevenueOrLoss, TimePasses, PeriodChanges,
                    dvars, driftVars
<1>9. QED
  BY <1>4, <1>5, <1>6, <1>7, <1>8 DEF DNext, DOwnerStep, DOthersStep

\* At a rate that has not fallen a stake that rests is worth no less.
LEMMA ValueFollowsRate ==
  ASSUME FundInv, FundInv', NEW k \in DOMAIN position, k \in DOMAIN position',
         if_shares'[k] = if_shares[k], fund_shares > 0 => RateKept
  PROVE  StakeValue(k)' >= StakeValue(k)
<1> DEFINE x == if_shares[k]
<1>1. x \in Nat /\ x <= fund_shares
  BY StakeInFund, DFacts DEF FundInv, StakesFit
<1>2. /\ FundVault' \in Nat /\ fund_shares' \in Nat
      /\ \A q \in DOMAIN position' : if_shares'[q] <= fund_shares'
  <2>1. StakesFit'
    BY StakeInFund, PTL
  <2>2. QED
    BY <2>1 DEF StakesFit
<1>3. if_shares'[k] <= fund_shares'
  BY <1>2
<1>4. FundVault \in Nat /\ fund_shares \in Nat
  BY StakeInFund DEF StakesFit
<1>5. CASE x = 0
  <2>1. StakeValue(k) = 0 /\ StakeValue(k)' = 0
    BY <1>5 DEF StakeValue, StakeValueUsdc
  <2>2. QED
    BY <2>1
<1>6. CASE x > 0
  <2> DEFINE V == FundVault
             W == FundVault'
             F == fund_shares
             G == fund_shares'
  <2>1. F \in Nat \ {0} /\ G \in Nat \ {0} /\ V \in Nat /\ W \in Nat
    BY <1>1, <1>2, <1>3, <1>4, <1>6
  <2>2. W * F >= V * G
    <3>1. RateKept
      BY <2>1
    <3>2. QED
      BY <3>1 DEF RateKept
  <2>3. StakeValue(k) = (x * V) \div F /\ StakeValue(k)' = (x * W) \div G
    BY <1>6 DEF StakeValue, StakeValueUsdc, Worth
  <2> HIDE DEF V, W, F, G, x
  <2>4. (x * W) \div G >= (x * V) \div F
    BY <1>1, <2>1, <2>2, RateLiftsValue
  <2>5. QED
    BY <2>3, <2>4
<1>7. QED
  BY <1>1, <1>5, <1>6

\* A position's reported value never falls while its own stake rests, unless the
\* fund takes a loss: not by one unit, however many stakes and removals of others
\* are rounded, and for any vault, shares and amounts.
THEOREM NobodyIsDiluted == DSpec => NobodyDiluted
<1>1. DSpec => []FundInv
  BY FundInitInv, FundNextInv, PTL DEF DSpec
<1>2. FundInv /\ FundInv' /\ [DNext]_dvars => DilutionStep
  <2> SUFFICES ASSUME FundInv, FundInv', [DNext]_dvars,
                      NEW k \in DOMAIN position, if_shares'[k] = if_shares[k],
                      FundVault' < FundVault => fund_shares' # fund_shares
               PROVE  StakeValue(k)' >= StakeValue(k)
    BY DEF DilutionStep
  <2>1. fund_shares > 0 => RateKept
    BY RateStep DEF FundInv
  <2>2. k \in DOMAIN position'
    BY StepTouches, DNextStep DEF FundInv, DInv, DHolds, Permanent
  <2>3. QED
    BY <2>1, <2>2, ValueFollowsRate
<1>3. QED
  BY <1>1, <1>2, FundNextInv, PTL DEF DSpec, NobodyDiluted

-----------------------------------------------------------------------------
(* What is reported, and what is there *)

\* A withdrawal that takes everything off the books pays what was reported.
LEMMA DWithdrawPaysValue ==
  ASSUME DInv, NEW owner \in Keys, NEW shares \in Amount, DWithdraw(owner, shares)
  PROVE  DFullExitStep
<1> DEFINE k == <<owner, Drift>>
           w == <<owner, position[k]>>
           redeemed == Worth(shares)
<1>1. /\ shares > 0 /\ Movable(owner, Drift)
      /\ SharesOnBooks(k, shares) /\ CanPay(shares)
      /\ total_shares' = [total_shares EXCEPT ![k] = @ - shares]
      /\ wallet' = [wallet EXCEPT ![w] = @ + AmountOut(pool[k], pool[k] + redeemed)]
  BY DEF DWithdraw, DMayWithdraw, WithdrawEffect
<1>2. k \in DOMAIN position /\ DOMAIN total_shares = DOMAIN position
  BY <1>1, DFacts DEF Movable
<1>3. shares \in Nat \ {0} /\ shares <= total_shares[k]
  BY <1>1, DispatcherAssumption DEF SharesOnBooks, Amount
<1>4. redeemed \in Nat
  BY <1>1, <1>3, WorthNat
<1>5. w \in Keys \X Mints /\ wallet \in [Keys \X Mints -> Nat]
  BY <1>2 DEF DInv, Inv, TypeOK
<1> HIDE DEF redeemed
<1>6. wallet'[w] - wallet[w] = redeemed
  BY <1>1, <1>2, <1>4, <1>5, DFacts DEF AmountOut
<1>7. total_shares'[k] = 0 => StakeValue(k) = redeemed
  <2>1. total_shares'[k] = if_shares[k] - shares /\ if_shares[k] \in Nat
    BY <1>1, <1>2, DFacts
  <2>2. QED
    BY <1>3, <2>1 DEF StakeValue, StakeValueUsdc, redeemed
<1>8. \A q \in DOMAIN position \ {k} : ~(total_shares'[q] < total_shares[q])
  BY <1>1, <1>2, DFacts
<1>9. w = <<k[1], position[k]>>
  OBVIOUS
<1> HIDE DEF k, w
<1>10. QED
  BY <1>6, <1>7, <1>8, <1>9 DEF DFullExitStep

\* No other instruction takes anything off the books.
LEMMA BooksKept ==
  ASSUME DInv, \A k \in DOMAIN position : total_shares'[k] >= total_shares[k],
         \A k \in DOMAIN position : total_shares'[k] \in Nat
  PROVE  DFullExitStep
<1>1. \A k \in DOMAIN position : ~(total_shares'[k] < total_shares[k])
  BY DFacts
<1>2. QED
  BY <1>1 DEF DFullExitStep

\* Every step pays what was reported when it empties a position's books.
LEMMA DNextPaysValue == DInv /\ [DNext]_dvars => DFullExitStep
<1> SUFFICES ASSUME DInv, [DNext]_dvars PROVE DFullExitStep
  OBVIOUS
<1>1. CASE total_shares' = total_shares
  <2>1. \A k \in DOMAIN position :
           total_shares'[k] >= total_shares[k] /\ total_shares'[k] \in Nat
    BY <1>1, DFacts
  <2>2. QED
    BY <2>1, BooksKept
<1>2. CASE \E owner \in Keys, mint \in Mints : DOpenPosition(owner, mint)
  <2>1. PICK owner \in Keys, mint \in Mints : DOpenPosition(owner, mint)
    BY <1>2
  <2>2. /\ total_shares' = Create(total_shares, <<owner, Drift>>, 0)
        /\ <<owner, Drift>> \notin DOMAIN total_shares
    BY <2>1 DEF DOpenPosition, OpenPosition
  <2>3. \A k \in DOMAIN position :
           total_shares'[k] >= total_shares[k] /\ total_shares'[k] \in Nat
    BY <2>2, DFacts DEF Create
  <2>4. QED
    BY <2>3, BooksKept
<1>3. CASE \E owner \in Keys, amount \in Amount : DDeposit(owner, amount)
  <2>1. PICK owner \in Keys, amount \in Amount : DDeposit(owner, amount)
    BY <1>3
  <2> DEFINE k == <<owner, Drift>>
             bought == StakeFor(amount)
  <2>2. /\ k \in DOMAIN position
        /\ total_shares' = [total_shares EXCEPT
              ![k] = @ + Minted(if_shares[k], if_shares[k] + bought, amount)]
    BY <2>1 DEF DDeposit, DepositEffect, Movable
  <2>3. bought \in Nat
    BY StakeForNat, DispatcherAssumption DEF Amount
  <2> HIDE DEF bought, k
  <2>4. Minted(if_shares[k], if_shares[k] + bought, amount) = bought
    BY <2>2, <2>3, DFacts DEF Minted
  <2>5. \A q \in DOMAIN position :
           total_shares'[q] >= total_shares[q] /\ total_shares'[q] \in Nat
    BY <2>2, <2>3, <2>4, DFacts
  <2>6. QED
    BY <2>5, BooksKept
<1>4. CASE \E owner \in Keys, amount \in Amount : DWithdraw(owner, amount)
  BY <1>4, DWithdrawPaysValue
<1>5. CASE DOthersStep
  BY <1>1, <1>5 DEF DOthersStep, OtherStake, OtherUnstake, RevenueOrLoss,
                    ProtocolInflow, ProtocolOutflow
<1>6. CASE (RegistryNext /\ UNCHANGED <<fundVars, driftVars>>) \/ UNCHANGED dvars
  BY <1>1, <1>6 DEF fundVars, dvars, vars
<1>7. CASE \E k \in DOMAIN position, amount \in Amount :
              DonateToPool(k, amount) /\ UNCHANGED driftVars
  BY <1>1, <1>7 DEF DonateToPool
<1>8. CASE TimePasses \/ PeriodChanges
  BY <1>1, <1>8 DEF TimePasses, PeriodChanges, vars, fundVars
<1>9. QED
  BY <1>2, <1>3, <1>4, <1>5, <1>6, <1>7, <1>8 DEF DNext, DOwnerStep

\* A withdrawal that empties a position's books pays its owner exactly the value the
\* adapter reported before it, at any rate and after any history.
THEOREM DFullExitIsPaid == DSpec => DFullExitPaysValue
<1>1. DInv /\ [DNext]_dvars => [DFullExitStep]_dvars
  BY DNextPaysValue
<1>2. QED
  BY <1>1, DInvariant, PTL DEF DSpec, DFullExitPaysValue

\* A position's value is at most its stake's part of the vault.
LEMMA ValueOfStake ==
  ASSUME FundInv, NEW k \in DOMAIN position
  PROVE  /\ StakeValue(k) \in Nat /\ if_shares[k] \in Nat
         /\ StakeValue(k) * fund_shares <= if_shares[k] * FundVault
         /\ fund_shares = 0 => StakeValue(k) = 0
<1>1. /\ if_shares[k] \in Nat /\ fund_shares \in Nat /\ FundVault \in Nat
      /\ if_shares[k] <= fund_shares
  BY StakeInFund, DFacts DEF FundInv, StakesFit
<1>2. CASE if_shares[k] = 0
  <2>1. StakeValue(k) = 0
    BY <1>2 DEF StakeValue, StakeValueUsdc
  <2>2. QED
    BY <1>1, <1>2, <2>1
<1>3. CASE if_shares[k] # 0
  <2>1. fund_shares \in Nat \ {0} /\ if_shares[k] * FundVault \in Nat
    BY <1>1, <1>3, TimesNat
  <2>2. StakeValue(k) = (if_shares[k] * FundVault) \div fund_shares
    BY <1>3 DEF StakeValue, StakeValueUsdc, Worth
  <2>3. QED
    BY <1>1, <2>1, <2>2, QuotientBounds
<1>4. QED
  BY <1>2, <1>3

\* What the positions are told they have, all of them together, is in the vault,
\* for any number of positions, other stakers, revenue and losses.
THEOREM StakesAlwaysCovered == DSpec => []StakesCovered
<1>1. FundInv => StakesCovered
  <2> SUFFICES ASSUME FundInv PROVE StakesCovered
    OBVIOUS
  <2> DEFINE D == DOMAIN position
             v == if_shares
             values == [k \in D |-> StakeValue(k)]
             vault == FundVault
  <2>1. /\ fund_shares \in Nat /\ vault \in Nat /\ other_shares \in Nat
        /\ IsFiniteSet(D) /\ \A k \in D : v[k] \in Nat
    BY DFacts DEF FundInv, FundOK, SharesAddUp
  <2>2. fund_shares = other_shares + SumFunctionOnSet(v, D)
    BY DEF FundInv, SharesAddUp
  <2>3. \A k \in D : /\ values[k] \in Nat /\ v[k] \in Nat
                     /\ values[k] * fund_shares <= v[k] * vault
                     /\ fund_shares = 0 => values[k] = 0
    BY ValueOfStake
  <2>4. StakesCovered <=> SumFunctionOnSet(values, D) <= vault
    BY DEF StakesCovered
  <2> HIDE DEF D, v, values, vault
  <2>5. SumFunctionOnSet(v, D) <= fund_shares
    <3>1. SumFunctionOnSet(v, D) \in Nat
      BY <2>1, SumNat
    <3>2. QED
      BY <2>1, <2>2, <3>1
  <2>6. QED
    BY <2>1, <2>3, <2>4, <2>5, PartsFit
<1>2. DSpec => []FundInv
  BY FundInitInv, FundNextInv, PTL DEF DSpec
<1>3. QED
  BY <1>1, <1>2, PTL

-----------------------------------------------------------------------------
(* Who gets out *)

\* What CooldownDecides promises, as the checks a withdrawal has to pass: while the
\* route is open a withdrawal of the whole stake passes them when the cooldown is
\* zero, and then only.
CooldownGuards ==
  \A k \in DOMAIN position :
     Movable(k[1], Drift) /\ total_shares[k] > 0
     => (DMayWithdraw(k[1], total_shares[k]) <=> unstaking_period = 0)

\* Books, stake, fund and vault never keep an owner in, and the cooldown always does,
\* however long she waits.
THEOREM OnlyTheCooldownGuards == DSpec => []CooldownGuards
<1>1. DSpec => []FundInv
  BY FundInitInv, FundNextInv, PTL DEF DSpec
<1>2. FundInv => CooldownGuards
  <2> SUFFICES ASSUME FundInv, NEW k \in DOMAIN position,
                      Movable(k[1], Drift), total_shares[k] > 0
               PROVE  DMayWithdraw(k[1], total_shares[k]) <=> unstaking_period = 0
    BY DEF CooldownGuards
  <2> DEFINE n == total_shares[k]
  <2>1. DInv /\ k = <<k[1], Drift>>
    BY DEF FundInv, DInv, DTypeOK
  <2>2. /\ n \in Nat \ {0} /\ n = if_shares[k] /\ n <= fund_shares
        /\ fund_shares \in Nat \ {0} /\ FundVault \in Nat
    BY <2>1, DFacts, StakeInFund DEF StakesFit, FundOK
  <2>3. Worth(n) <= FundVault
    <3> DEFINE V == FundVault
               F == fund_shares
    <3>1. n \in Nat /\ V \in Nat /\ F \in Nat \ {0} /\ n <= F
      BY <2>2
    <3> HIDE DEF n, V, F
    <3>2. (n * V) \div F <= V
      BY <3>1, PartBelowWhole
    <3>3. QED
      BY <3>2 DEF Worth, V, F
  <2>4. unstaking_period \in Nat /\ now \in Nat
    <3>1. unstaking_period \in Periods /\ now \in 0..MaxTime
      BY <2>1, DFacts DEF FundOK
    <3>2. QED
      BY <3>1, DriftAssumption
  <2>5. CooldownOver(now) <=> unstaking_period = 0
    BY <2>4 DEF CooldownOver
  <2>6. QED
    BY <2>1, <2>2, <2>3, <2>5 DEF DMayWithdraw, SharesOnBooks, CanPay
<1>3. QED
  BY <1>1, <1>2, PTL
=============================================================================
