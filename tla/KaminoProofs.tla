---------------------------- MODULE KaminoProofs ----------------------------
(***************************************************************************)
(* Proofs about modules KaminoUsdc and KaminoExit: the type invariant;     *)
(* that booked shares are always backed by the position's own cTokens;     *)
(* that the adapter behind the dispatcher implements the contract of       *)
(* module Dispatcher and keeps custody as ShareCustody promises; that the  *)
(* liquidity behind a cToken never falls; where a reserve's cTokens are,   *)
(* and from it how far the values reported may be trusted; and that        *)
(* nothing but rounding is lost on the way in and out.                     *)
(***************************************************************************)
EXTENDS KaminoExit, DispatcherProofs, ArithmeticProofs

\* The inductive invariant.
KInv == Inv /\ KTypeOK /\ SharesBacked

\* The reserves' part of KTypeOK.
ReserveOK ==
  /\ reserve \in [Reserves -> Reserve]
  /\ \A res \in Reserves : reserve[res].last_update_slot <= slot

-----------------------------------------------------------------------------
(* Arithmetic of the reserve *)

\* A refresh keeps a reserve a reserve and brings it to the current slot; it
\* mints and burns nothing and forgets no debt.
LEMMA RefreshType ==
  ASSUME NEW res, reserve[res] \in Reserve, slot \in 0..MaxSlot,
         reserve[res].last_update_slot <= slot
  PROVE  /\ RefreshedReserve(res) \in Reserve
         /\ RefreshedReserve(res).supply = reserve[res].supply
         /\ RefreshedReserve(res).last_update_slot = slot
         /\ RefreshedReserve(res).borrowed_sf >= reserve[res].borrowed_sf
<1> DEFINE r == reserve[res]
           dt == slot - r.last_update_slot
<1>1. dt \in Nat /\ r.borrowed_sf \in Nat /\ r.supply \in Nat
  BY KaminoAssumption DEF Reserve
<1>2. Interest(r.borrowed_sf, dt) \in Nat
  <2>1. r.borrowed_sf * dt \in Nat
    BY <1>1, TimesNat
  <2>2. QED
    BY <2>1, DivNat, KaminoAssumption DEF Interest
<1>3. RefreshedReserve(res) =
        [borrowed_sf |-> r.borrowed_sf + Interest(r.borrowed_sf, dt),
         supply |-> r.supply, last_update_slot |-> slot]
  BY DEF RefreshedReserve, dt, Reserve
<1> HIDE DEF dt
<1>4. r.borrowed_sf + Interest(r.borrowed_sf, dt) \in Nat
  BY <1>1, <1>2
<1>5. r.borrowed_sf + Interest(r.borrowed_sf, dt) >= r.borrowed_sf
  BY <1>1, <1>2
<1>6. QED
  BY <1>1, <1>3, <1>4, <1>5 DEF Reserve

\* A reserve's liquidity is a natural number of 1/SF units.
LEMMA LiquidityNat ==
  ASSUME NEW r \in Reserve, NEW available \in Nat
  PROVE  LiquiditySf(r, available) \in Nat
<1>1. available * SF \in Nat /\ r.borrowed_sf \in Nat
  BY TimesNat, KaminoAssumption DEF Reserve
<1>2. QED
  BY <1>1 DEF LiquiditySf

\* Mints are natural numbers.
LEMMA CollateralNat ==
  ASSUME NEW amount \in Nat, NEW r \in Reserve, NEW available \in Nat
  PROVE  CollateralFor(amount, r, available) \in Nat
<1>1. CASE r.supply = 0 \/ LiquiditySf(r, available) = 0
  BY <1>1 DEF CollateralFor
<1>2. CASE ~(r.supply = 0 \/ LiquiditySf(r, available) = 0)
  <2>1. amount * SF \in Nat /\ r.supply \in Nat
    BY TimesNat, KaminoAssumption DEF Reserve
  <2>2. amount * SF * r.supply \in Nat
    BY <2>1, TimesNat
  <2>3. LiquiditySf(r, available) \in Nat \ {0}
    BY <1>2, LiquidityNat
  <2>4. QED
    BY <1>2, <2>2, <2>3, DivNat DEF CollateralFor
<1>3. QED
  BY <1>1, <1>2

\* Redemptions of cTokens that exist pay a natural number.
LEMMA PaidNat ==
  ASSUME NEW collateral \in Nat, NEW r \in Reserve, r.supply > 0, NEW available \in Nat
  PROVE  LiquidityFor(collateral, r, available) \in Nat
<1>1. collateral * LiquiditySf(r, available) \in Nat
  BY LiquidityNat, TimesNat
<1>2. r.supply \in Nat \ {0}
  BY DEF Reserve
<1>3. r.supply * SF \in Nat \ {0}
  BY <1>2, TimesPos, KaminoAssumption
<1>4. QED
  BY <1>1, <1>3, DivNat DEF LiquidityFor

-----------------------------------------------------------------------------
(* Every adapter step is a dispatcher step, or none *)

\* What the invariant says of the state an instruction starts from.
LEMMA KFacts ==
  ASSUME KInv
  PROVE  /\ slot \in 0..MaxSlot
         /\ \A res \in Reserves :
               /\ res \in Venues /\ VenueMint[res] \in Mints
               /\ reserve[res] \in Reserve
               /\ RefreshedReserve(res) \in Reserve
               /\ RefreshedReserve(res).supply = reserve[res].supply
               /\ RefreshedReserve(res).last_update_slot = slot
               /\ protocol[res] \in Nat
               /\ outside[res] \in Nat
               /\ others[VenueMint[res]] \in Nat
         /\ \A k \in DOMAIN position :
               collateral_vault[k] \in Nat /\ pool[k] \in Nat /\ total_shares[k] \in Nat
<1>1. /\ slot \in 0..MaxSlot
      /\ \A res \in Reserves :
            reserve[res] \in Reserve /\ reserve[res].last_update_slot <= slot
  BY DEF KInv, KTypeOK
<1>2. \A res \in Reserves :
         /\ RefreshedReserve(res) \in Reserve
         /\ RefreshedReserve(res).supply = reserve[res].supply
         /\ RefreshedReserve(res).last_update_slot = slot
  BY <1>1, RefreshType
<1>3. QED
  BY <1>1, <1>2, KaminoAssumption DEF KInv, KTypeOK, Inv, TypeOK, Amount

\* The reserves after an instruction that leaves one of them with another supply.
LEMMA NewSupply ==
  ASSUME KInv, NEW res \in Reserves, NEW n \in Nat,
         reserve' = [reserve EXCEPT ![res] = [RefreshedReserve(res) EXCEPT !.supply = n]],
         slot' = slot
  PROVE  ReserveOK'
<1> DEFINE new == [RefreshedReserve(res) EXCEPT !.supply = n]
<1>1. new \in Reserve /\ new.last_update_slot = slot
  BY KFacts DEF Reserve
<1> HIDE DEF new
<1>2. reserve' = [reserve EXCEPT ![res] = new]
  BY DEF new
<1>3. QED
  BY <1>1, <1>2, KFacts DEF KInv, KTypeOK, ReserveOK

\* ... or with another debt.
LEMMA NewDebt ==
  ASSUME KInv, NEW res \in Reserves, NEW n \in Nat,
         reserve' = [reserve EXCEPT ![res] =
                       [RefreshedReserve(res) EXCEPT !.borrowed_sf = n]],
         slot' = slot
  PROVE  ReserveOK'
<1> DEFINE new == [RefreshedReserve(res) EXCEPT !.borrowed_sf = n]
<1>1. new \in Reserve /\ new.last_update_slot = slot
  BY KFacts DEF Reserve
<1> HIDE DEF new
<1>2. reserve' = [reserve EXCEPT ![res] = new]
  BY DEF new
<1>3. QED
  BY <1>1, <1>2, KFacts DEF KInv, KTypeOK, ReserveOK

\* deposit: the booked shares are the minted cTokens.
LEMMA KDepositStep ==
  ASSUME KInv, NEW owner \in Keys, NEW res \in Reserves, NEW amount \in Amount,
         KDeposit(owner, res, amount)
  PROVE  Deposit(owner, Kamino, amount) /\ KTypeOK' /\ SharesBacked'
<1> DEFINE k == <<owner, Kamino>>
           minted == CollateralFor(amount, RefreshedReserve(res), protocol[res])
           booked == Measured(collateral_vault[k], collateral_vault[k] + minted)
<1>1. /\ amount > 0 /\ Bound(owner, res) /\ wallet[<<owner, position[k]>>] >= amount
      /\ total_shares[k] + booked <= MaxU64
      /\ collateral_vault' = [collateral_vault EXCEPT ![k] = @ + minted]
      /\ reserve' = [reserve EXCEPT ![res] =
                       [RefreshedReserve(res) EXCEPT !.supply = @ + minted]]
      /\ UNCHANGED <<outside, slot>>
  BY DEF KDeposit, AdapterRefresh
<1>2. PICK consumed \in MayConsume(amount, minted, RefreshedReserve(res), protocol[res]) :
         DepositEffect(owner, Kamino, amount, consumed, booked)
  BY DEF KDeposit, AdapterRefresh
<1>3. Movable(owner, Kamino) /\ k \in DOMAIN position /\ venue[k] = res
  BY <1>1 DEF Bound, Movable
<1>4. minted \in Nat
  <2>1. amount \in Nat
    BY DispatcherAssumption DEF Amount
  <2>2. QED
    BY <2>1, KFacts, CollateralNat
<1> HIDE DEF minted
<1>5. booked = minted
  BY <1>3, <1>4, KFacts DEF Measured
<1> HIDE DEF booked
<1>6. consumed \in 0..amount
  BY <1>2 DEF MayConsume
<1>7. total_shares[k] \in Nat /\ MaxU64 \in Nat
  BY <1>3, KFacts, DispatcherAssumption
<1>8. booked \in 0..(MaxU64 - total_shares[k])
  BY <1>1, <1>4, <1>5, <1>7
<1>9. Deposit(owner, Kamino, amount)
  BY <1>1, <1>2, <1>3, <1>6, <1>8 DEF Deposit
<1>10. Inv'
  BY <1>9, DepositInv, KaminoAssumption DEF KInv
<1>11. /\ position' = position
       /\ total_shares' = [total_shares EXCEPT ![k] = @ + minted]
  BY <1>2, <1>5 DEF DepositEffect
<1> HIDE DEF k
<1>12. collateral_vault' \in [DOMAIN position -> Nat]
  BY <1>1, <1>3, <1>4, KFacts DEF KInv, KTypeOK
<1>13. ReserveOK'
  <2>1. RefreshedReserve(res).supply + minted \in Nat
    BY <1>4, KFacts DEF Reserve
  <2>2. QED
    BY <1>1, <2>1, NewSupply
<1>14. KTypeOK'
  BY <1>1, <1>10, <1>11, <1>12, <1>13 DEF KInv, KTypeOK, ReserveOK, Inv
<1>15. SharesBacked'
  <2>1. SUFFICES ASSUME NEW q \in DOMAIN position
                 PROVE  total_shares'[q] <= collateral_vault'[q]
    BY <1>11 DEF SharesBacked
  <2>2. total_shares[q] <= collateral_vault[q]
    BY DEF KInv, SharesBacked
  <2>3. q \in DOMAIN total_shares /\ q \in DOMAIN collateral_vault
    BY DEF KInv, KTypeOK, Inv, TypeOK
  <2>4. QED
    BY <1>1, <1>4, <1>11, <2>2, <2>3, KFacts
<1>16. QED
  BY <1>9, <1>14, <1>15

\* withdraw: the owner receives what klend paid, for the shares it burned.
LEMMA KWithdrawStep ==
  ASSUME KInv, NEW owner \in Keys, NEW res \in Reserves, NEW shares \in Amount,
         KWithdraw(owner, res, shares)
  PROVE  Withdraw(owner, Kamino, shares) /\ KTypeOK' /\ SharesBacked'
<1> DEFINE k == <<owner, Kamino>>
           redeemed == LiquidityFor(shares, RefreshedReserve(res), protocol[res])
           amount_out == Measured(pool[k], pool[k] + redeemed)
<1>1. /\ shares > 0 /\ Bound(owner, res)
      /\ shares <= total_shares[k]
      /\ shares <= collateral_vault[k]
      /\ shares <= RefreshedReserve(res).supply
      /\ redeemed <= protocol[res]
      /\ WithdrawEffect(owner, Kamino, shares, redeemed, amount_out)
      /\ collateral_vault' = [collateral_vault EXCEPT ![k] = @ - shares]
      /\ reserve' = [reserve EXCEPT ![res] =
                       [RefreshedReserve(res) EXCEPT !.supply = @ - shares]]
      /\ UNCHANGED <<outside, slot>>
  BY DEF KWithdraw, KMayWithdraw, AdapterRefresh, SharesBooked
<1>2. Movable(owner, Kamino) /\ k \in DOMAIN position /\ venue[k] = res
  BY <1>1 DEF Bound, Movable
<1>3. shares \in Nat /\ RefreshedReserve(res).supply > 0
  BY <1>1, KFacts DEF Amount, Reserve
<1>4. redeemed \in Nat
  BY <1>3, KFacts, PaidNat
<1> HIDE DEF redeemed
<1>5. amount_out = redeemed
  BY <1>2, <1>4, KFacts DEF Measured
<1>6. redeemed \in 0..protocol[res]
  BY <1>1, <1>4, KFacts
<1>7. Burned(shares, total_shares[k]) = shares
  BY <1>1 DEF Burned
<1>8. WithdrawEffect(owner, Kamino, Burned(shares, total_shares[k]), redeemed, redeemed)
  BY <1>1, <1>5, <1>7
<1>9. Withdraw(owner, Kamino, shares)
  BY <1>1, <1>2, <1>6, <1>8 DEF Withdraw
<1>10. Inv'
  BY <1>9, WithdrawInv, KaminoAssumption DEF KInv
<1>11. /\ position' = position
       /\ total_shares' = [total_shares EXCEPT ![k] = @ - shares]
  BY <1>1 DEF WithdrawEffect
<1> HIDE DEF k, amount_out
<1>12. collateral_vault' \in [DOMAIN position -> Nat]
  BY <1>1, <1>2, <1>3, KFacts DEF KInv, KTypeOK
<1>13. ReserveOK'
  <2>1. RefreshedReserve(res).supply - shares \in Nat
    BY <1>1, <1>3, KFacts DEF Reserve
  <2>2. QED
    BY <1>1, <2>1, NewSupply
<1>14. KTypeOK'
  BY <1>1, <1>10, <1>11, <1>12, <1>13 DEF KInv, KTypeOK, ReserveOK, Inv
<1>15. SharesBacked'
  <2>1. SUFFICES ASSUME NEW q \in DOMAIN position
                 PROVE  total_shares'[q] <= collateral_vault'[q]
    BY <1>11 DEF SharesBacked
  <2>2. total_shares[q] <= collateral_vault[q]
    BY DEF KInv, SharesBacked
  <2>3. q \in DOMAIN total_shares /\ q \in DOMAIN collateral_vault
    BY DEF KInv, KTypeOK, Inv, TypeOK
  <2>4. QED
    BY <1>1, <1>3, <1>11, <2>2, <2>3, KFacts
<1>16. QED
  BY <1>9, <1>14, <1>15

\* open_position creates the adapter's accounts with the dispatcher's.
LEMMA KOpenPositionStep ==
  ASSUME KInv, NEW owner \in Keys, NEW mint \in Mints, NEW chosen \in Venues,
         KOpenPosition(owner, mint, chosen)
  PROVE  OpenPosition(owner, Kamino, mint, chosen) /\ KTypeOK' /\ SharesBacked'
<1> DEFINE k == <<owner, Kamino>>
<1>1. /\ OpenPosition(owner, Kamino, mint, chosen)
      /\ position' = Create(position, k, mint)
      /\ total_shares' = Create(total_shares, k, 0)
      /\ collateral_vault' = Create(collateral_vault, k, 0)
      /\ UNCHANGED <<outside, reserve, slot>>
  BY DEF KOpenPosition, OpenPosition
<1>2. Inv'
  BY <1>1, OpenPositionInv, KaminoAssumption DEF KInv
<1>3. k \in Keys \X {Kamino}
  OBVIOUS
<1> HIDE DEF k
<1>4. DOMAIN position' = DOMAIN position \cup {k}
  BY <1>1, CreateAdds
<1>5. collateral_vault' \in [DOMAIN position' -> Nat]
  BY <1>1, <1>4 DEF Create, KInv, KTypeOK
<1>6. KTypeOK'
  BY <1>1, <1>2, <1>3, <1>4, <1>5 DEF KInv, KTypeOK, Inv
<1>7. SharesBacked'
  <2>1. SUFFICES ASSUME NEW q \in DOMAIN position'
                 PROVE  total_shares'[q] <= collateral_vault'[q]
    BY DEF SharesBacked
  <2>2. CASE q = k
    <3>1. total_shares'[q] = 0 /\ collateral_vault'[q] = 0
      BY <1>1, <2>2 DEF Create
    <3>2. QED
      BY <3>1
  <2>3. CASE q # k
    <3>1. q \in DOMAIN position
      BY <1>4, <2>3
    <3>2. q \in DOMAIN total_shares /\ q \in DOMAIN collateral_vault
      BY <3>1 DEF KInv, KTypeOK, Inv, TypeOK
    <3>3. /\ total_shares'[q] = total_shares[q]
          /\ collateral_vault'[q] = collateral_vault[q]
      BY <1>1, <2>3, <3>2 DEF Create
    <3>4. QED
      BY <3>1, <3>3 DEF KInv, SharesBacked
  <2>4. QED
    BY <2>2, <2>3
<1>8. QED
  BY <1>1, <1>6, <1>7

\* Steps that leave the books and the vaults alone keep the backing.
LEMMA BooksUntouched ==
  ASSUME KInv, Inv', ReserveOK', outside' \in [Reserves -> Nat], slot' \in 0..MaxSlot,
         UNCHANGED <<position, total_shares, collateral_vault>>
  PROVE  KTypeOK' /\ SharesBacked'
  BY DEF KInv, KTypeOK, Inv, SharesBacked, ReserveOK

\* A value read refreshes the reserve and changes nothing else.
LEMMA KCurrentValueStep ==
  ASSUME KInv, NEW owner \in Keys, NEW res \in Reserves, KCurrentValue(owner, res)
  PROVE  UNCHANGED vars /\ KTypeOK' /\ SharesBacked'
<1>1. /\ reserve' = [reserve EXCEPT ![res] = RefreshedReserve(res)]
      /\ UNCHANGED <<vars, collateral_vault, outside, slot>>
  BY DEF KCurrentValue, AdapterRefresh
<1>2. ReserveOK'
  BY <1>1, KFacts DEF KInv, KTypeOK, ReserveOK
<1>3. Inv' /\ UNCHANGED <<position, total_shares>>
  BY <1>1, NextInv DEF KInv, vars, fundVars
<1>4. QED
  BY <1>1, <1>2, <1>3, KFacts, BooksUntouched DEF KInv, KTypeOK

\* A reserve pays out, or is paid, as the venue it is.
LEMMA FlowIsNext ==
  ASSUME KInv, NEW res \in Reserves, NEW amount \in Nat,
         ProtocolInflow(res, amount) \/ ProtocolOutflow(res, amount)
  PROVE  Next /\ Inv' /\ UNCHANGED <<position, total_shares>>
<1>1. res \in {u \in Venues : VenueMint[u] \in Mints}
  BY KFacts
<1>2. /\ ProtocolInflow(res, amount) => amount \in 0..others[VenueMint[res]]
      /\ ProtocolOutflow(res, amount) => amount \in 0..protocol[res]
  BY KFacts DEF ProtocolInflow, ProtocolOutflow
<1>3. Next
  BY <1>1, <1>2 DEF Next
<1>4. QED
  BY <1>3, NextInv DEF KInv, ProtocolInflow, ProtocolOutflow

\* klend's other users deposit ...
LEMMA OtherDepositStep ==
  ASSUME KInv, NEW res \in Reserves, NEW amount \in Amount, OtherDeposit(res, amount)
  PROVE  [Next]_vars /\ KTypeOK' /\ SharesBacked'
<1> DEFINE minted == CollateralFor(amount, RefreshedReserve(res), protocol[res])
           n == RefreshedReserve(res).supply + minted
<1>1. /\ ProtocolInflow(res, amount)
      /\ reserve' = [reserve EXCEPT ![res] = [RefreshedReserve(res) EXCEPT !.supply = n]]
      /\ outside' = [outside EXCEPT ![res] = @ + minted]
      /\ UNCHANGED <<collateral_vault, slot>>
  BY DEF OtherDeposit
<1>2. amount \in Nat
  BY DispatcherAssumption DEF Amount
<1>3. minted \in Nat
  BY <1>2, KFacts, CollateralNat
<1> HIDE DEF minted
<1>4. n \in Nat /\ outside[res] + minted \in Nat
  BY <1>3, KFacts DEF Reserve
<1> HIDE DEF n
<1>5. ReserveOK'
  BY <1>1, <1>4, NewSupply
<1>6. Next /\ Inv' /\ UNCHANGED <<position, total_shares>>
  BY <1>1, <1>2, FlowIsNext
<1>7. outside' \in [Reserves -> Nat]
  BY <1>1, <1>4 DEF KInv, KTypeOK
<1>8. QED
  BY <1>1, <1>5, <1>6, <1>7, KFacts, BooksUntouched

\* ... redeem ...
LEMMA OtherRedeemStep ==
  ASSUME KInv, NEW res \in Reserves, NEW collateral \in Amount,
         OtherRedeem(res, collateral)
  PROVE  [Next]_vars /\ KTypeOK' /\ SharesBacked'
<1> DEFINE paid == LiquidityFor(collateral, RefreshedReserve(res), protocol[res])
           n == RefreshedReserve(res).supply - collateral
<1>1. /\ collateral > 0 /\ collateral <= outside[res]
      /\ collateral <= RefreshedReserve(res).supply
      /\ ProtocolOutflow(res, paid)
      /\ reserve' = [reserve EXCEPT ![res] = [RefreshedReserve(res) EXCEPT !.supply = n]]
      /\ outside' = [outside EXCEPT ![res] = @ - collateral]
      /\ UNCHANGED <<collateral_vault, slot>>
  BY DEF OtherRedeem
<1>2. collateral \in Nat
  BY DispatcherAssumption DEF Amount
<1>3. RefreshedReserve(res).supply > 0
  BY <1>1, <1>2, KFacts DEF Reserve
<1>4. paid \in Nat
  BY <1>2, <1>3, KFacts, PaidNat
<1> HIDE DEF paid
<1>5. n \in Nat /\ outside[res] - collateral \in Nat
  BY <1>1, <1>2, KFacts DEF Reserve
<1> HIDE DEF n
<1>6. ReserveOK'
  BY <1>1, <1>5, NewSupply
<1>7. Next /\ Inv' /\ UNCHANGED <<position, total_shares>>
  BY <1>1, <1>4, FlowIsNext
<1>8. outside' \in [Reserves -> Nat]
  BY <1>1, <1>5 DEF KInv, KTypeOK
<1>9. QED
  BY <1>1, <1>6, <1>7, <1>8, KFacts, BooksUntouched

\* ... borrow ...
LEMMA BorrowStep ==
  ASSUME KInv, NEW res \in Reserves, NEW amount \in Amount, Borrow(res, amount)
  PROVE  [Next]_vars /\ KTypeOK' /\ SharesBacked'
<1> DEFINE n == RefreshedReserve(res).borrowed_sf + amount * SF
<1>1. /\ ProtocolOutflow(res, amount)
      /\ reserve' = [reserve EXCEPT ![res] =
                       [RefreshedReserve(res) EXCEPT !.borrowed_sf = n]]
      /\ UNCHANGED <<collateral_vault, outside, slot>>
  BY DEF Borrow
<1>2. amount \in Nat
  BY DispatcherAssumption DEF Amount
<1>3. amount * SF \in Nat
  BY <1>2, TimesNat, KaminoAssumption
<1>4. n \in Nat
  BY <1>3, KFacts DEF Reserve
<1> HIDE DEF n
<1>5. ReserveOK'
  BY <1>1, <1>4, NewDebt
<1>6. Next /\ Inv' /\ UNCHANGED <<position, total_shares>>
  BY <1>1, <1>2, FlowIsNext
<1>7. QED
  BY <1>1, <1>5, <1>6, KFacts, BooksUntouched DEF KInv, KTypeOK

\* ... and repay.
LEMMA RepayStep ==
  ASSUME KInv, NEW res \in Reserves, NEW amount \in Amount, Repay(res, amount)
  PROVE  [Next]_vars /\ KTypeOK' /\ SharesBacked'
<1> DEFINE n == RefreshedReserve(res).borrowed_sf - amount * SF
<1>1. /\ ProtocolInflow(res, amount)
      /\ amount * SF <= RefreshedReserve(res).borrowed_sf
      /\ reserve' = [reserve EXCEPT ![res] =
                       [RefreshedReserve(res) EXCEPT !.borrowed_sf = n]]
      /\ UNCHANGED <<collateral_vault, outside, slot>>
  BY DEF Repay
<1>2. amount \in Nat
  BY DispatcherAssumption DEF Amount
<1>3. amount * SF \in Nat
  BY <1>2, TimesNat, KaminoAssumption
<1>4. n \in Nat
  BY <1>1, <1>3, KFacts DEF Reserve
<1> HIDE DEF n
<1>5. ReserveOK'
  BY <1>1, <1>4, NewDebt
<1>6. Next /\ Inv' /\ UNCHANGED <<position, total_shares>>
  BY <1>1, <1>2, FlowIsNext
<1>7. QED
  BY <1>1, <1>5, <1>6, KFacts, BooksUntouched DEF KInv, KTypeOK

\* Registry steps and donations to a pool are dispatcher steps that leave the
\* adapter's accounts alone.
LEMMA SharedStep ==
  ASSUME KInv, Next, UNCHANGED kaminoVars,
         UNCHANGED <<position, total_shares>>
  PROVE  [Next]_vars /\ KTypeOK' /\ SharesBacked'
<1>1. Inv'
  BY NextInv DEF KInv
<1>2. QED
  BY <1>1, KFacts, BooksUntouched DEF kaminoVars, KInv, KTypeOK, ReserveOK

\* cTokens sent to a vault add to what backs its position.
LEMMA DonateCollateralStep ==
  ASSUME KInv, NEW res \in Reserves, NEW k \in DOMAIN position, NEW collateral \in Amount,
         DonateCollateral(k, res, collateral)
  PROVE  [Next]_vars /\ KTypeOK' /\ SharesBacked'
<1>1. /\ collateral \in 1..outside[res]
      /\ collateral_vault' = [collateral_vault EXCEPT ![k] = @ + collateral]
      /\ outside' = [outside EXCEPT ![res] = @ - collateral]
      /\ UNCHANGED <<vars, reserve, slot>>
  BY DEF DonateCollateral
<1>2. /\ collateral_vault' \in [DOMAIN position -> Nat]
      /\ outside' \in [Reserves -> Nat]
  BY <1>1, KFacts DEF KInv, KTypeOK
<1>3. Inv'
  BY <1>1, NextInv DEF KInv
<1>4. UNCHANGED <<position, total_shares>>
  BY <1>1 DEF vars, fundVars
<1>5. KTypeOK'
  BY <1>1, <1>2, <1>3, <1>4 DEF KInv, KTypeOK, Inv
<1>6. SharesBacked'
  <2>1. SUFFICES ASSUME NEW q \in DOMAIN position
                 PROVE  total_shares'[q] <= collateral_vault'[q]
    BY <1>4 DEF SharesBacked
  <2>2. total_shares[q] <= collateral_vault[q] /\ q \in DOMAIN collateral_vault
    BY DEF KInv, KTypeOK, SharesBacked
  <2>3. QED
    BY <1>1, <1>4, <2>2, KFacts
<1>7. QED
  BY <1>1, <1>5, <1>6

\* Time passes.
LEMMA TickStep ==
  ASSUME KInv, Tick
  PROVE  [Next]_vars /\ KTypeOK' /\ SharesBacked'
<1>1. /\ slot' = slot + 1 /\ slot < MaxSlot
      /\ UNCHANGED <<vars, collateral_vault, outside, reserve>>
  BY DEF Tick
<1>2. slot' \in 0..MaxSlot /\ slot' > slot
  BY <1>1, KFacts, KaminoAssumption
<1>3. ReserveOK'
  <2>1. SUFFICES ASSUME NEW res \in Reserves
                 PROVE  reserve[res].last_update_slot <= slot'
    BY <1>1 DEF ReserveOK, KInv, KTypeOK
  <2>2. /\ reserve[res].last_update_slot \in Int
        /\ reserve[res].last_update_slot <= slot /\ slot \in Int
    BY KFacts DEF Reserve, KInv, KTypeOK
  <2>3. QED
    BY <1>2, <2>2
<1>4. Inv'
  BY <1>1, NextInv DEF KInv
<1>5. UNCHANGED <<position, total_shares>>
  BY <1>1 DEF vars, fundVars
<1>6. QED
  BY <1>1, <1>2, <1>3, <1>4, <1>5, BooksUntouched DEF KInv, KTypeOK

\* Nothing exists at the start.
LEMMA KInitInv == KInit => KInv
<1> SUFFICES ASSUME KInit PROVE KInv
  OBVIOUS
<1>1. Inv
  BY InitInv DEF KInit
<1>2. DOMAIN position = {}
  BY DEF KInit, Init, NoAccounts
<1>3. collateral_vault \in [DOMAIN position -> Nat]
  BY DEF KInit, Init, NoAccounts
<1>4. /\ slot \in 0..MaxSlot /\ slot = 0
      /\ \A res \in Reserves : reserve[res].last_update_slot <= slot
      /\ outside \in [Reserves -> Nat]
      /\ reserve \in [Reserves -> Reserve]
  BY KaminoAssumption DEF KInit, Reserve
<1>5. QED
  BY <1>1, <1>2, <1>3, <1>4 DEF KInit, KInv, KTypeOK, Inv, SharesBacked

\* The steps of the adapter's owners.
LEMMA OwnerStepHolds ==
  ASSUME KInv, NEW res \in Reserves, OwnerStep(res)
  PROVE  [Next]_vars /\ KTypeOK' /\ SharesBacked'
<1>1. CASE \E owner \in Keys, amount \in Amount : KDeposit(owner, res, amount)
  BY <1>1, KDepositStep, KaminoAssumption DEF Next
<1>2. CASE \E owner \in Keys, shares \in Amount : KWithdraw(owner, res, shares)
  BY <1>2, KWithdrawStep, KaminoAssumption DEF Next
<1>3. CASE \E owner \in Keys : KCurrentValue(owner, res)
  BY <1>3, KCurrentValueStep
<1>4. QED
  BY <1>1, <1>2, <1>3 DEF OwnerStep

\* The steps of klend's other users.
LEMMA OthersStepHolds ==
  ASSUME KInv, NEW res \in Reserves, OthersStep(res)
  PROVE  [Next]_vars /\ KTypeOK' /\ SharesBacked'
  BY OtherDepositStep, OtherRedeemStep, BorrowStep, RepayStep, DonateCollateralStep
  DEF OthersStep

\* Every step of the adapter's specification is a dispatcher step or none, and
\* keeps the invariant.
LEMMA KNextStep == KInv /\ [KNext]_kvars => [Next]_vars /\ KInv'
<1> SUFFICES ASSUME KInv, [KNext]_kvars PROVE [Next]_vars /\ KInv'
  OBVIOUS
<1> SUFFICES [Next]_vars /\ KTypeOK' /\ SharesBacked'
  BY NextInv DEF KInv
<1>1. CASE RegistryNext /\ UNCHANGED <<fundVars, kaminoVars>>
  <2>1. Next
    BY <1>1 DEF Next, fundVars
  <2>2. QED
    BY <1>1, <2>1, SharedStep DEF fundVars
<1>2. CASE \E owner \in Keys, mint \in Mints, chosen \in Venues :
              KOpenPosition(owner, mint, chosen)
  BY <1>2, KOpenPositionStep, KaminoAssumption DEF Next
<1>3. CASE \E res \in Reserves : OwnerStep(res) \/ OthersStep(res)
  BY <1>3, OwnerStepHolds, OthersStepHolds
<1>4. CASE \E k \in DOMAIN position, amount \in Amount :
              DonateToPool(k, amount) /\ UNCHANGED kaminoVars
  <2>1. PICK k \in DOMAIN position, amount \in Amount :
               DonateToPool(k, amount) /\ UNCHANGED kaminoVars
    BY <1>4
  <2>2. k \in PositionKeys
    BY DEF KInv, Inv, TypeOK
  <2>3. Next
    BY <2>1, <2>2 DEF Next
  <2>4. QED
    BY <2>1, <2>3, SharedStep DEF DonateToPool
<1>5. CASE Tick
  BY <1>5, TickStep
<1>6. CASE UNCHANGED kvars
  <2>1. UNCHANGED vars /\ UNCHANGED kaminoVars /\ UNCHANGED <<position, total_shares>>
    BY <1>6 DEF kvars, vars, fundVars
  <2>2. Inv'
    BY <2>1, NextInv DEF KInv
  <2>3. QED
    BY <2>1, <2>2, KFacts, BooksUntouched DEF kaminoVars, KInv, KTypeOK, ReserveOK
<1>7. QED
  BY <1>1, <1>2, <1>3, <1>4, <1>5, <1>6 DEF KNext

\* The adapter's invariant holds in every reachable state.
THEOREM KInvariant == KSpec => []KInv
  BY KInitInv, KNextStep, PTL DEF KSpec

\* Booked shares never exceed the cTokens in the position's own vault, for any
\* number of owners, any interest rate and any behaviour of klend's other users.
THEOREM SharesAlwaysBacked == KSpec => []SharesBacked
<1>1. KInv => SharesBacked
  BY DEF KInv
<1>2. QED
  BY <1>1, KInvariant, PTL

\* The adapter's and the reserves' accounts keep their types.
THEOREM KTypeCorrect == KSpec => []KTypeOK
<1>1. KInv => KTypeOK
  BY DEF KInv
<1>2. QED
  BY <1>1, KInvariant, PTL

\* The kamino-usdc adapter behind the dispatcher implements the dispatcher over
\* an arbitrary adapter: what is proved of Dispatcher's Spec holds for it.
THEOREM KaminoImplementsDispatcher == KSpec => Spec
<1>1. KInit => Init
  BY DEF KInit
<1>2. KInv /\ [KNext]_kvars => [Next]_vars
  BY KNextStep
<1>3. QED
  BY <1>1, <1>2, KInvariant, PTL DEF KSpec, Spec

-----------------------------------------------------------------------------
(* The rate never falls *)

\* A refreshed reserve has nothing left to accrue in its slot.
LEMMA RefreshedRests ==
  ASSUME NEW debt \in Nat, NEW now \in Nat
  PROVE  debt + Interest(debt, now - now) = debt
<1>1. now - now = 0 /\ debt * 0 = 0
  OBVIOUS
<1>2. 0 \div RateDiv = 0
  BY KaminoAssumption
<1>3. Interest(debt, now - now) = 0
  BY <1>1, <1>2 DEF Interest
<1>4. QED
  BY <1>3

\* RateStep of one reserve.
Kept(res) ==
  reserve[res].supply > 0 /\ reserve'[res].supply > 0 =>
     LiquidityNow(res)' * reserve[res].supply >= LiquidityNow(res) * reserve'[res].supply

\* A reserve that is left alone in its slot keeps its rate.
LEMMA AloneKept ==
  ASSUME KInv, NEW res \in Reserves, reserve'[res] = reserve[res],
         protocol'[res] = protocol[res], slot' = slot
  PROVE  Kept(res)
<1>1. LiquidityNow(res)' = LiquidityNow(res)
  BY DEF LiquidityNow, LiquiditySf, RefreshedReserve
<1>2. LiquidityNow(res) \in Nat /\ reserve[res].supply \in Nat
  BY KFacts, LiquidityNat DEF LiquidityNow, Reserve
<1>3. LiquidityNow(res) * reserve[res].supply \in Nat
  BY <1>2, TimesNat
<1>4. QED
  BY <1>1, <1>3 DEF Kept

\* What an instruction that writes one reserve has to show of it.
LEMMA WrittenLiquidity ==
  ASSUME KInv, NEW res \in Reserves, NEW r \in Reserve, NEW available \in Nat,
         slot' = slot, r.last_update_slot = slot,
         reserve' = [reserve EXCEPT ![res] = r],
         protocol' = [protocol EXCEPT ![res] = available]
  PROVE  reserve'[res] = r /\ LiquidityNow(res)' = LiquiditySf(r, available)
<1>1. /\ reserve \in [Reserves -> Reserve] /\ protocol \in [Venues -> Nat]
      /\ res \in Venues /\ slot \in Nat
  BY KFacts, KaminoAssumption DEF KInv, KTypeOK, Inv, TypeOK
<1>2. reserve'[res] = r /\ protocol'[res] = available
  BY <1>1
<1>3. RefreshedReserve(res)' = [borrowed_sf |-> r.borrowed_sf, supply |-> r.supply,
                                last_update_slot |-> slot]
  <2>1. r.borrowed_sf + Interest(r.borrowed_sf, slot - slot) = r.borrowed_sf
    BY <1>1, RefreshedRests DEF Reserve
  <2>2. RefreshedReserve(res)' =
           [borrowed_sf |-> r.borrowed_sf + Interest(r.borrowed_sf, slot - slot),
            supply |-> r.supply, last_update_slot |-> slot]
    BY <1>2 DEF RefreshedReserve, Interest
  <2>3. QED
    BY <2>1, <2>2
<1>4. QED
  BY <1>2, <1>3 DEF LiquidityNow, LiquiditySf

\* When that is enough for its supply, no reserve's rate has fallen.
LEMMA WrittenKept ==
  ASSUME KInv, NEW res \in Reserves, NEW r \in Reserve, NEW available \in Nat,
         slot' = slot, r.last_update_slot = slot,
         reserve' = [reserve EXCEPT ![res] = r],
         protocol' = [protocol EXCEPT ![res] = available],
         reserve[res].supply > 0 /\ r.supply > 0 =>
            LiquiditySf(r, available) * reserve[res].supply >= LiquidityNow(res) * r.supply
  PROVE  RateStep
<1>1. /\ reserve \in [Reserves -> Reserve] /\ protocol \in [Venues -> Nat]
      /\ Reserves \subseteq Venues
  BY KaminoAssumption DEF KInv, KTypeOK, Inv, TypeOK
<1>2. Kept(res)
  BY WrittenLiquidity DEF Kept
<1>3. ASSUME NEW q \in Reserves, q # res PROVE Kept(q)
  BY <1>1, <1>3, AloneKept
<1>4. QED
  BY <1>2, <1>3 DEF RateStep, Kept

\* A mint adds to the reserve's supply and to its liquidity.
LEMMA MintLiquidity ==
  ASSUME KInv, NEW res \in Reserves, NEW minted \in Nat, NEW consumed \in Nat,
         slot' = slot,
         reserve' = [reserve EXCEPT ![res] =
                       [RefreshedReserve(res) EXCEPT !.supply = @ + minted]],
         protocol' = [protocol EXCEPT ![res] = @ + consumed]
  PROVE  /\ reserve'[res].supply = reserve[res].supply + minted
         /\ LiquidityNow(res)' = LiquidityNow(res) + consumed * SF
         /\ LiquidityNow(res) \in Nat /\ reserve[res].supply \in Nat
         /\ \A q \in Reserves \ {res} : Kept(q)
<1> DEFINE r == [RefreshedReserve(res) EXCEPT !.supply = @ + minted]
           l == LiquidityNow(res)
           paid == consumed * SF
<1>1. /\ RefreshedReserve(res) \in Reserve
      /\ RefreshedReserve(res).supply = reserve[res].supply
      /\ RefreshedReserve(res).last_update_slot = slot
      /\ reserve[res].supply \in Nat /\ protocol[res] \in Nat
  BY KFacts DEF Reserve
<1>2. /\ r \in Reserve /\ r.supply = reserve[res].supply + minted
      /\ r.last_update_slot = slot /\ r.borrowed_sf = RefreshedReserve(res).borrowed_sf
  BY <1>1 DEF Reserve
<1>3. l \in Nat /\ paid \in Nat /\ protocol[res] + consumed \in Nat
  BY <1>1, LiquidityNat, TimesNat, KaminoAssumption DEF LiquidityNow
<1>4. LiquiditySf(r, protocol[res] + consumed) = l + paid
  <2>1. (protocol[res] + consumed) * SF = protocol[res] * SF + paid
    BY <1>1, KaminoAssumption
  <2>2. /\ l = protocol[res] * SF + RefreshedReserve(res).borrowed_sf
        /\ LiquiditySf(r, protocol[res] + consumed)
             = (protocol[res] + consumed) * SF + RefreshedReserve(res).borrowed_sf
    BY <1>2 DEF LiquidityNow, LiquiditySf
  <2>3. protocol[res] * SF \in Nat /\ RefreshedReserve(res).borrowed_sf \in Nat
    BY <1>1, TimesNat, KaminoAssumption DEF Reserve
  <2>4. QED
    BY <1>3, <2>1, <2>2, <2>3
<1> HIDE DEF r
<1>5. reserve'[res] = r /\ LiquidityNow(res)' = LiquiditySf(r, protocol[res] + consumed)
  BY <1>2, <1>3, WrittenLiquidity DEF r
<1>6. \A q \in Reserves \ {res} : Kept(q)
  <2>1. /\ reserve \in [Reserves -> Reserve] /\ protocol \in [Venues -> Nat]
        /\ Reserves \subseteq Venues
    BY KaminoAssumption DEF KInv, KTypeOK, Inv, TypeOK
  <2>2. QED
    BY <2>1, AloneKept
<1>7. QED
  BY <1>1, <1>2, <1>3, <1>4, <1>5, <1>6

\* A mint that consumes its worth keeps the rate, whoever is the depositor.
LEMMA MintKept ==
  ASSUME KInv, NEW res \in Reserves, NEW minted \in Nat, NEW consumed \in Nat,
         slot' = slot,
         reserve' = [reserve EXCEPT ![res] =
                       [RefreshedReserve(res) EXCEPT !.supply = @ + minted]],
         protocol' = [protocol EXCEPT ![res] = @ + consumed],
         reserve[res].supply > 0 =>
            consumed * SF * reserve[res].supply >= minted * LiquidityNow(res)
  PROVE  RateStep
<1> DEFINE s == reserve[res].supply
           l == LiquidityNow(res)
           paid == consumed * SF
<1>1. /\ reserve'[res].supply = s + minted
      /\ LiquidityNow(res)' = l + paid
      /\ l \in Nat /\ s \in Nat
      /\ \A q \in Reserves \ {res} : Kept(q)
  BY MintLiquidity
<1>2. paid \in Nat
  BY TimesNat, KaminoAssumption
<1> HIDE DEF s, l, paid
<1>3. s > 0 => (l + paid) * s >= l * (s + minted)
  BY <1>1, <1>2, MintKeepsRate DEF s, l, paid
<1>4. Kept(res)
  BY <1>1, <1>3 DEF Kept, s, l
<1>5. QED
  BY <1>1, <1>4 DEF RateStep, Kept

\* A redemption takes from the reserve's supply and from its liquidity.
LEMMA BurnLiquidity ==
  ASSUME KInv, NEW res \in Reserves, NEW burned \in Nat, NEW paid \in Nat,
         slot' = slot, burned <= reserve[res].supply, paid <= protocol[res],
         reserve' = [reserve EXCEPT ![res] =
                       [RefreshedReserve(res) EXCEPT !.supply = @ - burned]],
         protocol' = [protocol EXCEPT ![res] = @ - paid]
  PROVE  /\ reserve'[res].supply = reserve[res].supply - burned
         /\ LiquidityNow(res)' = LiquidityNow(res) - paid * SF
         /\ LiquidityNow(res) \in Nat /\ reserve[res].supply \in Nat
         /\ \A q \in Reserves \ {res} : Kept(q)
<1> DEFINE r == [RefreshedReserve(res) EXCEPT !.supply = @ - burned]
           l == LiquidityNow(res)
<1>1. /\ RefreshedReserve(res) \in Reserve
      /\ RefreshedReserve(res).supply = reserve[res].supply
      /\ RefreshedReserve(res).last_update_slot = slot
      /\ reserve[res].supply \in Nat /\ protocol[res] \in Nat
  BY KFacts DEF Reserve
<1>2. /\ r \in Reserve /\ r.supply = reserve[res].supply - burned
      /\ r.last_update_slot = slot /\ r.borrowed_sf = RefreshedReserve(res).borrowed_sf
  BY <1>1 DEF Reserve
<1>3. l \in Nat /\ paid * SF \in Nat /\ protocol[res] - paid \in Nat
  BY <1>1, LiquidityNat, TimesNat, KaminoAssumption DEF LiquidityNow
<1>4. LiquiditySf(r, protocol[res] - paid) = l - paid * SF
  <2>1. (protocol[res] - paid) * SF = protocol[res] * SF - paid * SF
    BY <1>1, KaminoAssumption
  <2>2. /\ l = protocol[res] * SF + RefreshedReserve(res).borrowed_sf
        /\ LiquiditySf(r, protocol[res] - paid)
             = (protocol[res] - paid) * SF + RefreshedReserve(res).borrowed_sf
    BY <1>2 DEF LiquidityNow, LiquiditySf
  <2>3. protocol[res] * SF \in Nat /\ RefreshedReserve(res).borrowed_sf \in Nat
    BY <1>1, TimesNat, KaminoAssumption DEF Reserve
  <2>4. QED
    BY <1>3, <2>1, <2>2, <2>3
<1> HIDE DEF r
<1>5. reserve'[res] = r /\ LiquidityNow(res)' = LiquiditySf(r, protocol[res] - paid)
  BY <1>2, <1>3, WrittenLiquidity DEF r
<1>6. \A q \in Reserves \ {res} : Kept(q)
  <2>1. /\ reserve \in [Reserves -> Reserve] /\ protocol \in [Venues -> Nat]
        /\ Reserves \subseteq Venues
    BY KaminoAssumption DEF KInv, KTypeOK, Inv, TypeOK
  <2>2. QED
    BY <2>1, AloneKept
<1>7. QED
  BY <1>1, <1>2, <1>3, <1>4, <1>5, <1>6

\* What a redemption pays is worth no more than what it burns, and less than one
\* unit short of it.
LEMMA PaidWorth ==
  ASSUME KInv, NEW res \in Reserves, NEW burned \in Nat, reserve[res].supply > 0,
         NEW paid, paid = LiquidityFor(burned, RefreshedReserve(res), protocol[res])
  PROVE  /\ paid \in Nat
         /\ paid * SF * reserve[res].supply <= burned * LiquidityNow(res)
         /\ burned * LiquidityNow(res) < (paid + 1) * SF * reserve[res].supply
<1> DEFINE s == reserve[res].supply
           l == LiquidityNow(res)
<1>1. s \in Nat \ {0} /\ RefreshedReserve(res).supply = s
  BY KFacts DEF Reserve
<1>2. l \in Nat
  BY KFacts, LiquidityNat DEF LiquidityNow
<1>3. burned * l \in Nat /\ s * SF \in Nat \ {0}
  BY <1>1, <1>2, TimesNat, TimesPos, KaminoAssumption
<1>4. paid = (burned * l) \div (s * SF)
  BY <1>1 DEF LiquidityFor, LiquidityNow
<1>5. paid \in Nat /\ paid * (s * SF) <= burned * l
      /\ burned * l < paid * (s * SF) + s * SF
  BY <1>3, <1>4, QuotientBounds
<1> HIDE DEF s, l
<1>6. paid * SF * s = paid * (s * SF) /\ (paid + 1) * SF * s = paid * (s * SF) + s * SF
  BY <1>1, <1>5, KaminoAssumption
<1>7. QED
  BY <1>5, <1>6 DEF s, l

\* A redemption that pays no more than the worth of what it burns keeps the rate.
LEMMA BurnKept ==
  ASSUME KInv, NEW res \in Reserves, NEW burned \in Nat, NEW available \in Nat,
         NEW paid \in Nat, slot' = slot,
         burned <= reserve[res].supply, reserve[res].supply > 0,
         paid = LiquidityFor(burned, RefreshedReserve(res), protocol[res]),
         paid <= protocol[res],
         reserve' = [reserve EXCEPT ![res] =
                       [RefreshedReserve(res) EXCEPT !.supply = @ - burned]],
         protocol' = [protocol EXCEPT ![res] = @ - paid]
  PROVE  RateStep
<1> DEFINE s == reserve[res].supply
           l == LiquidityNow(res)
<1>1. /\ reserve'[res].supply = s - burned
      /\ LiquidityNow(res)' = l - paid * SF
      /\ l \in Nat /\ s \in Nat
      /\ \A q \in Reserves \ {res} : Kept(q)
  BY BurnLiquidity
<1>2. paid * SF * s <= burned * l
  BY PaidWorth
<1>3. paid * SF \in Nat
  BY TimesNat, KaminoAssumption
<1> HIDE DEF s, l
<1>4. (l - paid * SF) * s >= l * (s - burned)
  BY <1>1, <1>2, <1>3, BurnKeepsRate
<1>5. Kept(res)
  BY <1>1, <1>4 DEF Kept, s, l
<1>6. QED
  BY <1>1, <1>5 DEF RateStep, Kept

\* What a mint of klend's is worth: a quotient for a reserve in use.
LEMMA MintWorth ==
  ASSUME KInv, NEW res \in Reserves, NEW amount \in Nat, NEW consumed \in Nat,
         NEW minted, minted = CollateralFor(amount, RefreshedReserve(res), protocol[res]),
         consumed \in MayConsume(amount, minted, RefreshedReserve(res), protocol[res])
           \/ consumed = amount,
         reserve[res].supply > 0
  PROVE  consumed * SF * reserve[res].supply >= minted * LiquidityNow(res)
<1> DEFINE s == reserve[res].supply
           l == LiquidityNow(res)
<1>1. /\ RefreshedReserve(res) \in Reserve /\ RefreshedReserve(res).supply = s
      /\ s \in Nat \ {0} /\ protocol[res] \in Nat
      /\ l = LiquiditySf(RefreshedReserve(res), protocol[res])
  BY KFacts DEF Reserve, LiquidityNow
<1>2. l \in Nat
  BY <1>1, LiquidityNat
<1> HIDE DEF s, l
<1>3. consumed * SF \in Nat /\ amount * SF \in Nat
  BY TimesNat, KaminoAssumption
<1>4. consumed * SF * s \in Nat /\ amount * SF * s \in Nat
  BY <1>1, <1>3, TimesNat
<1>5. CASE l = 0
  <2>1. minted = amount
    BY <1>1, <1>5 DEF CollateralFor
  <2>2. minted * l = 0
    BY <1>5, <2>1
  <2>3. QED
    BY <1>4, <2>2 DEF s, l
<1>6. CASE l # 0 /\ consumed \in MayConsume(amount, minted, RefreshedReserve(res), protocol[res])
  BY <1>1, <1>6 DEF MayConsume, s, l
<1>7. CASE l # 0 /\ consumed = amount
  <2>1. minted = (amount * SF * s) \div l
    BY <1>1, <1>7 DEF CollateralFor
  <2>2. minted * l <= amount * SF * s
    BY <1>2, <1>4, <1>7, <2>1, QuotientBounds
  <2>3. minted \in Nat
    BY <1>2, <1>4, <1>7, <2>1, DivNat
  <2>4. minted * l \in Nat
    BY <1>2, <2>3, TimesNat
  <2>5. amount * SF * s >= minted * l
    BY <1>4, <2>2, <2>4
  <2>6. QED
    BY <1>7, <2>5, Zenon DEF s, l
<1>8. QED
  BY <1>5, <1>6, <1>7

\* An owner's instructions keep the rate ...
LEMMA KDepositKeepsRate ==
  ASSUME KInv, NEW owner \in Keys, NEW res \in Reserves, NEW amount \in Amount,
         KDeposit(owner, res, amount)
  PROVE  RateStep
<1> DEFINE k == <<owner, Kamino>>
           minted == CollateralFor(amount, RefreshedReserve(res), protocol[res])
           booked == Measured(collateral_vault[k], collateral_vault[k] + minted)
<1>1. /\ Bound(owner, res)
      /\ reserve' = [reserve EXCEPT ![res] =
                       [RefreshedReserve(res) EXCEPT !.supply = @ + minted]]
      /\ slot' = slot
  BY DEF KDeposit, AdapterRefresh
<1>2. PICK consumed \in MayConsume(amount, minted, RefreshedReserve(res), protocol[res]) :
         DepositEffect(owner, Kamino, amount, consumed, booked)
  BY DEF KDeposit, AdapterRefresh
<1>3. protocol' = [protocol EXCEPT ![res] = @ + consumed]
  BY <1>1, <1>2 DEF Bound, DepositEffect
<1>4. amount \in Nat
  BY DispatcherAssumption DEF Amount
<1>5. minted \in Nat
  BY <1>4, KFacts, CollateralNat
<1>6. consumed \in Nat
  BY <1>2, <1>4 DEF MayConsume
<1>7. reserve[res].supply > 0 =>
         consumed * SF * reserve[res].supply >= minted * LiquidityNow(res)
  BY <1>2, <1>4, <1>6, MintWorth
<1> HIDE DEF minted, booked
<1>8. QED
  BY <1>1, <1>3, <1>5, <1>6, <1>7, MintKept

\* A withdrawal redeems at the refreshed rate, rounded down, and keeps the rate ...
LEMMA KWithdrawKeepsRate ==
  ASSUME KInv, NEW owner \in Keys, NEW res \in Reserves, NEW shares \in Amount,
         KWithdraw(owner, res, shares)
  PROVE  RateStep
<1> DEFINE k == <<owner, Kamino>>
           redeemed == LiquidityFor(shares, RefreshedReserve(res), protocol[res])
           amount_out == Measured(pool[k], pool[k] + redeemed)
<1>1. /\ shares > 0 /\ Bound(owner, res)
      /\ shares <= RefreshedReserve(res).supply
      /\ redeemed <= protocol[res]
      /\ WithdrawEffect(owner, Kamino, shares, redeemed, amount_out)
      /\ reserve' = [reserve EXCEPT ![res] =
                       [RefreshedReserve(res) EXCEPT !.supply = @ - shares]]
      /\ slot' = slot
  BY DEF KWithdraw, KMayWithdraw, AdapterRefresh
<1>2. protocol' = [protocol EXCEPT ![res] = @ - redeemed]
  BY <1>1 DEF Bound, WithdrawEffect
<1>3. shares \in Nat
  BY DispatcherAssumption DEF Amount
<1>4. shares <= reserve[res].supply /\ reserve[res].supply > 0
  BY <1>1, <1>3, KFacts DEF Reserve
<1>5. RefreshedReserve(res).supply > 0
  BY <1>4, KFacts
<1>6. redeemed \in Nat
  BY <1>3, <1>5, KFacts, PaidNat
<1>7. protocol[res] - redeemed \in Nat
  BY <1>1, <1>6, KFacts
<1> HIDE DEF redeemed, amount_out
<1>8. redeemed = LiquidityFor(shares, RefreshedReserve(res), protocol[res])
  BY DEF redeemed
<1>9. QED
  BY <1>1, <1>2, <1>3, <1>4, <1>6, <1>7, <1>8, BurnKept

\* ... a value read refreshes the reserve, which only adds interest ...
LEMMA KCurrentValueKeepsRate ==
  ASSUME KInv, NEW owner \in Keys, NEW res \in Reserves, KCurrentValue(owner, res)
  PROVE  RateStep
<1>1. /\ reserve' = [reserve EXCEPT ![res] = RefreshedReserve(res)]
      /\ slot' = slot /\ protocol' = protocol
  BY DEF KCurrentValue, AdapterRefresh, vars, fundVars
<1>2. protocol' = [protocol EXCEPT ![res] = protocol[res]]
  BY <1>1 DEF KInv, Inv, TypeOK
<1>3. LiquidityNow(res) * reserve[res].supply \in Nat
  BY KFacts, LiquidityNat, TimesNat DEF LiquidityNow, Reserve
<1>4. LiquiditySf(RefreshedReserve(res), protocol[res]) * reserve[res].supply
        >= LiquidityNow(res) * RefreshedReserve(res).supply
  BY <1>3, KFacts DEF LiquidityNow
<1>5. QED
  BY <1>1, <1>2, <1>4, KFacts, WrittenKept

\* ... and so do klend's other users.
LEMMA OtherDepositKeepsRate ==
  ASSUME KInv, NEW res \in Reserves, NEW amount \in Amount, OtherDeposit(res, amount)
  PROVE  RateStep
<1> DEFINE minted == CollateralFor(amount, RefreshedReserve(res), protocol[res])
<1>1. /\ reserve' = [reserve EXCEPT ![res] =
                       [RefreshedReserve(res) EXCEPT !.supply = @ + minted]]
      /\ protocol' = [protocol EXCEPT ![res] = @ + amount]
      /\ slot' = slot
  BY DEF OtherDeposit, ProtocolInflow
<1>2. amount \in Nat
  BY DispatcherAssumption DEF Amount
<1>3. minted \in Nat
  BY <1>2, KFacts, CollateralNat
<1>4. reserve[res].supply > 0 =>
         amount * SF * reserve[res].supply >= minted * LiquidityNow(res)
  BY <1>2, MintWorth
<1> HIDE DEF minted
<1>5. QED
  BY <1>1, <1>2, <1>3, <1>4, MintKept

\* ... others' redemptions are rounded down as the adapter's are ...
LEMMA OtherRedeemKeepsRate ==
  ASSUME KInv, NEW res \in Reserves, NEW collateral \in Amount,
         OtherRedeem(res, collateral)
  PROVE  RateStep
<1> DEFINE paid == LiquidityFor(collateral, RefreshedReserve(res), protocol[res])
<1>1. /\ collateral > 0 /\ collateral <= RefreshedReserve(res).supply
      /\ paid <= protocol[res]
      /\ protocol' = [protocol EXCEPT ![res] = @ - paid]
      /\ reserve' = [reserve EXCEPT ![res] =
                       [RefreshedReserve(res) EXCEPT !.supply = @ - collateral]]
      /\ slot' = slot
  BY DEF OtherRedeem, ProtocolOutflow
<1>2. collateral \in Nat
  BY DispatcherAssumption DEF Amount
<1>3. collateral <= reserve[res].supply /\ reserve[res].supply > 0
  BY <1>1, <1>2, KFacts DEF Reserve
<1>4. RefreshedReserve(res).supply > 0
  BY <1>3, KFacts
<1>5. paid \in Nat
  BY <1>2, <1>4, KFacts, PaidNat
<1>6. protocol[res] - paid \in Nat
  BY <1>1, <1>5, KFacts
<1> HIDE DEF paid
<1>7. paid = LiquidityFor(collateral, RefreshedReserve(res), protocol[res])
  BY DEF paid
<1>8. QED
  BY <1>1, <1>2, <1>3, <1>5, <1>6, <1>7, BurnKept

\* A loan, or its repayment, moves liquidity between the two places it can be in.
LEMMA LoanKept ==
  ASSUME KInv, NEW res \in Reserves, NEW available \in Nat, NEW debt \in Nat,
         slot' = slot,
         available * SF + debt = LiquidityNow(res),
         protocol' = [protocol EXCEPT ![res] = available],
         reserve' = [reserve EXCEPT ![res] =
                       [RefreshedReserve(res) EXCEPT !.borrowed_sf = debt]]
  PROVE  RateStep
<1> DEFINE r == [RefreshedReserve(res) EXCEPT !.borrowed_sf = debt]
<1>1. /\ r \in Reserve /\ r.supply = reserve[res].supply
      /\ r.last_update_slot = slot /\ r.borrowed_sf = debt
  BY KFacts DEF Reserve
<1>2. LiquiditySf(r, available) = LiquidityNow(res)
  BY <1>1 DEF LiquiditySf
<1>3. LiquidityNow(res) * reserve[res].supply \in Nat
  BY KFacts, LiquidityNat, TimesNat DEF LiquidityNow, Reserve
<1> HIDE DEF r
<1>4. LiquiditySf(r, available) * reserve[res].supply >= LiquidityNow(res) * r.supply
  BY <1>1, <1>2, <1>3
<1>5. reserve' = [reserve EXCEPT ![res] = r]
  BY DEF r
<1>6. QED
  BY <1>1, <1>4, <1>5, WrittenKept

\* ... and a loan moves liquidity to what is owed, of the same total ...
LEMMA BorrowKeepsRate ==
  ASSUME KInv, NEW res \in Reserves, NEW amount \in Amount, Borrow(res, amount)
  PROVE  RateStep
<1> DEFINE a == protocol[res] - amount
           d == RefreshedReserve(res).borrowed_sf + amount * SF
<1>1. /\ amount <= protocol[res]
      /\ protocol' = [protocol EXCEPT ![res] = a]
      /\ reserve' = [reserve EXCEPT ![res] =
                       [RefreshedReserve(res) EXCEPT !.borrowed_sf = d]]
      /\ slot' = slot
  BY DEF Borrow, ProtocolOutflow
<1>2. /\ amount \in Nat /\ protocol[res] \in Nat /\ SF \in Nat
      /\ RefreshedReserve(res).borrowed_sf \in Nat
  BY DispatcherAssumption, KaminoAssumption, KFacts DEF Amount, Reserve
<1>3. amount * SF \in Nat /\ protocol[res] * SF \in Nat
  BY <1>2, TimesNat
<1>4. a \in Nat /\ d \in Nat
  BY <1>1, <1>2, <1>3
<1>5. a * SF = protocol[res] * SF - amount * SF
  BY <1>2
<1>6. a * SF + d = LiquidityNow(res)
  BY <1>2, <1>3, <1>5 DEF LiquidityNow, LiquiditySf
<1> HIDE DEF a, d
<1>7. QED
  BY <1>1, <1>4, <1>6, LoanKept

\* ... as a repayment moves it back.
LEMMA RepayKeepsRate ==
  ASSUME KInv, NEW res \in Reserves, NEW amount \in Amount, Repay(res, amount)
  PROVE  RateStep
<1> DEFINE a == protocol[res] + amount
           d == RefreshedReserve(res).borrowed_sf - amount * SF
<1>1. /\ amount * SF <= RefreshedReserve(res).borrowed_sf
      /\ protocol' = [protocol EXCEPT ![res] = a]
      /\ reserve' = [reserve EXCEPT ![res] =
                       [RefreshedReserve(res) EXCEPT !.borrowed_sf = d]]
      /\ slot' = slot
  BY DEF Repay, ProtocolInflow
<1>2. /\ amount \in Nat /\ protocol[res] \in Nat /\ SF \in Nat
      /\ RefreshedReserve(res).borrowed_sf \in Nat
  BY DispatcherAssumption, KaminoAssumption, KFacts DEF Amount, Reserve
<1>3. amount * SF \in Nat /\ protocol[res] * SF \in Nat
  BY <1>2, TimesNat
<1>4. a \in Nat /\ d \in Nat
  BY <1>1, <1>2, <1>3
<1>5. a * SF = protocol[res] * SF + amount * SF
  BY <1>2
<1>6. a * SF + d = LiquidityNow(res)
  BY <1>2, <1>3, <1>5 DEF LiquidityNow, LiquiditySf
<1> HIDE DEF a, d
<1>7. QED
  BY <1>1, <1>4, <1>6, LoanKept

\* Later in time no less interest has accrued.
LEMMA InterestGrows ==
  ASSUME NEW debt \in Nat, NEW slots \in Nat
  PROVE  Interest(debt, slots + 1) >= Interest(debt, slots)
<1>1. debt * slots \in Nat /\ debt * (slots + 1) = debt * slots + debt
  BY TimesNat
<1>2. ASSUME NEW x \in Nat, NEW y \in Nat, NEW b \in Nat \ {0}
      PROVE  (x + y) \div b >= x \div b
  OBVIOUS
<1>3. (debt * slots + debt) \div RateDiv >= (debt * slots) \div RateDiv
  BY <1>1, <1>2, KaminoAssumption
<1>4. QED
  BY <1>1, <1>3, Zenon DEF Interest

\* Time adds interest.
LEMMA TickKeepsRate ==
  ASSUME KInv, Tick
  PROVE  RateStep
<1> SUFFICES ASSUME NEW res \in Reserves
             PROVE  LiquidityNow(res)' * reserve[res].supply
                      >= LiquidityNow(res) * reserve'[res].supply
  BY DEF RateStep
<1> DEFINE r == reserve[res]
           slots == slot - r.last_update_slot
<1>1. /\ slot' = slot + 1 /\ reserve' = reserve /\ protocol' = protocol
  BY DEF Tick, vars, fundVars
<1>2. /\ slot \in Nat /\ r.last_update_slot \in Nat /\ r.last_update_slot <= slot
      /\ r.borrowed_sf \in Nat /\ r.supply \in Nat
      /\ protocol[res] \in Nat
  BY KFacts DEF KInv, KTypeOK, Reserve
<1>3. slots \in Nat /\ (slot + 1) - r.last_update_slot = slots + 1
  BY <1>2
<1>4. /\ Interest(r.borrowed_sf, slots) \in Nat
      /\ Interest(r.borrowed_sf, slots + 1) \in Nat
  <2>1. ASSUME NEW n \in Nat PROVE Interest(r.borrowed_sf, n) \in Nat
    <3>1. r.borrowed_sf * n \in Nat
      BY <1>2, TimesNat
    <3>2. QED
      BY <3>1, DivNat, KaminoAssumption DEF Interest
  <2>2. QED
    BY <1>3, <2>1
<1>5. Interest(r.borrowed_sf, slots + 1) >= Interest(r.borrowed_sf, slots)
  BY <1>2, <1>3, InterestGrows
<1>6. protocol[res] * SF \in Nat
  BY <1>2, TimesNat, KaminoAssumption
<1>7. LiquidityNow(res) = protocol[res] * SF + (r.borrowed_sf + Interest(r.borrowed_sf, slots))
  BY DEF LiquidityNow, LiquiditySf, RefreshedReserve
<1>8. LiquidityNow(res)' = protocol[res] * SF + (r.borrowed_sf + Interest(r.borrowed_sf, slots + 1))
  <2>1. RefreshedReserve(res)' =
          [borrowed_sf |-> r.borrowed_sf
                             + Interest(r.borrowed_sf, (slot + 1) - r.last_update_slot),
           supply |-> r.supply, last_update_slot |-> slot + 1]
    BY <1>1 DEF RefreshedReserve, Interest
  <2>2. RefreshedReserve(res)'.borrowed_sf
          = r.borrowed_sf + Interest(r.borrowed_sf, (slot + 1) - r.last_update_slot)
    BY <2>1
  <2>3. LiquidityNow(res)' = protocol[res] * SF + RefreshedReserve(res)'.borrowed_sf
    BY <1>1 DEF LiquidityNow, LiquiditySf
  <2>4. QED
    BY <1>3, <2>2, <2>3, Zenon
<1> HIDE DEF slots
<1>9. /\ LiquidityNow(res) \in Nat /\ LiquidityNow(res)' \in Nat
      /\ LiquidityNow(res)' >= LiquidityNow(res)
  BY <1>2, <1>4, <1>5, <1>6, <1>7, <1>8
<1>10. ASSUME NEW x \in Nat, NEW y \in Nat, NEW s \in Nat, x >= y
       PROVE  x * s >= y * s
  BY <1>10
<1>11. LiquidityNow(res)' * r.supply >= LiquidityNow(res) * r.supply
  BY <1>2, <1>9, <1>10
<1>12. QED
  BY <1>1, <1>11, Zenon DEF r

\* Steps that touch no reserve and no venue.
LEMMA IdleKeepsRate ==
  ASSUME KInv, UNCHANGED <<reserve, protocol, slot>>
  PROVE  RateStep
  BY AloneKept DEF RateStep, Kept

\* No step of anybody lets a reserve's rate fall.
LEMMA KNextKeepsRate == KInv /\ [KNext]_kvars => RateStep
<1> SUFFICES ASSUME KInv, [KNext]_kvars PROVE RateStep
  OBVIOUS
<1>1. CASE RegistryNext /\ UNCHANGED <<fundVars, kaminoVars>>
  BY <1>1, IdleKeepsRate DEF fundVars, kaminoVars
<1>2. CASE \E owner \in Keys, mint \in Mints, chosen \in Venues :
              KOpenPosition(owner, mint, chosen)
  BY <1>2, IdleKeepsRate DEF KOpenPosition, OpenPosition
<1>3. CASE \E res \in Reserves : OwnerStep(res)
  <2>1. PICK res \in Reserves : OwnerStep(res)
    BY <1>3
  <2>2. CASE \E owner \in Keys, amount \in Amount : KDeposit(owner, res, amount)
    BY <2>2, KDepositKeepsRate
  <2>3. CASE \E owner \in Keys, shares \in Amount : KWithdraw(owner, res, shares)
    BY <2>3, KWithdrawKeepsRate
  <2>4. CASE \E owner \in Keys : KCurrentValue(owner, res)
    BY <2>4, KCurrentValueKeepsRate
  <2>5. QED
    BY <2>1, <2>2, <2>3, <2>4 DEF OwnerStep
<1>4. CASE \E res \in Reserves : OthersStep(res)
  <2>1. PICK res \in Reserves, amount \in Amount :
               \/ OtherDeposit(res, amount) \/ OtherRedeem(res, amount)
               \/ Borrow(res, amount) \/ Repay(res, amount)
               \/ \E k \in DOMAIN position : DonateCollateral(k, res, amount)
    BY <1>4 DEF OthersStep
  <2>2. CASE \E k \in DOMAIN position : DonateCollateral(k, res, amount)
    BY <2>2, IdleKeepsRate DEF DonateCollateral, vars, fundVars
  <2>3. QED
    BY <2>1, <2>2, OtherDepositKeepsRate, OtherRedeemKeepsRate, BorrowKeepsRate,
       RepayKeepsRate
<1>5. CASE \E k \in DOMAIN position, amount \in Amount :
              DonateToPool(k, amount) /\ UNCHANGED kaminoVars
  BY <1>5, IdleKeepsRate DEF DonateToPool, kaminoVars
<1>6. CASE Tick
  BY <1>6, TickKeepsRate
<1>7. CASE UNCHANGED kvars
  BY <1>7, IdleKeepsRate DEF kvars, vars, fundVars, kaminoVars
<1>8. QED
  BY <1>1, <1>2, <1>3, <1>4, <1>5, <1>6, <1>7 DEF KNext

\* The liquidity behind a cToken never falls, for any interest rate, scale and
\* reserve, whatever the owners of positions and klend's other users do: no user
\* of the adapter takes from the value of another's position.
THEOREM RateAlwaysHolds == KSpec => RateNeverFalls
<1>1. KInv /\ [KNext]_kvars => [RateStep]_kvars
  BY KNextKeepsRate
<1>2. QED
  BY <1>1, KInvariant, PTL DEF KSpec, RateNeverFalls

-----------------------------------------------------------------------------
(* Custody *)

KCustodyStep == [Custody!Next]_(Custody!vars)

\* Steps that leave books and vaults alone.
LEMMA IdleKeepsCustody ==
  ASSUME UNCHANGED <<total_shares, collateral_vault>>
  PROVE  KCustodyStep
  BY DEF KCustodyStep, Custody!vars

\* What the invariant says of positions, books and vaults.
LEMMA KKeys ==
  ASSUME KInv
  PROVE  /\ DOMAIN total_shares = DOMAIN position
         /\ DOMAIN collateral_vault = DOMAIN position
         /\ DOMAIN position \subseteq PositionKeys
         /\ MaxU64 \in Nat
  BY DispatcherAssumption DEF KInv, KTypeOK, Inv, TypeOK

\* deposit: the cTokens klend minted are the ones booked.
LEMMA KDepositKeepsCustody ==
  ASSUME KInv, NEW owner \in Keys, NEW res \in Reserves, NEW amount \in Amount,
         KDeposit(owner, res, amount)
  PROVE  KCustodyStep
<1> DEFINE k == <<owner, Kamino>>
           minted == CollateralFor(amount, RefreshedReserve(res), protocol[res])
           booked == Measured(collateral_vault[k], collateral_vault[k] + minted)
<1>1. /\ Bound(owner, res)
      /\ collateral_vault[k] + minted <= MaxU64
      /\ collateral_vault' = [collateral_vault EXCEPT ![k] = @ + minted]
  BY DEF KDeposit, AdapterRefresh
<1>2. total_shares' = [total_shares EXCEPT ![k] = @ + booked]
  BY DEF KDeposit, AdapterRefresh, DepositEffect
<1>3. k \in DOMAIN position
  BY <1>1 DEF Bound, Movable
<1>4. minted \in Nat
  <2>1. amount \in Nat
    BY DispatcherAssumption DEF Amount
  <2>2. QED
    BY <2>1, KFacts, CollateralNat
<1> HIDE DEF minted
<1>5. booked = minted
  BY <1>3, <1>4, KFacts DEF Measured
<1> HIDE DEF booked, k
<1>6. minted \in Amount /\ collateral_vault[k] + minted \in Amount
  BY <1>1, <1>3, <1>4, KFacts, KKeys DEF Amount
<1>7. Custody!Mint(k, minted)
  BY <1>1, <1>2, <1>3, <1>5, <1>6, KKeys DEF Custody!Mint
<1>8. QED
  BY <1>3, <1>6, <1>7, KKeys DEF KCustodyStep, Custody!Next

\* withdraw: the cTokens redeemed are booked ones.
LEMMA KWithdrawKeepsCustody ==
  ASSUME KInv, NEW owner \in Keys, NEW res \in Reserves, NEW shares \in Amount,
         KWithdraw(owner, res, shares)
  PROVE  KCustodyStep
<1> DEFINE k == <<owner, Kamino>>
<1>1. /\ Bound(owner, res)
      /\ shares <= total_shares[k]
      /\ collateral_vault' = [collateral_vault EXCEPT ![k] = @ - shares]
      /\ total_shares' = [total_shares EXCEPT ![k] = @ - shares]
  BY DEF KWithdraw, KMayWithdraw, SharesBooked, WithdrawEffect
<1>2. k \in DOMAIN position /\ shares \in Nat
  BY <1>1, DispatcherAssumption DEF Bound, Movable, Amount
<1> HIDE DEF k
<1>3. Custody!Burn(k, shares, shares)
  BY <1>1, <1>2, KKeys DEF Custody!Burn
<1>4. shares \in 0..shares
  BY <1>2
<1>5. QED
  BY <1>2, <1>3, <1>4, KKeys DEF KCustodyStep, Custody!Next

\* open_position: both accounts begin empty.
LEMMA KOpenPositionKeepsCustody ==
  ASSUME KInv, NEW owner \in Keys, NEW mint \in Mints, NEW chosen \in Venues,
         KOpenPosition(owner, mint, chosen)
  PROVE  KCustodyStep
<1> DEFINE k == <<owner, Kamino>>
<1>1. /\ k \notin DOMAIN position
      /\ total_shares' = Create(total_shares, k, 0)
      /\ collateral_vault' = Create(collateral_vault, k, 0)
  BY DEF KOpenPosition, OpenPosition
<1>2. k \in PositionKeys
  BY KaminoAssumption DEF PositionKeys
<1> HIDE DEF k
<1>3. Custody!Open(k)
  BY <1>1, KKeys DEF Custody!Open, Custody!Opened, Create
<1>4. QED
  BY <1>2, <1>3 DEF KCustodyStep, Custody!Next

\* cTokens sent to a vault are held and not booked.
LEMMA DonationKeepsCustody ==
  ASSUME KInv, NEW res \in Reserves, NEW k \in DOMAIN position, NEW collateral \in Amount,
         DonateCollateral(k, res, collateral)
  PROVE  KCustodyStep
<1>1. /\ collateral_vault[k] + collateral <= MaxU64
      /\ collateral_vault' = [collateral_vault EXCEPT ![k] = @ + collateral]
      /\ UNCHANGED total_shares
  BY DEF DonateCollateral, vars, fundVars
<1>2. collateral_vault[k] + collateral \in Amount
  BY <1>1, KFacts, KKeys DEF Amount
<1>3. Custody!Receive(k, collateral)
  BY <1>1, <1>2, KKeys DEF Custody!Receive
<1>4. QED
  BY <1>3, KKeys DEF KCustodyStep, Custody!Next

\* Every step is one of ShareCustody, or none.
LEMMA KNextKeepsCustody == KInv /\ [KNext]_kvars => KCustodyStep
<1> SUFFICES ASSUME KInv, [KNext]_kvars PROVE KCustodyStep
  OBVIOUS
<1>1. CASE RegistryNext /\ UNCHANGED <<fundVars, kaminoVars>>
  BY <1>1, IdleKeepsCustody DEF fundVars, kaminoVars
<1>2. CASE \E owner \in Keys, mint \in Mints, chosen \in Venues :
              KOpenPosition(owner, mint, chosen)
  BY <1>2, KOpenPositionKeepsCustody
<1>3. CASE \E res \in Reserves : OwnerStep(res)
  <2>1. CASE \E res \in Reserves, owner \in Keys : KCurrentValue(owner, res)
    BY <2>1, IdleKeepsCustody DEF KCurrentValue, vars, fundVars
  <2>2. QED
    BY <1>3, <2>1, KDepositKeepsCustody, KWithdrawKeepsCustody DEF OwnerStep
<1>4. CASE \E res \in Reserves : OthersStep(res)
  <2>1. CASE \E res \in Reserves, amount \in Amount :
                \/ OtherDeposit(res, amount) \/ OtherRedeem(res, amount)
                \/ Borrow(res, amount) \/ Repay(res, amount)
    BY <2>1, IdleKeepsCustody
    DEF OtherDeposit, OtherRedeem, Borrow, Repay, ProtocolInflow, ProtocolOutflow
  <2>2. QED
    BY <1>4, <2>1, DonationKeepsCustody DEF OthersStep
<1>5. CASE \E k \in DOMAIN position, amount \in Amount :
              DonateToPool(k, amount) /\ UNCHANGED kaminoVars
  BY <1>5, IdleKeepsCustody DEF DonateToPool, kaminoVars
<1>6. CASE Tick
  BY <1>6, IdleKeepsCustody DEF Tick, vars, fundVars
<1>7. CASE UNCHANGED kvars
  BY <1>7, IdleKeepsCustody DEF kvars, vars, fundVars, kaminoVars
<1>8. QED
  BY <1>1, <1>2, <1>3, <1>4, <1>5, <1>6, <1>7 DEF KNext

\* The adapter keeps custody of the cTokens as ShareCustody promises, so none
\* that is booked is missing and none that was sent to a vault is paid out.
THEOREM KaminoKeepsCustody == KSpec => KKeepsCustody
<1>1. KInit => Custody!Init
  BY DEF KInit, Init, NoAccounts, Custody!Init
<1>2. KInv /\ [KNext]_kvars => [Custody!Next]_(Custody!vars)
  BY KNextKeepsCustody DEF KCustodyStep
<1>3. QED
  BY <1>1, <1>2, KInvariant, PTL DEF KSpec, KKeepsCustody, Custody!Spec

-----------------------------------------------------------------------------
(* Where the cTokens are *)

\* A reserve's cTokens are those in the vaults of its positions and those of
\* everybody else: klend's supply counts each of them, and none twice.
SupplyIsHeld ==
  /\ IsFiniteSet(DOMAIN position)
  /\ \A res \in Reserves :
        reserve[res].supply
          = outside[res] + SumFunctionOnSet(collateral_vault, Holders(res))

\* What is booked is booked in a reserve.
BooksInReserves ==
  \A k \in DOMAIN position : total_shares[k] > 0 => venue[k] \in Reserves

\* The inductive invariant of what follows.
HeldInv == KInv /\ SupplyIsHeld /\ BooksInReserves

\* The accounts the sum ranges over, and what it comes to.
LEMMA HeldFacts ==
  ASSUME HeldInv, NEW res \in Reserves
  PROVE  /\ IsFiniteSet(Holders(res))
         /\ \A k \in Holders(res) : k \in DOMAIN position /\ collateral_vault[k] \in Nat
         /\ SumFunctionOnSet(collateral_vault, Holders(res)) \in Nat
         /\ outside[res] \in Nat /\ reserve[res].supply \in Nat
         /\ reserve[res].supply
              = outside[res] + SumFunctionOnSet(collateral_vault, Holders(res))
<1>1. IsFiniteSet(Holders(res)) /\ \A k \in Holders(res) : k \in DOMAIN position
  BY FS_Subset DEF HeldInv, SupplyIsHeld, Holders
<1>2. \A k \in Holders(res) : collateral_vault[k] \in Nat
  BY <1>1 DEF HeldInv, KInv, KTypeOK
<1>3. SumFunctionOnSet(collateral_vault, Holders(res)) \in Nat
  BY <1>1, <1>2, SumNat
<1>4. outside[res] \in Nat /\ reserve[res].supply \in Nat
  BY DEF HeldInv, KInv, KTypeOK, Reserve
<1>5. QED
  BY <1>1, <1>2, <1>3, <1>4 DEF HeldInv, SupplyIsHeld

\* Steps that touch no vault, and mint and burn for others only.
LEMMA OthersHeld ==
  ASSUME HeldInv, UNCHANGED <<position, venue, collateral_vault>>,
         \A res \in Reserves :
            reserve'[res].supply - outside'[res] = reserve[res].supply - outside[res],
         KTypeOK'
  PROVE  SupplyIsHeld'
<1>1. ASSUME NEW res \in Reserves
      PROVE  reserve'[res].supply
               = outside'[res] + SumFunctionOnSet(collateral_vault', Holders(res)')
  <2>1. Holders(res)' = Holders(res)
    BY DEF Holders
  <2>2. SumFunctionOnSet(collateral_vault', Holders(res)')
          = SumFunctionOnSet(collateral_vault, Holders(res))
    BY <2>1
  <2>3. outside'[res] \in Nat /\ reserve'[res].supply \in Nat
    BY DEF KTypeOK, Reserve
  <2>4. reserve'[res].supply - outside'[res] = reserve[res].supply - outside[res]
    OBVIOUS
  <2>5. QED
    BY <2>2, <2>3, <2>4, HeldFacts
<1>2. QED
  BY <1>1 DEF SupplyIsHeld, HeldInv

\* Steps that mint into one vault, burn from it, or send to it.
LEMMA VaultHeld ==
  ASSUME HeldInv, KTypeOK', UNCHANGED <<position, venue>>,
         NEW res \in Reserves, NEW k \in DOMAIN position, venue[k] = res,
         NEW n \in Nat, collateral_vault' = [collateral_vault EXCEPT ![k] = n],
         \A q \in Reserves \ {res} :
            reserve'[q].supply - outside'[q] = reserve[q].supply - outside[q],
         (reserve'[res].supply - outside'[res]) + collateral_vault[k]
            = (reserve[res].supply - outside[res]) + n
  PROVE  SupplyIsHeld'
<1>1. ASSUME NEW q \in Reserves
      PROVE  reserve'[q].supply
               = outside'[q] + SumFunctionOnSet(collateral_vault', Holders(q)')
  <2>0. IsFiniteSet(Holders(q))
    BY HeldFacts
  <2>1. Holders(q)' = Holders(q)
    BY DEF Holders
  <2>2. outside'[q] \in Nat /\ reserve'[q].supply \in Nat
    BY DEF KTypeOK, Reserve
  <2>3. /\ collateral_vault \in [DOMAIN position -> Nat]
        /\ collateral_vault' \in [DOMAIN position -> Nat]
        /\ collateral_vault'[k] = n /\ collateral_vault[k] \in Nat
        /\ \A h \in DOMAIN position \ {k} : collateral_vault'[h] = collateral_vault[h]
    BY DEF HeldInv, KInv, KTypeOK
  <2> DEFINE before == SumFunctionOnSet(collateral_vault, Holders(q))
             after == SumFunctionOnSet(collateral_vault', Holders(q))
  <2>4. CASE q = res
    <3>1. k \in Holders(q)
      BY <2>4 DEF Holders
    <3>2. after + collateral_vault[k] = before + n
      <4>1. \A h \in Holders(q) : collateral_vault[h] \in Nat /\ collateral_vault'[h] \in Nat
        BY <2>3, HeldFacts
      <4>2. \A h \in Holders(q) \ {k} : collateral_vault[h] = collateral_vault'[h]
        BY <2>3, HeldFacts
      <4> DEFINE v == collateral_vault
                 w == collateral_vault'
                 H == Holders(q)
      <4>3. SumFunctionOnSet(w, H) + v[k] = SumFunctionOnSet(v, H) + w[k]
        <5>1. IsFiniteSet(H) /\ k \in H
          BY <2>0, <3>1
        <5>2. \A h \in H : v[h] \in Nat /\ w[h] \in Nat
          BY <4>1
        <5>3. \A h \in H \ {k} : v[h] = w[h]
          BY <4>2
        <5> HIDE DEF v, w, H
        <5>4. QED
          BY <5>1, <5>2, <5>3, SumChange
      <4>4. QED
        BY <2>3, <4>3
    <3>3. after \in Nat
      <4>1. \A h \in Holders(q) : collateral_vault'[h] \in Nat
        BY <2>3, HeldFacts
      <4>2. QED
        BY <4>1, HeldFacts, SumNat
    <3> HIDE DEF before, after
    <3>4. before \in Nat /\ reserve[q].supply = outside[q] + before
          /\ outside[q] \in Nat /\ reserve[q].supply \in Nat
      BY HeldFacts DEF before
    <3>5. (reserve'[q].supply - outside'[q]) + collateral_vault[k]
             = (reserve[q].supply - outside[q]) + n
      BY <2>4
    <3>6. reserve'[q].supply = outside'[q] + after
      BY <2>2, <2>3, <3>2, <3>3, <3>4, <3>5
    <3>7. QED
      BY <2>1, <3>6 DEF after
  <2>5. CASE q # res
    <3>1. \A h \in Holders(q) : collateral_vault[h] = collateral_vault'[h]
      BY <2>3, <2>5 DEF Holders
    <3> DEFINE v == collateral_vault
               w == collateral_vault'
               H == Holders(q)
    <3>2. SumFunctionOnSet(v, H) = SumFunctionOnSet(w, H)
      <4>1. IsFiniteSet(H) /\ \A h \in H : v[h] = w[h]
        BY <2>0, <3>1
      <4> HIDE DEF v, w, H
      <4>2. QED
        BY <4>1, SumSame
    <3>3. after = before
      BY <3>2
    <3> HIDE DEF before, after, v, w, H
    <3>4. before \in Nat /\ reserve[q].supply = outside[q] + before
          /\ outside[q] \in Nat /\ reserve[q].supply \in Nat
      BY HeldFacts DEF before
    <3>5. reserve'[q].supply - outside'[q] = reserve[q].supply - outside[q]
      BY <2>5
    <3>6. reserve'[q].supply = outside'[q] + after
      BY <2>2, <3>3, <3>4, <3>5
    <3>7. QED
      BY <2>1, <3>6 DEF after
  <2>6. QED
    BY <2>4, <2>5
<1>2. QED
  BY <1>1 DEF SupplyIsHeld, HeldInv

\* open_position adds an empty vault.
LEMMA KOpenPositionHeld ==
  ASSUME HeldInv, NEW owner \in Keys, NEW mint \in Mints, NEW chosen \in Venues,
         KOpenPosition(owner, mint, chosen)
  PROVE  SupplyIsHeld'
<1> DEFINE k == <<owner, Kamino>>
<1>1. /\ k \notin DOMAIN position
      /\ position' = Create(position, k, mint)
      /\ venue' = Create(venue, k, chosen)
      /\ collateral_vault' = Create(collateral_vault, k, 0)
      /\ UNCHANGED <<outside, reserve>>
  BY DEF KOpenPosition, OpenPosition
<1> HIDE DEF k
<1>2. /\ DOMAIN position' = DOMAIN position \cup {k}
      /\ collateral_vault'[k] = 0 /\ venue'[k] = chosen
      /\ \A h \in DOMAIN position : /\ venue'[h] = venue[h]
                                    /\ collateral_vault'[h] = collateral_vault[h]
                                    /\ h # k
  BY <1>1, CreateAdds DEF Create, HeldInv, KInv, KTypeOK, Inv, TypeOK
<1>3. IsFiniteSet(DOMAIN position')
  BY <1>2, FS_AddElement DEF HeldInv, SupplyIsHeld
<1>4. ASSUME NEW res \in Reserves
      PROVE  reserve'[res].supply
               = outside'[res] + SumFunctionOnSet(collateral_vault', Holders(res)')
  <2>1. /\ SumFunctionOnSet(collateral_vault', Holders(res))
             = SumFunctionOnSet(collateral_vault, Holders(res))
    <3>1. \A h \in Holders(res) : collateral_vault'[h] = collateral_vault[h]
      BY <1>2, HeldFacts
    <3>2. QED
      BY <3>1, HeldFacts, SumSame
  <2>2. CASE chosen = res
    <3>1. Holders(res)' = Holders(res) \cup {k} /\ k \notin Holders(res)
      BY <1>1, <1>2, <2>2 DEF Holders
    <3>2. /\ IsFiniteSet(Holders(res) \cup {k})
          /\ \A h \in Holders(res) \cup {k} : collateral_vault'[h] \in Nat
          /\ (Holders(res) \cup {k}) \ {k} = Holders(res)
      BY <1>2, <3>1, HeldFacts, FS_AddElement
    <3>3. SumFunctionOnSet(collateral_vault', Holders(res) \cup {k})
            = 0 + SumFunctionOnSet(collateral_vault', Holders(res))
      BY <1>2, <3>2, SumSplit
    <3>4. QED
      BY <1>1, <2>1, <3>1, <3>3, HeldFacts
  <2>3. CASE chosen # res
    <3>1. Holders(res)' = Holders(res)
      BY <1>2, <2>3 DEF Holders
    <3>2. QED
      BY <1>1, <2>1, <3>1, HeldFacts
  <2>4. QED
    BY <2>2, <2>3
<1>5. QED
  BY <1>3, <1>4 DEF SupplyIsHeld

\* deposit mints into the position's vault.
LEMMA KDepositHeld ==
  ASSUME HeldInv, KTypeOK', NEW owner \in Keys, NEW res \in Reserves,
         NEW amount \in Amount, KDeposit(owner, res, amount)
  PROVE  SupplyIsHeld'
<1> DEFINE k == <<owner, Kamino>>
           minted == CollateralFor(amount, RefreshedReserve(res), protocol[res])
<1>1. /\ Bound(owner, res)
      /\ collateral_vault' = [collateral_vault EXCEPT ![k] = @ + minted]
      /\ reserve' = [reserve EXCEPT ![res] =
                       [RefreshedReserve(res) EXCEPT !.supply = @ + minted]]
      /\ UNCHANGED <<outside, position, venue>>
  BY DEF KDeposit, AdapterRefresh, DepositEffect
<1>2. k \in DOMAIN position /\ venue[k] = res
  BY <1>1 DEF Bound, Movable
<1>3. minted \in Nat
  <2>1. amount \in Nat
    BY DispatcherAssumption DEF Amount
  <2>2. QED
    BY <2>1, KFacts, CollateralNat DEF HeldInv
<1> HIDE DEF minted, k
<1>4. /\ collateral_vault[k] \in Nat /\ collateral_vault[k] + minted \in Nat
      /\ reserve \in [Reserves -> Reserve]
  BY <1>2, <1>3 DEF HeldInv, KInv, KTypeOK
<1>5. /\ reserve'[res].supply = reserve[res].supply + minted
      /\ \A q \in Reserves \ {res} : reserve'[q] = reserve[q]
      /\ reserve[res].supply \in Nat /\ outside[res] \in Nat
  BY <1>1, <1>4, KFacts, HeldFacts DEF HeldInv, Reserve
<1>6. (reserve'[res].supply - outside'[res]) + collateral_vault[k]
        = (reserve[res].supply - outside[res]) + (collateral_vault[k] + minted)
  BY <1>1, <1>3, <1>4, <1>5
<1>7. \A q \in Reserves \ {res} :
         reserve'[q].supply - outside'[q] = reserve[q].supply - outside[q]
  BY <1>1, <1>5
<1>8. QED
  BY <1>1, <1>2, <1>4, <1>6, <1>7, VaultHeld

\* withdraw burns from the position's vault.
LEMMA KWithdrawHeld ==
  ASSUME HeldInv, KTypeOK', NEW owner \in Keys, NEW res \in Reserves,
         NEW shares \in Amount, KWithdraw(owner, res, shares)
  PROVE  SupplyIsHeld'
<1> DEFINE k == <<owner, Kamino>>
<1>1. /\ Bound(owner, res)
      /\ shares <= collateral_vault[k] /\ shares <= RefreshedReserve(res).supply
      /\ collateral_vault' = [collateral_vault EXCEPT ![k] = @ - shares]
      /\ reserve' = [reserve EXCEPT ![res] =
                       [RefreshedReserve(res) EXCEPT !.supply = @ - shares]]
      /\ UNCHANGED <<outside, position, venue>>
  BY DEF KWithdraw, KMayWithdraw, AdapterRefresh, WithdrawEffect
<1>2. k \in DOMAIN position /\ venue[k] = res /\ shares \in Nat
  BY <1>1, DispatcherAssumption DEF Bound, Movable, Amount
<1> HIDE DEF k
<1>3. /\ collateral_vault[k] \in Nat /\ collateral_vault[k] - shares \in Nat
      /\ reserve \in [Reserves -> Reserve]
  BY <1>1, <1>2 DEF HeldInv, KInv, KTypeOK
<1>4. /\ reserve'[res].supply = reserve[res].supply - shares
      /\ \A q \in Reserves \ {res} : reserve'[q] = reserve[q]
      /\ reserve[res].supply \in Nat /\ outside[res] \in Nat
  BY <1>1, <1>3, KFacts, HeldFacts DEF HeldInv, Reserve
<1>5. (reserve'[res].supply - outside'[res]) + collateral_vault[k]
        = (reserve[res].supply - outside[res]) + (collateral_vault[k] - shares)
  BY <1>1, <1>2, <1>3, <1>4
<1>6. \A q \in Reserves \ {res} :
         reserve'[q].supply - outside'[q] = reserve[q].supply - outside[q]
  BY <1>1, <1>4
<1>7. QED
  BY <1>1, <1>2, <1>3, <1>5, <1>6, VaultHeld

\* cTokens sent to a vault were somebody's before.
LEMMA DonationHeld ==
  ASSUME HeldInv, KTypeOK', NEW res \in Reserves, NEW k \in DOMAIN position,
         NEW collateral \in Amount, DonateCollateral(k, res, collateral)
  PROVE  SupplyIsHeld'
<1>1. /\ venue[k] = res
      /\ collateral \in 1..outside[res]
      /\ collateral_vault' = [collateral_vault EXCEPT ![k] = @ + collateral]
      /\ outside' = [outside EXCEPT ![res] = @ - collateral]
      /\ UNCHANGED <<reserve, position, venue>>
  BY DEF DonateCollateral, vars, fundVars
<1>2. /\ collateral_vault[k] \in Nat /\ outside \in [Reserves -> Nat]
      /\ reserve[res].supply \in Nat /\ collateral \in Nat
  BY <1>1, HeldFacts DEF HeldInv, KInv, KTypeOK
<1>3. /\ outside'[res] = outside[res] - collateral
      /\ \A q \in Reserves \ {res} : outside'[q] = outside[q]
      /\ outside[res] \in Nat /\ collateral_vault[k] + collateral \in Nat
  BY <1>1, <1>2
<1>4. (reserve'[res].supply - outside'[res]) + collateral_vault[k]
        = (reserve[res].supply - outside[res]) + (collateral_vault[k] + collateral)
  BY <1>1, <1>2, <1>3
<1>5. \A q \in Reserves \ {res} :
         reserve'[q].supply - outside'[q] = reserve[q].supply - outside[q]
  BY <1>1, <1>3
<1>6. QED
  BY <1>1, <1>3, <1>4, <1>5, VaultHeld

\* klend's other users mint and burn their own cTokens; their loans none.
LEMMA OthersStepHeld ==
  ASSUME HeldInv, KTypeOK', NEW res \in Reserves, NEW amount \in Amount,
         \/ OtherDeposit(res, amount) \/ OtherRedeem(res, amount)
         \/ Borrow(res, amount) \/ Repay(res, amount)
  PROVE  SupplyIsHeld'
<1> DEFINE r == RefreshedReserve(res)
           minted == CollateralFor(amount, r, protocol[res])
<1>1. UNCHANGED <<position, venue, collateral_vault>>
  BY DEF OtherDeposit, OtherRedeem, Borrow, Repay, ProtocolInflow, ProtocolOutflow
<1>2. /\ r \in Reserve /\ r.supply = reserve[res].supply
      /\ reserve \in [Reserves -> Reserve] /\ outside \in [Reserves -> Nat]
      /\ r.supply \in Nat /\ outside[res] \in Nat /\ amount \in Nat
  BY KFacts, DispatcherAssumption DEF HeldInv, KInv, KTypeOK, Reserve, Amount
<1>3. \A q \in Reserves :
         reserve'[q].supply - outside'[q] = reserve[q].supply - outside[q]
  <2>1. CASE OtherDeposit(res, amount)
    <3>1. /\ reserve' = [reserve EXCEPT ![res] = [r EXCEPT !.supply = @ + minted]]
          /\ outside' = [outside EXCEPT ![res] = @ + minted]
      BY <2>1 DEF OtherDeposit
    <3>2. minted \in Nat
      BY <1>2, KFacts, CollateralNat DEF HeldInv
    <3> HIDE DEF r, minted
    <3>3. /\ reserve'[res].supply = reserve[res].supply + minted
          /\ outside'[res] = outside[res] + minted
          /\ \A q \in Reserves \ {res} : reserve'[q] = reserve[q] /\ outside'[q] = outside[q]
      BY <1>2, <3>1 DEF Reserve
    <3>4. reserve'[res].supply - outside'[res] = reserve[res].supply - outside[res]
      BY <1>2, <3>2, <3>3
    <3>5. QED
      BY <3>3, <3>4
  <2>2. CASE OtherRedeem(res, amount)
    <3>1. /\ reserve' = [reserve EXCEPT ![res] = [r EXCEPT !.supply = @ - amount]]
          /\ outside' = [outside EXCEPT ![res] = @ - amount]
      BY <2>2 DEF OtherRedeem
    <3> HIDE DEF r
    <3>2. /\ reserve'[res].supply = reserve[res].supply - amount
          /\ outside'[res] = outside[res] - amount
          /\ \A q \in Reserves \ {res} : reserve'[q] = reserve[q] /\ outside'[q] = outside[q]
      BY <1>2, <3>1 DEF Reserve
    <3>3. reserve'[res].supply - outside'[res] = reserve[res].supply - outside[res]
      BY <1>2, <3>2
    <3>4. QED
      BY <3>2, <3>3
  <2>3. CASE Borrow(res, amount) \/ Repay(res, amount)
    <3>1. PICK debt : /\ reserve' = [reserve EXCEPT ![res] = [r EXCEPT !.borrowed_sf = debt]]
                      /\ outside' = outside
      BY <2>3 DEF Borrow, Repay
    <3> HIDE DEF r
    <3>2. /\ reserve'[res].supply = reserve[res].supply
          /\ \A q \in Reserves \ {res} : reserve'[q] = reserve[q]
      BY <1>2, <3>1 DEF Reserve
    <3>3. QED
      BY <3>1, <3>2
  <2>4. QED
    BY <2>1, <2>2, <2>3
<1>4. QED
  BY <1>1, <1>3, OthersHeld

\* Only a deposit into a reserve books anything.
LEMMA BooksStay ==
  ASSUME KInv, BooksInReserves, [KNext]_kvars
  PROVE  BooksInReserves'
<1>1. ASSUME UNCHANGED <<position, venue, total_shares>>
      PROVE  BooksInReserves'
  BY <1>1 DEF BooksInReserves
<1>2. CASE RegistryNext /\ UNCHANGED <<fundVars, kaminoVars>>
  BY <1>1, <1>2 DEF fundVars
<1>3. CASE \E owner \in Keys, mint \in Mints, chosen \in Venues :
              KOpenPosition(owner, mint, chosen)
  <2>1. PICK owner \in Keys, mint \in Mints, chosen \in Venues :
               KOpenPosition(owner, mint, chosen)
    BY <1>3
  <2> DEFINE k == <<owner, Kamino>>
  <2>2. /\ k \notin DOMAIN position
        /\ position' = Create(position, k, mint)
        /\ venue' = Create(venue, k, chosen)
        /\ total_shares' = Create(total_shares, k, 0)
    BY <2>1 DEF KOpenPosition, OpenPosition
  <2> HIDE DEF k
  <2>3. /\ DOMAIN position' = DOMAIN position \cup {k}
        /\ total_shares'[k] = 0
        /\ \A h \in DOMAIN position : /\ venue'[h] = venue[h]
                                      /\ total_shares'[h] = total_shares[h]
    BY <2>2, CreateAdds DEF Create, KInv, Inv, TypeOK
  <2>4. QED
    BY <2>3 DEF BooksInReserves
<1>4. CASE \E res \in Reserves : OwnerStep(res)
  <2>1. PICK res \in Reserves, owner \in Keys :
               \/ \E amount \in Amount : KDeposit(owner, res, amount)
               \/ \E shares \in Amount : KWithdraw(owner, res, shares)
               \/ KCurrentValue(owner, res)
    BY <1>4 DEF OwnerStep
  <2> DEFINE k == <<owner, Kamino>>
  <2>2. CASE \E amount \in Amount : KDeposit(owner, res, amount)
    <3>1. PICK booked : /\ UNCHANGED <<position, venue>> /\ venue[k] = res
                        /\ total_shares' = [total_shares EXCEPT ![k] = @ + booked]
      BY <2>2 DEF KDeposit, DepositEffect, Bound
    <3>2. \A h \in DOMAIN position : h # k => total_shares'[h] = total_shares[h]
      BY <3>1 DEF KInv, Inv, TypeOK
    <3>3. QED
      BY <3>1, <3>2 DEF BooksInReserves
  <2>3. CASE \E shares \in Amount : KWithdraw(owner, res, shares)
    <3>1. PICK shares : /\ UNCHANGED <<position, venue>> /\ venue[k] = res
                        /\ total_shares' = [total_shares EXCEPT ![k] = @ - shares]
      BY <2>3 DEF KWithdraw, KMayWithdraw, WithdrawEffect, Bound
    <3>2. \A h \in DOMAIN position : h # k => total_shares'[h] = total_shares[h]
      BY <3>1 DEF KInv, Inv, TypeOK
    <3>3. QED
      BY <3>1, <3>2 DEF BooksInReserves
  <2>4. CASE KCurrentValue(owner, res)
    BY <1>1, <2>4 DEF KCurrentValue, vars, fundVars
  <2>5. QED
    BY <2>1, <2>2, <2>3, <2>4
<1>5. CASE \E res \in Reserves : OthersStep(res)
  <2>1. UNCHANGED <<position, venue, total_shares>>
    BY <1>5 DEF OthersStep, OtherDeposit, OtherRedeem, Borrow, Repay, DonateCollateral,
                ProtocolInflow, ProtocolOutflow, vars, fundVars
  <2>2. QED
    BY <1>1, <2>1
<1>6. CASE \E k \in DOMAIN position, amount \in Amount :
              DonateToPool(k, amount) /\ UNCHANGED kaminoVars
  BY <1>1, <1>6 DEF DonateToPool
<1>7. CASE Tick
  BY <1>1, <1>7 DEF Tick, vars, fundVars
<1>8. CASE UNCHANGED kvars
  BY <1>1, <1>8 DEF kvars, vars, fundVars
<1>9. QED
  BY <1>2, <1>3, <1>4, <1>5, <1>6, <1>7, <1>8 DEF KNext

\* Every step keeps count of the cTokens.
LEMMA KNextHeld == HeldInv /\ [KNext]_kvars => HeldInv'
<1> SUFFICES ASSUME HeldInv, [KNext]_kvars PROVE HeldInv'
  OBVIOUS
<1>1. KInv' /\ KTypeOK'
  BY KNextStep DEF HeldInv, KInv
<1> SUFFICES SupplyIsHeld'
  BY <1>1, BooksStay DEF HeldInv
<1>2. ASSUME UNCHANGED <<position, venue, collateral_vault, outside, reserve>>
      PROVE  SupplyIsHeld'
  BY <1>1, <1>2, OthersHeld
<1>3. CASE RegistryNext /\ UNCHANGED <<fundVars, kaminoVars>>
  BY <1>2, <1>3 DEF fundVars, kaminoVars
<1>4. CASE \E owner \in Keys, mint \in Mints, chosen \in Venues :
              KOpenPosition(owner, mint, chosen)
  BY <1>4, KOpenPositionHeld
<1>5. CASE \E res \in Reserves : OwnerStep(res)
  <2>1. PICK res \in Reserves, owner \in Keys :
               \/ \E amount \in Amount : KDeposit(owner, res, amount)
               \/ \E shares \in Amount : KWithdraw(owner, res, shares)
               \/ KCurrentValue(owner, res)
    BY <1>5 DEF OwnerStep
  <2>2. CASE KCurrentValue(owner, res)
    <3>1. /\ reserve' = [reserve EXCEPT ![res] = RefreshedReserve(res)]
          /\ UNCHANGED <<position, venue, collateral_vault, outside>>
      BY <2>2 DEF KCurrentValue, AdapterRefresh, vars, fundVars
    <3>2. /\ RefreshedReserve(res).supply = reserve[res].supply
          /\ reserve \in [Reserves -> Reserve]
      BY KFacts DEF HeldInv, KInv, KTypeOK
    <3>3. \A q \in Reserves : reserve'[q].supply = reserve[q].supply
      BY <3>1, <3>2
    <3>4. QED
      BY <1>1, <3>1, <3>3, OthersHeld
  <2>3. QED
    BY <1>1, <2>1, <2>2, KDepositHeld, KWithdrawHeld
<1>6. CASE \E res \in Reserves : OthersStep(res)
  BY <1>1, <1>6, OthersStepHeld, DonationHeld DEF OthersStep
<1>7. CASE \E k \in DOMAIN position, amount \in Amount :
              DonateToPool(k, amount) /\ UNCHANGED kaminoVars
  BY <1>2, <1>7 DEF DonateToPool, kaminoVars
<1>8. CASE Tick
  BY <1>2, <1>8 DEF Tick, vars, fundVars
<1>9. CASE UNCHANGED kvars
  BY <1>2, <1>9 DEF kvars, vars, fundVars, kaminoVars
<1>10. QED
  BY <1>3, <1>4, <1>5, <1>6, <1>7, <1>8, <1>9 DEF KNext

\* At the start nobody has a cToken.
LEMMA KInitHeld == KInit => HeldInv
<1> SUFFICES ASSUME KInit PROVE SupplyIsHeld /\ BooksInReserves
  BY KInitInv DEF HeldInv
<1>1. DOMAIN position = {}
  BY DEF KInit, Init, NoAccounts
<1>2. \A res \in Reserves : Holders(res) = {}
  BY <1>1 DEF Holders
<1>3. \A res \in Reserves :
         reserve[res].supply = 0 /\ outside[res] = 0
  BY DEF KInit
<1>4. IsFiniteSet(DOMAIN position)
  BY <1>1, FS_EmptySet
<1>5. \A res \in Reserves : SumFunctionOnSet(collateral_vault, Holders(res)) = 0
  BY <1>2, SumEmpty
<1>6. QED
  BY <1>1, <1>3, <1>4, <1>5 DEF SupplyIsHeld, BooksInReserves

\* klend's supply of cTokens is, in every reachable state, what the vaults of the
\* positions bound to the reserve and everybody else hold: the adapter's deposits
\* and withdrawals neither lose a cToken nor count one twice.
THEOREM CollateralIsAccounted == KSpec => []HeldInv
  BY KInitHeld, KNextHeld, PTL DEF KSpec

-----------------------------------------------------------------------------
(* What the reported value is *)

\* Part s of S units of a whole and a broken amount x * f + rem: cutting the
\* broken unit first loses at most one.
LEMMA CutFirst ==
  ASSUME NEW s \in Nat, NEW S \in Nat \ {0}, s <= S, NEW f \in Nat \ {0},
         NEW x \in Nat, NEW rem \in Nat, rem < f
  PROVE  (s * (x * f + rem)) \div (S * f) \in {(s * x) \div S, (s * x) \div S + 1}
<1> DEFINE y == s * x
           whole == y \div S
           exact == (s * (x * f + rem)) \div (S * f)
<1>1. y \in Nat
  OBVIOUS
<1>2. whole \in Nat /\ whole * S <= y /\ y < whole * S + S
  BY <1>1, QuotientBounds
<1>3. S * f \in Nat \ {0} /\ s * (x * f + rem) \in Nat
  OBVIOUS
<1>4. exact \in Nat /\ exact * (S * f) <= s * (x * f + rem)
      /\ s * (x * f + rem) < exact * (S * f) + S * f
  BY <1>3, QuotientBounds
<1>5. s * (x * f + rem) = y * f + s * rem
  OBVIOUS
<1>6. s * rem \in Nat /\ s * rem <= S * rem /\ S * rem < S * f
  OBVIOUS
<1>7. y * f < (whole * S + S) * f /\ (whole * S) * f <= y * f
  BY <1>1, <1>2
<1>8. /\ (whole * S + S) * f = (whole + 1) * (S * f)
      /\ (whole * S) * f = whole * (S * f)
  BY <1>2
<1> DEFINE u == S * f
<1>9. u \in Nat \ {0}
  BY <1>3
<1>10. exact * u + u = (exact + 1) * u /\ (whole + 1) * u + u = (whole + 2) * u
  <2> HIDE DEF u, exact, whole
  <2>1. QED
    BY <1>2, <1>4, <1>9
<1> DEFINE p == y * f
           t == s * rem
<1>11. p \in Nat /\ t \in Nat /\ t < u
  BY <1>1, <1>6
<1> HIDE DEF y, whole, exact, u, p, t
<1>12. whole * u < (exact + 1) * u
  <2>1. whole * u <= p
    BY <1>7, <1>8 DEF u, p
  <2>2. p + t < (exact + 1) * u
    BY <1>4, <1>5, <1>10 DEF u, p, t
  <2>3. whole * u \in Nat /\ (exact + 1) * u \in Nat
    BY <1>2, <1>4, <1>9
  <2>4. QED
    BY <1>11, <2>1, <2>2, <2>3
<1>13. exact * u < (whole + 2) * u
  <2>1. p < (whole + 1) * u
    BY <1>7, <1>8 DEF u, p
  <2>2. exact * u <= p + t
    BY <1>4, <1>5 DEF u, p, t
  <2>3. exact * u \in Nat /\ (whole + 1) * u \in Nat /\ (whole + 2) * u \in Nat
    BY <1>2, <1>4, <1>9
  <2>4. QED
    BY <1>9, <1>10, <1>11, <2>1, <2>2, <2>3
<1>14. whole < exact + 1 /\ exact < whole + 2
  BY <1>2, <1>4, <1>9, <1>12, <1>13, LessFactor
<1>15. exact = whole \/ exact = whole + 1
  BY <1>2, <1>4, <1>14
<1>16. QED
  BY <1>15 DEF whole, exact, y

\* A position with shares on its books has a reserve, which has at least as many
\* cTokens out.
LEMMA BookedIsSupplied ==
  ASSUME HeldInv, NEW k \in DOMAIN position, venue[k] \in Reserves
  PROVE  /\ total_shares[k] \in Nat /\ reserve[venue[k]].supply \in Nat
         /\ total_shares[k] <= reserve[venue[k]].supply
<1>1. total_shares[k] \in Nat /\ total_shares[k] <= collateral_vault[k]
  BY KFacts DEF HeldInv, KInv, SharesBacked
<1>2. k \in Holders(venue[k])
  BY DEF Holders
<1>3. collateral_vault[k] <= SumFunctionOnSet(collateral_vault, Holders(venue[k]))
  BY <1>2, HeldFacts, SumAbove
<1>4. collateral_vault[k] \in Nat
  BY <1>2, HeldFacts
<1>5. QED
  BY <1>1, <1>3, <1>4, HeldFacts

\* The two valuations of a position that has shares on its books.
LEMMA ValueOfBooks ==
  ASSUME HeldInv, NEW k \in DOMAIN position, total_shares[k] > 0
  PROVE  /\ venue[k] \in Reserves
         /\ reserve[venue[k]].supply > 0
         /\ ReportedValue(k) \in Nat
         /\ ReportedValue(k) \in {ExitValue(k), ExitValue(k) - 1}
<1> DEFINE res == venue[k]
           r == RefreshedReserve(res)
           s == total_shares[k]
           S == reserve[res].supply
           q == r.borrowed_sf \div SF
           rem == r.borrowed_sf - q * SF
           x == protocol[res] + q
<1>1. res \in Reserves
  BY DEF HeldInv, BooksInReserves
<1>2. s \in Nat \ {0} /\ S \in Nat /\ s <= S
  BY <1>1, BookedIsSupplied
<1>3. /\ r \in Reserve /\ r.supply = S /\ protocol[res] \in Nat /\ r.borrowed_sf \in Nat
      /\ SF \in Nat \ {0}
  BY <1>1, KFacts, KaminoAssumption DEF HeldInv, Reserve
<1>4. q \in Nat /\ q * SF <= r.borrowed_sf /\ r.borrowed_sf < q * SF + SF
  BY <1>3, QuotientBounds
<1>5. q * SF \in Nat
  BY <1>3, <1>4, TimesNat
<1>6. rem \in Nat /\ rem < SF /\ r.borrowed_sf = q * SF + rem /\ x \in Nat
  BY <1>3, <1>4, <1>5
<1>7. ReportedValue(k) = (s * x) \div S
  BY <1>2, <1>3 DEF ReportedValue, CollateralValue, AdapterRefresh
<1>8. ExitValue(k) = (s * (x * SF + rem)) \div (S * SF)
  <2>1. LiquiditySf(r, protocol[res]) = protocol[res] * SF + (q * SF + rem)
    BY <1>6 DEF LiquiditySf
  <2> HIDE DEF q, rem
  <2>2. protocol[res] * SF + (q * SF + rem) = x * SF + rem
    BY <1>3, <1>4, <1>6
  <2> HIDE DEF x
  <2>3. ExitValue(k) = (s * LiquiditySf(r, protocol[res])) \div (r.supply * SF)
    BY DEF ExitValue, LiquidityFor
  <2>4. QED
    BY <1>3, <2>1, <2>2, <2>3, Zenon
<1> HIDE DEF x, rem, q, r, s, S
<1>9. ExitValue(k) \in {ReportedValue(k), ReportedValue(k) + 1}
  BY <1>2, <1>3, <1>6, <1>7, <1>8, CutFirst
<1>10. ReportedValue(k) \in Nat
  <2>1. s * x \in Nat /\ S \in Nat \ {0}
    BY <1>2, <1>6, TimesNat
  <2>2. QED
    BY <1>7, <2>1, DivNat
<1>11. ReportedValue(k) \in {ExitValue(k), ExitValue(k) - 1}
  BY <1>9, <1>10
<1>12. QED
  BY <1>1, <1>2, <1>10, <1>11 DEF res, S

\* The value current_value reports is within one base unit of what withdrawing
\* everything pays, never above it, and never divides by a supply of zero, for
\* any scale, interest rate, owners and users of klend.
THEOREM ValueIsTight == KSpec => []ValueTight
<1>1. HeldInv => ValueTight
  BY ValueOfBooks DEF ValueTight
<1>2. QED
  BY <1>1, CollateralIsAccounted, PTL

\* A position's value is at most its part of what the reserve holds and has lent
\* out, in whole units.
LEMMA ValueOfHolder ==
  ASSUME HeldInv, NEW res \in Reserves, NEW k \in Holders(res), NEW whole \in Nat,
         whole = protocol[res] + RefreshedReserve(res).borrowed_sf \div SF
  PROVE  /\ ReportedValue(k) \in Nat
         /\ ReportedValue(k) * reserve[res].supply <= collateral_vault[k] * whole
         /\ reserve[res].supply = 0 => ReportedValue(k) = 0
<1> DEFINE s == total_shares[k]
           S == reserve[res].supply
           v == collateral_vault[k]
<1>1. k \in DOMAIN position /\ venue[k] = res
  BY DEF Holders
<1>2. s \in Nat /\ S \in Nat /\ s <= S /\ v \in Nat /\ s <= v
  BY <1>1, BookedIsSupplied, KFacts DEF HeldInv, KInv, SharesBacked
<1>3. RefreshedReserve(res).supply = S
  BY KFacts DEF HeldInv
<1>4. CASE s = 0
  <2>1. ReportedValue(k) = 0
    BY <1>4 DEF ReportedValue, CollateralValue
  <2>2. 0 * S = 0 /\ v * whole \in Nat
    BY <1>2
  <2>3. QED
    BY <2>1, <2>2
<1>5. CASE s # 0
  <2>1. ReportedValue(k) = (s * whole) \div S
    BY <1>1, <1>3, <1>5 DEF ReportedValue, CollateralValue, AdapterRefresh
  <2>2. s * whole \in Nat /\ S \in Nat \ {0}
    BY <1>2, <1>5, TimesNat
  <2>3. ReportedValue(k) \in Nat /\ ReportedValue(k) * S <= s * whole
    BY <2>1, <2>2, QuotientBounds
  <2>4. s * whole <= v * whole /\ v * whole \in Nat
    BY <1>2, TimesMonotone, TimesNat
  <2>5. ReportedValue(k) * S \in Nat
    BY <2>2, <2>3, TimesNat
  <2> HIDE DEF s, S, v
  <2>6. ReportedValue(k) * S <= v * whole
    BY <2>2, <2>3, <2>4, <2>5
  <2>7. QED
    BY <2>2, <2>3, <2>6 DEF S, v
<1>6. QED
  BY <1>4, <1>5

\* No cToken is counted for two positions: together the values reported never
\* exceed what the reserve holds and has lent out, for any number of positions.
LEMMA ValuesFit == HeldInv => ValuesCovered
<1> SUFFICES ASSUME HeldInv, NEW res \in Reserves
             PROVE  SumFunctionOnSet([k \in Holders(res) |-> ReportedValue(k)],
                                     Holders(res)) * SF <= LiquidityNow(res)
  BY DEF ValuesCovered
<1> DEFINE debt == RefreshedReserve(res).borrowed_sf
           whole == protocol[res] + debt \div SF
           H == Holders(res)
           values == [k \in H |-> ReportedValue(k)]
           S == reserve[res].supply
           total == SumFunctionOnSet(values, H)
           held == SumFunctionOnSet(collateral_vault, H)
<1>1. protocol[res] \in Nat /\ debt \in Nat /\ SF \in Nat \ {0}
  BY KFacts, KaminoAssumption DEF HeldInv, Reserve
<1>2. debt \div SF \in Nat /\ (debt \div SF) * SF <= debt
  BY <1>1, QuotientBounds
<1>3. whole \in Nat
  BY <1>1, <1>2
<1>4. /\ IsFiniteSet(H) /\ S \in Nat /\ held \in Nat /\ held <= S
      /\ \A k \in H : collateral_vault[k] \in Nat
  BY HeldFacts
<1>5. \A k \in H : /\ values[k] \in Nat
                   /\ values[k] * S <= collateral_vault[k] * whole
                   /\ S = 0 => values[k] = 0
  BY <1>3, ValueOfHolder
<1> HIDE DEF values, H, S, whole
<1>6. total \in Nat
  BY <1>4, <1>5, SumNat
<1>7. total <= whole
  BY <1>3, <1>4, <1>5, PartsFit
<1> HIDE DEF total
<1>8. total * SF <= whole * SF
  BY <1>1, <1>3, <1>6, <1>7, TimesMonotone
<1>9. whole * SF = protocol[res] * SF + (debt \div SF) * SF
  BY <1>1, <1>2 DEF whole
<1>10. LiquidityNow(res) = protocol[res] * SF + debt
  BY DEF LiquidityNow, LiquiditySf
<1>11. protocol[res] * SF \in Nat /\ (debt \div SF) * SF \in Nat /\ total * SF \in Nat
  BY <1>1, <1>2, <1>6, TimesNat
<1> HIDE DEF debt
<1>12. total * SF <= LiquidityNow(res)
  BY <1>1, <1>2, <1>8, <1>9, <1>10, <1>11
<1>13. QED
  BY <1>12 DEF total, values, H

\* The same of every reachable state.
THEOREM ValuesAreCovered == KSpec => []ValuesCovered
  BY ValuesFit, CollateralIsAccounted, PTL

-----------------------------------------------------------------------------
(* What an instruction costs its owner *)

\* What a deposit of c for m cTokens leaves of an owner's wealth: her cash, and s of
\* the S cTokens, each worth l over S.
LEMMA DepositAlgebra ==
  ASSUME NEW f \in Int, NEW cash \in Int, NEW c \in Int, NEW m \in Int,
         NEW s \in Int, NEW l \in Int, NEW S \in Int
  PROVE  ((cash - c) * f * (S + m) + (s + m) * (l + c * f)) * S
            = (cash * f * S + s * l) * (S + m) + (S - s) * (m * l - c * f * S)
OBVIOUS

\* The same of a withdrawal of n cTokens for r.
LEMMA WithdrawAlgebra ==
  ASSUME NEW f \in Int, NEW cash \in Int, NEW r \in Int, NEW n \in Int,
         NEW s \in Int, NEW l \in Int, NEW S \in Int
  PROVE  ((cash + r) * f * (S - n) + (s - n) * (l - r * f)) * S
            = (cash * f * S + s * l) * (S - n) + (S - s) * (r * f * S - n * l)
OBVIOUS

\* A part of a loss below l is below the whole of it.
LEMMA PartLoss ==
  ASSUME NEW x \in Nat, NEW y \in Nat, x <= y, NEW S \in Nat \ {0}, y <= S,
         NEW e \in Int, NEW l \in Nat \ {0}, e < l
  PROVE  x * e < S * l
<1>1. CASE e < 0
  <2>1. x * (0 - e) \in Nat /\ x * (0 - e) = 0 - x * e
    BY <1>1
  <2>2. S * l \in Nat \ {0} /\ x * e \in Int
    BY TimesPos
  <2>3. QED
    BY <2>1, <2>2
<1>2. CASE e >= 0
  <2>1. e \in Nat /\ l - 1 \in Nat /\ e <= l - 1 /\ x <= S
    BY <1>2
  <2>2. x * e <= S * (l - 1) /\ x * e \in Nat
    BY <2>1, TimesMonotone
  <2>3. S * (l - 1) = S * l - S /\ S * l \in Nat
    OBVIOUS
  <2>4. QED
    BY <2>2, <2>3
<1>3. QED
  BY <1>1, <1>2

\* The cost of a deposit into a reserve in use is below the worth of one cToken.
LEMMA DepositCost ==
  ASSUME NEW f \in Nat \ {0}, NEW cash \in Nat, NEW c \in Nat, NEW m \in Nat,
         NEW s \in Nat, NEW l \in Nat, NEW S \in Nat \ {0}, s <= S,
         c * f * S < m * l + l
  PROVE  ((cash - c) * f * (S + m) + (s + m) * (l + c * f)) * S + (l + c * f) * S
            > (cash * f * S + s * l) * (S + m)
<1> DEFINE before == (cash * f * S + s * l) * (S + m)
           after == ((cash - c) * f * (S + m) + (s + m) * (l + c * f)) * S
           e == c * f * S - m * l
<1>1. after = before - (S - s) * e
  BY DepositAlgebra
<1>2. before \in Int /\ after \in Int /\ e \in Int
  OBVIOUS
<1>3. e < l /\ l > 0
  <2>1. c * f * S \in Nat /\ m * l \in Nat
    OBVIOUS
  <2>2. QED
    BY <2>1
<1> HIDE DEF before, after, e
<1>4. (S - s) * e < S * l
  BY <1>2, <1>3, PartLoss
<1>5. (l + c * f) * S = S * l + c * f * S /\ c * f * S \in Nat /\ S * l \in Nat
  OBVIOUS
<1>6. (S - s) * e \in Int
  BY <1>2
<1>7. after + (l + c * f) * S > before
  BY <1>1, <1>2, <1>4, <1>5, <1>6
<1>8. QED
  BY <1>7 DEF before, after

\* So is that of the first deposit, minted one to one.
LEMMA FirstDepositCost ==
  ASSUME NEW f \in Nat \ {0}, NEW cash \in Nat, NEW c \in Nat \ {0}, NEW l \in Nat
  PROVE  ((cash - c) * f * c + c * (l + c * f)) * 1 + (l + c * f) * 1
            > (cash * f * 1 + 0) * c
<1>1. ((cash - c) * f * c + c * (l + c * f)) * 1 = (cash * f * 1 + 0) * c + c * l
  OBVIOUS
<1>2. c * l \in Nat /\ c * f \in Nat \ {0} /\ (cash * f * 1 + 0) * c \in Nat
  BY TimesPos
<1>3. QED
  BY <1>1, <1>2

\* The cost of a withdrawal that leaves cTokens is below one base unit.
LEMMA WithdrawCost ==
  ASSUME NEW f \in Nat \ {0}, NEW cash \in Nat, NEW r \in Nat, NEW n \in Nat,
         NEW s \in Nat, NEW l \in Nat, NEW S \in Nat \ {0}, n <= s, s <= S, n < S,
         n * l < (r + 1) * f * S
  PROVE  ((cash + r) * f * (S - n) + (s - n) * (l - r * f)) * S + f * S * (S - n)
            > (cash * f * S + s * l) * (S - n)
<1> DEFINE before == (cash * f * S + s * l) * (S - n)
           after == ((cash + r) * f * (S - n) + (s - n) * (l - r * f)) * S
           e == n * l - r * f * S
           u == f * S
<1>1. after = before - (S - s) * e
  BY WithdrawAlgebra
<1>2. before \in Int /\ after \in Int /\ e \in Int
  OBVIOUS
<1>3. e < u /\ u \in Nat \ {0}
  <2>1. (r + 1) * f * S = r * f * S + f * S /\ f * S \in Nat \ {0}
    BY TimesPos
  <2>2. n * l \in Nat /\ r * f * S \in Nat
    OBVIOUS
  <2>3. QED
    BY <2>1, <2>2
<1> HIDE DEF before, after, e, u
<1>4. (S - s) * e < (S - n) * u
  BY <1>2, <1>3, PartLoss
<1>5. u * (S - n) = (S - n) * u /\ u * (S - n) \in Nat /\ (S - s) * e \in Int
  BY <1>2, <1>3
<1>6. after + u * (S - n) > before
  BY <1>1, <1>2, <1>4, <1>5
<1>7. QED
  BY <1>6 DEF before, after, u

\* So is that of the last one.
LEMMA LastWithdrawCost ==
  ASSUME NEW f \in Nat \ {0}, NEW cash \in Nat, NEW r \in Nat,
         NEW l \in Nat, NEW S \in Nat \ {0}, S * l < (r + 1) * f * S
  PROVE  ((cash + r) * f * 1 + 0) * S + f * S * 1 > (cash * f * S + S * l) * 1
<1>1. ((cash + r) * f * 1 + 0) * S + f * S * 1 = cash * f * S + (r + 1) * f * S
  OBVIOUS
<1>2. cash * f * S \in Nat /\ S * l \in Nat /\ (r + 1) * f * S \in Nat
  OBVIOUS
<1>3. QED
  BY <1>1, <1>2

\* A cToken is worth at least the base unit it was first minted for.
WorthAUnit == \A res \in Reserves : LiquidityNow(res) >= SF * reserve[res].supply

\* A deposit: `amount` leaves the wallet, the reserve takes c of it for m cTokens.
Deposited(k, res, amount, c, m) ==
  /\ amount \in Nat /\ amount > 0 /\ c \in 0..amount /\ m \in Nat
  /\ k \in DOMAIN position /\ venue[k] = res
  /\ UNCHANGED <<position, venue>>
  /\ wallet' = [wallet EXCEPT ![<<k[1], position[k]>>] = @ - amount]
  /\ pool' = [pool EXCEPT ![k] = @ + amount - c]
  /\ total_shares' = [total_shares EXCEPT ![k] = @ + m]
  /\ reserve'[res].supply = reserve[res].supply + m
  /\ LiquidityNow(res)' = LiquidityNow(res) + c * SF
  /\ reserve[res].supply = 0 => m = amount /\ c = amount
  /\ reserve[res].supply > 0 /\ LiquidityNow(res) > 0
        => c * SF * reserve[res].supply < m * LiquidityNow(res) + LiquidityNow(res)

\* That is what deposit does ...
LEMMA KDepositFacts ==
  ASSUME KInv, NEW owner \in Keys, NEW res \in Reserves, NEW amount \in Amount,
         KDeposit(owner, res, amount), NEW k, k = <<owner, Kamino>>
  PROVE  \E c, m : Deposited(k, res, amount, c, m)
<1> DEFINE minted == CollateralFor(amount, RefreshedReserve(res), protocol[res])
           booked == Measured(collateral_vault[k], collateral_vault[k] + minted)
           s == reserve[res].supply
           l == LiquidityNow(res)
<1>1. /\ amount > 0 /\ Bound(owner, res)
      /\ reserve' = [reserve EXCEPT ![res] =
                       [RefreshedReserve(res) EXCEPT !.supply = @ + minted]]
      /\ slot' = slot
  BY DEF KDeposit, AdapterRefresh
<1>2. PICK c \in MayConsume(amount, minted, RefreshedReserve(res), protocol[res]) :
         DepositEffect(owner, Kamino, amount, c, booked)
  BY DEF KDeposit, AdapterRefresh
<1>3. amount \in Nat /\ k \in DOMAIN position /\ venue[k] = res
  BY <1>1, DispatcherAssumption DEF Bound, Movable, Amount
<1>4. minted \in Nat
  BY <1>3, KFacts, CollateralNat
<1>5. booked = minted
  <2> HIDE DEF minted
  <2>1. QED
    BY <1>3, <1>4, KFacts DEF Measured
<1>6. c \in 0..amount
  BY <1>2 DEF MayConsume
<1>7. /\ RefreshedReserve(res).supply = s /\ s \in Nat
      /\ l = LiquiditySf(RefreshedReserve(res), protocol[res]) /\ l \in Nat
  BY KFacts, LiquidityNat DEF Reserve, LiquidityNow
<1>8. s = 0 => minted = amount /\ c = amount
  BY <1>2, <1>7 DEF CollateralFor, MayConsume
<1>9. ASSUME s > 0, l > 0
      PROVE  c * SF * s < minted * l + l
  <2>1. minted = (amount * SF * s) \div l
    BY <1>7, <1>9 DEF CollateralFor
  <2> HIDE DEF minted, s, l
  <2>2. amount * SF * s \in Nat /\ SF \in Nat
    BY <1>3, <1>7, TimesNat, KaminoAssumption
  <2>3. amount * SF * s < minted * l + l
    <3>1. l \in Nat \ {0}
      BY <1>7, <1>9
    <3>2. QED
      BY <2>1, <2>2, <3>1, QuotientBounds
  <2>4. c * SF * s <= amount * SF * s /\ c * SF * s \in Nat
    <3>1. c * SF <= amount * SF /\ c * SF \in Nat /\ amount * SF \in Nat
      BY <1>3, <1>6, <2>2, TimesMonotone
    <3>2. QED
      BY <1>7, <3>1, TimesMonotone
  <2>5. minted * l \in Nat
    BY <1>4, <1>7, TimesNat
  <2>6. QED
    BY <1>7, <2>2, <2>3, <2>4, <2>5
<1> HIDE DEF minted, booked
<1>10. /\ protocol' = [protocol EXCEPT ![res] = @ + c]
       /\ wallet' = [wallet EXCEPT ![<<k[1], position[k]>>] = @ - amount]
       /\ pool' = [pool EXCEPT ![k] = @ + amount - c]
       /\ total_shares' = [total_shares EXCEPT ![k] = @ + minted]
       /\ UNCHANGED <<position, venue>>
  BY <1>2, <1>3, <1>5 DEF DepositEffect
<1>11. /\ reserve'[res].supply = s + minted
       /\ LiquidityNow(res)' = l + c * SF
  <2>1. c \in Nat /\ protocol' = [protocol EXCEPT ![res] = @ + c]
    BY <1>3, <1>6, <1>10
  <2>2. QED
    BY <1>1, <1>4, <2>1, MintLiquidity
<1>12. Deposited(k, res, amount, c, minted)
  BY <1>1, <1>3, <1>4, <1>6, <1>8, <1>9, <1>10, <1>11 DEF Deposited
<1>13. QED
  BY <1>12

\* A withdrawal: the reserve pays r for `shares` cTokens, the owner receives it.
Withdrawn(k, res, shares, r) ==
  /\ shares \in Nat /\ shares > 0 /\ r \in Nat
  /\ k \in DOMAIN position /\ venue[k] = res
  /\ UNCHANGED <<position, venue>>
  /\ shares <= total_shares[k] /\ shares <= reserve[res].supply
  /\ wallet' = [wallet EXCEPT ![<<k[1], position[k]>>] = @ + r]
  /\ pool' = [pool EXCEPT ![k] = @ + r - r]
  /\ total_shares' = [total_shares EXCEPT ![k] = @ - shares]
  /\ reserve'[res].supply = reserve[res].supply - shares
  /\ LiquidityNow(res)' = LiquidityNow(res) - r * SF
  /\ shares * LiquidityNow(res) < (r + 1) * SF * reserve[res].supply

\* ... and that what withdraw does.
LEMMA KWithdrawFacts ==
  ASSUME KInv, NEW owner \in Keys, NEW res \in Reserves, NEW shares \in Amount,
         KWithdraw(owner, res, shares), NEW k, k = <<owner, Kamino>>
  PROVE  \E r : Withdrawn(k, res, shares, r)
<1> DEFINE redeemed == LiquidityFor(shares, RefreshedReserve(res), protocol[res])
           amount_out == Measured(pool[k], pool[k] + redeemed)
<1>1. /\ shares > 0 /\ Bound(owner, res) /\ shares <= total_shares[k]
      /\ shares <= RefreshedReserve(res).supply
      /\ redeemed <= protocol[res]
      /\ WithdrawEffect(owner, Kamino, shares, redeemed, amount_out)
      /\ reserve' = [reserve EXCEPT ![res] =
                       [RefreshedReserve(res) EXCEPT !.supply = @ - shares]]
      /\ slot' = slot
  BY DEF KWithdraw, KMayWithdraw, AdapterRefresh, SharesBooked
<1>2. shares \in Nat /\ k \in DOMAIN position /\ venue[k] = res
  BY <1>1, DispatcherAssumption DEF Bound, Movable, Amount
<1>3. shares <= reserve[res].supply /\ reserve[res].supply > 0
  BY <1>1, <1>2, KFacts DEF Reserve
<1>4. /\ redeemed \in Nat
      /\ shares * LiquidityNow(res) < (redeemed + 1) * SF * reserve[res].supply
  BY <1>2, <1>3, PaidWorth
<1>5. amount_out = redeemed
  <2> HIDE DEF redeemed
  <2>1. QED
    BY <1>2, <1>4, KFacts DEF Measured
<1> HIDE DEF redeemed, amount_out
<1>6. /\ protocol' = [protocol EXCEPT ![res] = @ - redeemed]
      /\ wallet' = [wallet EXCEPT ![<<k[1], position[k]>>] = @ + redeemed]
      /\ pool' = [pool EXCEPT ![k] = @ + redeemed - redeemed]
      /\ total_shares' = [total_shares EXCEPT ![k] = @ - shares]
      /\ UNCHANGED <<position, venue>>
  BY <1>1, <1>2, <1>5 DEF WithdrawEffect
<1>7. /\ reserve'[res].supply = reserve[res].supply - shares
      /\ LiquidityNow(res)' = LiquidityNow(res) - redeemed * SF
  BY <1>1, <1>2, <1>3, <1>4, <1>6, BurnLiquidity
<1>8. Withdrawn(k, res, shares, redeemed)
  BY <1>1, <1>2, <1>3, <1>4, <1>6, <1>7 DEF Withdrawn
<1>9. QED
  BY <1>8

\* Into an empty reserve cTokens are minted one to one.
LEMMA FirstMint ==
  ASSUME KInv, [KNext]_kvars, NEW res \in Reserves,
         reserve[res].supply = 0, reserve'[res].supply > 0
  PROVE  LiquidityNow(res)' >= SF * reserve'[res].supply
<1>1. /\ LiquidityNow(res) \in Nat /\ SF \in Nat
      /\ reserve \in [Reserves -> Reserve]
      /\ \A q \in Reserves : /\ RefreshedReserve(q) \in Reserve
                             /\ RefreshedReserve(q).supply = reserve[q].supply
  BY KFacts, LiquidityNat, KaminoAssumption DEF LiquidityNow, KInv, KTypeOK
<1>2. ASSUME NEW n \in Nat, LiquidityNow(res)' = LiquidityNow(res) + n * SF,
             reserve'[res].supply = reserve[res].supply + n
      PROVE  LiquidityNow(res)' >= SF * reserve'[res].supply
  <2>1. reserve'[res].supply = n /\ n * SF = SF * n /\ n * SF \in Nat
    BY <1>1, <1>2, TimesNat
  <2>2. QED
    BY <1>1, <1>2, <2>1
<1>3. CASE reserve' = reserve
  BY <1>3
<1>4. CASE \E q \in Reserves : OwnerStep(q)
  <2>1. PICK q \in Reserves, owner \in Keys :
               \/ \E amount \in Amount : KDeposit(owner, q, amount)
               \/ \E shares \in Amount : KWithdraw(owner, q, shares)
               \/ KCurrentValue(owner, q)
    BY <1>4 DEF OwnerStep
  <2>2. CASE \E amount \in Amount : KDeposit(owner, q, amount)
    <3>1. PICK amount \in Amount : KDeposit(owner, q, amount)
      BY <2>2
    <3>2. q = res
      BY <1>1, <3>1 DEF KDeposit
    <3>3. QED
      <4>1. PICK c, m : Deposited(<<owner, Kamino>>, res, amount, c, m)
        BY <3>1, <3>2, KDepositFacts
      <4>2. QED
        BY <1>2, <4>1 DEF Deposited
  <2>3. CASE \E shares \in Amount : KWithdraw(owner, q, shares)
    <3>1. PICK shares \in Amount : KWithdraw(owner, q, shares)
      BY <2>3
    <3>2. q = res
      BY <1>1, <3>1 DEF KWithdraw, KMayWithdraw
    <3>3. shares > 0 /\ shares <= reserve[res].supply
      BY <3>1, <3>2, KWithdrawFacts DEF Withdrawn
    <3>4. shares \in Nat
      BY DispatcherAssumption DEF Amount
    <3>5. QED
      BY <3>3, <3>4
  <2>4. CASE KCurrentValue(owner, q)
    <3>1. reserve'[res].supply = reserve[res].supply
      BY <1>1, <2>4 DEF KCurrentValue, AdapterRefresh
    <3>2. QED
      BY <3>1
  <2>5. QED
    BY <2>1, <2>2, <2>3, <2>4
<1>5. CASE \E q \in Reserves : OthersStep(q)
  <2>1. PICK q \in Reserves, amount \in Amount :
               \/ OtherDeposit(q, amount) \/ OtherRedeem(q, amount)
               \/ Borrow(q, amount) \/ Repay(q, amount)
               \/ \E k \in DOMAIN position : DonateCollateral(k, q, amount)
    BY <1>5 DEF OthersStep
  <2>2. amount \in Nat
    BY DispatcherAssumption DEF Amount
  <2>3. CASE OtherDeposit(q, amount)
    <3> DEFINE minted == CollateralFor(amount, RefreshedReserve(q), protocol[q])
    <3>1. /\ reserve' = [reserve EXCEPT ![q] =
                           [RefreshedReserve(q) EXCEPT !.supply = @ + minted]]
          /\ protocol' = [protocol EXCEPT ![q] = @ + amount]
          /\ slot' = slot
      BY <2>3 DEF OtherDeposit, ProtocolInflow
    <3>2. q = res
      BY <1>1, <3>1
    <3>3. minted = amount
      BY <1>1, <3>2 DEF CollateralFor
    <3> HIDE DEF minted
    <3>4. /\ reserve'[res].supply = reserve[res].supply + amount
          /\ LiquidityNow(res)' = LiquidityNow(res) + amount * SF
      BY <2>2, <3>1, <3>2, <3>3, MintLiquidity
    <3>5. QED
      BY <1>2, <2>2, <3>4
  <2>4. CASE OtherRedeem(q, amount)
    <3>1. /\ reserve'[res].supply =
               IF q = res THEN reserve[res].supply - amount ELSE reserve[res].supply
      BY <1>1, <2>4 DEF OtherRedeem, Reserve
    <3>2. QED
      BY <2>2, <3>1
  <2>5. CASE Borrow(q, amount) \/ Repay(q, amount)
    <3>1. reserve'[res].supply = reserve[res].supply
      BY <1>1, <2>5 DEF Borrow, Repay, Reserve
    <3>2. QED
      BY <3>1
  <2>6. CASE \E k \in DOMAIN position : DonateCollateral(k, q, amount)
    BY <1>3, <2>6 DEF DonateCollateral
  <2>7. QED
    BY <2>1, <2>3, <2>4, <2>5, <2>6
<1>6. QED
  BY <1>3, <1>4, <1>5 DEF KNext, KOpenPosition, Tick, kaminoVars, kvars

\* What the reserves hold and have lent out.
LEMMA LiquidityOfReserves ==
  KInv => \A q \in Reserves : LiquidityNow(q) \in Nat /\ reserve[q].supply \in Nat
BY KFacts, LiquidityNat DEF LiquidityNow, Reserve

\* No step takes a cToken's worth below one base unit.
LEMMA WorthStays ==
  ASSUME KInv, WorthAUnit, [KNext]_kvars
  PROVE  WorthAUnit'
<1> SUFFICES ASSUME NEW res \in Reserves
             PROVE  LiquidityNow(res)' >= SF * reserve'[res].supply
  BY DEF WorthAUnit
<1> DEFINE l == LiquidityNow(res)
           s == reserve[res].supply
           lp == LiquidityNow(res)'
           sp == reserve'[res].supply
<1>1. KInv'
  BY KNextStep
<1>2. l \in Nat /\ s \in Nat /\ SF \in Nat \ {0}
  BY KFacts, LiquidityNat, KaminoAssumption DEF LiquidityNow, Reserve
<1>3. lp \in Nat /\ sp \in Nat
  <2>1. (\A q \in Reserves : LiquidityNow(q) \in Nat /\ reserve[q].supply \in Nat)'
    BY <1>1, LiquidityOfReserves, PTL
  <2>2. QED
    BY <2>1
<1>4. CASE sp = 0
  BY <1>2, <1>3, <1>4
<1>5. CASE s = 0 /\ sp > 0
  BY <1>5, FirstMint
<1>6. CASE s > 0 /\ sp > 0
  <2>1. lp * s >= l * sp
    BY <1>6, KNextKeepsRate DEF RateStep
  <2>2. l >= SF * s
    BY DEF WorthAUnit
  <2> HIDE DEF l, s, lp, sp
  <2>3. l * sp >= (SF * s) * sp /\ (SF * s) * sp \in Nat /\ l * sp \in Nat
    BY <1>2, <1>3, <2>2, TimesNat, TimesMonotone
  <2>4. (SF * s) * sp = (SF * sp) * s /\ lp * s \in Nat /\ (lp + 1) * s = lp * s + s
    BY <1>2, <1>3
  <2> DEFINE need == (SF * s) * sp
             have == lp * s
             rate == l * sp
  <2>5. have >= rate /\ rate >= need /\ need \in Nat /\ have \in Nat /\ rate \in Nat
    BY <2>1, <2>3, <2>4
  <2>6. (SF * sp) * s < (lp + 1) * s
    <3> HIDE DEF need, have, rate
    <3>1. need < have + s
      BY <1>2, <1>6, <2>5
    <3>2. QED
      BY <2>4, <3>1 DEF need, have
  <2>7. SF * sp < lp + 1 /\ SF * sp \in Nat
    <3>1. SF * sp \in Nat /\ lp + 1 \in Nat /\ s \in Nat \ {0}
      BY <1>2, <1>3, <1>6, TimesNat
    <3>2. QED
      BY <2>6, <3>1, LessFactor
  <2>8. QED
    BY <1>3, <2>7 DEF lp, sp
<1>7. QED
  BY <1>2, <1>3, <1>4, <1>5, <1>6

\* What CostStep says of one position.
CostOf(k) ==
  LET w == <<k[1], position[k]>> IN
  venue[k] \in Reserves =>
     /\ wallet'[w] < wallet[w] =>
           Wealth(k)' * WealthOver(k) + LiquidityNow(venue[k])' * WealthOver(k)
              > Wealth(k) * WealthOver(k)'
     /\ wallet'[w] >= wallet[w] /\ total_shares'[k] < total_shares[k] =>
           Wealth(k)' * WealthOver(k) + SF * WealthOver(k) * WealthOver(k)'
              > Wealth(k) * WealthOver(k)'

\* The inductive invariant of it.
WorthInv == HeldInv /\ WorthAUnit

\* A position's wealth, in the terms of the lemmas on costs.
LEMMA WealthFacts ==
  ASSUME WorthInv, NEW k \in DOMAIN position, NEW res \in Reserves, venue[k] = res
  PROVE  /\ <<k[1], position[k]>> \in Keys \X Mints
         /\ wallet \in [Keys \X Mints -> Nat] /\ pool \in [DOMAIN position -> Nat]
         /\ total_shares \in [DOMAIN position -> Amount] /\ Amount \subseteq Nat
         /\ LiquidityNow(res) \in Nat /\ reserve[res].supply \in Nat
         /\ LiquidityNow(res) >= SF * reserve[res].supply
         /\ total_shares[k] <= reserve[res].supply
         /\ SF \in Nat \ {0}
<1>1. k \in Keys \X {Kamino} /\ position[k] \in Mints
  BY DEF WorthInv, HeldInv, KInv, KTypeOK, Inv, TypeOK
<1>2. wallet \in [Keys \X Mints -> Nat] /\ pool \in [DOMAIN position -> Nat]
      /\ total_shares \in [DOMAIN position -> Amount] /\ Amount \subseteq Nat
  BY DispatcherAssumption DEF WorthInv, HeldInv, KInv, Inv, TypeOK, Amount
<1>3. QED
  BY <1>1, <1>2, KaminoAssumption, LiquidityOfReserves, BookedIsSupplied
  DEF WorthInv, HeldInv, WorthAUnit

\* A deposit costs the depositor less than one cToken.
LEMMA DepositCosts ==
  ASSUME WorthInv, NEW k \in DOMAIN position, NEW res \in Reserves,
         NEW amount, NEW c, NEW m, Deposited(k, res, amount, c, m)
  PROVE  CostOf(k)
<1> DEFINE w == <<k[1], position[k]>>
           f == SF
           cash == wallet[w] + pool[k]
           s == total_shares[k]
           l == LiquidityNow(res)
           S == reserve[res].supply
<1>1. venue[k] = res
  BY DEF Deposited
<1>2. /\ f \in Nat \ {0} /\ wallet[w] \in Nat /\ pool[k] \in Nat /\ s \in Nat /\ l \in Nat
      /\ S \in Nat /\ s <= S /\ l >= f * S
  BY <1>1, WealthFacts
<1>3. amount \in Nat \ {0} /\ c \in Nat /\ m \in Nat /\ c <= amount
  BY DEF Deposited
<1>4. /\ wallet'[w] = wallet[w] - amount /\ pool'[k] = (pool[k] + amount) - c
      /\ total_shares'[k] = s + m /\ venue'[k] = res /\ position'[k] = position[k]
      /\ reserve'[res].supply = S + m /\ LiquidityNow(res)' = l + c * f
  <2>1. pool' = [pool EXCEPT ![k] = (@ + amount) - c]
    <3>1. pool' = [pool EXCEPT ![k] = @ + amount - c]
      BY DEF Deposited
    <3>2. pool[k] + amount - c = (pool[k] + amount) - c
      BY <1>2, <1>3
    <3>3. QED
      BY <3>1, <3>2, <1>1, WealthFacts
  <2>2. QED
    BY <1>1, <2>1, WealthFacts DEF Deposited
<1>5. cash \in Nat /\ wallet'[w] + pool'[k] = cash - c
  BY <1>2, <1>3, <1>4
<1>6. /\ Supply(k) = S /\ Supply(k)' = S + m
      /\ LiquidityNow(venue[k])' = l + c * f
  BY <1>1, <1>4 DEF Supply, LiquidityNow, RefreshedReserve
<1>7. ~ (wallet'[w] >= wallet[w])
  BY <1>2, <1>3, <1>4
<1>8. CASE S = 0
  <2>1. s = 0 /\ m = c /\ c \in Nat \ {0}
    BY <1>2, <1>3, <1>8 DEF Deposited
  <2>2. WealthOver(k) = 1 /\ Wealth(k) = cash * f * 1 + 0
    BY <1>6, <1>8 DEF WealthOver, Wealth
  <2>3. S + m = c /\ c # 0
    BY <1>8, <2>1
  <2>4. WealthOver(k)' = c /\ Wealth(k)' = (cash - c) * f * c + c * (l + c * f)
    <3>1. s + m = c
      BY <2>1
    <3>2. Supply(k)' = c
      BY <1>6, <2>3
    <3>3. WealthOver(k)' = c
      BY <2>3, <3>2 DEF WealthOver
    <3>4. Wealth(k)' = (wallet'[w] + pool'[k]) * f * c + (s + m) * (l + c * f)
      BY <1>4, <1>6, <2>3, <3>2, <3>3 DEF Wealth
    <3>5. QED
      BY <1>5, <3>1, <3>3, <3>4
  <2> HIDE DEF w, f, cash, s, l, S
  <2>5. ((cash - c) * f * c + c * (l + c * f)) * 1 + (l + c * f) * 1 > (cash * f * 1 + 0) * c
    BY <1>2, <1>5, <2>1, FirstDepositCost
  <2>6. QED
    BY <1>6, <1>7, <2>2, <2>4, <2>5 DEF CostOf, w
<1>9. CASE S # 0
  <2>1. S \in Nat \ {0} /\ l > 0 /\ c * f * S < m * l + l
    <3>1. f * S \in Nat \ {0}
      BY <1>2, <1>9, TimesPos
    <3>2. S > 0 /\ l > 0
      BY <1>2, <1>9, <3>1
    <3>3. QED
      BY <1>2, <3>2 DEF Deposited
  <2>2. S + m # 0
    BY <1>2, <1>3, <2>1
  <2>3. WealthOver(k) = S /\ Wealth(k) = cash * f * S + s * l
    BY <1>1, <1>6, <1>9 DEF WealthOver, Wealth
  <2>4. WealthOver(k)' = S + m /\ Wealth(k)' = (cash - c) * f * (S + m) + (s + m) * (l + c * f)
    <3>3. WealthOver(k)' = S + m
      BY <1>6, <2>2 DEF WealthOver
    <3>4. Wealth(k)' = (wallet'[w] + pool'[k]) * f * (S + m) + (s + m) * (l + c * f)
      BY <1>4, <1>6, <2>2, <3>3 DEF Wealth
    <3>5. QED
      BY <1>5, <3>3, <3>4
  <2> HIDE DEF w, f, cash, s, l, S
  <2>5. ((cash - c) * f * (S + m) + (s + m) * (l + c * f)) * S + (l + c * f) * S
            > (cash * f * S + s * l) * (S + m)
    BY <1>2, <1>3, <1>5, <2>1, DepositCost
  <2>6. QED
    BY <1>6, <1>7, <2>3, <2>4, <2>5 DEF CostOf, w
<1>10. QED
  BY <1>8, <1>9

\* A withdrawal costs the owner less than one base unit.
LEMMA WithdrawalCosts ==
  ASSUME WorthInv, NEW k \in DOMAIN position, NEW res \in Reserves,
         NEW n, NEW r, Withdrawn(k, res, n, r)
  PROVE  CostOf(k)
<1> DEFINE w == <<k[1], position[k]>>
           f == SF
           cash == wallet[w] + pool[k]
           s == total_shares[k]
           l == LiquidityNow(res)
           S == reserve[res].supply
<1>1. venue[k] = res
  BY DEF Withdrawn
<1>2. /\ f \in Nat \ {0} /\ wallet[w] \in Nat /\ pool[k] \in Nat /\ s \in Nat /\ l \in Nat
      /\ S \in Nat /\ s <= S
  BY <1>1, WealthFacts
<1>3. n \in Nat \ {0} /\ r \in Nat /\ n <= s /\ n <= S /\ n * l < (r + 1) * f * S
  BY DEF Withdrawn
<1>4. /\ wallet'[w] = wallet[w] + r /\ pool'[k] = pool[k]
      /\ total_shares'[k] = s - n /\ venue'[k] = res /\ position'[k] = position[k]
      /\ reserve'[res].supply = S - n /\ LiquidityNow(res)' = l - r * f
  <2>1. pool'[k] = pool[k]
    <3>1. pool' = [pool EXCEPT ![k] = @ + r - r]
      BY DEF Withdrawn
    <3>2. pool[k] + r - r = pool[k]
      BY <1>2, <1>3
    <3>3. QED
      BY <3>1, <3>2, <1>1, WealthFacts
  <2>2. QED
    BY <1>1, <2>1, WealthFacts DEF Withdrawn
<1>5. cash \in Nat /\ wallet'[w] + pool'[k] = cash + r
  BY <1>2, <1>3, <1>4
<1>6. /\ Supply(k) = S /\ Supply(k)' = S - n
      /\ LiquidityNow(venue[k])' = l - r * f
  BY <1>1, <1>4 DEF Supply, LiquidityNow, RefreshedReserve
<1>7. ~ (wallet'[w] < wallet[w])
  BY <1>2, <1>3, <1>4
<1>8. S \in Nat \ {0}
  BY <1>2, <1>3
<1>9. WealthOver(k) = S /\ Wealth(k) = cash * f * S + s * l
  BY <1>1, <1>6, <1>8 DEF WealthOver, Wealth
<1>10. CASE n = S
  <2>1. s = S /\ S - n = 0
    BY <1>2, <1>3, <1>10
  <2>2. WealthOver(k)' = 1 /\ Wealth(k)' = (cash + r) * f * 1 + 0
    <3>1. Supply(k)' = 0
      BY <1>6, <2>1
    <3>2. Wealth(k)' = (wallet'[w] + pool'[k]) * f * 1 + 0
      BY <1>4, <3>1 DEF Wealth, WealthOver
    <3>3. QED
      BY <1>5, <3>1, <3>2 DEF WealthOver
  <2> HIDE DEF w, f, cash, s, l, S
  <2>3. ((cash + r) * f * 1 + 0) * S + f * S * 1 > (cash * f * S + S * l) * 1
    BY <1>2, <1>3, <1>5, <1>8, <1>10, LastWithdrawCost
  <2>4. QED
    BY <1>7, <1>9, <2>1, <2>2, <2>3 DEF CostOf, w, f
<1>11. CASE n # S
  <2>1. n < S /\ S - n # 0
    BY <1>2, <1>3, <1>11
  <2>2. WealthOver(k)' = S - n /\ Wealth(k)' = (cash + r) * f * (S - n) + (s - n) * (l - r * f)
    <3>1. WealthOver(k)' = S - n
      BY <1>6, <2>1 DEF WealthOver
    <3>2. Wealth(k)' = (wallet'[w] + pool'[k]) * f * (S - n) + (s - n) * (l - r * f)
      BY <1>4, <1>6, <2>1, <3>1 DEF Wealth
    <3>3. QED
      BY <1>5, <3>1, <3>2
  <2> HIDE DEF w, f, cash, s, l, S
  <2>3. ((cash + r) * f * (S - n) + (s - n) * (l - r * f)) * S + f * S * (S - n)
            > (cash * f * S + s * l) * (S - n)
    BY <1>2, <1>3, <1>5, <1>8, <2>1, WithdrawCost
  <2>4. QED
    BY <1>7, <1>9, <2>2, <2>3 DEF CostOf, w, f
<1>12. QED
  BY <1>10, <1>11

\* A step that takes nothing from a wallet and nothing off the books costs nothing.
LEMMA NothingTaken ==
  ASSUME WorthInv, NEW k \in DOMAIN position,
         wallet'[<<k[1], position[k]>>] = wallet[<<k[1], position[k]>>],
         total_shares'[k] = total_shares[k]
  PROVE  CostOf(k)
<1>1. /\ wallet[<<k[1], position[k]>>] \in Nat /\ total_shares[k] \in Nat
  <2>1. k \in Keys \X {Kamino} /\ position[k] \in Mints /\ Amount \subseteq Nat
    BY DispatcherAssumption DEF WorthInv, HeldInv, KInv, KTypeOK, Inv, TypeOK, Amount
  <2>2. QED
    BY <2>1 DEF WorthInv, HeldInv, KInv, Inv, TypeOK
<1>2. QED
  BY <1>1 DEF CostOf

\* Every step costs no more than rounding.
LEMMA KNextCosts == WorthInv /\ [KNext]_kvars => CostStep
<1> SUFFICES ASSUME WorthInv, [KNext]_kvars, NEW k \in DOMAIN position
             PROVE  CostOf(k)
  BY DEF CostStep, CostOf
<1> DEFINE w == <<k[1], position[k]>>
<1>1. /\ k \in Keys \X {Kamino} /\ DOMAIN total_shares = DOMAIN position
      /\ wallet \in [Keys \X Mints -> Nat] /\ KInv
  BY DEF WorthInv, HeldInv, KInv, KTypeOK, Inv, TypeOK
<1>2. ASSUME UNCHANGED <<wallet, total_shares>> PROVE CostOf(k)
  BY <1>2, NothingTaken
<1>3. CASE \E res \in Reserves : OwnerStep(res)
  <2>1. PICK res \in Reserves, owner \in Keys :
               \/ \E amount \in Amount : KDeposit(owner, res, amount)
               \/ \E shares \in Amount : KWithdraw(owner, res, shares)
               \/ KCurrentValue(owner, res)
    BY <1>3 DEF OwnerStep
  <2> DEFINE q == <<owner, Kamino>>
  <2>2. CASE KCurrentValue(owner, res)
    BY <1>2, <2>2 DEF KCurrentValue, vars, fundVars
  <2>3. CASE \E amount \in Amount : KDeposit(owner, res, amount)
    <3>1. PICK amount, c, m : Deposited(q, res, amount, c, m)
      BY <1>1, <2>3, KDepositFacts
    <3>2. CASE k = q
      BY <3>1, <3>2, DepositCosts
    <3>3. CASE k # q
      <4>1. w # <<q[1], position[q]>>
        BY <1>1, <3>3
      <4>2. wallet'[w] = wallet[w] /\ total_shares'[k] = total_shares[k]
        BY <1>1, <3>1, <3>3, <4>1 DEF Deposited
      <4>3. QED
        BY <4>2, NothingTaken
    <3>4. QED
      BY <3>2, <3>3
  <2>4. CASE \E shares \in Amount : KWithdraw(owner, res, shares)
    <3>1. PICK shares, r : Withdrawn(q, res, shares, r)
      BY <1>1, <2>4, KWithdrawFacts
    <3>2. CASE k = q
      BY <3>1, <3>2, WithdrawalCosts
    <3>3. CASE k # q
      <4>1. w # <<q[1], position[q]>>
        BY <1>1, <3>3
      <4>2. wallet'[w] = wallet[w] /\ total_shares'[k] = total_shares[k]
        BY <1>1, <3>1, <3>3, <4>1 DEF Withdrawn
      <4>3. QED
        BY <4>2, NothingTaken
    <3>4. QED
      BY <3>2, <3>3
  <2>5. QED
    BY <2>1, <2>2, <2>3, <2>4
<1>4. CASE \E res \in Reserves : OthersStep(res)
  BY <1>2, <1>4 DEF OthersStep, OtherDeposit, OtherRedeem, Borrow, Repay,
     DonateCollateral, ProtocolInflow, ProtocolOutflow, vars, fundVars
<1>5. CASE \E owner \in Keys, mint \in Mints, chosen \in Venues :
              KOpenPosition(owner, mint, chosen)
  <2>1. PICK owner \in Keys :
               /\ <<owner, Kamino>> \notin DOMAIN total_shares
               /\ wallet' = wallet
               /\ total_shares' = Create(total_shares, <<owner, Kamino>>, 0)
    BY <1>5 DEF KOpenPosition, OpenPosition
  <2>2. total_shares'[k] = total_shares[k]
    BY <1>1, <2>1 DEF Create
  <2>3. QED
    BY <2>1, <2>2, NothingTaken
<1>6. CASE \/ RegistryNext /\ UNCHANGED <<fundVars, kaminoVars>>
           \/ \E h \in DOMAIN position, amount \in Amount :
                 DonateToPool(h, amount) /\ UNCHANGED kaminoVars
           \/ Tick \/ UNCHANGED kvars
  BY <1>2, <1>6 DEF DonateToPool, Tick, kvars, vars, fundVars
<1>7. QED
  BY <1>3, <1>4, <1>5, <1>6 DEF KNext

\* The invariant of it.
LEMMA WorthInvariant == KSpec => []WorthInv
<1>1. KInit => WorthInv
  <2> SUFFICES ASSUME KInit, NEW res \in Reserves
               PROVE  LiquidityNow(res) >= SF * reserve[res].supply
    BY KInitHeld DEF WorthInv, WorthAUnit
  <2>1. reserve[res].supply = 0 /\ LiquidityNow(res) \in Nat
    BY KInitInv, LiquidityOfReserves DEF KInit
  <2>2. QED
    BY <2>1, KaminoAssumption
<1>2. WorthInv /\ [KNext]_kvars => WorthInv'
  BY KNextHeld, WorthStays DEF WorthInv, HeldInv
<1>3. QED
  BY <1>1, <1>2, PTL DEF KSpec

\* A cToken is worth at least a base unit in every reachable state: klend's
\* rounding never lets a deposit into a reserve in use mint more cTokens than it
\* brings base units.
THEOREM WorthAlwaysAUnit == KSpec => []WorthAUnit
<1>1. WorthInv => WorthAUnit
  BY DEF WorthInv
<1>2. QED
  BY <1>1, WorthInvariant, PTL

\* No instruction costs more than the rounding.
THEOREM CostsOnlyRounding == KSpec => RoundingIsAllItCosts
<1>1. WorthInv /\ [KNext]_kvars => [CostStep]_kvars
  BY KNextCosts
<1>2. QED
  BY <1>1, WorthInvariant, PTL DEF KSpec, RoundingIsAllItCosts

-----------------------------------------------------------------------------
(* That the books let everybody out *)

\* What ExitNeverBlocked promises, as the checks a withdrawal has to pass: while the
\* route is open the reserve has cTokens out for the booked shares, and when it has
\* the liquidity too, a withdrawal of all of them passes.
ExitPasses ==
  \A k \in DOMAIN position :
     /\ venue[k] \in Reserves
     /\ Movable(k[1], Kamino)
     /\ total_shares[k] > 0
     => /\ reserve[venue[k]].supply > 0
        /\ ExitValue(k) <= protocol[venue[k]]
              => KMayWithdraw(k[1], venue[k], total_shares[k])

\* Neither the adapter's books nor the vault nor klend's supply ever keeps an owner
\* in, whatever deposits, donations and partial withdrawals came before.
THEOREM ExitAlwaysPasses == KSpec => []ExitPasses
<1>1. HeldInv => ExitPasses
  <2> SUFFICES ASSUME HeldInv, NEW k \in DOMAIN position, venue[k] \in Reserves,
                      Movable(k[1], Kamino), total_shares[k] > 0
               PROVE  /\ reserve[venue[k]].supply > 0
                      /\ ExitValue(k) <= protocol[venue[k]]
                            => KMayWithdraw(k[1], venue[k], total_shares[k])
    BY DEF ExitPasses
  <2>1. k = <<k[1], Kamino>>
    BY DEF HeldInv, KInv, KTypeOK
  <2>2. /\ total_shares[k] \in Nat /\ reserve[venue[k]].supply \in Nat
        /\ total_shares[k] <= reserve[venue[k]].supply
        /\ total_shares[k] <= collateral_vault[k]
    BY BookedIsSupplied DEF HeldInv, KInv, SharesBacked
  <2>3. AdapterRefresh(venue[k]).supply = reserve[venue[k]].supply
    BY KFacts DEF HeldInv, AdapterRefresh
  <2>4. Bound(k[1], venue[k])
    BY <2>1 DEF Bound
  <2>5. QED
    BY <2>1, <2>2, <2>3, <2>4 DEF KMayWithdraw, SharesBooked, ExitValue, AdapterRefresh
<1>2. QED
  BY <1>1, CollateralIsAccounted, PTL
=============================================================================
