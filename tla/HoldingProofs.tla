--------------------------- MODULE HoldingProofs ---------------------------
(***************************************************************************)
(* Proofs about the two adapters that hold tokens for a position,          *)
(* JupiterLp and MapleSyrup: their type invariants, that both implement    *)
(* Dispatcher and ShareCustody, what a withdrawal pays compared with the   *)
(* value reported before it, and that no LP token is unaccounted for, so   *)
(* that what is booked can be redeemed and what is reported is in the pool.*)
(***************************************************************************)
EXTENDS JupiterLp, MapleSyrup, DispatcherProofs, ArithmeticProofs

-----------------------------------------------------------------------------
(* jupiter-lp *)

\* The inductive invariant.
JInv == Inv /\ JTypeOK

\* The pool's part of JTypeOK.
LpPoolOK == lp_elsewhere \in Nat /\ lp_supply \in Nat /\ aum \in Nat /\ aum_usd \in Nat

\* What every step is shown to do.
JHolds ==
  /\ [Next]_vars
  /\ JTypeOK'
  /\ JFullExitStep
  /\ [JCustody!Next]_(JCustody!vars)

\* The types of everything the steps read.
LEMMA JFacts ==
  ASSUME JInv
  PROVE  /\ LpPoolOK
         /\ JlpPool \in Venues /\ VenueMint[JlpPool] \in Mints
         /\ protocol[JlpPool] \in Nat /\ others[VenueMint[JlpPool]] \in Nat
         /\ DOMAIN total_shares = DOMAIN position
         /\ DOMAIN lp_token_account = DOMAIN position
         /\ \A k \in DOMAIN position :
               /\ k \in PositionKeys /\ pool[k] \in Nat
               /\ lp_token_account[k] \in Amount /\ lp_token_account[k] \in Nat
               /\ total_shares[k] \in Amount /\ total_shares[k] \in Nat
<1>1. JlpPool \in Venues /\ VenueMint[JlpPool] \in Mints
  BY JupiterAssumption
<1>2. protocol[JlpPool] \in Nat /\ others[VenueMint[JlpPool]] \in Nat
  BY <1>1 DEF JInv, Inv, TypeOK
<1>3. QED
  BY <1>1, <1>2, DispatcherAssumption DEF JInv, JTypeOK, LpPoolOK, Inv, TypeOK, Amount

\* A deposit buys a natural number of LP tokens, whatever the rate.
LEMMA LpForNat ==
  ASSUME JInv, TakesLiquidity, NEW amount \in Nat
  PROVE  LpFor(amount) \in Nat
  BY JFacts, QuotientNat DEF LpFor, TakesLiquidity, LpPoolOK

\* LP tokens stand for no more than the whole pool.
LEMMA PartOfAum ==
  ASSUME JInv, NEW lp \in Nat \ {0}, lp <= lp_supply
  PROVE  PartOf(lp) \in Nat /\ PartOf(lp) <= aum
<1>1. lp_supply \in Nat \ {0} /\ aum \in Nat
  BY JFacts DEF LpPoolOK
<1>2. QED
  BY <1>1, QuotientNat, PartBelowWhole DEF PartOf

\* Steps that leave the books alone, and the LP tokens or all but what is sent.
LEMMA JUntouched ==
  ASSUME JInv, [Next]_vars, LpPoolOK',
         UNCHANGED <<position, total_shares, lp_token_account>>
  PROVE  JHolds
<1>1. Inv'
  BY NextInv DEF JInv
<1>2. JTypeOK'
  BY <1>1 DEF JInv, JTypeOK, Inv, LpPoolOK
<1>3. JFullExitStep
  BY JFacts DEF JFullExitStep
<1>4. UNCHANGED JCustody!vars
  BY DEF JCustody!vars
<1>5. QED
  BY <1>2, <1>3, <1>4 DEF JHolds

\* What is left to show when a position's account holds n LP tokens after the
\* step and nothing leaves another position's books.
LEMMA JMoved ==
  ASSUME JInv, [Next]_vars, LpPoolOK', position' = position,
         NEW k \in DOMAIN position, NEW n \in Amount,
         lp_token_account' = [lp_token_account EXCEPT ![k] = n],
         \A q \in DOMAIN position \ {k} : total_shares'[q] = total_shares[q]
  PROVE  /\ JTypeOK'
         /\ total_shares'[k] >= total_shares[k] => JFullExitStep
<1>1. Inv'
  BY NextInv DEF JInv
<1>2. lp_token_account' \in [DOMAIN position -> Amount]
  BY DEF JInv, JTypeOK
<1>3. JTypeOK'
  BY <1>1, <1>2 DEF JInv, JTypeOK, Inv, LpPoolOK
<1>4. ASSUME total_shares'[k] >= total_shares[k] PROVE JFullExitStep
  <2>1. \A q \in DOMAIN position : ~(total_shares'[q] < total_shares[q])
    <3>1. ASSUME NEW q \in DOMAIN position PROVE ~(total_shares'[q] < total_shares[q])
      <4>1. total_shares[q] \in Nat /\ total_shares'[q] \in Nat
        BY <1>1, DispatcherAssumption, JFacts DEF Inv, TypeOK, Amount
      <4>2. total_shares'[q] >= total_shares[q]
        BY <1>4, <4>1
      <4>3. QED
        BY <4>1, <4>2
    <3>2. QED
      BY <3>1
  <2>2. QED
    BY <2>1 DEF JFullExitStep
<1>5. QED
  BY <1>3, <1>4

\* deposit: what the CPI adds to the token account is what is booked.
LEMMA JDepositStep ==
  ASSUME JInv, NEW owner \in Keys, NEW amount \in Amount, NEW fee \in Fees,
         JDeposit(owner, amount, fee)
  PROVE  JHolds
<1> DEFINE k == <<owner, Jupiter>>
           bought == LpFor(amount - fee)
           minted == LpMinted(lp_token_account[k], lp_token_account[k] + bought)
<1>1. /\ amount > 0 /\ PoolBound(owner)
      /\ wallet[<<owner, position[k]>>] >= amount
      /\ TakesLiquidity /\ fee <= amount
      /\ total_shares[k] + minted <= MaxU64
      /\ MayMint(k, bought)
      /\ DepositEffect(owner, Jupiter, amount, amount, minted)
      /\ lp_token_account' = [lp_token_account EXCEPT ![k] = @ + bought]
      /\ lp_supply' = lp_supply + bought
      /\ AumBecomes(aum + amount)
      /\ lp_elsewhere' = lp_elsewhere
  BY DEF JDeposit, AddLiquidity
<1>2. Movable(owner, Jupiter) /\ k \in DOMAIN position
  BY <1>1 DEF PoolBound, Movable
<1>3. amount \in Nat /\ fee \in Nat /\ amount - fee \in Nat
  BY <1>1, DispatcherAssumption, JupiterAssumption DEF Amount
<1>4. bought \in Nat
  BY <1>1, <1>3, LpForNat
<1> HIDE DEF bought
<1>5. minted = bought
  BY <1>2, <1>4, JFacts DEF LpMinted
<1>6. minted \in 0..(MaxU64 - total_shares[k]) /\ amount \in 0..amount
  BY <1>1, <1>2, <1>3, <1>4, <1>5, JFacts, DispatcherAssumption
<1>7. Deposit(owner, Jupiter, amount)
  BY <1>1, <1>2, <1>6 DEF Deposit
<1>8. Next
  BY <1>7, JupiterAssumption DEF Next
<1>9. LpPoolOK'
  BY <1>1, <1>3, <1>4, JFacts DEF LpPoolOK, AumBecomes
<1>10. /\ position' = position
       /\ total_shares' = [total_shares EXCEPT ![k] = total_shares[k] + bought]
       /\ lp_token_account' = [lp_token_account EXCEPT ![k] = lp_token_account[k] + bought]
  BY <1>1, <1>5 DEF DepositEffect
<1>11. lp_token_account[k] + bought \in Amount
  BY <1>1, <1>2, <1>4, JFacts, DispatcherAssumption DEF Amount, MayMint
<1> HIDE DEF k, minted
<1>12. /\ \A q \in DOMAIN position \ {k} : total_shares'[q] = total_shares[q]
       /\ total_shares'[k] >= total_shares[k]
  BY <1>2, <1>4, <1>10, JFacts
<1>13. JTypeOK' /\ JFullExitStep
  BY <1>2, <1>8, <1>9, <1>10, <1>11, <1>12, JMoved
<1>14. JCustody!Mint(k, bought)
  BY <1>2, <1>10, <1>11, JFacts DEF JCustody!Mint
<1>15. k \in PositionKeys /\ bought \in Amount
  BY <1>2, <1>4, <1>11, JFacts, DispatcherAssumption DEF Amount
<1>16. JCustody!Next
  BY <1>14, <1>15 DEF JCustody!Next
<1>17. QED
  BY <1>8, <1>13, <1>16 DEF JHolds

\* withdraw: no more than is booked, at the pool's rate less the fee.
LEMMA JWithdrawStep ==
  ASSUME JInv, NEW owner \in Keys, NEW shares \in Amount, NEW fee \in Fees,
         JWithdraw(owner, shares, fee)
  PROVE  JHolds
<1> DEFINE k == <<owner, Jupiter>>
           w == <<owner, position[k]>>
           redeemed == PartOf(shares) - fee
<1>1. /\ shares > 0 /\ PoolBound(owner)
      /\ shares <= total_shares[k] /\ shares <= lp_token_account[k]
      /\ shares <= lp_supply
      /\ redeemed \in 0..protocol[JlpPool]
      /\ WithdrawEffect(owner, Jupiter, shares, redeemed,
                        JAmountOut(pool[k], pool[k] + redeemed))
      /\ lp_token_account' = [lp_token_account EXCEPT ![k] = @ - shares]
      /\ lp_supply' = lp_supply - shares
      /\ AumBecomes(aum - redeemed)
      /\ lp_elsewhere' = lp_elsewhere
  BY DEF JWithdraw, JMayWithdraw, Removable, RemoveLiquidity
<1>2. /\ Movable(owner, Jupiter) /\ k \in DOMAIN position /\ venue[k] = JlpPool
      /\ k = <<owner, Jupiter>>
  BY <1>1 DEF PoolBound, Movable
<1>3. shares \in Nat \ {0} /\ fee \in Nat
  BY <1>1, DispatcherAssumption, JupiterAssumption DEF Amount
<1>4. PartOf(shares) \in Nat /\ PartOf(shares) <= aum
  BY <1>1, <1>3, PartOfAum
<1>5. redeemed \in Nat /\ redeemed <= aum
  BY <1>1, <1>3, <1>4, JFacts DEF LpPoolOK
<1>6. JAmountOut(pool[k], pool[k] + redeemed) = redeemed
  BY <1>2, <1>5, JFacts DEF JAmountOut
<1>7. Burned(shares, total_shares[k]) = shares
  BY <1>1 DEF Burned
<1>8. Withdraw(owner, Jupiter, shares)
  BY <1>1, <1>2, <1>6, <1>7 DEF Withdraw
<1>9. Next
  BY <1>8, JupiterAssumption DEF Next
<1>10. LpPoolOK'
  BY <1>1, <1>3, <1>5, JFacts DEF LpPoolOK, AumBecomes
<1>11. /\ position' = position
       /\ total_shares' = [total_shares EXCEPT ![k] = total_shares[k] - shares]
       /\ lp_token_account' = [lp_token_account EXCEPT ![k] = lp_token_account[k] - shares]
       /\ wallet' = [wallet EXCEPT ![w] = wallet[w] + redeemed]
  BY <1>1, <1>6 DEF WithdrawEffect
<1>12. wallet'[w] - wallet[w] = redeemed
  <2>1. wallet[w] \in Nat /\ w \in DOMAIN wallet
    BY <1>2 DEF JInv, Inv, TypeOK
  <2>2. QED
    BY <1>5, <1>11, <2>1
<1>13. lp_token_account[k] - shares \in Amount
  BY <1>1, <1>2, <1>3, JFacts, DispatcherAssumption DEF Amount
<1>14. k[1] = owner
  OBVIOUS
<1> HIDE DEF k
<1>15. \A q \in DOMAIN position \ {k} : total_shares'[q] = total_shares[q]
  BY <1>11, JFacts
<1>16. JTypeOK'
  BY <1>2, <1>9, <1>10, <1>11, <1>13, <1>15, JMoved
<1>17. JFullExitStep
  <2>1. SUFFICES ASSUME NEW q \in DOMAIN position,
                        total_shares'[q] < total_shares[q],
                        lp_token_account'[q] = 0, aum_usd = aum
                 PROVE  \E f \in Fees :
                           wallet'[<<q[1], position[q]>>] - wallet[<<q[1], position[q]>>]
                             = LpValue(q) - f
    BY DEF JFullExitStep
  <2>2. q = k
    BY <1>15, <2>1, JFacts
  <2>3. lp_token_account[k] = shares
    BY <1>2, <1>3, <1>11, <2>1, <2>2, JFacts
  <2>4. LpValue(q) = PartOf(shares)
    BY <1>3, <2>1, <2>2, <2>3 DEF LpValue, LpValueUsdc, PartOf
  <2>5. QED
    BY <1>12, <1>14, <2>2, <2>4
<1>18. JCustody!Burn(k, shares, shares)
  BY <1>1, <1>2, <1>3, <1>11, JFacts DEF JCustody!Burn
<1>19. k \in PositionKeys /\ shares \in 0..shares
  BY <1>2, <1>3, JFacts
<1>20. JCustody!Next
  BY <1>18, <1>19 DEF JCustody!Next
<1>21. QED
  BY <1>9, <1>16, <1>17, <1>20 DEF JHolds

\* open_position creates the state and the token account, both empty.
LEMMA JOpenPositionStep ==
  ASSUME JInv, NEW owner \in Keys, NEW mint \in Mints, NEW chosen \in Venues,
         JOpenPosition(owner, mint, chosen)
  PROVE  JHolds
<1> DEFINE k == <<owner, Jupiter>>
<1>1. /\ OpenPosition(owner, Jupiter, mint, chosen)
      /\ position' = Create(position, k, mint)
      /\ total_shares' = Create(total_shares, k, 0)
      /\ lp_token_account' = Create(lp_token_account, k, 0)
      /\ k \notin DOMAIN position
      /\ UNCHANGED <<lp_elsewhere, lp_supply, aum, aum_usd>>
  BY DEF JOpenPosition, OpenPosition
<1>2. Next
  BY <1>1, JupiterAssumption DEF Next
<1>3. Inv'
  BY <1>2, NextInv DEF JInv
<1>4. k \in Keys \X {Jupiter} /\ k \in PositionKeys
  BY JupiterAssumption DEF PositionKeys
<1> HIDE DEF k
<1>5. DOMAIN position' = DOMAIN position \cup {k}
  BY <1>1, CreateAdds
<1>6. lp_token_account' \in [DOMAIN position' -> Amount]
  BY <1>1, <1>5, DispatcherAssumption DEF Create, JInv, JTypeOK, Amount
<1>7. JTypeOK'
  BY <1>1, <1>3, <1>4, <1>5, <1>6 DEF JInv, JTypeOK, Inv
<1>8. \A q \in DOMAIN position : total_shares'[q] = total_shares[q]
  BY <1>1, JFacts DEF Create
<1>9. JFullExitStep
  BY <1>8, JFacts DEF JFullExitStep
<1>10. JCustody!Open(k)
  BY <1>1, JFacts DEF JCustody!Open, JCustody!Opened, Create
<1>11. JCustody!Next
  BY <1>4, <1>10 DEF JCustody!Next
<1>12. QED
  BY <1>2, <1>7, <1>9, <1>11 DEF JHolds

\* LP tokens sent to a position are held and not booked.
LEMMA SendLpStep ==
  ASSUME JInv, NEW k \in DOMAIN position, NEW lp \in Amount, SendLp(k, lp)
  PROVE  JHolds
<1>1. /\ lp <= lp_elsewhere
      /\ lp_token_account[k] + lp <= MaxU64
      /\ lp_token_account' = [lp_token_account EXCEPT ![k] = @ + lp]
      /\ lp_elsewhere' = lp_elsewhere - lp
      /\ UNCHANGED <<vars, lp_supply, aum, aum_usd>>
  BY DEF SendLp
<1>2. lp \in Nat
  BY DispatcherAssumption DEF Amount
<1>3. lp_token_account[k] + lp \in Amount
  BY <1>1, <1>2, JFacts, DispatcherAssumption DEF Amount
<1>4. LpPoolOK'
  BY <1>1, <1>2, JFacts DEF LpPoolOK
<1>5. UNCHANGED <<position, total_shares>>
  BY <1>1 DEF vars, fundVars
<1>6. JTypeOK' /\ JFullExitStep
  <2>1. lp_token_account' = [lp_token_account EXCEPT ![k] = lp_token_account[k] + lp]
    BY <1>1
  <2>2. total_shares'[k] >= total_shares[k]
    BY <1>5, JFacts
  <2>3. QED
    BY <1>1, <1>3, <1>4, <1>5, <2>1, <2>2, JMoved
<1>7. JCustody!Receive(k, lp)
  BY <1>1, <1>3, <1>5, JFacts DEF JCustody!Receive
<1>8. JCustody!Next
  BY <1>7, JFacts DEF JCustody!Next
<1>9. QED
  BY <1>1, <1>6, <1>8 DEF JHolds

\* Amounts others move in and out of the custody are the dispatcher's.
LEMMA CustodyFlow ==
  ASSUME JInv, NEW amount \in Nat,
         ProtocolInflow(JlpPool, amount) \/ ProtocolOutflow(JlpPool, amount)
  PROVE  Next /\ UNCHANGED <<position, total_shares>>
<1>1. /\ ProtocolInflow(JlpPool, amount) => amount \in 0..others[VenueMint[JlpPool]]
      /\ ProtocolOutflow(JlpPool, amount) => amount \in 0..protocol[JlpPool]
  BY JFacts DEF ProtocolInflow, ProtocolOutflow
<1>2. JlpPool \in {u \in Venues : VenueMint[u] \in Mints}
  BY JFacts
<1>3. Next
  BY <1>1, <1>2 DEF Next
<1>4. QED
  BY <1>3 DEF ProtocolInflow, ProtocolOutflow

\* The pool's other users and its prices leave positions alone.
LEMMA JPoolStep ==
  ASSUME JInv, NEW amount \in Amount,
         OthersAdd(amount) \/ OthersRemove(amount) \/ TradersPay(amount) \/ PricesMove
  PROVE  JHolds
<1>1. amount \in Nat
  BY DispatcherAssumption DEF Amount
<1>2. CASE OthersAdd(amount)
  <2>1. /\ TakesLiquidity
        /\ ProtocolInflow(JlpPool, amount)
        /\ lp_elsewhere' = lp_elsewhere + LpFor(amount)
        /\ lp_supply' = lp_supply + LpFor(amount)
        /\ AumBecomes(aum + amount)
        /\ lp_token_account' = lp_token_account
    BY <1>2 DEF OthersAdd
  <2>2. LpPoolOK'
    BY <1>1, <2>1, LpForNat, JFacts DEF LpPoolOK, AumBecomes
  <2>3. QED
    BY <1>1, <2>1, <2>2, CustodyFlow, JUntouched
<1>3. CASE OthersRemove(amount)
  <2>1. /\ amount \in 1..lp_elsewhere /\ amount <= lp_supply
        /\ ProtocolOutflow(JlpPool, PartOf(amount))
        /\ lp_elsewhere' = lp_elsewhere - amount
        /\ lp_supply' = lp_supply - amount
        /\ AumBecomes(aum - PartOf(amount))
        /\ lp_token_account' = lp_token_account
    BY <1>3 DEF OthersRemove
  <2>2. PartOf(amount) \in Nat /\ PartOf(amount) <= aum
    BY <1>1, <2>1, PartOfAum
  <2>3. LpPoolOK'
    BY <1>1, <2>1, <2>2, JFacts DEF LpPoolOK, AumBecomes
  <2>4. QED
    BY <2>1, <2>2, <2>3, CustodyFlow, JUntouched
<1>4. CASE TradersPay(amount)
  <2>1. /\ ProtocolInflow(JlpPool, amount) \/ ProtocolOutflow(JlpPool, amount)
        /\ UNCHANGED <<lp_token_account, lp_elsewhere, lp_supply, aum, aum_usd>>
    BY <1>4 DEF TradersPay, jupiterVars
  <2>2. LpPoolOK'
    BY <2>1, JFacts DEF LpPoolOK
  <2>3. QED
    BY <1>1, <2>1, <2>2, CustodyFlow, JUntouched
<1>5. CASE PricesMove
  <2>1. /\ aum' \in 0..MaxAum
        /\ UNCHANGED <<vars, lp_token_account, lp_elsewhere, lp_supply, aum_usd>>
    BY <1>5 DEF PricesMove
  <2>2. LpPoolOK'
    BY <2>1, JFacts, JupiterAssumption DEF LpPoolOK
  <2>3. UNCHANGED <<position, total_shares>>
    BY <2>1 DEF vars, fundVars
  <2>4. QED
    BY <2>1, <2>2, <2>3, JUntouched
<1>6. QED
  BY <1>2, <1>3, <1>4, <1>5

\* Registry steps, donations to a pool and stuttering leave the JLP pool alone.
LEMMA JSharedStep ==
  ASSUME JInv, [Next]_vars, UNCHANGED jupiterVars, UNCHANGED <<position, total_shares>>
  PROVE  JHolds
<1>1. UNCHANGED <<lp_token_account, lp_elsewhere, lp_supply, aum, aum_usd>>
  BY DEF jupiterVars
<1>2. LpPoolOK'
  BY <1>1, JFacts DEF LpPoolOK
<1>3. QED
  BY <1>1, <1>2, JUntouched

\* Nothing exists at the start, and the pool is without LP tokens.
LEMMA JInitInv == JInit => JInv /\ JCustody!Init
<1> SUFFICES ASSUME JInit PROVE JInv /\ JCustody!Init
  OBVIOUS
<1>1. Inv
  BY InitInv DEF JInit
<1>2. DOMAIN position = {} /\ lp_token_account \in [DOMAIN position -> Amount]
  BY DEF JInit, Init, NoAccounts
<1>3. LpPoolOK
  BY DEF JInit, LpPoolOK
<1>4. JInv
  BY <1>1, <1>2, <1>3 DEF JInv, JTypeOK, LpPoolOK, Inv
<1>5. JCustody!Init
  BY DEF JInit, Init, NoAccounts, JCustody!Init
<1>6. QED
  BY <1>4, <1>5

\* Every step is one of the dispatcher and of ShareCustody or none, keeps the
\* invariant, and pays what was reported when it empties the account.
LEMMA JNextStep == JInv /\ [JNext]_jvars => JHolds
<1> SUFFICES ASSUME JInv, [JNext]_jvars PROVE JHolds
  OBVIOUS
<1>1. CASE RegistryNext /\ UNCHANGED <<fundVars, jupiterVars>>
  <2>1. Next
    BY <1>1 DEF Next, fundVars
  <2>2. QED
    BY <1>1, <2>1, JSharedStep DEF fundVars
<1>2. CASE JOwnerStep
  BY <1>2, JOpenPositionStep, JDepositStep, JWithdrawStep DEF JOwnerStep
<1>3. CASE JOthersStep
  <2>1. 0 \in Amount
    BY DispatcherAssumption DEF Amount
  <2>2. QED
    BY <1>3, <2>1, SendLpStep, JPoolStep DEF JOthersStep
<1>4. CASE \E k \in DOMAIN position, amount \in Amount :
              DonateToPool(k, amount) /\ UNCHANGED jupiterVars
  <2>1. PICK k \in DOMAIN position, amount \in Amount :
               DonateToPool(k, amount) /\ UNCHANGED jupiterVars
    BY <1>4
  <2>2. Next
    BY <2>1, JFacts DEF Next
  <2>3. QED
    BY <2>1, <2>2, JSharedStep DEF DonateToPool
<1>5. CASE UNCHANGED jvars
  BY <1>5, JSharedStep DEF jvars, vars, fundVars
<1>6. QED
  BY <1>1, <1>2, <1>3, <1>4, <1>5 DEF JNext

\* The invariant is inductive.
LEMMA JNextInv == JInv /\ [JNext]_jvars => JInv'
<1>1. SUFFICES ASSUME JInv, [JNext]_jvars PROVE JInv'
  OBVIOUS
<1>2. JHolds
  BY <1>1, JNextStep
<1>3. Inv'
  BY <1>1, <1>2, NextInv DEF JHolds, JInv
<1>4. QED
  BY <1>2, <1>3 DEF JHolds, JInv

\* jupiter-lp's invariant holds in every reachable state.
THEOREM JInvariant == JSpec => []JInv
  BY JInitInv, JNextInv, PTL DEF JSpec

\* The accounts of jupiter-lp and the pool keep their types.
THEOREM JTypeCorrect == JSpec => []JTypeOK
<1>1. JInv => JTypeOK
  BY DEF JInv
<1>2. QED
  BY <1>1, JInvariant, PTL

\* While the stored AUM is the current one, a withdrawal of all a position's
\* account holds pays the reported value less the fee, at any rate.
THEOREM JFullExitIsPaid == JSpec => JFullExitPaysValue
<1>1. JInv /\ [JNext]_jvars => [JFullExitStep]_jvars
  BY JNextStep DEF JHolds
<1>2. QED
  BY <1>1, JInvariant, PTL DEF JSpec, JFullExitPaysValue

\* The jupiter-lp adapter behind the dispatcher implements the dispatcher over
\* an arbitrary adapter.
THEOREM JupiterImplementsDispatcher == JSpec => Spec
<1>1. JInit => Init
  BY DEF JInit
<1>2. JInv /\ [JNext]_jvars => [Next]_vars
  BY JNextStep DEF JHolds
<1>3. QED
  BY <1>1, <1>2, JInvariant, PTL DEF JSpec, Spec

\* The adapter keeps custody of the LP tokens as ShareCustody promises.
THEOREM JupiterKeepsCustody == JSpec => JKeepsCustody
<1>1. JInv /\ [JNext]_jvars => [JCustody!Next]_(JCustody!vars)
  BY JNextStep DEF JHolds
<1>2. QED
  BY <1>1, JInitInv, JInvariant, PTL DEF JSpec, JKeepsCustody, JCustody!Spec

-----------------------------------------------------------------------------
(* Whose the LP tokens are, and what they let out *)

\* The supply of the LP mint is in the positions' accounts and elsewhere.
LpAddsUp ==
  /\ IsFiniteSet(DOMAIN position)
  /\ lp_supply = lp_elsewhere + SumFunctionOnSet(lp_token_account, DOMAIN position)

\* Every booked LP token is in the account.
LpBacked == \A k \in DOMAIN position : total_shares[k] <= lp_token_account[k]

\* The inductive invariant of the exit.
LpInv == JInv /\ LpAddsUp /\ LpBacked

\* A step that changes at most one account, and the supply by as much as that
\* account and the rest.
LEMMA OneAccountChanges ==
  ASSUME LpInv, NEW k \in DOMAIN position, NEW n \in Nat,
         lp_token_account' = [lp_token_account EXCEPT ![k] = n], position' = position,
         lp_elsewhere' \in Nat, lp_supply' \in Nat,
         (lp_supply' - lp_elsewhere') + lp_token_account[k] = (lp_supply - lp_elsewhere) + n
  PROVE  LpAddsUp'
<1> DEFINE v == lp_token_account
           w == lp_token_account'
           D == DOMAIN position
<1>1. /\ IsFiniteSet(D) /\ \A y \in D : v[y] \in Nat /\ w[y] \in Nat
      /\ \A y \in D \ {k} : v[y] = w[y]
      /\ w[k] = n /\ v[k] = lp_token_account[k] /\ k \in D
  BY JFacts DEF LpInv, LpAddsUp
<1>2. lp_supply = lp_elsewhere + SumFunctionOnSet(v, D)
  BY DEF LpInv, LpAddsUp
<1>3. lp_supply \in Nat /\ lp_elsewhere \in Nat
  BY JFacts DEF LpInv, LpPoolOK
<1> HIDE DEF v, w, D
<1>4. SumFunctionOnSet(w, D) + v[k] = SumFunctionOnSet(v, D) + w[k]
  BY <1>1, SumChange
<1>5. SumFunctionOnSet(w, D) \in Nat /\ SumFunctionOnSet(v, D) \in Nat
  BY <1>1, SumNat
<1>6. lp_supply' = lp_elsewhere' + SumFunctionOnSet(w, D)
  BY <1>1, <1>2, <1>3, <1>4, <1>5
<1>7. QED
  BY <1>1, <1>6 DEF LpAddsUp, w, D

\* A step that leaves the accounts alone.
LEMMA AccountsRest ==
  ASSUME LpInv, position' = position, lp_token_account' = lp_token_account,
         lp_elsewhere' \in Nat, lp_supply' \in Nat,
         lp_supply' - lp_elsewhere' = lp_supply - lp_elsewhere
  PROVE  LpAddsUp'
<1>1. SumFunctionOnSet(lp_token_account, DOMAIN position) \in Nat
  BY SumNat, JFacts DEF LpInv, LpAddsUp
<1>2. lp_supply \in Nat /\ lp_elsewhere \in Nat
  BY JFacts DEF LpInv, LpPoolOK
<1>3. QED
  BY <1>1, <1>2 DEF LpInv, LpAddsUp

\* deposit mints what it adds to the account.
LEMMA JDepositAddsUp ==
  ASSUME LpInv, LpPoolOK', NEW owner \in Keys, NEW amount \in Amount, NEW fee \in Fees,
         JDeposit(owner, amount, fee)
  PROVE  LpAddsUp'
<1> DEFINE k == <<owner, Jupiter>>
           bought == LpFor(amount - fee)
<1>1. /\ k \in DOMAIN position /\ position' = position
      /\ TakesLiquidity /\ fee <= amount
      /\ lp_token_account' = [lp_token_account EXCEPT ![k] = @ + bought]
      /\ lp_supply' = lp_supply + bought /\ lp_elsewhere' = lp_elsewhere
  BY DEF JDeposit, PoolBound, Movable, AddLiquidity, DepositEffect
<1>2. amount - fee \in Nat /\ JInv
  BY <1>1, DispatcherAssumption, JupiterAssumption DEF LpInv, Amount
<1>3. bought \in Nat
  BY <1>1, <1>2, LpForNat
<1> HIDE DEF k, bought
<1>4. /\ lp_token_account[k] \in Nat /\ DOMAIN lp_token_account = DOMAIN position
      /\ lp_supply \in Nat /\ lp_elsewhere \in Nat
  BY <1>1, <1>2, JFacts DEF LpPoolOK
<1>5. lp_token_account' = [lp_token_account EXCEPT ![k] = lp_token_account[k] + bought]
  BY <1>1, <1>4
<1>6. /\ lp_token_account[k] + bought \in Nat
      /\ (lp_supply' - lp_elsewhere') + lp_token_account[k]
           = (lp_supply - lp_elsewhere) + (lp_token_account[k] + bought)
  BY <1>1, <1>3, <1>4
<1>7. QED
  BY <1>1, <1>5, <1>6, OneAccountChanges DEF LpPoolOK

\* withdraw burns what it takes from the account.
LEMMA JWithdrawalAddsUp ==
  ASSUME LpInv, LpPoolOK', NEW owner \in Keys, NEW shares \in Amount, NEW fee \in Fees,
         JWithdraw(owner, shares, fee)
  PROVE  LpAddsUp'
<1> DEFINE k == <<owner, Jupiter>>
<1>1. /\ k \in DOMAIN position /\ position' = position
      /\ shares <= lp_token_account[k]
      /\ lp_token_account' = [lp_token_account EXCEPT ![k] = @ - shares]
      /\ lp_supply' = lp_supply - shares /\ lp_elsewhere' = lp_elsewhere
  BY DEF JWithdraw, JMayWithdraw, Removable, PoolBound, Movable, RemoveLiquidity, WithdrawEffect
<1>2. shares \in Nat /\ JInv
  BY DispatcherAssumption DEF LpInv, Amount
<1> HIDE DEF k
<1>3. /\ lp_token_account[k] \in Nat /\ DOMAIN lp_token_account = DOMAIN position
      /\ lp_supply \in Nat /\ lp_elsewhere \in Nat
  BY <1>1, <1>2, JFacts DEF LpPoolOK
<1>4. lp_token_account' = [lp_token_account EXCEPT ![k] = lp_token_account[k] - shares]
  BY <1>1, <1>3
<1>5. /\ lp_token_account[k] - shares \in Nat
      /\ (lp_supply' - lp_elsewhere') + lp_token_account[k]
           = (lp_supply - lp_elsewhere) + (lp_token_account[k] - shares)
  BY <1>1, <1>2, <1>3
<1>6. QED
  BY <1>1, <1>4, <1>5, OneAccountChanges DEF LpPoolOK

\* open_position adds an empty account.
LEMMA JOpeningAddsUp ==
  ASSUME LpInv, NEW owner \in Keys, NEW mint \in Mints, NEW chosen \in Venues,
         JOpenPosition(owner, mint, chosen)
  PROVE  LpAddsUp'
<1> DEFINE k == <<owner, Jupiter>>
           v == lp_token_account
           w == lp_token_account'
           D == DOMAIN position
<1>1. /\ lp_token_account' = Create(lp_token_account, k, 0)
      /\ position' = Create(position, k, mint) /\ k \notin D
      /\ UNCHANGED <<lp_elsewhere, lp_supply>>
  BY DEF JOpenPosition, OpenPosition
<1> HIDE DEF k
<1>2. DOMAIN position' = D \cup {k}
  BY <1>1, CreateAdds
<1>3. /\ IsFiniteSet(D) /\ w[k] = 0
      /\ \A y \in D : v[y] \in Nat /\ w[y] = v[y]
  BY <1>1, JFacts DEF LpInv, LpAddsUp, Create
<1>4. lp_supply = lp_elsewhere + SumFunctionOnSet(v, D)
  BY DEF LpInv, LpAddsUp
<1> HIDE DEF v, w, D
<1>5. SumFunctionOnSet(w, D \cup {k}) = w[k] + SumFunctionOnSet(v, D)
  BY <1>1, <1>3, SumAdd
<1>6. SumFunctionOnSet(w, D \cup {k}) = SumFunctionOnSet(v, D)
  BY <1>3, <1>5, SumNat
<1>7. IsFiniteSet(D \cup {k})
  BY <1>3, FS_AddElement
<1>8. QED
  BY <1>1, <1>2, <1>4, <1>6, <1>7 DEF LpAddsUp, w

\* LP tokens that are sent change accounts, and the pool's other users hold theirs
\* elsewhere.
LEMMA JOthersAddUp ==
  ASSUME LpInv, LpPoolOK', JOthersStep
  PROVE  LpAddsUp'
<1>1. /\ JInv /\ lp_supply \in Nat /\ lp_elsewhere \in Nat
      /\ lp_supply' \in Nat /\ lp_elsewhere' \in Nat
  BY JFacts DEF LpInv, LpPoolOK
<1>2. ASSUME NEW k \in DOMAIN position, NEW lp \in Amount, SendLp(k, lp)
      PROVE  LpAddsUp'
  <2>1. /\ lp_token_account' = [lp_token_account EXCEPT ![k] = @ + lp]
        /\ lp_elsewhere' = lp_elsewhere - lp /\ lp_supply' = lp_supply
        /\ position' = position
    BY <1>2 DEF SendLp, vars, fundVars
  <2>2. /\ lp \in Nat /\ lp_token_account[k] \in Nat
        /\ DOMAIN lp_token_account = DOMAIN position
    BY <1>1, JFacts, DispatcherAssumption DEF Amount
  <2>3. lp_token_account' = [lp_token_account EXCEPT ![k] = lp_token_account[k] + lp]
    BY <2>1, <2>2
  <2>4. /\ lp_token_account[k] + lp \in Nat
        /\ (lp_supply' - lp_elsewhere') + lp_token_account[k]
             = (lp_supply - lp_elsewhere) + (lp_token_account[k] + lp)
    BY <1>1, <2>1, <2>2
  <2>5. QED
    BY <1>1, <2>1, <2>3, <2>4, OneAccountChanges
<1>3. ASSUME NEW amount \in Amount, OthersAdd(amount)
      PROVE  LpAddsUp'
  <2>1. /\ lp_elsewhere' = lp_elsewhere + LpFor(amount)
        /\ lp_supply' = lp_supply + LpFor(amount) /\ TakesLiquidity
        /\ lp_token_account' = lp_token_account /\ position' = position
    BY <1>3 DEF OthersAdd, ProtocolInflow
  <2>2. LpFor(amount) \in Nat
    BY <1>1, <2>1, LpForNat, DispatcherAssumption DEF Amount
  <2>3. lp_supply' - lp_elsewhere' = lp_supply - lp_elsewhere
    BY <1>1, <2>1, <2>2
  <2>4. QED
    BY <1>1, <2>1, <2>3, AccountsRest
<1>4. ASSUME NEW lp \in Amount, OthersRemove(lp)
      PROVE  LpAddsUp'
  <2>1. /\ lp_elsewhere' = lp_elsewhere - lp /\ lp_supply' = lp_supply - lp
        /\ lp_token_account' = lp_token_account /\ position' = position
    BY <1>4 DEF OthersRemove, ProtocolOutflow
  <2>2. lp \in Nat
    BY DispatcherAssumption DEF Amount
  <2>3. lp_supply' - lp_elsewhere' = lp_supply - lp_elsewhere
    BY <1>1, <2>1, <2>2
  <2>4. QED
    BY <1>1, <2>1, <2>3, AccountsRest
<1>5. ASSUME UNCHANGED <<position, lp_token_account, lp_elsewhere, lp_supply>>
      PROVE  LpAddsUp'
  BY <1>1, <1>5, AccountsRest
<1>6. CASE PricesMove \/ \E amount \in Amount : TradersPay(amount)
  BY <1>5, <1>6 DEF PricesMove, TradersPay, ProtocolInflow, ProtocolOutflow, jupiterVars,
                    vars, fundVars
<1>7. QED
  BY <1>2, <1>3, <1>4, <1>6 DEF JOthersStep

\* A step of ShareCustody keeps every booked token in its account.
LEMMA CustodyKeepsBacked ==
  ASSUME LpInv, JInv', [JCustody!Next]_(JCustody!vars)
  PROVE  LpBacked'
<1> DEFINE b == total_shares
           h == lp_token_account
<1>1. /\ DOMAIN b = DOMAIN position /\ DOMAIN h = DOMAIN position
      /\ \A q \in DOMAIN b : b[q] \in Nat /\ h[q] \in Nat /\ b[q] <= h[q]
  BY JFacts DEF LpInv, LpBacked
<1>2. DOMAIN b' = DOMAIN position'
  BY DEF JInv, Inv, TypeOK
<1>3. ASSUME NEW k \in PositionKeys, JCustody!Open(k)
      PROVE  \A q \in DOMAIN b' : b'[q] <= h'[q]
  BY <1>1, <1>3 DEF JCustody!Open, JCustody!Opened
<1>4. ASSUME NEW k \in PositionKeys, NEW n \in Amount,
             \/ JCustody!Mint(k, n) \/ JCustody!Receive(k, n)
             \/ \E spent \in 0..n : JCustody!Burn(k, n, spent)
      PROVE  \A q \in DOMAIN b' : b'[q] <= h'[q]
  <2>1. n \in Nat
    BY DispatcherAssumption DEF Amount
  <2>2. QED
    BY <1>1, <1>4, <2>1 DEF JCustody!Mint, JCustody!Receive, JCustody!Burn
<1>5. CASE UNCHANGED JCustody!vars
  BY <1>1, <1>2, <1>5 DEF JCustody!vars, LpBacked
<1>6. \A q \in DOMAIN b' : b'[q] <= h'[q]
  BY <1>1, <1>3, <1>4, <1>5 DEF JCustody!Next, JCustody!vars
<1>7. QED
  BY <1>2, <1>6 DEF LpBacked

\* Every step keeps all three.
LEMMA LpNextInv == LpInv /\ [JNext]_jvars => LpInv'
<1> SUFFICES ASSUME LpInv, [JNext]_jvars PROVE LpInv'
  OBVIOUS
<1>1. JInv' /\ JHolds
  BY JNextInv, JNextStep DEF LpInv
<1>2. LpPoolOK'
  BY <1>1 DEF JInv, JTypeOK, LpPoolOK
<1>3. SUFFICES LpAddsUp'
  BY <1>1, CustodyKeepsBacked DEF JHolds, LpInv
<1>4. ASSUME UNCHANGED <<position, lp_token_account, lp_elsewhere, lp_supply>>
      PROVE  LpAddsUp'
  <2>1. lp_supply \in Nat /\ lp_elsewhere \in Nat
    BY JFacts DEF LpInv, LpPoolOK
  <2>2. QED
    BY <1>4, <2>1, AccountsRest
<1>5. CASE RegistryNext /\ UNCHANGED <<fundVars, jupiterVars>>
  BY <1>4, <1>5 DEF fundVars, jupiterVars
<1>6. CASE JOwnerStep
  BY <1>2, <1>6, JOpeningAddsUp, JDepositAddsUp, JWithdrawalAddsUp DEF JOwnerStep
<1>7. CASE JOthersStep
  BY <1>2, <1>7, JOthersAddUp
<1>8. CASE \E k \in DOMAIN position, amount \in Amount :
              DonateToPool(k, amount) /\ UNCHANGED jupiterVars
  BY <1>4, <1>8 DEF DonateToPool, jupiterVars
<1>9. CASE UNCHANGED jvars
  BY <1>4, <1>9 DEF jvars, vars, fundVars, jupiterVars
<1>10. QED
  BY <1>5, <1>6, <1>7, <1>8, <1>9 DEF JNext

\* No LP token exists at the start.
LEMMA LpInitInv == JInit => LpInv
<1> SUFFICES ASSUME JInit PROVE LpAddsUp /\ LpBacked
  BY JInitInv DEF LpInv
<1>1. DOMAIN position = {}
  BY DEF JInit, Init, NoAccounts
<1>2. SumFunctionOnSet(lp_token_account, {}) = 0
  BY SumEmpty
<1>3. IsFiniteSet({})
  BY FS_EmptySet
<1>4. QED
  BY <1>1, <1>2, <1>3 DEF JInit, LpAddsUp, LpBacked

\* All LP tokens of the pool are in the positions' accounts or somebody else's:
\* add_liquidity2 and remove_liquidity2, as the adapter calls them, neither create
\* nor strand one, whatever fees, prices and gifts come between.
THEOREM LpIsAccounted == JSpec => []LpAddsUp
<1>1. JSpec => []LpInv
  BY LpInitInv, LpNextInv, PTL DEF JSpec
<1>2. LpInv => LpAddsUp
  BY DEF LpInv
<1>3. QED
  BY <1>1, <1>2, PTL

\* A position's value is at most its LP tokens' part of the stored AUM.
LEMMA ValueOfAccount ==
  ASSUME LpInv, NEW k \in DOMAIN position
  PROVE  /\ LpValue(k) \in Nat /\ lp_token_account[k] \in Nat
         /\ LpValue(k) * lp_supply <= lp_token_account[k] * aum_usd
         /\ lp_supply = 0 => LpValue(k) = 0
<1> DEFINE D == DOMAIN position
           v == lp_token_account
<1>1. /\ k \in D /\ IsFiniteSet(D) /\ \A q \in D : v[q] \in Nat
      /\ lp_supply \in Nat /\ lp_elsewhere \in Nat /\ aum_usd \in Nat
  BY JFacts DEF LpInv, LpAddsUp, LpPoolOK
<1>2. lp_supply = lp_elsewhere + SumFunctionOnSet(v, D)
  BY DEF LpInv, LpAddsUp
<1>3. LpValue(k) = IF v[k] = 0 THEN 0 ELSE (v[k] * aum_usd) \div lp_supply
  BY DEF LpValue, LpValueUsdc
<1> HIDE DEF D, v
<1>4. v[k] \in Nat /\ v[k] <= lp_supply
  <2>1. v[k] <= SumFunctionOnSet(v, D) /\ SumFunctionOnSet(v, D) \in Nat /\ v[k] \in Nat
    BY <1>1, SumAbove, SumNat
  <2>2. QED
    BY <1>1, <1>2, <2>1
<1>5. /\ LpValue(k) \in Nat
      /\ LpValue(k) * lp_supply <= v[k] * aum_usd
      /\ lp_supply = 0 => LpValue(k) = 0
  <2>1. CASE v[k] = 0
    BY <1>1, <1>3, <2>1
  <2>2. CASE v[k] # 0
    <3>1. lp_supply \in Nat \ {0} /\ v[k] * aum_usd \in Nat
      BY <1>1, <1>4, <2>2, TimesNat
    <3>2. QED
      BY <1>3, <2>2, <3>1, QuotientBounds
  <2>3. QED
    BY <2>1, <2>2
<1>6. QED
  BY <1>4, <1>5 DEF v

\* The values reported for the positions, all of them together, are within the AUM
\* the pool has stored, for any number of positions, gifts, fees and prices.
THEOREM LpAlwaysCovered == JSpec => []LpCovered
<1>1. LpInv => LpCovered
  <2> SUFFICES ASSUME LpInv PROVE LpCovered
    OBVIOUS
  <2> DEFINE D == DOMAIN position
             v == lp_token_account
             values == [k \in D |-> LpValue(k)]
  <2>1. /\ lp_supply \in Nat /\ aum_usd \in Nat /\ lp_elsewhere \in Nat
        /\ IsFiniteSet(D) /\ \A k \in D : v[k] \in Nat
    BY JFacts DEF LpInv, LpPoolOK, LpAddsUp
  <2>2. lp_supply = lp_elsewhere + SumFunctionOnSet(v, D)
    BY DEF LpInv, LpAddsUp
  <2>3. \A k \in D : /\ values[k] \in Nat /\ v[k] \in Nat
                     /\ values[k] * lp_supply <= v[k] * aum_usd
                     /\ lp_supply = 0 => values[k] = 0
    BY ValueOfAccount
  <2>4. LpCovered <=> SumFunctionOnSet(values, D) <= aum_usd
    BY DEF LpCovered
  <2> HIDE DEF D, v, values
  <2>5. SumFunctionOnSet(v, D) <= lp_supply
    <3>1. SumFunctionOnSet(v, D) \in Nat
      BY <2>1, SumNat
    <3>2. QED
      BY <2>1, <2>2, <3>1
  <2>6. QED
    BY <2>1, <2>3, <2>4, <2>5, PartsFit
<1>2. JSpec => []LpInv
  BY LpInitInv, LpNextInv, PTL DEF JSpec
<1>3. QED
  BY <1>1, <1>2, PTL

\* What JExitNeverBlocked promises, as the checks a withdrawal has to pass: whenever
\* the route is open and the custody holds the part the booked tokens stand for, a
\* withdrawal of all of them passes, at every fee the part can pay.
JExitPasses ==
  \A k \in DOMAIN position :
     LET shares == total_shares[k] IN
     /\ PoolBound(k[1]) /\ shares > 0
     /\ lp_supply > 0 => PartOf(shares) <= protocol[JlpPool]
     => \A fee \in Fees : fee <= PartOf(shares) => JMayWithdraw(k[1], shares, fee)

\* Books, account and mint never disagree so as to keep an owner in.
THEOREM JExitAlwaysPasses == JSpec => []JExitPasses
<1>1. JSpec => []LpInv
  BY LpInitInv, LpNextInv, PTL DEF JSpec
<1>2. LpInv => JExitPasses
  <2> SUFFICES ASSUME LpInv, NEW k \in DOMAIN position, NEW fee \in Fees,
                      PoolBound(k[1]), total_shares[k] > 0,
                      lp_supply > 0 => PartOf(total_shares[k]) <= protocol[JlpPool],
                      fee <= PartOf(total_shares[k])
               PROVE  JMayWithdraw(k[1], total_shares[k], fee)
    BY DEF JExitPasses
  <2> DEFINE shares == total_shares[k]
             v == lp_token_account
             D == DOMAIN position
  <2>1. JInv /\ k = <<k[1], Jupiter>>
    BY DEF LpInv, JInv, JTypeOK
  <2>2. /\ shares \in Nat \ {0} /\ shares <= v[k]
        /\ lp_supply \in Nat /\ lp_elsewhere \in Nat
        /\ IsFiniteSet(D) /\ \A q \in D : v[q] \in Nat
    BY <2>1, JFacts DEF LpInv, LpBacked, LpAddsUp, LpPoolOK
  <2>3. lp_supply = lp_elsewhere + SumFunctionOnSet(v, D)
    BY DEF LpInv, LpAddsUp
  <2>4. k \in D
    OBVIOUS
  <2> HIDE DEF D, v
  <2>5. v[k] <= SumFunctionOnSet(v, D) /\ SumFunctionOnSet(v, D) \in Nat /\ v[k] \in Nat
    BY <2>2, <2>4, SumAbove, SumNat
  <2>6. shares <= lp_supply /\ lp_supply > 0
    BY <2>2, <2>3, <2>5
  <2>7. PartOf(shares) \in Nat /\ protocol[JlpPool] \in Nat /\ fee \in Nat
    BY <2>1, <2>2, <2>6, PartOfAum, JFacts, JupiterAssumption
  <2>8. PartOf(shares) - fee \in 0..protocol[JlpPool]
    BY <2>6, <2>7
  <2>9. QED
    BY <2>1, <2>2, <2>6, <2>8 DEF JMayWithdraw, Removable, v
<1>3. QED
  BY <1>1, <1>2, PTL

-----------------------------------------------------------------------------
(* maple-syrup *)

\* The inductive invariant.
SInv == Inv /\ STypeOK

\* The whirlpool's part of STypeOK.
WhirlpoolOK == vault_a \in Nat /\ syrup_elsewhere \in Nat /\ sqrt_price \in SqrtPrice

\* What every step is shown to do.
SHolds ==
  /\ [Next]_vars
  /\ STypeOK'
  /\ PayoutStep
  /\ [SCustody!Next]_(SCustody!vars)

\* The types of everything the steps read.
LEMMA SFacts ==
  ASSUME SInv
  PROVE  /\ WhirlpoolOK
         /\ sqrt_price \in Nat \ {0} /\ ONE \in Nat \ {0}
         /\ Whirlpool \in Venues /\ VenueMint[Whirlpool] \in Mints
         /\ protocol[Whirlpool] \in Nat /\ others[VenueMint[Whirlpool]] \in Nat
         /\ DOMAIN total_shares = DOMAIN position
         /\ DOMAIN syrup_token_account = DOMAIN position
         /\ \A k \in DOMAIN position :
               /\ k \in PositionKeys /\ pool[k] \in Nat
               /\ syrup_token_account[k] \in Amount /\ syrup_token_account[k] \in Nat
               /\ total_shares[k] \in Amount /\ total_shares[k] \in Nat
<1>1. Whirlpool \in Venues /\ VenueMint[Whirlpool] \in Mints /\ ONE \in Nat \ {0}
  BY MapleAssumption
<1>2. protocol[Whirlpool] \in Nat /\ others[VenueMint[Whirlpool]] \in Nat
  BY <1>1 DEF SInv, Inv, TypeOK
<1>3. WhirlpoolOK /\ sqrt_price \in Nat \ {0}
  BY MapleAssumption DEF SInv, STypeOK, WhirlpoolOK, SqrtPrice
<1>4. QED
  BY <1>1, <1>2, <1>3, DispatcherAssumption DEF SInv, STypeOK, Inv, TypeOK, Amount

\* What a swap at the spot price can pay at most is the reported value of its
\* input, or more by no more than the price's root rounded up.
LEMMA StagedShifts ==
  ASSUME NEW n \in Nat, NEW s \in Nat, NEW one \in Nat \ {0}, NEW got \in Nat,
         got * (one * one) <= n * (s * s)
  PROVE  got <= (((n * s) \div one) * s) \div one + (s + one - 1) \div one
<1> DEFINE q == (n * s) \div one
           r == (q * s) \div one
           c == (s + one - 1) \div one
<1>1. n * s \in Nat
  OBVIOUS
<1>2. q \in Nat /\ n * s <= one * q + one - 1
  BY <1>1
<1> HIDE DEF q
<1>3. q * s \in Nat
  BY <1>2
<1>4. r \in Nat /\ q * s <= one * r + one - 1
  BY <1>3
<1>5. c \in Nat /\ s <= one * c
  OBVIOUS
<1> HIDE DEF r, c
<1>6. SUFFICES ASSUME got >= r + c + 1 PROVE FALSE
  BY <1>4, <1>5 DEF q, r, c
<1>7. (n * s) * s <= (one * q + one - 1) * s
  <2>1. one * q + one - 1 \in Nat
    BY <1>2
  <2>2. QED
    BY <1>1, <1>2, <2>1, TimesMonotone
<1>8. (one * q + one - 1) * s = one * (q * s) + (one - 1) * s
  BY <1>2
<1>9. one * (q * s) <= one * (one * r + one - 1)
  <2>1. one * r + one - 1 \in Nat
    BY <1>4
  <2>2. QED
    BY <1>3, <1>4, <2>1, TimesMonotone
<1>10. (one - 1) * s <= one * (one * c)
  <2>1. one - 1 \in Nat /\ one - 1 <= one /\ one * c \in Nat
    BY <1>5
  <2>2. QED
    BY <1>5, <2>1, TimesMonotone
<1>11. one * (one * r + one - 1) + one * (one * c)
         = (r + c + 1) * (one * one) - one
  BY <1>4, <1>5
<1>12. (r + c + 1) * (one * one) <= got * (one * one)
  <2>1. r + c + 1 \in Nat /\ one * one \in Nat
    BY <1>4, <1>5
  <2>2. QED
    BY <1>6, <2>1, TimesMonotone
<1>13. n * (s * s) = (n * s) * s
  OBVIOUS
<1> DEFINE x1 == (n * s) * s
           x2 == one * (q * s)
           x3 == (one - 1) * s
           x4 == one * (one * r + one - 1)
           x5 == one * (one * c)
           x6 == (r + c + 1) * (one * one)
           x7 == got * (one * one)
<1>14. /\ x1 \in Int /\ x2 \in Int /\ x3 \in Int /\ x4 \in Int
       /\ x5 \in Int /\ x6 \in Int /\ x7 \in Int
  BY <1>2, <1>4, <1>5
<1>15. /\ x7 <= x1 /\ x1 <= x2 + x3 /\ x2 <= x4 /\ x3 <= x5
       /\ x4 + x5 = x6 - one /\ x6 <= x7
  <2>1. x7 <= x1
    BY <1>13, Zenon
  <2>2. x1 <= x2 + x3
    BY <1>7, <1>8, Zenon
  <2>3. QED
    BY <1>9, <1>10, <1>11, <1>12, <2>1, <2>2, Zenon
<1> HIDE DEF x1, x2, x3, x4, x5, x6, x7
<1>16. QED
  BY <1>14, <1>15

\* Steps that leave the books and the syrupUSDC of the positions alone.
LEMMA SUntouched ==
  ASSUME SInv, [Next]_vars, WhirlpoolOK',
         UNCHANGED <<position, total_shares, syrup_token_account>>
  PROVE  SHolds
<1>1. Inv'
  BY NextInv DEF SInv
<1>2. STypeOK'
  BY <1>1 DEF SInv, STypeOK, Inv, WhirlpoolOK
<1>3. PayoutStep
  BY SFacts DEF PayoutStep
<1>4. UNCHANGED SCustody!vars
  BY DEF SCustody!vars
<1>5. QED
  BY <1>2, <1>3, <1>4 DEF SHolds

\* What is left to show when a position's account holds n syrupUSDC after the
\* step and no other position's books change.
LEMMA SMoved ==
  ASSUME SInv, [Next]_vars, WhirlpoolOK', position' = position,
         NEW k \in DOMAIN position, NEW n \in Amount,
         syrup_token_account' = [syrup_token_account EXCEPT ![k] = n],
         \A q \in DOMAIN position \ {k} : total_shares'[q] = total_shares[q]
  PROVE  /\ STypeOK'
         /\ total_shares'[k] >= total_shares[k] => PayoutStep
<1>1. Inv'
  BY NextInv DEF SInv
<1>2. syrup_token_account' \in [DOMAIN position -> Amount]
  BY DEF SInv, STypeOK
<1>3. STypeOK'
  BY <1>1, <1>2 DEF SInv, STypeOK, Inv, WhirlpoolOK
<1>4. ASSUME total_shares'[k] >= total_shares[k] PROVE PayoutStep
  <2>1. ASSUME NEW q \in DOMAIN position PROVE ~(total_shares'[q] < total_shares[q])
    <3>1. total_shares[q] \in Nat /\ total_shares'[q] \in Nat
      BY <1>1, DispatcherAssumption, SFacts DEF Inv, TypeOK, Amount
    <3>2. total_shares'[q] >= total_shares[q]
      BY <1>4, <3>1
    <3>3. QED
      BY <3>1, <3>2
  <2>2. QED
    BY <2>1 DEF PayoutStep
<1>5. QED
  BY <1>3, <1>4

\* deposit: what the swap pays is booked, whatever it took.
LEMMA SDepositStep ==
  ASSUME SInv, NEW owner \in Keys, NEW amount \in Amount, NEW spent \in Amount,
         NEW got \in Amount, SDeposit(owner, amount, spent, got)
  PROVE  SHolds
<1> DEFINE k == <<owner, Maple>>
           minted == SyrupMinted(syrup_token_account[k], syrup_token_account[k] + got)
<1>1. /\ amount > 0 /\ WhirlpoolBound(owner)
      /\ wallet[<<owner, position[k]>>] >= amount
      /\ SwapBToA(amount, spent, got)
      /\ total_shares[k] + minted <= MaxU64
      /\ syrup_token_account[k] + got <= MaxU64
      /\ DepositEffect(owner, Maple, amount, spent, minted)
      /\ syrup_token_account' = [syrup_token_account EXCEPT ![k] = @ + got]
      /\ vault_a' = vault_a - got
      /\ syrup_elsewhere' = syrup_elsewhere
  BY DEF SDeposit
<1>2. Movable(owner, Maple) /\ k \in DOMAIN position
  BY <1>1 DEF WhirlpoolBound, Movable
<1>3. amount \in Nat /\ spent \in Nat /\ got \in Nat
  BY DispatcherAssumption DEF Amount
<1>4. spent <= amount /\ got <= vault_a /\ sqrt_price' \in sqrt_price..MAX_SQRT_PRICE
  BY <1>1 DEF SwapBToA
<1>5. minted = got
  BY <1>2, <1>3, SFacts DEF SyrupMinted
<1>6. minted \in 0..(MaxU64 - total_shares[k]) /\ spent \in 0..amount
  BY <1>1, <1>2, <1>3, <1>4, <1>5, SFacts, DispatcherAssumption
<1>7. Deposit(owner, Maple, amount)
  BY <1>1, <1>2, <1>6 DEF Deposit
<1>8. Next
  BY <1>7, MapleAssumption DEF Next
<1>9. WhirlpoolOK'
  <2>1. sqrt_price' \in SqrtPrice
    BY <1>4, SFacts, MapleAssumption DEF WhirlpoolOK, SqrtPrice
  <2>2. QED
    BY <1>1, <1>3, <1>4, <2>1, SFacts DEF WhirlpoolOK
<1>10. /\ position' = position
       /\ total_shares' = [total_shares EXCEPT ![k] = total_shares[k] + got]
       /\ syrup_token_account'
            = [syrup_token_account EXCEPT ![k] = syrup_token_account[k] + got]
  BY <1>1, <1>5 DEF DepositEffect
<1>11. syrup_token_account[k] + got \in Amount
  BY <1>1, <1>2, <1>3, SFacts, DispatcherAssumption DEF Amount
<1> HIDE DEF k, minted
<1>12. /\ \A q \in DOMAIN position \ {k} : total_shares'[q] = total_shares[q]
       /\ total_shares'[k] >= total_shares[k]
  BY <1>2, <1>3, <1>10, SFacts
<1>13. STypeOK' /\ PayoutStep
  BY <1>2, <1>8, <1>9, <1>10, <1>11, <1>12, SMoved
<1>14. SCustody!Mint(k, got)
  BY <1>2, <1>10, <1>11, SFacts DEF SCustody!Mint
<1>15. SCustody!Next
  BY <1>2, <1>14, SFacts DEF SCustody!Next
<1>16. QED
  BY <1>8, <1>13, <1>15 DEF SHolds

\* withdraw: the books lose what was asked for, the account what the swap took,
\* and the owner gets no more than the value of that.
LEMMA SWithdrawStep ==
  ASSUME SInv, NEW owner \in Keys, NEW shares \in Amount, NEW spent \in Amount,
         NEW got \in Amount, SWithdraw(owner, shares, spent, got)
  PROVE  SHolds
<1> DEFINE k == <<owner, Maple>>
           w == <<owner, position[k]>>
           held == syrup_token_account[k]
<1>1. /\ shares > 0 /\ WhirlpoolBound(owner)
      /\ shares <= total_shares[k] /\ spent <= held
      /\ SwapAToB(shares, spent, got)
      /\ WithdrawEffect(owner, Maple, shares, got, SAmountOut(pool[k], pool[k] + got))
      /\ syrup_token_account' = [syrup_token_account EXCEPT ![k] = @ - spent]
      /\ vault_a' = vault_a + spent
      /\ syrup_elsewhere' = syrup_elsewhere
  BY DEF SWithdraw
<1>2. /\ Movable(owner, Maple) /\ k \in DOMAIN position /\ venue[k] = Whirlpool
      /\ k[1] = owner
  BY <1>1 DEF WhirlpoolBound, Movable
<1>3. shares \in Nat \ {0} /\ spent \in Nat /\ got \in Nat
  BY <1>1, DispatcherAssumption DEF Amount
<1>4. /\ spent <= shares /\ got <= protocol[Whirlpool]
      /\ sqrt_price' \in MIN_SQRT_PRICE..sqrt_price
      /\ got * (ONE * ONE) <= spent * (sqrt_price * sqrt_price)
  BY <1>1 DEF SwapAToB
<1>5. SAmountOut(pool[k], pool[k] + got) = got
  BY <1>2, <1>3, SFacts DEF SAmountOut
<1>6. Burned(shares, total_shares[k]) = shares
  BY <1>1 DEF Burned
<1>7. Withdraw(owner, Maple, shares)
  <2>1. got \in 0..protocol[venue[k]]
    BY <1>2, <1>3, <1>4, SFacts
  <2>2. WithdrawEffect(owner, Maple, Burned(shares, total_shares[k]), got, got)
    BY <1>1, <1>5, <1>6
  <2>3. QED
    BY <1>1, <1>2, <2>1, <2>2 DEF Withdraw
<1>8. Next
  BY <1>7, MapleAssumption DEF Next
<1>9. WhirlpoolOK'
  <2>1. sqrt_price' \in SqrtPrice
    BY <1>4, SFacts, MapleAssumption DEF WhirlpoolOK, SqrtPrice
  <2>2. QED
    BY <1>1, <1>3, <2>1, SFacts DEF WhirlpoolOK
<1>10. /\ position' = position
       /\ total_shares' = [total_shares EXCEPT ![k] = total_shares[k] - shares]
       /\ syrup_token_account' = [syrup_token_account EXCEPT ![k] = held - spent]
       /\ wallet' = [wallet EXCEPT ![w] = wallet[w] + got]
  BY <1>1, <1>5 DEF WithdrawEffect
<1>11. wallet'[w] - wallet[w] = got
  <2>1. wallet[w] \in Nat /\ w \in DOMAIN wallet
    BY <1>2 DEF SInv, Inv, TypeOK
  <2>2. QED
    BY <1>3, <1>10, <2>1
<1>12. held - spent \in Amount
  BY <1>1, <1>2, <1>3, SFacts, DispatcherAssumption DEF Amount
<1>13. got <= SyrupValue(k) + (sqrt_price + ONE - 1) \div ONE
  <2>1. held \in Nat /\ sqrt_price \in Nat /\ ONE \in Nat \ {0}
    BY <1>2, SFacts
  <2>2. spent * (sqrt_price * sqrt_price) <= held * (sqrt_price * sqrt_price)
    <3>1. sqrt_price * sqrt_price \in Nat
      BY <2>1
    <3>2. QED
      BY <1>1, <1>3, <2>1, <3>1, TimesMonotone
  <2>3. got * (ONE * ONE) <= held * (sqrt_price * sqrt_price)
    <3>1. /\ got * (ONE * ONE) \in Int
          /\ spent * (sqrt_price * sqrt_price) \in Int
          /\ held * (sqrt_price * sqrt_price) \in Int
      BY <1>3, <2>1
    <3>2. QED
      BY <1>4, <2>2, <3>1
  <2>4. QED
    BY <1>3, <2>1, <2>3, StagedShifts DEF SyrupValue, WhirlpoolValueUsdc
<1> HIDE DEF k
<1>14. \A q \in DOMAIN position \ {k} : total_shares'[q] = total_shares[q]
  BY <1>10, SFacts
<1>15. STypeOK'
  BY <1>2, <1>8, <1>9, <1>10, <1>12, <1>14, SMoved
<1>16. PayoutStep
  <2>1. SUFFICES ASSUME NEW q \in DOMAIN position, total_shares'[q] < total_shares[q]
                 PROVE  wallet'[<<q[1], position[q]>>] - wallet[<<q[1], position[q]>>]
                          <= SyrupValue(q) + (sqrt_price + ONE - 1) \div ONE
    BY DEF PayoutStep
  <2>2. q = k
    BY <1>14, <2>1, SFacts
  <2>3. QED
    BY <1>2, <1>11, <1>13, <2>2
<1>17. SCustody!Burn(k, shares, spent)
  BY <1>1, <1>2, <1>3, <1>4, <1>10, SFacts DEF SCustody!Burn
<1>18. k \in PositionKeys /\ spent \in 0..shares
  BY <1>2, <1>3, <1>4, SFacts
<1>19. SCustody!Next
  BY <1>17, <1>18 DEF SCustody!Next
<1>20. QED
  BY <1>8, <1>15, <1>16, <1>19 DEF SHolds

\* open_position creates the state and the token account, both empty.
LEMMA SOpenPositionStep ==
  ASSUME SInv, NEW owner \in Keys, NEW mint \in Mints, NEW chosen \in Venues,
         SOpenPosition(owner, mint, chosen)
  PROVE  SHolds
<1> DEFINE k == <<owner, Maple>>
<1>1. /\ OpenPosition(owner, Maple, mint, chosen)
      /\ position' = Create(position, k, mint)
      /\ total_shares' = Create(total_shares, k, 0)
      /\ syrup_token_account' = Create(syrup_token_account, k, 0)
      /\ k \notin DOMAIN position
      /\ UNCHANGED <<vault_a, syrup_elsewhere, sqrt_price>>
  BY DEF SOpenPosition, OpenPosition
<1>2. Next
  BY <1>1, MapleAssumption DEF Next
<1>3. Inv'
  BY <1>2, NextInv DEF SInv
<1>4. k \in Keys \X {Maple} /\ k \in PositionKeys
  BY MapleAssumption DEF PositionKeys
<1> HIDE DEF k
<1>5. DOMAIN position' = DOMAIN position \cup {k}
  BY <1>1, CreateAdds
<1>6. syrup_token_account' \in [DOMAIN position' -> Amount]
  BY <1>1, <1>5, DispatcherAssumption DEF Create, SInv, STypeOK, Amount
<1>7. STypeOK'
  BY <1>1, <1>3, <1>4, <1>5, <1>6 DEF SInv, STypeOK, Inv
<1>8. \A q \in DOMAIN position : total_shares'[q] = total_shares[q]
  BY <1>1, SFacts DEF Create
<1>9. PayoutStep
  BY <1>8, SFacts DEF PayoutStep
<1>10. SCustody!Open(k)
  BY <1>1, SFacts DEF SCustody!Open, SCustody!Opened, Create
<1>11. SCustody!Next
  BY <1>4, <1>10 DEF SCustody!Next
<1>12. QED
  BY <1>2, <1>7, <1>9, <1>11 DEF SHolds

\* syrupUSDC sent to a position is held and not booked.
LEMMA SendSyrupStep ==
  ASSUME SInv, NEW k \in DOMAIN position, NEW n \in Amount, SendSyrup(k, n)
  PROVE  SHolds
<1>1. /\ n <= syrup_elsewhere
      /\ syrup_token_account[k] + n <= MaxU64
      /\ syrup_token_account' = [syrup_token_account EXCEPT ![k] = @ + n]
      /\ syrup_elsewhere' = syrup_elsewhere - n
      /\ UNCHANGED <<vars, vault_a, sqrt_price>>
  BY DEF SendSyrup
<1>2. n \in Nat
  BY DispatcherAssumption DEF Amount
<1>3. syrup_token_account[k] + n \in Amount
  BY <1>1, <1>2, SFacts, DispatcherAssumption DEF Amount
<1>4. WhirlpoolOK'
  BY <1>1, <1>2, SFacts DEF WhirlpoolOK, SqrtPrice
<1>5. UNCHANGED <<position, total_shares>>
  BY <1>1 DEF vars, fundVars
<1>6. STypeOK' /\ PayoutStep
  <2>1. syrup_token_account'
          = [syrup_token_account EXCEPT ![k] = syrup_token_account[k] + n]
    BY <1>1
  <2>2. total_shares'[k] >= total_shares[k]
    BY <1>5, SFacts
  <2>3. QED
    BY <1>1, <1>3, <1>4, <1>5, <2>1, <2>2, SMoved
<1>7. SCustody!Receive(k, n)
  BY <1>1, <1>3, <1>5, SFacts DEF SCustody!Receive
<1>8. SCustody!Next
  BY <1>7, SFacts DEF SCustody!Next
<1>9. QED
  BY <1>1, <1>6, <1>8 DEF SHolds

\* The whirlpool's other users move its tokens and its price.
LEMMA OthersSwapStep ==
  ASSUME SInv, OthersSwap
  PROVE  SHolds
<1>1. PICK n \in 0..syrup_elsewhere + vault_a :
         vault_a' = n /\ syrup_elsewhere' = syrup_elsewhere + vault_a - n
  BY DEF OthersSwap
<1>2. PICK usdc \in Amount :
         ProtocolInflow(Whirlpool, usdc) \/ ProtocolOutflow(Whirlpool, usdc)
  BY DEF OthersSwap
<1>3. sqrt_price' \in SqrtPrice /\ syrup_token_account' = syrup_token_account
  BY DEF OthersSwap
<1>4. WhirlpoolOK'
  BY <1>1, <1>3, SFacts DEF WhirlpoolOK, SqrtPrice
<1>5. /\ ProtocolInflow(Whirlpool, usdc) => usdc \in 0..others[VenueMint[Whirlpool]]
      /\ ProtocolOutflow(Whirlpool, usdc) => usdc \in 0..protocol[Whirlpool]
  BY SFacts, DispatcherAssumption DEF ProtocolInflow, ProtocolOutflow, Amount
<1>6. Whirlpool \in {u \in Venues : VenueMint[u] \in Mints}
  BY SFacts
<1>7. Next
  BY <1>2, <1>5, <1>6 DEF Next
<1>8. UNCHANGED <<position, total_shares>>
  BY <1>2 DEF ProtocolInflow, ProtocolOutflow
<1>9. QED
  BY <1>3, <1>4, <1>7, <1>8, SUntouched

\* Registry steps, donations to a pool and stuttering leave the whirlpool alone.
LEMMA SSharedStep ==
  ASSUME SInv, [Next]_vars, UNCHANGED mapleVars, UNCHANGED <<position, total_shares>>
  PROVE  SHolds
<1>1. UNCHANGED <<syrup_token_account, vault_a, syrup_elsewhere, sqrt_price>>
  BY DEF mapleVars
<1>2. WhirlpoolOK'
  BY <1>1, SFacts DEF WhirlpoolOK, SqrtPrice
<1>3. QED
  BY <1>1, <1>2, SUntouched

\* No position exists at the start.
LEMMA SInitInv == SInit => SInv /\ SCustody!Init
<1> SUFFICES ASSUME SInit PROVE SInv /\ SCustody!Init
  OBVIOUS
<1>1. Inv
  BY InitInv DEF SInit
<1>2. DOMAIN position = {} /\ syrup_token_account \in [DOMAIN position -> Amount]
  BY DEF SInit, Init, NoAccounts
<1>3. WhirlpoolOK
  BY MapleAssumption DEF SInit, WhirlpoolOK, SqrtPrice
<1>4. SInv
  BY <1>1, <1>2, <1>3 DEF SInv, STypeOK, WhirlpoolOK, Inv
<1>5. SCustody!Init
  BY DEF SInit, Init, NoAccounts, SCustody!Init
<1>6. QED
  BY <1>4, <1>5

\* Every step is one of the dispatcher and of ShareCustody or none, keeps the
\* invariant, and pays no more than the reported value and the price's root.
LEMMA SNextStep == SInv /\ [SNext]_svars => SHolds
<1> SUFFICES ASSUME SInv, [SNext]_svars PROVE SHolds
  OBVIOUS
<1>1. CASE RegistryNext /\ UNCHANGED <<fundVars, mapleVars>>
  <2>1. Next
    BY <1>1 DEF Next, fundVars
  <2>2. QED
    BY <1>1, <2>1, SSharedStep DEF fundVars
<1>2. CASE SOwnerStep
  BY <1>2, SOpenPositionStep, SDepositStep, SWithdrawStep DEF SOwnerStep
<1>3. CASE SOthersStep
  BY <1>3, SendSyrupStep, OthersSwapStep DEF SOthersStep
<1>4. CASE \E k \in DOMAIN position, amount \in Amount :
              DonateToPool(k, amount) /\ UNCHANGED mapleVars
  <2>1. PICK k \in DOMAIN position, amount \in Amount :
               DonateToPool(k, amount) /\ UNCHANGED mapleVars
    BY <1>4
  <2>2. Next
    BY <2>1, SFacts DEF Next
  <2>3. QED
    BY <2>1, <2>2, SSharedStep DEF DonateToPool
<1>5. CASE UNCHANGED svars
  BY <1>5, SSharedStep DEF svars, vars, fundVars
<1>6. QED
  BY <1>1, <1>2, <1>3, <1>4, <1>5 DEF SNext

\* The invariant is inductive.
LEMMA SNextInv == SInv /\ [SNext]_svars => SInv'
<1>1. SUFFICES ASSUME SInv, [SNext]_svars PROVE SInv'
  OBVIOUS
<1>2. SHolds
  BY <1>1, SNextStep
<1>3. Inv'
  BY <1>1, <1>2, NextInv DEF SHolds, SInv
<1>4. QED
  BY <1>2, <1>3 DEF SHolds, SInv

\* maple-syrup's invariant holds in every reachable state.
THEOREM SInvariant == SSpec => []SInv
  BY SInitInv, SNextInv, PTL DEF SSpec

\* The accounts of maple-syrup and the whirlpool keep their types.
THEOREM STypeCorrect == SSpec => []STypeOK
<1>1. SInv => STypeOK
  BY DEF SInv
<1>2. QED
  BY <1>1, SInvariant, PTL

\* The reported value falls short of what a withdrawal can pay by the root of
\* the price at most, for any fixed-point scale, price and balance.
THEOREM PayoutIsWithinValue == SSpec => PayoutWithinValue
<1>1. SInv /\ [SNext]_svars => [PayoutStep]_svars
  BY SNextStep DEF SHolds
<1>2. QED
  BY <1>1, SInvariant, PTL DEF SSpec, PayoutWithinValue

\* The maple-syrup adapter behind the dispatcher implements the dispatcher over
\* an arbitrary adapter.
THEOREM MapleImplementsDispatcher == SSpec => Spec
<1>1. SInit => Init
  BY DEF SInit
<1>2. SInv /\ [SNext]_svars => [Next]_vars
  BY SNextStep DEF SHolds
<1>3. QED
  BY <1>1, <1>2, SInvariant, PTL DEF SSpec, Spec

\* The adapter keeps custody of the syrupUSDC as ShareCustody promises, swaps
\* that stop half-way included.
THEOREM MapleKeepsCustody == SSpec => SKeepsCustody
<1>1. SInv /\ [SNext]_svars => [SCustody!Next]_(SCustody!vars)
  BY SNextStep DEF SHolds
<1>2. QED
  BY <1>1, SInitInv, SInvariant, PTL DEF SSpec, SKeepsCustody, SCustody!Spec
=============================================================================
