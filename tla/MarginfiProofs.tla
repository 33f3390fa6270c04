--------------------------- MODULE MarginfiProofs ---------------------------
(***************************************************************************)
(* Proofs about module MarginfiUsdc: its type invariant, that interest is  *)
(* never stranded and a full exit pays it, that the reported value never   *)
(* exceeds the redeemable one, and that the adapter implements Dispatcher. *)
(* About MarginfiEvents: that what the events of a position add up to is   *)
(* never above its books, and when the two part.                           *)
(***************************************************************************)
EXTENDS MarginfiEvents, DispatcherProofs, ArithmeticProofs

\* The inductive invariant.
MInv == Inv /\ MTypeOK /\ NothingStranded

\* The banks' part of MTypeOK.
BankOK ==
  /\ bank \in [Banks -> Bank]
  /\ \A b \in Banks : bank[b].last_update <= slot

\* What every step is shown to do.
Holds == [Next]_vars /\ MTypeOK' /\ NothingStranded' /\ FullExitStep

-----------------------------------------------------------------------------
(* What the invariant says of the state an instruction starts from *)

\* Accruing interest keeps a bank a bank and never lowers its share value.
LEMMA AccruedFacts ==
  ASSUME BankOK, slot \in 0..MaxSlot, NEW b \in Banks
  PROVE  /\ Accrued(b) \in Nat \ {0}
         /\ bank[b].asset_share_value \in Nat
         /\ bank[b].asset_share_value <= Accrued(b)
         /\ AccruedBank(b) \in Bank
         /\ AccruedBank(b).last_update = slot
<1> DEFINE dt == slot - bank[b].last_update
<1>1. /\ bank[b].asset_share_value \in Nat \ {0}
      /\ dt \in Nat
  BY MarginfiAssumption DEF BankOK, Bank
<1> HIDE DEF dt
<1>2. Growth * dt \in Nat
  BY <1>1, TimesNat, MarginfiAssumption
<1>3. Accrued(b) = bank[b].asset_share_value + Growth * dt
  BY DEF Accrued, dt
<1>4. Accrued(b) \in Nat \ {0} /\ bank[b].asset_share_value <= Accrued(b)
  BY <1>1, <1>2, <1>3
<1>5. QED
  BY <1>1, <1>4 DEF AccruedBank, Bank

\* The types of everything the instructions read.
LEMMA MFacts ==
  ASSUME MInv
  PROVE  /\ BankOK
         /\ slot \in 0..MaxSlot
         /\ \A b \in Banks : b \in Venues /\ VenueMint[b] \in Mints /\ protocol[b] \in Nat
         /\ \A k \in DOMAIN position :
               /\ asset_shares[k] \in Nat /\ pool[k] \in Nat /\ total_shares[k] \in Nat
               /\ total_shares[k] \in Amount
  BY MarginfiAssumption, DispatcherAssumption
  DEF MInv, MTypeOK, BankOK, Inv, TypeOK, Amount

\* A bank that was touched is a bank that was computed in this slot.
LEMMA TouchedBank ==
  ASSUME MInv, NEW b \in Banks, NEW new \in Bank, new.last_update = slot,
         bank' = [bank EXCEPT ![b] = new], slot' = slot
  PROVE  BankOK'
<1>1. bank \in [Banks -> Bank] /\ slot \in 0..MaxSlot
  BY MFacts DEF BankOK
<1>2. bank' \in [Banks -> Bank]
  BY <1>1
<1>3. ASSUME NEW c \in Banks PROVE bank'[c].last_update <= slot'
  <2>1. CASE c = b
    BY <1>1, <2>1, MarginfiAssumption
  <2>2. CASE c # b
    BY <1>1, <2>2, MFacts DEF BankOK
  <2>3. QED
    BY <2>1, <2>2
<1>4. QED
  BY <1>2, <1>3 DEF BankOK

\* A bank whose interest was accrued is such a bank.
LEMMA AccruedStaysBank ==
  ASSUME MInv, NEW b \in Banks, bank' = [bank EXCEPT ![b] = AccruedBank(b)], slot' = slot
  PROVE  BankOK'
  BY MFacts, AccruedFacts, TouchedBank

\* Steps that leave the books and the shares in the banks alone.
LEMMA BooksUntouched ==
  ASSUME MInv, [Next]_vars, BankOK', slot' \in 0..MaxSlot,
         UNCHANGED <<position, total_shares, asset_shares>>
  PROVE  Holds
<1>1. Inv'
  BY NextInv DEF MInv
<1>2. MTypeOK' /\ NothingStranded'
  BY <1>1 DEF MInv, MTypeOK, NothingStranded, Inv, BankOK
<1>3. FullExitStep
  BY DEF FullExitStep
<1>4. QED
  BY <1>2, <1>3 DEF Holds

\* What is left to show of a deposit or withdrawal that leaves n shares in the
\* bank and the books at m.
LEMMA BooksMoved ==
  ASSUME MInv, Next, BankOK', slot' = slot, position' = position,
         NEW k \in DOMAIN position, NEW n \in Nat, NEW m \in Nat,
         asset_shares' = [asset_shares EXCEPT ![k] = n],
         total_shares' = [total_shares EXCEPT ![k] = m],
         m = 0 => n = 0
  PROVE  /\ MTypeOK' /\ NothingStranded'
         /\ \A q \in DOMAIN position \ {k} : total_shares'[q] = total_shares[q]
         /\ total_shares'[k] = m
<1>1. Inv'
  BY NextInv DEF MInv
<1>2. /\ asset_shares \in [DOMAIN position -> Nat]
      /\ DOMAIN total_shares = DOMAIN position
  BY DEF MInv, MTypeOK, Inv, TypeOK
<1>3. MTypeOK'
  BY <1>1, <1>2, MFacts DEF MInv, MTypeOK, Inv, BankOK
<1>4. /\ \A q \in DOMAIN position \ {k} :
            total_shares'[q] = total_shares[q] /\ asset_shares'[q] = asset_shares[q]
      /\ total_shares'[k] = m /\ asset_shares'[k] = n
  BY <1>2
<1>5. NothingStranded'
  BY <1>4 DEF MInv, NothingStranded
<1>6. QED
  BY <1>3, <1>4, <1>5

-----------------------------------------------------------------------------
(* The instructions *)

\* deposit: the principal is booked, the shares MarginFi mints are its own.
LEMMA MDepositStep ==
  ASSUME MInv, NEW owner \in Keys, NEW b \in Banks, NEW amount \in Amount,
         MDeposit(owner, b, amount)
  PROVE  Holds
<1> DEFINE k == <<owner, Marginfi>>
           minted == SharesFor(amount, Accrued(b))
<1>1. /\ amount > 0 /\ BankBound(owner, b)
      /\ wallet[<<owner, position[k]>>] >= amount
      /\ total_shares[k] + amount <= MaxU64
      /\ DepositEffect(owner, Marginfi, amount, amount, amount)
      /\ asset_shares' = [asset_shares EXCEPT ![k] = @ + minted]
      /\ bank' = [bank EXCEPT ![b] = AccruedBank(b)]
      /\ slot' = slot
  BY DEF MDeposit, LendingAccountDeposit
<1>2. Movable(owner, Marginfi) /\ k \in DOMAIN position
  BY <1>1 DEF BankBound, Movable
<1>3. amount \in Nat
  BY DispatcherAssumption DEF Amount
<1>4. minted \in Nat
  <2>1. amount * ONE * ONE \in Nat
    BY <1>3, TimesNat, MarginfiAssumption
  <2>2. QED
    BY <2>1, DivNat, MFacts, AccruedFacts DEF SharesFor
<1> HIDE DEF minted
<1>5. amount \in 0..(MaxU64 - total_shares[k]) /\ amount \in 0..amount
  BY <1>1, <1>2, <1>3, MFacts, DispatcherAssumption
<1>6. Deposit(owner, Marginfi, amount)
  BY <1>1, <1>2, <1>5 DEF Deposit
<1>7. Next
  BY <1>6, MarginfiAssumption DEF Next
<1>8. BankOK'
  BY <1>1, AccruedStaysBank
<1>9. /\ position' = position
      /\ total_shares' = [total_shares EXCEPT ![k] = total_shares[k] + amount]
      /\ asset_shares' = [asset_shares EXCEPT ![k] = asset_shares[k] + minted]
  BY <1>1 DEF DepositEffect
<1> HIDE DEF k
<1>10. /\ asset_shares[k] + minted \in Nat
       /\ total_shares[k] + amount \in Nat \ {0}
  BY <1>1, <1>2, <1>3, <1>4, MFacts
<1>11. /\ MTypeOK' /\ NothingStranded'
       /\ \A q \in DOMAIN position \ {k} : total_shares'[q] = total_shares[q]
       /\ total_shares'[k] = total_shares[k] + amount
  <2> DEFINE n == asset_shares[k] + minted
             m == total_shares[k] + amount
  <2>1. n \in Nat /\ m \in Nat /\ m # 0
    BY <1>10
  <2>2. /\ asset_shares' = [asset_shares EXCEPT ![k] = n]
        /\ total_shares' = [total_shares EXCEPT ![k] = m]
    BY <1>9
  <2>3. slot' = slot /\ position' = position
    BY <1>1, <1>9
  <2> HIDE DEF n, m
  <2>4. /\ MTypeOK' /\ NothingStranded'
        /\ \A q \in DOMAIN position \ {k} : total_shares'[q] = total_shares[q]
        /\ total_shares'[k] = m
    BY <1>2, <1>7, <1>8, <2>1, <2>2, <2>3, BooksMoved
  <2>5. QED
    BY <2>4 DEF m
<1>12. FullExitStep
  BY <1>10, <1>11, MFacts DEF FullExitStep
<1>13. QED
  BY <1>7, <1>11, <1>12 DEF Holds

\* A withdrawal below the books leaves some booked.
LEMMA MWithdrawPartStep ==
  ASSUME MInv, NEW owner \in Keys, NEW b \in Banks, NEW shares \in Amount,
         MWithdrawPart(owner, b, shares)
  PROVE  Holds
<1> DEFINE k == <<owner, Marginfi>>
<1>1. PICK burned \in MayBurn(shares, Accrued(b)) :
         /\ burned <= asset_shares[k]
         /\ asset_shares' = [asset_shares EXCEPT ![k] = @ - burned]
  BY DEF MWithdrawPart, LendingAccountWithdraw
<1>2. /\ shares > 0 /\ BankBound(owner, b)
      /\ ~WithdrawsAll(shares, total_shares[k])
      /\ shares <= protocol[b]
      /\ WithdrawEffect(owner, Marginfi, Burned(shares, total_shares[k]), shares,
                        AmountOut(pool[k], pool[k] + shares))
      /\ bank' = [bank EXCEPT ![b] = AccruedBank(b)]
      /\ slot' = slot
  BY DEF MWithdrawPart, LendingAccountWithdraw
<1>3. Movable(owner, Marginfi) /\ k \in DOMAIN position /\ venue[k] = b
  BY <1>2 DEF BankBound, Movable
<1>4. shares \in Nat /\ total_shares[k] \in Nat /\ shares < total_shares[k]
  BY <1>2, <1>3, MFacts, DispatcherAssumption DEF WithdrawsAll, Amount
<1>5. burned \in Nat
  <2>1. shares * ONE * ONE \in Nat
    BY <1>4, TimesNat, MarginfiAssumption
  <2>2. Accrued(b) \in Nat \ {0}
    BY MFacts, AccruedFacts
  <2>3. shares * ONE * ONE + Accrued(b) - 1 \in Nat
    BY <2>1, <2>2
  <2>4. QED
    BY <1>1, <2>1, <2>2, <2>3, DivNat DEF MayBurn, SharesFor
<1>6. Burned(shares, total_shares[k]) = shares
  BY <1>4 DEF Burned
<1>7. AmountOut(pool[k], pool[k] + shares) = shares
  BY <1>3, <1>4, MFacts DEF AmountOut
<1>8. Withdraw(owner, Marginfi, shares)
  <2>1. shares \in 0..protocol[venue[k]]
    BY <1>2, <1>3, <1>4, MFacts
  <2>2. WithdrawEffect(owner, Marginfi, Burned(shares, total_shares[k]), shares, shares)
    BY <1>2, <1>7
  <2>3. QED
    BY <1>2, <1>3, <2>1, <2>2 DEF Withdraw
<1>9. Next
  BY <1>8, MarginfiAssumption DEF Next
<1>10. BankOK'
  BY <1>2, AccruedStaysBank
<1>11. /\ position' = position
       /\ total_shares' = [total_shares EXCEPT ![k] = total_shares[k] - shares]
       /\ asset_shares' = [asset_shares EXCEPT ![k] = asset_shares[k] - burned]
  BY <1>1, <1>2, <1>6 DEF WithdrawEffect
<1> HIDE DEF k
<1>12. /\ asset_shares[k] - burned \in Nat
       /\ total_shares[k] - shares \in Nat \ {0}
  BY <1>1, <1>3, <1>4, <1>5, MFacts
<1>13. /\ MTypeOK' /\ NothingStranded'
       /\ \A q \in DOMAIN position \ {k} : total_shares'[q] = total_shares[q]
       /\ total_shares'[k] = total_shares[k] - shares
  BY <1>2, <1>3, <1>9, <1>10, <1>11, <1>12, BooksMoved
<1>14. FullExitStep
  BY <1>12, <1>13, MFacts DEF FullExitStep
<1>15. QED
  BY <1>9, <1>13, <1>14 DEF Holds

\* A withdrawal of the books or more takes everything and pays it to the owner.
LEMMA MWithdrawAllStep ==
  ASSUME MInv, NEW owner \in Keys, NEW b \in Banks, NEW shares \in Amount,
         MWithdrawAll(owner, b, shares)
  PROVE  Holds
<1> DEFINE k == <<owner, Marginfi>>
           w == <<owner, position[k]>>
           redeemed == AssetAmount(asset_shares[k], Accrued(b))
<1>1. /\ shares > 0 /\ BankBound(owner, b)
      /\ WithdrawsAll(shares, total_shares[k])
      /\ redeemed <= protocol[b]
      /\ asset_shares' = [asset_shares EXCEPT ![k] = 0]
      /\ WithdrawEffect(owner, Marginfi, Burned(shares, total_shares[k]), redeemed,
                        AmountOut(pool[k], pool[k] + redeemed))
      /\ bank' = [bank EXCEPT ![b] = AccruedBank(b)]
      /\ slot' = slot
  BY DEF MWithdrawAll, LendingAccountWithdrawAll
<1>2. Movable(owner, Marginfi) /\ k \in DOMAIN position /\ venue[k] = b
  BY <1>1 DEF BankBound, Movable
<1>3. shares \in Nat /\ total_shares[k] \in Nat /\ shares >= total_shares[k]
  BY <1>1, <1>2, MFacts, DispatcherAssumption DEF WithdrawsAll, Amount
<1>4. redeemed \in Nat
  <2>1. asset_shares[k] * Accrued(b) \in Nat /\ ONE * ONE \in Nat \ {0}
    BY <1>2, MFacts, AccruedFacts, TimesNat, TimesPos, MarginfiAssumption
  <2>2. QED
    BY <2>1, DivNat DEF AssetAmount
<1>5. /\ \A q \in DOMAIN position \ {k} : total_shares'[q] = total_shares[q]
      /\ wallet'[w] - wallet[w] = redeemed
      => FullExitStep
  BY <1>2, MFacts DEF FullExitStep
<1> HIDE DEF redeemed
<1>6. Burned(shares, total_shares[k]) = total_shares[k]
  BY <1>3 DEF Burned
<1>7. AmountOut(pool[k], pool[k] + redeemed) = redeemed
  BY <1>2, <1>4, MFacts DEF AmountOut
<1>8. Withdraw(owner, Marginfi, shares)
  <2>1. redeemed \in 0..protocol[venue[k]]
    BY <1>1, <1>2, <1>4, MFacts
  <2>2. WithdrawEffect(owner, Marginfi, Burned(shares, total_shares[k]), redeemed, redeemed)
    BY <1>1, <1>7
  <2>3. QED
    BY <1>1, <1>2, <2>1, <2>2 DEF Withdraw
<1>9. Next
  BY <1>8, MarginfiAssumption DEF Next
<1>10. BankOK'
  BY <1>1, AccruedStaysBank
<1>11. /\ position' = position
       /\ total_shares' = [total_shares EXCEPT ![k] = total_shares[k] - total_shares[k]]
       /\ wallet' = [wallet EXCEPT ![w] = wallet[w] + redeemed]
  BY <1>1, <1>6, <1>7 DEF WithdrawEffect
<1>12. wallet'[w] - wallet[w] = redeemed
  <2>1. wallet[w] \in Nat /\ w \in DOMAIN wallet
    BY <1>2 DEF MInv, Inv, TypeOK
  <2>2. QED
    BY <1>4, <1>11, <2>1
<1> HIDE DEF k, w
<1>13. total_shares' = [total_shares EXCEPT ![k] = 0]
  <2>1. total_shares[k] - total_shares[k] = 0
    BY <1>3
  <2>2. QED
    BY <1>11, <2>1
<1>14. /\ MTypeOK' /\ NothingStranded'
       /\ \A q \in DOMAIN position \ {k} : total_shares'[q] = total_shares[q]
  BY <1>1, <1>2, <1>9, <1>10, <1>11, <1>13, BooksMoved
<1>15. QED
  BY <1>5, <1>9, <1>12, <1>14 DEF Holds

\* open_position creates the MarginFi account empty.
LEMMA MOpenPositionStep ==
  ASSUME MInv, NEW owner \in Keys, NEW mint \in Mints, NEW chosen \in Venues,
         MOpenPosition(owner, mint, chosen)
  PROVE  Holds
<1> DEFINE k == <<owner, Marginfi>>
<1>1. /\ OpenPosition(owner, Marginfi, mint, chosen)
      /\ position' = Create(position, k, mint)
      /\ total_shares' = Create(total_shares, k, 0)
      /\ asset_shares' = Create(asset_shares, k, 0)
      /\ k \notin DOMAIN position
      /\ UNCHANGED <<bank, slot>>
  BY DEF MOpenPosition, OpenPosition
<1>2. Next
  BY <1>1, MarginfiAssumption DEF Next
<1>3. Inv'
  BY <1>2, NextInv DEF MInv
<1>4. k \in Keys \X {Marginfi}
  OBVIOUS
<1> HIDE DEF k
<1>5. DOMAIN position' = DOMAIN position \cup {k}
  BY <1>1, CreateAdds
<1>6. asset_shares' \in [DOMAIN position' -> Nat]
  BY <1>1, <1>5 DEF Create, MInv, MTypeOK
<1>7. MTypeOK'
  BY <1>1, <1>3, <1>4, <1>5, <1>6 DEF MInv, MTypeOK, Inv
<1>8. /\ asset_shares'[k] = 0
      /\ \A q \in DOMAIN position :
            asset_shares'[q] = asset_shares[q] /\ total_shares'[q] = total_shares[q]
  <2>1. DOMAIN asset_shares = DOMAIN position /\ DOMAIN total_shares = DOMAIN position
    BY DEF MInv, MTypeOK, Inv, TypeOK
  <2>2. QED
    BY <1>1, <2>1 DEF Create
<1>9. NothingStranded'
  BY <1>5, <1>8 DEF MInv, NothingStranded
<1>10. FullExitStep
  BY <1>8, MFacts DEF FullExitStep
<1>11. QED
  BY <1>2, <1>7, <1>9, <1>10 DEF Holds

-----------------------------------------------------------------------------
(* The banks' other users, and time *)

\* Others pay in and take out as they do at any venue.
LEMMA OthersFlowStep ==
  ASSUME MInv, NEW b \in Banks, NEW amount \in Amount,
         OthersPayIn(b, amount) \/ OthersTakeOut(b, amount)
  PROVE  Holds
<1>1. /\ ProtocolInflow(b, amount) \/ ProtocolOutflow(b, amount)
      /\ bank' = [bank EXCEPT ![b] = AccruedBank(b)]
      /\ UNCHANGED <<asset_shares, slot>>
  BY DEF OthersPayIn, OthersTakeOut
<1>2. b \in {u \in Venues : VenueMint[u] \in Mints} /\ amount \in Nat
  BY MFacts, DispatcherAssumption DEF Amount
<1>3. others[VenueMint[b]] \in Nat /\ protocol[b] \in Nat
  BY <1>2 DEF MInv, Inv, TypeOK
<1>4. /\ ProtocolInflow(b, amount) => amount \in 0..others[VenueMint[b]]
      /\ ProtocolOutflow(b, amount) => amount \in 0..protocol[b]
  BY <1>2, <1>3 DEF ProtocolInflow, ProtocolOutflow
<1>5. Next
  BY <1>1, <1>2, <1>4 DEF Next
<1>6. UNCHANGED <<position, total_shares>>
  BY <1>1 DEF ProtocolInflow, ProtocolOutflow
<1>7. QED
  BY <1>1, <1>5, <1>6, MFacts, AccruedStaysBank, BooksUntouched

\* A loss leaves a positive share value.
LEMMA SocializeLossStep ==
  ASSUME MInv, NEW b \in Banks, SocializeLoss(b)
  PROVE  Holds
<1>1. PICK loss \in Losses :
         /\ loss < Accrued(b)
         /\ bank' = [bank EXCEPT ![b] =
                       [AccruedBank(b) EXCEPT !.asset_share_value = @ - loss]]
  BY DEF SocializeLoss
<1>2. UNCHANGED <<vars, asset_shares, slot>>
  BY DEF SocializeLoss
<1>3. loss \in Nat /\ Accrued(b) \in Nat \ {0} /\ slot \in 0..MaxSlot
  BY MFacts, AccruedFacts, MarginfiAssumption
<1> DEFINE new == [AccruedBank(b) EXCEPT !.asset_share_value = @ - loss]
<1>4. new = [asset_share_value |-> Accrued(b) - loss, last_update |-> slot]
  BY DEF AccruedBank
<1>5. Accrued(b) - loss \in Nat \ {0}
  BY <1>1, <1>3
<1>6. new \in Bank /\ new.last_update = slot
  BY <1>3, <1>4, <1>5 DEF Bank
<1>7. BankOK'
  BY <1>1, <1>2, <1>6, TouchedBank
<1>8. UNCHANGED <<position, total_shares>>
  BY <1>2 DEF vars, fundVars
<1>9. QED
  BY <1>2, <1>3, <1>7, <1>8, BooksUntouched

\* Time passes; a bank's share value only gets older.
LEMMA NextSlotStep ==
  ASSUME MInv, NextSlot
  PROVE  Holds
<1>1. /\ slot' = slot + 1 /\ slot < MaxSlot
      /\ UNCHANGED <<vars, asset_shares, bank>>
  BY DEF NextSlot
<1>2. slot' \in 0..MaxSlot /\ slot' > slot
  BY <1>1, MFacts, MarginfiAssumption
<1>3. BankOK'
  <2>1. ASSUME NEW b \in Banks PROVE bank[b].last_update <= slot'
    <3>1. bank[b].last_update \in Int /\ bank[b].last_update <= slot /\ slot \in Int
      BY MFacts DEF BankOK, Bank
    <3>2. QED
      BY <1>2, <3>1
  <2>2. QED
    BY <1>1, <2>1, MFacts DEF BankOK
<1>4. UNCHANGED <<position, total_shares>>
  BY <1>1 DEF vars, fundVars
<1>5. QED
  BY <1>1, <1>2, <1>3, <1>4, BooksUntouched

\* Registry steps, donations to a pool and stuttering leave the banks alone.
LEMMA MSharedStep ==
  ASSUME MInv, [Next]_vars, UNCHANGED marginfiVars, UNCHANGED <<position, total_shares>>
  PROVE  Holds
<1>1. UNCHANGED <<asset_shares, bank, slot>>
  BY DEF marginfiVars
<1>2. BankOK'
  BY <1>1, MFacts DEF BankOK
<1>3. QED
  BY <1>1, <1>2, MFacts, BooksUntouched

\* Nothing exists at the start, and the banks' share values are 1.
LEMMA MInitInv == MInit => MInv
<1> SUFFICES ASSUME MInit PROVE MInv
  OBVIOUS
<1>1. Inv
  BY InitInv DEF MInit
<1>2. DOMAIN position = {}
  BY DEF MInit, Init, NoAccounts
<1>3. asset_shares \in [DOMAIN position -> Nat]
  BY DEF MInit, Init, NoAccounts
<1>4. /\ slot \in 0..MaxSlot
      /\ bank \in [Banks -> Bank]
      /\ \A b \in Banks : bank[b].last_update <= slot
  BY MarginfiAssumption DEF MInit, Bank
<1>5. QED
  BY <1>1, <1>2, <1>3, <1>4 DEF MInv, MTypeOK, NothingStranded, Inv

\* Every step of the adapter's specification is a dispatcher step or none,
\* keeps the invariant, and pays in full when it takes the books to zero.
LEMMA MNextStep == MInv /\ [MNext]_mvars => Holds
<1> SUFFICES ASSUME MInv, [MNext]_mvars PROVE Holds
  OBVIOUS
<1>1. CASE RegistryNext /\ UNCHANGED <<fundVars, marginfiVars>>
  <2>1. Next
    BY <1>1 DEF Next, fundVars
  <2>2. QED
    BY <1>1, <2>1, MSharedStep DEF fundVars
<1>2. CASE \E owner \in Keys, mint \in Mints, chosen \in Venues :
              MOpenPosition(owner, mint, chosen)
  BY <1>2, MOpenPositionStep
<1>3. CASE \E b \in Banks : MOwnerStep(b) \/ MOthersStep(b)
  <2>1. PICK b \in Banks : MOwnerStep(b) \/ MOthersStep(b)
    BY <1>3
  <2>2. CASE MOwnerStep(b)
    BY <2>2, MDepositStep, MWithdrawPartStep, MWithdrawAllStep DEF MOwnerStep
  <2>3. CASE MOthersStep(b)
    BY <2>3, OthersFlowStep, SocializeLossStep DEF MOthersStep
  <2>4. QED
    BY <2>1, <2>2, <2>3
<1>4. CASE \E k \in DOMAIN position, amount \in Amount :
              DonateToPool(k, amount) /\ UNCHANGED marginfiVars
  <2>1. PICK k \in DOMAIN position, amount \in Amount :
               DonateToPool(k, amount) /\ UNCHANGED marginfiVars
    BY <1>4
  <2>2. k \in PositionKeys
    BY DEF MInv, Inv, TypeOK
  <2>3. Next
    BY <2>1, <2>2 DEF Next
  <2>4. QED
    BY <2>1, <2>3, MSharedStep DEF DonateToPool
<1>5. CASE NextSlot
  BY <1>5, NextSlotStep
<1>6. CASE UNCHANGED mvars
  BY <1>6, MSharedStep DEF mvars, vars, fundVars
<1>7. QED
  BY <1>1, <1>2, <1>3, <1>4, <1>5, <1>6 DEF MNext

-----------------------------------------------------------------------------
(* What the adapter reports *)

\* Cutting both operands and dividing by the cut unit never exceeds dividing
\* the exact product by the exact unit.
LEMMA CutErrsDown ==
  ASSUME NEW x \in Nat, NEW y \in Nat, NEW z \in Nat, y <= z
  PROVE  SharesToUsdc(x, y) <= AssetAmount(x, z)
<1> DEFINE a == x \div CUT
           c == y \div CUT
           d == ONE \div CUT
           q == (a * c) \div (d * d)
<1>1. CUT \in Nat \ {0} /\ ONE \in Nat \ {0} /\ ONE % CUT = 0
  BY MarginfiAssumption
<1>2. /\ a \in Nat /\ CUT * a <= x
      /\ c \in Nat /\ CUT * c <= y
  BY <1>1, DivNat
<1>3. d \in Nat \ {0} /\ CUT * d = ONE
  BY <1>1
<1>4. SharesToUsdc(x, y) = q
  BY DEF SharesToUsdc, Cut
<1> HIDE DEF a, c, d
<1>5. a * c \in Nat /\ d * d \in Nat \ {0} /\ CUT * CUT \in Nat
  BY <1>1, <1>2, <1>3, TimesNat, TimesPos
<1>6. q \in Nat /\ (d * d) * q <= a * c
  BY <1>5, DivNat
<1> HIDE DEF q
<1>7. (CUT * CUT) * ((d * d) * q) <= (CUT * CUT) * (a * c)
  <2>1. (d * d) * q \in Nat
    BY <1>5, <1>6, TimesNat
  <2>2. QED
    BY <1>5, <1>6, <2>1, TimesMonotone
<1>8. (CUT * CUT) * ((d * d) * q) = (ONE * ONE) * q
  <2>1. (CUT * CUT) * ((d * d) * q) = ((CUT * d) * (CUT * d)) * q
    BY <1>1, <1>3, <1>6
  <2>2. QED
    BY <1>3, <2>1
<1>9. (CUT * CUT) * (a * c) = (CUT * a) * (CUT * c)
  BY <1>1, <1>2
<1>10. (CUT * a) * (CUT * c) <= x * z
  <2>1. CUT * a \in Nat /\ CUT * c \in Nat
    BY <1>1, <1>2, TimesNat
  <2>2. CUT * c <= z
    BY <1>2, <2>1
  <2>3. QED
    BY <1>2, <2>1, <2>2, TimesMonotone
<1>11. q <= AssetAmount(x, z)
  <2>1. (ONE * ONE) * q <= x * z
    <3>1. (ONE * ONE) * q <= (CUT * a) * (CUT * c)
      BY <1>7, <1>8, <1>9, Zenon
    <3>2. /\ (ONE * ONE) * q \in Nat /\ (CUT * a) * (CUT * c) \in Nat
          /\ x * z \in Nat
      BY <1>1, <1>2, <1>6, TimesNat
    <3>3. QED
      BY <1>10, <3>1, <3>2
  <2>2. ONE * ONE \in Nat \ {0} /\ x * z \in Nat
    BY <1>1, TimesNat, TimesPos
  <2>3. QED
    BY <1>6, <2>1, <2>2, BelowQuotient DEF AssetAmount
<1>12. QED
  BY <1>4, <1>6, <1>11

\* The type invariant is all the comparison needs: interest only ever raises
\* the share value between two updates.
LEMMA ValueBelowExit == MInv => ValueNeverOverstated
<1>1. SUFFICES ASSUME MInv, NEW k \in DOMAIN position, venue[k] \in Banks
               PROVE  AssetValue(k) <= AssetAmount(asset_shares[k], Accrued(venue[k]))
  BY DEF ValueNeverOverstated
<1>2. /\ asset_shares[k] \in Nat
      /\ bank[venue[k]].asset_share_value \in Nat
      /\ Accrued(venue[k]) \in Nat
      /\ bank[venue[k]].asset_share_value <= Accrued(venue[k])
  BY <1>1, MFacts, AccruedFacts
<1>3. QED
  BY <1>2, CutErrsDown DEF AssetValue

-----------------------------------------------------------------------------
\* The adapter's invariant holds in every reachable state.
THEOREM MInvariant == MSpec => []MInv
<1>1. MInv /\ [MNext]_mvars => MInv'
  <2>1. SUFFICES ASSUME MInv, [MNext]_mvars PROVE MInv'
    OBVIOUS
  <2>2. Holds
    BY <2>1, MNextStep
  <2>3. Inv'
    BY <2>1, <2>2, NextInv DEF Holds, MInv
  <2>4. QED
    BY <2>2, <2>3 DEF Holds, MInv
<1>2. QED
  BY <1>1, MInitInv, PTL DEF MSpec

\* The adapter's and the banks' accounts keep their types: in particular a
\* withdraw_all never takes the books below zero.
THEOREM MTypeCorrect == MSpec => []MTypeOK
<1>1. MInv => MTypeOK
  BY DEF MInv
<1>2. QED
  BY <1>1, MInvariant, PTL

\* No interest is left behind in a MarginFi account whose books are zero, for
\* any sequence of deposits, withdrawals, interest and losses.
THEOREM NothingEverStranded == MSpec => []NothingStranded
<1>1. MInv => NothingStranded
  BY DEF MInv
<1>2. QED
  BY <1>1, MInvariant, PTL

\* adapter_current_value never reports more than withdraw_all would pay, for
\* any fixed-point scale, any cut that divides it and any interest.
THEOREM ValueIsNeverOverstated == MSpec => []ValueNeverOverstated
  BY ValueBelowExit, MInvariant, PTL

\* The withdrawal that takes the books to zero pays the whole balance.
THEOREM FullExitIsPaid == MSpec => FullExitPaysAll
<1>1. MInv /\ [MNext]_mvars => [FullExitStep]_mvars
  BY MNextStep DEF Holds
<1>2. QED
  BY <1>1, MInvariant, PTL DEF MSpec, FullExitPaysAll

\* The marginfi-usdc adapter behind the dispatcher implements the dispatcher
\* over an arbitrary adapter.
THEOREM MarginfiImplementsDispatcher == MSpec => Spec
<1>1. MInit => Init
  BY DEF MInit
<1>2. MInv /\ [MNext]_mvars => [Next]_vars
  BY MNextStep DEF Holds
<1>3. QED
  BY <1>1, <1>2, MInvariant, PTL DEF MSpec, Spec
-----------------------------------------------------------------------------
(* What the log tells *)

\* What is behind the events is the adapter: emitting them changes nothing, so
\* whatever holds of MSpec holds while the events are read.
THEOREM EventsImplementAdapter == ESpec => MSpec
<1>1. EInit => MInit
  BY DEF EInit
<1>2. [ENext]_evars => [MNext]_mvars
  <2> SUFFICES ASSUME [ENext]_evars PROVE MNext \/ UNCHANGED mvars
    OBVIOUS
  <2>1. CASE RegistryNext /\ UNCHANGED <<fundVars, marginfiVars, eventVars>>
    BY <2>1 DEF MNext
  <2>2. CASE \E owner \in Keys, mint \in Mints, chosen \in Venues :
                EOpenPosition(owner, mint, chosen)
    BY <2>2 DEF EOpenPosition, MNext
  <2>3. CASE \E b \in Banks : EOwnerStep(b)
    BY <2>3 DEF EOwnerStep, EDeposit, EWithdraw, ECurrentValue, MNext, MOwnerStep
  <2>4. CASE \E b \in Banks : MOthersStep(b) /\ UNCHANGED eventVars
    BY <2>4 DEF MNext
  <2>5. CASE NextSlot /\ UNCHANGED eventVars
    BY <2>5 DEF MNext
  <2>6. CASE UNCHANGED evars
    BY <2>6 DEF evars
  <2>7. QED
    BY <2>1, <2>2, <2>3, <2>4, <2>5, <2>6 DEF ENext
<1>3. QED
  BY <1>1, <1>2, PTL DEF ESpec, MSpec

\* Who adds up the events of a position never finds more shares than are booked.
LedgerBelowBooks ==
  /\ ledger \in [DOMAIN position -> Int]
  /\ \A k \in DOMAIN position : ledger[k] <= total_shares[k]

\* Ledger and books part only where the events report more burned than was
\* booked: by a withdrawal above the books, which marginfi-usdc accepts.
LedgerStep ==
  \A k \in DOMAIN ledger :
     \/ ledger'[k] - total_shares'[k] = ledger[k] - total_shares[k]
     \/ ledger'[k] < ledger[k] - total_shares[k]

LedgerTracksBooks == [][LedgerStep]_evars

\* What every step is shown to do to the ledger.
LedgerHolds == LedgerBelowBooks' /\ LedgerStep

\* The two accounts of a position moved, and nobody else's.
LEMMA LedgerMoved ==
  ASSUME MInv, LedgerBelowBooks, position' = position,
         NEW k \in DOMAIN position, NEW n \in Int, NEW m \in Int,
         ledger' = [ledger EXCEPT ![k] = n],
         total_shares' = [total_shares EXCEPT ![k] = m],
         n <= m,
         n - m = ledger[k] - total_shares[k] \/ n < ledger[k] - total_shares[k]
  PROVE  LedgerHolds
<1>1. /\ ledger \in [DOMAIN position -> Int]
      /\ DOMAIN total_shares = DOMAIN position
  BY DEF LedgerBelowBooks, MInv, Inv, TypeOK
<1>2. /\ ledger' \in [DOMAIN position -> Int]
      /\ ledger'[k] = n /\ total_shares'[k] = m
      /\ \A q \in DOMAIN position \ {k} :
            ledger'[q] = ledger[q] /\ total_shares'[q] = total_shares[q]
  BY <1>1
<1>3. LedgerBelowBooks'
  BY <1>2 DEF LedgerBelowBooks
<1>4. LedgerStep
  BY <1>1, <1>2 DEF LedgerStep
<1>5. QED
  BY <1>3, <1>4 DEF LedgerHolds

\* Steps without an event.
LEMMA LedgerRests ==
  ASSUME MInv, LedgerBelowBooks, UNCHANGED <<position, total_shares, ledger>>
  PROVE  LedgerHolds
  BY MFacts DEF LedgerBelowBooks, LedgerStep, LedgerHolds

\* Deposited reports what was booked.
LEMMA EDepositHolds ==
  ASSUME MInv, LedgerBelowBooks, NEW owner \in Keys, NEW b \in Banks,
         NEW amount \in Amount, EDeposit(owner, b, amount)
  PROVE  LedgerHolds
<1> DEFINE k == <<owner, Marginfi>>
           n == ledger[k] + amount
           m == total_shares[k] + amount
<1>1. /\ k \in DOMAIN position /\ position' = position
      /\ ledger' = [ledger EXCEPT ![k] = n]
      /\ total_shares' = [total_shares EXCEPT ![k] = m]
  BY DEF EDeposit, MDeposit, DepositEffect, BankBound, Movable
<1>2. ledger[k] \in Int /\ total_shares[k] \in Nat /\ ledger[k] <= total_shares[k]
  BY <1>1, MFacts DEF LedgerBelowBooks
<1>3. amount \in Nat
  BY DispatcherAssumption DEF Amount
<1>4. n \in Int /\ m \in Int /\ n <= m /\ n - m = ledger[k] - total_shares[k]
  BY <1>2, <1>3
<1> HIDE DEF k, n, m
<1>5. QED
  BY <1>1, <1>4, LedgerMoved

\* Withdrawn reports what was asked for, which is at least what was burned.
LEMMA EWithdrawHolds ==
  ASSUME MInv, LedgerBelowBooks, NEW owner \in Keys, NEW b \in Banks,
         NEW shares \in Amount, EWithdraw(owner, b, shares)
  PROVE  LedgerHolds
<1> DEFINE k == <<owner, Marginfi>>
           n == ledger[k] - shares
           m == total_shares[k] - Burned(shares, total_shares[k])
<1>1. /\ k \in DOMAIN position /\ position' = position
      /\ ledger' = [ledger EXCEPT ![k] = n]
      /\ total_shares' = [total_shares EXCEPT ![k] = m]
  BY DEF EWithdraw, MWithdrawPart, MWithdrawAll, WithdrawEffect, BankBound, Movable
<1>2. ledger[k] \in Int /\ total_shares[k] \in Nat /\ ledger[k] <= total_shares[k]
  BY <1>1, MFacts DEF LedgerBelowBooks
<1>3. shares \in Nat
  BY DispatcherAssumption DEF Amount
<1>4. /\ n \in Int /\ m \in Int /\ n <= m
      /\ n - m = ledger[k] - total_shares[k] \/ n < ledger[k] - total_shares[k]
  BY <1>2, <1>3 DEF Burned
<1> HIDE DEF k, n, m
<1>5. QED
  BY <1>1, <1>4, LedgerMoved

\* A position starts with nothing booked and nothing reported.
LEMMA EOpenPositionHolds ==
  ASSUME MInv, LedgerBelowBooks, NEW owner \in Keys, NEW mint \in Mints,
         NEW chosen \in Venues, EOpenPosition(owner, mint, chosen)
  PROVE  LedgerHolds
<1> DEFINE k == <<owner, Marginfi>>
<1>1. /\ position' = Create(position, k, mint)
      /\ total_shares' = Create(total_shares, k, 0)
      /\ ledger' = Create(ledger, k, 0)
      /\ k \notin DOMAIN position
  BY DEF EOpenPosition, MOpenPosition, OpenPosition
<1>2. /\ ledger \in [DOMAIN position -> Int]
      /\ DOMAIN total_shares = DOMAIN position
  BY DEF LedgerBelowBooks, MInv, Inv, TypeOK
<1> HIDE DEF k
<1>3. /\ DOMAIN position' = DOMAIN position \cup {k}
      /\ ledger' \in [DOMAIN position \cup {k} -> Int]
      /\ ledger'[k] = 0 /\ total_shares'[k] = 0
      /\ \A q \in DOMAIN position :
            ledger'[q] = ledger[q] /\ total_shares'[q] = total_shares[q]
  BY <1>1, <1>2 DEF Create
<1>4. LedgerBelowBooks'
  BY <1>3 DEF LedgerBelowBooks
<1>5. LedgerStep
  BY <1>2, <1>3, MFacts DEF LedgerStep
<1>6. QED
  BY <1>4, <1>5 DEF LedgerHolds

\* Every step keeps the ledger below the books, and away from them only by what a
\* withdrawal asked for in excess.
LEMMA ENextHolds == MInv /\ LedgerBelowBooks /\ [ENext]_evars => LedgerHolds
<1> SUFFICES ASSUME MInv, LedgerBelowBooks, [ENext]_evars PROVE LedgerHolds
  OBVIOUS
<1>1. CASE RegistryNext /\ UNCHANGED <<fundVars, marginfiVars, eventVars>>
  BY <1>1, LedgerRests DEF fundVars, eventVars
<1>2. CASE \E owner \in Keys, mint \in Mints, chosen \in Venues :
              EOpenPosition(owner, mint, chosen)
  BY <1>2, EOpenPositionHolds
<1>3. CASE \E b \in Banks : EOwnerStep(b)
  <2>1. PICK b \in Banks, owner \in Keys :
           \/ \E amount \in Amount : EDeposit(owner, b, amount) \/ EWithdraw(owner, b, amount)
           \/ ECurrentValue(owner, b)
    BY <1>3 DEF EOwnerStep
  <2>2. CASE ECurrentValue(owner, b)
    BY <2>2, LedgerRests DEF ECurrentValue, mvars, vars, fundVars
  <2>3. QED
    BY <2>1, <2>2, EDepositHolds, EWithdrawHolds
<1>4. CASE \E b \in Banks : MOthersStep(b) /\ UNCHANGED eventVars
  <2>1. UNCHANGED <<position, total_shares, ledger>>
    BY <1>4 DEF MOthersStep, OthersPayIn, OthersTakeOut, SocializeLoss,
                ProtocolInflow, ProtocolOutflow, vars, fundVars, eventVars
  <2>2. QED
    BY <2>1, LedgerRests
<1>5. CASE NextSlot /\ UNCHANGED eventVars
  BY <1>5, LedgerRests DEF NextSlot, vars, fundVars, eventVars
<1>6. CASE UNCHANGED evars
  BY <1>6, LedgerRests DEF evars, mvars, vars, fundVars, eventVars
<1>7. QED
  BY <1>1, <1>2, <1>3, <1>4, <1>5, <1>6 DEF ENext

\* Before anything happened nothing is booked and nothing reported.
LEMMA EInitHolds == EInit => LedgerBelowBooks
<1> SUFFICES ASSUME EInit PROVE LedgerBelowBooks
  OBVIOUS
<1>1. DOMAIN position = {} /\ DOMAIN ledger = {} /\ ledger \in [{} -> Int]
  BY DEF EInit, MInit, Init, NoAccounts
<1>2. QED
  BY <1>1 DEF LedgerBelowBooks

\* LedgerNeverOverdrawn is false; the other side of it is true: the events of a
\* position never promise shares that are not on its books.
THEOREM LedgerNeverAbove == ESpec => []LedgerBelowBooks
<1>1. ESpec => []MInv
  BY EventsImplementAdapter, MInvariant, PTL
<1>2. MInv /\ LedgerBelowBooks /\ [ENext]_evars => LedgerBelowBooks'
  BY ENextHolds DEF LedgerHolds
<1>3. QED
  BY <1>1, <1>2, EInitHolds, PTL DEF ESpec

\* As long as nobody asks for more than is booked, the ledger is the books: only
\* such a withdrawal makes them differ, and for good.
THEOREM LedgerFollowsBooks == ESpec => LedgerTracksBooks
<1>1. ESpec => []MInv
  BY EventsImplementAdapter, MInvariant, PTL
<1>2. MInv /\ LedgerBelowBooks /\ [ENext]_evars => [LedgerStep]_evars
  BY ENextHolds DEF LedgerHolds
<1>3. QED
  BY <1>1, <1>2, LedgerNeverAbove, PTL DEF ESpec, LedgerTracksBooks
=============================================================================
