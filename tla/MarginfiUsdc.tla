---------------------------- MODULE MarginfiUsdc ----------------------------
(***************************************************************************)
(* The marginfi-usdc adapter behind the dispatcher                         *)
(* (programs/marginfi-usdc/src), over the MarginFi banks it deposits into. *)
(*                                                                         *)
(* The adapter books the deposited principal as shares, in base units,     *)
(* while MarginFi keeps its own fractional shares of the bank, whose value *)
(* grows with interest.  A withdrawal below the books is one of that many  *)
(* base units; one of the books or more takes the whole balance.           *)
(*                                                                         *)
(* MarginFi is external; it is modelled by what the adapter relies on: a   *)
(* deposit or withdrawal accrues interest up to the current slot first and *)
(* converts at the accrued share value; losses may be spread over the      *)
(* bank's depositors.  A venue that is not in Banks stands for a `bank`    *)
(* MarginFi refuses: adapter_initialize records it unchecked.              *)
(***************************************************************************)
EXTENDS Dispatcher

CONSTANTS
  Marginfi,  \* program id of the marginfi-usdc adapter
  Banks,     \* the MarginFi banks among the venues
  ONE,       \* 1 as an I80F48: 2^48
  CUT,       \* what shares_to_usdc cuts off each operand: 2^16
  Growth,    \* what a slot adds to a bank's share value, over ONE
  Losses,    \* what a bank's share value may lose at once, over ONE
  MaxShares, \* bound on the asset_shares a deposit leaves, over ONE
  MaxSlot    \* bound on the slots that pass

ASSUME MarginfiAssumption ==
  /\ Marginfi \in Programs
  /\ Banks \subseteq Venues
  /\ \A b \in Banks : VenueMint[b] \in Mints
  /\ CUT \in Nat \ {0}
  /\ ONE \in Nat \ {0}
  /\ ONE % CUT = 0
  /\ Growth \in Nat
  /\ Losses \subseteq Nat
  /\ MaxShares \in Nat
  /\ MaxSlot \in Nat

VARIABLES
  asset_shares,  \* <<owner, Marginfi>> -> asset_shares in its bank, over ONE
  bank,          \* bank -> its asset_share_value and when that was computed
  slot           \* the current slot

marginfiVars == <<asset_shares, bank, slot>>
mvars == <<vars, marginfiVars>>

Bank == [asset_share_value : Nat \ {0}, last_update : 0..MaxSlot]

-----------------------------------------------------------------------------
(* MarginFi *)

\* A bank's share value with the interest up to the current slot.
Accrued(b) == bank[b].asset_share_value + Growth * (slot - bank[b].last_update)

AccruedBank(b) == [asset_share_value |-> Accrued(b), last_update |-> slot]

\* Shares minted for `amount` base units.
SharesFor(amount, share_value) == (amount * ONE * ONE) \div share_value

\* Shares that may be burned for `amount` base units: rounded either way.
MayBurn(amount, share_value) ==
  {SharesFor(amount, share_value),
   (amount * ONE * ONE + share_value - 1) \div share_value}

\* Base units for all of `shares`.
AssetAmount(shares, share_value) == (shares * share_value) \div (ONE * ONE)

-----------------------------------------------------------------------------
(* the adapter's own arithmetic *)

\* Mutant: each operand is rounded up where it is cut.
CutRoundsUp(x) == (x + CUT - 1) \div CUT

\* The shift that keeps the product of the operands within a u128.
Cut(x) == x \div CUT

\* shares_to_usdc.  Its checked_mul fails from a value of 2^64 on, which leaves
\* `as u64` nothing to cut off; the reader of the value has that guard.
SharesToUsdc(shares, share_value) ==
  (Cut(shares) * Cut(share_value)) \div ((ONE \div CUT) * (ONE \div CUT))

\* Mutant: the comparison of adapter_withdraw is strict.
MoreThanBooked(shares, booked) == shares > booked

\* adapter_withdraw's withdraw_all.
WithdrawsAll(shares, booked) == shares >= booked

\* Mutant: the pool's balance is taken for its change.
PoolBalance(before, after) == after

\* amount_out: what the MarginFi CPI moved into the pool.
AmountOut(before, after) == after - before

-----------------------------------------------------------------------------
(* the instructions *)

MInit ==
  /\ Init
  /\ asset_shares = NoAccounts
  /\ bank = [b \in Banks |-> [asset_share_value |-> ONE, last_update |-> 0]]
  /\ slot = 0

\* open_position, adapter_initialize in its CPI: the state and the MarginFi
\* account are created, the bank is recorded unchecked.
MOpenPosition(owner, mint, chosen) ==
  /\ OpenPosition(owner, Marginfi, mint, chosen)
  /\ asset_shares' = Create(asset_shares, <<owner, Marginfi>>, 0)
  /\ UNCHANGED <<bank, slot>>

\* The route is open and the position is bound to a bank that serves it.
BankBound(owner, b) ==
  /\ Movable(owner, Marginfi)
  /\ venue[<<owner, Marginfi>>] = b

\* CPI lending_account_deposit.
LendingAccountDeposit(k, b, amount) ==
  LET minted == SharesFor(amount, Accrued(b)) IN
  /\ asset_shares[k] + minted <= MaxShares
  /\ asset_shares' = [asset_shares EXCEPT ![k] = @ + minted]
  /\ bank' = [bank EXCEPT ![b] = AccruedBank(b)]

\* CPI lending_account_withdraw of an amount ...
LendingAccountWithdraw(k, b, amount) ==
  /\ amount <= protocol[b]
  /\ \E burned \in MayBurn(amount, Accrued(b)) :
        /\ burned <= asset_shares[k]
        /\ asset_shares' = [asset_shares EXCEPT ![k] = @ - burned]
  /\ bank' = [bank EXCEPT ![b] = AccruedBank(b)]

\* ... and with withdraw_all, which MarginFi refuses for an empty balance.
LendingAccountWithdrawAll(k, b) ==
  /\ asset_shares[k] > 0
  /\ AssetAmount(asset_shares[k], Accrued(b)) <= protocol[b]
  /\ asset_shares' = [asset_shares EXCEPT ![k] = 0]
  /\ bank' = [bank EXCEPT ![b] = AccruedBank(b)]

\* deposit with adapter_deposit: the principal is booked, MarginFi takes it all.
MDeposit(owner, b, amount) ==
  LET k == <<owner, Marginfi>> IN
  /\ amount > 0
  /\ BankBound(owner, b)
  /\ wallet[<<owner, position[k]>>] >= amount
  /\ total_shares[k] + amount <= MaxU64
  /\ LendingAccountDeposit(k, b, amount)
  /\ DepositEffect(owner, Marginfi, amount, amount, amount)
  /\ UNCHANGED slot

\* withdraw with adapter_withdraw, of part of the principal.
MWithdrawPart(owner, b, shares) ==
  LET k == <<owner, Marginfi>> IN
  /\ shares > 0
  /\ BankBound(owner, b)
  /\ ~WithdrawsAll(shares, total_shares[k])
  /\ LendingAccountWithdraw(k, b, shares)
  /\ WithdrawEffect(owner, Marginfi, Burned(shares, total_shares[k]), shares,
                    AmountOut(pool[k], pool[k] + shares))
  /\ UNCHANGED slot

\* withdraw with adapter_withdraw, of the whole balance.
MWithdrawAll(owner, b, shares) ==
  LET k == <<owner, Marginfi>>
      redeemed == AssetAmount(asset_shares[k], Accrued(b))
  IN
  /\ shares > 0
  /\ BankBound(owner, b)
  /\ WithdrawsAll(shares, total_shares[k])
  /\ LendingAccountWithdrawAll(k, b)
  /\ WithdrawEffect(owner, Marginfi, Burned(shares, total_shares[k]), redeemed,
                    AmountOut(pool[k], pool[k] + redeemed))
  /\ UNCHANGED slot

\* The value adapter_current_value returns.  It calls nothing and writes
\* nothing: the share value is the one MarginFi last computed.
AssetValue(k) == SharesToUsdc(asset_shares[k], bank[venue[k]].asset_share_value)

-----------------------------------------------------------------------------
(* MarginFi's other users, each accruing interest first, and time *)

OthersPayIn(b, amount) ==
  /\ ProtocolInflow(b, amount)
  /\ bank' = [bank EXCEPT ![b] = AccruedBank(b)]
  /\ UNCHANGED <<asset_shares, slot>>

OthersTakeOut(b, amount) ==
  /\ ProtocolOutflow(b, amount)
  /\ bank' = [bank EXCEPT ![b] = AccruedBank(b)]
  /\ UNCHANGED <<asset_shares, slot>>

\* A borrower's bad debt is spread over the depositors.
SocializeLoss(b) ==
  /\ \E loss \in Losses :
        /\ loss < Accrued(b)
        /\ bank' = [bank EXCEPT ![b] =
                       [AccruedBank(b) EXCEPT !.asset_share_value = @ - loss]]
  /\ UNCHANGED <<vars, asset_shares, slot>>

NextSlot ==
  /\ slot < MaxSlot
  /\ slot' = slot + 1
  /\ UNCHANGED <<vars, asset_shares, bank>>

MOwnerStep(b) ==
  \E owner \in Keys, amount \in Amount :
     \/ MDeposit(owner, b, amount)
     \/ MWithdrawPart(owner, b, amount)
     \/ MWithdrawAll(owner, b, amount)

MOthersStep(b) ==
  \/ \E amount \in Amount : OthersPayIn(b, amount) \/ OthersTakeOut(b, amount)
  \/ SocializeLoss(b)

MNext ==
  \/ RegistryNext /\ UNCHANGED <<fundVars, marginfiVars>>
  \/ \E owner \in Keys, mint \in Mints, chosen \in Venues :
        MOpenPosition(owner, mint, chosen)
  \/ \E b \in Banks : MOwnerStep(b) \/ MOthersStep(b)
  \/ \E k \in DOMAIN position, amount \in Amount :
        DonateToPool(k, amount) /\ UNCHANGED marginfiVars
  \/ NextSlot

MSpec == MInit /\ [][MNext]_mvars

-----------------------------------------------------------------------------
\* Type invariant of the adapter's and the banks' accounts.
MTypeOK ==
  /\ TypeOK
  /\ DOMAIN position \subseteq Keys \X {Marginfi}
  /\ asset_shares \in [DOMAIN position -> Nat]
  /\ slot \in 0..MaxSlot
  /\ bank \in [Banks -> Bank]
  /\ \A b \in Banks : bank[b].last_update <= slot

\* Interest is never stranded: when nothing is booked any more, nothing is left
\* in the MarginFi account, however the principal was withdrawn piece by piece
\* and whatever interest came on top (the books reach zero through withdraw_all
\* only).
NothingStranded ==
  \A k \in DOMAIN position : total_shares[k] = 0 => asset_shares[k] = 0

\* The reported value never exceeds what withdrawing everything would pay,
\* whatever interest has accrued since the bank was last touched and whatever
\* loss was spread: the stale share value and the cut operands err downwards.
ValueNeverOverstated ==
  \A k \in DOMAIN position :
     venue[k] \in Banks =>
        AssetValue(k) <= AssetAmount(asset_shares[k], Accrued(venue[k]))

\* A withdrawal of the books or more pays the whole balance, all interest up to
\* the current slot included.
FullExitStep ==
  \A k \in DOMAIN position :
     total_shares[k] > 0 /\ total_shares'[k] = 0 =>
        LET w == <<k[1], position[k]>> IN
        wallet'[w] - wallet[w] = AssetAmount(asset_shares[k], Accrued(venue[k]))

FullExitPaysAll == [][FullExitStep]_mvars

\* What the comment on shares_to_usdc says of its pre-shift ("precision loss is
\* far below one base unit"): the cut operands' product is less than one base
\* unit below the exact product.
LossBelowOne ==
  \A k \in DOMAIN position :
     venue[k] \in Banks =>
        LET v == bank[venue[k]].asset_share_value IN
        asset_shares[k] * v - Cut(asset_shares[k]) * Cut(v) * CUT * CUT < ONE * ONE
=============================================================================
