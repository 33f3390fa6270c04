----------------------------- MODULE MapleSyrup -----------------------------
(***************************************************************************)
(* The maple-syrup adapter behind the dispatcher (programs/maple-syrup/    *)
(* src): swap-and-hold over an Orca whirlpool of syrupUSDC (token A) and   *)
(* USDC (token B).                                                         *)
(*                                                                         *)
(* A deposit swaps USDC for syrupUSDC and books what arrived in the        *)
(* position's token account; a withdrawal swaps back and takes the amount  *)
(* asked for off the books, whatever the swap took.  The value of what the *)
(* account holds is priced at the whirlpool's spot price.                  *)
(*                                                                         *)
(* Orca is external; it is modelled by what the adapter relies on: a swap  *)
(* of an exact input moves the price against the swapper, pays no more     *)
(* than the price it starts from (fees and the shape of the liquidity only *)
(* lower it), and stops short of the whole input only at the price limit   *)
(* it was given, which the adapter sets to the bounds of the price itself. *)
(* Prices are the square root of USDC per syrupUSDC, over ONE.  A venue    *)
(* other than Whirlpool stands for an account Orca refuses.                *)
(***************************************************************************)
EXTENDS Dispatcher

CONSTANTS
  Maple,           \* program id of the maple-syrup adapter
  Whirlpool,       \* the whirlpool among the venues
  ONE,             \* 1 as a Q64.64: 2^64
  MIN_SQRT_PRICE,
  MAX_SQRT_PRICE,
  Syrup            \* syrupUSDC in existence

ASSUME MapleAssumption ==
  /\ Maple \in Programs
  /\ Whirlpool \in Venues
  /\ VenueMint[Whirlpool] \in Mints
  /\ ONE \in Nat \ {0}
  /\ MIN_SQRT_PRICE \in Nat \ {0}
  /\ MAX_SQRT_PRICE \in Nat
  /\ ONE \in MIN_SQRT_PRICE..MAX_SQRT_PRICE
  /\ Syrup \in Nat

VARIABLES
  syrup_token_account,  \* <<owner, Maple>> -> syrupUSDC in the position's account
  vault_a,              \* syrupUSDC in the whirlpool
  syrup_elsewhere,      \* syrupUSDC everybody else holds
  sqrt_price            \* Whirlpool.sqrt_price

mapleVars == <<syrup_token_account, vault_a, syrup_elsewhere, sqrt_price>>
svars == <<vars, mapleVars>>

SqrtPrice == MIN_SQRT_PRICE..MAX_SQRT_PRICE

-----------------------------------------------------------------------------
(* Orca: swaps of an exact input.  `spent` is what a swap takes of it, `got` *)
(* what it pays.                                                             *)

\* USDC for syrupUSDC, up to MAX_SQRT_PRICE.
SwapBToA(amount, spent, got) ==
  /\ spent <= amount
  /\ sqrt_price' \in sqrt_price..MAX_SQRT_PRICE
  /\ spent < amount => sqrt_price' = MAX_SQRT_PRICE
  /\ got <= vault_a
  /\ got * (sqrt_price * sqrt_price) <= spent * (ONE * ONE)

\* syrupUSDC for USDC, down to MIN_SQRT_PRICE.
SwapAToB(amount, spent, got) ==
  /\ spent <= amount
  /\ sqrt_price' \in MIN_SQRT_PRICE..sqrt_price
  /\ spent < amount => sqrt_price' = MIN_SQRT_PRICE
  /\ got <= protocol[Whirlpool]
  /\ got * (ONE * ONE) <= spent * (sqrt_price * sqrt_price)

-----------------------------------------------------------------------------
(* the adapter's own arithmetic *)

\* Mutant: all the syrupUSDC in the account is booked.
SyrupBalance(before, after) == after

\* shares_minted: what the swap added to syrup_token_account.
SyrupMinted(before, after) == after - before

\* Mutant: the pool's balance is taken for its change.
SPoolBalance(before, after) == after

\* amount_out: what the swap moved into the pool.
SAmountOut(before, after) == after - before

\* Mutant: the price is shifted before it is multiplied.
PriceShiftedFirst(balance, sp) == balance * (sp \div ONE) * (sp \div ONE)

\* whirlpool_value_usdc: balance * (sp / 2^64)^2 with a shift after each product.
WhirlpoolValueUsdc(balance, sp) == (((balance * sp) \div ONE) * sp) \div ONE

\* The value adapter_current_value returns.
SyrupValue(k) == WhirlpoolValueUsdc(syrup_token_account[k], sqrt_price)

-----------------------------------------------------------------------------
(* the instructions *)

SInit ==
  /\ Init
  /\ syrup_token_account = NoAccounts
  /\ vault_a \in 0..Syrup
  /\ syrup_elsewhere = Syrup - vault_a
  /\ sqrt_price = ONE

\* open_position, adapter_initialize in its CPI: the state and the syrupUSDC
\* account are created, mint and whirlpool are recorded unchecked.
SOpenPosition(owner, mint, chosen) ==
  /\ OpenPosition(owner, Maple, mint, chosen)
  /\ syrup_token_account' = Create(syrup_token_account, <<owner, Maple>>, 0)
  /\ UNCHANGED <<vault_a, syrup_elsewhere, sqrt_price>>

\* The route is open and the position is bound to the whirlpool.
WhirlpoolBound(owner) ==
  /\ Movable(owner, Maple)
  /\ venue[<<owner, Maple>>] = Whirlpool

\* deposit with adapter_deposit: the swap has no minimum out, and USDC it does
\* not take stays in the pool.
SDeposit(owner, amount, spent, got) ==
  LET k == <<owner, Maple>>
      minted == SyrupMinted(syrup_token_account[k], syrup_token_account[k] + got)
  IN
  /\ amount > 0
  /\ WhirlpoolBound(owner)
  /\ wallet[<<owner, position[k]>>] >= amount
  /\ SwapBToA(amount, spent, got)
  /\ total_shares[k] + minted <= MaxU64
  /\ syrup_token_account[k] + got <= MaxU64
  /\ DepositEffect(owner, Maple, amount, spent, minted)
  /\ syrup_token_account' = [syrup_token_account EXCEPT ![k] = @ + got]
  /\ vault_a' = vault_a - got
  /\ UNCHANGED syrup_elsewhere

\* withdraw with adapter_withdraw: InsufficientShares beyond the books; the
\* swap has no minimum out, and the books lose `shares` whatever it took.
SWithdraw(owner, shares, spent, got) ==
  LET k == <<owner, Maple>> IN
  /\ shares > 0
  /\ WhirlpoolBound(owner)
  /\ shares <= total_shares[k]
  /\ spent <= syrup_token_account[k]
  /\ SwapAToB(shares, spent, got)
  /\ WithdrawEffect(owner, Maple, shares, got, SAmountOut(pool[k], pool[k] + got))
  /\ syrup_token_account' = [syrup_token_account EXCEPT ![k] = @ - spent]
  /\ vault_a' = vault_a + spent
  /\ UNCHANGED syrup_elsewhere

-----------------------------------------------------------------------------
(* syrupUSDC is a token; the whirlpool's other users *)

SendSyrup(k, n) ==
  /\ n <= syrup_elsewhere
  /\ syrup_token_account[k] + n <= MaxU64
  /\ syrup_token_account' = [syrup_token_account EXCEPT ![k] = @ + n]
  /\ syrup_elsewhere' = syrup_elsewhere - n
  /\ UNCHANGED <<vars, vault_a, sqrt_price>>

\* Others swap, and put in and take out liquidity.
OthersSwap ==
  /\ \E n \in 0..syrup_elsewhere + vault_a :
        /\ vault_a' = n
        /\ syrup_elsewhere' = syrup_elsewhere + vault_a - n
  /\ sqrt_price' \in SqrtPrice
  /\ \E usdc \in Amount :
        ProtocolInflow(Whirlpool, usdc) \/ ProtocolOutflow(Whirlpool, usdc)
  /\ UNCHANGED syrup_token_account

SOwnerStep ==
  \E owner \in Keys :
     \/ \E mint \in Mints, chosen \in Venues : SOpenPosition(owner, mint, chosen)
     \/ \E amount \in Amount, spent \in Amount, got \in Amount :
           \/ SDeposit(owner, amount, spent, got)
           \/ SWithdraw(owner, amount, spent, got)

SOthersStep ==
  \/ \E k \in DOMAIN position, n \in Amount : SendSyrup(k, n)
  \/ OthersSwap

SNext ==
  \/ RegistryNext /\ UNCHANGED <<fundVars, mapleVars>>
  \/ SOwnerStep
  \/ SOthersStep
  \/ \E k \in DOMAIN position, amount \in Amount :
        DonateToPool(k, amount) /\ UNCHANGED mapleVars

SSpec == SInit /\ [][SNext]_svars

-----------------------------------------------------------------------------
\* Type invariant of the adapter's and the whirlpool's accounts.
STypeOK ==
  /\ TypeOK
  /\ DOMAIN position \subseteq Keys \X {Maple}
  /\ syrup_token_account \in [DOMAIN position -> Amount]
  /\ vault_a \in Nat
  /\ syrup_elsewhere \in Nat
  /\ sqrt_price \in SqrtPrice

\* The two shifts of whirlpool_value_usdc lose no more than the root of the
\* price: a withdrawal never pays more than that above the value reported just
\* before it, at any price and whatever the swap took.
PayoutStep ==
  \A k \in DOMAIN position :
     LET w == <<k[1], position[k]>> IN
     total_shares'[k] < total_shares[k]
     => wallet'[w] - wallet[w] <= SyrupValue(k) + (sqrt_price + ONE - 1) \div ONE

PayoutWithinValue == [][PayoutStep]_svars

\* The adapter implements ShareCustody: a swap may leave some of the booked
\* syrupUSDC in the account, but never takes any that is not booked.
SCustody == INSTANCE ShareCustody WITH
  Positions <- PositionKeys, Units <- Amount, booked <- total_shares,
  held <- syrup_token_account

SKeepsCustody == SCustody!Spec

\* "`header.total_shares` tracks syrupUSDC held" (state.rs): deposits and
\* withdrawals change the books by what they change the account.
TrackingStep ==
  \A k \in DOMAIN position :
     total_shares'[k] # total_shares[k] =>
        total_shares'[k] - total_shares[k]
          = syrup_token_account'[k] - syrup_token_account[k]

BooksTrackHoldings == [][TrackingStep]_svars
=============================================================================
