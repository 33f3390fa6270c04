# The Solana Yield Adapter Standard in TLA+

Specifications, model-checking runs and machine-checked proofs for the
dispatcher program, the adapter interface and the five adapters of this
repository (`kamino-usdc`, `marginfi-usdc`, `drift-if`, `jupiter-lp`,
`maple-syrup`). Paths below are relative to the repository's root.

    tlc -config MCDispatcher.cfg MCDispatcher      # the runs: see "Runs"
    tlapm DispatcherProofs.tla                     # the proofs: see "Proofs"

## 1. The system

A **dispatcher** program keeps a governance **registry** of adapter programs and
routes users' deposits, withdrawals and value reads to them. An **adapter**
wraps one yield protocol behind four instructions (`adapter_initialize`,
`adapter_deposit`, `adapter_withdraw`, `adapter_current_value`). The
**interface crate** holds what both sides share: the caller check, the
return-data codec, the state header and the error codes.

| component | state it keeps | operations | interacts with |
|---|---|---|---|
| registry (`programs/dispatcher`: `state.rs`, `initialize_registry`, `whitelist_adapter`, `pause_adapter`) | one `Registry {admin, adapter_count}`, one `AdapterEntry {interface_version, is_active, ..}` per adapter | the three instructions; a redeployment with a bumped `ADAPTER_INTERFACE_VERSION` | read by every routed instruction |
| dispatcher (`open_position`, `deposit`, `withdraw`, `current_value`, `routing.rs`) | one `Position` and one token pool per owner and adapter | the four instructions | transfers owner ↔ pool; CPIs the adapter; reads its answer from the return data |
| interface crate (`crates/adapter-interface`) | none; uses the transaction's return-data register and the instructions sysvar | `verify_caller_is_dispatcher`, `set_u64_return`, `get_u64_return` | called by both sides of a route |
| `kamino-usdc` | per position: `total_shares`, `kamino_reserve`, a cToken vault | the four adapter instructions | CPIs klend: `refresh_reserve`, deposit, redeem |
| `marginfi-usdc` | per position: `total_shares` (the principal), `bank`, a MarginFi account | the four adapter instructions | CPIs MarginFi: account, deposit, withdraw; reads account and bank |
| `drift-if` | per position: `total_shares`, a stake in Drift's insurance fund and its user stats | the four adapter instructions | CPIs Drift: initialize, add stake, request and remove stake |
| `jupiter-lp` | per position: `total_shares`, an LP token account | the four adapter instructions | CPIs Jupiter: add and remove liquidity; reads pool and LP mint |
| `maple-syrup` | per position: `total_shares`, a syrupUSDC account | the four adapter instructions | CPIs Orca: swap; reads the whirlpool |
| scripts, fork tests | none | single calls of the above | — |

Concurrency is between *transactions*: the runtime runs an instruction
atomically with respect to the accounts it writes and rolls everything back when
any part fails. So an instruction is one step, and what is hard is the order in
which instructions of different users, of the admin and of the protocols' other
users follow one another. Within one transaction the hard part is the chain of
invocations, which share a single return-data register and see only the
*top-level* instruction in the sysvar. Any step of it may fail, and what is hard
then is that a handler does several things to several programs' accounts in a
row. Nothing is retried, timed out or recovered by the code; the waiting there
is (Drift's cooldown, a reserve without liquidity, a paused adapter) is the owner's.

What makes each part correct:

- registry: the count is the number of entries and never passes its limit; no
  approval is ever rewritten, removed or revived;
- dispatcher: what an owner does changes that owner's money and books only;
  the pool pays out nothing but what the adapter brought in; positions that
  cannot work (outgrown adapter, wrong mint) cannot take money either;
- interface: the dispatcher goes on with the answer of the adapter it routed to,
  computed in this call; no adapter's work stays behind unless the dispatcher routed
  the instruction. That the *immediate* caller of an adapter is the dispatcher is not
  given: see "CallContext" below;
- adapter: booked shares are backed, can be withdrawn in full, and are reported
  at what they would redeem for, without taking value from anybody else;
- an owner who keeps trying gets her money out, whatever the admin and the
  protocol's other users do in between.

## 2. Modules

    Registry <── Dispatcher <──┬─ KaminoUsdc <─── KaminoExit
                               ├─ MarginfiUsdc <─ MarginfiEvents
                               ├─ DriftIf <────── DriftTransaction
                               ├─ JupiterLp
                               └─ MapleSyrup
    ShareCustody               instantiated by KaminoExit, DriftIf, JupiterLp, MapleSyrup
    CallContext

    DispatcherProofs, ArithmeticProofs <──┬─ KaminoProofs
    (with the registry)                   ├─ MarginfiProofs
                                          ├─ DriftProofs
                                          └─ HoldingProofs (jupiter-lp, maple-syrup)
    ShareCustodyProofs    CallContextProofs
    (MarginfiProofs covers MarginfiEvents, DriftProofs DriftTransaction, KaminoProofs KaminoExit)

(arrows: EXTENDS), and the `MC...` modules with the instances for TLC.

There are two abstract specifications. `Dispatcher` composes the registry with
positions and an arbitrary adapter; each adapter's module replaces the arbitrary
adapter by a concrete one over its protocol and implements `Dispatcher`'s `Spec`.
`ShareCustody` is what the four adapters promise that book the units of their
protocol they hold; each implements it under a mapping of `booked` and `held`. A third
refinement is within one adapter: `DriftTransaction` takes `deposit` and
`withdraw` step by step and implements `DriftIf`, which takes each as one step.
`CallContext` opens up what the other modules treat as atomic in another
direction: the chain of invocations.

**Registry.** `admin` and `adapter_count` are the `Registry` account,
`adapter_entry` is the function from program ids to `AdapterEntry` accounts:
its domain is the set of entries that exist, so Anchor's `init` is "not in the
domain". `interface_version` is the constant compiled into the deployed
dispatcher; `UpgradeDispatcher` is its redeployment. `Routable` is the condition
`open_position`, `deposit`, `withdraw` and `current_value` share.

**Dispatcher.** `position`, `pool`, `wallet` are the accounts of the same names;
`venue` and `total_shares` are what the adapter's state records. `Deposit` is the
owner → pool transfer and `adapter_deposit`; `Withdraw` is `adapter_withdraw` and
the pool → owner transfer of the reported amount. The adapter is the contract
all five keep: some part of the amount goes to the venue, some number of shares
is booked; a withdrawal reports what arrived and takes the shares off the books,
clamped to what is there (`Burned`, from `marginfi-usdc`'s `withdraw_all`; the
others refuse larger requests, which is the absence of a step). Nothing in the
code compares `usdc_mint` with USDC or with the venue, so positions are opened
with any pair, and `Misbound` ones are stuck. A stranger's transfer into a pool
and the traffic of the protocol's other users are actions too.

**KaminoUsdc.** The four handlers over klend reserves. `collateral_vault` is the
position's cToken account, `reserve` the fields the adapter reads at fixed
offsets plus the slot of the last refresh, `protocol[res]` the reserve's
`total_available_amount`. klend is external. It is modelled by what the adapter
relies on: interest accrues on a refresh, mint and redemption are rounded
against the user, a deposit consumes at most the amount and no less than the
minted cTokens are worth, a redemption needs available liquidity.
`AdapterRefresh`, `Measured`, `SharesBooked` and `CollateralValue` are the
adapter's own part. A venue outside `Reserves` is an account klend refuses,
because `adapter_initialize` records the reserve it is given unchecked.

**MarginfiUsdc.** The four handlers over MarginFi banks. `asset_shares` is the
balance in the position's MarginFi account, `bank` the bank's share value and
when it was computed. The adapter books principal, in base units, next to
fractional shares that earn interest: a withdrawal below the books
(`MWithdrawPart`) is of base units, one of the books or more (`MWithdrawAll`) of
everything. MarginFi is external: every instruction on a bank accrues interest
first and converts at the accrued value, burning either rounding of a partial
withdrawal; a loss lowers the share value at once, never to zero.
`Cut`, `SharesToUsdc`, `WithdrawsAll` and `AmountOut` are the adapter's own part.
`AssetValue` is what `adapter_current_value` returns; it is an operator and not an
action because the handler changes nothing and calls nothing.

**MarginfiEvents.** What a reader of the log learns: `ledger` adds the
`shares_minted` and subtracts the `shares_burned` of a position's events,
`value_read` keeps the last `ValueRead` and how old the bank state behind it was.

**KaminoExit.** `KaminoUsdc` seen by an owner who wants her money back:
`FullExit` is the withdrawal of everything booked, `PersistentOwners` the
specification with its fairness, `Wealth` what a position's owner has in wallet,
pool and reserve (a fraction over the cToken supply, so that nothing is rounded
in the property itself).

**ShareCustody.** Two accounts of two programs, `booked` (the header's
`total_shares`) and `held` (cTokens, LP tokens, syrupUSDC, shares of a stake).
All that keeps them together is that a deposit books the change it measured and
that a withdrawal is compared with the books; anyone may send units to the
account, and a redemption may stop early. `marginfi-usdc` keeps other books (the
principal) and has its own properties instead.

**DriftIf.** The four handlers over the USDC insurance fund. `if_shares` are the
positions' stakes, `other_shares` everybody else's, `protocol[SpotMarket]` the
fund's vault, `unstaking_period` the cooldown, which Drift's admin may change.
`DWithdraw` requests and removes in one action, because the handler calls both:
the request is made `now`, so `CooldownOver` compares `now` with itself. Drift is
external: stakes get shares at the fund's rate, removals are paid rounded down,
revenue and losses move the vault.

**DriftTransaction.** One transaction at a time as the sequence of transfers,
readings, CPIs and bookings it is (`pc` names the step, `draft` holds the
accounts it has locked and changed). Any step may fail, and then the draft is
dropped: that is the runtime's promise and is assumed. What is checked is that
the sequence, with whatever it read before the CPIs and used after them, amounts
to `DriftIf`'s action, and that no withdrawal request outlives it.

**JupiterLp.** The four handlers over the JLP pool. `lp_token_account` is the
position's token account, `lp_supply` the mint's supply, `aum` what the pool's
assets are worth now and `aum_usd` what the pool account says they are worth:
liquidity instructions store it, prices move without it. The adapter books the LP
tokens a deposit added and values the ones the account *holds*. Jupiter is
external: LP tokens at the AUM per token, rounded down, less any of `Fees`.

**MapleSyrup.** The four handlers over an Orca whirlpool: a deposit buys
syrupUSDC, a withdrawal sells it. `WhirlpoolValueUsdc` is the adapter's value,
with a shift after each product. Orca is external: a swap of an exact input pays no
more than the price it starts from, moves the price against the swapper, and
takes less than the input only when it reaches the price limit.

**CallContext.** One transaction: top-level instructions of the dispatcher, of
an adapter directly, or of a program that composes with either; the stack of
invocations, which the runtime bounds in depth and never re-enters, the
return-data register it empties at each invocation, and the two checks of the
interface crate. `deposit`, `withdraw` and `current_value` are covered;
`open_position` has the same caller check and reads no return data.

Below the dispatcher anything may invoke an adapter. An adapter may be a third
party's and build on another adapter (`AdapterInvokes`), and the protocol it CPIs
is an account its caller passes (`ProtocolInvokes`). `CallerAccepted` is the check
as it is (`lib.rs:141-143`): it compares the program of the top-level instruction,
although the comment above it (`lib.rs:134`) speaks of "the program that invoked
this adapter". So an adapter reached through another adapter or a
protocol accepts the call, and without the dispatcher's look at its own entry
(paused, outgrown). What the check does give is `NoUnroutedWork`: no work without a
routed call around it. In a chain of the repository's own adapters and the real
protocols, none of which invokes an adapter, the routed adapter is the only one.

The variables `computed` (what each adapter answered in this instruction) and
`worked` (one got past its check) are ghosts. `FairSpec` adds that the runtime does
not stop inside a transaction.

Beside each operation that a property depends on stands a mutant, marked
`Mutant:`: the same operation with a plausible mistake in it. No specification
uses it; put in the operation's place, it makes the property fail, which shows
that the property depends on that line of the code.

## 3. Runs

| run | instance and bounds | states |
|---|---|---|
| `dispatcher` (MCDispatcher) | two owners (either may be the admin), four programs (three executable), room for two adapters, versions 1 and 2, names at and above the limit, a second mint no venue takes, two venues, one USDC each | 957,963 |
| `kamino` (MCKamino) | two owners with two USDC each, one unit with others, one reserve, one account that is none, `SF` = 4 for 2^60, interest of a third per slot, two slots, loans up to two | 456,020 |
| `marginfi` (MCMarginfi) | two owners, one bank, one account that is none, two USDC each, `ONE` = 4 for 2^48, `CUT` = 2 for 2^16, a quarter of interest per slot, two slots, losses of three quarters | 572,846 |
| `marginfi_precision` (MCMarginfi) | eight USDC each, `ONE` = 8, no losses; one property the code violates | — |
| `marginfi_ledger`, `marginfi_stale` (MCMarginfiEvents) | the instance of `marginfi`, a staleness limit of one slot; one property each that the code violates | — |
| `drift` (MCDrift) | two owners with two USDC each, one unit with other stakers, cooldowns of zero and one second, one second of time, step by step | 3,707,012 |
| `jupiter` (MCJupiter) | two owners with two USDC each, one unit with other providers, fees of zero and one unit, AUM up to three | 912,744 |
| `maple` (MCMaple) | one owner with four USDC, two units with others, three syrupUSDC, prices of a quarter, one, nine quarters and four | 103,416 |
| `maple_partial` (MCMaple) | the owner with one USDC, one unit with others, two syrupUSDC, amounts up to three; one property the code violates | — |
| `call_context` (MCCallContext) | two adapters and two protocols that may invoke adapters, the runtime's depth of five, two results, up to two CPIs per adapter call, up to three instructions per transaction | 3,158 |
| `call_context_outer` (MCCallContext) | the same, one property the code violates | — |

Every module states its type invariant, and all of them are proved ("Proofs").
`TypeOK` is also checked by the run `dispatcher`: a withdrawal above the books,
which `marginfi-usdc` accepts, must be clamped.

**dispatcher** — `CountIsExact` (count = entries, and their limit),
`HistoryPreserved` (the promise in `pause_adapter.rs`, and that an outgrown
entry stays unroutable), `PositionsAreListed`, `PoolNeverDrains`,
`PositionsIsolated`, `FrozenStaysFrozen`. With room for two and three
executables the registry fills and refuses; two versions let an entry of the old
one coexist with one approved after the upgrade. Two owners and two adapters give three kinds of
other position: same owner, same adapter, neither; two venues of the same mint
show that a step stays within its own. Amounts up to two contain zero, part and
all of a balance, and a withdrawal above the books. Owners, executable programs and
venues are interchangeable, so they are symmetry sets (all properties are safety).

**kamino** — `SharesBacked`, `ExitNeverBlocked` (an `ENABLED` of the withdrawal:
no guard of the adapter's own stands in the way), `ValueTight`, `ValuesCovered`,
`RateNeverFalls`, and the two refinements `Spec` and `KKeepsCustody`.
`RoundingIsAllItCosts` bounds what a deposit (less than one cToken) and a
withdrawal (less than one base unit) cost their owner; the adapter asks for no
minimum, so a deposit may book nothing. `EveryoneGetsOut` is liveness: see
"Fairness". Five USDC in all reach the regimes of the arithmetic: empty
reserve, rate one, rates above one with a fraction (interest of a third in
quarter units), a reserve lent out beyond a redemption, a deposit that mints
nothing, donations to pools. `MaxU64` is all the money there is, so the bound
never hides a transition the money allows. No symmetry, because of the liveness
property. `MAX_ADAPTERS` = 1 and one version: the registry is checked in `dispatcher`.

**marginfi** — `NothingStranded`, `ValueNeverOverstated`, `FullExitPaysAll`, and
`Spec`. Two slots of a quarter and a loss of three give share values below, at and
above one; a bit of every operand is cut. `MaxShares` bounds the shares of a
position (a deposit at a low share value mints many; rounding lets the total
drift upwards for ever); at twelve, three units at share value one or two of them
at two thirds still fit, and the owner has two. Without USDC of others the bank
can hold less than a position's interest, so withdrawals are refused as well as
paid. Owners are a symmetry set.

**marginfi_precision** — the comment on `shares_to_usdc` (`marginfi_cpi.rs:59-60`)
puts the loss of its pre-shift "far below one base unit". A bit cut from the share
value is multiplied by the number of shares, so the loss passes one unit when the
shares outnumber 2 to the fraction bits that are kept: 2^32, about 4,295 USDC. The
instance has two such bits and amounts of four. What does hold, and is proved, is
that the error is downwards.

**marginfi_ledger** — `InsufficientShares` is "withdraw exceeds the adapter's
tracked share balance" (`adapter-interface/src/lib.rs:160`), with a meaning shared
by all adapters (`docs/SPEC.md:139`). `marginfi-usdc` accepts such a request, and
the events report the requested number as burned: more than was ever minted.

**marginfi_stale** — a value from state older than `MAX_VALUE_STALENESS_SLOTS` is
stale and an error of the dispatcher (`adapter-interface/src/lib.rs:33-35`,
`dispatcher/src/error.rs:35`). Neither constant nor error is used; the run reports
the value of a position on a bank nobody touched since.

**drift** — the specification is `XSpec`, the steps; they implement one action each
(`DSpec`), and that `DSpec` implements `Spec` and keeps `KeepsCustody` is proved.
`StakeIsBooked`: books and stake never part. `StakesCovered`: what the adapter
reports for all positions together is in the fund's vault. `DFullExitPaysValue`: a
withdrawal that empties the books brings the owner exactly what was reported
before it, although the pool may hold donations and Drift is called twice in between. `CooldownDecides` (`ENABLED`) and `LockedByCooldown`: the whole
stake can be withdrawn exactly while the cooldown is zero, as the comment in
`adapter_withdraw.rs` says; `NoRequestLingers`: with a cooldown the request is
undone with the transaction, so waiting does not help. `NobodyDiluted`: without a
loss of the fund, the reported value of a resting stake never falls. One
second of time is enough to tell "the clock has moved" from "the cooldown is
over"; three stakers (two owners, the others) give every order of stakes,
removals, revenue and loss around a resting stake; rounding that mints or pays
nothing occurs with amounts of one. Time does not pass within a transaction.

**jupiter** — `JExitNeverBlocked`, `JFullExitPaysValue`, `LpCovered` (what is reported
for all positions together is within the stored AUM), and the refinements
`JKeepsCustody` and `Spec`. LP tokens sent to the account make holdings and books
differ; AUM above, at and below the supply makes LP tokens worth more, as much
and less than one; an AUM of zero is a pool without assets. What is reported is
what an exit pays only while the stored AUM is current, and the property says so.

**maple** — `PayoutWithinValue`: the two shifts of `whirlpool_value_usdc` lose no
more than the root of the price; the refinements `SKeepsCustody` and `Spec`. The four
prices are below, at and above one, with and without a fraction to lose.
**maple_partial** — `state.rs:9` says `total_shares` "tracks syrupUSDC held". A swap that
stops at the price limit takes less than the books lose; the rest stays in the
account, where no withdrawal reaches it. `SKeepsCustody` says what does hold.

**call_context** — `AcceptedIsComputed`, `AnswerSurvives`, `NoUnroutedWork`, and
`AnswerArrives`: an answer of the routed adapter once computed is what the dispatcher
goes on with. Three instructions let an answer of one be there to be mistaken in the
next; two CPIs put one before and one after whatever the adapter does in between; two
adapters and two protocols fill the depth of five, so that an adapter also answers
below the routed one, directly or through a protocol.

**call_context_outer** — `current_value.rs:12-14` says the instruction "is itself
composable for an outer caller". It is not: `verify_caller_is_dispatcher` reads
the program of the top-level instruction, so when a program CPIs the dispatcher
every adapter answers `Unauthorized`. The trace is the outer program's call, the
dispatcher's, and the adapter that refuses. `docs/SPEC.md` prescribes this check,
so code and SPEC agree with each other and not with the comment.

**Fairness.** The programs schedule nothing: every step is a transaction somebody
chooses to send. Two assumptions are made, each in one specification.

- `KaminoExit!PersistentOwners`: strong fairness of each owner's `FullExit`. It is
  hers to provide, by sending the withdrawal again and again so that one lands
  while it can succeed. Weak fairness would not do: the admin can pause and
  borrowers can drain the reserve between any two of her attempts, so the
  withdrawal need not stay possible. Nothing is assumed of admin, borrowers or
  time. The conclusion is conditional in the same way: `EveryoneGetsOut` holds of
  an owner for whom route and liquidity come together infinitely often. An admin
  who pauses for ever keeps the money in, as `withdraw.rs:24` has it.
- `CallContext!FairSpec`: weak fairness of any step inside a transaction: the
  runtime runs a transaction to its end (compute budget is not modelled).

The runs with liveness (`kamino`, `call_context`) use no symmetry. Deadlock is
checked in every run: a state in which nothing can happen or a call chain that
stops half-way would be reported (`Ended` is the loop of a finished transaction).

## 4. Proofs

For every value of the constants that satisfies the modules' `ASSUME`s: any
number of owners, adapters, mints, venues and reserves, any amounts, any
limits, any version bound, any interest, any cooldowns, fees and prices, any
fixed-point scale (for MarginFi: that the cut divides).

| theorem | statement |
|---|---|
| `DispatcherProofs!RegistryTypeCorrect`, `CountIsAlwaysExact`, `HistoryIsPreserved` | `RegistrySpec => []RegistryTypeOK`, `[]CountIsExact`, `HistoryPreserved` |
| `DispatcherProofs!TypeCorrect`, `PositionsAlwaysListed` | `Spec => []TypeOK`, `Spec => []PositionsAreListed` |
| `DispatcherProofs!DispatcherImplementsRegistry` | `Spec => RegistrySpec`; the first row holds of the whole system |
| `DispatcherProofs!PoolsNeverDrain`, `PositionsStayIsolated`, `FrozenForEver` | `Spec => PoolNeverDrains`, `PositionsIsolated`, `FrozenStaysFrozen` |
| `KaminoProofs!KTypeCorrect`, `SharesAlwaysBacked` | `KSpec => []KTypeOK`, `KSpec => []SharesBacked` |
| `KaminoProofs!KaminoImplementsDispatcher`, `KaminoKeepsCustody` | `KSpec => Spec`, `KSpec => KKeepsCustody` |
| `KaminoProofs!RateAlwaysHolds` | `KSpec => RateNeverFalls` |
| `KaminoProofs!CollateralIsAccounted` | `KSpec => []HeldInv`: supply = vaults of its positions + everybody else's |
| `KaminoProofs!ValueIsTight`, `ValuesAreCovered` | `KSpec => []ValueTight`, `KSpec => []ValuesCovered` |
| `KaminoProofs!WorthAlwaysAUnit`, `CostsOnlyRounding` | `KSpec => []WorthAUnit`, `KSpec => RoundingIsAllItCosts` |
| `KaminoProofs!ExitAlwaysPasses` | `KSpec => []ExitPasses`, the guard form of `ExitNeverBlocked` |
| `MarginfiProofs!MTypeCorrect`, `NothingEverStranded`, `ValueIsNeverOverstated` | `MSpec => []MTypeOK`, `[]NothingStranded`, `[]ValueNeverOverstated` |
| `MarginfiProofs!FullExitIsPaid` | `MSpec => FullExitPaysAll` |
| `MarginfiProofs!MarginfiImplementsDispatcher` | `MSpec => Spec` |
| `MarginfiProofs!EventsImplementAdapter` | `ESpec => MSpec` |
| `MarginfiProofs!LedgerNeverAbove`, `LedgerFollowsBooks` | `ESpec => []LedgerBelowBooks`, `ESpec => LedgerTracksBooks`: what the events add up to is at most the books, and parts from them only in a withdrawal above the books |
| `ShareCustodyProofs!AlwaysBacked`, `SurplusAlwaysStays` | `Spec => []Backed`, `Spec => SurplusStays`, assuming `CustodyAssumption` (units are natural numbers) |
| `DriftProofs!DTypeCorrect`, `StakeAlwaysBooked`, `CooldownLocks` | `DSpec => []DTypeOK`, `[]StakeIsBooked`, `LockedByCooldown` |
| `DriftProofs!DriftImplementsDispatcher`, `DriftKeepsCustody` | `DSpec => Spec`, `DSpec => KeepsCustody` |
| `DriftProofs!FundIsAccounted` | `DSpec => []SharesAddUp`: the fund's shares = the stakes + everybody else's |
| `DriftProofs!NobodyIsDiluted`, `StakesAlwaysCovered` | `DSpec => NobodyDiluted`, `DSpec => []StakesCovered` |
| `DriftProofs!DFullExitIsPaid` | `DSpec => DFullExitPaysValue` |
| `DriftProofs!OnlyTheCooldownGuards` | `DSpec => []CooldownGuards`, the guard form of `CooldownDecides` |
| `DriftProofs!StepsImplementDrift`, `RequestsNeverLinger` | `XSpec => DSpec`, `XSpec => []NoRequestLingers`; the first carries every theorem of `DSpec` over to the steps the run checks |
| `HoldingProofs!JTypeCorrect`, `JFullExitIsPaid` | `JSpec => []JTypeOK`, `JSpec => JFullExitPaysValue` |
| `HoldingProofs!JupiterImplementsDispatcher`, `JupiterKeepsCustody` | `JSpec => Spec`, `JSpec => JKeepsCustody` |
| `HoldingProofs!LpIsAccounted` | `JSpec => []LpAddsUp`: the LP supply = the positions' accounts + everybody else's |
| `HoldingProofs!LpAlwaysCovered` | `JSpec => []LpCovered` |
| `HoldingProofs!JExitAlwaysPasses` | `JSpec => []JExitPasses`, the guard form of `JExitNeverBlocked` |
| `HoldingProofs!STypeCorrect`, `PayoutIsWithinValue` | `SSpec => []STypeOK`, `SSpec => PayoutWithinValue` |
| `HoldingProofs!MapleImplementsDispatcher`, `MapleKeepsCustody` | `SSpec => Spec`, `SSpec => SKeepsCustody` |
| `CallContextProofs!CallTypeCorrect`, `AcceptedIsAlwaysComputed`, `AnswerAlwaysSurvives`, `WorkIsAlwaysRouted` | `Spec => []TypeOK`, `[]AcceptedIsComputed`, `[]AnswerSurvives`, `[]NoUnroutedWork`, for any adapters, protocols and depth |

The inductive invariants:

- `RegistryInv == RegistryTypeOK /\ CountIsExact`. The limit on the count needs
  the type; the type's upper bound needs the `RegistryFull` guard; the exactness
  needs the domain to be finite, so finiteness is part of it.
- `Inv == RegistryInv /\ TypeOK /\ PositionsAreListed`. A position's entry
  exists only because entries are never removed; a misbound position's books
  stay at zero only because it starts there.
- `KInv == Inv /\ KTypeOK /\ SharesBacked`. `SharesBacked` is what makes a
  withdrawal of booked shares leave the vault non-negative, which the types need.
  `RateNeverFalls` follows from it: a mint rounds down and consumes at least its
  worth, a redemption rounds down, and a refresh adds interest or nothing.
- `MInv == Inv /\ MTypeOK /\ NothingStranded`. `ValueNeverOverstated` needs only
  the types: an accrued share value is at least the stored one, and cutting both
  operands errs downwards (`CutErrsDown`, from four lemmas on products and
  quotients). One lemma per action shows the refinement, the invariant and
  `FullExitStep` together (`Holds`).
- `MInv /\ LedgerBelowBooks`, for the events. That an event never promises more
  than the books hold needs `Burned`, the clamp: the event subtracts what was asked
  for, the books what was there. `LedgerNeverOverdrawn` is false for the same reason
  (`marginfi_ledger`); `LedgerStep` says that nothing else makes the two differ.
- `CustodyInv == TypeOK /\ Backed`: a burn is compared with the books, so only
  backing keeps the holdings non-negative.
- `DInv == Inv /\ DTypeOK /\ StakeIsBooked`: a withdrawal is compared with the
  books by the adapter and with the stake by Drift; with both equal, one check
  is enough for both accounts. `JInv` and `SInv` are the dispatcher's invariant
  and the types; what their properties need besides is arithmetic
  (`ArithmeticProofs`, and the lemmas on shifts in `HoldingProofs`).
- `HeldInv == KInv /\ SupplyIsHeld /\ BooksInReserves`: a reserve's cTokens are
  the sum over the vaults of the positions bound to it and what is outside, and
  nothing is booked at a venue that is no reserve. One position then never
  has more than the supply, so its value divides by no zero and is below
  the reserve's liquidity (`ValueTight`: cutting the borrowed amount first loses
  at most one unit, `CutFirst`), and all positions together do not either
  (`ValuesCovered`, by `PartsFit`).
- `WorthInv == HeldInv /\ WorthAUnit`: `SF` of liquidity behind every cToken. The
  cost of a deposit into a reserve that was emptied needs it, where the first
  depositor's cTokens meet what roundings left behind. The rest of
  `RoundingIsAllItCosts` is polynomial arithmetic: the lemmas `DepositCost` and
  `WithdrawCost` state it of numbers, `KDepositFacts` and `KWithdrawFacts` bring the
  actions to that form.
- `FundInv == DInv /\ SharesAddUp`: the fund's shares are the sum of the stakes
  and everybody else's. So a stake is never above the fund (`StakesFit`), its value never
  divides by zero, and a step that keeps the vault per share (`RateKept`, which
  stakes, removals and revenue do, each rounding against whoever acts) lowers no
  resting stake's value by a unit (`RateLiftsValue`). The stakes' values are
  proportional parts of the vault, rounded down, so they fit in it
  (`StakesCovered`, by `PartsFit`).
- `LpInv == JInv /\ LpAddsUp /\ LpBacked`: the same sum for LP tokens, and that
  the account holds what is booked. What is booked is then never more than the
  supply `remove_liquidity2` burns from, and the reported values are proportional
  parts of the stored AUM (`LpCovered`, by `PartsFit`).
- `XInv` (under `DInv` of the committed accounts) says of each step of a
  transaction what its draft is, as a function of the accounts it started from, and
  that no request is committed. A commit is then `DriftIf`'s action and every
  other step of a transaction a stutter; the accounts cannot change meanwhile.
- `CallInv` adds to the types what a stack of any depth may look like: no program
  twice (`NoReentry`); nothing past an adapter's check below another top-level program
  than the dispatcher (`Refused`, which the caller check gives); below the dispatcher the
  routed adapter (`BelowRouted`). With the register empty at each entry
  (`EntersEmpty`) it follows that the register is the routed adapter's exactly when
  that one has answered (`Answered`): to write it again it would have to be
  re-entered. `WorkRouted` is `NoUnroutedWork` by the depth.

Action properties are proved from the invariant once per action.
`DispatcherProofs!StepTouches` classifies every step by what it touches (one
position, or none) and the three action theorems follow from it.
`DispatcherImplementsRegistry` is the other half: no step but a registry
instruction touches the registry, so `CountIsExact` and `HistoryPreserved`, proved
of `RegistrySpec`, hold of `Spec` and of everything that implements it. The
refinement has no mapping to compute, because the adapter modules extend `Dispatcher`
with variables of their own: each of their actions implies an action of `Next`
(for a deposit: that some `consumed` and some `minted` exist) or a stutter.
What is proved of `Spec` therefore holds of all five adapters. The custody
refinements map variables (`booked <- total_shares`, `held <-` the adapter's
holdings), and `Backed` and `SurplusStays` are inherited by the four adapters: an
exit never asks the protocol for more than is there, and units sent to a
position's account are never paid out, although `jupiter-lp` and `maple-syrup`
count them in the reported value.

The sums are the community modules' `SumFunctionOnSet`, a fold. `ArithmeticProofs`
derives what a fold over a finite set of any size comes to from its definition: the
induction is by least counterexample (`SubsetInduction`: a predicate is given as
the set of subsets that satisfy it), the fold is unfolded as a walk through
the set (`WalkStep`), and the walk's order does not matter (`WalkAnyOrder`). The
other proofs cite `SumNat`, `SumSame`, `SumChange`, `SumAdd`, `SumAbove` and
`PartsFit` only: proportional parts of a whole, each rounded down, never sum to
more than the whole.

Only model-checked:

- `ExitNeverBlocked`, `JExitNeverBlocked`, `CooldownDecides`: their statements
  contain `ENABLED`, which the prover cannot treat. Proved is what they say of the
  checks a withdrawal has to pass (`KMayWithdraw`, `JMayWithdraw`, `DMayWithdraw`,
  conjuncts of the three actions); that an action whose checks pass can be taken is
  left to TLC;
- `EveryoneGetsOut`, `AnswerArrives`: liveness under fairness.

Only proved: `LedgerBelowBooks`, `LedgerTracksBooks`, the contracts of
`drift-if` (its run takes steps instead), and the sums behind the values (`HeldInv`,
`SharesAddUp`, `LpAddsUp`).

The five properties of `violation` runs are false.

## 5. What is not modelled

- **Which program a CPI goes to.** No adapter pins it: `drift-if`, `jupiter-lp`,
  `maple-syrup` and `marginfi-usdc` check that the account passed is executable, and
  `kamino-usdc` that it owns the reserve, which was itself recorded unchecked. The
  modules of the adapters are about calls in which it is the protocol. That is what
  everything about holdings rests on, and the `Movable` halves (a position whose venue
  does not take its mint) of `PositionsAreListed` and `FrozenStaysFrozen`: they
  do not hold of a program the caller chose instead. For the same reason a handler
  reached below another adapter or protocol (`CallContext`), without the dispatcher's
  transfers and checks around it, is outside these modules.
- **MarginFi.** Its deposit limits, fees, price oracle and the choice of the share
  value a loss leaves. Interest
  is a constant per slot, added and not compounded: the properties ask of it
  only that share values grow.
- **klend.** Its fees, its deposit limit, its minimum liquidity and its price
  checks. Fees owed to the protocol are not subtracted from the liquidity, so
  the value the adapter reports, which ignores them as well, is an
  upper bound where they are not zero. The offsets at which the adapter reads the
  reserve, and the `u128` overflow of the product (2^64 times 2^68 does not fit),
  are out.
- **Drift.** Whether the argument of the removal request is an amount or a number
  of shares cannot be decided from this repository; the adapter passes and books
  shares, and so does the model. The rebase of a fund's shares and further
  conditions of a removal (the market's status, its pool) are out. All that is checked
  and proved of stakes (`StakeIsBooked`, `StakesCovered`, `NobodyDiluted`,
  `DFullExitPaysValue`, `LockedByCooldown`, `CooldownDecides`, the refinements) holds under
  these two assumptions: after a rebase books and shares would count different units. A fund nobody has a
  stake in belongs to the protocol. That the vault passed to `adapter_current_value`
  is the fund's is checked by nobody; the model passes the right one.
- **Jupiter.** How stale the stored AUM may be (nothing in the code bounds it),
  the oracle accounts, per-custody limits, and the fee's formula.
- **Orca.** The shape of its liquidity: how much below the spot price a swap pays
  is any amount. With a minimum output of zero, as the adapters pass, no
  lower bound on a payout can be stated.
- **The runtime.** That a failed transaction leaves no trace and that two
  transactions which write the same account do not overlap is assumed everywhere;
  `DriftTransaction` states it as its `Commit` and `Fails`.
- **Scripts, fork tests**: command-line clients and one happy path per adapter,
  without state of their own.
- **Account creation by strangers, rent, fees, compute budget, token delegates.**
  Reading a value while the route is closed. `adapter_data` (checked for length only).
- **Layout**: discriminators, encoders, headers, event formats, names.
- `docs/SPEC.md:53` calls `adapter_initialize` "idempotent per position"; the
  code creates the state with `init`, so a second call fails (and the dispatcher never
  makes one, `Position` being `init` too). The model follows the code.
- Errors are guards that do not hold: which error is reported is not modelled,
  except in `CallContext`.

## 6. Plan

Done: everything under "Modules", with the theorems above. What remains, in this order:

1. Two live reserves in one run of `KaminoUsdc`.
2. The events over the other four adapters, whose books and events cannot
   disagree the way `marginfi-usdc`'s do.
3. `deposit` and `withdraw` step by step for the other adapters, as
   `DriftTransaction` does for `drift-if`.
