----------------------------- MODULE Dispatcher -----------------------------
(***************************************************************************)
(* The dispatcher: positions, their USDC pools, and the routing of         *)
(* open_position, deposit and withdraw to an adapter                       *)
(* (programs/dispatcher/src/instructions and routing.rs), over the         *)
(* registry of module Registry.                                            *)
(*                                                                         *)
(* The adapter behind a route is represented by the contract all five      *)
(* adapters of the repository share: adapter_initialize records the        *)
(* protocol account the position is bound to (a klend reserve, a marginfi  *)
(* bank, a custody, a whirlpool, a spot market: its venue); adapter_deposit *)
(* moves some part of the amount from the pool into the venue and books    *)
(* the shares; adapter_withdraw moves tokens from the venue into the pool, *)
(* reports exactly what arrived, and takes the shares off the books (never *)
(* below zero).  What a share is worth is the adapter's business and left  *)
(* open here; KaminoUsdc narrows it.                                       *)
(*                                                                         *)
(* Nothing in the code compares usdc_mint with the mint of USDC: a         *)
(* position works in whatever mint it was opened for, if its venue takes   *)
(* that mint.  A venue with NoMint stands for an account the protocol      *)
(* refuses (not one of its own, or paired with accounts that do not fit).  *)
(*                                                                         *)
(* A failed CPI or a missing return value aborts the transaction, so it is *)
(* the absence of a step.                                                  *)
(***************************************************************************)
EXTENDS Registry

CONSTANTS
  Mints,        \* mints a position may be opened for
  NoMint,       \* the mint of a venue that takes no deposits
  Venues,       \* protocol accounts a position may be bound to
  VenueMint,    \* venue -> the mint it takes
  MaxU64,       \* largest token amount, 2^64 - 1 in the code
  WalletFunds,  \* mint -> tokens in each wallet at the start
  OtherFunds    \* mint -> tokens held by everyone else at the start

ASSUME DispatcherAssumption ==
  /\ NoMint \notin Mints
  /\ VenueMint \in [Venues -> Mints \cup {NoMint}]
  /\ MaxU64 \in Nat
  /\ WalletFunds \in [Mints -> Nat]
  /\ OtherFunds \in [Mints -> Nat]

VARIABLES
  position,      \* <<owner, program>> -> usdc_mint, for the Position PDAs created
  venue,         \* <<owner, program>> -> the venue recorded in the adapter state
  pool,          \* <<owner, program>> -> tokens in position_usdc_pool
  total_shares,  \* <<owner, program>> -> AdapterStateHeader.total_shares
  wallet,        \* <<owner, mint>> -> tokens in owner_usdc_ata
  protocol,      \* venue -> tokens it holds
  others         \* mint -> tokens held by everybody else

fundVars == <<position, venue, pool, total_shares, wallet, protocol, others>>
vars == <<registryVars, fundVars>>

PositionKeys == Keys \X Programs
Amount == 0..MaxU64

-----------------------------------------------------------------------------
Init ==
  /\ RegistryInit
  /\ position = NoAccounts
  /\ venue = NoAccounts
  /\ pool = NoAccounts
  /\ total_shares = NoAccounts
  /\ wallet = [w \in Keys \X Mints |-> WalletFunds[w[2]]]
  /\ protocol = [v \in Venues |-> 0]
  /\ others = OtherFunds

\* Mutant: the dispatcher does not require the adapter to be whitelisted, only
\* that an existing entry is not paused.
OpenPositionUnlisted(owner, program, mint, v) ==
  LET k == <<owner, program>> IN
  /\ program \in DOMAIN adapter_entry => adapter_entry[program].is_active
  /\ k \notin DOMAIN position
  /\ position' = Create(position, k, mint)
  /\ venue' = Create(venue, k, v)
  /\ pool' = Create(pool, k, 0)
  /\ total_shares' = Create(total_shares, k, 0)
  /\ UNCHANGED <<registryVars, wallet, protocol, others>>

\* open_position: Position PDA, pool ATA and (through the CPI) adapter state are
\* all `init`, so this happens once per owner and adapter; any mint and any
\* venue are accepted, whether they fit together or not.
OpenPosition(owner, program, mint, v) ==
  LET k == <<owner, program>> IN
  /\ Routable(program)
  /\ k \notin DOMAIN position
  /\ k \notin DOMAIN total_shares
  /\ position' = Create(position, k, mint)
  /\ venue' = Create(venue, k, v)
  /\ pool' = Create(pool, k, 0)
  /\ total_shares' = Create(total_shares, k, 0)
  /\ UNCHANGED <<registryVars, wallet, protocol, others>>

\* A position whose venue does not take its mint.
Misbound(k) == VenueMint[venue[k]] # position[k]

\* Mutant: the require! on the entry's interface_version is missing.
MovableAnyVersion(owner, program) ==
  LET k == <<owner, program>> IN
  /\ program \in DOMAIN adapter_entry
  /\ adapter_entry[program].is_active
  /\ k \in DOMAIN position
  /\ k \in DOMAIN total_shares
  /\ ~Misbound(k)

\* What deposit and withdraw ask of their accounts before they move anything.
\* A pool of a mint the venue does not take is refused inside the adapter's CPI.
Movable(owner, program) ==
  LET k == <<owner, program>> IN
  /\ Routable(program)
  /\ k \in DOMAIN position
  /\ k \in DOMAIN total_shares
  /\ ~Misbound(k)

\* Mutant: the adapter state's seeds lack the position, so every position in
\* the adapter reads and writes the same total_shares.
DepositSharedState(owner, program, amount, consumed, minted) ==
  LET k == <<owner, program>> IN
  /\ wallet' = [wallet EXCEPT ![<<owner, position[k]>>] = @ - amount]
  /\ pool' = [pool EXCEPT ![k] = @ + amount - consumed]
  /\ protocol' = [protocol EXCEPT ![venue[k]] = @ + consumed]
  /\ total_shares' = [q \in DOMAIN total_shares |->
        IF q[2] = program THEN total_shares[k] + minted ELSE total_shares[q]]
  /\ UNCHANGED <<registryVars, position, venue, others>>

\* deposit: owner -> pool (amount), then adapter_deposit pulls `consumed` out of
\* the pool into the protocol and books `minted` shares.
DepositEffect(owner, program, amount, consumed, minted) ==
  LET k == <<owner, program>> IN
  /\ wallet' = [wallet EXCEPT ![<<owner, position[k]>>] = @ - amount]
  /\ pool' = [pool EXCEPT ![k] = @ + amount - consumed]
  /\ protocol' = [protocol EXCEPT ![venue[k]] = @ + consumed]
  /\ total_shares' = [total_shares EXCEPT ![k] = @ + minted]
  /\ UNCHANGED <<registryVars, position, venue, others>>

Deposit(owner, program, amount) ==
  LET k == <<owner, program>> IN
  /\ amount > 0
  /\ Movable(owner, program)
  /\ wallet[<<owner, position[k]>>] >= amount
  /\ \E consumed \in 0..amount, minted \in 0..(MaxU64 - total_shares[k]) :
        DepositEffect(owner, program, amount, consumed, minted)

\* Mutant: withdraw forwards all the pool holds, not what the adapter reported.
WithdrawSweepsPool(owner, program, burned, redeemed, amount_out) ==
  LET k == <<owner, program>> IN
  /\ total_shares' = [total_shares EXCEPT ![k] = @ - burned]
  /\ protocol' = [protocol EXCEPT ![venue[k]] = @ - redeemed]
  /\ pool' = [pool EXCEPT ![k] = 0]
  /\ wallet' = [wallet EXCEPT ![<<owner, position[k]>>] = @ + pool[k] + redeemed]
  /\ UNCHANGED <<registryVars, position, venue, others>>

\* withdraw: adapter_withdraw burns `burned` booked shares and moves `redeemed`
\* from the protocol into the pool; the dispatcher then forwards the amount_out
\* the adapter reported from the pool to the owner.
WithdrawEffect(owner, program, burned, redeemed, amount_out) ==
  LET k == <<owner, program>> IN
  /\ total_shares' = [total_shares EXCEPT ![k] = @ - burned]
  /\ protocol' = [protocol EXCEPT ![venue[k]] = @ - redeemed]
  /\ pool' = [pool EXCEPT ![k] = @ + redeemed - amount_out]
  /\ wallet' = [wallet EXCEPT ![<<owner, position[k]>>] = @ + amount_out]
  /\ UNCHANGED <<registryVars, position, venue, others>>

\* Mutant: the request is taken off the books unchecked.
BurnedUnchecked(shares, booked) == shares

\* The shares an adapter takes off its books: the ones asked for, or all there
\* are when it accepts a larger request (marginfi-usdc's withdraw_all).
Burned(shares, booked) == IF shares <= booked THEN shares ELSE booked

Withdraw(owner, program, shares) ==
  LET k == <<owner, program>> IN
  /\ shares > 0
  /\ Movable(owner, program)
  /\ \E redeemed \in 0..protocol[venue[k]] :
        WithdrawEffect(owner, program, Burned(shares, total_shares[k]),
                       redeemed, redeemed)

\* Anyone may transfer tokens into a pool, a plain token account.
DonateToPool(k, amount) ==
  /\ k \in DOMAIN position
  /\ amount <= others[position[k]]
  /\ pool' = [pool EXCEPT ![k] = @ + amount]
  /\ others' = [others EXCEPT ![position[k]] = @ - amount]
  /\ UNCHANGED <<registryVars, position, venue, total_shares, wallet, protocol>>

\* The protocol's other users pay in (deposits, repayments, fees) ...
ProtocolInflow(v, amount) ==
  /\ amount <= others[VenueMint[v]]
  /\ protocol' = [protocol EXCEPT ![v] = @ + amount]
  /\ others' = [others EXCEPT ![VenueMint[v]] = @ - amount]
  /\ UNCHANGED <<registryVars, position, venue, pool, total_shares, wallet>>

\* ... and take out (withdrawals, borrows, claims on losses).
ProtocolOutflow(v, amount) ==
  /\ amount <= protocol[v]
  /\ protocol' = [protocol EXCEPT ![v] = @ - amount]
  /\ others' = [others EXCEPT ![VenueMint[v]] = @ + amount]
  /\ UNCHANGED <<registryVars, position, venue, pool, total_shares, wallet>>

Next ==
  \/ RegistryNext /\ UNCHANGED fundVars
  \/ \E owner \in Keys, program \in Programs, mint \in Mints, v \in Venues :
        OpenPosition(owner, program, mint, v)
  \/ \E owner \in Keys, program \in Programs, amount \in Amount :
        Deposit(owner, program, amount)
  \/ \E owner \in Keys, program \in Programs, shares \in Amount :
        Withdraw(owner, program, shares)
  \/ \E k \in PositionKeys, amount \in Amount : DonateToPool(k, amount)
  \/ \E v \in {u \in Venues : VenueMint[u] \in Mints} :
        \/ \E amount \in 0..others[VenueMint[v]] : ProtocolInflow(v, amount)
        \/ \E amount \in 0..protocol[v] : ProtocolOutflow(v, amount)

Spec == Init /\ [][Next]_vars

-----------------------------------------------------------------------------
\* Type invariant of the dispatcher's and the adapters' accounts.
TypeOK ==
  /\ RegistryTypeOK
  /\ DOMAIN position \subseteq PositionKeys
  /\ position \in [DOMAIN position -> Mints]
  /\ venue \in [DOMAIN position -> Venues]
  /\ pool \in [DOMAIN position -> Nat]
  /\ total_shares \in [DOMAIN position -> Amount]
  /\ wallet \in [Keys \X Mints -> Nat]
  /\ protocol \in [Venues -> Nat]
  /\ others \in [Mints -> Nat]

\* Every position was opened through the registry and can be traced to an
\* entry that still exists, and nothing is ever booked for a position whose
\* venue does not take its mint (open_position accepts any pair), whatever
\* deposits and withdrawals are attempted.
PositionsAreListed ==
  \A k \in DOMAIN position :
     /\ k[2] \in DOMAIN adapter_entry
     /\ Misbound(k) => total_shares[k] = 0

\* withdraw forwards the reported amount and nothing else, so what a deposit
\* leaves in the pool ("allow sub-cent rounding dust in the pool",
\* tests/fork/02-kamino-native.ts) or a stranger sends there never comes back
\* out: no instruction lowers a pool's balance from one transaction to the next.
PoolNeverDrains ==
  [][\A k \in DOMAIN pool : k \in DOMAIN pool' /\ pool'[k] >= pool[k]]_vars

\* Positions are isolated: a step that changes one position's booked shares
\* changes no other position's shares or pool, and moves tokens only between
\* its owner's wallet in its mint, its pool and its venue.
IsolatedStep ==
  \A k \in DOMAIN total_shares :
     k \in DOMAIN total_shares' /\ total_shares'[k] # total_shares[k] =>
        /\ \A q \in DOMAIN total_shares \ {k} :
              total_shares'[q] = total_shares[q] /\ pool'[q] = pool[q]
        /\ \A w \in (Keys \X Mints) \ {<<k[1], position[k]>>} : wallet'[w] = wallet[w]
        /\ \A v \in Venues \ {venue[k]} : protocol'[v] = protocol[v]
        /\ others' = others

PositionsIsolated == [][IsolatedStep]_vars

\* An entry approved for an interface version the deployed dispatcher has left.
Outgrown(program) ==
  /\ program \in DOMAIN adapter_entry
  /\ adapter_entry[program].interface_version < interface_version

\* Two kinds of positions are frozen, and stay so whatever owner and admin do:
\* those of an adapter approved before an upgrade bumped the interface version
\* (entries are `init`-once and have no update instruction), and those opened
\* with a mint their venue does not take (there is one Position per owner and
\* adapter, never closed).  Their shares can neither grow nor be withdrawn.
FrozenStep ==
  \A k \in DOMAIN position :
     /\ Outgrown(k[2]) => Outgrown(k[2])'
     /\ Misbound(k) => Misbound(k)'
     /\ Outgrown(k[2]) \/ Misbound(k) => total_shares'[k] = total_shares[k]

FrozenStaysFrozen == [][FrozenStep]_vars
=============================================================================
