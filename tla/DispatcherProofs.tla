-------------------------- MODULE DispatcherProofs --------------------------
(***************************************************************************)
(* Proofs about the dispatcher program, modules Registry and Dispatcher.   *)
(* Of the registry: its type invariant, the exactness of adapter_count,    *)
(* and that history is preserved, for any keys, programs and limits.  Of   *)
(* the routing: the type invariant and the listing of positions, and the   *)
(* three action properties of MCDispatcher, for any owners, adapters,      *)
(* mints and amounts, and that the whole keeps to the registry's part.     *)
(***************************************************************************)
EXTENDS Dispatcher, FiniteSetTheorems, TLAPS

-----------------------------------------------------------------------------
(* the registry *)

RegistryInv == RegistryTypeOK /\ CountIsExact

\* Creating an account adds one key.
LEMMA CreateAdds ==
  ASSUME NEW f, NEW k, NEW v
  PROVE  DOMAIN Create(f, k, v) = DOMAIN f \cup {k}
  BY DEF Create

\* Creating an account of a kind in a map of accounts of that kind.
LEMMA CreateType ==
  ASSUME NEW S, NEW f, NEW k, NEW v \in S, f \in [DOMAIN f -> S]
  PROVE  Create(f, k, v) \in [DOMAIN f \cup {k} -> S]
  BY DEF Create

\* The registry starts in the invariant: no accounts, no count, version 1.
LEMMA RegistryInitInv == RegistryInit => RegistryInv
<1>1. SUFFICES ASSUME RegistryInit PROVE RegistryInv
  OBVIOUS
<1>2. DOMAIN adapter_entry = {}
  BY <1>1 DEF RegistryInit, NoAccounts
<1>3. RegistryTypeOK
  <2>1. adapter_entry \in [DOMAIN adapter_entry -> AdapterEntry]
    BY <1>1, <1>2 DEF RegistryInit, NoAccounts
  <2>2. QED
    BY <1>1, <1>2, <2>1, RegistryAssumption
    DEF RegistryInit, RegistryTypeOK
<1>4. CountIsExact
  BY <1>1, <1>2, RegistryAssumption, FS_EmptySet DEF RegistryInit, CountIsExact
<1>5. QED
  BY <1>3, <1>4 DEF RegistryInv

\* whitelist_adapter keeps the types and counts the one entry it adds.
LEMMA WhitelistAdapterInv ==
  ASSUME RegistryInv,
         NEW signer \in Keys, NEW program \in Programs,
         NEW name_len \in NameLens, NEW version \in 1..MaxVersion,
         WhitelistAdapter(signer, program, name_len, version)
  PROVE  RegistryInv'
<1> DEFINE entry == [interface_version |-> version, is_active |-> TRUE]
<1>1. /\ adapter_entry' = Create(adapter_entry, program, entry)
      /\ adapter_count' = adapter_count + 1
      /\ adapter_count < MAX_ADAPTERS
      /\ program \notin DOMAIN adapter_entry
      /\ program \in Executable
      /\ signer = admin
      /\ UNCHANGED <<admin, interface_version>>
  BY DEF WhitelistAdapter
<1>2. entry \in AdapterEntry
  BY DEF AdapterEntry
<1> HIDE DEF entry
<1>3. DOMAIN adapter_entry' = DOMAIN adapter_entry \cup {program}
  BY <1>1, CreateAdds
<1>4. RegistryTypeOK'
  <2>1. adapter_entry' \in [DOMAIN adapter_entry' -> AdapterEntry]
    <3>1. adapter_entry \in [DOMAIN adapter_entry -> AdapterEntry]
      BY DEF RegistryInv, RegistryTypeOK
    <3>2. Create(adapter_entry, program, entry)
            \in [DOMAIN adapter_entry \cup {program} -> AdapterEntry]
      BY <1>2, <3>1, CreateType
    <3>3. QED
      BY <1>1, <1>3, <3>2
  <2>2. adapter_count' \in 0..MAX_ADAPTERS
    BY <1>1, RegistryAssumption DEF RegistryInv, RegistryTypeOK
  <2>3. QED
    BY <1>1, <1>3, <2>1, <2>2 DEF RegistryInv, RegistryTypeOK
<1>5. CountIsExact'
  <2>1. /\ IsFiniteSet(DOMAIN adapter_entry')
        /\ Cardinality(DOMAIN adapter_entry') = Cardinality(DOMAIN adapter_entry) + 1
    BY <1>1, <1>3, FS_AddElement DEF RegistryInv, CountIsExact
  <2>2. admin' # NoKey
    BY <1>1, RegistryAssumption
  <2>3. adapter_count' <= MAX_ADAPTERS
    BY <1>4, RegistryAssumption DEF RegistryTypeOK
  <2>4. adapter_count' = Cardinality(DOMAIN adapter_entry')
    BY <1>1, <2>1 DEF RegistryInv, CountIsExact
  <2>5. QED
    BY <1>1, <1>3, <2>1, <2>2, <2>3, <2>4 DEF RegistryInv, CountIsExact
<1>6. QED
  BY <1>4, <1>5 DEF RegistryInv

\* pause_adapter rewrites a flag of an entry that exists.
LEMMA PauseAdapterInv ==
  ASSUME RegistryInv,
         NEW signer \in Keys, NEW program \in Programs, NEW paused \in BOOLEAN,
         PauseAdapter(signer, program, paused)
  PROVE  RegistryInv'
<1>1. /\ DOMAIN adapter_entry' = DOMAIN adapter_entry
      /\ UNCHANGED <<admin, adapter_count, interface_version>>
  BY DEF PauseAdapter
<1>2. adapter_entry' \in [DOMAIN adapter_entry -> AdapterEntry]
  BY DEF PauseAdapter, RegistryInv, RegistryTypeOK, AdapterEntry
<1>3. QED
  BY <1>1, <1>2 DEF RegistryInv, RegistryTypeOK, CountIsExact

\* Every registry step keeps the invariant.
LEMMA RegistryNextInv == RegistryInv /\ [RegistryNext]_registryVars => RegistryInv'
<1> SUFFICES ASSUME RegistryInv, [RegistryNext]_registryVars
             PROVE  RegistryInv'
  OBVIOUS
<1>1. CASE \E signer \in Keys : InitializeRegistry(signer)
  BY <1>1, RegistryAssumption, FS_EmptySet
  DEF InitializeRegistry, RegistryInv, RegistryTypeOK, CountIsExact
<1>2. CASE \E signer \in Keys, program \in Programs, name_len \in NameLens,
              version \in 1..MaxVersion :
              WhitelistAdapter(signer, program, name_len, version)
  BY <1>2, WhitelistAdapterInv
<1>3. CASE \E signer \in Keys, program \in Programs, paused \in BOOLEAN :
              PauseAdapter(signer, program, paused)
  BY <1>3, PauseAdapterInv
<1>4. CASE UpgradeDispatcher
  BY <1>4, RegistryAssumption
  DEF UpgradeDispatcher, RegistryInv, RegistryTypeOK, CountIsExact
<1>5. CASE UNCHANGED registryVars
  BY <1>5 DEF registryVars, RegistryInv, RegistryTypeOK, CountIsExact
<1>6. QED
  BY <1>1, <1>2, <1>3, <1>4, <1>5 DEF RegistryNext

\* The registry invariant holds in every reachable state.
THEOREM RegistryInvariant == RegistrySpec => []RegistryInv
  BY RegistryInitInv, RegistryNextInv, PTL DEF RegistrySpec

\* The registry's accounts keep their types: adapter_count at most MAX_ADAPTERS, every
\* approved version one that the dispatcher has had, for any sets and limits.
THEOREM RegistryTypeCorrect == RegistrySpec => []RegistryTypeOK
<1>1. RegistryInv => RegistryTypeOK
  BY DEF RegistryInv
<1>2. QED
  BY <1>1, RegistryInvariant, PTL

\* adapter_count is the number of entries, for any number of programs and any
\* MAX_ADAPTERS, so the registry is never refused as full early or overfilled.
THEOREM CountIsAlwaysExact == RegistrySpec => []CountIsExact
<1>1. RegistryInv => CountIsExact
  BY DEF RegistryInv
<1>2. QED
  BY <1>1, RegistryInvariant, PTL

\* A single registry step preserves the registry's history.
LEMMA HistoryStepHolds == RegistryInv /\ [RegistryNext]_registryVars => HistoryStep
<1> SUFFICES ASSUME RegistryInv, [RegistryNext]_registryVars
             PROVE  HistoryStep
  OBVIOUS
<1>t. /\ adapter_count \in Int
      /\ interface_version \in Int
      /\ \A p \in DOMAIN adapter_entry : adapter_entry[p].interface_version \in Int
  BY DEF RegistryInv, RegistryTypeOK, AdapterEntry
<1>1. CASE \E signer \in Keys : InitializeRegistry(signer)
  BY <1>1, <1>t, FS_EmptySet
  DEF InitializeRegistry, HistoryStep, RegistryInv, CountIsExact, Routable
<1>2. CASE \E signer \in Keys, program \in Programs, name_len \in NameLens,
              version \in 1..MaxVersion :
              WhitelistAdapter(signer, program, name_len, version)
  <2>1. PICK signer \in Keys, program \in Programs, name_len \in NameLens,
             version \in 1..MaxVersion :
             WhitelistAdapter(signer, program, name_len, version)
    BY <1>2
  <2>2. /\ DOMAIN adapter_entry' = DOMAIN adapter_entry \cup {program}
        /\ \A p \in DOMAIN adapter_entry : adapter_entry'[p] = adapter_entry[p]
    <3> DEFINE entry == [interface_version |-> version, is_active |-> TRUE]
    <3>1. /\ adapter_entry' = Create(adapter_entry, program, entry)
          /\ program \notin DOMAIN adapter_entry
      BY <2>1 DEF WhitelistAdapter
    <3> HIDE DEF entry
    <3>2. /\ DOMAIN Create(adapter_entry, program, entry)
               = DOMAIN adapter_entry \cup {program}
          /\ \A x \in DOMAIN adapter_entry :
                x # program => Create(adapter_entry, program, entry)[x] = adapter_entry[x]
      BY DEF Create
    <3>3. QED
      BY <3>1, <3>2
  <2>3. /\ adapter_count' = adapter_count + 1
        /\ UNCHANGED <<admin, interface_version>>
    BY <2>1 DEF WhitelistAdapter
  <2>4. QED
    BY <1>t, <2>2, <2>3 DEF HistoryStep, Routable
<1>3. CASE \E signer \in Keys, program \in Programs, paused \in BOOLEAN :
              PauseAdapter(signer, program, paused)
  <2>1. PICK signer \in Keys, program \in Programs, paused \in BOOLEAN :
             PauseAdapter(signer, program, paused)
    BY <1>3
  <2>2. /\ DOMAIN adapter_entry' = DOMAIN adapter_entry
        /\ \A p \in DOMAIN adapter_entry :
              adapter_entry'[p].interface_version = adapter_entry[p].interface_version
        /\ UNCHANGED <<admin, adapter_count, interface_version>>
    BY <2>1 DEF PauseAdapter, RegistryInv, RegistryTypeOK, AdapterEntry
  <2>3. QED
    BY <1>t, <2>2 DEF HistoryStep, Routable
<1>4. CASE UpgradeDispatcher
  BY <1>4, <1>t DEF UpgradeDispatcher, HistoryStep, Routable
<1>5. CASE UNCHANGED registryVars
  BY <1>5, <1>t DEF registryVars, HistoryStep, Routable
<1>6. QED
  BY <1>1, <1>2, <1>3, <1>4, <1>5 DEF RegistryNext

\* The admin is never replaced, no entry disappears or is re-stamped, and an
\* outgrown entry is never routed to again, in every behaviour.
THEOREM HistoryIsPreserved == RegistrySpec => HistoryPreserved
<1>1. RegistryInv /\ [RegistryNext]_registryVars => [HistoryStep]_registryVars
  BY HistoryStepHolds
<1>2. QED
  BY <1>1, RegistryInvariant, PTL DEF RegistrySpec, HistoryPreserved

-----------------------------------------------------------------------------
(* positions and routing *)

Inv == RegistryInv /\ TypeOK /\ PositionsAreListed

\* The start: nothing exists, the wallets are funded.
LEMMA InitInv == Init => Inv
<1>1. SUFFICES ASSUME Init PROVE Inv
  OBVIOUS
<1>2. RegistryInv
  BY <1>1, RegistryInitInv DEF Init
<1>3. /\ DOMAIN position = {}
      /\ position \in [DOMAIN position -> Mints]
      /\ venue \in [DOMAIN position -> Venues]
      /\ pool \in [DOMAIN position -> Nat]
      /\ total_shares \in [DOMAIN position -> Amount]
  BY <1>1 DEF Init, NoAccounts
<1>4. /\ wallet \in [Keys \X Mints -> Nat]
      /\ protocol \in [Venues -> Nat]
      /\ others \in [Mints -> Nat]
  <2>1. \A w \in Keys \X Mints : WalletFunds[w[2]] \in Nat
    BY DispatcherAssumption
  <2>2. QED
    BY <1>1, <2>1, DispatcherAssumption DEF Init
<1>5. QED
  BY <1>2, <1>3, <1>4 DEF Inv, RegistryInv, TypeOK, PositionsAreListed

\* A registry step touches no funds and removes no entry.
LEMMA RegistryStepInv ==
  ASSUME Inv, RegistryNext, UNCHANGED fundVars
  PROVE  Inv'
<1>1. RegistryInv' /\ HistoryStep
  BY RegistryNextInv, HistoryStepHolds DEF Inv
<1>2. DOMAIN adapter_entry \subseteq DOMAIN adapter_entry'
  BY <1>1 DEF HistoryStep
<1>3. QED
  BY <1>1, <1>2 DEF Inv, RegistryInv, TypeOK, PositionsAreListed, Misbound, fundVars

\* open_position creates the three accounts of one position, all empty.
LEMMA OpenPositionInv ==
  ASSUME Inv, NEW owner \in Keys, NEW program \in Programs, NEW mint \in Mints,
         NEW v \in Venues, OpenPosition(owner, program, mint, v)
  PROVE  Inv'
<1> DEFINE k == <<owner, program>>
<1>1. /\ position' = Create(position, k, mint)
      /\ venue' = Create(venue, k, v)
      /\ pool' = Create(pool, k, 0)
      /\ total_shares' = Create(total_shares, k, 0)
      /\ UNCHANGED <<registryVars, wallet, protocol, others>>
      /\ Routable(program)
  BY DEF OpenPosition
<1>2. k \in PositionKeys /\ k[2] = program
  BY DEF PositionKeys
<1> HIDE DEF k
<1>3. /\ position' \in [DOMAIN position \cup {k} -> Mints]
      /\ venue' \in [DOMAIN position \cup {k} -> Venues]
      /\ pool' \in [DOMAIN position \cup {k} -> Nat]
      /\ total_shares' \in [DOMAIN position \cup {k} -> Amount]
  BY <1>1, DispatcherAssumption DEF Inv, TypeOK, Create, Amount
<1>4. DOMAIN position' = DOMAIN position \cup {k}
  BY <1>3
<1>5. RegistryInv'
  BY <1>1 DEF Inv, RegistryInv, RegistryTypeOK, CountIsExact, registryVars
<1>6. TypeOK'
  BY <1>1, <1>2, <1>3, <1>4, <1>5 DEF Inv, RegistryInv, TypeOK
<1>7. PositionsAreListed'
  <2>1. SUFFICES ASSUME NEW q \in DOMAIN position'
                 PROVE  /\ q[2] \in DOMAIN adapter_entry'
                        /\ Misbound(q)' => total_shares'[q] = 0
    BY DEF PositionsAreListed
  <2>2. CASE q = k
    BY <1>1, <1>2, <2>2 DEF Create, Routable, registryVars
  <2>3. CASE q # k
    <3>1. q \in DOMAIN position
      BY <1>4, <2>3
    <3>2. /\ position'[q] = position[q]
          /\ venue'[q] = venue[q]
          /\ total_shares'[q] = total_shares[q]
      BY <1>1, <2>3, <3>1 DEF Create, Inv, TypeOK
    <3>3. QED
      BY <1>1, <3>1, <3>2 DEF Inv, PositionsAreListed, Misbound, registryVars
  <2>4. QED
    BY <2>2, <2>3
<1>8. QED
  BY <1>5, <1>6, <1>7 DEF Inv

\* What holds of the position an instruction moves funds of.
LEMMA MovableFacts ==
  ASSUME Inv, NEW owner \in Keys, NEW program \in Programs,
         Movable(owner, program)
  PROVE  LET k == <<owner, program>> IN
         /\ k \in DOMAIN position
         /\ ~Misbound(k)
         /\ position[k] \in Mints /\ venue[k] \in Venues
         /\ pool[k] \in Nat
         /\ total_shares[k] \in 0..MaxU64
         /\ <<owner, position[k]>> \in Keys \X Mints
         /\ wallet[<<owner, position[k]>>] \in Nat
         /\ protocol[venue[k]] \in Nat
<1> DEFINE k == <<owner, program>>
<1>1. k \in DOMAIN position /\ ~Misbound(k)
  BY DEF Movable
<1> HIDE DEF k
<1>2. position[k] \in Mints /\ venue[k] \in Venues
  BY <1>1 DEF Inv, TypeOK
<1>3. <<owner, position[k]>> \in Keys \X Mints
  BY <1>2
<1>4. QED
  BY <1>1, <1>2, <1>3 DEF k, Inv, TypeOK, Amount

\* The registry half of the invariant does not depend on funds.
LEMMA RegistryUntouched ==
  ASSUME Inv, UNCHANGED registryVars
  PROVE  RegistryInv' /\ RegistryTypeOK'
  BY DEF Inv, RegistryInv, RegistryTypeOK, CountIsExact, registryVars

\* A deposit moves the owner's amount and books the minted shares.
LEMMA DepositInv ==
  ASSUME Inv, NEW owner \in Keys, NEW program \in Programs, NEW amount \in Amount,
         Deposit(owner, program, amount)
  PROVE  Inv'
<1> DEFINE k == <<owner, program>>
<1>1. PICK consumed \in 0..amount, minted \in 0..(MaxU64 - total_shares[k]) :
         DepositEffect(owner, program, amount, consumed, minted)
  BY DEF Deposit
<1> DEFINE w == <<owner, position[k]>>
<1>2. Movable(owner, program) /\ wallet[w] >= amount
  BY DEF Deposit
<1>3. /\ wallet' = [wallet EXCEPT ![w] = @ - amount]
      /\ pool' = [pool EXCEPT ![k] = @ + amount - consumed]
      /\ protocol' = [protocol EXCEPT ![venue[k]] = @ + consumed]
      /\ total_shares' = [total_shares EXCEPT ![k] = @ + minted]
      /\ UNCHANGED <<registryVars, position, venue, others>>
  BY <1>1 DEF DepositEffect
<1>4. /\ k \in DOMAIN position /\ ~Misbound(k)
      /\ pool[k] \in Nat /\ total_shares[k] \in 0..MaxU64
      /\ w \in Keys \X Mints /\ wallet[w] \in Nat
      /\ venue[k] \in Venues /\ protocol[venue[k]] \in Nat
  BY <1>2, MovableFacts
<1> HIDE DEF k, w
<1>5. /\ pool[k] + amount - consumed \in Nat
      /\ total_shares[k] + minted \in Amount
      /\ wallet[w] - amount \in Nat
      /\ protocol[venue[k]] + consumed \in Nat
  BY <1>1, <1>2, <1>4, DispatcherAssumption DEF Amount
<1>6. /\ pool' \in [DOMAIN position -> Nat]
      /\ total_shares' \in [DOMAIN position -> Amount]
      /\ wallet' \in [Keys \X Mints -> Nat]
      /\ protocol' \in [Venues -> Nat]
  BY <1>3, <1>4, <1>5 DEF Inv, TypeOK
<1>7. RegistryInv' /\ RegistryTypeOK'
  BY <1>3, RegistryUntouched
<1>8. TypeOK'
  BY <1>3, <1>6, <1>7 DEF Inv, TypeOK
<1>9. PositionsAreListed'
  BY <1>3, <1>4 DEF Inv, TypeOK, PositionsAreListed, Misbound, registryVars
<1>10. QED
  BY <1>7, <1>8, <1>9 DEF Inv

\* A withdrawal takes at most what is booked off the books, and leaves the pool
\* as it found it.
LEMMA WithdrawInv ==
  ASSUME Inv, NEW owner \in Keys, NEW program \in Programs, NEW shares \in Amount,
         Withdraw(owner, program, shares)
  PROVE  Inv'
<1> DEFINE k == <<owner, program>>
           burned == Burned(shares, total_shares[k])
<1>1. PICK redeemed \in 0..protocol[venue[k]] :
         WithdrawEffect(owner, program, burned, redeemed, redeemed)
  BY DEF Withdraw
<1> DEFINE w == <<owner, position[k]>>
<1>2. Movable(owner, program)
  BY DEF Withdraw
<1>3. /\ total_shares' = [total_shares EXCEPT ![k] = @ - burned]
      /\ protocol' = [protocol EXCEPT ![venue[k]] = @ - redeemed]
      /\ pool' = [pool EXCEPT ![k] = @ + redeemed - redeemed]
      /\ wallet' = [wallet EXCEPT ![w] = @ + redeemed]
      /\ UNCHANGED <<registryVars, position, venue, others>>
  BY <1>1 DEF WithdrawEffect
<1>4. /\ k \in DOMAIN position /\ ~Misbound(k)
      /\ pool[k] \in Nat /\ total_shares[k] \in 0..MaxU64
      /\ w \in Keys \X Mints /\ wallet[w] \in Nat
      /\ venue[k] \in Venues /\ protocol[venue[k]] \in Nat
  BY <1>2, MovableFacts
<1> HIDE DEF k, w
<1>5. burned \in 0..total_shares[k]
  BY <1>4, DispatcherAssumption DEF Burned, Amount
<1> HIDE DEF burned
<1>6. /\ pool[k] + redeemed - redeemed \in Nat
      /\ total_shares[k] - burned \in Amount
      /\ wallet[w] + redeemed \in Nat
      /\ protocol[venue[k]] - redeemed \in Nat
  BY <1>4, <1>5, DispatcherAssumption DEF Amount
<1>7. /\ pool' \in [DOMAIN position -> Nat]
      /\ total_shares' \in [DOMAIN position -> Amount]
      /\ wallet' \in [Keys \X Mints -> Nat]
      /\ protocol' \in [Venues -> Nat]
  BY <1>3, <1>4, <1>6 DEF Inv, TypeOK
<1>8. RegistryInv' /\ RegistryTypeOK'
  BY <1>3, RegistryUntouched
<1>9. TypeOK'
  BY <1>3, <1>7, <1>8 DEF Inv, TypeOK
<1>10. PositionsAreListed'
  BY <1>3, <1>4 DEF Inv, TypeOK, PositionsAreListed, Misbound, registryVars
<1>11. QED
  BY <1>8, <1>9, <1>10 DEF Inv

\* Donations only add to a pool.
LEMMA DonateToPoolInv ==
  ASSUME Inv, NEW k, NEW amount \in Amount, DonateToPool(k, amount)
  PROVE  Inv'
<1>1. /\ k \in DOMAIN position /\ amount <= others[position[k]]
      /\ pool' = [pool EXCEPT ![k] = @ + amount]
      /\ others' = [others EXCEPT ![position[k]] = @ - amount]
      /\ UNCHANGED <<registryVars, position, venue, total_shares, wallet, protocol>>
  BY DEF DonateToPool
<1>2. amount \in Nat /\ position[k] \in Mints
  BY <1>1 DEF Inv, TypeOK, Amount
<1>3. /\ pool' \in [DOMAIN position -> Nat]
      /\ others' \in [Mints -> Nat]
  BY <1>1, <1>2 DEF Inv, TypeOK
<1>4. RegistryInv' /\ RegistryTypeOK'
  BY <1>1, RegistryUntouched
<1>5. PositionsAreListed'
  BY <1>1 DEF Inv, TypeOK, PositionsAreListed, Misbound, registryVars
<1>6. QED
  BY <1>1, <1>3, <1>4, <1>5 DEF Inv, TypeOK

\* The protocol's other users move no funds of a position.
LEMMA ProtocolFlowInv ==
  ASSUME Inv, NEW v \in Venues, VenueMint[v] \in Mints, NEW amount \in Nat,
         ProtocolInflow(v, amount) \/ ProtocolOutflow(v, amount)
  PROVE  Inv'
<1>1. /\ UNCHANGED <<registryVars, position, venue, pool, total_shares, wallet>>
      /\ protocol' \in [Venues -> Nat]
      /\ others' \in [Mints -> Nat]
  BY DEF ProtocolInflow, ProtocolOutflow, Inv, TypeOK
<1>2. RegistryInv' /\ RegistryTypeOK'
  BY <1>1, RegistryUntouched
<1>3. QED
  BY <1>1, <1>2 DEF Inv, TypeOK, PositionsAreListed, Misbound, registryVars

\* Every step keeps the invariant.
LEMMA NextInv == Inv /\ [Next]_vars => Inv'
<1> SUFFICES ASSUME Inv, [Next]_vars PROVE Inv'
  OBVIOUS
<1>1. CASE RegistryNext /\ UNCHANGED fundVars
  BY <1>1, RegistryStepInv
<1>2. CASE \E owner \in Keys, program \in Programs, mint \in Mints, v \in Venues :
              OpenPosition(owner, program, mint, v)
  BY <1>2, OpenPositionInv
<1>3. CASE \E owner \in Keys, program \in Programs, amount \in Amount :
              Deposit(owner, program, amount)
  BY <1>3, DepositInv
<1>4. CASE \E owner \in Keys, program \in Programs, shares \in Amount :
              Withdraw(owner, program, shares)
  BY <1>4, WithdrawInv
<1>5. CASE \E k \in PositionKeys, amount \in Amount : DonateToPool(k, amount)
  BY <1>5, DonateToPoolInv
<1>6. CASE \E v \in {u \in Venues : VenueMint[u] \in Mints} :
              \/ \E amount \in 0..others[VenueMint[v]] : ProtocolInflow(v, amount)
              \/ \E amount \in 0..protocol[v] : ProtocolOutflow(v, amount)
  BY <1>6, ProtocolFlowInv DEF Inv, TypeOK
<1>7. CASE UNCHANGED vars
  BY <1>7 DEF vars, registryVars, fundVars, Inv, RegistryInv, RegistryTypeOK,
              CountIsExact, TypeOK, PositionsAreListed, Misbound
<1>8. QED
  BY <1>1, <1>2, <1>3, <1>4, <1>5, <1>6, <1>7 DEF Next

\* The dispatcher's invariant holds in every reachable state.
THEOREM Invariant == Spec => []Inv
  BY InitInv, NextInv, PTL DEF Spec

\* Accounts keep their types: no balance goes negative and no share count
\* leaves u64, for any amounts, owners and adapters.
THEOREM TypeCorrect == Spec => []TypeOK
<1>1. Inv => TypeOK
  BY DEF Inv
<1>2. QED
  BY <1>1, Invariant, PTL

\* Every position is traced to a whitelist entry, and one whose venue does not
\* take its mint has nothing booked, ever.
THEOREM PositionsAlwaysListed == Spec => []PositionsAreListed
<1>1. Inv => PositionsAreListed
  BY DEF Inv
<1>2. QED
  BY <1>1, Invariant, PTL

\* Routing is no way around governance: open_position, deposit, withdraw and
\* whatever happens behind the adapters write no registry account, so the whole
\* system's registry behaves as the three registry instructions alone let it, and
\* what is proved of RegistrySpec is true of it.
THEOREM DispatcherImplementsRegistry == Spec => RegistrySpec
<1>1. Init => RegistryInit
  BY DEF Init
<1>2. [Next]_vars => [RegistryNext]_registryVars
  <2> SUFFICES ASSUME [Next]_vars PROVE RegistryNext \/ UNCHANGED registryVars
    OBVIOUS
  <2>1. CASE \E owner \in Keys, program \in Programs, mint \in Mints, v \in Venues :
                OpenPosition(owner, program, mint, v)
    BY <2>1 DEF OpenPosition, registryVars
  <2>2. CASE \E owner \in Keys, program \in Programs, amount \in Amount :
                Deposit(owner, program, amount)
    BY <2>2 DEF Deposit, DepositEffect, registryVars
  <2>3. CASE \E owner \in Keys, program \in Programs, shares \in Amount :
                Withdraw(owner, program, shares)
    BY <2>3 DEF Withdraw, WithdrawEffect, registryVars
  <2>4. CASE \E k \in PositionKeys, amount \in Amount : DonateToPool(k, amount)
    BY <2>4 DEF DonateToPool, registryVars
  <2>5. CASE \E v \in {u \in Venues : VenueMint[u] \in Mints} :
                \/ \E amount \in 0..others[VenueMint[v]] : ProtocolInflow(v, amount)
                \/ \E amount \in 0..protocol[v] : ProtocolOutflow(v, amount)
    BY <2>5 DEF ProtocolInflow, ProtocolOutflow, registryVars
  <2>6. CASE UNCHANGED vars
    BY <2>6 DEF vars, registryVars
  <2>7. QED
    BY <2>1, <2>2, <2>3, <2>4, <2>5, <2>6 DEF Next
<1>3. QED
  BY <1>1, <1>2, PTL DEF Spec, RegistrySpec

-----------------------------------------------------------------------------
(* Action properties *)

\* Positions and their venues are never closed or rewritten.
Permanent ==
  \A q \in DOMAIN position :
     q \in DOMAIN position' /\ position'[q] = position[q] /\ venue'[q] = venue[q]

\* What each step does to the booked shares and the funds, in one place: the
\* accounts of one position k at most change, its pool never shrinks, and the
\* shares only while it can be moved, with no wallet but its owner's and no
\* venue but its own.
Touches(k) ==
  /\ k \in DOMAIN position
  /\ DOMAIN total_shares' = DOMAIN total_shares
  /\ DOMAIN pool' = DOMAIN pool
  /\ pool'[k] >= pool[k]
  /\ \A q \in DOMAIN total_shares \ {k} :
        total_shares'[q] = total_shares[q] /\ pool'[q] = pool[q]
  /\ \A w \in (Keys \X Mints) \ {<<k[1], position[k]>>} : wallet'[w] = wallet[w]
  /\ \A v \in Venues \ {venue[k]} : protocol'[v] = protocol[v]
  /\ total_shares'[k] # total_shares[k] =>
        Routable(k[2]) /\ ~Misbound(k) /\ others' = others
  /\ UNCHANGED <<registryVars, position, venue>>

\* No position's shares, pool or wallet is touched.
TouchesNone ==
  /\ \A q \in DOMAIN total_shares :
        /\ q \in DOMAIN total_shares'
        /\ total_shares'[q] = total_shares[q]
  /\ \A q \in DOMAIN pool : q \in DOMAIN pool' /\ pool'[q] = pool[q]

\* A deposit touches the depositor's position only.
LEMMA DepositTouches ==
  ASSUME Inv, NEW owner \in Keys, NEW program \in Programs, NEW amount \in Amount,
         Deposit(owner, program, amount)
  PROVE  Touches(<<owner, program>>)
<1> DEFINE k == <<owner, program>>
<1>1. PICK consumed \in 0..amount, minted \in 0..(MaxU64 - total_shares[k]) :
         DepositEffect(owner, program, amount, consumed, minted)
  BY DEF Deposit
<1>2. /\ wallet' = [wallet EXCEPT ![<<owner, position[k]>>] = @ - amount]
      /\ pool' = [pool EXCEPT ![k] = @ + amount - consumed]
      /\ protocol' = [protocol EXCEPT ![venue[k]] = @ + consumed]
      /\ total_shares' = [total_shares EXCEPT ![k] = @ + minted]
      /\ UNCHANGED <<registryVars, position, venue, others>>
  BY <1>1 DEF DepositEffect
<1>3. Movable(owner, program) /\ Routable(program)
  BY DEF Deposit, Movable
<1>4. /\ k \in DOMAIN position /\ pool[k] \in Nat /\ ~Misbound(k)
      /\ k[1] = owner /\ k[2] = program
  BY <1>3, MovableFacts
<1> HIDE DEF k
<1>5. pool'[k] >= pool[k]
  BY <1>1, <1>2, <1>4, DispatcherAssumption DEF Inv, TypeOK, Amount
<1>6. Touches(k)
  BY <1>2, <1>3, <1>4, <1>5 DEF Touches, Inv, TypeOK
<1>7. QED
  BY <1>6 DEF k

\* A withdrawal touches the withdrawer's position only, and not its pool.
LEMMA WithdrawTouches ==
  ASSUME Inv, NEW owner \in Keys, NEW program \in Programs, NEW shares \in Amount,
         Withdraw(owner, program, shares)
  PROVE  Touches(<<owner, program>>)
<1> DEFINE k == <<owner, program>>
           burned == Burned(shares, total_shares[k])
<1>1. PICK redeemed \in 0..protocol[venue[k]] :
         WithdrawEffect(owner, program, burned, redeemed, redeemed)
  BY DEF Withdraw
<1>2. Movable(owner, program) /\ Routable(program)
  BY DEF Withdraw, Movable
<1>3. /\ k \in DOMAIN position /\ pool[k] \in Nat /\ protocol[venue[k]] \in Nat
      /\ ~Misbound(k) /\ k[1] = owner /\ k[2] = program
  BY <1>2, MovableFacts
<1>4. /\ total_shares' = [total_shares EXCEPT ![k] = @ - burned]
      /\ pool' = [pool EXCEPT ![k] = @ + redeemed - redeemed]
      /\ protocol' = [protocol EXCEPT ![venue[k]] = @ - redeemed]
      /\ wallet' = [wallet EXCEPT ![<<owner, position[k]>>] = @ + redeemed]
      /\ UNCHANGED <<registryVars, position, venue, others>>
  BY <1>1 DEF WithdrawEffect
<1> HIDE DEF k, burned
<1>5. pool'[k] >= pool[k]
  BY <1>3, <1>4 DEF Inv, TypeOK
<1>6. Touches(k)
  BY <1>2, <1>3, <1>4, <1>5 DEF Touches, Inv, TypeOK
<1>7. QED
  BY <1>6 DEF k

\* A donation touches the pool it goes to.
LEMMA DonateTouches ==
  ASSUME Inv, NEW k, NEW amount \in Amount, DonateToPool(k, amount)
  PROVE  Touches(k)
<1>1. /\ k \in DOMAIN position
      /\ pool' = [pool EXCEPT ![k] = @ + amount]
      /\ UNCHANGED <<registryVars, position, venue, total_shares, wallet, protocol>>
  BY DEF DonateToPool
<1>2. amount \in Nat
  BY DEF Amount
<1>3. pool'[k] >= pool[k]
  BY <1>1, <1>2 DEF Inv, TypeOK
<1>4. QED
  BY <1>1, <1>3 DEF Touches, Inv, TypeOK

\* The step lemma of the three theorems below: whatever happens, at most one
\* position that exists is touched.
LEMMA StepTouches ==
  ASSUME Inv, [Next]_vars
  PROVE  /\ HistoryStep /\ Permanent
         /\ TouchesNone \/ \E k \in DOMAIN position : Touches(k)
<1>h. UNCHANGED registryVars => HistoryStep
  BY HistoryStepHolds DEF Inv
<1>p. UNCHANGED <<position, venue>> => Permanent
  BY DEF Permanent
<1>1. CASE RegistryNext /\ UNCHANGED fundVars
  BY <1>1, <1>p, HistoryStepHolds DEF Inv, TouchesNone, fundVars
<1>2. CASE \E owner \in Keys, program \in Programs, mint \in Mints, v \in Venues :
              OpenPosition(owner, program, mint, v)
  <2>1. PICK owner \in Keys, program \in Programs, mint \in Mints, v \in Venues :
               OpenPosition(owner, program, mint, v)
    BY <1>2
  <2>2. /\ UNCHANGED registryVars
        /\ <<owner, program>> \notin DOMAIN position
        /\ position' = Create(position, <<owner, program>>, mint)
        /\ venue' = Create(venue, <<owner, program>>, v)
        /\ pool' = Create(pool, <<owner, program>>, 0)
        /\ total_shares' = Create(total_shares, <<owner, program>>, 0)
    BY <2>1 DEF OpenPosition
  <2>3. TouchesNone
    BY <2>2 DEF Create, TouchesNone, Inv, TypeOK
  <2>4. Permanent
    BY <2>2 DEF Create, Permanent, Inv, TypeOK
  <2>5. QED
    BY <1>h, <2>2, <2>3, <2>4
<1>3. CASE \E owner \in Keys, program \in Programs, amount \in Amount :
              Deposit(owner, program, amount)
  BY <1>3, <1>h, <1>p, DepositTouches DEF Touches
<1>4. CASE \E owner \in Keys, program \in Programs, shares \in Amount :
              Withdraw(owner, program, shares)
  BY <1>4, <1>h, <1>p, WithdrawTouches DEF Touches
<1>5. CASE \E k \in PositionKeys, amount \in Amount : DonateToPool(k, amount)
  BY <1>5, <1>h, <1>p, DonateTouches DEF Touches
<1>6. CASE \E v \in {u \in Venues : VenueMint[u] \in Mints} :
              \/ \E amount \in 0..others[VenueMint[v]] : ProtocolInflow(v, amount)
              \/ \E amount \in 0..protocol[v] : ProtocolOutflow(v, amount)
  BY <1>6, <1>h, <1>p DEF ProtocolInflow, ProtocolOutflow, TouchesNone
<1>7. CASE UNCHANGED vars
  BY <1>7, <1>h, <1>p DEF vars, fundVars, TouchesNone
<1>8. QED
  BY <1>1, <1>2, <1>3, <1>4, <1>5, <1>6, <1>7 DEF Next

\* No instruction ever lowers a pool: residue and donations stay there.
THEOREM PoolsNeverDrain == Spec => PoolNeverDrains
<1>1. Inv /\ [Next]_vars =>
        [\A k \in DOMAIN pool : k \in DOMAIN pool' /\ pool'[k] >= pool[k]]_vars
  <2> SUFFICES ASSUME Inv, [Next]_vars
               PROVE  \A k \in DOMAIN pool : k \in DOMAIN pool' /\ pool'[k] >= pool[k]
    OBVIOUS
  <2>1. CASE TouchesNone
    BY <2>1 DEF TouchesNone, Inv, TypeOK
  <2>2. CASE \E k \in DOMAIN position : Touches(k)
    BY <2>2 DEF Touches, Inv, TypeOK
  <2>3. QED
    BY <2>1, <2>2, StepTouches
<1>2. QED
  BY <1>1, Invariant, PTL DEF Spec, PoolNeverDrains

\* Positions never interfere, across owners and across adapters.
THEOREM PositionsStayIsolated == Spec => PositionsIsolated
<1>1. Inv /\ [Next]_vars => [IsolatedStep]_vars
  <2> SUFFICES ASSUME Inv, [Next]_vars PROVE IsolatedStep
    OBVIOUS
  <2>1. CASE TouchesNone
    BY <2>1 DEF TouchesNone, IsolatedStep
  <2>2. CASE \E k \in DOMAIN position : Touches(k)
    BY <2>2 DEF Touches, IsolatedStep
  <2>3. QED
    BY <2>1, <2>2, StepTouches
<1>2. QED
  BY <1>1, Invariant, PTL DEF Spec, PositionsIsolated

\* An entry the interface version has outgrown stays outgrown.
LEMMA OutgrownStays ==
  ASSUME Inv, [Next]_vars, NEW p \in Programs, Outgrown(p)
  PROVE  Outgrown(p)' /\ ~Routable(p)
<1>1. /\ interface_version' >= interface_version
      /\ p \in DOMAIN adapter_entry'
      /\ adapter_entry'[p].interface_version = adapter_entry[p].interface_version
  BY StepTouches DEF HistoryStep, Outgrown
<1>2. /\ interface_version \in Int /\ interface_version' \in Int
      /\ adapter_entry[p].interface_version \in Int
      /\ adapter_entry[p].interface_version < interface_version
  BY NextInv DEF Outgrown, Inv, TypeOK, RegistryTypeOK, AdapterEntry
<1>3. QED
  BY <1>1, <1>2 DEF Outgrown, Routable

\* Positions of an outgrown adapter, and those whose venue does not take their
\* mint, are frozen for good.
THEOREM FrozenForEver == Spec => FrozenStaysFrozen
<1>1. Inv /\ [Next]_vars => [FrozenStep]_vars
  <2> SUFFICES ASSUME Inv, [Next]_vars, NEW k \in DOMAIN position
               PROVE  /\ Outgrown(k[2]) => Outgrown(k[2])'
                      /\ Misbound(k) => Misbound(k)'
                      /\ Outgrown(k[2]) \/ Misbound(k)
                            => total_shares'[k] = total_shares[k]
    BY DEF FrozenStep
  <2>1. k[2] \in Programs
    BY DEF Inv, TypeOK, PositionKeys
  <2>2. Outgrown(k[2]) => Outgrown(k[2])' /\ ~Routable(k[2])
    BY <2>1, OutgrownStays
  <2>3. Misbound(k) => Misbound(k)'
    BY StepTouches DEF Permanent, Misbound
  <2>4. ~Routable(k[2]) \/ Misbound(k) => total_shares'[k] = total_shares[k]
    BY StepTouches DEF Touches, TouchesNone, Inv, TypeOK
  <2>5. QED
    BY <2>2, <2>3, <2>4
<1>2. QED
  BY <1>1, Invariant, PTL DEF Spec, FrozenStaysFrozen
=============================================================================
