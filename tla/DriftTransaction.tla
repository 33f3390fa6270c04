-------------------------- MODULE DriftTransaction --------------------------
(***************************************************************************)
(* deposit and withdraw of a drift-if position as the sequences of steps   *)
(* they are: the dispatcher's transfer, the adapter's checks and readings, *)
(* its CPIs to Drift, the entry in the books, the forwarding of the        *)
(* amount_out.  Any step may fail.  DriftIf has one action for each of     *)
(* the two; this module implements it.                                     *)
(*                                                                         *)
(* The runtime is external: a transaction works on a draft of the accounts *)
(* it locks, which is kept when the last step succeeds and dropped when    *)
(* any step fails.  Every other transaction of DriftIf touches some of     *)
(* these accounts or commutes with the steps, so it comes before or after. *)
(***************************************************************************)
EXTENDS DriftIf

VARIABLES
  withdraw_request,  \* owner -> last_withdraw_request_shares of her stake
  pc,                \* the step the transaction is at, "idle" between two
  signer, argument,  \* its owner; its amount or shares
  draft,             \* the accounts it locks, as it has changed them
  before,            \* the balance read before the CPI
  amount_out         \* what adapter_withdraw returns

transaction == <<pc, signer, argument, draft, before, amount_out>>
xvars == <<dvars, withdraw_request, transaction>>

Key == <<signer, Drift>>
Purse == <<signer, position[Key]>>

\* The accounts of an owner's position and of the fund.
Accounts(owner) ==
  LET k == <<owner, Drift>> IN
  [wallet |-> wallet[<<owner, position[k]>>], pool |-> pool[k],
   booked |-> total_shares[k], stake |-> if_shares[k],
   request |-> withdraw_request[owner],
   vault |-> FundVault, fund |-> fund_shares, others |-> other_shares]

XInit ==
  /\ DInit
  /\ withdraw_request = [owner \in Keys |-> 0]
  /\ pc = "idle"
  /\ signer = NoKey
  /\ argument = 0
  /\ draft = <<>>
  /\ before = 0
  /\ amount_out = 0

\* deposit or withdraw is sent, and passes the dispatcher's and the adapter's
\* account constraints.
Begin(owner, n, first) ==
  /\ pc = "idle"
  /\ n > 0
  /\ Movable(owner, Drift)
  /\ pc' = first
  /\ signer' = owner
  /\ argument' = n
  /\ draft' = Accounts(owner)
  /\ UNCHANGED <<dvars, withdraw_request, before, amount_out>>

\* Nothing of a transaction outlives it but what it committed.
Over ==
  /\ pc' = "idle"
  /\ signer' = NoKey
  /\ argument' = 0
  /\ draft' = <<>>
  /\ before' = 0
  /\ amount_out' = 0

At(step) == pc = step /\ UNCHANGED <<dvars, withdraw_request, signer, argument>>

\* Any step may fail (on its guard, or because a program called says so): the
\* whole transaction is undone.
Fails ==
  /\ pc # "idle"
  /\ Over
  /\ UNCHANGED <<dvars, withdraw_request>>

-----------------------------------------------------------------------------
(* deposit, adapter_deposit *)

TransferIn ==
  /\ At("TransferIn")
  /\ draft.wallet >= argument
  /\ draft' = [draft EXCEPT !.wallet = @ - argument, !.pool = @ + argument]
  /\ pc' = "ReadStake"
  /\ UNCHANGED <<before, amount_out>>

ReadStake ==
  /\ At("ReadStake")
  /\ before' = draft.stake
  /\ pc' = "AddStake"
  /\ UNCHANGED <<draft, amount_out>>

AddStake ==
  /\ At("AddStake")
  /\ TakesStakes
  /\ argument <= draft.pool
  /\ draft' = [draft EXCEPT !.pool = @ - argument, !.vault = @ + argument,
                            !.stake = @ + StakeFor(argument),
                            !.others = @ + SharesOut - fund_shares,
                            !.fund = SharesOut + StakeFor(argument)]
  /\ pc' = "BookDeposit"
  /\ UNCHANGED <<before, amount_out>>

BookDeposit ==
  LET minted == Minted(before, draft.stake, argument) IN
  /\ At("BookDeposit")
  /\ draft.booked + minted <= MaxU64
  /\ draft' = [draft EXCEPT !.booked = @ + minted]
  /\ pc' = "Commit"
  /\ UNCHANGED <<before, amount_out>>

-----------------------------------------------------------------------------
(* withdraw, adapter_withdraw *)

ReadPool ==
  /\ At("ReadPool")
  /\ argument <= draft.booked
  /\ before' = draft.pool
  /\ pc' = "RequestRemove"
  /\ UNCHANGED <<draft, amount_out>>

RequestRemove ==
  /\ At("RequestRemove")
  /\ argument <= draft.stake
  /\ draft' = [draft EXCEPT !.request = argument]
  /\ pc' = "RemoveStake"
  /\ UNCHANGED <<before, amount_out>>

\* Mutant: the result of remove_stake is dropped instead of returned with `?`.
RemoveStakeIgnored ==
  LET paid == IF CooldownOver(now) THEN Worth(draft.request) ELSE 0
      gone == IF CooldownOver(now) THEN draft.request ELSE 0
  IN
  /\ At("RemoveStake")
  /\ draft' = [draft EXCEPT !.pool = @ + paid, !.vault = @ - paid,
                            !.stake = @ - gone, !.fund = @ - gone,
                            !.request = @ - gone]
  /\ pc' = "BookWithdraw"
  /\ UNCHANGED <<before, amount_out>>

RemoveStake ==
  /\ At("RemoveStake")
  /\ CooldownOver(now)
  /\ CanPay(draft.request)
  /\ draft' = [draft EXCEPT !.pool = @ + Worth(draft.request),
                            !.vault = @ - Worth(draft.request),
                            !.stake = @ - draft.request,
                            !.fund = @ - draft.request,
                            !.request = 0]
  /\ pc' = "BookWithdraw"
  /\ UNCHANGED <<before, amount_out>>

\* Mutant: the pool is not reloaded after the CPIs.
BookWithdrawStale ==
  /\ At("BookWithdraw")
  /\ amount_out' = before - before
  /\ draft' = [draft EXCEPT !.booked = @ - argument]
  /\ pc' = "Forward"
  /\ UNCHANGED before

BookWithdraw ==
  /\ At("BookWithdraw")
  /\ amount_out' = AmountOut(before, draft.pool)
  /\ draft' = [draft EXCEPT !.booked = @ - argument]
  /\ pc' = "Forward"
  /\ UNCHANGED before

\* The dispatcher's transfer of what the adapter reported.
Forward ==
  /\ At("Forward")
  /\ amount_out <= draft.pool
  /\ draft' = [draft EXCEPT !.pool = @ - amount_out, !.wallet = @ + amount_out]
  /\ pc' = "Commit"
  /\ UNCHANGED <<before, amount_out>>

-----------------------------------------------------------------------------
\* The last step has succeeded: the draft becomes the state of the accounts.
Commit ==
  /\ pc = "Commit"
  /\ Over
  /\ wallet' = [wallet EXCEPT ![Purse] = draft.wallet]
  /\ pool' = [pool EXCEPT ![Key] = draft.pool]
  /\ total_shares' = [total_shares EXCEPT ![Key] = draft.booked]
  /\ protocol' = [protocol EXCEPT ![SpotMarket] = draft.vault]
  /\ if_shares' = [if_shares EXCEPT ![Key] = draft.stake]
  /\ withdraw_request' = [withdraw_request EXCEPT ![signer] = draft.request]
  /\ fund_shares' = draft.fund
  /\ other_shares' = draft.others
  /\ UNCHANGED <<registryVars, position, venue, others, unstaking_period, now>>

\* Every transaction that is not a deposit or a withdrawal.
Otherwise ==
  /\ pc = "idle"
  /\ \/ RegistryNext /\ UNCHANGED <<fundVars, driftVars>>
     \/ \E owner \in Keys, mint \in Mints : DOpenPosition(owner, mint)
     \/ DOthersStep
     \/ \E k \in DOMAIN position, amount \in Amount :
           DonateToPool(k, amount) /\ UNCHANGED driftVars
     \/ TimePasses
     \/ PeriodChanges
  /\ UNCHANGED <<withdraw_request, transaction>>

Proceed ==
  \/ TransferIn \/ ReadStake \/ AddStake \/ BookDeposit
  \/ ReadPool \/ RequestRemove \/ RemoveStake \/ BookWithdraw \/ Forward
  \/ Commit
  \/ Fails

XNext ==
  \/ \E owner \in Keys, n \in Amount, first \in {"TransferIn", "ReadPool"} :
        Begin(owner, n, first)
  \/ Proceed
  \/ Otherwise

XSpec == XInit /\ [][XNext]_xvars

-----------------------------------------------------------------------------
\* A request to remove stake is never left behind: it is completed in the
\* transaction that made it or undone with it.  So with a cooldown, none ever
\* begins to run: trying again does not bring a withdrawal nearer.
NoRequestLingers == \A owner \in Keys : withdraw_request[owner] = 0
=============================================================================
