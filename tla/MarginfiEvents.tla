--------------------------- MODULE MarginfiEvents ---------------------------
(***************************************************************************)
(* What a reader outside the chain learns of the marginfi-usdc adapter:    *)
(* the dispatcher's Deposited, Withdrawn and ValueRead events              *)
(* (programs/dispatcher/src/events.rs), on top of MarginfiUsdc.            *)
(***************************************************************************)
EXTENDS MarginfiUsdc

CONSTANTS
  MAX_VALUE_STALENESS_SLOTS,  \* adapter-interface: 60
  LedgerBound                 \* bound on how far a ledger falls below zero

VARIABLES
  ledger,     \* <<owner, Marginfi>> -> shares_minted less shares_burned, reported
  value_read  \* the last ValueRead: its value, and how many slots before it the
              \* bank state it is derived from was computed

eventVars == <<ledger, value_read>>
evars == <<mvars, eventVars>>

-----------------------------------------------------------------------------
EInit ==
  /\ MInit
  /\ ledger = NoAccounts
  /\ value_read = [value_usdc |-> 0, age |-> 0]

EOpenPosition(owner, mint, chosen) ==
  /\ MOpenPosition(owner, mint, chosen)
  /\ ledger' = Create(ledger, <<owner, Marginfi>>, 0)
  /\ UNCHANGED value_read

\* emit!(Deposited): the shares the adapter returned, the amount.
EDeposit(owner, b, amount) ==
  /\ MDeposit(owner, b, amount)
  /\ ledger' = [ledger EXCEPT ![<<owner, Marginfi>>] = @ + amount]
  /\ UNCHANGED value_read

\* emit!(Withdrawn): the shares requested, not the ones taken off the books.
EWithdraw(owner, b, shares) ==
  /\ MWithdrawPart(owner, b, shares) \/ MWithdrawAll(owner, b, shares)
  /\ ledger' = [ledger EXCEPT ![<<owner, Marginfi>>] = @ - shares]
  /\ ledger'[<<owner, Marginfi>>] >= -LedgerBound
  /\ UNCHANGED value_read

\* emit!(ValueRead): neither the adapter nor the dispatcher compares the slot of
\* the bank's share value with the current one.
ECurrentValue(owner, b) ==
  LET k == <<owner, Marginfi>> IN
  /\ Routable(Marginfi)
  /\ k \in DOMAIN position
  /\ venue[k] = b
  /\ AssetValue(k) <= MaxU64
  /\ value_read' = [value_usdc |-> AssetValue(k), age |-> slot - bank[b].last_update]
  /\ UNCHANGED <<mvars, ledger>>

EOwnerStep(b) ==
  \E owner \in Keys :
     \/ \E amount \in Amount : EDeposit(owner, b, amount) \/ EWithdraw(owner, b, amount)
     \/ ECurrentValue(owner, b)

ENext ==
  \/ RegistryNext /\ UNCHANGED <<fundVars, marginfiVars, eventVars>>
  \/ \E owner \in Keys, mint \in Mints, chosen \in Venues :
        EOpenPosition(owner, mint, chosen)
  \/ \E b \in Banks : EOwnerStep(b) \/ (MOthersStep(b) /\ UNCHANGED eventVars)
  \/ NextSlot /\ UNCHANGED eventVars

ESpec == EInit /\ [][ENext]_evars

-----------------------------------------------------------------------------
\* A withdrawal of more shares than are tracked is InsufficientShares (the
\* canonical error 6002, "withdraw exceeds the adapter's tracked share balance",
\* the same for every adapter), so the events of a position never report more
\* shares burned than minted.
LedgerNeverOverdrawn == \A k \in DOMAIN ledger : ledger[k] >= 0

\* A value derived from protocol state older than MAX_VALUE_STALENESS_SLOTS is
\* stale (interface crate), and "staler than allowed" is an error of the
\* dispatcher: no value older than that is ever reported (zero, the value of an
\* empty position, aside: it does not age).
ValueReadsAreFresh ==
  value_read.value_usdc > 0 => value_read.age <= MAX_VALUE_STALENESS_SLOTS
=============================================================================
