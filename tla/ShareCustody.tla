---------------------------- MODULE ShareCustody ----------------------------
(***************************************************************************)
(* What an adapter promises that books the units of its protocol it holds  *)
(* for a position: cTokens in a vault (kamino-usdc), LP tokens             *)
(* (jupiter-lp) or syrupUSDC (maple-syrup) in a token account, shares of a *)
(* stake (drift-if).  Books and holdings are two numbers in two accounts   *)
(* of two programs, and all the adapter does to keep them together is to   *)
(* book the change a call made and to refuse what is not booked.           *)
(*                                                                         *)
(* The adapters' modules implement this specification: `booked` is the     *)
(* header's total_shares, `held` the units in the protocol's account.      *)
(***************************************************************************)
EXTENDS Integers

CONSTANTS
  Positions,  \* positions of the adapter that may be opened
  Units       \* amounts an account can hold, 0..2^64-1 in the code

VARIABLES
  booked,  \* position -> AdapterStateHeader.total_shares
  held     \* position -> units in the position's account with the protocol

vars == <<booked, held>>

Opened(f, k) == [x \in DOMAIN f \cup {k} |-> IF x = k THEN 0 ELSE f[x]]

Init ==
  /\ booked = [k \in {} |-> 0]
  /\ held = [k \in {} |-> 0]

\* adapter_initialize: both accounts begin empty.
Open(k) ==
  /\ k \notin DOMAIN booked
  /\ booked' = Opened(booked, k)
  /\ held' = Opened(held, k)

\* adapter_deposit: the protocol adds n units, and they are booked.
Mint(k, n) ==
  /\ k \in DOMAIN booked
  /\ held[k] + n \in Units
  /\ booked' = [booked EXCEPT ![k] = @ + n]
  /\ held' = [held EXCEPT ![k] = @ + n]

\* adapter_withdraw: n booked units are redeemed and taken off the books; the
\* protocol may stop before it has taken them all.
Burn(k, n, spent) ==
  /\ k \in DOMAIN booked
  /\ n <= booked[k]
  /\ spent <= n
  /\ booked' = [booked EXCEPT ![k] = @ - n]
  /\ held' = [held EXCEPT ![k] = @ - spent]

\* Anyone may send units to the account.
Receive(k, n) ==
  /\ k \in DOMAIN booked
  /\ held[k] + n \in Units
  /\ held' = [held EXCEPT ![k] = @ + n]
  /\ UNCHANGED booked

Next ==
  \E k \in Positions :
     \/ Open(k)
     \/ \E n \in Units :
           \/ Mint(k, n)
           \/ Receive(k, n)
           \/ \E spent \in 0..n : Burn(k, n, spent)

Spec == Init /\ [][Next]_vars

-----------------------------------------------------------------------------
\* Type invariant of the two accounts.
TypeOK ==
  /\ DOMAIN booked \subseteq Positions
  /\ booked \in [DOMAIN booked -> Nat]
  /\ held \in [DOMAIN booked -> Nat]

\* Every booked unit is held, so what the books allow to withdraw is there.
Backed == \A k \in DOMAIN booked : booked[k] <= held[k]

\* What is held but not booked (units sent to the account, units a redemption
\* left behind) never comes out again: no sequence of deposits and withdrawals
\* lowers it.
SurplusStep ==
  \A k \in DOMAIN booked :
     k \in DOMAIN booked' /\ held'[k] - booked'[k] >= held[k] - booked[k]

SurplusStays == [][SurplusStep]_vars
=============================================================================
