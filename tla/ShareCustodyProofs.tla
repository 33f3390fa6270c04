------------------------- MODULE ShareCustodyProofs -------------------------
(***************************************************************************)
(* Proofs about module ShareCustody: what every adapter that implements it *)
(* inherits.                                                               *)
(***************************************************************************)
EXTENDS ShareCustody, TLAPS

\* Amounts are natural numbers.
CustodyAssumption == Units \subseteq Nat

\* The inductive invariant.
CustodyInv == TypeOK /\ Backed

\* Neither opening, minting, receiving nor burning books what is not held, and
\* none takes what is not booked.
LEMMA CustodyStep ==
  ASSUME CustodyAssumption, CustodyInv, [Next]_vars
  PROVE  CustodyInv' /\ SurplusStep
<1>1. /\ DOMAIN held = DOMAIN booked
      /\ \A x \in DOMAIN booked :
            /\ x \in Positions /\ booked[x] \in Nat /\ held[x] \in Nat
            /\ booked[x] <= held[x]
  BY DEF CustodyInv, TypeOK, Backed
<1>2. ASSUME NEW k \in Positions, Open(k) PROVE CustodyInv' /\ SurplusStep
  <2>1. /\ k \notin DOMAIN booked /\ k \notin DOMAIN held
        /\ booked' = Opened(booked, k) /\ held' = Opened(held, k)
    BY <1>1, <1>2 DEF Open
  <2>2. /\ DOMAIN booked' = DOMAIN booked \cup {k} /\ DOMAIN held' = DOMAIN booked'
        /\ booked'[k] = 0 /\ held'[k] = 0
        /\ \A x \in DOMAIN booked : booked'[x] = booked[x] /\ held'[x] = held[x]
    <3>1. /\ DOMAIN booked' = DOMAIN booked \cup {k} /\ booked'[k] = 0
          /\ \A x \in DOMAIN booked : booked'[x] = booked[x]
      BY <2>1 DEF Opened
    <3>2. /\ DOMAIN held' = DOMAIN held \cup {k} /\ held'[k] = 0
          /\ \A x \in DOMAIN held : held'[x] = held[x]
      BY <2>1 DEF Opened
    <3>3. QED
      BY <1>1, <3>1, <3>2
  <2>3. booked' \in [DOMAIN booked' -> Nat] /\ held' \in [DOMAIN booked' -> Nat]
    <3>1. \A x \in DOMAIN booked' : booked'[x] \in Nat /\ held'[x] \in Nat
      BY <1>1, <2>2
    <3>2. booked' = [x \in DOMAIN booked' |-> booked'[x]]
      BY <2>1, <2>2, Zenon DEF Opened
    <3>3. held' = [x \in DOMAIN booked' |-> held'[x]]
      BY <2>1, <2>2, <1>1, Zenon DEF Opened
    <3>4. QED
      BY <3>1, <3>2, <3>3
  <2>4. CustodyInv'
    BY <1>1, <2>2, <2>3 DEF CustodyInv, TypeOK, Backed
  <2>5. SurplusStep
    BY <1>1, <2>2 DEF SurplusStep
  <2>6. QED
    BY <2>4, <2>5
<1>3. ASSUME NEW k \in DOMAIN booked, NEW b \in Nat, NEW h \in Nat,
             booked' = [booked EXCEPT ![k] = b], held' = [held EXCEPT ![k] = h],
             h - b >= held[k] - booked[k]
      PROVE  CustodyInv' /\ SurplusStep
  <2>1. b <= h
    BY <1>1, <1>3
  <2>2. /\ DOMAIN booked' = DOMAIN booked
        /\ booked' \in [DOMAIN booked -> Nat] /\ held' \in [DOMAIN booked -> Nat]
    BY <1>1, <1>3 DEF CustodyInv, TypeOK
  <2>3. /\ booked'[k] = b /\ held'[k] = h
        /\ \A x \in DOMAIN booked \ {k} : booked'[x] = booked[x] /\ held'[x] = held[x]
    BY <1>1, <1>3
  <2>4. CustodyInv'
    BY <1>1, <2>1, <2>2, <2>3 DEF CustodyInv, TypeOK, Backed
  <2>5. SurplusStep
    BY <1>1, <1>3, <2>2, <2>3 DEF SurplusStep
  <2>6. QED
    BY <2>4, <2>5
<1>4. ASSUME NEW k \in Positions, NEW n \in Units, Mint(k, n)
      PROVE  CustodyInv' /\ SurplusStep
  <2>1. /\ k \in DOMAIN booked /\ n \in Nat
        /\ booked' = [booked EXCEPT ![k] = booked[k] + n]
        /\ held' = [held EXCEPT ![k] = held[k] + n]
    BY <1>4 DEF CustodyAssumption, Mint
  <2>2. booked[k] + n \in Nat /\ held[k] + n \in Nat
        /\ (held[k] + n) - (booked[k] + n) >= held[k] - booked[k]
    BY <1>1, <2>1
  <2>3. QED
    BY <1>3, <2>1, <2>2
<1>5. ASSUME NEW k \in Positions, NEW n \in Units, Receive(k, n)
      PROVE  CustodyInv' /\ SurplusStep
  <2>1. /\ k \in DOMAIN booked /\ n \in Nat
        /\ booked' = [booked EXCEPT ![k] = booked[k]]
        /\ held' = [held EXCEPT ![k] = held[k] + n]
    BY <1>1, <1>5 DEF CustodyAssumption, Receive, CustodyInv, TypeOK
  <2>2. booked[k] \in Nat /\ held[k] + n \in Nat
        /\ (held[k] + n) - booked[k] >= held[k] - booked[k]
    BY <1>1, <2>1
  <2>3. QED
    BY <1>3, <2>1, <2>2
<1>6. ASSUME NEW k \in Positions, NEW n \in Units, NEW spent \in 0..n, Burn(k, n, spent)
      PROVE  CustodyInv' /\ SurplusStep
  <2>1. /\ k \in DOMAIN booked /\ n \in Nat /\ spent \in Nat
        /\ n <= booked[k] /\ spent <= n
        /\ booked' = [booked EXCEPT ![k] = booked[k] - n]
        /\ held' = [held EXCEPT ![k] = held[k] - spent]
    BY <1>6 DEF CustodyAssumption, Burn
  <2>2. booked[k] - n \in Nat /\ held[k] - spent \in Nat
        /\ (held[k] - spent) - (booked[k] - n) >= held[k] - booked[k]
    BY <1>1, <2>1
  <2>3. QED
    BY <1>3, <2>1, <2>2
<1>7. CASE UNCHANGED vars
  <2>1. booked' = booked /\ held' = held
    BY <1>7 DEF vars
  <2>2. CustodyInv'
    BY <2>1 DEF CustodyInv, TypeOK, Backed
  <2>3. SurplusStep
    BY <1>1, <2>1 DEF SurplusStep
  <2>4. QED
    BY <2>2, <2>3
<1>8. QED
  BY <1>2, <1>4, <1>5, <1>6, <1>7 DEF Next

\* The invariant holds in every reachable state.
THEOREM CustodyInvariant ==
  ASSUME CustodyAssumption
  PROVE  Spec => []CustodyInv
<1>1. Init => CustodyInv
  BY DEF Init, CustodyInv, TypeOK, Backed
<1>2. CustodyInv /\ [Next]_vars => CustodyInv'
  BY CustodyStep
<1>3. QED
  BY <1>1, <1>2, PTL DEF Spec

\* Every booked unit is held, whatever is sent to an account and however much
\* of a withdrawal the protocol leaves behind.
THEOREM AlwaysBacked ==
  ASSUME CustodyAssumption
  PROVE  Spec => []Backed
<1>1. Spec => []CustodyInv
  BY CustodyInvariant
<1>2. CustodyInv => Backed
  BY DEF CustodyInv
<1>3. QED
  BY <1>1, <1>2, PTL

\* What is held beyond the books never comes out.
THEOREM SurplusAlwaysStays ==
  ASSUME CustodyAssumption
  PROVE  Spec => SurplusStays
<1>1. Spec => []CustodyInv
  BY CustodyInvariant
<1>2. CustodyInv /\ [Next]_vars => [SurplusStep]_vars
  BY CustodyStep
<1>3. QED
  BY <1>1, <1>2, PTL DEF Spec, SurplusStays
=============================================================================
