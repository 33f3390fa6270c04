------------------------- MODULE CallContextProofs --------------------------
(***************************************************************************)
(* Proofs about module CallContext, for any adapters, protocols, depth of  *)
(* nesting, number of CPIs per call, of instructions per transaction and   *)
(* of results: its type invariant, that the dispatcher goes on with the    *)
(* answer of the adapter it routed to, that the answer is still there when *)
(* it looks, and that no work is left behind outside a routed call.        *)
(***************************************************************************)
EXTENDS CallContext, SequenceTheorems, TLAPS

\* How many programs are being executed.
Depth == Len(stack)

\* The part of TypeOK about the stack, and the rest of it.
StackOK == stack \in Seq(Programs) /\ Depth \in 0..MaxDepth
DataOK ==
  /\ entering \in BOOLEAN /\ reading \in BOOLEAN /\ worked \in BOOLEAN
  /\ routed \in Adapters
  /\ cpis \in [Adapters -> 0..MaxCpis]
  /\ return_data \in Register
  /\ computed \in [Adapters -> Values \cup {NoValue}]
  /\ accepted \in Values \cup {NoValue}
  /\ failure \in {"none", "Unauthorized", "CpiError", "ProtocolError", "MissingReturnData"}
  /\ calls \in 0..MaxCalls

\* The runtime re-enters no program.
NoReentry == \A i, j \in 1..Depth : stack[i] = stack[j] => i = j

\* Where the top-level instruction is not the dispatcher's nothing gets past an
\* adapter's caller check, and so nothing to a protocol.
Refused ==
  Depth >= 1 /\ stack[1] # Dispatcher =>
     entering /\ ~worked /\ stack[Depth] \notin Protocols

\* Whatever runs below the dispatcher runs below the adapter it routed to.
BelowRouted == Depth > 1 /\ stack[1] = Dispatcher => stack[2] = routed

\* An invocation finds the register empty.
EntersEmpty == entering => return_data = Empty

\* While the call runs, the register holds the routed adapter's answer when there
\* is one, and nothing of that adapter's when there is none; after the answer
\* nothing is invoked any more.
Answered ==
  Depth >= 1 =>
     /\ accepted = NoValue
     /\ failure = "none"
     /\ computed[routed] = NoValue => return_data.program # routed
     /\ computed[routed] # NoValue =>
           /\ return_data = [program |-> routed, value |-> computed[routed]]
           /\ cpis[routed] = 0
           /\ ~entering
           /\ Depth <= 2

\* NoUnroutedWork, of the depth.
WorkRouted == worked /\ Depth = 0 /\ failure = "none" => accepted # NoValue

\* The inductive invariant.
CallInv ==
  /\ StackOK
  /\ DataOK
  /\ NoReentry
  /\ Refused
  /\ BelowRouted
  /\ EntersEmpty
  /\ Answered
  /\ AcceptedIsComputed
  /\ AnswerSurvives
  /\ WorkRouted

-----------------------------------------------------------------------------
(* the stack *)

\* The programs are of different kinds.
LEMMA Kinds ==
  /\ Dispatcher \in Programs /\ Outer \in Programs
  /\ Adapters \subseteq Programs /\ Protocols \subseteq Programs
  /\ \A a \in Adapters : a # Dispatcher /\ a # Outer /\ a \notin Protocols /\ a # Nobody
  /\ Dispatcher # Outer /\ Dispatcher \notin Protocols /\ Outer \notin Protocols
  BY CallContextAssumption DEF Programs

\* The depth of a stack, and the program that runs.
LEMMA StackFacts ==
  ASSUME StackOK
  PROVE  /\ Depth \in Nat
         /\ stack = <<>> <=> Depth = 0
         /\ \A p : Running(p) <=> Depth >= 1 /\ stack[Depth] = p
         /\ \A i \in 1..Depth : stack[i] \in Programs
<1>1. stack \in Seq(Programs) /\ Len(stack) \in Nat
  BY LenProperties DEF StackOK
<1>2. stack = <<>> <=> Len(stack) = 0
  BY <1>1, EmptySeq
<1>3. \A i \in 1..Len(stack) : stack[i] \in Programs
  BY <1>1, ElementOfSeq
<1>4. Len(stack) >= 1 <=> Len(stack) # 0
  BY <1>1
<1>5. QED
  BY <1>1, <1>2, <1>3, <1>4 DEF Depth, Running

\* An invocation puts its program on top of the others.
LEMMA Pushed ==
  ASSUME StackOK, NoReentry, NEW program \in Programs, Invoke(program)
  PROVE  /\ StackOK'
         /\ Depth' = Depth + 1
         /\ \A i \in 1..Depth : stack'[i] = stack[i]
         /\ stack'[Depth'] = program
         /\ NoReentry'
         /\ entering' = TRUE /\ return_data' = Empty
<1>1. stack \in Seq(Programs) /\ Len(stack) \in Nat
  BY LenProperties DEF StackOK
<1>2. /\ stack' \in Seq(Programs) /\ Len(stack') = Len(stack) + 1
      /\ \A i \in 1..Len(stack) : stack'[i] = stack[i]
      /\ stack'[Len(stack')] = program
  BY <1>1, AppendProperties DEF Invoke
<1>3. /\ Depth \in Nat /\ Depth' = Depth + 1 /\ Depth < MaxDepth
      /\ \A i \in 1..Depth : stack'[i] = stack[i]
      /\ stack'[Depth + 1] = program
      /\ \A i \in 1..Depth : stack[i] # program
  BY <1>1, <1>2 DEF Depth, Invoke
<1>4. StackOK'
  BY <1>2, <1>3, CallContextAssumption DEF StackOK
<1>5. NoReentry'
  <2> SUFFICES ASSUME NEW i \in 1..(Depth + 1), NEW j \in 1..(Depth + 1),
                      stack'[i] = stack'[j]
               PROVE  i = j
    BY <1>3 DEF NoReentry
  <2>1. i \in 1..Depth \/ i = Depth + 1
    BY <1>3
  <2>2. j \in 1..Depth \/ j = Depth + 1
    BY <1>3
  <2>3. QED
    BY <1>3, <2>1, <2>2 DEF NoReentry
<1>6. QED
  BY <1>3, <1>4, <1>5 DEF Invoke

\* A return takes the last program off.
LEMMA Popped ==
  ASSUME StackOK, NoReentry, Depth >= 1, Return
  PROVE  /\ StackOK'
         /\ Depth' = Depth - 1
         /\ \A i \in 1..(Depth - 1) : stack'[i] = stack[i]
         /\ NoReentry'
         /\ entering' = FALSE
<1>1. stack \in Seq(Programs) /\ Depth \in Nat
  BY StackFacts DEF StackOK
<1> DEFINE n == Depth - 1
<1>2. n \in Nat /\ \A i \in 1..n : i \in 1..Depth /\ stack[i] \in Programs
  BY <1>1, StackFacts
<1>3. stack' = SubSeq(stack, 1, n)
  BY DEF Return, Depth
<1>4. /\ stack' \in Seq(Programs) /\ Depth' = n
      /\ \A i \in 1..n : stack'[i] = stack[i]
  <2> HIDE DEF n
  <2>1. /\ SubSeq(stack, 1, n) \in Seq(Programs)
        /\ Len(SubSeq(stack, 1, n)) = IF 1 <= n THEN n - 1 + 1 ELSE 0
        /\ \A i \in 1..(n - 1 + 1) : SubSeq(stack, 1, n)[i] = stack[1 + i - 1]
    BY <1>1, <1>2, SubSeqProperties
  <2>2. QED
    BY <1>2, <1>3, <2>1 DEF Depth
<1>5. StackOK'
  BY <1>1, <1>2, <1>4, CallContextAssumption DEF StackOK
<1>6. NoReentry'
  BY <1>2, <1>4 DEF NoReentry
<1>7. QED
  BY <1>4, <1>5, <1>6 DEF Return

\* A failure leaves nothing being executed.
LEMMA Emptied ==
  ASSUME stack' = <<>>
  PROVE  StackOK' /\ Depth' = 0
  BY EmptySeq, CallContextAssumption DEF StackOK, Depth

-----------------------------------------------------------------------------
(* who runs *)

\* An adapter at work, and a protocol, run below the dispatcher and the adapter it
\* routed to; that adapter itself runs second.
LEMMA Below ==
  ASSUME CallInv, NEW p, Running(p),
         p \in Protocols \/ (p \in Adapters /\ ~entering)
  PROVE  /\ Depth >= 1 /\ stack[1] = Dispatcher
         /\ Depth >= 2 /\ stack[2] = routed
         /\ p = routed => Depth = 2
         /\ Depth = 2 => p = routed
<1>1. Depth >= 1 /\ Depth \in Nat /\ Depth >= 1 /\ stack[Depth] = p
  BY StackFacts DEF CallInv
<1>2. stack[1] = Dispatcher
  BY <1>1, Kinds DEF CallInv, Refused
<1>3. p # Dispatcher
  BY Kinds
<1>4. Depth >= 2
  BY <1>1, <1>2, <1>3
<1>5. stack[2] = routed
  BY <1>1, <1>2, <1>4 DEF CallInv, BelowRouted
<1>6. p = routed => Depth = 2
  <2>1. 2 \in 1..Depth /\ Depth \in 1..Depth
    BY <1>1, <1>4
  <2>2. QED
    BY <1>1, <1>5, <2>1 DEF CallInv, NoReentry
<1>7. QED
  BY <1>1, <1>2, <1>4, <1>5, <1>6

\* The dispatcher past its entry runs alone.
LEMMA DispatcherAlone ==
  ASSUME CallInv, Running(Dispatcher), ~entering
  PROVE  Depth >= 1 /\ stack[1] = Dispatcher /\ Depth = 1
<1>1. Depth >= 1 /\ Depth \in Nat /\ Depth >= 1 /\ stack[Depth] = Dispatcher
  BY StackFacts DEF CallInv
<1>2. stack[1] = Dispatcher
  BY <1>1 DEF CallInv, Refused
<1>3. 1 \in 1..Depth /\ Depth \in 1..Depth
  BY <1>1
<1>4. QED
  BY <1>1, <1>2, <1>3 DEF CallInv, NoReentry

-----------------------------------------------------------------------------
(* the kinds of steps *)

\* A failure ends the transaction and keeps the rest.
LEMMA FailKeeps ==
  ASSUME CallInv, NEW error, Fail(error),
         error \in {"Unauthorized", "CpiError", "ProtocolError", "MissingReturnData"},
         accepted = NoValue,
         error = "MissingReturnData" => computed[routed] = NoValue
  PROVE  CallInv'
<1>1. /\ stack' = <<>> /\ entering' = FALSE /\ failure' = error
      /\ UNCHANGED <<reading, routed, cpis, return_data, computed, worked, accepted, calls>>
  BY DEF Fail
<1>2. StackOK' /\ Depth' = 0
  BY <1>1, Emptied
<1>3. DataOK'
  BY <1>1 DEF CallInv, DataOK
<1>4. NoReentry' /\ Refused' /\ BelowRouted' /\ EntersEmpty' /\ Answered'
  BY <1>1, <1>2 DEF NoReentry, Refused, BelowRouted, EntersEmpty, Answered
<1>5. AcceptedIsComputed' /\ AnswerSurvives' /\ WorkRouted'
  BY <1>1 DEF AcceptedIsComputed, AnswerSurvives, WorkRouted
<1>6. QED
  BY <1>2, <1>3, <1>4, <1>5 DEF CallInv

\* An invocation in the course of an instruction, before the routed adapter answers.
LEMMA InvokeKeeps ==
  ASSUME CallInv, Depth >= 1, NEW program \in Programs, Invoke(program),
         UNCHANGED call, cpis' \in [Adapters -> 0..MaxCpis],
         computed[routed] = NoValue,
         stack[1] = Dispatcher /\ Depth = 1 => program = routed,
         stack[1] # Dispatcher => program \notin Protocols
  PROVE  CallInv'
<1>1. Depth \in Nat /\ Depth >= 1
  BY StackFacts DEF CallInv
<1>2. /\ StackOK' /\ Depth' = Depth + 1
      /\ \A i \in 1..Depth : stack'[i] = stack[i]
      /\ stack'[Depth'] = program
      /\ NoReentry'
      /\ entering' = TRUE /\ return_data' = Empty
  BY Pushed DEF CallInv
<1>3. stack'[1] = stack[1]
  BY <1>1, <1>2
<1>4. Empty \in Register /\ Empty.program # routed
  BY Kinds DEF Empty, Register, CallInv, DataOK
<1>5. DataOK'
  BY <1>2, <1>4 DEF CallInv, DataOK, call
<1>6. Refused'
  BY <1>2, <1>3 DEF Refused, CallInv, call
<1>7. BelowRouted'
  <2>1. CASE Depth = 1
    BY <1>2, <1>3, <2>1 DEF BelowRouted, call
  <2>2. CASE Depth > 1
    BY <1>1, <1>2, <1>3, <2>2 DEF BelowRouted, CallInv, call
  <2>3. QED
    BY <1>1, <2>1, <2>2
<1>8. EntersEmpty' /\ Answered'
  BY <1>2, <1>4 DEF EntersEmpty, Answered, CallInv, call
<1>9. AcceptedIsComputed' /\ AnswerSurvives' /\ WorkRouted'
  BY <1>1, <1>2 DEF AcceptedIsComputed, AnswerSurvives, WorkRouted, Answered, CallInv, call
<1>10. QED
  BY <1>2, <1>5, <1>6, <1>7, <1>8, <1>9 DEF CallInv

\* A return below the dispatcher that leaves no answer of the routed adapter's in
\* the register but the one there was.
LEMMA ReturnKeeps ==
  ASSUME CallInv, Depth >= 1, stack[1] = Dispatcher, Depth > 1, Return,
         UNCHANGED <<cpis, call>>, return_data' \in Register,
         computed[routed] = NoValue => return_data'.program # routed,
         computed[routed] # NoValue => return_data' = return_data
  PROVE  CallInv'
<1>1. Depth \in Nat
  BY StackFacts DEF CallInv
<1>2. /\ StackOK' /\ Depth' = Depth - 1 /\ Depth' >= 1
      /\ \A i \in 1..(Depth - 1) : stack'[i] = stack[i]
      /\ NoReentry'
      /\ entering' = FALSE
  BY <1>1, Popped DEF CallInv
<1>3. stack'[1] = Dispatcher
  BY <1>1, <1>2
<1>4. DataOK'
  BY <1>1, <1>2, CallContextAssumption DEF CallInv, DataOK, call
<1>5. Refused' /\ EntersEmpty'
  BY <1>2, <1>3 DEF Refused, EntersEmpty
<1>6. BelowRouted'
  BY <1>1, <1>2, <1>3 DEF BelowRouted, CallInv, call
<1>7. Answered'
  BY <1>1, <1>2 DEF Answered, CallInv, call
<1>8. AcceptedIsComputed' /\ AnswerSurvives' /\ WorkRouted'
  BY <1>2 DEF AcceptedIsComputed, AnswerSurvives, WorkRouted, Answered, CallInv, call
<1>9. QED
  BY <1>2, <1>4, <1>5, <1>6, <1>7, <1>8 DEF CallInv

-----------------------------------------------------------------------------
(* the steps *)

\* A new instruction forgets the last one.
LEMMA StartStep ==
  ASSUME CallInv, NEW program \in {Dispatcher, Outer} \cup Adapters,
         NEW adapter \in Adapters, NEW is_read \in BOOLEAN,
         Start(program, adapter, is_read)
  PROVE  CallInv'
<1>1. program \in Programs /\ program \notin Protocols
  BY Kinds
<1>2. Depth = 0
  BY StackFacts DEF Start, CallInv
<1>3. /\ StackOK' /\ Depth' = 1
      /\ stack'[1] = program
      /\ NoReentry'
      /\ entering' = TRUE /\ return_data' = Empty
  <2>1. StackOK /\ NoReentry /\ Invoke(program)
    BY DEF CallInv, Start
  <2>2. /\ StackOK' /\ Depth' = Depth + 1
        /\ stack'[Depth'] = program
        /\ NoReentry'
        /\ entering' = TRUE /\ return_data' = Empty
    BY <1>1, <2>1, Pushed
  <2>3. QED
    BY <1>2, <2>2
<1>4. /\ calls' \in 0..MaxCalls /\ reading' \in BOOLEAN /\ routed' = adapter
      /\ computed' = NoAnswers /\ worked' = FALSE /\ accepted' = NoValue
      /\ cpis' = cpis /\ failure' = "none"
  <2>1. calls \in 0..MaxCalls /\ calls < MaxCalls /\ calls' = calls + 1
    BY DEF Start, CallInv, DataOK
  <2>2. calls' \in 0..MaxCalls
    BY <2>1, CallContextAssumption
  <2>3. reading' \in BOOLEAN
    BY DEF Start
  <2>4. QED
    BY <2>2, <2>3 DEF Start
<1>5. Empty \in Register /\ Empty.program # adapter
  BY Kinds DEF Empty, Register
<1>6. NoAnswers \in [Adapters -> Values \cup {NoValue}] /\ NoAnswers[adapter] = NoValue
  BY DEF NoAnswers
<1>7. DataOK'
  BY <1>3, <1>4, <1>5, <1>6 DEF DataOK, CallInv
<1>8. Refused' /\ BelowRouted' /\ EntersEmpty' /\ Answered'
  BY <1>1, <1>3, <1>4, <1>5, <1>6 DEF Refused, BelowRouted, EntersEmpty, Answered
<1>9. AcceptedIsComputed' /\ AnswerSurvives' /\ WorkRouted'
  BY <1>4 DEF AcceptedIsComputed, AnswerSurvives, WorkRouted
<1>10. QED
  BY <1>3, <1>7, <1>8, <1>9 DEF CallInv

\* The composing program runs at the top, and what it invokes is at its entry.
LEMMA OuterStep ==
  ASSUME CallInv, NEW program \in {Dispatcher} \cup Adapters, OuterInvokes(program)
  PROVE  CallInv'
<1>1. Depth >= 1 /\ entering /\ stack[Depth] = Outer
  BY StackFacts DEF OuterInvokes, CallInv
<1>2. program \in Programs /\ program \notin Protocols
  BY Kinds
<1>3. computed[routed] = NoValue
  BY <1>1 DEF CallInv, Answered
<1>4. ~(stack[1] = Dispatcher /\ Depth = 1)
  BY <1>1, Kinds
<1>5. cpis' \in [Adapters -> 0..MaxCpis]
  BY DEF OuterInvokes, CallInv, DataOK
<1>6. QED
  BY <1>1, <1>2, <1>3, <1>4, <1>5, InvokeKeeps DEF OuterInvokes

\* The dispatcher invokes the adapter of the position.
LEMMA RouteStep ==
  ASSUME CallInv, RouteToAdapter
  PROVE  CallInv'
<1>1. Depth >= 1 /\ entering
  BY StackFacts, Kinds DEF RouteToAdapter, CallInv, DataOK
<1>2. routed \in Programs /\ routed \notin Protocols
  BY Kinds DEF CallInv, DataOK
<1>3. computed[routed] = NoValue
  BY <1>1 DEF CallInv, Answered
<1>4. cpis' \in [Adapters -> 0..MaxCpis]
  BY DEF RouteToAdapter, CallInv, DataOK
<1>5. QED
  BY <1>1, <1>2, <1>3, <1>4, InvokeKeeps DEF RouteToAdapter

\* An adapter that accepts its caller is below the dispatcher, and starts anew.
LEMMA VerifyStep ==
  ASSUME CallInv, NEW adapter \in Adapters, NEW n \in 0..MaxCpis,
         VerifyCaller(adapter, n)
  PROVE  CallInv'
<1>1. Depth >= 1 /\ entering
  BY StackFacts DEF VerifyCaller, CallInv
<1>2. /\ accepted = NoValue /\ failure = "none"
      /\ computed[routed] = NoValue /\ return_data.program # routed
  BY <1>1 DEF CallInv, Answered
<1>3. CASE ~CallerAccepted
  BY <1>2, <1>3, FailKeeps DEF VerifyCaller
<1>4. CASE CallerAccepted
  <2>1. /\ stack' = stack /\ entering' = FALSE /\ stack[1] = Dispatcher
        /\ cpis' = [cpis EXCEPT ![adapter] = n]
        /\ computed' = [computed EXCEPT ![adapter] = NoValue]
        /\ worked' = TRUE
        /\ UNCHANGED <<reading, routed, return_data, accepted, failure, calls>>
    BY <1>4, CallContextAssumption DEF VerifyCaller, CallerAccepted, Fail
  <2>2. computed'[routed'] = NoValue
    BY <1>2, <2>1 DEF CallInv, DataOK
  <2>3. DataOK'
    BY <2>1 DEF CallInv, DataOK
  <2>4. /\ Depth' = Depth
        /\ StackOK' /\ NoReentry' /\ Refused' /\ BelowRouted' /\ EntersEmpty'
    BY <2>1 DEF Depth, CallInv, StackOK, NoReentry, Refused, BelowRouted, EntersEmpty
  <2>5. Answered' /\ AcceptedIsComputed' /\ AnswerSurvives' /\ WorkRouted'
    BY <1>1, <1>2, <2>1, <2>2, <2>4
       DEF Answered, AcceptedIsComputed, AnswerSurvives, WorkRouted
  <2>6. QED
    BY <2>3, <2>4, <2>5 DEF CallInv
<1>5. QED
  BY <1>3, <1>4

\* An adapter that has CPIs to make has not answered if it is the routed one, and
\* if it is not, the routed one is waiting for it.
LEMMA AdapterInvokesStep ==
  ASSUME CallInv, NEW adapter \in Adapters, NEW program \in Adapters \cup Protocols,
         AdapterInvokes(adapter, program)
  PROVE  CallInv'
<1>1. Running(adapter) /\ ~entering /\ cpis[adapter] > 0
  BY DEF AdapterInvokes
<1>2. /\ Depth >= 1 /\ stack[1] = Dispatcher
      /\ Depth >= 2 /\ (Depth = 2 => adapter = routed)
  BY <1>1, Below
<1>3. program \in Programs
  BY Kinds
<1>4. computed[routed] = NoValue
  <2> SUFFICES ASSUME computed[routed] # NoValue PROVE FALSE
    OBVIOUS
  <2>1. cpis[routed] = 0 /\ Depth <= 2
    BY <1>2 DEF CallInv, Answered
  <2>2. Depth \in Nat
    BY StackFacts DEF CallInv
  <2>3. adapter = routed
    BY <1>2, <2>1, <2>2
  <2>4. QED
    BY <1>1, <2>1, <2>3
<1>5. cpis' \in [Adapters -> 0..MaxCpis]
  <2>1. cpis[adapter] - 1 \in 0..MaxCpis
    BY <1>1, CallContextAssumption DEF CallInv, DataOK
  <2>2. QED
    BY <2>1 DEF AdapterInvokes, CallInv, DataOK
<1>6. Depth # 1
  BY <1>2, StackFacts DEF CallInv
<1>7. QED
  BY <1>2, <1>3, <1>4, <1>5, <1>6, InvokeKeeps DEF AdapterInvokes

\* A protocol invokes an adapter while the routed one is waiting.
LEMMA ProtocolInvokesStep ==
  ASSUME CallInv, NEW protocol \in Protocols, NEW adapter \in Adapters,
         ProtocolInvokes(protocol, adapter)
  PROVE  CallInv'
<1>1. /\ Depth >= 1 /\ stack[1] = Dispatcher
      /\ Depth >= 2 /\ (Depth = 2 => protocol = routed)
  BY Below DEF ProtocolInvokes
<1>2. Depth \in Nat /\ protocol # routed
  BY StackFacts, Kinds DEF CallInv, DataOK
<1>3. computed[routed] = NoValue
  BY <1>1, <1>2 DEF CallInv, Answered
<1>4. adapter \in Programs /\ Depth # 1
  BY <1>1, <1>2, Kinds
<1>5. cpis' \in [Adapters -> 0..MaxCpis]
  BY DEF ProtocolInvokes, CallInv, DataOK
<1>6. QED
  BY <1>1, <1>3, <1>4, <1>5, InvokeKeeps DEF ProtocolInvokes

\* What a protocol leaves in the register is not an adapter's.
LEMMA ProtocolReturnsStep ==
  ASSUME CallInv, NEW protocol \in Protocols, ProtocolReturns(protocol)
  PROVE  CallInv'
<1>1. /\ Depth >= 1 /\ stack[1] = Dispatcher
      /\ Depth >= 2 /\ (Depth = 2 => protocol = routed)
  BY Below DEF ProtocolReturns
<1>2. Depth \in Nat /\ protocol # routed
  BY StackFacts, Kinds DEF CallInv, DataOK
<1>3. computed[routed] = NoValue /\ return_data.program # routed
  BY <1>1, <1>2 DEF CallInv, Answered
<1>4. return_data' \in Register /\ return_data'.program # routed
  <2>1. CASE UNCHANGED return_data
    BY <1>3, <2>1 DEF CallInv, DataOK
  <2>2. CASE \E v \in Values : return_data' = [program |-> protocol, value |-> v]
    BY <1>2, <2>2, Kinds DEF Register
  <2>3. QED
    BY <2>1, <2>2 DEF ProtocolReturns
<1>5. QED
  BY <1>1, <1>2, <1>3, <1>4, ReturnKeeps DEF ProtocolReturns

\* An adapter that returns leaves the register to its caller.
LEMMA AdapterReturnsStep ==
  ASSUME CallInv, NEW adapter \in Adapters, AdapterReturns(adapter)
  PROVE  CallInv'
<1>1. /\ Depth >= 1 /\ stack[1] = Dispatcher /\ Depth >= 2
  BY Below DEF AdapterReturns
<1>2. Depth \in Nat
  BY StackFacts DEF CallInv
<1>3. /\ return_data' = return_data /\ return_data \in Register
      /\ computed[routed] = NoValue => return_data.program # routed
  BY <1>1 DEF AdapterReturns, CallInv, DataOK, Answered
<1>4. QED
  BY <1>1, <1>2, <1>3, ReturnKeeps DEF AdapterReturns

\* Only the routed adapter's answer is an answer of the routed adapter.
LEMMA AdapterAnswersStep ==
  ASSUME CallInv, NEW adapter \in Adapters, NEW v \in Values,
         AdapterAnswers(adapter, v)
  PROVE  CallInv'
<1>1. /\ Running(adapter) /\ ~entering
      /\ computed[adapter] = NoValue /\ cpis[adapter] = 0
      /\ return_data' = [program |-> adapter, value |-> v]
      /\ computed' = [computed EXCEPT ![adapter] = v]
      /\ UNCHANGED <<stack, entering, reading, routed, cpis, worked, accepted, failure, calls>>
  BY DEF AdapterAnswers, MayAnswer
<1>2. /\ Depth >= 1 /\ stack[1] = Dispatcher
      /\ adapter = routed => Depth = 2
      /\ Depth = 2 => adapter = routed
      /\ Depth >= 2
  BY <1>1, Below
<1>3. DataOK'
  BY <1>1, Kinds DEF CallInv, DataOK, Register
<1>4. /\ Depth' = Depth
      /\ StackOK' /\ NoReentry' /\ Refused' /\ BelowRouted' /\ EntersEmpty'
  BY <1>1, <1>2 DEF Depth, CallInv, StackOK, NoReentry, Refused, BelowRouted, EntersEmpty
<1>5. /\ accepted = NoValue /\ failure = "none"
      /\ computed[routed] = NoValue
  <2>1. computed[routed] # NoValue => Depth <= 2
    BY <1>2 DEF CallInv, Answered
  <2>2. Depth \in Nat
    BY StackFacts DEF CallInv
  <2>3. QED
    BY <1>1, <1>2, <2>1, <2>2 DEF CallInv, Answered
<1>6. Answered'
  <2>1. CASE adapter = routed
    <3>1. computed'[routed'] = v /\ v # NoValue
      BY <1>1, <2>1, CallContextAssumption DEF CallInv, DataOK
    <3>2. Depth' <= 2
      BY <1>2, <1>4, <2>1
    <3>3. QED
      BY <1>1, <1>5, <2>1, <3>1, <3>2 DEF Answered
  <2>2. CASE adapter # routed
    <3>1. computed'[routed'] = NoValue
      BY <1>1, <1>5, <2>2 DEF CallInv, DataOK
    <3>2. QED
      BY <1>1, <1>5, <2>2, <3>1 DEF Answered
  <2>3. QED
    BY <2>1, <2>2
<1>7. AcceptedIsComputed' /\ AnswerSurvives' /\ WorkRouted'
  BY <1>1, <1>2, <1>4, <1>5 DEF AcceptedIsComputed, AnswerSurvives, WorkRouted
<1>8. QED
  BY <1>3, <1>4, <1>6, <1>7 DEF CallInv

\* What the dispatcher reads back is the routed adapter's answer.
LEMMA ReadStep ==
  ASSUME CallInv, DispatcherReads
  PROVE  CallInv'
<1>1. Depth >= 1 /\ stack[1] = Dispatcher /\ Depth = 1
  BY DispatcherAlone DEF DispatcherReads
<1>2. accepted = NoValue /\ failure = "none"
  BY <1>1 DEF CallInv, Answered
<1>3. GetU64Return(routed) = computed[routed]
  BY <1>1 DEF GetU64Return, CallInv, Answered
<1>4. CASE computed[routed] = NoValue
  BY <1>2, <1>3, <1>4, FailKeeps DEF DispatcherReads
<1>5. CASE computed[routed] # NoValue
  <2>1. /\ accepted' = computed[routed]
        /\ return_data' = IF reading
                          THEN [program |-> Dispatcher, value |-> computed[routed]]
                          ELSE return_data
        /\ Return
        /\ UNCHANGED <<reading, routed, cpis, computed, worked, failure, calls>>
    BY <1>3, <1>5 DEF DispatcherReads
  <2>2. StackOK' /\ Depth' = 0 /\ NoReentry' /\ entering' = FALSE
    BY <1>1, <2>1, Popped DEF CallInv
  <2>3. return_data' \in Register
    BY <2>1, Kinds DEF CallInv, DataOK, Register
  <2>4. DataOK'
    BY <2>1, <2>2, <2>3 DEF CallInv, DataOK
  <2>5. Refused' /\ BelowRouted' /\ EntersEmpty' /\ Answered'
    BY <2>2 DEF Refused, BelowRouted, EntersEmpty, Answered
  <2>6. AcceptedIsComputed' /\ AnswerSurvives' /\ WorkRouted'
    BY <1>2, <1>5, <2>1 DEF AcceptedIsComputed, AnswerSurvives, WorkRouted
  <2>7. QED
    BY <2>2, <2>4, <2>5, <2>6 DEF CallInv
<1>6. QED
  BY <1>4, <1>5

\* A CPI that is refused, and a protocol that fails, end the transaction.
LEMMA FailStep ==
  ASSUME CallInv,
         \/ \E adapter \in Adapters : CpiRefused(adapter)
         \/ \E protocol \in Protocols : ProtocolFails(protocol)
  PROVE  CallInv'
<1>1. Depth >= 1
  BY StackFacts DEF CpiRefused, ProtocolFails, CallInv
<1>2. accepted = NoValue
  BY <1>1 DEF CallInv, Answered
<1>3. QED
  BY <1>2, FailKeeps DEF CpiRefused, ProtocolFails

\* No step leaves the invariant.
LEMMA CallStep == CallInv /\ [Next]_vars => CallInv'
<1> SUFFICES ASSUME CallInv, [Next]_vars PROVE CallInv'
  OBVIOUS
<1>1. CASE \E program \in {Dispatcher, Outer} \cup Adapters, adapter \in Adapters,
              is_read \in BOOLEAN : Start(program, adapter, is_read)
  BY <1>1, StartStep
<1>2. CASE \E program \in {Dispatcher} \cup Adapters : OuterInvokes(program)
  BY <1>2, OuterStep
<1>3. CASE RouteToAdapter
  BY <1>3, RouteStep
<1>4. ASSUME NEW adapter \in Adapters, AdapterStep(adapter) PROVE CallInv'
  BY <1>4, VerifyStep, AdapterInvokesStep, FailStep, AdapterAnswersStep,
     AdapterReturnsStep DEF AdapterStep
<1>5. ASSUME NEW protocol \in Protocols, ProtocolStep(protocol) PROVE CallInv'
  BY <1>5, ProtocolInvokesStep, ProtocolReturnsStep, FailStep DEF ProtocolStep
<1>6. CASE DispatcherReads
  BY <1>6, ReadStep
<1>7. CASE UNCHANGED vars
  BY <1>7 DEF vars, Depth, CallInv, StackOK, DataOK, NoReentry, Refused, BelowRouted,
              EntersEmpty, Answered, AcceptedIsComputed, AnswerSurvives, WorkRouted
<1>8. QED
  BY <1>1, <1>2, <1>3, <1>4, <1>5, <1>6, <1>7 DEF Next, Ended

\* Nothing has happened yet.
LEMMA CallInit == Init => CallInv
<1> SUFFICES ASSUME Init PROVE CallInv
  OBVIOUS
<1>1. StackOK /\ Depth = 0
  BY EmptySeq, CallContextAssumption DEF Init, StackOK, Depth
<1>2. Empty \in Register /\ NoAnswers \in [Adapters -> Values \cup {NoValue}]
  BY DEF Empty, Register, NoAnswers
<1>3. DataOK
  <2>1. 0 \in 0..MaxCpis /\ 0 \in 0..MaxCalls
    BY CallContextAssumption
  <2>2. cpis \in [Adapters -> 0..MaxCpis] /\ calls \in 0..MaxCalls
    BY <2>1 DEF Init
  <2>3. QED
    BY <1>2, <2>2 DEF Init, DataOK
<1>4. NoReentry /\ Refused /\ BelowRouted /\ EntersEmpty /\ Answered
  BY <1>1 DEF Init, NoReentry, Refused, BelowRouted, EntersEmpty, Answered
<1>5. AcceptedIsComputed /\ AnswerSurvives /\ WorkRouted
  BY DEF Init, AcceptedIsComputed, AnswerSurvives, WorkRouted
<1>6. QED
  BY <1>1, <1>3, <1>4, <1>5 DEF CallInv

\* The invariant holds in every reachable state: where the top-level instruction is
\* not the dispatcher's nobody gets to work, whatever runs below the dispatcher runs
\* below the adapter it routed to, and the register is that adapter's once it has
\* answered.
THEOREM CallInvariant == Spec => []CallInv
  BY CallInit, CallStep, PTL DEF Spec

\* Type correctness of the call chain, its depth included.
THEOREM CallTypeCorrect == Spec => []TypeOK
<1>1. CallInv => TypeOK
  BY CallContextAssumption DEF CallInv, StackOK, DataOK, TypeOK, Depth
<1>2. QED
  BY <1>1, CallInvariant, PTL

\* What the dispatcher goes on with is what the adapter it routed to computed in
\* this call, whatever other adapters and protocols answered below it.
THEOREM AcceptedIsAlwaysComputed == Spec => []AcceptedIsComputed
<1>1. CallInv => AcceptedIsComputed
  BY DEF CallInv
<1>2. QED
  BY <1>1, CallInvariant, PTL

\* A call whose adapter answered is never refused for want of an answer.
THEOREM AnswerAlwaysSurvives == Spec => []AnswerSurvives
<1>1. CallInv => AnswerSurvives
  BY DEF CallInv
<1>2. QED
  BY <1>1, CallInvariant, PTL

\* No adapter's work outlives an instruction the dispatcher did not route and take
\* the routed adapter's answer of.
THEOREM WorkIsAlwaysRouted == Spec => []NoUnroutedWork
<1>1. CallInv => NoUnroutedWork
  BY StackFacts DEF CallInv, WorkRouted, NoUnroutedWork
<1>2. QED
  BY <1>1, CallInvariant, PTL
=============================================================================
