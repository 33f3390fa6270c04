---------------------------- MODULE CallContext ----------------------------
(***************************************************************************)
(* One routed call as the chain of invocations it is: the dispatcher CPIs  *)
(* the adapter (routing.rs), the adapter checks its caller                 *)
(* (verify_caller_is_dispatcher), CPIs its protocol, answers through the   *)
(* transaction's single return-data register (set_u64_return), and the     *)
(* dispatcher reads the answer back (get_u64_return).                      *)
(*                                                                         *)
(* Adapters and protocols may be anybody's: an adapter comes from a third  *)
(* party, and the protocol an adapter CPIs is an account the caller passes *)
(* (checked for being executable).  So whatever runs below the dispatcher  *)
(* may go on to invoke further adapters, which look at the same top-level  *)
(* instruction and accept it.                                              *)
(*                                                                         *)
(* The runtime is external: it keeps the stack of invocations, bounds its  *)
(* depth and refuses to re-enter a program, empties the return-data        *)
(* register at each invocation, and abandons the transaction when any of   *)
(* them fails.  A transaction is a sequence of top-level instructions; the *)
(* instructions sysvar tells a program which of them is being executed,    *)
(* not who invoked it.                                                     *)
(***************************************************************************)
EXTENDS Integers, Sequences

CONSTANTS
  Dispatcher,
  Adapters, Protocols,  \* the programs that run below the dispatcher
  Outer,                \* a program that composes with them
  Values,               \* results an adapter may compute
  NoValue,              \* ... none yet
  Nobody,               \* writer of an empty register
  MaxDepth,             \* the runtime's limit on nested invocations: 5
  MaxCpis,              \* bound on the CPIs of one adapter call
  MaxCalls              \* bound on the instructions of a transaction

Programs == {Dispatcher, Outer} \cup Adapters \cup Protocols

ASSUME CallContextAssumption ==
  /\ NoValue \notin Values
  /\ Dispatcher \notin Adapters \cup Protocols \cup {Outer}
  /\ Outer \notin Adapters \cup Protocols
  /\ Adapters \cap Protocols = {}
  /\ Adapters # {}
  /\ Nobody \notin Programs
  /\ MaxDepth \in Nat \ {0}
  /\ MaxCpis \in Nat
  /\ MaxCalls \in Nat

VARIABLES
  stack,        \* programs being executed, the top-level instruction's first
  entering,     \* the last program of the stack has yet to execute anything
  reading,      \* the instruction is current_value, not a deposit or withdraw
  routed,       \* the adapter of the position the instruction is about
  cpis,         \* CPIs each adapter has left to make
  return_data,  \* the return-data register: who wrote it, and what
  computed,     \* ghost: each adapter's answer in the current instruction
  worked,       \* ghost: an adapter got to work in the current instruction
  accepted,     \* the answer the dispatcher went on with
  failure,      \* the error that abandoned the transaction
  calls         \* instructions executed so far

vars == <<stack, entering, reading, routed, cpis, return_data, computed, worked,
          accepted, failure, calls>>

Register == [program : Programs \cup {Nobody}, value : Values \cup {NoValue}]
Empty == [program |-> Nobody, value |-> NoValue]
NoAnswers == [adapter \in Adapters |-> NoValue]

Running(program) == stack # <<>> /\ stack[Len(stack)] = program
Caller == stack[Len(stack) - 1]

-----------------------------------------------------------------------------
(* the runtime *)

\* An invocation: of a program that is not being executed, within the depth limit.
Invoke(program) ==
  /\ Len(stack) < MaxDepth
  /\ \A i \in 1..Len(stack) : stack[i] # program
  /\ stack' = Append(stack, program)
  /\ entering' = TRUE
  /\ return_data' = Empty

Return ==
  /\ stack' = SubSeq(stack, 1, Len(stack) - 1)
  /\ entering' = FALSE

Fail(error) ==
  /\ failure' = error
  /\ stack' = <<>>
  /\ entering' = FALSE
  /\ UNCHANGED <<reading, routed, cpis, return_data, computed, worked, accepted, calls>>

\* What only the beginning of an instruction and its own program change.
call == <<reading, routed, computed, worked, accepted, failure, calls>>

-----------------------------------------------------------------------------
(* the interface crate *)

\* Mutant: nobody is refused.
AnyCaller == TRUE

\* verify_caller_is_dispatcher: the instructions sysvar yields the program of
\* the top-level instruction, however many invocations lie in between.
CallerAccepted == stack[1] = Dispatcher

\* Mutant: the writer of the register is not compared.
GetU64FromAnyone(expected_program) ==
  IF return_data.program # Nobody THEN return_data.value ELSE NoValue

\* get_u64_return: nothing, unless the expected program wrote it.
GetU64Return(expected_program) ==
  IF return_data.program = expected_program THEN return_data.value ELSE NoValue

\* Mutant: an adapter calls set_u64_return before its last CPI.
AnswersAnyTime(adapter) == TRUE

\* The adapters of the repository call set_u64_return after their last CPI.
MayAnswer(adapter) == cpis[adapter] = 0

-----------------------------------------------------------------------------
Init ==
  /\ stack = <<>>
  /\ entering = FALSE
  /\ reading = FALSE
  /\ routed \in Adapters
  /\ cpis = [adapter \in Adapters |-> 0]
  /\ return_data = Empty
  /\ computed = NoAnswers
  /\ worked = FALSE
  /\ accepted = NoValue
  /\ failure = "none"
  /\ calls = 0

\* The next top-level instruction: of the dispatcher, of an adapter directly, or
\* of a program that composes with them.
Start(program, adapter, is_read) ==
  /\ stack = <<>>
  /\ failure = "none"
  /\ calls < MaxCalls
  /\ calls' = calls + 1
  /\ reading' = is_read
  /\ routed' = adapter
  /\ computed' = NoAnswers
  /\ worked' = FALSE
  /\ accepted' = NoValue
  /\ Invoke(program)
  /\ UNCHANGED <<cpis, failure>>

\* The composing program CPIs the dispatcher, or goes around it.
OuterInvokes(program) ==
  /\ Running(Outer)
  /\ entering
  /\ Invoke(program)
  /\ UNCHANGED <<cpis, call>>

\* route_deposit, route_withdraw, route_current_value: invoke_signed / invoke.
RouteToAdapter ==
  /\ Running(Dispatcher)
  /\ entering
  /\ Invoke(routed)
  /\ UNCHANGED <<cpis, call>>

\* The check each adapter handler makes before it calls its protocol.
VerifyCaller(adapter, n) ==
  /\ Running(adapter)
  /\ entering
  /\ \/ /\ CallerAccepted
        /\ entering' = FALSE
        /\ cpis' = [cpis EXCEPT ![adapter] = n]
        /\ computed' = [computed EXCEPT ![adapter] = NoValue]
        /\ worked' = TRUE
        /\ UNCHANGED <<stack, reading, routed, return_data, accepted, failure, calls>>
     \/ ~CallerAccepted /\ Fail("Unauthorized")

\* An adapter CPIs its protocol, which is the program it is given; an adapter
\* written by a third party may build on another adapter.
AdapterInvokes(adapter, program) ==
  /\ Running(adapter)
  /\ ~entering
  /\ cpis[adapter] > 0
  /\ cpis' = [cpis EXCEPT ![adapter] = @ - 1]
  /\ Invoke(program)
  /\ UNCHANGED call

\* The CPI is refused: the program is being executed already, or lies too deep.
CpiRefused(adapter) ==
  /\ Running(adapter)
  /\ ~entering
  /\ cpis[adapter] > 0
  /\ Fail("CpiError")

\* What an adapter takes for its protocol may be any program, and invoke an adapter.
ProtocolInvokes(protocol, adapter) ==
  /\ Running(protocol)
  /\ Invoke(adapter)
  /\ UNCHANGED <<cpis, call>>

\* A protocol may set return data of its own.
ProtocolReturns(protocol) ==
  /\ Running(protocol)
  /\ \/ UNCHANGED return_data
     \/ \E v \in Values : return_data' = [program |-> protocol, value |-> v]
  /\ Return
  /\ UNCHANGED <<cpis, call>>

\* A protocol may refuse: its cap, its oracle, its liquidity.
ProtocolFails(protocol) ==
  /\ Running(protocol)
  /\ Fail("ProtocolError")

AdapterAnswers(adapter, v) ==
  /\ Running(adapter)
  /\ ~entering
  /\ computed[adapter] = NoValue
  /\ MayAnswer(adapter)
  /\ return_data' = [program |-> adapter, value |-> v]
  /\ computed' = [computed EXCEPT ![adapter] = v]
  /\ UNCHANGED <<stack, entering, reading, routed, cpis, worked, accepted, failure, calls>>

\* An adapter written by a third party may return without having answered.
AdapterReturns(adapter) ==
  /\ Running(adapter)
  /\ ~entering
  /\ cpis[adapter] = 0
  /\ Return
  /\ UNCHANGED <<cpis, return_data, call>>

\* get_u64_return(..).ok_or(MissingReturnData); current_value hands the answer on.
DispatcherReads ==
  /\ Running(Dispatcher)
  /\ ~entering
  /\ LET answer == GetU64Return(routed) IN
     \/ /\ answer = NoValue
        /\ Fail("MissingReturnData")
     \/ /\ answer # NoValue
        /\ accepted' = answer
        /\ return_data' = IF reading THEN [program |-> Dispatcher, value |-> answer]
                          ELSE return_data
        /\ Return
        /\ UNCHANGED <<reading, routed, cpis, computed, worked, failure, calls>>

\* The transaction has succeeded or failed.
Ended ==
  /\ stack = <<>>
  /\ failure # "none" \/ calls = MaxCalls
  /\ UNCHANGED vars

AdapterStep(adapter) ==
  \/ \E n \in 0..MaxCpis : VerifyCaller(adapter, n)
  \/ \E program \in Adapters \cup Protocols : AdapterInvokes(adapter, program)
  \/ CpiRefused(adapter)
  \/ \E v \in Values : AdapterAnswers(adapter, v)
  \/ AdapterReturns(adapter)

ProtocolStep(protocol) ==
  \/ \E adapter \in Adapters : ProtocolInvokes(protocol, adapter)
  \/ ProtocolReturns(protocol)
  \/ ProtocolFails(protocol)

Next ==
  \/ \E program \in {Dispatcher, Outer} \cup Adapters, adapter \in Adapters,
        is_read \in BOOLEAN : Start(program, adapter, is_read)
  \/ \E program \in {Dispatcher} \cup Adapters : OuterInvokes(program)
  \/ RouteToAdapter
  \/ \E adapter \in Adapters : AdapterStep(adapter)
  \/ \E protocol \in Protocols : ProtocolStep(protocol)
  \/ DispatcherReads
  \/ Ended

Spec == Init /\ [][Next]_vars

\* The runtime runs a transaction to its end: while programs are on the stack,
\* some step of the last of them follows.
FairSpec == Spec /\ WF_vars(stack # <<>> /\ Next)

-----------------------------------------------------------------------------
\* Type invariant of the call chain.
TypeOK ==
  /\ stack \in Seq(Programs)
  /\ Len(stack) <= MaxDepth
  /\ entering \in BOOLEAN
  /\ reading \in BOOLEAN
  /\ routed \in Adapters
  /\ cpis \in [Adapters -> 0..MaxCpis]
  /\ return_data \in Register
  /\ computed \in [Adapters -> Values \cup {NoValue}]
  /\ worked \in BOOLEAN
  /\ accepted \in Values \cup {NoValue}
  /\ failure \in {"none", "Unauthorized", "CpiError", "ProtocolError", "MissingReturnData"}
  /\ calls \in 0..MaxCalls

\* What the dispatcher goes on with (shares to report, USDC to forward, a value
\* to re-emit) is what the adapter it routed to computed in this very call: never
\* something a protocol left in the register, nor the answer of an adapter further
\* down the chain or of an earlier instruction.
AcceptedIsComputed == accepted # NoValue => accepted = computed[routed]

\* A call whose adapter answered is never refused for want of an answer: the
\* answer survives the adapter's own CPIs, whatever they lead to.
AnswerSurvives == failure = "MissingReturnData" => computed[routed] = NoValue

\* No adapter's work outlives its instruction unless the dispatcher routed that
\* instruction and took the answer of the adapter it routed to.  Called directly, by
\* a program that goes around the dispatcher, or by one the dispatcher was composed
\* into, an adapter either refuses or is undone.  It is not said that the program
\* that invoked the adapter is the dispatcher: verify_caller_is_dispatcher
\* compares the top-level instruction's.
NoUnroutedWork ==
  worked /\ stack = <<>> /\ failure = "none" => accepted # NoValue

\* The answer of the routed adapter arrives: once it has computed one, nothing
\* between it and the dispatcher (a further CPI, a refusal, a register emptied or
\* overwritten) keeps the dispatcher from going on with it.
AnswerArrives == \A v \in Values : computed[routed] = v ~> accepted = v

\* What current_value.rs says of itself ("Re-emits the value via
\* `set_return_data` so this instruction is itself composable for an outer
\* caller"): an adapter the dispatcher invoked accepts its caller, whoever
\* invoked the dispatcher.
ComposableForOuterCaller ==
  entering /\ Len(stack) > 1 /\ stack[Len(stack)] \in Adapters /\ Caller = Dispatcher
     => CallerAccepted
=============================================================================
