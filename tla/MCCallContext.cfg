CONSTANTS
  Dispatcher = Dispatcher
  a1 = a1
  a2 = a2
  q1 = q1
  q2 = q2
  Adapters <- MCAdapters
  Protocols <- MCProtocols
  MaxDepth = 5
  Outer = Outer
  Nobody = Nobody
  NoValue = NoValue
  v1 = v1
  v2 = v2
  Values <- MCValues
  MaxCpis = 2
  MaxCalls = 3
SPECIFICATION FairSpec
INVARIANTS
  AcceptedIsComputed
  AnswerSurvives
  NoUnroutedWork
PROPERTIES
  AnswerArrives
