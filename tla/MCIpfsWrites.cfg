SPECIFICATION Spec
CONSTANTS
  first = first
  second = second
  third = third
  cid = cid
  NoHeaders = NoHeaders
  HeaderSets = {h1, h2}
  Calls <- MCCalls
  Cid <- MCCid
  Methods <- MCMethods
SYMMETRY Interchangeable
INVARIANTS
  TypeOK
  AnswersAreBacked
  AwaitedCallsLast
PROPERTIES
  RequestsHaveTheirHeaders
CHECK_DEADLOCK FALSE
