SPECIFICATION Spec
CONSTANTS
  c1 = c1
  c2 = c2
  c3 = c3
  c4 = c4
  c5 = c5
  main = main
  test = test
  dead = dead
  junk = junk
  NoApi = NoApi
  Calls <- MCCalls
  Urls <- MCUrls
  Url <- MCUrl
  Reachable <- MCReachable
  Refused <- MCRefused
INVARIANTS
  TypeOK
  UnitsFollowTheCache
  OnlyReadyConnections
PROPERTIES
  CacheSettles
  ReachableCallReturns
\* The calls of an application come to an end.
CHECK_DEADLOCK FALSE
