SPECIFICATION Spec
CONSTANTS
  obj = obj
  cbor = cbor
  bad = bad
  spelled = spelled
  noCid = noCid
  Cids <- MCCids
  Malformed <- MCMalformed
  Cbor <- MCCbor
  Canon <- MCCanon
  Size <- MCSize
  File <- MCFile
INVARIANTS
  TypeOK
  OnlyWholeFiles
  EachCidHasItsOutcome
PROPERTIES
  ResultIsFrozen
  TimedCallReturns
