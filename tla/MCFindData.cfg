SPECIFICATION Spec
CONSTANTS
  i1 = i1
  i2 = i2
  obj = obj
  blank = blank
  nil = nil
  spelled = spelled
  noCid = noCid
  NoneContent = NoneContent
  RawContent = RawContent
  NoStruct = NoStruct
  Undefined = Undefined
  Ids <- MCIds
  Cids <- MCCids
  File <- MCFile
  Malformed <- MCMalformed
  Canon <- MCCanon
  Cbor <- MCCbor
  Size <- MCSize
  Queries <- MCQueries
  ChainStructs <- MCChainStructs
INVARIANTS
  TypeOK
  AnswerIsGenuine
  PublicSearchIsPublic
  LoadedFilesReachTheirStructs
PROPERTIES
  KeepsItsPromise
  FindReturns
