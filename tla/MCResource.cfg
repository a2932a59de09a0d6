SPECIFICATION Spec
CONSTANTS
  Undefined = Undefined
  Level <- GraphLevel
  SubstrateChains <- MCSubstrateChains
  EvmChains <- MCEvmChains
  SocialApps <- MCSocialApps
  Nodes <- GraphNodes
  Fields <- GraphFields
  Values <- MCValues
  KeyName <- GraphKeyName
  IsRequired <- GraphIsRequired
  AnyChildNodeName <- GraphAnyChildNodeName
  Neighbors <- GraphNeighbors
  Inputs <- MCInputs
  Text <- MCText
INVARIANTS
  TypeOK
  EachFieldOnce
  WalkMeetsTypes
  SameIdSameResource
PROPERTIES
  WalkEnds
\* The walks of an application come to an end.
CHECK_DEADLOCK FALSE
