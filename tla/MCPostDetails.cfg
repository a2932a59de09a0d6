SPECIFICATION Spec
CONSTANTS
  regular = regular
  comment = comment
  sharesComment = sharesComment
  sharesRegular = sharesRegular
  reply = reply
  s1 = s1
  s2 = s2
  ann = ann
  bob = bob
  None = None
  PostIds <- MCPostIds
  SpaceIds <- MCSpaceIds
  Accounts <- MCAccounts
  Comments <- MCComments
  Ext <- MCExt
  Creator <- MCCreator
  Genesis <- MCGenesis
  Requests <- MCRequests
  MaxUpdates = 2
INVARIANTS
  TypeOK
  OneVersionPerPost
  CommentsShowTheirThread
  UndisturbedSearchIsConsistent
PROPERTIES
  SearchEnds
\* The search ends, and the bound stops the chain.
CHECK_DEADLOCK FALSE
