SPECIFICATION Spec
CONSTANTS
  regular = regular
  comment = comment
  sharesComment = sharesComment
  sharesRegular = sharesRegular
  reply = reply
  s1 = s1
  s2 = s2
  ann = ann
  bob = bob
  None = None
  PostIds <- MCPostIds
  SpaceIds <- MCSpaceIds
  Accounts <- MCAccounts
  Comments <- MCComments
  Ext <- MCExt
  Creator <- MCCreator
  Genesis <- MCGenesis
  Requests <- MCRequests
  MaxUpdates = 2
INVARIANT OwnerIsTheirProfile
CHECK_DEADLOCK FALSE
