SPECIFICATION Spec
CONSTANTS
  alice = alice
  bob = bob
  s1 = s1
  s2 = s2
  r1 = r1
  r2 = r2
  r3 = r3
  p1 = p1
  p2 = p2
  q1 = q1
  q2 = q2
  Undefined = Undefined
  Accounts <- MCAccounts
  Spaces <- MCSpaces
  Roles <- MCRoles
  SpaceOf <- MCSpaceOf
  Permissions <- MCPermissions
  Posts <- MCPosts
  Genesis <- MCGenesis
  MaxBlocks = 3
  MaxReaction = 4
  MaxReplies = 64
INVARIANTS
  TypeOK
  HoldersAreListed
  PermissionsAreOfItsRoles
  ReactionsAreTheirs
  AnswersOfOneMomentAgree
PROPERTIES
  CallEnds
CHECK_DEADLOCK FALSE
