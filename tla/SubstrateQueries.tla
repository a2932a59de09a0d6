-------------------------- MODULE SubstrateQueries --------------------------
(***************************************************************************)
(* Queries of SubsocialSubstrateApi (substrate/index.ts) that read the     *)
(* chain twice, and single reads that must agree with one another.         *)
(*                                                                         *)
(* Three kinds of calls read ids first and then what the ids lead to:      *)
(*   "accounts"     getAccountsWithAnyRoleInSpace                          *)
(*   "permissions"  getSpacePermissionsByAccount                           *)
(*   "reactions"    getPostReactionIdsByAccount, and findReactions of what *)
(*                  it answers                                             *)
(* Blocks are made at any moment, so the two reads may see two states.     *)
(* Calls share no state: one is enough.                                    *)
(***************************************************************************)
EXTENDS StorageLength, Sequences, FiniteSets

CONSTANTS Accounts,
          Spaces,       \* a space is a user of roles, too
          Roles,        \* role ids; none is given away twice
          SpaceOf,      \* SpaceOf[r]: the space of role r
          Permissions,
          Posts,
          Genesis,      \* the blocks to begin with
          MaxBlocks,    \* bound: how many blocks a behaviour has
          MaxReaction,  \* bound: the last reaction id
          MaxReplies,   \* bound: the length of a list of replies
          Undefined

Users == Accounts \cup Spaces
Keys == Accounts \X Posts

(* The storage that these queries read.                                    *)
Block ==
  [ permissions : [Roles -> SUBSET Permissions],  \* roleById; {} for no role,
    deleted : SUBSET Roles,                       \* as a role has a permission
    users : [Roles -> SUBSET Users],              \* usersByRoleId
    follows : SUBSET (Accounts \X Accounts),   \* who follows whom
    spaceFollows : SUBSET (Accounts \X Spaces),
    reaction : [Keys -> 0..MaxReaction],       \* 0 where there is none
    nextReaction : 1..(MaxReaction + 1),
    replies : 0..MaxReplies ]                  \* of one post

Live(b) == { r \in Roles : b.permissions[r] # {} }

(* What the pallets maintain.                                              *)
Sound(b) ==
  /\ \A r \in Roles \ Live(b) : b.users[r] = {}
  /\ \A k \in Keys : b.reaction[k] < b.nextReaction
  /\ \A k, l \in Keys : b.reaction[k] = b.reaction[l] => k = l \/ b.reaction[k] = 0

ASSUME QueriesAssumption ==
  /\ IsFiniteSet(Accounts) /\ IsFiniteSet(Spaces) /\ IsFiniteSet(Roles)
  /\ SpaceOf \in [Roles -> Spaces]
  /\ Undefined \notin Permissions
  /\ MaxBlocks \in Nat /\ MaxReaction \in Nat /\ MaxReplies \in Nat
  /\ Genesis \subseteq Block
  /\ \A b \in Genesis : Sound(b)

VARIABLES chain,   \* the blocks so far
          call,    \* the kind, the account and the space of the call
          stage,   \* "asked", "read" (the ids are there), "done" or "rejected"
          ids,     \* role ids or reaction ids
          first,   \* the height at which they were read
          second,  \* the height of the other read
          answer,
          failed   \* whether a query failed

vars == <<chain, call, stage, ids, first, second, answer, failed>>

Calls == [kind : {"accounts", "permissions", "reactions"},
          account : Accounts, space : Spaces]
----------------------------------------------------------------------------
(* The transactions: what a block may be followed by.                      *)
CreateOrUpdateRole(b) ==
  { [b EXCEPT !.permissions[r] = ps] :
      r \in Roles \ b.deleted, ps \in (SUBSET Permissions) \ {{}} }

GrantRole(b) == { [b EXCEPT !.users[r] = @ \cup {u}] : r \in Live(b), u \in Users }
RevokeRole(b) == { [b EXCEPT !.users[r] = @ \ {u}] : r \in Live(b), u \in Users }

DeleteRole(b) ==
  { [b EXCEPT !.permissions[r] = {}, !.deleted = @ \cup {r}, !.users[r] = {}] : r \in Live(b) }

FollowOrUnfollow(b) ==
  { [b EXCEPT !.follows = fs] :
      fs \in { b.follows \cup {f} : f \in Accounts \X Accounts }
            \cup { b.follows \ {f} : f \in b.follows } }
  \cup
  { [b EXCEPT !.spaceFollows = fs] :
      fs \in { b.spaceFollows \cup {f} : f \in Accounts \X Spaces }
            \cup { b.spaceFollows \ {f} : f \in b.spaceFollows } }

CreatePostReaction(b) ==
  { [b EXCEPT !.reaction[k] = b.nextReaction, !.nextReaction = @ + 1] :
      k \in { l \in Keys : b.reaction[l] = 0 /\ b.nextReaction <= MaxReaction } }

DeletePostReaction(b) == { [b EXCEPT !.reaction[k] = 0] : k \in Keys }

CreateReply(b) == { [b EXCEPT !.replies = n] : n \in {b.replies + 1} \cap 0..MaxReplies }

RoleChanges(b) == CreateOrUpdateRole(b) \cup GrantRole(b) \cup RevokeRole(b)
                  \cup DeleteRole(b)
PostChanges(b) == CreatePostReaction(b) \cup DeletePostReaction(b) \cup CreateReply(b)
----------------------------------------------------------------------------
(* Single reads.                                                           *)
Holds(b, u, r) == r \in Live(b) /\ u \in b.users[r]

IsAccountFollower(b, my, followed) == <<my, followed>> \in b.follows
IsSpaceFollower(b, my, s) == <<my, s>> \in b.spaceFollows
SpaceIdsFollowedByAccount(b, a) == { s \in Spaces : <<a, s>> \in b.spaceFollows }
GetSpaceIdsWithRolesByAccount(b, a) == { SpaceOf[r] : r \in { q \in Roles : Holds(b, a, q) } }

AccountFollowersCount(b, a) ==
  CountOf(Cardinality({ x \in Accounts : <<x, a>> \in b.follows }), ACCOUNT32_BYTES_SIZE)

AccountsFollowedCount(b, a) ==
  CountOf(Cardinality({ x \in Accounts : <<a, x>> \in b.follows }), ACCOUNT32_BYTES_SIZE)

RepliesCount(b) == CountOf(b.replies, U64_BYTES_SIZE)
----------------------------------------------------------------------------
(* The first read of a call.                                               *)
RoleIdsInSpace(b, s) == { r \in Live(b) : SpaceOf[r] = s }

(* Defect: every role of the space is taken for one of the user.           *)
AnyRoleIdsByUser(b, u, s) == RoleIdsInSpace(b, s)

RoleIdsByUser(b, u, s) == { r \in Roles : Holds(b, u, r) /\ SpaceOf[r] = s }

(* Defect: reactionIdsByPostId, whoever reacted.                           *)
AnyReactionIds(b, a) == { b.reaction[k] : k \in Keys }

(* One id for every post; it is 0, not absent, where there is no reaction. *)
ReactionIdsByAccount(b, a) == { b.reaction[<<a, p>>] : p \in Posts }

IdsOf(b) ==
  CASE call.kind = "accounts" -> RoleIdsInSpace(b, call.space)
    [] call.kind = "permissions" -> RoleIdsByUser(b, call.account, call.space)
    [] call.kind = "reactions" -> ReactionIdsByAccount(b, call.account)

(* The second read.  An account is listed once for each of its roles.      *)
AccountsOf(b, roles) == [a \in Accounts |-> Cardinality({ r \in roles : a \in b.users[r] })]

(* Defect: what a role that is gone maps to is kept.                       *)
PermissionsOrNone(b, roles) ==
  UNION { IF r \in Live(b) THEN b.permissions[r] ELSE {Undefined} : r \in roles }

(* getUniqueIds drops the undefined that a role which is gone maps to.     *)
PermissionsOf(b, roles) == UNION { b.permissions[r] : r \in roles }

(* findReactions: the ids that lead to no reaction, 0 among them, drop out. *)
ReactionsOf(b, reactions) ==
  { i \in reactions \ {0} : \E k \in Keys : b.reaction[k] = i }

AnswerOf(b, read) ==
  CASE call.kind = "accounts" -> AccountsOf(b, read)
    [] call.kind = "permissions" -> PermissionsOf(b, read)
    [] call.kind = "reactions" -> ReactionsOf(b, read)
----------------------------------------------------------------------------
Height == Len(chain)
Best == chain[Height]

Init ==
  /\ \E b \in Genesis : chain = <<b>>
  /\ call \in Calls
  /\ stage = "asked"
  /\ ids = {}
  /\ first = 0
  /\ second = 0
  /\ answer = Undefined
  /\ failed = FALSE

NewBlock(changes) ==
  /\ Height < MaxBlocks
  /\ \E b \in changes : b # Best /\ chain' = Append(chain, b)
  /\ UNCHANGED <<call, stage, ids, first, second, answer, failed>>

ReadIds ==
  /\ stage = "asked"
  /\ ids' = IdsOf(Best)
  /\ first' = Height
  /\ stage' = "read"
  /\ UNCHANGED <<chain, call, second, answer, failed>>

(* Nothing catches a query for ids that fails: the call rejects.           *)
ReadIdsFails ==
  /\ stage = "asked"
  /\ stage' = "rejected"
  /\ failed' = TRUE
  /\ UNCHANGED <<chain, call, ids, first, second, answer>>

(* Defect: the answer is of the block that the ids were read at.           *)
ReadRestAtFirst ==
  /\ stage = "read"
  /\ answer' = AnswerOf(chain[first], ids)
  /\ second' = Height
  /\ stage' = "done"
  /\ UNCHANGED <<chain, call, ids, first, failed>>

(* Defect: a call without ids waits for its second read.                   *)
ReadRestIfAny ==
  /\ stage = "read" /\ ids # {}
  /\ answer' = AnswerOf(Best, ids)
  /\ second' = Height
  /\ stage' = "done"
  /\ UNCHANGED <<chain, call, ids, first, failed>>

ReadRest ==
  /\ stage = "read"
  /\ answer' = AnswerOf(Best, ids)
  /\ second' = Height
  /\ stage' = "done"
  /\ UNCHANGED <<chain, call, ids, first, failed>>

(* findStructs answers [] in place of the error; the others reject.        *)
ReadRestFails ==
  /\ stage = "read"
  /\ IF call.kind = "reactions"
       THEN answer' = {} /\ stage' = "done"
       ELSE stage' = "rejected" /\ UNCHANGED answer
  /\ second' = Height
  /\ failed' = TRUE
  /\ UNCHANGED <<chain, call, ids, first>>

Answers == ReadIds \/ ReadRest

Next ==
  \/ NewBlock(RoleChanges(Best)) \/ NewBlock(FollowOrUnfollow(Best)) \/ NewBlock(PostChanges(Best))
  \/ Answers
  \/ ReadIdsFails \/ ReadRestFails

(* The node answers a query, unless it fails it first.                     *)
Spec == Init /\ [][Next]_vars /\ WF_vars(Answers)
----------------------------------------------------------------------------
IdsTypeOK ==
  IF call.kind = "reactions" THEN ids \subseteq 0..MaxReaction ELSE ids \subseteq Roles

AnswerTypeOK ==
  CASE call.kind = "accounts" -> answer \in [Accounts -> Nat]
    [] call.kind = "permissions" -> answer \subseteq Permissions
    [] call.kind = "reactions" -> answer \subseteq 1..MaxReaction

TypeOK ==
  /\ chain \in Seq(Block) /\ chain # <<>>
  /\ call \in Calls
  /\ stage \in {"asked", "read", "done", "rejected"}
  /\ IdsTypeOK
  /\ first \in 0..Height /\ second \in 0..Height
  /\ IF stage = "done" THEN AnswerTypeOK ELSE answer = Undefined
  /\ failed \in BOOLEAN

Answered(kind) == stage = "done" /\ call.kind = kind
Meanwhile == first..second

(* However roles come and go between the reads, who held a role of the     *)
(* space throughout is listed, once for each such role, and nobody is      *)
(* listed for more roles than those held when the answer is given.         *)
HoldersAreListed ==
  Answered("accounts") =>
    LET RolesOf(a, heights) == { r \in Roles : /\ SpaceOf[r] = call.space
                                               /\ \A i \in heights : Holds(chain[i], a, r) }
    IN  \A a \in Accounts :
          /\ answer[a] >= Cardinality(RolesOf(a, Meanwhile))
          /\ answer[a] <= Cardinality(RolesOf(a, {second}))

(* A permission that one role of the account carried throughout is         *)
(* answered; one that is answered is carried, when the answer is given, by *)
(* a role that the account held when it asked.                             *)
PermissionsAreOfItsRoles ==
  Answered("permissions") =>
    LET Carried(r, p, i) == p \in chain[i].permissions[r]
        Held(r, i) == Holds(chain[i], call.account, r) /\ SpaceOf[r] = call.space
    IN  /\ \A r \in Roles, p \in Permissions :
             (\A i \in Meanwhile : Held(r, i) /\ Carried(r, p, i)) => p \in answer
        /\ \A p \in answer : \E r \in Roles : Held(r, first) /\ Carried(r, p, second)

(* Stronger, and not so: what is answered was at some moment held (550-553 *)
(* of substrate/index.ts: "space permissions owned by a given accountId"). *)
PermissionsWereHeld ==
  Answered("permissions") =>
    \A p \in answer : \E i \in Meanwhile, r \in Roles :
      /\ Holds(chain[i], call.account, r) /\ SpaceOf[r] = call.space
      /\ p \in chain[i].permissions[r]

(* Each reaction found is one of the account, on a post that it reacted    *)
(* to, and is the one it had when the ids were read: an id is never that   *)
(* of a later reaction, or of none.  Unless a query failed, a reaction     *)
(* that was there throughout is found.                                     *)
ReactionsAreTheirs ==
  Answered("reactions") =>
    LET Of(i, h) == { p \in Posts : chain[h].reaction[<<call.account, p>>] = i }
    IN  /\ \A i \in answer : i # 0 /\ Of(i, first) # {} /\ Of(i, second) = Of(i, first)
        /\ ~ failed => \A i \in 1..MaxReaction :
                         (\A h \in Meanwhile : Of(i, h) # {}) => i \in answer

(* The lists, the counts and the yes-or-no queries of one moment say the   *)
(* same, though one counts bytes and another forms a key.                  *)
AnswersOfOneMomentAgree ==
  /\ RepliesCount(Best) = Best.replies
  /\ \A a \in Accounts :
       /\ AccountFollowersCount(Best, a)
            = Cardinality({ x \in Accounts : IsAccountFollower(Best, x, a) })
       /\ AccountsFollowedCount(Best, a)
            = Cardinality({ x \in Accounts : IsAccountFollower(Best, a, x) })
       /\ \A s \in Spaces :
            /\ IsSpaceFollower(Best, a, s) <=> s \in SpaceIdsFollowedByAccount(Best, a)
            /\ s \in GetSpaceIdsWithRolesByAccount(Best, a) <=> RoleIdsByUser(Best, a, s) # {}

(* A call comes to an end, whether or not there is anything to read.       *)
CallEnds == stage = "asked" ~> stage \in {"done", "rejected"}
=============================================================================
