---------------------- MODULE SubstrateQueries_proofs ----------------------
(***************************************************************************)
(* Theorems about SubstrateQueries and StorageLength, for any accounts,    *)
(* roles, posts and lengths, and for any number of blocks.                 *)
(***************************************************************************)
EXTENDS SubstrateQueries, FiniteSetTheorems, TLAPS

(* Only ids that were not given before are given.                          *)
MayFollow(b, c) ==
  /\ b.nextReaction <= c.nextReaction
  /\ \A k \in Keys : c.reaction[k] \in {0, b.reaction[k], b.nextReaction}

(* A reaction never passes from one account and post to another.           *)
IdsStay ==
  \A i, j \in 1..Height : i <= j =>
    /\ chain[i].nextReaction <= chain[j].nextReaction
    /\ \A k, l \in Keys :
         chain[i].reaction[k] = chain[j].reaction[l] => k = l \/ chain[i].reaction[k] = 0

ReadAsItWas ==
  /\ stage = "asked" => ids = {}
  /\ stage \in {"read", "done"} => first \in 1..Height /\ ids = IdsOf(chain[first])
  /\ stage \in {"asked", "read"} => ~ failed
  /\ stage = "done" =>
       /\ second \in first..Height
       /\ ~ failed => answer = AnswerOf(chain[second], ids)
       /\ failed => call.kind = "reactions" /\ answer = {}

IInv ==
  /\ TypeOK
  /\ \A i \in 1..Height : Sound(chain[i])
  /\ IdsStay
  /\ ReadAsItWas

----------------------------------------------------------------------------
(* The number of bytes less one, divided by the size of an item, is the    *)
(* number of items: the prefix is at most as long as an item.              *)
THEOREM CountIsExact ==
  ASSUME NEW n \in Nat, NEW size \in {U64_BYTES_SIZE, ACCOUNT32_BYTES_SIZE}
  PROVE  CountOf(n, size) = n
<1>1. PrefixSize(n) \in {1, 2, 4}
  BY DEF PrefixSize
<1>2. CASE n = 0
  BY <1>2 DEF CountOf, StorageSize, GetStorageLength, Divn, U64_BYTES_SIZE, ACCOUNT32_BYTES_SIZE
<1>3. CASE n # 0 /\ size = 8
  <2>1. CountOf(n, size) = (PrefixSize(n) + n * 8 - 1) \div 8
    BY <1>1, <1>3 DEF CountOf, StorageSize, GetStorageLength, Divn
  <2> QED BY <1>1, <1>3, <2>1
<1>4. CASE n # 0 /\ size = 32
  <2>1. CountOf(n, size) = (PrefixSize(n) + n * 32 - 1) \div 32
    BY <1>1, <1>4 DEF CountOf, StorageSize, GetStorageLength, Divn
  <2> QED BY <1>1, <1>4, <2>1
<1> QED BY <1>2, <1>3, <1>4 DEF U64_BYTES_SIZE, ACCOUNT32_BYTES_SIZE

LEMMA BlockNumbers ==
  ASSUME NEW b \in Block
  PROVE  b.nextReaction \in Nat \ {0} /\ \A k \in Keys : b.reaction[k] \in Nat
BY QueriesAssumption DEF Block

LEMMA RoleChangesAreSound ==
  ASSUME NEW b \in Block, Sound(b), NEW c \in RoleChanges(b)
  PROVE  c \in Block /\ Sound(c) /\ MayFollow(b, c)
<1>1. CASE c \in CreateOrUpdateRole(b)
  <2>1. PICK r \in Roles, ps \in (SUBSET Permissions) \ {{}} : c = [b EXCEPT !.permissions[r] = ps]
    BY <1>1 DEF CreateOrUpdateRole
  <2> QED BY <2>1 DEF Block, Sound, MayFollow, Live
<1>2. CASE c \in GrantRole(b)
  <2>1. PICK r \in Live(b), u \in Users : c = [b EXCEPT !.users[r] = @ \cup {u}]
    BY <1>2 DEF GrantRole
  <2> QED BY <2>1 DEF Block, Sound, MayFollow, Live
<1>3. CASE c \in RevokeRole(b)
  <2>1. PICK r \in Live(b), u \in Users : c = [b EXCEPT !.users[r] = @ \ {u}]
    BY <1>3 DEF RevokeRole
  <2> QED BY <2>1 DEF Block, Sound, MayFollow, Live
<1>4. CASE c \in DeleteRole(b)
  <2>1. PICK r \in Live(b) :
          c = [b EXCEPT !.permissions[r] = {}, !.deleted = @ \cup {r}, !.users[r] = {}]
    BY <1>4 DEF DeleteRole
  <2>2. /\ c.permissions = [b.permissions EXCEPT ![r] = {}]
        /\ c.deleted = b.deleted \cup {r}
        /\ c.users = [b.users EXCEPT ![r] = {}]
        /\ c.reaction = b.reaction /\ c.nextReaction = b.nextReaction
    BY <2>1 DEF Block
  <2>3. /\ c.permissions \in [Roles -> SUBSET Permissions] /\ c.deleted \subseteq Roles
        /\ c.users \in [Roles -> SUBSET Users]
    BY <2>1, <2>2 DEF Block, Live
  <2>4. c = [b EXCEPT !.permissions = c.permissions, !.deleted = c.deleted, !.users = c.users]
    BY <2>1, <2>2 DEF Block
  <2>5. c \in Block
    BY <2>3, <2>4 DEF Block
  <2> QED BY <2>2, <2>5 DEF Sound, MayFollow, Block, Live
<1> QED BY <1>1, <1>2, <1>3, <1>4 DEF RoleChanges

LEMMA FollowsAreSound ==
  ASSUME NEW b \in Block, Sound(b), NEW c \in FollowOrUnfollow(b)
  PROVE  c \in Block /\ Sound(c) /\ MayFollow(b, c)
<1>1. CASE \E fs \in SUBSET (Accounts \X Accounts) : c = [b EXCEPT !.follows = fs]
  BY <1>1 DEF Block, Sound, MayFollow, Live
<1>2. CASE \E fs \in SUBSET (Accounts \X Spaces) : c = [b EXCEPT !.spaceFollows = fs]
  BY <1>2 DEF Block, Sound, MayFollow, Live
<1>3. b.follows \subseteq Accounts \X Accounts /\ b.spaceFollows \subseteq Accounts \X Spaces
  BY DEF Block
<1>4. PICK fs :
        \/ c = [b EXCEPT !.follows = fs]
           /\ fs \in { b.follows \cup {f} : f \in Accounts \X Accounts }
                    \cup { b.follows \ {f} : f \in b.follows }
        \/ c = [b EXCEPT !.spaceFollows = fs]
           /\ fs \in { b.spaceFollows \cup {f} : f \in Accounts \X Spaces }
                    \cup { b.spaceFollows \ {f} : f \in b.spaceFollows }
  BY Zenon DEF FollowOrUnfollow
<1>5. \/ c = [b EXCEPT !.follows = fs] /\ fs \in SUBSET (Accounts \X Accounts)
      \/ c = [b EXCEPT !.spaceFollows = fs] /\ fs \in SUBSET (Accounts \X Spaces)
  BY <1>3, <1>4
<1> QED BY <1>1, <1>2, <1>5

LEMMA PostChangesAreSound ==
  ASSUME NEW b \in Block, Sound(b), NEW c \in PostChanges(b)
  PROVE  c \in Block /\ Sound(c) /\ MayFollow(b, c)
<1>1. CASE c \in CreatePostReaction(b)
  <2>1. PICK k \in Keys : /\ b.reaction[k] = 0 /\ b.nextReaction <= MaxReaction
                          /\ c = [b EXCEPT !.reaction[k] = b.nextReaction, !.nextReaction = @ + 1]
    BY <1>1 DEF CreatePostReaction
  <2>2. /\ c.permissions = b.permissions /\ c.users = b.users
        /\ c.nextReaction = b.nextReaction + 1
        /\ c.reaction = [b.reaction EXCEPT ![k] = b.nextReaction]
    BY <2>1 DEF Block
  <2>3. c \in Block
    <3>1. b.nextReaction \in 0..MaxReaction /\ b.nextReaction + 1 \in 1..(MaxReaction + 1)
      BY <2>1, QueriesAssumption DEF Block
    <3>2. c.reaction \in [Keys -> 0..MaxReaction] /\ c.nextReaction \in 1..(MaxReaction + 1)
      BY <2>2, <3>1 DEF Block
    <3>3. c = [b EXCEPT !.reaction = c.reaction, !.nextReaction = c.nextReaction]
      BY <2>1, <2>2 DEF Block
    <3> QED BY <3>2, <3>3 DEF Block
  <2> QED BY <2>1, <2>2, <2>3, QueriesAssumption DEF Block, Sound, MayFollow, Live
<1>2. CASE c \in DeletePostReaction(b)
  <2>1. PICK k \in Keys : c = [b EXCEPT !.reaction[k] = 0]
    BY <1>2 DEF DeletePostReaction
  <2>2. /\ c.permissions = b.permissions /\ c.users = b.users /\ c.nextReaction = b.nextReaction
        /\ c.reaction = [b.reaction EXCEPT ![k] = 0]
    BY <2>1 DEF Block
  <2>3. c \in Block
    BY <2>1, <2>2, QueriesAssumption DEF Block
  <2>4. b.nextReaction \in Nat \ {0} /\ \A l \in Keys : c.reaction[l] \in {0, b.reaction[l]}
    BY <2>2 DEF Block
  <2>5. \A l \in Keys : c.reaction[l] # 0 => c.reaction[l] = b.reaction[l]
    BY <2>4
  <2>6. Sound(c)
    BY <2>2, <2>4, <2>5 DEF Sound, Live
  <2> QED BY <2>2, <2>3, <2>4, <2>6 DEF MayFollow
<1>3. CASE c \in CreateReply(b)
  <2>1. PICK n \in 0..MaxReplies : c = [b EXCEPT !.replies = n]
    BY <1>3 DEF CreateReply
  <2> QED BY <2>1, QueriesAssumption DEF Block, Sound, MayFollow, Live
<1> QED BY <1>1, <1>2, <1>3 DEF PostChanges

----------------------------------------------------------------------------
LEMMA IdsAreTyped ==
  ASSUME TypeOK, NEW i \in 1..Height
  PROVE  IF call.kind = "reactions" THEN IdsOf(chain[i]) \subseteq 0..MaxReaction
                                    ELSE IdsOf(chain[i]) \subseteq Roles
<1>1. chain[i] \in Block /\ call \in Calls
  BY DEF TypeOK, Height
<1>2. call.kind \in {"accounts", "permissions", "reactions"} /\ call.account \in Accounts
  BY <1>1 DEF Calls
<1>3. CASE call.kind = "reactions"
  BY <1>1, <1>2, <1>3 DEF IdsOf, ReactionIdsByAccount, Block, Keys
<1>4. CASE call.kind # "reactions"
  BY <1>2, <1>4 DEF IdsOf, RoleIdsInSpace, RoleIdsByUser, Live, Holds
<1> QED BY <1>3, <1>4

LEMMA AnswerIsTyped ==
  ASSUME TypeOK, NEW i \in 1..Height,
         stage' = "done", call' = call, answer' = AnswerOf(chain[i], ids)
  PROVE  AnswerTypeOK'
<1>1. chain[i] \in Block /\ call \in Calls
  BY DEF TypeOK, Height
<1>2. call.kind \in {"accounts", "permissions", "reactions"}
  BY <1>1 DEF Calls
<1>3. CASE call.kind = "accounts"
  <2>1. ids \in SUBSET Roles /\ IsFiniteSet(Roles)
    BY <1>3, QueriesAssumption DEF TypeOK, IdsTypeOK
  <2>2. ASSUME NEW a \in Accounts
        PROVE  Cardinality({ r \in ids : a \in chain[i].users[r] }) \in Nat
    BY <2>1, FS_Subset, FS_CardinalityType
  <2>3. answer' = [a \in Accounts |-> Cardinality({ r \in ids : a \in chain[i].users[r] })]
    BY <1>3 DEF AnswerOf, AccountsOf
  <2> QED BY <1>3, <2>2, <2>3 DEF AnswerTypeOK
<1>4. CASE call.kind = "permissions"
  <2>1. ids \in SUBSET Roles
    BY <1>4 DEF TypeOK, IdsTypeOK
  <2>2. answer' = UNION { chain[i].permissions[r] : r \in ids }
    BY <1>4 DEF AnswerOf, PermissionsOf
  <2> QED BY <1>1, <1>4, <2>1, <2>2 DEF AnswerTypeOK, Block
<1>5. CASE call.kind = "reactions"
  <2>1. ids \in SUBSET (0..MaxReaction)
    BY <1>5 DEF TypeOK, IdsTypeOK
  <2>2. answer' \subseteq ids \ {0}
    BY <1>5 DEF AnswerOf, ReactionsOf
  <2> QED BY <1>5, <2>1, <2>2, QueriesAssumption DEF AnswerTypeOK
<1> QED BY <1>2, <1>3, <1>4, <1>5

LEMMA InitIInv == Init => IInv
<1> SUFFICES ASSUME Init PROVE IInv
  OBVIOUS
<1>1. PICK b \in Genesis : chain = <<b>>
  BY DEF Init
<1>2. b \in Block /\ Sound(b)
  BY QueriesAssumption
<1>3. Height = 1 /\ chain[1] = b /\ chain \in Seq(Block) /\ chain # <<>>
  BY <1>1, <1>2 DEF Height
<1>4. TypeOK
  <2>1. first \in 0..Height /\ second \in 0..Height /\ IdsTypeOK
    BY <1>3 DEF Init, IdsTypeOK
  <2> QED BY <1>3, <2>1 DEF Init, TypeOK
<1>5. IdsStay
  BY <1>2, <1>3 DEF IdsStay, Sound, Block
<1>6. ReadAsItWas
  BY DEF Init, ReadAsItWas
<1> QED BY <1>2, <1>3, <1>4, <1>5, <1>6 DEF IInv

(* The blocks of a longer chain are the old ones and what may follow.      *)
LEMMA NewBlockKeepsIInv ==
  ASSUME IInv, NEW b \in Block, Sound(b), MayFollow(Best, b), chain' = Append(chain, b),
         UNCHANGED <<call, stage, ids, first, second, answer, failed>>
  PROVE  IInv'
<1>1. /\ chain \in Seq(Block) /\ Height \in Nat \ {0} /\ Height = Len(chain)
      /\ Height' = Height + 1 /\ chain' \in Seq(Block) /\ chain' # <<>>
      /\ chain'[Height + 1] = b /\ \A i \in 1..Height : chain'[i] = chain[i]
  BY DEF IInv, TypeOK, Height
<1>2. TypeOK'
  <2>1. first' \in 0..Height' /\ second' \in 0..Height'
    BY <1>1 DEF IInv, TypeOK
  <2>2. IdsTypeOK' /\ (stage' = "done" => AnswerTypeOK')
    BY DEF IInv, TypeOK, IdsTypeOK, AnswerTypeOK
  <2> QED BY <1>1, <2>1, <2>2 DEF IInv, TypeOK
<1>3. \A i \in 1..Height' : i \in 1..Height \/ i = Height + 1
  BY <1>1
<1>4. (\A i \in 1..Height : Sound(chain[i]))'
  BY <1>1, <1>3 DEF IInv
<1>5. IdsStay'
  <2> SUFFICES ASSUME NEW i \in 1..Height', NEW j \in 1..Height', i <= j
               PROVE  /\ chain'[i].nextReaction <= chain'[j].nextReaction
                      /\ \A k, l \in Keys : chain'[i].reaction[k] = chain'[j].reaction[l]
                           => k = l \/ chain'[i].reaction[k] = 0
    BY DEF IdsStay
  <2>1. CASE j \in 1..Height
    BY <1>1, <1>3, <2>1 DEF IInv, IdsStay
  <2>2. CASE i = Height + 1
    <3>1. j = Height + 1
      BY <1>1, <1>3, <2>2
    <3> QED BY <1>1, <2>2, <3>1 DEF Sound, Block
  <2>3. CASE i \in 1..Height /\ j = Height + 1
    <3>1. /\ chain'[i] = chain[i] /\ chain[i] \in Block /\ Sound(chain[i])
          /\ Best \in Block /\ Best = chain[Height] /\ Height \in 1..Height /\ i <= Height
      BY <1>1, <2>3 DEF IInv, Best
    <3>2. /\ chain[i].nextReaction <= Best.nextReaction
          /\ \A k, l \in Keys : chain[i].reaction[k] = Best.reaction[l]
               => k = l \/ chain[i].reaction[k] = 0
      BY <2>3, <3>1 DEF IInv, IdsStay
    <3>3. chain[i].nextReaction <= b.nextReaction
      BY <3>1, <3>2 DEF MayFollow, Block
    <3>4. ASSUME NEW k \in Keys, NEW l \in Keys, chain[i].reaction[k] = b.reaction[l],
                 chain[i].reaction[k] # 0
          PROVE  k = l
      <4>1. chain[i].reaction[k] \in Nat /\ chain[i].reaction[k] < Best.nextReaction
        <5>1. /\ chain[i].reaction[k] \in Nat
              /\ chain[i].nextReaction \in Nat /\ Best.nextReaction \in Nat
          BY <3>1, BlockNumbers
        <5>2. chain[i].reaction[k] < chain[i].nextReaction
          BY <3>1 DEF Sound
        <5> QED BY <3>2, <5>1, <5>2
      <4>2. b.reaction[l] = Best.reaction[l]
        BY <3>4, <4>1 DEF MayFollow
      <4> QED BY <3>2, <3>4, <4>2
    <3> QED BY <1>1, <2>3, <3>1, <3>3, <3>4
  <2> QED BY <1>3, <2>1, <2>2, <2>3
<1>6. ReadAsItWas'
  <2>1. stage \in {"read", "done"} =>
          first \in 1..Height' /\ ids = IdsOf(chain[first]) /\ chain'[first] = chain[first]
    BY <1>1 DEF IInv, ReadAsItWas
  <2>2. stage = "done" => second \in first..Height' /\ chain'[second] = chain[second]
    BY <1>1, <2>1 DEF IInv, ReadAsItWas
  <2>3. \A c : IdsOf(c)' = IdsOf(c) /\ AnswerOf(c, ids)' = AnswerOf(c, ids)
    BY DEF IdsOf, AnswerOf
  <2> QED BY <2>1, <2>2, <2>3 DEF IInv, ReadAsItWas
<1> QED BY <1>2, <1>4, <1>5, <1>6 DEF IInv

LEMMA StepKeepsIInv ==
  ASSUME IInv, [Next]_vars PROVE IInv'
<1>1. /\ TypeOK /\ IdsStay /\ ReadAsItWas
      /\ Height \in Nat \ {0} /\ Best = chain[Height] /\ Best \in Block /\ Sound(Best)
  BY DEF IInv, TypeOK, Height, Best
<1>2. ASSUME chain' = chain, call' = call, TypeOK', ReadAsItWas' PROVE IInv'
  <2>1. Height' = Height /\ IdsStay'
    BY <1>1, <1>2 DEF Height, IdsStay
  <2> QED BY <1>2, <2>1 DEF IInv
<1>3. ASSUME chain' = chain, call' = call
      PROVE  /\ Height' = Height
             /\ \A c, read : IdsOf(c)' = IdsOf(c) /\ AnswerOf(c, read)' = AnswerOf(c, read)
  BY <1>3 DEF Height, IdsOf, AnswerOf
<1>4. CASE UNCHANGED vars
  <2>1. IdsTypeOK' /\ (stage' = "done" => AnswerTypeOK')
    BY <1>1, <1>4 DEF vars, TypeOK, IdsTypeOK, AnswerTypeOK
  <2>2. TypeOK'
    BY <1>1, <1>3, <1>4, <2>1 DEF vars, TypeOK
  <2>3. ReadAsItWas'
    BY <1>1, <1>3, <1>4 DEF vars, ReadAsItWas
  <2> QED BY <1>2, <1>4, <2>2, <2>3 DEF vars
<1>5. CASE \/ NewBlock(RoleChanges(Best)) \/ NewBlock(FollowOrUnfollow(Best))
           \/ NewBlock(PostChanges(Best))
  <2>1. PICK b \in RoleChanges(Best) \cup FollowOrUnfollow(Best) \cup PostChanges(Best) :
          /\ chain' = Append(chain, b)
          /\ UNCHANGED <<call, stage, ids, first, second, answer, failed>>
    BY <1>5, Zenon DEF NewBlock
  <2>2. b \in Block /\ Sound(b) /\ MayFollow(Best, b)
    BY <1>1, <2>1, RoleChangesAreSound, FollowsAreSound, PostChangesAreSound
  <2> QED BY <2>1, <2>2, NewBlockKeepsIInv
<1>6. CASE ReadIds
  <2>1. /\ first' = Height /\ first' \in 1..Height /\ first' \in 0..Height /\ ids' = IdsOf(chain[first'])
        /\ stage = "asked" /\ stage' = "read" /\ second' = second
        /\ failed' = failed /\ answer' = answer /\ chain' = chain /\ call' = call
    BY <1>1, <1>6 DEF ReadIds
  <2>2. IdsTypeOK'
    BY <1>1, <2>1, IdsAreTyped DEF IdsTypeOK
  <2>3. TypeOK'
    BY <1>1, <1>3, <2>1, <2>2 DEF TypeOK
  <2>4. ReadAsItWas'
    BY <1>1, <1>3, <2>1 DEF ReadAsItWas
  <2> QED BY <1>2, <2>1, <2>3, <2>4
<1>7. CASE ReadRest
  <2>1. /\ second' = Height /\ second' \in 0..Height /\ answer' = AnswerOf(chain[Height], ids)
        /\ first' = first /\ ids' = ids /\ stage = "read" /\ stage' = "done" /\ failed' = failed
        /\ chain' = chain /\ call' = call
    BY <1>1, <1>7 DEF ReadRest
  <2>2. IdsTypeOK' /\ AnswerTypeOK'
    <3>1. IdsTypeOK'
      BY <1>1, <2>1 DEF TypeOK, IdsTypeOK
    <3>2. Height \in 1..Height
      BY <1>1
    <3> QED BY <1>1, <2>1, <3>1, <3>2, AnswerIsTyped
  <2>3. TypeOK'
    BY <1>1, <1>3, <2>1, <2>2 DEF TypeOK
  <2>4. ReadAsItWas'
    BY <1>1, <1>3, <2>1 DEF ReadAsItWas
  <2> QED BY <1>2, <2>1, <2>3, <2>4
<1>8. CASE ReadIdsFails
  <2>1. TypeOK'
    BY <1>1, <1>3, <1>8 DEF ReadIdsFails, TypeOK, IdsTypeOK
  <2>2. ReadAsItWas'
    BY <1>8 DEF ReadIdsFails, ReadAsItWas
  <2> QED BY <1>2, <1>8, <2>1, <2>2 DEF ReadIdsFails
<1>9. CASE ReadRestFails
  <2>1. /\ chain' = chain /\ call' = call /\ ids' = ids /\ first' = first /\ stage = "read"
        /\ second' = Height /\ second' \in 0..Height /\ failed' = TRUE
        /\ \/ call.kind = "reactions" /\ answer' = {} /\ stage' = "done"
           \/ stage' = "rejected" /\ answer' = answer
    BY <1>1, <1>9 DEF ReadRestFails
  <2>2. IdsTypeOK' /\ (stage' = "done" => AnswerTypeOK')
    BY <1>1, <2>1 DEF TypeOK, IdsTypeOK, AnswerTypeOK
  <2>3. TypeOK'
    BY <1>1, <1>3, <2>1, <2>2 DEF TypeOK
  <2>4. ReadAsItWas'
    BY <1>1, <1>3, <2>1 DEF ReadAsItWas
  <2> QED BY <1>2, <2>1, <2>3, <2>4
<1> QED BY <1>4, <1>5, <1>6, <1>7, <1>8, <1>9 DEF Next, Answers

THEOREM Invariant == Spec => []IInv
<1>1. IInv /\ [Next]_vars => IInv'
  BY StepKeepsIInv
<1> QED BY InitIInv, <1>1, PTL DEF Spec

(* The variables of a call keep their shape, and so does every block.      *)
THEOREM TypeCorrect == Spec => []TypeOK
<1>1. IInv => TypeOK
  BY DEF IInv
<1> QED BY Invariant, <1>1, PTL

----------------------------------------------------------------------------
(* The two reads of a call that was answered.                              *)
LEMMA BothReads ==
  ASSUME IInv, stage = "done"
  PROVE  /\ first \in 1..Height /\ second \in 1..Height /\ first <= second
         /\ first \in Meanwhile /\ second \in Meanwhile
         /\ chain[first] \in Block /\ chain[second] \in Block
         /\ Sound(chain[first]) /\ Sound(chain[second])
         /\ ids = IdsOf(chain[first])
         /\ ~ failed => answer = AnswerOf(chain[second], ids)
         /\ failed => call.kind = "reactions" /\ answer = {}
<1>1. Height \in Nat /\ Height = Len(chain) /\ chain \in Seq(Block)
  BY DEF IInv, TypeOK, Height
<1>2. first \in 1..Height /\ second \in first..Height
  BY DEF IInv, ReadAsItWas
<1>3. second \in 1..Height /\ first <= second /\ first \in Meanwhile /\ second \in Meanwhile
  BY <1>1, <1>2 DEF Meanwhile
<1> QED BY <1>1, <1>2, <1>3 DEF IInv, ReadAsItWas

(* Who held a role of the space throughout is listed, and nobody is listed *)
(* for more roles than those held when the answer is given.                *)
THEOREM HoldersListed == Spec => []HoldersAreListed
<1>1. ASSUME IInv, Answered("accounts") PROVE HoldersAreListed
  <2> DEFINE RolesOf(a, heights) ==
        { r \in Roles : SpaceOf[r] = call.space /\ \A i \in heights : Holds(chain[i], a, r) }
  <2>1. /\ ids = RoleIdsInSpace(chain[first], call.space)
        /\ answer = AccountsOf(chain[second], ids)
    BY <1>1, BothReads DEF Answered, IdsOf, AnswerOf
  <2>2. ASSUME NEW a \in Accounts
        PROVE  /\ answer[a] >= Cardinality(RolesOf(a, Meanwhile))
               /\ answer[a] <= Cardinality(RolesOf(a, {second}))
    <3> DEFINE listed == { r \in ids : a \in chain[second].users[r] }
    <3>1. answer[a] = Cardinality(listed)
      BY <2>1 DEF AccountsOf
    <3>2. RolesOf(a, Meanwhile) \subseteq listed
      BY <1>1, <2>1, BothReads DEF Answered, Holds, RoleIdsInSpace
    <3>3. listed \subseteq RolesOf(a, {second})
      BY <1>1, <2>1, BothReads DEF Answered, Holds, RoleIdsInSpace, Sound, Live
    <3>4. listed \subseteq Roles /\ RolesOf(a, {second}) \subseteq Roles
      BY <2>1 DEF RoleIdsInSpace, Live
    <3> HIDE DEF RolesOf, listed
    <3>5. IsFiniteSet(listed) /\ IsFiniteSet(RolesOf(a, {second}))
      BY <3>4, FS_Subset, QueriesAssumption
    <3>6. /\ Cardinality(RolesOf(a, Meanwhile)) <= Cardinality(listed)
          /\ Cardinality(listed) <= Cardinality(RolesOf(a, {second}))
      BY <3>2, <3>3, <3>5, FS_Subset
    <3>7. /\ Cardinality(listed) \in Nat /\ Cardinality(RolesOf(a, Meanwhile)) \in Nat
          /\ Cardinality(RolesOf(a, {second})) \in Nat
      BY <3>2, <3>5, FS_Subset, FS_CardinalityType
    <3> QED BY <3>1, <3>6, <3>7
  <2> QED BY <2>2 DEF HoldersAreListed
<1>2. IInv => HoldersAreListed
  BY <1>1 DEF HoldersAreListed
<1> QED BY Invariant, <1>2, PTL

(* A permission is answered if a role of the account carries it throughout,*)
(* and only if one that the account held carries it in the end.            *)
THEOREM PermissionsOfItsRoles == Spec => []PermissionsAreOfItsRoles
<1>1. ASSUME IInv, Answered("permissions") PROVE PermissionsAreOfItsRoles
  <2>1. /\ ids = RoleIdsByUser(chain[first], call.account, call.space)
        /\ answer = PermissionsOf(chain[second], ids)
    BY <1>1, BothReads DEF Answered, IdsOf, AnswerOf
  <2>2. first \in Meanwhile /\ second \in Meanwhile
    BY <1>1, BothReads DEF Answered
  <2>3. \A r \in Roles : r \in ids <=>
          Holds(chain[first], call.account, r) /\ SpaceOf[r] = call.space
    BY <2>1 DEF RoleIdsByUser
  <2>4. \A p : p \in answer <=> \E r \in ids : p \in chain[second].permissions[r]
    BY <2>1 DEF PermissionsOf
  <2>5. ids \subseteq Roles
    BY <2>1 DEF RoleIdsByUser
  <2> QED BY <2>2, <2>3, <2>4, <2>5 DEF PermissionsAreOfItsRoles
<1>2. IInv => PermissionsAreOfItsRoles
  BY <1>1 DEF PermissionsAreOfItsRoles
<1> QED BY Invariant, <1>2, PTL

(* A reaction that is found is one that the account had when it asked.     *)
THEOREM ReactionsTheirs == Spec => []ReactionsAreTheirs
<1>1. ASSUME IInv, Answered("reactions") PROVE ReactionsAreTheirs
  <2> DEFINE Of(i, h) == { p \in Posts : chain[h].reaction[<<call.account, p>>] = i }
  <2>1. /\ ids = ReactionIdsByAccount(chain[first], call.account)
        /\ ~ failed => answer = ReactionsOf(chain[second], ids)
        /\ failed => answer = {}
        /\ first \in Meanwhile /\ second \in Meanwhile
    BY <1>1, BothReads DEF Answered, IdsOf, AnswerOf
  <2>2. call.account \in Accounts
    BY <1>1 DEF IInv, TypeOK, Calls
  <2>3. ASSUME NEW i \in answer PROVE i # 0 /\ Of(i, first) # {} /\ Of(i, second) = Of(i, first)
    <3>1. /\ i # 0 /\ \E p \in Posts : chain[first].reaction[<<call.account, p>>] = i
          /\ \E k \in Keys : chain[second].reaction[k] = i
      BY <2>1, <2>3 DEF ReactionsOf, ReactionIdsByAccount
    <3>2. PICK p \in Posts, k \in Keys : /\ chain[first].reaction[<<call.account, p>>] = i
                                         /\ chain[second].reaction[k] = i
      BY <3>1
    <3>3. \A m, l \in Keys : chain[first].reaction[m] = chain[second].reaction[l]
            => m = l \/ chain[first].reaction[m] = 0
      BY <1>1, BothReads DEF Answered, IInv, IdsStay
    <3>4. \A q \in Posts : <<call.account, q>> \in Keys
      BY <2>2 DEF Keys
    <3>5. k = <<call.account, p>>
      BY <3>1, <3>2, <3>3, <3>4
    <3>6. \A q \in Posts : chain[first].reaction[<<call.account, q>>] = i => q = p
      BY <3>1, <3>2, <3>3, <3>4, <3>5
    <3>7. \A q \in Posts : chain[second].reaction[<<call.account, q>>] = i => q = p
      BY <3>1, <3>2, <3>3, <3>4
    <3> QED BY <3>1, <3>2, <3>5, <3>6, <3>7
  <2>4. ASSUME ~ failed, NEW i \in 1..MaxReaction, \A h \in Meanwhile : Of(i, h) # {}
        PROVE  i \in answer
    <3>1. PICK p \in Posts : chain[first].reaction[<<call.account, p>>] = i
      BY <2>1, <2>4
    <3>2. PICK q \in Posts : chain[second].reaction[<<call.account, q>>] = i
      BY <2>1, <2>4
    <3>3. i \in ids /\ i # 0
      BY <2>1, <3>1 DEF ReactionIdsByAccount
    <3>4. <<call.account, q>> \in Keys
      BY <2>2 DEF Keys
    <3> QED BY <2>1, <2>4, <3>2, <3>3, <3>4 DEF ReactionsOf
  <2> QED BY <2>3, <2>4 DEF ReactionsAreTheirs
<1>2. IInv => ReactionsAreTheirs
  BY <1>1 DEF ReactionsAreTheirs
<1> QED BY Invariant, <1>2, PTL

(* Lists, counts and yes-or-no queries of one moment agree, for lists of   *)
(* any length.                                                             *)
THEOREM OneMomentAgrees == Spec => []AnswersOfOneMomentAgree
<1>1. ASSUME IInv PROVE AnswersOfOneMomentAgree
  <2>1. Best \in Block
    BY <1>1 DEF IInv, TypeOK, Best, Height
  <2>2. Best.replies \in Nat
    BY <2>1, QueriesAssumption DEF Block
  <2>3. RepliesCount(Best) = Best.replies
    BY <2>2, CountIsExact DEF RepliesCount
  <2>4. ASSUME NEW a \in Accounts
        PROVE  /\ AccountFollowersCount(Best, a)
                     = Cardinality({ x \in Accounts : <<x, a>> \in Best.follows })
               /\ AccountsFollowedCount(Best, a)
                     = Cardinality({ x \in Accounts : <<a, x>> \in Best.follows })
    <3>1. /\ Cardinality({ x \in Accounts : <<x, a>> \in Best.follows }) \in Nat
          /\ Cardinality({ x \in Accounts : <<a, x>> \in Best.follows }) \in Nat
      BY FS_Subset, FS_CardinalityType, QueriesAssumption
    <3> QED BY <3>1, CountIsExact DEF AccountFollowersCount, AccountsFollowedCount
  <2>5. ASSUME NEW a \in Accounts, NEW s \in Spaces
        PROVE  /\ IsSpaceFollower(Best, a, s) <=> s \in SpaceIdsFollowedByAccount(Best, a)
               /\ s \in GetSpaceIdsWithRolesByAccount(Best, a) <=> RoleIdsByUser(Best, a, s) # {}
    BY DEF IsSpaceFollower, SpaceIdsFollowedByAccount, GetSpaceIdsWithRolesByAccount, RoleIdsByUser
  <2> QED BY <2>3, <2>4, <2>5 DEF AnswersOfOneMomentAgree, IsAccountFollower
<1> QED BY Invariant, <1>1, PTL
=============================================================================
