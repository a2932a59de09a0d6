------------------------ MODULE PostDetails_proofs -------------------------
(***************************************************************************)
(* Theorems about PostDetails, for every set of posts, spaces, accounts    *)
(* and requests, and however often the chain changes.                      *)
(*                                                                         *)
(* The result is a join of six reads, so what it shows rests on facts      *)
(* about what was read: that the posts and what they extend agree where    *)
(* they overlap, and that all of it is of one chain as long as that has    *)
(* not changed.                                                            *)
(***************************************************************************)
EXTENDS PostDetails, WellFoundedInduction, TLAPS

N == Len(request.ids)

----------------------------------------------------------------------------
(* Lists: functions on some positions.                                     *)

LEMMA Smallest ==
  ASSUME NEW T, T \subseteq Nat, T # {}
  PROVE  \E x \in T : \A y \in T : x <= y
<1>1. PICK x \in T : \A y \in T : <<y, x>> \notin OpToRel(<, Nat)
  BY WFMin, NatLessThanWellFounded, Zenon
<1>2. \A y \in T : ~ (y < x)
  BY <1>1, Zenon DEF OpToRel
<1> QED BY <1>2

LEMMA Last ==
  ASSUME NEW S, NEW b \in Nat, S \subseteq 1 .. b, S # {}
  PROVE  LastOf(S) \in S
<1> DEFINE T == { b - i : i \in S }
<1>1. \A i \in S : i \in Nat /\ b - i \in Nat
  OBVIOUS
<1>2. T \subseteq Nat /\ T # {}
  BY <1>1
<1>3. PICK x \in T : \A y \in T : x <= y
  <2> HIDE DEF T
  <2> QED BY <1>2, Smallest
<1>4. PICK i \in S : x = b - i
  OBVIOUS
<1>5. \A j \in S : b - i <= b - j
  BY <1>3, <1>4
<1>6. \A j \in S : j <= i
  BY <1>1, <1>5
<1> QED BY <1>6 DEF LastOf

LEMMA UniqueIsRestriction ==
  ASSUME NEW list
  PROVE  /\ DOMAIN Unique(list) \subseteq DOMAIN list
         /\ \A i \in DOMAIN Unique(list) : Unique(list)[i] = list[i]
BY DEF Unique, Restrict

LEMMA UniqueIsInjective ==
  ASSUME NEW list, DOMAIN list \subseteq Nat,
         NEW i \in DOMAIN Unique(list), NEW j \in DOMAIN Unique(list),
         list[i] = list[j]
  PROVE  i = j
BY DEF Unique, Restrict

LEMMA PostOfIsOne ==
  ASSUME NEW list, NEW p \in IdsOf(list)
  PROVE  \E i \in DOMAIN list : list[i].id = p /\ PostOf(list, p) = list[i]
BY DEF IdsOf, PostOf

LEMMA ThenIsEither ==
  ASSUME NEW before, NEW list, N \in Nat, DOMAIN before \subseteq 1 .. N,
         NEW b \in Nat, DOMAIN list \subseteq 1 .. b
  PROVE  /\ DOMAIN Then(before, list) \subseteq 1 .. (N + b)
         /\ \A k \in DOMAIN Then(before, list) :
              \/ k \in DOMAIN before /\ Then(before, list)[k] = before[k]
              \/ k \notin DOMAIN before /\ k - N \in DOMAIN list /\ Then(before, list)[k] = list[k - N]
<1>1. \A i \in DOMAIN list : i \in Nat /\ 0 < i /\ i <= b
  OBVIOUS
<1>2. \A k \in { N + i : i \in DOMAIN list } : k - N \in DOMAIN list /\ k > N /\ k \in Nat /\ k <= N + b
  BY <1>1
<1> QED BY <1>2 DEF Then, N

LEMMA ReadIsOfTheChain ==
  ASSUME NEW ids, DOMAIN ids \subseteq Nat, \A i \in DOMAIN ids : ids[i] \in PostIds,
         chain \in Chain, NEW hits
  PROVE  /\ DOMAIN Read(ids, hits) \subseteq DOMAIN ids
         /\ \A i \in DOMAIN Read(ids, hits) :
              /\ Read(ids, hits)[i] \in PostStruct
              /\ Read(ids, hits)[i].id = ids[i]
              /\ Read(ids, hits)[i].space = chain.postSpace[ids[i]]
         /\ \A i, j \in DOMAIN Read(ids, hits) :
              Read(ids, hits)[i].id = Read(ids, hits)[j].id => i = j
<1>1. /\ DOMAIN Read(ids, hits) \subseteq DOMAIN Unique(ids)
      /\ \A i \in DOMAIN Read(ids, hits) :
           Read(ids, hits)[i] = [id |-> ids[i], space |-> chain.postSpace[ids[i]]]
  BY DEF Read
<1>2. \A p \in PostIds : chain.postSpace[p] \in SpaceIds \cup {None}
  BY DEF Chain
<1> QED BY <1>1, <1>2, UniqueIsRestriction, UniqueIsInjective DEF PostStruct

----------------------------------------------------------------------------
(* The inductive invariant.                                                *)

(* What is among the posts and among the extended posts is there in one    *)
(* version.                                                                *)
Agreed ==
  \A i \in DOMAIN posts, j \in DOMAIN extPosts :
    posts[i].id = extPosts[j].id => posts[i] = extPosts[j]

(* Comments are in no space, whenever they were read.                      *)
CommentsAreOfNoSpace ==
  \A i \in DOMAIN posts : posts[i].id \in Comments => posts[i].space = None

(* Nothing is there before it is read.                                     *)
Empty ==
  /\ phase \in {"posts", "ext"} => extPosts = <<>>
  /\ phase # "done" => result = <<>>

(* As long as the chain has not changed, all that was read is as it is.    *)
Fresh ==
  updates = 0 =>
    /\ \A i \in DOMAIN posts : posts[i].space = chain.postSpace[posts[i].id]
    /\ \A i \in DOMAIN extPosts : extPosts[i].space = chain.postSpace[extPosts[i].id]
    /\ \A p \in rootPosts : p.space = chain.postSpace[p.id]
    /\ \A a \in Accounts : profiles[a] \in {None, chain.profile[a]}
    /\ \A a \in Accounts : owners[a] \in {None, chain.profile[a]}
    /\ spaces \subseteq chain.publicSpaces

Shown ==
  OneVersionPerPost /\ CommentsShowTheirThread /\ UndisturbedSearchIsConsistent

Inv == TypeOK /\ Agreed /\ CommentsAreOfNoSpace /\ Empty /\ Fresh /\ Shown

LEMMA RequestIsTyped ==
  ASSUME TypeOK
  PROVE  /\ N \in Nat /\ DOMAIN request.ids = 1 .. N
         /\ \A i \in 1 .. N : request.ids[i] \in PostIds
BY DetailsAssumption DEF TypeOK, Request, N

LEMMA ListsAreTyped ==
  ASSUME TypeOK
  PROVE  /\ DOMAIN posts \subseteq 1 .. N
         /\ \A i \in DOMAIN posts : posts[i] \in PostStruct
         /\ \A i, j \in DOMAIN posts : posts[i].id = posts[j].id => i = j
         /\ DOMAIN extPosts \subseteq 1 .. 2 * N
         /\ \A i \in DOMAIN extPosts : extPosts[i] \in PostStruct
         /\ \A i, j \in DOMAIN extPosts : extPosts[i].id = extPosts[j].id => i = j
         /\ rootPosts \subseteq PostStruct
BY RequestIsTyped DEF TypeOK, N, Range

----------------------------------------------------------------------------
(* The join, of whatever was read.                                         *)

LEMMA ExtIsFound ==
  ASSUME TypeOK, NEW post \in PostStruct, ExtOf(post) # None
  PROVE  /\ \E j \in DOMAIN extPosts : ExtOf(post) = extPosts[j]
         /\ ExtOf(post).id = Ext[post.id]
BY PostOfIsOne DEF ExtOf

LEMMA RootIsFound ==
  ASSUME NEW ext, RootOf(ext) # None
  PROVE  /\ RootOf(ext) \in rootPosts
         /\ RootOf(ext).id = Ext[ext.id]
BY DEF RootOf

LEMMA NoneIsNeverLoaded ==
  ASSUME TypeOK
  PROVE  /\ None \notin spaces
         /\ \A s : Loaded(s) # None => Loaded(s) = s /\ s \in spaces
BY DetailsAssumption DEF TypeOK, Loaded

LEMMA DetailsAreOfThePosts ==
  /\ DOMAIN Details \subseteq DOMAIN posts
  /\ \A i \in DOMAIN Details : Details[i] = WithDetails(posts[i])
BY DEF Details, Restrict

LEMMA JoinIsOfOneVersion ==
  ASSUME Inv, result' = Details
  PROVE  OneVersionPerPost'
<1>1. TypeOK /\ Agreed
  BY DEF Inv
<1> SUFFICES ASSUME NEW i \in DOMAIN Details, NEW j \in DOMAIN Details,
                    NEW v \in { Details[i].post, Details[j].post, Details[i].ext, Details[j].ext } \ {None},
                    NEW w \in { Details[i].post, Details[j].post, Details[i].ext, Details[j].ext } \ {None},
                    v.id = w.id
             PROVE  v = w
  BY DEF OneVersionPerPost
<1>2. \A k \in DOMAIN Details :
        /\ k \in DOMAIN posts
        /\ posts[k] \in PostStruct
        /\ Details[k].post = posts[k]
        /\ Details[k].ext = ExtOf(posts[k])
  BY <1>1, DetailsAreOfThePosts, ListsAreTyped DEF WithDetails
<1>3. \A k \in DOMAIN Details :
        Details[k].ext # None => \E m \in DOMAIN extPosts : Details[k].ext = extPosts[m]
  BY <1>1, <1>2, ExtIsFound
<1>4. \A x \in {v, w} : (\E k \in DOMAIN posts : x = posts[k]) \/ (\E m \in DOMAIN extPosts : x = extPosts[m])
  BY <1>2, <1>3
<1>5. CASE \E k, m \in DOMAIN posts : v = posts[k] /\ w = posts[m]
  BY <1>1, <1>5, ListsAreTyped
<1>6. CASE \E k, m \in DOMAIN extPosts : v = extPosts[k] /\ w = extPosts[m]
  BY <1>1, <1>6, ListsAreTyped
<1>7. CASE \E k \in DOMAIN posts, m \in DOMAIN extPosts : {v, w} = {posts[k], extPosts[m]}
  BY <1>1, <1>7 DEF Agreed
<1> QED BY <1>4, <1>5, <1>6, <1>7

LEMMA JoinShowsThreads ==
  ASSUME Inv, result' = Details, UNCHANGED found
  PROVE  CommentsShowTheirThread'
<1>1. TypeOK /\ CommentsAreOfNoSpace /\ spaces' = spaces
  BY DEF Inv, found
<1> SUFFICES ASSUME NEW i \in DOMAIN Details, Details[i].post.id \in Comments
             PROVE  LET d == Details[i]
                        rootSpace == IF d.ext = None THEN None ELSE d.ext.space
                    IN  /\ rootSpace # None => d.space = IF rootSpace \in spaces THEN rootSpace ELSE None
                        /\ rootSpace = None /\ d.space # None =>
                             /\ d.ext # None /\ d.root # None
                             /\ d.root.id = Ext[Ext[d.post.id]] /\ d.root.space = d.space
  BY <1>1 DEF CommentsShowTheirThread
<1> DEFINE post == posts[i]
           ext == ExtOf(post)
<1>2. /\ i \in DOMAIN posts /\ post \in PostStruct
      /\ Details[i].post = post /\ Details[i].ext = ext
      /\ Details[i].root = RootOf(ext) /\ Details[i].space = SpaceOf(post)
  BY <1>1, DetailsAreOfThePosts, ListsAreTyped DEF WithDetails
<1>3. SpaceOf(post) = SpaceOfExt(ext)
  <2>1. post.space = None
    BY <1>1, <1>2 DEF CommentsAreOfNoSpace
  <2>2. Loaded(post.space) = None
    BY <1>1, <2>1, NoneIsNeverLoaded DEF Loaded
  <2> QED BY <2>2 DEF SpaceOf
<1>4. CASE ext = None
  BY <1>2, <1>3, <1>4 DEF SpaceOfExt
<1>5. CASE ext # None /\ ext.space # None
  BY <1>2, <1>3, <1>5 DEF SpaceOfExt, Loaded
<1>6. CASE ext # None /\ ext.space = None
  <2>1. ext.id = Ext[post.id]
    BY <1>1, <1>2, <1>6, ExtIsFound
  <2>2. RootOf(ext) = None => SpaceOfExt(ext) = None
    BY <1>6 DEF SpaceOfExt
  <2>3. RootOf(ext) # None =>
          /\ RootOf(ext).id = Ext[ext.id]
          /\ SpaceOfExt(ext) = Loaded(RootOf(ext).space)
    BY <1>6, RootIsFound DEF SpaceOfExt
  <2>4. SpaceOfExt(ext) # None => RootOf(ext) # None /\ SpaceOfExt(ext) = RootOf(ext).space
    BY <1>1, <2>2, <2>3, NoneIsNeverLoaded
  <2> HIDE DEF post, ext
  <2> QED BY <1>2, <1>3, <1>6, <2>1, <2>3, <2>4
<1> QED BY <1>4, <1>5, <1>6

LEMMA JoinIsConsistent ==
  ASSUME Inv, result' = Details, UNCHANGED <<chain, updates>>
  PROVE  UndisturbedSearchIsConsistent'
<1>1. TypeOK
  BY DEF Inv
<1> SUFFICES ASSUME updates = 0, NEW i \in DOMAIN Details
             PROVE  LET d == Details[i] IN
                    /\ d.owner \in {None, chain.profile[Creator[d.post.id]]}
                    /\ d.ext # None => d.extOwner \in {None, chain.profile[Creator[d.ext.id]]}
                    /\ d.space # None =>
                         /\ d.space \in chain.publicSpaces
                         /\ \E p \in {d.post.id, Ext[d.post.id]} \cup
                                  (IF d.ext = None THEN {} ELSE {Ext[d.ext.id]}) :
                              p # None /\ chain.postSpace[p] = d.space
  BY DEF UndisturbedSearchIsConsistent
<1> DEFINE post == posts[i]
           ext == ExtOf(post)
<1>2. /\ i \in DOMAIN posts /\ post \in PostStruct
      /\ Details[i] = WithDetails(post)
  BY <1>1, DetailsAreOfThePosts, ListsAreTyped
<1>3. /\ \A a \in Accounts : owners[a] \in {None, chain.profile[a]}
      /\ spaces \subseteq chain.publicSpaces
      /\ post.space = chain.postSpace[post.id]
  BY <1>2 DEF Inv, Fresh
<1>4. post.id \in PostIds /\ None \notin PostIds
  BY <1>2, DetailsAssumption DEF PostStruct
<1>5. ext # None =>
        /\ ext.id = Ext[post.id] /\ ext.id \in PostIds
        /\ ext.space = chain.postSpace[ext.id]
  <2> SUFFICES ASSUME ext # None
               PROVE  /\ ext.id = Ext[post.id] /\ ext.id \in PostIds
                      /\ ext.space = chain.postSpace[ext.id]
    OBVIOUS
  <2>1. PICK j \in DOMAIN extPosts : ext = extPosts[j]
    BY <1>1, <1>2, ExtIsFound
  <2>2. ext.id = Ext[post.id]
    BY <1>1, <1>2, ExtIsFound
  <2>3. extPosts[j] \in PostStruct /\ extPosts[j].space = chain.postSpace[extPosts[j].id]
    BY <1>1, ListsAreTyped DEF Inv, Fresh
  <2> HIDE DEF ext, post
  <2> QED BY <2>1, <2>2, <2>3 DEF PostStruct
<1>6. ext # None /\ RootOf(ext) # None =>
        /\ RootOf(ext).id = Ext[ext.id] /\ RootOf(ext).id \in PostIds
        /\ RootOf(ext).space = chain.postSpace[RootOf(ext).id]
  <2>1. \A p \in rootPosts : p.id \in PostIds /\ p.space = chain.postSpace[p.id]
    BY <1>1, ListsAreTyped DEF Inv, Fresh, PostStruct
  <2> HIDE DEF ext
  <2> QED BY <2>1, RootIsFound
<1>7. Creator[post.id] \in Accounts /\ (ext # None => Creator[ext.id] \in Accounts)
  BY <1>4, <1>5, DetailsAssumption
<1>8. WithDetails(post).post = post /\ WithDetails(post).ext = ext
      /\ WithDetails(post).owner = owners[Creator[post.id]]
      /\ (ext # None => WithDetails(post).extOwner = owners[Creator[ext.id]])
      /\ WithDetails(post).space = SpaceOf(post)
  BY DEF WithDetails
<1> HIDE DEF ext, post
<1>9. ASSUME SpaceOf(post) # None
      PROVE  /\ SpaceOf(post) \in chain.publicSpaces
             /\ \/ chain.postSpace[post.id] = SpaceOf(post)
                \/ ext # None /\ chain.postSpace[ext.id] = SpaceOf(post)
                \/ ext # None /\ Ext[ext.id] \in PostIds /\ chain.postSpace[Ext[ext.id]] = SpaceOf(post)
  <2>1. CASE Loaded(post.space) # None
    BY <1>1, <1>3, <2>1, NoneIsNeverLoaded DEF SpaceOf
  <2>2. CASE Loaded(post.space) = None
    <3>1. SpaceOf(post) = SpaceOfExt(ext)
      BY <2>2 DEF SpaceOf, ext
    <3>2. ext # None
      BY <1>9, <3>1 DEF SpaceOfExt
    <3>3. CASE ext.space # None
      BY <1>1, <1>3, <1>5, <1>9, <3>1, <3>2, <3>3, NoneIsNeverLoaded DEF SpaceOfExt
    <3>4. CASE ext.space = None
      <4>1. RootOf(ext) # None /\ SpaceOf(post) = Loaded(RootOf(ext).space)
        BY <1>9, <3>1, <3>2, <3>4 DEF SpaceOfExt
      <4>2. SpaceOf(post) = RootOf(ext).space /\ SpaceOf(post) \in spaces
        BY <1>1, <1>9, <4>1, NoneIsNeverLoaded
      <4> QED BY <1>3, <1>6, <3>2, <4>1, <4>2
    <3> QED BY <3>3, <3>4
  <2> QED BY <2>1, <2>2
<1> QED BY <1>2, <1>3, <1>4, <1>5, <1>7, <1>8, <1>9

----------------------------------------------------------------------------
(* Each step keeps the invariant.                                          *)

LEMMA InitHolds == Init => Inv
<1> SUFFICES ASSUME Init PROVE Inv
  OBVIOUS
<1>1. DOMAIN posts = {} /\ DOMAIN extPosts = {} /\ DOMAIN result = {} /\ rootPosts = {} /\ spaces = {}
  BY DEF Init, NothingFound
<1>2. TypeOK
  BY <1>1, DetailsAssumption DEF Init, NothingFound, TypeOK, Range
<1>3. Agreed /\ CommentsAreOfNoSpace /\ Empty /\ Fresh
  BY <1>1 DEF Init, NothingFound, Agreed, CommentsAreOfNoSpace, Empty, Fresh
<1>4. Shown
  BY <1>1 DEF Shown, OneVersionPerPost, CommentsShowTheirThread, UndisturbedSearchIsConsistent
<1> QED BY <1>2, <1>3, <1>4 DEF Inv

LEMMA ChainStaysSound ==
  ASSUME TypeOK, ChainStep
  PROVE  chain' \in Chain /\ SoundChain(chain') /\ updates' \in 1 .. MaxUpdates
<1>1. chain \in Chain /\ SoundChain(chain) /\ updates \in 0 .. MaxUpdates /\ MaxUpdates \in Nat
  BY DetailsAssumption DEF TypeOK
<1>2. CASE \E p \in PostIds : TogglePost(p)
  BY <1>1, <1>2 DEF TogglePost, Update, Chain, SoundChain
<1>3. CASE \E s \in SpaceIds : ToggleSpace(s)
  BY <1>1, <1>3 DEF ToggleSpace, Update, Chain, SoundChain
<1>4. CASE \E p \in PostIds, s \in SpaceIds \cup {None} : MovePost(p, s)
  BY <1>1, <1>4, DetailsAssumption DEF MovePost, Update, Chain, SoundChain
<1>5. CASE \E a \in Accounts, s \in SpaceIds \cup {None} : SetProfile(a, s)
  BY <1>1, <1>5 DEF SetProfile, Update, Chain, SoundChain
<1>6. CASE \E s \in SpaceIds, a \in Accounts : TransferSpace(s, a)
  <2>1. PICK s \in SpaceIds, a \in Accounts : TransferSpace(s, a)
    BY <1>6
  <2>2. /\ chain' = [chain EXCEPT !.spaceOwner[s] = a,
                       !.profile = [b \in Accounts |-> IF chain.profile[b] = s /\ b # a THEN None ELSE chain.profile[b]]]
        /\ updates < MaxUpdates /\ updates' = updates + 1
    BY <2>1 DEF TransferSpace, Update
  <2>3. /\ chain' \in Chain
        /\ chain'.postSpace = chain.postSpace
        /\ \A b \in Accounts : chain'.profile[b] = IF chain.profile[b] = s /\ b # a THEN None ELSE chain.profile[b]
        /\ \A t \in SpaceIds : chain'.spaceOwner[t] = IF t = s THEN a ELSE chain.spaceOwner[t]
    BY <1>1, <2>2 DEF Chain
  <2>4. \A b \in Accounts : chain.profile[b] \in SpaceIds \cup {None}
    BY <1>1 DEF Chain
  <2> QED BY <1>1, <2>2, <2>3, <2>4 DEF SoundChain
<1> QED BY <1>2, <1>3, <1>4, <1>5, <1>6 DEF ChainStep

LEMMA ChainStepKeeps ==
  ASSUME Inv, ChainStep
  PROVE  Inv'
<1>1. /\ chain' \in Chain /\ SoundChain(chain') /\ updates' \in 0 .. MaxUpdates
      /\ updates' # 0
      /\ UNCHANGED <<phase, request, found, result>>
  <2>1. chain' \in Chain /\ SoundChain(chain') /\ updates' \in 1 .. MaxUpdates
    BY ChainStaysSound DEF Inv
  <2>2. MaxUpdates \in Nat
    BY DetailsAssumption
  <2>3. updates' \in 0 .. MaxUpdates /\ updates' # 0
    BY <2>1, <2>2
  <2>4. UNCHANGED <<phase, request, found, result>>
    BY DEF ChainStep, Update, TogglePost, ToggleSpace, MovePost, SetProfile, TransferSpace
  <2> QED BY <2>1, <2>3, <2>4
<1>2. TypeOK'
  BY <1>1 DEF Inv, TypeOK, found
<1>3. Agreed' /\ CommentsAreOfNoSpace' /\ Empty' /\ Fresh'
  BY <1>1 DEF Inv, Agreed, CommentsAreOfNoSpace, Empty, Fresh, found
<1>4. OneVersionPerPost' /\ CommentsShowTheirThread'
  BY <1>1 DEF Inv, Shown, OneVersionPerPost, CommentsShowTheirThread, found
<1>5. UndisturbedSearchIsConsistent'
  BY <1>1 DEF UndisturbedSearchIsConsistent
<1> QED BY <1>2, <1>3, <1>4, <1>5 DEF Inv, Shown

LEMMA NothingShown ==
  ASSUME result' = <<>>
  PROVE  Shown' /\ DOMAIN result' = {}
<1>1. DOMAIN result' = {}
  OBVIOUS
<1> QED BY <1>1 DEF Shown, OneVersionPerPost, CommentsShowTheirThread, UndisturbedSearchIsConsistent

LEMMA FindPostsKeeps ==
  ASSUME Inv, FindPosts
  PROVE  Inv'
<1>1. TypeOK /\ extPosts = <<>> /\ result = <<>> /\ DOMAIN extPosts = {}
  BY DEF Inv, Empty, FindPosts
<1>2. PICK hits : posts' = Read(request.ids, hits)
  BY DEF FindPosts
<1>3. /\ DOMAIN posts' \subseteq DOMAIN request.ids
      /\ \A i \in DOMAIN posts' : posts'[i] \in PostStruct /\ posts'[i].space = chain.postSpace[posts'[i].id]
      /\ \A i, j \in DOMAIN posts' : posts'[i].id = posts'[j].id => i = j
  BY <1>1, <1>2, RequestIsTyped, ReadIsOfTheChain DEF TypeOK
<1>4. UNCHANGED <<chain, updates, request, extPosts, rootPosts, profiles, owners, spaces, result>> /\ phase' = "ext"
  BY DEF FindPosts
<1>5. TypeOK'
  BY <1>1, <1>3, <1>4 DEF TypeOK, Range
<1>6. Agreed' /\ Empty'
  BY <1>1, <1>4 DEF Agreed, Empty
<1>7. CommentsAreOfNoSpace'
  BY <1>1, <1>3, DetailsAssumption DEF CommentsAreOfNoSpace, TypeOK, SoundChain, PostStruct
<1>8. Fresh'
  BY <1>3, <1>4 DEF Inv, Fresh
<1> QED BY <1>1, <1>4, <1>5, <1>6, <1>7, <1>8, NothingShown DEF Inv

LEMMA ExtIdsAreTyped ==
  ASSUME TypeOK
  PROVE  /\ DOMAIN ExtIds \subseteq 1 .. N
         /\ \A i \in DOMAIN ExtIds : ExtIds[i] \in PostIds
         /\ \A i, j \in DOMAIN ExtIds : ExtIds[i] = ExtIds[j] => i = j
<1>1. /\ DOMAIN ExtIdsOfAll \subseteq 1 .. N
      /\ \A i \in DOMAIN ExtIdsOfAll : ExtIdsOfAll[i] \in PostIds
  <2>1. \A i \in DOMAIN posts : i \in 1 .. N /\ posts[i].id \in PostIds
    BY ListsAreTyped DEF PostStruct
  <2> QED BY <2>1, DetailsAssumption DEF ExtIdsOfAll
<1> QED BY <1>1, RequestIsTyped, UniqueIsRestriction, UniqueIsInjective DEF ExtIds

(* What is known already is copied, and the rest read from the chain.      *)
LEMMA ExtPostsAreEither ==
  ASSUME TypeOK, FindExtPosts
  PROVE  /\ DOMAIN extPosts' \subseteq 1 .. 2 * N
         /\ \A k \in DOMAIN extPosts' :
              \/ /\ k \in DOMAIN ExtIds /\ extPosts'[k].id = ExtIds[k]
                 /\ ExtIds[k] \in IdsOf(posts)
                 /\ \E i \in DOMAIN posts : extPosts'[k] = posts[i]
              \/ /\ k - N \in DOMAIN ExtIds /\ extPosts'[k].id = ExtIds[k - N]
                 /\ ExtIds[k - N] \notin IdsOf(posts)
                 /\ extPosts'[k] \in PostStruct
                 /\ extPosts'[k].space = chain.postSpace[extPosts'[k].id]
<1> DEFINE known == [i \in DOMAIN KnownExtIds |-> PostOf(posts, KnownExtIds[i])]
<1>1. PICK hits : extPosts' = Then(known, Read(MissingExtIds, hits))
  BY DEF FindExtPosts
<1> DEFINE missing == Read(MissingExtIds, hits)
<1>2. /\ DOMAIN known \subseteq DOMAIN ExtIds
      /\ \A k \in DOMAIN known : known[k] = PostOf(posts, ExtIds[k]) /\ ExtIds[k] \in IdsOf(posts)
  BY DEF KnownExtIds, Restrict
<1>3. \A k \in DOMAIN known : known[k].id = ExtIds[k] /\ \E i \in DOMAIN posts : known[k] = posts[i]
  BY <1>2, PostOfIsOne
<1>4. /\ DOMAIN MissingExtIds \subseteq DOMAIN ExtIds
      /\ \A k \in DOMAIN MissingExtIds : MissingExtIds[k] = ExtIds[k] /\ ExtIds[k] \notin IdsOf(posts)
  BY DEF MissingExtIds, Restrict
<1>5. DOMAIN MissingExtIds \subseteq Nat /\ \A i \in DOMAIN MissingExtIds : MissingExtIds[i] \in PostIds
  BY <1>4, ExtIdsAreTyped, RequestIsTyped
<1>6. /\ DOMAIN missing \subseteq DOMAIN MissingExtIds
      /\ \A i \in DOMAIN missing :
           /\ missing[i] \in PostStruct /\ missing[i].id = MissingExtIds[i]
           /\ missing[i].space = chain.postSpace[MissingExtIds[i]]
  BY <1>5, ReadIsOfTheChain DEF TypeOK
<1>7. DOMAIN known \subseteq 1 .. N /\ DOMAIN missing \subseteq 1 .. N /\ N \in Nat
  BY <1>2, <1>4, <1>6, ExtIdsAreTyped, RequestIsTyped
<1> HIDE DEF known, missing
<1>8. /\ DOMAIN Then(known, missing) \subseteq 1 .. (N + N)
      /\ \A k \in DOMAIN Then(known, missing) :
           \/ k \in DOMAIN known /\ Then(known, missing)[k] = known[k]
           \/ k - N \in DOMAIN missing /\ Then(known, missing)[k] = missing[k - N]
  BY <1>7, ThenIsEither
<1>9. extPosts' = Then(known, missing)
  BY <1>1 DEF known, missing
<1> QED BY <1>2, <1>3, <1>4, <1>6, <1>7, <1>8, <1>9

LEMMA FindExtPostsKeeps ==
  ASSUME Inv, FindExtPosts
  PROVE  Inv'
<1>1. TypeOK /\ result = <<>>
  BY DEF Inv, Empty, FindExtPosts
<1>2. UNCHANGED <<chain, updates, request, posts, rootPosts, profiles, owners, spaces, result>> /\ phase' = "roots"
  BY DEF FindExtPosts
<1>3. \A k \in DOMAIN extPosts' : extPosts'[k] \in PostStruct
  BY <1>1, ExtPostsAreEither, ListsAreTyped
<1>4. \A i, j \in DOMAIN extPosts' : extPosts'[i].id = extPosts'[j].id => i = j
  <2> SUFFICES ASSUME NEW i \in DOMAIN extPosts', NEW j \in DOMAIN extPosts',
                      extPosts'[i].id = extPosts'[j].id
               PROVE  i = j
    OBVIOUS
  <2>1. i \in Int /\ j \in Int /\ N \in Nat
    BY <1>1, ExtPostsAreEither, RequestIsTyped
  <2>2. \A k, m \in DOMAIN ExtIds : ExtIds[k] = ExtIds[m] => k = m
    BY <1>1, ExtIdsAreTyped
  <2>3. \/ i \in DOMAIN ExtIds /\ j \in DOMAIN ExtIds /\ ExtIds[i] = ExtIds[j]
        \/ i - N \in DOMAIN ExtIds /\ j - N \in DOMAIN ExtIds /\ ExtIds[i - N] = ExtIds[j - N]
    BY <1>1, ExtPostsAreEither
  <2>4. i = j \/ i - N = j - N
    BY <2>2, <2>3
  <2> QED BY <2>1, <2>4
<1>5. TypeOK'
  BY <1>1, <1>2, <1>3, <1>4, ExtPostsAreEither DEF TypeOK, Range, N
<1>6. Agreed'
  <2> SUFFICES ASSUME NEW i \in DOMAIN posts, NEW k \in DOMAIN extPosts', posts[i].id = extPosts'[k].id
               PROVE  posts[i] = extPosts'[k]
    BY <1>2 DEF Agreed
  <2>1. extPosts'[k].id \in IdsOf(posts)
    BY DEF IdsOf
  <2>2. PICK j \in DOMAIN posts : extPosts'[k] = posts[j]
    BY <1>1, <2>1, ExtPostsAreEither
  <2> QED BY <1>1, <2>2, ListsAreTyped
<1>7. CommentsAreOfNoSpace' /\ Empty'
  BY <1>1, <1>2 DEF Inv, CommentsAreOfNoSpace, Empty
<1>8. Fresh'
  BY <1>1, <1>2, ExtPostsAreEither DEF Inv, Fresh
<1> QED BY <1>1, <1>2, <1>5, <1>6, <1>7, <1>8, NothingShown DEF Inv

LEMMA FindRootPostsKeeps ==
  ASSUME Inv, FindRootPosts
  PROVE  Inv'
<1>1. TypeOK /\ result = <<>>
  BY DEF Inv, Empty, FindRootPosts
<1>2. /\ UNCHANGED <<chain, updates, request, posts, extPosts, profiles, owners, spaces, result>>
      /\ phase' \in {"profiles", "spaces"}
  BY DEF FindRootPosts
<1>3. PICK hits \in SUBSET ((RootIds \ KnownRootIds) \cap chain.publicPosts) :
        rootPosts' =
          { PostOf(IF p \in IdsOf(extPosts) THEN extPosts ELSE posts, p) : p \in KnownRootIds }
            \cup { [id |-> p, space |-> chain.postSpace[p]] : p \in hits }
  BY DEF FindRootPosts
<1>4. \A p \in hits : p \in PostIds /\ chain.postSpace[p] \in SpaceIds \cup {None}
  BY <1>1 DEF TypeOK, Chain
<1>5. \A p \in KnownRootIds : p \in IdsOf(posts) \/ p \in IdsOf(extPosts)
  BY DEF KnownRootIds, IdsOf
<1>6. \A p \in KnownRootIds :
        \/ \E i \in DOMAIN posts : PostOf(IF p \in IdsOf(extPosts) THEN extPosts ELSE posts, p) = posts[i]
        \/ \E i \in DOMAIN extPosts : PostOf(IF p \in IdsOf(extPosts) THEN extPosts ELSE posts, p) = extPosts[i]
  BY <1>5, PostOfIsOne
<1>7. \A r \in rootPosts' :
        \/ \E i \in DOMAIN posts : r = posts[i]
        \/ \E i \in DOMAIN extPosts : r = extPosts[i]
        \/ r \in PostStruct /\ r.space = chain.postSpace[r.id]
  BY <1>3, <1>4, <1>6 DEF PostStruct
<1>8. rootPosts' \subseteq PostStruct
  BY <1>1, <1>7, ListsAreTyped
<1>9. TypeOK'
  BY <1>1, <1>2, <1>8 DEF TypeOK, Range
<1>10. Agreed' /\ CommentsAreOfNoSpace' /\ Empty'
  BY <1>1, <1>2 DEF Inv, Agreed, CommentsAreOfNoSpace, Empty
<1>11. Fresh'
  BY <1>2, <1>7 DEF Inv, Fresh
<1> QED BY <1>1, <1>2, <1>9, <1>10, <1>11, NothingShown DEF Inv

LEMMA OwnerIdsAreTyped ==
  ASSUME TypeOK
  PROVE  /\ DOMAIN OwnerIds \subseteq 1 .. 3 * N
         /\ \A i \in DOMAIN OwnerIds : OwnerIds[i] \in Accounts
<1> DEFINE mine == [i \in DOMAIN posts |-> Creator[posts[i].id]]
           theirs == [i \in DOMAIN extPosts |-> Creator[extPosts[i].id]]
<1>1. /\ \A i \in DOMAIN mine : mine[i] \in Accounts
      /\ \A i \in DOMAIN theirs : theirs[i] \in Accounts
  BY ListsAreTyped, DetailsAssumption DEF PostStruct
<1>2. DOMAIN mine \subseteq 1 .. N /\ DOMAIN theirs \subseteq 1 .. 2 * N /\ N \in Nat
  BY ListsAreTyped, RequestIsTyped
<1>3. OwnerIds = Then(Unique(mine), theirs)
  BY DEF OwnerIds
<1> HIDE DEF mine, theirs
<1>4. DOMAIN Unique(mine) \subseteq 1 .. N /\ \A i \in DOMAIN Unique(mine) : Unique(mine)[i] \in Accounts
  BY <1>1, <1>2, UniqueIsRestriction
<1>5. 2 * N \in Nat /\ N + 2 * N = 3 * N
  BY <1>2
<1>6. /\ DOMAIN OwnerIds \subseteq 1 .. (N + 2 * N)
      /\ \A k \in DOMAIN OwnerIds :
           \/ k \in DOMAIN Unique(mine) /\ OwnerIds[k] = Unique(mine)[k]
           \/ k - N \in DOMAIN theirs /\ OwnerIds[k] = theirs[k - N]
  BY <1>2, <1>3, <1>4, <1>5, ThenIsEither
<1> QED BY <1>1, <1>4, <1>5, <1>6

(* A space that is loaded for an owner is the profile that was read for    *)
(* some creator.                                                           *)
LEMMA OwnerSpaceIdsAreProfiles ==
  ASSUME TypeOK
  PROVE  /\ DOMAIN OwnerSpaceIds \subseteq 1 .. 3 * N
         /\ \A i \in DOMAIN OwnerSpaceIds :
              /\ OwnerSpaceIds[i] \in SpaceIds
              /\ \E a \in Accounts : OwnerSpaceIds[i] = profiles[a]
<1> DEFINE all == [i \in { j \in DOMAIN OwnerIds : profiles[OwnerIds[j]] # None } |-> profiles[OwnerIds[i]]]
<1>1. /\ DOMAIN all \subseteq DOMAIN OwnerIds
      /\ \A i \in DOMAIN all : /\ all[i] = profiles[OwnerIds[i]] /\ all[i] # None
                              /\ OwnerIds[i] \in Accounts
  BY OwnerIdsAreTyped
<1>2. \A a \in Accounts : profiles[a] \in SpaceIds \cup {None}
  BY DEF TypeOK
<1>3. OwnerSpaceIds = Unique(all)
  BY DEF OwnerSpaceIds
<1> HIDE DEF all
<1> QED BY <1>1, <1>2, <1>3, UniqueIsRestriction, OwnerIdsAreTyped

LEMMA ReadProfilesKeeps ==
  ASSUME Inv, ReadProfiles \/ ReadProfilesFails
  PROVE  Inv'
<1>1. TypeOK /\ result = <<>>
  BY DEF Inv, Empty, ReadProfiles, ReadProfilesFails
<1>2. /\ UNCHANGED <<chain, updates, request, posts, extPosts, rootPosts, owners, spaces, result>>
      /\ phase' \in {"owners", "rejected"}
  BY DEF ReadProfiles, ReadProfilesFails, found
<1>3. \/ profiles' = profiles
      \/ profiles' = [a \in Accounts |-> IF a \in Range(OwnerIds) THEN chain.profile[a] ELSE None]
  BY DEF ReadProfiles, ReadProfilesFails, found
<1>4. \A a \in Accounts : chain.profile[a] \in SpaceIds \cup {None}
  BY <1>1 DEF TypeOK, Chain
<1>5. TypeOK'
  BY <1>1, <1>2, <1>3, <1>4 DEF TypeOK, Range
<1>6. Agreed' /\ CommentsAreOfNoSpace' /\ Empty'
  BY <1>1, <1>2 DEF Inv, Agreed, CommentsAreOfNoSpace, Empty
<1>7. updates = 0 => \A a \in Accounts : profiles'[a] \in {None, chain.profile[a]}
  BY <1>3 DEF Inv, Fresh
<1>8. Fresh'
  BY <1>2, <1>7 DEF Inv, Fresh
<1> QED BY <1>1, <1>2, <1>5, <1>6, <1>8, NothingShown DEF Inv

LEMMA FindOwnersKeeps ==
  ASSUME Inv, FindOwners
  PROVE  Inv'
<1>1. TypeOK /\ result = <<>>
  BY DEF Inv, Empty, FindOwners
<1>2. /\ UNCHANGED <<chain, updates, request, posts, extPosts, rootPosts, profiles, spaces, result>>
      /\ phase' = "spaces"
  BY DEF FindOwners
<1>3. PICK hits \in {OwnerSpaceIds, <<>>} :
        owners' = [a \in Accounts |->
                    LET own == { i \in DOMAIN hits : chain.spaceOwner[hits[i]] = a }
                    IN  IF own = {} THEN None ELSE hits[LastOf(own)]]
  BY DEF FindOwners
<1>4. /\ DOMAIN hits \subseteq 1 .. 3 * N /\ 3 * N \in Nat
      /\ \A i \in DOMAIN hits : hits[i] \in SpaceIds /\ \E a \in Accounts : hits[i] = profiles[a]
  <2>1. 3 * N \in Nat
    BY <1>1, RequestIsTyped
  <2>2. CASE hits = OwnerSpaceIds
    BY <1>1, <2>1, <2>2, OwnerSpaceIdsAreProfiles
  <2>3. CASE hits = <<>>
    <3>1. DOMAIN hits = {}
      BY <2>3
    <3> QED BY <2>1, <3>1
  <2> QED BY <2>2, <2>3
<1>5. \A a \in Accounts :
        \/ owners'[a] = None
        \/ /\ owners'[a] \in SpaceIds /\ chain.spaceOwner[owners'[a]] = a
           /\ \E b \in Accounts : owners'[a] = profiles[b]
  <2> SUFFICES ASSUME NEW a \in Accounts
               PROVE  \/ owners'[a] = None
                      \/ /\ owners'[a] \in SpaceIds /\ chain.spaceOwner[owners'[a]] = a
                         /\ \E b \in Accounts : owners'[a] = profiles[b]
    OBVIOUS
  <2> DEFINE own == { i \in DOMAIN hits : chain.spaceOwner[hits[i]] = a }
  <2>1. owners'[a] = IF own = {} THEN None ELSE hits[LastOf(own)]
    BY <1>3
  <2>2. own \subseteq 1 .. 3 * N
    BY <1>4
  <2>3. \A i \in own : i \in DOMAIN hits /\ chain.spaceOwner[hits[i]] = a
    OBVIOUS
  <2> HIDE DEF own
  <2>4. own # {} => LastOf(own) \in own
    BY <1>4, <2>2, Last
  <2> QED BY <1>4, <2>1, <2>3, <2>4
<1>6. owners' \in [Accounts -> SpaceIds \cup {None}]
  BY <1>3, <1>5
<1>7. TypeOK'
  BY <1>1, <1>2, <1>6 DEF TypeOK, Range
<1>8. Agreed' /\ CommentsAreOfNoSpace' /\ Empty'
  BY <1>1, <1>2 DEF Inv, Agreed, CommentsAreOfNoSpace, Empty
<1>9. updates = 0 => \A a \in Accounts : owners'[a] \in {None, chain.profile[a]}
  <2> SUFFICES ASSUME updates = 0, NEW a \in Accounts, owners'[a] # None
               PROVE  owners'[a] = chain.profile[a]
    OBVIOUS
  <2>1. owners'[a] \in SpaceIds /\ chain.spaceOwner[owners'[a]] = a
    BY <1>5
  <2>2. PICK b \in Accounts : owners'[a] = profiles[b]
    BY <1>5
  <2>3. owners'[a] = chain.profile[b] /\ chain.profile[b] # None
    BY <2>1, <2>2, DetailsAssumption DEF Inv, Fresh
  <2>4. chain.spaceOwner[chain.profile[b]] = b
    BY <1>1, <2>3 DEF TypeOK, SoundChain
  <2> QED BY <2>1, <2>3, <2>4
<1>10. Fresh'
  BY <1>2, <1>9 DEF Inv, Fresh
<1> QED BY <1>1, <1>2, <1>7, <1>8, <1>10, NothingShown DEF Inv

LEMMA FindSpacesKeeps ==
  ASSUME Inv, FindSpaces
  PROVE  Inv'
<1>1. TypeOK /\ result = <<>>
  BY DEF Inv, Empty, FindSpaces
<1>2. /\ UNCHANGED <<chain, updates, request, posts, extPosts, rootPosts, profiles, owners, result>>
      /\ phase' = "join" /\ spaces' \subseteq chain.publicSpaces
  BY DEF FindSpaces
<1>3. spaces' \in SUBSET SpaceIds
  BY <1>1, <1>2 DEF TypeOK, Chain
<1>4. TypeOK'
  BY <1>1, <1>2, <1>3 DEF TypeOK, Range
<1>5. Agreed' /\ CommentsAreOfNoSpace' /\ Empty' /\ Fresh'
  BY <1>1, <1>2 DEF Inv, Agreed, CommentsAreOfNoSpace, Empty, Fresh
<1> QED BY <1>1, <1>2, <1>4, <1>5, NothingShown DEF Inv

LEMMA JoinKeeps ==
  ASSUME Inv, Join
  PROVE  Inv'
<1>1. TypeOK /\ UNCHANGED <<chain, updates, request, found>> /\ result' = Details /\ phase' = "done"
  BY DEF Inv, Join
<1>2. TypeOK'
  BY <1>1, DetailsAreOfThePosts DEF TypeOK, Range, found
<1>3. Agreed' /\ CommentsAreOfNoSpace' /\ Empty' /\ Fresh'
  BY <1>1 DEF Inv, Agreed, CommentsAreOfNoSpace, Empty, Fresh, found
<1>4. Shown'
  BY <1>1, JoinIsOfOneVersion, JoinShowsThreads, JoinIsConsistent DEF Shown
<1> QED BY <1>2, <1>3, <1>4 DEF Inv

----------------------------------------------------------------------------
(* In every state of a search, whatever happens to the chain, the          *)
(* invariant holds.                                                        *)
THEOREM Invariant == Spec => []Inv
<1>1. Inv /\ UNCHANGED vars => Inv'
  <2> SUFFICES ASSUME Inv, UNCHANGED vars PROVE Inv'
    OBVIOUS
  <2>1. TypeOK'
    BY DEF Inv, TypeOK, Range, vars, found
  <2>2. Agreed' /\ CommentsAreOfNoSpace' /\ Empty' /\ Fresh'
    BY DEF Inv, Agreed, CommentsAreOfNoSpace, Empty, Fresh, vars, found
  <2>3. Shown'
    BY DEF Inv, Shown, OneVersionPerPost, CommentsShowTheirThread, UndisturbedSearchIsConsistent, vars, found
  <2> QED BY <2>1, <2>2, <2>3 DEF Inv
<1>2. Inv /\ [Next]_vars => Inv'
  BY <1>1, ChainStepKeeps, FindPostsKeeps, FindExtPostsKeeps, FindRootPostsKeeps,
     ReadProfilesKeeps, FindOwnersKeeps, FindSpacesKeeps, JoinKeeps DEF Next, Search
<1> QED BY <1>2, InitHolds, PTL DEF Spec

(* Every variable of the search keeps its shape, and no list that the code *)
(* builds holds one post twice.                                            *)
THEOREM TypeCorrect == Spec => []TypeOK
BY Invariant, PTL DEF Inv

(* A post that is shown several times is shown in one version.             *)
THEOREM OneVersion == Spec => []OneVersionPerPost
<1>1. Inv => OneVersionPerPost
  BY DEF Inv, Shown
<1> QED BY <1>1, Invariant, PTL

(* Comments are shown in the space of their thread.                        *)
THEOREM Threads == Spec => []CommentsShowTheirThread
<1>1. Inv => CommentsShowTheirThread
  BY DEF Inv, Shown
<1> QED BY <1>1, Invariant, PTL

(* While the chain does not change, the answer is one view of it.          *)
THEOREM Consistent == Spec => []UndisturbedSearchIsConsistent
<1>1. Inv => UndisturbedSearchIsConsistent
  BY DEF Inv, Shown
<1> QED BY <1>1, Invariant, PTL
=============================================================================
