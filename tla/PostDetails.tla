---------------------------- MODULE PostDetails ----------------------------
(***************************************************************************)
(* BasicSubsocialApi.findPostsWithSomeDetails: posts with the post they    *)
(* extend, the profile of their owner and their space                      *)
(* (loadPostStructs.ts).  Six reads follow one another, each from the      *)
(* chain as it is by then; the last of them are joined with the first.     *)
(*                                                                         *)
(* A find is one step here: FindData shows what happens inside, Lookup     *)
(* what may come out (WhatSearchesAnswer in FindData_proofs).  A public    *)
(* find returns some of the public structs it asked for: a file may always *)
(* be missing.                                                             *)
(*                                                                         *)
(* An array that the code fills while it goes through another one is a     *)
(* function here: its elements keep the positions that they come from, and *)
(* stand in the order of these.                                            *)
(***************************************************************************)
EXTENDS Naturals, Sequences, Functions

CONSTANTS PostIds, SpaceIds, Accounts,
          None,       \* undefined, and an Option that is None
          Comments,   \* posts that are comments
          Ext,        \* Ext[p]: the root post of comment p, the original of
                      \* shared post p, None for a regular post
          Creator,    \* Creator[p]: created.account
          Genesis,    \* states the chain may be in when the search begins
          Requests,   \* the searches that are made
          MaxUpdates  \* bound: how often the chain changes

Chain == [postSpace    : [PostIds -> SpaceIds \cup {None}],
          publicPosts  : SUBSET PostIds,   \* visible, with content
          publicSpaces : SUBSET SpaceIds,
          spaceOwner   : [SpaceIds -> Accounts],
          profile      : [Accounts -> SpaceIds \cup {None}]]

(* What the pallets maintain: comments are in no space of their own, and a *)
(* profile is a space of its account.                                      *)
SoundChain(c) ==
  /\ \A p \in Comments : c.postSpace[p] = None
  /\ \A a \in Accounts : c.profile[a] # None => c.spaceOwner[c.profile[a]] = a

Request == [ids : Seq(PostIds), withSpace : BOOLEAN, withOwner : BOOLEAN,
            visibility : {"all", "onlyVisible"}]

ASSUME DetailsAssumption ==
  /\ None \notin PostIds \cup SpaceIds \cup Accounts
  /\ Ext \in [PostIds -> PostIds \cup {None}]
  /\ Comments \subseteq { p \in PostIds : Ext[p] \in PostIds \ Comments }
  /\ Creator \in [PostIds -> Accounts]
  /\ Genesis \subseteq { c \in Chain : SoundChain(c) }
  /\ Requests \subseteq Request
  /\ MaxUpdates \in Nat

VARIABLES
  chain,      \* storage as it is now
  updates,    \* how often it has changed
  phase,      \* the read that comes next, or how the search ended
  request,    \* the argument of the search
  posts,      \* the posts it found, each as it was when it was read
  extPosts,   \* the posts that those extend
  rootPosts,  \* the root posts of the comments among extPosts
  profiles,   \* profiles[a]: the profile of account a when it was read
  owners,     \* ownerByIdMap
  spaces,     \* keys of spaceByIdMap
  result      \* the array that was returned

found == <<posts, extPosts, rootPosts, profiles, owners, spaces>>
vars  == <<chain, updates, phase, request, found, result>>

PostStruct == [id : PostIds, space : SpaceIds \cup {None}]
IdsOf(list) == { list[i].id : i \in DOMAIN list }

(* getUniqueIds: each id where it stands first.                            *)
Unique(list) ==
  Restrict(list, { i \in DOMAIN list : \A j \in DOMAIN list : j < i => list[j] # list[i] })

(* push: what has positions of the request is followed by list.            *)
Then(before, list) ==
  LET n == Len(request.ids)
      after == { n + i : i \in DOMAIN list }
  IN  [i \in DOMAIN before \cup after |-> IF i \in DOMAIN before THEN before[i] ELSE list[i - n]]

(* The structs of those of ids that are among hits, as they are now.       *)
Read(ids, hits) ==
  [i \in { j \in DOMAIN Unique(ids) : ids[j] \in hits } |->
     [id |-> ids[i], space |-> chain.postSpace[ids[i]]]]

----------------------------------------------------------------------------
(* Transactions while the search is under way.                             *)
Update(c) ==
  /\ updates < MaxUpdates
  /\ chain' = c
  /\ updates' = updates + 1
  /\ UNCHANGED <<phase, request, found, result>>

TogglePost(p) ==
  Update([chain EXCEPT !.publicPosts = IF p \in @ THEN @ \ {p} ELSE @ \cup {p}])

ToggleSpace(s) ==
  Update([chain EXCEPT !.publicSpaces = IF s \in @ THEN @ \ {s} ELSE @ \cup {s}])

MovePost(p, s) ==
  /\ p \notin Comments
  /\ Update([chain EXCEPT !.postSpace[p] = s])

SetProfile(a, s) ==
  /\ s # None => chain.spaceOwner[s] = a
  /\ Update([chain EXCEPT !.profile[a] = s])

(* A space that changes hands is no longer the profile of its old owner.   *)
TransferSpace(s, a) ==
  Update([chain EXCEPT !.spaceOwner[s] = a,
                       !.profile = [b \in Accounts |-> IF @[b] = s /\ b # a THEN None ELSE @[b]]])

ChainStep ==
  \/ \E p \in PostIds : TogglePost(p)
  \/ \E s \in SpaceIds : ToggleSpace(s)
  \/ \E p \in PostIds, s \in SpaceIds \cup {None} : MovePost(p, s)
  \/ \E a \in Accounts, s \in SpaceIds \cup {None} : SetProfile(a, s)
  \/ \E s \in SpaceIds, a \in Accounts : TransferSpace(s, a)

----------------------------------------------------------------------------
(* Which ids the search asks for, and what it has already.                 *)
ExtIdsOfAll ==
  [i \in { j \in DOMAIN posts : Ext[posts[j].id] # None } |-> Ext[posts[i].id]]

(* Defect: what two posts extend stands among the extended posts twice.    *)
ExtIdsOfEach == ExtIdsOfAll

ExtIds        == Unique(ExtIdsOfAll)
KnownExtIds   == Restrict(ExtIds, { i \in DOMAIN ExtIds : ExtIds[i] \in IdsOf(posts) })
MissingExtIds == Restrict(ExtIds, { i \in DOMAIN ExtIds : ExtIds[i] \notin IdsOf(posts) })

PostOf(list, p) == list[CHOOSE i \in DOMAIN list : list[i].id = p]

(* rootIds: an extended post that is in no space sends for its own root,   *)
(* unless that is among the posts or among the extended posts before it.   *)
NeedsRoot(i) ==
  request.withSpace /\ extPosts[i].space = None /\ Ext[extPosts[i].id] # None

RootIds == { Ext[extPosts[i].id] : i \in { j \in DOMAIN extPosts : NeedsRoot(j) } }

KnownRootIds ==
  { p \in RootIds :
      \/ p \in IdsOf(posts)
      \/ \E i, j \in DOMAIN extPosts : /\ NeedsRoot(i) /\ Ext[extPosts[i].id] = p
                                       /\ \A k \in DOMAIN extPosts : k < i /\ NeedsRoot(k) => Ext[extPosts[k].id] # p
                                       /\ j <= i /\ extPosts[j].id = p }

(* ownerIds, in order: each creator of a post once, then those of extPosts *)
OwnerIds ==
  Then(Unique([i \in DOMAIN posts |-> Creator[posts[i].id]]),
       [i \in DOMAIN extPosts |-> Creator[extPosts[i].id]])

OwnerSpaceIds ==
  Unique([i \in { j \in DOMAIN OwnerIds : profiles[OwnerIds[j]] # None } |->
            profiles[OwnerIds[i]]])

SpaceIdsToLoad ==
  ({ posts[i].space : i \in DOMAIN posts } \cup { extPosts[i].space : i \in DOMAIN extPosts }
    \cup { p.space : p \in rootPosts }) \ {None}

----------------------------------------------------------------------------
(* loadAndSetPostRelatedStructs: the join.                                 *)
ExtOf(post) ==
  LET e == Ext[post.id]
  IN  IF e # None /\ e \in IdsOf(extPosts) THEN PostOf(extPosts, e) ELSE None

RootOf(ext) ==
  IF ext # None /\ ext.space = None /\ \E r \in rootPosts : r.id = Ext[ext.id]
  THEN CHOOSE r \in rootPosts : r.id = Ext[ext.id]
  ELSE None

Loaded(s) == IF s \in spaces THEN s ELSE None

(* setSpaceOnPost for the extension: its space, or else that of its root.  *)
SpaceOfExt(ext) ==
  IF ext = None THEN None
  ELSE IF ext.space # None THEN Loaded(ext.space)
  ELSE IF RootOf(ext) # None THEN Loaded(RootOf(ext).space)
  ELSE None

(* Defect: a comment, which has no space id, is left without a space.      *)
OwnSpaceOf(post) == Loaded(post.space)

SpaceOf(post) ==
  IF Loaded(post.space) # None THEN Loaded(post.space) ELSE SpaceOfExt(ExtOf(post))

WithDetails(post) ==
  LET ext == ExtOf(post)
  IN  [post     |-> post,
       ext      |-> ext,
       root     |-> RootOf(ext),
       owner    |-> owners[Creator[post.id]],
       extOwner |-> IF ext = None THEN None ELSE owners[Creator[ext.id]],
       space    |-> SpaceOf(post),
       extSpace |-> SpaceOfExt(ext)]

Details ==
  LET all == [i \in DOMAIN posts |-> WithDetails(posts[i])]
  IN  IF request.withSpace /\ request.visibility = "onlyVisible"
        THEN Restrict(all, { i \in DOMAIN all : all[i].space # None })
        ELSE all

----------------------------------------------------------------------------
NothingFound ==
  /\ extPosts = <<>>
  /\ rootPosts = {}
  /\ profiles = [a \in Accounts |-> None]
  /\ owners = [a \in Accounts |-> None]
  /\ spaces = {}
  /\ result = <<>>

Init ==
  /\ chain \in Genesis
  /\ updates = 0
  /\ phase = "posts"
  /\ request \in Requests
  /\ posts = <<>>
  /\ NothingFound

(* findPosts(filter): any visibility, so any of the posts asked for.       *)
FindPosts ==
  /\ phase = "posts"
  /\ phase' = "ext"
  /\ \E hits \in SUBSET Range(request.ids) : posts' = Read(request.ids, hits)
  /\ UNCHANGED <<chain, updates, request, extPosts, rootPosts, profiles, owners, spaces, result>>

(* Defect: posts that are there already are loaded again.                  *)
FindExtPostsAfresh ==
  /\ phase = "ext"
  /\ phase' = "roots"
  /\ \E hits \in SUBSET (Range(ExtIds) \cap chain.publicPosts) : extPosts' = Read(ExtIds, hits)
  /\ UNCHANGED <<chain, updates, request, posts, rootPosts, profiles, owners, spaces, result>>

(* findPosts(extIds).                                                      *)
FindExtPosts ==
  /\ phase = "ext"
  /\ phase' = "roots"
  /\ \E hits \in SUBSET (Range(MissingExtIds) \cap chain.publicPosts) :
       extPosts' = Then([i \in DOMAIN KnownExtIds |-> PostOf(posts, KnownExtIds[i])],
                        Read(MissingExtIds, hits))
  /\ UNCHANGED <<chain, updates, request, posts, rootPosts, profiles, owners, spaces, result>>

(* findPosts(rootIds).                                                     *)
FindRootPosts ==
  /\ phase = "roots"
  /\ phase' = IF request.withOwner THEN "profiles" ELSE "spaces"
  /\ \E hits \in SUBSET ((RootIds \ KnownRootIds) \cap chain.publicPosts) :
       rootPosts' =
         { PostOf(IF p \in IdsOf(extPosts) THEN extPosts ELSE posts, p) : p \in KnownRootIds }
           \cup { [id |-> p, space |-> chain.postSpace[p]] : p \in hits }
  /\ UNCHANGED <<chain, updates, request, posts, extPosts, profiles, owners, spaces, result>>

(* findProfileSpaces reads the ids of the profiles first.                  *)
ReadProfiles ==
  /\ phase = "profiles"
  /\ phase' = "owners"
  /\ profiles' = [a \in Accounts |-> IF a \in Range(OwnerIds) THEN chain.profile[a] ELSE None]
  /\ UNCHANGED <<chain, updates, request, posts, extPosts, rootPosts, owners, spaces, result>>

(* Unlike a find, profileSpaceIdsByAccounts catches nothing.               *)
ReadProfilesFails ==
  /\ phase = "profiles"
  /\ phase' = "rejected"
  /\ UNCHANGED <<chain, updates, request, found, result>>

LastOf(positions) == CHOOSE i \in positions : \A j \in positions : j <= i

(* Defect: every post is given the last profile.                           *)
FindOneOwner ==
  /\ phase = "owners"
  /\ phase' = "spaces"
  /\ \E hits \in {OwnerSpaceIds, <<>>} :
       owners' = [a \in Accounts |-> IF hits = <<>> THEN None ELSE hits[LastOf(DOMAIN hits)]]
  /\ UNCHANGED <<chain, updates, request, posts, extPosts, rootPosts, profiles, spaces, result>>

(* Then it loads those spaces, public or not, all of them or none, and     *)
(* keys each by the owner it has by now: of two with one owner, the last.  *)
FindOwners ==
  /\ phase = "owners"
  /\ phase' = "spaces"
  /\ \E hits \in {OwnerSpaceIds, <<>>} :
       owners' = [a \in Accounts |->
                    LET own == { i \in DOMAIN hits : chain.spaceOwner[hits[i]] = a }
                    IN  IF own = {} THEN None ELSE hits[LastOf(own)]]
  /\ UNCHANGED <<chain, updates, request, posts, extPosts, rootPosts, profiles, spaces, result>>

(* Defect: the search does not go on without spaces.                       *)
FindSomeSpaces ==
  /\ phase = "spaces"
  /\ SpaceIdsToLoad # {}
  /\ phase' = "join"
  /\ spaces' \in SUBSET (SpaceIdsToLoad \cap chain.publicSpaces)
  /\ UNCHANGED <<chain, updates, request, posts, extPosts, rootPosts, profiles, owners, result>>

(* findSpaces(spaceIds), if the request is for spaces.                     *)
FindSpaces ==
  /\ phase = "spaces"
  /\ phase' = "join"
  /\ IF request.withSpace
       THEN spaces' \in SUBSET (SpaceIdsToLoad \cap chain.publicSpaces)
       ELSE spaces' = {}
  /\ UNCHANGED <<chain, updates, request, posts, extPosts, rootPosts, profiles, owners, result>>

Join ==
  /\ phase = "join"
  /\ phase' = "done"
  /\ result' = Details
  /\ UNCHANGED <<chain, updates, request, found>>

Search ==
  \/ FindPosts \/ FindExtPosts \/ FindRootPosts
  \/ ReadProfiles \/ ReadProfilesFails \/ FindOwners
  \/ FindSpaces \/ Join

Next == ChainStep \/ Search

(* The node and the gateway answer or fail in the end, as in FindData.     *)
Spec == Init /\ [][Next]_vars /\ WF_vars(Search)
----------------------------------------------------------------------------
TypeOK ==
  /\ chain \in Chain /\ SoundChain(chain)
  /\ updates \in 0 .. MaxUpdates
  /\ phase \in {"posts", "ext", "roots", "profiles", "owners", "spaces", "join",
                "done", "rejected"}
  /\ request \in Requests
  /\ DOMAIN posts \subseteq DOMAIN request.ids
  /\ DOMAIN extPosts \subseteq 1 .. 2 * Len(request.ids)
  /\ Range(posts) \cup Range(extPosts) \cup rootPosts \subseteq PostStruct
  /\ \A i, j \in DOMAIN posts : posts[i].id = posts[j].id => i = j
  /\ \A i, j \in DOMAIN extPosts : extPosts[i].id = extPosts[j].id => i = j
  /\ profiles \in [Accounts -> SpaceIds \cup {None}]
  /\ owners \in [Accounts -> SpaceIds \cup {None}]
  /\ spaces \in SUBSET SpaceIds
  /\ DOMAIN result \subseteq DOMAIN posts

(* A post that stands in the answer more than once, as itself and as what  *)
(* others extend, stands there in one version, though the posts may have   *)
(* been edited between the reads: postByIdMap hands out what is there.     *)
OneVersionPerPost ==
  \A i, j \in DOMAIN result :
    LET versions == { result[i].post, result[j].post, result[i].ext, result[j].ext } \ {None}
    IN  \A v, w \in versions : v.id = w.id => v = w

(* A comment is shown in the space its root post was in, if that space was *)
(* loaded, and in no other; where the root is itself in no space, only in  *)
(* one that the post which the root shares was in.                         *)
CommentsShowTheirThread ==
  \A i \in DOMAIN result :
    LET d == result[i]
        rootSpace == IF d.ext = None THEN None ELSE d.ext.space
    IN  d.post.id \in Comments =>
          /\ rootSpace # None => d.space = IF rootSpace \in spaces THEN rootSpace ELSE None
          /\ rootSpace = None /\ d.space # None =>
               /\ d.ext # None /\ d.root # None
               /\ d.root.id = Ext[Ext[d.post.id]] /\ d.root.space = d.space

(* Six reads that the chain does not disturb make one view of it: every    *)
(* owner is the profile of its creator, and every space is one that is     *)
(* public and that the post, what it extends or the root of that is in.    *)
UndisturbedSearchIsConsistent ==
  updates = 0 =>
    \A i \in DOMAIN result :
      LET d == result[i] IN
      /\ d.owner \in {None, chain.profile[Creator[d.post.id]]}
      /\ d.ext # None => d.extOwner \in {None, chain.profile[Creator[d.ext.id]]}
      /\ d.space # None =>
           /\ d.space \in chain.publicSpaces
           /\ \E p \in {d.post.id, Ext[d.post.id]} \cup
                    (IF d.ext = None THEN {} ELSE {Ext[d.ext.id]}) :
                p # None /\ chain.postSpace[p] = d.space

(* Every search returns, or rejects, whatever was found on the way.        *)
SearchEnds == <>(phase \in {"done", "rejected"})

(* "Find and load posts with their extension and owner's profile": the     *)
(* space that is shown as the owner of a post was the profile of its       *)
(* creator when profiles were read.                                        *)
OwnerIsTheirProfile ==
  \A i \in DOMAIN result :
    result[i].owner \in {None, profiles[Creator[result[i].post.id]]}
=============================================================================
