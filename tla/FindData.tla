------------------------------ MODULE FindData ------------------------------
(***************************************************************************)
(* InnerSubsocialApi.findSpaces and findPosts: a search reads structs from *)
(* the chain (substrate/index.ts, findStructs and visibilityFilter), then  *)
(* loads their files from IPFS (IpfsContent), then joins the two and       *)
(* applies contentFilter.  findSpaces and findPosts differ in the pallet   *)
(* they query and in nothing else.                                         *)
(*                                                                         *)
(* The search suspends at both awaits; the chain goes on changing          *)
(* meanwhile, and no read holds it still.  Searches share no state, so one *)
(* at a time is enough.                                                    *)
(***************************************************************************)
EXTENDS Filters

CONSTANTS Queries,        \* the searches that are made
          ChainStructs,   \* the structs that transactions may store
          Malformed, Canon, Cbor, Size

VARIABLES chain,   \* chain[id]: the struct storage holds now
          phase,   \* of the search: "idle", "querying", "loading" or "done"
          query,   \* its argument
          loaded,  \* position -> the Option that queryPalletMulti returned
          answer,  \* position -> entry of the array that was returned
          stage, requested, timed, task, read, content  \* of IpfsContent

Ipfs == INSTANCE IpfsContent

searchVars == <<phase, query, loaded, answer>>
ipfsVars   == <<stage, requested, timed, task, read, content>>
vars       == <<chain, searchVars, ipfsVars>>

(* What the search promises.                                               *)
AbsPhase == CASE phase = "idle"     -> "idle"
              [] phase = "querying" -> "asked"
              [] phase = "loading"  -> "seen"
              [] phase = "done"     -> "answered"
Abs == INSTANCE Lookup WITH phase <- AbsPhase, seen <- loaded

ASSUME FindAssumption ==
  /\ ChainStructs \subseteq Struct
  /\ Queries \subseteq Query
  /\ Ipfs!IpfsParameters

----------------------------------------------------------------------------
(* Defect: the visibility of the query is not passed on.                   *)
KeptAnyStructs(q, found) == { p \in DOMAIN found : found[p] # NoStruct }

(* findStructs: unwrap keeps the structs that exist; then visibilityFilter *)
KeptStructs(q, found) ==
  { p \in DOMAIN found : found[p] # NoStruct /\ VisibilityFilter(q.visibility, found[p]) }

(* getCidsOfStructs and getUniqueIds                                       *)
CidsToLoad(q, found) == { CidOf(found[p]) : p \in KeptStructs(q, found) } \ {Undefined}

(* Defect: files are dealt out in the order they came, not by their CID.   *)
JoinAnyContent(struct, contents) ==
  [struct |-> struct,
   content |-> IF CidOf(struct) # Undefined /\ contents # {}
                 THEN CHOOSE c \in contents : TRUE ELSE Undefined]

(* findDataArray: contents[hash], with the hash as the struct spells it    *)
JoinContent(struct, contents) ==
  [struct |-> struct,
   content |-> IF CidOf(struct) \in contents THEN CidOf(struct) ELSE Undefined]

Answer(q, found, contents) ==
  LET joined == [p \in KeptStructs(q, found) |-> JoinContent(found[p], contents)]
  IN  [p \in { i \in DOMAIN joined : ContentFilter(q.withContentOnly, joined[i]) } |-> joined[p]]

----------------------------------------------------------------------------
Init ==
  /\ chain \in [Ids -> ChainStructs \cup {NoStruct}]
  /\ \A id \in Ids : chain[id] # NoStruct => chain[id].id = id
  /\ phase = "idle"
  /\ query = NoQuery
  /\ loaded = <<>>
  /\ answer = <<>>
  /\ Ipfs!Init

(* A transaction creates a struct, edits it, hides it or shows it again.   *)
UpdateStruct(struct) ==
  /\ chain' = [chain EXCEPT ![struct.id] = struct]
  /\ UNCHANGED <<searchVars, ipfsVars>>

(* forceRemovePost *)
RemoveStruct(id) ==
  /\ chain' = [chain EXCEPT ![id] = NoStruct]
  /\ UNCHANGED <<searchVars, ipfsVars>>

Find(q) ==
  /\ phase \in {"idle", "done"}
  /\ phase' = "querying"
  /\ query' = q
  /\ loaded' = <<>>
  /\ answer' = <<>>
  /\ UNCHANGED <<chain, ipfsVars>>

(* The rest of findStructs and the first part of findDataArray: the node   *)
(* answers for all ids from one block, and the files are asked for, without *)
(* a timeout.                                                              *)
Load(found) ==
  /\ phase = "querying"
  /\ phase' = "loading"
  /\ loaded' = found
  /\ Ipfs!GetContentArray(CidsToLoad(query, found), FALSE)
  /\ UNCHANGED <<chain, query, answer>>

(* Defect: an id that is asked for twice is loaded twice.                  *)
StructsLoadedTwice ==
  Load([p \in { i \in DOMAIN query.ids : query.ids[i] # Undefined } |-> chain[query.ids[p]]])

StructsLoaded ==
  Load([p \in UniquePositions(query.ids) |-> chain[query.ids[p]]])

(* The catch of findStructs answers [], as if nothing were stored.  It is  *)
(* not reached for no ids: then nothing is asked of the node.              *)
QueryFails ==
  /\ UniquePositions(query.ids) # {}
  /\ Load([p \in UniquePositions(query.ids) |-> NoStruct])

GatewayStep(c) == Ipfs!GatewayStep(c) /\ UNCHANGED <<chain, searchVars>>

(* Defect: a task that failed is awaited for ever.                         *)
AllLoaded ==
  /\ \A c \in Cids : task[c] # "failed"
  /\ Ipfs!AllSettled
  /\ UNCHANGED <<chain, searchVars>>

AllSettled == Ipfs!AllSettled /\ UNCHANGED <<chain, searchVars>>

(* Defect: findContents is not awaited.                                    *)
ReturnEarly ==
  /\ phase = "loading"
  /\ phase' = "done"
  /\ answer' = Answer(query, loaded, content)
  /\ UNCHANGED <<chain, query, loaded, ipfsVars>>

Return ==
  /\ phase = "loading"
  /\ stage = "done"
  /\ phase' = "done"
  /\ answer' = Answer(query, loaded, content)
  /\ UNCHANGED <<chain, query, loaded, ipfsVars>>

Next ==
  \/ \E struct \in ChainStructs : UpdateStruct(struct)
  \/ \E id \in Ids : RemoveStruct(id)
  \/ \E q \in Queries : Find(q)
  \/ StructsLoaded
  \/ QueryFails
  \/ \E c \in Cids : GatewayStep(c)
  \/ AllSettled
  \/ Return

(* The event loop resumes what is ready.  The node and the gateway answer, *)
(* or fail, every request: the search passes no timeout to getContentArray *)
(* and has none of its own, so its return rests on theirs.                 *)
Fairness ==
  /\ WF_vars(StructsLoaded \/ QueryFails)
  /\ WF_vars(AllSettled)
  /\ WF_vars(Return)
  /\ \A c \in Cids : WF_vars(GatewayStep(c))

Spec == Init /\ [][Next]_vars /\ Fairness
----------------------------------------------------------------------------
TypeOK ==
  /\ chain \in Abs!Storage
  /\ phase \in {"idle", "querying", "loading", "done"}
  /\ query \in Queries \cup {NoQuery}
  /\ DOMAIN loaded \subseteq UniquePositions(query.ids)
  /\ \A p \in DOMAIN loaded : loaded[p] \in Struct \cup {NoStruct}
  /\ DOMAIN answer \subseteq DOMAIN loaded
  /\ \A p \in DOMAIN answer : answer[p] \in Entry
  /\ Ipfs!TypeOK

(* An answer never pairs a struct with the file of another one, with a     *)
(* file that was not read to its end, or with an id that was not asked     *)
(* for: the join of findDataArray by hash, over tasks that finish in any   *)
(* order, or fail.                                                         *)
AnswerIsGenuine ==
  phase = "done" =>
    \A p \in DOMAIN answer :
      /\ answer[p].struct.id = query.ids[p]
      /\ answer[p].content # Undefined =>
           /\ answer[p].content = answer[p].struct.content
           /\ File[answer[p].content] \in Parseable
           /\ task[answer[p].content] = "loaded"

(* findPublicSpaces and findPublicPosts: what they return is public for    *)
(* the application too, which asks isPublic of flatteners/utils.ts and not *)
(* the filters of the search.                                              *)
PublicSearchIsPublic ==
  phase = "done" /\ query = PublicOf(query.ids) =>
    \A p \in DOMAIN answer : IsPublicData(answer[p])

(* A file that was loaded reaches every struct that carries its CID, and   *)
(* with it the struct passes the content filter: what one gateway request  *)
(* does never costs another struct its content.                            *)
LoadedFilesReachTheirStructs ==
  phase = "done" =>
    \A p \in KeptStructs(query, loaded) :
      LET cid == CidOf(loaded[p])
      IN  cid # Undefined /\ task[cid] = "loaded" /\ File[cid] = "object"
            => p \in DOMAIN answer /\ answer[p].content = cid

(* The search keeps the promise of Lookup.                                 *)
KeepsItsPromise == Abs!Spec

(* A search that was begun returns.                                        *)
FindReturns == phase = "querying" ~> phase = "done"

(* findPublicSpaces and findPublicPosts: public is what is not hidden and  *)
(* has a JSON file on IPFS; nothing else keeps it out, unless the request  *)
(* for that very file failed.                                              *)
PublicSearchIsComplete ==
  phase = "done" /\ query = PublicOf(query.ids) =>
    \A p \in DOMAIN loaded :
      /\ loaded[p] # NoStruct
      /\ ~ loaded[p].hidden
      /\ CidOf(loaded[p]) \in Cids \ Malformed
      /\ File[CidOf(loaded[p])] = "object"
      /\ task[Canon[CidOf(loaded[p])]] # "failed"
      => p \in DOMAIN answer
=============================================================================
