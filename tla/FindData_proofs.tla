--------------------------- MODULE FindData_proofs ---------------------------
(***************************************************************************)
(* Theorems about FindData, for every set of ids, CIDs, files and queries. *)
(*                                                                         *)
(* What an answer says rests on three facts that no single action shows:   *)
(* a key of the result of IPFS means that its own task has loaded it, no   *)
(* task is pending once the call has returned, and an answer is a function *)
(* of what was read and loaded by then.                                    *)
(***************************************************************************)
EXTENDS FindData, SequenceTheorems, TLAPS

(* The result object of IPFS agrees with the tasks that write to it.       *)
TasksWriteTheResult ==
  /\ \A c \in content : task[c] = "loaded" /\ File[c] \in Parseable
  /\ \A c \in Cids : task[c] = "loaded" => c \in content

(* No task outlives its call.                                              *)
SettledWhenDone ==
  stage # "loading" => \A c \in Cids : task[c] \notin Ipfs!Pending

(* The search was given what the chain held for the ids it asks for.       *)
LoadedWhatWasAsked ==
  phase \in {"loading", "done"} =>
    \A p \in DOMAIN loaded :
      p \in DOMAIN query.ids /\ (loaded[p] # NoStruct => loaded[p].id = query.ids[p])

(* The answer is the join of what was read and loaded.                     *)
AnswerIsTheJoin ==
  phase = "done" => stage = "done" /\ answer = Answer(query, loaded, content)

IpfsInv ==
  /\ Ipfs!TypeOK
  /\ TasksWriteTheResult
  /\ SettledWhenDone

IInv ==
  /\ TypeOK
  /\ IpfsInv
  /\ LoadedWhatWasAsked
  /\ AnswerIsTheJoin
----------------------------------------------------------------------------
(* Facts about the operators.                                              *)

(* A struct that is stored carries a CID or it does not.                   *)
LEMMA CidOfStruct ==
  ASSUME NEW s \in Struct
  PROVE  /\ CidOf(s) \in Cids \cup {Undefined}
         /\ CidOf(s) # Undefined => CidOf(s) = s.content
BY DEF Struct, CidOf

(* The entries of an answer, one by one.                                   *)
LEMMA AnswerEntries ==
  ASSUME NEW q, NEW f, NEW c
  PROVE  /\ DOMAIN Answer(q, f, c) \subseteq KeptStructs(q, f)
         /\ \A p \in KeptStructs(q, f) :
              p \in DOMAIN Answer(q, f, c) <=>
                ContentFilter(q.withContentOnly, JoinContent(f[p], c))
         /\ \A p \in DOMAIN Answer(q, f, c) : Answer(q, f, c)[p] = JoinContent(f[p], c)
BY DEF Answer

(* Lookup speaks of the same structs.                                      *)
LEMMA SameStructs == Abs!Struct = Struct
BY DEF Abs!Struct, Abs!Content, Struct, Content

----------------------------------------------------------------------------
(* IpfsContent inside the search: each of its steps keeps IpfsInv.         *)

LEMMA CallKeepsIpfsInv ==
  ASSUME IpfsInv, NEW cids \in SUBSET Cids, NEW t \in BOOLEAN,
         Ipfs!GetContentArray(cids, t)
  PROVE  IpfsInv'
<1> USE DEF IpfsInv, Ipfs!GetContentArray
<1>1. Ipfs!TypeOK'
  BY DEF Ipfs!TypeOK, Ipfs!Tasks
<1>2. TasksWriteTheResult'
  BY DEF TasksWriteTheResult
<1>3. SettledWhenDone'
  BY DEF SettledWhenDone, Ipfs!Pending
<1> QED BY <1>1, <1>2, <1>3

LEMMA SettleKeepsIpfsInv ==
  ASSUME IpfsInv, NEW c \in Cids, NEW ok \in BOOLEAN,
         task[c] \in Ipfs!Pending, ok => File[c] \in Parseable,
         Ipfs!Settle(c, ok)
  PROVE  IpfsInv'
<1> USE DEF IpfsInv, Ipfs!Settle
<1>1. Ipfs!TypeOK'
  BY DEF Ipfs!TypeOK, Ipfs!Tasks
<1>2. TasksWriteTheResult'
  BY DEF TasksWriteTheResult, Ipfs!TypeOK, Ipfs!Pending
<1>3. SettledWhenDone'
  BY DEF SettledWhenDone, Ipfs!TypeOK, Ipfs!Pending
<1> QED BY <1>1, <1>2, <1>3

LEMMA GatewayKeepsIpfsInv ==
  ASSUME IpfsInv, NEW c \in Cids, Ipfs!GatewayStep(c)
  PROVE  IpfsInv' /\ task[c] \in Ipfs!Pending
<1> USE DEF Ipfs!Pending
<1>1. CASE Ipfs!DagAnswers(c)
  <2>1. (File[c] \in Parseable) \in BOOLEAN
    OBVIOUS
  <2> QED BY <1>1, <2>1, SettleKeepsIpfsInv DEF Ipfs!DagAnswers, Ipfs!Parseable, Parseable
<1>2. CASE Ipfs!CatAnswers(c)
  BY <1>2 DEF Ipfs!CatAnswers, IpfsInv, Ipfs!TypeOK, Ipfs!Tasks, TasksWriteTheResult, SettledWhenDone
<1>3. CASE Ipfs!Chunk(c)
  BY <1>3 DEF Ipfs!Chunk, IpfsInv, Ipfs!TypeOK, TasksWriteTheResult, SettledWhenDone
<1>4. CASE Ipfs!StreamEnds(c)
  <2>1. (read[c] = Size[c] /\ File[c] \in Parseable) \in BOOLEAN
    OBVIOUS
  <2> QED BY <1>4, <2>1, SettleKeepsIpfsInv DEF Ipfs!StreamEnds, Ipfs!Parseable, Parseable
<1>5. CASE Ipfs!Fails(c)
  BY <1>5, SettleKeepsIpfsInv DEF Ipfs!Fails
<1> QED BY <1>1, <1>2, <1>3, <1>4, <1>5 DEF Ipfs!GatewayStep

LEMMA AllSettledKeepsIpfsInv ==
  ASSUME IpfsInv, Ipfs!AllSettled
  PROVE  IpfsInv'
BY DEF IpfsInv, Ipfs!AllSettled, Ipfs!TypeOK, TasksWriteTheResult, SettledWhenDone

----------------------------------------------------------------------------
(* The search: IInv holds at first, and every step keeps it.               *)

LEMMA InitIInv == Init => IInv
<1> SUFFICES ASSUME Init PROVE IInv
  OBVIOUS
<1> USE DEF Init, Ipfs!Init
<1>1. TypeOK
  <2>1. chain \in Abs!Storage
    BY FindAssumption, SameStructs DEF Abs!Storage
  <2>2. Ipfs!TypeOK
    BY DEF Ipfs!TypeOK, Ipfs!Tasks
  <2>3. DOMAIN loaded = {} /\ DOMAIN answer = {}
    OBVIOUS
  <2> QED BY <2>1, <2>2, <2>3 DEF TypeOK
<1>2. IpfsInv
  BY <1>1 DEF IpfsInv, TypeOK, TasksWriteTheResult, SettledWhenDone, Ipfs!Pending
<1>3. LoadedWhatWasAsked /\ AnswerIsTheJoin
  BY DEF LoadedWhatWasAsked, AnswerIsTheJoin
<1> QED BY <1>1, <1>2, <1>3 DEF IInv

(* A transaction touches nothing but the chain.                            *)
LEMMA ChainStepKeepsIInv ==
  ASSUME IInv, UNCHANGED <<searchVars, ipfsVars>>,
         NEW id \in Ids, NEW s \in Struct \cup {NoStruct},
         s # NoStruct => s.id = id,
         chain' = [chain EXCEPT ![id] = s]
  PROVE  IInv'
<1> USE DEF IInv, searchVars, ipfsVars
<1>1. chain' \in Abs!Storage
  BY SameStructs DEF TypeOK, Abs!Storage
<1>2. Ipfs!TypeOK'
  BY DEF TypeOK, Ipfs!TypeOK
<1>3. TypeOK'
  BY <1>1, <1>2 DEF TypeOK
<1>4. IpfsInv'
  BY <1>2 DEF IpfsInv, TasksWriteTheResult, SettledWhenDone
<1>5. LoadedWhatWasAsked' /\ AnswerIsTheJoin'
  BY DEF LoadedWhatWasAsked, AnswerIsTheJoin
<1> QED BY <1>3, <1>4, <1>5

LEMMA FindKeepsIInv ==
  ASSUME IInv, NEW q \in Queries, Find(q)
  PROVE  IInv'
<1> USE DEF IInv, Find, ipfsVars
<1>1. Ipfs!TypeOK'
  BY DEF TypeOK, Ipfs!TypeOK
<1>2. TypeOK'
  <2>1. DOMAIN loaded' = {} /\ DOMAIN answer' = {}
    OBVIOUS
  <2> QED BY <1>1, <2>1 DEF TypeOK
<1>3. IpfsInv'
  BY <1>1 DEF IpfsInv, TasksWriteTheResult, SettledWhenDone
<1>4. LoadedWhatWasAsked' /\ AnswerIsTheJoin'
  BY DEF LoadedWhatWasAsked, AnswerIsTheJoin
<1> QED BY <1>2, <1>3, <1>4

(* What the node answers: for each position the struct of its id, or none. *)
IsAnswerOfNode(f) ==
  /\ DOMAIN f = UniquePositions(query.ids)
  /\ \A p \in DOMAIN f :
       f[p] \in Struct \cup {NoStruct} /\ (f[p] # NoStruct => f[p].id = query.ids[p])

LEMMA UniqueAreIds ==
  ASSUME TypeOK
  PROVE  /\ UniquePositions(query.ids) \subseteq DOMAIN query.ids
         /\ \A p \in UniquePositions(query.ids) : query.ids[p] \in Ids
<1>1. query.ids \in Seq(Ids \cup {Undefined})
  <2>1. query \in Queries => query.ids \in Seq(Ids \cup {Undefined})
    BY FindAssumption DEF Query
  <2>2. query = NoQuery => query.ids = << >>
    BY DEF NoQuery
  <2> QED BY <2>1, <2>2, EmptySeq DEF TypeOK
<1> QED BY <1>1 DEF UniquePositions

LEMMA LoadKeepsIInv ==
  ASSUME IInv, NEW f, IsAnswerOfNode(f), Load(f)
  PROVE  IInv'
<1> USE DEF IInv, Load
<1>1. CidsToLoad(query, f) \in SUBSET Cids
  <2>1. ASSUME NEW p \in KeptStructs(query, f)
        PROVE  CidOf(f[p]) \in Cids \cup {Undefined}
    BY <2>1, CidOfStruct DEF KeptStructs, IsAnswerOfNode
  <2> QED BY <2>1 DEF CidsToLoad
<1>2. IpfsInv'
  BY <1>1, CallKeepsIpfsInv
<1>3. TypeOK'
  BY <1>2 DEF TypeOK, IpfsInv, IsAnswerOfNode
<1>4. LoadedWhatWasAsked'
  BY UniqueAreIds DEF LoadedWhatWasAsked, IsAnswerOfNode
<1>5. AnswerIsTheJoin'
  BY DEF AnswerIsTheJoin
<1> QED BY <1>2, <1>3, <1>4, <1>5

LEMMA NodeAnswers ==
  ASSUME TypeOK
  PROVE  /\ IsAnswerOfNode([p \in UniquePositions(query.ids) |-> chain[query.ids[p]]])
         /\ IsAnswerOfNode([p \in UniquePositions(query.ids) |-> NoStruct])
BY UniqueAreIds, SameStructs DEF IsAnswerOfNode, TypeOK, Abs!Storage

(* Every entry of an answer joins a struct that was read with its file.    *)
LEMMA EntriesAreEntries ==
  ASSUME TypeOK, NEW p \in DOMAIN Answer(query, loaded, content)
  PROVE  /\ p \in DOMAIN loaded
         /\ loaded[p] # NoStruct
         /\ loaded[p] \in Struct
         /\ Answer(query, loaded, content)[p] = JoinContent(loaded[p], content)
         /\ Answer(query, loaded, content)[p] \in Entry
<1>1. /\ p \in KeptStructs(query, loaded)
      /\ Answer(query, loaded, content)[p] = JoinContent(loaded[p], content)
  BY AnswerEntries
<1>2. p \in DOMAIN loaded /\ loaded[p] # NoStruct /\ loaded[p] \in Struct
  BY <1>1 DEF KeptStructs, TypeOK
<1>3. JoinContent(loaded[p], content) \in Entry
  BY <1>2, CidOfStruct DEF JoinContent, Entry
<1> QED BY <1>1, <1>2, <1>3

LEMMA ReturnKeepsIInv ==
  ASSUME IInv, Return
  PROVE  IInv'
<1> USE DEF IInv, Return, ipfsVars
<1>1. Ipfs!TypeOK'
  BY DEF TypeOK, Ipfs!TypeOK
<1>2. TypeOK'
  BY <1>1, EntriesAreEntries DEF TypeOK
<1>3. IpfsInv'
  BY <1>1 DEF IpfsInv, TasksWriteTheResult, SettledWhenDone
<1>4. LoadedWhatWasAsked' /\ AnswerIsTheJoin'
  BY DEF LoadedWhatWasAsked, AnswerIsTheJoin
<1> QED BY <1>2, <1>3, <1>4

(* Once the search has returned no task is left that could write to the    *)
(* result: a step of the gateway is a step of a search that still loads.   *)
LEMMA IpfsStepKeepsIInv ==
  ASSUME IInv, UNCHANGED <<chain, searchVars>>, IpfsInv',
         phase = "done" => stage' = "done" /\ content' = content
  PROVE  IInv'
BY DEF IInv, searchVars, TypeOK, IpfsInv, LoadedWhatWasAsked, AnswerIsTheJoin

LEMMA StepKeepsIInv == IInv /\ [Next]_vars => IInv'
<1> SUFFICES ASSUME IInv, [Next]_vars PROVE IInv'
  OBVIOUS
<1>1. ASSUME NEW struct \in ChainStructs, UpdateStruct(struct) PROVE IInv'
  <2>1. struct \in Struct /\ struct.id \in Ids
    BY FindAssumption DEF Struct
  <2> QED BY <1>1, <2>1, ChainStepKeepsIInv DEF UpdateStruct
<1>2. ASSUME NEW id \in Ids, RemoveStruct(id) PROVE IInv'
  BY <1>2, ChainStepKeepsIInv DEF RemoveStruct
<1>3. ASSUME NEW q \in Queries, Find(q) PROVE IInv'
  BY <1>3, FindKeepsIInv
<1>4. CASE StructsLoaded
  BY <1>4, LoadKeepsIInv, NodeAnswers DEF StructsLoaded, IInv
<1>5. CASE QueryFails
  BY <1>5, LoadKeepsIInv, NodeAnswers DEF QueryFails, IInv
<1>6. ASSUME NEW c \in Cids, GatewayStep(c) PROVE IInv'
  <2>1. IpfsInv' /\ task[c] \in Ipfs!Pending
    BY <1>6, GatewayKeepsIpfsInv DEF GatewayStep, IInv
  <2>2. phase # "done"
    BY <2>1 DEF IInv, IpfsInv, SettledWhenDone, AnswerIsTheJoin
  <2> QED BY <1>6, <2>1, <2>2, IpfsStepKeepsIInv DEF GatewayStep
<1>7. CASE AllSettled
  <2>1. IpfsInv'
    BY <1>7, AllSettledKeepsIpfsInv DEF AllSettled, IInv
  <2>2. phase # "done"
    BY <1>7 DEF AllSettled, Ipfs!AllSettled, IInv, AnswerIsTheJoin
  <2> QED BY <1>7, <2>1, <2>2, IpfsStepKeepsIInv DEF AllSettled
<1>8. CASE Return
  BY <1>8, ReturnKeepsIInv
<1>9. CASE UNCHANGED vars
  <2>1. UNCHANGED <<chain, searchVars, ipfsVars>>
    BY <1>9 DEF vars
  <2>2. IpfsInv'
    BY <2>1 DEF ipfsVars, IInv, IpfsInv, Ipfs!TypeOK, TasksWriteTheResult, SettledWhenDone
  <2> QED BY <2>1, <2>2, IpfsStepKeepsIInv DEF ipfsVars, IInv, AnswerIsTheJoin
<1> QED BY <1>1, <1>2, <1>3, <1>4, <1>5, <1>6, <1>7, <1>8, <1>9 DEF Next

(* The invariant the theorems below read off.                              *)
THEOREM Invariant == Spec => []IInv
BY InitIInv, StepKeepsIInv, PTL DEF Spec

(* TypeOK: every variable keeps its shape, for every set of ids and CIDs.  *)
THEOREM TypeCorrect == Spec => []TypeOK
<1>1. IInv => TypeOK
  BY DEF IInv
<1> QED BY <1>1, Invariant, PTL

----------------------------------------------------------------------------
(* What an answer says.                                                    *)

(* No answer pairs a struct with a file that is not its own, or that no    *)
(* task has read to its end and parsed; and it is about the ids asked for. *)
THEOREM Genuine == Spec => []AnswerIsGenuine
<1>1. IInv => AnswerIsGenuine
  <2> SUFFICES ASSUME IInv, phase = "done", NEW p \in DOMAIN answer
               PROVE  /\ answer[p].struct.id = query.ids[p]
                      /\ answer[p].content # Undefined =>
                           /\ answer[p].content = answer[p].struct.content
                           /\ File[answer[p].content] \in Parseable
                           /\ task[answer[p].content] = "loaded"
    BY DEF AnswerIsGenuine
  <2>1. answer = Answer(query, loaded, content)
    BY DEF IInv, AnswerIsTheJoin
  <2>2. /\ p \in DOMAIN loaded
        /\ loaded[p] # NoStruct
        /\ loaded[p] \in Struct
        /\ answer[p] = JoinContent(loaded[p], content)
    BY <2>1, EntriesAreEntries DEF IInv
  <2>3. answer[p].struct = loaded[p] /\ loaded[p].id = query.ids[p]
    BY <2>2 DEF JoinContent, IInv, LoadedWhatWasAsked
  <2>4. ASSUME answer[p].content # Undefined
        PROVE  answer[p].content = CidOf(loaded[p]) /\ CidOf(loaded[p]) \in content
    BY <2>2, <2>4 DEF JoinContent
  <2>5. answer[p].content # Undefined => answer[p].content = loaded[p].content
    BY <2>2, <2>4, CidOfStruct
  <2> QED BY <2>3, <2>4, <2>5 DEF IInv, IpfsInv, TasksWriteTheResult
<1> QED BY <1>1, Invariant, PTL

(* What findPublicSpaces and findPublicPosts return is public by isPublic  *)
(* of flatteners/utils.ts as well.                                         *)
THEOREM PublicIsPublic == Spec => []PublicSearchIsPublic
<1>1. IInv => PublicSearchIsPublic
  <2> SUFFICES ASSUME IInv, phase = "done", query = PublicOf(query.ids),
                      NEW p \in DOMAIN answer
               PROVE  IsPublicData(answer[p])
    BY DEF PublicSearchIsPublic
  <2>1. answer = Answer(query, loaded, content)
    BY DEF IInv, AnswerIsTheJoin
  <2>2. query.visibility = "onlyPublic" /\ query.withContentOnly = TRUE
    BY DEF PublicOf
  <2>3. /\ p \in KeptStructs(query, loaded)
        /\ answer[p] = JoinContent(loaded[p], content)
        /\ ContentFilter(query.withContentOnly, answer[p])
    BY <2>1, AnswerEntries
  <2>4. ~ loaded[p].hidden
    BY <2>2, <2>3 DEF KeptStructs, VisibilityFilter, IsUnlisted, IsHidden
  <2>5. ~ answer[p].struct.hidden
    BY <2>3, <2>4 DEF JoinContent
  <2>6. HasDerivedContent(answer[p])
    BY <2>2, <2>3 DEF ContentFilter, IsEmptyIpfsContent, HasDerivedContent
  <2> QED BY <2>5, <2>6 DEF IsPublicData
<1> QED BY <1>1, Invariant, PTL

(* No file that was loaded is lost in the join, whatever became of others. *)
THEOREM NothingLoadedIsLost == Spec => []LoadedFilesReachTheirStructs
<1>1. IInv => LoadedFilesReachTheirStructs
  <2> SUFFICES ASSUME IInv, phase = "done", NEW p \in KeptStructs(query, loaded),
                      CidOf(loaded[p]) # Undefined,
                      task[CidOf(loaded[p])] = "loaded",
                      File[CidOf(loaded[p])] = "object"
               PROVE  p \in DOMAIN answer /\ answer[p].content = CidOf(loaded[p])
    BY DEF LoadedFilesReachTheirStructs
  <2>1. answer = Answer(query, loaded, content)
    BY DEF IInv, AnswerIsTheJoin
  <2>2. loaded[p] \in Struct
    BY DEF KeptStructs, IInv, TypeOK
  <2>3. CidOf(loaded[p]) \in content
    BY <2>2, CidOfStruct DEF IInv, IpfsInv, TasksWriteTheResult
  <2>4. JoinContent(loaded[p], content).content = CidOf(loaded[p])
    BY <2>3 DEF JoinContent
  <2>5. ContentFilter(query.withContentOnly, JoinContent(loaded[p], content))
    BY <2>4 DEF ContentFilter, IsEmptyIpfsContent
  <2> QED BY <2>1, <2>4, <2>5, AnswerEntries
<1> QED BY <1>1, Invariant, PTL

----------------------------------------------------------------------------
(* FindData implements Lookup.                                             *)

LEMMA InitRefines == Init => Abs!Init
<1> SUFFICES ASSUME Init PROVE Abs!Init
  OBVIOUS
<1>1. IInv
  BY InitIInv
<1>2. chain \in Abs!Storage /\ AbsPhase = "idle"
  BY <1>1 DEF IInv, TypeOK, AbsPhase, Init
<1> QED BY <1>2 DEF Init, Abs!Init, NoQuery, Abs!NoQuery

(* The join keeps the promise, whichever files arrived.                    *)
LEMMA JoinIsPromised ==
  ASSUME IInv
  PROVE  Abs!Promised(query, loaded, Answer(query, loaded, content))
<1> DEFINE a == Answer(query, loaded, content)
<1>1. ASSUME NEW p \in DOMAIN a
      PROVE  /\ p \in DOMAIN loaded
             /\ a[p].struct = loaded[p]
             /\ Abs!Matches(query, loaded[p])
             /\ a[p].content = IF CidOf(loaded[p]) \in content THEN CidOf(loaded[p]) ELSE Undefined
             /\ ContentFilter(query.withContentOnly, a[p])
  <2>1. /\ p \in KeptStructs(query, loaded)
        /\ a[p] = JoinContent(loaded[p], content)
        /\ ContentFilter(query.withContentOnly, a[p])
    BY AnswerEntries
  <2>2. Abs!Matches(query, loaded[p])
    BY <2>1 DEF KeptStructs, Abs!Matches, VisibilityFilter, Abs!VisibilityFilter, IsHidden,
                IsUnlisted, IsEmptyContent, Abs!IsHidden, Abs!IsUnlisted, Abs!IsEmptyContent
  <2> QED BY <2>1, <2>2 DEF KeptStructs, JoinContent
<1>2. \A s : Abs!CidOf(s) = CidOf(s)
  BY DEF Abs!CidOf, CidOf
<1>3. ASSUME NEW p \in DOMAIN a
      PROVE  /\ a[p].content \in {Undefined, Abs!CidOf(loaded[p])}
             /\ a[p].content # Undefined => File[a[p].content] \in Abs!Parseable
             /\ Abs!ContentFilter(query.withContentOnly, a[p])
  BY <1>1, <1>2 DEF IInv, IpfsInv, TasksWriteTheResult, Abs!Parseable, Parseable, ContentFilter,
       Abs!ContentFilter, IsEmptyIpfsContent, Abs!IsEmptyIpfsContent
<1>4. ASSUME NEW p \in DOMAIN loaded \ DOMAIN a, Abs!Matches(query, loaded[p])
      PROVE  query.withContentOnly
  <2>1. p \in KeptStructs(query, loaded)
    BY <1>4 DEF KeptStructs, Abs!Matches, VisibilityFilter, Abs!VisibilityFilter, IsHidden,
                IsUnlisted, IsEmptyContent, Abs!IsHidden, Abs!IsUnlisted, Abs!IsEmptyContent
  <2>2. ~ ContentFilter(query.withContentOnly, JoinContent(loaded[p], content))
    BY <2>1, AnswerEntries
  <2> QED BY <2>2 DEF ContentFilter
<1>5. \A p1, p2 \in DOMAIN a :
        Abs!CidOf(loaded[p1]) = Abs!CidOf(loaded[p2]) => a[p1].content = a[p2].content
  BY <1>1, <1>2
<1> HIDE DEF a
<1> QED BY <1>1, <1>3, <1>4, <1>5 DEF Abs!Promised, a

LEMMA StepRefines == IInv /\ [Next]_vars => [Abs!Next]_(Abs!vars)
<1> SUFFICES ASSUME IInv, [Next]_vars PROVE [Abs!Next]_(Abs!vars)
  OBVIOUS
<1> USE DEF Abs!vars, AbsPhase
<1>1. ASSUME NEW struct \in ChainStructs, UpdateStruct(struct) PROVE Abs!Next
  <2>1. struct \in Abs!Struct
    BY FindAssumption, SameStructs
  <2> QED BY <1>1, <2>1 DEF UpdateStruct, searchVars, Abs!UpdateStruct, Abs!Next
<1>2. ASSUME NEW id \in Ids, RemoveStruct(id) PROVE Abs!Next
  BY <1>2 DEF RemoveStruct, searchVars, Abs!RemoveStruct, Abs!Next
<1>3. ASSUME NEW q \in Queries, Find(q) PROVE Abs!Next
  BY <1>3 DEF Find, Abs!Ask, Abs!Next
<1>4. ASSUME Load([p \in UniquePositions(query.ids) |-> chain[query.ids[p]]])
      PROVE  Abs!Next
  BY <1>4 DEF Load, Abs!Look, Abs!Next, UniquePositions, Abs!UniquePositions
<1>5. ASSUME Load([p \in UniquePositions(query.ids) |-> NoStruct])
      PROVE  Abs!Next
  BY <1>5 DEF Load, Abs!Look, Abs!Next, UniquePositions, Abs!UniquePositions
<1>6. ASSUME NEW c \in Cids, GatewayStep(c) PROVE UNCHANGED Abs!vars
  BY <1>6 DEF GatewayStep, searchVars
<1>7. ASSUME AllSettled PROVE UNCHANGED Abs!vars
  BY <1>7 DEF AllSettled, searchVars
<1>8. ASSUME Return PROVE Abs!Next
  BY <1>8, JoinIsPromised DEF Return, Abs!Reply, Abs!Next
<1>9. ASSUME UNCHANGED vars PROVE UNCHANGED Abs!vars
  BY <1>9 DEF vars, searchVars
<1> QED BY <1>1, <1>2, <1>3, <1>4, <1>5, <1>6, <1>7, <1>8, <1>9
        DEF Next, StructsLoaded, QueryFails

(* The search keeps the promise of Lookup: whatever the chain does between *)
(* the reads and however the tasks of IPFS end, its answer is a filtered   *)
(* view of one state of the chain.                                         *)
THEOREM Refinement == Spec => KeepsItsPromise
BY InitRefines, StepRefines, Invariant, PTL DEF Spec, KeepsItsPromise, Abs!Spec
----------------------------------------------------------------------------
(* The part of which a search is made: what it does to the files it asks   *)
(* for, IpfsContent does, and so what IpfsContent keeps, a search keeps.    *)

(* A search finds IpfsContent ready, and IpfsContent reads files whole.    *)
Composed ==
  /\ phase \in {"idle", "querying"} => stage # "loading"
  /\ Ipfs!OnlyWholeFiles

LEMMA GatewayReadsWholeFiles ==
  ASSUME IInv, Ipfs!OnlyWholeFiles, NEW c \in Cids, Ipfs!GatewayStep(c)
  PROVE  Ipfs!OnlyWholeFiles' /\ stage' = stage
<1> USE DEF Ipfs!OnlyWholeFiles
<1>1. task \in [Cids -> Ipfs!Tasks] /\ read \in [Cids -> Nat] /\ content \in SUBSET Cids
  BY DEF IInv, TypeOK, Ipfs!TypeOK
<1>2. CASE Ipfs!DagAnswers(c)
  BY <1>1, <1>2 DEF Ipfs!DagAnswers, Ipfs!Settle
<1>3. CASE Ipfs!CatAnswers(c)
  BY <1>1, <1>3 DEF Ipfs!CatAnswers
<1>4. CASE Ipfs!Chunk(c)
  BY <1>1, <1>4 DEF Ipfs!Chunk
<1>5. CASE Ipfs!StreamEnds(c)
  BY <1>1, <1>5 DEF Ipfs!StreamEnds, Ipfs!Settle
<1>6. CASE Ipfs!Fails(c)
  <2>1. c \notin content
    BY <1>6 DEF Ipfs!Fails, Ipfs!Pending
  <2> QED BY <1>1, <1>6, <2>1 DEF Ipfs!Fails, Ipfs!Settle
<1> QED BY <1>2, <1>3, <1>4, <1>5, <1>6 DEF Ipfs!GatewayStep

LEMMA StepKeepsComposed == IInv /\ Composed /\ [Next]_vars => Composed'
<1> SUFFICES ASSUME IInv, Composed, [Next]_vars PROVE Composed'
  OBVIOUS
<1> USE DEF Composed
<1>1. CASE UNCHANGED ipfsVars /\ (phase' = phase \/ phase' = "done")
  BY <1>1 DEF ipfsVars, Ipfs!OnlyWholeFiles
<1>2. ASSUME NEW q \in Queries, Find(q) PROVE Composed'
  <2>1. stage # "loading"
    BY <1>2 DEF Find, IInv, AnswerIsTheJoin
  <2> QED BY <1>2, <2>1 DEF Find, ipfsVars, Ipfs!OnlyWholeFiles
<1>3. ASSUME NEW found, Load(found) PROVE Composed'
  BY <1>3 DEF Load, Ipfs!GetContentArray, Ipfs!OnlyWholeFiles
<1>4. ASSUME NEW c \in Cids, GatewayStep(c) PROVE Composed'
  BY <1>4, GatewayReadsWholeFiles DEF GatewayStep, searchVars
<1>5. CASE AllSettled
  BY <1>5 DEF AllSettled, Ipfs!AllSettled, searchVars, Ipfs!OnlyWholeFiles
<1>6. ASSUME (\E struct \in ChainStructs : UpdateStruct(struct)) \/ (\E id \in Ids : RemoveStruct(id))
              \/ Return \/ UNCHANGED vars
      PROVE  UNCHANGED ipfsVars /\ (phase' = phase \/ phase' = "done")
  BY <1>6 DEF UpdateStruct, RemoveStruct, Return, vars, searchVars
<1> QED BY <1>1, <1>2, <1>3, <1>4, <1>5, <1>6 DEF Next, StructsLoaded, QueryFails

(* Every file of an answer was read to its end, or came by dag-cbor; that  *)
(* IpfsContent is called only when it is at rest never keeps a search from *)
(* loading.                                                                *)
THEOREM WholeFilesInAnswers ==
  Spec => [](/\ phase = "querying" => stage # "loading"
             /\ phase = "done" =>
                  \A p \in DOMAIN answer :
                    LET cid == answer[p].content
                    IN  cid # Undefined => cid \in Cbor \/ read[cid] = Size[cid])
<1> DEFINE Whole ==
             \A p \in DOMAIN answer :
               LET cid == answer[p].content
               IN  cid # Undefined => cid \in Cbor \/ read[cid] = Size[cid]
<1>1. Init => Composed
  BY DEF Init, Ipfs!Init, Composed, Ipfs!OnlyWholeFiles
<1>2. IInv /\ Composed =>
        (phase = "querying" => stage # "loading") /\ (phase = "done" => Whole)
  <2> SUFFICES ASSUME IInv, Composed, phase = "done", NEW p \in DOMAIN answer,
                      answer[p].content # Undefined
               PROVE  answer[p].content \in Cbor
                      \/ read[answer[p].content] = Size[answer[p].content]
    BY DEF Composed
  <2>1. answer = Answer(query, loaded, content)
    BY DEF IInv, AnswerIsTheJoin
  <2>2. answer[p] = JoinContent(loaded[p], content)
    BY <2>1, AnswerEntries
  <2>3. answer[p].content \in content
    BY <2>2 DEF JoinContent
  <2> QED BY <2>3 DEF Composed, Ipfs!OnlyWholeFiles
<1> QED BY <1>1, <1>2, StepKeepsComposed, Invariant, PTL DEF Spec

(* A search is a use of IpfsContent: it asks for CIDs that structs carry,  *)
(* with no timeout, and not before the last call has returned.             *)
THEOREM LoadsAsIpfsContent ==
  Spec => Ipfs!Init /\ [][Ipfs!Next]_ipfsVars /\ [](timed = FALSE)
<1>1. Init => Ipfs!Init /\ timed = FALSE
  BY DEF Init, Ipfs!Init
<1>2. timed = FALSE /\ [Next]_vars => (timed = FALSE)'
  <2> SUFFICES ASSUME timed = FALSE, [Next]_vars PROVE timed' = FALSE
    OBVIOUS
  <2>1. ASSUME NEW c \in Cids, GatewayStep(c) PROVE timed' = FALSE
    BY <2>1 DEF GatewayStep, Ipfs!GatewayStep, Ipfs!DagAnswers, Ipfs!CatAnswers, Ipfs!Chunk,
                Ipfs!StreamEnds, Ipfs!Fails, Ipfs!Settle
  <2> QED BY <2>1 DEF Next, UpdateStruct, RemoveStruct, Find, StructsLoaded, QueryFails, Load,
                      Ipfs!GetContentArray, AllSettled, Ipfs!AllSettled, Return, vars, ipfsVars
<1>3. IInv /\ [Next]_vars => [Ipfs!Next]_ipfsVars
  <2> SUFFICES ASSUME IInv, [Next]_vars PROVE Ipfs!Next \/ UNCHANGED ipfsVars
    OBVIOUS
  <2>1. ASSUME NEW found, Load(found), IsAnswerOfNode(found) PROVE Ipfs!Next
    <3>1. \A p \in KeptStructs(query, found) : CidOf(found[p]) \in Cids \cup {Undefined}
      BY <2>1, CidOfStruct DEF KeptStructs, IsAnswerOfNode
    <3>2. CidsToLoad(query, found) \in SUBSET Cids
      BY <3>1 DEF CidsToLoad
    <3> QED BY <2>1, <3>2 DEF Load, Ipfs!Next
  <2>2. CASE StructsLoaded \/ QueryFails
    BY <2>1, <2>2, NodeAnswers DEF StructsLoaded, QueryFails, IInv
  <2>3. ASSUME NEW c \in Cids, GatewayStep(c) PROVE Ipfs!Next
    BY <2>3 DEF GatewayStep, Ipfs!Next
  <2>4. CASE AllSettled
    BY <2>4 DEF AllSettled, Ipfs!Next
  <2> QED BY <2>2, <2>3, <2>4 DEF Next, UpdateStruct, RemoveStruct, Find, Return, vars
<1> QED BY <1>1, <1>2, <1>3, Invariant, PTL DEF Spec

----------------------------------------------------------------------------
(* What is made of searches: loadPostStructs goes on with what searches    *)
(* answer, and PostDetails takes these answers to be as follows.           *)

(* What the promise of Lookup leaves open: of the structs that were read,  *)
(* one for each id, findPublicSpaces and findPublicPosts answer some of    *)
(* those that are public, each once; a search without filters answers all  *)
(* that there are.                                                         *)
THEOREM WhatSearchesAnswer ==
  ASSUME NEW ids \in Seq(Ids \cup {Undefined}), NEW c \in Abs!Storage, NEW a
  PROVE  LET seen == [p \in UniquePositions(ids) |-> c[ids[p]]]
         IN  /\ Abs!Promised(PublicOf(ids), seen, a) =>
                  \A p \in DOMAIN a :
                    /\ ids[p] \in Ids /\ a[p].struct = c[ids[p]] /\ a[p].struct.id = ids[p]
                    /\ ~ IsUnlisted(c[ids[p]]) /\ IsPublicData(a[p])
                    /\ \A q \in DOMAIN a : ids[q] = ids[p] => q = p
             /\ Abs!Promised(AllOf(ids), seen, a) =>
                  DOMAIN a = { p \in UniquePositions(ids) : c[ids[p]] # NoStruct }
<1> DEFINE seen == [p \in UniquePositions(ids) |-> c[ids[p]]]
<1>1. /\ \A p \in UniquePositions(ids) : p \in Nat /\ p \in DOMAIN ids /\ ids[p] \in Ids
      /\ \A p, q \in UniquePositions(ids) : ids[q] = ids[p] => q = p
  <2>1. \A p \in UniquePositions(ids) :
          /\ p \in DOMAIN ids /\ p \in Nat \ {0} /\ ids[p] \in Ids
          /\ \A q \in 1 .. p - 1 : ids[q] # ids[p]
    BY DEF UniquePositions
  <2>2. ASSUME NEW p \in UniquePositions(ids), NEW q \in UniquePositions(ids), ids[q] = ids[p], q # p
        PROVE  FALSE
    <3>1. p \in Nat \ {0} /\ q \in Nat \ {0}
      BY <2>1
    <3>2. q \in 1 .. p - 1 \/ p \in 1 .. q - 1
      BY <2>2, <3>1
    <3> QED BY <2>1, <2>2, <3>2
  <2> QED BY <2>1, <2>2
<1>2. DOMAIN seen = UniquePositions(ids) /\ \A p \in UniquePositions(ids) : seen[p] = c[ids[p]]
  OBVIOUS
<1>3. \A p \in UniquePositions(ids) : c[ids[p]] # NoStruct => c[ids[p]].id = ids[p]
  BY <1>1 DEF Abs!Storage
<1> HIDE DEF seen
<1>4. ASSUME Abs!Promised(PublicOf(ids), seen, a), NEW p \in DOMAIN a
      PROVE  /\ ids[p] \in Ids /\ a[p].struct = c[ids[p]] /\ a[p].struct.id = ids[p]
             /\ ~ IsUnlisted(c[ids[p]]) /\ IsPublicData(a[p])
             /\ \A q \in DOMAIN a : ids[q] = ids[p] => q = p
  <2>1. DOMAIN a \subseteq UniquePositions(ids) /\ a[p].struct = c[ids[p]]
    BY <1>2, <1>4 DEF Abs!Promised
  <2>2. c[ids[p]] # NoStruct /\ ~ IsUnlisted(c[ids[p]])
    <3>1. Abs!Matches(PublicOf(ids), c[ids[p]])
      BY <1>2, <1>4, <2>1 DEF Abs!Promised
    <3> QED BY <3>1 DEF Abs!Matches, PublicOf, Abs!VisibilityFilter, Abs!IsUnlisted, Abs!IsHidden,
                       Abs!IsEmptyContent, IsUnlisted, IsHidden, IsEmptyContent
  <2>3. IsPublicData(a[p])
    <3>1. Abs!ContentFilter(TRUE, a[p])
      BY <1>4 DEF Abs!Promised, PublicOf
    <3>2. a[p].content # Undefined /\ File[a[p].content] = "object"
      BY <3>1 DEF Abs!ContentFilter, Abs!IsEmptyIpfsContent
    <3> QED BY <2>1, <2>2, <3>2 DEF IsPublicData, HasDerivedContent, IsUnlisted, IsHidden
  <2> QED BY <1>1, <1>3, <2>1, <2>2, <2>3
<1>5. ASSUME Abs!Promised(AllOf(ids), seen, a)
      PROVE  DOMAIN a = { p \in UniquePositions(ids) : c[ids[p]] # NoStruct }
  <2>1. \A s : Abs!Matches(AllOf(ids), s) <=> s # NoStruct
    BY DEF Abs!Matches, AllOf, Abs!VisibilityFilter
  <2>2. DOMAIN a \subseteq UniquePositions(ids) /\ \A p \in DOMAIN a : seen[p] # NoStruct
    BY <1>2, <1>5, <2>1 DEF Abs!Promised
  <2>3. \A p \in UniquePositions(ids) \ DOMAIN a : seen[p] = NoStruct
    BY <1>2, <1>5, <2>1 DEF Abs!Promised, AllOf
  <2> DEFINE Answered == DOMAIN a
  <2>4. /\ Answered \subseteq UniquePositions(ids) /\ \A p \in Answered : c[ids[p]] # NoStruct
        /\ \A p \in UniquePositions(ids) \ Answered : c[ids[p]] = NoStruct
    BY <1>2, <2>2, <2>3
  <2> HIDE DEF Answered
  <2>5. Answered = { p \in UniquePositions(ids) : c[ids[p]] # NoStruct }
    BY <2>4
  <2> QED BY <2>5 DEF Answered
<1> QED BY <1>4, <1>5 DEF seen
=============================================================================
