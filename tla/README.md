# A verification project for subsocial-js

TLA+ models of the Subsocial SDK (`packages/api`, `packages/utils`,
`packages/resource-discussions`), TLC runs that check them on small instances,
and proofs for the TLA+ proof system (TLAPS) that hold for every instance.
`PROJECT.json` lists, in a form for tools, which definition models which lines,
what each run checks, a plausible defect that each property finds, the
hazards of the code and the theorems.

- [1. The system](#1-the-system)
- [2. The modules](#2-the-modules)
- [3. The runs](#3-the-runs)
- [4. Where the code and its texts disagree](#4-where-the-code-and-its-texts-disagree)
- [5. Fairness](#5-fairness)
- [6. The proofs](#6-the-proofs)
- [7. What is not modelled](#7-what-is-not-modelled)
- [8. The plan](#8-the-plan)

## 1. The system

The SDK joins two stores that know nothing of each other: structs of the
Subsocial blockchain, and JSON files of IPFS that the structs name by a CID.
It runs on the event loop of one JavaScript process; every `await` lets other
calls, and the two stores, go on.

| Component | State it keeps | Operations | Talks to |
|---|---|---|---|
| IPFS reads (`api/src/ipfs/index.ts`) | per call: the object `content` that its tasks share | `getContentArray`, `getContentArrayFromIpfs`, `getContent` | gateway: `dag.get`, `cat` |
| IPFS writes (same file) | two clients, the headers of writes and those of pins | `saveContent`, `saveFile`, `saveJson`, `pinContent`, `unpinContent`, three offchain methods, two setters of headers | gateway or admin node, cluster, offchain service |
| Substrate queries (`substrate/index.ts`) | none | who has roles, permissions of an account, reactions of an account; counts, follows, lists | node, some of them twice |
| Searches (`subsocial/inner.ts`, `substrate/index.ts`, `filters/`) | per call: structs, files | `findSpaces`, `findPosts` and the searches of `basic.ts` that fix their filters | node, then IPFS reads |
| Posts with details (`utils/loadPostStructs.ts`, `subsocial/basic.ts`) | per call: six maps | `findPostsWithSomeDetails` and its variants | four searches and two reads of profiles, in sequence |
| Connections (`connections/index.ts`) | the module variable `api`, the global units of `formatBalance` | `getSubstrateApi`, `create` | node |
| Social remark (`utils/src/socialRemark`) | one shared configuration; per instance: a copy of it and `msgParsed` | `setConfig`, `fromMessage`, `fromSource`, `toMessage` | its caller, whose content object it shares |
| Resource discussions (`resource-discussions`) | one graph, never changed after its construction; per call: the id so far | `toResourceId`, `mapNodes`, which call each other | — |
| Flatteners, definitions, utilities, encryption, Elasticsearch, wrappers | none | conversions and single requests | — |

What is hard, and what makes each component correct:

- **IPFS reads.** Tasks run concurrently and write to one object; the gateway
  may refuse, break a stream, end it early, or never begin to answer. Only
  whole files may be in the result, one task's failure must cost its own CID
  only, a result that was handed out must not change, and a timeout must work.
- **Searches.** The chain changes at both awaits, files come in any order. A
  struct must not get the file of another; what a public search returns must
  be public; a file that came must reach every struct that names it.
- **Posts with details.** Six reads see six states of the chain and are joined
  in one answer. The answer must not show one post in two versions, must show a
  comment where its thread is, and must be exact if nothing changed meanwhile.
- **Connections.** Calls race for the module variable. Nobody may get a
  connection that is not ready, the units of `formatBalance` must be those of
  the cached connection, and the cache must settle.
- **IPFS writes.** A response may be lost and a request carried out late.
  What a call answers must be stored; who awaits one pin before the next must
  find the cluster as the last one left it; each request must leave with the
  headers that were set last for its kind, which stand in three places.
- **Substrate queries.** Some read ids and then what these lead to, from a later
  state of the chain. Who held a role throughout must be listed; what an
  account is told about its permissions and reactions must not be another's; a
  count computed from a number of bytes must be the length of the list.
- **Resource discussions.** A discussion is found by its id alone. The walk goes
  on after a match and falls back to nodes for any name, yet an id must tell
  each field once. What the graph accepts must be what the types declare, two
  lists kept by hand. Names and values go into an id as they are; where that
  leaves it the id of one resource has to be said.
- **Social remark.** Configurations change while remarks of the old one are in
  use; a remark and its caller write to the same content object; what one side
  writes the other side must read.

The hazards, each at its line, are in `PROJECT.json`, with the properties that
would catch each, or the reason why none does.

## 2. The modules

```
Files ── IpfsContent ──────────────┐ INSTANCE
   └──── Filters ── FindData ──────┘        Connections    PostDetails    SocialRemark
            └────── Lookup  <── refinement ── FindData
IpfsWrites    StorageLength ── SubstrateQueries    ResourceWalk ── ResourceGraph
MC<module>.tla, MC<module>*.cfg: instances for TLC;  <module>_proofs.tla: proofs
```

**Files** says which kinds of files the code can tell apart. IPFS is content
addressed, so a file never changes.

**IpfsContent** is one call of `getContentArrayFromIpfs` at a time: calls share
nothing. `GetContentArray` is the call up to its `await`, with the early `{}`
if any CID does not parse. `task[c]` is the task of CID `c`, `read[c]` the
chunks it has appended, `content` the keys of the shared object. `DagAnswers`,
`CatAnswers`, `Chunk`, `StreamEnds`, `Fails` are what the gateway does, `TimesOut`
is the client's timer, `AllSettled` the return. A CID may have several
spellings (`Canon`): the result is keyed by `CID.toString()`.

**Filters** has the structs as the filters see them, the queries, the
visibility and content filters, and the two predicates `isUnlisted` and
`isPublic` that the flatteners apply for the application.

**FindData** is `findSpaces`/`findPosts`: `Find`, the read of the node
(`StructsLoaded`, or `QueryFails`, which the code turns into `[]`), the IPFS
call (an instance of IpfsContent, started inside the same step as the code
does), and `Return` with the join and the content filter. `UpdateStruct` and
`RemoveStruct` change the chain at any moment. **Lookup** is the abstract
specification: after a search is asked, the chain is looked at once, and the
answer is an exact view of that, in which only files may be missing.

**PostDetails** is `loadRelatedStructs`. A find is one step here and returns
any part of what it may (a file can always be missing): FindData has the
inside. `FindPosts`, `FindExtPosts`, `FindRootPosts`, `ReadProfiles`,
`FindOwners`, `FindSpaces`, `Join` are its six reads and the join; five kinds
of transactions change the chain between any two of them. The order of the
code's lookups (which root posts are reused, which space wins) is kept. An array
that the code fills while it goes through another one is a function on the
positions that its elements come from; nothing asks for positions without gaps.

**Connections** is `getSubstrateApi` with any number of calls: `Cached`,
`Rejects`, `Connect` (up to the `await`) and `Ready` (the rest, which runs
without a pause). A connection is named by the call that opened it.

**IpfsWrites** has a request for every call: the call sends it (`Send`) and
waits, the service carries it out or refuses it (`CarryOut`, `RefuseRequest`),
and the call is answered or fails at any time after it was sent (`Answer`,
`OtherStatus`, `Fail`), which leaves the request on its way. The three states of
the services are what nodes store, what the cluster has pinned and what the
offchain service keeps. `told` remembers what the application set, `before[c]`
which pins were answered when call `c` was made.

**StorageLength** is `getStorageLength` with the encoding that it computes from.
**SubstrateQueries** is one call of a kind that reads twice, over a history of
blocks (`chain`), each made from the one before by one transaction
(`NewBlock`). `ReadIds` and `ReadRest` look at the last block by then, or fail;
only `findStructs` turns a failure into `[]`. The queries of one read are
operators on a block.

**ResourceWalk** is `toResourceId` and `mapNodes`, over any graph. They call each
other, so the state is a stack: `here` is the call of `mapNodes` that runs,
`callers` those that wait for it. An action is one call of the callback
(`Descend`, `PassBy`, `TakeValue`, `SkipOptional`, `RefuseMissing`) or what
follows the loop (`Fallback`, `RefuseUnmatched`, `Return`, `Finish`). The walk
keeps its id as a sequence of sections, one for each `+=`; `ResourceId` is the
string they make, with nothing escaped. A string is the sequence of its words
and of the separators between them (`Text`), so a value with separators in it
can read as a value and a section. **ResourceGraph** is the graph that
`graph.ts` builds, for any lists of chains and applications, and, beside it,
the combinations that `types/` declares (`DeclaredTypes`, `ValuesOf`, `Faults`),
which know nothing of the graph. `Unlinked` names the declared resources that
the graph does not link.

**SocialRemark** is the protocol's class: `SetConfig`, `New` (which copies the
configuration), `RefuseMessage`/`ReadMessage` (`fromMessage`),
`RefuseSource`/`TakeSource` (`fromSource`), `ToMessage`. A string is the
sequence of the chunks that `split("::")` makes of it, so that a field with a
delimiter in it has two chunks. `from[i]` says whose content object the remark
shares; `Edit` is the caller who changes it in place. The subject of a content
is `domainName` or `energyAmount`, by its action, which stand at the same
position. What remarks write, others may read, and so may foreign messages.

Operators whose comment begins with "Defect:" are not part of a model: each is
a bug one could plausibly write in place of the definition after it, and a
property is known to find it.

## 3. The runs

| Run | Shows | Instance |
|---|---|---|
| `ipfs` | OnlyWholeFiles, EachCidHasItsOutcome, ResultIsFrozen, TimedCallReturns | any subset of 5 CIDs: a JSON file of 2 chunks, a second spelling of it, a dag-cbor file, text that does not parse, a string that is no CID; with and without a timeout |
| `find` | AnswerIsGenuine, PublicSearchIsPublic, LoadedFilesReachTheirStructs, the refinement of Lookup (KeepsItsPromise), FindReturns | 2 ids, 10 structs, 6 queries with duplicate, undefined and no ids |
| `connections` | UnitsFollowTheCache, OnlyReadyConnections, CacheSettles, ReachableCallReturns | 5 calls: two for one node, one for another, one for a node that never answers, one for no URL |
| `details` | OneVersionPerPost, CommentsShowTheirThread, UndisturbedSearchIsConsistent, SearchEnds | 5 posts (regular, comment on it, shares of both, comment on a share), 2 spaces, 2 accounts, 4 requests, 2 changes of the chain |
| `writes` | AnswersAreBacked, AwaitedCallsLast, RequestsHaveTheirHeaders | 3 calls of 5 methods (a save, a pin, an unpin, two of the offchain service) about one CID, 2 sets of headers or none, with and without an admin node, in a browser or not |
| `queries` | HoldersAreListed, PermissionsAreOfItsRoles, ReactionsAreTheirs, AnswersOfOneMomentAgree, CallEnds | 3 roles in 2 spaces, 2 accounts, 2 permissions, 2 posts, 3 blocks, 4 reaction ids, 63 or 64 replies |
| `resource` | EachFieldOnce, WalkMeetsTypes, SameIdSameResource, WalkEnds | the package's graph with 2 chains of each type and 1 application; two resources after one another, of 7 types, with listed, unlisted, misplaced and missing names; with all values, without the required one, without the optional ones; names and values with separators, and the word `undefined` |
| `remark` | KeepsToItsConfiguration, ReadsBack, RegistrationsAreAddressed | 2 remarks, 2 sources with 3 contents, 2 configurations to set, 5 foreign messages |

Every run also checks its module's `TypeOK`, and none switches deadlock off
for what could be a lost wake-up. Where the configuration has
`CHECK_DEADLOCK FALSE` (`connections`, `details`, `writes`, `queries`,
`resource`), the model ends when every call has returned and no more changes
of the chain, or no third resource, are allowed.

Why the bounds are enough:

- `ipfs`: two chunks tell "none", "some" and "all" apart. Every pair of kinds of
  CIDs meets in some call; tasks do not read each other's state.
- `find`: the shortest bad join needs two structs and two files. One struct has
  three files, the other every kind of content that is no file. The file size
  is one chunk, as `ipfs` covers streams.
- `connections`: three racing connections are one more than the first and its
  overtaker; the fourth and fifth never become ready.
- `details`: `MaxUpdates = 2` is the only cap. The hardest case needs one change
  before and one after a read; the posts form the longest chains of
  extensions the code follows (share of a comment of a regular post, comment on
  a share of it). The theorems of section 6 have no such bounds.
- `writes`: three calls are a request that failed, one that overtakes it and one
  that was awaited; CIDs do not meet in the model except where they are equal.
  The calls are interchangeable, so their symmetry is used.
- `queries`: `MaxBlocks = 3` lets one transaction fall before and one after the
  first read, or two between the reads; that takes a role away and gives it
  another permission. `MaxReaction = 4` leaves two ids to be given, one
  to replace a reaction; `MaxReplies = 64` is where the prefix of the list
  grows to two bytes.
- `resource`: names and values do not matter to the walk except where they are
  equal to a node's name; zeitgeist is the one chain that the code treats apart.
  Every way in which a declared resource can be unlinked is among the inputs. Six
  texts have separators: some read as the next section and some do not, and
  without the premise `Unambiguous` TLC finds two resources with one id.
- `remark`: no bound but the finite sets; the state space is explored to its
  end. The remarks are interchangeable, so their symmetry is used.

## 4. Where the code and its texts disagree

Each is a run that TLC ends with a counterexample to one property.

| Run | What a text says | What the code does |
|---|---|---|
| `find_public` | `basic.ts:32`: public is what is not hidden and has a JSON file | one struct with a string that is no CID makes the whole batch `{}`, and a public search returns nothing; a CID in another base is loaded under a key nobody looks up |
| `details_owner` | `basic.ts:110`: posts with "owner's profile" | a space that changes hands between the two reads of `findProfileSpaces` is shown as profile of its new owner |
| `remark_valid` | `socialRemark/README.md:84`: "Checks if a remark message is a valid SocialRemark message" | a string that is no message leaves the remark as it was: valid, with the content of the last message |
| `permissions` | `substrate/index.ts:553`: "space permissions owned by a given `accountId`" | the roles are read first and their permissions later: a role that was revoked and then changed answers a permission the account held at no moment |

Seen and not run, as one line of the code decides each:

- `basic.ts:49` calls unlisted also what has no JSON file on IPFS; a search for
  what is unlisted decides on the chain alone (`visibility-filter.ts:11`).
- `subsocial/index.ts:72`: `create` uses the given config; once a connection is
  cached it answers, whatever the URL (`connections/index.ts:10`).
- `subsocial/index.ts:316` promises a post with its owner; the last conversion
  drops the owner that was loaded (`flatteners/utils.ts:47`).
- The README of `resource-discussions` (29-32) sends its reader to the types for
  "all possible parameters combinations". `types/chain.ts:103-137` declares
  resources that the graph does not link, so that `toResourceId` throws
  (`Unlinked` in ResourceGraph; `WalkMeetsTypes` says that these are all):
  accounts, where the field `resourceType` is called wrong on listed names, and
  the graph library throws its own error on names that are not listed, as the
  type has no value in the graph; markets of every chain but zeitgeist;
  proposals and NFTs of substrate chains that are not listed; and NFTs where
  `chainType` is the name of an EVM chain, which line 130 puts beside `evm`.
- The same types require every name. A chain, a chain type or an application that
  is missing is accepted, and written as the word `undefined` (`resource.ts:57`):
  that is the id of a resource with this name, too. `WalkMeetsTypes` allows it,
  `SameIdSameResource` is about resources that have their names.
- A discussion is found by its `resourceId` alone, and the README of the package
  wants the `resourceId` "structure stable and fixed" (line 5), yet nothing in an
  id is escaped (`resource.ts:44`, 55-57, 74): an NFT with the `collectionId`
  `1/nftId:2` has the id of the one with `collectionId` `1` and `nftId` `2`.
  `SameIdSameResource` says which fields have to be free of "/" for an id to be of
  one resource: names, `collectionId` and `nftId`; no other value need be.
- `substrate/index.ts:343` promises `undefined` where an account has not reacted;
  the chain's default id `0` is answered (`ReactionsAreTheirs` shows that
  nothing is found by it).
- The README of the social remark calls `social` the default name of the
  protocol, while `config.ts` begins with none; and `fromSource` sets `valid`
  before the loop that may throw, so a remark whose source was refused for its
  target says that it is valid (it still cannot be written: `toMessage` throws
  as well). Its line 27 promises to convert the address of a receiver of energy,
  too; `decorators.ts:4-24` converts those of registrations alone, and
  `RegistrationsAreAddressed` speaks of these.

## 5. Fairness

- `IpfsContent`: the event loop resumes a promise that has settled
  (`AllSettled`) and fires a timer that is due (`TimesOut`); a stream that has
  begun ends or breaks. A gateway need not begin to answer, so only a call with
  a timeout is shown to return.
- `FindData`: in addition the node answers or fails a query, and the gateway
  answers or fails every request, since a search passes no timeout. FindReturns
  rests on that, and without it a search may indeed wait for ever.
- `Connections`: a node that is there becomes ready in the end. No call has to
  be made.
- `PostDetails`: the search goes on (`WF(Search)`), by the same argument as in
  FindData. Transactions are never fair.
- `SubstrateQueries`: the node answers a query or fails it (`WF(Answers)`). Blocks
  are never fair.
- `ResourceWalk`: the walk runs without a pause (`WF(Walk)`); the application
  need not make another.
- `IpfsWrites` has none: no request has a timeout, and nothing in the code makes
  a service answer.
- `SocialRemark` is synchronous and has no liveness.

## 6. The proofs

For every value of the constants that the named ASSUMEs allow (these say what
a CID's canonical spelling is, that model values are apart, that configurations
name non-empty strings, and the like), TLAPS proves:

- **IpfsContent_proofs**: TypeOK; OnlyWholeFiles; EachCidHasItsOutcome;
  ResultIsFrozen. OnlyWholeFiles and EachCidHasItsOutcome are not inductive
  alone: the invariant adds *ResultOfTasks* (the result has exactly the keys of
  the tasks that loaded a whole file), *TaskForEachWanted* (a call whose strings
  all parse has a task for every CID) and *SettledWhenDone* (no task is pending
  once the call has returned). The last one gives ResultIsFrozen for every step.
- **FindData_proofs**: TypeOK; AnswerIsGenuine; PublicSearchIsPublic;
  LoadedFilesReachTheirStructs; and **FindData implements Lookup**. No single
  action shows what an answer says, so the invariant adds *TasksWriteTheResult* (a key
  of the result means that its own task loaded it, and conversely), *SettledWhenDone*,
  *LoadedWhatWasAsked* (each struct that was read has the id that was asked for) and
  *AnswerIsTheJoin* (a finished answer is the join of what was read with the
  result of IPFS, which no longer changes). The refinement maps `loaded` to `seen` and the phases by `AbsPhase`; every step of the
  gateway is a stutter of Lookup.
- **Connections_proofs**: TypeOK; UnitsFollowTheCache; OnlyReadyConnections;
  CacheSettles, with *CachedIsReady*: the cached connection is one its own call
  returned. However many calls race.
- **SocialRemark_proofs**: TypeOK; KeepsToItsConfiguration;
  RegistrationsAreAddressed; ReadsBack. The invariant adds that a valid remark
  has a core part, and *WireIsWritten*: what is on the wire was made by `Chunks`
  from a converted content. The lemma *SplitUndoesJoin* then computes what
  `split` makes of eight chunks: for fields of any content, and not only for
  those of the run.
- **PostDetails_proofs**: TypeOK; OneVersionPerPost; CommentsShowTheirThread;
  UndisturbedSearchIsConsistent, for any posts, requests and number of changes.
  What an answer shows is a join of six reads, so the invariant says how the
  reads relate: *Agreed* (posts and extended posts hold one version where they
  overlap), *CommentsAreOfNoSpace* (also of those that were read), *Empty* (what a
  later phase reads is not there yet), *Fresh* (while the chain is as it was,
  all that was read is of it) and *Shown* (a result is `Details` of what was
  found, which does not change any more). The two lemmas *JoinShowsThreads* and
  *JoinIsConsistent* then speak of the join alone. *Last* shows that the last of
  two profiles exists, by the well-foundedness of the numbers.
- **IpfsWrites_proofs**: TypeOK; AnswersAreBacked; AwaitedCallsLast;
  RequestsHaveTheirHeaders, for any number of calls and CIDs. The invariant adds
  *HeadersAsTold* (three places hold two settings), *Steps* (how far a call and
  its request are), *CarriedOut* (what was carried out is there, whoever
  got to know) and *LastPin*, which is AwaitedCallsLast for the request in place of the
  answer: that is what a later, late request must not break.
- **SubstrateQueries_proofs**: CountIsExact (no constant, any length);
  TypeOK; HoldersAreListed; PermissionsAreOfItsRoles; ReactionsAreTheirs;
  AnswersOfOneMomentAgree, for any number of blocks. The invariant adds
  that every block is sound, *IdsStay* (no reaction id passes from one account
  and post to another, in the whole history) and *ReadAsItWas* (an answer is what
  the second read made of the ids of the first).
- **ResourceWalk_proofs**, over any graph whose nodes stand in layers
  (`LayersAssumption`; the run checks that the package's graph is one): TypeOK
  and EachFieldOnce. After a match the loop goes on, so the invariant says of a
  call that has matched that no later neighbour will (*NoMore*), or that all of
  them are values that are not written yet (*NotYet*), and of one that has not,
  that nothing deeper was written (*Above*): then a fallback cannot tell a field
  twice. *WalkIsBounded*: if the graph has at most `d` layers and `w` neighbours
  to a node (`Bounds`), each step of a walk lowers the number `StepsLeft(w, d)`,
  which starts at `d * (2w + 2) + w + 2`. A call goes once through its
  neighbours, and at most one of them, or the node for any other, leads a level
  deeper; that a matched call never leads deeper again is EachFieldOnce's
  invariant. So no walk turns in a circle; only that its steps are taken at all
  is left to fairness (WalkEnds).
- **ResourceWalk_proofs**, over the graph of the package, for any lists of
  chains and applications: WalkMeetsTypes and SameIdSameResource. They rest
  on `GraphAssumption` (the constants are the graph of `ResourceGraph`; the lists
  of `constants.ts` have no name in common with each other or with the names
  that the package fixes, such as `chain` or `nft`) and `SchemaAssumption`
  (`schema` is one of the two that its type allows, or missing, or, from a
  caller without types, a word that is nothing else). *GraphInv* says
  where a walk stands and what it has written by then: at the root, which
  leads nowhere (*AtRoot*); at a schema, a kind of chain, an application or a name
  where nothing has matched yet (*AtBranch*: it is the one that the parameters
  lead to, `FieldsTo` has been written, the neighbours asked so far were
  passed); at the type (*AtType*: with the values asked before the next one); or
  back at a branch that matched below (*BackAtBranch*: the id is complete). Three facts
  about the graph make it inductive: only a leading neighbour is entered
  (*LeadsToNamed*, *LeadsToAny*), who has passed all names stands at the node
  for any (*PassedAll*, *LeadsNowhere*), and where a type is entered it is one of
  `LinkedTypes`, which follows the edges and is a definition of the proof alone
  (*FieldsToKinds*, *KeyNames*). For WalkMeetsTypes, *LinkedAreDeclared* compares
  it with what the types declare: the difference is `Unlinked`.
- SameIdSameResource rests further on `TextAssumption`: values with one text are
  equal, and the names of nodes are words. *FlattenMore* and *IdGrows* say that
  an id grows at its end (by the smallest counterexample, as *FlattenSeq* is
  defined by recursion), *IdReads* writes the whole id as it is read from its
  start. Two equal ids are then taken apart from there: the key after a "/" is
  one word (*KeysFirst*); of two texts without a "/", each with nothing or a "/"
  after it, neither ends before the other (*NotLonger*, *SplitsAtSlash*); and a
  section of one optional value cannot be that of another (*NotOneSet*). The last
  value is the rest of the string, so it may be any text (*SameLast*).

The parts of a search are proved to fit (FindData_proofs). *LoadsAsIpfsContent*:
what a search does to the files is a behaviour of IpfsContent without a timeout.
*WholeFilesInAnswers*: the guard of IpfsContent, that no call is under way, never
holds a search back, and what an answer carries was read to its end. *WhatSearchesAnswer* says what Lookup's promise comes to for the
searches from which `loadPostStructs` goes on: a public search answers some of
the public structs, each once, and a search without filters all that there are;
that is how the finds of PostDetails choose their `hits`. (FindRootPosts,
FindExtPosts and FindSpaces are public searches, FindOwners is one without
filters; FindPosts is any.)

Only model-checked: liveness (TimedCallReturns, FindReturns,
ReachableCallReturns, SearchEnds, CallEnds, WalkEnds), which the prover cannot
derive from fairness. Every other property of the passing runs is a theorem.

## 7. What is not modelled

- The generated declarations of the chain (`definitions/src/interfaces`, 11,800
  of the 17,700 lines of the packages): types without code. The storage and the
  fields that modelled queries read are in the models.
- Domains and the plain lists of ids in `substrate/index.ts`: one read each,
  answered as it comes.
- Elasticsearch, encryption, the authorisation token of Crust: one request or one
  library call each, without a protocol.
- The wrappers of transactions, the flatteners beyond the decisions above, dates,
  balances, Markdown, social links: copying and wording. A property of a
  function that copies a field would say again what it copies.
- Values of files and of fields: a file is named by its CID, which is all a
  join can get wrong. Files that are bare JSON numbers are left out; they alone
  still parse when cut short.
- In PostDetails, who owns a post is who created it. In SocialRemark, a caller
  changes the fields of its content object and does not put another in its place.
- In SubstrateQueries, whether a role is disabled or expired, which the code does
  not look at either; users that are spaces are dropped from the answer, as in
  the code.
- The URL of a cluster or of the offchain service that was not given: the code
  sends the request to a URL that begins with `undefined`.

## 8. The plan

Done: every module of section 2, with the runs of sections 3 and 4 and the
proofs of section 6.

What would come next:

1. **PostDetails and Lookup**: a refinement that runs the six searches of
   PostDetails as six of Lookup, on the chain that both see; so far
   WhatSearchesAnswer connects single answers.
2. **Domains**: `domainsByOwner` followed by `registeredDomains`, in
   SubstrateQueries, as a fourth kind of call.
3. **Transaction wrappers**: what `Option` and `Content` each one makes of a
   missing value, an empty text and a CID, as pure operators.
