---------------------------- MODULE ResourceGraph ----------------------------
(***************************************************************************)
(* The graph of resource-discussions (graph.ts, utiils/, constants.ts) and *)
(* the resources that its types declare (types/).  Chains and applications *)
(* are lists of any names.                                                 *)
(***************************************************************************)
EXTENDS ResourceWalk

CONSTANTS SubstrateChains, EvmChains, SocialApps   \* sequences of names

ChainTypes == {"substrate", "evm"}
SocialResourceTypes == {"post", "profile"}
ChainResourceTypes == {"block", "tx", "token", "account", "proposal", "market", "nft"}
ResourceTypes == ChainResourceTypes \cup SocialResourceTypes

ResourceValues ==
  {"blockNumber", "txHash", "tokenAddress", "accountAddress", "collectionId",
   "nftId", "standard", "id"}

GraphIsRequired == ResourceValues \ {"nftId", "standard"}

AnyApp == "*_social_app"
AnyChainType == "*_chainType"
AnyChainName == "*_chainType_*_chainName"
AnySubstrateName == "*_substrate_chainName"
AnyEvmName == "*_evm_chainName"

Apps == Range(SocialApps) \cup {AnyApp}
ChainNames == Range(SubstrateChains) \cup Range(EvmChains)
              \cup {AnyChainName, AnySubstrateName, AnyEvmName}

GraphNodes == {"rootNode", "chain", "social", AnyChainType}
              \cup ChainTypes \cup Apps \cup ChainNames \cup ResourceTypes \cup ResourceValues

GraphKeyName ==
  [n \in GraphNodes |->
     CASE n = "rootNode"                       -> ""
       [] n \in {"chain", "social"}            -> "schema"
       [] n \in ChainTypes \cup {AnyChainType} -> "chainType"
       [] n \in Apps                           -> "app"
       [] n \in ChainNames                     -> "chainName"
       [] n \in ResourceTypes                  -> "resourceType"
       [] n \in ResourceValues                 -> "resourceValue"]

GraphAnyChildNodeName ==
  [n \in GraphNodes |->
     CASE n = "social"     -> AnyApp
       [] n = "chain"      -> AnyChainType
       [] n = AnyChainType -> AnyChainName
       [] n = "substrate"  -> AnySubstrateName
       [] n = "evm"        -> AnyEvmName
       [] OTHER            -> Undefined]

(* The edges, in the order in which they are added.                        *)
NamedChainTypesOf(n) ==
  IF n \in Range(EvmChains) THEN <<"block", "tx", "token", "nft">>
  ELSE <<"block", "tx", "token", "nft", "proposal">>
       \o (IF n = "zeitgeist" THEN <<"market">> ELSE <<>>)

GraphNeighbors ==
  [n \in GraphNodes |->
     CASE n = "rootNode"   -> <<"social", "chain">>
       [] n = "social"     -> SocialApps \o <<AnyApp>>
       [] n = "chain"      -> <<AnyChainType, "evm", "substrate">>
       [] n = "substrate"  -> SubstrateChains \o <<AnySubstrateName>>
       [] n = "evm"        -> EvmChains \o <<AnyEvmName>>
       [] n = AnyChainType -> <<AnyChainName>>
       [] n \in {AnyChainName, AnySubstrateName} -> <<"block", "tx", "token", "account">>
       [] n = AnyEvmName   -> <<"block", "tx", "token", "account", "nft">>
       [] n \in Range(SubstrateChains) \cup Range(EvmChains) -> NamedChainTypesOf(n)
       [] n \in Apps       -> <<"post", "profile">>
       [] n \in SocialResourceTypes -> <<"id">>
       [] n = "block"      -> <<"blockNumber">>
       [] n = "tx"         -> <<"txHash">>
       [] n = "token"      -> <<"tokenAddress">>
       [] n = "nft"        -> <<"collectionId", "nftId", "standard">>
       [] n \in {"proposal", "market"} -> <<"id">>
       [] OTHER            -> <<>>]

GraphFields == {"schema", "chainType", "chainName", "app", "resourceType"} \cup ResourceValues

GraphLevel ==
  [f \in GraphFields |-> CASE f = "schema" -> 0
                           [] f \in {"app", "chainType"} -> 1
                           [] f = "chainName" -> 2
                           [] f = "resourceType" -> 3
                           [] f \in ResourceValues -> 4]

(* The names that the package does not take from a list.                   *)
FixedNames ==
  {"rootNode", "chain", "social"} \cup ChainTypes \cup ResourceTypes \cup ResourceValues
  \cup {AnyApp, AnyChainType, AnyChainName, AnySubstrateName, AnyEvmName}

(* constants.ts lists a name once, in one list, and none of the fixed ones. *)
ASSUME GraphAssumption ==
  /\ Nodes = GraphNodes /\ Fields = GraphFields
  /\ KeyName = GraphKeyName /\ IsRequired = GraphIsRequired
  /\ AnyChildNodeName = GraphAnyChildNodeName /\ Neighbors = GraphNeighbors
  /\ SubstrateChains \in Seq(STRING) /\ EvmChains \in Seq(STRING)
  /\ SocialApps \in Seq(STRING)
  /\ Range(SubstrateChains) \cap Range(EvmChains) = {}
  /\ Range(SocialApps) \cap ChainNames = {}
  /\ FixedNames \cap (Range(SubstrateChains) \cup Range(EvmChains) \cup Range(SocialApps)) = {}

(* SchemaParameters: the schema is chain or social.  It may also be left   *)
(* out, or be a word that is no node and that no other key holds.          *)
ASSUME SchemaAssumption ==
  \A p \in Inputs :
    p["schema"] \in {"chain", "social", Undefined}
    \/ (p["schema"] \notin Nodes /\ \A f \in Keys \ {"schema"} : p[f] # p["schema"])
----------------------------------------------------------------------------
(* What the types declare, without the graph.  ChainResourceValue,         *)
(* SocialResourceValue: the values of each type of resource.               *)
ValuesOf ==
  [t \in ResourceTypes |->
     CASE t = "block"   -> {"blockNumber"}
       [] t = "tx"      -> {"txHash"}
       [] t = "token"   -> {"tokenAddress"}
       [] t = "account" -> {"accountAddress"}
       [] t = "nft"     -> {"collectionId", "nftId", "standard"}
       [] OTHER         -> {"id"}]

OptionalValues == {"nftId", "standard"}

(* ChainSchemaParameters, SocialSchemaParameters: the types of resources   *)
(* that a name may have.  Any chain type has what AnyChainResourceTypeValue *)
(* lists; substrate and evm, or the name of an EVM chain in its place,     *)
(* have more.                                                              *)
AnyChainTypes == {"block", "tx", "token", "account"}
EvmChainTypes == AnyChainTypes \cup {"nft"}
SubstrateChainTypes == EvmChainTypes \cup {"market", "proposal"}

DeclaredTypes(p) ==
  IF p["schema"] = "social" THEN SocialResourceTypes
  ELSE IF p["chainType"] = "substrate" THEN SubstrateChainTypes
  ELSE IF p["chainType"] \in Range(EvmChains) \cup {"evm"} THEN EvmChainTypes
  ELSE AnyChainTypes

(* The fields that name a resource, and those that its id tells.           *)
NameFields(p) ==
  IF p["schema"] = "social" THEN {"schema", "app", "resourceType"}
  ELSE {"schema", "chainType", "chainName", "resourceType"}

MissingNames(p) == { f \in NameFields(p) : p[f] = Undefined }

Told(p) ==
  NameFields(p) \cup { f \in ValuesOf[p["resourceType"]] : p[f] # Undefined }

Identity(p) == [f \in Told(p) |-> p[f]]

(* The fields in which a resource is not as declared; without its schema   *)
(* or its type, no more can be said of it.                                 *)
Faults(p) ==
  IF p["schema"] \notin {"social", "chain"} THEN {"schema"}
  ELSE MissingNames(p) \cup
       IF p["resourceType"] \notin DeclaredTypes(p) THEN {"resourceType"}
       ELSE IF \E f \in ValuesOf[p["resourceType"]] \ OptionalValues : p[f] = Undefined
            THEN {"resourceValue"} ELSE {}

(* Declared, and yet without a way through the graph: accounts, which have *)
(* no value in it; markets of other chains than zeitgeist; proposals and   *)
(* NFTs of substrate chains that are not listed; NFTs of a chain type that *)
(* is the name of an EVM chain.                                            *)
Unlinked(p) ==
  /\ p["schema"] = "chain" /\ p["resourceType"] \in DeclaredTypes(p)
  /\ \/ p["resourceType"] = "account"
     \/ p["resourceType"] = "market" /\ p["chainName"] # "zeitgeist"
     \/ /\ p["chainType"] = "substrate" /\ p["chainName"] \notin Range(SubstrateChains)
        /\ p["resourceType"] \in {"market", "proposal", "nft"}
     \/ p["chainType"] \in Range(EvmChains) /\ p["resourceType"] = "nft"
----------------------------------------------------------------------------
(* The sections of an id: schema, name from the outside in, type, values.  *)
NameOrder(p) ==
  IF p["schema"] = "social" THEN <<"schema", "app", "resourceType">>
  ELSE <<"schema", "chainType", "chainName", "resourceType">>

(* The field alone if it is set, nothing if not.                           *)
IfSet(p, f) == IF p[f] = Undefined THEN <<>> ELSE <<f>>

ValueOrder(p) ==
  CASE p["resourceType"] = "block" -> <<"blockNumber">>
    [] p["resourceType"] = "tx"    -> <<"txHash">>
    [] p["resourceType"] = "token" -> <<"tokenAddress">>
    [] p["resourceType"] = "nft"   -> <<"collectionId">> \o IfSet(p, "nftId") \o IfSet(p, "standard")
    [] OTHER                       -> <<"id">>

SectionsOf(p, fields) == [i \in DOMAIN fields |-> <<fields[i], p[fields[i]]>>]

IdOf(p) == SectionsOf(p, NameOrder(p) \o ValueOrder(p))

(* "validate resource parameters object": a resource gets an id only if it *)
(* is as the types declare it, but for names that are missing, and the id  *)
(* then has its sections and no other, in their order.  A resource without *)
(* an id is told a field that is at fault; the declared resources that the *)
(* graph does not link are told their type, or nothing (Unlinked, which    *)
(* README section 4 lists).                                                *)
WalkMeetsTypes ==
  /\ outcome = "done" => /\ Faults(params) \subseteq {"app", "chainType", "chainName"}
                         /\ ~ Unlinked(params)
                         /\ id = IdOf(params)
  /\ outcome = "threw" => IF Unlinked(params) THEN field \in {"resourceType", Undefined}
                          ELSE field \in Faults(params)

(* The fields after which an id may go on.  A resource is unambiguous if   *)
(* it has its names, and none of these fields has a "/" in it.             *)
InnerFields(p) == NameFields(p) \cup {"collectionId", "nftId"}

Unambiguous(p) ==
  MissingNames(p) = {} /\ \A f \in InnerFields(p) : "/" \notin Range(Text[p[f]])

(* Two unambiguous resources have one string for an id only if they are    *)
(* one, though nothing in an id is escaped: a discussion is found by the   *)
(* string alone.  Other values may be any text, such as a URL.             *)
SameIdSameResource ==
  /\ outcome = "done" /\ earlier # <<>>
  /\ Unambiguous(earlier[1]) /\ Unambiguous(params)
  /\ ResourceId(earlier[2]) = ResourceId(id)
  => Identity(earlier[1]) = Identity(params)
=============================================================================
