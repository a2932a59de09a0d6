----------------------------- MODULE MCResource -----------------------------
(* TLC instance of ResourceWalk on the graph of the package: two chains of *)
(* each type, zeitgeist among them, and one application; names that are    *)
(* listed, names that are not, a name of the other chain type, no name;    *)
(* each type of resource with all its values and, of an EVM chain, with the  *)
(* first one missing and with the optional ones missing; values with       *)
(* separators in them, so that texts of different resources meet.          *)
EXTENDS ResourceGraph

MCSubstrateChains == <<"xsocial", "zeitgeist">>
MCEvmChains == <<"ethereum", "polygon">>
MCSocialApps == <<"twitter">>

MCValues == {"chain", "social", "radio", "substrate", "evm", "bitcoin", "zeitgeist",
             "ethereum", "onebit", "twitter", "mastodon", "v", "undefined", "1", "2", "1/nftId:2",
             "2/standard:2", "onebit/resourceType:nft", "v:1"} \cup ResourceTypes

MCText ==
  [v \in MCValues \cup {Undefined} |->
     CASE v = "1/nftId:2"               -> <<"1", "/", "nftId", ":", "2">>
       [] v = "2/standard:2"            -> <<"2", "/", "standard", ":", "2">>
       [] v = "onebit/resourceType:nft" -> <<"onebit", "/", "resourceType", ":", "nft">>
       [] v = "v:1"                     -> <<"v", ":", "1">>
       [] v = Undefined                 -> <<"undefined">>
       [] OTHER                         -> <<v>>]

ValueSets(t) == {ValuesOf[t], ValuesOf[t] \cap {"nftId"}, ValuesOf[t] \ {"standard", "nftId"}}

Holding(name, values) ==
  [f \in GraphFields |-> IF f \in DOMAIN name THEN name[f]
                         ELSE IF f \in values THEN "v" ELSE Undefined]

ChainInputs ==
  UNION { { Holding([schema |-> "chain", chainType |-> c, chainName |-> n, resourceType |-> t],
                    v) : v \in IF c = "evm" THEN ValueSets(t) ELSE {ValuesOf[t]} } :
          c \in {"substrate", "evm", "bitcoin", "ethereum"},
          n \in {"zeitgeist", "ethereum", "onebit", Undefined},
          t \in {"block", "account", "nft", "market", "proposal", "post"} }

SocialInputs ==
  UNION { { Holding([schema |-> s, app |-> a, resourceType |-> t], v) : v \in ValueSets(t) } :
          s \in {"social", "radio", Undefined}, a \in {"twitter", "mastodon"},
          t \in {"profile", "market"} }

(* An NFT may have the text of another, or of none.                        *)
NftInputs ==
  { [f \in GraphFields |->
       CASE f = "schema" -> "chain" [] f = "chainType" -> "evm" [] f = "chainName" -> n
         [] f = "resourceType" -> "nft" [] f = "collectionId" -> c [] f = "nftId" -> i
         [] f = "standard" -> s [] OTHER -> Undefined] :
    n \in {"onebit", "onebit/resourceType:nft"}, c \in {"1", "1/nftId:2"},
    i \in {"2", "2/standard:2", Undefined}, s \in {"2", Undefined} }

PostInputs ==
  { [Holding([schema |-> "social", app |-> a, resourceType |-> "post"], {}) EXCEPT !["id"] = i] :
    a \in {"twitter", "undefined", Undefined}, i \in {"1", "1/nftId:2", "v:1"} }

MCInputs == ChainInputs \cup SocialInputs \cup NftInputs \cup PostInputs
=============================================================================
