------------------------------ MODULE Filters ------------------------------
(***************************************************************************)
(* What the chain and IPFS store, and the filters that decide which of it  *)
(* a search returns: visibility-filter.ts, content-filter.ts and the two   *)
(* predicates of flatteners/utils.ts.                                      *)
(*                                                                         *)
(* A struct (Space or Post) keeps what a filter reads.  Its content is the *)
(* string it carries as an IPFS CID, RawContent (a Raw or Hyper payload)   *)
(* or NoneContent (None, and every payload that is empty).                 *)
(*                                                                         *)
(* An array that is filtered is a sparse array here: a function from the   *)
(* positions it keeps.  Array.filter renumbers; nothing that is said of an *)
(* answer depends on that, and the order of the positions is the order of  *)
(* the array.                                                              *)
(***************************************************************************)
EXTENDS Naturals, Sequences, Files

CONSTANTS Ids,                      \* ids of the structs of one pallet
          NoneContent, RawContent,  \* content of a struct that is not a CID
          NoStruct,                 \* Option None, and an undefined struct
          Undefined                 \* the JavaScript value undefined

Content == Cids \cup {NoneContent, RawContent}
Struct  == [id : Ids, hidden : BOOLEAN, content : Content]

ASSUME ContentAssumption ==
  /\ {NoneContent, RawContent, Undefined} \cap Cids = {}
  /\ NoneContent # RawContent
  /\ NoStruct \notin Struct
  /\ Undefined \notin Ids

(* One element of an answer: a struct and the file that was loaded for it, *)
(* which is named by its CID.                                              *)
Entry == [struct : Struct, content : Cids \cup {Undefined}]

Visibilities == {"all", "onlyVisible", "onlyHidden", "onlyPublic", "onlyUnlisted"}

(* The ids of a query may repeat, and a JavaScript caller's may be         *)
(* undefined.                                                              *)
Query == [ids : Seq(Ids \cup {Undefined}), visibility : Visibilities,
          withContentOnly : BOOLEAN]

NoQuery == [ids |-> <<>>, visibility |-> "all", withContentOnly |-> FALSE]

(* basic.ts: the searches that fix their filters                           *)
AllOf(ids)      == [ids |-> ids, visibility |-> "all", withContentOnly |-> FALSE]
PublicOf(ids)   == [ids |-> ids, visibility |-> "onlyPublic", withContentOnly |-> TRUE]
UnlistedOf(ids) == [ids |-> ids, visibility |-> "onlyUnlisted", withContentOnly |-> FALSE]

(* findSpace and findPost: one id and a visibility; withContentOnly of the *)
(* caller's query is not passed on.                                        *)
OneOf(id, visibility) ==
  [ids |-> <<id>>, visibility |-> visibility, withContentOnly |-> FALSE]

----------------------------------------------------------------------------
(* visibility-filter.ts                                                    *)
IsHidden(struct)       == struct = NoStruct \/ struct.hidden
IsEmptyContent(struct) == struct = NoStruct \/ struct.content = NoneContent
IsUnlisted(struct)     == IsHidden(struct) \/ IsEmptyContent(struct)

VisibilityFilter(visibility, struct) ==
  CASE visibility = "onlyVisible"  -> ~ IsHidden(struct)
    [] visibility = "onlyHidden"   -> IsHidden(struct)
    [] visibility = "onlyPublic"   -> ~ IsUnlisted(struct)
    [] visibility = "onlyUnlisted" -> IsUnlisted(struct)
    [] OTHER                       -> TRUE

(* content-filter.ts: no content, and content that has no fields           *)
IsEmptyIpfsContent(entry) ==
  entry.content = Undefined \/ File[entry.content] # "object"

(* Defect: content that has no fields is not told from content.            *)
ContentFilterDefined(withContentOnly, entry) ==
  withContentOnly => entry.content # Undefined

ContentFilter(withContentOnly, entry) ==
  withContentOnly => ~ IsEmptyIpfsContent(entry)

(* flatteners/utils.ts: what an application asks of the answer it gets.    *)
(* convertToDerivedContent turns a falsy file into undefined and every     *)
(* other file, an empty one too, into an object.                           *)
HasDerivedContent(entry) ==
  entry.content # Undefined /\ File[entry.content] \in {"object", "empty"}

IsPublicData(entry) == ~ entry.struct.hidden /\ HasDerivedContent(entry)

(* getIpfsCidOfStruct: the CID of a struct, if its content is one          *)
CidOf(struct) == IF struct.content \in Cids THEN struct.content ELSE Undefined

(* getUniqueIds: the positions of the first occurrence of each id          *)
UniquePositions(ids) ==
  { p \in DOMAIN ids : /\ ids[p] # Undefined
                       /\ \A q \in 1 .. p - 1 : ids[q] # ids[p] }
=============================================================================
