----------------------------- MODULE MCFindData -----------------------------
(* TLC instance of FindData: two structs whose files are an object, an     *)
(* empty object or null; one may come without a file or with a string that *)
(* is no CID, and each may be hidden.                                      *)
EXTENDS FindData

CONSTANTS i1, i2, obj, blank, nil, spelled, noCid

MCIds == {i1, i2}
MCCids == {obj, blank, nil, spelled, noCid}
MCMalformed == {noCid}
MCCanon == [c \in MCCids \ MCMalformed |-> IF c = spelled THEN obj ELSE c]
MCCbor == {nil}
MCSize == [c \in MCCids |-> 1]
MCFile == [c \in MCCids |-> CASE c \in {obj, spelled} -> "object"
                               [] c = blank -> "empty"
                               [] c = nil -> "null"
                               [] c = noCid -> "missing"]

MCStruct(id, isHidden, cid) == [id |-> id, hidden |-> isHidden, content |-> cid]

MCChainStructs ==
  { MCStruct(i1, FALSE, c) : c \in {obj, blank, nil} }
  \cup { MCStruct(i2, FALSE, c) : c \in {obj, spelled, noCid, NoneContent, RawContent} }
  \cup { MCStruct(i1, TRUE, obj), MCStruct(i2, TRUE, NoneContent) }

MCQueries ==
  { AllOf(<<i1, Undefined, i1>>), AllOf(<<>>),
    PublicOf(<<i2, i1>>), UnlistedOf(<<i1, i2, i1>>),
    [ids |-> <<i1, i2>>, visibility |-> "onlyVisible", withContentOnly |-> TRUE],
    OneOf(i2, "onlyHidden") }
=============================================================================
