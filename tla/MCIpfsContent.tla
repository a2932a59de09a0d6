--------------------------- MODULE MCIpfsContent ---------------------------
(* TLC instance of IpfsContent: a file that is an object, one of dag-cbor, *)
(* one that does not parse, one that is missing, and strings that are no   *)
(* CID and a second spelling of a CID.                                     *)
EXTENDS IpfsContent

CONSTANTS obj, cbor, bad, spelled, noCid

MCCids == {obj, cbor, bad, spelled, noCid}
MCMalformed == {noCid}
MCCbor == {cbor}
MCCanon == [c \in MCCids \ MCMalformed |-> IF c = spelled THEN obj ELSE c]
MCSize == [c \in MCCids |-> 2]
MCFile == [c \in MCCids |-> CASE c \in {obj, spelled} -> "object"
                               [] c = cbor -> "empty"
                               [] c = bad -> "garbage"
                               [] OTHER -> "missing"]
=============================================================================
