---------------------------- MODULE MCIpfsWrites ----------------------------
(* TLC instance of IpfsWrites: three calls about one CID, each of any      *)
(* method, under two sets of headers or none.                              *)
EXTENDS IpfsWrites, TLC

CONSTANTS first, second, third, cid

MCCalls == {first, second, third}
MCCid == [c \in MCCalls |-> cid]
MCMethods == {"saveContent", "pinContent", "unpinContent", "saveFileToOffchain", "removeContent"}

Interchangeable == Permutations(MCCalls)
=============================================================================
