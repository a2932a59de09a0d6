------------------------------- MODULE Files -------------------------------
(***************************************************************************)
(* The files of IPFS, as far as the library tells them apart.  IPFS is     *)
(* content addressed: what a CID names never changes.                      *)
(***************************************************************************)
CONSTANTS Cids,  \* strings that are used as a CID
          File   \* File[c]: what IPFS stores under c

(* A JSON object (or array) with fields; an empty one, or a bare value     *)
(* that is truthy; null and the other falsy values; text that does not     *)
(* parse; no file at all.  Bare numbers are left out: they alone parse     *)
(* when they are cut short.                                                *)
FileKinds == {"object", "empty", "null", "garbage", "missing"}
Parseable == {"object", "empty", "null"}

ASSUME FileAssumption == File \in [Cids -> FileKinds]
=============================================================================
