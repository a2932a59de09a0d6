--------------------------- MODULE StorageLength ---------------------------
(***************************************************************************)
(* How getStorageLength (substrate/index.ts) computes the number of items  *)
(* of a vector on the chain without reading the items: from the number of  *)
(* bytes that the vector occupies.                                         *)
(***************************************************************************)
EXTENDS Integers

U64_BYTES_SIZE == 8
ACCOUNT32_BYTES_SIZE == 32

(* SCALE puts the number of items in front of them, in 1, 2, 4 or more     *)
(* bytes; TLC's integers end with the mode of four.                        *)
PrefixSize(n) == IF n < 64 THEN 1 ELSE IF n < 16384 THEN 2 ELSE 4

(* api.query...size: no entry, no bytes.                                   *)
StorageSize(n, itemBytesSize) ==
  IF n = 0 THEN 0 ELSE PrefixSize(n) + n * itemBytesSize

(* divn of bn.js: the quotient is cut towards zero.                        *)
Divn(a, b) == IF a >= 0 THEN a \div b ELSE -((-a) \div b)

(* Defect: two bytes are taken for the prefix.                             *)
LengthLessTwo(size, itemBytesSize) == Divn(size - 2, itemBytesSize)

(* One byte is taken for the prefix, however long it is.                   *)
GetStorageLength(size, itemBytesSize) == Divn(size - 1, itemBytesSize)

(* The number of items of a vector, as the five counters answer it.        *)
CountOf(n, itemBytesSize) == GetStorageLength(StorageSize(n, itemBytesSize), itemBytesSize)
=============================================================================
