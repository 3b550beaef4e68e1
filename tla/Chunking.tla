------------------------------- MODULE Chunking -------------------------------
(***************************************************************************)
(* How a file is cut into chunks and how a set of completed chunks travels *)
(* as text: the arithmetic of gmf-remote's setup and Start request and the *)
(* ChunkBitmap of gmf-common.  Operators only.                             *)
(*                                                                         *)
(* A bitmap is its length and the indices of its ones.  Serialised, it is  *)
(* the sequence of the machine words that back it, base64 left out; the    *)
(* bits of the last word that lie beyond the length are zero, as           *)
(* BitVec::repeat(false, n) leaves them.                                   *)
(***************************************************************************)
EXTENDS Integers, FiniteSets

CONSTANTS
  Precision, \* bits of a float's significand, 53 in an f64
  WordBits   \* bits of a word of the BitVec, 64

ASSUME PrecisionAssumption == Precision \in Nat \ {0}
ASSUME WordBitsAssumption == WordBits \in Nat \ {0}

CeilDiv(a, b) == (a + b - 1) \div b

-----------------------------------------------------------------------------
(* Rounding to the nearest integer, ties to even.                          *)
Nearest(n, d) ==
  LET q == n \div d
      r == 2 * (n % d)
  IN IF r < d \/ (r = d /\ q % 2 = 0) THEN q ELSE q + 1

(* (file_size as f64 / chunk_size as f64).ceil(): the quotient lies        *)
(* between two powers of two and is rounded to Precision significant bits  *)
(* before its ceiling is taken.  For sizes below 2^Precision, which a      *)
(* float holds exactly.                                                    *)
FloatCeilDiv(a, b) ==
  IF a <= b THEN (IF a = 0 THEN 0 ELSE 1)
  ELSE LET e == CHOOSE e \in 0 .. Precision : b * 2^e <= a /\ a < b * 2^(e + 1)
           unit == 2^(Precision - 1 - e)
       IN CeilDiv(Nearest(a * unit, b), unit)

(* Faulty variant: the quotient is rounded down.                           *)
WholeChunksOnly(file_size, chunk_size) == file_size \div chunk_size

total_chunks(file_size, chunk_size) == FloatCeilDiv(file_size, chunk_size)

(* The bytes that upload_chunk reads and handle_chunk writes.              *)
offset(chunk_id, chunk_size) == chunk_id * chunk_size
ChunkBytes(chunk_id, file_size, chunk_size) ==
  {b \in 0 .. file_size - 1 :
     offset(chunk_id, chunk_size) <= b /\ b < offset(chunk_id, chunk_size) + chunk_size}

(* Faulty variant: a wrapping subtraction instead of a saturating one.     *)
WrappingRemaining(file_size, chunk_size, completed) ==
  (file_size - completed * chunk_size) % 2^Precision

remaining_size(file_size, chunk_size, completed) ==
  IF completed * chunk_size >= file_size THEN 0
                                         ELSE file_size - completed * chunk_size

-----------------------------------------------------------------------------
NewBitmap(n) == [len |-> n, ones |-> {}]

(* Faulty variant: ids are taken to count from one.                        *)
MarkNext(bm, c) == [bm EXCEPT !.ones = @ \cup {c + 1}]

mark_completed(bm, c) == [bm EXCEPT !.ones = @ \cup {c}]
completed_count(bm) == Cardinality(bm.ones)
pending_ids(bm) == (0 .. bm.len - 1) \ bm.ones

Words(n) == CeilDiv(n, WordBits)

Serialize(bm) ==
  [w \in 0 .. Words(bm.len) - 1 |->
     {b \in 0 .. WordBits - 1 : w * WordBits + b \in bm.ones}]

(* Every bit of every word comes back: the length is now a multiple of     *)
(* WordBits.  k is the number of words.                                    *)
Deserialize(k, words) ==
  [len |-> k * WordBits,
   ones |-> {c \in 0 .. k * WordBits - 1 : c % WordBits \in words[c \div WordBits]}]

truncate(bm, n) == [len |-> n, ones |-> bm.ones \cap 0 .. n - 1]
=============================================================================
