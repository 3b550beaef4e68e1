------------------------------ MODULE MCRequests ------------------------------
(* Chunks of three bytes and words of two bits: an empty file, one short   *)
(* chunk, whole chunks only, a short last chunk, a bitmap that fills its   *)
(* words, one that does not, one that needs two words.                     *)
EXTENDS Requests

MCGeometries == [size : {0, 2, 6, 7, 9, 10}, chunk_size : {3}]

(* Floats of Precision bits: the quotient of any two sizes that a float    *)
(* holds exactly has the right ceiling, although it is rounded.            *)
ASSUME QuotientIsExact ==
  \A a \in 0 .. 2^Precision - 1 : \A b \in 1 .. 2^Precision - 1 :
    FloatCeilDiv(a, b) = CeilDiv(a, b)
=============================================================================
