---------------------------- MODULE Chunking_proofs ----------------------------
(***************************************************************************)
(* The arithmetic of chunks for every precision of a float and every file  *)
(* whose size a float holds exactly, and the bitmap for every length and   *)
(* every width of a word.                                                  *)
(***************************************************************************)
EXTENDS Chunking, FiniteSetTheorems, TLAPS

(* What the solvers do not know of powers of two is taken from counting    *)
(* subsets.                                                                *)
LEMMA PowerIsPositive == \A n \in Nat : 2^n \in Nat \ {0}
<1> SUFFICES ASSUME NEW n \in Nat PROVE 2^n \in Nat \ {0}
  OBVIOUS
<1>1. IsFiniteSet(1 .. n) /\ Cardinality(1 .. n) = n
  BY FS_Interval
<1>2. IsFiniteSet(SUBSET (1 .. n)) /\ Cardinality(SUBSET (1 .. n)) = 2^n
  BY <1>1, FS_SUBSET
<1>3. Cardinality(SUBSET (1 .. n)) \in Nat /\ Cardinality(SUBSET (1 .. n)) # 0
  <2>1. SUBSET (1 .. n) # {}
    OBVIOUS
  <2> QED
    BY <1>2, <2>1, FS_CardinalityType, FS_EmptySet
<1> QED
  BY <1>2, <1>3

(* A subset of two disjoint sets is a pair of subsets.                     *)
LEMMA PowerOfSum == \A m, n \in Nat : 2^(m + n) = 2^m * 2^n
<1> SUFFICES ASSUME NEW m \in Nat, NEW n \in Nat PROVE 2^(m + n) = 2^m * 2^n
  OBVIOUS
<1> DEFINE S == 1 .. m
           T == m + 1 .. m + n
           U == 1 .. m + n
           split == [x \in SUBSET U |-> <<x \cap S, x \cap T>>]
<1>1. /\ IsFiniteSet(S) /\ Cardinality(S) = m
      /\ IsFiniteSet(T) /\ Cardinality(T) = n
      /\ IsFiniteSet(U) /\ Cardinality(U) = m + n
  <2>1. /\ IsFiniteSet(S) /\ Cardinality(S) = IF 1 > m THEN 0 ELSE m - 1 + 1
        /\ IsFiniteSet(T) /\ Cardinality(T) = IF m + 1 > m + n THEN 0 ELSE m + n - (m + 1) + 1
        /\ IsFiniteSet(U) /\ Cardinality(U) = IF 1 > m + n THEN 0 ELSE m + n - 1 + 1
    <3>1. 1 \in Int /\ m \in Int /\ m + 1 \in Int /\ m + n \in Int
      OBVIOUS
    <3> HIDE DEF S, T, U
    <3>2. IsFiniteSet(S) /\ Cardinality(S) = IF 1 > m THEN 0 ELSE m - 1 + 1
      BY <3>1, FS_Interval DEF S
    <3>3. IsFiniteSet(T) /\ Cardinality(T) = IF m + 1 > m + n THEN 0 ELSE m + n - (m + 1) + 1
      BY <3>1, FS_Interval DEF T
    <3>4. IsFiniteSet(U) /\ Cardinality(U) = IF 1 > m + n THEN 0 ELSE m + n - 1 + 1
      BY <3>1, FS_Interval DEF U
    <3> QED
      BY <3>2, <3>3, <3>4
  <2> HIDE DEF S, T, U
  <2> QED
    BY <2>1
<1>2. U = S \cup T /\ S \cap T = {}
  OBVIOUS
<1>3. /\ IsFiniteSet(SUBSET S) /\ Cardinality(SUBSET S) = 2^m
      /\ IsFiniteSet(SUBSET T) /\ Cardinality(SUBSET T) = 2^n
      /\ IsFiniteSet(SUBSET U) /\ Cardinality(SUBSET U) = 2^(m + n)
  BY <1>1, FS_SUBSET
<1> HIDE DEF S, T, U
<1>4. split \in Bijection(SUBSET U, (SUBSET S) \X (SUBSET T))
  <2>1. split \in [SUBSET U -> (SUBSET S) \X (SUBSET T)]
    OBVIOUS
  <2>2. ASSUME NEW a \in SUBSET U, NEW b \in SUBSET U, split[a] = split[b] PROVE a = b
    <3>1. a \cap S = b \cap S /\ a \cap T = b \cap T
      BY <2>2
    <3> QED
      BY <1>2, <3>1
  <2>3. ASSUME NEW p \in (SUBSET S) \X (SUBSET T) PROVE \E a \in SUBSET U : split[a] = p
    <3>1. PICK x \in SUBSET S, y \in SUBSET T : p = <<x, y>>
      OBVIOUS
    <3>2. x \cup y \in SUBSET U /\ (x \cup y) \cap S = x /\ (x \cup y) \cap T = y
      BY <1>2
    <3> QED
      BY <3>1, <3>2
  <2> QED
    BY <2>1, <2>2, <2>3 DEF Bijection, Injection, Surjection, IsInjective
<1>5. Cardinality((SUBSET S) \X (SUBSET T)) = Cardinality(SUBSET U)
  BY <1>3, <1>4, FS_Bijection DEF ExistsBijection
<1>6. Cardinality((SUBSET S) \X (SUBSET T)) = Cardinality(SUBSET S) * Cardinality(SUBSET T)
  BY <1>3, FS_Product
<1> QED
  BY <1>3, <1>5, <1>6

(* The first two powers of two.                                            *)
LEMMA SmallPowers == 2^0 = 1 /\ 2^1 = 2
<1>1. 2^0 = Cardinality(SUBSET {})
  BY FS_EmptySet, FS_SUBSET
<1>2. SUBSET {} = {{}}
  OBVIOUS
<1>3. Cardinality({{}}) = 1
  BY FS_Singleton
<1>4. 2^0 = 1
  BY <1>1, <1>2, <1>3
<1>5. 2^1 = Cardinality(SUBSET {1})
  BY FS_Singleton, FS_SUBSET
<1>6. SUBSET {1} = {{}} \cup {{1}}
  OBVIOUS
<1>7. Cardinality({{}} \cup {{1}}) = 2
  <2>1. IsFiniteSet({{}}) /\ {1} \notin {{}}
    BY FS_Singleton
  <2>2. Cardinality({{}} \cup {{1}}) = Cardinality({{}}) + 1
    BY <2>1, FS_AddElement
  <2> QED
    BY <1>3, <2>2
<1> QED
  BY <1>4, <1>5, <1>6, <1>7

(* Multiplication keeps the order.                                         *)
LEMMA ProductsAreOrdered == \A x, y, z \in Nat : x <= y => x * z <= y * z
  OBVIOUS

(* The quotient lies between two powers of two: a set of exponents that    *)
(* had the next one to each would have as many elements without its zero.  *)
LEMMA ExponentExists ==
  ASSUME NEW a \in 0 .. 2^Precision - 1, NEW b \in Nat \ {0}, b <= a
  PROVE  \E e \in 0 .. Precision : b * 2^e <= a /\ a < b * 2^(e + 1)
<1> DEFINE E == {e \in 0 .. Precision : b * 2^e <= a}
           next == [e \in E |-> e + 1]
<1>1. Precision \in Nat /\ a \in Nat /\ 2^Precision \in Nat /\ a < 2^Precision
  BY PrecisionAssumption, PowerIsPositive
<1>2. \A e \in 0 .. Precision : 2^e \in Nat /\ 2^(e + 1) \in Nat
  BY <1>1, PowerIsPositive
<1>3. b * 2^Precision >= 2^Precision
  <2>1. 1 * 2^Precision <= b * 2^Precision
    BY <1>1, ProductsAreOrdered
  <2> QED
    BY <1>1, <2>1
<1>4. 0 \in E
  BY <1>1, SmallPowers
<1>5. SUFFICES ASSUME \A e \in E : b * 2^(e + 1) <= a PROVE FALSE
  <2>1. ASSUME NEW e \in E, ~ (b * 2^(e + 1) <= a) PROVE a < b * 2^(e + 1)
    <3>1. 2^(e + 1) \in Nat
      BY <1>2
    <3>2. b * 2^(e + 1) \in Nat
      BY <3>1
    <3> QED
      BY <1>1, <2>1, <3>2
  <2> QED
    BY <2>1
<1>6. ASSUME NEW e \in E PROVE e + 1 \in E
  <2>1. e # Precision
    BY <1>1, <1>3
  <2>2. e + 1 \in 0 .. Precision
    BY <1>1, <2>1
  <2> QED
    BY <1>5, <2>2
<1>7. IsFiniteSet(E)
  <2>1. IsFiniteSet(0 .. Precision) /\ E \in SUBSET (0 .. Precision)
    BY <1>1, FS_Interval
  <2> QED
    BY <2>1, FS_Subset
<1>8. IsFiniteSet(E \ {0}) /\ Cardinality(E \ {0}) = Cardinality(E) - 1
  BY <1>4, <1>7, FS_RemoveElement
<1>9. next \in Injection(E, E \ {0})
  <2>1. \A e \in E : e \in Nat /\ e + 1 \in E \ {0}
    BY <1>1, <1>6
  <2>2. next \in [E -> E \ {0}]
    BY <2>1
  <2>3. \A e, f \in E : next[e] = next[f] => e = f
    BY <2>1
  <2> QED
    BY <2>2, <2>3 DEF Injection, IsInjective
<1>10. Cardinality(E) <= Cardinality(E \ {0})
  BY <1>8, <1>9, FS_Injection
<1> QED
  BY <1>7, <1>8, <1>10, FS_CardinalityType

(* Division with remainder, and the ceiling it gives.                      *)
LEMMA Remainder ==
  \A n \in Nat, d \in Nat \ {0} :
    n \div d \in Nat /\ n % d \in 0 .. d - 1 /\ n = d * (n \div d) + (n % d)
  OBVIOUS

(* The ceiling of n / d is the one integer c with c - 1 < n / d <= c.      *)
LEMMA CeilingIsUnique ==
  ASSUME NEW n \in Nat, NEW d \in Nat \ {0}, NEW c \in Int
  PROVE  CeilDiv(n, d) = c <=> d * (c - 1) < n /\ n <= d * c
<1> DEFINE q == (n + d - 1) \div d
           r == (n + d - 1) % d
<1>1. q \in Nat /\ r \in 0 .. d - 1 /\ n + d - 1 = d * q + r
  <2>1. n + d - 1 \in Nat
    OBVIOUS
  <2> QED
    BY <2>1, Remainder
<1>2. CeilDiv(n, d) = q
  BY DEF CeilDiv
<1> HIDE DEF q, r
<1>3. d * (q - 1) < n /\ n <= d * q
  <2>1. d * (q - 1) = d * q - d
    BY <1>1
  <2> QED
    BY <1>1, <2>1
<1>4. ASSUME d * (c - 1) < n, n <= d * c PROVE c = q
  <2>1. ASSUME c <= q - 1 PROVE FALSE
    <3>1. d * c <= d * (q - 1)
      BY <1>1, <2>1
    <3> QED
      BY <1>1, <1>3, <1>4, <3>1
  <2>2. ASSUME c >= q + 1 PROVE FALSE
    <3>1. d * q <= d * (c - 1)
      BY <1>1, <2>2
    <3> QED
      BY <1>1, <1>3, <1>4, <3>1
  <2> QED
    BY <1>1, <2>1, <2>2
<1> QED
  BY <1>2, <1>3, <1>4

(* Rounding does not pass an integer, and passes a half.                   *)
LEMMA NearestBounds ==
  ASSUME NEW n \in Nat, NEW d \in Nat \ {0}, NEW k \in Nat
  PROVE  /\ Nearest(n, d) \in Nat
         /\ n <= d * k => Nearest(n, d) <= k
         /\ 2 * n > 2 * (d * k) + d => Nearest(n, d) >= k + 1
<1> DEFINE q == n \div d
           m == n % d
<1>1. q \in Nat /\ m \in 0 .. d - 1 /\ n = d * q + m
  BY Remainder
<1>2. Nearest(n, d) = IF 2 * m < d \/ (2 * m = d /\ q % 2 = 0) THEN q ELSE q + 1
  BY DEF Nearest
<1> HIDE DEF q, m
<1>3. ASSUME n <= d * k PROVE Nearest(n, d) <= k
  <2>1. q <= k
    <3>1. ASSUME q >= k + 1 PROVE FALSE
      <4>1. d * (k + 1) <= d * q /\ d * (k + 1) = d * k + d
        BY <1>1, <3>1
      <4> QED
        BY <1>1, <1>3, <4>1
    <3> QED
      BY <1>1, <3>1
  <2>2. q = k => m = 0
    BY <1>1, <1>3
  <2> QED
    BY <1>1, <1>2, <2>1, <2>2
<1>4. ASSUME 2 * n > 2 * (d * k) + d PROVE Nearest(n, d) >= k + 1
  <2>1. q >= k
    <3>1. ASSUME q + 1 <= k PROVE FALSE
      <4>1. d * (q + 1) <= d * k /\ d * (q + 1) = d * q + d
        BY <1>1, <3>1
      <4> QED
        BY <1>1, <1>4, <4>1
    <3> QED
      BY <1>1, <3>1
  <2>2. q = k => 2 * m > d
    BY <1>1, <1>4
  <2> QED
    BY <1>1, <1>2, <2>1, <2>2
<1> QED
  BY <1>1, <1>2, <1>3, <1>4

(* The number of chunks that setup counts, a quotient of floats, is the    *)
(* right one for every size below 2^Precision, the largest of which a      *)
(* float holds exactly (server.rs:58): the quotient is off by less than    *)
(* what separates it from the next integer.                                *)
THEOREM QuotientIsExact ==
  \A a \in 0 .. 2^Precision - 1, b \in Nat \ {0} : total_chunks(a, b) = CeilDiv(a, b)
<1> SUFFICES ASSUME NEW a \in 0 .. 2^Precision - 1, NEW b \in Nat \ {0}
             PROVE  FloatCeilDiv(a, b) = CeilDiv(a, b)
  BY DEF total_chunks
<1>1. Precision \in Nat /\ a \in Nat /\ 2^Precision \in Nat /\ a < 2^Precision
  BY PrecisionAssumption, PowerIsPositive
<1>2. CASE a <= b
  <2>1. CASE a = 0
    <3>1. CeilDiv(a, b) = 0
      BY <1>1, <2>1, CeilingIsUnique
    <3> QED
      BY <1>2, <2>1, <3>1 DEF FloatCeilDiv
  <2>2. CASE a # 0
    <3>1. b * (1 - 1) < a /\ a <= b * 1
      BY <1>1, <1>2, <2>2
    <3>2. CeilDiv(a, b) = 1
      BY <1>1, <3>1, CeilingIsUnique
    <3> QED
      BY <1>2, <2>2, <3>2 DEF FloatCeilDiv
  <2> QED
    BY <2>1, <2>2
<1>3. CASE ~ (a <= b)
  <2> DEFINE Fits(e) == b * 2^e <= a /\ a < b * 2^(e + 1)
             e == CHOOSE e \in 0 .. Precision : Fits(e)
             unit == 2^(Precision - 1 - e)
             c == CeilDiv(a, b)
             m == Nearest(a * unit, b)
  <2>1. FloatCeilDiv(a, b) = CeilDiv(m, unit)
    BY <1>3 DEF FloatCeilDiv
  <2>2. e \in 0 .. Precision /\ Fits(e)
    <3>1. b <= a
      BY <1>1, <1>3
    <3>2. \E x \in 0 .. Precision : Fits(x)
      BY <3>1, ExponentExists
    <3> HIDE DEF Fits
    <3> QED
      BY <3>2
  <2> HIDE DEF e
  <2>3. 2^e \in Nat \ {0} /\ 2^(Precision - e) \in Nat /\ 2^Precision = 2^e * 2^(Precision - e)
    <3>1. e \in Nat /\ Precision - e \in Nat /\ e + (Precision - e) = Precision
      BY <1>1, <2>2
    <3> QED
      BY <3>1, PowerIsPositive, PowerOfSum
  <2>4. b < 2^(Precision - e)
    <3>1. ASSUME 2^(Precision - e) <= b PROVE FALSE
      <4>1. 2^(Precision - e) * 2^e <= b * 2^e
        BY <2>3, <3>1, ProductsAreOrdered
      <4> QED
        BY <1>1, <2>2, <2>3, <4>1
    <3> QED
      BY <2>3, <3>1
  <2>5. e # Precision
    <3>1. ASSUME e = Precision PROVE FALSE
      <4>1. Precision - e = 0
        BY <1>1, <3>1
      <4>2. 2^(Precision - e) = 1
        BY <4>1, SmallPowers
      <4> QED
        BY <2>4, <4>2
    <3> QED
      BY <3>1
  <2>6. unit \in Nat \ {0} /\ 2^(Precision - e) = 2 * unit
    <3>1. Precision - 1 - e \in Nat /\ 1 + (Precision - 1 - e) = Precision - e
      BY <1>1, <2>2, <2>5
    <3> QED
      BY <3>1, PowerIsPositive, PowerOfSum, SmallPowers
  <2> HIDE DEF unit
  <2>7. c \in Int /\ b * (c - 1) < a /\ a <= b * c
    <3>1. a + b - 1 \in Nat
      BY <1>1
    <3>2. c \in Int
      BY <3>1, Remainder DEF CeilDiv
    <3> QED
      BY <1>1, <3>2, CeilingIsUnique
  <2>8. c \in Nat \ {0}
    <3>1. ASSUME c <= 0 PROVE FALSE
      <4>1. b * c <= b * 0
        BY <2>7, <3>1
      <4> QED
        BY <1>1, <1>3, <2>7, <4>1
    <3> QED
      BY <2>7, <3>1
  <2> HIDE DEF c
  <2> DEFINE k == (c - 1) * unit
  <2>9. a * unit \in Nat /\ k \in Nat /\ c * unit \in Nat /\ c * unit = k + unit
    BY <1>1, <2>6, <2>8
  <2>10. a * unit <= b * (c * unit)
    <3>1. a * unit <= (b * c) * unit
      BY <1>1, <2>6, <2>7, <2>8, ProductsAreOrdered
    <3> QED
      BY <1>1, <2>6, <2>8, <3>1
  <2>11. 2 * (a * unit) > 2 * (b * k) + b
    <3>1. b * (c - 1) \in Nat /\ b * (c - 1) + 1 <= a
      BY <1>1, <2>7, <2>8
    <3>2. (b * (c - 1) + 1) * unit <= a * unit
      BY <1>1, <2>6, <3>1, ProductsAreOrdered
    <3>3. (b * (c - 1) + 1) * unit = b * k + unit
      BY <2>6, <2>8
    <3>4. b * k \in Nat
      BY <2>9
    <3> HIDE DEF k
    <3> QED
      BY <2>4, <2>6, <2>9, <3>2, <3>3, <3>4
  <2> HIDE DEF k
  <2>12. m \in Nat /\ m <= c * unit /\ m >= k + 1
    BY <2>9, <2>10, <2>11, NearestBounds
  <2> HIDE DEF m
  <2>13. unit * (c - 1) = k /\ unit * c = c * unit
    BY <2>6, <2>8 DEF k
  <2>14. CeilDiv(m, unit) = c
    BY <2>6, <2>8, <2>9, <2>12, <2>13, CeilingIsUnique
  <2> QED
    BY <2>1, <2>14 DEF c
<1> QED
  BY <1>2, <1>3

-----------------------------------------------------------------------------
(* The chunks of a file.                                                   *)

(* The chunks that have bytes are those below the ceiling.                 *)
LEMMA ChunkHasBytes ==
  ASSUME NEW size \in Nat, NEW s \in Nat \ {0}, NEW c \in Nat
  PROVE  /\ ChunkBytes(c, size, s) # {} <=> c < CeilDiv(size, s)
         /\ c < CeilDiv(size, s) => c * s \in ChunkBytes(c, size, s)
<1> DEFINE n == CeilDiv(size, s)
<1>1. n \in Int /\ s * (n - 1) < size /\ size <= s * n
  <2>1. size + s - 1 \in Nat
    OBVIOUS
  <2>2. n \in Int
    BY <2>1, Remainder DEF CeilDiv
  <2> QED
    BY <2>2, CeilingIsUnique
<1> HIDE DEF n
<1>2. ChunkBytes(c, size, s) = {b \in 0 .. size - 1 : c * s <= b /\ b < c * s + s}
  BY DEF ChunkBytes, offset
<1>3. ASSUME c < n PROVE c * s \in ChunkBytes(c, size, s)
  <2>1. c <= n - 1 /\ n - 1 \in Nat
    BY <1>1, <1>3
  <2>2. c * s <= (n - 1) * s
    BY <2>1, ProductsAreOrdered
  <2>3. c * s \in Nat /\ c * s < size
    BY <1>1, <2>1, <2>2
  <2> QED
    BY <1>2, <2>3
<1>4. ASSUME ~ (c < n) PROVE ChunkBytes(c, size, s) = {}
  <2>1. s * n <= s * c
    BY <1>1, <1>4
  <2>2. size <= c * s
    BY <1>1, <2>1
  <2> QED
    BY <1>2, <2>2
<1> QED
  BY <1>3, <1>4 DEF n

(* A byte is in the chunk that its number divided by the size of a chunk   *)
(* says, and in no other.                                                  *)
LEMMA ChunkOfByte ==
  ASSUME NEW size \in Nat, NEW s \in Nat \ {0}, NEW c \in Nat, NEW b \in 0 .. size - 1
  PROVE  b \in ChunkBytes(c, size, s) <=> b \div s = c
<1>1. b \in Nat /\ b \div s \in Nat /\ b % s \in 0 .. s - 1 /\ b = s * (b \div s) + (b % s)
  <2>1. b \in Nat
    OBVIOUS
  <2> QED
    BY <2>1, Remainder
<1> DEFINE q == b \div s
           r == b % s
<1> HIDE DEF q, r
<1>2. q \in Nat /\ r \in 0 .. s - 1 /\ b = s * q + r
  BY <1>1 DEF q, r
<1>3. b \in ChunkBytes(c, size, s) <=> c * s <= b /\ b < c * s + s
  BY DEF ChunkBytes, offset
<1>4. ASSUME q = c PROVE c * s <= b /\ b < c * s + s
  BY <1>2, <1>4
<1>5. ASSUME c * s <= b, b < c * s + s PROVE q = c
  <2>1. ASSUME q <= c - 1 PROVE FALSE
    <3>1. s * (q + 1) <= s * c /\ s * (q + 1) = s * q + s
      BY <1>2, <2>1
    <3> QED
      BY <1>2, <1>5, <3>1
  <2>2. ASSUME q >= c + 1 PROVE FALSE
    <3>1. s * (c + 1) <= s * q /\ s * (c + 1) = s * c + s
      BY <1>2, <2>2
    <3> QED
      BY <1>2, <1>5, <3>1
  <2> QED
    BY <1>2, <2>1, <2>2
<1> QED
  BY <1>3, <1>4, <1>5 DEF q

(* No file has more chunks than bytes, and only an empty one has none.     *)
LEMMA CeilingBounds ==
  ASSUME NEW size \in Nat, NEW s \in Nat \ {0}
  PROVE  /\ CeilDiv(size, s) \in Nat /\ CeilDiv(size, s) <= size
         /\ CeilDiv(size, s) = 0 <=> size = 0
<1> DEFINE n == CeilDiv(size, s)
<1>1. n \in Nat
  <2>1. size + s - 1 \in Nat
    OBVIOUS
  <2> QED
    BY <2>1, Remainder DEF CeilDiv
<1>2. s * (n - 1) < size /\ size <= s * n
  BY <1>1, CeilingIsUnique
<1> HIDE DEF n
<1>3. n <= size
  <2>1. ASSUME n >= size + 1 PROVE FALSE
    <3>1. 1 * (n - 1) <= s * (n - 1)
      BY <1>1, <2>1
    <3> QED
      BY <1>1, <1>2, <2>1, <3>1
  <2> QED
    BY <1>1, <2>1
<1>4. n = 0 => size = 0
  BY <1>2
<1> QED
  BY <1>1, <1>3, <1>4 DEF n

(* Every byte is in exactly one chunk, and no chunk is empty.              *)
THEOREM ChunksTile ==
  ASSUME NEW size \in Nat, NEW s \in Nat \ {0}
  PROVE  LET n == CeilDiv(size, s)
             Chunks == {ChunkBytes(c, size, s) : c \in 0 .. n - 1}
         IN  /\ UNION Chunks = 0 .. size - 1
             /\ {} \notin Chunks
             /\ IsFiniteSet(Chunks) /\ Cardinality(Chunks) = n
<1> DEFINE n == CeilDiv(size, s)
           Chunks == {ChunkBytes(c, size, s) : c \in 0 .. n - 1}
           chunk == [c \in 0 .. n - 1 |-> ChunkBytes(c, size, s)]
<1>1. n \in Nat
  BY CeilingBounds
<1>2. \A c \in Nat : ChunkBytes(c, size, s) # {} <=> c < n
  BY ChunkHasBytes
<1>3. \A c \in Nat : ChunkBytes(c, size, s) \subseteq 0 .. size - 1
  BY DEF ChunkBytes
<1> HIDE DEF n
<1>4. UNION Chunks = 0 .. size - 1
  <2>1. ASSUME NEW b \in 0 .. size - 1 PROVE b \in UNION Chunks
    <3>1. b \in Nat /\ b \div s \in Nat
      BY Remainder
    <3>2. b \in ChunkBytes(b \div s, size, s)
      BY <3>1, ChunkOfByte
    <3>3. b \div s \in 0 .. n - 1
      BY <1>1, <1>2, <3>1, <3>2
    <3> QED
      BY <3>2, <3>3
  <2>2. \A c \in 0 .. n - 1 : ChunkBytes(c, size, s) \subseteq 0 .. size - 1
    BY <1>1, <1>3
  <2> QED
    BY <2>1, <2>2
<1>5. {} \notin Chunks
  <2>1. \A c \in 0 .. n - 1 : c \in Nat /\ c < n
    BY <1>1
  <2> QED
    BY <1>2, <2>1
<1>6. chunk \in Bijection(0 .. n - 1, Chunks)
  <2>1. ASSUME NEW c \in 0 .. n - 1, NEW d \in 0 .. n - 1, chunk[c] = chunk[d] PROVE c = d
    <3>1. c \in Nat /\ d \in Nat /\ c < n /\ d < n
      BY <1>1
    <3>2. PICK b \in ChunkBytes(c, size, s) : TRUE
      BY <1>2, <3>1
    <3>3. b \in ChunkBytes(d, size, s)
      BY <2>1, <3>2
    <3>4. b \in 0 .. size - 1
      BY <1>3, <3>1, <3>2
    <3> QED
      BY <3>1, <3>2, <3>3, <3>4, ChunkOfByte
  <2> QED
    BY <2>1 DEF Bijection, Injection, Surjection, IsInjective
<1>7. IsFiniteSet(0 .. n - 1) /\ Cardinality(0 .. n - 1) = n
  <2>1. /\ IsFiniteSet(0 .. n - 1)
        /\ Cardinality(0 .. n - 1) = IF 0 > n - 1 THEN 0 ELSE n - 1 - 0 + 1
    BY <1>1, FS_Interval
  <2> QED
    BY <1>1, <2>1
<1>8. IsFiniteSet(Chunks) /\ Cardinality(Chunks) = n
  BY <1>6, <1>7, FS_Bijection DEF ExistsBijection
<1> QED
  BY <1>4, <1>5, <1>8 DEF n

-----------------------------------------------------------------------------
(* The bitmap.                                                             *)
Bitmap == {bm \in [len : Nat, ones : SUBSET Nat] : bm.ones \subseteq 0 .. bm.len - 1}

(* What is serialised comes back with its ones and the padding of its last *)
(* word.                                                                   *)
LEMMA BitmapComesBack ==
  ASSUME NEW bm \in Bitmap
  PROVE  /\ Words(bm.len) \in Nat /\ bm.len <= Words(bm.len) * WordBits
         /\ Words(bm.len) = 0 <=> bm.len = 0
         /\ Deserialize(Words(bm.len), Serialize(bm)) =
              [len |-> Words(bm.len) * WordBits, ones |-> bm.ones]
<1> DEFINE k == Words(bm.len)
           words == Serialize(bm)
<1>1. bm.len \in Nat /\ bm.ones \subseteq 0 .. bm.len - 1 /\ WordBits \in Nat \ {0}
  BY WordBitsAssumption DEF Bitmap
<1>2. k \in Nat /\ (k = 0 <=> bm.len = 0)
  BY <1>1, CeilingBounds DEF Words
<1>3. bm.len <= k * WordBits
  <2>1. bm.len <= WordBits * k
    BY <1>1, <1>2, CeilingIsUnique DEF Words
  <2> QED
    BY <1>1, <1>2, <2>1
<1>4. words = [w \in 0 .. k - 1 |-> {b \in 0 .. WordBits - 1 : w * WordBits + b \in bm.ones}]
  BY DEF Serialize
<1> HIDE DEF k, words
<1>5. ASSUME NEW c \in 0 .. k * WordBits - 1
      PROVE  c % WordBits \in words[c \div WordBits] <=> c \in bm.ones
  <2>1. c \in Nat /\ c < k * WordBits
    BY <1>1, <1>2
  <2> DEFINE w == c \div WordBits
             b == c % WordBits
  <2>2. w \in Nat /\ b \in 0 .. WordBits - 1 /\ c = WordBits * w + b
    BY <1>1, <2>1, Remainder
  <2> HIDE DEF w, b
  <2>3. w < k
    <3>1. ASSUME k <= w PROVE FALSE
      <4>1. k * WordBits <= w * WordBits
        BY <1>1, <1>2, <2>2, <3>1, ProductsAreOrdered
      <4> QED
        BY <1>1, <1>2, <2>1, <2>2, <4>1
    <3> QED
      BY <1>2, <2>2, <3>1
  <2>4. w \in 0 .. k - 1 /\ c = w * WordBits + b
    BY <1>1, <1>2, <2>2, <2>3
  <2>5. words[w] = {d \in 0 .. WordBits - 1 : w * WordBits + d \in bm.ones}
    BY <1>4, <2>4
  <2>6. b \in words[w] <=> w * WordBits + b \in bm.ones
    BY <2>2, <2>5
  <2> QED
    BY <2>4, <2>6 DEF w, b
<1>6. bm.ones \subseteq 0 .. k * WordBits - 1
  <2>1. k * WordBits \in Nat
    BY <1>1, <1>2
  <2> QED
    BY <1>1, <1>3, <2>1
<1>7. {c \in 0 .. k * WordBits - 1 : c % WordBits \in words[c \div WordBits]} = bm.ones
  BY <1>5, <1>6
<1>8. Deserialize(k, words) = [len |-> k * WordBits, ones |-> bm.ones]
  BY <1>7 DEF Deserialize
<1> QED
  BY <1>2, <1>3, <1>8 DEF k, words

(* The bitmap that gmf-remote works with is the one the client sent, its   *)
(* padding cut off (main.rs:92).                                           *)
THEOREM PaddingIsCutOff ==
  ASSUME NEW bm \in Bitmap
  PROVE  LET decoded == Deserialize(Words(bm.len), Serialize(bm))
         IN  /\ truncate(decoded, bm.len) = bm
             /\ decoded.len > bm.len \/ decoded = bm
<1>1. /\ Deserialize(Words(bm.len), Serialize(bm)) =
           [len |-> Words(bm.len) * WordBits, ones |-> bm.ones]
      /\ bm.len <= Words(bm.len) * WordBits /\ Words(bm.len) * WordBits \in Nat
  BY BitmapComesBack, WordBitsAssumption
<1>2. /\ bm.len \in Nat /\ bm.ones \subseteq 0 .. bm.len - 1
      /\ bm = [len |-> bm.len, ones |-> bm.ones]
  BY DEF Bitmap
<1>3. bm.ones \cap 0 .. bm.len - 1 = bm.ones
  BY <1>2
<1> QED
  BY <1>1, <1>2, <1>3 DEF truncate

-----------------------------------------------------------------------------
(* The bytes of the pending chunks.                                        *)
MissingOf(bm, size, s) == {b \in 0 .. size - 1 : b \div s \in pending_ids(bm)}

(* The remaining size that gmf-remote reports is that of the pending       *)
(* chunks, but for what a short last chunk lacks (main.rs:99).             *)
THEOREM RemainingIsExactButForOne ==
  ASSUME NEW size \in Nat, NEW s \in Nat \ {0}, NEW bm \in Bitmap, bm.len = CeilDiv(size, s)
  PROVE  LET remaining == remaining_size(size, s, completed_count(bm))
             missing == Cardinality(MissingOf(bm, size, s))
         IN  remaining <= missing /\ missing < remaining + s
<1> DEFINE n == bm.len
           All == 0 .. size - 1
           Covered == {b \in All : b \div s \in bm.ones}
           Missing == MissingOf(bm, size, s)
           Pairs == bm.ones \X (0 .. s - 1)
           k == Cardinality(bm.ones)
<1>1. n \in Nat /\ bm.ones \subseteq 0 .. n - 1
  BY DEF Bitmap
<1>2. s * (n - 1) < size /\ size <= s * n
  BY <1>1, CeilingIsUnique
<1>3. IsFiniteSet(bm.ones) /\ k \in Nat
  <2>1. IsFiniteSet(0 .. n - 1)
    BY <1>1, FS_Interval
  <2> QED
    BY <1>1, <2>1, FS_Subset, FS_CardinalityType
<1>4. IsFiniteSet(All) /\ Cardinality(All) = size
  <2>1. IsFiniteSet(All) /\ Cardinality(All) = IF 0 > size - 1 THEN 0 ELSE size - 1 - 0 + 1
    BY FS_Interval
  <2> QED
    BY <2>1
<1>5. IsFiniteSet(Covered) /\ Cardinality(Covered) \in Nat
  <2>1. Covered \in SUBSET All
    OBVIOUS
  <2> QED
    BY <1>4, <2>1, FS_Subset, FS_CardinalityType
<1>6. IsFiniteSet(Pairs) /\ Cardinality(Pairs) = k * s
  <2>1. /\ IsFiniteSet(0 .. s - 1)
        /\ Cardinality(0 .. s - 1) = IF 0 > s - 1 THEN 0 ELSE s - 1 - 0 + 1
    BY FS_Interval
  <2>2. Cardinality(0 .. s - 1) = s
    BY <2>1
  <2> QED
    BY <1>3, <2>1, <2>2, FS_Product
<1> HIDE DEF n, k
<1>7. \A b \in All : /\ b \in Nat /\ b \div s \in Nat /\ b % s \in 0 .. s - 1
                     /\ b = s * (b \div s) + (b % s)
  <2>1. All \subseteq Nat
    OBVIOUS
  <2> QED
    BY <2>1, Remainder
<1>8. Missing = All \ Covered
  <2>1. \A b \in All : b \div s \in 0 .. n - 1
    <3>1. SUFFICES ASSUME NEW b \in All PROVE b \div s \in 0 .. n - 1
      OBVIOUS
    <3>2. b \div s \in Nat /\ b \in ChunkBytes(b \div s, size, s)
      BY <1>7, ChunkOfByte
    <3>3. b \div s < CeilDiv(size, s)
      BY <3>2, ChunkHasBytes
    <3> QED
      BY <1>1, <3>2, <3>3 DEF n
  <2> QED
    BY <2>1 DEF MissingOf, pending_ids, n
<1>9. Cardinality(Missing) = size - Cardinality(Covered)
  <2>1. All \cap Covered = Covered
    OBVIOUS
  <2> QED
    BY <1>4, <1>8, <2>1, FS_Difference
(* Each completed chunk has at most s bytes.                               *)
<1>10. Cardinality(Covered) <= k * s
  <2> DEFINE f == [b \in Covered |-> <<b \div s, b % s>>]
  <2>1. f \in [Covered -> Pairs]
    BY <1>7
  <2>2. ASSUME NEW a \in Covered, NEW b \in Covered, f[a] = f[b] PROVE a = b
    <3>1. a \div s = b \div s /\ a % s = b % s
      BY <2>2
    <3>2. a = s * (a \div s) + (a % s) /\ b = s * (b \div s) + (b % s)
      BY <1>7
    <3> QED
      BY <3>1, <3>2
  <2>3. f \in Injection(Covered, Pairs)
    BY <2>1, <2>2 DEF Injection, IsInjective
  <2> QED
    BY <1>6, <2>3, FS_Injection
(* Only the last may have fewer, and it has one.                           *)
<1>11. k * s <= Cardinality(Covered) + (s - 1)
  <2> DEFINE Beyond == size .. size + s - 2
             f == [p \in Pairs |-> s * p[1] + p[2]]
  <2>1. IsFiniteSet(Beyond) /\ Cardinality(Beyond) = s - 1
    <3>1. IsFiniteSet(Beyond)
            /\ Cardinality(Beyond) = IF size > size + s - 2 THEN 0 ELSE size + s - 2 - size + 1
      BY FS_Interval
    <3> QED
      BY <3>1
  <2>2. ASSUME NEW c \in bm.ones, NEW r \in 0 .. s - 1
        PROVE  /\ s * c + r \in Nat
               /\ (s * c + r) \div s = c /\ (s * c + r) % s = r
               /\ s * c + r \in Covered \cup Beyond
    <3>1. c \in Nat /\ c <= n - 1
      BY <1>1
    <3>2. s * c + r \in Nat
      BY <3>1
    <3> DEFINE x == s * c + r
               q == x \div s
               t == x % s
    <3>3. q \in Nat /\ t \in 0 .. s - 1 /\ x = s * q + t
      BY <3>2, Remainder
    <3> HIDE DEF q, t
    <3>4. q = c
      <4>1. ASSUME q <= c - 1 PROVE FALSE
        <5>1. s * (q + 1) <= s * c /\ s * (q + 1) = s * q + s
          BY <3>1, <3>3, <4>1
        <5> QED
          BY <3>1, <3>3, <5>1
      <4>2. ASSUME q >= c + 1 PROVE FALSE
        <5>1. s * (c + 1) <= s * q /\ s * (c + 1) = s * c + s
          BY <3>1, <3>3, <4>2
        <5> QED
          BY <3>1, <3>3, <5>1
      <4> QED
        BY <3>1, <3>3, <4>1, <4>2
    <3>5. t = r
      BY <3>1, <3>3, <3>4
    <3>6. x <= size + s - 2
      <4>1. s * c <= s * (n - 1)
        BY <1>1, <3>1
      <4> QED
        BY <1>1, <1>2, <3>1, <4>1
    <3>7. x \in All \cup Beyond
      BY <3>2, <3>6
    <3> QED
      BY <3>2, <3>4, <3>5, <3>7 DEF q, t
  <2>3. \A p \in Pairs : p = <<p[1], p[2]>> /\ p[1] \in bm.ones /\ p[2] \in 0 .. s - 1
    OBVIOUS
  <2>4. f \in [Pairs -> Covered \cup Beyond]
    BY <2>2, <2>3
  <2>5. ASSUME NEW p \in Pairs, NEW q \in Pairs, f[p] = f[q] PROVE p = q
    <3>1. p[1] = q[1] /\ p[2] = q[2]
      BY <2>2, <2>3, <2>5
    <3> QED
      BY <2>3, <3>1
  <2>6. f \in Injection(Pairs, Covered \cup Beyond)
    BY <2>4, <2>5 DEF Injection, IsInjective
  <2>7. /\ IsFiniteSet(Covered \cup Beyond)
        /\ Cardinality(Covered \cup Beyond)
             = Cardinality(Covered) + Cardinality(Beyond) - Cardinality(Covered \cap Beyond)
        /\ Cardinality(Covered \cap Beyond) \in Nat
    BY <1>5, <2>1, FS_Union, FS_Intersection, FS_CardinalityType
  <2> HIDE DEF f, Beyond, Pairs, Covered
  <2>8. Cardinality(Pairs) <= Cardinality(Covered \cup Beyond)
    BY <2>6, <2>7, FS_Injection
  <2>9. Cardinality(Beyond) = s - 1 /\ Cardinality(Pairs) = k * s
    BY <1>6, <2>1 DEF Beyond, Pairs
  <2>10. \A p, c, d, u, v \in Int :
           p <= u /\ u = c + d - v /\ v >= 0 => p <= c + d
    OBVIOUS
  <2>11. /\ Cardinality(Pairs) \in Int /\ Cardinality(Beyond) \in Int
         /\ Cardinality(Covered) \in Int /\ Cardinality(Covered \cap Beyond) \in Int
         /\ Cardinality(Covered \cap Beyond) >= 0
    <3>1. k * s \in Int /\ s - 1 \in Int
      BY <1>3
    <3>2. Cardinality(Covered) \in Int
      BY <1>5
    <3>3. Cardinality(Covered \cap Beyond) \in Int /\ Cardinality(Covered \cap Beyond) >= 0
      BY <2>7
    <3> QED
      BY <2>9, <3>1, <3>2, <3>3
  <2>12. Cardinality(Pairs) <= Cardinality(Covered) + Cardinality(Beyond)
    BY <2>7, <2>8, <2>10, <2>11
  <2> QED
    BY <2>9, <2>12
<1>12. Cardinality(Missing) \in Int
  BY <1>5, <1>9
<1>13. k * s \in Nat
  BY <1>3
<1>14. remaining_size(size, s, completed_count(bm)) = IF k * s >= size THEN 0 ELSE size - k * s
  BY DEF remaining_size, completed_count, k
<1>15. Cardinality(Missing) \in Nat
  <2>1. IsFiniteSet(All \ Covered)
    BY <1>4, FS_Difference
  <2> QED
    BY <1>8, <2>1, FS_CardinalityType
<1> HIDE DEF Missing, Covered
<1> QED
  BY <1>5, <1>9, <1>10, <1>11, <1>13, <1>14, <1>15 DEF Missing
=============================================================================
