---------------------------- MODULE Requests_proofs ----------------------------
(***************************************************************************)
(* The two requests of a session, for every file and every size of chunks, *)
(* every capacity of the channels, every number of sessions and every way  *)
(* to cut the streams into packets.                                        *)
(*                                                                         *)
(* First, what buffer, stream and channel of a direction hold is a         *)
(* sequence of messages, whatever the places (Carries): a packet does not  *)
(* change it, and the reader takes messages off its front.  Then a session *)
(* is in one of twelve stages (Stage), each of which says what the two     *)
(* sides know and what they are telling each other; every action leads     *)
(* from a stage to a stage.  That gmf-remote and the client mean the same  *)
(* chunks is the arithmetic of Chunking_proofs.                            *)
(***************************************************************************)
EXTENDS Requests, Chunking_proofs, SequenceTheorems

-----------------------------------------------------------------------------
(* What a stream of bytes and the channel behind its reader carry.         *)
Bytes(M) == [part : {"head", "tail", "newline"}, of : M]
Token(part, m) == [part |-> part, of |-> m]
OneLine(m) == [i \in 1 .. 3 |-> [part |-> <<"head", "tail", "newline">>[i], of |-> m]]

(* The bytes p are the lines of the messages q, none of them cut.          *)
Framed(p, q) ==
  /\ Len(p) = 3 * Len(q)
  /\ \A i \in 1 .. Len(q) :
       /\ p[3 * i - 2] = Token("head", q[i])
       /\ p[3 * i - 1] = Token("tail", q[i])
       /\ p[3 * i] = Token("newline", q[i])

(* What concatenation does, a name for the solvers.                        *)
Joined(S, a, b, r) ==
  /\ r \in Seq(S) /\ Len(r) = Len(a) + Len(b)
  /\ Len(a) \in Nat /\ Len(b) \in Nat
  /\ \A i \in 1 .. Len(a) : r[i] = a[i]
  /\ \A i \in 1 .. Len(b) : r[Len(a) + i] = b[i]

(* Concatenation, with its type, its length and its two parts.             *)
LEMMA Concatenation ==
  ASSUME NEW S, NEW a \in Seq(S), NEW b \in Seq(S)
  PROVE  Joined(S, a, b, a \o b)
  BY DEF Joined

(* The first n of a sequence and the rest.                                 *)
LEMMA CutOffFirst ==
  ASSUME NEW S, NEW a \in Seq(S), NEW n \in 0 .. Len(a)
  PROVE  /\ SubSeq(a, 1, n) \in Seq(S) /\ Len(SubSeq(a, 1, n)) = n
         /\ \A i \in 1 .. n : SubSeq(a, 1, n)[i] = a[i]
         /\ SubSeq(a, n + 1, Len(a)) \in Seq(S) /\ Len(SubSeq(a, n + 1, Len(a))) = Len(a) - n
         /\ \A i \in 1 .. Len(a) - n : SubSeq(a, n + 1, Len(a))[i] = a[i + n]
  OBVIOUS

(* What is left of a sequence without its first n.                         *)
Dropped(S, a, n, r) ==
  r \in Seq(S) /\ Len(r) = Len(a) - n /\ \A i \in 1 .. Len(a) - n : r[i] = a[i + n]

(* The rest of a sequence is what is left without its first n.             *)
LEMMA CutOffRest ==
  ASSUME NEW S, NEW a \in Seq(S), NEW n \in 0 .. Len(a)
  PROVE  Dropped(S, a, n, SubSeq(a, n + 1, Len(a)))
  BY CutOffFirst DEF Dropped

(* Draining the buffer drops the first of all bytes.                       *)
LEMMA DropFirst ==
  ASSUME NEW S, NEW b \in Seq(S), NEW s \in Seq(S), NEW n \in 0 .. Len(b),
         NEW rest, Dropped(S, b, n, rest)
  PROVE  Dropped(S, b \o s, n, rest \o s)
<1>1. /\ rest \in Seq(S) /\ Len(rest) = Len(b) - n
      /\ \A i \in 1 .. Len(b) - n : rest[i] = b[i + n]
  BY DEF Dropped
<1>a. Joined(S, rest, s, rest \o s) /\ Joined(S, b, s, b \o s)
  BY <1>1, Concatenation
<1>0. Len(b) \in Nat /\ Len(s) \in Nat
  BY <1>a DEF Joined
<1>2. /\ rest \o s \in Seq(S) /\ Len(rest \o s) = Len(rest) + Len(s)
      /\ \A i \in 1 .. Len(rest) : (rest \o s)[i] = rest[i]
      /\ \A i \in 1 .. Len(s) : (rest \o s)[Len(rest) + i] = s[i]
  BY <1>a DEF Joined
<1>3. /\ Len(b \o s) = Len(b) + Len(s)
      /\ \A i \in 1 .. Len(b) : (b \o s)[i] = b[i]
      /\ \A i \in 1 .. Len(s) : (b \o s)[Len(b) + i] = s[i]
  BY <1>a DEF Joined
<1>4. Len(rest \o s) = Len(b \o s) - n
  <2>1. \A x, y, z, u, v \in Int : z = x - n /\ u = z + y /\ v = x + y => u = v - n
    OBVIOUS
  <2>2. Len(rest) \in Int /\ Len(rest \o s) \in Int /\ Len(b \o s) \in Int
    BY <1>0, <1>1, <1>2, <1>3
  <2> QED
    BY <1>0, <1>1, <1>2, <1>3, <2>1, <2>2
<1> SUFFICES ASSUME NEW i \in 1 .. Len(rest \o s) PROVE (rest \o s)[i] = (b \o s)[i + n]
  BY <1>2, <1>4 DEF Dropped
<1>5. i \in Nat /\ n \in Nat /\ Len(rest) \in Nat
  BY <1>0, <1>1, <1>2
<1>6. CASE i <= Len(rest)
  <2>1. i \in 1 .. Len(rest) /\ i \in 1 .. Len(b) - n /\ i + n \in 1 .. Len(b)
    BY <1>0, <1>1, <1>2, <1>5, <1>6
  <2> QED
    BY <1>0, <1>1, <1>2, <1>3, <2>1
<1>7. CASE i > Len(rest)
  <2> DEFINE j == i - Len(rest)
  <2>1. j \in 1 .. Len(s) /\ i = Len(rest) + j /\ i + n = Len(b) + j
    BY <1>0, <1>1, <1>2, <1>5, <1>7
  <2> HIDE DEF j
  <2> QED
    BY <1>2, <1>3, <2>1
<1>8. i <= Len(rest) \/ i > Len(rest)
  BY <1>5
<1> QED
  BY <1>6, <1>7, <1>8, Zenon

(* A range that starts at one has one end.                                 *)
LEMMA EndOfRange == \A k, n \in Nat : 1 .. k = 1 .. n => k = n
<1> SUFFICES ASSUME NEW k \in Nat, NEW n \in Nat, 1 .. k = 1 .. n PROVE k = n
  OBVIOUS
<1>1. \A i \in Nat : 1 <= i /\ i <= k <=> 1 <= i /\ i <= n
  <2>1. \A i \in Nat : i \in 1 .. k <=> i \in 1 .. n
    OBVIOUS
  <2> QED
    BY <2>1
<1>2. (1 <= k => k <= n) /\ (1 <= n => n <= k)
  BY <1>1
<1> QED
  BY <1>2

(* A line is three bytes.                                                  *)
LEMMA LineIsFramed ==
  ASSUME NEW M, NEW m \in M
  PROVE  /\ OneLine(m) \in Seq(Bytes(M)) /\ Len(OneLine(m)) = 3
         /\ OneLine(m)[1] = Token("head", m)
         /\ OneLine(m)[2] = Token("tail", m)
         /\ OneLine(m)[3] = Token("newline", m)
<1>1. \A i \in 1 .. 3 : <<"head", "tail", "newline">>[i] \in {"head", "tail", "newline"}
  OBVIOUS
<1>2. OneLine(m) \in [1 .. 3 -> Bytes(M)]
  BY <1>1 DEF OneLine, Bytes
<1>3. OneLine(m) \in Seq(Bytes(M)) /\ Len(OneLine(m)) = 3
  <2>1. OneLine(m) \in Seq(Bytes(M))
    BY <1>2, SeqDef
  <2>2. DOMAIN OneLine(m) = 1 .. Len(OneLine(m)) /\ Len(OneLine(m)) \in Nat
    BY <2>1, LenProperties
  <2>3. DOMAIN OneLine(m) = 1 .. 3
    BY DEF OneLine
  <2>4. 1 .. Len(OneLine(m)) = 1 .. 3
    BY <2>2, <2>3
  <2> QED
    BY <2>1, <2>2, <2>4, EndOfRange
<1> QED
  BY <1>3 DEF OneLine, Token

(* A line that is written behind whole lines is one more message.          *)
LEMMA WriteKeepsFrames ==
  ASSUME NEW M, NEW p \in Seq(Bytes(M)), NEW q \in Seq(M), NEW m \in M, Framed(p, q),
         NEW l \in Seq(Bytes(M)), l = OneLine(m)
  PROVE  Framed(p \o l, Append(q, m))
<1> DEFINE r == p \o l
           t == Append(q, m)
<1>1. /\ Len(l) = 3
      /\ l[1] = Token("head", m) /\ l[2] = Token("tail", m) /\ l[3] = Token("newline", m)
  BY LineIsFramed
<1>0. /\ r \in Seq(Bytes(M)) /\ Len(r) = Len(p) + Len(l)
      /\ \A i \in 1 .. Len(p) : r[i] = p[i]
      /\ \A i \in 1 .. Len(l) : r[Len(p) + i] = l[i]
  OBVIOUS
<1>2. /\ r \in Seq(Bytes(M)) /\ Len(r) = Len(p) + 3
      /\ \A i \in 1 .. Len(p) : r[i] = p[i]
      /\ \A i \in 1 .. 3 : r[Len(p) + i] = l[i]
  BY <1>0, <1>1
<1>3. Len(q) \in Nat /\ Len(p) = 3 * Len(q) /\ Len(t) = Len(q) + 1 /\ t[Len(q) + 1] = m
  BY DEF Framed
<1>4. \A i \in 1 .. Len(q) : t[i] = q[i]
  OBVIOUS
<1> HIDE DEF r, t
<1>5. ASSUME NEW i \in 1 .. Len(q)
      PROVE  /\ r[3 * i - 2] = Token("head", t[i])
             /\ r[3 * i - 1] = Token("tail", t[i])
             /\ r[3 * i] = Token("newline", t[i])
  <2>1. 3 * i - 2 \in 1 .. Len(p) /\ 3 * i - 1 \in 1 .. Len(p) /\ 3 * i \in 1 .. Len(p)
    BY <1>3
  <2> QED
    BY <1>2, <1>4, <2>1 DEF Framed
<1>6. LET i == Len(q) + 1
      IN  /\ r[3 * i - 2] = Token("head", t[i])
          /\ r[3 * i - 1] = Token("tail", t[i])
          /\ r[3 * i] = Token("newline", t[i])
  <2>1. /\ 3 * (Len(q) + 1) - 2 = Len(p) + 1
        /\ 3 * (Len(q) + 1) - 1 = Len(p) + 2
        /\ 3 * (Len(q) + 1) = Len(p) + 3
    BY <1>3
  <2>2. r[Len(p) + 1] = l[1] /\ r[Len(p) + 2] = l[2] /\ r[Len(p) + 3] = l[3]
    BY <1>2
  <2> QED
    BY <1>1, <1>3, <2>1, <2>2
<1>7. \A i \in 1 .. Len(t) : i \in 1 .. Len(q) \/ i = Len(q) + 1
  BY <1>3
<1>8. Len(r) = 3 * Len(t)
  BY <1>2, <1>3
<1>9. Framed(r, t)
  <2> SUFFICES ASSUME NEW i \in 1 .. Len(t)
               PROVE  /\ r[3 * i - 2] = Token("head", t[i])
                      /\ r[3 * i - 1] = Token("tail", t[i])
                      /\ r[3 * i] = Token("newline", t[i])
    BY <1>8 DEF Framed
  <2>1. CASE i \in 1 .. Len(q)
    BY <1>5, <2>1
  <2>2. CASE i = Len(q) + 1
    BY <1>6, <2>2
  <2> QED
    BY <1>7, <2>1, <2>2
<1> QED
  BY <1>9 DEF r, t

(* The first newline in the buffer ends the first line, and what is        *)
(* drained is that line.                                                   *)
FirstEnd(b, N, f) ==
  /\ N = {i \in 1 .. Len(b) : b[i].part = "newline"} /\ N # {}
  /\ f = CHOOSE i \in N : \A j \in N : i <= j

SplitOff(M, b, s, q, f) ==
  /\ q # <<>> /\ Head(b).of = Head(q)
  /\ SubSeq(b, 1, f) = OneLine(Head(q))
  /\ SubSeq(b, f + 1, Len(b)) \in Seq(Bytes(M))
  /\ Framed(SubSeq(b, f + 1, Len(b)) \o s, Tail(q))

(* The first newline ends the line of the first message, wherever the      *)
(* bytes are cut into buffer and stream.                                   *)
LEMMA FirstLine ==
  ASSUME NEW M, NEW b \in Seq(Bytes(M)), NEW s \in Seq(Bytes(M)), NEW q \in Seq(M),
         Framed(b \o s, q), NEW N, NEW f, FirstEnd(b, N, f)
  PROVE  SplitOff(M, b, s, q, f)
<1> DEFINE p == b \o s
           rest == SubSeq(b, 4, Len(b))
<1>1. /\ Len(b) \in Nat /\ Len(s) \in Nat /\ Len(q) \in Nat
      /\ p \in Seq(Bytes(M)) /\ Len(p) = Len(b) + Len(s)
      /\ \A i \in 1 .. Len(b) : p[i] = b[i]
      /\ \A i \in 1 .. Len(s) : p[Len(b) + i] = s[i]
  OBVIOUS
<1>2. /\ Len(p) = 3 * Len(q)
      /\ \A i \in 1 .. Len(q) : /\ p[3 * i - 2] = Token("head", q[i])
                                /\ p[3 * i - 1] = Token("tail", q[i])
                                /\ p[3 * i] = Token("newline", q[i])
  BY DEF Framed
<1> HIDE DEF p
<1>3. Len(q) >= 1
  BY <1>1, <1>2 DEF FirstEnd
<1>4. p[1] = Token("head", q[1]) /\ p[2] = Token("tail", q[1]) /\ p[3] = Token("newline", q[1])
  <2>1. 1 \in 1 .. Len(q) /\ 3 * 1 - 2 = 1 /\ 3 * 1 - 1 = 2 /\ 3 * 1 = 3
    BY <1>1, <1>3
  <2> QED
    BY <1>2, <2>1
<1>5. Len(b) >= 3 /\ 3 \in N /\ \A j \in N : 3 <= j
  <2>1. \A j \in N : j \in 1 .. Len(b) /\ j # 1 /\ j # 2
    BY <1>1, <1>4 DEF Token, FirstEnd
  <2>2. \A j \in N : j >= 3 /\ j <= Len(b)
    BY <1>1, <2>1
  <2>3. Len(b) >= 3
    BY <1>1, <2>2 DEF FirstEnd
  <2>4. 3 \in N
    BY <1>1, <1>4, <2>3 DEF Token, FirstEnd
  <2> QED
    BY <2>2, <2>3, <2>4
<1>6. f = 3
  <2>1. f \in N /\ \A j \in N : f <= j
    BY <1>5 DEF FirstEnd
  <2>2. f \in Int
    BY <1>1, <2>1 DEF FirstEnd
  <2> QED
    BY <1>5, <2>1, <2>2
<1>7. q # <<>> /\ Head(q) = q[1] /\ Head(q) \in M
  BY <1>3
<1>8. b[1] = Token("head", q[1]) /\ b[2] = Token("tail", q[1]) /\ b[3] = Token("newline", q[1])
  BY <1>1, <1>4, <1>5
<1>9. Head(b).of = Head(q)
  BY <1>5, <1>7, <1>8 DEF Token
<1>10. SubSeq(b, 1, 3) = OneLine(Head(q))
  <2>1. /\ SubSeq(b, 1, 3) \in Seq(Bytes(M)) /\ Len(SubSeq(b, 1, 3)) = 3
        /\ SubSeq(b, 1, 3)[1] = b[1] /\ SubSeq(b, 1, 3)[2] = b[2] /\ SubSeq(b, 1, 3)[3] = b[3]
    <3>1. 3 \in 0 .. Len(b)
      BY <1>1, <1>5
    <3>2. /\ SubSeq(b, 1, 3) \in Seq(Bytes(M)) /\ Len(SubSeq(b, 1, 3)) = 3
          /\ \A i \in 1 .. 3 : SubSeq(b, 1, 3)[i] = b[i]
      BY <3>1, CutOffFirst
    <3> QED
      BY <3>2
  <2>2. /\ OneLine(Head(q)) \in Seq(Bytes(M)) /\ Len(OneLine(Head(q))) = 3
        /\ OneLine(Head(q))[1] = Token("head", Head(q))
        /\ OneLine(Head(q))[2] = Token("tail", Head(q))
        /\ OneLine(Head(q))[3] = Token("newline", Head(q))
    BY <1>7, LineIsFramed
  <2>3. \A i \in 1 .. 3 : SubSeq(b, 1, 3)[i] = OneLine(Head(q))[i]
    <3>1. \A i \in 1 .. 3 : i = 1 \/ i = 2 \/ i = 3
      OBVIOUS
    <3> QED
      BY <1>7, <1>8, <2>1, <2>2, <3>1
  <2> QED
    BY <2>1, <2>2, <2>3, SeqEqual
<1>11. Dropped(Bytes(M), b, 3, rest)
  <2>1. 3 \in 0 .. Len(b)
    BY <1>1, <1>5
  <2>2. Dropped(Bytes(M), b, 3, SubSeq(b, 3 + 1, Len(b)))
    BY <2>1, CutOffRest
  <2> QED
    BY <2>2
<1> DEFINE r == rest \o s
           t == Tail(q)
<1>12. Len(r) = Len(p) - 3 /\ \A i \in 1 .. Len(r) : r[i] = p[i + 3]
  <2>1. 3 \in 0 .. Len(b)
    BY <1>1, <1>5
  <2> HIDE DEF rest
  <2>2. Dropped(Bytes(M), b \o s, 3, rest \o s)
    BY <1>11, <2>1, DropFirst
  <2> QED
    BY <2>2 DEF p, Dropped
<1> HIDE DEF rest
<1>13. Len(t) = Len(q) - 1 /\ \A i \in 1 .. Len(t) : t[i] = q[i + 1]
  BY <1>1, <1>3
<1> HIDE DEF r, t
<1>14. Framed(r, t)
  <2>1. Len(r) = 3 * Len(t)
    BY <1>1, <1>2, <1>3, <1>12, <1>13
  <2> SUFFICES ASSUME NEW i \in 1 .. Len(t)
               PROVE  /\ r[3 * i - 2] = Token("head", t[i])
                      /\ r[3 * i - 1] = Token("tail", t[i])
                      /\ r[3 * i] = Token("newline", t[i])
    BY <2>1 DEF Framed
  <2>2. /\ i + 1 \in 1 .. Len(q) /\ t[i] = q[i + 1]
        /\ 3 * i - 2 \in 1 .. Len(r) /\ 3 * i - 1 \in 1 .. Len(r) /\ 3 * i \in 1 .. Len(r)
        /\ (3 * i - 2) + 3 = 3 * (i + 1) - 2
        /\ (3 * i - 1) + 3 = 3 * (i + 1) - 1
        /\ 3 * i + 3 = 3 * (i + 1)
    BY <1>1, <1>3, <1>13, <2>1
  <2> QED
    BY <1>2, <1>12, <2>2
<1>15. SubSeq(b, 1, f) = OneLine(Head(q))
  BY <1>6, <1>10
<1>16. f + 1 = 4
  BY <1>6
<1>17. SubSeq(b, f + 1, Len(b)) = rest
  BY <1>16 DEF rest
<1>18. rest \in Seq(Bytes(M))
  BY <1>11 DEF Dropped
<1> QED
  BY <1>7, <1>9, <1>14, <1>15, <1>17, <1>18, Zenon DEF r, t, SplitOff

(* The bytes in the buffer b and the stream s and the channel ch hold the  *)
(* messages d, those in the channel first.                                 *)
Lines(M) == M \cup {NotJson}

Carries(M, b, s, ch, d) ==
  /\ b \in Seq(Bytes(Lines(M))) /\ s \in Seq(Bytes(Lines(M))) /\ ch \in Seq(M)
  /\ \E q \in Seq(Lines(M)) : Framed(b \o s, q) /\ d = ch \o q

(* One message is gone.                                                    *)
Fewer(r, d) ==
  \E k \in 1 .. Len(d) :
    /\ Len(r) = Len(d) - 1
    /\ \A i \in 1 .. Len(r) : r[i] = d[IF i < k THEN i ELSE i + 1]

(* What a direction carries is a sequence of lines.                        *)
LEMMA CarriedType ==
  ASSUME NEW M, NEW b, NEW s, NEW ch, NEW d, Carries(M, b, s, ch, d)
  PROVE  d \in Seq(Lines(M))
<1>1. PICK q \in Seq(Lines(M)) : d = ch \o q
  BY DEF Carries
<1>2. ch \in Seq(Lines(M))
  BY SeqMonotonic DEF Carries, Lines
<1> QED
  BY <1>1, <1>2, ConcatProperties

(* An empty direction carries nothing.                                     *)
LEMMA NothingCarried ==
  ASSUME NEW M PROVE Carries(M, <<>>, <<>>, <<>>, <<>>)
<1>1. <<>> \in Seq(Bytes(Lines(M))) /\ <<>> \in Seq(M) /\ <<>> \in Seq(Lines(M))
  OBVIOUS
<1>2. <<>> \o <<>> = <<>> /\ Len(<<>>) = 0
  OBVIOUS
<1>3. Framed(<<>>, <<>>)
  BY <1>2 DEF Framed
<1> QED
  BY <1>1, <1>2, <1>3 DEF Carries

(* println! puts a message last.                                           *)
LEMMA CarriesWrite ==
  ASSUME NEW M, NEW b, NEW s, NEW ch, NEW d, Carries(M, b, s, ch, d),
         NEW m \in Lines(M)
  PROVE  Carries(M, b, s \o OneLine(m), ch, Append(d, m))
<1> DEFINE l == OneLine(m)
<1>1. /\ b \in Seq(Bytes(Lines(M))) /\ s \in Seq(Bytes(Lines(M))) /\ ch \in Seq(M)
      /\ l \in Seq(Bytes(Lines(M)))
  BY LineIsFramed DEF Carries
<1>2. PICK q \in Seq(Lines(M)) : Framed(b \o s, q) /\ d = ch \o q
  BY DEF Carries
<1>3. b \o s \in Seq(Bytes(Lines(M))) /\ s \o l \in Seq(Bytes(Lines(M)))
  BY <1>1, ConcatProperties
<1>4. b \o (s \o l) = (b \o s) \o l
  BY <1>1, ConcatAssociative
<1>5. Framed(b \o (s \o l), Append(q, m))
  <2>1. \A k \in Seq(Bytes(Lines(M))) : k = OneLine(m) => Framed((b \o s) \o k, Append(q, m))
    BY <1>2, <1>3, WriteKeepsFrames
  <2> QED
    BY <1>1, <1>4, <2>1
<1>6. ch \in Seq(Lines(M))
  BY <1>1, SeqMonotonic DEF Lines
<1>7. Append(q, m) = q \o <<m>> /\ Append(d, m) = d \o <<m>> /\ <<m>> \in Seq(Lines(M))
  <2>1. d \in Seq(Lines(M))
    BY CarriedType
  <2> QED
    BY <2>1, AppendIsConcat
<1>8. Append(d, m) = ch \o Append(q, m)
  BY <1>2, <1>6, <1>7, ConcatAssociative
<1>9. Append(q, m) \in Seq(Lines(M))
  BY AppendProperties
<1> QED
  BY <1>1, <1>3, <1>5, <1>8, <1>9 DEF Carries

(* A sequence that is cut in two is its two parts.                         *)
LEMMA TwoParts ==
  ASSUME NEW B, NEW s \in Seq(B), NEW n \in 1 .. Len(s)
  PROVE  /\ SubSeq(s, 1, n) \in Seq(B) /\ SubSeq(s, n + 1, Len(s)) \in Seq(B)
         /\ SubSeq(s, 1, n) \o SubSeq(s, n + 1, Len(s)) = s
<1>1. n \in 0 .. Len(s) /\ Len(s) \in Nat
  BY LenProperties
<1>2. SubSeq(s, 1, n) \in Seq(B) /\ SubSeq(s, n + 1, Len(s)) \in Seq(B)
  BY <1>1, CutOffFirst
<1>3. 1 \in 1 .. Len(s) + 1 /\ n \in 1 - 1 .. Len(s) /\ Len(s) \in n .. Len(s)
  BY <1>1
<1>4. SubSeq(s, 1, n) \o SubSeq(s, n + 1, Len(s)) = SubSeq(s, 1, Len(s))
  BY <1>3, ConcatAdjacentSubSeq
<1> QED
  BY <1>2, <1>4, SubSeqFull

(* Cutting a packet off the stream leaves the bytes as they are.           *)
LEMMA PacketKeepsBytes ==
  ASSUME NEW B, NEW b \in Seq(B), NEW s \in Seq(B), NEW n \in 1 .. Len(s)
  PROVE  /\ SubSeq(s, 1, n) \in Seq(B) /\ SubSeq(s, n + 1, Len(s)) \in Seq(B)
         /\ (b \o SubSeq(s, 1, n)) \o SubSeq(s, n + 1, Len(s)) = b \o s
<1> DEFINE x == SubSeq(s, 1, n)
           y == SubSeq(s, n + 1, Len(s))
<1>1. x \in Seq(B) /\ y \in Seq(B)
  BY TwoParts
<1>2. x \o y = s
  BY TwoParts
<1> HIDE DEF x, y
<1>3. (b \o x) \o y = b \o (x \o y)
  BY <1>1, ConcatAssociative, Z3T(30)
<1> QED
  BY <1>1, <1>2, <1>3 DEF x, y

(* A packet of any size moves bytes, not messages.                         *)
LEMMA CarriesPacket ==
  ASSUME NEW M, NEW b, NEW s, NEW ch, NEW d, Carries(M, b, s, ch, d), NEW n \in 1 .. Len(s)
  PROVE  Carries(M, b \o SubSeq(s, 1, n), SubSeq(s, n + 1, Len(s)), ch, d)
<1>1. b \in Seq(Bytes(Lines(M))) /\ s \in Seq(Bytes(Lines(M)))
  BY DEF Carries
<1>2. /\ SubSeq(s, 1, n) \in Seq(Bytes(Lines(M)))
      /\ SubSeq(s, n + 1, Len(s)) \in Seq(Bytes(Lines(M)))
      /\ (b \o SubSeq(s, 1, n)) \o SubSeq(s, n + 1, Len(s)) = b \o s
  BY <1>1, PacketKeepsBytes
<1>3. b \o SubSeq(s, 1, n) \in Seq(Bytes(Lines(M)))
  BY <1>1, <1>2, ConcatProperties
<1> QED
  BY <1>2, <1>3 DEF Carries

(* What is handled is the first message.                                   *)
LEMMA CarriesHandle ==
  ASSUME NEW M, NEW b, NEW s, NEW ch, NEW d, Carries(M, b, s, ch, d), ch # <<>>
  PROVE  /\ d # <<>> /\ Head(d) = Head(ch) /\ Head(ch) \in M
         /\ Carries(M, b, s, Tail(ch), Tail(d))
<1>1. PICK q \in Seq(Lines(M)) : Framed(b \o s, q) /\ d = ch \o q
  BY DEF Carries
<1>2. ch \in Seq(M) /\ ch \in Seq(Lines(M))
  BY SeqMonotonic DEF Carries, Lines
<1>3. Head(ch) \in M /\ Tail(ch) \in Seq(M) /\ Tail(ch) \in Seq(Lines(M))
  BY <1>2, HeadTailProperties
<1>4. d # <<>> /\ Head(d) = Head(ch) /\ Tail(d) = Tail(ch) \o q
  <2>1. /\ d \in Seq(Lines(M)) /\ Len(d) = Len(ch) + Len(q)
        /\ Len(ch) \in Nat \ {0} /\ Len(q) \in Nat
        /\ \A i \in 1 .. Len(ch) : d[i] = ch[i]
        /\ \A i \in 1 .. Len(q) : d[Len(ch) + i] = q[i]
    <3>1. Joined(Lines(M), ch, q, d)
      BY <1>1, <1>2, Concatenation
    <3>2. Len(ch) \in Nat \ {0}
      BY <1>2
    <3> QED
      BY <3>1, <3>2, CarriedType DEF Joined
  <2>2. d # <<>>
    BY <2>1
  <2>3. Head(d) = d[1] /\ Head(ch) = ch[1]
    BY <1>2, <2>1, <2>2
  <2>4. /\ Tail(d) \in Seq(Lines(M)) /\ Len(Tail(d)) = Len(d) - 1
        /\ \A i \in 1 .. Len(d) - 1 : Tail(d)[i] = d[i + 1]
    BY <2>1, <2>2, HeadTailProperties
  <2>5. /\ Len(Tail(ch)) = Len(ch) - 1 /\ \A i \in 1 .. Len(ch) - 1 : Tail(ch)[i] = ch[i + 1]
    BY <1>2, HeadTailProperties
  <2> DEFINE r == Tail(ch) \o q
  <2>6. Joined(Lines(M), Tail(ch), q, r)
    BY <1>3, Concatenation
  <2>7. /\ r \in Seq(Lines(M)) /\ Len(r) = Len(Tail(ch)) + Len(q)
        /\ \A i \in 1 .. Len(Tail(ch)) : r[i] = Tail(ch)[i]
        /\ \A i \in 1 .. Len(q) : r[Len(Tail(ch)) + i] = q[i]
    BY <2>6 DEF Joined
  <2> HIDE DEF r
  <2>8. Len(Tail(d)) = Len(r)
    BY <2>1, <2>4, <2>5, <2>7
  <2>9. ASSUME NEW i \in 1 .. Len(Tail(d)) PROVE Tail(d)[i] = r[i]
    <3>1. i \in Nat /\ i \in 1 .. Len(d) - 1 /\ Tail(d)[i] = d[i + 1]
      BY <2>1, <2>4
    <3>2. CASE i <= Len(ch) - 1
      <4>1. i \in 1 .. Len(Tail(ch)) /\ i \in 1 .. Len(ch) - 1 /\ i + 1 \in 1 .. Len(ch)
        BY <2>1, <2>5, <3>1, <3>2
      <4> QED
        BY <2>1, <2>5, <2>7, <3>1, <4>1
    <3>3. CASE i > Len(ch) - 1
      <4> DEFINE j == i - (Len(ch) - 1)
      <4>1. j \in 1 .. Len(q) /\ i + 1 = Len(ch) + j /\ i = Len(Tail(ch)) + j
        BY <2>1, <2>4, <2>5, <3>1, <3>3
      <4> HIDE DEF j
      <4> QED
        BY <2>1, <2>7, <3>1, <4>1
    <3>4. i <= Len(ch) - 1 \/ i > Len(ch) - 1
      BY <2>1, <3>1
    <3> QED
      BY <3>2, <3>3, <3>4, Zenon
  <2>10. Tail(d) = r
    BY <2>4, <2>7, <2>8, <2>9, SeqEqual
  <2> QED
    BY <2>1, <2>2, <2>3, <2>10 DEF r
<1> QED
  BY <1>1, <1>3, <1>4 DEF Carries

(* A line that is a message goes into the channel as that message.         *)
LEMMA CarriesForward ==
  ASSUME NEW M, NEW b, NEW s, NEW ch, NEW d, Carries(M, b, s, ch, d),
         NEW N, NEW f, FirstEnd(b, N, f),
         Head(b).of \in M
  PROVE  Carries(M, SubSeq(b, f + 1, Len(b)), s, Append(ch, Head(b).of), d)
<1>1. PICK q \in Seq(Lines(M)) : Framed(b \o s, q) /\ d = ch \o q
  BY DEF Carries
<1>2. b \in Seq(Bytes(Lines(M))) /\ s \in Seq(Bytes(Lines(M))) /\ ch \in Seq(M)
  BY DEF Carries
<1> DEFINE rest == SubSeq(b, f + 1, Len(b))
           m == Head(b).of
<1>3. /\ q # <<>> /\ m = Head(q)
      /\ rest \in Seq(Bytes(Lines(M))) /\ Framed(rest \o s, Tail(q))
  <2>1. SplitOff(Lines(M), b, s, q, f)
    BY <1>1, <1>2, FirstLine
  <2> QED
    BY <2>1 DEF SplitOff
<1> HIDE DEF rest, m
<1>4. m \in M /\ m \in Lines(M)
  BY DEF m, Lines
<1>5. Append(ch, m) \in Seq(M) /\ Append(ch, m) = ch \o <<m>> /\ <<m>> \in Seq(Lines(M))
  BY <1>2, <1>4, AppendProperties, AppendIsConcat
<1>6. ch \in Seq(Lines(M))
  BY <1>2, SeqMonotonic DEF Lines
<1>7. Tail(q) \in Seq(Lines(M)) /\ q = <<m>> \o Tail(q)
  <2>1. Tail(q) \in Seq(Lines(M))
    BY <1>3, HeadTailProperties
  <2>2. q = <<Head(q)>> \o Tail(q)
    BY <1>3
  <2> QED
    BY <1>3, <2>1, <2>2
<1>8. Append(ch, m) \o Tail(q) = ch \o q
  <2>1. (ch \o <<m>>) \o Tail(q) = ch \o (<<m>> \o Tail(q))
    BY <1>5, <1>6, <1>7, ConcatAssociative
  <2> QED
    BY <1>5, <1>7, <2>1
<1>9. Carries(M, rest, s, Append(ch, m), d)
  BY <1>1, <1>2, <1>3, <1>5, <1>7, <1>8 DEF Carries
<1> QED
  BY <1>9 DEF rest, m

(* A line that is ignored takes nothing but itself with it.                *)
LEMMA CarriesIgnore ==
  ASSUME NEW M, NEW b, NEW s, NEW ch, NEW d, Carries(M, b, s, ch, d),
         NEW N, NEW f, FirstEnd(b, N, f)
  PROVE  \E r : Carries(M, SubSeq(b, f + 1, Len(b)), s, ch, r) /\ Fewer(r, d)
<1>1. PICK q \in Seq(Lines(M)) : Framed(b \o s, q) /\ d = ch \o q
  BY DEF Carries
<1>2. b \in Seq(Bytes(Lines(M))) /\ s \in Seq(Bytes(Lines(M))) /\ ch \in Seq(M)
  BY DEF Carries
<1> DEFINE rest == SubSeq(b, f + 1, Len(b))
           r == ch \o Tail(q)
<1>3. q # <<>> /\ rest \in Seq(Bytes(Lines(M))) /\ Framed(rest \o s, Tail(q))
  <2>1. SplitOff(Lines(M), b, s, q, f)
    BY <1>1, <1>2, FirstLine
  <2> QED
    BY <2>1 DEF SplitOff
<1> HIDE DEF rest
<1>4. /\ Tail(q) \in Seq(Lines(M)) /\ Len(Tail(q)) = Len(q) - 1
      /\ \A i \in 1 .. Len(q) - 1 : Tail(q)[i] = q[i + 1]
      /\ Len(q) \in Nat \ {0}
  BY <1>3, HeadTailProperties, EmptySeq
<1>5. Carries(M, rest, s, ch, r)
  BY <1>2, <1>3, <1>4 DEF Carries
<1>6. Joined(Lines(M), ch, q, d) /\ Joined(Lines(M), ch, Tail(q), r)
  <2>1. ch \in Seq(Lines(M))
    BY <1>2, SeqMonotonic DEF Lines
  <2> QED
    BY <1>1, <1>4, <2>1, Concatenation
<1> HIDE DEF r
<1>7. /\ Len(d) = Len(ch) + Len(q) /\ Len(r) = Len(ch) + (Len(q) - 1)
      /\ Len(ch) \in Nat
      /\ \A i \in 1 .. Len(ch) : d[i] = ch[i] /\ r[i] = ch[i]
      /\ \A i \in 1 .. Len(q) : d[Len(ch) + i] = q[i]
      /\ \A i \in 1 .. Len(q) - 1 : r[Len(ch) + i] = Tail(q)[i]
  BY <1>4, <1>6 DEF Joined
<1> DEFINE k == Len(ch) + 1
<1>8. k \in 1 .. Len(d) /\ Len(r) = Len(d) - 1
  BY <1>4, <1>7
<1>9. ASSUME NEW i \in 1 .. Len(r) PROVE r[i] = d[IF i < k THEN i ELSE i + 1]
  <2>1. i \in Nat /\ i >= 1 /\ i <= Len(r)
    BY <1>4, <1>7
  <2>2. CASE i <= Len(ch)
    BY <1>7, <2>1, <2>2
  <2>3. CASE i > Len(ch)
    <3> DEFINE j == i - Len(ch)
    <3>1. /\ j \in 1 .. Len(q) - 1 /\ i = Len(ch) + j /\ j + 1 \in 1 .. Len(q)
          /\ i + 1 = Len(ch) + (j + 1) /\ ~ (i < k)
      BY <1>4, <1>7, <2>1, <2>3
    <3> HIDE DEF j, k
    <3>2. r[i] = q[j + 1]
      BY <1>4, <1>7, <3>1
    <3>3. d[i + 1] = q[j + 1]
      BY <1>7, <3>1
    <3> QED
      BY <3>1, <3>2, <3>3
  <2> QED
    BY <1>7, <2>1, <2>2, <2>3
<1>10. Fewer(r, d)
  BY <1>8, <1>9 DEF Fewer
<1> QED
  BY <1>5, <1>10 DEF rest

-----------------------------------------------------------------------------
(* What a direction carries, without the places.                           *)
Within(d, S) == \A i \in 1 .. Len(d) : d[i] \in S
Once(d, m) == \A i, j \in 1 .. Len(d) : d[i] = m /\ d[j] = m => i = j

(* r carries no more than d.                                               *)
Weaker(r, d) ==
  /\ \A S : Within(d, S) => Within(r, S)
  /\ \A m : Once(d, m) => Once(r, m)

(* Without one of its messages a direction carries no more than before.    *)
LEMMA FewerIsWeaker ==
  ASSUME NEW T, NEW d \in Seq(T), NEW r, Fewer(r, d)
  PROVE  Weaker(r, d)
<1>1. PICK k \in 1 .. Len(d) :
        /\ Len(r) = Len(d) - 1
        /\ \A i \in 1 .. Len(r) : r[i] = d[IF i < k THEN i ELSE i + 1]
  BY DEF Fewer
<1> DEFINE at(i) == IF i < k THEN i ELSE i + 1
<1>2. Len(d) \in Nat /\ k \in Nat
  <2>1. Len(d) \in Nat
    OBVIOUS
  <2> QED
    BY <2>1
<1>3. \A i \in 1 .. Len(r) : at(i) \in 1 .. Len(d) /\ r[i] = d[at(i)]
  <2>1. \A i \in 1 .. Len(r) : at(i) \in 1 .. Len(d)
    BY <1>1, <1>2
  <2> QED
    BY <1>1, <2>1
<1>4. \A i, j \in 1 .. Len(r) : at(i) = at(j) => i = j
  BY <1>1, <1>2
<1> HIDE DEF at
<1>5. \A S : Within(d, S) => Within(r, S)
  BY <1>3 DEF Within
<1>6. ASSUME NEW m, Once(d, m) PROVE Once(r, m)
  BY <1>3, <1>4, <1>6 DEF Once
<1> QED
  BY <1>5, <1>6 DEF Weaker

(* Without the first message there is one less.                            *)
LEMMA TailIsFewer ==
  ASSUME NEW T, NEW d \in Seq(T), d # <<>>
  PROVE  Fewer(Tail(d), d)
<1>1. Len(d) \in Nat \ {0}
  BY EmptySeq
<1>2. /\ Len(Tail(d)) = Len(d) - 1
      /\ \A i \in 1 .. Len(Tail(d)) : Tail(d)[i] = d[i + 1]
  BY HeadTailProperties
<1>3. 1 \in 1 .. Len(d)
  BY <1>1
<1>4. \A i \in 1 .. Len(Tail(d)) : ~ (i < 1)
  BY <1>1, <1>2
<1>5. \A i \in 1 .. Len(Tail(d)) : Tail(d)[i] = d[IF i < 1 THEN i ELSE i + 1]
  BY <1>2, <1>4
<1> QED
  BY <1>2, <1>3, <1>5 DEF Fewer

(* Once the only one of its kind has been handled, none is left.           *)
LEMMA TailClears ==
  ASSUME NEW T, NEW d \in Seq(T), d # <<>>,
         NEW S, Within(d, S \cup {Head(d)}), Once(d, Head(d))
  PROVE  Within(Tail(d), S)
<1>1. /\ Len(d) \in Nat \ {0} /\ Head(d) = d[1]
      /\ Len(Tail(d)) = Len(d) - 1
      /\ \A i \in 1 .. Len(Tail(d)) : Tail(d)[i] = d[i + 1]
  BY EmptySeq, HeadTailProperties
<1>2. ASSUME NEW i \in 1 .. Len(Tail(d)) PROVE Tail(d)[i] \in S
  <2>1. 1 \in 1 .. Len(d) /\ i + 1 \in 1 .. Len(d) /\ i + 1 # 1
    BY <1>1
  <2>2. d[i + 1] # Head(d)
    BY <1>1, <2>1 DEF Once
  <2>3. d[i + 1] \in S \cup {Head(d)}
    BY <2>1 DEF Within
  <2> QED
    BY <1>1, <2>2, <2>3
<1> QED
  BY <1>2 DEF Within

(* One more message adds no other, and is the only one of its kind if      *)
(* there was none.                                                         *)
LEMMA AppendCarries ==
  ASSUME NEW T, NEW d \in Seq(T), NEW m \in T, NEW S, Within(d, S)
  PROVE  /\ m \in S => Within(Append(d, m), S)
         /\ Within(Append(d, m), S \cup {m})
         /\ m \notin S => Once(Append(d, m), m)
         /\ \A n : n # m /\ Once(d, n) => Once(Append(d, m), n)
<1> DEFINE r == Append(d, m)
<1>1. /\ Len(d) \in Nat /\ Len(r) = Len(d) + 1
      /\ \A i \in 1 .. Len(d) : r[i] = d[i]
      /\ r[Len(d) + 1] = m
  BY AppendProperties, LenProperties
<1> HIDE DEF r
<1>2. \A i \in 1 .. Len(r) : i \in 1 .. Len(d) \/ i = Len(d) + 1
  BY <1>1
<1>3. \A i \in 1 .. Len(d) : r[i] \in S
  BY <1>1 DEF Within
<1>4. \A i \in 1 .. Len(r) : r[i] \in S \cup {m} /\ (r[i] \in S \/ i = Len(d) + 1)
  BY <1>1, <1>2, <1>3
<1>5. m \in S => Within(r, S)
  BY <1>4 DEF Within
<1>6. Within(r, S \cup {m})
  BY <1>4 DEF Within
<1>7. m \notin S => Once(r, m)
  BY <1>4 DEF Once
<1>8. ASSUME NEW n, n # m, Once(d, n) PROVE Once(r, n)
  BY <1>1, <1>2, <1>8 DEF Once
<1> QED
  BY <1>5, <1>6, <1>7, <1>8 DEF r

-----------------------------------------------------------------------------
(* The geometry of the file, which does not change.                        *)
Total == total_chunks(Size, ChunkSize)
Meta == [file_size |-> Size, chunk_size |-> ChunkSize, total_chunks |-> Total]

(* The bitmaps a client can hold: as long as the file has chunks or as the *)
(* words they fill, and no padding is set.                                 *)
Fits(bm) ==
  /\ bm \in Bitmap /\ bm.len \in {Total, Words(Total) * WordBits}
  /\ bm.ones \subseteq 0 .. Total - 1

StaticOK ==
  /\ file \in [geometry : Geometries, state : {"readable", "missing", "unreadable"}]
  /\ session \in 0 .. MaxSessions
  /\ bitmap \in Bitmap
  /\ json = None \/ \E bm \in Bitmap : Fits(bm) /\ json = Packed(bm)

(* The stages of a session: u is on its way to gmf-remote, d to the client.*)
Noise == {Heartbeat, NotJson}
Unset == METADATA = None /\ CHUNK_BITMAP = None
Remains == StartSuccess(remaining_size(Size, ChunkSize, completed_count(CHUNK_BITMAP)))

Off(u, d) ==
  client = "off" /\ remote = "off" /\ Unset /\ u = <<>> /\ d = <<>>

Greeting(u, d) ==
  /\ client \in {"connected", "ready"} /\ remote = "up" /\ Unset
  /\ u = <<>> /\ Within(d, Noise)

Asking(u, d) ==
  /\ client = "setup" /\ remote = "up" /\ Unset
  /\ u = <<Setup(ChunkSize)>> /\ Within(d, Noise)

Refused(u, d) ==
  /\ client = "setup" /\ remote = "up" /\ Unset
  /\ u = <<>> /\ Within(d, Noise \cup {Error})

Hashless(u, d) ==
  /\ client = "setup" /\ remote = "panicked" /\ Unset /\ file.state = "unreadable"
  /\ u = <<>> /\ Within(d, Noise)

Answered(u, d) ==
  /\ client = "setup" /\ remote = "up" /\ METADATA = Meta /\ CHUNK_BITMAP = None
  /\ u = <<>>
  /\ Within(d, Noise \cup {SetupSuccess(Meta)}) /\ Once(d, SetupSuccess(Meta))

Opened(u, d) ==
  /\ client = "opened" /\ remote = "up" /\ METADATA = Meta /\ CHUNK_BITMAP = None
  /\ Fits(bitmap) /\ u = <<>> /\ Within(d, Noise)

Starting(u, d) ==
  /\ client = "start" /\ remote = "up" /\ METADATA = Meta /\ CHUNK_BITMAP = None
  /\ Fits(bitmap) /\ u = <<Start(bitmap)>> /\ Within(d, Noise)

Misaligned(u, d) ==
  /\ client = "start" /\ remote = "panicked" /\ METADATA = Meta /\ CHUNK_BITMAP = None
  /\ Fits(bitmap) /\ Size = 0 /\ u = <<>> /\ Within(d, Noise)

Listed(u, d) ==
  /\ client = "start" /\ remote = "up" /\ METADATA = Meta
  /\ Fits(bitmap) /\ CHUNK_BITMAP = [len |-> Total, ones |-> bitmap.ones]
  /\ u = <<>> /\ Within(d, Noise \cup {Remains}) /\ Once(d, Remains)

Transferring(u, d) ==
  /\ client = "transfer" /\ remote = "up" /\ METADATA = Meta
  /\ Fits(bitmap)
  /\ CHUNK_BITMAP \in Bitmap /\ CHUNK_BITMAP.len = Total
  /\ CHUNK_BITMAP.ones \subseteq bitmap.ones
  /\ StartSuccess(remaining) = Remains
  /\ u = <<>> /\ Within(d, Noise)

Stopped(u, d) ==
  /\ client = "stopped" /\ remote = "up" /\ Unset
  /\ u = <<>> /\ Within(d, Noise \cup {Error})

Unloaded(u, d) ==
  /\ client = "panicked" /\ remote = "up" /\ METADATA = Meta /\ CHUNK_BITMAP = None
  /\ Size = 0 /\ u = <<>> /\ Within(d, Noise)

Stage(u, d) ==
  \/ Off(u, d) \/ Greeting(u, d) \/ Asking(u, d) \/ Refused(u, d) \/ Hashless(u, d)
  \/ Answered(u, d) \/ Opened(u, d) \/ Starting(u, d) \/ Misaligned(u, d)
  \/ Listed(u, d) \/ Transferring(u, d) \/ Stopped(u, d) \/ Unloaded(u, d)

UpCarries(u) == Carries(Request, up_buffer, up_stream, requests, u)
DownCarries(d) == Carries(Response, down_buffer, down_stream, responses, d)

Protocol == \E u, d : UpCarries(u) /\ DownCarries(d) /\ Stage(u, d)

IInv == StaticOK /\ Protocol

-----------------------------------------------------------------------------
(* The steps of Framing, on what a direction carries.                      *)
LEMMA UpWrites ==
  ASSUME NEW u, UpCarries(u), NEW m \in Lines(Request), Up!WriteLine(m)
  PROVE  UpCarries(Append(u, m))'
<1>1. up_stream' = up_stream \o OneLine(m) /\ up_buffer' = up_buffer /\ requests' = requests
  BY DEF Up!WriteLine, Up!Line, OneLine
<1>2. Carries(Request, up_buffer, up_stream \o OneLine(m), requests, Append(u, m))
  BY CarriesWrite DEF UpCarries
<1> QED
  BY <1>1, <1>2 DEF UpCarries

(* A response is written.                                                  *)
LEMMA DownWrites ==
  ASSUME NEW d, DownCarries(d), NEW m \in Lines(Response), Down!WriteLine(m)
  PROVE  DownCarries(Append(d, m))'
<1>1. /\ down_stream' = down_stream \o OneLine(m)
      /\ down_buffer' = down_buffer /\ responses' = responses
  BY DEF Down!WriteLine, Down!Line, OneLine
<1>2. Carries(Response, down_buffer, down_stream \o OneLine(m), responses, Append(d, m))
  BY CarriesWrite DEF DownCarries
<1> QED
  BY <1>1, <1>2 DEF DownCarries

(* A request is handled.                                                   *)
LEMMA UpHandles ==
  ASSUME NEW u, UpCarries(u), NEW m, Up!Handle(m)
  PROVE  u # <<>> /\ Head(u) = m /\ m \in Request /\ UpCarries(Tail(u))'
<1>1. /\ requests # <<>> /\ Head(requests) = m /\ requests' = Tail(requests)
      /\ up_stream' = up_stream /\ up_buffer' = up_buffer
  BY DEF Up!Handle
<1>2. /\ u # <<>> /\ Head(u) = Head(requests) /\ Head(requests) \in Request
      /\ Carries(Request, up_buffer, up_stream, Tail(requests), Tail(u))
  BY <1>1, CarriesHandle DEF UpCarries
<1> QED
  BY <1>1, <1>2 DEF UpCarries

(* A response is handled.                                                  *)
LEMMA DownHandles ==
  ASSUME NEW d, DownCarries(d), NEW m, Down!Handle(m)
  PROVE  d # <<>> /\ Head(d) = m /\ m \in Response /\ DownCarries(Tail(d))'
<1>1. /\ responses # <<>> /\ Head(responses) = m /\ responses' = Tail(responses)
      /\ down_stream' = down_stream /\ down_buffer' = down_buffer
  BY DEF Down!Handle
<1>2. /\ d # <<>> /\ Head(d) = Head(responses) /\ Head(responses) \in Response
      /\ Carries(Response, down_buffer, down_stream, Tail(responses), Tail(d))
  BY <1>1, CarriesHandle DEF DownCarries
<1> QED
  BY <1>1, <1>2 DEF DownCarries

(* A packet, or a line that is put into the channel, loses nothing.        *)
LEMMA UpMoves ==
  ASSUME NEW u, UpCarries(u), Up!Packet \/ Up!Forward
  PROVE  UpCarries(u)'
<1>1. CASE Up!Packet
  <2>1. PICK n \in 1 .. Len(up_stream) :
          /\ up_buffer' = up_buffer \o SubSeq(up_stream, 1, n)
          /\ up_stream' = SubSeq(up_stream, n + 1, Len(up_stream))
    BY <1>1 DEF Up!Packet
  <2>2. requests' = requests
    BY <1>1 DEF Up!Packet
  <2>3. Carries(Request, up_buffer \o SubSeq(up_stream, 1, n),
                SubSeq(up_stream, n + 1, Len(up_stream)), requests, u)
    BY CarriesPacket DEF UpCarries
  <2> QED
    BY <2>1, <2>2, <2>3 DEF UpCarries
<1>2. CASE Up!Forward
  <2>1. /\ FirstEnd(up_buffer, Up!Newlines, Up!FirstNewline)
        /\ Head(up_buffer).of \in Request
        /\ requests' = Append(requests, Head(up_buffer).of)
        /\ up_buffer' = SubSeq(up_buffer, Up!FirstNewline + 1, Len(up_buffer))
        /\ up_stream' = up_stream
    BY <1>2 DEF Up!Forward, Up!DrainLine, Up!FirstSaid, FirstEnd, Up!Newlines,
                Up!IsNewline, Up!FirstNewline
  <2>2. Carries(Request, SubSeq(up_buffer, Up!FirstNewline + 1, Len(up_buffer)), up_stream,
                Append(requests, Head(up_buffer).of), u)
    BY <2>1, CarriesForward DEF UpCarries
  <2> QED
    BY <2>1, <2>2 DEF UpCarries
<1> QED
  BY <1>1, <1>2

(* What the client ignores is gone.                                        *)
LEMMA DownMoves ==
  ASSUME NEW d, DownCarries(d), Down!Packet \/ Down!Forward \/ Down!Ignore
  PROVE  \E r : DownCarries(r)' /\ (r = d \/ Fewer(r, d))
<1>1. CASE Down!Packet
  <2>1. PICK n \in 1 .. Len(down_stream) :
          /\ down_buffer' = down_buffer \o SubSeq(down_stream, 1, n)
          /\ down_stream' = SubSeq(down_stream, n + 1, Len(down_stream))
    BY <1>1 DEF Down!Packet
  <2>2. responses' = responses
    BY <1>1 DEF Down!Packet
  <2>3. Carries(Response, down_buffer \o SubSeq(down_stream, 1, n),
                SubSeq(down_stream, n + 1, Len(down_stream)), responses, d)
    BY CarriesPacket DEF DownCarries
  <2> QED
    BY <2>1, <2>2, <2>3 DEF DownCarries
<1> DEFINE f == Down!FirstNewline
           rest == SubSeq(down_buffer, f + 1, Len(down_buffer))
<1>2. CASE Down!Forward
  <2>1. /\ FirstEnd(down_buffer, Down!Newlines, f)
        /\ Head(down_buffer).of \in Response
        /\ responses' = Append(responses, Head(down_buffer).of)
        /\ down_buffer' = rest /\ down_stream' = down_stream
    BY <1>2 DEF Down!Forward, Down!DrainLine, Down!FirstSaid, FirstEnd, Down!Newlines,
                Down!IsNewline, Down!FirstNewline
  <2>2. Carries(Response, rest, down_stream, Append(responses, Head(down_buffer).of), d)
    BY <2>1, CarriesForward DEF DownCarries
  <2> QED
    BY <2>1, <2>2 DEF DownCarries
<1>3. CASE Down!Ignore
  <2>1. /\ FirstEnd(down_buffer, Down!Newlines, f)
        /\ responses' = responses /\ down_buffer' = rest /\ down_stream' = down_stream
    BY <1>3 DEF Down!Ignore, Down!DrainLine, FirstEnd, Down!Newlines, Down!IsNewline,
                Down!FirstNewline
  <2>2. \E r : Carries(Response, rest, down_stream, responses, r) /\ Fewer(r, d)
    BY <2>1, CarriesIgnore DEF DownCarries
  <2> QED
    BY <2>1, <2>2 DEF DownCarries
<1> QED
  BY <1>1, <1>2, <1>3

(* A direction that is left alone, and one that is reset.                  *)
LEMMA Unmoved ==
  /\ \A u : UpCarries(u) /\ UNCHANGED up => UpCarries(u)'
  /\ \A d : DownCarries(d) /\ UNCHANGED down => DownCarries(d)'
  /\ Up!Reset => UpCarries(<<>>)'
  /\ Down!Reset => DownCarries(<<>>)'
<1>1. \A u : UpCarries(u) /\ UNCHANGED up => UpCarries(u)'
  BY DEF UpCarries, up
<1>2. \A d : DownCarries(d) /\ UNCHANGED down => DownCarries(d)'
  BY DEF DownCarries, down
<1>3. Up!Reset => UpCarries(<<>>)'
  BY NothingCarried DEF UpCarries, Up!Reset
<1>4. Down!Reset => DownCarries(<<>>)'
  BY NothingCarried DEF DownCarries, Down!Reset
<1> QED
  BY <1>1, <1>2, <1>3, <1>4

-----------------------------------------------------------------------------
(* The chunks that setup counts are the chunks that the file has.          *)
LEMMA Geometry ==
  ASSUME StaticOK
  PROVE  /\ file.geometry \in Geometries
         /\ Size \in Nat /\ Size \in 0 .. 2^Precision - 1 /\ ChunkSize \in Nat \ {0}
         /\ Total = CeilDiv(Size, ChunkSize) /\ Total \in Nat /\ Total <= Size
         /\ Total = 0 <=> Size = 0
         /\ Meta \in [file_size : Nat, chunk_size : Nat, total_chunks : Nat]
<1>1. file.geometry \in Geometries
  BY DEF StaticOK
<1>2. Size \in 0 .. 2^Precision - 1 /\ ChunkSize \in Nat \ {0}
  BY <1>1, GeometriesAssumption DEF Size, ChunkSize
<1>3. Size \in Nat
  BY <1>2, PowerIsPositive, PrecisionAssumption
<1>4. Total = CeilDiv(Size, ChunkSize)
  BY <1>2, QuotientIsExact DEF Total, total_chunks
<1>5. Total \in Nat /\ Total <= Size /\ (Total = 0 <=> Size = 0)
  BY <1>2, <1>3, <1>4, CeilingBounds
<1> QED
  BY <1>1, <1>2, <1>3, <1>4, <1>5 DEF Meta

(* Packing a bitmap that was packed before adds no word.                   *)
LEMMA WordsStay ==
  ASSUME NEW n \in Nat
  PROVE  /\ Words(n) \in Nat /\ Words(n) * WordBits \in Nat
         /\ Words(Words(n) * WordBits) = Words(n)
<1> DEFINE w == Words(n)
<1>1. w \in Nat
  BY CeilingBounds, WordBitsAssumption DEF Words
<1> HIDE DEF w
<1>2. w * WordBits \in Nat /\ w \in Int
  BY <1>1, WordBitsAssumption
<1>3. WordBits * (w - 1) < w * WordBits /\ w * WordBits <= WordBits * w
  BY <1>1, WordBitsAssumption
<1>4. CeilDiv(w * WordBits, WordBits) = w
  BY <1>2, <1>3, CeilingIsUnique, WordBitsAssumption
<1>5. Words(w * WordBits) = w
  BY <1>4 DEF Words
<1> QED
  BY <1>1, <1>2, <1>5 DEF w

(* A bitmap of the client fits also after it was saved and read back, and  *)
(* gmf-remote makes of it one without padding.                             *)
LEMMA FitsForGood ==
  ASSUME StaticOK, NEW bm, Fits(bm)
  PROVE  /\ Fits(Unpacked(Packed(bm)))
         /\ METADATA = Meta => Fitted(Unpacked(Packed(bm))) = [len |-> Total, ones |-> bm.ones]
         /\ Packed(bm).k = 0 => Size = 0
         /\ [len |-> Total, ones |-> bm.ones] \in Bitmap
<1>1. /\ bm \in Bitmap /\ bm.len \in Nat /\ bm.len \in {Total, Words(Total) * WordBits}
      /\ bm.ones \subseteq 0 .. Total - 1 /\ Total \in Nat
  BY Geometry DEF Fits, Bitmap
<1> DEFINE back == Unpacked(Packed(bm))
           w == Words(Total) * WordBits
<1>2. back = [len |-> Words(bm.len) * WordBits, ones |-> bm.ones]
  BY <1>1, BitmapComesBack DEF Unpacked, Packed
<1>3. Words(bm.len) = Words(Total)
  BY <1>1, WordsStay
<1> HIDE DEF back
<1>4. back.len = w /\ back.ones = bm.ones
  BY <1>2, <1>3
<1>5. w \in Nat /\ Total <= w
  <2> DEFINE plain == [len |-> Total, ones |-> {}]
  <2>1. plain \in Bitmap /\ plain.len = Total
    BY <1>1 DEF Bitmap
  <2> HIDE DEF plain
  <2>2. plain.len <= Words(plain.len) * WordBits
    BY <2>1, BitmapComesBack
  <2> QED
    BY <1>1, <2>1, <2>2, WordsStay
<1>6. bm.ones \subseteq Nat /\ bm.ones \subseteq 0 .. w - 1
  BY <1>1, <1>5
<1>7. Fits(back)
  <2>1. back \in Bitmap
    BY <1>2, <1>3, <1>5, <1>6 DEF Bitmap
  <2> QED
    BY <1>1, <1>4, <2>1 DEF Fits
<1>8. bm.ones \cap 0 .. Total - 1 = bm.ones
  BY <1>1
<1>9. ASSUME METADATA = Meta PROVE Fitted(back) = [len |-> Total, ones |-> bm.ones]
  <2>1. METADATA.total_chunks = Total
    BY <1>9 DEF Meta
  <2>2. CASE w > Total
    BY <1>4, <1>8, <2>1, <2>2 DEF Fitted, truncate
  <2>3. CASE ~ (w > Total)
    <3>1. w = Total
      BY <1>1, <1>5, <2>3
    <3>2. back = [len |-> Total, ones |-> bm.ones]
      BY <1>2, <1>3, <3>1
    <3> QED
      BY <1>4, <2>1, <2>3, <3>2 DEF Fitted
  <2> QED
    BY <2>2, <2>3
<1>10. ASSUME Packed(bm).k = 0 PROVE Size = 0
  <2>1. Words(bm.len) = 0
    BY <1>10 DEF Packed
  <2>2. w = 0
    BY <1>3, <2>1, WordBitsAssumption
  <2>3. Total = 0
    BY <1>1, <1>5, <2>2
  <2> QED
    BY <2>3, Geometry
<1>11. [len |-> Total, ones |-> bm.ones] \in Bitmap
  BY <1>1, <1>6 DEF Bitmap
<1> QED
  BY <1>7, <1>9, <1>10, <1>11 DEF back

(* What is sent is a message, and no two kinds are mistaken.               *)
LEMMA RequestsOfAFile ==
  ASSUME StaticOK
  PROVE  /\ Setup(ChunkSize) \in Request
         /\ \A bm : Fits(bm) => Start(bm) \in Request
<1>1. Setup(ChunkSize) \in Request
  BY Geometry DEF Request, ChunkSize
<1>2. ASSUME NEW bm, Fits(bm) PROVE Start(bm) \in Request
  <2>1. Total \in Counts
    BY Geometry DEF Counts, Total, Size, ChunkSize
  <2>2. bm \in Bitmaps(Total) \cup Bitmaps(Words(Total) * WordBits)
    BY <1>2 DEF Fits, Bitmap, Bitmaps
  <2>3. Start(bm) \in {Start(x) : x \in Bitmaps(Total) \cup Bitmaps(Words(Total) * WordBits)}
    BY <2>2
  <2> QED
    BY <2>1, <2>3 DEF Request
<1> QED
  BY <1>1, <1>2

(* What gmf-remote answers is a message, also the size that remains.       *)
LEMMA ResponsesOfAFile ==
  ASSUME StaticOK
  PROVE  /\ Heartbeat \in Response /\ Error \in Response /\ SetupSuccess(Meta) \in Response
         /\ CHUNK_BITMAP \in Bitmap => Remains \in Response
         /\ NotJson \in Lines(Response) /\ NotJson \notin Response /\ NotJson \notin Request
<1>1. SetupSuccess(Meta) \in Response
  <2>1. file.geometry \in Geometries
    BY Geometry
  <2>2. Meta = [file_size |-> file.geometry.size, chunk_size |-> file.geometry.chunk_size,
                total_chunks |-> total_chunks(file.geometry.size, file.geometry.chunk_size)]
    BY DEF Meta, Total, Size, ChunkSize
  <2>3. SetupSuccess(Meta) =
          SetupSuccess([file_size |-> file.geometry.size,
                        total_chunks |-> total_chunks(file.geometry.size,
                                                      file.geometry.chunk_size)])
    BY <2>2 DEF SetupSuccess
  <2>4. SetupSuccess(Meta) \in
          {SetupSuccess([file_size |-> g.size,
                         total_chunks |-> total_chunks(g.size, g.chunk_size)]) :
             g \in Geometries}
    BY <2>1, <2>3
  <2> QED
    BY <2>4 DEF Response
<1>2. ASSUME CHUNK_BITMAP \in Bitmap PROVE Remains \in Response
  <2> DEFINE k == completed_count(CHUNK_BITMAP)
             r == remaining_size(Size, ChunkSize, k)
  <2>1. k \in Nat
    <3>1. /\ CHUNK_BITMAP.len \in Nat /\ CHUNK_BITMAP.ones \subseteq 0 .. CHUNK_BITMAP.len - 1
      BY <1>2 DEF Bitmap
    <3>2. CHUNK_BITMAP.len - 1 \in Int /\ 0 \in Int
      BY <3>1
    <3>3. IsFiniteSet(0 .. CHUNK_BITMAP.len - 1)
      BY <3>2, FS_Interval
    <3>4. IsFiniteSet(CHUNK_BITMAP.ones)
      BY <3>1, <3>3, FS_Subset
    <3> QED
      BY <3>4, FS_CardinalityType DEF completed_count
  <2> HIDE DEF k
  <2>2. k * ChunkSize \in Nat /\ Size \in 0 .. 2^Precision - 1 /\ 2^Precision \in Nat \ {0}
    BY <2>1, Geometry, PowerIsPositive, PrecisionAssumption
  <2>3. r \in 0 .. 2^Precision - 1
    BY <2>2 DEF remaining_size
  <2> QED
    BY <2>3 DEF Remains, Response, k
<1>3. NotJson \in Lines(Response) /\ NotJson \notin Response /\ NotJson \notin Request
  BY NotJsonAssumption DEF Lines
<1> QED
  BY <1>1, <1>2, <1>3 DEF Response

(* The client tells the answers apart by their type.                       *)
LEMMA Kinds ==
  ASSUME StaticOK
  PROVE  /\ Error \notin Noise /\ SetupSuccess(Meta) \notin Noise
         /\ CHUNK_BITMAP \in Bitmap => Remains \notin Noise
         /\ \A m \in Noise \cup {Error} :
              m \in Response => m.type # "SetupSuccess" /\ m.type # "StartSuccess"
         /\ SetupSuccess(Meta) # Error /\ Remains # Error
         /\ SetupSuccess(Meta).type = "SetupSuccess" /\ Remains.type = "StartSuccess"
<1>1. /\ Error # NotJson /\ SetupSuccess(Meta) # NotJson
      /\ CHUNK_BITMAP \in Bitmap => Remains # NotJson
  BY ResponsesOfAFile
<1>2. /\ Error.type = "Error" /\ Heartbeat.type = "Heartbeat"
      /\ SetupSuccess(Meta).type = "SetupSuccess" /\ Remains.type = "StartSuccess"
  BY DEF Error, Heartbeat, SetupSuccess, Remains, StartSuccess
<1>3. /\ Error # Heartbeat /\ SetupSuccess(Meta) # Heartbeat /\ Remains # Heartbeat
      /\ SetupSuccess(Meta) # Error /\ Remains # Error
  BY <1>2
<1>4. \A m \in Noise \cup {Error} :
        m \in Response => m.type # "SetupSuccess" /\ m.type # "StartSuccess"
  BY <1>2, ResponsesOfAFile DEF Noise
<1> QED
  BY <1>1, <1>2, <1>3, <1>4 DEF Noise

(* The same of the answer to Start alone, for use in the next state.       *)
LEMMA RemainsIsAnAnswer ==
  StaticOK /\ CHUNK_BITMAP \in Bitmap => Remains \in Response /\ Remains \notin Noise
  BY ResponsesOfAFile, Kinds

(* The first message is one of those a direction carries.                  *)
LEMMA HeadIsWithin ==
  ASSUME NEW T, NEW d \in Seq(T), d # <<>>, NEW S, Within(d, S)
  PROVE  Head(d) \in S
<1>1. Head(d) = d[1] /\ Len(d) \in Nat \ {0}
  BY EmptySeq, HeadTailProperties
<1> QED
  BY <1>1 DEF Within

-----------------------------------------------------------------------------
(* Noise comes and goes in every stage.                                    *)
Keeps(r, d) ==
  /\ \A S : Noise \subseteq S /\ Within(d, S) => Within(r, S)
  /\ \A m : m \notin Noise /\ Once(d, m) => Once(r, m)

(* Losing a message leaves the stage as it is.                             *)
LEMMA FewerKeeps ==
  ASSUME NEW T, NEW d \in Seq(T), NEW r, r = d \/ Fewer(r, d)
  PROVE  Keeps(r, d)
<1>1. CASE r = d
  BY <1>1 DEF Keeps
<1>2. CASE Fewer(r, d)
  BY <1>2, FewerIsWeaker DEF Keeps, Weaker
<1> QED
  BY <1>1, <1>2

(* And so does a heartbeat more.                                           *)
LEMMA NoiseKeeps ==
  ASSUME NEW T, NEW d \in Seq(T), NEW m \in T, m \in Noise
  PROVE  Keeps(Append(d, m), d)
<1>1. ASSUME NEW S, Noise \subseteq S, Within(d, S) PROVE Within(Append(d, m), S)
  <2>1. m \in S
    BY <1>1
  <2> QED
    BY <1>1, <2>1, AppendCarries
<1>2. ASSUME NEW n, n \notin Noise, Once(d, n) PROVE Once(Append(d, m), n)
  <2>1. n # m
    BY <1>2
  <2>2. Within(d, T)
    <3>1. \A i \in 1 .. Len(d) : d[i] \in T
      BY ElementOfSeq
    <3> QED
      BY <3>1 DEF Within
  <2> QED
    BY <1>2, <2>1, <2>2, AppendCarries
<1> QED
  BY <1>1, <1>2 DEF Keeps

(* While the file stays, so does its geometry.                             *)
LEMMA SameFile ==
  ASSUME UNCHANGED file
  PROVE  /\ Size' = Size /\ ChunkSize' = ChunkSize /\ Total' = Total /\ Meta' = Meta
         /\ \A bm : Fits(bm)' = Fits(bm)
<1>1. Size' = Size /\ ChunkSize' = ChunkSize
  BY DEF Size, ChunkSize
<1>2. Total' = Total
  BY <1>1 DEF Total
<1>3. Meta' = Meta
  BY <1>1, <1>2 DEF Meta
<1>4. \A bm : Fits(bm)' = Fits(bm)
  BY <1>2 DEF Fits
<1> QED
  BY <1>1, <1>2, <1>3, <1>4

(* What is not of a stage, when a step leaves it alone.                    *)
LEMMA StaticStays ==
  ASSUME StaticOK, UNCHANGED <<file, session, bitmap, json>>
  PROVE  StaticOK'
<1>1. file' = file /\ session' = session /\ bitmap' = bitmap /\ json' = json
  OBVIOUS
<1>2. \A bm : Fits(bm)' = Fits(bm)
  BY <1>1, SameFile
<1> QED
  BY <1>1, <1>2 DEF StaticOK

(* A stage outlasts every step that only adds noise to the way to the      *)
(* client or takes a message from it.                                      *)
LEMMA StageStays ==
  ASSUME StaticOK, NEW u, NEW d, NEW r, Stage(u, d), Keeps(r, d), client # "off",
         UNCHANGED <<file, bitmap, remaining, remote, METADATA, CHUNK_BITMAP>>,
         client' = client \/ (client = "connected" /\ client' = "ready")
  PROVE  Stage(u, r)'
<1>1. /\ Size' = Size /\ ChunkSize' = ChunkSize /\ Total' = Total /\ Meta' = Meta
      /\ \A bm : Fits(bm)' = Fits(bm)
  BY SameFile
<1>2. /\ bitmap' = bitmap /\ remaining' = remaining /\ remote' = remote /\ file' = file
      /\ METADATA' = METADATA /\ CHUNK_BITMAP' = CHUNK_BITMAP
  OBVIOUS
<1>3. Fits(bitmap)' <=> Fits(bitmap)
  BY <1>1, <1>2 DEF Fits
<1>4. Remains' = Remains /\ Unset' = Unset
  BY <1>1, <1>2 DEF Remains, Unset
<1>5. \A S : Noise \subseteq S /\ Within(d, S) => Within(r, S)
  BY DEF Keeps
<1>6. \A m : m \notin Noise /\ Once(d, m) => Once(r, m)
  BY DEF Keeps
<1>7. /\ Within(d, Noise) => Within(r, Noise)
      /\ Within(d, Noise \cup {Error}) => Within(r, Noise \cup {Error})
      /\ Within(d, Noise \cup {SetupSuccess(Meta)}) =>
           Within(r, Noise \cup {SetupSuccess(Meta)})
      /\ Within(d, Noise \cup {Remains}) => Within(r, Noise \cup {Remains})
  BY <1>5
<1>8. CASE Off(u, d)
  BY <1>8 DEF Off
<1>9. CASE Greeting(u, d)
  <2>1. Greeting(u, r)'
    BY <1>2, <1>4, <1>7, <1>9 DEF Greeting
  <2> QED
    BY <2>1 DEF Stage
<1>10. CASE Asking(u, d)
  <2>1. Asking(u, r)'
    BY <1>1, <1>2, <1>4, <1>7, <1>10 DEF Asking
  <2> QED
    BY <2>1 DEF Stage
<1>11. CASE Refused(u, d)
  <2>1. Refused(u, r)'
    BY <1>2, <1>4, <1>7, <1>11 DEF Refused
  <2> QED
    BY <2>1 DEF Stage
<1>12. CASE Hashless(u, d)
  <2>1. Hashless(u, r)'
    BY <1>2, <1>4, <1>7, <1>12 DEF Hashless
  <2> QED
    BY <2>1 DEF Stage
<1>13. CASE Answered(u, d)
  <2>1. Once(r, SetupSuccess(Meta))
    BY <1>6, <1>13, Kinds DEF Answered
  <2>2. Answered(u, r)'
    BY <1>1, <1>2, <1>7, <1>13, <2>1 DEF Answered
  <2> QED
    BY <2>2 DEF Stage
<1>14. CASE Opened(u, d)
  <2>1. Opened(u, r)'
    BY <1>1, <1>2, <1>3, <1>7, <1>14 DEF Opened
  <2> QED
    BY <2>1 DEF Stage
<1>15. CASE Starting(u, d)
  <2>1. Starting(u, r)'
    BY <1>1, <1>2, <1>3, <1>7, <1>15 DEF Starting
  <2> QED
    BY <2>1 DEF Stage
<1>16. CASE Misaligned(u, d)
  <2>1. Misaligned(u, r)'
    BY <1>1, <1>2, <1>3, <1>7, <1>16 DEF Misaligned
  <2> QED
    BY <2>1 DEF Stage
<1>17. CASE Listed(u, d)
  <2>1. CHUNK_BITMAP \in Bitmap
    BY <1>17, FitsForGood DEF Listed
  <2>2. Once(r, Remains)
    BY <1>6, <1>17, <2>1, Kinds DEF Listed
  <2>3. Listed(u, r)'
    BY <1>1, <1>2, <1>3, <1>4, <1>7, <1>17, <2>2 DEF Listed
  <2> QED
    BY <2>3 DEF Stage
<1>18. CASE Transferring(u, d)
  <2>1. StartSuccess(remaining)' = StartSuccess(remaining)
    BY <1>2
  <2>2. Transferring(u, r)'
    BY <1>1, <1>2, <1>3, <1>4, <1>7, <1>18, <2>1 DEF Transferring
  <2> QED
    BY <2>2 DEF Stage
<1>19. CASE Stopped(u, d)
  <2>1. Stopped(u, r)'
    BY <1>2, <1>4, <1>7, <1>19 DEF Stopped
  <2> QED
    BY <2>1 DEF Stage
<1>20. CASE Unloaded(u, d)
  <2>1. Unloaded(u, r)'
    BY <1>1, <1>2, <1>7, <1>20 DEF Unloaded
  <2> QED
    BY <2>1 DEF Stage
<1> QED
  BY <1>8, <1>9, <1>10, <1>11, <1>12, <1>13, <1>14, <1>15, <1>16, <1>17, <1>18, <1>19, <1>20,
     Zenon DEF Stage

(* The client's state tells which stages a session can be in.              *)
LEMMA StageOf ==
  ASSUME NEW u, NEW d, Stage(u, d)
  PROVE  /\ client = "off" => Off(u, d)
         /\ client \in {"connected", "ready"} => Greeting(u, d)
         /\ client = "setup" =>
              Asking(u, d) \/ Refused(u, d) \/ Hashless(u, d) \/ Answered(u, d)
         /\ client = "opened" => Opened(u, d)
         /\ client = "start" => Starting(u, d) \/ Misaligned(u, d) \/ Listed(u, d)
         /\ client = "transfer" => Transferring(u, d)
         /\ u # <<>> => Asking(u, d) \/ Starting(u, d)
         /\ remote = "up" => client # "off"
  BY DEF Stage, Off, Greeting, Asking, Refused, Hashless, Answered, Opened, Starting,
         Misaligned, Listed, Transferring, Stopped, Unloaded

(* What the two directions carry in a state of the invariant.              *)
LEMMA Carried ==
  ASSUME IInv
  PROVE  /\ StaticOK
         /\ \E u, d : /\ UpCarries(u) /\ DownCarries(d) /\ Stage(u, d)
                      /\ d \in Seq(Lines(Response))
<1>1. PICK u, d : UpCarries(u) /\ DownCarries(d) /\ Stage(u, d)
  BY DEF IInv, Protocol
<1>2. d \in Seq(Lines(Response))
  BY <1>1, CarriedType DEF DownCarries
<1> QED
  BY <1>1, <1>2 DEF IInv

(* How a state of the invariant is shown to be one.                        *)
LEMMA Reached ==
  ASSUME StaticOK', NEW u, NEW d, UpCarries(u)', DownCarries(d)', Stage(u, d)'
  PROVE  IInv'
  BY DEF IInv, Protocol

(* Nothing, and one message.                                               *)
LEMMA Single ==
  ASSUME NEW m
  PROVE  /\ Append(<<>>, m) = <<m>> /\ <<m>> # <<>> /\ Head(<<m>>) = m /\ Tail(<<m>>) = <<>>
         /\ \A S : Within(<<>>, S)
         /\ \A S : m \in S => Within(<<m>>, S)
<1>1. \A S : Within(<<>>, S)
  BY DEF Within
<1>2. \A S : m \in S => Within(<<m>>, S)
  BY DEF Within
<1> QED
  BY <1>1, <1>2

(* Off becomes Greeting, with what a login script prints.                  *)
LEMMA ConnectStep == ASSUME IInv, Connect PROVE IInv'
<1>1. PICK u, d : UpCarries(u) /\ DownCarries(d) /\ Stage(u, d)
  BY Carried
<1>2. StaticOK /\ Off(u, d)
  BY <1>1, Carried, StageOf DEF Connect
<1>3. UpCarries(<<>>)'
  BY <1>1, <1>2, Unmoved DEF Off, Connect
<1>4. \E r : DownCarries(r)' /\ Within(r, Noise)
  <2>1. CASE Down!WriteLine(NotJson)
    <3>1. DownCarries(Append(d, NotJson))'
      BY <1>1, <1>2, <2>1, DownWrites, ResponsesOfAFile
    <3>2. Append(d, NotJson) = <<NotJson>>
      BY <1>2, Single DEF Off
    <3>3. Within(<<NotJson>>, Noise)
      BY Single DEF Noise
    <3> QED
      BY <3>1, <3>2, <3>3
  <2>2. CASE UNCHANGED down
    BY <1>1, <1>2, <2>2, Unmoved, Single DEF Off
  <2> QED
    BY <2>1, <2>2 DEF Connect
<1>5. PICK r : DownCarries(r)' /\ Within(r, Noise)
  BY <1>4
<1>6. /\ file' = file /\ json' = json /\ bitmap' = bitmap /\ METADATA' = METADATA
      /\ CHUNK_BITMAP' = CHUNK_BITMAP /\ client' = "connected" /\ remote' = "up"
  BY DEF Connect, cells
<1>7. session' \in 0 .. MaxSessions
  BY <1>2, MaxSessionsAssumption DEF Connect, StaticOK
<1>8. StaticOK'
  BY <1>2, <1>6, <1>7, SameFile DEF StaticOK
<1>9. Greeting(<<>>, r)'
  BY <1>2, <1>5, <1>6 DEF Greeting, Off, Unset
<1> QED
  BY <1>3, <1>5, <1>8, <1>9, Reached DEF Stage

(* A heartbeat is noise in every stage.                                    *)
LEMMA RecvHeartbeatStep == ASSUME IInv, RecvHeartbeat PROVE IInv'
<1>1. PICK u, d : UpCarries(u) /\ DownCarries(d) /\ Stage(u, d) /\ d \in Seq(Lines(Response))
  BY Carried
<1>2. StaticOK
  BY Carried
<1>3. d # <<>> /\ DownCarries(Tail(d))'
  BY <1>1, DownHandles DEF RecvHeartbeat
<1>4. Keeps(Tail(d), d)
  BY <1>1, <1>3, TailIsFewer, FewerKeeps
<1>5. UpCarries(u)'
  BY <1>1, Unmoved DEF RecvHeartbeat
<1>6. Stage(u, Tail(d))'
  BY <1>1, <1>2, <1>4, StageStays DEF RecvHeartbeat, Remote, Quiet, cells
<1>7. StaticOK'
  BY <1>2, StaticStays DEF RecvHeartbeat, Quiet
<1> QED
  BY <1>3, <1>5, <1>6, <1>7, Reached

(* Greeting becomes Asking.                                                *)
LEMMA SendSetupStep == ASSUME IInv, SendSetup PROVE IInv'
<1>1. PICK u, d : UpCarries(u) /\ DownCarries(d) /\ Stage(u, d)
  BY Carried
<1>2. StaticOK /\ Greeting(u, d)
  BY <1>1, Carried, StageOf DEF SendSetup
<1>0. PICK m : m = Setup(ChunkSize)
  OBVIOUS
<1>3. UpCarries(<<m>>)'
  <2>1. m \in Lines(Request) /\ Up!WriteLine(m)
    BY <1>0, <1>2, RequestsOfAFile DEF Lines, SendSetup, ChunkSize
  <2>2. UpCarries(Append(u, m))'
    BY <1>1, <2>1, UpWrites
  <2>3. Append(u, m) = <<m>>
    BY <1>2, Single DEF Greeting
  <2> QED
    BY <2>2, <2>3
<1>4. DownCarries(d)'
  BY <1>1, Unmoved DEF SendSetup
<1>5. /\ file' = file /\ METADATA' = METADATA /\ CHUNK_BITMAP' = CHUNK_BITMAP
      /\ client' = "setup" /\ remote' = remote
  BY DEF SendSetup, Remote, Quiet, cells
<1>6. StaticOK'
  BY <1>2, StaticStays DEF SendSetup, Quiet
<1>7. Asking(<<m>>, d)'
  BY <1>0, <1>2, <1>5, SameFile DEF Asking, Greeting, Unset
<1> QED
  BY <1>3, <1>4, <1>6, <1>7, Reached DEF Stage

(* Refused becomes Stopped: no other stage carries an Error.               *)
LEMMA RecvErrorStep == ASSUME IInv, RecvError PROVE IInv'
<1>1. PICK u, d : UpCarries(u) /\ DownCarries(d) /\ Stage(u, d) /\ d \in Seq(Lines(Response))
  BY Carried
<1>2. StaticOK
  BY Carried
<1>3. d # <<>> /\ Head(d) = Error /\ DownCarries(Tail(d))'
  BY <1>1, DownHandles DEF RecvError
<1>4. \A S : Within(d, S) => Error \in S
  BY <1>1, <1>3, HeadIsWithin
<1>5. Refused(u, d)
  <2>1. /\ ~ Within(d, Noise) /\ ~ Within(d, Noise \cup {SetupSuccess(Meta)})
        /\ ~ Within(d, Noise \cup {Remains})
    BY <1>2, <1>4, Kinds
  <2>2. \/ Asking(u, d) \/ Refused(u, d) \/ Hashless(u, d) \/ Answered(u, d)
        \/ Starting(u, d) \/ Misaligned(u, d) \/ Listed(u, d)
    BY <1>1, StageOf DEF RecvError
  <2> QED
    BY <2>1, <2>2 DEF Asking, Hashless, Answered, Starting, Misaligned, Listed
<1>6. Within(Tail(d), Noise \cup {Error})
  <2>1. Keeps(Tail(d), d)
    BY <1>1, <1>3, TailIsFewer, FewerKeeps
  <2> QED
    BY <1>5, <2>1 DEF Keeps, Refused
<1>7. UpCarries(u)'
  BY <1>1, Unmoved DEF RecvError
<1>8. StaticOK'
  BY <1>2, StaticStays DEF RecvError, Quiet
<1>9. Stopped(u, Tail(d))'
  BY <1>5, <1>6 DEF Refused, Stopped, RecvError, Remote, cells, Unset, Noise, Error, Heartbeat
<1> QED
  BY <1>3, <1>7, <1>8, <1>9, Reached DEF Stage

(* In Setup the client is told of success only by gmf-remote's answer.     *)
LEMMA SuccessIsAnswered ==
  ASSUME StaticOK, NEW u, NEW d, Stage(u, d), client = "setup",
         NEW m \in Response, m.type = "SetupSuccess", \A S : Within(d, S) => m \in S
  PROVE  Answered(u, d) /\ m = SetupSuccess(Meta)
<1>1. Answered(u, d)
  <2>1. ~ Within(d, Noise) /\ ~ Within(d, Noise \cup {Error})
    BY Kinds
  <2>2. Asking(u, d) \/ Refused(u, d) \/ Hashless(u, d) \/ Answered(u, d)
    BY StageOf
  <2> QED
    BY <2>1, <2>2 DEF Asking, Refused, Hashless
<1>2. m \in Noise \cup {SetupSuccess(Meta)}
  BY <1>1 DEF Answered
<1> QED
  BY <1>1, <1>2, Kinds

(* Answered becomes Opened, with a bitmap that fits, new or from the json  *)
(* file.                                                                   *)
LEMMA RecvSetupSuccessStep == ASSUME IInv, RecvSetupSuccess PROVE IInv'
<1>1. PICK u, d : UpCarries(u) /\ DownCarries(d) /\ Stage(u, d) /\ d \in Seq(Lines(Response))
  BY Carried
<1>2. StaticOK
  BY Carried
<1>3. PICK m \in Response :
        /\ m.type = "SetupSuccess" /\ Down!Handle(m)
        /\ bitmap' = IF json = None THEN NewBitmap(m.total_chunks) ELSE Unpacked(json)
        /\ json' = IF json = None THEN Packed(bitmap') ELSE json
  BY DEF RecvSetupSuccess
<1>4. d # <<>> /\ Head(d) = m /\ DownCarries(Tail(d))'
  BY <1>1, <1>3, DownHandles
<1>5. \A S : Within(d, S) => m \in S
  BY <1>1, <1>4, HeadIsWithin
<1>6. Answered(u, d)
  BY <1>1, <1>2, <1>3, <1>5, SuccessIsAnswered DEF RecvSetupSuccess
<1>7. m = SetupSuccess(Meta)
  BY <1>1, <1>2, <1>3, <1>5, SuccessIsAnswered DEF RecvSetupSuccess
<1>8. Within(Tail(d), Noise)
  BY <1>1, <1>4, <1>6, <1>7, TailClears DEF Answered
<1>9. m.total_chunks = Total /\ Total \in Nat
  BY <1>2, <1>7, Geometry DEF SetupSuccess, Meta
<1>10. Fits(bitmap') /\ (json' = None \/ \E bm \in Bitmap : Fits(bm) /\ json' = Packed(bm))
  <2>1. CASE json = None
    <3>1. bitmap' = [len |-> Total, ones |-> {}] /\ json' = Packed(bitmap')
      BY <1>3, <1>9, <2>1 DEF NewBitmap
    <3>2. Fits(bitmap')
      BY <1>9, <3>1 DEF Fits, Bitmap
    <3> QED
      BY <3>1, <3>2 DEF Fits
  <2>2. CASE json # None
    <3>1. PICK bm \in Bitmap : Fits(bm) /\ json = Packed(bm)
      BY <1>2, <2>2 DEF StaticOK
    <3>2. bitmap' = Unpacked(Packed(bm)) /\ json' = json
      BY <1>3, <2>2, <3>1
    <3> QED
      BY <1>2, <3>1, <3>2, FitsForGood
  <2> QED
    BY <2>1, <2>2
<1>11. /\ file' = file /\ session' = session /\ METADATA' = METADATA
       /\ CHUNK_BITMAP' = CHUNK_BITMAP /\ client' = "opened" /\ remote' = remote
  BY DEF RecvSetupSuccess, Remote, Quiet, cells
<1>12. Meta' = Meta /\ Fits(bitmap)' /\ \A bm : Fits(bm)' = Fits(bm)
  <2>1. Fits(bitmap)' <=> Fits(bitmap')
    BY <1>11, SameFile DEF Fits
  <2> QED
    BY <1>10, <1>11, <2>1, SameFile
<1>13. StaticOK'
  <2>1. (bitmap \in Bitmap)'
    BY <1>10 DEF Fits
  <2> QED
    BY <1>2, <1>10, <1>11, <1>12, <2>1 DEF StaticOK
<1>14. UpCarries(u)'
  BY <1>1, Unmoved DEF RecvSetupSuccess
<1>15. Opened(u, Tail(d))'
  BY <1>6, <1>8, <1>11, <1>12 DEF Answered, Opened, Noise, Heartbeat
<1> QED
  BY <1>4, <1>13, <1>14, <1>15, Reached DEF Stage

(* Or Unloaded: what cannot be read back is the bitmap of an empty file.   *)
LEMMA LoadPanicsStep == ASSUME IInv, LoadPanics PROVE IInv'
<1>1. PICK u, d : UpCarries(u) /\ DownCarries(d) /\ Stage(u, d) /\ d \in Seq(Lines(Response))
  BY Carried
<1>2. StaticOK
  BY Carried
<1>3. PICK m \in Response : m.type = "SetupSuccess" /\ Down!Handle(m)
  BY DEF LoadPanics
<1>4. d # <<>> /\ Head(d) = m /\ DownCarries(Tail(d))'
  BY <1>1, <1>3, DownHandles
<1>5. \A S : Within(d, S) => m \in S
  BY <1>1, <1>4, HeadIsWithin
<1>6. Answered(u, d) /\ m = SetupSuccess(Meta)
  BY <1>1, <1>2, <1>3, <1>5, SuccessIsAnswered DEF LoadPanics
<1>7. Within(Tail(d), Noise)
  BY <1>1, <1>4, <1>6, TailClears DEF Answered
<1>8. Size = 0
  <2>1. PICK bm \in Bitmap : Fits(bm) /\ json = Packed(bm)
    BY <1>2 DEF StaticOK, LoadPanics
  <2> QED
    BY <1>2, <2>1, FitsForGood DEF LoadPanics
<1>9. /\ file' = file /\ METADATA' = METADATA /\ CHUNK_BITMAP' = CHUNK_BITMAP
      /\ client' = "panicked" /\ remote' = remote
  BY DEF LoadPanics, Remote, Quiet, cells
<1>10. StaticOK'
  BY <1>2, StaticStays DEF LoadPanics, Quiet
<1>11. UpCarries(u)'
  BY <1>1, Unmoved DEF LoadPanics
<1>12. Size' = Size /\ Meta' = Meta
  BY <1>9, SameFile
<1>13. Unloaded(u, Tail(d))'
  BY <1>6, <1>7, <1>8, <1>9, <1>12 DEF Answered, Unloaded, Noise, Heartbeat
<1> QED
  BY <1>4, <1>10, <1>11, <1>13, Reached DEF Stage

(* Opened becomes Starting.                                                *)
LEMMA SendStartStep == ASSUME IInv, SendStart PROVE IInv'
<1>1. PICK u, d : UpCarries(u) /\ DownCarries(d) /\ Stage(u, d)
  BY Carried
<1>2. StaticOK /\ Opened(u, d)
  BY <1>1, Carried, StageOf DEF SendStart
<1>0. PICK m : m = Start(bitmap)
  OBVIOUS
<1>3. UpCarries(<<m>>)'
  <2>1. m \in Lines(Request) /\ Up!WriteLine(m)
    BY <1>0, <1>2, RequestsOfAFile DEF Lines, SendStart, Opened
  <2>2. UpCarries(Append(u, m))'
    BY <1>1, <2>1, UpWrites
  <2>3. Append(u, m) = <<m>>
    BY <1>2, Single DEF Opened
  <2> QED
    BY <2>2, <2>3
<1>4. DownCarries(d)'
  BY <1>1, Unmoved DEF SendStart
<1>5. /\ file' = file /\ METADATA' = METADATA /\ CHUNK_BITMAP' = CHUNK_BITMAP
      /\ client' = "start" /\ remote' = remote /\ bitmap' = bitmap
  BY DEF SendStart, Remote, Quiet, cells
<1>6. StaticOK'
  BY <1>2, StaticStays DEF SendStart, Quiet
<1>7. Starting(<<m>>, d)'
  <2>1. Fits(bitmap)' <=> Fits(bitmap)
    BY <1>5, SameFile DEF Fits
  <2>2. Meta' = Meta
    BY <1>5, SameFile
  <2>3. m = Start(bitmap)'
    BY <1>0, <1>5
  <2> QED
    BY <1>2, <1>5, <2>1, <2>2, <2>3 DEF Opened, Starting, Noise, Heartbeat
<1> QED
  BY <1>3, <1>4, <1>6, <1>7, Reached DEF Stage

(* Listed becomes Transferring.                                            *)
LEMMA RecvStartSuccessStep == ASSUME IInv, RecvStartSuccess PROVE IInv'
<1>1. PICK u, d : UpCarries(u) /\ DownCarries(d) /\ Stage(u, d) /\ d \in Seq(Lines(Response))
  BY Carried
<1>2. StaticOK
  BY Carried
<1>3. PICK m \in Response :
        m.type = "StartSuccess" /\ Down!Handle(m) /\ remaining' = m.remaining_size
  BY DEF RecvStartSuccess
<1>4. d # <<>> /\ Head(d) = m /\ DownCarries(Tail(d))'
  BY <1>1, <1>3, DownHandles
<1>5. \A S : Within(d, S) => m \in S
  BY <1>1, <1>4, HeadIsWithin
<1>6. Listed(u, d)
  <2>1. ~ Within(d, Noise)
    BY <1>2, <1>3, <1>5, Kinds
  <2>2. Starting(u, d) \/ Misaligned(u, d) \/ Listed(u, d)
    BY <1>1, StageOf DEF RecvStartSuccess
  <2> QED
    BY <2>1, <2>2 DEF Starting, Misaligned
<1>7. m = Remains
  <2>1. m \in Noise \cup {Remains}
    BY <1>5, <1>6 DEF Listed
  <2> QED
    BY <1>2, <1>3, <2>1, Kinds
<1>8. Within(Tail(d), Noise)
  BY <1>1, <1>4, <1>6, <1>7, TailClears DEF Listed
<1>9. StartSuccess(remaining)' = m
  BY <1>3, <1>7 DEF Remains, StartSuccess
<1>10. /\ file' = file /\ METADATA' = METADATA /\ CHUNK_BITMAP' = CHUNK_BITMAP
       /\ client' = "transfer" /\ remote' = remote /\ bitmap' = bitmap
  BY DEF RecvStartSuccess, Remote, Quiet, cells
<1>11. StaticOK'
  BY <1>2, StaticStays DEF RecvStartSuccess, Quiet
<1>12. UpCarries(u)'
  BY <1>1, Unmoved DEF RecvStartSuccess
<1>13. Transferring(u, Tail(d))'
  <2>1. Fits(bitmap)' <=> Fits(bitmap)
    BY <1>10, SameFile DEF Fits
  <2>2. Meta' = Meta /\ Total' = Total
    BY <1>10, SameFile
  <2>3. Remains' = Remains
    BY <1>10, SameFile DEF Remains
  <2>4. CHUNK_BITMAP \in Bitmap /\ CHUNK_BITMAP.len = Total /\ CHUNK_BITMAP.ones = bitmap.ones
    BY <1>2, <1>6, FitsForGood DEF Listed
  <2> QED
    BY <1>6, <1>7, <1>8, <1>9, <1>10, <2>1, <2>2, <2>3, <2>4
    DEF Listed, Transferring, Noise, Heartbeat
<1> QED
  BY <1>4, <1>11, <1>12, <1>13, Reached DEF Stage

(* The client completes what gmf-remote listed as pending; both bitmaps    *)
(* still fit the file.                                                     *)
LEMMA CompleteStep ==
  ASSUME IInv, NEW c \in 0 .. bitmap.len - 1, Complete(c) PROVE IInv'
<1>1. PICK u, d : UpCarries(u) /\ DownCarries(d) /\ Stage(u, d)
  BY Carried
<1>2. StaticOK /\ Transferring(u, d)
  BY <1>1, Carried, StageOf DEF Complete
<1>3. c \in 0 .. Total - 1
  BY <1>2 DEF Complete, Transferring, pending_ids
<1>4. bitmap' = [len |-> bitmap.len, ones |-> bitmap.ones \cup {c}]
  BY <1>2 DEF Complete, mark_completed, StaticOK, Bitmap
<1>5. /\ file' = file /\ session' = session /\ METADATA' = METADATA
      /\ CHUNK_BITMAP' = CHUNK_BITMAP /\ client' = client /\ remote' = remote
      /\ remaining' = remaining /\ json' = Packed(bitmap')
  BY DEF Complete, Remote, Quiet, cells
<1>6. Fits(bitmap')
  <2>1. Total \in Nat /\ bitmap \in Bitmap /\ bitmap.ones \subseteq 0 .. Total - 1
    BY <1>2, Geometry DEF Transferring, Fits
  <2>2. bitmap.len \in Nat /\ bitmap.ones \subseteq 0 .. bitmap.len - 1
    BY <2>1 DEF Bitmap
  <2>3. bitmap' \in Bitmap
    BY <1>4, <2>2 DEF Bitmap
  <2> QED
    BY <1>2, <1>3, <1>4, <2>1, <2>3 DEF Transferring, Fits
<1>7. Fits(bitmap)' /\ \A bm : Fits(bm)' = Fits(bm)
  <2>1. Fits(bitmap)' <=> Fits(bitmap')
    BY <1>5, SameFile DEF Fits
  <2> QED
    BY <1>5, <1>6, <2>1, SameFile
<1>8. StaticOK'
  <2>1. bitmap' \in Bitmap
    BY <1>6 DEF Fits
  <2> QED
    BY <1>2, <1>5, <1>6, <1>7, <2>1 DEF StaticOK
<1>9. Transferring(u, d)'
  <2>1. Meta' = Meta /\ Total' = Total /\ Remains' = Remains
    BY <1>5, SameFile DEF Remains
  <2>2. StartSuccess(remaining)' = StartSuccess(remaining)
    BY <1>5
  <2>3. CHUNK_BITMAP.ones \subseteq bitmap'.ones
    BY <1>2, <1>4 DEF Transferring
  <2> QED
    BY <1>2, <1>5, <1>7, <2>1, <2>2, <2>3 DEF Transferring, Noise, Heartbeat
<1>10. UpCarries(u)' /\ DownCarries(d)'
  BY <1>1, Unmoved DEF Complete
<1> QED
  BY <1>8, <1>9, <1>10, Reached DEF Stage

(* Every stage ends in Off; the json file still holds a bitmap that fits.  *)
LEMMA EndStep == ASSUME IInv, End PROVE IInv'
<1>1. StaticOK
  BY Carried
<1>2. /\ file' = file /\ session' = session /\ METADATA' = None /\ CHUNK_BITMAP' = None
      /\ client' = "off" /\ remote' = "off" /\ json' \in {json, None}
      /\ bitmap' = [len |-> 0, ones |-> {}]
  BY DEF End, Quiet, NewBitmap
<1>3. UpCarries(<<>>)' /\ DownCarries(<<>>)'
  BY Unmoved DEF End
<1>4. StaticOK'
  <2>1. bitmap' \in Bitmap
    BY <1>2 DEF Bitmap
  <2>2. \A bm : Fits(bm)' = Fits(bm)
    BY <1>2, SameFile
  <2> QED
    BY <1>1, <1>2, <2>1, <2>2 DEF StaticOK
<1>5. Off(<<>>, <<>>)'
  BY <1>2 DEF Off, Unset
<1> QED
  BY <1>3, <1>4, <1>5, Reached DEF Stage

(* gmf-remote's heartbeat is noise in every stage.                         *)
LEMMA BeatStep == ASSUME IInv, Beat PROVE IInv'
<1>1. PICK u, d : UpCarries(u) /\ DownCarries(d) /\ Stage(u, d) /\ d \in Seq(Lines(Response))
  BY Carried
<1>2. StaticOK /\ client # "off"
  BY <1>1, Carried, StageOf DEF Beat
<1>0. PICK m : m = Heartbeat
  OBVIOUS
<1>3. m \in Lines(Response) /\ m \in Noise
  BY <1>0, <1>2, ResponsesOfAFile DEF Lines, Noise
<1>4. DownCarries(Append(d, m))'
  BY <1>0, <1>1, <1>3, DownWrites DEF Beat, Answer
<1>5. Keeps(Append(d, m), d)
  BY <1>1, <1>3, NoiseKeeps
<1>6. UpCarries(u)'
  BY <1>1, Unmoved DEF Beat
<1>7. Stage(u, Append(d, m))'
  BY <1>1, <1>2, <1>5, StageStays DEF Beat, Local, local, Remote, Quiet, cells
<1>8. StaticOK'
  BY <1>2, StaticStays DEF Beat, Local, local, Quiet
<1> QED
  BY <1>4, <1>6, <1>7, <1>8, Reached

(* gmf-remote answers with a response, or not at all.                      *)
Answering == UNCHANGED down \/ \E a \in Response : Down!WriteLine(a)

(* Asking becomes Refused, Hashless or Answered.                           *)
LEMMA HandleSetupStep == ASSUME IInv, HandleSetup PROVE IInv' /\ Answering
<1>1. PICK u, d : UpCarries(u) /\ DownCarries(d) /\ Stage(u, d) /\ d \in Seq(Lines(Response))
  BY Carried
<1>2. StaticOK
  BY Carried
<1>0. PICK m : m = Setup(ChunkSize)
  OBVIOUS
<1>3. u # <<>> /\ Head(u) = m /\ UpCarries(Tail(u))'
  <2>1. Up!Handle(m)
    BY <1>0 DEF HandleSetup, ChunkSize
  <2> QED
    BY <1>1, <2>1, UpHandles
<1>4. Asking(u, d)
  <2>1. Start(bitmap) # Setup(ChunkSize)
    <3>1. Start(bitmap).type = "Start" /\ Setup(ChunkSize).type = "Setup"
      BY DEF Start, Setup
    <3> QED
      BY <3>1
  <2>2. ASSUME Starting(u, d) PROVE FALSE
    <3>1. Head(u) = Start(bitmap)
      BY <2>2 DEF Starting
    <3> QED
      BY <1>0, <1>3, <2>1, <3>1
  <2> QED
    BY <1>1, <1>3, <2>2, StageOf
<1>5. UpCarries(<<>>)'
  BY <1>3, <1>4 DEF Asking
<1>6. /\ file' = file /\ client' = client /\ bitmap' = bitmap /\ json' = json
      /\ session' = session
  BY DEF HandleSetup, Local, local, Quiet
<1>7. StaticOK'
  BY <1>2, <1>6, StaticStays
<1>8. Error' = Error /\ Noise' = Noise
  BY DEF Error, Noise, Heartbeat
<1>9. CASE /\ file.state = "missing"
           /\ Answer(Error) /\ UNCHANGED <<remote, cells>>
  <2>0. PICK e : e = Error
    OBVIOUS
  <2>1. DownCarries(Append(d, e))'
    BY <1>1, <1>2, <1>9, <2>0, DownWrites, ResponsesOfAFile DEF Answer, Lines
  <2>2. Within(Append(d, e), Noise \cup {Error})
    <3>1. e \in Lines(Response)
      BY <1>2, <2>0, ResponsesOfAFile DEF Lines
    <3> QED
      BY <1>1, <1>4, <2>0, <3>1, AppendCarries DEF Asking
  <2>3. Refused(<<>>, Append(d, e))'
    BY <1>4, <1>6, <1>8, <1>9, <2>2 DEF Asking, Refused, Unset, cells
  <2>4. Answering
    BY <1>2, <1>9, <2>0, ResponsesOfAFile DEF Answering, Answer
  <2> QED
    BY <1>5, <1>7, <2>1, <2>3, <2>4, Reached DEF Stage
<1>10. CASE (file.state = "unreadable" \/ METADATA # None) /\ Panic
  <2>1. DownCarries(d)'
    BY <1>1, <1>10, Unmoved DEF Panic, down
  <2>2. Hashless(<<>>, d)'
    BY <1>4, <1>6, <1>8, <1>10 DEF Asking, Hashless, Unset, Panic, cells
  <2>3. Answering
    BY <1>10 DEF Answering, Panic
  <2> QED
    BY <1>5, <1>7, <2>1, <2>2, <2>3, Reached DEF Stage
<1>11. CASE LET g == file.geometry IN
            /\ file.state = "readable" /\ METADATA = None
            /\ METADATA' = [file_size |-> g.size, chunk_size |-> g.chunk_size,
                            total_chunks |-> total_chunks(g.size, g.chunk_size)]
            /\ Answer(SetupSuccess(METADATA'))
            /\ UNCHANGED <<remote, CHUNK_BITMAP>>
  <2>1. METADATA' = Meta /\ remote' = remote /\ CHUNK_BITMAP' = CHUNK_BITMAP
    BY <1>11 DEF Meta, Total, Size, ChunkSize
  <2>0. PICK a : a = SetupSuccess(Meta)
    OBVIOUS
  <2>2. Down!WriteLine(a)
    BY <1>11, <2>0, <2>1 DEF Answer
  <2>3. a \in Lines(Response) /\ a \notin Noise
    BY <1>2, <2>0, ResponsesOfAFile, Kinds DEF Lines
  <2>4. DownCarries(Append(d, a))'
    BY <1>1, <2>2, <2>3, DownWrites
  <2>5. Within(Append(d, a), Noise \cup {a}) /\ Once(Append(d, a), a)
    BY <1>1, <1>4, <2>3, AppendCarries DEF Asking
  <2>6. Meta' = Meta /\ SetupSuccess(Meta)' = a
    <3>1. Meta' = Meta
      BY <1>6, SameFile
    <3> QED
      BY <2>0, <3>1 DEF SetupSuccess
  <2>7. Answered(<<>>, Append(d, a))'
    BY <1>4, <1>6, <1>8, <2>1, <2>5, <2>6 DEF Asking, Answered, Unset
  <2>8. Answering
    BY <1>2, <2>0, <2>2, ResponsesOfAFile DEF Answering
  <2> QED
    BY <1>5, <1>7, <2>4, <2>7, <2>8, Reached DEF Stage
<1> QED
  BY <1>9, <1>10, <1>11 DEF HandleSetup

(* Starting becomes Misaligned or Listed.                                  *)
LEMMA HandleStartStep == ASSUME IInv, HandleStart PROVE IInv' /\ Answering
<1>1. PICK u, d : UpCarries(u) /\ DownCarries(d) /\ Stage(u, d) /\ d \in Seq(Lines(Response))
  BY Carried
<1>2. StaticOK
  BY Carried
<1>3. PICK m \in Request :
        /\ m.type = "Start" /\ Up!Handle(m)
        /\ \/ (METADATA = None \/ CHUNK_BITMAP # None \/ m.chunk_bitmap.k = 0) /\ Panic
           \/ /\ METADATA # None /\ CHUNK_BITMAP = None
              /\ CHUNK_BITMAP' = Fitted(Unpacked(m.chunk_bitmap))
              /\ Answer(StartSuccess(remaining_size(METADATA.file_size,
                          METADATA.chunk_size, completed_count(CHUNK_BITMAP'))))
              /\ UNCHANGED <<remote, METADATA>>
  BY DEF HandleStart
<1>4. u # <<>> /\ Head(u) = m /\ UpCarries(Tail(u))'
  BY <1>1, <1>3, UpHandles
<1>5. Starting(u, d)
  <2>1. Setup(ChunkSize).type = "Setup"
    BY DEF Setup
  <2>2. ASSUME Asking(u, d) PROVE FALSE
    <3>1. Head(u) = Setup(ChunkSize)
      BY <2>2 DEF Asking
    <3> QED
      BY <1>3, <1>4, <2>1, <3>1
  <2> QED
    BY <1>1, <1>4, <2>2, StageOf
<1>6. /\ UpCarries(<<>>)' /\ m.chunk_bitmap = Packed(bitmap)
  <2>1. m = Start(bitmap) /\ Tail(u) = <<>>
    BY <1>4, <1>5 DEF Starting
  <2>2. UpCarries(<<>>)'
    BY <1>4, <2>1
  <2>3. m.chunk_bitmap = Packed(bitmap)
    BY <2>1 DEF Start
  <2> QED
    BY <2>2, <2>3
<1>7. /\ file' = file /\ client' = client /\ bitmap' = bitmap /\ json' = json
      /\ session' = session
  BY DEF HandleStart, Local, local, Quiet
<1>8. StaticOK'
  BY <1>2, <1>7, StaticStays
<1>9. /\ Size' = Size /\ ChunkSize' = ChunkSize /\ Total' = Total /\ Meta' = Meta
      /\ Noise' = Noise
      /\ Fits(bitmap)'
  <2>1. Fits(bitmap)' <=> Fits(bitmap)
    BY <1>7, SameFile DEF Fits
  <2> QED
    BY <1>5, <1>7, <2>1, SameFile DEF Starting, Noise, Heartbeat
<1>10. METADATA # None
  BY <1>2, <1>5, Geometry, NoneAssumption DEF Starting
<1>11. CASE (METADATA = None \/ CHUNK_BITMAP # None \/ m.chunk_bitmap.k = 0) /\ Panic
  <2>1. Size = 0
    BY <1>2, <1>5, <1>6, <1>10, <1>11, FitsForGood DEF Starting
  <2>2. DownCarries(d)'
    BY <1>1, <1>11, Unmoved DEF Panic, down
  <2>3. Misaligned(<<>>, d)'
    BY <1>5, <1>7, <1>9, <1>11, <2>1 DEF Starting, Misaligned, Panic, cells
  <2>4. Answering
    BY <1>11 DEF Answering, Panic
  <2> QED
    BY <1>6, <1>8, <2>2, <2>3, <2>4, Reached DEF Stage
<1>12. CASE /\ METADATA # None /\ CHUNK_BITMAP = None
            /\ CHUNK_BITMAP' = Fitted(Unpacked(m.chunk_bitmap))
            /\ Answer(StartSuccess(remaining_size(METADATA.file_size,
                        METADATA.chunk_size, completed_count(CHUNK_BITMAP'))))
            /\ UNCHANGED <<remote, METADATA>>
  <2>1. CHUNK_BITMAP' = [len |-> Total, ones |-> bitmap.ones]
    BY <1>2, <1>5, <1>6, <1>12, FitsForGood DEF Starting
  <2>2. CHUNK_BITMAP' \in Bitmap
    BY <1>2, <1>5, <2>1, FitsForGood DEF Starting
  <2>0. PICK a : a = Remains'
    OBVIOUS
  <2>3. Down!WriteLine(a)
    <3>1. METADATA.file_size = Size /\ METADATA.chunk_size = ChunkSize
      BY <1>5 DEF Starting, Meta
    <3> QED
      BY <1>9, <1>12, <2>0, <3>1 DEF Answer, Remains
  <2>4. a \in Response /\ a \notin Noise
    <3>1. StaticOK' /\ (CHUNK_BITMAP \in Bitmap)'
      BY <1>8, <2>2
    <3>2. (StaticOK /\ CHUNK_BITMAP \in Bitmap)'
      BY <3>1
    <3>3. (Remains \in Response /\ Remains \notin Noise)'
      BY <3>2, RemainsIsAnAnswer, PTL
    <3> QED
      BY <1>9, <2>0, <3>3
  <2>5. DownCarries(Append(d, a))'
    BY <1>1, <2>3, <2>4, DownWrites DEF Lines
  <2>6. Within(Append(d, a), Noise \cup {a}) /\ Once(Append(d, a), a)
    <3>1. a \in Lines(Response)
      BY <2>4 DEF Lines
    <3> QED
      BY <1>1, <1>5, <2>4, <3>1, AppendCarries DEF Starting
  <2>7. Listed(<<>>, Append(d, a))'
    BY <1>5, <1>7, <1>9, <1>12, <2>0, <2>1, <2>6 DEF Starting, Listed
  <2>8. Answering
    BY <2>3, <2>4 DEF Answering
  <2> QED
    BY <1>6, <1>8, <2>5, <2>7, <2>8, Reached DEF Stage
<1> QED
  BY <1>3, <1>11, <1>12

(* Bytes on their way to gmf-remote.                                       *)
LEMMA UpStreamStep == ASSUME IInv, UpStep PROVE IInv'
<1>1. PICK u, d : UpCarries(u) /\ DownCarries(d) /\ Stage(u, d) /\ d \in Seq(Lines(Response))
  BY Carried
<1>2. StaticOK /\ client # "off"
  BY <1>1, Carried, StageOf DEF UpStep
<1>3. UpCarries(u)' /\ DownCarries(d)'
  BY <1>1, UpMoves, Unmoved DEF UpStep
<1>4. Keeps(d, d)
  BY DEF Keeps
<1>5. Stage(u, d)'
  BY <1>1, <1>2, <1>4, StageStays DEF UpStep, Local, local, Remote, Quiet, cells
<1>6. StaticOK'
  BY <1>2, StaticStays DEF UpStep, Local, local, Quiet
<1> QED
  BY <1>3, <1>5, <1>6, Reached

(* Bytes on their way to the client.                                       *)
LEMMA DownStreamStep == ASSUME IInv, DownStep PROVE IInv'
<1>1. PICK u, d : UpCarries(u) /\ DownCarries(d) /\ Stage(u, d) /\ d \in Seq(Lines(Response))
  BY Carried
<1>2. StaticOK
  BY Carried
<1>3. PICK r : DownCarries(r)' /\ (r = d \/ Fewer(r, d))
  BY <1>1, DownMoves DEF DownStep
<1>4. Keeps(r, d)
  BY <1>1, <1>3, FewerKeeps
<1>5. UpCarries(u)'
  BY <1>1, Unmoved DEF DownStep
<1>6. Stage(u, r)'
  BY <1>1, <1>2, <1>4, StageStays DEF DownStep, Local, local, Remote, Quiet, cells
<1>7. StaticOK'
  BY <1>2, StaticStays DEF DownStep, Local, local, Quiet
<1> QED
  BY <1>3, <1>5, <1>6, <1>7, Reached

(* gmf has not been run.                                                   *)
LEMMA InvariantInit == Init => IInv
<1> SUFFICES ASSUME Init PROVE IInv
  OBVIOUS
<1>1. UpCarries(<<>>) /\ DownCarries(<<>>)
  BY NothingCarried DEF Init, Up!Empty, Down!Empty, UpCarries, DownCarries
<1>2. StaticOK
  BY MaxSessionsAssumption DEF Init, StaticOK, NewBitmap, Bitmap
<1>3. Off(<<>>, <<>>)
  BY DEF Init, Off, Unset
<1> QED
  BY <1>1, <1>2, <1>3 DEF IInv, Protocol, Stage

(* Every step leads to a stage.                                            *)
LEMMA InvariantStep == IInv /\ [Next]_vars => IInv'
<1> SUFFICES ASSUME IInv, [Next]_vars PROVE IInv'
  OBVIOUS
<1>1. CASE UNCHANGED vars
  <2>1. PICK u, d : UpCarries(u) /\ DownCarries(d) /\ Stage(u, d) /\ d \in Seq(Lines(Response))
    BY Carried
  <2>2. StaticOK
    BY Carried
  <2>3. /\ file' = file /\ session' = session /\ bitmap' = bitmap /\ json' = json
        /\ remaining' = remaining /\ remote' = remote /\ METADATA' = METADATA
        /\ CHUNK_BITMAP' = CHUNK_BITMAP /\ client' = client
        /\ UNCHANGED up /\ UNCHANGED down
    BY <1>1 DEF vars, local, cells
  <2>4. UpCarries(u)' /\ DownCarries(d)'
    BY <2>1, <2>3, Unmoved
  <2>5. StaticOK'
    BY <2>2, <2>3, StaticStays
  <2>6. CASE client = "off"
    <3>1. Off(u, d)
      BY <2>1, <2>6, StageOf
    <3>2. Off(u, d)'
      BY <2>3, <3>1 DEF Off, Unset
    <3> QED
      BY <2>4, <2>5, <3>2, Reached DEF Stage
  <2>7. CASE client # "off"
    <3>1. Stage(u, d)'
      BY <2>1, <2>2, <2>3, <2>7, StageStays DEF Keeps
    <3> QED
      BY <2>4, <2>5, <3>1, Reached
  <2> QED
    BY <2>6, <2>7
<1>2. CASE Next
  <2>1. ASSUME NEW c \in 0 .. bitmap.len - 1, Complete(c) PROVE IInv'
    BY <2>1, CompleteStep
  <2> QED
    BY <1>2, <2>1, ConnectStep, RecvHeartbeatStep, SendSetupStep, RecvSetupSuccessStep,
       LoadPanicsStep, SendStartStep, RecvStartSuccessStep, RecvErrorStep, EndStep, BeatStep,
       HandleSetupStep, HandleStartStep, UpStreamStep, DownStreamStep, Zenon DEF Next
<1> QED
  BY <1>1, <1>2

(* So a session is always in one of the stages.                            *)
LEMMA Invariance == Spec => []IInv
  BY InvariantInit, InvariantStep, PTL DEF Spec

-----------------------------------------------------------------------------
(* What gmf-remote has set of its cells is what the file makes of them.    *)
LEMMA CellsOf ==
  ASSUME IInv
  PROVE  /\ StaticOK
         /\ METADATA # None => METADATA = Meta
         /\ CHUNK_BITMAP # None =>
              /\ METADATA = Meta /\ CHUNK_BITMAP \in Bitmap /\ CHUNK_BITMAP.len = Total
              /\ client = "start" => CHUNK_BITMAP.ones = bitmap.ones
              /\ client = "transfer" => StartSuccess(remaining) = Remains
         /\ remote = "panicked" => file.state = "unreadable" \/ Size = 0
         /\ client = "panicked" => Size = 0
         /\ client \in {"off", "connected", "ready", "setup", "opened", "start", "transfer",
                        "stopped", "panicked"}
         /\ remote \in {"off", "up", "panicked"}
<1>1. PICK u, d : Stage(u, d)
  BY Carried
<1>2. StaticOK
  BY Carried
<1>3. ASSUME Listed(u, d) PROVE CHUNK_BITMAP \in Bitmap /\ CHUNK_BITMAP.len = Total
  BY <1>2, <1>3, FitsForGood DEF Listed
<1>4. METADATA # None => METADATA = Meta
  BY <1>1 DEF Stage, Off, Greeting, Asking, Refused, Hashless, Answered, Opened, Starting,
              Misaligned, Listed, Transferring, Stopped, Unloaded, Unset
<1>5. CHUNK_BITMAP # None => Listed(u, d) \/ Transferring(u, d)
  BY <1>1 DEF Stage, Off, Greeting, Asking, Refused, Hashless, Answered, Opened, Starting,
              Misaligned, Stopped, Unloaded, Unset
<1>6. /\ Listed(u, d) =>
           METADATA = Meta /\ client = "start" /\ CHUNK_BITMAP.ones = bitmap.ones
      /\ Transferring(u, d) =>
           /\ METADATA = Meta /\ client = "transfer" /\ StartSuccess(remaining) = Remains
           /\ CHUNK_BITMAP \in Bitmap /\ CHUNK_BITMAP.len = Total
  BY DEF Listed, Transferring
<1>7. /\ remote = "panicked" => file.state = "unreadable" \/ Size = 0
      /\ client = "panicked" => Size = 0
  BY <1>1 DEF Stage, Off, Greeting, Asking, Refused, Hashless, Answered, Opened, Starting,
              Misaligned, Listed, Transferring, Stopped, Unloaded
<1>8. /\ client \in {"off", "connected", "ready", "setup", "opened", "start", "transfer",
                     "stopped", "panicked"}
      /\ remote \in {"off", "up", "panicked"}
  BY <1>1 DEF Stage, Off, Greeting, Asking, Refused, Hashless, Answered, Opened, Starting,
              Misaligned, Listed, Transferring, Stopped, Unloaded
<1> QED
  BY <1>2, <1>3, <1>4, <1>5, <1>6, <1>7, <1>8

(* No bitmap has a one beyond its length, on either side, and gmf-remote's *)
(* cells hold records of numbers.                                          *)
THEOREM TypeCorrectness == Spec => []TypeOK
<1>1. IInv => TypeOK
  <2> SUFFICES ASSUME IInv PROVE TypeOK
    OBVIOUS
  <2>1. bitmap.ones \subseteq 0 .. bitmap.len - 1 /\ session \in 0 .. MaxSessions
    BY CellsOf DEF StaticOK, Bitmap
  <2>2. METADATA # None => METADATA \in [file_size : Nat, chunk_size : Nat, total_chunks : Nat]
    BY CellsOf, Geometry
  <2>3. CHUNK_BITMAP # None => CHUNK_BITMAP.ones \subseteq 0 .. CHUNK_BITMAP.len - 1
    BY CellsOf DEF Bitmap
  <2> QED
    BY CellsOf, <2>1, <2>2, <2>3 DEF TypeOK
<1> QED
  BY <1>1, Invariance, PTL

(* The chunks that setup counts by dividing floats (server.rs:58) cut the  *)
(* file: every byte is in exactly one of them and none is empty, for every *)
(* size that a float holds exactly and every size of chunks.               *)
THEOREM ChunksAreTheFile == Spec => []ChunksTileFile
<1>1. IInv => ChunksTileFile
  <2> SUFFICES ASSUME IInv, METADATA # None
               PROVE  LET Chunks == {ChunkBytes(c, Size, ChunkSize) :
                                       c \in 0 .. METADATA.total_chunks - 1}
                      IN /\ UNION Chunks = 0 .. Size - 1
                         /\ {} \notin Chunks
                         /\ Cardinality(Chunks) = METADATA.total_chunks
    BY DEF ChunksTileFile
  <2>1. METADATA.total_chunks = CeilDiv(Size, ChunkSize)
    BY CellsOf, Geometry DEF Meta
  <2>2. Size \in Nat /\ ChunkSize \in Nat \ {0}
    BY CellsOf, Geometry
  <2> QED
    BY <2>1, <2>2, ChunksTile
<1> QED
  BY <1>1, Invariance, PTL

(* Before the first chunk is completed, gmf-remote's list of pending       *)
(* chunks is exactly what the client lacks, whatever padding the bitmap    *)
(* went through in the json file and in the request, in every session      *)
(* (main.rs:92).                                                           *)
THEOREM OnlyWhatIsLacking == Spec => []PendingIsExact
<1>1. IInv => PendingIsExact
  <2> SUFFICES ASSUME IInv, client = "start", CHUNK_BITMAP # None
               PROVE  pending_ids(CHUNK_BITMAP) = Lacking
    BY DEF PendingIsExact
  <2>1. /\ Size \in Nat /\ ChunkSize \in Nat \ {0} /\ Total = CeilDiv(Size, ChunkSize)
        /\ Total \in Nat /\ Total <= Size
    BY CellsOf, Geometry
  <2>2. CHUNK_BITMAP.len = Total /\ CHUNK_BITMAP.ones = bitmap.ones
    BY CellsOf
  <2>3. \A c \in 0 .. Size : ChunkBytes(c, Size, ChunkSize) # {} <=> c < Total
    BY <2>1, ChunkHasBytes
  <2>4. {c \in 0 .. Size : ChunkBytes(c, Size, ChunkSize) # {}} = 0 .. Total - 1
    BY <2>1, <2>3
  <2> QED
    BY <2>2, <2>4 DEF pending_ids, Lacking
<1> QED
  BY <1>1, Invariance, PTL

(* The size that the user is shown as remaining is never more than what    *)
(* gmf-remote will upload and less by no whole chunk (main.rs:99).         *)
THEOREM RemainingSizeIsClose == Spec => []RemainingIsClose
<1>1. IInv => RemainingIsClose
  <2> SUFFICES ASSUME IInv, client = "transfer", CHUNK_BITMAP # None
               PROVE  /\ remaining <= Cardinality(MissingBytes)
                      /\ Cardinality(MissingBytes) < remaining + ChunkSize
    BY DEF RemainingIsClose
  <2>1. /\ Size \in Nat /\ ChunkSize \in Nat \ {0} /\ Total = CeilDiv(Size, ChunkSize)
        /\ CHUNK_BITMAP \in Bitmap /\ CHUNK_BITMAP.len = Total
    BY CellsOf, Geometry
  <2>2. remaining = remaining_size(Size, ChunkSize, completed_count(CHUNK_BITMAP))
    <3>1. StartSuccess(remaining) = Remains
      BY CellsOf
    <3>2. StartSuccess(remaining).remaining_size = remaining
      BY DEF StartSuccess
    <3>3. Remains.remaining_size =
            remaining_size(Size, ChunkSize, completed_count(CHUNK_BITMAP))
      BY DEF Remains, StartSuccess
    <3> QED
      BY <3>1, <3>2, <3>3
  <2>3. MissingBytes = MissingOf(CHUNK_BITMAP, Size, ChunkSize)
    BY DEF MissingBytes, MissingOf
  <2> QED
    BY <2>1, <2>2, <2>3, RemainingIsExactButForOne
<1> QED
  BY <1>1, Invariance, PTL

(* The two requests never find a write-once cell that is set already or    *)
(* one that is not set yet (metadata.rs:41-61), in any session and however *)
(* the stream is cut: gmf-remote panics only over a file that it cannot    *)
(* hash or that is empty, and the client only over the json file of an     *)
(* empty one (chunk_bitmap.rs:70).                                         *)
THEOREM OnlyTheFileMakesItPanic == Spec => []PanicsOnlyOverTheFile
<1>1. IInv => PanicsOnlyOverTheFile
  BY CellsOf DEF PanicsOnlyOverTheFile
<1> QED
  BY <1>1, Invariance, PTL

-----------------------------------------------------------------------------
(* The lines that a direction still has to read.                           *)
Queued(p) == [i \in 1 .. Len(p) \div 3 |-> p[3 * i].of]

(* They are the messages of whole lines.                                   *)
LEMMA QueuedIs ==
  ASSUME NEW L, NEW p \in Seq(Bytes(L)), NEW q \in Seq(L), Framed(p, q)
  PROVE  Queued(p) = q
<1>1. /\ Len(q) \in Nat /\ Len(p) = 3 * Len(q)
      /\ \A i \in 1 .. Len(q) : p[3 * i] = Token("newline", q[i])
  BY LenProperties DEF Framed
<1>2. Len(p) \div 3 = Len(q)
  <2>1. \A n \in Nat : (3 * n) \div 3 = n
    OBVIOUS
  <2> QED
    BY <1>1, <2>1
<1>3. ASSUME NEW i \in 1 .. Len(q) PROVE p[3 * i].of = q[i]
  <2>1. p[3 * i] = Token("newline", q[i])
    BY <1>1
  <2>2. Token("newline", q[i]).of = q[i]
    BY DEF Token
  <2> QED
    BY <2>1, <2>2
<1>4. q = [i \in 1 .. Len(q) |-> q[i]]
  OBVIOUS
<1>5. Queued(p) = [i \in 1 .. Len(q) |-> p[3 * i].of]
  BY <1>2 DEF Queued
<1> QED
  BY <1>3, <1>4, <1>5

(* The same of what a direction carries.                                   *)
LEMMA QueuedLines ==
  ASSUME NEW M, NEW b, NEW s, NEW ch, NEW d, Carries(M, b, s, ch, d)
  PROVE  Queued(b \o s) \in Seq(Lines(M)) /\ Framed(b \o s, Queued(b \o s))
<1>1. PICK q \in Seq(Lines(M)) : Framed(b \o s, q)
  BY DEF Carries
<1>2. b \o s \in Seq(Bytes(Lines(M)))
  BY ConcatProperties DEF Carries
<1> QED
  BY <1>1, <1>2, QueuedIs

(* A line that is printed is the last one queued.                          *)
LEMMA QueueWrites ==
  ASSUME NEW M, NEW b, NEW s, NEW ch, NEW d, Carries(M, b, s, ch, d), NEW m \in Lines(M)
  PROVE  Queued(b \o (s \o OneLine(m))) = Append(Queued(b \o s), m)
<1> DEFINE l == OneLine(m)
<1>1. /\ b \in Seq(Bytes(Lines(M))) /\ s \in Seq(Bytes(Lines(M)))
      /\ l \in Seq(Bytes(Lines(M)))
  BY LineIsFramed DEF Carries
<1>2. PICK q \in Seq(Lines(M)) : Framed(b \o s, q) /\ Queued(b \o s) = q
  BY QueuedLines
<1>3. b \o s \in Seq(Bytes(Lines(M))) /\ (b \o s) \o l \in Seq(Bytes(Lines(M)))
  BY <1>1, ConcatProperties
<1>4. b \o (s \o l) = (b \o s) \o l
  BY <1>1, ConcatAssociative
<1>5. Framed((b \o s) \o l, Append(q, m))
  <2>1. \A k \in Seq(Bytes(Lines(M))) : k = OneLine(m) => Framed((b \o s) \o k, Append(q, m))
    BY <1>2, <1>3, WriteKeepsFrames
  <2> QED
    BY <1>1, <2>1
<1>6. Append(q, m) \in Seq(Lines(M))
  BY AppendProperties
<1>7. Queued((b \o s) \o l) = Append(q, m)
  BY <1>3, <1>5, <1>6, QueuedIs
<1> QED
  BY <1>2, <1>4, <1>7

(* A packet moves bytes, and no line from its place.                       *)
LEMMA QueueStays ==
  ASSUME NEW M, NEW b, NEW s, NEW ch, NEW d, Carries(M, b, s, ch, d), NEW n \in 1 .. Len(s)
  PROVE  Queued((b \o SubSeq(s, 1, n)) \o SubSeq(s, n + 1, Len(s))) = Queued(b \o s)
  BY PacketKeepsBytes DEF Carries

(* The reader takes the first line, whole, and leaves the others as they   *)
(* are.                                                                    *)
LEMMA QueueReads ==
  ASSUME NEW M, NEW b, NEW s, NEW ch, NEW d, Carries(M, b, s, ch, d),
         NEW N, NEW f, FirstEnd(b, N, f)
  PROVE  /\ Queued(b \o s) # <<>> /\ Head(Queued(b \o s)) = Head(b).of
         /\ Head(b).of \in Lines(M) /\ SubSeq(b, 1, f) = OneLine(Head(b).of)
         /\ Queued(SubSeq(b, f + 1, Len(b)) \o s) = Tail(Queued(b \o s))
<1>1. PICK q \in Seq(Lines(M)) : Framed(b \o s, q) /\ Queued(b \o s) = q
  BY QueuedLines
<1>2. b \in Seq(Bytes(Lines(M))) /\ s \in Seq(Bytes(Lines(M)))
  BY DEF Carries
<1> DEFINE rest == SubSeq(b, f + 1, Len(b))
<1>3. /\ q # <<>> /\ Head(b).of = Head(q) /\ SubSeq(b, 1, f) = OneLine(Head(q))
      /\ rest \in Seq(Bytes(Lines(M))) /\ Framed(rest \o s, Tail(q))
  <2>1. SplitOff(Lines(M), b, s, q, f)
    BY <1>1, <1>2, FirstLine
  <2> QED
    BY <2>1 DEF SplitOff
<1> HIDE DEF rest
<1>4. Head(q) \in Lines(M) /\ Tail(q) \in Seq(Lines(M))
  BY <1>3, HeadTailProperties
<1>5. rest \o s \in Seq(Bytes(Lines(M)))
  BY <1>2, <1>3, ConcatProperties
<1>6. Queued(rest \o s) = Tail(q)
  BY <1>3, <1>4, <1>5, QueuedIs
<1> QED
  BY <1>1, <1>3, <1>4, <1>6 DEF rest

(* Every step of a direction is one of the queue, while the connection     *)
(* lasts.                                                                  *)
LEMMA UpIsFifo ==
  ASSUME NEW u, UpCarries(u), Connection' = Connection
  PROVE  /\ \A m \in Request : Up!WriteLine(m) => UpFifo!Put(m)
         /\ Up!Packet => UNCHANGED <<Up!InFlight, requests, Connection>>
         /\ Up!Forward => UpFifo!Read
         /\ \A m : Up!Handle(m) => UpFifo!Handle
         /\ UNCHANGED up => UNCHANGED <<Up!InFlight, requests, Connection>>
<1>1. /\ Up!InFlight = Queued(up_buffer \o up_stream)
      /\ Up!InFlight' = Queued(up_buffer' \o up_stream')
  BY DEF Up!InFlight, Queued
<1>2. Carries(Request, up_buffer, up_stream, requests, u)
  BY DEF UpCarries
<1>3. ASSUME NEW m \in Request, Up!WriteLine(m) PROVE UpFifo!Put(m)
  <2>1. up_stream' = up_stream \o OneLine(m) /\ up_buffer' = up_buffer /\ requests' = requests
    BY <1>3 DEF Up!WriteLine, Up!Line, OneLine
  <2>2. Queued(up_buffer \o (up_stream \o OneLine(m)))
          = Append(Queued(up_buffer \o up_stream), m)
    BY <1>2, QueueWrites DEF Lines
  <2> QED
    BY <1>1, <2>1, <2>2 DEF UpFifo!Put
<1>4. ASSUME Up!Packet PROVE UNCHANGED <<Up!InFlight, requests, Connection>>
  <2>1. PICK n \in 1 .. Len(up_stream) :
          /\ up_buffer' = up_buffer \o SubSeq(up_stream, 1, n)
          /\ up_stream' = SubSeq(up_stream, n + 1, Len(up_stream))
    BY <1>4 DEF Up!Packet
  <2>2. requests' = requests
    BY <1>4 DEF Up!Packet
  <2>3. Queued((up_buffer \o SubSeq(up_stream, 1, n))
                 \o SubSeq(up_stream, n + 1, Len(up_stream)))
          = Queued(up_buffer \o up_stream)
    BY <1>2, QueueStays
  <2> QED
    BY <1>1, <2>1, <2>2, <2>3
<1>5. ASSUME Up!Forward PROVE UpFifo!Read
  <2>1. /\ FirstEnd(up_buffer, Up!Newlines, Up!FirstNewline)
        /\ Head(up_buffer).of \in Request
        /\ requests' = Append(requests, Head(up_buffer).of)
        /\ up_buffer' = SubSeq(up_buffer, Up!FirstNewline + 1, Len(up_buffer))
        /\ up_stream' = up_stream
    BY <1>5 DEF Up!Forward, Up!DrainLine, Up!FirstSaid, FirstEnd, Up!Newlines,
                Up!IsNewline, Up!FirstNewline
  <2>2. /\ Up!InFlight # <<>> /\ Head(Up!InFlight) = Head(up_buffer).of
        /\ Queued(SubSeq(up_buffer, Up!FirstNewline + 1, Len(up_buffer)) \o up_stream)
             = Tail(Up!InFlight)
    BY <1>1, <1>2, <2>1, QueueReads
  <2> QED
    BY <1>1, <2>1, <2>2 DEF UpFifo!Read
<1>6. ASSUME NEW m, Up!Handle(m) PROVE UpFifo!Handle
  BY <1>1, <1>6 DEF Up!Handle, UpFifo!Handle
<1>7. ASSUME UNCHANGED up PROVE UNCHANGED <<Up!InFlight, requests, Connection>>
  BY <1>1, <1>7 DEF up
<1> QED
  BY <1>3, <1>4, <1>5, <1>6, <1>7

(* What the client skips is never a message.                               *)
LEMMA DownIsFifo ==
  ASSUME NEW d, DownCarries(d), Connection' = Connection
  PROVE  /\ \A m \in Response : Down!WriteLine(m) => DownFifo!Put(m)
         /\ Down!Packet => UNCHANGED <<Down!InFlight, responses, Connection>>
         /\ Down!Forward => DownFifo!Read
         /\ Down!Ignore => DownFifo!Skip
         /\ \A m : Down!Handle(m) => DownFifo!Handle
         /\ UNCHANGED down => UNCHANGED <<Down!InFlight, responses, Connection>>
<1>1. /\ Down!InFlight = Queued(down_buffer \o down_stream)
      /\ Down!InFlight' = Queued(down_buffer' \o down_stream')
  BY DEF Down!InFlight, Queued
<1>2. Carries(Response, down_buffer, down_stream, responses, d)
  BY DEF DownCarries
<1>3. ASSUME NEW m \in Response, Down!WriteLine(m) PROVE DownFifo!Put(m)
  <2>1. /\ down_stream' = down_stream \o OneLine(m)
        /\ down_buffer' = down_buffer /\ responses' = responses
    BY <1>3 DEF Down!WriteLine, Down!Line, OneLine
  <2>2. Queued(down_buffer \o (down_stream \o OneLine(m)))
          = Append(Queued(down_buffer \o down_stream), m)
    BY <1>2, QueueWrites DEF Lines
  <2> QED
    BY <1>1, <2>1, <2>2 DEF DownFifo!Put
<1>4. ASSUME Down!Packet PROVE UNCHANGED <<Down!InFlight, responses, Connection>>
  <2>1. PICK n \in 1 .. Len(down_stream) :
          /\ down_buffer' = down_buffer \o SubSeq(down_stream, 1, n)
          /\ down_stream' = SubSeq(down_stream, n + 1, Len(down_stream))
    BY <1>4 DEF Down!Packet
  <2>2. responses' = responses
    BY <1>4 DEF Down!Packet
  <2>3. Queued((down_buffer \o SubSeq(down_stream, 1, n))
                 \o SubSeq(down_stream, n + 1, Len(down_stream)))
          = Queued(down_buffer \o down_stream)
    BY <1>2, QueueStays
  <2> QED
    BY <1>1, <2>1, <2>2, <2>3
<1> DEFINE f == Down!FirstNewline
           m == Head(down_buffer).of
<1>5. ASSUME Down!Forward \/ Down!Ignore
      PROVE  /\ Down!InFlight # <<>> /\ Head(Down!InFlight) = m /\ m \in Lines(Response)
             /\ Down!InFlight' = Tail(Down!InFlight)
             /\ Down!Says(m)
  <2>1. /\ FirstEnd(down_buffer, Down!Newlines, f)
        /\ down_buffer' = SubSeq(down_buffer, f + 1, Len(down_buffer))
        /\ down_stream' = down_stream
    BY <1>5 DEF Down!Forward, Down!Ignore, Down!DrainLine, FirstEnd, Down!Newlines,
                Down!IsNewline, Down!FirstNewline
  <2>2. /\ Down!InFlight # <<>> /\ Head(Down!InFlight) = m /\ m \in Lines(Response)
        /\ SubSeq(down_buffer, 1, f) = OneLine(m)
        /\ Queued(SubSeq(down_buffer, f + 1, Len(down_buffer)) \o down_stream)
             = Tail(Down!InFlight)
    BY <1>1, <1>2, <2>1, QueueReads
  <2> QED
    BY <1>1, <2>1, <2>2 DEF Down!Says, Down!Line, OneLine
<1>6. ASSUME Down!Forward PROVE DownFifo!Read
  <2>1. m \in Response /\ responses' = Append(responses, m)
    BY <1>6 DEF Down!Forward, Down!FirstSaid
  <2> QED
    BY <1>5, <1>6, <2>1 DEF DownFifo!Read
<1>7. ASSUME Down!Ignore PROVE DownFifo!Skip
  <2>1. ~ (m \in Response /\ Down!Says(m)) /\ responses' = responses
    BY <1>7 DEF Down!Ignore, Down!FirstSaid
  <2>2. m \in {NotJson}
    BY <1>5, <1>7, <2>1 DEF Lines
  <2> QED
    BY <1>5, <1>7, <2>1, <2>2 DEF DownFifo!Skip
<1>8. ASSUME NEW n, Down!Handle(n) PROVE DownFifo!Handle
  BY <1>1, <1>8 DEF Down!Handle, DownFifo!Handle
<1>9. ASSUME UNCHANGED down PROVE UNCHANGED <<Down!InFlight, responses, Connection>>
  BY <1>1, <1>9 DEF down
<1> QED
  BY <1>3, <1>4, <1>6, <1>7, <1>8, <1>9

(* A direction that is empty has nothing to read.                          *)
LEMMA EmptyQueue ==
  /\ Queued(<<>> \o <<>>) = <<>>
  /\ UpCarries(<<>>) => up_buffer \o up_stream = <<>> \o <<>> /\ requests = <<>>
  /\ DownCarries(<<>>) => down_buffer \o down_stream = <<>> \o <<>> /\ responses = <<>>
<1>0. <<>> \o <<>> = <<>> /\ Len(<<>>) = 0
  OBVIOUS
<1>1. Queued(<<>> \o <<>>) = <<>>
  <2>1. Framed(<<>>, <<>>)
    BY <1>0 DEF Framed
  <2>2. <<>> \in Seq(Bytes({})) /\ <<>> \in Seq({})
    OBVIOUS
  <2> QED
    BY <1>0, <2>1, <2>2, QueuedIs
<1>2. ASSUME NEW M, NEW b, NEW s, NEW ch, Carries(M, b, s, ch, <<>>)
      PROVE  b \o s = <<>> \o <<>> /\ ch = <<>>
  <2>1. PICK q \in Seq(Lines(M)) : Framed(b \o s, q) /\ <<>> = ch \o q
    BY <1>2 DEF Carries
  <2>2. ch \in Seq(Lines(M)) /\ b \o s \in Seq(Bytes(Lines(M)))
    BY <1>2, SeqMonotonic, ConcatProperties DEF Carries, Lines
  <2>3. Len(ch) = 0 /\ Len(q) = 0
    <3>1. Joined(Lines(M), ch, q, <<>>)
      BY <2>1, <2>2, Concatenation
    <3> QED
      BY <1>0, <3>1 DEF Joined
  <2>4. Len(b \o s) = 0
    BY <2>1, <2>3 DEF Framed
  <2>5. ch = <<>> /\ b \o s = <<>>
    BY <2>2, <2>3, <2>4, EmptySeq
  <2> QED
    BY <1>0, <2>5
<1> QED
  BY <1>1, <1>2 DEF UpCarries, DownCarries

(* A new connection begins with nothing but what a login script prints,    *)
(* and its end takes everything with it.                                   *)
LEMMA ConnectHangsUp == ASSUME IInv, Connect PROVE UpFifo!HangUp /\ DownFifo!HangUp
<1>1. PICK u, d : UpCarries(u) /\ DownCarries(d) /\ Stage(u, d)
  BY Carried
<1>2. StaticOK /\ Off(u, d)
  BY <1>1, Carried, StageOf DEF Connect
<1>3. u = <<>> /\ d = <<>>
  BY <1>2 DEF Off
<1>4. /\ up_buffer \o up_stream = <<>> \o <<>> /\ requests = <<>>
      /\ down_buffer \o down_stream = <<>> \o <<>> /\ responses = <<>>
  BY <1>1, <1>3, EmptyQueue
<1>5. Connection' # Connection
  <2>1. session' = session + 1 /\ session \in Nat
    BY <1>2, MaxSessionsAssumption DEF Connect, StaticOK
  <2>2. session' # session
    BY <2>1
  <2> QED
    BY <2>2 DEF Connection
<1>6. Up!InFlight' = <<>> /\ requests' = <<>>
  <2>1. up_buffer' = up_buffer /\ up_stream' = up_stream /\ requests' = requests
    BY DEF Connect, up
  <2>2. Up!InFlight' = Queued(up_buffer' \o up_stream')
    BY DEF Up!InFlight, Queued
  <2> QED
    BY <1>4, <2>1, <2>2, EmptyQueue
<1>7. Down!InFlight' \in Seq({NotJson}) /\ responses' = <<>>
  <2>1. Down!InFlight' = Queued(down_buffer' \o down_stream')
    BY DEF Down!InFlight, Queued
  <2>2. CASE Down!WriteLine(NotJson)
    <3>1. /\ down_stream' = down_stream \o OneLine(NotJson)
          /\ down_buffer' = down_buffer /\ responses' = responses
      BY <2>2 DEF Down!WriteLine, Down!Line, OneLine
    <3>2. NotJson \in Lines(Response)
      BY DEF Lines
    <3>3. Queued(down_buffer \o (down_stream \o OneLine(NotJson)))
            = Append(Queued(down_buffer \o down_stream), NotJson)
      BY <1>1, <3>2, QueueWrites DEF DownCarries
    <3>4. Down!InFlight' = <<NotJson>>
      BY <1>4, <2>1, <3>1, <3>3, EmptyQueue, Single
    <3> QED
      BY <1>4, <3>1, <3>4
  <2>3. CASE UNCHANGED down
    <3>1. down_buffer' = down_buffer /\ down_stream' = down_stream /\ responses' = responses
      BY <2>3 DEF down
    <3>2. Down!InFlight' = <<>>
      BY <1>4, <2>1, <3>1, EmptyQueue
    <3> QED
      BY <1>4, <3>1, <3>2
  <2> QED
    BY <2>2, <2>3 DEF Connect
<1>8. <<>> \in Seq({NotJson})
  OBVIOUS
<1> QED
  BY <1>5, <1>6, <1>7, <1>8 DEF UpFifo!HangUp, DownFifo!HangUp

(* So does the end of one, which leaves nothing.                           *)
LEMMA EndHangsUp == ASSUME End PROVE UpFifo!HangUp /\ DownFifo!HangUp
<1>1. Connection' # Connection
  <2>1. (client' = "off") # (client = "off")
    BY DEF End
  <2> QED
    BY <2>1 DEF Connection
<1>2. Up!InFlight' = <<>> /\ requests' = <<>>
  <2>1. up_buffer' = <<>> /\ up_stream' = <<>> /\ requests' = <<>>
    BY DEF End, Up!Reset
  <2>2. Up!InFlight' = Queued(up_buffer' \o up_stream')
    BY DEF Up!InFlight, Queued
  <2> QED
    BY <2>1, <2>2, EmptyQueue
<1>3. Down!InFlight' = <<>> /\ responses' = <<>>
  <2>1. down_buffer' = <<>> /\ down_stream' = <<>> /\ responses' = <<>>
    BY DEF End, Down!Reset
  <2>2. Down!InFlight' = Queued(down_buffer' \o down_stream')
    BY DEF Down!InFlight, Queued
  <2> QED
    BY <2>1, <2>2, EmptyQueue
<1>4. <<>> \in Seq({NotJson})
  OBVIOUS
<1> QED
  BY <1>1, <1>2, <1>3, <1>4 DEF UpFifo!HangUp, DownFifo!HangUp

(* All other steps are made on one connection.                             *)
LEMMA SameConnection ==
  ASSUME session' = session, (client' = "off") <=> (client = "off")
  PROVE  Connection' = Connection
<1>1. (client' = "off") = (client = "off")
  OBVIOUS
<1> QED
  BY <1>1 DEF Connection

UpPlaces == <<Up!InFlight, requests, Connection>>
DownPlaces == <<Down!InFlight, responses, Connection>>

(* Every step of the two requests is one of either queue, or none.         *)
LEMMA FifoSteps ==
  ASSUME IInv, [Next]_vars
  PROVE  [UpFifo!Next]_UpPlaces /\ [DownFifo!Next]_DownPlaces
<1>1. PICK u, d : UpCarries(u) /\ DownCarries(d) /\ Stage(u, d)
  BY Carried
<1>2. StaticOK
  BY Carried
<1>3. CASE Connect \/ End
  BY <1>3, ConnectHangsUp, EndHangsUp DEF UpFifo!Next, DownFifo!Next
<1>4. ASSUME Connection' = Connection
      PROVE  /\ (\E m \in Request : Up!WriteLine(m)) => UpFifo!Next
             /\ Up!Packet => UNCHANGED UpPlaces
             /\ Up!Forward => UpFifo!Next
             /\ \A m : Up!Handle(m) => UpFifo!Next
             /\ UNCHANGED up => UNCHANGED UpPlaces
  BY <1>1, <1>4, UpIsFifo DEF UpFifo!Next, UpPlaces
<1>5. ASSUME Connection' = Connection
      PROVE  /\ (\E m \in Response : Down!WriteLine(m)) => DownFifo!Next
             /\ Down!Packet => UNCHANGED DownPlaces
             /\ Down!Forward => DownFifo!Next
             /\ Down!Ignore => DownFifo!Next
             /\ \A m : Down!Handle(m) => DownFifo!Next
             /\ UNCHANGED down => UNCHANGED DownPlaces
  BY <1>1, <1>5, DownIsFifo DEF DownFifo!Next, DownPlaces
<1>6. CASE UNCHANGED vars
  <2>1. Connection' = Connection /\ UNCHANGED up /\ UNCHANGED down
    BY <1>6, SameConnection DEF vars, local
  <2> QED
    BY <1>4, <1>5, <2>1
<1>7. CASE RecvHeartbeat
  <2>1. Connection' = Connection /\ UNCHANGED up /\ Down!Handle(Heartbeat)
    BY <1>7, SameConnection DEF RecvHeartbeat, Quiet
  <2> QED
    BY <1>4, <1>5, <2>1
<1>8. CASE SendSetup
  <2>1. Connection' = Connection /\ UNCHANGED down
    BY <1>8, SameConnection DEF SendSetup, Quiet
  <2>2. \E m \in Request : Up!WriteLine(m)
    BY <1>2, <1>8, RequestsOfAFile DEF SendSetup, ChunkSize
  <2> QED
    BY <1>4, <1>5, <2>1, <2>2
<1>9. CASE RecvSetupSuccess
  <2>1. Connection' = Connection /\ UNCHANGED up /\ \E m : Down!Handle(m)
    BY <1>9, SameConnection DEF RecvSetupSuccess, Quiet
  <2> QED
    BY <1>4, <1>5, <2>1
<1>18. CASE LoadPanics
  <2>1. Connection' = Connection /\ UNCHANGED up /\ \E m : Down!Handle(m)
    BY <1>18, SameConnection DEF LoadPanics, Quiet
  <2> QED
    BY <1>4, <1>5, <2>1
<1>10. CASE SendStart
  <2>1. Connection' = Connection /\ UNCHANGED down
    BY <1>10, SameConnection DEF SendStart, Quiet
  <2>2. Fits(bitmap)
    BY <1>1, <1>10, StageOf DEF SendStart, Opened
  <2>3. \E m \in Request : Up!WriteLine(m)
    BY <1>2, <1>10, <2>2, RequestsOfAFile DEF SendStart
  <2> QED
    BY <1>4, <1>5, <2>1, <2>3
<1>11. CASE RecvStartSuccess
  <2>1. Connection' = Connection /\ UNCHANGED up /\ \E m : Down!Handle(m)
    BY <1>11, SameConnection DEF RecvStartSuccess, Quiet
  <2> QED
    BY <1>4, <1>5, <2>1
<1>12. CASE RecvError
  <2>1. Connection' = Connection /\ UNCHANGED up /\ Down!Handle(Error)
    BY <1>12, SameConnection DEF RecvError, Quiet
  <2> QED
    BY <1>4, <1>5, <2>1
<1>13. CASE \E c \in 0 .. bitmap.len - 1 : Complete(c)
  <2>1. Connection' = Connection /\ UNCHANGED up /\ UNCHANGED down
    BY <1>13, SameConnection DEF Complete, Quiet
  <2> QED
    BY <1>4, <1>5, <2>1
<1>14. CASE Beat
  <2>1. Connection' = Connection /\ UNCHANGED up
    BY <1>14, SameConnection DEF Beat, Quiet, Local, local
  <2>2. \E m \in Response : Down!WriteLine(m)
    BY <1>2, <1>14, ResponsesOfAFile DEF Beat, Answer
  <2> QED
    BY <1>4, <1>5, <2>1, <2>2
<1>15. CASE HandleSetup \/ HandleStart
  <2>1. Connection' = Connection
    BY <1>15, SameConnection DEF HandleSetup, HandleStart, Quiet, Local, local
  <2>2. \E m : Up!Handle(m)
    BY <1>15 DEF HandleSetup, HandleStart
  <2>3. Answering
    BY <1>15, HandleSetupStep, HandleStartStep
  <2> QED
    BY <1>4, <1>5, <2>1, <2>2, <2>3 DEF Answering
<1>16. CASE UpStep
  <2>1. Connection' = Connection /\ UNCHANGED down
    BY <1>16, SameConnection DEF UpStep, Quiet, Local, local
  <2> QED
    BY <1>4, <1>5, <1>16, <2>1 DEF UpStep
<1>17. CASE DownStep
  <2>1. Connection' = Connection /\ UNCHANGED up
    BY <1>17, SameConnection DEF DownStep, Quiet, Local, local
  <2> QED
    BY <1>4, <1>5, <1>17, <2>1 DEF DownStep
<1> QED
  BY <1>3, <1>6, <1>7, <1>8, <1>9, <1>10, <1>11, <1>12, <1>13, <1>14, <1>15, <1>16, <1>17,
     <1>18, Zenon DEF Next

(* No connection, nothing queued.                                          *)
LEMMA FifoInit == Init => UpFifo!Init /\ DownFifo!Init
<1> SUFFICES ASSUME Init PROVE UpFifo!Init /\ DownFifo!Init
  OBVIOUS
<1>1. up_buffer \o up_stream = <<>> \o <<>> /\ requests = <<>>
  BY DEF Init, Up!Empty
<1>2. down_buffer \o down_stream = <<>> \o <<>> /\ responses = <<>>
  BY DEF Init, Down!Empty
<1>3. /\ Up!InFlight = Queued(up_buffer \o up_stream)
      /\ Down!InFlight = Queued(down_buffer \o down_stream)
  BY DEF Up!InFlight, Down!InFlight, Queued
<1> QED
  BY <1>1, <1>2, <1>3, EmptyQueue DEF UpFifo!Init, DownFifo!Init

(* The requests of a connection arrive whole, once and in order, however   *)
(* the stream is cut into packets (msg.rs:27, comm.rs:34).                 *)
THEOREM RequestsAreAFifo == Spec => RequestsInOrder
  BY FifoInit, FifoSteps, Invariance, PTL
  DEF Spec, RequestsInOrder, UpFifo!Spec, UpPlaces

(* And so do the responses, whatever else the remote host prints between   *)
(* them: the reader skips only lines that are none (comm.rs:44-57).        *)
THEOREM ResponsesAreAFifo == Spec => ResponsesInOrder
  BY FifoInit, FifoSteps, Invariance, PTL
  DEF Spec, ResponsesInOrder, DownFifo!Spec, DownPlaces
=============================================================================
