----------------------------- MODULE WireProofs -----------------------------
(***************************************************************************)
(* One message round a ring of any size, with any text: what machines read *)
(* of a datagram, and what becomes of the message.                         *)
(***************************************************************************)
EXTENDS Wire, TLAPS, SequenceTheorems, FiniteSetTheorems

-----------------------------------------------------------------------------
\* Dividing a datagram at its separators

CountTo(d, i) == Cardinality({j \in SepAt(d) : j <= i})

\* A separator is one more than there are up to where the one before it is.
LEMMA CountStep ==
  ASSUME NEW S, NEW d \in Seq(S), NEW i \in SepAt(d), NEW p \in Nat, p < i,
         \A j \in SepAt(d) : j < i => j <= p
  PROVE  CountTo(d, i) = CountTo(d, p) + 1
<1> DEFINE B == {j \in SepAt(d) : j <= p}
<1>1. SepAt(d) \in SUBSET Nat /\ IsFiniteSet(SepAt(d))
  <2>1. DOMAIN d = 1 .. Len(d) /\ Len(d) \in Nat
    BY LenProperties
  <2>2. IsFiniteSet(1 .. Len(d)) /\ SepAt(d) \in SUBSET (1 .. Len(d))
    BY <2>1, FS_Interval DEF SepAt
  <2>3. QED
    BY <2>1, <2>2, FS_Subset
<1>2. i \in Nat /\ i \notin B
  BY <1>1
<1>3. {j \in SepAt(d) : j <= i} = B \cup {i}
  <2>1. ASSUME NEW j \in SepAt(d)
        PROVE  j <= i <=> j <= p \/ j = i
    <3>1. j \in Nat
      BY <1>1
    <3>2. QED
      BY <1>2, <3>1
  <2>2. QED
    BY <2>1
<1>4. IsFiniteSet(B) /\ Cardinality(B \cup {i}) = Cardinality(B) + 1
  <2>1. IsFiniteSet(B)
    BY <1>1, FS_Subset
  <2>2. QED
    BY <1>2, <2>1, FS_AddElement
<1>5. QED
  BY <1>3, <1>4 DEF CountTo

LEMMA CountNone ==
  ASSUME NEW S, NEW d \in Seq(S)
  PROVE  CountTo(d, 0) = 0
<1>1. DOMAIN d = 1 .. Len(d) /\ Len(d) \in Nat
  BY LenProperties
<1>2. {j \in SepAt(d) : j <= 0} = {}
  BY <1>1 DEF SepAt
<1>3. QED
  BY <1>2, FS_EmptySet DEF CountTo

\* There are as many separators as there are up to any place, or more.
LEMMA CountBound ==
  ASSUME NEW S, NEW d \in Seq(S), NEW i
  PROVE  /\ Cardinality(SepAt(d)) \in Nat
         /\ CountTo(d, i) <= Cardinality(SepAt(d))
<1>1. DOMAIN d = 1 .. Len(d) /\ Len(d) \in Nat
  BY LenProperties
<1>2. IsFiniteSet(1 .. Len(d)) /\ SepAt(d) \in SUBSET (1 .. Len(d))
  BY <1>1, FS_Interval DEF SepAt
<1>3. IsFiniteSet(SepAt(d))
  BY <1>2, FS_Subset
<1>4. QED
  BY <1>3, FS_Subset, FS_CardinalityType DEF CountTo

\* The k-th separator is the one up to which there are k.
LEMMA CutIs ==
  ASSUME NEW S, NEW d \in Seq(S), NEW i \in SepAt(d)
  PROVE  Cut(d, CountTo(d, i)) = i
<1>1. SepAt(d) \in SUBSET Nat /\ IsFiniteSet(SepAt(d))
  <2>1. DOMAIN d = 1 .. Len(d) /\ Len(d) \in Nat
    BY LenProperties
  <2>2. IsFiniteSet(1 .. Len(d)) /\ SepAt(d) \in SUBSET (1 .. Len(d))
    BY <2>1, FS_Interval DEF SepAt
  <2>3. QED
    BY <2>1, <2>2, FS_Subset
<1>2. ASSUME NEW a \in SepAt(d), NEW b \in SepAt(d), a < b
      PROVE  CountTo(d, a) # CountTo(d, b)
  <2> DEFINE A == {j \in SepAt(d) : j <= a}
             B == {j \in SepAt(d) : j <= b}
  <2>1. A \in SUBSET B
    <3>1. ASSUME NEW j \in SepAt(d), j <= a
          PROVE  j <= b
      <4>1. j \in Nat /\ a \in Nat /\ b \in Nat
        BY <1>1
      <4>2. QED
        BY <1>2, <3>1, <4>1
    <3>2. QED
      BY <3>1
  <2>2. b \in B /\ b \notin A
    <3>1. a \in Nat /\ b \in Nat
      BY <1>1
    <3>2. b <= b /\ ~(b <= a)
      BY <1>2, <3>1
    <3>3. QED
      BY <3>2
  <2>3. IsFiniteSet(B)
    BY <1>1, FS_Subset
  <2>4. Cardinality(A) # Cardinality(B)
    BY <2>1, <2>2, <2>3, FS_Subset
  <2>5. QED
    BY <2>4 DEF CountTo
<1>3. ASSUME NEW a \in SepAt(d), CountTo(d, a) = CountTo(d, i)
      PROVE  a = i
  <2>1. a \in Nat /\ i \in Nat
    BY <1>1
  <2>2. ~(a < i) /\ ~(i < a)
    BY <1>2, <1>3
  <2>3. QED
    BY <2>1, <2>2
<1>4. QED
  BY <1>3 DEF Cut, CountTo

-----------------------------------------------------------------------------
\* The datagram of DATA, symbol by symbol

Header(o, d, c, k) == <<P_DATA, SEP, o, SEP, d, SEP, c, SEP, k, SEP>>
Datagram(o, d, c, k, m) == Header(o, d, c, k) \o m

\* The fields that are not the message have no separator in them.
Plain(o, d, c, k) ==
  /\ o \in Symbols /\ o # SEP /\ d \in Symbols /\ d # SEP
  /\ c \in Controls /\ k \in [crc : Seq(Symbols)]

LEMMA PlainIs ==
  ASSUME NEW o, NEW d, NEW c, NEW k, Plain(o, d, c, k)
  PROVE  /\ o # SEP /\ d # SEP /\ c # SEP /\ k # SEP /\ P_DATA # SEP
         /\ o \in Alphabet /\ d \in Alphabet /\ c \in Alphabet /\ k \in Alphabet
         /\ P_DATA \in Alphabet /\ SEP \in Alphabet /\ NUL \in Alphabet
         /\ Symbols \subseteq Alphabet
<1>1. SEP \notin {P_DATA} \cup Controls /\ SEP \notin [crc : Seq(Symbols)]
  BY WireFields
<1>2. o # SEP /\ d # SEP /\ c \in Controls /\ k \in [crc : Seq(Symbols)]
  BY DEF Plain
<1>3. c # SEP /\ k # SEP /\ P_DATA # SEP
  <2> HIDE DEF P_DATA
  <2>1. QED
    BY <1>1, <1>2, Zenon
<1>4. Symbols \subseteq Alphabet /\ Controls \subseteq Alphabet /\ P_DATA \in Alphabet
      /\ [crc : Seq(Symbols)] \subseteq Alphabet
  BY Zenon DEF Alphabet
<1>5. o \in Symbols /\ d \in Symbols /\ SEP \in Symbols /\ NUL \in Symbols
  BY PacketSymbols DEF Plain
<1>6. QED
  BY <1>2, <1>3, <1>4, <1>5, Zenon

LEMMA DatagramIs ==
  ASSUME NEW o, NEW d, NEW c, NEW k, Plain(o, d, c, k), NEW m \in Seq(Symbols),
         NEW r, r = Datagram(o, d, c, k, m)
  PROVE  /\ r \in Seq(Alphabet) /\ Len(r) = 10 + Len(m) /\ DOMAIN r = 1 .. 10 + Len(m)
         /\ Len(m) \in Nat
         /\ r[1] = P_DATA /\ r[3] = o /\ r[5] = d /\ r[7] = c /\ r[9] = k
         /\ r[2] = SEP /\ r[4] = SEP /\ r[6] = SEP /\ r[8] = SEP /\ r[10] = SEP
         /\ \A j \in 1 .. Len(m) : r[10 + j] = m[j]
<1> DEFINE h == Header(o, d, c, k)
           G == Alphabet
<1>1. SEP \in G /\ o \in G /\ d \in G /\ c \in G /\ k \in G /\ P_DATA \in G
  BY PlainIs
<1>2. h \in Seq(G) /\ Len(h) = 10
  <2> HIDE DEF G
  <2>1. QED
    BY <1>1 DEF Header
<1>3. m \in Seq(G)
  <2>1. Symbols \subseteq Alphabet
    BY PlainIs
  <2>2. QED
    BY <2>1, SeqMonotonic
<1>4. /\ h[1] = P_DATA /\ h[3] = o /\ h[5] = d /\ h[7] = c /\ h[9] = k
      /\ h[2] = SEP /\ h[4] = SEP /\ h[6] = SEP /\ h[8] = SEP /\ h[10] = SEP
  BY DEF Header
<1> HIDE DEF h, G
<1>5. Len(m) \in Nat
  BY LenProperties
<1>6. /\ h \o m \in Seq(G) /\ Len(h \o m) = 10 + Len(m)
      /\ \A i \in 1 .. 10 + Len(m) : (h \o m)[i] = IF i <= 10 THEN h[i] ELSE m[i - 10]
  <2>1. /\ h \o m \in Seq(G) /\ Len(h \o m) = Len(h) + Len(m)
        /\ \A i \in 1 .. Len(h) + Len(m) :
             (h \o m)[i] = IF i <= Len(h) THEN h[i] ELSE m[i - Len(h)]
    BY <1>2, <1>3, ConcatProperties
  <2>2. QED
    BY <1>2, <2>1
<1>7. r = h \o m
  BY DEF h, Datagram
<1>8. \A i \in 1 .. 10 : r[i] = h[i]
  BY <1>5, <1>6, <1>7
<1>9. \A j \in 1 .. Len(m) : r[10 + j] = m[j]
  <2>1. TAKE j \in 1 .. Len(m)
  <2>2. 10 + j \in 1 .. 10 + Len(m) /\ ~(10 + j <= 10) /\ (10 + j) - 10 = j
    BY <1>5
  <2>3. QED
    BY <1>6, <1>7, <2>2
<1>10. r \in Seq(G) /\ Len(r) = 10 + Len(m) /\ DOMAIN r = 1 .. 10 + Len(m)
  BY <1>5, <1>6, <1>7, LenProperties
<1>11. /\ r[1] = h[1] /\ r[2] = h[2] /\ r[3] = h[3] /\ r[4] = h[4] /\ r[5] = h[5]
       /\ r[6] = h[6] /\ r[7] = h[7] /\ r[8] = h[8] /\ r[9] = h[9] /\ r[10] = h[10]
  <2>1. /\ 1 \in 1 .. 10 /\ 2 \in 1 .. 10 /\ 3 \in 1 .. 10 /\ 4 \in 1 .. 10 /\ 5 \in 1 .. 10
        /\ 6 \in 1 .. 10 /\ 7 \in 1 .. 10 /\ 8 \in 1 .. 10 /\ 9 \in 1 .. 10 /\ 10 \in 1 .. 10
    OBVIOUS
  <2>2. QED
    BY <1>8, <2>1, Zenon
<1>12. /\ r[1] = P_DATA /\ r[3] = o /\ r[5] = d /\ r[7] = c /\ r[9] = k
       /\ r[2] = SEP /\ r[4] = SEP /\ r[6] = SEP /\ r[8] = SEP /\ r[10] = SEP
  BY <1>4, <1>11
<1>13. QED
  BY <1>5, <1>9, <1>10, <1>12 DEF G

\* Its first five separators.
LEMMA Separators ==
  ASSUME NEW o, NEW d, NEW c, NEW k, Plain(o, d, c, k), NEW m \in Seq(Symbols),
         NEW r, r = Datagram(o, d, c, k, m)
  PROVE  /\ \A n \in 1 .. 5 : Cut(r, n) = 2 * n
         /\ Cardinality(SepAt(r)) \in Nat /\ Cardinality(SepAt(r)) >= 5
<1>1. /\ r \in Seq(Alphabet) /\ DOMAIN r = 1 .. 10 + Len(m) /\ Len(m) \in Nat
      /\ r[1] # SEP /\ r[3] # SEP /\ r[5] # SEP /\ r[7] # SEP /\ r[9] # SEP
      /\ r[2] = SEP /\ r[4] = SEP /\ r[6] = SEP /\ r[8] = SEP /\ r[10] = SEP
  <2>1. P_DATA # SEP /\ o # SEP /\ d # SEP /\ c # SEP /\ k # SEP
    BY PlainIs
  <2>2. r \in Seq(Alphabet)
    BY DatagramIs
  <2>3. DOMAIN r = 1 .. 10 + Len(m)
    <3>1. Len(r) = 10 + Len(m)
      BY DatagramIs
    <3>2. DOMAIN r = 1 .. Len(r)
      BY <2>2, LenProperties
    <3>3. QED
      BY <3>1, <3>2, Zenon
  <2>4. Len(m) \in Nat
    BY LenProperties
  <2>5. r[1] = P_DATA /\ r[3] = o /\ r[5] = d /\ r[7] = c /\ r[9] = k
    BY DatagramIs
  <2>6. r[2] = SEP /\ r[4] = SEP /\ r[6] = SEP /\ r[8] = SEP /\ r[10] = SEP
    BY DatagramIs
  <2>7. QED
    BY <2>1, <2>2, <2>5, <2>6, <2>3, <2>4, Zenon
<1>2. {2, 4, 6, 8, 10} \subseteq SepAt(r)
  BY <1>1 DEF SepAt
<1>3. \A j \in SepAt(r) : j \in Nat /\ j > 0 /\ r[j] = SEP
  <2>1. \A j \in SepAt(r) : j \in 1 .. 10 + Len(m) /\ r[j] = SEP
    BY <1>1 DEF SepAt
  <2>2. ASSUME NEW n \in Nat, NEW j \in 1 .. 10 + n
        PROVE  j \in Nat /\ j > 0
    OBVIOUS
  <2>3. QED
    BY <1>1, <2>1, <2>2
<1>4. \A j \in SepAt(r) : j # 1 /\ j # 3 /\ j # 5 /\ j # 7 /\ j # 9
  BY <1>1, <1>3
<1>5. CountTo(r, 0) = 0
  BY <1>1, CountNone
<1>6. \A i \in SepAt(r), p \in Nat :
        p < i /\ (\A j \in SepAt(r) : j < i => j <= p) => CountTo(r, i) = CountTo(r, p) + 1
  BY <1>1, CountStep
<1>7. 2 \in SepAt(r) /\ 4 \in SepAt(r) /\ 6 \in SepAt(r) /\ 8 \in SepAt(r) /\ 10 \in SepAt(r)
  BY <1>2
<1>8. CountTo(r, 2) = 1
  <2>1. \A j \in SepAt(r) : j < 2 => j <= 0
    BY <1>3, <1>4
  <2>2. CountTo(r, 2) = CountTo(r, 0) + 1
    BY <1>6, <1>7, <2>1
  <2>3. QED
    BY <1>5, <2>2
<1>9. CountTo(r, 4) = 2
  <2>1. \A j \in SepAt(r) : j < 4 => j <= 2
    BY <1>3, <1>4
  <2>2. CountTo(r, 4) = CountTo(r, 2) + 1
    BY <1>6, <1>7, <2>1
  <2>3. QED
    BY <1>8, <2>2
<1>10. CountTo(r, 6) = 3
  <2>1. \A j \in SepAt(r) : j < 6 => j <= 4
    BY <1>3, <1>4
  <2>2. CountTo(r, 6) = CountTo(r, 4) + 1
    BY <1>6, <1>7, <2>1
  <2>3. QED
    BY <1>9, <2>2
<1>11. CountTo(r, 8) = 4
  <2>1. \A j \in SepAt(r) : j < 8 => j <= 6
    BY <1>3, <1>4
  <2>2. CountTo(r, 8) = CountTo(r, 6) + 1
    BY <1>6, <1>7, <2>1
  <2>3. QED
    BY <1>10, <2>2
<1>12. CountTo(r, 10) = 5
  <2>1. \A j \in SepAt(r) : j < 10 => j <= 8
    BY <1>3, <1>4
  <2>2. CountTo(r, 10) = CountTo(r, 8) + 1
    BY <1>6, <1>7, <2>1
  <2>3. QED
    BY <1>11, <2>2
<1>13. Cut(r, 1) = 2 /\ Cut(r, 2) = 4 /\ Cut(r, 3) = 6 /\ Cut(r, 4) = 8 /\ Cut(r, 5) = 10
  <2>1. \A i \in SepAt(r) : Cut(r, CountTo(r, i)) = i
    BY <1>1, CutIs
  <2>2. QED
    BY <1>2, <1>8, <1>9, <1>10, <1>11, <1>12, <2>1
<1>14. Cardinality(SepAt(r)) \in Nat /\ 5 <= Cardinality(SepAt(r))
  BY <1>1, <1>12, CountBound
<1>15. \A n \in 1 .. 5 : n = 1 \/ n = 2 \/ n = 3 \/ n = 4 \/ n = 5
  OBVIOUS
<1>16. QED
  BY <1>13, <1>14, <1>15

LEMMA Piece ==
  ASSUME NEW S, NEW s \in Seq(S), NEW i \in 1 .. Len(s)
  PROVE  SubSeq(s, i, i) = <<s[i]>>
<1>1. i \in Int /\ (\A j \in i .. i : s[j] \in S) /\ s[i] \in S
  BY LenProperties, ElementOfSeq
<1>2. /\ SubSeq(s, i, i) \in Seq(S) /\ Len(SubSeq(s, i, i)) = 1
      /\ SubSeq(s, i, i)[1] = s[i]
  BY <1>1, SubSeqProperties
<1>3. <<s[i]>> \in Seq(S) /\ Len(<<s[i]>>) = 1 /\ <<s[i]>>[1] = s[i]
  BY <1>1
<1> DEFINE one == <<s[i]>>
           sub == SubSeq(s, i, i)
<1> HIDE DEF one, sub
<1>4. \A j \in 1 .. Len(sub) : sub[j] = one[j]
  BY <1>2, <1>3 DEF one, sub
<1>5. sub = one
  BY <1>2, <1>3, <1>4, SeqEqual DEF one, sub
<1>6. QED
  BY <1>5 DEF one, sub

\* Divided five times, it has its fields and the whole message.
LEMMA PartsOfDatagram ==
  ASSUME NEW o, NEW d, NEW c, NEW k, Plain(o, d, c, k), NEW m \in Seq(Symbols),
         NEW r, r = Datagram(o, d, c, k, m)
  PROVE  Split(r, 5) = << <<P_DATA>>, <<o>>, <<d>>, <<c>>, <<k>>, m >>
<1>1. r \in Seq(Alphabet) /\ Len(r) = 10 + Len(m)
  BY DatagramIs
<1>2. Len(m) \in Nat
  BY LenProperties
<1>3. r[1] = P_DATA /\ r[3] = o /\ r[5] = d /\ r[7] = c /\ r[9] = k
  BY DatagramIs
<1>4. \A n \in 1 .. 5 : Cut(r, n) = 2 * n
  BY Separators
<1>5. Cardinality(SepAt(r)) \in Nat /\ ~(Cardinality(SepAt(r)) < 5)
  BY Separators
<1> DEFINE cuts == [j \in 0 .. 6 |-> IF j = 0 THEN 0 ELSE IF j = 6 THEN Len(r) + 1 ELSE Cut(r, j)]
<1>6. Split(r, 5) = [j \in 1 .. 6 |-> SubSeq(r, cuts[j - 1] + 1, cuts[j] - 1)]
  BY <1>5 DEF Split
<1>7. cuts[0] = 0 /\ cuts[6] = Len(r) + 1
  OBVIOUS
<1>8. cuts[1] = 2 /\ cuts[2] = 4 /\ cuts[3] = 6 /\ cuts[4] = 8 /\ cuts[5] = 10
  BY <1>4
<1> HIDE DEF cuts
<1> DEFINE parts == Split(r, 5)
<1>9. /\ parts[1] = SubSeq(r, 1, 1) /\ parts[2] = SubSeq(r, 3, 3) /\ parts[3] = SubSeq(r, 5, 5)
      /\ parts[4] = SubSeq(r, 7, 7) /\ parts[5] = SubSeq(r, 9, 9)
      /\ parts[6] = SubSeq(r, 11, Len(r))
  <2>1. Len(r) \in Nat
    BY <1>1, <1>2
  <2>2. /\ parts[1] = SubSeq(r, cuts[0] + 1, cuts[1] - 1)
        /\ parts[2] = SubSeq(r, cuts[1] + 1, cuts[2] - 1)
        /\ parts[3] = SubSeq(r, cuts[2] + 1, cuts[3] - 1)
        /\ parts[4] = SubSeq(r, cuts[3] + 1, cuts[4] - 1)
        /\ parts[5] = SubSeq(r, cuts[4] + 1, cuts[5] - 1)
        /\ parts[6] = SubSeq(r, cuts[5] + 1, cuts[6] - 1)
    BY <1>6
  <2>3. (Len(r) + 1) - 1 = Len(r)
    BY <2>1
  <2>4. QED
    BY <1>7, <1>8, <2>2, <2>3
<1>10. /\ parts[1] = <<P_DATA>> /\ parts[2] = <<o>> /\ parts[3] = <<d>>
       /\ parts[4] = <<c>> /\ parts[5] = <<k>>
  <2>1. /\ 1 \in 1 .. Len(r) /\ 3 \in 1 .. Len(r) /\ 5 \in 1 .. Len(r)
        /\ 7 \in 1 .. Len(r) /\ 9 \in 1 .. Len(r)
    BY <1>1, <1>2
  <2>2. \A i \in 1 .. Len(r) : SubSeq(r, i, i) = <<r[i]>>
    BY <1>1, Piece
  <2> HIDE DEF parts
  <2>3. QED
    BY <1>3, <1>9, <2>1, <2>2
<1>11. parts[6] = m
  <2> DEFINE tail == SubSeq(r, 11, Len(r))
  <2>1. /\ tail \in Seq(Alphabet) /\ Len(tail) = Len(m)
        /\ \A j \in 1 .. Len(m) : tail[j] = r[10 + j]
    <3>1. Len(r) \in Int /\ 11 \in Int /\ \A j \in 11 .. Len(r) : r[j] \in Alphabet
      <4>1. \A j \in 1 .. Len(r) : r[j] \in Alphabet
        BY <1>1, ElementOfSeq
      <4>2. QED
        BY <1>1, <1>2, <4>1
    <3>2. /\ tail \in Seq(Alphabet)
          /\ Len(tail) = IF 11 <= Len(r) THEN Len(r) - 11 + 1 ELSE 0
          /\ \A j \in 1 .. Len(r) - 11 + 1 : tail[j] = r[11 + j - 1]
      BY <3>1, SubSeqProperties
    <3> HIDE DEF tail
    <3>3. Len(r) - 11 + 1 = Len(m) /\ (11 <= Len(r) \/ Len(m) = 0)
      BY <1>1, <1>2
    <3>4. \A j \in 1 .. Len(m) : 11 + j - 1 = 10 + j
      BY <1>2
    <3>5. QED
      BY <3>2, <3>3, <3>4
  <2>2. \A j \in 1 .. Len(m) : r[10 + j] = m[j]
    BY DatagramIs
  <2>3. m \in Seq(Alphabet)
    <3>1. Symbols \subseteq Alphabet
      BY PlainIs
    <3>2. QED
      BY <3>1, SeqMonotonic
  <2> HIDE DEF tail
  <2>4. tail = m
    BY <2>1, <2>2, <2>3, SeqEqual
  <2>5. QED
    BY <1>9, <2>4 DEF tail
<1>12. DOMAIN parts = 1 .. 6 /\ parts = [j \in 1 .. 6 |-> parts[j]]
  BY <1>6
<1> HIDE DEF parts
<1>13. parts = << <<P_DATA>>, <<o>>, <<d>>, <<c>>, <<k>>, m >>
  <2>1. parts = [j \in 1 .. 6 |-> parts[j]]
    BY <1>12
  <2>2. /\ parts[1] = <<P_DATA>> /\ parts[2] = <<o>> /\ parts[3] = <<d>>
        /\ parts[4] = <<c>> /\ parts[5] = <<k>> /\ parts[6] = m
    BY <1>10, <1>11
  <2> DEFINE t == << <<P_DATA>>, <<o>>, <<d>>, <<c>>, <<k>>, m >>
  <2>3. t = [j \in 1 .. 6 |-> t[j]]
    OBVIOUS
  <2>4. /\ t[1] = <<P_DATA>> /\ t[2] = <<o>> /\ t[3] = <<d>>
        /\ t[4] = <<c>> /\ t[5] = <<k>> /\ t[6] = m
    OBVIOUS
  <2> HIDE DEF t
  <2>5. \A j \in 1 .. 6 : j = 1 \/ j = 2 \/ j = 3 \/ j = 4 \/ j = 5 \/ j = 6
    OBVIOUS
  <2>6. \A j \in 1 .. 6 : parts[j] = t[j]
    BY <2>2, <2>4, <2>5
  <2>7. parts = t
    BY <2>1, <2>3, <2>6
  <2>8. QED
    BY <2>7 DEF t
<1>14. QED
  BY <1>13 DEF parts

\* What is before its first separator.
LEMMA PrefixOfDatagram ==
  ASSUME NEW o, NEW d, NEW c, NEW k, Plain(o, d, c, k), NEW m \in Seq(Symbols),
         NEW r, r = Datagram(o, d, c, k, m)
  PROVE  Split(r, 1)[1] = <<P_DATA>>
<1>1. r \in Seq(Alphabet) /\ Len(r) = 10 + Len(m) /\ r[1] = P_DATA
  BY DatagramIs
<1>2. Len(m) \in Nat
  BY LenProperties
<1>3. \A n \in 1 .. 5 : Cut(r, n) = 2 * n
  BY Separators
<1>4. Cardinality(SepAt(r)) \in Nat /\ Cardinality(SepAt(r)) >= 5
  BY Separators
<1> DEFINE cuts == [j \in 0 .. 2 |-> IF j = 0 THEN 0 ELSE IF j = 2 THEN Len(r) + 1 ELSE Cut(r, j)]
<1>5. Split(r, 1) = [j \in 1 .. 2 |-> SubSeq(r, cuts[j - 1] + 1, cuts[j] - 1)]
  <2>1. ~(Cardinality(SepAt(r)) < 1)
    BY <1>4
  <2>2. QED
    BY <2>1 DEF Split
<1>6. cuts[0] = 0 /\ cuts[1] = 2
  BY <1>3
<1> HIDE DEF cuts
<1>7. Split(r, 1)[1] = SubSeq(r, 1, 1)
  <2>1. 1 \in 1 .. 2 /\ 1 - 1 = 0 /\ 0 + 1 = 1 /\ 2 - 1 = 1
    OBVIOUS
  <2>2. Split(r, 1)[1] = SubSeq(r, cuts[1 - 1] + 1, cuts[1] - 1)
    BY <1>5, <2>1, Zenon
  <2>3. QED
    BY <1>6, <2>1, <2>2
<1>8. 1 \in 1 .. Len(r)
  BY <1>1, <1>2
<1>9. SubSeq(r, 1, 1) = <<r[1]>>
  BY <1>1, <1>8, Piece
<1>10. QED
  BY <1>1, <1>7, <1>9

-----------------------------------------------------------------------------
\* Building it

\* Six parts are joined in order.
Joined(p1, p2, p3, p4, p5, p6) ==
  p1 \o <<SEP>> \o p2 \o <<SEP>> \o p3 \o <<SEP>> \o p4 \o <<SEP>> \o p5 \o <<SEP>> \o p6

LEMMA JoinOfSix ==
  ASSUME NEW p1, NEW p2, NEW p3, NEW p4, NEW p5, NEW p6
  PROVE  Join(<<p1, p2, p3, p4, p5, p6>>) = Joined(p1, p2, p3, p4, p5, p6)
<1> DEFINE parts == <<p1, p2, p3, p4, p5, p6>>
           a2 == p1 \o <<SEP>> \o p2
           a3 == a2 \o <<SEP>> \o p3
           a4 == a3 \o <<SEP>> \o p4
           a5 == a4 \o <<SEP>> \o p5
           a6 == a5 \o <<SEP>> \o p6
           w == <<p1, a2, a3, a4, a5, a6>>
           Extend(f, k) == f[k - 1] \o <<SEP>> \o parts[k]
           IsUpTo(f) == f = [k \in DOMAIN parts |-> IF k = 1 THEN parts[1] ELSE Extend(f, k)]
           upTo == CHOOSE f : IsUpTo(f)
<1>1. DOMAIN parts = 1 .. 6 /\ Len(parts) = 6
  OBVIOUS
<1>2. /\ parts[1] = p1 /\ parts[2] = p2 /\ parts[3] = p3
      /\ parts[4] = p4 /\ parts[5] = p5 /\ parts[6] = p6
  OBVIOUS
<1>3. Join(parts) = upTo[Len(parts)]
  BY DEF Join
<1> HIDE DEF parts
<1>4. IsUpTo(w)
  <2> DEFINE t == [k \in DOMAIN parts |-> IF k = 1 THEN parts[1] ELSE Extend(w, k)]
  <2>1. w[1] = p1 /\ w[2] = a2 /\ w[3] = a3 /\ w[4] = a4 /\ w[5] = a5 /\ w[6] = a6
    <3> HIDE DEF a2, a3, a4, a5, a6
    <3>1. QED
      OBVIOUS
  <2>2. w = [k \in 1 .. 6 |-> w[k]]
    <3> HIDE DEF a2, a3, a4, a5, a6
    <3>1. QED
      OBVIOUS
  <2> HIDE DEF w
  <2>3. /\ Extend(w, 2) = a2 /\ Extend(w, 3) = a3 /\ Extend(w, 4) = a4
        /\ Extend(w, 5) = a5 /\ Extend(w, 6) = a6
    <3>1. /\ Extend(w, 2) = w[1] \o <<SEP>> \o p2 /\ Extend(w, 3) = w[2] \o <<SEP>> \o p3
          /\ Extend(w, 4) = w[3] \o <<SEP>> \o p4 /\ Extend(w, 5) = w[4] \o <<SEP>> \o p5
          /\ Extend(w, 6) = w[5] \o <<SEP>> \o p6
      BY <1>2
    <3>2. QED
      BY <2>1, <3>1
  <2> HIDE DEF Extend, a2, a3, a4, a5, a6
  <2>4. t[1] = p1 /\ \A k \in 1 .. 6 : k # 1 => t[k] = Extend(w, k)
    BY <1>1, <1>2
  <2>5. t = [k \in 1 .. 6 |-> t[k]]
    BY <1>1
  <2> HIDE DEF t
  <2>6. \A k \in 1 .. 6 : k = 1 \/ k = 2 \/ k = 3 \/ k = 4 \/ k = 5 \/ k = 6
    OBVIOUS
  <2>7. \A k \in 1 .. 6 : w[k] = t[k]
    BY <2>1, <2>3, <2>4, <2>6
  <2>8. w = t
    BY <2>2, <2>5, <2>7
  <2>9. QED
    BY <2>8 DEF t
<1>5. IsUpTo(upTo)
  <2> HIDE DEF IsUpTo
  <2>1. QED
    BY <1>4
<1> HIDE DEF upTo
<1>6. upTo[1] = p1 /\ \A k \in 2 .. 6 : upTo[k] = Extend(upTo, k)
  <2>1. \A k \in 1 .. 6 : upTo[k] = IF k = 1 THEN parts[1] ELSE Extend(upTo, k)
    <3> HIDE DEF Extend
    <3>1. QED
      BY <1>1, <1>5
  <2>2. \A k \in 2 .. 6 : k \in 1 .. 6 /\ k # 1
    OBVIOUS
  <2> HIDE DEF Extend
  <2>3. QED
    BY <1>2, <2>1, <2>2
<1>7. /\ upTo[2] = upTo[1] \o <<SEP>> \o p2 /\ upTo[3] = upTo[2] \o <<SEP>> \o p3
      /\ upTo[4] = upTo[3] \o <<SEP>> \o p4 /\ upTo[5] = upTo[4] \o <<SEP>> \o p5
      /\ upTo[6] = upTo[5] \o <<SEP>> \o p6
  <2>1. 2 \in 2 .. 6 /\ 3 \in 2 .. 6 /\ 4 \in 2 .. 6 /\ 5 \in 2 .. 6 /\ 6 \in 2 .. 6
    OBVIOUS
  <2>2. /\ upTo[2] = Extend(upTo, 2) /\ upTo[3] = Extend(upTo, 3) /\ upTo[4] = Extend(upTo, 4)
        /\ upTo[5] = Extend(upTo, 5) /\ upTo[6] = Extend(upTo, 6)
    <3> HIDE DEF Extend
    <3>1. QED
      BY <1>6, <2>1
  <2>3. 2 - 1 = 1 /\ 3 - 1 = 2 /\ 4 - 1 = 3 /\ 5 - 1 = 4 /\ 6 - 1 = 5
    OBVIOUS
  <2>4. QED
    BY <1>2, <2>2, <2>3
<1>8. upTo[6] = a6
  <2>1. upTo[2] = a2
    BY <1>6, <1>7
  <2>2. upTo[3] = a3
    <3> HIDE DEF a2
    <3>1. QED
      BY <1>7, <2>1
  <2>3. upTo[4] = a4
    <3> HIDE DEF a3
    <3>1. QED
      BY <1>7, <2>2
  <2>4. upTo[5] = a5
    <3> HIDE DEF a4
    <3>1. QED
      BY <1>7, <2>3
  <2> HIDE DEF a5
  <2>5. QED
    BY <1>7, <2>4
<1>9. Join(parts) = a6
  BY <1>1, <1>3, <1>8
<1>10. QED
  BY <1>9 DEF parts, Joined

\* What is joined is the datagram.
LEMMA JoinIsDatagram ==
  ASSUME NEW o, NEW d, NEW c, NEW k, Plain(o, d, c, k), NEW m \in Seq(Symbols)
  PROVE  Join(<< <<P_DATA>>, <<o>>, <<d>>, <<c>>, <<k>>, m >>) = Datagram(o, d, c, k, m)
<1> DEFINE h == Header(o, d, c, k)
           p1 == <<P_DATA>>
           p2 == <<o>>
           p3 == <<d>>
           p4 == <<c>>
           p5 == <<k>>
<1>1. Join(<<p1, p2, p3, p4, p5, m>>) = Joined(p1, p2, p3, p4, p5, m)
  <2> HIDE DEF p1, p2, p3, p4, p5
  <2>1. QED
    BY JoinOfSix
<1>2. h \in Seq(Alphabet) /\ Len(h) = 10
  <2>1. P_DATA \in Alphabet /\ SEP \in Alphabet /\ o \in Alphabet /\ d \in Alphabet
        /\ c \in Alphabet /\ k \in Alphabet
    BY PlainIs
  <2>2. QED
    BY <2>1 DEF Header
<1>3. /\ h[1] = P_DATA /\ h[3] = o /\ h[5] = d /\ h[7] = c /\ h[9] = k
      /\ h[2] = SEP /\ h[4] = SEP /\ h[6] = SEP /\ h[8] = SEP /\ h[10] = SEP
  BY DEF Header
<1> HIDE DEF h
<1>4. \A n \in 2 .. 10 : SubSeq(h, 1, n) = SubSeq(h, 1, n - 1) \o <<h[n]>>
  <2>1. TAKE n \in 2 .. 10
  <2>2. 1 \in 1 .. Len(h) /\ n \in 1 .. Len(h)
    BY <1>2
  <2>3. QED
    BY <1>2, <2>2, SubSeqRecursiveSecond
<1>5. /\ SubSeq(h, 1, 2) = SubSeq(h, 1, 1) \o <<SEP>> /\ SubSeq(h, 1, 3) = SubSeq(h, 1, 2) \o <<o>>
      /\ SubSeq(h, 1, 4) = SubSeq(h, 1, 3) \o <<SEP>> /\ SubSeq(h, 1, 5) = SubSeq(h, 1, 4) \o <<d>>
      /\ SubSeq(h, 1, 6) = SubSeq(h, 1, 5) \o <<SEP>> /\ SubSeq(h, 1, 7) = SubSeq(h, 1, 6) \o <<c>>
      /\ SubSeq(h, 1, 8) = SubSeq(h, 1, 7) \o <<SEP>> /\ SubSeq(h, 1, 9) = SubSeq(h, 1, 8) \o <<k>>
      /\ SubSeq(h, 1, 10) = SubSeq(h, 1, 9) \o <<SEP>>
  <2>1. /\ 2 \in 2 .. 10 /\ 3 \in 2 .. 10 /\ 4 \in 2 .. 10 /\ 5 \in 2 .. 10 /\ 6 \in 2 .. 10
        /\ 7 \in 2 .. 10 /\ 8 \in 2 .. 10 /\ 9 \in 2 .. 10 /\ 10 \in 2 .. 10
    OBVIOUS
  <2>2. /\ 2 - 1 = 1 /\ 3 - 1 = 2 /\ 4 - 1 = 3 /\ 5 - 1 = 4 /\ 6 - 1 = 5
        /\ 7 - 1 = 6 /\ 8 - 1 = 7 /\ 9 - 1 = 8 /\ 10 - 1 = 9
    OBVIOUS
  <2>3. /\ SubSeq(h, 1, 2) = SubSeq(h, 1, 2 - 1) \o <<h[2]>>
        /\ SubSeq(h, 1, 3) = SubSeq(h, 1, 3 - 1) \o <<h[3]>>
        /\ SubSeq(h, 1, 4) = SubSeq(h, 1, 4 - 1) \o <<h[4]>>
        /\ SubSeq(h, 1, 5) = SubSeq(h, 1, 5 - 1) \o <<h[5]>>
        /\ SubSeq(h, 1, 6) = SubSeq(h, 1, 6 - 1) \o <<h[6]>>
        /\ SubSeq(h, 1, 7) = SubSeq(h, 1, 7 - 1) \o <<h[7]>>
        /\ SubSeq(h, 1, 8) = SubSeq(h, 1, 8 - 1) \o <<h[8]>>
        /\ SubSeq(h, 1, 9) = SubSeq(h, 1, 9 - 1) \o <<h[9]>>
        /\ SubSeq(h, 1, 10) = SubSeq(h, 1, 10 - 1) \o <<h[10]>>
    BY <1>4, <2>1, Zenon
  <2>4. QED
    BY <1>3, <2>2, <2>3, Zenon
<1>6. SubSeq(h, 1, 10) = h
  <2>1. SubSeq(h, 1, Len(h)) = h
    BY <1>2, SubSeqFull
  <2>2. QED
    BY <1>2, <2>1
<1>7. SubSeq(h, 1, 1) = <<P_DATA>>
  <2>1. 1 \in 1 .. Len(h)
    BY <1>2
  <2>2. QED
    BY <1>2, <1>3, <2>1, Piece
<1>8. p1 \o <<SEP>> \o p2 \o <<SEP>> \o p3 \o <<SEP>> \o p4 \o <<SEP>> \o p5 \o <<SEP>> = h
  BY <1>5, <1>6, <1>7, Zenon
<1>9. Join(<<p1, p2, p3, p4, p5, m>>) = h \o m
  <2> HIDE DEF p1, p2, p3, p4, p5
  <2>1. QED
    BY <1>1, <1>8 DEF Joined
<1>10. QED
  BY <1>9, Zenon DEF Datagram, h

-----------------------------------------------------------------------------
\* The NUL another program appends, and the parser drops

LEMMA NulAppended ==
  ASSUME NEW S, NEW s \in Seq(S), NEW e \in S
  PROVE  /\ Append(s, e) # <<>> /\ Last(Append(s, e)) = e /\ Front(Append(s, e)) = s
         /\ WithoutNul(Append(s, NUL)) = s
<1> DEFINE a(x) == Append(s, x)
<1>1. ASSUME NEW x
      PROVE  a(x) # <<>> /\ Last(a(x)) = x /\ Front(a(x)) = s
  <2> DEFINE T == S \cup {x}
             t == a(x)
             f == SubSeq(t, 1, Len(s))
  <2>1. s \in Seq(T)
    BY SeqMonotonic
  <2>2. Len(s) \in Nat
    BY LenProperties
  <2>3. /\ t \in Seq(T) /\ t # <<>> /\ Len(t) = Len(s) + 1
        /\ (\A i \in 1 .. Len(s) : t[i] = s[i]) /\ t[Len(s) + 1] = x
    <3>1. x \in T
      OBVIOUS
    <3> HIDE DEF T
    <3>2. QED
      BY <2>1, <3>1, AppendProperties
  <2> HIDE DEF t, T
  <2>4. Len(t) - 1 = Len(s) /\ Last(t) = x
    BY <2>2, <2>3 DEF Last
  <2>5. f \in Seq(T) /\ Len(f) = Len(s) /\ \A i \in 1 .. Len(s) : f[i] = t[i]
    <3>1. 1 \in Int /\ Len(s) \in Int /\ \A i \in 1 .. Len(s) : t[i] \in T
      <4>1. \A i \in 1 .. Len(s) : s[i] \in T
        BY <2>1, ElementOfSeq
      <4>2. QED
        BY <2>2, <2>3, <4>1
    <3>2. /\ f \in Seq(T) /\ Len(f) = (IF 1 <= Len(s) THEN Len(s) - 1 + 1 ELSE 0)
          /\ \A i \in 1 .. Len(s) - 1 + 1 : f[i] = t[1 + i - 1]
      BY <3>1, SubSeqProperties
    <3> HIDE DEF f
    <3>3. Len(f) = Len(s) /\ Len(s) - 1 + 1 = Len(s) /\ \A i \in 1 .. Len(s) : 1 + i - 1 = i
      BY <2>2, <3>2
    <3>4. QED
      BY <3>2, <3>3
  <2> HIDE DEF f
  <2>6. f = s
    BY <2>1, <2>3, <2>5, SeqEqual
  <2>7. Front(t) = s
    BY <2>4, <2>6 DEF Front, f
  <2>8. QED
    BY <2>3, <2>4, <2>7 DEF t
<1> HIDE DEF a
<1>2. WithoutNul(a(NUL)) = s
  BY <1>1 DEF WithoutNul
<1>3. QED
  BY <1>1, <1>2 DEF a

\* It has it or has it not.
LEMMA NulOrNot ==
  ASSUME NEW m \in Seq(Symbols)
  PROVE  /\ WithoutNul(m) \in Seq(Symbols) /\ Append(m, NUL) \in Seq(Symbols)
         /\ \/ WithoutNul(m) = m /\ (m = <<>> \/ Last(m) # NUL)
            \/ m = Append(WithoutNul(m), NUL)
<1>1. NUL \in Symbols
  BY PacketSymbols
<1>2. Append(m, NUL) \in Seq(Symbols)
  BY <1>1, AppendProperties
<1>3. CASE m = <<>> \/ Last(m) # NUL
  BY <1>2, <1>3 DEF WithoutNul
<1>4. CASE ~(m = <<>> \/ Last(m) # NUL)
  <2>1. PICK s \in Seq(Symbols), e \in Symbols : m = Append(s, e)
    BY <1>4, SequenceEmptyOrAppend
  <2>2. e = NUL
    BY <1>4, <2>1, NulAppended
  <2>3. WithoutNul(m) = s
    BY <2>1, <2>2, NulAppended
  <2>4. QED
    BY <1>2, <2>1, <2>2, <2>3
<1>5. QED
  BY <1>3, <1>4

LEMMA AppendToDatagram ==
  ASSUME NEW o, NEW d, NEW c, NEW k, Plain(o, d, c, k), NEW m \in Seq(Symbols)
  PROVE  /\ Append(Datagram(o, d, c, k, m), NUL) = Datagram(o, d, c, k, Append(m, NUL))
         /\ Datagram(o, d, c, k, m) \o <<NUL>> = Datagram(o, d, c, k, Append(m, NUL))
<1> DEFINE h == Header(o, d, c, k)
<1>1. /\ P_DATA \in Alphabet /\ SEP \in Alphabet /\ o \in Alphabet /\ d \in Alphabet
      /\ c \in Alphabet /\ k \in Alphabet /\ NUL \in Alphabet /\ Symbols \subseteq Alphabet
  BY PlainIs
<1>2. h \in Seq(Alphabet)
  BY <1>1 DEF Header
<1>3. m \in Seq(Alphabet) /\ <<NUL>> \in Seq(Alphabet)
  BY <1>1, SeqMonotonic
<1> HIDE DEF h
<1>4. h \o m \in Seq(Alphabet)
  BY <1>2, <1>3, ConcatProperties
<1>5. Append(h \o m, NUL) = (h \o m) \o <<NUL>>
  BY <1>1, <1>4, AppendIsConcat
<1>6. Append(m, NUL) = m \o <<NUL>>
  BY <1>1, <1>3, AppendIsConcat
<1>7. (h \o m) \o <<NUL>> = h \o (m \o <<NUL>>)
  BY <1>2, <1>3, ConcatAssociative
<1>8. QED
  BY <1>5, <1>6, <1>7, Zenon DEF Datagram, h

LEMMA WithoutNulOfDatagram ==
  ASSUME NEW o, NEW d, NEW c, NEW k, Plain(o, d, c, k), NEW m \in Seq(Symbols)
  PROVE  WithoutNul(Datagram(o, d, c, k, m)) = Datagram(o, d, c, k, WithoutNul(m))
<1> DEFINE r == Datagram(o, d, c, k, m)
           w == WithoutNul(m)
<1>1. r \in Seq(Alphabet) /\ Len(r) = 10 + Len(m)
  BY DatagramIs
<1>2. CASE w = m /\ (m = <<>> \/ Last(m) # NUL)
  <2>1. Len(m) \in Nat
    BY LenProperties
  <2>2. Last(r) # NUL
    <3>1. CASE m = <<>>
      <4>1. r[10] = SEP
        BY DatagramIs
      <4>2. Len(r) = 10
        BY <1>1, <3>1
      <4>3. QED
        BY <4>1, <4>2, PacketSymbols DEF Last
    <3>2. CASE m # <<>>
      <4>1. Len(m) \in 1 .. Len(m)
        BY <2>1, <3>2, EmptySeq
      <4>2. \A j \in 1 .. Len(m) : r[10 + j] = m[j]
        BY DatagramIs
      <4> HIDE DEF r
      <4>3. QED
        BY <1>1, <1>2, <3>2, <4>1, <4>2 DEF Last
    <3>3. QED
      BY <3>1, <3>2
  <2> HIDE DEF r, w
  <2>3. WithoutNul(r) = r
    BY <2>2 DEF WithoutNul
  <2>4. QED
    BY <1>2, <2>3, Zenon DEF r, w
<1>3. CASE m = Append(w, NUL)
  <2>1. w \in Seq(Symbols)
    BY NulOrNot
  <2> DEFINE q == Datagram(o, d, c, k, w)
  <2>2. q \in Seq(Alphabet)
    BY <2>1, DatagramIs
  <2>3. Append(q, NUL) = Datagram(o, d, c, k, Append(w, NUL))
    BY <2>1, AppendToDatagram
  <2>4. NUL \in Alphabet
    BY PlainIs
  <2> HIDE DEF q, w
  <2>5. WithoutNul(Append(q, NUL)) = q
    BY <2>2, <2>4, NulAppended
  <2>6. QED
    BY <1>3, <2>3, <2>5, Zenon DEF q, w
<1>4. QED
  BY <1>2, <1>3, NulOrNot

-----------------------------------------------------------------------------
\* What machines make of it

LEMMA BuildDataIs ==
  ASSUME NEW o, NEW d, NEW c, NEW k, Plain(o, d, c, k), NEW m \in Seq(Symbols)
  PROVE  BuildData(<<o>>, <<d>>, <<c>>, <<k>>, m) = Datagram(o, d, c, k, m)
BY JoinIsDatagram DEF BuildData

\* The answer goes where the answer was, and nowhere else.
LEMMA SetControleIs ==
  ASSUME NEW o, NEW d, NEW c, NEW k, Plain(o, d, c, k), NEW m \in Seq(Symbols),
         NEW c2 \in Controls
  PROVE  /\ Plain(o, d, c2, k)
         /\ SetControle(Datagram(o, d, c, k, m), c2) = Datagram(o, d, c2, k, m)
<1> DEFINE r == Datagram(o, d, c, k, m)
           p1 == <<P_DATA>>
           p2 == <<o>>
           p3 == <<d>>
           p4 == <<c>>
           p5 == <<k>>
           q4 == <<c2>>
<1>1. Plain(o, d, c2, k)
  BY DEF Plain
<1>2. Split(r, 5) = <<p1, p2, p3, p4, p5, m>>
  BY PartsOfDatagram
<1>3. Join(<<p1, p2, p3, q4, p5, m>>) = Datagram(o, d, c2, k, m)
  BY <1>1, JoinIsDatagram
<1> HIDE DEF r, p1, p2, p3, p4, p5, q4
<1> DEFINE six == <<p1, p2, p3, p4, p5, m>>
           other == <<p1, p2, p3, q4, p5, m>>
<1>4. Len(six) = 6
  OBVIOUS
<1>5. [six EXCEPT ![4] = q4] = other
  OBVIOUS
<1>6. Split(r, 5) = six /\ Join(other) = Datagram(o, d, c2, k, m)
  BY <1>2, <1>3
<1> HIDE DEF six, other
<1>7. SetControle(r, c2) = Datagram(o, d, c2, k, m)
  <2>1. [Split(r, 5) EXCEPT ![4] = <<c2>>] = other
    BY <1>5, <1>6, Zenon DEF q4
  <2>2. Len(Split(r, 5)) = 6
    BY <1>4, <1>6, Zenon
  <2>3. ~(6 < 6)
    OBVIOUS
  <2>4. ~(Len(Split(r, 5)) < 6)
    BY <2>2, <2>3, Zenon
  <2>5. QED
    BY <1>6, <2>1, <2>4, Zenon DEF SetControle
<1>8. QED
  BY <1>1, <1>7 DEF r

\* As what a datagram of DATA is read.
Read(o, d, c, k, m) ==
  [type |-> "DATA", origem |-> <<o>>, destino |-> <<d>>, controle |-> <<c>>, crc |-> <<k>>,
   message |-> m, raw |-> Datagram(o, d, c, k, m)]

LEMMA ParseIs ==
  ASSUME NEW o, NEW d, NEW c, NEW k, Plain(o, d, c, k), NEW m \in Seq(Symbols),
         Upper[o] = o, Upper[d] = d
  PROVE  Parse(Datagram(o, d, c, k, m)) = Read(o, d, c, k, WithoutNul(m))
<1> DEFINE w == WithoutNul(m)
           r == Datagram(o, d, c, k, w)
           p1 == <<P_DATA>>
           p2 == <<o>>
           p3 == <<d>>
           p4 == <<c>>
           p5 == <<k>>
<1>1. WithoutNul(Datagram(o, d, c, k, m)) = r
  BY WithoutNulOfDatagram
<1>2. w \in Seq(Symbols)
  BY NulOrNot
<1>3. r \in Seq(Alphabet) /\ Len(r) = 10 + Len(w) /\ Len(w) \in Nat
  BY <1>2, DatagramIs
<1>4. Split(r, 5) = <<p1, p2, p3, p4, p5, w>>
  BY <1>2, PartsOfDatagram
<1>5. Split(r, 1)[1] = <<P_DATA>>
  BY <1>2, PrefixOfDatagram
<1>6. SepAt(r) # {}
  <2>1. DOMAIN r = 1 .. 10 + Len(w) /\ r[2] = SEP
    BY <1>2, DatagramIs
  <2> HIDE DEF r, w
  <2>2. 2 \in DOMAIN r
    BY <1>3, <2>1
  <2>3. QED
    BY <2>1, <2>2 DEF SepAt
<1>7. r # BuildToken
  <2>1. Len(BuildToken) = 1
    BY DEF BuildToken
  <2> HIDE DEF r, w
  <2>2. Len(r) # 1
    BY <1>3
  <2>3. QED
    BY <2>1, <2>2, Zenon
<1>8. Normalised(p2) = p2 /\ Normalised(p3) = p3
  BY DEF Normalised
<1> HIDE DEF r, p1, p2, p3, p4, p5, w
<1>9. ParseData(r) = [type |-> "DATA", origem |-> p2, destino |-> p3, controle |-> p4, crc |-> p5,
                      message |-> w, raw |-> r]
  <2> DEFINE parts == <<p1, p2, p3, p4, p5, w>>
  <2>1. /\ ~(Len(parts) < 6) /\ parts[2] = p2 /\ parts[3] = p3 /\ parts[4] = p4 /\ parts[5] = p5
        /\ parts[6] = w
    OBVIOUS
  <2>2. Split(r, 5) = parts
    BY <1>4
  <2> HIDE DEF parts
  <2>3. QED
    BY <1>8, <2>1, <2>2 DEF ParseData
<1>10. <<P_DATA>> \notin {<<P_DISCOVER>>, <<P_HELLO>>}
  BY DEF P_DATA, P_DISCOVER, P_HELLO
<1>11. Parse(Datagram(o, d, c, k, m)) = ParseData(r)
  BY <1>1, <1>5, <1>6, <1>7, <1>10 DEF Parse
<1>12. QED
  BY <1>9, <1>11 DEF Read, r, p2, p3, p4, p5, w

-----------------------------------------------------------------------------
\* The invariant

\* The machines that have read the DATA when it is on its way to place i.
Visited(i) == IF i = 0 THEN 1 .. Hops ELSE 1 .. i - 1
Found(i) == \E j \in Visited(i) : Nick[j] = destino

\* What the field of the answer says then.
Verdict(i) == IF Found(i) THEN IF last = text THEN CTRL_ACK ELSE CTRL_NAK ELSE CTRL_NONE

\* The message as transmitted has no NUL at its end to lose.
Uncut == Last(last) # NUL

Flight(c, m) ==
  /\ wire = Datagram(Nick[0], destino, c, CrcField(text), m)
  /\ Uncut => WithoutNul(m) = last /\ c = Verdict(at)

TypesOK ==
  /\ text \in Texts
  /\ destino \in Symbols /\ Upper[destino] = destino /\ destino # SEP
  /\ head \in [queued : BOOLEAN, skip_fault_injection : BOOLEAN, retransmit_used : BOOLEAN]
  /\ at \in 0 .. Hops
  /\ lost \in Nat

\* A message that was sent twice is spared the second time.
FlagsInv == head.retransmit_used => head.skip_fault_injection

\* While the origin waits it knows what it sent, and the DATA is on its way
\* unless it was lost or cut.
SentInv ==
  sent # None =>
    /\ sent = [destino |-> <<destino>>, crc |-> <<CrcField(text)>>, message |-> last]
    /\ last \in Seq(Symbols) /\ last # <<>>
    /\ head.queued
    /\ head.skip_fault_injection \/ destino = BROADCAST => last = text
    /\ wire = None => lost > 0 \/ ~Uncut

\* The DATA on its way has the fields of the message sent, and the answer of
\* the machines it passed.
FlightInv ==
  wire # None => sent # None /\ \E c \in Controls, m \in Seq(Symbols) : Flight(c, m)

WireInv ==
  /\ TypesOK
  /\ FlagsInv
  /\ SentInv
  /\ FlightInv
  /\ destino = BROADCAST => answer # CTRL_NAK
  /\ AckMeansIntact
  /\ DeliveredUnlessCut

-----------------------------------------------------------------------------
LEMMA FieldsOK ==
  ASSUME TypesOK, NEW c \in Controls
  PROVE  /\ Plain(Nick[0], destino, c, CrcField(text))
         /\ Upper[Nick[0]] = Nick[0] /\ Upper[destino] = destino
         /\ text \in Seq(Symbols) /\ text # <<>> /\ Last(text) # NUL
<1>1. 0 \in 0 .. Hops
  BY WirePlaces
<1>2. Nick[0] \in Symbols /\ Upper[Nick[0]] = Nick[0] /\ Nick[0] # SEP
  BY <1>1, WirePlaces, WireNicknames
<1>3. text \in Seq(Symbols) /\ text # <<>> /\ Last(text) # NUL
  BY WireTexts DEF TypesOK
<1>4. CrcField(text) \in [crc : Seq(Symbols)]
  BY <1>3 DEF CrcField
<1>5. QED
  BY <1>2, <1>3, <1>4 DEF Plain, TypesOK

\* The fields of what machines read.
LEMMA ReadIs ==
  ASSUME NEW o, NEW d, NEW c, NEW k, NEW m
  PROVE  LET p == Read(o, d, c, k, m)
         IN /\ p.type = "DATA" /\ p.origem = <<o>> /\ p.destino = <<d>> /\ p.controle = <<c>>
            /\ p.crc = <<k>> /\ p.message = m /\ p.raw = Datagram(o, d, c, k, m)
BY DEF Read

\* Any datagram on its way is read as the message sent, with an answer.
LEMMA OnItsWay ==
  ASSUME TypesOK, FlightInv, wire # None
  PROVE  \E c \in Controls, m \in Seq(Symbols) :
           /\ Flight(c, m) /\ WithoutNul(m) \in Seq(Symbols)
           /\ Parse(wire) = Read(Nick[0], destino, c, CrcField(text), WithoutNul(m))
<1>1. PICK c \in Controls, m \in Seq(Symbols) : Flight(c, m)
  BY DEF FlightInv
<1>2. Plain(Nick[0], destino, c, CrcField(text)) /\ Upper[Nick[0]] = Nick[0] /\ Upper[destino] = destino
  BY FieldsOK
<1>3. wire = Datagram(Nick[0], destino, c, CrcField(text), m)
  BY <1>1 DEF Flight
<1>4. Parse(wire) = Read(Nick[0], destino, c, CrcField(text), WithoutNul(m))
  BY <1>2, <1>3, ParseIs
<1>5. WithoutNul(m) \in Seq(Symbols)
  BY NulOrNot
<1>6. QED
  BY <1>1, <1>4, <1>5

\* What a machine sends is a datagram, of the same message unless it ends in NUL.
LEMMA SentOn ==
  ASSUME TypesOK, NEW i \in 0 .. Hops, NEW c \in Controls, NEW w \in Seq(Symbols),
         Sends(i, Datagram(Nick[0], destino, c, CrcField(text), w))
  PROVE  /\ at' = After(i) /\ at' \in 0 .. Hops /\ wire' # None
         /\ \E m \in Seq(Symbols) :
              /\ wire' = Datagram(Nick[0], destino, c, CrcField(text), m)
              /\ w # <<>> /\ Last(w) # NUL => WithoutNul(m) = w
<1> DEFINE d(m) == Datagram(Nick[0], destino, c, CrcField(text), m)
<1>1. Plain(Nick[0], destino, c, CrcField(text))
  BY FieldsOK
<1>2. NUL \in Symbols /\ Append(w, NUL) \in Seq(Symbols)
  BY PacketSymbols, NulOrNot
<1>3. Append(d(w), NUL) = d(Append(w, NUL))
  BY <1>1, AppendToDatagram
<1>4. WithoutNul(Append(w, NUL)) = w
  BY <1>2, NulAppended
<1>5. w # <<>> /\ Last(w) # NUL => WithoutNul(w) = w
  BY DEF WithoutNul
<1>6. \A m \in Seq(Symbols) : d(m) # None
  <2>1. \A m \in Seq(Symbols) : d(m) \in Seq(Alphabet)
    BY <1>1, DatagramIs
  <2> HIDE DEF d
  <2>2. QED
    BY <2>1, WireNone
<1> HIDE DEF d
<1>7. wire' = (IF i \in Foreign THEN Append(d(w), NUL) ELSE d(w)) /\ at' = After(i)
  BY Zenon DEF Sends, d
<1>8. at' \in 0 .. Hops
  BY <1>7, WirePlaces DEF After
<1>9. \E m \in Seq(Symbols) : wire' = d(m) /\ (w # <<>> /\ Last(w) # NUL => WithoutNul(m) = w)
  <2>1. CASE i \in Foreign
    BY <1>2, <1>3, <1>4, <1>7, <2>1
  <2>2. CASE i \notin Foreign
    BY <1>5, <1>7, <2>2
  <2>3. QED
    BY <2>1, <2>2
<1>10. QED
  BY <1>6, <1>7, <1>8, <1>9 DEF d

LEMMA CorruptedIs ==
  ASSUME NEW t \in Seq(Symbols), t # <<>>, NEW skip, NEW u \in MaybeCorrupt(t, skip)
  PROVE  u \in Seq(Symbols) /\ u # <<>> /\ (skip => u = t)
<1>1. CASE u = t
  BY <1>1
<1>2. CASE u # t
  <2>1. ~skip /\ \E i \in DOMAIN t, b \in Flips : u = [t EXCEPT ![i] = b]
    BY <1>2 DEF MaybeCorrupt
  <2>2. PICK i \in DOMAIN t, b \in Flips : u = [t EXCEPT ![i] = b]
    BY <2>1
  <2>3. DOMAIN t = 1 .. Len(t) /\ b \in Symbols
    BY LenProperties, WireFlips
  <2>4. u \in Seq(Symbols) /\ Len(u) = Len(t)
    BY <2>2, <2>3, ExceptSeq
  <2>5. u # <<>>
    BY <2>4, EmptySeq
  <2>6. QED
    BY <2>1, <2>4, <2>5
<1>3. QED
  BY <1>1, <1>2

-----------------------------------------------------------------------------
\* Every action keeps it

LEMMA InitHolds == Init => WireInv
<1> SUFFICES ASSUME Init PROVE WireInv
  OBVIOUS
<1>1. TypesOK
  <2>1. PICK typed \in Spellings : destino = Upper[typed]
    BY DEF Init
  <2>2. typed \in Symbols /\ destino # SEP
    BY <2>1, WireDestinations
  <2>3. destino \in Symbols /\ Upper[destino] = destino
    BY <2>1, <2>2, PacketUpper
  <2>4. 0 \in 0 .. Hops
    BY WirePlaces
  <2>5. QED
    BY <2>2, <2>3, <2>4 DEF Init, TypesOK
<1>2. FlagsInv /\ SentInv /\ FlightInv /\ DeliveredUnlessCut
  BY DEF Init, FlagsInv, SentInv, FlightInv, DeliveredUnlessCut
<1>3. answer # CTRL_ACK /\ answer # CTRL_NAK
  BY WireNone DEF Init, Controls
<1>4. AckMeansIntact
  BY <1>3 DEF Init, AckMeansIntact
<1>5. QED
  BY <1>1, <1>2, <1>3, <1>4 DEF WireInv

LEMMA SendKeeps == ASSUME WireInv, SendDataPacket PROVE WireInv'
<1> DEFINE skip == head.skip_fault_injection \/ destino = BROADCAST
<1>1. TypesOK /\ FlagsInv
  BY DEF WireInv
<1>2. PICK msg_out \in MaybeCorrupt(text, skip) :
        /\ Sends(0, BuildData(<<Nick[0]>>, <<destino>>, <<CTRL_NONE>>, <<CrcField(text)>>, msg_out))
        /\ sent' = [destino |-> <<destino>>, crc |-> <<CrcField(text)>>, message |-> msg_out]
        /\ last' = msg_out
  BY DEF SendDataPacket
<1>3. /\ head.queued /\ answer' = None /\ shown' = None
      /\ UNCHANGED <<destino, text, head, outcome, lost>>
  BY DEF SendDataPacket
<1>4. CTRL_NONE \in Controls /\ 0 \in 0 .. Hops
  BY WirePlaces DEF Controls
<1>5. /\ Plain(Nick[0], destino, CTRL_NONE, CrcField(text))
      /\ text \in Seq(Symbols) /\ text # <<>>
  BY <1>1, <1>4, FieldsOK
<1> HIDE DEF skip
<1>6. msg_out \in Seq(Symbols) /\ msg_out # <<>> /\ (skip => msg_out = text)
  BY <1>5, CorruptedIs
<1>7. Sends(0, Datagram(Nick[0], destino, CTRL_NONE, CrcField(text), msg_out))
  <2>1. BuildData(<<Nick[0]>>, <<destino>>, <<CTRL_NONE>>, <<CrcField(text)>>, msg_out)
          = Datagram(Nick[0], destino, CTRL_NONE, CrcField(text), msg_out)
    BY <1>5, <1>6, BuildDataIs
  <2>2. QED
    BY <1>2, <2>1, Zenon
<1>8. /\ at' = After(0) /\ at' \in 0 .. Hops /\ wire' # None
      /\ \E m \in Seq(Symbols) :
           /\ wire' = Datagram(Nick[0], destino, CTRL_NONE, CrcField(text), m)
           /\ msg_out # <<>> /\ Last(msg_out) # NUL => WithoutNul(m) = msg_out
  BY <1>1, <1>4, <1>6, <1>7, SentOn
<1>9. sent' # None
  <2>1. \A c \in Alphabet : <<c>> \in Seq(Alphabet)
    OBVIOUS
  <2>2. destino \in Alphabet /\ CrcField(text) \in Alphabet /\ Symbols \subseteq Alphabet
    BY <1>5, PlainIs
  <2>3. msg_out \in Seq(Alphabet)
    BY <1>6, <2>2, SeqMonotonic
  <2>4. sent' \in [destino : Seq(Alphabet), crc : Seq(Alphabet), message : Seq(Alphabet)]
    BY <1>2, <2>1, <2>2, <2>3
  <2>5. QED
    BY <2>4, WireNone
<1>10. TypesOK'
  BY <1>1, <1>3, <1>8 DEF TypesOK
<1>11. FlagsInv'
  BY <1>1, <1>3 DEF FlagsInv
<1>12. SentInv'
  <2>1. head'.skip_fault_injection \/ destino' = BROADCAST => last' = text'
    BY <1>2, <1>3, <1>6 DEF skip
  <2>2. QED
    BY <1>2, <1>3, <1>6, <1>8, <2>1 DEF SentInv
<1>13. FlightInv'
  <2>1. PICK m \in Seq(Symbols) :
          /\ wire' = Datagram(Nick[0], destino, CTRL_NONE, CrcField(text), m)
          /\ Last(msg_out) # NUL => WithoutNul(m) = msg_out
    BY <1>6, <1>8
  <2>2. ~Found(at)'
    BY <1>8, WirePlaces DEF Found, Visited, After
  <2>3. Verdict(at)' = CTRL_NONE
    BY <2>2 DEF Verdict
  <2>4. Flight(CTRL_NONE, m)'
    BY <1>2, <1>3, <2>1, <2>3 DEF Flight, Uncut
  <2>5. QED
    BY <1>4, <1>9, <2>4 DEF FlightInv
<1>14. (answer # CTRL_NAK)' /\ AckMeansIntact'
  <2>1. None # CTRL_ACK /\ None # CTRL_NAK
    BY WireNone DEF Controls
  <2>2. QED
    BY <1>3, <2>1 DEF AckMeansIntact
<1>15. DeliveredUnlessCut'
  BY <1>3 DEF DeliveredUnlessCut, Delivered
<1>16. QED
  BY <1>10, <1>11, <1>12, <1>13, <1>14, <1>15 DEF WireInv

\* The machines that have read it are one more when it is sent on.
LEMMA OneMoreVisited ==
  ASSUME TypesOK, at # 0, at' = After(at), UNCHANGED <<destino, text, last>>
  PROVE  /\ Nick[at] # destino => Verdict(at)' = Verdict(at)
         /\ Nick[at] = destino => Verdict(at)' = IF last = text THEN CTRL_ACK ELSE CTRL_NAK
<1>1. Visited(at)' = Visited(at) \cup {at}
  BY WirePlaces DEF Visited, After, TypesOK
<1>2. Found(at)' <=> Found(at) \/ Nick[at] = destino
  BY <1>1 DEF Found
<1>3. QED
  BY <1>2 DEF Verdict

LEMMA ForwardKeeps == ASSUME WireInv, Forward PROVE WireInv'
<1>1. TypesOK /\ FlagsInv /\ SentInv /\ FlightInv /\ AckMeansIntact
  BY DEF WireInv
<1>2. wire # None /\ at # 0 /\ UNCHANGED <<destino, text, head, sent, answer, outcome, last, lost>>
  BY DEF Forward
<1>3. PICK c \in Controls, m \in Seq(Symbols) :
        /\ Flight(c, m) /\ WithoutNul(m) \in Seq(Symbols)
        /\ Parse(wire) = Read(Nick[0], destino, c, CrcField(text), WithoutNul(m))
  BY <1>1, <1>2, OnItsWay
<1> DEFINE p == Parse(wire)
           w == WithoutNul(m)
<1>4. /\ p.destino # <<Nick[at]>> /\ Sends(at, p.raw)
      /\ shown' = IF p.destino = <<BROADCAST>> THEN p.message ELSE shown
  BY DEF Forward
<1>5. p.destino = <<destino>> /\ p.message = w /\ p.raw = Datagram(Nick[0], destino, c, CrcField(text), w)
  BY <1>3, ReadIs
<1> HIDE DEF p, w
<1>6. Sends(at, Datagram(Nick[0], destino, c, CrcField(text), w)) /\ Nick[at] # destino
  BY <1>4, <1>5
<1>7. shown' = IF destino = BROADCAST THEN w ELSE shown
  <2>1. <<destino>> = <<BROADCAST>> <=> destino = BROADCAST
    OBVIOUS
  <2>2. QED
    BY <1>4, <1>5, <2>1
<1>8. at \in 0 .. Hops /\ w \in Seq(Symbols)
  BY <1>1, <1>3 DEF TypesOK, w
<1>9. /\ at' = After(at) /\ at' \in 0 .. Hops /\ wire' # None
      /\ \E m2 \in Seq(Symbols) :
           /\ wire' = Datagram(Nick[0], destino, c, CrcField(text), m2)
           /\ w # <<>> /\ Last(w) # NUL => WithoutNul(m2) = w
  BY <1>1, <1>6, <1>8, SentOn
<1>10. Verdict(at)' = Verdict(at)
  BY <1>1, <1>2, <1>6, <1>9, OneMoreVisited
<1>11. sent # None /\ last # <<>> /\ (destino = BROADCAST => last = text)
  BY <1>1, <1>2 DEF FlightInv, SentInv
<1>12. Uncut => w = last /\ c = Verdict(at)
  BY <1>3 DEF Flight, w
<1>13. TypesOK' /\ FlagsInv' /\ SentInv'
  BY <1>1, <1>2, <1>9 DEF TypesOK, FlagsInv, SentInv, Uncut
<1>14. FlightInv'
  <2>1. PICK m2 \in Seq(Symbols) :
          /\ wire' = Datagram(Nick[0], destino, c, CrcField(text), m2)
          /\ w # <<>> /\ Last(w) # NUL => WithoutNul(m2) = w
    BY <1>9
  <2>2. Uncut => WithoutNul(m2) = last
    BY <1>11, <1>12, <2>1 DEF Uncut
  <2>3. Flight(c, m2)'
    BY <1>2, <1>10, <1>12, <2>1, <2>2 DEF Flight, Uncut
  <2>4. QED
    BY <1>2, <1>11, <2>3 DEF FlightInv
<1>15. AckMeansIntact'
  <2>1. CASE destino = BROADCAST
    <3>1. Uncut
      BY <1>1, <1>11, <2>1, FieldsOK DEF Uncut, Controls
    <3>2. shown' = text
      BY <1>7, <1>11, <1>12, <2>1, <3>1
    <3>3. answer # CTRL_NAK
      BY <2>1 DEF WireInv
    <3>4. QED
      BY <1>2, <3>2, <3>3 DEF AckMeansIntact
  <2>2. CASE destino # BROADCAST
    BY <1>1, <1>2, <1>7, <2>2 DEF AckMeansIntact
  <2>3. QED
    BY <2>1, <2>2
<1>16. (destino = BROADCAST => answer # CTRL_NAK)'
  BY <1>2 DEF WireInv
<1>17. DeliveredUnlessCut'
  BY <1>2 DEF WireInv, DeliveredUnlessCut, Delivered
<1>18. QED
  BY <1>13, <1>14, <1>15, <1>16, <1>17 DEF WireInv

LEMMA AnswerKeeps == ASSUME WireInv, Answer PROVE WireInv'
<1>1. TypesOK /\ FlagsInv /\ SentInv /\ FlightInv
  BY DEF WireInv
<1>2. wire # None /\ at # 0 /\ UNCHANGED <<destino, text, head, sent, outcome, last, lost>>
  BY DEF Answer
<1>3. PICK c \in Controls, m \in Seq(Symbols) :
        /\ Flight(c, m) /\ WithoutNul(m) \in Seq(Symbols)
        /\ Parse(wire) = Read(Nick[0], destino, c, CrcField(text), WithoutNul(m))
  BY <1>1, <1>2, OnItsWay
<1> DEFINE p == Parse(wire)
           w == WithoutNul(m)
           controle == IF CrcMatches(p.message, p.crc) THEN CTRL_ACK ELSE CTRL_NAK
           c2 == IF w = text THEN CTRL_ACK ELSE CTRL_NAK
<1>4. /\ p.destino = <<Nick[at]>> /\ Sends(at, SetControle(p.raw, controle))
      /\ answer' = controle /\ shown' = p.message
  BY DEF Answer
<1>5. /\ p.destino = <<destino>> /\ p.message = w /\ p.crc = <<CrcField(text)>>
      /\ p.raw = Datagram(Nick[0], destino, c, CrcField(text), w)
  BY <1>3, ReadIs
<1> HIDE DEF p, w
<1>6. CrcMatches(p.message, p.crc) <=> w = text
  BY <1>5 DEF CrcMatches, CrcField
<1>7. controle = c2 /\ c2 \in Controls
  BY <1>6 DEF Controls
<1> HIDE DEF controle, c2
<1>8. Plain(Nick[0], destino, c, CrcField(text)) /\ text \in Seq(Symbols) /\ Last(text) # NUL
  BY <1>1, FieldsOK
<1>9. at \in 0 .. Hops /\ w \in Seq(Symbols)
  BY <1>1, <1>3 DEF TypesOK, w
<1>10. SetControle(p.raw, controle) = Datagram(Nick[0], destino, c2, CrcField(text), w)
  <2>1. SetControle(Datagram(Nick[0], destino, c, CrcField(text), w), c2)
          = Datagram(Nick[0], destino, c2, CrcField(text), w)
    BY <1>7, <1>8, <1>9, SetControleIs
  <2>2. QED
    BY <1>5, <1>7, <2>1, Zenon
<1>11. Sends(at, Datagram(Nick[0], destino, c2, CrcField(text), w)) /\ Nick[at] = destino
  BY <1>4, <1>5, <1>10
<1>12. answer' = c2 /\ shown' = w
  BY <1>4, <1>5, <1>7
<1>13. /\ at' = After(at) /\ at' \in 0 .. Hops /\ wire' # None
       /\ \E m2 \in Seq(Symbols) :
            /\ wire' = Datagram(Nick[0], destino, c2, CrcField(text), m2)
            /\ w # <<>> /\ Last(w) # NUL => WithoutNul(m2) = w
  BY <1>1, <1>7, <1>9, <1>11, SentOn
<1>14. Verdict(at)' = IF last = text THEN CTRL_ACK ELSE CTRL_NAK
  BY <1>1, <1>2, <1>11, <1>13, OneMoreVisited
<1>15. sent # None /\ last # <<>> /\ (destino = BROADCAST => last = text)
  BY <1>1, <1>2 DEF FlightInv, SentInv
<1>16. Uncut => w = last
  BY <1>3 DEF Flight, w
<1>17. TypesOK' /\ FlagsInv' /\ SentInv'
  BY <1>1, <1>2, <1>13 DEF TypesOK, FlagsInv, SentInv, Uncut
<1>18. FlightInv'
  <2>1. PICK m2 \in Seq(Symbols) :
          /\ wire' = Datagram(Nick[0], destino, c2, CrcField(text), m2)
          /\ w # <<>> /\ Last(w) # NUL => WithoutNul(m2) = w
    BY <1>13
  <2>2. Uncut => WithoutNul(m2) = last /\ c2 = Verdict(at)'
    BY <1>14, <1>15, <1>16, <2>1 DEF Uncut, c2
  <2>3. PICK v \in Controls : v = c2
    BY <1>7
  <2>4. Flight(v, m2)'
    BY <1>2, <2>1, <2>2, <2>3 DEF Flight, Uncut
  <2>5. QED
    BY <1>2, <1>15, <2>4 DEF FlightInv
<1>19. CTRL_ACK # CTRL_NAK
  BY DEF CTRL_ACK, CTRL_NAK
<1>20. destino = BROADCAST => w = text
  BY <1>8, <1>15, <1>16 DEF Uncut
<1>21. (destino = BROADCAST => answer # CTRL_NAK)' /\ AckMeansIntact'
  BY <1>2, <1>12, <1>19, <1>20 DEF AckMeansIntact, c2
<1>22. DeliveredUnlessCut'
  BY <1>2 DEF WireInv, DeliveredUnlessCut, Delivered
<1>23. QED
  BY <1>17, <1>18, <1>21, <1>22 DEF WireInv

LEMMA ReturnKeeps == ASSUME WireInv, Return PROVE WireInv'
<1>1. TypesOK /\ FlagsInv /\ SentInv /\ FlightInv
  BY DEF WireInv
<1>2. wire # None /\ at = 0 /\ wire' = None /\ UNCHANGED <<destino, text, at, answer, shown, last, lost>>
  BY DEF Return
<1>3. PICK c \in Controls, m \in Seq(Symbols) :
        /\ Flight(c, m) /\ WithoutNul(m) \in Seq(Symbols)
        /\ Parse(wire) = Read(Nick[0], destino, c, CrcField(text), WithoutNul(m))
  BY <1>1, <1>2, OnItsWay
<1> DEFINE p == Parse(wire)
           w == WithoutNul(m)
<1>4. IF EndsRound(p)
      THEN /\ sent' = None
           /\ outcome' = IF p.destino = <<BROADCAST>> THEN "broadcast" ELSE p.controle[1]
           /\ IF p.destino # <<BROADCAST>> /\ p.controle = <<CTRL_NAK>>
              THEN NakReturn ELSE Drops
      ELSE UNCHANGED <<sent, outcome, head>>
  BY DEF Return
<1>5. /\ p.destino = <<destino>> /\ p.message = w /\ p.controle = <<c>>
      /\ p.crc = <<CrcField(text)>>
  BY <1>3, ReadIs
<1> HIDE DEF p, w
<1>6. /\ sent # None /\ head.queued
      /\ sent = [destino |-> <<destino>>, crc |-> <<CrcField(text)>>, message |-> last]
      /\ (head.skip_fault_injection => last = text)
  BY <1>1, <1>2 DEF FlightInv, SentInv
<1>7. Uncut => w = last /\ c = Verdict(0)
  BY <1>2, <1>3 DEF Flight, w
<1>8. head \in [queued : BOOLEAN, skip_fault_injection : BOOLEAN, retransmit_used : BOOLEAN]
  BY <1>1 DEF TypesOK
<1>9. /\ NakReturn => /\ head' \in [queued : BOOLEAN, skip_fault_injection : BOOLEAN, retransmit_used : BOOLEAN]
                      /\ head'.retransmit_used => head'.skip_fault_injection
                      /\ ~head.retransmit_used => head'.queued = head.queued
      /\ Drops => /\ head' \in [queued : BOOLEAN, skip_fault_injection : BOOLEAN, retransmit_used : BOOLEAN]
                  /\ head'.retransmit_used => head'.skip_fault_injection
  BY <1>1, <1>8 DEF NakReturn, Drops, FlagsInv
<1>10. TypesOK' /\ FlagsInv'
  BY <1>1, <1>2, <1>4, <1>9 DEF TypesOK, FlagsInv
<1>11. FlightInv' /\ AckMeansIntact' /\ (destino = BROADCAST => answer # CTRL_NAK)'
  BY <1>2 DEF WireInv, FlightInv, AckMeansIntact
<1>12. SentInv' /\ DeliveredUnlessCut'
  <2>1. CASE EndsRound(p)
    <3>1. sent' = None
      BY <1>4, <2>1
    <3>2. ASSUME Uncut, ~head'.queued
          PROVE  outcome' = CASE destino = BROADCAST -> "broadcast"
                              [] destino # BROADCAST /\ \E i \in 1 .. Hops : Nick[i] = destino -> CTRL_ACK
                              [] OTHER -> CTRL_NONE
      <4>1. c = IF \E i \in 1 .. Hops : Nick[i] = destino
                THEN IF last = text THEN CTRL_ACK ELSE CTRL_NAK
                ELSE CTRL_NONE
        BY <1>7, <3>2 DEF Verdict, Found, Visited
      <4>2. CASE destino = BROADCAST
        BY <1>4, <1>5, <2>1, <4>2
      <4>3. CASE destino # BROADCAST
        <5>1. outcome' = c /\ (IF c = CTRL_NAK THEN NakReturn ELSE Drops)
          <6>1. p.destino # <<BROADCAST>> /\ p.controle[1] = c /\ (p.controle = <<CTRL_NAK>> <=> c = CTRL_NAK)
            BY <1>5, <4>3
          <6>2. QED
            BY <1>4, <2>1, <6>1
        <5>2. c # CTRL_NAK
          <6>1. SUFFICES ASSUME c = CTRL_NAK PROVE FALSE
            OBVIOUS
          <6>2. last # text
            BY <4>1, <6>1 DEF CTRL_ACK, CTRL_NAK, CTRL_NONE
          <6>3. ~head.retransmit_used
            BY <1>1, <1>6, <6>2 DEF FlagsInv
          <6>4. head'.queued
            BY <1>6, <1>9, <5>1, <6>1, <6>3
          <6>5. QED
            BY <3>2, <6>4
        <5>3. QED
          BY <4>1, <4>3, <5>1, <5>2
      <4>4. QED
        BY <4>2, <4>3
    <3>3. DeliveredUnlessCut'
      BY <1>2, <3>2 DEF DeliveredUnlessCut, Delivered, Uncut
    <3>4. QED
      BY <3>1, <3>3 DEF SentInv
  <2>2. CASE ~EndsRound(p)
    <3>1. UNCHANGED <<sent, outcome, head>>
      BY <1>4, <2>2
    <3>2. ~Uncut
      <4>1. w # last
        BY <1>5, <1>6, <2>2 DEF EndsRound
      <4>2. QED
        BY <1>7, <4>1
    <3>3. SentInv'
      BY <1>1, <1>2, <3>1, <3>2 DEF SentInv, Uncut
    <3>4. DeliveredUnlessCut'
      BY <1>2, <3>2 DEF DeliveredUnlessCut, Uncut
    <3>5. QED
      BY <3>3, <3>4
  <2>3. QED
    BY <2>1, <2>2
<1>13. QED
  BY <1>10, <1>11, <1>12 DEF WireInv

LEMMA TimeoutKeeps == ASSUME WireInv, DataReturnTimeout PROVE WireInv'
<1>1. TypesOK /\ FlagsInv /\ SentInv
  BY DEF WireInv
<1>2. /\ sent # None /\ wire = None /\ sent' = None /\ Drops
      /\ UNCHANGED <<destino, text, wire, at, answer, shown, last, lost>>
  BY DEF DataReturnTimeout
<1>3. lost > 0 \/ ~Uncut
  BY <1>1, <1>2 DEF SentInv
<1>4. TypesOK' /\ FlagsInv'
  BY <1>1, <1>2 DEF TypesOK, FlagsInv, Drops
<1>5. SentInv' /\ FlightInv' /\ AckMeansIntact' /\ (destino = BROADCAST => answer # CTRL_NAK)'
  BY <1>2 DEF WireInv, SentInv, FlightInv, AckMeansIntact
<1>6. DeliveredUnlessCut'
  BY <1>2, <1>3 DEF DeliveredUnlessCut, Delivered, Uncut
<1>7. QED
  BY <1>4, <1>5, <1>6 DEF WireInv

LEMMA LoseKeeps == ASSUME WireInv, Lose PROVE WireInv'
<1>1. TypesOK /\ FlagsInv /\ SentInv
  BY DEF WireInv
<1>2. /\ lost' = lost + 1 /\ wire' = None
      /\ UNCHANGED <<destino, text, head, sent, at, answer, shown, outcome, last>>
  BY DEF Lose
<1>3. lost' \in Nat /\ lost' > 0 /\ lost' # 0
  BY <1>1, <1>2 DEF TypesOK
<1>4. TypesOK' /\ FlagsInv' /\ FlightInv' /\ AckMeansIntact' /\ (destino = BROADCAST => answer # CTRL_NAK)'
  BY <1>1, <1>2, <1>3 DEF WireInv, TypesOK, FlagsInv, FlightInv, AckMeansIntact
<1>5. SentInv'
  BY <1>1, <1>2, <1>3 DEF SentInv, Uncut
<1>6. DeliveredUnlessCut'
  BY <1>2, <1>3 DEF DeliveredUnlessCut, Delivered
<1>7. QED
  BY <1>4, <1>5, <1>6 DEF WireInv

-----------------------------------------------------------------------------
\* The results

THEOREM MessageInvariant == Spec => []WireInv
<1>1. Init => WireInv
  BY InitHolds
<1>2. WireInv /\ [Next]_vars => WireInv'
  <2> SUFFICES ASSUME WireInv, [Next]_vars PROVE WireInv'
    OBVIOUS
  <2>1. CASE SendDataPacket
    BY <2>1, SendKeeps
  <2>2. CASE Forward
    BY <2>2, ForwardKeeps
  <2>3. CASE Answer
    BY <2>3, AnswerKeeps
  <2>4. CASE Return
    BY <2>4, ReturnKeeps
  <2>5. CASE DataReturnTimeout
    BY <2>5, TimeoutKeeps
  <2>6. CASE Lose
    BY <2>6, LoseKeeps
  <2>7. CASE UNCHANGED vars
    BY <2>7 DEF vars, WireInv, TypesOK, FlagsInv, SentInv, FlightInv, Flight, Uncut, Verdict,
                Found, Visited, AckMeansIntact, DeliveredUnlessCut, Delivered
  <2>8. QED
    BY <2>1, <2>2, <2>3, <2>4, <2>5, <2>6, <2>7 DEF Next
<1>3. QED
  BY <1>1, <1>2, PTL DEF Spec

\* Whatever the ring, the message and the byte flipped in it, the destination
\* acknowledges and shows what the user typed, and refuses anything else; a
\* broadcast is shown unharmed (_on_rx_data, maybe_corrupt).
THEOREM AcknowledgedIntact == Spec => []AckMeansIntact
<1>1. WireInv => AckMeansIntact
  BY DEF WireInv
<1>2. QED
  BY <1>1, MessageInvariant, PTL

\* When the origin is done with the message and nothing was lost, it was
\* delivered or its destination is not there, whatever number of machines
\* passed it on and whichever of them append a NUL; but for the message whose
\* flipped byte is a NUL at its end (_on_rx_data, _on_timer_data_return_timeout).
THEOREM DeliveredInTheEnd == Spec => []DeliveredUnlessCut
<1>1. WireInv => DeliveredUnlessCut
  BY DEF WireInv
<1>2. QED
  BY <1>1, MessageInvariant, PTL

LEMMA AnswerAlone == ASSUME WireInv PROVE OnlyControleChanges
<1> SUFFICES ASSUME wire # None,
                    Parse(wire).message = <<>> \/ Last(Parse(wire).message) # NUL
             PROVE  LET p == Parse(wire)
                        q == Parse(SetControle(p.raw, CTRL_ACK))
                    IN q = [p EXCEPT !.controle = <<CTRL_ACK>>, !.raw = q.raw]
  BY DEF OnlyControleChanges
<1>1. TypesOK /\ FlightInv /\ CTRL_ACK \in Controls
  BY DEF WireInv, Controls
<1>2. PICK c \in Controls, m \in Seq(Symbols) :
        /\ WithoutNul(m) \in Seq(Symbols)
        /\ Parse(wire) = Read(Nick[0], destino, c, CrcField(text), WithoutNul(m))
  BY <1>1, OnItsWay
<1> DEFINE w == WithoutNul(m)
           k == CrcField(text)
           p == Parse(wire)
           q == Parse(SetControle(p.raw, CTRL_ACK))
<1>3. p.message = w /\ p.raw = Datagram(Nick[0], destino, c, k, w)
  BY <1>2, ReadIs
<1>4. Plain(Nick[0], destino, c, k) /\ Upper[Nick[0]] = Nick[0] /\ Upper[destino] = destino
  BY <1>1, FieldsOK
<1> HIDE DEF k
<1>5. /\ Plain(Nick[0], destino, CTRL_ACK, k)
      /\ SetControle(Datagram(Nick[0], destino, c, k, w), CTRL_ACK) = Datagram(Nick[0], destino, CTRL_ACK, k, w)
  BY <1>1, <1>2, <1>4, SetControleIs
<1>6. WithoutNul(w) = w
  BY <1>3 DEF WithoutNul
<1>7. Parse(Datagram(Nick[0], destino, CTRL_ACK, k, w)) = Read(Nick[0], destino, CTRL_ACK, k, WithoutNul(w))
  BY <1>2, <1>4, <1>5, ParseIs
<1>8. p = Read(Nick[0], destino, c, k, w)
  BY <1>2 DEF k
<1> HIDE DEF w, p
<1>9. q = Read(Nick[0], destino, CTRL_ACK, k, w)
  BY <1>3, <1>5, <1>6, <1>7, Zenon
<1> DEFINE before == Datagram(Nick[0], destino, c, k, w)
           after == Datagram(Nick[0], destino, CTRL_ACK, k, w)
<1>10. /\ p = [type |-> "DATA", origem |-> <<Nick[0]>>, destino |-> <<destino>>, controle |-> <<c>>,
               crc |-> <<k>>, message |-> w, raw |-> before]
       /\ q = [type |-> "DATA", origem |-> <<Nick[0]>>, destino |-> <<destino>>,
               controle |-> <<CTRL_ACK>>, crc |-> <<k>>, message |-> w, raw |-> after]
  BY <1>8, <1>9, Zenon DEF Read
<1> HIDE DEF q, before, after
<1>11. q = [p EXCEPT !.controle = <<CTRL_ACK>>, !.raw = q.raw]
  <2> DEFINE D == {"type", "origem", "destino", "controle", "crc", "message", "raw"}
             g == [p EXCEPT !["controle"] = <<CTRL_ACK>>, !["raw"] = q["raw"]]
  <2>1. /\ DOMAIN p = D /\ p = [x \in D |-> p[x]]
        /\ p["type"] = "DATA" /\ p["origem"] = <<Nick[0]>> /\ p["destino"] = <<destino>>
        /\ p["crc"] = <<k>> /\ p["message"] = w
    BY <1>10
  <2>2. /\ q = [x \in D |-> q[x]]
        /\ q["type"] = "DATA" /\ q["origem"] = <<Nick[0]>> /\ q["destino"] = <<destino>>
        /\ q["crc"] = <<k>> /\ q["message"] = w /\ q["controle"] = <<CTRL_ACK>>
    BY <1>10
  <2>3. g = [x \in D |-> g[x]]
    BY <2>1
  <2>4. /\ g["type"] = "DATA" /\ g["origem"] = <<Nick[0]>> /\ g["destino"] = <<destino>>
        /\ g["crc"] = <<k>> /\ g["message"] = w /\ g["controle"] = <<CTRL_ACK>>
        /\ g["raw"] = q["raw"]
    BY <2>1
  <2> HIDE DEF g
  <2>5. \A x \in D : q[x] = g[x]
    BY <2>2, <2>4
  <2> HIDE DEF D
  <2>6. q = g
    BY <2>2, <2>3, <2>5
  <2>7. QED
    BY <2>6, Zenon DEF g
<1>12. QED
  BY <1>11, Zenon DEF p, q

\* Whatever separators the message contains, the answer that is written into
\* a datagram changes nothing else of what the next machine reads
\* (set_controle, parse).
THEOREM AnswersOnlyAnswer == Spec => []OnlyControleChanges
<1>1. WireInv => OnlyControleChanges
  BY AnswerAlone
<1>2. QED
  BY <1>1, MessageInvariant, PTL

LEMMA ReadTwice == ASSUME WireInv PROVE ForwardedAsRead
<1> SUFFICES ASSUME wire # None
             PROVE  LET p == Parse(wire)
                        parts == Split(p.raw, 5)
                    IN /\ p.raw = BuildData(parts[2], parts[3], p.controle, parts[5], p.message)
                       /\ p.raw = wire \/ p.raw \o <<NUL>> = wire
                       /\ Last(p.raw) # NUL => Parse(p.raw) = p
  BY DEF ForwardedAsRead
<1>1. TypesOK /\ FlightInv
  BY DEF WireInv
<1>2. PICK c \in Controls, m \in Seq(Symbols) :
        /\ Flight(c, m) /\ WithoutNul(m) \in Seq(Symbols)
        /\ Parse(wire) = Read(Nick[0], destino, c, CrcField(text), WithoutNul(m))
  BY <1>1, OnItsWay
<1> DEFINE w == WithoutNul(m)
           k == CrcField(text)
           p == Parse(wire)
           d(n) == Datagram(Nick[0], destino, c, k, n)
<1>3. p.message = w /\ p.controle = <<c>> /\ p.raw = d(w)
  BY <1>2, ReadIs
<1>4. Plain(Nick[0], destino, c, k) /\ Upper[Nick[0]] = Nick[0] /\ Upper[destino] = destino
  BY <1>1, FieldsOK
<1>5. wire = d(m)
  BY <1>2 DEF Flight
<1>6. p = Read(Nick[0], destino, c, k, w)
  BY <1>2
<1>7. Split(d(w), 5) = << <<P_DATA>>, <<Nick[0]>>, <<destino>>, <<c>>, <<k>>, w >>
  BY <1>2, <1>4, PartsOfDatagram
<1>8. BuildData(<<Nick[0]>>, <<destino>>, <<c>>, <<k>>, w) = d(w)
  BY <1>2, <1>4, BuildDataIs
<1>9. d(w) \o <<NUL>> = d(Append(w, NUL))
  BY <1>2, <1>4, AppendToDatagram
<1>10. Parse(d(w)) = Read(Nick[0], destino, c, k, WithoutNul(w))
  BY <1>2, <1>4, ParseIs
<1>11. Last(d(w)) # NUL => WithoutNul(w) = w
  <2>1. SUFFICES ASSUME WithoutNul(w) # w PROVE Last(d(w)) = NUL
    OBVIOUS
  <2> DEFINE u == WithoutNul(w)
  <2>2. u \in Seq(Symbols) /\ w = Append(u, NUL)
    BY <1>2, <2>1, NulOrNot
  <2>3. Append(d(u), NUL) = d(Append(u, NUL))
    BY <1>4, <2>2, AppendToDatagram
  <2>4. d(u) \in Seq(Alphabet) /\ NUL \in Alphabet
    BY <1>4, <2>2, DatagramIs, PlainIs
  <2> HIDE DEF d, u, w
  <2>5. Last(Append(d(u), NUL)) = NUL
    BY <2>4, NulAppended
  <2>6. QED
    BY <2>2, <2>3, <2>5, Zenon
<1>12. w = m \/ m = Append(w, NUL)
  BY NulOrNot
<1> HIDE DEF w, k, p, d
<1> DEFINE parts == Split(p.raw, 5)
<1>13. parts[2] = <<Nick[0]>> /\ parts[3] = <<destino>> /\ parts[5] = <<k>>
  BY <1>3, <1>7
<1> HIDE DEF parts
<1>14. p.raw = BuildData(parts[2], parts[3], p.controle, parts[5], p.message)
  BY <1>3, <1>8, <1>13, Zenon
<1>15. p.raw = wire \/ p.raw \o <<NUL>> = wire
  BY <1>3, <1>5, <1>9, <1>12, Zenon
<1>16. ASSUME Last(p.raw) # NUL
       PROVE  Parse(p.raw) = p
  <2>1. WithoutNul(w) = w
    BY <1>3, <1>11, <1>16
  <2>2. QED
    BY <1>3, <1>6, <1>10, <2>1, Zenon
<1>17. QED
  BY <1>14, <1>15, <1>16 DEF p, parts

\* The datagram a machine forwards is the one build_data makes of what it
\* read, and the one it got but for the NUL of another program; the next
\* machine reads it as this one did, unless it ends in NUL once more (parse).
THEOREM ForwardedUnchanged == Spec => []ForwardedAsRead
<1>1. WireInv => ForwardedAsRead
  BY ReadTwice
<1>2. QED
  BY <1>1, MessageInvariant, PTL
=============================================================================
