----------------------------- MODULE EgtxProofs -----------------------------
(***************************************************************************)
(* Proofs about EgtxLogData and EgtxDeriving: what PackEGTXLogDataEvent    *)
(* packs, UnPackEGTXLog reads back, for lists and elements of any length,  *)
(* and what the log of a transaction keeps of it.                          *)
(***************************************************************************)
EXTENDS EgtxDeriving, SequenceLemmas, FiniteSetTheorems

-----------------------------------------------------------------------------
(* Numbers and bytes *)

IsNumber(f, bytes, n) == f = [k \in 0..n |-> IF k = 0 THEN 0 ELSE 256 * f[k - 1] + bytes[k]]

\* Number, as its loop.
NumberLoop(f, bytes, n) ==
  /\ f \in [0..n -> Nat]
  /\ f[0] = 0
  /\ \A k \in 1..n : f[k] = 256 * f[k - 1] + bytes[k]

LEMMA AnotherByte ==
  ASSUME NEW v \in Nat, NEW w \in Nat
  PROVE  256 * v + w \in Nat
OBVIOUS

LEMMA NumberDef ==
  ASSUME NEW bytes \in Seq(Nat), NEW n \in Nat, Len(bytes) = n
  PROVE  \E f : Number(bytes) = f[n] /\ NumberLoop(f, bytes, n)
<1> DEFINE step == [k \in 1..n |-> [v \in Nat |-> 256 * v + bytes[k]]]
<1>0. \A k \in 1..n : bytes[k] \in Nat
  OBVIOUS
<1>1. step \in [1..n -> [Nat -> Nat]]
  BY <1>0
<1>2. \A k \in 1..n : \A v \in Nat : step[k][v] = 256 * v + bytes[k]
  OBVIOUS
<1> HIDE DEF step
<1>3. PICK f \in [0..n -> Nat] : f[0] = 0 /\ \A k \in 1..n : f[k] = step[k][f[k - 1]]
  <2>1. \E f : Recursion(f, n, Nat, 0, step)
    BY <1>1, RecursionExists
  <2> QED
    BY <2>1, Zenon DEF Recursion
<1>4. ASSUME NEW k \in 1..n PROVE f[k] = 256 * f[k - 1] + bytes[k]
  <2>1. k - 1 \in 0..n
    OBVIOUS
  <2>2. f[k - 1] \in Nat
    BY <2>1
  <2>3. step[k][f[k - 1]] = 256 * f[k - 1] + bytes[k]
    BY <1>2, <2>2, ZenonT(30)
  <2> QED
    BY <1>3, <2>3
<1>5. IsNumber(f, bytes, n)
  <2>1. \A k \in 0..n : f[k] = IF k = 0 THEN 0 ELSE 256 * f[k - 1] + bytes[k]
    BY <1>3, <1>4
  <2>2. f = [k \in 0..n |-> f[k]]
    OBVIOUS
  <2>3. [k \in 0..n |-> f[k]] = [k \in 0..n |-> IF k = 0 THEN 0 ELSE 256 * f[k - 1] + bytes[k]]
    BY <2>1
  <2>4. f = [k \in 0..n |-> IF k = 0 THEN 0 ELSE 256 * f[k - 1] + bytes[k]]
    BY <2>2, <2>3
  <2> QED
    BY <2>4 DEF IsNumber
<1> DEFINE g == CHOOSE x : IsNumber(x, bytes, n)
<1>6. Number(bytes) = g[n]
  BY DEF Number, IsNumber
<1>7. IsNumber(g, bytes, n)
  BY <1>5, Zenon
<1> HIDE DEF g
<1>8. \A k \in 0..n : g[k] = IF k = 0 THEN 0 ELSE 256 * g[k - 1] + bytes[k]
  BY <1>7, Zenon DEF IsNumber
<1>9. g[0] = 0 /\ \A k \in 1..n : g[k] = 256 * g[k - 1] + bytes[k]
  BY <1>8, SMTT(30)
<1> DEFINE T == {m \in Nat : m <= n => g[m] \in Nat}
<1>10. 0 \in T
  BY <1>9
<1>11. ASSUME NEW m \in Nat, m \in T PROVE m + 1 \in T
  <2> SUFFICES ASSUME m + 1 <= n PROVE g[m + 1] \in Nat
    OBVIOUS
  <2>1. m + 1 \in 1..n /\ (m + 1) - 1 = m /\ g[m] \in Nat
    BY <1>11
  <2>2. bytes[m + 1] \in Nat
    BY <1>0, <2>1
  <2>3. g[m + 1] = 256 * g[(m + 1) - 1] + bytes[m + 1]
    BY <1>9, <2>1, Zenon
  <2>4. g[m + 1] = 256 * g[m] + bytes[m + 1]
    BY <2>1, <2>3
  <2>5. 256 * g[m] + bytes[m + 1] \in Nat
    BY <2>1, <2>2, AnotherByte, SMTT(30)
  <2> QED
    BY <2>4, <2>5, Zenon
<1> HIDE DEF T
<1>12. \A m \in 0..n : g[m] \in Nat
  <2>0. Nat \subseteq T
    BY <1>10, <1>11, Induction, SMTT(30)
  <2>1. \A m \in 0..n : m \in T
    BY <2>0
  <2> QED
    BY <2>1 DEF T
<1>13. g \in [0..n -> Nat]
  <2>1. g = [k \in 0..n |-> g[k]]
    BY <1>7, <1>8, ZenonT(30) DEF IsNumber
  <2> QED
    BY <1>12, <2>1
<1> QED
  BY <1>6, <1>9, <1>13, ZenonT(30) DEF NumberLoop

IsShift(f, word, n) == f = [k \in 0..n |-> IF k = 0 THEN word ELSE f[k - 1] \div 256]

\* The low byte comes off.
Splits(m, byte) == (256 * m + byte) \div 256 = m /\ (256 * m + byte) % 256 = byte

LEMMA LowByte ==
  ASSUME NEW m \in Nat, NEW byte \in 0..255
  PROVE  Splits(m, byte)
BY DEF Splits

\* The numbers of the prefixes are what is left when the low bytes go.
LEMMA BytesOfNumber ==
  ASSUME NEW bytes \in Seq(Byte), NEW n \in Nat, Len(bytes) = n
  PROVE  Bytes(Number(bytes), n) = bytes
<1>0. bytes \in Seq(Nat) /\ \A k \in 1..n : bytes[k] \in 0..255
  <2>1. Byte \subseteq Nat /\ Byte = 0..255
    BY DEF Byte
  <2>2. \A k \in 1..n : bytes[k] \in Byte
    OBVIOUS
  <2> QED
    BY <2>1, <2>2, SeqMonotonic, Zenon
<1>1. PICK f : Number(bytes) = f[n] /\ NumberLoop(f, bytes, n)
  BY <1>0, NumberDef
<1> DEFINE word == Number(bytes)
           h == [k \in 0..n |-> f[n - k]]
<1>2. f \in [0..n -> Nat] /\ \A k \in 1..n : f[k] = 256 * f[k - 1] + bytes[k]
  BY <1>1, Zenon DEF NumberLoop
<1>3. \A k \in 1..n : f[k] \div 256 = f[k - 1] /\ f[k] % 256 = bytes[k]
  <2> SUFFICES ASSUME NEW k \in 1..n PROVE f[k] \div 256 = f[k - 1] /\ f[k] % 256 = bytes[k]
    OBVIOUS
  <2>1. k - 1 \in 0..n
    OBVIOUS
  <2>2. f[k - 1] \in Nat /\ bytes[k] \in 0..255 /\ f[k] = 256 * f[k - 1] + bytes[k]
    BY <1>0, <1>2, <2>1, SMTT(30)
  <2> QED
    <3> DEFINE m == f[k - 1]
               byte == bytes[k]
    <3>1. m \in Nat /\ byte \in 0..255 /\ f[k] = 256 * m + byte
      BY <2>2
    <3> HIDE DEF m, byte
    <3>2. Splits(m, byte)
      BY <3>1, LowByte
    <3>3. f[k] \div 256 = m /\ f[k] % 256 = byte
      BY <3>1, <3>2, ZenonT(30) DEF Splits
    <3> QED
      BY <3>3 DEF m, byte
<1>4. \A k \in 0..n : h[k] = IF k = 0 THEN word ELSE h[k - 1] \div 256
  <2> SUFFICES ASSUME NEW k \in 0..n PROVE h[k] = IF k = 0 THEN word ELSE h[k - 1] \div 256
    OBVIOUS
  <2>1. CASE k = 0
    BY <1>1, <2>1
  <2>2. CASE k # 0
    <3>1. k - 1 \in 0..n /\ n - k + 1 \in 1..n /\ n - (k - 1) = n - k + 1 /\ (n - k + 1) - 1 = n - k
      BY <2>2
    <3>2. h[k - 1] = f[n - k + 1] /\ h[k] = f[n - k]
      BY <3>1
    <3> HIDE DEF h
    <3>3. f[n - k + 1] \div 256 = f[n - k]
      BY <1>3, <3>1
    <3> QED
      BY <2>2, <3>2, <3>3
  <2> QED
    BY <2>1, <2>2
<1>5. h = [k \in 0..n |-> h[k]]
  OBVIOUS
<1>6. \A k \in 1..n : h[n - k] = f[k]
  OBVIOUS
<1> HIDE DEF h
<1>7. IsShift(h, word, n)
  <2>1. [k \in 0..n |-> h[k]] = [k \in 0..n |-> IF k = 0 THEN word ELSE h[k - 1] \div 256]
    BY <1>4
  <2>2. h = [k \in 0..n |-> IF k = 0 THEN word ELSE h[k - 1] \div 256]
    BY <1>5, <2>1
  <2> QED
    BY <2>2 DEF IsShift
<1> DEFINE g == CHOOSE x : IsShift(x, word, n)
<1>8. IsShift(g, word, n)
  BY <1>7, Zenon
<1>9. Bytes(word, n) = [k \in 1..n |-> g[n - k] % 256]
  BY DEF Bytes, IsShift
<1> HIDE DEF g, word
<1>10. \A k \in 0..n : g[k] = IF k = 0 THEN word ELSE g[k - 1] \div 256
  BY <1>8, ZenonT(30) DEF IsShift
<1> DEFINE T == {m \in Nat : m <= n => g[m] = h[m]}
<1>11. 0 \in T
  BY <1>4, <1>10
<1>12. ASSUME NEW m \in Nat, m \in T PROVE m + 1 \in T
  <2> SUFFICES ASSUME m + 1 <= n PROVE g[m + 1] = h[m + 1]
    OBVIOUS
  <2>1. m + 1 \in 0..n /\ m + 1 # 0 /\ (m + 1) - 1 = m /\ g[m] = h[m]
    BY <1>12
  <2>2. g[m + 1] = g[m] \div 256 /\ h[m + 1] = h[m] \div 256
    BY <1>4, <1>10, <2>1, SMTT(30)
  <2> QED
    BY <2>1, <2>2
<1> HIDE DEF T
<1>13. \A m \in 0..n : g[m] = h[m]
  <2>1. Nat \subseteq T
    BY <1>11, <1>12, Induction
  <2>2. \A m \in 0..n : m \in T
    BY <2>1
  <2> QED
    BY <2>2 DEF T
<1>14. ASSUME NEW k \in 1..n PROVE g[n - k] % 256 = bytes[k]
  <2>1. n - k \in 0..n
    OBVIOUS
  <2>2. g[n - k] = f[k]
    BY <1>6, <1>13, <2>1
  <2> QED
    BY <1>3, <2>2
<1>15. [k \in 1..n |-> g[n - k] % 256] = [k \in 1..n |-> bytes[k]]
  BY <1>14
<1>16. bytes = [k \in 1..n |-> bytes[k]]
  OBVIOUS
<1> QED
  BY <1>9, <1>15, <1>16 DEF word

LEMMA PaddedFacts ==
  ASSUME NEW V, 0 \in V, NEW bytes \in Seq(V), NEW n \in Nat
  PROVE  /\ PadRight(bytes, n) \in Seq(V) /\ Len(PadRight(bytes, n)) = n
         /\ \A i \in 1..n : i <= Len(bytes) => PadRight(bytes, n)[i] = bytes[i]
<1> DEFINE zeros == Zeros(n)
           both == bytes \o zeros
<1>1. zeros \in Seq(V) /\ Len(zeros) = n
  BY DEF Zeros
<1> HIDE DEF zeros
<1>2. both \in Seq(V) /\ Len(both) = Len(bytes) + n /\ Len(bytes) \in Nat
  <2>1. both \in Seq(V) /\ Len(both) = Len(bytes) + Len(zeros) /\ Len(bytes) \in Nat
    BY <1>1, ConcatRight
  <2> QED
    BY <1>1, <2>1, Zenon
<1>3. \A i \in 1..Len(bytes) : both[i] = bytes[i]
  BY <1>1, ConcatProperties
<1> HIDE DEF both
<1>4. n \in 0..Len(both)
  BY <1>2
<1>5. /\ SubSeq(both, 1, n) \in Seq(V) /\ Len(SubSeq(both, 1, n)) = n
      /\ \A i \in 1..n : SubSeq(both, 1, n)[i] = both[i]
  BY <1>2, <1>4, PrefixType
<1>6. PadRight(bytes, n) = SubSeq(both, 1, n)
  BY DEF PadRight, both, zeros
<1>7. \A i \in 1..n : i <= Len(bytes) => i \in 1..Len(bytes)
  BY <1>2
<1> QED
  BY <1>3, <1>5, <1>6, <1>7, Zenon

-----------------------------------------------------------------------------
(* Division *)

LEMMA ProductMonotone ==
  ASSUME NEW x \in Nat, NEW y \in Nat, NEW w \in Nat, x <= y
  PROVE  w * x <= w * y
<1>1. PICK d \in Nat : y = x + d
  <2>1. y - x \in Nat /\ y = x + (y - x)
    OBVIOUS
  <2> QED
    BY <2>1
<1>2. w * (x + d) = (w * x) + (w * d) /\ w * x \in Nat /\ w * d \in Nat
  OBVIOUS
<1> QED
  BY <1>1, <1>2

LEMMA Quotient ==
  ASSUME NEW x \in Nat, NEW w \in Nat \ {0}
  PROVE  /\ x \div w \in Nat /\ x % w \in Nat /\ x % w < w
         /\ x = w * (x \div w) + (x % w)
OBVIOUS

LEMMA QuotientOf ==
  ASSUME NEW q \in Nat, NEW w \in Nat \ {0}, NEW r \in Nat, r < w
  PROVE  (w * q + r) \div w = q /\ (w * q + r) % w = r
OBVIOUS

-----------------------------------------------------------------------------
(* An element of bytes[] *)

\* The bytes of the k-th word of an element.
Chunk(bytes, k) == PadRight(SubSeq(bytes, WordBytes * (k - 1) + 1, Len(bytes)), WordBytes)

LEMMA ChunkFacts ==
  ASSUME NEW bytes \in Seq(Byte), NEW k \in Nat \ {0}
  PROVE  /\ Chunk(bytes, k) \in Seq(Byte) /\ Len(Chunk(bytes, k)) = WordBytes
         /\ \A j \in 1..WordBytes : WordBytes * (k - 1) + j <= Len(bytes) =>
              Chunk(bytes, k)[j] = bytes[WordBytes * (k - 1) + j]
<1> DEFINE n == Len(bytes)
           from == WordBytes * (k - 1)
           sub == SubSeq(bytes, from + 1, n)
<1>1. WordBytes \in Nat /\ n \in Nat /\ from \in Nat /\ 0 \in Byte
  <2>1. k - 1 \in Nat
    OBVIOUS
  <2> QED
    BY <2>1, WordAssumption DEF Byte
<1> HIDE DEF from
<1>2. \A i \in (from + 1)..n : bytes[i] \in Byte
  BY <1>1
<1>3. /\ sub \in Seq(Byte)
      /\ Len(sub) = IF from + 1 <= n THEN n - (from + 1) + 1 ELSE 0
      /\ \A i \in 1..(n - (from + 1) + 1) : sub[i] = bytes[(from + 1) + i - 1]
  BY <1>1, <1>2, SubSeqProperties
<1> HIDE DEF sub
<1> DEFINE c == PadRight(sub, WordBytes)
<1>4. /\ c \in Seq(Byte) /\ Len(c) = WordBytes
      /\ \A i \in 1..WordBytes : i <= Len(sub) => c[i] = sub[i]
  BY <1>1, <1>3, PaddedFacts
<1> HIDE DEF c
<1>5. ASSUME NEW j \in 1..WordBytes, from + j <= n PROVE c[j] = bytes[from + j]
  <2>1. j <= Len(sub) /\ j \in 1..(n - (from + 1) + 1) /\ (from + 1) + j - 1 = from + j
    BY <1>1, <1>3, <1>5
  <2> QED
    BY <1>3, <1>4, <2>1
<1>6. Chunk(bytes, k) = c
  BY DEF Chunk, c, sub, from
<1> QED
  BY <1>4, <1>5, <1>6, Zenon DEF from

LEMMA WordsFacts ==
  ASSUME NEW n \in Nat
  PROVE  /\ WordsOf(n) \in Nat /\ n <= WordBytes * WordsOf(n)
<1> DEFINE x == n + WordBytes - 1
<1>1. WordBytes \in Nat \ {0} /\ x \in Nat
  BY WordAssumption
<1>2. x \div WordBytes \in Nat /\ x % WordBytes < WordBytes /\ x % WordBytes \in Nat
      /\ x = WordBytes * (x \div WordBytes) + (x % WordBytes)
  BY <1>1, Quotient
<1> DEFINE q == WordBytes * (x \div WordBytes)
           r == x % WordBytes
<1>3. q \in Nat
  BY <1>1, <1>2
<1> HIDE DEF q, r
<1>4. x = q + r /\ r \in Nat /\ r < WordBytes
  BY <1>2 DEF q, r
<1>5. n <= q
  BY <1>1, <1>3, <1>4
<1> QED
  BY <1>2, <1>5 DEF q, WordsOf

\* Where the i-th byte is.
LEMMA BytePlace ==
  ASSUME NEW n \in Nat, NEW i \in 1..n
  PROVE  \E k \in 1..WordsOf(n), j \in 1..WordBytes : i = WordBytes * (k - 1) + j
<1> DEFINE q == (i - 1) \div WordBytes
           r == (i - 1) % WordBytes
<1>1. WordBytes \in Nat \ {0} /\ i - 1 \in Nat
  BY WordAssumption
<1>2. q \in Nat /\ r \in Nat /\ r < WordBytes /\ i - 1 = WordBytes * q + r
  BY <1>1, Quotient
<1> HIDE DEF q, r
<1>3. WordsOf(n) \in Nat /\ n <= WordBytes * WordsOf(n)
  BY WordsFacts
<1>4. q < WordsOf(n)
  <2> SUFFICES ASSUME WordsOf(n) <= q PROVE FALSE
    BY <1>2, <1>3
  <2>1. WordBytes * WordsOf(n) <= WordBytes * q
    BY <1>1, <1>2, <1>3, ProductMonotone
  <2>2. WordBytes * WordsOf(n) \in Nat /\ WordBytes * q \in Nat
    BY <1>1, <1>2, <1>3
  <2> QED
    BY <1>1, <1>2, <1>3, <2>1, <2>2
<1>5. q + 1 \in 1..WordsOf(n) /\ r + 1 \in 1..WordBytes /\ (q + 1) - 1 = q
  BY <1>1, <1>2, <1>3, <1>4
<1>6. i = WordBytes * ((q + 1) - 1) + (r + 1)
  <2>1. WordBytes * q \in Nat
    BY <1>1, <1>2
  <2>2. i = WordBytes * q + (r + 1)
    BY <1>1, <1>2, <2>1
  <2> QED
    BY <1>5, <2>2, Zenon
<1> QED
  BY <1>5, <1>6, Zenon

LEMMA ChunksAreBytes ==
  ASSUME NEW bytes \in Seq(Byte)
  PROVE  SubSeq(FlattenSeq([k \in 1..WordsOf(Len(bytes)) |-> Chunk(bytes, k)]), 1, Len(bytes)) = bytes
<1> DEFINE len == Len(bytes)
           n == WordsOf(len)
           chunks == [k \in 1..n |-> Chunk(bytes, k)]
           flat == FlattenSeq(chunks)
<1>1. len \in Nat /\ n \in Nat /\ len <= WordBytes * n /\ WordBytes \in Nat
  BY WordsFacts, WordAssumption
<1> HIDE DEF n
<1>2. \A k \in 1..n : chunks[k] = Chunk(bytes, k) /\ chunks[k] \in Seq(Byte) /\ Len(chunks[k]) = WordBytes
  BY ChunkFacts
<1>3. chunks = [k \in 1..n |-> chunks[k]]
  OBVIOUS
<1> HIDE DEF chunks
<1>4. chunks \in Seq(Seq(Byte)) /\ Len(chunks) = n
  BY <1>1, <1>2, <1>3, IntervalIsSequence, SMTT(30)
<1>5. flat \in Seq(Byte)
  BY <1>4, FlattenType
<1>6. ASSUME NEW k \in 1..n PROVE HoldsAt(flat, WordBytes * (k - 1), chunks[k])
  <2>1. k \in 1..Len(chunks) /\ k - 1 \in 0..Len(chunks)
    BY <1>1, <1>4
  <2>2. Len(FlattenSeq(SubSeq(chunks, 1, k - 1))) = WordBytes * (k - 1)
    BY <1>1, <1>2, <1>4, <2>1, FlattenUniform
  <2>3. HoldsAt(flat, Len(FlattenSeq(SubSeq(chunks, 1, k - 1))), chunks[k])
    BY <1>4, <2>1, FlattenPart
  <2> QED
    BY <2>2, <2>3
<1> HIDE DEF flat
<1>7. ASSUME NEW i \in 1..len PROVE i <= Len(flat) /\ flat[i] = bytes[i]
  <2>1. PICK k \in 1..n, j \in 1..WordBytes : i = WordBytes * (k - 1) + j
    BY <1>1, BytePlace DEF n
  <2>2. HoldsAt(flat, WordBytes * (k - 1), chunks[k])
    BY <1>6
  <2> DEFINE at == WordBytes * (k - 1)
  <2>3. at \in Nat /\ k \in Nat \ {0} /\ i = at + j
    <3>1. k - 1 \in Nat
      BY <1>1
    <3> QED
      BY <1>1, <2>1, <3>1
  <2>4. at + WordBytes <= Len(flat) /\ flat[at + j] = chunks[k][j]
    BY <1>2, <2>2, SMTT(30) DEF HoldsAt
  <2>5. Chunk(bytes, k)[j] = bytes[at + j]
    <3>1. at + j <= Len(bytes)
      BY <2>3
    <3> QED
      BY <2>3, <3>1, ChunkFacts
  <2> HIDE DEF at
  <2>6. chunks[k][j] = bytes[at + j]
    BY <1>2, <2>5
  <2>7. Len(flat) \in Nat
    BY <1>5
  <2> QED
    BY <1>1, <2>3, <2>4, <2>6, <2>7
<1>8. len <= Len(flat) /\ Len(flat) \in Nat
  <2>1. Len(flat) \in Nat
    BY <1>5
  <2>2. CASE len = 0
    BY <2>1, <2>2, SMTT(30)
  <2>3. CASE len # 0
    BY <1>1, <1>7, <2>1, <2>3, SMTT(30)
  <2> QED
    BY <2>2, <2>3
<1>9. len \in 0..Len(flat)
  BY <1>1, <1>8
<1>10. /\ SubSeq(flat, 1, len) \in Seq(Byte) /\ Len(SubSeq(flat, 1, len)) = len
       /\ \A i \in 1..len : SubSeq(flat, 1, len)[i] = flat[i]
  BY <1>5, <1>9, PrefixType
<1>11. SubSeq(flat, 1, len) = bytes
  BY <1>7, <1>10, SeqEqual
<1> QED
  BY <1>11 DEF flat, chunks, n

LEMMA NumberType ==
  ASSUME NEW bytes \in Seq(Nat)
  PROVE  Number(bytes) \in Nat
<1>1. Len(bytes) \in Nat
  OBVIOUS
<1>2. PICK f : Number(bytes) = f[Len(bytes)] /\ NumberLoop(f, bytes, Len(bytes))
  BY <1>1, NumberDef
<1>3. f \in [0..Len(bytes) -> Nat] /\ Len(bytes) \in 0..Len(bytes)
  BY <1>1, <1>2 DEF NumberLoop
<1> QED
  BY <1>2, <1>3

\* An element is its length and its words.
LEMMA EncodedElement ==
  ASSUME NEW bytes \in Seq(Byte)
  PROVE  /\ EncodeBytes(bytes) \in Seq(Nat)
         /\ Len(EncodeBytes(bytes)) = WordsOf(Len(bytes)) + 1
         /\ EncodeBytes(bytes)[1] = Len(bytes)
         /\ \A k \in 1..WordsOf(Len(bytes)) : EncodeBytes(bytes)[k + 1] = Number(Chunk(bytes, k))
<1> DEFINE len == Len(bytes)
           n == WordsOf(len)
           words == [k \in 1..n |-> Number(Chunk(bytes, k))]
           head == <<len>>
<1>1. len \in Nat /\ n \in Nat
  BY WordsFacts
<1> HIDE DEF n
<1>2. ASSUME NEW k \in 1..n PROVE Number(Chunk(bytes, k)) \in Nat
  <2>1. Chunk(bytes, k) \in Seq(Byte) /\ Byte \subseteq Nat
    BY ChunkFacts DEF Byte
  <2> QED
    BY <2>1, SeqMonotonic, NumberType
<1>3. /\ words = [k \in 1..n |-> words[k]]
      /\ \A k \in 1..n : words[k] = Number(Chunk(bytes, k)) /\ words[k] \in Nat
  BY <1>2
<1>4. EncodeBytes(bytes) = head \o words
  BY DEF EncodeBytes, Chunk, n
<1>5. head \in Seq(Nat) /\ Len(head) = 1 /\ head[1] = len
  BY <1>1
<1> HIDE DEF words, head
<1>6. words \in Seq(Nat) /\ Len(words) = n
  BY <1>1, <1>3, IntervalIsSequence
<1>7. /\ head \o words \in Seq(Nat) /\ Len(head \o words) = n + 1
      /\ \A k \in 1..(n + 1) : (head \o words)[k] = IF k <= 1 THEN head[k] ELSE words[k - 1]
  <2>1. /\ head \o words \in Seq(Nat) /\ Len(head \o words) = Len(head) + Len(words)
        /\ \A k \in 1..(Len(head) + Len(words)) : (head \o words)[k] = IF k <= Len(head) THEN head[k] ELSE words[k - Len(head)]
    BY <1>5, <1>6, ConcatProperties, ZenonT(30)
  <2>2. Len(head) = 1 /\ Len(head) + Len(words) = n + 1
    BY <1>1, <1>5, <1>6
  <2> QED
    BY <2>1, <2>2, Zenon
<1> DEFINE enc == head \o words
<1> HIDE DEF enc
<1>8. enc[1] = len
  <2>1. 1 \in 1..(n + 1) /\ 1 <= 1
    BY <1>1
  <2> QED
    BY <1>5, <1>7, <2>1 DEF enc
<1>9. ASSUME NEW k \in 1..n PROVE enc[k + 1] = Number(Chunk(bytes, k))
  <2>1. k + 1 \in 1..(n + 1) /\ ~(k + 1 <= 1) /\ (k + 1) - 1 = k
    BY <1>1
  <2>2. enc[k + 1] = words[(k + 1) - 1]
    BY <1>7, <2>1, Zenon DEF enc
  <2> QED
    BY <1>3, <2>1, <2>2
<1> QED
  BY <1>4, <1>7, <1>8, <1>9, Zenon DEF enc, n

LEMMA ElementReadsBack ==
  ASSUME NEW data \in Seq(Nat), NEW off \in Nat, NEW bytes \in Seq(Byte), HoldsAt(data, off, EncodeBytes(bytes))
  PROVE  DecodeBytes(data, off + 1) = bytes
<1> DEFINE len == Len(bytes)
           n == WordsOf(len)
           enc == EncodeBytes(bytes)
<1>1. /\ len \in Nat /\ n \in Nat
      /\ enc \in Seq(Nat) /\ Len(enc) = n + 1 /\ enc[1] = len
      /\ \A k \in 1..n : enc[k + 1] = Number(Chunk(bytes, k))
  <2>1. len \in Nat
    OBVIOUS
  <2>2. n \in Nat
    BY <2>1, WordsFacts
  <2> QED
    BY <2>1, <2>2, EncodedElement, Zenon
<1> HIDE DEF n, enc
<1>2. \A i \in 1..(n + 1) : data[off + i] = enc[i]
  BY <1>1, SMTT(30) DEF HoldsAt, enc
<1>3. data[off + 1] = len
  <2>1. 1 \in 1..(n + 1)
    BY <1>1
  <2> QED
    BY <1>1, <1>2, <2>1, Zenon
<1>4. ASSUME NEW k \in 1..n PROVE Bytes(data[(off + 1) + k], WordBytes) = Chunk(bytes, k)
  <2>1. k + 1 \in 1..(n + 1) /\ (off + 1) + k = off + (k + 1)
    BY <1>1
  <2>2. data[(off + 1) + k] = Number(Chunk(bytes, k))
    BY <1>1, <1>2, <2>1, SMTT(30)
  <2>3. Chunk(bytes, k) \in Seq(Byte) /\ Len(Chunk(bytes, k)) = WordBytes /\ WordBytes \in Nat
    <3>1. k \in Nat \ {0}
      BY <1>1
    <3> QED
      BY <3>1, ChunkFacts, WordAssumption, SMTT(30)
  <2>4. Bytes(Number(Chunk(bytes, k)), WordBytes) = Chunk(bytes, k)
    BY <2>3, BytesOfNumber
  <2> QED
    BY <2>2, <2>4
<1>5. [k \in 1..n |-> Bytes(data[(off + 1) + k], WordBytes)] = [k \in 1..n |-> Chunk(bytes, k)]
  BY <1>4
<1>6. DecodeBytes(data, off + 1) = SubSeq(FlattenSeq([k \in 1..n |-> Bytes(data[(off + 1) + k], WordBytes)]), 1, len)
  BY <1>3, Zenon DEF DecodeBytes, n
<1>7. SubSeq(FlattenSeq([k \in 1..n |-> Chunk(bytes, k)]), 1, len) = bytes
  BY ChunksAreBytes DEF n
<1> QED
  BY <1>5, <1>6, <1>7, Zenon

-----------------------------------------------------------------------------
(* The three kinds of lists *)

LEMMA CountedFacts ==
  ASSUME NEW data \in Seq(Nat), NEW off \in Nat, NEW n \in Nat, NEW s \in Seq(Nat), HoldsAt(data, off, <<n>> \o s)
  PROVE  data[off + 1] = n /\ HoldsAt(data, off + 1, s)
<1> DEFINE head == <<n>>
           enc == head \o s
<1>1. head \in Seq(Nat) /\ Len(head) = 1 /\ head[1] = n
  OBVIOUS
<1> HIDE DEF head
<1>2. enc \in Seq(Nat) /\ Len(enc) = Len(head) + Len(s) /\ HoldsAt(enc, Len(head), s)
  BY <1>1, ConcatRight
<1>3. enc[1] = n
  BY <1>1, ConcatProperties
<1>4. HoldsAt(data, off, enc)
  BY DEF head
<1> HIDE DEF enc
<1>5. HoldsAt(enc, 1, s) /\ 1 \in 1..Len(enc)
  <2>1. Len(s) \in Nat
    OBVIOUS
  <2> QED
    BY <1>1, <1>2, <2>1, SMTT(30)
<1>6. data[off + 1] = n
  BY <1>3, <1>4, <1>5, Zenon DEF HoldsAt
<1>7. HoldsAt(data, off + 1, s)
  BY <1>2, <1>4, <1>5, HoldsWithin, SMTT(30)
<1> QED
  BY <1>6, <1>7

LEMMA WordsReadBack ==
  ASSUME NEW data \in Seq(Nat), NEW off \in Nat, NEW v \in Seq(Nat), HoldsAt(data, off, Encode("uint256[]", v))
  PROVE  Decode("uint256[]", data, off + 1) = v
<1>1. Encode("uint256[]", v) = <<Len(v)>> \o v
  BY DEF Encode
<1>2. Decode("uint256[]", data, off + 1) = SubSeq(data, (off + 1) + 1, (off + 1) + data[off + 1])
  BY DEF Decode
<1>3. Len(v) \in Nat /\ off + 1 \in Nat
  OBVIOUS
<1>4. data[off + 1] = Len(v) /\ HoldsAt(data, off + 1, v)
  <2>1. HoldsAt(data, off, <<Len(v)>> \o v)
    BY <1>1, Zenon
  <2> QED
    BY <1>3, <2>1, CountedFacts, Zenon
<1>5. SubSeq(data, (off + 1) + 1, (off + 1) + Len(v)) = v
  BY <1>3, <1>4, HoldsSubSeq
<1> QED
  BY <1>2, <1>4, <1>5, Zenon

LEMMA TuplesReadBack ==
  ASSUME NEW data \in Seq(Nat), NEW off \in Nat, NEW v \in Seq(Seq(Nat)), \A i \in 1..Len(v) : Len(v[i]) = 4,
         HoldsAt(data, off, Encode("tuple[]", v))
  PROVE  Decode("tuple[]", data, off + 1) = v
<1> DEFINE at == off + 1
           n == Len(v)
           flat == FlattenSeq(v)
<1>1. Encode("tuple[]", v) = <<n>> \o flat
  BY DEF Encode
<1>2. Decode("tuple[]", data, at) = [k \in 1..data[at] |-> SubSeq(data, at + 4 * k - 3, at + 4 * k)]
  BY DEF Decode
<1>3. n \in Nat /\ at \in Nat
  OBVIOUS
<1>4. flat \in Seq(Nat)
  BY FlattenType
<1> HIDE DEF flat
<1>5. data[at] = n /\ HoldsAt(data, at, flat)
  <2>1. HoldsAt(data, off, <<n>> \o flat)
    BY <1>1, Zenon
  <2> HIDE DEF n
  <2> QED
    BY <1>3, <1>4, <2>1, CountedFacts, Zenon
<1> HIDE DEF at
<1>6. ASSUME NEW k \in 1..n PROVE SubSeq(data, at + 4 * k - 3, at + 4 * k) = v[k]
  <2>1. k - 1 \in 0..Len(v) /\ 4 \in Nat /\ v[k] \in Seq(Nat) /\ Len(v[k]) = 4
    BY <1>3
  <2>2. Len(FlattenSeq(SubSeq(v, 1, k - 1))) = 4 * (k - 1)
    BY <2>1, FlattenUniform
  <2>3. HoldsAt(flat, Len(FlattenSeq(SubSeq(v, 1, k - 1))), v[k])
    BY FlattenPart DEF flat
  <2> DEFINE pos == 4 * (k - 1)
  <2>4. HoldsAt(flat, pos, v[k])
    BY <2>2, <2>3
  <2>5. pos \in Nat /\ at + pos \in Nat /\ (at + pos) + 1 = at + 4 * k - 3 /\ (at + pos) + 4 = at + 4 * k
    BY <1>3
  <2> HIDE DEF pos
  <2>6. HoldsAt(data, at + pos, v[k])
    BY <1>3, <1>4, <1>5, <2>1, <2>4, <2>5, HoldsWithin, SMTT(30)
  <2>7. SubSeq(data, (at + pos) + 1, (at + pos) + Len(v[k])) = v[k]
    BY <2>1, <2>5, <2>6, HoldsSubSeq
  <2> QED
    BY <2>1, <2>5, <2>7
<1>7. [k \in 1..n |-> SubSeq(data, at + 4 * k - 3, at + 4 * k)] = [k \in 1..n |-> v[k]]
  BY <1>6
<1>8. v = [k \in 1..n |-> v[k]]
  OBVIOUS
<1> QED
  BY <1>2, <1>5, <1>7, <1>8, Zenon DEF at

\* An offset in words.
OffsetIs(parts, k, q) == q \in Nat /\ OffsetOf(parts, k) \in Nat /\ OffsetOf(parts, k) \div WordBytes = q

LEMMA OffsetFacts ==
  ASSUME NEW parts \in Seq(Seq(Nat)), NEW k \in 1..Len(parts)
  PROVE  OffsetIs(parts, k, Len(parts) + Len(FlattenSeq(SubSeq(parts, 1, k - 1))))
<1> DEFINE before == FlattenSeq(SubSeq(parts, 1, k - 1))
           q == Len(parts) + Len(before)
<1>1. k - 1 \in 0..Len(parts) /\ Len(parts) \in Nat
  OBVIOUS
<1>2. SubSeq(parts, 1, k - 1) \in Seq(Seq(Nat))
  BY <1>1, PrefixType, SMTT(30)
<1>3. before \in Seq(Nat)
  BY <1>2, FlattenType
<1> HIDE DEF before
<1>4. q \in Nat
  BY <1>1, <1>3
<1>5. OffsetOf(parts, k) = WordBytes * q
  BY DEF OffsetOf, before
<1> HIDE DEF q
<1>6. WordBytes \in Nat \ {0} /\ 0 \in Nat /\ 0 < WordBytes
  BY WordAssumption
<1>7. (WordBytes * q + 0) \div WordBytes = q
  BY <1>4, <1>6, QuotientOf, SMTT(30)
<1>8. WordBytes * q \in Nat /\ WordBytes * q + 0 = WordBytes * q
  BY <1>4, <1>6, SMTT(30)
<1>9. OffsetIs(parts, k, q)
  BY <1>4, <1>5, <1>7, <1>8, Zenon DEF OffsetIs
<1> QED
  BY <1>9 DEF q, before

\* Behind the offsets each part is where its offset says.
LEMMA PartPlace ==
  ASSUME NEW parts \in Seq(Seq(Nat)), NEW head \in Seq(Nat), Len(head) = Len(parts), NEW k \in 1..Len(parts)
  PROVE  HoldsAt(head \o FlattenSeq(parts), Len(parts) + Len(FlattenSeq(SubSeq(parts, 1, k - 1))), parts[k])
<1> DEFINE before == FlattenSeq(SubSeq(parts, 1, k - 1))
           flat == FlattenSeq(parts)
<1>1. HoldsAt(flat, Len(before), parts[k])
  BY FlattenPart
<1>2. k - 1 \in 0..Len(parts)
  OBVIOUS
<1>3. SubSeq(parts, 1, k - 1) \in Seq(Seq(Nat))
  BY <1>2, PrefixType
<1>4. before \in Seq(Nat) /\ flat \in Seq(Nat) /\ parts[k] \in Seq(Nat)
  <2>1. before \in Seq(Nat)
    BY <1>3, FlattenType
  <2>2. flat \in Seq(Nat)
    BY FlattenType
  <2>3. parts[k] \in Seq(Nat)
    OBVIOUS
  <2> QED
    BY <2>1, <2>2, <2>3, SMTT(30)
<1> HIDE DEF before, flat
<1>5. Len(before) \in Nat
  BY <1>4
<1>6. HoldsAt(head \o flat, Len(head) + Len(before), parts[k])
  BY <1>1, <1>4, <1>5, HoldsAfter
<1> QED
  BY <1>6 DEF before, flat

LEMMA ElementsReadBack ==
  ASSUME NEW data \in Seq(Nat), NEW off \in Nat, NEW v \in Seq(Seq(Byte)), HoldsAt(data, off, Encode("bytes[]", v))
  PROVE  Decode("bytes[]", data, off + 1) = v
<1> DEFINE at == off + 1
           n == Len(v)
           parts == [k \in 1..n |-> EncodeBytes(v[k])]
           offsets == [k \in 1..n |-> OffsetOf(parts, k)]
           flat == FlattenSeq(parts)
           body == offsets \o flat
           Before(k) == FlattenSeq(SubSeq(parts, 1, k - 1))
<1>0. DOMAIN v = 1..n
  OBVIOUS
<1>1. Encode("bytes[]", v) = (<<n>> \o offsets) \o flat
  BY <1>0 DEF Encode
<1>2. Decode("bytes[]", data, at) = [k \in 1..data[at] |-> DecodeBytes(data, at + 1 + data[at + k] \div WordBytes)]
  BY DEF Decode
<1>3. n \in Nat /\ at \in Nat
  OBVIOUS
<1>4. /\ parts = [k \in 1..n |-> parts[k]]
      /\ \A k \in 1..n : parts[k] = EncodeBytes(v[k])
      /\ offsets = [k \in 1..n |-> offsets[k]]
      /\ \A k \in 1..n : offsets[k] = OffsetOf(parts, k)
  OBVIOUS
<1> HIDE DEF parts, offsets
<1>5. \A k \in 1..n : v[k] \in Seq(Byte) /\ parts[k] \in Seq(Nat)
  <2> SUFFICES ASSUME NEW k \in 1..n PROVE v[k] \in Seq(Byte) /\ parts[k] \in Seq(Nat)
    OBVIOUS
  <2>1. v[k] \in Seq(Byte)
    OBVIOUS
  <2>2. EncodeBytes(v[k]) \in Seq(Nat)
    BY <2>1, EncodedElement
  <2> QED
    BY <1>4, <2>1, <2>2, SMTT(30)
<1>6. parts \in Seq(Seq(Nat)) /\ Len(parts) = n
  BY <1>3, <1>4, <1>5, IntervalIsSequence, SMTT(30)
<1>7. \A k \in 1..n : OffsetIs(parts, k, n + Len(Before(k)))
  BY <1>6, OffsetFacts
<1> HIDE DEF Before
<1>8. offsets \in Seq(Nat) /\ Len(offsets) = n
  <2>1. \A k \in 1..n : offsets[k] \in Nat
    BY <1>4, <1>7 DEF OffsetIs
  <2> QED
    BY <1>3, <1>4, <2>1, IntervalIsSequence
<1>9. flat \in Seq(Nat)
  BY <1>6, FlattenType
<1>10. \A k \in 1..n : HoldsAt(body, n + Len(Before(k)), parts[k])
  BY <1>6, <1>8, PartPlace DEF Before
<1> HIDE DEF flat
<1>11. /\ body \in Seq(Nat) /\ Len(body) = n + Len(flat)
       /\ \A k \in 1..n : body[k] = offsets[k]
  <2>1. body \in Seq(Nat) /\ Len(body) = Len(offsets) + Len(flat)
    BY <1>8, <1>9, ConcatProperties
  <2>2. \A k \in 1..Len(offsets) : body[k] = offsets[k]
    BY <1>8, <1>9, ConcatProperties
  <2> QED
    BY <1>8, <2>1, <2>2, Zenon
<1>12. data[at] = n /\ HoldsAt(data, at, body)
  <2> DEFINE count == <<n>>
  <2>1. count \in Seq(Nat)
    BY <1>3
  <2>2. HoldsAt(data, off, (count \o offsets) \o flat)
    BY <1>1, Zenon
  <2> HIDE DEF count
  <2>3. Reassociated(count, offsets, flat)
    BY <1>8, <1>9, <2>1, Reassociate
  <2>4. HoldsAt(data, off, count \o body)
    BY <2>2, <2>3, Zenon DEF Reassociated
  <2> HIDE DEF body, n
  <2> QED
    BY <1>3, <1>11, <2>4, CountedFacts, Zenon DEF count
<1> HIDE DEF body, at
<1>13. ASSUME NEW k \in 1..n PROVE DecodeBytes(data, at + 1 + data[at + k] \div WordBytes) = v[k]
  <2> DEFINE q == n + Len(Before(k))
  <2>1. q \in Nat /\ OffsetOf(parts, k) \div WordBytes = q
    BY <1>7, Zenon DEF OffsetIs
  <2>2. HoldsAt(body, q, parts[k])
    BY <1>10
  <2> HIDE DEF q
  <2>3. k \in 1..Len(body) /\ data[at + k] = OffsetOf(parts, k)
    <3>1. k \in 1..Len(body)
      BY <1>3, <1>9, <1>11
    <3> QED
      BY <1>4, <1>11, <1>12, <3>1 DEF HoldsAt
  <2>4. HoldsAt(data, at + q, parts[k])
    BY <1>3, <1>5, <1>11, <1>12, <2>1, <2>2, HoldsWithin
  <2>5. HoldsAt(data, at + q, EncodeBytes(v[k])) /\ at + q \in Nat /\ v[k] \in Seq(Byte)
    BY <1>3, <1>4, <1>5, <2>1, <2>4, SMTT(30)
  <2>6. DecodeBytes(data, (at + q) + 1) = v[k]
    BY <2>5, ElementReadsBack, SMTT(30)
  <2>7. at + 1 + data[at + k] \div WordBytes = (at + q) + 1
    BY <1>3, <2>1, <2>3, SMTT(30)
  <2> QED
    BY <2>6, <2>7
<1>14. [k \in 1..n |-> DecodeBytes(data, at + 1 + data[at + k] \div WordBytes)] = [k \in 1..n |-> v[k]]
  BY <1>13
<1>15. v = [k \in 1..n |-> v[k]]
  OBVIOUS
<1> QED
  BY <1>2, <1>12, <1>14, <1>15, Zenon DEF at

-----------------------------------------------------------------------------
(* The six fields *)

\* A value of an ABI type.
HasType(type, v) ==
  \/ type = "uint256" /\ v \in Nat
  \/ type = "uint256[]" /\ v \in Seq(Nat)
  \/ type = "tuple[]" /\ v \in Seq(Seq(Nat)) /\ \A i \in 1..Len(v) : Len(v[i]) = 4
  \/ type = "bytes[]" /\ v \in Seq(Seq(Byte))

LEMMA EncodedType ==
  ASSUME NEW type, NEW v, HasType(type, v)
  PROVE  Encode(type, v) \in Seq(Nat)
<1>1. CASE type = "uint256"
  BY <1>1 DEF Encode
<1>2. CASE type = "uint256[]" /\ v \in Seq(Nat)
  <2>1. Encode(type, v) = <<Len(v)>> \o v
    BY <1>2 DEF Encode
  <2>2. <<Len(v)>> \in Seq(Nat)
    BY <1>2
  <2> QED
    BY <1>2, <2>1, <2>2, ConcatRight, Zenon
<1>3. CASE type = "tuple[]" /\ v \in Seq(Seq(Nat))
  <2>1. Encode(type, v) = <<Len(v)>> \o FlattenSeq(v)
    BY <1>3 DEF Encode
  <2>2. <<Len(v)>> \in Seq(Nat)
    BY <1>3
  <2>3. FlattenSeq(v) \in Seq(Nat)
    BY <1>3, FlattenType
  <2> QED
    BY <2>1, <2>2, <2>3, ConcatRight, Zenon
<1>4. CASE type = "bytes[]" /\ v \in Seq(Seq(Byte))
  <2> DEFINE n == Len(v)
             parts == [k \in 1..n |-> EncodeBytes(v[k])]
             offsets == [k \in 1..n |-> OffsetOf(parts, k)]
  <2>0. DOMAIN v = 1..n /\ n \in Nat
    BY <1>4
  <2>1. Encode(type, v) = (<<n>> \o offsets) \o FlattenSeq(parts)
    BY <1>4, <2>0 DEF Encode
  <2>2. parts = [k \in 1..n |-> parts[k]] /\ offsets = [k \in 1..n |-> offsets[k]]
    OBVIOUS
  <2>3. \A k \in 1..n : parts[k] \in Seq(Nat)
    <3> SUFFICES ASSUME NEW k \in 1..n PROVE EncodeBytes(v[k]) \in Seq(Nat)
      OBVIOUS
    <3>1. v[k] \in Seq(Byte)
      BY <1>4
    <3> QED
      BY <3>1, EncodedElement
  <2>4. \A k \in 1..n : offsets[k] = OffsetOf(parts, k)
    OBVIOUS
  <2> HIDE DEF parts, offsets
  <2>5. parts \in Seq(Seq(Nat)) /\ Len(parts) = n
    BY <2>0, <2>2, <2>3, IntervalIsSequence, SMTT(30)
  <2>6. \A k \in 1..n : offsets[k] \in Nat
    BY <2>4, <2>5, OffsetFacts, SMTT(30) DEF OffsetIs
  <2>7. offsets \in Seq(Nat) /\ FlattenSeq(parts) \in Seq(Nat) /\ <<n>> \in Seq(Nat)
    <3>1. offsets \in Seq(Nat)
      BY <2>0, <2>2, <2>6, IntervalIsSequence, SMTT(30)
    <3>2. FlattenSeq(parts) \in Seq(Nat)
      BY <2>5, FlattenType
    <3>3. <<n>> \in Seq(Nat)
      BY <2>0
    <3> QED
      BY <3>1, <3>2, <3>3, SMTT(30)
  <2>8. <<n>> \o offsets \in Seq(Nat)
    BY <2>7, ConcatRight, Zenon
  <2> QED
    BY <2>1, <2>7, <2>8, ConcatRight, Zenon
<1> QED
  BY <1>1, <1>2, <1>3, <1>4, SMTT(30) DEF HasType

\* What Encode lays down, Decode reads.
LEMMA ValueReadsBack ==
  ASSUME NEW type, NEW v, HasType(type, v), type # "uint256",
         NEW data \in Seq(Nat), NEW off \in Nat, HoldsAt(data, off, Encode(type, v))
  PROVE  Decode(type, data, off + 1) = v
<1>1. CASE type = "uint256[]" /\ v \in Seq(Nat)
  BY <1>1, WordsReadBack, SMTT(30)
<1>2. CASE type = "tuple[]" /\ v \in Seq(Seq(Nat)) /\ \A i \in 1..Len(v) : Len(v[i]) = 4
  BY <1>2, TuplesReadBack
<1>3. CASE type = "bytes[]" /\ v \in Seq(Seq(Byte))
  BY <1>3, ElementsReadBack
<1> QED
  BY <1>1, <1>2, <1>3, SMTT(30) DEF HasType

\* The encodings of the arguments.
PartsOf(types, args) == [k \in DOMAIN types |-> Encode(types[k], args[k])]

\* A head points to its part.
HeadPoints(types, parts, head) ==
  \A k \in 1..Len(types) : types[k] # "uint256" => head[k] = OffsetOf(parts, k)

LEMMA UnpackedFacts ==
  ASSUME NEW S, NEW types \in Seq(S), NEW args, \A k \in 1..Len(types) : HasType(types[k], args[k]),
         NEW head \in Seq(Nat), Len(head) = Len(types), HeadPoints(types, PartsOf(types, args), head)
  PROVE  Unpack(types, head \o FlattenSeq(PartsOf(types, args))) =
           [k \in 1..Len(types) |-> IF types[k] = "uint256" THEN head[k] ELSE args[k]]
<1> DEFINE n == Len(types)
           parts == PartsOf(types, args)
           flat == FlattenSeq(parts)
           data == head \o flat
           Before(k) == FlattenSeq(SubSeq(parts, 1, k - 1))
<1>1. n \in Nat /\ DOMAIN types = 1..n
  OBVIOUS
<1>2. parts = [k \in 1..n |-> parts[k]] /\ \A k \in 1..n : parts[k] = Encode(types[k], args[k])
  BY <1>1 DEF PartsOf
<1> HIDE DEF parts
<1>3. \A k \in 1..n : parts[k] \in Seq(Nat)
  BY <1>2, EncodedType
<1>4. parts \in Seq(Seq(Nat)) /\ Len(parts) = n
  BY <1>1, <1>2, <1>3, IntervalIsSequence, SMTT(30)
<1>5. flat \in Seq(Nat)
  BY <1>4, FlattenType, SMTT(30)
<1>6. \A k \in 1..n : OffsetIs(parts, k, n + Len(Before(k))) /\ HoldsAt(data, n + Len(Before(k)), parts[k])
  BY <1>4, OffsetFacts, PartPlace
<1> HIDE DEF flat, Before
<1>7. data \in Seq(Nat) /\ \A k \in 1..n : data[k] = head[k]
  BY <1>5, ConcatProperties
<1> HIDE DEF data
<1> DEFINE Field(k) == IF types[k] = "uint256" THEN data[k] ELSE Decode(types[k], data, data[k] \div WordBytes + 1)
<1>8. ASSUME NEW k \in 1..n, types[k] # "uint256"
      PROVE  Decode(types[k], data, data[k] \div WordBytes + 1) = args[k]
  <2> DEFINE q == n + Len(Before(k))
  <2>1. q \in Nat /\ OffsetOf(parts, k) \div WordBytes = q /\ HoldsAt(data, q, parts[k])
    BY <1>6, Zenon DEF OffsetIs
  <2> HIDE DEF q
  <2>2. data[k] \div WordBytes = q
    BY <1>7, <1>8, <2>1 DEF HeadPoints, parts
  <2>3. Decode(types[k], data, q + 1) = args[k]
    BY <1>2, <1>7, <1>8, <2>1, ValueReadsBack
  <2> QED
    BY <2>2, <2>3
<1>9. \A k \in 1..n : Field(k) = IF types[k] = "uint256" THEN head[k] ELSE args[k]
  BY <1>7, <1>8
<1>10. Unpack(types, data) = [k \in 1..n |-> Field(k)]
  BY <1>1 DEF Unpack
<1> HIDE DEF Field
<1>11. [k \in 1..n |-> Field(k)] = [k \in 1..n |-> IF types[k] = "uint256" THEN head[k] ELSE args[k]]
  BY <1>9
<1> QED
  BY <1>10, <1>11, Zenon DEF data, flat, parts

\* The arguments of PackEGTXLogDataEvent.
IsEvent(args) == \A k \in 1..6 : HasType(a[k], args[k])

\* The data of a packed event, with x in its first word.
IsPacked(data, args, x) ==
  \E head \in Seq(Nat) :
    /\ Len(head) = 6 /\ head[1] = x
    /\ HeadPoints(a, PartsOf(a, args), head)
    /\ data = head \o FlattenSeq(PartsOf(a, args))

LEMMA EventTypes ==
  /\ a \in Seq({"uint256", "uint256[]", "tuple[]", "bytes[]"}) /\ Len(a) = 6 /\ DOMAIN a = 1..6
  /\ a[1] = "uint256" /\ \A k \in 2..6 : a[k] # "uint256"
  /\ b = a
BY DEF a, b

LEMMA PartsFacts ==
  ASSUME NEW args, IsEvent(args)
  PROVE  /\ PartsOf(a, args) \in Seq(Seq(Nat)) /\ Len(PartsOf(a, args)) = 6
         /\ FlattenSeq(PartsOf(a, args)) \in Seq(Nat)
<1> DEFINE parts == PartsOf(a, args)
<1>1. parts = [k \in 1..6 |-> parts[k]] /\ \A k \in 1..6 : parts[k] = Encode(a[k], args[k])
  BY EventTypes DEF PartsOf
<1> HIDE DEF parts
<1>2. \A k \in 1..6 : parts[k] \in Seq(Nat)
  BY <1>1, EncodedType, SMTT(30) DEF IsEvent
<1>3. parts \in Seq(Seq(Nat)) /\ Len(parts) = 6
  BY <1>1, <1>2, IntervalIsSequence, SMTT(30)
<1>4. FlattenSeq(parts) \in Seq(Nat)
  BY <1>3, FlattenType
<1> QED
  BY <1>3, <1>4, SMTT(30) DEF parts

LEMMA PackedIs ==
  ASSUME NEW args, IsEvent(args)
  PROVE  IsPacked(PackEGTXLogDataEvent(args), args, args[1])
<1> DEFINE parts == PartsOf(a, args)
           head == [k \in 1..6 |-> IF a[k] = "uint256" THEN args[k] ELSE OffsetOf(parts, k)]
<1>1. parts \in Seq(Seq(Nat)) /\ Len(parts) = 6
  BY PartsFacts
<1>2. PackEGTXLogDataEvent(args) = head \o FlattenSeq(parts)
  BY EventTypes DEF PackEGTXLogDataEvent, Pack, PartsOf
<1> HIDE DEF parts
<1>3. \A k \in 1..6 : OffsetOf(parts, k) \in Nat
  BY <1>1, OffsetFacts DEF OffsetIs
<1>4. HasType(a[1], args[1])
  BY DEF IsEvent
<1>5. args[1] \in Nat
  BY <1>4, EventTypes DEF HasType
<1>6. \A k \in 1..6 : head[k] = IF k = 1 THEN args[1] ELSE OffsetOf(parts, k)
  BY EventTypes
<1>7. head = [k \in 1..6 |-> head[k]]
  OBVIOUS
<1> HIDE DEF head
<1>8. \A k \in 1..6 : head[k] \in Nat
  BY <1>3, <1>5, <1>6, SMTT(30)
<1>9. head \in Seq(Nat) /\ Len(head) = 6
  BY <1>7, <1>8, IntervalIsSequence, SMTT(30)
<1>10. HeadPoints(a, parts, head)
  BY <1>6, EventTypes DEF HeadPoints
<1>11. head[1] = args[1]
  BY <1>6
<1> QED
  BY <1>2, <1>9, <1>10, <1>11, Zenon DEF IsPacked, parts

LEMMA RefreshedIs ==
  ASSUME NEW args, IsEvent(args), NEW x, NEW data, IsPacked(data, args, x), NEW count \in Nat
  PROVE  IsPacked(RefreshData(data, count), args, count)
<1> DEFINE parts == PartsOf(a, args)
           flat == FlattenSeq(parts)
<1>1. parts \in Seq(Seq(Nat)) /\ Len(parts) = 6 /\ flat \in Seq(Nat)
  BY PartsFacts
<1>2. PICK head \in Seq(Nat) : Len(head) = 6 /\ HeadPoints(a, parts, head) /\ data = head \o flat
  BY DEF IsPacked
<1> HIDE DEF parts, flat
<1> DEFINE new == [head EXCEPT ![1] = count]
<1>3. new \in Seq(Nat) /\ Len(new) = 6 /\ new[1] = count /\ \A k \in 2..6 : new[k] = head[k]
  BY <1>2, SMTT(30)
<1>4. HeadPoints(a, parts, new)
  BY <1>2, <1>3, EventTypes, SMTT(30) DEF HeadPoints
<1> HIDE DEF new
<1>5. /\ data \in Seq(Nat) /\ Len(data) = 6 + Len(flat) /\ Len(flat) \in Nat
      /\ \A i \in 1..(6 + Len(flat)) : data[i] = IF i <= 6 THEN head[i] ELSE flat[i - 6]
  <2>1. /\ head \o flat \in Seq(Nat) /\ Len(head \o flat) = Len(head) + Len(flat) /\ Len(flat) \in Nat
        /\ \A i \in 1..(Len(head) + Len(flat)) :
             (head \o flat)[i] = IF i <= Len(head) THEN head[i] ELSE flat[i - Len(head)]
    <3>1. head \in Seq(Nat) /\ flat \in Seq(Nat)
      BY <1>1
    <3> QED
      BY <3>1, ConcatProperties, SMTT(30)
  <2> QED
    BY <1>2, <2>1, Zenon
<1> DEFINE more == new \o flat
<1>6. /\ more \in Seq(Nat) /\ Len(more) = 6 + Len(flat)
      /\ \A i \in 1..(6 + Len(flat)) : more[i] = IF i <= 6 THEN new[i] ELSE flat[i - 6]
  <2>1. /\ more \in Seq(Nat) /\ Len(more) = Len(new) + Len(flat)
        /\ \A i \in 1..(Len(new) + Len(flat)) : more[i] = IF i <= Len(new) THEN new[i] ELSE flat[i - Len(new)]
    BY <1>1, <1>3, ConcatProperties
  <2> QED
    BY <1>3, <2>1, Zenon
<1> HIDE DEF more
<1> DEFINE refreshed == [data EXCEPT ![1] = count]
<1>7. RefreshData(data, count) = refreshed
  BY <1>5 DEF RefreshData
<1>8. /\ refreshed \in Seq(Nat) /\ Len(refreshed) = 6 + Len(flat)
      /\ \A i \in 1..(6 + Len(flat)) : refreshed[i] = IF i = 1 THEN count ELSE data[i]
  BY <1>5
<1> HIDE DEF refreshed
<1>9. \A i \in 1..(6 + Len(flat)) : refreshed[i] = more[i]
  <2> SUFFICES ASSUME NEW i \in 1..(6 + Len(flat)) PROVE refreshed[i] = more[i]
    OBVIOUS
  <2>1. /\ refreshed[i] = IF i = 1 THEN count ELSE data[i]
        /\ data[i] = IF i <= 6 THEN head[i] ELSE flat[i - 6]
        /\ more[i] = IF i <= 6 THEN new[i] ELSE flat[i - 6]
    BY <1>5, <1>6, <1>8, SMTT(30)
  <2>2. i = 1 \/ i \in 2..6 \/ ~(i <= 6 \/ i = 1)
    BY <1>5
  <2>3. 1 <= 6 /\ \A k \in 2..6 : k <= 6 /\ k # 1
    OBVIOUS
  <2> QED
    BY <1>3, <2>1, <2>2, <2>3, Zenon
<1>10. refreshed = more
  BY <1>6, <1>8, <1>9, SeqEqual, SMTT(30)
<1> QED
  BY <1>3, <1>4, <1>7, <1>10, Zenon DEF IsPacked, more, flat, parts

LEMMA PackedReadsBack ==
  ASSUME NEW args, IsEvent(args), NEW x, NEW data, IsPacked(data, args, x)
  PROVE  UnPackEGTXLog(data) = [k \in 1..6 |-> IF k = 1 THEN x ELSE args[k]]
<1> DEFINE parts == PartsOf(a, args)
<1>1. PICK head \in Seq(Nat) :
        Len(head) = 6 /\ head[1] = x /\ HeadPoints(a, parts, head) /\ data = head \o FlattenSeq(parts)
  BY DEF IsPacked
<1>2. UnPackEGTXLog(data) = Unpack(a, head \o FlattenSeq(parts))
  BY <1>1, EventTypes DEF UnPackEGTXLog
<1>3. Unpack(a, head \o FlattenSeq(parts)) = [k \in 1..Len(a) |-> IF a[k] = "uint256" THEN head[k] ELSE args[k]]
  <2>1. \A k \in 1..Len(a) : HasType(a[k], args[k])
    BY EventTypes DEF IsEvent
  <2>2. Len(head) = Len(a)
    BY <1>1, EventTypes
  <2>3. a \in Seq({"uint256", "uint256[]", "tuple[]", "bytes[]"})
    BY EventTypes
  <2>4. HeadPoints(a, PartsOf(a, args), head)
    BY <1>1
  <2> QED
    BY <2>1, <2>2, <2>3, <2>4, UnpackedFacts, SMTT(60)
<1>4. [k \in 1..Len(a) |-> IF a[k] = "uint256" THEN head[k] ELSE args[k]] =
        [k \in 1..6 |-> IF k = 1 THEN x ELSE args[k]]
  BY <1>1, EventTypes
<1> QED
  BY <1>2, <1>3, <1>4, SMTT(30)

\* What PackEGTXLogDataEvent packs UnPackEGTXLog reads back, for lists and
\* elements of any length and any size of a word, after the backend has
\* written the confirmation count over the first word as well.
THEOREM EventReadsBack ==
  ASSUME NEW args, IsEvent(args), NEW count \in Nat
  PROVE  /\ UnPackEGTXLog(PackEGTXLogDataEvent(args)) = [k \in 1..6 |-> args[k]]
         /\ UnPackEGTXLog(RefreshData(PackEGTXLogDataEvent(args), count)) =
              [k \in 1..6 |-> IF k = 1 THEN count ELSE args[k]]
<1> DEFINE data == PackEGTXLogDataEvent(args)
<1>1. IsPacked(data, args, args[1])
  BY PackedIs
<1>2. IsPacked(RefreshData(data, count), args, count)
  BY <1>1, RefreshedIs
<1>3. UnPackEGTXLog(data) = [k \in 1..6 |-> IF k = 1 THEN args[1] ELSE args[k]]
  BY <1>1, PackedReadsBack
<1>4. UnPackEGTXLog(RefreshData(data, count)) = [k \in 1..6 |-> IF k = 1 THEN count ELSE args[k]]
  BY <1>2, PackedReadsBack
<1> QED
  BY <1>3, <1>4

-----------------------------------------------------------------------------
(* What the conversion uses of the same arithmetic *)

LEMMA ProductMonotoneLeft ==
  ASSUME NEW x \in Nat, NEW y \in Nat, NEW w \in Nat, x <= y
  PROVE  x * w <= y * w
<1>1. w * x <= w * y
  BY ProductMonotone
<1>2. w * x = x * w /\ w * y = y * w
  OBVIOUS
<1> QED
  BY <1>1, <1>2

LEMMA SmallRemainder ==
  ASSUME NEW x \in Nat, NEW w \in Nat \ {0}, x < w
  PROVE  x % w = x
OBVIOUS

\* Zero bytes in front do not change the number.
LEMMA NumberOfPadded ==
  ASSUME NEW o \in Seq(Nat), NEW k \in Nat
  PROVE  Number(Zeros(k) \o o) = Number(o)
<1> DEFINE z == Zeros(k)
           c == z \o o
           m == Len(o)
<1>1. z \in Seq(Nat) /\ Len(z) = k /\ \A i \in 1..k : z[i] = 0
  BY DEF Zeros
<1>2. m \in Nat
  OBVIOUS
<1> HIDE DEF z
<1>3. /\ c \in Seq(Nat) /\ Len(c) = k + m
      /\ \A i \in 1..k : c[i] = 0
      /\ \A i \in 1..m : c[k + i] = o[i]
  <2>1. /\ c \in Seq(Nat) /\ Len(c) = Len(z) + Len(o)
        /\ \A i \in 1..(Len(z) + Len(o)) : c[i] = IF i <= Len(z) THEN z[i] ELSE o[i - Len(z)]
    <3>1. z \in Seq(Nat) /\ o \in Seq(Nat)
      BY <1>1
    <3> QED
      BY <3>1, ConcatProperties
  <2>2. /\ c \in Seq(Nat) /\ Len(c) = k + m
        /\ \A i \in 1..(k + m) : c[i] = IF i <= k THEN z[i] ELSE o[i - k]
    BY <1>1, <2>1, Zenon
  <2> HIDE DEF c, m
  <2>3. ASSUME NEW i \in 1..k PROVE c[i] = 0
    BY <1>1, <1>2, <2>2
  <2>4. ASSUME NEW i \in 1..m PROVE c[k + i] = o[i]
    <3>1. k + i \in 1..(k + m) /\ ~(k + i <= k) /\ (k + i) - k = i
      BY <1>2
    <3>2. c[k + i] = o[(k + i) - k]
      BY <2>2, <3>1, Zenon
    <3> QED
      BY <3>1, <3>2
  <2> QED
    BY <2>2, <2>3, <2>4, SMTT(30)
<1> HIDE DEF c
<1>4. PICK f : Number(o) = f[m] /\ NumberLoop(f, o, m)
  BY <1>2, NumberDef
<1>5. PICK g : Number(c) = g[k + m] /\ NumberLoop(g, c, k + m)
  <2>1. k + m \in Nat
    BY <1>2
  <2> HIDE DEF m
  <2> QED
    BY <1>3, <2>1, NumberDef, SMTT(30)
<1> HIDE DEF m
<1>6. /\ f[0] = 0 /\ g[0] = 0
      /\ \A i \in 1..m : f[i] = 256 * f[i - 1] + o[i]
      /\ \A i \in 1..(k + m) : g[i] = 256 * g[i - 1] + c[i]
  BY <1>4, <1>5 DEF NumberLoop
<1> DEFINE T == {i \in Nat : i <= k => g[i] = 0}
           U == {i \in Nat : i <= m => g[k + i] = f[i]}
<1>7. Nat \subseteq T
  <2>1. 0 \in T
    BY <1>6
  <2>2. ASSUME NEW i \in Nat, i \in T PROVE i + 1 \in T
    <3> SUFFICES ASSUME i + 1 <= k PROVE g[i + 1] = 0
      OBVIOUS
    <3>1. i + 1 \in 1..(k + m) /\ i + 1 \in 1..k /\ (i + 1) - 1 = i /\ g[i] = 0
      BY <1>2, <2>2, SMTT(30)
    <3>2. g[i + 1] = 256 * g[(i + 1) - 1] + c[i + 1] /\ c[i + 1] = 0
      BY <1>3, <1>6, <3>1
    <3> QED
      BY <3>1, <3>2
  <2> HIDE DEF T
  <2> QED
    BY <2>1, <2>2, Induction, SMTT(30)
<1>8. Nat \subseteq U
  <2>1. 0 \in U
    <3>1. k + 0 = k /\ k \in T
      BY <1>7
    <3> QED
      BY <1>6, <3>1
  <2>2. ASSUME NEW i \in Nat, i \in U PROVE i + 1 \in U
    <3> SUFFICES ASSUME i + 1 <= m PROVE g[k + (i + 1)] = f[i + 1]
      OBVIOUS
    <3>1. /\ k + (i + 1) \in 1..(k + m) /\ i + 1 \in 1..m /\ (k + (i + 1)) - 1 = k + i /\ (i + 1) - 1 = i
          /\ g[k + i] = f[i]
      BY <1>2, <2>2
    <3>2. /\ g[k + (i + 1)] = 256 * g[(k + (i + 1)) - 1] + c[k + (i + 1)]
          /\ f[i + 1] = 256 * f[(i + 1) - 1] + o[i + 1]
          /\ c[k + (i + 1)] = o[i + 1]
      BY <1>3, <1>6, <3>1
    <3> QED
      BY <3>1, <3>2, Zenon
  <2> HIDE DEF U
  <2> QED
    BY <2>1, <2>2, Induction
<1>9. g[k + m] = f[m]
  BY <1>2, <1>8, SMTT(30)
<1> QED
  BY <1>4, <1>5, <1>9 DEF c, z

-----------------------------------------------------------------------------
(* The conversion *)

ConvertInv ==
  /\ outcome \in {"building", "none", "error", "panic", "derived"}
  /\ outcome # "building" => tx \in Transactions
  /\ outcome \in {"error", "panic", "derived"} => outcome = Outcome(tx)
  /\ outcome = "derived" => log = DerivedLog(tx)

LEMMA OutcomeType == ASSUME NEW t PROVE Outcome(t) \in {"error", "panic", "derived"}
BY DEF Outcome

LEMMA ConvertsOnce == ASSUME ConvertInv, convertUtxoInfoToTx PROVE ConvertInv'
<1>1. /\ outcome = "none" /\ outcome' = Outcome(tx) /\ tx' = tx
      /\ Outcome(tx) = "derived" => log' = DerivedLog(tx)
  BY Zenon DEF convertUtxoInfoToTx
<1>2. tx \in Transactions /\ outcome' \in {"error", "panic", "derived"}
  BY <1>1, OutcomeType DEF ConvertInv
<1> QED
  BY <1>1, <1>2 DEF ConvertInv

LEMMA OnlyEgtxPanics == ConvertInv => OnlyEgtxCanPanic
BY DEF ConvertInv, OnlyEgtxCanPanic, Outcome, Rejects

-----------------------------------------------------------------------------
(* The parts of a log's data *)

\* The word of a payment: the address, and the value the product leaves.
TellsOf(word, out) ==
  /\ word \in Nat
  /\ word \div Uint96 = out.address
  /\ word % Uint96 = (out.value - out.cut) * WeiPerSatoshi

LEMMA WordOfPayment ==
  ASSUME NEW out \in Outputs, Fits(out)
  PROVE  TellsOf(AddressAndValue(out), out)
<1> DEFINE amount == out.value - out.cut
           v == amount * WeiPerSatoshi
           whole == out.value * WeiPerSatoshi
<1>1. /\ out.value \in Nat /\ out.address \in Nat /\ out.cut \in {0, 1}
      /\ WeiPerSatoshi \in Nat /\ Uint96 \in Nat \ {0}
  BY CandidatesAssumption, WordAssumption DEF Outputs
<1>2. amount \in Nat /\ amount <= out.value /\ whole < Uint96
  BY <1>1 DEF Fits
<1>3. v <= whole /\ v \in Nat /\ whole \in Nat
  BY <1>1, <1>2, ProductMonotoneLeft
<1>5. AddressAndValue(out) = (out.address * Uint96) + (v % Uint96)
  BY DEF AddressAndValue, AddressAnd
<1> HIDE DEF v, whole, amount
<1>6. v < Uint96
  BY <1>1, <1>2, <1>3, SMTT(30)
<1>7. v % Uint96 = v
  BY <1>1, <1>3, <1>6, SmallRemainder
<1>8. (Uint96 * out.address + v) \div Uint96 = out.address /\ (Uint96 * out.address + v) % Uint96 = v
  BY <1>1, <1>3, <1>6, QuotientOf, Zenon
<1>9. AddressAndValue(out) = Uint96 * out.address + v /\ Uint96 * out.address + v \in Nat
  BY <1>1, <1>3, <1>5, <1>7
<1> QED
  BY <1>8, <1>9, Zenon DEF TellsOf, v, amount

LEMMA PaymentsFacts ==
  ASSUME NEW outs \in Seq(Outputs), \A i \in DOMAIN outs : Fits(outs[i])
  PROVE  /\ PaymentOutputs(outs) \in Seq(Outputs)
         /\ Payments(outs) \in Seq(Nat) /\ Len(Payments(outs)) = Len(PaymentOutputs(outs))
         /\ \A i \in 1..Len(PaymentOutputs(outs)) : TellsOf(Payments(outs)[i], PaymentOutputs(outs)[i])
<1> DEFINE keep == {i \in DOMAIN outs : IsPayment(outs[i])}
           sel == PaymentOutputs(outs)
           n == Len(sel)
           words == [i \in 1..n |-> AddressAndValue(sel[i])]
<1>1. sel = Selected(outs, keep)
  BY DEF PaymentOutputs
<1>2. sel \in Seq(Outputs) /\ \E h : Enumerates(h, sel, outs, keep, Len(outs))
  BY <1>1, SelectedEnumerates, Zenon
<1> HIDE DEF sel, keep
<1>3. PICK h : Enumerates(h, sel, outs, keep, Len(outs))
  BY <1>2
<1>4. n \in Nat /\ DOMAIN sel = 1..n /\ DOMAIN outs = 1..Len(outs)
  BY <1>2
<1>5. Payments(outs) = words
  BY <1>4 DEF Payments, sel
<1>6. ASSUME NEW i \in 1..n PROVE sel[i] \in Outputs /\ Fits(sel[i])
  <2>1. h[i] \in 1..Len(outs) /\ sel[i] = outs[h[i]]
    BY <1>3 DEF Enumerates
  <2> QED
    BY <1>2, <1>4, <2>1, SMTT(30)
<1>7. \A i \in 1..n : TellsOf(words[i], sel[i])
  BY <1>6, WordOfPayment
<1>8. words = [i \in 1..n |-> words[i]]
  OBVIOUS
<1> HIDE DEF words
<1>9. \A i \in 1..n : words[i] \in Nat
  BY <1>7 DEF TellsOf
<1>10. words \in Seq(Nat) /\ Len(words) = n
  BY <1>4, <1>8, <1>9, IntervalIsSequence
<1> QED
  BY <1>2, <1>5, <1>7, <1>10 DEF sel

\* The bytes of the third and the fourth word of a token.
HeadOf(token) == <<Len(token.commitment), Capability(token.capability)>> \o PadRight(token.commitment, HeadBytes)

TailOf(token) == PadRight(SubSeq(token.commitment, HeadBytes + 1, Len(token.commitment)), WordBytes)

LEMMA ByteFacts == Byte \subseteq Nat /\ 0 \in Byte
BY DEF Byte

LEMMA HeadFacts ==
  ASSUME NEW token \in TokenData
  PROVE  /\ HeadOf(token) \in Seq(Nat) /\ Len(HeadOf(token)) = HeadBytes + 2
         /\ HeadOf(token)[1] = Len(token.commitment) /\ HeadOf(token)[2] = Capability(token.capability)
         /\ \A i \in 1..HeadBytes : HeadOf(token)[i + 2] = PadRight(token.commitment, HeadBytes)[i]
         /\ Len(token.commitment) \in Nat /\ Capability(token.capability) \in 0..3
<1> DEFINE c == token.commitment
           cap == Capability(token.capability)
           two == <<Len(c), cap>>
           pad == PadRight(c, HeadBytes)
<1>1. c \in Seq(Byte) /\ Byte \subseteq Nat /\ 0 \in Byte /\ HeadBytes \in Nat
  BY WordAssumption, ByteFacts, Zenon DEF TokenData
<1>2. cap \in 0..3
  BY DEF Capability
<1> HIDE DEF cap, c
<1>3. Len(c) \in Nat
  BY <1>1
<1>4. two \in Seq(Nat) /\ Len(two) = 2 /\ two[1] = Len(c) /\ two[2] = cap
  BY <1>2, <1>3
<1>5. pad \in Seq(Byte) /\ Len(pad) = HeadBytes
  BY <1>1, PaddedFacts, Zenon
<1>6. pad \in Seq(Nat)
  BY <1>1, <1>5, SeqMonotonic, Zenon
<1> HIDE DEF two, pad
<1> DEFINE both == two \o pad
<1>7. /\ both \in Seq(Nat) /\ Len(both) = HeadBytes + 2
      /\ \A i \in 1..(HeadBytes + 2) : both[i] = IF i <= 2 THEN two[i] ELSE pad[i - 2]
  <2>1. /\ both \in Seq(Nat) /\ Len(both) = Len(two) + Len(pad)
        /\ \A i \in 1..(Len(two) + Len(pad)) : both[i] = IF i <= Len(two) THEN two[i] ELSE pad[i - Len(two)]
    <3>1. two \in Seq(Nat) /\ pad \in Seq(Nat)
      BY <1>4, <1>6
    <3> QED
      BY <3>1, ConcatProperties
  <2>2. Len(two) = 2 /\ Len(two) + Len(pad) = HeadBytes + 2
    BY <1>1, <1>4, <1>5, SMTT(30)
  <2> QED
    BY <2>1, <2>2, Zenon
<1>8. HeadOf(token) = both
  BY DEF HeadOf, both, two, pad, cap, c
<1> HIDE DEF both
<1>9. both[1] = Len(c) /\ both[2] = cap
  BY <1>1, <1>4, <1>7
<1>10. ASSUME NEW i \in 1..HeadBytes PROVE both[i + 2] = pad[i]
  <2>1. i + 2 \in 1..(HeadBytes + 2) /\ ~(i + 2 <= 2) /\ (i + 2) - 2 = i
    BY <1>1
  <2>2. both[i + 2] = pad[(i + 2) - 2]
    BY <1>7, <2>1, Zenon
  <2> QED
    BY <2>1, <2>2
<1> QED
  BY <1>2, <1>3, <1>7, <1>8, <1>9, <1>10 DEF cap, c, pad

LEMMA TailFacts ==
  ASSUME NEW token \in TokenData
  PROVE  /\ TailOf(token) \in Seq(Byte) /\ Len(TailOf(token)) = WordBytes
         /\ \A i \in 1..WordBytes : HeadBytes + i <= Len(token.commitment) =>
              TailOf(token)[i] = token.commitment[HeadBytes + i]
<1> DEFINE c == token.commitment
           n == Len(c)
           sub == SubSeq(c, HeadBytes + 1, n)
           pad == PadRight(sub, WordBytes)
<1>1. c \in Seq(Byte) /\ 0 \in Byte /\ HeadBytes \in Nat /\ WordBytes \in Nat
  BY WordAssumption, ByteFacts, Zenon DEF TokenData
<1>2. TailOf(token) = pad
  BY DEF TailOf
<1> HIDE DEF c
<1>3. /\ sub \in Seq(Byte) /\ n \in Nat
      /\ Len(sub) = IF HeadBytes < n THEN n - HeadBytes ELSE 0
      /\ \A i \in 1..(n - HeadBytes) : sub[i] = c[HeadBytes + i]
  BY <1>1, SuffixType
<1> HIDE DEF sub
<1>4. /\ pad \in Seq(Byte) /\ Len(pad) = WordBytes
      /\ \A i \in 1..WordBytes : i <= Len(sub) => pad[i] = sub[i]
  BY <1>1, <1>3, PaddedFacts, Zenon
<1> HIDE DEF pad
<1>5. ASSUME NEW i \in 1..WordBytes, HeadBytes + i <= n PROVE pad[i] = c[HeadBytes + i]
  <2>1. i <= Len(sub) /\ i \in 1..(n - HeadBytes)
    BY <1>1, <1>3, <1>5, SMTT(30)
  <2> QED
    BY <1>3, <1>4, <2>1
<1> QED
  BY <1>2, <1>4, <1>5 DEF c

\* The four words of a token.
IsInfo(info, address, token) ==
  /\ info \in Seq(Nat) /\ Len(info) = 4
  /\ info[1] = AddressAnd(address, token.amount)
  /\ info[2] = Number(token.category)
  /\ info[3] = Number(HeadOf(token))
  /\ info[4] = Number(TailOf(token))

LEMMA FourWords ==
  ASSUME NEW x \in Nat, NEW y \in Nat, NEW z \in Nat, NEW w \in Nat
  PROVE  /\ <<x, y, z, w>> \in Seq(Nat) /\ Len(<<x, y, z, w>>) = 4
         /\ <<x, y, z, w>>[1] = x /\ <<x, y, z, w>>[2] = y /\ <<x, y, z, w>>[3] = z /\ <<x, y, z, w>>[4] = w
OBVIOUS

LEMMA TokenInfoIs ==
  ASSUME NEW address \in Nat, NEW token \in TokenData
  PROVE  IsInfo(buildTokenInfo(address, token), address, token)
<1> DEFINE x == AddressAnd(address, token.amount)
           y == Number(token.category)
           z == Number(HeadOf(token))
           w == Number(TailOf(token))
<1>1. buildTokenInfo(address, token) = <<x, y, z, w>>
  BY DEF buildTokenInfo, HeadOf, TailOf
<1>2. x \in Nat
  <2>1. token.amount \in Int /\ Uint96 \in Nat \ {0}
    <3>1. token.amount \in {Unparsable} \cup 0..(Uint96 - 1)
      BY Zenon DEF TokenData
    <3> QED
      BY <3>1, WordAssumption DEF Unparsable
  <2>2. token.amount % Uint96 \in Nat /\ address * Uint96 \in Nat
    BY <2>1
  <2> QED
    BY <2>2 DEF AddressAnd
<1>3. y \in Nat
  <2>1. token.category \in Seq(Byte)
    BY Zenon DEF TokenData
  <2> QED
    BY <2>1, ByteFacts, SeqMonotonic, NumberType, Zenon
<1>4. z \in Nat
  BY HeadFacts, NumberType
<1>5. w \in Nat
  <2>1. TailOf(token) \in Seq(Byte)
    BY TailFacts
  <2> QED
    BY <2>1, ByteFacts, SeqMonotonic, NumberType, Zenon
<1> HIDE DEF x, y, z, w
<1> DEFINE info == <<x, y, z, w>>
<1>6. info \in Seq(Nat) /\ Len(info) = 4 /\ info[1] = x /\ info[2] = y /\ info[3] = z /\ info[4] = w
  BY <1>2, <1>3, <1>4, <1>5, FourWords, SMTT(30)
<1> HIDE DEF info
<1>7. IsInfo(info, address, token)
  BY <1>6 DEF IsInfo, x, y, z, w
<1> QED
  BY <1>1, <1>7 DEF info

LEMMA TokensFacts ==
  ASSUME NEW outs \in Seq(Outputs)
  PROVE  /\ TokenOutputs(outs) \in Seq(Outputs)
         /\ Tokens(outs) \in Seq(Seq(Nat)) /\ Len(Tokens(outs)) = Len(TokenOutputs(outs))
         /\ \A i \in 1..Len(TokenOutputs(outs)) :
              /\ TokenIsValid(TokenOutputs(outs)[i].token)
              /\ IsInfo(Tokens(outs)[i], TokenOutputs(outs)[i].address, TokenOutputs(outs)[i].token)
<1> DEFINE keep == {i \in DOMAIN outs : IsPayment(outs[i]) /\ TokenIsValid(outs[i].token)}
           sel == TokenOutputs(outs)
           n == Len(sel)
           infos == [i \in 1..n |-> buildTokenInfo(sel[i].address, sel[i].token)]
<1>1. sel = Selected(outs, keep)
  BY DEF TokenOutputs
<1>2. sel \in Seq(Outputs) /\ \E h : Enumerates(h, sel, outs, keep, Len(outs))
  BY <1>1, SelectedEnumerates, Zenon
<1>3. \A k \in keep : TokenIsValid(outs[k].token)
  OBVIOUS
<1> HIDE DEF sel, keep
<1>4. PICK h : Enumerates(h, sel, outs, keep, Len(outs))
  BY <1>2
<1>5. n \in Nat /\ DOMAIN sel = 1..n
  BY <1>2
<1>6. Tokens(outs) = infos
  BY <1>5 DEF Tokens, sel
<1>7. ASSUME NEW i \in 1..n PROVE TokenIsValid(sel[i].token)
  BY <1>3, <1>4, SMTT(30) DEF Enumerates
<1>8. ASSUME NEW i \in 1..n PROVE IsInfo(infos[i], sel[i].address, sel[i].token)
  <2>1. sel[i] \in Outputs
    BY <1>2, <1>5, SMTT(30)
  <2>2. sel[i].address \in Nat /\ sel[i].token \in TokenData
    BY <2>1 DEF Outputs
  <2>3. IsInfo(buildTokenInfo(sel[i].address, sel[i].token), sel[i].address, sel[i].token)
    BY <2>2, TokenInfoIs
  <2> QED
    BY <2>3
<1>9. infos = [i \in 1..n |-> infos[i]]
  OBVIOUS
<1> HIDE DEF infos
<1>10. \A i \in 1..n : infos[i] \in Seq(Nat)
  BY <1>8, Zenon DEF IsInfo
<1>11. infos \in Seq(Seq(Nat)) /\ Len(infos) = n
  BY <1>5, <1>9, <1>10, IntervalIsSequence
<1> QED
  BY <1>2, <1>6, <1>7, <1>8, <1>11 DEF sel

LEMMA ExtractedType ==
  ASSUME NEW out \in Outputs
  PROVE  ExtractNullData(out) \in Seq(Seq(Byte))
<1>1. out.pushes \in Seq(Seq(Byte)) /\ out.egtx \in BOOLEAN
  BY DEF Outputs
<1>2. EGTX \in Seq(Byte)
  BY DEF EGTX, Byte
<1>3. <<EGTX>> \in Seq(Seq(Byte))
  BY <1>2
<1>4. <<EGTX>> \o out.pushes \in Seq(Seq(Byte))
  BY <1>1, <1>3, ConcatProperties
<1> QED
  BY <1>1, <1>4 DEF ExtractNullData

LEMMA NullDatasType ==
  ASSUME NEW outs \in Seq(Outputs)
  PROVE  NullDatas(outs) \in Seq(Seq(Byte))
<1> DEFINE keep == {i \in DOMAIN outs : outs[i].type = "nulldata" /\ outs[i].parses}
           sel == Selected(outs, keep)
           n == Len(sel)
           lists == [i \in 1..n |-> ExtractNullData(sel[i])]
<1>1. sel \in Seq(Outputs)
  BY SelectedEnumerates
<1>2. n \in Nat /\ DOMAIN sel = 1..n
  BY <1>1
<1>3. NullDatas(outs) = FlattenSeq(lists)
  BY <1>2 DEF NullDatas
<1> HIDE DEF sel
<1>4. lists = [i \in 1..n |-> lists[i]] /\ \A i \in 1..n : lists[i] \in Seq(Seq(Byte))
  <2>1. ASSUME NEW i \in 1..n PROVE ExtractNullData(sel[i]) \in Seq(Seq(Byte))
    <3>1. sel[i] \in Outputs
      BY <1>1, <1>2
    <3> QED
      BY <3>1, ExtractedType
  <2> QED
    BY <2>1
<1> HIDE DEF lists
<1>5. lists \in Seq(Seq(Seq(Byte)))
  BY <1>2, <1>4, IntervalIsSequence
<1> QED
  BY <1>3, <1>5, FlattenType

\* The elements that go to otherData.
OtherData(t) == ExtractEGTXNullData(t.vout[1].pushes).otherData \o OtherNullDatas(t.vout)

EventArgs(t) == <<0, Payments(t.vout), Payments(t.vin), Tokens(t.vout), Tokens(t.vin), OtherData(t)>>

LEMMA TransactionFacts ==
  ASSUME NEW t \in Transactions
  PROVE  /\ t.vout \in Seq(Outputs) /\ t.vin \in Seq(Outputs)
         /\ Len(t.vout) \in Nat \ {0} /\ t.vout[1] \in Outputs /\ t.vout[1].pushes \in Seq(Seq(Byte))
         /\ \A i \in DOMAIN t.vout : Fits(t.vout[i])
         /\ \A i \in DOMAIN t.vin : Fits(t.vin[i])
<1>1. /\ t.vout \in Seq(Outputs) /\ t.vin \in Seq(Outputs) /\ t.vout # <<>>
      /\ \A i \in DOMAIN t.vout : Fits(t.vout[i])
      /\ \A i \in DOMAIN t.vin : Fits(t.vin[i])
  BY DEF Transactions
<1>2. Len(t.vout) \in Nat \ {0} /\ t.vout[1] \in Outputs
  BY <1>1
<1>3. t.vout[1].pushes \in Seq(Seq(Byte))
  BY <1>2 DEF Outputs
<1> QED
  BY <1>1, <1>2, <1>3, SMTT(30)

LEMMA OtherDataFacts ==
  ASSUME NEW t \in Transactions
  PROVE  /\ OtherData(t) = SubSeq(t.vout[1].pushes, 6, Len(t.vout[1].pushes)) \o NullDatas(SubSeq(t.vout, 3, Len(t.vout)))
         /\ SubSeq(t.vout[1].pushes, 6, Len(t.vout[1].pushes)) \in Seq(Seq(Byte))
         /\ SubSeq(t.vout, 3, Len(t.vout)) \in Seq(Outputs)
         /\ OtherData(t) \in Seq(Seq(Byte))
<1> DEFINE es == t.vout[1].pushes
           rest == SubSeq(t.vout, 3, Len(t.vout))
<1>1. t.vout \in Seq(Outputs) /\ es \in Seq(Seq(Byte))
  BY TransactionFacts, SMTT(30)
<1>2. OtherData(t) = SubSeq(es, 6, Len(es)) \o NullDatas(rest)
  BY Zenon DEF OtherData, ExtractEGTXNullData, OtherNullDatas
<1> HIDE DEF es
<1>3. SubSeq(es, 6, Len(es)) \in Seq(Seq(Byte)) /\ rest \in Seq(Outputs)
  <2>1. 5 \in Nat /\ 2 \in Nat /\ 5 + 1 = 6 /\ 2 + 1 = 3
    OBVIOUS
  <2>2. SubSeq(es, 5 + 1, Len(es)) \in Seq(Seq(Byte)) /\ SubSeq(t.vout, 2 + 1, Len(t.vout)) \in Seq(Outputs)
    BY <1>1, <2>1, SuffixType
  <2> QED
    BY <2>1, <2>2, Zenon
<1> HIDE DEF rest
<1>4. NullDatas(rest) \in Seq(Seq(Byte))
  BY <1>3, NullDatasType
<1>5. SubSeq(es, 6, Len(es)) \o NullDatas(rest) \in Seq(Seq(Byte))
  BY <1>3, <1>4, ConcatRight, Zenon
<1> QED
  BY <1>2, <1>3, <1>5, Zenon DEF es, rest

LEMMA EventIs ==
  ASSUME NEW t \in Transactions
  PROVE  /\ IsEvent(EventArgs(t))
         /\ DerivedLog(t).data = PackEGTXLogDataEvent(EventArgs(t))
<1> DEFINE p == Payments(t.vout)
           q == Payments(t.vin)
           u == Tokens(t.vout)
           v == Tokens(t.vin)
           o == OtherData(t)
           args == <<0, p, q, u, v, o>>
<1>1. /\ t.vout \in Seq(Outputs) /\ \A i \in DOMAIN t.vout : Fits(t.vout[i])
      /\ t.vin \in Seq(Outputs) /\ \A i \in DOMAIN t.vin : Fits(t.vin[i])
  BY TransactionFacts
<1>2. p \in Seq(Nat) /\ q \in Seq(Nat)
  BY <1>1, PaymentsFacts, SMTT(30)
<1>3. u \in Seq(Seq(Nat)) /\ \A i \in 1..Len(u) : Len(u[i]) = 4
  BY <1>1, TokensFacts, SMTT(30) DEF IsInfo
<1>4. v \in Seq(Seq(Nat)) /\ \A i \in 1..Len(v) : Len(v[i]) = 4
  BY <1>1, TokensFacts, SMTT(30) DEF IsInfo
<1>5. o \in Seq(Seq(Byte))
  BY OtherDataFacts, Zenon
<1>6. EventArgs(t) = args
  BY DEF EventArgs
<1>7. DerivedLog(t).data = PackEGTXLogDataEvent(args)
  BY DEF DerivedLog, BuildLogData, OtherData
<1> HIDE DEF p, q, u, v, o
<1>8. args[1] = 0 /\ args[2] = p /\ args[3] = q /\ args[4] = u /\ args[5] = v /\ args[6] = o
  OBVIOUS
<1> HIDE DEF args
<1>9. /\ a[1] = "uint256" /\ a[2] = "uint256[]" /\ a[3] = "uint256[]"
      /\ a[4] = "tuple[]" /\ a[5] = "tuple[]" /\ a[6] = "bytes[]"
  BY DEF a
<1>10. /\ HasType(a[1], args[1]) /\ HasType(a[2], args[2]) /\ HasType(a[3], args[3])
       /\ HasType(a[4], args[4]) /\ HasType(a[5], args[5]) /\ HasType(a[6], args[6])
  BY <1>2, <1>3, <1>4, <1>5, <1>8, <1>9 DEF HasType
<1>11. IsEvent(args)
  BY <1>10 DEF IsEvent
<1> QED
  BY <1>6, <1>7, <1>11

LEMMA EventOfSix ==
  ASSUME NEW x, NEW p, NEW q, NEW u, NEW v, NEW o, NEW y
  PROVE  [k \in 1..6 |-> IF k = 1 THEN x ELSE <<y, p, q, u, v, o>>[k]] = <<x, p, q, u, v, o>>
OBVIOUS

\* What UnPackEGTXLog reads from the log that is derived.
LEMMA DerivedDataFacts ==
  ASSUME NEW t \in Transactions
  PROVE  /\ UnPackEGTXLog(DerivedLog(t).data) = EventArgs(t)
         /\ \A count \in Nat :
              UnPackEGTXLog(RefreshData(DerivedLog(t).data, count)) =
                <<count, Payments(t.vout), Payments(t.vin), Tokens(t.vout), Tokens(t.vin), OtherData(t)>>
<1>1. IsEvent(EventArgs(t)) /\ DerivedLog(t).data = PackEGTXLogDataEvent(EventArgs(t))
  BY EventIs
<1>2. UnPackEGTXLog(DerivedLog(t).data) = [k \in 1..6 |-> EventArgs(t)[k]]
  BY <1>1, EventReadsBack, 0 \in Nat
<1>3. [k \in 1..6 |-> EventArgs(t)[k]] = EventArgs(t)
  BY DEF EventArgs
<1>4. ASSUME NEW count \in Nat
      PROVE  UnPackEGTXLog(RefreshData(DerivedLog(t).data, count)) =
               <<count, Payments(t.vout), Payments(t.vin), Tokens(t.vout), Tokens(t.vin), OtherData(t)>>
  <2>1. UnPackEGTXLog(RefreshData(DerivedLog(t).data, count)) =
          [k \in 1..6 |-> IF k = 1 THEN count ELSE EventArgs(t)[k]]
    BY <1>1, EventReadsBack
  <2> QED
    BY <2>1, EventOfSix, SMTT(30) DEF EventArgs
<1> QED
  BY <1>2, <1>3, <1>4

LEMMA DataIsUnpacked == ConvertInv => DataUnpacks
<1> SUFFICES ASSUME ConvertInv, outcome = "derived", NEW count \in {0, 1, AllOne}
             PROVE  UnPackEGTXLog(RefreshData(log.data, count)) =
                      <<count, Payments(tx.vout), Payments(tx.vin), Tokens(tx.vout), Tokens(tx.vin),
                        ExtractEGTXNullData(tx.vout[1].pushes).otherData \o OtherNullDatas(tx.vout)>>
  BY Zenon DEF DataUnpacks
<1>1. tx \in Transactions /\ log = DerivedLog(tx)
  BY DEF ConvertInv
<1>2. count \in Nat
  BY WordAssumption
<1> QED
  BY <1>1, <1>2, DerivedDataFacts, Zenon DEF OtherData

-----------------------------------------------------------------------------
(* Inputs and outputs *)

LEMMA DerivedFacts ==
  ASSUME ConvertInv, outcome = "derived"
  PROVE  /\ tx \in Transactions /\ log = DerivedLog(tx)
         /\ tx.vout[1].type = "nulldata" /\ tx.vout[1].egtx /\ tx.vout[1].parses
         /\ Len(tx.vout) > 1 => IsPayment(tx.vout[2])
         /\ \A i \in DOMAIN tx.vin : IsPayment(tx.vin[i])
<1>1. tx \in Transactions /\ log = DerivedLog(tx) /\ Outcome(tx) = "derived"
  BY DEF ConvertInv
<1>2. ~Rejects(tx) /\ ~Panics(tx) /\ tx.vout[1].parses
  BY <1>1 DEF Outcome
<1> QED
  BY <1>1, <1>2 DEF Rejects, Panics

LEMMA PartiesAreKept == ConvertInv => PartiesConserved
<1> SUFFICES ASSUME ConvertInv, outcome = "derived" PROVE PartiesConserved
  BY DEF PartiesConserved
<1> DEFINE outs == tx.vout
           ins == tx.vin
           data == UnPackEGTXLog(log.data)
           Agree(words, list) ==
             /\ Len(words) = Len(list)
             /\ \A i \in DOMAIN list :
                  /\ words[i] \div Uint96 = list[i].address
                  /\ words[i] % Uint96 = (list[i].value - list[i].cut) * WeiPerSatoshi
<1>1. /\ tx \in Transactions /\ log = DerivedLog(tx)
      /\ outs[1].type = "nulldata"
      /\ Len(outs) > 1 => IsPayment(outs[2])
      /\ \A i \in DOMAIN ins : IsPayment(ins[i])
  BY DerivedFacts
<1>2. /\ outs \in Seq(Outputs) /\ \A i \in DOMAIN outs : Fits(outs[i])
      /\ ins \in Seq(Outputs) /\ \A i \in DOMAIN ins : Fits(ins[i])
  BY <1>1, TransactionFacts, SMTT(30)
<1>3. data[2] = Payments(outs) /\ data[3] = Payments(ins)
  BY <1>1, DerivedDataFacts, SMTT(30) DEF EventArgs
<1>4. log.to = FirstAddress(Payments(outs))
  BY <1>1 DEF DerivedLog
<1> HIDE DEF outs, ins, data
<1>5. ASSUME NEW list \in Seq(Outputs), \A i \in DOMAIN list : Fits(list[i])
      PROVE  Agree(Payments(list), PaymentOutputs(list))
  <2>1. /\ PaymentOutputs(list) \in Seq(Outputs) /\ Len(Payments(list)) = Len(PaymentOutputs(list))
        /\ \A i \in 1..Len(PaymentOutputs(list)) : TellsOf(Payments(list)[i], PaymentOutputs(list)[i])
    BY <1>5, PaymentsFacts
  <2>2. DOMAIN PaymentOutputs(list) = 1..Len(PaymentOutputs(list))
    BY <2>1
  <2> QED
    BY <2>1, <2>2, Zenon DEF TellsOf
<1>6. PaymentOutputs(ins) = ins
  <2>1. \A k \in 1..Len(ins) : k \in {i \in DOMAIN ins : IsPayment(ins[i])}
    BY <1>1, <1>2, SMTT(30) DEF ins
  <2> QED
    BY <1>2, <2>1, SelectedAll DEF PaymentOutputs
<1>7. Agree(data[2], PaymentOutputs(outs)) /\ Agree(data[3], ins)
  BY <1>2, <1>3, <1>5, <1>6
<1>8. ASSUME Len(outs) > 1 PROVE log.to = outs[2].address
  <2> DEFINE keep == {i \in DOMAIN outs : IsPayment(outs[i])}
  <2>1. 2 \in 1..Len(outs) /\ DOMAIN outs = 1..Len(outs) /\ 1..(2 - 1) = {1}
    BY <1>2, <1>8, SMTT(30)
  <2>2. 2 \in keep /\ 1 \notin keep
    BY <1>1, <1>8, <2>1 DEF IsPayment, outs
  <2>3. Len(PaymentOutputs(outs)) \in Nat \ {0} /\ PaymentOutputs(outs)[1] = outs[2]
    <3>1. \A j \in 1..(2 - 1) : j \notin keep
      BY <2>1, <2>2
    <3> HIDE DEF keep
    <3>2. Len(Selected(outs, keep)) \in Nat \ {0} /\ Selected(outs, keep)[1] = outs[2]
      BY <1>2, <2>1, <2>2, <3>1, FirstSelected
    <3> QED
      BY <3>2 DEF PaymentOutputs, keep
  <2>4. /\ Payments(outs) \in Seq(Nat) /\ Len(Payments(outs)) = Len(PaymentOutputs(outs))
        /\ \A i \in 1..Len(PaymentOutputs(outs)) : TellsOf(Payments(outs)[i], PaymentOutputs(outs)[i])
    BY <1>2, PaymentsFacts, SMTT(30)
  <2>5. Payments(outs) # <<>> /\ Payments(outs)[1] \div Uint96 = outs[2].address
    BY <2>3, <2>4 DEF TellsOf
  <2> QED
    BY <1>4, <2>5 DEF FirstAddress
<1> QED
  BY <1>7, <1>8, Zenon DEF PartiesConserved, outs, ins, data

-----------------------------------------------------------------------------
(* Tokens *)

LEMMA HeadBytesFacts ==
  ASSUME NEW token \in TokenData, TokenIsValid(token)
  PROVE  /\ HeadOf(token) \in Seq(Byte)
         /\ Len(token.commitment) <= HeadBytes + WordBytes
<1> DEFINE head == HeadOf(token)
           c == token.commitment
<1>1. /\ head \in Seq(Nat) /\ Len(head) = HeadBytes + 2
      /\ head[1] = Len(c) /\ head[2] = Capability(token.capability)
      /\ \A i \in 1..HeadBytes : head[i + 2] = PadRight(c, HeadBytes)[i]
      /\ Len(c) \in Nat /\ Capability(token.capability) \in 0..3
  BY HeadFacts
<1>2. HeadBytes \in Nat /\ WordBytes \in Nat /\ HeadBytes + WordBytes <= 255
  BY WordAssumption
<1>3. Len(c) <= HeadBytes + WordBytes
  BY DEF TokenIsValid
<1>4. c \in Seq(Byte)
  BY Zenon DEF TokenData
<1> HIDE DEF head, c
<1>5. PadRight(c, HeadBytes) \in Seq(Byte) /\ Len(PadRight(c, HeadBytes)) = HeadBytes
  BY <1>2, <1>4, ByteFacts, PaddedFacts, Zenon
<1>6. ASSUME NEW i \in 1..(HeadBytes + 2) PROVE head[i] \in Byte
  <2>1. CASE i = 1
    <3>1. head[i] = Len(c) /\ Len(c) \in Nat
      BY <1>1, <2>1, Zenon
    <3> DEFINE m == Len(c)
    <3>2. m \in Nat /\ m <= HeadBytes + WordBytes /\ head[i] = m
      BY <1>3, <3>1
    <3> HIDE DEF m
    <3> QED
      BY <1>2, <3>2 DEF Byte
  <2>2. CASE i = 2
    BY <1>1, <2>2 DEF Byte
  <2>3. CASE i > 2
    <3>1. i - 2 \in 1..HeadBytes /\ (i - 2) + 2 = i
      BY <1>2, <2>3, SMTT(30)
    <3>2. PadRight(c, HeadBytes)[i - 2] \in Byte
      BY <1>5, <3>1
    <3> QED
      BY <1>1, <3>1, <3>2
  <2> QED
    BY <1>2, <2>1, <2>2, <2>3
<1>7. head \in Seq(Byte)
  <2>1. head = [i \in 1..(HeadBytes + 2) |-> head[i]] /\ HeadBytes + 2 \in Nat
    BY <1>1, <1>2
  <2> QED
    BY <1>6, <2>1, IntervalIsSequence
<1> QED
  BY <1>3, <1>7 DEF head, c

LEMMA CommitmentReadsBack ==
  ASSUME NEW token \in TokenData, TokenIsValid(token)
  PROVE  SubSeq(SubSeq(HeadOf(token), 3, HeadBytes + 2) \o TailOf(token), 1, Len(token.commitment)) = token.commitment
<1> DEFINE head == HeadOf(token)
           tail == TailOf(token)
           c == token.commitment
           n == Len(c)
           pad == SubSeq(head, 3, HeadBytes + 2)
           both == pad \o tail
<1>1. /\ head \in Seq(Byte) /\ Len(head) = HeadBytes + 2 /\ n <= HeadBytes + WordBytes
      /\ \A i \in 1..HeadBytes : head[i + 2] = PadRight(c, HeadBytes)[i]
  BY HeadBytesFacts, HeadFacts
<1>2. /\ tail \in Seq(Byte) /\ Len(tail) = WordBytes
      /\ \A i \in 1..WordBytes : HeadBytes + i <= n => tail[i] = c[HeadBytes + i]
  BY TailFacts
<1>3. HeadBytes \in Nat /\ WordBytes \in Nat /\ c \in Seq(Byte) /\ n \in Nat
  <2>1. c \in Seq(Byte)
    BY DEF TokenData
  <2> HIDE DEF c
  <2>2. n \in Nat
    BY <2>1
  <2> QED
    BY <2>1, <2>2, WordAssumption
<1> HIDE DEF head, tail, c
<1>4. /\ pad \in Seq(Byte) /\ Len(pad) = HeadBytes
      /\ \A i \in 1..HeadBytes : pad[i] = head[2 + i]
  <2>1. 2 \in Nat /\ 2 + 1 = 3 /\ Len(head) - 2 = HeadBytes /\ (2 < Len(head) \/ HeadBytes = 0)
    <3> DEFINE m == Len(head)
    <3>1. m = HeadBytes + 2 /\ HeadBytes \in Nat
      BY <1>1, <1>3
    <3> HIDE DEF m
    <3>2. 2 \in Nat /\ 2 + 1 = 3 /\ m - 2 = HeadBytes /\ (2 < m \/ HeadBytes = 0)
      BY <3>1
    <3> QED
      BY <3>2 DEF m
  <2>2. /\ SubSeq(head, 2 + 1, Len(head)) \in Seq(Byte)
        /\ Len(SubSeq(head, 2 + 1, Len(head))) = IF 2 < Len(head) THEN Len(head) - 2 ELSE 0
        /\ \A i \in 1..(Len(head) - 2) : SubSeq(head, 2 + 1, Len(head))[i] = head[2 + i]
    <3> DEFINE m == 2
    <3>1. head \in Seq(Byte) /\ m \in Nat
      BY <1>1
    <3> HIDE DEF m
    <3>2. /\ SubSeq(head, m + 1, Len(head)) \in Seq(Byte)
          /\ Len(SubSeq(head, m + 1, Len(head))) = IF m < Len(head) THEN Len(head) - m ELSE 0
          /\ \A i \in 1..(Len(head) - m) : SubSeq(head, m + 1, Len(head))[i] = head[m + i]
      BY <3>1, SuffixType
    <3> QED
      BY <3>2, Zenon DEF m
  <2>3. pad = SubSeq(head, 2 + 1, Len(head))
    <3>1. Len(head) = HeadBytes + 2 /\ 2 + 1 = 3
      BY <1>1
    <3> QED
      BY <3>1, Zenon
  <2> HIDE DEF pad
  <2> QED
    BY <1>1, <1>3, <2>1, <2>2, <2>3
<1> HIDE DEF pad
<1>5. ASSUME NEW i \in 1..HeadBytes, i <= n PROVE pad[i] = c[i]
  <2>1. PadRight(c, HeadBytes)[i] = c[i]
    BY <1>3, <1>5, ByteFacts, PaddedFacts
  <2>2. 2 + i = i + 2
    BY <1>3
  <2> QED
    BY <1>1, <1>4, <2>1, <2>2
<1>6. /\ both \in Seq(Byte) /\ Len(both) = HeadBytes + WordBytes
      /\ \A i \in 1..(HeadBytes + WordBytes) : both[i] = IF i <= HeadBytes THEN pad[i] ELSE tail[i - HeadBytes]
  <2>1. /\ both \in Seq(Byte) /\ Len(both) = Len(pad) + Len(tail)
        /\ \A i \in 1..(Len(pad) + Len(tail)) : both[i] = IF i <= Len(pad) THEN pad[i] ELSE tail[i - Len(pad)]
    <3>1. pad \in Seq(Byte) /\ tail \in Seq(Byte)
      BY <1>2, <1>4
    <3> QED
      BY <3>1, ConcatProperties
  <2> QED
    BY <1>2, <1>4, <2>1, Zenon
<1> HIDE DEF both
<1>7. ASSUME NEW i \in 1..n PROVE both[i] = c[i]
  <2>1. i \in 1..(HeadBytes + WordBytes)
    BY <1>1, <1>3
  <2>2. CASE i <= HeadBytes
    <3>1. i \in 1..HeadBytes /\ i <= n
      BY <1>3, <2>2
    <3> QED
      BY <1>5, <1>6, <2>1, <2>2, <3>1
  <2>3. CASE ~(i <= HeadBytes)
    <3>1. i - HeadBytes \in 1..WordBytes /\ HeadBytes + (i - HeadBytes) = i /\ HeadBytes + (i - HeadBytes) <= n
      BY <1>3, <2>1, <2>3
    <3>2. tail[i - HeadBytes] = c[HeadBytes + (i - HeadBytes)]
      BY <1>2, <3>1
    <3>3. both[i] = tail[i - HeadBytes]
      BY <1>6, <2>1, <2>3, Zenon
    <3> QED
      BY <3>1, <3>2, <3>3
  <2> QED
    BY <2>2, <2>3
<1>8. n \in 0..Len(both)
  BY <1>1, <1>3, <1>6
<1>9. /\ SubSeq(both, 1, n) \in Seq(Byte) /\ Len(SubSeq(both, 1, n)) = n
      /\ \A i \in 1..n : SubSeq(both, 1, n)[i] = both[i]
  BY <1>6, <1>8, PrefixType
<1>10. SubSeq(both, 1, n) = c
  BY <1>3, <1>7, <1>9, SeqEqual
<1> QED
  BY <1>10, Zenon DEF both, pad, head, tail, c

LEMMA TokensAreRead == ConvertInv => TokensCanBeRead
<1> SUFFICES ASSUME ConvertInv, outcome = "derived" PROVE TokensCanBeRead
  BY Zenon DEF TokensCanBeRead
<1> DEFINE outs == TokenOutputs(tx.vout)
           infos == UnPackEGTXLog(log.data)[4]
           Head4(i) == Bytes(infos[i][3], HeadBytes + 2)
           Tail4(i) == Bytes(infos[i][4], WordBytes)
<1>1. tx \in Transactions /\ log = DerivedLog(tx)
  BY DerivedFacts
<1>2. infos = Tokens(tx.vout) /\ tx.vout \in Seq(Outputs)
  BY <1>1, DerivedDataFacts, TransactionFacts, SMTT(30) DEF EventArgs
<1>3. /\ outs \in Seq(Outputs) /\ Len(infos) = Len(outs)
      /\ \A i \in 1..Len(outs) : TokenIsValid(outs[i].token) /\ IsInfo(infos[i], outs[i].address, outs[i].token)
  BY <1>2, TokensFacts
<1>4. DOMAIN outs = 1..Len(outs)
  BY <1>3
<1> HIDE DEF outs, infos
<1>5. ASSUME NEW i \in 1..Len(outs)
      PROVE  /\ infos[i][1] \div Uint96 = outs[i].address
             /\ infos[i][1] % Uint96 = outs[i].token.amount
             /\ Bytes(infos[i][2], WordBytes) = outs[i].token.category
             /\ Head4(i)[2] = Capability(outs[i].token.capability)
             /\ SubSeq(SubSeq(Head4(i), 3, HeadBytes + 2) \o Tail4(i), 1, Head4(i)[1]) = outs[i].token.commitment
  <2> DEFINE address == outs[i].address
             token == outs[i].token
  <2>1. outs[i] \in Outputs
    BY <1>3, <1>4, SMTT(30)
  <2>2. address \in Nat /\ token \in TokenData /\ TokenIsValid(token)
    BY <1>3, <2>1, Zenon DEF Outputs
  <2>3. /\ infos[i][1] = AddressAnd(address, token.amount)
        /\ infos[i][2] = Number(token.category)
        /\ infos[i][3] = Number(HeadOf(token))
        /\ infos[i][4] = Number(TailOf(token))
    BY <1>3, Zenon DEF IsInfo
  <2> HIDE DEF address, token
  <2>4. infos[i][1] \div Uint96 = address /\ infos[i][1] % Uint96 = token.amount
    <3>1. token.amount \in Nat /\ token.amount < Uint96 /\ Uint96 \in Nat \ {0}
      <4>1. token.amount \in {Unparsable} \cup 0..(Uint96 - 1) /\ token.amount # Unparsable
        BY <2>2, Zenon DEF TokenData, TokenIsValid
      <4> QED
        BY <4>1, WordAssumption, SMTT(30)
    <3> DEFINE amount == token.amount
    <3>2. amount \in Nat /\ amount < Uint96
      BY <3>1
    <3>3. infos[i][1] = (address * Uint96) + (amount % Uint96)
      BY <2>3 DEF AddressAnd
    <3> HIDE DEF amount
    <3>4. amount % Uint96 = amount
      BY <3>1, <3>2, SmallRemainder
    <3>5. infos[i][1] = Uint96 * address + amount
      BY <2>2, <3>1, <3>2, <3>3, <3>4
    <3>6. (Uint96 * address + amount) \div Uint96 = address /\ (Uint96 * address + amount) % Uint96 = amount
      BY <2>2, <3>1, <3>2, QuotientOf, Zenon
    <3> QED
      BY <3>5, <3>6 DEF amount
  <2>5. Bytes(infos[i][2], WordBytes) = token.category
    <3>1. token.category \in Seq(Byte) /\ Len(token.category) = WordBytes /\ WordBytes \in Nat
      BY <2>2, WordAssumption, Zenon DEF TokenData, TokenIsValid
    <3> QED
      BY <2>3, <3>1, BytesOfNumber
  <2>6. Head4(i) = HeadOf(token)
    <3>1. HeadOf(token) \in Seq(Byte) /\ Len(HeadOf(token)) = HeadBytes + 2 /\ HeadBytes + 2 \in Nat
      BY <2>2, HeadFacts, HeadBytesFacts, WordAssumption
    <3>2. Bytes(Number(HeadOf(token)), HeadBytes + 2) = HeadOf(token)
      BY <3>1, BytesOfNumber, SMTT(30)
    <3> QED
      BY <2>3, <3>2, SMTT(30)
  <2>7. Tail4(i) = TailOf(token)
    <3>1. TailOf(token) \in Seq(Byte) /\ Len(TailOf(token)) = WordBytes /\ WordBytes \in Nat
      BY <2>2, TailFacts, WordAssumption
    <3>2. Bytes(Number(TailOf(token)), WordBytes) = TailOf(token)
      BY <3>1, BytesOfNumber
    <3> QED
      BY <2>3, <3>2
  <2>8. HeadOf(token)[1] = Len(token.commitment) /\ HeadOf(token)[2] = Capability(token.capability)
    BY <2>2, HeadFacts
  <2>9. SubSeq(SubSeq(HeadOf(token), 3, HeadBytes + 2) \o TailOf(token), 1, Len(token.commitment)) = token.commitment
    BY <2>2, CommitmentReadsBack, Zenon
  <2> HIDE DEF Head4, Tail4
  <2> QED
    BY <2>4, <2>5, <2>6, <2>7, <2>8, <2>9, Zenon DEF address, token
<1> QED
  BY <1>3, <1>4, <1>5, Zenon DEF TokensCanBeRead, outs, infos

-----------------------------------------------------------------------------
(* Addresses and topics *)

\* The padded or cut bytes, as ConversionKeepsValue wants them.
KeepsValue(o, c, n) ==
  /\ Len(c) = n
  /\ Len(o) <= n => Number(c) = Number(o)
  /\ Len(o) > n => c = SubSeq(o, 1, n)

LEMMA ConvertedKeepsValue ==
  ASSUME NEW o \in Seq(Nat), NEW n \in Nat
  PROVE  KeepsValue(o, convertToByte(o, n), n)
<1> DEFINE m == Len(o)
           z == Zeros(n - m)
<1>1. m \in Nat
  OBVIOUS
<1>2. CASE m <= n
  <2>1. n - m \in Nat /\ ~(m > n)
    BY <1>1, <1>2
  <2>2. z \in Seq(Nat) /\ Len(z) = n - m
    BY <2>1 DEF Zeros
  <2>3. convertToByte(o, n) = z \o o
    BY <1>2, Zenon DEF convertToByte
  <2>4. Number(z \o o) = Number(o)
    BY <2>1, NumberOfPadded
  <2> HIDE DEF z
  <2>5. Len(z \o o) = Len(z) + Len(o)
    BY <2>2, ConcatRight, SMTT(30)
  <2>6. Len(z) + Len(o) = n
    BY <1>1, <1>2, <2>2
  <2> QED
    BY <2>1, <2>3, <2>4, <2>5, <2>6, Zenon DEF KeepsValue
<1>3. CASE ~(m <= n)
  <2> DEFINE c == SubSeq(o, 1, n)
  <2>1. convertToByte(o, n) = c
    BY <1>3, Zenon DEF convertToByte
  <2>2. n \in 0..Len(o) /\ n <= m
    BY <1>1, <1>3, SMTT(30)
  <2>3. c \in Seq(Nat) /\ Len(c) = n
    BY <2>2, PrefixType
  <2> QED
    BY <1>3, <2>1, <2>3, Zenon DEF KeepsValue
<1> QED
  BY <1>2, <1>3

\* The elements that a topic is made of, and the topics among them.
TopicElements(es) == SubSeq(es, 2, Min({5, Len(es)}))

NonEmpty(list) == {i \in DOMAIN list : list[i] # <<>>}

LEMMA MinOfFive ==
  ASSUME NEW n \in Nat
  PROVE  Min({5, n}) = IF n < 5 THEN n ELSE 5
<1> DEFINE x == IF n < 5 THEN n ELSE 5
<1>1. x \in {5, n} /\ \A y \in {5, n} : x <= y
  OBVIOUS
<1>2. \A z \in {5, n} : (\A y \in {5, n} : z <= y) => z = x
  OBVIOUS
<1> HIDE DEF x
<1>3. Min({5, n}) = x
  BY <1>1, <1>2 DEF Min
<1> QED
  BY <1>3 DEF x

LEMMA TopicElementsFacts ==
  ASSUME NEW V, NEW es \in Seq(V)
  PROVE  /\ TopicElements(es) \in Seq(V)
         /\ Len(TopicElements(es)) = IF Len(es) = 0 THEN 0 ELSE Min({5, Len(es)}) - 1
         /\ \A i \in 1..Len(TopicElements(es)) : TopicElements(es)[i] = es[i + 1] /\ i + 1 <= Len(es) /\ i + 1 <= 5
<1> DEFINE n == Len(es)
           m == Min({5, n})
           sub == SubSeq(es, 2, m)
<1>1. n \in Nat
  OBVIOUS
<1>2. m = IF n < 5 THEN n ELSE 5
  BY <1>1, MinOfFive
<1>3. m \in Nat /\ m <= n /\ m <= 5 /\ (n = 0 <=> m = 0)
  BY <1>1, <1>2
<1> HIDE DEF m
<1>4. \A i \in 2..m : i \in 1..n /\ es[i] \in V
  BY <1>1, <1>3
<1>5. /\ sub \in Seq(V)
      /\ Len(sub) = IF 2 <= m THEN m - 2 + 1 ELSE 0
      /\ \A i \in 1..(m - 2 + 1) : sub[i] = es[2 + i - 1]
  BY <1>1, <1>3, <1>4, SubSeqProperties
<1> HIDE DEF sub, n
<1>6. Len(sub) = IF n = 0 THEN 0 ELSE m - 1
  BY <1>1, <1>3, <1>5
<1>7. ASSUME NEW i \in 1..Len(sub) PROVE sub[i] = es[i + 1] /\ i + 1 <= n /\ i + 1 <= 5
  <2>1. i \in 1..(m - 2 + 1) /\ 2 + i - 1 = i + 1 /\ i + 1 <= m
    BY <1>1, <1>3, <1>6, SMTT(30)
  <2>2. sub[i] = es[2 + i - 1]
    BY <1>5, <2>1, SMTT(30)
  <2> QED
    BY <1>1, <1>3, <2>1, <2>2, SMTT(30)
<1> QED
  BY <1>5, <1>6, <1>7, Zenon DEF TopicElements, sub, m, n

\* The log's address and topics.
LEMMA LogIs ==
  ASSUME NEW t \in Transactions
  PROVE  LET es     == t.vout[1].pushes
             topics == Selected(TopicElements(es), NonEmpty(TopicElements(es)))
         IN  /\ es # <<>> => DerivedLog(t).address = convertToByte(es[1], AddressBytes)
             /\ DerivedLog(t).topics = [i \in DOMAIN topics |-> convertToByte(topics[i], TopicBytes)]
<1> DEFINE es == t.vout[1].pushes
           topics == Selected(TopicElements(es), NonEmpty(TopicElements(es)))
           nullData == ExtractEGTXNullData(es)
<1>1. DerivedLog(t).address = nullData.address /\ DerivedLog(t).topics = nullData.topics
  BY SMTT(30) DEF DerivedLog
<1> HIDE DEF es
<1>2. /\ nullData.address = IF es = <<>> THEN Zeros(AddressBytes) ELSE convertToByte(es[1], AddressBytes)
      /\ nullData.topics = [i \in DOMAIN topics |-> convertToByte(topics[i], TopicBytes)]
  BY Zenon DEF ExtractEGTXNullData, TopicElements, NonEmpty
<1> HIDE DEF nullData
<1> QED
  BY <1>1, <1>2, Zenon DEF es

LEMMA TopicsType ==
  ASSUME NEW t \in Transactions
  PROVE  LET elements == TopicElements(t.vout[1].pushes)
             topics   == Selected(elements, NonEmpty(elements))
         IN  /\ topics \in Seq(Seq(Nat)) /\ DOMAIN topics = 1..Len(topics)
             /\ Len(DerivedLog(t).topics) = Len(topics)
             /\ \A i \in 1..Len(topics) : DerivedLog(t).topics[i] = convertToByte(topics[i], TopicBytes)
<1> DEFINE es == t.vout[1].pushes
           elements == TopicElements(es)
           topics == Selected(elements, NonEmpty(elements))
           converted == DerivedLog(t).topics
<1>1. converted = [i \in DOMAIN topics |-> convertToByte(topics[i], TopicBytes)]
  BY LogIs
<1>2. es \in Seq(Seq(Nat))
  <2>1. es \in Seq(Seq(Byte)) /\ Byte \subseteq Nat
    BY TransactionFacts, ByteFacts
  <2> HIDE DEF es
  <2>2. Seq(Byte) \subseteq Seq(Nat)
    BY <2>1, SeqMonotonic, Zenon
  <2> QED
    BY <2>1, <2>2, SeqMonotonic
<1> HIDE DEF es
<1>3. elements \in Seq(Seq(Nat))
  BY <1>2, TopicElementsFacts, Zenon
<1> HIDE DEF elements
<1>4. topics \in Seq(Seq(Nat))
  BY <1>3, SelectedEnumerates
<1> HIDE DEF topics, converted
<1>5. DOMAIN topics = 1..Len(topics) /\ Len(topics) \in Nat
  BY <1>4
<1>6. converted = [i \in 1..Len(topics) |-> convertToByte(topics[i], TopicBytes)]
  BY <1>1, <1>5, SMTT(30)
<1>7. Len(converted) = Len(topics) /\ \A i \in 1..Len(topics) : converted[i] = convertToByte(topics[i], TopicBytes)
  BY <1>5, <1>6
<1> QED
  BY <1>4, <1>5, <1>7, Zenon DEF topics, converted, elements, es

LEMMA ValuesAreKept == ConvertInv => ConversionKeepsValue
<1> SUFFICES ASSUME ConvertInv, outcome = "derived" PROVE ConversionKeepsValue
  BY Zenon DEF ConversionKeepsValue
<1> DEFINE es == tx.vout[1].pushes
           elements == TopicElements(es)
           topics == Selected(elements, NonEmpty(elements))
<1>1. tx \in Transactions /\ log = DerivedLog(tx)
  BY DerivedFacts
<1>2. /\ topics \in Seq(Seq(Nat)) /\ DOMAIN topics = 1..Len(topics)
      /\ Len(log.topics) = Len(topics)
      /\ \A i \in 1..Len(topics) : log.topics[i] = convertToByte(topics[i], TopicBytes)
  BY <1>1, TopicsType, SMTT(30)
<1>3. es # <<>> => log.address = convertToByte(es[1], AddressBytes)
  BY <1>1, LogIs, Zenon
<1>4. es \in Seq(Seq(Byte)) /\ Byte \subseteq Nat
  BY <1>1, TransactionFacts, ByteFacts
<1> HIDE DEF topics, es
<1>5. AddressBytes \in Nat /\ TopicBytes \in Nat
  BY CandidatesAssumption
<1>6. ASSUME es # <<>> PROVE KeepsValue(es[1], log.address, AddressBytes)
  <2>1. es[1] \in Seq(Byte)
    BY <1>4, <1>6
  <2>2. es[1] \in Seq(Nat)
    BY <1>4, <2>1, SeqMonotonic, Zenon
  <2> QED
    BY <1>3, <1>5, <1>6, <2>2, ConvertedKeepsValue
<1>7. ASSUME NEW i \in DOMAIN topics PROVE KeepsValue(topics[i], log.topics[i], TopicBytes)
  <2>1. topics[i] \in Seq(Nat) /\ log.topics[i] = convertToByte(topics[i], TopicBytes)
    BY <1>2
  <2> QED
    BY <1>5, <2>1, ConvertedKeepsValue
<1> QED
  BY <1>2, <1>6, <1>7, Zenon DEF ConversionKeepsValue, KeepsValue, topics, es, NonEmpty, TopicElements

-----------------------------------------------------------------------------
(* Pushed data *)

\* The elements of the first output come first; the second pushes none.
LEMMA NullDatasFromThird ==
  ASSUME NEW vout \in Seq(Outputs), vout # <<>>, vout[1].type = "nulldata", vout[1].parses,
         Len(vout) > 1 => IsPayment(vout[2])
  PROVE  NullDatas(vout) = ExtractNullData(vout[1]) \o NullDatas(SubSeq(vout, 3, Len(vout)))
<1> DEFINE Keep(outs) == {i \in DOMAIN outs : outs[i].type = "nulldata" /\ outs[i].parses}
           rest == SubSeq(vout, 3, Len(vout))
           all == Selected(vout, Keep(vout))
           sel == Selected(rest, Keep(rest))
           Pushes(outs) == [i \in DOMAIN outs |-> ExtractNullData(outs[i])]
           first == ExtractNullData(vout[1])
<1>1. vout[1] \in Outputs /\ Len(vout) \in Nat \ {0} /\ DOMAIN vout = 1..Len(vout) /\ first \in Seq(Seq(Byte))
  <2>1. vout[1] \in Outputs /\ Len(vout) \in Nat \ {0} /\ DOMAIN vout = 1..Len(vout)
    OBVIOUS
  <2> DEFINE out == vout[1]
  <2>2. out \in Outputs
    BY <2>1
  <2> HIDE DEF out
  <2>3. ExtractNullData(out) \in Seq(Seq(Byte))
    BY <2>2, ExtractedType
  <2> QED
    BY <2>1, <2>3, SMTT(30) DEF out
<1>2. /\ rest \in Seq(Outputs) /\ Len(rest) = (IF 2 < Len(vout) THEN Len(vout) - 2 ELSE 0)
      /\ \A i \in 1..(Len(vout) - 2) : rest[i] = vout[2 + i]
  <2> DEFINE two == 2
  <2>1. two \in Nat
    OBVIOUS
  <2> HIDE DEF two
  <2>2. /\ SubSeq(vout, two + 1, Len(vout)) \in Seq(Outputs)
        /\ Len(SubSeq(vout, two + 1, Len(vout))) = IF two < Len(vout) THEN Len(vout) - two ELSE 0
        /\ \A i \in 1..(Len(vout) - two) : SubSeq(vout, two + 1, Len(vout))[i] = vout[two + i]
    BY <2>1, SuffixType
  <2>3. two + 1 = 3 /\ two = 2
    BY DEF two
  <2> QED
    BY <2>2, <2>3, Zenon
<1>3. all = <<vout[1]>> \o sel
  <2>1. 1 \in Keep(vout) /\ 2 \notin Keep(vout)
    <3>1. 1 \in DOMAIN vout
      BY <1>1
    <3>2. 2 \in DOMAIN vout => Len(vout) > 1
      BY <1>1
    <3> QED
      BY <3>1, <3>2, SMTT(30) DEF IsPayment
  <2> HIDE DEF rest
  <2>2. DOMAIN rest = 1..Len(rest) /\ Len(rest) \in Nat
    BY <1>2
  <2>3. ASSUME NEW i \in 1..Len(rest) PROVE i \in Keep(rest) <=> 2 + i \in Keep(vout)
    <3>1. i \in 1..(Len(vout) - 2) /\ 2 + i \in 1..Len(vout)
      <4> DEFINE n == Len(vout)
                 r == Len(rest)
      <4>1. n \in Nat \ {0} /\ r = (IF 2 < n THEN n - 2 ELSE 0) /\ i \in 1..r
        BY <1>1, <1>2, Zenon
      <4> HIDE DEF n, r
      <4>2. i \in 1..(n - 2) /\ 2 + i \in 1..n
        BY <4>1, SMTT(30)
      <4> QED
        BY <4>2, SMTT(30) DEF n
    <3>2. rest[i] = vout[2 + i] /\ i \in DOMAIN rest /\ 2 + i \in DOMAIN vout
      BY <1>1, <1>2, <2>2, <3>1, Zenon
    <3> QED
      BY <3>2, Zenon
  <2> DEFINE keep == Keep(vout)
             kept == Keep(rest)
  <2>4. FromThird(vout, keep, rest, kept)
    <3>1. \A i \in 1..Len(rest) : i \in kept <=> 2 + i \in keep
      BY <2>3
    <3>2. 1 \in keep /\ 2 \notin keep
      BY <2>1
    <3> HIDE DEF keep, kept
    <3> QED
      BY <3>1, <3>2, Zenon DEF rest, FromThird
  <2> HIDE DEF keep, kept
  <2>5. Selected(vout, keep) = <<vout[1]>> \o Selected(rest, kept)
    BY <2>4, SelectedFromThird, SMTT(30)
  <2> QED
    BY <2>5 DEF keep, kept
<1>4. sel \in Seq(Outputs)
  BY <1>2, SelectedEnumerates, Zenon
<1>5. NullDatas(vout) = FlattenSeq(Pushes(all)) /\ NullDatas(rest) = FlattenSeq(Pushes(sel))
  BY DEF NullDatas
<1> HIDE DEF sel, rest, all, first
<1>6. Pushes(all) = <<first>> \o Pushes(sel) /\ Pushes(sel) \in Seq(Seq(Seq(Byte)))
  <2> DEFINE m == Len(sel)
  <2>1. m \in Nat /\ DOMAIN sel = 1..m /\ \A i \in 1..m : sel[i] \in Outputs
    BY <1>4
  <2>2. /\ all \in Seq(Outputs) /\ Len(all) = m + 1 /\ all[1] = vout[1]
        /\ \A i \in 1..m : all[i + 1] = sel[i]
    <3> DEFINE one == <<vout[1]>>
    <3>1. one \in Seq(Outputs) /\ Len(one) = 1 /\ one[1] = vout[1]
      BY <1>1
    <3> HIDE DEF one
    <3>2. /\ one \o sel \in Seq(Outputs) /\ Len(one \o sel) = Len(one) + Len(sel)
          /\ \A i \in 1..(Len(one) + Len(sel)) : (one \o sel)[i] = IF i <= Len(one) THEN one[i] ELSE sel[i - Len(one)]
      <4>1. one \in Seq(Outputs) /\ sel \in Seq(Outputs)
        BY <1>4, <3>1, SMTT(30)
      <4> QED
        BY <4>1, ConcatProperties
    <3>3. all = one \o sel
      BY <1>3 DEF one
    <3>4. /\ all \in Seq(Outputs) /\ Len(all) = 1 + m
          /\ \A i \in 1..(1 + m) : all[i] = IF i <= 1 THEN one[i] ELSE sel[i - 1]
      BY <3>1, <3>2, <3>3, Zenon
    <3> HIDE DEF m
    <3>5. 1 \in 1..(1 + m) /\ 1 + m = m + 1 /\ \A i \in 1..m : i + 1 \in 1..(1 + m) /\ ~(i + 1 <= 1) /\ (i + 1) - 1 = i
      BY <2>1
    <3>6. all[1] = vout[1]
      BY <3>1, <3>4, <3>5
    <3>7. ASSUME NEW i \in 1..m PROVE all[i + 1] = sel[i]
      <4>1. i + 1 \in 1..(1 + m) /\ ~(i + 1 <= 1) /\ (i + 1) - 1 = i
        BY <3>5
      <4>2. all[i + 1] = sel[(i + 1) - 1]
        BY <3>4, <4>1, Zenon
      <4> QED
        BY <4>1, <4>2, SMTT(30)
    <3> QED
      BY <3>4, <3>5, <3>6, <3>7
  <2> DEFINE p == Pushes(all)
             q == Pushes(sel)
  <2> HIDE DEF m
  <2>3. Len(all) = m + 1 /\ DOMAIN all = 1..(m + 1)
    BY <2>1, <2>2, SMTT(30)
  <2>4. p = [i \in 1..(m + 1) |-> ExtractNullData(all[i])] /\ q = [i \in 1..m |-> ExtractNullData(sel[i])]
    BY <2>1, <2>3, SMTT(30)
  <2>5. ASSUME NEW i \in 1..m PROVE q[i] \in Seq(Seq(Byte)) /\ p[i + 1] = q[i]
    <3>1. i + 1 \in 1..(m + 1)
      BY <2>1
    <3>2. p[i + 1] = ExtractNullData(all[i + 1]) /\ q[i] = ExtractNullData(sel[i])
      BY <2>4, <3>1, SMTT(30)
    <3>3. sel[i] \in Outputs /\ all[i + 1] = sel[i]
      BY <2>1, <2>2, SMTT(30)
    <3>4. ExtractNullData(sel[i]) \in Seq(Seq(Byte))
      BY <3>3, ExtractedType
    <3> QED
      BY <3>2, <3>3, <3>4
  <2>6. p[1] = first
    <3>1. 1 \in 1..(m + 1)
      BY <2>1
    <3> QED
      BY <2>2, <2>4, <3>1 DEF first
  <2>7. q = [i \in 1..m |-> q[i]]
    BY <2>4
  <2>8. q \in Seq(Seq(Seq(Byte))) /\ Len(q) = m
    <3>1. m \in Nat /\ \A i \in 1..m : q[i] \in Seq(Seq(Byte))
      BY <2>1, <2>5, Zenon
    <3> HIDE DEF q
    <3> QED
      BY <2>7, <3>1, IntervalIsSequence
  <2>9. \A i \in 1..(m + 1) : p[i] \in Seq(Seq(Byte))
    <3>1. ASSUME NEW i \in 1..(m + 1) PROVE p[i] \in Seq(Seq(Byte))
      <4>1. CASE i = 1
        BY <1>1, <2>6, <4>1
      <4>2. CASE i # 1
        <5>1. i - 1 \in 1..m /\ (i - 1) + 1 = i
          BY <2>1, <4>2, SMTT(30)
        <5>2. p[(i - 1) + 1] = q[i - 1] /\ q[i - 1] \in Seq(Seq(Byte))
          BY <2>5, <5>1, Zenon
        <5> QED
          BY <5>1, <5>2
      <4> QED
        BY <4>1, <4>2
    <3> QED
      BY <3>1
  <2>10. p = [i \in 1..(m + 1) |-> p[i]] /\ m + 1 \in Nat
    BY <2>1, <2>4
  <2>11. p \in Seq(Seq(Seq(Byte))) /\ Len(p) = m + 1
    <3> HIDE DEF p
    <3> QED
      BY <2>9, <2>10, IntervalIsSequence
  <2> HIDE DEF p, q
  <2>12. p = <<first>> \o q
    BY <1>1, <2>5, <2>6, <2>8, <2>11, FirstAndRest
  <2> QED
    BY <2>8, <2>12, Zenon DEF p, q
<1> HIDE DEF Pushes
<1>7. FlattenSeq(<<first>> \o Pushes(sel)) = FlattenSeq(<<first>>) \o FlattenSeq(Pushes(sel))
  <2>1. <<first>> \in Seq(Seq(Seq(Byte)))
    BY <1>1
  <2> QED
    BY <1>6, <2>1, FlattenConcat, Zenon
<1>8. FlattenSeq(<<first>>) = first
  BY <1>1, FlattenOne
<1> QED
  BY <1>5, <1>6, <1>7, <1>8, Zenon DEF first, rest

\* What stands for the elements of a sequence that a log consumes.
Consumed(first) == {i \in DOMAIN first : i <= 5}

LEMMA ConsumedFacts ==
  ASSUME NEW V, NEW first \in Seq(V)
  PROVE  LET k    == Min({5, Len(first)})
             head == SubSeq(first, 1, k)
             tail == SubSeq(first, 6, Len(first))
         IN  /\ Consumed(first) = 1..k /\ k \in 0..Len(first) /\ (Len(first) = 0 <=> k = 0)
             /\ head \in Seq(V) /\ Len(head) = k /\ tail \in Seq(V)
             /\ first = head \o tail
<1> DEFINE n == Len(first)
           k == Min({5, n})
           head == SubSeq(first, 1, k)
           tail == SubSeq(first, 6, n)
           both == head \o tail
<1>1. n \in Nat /\ DOMAIN first = 1..n
  OBVIOUS
<1>2. k = IF n < 5 THEN n ELSE 5
  BY <1>1, MinOfFive
<1> HIDE DEF k
<1>3. Consumed(first) = 1..k /\ k \in 0..n /\ (n = 0 <=> k = 0)
  BY <1>1, <1>2 DEF Consumed
<1>4. /\ head \in Seq(V) /\ Len(head) = k
      /\ \A i \in 1..k : head[i] = first[i]
  BY <1>3, PrefixType
<1>5. /\ tail \in Seq(V) /\ Len(tail) = (IF 5 < n THEN n - 5 ELSE 0)
      /\ \A i \in 1..(n - 5) : tail[i] = first[5 + i]
  <2> DEFINE five == 5
  <2>1. five \in Nat
    OBVIOUS
  <2> HIDE DEF five
  <2>2. /\ SubSeq(first, five + 1, n) \in Seq(V)
        /\ Len(SubSeq(first, five + 1, n)) = IF five < n THEN n - five ELSE 0
        /\ \A i \in 1..(n - five) : SubSeq(first, five + 1, n)[i] = first[five + i]
    BY <2>1, SuffixType
  <2>3. five + 1 = 6 /\ five = 5
    BY DEF five
  <2> QED
    BY <2>2, <2>3, Zenon
<1> HIDE DEF head, tail
<1>6. /\ both \in Seq(V) /\ Len(both) = Len(head) + Len(tail)
      /\ \A i \in 1..(Len(head) + Len(tail)) : both[i] = IF i <= Len(head) THEN head[i] ELSE tail[i - Len(head)]
  <2>1. head \in Seq(V) /\ tail \in Seq(V)
    BY <1>4, <1>5
  <2> QED
    BY <2>1, ConcatProperties
<1> HIDE DEF both, n
<1>7. Len(head) + Len(tail) = n /\ Len(head) = k
  BY <1>1, <1>2, <1>4, <1>5
<1>8. Len(both) = n /\ \A i \in 1..n : both[i] = IF i <= k THEN head[i] ELSE tail[i - k]
  BY <1>6, <1>7, Zenon
<1>9. ASSUME NEW i \in 1..n PROVE both[i] = first[i]
  <2>1. CASE i <= k
    <3>1. i \in 1..k
      BY <1>1, <1>3, <2>1, SMTT(30)
    <3> QED
      BY <1>4, <1>8, <2>1, <3>1
  <2>2. CASE ~(i <= k)
    <3>1. k = 5 /\ i - k \in 1..(n - 5) /\ 5 + (i - k) = i
      BY <1>1, <1>2, <2>2
    <3>2. both[i] = tail[i - k] /\ tail[i - k] = first[5 + (i - k)]
      BY <1>5, <1>8, <2>2, <3>1, Zenon
    <3> QED
      BY <3>1, <3>2, SMTT(30)
  <2> QED
    BY <2>1, <2>2
<1>10. first = both
  BY <1>6, <1>8, <1>9, SeqEqual, SMTT(30) DEF n
<1> QED
  BY <1>3, <1>4, <1>5, <1>10, Zenon DEF both, head, tail, k, n

\* A topic for each element in a topic's place that is not empty.
LEMMA TopicsCount ==
  ASSUME NEW V, NEW es \in Seq(V)
  PROVE  LET elements == TopicElements(es)
             consumed == Consumed(es)
             empty    == {i \in consumed \ {1} : es[i] = <<>>}
         IN  Len(Selected(elements, NonEmpty(elements))) = Cardinality(consumed \ {1}) - Cardinality(empty)
<1> DEFINE n == Len(es)
           k == Min({5, n})
           elements == TopicElements(es)
           m == Len(elements)
           places == Consumed(es) \ {1}
           empty == {i \in places : es[i] = <<>>}
           topics == Selected(elements, NonEmpty(elements))
           l == Len(topics)
<1>1. n \in Nat /\ Consumed(es) = 1..k /\ k \in 0..n /\ (n = 0 <=> k = 0)
  <2>1. n \in Nat
    OBVIOUS
  <2> QED
    BY <2>1, ConsumedFacts, Zenon
<1>2. /\ elements \in Seq(V) /\ m = (IF n = 0 THEN 0 ELSE k - 1)
      /\ \A i \in 1..m : elements[i] = es[i + 1]
  BY TopicElementsFacts, Zenon
<1> HIDE DEF k, elements
<1>3. m \in Nat /\ DOMAIN elements = 1..m /\ places = 2..(m + 1)
  BY <1>1, <1>2
<1>4. topics \in Seq(V) /\ \E h : Enumerates(h, topics, elements, NonEmpty(elements), m)
  BY <1>2, SelectedEnumerates, SMTT(30)
<1>5. PICK h : Enumerates(h, topics, elements, NonEmpty(elements), m)
  BY <1>4
<1>6. l \in Nat
  BY <1>4
<1> HIDE DEF topics, m, places
<1>7. /\ h \in [1..l -> 1..m] /\ \A i \in 1..l : h[i] \in 1..m /\ elements[h[i]] # <<>>
      /\ \A i, j \in 1..l : i < j => h[i] < h[j]
      /\ \A e \in 1..m : elements[e] # <<>> => \E i \in 1..l : h[i] = e
  BY <1>3, <1>5, Zenon DEF Enumerates, NonEmpty
<1> HIDE DEF l
<1> DEFINE full == places \ empty
           g == [i \in 1..l |-> h[i] + 1]
<1>8. ASSUME NEW i \in 1..l PROVE g[i] = h[i] + 1 /\ h[i] + 1 \in full
  <2>1. h[i] \in 1..m /\ elements[h[i]] # <<>> /\ elements[h[i]] = es[h[i] + 1]
    BY <1>2, <1>7, SMTT(30)
  <2>2. h[i] + 1 \in places
    BY <1>3, <2>1, SMTT(30)
  <2> QED
    BY <2>1, <2>2, SMTT(30)
<1>9. g \in [1..l -> full]
  BY <1>8
<1>10. ASSUME NEW i \in 1..l, NEW j \in 1..l, g[i] = g[j] PROVE i = j
  <2>1. h[i] \in Nat /\ h[j] \in Nat /\ h[i] = h[j]
    BY <1>3, <1>7, <1>8, <1>10
  <2>2. ~(i < j) /\ ~(j < i)
    BY <1>7, <2>1
  <2> QED
    BY <1>6, <2>2, SMTT(30)
<1>11. ASSUME NEW e \in full PROVE \E i \in 1..l : g[i] = e
  <2>1. e \in places /\ es[e] # <<>>
    OBVIOUS
  <2>2. e - 1 \in 1..m /\ (e - 1) + 1 = e
    BY <1>3, <2>1
  <2>3. elements[e - 1] # <<>>
    BY <1>2, <2>1, <2>2, SMTT(30)
  <2>4. PICK i \in 1..l : h[i] = e - 1
    BY <1>7, <2>2, <2>3, SMTT(30)
  <2> QED
    BY <1>8, <2>2, <2>4, SMTT(30)
<1> HIDE DEF g, full
<1>12. ExistsBijection(1..l, full)
  <2>1. g \in Bijection(1..l, full)
    BY <1>9, <1>10, <1>11 DEF Bijection, Injection, IsInjective, Surjection
  <2> QED
    BY <2>1 DEF ExistsBijection
<1>13. IsFiniteSet(1..l) /\ Cardinality(1..l) = l /\ IsFiniteSet(places)
  <2>1. 1 \in Int /\ l \in Int /\ 2 \in Int /\ m + 1 \in Int
    BY <1>3, <1>6
  <2>2. IsFiniteSet(1..l) /\ Cardinality(1..l) = IF 1 > l THEN 0 ELSE l - 1 + 1
    BY <2>1, FS_Interval
  <2>3. IsFiniteSet(2..(m + 1))
    BY <2>1, FS_Interval, SMTT(30)
  <2> QED
    BY <1>3, <1>6, <2>2, <2>3
<1>14. Cardinality(full) = l
  BY <1>12, <1>13, FS_Bijection
<1>15. Cardinality(places \ empty) = Cardinality(places) - Cardinality(places \cap empty)
  BY <1>13, FS_Difference, Zenon
<1>16. places \cap empty = empty
  OBVIOUS
<1> QED
  BY <1>14, <1>15, <1>16, Zenon DEF full, places, l, topics, elements

LEMMA ElementsAreKept == ConvertInv => ElementsConserved
<1> SUFFICES ASSUME ConvertInv, outcome = "derived" PROVE ElementsConserved
  BY DEF ElementsConserved
<1> DEFINE vout == tx.vout
           first == vout[1].pushes
           all == NullDatas(vout)
           rest == NullDatas(SubSeq(vout, 3, Len(vout)))
           k == Min({5, Len(first)})
           flag == <<EGTX>>
           head == SubSeq(first, 1, k)
           tail == SubSeq(first, 6, Len(first))
           other == UnPackEGTXLog(log.data)[6]
           consumed == {i \in DOMAIN first : i <= 5}
           empty == {i \in consumed \ {1} : first[i] = <<>>}
<1>1. /\ tx \in Transactions /\ log = DerivedLog(tx)
      /\ vout[1].type = "nulldata" /\ vout[1].egtx /\ vout[1].parses
      /\ Len(vout) > 1 => IsPayment(vout[2])
  BY DerivedFacts, SMTT(30)
<1>2. vout \in Seq(Outputs) /\ vout # <<>> /\ first \in Seq(Seq(Byte))
  BY <1>1, TransactionFacts, SMTT(30)
<1>3. other = tail \o rest /\ rest \in Seq(Seq(Byte))
  <2>1. other = OtherData(tx)
    BY <1>1, DerivedDataFacts DEF EventArgs
  <2>2. OtherData(tx) = tail \o rest /\ SubSeq(vout, 3, Len(vout)) \in Seq(Outputs)
    BY <1>1, OtherDataFacts, Zenon
  <2> QED
    BY <2>1, <2>2, NullDatasType, Zenon
<1>4. Len(log.topics) = Len(Selected(TopicElements(first), NonEmpty(TopicElements(first))))
  BY <1>1, TopicsType
<1> HIDE DEF vout
<1>5. all = (flag \o first) \o rest
  <2>1. all = ExtractNullData(vout[1]) \o rest
    BY <1>1, <1>2, NullDatasFromThird, Zenon
  <2>2. ExtractNullData(vout[1]) = flag \o first
    BY <1>1, Zenon DEF ExtractNullData
  <2> QED
    BY <2>1, <2>2, Zenon
<1> HIDE DEF rest, all, first, other
<1>6. /\ Consumed(first) = 1..k /\ k \in Nat
      /\ head \in Seq(Seq(Byte)) /\ Len(head) = k /\ tail \in Seq(Seq(Byte))
      /\ first = head \o tail
  <2>1. Len(first) \in Nat
    BY <1>2
  <2>2. k \in 0..Len(first) => k \in Nat
    BY <2>1
  <2> QED
    BY <1>2, <2>2, ConsumedFacts, Zenon
<1>7. Len(log.topics) = Cardinality(consumed \ {1}) - Cardinality(empty)
  BY <1>2, <1>4, TopicsCount DEF Consumed
<1>8. consumed = Consumed(first)
  BY DEF Consumed
<1>9. flag \in Seq(Seq(Byte)) /\ Len(flag) = 1
  BY DEF EGTX, Byte
<1> HIDE DEF head, tail, k, flag
<1>10. other \in Seq(Seq(Byte))
  BY <1>3, <1>6, ConcatRight
<1>11. /\ all = (flag \o head) \o other
       /\ flag \o head \in Seq(Seq(Byte)) /\ Len(flag \o head) = 1 + k
  <2>1. Regrouped(flag, head, tail, rest)
    BY <1>3, <1>6, <1>9, Regroup
  <2>2. Reassociated(flag, head, other)
    BY <1>6, <1>10, <1>9, Reassociate
  <2>3. flag \o head \in Seq(Seq(Byte)) /\ Len(flag \o head) = Len(flag) + Len(head)
    BY <1>6, <1>9, ConcatRight, Zenon
  <2> QED
    BY <1>3, <1>5, <1>6, <1>9, <2>1, <2>2, <2>3, Zenon DEF Regrouped, Reassociated
<1>12. IsSuffix(other, all)
  BY <1>10, <1>11, SuffixOfConcat
<1>13. Len(all) = 1 + Cardinality(consumed) + Len(other)
  <2>1. Len(all) = 1 + k + Len(other)
    BY <1>10, <1>11, ConcatRight, Zenon
  <2>2. Cardinality(1..k) = k
    <3>1. 1 \in Int /\ k \in Int
      BY <1>6
    <3>2. Cardinality(1..k) = IF 1 > k THEN 0 ELSE k - 1 + 1
      BY <3>1, FS_Interval
    <3> QED
      BY <1>6, <3>2
  <2> QED
    BY <1>6, <1>8, <2>1, <2>2, Zenon
<1> QED
  BY <1>7, <1>12, <1>13, Zenon DEF ElementsConserved, all, first, other, vout

-----------------------------------------------------------------------------
\* Every conversion, of a transaction of any size and of values of any size: the
\* log keeps the transaction's values, elements, parties and tokens, its data
\* unpacks, and a transaction that is no EGTX transaction makes nobody panic.
THEOREM ConversionIsCorrect ==
  Spec => [](ConversionKeepsValue /\ ElementsConserved /\ PartiesConserved /\ DataUnpacks /\ TokensCanBeRead /\ OnlyEgtxCanPanic)
<1>1. Init => ConvertInv
  <2>1. Candidates \subseteq Transactions
    BY CandidatesAssumption
  <2> QED
    BY <2>1 DEF Init, ConvertInv
<1>2. ConvertInv /\ [Next]_<<tx, outcome, log>> => ConvertInv'
  BY ConvertsOnce DEF Next, ConvertInv
<1>3. ConvertInv => /\ ConversionKeepsValue /\ ElementsConserved /\ PartiesConserved
                   /\ DataUnpacks /\ TokensCanBeRead /\ OnlyEgtxCanPanic
  BY ValuesAreKept, ElementsAreKept, PartiesAreKept, DataIsUnpacked, TokensAreRead, OnlyEgtxPanics, Zenon
<1> QED
  BY <1>1, <1>2, <1>3, PTL DEF Spec

=============================================================================
