----------------------------- MODULE AtmoctrlProofs -----------------------------
(***************************************************************************)
(* Proofs about the packets of the LED devices, for any colours and any    *)
(* length of a DotStar strip, and about the tool that sends them.          *)
(***************************************************************************)
EXTENDS Atmoctrl, SequenceTheorems, FiniteSetTheorems, TLAPS

LEMMA IsSequence ==
  ASSUME NEW S, NEW n \in Nat, NEW f \in [1 .. n -> S]
  PROVE  f \in Seq(S) /\ Len(f) = n
<1>1. f \in Seq(S)
  BY SeqDef
<1> QED
  BY <1>1, LenProperties

-------------------------------------------------------------------------------
(***************************************************************************)
(* A buffer has the bytes of the header and of each frame at their places. *)
(***************************************************************************)
Frames(n, length) == [0 .. n - 1 -> [1 .. length -> Byte]]

LEMMA Slots ==
  ASSUME NEW length \in {3, 4}, NEW i \in Nat, NEW j \in 1 .. length
  PROVE  (length * i + j - 1) \div length = i /\ (length * i + j - 1) % length = j - 1
<1>1. CASE length = 3
  BY <1>1
<1>2. CASE length = 4
  BY <1>2
<1> QED
  BY <1>1, <1>2

LEMMA SlotOf ==
  ASSUME NEW length \in {3, 4}, NEW k \in Nat
  PROVE  k \div length \in Nat /\ (k % length) + 1 \in 1 .. length
<1>1. CASE length = 3
  BY <1>1
<1>2. CASE length = 4
  BY <1>2
<1> QED
  BY <1>1, <1>2

Consists(buffer, size, header, n, length, frames) ==
  /\ buffer \in [1 .. size -> Byte]
  /\ \A k \in 1 .. Len(header) : buffer[k] = header[k]
  /\ \A i \in 0 .. n - 1 : \A j \in 1 .. length :
       /\ Len(header) + length * i + j \in 1 .. size
       /\ buffer[Len(header) + length * i + j] = frames[i][j]

LEMMA BufferIs ==
  ASSUME NEW header \in Seq(Byte), NEW n \in Nat, NEW length \in {3, 4},
         NEW frames \in Frames(n, length),
         NEW size \in Nat, size = Len(header) + n * length
  PROVE  Consists(Buffer(size, header, length, frames), size, header, n, length, frames)
<1> DEFINE h == Len(header)
           At(k) == LET m == k - h - 1
                        i == m \div length
                    IN  IF m < 0 THEN header[k]
                        ELSE IF i \in DOMAIN frames THEN frames[i][(m % length) + 1] ELSE 0
           buffer == Buffer(size, header, length, frames)
<1>1. h \in Nat /\ length \in Nat /\ n * length \in Nat
  BY LenProperties
<1>2. DOMAIN frames = 0 .. n - 1 /\ \A i \in 0 .. n - 1 : frames[i] \in [1 .. length -> Byte]
  BY DEF Frames
<1>3. buffer = [k \in 1 .. size |-> At(k)]
  BY DEF Buffer
<1> HIDE DEF buffer
<1>4. ASSUME NEW k \in 1 .. size PROVE At(k) \in Byte
  <2> DEFINE m == k - h - 1
  <2>1. CASE m < 0
    <3>1. k \in 1 .. h
      BY <1>1, <2>1
    <3> QED
      BY <2>1, <3>1, ElementOfSeq
  <2>2. CASE ~ (m < 0)
    <3>1. m \in Nat
      BY <1>1, <2>2
    <3> HIDE DEF m
    <3>2. m \div length \in Nat /\ (m % length) + 1 \in 1 .. length
      BY <3>1, SlotOf
    <3>3. At(k) = IF m \div length \in DOMAIN frames
                  THEN frames[m \div length][(m % length) + 1] ELSE 0
      BY <2>2 DEF m
    <3>4. 0 \in Byte
      BY DEF Byte
    <3> QED
      BY <1>2, <3>2, <3>3, <3>4
  <2> QED
    BY <2>1, <2>2
<1>5. ASSUME NEW k \in 1 .. h PROVE buffer[k] = header[k]
  <2>1. k \in 1 .. size /\ k - h - 1 < 0
    BY <1>1
  <2> QED
    BY <1>3, <2>1
<1>6. ASSUME NEW i \in 0 .. n - 1, NEW j \in 1 .. length
      PROVE  h + length * i + j \in 1 .. size /\ buffer[h + length * i + j] = frames[i][j]
  <2>1. length * i \in Nat /\ length * i + length <= n * length
    <3>1. CASE length = 3
      BY <3>1
    <3>2. CASE length = 4
      BY <3>2
    <3> QED
      BY <3>1, <3>2
  <2> DEFINE k == h + length * i + j
  <2>2. k \in 1 .. size /\ k - h - 1 = length * i + j - 1 /\ ~ (k - h - 1 < 0)
    BY <1>1, <2>1
  <2>3. (k - h - 1) \div length = i /\ (k - h - 1) % length = j - 1 /\ (j - 1) + 1 = j
    BY <2>2, Slots
  <2> HIDE DEF k
  <2>4. At(k) = frames[i][j]
    BY <1>2, <2>2, <2>3
  <2> QED
    BY <1>3, <2>2, <2>4 DEF k
<1> HIDE DEF At
<1>7. buffer \in [1 .. size -> Byte]
  BY <1>3, <1>4
<1> QED
  BY <1>5, <1>6, <1>7 DEF Consists, buffer

-------------------------------------------------------------------------------
(***************************************************************************)
(* The checksum.                                                           *)
(***************************************************************************)
Values == {1, 2, 4, 8, 16, 32, 64, 128}

Odd(buffer, value) == Cardinality({k \in DOMAIN buffer : HasBit(buffer[k], value)}) % 2

Number(r) ==
  r[1] + 2 * r[2] + 4 * r[4] + 8 * r[8] + 16 * r[16] + 32 * r[32] + 64 * r[64] + 128 * r[128]

LEMMA BitAt ==
  ASSUME NEW v \in Values, NEW low \in 0 .. v - 1, NEW x \in 0 .. 1, NEW rest \in Nat,
         NEW n \in Nat, n = low + v * x + 2 * v * rest
  PROVE  (n \div v) % 2 = x
<1>1. v \in Nat /\ v # 0
  BY DEF Values
<1>2. n \div v = x + 2 * rest
  <2>1. CASE v = 1
    BY <2>1
  <2>2. CASE v = 2
    BY <2>2
  <2>3. CASE v = 4
    BY <2>3
  <2>4. CASE v = 8
    BY <2>4
  <2>5. CASE v = 16
    BY <2>5
  <2>6. CASE v = 32
    BY <2>6
  <2>7. CASE v = 64
    BY <2>7
  <2>8. CASE v = 128
    BY <2>8
  <2> QED
    BY <2>1, <2>2, <2>3, <2>4, <2>5, <2>6, <2>7, <2>8 DEF Values
<1> QED
  BY <1>2

LEMMA NumberIs ==
  ASSUME NEW r \in [Values -> {0, 1}]
  PROVE  Number(r) \in Byte /\ \A v \in Values : HasBit(Number(r), v) <=> r[v] = 1
<1> DEFINE n == Number(r)
           a == r[1]  b == r[2]  c == r[4]  d == r[8]
           e == r[16] f == r[32] g == r[64] h == r[128]
<1>1. \A v \in Values : r[v] \in 0 .. 1
  OBVIOUS
<1>2. /\ a \in 0 .. 1 /\ b \in 0 .. 1 /\ c \in 0 .. 1 /\ d \in 0 .. 1
      /\ e \in 0 .. 1 /\ f \in 0 .. 1 /\ g \in 0 .. 1 /\ h \in 0 .. 1
  BY <1>1 DEF Values
<1>3. n = a + 2 * b + 4 * c + 8 * d + 16 * e + 32 * f + 64 * g + 128 * h
  BY DEF Number
<1> HIDE DEF n, a, b, c, d, e, f, g, h
<1>4. n \in 0 .. 255 /\ n \in Nat
  BY <1>2, <1>3
<1>5. \A v \in Values, low \in Nat, x \in 0 .. 1, rest \in Nat :
        low \in 0 .. v - 1 /\ n = low + v * x + 2 * v * rest => (n \div v) % 2 = x
  BY <1>4, BitAt
<1>6. (n \div 1) % 2 = a
  <2> DEFINE rest == b + 2 * c + 4 * d + 8 * e + 16 * f + 32 * g + 64 * h
  <2>1. rest \in Nat /\ n = 0 + 1 * a + 2 * 1 * rest /\ 0 \in 0 .. 1 - 1
    BY <1>2, <1>3
  <2> HIDE DEF rest
  <2> QED
    BY <1>2, <1>5, <2>1 DEF Values
<1>7. (n \div 2) % 2 = b
  <2> DEFINE low == a
             rest == c + 2 * d + 4 * e + 8 * f + 16 * g + 32 * h
  <2>1. low \in 0 .. 2 - 1 /\ low \in Nat /\ rest \in Nat
        /\ n = low + 2 * b + 2 * 2 * rest
    BY <1>2, <1>3
  <2> HIDE DEF low, rest
  <2> QED
    BY <1>2, <1>5, <2>1 DEF Values
<1>8. (n \div 4) % 2 = c
  <2> DEFINE low == a + 2 * b
             rest == d + 2 * e + 4 * f + 8 * g + 16 * h
  <2>1. low \in 0 .. 4 - 1 /\ low \in Nat /\ rest \in Nat
        /\ n = low + 4 * c + 2 * 4 * rest
    BY <1>2, <1>3
  <2> HIDE DEF low, rest
  <2> QED
    BY <1>2, <1>5, <2>1 DEF Values
<1>9. (n \div 8) % 2 = d
  <2> DEFINE low == a + 2 * b + 4 * c
             rest == e + 2 * f + 4 * g + 8 * h
  <2>1. low \in 0 .. 8 - 1 /\ low \in Nat /\ rest \in Nat
        /\ n = low + 8 * d + 2 * 8 * rest
    BY <1>2, <1>3
  <2> HIDE DEF low, rest
  <2> QED
    BY <1>2, <1>5, <2>1 DEF Values
<1>10. (n \div 16) % 2 = e
  <2> DEFINE low == a + 2 * b + 4 * c + 8 * d
             rest == f + 2 * g + 4 * h
  <2>1. low \in 0 .. 16 - 1 /\ low \in Nat /\ rest \in Nat
        /\ n = low + 16 * e + 2 * 16 * rest
    BY <1>2, <1>3
  <2> HIDE DEF low, rest
  <2> QED
    BY <1>2, <1>5, <2>1 DEF Values
<1>11. (n \div 32) % 2 = f
  <2> DEFINE low == a + 2 * b + 4 * c + 8 * d + 16 * e
             rest == g + 2 * h
  <2>1. low \in 0 .. 32 - 1 /\ low \in Nat /\ rest \in Nat
        /\ n = low + 32 * f + 2 * 32 * rest
    BY <1>2, <1>3
  <2> HIDE DEF low, rest
  <2> QED
    BY <1>2, <1>5, <2>1 DEF Values
<1>12. (n \div 64) % 2 = g
  <2> DEFINE low == a + 2 * b + 4 * c + 8 * d + 16 * e + 32 * f
             rest == h
  <2>1. low \in 0 .. 64 - 1 /\ low \in Nat /\ rest \in Nat
        /\ n = low + 64 * g + 2 * 64 * rest
    BY <1>2, <1>3
  <2> HIDE DEF low, rest
  <2> QED
    BY <1>2, <1>5, <2>1 DEF Values
<1>13. (n \div 128) % 2 = h
  <2> DEFINE low == a + 2 * b + 4 * c + 8 * d + 16 * e + 32 * f + 64 * g
  <2>1. low \in 0 .. 127 /\ n = low + 128 * h
    BY <1>2, <1>3
  <2> HIDE DEF low
  <2>2. n \div 128 = h /\ h % 2 = h
    BY <1>2, <2>1
  <2> QED
    BY <2>2
<1>14. \A v \in Values : HasBit(n, v) <=> r[v] = 1
  BY <1>6, <1>7, <1>8, <1>9, <1>10, <1>11, <1>12, <1>13
  DEF HasBit, Values, a, b, c, d, e, f, g, h
<1> QED
  BY <1>4, <1>14 DEF n, Byte

LEMMA ChecksumIs ==
  ASSUME NEW n \in Nat, NEW buffer \in [1 .. n -> Byte]
  PROVE  /\ [v \in Values |-> Odd(buffer, v)] \in [Values -> {0, 1}]
         /\ calculateChecksum(buffer) = Number([v \in Values |-> Odd(buffer, v)])
         /\ \A v \in Values : IsFiniteSet({k \in DOMAIN buffer : HasBit(buffer[k], v)})
<1>1. ASSUME NEW v \in Values
      PROVE  /\ IsFiniteSet({k \in DOMAIN buffer : HasBit(buffer[k], v)})
             /\ Odd(buffer, v) \in {0, 1}
  <2> DEFINE S == {k \in DOMAIN buffer : HasBit(buffer[k], v)}
  <2>1. IsFiniteSet(1 .. n)
    BY FS_Interval
  <2>2. S \in SUBSET (1 .. n)
    OBVIOUS
  <2> HIDE DEF S
  <2>3. IsFiniteSet(S) /\ Cardinality(S) \in Nat
    BY <2>1, <2>2, FS_Subset, FS_CardinalityType
  <2>4. Cardinality(S) % 2 \in {0, 1}
    BY <2>3
  <2> QED
    BY <2>3, <2>4 DEF S, Odd
<1>2. \A v \in Values : Odd(buffer, v) \in Int
  BY <1>1, 0 \in Int /\ 1 \in Int
<1> DEFINE r == [v \in Values |-> Odd(buffer, v)]
<1>3. calculateChecksum(buffer) =
        1 * Odd(buffer, 1) + 2 * Odd(buffer, 2) + 4 * Odd(buffer, 4) + 8 * Odd(buffer, 8)
        + 16 * Odd(buffer, 16) + 32 * Odd(buffer, 32) + 64 * Odd(buffer, 64)
        + 128 * Odd(buffer, 128)
  BY DEF calculateChecksum, Odd
<1>4. Number(r) =
        Odd(buffer, 1) + 2 * Odd(buffer, 2) + 4 * Odd(buffer, 4) + 8 * Odd(buffer, 8)
        + 16 * Odd(buffer, 16) + 32 * Odd(buffer, 32) + 64 * Odd(buffer, 64)
        + 128 * Odd(buffer, 128)
  BY DEF Number, Values
<1>5. 1 * Odd(buffer, 1) = Odd(buffer, 1)
  BY <1>2 DEF Values
<1> QED
  BY <1>1, <1>3, <1>4, <1>5

LEMMA Parity ==
  ASSUME NEW n \in Nat
  PROVE  (n % 2 = 1 => (n + 1) % 2 = 0) /\ (n % 2 # 1 => n % 2 = 0)
OBVIOUS

Summed(buffer, pos) == [buffer EXCEPT ![pos] = calculateChecksum(buffer)]

(* A byte that was zero, filled with the checksum of all, makes it zero.    *)
LEMMA ChecksumOfAll ==
  ASSUME NEW n \in Nat, NEW buffer \in [1 .. n -> Byte], NEW pos \in 1 .. n, buffer[pos] = 0
  PROVE  Summed(buffer, pos) \in [1 .. n -> Byte] /\ calculateChecksum(Summed(buffer, pos)) = 0
<1> DEFINE sum == calculateChecksum(buffer)
           sent == [buffer EXCEPT ![pos] = sum]
<1>1. /\ sum \in Byte
      /\ \A v \in Values : HasBit(sum, v) <=> Odd(buffer, v) = 1
  BY ChecksumIs, NumberIs
<1> HIDE DEF sum
<1>2. sent \in [1 .. n -> Byte]
  BY <1>1
<1>3. ASSUME NEW v \in Values PROVE Odd(sent, v) = 0
  <2> DEFINE before == {k \in DOMAIN buffer : HasBit(buffer[k], v)}
             after  == {k \in DOMAIN sent : HasBit(sent[k], v)}
  <2>1. IsFiniteSet(before) /\ Cardinality(before) \in Nat
    BY ChecksumIs, FS_CardinalityType
  <2>2. ~ HasBit(buffer[pos], v)
    BY DEF HasBit, Values
  <2>3. pos \notin before
    BY <2>2
  <2>4. Odd(buffer, v) = Cardinality(before) % 2 /\ Odd(sent, v) = Cardinality(after) % 2
    BY DEF Odd
  <2>5. CASE Odd(buffer, v) = 1
    <3>1. HasBit(sum, v)
      BY <1>1, <2>5
    <3>2. after = before \cup {pos}
      BY <3>1
    <3> HIDE DEF before, after
    <3>3. Cardinality(after) = Cardinality(before) + 1
      BY <2>1, <2>3, <3>2, FS_AddElement
    <3> QED
      BY <2>1, <2>4, <2>5, <3>3, Parity
  <2>6. CASE Odd(buffer, v) # 1
    <3>1. ~ HasBit(sum, v)
      BY <1>1, <2>6
    <3>2. after = before
      BY <2>2, <3>1
    <3> HIDE DEF before, after
    <3> QED
      BY <2>1, <2>4, <2>6, <3>2, Parity
  <2> QED
    BY <2>5, <2>6
<1>4. calculateChecksum(sent) = Number([v \in Values |-> Odd(sent, v)])
  BY <1>2, ChecksumIs
<1> HIDE DEF sent
<1>5. Number([v \in Values |-> Odd(sent, v)]) = 0
  BY <1>3 DEF Number, Values
<1> QED
  BY <1>2, <1>4, <1>5 DEF sent, sum, Summed

-------------------------------------------------------------------------------
(***************************************************************************)
(* What each type of device is sent, and that it receives the colours.     *)
(***************************************************************************)
Colors(n) == [0 .. n - 1 -> RGB]

LEMMA Components ==
  ASSUME NEW c \in RGB
  PROVE  /\ c.red \in Byte /\ c.green \in Byte /\ c.blue \in Byte
         /\ c = [red |-> c.red, green |-> c.green, blue |-> c.blue]
BY DEF RGB

LEMMA AtmoLightPacket ==
  ASSUME NEW m \in Colors(4)
  PROVE  /\ AtmoLightBuffer(m) \in [1 .. 19 -> Byte]
         /\ \A i \in 0 .. 3 :
              LET led == Received("AtmoLight", AtmoLightBuffer(m), i)
              IN  led.color = m[i] /\ led.brightness = FullBrightness
<1> DEFINE frames == [i \in DOMAIN m |-> <<m[i].red, m[i].green, m[i].blue>>]
           header == ATMOLIGHT_HEADER
           p == Buffer(19, header, 3, frames)
<1>1. /\ DOMAIN m = 0 .. 4 - 1
      /\ \A i \in 0 .. 4 - 1 : m[i] \in RGB
  BY DEF Colors
<1>2. frames \in Frames(4, 3)
  <2>1. ASSUME NEW i \in 0 .. 4 - 1
        PROVE  <<m[i].red, m[i].green, m[i].blue>> \in [1 .. 3 -> Byte]
    BY <1>1, Components
  <2> QED
    BY <1>1, <2>1 DEF Frames
<1>3. header \in Seq(Byte) /\ Len(header) = 7
  BY DEF ATMOLIGHT_HEADER, Byte
<1>4. AtmoLightBuffer(m) = p
  BY <1>3 DEF AtmoLightBuffer, ATMOLIGHT_PACKET_SIZE
<1> HIDE DEF header
<1>5. /\ p \in [1 .. 19 -> Byte]
      /\ \A i \in 0 .. 3 : \A j \in 1 .. 3 : p[7 + 3 * i + j] = frames[i][j]
  <2> HIDE DEF frames
  <2>1. 19 = Len(header) + 4 * 3 /\ 19 \in Nat /\ 4 \in Nat /\ 3 \in {3, 4}
    BY <1>3
  <2>2. Consists(p, 19, header, 4, 3, frames)
    BY <1>2, <1>3, <2>1, BufferIs
  <2> HIDE DEF p
  <2> QED
    BY <1>3, <2>2 DEF Consists
<1> HIDE DEF p
<1>6. ASSUME NEW i \in 0 .. 3
      PROVE  LET led == Received("AtmoLight", p, i)
             IN  led.color = m[i] /\ led.brightness = FullBrightness
  <2>1. /\ 3 * i + 8 = 7 + 3 * i + 1 /\ 3 * i + 9 = 7 + 3 * i + 2
        /\ 3 * i + 10 = 7 + 3 * i + 3
    OBVIOUS
  <2>2. p[3 * i + 8] = frames[i][1] /\ p[3 * i + 9] = frames[i][2] /\ p[3 * i + 10] = frames[i][3]
    BY <1>5, <2>1
  <2>3. p[3 * i + 8] = m[i].red /\ p[3 * i + 9] = m[i].green /\ p[3 * i + 10] = m[i].blue
    BY <1>1, <2>2
  <2> QED
    BY <1>1, <2>3, Components DEF Received, LED
<1> QED
  BY <1>4, <1>5, <1>6

LEMMA KarateLightPacket ==
  ASSUME NEW m \in Colors(16)
  PROVE  /\ KarateLightBuffer(m) \in [1 .. 52 -> Byte]
         /\ calculateChecksum(KarateLightBuffer(m)) = 0
         /\ \A i \in 0 .. 15 :
              LET led == Received("KarateLight", KarateLightBuffer(m), i)
              IN  led.color = m[i] /\ led.brightness = FullBrightness
<1> DEFINE frames == [i \in DOMAIN m |-> <<m[i].green, m[i].blue, m[i].red>>]
           header == KARATELIGHT_HEADER
           unsummed == Buffer(52, header, 3, frames)
           p == [unsummed EXCEPT ![3] = calculateChecksum(unsummed)]
<1>1. /\ DOMAIN m = 0 .. 16 - 1
      /\ \A i \in 0 .. 16 - 1 : m[i] \in RGB
  BY DEF Colors
<1>2. frames \in Frames(16, 3)
  <2>1. ASSUME NEW i \in 0 .. 16 - 1
        PROVE  <<m[i].green, m[i].blue, m[i].red>> \in [1 .. 3 -> Byte]
    BY <1>1, Components
  <2> QED
    BY <1>1, <2>1 DEF Frames
<1>3. header \in Seq(Byte) /\ Len(header) = 4 /\ header[3] = 0
  BY DEF KARATELIGHT_HEADER, Byte
<1>4. KarateLightBuffer(m) = p
  BY DEF KarateLightBuffer, KARATELIGHT_PACKET_SIZE, KARATELIGHT_CHECKSUM_BYTE_POS
<1> HIDE DEF header
<1>5. /\ unsummed \in [1 .. 52 -> Byte]
      /\ unsummed[3] = 0
      /\ \A i \in 0 .. 15 : \A j \in 1 .. 3 : unsummed[4 + 3 * i + j] = frames[i][j]
  <2> HIDE DEF frames
  <2>1. 52 = Len(header) + 16 * 3 /\ 52 \in Nat /\ 16 \in Nat /\ 3 \in {3, 4}
    BY <1>3
  <2>2. Consists(unsummed, 52, header, 16, 3, frames)
    BY <1>2, <1>3, <2>1, BufferIs
  <2> HIDE DEF unsummed
  <2> QED
    BY <1>3, <2>2 DEF Consists
<1> HIDE DEF unsummed
<1>6. p \in [1 .. 52 -> Byte] /\ calculateChecksum(p) = 0
  <2>1. 52 \in Nat /\ 3 \in 1 .. 52
    OBVIOUS
  <2>2. \A b \in [1 .. 52 -> Byte] : \A k \in 1 .. 52 :
          b[k] = 0 =>
            Summed(b, k) \in [1 .. 52 -> Byte] /\ calculateChecksum(Summed(b, k)) = 0
    BY <2>1, ChecksumOfAll
  <2>3. /\ Summed(unsummed, 3) \in [1 .. 52 -> Byte]
        /\ calculateChecksum(Summed(unsummed, 3)) = 0
    BY <1>5, <2>1, <2>2
  <2> QED
    BY <2>3 DEF Summed
<1>7. ASSUME NEW i \in 0 .. 15
      PROVE  LET led == Received("KarateLight", p, i)
             IN  led.color = m[i] /\ led.brightness = FullBrightness
  <2>1. /\ 3 * i + 5 = 4 + 3 * i + 1 /\ 3 * i + 6 = 4 + 3 * i + 2
        /\ 3 * i + 7 = 4 + 3 * i + 3
    OBVIOUS
  <2>2. \A k \in 1 .. 52 \ {3} : p[k] = unsummed[k]
    BY <1>5
  <2> HIDE DEF p
  <2>3. p[3 * i + 5] = frames[i][1] /\ p[3 * i + 6] = frames[i][2] /\ p[3 * i + 7] = frames[i][3]
    <3>1. \A j \in 1 .. 3 : 4 + 3 * i + j \in 1 .. 52 \ {3}
      OBVIOUS
    <3>2. \A j \in 1 .. 3 : p[4 + 3 * i + j] = frames[i][j]
      BY <1>5, <2>2, <3>1
    <3> HIDE DEF frames
    <3> QED
      BY <2>1, <3>2
  <2>4. p[3 * i + 5] = m[i].green /\ p[3 * i + 6] = m[i].blue /\ p[3 * i + 7] = m[i].red
    BY <1>1, <2>3
  <2> QED
    BY <1>1, <2>4, Components DEF Received, LED
<1> HIDE DEF p
<1> QED
  BY <1>4, <1>6, <1>7

(* The brightness fits into the five bits beside DOTSTAR_BRIGHTNESS.        *)
LEMMA BrightnessIs ==
  ASSUME NEW c \in RGB
  PROVE  computeDotStarBrightness(c) \in 0 .. FullBrightness
<1> DEFINE sum == c.red + c.green + c.blue
<1>1. sum \in 0 .. 765
  <2>1. c.red \in 0 .. 255 /\ c.green \in 0 .. 255 /\ c.blue \in 0 .. 255
    BY Components DEF Byte
  <2>2. PICK x \in 0 .. 255, y \in 0 .. 255, z \in 0 .. 255 :
          x = c.red /\ y = c.green /\ z = c.blue
    BY <2>1
  <2>3. x + y + z \in 0 .. 765
    OBVIOUS
  <2> QED
    BY <2>2, <2>3
<1> HIDE DEF sum
<1>2. (31 * sum) \div 765 \in 0 .. 31
  BY <1>1
<1> QED
  BY <1>2 DEF computeDotStarBrightness, FullBrightness, sum

LEMMA DotStarPacket ==
  ASSUME NEW n \in Nat, NEW m \in Colors(n)
  PROVE  /\ DotStarBuffer(m) \in [1 .. 4 * n + 8 -> Byte]
         /\ \A i \in 0 .. n - 1 :
              LET led == Received("DotStar", DotStarBuffer(m), i)
              IN  led.color = m[i] /\ led.brightness = computeDotStarBrightness(m[i])
<1> DEFINE First(c) == DOTSTAR_BRIGHTNESS + computeDotStarBrightness(c)
           frames == [i \in DOMAIN m |-> <<First(m[i]), m[i].blue, m[i].green, m[i].red>>]
           header == DOTSTAR_START_FRAME
           end == DOTSTAR_END_FRAME
           size == Len(header) + n * 4
           begin == Buffer(size, header, 4, frames)
           p == begin \o end
<1>1. /\ DOMAIN m = 0 .. n - 1
      /\ \A i \in 0 .. n - 1 : m[i] \in RGB
  BY DEF Colors
<1>2. frames \in Frames(n, 4)
  <2>1. ASSUME NEW i \in 0 .. n - 1
        PROVE  <<First(m[i]), m[i].blue, m[i].green, m[i].red>> \in [1 .. 4 -> Byte]
    <3>1. computeDotStarBrightness(m[i]) \in 0 .. 31
      BY <1>1, BrightnessIs DEF FullBrightness
    <3>2. First(m[i]) \in Byte
      BY <3>1 DEF Byte, DOTSTAR_BRIGHTNESS
    <3> HIDE DEF First
    <3> QED
      BY <1>1, <3>2, Components
  <2> QED
    BY <1>1, <2>1 DEF Frames
<1>3. header \in Seq(Byte) /\ Len(header) = 4 /\ end \in Seq(Byte) /\ Len(end) = 4
  BY DEF DOTSTAR_START_FRAME, DOTSTAR_END_FRAME, Byte
<1>4. Cardinality(DOMAIN m) = n
  BY <1>1, FS_Interval
<1>5. DotStarBuffer(m) = p
  BY <1>4 DEF DotStarBuffer, DOTSTAR_FRAME_LENGTH
<1> HIDE DEF header, end
<1>6. size \in Nat /\ size = 4 * n + 4
  BY <1>3
<1> HIDE DEF size
<1>7. /\ begin \in [1 .. size -> Byte]
      /\ \A i \in 0 .. n - 1 : \A j \in 1 .. 4 :
           4 + 4 * i + j \in 1 .. size /\ begin[4 + 4 * i + j] = frames[i][j]
  <2> HIDE DEF frames
  <2>1. size = Len(header) + n * 4 /\ 4 \in {3, 4}
    BY <1>3, <1>6
  <2>2. Consists(begin, size, header, n, 4, frames)
    BY <1>2, <1>3, <1>6, <2>1, BufferIs
  <2> HIDE DEF begin
  <2> QED
    BY <1>3, <2>2 DEF Consists
<1> HIDE DEF begin
<1>8. begin \in Seq(Byte) /\ Len(begin) = size
  BY <1>6, <1>7, IsSequence
<1>9. /\ p \in Seq(Byte) /\ Len(p) = 4 * n + 8
      /\ \A k \in 1 .. size : p[k] = begin[k]
  <2>1. /\ p \in Seq(Byte) /\ Len(p) = Len(begin) + Len(end)
        /\ \A k \in 1 .. Len(begin) + Len(end) :
             p[k] = IF k <= Len(begin) THEN begin[k] ELSE end[k - Len(begin)]
    BY <1>3, <1>8, ConcatProperties
  <2> HIDE DEF p
  <2> QED
    BY <1>3, <1>6, <1>8, <2>1
<1> HIDE DEF p
<1>10. p \in [1 .. 4 * n + 8 -> Byte]
  BY <1>9, LenProperties, ElementOfSeq
<1>11. ASSUME NEW i \in 0 .. n - 1
       PROVE  LET led == Received("DotStar", p, i)
              IN  led.color = m[i] /\ led.brightness = computeDotStarBrightness(m[i])
  <2>1. /\ 4 * i + 5 = 4 + 4 * i + 1 /\ 4 * i + 6 = 4 + 4 * i + 2
        /\ 4 * i + 7 = 4 + 4 * i + 3 /\ 4 * i + 8 = 4 + 4 * i + 4
    OBVIOUS
  <2>2. /\ p[4 * i + 5] = frames[i][1] /\ p[4 * i + 6] = frames[i][2]
        /\ p[4 * i + 7] = frames[i][3] /\ p[4 * i + 8] = frames[i][4]
    <3>1. \A j \in 1 .. 4 : p[4 + 4 * i + j] = frames[i][j]
      BY <1>7, <1>9
    <3> HIDE DEF frames
    <3> QED
      BY <2>1, <3>1
  <2>3. /\ p[4 * i + 5] = First(m[i]) /\ p[4 * i + 6] = m[i].blue
        /\ p[4 * i + 7] = m[i].green /\ p[4 * i + 8] = m[i].red
    BY <1>1, <2>2
  <2>4. p[4 * i + 5] - DOTSTAR_BRIGHTNESS = computeDotStarBrightness(m[i])
    <3>1. computeDotStarBrightness(m[i]) \in 0 .. 31
      BY <1>1, BrightnessIs DEF FullBrightness
    <3>2. \A x \in 0 .. 31 : 224 + x - 224 = x
      OBVIOUS
    <3> QED
      BY <2>3, <3>1, <3>2 DEF DOTSTAR_BRIGHTNESS
  <2> QED
    BY <1>1, <2>3, <2>4, Components DEF Received, LED
<1> QED
  BY <1>5, <1>10, <1>11

(* Only a DotStar is sent a brightness.                                     *)
BrightnessOf(t, c) == IF t = "DotStar" THEN computeDotStarBrightness(c) ELSE FullBrightness

LEMMA BrightnessIsPositive ==
  ASSUME NEW t \in DeviceType, NEW c \in RGB, ~ (t = "DotStar" /\ TooDim(c))
  PROVE  BrightnessOf(t, c) > 0
<1>1. CASE t # "DotStar"
  BY <1>1 DEF BrightnessOf, FullBrightness
<1>2. CASE t = "DotStar"
  <2> DEFINE sum == c.red + c.green + c.blue
  <2>1. c.red \in 0 .. 255 /\ c.green \in 0 .. 255 /\ c.blue \in 0 .. 255
    BY Components DEF Byte
  <2>2. sum \in Nat /\ sum >= 25
    <3>1. ~ (sum < 25)
      BY <1>2 DEF TooDim
    <3>2. PICK x \in 0 .. 255, y \in 0 .. 255, z \in 0 .. 255 :
            x = c.red /\ y = c.green /\ z = c.blue
      BY <2>1
    <3>3. sum = x + y + z
      BY <3>2
    <3> HIDE DEF sum
    <3> QED
      BY <3>1, <3>3
  <2> HIDE DEF sum
  <2>3. (31 * sum) \div 765 > 0
    BY <2>2
  <2> QED
    BY <1>2, <2>3 DEF BrightnessOf, computeDotStarBrightness, sum
<1> QED
  BY <1>1, <1>2

Size(t, n) ==
  CASE t = "AtmoLight"   -> 19
    [] t = "KarateLight" -> 52
    [] t = "DotStar"     -> 4 * n + 8

LEMMA PacketIs ==
  ASSUME NEW t \in DeviceType, NEW n \in Nat \ {0}, NEW m \in Colors(n),
         t = "AtmoLight" => n = 4, t = "KarateLight" => n = 16
  PROVE  /\ writeBuffer(t, m) \in Seq(Byte)
         /\ Len(writeBuffer(t, m)) = Size(t, n)
         /\ writeBuffer(t, m) # <<>>
         /\ t = "KarateLight" => calculateChecksum(writeBuffer(t, m)) = 0
         /\ \A i \in 0 .. n - 1 :
              LET led == Received(t, writeBuffer(t, m), i)
              IN  led.color = m[i] /\ led.brightness = BrightnessOf(t, m[i])
<1> DEFINE p == writeBuffer(t, m)
<1>1. /\ Size(t, n) \in Nat \ {0}
      /\ p \in [1 .. Size(t, n) -> Byte]
      /\ t = "KarateLight" => calculateChecksum(p) = 0
      /\ \A i \in 0 .. n - 1 :
           LET led == Received(t, p, i)
           IN  led.color = m[i] /\ led.brightness = BrightnessOf(t, m[i])
  <2>1. CASE t = "AtmoLight"
    <3>1. n = 4 /\ p = AtmoLightBuffer(m) /\ Size(t, n) = 19
      BY <2>1 DEF writeBuffer, Size
    <3> HIDE DEF p
    <3>2. m \in Colors(4)
      BY <3>1
    <3>3. /\ p \in [1 .. 19 -> Byte]
          /\ \A i \in 0 .. 3 :
               LET led == Received("AtmoLight", p, i)
               IN  led.color = m[i] /\ led.brightness = FullBrightness
      BY <3>1, <3>2, AtmoLightPacket
    <3> QED
      BY <2>1, <3>1, <3>3 DEF BrightnessOf
  <2>2. CASE t = "KarateLight"
    <3>1. n = 16 /\ p = KarateLightBuffer(m) /\ Size(t, n) = 52
      BY <2>2 DEF writeBuffer, Size
    <3> HIDE DEF p
    <3>2. m \in Colors(16)
      BY <3>1
    <3>3. /\ p \in [1 .. 52 -> Byte]
          /\ calculateChecksum(p) = 0
          /\ \A i \in 0 .. 15 :
               LET led == Received("KarateLight", p, i)
               IN  led.color = m[i] /\ led.brightness = FullBrightness
      BY <3>1, <3>2, KarateLightPacket
    <3> QED
      BY <2>2, <3>1, <3>3 DEF BrightnessOf
  <2>3. CASE t = "DotStar"
    <3>1. p = DotStarBuffer(m) /\ Size(t, n) = 4 * n + 8
      BY <2>3 DEF writeBuffer, Size
    <3> QED
      BY <2>3, <3>1, DotStarPacket DEF BrightnessOf
  <2> QED
    BY <2>1, <2>2, <2>3 DEF DeviceType
<1> HIDE DEF p
<1>2. p \in Seq(Byte) /\ Len(p) = Size(t, n)
  BY <1>1, IsSequence
<1>3. p # <<>>
  BY <1>1, <1>2
<1> QED
  BY <1>1, <1>2, <1>3 DEF p

-------------------------------------------------------------------------------
(***************************************************************************)
(* The inductive invariants.  The device shows m_channels from an update   *)
(* to the next modification, and the loop has set the channels below its   *)
(* counter, or up to it between setChannel() and the end of the update.    *)
(***************************************************************************)
Lit(S) == \A i \in Index : channels[i] = IF i \in S THEN color ELSE Black

ChannelInv ==
  /\ option < 0 => channel \in Index
  /\ option >= 0 => channel = option
  /\ option < 0 /\ next # "again" => channel = 0

OrderInv ==
  /\ main = "open" => next = "clear" /\ packet = <<>>
  /\ main = "clear" => next = "clear"
  /\ main = "set" => next # "clear"
  /\ main = "done" => next = "again" /\ packet # <<>>

LitInv ==
  /\ main = "set" \/ (main = "update" /\ next = "set") =>
       Lit(IF option < 0 THEN 0 .. channel - 1 ELSE {})
  /\ main \in {"update", "done"} /\ next = "again" =>
       Lit(IF option < 0 THEN 0 .. channel ELSE {option})
  /\ main = "done" /\ option < 0 => channel + 1 \notin Index

LoopInv == ChannelInv /\ OrderInv /\ LitInv

NumberOf == NumChannels[type]

LEMMA Numbers ==
  ASSUME type \in DeviceType
  PROVE  /\ NumberOf \in Nat \ {0}
         /\ type = "AtmoLight" => NumberOf = 4
         /\ type = "KarateLight" => NumberOf = 16
         /\ Index = 0 .. NumberOf - 1
BY AtmoctrlAssumption DEF NumberOf, Index, Channel

(* What an update sends when the types hold.                                *)
LEMMA UpdateSends ==
  ASSUME TypeOK, Update
  PROVE  /\ packet' \in Seq(Byte)
         /\ packet' # <<>>
         /\ Len(packet') = Size(type, NumberOf)
         /\ type = "KarateLight" => calculateChecksum(packet') = 0
         /\ leds' = [i \in Index |-> Received(type, packet', i)]
         /\ \A i \in Index : /\ leds'[i].color = channels[i]
                              /\ leds'[i].brightness = BrightnessOf(type, channels[i])
<1>1. channels \in Colors(NumberOf)
  <2>1. channels \in [Index -> RGB]
    BY AtmoctrlAssumption DEF TypeOK
  <2> QED
    BY <2>1, Numbers DEF TypeOK, Colors
<1>2. packet' = writeBuffer(type, channels) /\ leds' = [i \in Index |-> Received(type, packet', i)]
  BY DEF Update
<1>3. /\ packet' \in Seq(Byte)
      /\ packet' # <<>>
      /\ Len(packet') = Size(type, NumberOf)
      /\ type = "KarateLight" => calculateChecksum(packet') = 0
      /\ \A i \in 0 .. NumberOf - 1 :
           LET led == Received(type, packet', i)
           IN  led.color = channels[i] /\ led.brightness = BrightnessOf(type, channels[i])
  BY <1>1, <1>2, Numbers, PacketIs DEF TypeOK
<1> QED
  BY <1>2, <1>3, Numbers DEF TypeOK

LEMMA RepeatKeepsTheType ==
  ASSUME TypeOK, Repeat, UNCHANGED type
  PROVE  /\ main' \in {"clear", "set", "done"}
         /\ channel' \in 0 .. MaxChannel \cup Index
BY DEF TypeOK, Repeat

(* Every variable has its type; a packet is a sequence of bytes of the size *)
(* the device expects (writeBuffer of the three devices).                   *)
THEOREM TypeCorrect == Spec => []TypeOK
<1>1. Init => TypeOK
  <2> SUFFICES ASSUME Init PROVE TypeOK
    OBVIOUS
  <2>1. NumberOf \in Nat \ {0} /\ Index = 0 .. NumberOf - 1
    BY Numbers DEF Init
  <2>2. channel \in 0 .. MaxChannel \cup Index
    BY <2>1, AtmoctrlAssumption DEF Init
  <2>3. channels \in [Index -> Color]
    BY BlackIsAColor DEF Init, Dark, Index
  <2>4. packet \in Seq(Byte)
    BY DEF Init
  <2> QED
    BY <2>2, <2>3, <2>4 DEF Init, TypeOK
<1>2. TypeOK /\ [Next]_vars => TypeOK'
  <2> SUFFICES ASSUME TypeOK, [Next]_vars PROVE TypeOK'
    OBVIOUS
  <2>1. CASE Open
    BY <2>1 DEF TypeOK, Open, arguments, Index
  <2>2. CASE Clear
    <3>1. channels' \in [Index -> Color]
      BY <2>2, BlackIsAColor DEF Clear, Dark, Index
    <3> QED
      BY <2>2, <3>1 DEF TypeOK, Clear, arguments, Index
  <2>3. CASE SetChannel
    <3>1. channels' \in [Index -> Color]
      BY <2>3 DEF TypeOK, SetChannel, arguments
    <3> QED
      BY <2>3, <3>1 DEF TypeOK, SetChannel, arguments, Index
  <2>4. CASE Update
    <3>1. UNCHANGED <<arguments, next, channels>> /\ Repeat
      BY <2>4 DEF Update
    <3>2. /\ main' \in {"clear", "set", "done"}
          /\ channel' \in 0 .. MaxChannel \cup Index
      BY <3>1, RepeatKeepsTheType DEF arguments
    <3>3. packet' \in Seq(Byte) /\ Len(packet') = Size(type, NumberOf) /\ DOMAIN leds' = Index
      BY <2>4, UpdateSends
    <3> QED
      BY <3>1, <3>2, <3>3 DEF TypeOK, arguments, Index, Size, NumberOf
  <2>5. CASE UpdateFails
    BY <2>5 DEF TypeOK, UpdateFails, arguments, Index
  <2>6. CASE Ended
    BY <2>6 DEF TypeOK, Ended, vars, Index
  <2>7. CASE UNCHANGED vars
    BY <2>7 DEF TypeOK, vars, Index
  <2> QED
    BY <2>1, <2>2, <2>3, <2>4, <2>5, <2>6, <2>7 DEF Next
<1> QED
  BY <1>1, <1>2, PTL DEF Spec

LEMMA OrderCorrect ==
  /\ Init => OrderInv
  /\ TypeOK /\ OrderInv /\ [Next]_vars => OrderInv'
<1>1. Init => OrderInv
  BY DEF Init, OrderInv
<1>2. ASSUME TypeOK, OrderInv, [Next]_vars PROVE OrderInv'
  <2>1. CASE Open
    BY <1>2, <2>1 DEF OrderInv, Open
  <2>2. CASE Clear
    BY <1>2, <2>2 DEF OrderInv, Clear
  <2>3. CASE SetChannel
    BY <1>2, <2>3 DEF OrderInv, SetChannel
  <2>4. CASE Update
    <3>1. packet' # <<>>
      BY <1>2, <2>4, UpdateSends
    <3> QED
      BY <1>2, <2>4, <3>1 DEF OrderInv, Update, Repeat, TypeOK
  <2>5. CASE UpdateFails
    BY <1>2, <2>5 DEF OrderInv, UpdateFails
  <2>6. CASE UNCHANGED vars
    BY <1>2, <2>6 DEF OrderInv, vars
  <2> QED
    BY <1>2, <2>1, <2>2, <2>3, <2>4, <2>5, <2>6 DEF Next, Ended
<1> QED
  BY <1>1, <1>2

LEMMA ChannelCorrect ==
  /\ Init => ChannelInv
  /\ TypeOK /\ OrderInv /\ ChannelInv /\ [Next]_vars => ChannelInv'
<1>1. ASSUME Init PROVE ChannelInv
  <2>1. 0 \in Index
    BY <1>1, Numbers DEF Init
  <2>2. option \in Int
    BY <1>1, AtmoctrlAssumption DEF Init
  <2> QED
    BY <1>1, <2>1, <2>2 DEF Init, ChannelInv
<1>2. ASSUME TypeOK, OrderInv, ChannelInv, [Next]_vars PROVE ChannelInv'
  <2>1. CASE Open
    BY <1>2, <2>1 DEF ChannelInv, Open, arguments, Index
  <2>2. CASE Clear
    BY <1>2, <2>2 DEF ChannelInv, OrderInv, Clear, arguments, Index
  <2>3. CASE SetChannel
    BY <1>2, <2>3 DEF ChannelInv, SetChannel, arguments, Index
  <2>4. CASE Update
    <3>1. UNCHANGED <<type, option, next>> /\ Repeat
      BY <2>4 DEF Update, arguments
    <3>2. option \in Int
      BY <1>2, AtmoctrlAssumption DEF TypeOK
    <3> QED
      BY <1>2, <3>1, <3>2 DEF ChannelInv, Repeat, Index
  <2>5. CASE UpdateFails
    BY <1>2, <2>5 DEF ChannelInv, UpdateFails, arguments, Index
  <2>6. CASE UNCHANGED vars
    BY <1>2, <2>6 DEF ChannelInv, vars, Index
  <2> QED
    BY <1>2, <2>1, <2>2, <2>3, <2>4, <2>5, <2>6 DEF Next, Ended
<1> QED
  BY <1>1, <1>2

(* The channels that were set before the next setChannel(), and after it.   *)
Before == IF option < 0 THEN 0 .. channel - 1 ELSE {}
After == IF option < 0 THEN 0 .. channel ELSE {option}

LEMMA LitCorrect ==
  /\ Init => LitInv
  /\ TypeOK /\ OrderInv /\ ChannelInv /\ LitInv /\ [Next]_vars => LitInv'
<1>1. Init => LitInv
  BY DEF Init, LitInv
<1>2. ASSUME TypeOK, OrderInv, ChannelInv, LitInv, [Next]_vars PROVE LitInv'
  <2>1. CASE Open
    BY <1>2, <2>1 DEF LitInv, Lit, OrderInv, Open, arguments, Index
  <2>2. CASE Clear
    <3>1. Before = {}
      BY <1>2, <2>2 DEF Before, ChannelInv, OrderInv, Clear
    <3>2. \A i \in Index : channels'[i] = Black
      BY <2>2 DEF Clear, Dark, Index
    <3>3. UNCHANGED <<type, option, color, channel>> /\ main' = "update" /\ next' = "set"
      BY <2>2 DEF Clear, arguments
    <3> QED
      BY <3>1, <3>2, <3>3 DEF LitInv, Lit, Before, Index
  <2>3. CASE SetChannel
    <3>1. UNCHANGED <<type, option, color, channel>>
      BY <2>3 DEF SetChannel, arguments
    <3>2. CASE channel \in Index
      <4>1. channels' = [channels EXCEPT ![channel] = color] /\ main' = "update" /\ next' = "again"
        BY <2>3, <3>2 DEF SetChannel
      <4>2. \A i \in Index : channels[i] = IF i \in Before THEN color ELSE Black
        BY <1>2, <2>3 DEF LitInv, Lit, Before, SetChannel
      <4>3. \A i \in Index : i \in After <=> i \in Before \/ i = channel
        <5>1. channel \in Nat /\ Index \subseteq Nat
          BY <1>2, <3>2, Numbers DEF TypeOK
        <5>2. option \in Int
          BY <1>2, AtmoctrlAssumption DEF TypeOK
        <5>3. CASE option < 0
          BY <5>1, <5>3 DEF Before, After
        <5>4. CASE option >= 0
          BY <1>2, <5>2, <5>4 DEF Before, After, ChannelInv
        <5> QED
          BY <5>2, <5>3, <5>4
      <4>4. \A i \in Index : channels'[i] = IF i = channel THEN color ELSE channels[i]
        BY <1>2, <4>1 DEF TypeOK
      <4>5. \A i \in Index : channels'[i] = IF i \in After THEN color ELSE Black
        BY <4>2, <4>3, <4>4
      <4> QED
        BY <3>1, <4>1, <4>5 DEF LitInv, Lit, After, Index
    <3>3. CASE channel \notin Index
      BY <2>3, <3>3 DEF LitInv, SetChannel
    <3> QED
      BY <3>2, <3>3
  <2>4. CASE Update
    <3>1. UNCHANGED <<type, option, color, next, channels>> /\ main = "update" /\ Repeat
      BY <2>4 DEF Update, arguments
    <3>2. CASE next # "again"
      BY <1>2, <3>1, <3>2 DEF LitInv, Lit, Repeat, Index, TypeOK
    <3>3. CASE next = "again" /\ option < 0 /\ channel + 1 \in Index
      <4>1. main' = "set" /\ channel' = channel + 1
        BY <3>1, <3>3 DEF Repeat
      <4>2. Lit(0 .. channel)
        BY <1>2, <3>1, <3>3 DEF LitInv
      <4>3. channel' - 1 = channel
        BY <1>2, <3>3, <4>1, Numbers DEF TypeOK, ChannelInv
      <4> QED
        BY <3>1, <3>3, <4>1, <4>2, <4>3 DEF LitInv, Lit, Index
    <3>4. CASE next = "again" /\ ~ (option < 0 /\ channel + 1 \in Index)
      <4>1. main' = "done" /\ channel' = channel
        BY <3>1, <3>4 DEF Repeat
      <4> QED
        BY <1>2, <3>1, <3>4, <4>1 DEF LitInv, Lit, Index
    <3> QED
      BY <3>2, <3>3, <3>4
  <2>5. CASE UpdateFails
    BY <1>2, <2>5 DEF LitInv, UpdateFails
  <2>6. CASE UNCHANGED vars
    BY <1>2, <2>6 DEF LitInv, Lit, vars, Index
  <2> QED
    BY <1>2, <2>1, <2>2, <2>3, <2>4, <2>5, <2>6 DEF Next, Ended
<1> QED
  BY <1>1, <1>2

THEOREM LoopCorrect == Spec => []LoopInv
BY OrderCorrect, ChannelCorrect, LitCorrect, TypeCorrect, PTL DEF Spec, LoopInv

(* After each update every channel of the device has received the colour    *)
(* that m_channels has for it, and its brightness.                          *)
LedsInv ==
  Shown => \A i \in Index : /\ leds[i].color = channels[i]
                            /\ leds[i].brightness = BrightnessOf(type, channels[i])

LEMMA LedsCorrect == Spec => []LedsInv
<1>1. Init => LedsInv
  BY DEF Init, LedsInv, Shown
<1>2. TypeOK /\ LedsInv /\ OrderInv /\ [Next]_vars => LedsInv'
  <2> SUFFICES ASSUME TypeOK, LedsInv, OrderInv, [Next]_vars PROVE LedsInv'
    OBVIOUS
  <2>1. CASE Open
    BY <2>1 DEF OrderInv, LedsInv, Shown, Open
  <2>2. CASE Clear
    BY <2>2 DEF LedsInv, Shown, Clear
  <2>3. CASE SetChannel
    BY <2>3 DEF LedsInv, Shown, SetChannel
  <2>4. CASE Update
    <3>1. /\ UNCHANGED <<type, channels>>
          /\ \A i \in Index : /\ leds'[i].color = channels[i]
                               /\ leds'[i].brightness = BrightnessOf(type, channels[i])
      BY <2>4, UpdateSends DEF Update, arguments
    <3>2. \A i \in Index : BrightnessOf(type, channels[i])' = BrightnessOf(type, channels[i])
      BY <3>1 DEF BrightnessOf
    <3> QED
      BY <3>1, <3>2 DEF LedsInv, Index
  <2>5. CASE UpdateFails
    BY <2>5 DEF LedsInv, Shown, UpdateFails
  <2>6. CASE UNCHANGED vars
    BY <2>6 DEF LedsInv, Shown, vars, Index, BrightnessOf
  <2> QED
    BY <2>1, <2>2, <2>3, <2>4, <2>5, <2>6 DEF Next, Ended
<1> QED
  BY <1>1, <1>2, TypeCorrect, LoopCorrect, PTL DEF Spec, LoopInv

(* device.hpp:106: after each update every channel of the device has        *)
(* received the colour that m_channels has for it, for any colours and any  *)
(* NumChannels.                                                             *)
THEOREM ShowsTheChannels == Spec => []LedsShowChannels
<1>1. LedsInv => LedsShowChannels
  BY DEF LedsInv, LedsShowChannels
<1> QED
  BY <1>1, LedsCorrect, PTL

(* A KarateLight's packet has the checksum zero, for any colours.            *)
THEOREM SumsUp == Spec => []ChecksumHolds
<1>1. Init => ChecksumHolds
  BY DEF Init, ChecksumHolds
<1>2. TypeOK /\ ChecksumHolds /\ [Next]_vars => ChecksumHolds'
  <2> SUFFICES ASSUME TypeOK, ChecksumHolds, [Next]_vars PROVE ChecksumHolds'
    OBVIOUS
  <2>1. CASE Update
    <3>1. type' = type
      BY <2>1 DEF Update, arguments
    <3> QED
      BY <2>1, <3>1, UpdateSends DEF ChecksumHolds
  <2>2. ASSUME ~ Update PROVE UNCHANGED <<type, packet>>
    BY <2>2 DEF Next, Open, Clear, SetChannel, UpdateFails, Ended, arguments, vars
  <2> QED
    BY <2>1, <2>2 DEF ChecksumHolds
<1> QED
  BY <1>1, <1>2, TypeCorrect, PTL DEF Spec

(* A run that succeeds has sent the channels that were asked for their      *)
(* colour at a brightness above 0, except a colour that is too dim for a    *)
(* DotStar, and black to all others (atmoctrl.cpp: clear(), then one        *)
(* setChannel() or the loop).                                               *)
THEOREM LightsWhatWasAsked == Spec => []AskedChannelsAreLit
<1>1. TypeOK /\ LoopInv /\ LedsInv => AskedChannelsAreLit
  <2> SUFFICES ASSUME TypeOK, LoopInv, LedsInv, main = "done", NEW i \in Index
               PROVE  LET asked == option < 0 \/ option = i
                      IN  /\ leds[i].color = IF asked THEN color ELSE Black
                          /\ asked => \/ leds[i].brightness > 0
                                      \/ type = "DotStar" /\ TooDim(color)
    BY DEF AskedChannelsAreLit
  <2>1. leds[i].color = channels[i] /\ leds[i].brightness = BrightnessOf(type, channels[i])
    BY DEF LedsInv, Shown, LoopInv, OrderInv
  <2>2. channels[i] = IF i \in After THEN color ELSE Black
    BY DEF LoopInv, LitInv, OrderInv, Lit, After
  <2>3. option \in Int
    BY AtmoctrlAssumption DEF TypeOK
  <2>4. i \in After <=> option < 0 \/ option = i
    <3>1. CASE option < 0
      <4>1. channel \in Index /\ channel + 1 \notin Index
        BY <3>1 DEF LoopInv, ChannelInv, LitInv
      <4>2. i \in 0 .. channel
        BY <4>1, Numbers DEF TypeOK
      <4> QED
        BY <3>1, <4>2 DEF After
    <3>2. CASE option >= 0
      BY <2>3, <3>2 DEF After
    <3> QED
      BY <2>3, <3>1, <3>2
  <2>5. BrightnessOf(type, color) > 0 \/ (type = "DotStar" /\ TooDim(color))
    BY BrightnessIsPositive, AtmoctrlAssumption DEF TypeOK
  <2> QED
    BY <2>1, <2>2, <2>4, <2>5
<1> QED
  BY <1>1, TypeCorrect, LoopCorrect, LedsCorrect, PTL

===============================================================================
