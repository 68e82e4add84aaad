----------------------------- MODULE CaptureProofs -----------------------------
(***************************************************************************)
(* Proofs about the areas of a picture and their means, for any picture    *)
(* and any configuration of the channels.                                  *)
(***************************************************************************)
EXTENDS Capture, SequenceTheorems, WellFoundedInduction, TLAPS

-------------------------------------------------------------------------------
(***************************************************************************)
(* Total adds up a sequence.  The sets of numbers for which a fact holds   *)
(* stand for the predicates that an induction would be about.              *)
(***************************************************************************)
LEMMA Induction ==
  ASSUME NEW T \in SUBSET Nat, 0 \in T, \A n \in T : n + 1 \in T
  PROVE  T = Nat
<1> SUFFICES ASSUME Nat \ T # {} PROVE FALSE
  OBVIOUS
<1> DEFINE R == {p \in Nat \X Nat : p[1] < p[2]}
           U == Nat \ T
<1>1. IsWellFoundedOn(R, Nat)
  BY NatLessThanWellFounded, Zenon DEF OpToRel
<1>2. <<0, 1>> \in R /\ \A n \in Nat : <<n, n + 1>> \in R
  OBVIOUS
<1>3. U \subseteq Nat /\ U # {}
  OBVIOUS
<1> HIDE DEF R, U
<1>4. PICK n \in U : \A m \in U : ~ (<<m, n>> \in R)
  BY <1>1, <1>3, WFMin, Zenon
<1>5. n \in Nat /\ n # 0 /\ n \notin T
  BY DEF U
<1>6. n - 1 \in Nat /\ (n - 1) + 1 = n
  BY <1>5
<1>7. n - 1 \in T
  BY <1>2, <1>4, <1>6 DEF U
<1> QED
  BY <1>5, <1>6, <1>7

Sums(g, s, n) == g = [k \in 0 .. n |-> IF k = 0 THEN 0 ELSE g[k - 1] + s[k]]

LEMMA SumsExist ==
  ASSUME NEW s, NEW n \in Nat
  PROVE  \E g : Sums(g, s, n)
<1> DEFINE T == {i \in Nat : \E g : Sums(g, s, i)}
<1>1. 0 \in T
  <2> DEFINE g == [k \in 0 .. 0 |-> 0]
  <2>1. Sums(g, s, 0)
    BY DEF Sums
  <2> QED
    BY <2>1
<1>2. ASSUME NEW i \in T PROVE i + 1 \in T
  <2>1. PICK g : Sums(g, s, i)
    OBVIOUS
  <2> DEFINE h == [k \in 0 .. i + 1 |-> IF k = i + 1 THEN g[i] + s[i + 1] ELSE g[k]]
  <2>2. ASSUME NEW k \in 0 .. i + 1 PROVE h[k] = IF k = 0 THEN 0 ELSE h[k - 1] + s[k]
    BY <2>1 DEF Sums
  <2>3. Sums(h, s, i + 1)
    BY <2>2 DEF Sums
  <2> QED
    BY <2>3
<1> HIDE DEF T
<1>3. T = Nat
  BY <1>1, <1>2, Induction DEF T
<1> QED
  BY <1>3 DEF T

LEMMA TotalIsSum ==
  ASSUME NEW s, NEW n \in Nat
  PROVE  \E g : Sums(g, s, n) /\ Total(s, n) = g[n]
<1> DEFINE sum == CHOOSE g : g = [k \in 0 .. n |-> IF k = 0 THEN 0 ELSE g[k - 1] + s[k]]
<1>1. \E g : g = [k \in 0 .. n |-> IF k = 0 THEN 0 ELSE g[k - 1] + s[k]]
  BY SumsExist DEF Sums
<1>2. sum = [k \in 0 .. n |-> IF k = 0 THEN 0 ELSE sum[k - 1] + s[k]]
  BY <1>1
<1>3. Total(s, n) = sum[n]
  BY DEF Total
<1> HIDE DEF sum
<1> QED
  BY <1>2, <1>3 DEF Sums

LEMMA Distributes ==
  ASSUME NEW k \in Nat, NEW b \in Int
  PROVE  0 * b = 0 /\ k * b \in Int /\ (k + 1) * b = k * b + b
  OBVIOUS

(* The sum of n numbers between low and high.                               *)
LEMMA TotalBounds ==
  ASSUME NEW s, NEW n \in Nat, NEW low \in Int, NEW high \in Int,
         \A k \in 1 .. n : s[k] \in Int /\ low <= s[k] /\ s[k] <= high
  PROVE  Total(s, n) \in Int /\ n * low <= Total(s, n) /\ Total(s, n) <= n * high
<1>1. PICK g : Sums(g, s, n) /\ Total(s, n) = g[n]
  BY TotalIsSum
<1> DEFINE Bound(k) == g[k] \in Int /\ k * low <= g[k] /\ g[k] <= k * high
           T == {k \in Nat : k <= n => Bound(k)}
<1>2. 0 \in T
  <2>1. g[0] = 0
    BY <1>1 DEF Sums
  <2> QED
    BY <2>1, Distributes
<1>3. ASSUME NEW k \in T PROVE k + 1 \in T
  <2> SUFFICES ASSUME k + 1 <= n PROVE Bound(k + 1)
    OBVIOUS
  <2>1. g[k + 1] = g[k] + s[k + 1]
    BY <1>1 DEF Sums
  <2>2. Bound(k) /\ s[k + 1] \in Int /\ low <= s[k + 1] /\ s[k + 1] <= high
    OBVIOUS
  <2>3. /\ k * low \in Int /\ (k + 1) * low = k * low + low
        /\ k * high \in Int /\ (k + 1) * high = k * high + high
    BY Distributes
  <2>4. ASSUME NEW a \in Int, NEW b \in Int, NEW c \in Int, NEW d \in Int,
               a <= b, c <= d
        PROVE  a + c <= b + d
    BY <2>4
  <2> QED
    BY <2>1, <2>2, <2>3, <2>4
<1> HIDE DEF T
<1>4. n \in T
  BY <1>2, <1>3, Induction DEF T
<1> QED
  BY <1>1, <1>4 DEF T

-------------------------------------------------------------------------------
(***************************************************************************)
(* The mean of an area.                                                    *)
(***************************************************************************)
IsArea(area) ==
  area.x \in Int /\ area.y \in Int /\ area.width \in Nat /\ area.height \in Nat

Between(picture, area, low, high) ==
  \A y \in Lines(area) : \A x \in Columns(area) :
    picture[y][x] \in Int /\ low <= picture[y][x] /\ picture[y][x] <= high

LEMMA Products ==
  ASSUME NEW w \in Nat, NEW h \in Nat, NEW b \in Int
  PROVE  w * b \in Int /\ h * (w * b) = (w * h) * b /\ w * h \in Nat
  OBVIOUS

LEMMA SumBounds ==
  ASSUME NEW picture, NEW area, IsArea(area), NEW low \in Int, NEW high \in Int,
         Between(picture, area, low, high)
  PROVE  /\ Sum(picture, area) \in Int /\ Size(area) \in Nat
         /\ Size(area) * low <= Sum(picture, area)
         /\ Sum(picture, area) <= Size(area) * high
<1> DEFINE w == area.width
           h == area.height
           line(y) == [x \in 1 .. w |-> picture[area.y + y][area.x + x]]
           s == LineSums(picture, area)
<1>1. w \in Nat /\ h \in Nat
  BY DEF IsArea
<1>2. ASSUME NEW y \in 1 .. h
      PROVE  s[y] \in Int /\ w * low <= s[y] /\ s[y] <= w * high
  <2>1. ASSUME NEW x \in 1 .. w
        PROVE  line(y)[x] \in Int /\ low <= line(y)[x] /\ line(y)[x] <= high
    <3>1. area.y + y \in Lines(area) /\ area.x + x \in Columns(area)
      BY <1>1 DEF IsArea, Lines, Columns
    <3> QED
      BY <3>1 DEF Between
  <2>2. s[y] = Total(line(y), w)
    BY DEF LineSums
  <2> HIDE DEF line, s, w
  <2> QED
    BY <1>1, <2>1, <2>2, TotalBounds
<1>3. Sum(picture, area) = Total(s, h) /\ Size(area) = w * h
  BY DEF Sum, Size
<1> HIDE DEF s, w, h, line
<1>4. /\ w * low \in Int /\ h * (w * low) = (w * h) * low
      /\ w * high \in Int /\ h * (w * high) = (w * h) * high /\ w * h \in Nat
  BY <1>1, Products
<1>5. Total(s, h) \in Int /\ h * (w * low) <= Total(s, h) /\ Total(s, h) <= h * (w * high)
  BY <1>1, <1>2, <1>4, TotalBounds
<1> QED
  BY <1>3, <1>4, <1>5

(* Only the pixels of the area count.                                       *)
LEMMA SumSame ==
  ASSUME NEW p, NEW q, NEW area, IsArea(area),
         \A y \in Lines(area) : \A x \in Columns(area) : p[y][x] = q[y][x]
  PROVE  Sum(p, area) = Sum(q, area)
<1> DEFINE Line(r, y) == [x \in 1 .. area.width |-> r[area.y + y][area.x + x]]
<1>1. ASSUME NEW y \in 1 .. area.height PROVE Line(p, y) = Line(q, y)
  <2>1. ASSUME NEW x \in 1 .. area.width
        PROVE  p[area.y + y][area.x + x] = q[area.y + y][area.x + x]
    <3>1. area.y + y \in Lines(area) /\ area.x + x \in Columns(area)
      BY DEF IsArea, Lines, Columns
    <3> QED
      BY <3>1
  <2> QED
    BY <2>1
<1>2. \A r : LineSums(r, area) = [y \in 1 .. area.height |-> Total(Line(r, y), area.width)]
  BY DEF LineSums
<1> HIDE DEF Line
<1>3. LineSums(p, area) = LineSums(q, area)
  BY <1>1, <1>2
<1> QED
  BY <1>3 DEF Sum

LEMMA Quotient ==
  ASSUME NEW a \in Int, NEW n \in Nat \ {0}
  PROVE  /\ a \div n \in Int /\ n * (a \div n) \in Int
         /\ n * (a \div n) <= a /\ a < n * (a \div n) + n
  OBVIOUS

LEMMA Multiples ==
  ASSUME NEW n \in Nat \ {0}, NEW a \in Int, NEW b \in Int, n * a < n * (b + 1)
  PROVE  a <= b
<1> SUFFICES ASSUME a >= b + 1 PROVE n * a >= n * (b + 1)
  OBVIOUS
<1> DEFINE e == a - (b + 1)
<1>1. e \in Nat /\ a = (b + 1) + e
  OBVIOUS
<1> HIDE DEF e
<1>2. n * a = n * (b + 1) + n * e /\ n * e \in Nat /\ n * (b + 1) \in Int
  BY <1>1
<1> QED
  BY <1>2

(* A mean, truncated or rounded, is between the least and the greatest.     *)
LEMMA MeanBounds ==
  ASSUME NEW n \in Nat \ {0}, NEW sum \in Int, NEW low \in Int, NEW high \in Int,
         n * low <= sum, sum <= n * high
  PROVE  /\ Truncated(sum, n) \in low .. high
         /\ Rounded(sum, n) \in low .. high
         /\ Truncated(sum, n) * n <= sum /\ sum < (Truncated(sum, n) + 1) * n
<1> DEFINE q == sum \div n
           r == sum - n * q
<1>1. q \in Int /\ r \in 0 .. n - 1 /\ sum = n * q + r
  BY Quotient
<1>2. Truncated(sum, n) = q /\ Rounded(sum, n) \in {q, q + 1}
      /\ (Rounded(sum, n) = q + 1 => r # 0)
  <2>1. Truncated(sum, n) = q
    BY DEF Truncated
  <2>2. r = 0 => Rounded(sum, n) = q
    <3>1. ASSUME r = 0 PROVE ~ (2 * r > n) /\ ~ (2 * r = n)
      BY <3>1
    <3> QED
      BY <3>1 DEF Rounded
  <2>3. Rounded(sum, n) \in {q, q + 1}
    BY DEF Rounded
  <2> QED
    BY <1>1, <2>1, <2>2, <2>3
<1> HIDE DEF q, r
<1>3. /\ n * q \in Int /\ n * (q + 1) = n * q + n /\ n * low \in Int /\ n * high \in Int
      /\ n * (high + 1) = n * high + n /\ q * n = n * q /\ (q + 1) * n = n * q + n
  BY <1>1
<1>4. low <= q
  BY <1>1, <1>3, Multiples
<1>5. q <= high
  BY <1>1, <1>3, Multiples
<1>6. r # 0 => q + 1 <= high
  BY <1>1, <1>3, Multiples
<1> QED
  BY <1>1, <1>2, <1>3, <1>4, <1>5, <1>6

-------------------------------------------------------------------------------
(***************************************************************************)
(* The segments of a configuration and where their areas are.              *)
(***************************************************************************)
IsChannelConfigs(c) == \A s \in Side : c[s] \in [count : Nat, depth : Nat, crop : Nat]

IsSegment(c, segment) == segment.side \in Side /\ segment.index \in 1 .. c[segment.side].count

LEMMA IsSequence ==
  ASSUME NEW S, NEW n \in Nat, NEW f \in [1 .. n -> S]
  PROVE  f \in Seq(S) /\ Len(f) = n
<1>1. f \in Seq(S)
  BY SeqDef
<1> QED
  BY <1>1, LenProperties

Elements(s) == {s[i] : i \in 1 .. Len(s)}

LEMMA ConcatElements ==
  ASSUME NEW S, NEW s \in Seq(S), NEW t \in Seq(S)
  PROVE  s \o t \in Seq(S) /\ Elements(s \o t) = Elements(s) \cup Elements(t)
<1>1. /\ s \o t \in Seq(S) /\ Len(s) \in Nat /\ Len(t) \in Nat
      /\ Len(s \o t) = Len(s) + Len(t)
      /\ \A i \in 1 .. Len(s) + Len(t) :
           (s \o t)[i] = IF i <= Len(s) THEN s[i] ELSE t[i - Len(s)]
  BY ConcatProperties, LenProperties
<1>2. ASSUME NEW e \in Elements(s \o t) PROVE e \in Elements(s) \cup Elements(t)
  <2>1. PICK i \in 1 .. Len(s) + Len(t) : e = (s \o t)[i]
    BY <1>1 DEF Elements
  <2>2. CASE i <= Len(s)
    BY <1>1, <2>1, <2>2 DEF Elements
  <2>3. CASE ~ (i <= Len(s))
    <3>1. i - Len(s) \in 1 .. Len(t) /\ e = t[i - Len(s)]
      BY <1>1, <2>1, <2>3
    <3> QED
      BY <3>1 DEF Elements
  <2> QED
    BY <2>2, <2>3
<1>3. ASSUME NEW i \in 1 .. Len(s) PROVE s[i] \in Elements(s \o t)
  BY <1>1 DEF Elements
<1>4. ASSUME NEW i \in 1 .. Len(t) PROVE t[i] \in Elements(s \o t)
  <2>1. Len(s) + i \in 1 .. Len(s) + Len(t) /\ (s \o t)[Len(s) + i] = t[i]
    BY <1>1
  <2> QED
    BY <1>1, <2>1 DEF Elements
<1> QED
  BY <1>1, <1>2, <1>3, <1>4 DEF Elements

LEMMA SegmentsOf ==
  ASSUME NEW c, IsChannelConfigs(c)
  PROVE  /\ Len(Segments(c)) \in Nat /\ DOMAIN Segments(c) = 1 .. Len(Segments(c))
         /\ \A k \in 1 .. Len(Segments(c)) : IsSegment(c, Segments(c)[k])
         /\ \A s \in Side : \A i \in 1 .. c[s].count :
              \E k \in 1 .. Len(Segments(c)) : Segments(c)[k] = [side |-> s, index |-> i]
<1> DEFINE Of(s) == [i \in 1 .. c[s].count |-> [side |-> s, index |-> i]]
           S == [side : Side, index : Nat]
<1>1. ASSUME NEW s \in Side
      PROVE  /\ Of(s) \in Seq(S)
             /\ Elements(Of(s)) = {[side |-> s, index |-> i] : i \in 1 .. c[s].count}
  <2>1. c[s].count \in Nat
    BY DEF IsChannelConfigs
  <2>2. Of(s) \in [1 .. c[s].count -> S]
    OBVIOUS
  <2>3. Of(s) \in Seq(S) /\ Len(Of(s)) = c[s].count
    BY <2>1, <2>2, IsSequence
  <2> QED
    BY <2>3 DEF Elements
<1>2. Segments(c) = Of("top") \o Of("bottom") \o Of("left") \o Of("right")
  BY DEF Segments
<1> HIDE DEF Of, S
<1>3. /\ Segments(c) \in Seq(S)
      /\ Elements(Segments(c)) = UNION {Elements(Of(s)) : s \in Side}
  <2>1. {"top", "bottom", "left", "right"} = Side
    BY DEF Side
  <2>2. /\ Of("top") \in Seq(S) /\ Of("bottom") \in Seq(S)
        /\ Of("left") \in Seq(S) /\ Of("right") \in Seq(S)
    BY <1>1, <2>1
  <2> DEFINE tb  == Of("top") \o Of("bottom")
             tbl == tb \o Of("left")
  <2>3. tb \in Seq(S) /\ Elements(tb) = Elements(Of("top")) \cup Elements(Of("bottom"))
    BY <2>2, ConcatElements
  <2> HIDE DEF tb
  <2>4. tbl \in Seq(S) /\ Elements(tbl) = Elements(tb) \cup Elements(Of("left"))
    BY <2>2, <2>3, ConcatElements
  <2> HIDE DEF tbl
  <2>5. /\ Segments(c) \in Seq(S)
        /\ Elements(Segments(c)) = Elements(tbl) \cup Elements(Of("right"))
    <3>1. Segments(c) = tbl \o Of("right")
      BY <1>2, Zenon DEF tb, tbl
    <3>2. /\ tbl \o Of("right") \in Seq(S)
          /\ Elements(tbl \o Of("right")) = Elements(tbl) \cup Elements(Of("right"))
      BY <2>2, <2>4, ConcatElements
    <3> QED
      BY <3>1, <3>2
  <2>6. UNION {Elements(Of(s)) : s \in Side} =
          Elements(Of("top")) \cup Elements(Of("bottom")) \cup
          Elements(Of("left")) \cup Elements(Of("right"))
    BY <2>1
  <2> QED
    BY <2>3, <2>4, <2>5, <2>6
<1>4. Len(Segments(c)) \in Nat /\ DOMAIN Segments(c) = 1 .. Len(Segments(c))
  BY <1>3, LenProperties
<1>5. ASSUME NEW k \in 1 .. Len(Segments(c)) PROVE IsSegment(c, Segments(c)[k])
  <2>1. Segments(c)[k] \in UNION {Elements(Of(s)) : s \in Side}
    BY <1>3 DEF Elements
  <2>2. PICK s \in Side : Segments(c)[k] \in Elements(Of(s))
    BY <2>1
  <2>3. PICK i \in 1 .. c[s].count : Segments(c)[k] = [side |-> s, index |-> i]
    BY <1>1, <2>2
  <2> QED
    BY <2>3 DEF IsSegment
<1>6. ASSUME NEW s \in Side, NEW i \in 1 .. c[s].count
      PROVE  \E k \in 1 .. Len(Segments(c)) : Segments(c)[k] = [side |-> s, index |-> i]
  <2>1. [side |-> s, index |-> i] \in Elements(Segments(c))
    BY <1>1, <1>3
  <2> QED
    BY <2>1 DEF Elements
<1> QED
  BY <1>4, <1>5, <1>6

LEMMA PartIsNat ==
  ASSUME NEW length \in Int, NEW n \in Nat \ {0}, NEW i \in Nat
  PROVE  Part(length, n, i) \in Nat
<1>1. CASE length < 0
  BY <1>1 DEF Part
<1>2. CASE length >= 0
  <2> DEFINE a == length * i
  <2>1. a \in Nat
    BY <1>2
  <2> HIDE DEF a
  <2>2. a \div n \in Int /\ a < n * (a \div n) + n
    BY <2>1, Quotient
  <2>3. a \div n >= 0
    <3> DEFINE q == a \div n
    <3>1. q \in Int /\ n * 0 < n * (q + 1)
      BY <2>1, <2>2
    <3> HIDE DEF q
    <3>2. 0 <= q
      BY <3>1, Multiples
    <3> QED
      BY <3>2 DEF q
  <2>4. Part(length, n, i) = a \div n
    BY <1>2 DEF Part, a
  <2> QED
    BY <2>2, <2>3, <2>4
<1> QED
  BY <1>1, <1>2

(* Each of n parts has a pixel and ends before the length does.             *)
LEMMA PartsFit ==
  ASSUME NEW length \in Int, NEW n \in Nat \ {0}, n <= length, NEW i \in 0 .. n - 1
  PROVE  /\ Part(length, n, i) \in Nat /\ Part(length, n, 1) \in Nat \ {0}
         /\ Part(length, n, i) + Part(length, n, 1) <= length
<1>1. PICK a \in Nat : a = Part(length, n, i)
  BY PartIsNat
<1>2. PICK b \in Nat : b = Part(length, n, 1)
  BY PartIsNat
<1>3. a = (length * i) \div n /\ b = (length * 1) \div n /\ length * 1 = length
  BY <1>1, <1>2 DEF Part
<1>4. /\ length * i \in Int /\ n * a \in Int /\ n * b \in Int
      /\ n * a <= length * i /\ n * b <= length /\ length < n * b + n
  BY <1>3, Quotient
<1>5. /\ n * (a + b) = n * a + n * b /\ n * (length + 1) = n * length + n
      /\ n * (b + 1) = n * b + n /\ n * 1 = n /\ n * length \in Int
  OBVIOUS
<1>6. length * i + length <= n * length
  <2>1. PICK e \in Nat : n = i + 1 + e
    <3>1. n - (i + 1) \in Nat /\ n = i + 1 + (n - (i + 1))
      OBVIOUS
    <3> QED
      BY <3>1
  <2>2. n * length = length * i + length + e * length /\ e * length \in Nat
    BY <2>1
  <2> QED
    BY <1>4, <2>2
<1>7. a + b <= length
  <2>1. n * (a + b) < n * (length + 1)
    BY <1>4, <1>5, <1>6
  <2> QED
    BY <2>1, Multiples
<1>8. 1 <= b
  <2>1. n * 1 < n * (b + 1)
    BY <1>4, <1>5
  <2> QED
    BY <2>1, Multiples
<1> QED
  BY <1>1, <1>2, <1>7, <1>8

(* An area is somewhere, which only depends on the size of the picture.     *)
LEMMA AreaIsArea ==
  ASSUME NEW c, IsChannelConfigs(c), NEW segment, IsSegment(c, segment),
         NEW p, Rows(p) \in Nat, Cols(p) \in Nat
  PROVE  IsArea(AreaOf(c, p, segment))
<1> DEFINE s == segment.side
           n == c[s].count
           i == segment.index - 1
<1>1. s \in Side /\ n \in Nat \ {0} /\ i \in Nat
  BY DEF IsSegment, IsChannelConfigs
<1>2. \A r \in Side : c[r].depth \in Nat /\ c[r].crop \in Nat
  BY DEF IsChannelConfigs
<1>3. InnerCols(c, p) \in Int /\ InnerRows(c, p) \in Int
  BY <1>2 DEF InnerCols, InnerRows, Side
<1>4. \A j \in Nat : /\ Part(InnerCols(c, p), n, j) \in Nat
                     /\ Part(InnerRows(c, p), n, j) \in Nat
  BY <1>1, <1>3, PartIsNat
<1>5. CASE s = "top"
  <2>1. AreaOf(c, p, segment) = TopArea(c, p, i)
    BY <1>5 DEF AreaOf
  <2> QED
    BY <1>1, <1>2, <1>4, <1>5, <2>1 DEF TopArea, Area, IsArea, Side
<1>6. CASE s = "bottom"
  <2>1. AreaOf(c, p, segment) = BottomArea(c, p, i)
    BY <1>6 DEF AreaOf
  <2> QED
    BY <1>1, <1>2, <1>4, <1>6, <2>1 DEF BottomArea, Area, IsArea, Side
<1>7. CASE s = "left"
  <2>1. AreaOf(c, p, segment) = LeftArea(c, p, i)
    BY <1>7 DEF AreaOf
  <2> QED
    BY <1>1, <1>2, <1>4, <1>7, <2>1 DEF LeftArea, Area, IsArea, Side
<1>8. CASE s = "right"
  <2>1. AreaOf(c, p, segment) = RightArea(c, p, i)
    BY <1>8 DEF AreaOf
  <2> QED
    BY <1>1, <1>2, <1>4, <1>8, <2>1 DEF RightArea, Area, IsArea, Side
<1> QED
  BY <1>1, <1>5, <1>6, <1>7, <1>8 DEF Side

LEMMA AreaOfSize ==
  ASSUME NEW c, NEW segment, NEW p, NEW q, Rows(p) = Rows(q), Cols(p) = Cols(q)
  PROVE  AreaOf(c, p, segment) = AreaOf(c, q, segment)
<1>1. InnerCols(c, p) = InnerCols(c, q) /\ InnerRows(c, p) = InnerRows(c, q)
  BY DEF InnerCols, InnerRows
<1> QED
  BY <1>1, Zenon DEF AreaOf, TopArea, BottomArea, LeftArea, RightArea

===============================================================================
