----------------------------- MODULE AnalyzerProofs -----------------------------
(***************************************************************************)
(* Proofs about the Analyzer, for any devices, sections of the file,       *)
(* pictures and calls of the users.                                        *)
(***************************************************************************)
EXTENDS Analyzer, CaptureProofs

(***************************************************************************)
(* What the assumption says of a section and of a picture.                 *)
(***************************************************************************)
LEMMA Levels == \E b \in Nat : Color = 0 .. b
BY AnalyzerAssumption

Mapping == [device_index : Nat, device_channel : Nat]

LEMMA SectionIsRead ==
  ASSUME NEW s \in Settings
  PROVE  /\ IsChannelConfigs(s.capture)
         /\ \A side \in Side : s.mappings[side] \in Seq(Mapping)
BY AnalyzerAssumption DEF IsChannelConfigs, Mapping

(* A picture as a capture device delivers it, and that one painted over.    *)
IsPicture(p) ==
  /\ p \in Seq(Seq(Color))
  /\ Rows(p) \in Nat \ {0} /\ Cols(p) \in Nat
  /\ \A y \in 1 .. Rows(p) : p[y] \in Seq(Color) /\ Len(p[y]) = Cols(p)

SameSize(p, q) == Rows(p) = Rows(q) /\ Cols(p) = Cols(q)

LEMMA PicturesAre ==
  ASSUME NEW p \in Picture PROVE IsPicture(Pictures[p])
<1> DEFINE q == Pictures[p]
<1>1. /\ q \in Seq(Seq(Color)) /\ q # <<>>
      /\ \A y \in DOMAIN q : Len(q[y]) = Cols(q)
  BY AnalyzerAssumption
<1> HIDE DEF q
<1>2. Rows(q) \in Nat \ {0} /\ DOMAIN q = 1 .. Rows(q)
  BY <1>1, EmptySeq, LenProperties DEF Rows
<1>3. \A y \in 1 .. Rows(q) : q[y] \in Seq(Color)
  BY <1>1, ElementOfSeq DEF Rows
<1>4. 1 \in 1 .. Rows(q)
  BY <1>2
<1>5. Cols(q) \in Nat
  BY <1>3, <1>4, LenProperties DEF Cols
<1> QED
  BY <1>1, <1>2, <1>3, <1>5 DEF IsPicture, q

(* The pixels of an area that a picture has.                                *)
LEMMA PixelsAre ==
  ASSUME NEW p, IsPicture(p), NEW area, IsArea(area), Inside(area, p),
         NEW y \in Lines(area), NEW x \in Columns(area)
  PROVE  y \in 1 .. Rows(p) /\ x \in 1 .. Cols(p) /\ p[y][x] \in Color
<1>1. y \in 1 .. Rows(p) /\ x \in 1 .. Cols(p)
  <2>1. y \in area.y + 1 .. area.y + area.height /\ x \in area.x + 1 .. area.x + area.width
    BY DEF Lines, Columns
  <2>2. /\ area.x \in Int /\ area.width \in Int /\ area.y \in Int /\ area.height \in Int
        /\ Rows(p) \in Int /\ Cols(p) \in Int
    BY DEF IsArea, IsPicture
  <2>3. /\ area.x >= 0 /\ area.x + area.width <= Cols(p)
        /\ area.y >= 0 /\ area.y + area.height <= Rows(p)
    BY DEF Inside
  <2> QED
    BY <2>1, <2>2, <2>3
<1>2. p[y] \in Seq(Color) /\ x \in 1 .. Len(p[y])
  BY <1>1 DEF IsPicture
<1>3. p[y][x] \in Color
  BY <1>2, ElementOfSeq
<1> QED
  BY <1>1, <1>3

LEMMA HasPixels ==
  ASSUME NEW area, IsArea(area)
  PROVE  /\ Size(area) \in Nat
         /\ Size(area) > 0 <=> area.width > 0 /\ area.height > 0
         /\ Size(area) = 0 => Lines(area) = {} \/ Columns(area) = {}
<1>1. ASSUME NEW w \in Nat, NEW h \in Nat
      PROVE  w * h \in Nat /\ (w * h > 0 <=> w > 0 /\ h > 0)
  <2>1. w * h \in Nat
    OBVIOUS
  <2>2. ASSUME w > 0, h > 0 PROVE w * h > 0
    BY <2>2
  <2>3. w = 0 \/ h = 0 => w * h = 0
    OBVIOUS
  <2> QED
    BY <2>1, <2>2, <2>3
<1>2. area.width = 0 => Columns(area) = {}
  BY DEF IsArea, Columns
<1>3. area.height = 0 => Lines(area) = {}
  BY DEF IsArea, Lines
<1> QED
  BY <1>1, <1>2, <1>3 DEF IsArea, Size

(* The mean of an area is a colour, and so is what the area is painted.     *)
LEMMA MeanIsColor ==
  ASSUME NEW p, IsPicture(p), NEW area, IsArea(area), Inside(area, p)
  PROVE  LET sum  == Sum(p, area)
             n    == Size(area)
             mean == Truncated(sum, n)
         IN  /\ mean \in Color
             /\ n > 0 => /\ Rounded(sum, n) \in Color
                         /\ mean * n <= sum /\ sum < (mean + 1) * n
<1>1. PICK b \in Nat : Color = 0 .. b
  BY Levels
<1>2. Size(area) \in Nat
  BY HasPixels
<1>3. CASE Size(area) = 0
  BY <1>1, <1>3 DEF Truncated
<1>4. CASE Size(area) # 0
  <2>1. Between(p, area, 0, b)
    <3>1. ASSUME NEW y \in Lines(area), NEW x \in Columns(area)
          PROVE  p[y][x] \in Int /\ 0 <= p[y][x] /\ p[y][x] <= b
      BY <1>1, PixelsAre
    <3> QED
      BY <3>1 DEF Between
  <2>2. /\ Sum(p, area) \in Int
        /\ Size(area) * 0 <= Sum(p, area) /\ Sum(p, area) <= Size(area) * b
    BY <2>1, SumBounds
  <2>3. /\ Truncated(Sum(p, area), Size(area)) \in 0 .. b
        /\ Rounded(Sum(p, area), Size(area)) \in 0 .. b
        /\ Truncated(Sum(p, area), Size(area)) * Size(area) <= Sum(p, area)
        /\ Sum(p, area) < (Truncated(Sum(p, area), Size(area)) + 1) * Size(area)
    <3>1. Size(area) \in Nat \ {0} /\ 0 \in Int /\ b \in Int
      BY <1>2, <1>4
    <3> QED
      BY <2>2, <3>1, MeanBounds
  <2> QED
    BY <1>1, <2>3
<1> QED
  BY <1>3, <1>4

(* A painted picture is a picture of that size.                             *)
LEMMA PaintedIsPicture ==
  ASSUME NEW p, IsPicture(p), NEW area, IsArea(area),
         NEW level, Size(area) > 0 => level \in Color
  PROVE  IsPicture(Painted(p, area, level)) /\ SameSize(Painted(p, area, level), p)
<1> DEFINE q == Painted(p, area, level)
           line(y) == [x \in DOMAIN p[y] |->
                         IF y \in Lines(area) /\ x \in Columns(area) THEN level ELSE p[y][x]]
<1>1. DOMAIN p = 1 .. Rows(p) /\ Rows(p) \in Nat \ {0}
  BY LenProperties DEF IsPicture, Rows
<1>2. ASSUME NEW y \in 1 .. Rows(p)
      PROVE  line(y) \in Seq(Color) /\ Len(line(y)) = Cols(p)
  <2>1. p[y] \in Seq(Color) /\ DOMAIN p[y] = 1 .. Cols(p) /\ Cols(p) \in Nat
    BY LenProperties DEF IsPicture
  <2>2. ASSUME NEW x \in 1 .. Cols(p) PROVE line(y)[x] \in Color
    <3>1. p[y][x] \in Color
      BY <2>1, LenProperties, ElementOfSeq
    <3>2. y \in Lines(area) /\ x \in Columns(area) => level \in Color
      BY HasPixels
    <3> QED
      BY <2>1, <3>1, <3>2
  <2>3. line(y) \in [1 .. Cols(p) -> Color]
    BY <2>1, <2>2
  <2> HIDE DEF line
  <2> QED
    BY <2>1, <2>3, IsSequence
<1>3. q = [y \in 1 .. Rows(p) |-> line(y)]
  BY <1>1 DEF Painted
<1> HIDE DEF line, q
<1>4. q \in [1 .. Rows(p) -> Seq(Color)]
  BY <1>2, <1>3
<1>5. q \in Seq(Seq(Color)) /\ Rows(q) = Rows(p)
  BY <1>1, <1>4, IsSequence DEF Rows
<1>6. Cols(q) = Cols(p)
  BY <1>1, <1>2, <1>3 DEF Cols
<1> QED
  BY <1>1, <1>2, <1>3, <1>5, <1>6 DEF IsPicture, SameSize, q

LEMMA SameAreas ==
  ASSUME NEW p, NEW q, SameSize(p, q), NEW c, NEW segment
  PROVE  AreaOf(c, p, segment) = AreaOf(c, q, segment)
BY AreaOfSize DEF SameSize

(* The segments that are averaged: those of the section.                    *)
LEMMA PartsAre ==
  ASSUME settings \in Settings
  PROVE  /\ Len(Parts) \in Nat /\ DOMAIN Parts = 1 .. Len(Parts)
         /\ \A k \in 1 .. Len(Parts) : IsSegment(settings.capture, Parts[k])
         /\ \A s \in Side : \A i \in 1 .. settings.capture[s].count :
              \E k \in 1 .. Len(Parts) : Parts[k] = [side |-> s, index |-> i]
BY SectionIsRead, SegmentsOf DEF Parts

LEMMA PlaceIsArea ==
  ASSUME settings \in Settings, NEW k \in 1 .. Len(Parts), NEW p, IsPicture(p)
  PROVE  IsArea(AreaOf(settings.capture, p, Parts[k]))
<1>1. IsChannelConfigs(settings.capture) /\ IsSegment(settings.capture, Parts[k])
  BY SectionIsRead, PartsAre
<1> QED
  BY <1>1, AreaIsArea DEF IsPicture

(* A mapping that Mapped accepts names a channel of the table.              *)
LEMMA TargetIsChannel ==
  ASSUME settings \in Settings, NEW k \in 1 .. Len(Parts), Mapped(k)
  PROVE  /\ Target(k) \in Mapping
         /\ Target(k).device_index \in Device
         /\ Target(k).device_channel \in Channel(NumChannels[Target(k).device_index])
<1> DEFINE s == Parts[k].side
<1>1. s \in Side /\ Parts[k].index \in 1 .. settings.capture[s].count
  BY PartsAre DEF IsSegment
<1>2. settings.capture[s].count \in Nat /\ settings.mappings[s] \in Seq(Mapping)
  BY <1>1, SectionIsRead DEF IsChannelConfigs
<1>3. Parts[k].index \in 1 .. Len(settings.mappings[s])
  BY <1>1, <1>2, LenProperties DEF Mapped
<1>4. Target(k) \in Mapping
  BY <1>2, <1>3, ElementOfSeq DEF Target
<1>5. /\ Target(k).device_index \in Device
      /\ Target(k).device_channel \in Nat
      /\ Target(k).device_channel < NumChannels[Target(k).device_index]
  BY <1>4 DEF Mapped, Mapping
<1>6. NumChannels[Target(k).device_index] \in Nat
  BY <1>5, AnalyzerAssumption
<1> HIDE DEF s
<1>7. ASSUME NEW c \in Nat, NEW n \in Nat, c < n PROVE c \in Channel(n)
  BY <1>7 DEF Channel
<1> QED
  BY <1>4, <1>5, <1>6, <1>7

LEMMA DarkIsVector == ASSUME NEW n PROVE Dark(n) \in Vector(n)
BY BlackIsAColor DEF Dark, Vector

LEMMA TableUpdate ==
  ASSUME NEW t \in Table, NEW d \in Device, NEW v \in Vector(NumChannels[d])
  PROVE  [t EXCEPT ![d] = v] \in Table
<1> DEFINE V == UNION {Vector(NumChannels[e]) : e \in Device}
<1>1. t \in [Device -> V] /\ \A e \in Device : t[e] \in Vector(NumChannels[e])
  BY DEF Table
<1>2. v \in V
  OBVIOUS
<1> HIDE DEF V
<1>3. [t EXCEPT ![d] = v] \in [Device -> V]
  BY <1>1, <1>2
<1>4. \A e \in Device : [t EXCEPT ![d] = v][e] \in Vector(NumChannels[e])
  BY <1>1
<1> QED
  BY <1>3, <1>4 DEF Table, V

LEMMA ModifiedIsVector ==
  ASSUME NEW c \in UserCalls, ~ Rejects(c, NumChannels[c.device]),
         NEW m \in Vector(NumChannels[c.device])
  PROVE  c.device \in Device /\ Modified(c, m) \in Vector(NumChannels[c.device])
<1> DEFINE n == NumChannels[c.device]
<1>1. c \in AtmoCall /\ c.op \in Writing /\ c.device \in Device
  BY AnalyzerAssumption
<1>2. n \in Nat /\ c.colors \in Seq(Color)
  BY <1>1, AnalyzerAssumption DEF AtmoCall
<1> HIDE DEF n
<1>3. ASSUME NEW i \in Channel(n), Assigns(c, i) PROVE Assigned(c, i) \in Color
  <2>1. CASE c.op = "clear"
    BY <2>1, BlackIsAColor DEF Assigned
  <2>2. CASE c.op = "setChannel"
    BY <1>1, <1>2, <2>2 DEF AtmoCall, Assigned
  <2>3. CASE c.op = "setChannels"
    BY <1>2, <1>3, <2>3 DEF Assigns, Assigned, Channel
  <2> QED
    BY <1>3, <2>1, <2>2, <2>3 DEF Assigns
<1>4. m \in Vector(n)
  BY DEF n
<1>5. Modified(c, m) \in Vector(n)
  BY <1>3, <1>4 DEF Modified, Vector
<1> QED
  BY <1>1, <1>5 DEF n

-------------------------------------------------------------------------------
(***************************************************************************)
(* Type correctness.  That a mean is a colour needs the picture that is    *)
(* painted to stay one of the size it had.                                 *)
(***************************************************************************)
Original == Pictures[seen]

TypeInv ==
  /\ TypeOK
  /\ running = "average" =>
       /\ count <= Len(Parts)
       /\ seen \in Picture
       /\ IsPicture(image) /\ SameSize(image, Original)
  /\ running = "map" => count <= Len(frame) /\ (frame # <<>> => seen \in Picture)

LEMMA TypeInit == Init => TypeInv
<1> SUFFICES ASSUME Init PROVE TypeInv
  OBVIOUS
<1>1. <<>> \in Seq(Color) /\ Len(<<>>) = 0
  BY EmptySeq
<1>2. table \in Table
  <2> DEFINE t == [d \in Device |-> Dark(NumChannels[d])]
  <2>1. \A d \in Device : Dark(NumChannels[d]) \in Vector(NumChannels[d])
    BY DarkIsVector
  <2>2. t \in [Device -> UNION {Vector(NumChannels[d]) : d \in Device}]
    BY <2>1
  <2>3. t \in Table
    BY <2>1, <2>2 DEF Table
  <2> QED
    BY <2>3 DEF Init
<1> QED
  BY <1>1, <1>2 DEF Init, TypeInv, TypeOK

(* One area is averaged: its number, where it is, and what becomes of the   *)
(* frame and of the picture.                                                *)
LEMMA AverageStep ==
  ASSUME TypeInv, Average
  PROVE  LET k     == count + 1
             place == AreaOf(settings.capture, Original, Parts[k])
             sum   == Sum(image, place)
         IN  /\ k \in 1 .. Len(Parts) /\ Len(frame) = count
             /\ IsArea(place) /\ Inside(place, image)
             /\ frame' = Append(frame, Truncated(sum, Size(place)))
             /\ image' = Painted(image, place, Rounded(sum, Size(place)))
<1> DEFINE k == count + 1
           place == AreaOf(settings.capture, Original, Parts[k])
           area == AreaOf(settings.capture, image, Parts[k])
<1>1. k \in 1 .. Len(Parts) /\ Len(frame) = count
  BY PartsAre DEF Average, TypeInv, TypeOK
<1>2. area = place
  BY SameAreas DEF TypeInv, Average
<1>3. IsArea(place)
  <2>1. IsArea(area)
    BY <1>1, PlaceIsArea DEF TypeInv, TypeOK, Average
  <2> QED
    BY <1>2, <2>1
<1>4. /\ Inside(area, image)
      /\ frame' = Append(frame, Truncated(Sum(image, area), Size(area)))
      /\ image' = Painted(image, area, Rounded(Sum(image, area), Size(area)))
  BY DEF Average
<1> QED
  BY <1>1, <1>2, <1>3, <1>4

LEMMA TypeStep == TypeInv /\ [Next]_vars => TypeInv'
<1> SUFFICES ASSUME TypeInv, [Next]_vars PROVE TypeInv'
  OBVIOUS
<1>0. /\ settings \in Settings /\ frame \in Seq(Color) /\ latest \in Seq(Color)
      /\ count \in Nat /\ table \in Table /\ colors \in Table
      /\ Len(Parts) \in Nat /\ Len(frame) \in Nat
  BY PartsAre, LenProperties DEF TypeInv, TypeOK
<1>e. <<>> \in Seq(Color) /\ Len(<<>>) = 0
  BY EmptySeq
<1>p. settings' = settings => Parts' = Parts
  BY DEF Parts
<1> USE DEF camera, thread, Enter, Turn
<1>1. CASE Loop
  BY <1>0, <1>1, <1>p DEF Loop, TypeInv, TypeOK
<1>2. CASE Capture
  <2>1. CASE \E p \in Picture : image' = Pictures[p] /\ seen' = p /\ Enter("average")
    <3>1. PICK p \in Picture : image' = Pictures[p] /\ seen' = p /\ Enter("average")
      BY <2>1
    <3>2. IsPicture(image') /\ SameSize(image', Original')
      BY <3>1, PicturesAre DEF SameSize, Original
    <3> QED
      BY <1>0, <1>2, <1>e, <1>p, <3>1, <3>2 DEF Capture, TypeInv, TypeOK
  <2>2. CASE UNCHANGED camera /\ Enter("map")
    BY <1>0, <1>2, <1>e, <1>p, <2>2 DEF Capture, TypeInv, TypeOK
  <2> QED
    BY <1>2, <2>1, <2>2 DEF Capture
<1>3. CASE Average
  <2> DEFINE k == count + 1
             place == AreaOf(settings.capture, Original, Parts[k])
             mean == Truncated(Sum(image, place), Size(place))
             level == Rounded(Sum(image, place), Size(place))
  <2>1. /\ k \in 1 .. Len(Parts) /\ Len(frame) = count
        /\ IsArea(place) /\ Inside(place, image)
        /\ frame' = Append(frame, mean)
        /\ image' = Painted(image, place, level)
    BY <1>3, AverageStep
  <2>2. seen \in Picture /\ IsPicture(image) /\ SameSize(image, Original) /\ seen' = seen
    BY <1>3 DEF Average, TypeInv
  <2>3. mean \in Color /\ (Size(place) > 0 => level \in Color)
    BY <2>1, <2>2, MeanIsColor
  <2> HIDE DEF place, mean, level
  <2>4. IsPicture(image') /\ SameSize(image', image)
    BY <2>1, <2>2, <2>3, PaintedIsPicture
  <2>5. SameSize(image', Original')
    BY <2>2, <2>4 DEF SameSize, Original
  <2>6. frame' \in Seq(Color) /\ Len(frame') = count + 1
    BY <1>0, <2>1, <2>3, AppendProperties
  <2> QED
    BY <1>0, <1>3, <1>p, <2>1, <2>2, <2>4, <2>5, <2>6 DEF Average, TypeInv, TypeOK
<1>4. CASE Captured
  BY <1>0, <1>4, <1>p DEF Captured, TypeInv, TypeOK
<1>5. CASE CaptureFails
  BY <1>0, <1>5, <1>p DEF CaptureFails, TypeInv, TypeOK
<1>6. CASE Map
  <2> DEFINE k == count + 1
             m == Target(k)
  <2>1. k \in 1 .. Len(frame) /\ k \in 1 .. Len(Parts) /\ Mapped(k)
        /\ table' = [table EXCEPT ![m.device_index][m.device_channel] = frame[k]]
    BY <1>0, <1>6 DEF Map, TypeInv, TypeOK
  <2>2. m.device_index \in Device /\ frame[k] \in Color
    BY <1>0, <2>1, TargetIsChannel, ElementOfSeq
  <2>3. table[m.device_index] \in Vector(NumChannels[m.device_index])
    BY <1>0, <2>2 DEF Table
  <2> HIDE DEF m, k
  <2>4. [table[m.device_index] EXCEPT ![m.device_channel] = frame[k]]
          \in Vector(NumChannels[m.device_index])
    BY <2>2, <2>3 DEF Vector
  <2>5. table' \in Table
    BY <1>0, <2>1, <2>2, <2>4, TableUpdate
  <2>6. count < Len(frame)
    BY <1>6 DEF Map
  <2> QED
    BY <1>0, <1>6, <1>p, <2>5, <2>6 DEF Map, TypeInv, TypeOK
<1>7. CASE MapFails
  BY <1>0, <1>7, <1>p DEF MapFails, TypeInv, TypeOK
<1>8. CASE MapEnds
  BY <1>0, <1>8, <1>p, AnalyzerAssumption DEF MapEnds, TypeInv, TypeOK
<1>9. CASE Submit \/ SubmitFails
  <2>1. count \in Device
    BY <1>9 DEF Submit, SubmitFails
  <2>2. table[count] \in Vector(NumChannels[count])
    BY <1>0, <2>1 DEF Table
  <2>3. [colors EXCEPT ![count] = table[count]] \in Table
    BY <1>0, <2>1, <2>2, TableUpdate
  <2>4. count + 1 <= NumDevices
    BY <1>0, <2>1, AnalyzerAssumption DEF Device
  <2>5. CASE Submit
    BY <1>0, <1>p, <2>3, <2>4, <2>5 DEF Submit, TypeInv, TypeOK
  <2>6. CASE SubmitFails
    BY <1>0, <1>p, <2>3, <2>6 DEF SubmitFails, TypeInv, TypeOK
  <2> QED
    BY <1>9, <2>5, <2>6
<1>10. CASE Submitted
  BY <1>0, <1>10, <1>p DEF Submitted, TypeInv, TypeOK
<1>11. CASE Interrupt
  BY <1>0, <1>11, <1>p DEF Interrupt, TypeInv, TypeOK, Original
<1>12. ASSUME NEW c \in UserCalls, UserSets(c) PROVE TypeInv'
  <2>1. /\ c.device \in Device
        /\ Modified(c, colors[c.device]) \in Vector(NumChannels[c.device])
    <3>1. c.device \in Device
      BY AnalyzerAssumption
    <3>2. colors[c.device] \in Vector(NumChannels[c.device])
      BY <1>0, <3>1 DEF Table
    <3> QED
      BY <1>12, <3>1, <3>2, ModifiedIsVector DEF UserSets
  <2>2. colors' \in Table
    BY <1>0, <1>12, <2>1, TableUpdate DEF UserSets
  <2> QED
    BY <1>0, <1>12, <1>p, <2>2 DEF UserSets, TypeInv, TypeOK, Original
<1>13. CASE UNCHANGED vars
  BY <1>0, <1>13, <1>p DEF vars, TypeInv, TypeOK, Original
<1> QED
  BY <1>1, <1>2, <1>3, <1>4, <1>5, <1>6, <1>7, <1>8, <1>9, <1>10, <1>11, <1>12, <1>13
  DEF Next, Progress

(***************************************************************************)
(* Every variable of the analyzer has its type: a frame that is mapped has *)
(* all its colours or none, each of them a level a channel can show, and   *)
(* the table never changes its shape (TypeOK).                             *)
(***************************************************************************)
THEOREM TypeCorrect == Spec => []TypeOK
<1>1. TypeInv => TypeOK
  BY DEF TypeInv
<1> QED
  BY <1>1, TypeInit, TypeStep, PTL DEF Spec

-------------------------------------------------------------------------------
(***************************************************************************)
(* A frame with a colour that has no legal mapping never gets to the end   *)
(* of the mapping.                                                         *)
(***************************************************************************)
MapInv ==
  /\ running = "map" => \A k \in 1 .. count : Mapped(k)
  /\ running = "submit" /\ frame # <<>> => Complete

(* If every captured colour has a legal mapping, so has every channel that  *)
(* the section asks for, and the other way round.                           *)
LEMMA AllMapped ==
  ASSUME settings \in Settings
  PROVE  (\A k \in 1 .. Len(Parts) : Mapped(k)) <=> Complete
<1>0. ASSUME NEW s \in Side
      PROVE  /\ settings.capture[s].count \in Nat
             /\ settings.mappings[s] \in Seq(Mapping) /\ Len(settings.mappings[s]) \in Nat
  BY SectionIsRead, LenProperties DEF IsChannelConfigs
<1>1. ASSUME \A k \in 1 .. Len(Parts) : Mapped(k), NEW s \in Side
      PROVE  /\ Len(settings.mappings[s]) >= settings.capture[s].count
             /\ \A i \in 1 .. settings.capture[s].count :
                  /\ settings.mappings[s][i].device_index \in Device
                  /\ settings.mappings[s][i].device_channel <
                       NumChannels[settings.mappings[s][i].device_index]
  <2>1. ASSUME NEW i \in 1 .. settings.capture[s].count
        PROVE  /\ i <= Len(settings.mappings[s])
               /\ settings.mappings[s][i].device_index \in Device
               /\ settings.mappings[s][i].device_channel <
                    NumChannels[settings.mappings[s][i].device_index]
    <3>1. PICK k \in 1 .. Len(Parts) : Parts[k] = [side |-> s, index |-> i]
      BY PartsAre
    <3>2. Mapped(k) /\ Parts[k].side = s /\ Parts[k].index = i
      BY <1>1, <3>1
    <3> QED
      BY <3>2, Zenon DEF Mapped, Target
  <2>2. Len(settings.mappings[s]) >= settings.capture[s].count
    <3>1. CASE settings.capture[s].count = 0
      BY <1>0, <3>1
    <3>2. CASE settings.capture[s].count # 0
      <4>1. settings.capture[s].count \in 1 .. settings.capture[s].count
        BY <1>0, <3>2
      <4> QED
        BY <1>0, <2>1, <4>1
    <3> QED
      BY <3>1, <3>2
  <2> QED
    BY <2>1, <2>2
<1>2. ASSUME Complete, NEW k \in 1 .. Len(Parts) PROVE Mapped(k)
  <2> DEFINE s == Parts[k].side
             i == Parts[k].index
  <2>1. s \in Side /\ i \in 1 .. settings.capture[s].count
    BY PartsAre DEF IsSegment
  <2>2. /\ Len(settings.mappings[s]) >= settings.capture[s].count
        /\ settings.mappings[s][i].device_index \in Device
        /\ settings.mappings[s][i].device_channel <
             NumChannels[settings.mappings[s][i].device_index]
    BY <1>2, <2>1 DEF Complete
  <2>3. i <= Len(settings.mappings[s])
    BY <1>0, <2>1, <2>2
  <2> QED
    BY <2>2, <2>3 DEF Mapped, Target
<1> QED
  BY <1>1, <1>2 DEF Complete

LEMMA MapStep == TypeInv /\ MapInv /\ [Next]_vars => MapInv'
<1> SUFFICES ASSUME TypeInv, MapInv, [Next]_vars PROVE MapInv'
  OBVIOUS
<1>0. settings \in Settings /\ count \in Nat
  BY DEF TypeInv, TypeOK
<1>s. settings' = settings => /\ Complete' = Complete
                              /\ \A k : Mapped(k)' = Mapped(k)
  BY DEF Complete, Mapped, Target, Parts
<1>t. settings' = settings
  BY DEF Next, Progress, Loop, Capture, Average, Captured, CaptureFails, Map, MapFails,
         MapEnds, Submit, SubmitFails, Submitted, Interrupt, UserSets, vars
<1> USE DEF camera, thread, Enter, Turn
<1>1. CASE Capture
  <2>1. running' = "map" => count' = 0
    BY <1>1 DEF Capture
  <2>2. running' # "submit"
    BY <1>1 DEF Capture
  <2> QED
    BY <2>1, <2>2 DEF MapInv
<1>2. CASE Captured
  BY <1>2 DEF Captured, MapInv
<1>3. CASE Map
  <2>1. /\ running' = "map" /\ running = "map" /\ count' = count + 1
        /\ Mapped(count + 1)
    BY <1>3 DEF Map
  <2>2. ASSUME NEW k \in 1 .. count' PROVE Mapped(k)'
    <3>1. k \in 1 .. count \/ k = count + 1
      BY <1>0, <2>1
    <3> QED
      BY <1>s, <1>t, <2>1, <3>1 DEF MapInv
  <2> QED
    BY <2>1, <2>2 DEF MapInv
<1>4. CASE MapEnds
  <2>1. running = "map" /\ count = Len(frame) /\ frame' = frame /\ running' = "submit"
    BY <1>4 DEF MapEnds
  <2>2. frame = <<>> \/ count = Len(Parts)
    <3>1. Len(frame) \in {0, Len(Parts)} /\ frame \in Seq(Color)
      BY <2>1 DEF TypeInv, TypeOK
    <3> QED
      BY <2>1, <3>1, EmptySeq
  <2>3. frame # <<>> => Complete
    BY <1>0, <2>1, <2>2, AllMapped DEF MapInv
  <2> QED
    BY <1>s, <1>t, <2>1, <2>3 DEF MapInv
<1>5. CASE Submit
  BY <1>5, <1>s DEF Submit, MapInv
<1>6. CASE running' \notin {"map", "submit"}
  BY <1>6 DEF MapInv
<1>7. CASE UNCHANGED <<running, count, frame>>
  BY <1>7, <1>s, <1>t DEF MapInv
<1> QED
  <2>1. CASE Loop \/ Average \/ CaptureFails \/ MapFails \/ SubmitFails \/ Submitted
    BY <1>6, <2>1 DEF Loop, Average, CaptureFails, MapFails, SubmitFails, Submitted
  <2>2. CASE Interrupt \/ (\E c \in UserCalls : UserSets(c)) \/ UNCHANGED vars
    BY <1>7, <2>2 DEF Interrupt, UserSets, vars
  <2> QED
    BY <1>1, <1>2, <1>3, <1>4, <1>5, <2>1, <2>2 DEF Next, Progress

-------------------------------------------------------------------------------
(***************************************************************************)
(* The table is the image of what can be mapped of the latest picture, or  *)
(* it is on the way from the one before to it: then the channels whose     *)
(* first source is still to be mapped may show anything, and the others    *)
(* show the last of their sources that has been mapped.                    *)
(***************************************************************************)
ShowsAt(n, d, c) ==
  LET sources == {k \in Mappable : MapsTo(k, d, c)}
  IN  \/ sources = {} /\ table[d][c] = Black
      \/ sources # {} /\ \A k \in sources : k > n
      \/ \E k \in sources : /\ k <= n
                            /\ \A j \in sources : j <= n => j <= k
                            /\ table[d][c] = latest[k]

Shows(n) == \A d \in Device : \A c \in Channel(NumChannels[d]) : ShowsAt(n, d, c)

Settled == running # "map" \/ frame = <<>>

FrameInv ==
  /\ Len(latest) \in {0, Len(Parts)}
  /\ latest = <<>> => table = [d \in Device |-> Dark(NumChannels[d])]
  /\ ~ Settled => latest = frame /\ Shows(count)
  /\ Settled /\ latest # <<>> => Shows(Len(Parts))

LEMMA MappableAre ==
  ASSUME settings \in Settings
  PROVE  /\ Mappable \subseteq 1 .. Len(Parts)
         /\ \A k \in 1 .. Len(Parts) : k \in Mappable <=> \A j \in 1 .. k : Mapped(j)
         /\ Complete => Mappable = DOMAIN Parts
<1>1. DOMAIN Parts = 1 .. Len(Parts) /\ Len(Parts) \in Nat
  BY PartsAre
<1>2. Complete => \A k \in DOMAIN Parts : \A j \in 1 .. k : Mapped(j)
  BY <1>1, AllMapped
<1> QED
  BY <1>1, <1>2 DEF Mappable

LEMMA FrameStays ==
  ASSUME FrameInv, UNCHANGED <<settings, latest, table>>,
         \/ Settled /\ Settled'
         \/ UNCHANGED <<running, frame, count>>
  PROVE  FrameInv'
<1>1. Parts' = Parts
  BY DEF Parts
<1>2. \A n : Shows(n)' = Shows(n)
  BY DEF Shows, ShowsAt, Mappable, Mapped, MapsTo, Target, Parts
<1>3. UNCHANGED <<running, frame, count>> => Settled' = Settled
  BY DEF Settled
<1>4. UNCHANGED Len(Parts) /\ UNCHANGED Shows(Len(Parts))
  BY <1>1, <1>2
<1>5. CASE Settled /\ Settled'
  BY <1>1, <1>4, <1>5, Zenon DEF FrameInv
<1>6. CASE UNCHANGED <<running, frame, count>>
  <2>1. UNCHANGED Settled /\ UNCHANGED Shows(count)
    BY <1>2, <1>3, <1>6
  <2> QED
    BY <1>1, <1>4, <1>6, <2>1, Zenon DEF FrameInv
<1> QED
  BY <1>5, <1>6

(* The next picture: nothing of it is mapped.                               *)
LEMMA FrameCaptured ==
  ASSUME TypeInv, FrameInv, Captured
  PROVE  FrameInv'
<1>1. /\ settings' = settings /\ table' = table /\ frame' = frame /\ latest' = frame
      /\ running' = "map" /\ count' = 0 /\ running = "average"
  BY DEF Captured, Enter
<1>2. /\ Parts' = Parts /\ Len(Parts) \in Nat
      /\ Mappable' = Mappable /\ \A k \in Mappable : k > 0
      /\ \A k, d, c : MapsTo(k, d, c)' = MapsTo(k, d, c)
  <2>1. settings \in Settings
    BY DEF TypeInv, TypeOK
  <2>2. Len(Parts) \in Nat /\ \A k \in Mappable : k > 0
    BY <2>1, PartsAre, MappableAre
  <2> QED
    BY <1>1, <2>2 DEF Parts, Mappable, Mapped, MapsTo, Target
<1>3. Len(frame) = Len(Parts) /\ frame \in Seq(Color) /\ latest \in Seq(Color)
  BY DEF Captured, TypeInv, TypeOK
<1>4. Settled
  BY <1>1 DEF Settled
<1>5. CASE frame = <<>>
  <2>1. Len(Parts) = 0 /\ Len(latest) = 0 /\ latest = <<>>
    BY <1>3, <1>5, EmptySeq DEF FrameInv
  <2>2. latest' = <<>> /\ Settled' /\ table' = [d \in Device |-> Dark(NumChannels[d])]
    BY <1>1, <1>5, <2>1 DEF FrameInv, Settled
  <2> QED
    BY <1>1, <1>2, <1>3, <2>2 DEF FrameInv
<1>6. CASE frame # <<>>
  <2>1. ASSUME NEW d \in Device, NEW c \in Channel(NumChannels[d]) PROVE ShowsAt(0, d, c)'
    <3> DEFINE sources == {k \in Mappable : MapsTo(k, d, c)}
    <3>1. \A k \in sources : k > 0
      BY <1>2
    <3>2. sources = {} => table[d][c] = Black
      <4>1. CASE latest = <<>>
        BY <4>1 DEF FrameInv, Dark
      <4>2. CASE latest # <<>>
        <5>1. ShowsAt(Len(Parts), d, c)
          BY <1>4, <4>2 DEF FrameInv, Shows
        <5> QED
          BY <5>1 DEF ShowsAt
      <4> QED
        BY <4>1, <4>2
    <3>3. ShowsAt(0, d, c)' <=>
            \/ sources = {} /\ table[d][c] = Black
            \/ sources # {} /\ \A k \in sources : k > 0
            \/ \E k \in sources : /\ k <= 0
                                  /\ \A j \in sources : j <= 0 => j <= k
                                  /\ table[d][c] = latest'[k]
      BY <1>1, <1>2 DEF ShowsAt
    <3> QED
      BY <3>1, <3>2, <3>3
  <2>2. Shows(count)'
    BY <1>1, <2>1 DEF Shows
  <2> QED
    BY <1>1, <1>2, <1>3, <1>6, <2>2 DEF FrameInv, Settled
<1> QED
  BY <1>5, <1>6

(* One colour is mapped: its channel shows it, the others what they did.    *)
LEMMA FrameMapped ==
  ASSUME TypeInv, MapInv, FrameInv, Map
  PROVE  FrameInv'
<1> DEFINE k == count + 1
           m == Target(k)
<1>1. /\ settings' = settings /\ frame' = frame /\ latest' = latest /\ count' = k
      /\ running' = "map" /\ running = "map" /\ count < Len(frame) /\ Mapped(k)
      /\ table' = [table EXCEPT ![m.device_index][m.device_channel] = frame[k]]
  BY DEF Map, Turn
<1>2. /\ settings \in Settings /\ frame \in Seq(Color) /\ table \in Table
      /\ count \in Nat /\ Len(frame) \in {0, Len(Parts)} /\ Len(frame) \in Nat
  BY <1>1, LenProperties DEF TypeInv, TypeOK
<1>3. frame # <<>> /\ k \in 1 .. Len(Parts) /\ Len(frame) = Len(Parts)
  BY <1>1, <1>2, EmptySeq
<1>4. latest = frame /\ Shows(count)
  BY <1>1, <1>3 DEF FrameInv, Settled
<1>5. /\ m \in Mapping /\ m.device_index \in Device
      /\ m.device_channel \in Channel(NumChannels[m.device_index])
  BY <1>1, <1>2, <1>3, TargetIsChannel
<1>6. \A d \in Device : table[d] \in Vector(NumChannels[d])
  BY <1>2 DEF Table
<1>7. /\ Parts' = Parts /\ Mappable' = Mappable /\ \A j \in Mappable : j \in Nat
      /\ \A j, d, c : MapsTo(j, d, c)' = MapsTo(j, d, c)
  <2>1. \A j \in Mappable : j \in Nat
    BY <1>2, MappableAre
  <2> QED
    BY <1>1, <2>1 DEF Parts, Mappable, Mapped, MapsTo, Target
<1>m. k \in Mappable
  <2>1. \A j \in 1 .. k : Mapped(j)
    <3>1. \A j \in 1 .. count : Mapped(j)
      BY <1>1 DEF MapInv
    <3>2. \A j \in 1 .. k : j \in 1 .. count \/ j = k
      BY <1>2
    <3> QED
      BY <1>1, <3>1, <3>2
  <2> QED
    BY <1>2, <1>3, <2>1, MappableAre
<1>8. ASSUME NEW d \in Device, NEW c \in Channel(NumChannels[d]) PROVE ShowsAt(count, d, c)'
  <2> DEFINE sources == {j \in Mappable : MapsTo(j, d, c)}
             Now(n, t, f) ==
               \/ sources = {} /\ t[d][c] = Black
               \/ sources # {} /\ \A i \in sources : i > n
               \/ \E i \in sources : /\ i <= n
                                     /\ \A j \in sources : j <= n => j <= i
                                     /\ t[d][c] = f[i]
  <2>1. Now(count, table, frame)
    BY <1>4 DEF Shows, ShowsAt
  <2>2. ShowsAt(count, d, c)' <=> Now(k, table', frame)
    BY <1>1, <1>4, <1>7 DEF ShowsAt
  <2>3. \A i \in sources : i \in Nat
    BY <1>7
  <2>4. CASE MapsTo(k, d, c)
    <3>1. m.device_index = d /\ m.device_channel = c
      BY <2>4 DEF MapsTo
    <3>2. table'[d][c] = frame[k]
      BY <1>1, <1>2, <1>6, <3>1 DEF Table, Vector
    <3>3. k \in sources /\ k <= k /\ \A j \in sources : j <= k => j <= k
      BY <1>2, <1>m, <2>4
    <3> QED
      BY <2>2, <3>2, <3>3
  <2>5. CASE ~ MapsTo(k, d, c)
    <3>1. ~ (m.device_index = d /\ m.device_channel = c)
      BY <1>5, <2>5 DEF MapsTo, Mapping
    <3>2. table'[d][c] = table[d][c]
      BY <1>1, <1>2, <1>5, <1>6, <3>1 DEF Table, Vector
    <3>3. \A j \in sources : j <= k <=> j <= count
      <4>1. k \notin sources
        BY <2>5
      <4> QED
        BY <1>2, <2>3, <4>1
    <3>4. \A j \in sources : j > k <=> j > count
      BY <1>2, <2>3, <3>3
    <3> HIDE DEF sources, k
    <3> QED
      BY <2>1, <2>2, <3>2, <3>3, <3>4
  <2> QED
    BY <2>4, <2>5
<1>9. Shows(count)'
  BY <1>1, <1>8 DEF Shows
<1> QED
  BY <1>1, <1>2, <1>3, <1>4, <1>7, <1>9 DEF FrameInv, Settled

LEMMA FrameStep == TypeInv /\ MapInv /\ FrameInv /\ [Next]_vars => FrameInv'
<1> SUFFICES ASSUME TypeInv, MapInv, FrameInv, [Next]_vars PROVE FrameInv'
  OBVIOUS
<1> USE DEF thread, camera, Enter, Turn
<1>1. CASE Loop \/ Average \/ CaptureFails \/ Submit \/ SubmitFails \/ Submitted
  <2>1. Settled /\ Settled' /\ UNCHANGED <<settings, latest, table>>
    BY <1>1 DEF Loop, Average, CaptureFails, Submit, SubmitFails, Submitted, Settled
  <2> QED
    BY <2>1, FrameStays
<1>2. CASE Capture
  <2>1. Settled /\ Settled' /\ UNCHANGED <<settings, latest, table>>
    BY <1>2 DEF Capture, Settled
  <2> QED
    BY <2>1, FrameStays
<1>3. CASE Interrupt \/ (\E c \in UserCalls : UserSets(c)) \/ UNCHANGED vars
  <2>1. UNCHANGED <<running, frame, count>> /\ UNCHANGED <<settings, latest, table>>
    BY <1>3 DEF Interrupt, UserSets, vars
  <2> QED
    BY <2>1, FrameStays
<1>4. CASE Captured
  BY <1>4, FrameCaptured
<1>5. CASE Map
  BY <1>5, FrameMapped
<1>6. CASE MapFails
  <2>1. /\ UNCHANGED <<settings, latest, table>> /\ Settled' /\ ~ Settled
        /\ ~ Mapped(count + 1)
    BY <1>6, EmptySeq DEF MapFails, Settled, TypeInv, TypeOK
  <2>2. settings \in Settings /\ count \in Nat
    BY DEF TypeInv, TypeOK
  <2>3. \A k \in Mappable : k <= count /\ k <= Len(Parts)
    BY <2>1, <2>2, MappableAre
  <2>4. latest = frame /\ Shows(count)
    BY <2>1 DEF FrameInv
  <2>5. Shows(Len(Parts))
    BY <2>2, <2>3, <2>4, MappableAre DEF Shows, ShowsAt
  <2>6. Parts' = Parts /\ Shows(Len(Parts))' = Shows(Len(Parts))
    <3>1. Parts' = Parts
      BY <2>1 DEF Parts
    <3>2. Mappable' = Mappable
      BY <2>1, <3>1 DEF Mappable, Mapped, Target
    <3>3. ASSUME NEW k, NEW d, NEW c
          PROVE  MapsTo(k, d, c)' = MapsTo(k, d, c)
      BY <2>1, <3>1 DEF MapsTo, Target
    <3> QED
      BY <2>1, <3>1, <3>2, <3>3 DEF Shows, ShowsAt
  <2> QED
    BY <2>1, <2>5, <2>6, Zenon DEF FrameInv
<1>7. CASE MapEnds
  <2>1. /\ UNCHANGED <<settings, latest, table, frame>> /\ Settled'
        /\ running = "map" /\ count = Len(frame)
    BY <1>7 DEF MapEnds, Settled
  <2>2. CASE frame = <<>>
    BY <2>1, <2>2, FrameStays DEF Settled
  <2>3. CASE frame # <<>>
    <3>1. count = Len(Parts) /\ frame \in Seq(Color)
      BY <2>1, <2>3, EmptySeq DEF TypeInv, TypeOK
    <3>2. Shows(Len(Parts))
      BY <2>1, <2>3, <3>1 DEF FrameInv, Settled
    <3>3. Parts' = Parts /\ Shows(Len(Parts))' = Shows(Len(Parts))
      BY <2>1 DEF Parts, Shows, ShowsAt, Mappable, Mapped, MapsTo, Target
    <3> QED
      BY <2>1, <3>2, <3>3, Zenon DEF FrameInv
  <2> QED
    BY <2>2, <2>3
<1> QED
  BY <1>1, <1>2, <1>3, <1>4, <1>5, <1>6, <1>7 DEF Next, Progress

LEMMA ShownIsImage == ASSUME settings \in Settings, Shows(Len(Parts)) PROVE IsImage(table, latest, Mappable)
<1>1. ASSUME NEW d \in Device, NEW c \in Channel(NumChannels[d])
      PROVE  LET sources == {k \in Mappable : MapsTo(k, d, c)}
             IN  \/ sources = {} /\ table[d][c] = Black
                 \/ \E k \in sources : (\A j \in sources : j <= k) /\ table[d][c] = latest[k]
  <2> DEFINE sources == {k \in Mappable : MapsTo(k, d, c)}
  <2>1. \A k \in sources : k \in Nat /\ k <= Len(Parts) /\ ~ (k > Len(Parts))
    BY MappableAre, PartsAre
  <2>2. ShowsAt(Len(Parts), d, c)
    BY DEF Shows
  <2> QED
    BY <2>1, <2>2 DEF ShowsAt
<1> QED
  BY <1>1 DEF IsImage

(* What every submission is: dark, or what can be mapped of the latest      *)
(* picture.                                                                 *)
LEMMA SubmitsLatest ==
  ASSUME TypeInv, MapInv, FrameInv, running = "submit"
  PROVE  /\ Complete \/ frame = <<>>
         /\ IF latest = <<>>
            THEN table = [d \in Device |-> Dark(NumChannels[d])]
            ELSE IsImage(table, latest, Mappable)
  BY ShownIsImage DEF TypeInv, TypeOK, MapInv, FrameInv, Settled

LEMMA FrameInvariance == Spec => [](TypeInv /\ MapInv /\ FrameInv)
<1>1. Init => TypeInv /\ MapInv /\ FrameInv
  <2> SUFFICES ASSUME Init PROVE FrameInv
    BY TypeInit DEF Init, MapInv
  <2> QED
    BY EmptySeq DEF Init, FrameInv, Settled
<1>2. TypeInv /\ MapInv /\ FrameInv /\ [Next]_vars => (TypeInv /\ MapInv /\ FrameInv)'
  BY TypeStep, MapStep, FrameStep
<1> QED
  BY <1>1, <1>2, PTL DEF Spec

(***************************************************************************)
(* With complete mappings every submission is the image of the latest      *)
(* picture, all of it and nothing of an earlier one, or black before the   *)
(* first (WholeFramesAreSubmitted).                                        *)
(***************************************************************************)
THEOREM SubmitsWholeFrames == Spec => []WholeFramesAreSubmitted
<1>1. TypeInv /\ MapInv /\ FrameInv => WholeFramesAreSubmitted
  <2>1. TypeInv => settings \in Settings
    BY DEF TypeInv, TypeOK
  <2> QED
    BY <2>1, SubmitsLatest, MappableAre DEF WholeFramesAreSubmitted
<1> QED
  BY <1>1, FrameInvariance, PTL

(***************************************************************************)
(* Without complete mappings no picture is submitted by its own frame, and *)
(* what an empty frame submits is the part of the latest picture that was  *)
(* stored before at() threw, with nothing left of earlier pictures         *)
(* (LeftoversAreOfOnePicture).                                             *)
(***************************************************************************)
THEOREM SubmitsLeftovers == Spec => []LeftoversAreOfOnePicture
<1>1. TypeInv /\ MapInv /\ FrameInv => LeftoversAreOfOnePicture
  BY SubmitsLatest DEF LeftoversAreOfOnePicture
<1> QED
  BY <1>1, FrameInvariance, PTL

-------------------------------------------------------------------------------
(***************************************************************************)
(* A pixel that no area has been painted over is what the capture device   *)
(* saw, so the mean of an area that meets no other is that of the original *)
(* picture.                                                                *)
(***************************************************************************)
Place(k) == AreaOf(settings.capture, Original, Parts[k])

Covers(area, y, x) == y \in Lines(area) /\ x \in Columns(area)

IsTrue(level, k) ==
  LET n   == Size(Place(k))
      sum == Sum(Original, Place(k))
  IN  (\A j \in DOMAIN Parts \ {k} : Apart(Place(k), Place(j))) /\ n > 0 =>
        level * n <= sum /\ sum < (level + 1) * n

ApartInv ==
  /\ running = "average" =>
       \A y \in 1 .. Rows(Original) : \A x \in 1 .. Cols(Original) :
         \/ image[y][x] = Original[y][x]
         \/ \E j \in 1 .. count : Covers(Place(j), y, x)
  /\ running \in {"average", "map"} => \A k \in 1 .. Len(frame) : IsTrue(frame[k], k)

LEMMA ApartIsDisjoint ==
  ASSUME NEW a, NEW b, IsArea(a), IsArea(b), Apart(a, b), NEW y, NEW x, Covers(a, y, x)
  PROVE  ~ Covers(b, y, x)
BY DEF IsArea, Apart, Covers, Lines, Columns

(* What painting an area does to the pixels of a picture.                   *)
LEMMA PaintedPixel ==
  ASSUME NEW p, IsPicture(p), NEW area, NEW level, NEW y \in 1 .. Rows(p), NEW x \in 1 .. Cols(p)
  PROVE  Painted(p, area, level)[y][x] = IF Covers(area, y, x) THEN level ELSE p[y][x]
<1>1. y \in DOMAIN p /\ x \in DOMAIN p[y]
  <2>1. DOMAIN p = 1 .. Rows(p)
    BY LenProperties DEF IsPicture, Rows
  <2>2. DOMAIN p[y] = 1 .. Cols(p)
    BY LenProperties DEF IsPicture
  <2> QED
    BY <2>1, <2>2
<1> QED
  BY <1>1 DEF Painted, Covers

(* One area is averaged.                                                    *)
LEMMA ApartAveraged ==
  ASSUME TypeInv, ApartInv, Average
  PROVE  ApartInv'
<1>1. PICK i \in 1 .. Len(Parts) : i = count + 1
  BY AverageStep
<1>2. PICK place : place = Place(i)
  OBVIOUS
<1> DEFINE sum == Sum(image, place)
           mean == Truncated(sum, Size(place))
           level == Rounded(sum, Size(place))
<1>3. /\ Len(frame) = count /\ IsArea(place) /\ Inside(place, image)
      /\ frame' = Append(frame, mean) /\ image' = Painted(image, place, level)
  BY <1>1, <1>2, AverageStep DEF Place
<1>4. /\ running = "average" /\ running' = "average" /\ count' = i
      /\ settings' = settings /\ seen' = seen /\ settings \in Settings /\ count \in Nat
      /\ frame \in Seq(Color)
      /\ seen \in Picture /\ IsPicture(image) /\ SameSize(image, Original)
  BY <1>1 DEF Average, Turn, TypeInv, TypeOK
<1>5. /\ Original' = Original /\ Parts' = Parts /\ DOMAIN Parts = 1 .. Len(Parts)
      /\ \A j : Place(j)' = Place(j)
      /\ \A l, j : IsTrue(l, j)' = IsTrue(l, j)
  BY <1>4, PartsAre DEF Original, Parts, Place, IsTrue
<1>6. mean \in Color
  BY <1>3, <1>4, MeanIsColor
<1>7. \A j \in 1 .. Len(Parts) : IsArea(Place(j))
  BY <1>4, PlaceIsArea, PicturesAre DEF Place, Original
<1>8. IsTrue(mean, i)
  <2> SUFFICES ASSUME \A j \in DOMAIN Parts \ {i} : Apart(place, Place(j)), Size(place) > 0
               PROVE  /\ mean * Size(place) <= Sum(Original, place)
                      /\ Sum(Original, place) < (mean + 1) * Size(place)
    BY <1>2 DEF IsTrue
  <2>1. ASSUME NEW y \in Lines(place), NEW x \in Columns(place)
        PROVE  image[y][x] = Original[y][x]
    <3>1. y \in 1 .. Rows(Original) /\ x \in 1 .. Cols(Original)
      BY <1>3, <1>4, PixelsAre DEF SameSize
    <3>2. ASSUME NEW j \in 1 .. count PROVE ~ Covers(Place(j), y, x)
      <4>1. j \in 1 .. Len(Parts) /\ j # i
        BY <1>1, <1>4
      <4>2. Apart(place, Place(j)) /\ IsArea(Place(j))
        BY <1>5, <1>7, <4>1
      <4>3. Covers(place, y, x)
        BY DEF Covers
      <4> QED
        BY <1>3, <4>2, <4>3, ApartIsDisjoint
    <3> QED
      BY <1>4, <3>1, <3>2 DEF ApartInv
  <2>2. sum = Sum(Original, place)
    BY <1>3, <2>1, SumSame
  <2>3. mean * Size(place) <= sum /\ sum < (mean + 1) * Size(place)
    BY <1>3, <1>4, MeanIsColor
  <2> QED
    BY <2>2, <2>3
<1> HIDE DEF mean, level, sum
<1>9. ASSUME NEW k \in 1 .. Len(frame') PROVE IsTrue(frame'[k], k)
  <2>1. /\ Len(frame') = i /\ frame'[i] = mean
        /\ \A j \in 1 .. count : frame'[j] = frame[j]
    BY <1>1, <1>3, <1>4, <1>6, AppendProperties
  <2>2. CASE k = i
    BY <1>5, <1>8, <2>1, <2>2
  <2>3. CASE k # i
    <3>1. k \in 1 .. Len(frame) /\ frame'[k] = frame[k]
      BY <1>1, <1>3, <1>4, <2>1, <2>3
    <3> QED
      BY <1>4, <1>5, <3>1 DEF ApartInv
  <2> QED
    BY <2>2, <2>3
<1>10. ASSUME NEW y \in 1 .. Rows(Original), NEW x \in 1 .. Cols(Original)
       PROVE  \/ image'[y][x] = Original[y][x]
              \/ \E j \in 1 .. i : Covers(Place(j), y, x)
  <2>1. y \in 1 .. Rows(image) /\ x \in 1 .. Cols(image)
    BY <1>4 DEF SameSize
  <2>2. image'[y][x] = IF Covers(place, y, x) THEN level ELSE image[y][x]
    BY <1>3, <1>4, <2>1, PaintedPixel
  <2>3. CASE Covers(place, y, x)
    BY <1>1, <1>2, <2>3
  <2>4. CASE ~ Covers(place, y, x)
    <3>1. image[y][x] = Original[y][x] \/ \E j \in 1 .. count : Covers(Place(j), y, x)
      BY <1>4 DEF ApartInv
    <3>2. 1 .. count \subseteq 1 .. i
      BY <1>1, <1>4
    <3> QED
      BY <2>2, <2>4, <3>1, <3>2
  <2> QED
    BY <2>3, <2>4
<1>11. \A k \in 1 .. Len(frame') : IsTrue(frame[k], k)'
  BY <1>5, <1>9 DEF IsTrue
<1> QED
  BY <1>4, <1>5, <1>10, <1>11 DEF ApartInv

LEMMA ApartStep == TypeInv /\ ApartInv /\ [Next]_vars => ApartInv'
<1> SUFFICES ASSUME TypeInv, ApartInv, [Next]_vars PROVE ApartInv'
  OBVIOUS
<1> USE DEF thread, camera, Enter, Turn
<1>s. UNCHANGED <<settings, seen>> =>
        /\ Original' = Original /\ Parts' = Parts
        /\ \A j : Place(j)' = Place(j)
        /\ \A l, j : IsTrue(l, j)' = IsTrue(l, j)
  BY DEF Original, Parts, Place, IsTrue
<1>1. CASE Capture
  <2>1. frame' = <<>> /\ Len(frame') = 0
    BY <1>1, EmptySeq DEF Capture
  <2>2. running' = "average" => image' = Original'
    BY <1>1 DEF Capture, Original
  <2> QED
    BY <2>1, <2>2 DEF ApartInv
<1>2. CASE Average
  BY <1>2, ApartAveraged
<1>3. CASE Captured \/ Map
  <2>1. /\ running \in {"average", "map"} /\ running' = "map"
        /\ UNCHANGED <<settings, seen, frame>>
    BY <1>3 DEF Captured, Map
  <2> QED
    BY <1>s, <2>1 DEF ApartInv
<1>4. CASE running' \notin {"average", "map"}
  BY <1>4 DEF ApartInv
<1>5. CASE UNCHANGED <<running, count, settings, camera, frame>>
  BY <1>5, <1>s DEF ApartInv
<1> QED
  <2>1. CASE Loop \/ CaptureFails \/ MapFails \/ MapEnds \/ Submit \/ SubmitFails \/ Submitted
    <3>1. running' # "capture" => running' \notin {"average", "map"}
      BY <2>1 DEF Loop, CaptureFails, MapFails, MapEnds, Submit, SubmitFails, Submitted
    <3> QED
      BY <1>4, <3>1
  <2>2. CASE Interrupt \/ (\E c \in UserCalls : UserSets(c)) \/ UNCHANGED vars
    BY <1>5, <2>2 DEF Interrupt, UserSets, vars
  <2> QED
    BY <1>1, <1>2, <1>3, <2>1, <2>2 DEF Next, Progress

(***************************************************************************)
(* An area that meets no other shows what the capture device saw there,    *)
(* whatever has been painted before it (ApartAreasAreTrue).                *)
(***************************************************************************)
THEOREM ApartShowsWhatIsSeen == Spec => []ApartAreasAreTrue
<1>1. Init => ApartInv
  BY DEF Init, ApartInv
<1>2. TypeInv /\ ApartInv => ApartAreasAreTrue
  <2> SUFFICES ASSUME TypeInv, ApartInv, running = "map" PROVE ApartAreasAreTrue
    BY DEF ApartAreasAreTrue
  <2>1. DOMAIN frame = 1 .. Len(frame)
    BY LenProperties DEF TypeInv, TypeOK
  <2>2. \A k \in 1 .. Len(frame) : IsTrue(frame[k], k)
    BY DEF ApartInv
  <2> QED
    BY <2>1, <2>2 DEF ApartAreasAreTrue, IsTrue, Place, Original
<1> QED
  BY <1>1, <1>2, TypeInit, TypeStep, ApartStep, PTL DEF Spec

-------------------------------------------------------------------------------
(***************************************************************************)
(* If the pixels that are not omitted are between two levels, they stay    *)
(* there and the colours of the frame are there too.                       *)
(***************************************************************************)
Uncropped == Inner(settings.capture, Original)

CropInv ==
  running \in {"average", "map"} /\ seen \in Picture /\ Fits(settings.capture, Original) =>
    \A low, high \in Int : Between(Original, Uncropped, low, high) =>
      /\ running = "average" => Between(image, Uncropped, low, high)
      /\ \A k \in 1 .. Len(frame) : low <= frame[k] /\ frame[k] <= high

(* The area of a segment that has room is not omitted, and has pixels.      *)
LEMMA SegmentsFit ==
  ASSUME NEW c, IsChannelConfigs(c), NEW segment, IsSegment(c, segment),
         NEW p, Rows(p) \in Nat, Cols(p) \in Nat, Fits(c, p)
  PROVE  LET area == AreaOf(c, p, segment)
         IN  /\ Lines(area) \subseteq Lines(Inner(c, p))
             /\ Columns(area) \subseteq Columns(Inner(c, p))
             /\ Size(area) > 0
<1> DEFINE s == segment.side
           n == c[s].count
           i == segment.index - 1
           area == AreaOf(c, p, segment)
           inner == Inner(c, p)
           W == InnerCols(c, p)
           H == InnerRows(c, p)
<1>1. s \in Side /\ n \in Nat \ {0} /\ i \in 0 .. n - 1
  BY DEF IsSegment, IsChannelConfigs
<1>2. \A r \in Side : c[r].depth \in Nat /\ c[r].crop \in Nat
  BY DEF IsChannelConfigs
<1>3. /\ W \in Int /\ W = Cols(p) - c.left.crop - c.right.crop
      /\ H \in Int /\ H = Rows(p) - c.top.crop - c.bottom.crop
      /\ inner.x = c.left.crop /\ inner.width = W
      /\ inner.y = c.top.crop /\ inner.height = H
  BY <1>2 DEF InnerCols, InnerRows, Inner, Area, Side
<1>4. IsArea(area)
  BY AreaIsArea
<1>5. SUFFICES /\ inner.x <= area.x /\ area.x + area.width <= inner.x + W
               /\ inner.y <= area.y /\ area.y + area.height <= inner.y + H
               /\ area.width > 0 /\ area.height > 0
  <2>1. inner.x \in Int /\ inner.y \in Int
    BY <1>2, <1>3 DEF Side
  <2> HIDE DEF inner, area, W, H
  <2> QED
    BY <1>3, <1>4, <1>5, <2>1, HasPixels DEF IsArea, Lines, Columns, inner, area
<1>6. CASE s = "top"
  <2>1. /\ area.x = c.left.crop + Part(W, n, i) /\ area.width = Part(W, n, 1)
        /\ area.y = c.top.crop /\ area.height = c.top.depth
    BY <1>6 DEF AreaOf, TopArea, Area
  <2>2. n <= W /\ c.top.depth \in 1 .. H
    BY <1>1, <1>6 DEF Fits
  <2>3. /\ Part(W, n, i) \in Nat /\ Part(W, n, 1) \in Nat \ {0}
        /\ Part(W, n, i) + Part(W, n, 1) <= W
    BY <1>1, <1>3, <2>2, PartsFit
  <2> QED
    BY <1>2, <1>3, <2>1, <2>2, <2>3 DEF Side
<1>7. CASE s = "bottom"
  <2>1. /\ area.x = c.left.crop + Part(W, n, i) /\ area.width = Part(W, n, 1)
        /\ area.y = Rows(p) - c.bottom.crop - c.bottom.depth /\ area.height = c.bottom.depth
    BY <1>7 DEF AreaOf, BottomArea, Area
  <2>2. n <= W /\ c.bottom.depth \in 1 .. H
    BY <1>1, <1>7 DEF Fits
  <2>3. /\ Part(W, n, i) \in Nat /\ Part(W, n, 1) \in Nat \ {0}
        /\ Part(W, n, i) + Part(W, n, 1) <= W
    BY <1>1, <1>3, <2>2, PartsFit
  <2> QED
    BY <1>2, <1>3, <2>1, <2>2, <2>3 DEF Side
<1>8. CASE s = "left"
  <2>1. /\ area.x = c.left.crop /\ area.width = c.left.depth
        /\ area.y = c.top.crop + Part(H, n, i) /\ area.height = Part(H, n, 1)
    BY <1>8 DEF AreaOf, LeftArea, Area
  <2>2. n <= H /\ c.left.depth \in 1 .. W
    BY <1>1, <1>8 DEF Fits
  <2>3. /\ Part(H, n, i) \in Nat /\ Part(H, n, 1) \in Nat \ {0}
        /\ Part(H, n, i) + Part(H, n, 1) <= H
    BY <1>1, <1>3, <2>2, PartsFit
  <2> QED
    BY <1>2, <1>3, <2>1, <2>2, <2>3 DEF Side
<1>9. CASE s = "right"
  <2>1. /\ area.x = Cols(p) - c.right.crop - c.right.depth /\ area.width = c.right.depth
        /\ area.y = c.top.crop + Part(H, n, i) /\ area.height = Part(H, n, 1)
    BY <1>9 DEF AreaOf, RightArea, Area
  <2>2. n <= H /\ c.right.depth \in 1 .. W
    BY <1>1, <1>9 DEF Fits
  <2>3. /\ Part(H, n, i) \in Nat /\ Part(H, n, 1) \in Nat \ {0}
        /\ Part(H, n, i) + Part(H, n, 1) <= H
    BY <1>1, <1>3, <2>2, PartsFit
  <2> QED
    BY <1>2, <1>3, <2>1, <2>2, <2>3 DEF Side
<1> QED
  BY <1>1, <1>6, <1>7, <1>8, <1>9 DEF Side

LEMMA InnerPixels ==
  ASSUME NEW c, IsChannelConfigs(c), NEW p, Rows(p) \in Nat, Cols(p) \in Nat,
         NEW y \in Lines(Inner(c, p)), NEW x \in Columns(Inner(c, p))
  PROVE  y \in 1 .. Rows(p) /\ x \in 1 .. Cols(p)
<1>1. \A r \in Side : c[r].crop \in Nat
  BY DEF IsChannelConfigs
<1>2. c.left.crop \in Nat /\ c.right.crop \in Nat /\ c.top.crop \in Nat /\ c.bottom.crop \in Nat
  BY <1>1 DEF Side
<1>3. /\ y \in c.top.crop + 1 .. c.top.crop + InnerRows(c, p)
      /\ x \in c.left.crop + 1 .. c.left.crop + InnerCols(c, p)
  BY DEF Inner, Area, Lines, Columns
<1>4. /\ InnerRows(c, p) = Rows(p) - c.top.crop - c.bottom.crop
      /\ InnerCols(c, p) = Cols(p) - c.left.crop - c.right.crop
  BY DEF InnerRows, InnerCols
<1> QED
  BY <1>2, <1>3, <1>4

(* One area is averaged: its mean is between the levels of its pixels.      *)
LEMMA CropAveraged ==
  ASSUME TypeInv, CropInv, Average
  PROVE  CropInv'
<1>1. PICK i \in 1 .. Len(Parts) : i = count + 1
  BY AverageStep
<1>2. PICK place : place = AreaOf(settings.capture, Original, Parts[i])
  OBVIOUS
<1> DEFINE sum == Sum(image, place)
           mean == Truncated(sum, Size(place))
           level == Rounded(sum, Size(place))
<1>3. /\ Len(frame) = count /\ IsArea(place) /\ Inside(place, image)
      /\ frame' = Append(frame, mean) /\ image' = Painted(image, place, level)
  BY <1>1, <1>2, AverageStep
<1>4. /\ running = "average" /\ running' = "average"
      /\ settings' = settings /\ seen' = seen /\ settings \in Settings
      /\ frame \in Seq(Color) /\ count \in Nat
      /\ seen \in Picture /\ IsPicture(image) /\ SameSize(image, Original)
  BY DEF Average, Turn, TypeInv, TypeOK
<1>5. Original' = Original /\ Uncropped' = Uncropped
  BY <1>4 DEF Original, Uncropped
<1>6. mean \in Color
  BY <1>3, <1>4, MeanIsColor
<1>7. /\ IsPicture(Original) /\ IsSegment(settings.capture, Parts[i])
      /\ IsChannelConfigs(settings.capture)
  BY <1>4, PicturesAre, PartsAre, SectionIsRead DEF Original
<1> SUFFICES ASSUME Fits(settings.capture, Original), NEW low \in Int, NEW high \in Int,
                    Between(Original, Uncropped, low, high)
             PROVE  /\ Between(image', Uncropped, low, high)
                    /\ \A k \in 1 .. Len(frame') : low <= frame'[k] /\ frame'[k] <= high
  BY <1>4, <1>5 DEF CropInv
<1>8. /\ Lines(place) \subseteq Lines(Uncropped) /\ Columns(place) \subseteq Columns(Uncropped)
      /\ Size(place) > 0 /\ Size(place) \in Nat \ {0}
  BY <1>2, <1>3, <1>7, SegmentsFit, HasPixels DEF IsPicture, Uncropped
<1>9. /\ Between(image, Uncropped, low, high)
      /\ \A k \in 1 .. Len(frame) : low <= frame[k] /\ frame[k] <= high
  BY <1>4 DEF CropInv
<1>10. mean \in low .. high /\ level \in low .. high
  <2>1. Between(image, place, low, high)
    BY <1>8, <1>9 DEF Between
  <2>2. /\ sum \in Int /\ Size(place) * low <= sum /\ sum <= Size(place) * high
    BY <1>3, <2>1, SumBounds
  <2> QED
    BY <1>8, <2>2, MeanBounds
<1> HIDE DEF mean, level
<1>11. Between(image', Uncropped, low, high)
  <2>1. ASSUME NEW y \in Lines(Uncropped), NEW x \in Columns(Uncropped)
        PROVE  image'[y][x] \in Int /\ low <= image'[y][x] /\ image'[y][x] <= high
    <3>1. y \in 1 .. Rows(image) /\ x \in 1 .. Cols(image)
      <4>1. Rows(Original) \in Nat /\ Cols(Original) \in Nat
        BY <1>7 DEF IsPicture
      <4>2. y \in 1 .. Rows(Original) /\ x \in 1 .. Cols(Original)
        BY <1>7, <4>1, InnerPixels DEF Uncropped
      <4> QED
        BY <1>4, <4>2 DEF SameSize
    <3>2. image'[y][x] = IF Covers(place, y, x) THEN level ELSE image[y][x]
      BY <1>3, <1>4, <3>1, PaintedPixel
    <3>3. image[y][x] \in Int /\ low <= image[y][x] /\ image[y][x] <= high
      BY <1>9 DEF Between
    <3> QED
      BY <1>10, <3>2, <3>3
  <2> QED
    BY <2>1 DEF Between
<1>12. ASSUME NEW k \in 1 .. Len(frame') PROVE low <= frame'[k] /\ frame'[k] <= high
  <2>1. /\ Len(frame') = count + 1 /\ frame'[count + 1] = mean
        /\ \A j \in 1 .. count : frame'[j] = frame[j]
    BY <1>3, <1>4, <1>6, AppendProperties
  <2>2. k \in 1 .. count \/ k = count + 1
    BY <1>4, <2>1
  <2> QED
    BY <1>3, <1>9, <1>10, <2>1, <2>2
<1> QED
  BY <1>11, <1>12

LEMMA CropStep == TypeInv /\ CropInv /\ [Next]_vars => CropInv'
<1> SUFFICES ASSUME TypeInv, CropInv, [Next]_vars PROVE CropInv'
  OBVIOUS
<1> USE DEF thread, camera, Enter, Turn
<1>s. UNCHANGED <<settings, seen>> => Original' = Original /\ Uncropped' = Uncropped
  BY DEF Original, Uncropped
<1>1. CASE Capture
  <2>1. frame' = <<>> /\ Len(frame') = 0
    BY <1>1, EmptySeq DEF Capture
  <2>2. running' = "average" => image' = Original'
    BY <1>1 DEF Capture, Original
  <2> QED
    BY <2>1, <2>2 DEF CropInv
<1>2. CASE Average
  BY <1>2, CropAveraged
<1>3. CASE Captured \/ Map
  <2>1. /\ running \in {"average", "map"} /\ running' = "map"
        /\ UNCHANGED <<settings, seen, frame>>
    BY <1>3 DEF Captured, Map
  <2> QED
    BY <1>s, <2>1 DEF CropInv
<1>4. CASE running' \notin {"average", "map"}
  BY <1>4 DEF CropInv
<1>5. CASE UNCHANGED <<running, settings, camera, frame>>
  BY <1>5, <1>s DEF CropInv
<1> QED
  <2>1. CASE Loop \/ CaptureFails \/ MapFails \/ MapEnds \/ Submit \/ SubmitFails \/ Submitted
    <3>1. running' \notin {"average", "map"}
      BY <2>1 DEF Loop, CaptureFails, MapFails, MapEnds, Submit, SubmitFails, Submitted
    <3> QED
      BY <1>4, <3>1
  <2>2. CASE Interrupt \/ (\E c \in UserCalls : UserSets(c)) \/ UNCHANGED vars
    BY <1>5, <2>2 DEF Interrupt, UserSets, vars
  <2> QED
    BY <1>1, <1>2, <1>3, <2>1, <2>2 DEF Next, Progress

(***************************************************************************)
(* Where every segment has room, no colour is darker or brighter than all  *)
(* the pixels that are not cropped, whatever has been painted before       *)
(* (CropsAreOmitted).                                                      *)
(***************************************************************************)
THEOREM CropsStayOff == Spec => []CropsAreOmitted
<1>1. Init => CropInv
  BY DEF Init, CropInv
<1>2. TypeInv /\ CropInv => CropsAreOmitted
  <2> SUFFICES ASSUME TypeInv, CropInv, running = "map", frame # <<>>,
                      Fits(settings.capture, Original), NEW k \in DOMAIN frame
               PROVE  LET levels == {Original[y][x] : y \in Lines(Uncropped),
                                                      x \in Columns(Uncropped)}
                      IN  /\ \E level \in levels : level <= frame[k]
                          /\ \E level \in levels : frame[k] <= level
    BY DEF CropsAreOmitted, Original, Uncropped
  <2> DEFINE levels == {Original[y][x] : y \in Lines(Uncropped), x \in Columns(Uncropped)}
  <2>1. PICK b \in Nat : Color = 0 .. b
    BY Levels
  <2>2. /\ seen \in Picture /\ IsPicture(Original) /\ settings \in Settings
        /\ DOMAIN frame = 1 .. Len(frame) /\ frame[k] \in Color /\ frame[k] \in 0 .. b
    BY <2>1, PicturesAre, LenProperties, ElementOfSeq DEF TypeInv, TypeOK, Original
  <2>3. ASSUME NEW y \in Lines(Uncropped), NEW x \in Columns(Uncropped)
        PROVE  Original[y][x] \in 0 .. b
    <3>1. /\ IsChannelConfigs(settings.capture)
          /\ Rows(Original) \in Nat /\ Cols(Original) \in Nat
      BY <2>2, SectionIsRead DEF IsPicture
    <3>2. y \in 1 .. Rows(Original) /\ x \in 1 .. Cols(Original)
      BY <3>1, InnerPixels DEF Uncropped
    <3>3. Original[y] \in Seq(Color) /\ x \in 1 .. Len(Original[y])
      BY <2>2, <3>2 DEF IsPicture
    <3> QED
      BY <2>1, <3>3, ElementOfSeq
  <2>4. \A low, high \in Int : Between(Original, Uncropped, low, high) =>
          low <= frame[k] /\ frame[k] <= high
    BY <2>2 DEF CropInv
  <2>5. \E level \in levels : level <= frame[k]
    <3> SUFFICES ASSUME \A level \in levels : ~ (level <= frame[k]) PROVE FALSE
      OBVIOUS
    <3>1. Between(Original, Uncropped, frame[k] + 1, b)
      <4>1. ASSUME NEW y \in Lines(Uncropped), NEW x \in Columns(Uncropped)
            PROVE  /\ Original[y][x] \in Int
                   /\ frame[k] + 1 <= Original[y][x] /\ Original[y][x] <= b
        <5>1. Original[y][x] \in levels
          OBVIOUS
        <5>2. ~ (Original[y][x] <= frame[k])
          BY <5>1
        <5> HIDE DEF levels
        <5> QED
          BY <2>1, <2>2, <2>3, <5>2
      <4> QED
        BY <4>1 DEF Between
    <3>2. frame[k] + 1 \in Int /\ b \in Int
      BY <2>1, <2>2
    <3>3. frame[k] + 1 <= frame[k]
      BY <2>4, <3>1, <3>2
    <3> QED
      BY <2>2, <3>3
  <2>6. \E level \in levels : frame[k] <= level
    <3> SUFFICES ASSUME \A level \in levels : ~ (frame[k] <= level) PROVE FALSE
      OBVIOUS
    <3>1. Between(Original, Uncropped, 0, frame[k] - 1)
      <4>1. ASSUME NEW y \in Lines(Uncropped), NEW x \in Columns(Uncropped)
            PROVE  /\ Original[y][x] \in Int
                   /\ 0 <= Original[y][x] /\ Original[y][x] <= frame[k] - 1
        <5>1. Original[y][x] \in levels
          OBVIOUS
        <5>2. ~ (frame[k] <= Original[y][x])
          BY <5>1
        <5> HIDE DEF levels
        <5> QED
          BY <2>1, <2>2, <2>3, <5>2
      <4> QED
        BY <4>1 DEF Between
    <3>2. 0 \in Int /\ frame[k] - 1 \in Int
      BY <2>2
    <3>3. frame[k] <= frame[k] - 1
      BY <2>4, <3>1, <3>2
    <3> QED
      BY <2>2, <3>3
  <2> QED
    BY <2>5, <2>6
<1> QED
  BY <1>1, <1>2, TypeInit, TypeStep, CropStep, PTL DEF Spec

===============================================================================
