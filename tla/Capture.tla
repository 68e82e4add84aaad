-------------------------------- MODULE Capture --------------------------------
(***************************************************************************)
(* OpenCVCapture::capture() (src/atmoanalyzer/open_cv_capture.cpp): the    *)
(* sides of a picture are divided into areas, and a channel gets the mean  *)
(* of its area.  getMean() also paints the area with it, so the areas that *)
(* are averaged later see the painted picture.                             *)
(*                                                                         *)
(* Red, green and blue are treated alike and apart from each other: one of *)
(* them is modelled, and a picture is its rows of levels.  The quotients,  *)
(* which the code computes as floats, are exact.                           *)
(*                                                                         *)
(* Everything here is about one area; the module Analyzer goes through     *)
(* the areas one by one.                                                   *)
(***************************************************************************)
EXTENDS Configuration

(* cv::Rect(x, y, width, height)                                            *)
Area(x, y, width, height) == [x |-> x, y |-> y, width |-> width, height |-> height]

(* Where its pixels are: picture[y][x] for these y and x.                   *)
Lines(area) == area.y + 1 .. area.y + area.height
Columns(area) == area.x + 1 .. area.x + area.width

Rows(picture) == Len(picture)
Cols(picture) == Len(picture[1])

(* The picture has the area, otherwise taking it throws.                    *)
Inside(area, picture) ==
  /\ area.x >= 0 /\ area.width >= 0 /\ area.x + area.width <= Cols(picture)
  /\ area.y >= 0 /\ area.height >= 0 /\ area.y + area.height <= Rows(picture)

(* static_cast<Width>(length / count * i).  A negative number is no Width:  *)
(* the conversion gives 0 or a number that no picture has, then it throws.  *)
Part(length, count, i) == IF length < 0 THEN 0 ELSE (length * i) \div count

-------------------------------------------------------------------------------
(* The areas of the four sides; i counts from 0.                            *)
InnerCols(c, picture) == Cols(picture) - c.left.crop - c.right.crop
InnerRows(c, picture) == Rows(picture) - c.top.crop - c.bottom.crop

TopArea(c, picture, i) ==
  LET width == InnerCols(c, picture)
  IN  Area(c.left.crop + Part(width, c.top.count, i), c.top.crop,
           Part(width, c.top.count, 1), c.top.depth)

(* Mutant of BottomArea: the area starts where it ends.                     *)
BottomAreaOutside(c, picture, i) ==
  LET width == InnerCols(c, picture)
  IN  Area(c.left.crop + Part(width, c.bottom.count, i), Rows(picture) - c.bottom.crop,
           Part(width, c.bottom.count, 1), c.bottom.depth)

BottomArea(c, picture, i) ==
  LET width == InnerCols(c, picture)
  IN  Area(c.left.crop + Part(width, c.bottom.count, i),
           Rows(picture) - c.bottom.crop - c.bottom.depth,
           Part(width, c.bottom.count, 1), c.bottom.depth)

LeftArea(c, picture, i) ==
  LET height == InnerRows(c, picture)
  IN  Area(c.left.crop, c.top.crop + Part(height, c.left.count, i),
           c.left.depth, Part(height, c.left.count, 1))

RightArea(c, picture, i) ==
  LET height == InnerRows(c, picture)
  IN  Area(Cols(picture) - c.right.crop - c.right.depth,
           c.top.crop + Part(height, c.right.count, i),
           c.right.depth, Part(height, c.right.count, 1))

(* The segments of the four sides in the order in which they are averaged,  *)
(* and mapped later on; capture() returns one colour for each of them.      *)
Segments(c) ==
  LET Of(side) == [i \in 1 .. c[side].count |-> [side |-> side, index |-> i]]
  IN  Of("top") \o Of("bottom") \o Of("left") \o Of("right")

AreaOf(c, picture, segment) ==
  LET i == segment.index - 1
  IN  CASE segment.side = "top"    -> TopArea(c, picture, i)
        [] segment.side = "bottom" -> BottomArea(c, picture, i)
        [] segment.side = "left"   -> LeftArea(c, picture, i)
        [] segment.side = "right"  -> RightArea(c, picture, i)

-------------------------------------------------------------------------------
(* Line by line, so that it can be reasoned about.                          *)
Total(s, n) ==
  LET sum[k \in 0 .. n] == IF k = 0 THEN 0 ELSE sum[k - 1] + s[k]
  IN  sum[n]

LineSums(picture, area) ==
  [y \in 1 .. area.height |->
     Total([x \in 1 .. area.width |-> picture[area.y + y][area.x + x]], area.width)]

Sum(picture, area) == Total(LineSums(picture, area), area.height)

Size(area) == area.width * area.height

(* convertColor() truncates the mean.  That of no pixels is black, or       *)
(* cv::mean() throws.                                                       *)
Truncated(sum, n) == IF n = 0 THEN 0 ELSE sum \div n

(* Assigned to the area, the mean is rounded, a half to the even level.     *)
Rounded(sum, n) ==
  LET down == sum \div n
      rest == sum - n * down
  IN  IF 2 * rest > n \/ (2 * rest = n /\ down % 2 = 1) THEN down + 1 ELSE down

(* Mutant of Painted: the whole picture is assigned the level.              *)
PaintedAll(picture, area, level) ==
  [y \in DOMAIN picture |->
     [x \in DOMAIN picture[y] |-> IF Size(area) > 0 THEN level ELSE picture[y][x]]]

Painted(picture, area, level) ==
  [y \in DOMAIN picture |->
     [x \in DOMAIN picture[y] |->
        IF y \in Lines(area) /\ x \in Columns(area) THEN level ELSE picture[y][x]]]

===============================================================================
