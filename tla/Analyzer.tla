-------------------------------- MODULE Analyzer --------------------------------
(***************************************************************************)
(* The thread of an Analyzer (src/atmoanalyzer/analyzer.cpp): it captures  *)
(* a frame as its section of the configuration says (modules Configuration *)
(* and Capture), maps the colours of the four sides of the picture to      *)
(* channels of the devices in its table m_channels_per_device, and submits *)
(* the whole table to the device manager, device by device.  Meanwhile     *)
(* users set channels of any device through the control server.            *)
(*                                                                         *)
(* A call of the device manager is one step, as in the module ColorStore,  *)
(* and so is each turn of the thread's three loops: one area is averaged,  *)
(* one colour mapped, one device submitted.  An exception ends the frame   *)
(* in the middle of such a loop, and run() goes on with the next one.      *)
(***************************************************************************)
EXTENDS AtmoDevice, Capture

CONSTANTS
  NumDevices,    (* m_devices->size()                                      *)
  NumChannels,   (* the number of channels of each device                  *)
  Sections,      (* the possible analyzer sections of the file             *)
  Pictures,      (* what the capture device may see, by name               *)
  UserCalls      (* the calls of the users                                 *)

Device == 0 .. NumDevices - 1

(* The sections that are read without an exception.  A Mapping in them may  *)
(* name any device and channel: nothing checks them when the configuration  *)
(* is loaded, nor how many there are.                                       *)
Settings == {readAnalyzerConfig(a) : a \in {b \in Sections : AnalyzerReadable(b)}}

Picture == DOMAIN Pictures

ASSUME AnalyzerAssumption ==
  /\ NumDevices \in Nat
  /\ NumChannels \in [Device -> Nat \ {0}]
  /\ Black = 0 /\ Color \subseteq Nat /\ \E brightest \in Color : Color = 0 .. brightest
  /\ \A s \in Settings : \A side \in Side :
       /\ s.capture[side] \in [count : Nat, depth : Nat, crop : Nat]
       /\ s.mappings[side] \in Seq([device_index : Nat, device_channel : Nat])
  /\ \A p \in Picture :
       /\ Pictures[p] \in Seq(Seq(Color)) /\ Pictures[p] # <<>>
       /\ \A y \in DOMAIN Pictures[p] : Len(Pictures[p][y]) = Cols(Pictures[p])
  /\ UserCalls \subseteq {c \in AtmoCall : c.op \in Writing /\ c.device \in Device}

VARIABLES
  settings,   (* m_mappings, and the channel_configs of m_capture_device   *)
  running,    (* where the thread is: head, capture, average, map, submit, *)
              (* exited                                                    *)
  count,      (* how many turns the loop it is in has taken                *)
  stop,       (* m_interrupted                                             *)
  image,      (* m_current_frame of the capture device                     *)
  seen,       (* the picture that it was before it was painted, or "none"  *)
  frame,      (* the Channels of the frame, as far as they are calculated  *)
  latest,     (* the last Channels of a picture that capture() returned    *)
  table,      (* m_channels_per_device                                     *)
  colors      (* the colours of the devices, as the manager keeps them     *)

thread == <<running, count>>
camera == <<image, seen>>
vars == <<settings, thread, stop, camera, frame, latest, table, colors>>

Table == {t \in [Device -> UNION {Vector(NumChannels[d]) : d \in Device}] :
            \A d \in Device : t[d] \in Vector(NumChannels[d])}

Init ==
  /\ settings \in Settings
  /\ running = "head"
  /\ count = 0
  /\ stop = FALSE
  /\ image = <<>>
  /\ seen = "none"
  /\ frame = <<>>
  /\ latest = <<>>
  /\ table = [d \in Device |-> Dark(NumChannels[d])]
  /\ colors \in Table

-------------------------------------------------------------------------------
(* The thread begins another part of the frame, or the next turn.           *)
Enter(place) == running' = place /\ count' = 0

Turn == running' = running /\ count' = count + 1

(* Mutant of Loop: the flag is not looked at.                               *)
LoopForever ==
  /\ running = "head"
  /\ Enter("capture")
  /\ UNCHANGED <<settings, stop, camera, frame, latest, table, colors>>

(* The condition of the loop in run().                                      *)
Loop ==
  /\ running = "head"
  /\ Enter(IF stop THEN "exited" ELSE "capture")
  /\ UNCHANGED <<settings, stop, camera, frame, latest, table, colors>>

-------------------------------------------------------------------------------
(* m_capture_device->capture().                                             *)
Parts == Segments(settings.capture)

(* Mutant of Capture: the colours of the last frame are kept.               *)
CaptureBehind ==
  /\ running = "capture"
  /\ \/ \E p \in Picture : image' = Pictures[p] /\ seen' = p /\ Enter("average")
     \/ UNCHANGED camera /\ Enter("map")
  /\ UNCHANGED <<settings, stop, frame, latest, table, colors>>

(* A picture, or an empty frame: then there are no colours at all.          *)
Capture ==
  /\ running = "capture"
  /\ frame' = <<>>
  /\ \/ \E p \in Picture : image' = Pictures[p] /\ seen' = p /\ Enter("average")
     \/ UNCHANGED camera /\ Enter("map")
  /\ UNCHANGED <<settings, stop, latest, table, colors>>

(* getMean() of one area: its colour, and the picture that is left behind.  *)
(* (The area and the sum are bound so that TLC computes them once.)         *)
Average ==
  /\ running = "average"
  /\ count < Len(Parts)
  /\ \E area \in {AreaOf(settings.capture, image, Parts[count + 1])} :
       /\ Inside(area, image)
       /\ \E sum \in {Sum(image, area)} :
            /\ frame' = Append(frame, Truncated(sum, Size(area)))
            /\ image' = Painted(image, area, Rounded(sum, Size(area)))
  /\ Turn
  /\ UNCHANGED <<settings, stop, seen, latest, table, colors>>

(* capture() returns.                                                       *)
Captured ==
  /\ running = "average"
  /\ count = Len(Parts)
  /\ latest' = frame
  /\ Enter("map")
  /\ UNCHANGED <<settings, stop, camera, frame, table, colors>>

(* The picture does not have the area, or has less than three channels, or  *)
(* the library throws.                                                      *)
CaptureFails ==
  /\ running \in {"capture", "average"}
  /\ Enter("head")
  /\ UNCHANGED <<settings, stop, camera, frame, latest, table, colors>>

-------------------------------------------------------------------------------
(***************************************************************************)
(* handleChannels() for top, bottom, left and right.  A captured colour    *)
(* has the mapping of the same index, if there is one, and legal or not.   *)
(***************************************************************************)
Target(k) == settings.mappings[Parts[k].side][Parts[k].index]

Mapped(k) ==
  /\ Parts[k].index <= Len(settings.mappings[Parts[k].side])
  /\ Target(k).device_index \in Device
  /\ Target(k).device_channel < NumChannels[Target(k).device_index]

(* Mutant of Map: right is handled before left.                             *)
MapLastFirst ==
  /\ running = "map"
  /\ count < Len(frame)
  /\ LET k == Len(frame) - count
     IN  /\ Mapped(k)
         /\ table' = [table EXCEPT ![Target(k).device_index][Target(k).device_channel] = frame[k]]
  /\ Turn
  /\ UNCHANGED <<settings, stop, camera, frame, latest, colors>>

Map ==
  /\ running = "map"
  /\ count < Len(frame)
  /\ LET k == count + 1
     IN  /\ Mapped(k)
         /\ table' = [table EXCEPT ![Target(k).device_index][Target(k).device_channel] = frame[k]]
  /\ Turn
  /\ UNCHANGED <<settings, stop, camera, frame, latest, colors>>

(* Mutant of MapFails: a colour without a legal mapping is skipped.         *)
MapSkips ==
  /\ running = "map"
  /\ count < Len(frame)
  /\ ~ Mapped(count + 1)
  /\ Turn
  /\ UNCHANGED <<settings, stop, camera, frame, latest, table, colors>>

(* at() throws at the first colour without a legal mapping: what has been   *)
(* stored stays.                                                            *)
MapFails ==
  /\ running = "map"
  /\ count < Len(frame)
  /\ ~ Mapped(count + 1)
  /\ Enter("head")
  /\ UNCHANGED <<settings, stop, camera, frame, latest, table, colors>>

MapEnds ==
  /\ running = "map"
  /\ count = Len(frame)
  /\ Enter("submit")
  /\ UNCHANGED <<settings, stop, camera, frame, latest, table, colors>>

-------------------------------------------------------------------------------
(* submitChannels(): all devices, mapped or not.                            *)
Submit ==
  /\ running = "submit"
  /\ count \in Device
  /\ colors' = [colors EXCEPT ![count] = table[count]]
  /\ Turn
  /\ UNCHANGED <<settings, stop, camera, frame, latest, table>>

(* setChannels() throws, having stored the colours or not; the devices that *)
(* follow are left out.                                                     *)
SubmitFails ==
  /\ running = "submit"
  /\ count \in Device
  /\ colors' \in {colors, [colors EXCEPT ![count] = table[count]]}
  /\ Enter("head")
  /\ UNCHANGED <<settings, stop, camera, frame, latest, table>>

Submitted ==
  /\ running = "submit"
  /\ count \notin Device
  /\ Enter("head")
  /\ UNCHANGED <<settings, stop, camera, frame, latest, table, colors>>

(* ~Analyzer() sets the flag at any time, in any state of the thread.       *)
Interrupt ==
  /\ stop' = TRUE
  /\ UNCHANGED <<settings, thread, camera, frame, latest, table, colors>>

(* A user's setChannel() or setChannels() takes effect.                     *)
UserSets(c) ==
  /\ ~ Rejects(c, NumChannels[c.device])
  /\ colors' = [colors EXCEPT ![c.device] = Modified(c, @)]
  /\ UNCHANGED <<settings, thread, stop, camera, frame, latest, table>>

Progress ==
  \/ Loop
  \/ Capture \/ Average \/ Captured \/ CaptureFails
  \/ Map \/ MapFails \/ MapEnds
  \/ Submit \/ SubmitFails \/ Submitted

Next == Progress \/ Interrupt \/ \E c \in UserCalls : UserSets(c)

(* The thread is scheduled again and again, and capture() returns.          *)
Spec == Init /\ [][Next]_vars /\ WF_vars(Progress)

-------------------------------------------------------------------------------
(* Every variable has its type: a frame has the channels that its section   *)
(* asks for, or none, and the table never changes its shape.                *)
TypeOK ==
  /\ settings \in Settings
  /\ running \in {"head", "capture", "average", "map", "submit", "exited"}
  /\ stop \in BOOLEAN
  /\ seen \in Picture \cup {"none"}
  /\ frame \in Seq(Color) /\ latest \in Seq(Color)
  /\ running = "average" => Len(frame) = count
  /\ running \in {"map", "submit"} => Len(frame) \in {0, Len(Parts)}
  /\ table \in Table
  /\ colors \in Table
  /\ count \in Nat /\ (running = "submit" => count <= NumDevices)

(* The mappings cover every captured channel and name channels that exist.  *)
Complete ==
  \A s \in Side :
    /\ Len(settings.mappings[s]) >= settings.capture[s].count
    /\ \A i \in 1 .. settings.capture[s].count :
         LET m == settings.mappings[s][i]
         IN  m.device_index \in Device /\ m.device_channel < NumChannels[m.device_index]

(* The captured channels that a frame maps before at() throws, if it does.  *)
Mappable == {k \in DOMAIN Parts : \A j \in 1 .. k : Mapped(j)}

(***************************************************************************)
(* What the mappings say a channel of a device shows of the captured       *)
(* channels ks of a frame: of those mapped to it, the last one in the      *)
(* order top, bottom, left, right.  A channel that none of them is mapped  *)
(* to is black.                                                            *)
(***************************************************************************)
MapsTo(k, d, c) == Target(k) = [device_index |-> d, device_channel |-> c]

IsImage(t, f, ks) ==
  \A d \in Device : \A c \in Channel(NumChannels[d]) :
    LET sources == {k \in ks : MapsTo(k, d, c)}
    IN  \/ sources = {} /\ t[d][c] = Black
        \/ \E k \in sources : (\A j \in sources : j <= k) /\ t[d][c] = f[k]

(* The documented use of mappings (config/example.yml:55-60).  With         *)
(* complete mappings every submission is the image of the latest picture,   *)
(* all of it and nothing of an earlier one, or black before the first,      *)
(* although the table is updated in place and frames, captures and          *)
(* submissions may fail in between.                                         *)
WholeFramesAreSubmitted ==
  running = "submit" /\ Complete =>
    IF latest = <<>>
    THEN table = [d \in Device |-> Dark(NumChannels[d])]
    ELSE IsImage(table, latest, DOMAIN Parts)

(* Without complete mappings at() throws half-way through every picture,    *)
(* and its own frame is not submitted.  What it stored by then stays in the *)
(* table and is submitted by the next empty frame: the colours before the   *)
(* first that has no legal mapping, of the latest picture and of no earlier *)
(* one, on channels that are black otherwise.                               *)
LeftoversAreOfOnePicture ==
  running = "submit" /\ ~ Complete =>
    /\ frame = <<>>
    /\ IF latest = <<>>
       THEN table = [d \in Device |-> Dark(NumChannels[d])]
       ELSE IsImage(table, latest, Mappable)

(* The part of a picture that is not cropped, and the sections whose        *)
(* segments have room in it, with at least one pixel for each channel.      *)
Inner(c, picture) ==
  Area(c.left.crop, c.top.crop, InnerCols(c, picture), InnerRows(c, picture))

Fits(c, picture) ==
  LET Room(s, along, across) ==
        c[s].count > 0 => c[s].count <= along /\ c[s].depth \in 1 .. across
  IN  /\ \A s \in {"top", "bottom"} : Room(s, InnerCols(c, picture), InnerRows(c, picture))
      /\ \A s \in {"left", "right"} : Room(s, InnerRows(c, picture), InnerCols(c, picture))

(* config/example.yml:32: crop is the "number of pixels to omit on the      *)
(* outer side of the segment".  Whatever earlier areas have painted, a      *)
(* colour is between the darkest and the brightest pixel that is not        *)
(* omitted: black bars around a film stay off the LEDs.                     *)
CropsAreOmitted ==
  running = "map" /\ frame # <<>> =>
    LET picture == Pictures[seen]
        inner   == Inner(settings.capture, picture)
        levels  == {picture[y][x] : y \in Lines(inner), x \in Columns(inner)}
    IN  Fits(settings.capture, picture) =>
          \A k \in DOMAIN frame :
            /\ \E level \in levels : level <= frame[k]
            /\ \E level \in levels : frame[k] <= level

(* An area that meets no other shows what the capture device saw there: its *)
(* colour is at most one level below the mean of the original pixels.       *)
Apart(a, b) ==
  \/ a.x + a.width <= b.x \/ b.x + b.width <= a.x
  \/ a.y + a.height <= b.y \/ b.y + b.height <= a.y

ApartAreasAreTrue ==
  running = "map" =>
    \A k \in DOMAIN frame :
      LET picture == Pictures[seen]
          Place(j) == AreaOf(settings.capture, picture, Parts[j])
          n   == Size(Place(k))
          sum == Sum(picture, Place(k))
      IN  (\A j \in DOMAIN Parts \ {k} : Apart(Place(k), Place(j))) /\ n > 0 =>
            frame[k] * n <= sum /\ sum < (frame[k] + 1) * n

(* ~Analyzer() joins the thread: told to stop, it ends, whatever fails.     *)
StopsWhenTold == stop ~> running = "exited"

(* mode.hpp:22-23: in Analyzer mode the devices that the configuration does *)
(* not map "can still be controlled by the user": the analyzer leaves them  *)
(* alone.                                                                   *)
Unmapped ==
  {d \in Device : \A s \in Side : \A i \in DOMAIN settings.mappings[s] :
                    settings.mappings[s][i].device_index # d}

UsersKeepUnmapped ==
  [][Progress => \A d \in Unmapped : colors'[d] = colors[d]]_vars

===============================================================================
