-------------------------------- MODULE Atmoctrl --------------------------------
(***************************************************************************)
(* The command line tool atmoctrl (src/atmoctrl/atmoctrl.cpp): it opens    *)
(* one device, clears it, and sets one channel or all of them, one         *)
(* setChannel() after the other, each of which sends the whole device.     *)
(* Any update may throw, which ends the process.  A device that has        *)
(* received a packet shows it (module Packets); what it has shown before   *)
(* the program starts is arbitrary.                                        *)
(***************************************************************************)
EXTENDS Integers, AtmoDevice, Packets

CONSTANTS
  NumChannels,   (* the number of channels of each type of device          *)
  MaxChannel     (* bound on the command line's channel                    *)

ASSUME AtmoctrlAssumption ==
  /\ Color \subseteq RGB
  /\ Black = [red |-> 0, green |-> 0, blue |-> 0]
  /\ NumChannels \in [DeviceType -> Nat \ {0}]
  /\ NumChannels["AtmoLight"] = 4
  /\ NumChannels["KarateLight"] = 16
  /\ MaxChannel \in Nat

VARIABLES
  main,       (* open, clear, set, update, done, failed                    *)
  type,       (* -t                                                        *)
  option,     (* -c, -1 when it is missing                                 *)
  color,      (* -r -g -b                                                  *)
  next,       (* what follows an update: clear, set or again (the loop)    *)
  channel,    (* the loop counter, or the channel to set                   *)
  channels,   (* m_channels                                                *)
  packet,     (* what the device has been sent last                        *)
  leds        (* what it shows                                             *)

vars == <<main, type, option, color, next, channel, channels, packet, leds>>

arguments == <<type, option, color>>

Index == Channel(NumChannels[type])

Init ==
  /\ main = "open"
  /\ type \in DeviceType
  /\ option \in -1 .. MaxChannel
  /\ color \in Color
  /\ next = "clear"
  /\ channel = IF option < 0 THEN 0 ELSE option
  /\ channels = Dark(NumChannels[type])
  /\ packet = <<>>
  /\ \E c \in Color :
       leds = [i \in Index |-> LED(c.red, c.green, c.blue, FullBrightness)]

-------------------------------------------------------------------------------
(* createDevice(): opening the port may fail.  The constructors of the      *)
(* serial devices call clear(), DotStar's does not.                         *)
Open ==
  /\ main = "open"
  /\ \/ main' = IF type = "DotStar" THEN "clear" ELSE "update"
     \/ main' = "failed"
  /\ UNCHANGED <<arguments, next, channel, channels, packet, leds>>

Clear ==
  /\ main = "clear"
  /\ channels' = Dark(NumChannels[type])
  /\ next' = "set"
  /\ main' = "update"
  /\ UNCHANGED <<arguments, channel, packet, leds>>

(* setChannel() throws when there is no such channel.                       *)
SetChannel ==
  /\ main = "set"
  /\ IF channel \in Index
     THEN /\ channels' = [channels EXCEPT ![channel] = color]
          /\ next' = "again"
          /\ main' = "update"
     ELSE main' = "failed" /\ UNCHANGED <<channels, next>>
  /\ UNCHANGED <<arguments, channel, packet, leds>>

(* Mutant of Repeat: the loop ends one channel early.                       *)
RepeatEndsEarly ==
  IF next # "again" THEN main' = next /\ UNCHANGED channel
  ELSE IF option < 0 /\ channel + 2 \in Index
  THEN main' = "set" /\ channel' = channel + 1
  ELSE main' = "done" /\ UNCHANGED channel

(* After an update: the loop over all channels, or the end.                 *)
Repeat ==
  IF next # "again" THEN main' = next /\ UNCHANGED channel
  ELSE IF option < 0 /\ channel + 1 \in Index
  THEN main' = "set" /\ channel' = channel + 1
  ELSE main' = "done" /\ UNCHANGED channel

Update ==
  /\ main = "update"
  /\ packet' = writeBuffer(type, channels)
  /\ leds' = [i \in Index |-> Received(type, packet', i)]
  /\ Repeat
  /\ UNCHANGED <<arguments, next, channels>>

UpdateFails ==
  /\ main = "update"
  /\ main' = "failed"
  /\ UNCHANGED <<arguments, next, channel, channels, packet, leds>>

Ended ==
  /\ main \in {"done", "failed"}
  /\ UNCHANGED vars

Next == Open \/ Clear \/ SetChannel \/ Update \/ UpdateFails \/ Ended

Spec == Init /\ [][Next]_vars /\ WF_vars(Next)

-------------------------------------------------------------------------------
Shown == main \in {"clear", "set", "done"} /\ packet # <<>>

(* Every variable has its type; a packet is a sequence of bytes of the size *)
(* the device expects, so nothing is written behind the buffer's end.       *)
TypeOK ==
  /\ main \in {"open", "clear", "set", "update", "done", "failed"}
  /\ type \in DeviceType /\ color \in Color
  /\ option \in -1 .. MaxChannel
  /\ next \in {"clear", "set", "again"}
  /\ channel \in 0 .. MaxChannel \cup Index
  /\ channels \in [Index -> Color]
  /\ packet \in Seq(Byte)
  /\ packet # <<>> =>
       Len(packet) = CASE type = "AtmoLight"   -> 19
                       [] type = "KarateLight" -> 52
                       [] type = "DotStar"     -> 4 * NumChannels[type] + 8
  /\ DOMAIN leds = Index

(* device.hpp:106-107: update() "is always called with colors for all       *)
(* channels".  After each update every channel of the device has received   *)
(* the colour that m_channels has for it: headers, order of the components  *)
(* and positions agree with what the device reads.                          *)
LedsShowChannels ==
  Shown => \A i \in Index : leds[i].color = channels[i]

(* The KarateLight's checksum is over the packet as it is sent, although it *)
(* is computed before its own byte is filled in.                            *)
ChecksumHolds ==
  type = "KarateLight" /\ packet # <<>> => calculateChecksum(packet) = 0

(* A colour for which computeDotStarBrightness() is 0.                      *)
TooDim(c) == c.red + c.green + c.blue < 25

(* device.hpp:44: setChannel() is to "Set one specific channel to the given *)
(* color."  When a run succeeds, the channels that were asked for have      *)
(* received their colour and all others black, whatever the device showed   *)
(* before; and they are lit, unless the device is a DotStar and the colour  *)
(* one of those that it is sent at brightness 0.                            *)
AskedChannelsAreLit ==
  main = "done" =>
    \A i \in Index :
      LET asked == option < 0 \/ option = i
      IN  /\ leds[i].color = IF asked THEN color ELSE Black
          /\ asked => leds[i].brightness > 0 \/ (type = "DotStar" /\ TooDim(color))

===============================================================================
