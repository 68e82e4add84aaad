------------------------------ MODULE AtmoDevice ------------------------------
(***************************************************************************)
(* The colours of one LED device and what the operations of the class      *)
(* BaseAtmoDevice (src/atmodevice/device.cpp) do to them.  A device with n *)
(* channels keeps the vector m_channels, a function from the indices       *)
(* 0 .. n-1 to colours.  Everything here is a pure operator; the modules   *)
(* Devices and ColorStore hold the vectors as state.                       *)
(***************************************************************************)
EXTENDS Naturals, Sequences

CONSTANTS
  Color,   (* the RGB values a channel can have           *)
  Black    (* Color{0, 0, 0}, what clear() sets            *)

ASSUME BlackIsAColor == Black \in Color

Channel(n) == 0 .. n - 1

Vector(n) == [Channel(n) -> Color]

Dark(n) == [i \in Channel(n) |-> Black]

(***************************************************************************)
(* One call of a method of Devices: the method, the device index and, for  *)
(* the methods that take them, a channel index and colours.  setChannel    *)
(* carries its one colour as a sequence of length one.                     *)
(***************************************************************************)
Writing == {"clear", "setChannel", "setChannels"}

AtmoCall ==
  {c \in [op : Writing \cup {"getChannel", "getChannels"},
          device : Nat, channel : Nat, colors : Seq(Color)] :
     c.op = "setChannel" => Len(c.colors) = 1}

NoCall == [op |-> "getChannels", device |-> 0, channel |-> 0, colors |-> <<>>]

(***************************************************************************)
(* The argument checks of getChannel, setChannel and setChannels on a      *)
(* device with n channels: the call throws and changes nothing.            *)
(***************************************************************************)
Rejects(c, n) ==
  \/ c.op \in {"getChannel", "setChannel"} /\ c.channel >= n
  \/ c.op = "setChannels" /\ Len(c.colors) > n

(***************************************************************************)
(* m_channels after the call's assignment, before update() sends it.       *)
(* setChannels copies its colours over a prefix and keeps the rest.        *)
(***************************************************************************)
Assigns(c, i) ==
  \/ c.op = "clear"
  \/ c.op = "setChannel" /\ i = c.channel
  \/ c.op = "setChannels" /\ i < Len(c.colors)

Assigned(c, i) ==
  IF c.op = "clear" THEN Black
  ELSE c.colors[IF c.op = "setChannel" THEN 1 ELSE i + 1]

Modified(c, m) ==
  [i \in DOMAIN m |-> IF Assigns(c, i) THEN Assigned(c, i) ELSE m[i]]

(***************************************************************************)
(* What a getter returns: the part of m_channels that was asked for.       *)
(***************************************************************************)
Answer(c, m) ==
  [i \in (IF c.op = "getChannel" THEN {c.channel} ELSE DOMAIN m) |-> m[i]]

NoAnswer == [i \in {} |-> Black]

===============================================================================
