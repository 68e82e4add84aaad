------------------------------- MODULE MCDaemon -------------------------------
(***************************************************************************)
(* Daemon with room for two Analyzer objects, which are interchangeable,   *)
(* and a file with a DotStar of one channel that is reset on errors and an *)
(* AtmoLight that is not.                                                  *)
(***************************************************************************)
EXTENDS Daemon, TLC

CONSTANTS a1, a2, Red

MCAnalyzer == {a1, a2}
MCSymmetry == Permutations(MCAnalyzer)
MCColor == {Black, Red}

Light(type, reset) ==
  [name |-> "Light", type |-> type, filename |-> "/dev/spidev0.0", channels |-> 1,
   reset_on_error |-> reset]

Lights == <<Light("dotstar", TRUE), Light("atmolight", FALSE)>>

MCInstalled == [i \in DOMAIN Lights |-> readDevice(Lights[i])]

MCFiles ==
  { [devices  |-> Lights,
     control  |-> [address |-> "127.0.0.1", port |-> 22222],
     analyzer |-> [capture |-> [type |-> "opencv"], mappings |-> [top |-> <<>>]]] }

Request(op, d, c, cs) == [op |-> op, device |-> d, channel |-> c, colors |-> cs]

(* A set of one device and a get of the other.                              *)
MCRequests ==
  { Request("setChannel", 0, 0, <<Red>>), Request("getChannels", 1, 0, <<>>) }

(* Every frame is red.                                                      *)
MCFrames ==
  { Request("setChannels", 0, 0, <<Red>>),
    Request("setChannels", 1, 0, <<Red, Red, Red, Red>>) }

===============================================================================
