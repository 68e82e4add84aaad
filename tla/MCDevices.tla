------------------------------- MODULE MCDevices -------------------------------
(***************************************************************************)
(* Devices with two threads, the control server's and the analyzer's, and  *)
(* two devices: device 0 has one channel and is reset on errors, device 1  *)
(* has two channels and is not; device 1 is a DotStar.                     *)
(***************************************************************************)
EXTENDS Devices, TLC

CONSTANTS Control, Analyzer, Red

MCClient == {Control, Analyzer}
MCColor == {Black, Red}
MCNumChannels == 0 :> 1 @@ 1 :> 2
MCResetOnError == 0 :> TRUE @@ 1 :> FALSE
MCDotStar == {1}

Request(op, d, c, cs) == [op |-> op, device |-> d, channel |-> c, colors |-> cs]

(* Every method on each device, a prefix of the channels, too many colours, *)
(* a channel and a device that do not exist.                                *)
MCCalls ==
  { Request("clear", 0, 0, <<>>),
    Request("getChannel", 1, 1, <<>>),
    Request("getChannel", 0, 1, <<>>),
    Request("getChannels", 0, 0, <<>>),
    Request("setChannel", 1, 1, <<Red>>),
    Request("setChannel", 0, 1, <<Red>>),
    Request("setChannels", 0, 0, <<Red>>),
    Request("setChannels", 1, 0, <<Red>>),
    Request("setChannels", 1, 0, <<Black, Red>>),
    Request("setChannels", 0, 0, <<Red, Red>>),
    Request("setChannel", 2, 0, <<Red>>) }

===============================================================================
