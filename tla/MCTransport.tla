------------------------------ MODULE MCTransport ------------------------------
(***************************************************************************)
(* Transport with one thread and two devices that are reset on errors: a   *)
(* serial device and a DotStar.                                            *)
(***************************************************************************)
EXTENDS Transport, TLC

CONSTANTS Control, Red

MCClient == {Control}
MCColor == {Black, Red}
MCNumChannels == 0 :> 1 @@ 1 :> 1
MCResetOnError == 0 :> TRUE @@ 1 :> TRUE
MCDotStar == {1}
MCDescriptor == 3 .. 5

Request(op, d, c, cs) == [op |-> op, device |-> d, channel |-> c, colors |-> cs]

(* clear() reaches both devices; too many colours are rejected and retried  *)
(* like a failing port.                                                     *)
MCCalls ==
  { Request("clear", 0, 0, <<>>),
    Request("setChannel", 0, 0, <<Red>>),
    Request("setChannel", 1, 0, <<Red>>),
    Request("setChannels", 1, 0, <<Red, Red>>) }

===============================================================================
