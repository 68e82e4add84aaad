---------------------------- MODULE MCControlServer ----------------------------
(***************************************************************************)
(* ControlServer with two clients.  The first sends three requests that    *)
(* set and get, without waiting; the second sends one message of every     *)
(* other sort.                                                             *)
(***************************************************************************)
EXTENDS ControlServer, TLC

CONSTANTS c1, c2

MCClient == {c1, c2}
MCColor == 0 .. 255
MCNumChannels == 0 :> 2
MCMaxRequests == c1 :> 3 @@ c2 :> 1

Blank ==
  [cmd |-> "", device |-> <<>>, channel |-> <<>>, color |-> <<>>,
   channels |-> <<>>, mode |-> <<>>]

Json(r) == [kind |-> "request", request |-> r]

Broken(k) == [kind |-> k, request |-> Blank]

Ask(cmd) == [Blank EXCEPT !.cmd = cmd]

OfDevice(cmd, d) == [Blank EXCEPT !.cmd = cmd, !.device = <<d>>]

OfChannel(cmd, d, c) == [OfDevice(cmd, d) EXCEPT !.channel = <<c>>]

SetChannel(d, c, x) == [OfChannel("set_channel", d, c) EXCEPT !.color = <<x>>]

SetChannels(d, xs) == [OfDevice("set_channels", d) EXCEPT !.channels = <<xs>>]

SetMode(m) == [Ask("set_mode") EXCEPT !.mode = <<m>>]

(* A prefix of the channels, with a colour that does not fit eight bits.    *)
SettingAndGetting ==
  { Json(r) : r \in {
      SetChannels(0, <<<<300>>>>),
      OfDevice("get_channels", 0),
      SetMode("control") } }

(* What is not a request; a colour below zero, too many colours, one that   *)
(* is none; a device, a command and a mode that do not exist.               *)
AnythingElse ==
  { Broken(k) : k \in Kind \ {"request"} } \cup
  { Json(r) : r \in {
      SetChannel(0, 1, -1),
      SetChannels(0, <<<<1>>, <<2>>, <<3>>>>),
      SetChannels(0, <<<<1>>, <<>>>>),
      OfChannel("get_channel", 0, 1),
      OfChannel("get_channel", -1, 0),
      Ask("get_devices"), Ask("get_modes"), Ask("get_mode"), Ask("reboot"),
      SetMode("analyzer"), SetMode("off") } }

MCTexts == c1 :> SettingAndGetting @@ c2 :> AnythingElse

===============================================================================
