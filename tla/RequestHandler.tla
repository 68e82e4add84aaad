---------------------------- MODULE RequestHandler ----------------------------
(***************************************************************************)
(* The class RequestHandler (src/atmoanalyzer/request_handler.cpp): what a *)
(* text that a client sends does to the devices and the mode, and how it   *)
(* is answered.  Everything here is a pure operator on the state           *)
(*   [mode |-> "control" or "analyzer", colors |-> each device's channels] *)
(* which the module ControlServer keeps.  A call of the device manager is  *)
(* one step, as in ColorStore, and so is setMode() of Application.         *)
(*                                                                         *)
(* A text is a JSON request; a JSON value from which no msg_id can be read *)
(* (anonymous); no JSON (garbage); or none and so broken that the parser's *)
(* complaint cannot be serialised either (unquotable).  A property of a    *)
(* request is a sequence: empty if it is absent or has the wrong type, and *)
(* otherwise with its value as the only element.  A colour is one number,  *)
(* standing for red, green and blue.                                       *)
(***************************************************************************)
EXTENDS AtmoDevice, Integers

CONSTANTS
  NumDevices,         (* m_devices->size()                                 *)
  NumChannels,        (* the number of channels of each device             *)
  SizeModulus,        (* one more than the largest size_t                  *)
  AnalyzerConfigured, (* the configuration has an analyzer section         *)
  PaintedColor        (* what the analyzer, in its mode, paints            *)

Device == 0 .. NumDevices - 1

ASSUME RequestHandlerAssumption ==
  /\ NumDevices \in Nat
  /\ NumChannels \in [Device -> Nat \ {0}]
  /\ Color = 0 .. 255 /\ Black = 0
  /\ SizeModulus \in Nat /\ \A d \in Device : NumChannels[d] + d < SizeModulus
  /\ AnalyzerConfigured \in BOOLEAN
  /\ PaintedColor \in Color

Optional(S) == {s \in Seq(S) : Len(s) <= 1}

Request ==
  [cmd : STRING, device : Optional(Int), channel : Optional(Int),
   color : Optional(Int), channels : Optional(Seq(Optional(Int))),
   mode : Optional(STRING)]

NoId == -1    (* the msg_id of the answer to something that has none       *)

-------------------------------------------------------------------------------
(* json::get() of an unsigned type converts any number with a static_cast.  *)
ToUint8(n) == n % 256

ToSize(n) == n % SizeModulus

(* The properties that each command reads, all before it does anything.     *)
Required ==
  [set_channel  |-> {"device", "channel", "color"},
   set_channels |-> {"device", "channels"},
   get_channel  |-> {"device", "channel"},
   get_channels |-> {"device"},
   get_devices  |-> {}, get_modes |-> {}, get_mode |-> {},
   set_mode     |-> {"mode"}]

Readable(r) ==
  /\ r.cmd \in DOMAIN Required
  /\ \A p \in Required[r.cmd] : r[p] # <<>>
  /\ r.cmd = "set_channels" =>
       \A i \in DOMAIN r.channels[1] : r.channels[1][i] # <<>>
  /\ r.cmd = "set_mode" => r.mode[1] \in {"control", "analyzer"}

(* The call of the device manager that a readable request is turned into.   *)
Method ==
  [set_channel |-> "setChannel", set_channels |-> "setChannels",
   get_channel |-> "getChannel", get_channels |-> "getChannels"]

Arguments(r) ==
  IF r.cmd = "set_channel" THEN <<ToUint8(r.color[1])>>
  ELSE IF r.cmd = "set_channels"
  THEN [i \in DOMAIN r.channels[1] |-> ToUint8(r.channels[1][i][1])]
  ELSE <<>>

CallOf(r) ==
  [op      |-> Method[r.cmd],
   device  |-> ToSize(r.device[1]),
   channel |-> IF "channel" \in Required[r.cmd] THEN ToSize(r.channel[1]) ELSE 0,
   colors  |-> Arguments(r)]

-------------------------------------------------------------------------------
(***************************************************************************)
(* What may come of a request: the success and the body of the answer, and *)
(* the state it leaves.  Every exception is caught and answered.           *)
(***************************************************************************)
Answered(b, s) == [success |-> TRUE, body |-> b, state |-> s]

Refused(s) == [success |-> FALSE, body |-> NoAnswer, state |-> s]

(* Mutant of Written: a failing update is answered with success.            *)
WrittenAnyway(k, s) ==
  LET n == [s EXCEPT !.colors[k.device] = Modified(k, @)]
  IN  {Answered(NoAnswer, n), Answered(NoAnswer, s)}

(* The manager stores the colours and update() succeeds, or it throws, the  *)
(* device having taken the colours or not.                                  *)
Written(k, s) ==
  LET n == [s EXCEPT !.colors[k.device] = Modified(k, @)]
  IN  {Answered(NoAnswer, n), Refused(n), Refused(s)}

(* onGetChannel, onGetChannels, onSetChannel, onSetChannels.                *)
OnDevice(k, s) ==
  IF k.device \notin Device THEN {Refused(s)}
  ELSE IF Rejects(k, NumChannels[k.device]) THEN {Refused(s)}
  ELSE IF k.op \in Writing THEN Written(k, s)
  ELSE {Answered(Answer(k, s.colors[k.device]), s)}

(* Devices::clear() up to a device that throws; behind it nothing changes.  *)
Cleared(s, n) ==
  [s EXCEPT !.colors = [d \in Device |-> IF d < n THEN Dark(NumChannels[d]) ELSE @[d]]]

(* Mutant of OnControlMode: clear() is left out.                            *)
OnControlModeUncleared(s) == {Answered(NoAnswer, [s EXCEPT !.mode = "control"])}

(* setMode(Control): the analyzer has gone before clear() can throw.        *)
OnControlMode(s) ==
  LET c == [s EXCEPT !.mode = "control"]
  IN  {Answered(NoAnswer, Cleared(c, NumDevices))}
        \cup {Refused(Cleared(c, n)) : n \in 0 .. NumDevices}

(* setMode(Analyzer): not configured, or the capture device does not open.  *)
OnAnalyzerMode(s) ==
  {Refused(s)} \cup
    IF AnalyzerConfigured THEN {Answered(NoAnswer, [s EXCEPT !.mode = "analyzer"])} ELSE {}

GetModes == <<"control">> \o IF AnalyzerConfigured THEN <<"analyzer">> ELSE <<>>

(* Mutant of OnRequest: set_channels is executed while it is being read, up *)
(* to the element that is not a colour.                                     *)
OnRequestPiecemeal(r, s) ==
  IF ~ Readable(r) THEN
    IF r.cmd = "set_channels" /\ r.device # <<>> /\ r.channels # <<>>
       /\ r.channels[1] # <<>> /\ r.channels[1][1] # <<>>
    THEN {Refused([s EXCEPT !.colors[r.device[1]][0] = ToUint8(r.channels[1][1][1])])}
    ELSE {Refused(s)}
  ELSE IF r.cmd \in DOMAIN Method THEN OnDevice(CallOf(r), s)
  ELSE IF r.cmd = "get_devices" THEN {Answered(NumChannels, s)}
  ELSE IF r.cmd = "get_modes" THEN {Answered(GetModes, s)}
  ELSE IF r.cmd = "get_mode" THEN {Answered(<<s.mode>>, s)}
  ELSE IF r.mode[1] = "control" THEN OnControlMode(s)
  ELSE OnAnalyzerMode(s)

(* onRequest(): the dispatch.                                               *)
OnRequest(r, s) ==
  IF ~ Readable(r) THEN {Refused(s)}
  ELSE IF r.cmd \in DOMAIN Method THEN OnDevice(CallOf(r), s)
  ELSE IF r.cmd = "get_devices" THEN {Answered(NumChannels, s)}
  ELSE IF r.cmd = "get_modes" THEN {Answered(GetModes, s)}
  ELSE IF r.cmd = "get_mode" THEN {Answered(<<s.mode>>, s)}
  ELSE IF r.mode[1] = "control" THEN OnControlMode(s)
  ELSE OnAnalyzerMode(s)

(***************************************************************************)
(* handleRequest().  A text that is not JSON is answered with the msg_id   *)
(* -1, and that answer is made outside the try block; so is msgId() called *)
(* inside it, but what it throws is no RequestError: both escape.          *)
(***************************************************************************)
Escapes(m) == m.kind \in {"anonymous", "unquotable"}

HandleRequest(m, s) ==
  IF m.kind = "request"
  THEN {[id |-> m.id, outcome |-> o] : o \in OnRequest(m.request, s)}
  ELSE {[id |-> NoId, outcome |-> Refused(s)]}

===============================================================================
