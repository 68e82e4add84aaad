--------------------------------- MODULE Daemon ---------------------------------
(***************************************************************************)
(* The process as a whole: the threads of the module Application inside    *)
(* the device manager of the module Devices.  Application takes a call of  *)
(* the manager for one step; here it is entered by one step, makes the     *)
(* steps of Devices, which those of all other threads interleave with, and *)
(* its return is the step that Application has for it.  Devices leaves     *)
(* open who calls what; here                                               *)
(*   - the control server's thread makes any call but clear() between two  *)
(*     set_mode requests, and calls clear() inside setMode(Control),       *)
(*   - an analyzer thread calls setChannels() for one device after the     *)
(*     other.                                                              *)
(* A signal handler stops its thread in the middle of such a call, and the *)
(* end of the process stops all.                                           *)
(***************************************************************************)
EXTENDS Application, AtmoDevice

CONSTANTS
  Installed,     (* the section devices of the file, as it was read        *)
  MAX_RETRIES,
  Requests,      (* the calls made for clients' requests                   *)
  Frames         (* the calls made to submit frames                        *)

DeviceCount == Len(Installed)

(* The devices' constructors: the serial ones have a fixed number of        *)
(* channels.                                                                *)
ChannelCount(device) ==
  CASE device.type = "atmolight"   -> 4
    [] device.type = "karatelight" -> 16
    [] device.type = "dotstar"     -> device.channels

NumChannels == [d \in 0 .. DeviceCount - 1 |-> ChannelCount(Installed[d + 1])]

ResetOnError == [d \in 0 .. DeviceCount - 1 |-> Installed[d + 1].reset_on_error]

DotStar == {d \in 0 .. DeviceCount - 1 : Installed[d + 1].type = "dotstar"}

ClearCall == [NoCall EXCEPT !.op = "clear"]

Calls == Requests \cup Frames \cup {ClearCall}

(* The threads that know the device manager.                                *)
Caller == {"worker"} \cup Analyzer

(* A DotStar without channels is refused before anything can be called.     *)
ASSUME DaemonAssumption ==
  /\ \A file \in Files : FileReadable(file) => Configured(file).devices = Installed
  /\ Installed \in Seq([type : {"atmolight", "karatelight", "dotstar"},
                        channels : Nat, reset_on_error : BOOLEAN])
  /\ \A d \in DOMAIN Installed : ChannelCount(Installed[d]) > 0
  /\ MAX_RETRIES \in Nat
  /\ Requests \subseteq {c \in AtmoCall : c.op # "clear"}
  /\ Frames \subseteq {c \in AtmoCall : c.op = "setChannels"}

VARIABLES
  lock,       (* the thread that holds the manager's m_mutex, or "none"    *)
  pc, call, at, retry, answer, channels, shown

managerVars == <<lock, pc, call, at, retry, answer, channels, shown>>
daemonVars == <<vars, managerVars>>

(* Nothing in the manager keeps clear() apart from the other calls.         *)
Manager == INSTANCE Devices
  WITH Client <- Caller, NoClient <- "none", NumDevices <- DeviceCount,
       ClearAlone <- FALSE, mutex <- lock

DaemonInit == Init /\ Manager!Init

-------------------------------------------------------------------------------
(* Entering the manager.                                                    *)

(* Between two set_mode requests: a request that reads or sets channels.    *)
Serve ==
  /\ WorkerRuns
  /\ worker = "idle"
  /\ ~ IoStopped
  /\ \E c \in Requests : Manager!Invoke("worker", c)
  /\ UNCHANGED vars

(* setMode(Control) has got rid of the analyzer.                            *)
CallClear ==
  /\ WorkerRuns
  /\ worker = "clear"
  /\ Manager!Invoke("worker", ClearCall)
  /\ UNCHANGED vars

(* The loop of submitChannels(): left[a] devices are still to be written.   *)
CallSetChannels(a) ==
  /\ Running
  /\ handler[a] = "none"
  /\ thread[a] = "device"
  /\ \E c \in Frames :
       /\ c.device = Len(config.devices) - left[a]
       /\ Manager!Invoke(a, c)
  /\ UNCHANGED vars

(* Inside: a step of the manager that is not the last one of a call.        *)
Works(t) ==
  /\ Running
  /\ handler[t] = "none"
  /\ pc[t] \notin {"return", "throw"}
  /\ Manager!Progress(t)
  /\ UNCHANGED vars

(* The call returns to a handler of the control server, or to setMode().    *)
WorkerReturns ==
  /\ WorkerRuns
  /\ Manager!Leave("worker")
  /\ \/ worker = "idle" /\ UNCHANGED vars
     \/ Clear

(* The call returns to submitChannels(); an exception ends the frame.       *)
AnalyzerReturns(a) ==
  /\ Manager!Leave(a)
  /\ Submit(a)
  /\ left'[a] = IF pc[a] = "return" THEN left[a] - 1 ELSE 0
  /\ UNCHANGED crashed

(* The manager is gone while the thread is inside.                          *)
Perish(a) ==
  /\ pc[a] # "idle"
  /\ Submit(a)
  /\ crashed'
  /\ UNCHANGED managerVars

InManager ==
  \/ \E t \in Caller : Works(t)
  \/ WorkerReturns
  \/ \E a \in Analyzer : AnalyzerReturns(a)

-------------------------------------------------------------------------------
(***************************************************************************)
(* Everything else is done by the threads while they are not in a call of  *)
(* the manager.  The worker handles one request after the other: the mode  *)
(* is not changed and the io_context not left in the middle of a call.     *)
(***************************************************************************)
MainSteps == MainProgress /\ UNCHANGED managerVars

WorkerSteps ==
  /\ pc["worker"] = "idle"
  /\ SetModeControl \/ SetModeAnalyzer \/ Assign \/ JoinOld \/ ExitWorker
  /\ UNCHANGED managerVars

AnalyzerSteps(a) == (Loop(a) \/ Capture(a)) /\ UNCHANGED managerVars

Handles(t) == Handle(t) /\ UNCHANGED managerVars

DaemonNext ==
  \/ MainSteps \/ WorkerSteps \/ Serve \/ CallClear
  \/ \E a \in Analyzer : AnalyzerSteps(a) \/ CallSetChannels(a) \/ Perish(a)
  \/ InManager
  \/ \E t \in Thread : Handles(t) \/ (Interrupted(t) /\ UNCHANGED managerVars)
  \/ (Wake \/ Over) /\ UNCHANGED managerVars

DaemonSpec == DaemonInit /\ [][DaemonNext]_daemonVars

-------------------------------------------------------------------------------
(* Every variable of the manager has its type, and a thread of a process    *)
(* that has not crashed is in the manager only where its own code calls it. *)
DaemonTypeOK ==
  /\ Manager!TypeOK
  /\ pc["worker"] # "idle" =>
       worker = IF call["worker"].op = "clear" THEN "clear" ELSE "idle"
  /\ \A a \in Analyzer :
       pc[a] # "idle" =>
         /\ call[a].op = "setChannels"
         /\ crashed \/ thread[a] = "device"

(* devices.hpp:51: "All methods of this class are thread-safe".  clear() is *)
(* not, but the application calls it only when its analyzer is gone, so no  *)
(* two of its threads are ever inside the methods of one device.            *)
ManagerIsThreadSafe == raced = {} => Manager!NoDataRace

(* A request that succeeds is on the LEDs when it is answered, and after    *)
(* set_mode control all of them are dark: no late frame of the analyzer     *)
(* that was replaced or deleted, and no retry, comes in between.            *)
WritesAreShown == raced = {} => Manager!SuccessIsShown

(* All the threads together see devices on which every call takes effect    *)
(* at one instant.                                                          *)
CallsAreAtomic ==
  [][raced' = {} => [Manager!Store!Next]_(Manager!Store!vars)]_daemonVars

(* mode.hpp: in Control mode the clients own the LEDs.  When setMode() has  *)
(* got rid of the analyzer, and as long as get_mode answers control after   *)
(* that, only the control server's thread changes a colour or sends one.    *)
ControlOwnsTheLeds ==
  [][raced' = {} /\ GetMode = "control" /\ worker \in {"clear", "idle"}
       /\ <<channels, shown>>' # <<channels, shown>>
       => pc'["worker"] # pc["worker"]]_daemonVars

===============================================================================
