------------------------------ MODULE Application ------------------------------
(***************************************************************************)
(* The life of the process: the construction of Application, setMode()     *)
(* called by the control server's worker thread, the threads of the        *)
(* Analyzer objects it creates and deletes, run() and its interruption     *)
(* (module Interrupt), and the destruction of the members.                 *)
(*                                                                         *)
(* Nothing protects m_analyzer.  The worker reads and writes it from the   *)
(* moment the control server is constructed, which is before the main      *)
(* thread initialises it, until the control server is destroyed, which is  *)
(* after the main thread has destroyed it.  What those accesses do is      *)
(* undefined; here they do what the generated loads and stores do in some  *)
(* order, memory that was never written holds null or garbage, and         *)
(* deleting or joining an object twice ends the process.                   *)
(*                                                                         *)
(* The main thread's steps outside the module Interrupt:                   *)
(*   load, devices, server, pointer                                        *)
(*                              the members are constructed in this order  *)
(*   check                      the body of the constructor                *)
(*   destroy_analyzer, join_analyzer, stop_server, join_server,            *)
(*   free_devices, leave        the members are destroyed                  *)
(*   exited, failed             the process has ended                      *)
(***************************************************************************)
EXTENDS Interrupt, Configuration

CONSTANT Files    (* the configuration files the process may be given        *)

(* The devices of a file are a list.                                        *)
ASSUME ApplicationAssumption ==
  \A file \in Files : "devices" \in DOMAIN file =>
    /\ Len(file.devices) \in Nat
    /\ DOMAIN file.devices = 1 .. Len(file.devices)

VARIABLES
  config,    (* m_configuration                                            *)
  pointer,   (* m_analyzer: "uninit", "null" or an Analyzer                *)
  object,    (* each Analyzer object: none, live, or deleting              *)
  stop,      (* its m_interrupted                                          *)
  thread,    (* its thread: none, head, capture, device, exited            *)
  left,      (* the devices its submitChannels() has still to write        *)
  worker,    (* the control server's thread: none, idle, assign, join,     *)
             (* clear, exited                                              *)
  target,    (* the mode setMode() is switching to                         *)
  fresh,     (* the Analyzer it has created and not yet stored             *)
  old,       (* the Analyzer it is deleting                                *)
  crashed,   (* undefined behaviour has ended the process                  *)
  raced      (* the phases in which the worker used m_analyzer before its  *)
             (* construction or after its destruction had begun            *)

analyzerVars == <<object, stop, thread, left>>
workerVars == <<worker, target, fresh, old, raced>>
vars == <<runVars, config, pointer, analyzerVars, workerVars, crashed>>

Destroying == {"join_analyzer", "stop_server", "join_server", "free_devices", "leave"}

(* Mutant of IoStopped: ~ControlServer() does not stop the io_context.      *)
IoStoppedNever == FALSE

IoStopped == main \in {"join_server", "free_devices", "leave"}

DevicesAlive == main # "leave"

Running == ~ crashed /\ main \notin {"exited", "failed"}

Threads == {a \in Analyzer : thread[a] \in {"head", "capture", "device"}}

Unloaded == [devices |-> <<>>, control |-> FALSE, analyzer |-> FALSE]

Init ==
  /\ RunInit
  /\ main = "load"
  /\ config = Unloaded
  /\ pointer = "uninit"
  /\ object = [a \in Analyzer |-> "none"]
  /\ stop = [a \in Analyzer |-> FALSE]
  /\ thread = [a \in Analyzer |-> "none"]
  /\ left = [a \in Analyzer |-> 0]
  /\ worker = "none"
  /\ target = "control"
  /\ fresh = "null"
  /\ old = "null"
  /\ crashed = FALSE
  /\ raced = {}

-------------------------------------------------------------------------------
(* Mutant of Delete: the destructor joins without setting m_interrupted.    *)
DeleteWithoutStop(p) ==
  IF object[p] = "live"
  THEN object' = [object EXCEPT ![p] = "deleting"] /\ UNCHANGED <<stop, crashed>>
  ELSE crashed' = TRUE /\ UNCHANGED <<object, stop>>

(***************************************************************************)
(* delete p, the first half of ~Analyzer(): the thread is told to stop and *)
(* the caller goes on to join it.  An object that is already being deleted *)
(* or is gone ends the process.                                            *)
(***************************************************************************)
Delete(p) ==
  IF object[p] = "live"
  THEN /\ object' = [object EXCEPT ![p] = "deleting"]
       /\ stop' = [stop EXCEPT ![p] = TRUE]
       /\ UNCHANGED crashed
  ELSE crashed' = TRUE /\ UNCHANGED <<object, stop>>

(* Mutant of Joined: the thread is detached.                                *)
JoinedDetached(p) ==
  /\ object' = [object EXCEPT ![p] = "none"]
  /\ UNCHANGED <<thread, stop, left>>

(* The second half: join() returns, the object's memory is free again.      *)
Joined(p) ==
  /\ thread[p] = "exited"
  /\ thread' = [thread EXCEPT ![p] = "none"]
  /\ object' = [object EXCEPT ![p] = "none"]
  /\ stop' = [stop EXCEPT ![p] = FALSE]
  /\ UNCHANGED left

-------------------------------------------------------------------------------
(* The main thread takes a step of its own: it is not in a signal handler.  *)
MainRuns == Running /\ handler["main"] = "none"

MainGoes(from, to) ==
  /\ MainRuns
  /\ main = from
  /\ main' = to
  /\ UNCHANGED <<mutex, interrupted, gapp, handler, signals, config>>

(* An exception leaves main() and so ends the process.                      *)
LoadConfiguration ==
  /\ MainRuns
  /\ main = "load"
  /\ \E file \in Files :
       \/ FileReadable(file) /\ main' = "devices" /\ config' = Configured(file)
       \/ ~ FileReadable(file) /\ main' = "failed" /\ UNCHANGED config
  /\ UNCHANGED <<mutex, interrupted, gapp, handler, signals>>
  /\ UNCHANGED <<pointer, analyzerVars, workerVars, crashed>>

(* createDevices() opens the ports and clears the LEDs; it may throw, and   *)
(* does so for a DotStar without channels.                                  *)
CreateDevices ==
  /\ \/ /\ \A d \in {config.devices[i] : i \in DOMAIN config.devices} :
             d.type = "dotstar" => d.channels > 0
        /\ MainGoes("devices", "server")
     \/ MainGoes("devices", "failed")
  /\ UNCHANGED <<pointer, analyzerVars, workerVars, crashed>>

(* The control server binds its port, which may throw, and starts its       *)
(* worker thread at once.                                                   *)
CreateServer ==
  /\ \/ MainGoes("server", "pointer") /\ worker' = IF config.control THEN "idle" ELSE "none"
     \/ config.control /\ MainGoes("server", "failed") /\ UNCHANGED worker
  /\ UNCHANGED <<pointer, analyzerVars, target, fresh, old, raced, crashed>>

(* m_analyzer is the last member: it is initialised to null only now.       *)
CreatePointer ==
  /\ MainGoes("pointer", "check")
  /\ pointer' = "null"
  /\ UNCHANGED <<analyzerVars, workerVars, crashed>>

(* "Either analyzer or control has to be configured"                        *)
CheckMembers ==
  /\ MainGoes("check", IF pointer = "null" /\ ~ config.control THEN "failed" ELSE "install")
  /\ UNCHANGED <<pointer, analyzerVars, workerVars, crashed>>

MainInRun ==
  /\ MainRuns
  /\ RunProgress
  /\ UNCHANGED <<config, pointer, analyzerVars, workerVars, crashed>>

Wake ==
  /\ MainRuns
  /\ SpuriousWakeup
  /\ UNCHANGED <<config, pointer, analyzerVars, workerVars, crashed>>

(* ~unique_ptr<Analyzer>: read the pointer, delete the object, and only     *)
(* then store null, a store the compiler may drop.                          *)
DestroyAnalyzer ==
  /\ IF pointer = "null"
     THEN MainGoes("destroy_analyzer", "stop_server") /\ UNCHANGED <<analyzerVars, crashed>>
     ELSE /\ MainGoes("destroy_analyzer", "join_analyzer")
          /\ Delete(pointer)
          /\ UNCHANGED <<thread, left>>
  /\ UNCHANGED <<pointer, workerVars>>

JoinAnalyzer ==
  /\ MainGoes("join_analyzer", "stop_server")
  /\ Joined(pointer)
  /\ pointer' \in {pointer, "null"}
  /\ UNCHANGED <<workerVars, crashed>>

StopServer ==
  /\ MainGoes("stop_server", "join_server")
  /\ UNCHANGED <<pointer, analyzerVars, workerVars, crashed>>

(* Mutant of JoinServer: the worker is not joined.                          *)
JoinServerForgotten ==
  /\ MainGoes("join_server", "free_devices")
  /\ UNCHANGED <<pointer, analyzerVars, workerVars, crashed>>

JoinServer ==
  /\ worker = "exited"
  /\ MainGoes("join_server", "free_devices")
  /\ UNCHANGED <<pointer, analyzerVars, workerVars, crashed>>

FreeDevices ==
  /\ MainGoes("free_devices", "leave")
  /\ UNCHANGED <<pointer, analyzerVars, workerVars, crashed>>

(* main() returns: whatever threads are left end with the process.          *)
Exit ==
  /\ MainGoes("leave", "exited")
  /\ UNCHANGED <<pointer, analyzerVars, workerVars, crashed>>

MainProgress ==
  \/ LoadConfiguration \/ CreateDevices \/ CreateServer \/ CreatePointer \/ CheckMembers
  \/ MainInRun
  \/ DestroyAnalyzer \/ JoinAnalyzer \/ StopServer \/ JoinServer
  \/ FreeDevices \/ Exit

-------------------------------------------------------------------------------
WorkerRuns == Running /\ handler["worker"] = "none"

Touch ==
  raced' = raced \cup (IF main = "pointer" THEN {"startup"}
                       ELSE IF main \in Destroying THEN {"shutdown"} ELSE {})

(***************************************************************************)
(* unique_ptr::reset() and move assignment: the pointer takes its new      *)
(* value, then the object it pointed to is deleted.                        *)
(***************************************************************************)
Replace(new, next) ==
  /\ Touch
  /\ pointer' = new
  /\ \/ pointer \in {"null", "uninit"} /\ worker' = next
        /\ UNCHANGED <<old, object, stop, crashed>>
     \/ pointer = "uninit" /\ crashed' = TRUE
        /\ UNCHANGED <<worker, old, object, stop>>
     \/ pointer \in Analyzer /\ worker' = "join" /\ old' = pointer
        /\ Delete(pointer)
  /\ UNCHANGED <<runVars, config, thread, left>>

(* Mutant of SetModeControl: clear() is called before the analyzer is gone. *)
SetModeControlClearsFirst ==
  /\ WorkerRuns
  /\ worker = "idle"
  /\ ~ IoStopped
  /\ worker' = "clear"
  /\ UNCHANGED <<runVars, config, pointer, analyzerVars, target, fresh, old, raced, crashed>>

SetModeControl ==
  /\ WorkerRuns
  /\ worker = "idle"
  /\ ~ IoStopped
  /\ target' = "control"
  /\ Replace("null", "clear")
  /\ UNCHANGED fresh

(* setMode(Analyzer) throws when no analyzer is configured, or when         *)
(* createAnalyzer() fails to open the capture device, and has changed       *)
(* nothing.  Otherwise the new Analyzer and its thread exist before the old *)
(* ones are gone.                                                           *)
SetModeAnalyzer ==
  /\ WorkerRuns
  /\ worker = "idle"
  /\ ~ IoStopped
  /\ config.analyzer
  /\ target' = "analyzer"
  /\ worker' = "assign"
  /\ \E a \in Analyzer :
       /\ object[a] = "none"
       /\ object' = [object EXCEPT ![a] = "live"]
       /\ thread' = [thread EXCEPT ![a] = "head"]
       /\ fresh' = a
  /\ UNCHANGED <<runVars, config, pointer, stop, left, old, raced, crashed>>

(* Mutant of Assign: release() before the assignment leaks the old one.     *)
AssignLeaks ==
  /\ WorkerRuns
  /\ worker = "assign"
  /\ pointer' = fresh
  /\ worker' = "idle"
  /\ fresh' = "null"
  /\ UNCHANGED <<runVars, config, analyzerVars, target, old, raced, crashed>>

Assign ==
  /\ WorkerRuns
  /\ worker = "assign"
  /\ Replace(fresh, "idle")
  /\ fresh' = "null"
  /\ UNCHANGED target

JoinOld ==
  /\ WorkerRuns
  /\ worker = "join"
  /\ Joined(old)
  /\ old' = "null"
  /\ worker' = IF target = "control" THEN "clear" ELSE "idle"
  /\ UNCHANGED <<runVars, config, pointer, target, fresh, raced, crashed>>

(* m_devices->clear() returns or throws; the module Devices has its steps.  *)
Clear ==
  /\ WorkerRuns
  /\ worker = "clear"
  /\ worker' = "idle"
  /\ UNCHANGED <<runVars, config, pointer, analyzerVars, target, fresh, old, raced, crashed>>

(* The io_context is stopped, or an exception left one of its handlers.     *)
ExitWorker ==
  /\ WorkerRuns
  /\ worker = "idle"
  /\ worker' = "exited"
  /\ UNCHANGED <<runVars, config, pointer, analyzerVars, target, fresh, old, raced, crashed>>

WorkerProgress ==
  Assign \/ JoinOld \/ Clear \/ (IoStopped /\ ExitWorker)

-------------------------------------------------------------------------------
AnalyzerRuns(a) ==
  /\ Running
  /\ handler[a] = "none"
  /\ UNCHANGED <<runVars, config, pointer, object, stop, workerVars>>

(* run()'s loop condition.                                                  *)
Loop(a) ==
  /\ AnalyzerRuns(a)
  /\ thread[a] = "head"
  /\ thread' = [thread EXCEPT ![a] = IF stop[a] THEN "exited" ELSE "capture"]
  /\ UNCHANGED <<left, crashed>>

(* Mutant of Capture: submitChannels() loops one device too far.            *)
CaptureTooMany(a) ==
  /\ AnalyzerRuns(a)
  /\ thread[a] = "capture"
  /\ thread' = [thread EXCEPT ![a] = "device"]
  /\ left' = [left EXCEPT ![a] = Len(config.devices) + 1]
  /\ UNCHANGED crashed

(* capture() and handleChannels(): either may throw, and run() catches it.  *)
(* Without devices there is nothing to submit.                              *)
Capture(a) ==
  /\ AnalyzerRuns(a)
  /\ thread[a] = "capture"
  /\ \/ thread' = [thread EXCEPT ![a] = "head"] /\ UNCHANGED left
     \/ /\ Len(config.devices) > 0
        /\ thread' = [thread EXCEPT ![a] = "device"]
        /\ left' = [left EXCEPT ![a] = Len(config.devices)]
  /\ UNCHANGED crashed

(* A setChannels() of submitChannels() returns, or throws and ends the      *)
(* frame.  On devices that are gone it may also end the process.            *)
Submit(a) ==
  /\ AnalyzerRuns(a)
  /\ thread[a] = "device"
  /\ \/ left' = [left EXCEPT ![a] = @ - 1]
     \/ left' = [left EXCEPT ![a] = 0]
  /\ thread' = [thread EXCEPT ![a] = IF left'[a] = 0 THEN "head" ELSE "device"]
  /\ crashed' \in {FALSE, ~ DevicesAlive}

AnalyzerProgress(a) == Loop(a) \/ Capture(a) \/ Submit(a)

-------------------------------------------------------------------------------
HasThread(t) ==
  \/ t = "main"
  \/ t = "worker" /\ worker \notin {"none", "exited"}
  \/ t \in Threads

Interrupted(t) ==
  /\ Running
  /\ HasThread(t)
  /\ Signal(t)
  /\ UNCHANGED <<config, pointer, analyzerVars, workerVars, crashed>>

Handle(t) ==
  /\ Running
  /\ \/ HandlerProgress(t) /\ UNCHANGED crashed
     \/ NullPointer(t) /\ crashed' = TRUE /\ UNCHANGED runVars
  /\ UNCHANGED <<config, pointer, analyzerVars, workerVars>>

(* The process has ended, or its main thread waits for itself.              *)
Over ==
  /\ ~ Running \/ SelfDeadlock
  /\ UNCHANGED vars

Next ==
  \/ MainProgress \/ Wake
  \/ SetModeControl \/ SetModeAnalyzer \/ ExitWorker \/ WorkerProgress
  \/ \E a \in Analyzer : AnalyzerProgress(a)
  \/ \E t \in Thread : Interrupted(t) \/ Handle(t)
  \/ Over

(* Every thread that can take a step is scheduled again and again.  A call  *)
(* of the device manager returns (module Devices), capture() returns.  A    *)
(* handler that finds m_mutex free again and again gets it in the end,      *)
(* however often run() takes it after spurious wakeups.                     *)
Fairness ==
  /\ WF_vars(MainProgress)
  /\ WF_vars(WorkerProgress)
  /\ \A a \in Analyzer : WF_vars(AnalyzerProgress(a))
  /\ \A t \in Thread : SF_vars(Handle(t))

Spec == Init /\ [][Next]_vars /\ Fairness

-------------------------------------------------------------------------------
(* Every variable has its type: an analyzer never has more devices left to  *)
(* write than there are, whatever the configuration and the failures.       *)
TypeOK ==
  /\ main \in InRun \cup Destroying \cup
       {"load", "devices", "server", "pointer", "check", "install", "uninstall",
        "destroy_analyzer", "exited", "failed"}
  /\ mutex \in Thread \cup {"none"}
  /\ interrupted \in BOOLEAN /\ gapp \in BOOLEAN /\ crashed \in BOOLEAN
  /\ handler \in [Thread -> {"none", "use", "lock", "set", "notify"}]
  /\ signals \in 0 .. MaxSignals
  /\ config \in {Unloaded} \cup {Configured(f) : f \in {g \in Files : FileReadable(g)}}
  /\ pointer \in Analyzer \cup {"uninit", "null"}
  /\ object \in [Analyzer -> {"none", "live", "deleting"}]
  /\ stop \in [Analyzer -> BOOLEAN]
  /\ thread \in [Analyzer -> {"none", "head", "capture", "device", "exited"}]
  /\ left \in [Analyzer -> 0 .. Len(config.devices)]
  /\ worker \in {"none", "idle", "assign", "join", "clear", "exited"}
  /\ target \in {"control", "analyzer"}
  /\ fresh \in Analyzer \cup {"null"}
  /\ old \in Analyzer \cup {"null"}
  /\ raced \subseteq {"startup", "shutdown"}

(* What get_mode answers.                                                   *)
GetMode == IF pointer = "null" THEN "control" ELSE "analyzer"

(* mode.hpp: in Control mode clients own the LEDs, in Analyzer mode the     *)
(* analyzer does.  Between two requests of an application that is up, no    *)
(* analyzer thread is left from an earlier mode: in Control mode none runs, *)
(* in Analyzer mode exactly the current one, and nobody has stopped it.     *)
ModeIsTrue ==
  worker = "idle" /\ raced = {} /\ main \in InRun \cup {"check", "install"} =>
    /\ Threads = IF GetMode = "control" THEN {} ELSE {pointer}
    /\ \A a \in Threads : ~ stop[a]

(* Devices::clear() takes no lock.  While setMode(Control) calls it, no     *)
(* analyzer thread runs, so no other thread is in the device manager: the   *)
(* assumption ClearAlone of the module Devices.                             *)
ClearRunsAlone ==
  worker = "clear" /\ raced = {} => Threads = {}

(* A running analyzer thread uses memory that exists: its own object has    *)
(* not been freed, neither have the devices, and somebody still owns it who *)
(* will stop it.                                                            *)
AnalyzersAreOwned ==
  raced = {} =>
    \A a \in Threads :
      /\ object[a] # "none"
      /\ DevicesAlive
      /\ a \in {pointer, fresh, old}

(* A handler that has tested G_APP goes on with the pointer it read, and    *)
(* then uses m_mutex and the condition variable: the application outlives   *)
(* it, although main() may have reset G_APP at any moment since the test.   *)
(* (That the pointer is not read again is another matter: OneSignalIsSafe.) *)
HandlersHaveApplication ==
  raced = {} /\ main \in {"leave", "exited"} =>
    \A t \in Thread : handler[t] = "none"

(* An application that uses m_analyzer only while it is there crashes only  *)
(* in the handler of a second SIGINT, which tested G_APP before main()      *)
(* reset it and read it again after that.  The handler of a single SIGINT   *)
(* has used the pointer before run() can return.                            *)
OneSignalIsSafe == raced = {} /\ crashed => signals > 1

(* No interrupt is lost between run()'s test and its wait: once the flag is *)
(* set, run() returns.                                                      *)
InterruptLeavesRun ==
  interrupted ~> main \notin InRun \/ SelfDeadlock \/ crashed

(* The destructors finish: threads told to stop do stop, no join waits for  *)
(* ever, and the process ends.                                              *)
ShutdownCompletes ==
  main = "destroy_analyzer" ~> main = "exited" \/ crashed

(* set_mode comes back: the analyzer thread it joins sees its flag whatever *)
(* it is doing, and the worker serves the next request.                     *)
SetModeReturns ==
  worker \in {"assign", "join", "clear"} ~>
    worker = "idle" \/ ~ Running \/ SelfDeadlock

(* application.hpp:37: interrupt() "can be called from a signal handler".   *)
(* The handler never waits for a mutex that its own thread holds.           *)
NoSelfDeadlock == ~ SelfDeadlock

(* application.hpp:37: interrupt() causes the application to exit.  An      *)
(* application that started undisturbed does not crash when it shuts down.  *)
CleanExit == crashed => "startup" \in raced

===============================================================================
