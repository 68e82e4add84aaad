------------------------------ MODULE DaemonProofs ------------------------------
(***************************************************************************)
(* Proofs about the whole process, for any devices, requests and frames    *)
(* and any number of analyzers, retries and signals.  What DevicesProofs   *)
(* proves of a manager whose callers keep clear() apart (ClearAlone) is    *)
(* proved here of the manager that Application's threads really call.      *)
(***************************************************************************)
EXTENDS Daemon, ApplicationProofs

Free == INSTANCE DevicesProofs
  WITH Client <- Caller, NoClient <- "none", NumDevices <- DeviceCount,
       ClearAlone <- FALSE, mutex <- lock

Alone == INSTANCE DevicesProofs
  WITH Client <- Caller, NoClient <- "none", NumDevices <- DeviceCount,
       ClearAlone <- TRUE, mutex <- lock

-------------------------------------------------------------------------------
(***************************************************************************)
(* The instances.  The manager has what DevicesProofs assumes of its       *)
(* constants, and ClearAlone changes nothing but Admitted.                 *)
(***************************************************************************)
LEMMA SameData ==
  /\ Manager!AtmoCall = AtmoCall /\ Free!AtmoCall = AtmoCall /\ Alone!AtmoCall = AtmoCall
  /\ Manager!NoCall = NoCall /\ Free!NoCall = NoCall /\ Alone!NoCall = NoCall
  /\ Manager!Device = 0 .. DeviceCount - 1
  /\ Free!Device = 0 .. DeviceCount - 1 /\ Alone!Device = 0 .. DeviceCount - 1
<1>1. /\ Manager!AtmoCall = AtmoCall /\ Free!AtmoCall = AtmoCall /\ Alone!AtmoCall = AtmoCall
  BY DEF Manager!AtmoCall, Free!AtmoCall, Alone!AtmoCall, AtmoCall,
         Manager!Writing, Free!Writing, Alone!Writing, Writing
<1>2. Manager!NoCall = NoCall /\ Free!NoCall = NoCall /\ Alone!NoCall = NoCall
  BY DEF Manager!NoCall, Free!NoCall, Alone!NoCall, NoCall
<1> QED
  BY <1>1, <1>2 DEF Manager!Device, Free!Device, Alone!Device

LEMMA ClearCallType == ClearCall \in AtmoCall /\ ClearCall.op = "clear"
<1>1. ClearCall = [op |-> "clear", device |-> 0, channel |-> 0, colors |-> <<>>]
  BY DEF ClearCall, NoCall
<1>2. <<>> \in Seq(Color)
  OBVIOUS
<1> QED
  BY <1>1, <1>2 DEF AtmoCall, Writing

LEMMA Assumptions ==
  /\ "none" \notin Caller
  /\ DeviceCount \in Nat
  /\ NumChannels \in [0 .. DeviceCount - 1 -> Nat \ {0}]
  /\ ResetOnError \in [0 .. DeviceCount - 1 -> BOOLEAN]
  /\ DotStar \subseteq 0 .. DeviceCount - 1
  /\ MAX_RETRIES \in Nat
  /\ Calls \subseteq AtmoCall
<1>1. "none" \notin Caller
  BY InterruptAssumption DEF InterruptAssumption, Caller
<1> DEFINE Entry == [type : {"atmolight", "karatelight", "dotstar"},
                     channels : Nat, reset_on_error : BOOLEAN]
<1>2. Installed \in Seq(Entry)
  BY DaemonAssumption DEF DaemonAssumption
<1>3. DeviceCount \in Nat /\ DOMAIN Installed = 1 .. DeviceCount
  BY <1>2, LenProperties DEF DeviceCount
<1>4. ASSUME NEW d \in 0 .. DeviceCount - 1
      PROVE  /\ d + 1 \in DOMAIN Installed
             /\ Installed[d + 1].reset_on_error \in BOOLEAN
             /\ ChannelCount(Installed[d + 1]) \in Nat \ {0}
  <2>1. d + 1 \in DOMAIN Installed
    BY <1>3
  <2>2. PICK i \in DOMAIN Installed : i = d + 1
    BY <2>1
  <2>3. Installed[i] \in Entry
    <3> HIDE DEF Entry
    <3> QED
      BY <1>2, ElementOfSeq
  <2>4. ChannelCount(Installed[i]) > 0
    BY DaemonAssumption DEF DaemonAssumption
  <2>5. ChannelCount(Installed[i]) \in Nat
    <3>1. /\ Installed[i].type \in {"atmolight", "karatelight", "dotstar"}
          /\ Installed[i].channels \in Nat
      BY <2>3
    <3> QED
      BY <3>1 DEF ChannelCount
  <2>6. Installed[i].reset_on_error \in BOOLEAN
    BY <2>3
  <2>7. ChannelCount(Installed[i]) \in Nat \ {0}
    BY <2>4, <2>5
  <2> QED
    BY <2>1, <2>2, <2>6, <2>7
<1>5. NumChannels \in [0 .. DeviceCount - 1 -> Nat \ {0}]
  BY <1>4 DEF NumChannels
<1>6. ResetOnError \in [0 .. DeviceCount - 1 -> BOOLEAN]
  BY <1>4, Zenon DEF ResetOnError
<1>7. MAX_RETRIES \in Nat
  BY DaemonAssumption DEF DaemonAssumption
<1>8. Calls \subseteq AtmoCall
  BY DaemonAssumption, ClearCallType DEF DaemonAssumption, Calls
<1>9. DotStar \subseteq 0 .. DeviceCount - 1
  BY DEF DotStar
<1> QED
  BY <1>1, <1>3, <1>5, <1>6, <1>7, <1>8, <1>9

(* What ClearAlone has no part in is the same in the three instances.       *)
LEMMA SameRules ==
  \A c, n : /\ Manager!Rejects(c, n) <=> Free!Rejects(c, n)
            /\ Manager!Rejects(c, n) <=> Alone!Rejects(c, n)
  BY DEF Manager!Rejects, Free!Rejects, Alone!Rejects

LEMMA SameSteps ==
  ASSUME NEW t
  PROVE  /\ Manager!Progress(t) = Free!Progress(t)
         /\ Manager!Progress(t) = Alone!Progress(t)
<1>1. Manager!Lock(t) = Free!Lock(t) /\ Manager!Lock(t) = Alone!Lock(t)
  BY DEF Manager!Lock, Free!Lock, Alone!Lock, Manager!Device, Free!Device, Alone!Device
<1>2. Manager!Begin(t) = Free!Begin(t) /\ Manager!Begin(t) = Alone!Begin(t)
  BY DEF Manager!Begin, Free!Begin, Alone!Begin
<1>3. Manager!Reject(t) = Free!Reject(t) /\ Manager!Reject(t) = Alone!Reject(t)
  BY DEF Manager!Reject, Free!Reject, Alone!Reject, Manager!Caught, Free!Caught, Alone!Caught,
         Manager!Rejects, Free!Rejects, Alone!Rejects
<1>4. Manager!Get(t) = Free!Get(t) /\ Manager!Get(t) = Alone!Get(t)
  BY DEF Manager!Get, Free!Get, Alone!Get, Manager!Answer, Free!Answer, Alone!Answer,
         Manager!Rejects, Free!Rejects, Alone!Rejects,
         Manager!Writing, Free!Writing, Alone!Writing
<1>5. Manager!Set(t) = Free!Set(t) /\ Manager!Set(t) = Alone!Set(t)
  BY DEF Manager!Set, Free!Set, Alone!Set, Manager!Modified, Free!Modified, Alone!Modified,
         Manager!Assigns, Free!Assigns, Alone!Assigns,
         Manager!Assigned, Free!Assigned, Alone!Assigned,
         Manager!Rejects, Free!Rejects, Alone!Rejects,
         Manager!Writing, Free!Writing, Alone!Writing
<1>6. Manager!Update(t) = Free!Update(t) /\ Manager!Update(t) = Alone!Update(t)
  BY DEF Manager!Update, Free!Update, Alone!Update, Manager!Done, Free!Done, Alone!Done,
         Manager!Device, Free!Device, Alone!Device
<1>7. Manager!UpdateFails(t) = Free!UpdateFails(t) /\ Manager!UpdateFails(t) = Alone!UpdateFails(t)
  BY DEF Manager!UpdateFails, Free!UpdateFails, Alone!UpdateFails,
         Manager!Caught, Free!Caught, Alone!Caught
<1>8. Manager!Reset(t) = Free!Reset(t) /\ Manager!Reset(t) = Alone!Reset(t)
  BY DEF Manager!Reset, Free!Reset, Alone!Reset
<1>9. Manager!Leave(t) = Free!Leave(t) /\ Manager!Leave(t) = Alone!Leave(t)
  BY DEF Manager!Leave, Free!Leave, Alone!Leave, Manager!NoCall, Free!NoCall, Alone!NoCall,
         Manager!NoAnswer, Free!NoAnswer, Alone!NoAnswer
<1> QED
  BY <1>1, <1>2, <1>3, <1>4, <1>5, <1>6, <1>7, <1>8, <1>9
     DEF Manager!Progress, Free!Progress, Alone!Progress

LEMMA SameInvocations ==
  ASSUME NEW t, NEW c
  PROVE  /\ Manager!Invoke(t, c) => Free!Invoke(t, c)
         /\ Manager!Invoke(t, c) /\ Alone!Admitted(t, c) => Alone!Invoke(t, c)
<1>1. Free!Admitted(t, c)
  BY DEF Free!Admitted
<1> QED
  BY <1>1 DEF Manager!Invoke, Free!Invoke, Alone!Invoke

LEMMA SameInit == Manager!Init => Free!Init /\ Alone!Init
<1>1. \A d : Manager!InitiallyShown(d) = Free!InitiallyShown(d)
  BY DEF Manager!InitiallyShown, Free!InitiallyShown, Manager!Vector, Free!Vector,
         Manager!Dark, Free!Dark, Manager!Channel, Free!Channel
<1>2. \A d : Manager!InitiallyShown(d) = Alone!InitiallyShown(d)
  BY DEF Manager!InitiallyShown, Alone!InitiallyShown, Manager!Vector, Alone!Vector,
         Manager!Dark, Alone!Dark, Manager!Channel, Alone!Channel
<1>3. Manager!AnyVector = Free!AnyVector /\ Manager!AnyVector = Alone!AnyVector
  BY DEF Manager!AnyVector, Free!AnyVector, Alone!AnyVector,
         Manager!Device, Free!Device, Alone!Device, Manager!Vector, Free!Vector, Alone!Vector,
         Manager!Channel, Free!Channel, Alone!Channel
<1>4. \A n : Manager!Dark(n) = Free!Dark(n) /\ Manager!Dark(n) = Alone!Dark(n)
  BY DEF Manager!Dark, Free!Dark, Alone!Dark, Manager!Channel, Free!Channel, Alone!Channel
<1> QED
  BY <1>1, <1>2, <1>3, <1>4, SameData
     DEF Manager!Init, Free!Init, Alone!Init, Manager!NoAnswer, Free!NoAnswer, Alone!NoAnswer

-------------------------------------------------------------------------------
(* The theorems of DevicesProofs, with the constants' assumptions met.      *)
LEMMA FreeStep == Free!TypeInv /\ [Free!Next]_(Free!vars) => Free!TypeInv'
  BY Free!TypeStep, Assumptions, SameData, BlackIsAColor

LEMMA FreeInit == Free!Init => Free!TypeInv
  BY Free!TypeInit, Assumptions, SameData, BlackIsAColor

LEMMA AloneStep == Alone!EffectInv /\ [Alone!Next]_(Alone!vars) => Alone!EffectInv'
  BY Alone!EffectStep, Assumptions, SameData, BlackIsAColor

LEMMA AloneInit == Alone!Init => Alone!EffectInv
  BY Alone!EffectInit, Assumptions, SameData, BlackIsAColor

LEMMA AloneStore ==
  Alone!EffectInv /\ [Alone!Next]_(Alone!vars) => [Alone!Store!Next]_(Alone!Store!vars)
  BY Alone!StoreStep, Assumptions, SameData, BlackIsAColor

-------------------------------------------------------------------------------
(***************************************************************************)
(* The two components in a step of the process.                            *)
(***************************************************************************)

(* The process does what Application does.                                  *)
LEMMA ApplicationStep == [DaemonNext]_daemonVars => [Next]_vars
<1> SUFFICES ASSUME [DaemonNext]_daemonVars PROVE [Next]_vars
  OBVIOUS
<1>1. CASE UNCHANGED daemonVars
  BY <1>1 DEF daemonVars
<1>2. CASE MainSteps
  BY <1>2 DEF MainSteps, Next
<1>3. CASE WorkerSteps
  BY <1>3 DEF WorkerSteps, WorkerProgress, Next
<1>4. CASE Serve \/ CallClear \/ \E t \in Caller : Works(t)
  BY <1>4 DEF Serve, CallClear, Works
<1>5. CASE \E a \in Analyzer : AnalyzerSteps(a) \/ CallSetChannels(a) \/ Perish(a)
  BY <1>5 DEF AnalyzerSteps, CallSetChannels, Perish, AnalyzerProgress, Next
<1>6. CASE WorkerReturns
  BY <1>6 DEF WorkerReturns, WorkerProgress, Next
<1>7. CASE \E a \in Analyzer : AnalyzerReturns(a)
  BY <1>7 DEF AnalyzerReturns, AnalyzerProgress, Next
<1>8. CASE \E t \in Thread : Handles(t) \/ (Interrupted(t) /\ UNCHANGED managerVars)
  BY <1>8 DEF Handles, Next
<1>9. CASE (Wake \/ Over) /\ UNCHANGED managerVars
  BY <1>9 DEF Next
<1> QED
  BY <1>1, <1>2, <1>3, <1>4, <1>5, <1>6, <1>7, <1>8, <1>9 DEF DaemonNext, InManager

(* A step of the process enters the manager, or makes a step inside it, or  *)
(* leaves it alone.                                                         *)
Enters(t, c) == Running /\ UNCHANGED vars /\ Manager!Invoke(t, c)

LEMMA ManagerStep ==
  ASSUME [DaemonNext]_daemonVars
  PROVE  \/ worker = "idle" /\ \E c \in Requests : Enters("worker", c)
         \/ worker = "clear" /\ Enters("worker", ClearCall)
         \/ \E a \in Analyzer : thread[a] = "device" /\ \E c \in Frames : Enters(a, c)
         \/ \E t \in Caller : Works(t)
         \/ WorkerReturns
         \/ \E a \in Analyzer : AnalyzerReturns(a)
         \/ UNCHANGED managerVars
<1>1. CASE Serve
  BY <1>1 DEF Serve, WorkerRuns, Enters
<1>2. CASE CallClear
  BY <1>2 DEF CallClear, WorkerRuns, Enters
<1>3. ASSUME NEW a \in Analyzer, CallSetChannels(a)
      PROVE  thread[a] = "device" /\ \E c \in Frames : Enters(a, c)
  BY <1>3 DEF CallSetChannels, Enters
<1>4. CASE UNCHANGED daemonVars
  BY <1>4 DEF daemonVars
<1>5. CASE \/ MainSteps \/ WorkerSteps
           \/ \E a \in Analyzer : AnalyzerSteps(a) \/ Perish(a)
           \/ \E t \in Thread : Handles(t) \/ (Interrupted(t) /\ UNCHANGED managerVars)
           \/ (Wake \/ Over) /\ UNCHANGED managerVars
  BY <1>5 DEF MainSteps, WorkerSteps, AnalyzerSteps, Perish, Handles
<1> QED
  BY <1>1, <1>2, <1>3, <1>4, <1>5 DEF DaemonNext, InManager

LEMMA FreeTakesIt == [DaemonNext]_daemonVars => [Free!Next]_(Free!vars)
<1> SUFFICES ASSUME [DaemonNext]_daemonVars PROVE [Free!Next]_(Free!vars)
  OBVIOUS
<1>1. ASSUME NEW t \in Caller, NEW c \in Calls, Enters(t, c) PROVE Free!Next
  <2>1. Free!Invoke(t, c)
    BY <1>1, SameInvocations DEF Enters
  <2> QED
    BY <2>1 DEF Free!Next
<1>2. ASSUME NEW t \in Caller, Manager!Progress(t) PROVE Free!Next
  <2>1. Free!Progress(t)
    BY <1>2, SameSteps
  <2> QED
    BY <2>1 DEF Free!Next
<1>3. CASE UNCHANGED managerVars
  BY <1>3 DEF managerVars, Free!vars
<1>4. "worker" \in Caller /\ Analyzer \subseteq Caller
  BY DEF Caller
<1>5. Requests \subseteq Calls /\ Frames \subseteq Calls /\ ClearCall \in Calls
  BY DEF Calls
<1>6. ASSUME NEW t \in Caller, Manager!Leave(t) PROVE Manager!Progress(t)
  BY <1>6 DEF Manager!Progress
<1> QED
  BY ManagerStep, <1>1, <1>2, <1>3, <1>4, <1>5, <1>6
     DEF Works, WorkerReturns, AnalyzerReturns

-------------------------------------------------------------------------------
(***************************************************************************)
(* What Application's steps do to the threads.                             *)
(***************************************************************************)

(* A thread that does not exist has no object.                              *)
Threaded == \A a \in Analyzer : object[a] = "none" => thread[a] = "none"

(* No thread leaves submitChannels().                                       *)
Stays == \A a \in Analyzer : thread[a] = "device" => thread'[a] = "device"

LEMMA JoinedThread ==
  ASSUME TypeInv, Threaded, NEW p, Joined(p)
  PROVE  Threaded' /\ Stays
<1>1. /\ thread[p] = "exited"
      /\ thread' = [thread EXCEPT ![p] = "none"] /\ object' = [object EXCEPT ![p] = "none"]
  BY DEF Joined
<1>2. Threaded'
  BY <1>1 DEF TypeInv, ObjectsTyped, ThreadsTyped, Threaded
<1>3. Stays
  BY <1>1 DEF TypeInv, ThreadsTyped, Stays
<1> QED
  BY <1>2, <1>3

LEMMA DeletedThread ==
  ASSUME TypeInv, Threaded, NEW p, Delete(p), UNCHANGED thread
  PROVE  Threaded' /\ Stays
  BY DEF Delete, TypeInv, ObjectsTyped, Threaded, Stays

LEMMA SameThread ==
  ASSUME Threaded, UNCHANGED <<object, thread>>
  PROVE  Threaded' /\ Stays
  BY DEF Threaded, Stays

LEMMA MainThreads ==
  ASSUME TypeInv, Threaded, MainProgress \/ Wake
  PROVE  Threaded' /\ Stays
<1>1. CASE DestroyAnalyzer
  BY <1>1, SameThread, DeletedThread DEF DestroyAnalyzer, analyzerVars
<1>2. CASE JoinAnalyzer
  BY <1>2, JoinedThread DEF JoinAnalyzer
<1>3. CASE ~ DestroyAnalyzer /\ ~ JoinAnalyzer
  <2>1. UNCHANGED <<object, thread>>
    BY <1>3 DEF MainProgress, LoadConfiguration, CreateDevices, CreateServer, CreatePointer,
         CheckMembers, MainInRun, StopServer, JoinServer, FreeDevices, Exit, Wake, analyzerVars
  <2> QED
    BY <2>1, SameThread
<1> QED
  BY <1>1, <1>2, <1>3

LEMMA WorkerThreads ==
  ASSUME TypeInv, Threaded,
         SetModeControl \/ SetModeAnalyzer \/ ExitWorker \/ WorkerProgress
  PROVE  Threaded' /\ Stays
<1>1. ASSUME NEW new, NEW next, Replace(new, next) PROVE Threaded' /\ Stays
  BY <1>1, SameThread, DeletedThread DEF Replace
<1>2. CASE SetModeAnalyzer
  <2>1. PICK a \in Analyzer :
          /\ object[a] = "none"
          /\ object' = [object EXCEPT ![a] = "live"]
          /\ thread' = [thread EXCEPT ![a] = "head"]
    BY <1>2 DEF SetModeAnalyzer
  <2>2. Threaded'
    BY <2>1 DEF TypeInv, ObjectsTyped, ThreadsTyped, Threaded
  <2>3. Stays
    BY <2>1 DEF TypeInv, ThreadsTyped, Threaded, Stays
  <2> QED
    BY <2>2, <2>3
<1>3. CASE JoinOld
  BY <1>3, JoinedThread DEF JoinOld
<1>4. CASE Clear \/ ExitWorker
  BY <1>4, SameThread DEF Clear, ExitWorker, analyzerVars
<1> QED
  BY <1>1, <1>2, <1>3, <1>4 DEF WorkerProgress, SetModeControl, Assign

LEMMA AnalyzerThreads ==
  ASSUME TypeInv, Threaded, NEW a \in Analyzer, AnalyzerProgress(a)
  PROVE  /\ Threaded'
         /\ Loop(a) \/ Capture(a) => Stays
         /\ \A b \in Analyzer \ {a} : thread'[b] = thread[b]
<1>1. thread[a] # "none" /\ UNCHANGED object
  BY DEF AnalyzerProgress, Loop, Capture, Submit, AnalyzerRuns
<1>2. \A b \in Analyzer \ {a} : thread'[b] = thread[b]
  BY DEF AnalyzerProgress, Loop, Capture, Submit, TypeInv, ThreadsTyped
<1>3. Threaded'
  BY <1>1, <1>2 DEF Threaded
<1>4. Loop(a) \/ Capture(a) => thread[a] # "device"
  BY DEF Loop, Capture
<1> QED
  BY <1>2, <1>3, <1>4 DEF Stays

LEMMA ThreadsStep == TypeInv /\ Threaded /\ [Next]_vars => Threaded'
<1> SUFFICES ASSUME TypeInv, Threaded, [Next]_vars PROVE Threaded'
  OBVIOUS
<1>1. CASE MainProgress \/ Wake
  BY <1>1, MainThreads
<1>2. CASE SetModeControl \/ SetModeAnalyzer \/ ExitWorker \/ WorkerProgress
  BY <1>2, WorkerThreads
<1>3. CASE \E a \in Analyzer : AnalyzerProgress(a)
  BY <1>3, AnalyzerThreads
<1>4. CASE \E t \in Thread : Interrupted(t) \/ Handle(t)
  BY <1>4, SameThread DEF Interrupted, Handle, analyzerVars
<1>5. CASE Over \/ UNCHANGED vars
  BY <1>5, SameThread DEF Over, vars, analyzerVars
<1> QED
  BY <1>1, <1>2, <1>3, <1>4, <1>5 DEF Next

(* The worker moves only by its own steps once it is there.                 *)
LEMMA WorkerStays ==
  ASSUME Ordered,
         \/ MainProgress \/ Wake \/ Over
         \/ \E a \in Analyzer : AnalyzerProgress(a)
         \/ \E t \in Thread : Interrupted(t) \/ Handle(t)
  PROVE  worker' = worker \/ worker = "none"
<1>1. CASE MainProgress \/ Wake
  <2>1. CASE CreateServer
    BY <2>1 DEF CreateServer, MainGoes, Ordered, Early
  <2>2. CASE ~ CreateServer
    BY <1>1, <2>2 DEF MainProgress, LoadConfiguration, CreateDevices, CreatePointer,
         CheckMembers, MainInRun, DestroyAnalyzer, JoinAnalyzer, StopServer, JoinServer,
         FreeDevices, Exit, Wake, workerVars
  <2> QED
    BY <2>1, <2>2
<1>2. CASE \E a \in Analyzer : AnalyzerProgress(a)
  BY <1>2 DEF AnalyzerProgress, Loop, Capture, Submit, AnalyzerRuns, workerVars
<1>3. CASE \E t \in Thread : Interrupted(t) \/ Handle(t)
  BY <1>3 DEF Interrupted, Handle, workerVars
<1>4. CASE Over
  BY <1>4 DEF Over, vars, workerVars
<1> QED
  BY <1>1, <1>2, <1>3, <1>4

(* The record of its untimely uses of m_analyzer only grows.                *)
LEMMA RacesAreKept == [Next]_vars => raced \subseteq raced'
<1> SUFFICES ASSUME [Next]_vars PROVE raced \subseteq raced'
  OBVIOUS
<1>1. CASE MainProgress \/ Wake
  BY <1>1 DEF MainProgress, LoadConfiguration, CreateDevices, CreateServer, CreatePointer,
       CheckMembers, MainInRun, DestroyAnalyzer, JoinAnalyzer, StopServer, JoinServer,
       FreeDevices, Exit, Wake, workerVars
<1>2. CASE SetModeControl \/ SetModeAnalyzer \/ ExitWorker \/ WorkerProgress
  BY <1>2 DEF SetModeControl, SetModeAnalyzer, ExitWorker, WorkerProgress, Assign, JoinOld,
       Clear, Replace, Touch
<1>3. CASE \E a \in Analyzer : AnalyzerProgress(a)
  BY <1>3 DEF AnalyzerProgress, Loop, Capture, Submit, AnalyzerRuns, workerVars
<1>4. CASE \E t \in Thread : Interrupted(t) \/ Handle(t)
  BY <1>4 DEF Interrupted, Handle, workerVars
<1>5. CASE Over \/ UNCHANGED vars
  BY <1>5 DEF Over, vars, workerVars
<1> QED
  BY <1>1, <1>2, <1>3, <1>4, <1>5 DEF Next

-------------------------------------------------------------------------------
(***************************************************************************)
(* Who is in the manager.                                                  *)
(***************************************************************************)
WorkerLinked ==
  pc["worker"] # "idle" =>
    worker = IF call["worker"].op = "clear" THEN "clear" ELSE "idle"

AnalyzerLinked(a) ==
  pc[a] # "idle" => call[a].op = "setChannels" /\ (crashed \/ thread[a] = "device")

Linked == Threaded /\ WorkerLinked /\ \A a \in Analyzer : AnalyzerLinked(a)

(* What a step of one thread does to the calls of all.                      *)
Others(t) == \A u \in Caller \ {t} : pc'[u] = pc[u] /\ call'[u] = call[u]

LEMMA Callers ==
  /\ "worker" \in Caller /\ Analyzer \subseteq Caller
  /\ \A a \in Analyzer : a # "worker"
  BY InterruptAssumption DEF InterruptAssumption, Caller

LEMMA Entered ==
  ASSUME Free!TypeInv, NEW t \in Caller, NEW c, Enters(t, c)
  PROVE  Others(t) /\ pc[t] = "idle" /\ call'[t] = c /\ Running /\ UNCHANGED vars
  BY DEF Enters, Manager!Invoke, Free!TypeInv, Free!TypeOK, Others

LEMMA Worked ==
  ASSUME Free!TypeInv, NEW t \in Caller, Works(t)
  PROVE  Others(t) /\ pc[t] # "idle" /\ call' = call /\ UNCHANGED vars
<1>1. ~ Manager!Leave(t) /\ Manager!Progress(t)
  BY DEF Works, Manager!Leave
<1>2. pc[t] # "idle" /\ call' = call /\ \A u \in Caller \ {t} : pc'[u] = pc[u]
  BY <1>1 DEF Manager!Progress, Manager!Lock, Manager!Begin, Manager!Reject, Manager!Get,
       Manager!Set, Manager!Update, Manager!UpdateFails, Manager!Reset, Manager!Caught,
       Manager!Done, Free!TypeInv, Free!TypeOK
<1> QED
  BY <1>2 DEF Works, Others

LEMMA Returned ==
  ASSUME Free!TypeInv, NEW t \in Caller, Manager!Leave(t)
  PROVE  Others(t) /\ pc[t] \in {"return", "throw"} /\ pc'[t] = "idle"
  BY DEF Manager!Leave, Free!TypeInv, Free!TypeOK, Others

LEMMA QuietLink ==
  ASSUME Linked, UNCHANGED managerVars, crashed => crashed', Stays \/ crashed',
         worker' = worker \/ worker = "none" \/ pc["worker"] = "idle"
  PROVE  WorkerLinked' /\ \A a \in Analyzer : AnalyzerLinked(a)'
<1>1. WorkerLinked'
  BY DEF Linked, WorkerLinked, managerVars
<1>2. \A a \in Analyzer : AnalyzerLinked(a)'
  BY DEF Linked, AnalyzerLinked, managerVars, Stays
<1> QED
  BY <1>1, <1>2

LEMMA LinkedNext ==
  ASSUME Inv, Free!TypeInv, Linked, [DaemonNext]_daemonVars
  PROVE  Linked'
<1>1. [Next]_vars /\ TypeInv /\ Ordered
  BY ApplicationStep DEF Inv
<1>2. Threaded' /\ (crashed => crashed')
  BY <1>1, ThreadsStep, CrashIsFinal DEF Linked, vars
<1> SUFFICES WorkerLinked' /\ \A a \in Analyzer : AnalyzerLinked(a)'
  BY <1>2 DEF Linked
<1>3. CASE UNCHANGED daemonVars
  <2>1. Stays /\ UNCHANGED managerVars /\ worker' = worker
    BY <1>3 DEF daemonVars, vars, analyzerVars, workerVars, Stays
  <2> QED
    BY <1>2, <2>1, QuietLink
<1>4. CASE MainSteps \/ ((Wake \/ Over) /\ UNCHANGED managerVars)
  <2>1. Stays
    BY <1>1, <1>4, MainThreads, SameThread DEF MainSteps, Over, vars, analyzerVars, Linked
  <2>2. (worker' = worker \/ worker = "none") /\ UNCHANGED managerVars
    BY <1>1, <1>4, WorkerStays DEF MainSteps
  <2> QED
    BY <1>2, <2>1, <2>2, QuietLink
<1>5. CASE \E t \in Thread : Handles(t) \/ (Interrupted(t) /\ UNCHANGED managerVars)
  <2>1. Stays
    BY <1>5, SameThread DEF Handles, Handle, Interrupted, analyzerVars, Linked
  <2>2. (worker' = worker \/ worker = "none") /\ UNCHANGED managerVars
    BY <1>1, <1>5, WorkerStays DEF Handles
  <2> QED
    BY <1>2, <2>1, <2>2, QuietLink
<1>6. CASE WorkerSteps
  <2>1. Stays
    BY <1>1, <1>6, WorkerThreads DEF WorkerSteps, WorkerProgress, Linked
  <2>2. pc["worker"] = "idle" /\ UNCHANGED managerVars
    BY <1>6 DEF WorkerSteps
  <2> QED
    BY <1>2, <2>1, <2>2, QuietLink
<1>7. ASSUME NEW a \in Analyzer, AnalyzerSteps(a) \/ Perish(a)
      PROVE  WorkerLinked' /\ \A b \in Analyzer : AnalyzerLinked(b)'
  <2>1. AnalyzerProgress(a) /\ UNCHANGED managerVars
    BY <1>7 DEF AnalyzerSteps, Perish, AnalyzerProgress
  <2>2. Stays \/ crashed'
    BY <1>1, <1>7, <2>1, AnalyzerThreads DEF AnalyzerSteps, Perish, Linked
  <2>3. worker' = worker \/ worker = "none"
    BY <1>1, <2>1, WorkerStays
  <2> QED
    BY <1>2, <2>1, <2>2, <2>3, QuietLink
<1>8. CASE worker = "idle" /\ \E c \in Requests : Enters("worker", c)
  <2>1. PICK c \in Requests : Enters("worker", c)
    BY <1>8
  <2>2. c.op # "clear"
    BY DaemonAssumption DEF DaemonAssumption
  <2>3. Others("worker") /\ call'["worker"] = c /\ UNCHANGED vars
    BY <2>1, Entered, Callers
  <2> QED
    BY <1>8, <2>2, <2>3, Callers
       DEF Linked, WorkerLinked, AnalyzerLinked, Others, vars, analyzerVars, workerVars
<1>9. CASE worker = "clear" /\ Enters("worker", ClearCall)
  <2>1. Others("worker") /\ call'["worker"] = ClearCall /\ UNCHANGED vars
    BY <1>9, Entered, Callers
  <2> QED
    BY <1>9, <2>1, Callers, ClearCallType
       DEF Linked, WorkerLinked, AnalyzerLinked, Others, vars, analyzerVars, workerVars
<1>10. ASSUME NEW a \in Analyzer, NEW c \in Frames, thread[a] = "device", Enters(a, c)
       PROVE  WorkerLinked' /\ \A b \in Analyzer : AnalyzerLinked(b)'
  <2>1. c.op = "setChannels"
    BY DaemonAssumption DEF DaemonAssumption
  <2>2. Others(a) /\ call'[a] = c /\ UNCHANGED vars
    BY <1>10, Entered, Callers
  <2> QED
    BY <1>10, <2>1, <2>2, Callers
       DEF Linked, WorkerLinked, AnalyzerLinked, Others, vars, analyzerVars, workerVars
<1>11. ASSUME NEW t \in Caller, Works(t)
       PROVE  WorkerLinked' /\ \A a \in Analyzer : AnalyzerLinked(a)'
  <2>1. Others(t) /\ pc[t] # "idle" /\ call' = call /\ UNCHANGED vars
    BY <1>11, Worked
  <2>2. \A u \in Caller : pc'[u] # "idle" => pc[u] # "idle"
    BY <2>1 DEF Others
  <2> QED
    BY <2>1, <2>2, Callers
       DEF Linked, WorkerLinked, AnalyzerLinked, vars, analyzerVars, workerVars
<1>12. CASE WorkerReturns
  <2>1. Others("worker") /\ pc'["worker"] = "idle" /\ UNCHANGED <<thread, crashed>>
    BY <1>12, Returned, Callers DEF WorkerReturns, Clear, vars, analyzerVars
  <2> QED
    BY <2>1, Callers DEF Linked, WorkerLinked, AnalyzerLinked, Others
<1>13. ASSUME NEW a \in Analyzer, AnalyzerReturns(a)
       PROVE  WorkerLinked' /\ \A b \in Analyzer : AnalyzerLinked(b)'
  <2>1. Others(a) /\ pc'[a] = "idle" /\ UNCHANGED crashed
    BY <1>13, Returned, Callers DEF AnalyzerReturns
  <2>2. Submit(a) /\ UNCHANGED worker
    BY <1>13 DEF AnalyzerReturns, Submit, AnalyzerRuns, workerVars
  <2>3. \A b \in Analyzer \ {a} : thread'[b] = thread[b]
    BY <1>1, <2>2, AnalyzerThreads DEF AnalyzerProgress, Linked
  <2> QED
    BY <2>1, <2>2, <2>3, Callers DEF Linked, WorkerLinked, AnalyzerLinked, Others
<1>14. CASE Serve \/ CallClear \/ \E a \in Analyzer : CallSetChannels(a)
  BY <1>8, <1>9, <1>10, <1>14 DEF Serve, CallClear, CallSetChannels, WorkerRuns, Enters
<1>15. \/ UNCHANGED daemonVars
       \/ MainSteps \/ ((Wake \/ Over) /\ UNCHANGED managerVars)
       \/ \E t \in Thread : Handles(t) \/ (Interrupted(t) /\ UNCHANGED managerVars)
       \/ WorkerSteps
       \/ \E a \in Analyzer : AnalyzerSteps(a) \/ Perish(a)
       \/ \E t \in Caller : Works(t)
       \/ WorkerReturns
       \/ \E a \in Analyzer : AnalyzerReturns(a)
       \/ Serve \/ CallClear \/ \E a \in Analyzer : CallSetChannels(a)
  BY DEF DaemonNext, InManager
<1> QED
  BY <1>3, <1>4, <1>5, <1>6, <1>7, <1>11, <1>12, <1>13, <1>14, <1>15

-------------------------------------------------------------------------------
(***************************************************************************)
(* The callers keep clear() apart: Application's threads take no step that *)
(* a manager with ClearAlone would not admit, as long as the worker does   *)
(* not use m_analyzer too early or too late.                               *)
(***************************************************************************)
LEMMA ClearOrSubmit ==
  ASSUME Inv, raced = {}, Linked, Running, NEW a \in Analyzer,
         thread[a] = "device" \/ pc[a] # "idle"
  PROVE  worker # "clear"
<1>1. thread[a] = "device"
  BY DEF Linked, AnalyzerLinked, Running
<1>2. a \in Threads
  BY <1>1 DEF Threads
<1> QED
  BY <1>2, NobodyElseInClear DEF ClearRunsAlone

LEMMA Admission ==
  ASSUME Inv, raced = {}, Free!TypeInv, Linked, [DaemonNext]_daemonVars,
         NEW t \in Caller, NEW c \in Calls,
         \/ t = "worker" /\ worker = "idle" /\ c \in Requests
         \/ t = "worker" /\ worker = "clear" /\ c = ClearCall
         \/ t \in Analyzer /\ thread[t] = "device" /\ c \in Frames,
         Enters(t, c)
  PROVE  Alone!Next
<1>1. Running
  BY DEF Enters
<1>2. Alone!Admitted(t, c)
  <2> SUFFICES ASSUME NEW u \in Caller \ {t}, pc[u] # "idle"
               PROVE  c.op # "clear" /\ call[u].op # "clear"
    BY DEF Alone!Admitted
  <2>1. CASE t = "worker"
    <3>1. u \in Analyzer
      BY <2>1 DEF Caller
    <3>2. call[u].op = "setChannels" /\ worker # "clear"
      BY <1>1, <3>1, ClearOrSubmit DEF Linked, AnalyzerLinked
    <3>3. c \in Requests
      BY <2>1, <3>2, Callers
    <3> QED
      BY <3>2, <3>3, DaemonAssumption DEF DaemonAssumption
  <2>2. CASE t \in Analyzer
    <3>1. c.op = "setChannels" /\ worker # "clear"
      BY <1>1, <2>2, ClearOrSubmit, Callers, DaemonAssumption DEF DaemonAssumption
    <3>2. call[u].op # "clear"
      <4>1. CASE u = "worker"
        BY <3>1, <4>1 DEF Linked, WorkerLinked
      <4>2. CASE u \in Analyzer
        BY <4>2 DEF Linked, AnalyzerLinked
      <4> QED
        BY <4>1, <4>2 DEF Caller
    <3> QED
      BY <3>1, <3>2
  <2> QED
    BY <2>1, <2>2 DEF Caller
<1>3. Alone!Invoke(t, c)
  BY <1>2, SameInvocations DEF Enters
<1> QED
  BY <1>3 DEF Alone!Next

LEMMA AloneTakesIt ==
  ASSUME Inv, raced = {}, Free!TypeInv, Linked, [DaemonNext]_daemonVars
  PROVE  [Alone!Next]_(Alone!vars)
<1>1. Requests \subseteq Calls /\ Frames \subseteq Calls /\ ClearCall \in Calls
  BY DEF Calls
<1>2. CASE worker = "idle" /\ \E c \in Requests : Enters("worker", c)
  BY <1>1, <1>2, Admission, Callers
<1>3. CASE worker = "clear" /\ Enters("worker", ClearCall)
  BY <1>1, <1>3, Admission, Callers
<1>4. CASE \E a \in Analyzer : thread[a] = "device" /\ \E c \in Frames : Enters(a, c)
  BY <1>1, <1>4, Admission, Callers
<1>5. ASSUME NEW t \in Caller, Manager!Progress(t) PROVE Alone!Next
  <2>1. Alone!Progress(t)
    BY <1>5, SameSteps
  <2> QED
    BY <2>1 DEF Alone!Next
<1>6. ASSUME NEW t \in Caller, Manager!Leave(t) PROVE Manager!Progress(t)
  BY <1>6 DEF Manager!Progress
<1>7. CASE UNCHANGED managerVars
  BY <1>7 DEF managerVars, Alone!vars
<1> QED
  BY ManagerStep, <1>2, <1>3, <1>4, <1>5, <1>6, <1>7, Callers
     DEF Works, WorkerReturns, AnalyzerReturns

(***************************************************************************)
(* The inductive invariant of the whole.                                   *)
(***************************************************************************)
DaemonInv ==
  Inv /\ Free!TypeInv /\ Linked /\ (raced = {} => Alone!EffectInv)

LEMMA DaemonInvInit == DaemonInit => DaemonInv
<1> SUFFICES ASSUME DaemonInit PROVE DaemonInv
  OBVIOUS
<1>1. Inv /\ Free!TypeInv /\ Alone!EffectInv
  BY InvInit, SameInit, FreeInit, AloneInit DEF DaemonInit
<1>2. \A t \in Caller : pc[t] = "idle"
  BY DEF DaemonInit, Manager!Init
<1>3. Linked
  BY <1>2, Callers DEF Linked, Threaded, WorkerLinked, AnalyzerLinked, DaemonInit, Init
<1> QED
  BY <1>1, <1>3 DEF DaemonInv

LEMMA DaemonInvNext == DaemonInv /\ [DaemonNext]_daemonVars => DaemonInv'
<1> SUFFICES ASSUME DaemonInv, [DaemonNext]_daemonVars PROVE DaemonInv'
  OBVIOUS
<1>1. Inv'
  BY ApplicationStep, InvNext DEF DaemonInv
<1>2. Free!TypeInv'
  BY FreeTakesIt, FreeStep DEF DaemonInv
<1>3. Linked'
  BY LinkedNext DEF DaemonInv
<1>4. ASSUME raced' = {} PROVE Alone!EffectInv'
  <2>1. raced = {}
    BY <1>4, ApplicationStep, RacesAreKept
  <2>2. [Alone!Next]_(Alone!vars)
    BY <2>1, AloneTakesIt DEF DaemonInv
  <2> QED
    BY <2>1, <2>2, AloneStep DEF DaemonInv
<1> QED
  BY <1>1, <1>2, <1>3, <1>4 DEF DaemonInv

LEMMA DaemonInvariance == DaemonSpec => []DaemonInv
  BY DaemonInvInit, DaemonInvNext, PTL DEF DaemonSpec

-------------------------------------------------------------------------------
(***************************************************************************)
(* The theorems.                                                           *)
(***************************************************************************)

(* Without its fairness the process is an Application: all that holds of    *)
(* Application's safety holds of it.                                        *)
THEOREM RunsTheApplication == DaemonSpec => Init /\ [][Next]_vars
  BY ApplicationStep, PTL DEF DaemonSpec, DaemonInit

LEMMA SameTypes == Free!TypeOK => Manager!TypeOK
<1>1. \A n : Manager!Vector(n) = Free!Vector(n)
  BY DEF Manager!Vector, Free!Vector, Manager!Channel, Free!Channel
<1>2. Manager!AnyVector = Free!AnyVector
  BY <1>1, SameData DEF Manager!AnyVector, Free!AnyVector
<1> QED
  BY <1>1, <1>2, SameData DEF Manager!TypeOK, Free!TypeOK

(* Every variable of the manager has its type, and a thread is in the       *)
(* manager only where its own code calls it.                                *)
THEOREM DaemonTypeCorrect == DaemonSpec => []DaemonTypeOK
<1>1. DaemonInv => DaemonTypeOK
  BY SameTypes DEF DaemonInv, Linked, WorkerLinked, AnalyzerLinked, DaemonTypeOK, Free!TypeInv
<1> QED
  BY <1>1, DaemonInvariance, PTL

(* The manager is thread-safe in the process that uses it, clear() included *)
(* and without any assumption about its callers.                            *)
THEOREM ManagerHasNoRace == DaemonSpec => []ManagerIsThreadSafe
<1>1. Alone!EffectInv => Manager!NoDataRace
  <2>1. Alone!EffectInv => \A t, u \in Caller : t # u /\ Alone!AtWork(t) => ~ Alone!AtWork(u)
    BY Alone!OneAtWork, Assumptions, SameData, BlackIsAColor DEF Alone!EffectInv
  <2> QED
    BY <2>1 DEF Manager!NoDataRace, Manager!Inside, Alone!AtWork
<1>2. DaemonInv => ManagerIsThreadSafe
  BY <1>1 DEF DaemonInv, ManagerIsThreadSafe
<1> QED
  BY <1>2, DaemonInvariance, PTL

(* What was asked for is on the LEDs when a request is answered, and        *)
(* set_mode control leaves all of them dark.                                *)
THEOREM RequestsReachTheLEDs == DaemonSpec => []WritesAreShown
<1>1. ASSUME NEW c, NEW m PROVE Manager!Modified(c, m) = Alone!Modified(c, m)
  BY DEF Manager!Modified, Alone!Modified, Manager!Assigns, Alone!Assigns,
         Manager!Assigned, Alone!Assigned
<1>2. ASSUME NEW c PROVE Manager!Targets(c) = Alone!Targets(c)
  BY SameData DEF Manager!Targets, Alone!Targets
<1>3. Manager!Writing = Alone!Writing
  BY DEF Manager!Writing, Alone!Writing
<1>4. Alone!EffectInv => Manager!SuccessIsShown
  BY <1>1, <1>2, <1>3
     DEF Alone!EffectInv, Alone!Effect, Alone!AtWork, Alone!Landed, Alone!Kept,
         Manager!SuccessIsShown
<1>5. DaemonInv => WritesAreShown
  BY <1>4 DEF DaemonInv, WritesAreShown
<1> QED
  BY <1>5, DaemonInvariance, PTL

LEMMA SameStore ==
  /\ Manager!Store!Next = Alone!Store!Next
  /\ Manager!Store!vars = Alone!Store!vars
  /\ Manager!Store!vars' = Alone!Store!vars'
  BY DEF Manager!Store!Next, Alone!Store!Next, Manager!Store!Invoke,
         Alone!Store!Invoke, Manager!Store!Read, Alone!Store!Read,
         Manager!Store!Write, Alone!Store!Write, Manager!Store!CanReach,
         Alone!Store!CanReach, Manager!Store!Succeed, Alone!Store!Succeed,
         Manager!Store!Fail, Alone!Store!Fail, Manager!Store!Leave,
         Alone!Store!Leave, Manager!Store!Device, Alone!Store!Device,
         Manager!Store!Targets, Alone!Store!Targets, Manager!Store!Rejects,
         Alone!Store!Rejects, Manager!Store!Writing, Alone!Store!Writing,
         Manager!Store!Modified, Alone!Store!Modified, Manager!Store!Assigns,
         Alone!Store!Assigns, Manager!Store!Assigned, Alone!Store!Assigned,
         Manager!Store!Answer, Alone!Store!Answer, Manager!Store!NoCall,
         Alone!Store!NoCall, Manager!Store!NoAnswer, Alone!Store!NoAnswer,
         Manager!Store!vars, Alone!Store!vars, Manager!Status, Alone!Status,
         Manager!Left, Alone!Left, Manager!Untaken, Alone!Untaken, Manager!Device,
         Alone!Device, Manager!Targets, Alone!Targets, Manager!Rejects,
         Alone!Rejects

(* All threads together see devices on which a call takes effect at once.   *)
THEOREM CallsTakeEffectAtOnce == DaemonSpec => CallsAreAtomic
<1>1. ASSUME DaemonInv, [DaemonNext]_daemonVars, raced' = {}
      PROVE  [Manager!Store!Next]_(Manager!Store!vars)
  <2>1. raced = {}
    BY <1>1, ApplicationStep, RacesAreKept
  <2>2. [Alone!Next]_(Alone!vars)
    BY <1>1, <2>1, AloneTakesIt DEF DaemonInv
  <2>3. [Alone!Store!Next]_(Alone!Store!vars)
    BY <1>1, <2>1, <2>2, AloneStore DEF DaemonInv
  <2>4. CASE Alone!Store!Next
    BY <2>4, SameStore, Zenon
  <2>5. CASE Alone!Store!vars' = Alone!Store!vars
    BY <2>5, SameStore, Zenon
  <2> QED
    BY <2>3, <2>4, <2>5, Zenon
<1>2. DaemonInv /\ [DaemonNext]_daemonVars
        => [raced' = {} => [Manager!Store!Next]_(Manager!Store!vars)]_daemonVars
  BY <1>1
<1> QED
  BY <1>2, DaemonInvariance, PTL DEF DaemonSpec, CallsAreAtomic

(* In Control mode no analyzer is left in the manager.                      *)
LEMMA NobodyPaints ==
  ASSUME Inv, raced = {}, Linked, Running, pointer = "null", worker \in {"clear", "idle"},
         NEW a \in Analyzer
  PROVE  pc[a] = "idle"
<1> SUFFICES ASSUME pc[a] # "idle" PROVE FALSE
  OBVIOUS
<1>1. a \in Threads
  BY DEF Linked, AnalyzerLinked, Running, Threads
<1>2. fresh = "null" /\ old = "null"
  BY DEF Inv, Ordered
<1> QED
  BY <1>1, <1>2, RunningIsOwned, Names

(* In Control mode the clients own the LEDs: no thread but the control      *)
(* server's changes or sends a colour.                                      *)
THEOREM ClientsOwnTheLeds == DaemonSpec => ControlOwnsTheLeds
<1>1. ASSUME DaemonInv, [DaemonNext]_daemonVars, raced' = {}, GetMode = "control",
             worker \in {"clear", "idle"}, <<channels, shown>>' # <<channels, shown>>
      PROVE  pc'["worker"] # pc["worker"]
  <2>1. raced = {} /\ Inv /\ Linked /\ Free!TypeInv
    BY <1>1, ApplicationStep, RacesAreKept DEF DaemonInv
  <2>2. pointer = "null"
    BY <1>1 DEF GetMode
  <2>3. PICK t \in Caller : Works(t)
    BY <1>1, ManagerStep
       DEF Enters, Manager!Invoke, WorkerReturns, AnalyzerReturns, Manager!Leave, managerVars
  <2>4. t = "worker"
    <3>1. Running /\ pc[t] # "idle"
      BY <2>1, <2>3, Worked DEF Works
    <3> QED
      BY <1>1, <2>1, <2>2, <3>1, NobodyPaints DEF Caller
  <2>5. Manager!Set(t) \/ Manager!Update(t) \/ Manager!UpdateFails(t)
    BY <1>1, <2>3 DEF Works, Manager!Progress, Manager!Lock, Manager!Begin, Manager!Reject,
         Manager!Get, Manager!Reset, Manager!Leave
  <2>6. pc \in [Caller -> {"idle", "start", "try", "update", "sleep", "return", "throw"}]
    BY <2>1 DEF Free!TypeInv, Free!TypeOK
  <2> QED
    BY <2>4, <2>5, <2>6, Callers
       DEF Manager!Set, Manager!Update, Manager!UpdateFails, Manager!Done, Manager!Caught
<1>2. DaemonInv /\ [DaemonNext]_daemonVars
        => [raced' = {} /\ GetMode = "control" /\ worker \in {"clear", "idle"}
              /\ <<channels, shown>>' # <<channels, shown>>
            => pc'["worker"] # pc["worker"]]_daemonVars
  BY <1>1
<1> QED
  BY <1>2, DaemonInvariance, PTL DEF DaemonSpec, ControlOwnsTheLeds

===============================================================================
