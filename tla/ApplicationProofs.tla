--------------------------- MODULE ApplicationProofs ---------------------------
(***************************************************************************)
(* Proofs about the life of the process, for every number of Analyzer      *)
(* objects and signals and any configuration files.                        *)
(***************************************************************************)
EXTENDS Application, SequenceTheorems, TLAPS

-------------------------------------------------------------------------------
(***************************************************************************)
(* The inductive invariant.  TypeInv, Ordered and Handled hold whatever    *)
(* the threads do to m_analyzer, Owned holds until the worker uses it too  *)
(* early or too late.  Warned counts the signals behind m_interrupted and  *)
(* the handlers.                                                           *)
(***************************************************************************)
Alive == {"head", "capture", "device"}

(* Before CreatePointer, when no worker runs and m_analyzer is not there.   *)
Early == {"load", "devices", "server"}

(* m_analyzer has been destroyed.                                           *)
After == {"stop_server", "join_server", "free_devices", "leave", "exited"}

(* TypeOK by the groups of variables that change together, and the counts   *)
(* it bounds.                                                               *)
RunTyped ==
  /\ main \in InRun \cup Destroying \cup
       {"load", "devices", "server", "pointer", "check", "install", "uninstall",
        "destroy_analyzer", "exited", "failed"}
  /\ mutex \in Thread \cup {"none"}
  /\ interrupted \in BOOLEAN /\ gapp \in BOOLEAN
  /\ handler \in [Thread -> {"none", "use", "lock", "set", "notify"}]
  /\ signals \in 0 .. MaxSignals

NumDevices == Len(config.devices)

ConfigTyped ==
  /\ config \in {Unloaded} \cup {Configured(f) : f \in {g \in Files : FileReadable(g)}}
  /\ main = "load" =>
       config = Unloaded /\ \A a \in Analyzer : thread[a] = "none" /\ left[a] = 0

ObjectsTyped ==
  /\ object \in [Analyzer -> {"none", "live", "deleting"}]
  /\ stop \in [Analyzer -> BOOLEAN]
  /\ crashed \in BOOLEAN

ThreadsTyped ==
  /\ thread \in [Analyzer -> {"none", "head", "capture", "device", "exited"}]
  /\ left \in [Analyzer -> 0 .. NumDevices]
  /\ \A a \in Analyzer : thread[a] = "device" => left[a] > 0

WorkerTyped ==
  /\ pointer \in Analyzer \cup {"uninit", "null"}
  /\ worker \in {"none", "idle", "assign", "join", "clear", "exited"}
  /\ target \in {"control", "analyzer"}
  /\ fresh \in Analyzer \cup {"null"}
  /\ old \in Analyzer \cup {"null"}
  /\ raced \subseteq {"startup", "shutdown"}

TypeInv == RunTyped /\ ConfigTyped /\ ObjectsTyped /\ ThreadsTyped /\ WorkerTyped

(* Where the worker is tells what it holds and when it may run.             *)
Ordered ==
  /\ old # "null" => worker = "join"
  /\ fresh # "null" => worker = "assign"
  /\ worker = "assign" => target = "analyzer"
  /\ main \in Early => worker = "none"
  /\ pointer = "uninit" => main \in Early \cup {"pointer", "failed"}
  /\ main \in {"free_devices", "leave", "exited"} => worker = "exited"

(* Each object's thread runs until the object is deleted, and somebody      *)
(* holds the object until then.                                             *)
ObjectOwned(a) ==
  /\ object[a] = "none" <=> thread[a] = "none"
  /\ object[a] = "live" => thread[a] \in Alive /\ a \in {pointer, fresh}
  /\ object[a] = "deleting" => a = old \/ (a = pointer /\ main = "join_analyzer")
  /\ stop[a] => object[a] = "deleting"

PointerOwns ==
  pointer \in Analyzer =>
    object[pointer] = CASE main = "join_analyzer" -> "deleting"
                        [] main \in After -> IF pointer = fresh THEN "live" ELSE "none"
                        [] OTHER -> "live"

Owned ==
  /\ \A a \in Analyzer : ObjectOwned(a)
  /\ PointerOwns
  /\ main \in Early \cup {"pointer"} => pointer = "uninit"
  /\ main = "join_analyzer" => pointer \in Analyzer
  /\ fresh # "null" => object[fresh] = "live" /\ (fresh = pointer => main \in After)
  /\ old # "null" => object[old] = "deleting" /\ old # pointer
  /\ worker = "clear" \/ (worker = "join" /\ target = "control") => pointer = "null"

(* Handlers run on threads that exist, the main thread's while G_APP is     *)
(* set.                                                                     *)
Handled ==
  /\ \A t \in Thread : handler[t] # "none" => HasThread(t)
  /\ gapp \/ handler["main"] # "none" => main \in InRun \cup {"uninstall"}

(* Before Install, when a signal has no handler yet, and after run().       *)
Starting == Early \cup {"pointer", "check", "install"}

Leaving == {"unlock", "uninstall", "destroy_analyzer", "join_analyzer", "exited"} \cup After

(* The handler has not yet set m_interrupted.                               *)
Pending(t) == handler[t] \in {"use", "lock", "set"}

(* run() returns only when m_interrupted is set, every handler stands for a *)
(* signal of its own, and so does the handler that set the flag: one that   *)
(* is still on its way when the flag is set belongs to a second signal.     *)
Warned ==
  /\ main \in Starting => signals = 0
  /\ main \in Leaving => interrupted
  /\ main \in InRun \cup {"uninstall"} => gapp
  /\ interrupted => signals > 0
  /\ \A t \in Thread : handler[t] # "none" => signals > 0
  /\ \A t \in Thread : interrupted /\ Pending(t) => signals > 1
  /\ \A t, u \in Thread : t # u /\ Pending(t) /\ Pending(u) => signals > 1

-------------------------------------------------------------------------------
(* The number of devices is a number, whatever the file.                    *)
LEMMA LengthOfDomain ==
  ASSUME NEW n \in Nat, NEW s, s = [i \in 1 .. n |-> s[i]]
  PROVE  Len(s) = n
<1>1. s \in Seq({s[i] : i \in 1 .. n})
  OBVIOUS
<1> QED
  BY <1>1, LenProperties

LEMMA DevicesAreCounted ==
  /\ Len(Unloaded.devices) = 0
  /\ \A file \in Files : FileReadable(file) => Len(Configured(file).devices) \in Nat
<1>1. Len(Unloaded.devices) = 0
  BY DEF Unloaded
<1>2. ASSUME NEW file \in Files, FileReadable(file)
      PROVE  Len(Configured(file).devices) \in Nat
  <2> DEFINE n == Len(file.devices)
  <2>1. n \in Nat /\ DOMAIN file.devices = 1 .. n
    BY <1>2, ApplicationAssumption DEF ApplicationAssumption, FileReadable
  <2>2. Configured(file).devices = [i \in 1 .. n |-> readDevice(file.devices[i])]
    BY <2>1 DEF Configured
  <2> HIDE DEF n
  <2>3. Len(Configured(file).devices) = n
    BY <2>1, <2>2, LengthOfDomain
  <2> QED
    BY <2>1, <2>3
<1> QED
  BY <1>1, <1>2

LEMMA TypeInvIsTypeOK == TypeInv => TypeOK
  BY DEF TypeInv, TypeOK, RunTyped, ConfigTyped, ObjectsTyped, ThreadsTyped, WorkerTyped,
         NumDevices

LEMMA TypeInit == Init => TypeInv
<1> SUFFICES ASSUME Init PROVE TypeInv
  OBVIOUS
<1> USE DEF Init
<1>1. RunTyped
  <2>1. signals \in 0 .. MaxSignals
    BY InterruptAssumption DEF RunInit, InterruptAssumption
  <2>2. handler \in [Thread -> {"none", "use", "lock", "set", "notify"}]
    BY DEF RunInit
  <2> QED
    BY <2>1, <2>2 DEF RunTyped, RunInit
<1>2. ConfigTyped
  BY DEF ConfigTyped
<1>3. ObjectsTyped
  BY DEF ObjectsTyped
<1>4. ThreadsTyped
  BY DevicesAreCounted DEF ThreadsTyped, NumDevices
<1>5. WorkerTyped
  BY DEF WorkerTyped
<1> QED
  BY <1>1, <1>2, <1>3, <1>4, <1>5 DEF TypeInv

LEMMA ExceptType ==
  ASSUME NEW S, NEW T, NEW f \in [S -> T], NEW x, NEW y \in T
  PROVE  [f EXCEPT ![x] = y] \in [S -> T]
  OBVIOUS

(* What a step leaves alone keeps its type.                                 *)
LEMMA TypeStays ==
  /\ RunTyped /\ UNCHANGED runVars => RunTyped'
  /\ ConfigTyped /\ main' # "load" /\ UNCHANGED config => ConfigTyped'
  /\ ObjectsTyped /\ UNCHANGED <<object, stop, crashed>> => ObjectsTyped'
  /\ ThreadsTyped /\ UNCHANGED <<thread, left, config>> => ThreadsTyped'
  /\ WorkerTyped /\ UNCHANGED <<pointer, workerVars>> => WorkerTyped'
<1>1. RunTyped /\ UNCHANGED runVars => RunTyped'
  BY DEF RunTyped, runVars
<1>2. ConfigTyped /\ main' # "load" /\ UNCHANGED config => ConfigTyped'
  BY DEF ConfigTyped
<1>3. ObjectsTyped /\ UNCHANGED <<object, stop, crashed>> => ObjectsTyped'
  BY DEF ObjectsTyped
<1>4. ThreadsTyped /\ UNCHANGED <<thread, left, config>> => ThreadsTyped'
  BY DEF ThreadsTyped, NumDevices
<1>5. WorkerTyped /\ UNCHANGED <<pointer, workerVars>> => WorkerTyped'
  BY DEF WorkerTyped, workerVars
<1> QED
  BY <1>1, <1>2, <1>3, <1>4, <1>5

(* The parts of an object's deletion.                                       *)
LEMMA DeleteType ==
  ASSUME ObjectsTyped, NEW p, Delete(p)
  PROVE  ObjectsTyped'
  BY ExceptType DEF ObjectsTyped, Delete

LEMMA JoinedType ==
  ASSUME ObjectsTyped, ThreadsTyped, NEW p, Joined(p), UNCHANGED <<crashed, config>>
  PROVE  ObjectsTyped' /\ ThreadsTyped'
<1>1. ObjectsTyped'
  BY ExceptType DEF ObjectsTyped, Joined
<1>2. ThreadsTyped'
  BY DEF ThreadsTyped, NumDevices, Joined
<1> QED
  BY <1>1, <1>2

LEMMA TypeMain ==
  ASSUME TypeInv, MainProgress \/ Wake
  PROVE  TypeInv'
<1> USE DEF TypeInv, MainGoes
<1>1. CASE LoadConfiguration
  <2>1. main = "load" /\ main' # "load"
    BY <1>1 DEF LoadConfiguration
  <2>2. RunTyped'
    BY <1>1 DEF LoadConfiguration, RunTyped
  <2>3. ConfigTyped'
    BY <1>1 DEF LoadConfiguration, ConfigTyped
  <2>4. ObjectsTyped' /\ WorkerTyped'
    BY <1>1, TypeStays DEF LoadConfiguration, analyzerVars
  <2>5. NumDevices' \in Nat
    BY <2>3, DevicesAreCounted DEF ConfigTyped, NumDevices
  <2>6. ThreadsTyped'
    BY <1>1, <2>1, <2>5 DEF LoadConfiguration, analyzerVars, ThreadsTyped, ConfigTyped
  <2> QED
    BY <2>2, <2>3, <2>4, <2>6
<1>2. CASE CreateServer
  <2>1. RunTyped' /\ WorkerTyped' /\ main' # "load"
    BY <1>2 DEF CreateServer, RunTyped, WorkerTyped
  <2> QED
    BY <1>2, <2>1, TypeStays DEF CreateServer, analyzerVars
<1>3. CASE CreatePointer
  <2>1. RunTyped' /\ WorkerTyped' /\ main' # "load"
    BY <1>3 DEF CreatePointer, RunTyped, WorkerTyped, workerVars
  <2> QED
    BY <1>3, <2>1, TypeStays DEF CreatePointer, analyzerVars
<1>4. CASE CreateDevices \/ CheckMembers \/ StopServer \/ JoinServer \/ FreeDevices \/ Exit
  <2> USE DEF CreateDevices, CheckMembers, StopServer, JoinServer, FreeDevices, Exit
  <2>1. RunTyped' /\ main' # "load"
    BY <1>4 DEF RunTyped, Destroying
  <2>2. UNCHANGED <<config, pointer, analyzerVars, workerVars, crashed>>
    BY <1>4
  <2> QED
    BY <2>1, <2>2, TypeStays DEF analyzerVars
<1>5. CASE MainInRun \/ Wake
  <2> USE DEF RunProgress, Install, Acquire, Test, Block, Return, Uninstall, SpuriousWakeup
  <2>1. RunProgress \/ SpuriousWakeup
    BY <1>5 DEF MainInRun, Wake
  <2>2. RunTyped'
    BY <2>1 DEF RunTyped, InRun, Holding, Thread
  <2>3. main' # "load"
    BY <2>1
  <2>4. UNCHANGED <<config, pointer, analyzerVars, workerVars, crashed>>
    BY <1>5 DEF MainInRun, Wake
  <2> QED
    BY <2>2, <2>3, <2>4, TypeStays DEF analyzerVars
<1>6. CASE DestroyAnalyzer
  <2>1. RunTyped' /\ main' # "load"
    BY <1>6 DEF DestroyAnalyzer, RunTyped, Destroying
  <2>2. ObjectsTyped'
    BY <1>6, DeleteType, TypeStays DEF DestroyAnalyzer, analyzerVars
  <2> QED
    BY <1>6, <2>1, <2>2, TypeStays DEF DestroyAnalyzer, analyzerVars
<1>7. CASE JoinAnalyzer
  <2>1. RunTyped' /\ main' # "load"
    BY <1>7 DEF JoinAnalyzer, RunTyped, Destroying
  <2>2. WorkerTyped'
    BY <1>7 DEF JoinAnalyzer, WorkerTyped, workerVars
  <2> QED
    BY <1>7, <2>1, <2>2, JoinedType, TypeStays DEF JoinAnalyzer
<1> QED
  BY <1>1, <1>2, <1>3, <1>4, <1>5, <1>6, <1>7 DEF MainProgress

LEMMA ReplaceType ==
  ASSUME TypeInv, NEW new \in Analyzer \cup {"null"}, NEW next \in {"clear", "idle"},
         Replace(new, next), main # "load",
         target' \in {"control", "analyzer"}, fresh' \in Analyzer \cup {"null"}
  PROVE  TypeInv'
<1> USE DEF TypeInv, Replace
<1>1. ObjectsTyped'
  BY DeleteType, TypeStays DEF ObjectsTyped
<1>2. raced' \subseteq {"startup", "shutdown"}
  BY DEF Touch, WorkerTyped
<1>3. WorkerTyped'
  BY <1>2 DEF WorkerTyped
<1> QED
  BY <1>1, <1>3, TypeStays DEF runVars

LEMMA TypeWorker ==
  ASSUME TypeInv, Ordered, SetModeControl \/ SetModeAnalyzer \/ ExitWorker \/ WorkerProgress
  PROVE  TypeInv'
<1> USE DEF TypeInv
<1>1. main # "load"
  BY DEF Ordered, Early, SetModeControl, SetModeAnalyzer, ExitWorker, WorkerProgress,
         Assign, JoinOld, Clear
<1>2. CASE SetModeControl
  BY <1>1, <1>2, ReplaceType DEF SetModeControl, WorkerTyped
<1>3. CASE SetModeAnalyzer
  <2> USE <1>3 DEF SetModeAnalyzer
  <2>1. WorkerTyped'
    BY DEF WorkerTyped
  <2>2. ObjectsTyped'
    BY ExceptType DEF ObjectsTyped
  <2>3. ThreadsTyped'
    BY DEF ThreadsTyped, NumDevices
  <2> QED
    BY <1>1, <2>1, <2>2, <2>3, TypeStays DEF runVars
<1>4. CASE Assign
  BY <1>1, <1>4, ReplaceType DEF Assign, WorkerTyped
<1>5. CASE JoinOld
  <2>1. WorkerTyped'
    BY <1>5 DEF JoinOld, WorkerTyped
  <2> QED
    BY <1>1, <1>5, <2>1, JoinedType, TypeStays DEF JoinOld, runVars
<1>6. CASE Clear \/ ExitWorker
  <2>1. WorkerTyped'
    BY <1>6 DEF Clear, ExitWorker, WorkerTyped
  <2> QED
    BY <1>1, <1>6, <2>1, TypeStays DEF Clear, ExitWorker, analyzerVars, runVars
<1> QED
  BY <1>2, <1>3, <1>4, <1>5, <1>6 DEF WorkerProgress

LEMMA TypeAnalyzer ==
  ASSUME TypeInv, NEW a \in Analyzer, AnalyzerProgress(a)
  PROVE  TypeInv'
<1> USE DEF TypeInv
<1>1. NumDevices \in Nat
  BY DevicesAreCounted DEF ConfigTyped, NumDevices
<1>2. thread[a] # "none" /\ AnalyzerRuns(a)
  BY DEF AnalyzerProgress, Loop, Capture, Submit
<1>3. main' # "load"
  BY <1>2 DEF ConfigTyped, AnalyzerRuns, runVars
<1>4. ObjectsTyped'
  BY <1>2 DEF AnalyzerProgress, Loop, Capture, Submit, ObjectsTyped, AnalyzerRuns, DevicesAlive
<1>5. ThreadsTyped'
  <2> USE <1>1, <1>2 DEF ThreadsTyped, NumDevices, AnalyzerRuns
  <2>1. CASE Loop(a)
    BY <2>1 DEF Loop
  <2>2. CASE Capture(a)
    BY <2>2 DEF Capture
  <2>3. CASE Submit(a)
    BY <2>3 DEF Submit
  <2> QED
    BY <2>1, <2>2, <2>3 DEF AnalyzerProgress
<1> QED
  BY <1>2, <1>3, <1>4, <1>5, TypeStays DEF AnalyzerRuns, runVars

LEMMA TypeSignal ==
  ASSUME TypeInv, NEW t \in Thread, Interrupted(t) \/ Handle(t)
  PROVE  TypeInv'
<1> USE DEF TypeInv
<1>1. Signal(t) \/ HandlerProgress(t) \/ UNCHANGED runVars
  BY DEF Interrupted, Handle
<1>2. UNCHANGED <<config, pointer, analyzerVars, workerVars>>
  BY DEF Interrupted, Handle
<1>0. ObjectsTyped'
  BY DEF Interrupted, Handle, ObjectsTyped, analyzerVars
<1>3. RunTyped'
  <2> USE DEF RunTyped
  <2>1. CASE Signal(t)
    BY <2>1, InterruptAssumption DEF Signal, InterruptAssumption
  <2>2. CASE HandlerProgress(t)
    BY <2>2 DEF HandlerProgress, HandlerCalls, HandlerLock, HandlerSet, HandlerNotify, InRun
  <2>3. CASE UNCHANGED runVars
    BY <2>3, TypeStays DEF RunTyped
  <2> QED
    BY <1>1, <2>1, <2>2, <2>3
<1>4. ConfigTyped'
  BY <1>1, <1>2 DEF ConfigTyped, analyzerVars, runVars, Signal, HandlerProgress, HandlerCalls,
                    HandlerLock, HandlerSet, HandlerNotify
<1> QED
  BY <1>0, <1>2, <1>3, <1>4, TypeStays DEF analyzerVars

LEMMA TypeNext == TypeInv /\ Ordered /\ [Next]_vars => TypeInv'
<1> SUFFICES ASSUME TypeInv, Ordered, [Next]_vars PROVE TypeInv'
  OBVIOUS
<1>1. CASE UNCHANGED vars
  <2>1. ConfigTyped'
    BY <1>1 DEF TypeInv, ConfigTyped, vars, runVars, analyzerVars
  <2> QED
    BY <1>1, <2>1, TypeStays DEF TypeInv, vars, analyzerVars
<1> QED
  BY <1>1, TypeMain, TypeWorker, TypeAnalyzer, TypeSignal DEF Next, Over

-------------------------------------------------------------------------------
(***************************************************************************)
(* What the worker holds, and when it runs.                                *)
(***************************************************************************)
LEMMA OrderedInit == Init => Ordered
  BY DEF Init, Ordered, Early

(* The main thread, whatever it does, only creates the worker and waits for *)
(* its end.                                                                 *)
LEMMA OrderedMain ==
  ASSUME TypeInv, Ordered, MainProgress \/ Wake
  PROVE  Ordered'
<1> USE DEF Ordered, MainGoes, Early, workerVars
<1>1. CASE LoadConfiguration
  BY <1>1 DEF LoadConfiguration
<1>2. CASE CreateDevices
  BY <1>2 DEF CreateDevices
<1>3. CASE CreateServer
  BY <1>3 DEF CreateServer
<1>4. CASE CreatePointer
  BY <1>4 DEF CreatePointer
<1>5. CASE CheckMembers
  BY <1>5 DEF CheckMembers
<1>6. CASE MainInRun \/ Wake
  BY <1>6 DEF MainInRun, Wake, RunProgress, Install, Acquire, Test, Block, Return, Uninstall,
              SpuriousWakeup
<1>7. CASE DestroyAnalyzer
  BY <1>7 DEF DestroyAnalyzer
<1>8. CASE JoinAnalyzer
  BY <1>8 DEF JoinAnalyzer
<1>9. CASE StopServer \/ JoinServer \/ FreeDevices \/ Exit
  BY <1>9 DEF StopServer, JoinServer, FreeDevices, Exit
<1> QED
  BY <1>1, <1>2, <1>3, <1>4, <1>5, <1>6, <1>7, <1>8, <1>9 DEF MainProgress

LEMMA OrderedWorker ==
  ASSUME TypeInv, Ordered, SetModeControl \/ SetModeAnalyzer \/ ExitWorker \/ WorkerProgress
  PROVE  Ordered'
<1> USE DEF Ordered, Early, runVars
<1>1. CASE SetModeControl
  BY <1>1 DEF SetModeControl, Replace, IoStopped
<1>2. CASE SetModeAnalyzer
  BY <1>2 DEF SetModeAnalyzer, IoStopped
<1>3. CASE Assign
  <2>1. fresh # "uninit"
    BY InterruptAssumption DEF InterruptAssumption, TypeInv, WorkerTyped
  <2> QED
    BY <1>3, <2>1 DEF Assign, Replace
<1>4. CASE JoinOld
  BY <1>4 DEF JoinOld
<1>5. CASE Clear
  BY <1>5 DEF Clear
<1>6. CASE ExitWorker
  BY <1>6 DEF ExitWorker
<1> QED
  BY <1>1, <1>2, <1>3, <1>4, <1>5, <1>6 DEF WorkerProgress

LEMMA OrderedNext == TypeInv /\ Ordered /\ [Next]_vars => Ordered'
<1> SUFFICES ASSUME TypeInv, Ordered, [Next]_vars PROVE Ordered'
  OBVIOUS
<1> USE DEF Ordered, Early, workerVars
<1>1. CASE UNCHANGED vars
  BY <1>1 DEF vars, runVars
<1>2. ASSUME NEW a \in Analyzer, AnalyzerProgress(a) PROVE Ordered'
  BY <1>2 DEF AnalyzerProgress, Loop, Capture, Submit, AnalyzerRuns, runVars
<1>3. ASSUME NEW t \in Thread, Interrupted(t) \/ Handle(t) PROVE Ordered'
  BY <1>3 DEF Interrupted, Handle, Signal, HandlerProgress, HandlerCalls, HandlerLock,
              HandlerSet, HandlerNotify, runVars
<1> QED
  BY <1>1, <1>2, <1>3, OrderedMain, OrderedWorker DEF Next, Over

-------------------------------------------------------------------------------
(***************************************************************************)
(* Where the signal handlers run.                                          *)
(***************************************************************************)
LEMMA HandledInit == Init => Handled
  BY DEF Init, RunInit, Handled, Thread

(* A thread that ends has no handler.                                       *)
LEMMA HandledNext == TypeInv /\ Ordered /\ Handled /\ [Next]_vars => Handled'
<1> SUFFICES ASSUME TypeInv, Ordered, Handled, [Next]_vars PROVE Handled'
  OBVIOUS
<1>0. "main" \in Thread /\ "worker" \in Thread /\ "worker" \notin Analyzer /\ "main" \notin Analyzer
      /\ \A t \in Thread \ {"main", "worker"} : t \in Analyzer
  BY InterruptAssumption DEF InterruptAssumption, Thread
<1> USE DEF Handled, HasThread, Threads
<1>1. CASE UNCHANGED vars
  BY <1>1 DEF vars, runVars, analyzerVars, workerVars
<1>2. CASE MainProgress \/ Wake
  <2>1. CASE MainInRun \/ Wake
    BY <2>1 DEF MainInRun, Wake, MainRuns, RunProgress, Install, Acquire, Test, Block, Return,
                Uninstall, SpuriousWakeup, analyzerVars, workerVars, InRun, Holding
  <2>2. CASE LoadConfiguration
    BY <2>2 DEF LoadConfiguration, MainRuns, analyzerVars, workerVars, InRun, Holding
  <2>3. CASE CreateServer
    BY <2>3 DEF CreateServer, MainGoes, MainRuns, analyzerVars, InRun, Holding, Ordered, Early
  <2>4. CASE JoinAnalyzer
    BY <2>4 DEF JoinAnalyzer, Joined, MainGoes, MainRuns, workerVars, InRun, Holding,
                TypeInv, ThreadsTyped
  <2>5. CASE DestroyAnalyzer
    BY <2>5 DEF DestroyAnalyzer, MainGoes, MainRuns, analyzerVars, workerVars, InRun, Holding
  <2>6. CASE CreateDevices \/ CreatePointer \/ CheckMembers \/ StopServer \/ JoinServer
              \/ FreeDevices \/ Exit
    BY <2>6 DEF CreateDevices, CreatePointer, CheckMembers, StopServer, JoinServer,
                FreeDevices, Exit, MainGoes, MainRuns, analyzerVars, workerVars, InRun, Holding
  <2> QED
    BY <1>2, <2>1, <2>2, <2>3, <2>4, <2>5, <2>6 DEF MainProgress
<1>3. CASE SetModeControl \/ SetModeAnalyzer \/ ExitWorker \/ WorkerProgress
  <2> USE DEF runVars, WorkerRuns
  <2>1. CASE SetModeControl
    BY <2>1, <1>0 DEF SetModeControl, Replace
  <2>2. CASE SetModeAnalyzer
    BY <2>2, <1>0 DEF SetModeAnalyzer, TypeInv, ThreadsTyped
  <2>3. CASE Assign
    BY <2>3, <1>0 DEF Assign, Replace
  <2>4. CASE JoinOld
    BY <2>4, <1>0 DEF JoinOld, Joined, TypeInv, ThreadsTyped
  <2>5. CASE Clear \/ ExitWorker
    BY <2>5, <1>0 DEF Clear, ExitWorker, analyzerVars
  <2> QED
    BY <1>3, <2>1, <2>2, <2>3, <2>4, <2>5 DEF WorkerProgress
<1>4. ASSUME NEW a \in Analyzer, AnalyzerProgress(a) PROVE Handled'
  <2> USE DEF AnalyzerRuns, runVars, workerVars, TypeInv, ThreadsTyped
  <2>1. CASE Loop(a)
    BY <2>1, <1>0 DEF Loop
  <2>2. CASE Capture(a)
    BY <2>2, <1>0 DEF Capture
  <2>3. CASE Submit(a)
    BY <2>3, <1>0 DEF Submit
  <2> QED
    BY <1>4, <2>1, <2>2, <2>3 DEF AnalyzerProgress
<1>5. ASSUME NEW t \in Thread, Interrupted(t) \/ Handle(t) PROVE Handled'
  <2> USE DEF TypeInv, RunTyped
  <2>1. UNCHANGED <<thread, worker>>
    BY <1>5 DEF Interrupted, Handle, analyzerVars, workerVars
  <2>2. CASE Interrupted(t)
    BY <2>1, <2>2, <1>0 DEF Interrupted, Signal
  <2>3. CASE HandlerCalls(t) \/ HandlerLock(t) \/ HandlerSet(t)
    BY <2>1, <2>3, <1>0 DEF HandlerCalls, HandlerLock, HandlerSet
  <2>4. CASE HandlerNotify(t)
    BY <2>1, <2>4, <1>0 DEF HandlerNotify, InRun, Holding
  <2>5. CASE UNCHANGED runVars
    BY <2>1, <2>5 DEF runVars
  <2> QED
    BY <1>5, <2>2, <2>3, <2>4, <2>5 DEF Handle, HandlerProgress
<1> QED
  BY <1>1, <1>2, <1>3, <1>4, <1>5 DEF Next, Over

-------------------------------------------------------------------------------
(***************************************************************************)
(* How many signals there were.                                            *)
(***************************************************************************)
LEMMA WarnedInit == Init => Warned
  BY DEF Init, RunInit, Warned, Leaving, After, InRun, Holding, Pending

(* The main thread's steps leave the handlers and their count alone.        *)
LEMMA WarnedMain ==
  ASSUME Warned, UNCHANGED <<interrupted, handler, signals>>,
         main' \in Starting => main \in Starting,
         main' \in Leaving => main \in Leaving \/ interrupted,
         main' \in InRun \cup {"uninstall"} => gapp'
  PROVE  Warned'
  BY DEF Warned, Pending

LEMMA WarnedSignal ==
  ASSUME TypeInv, Handled, Warned, NEW t \in Thread, Interrupted(t) \/ Handle(t)
  PROVE  Warned'
<1> USE DEF Warned, Pending
<1>0. signals \in Nat /\ DOMAIN handler = Thread
  BY InterruptAssumption DEF InterruptAssumption, TypeInv, RunTyped
<1>1. CASE Interrupted(t)
  <2>1. /\ gapp /\ handler[t] = "none" /\ handler' = [handler EXCEPT ![t] = "use"]
        /\ signals' = signals + 1 /\ UNCHANGED <<main, interrupted, gapp>>
    BY <1>1 DEF Interrupted, Signal
  <2>2. main \notin Starting
    BY <2>1 DEF Handled, Starting, Early, InRun, Holding
  <2> QED
    BY <1>0, <2>1, <2>2
<1>2. CASE HandlerCalls(t) \/ HandlerLock(t)
  <2>1. /\ Pending(t) /\ \E h \in {"lock", "set"} : handler' = [handler EXCEPT ![t] = h]
        /\ UNCHANGED <<main, interrupted, gapp, signals>>
    BY <1>2 DEF HandlerCalls, HandlerLock
  <2> QED
    BY <1>0, <2>1
<1>3. CASE HandlerSet(t)
  <2>1. /\ Pending(t) /\ handler' = [handler EXCEPT ![t] = "notify"] /\ interrupted'
        /\ UNCHANGED <<main, gapp, signals>>
    BY <1>3 DEF HandlerSet
  <2> QED
    BY <1>0, <2>1
<1>4. CASE HandlerNotify(t)
  <2>1. /\ handler' = [handler EXCEPT ![t] = "none"]
        /\ main' = main \/ (main = "wait" /\ main' = "wake")
        /\ UNCHANGED <<interrupted, gapp, signals>>
    BY <1>4 DEF HandlerNotify
  <2>2. /\ main' \in Starting <=> main \in Starting
        /\ main' \in Leaving <=> main \in Leaving
        /\ main' \in InRun \cup {"uninstall"} <=> main \in InRun \cup {"uninstall"}
    BY <2>1 DEF Starting, Early, Leaving, After, InRun, Holding
  <2> QED
    BY <1>0, <2>1, <2>2
<1>5. CASE UNCHANGED runVars
  BY <1>5 DEF runVars
<1> QED
  BY <1>1, <1>2, <1>3, <1>4, <1>5 DEF Handle, HandlerProgress

LEMMA WarnedNext == TypeInv /\ Handled /\ Warned /\ [Next]_vars => Warned'
<1> SUFFICES ASSUME TypeInv, Handled, Warned, [Next]_vars PROVE Warned'
  OBVIOUS
<1>1. CASE UNCHANGED runVars
  BY <1>1 DEF runVars, Warned, Pending
<1>2. CASE MainInRun \/ Wake
  <2>1. /\ UNCHANGED <<interrupted, handler, signals>>
        /\ main' \notin Starting
        /\ main' \in Leaving => main \in Leaving \/ interrupted
        /\ main' \in InRun \cup {"uninstall"} => gapp'
    BY <1>2 DEF MainInRun, Wake, RunProgress, Install, Acquire, Test, Block, Return, Uninstall,
                SpuriousWakeup, Starting, Early, Leaving, After, InRun, Holding, Warned
  <2> QED
    BY <2>1, WarnedMain
<1>3. CASE MainProgress /\ ~ MainInRun
  <2>1. /\ UNCHANGED <<interrupted, handler, signals, gapp>>
        /\ main' \in Starting => main \in Starting
        /\ main' \in Leaving => main \in Leaving
        /\ main' \notin InRun \cup {"uninstall"}
    BY <1>3 DEF MainProgress, LoadConfiguration, CreateDevices, CreateServer, CreatePointer,
                CheckMembers, DestroyAnalyzer, JoinAnalyzer, StopServer, JoinServer,
                FreeDevices, Exit, MainGoes, Starting, Early, Leaving, After, InRun, Holding
  <2> QED
    BY <2>1, WarnedMain
<1>4. ASSUME NEW t \in Thread, Interrupted(t) \/ Handle(t) PROVE Warned'
  BY <1>4, WarnedSignal
<1>5. CASE SetModeControl \/ SetModeAnalyzer \/ ExitWorker \/ WorkerProgress \/ Over
           \/ \E a \in Analyzer : AnalyzerProgress(a)
  <2>1. UNCHANGED runVars
    BY <1>5 DEF SetModeControl, SetModeAnalyzer, ExitWorker, WorkerProgress, Assign, JoinOld,
       Clear, Replace, AnalyzerProgress, Loop, Capture, Submit, AnalyzerRuns, Over, vars
  <2> QED
    BY <1>1, <2>1
<1>6. CASE UNCHANGED vars
  BY <1>1, <1>6 DEF vars
<1> QED
  BY <1>2, <1>3, <1>4, <1>5, <1>6 DEF Next

-------------------------------------------------------------------------------
(***************************************************************************)
(* Who owns the Analyzer objects.                                          *)
(***************************************************************************)
LEMMA OwnedInit == Init => Owned
  BY InterruptAssumption
  DEF Init, InterruptAssumption, Owned, ObjectOwned, PointerOwns, Early

(* The names that are no Analyzer, and the main thread's places.            *)
LEMMA Names ==
  /\ "null" \notin Analyzer /\ "uninit" \notin Analyzer
  /\ After \cap (Early \cup {"pointer"}) = {}
  BY InterruptAssumption DEF InterruptAssumption, After, Early

(* A step of the main thread other than the destruction of m_analyzer.      *)
LEMMA OwnedStays ==
  ASSUME TypeInv, Owned, UNCHANGED <<object, stop, thread, fresh, old, worker, target>>,
         main' \in After => main \in After \/ pointer = "null",
         main \in After => main' \in After,
         main # "join_analyzer", main' # "join_analyzer",
         main' \in Early \cup {"pointer"} => main \in Early \cup {"pointer"},
         pointer' = pointer \/ (main = "pointer" /\ pointer' = "null" /\ main' = "check")
  PROVE  Owned'
<1> USE DEF Owned, ObjectOwned, PointerOwns
<1>1. CASE pointer' = pointer
  BY <1>1, Names
<1>2. CASE pointer' # pointer
  BY <1>2, Names DEF After, Early
<1> QED
  BY <1>1, <1>2

LEMMA OwnedMain ==
  ASSUME TypeInv, Ordered, Owned, MainProgress \/ Wake
  PROVE  Owned'
<1> USE DEF MainGoes, analyzerVars, workerVars
<1>1. CASE LoadConfiguration
  BY <1>1, OwnedStays DEF LoadConfiguration, Early, After
<1>2. CASE CreateDevices
  BY <1>2, OwnedStays DEF CreateDevices, Early, After
<1>3. CASE CreateServer
  <2>1. worker = "none" /\ worker' \in {"none", "idle"}
    BY <1>3 DEF CreateServer, Ordered, Early
  <2> QED
    BY <1>3, <2>1, Names DEF CreateServer, Owned, ObjectOwned, PointerOwns, Early, After
<1>4. CASE CreatePointer
  BY <1>4, OwnedStays DEF CreatePointer, Early, After
<1>5. CASE CheckMembers
  BY <1>5, OwnedStays DEF CheckMembers, Early, After
<1>6. CASE MainInRun \/ Wake
  <2> USE DEF MainInRun, Wake, RunProgress, Install, Acquire, Test, Block, Return, Uninstall,
              SpuriousWakeup, Early, After
  <2>1. UNCHANGED <<pointer, analyzerVars, workerVars>>
    BY <1>6
  <2>2. main \notin After /\ main' \notin After \cup Early \cup {"pointer", "join_analyzer"}
        /\ main # "join_analyzer"
    BY <1>6
  <2> QED
    BY <2>1, <2>2, OwnedStays
<1>7. CASE DestroyAnalyzer
  <2>1. CASE pointer = "null"
    BY <1>7, <2>1, OwnedStays DEF DestroyAnalyzer, Early, After
  <2>2. CASE pointer # "null"
    <3>1. pointer \in Analyzer /\ object[pointer] = "live"
      BY <1>7, <2>2 DEF DestroyAnalyzer, Ordered, TypeInv, WorkerTyped, Owned, PointerOwns,
                        Early, After
    <3>2. /\ object' = [object EXCEPT ![pointer] = "deleting"]
          /\ stop' = [stop EXCEPT ![pointer] = TRUE]
          /\ main = "destroy_analyzer" /\ main' = "join_analyzer"
          /\ UNCHANGED <<pointer, thread, worker, target, fresh, old>>
      BY <1>7, <2>2, <3>1 DEF DestroyAnalyzer, Delete
    <3>3. main \notin After /\ main' \notin After \cup Early \cup {"pointer"}
      BY <3>2 DEF After, Early
    <3> QED
      BY <3>1, <3>2, <3>3 DEF Owned, ObjectOwned, PointerOwns, TypeInv, ObjectsTyped
  <2> QED
    BY <2>1, <2>2
<1>8. CASE JoinAnalyzer
  <2>1. pointer \in Analyzer /\ object[pointer] = "deleting"
    BY <1>8 DEF JoinAnalyzer, Owned, PointerOwns, After
  <2>2. /\ object' = [object EXCEPT ![pointer] = "none"]
        /\ stop' = [stop EXCEPT ![pointer] = FALSE]
        /\ thread' = [thread EXCEPT ![pointer] = "none"]
        /\ main = "join_analyzer" /\ main' = "stop_server"
        /\ pointer' \in {pointer, "null"}
        /\ UNCHANGED <<worker, target, fresh, old>>
    BY <1>8 DEF JoinAnalyzer, Joined
  <2>3. main \notin After /\ main' \in After /\ main' \notin Early \cup {"pointer"}
    BY <2>2 DEF After, Early
  <2> QED
    BY <2>1, <2>2, <2>3, Names
    DEF Owned, ObjectOwned, PointerOwns, TypeInv, ObjectsTyped, ThreadsTyped
<1>9. CASE StopServer \/ JoinServer \/ FreeDevices \/ Exit
  BY <1>9, OwnedStays DEF StopServer, JoinServer, FreeDevices, Exit, After, Early
<1> QED
  BY <1>1, <1>2, <1>3, <1>4, <1>5, <1>6, <1>7, <1>8, <1>9 DEF MainProgress

(* The worker replaces m_analyzer while it exists.                          *)
LEMMA TouchedInTime ==
  ASSUME TypeInv, Ordered, WorkerRuns, worker \in {"idle", "assign"}, Touch, raced' = {}
  PROVE  main \notin After \cup Early \cup {"pointer", "join_analyzer"} /\ raced = {}
  BY DEF Touch, Destroying, WorkerRuns, Running, Ordered, Early, After

LEMMA OwnedWorker ==
  ASSUME TypeInv, Ordered, raced = {} => Owned, raced' = {},
         SetModeControl \/ SetModeAnalyzer \/ ExitWorker \/ WorkerProgress
  PROVE  Owned'
<1> USE DEF runVars, analyzerVars
<1>1. ASSUME NEW new, NEW next, Replace(new, next), WorkerRuns, worker \in {"idle", "assign"}
      PROVE  /\ Owned
             /\ main \notin After \cup Early \cup {"pointer", "join_analyzer"}
             /\ pointer' = new /\ UNCHANGED <<main, thread>>
             /\ \/ pointer = "null" /\ worker' = next /\ UNCHANGED <<old, object, stop>>
                \/ /\ pointer \in Analyzer /\ object[pointer] = "live"
                   /\ worker' = "join" /\ old' = pointer
                   /\ object' = [object EXCEPT ![pointer] = "deleting"]
                   /\ stop' = [stop EXCEPT ![pointer] = TRUE]
  <2>1. Owned /\ main \notin After \cup Early \cup {"pointer", "join_analyzer"}
    BY <1>1, TouchedInTime DEF Replace
  <2>2. pointer # "uninit" \/ main = "failed"
    BY <2>1 DEF Ordered
  <2>3. pointer # "uninit"
    BY <1>1, <2>2 DEF WorkerRuns, Running
  <2>4. pointer \in Analyzer => object[pointer] = "live"
    BY <2>1 DEF Owned, PointerOwns
  <2> QED
    BY <1>1, <2>1, <2>3, <2>4, Names DEF Replace, Delete
<1>2. CASE SetModeControl
  <2>1. fresh = "null" /\ fresh' = fresh /\ old = "null" /\ target' = "control"
    BY <1>2 DEF SetModeControl, Ordered
  <2>2. /\ Owned
        /\ main \notin After \cup Early \cup {"pointer", "join_analyzer"}
        /\ pointer' = "null" /\ UNCHANGED <<main, thread>>
        /\ \/ pointer = "null" /\ worker' = "clear" /\ UNCHANGED <<old, object, stop>>
           \/ /\ pointer \in Analyzer /\ object[pointer] = "live"
              /\ worker' = "join" /\ old' = pointer
              /\ object' = [object EXCEPT ![pointer] = "deleting"]
              /\ stop' = [stop EXCEPT ![pointer] = TRUE]
    BY <1>1, <1>2 DEF SetModeControl
  <2> QED
    BY <2>1, <2>2, Names DEF Owned, ObjectOwned, PointerOwns, TypeInv, ObjectsTyped
<1>3. CASE SetModeAnalyzer
  <2>1. PICK a \in Analyzer : /\ object[a] = "none"
                              /\ object' = [object EXCEPT ![a] = "live"]
                              /\ thread' = [thread EXCEPT ![a] = "head"]
                              /\ fresh' = a
    BY <1>3 DEF SetModeAnalyzer
  <2>2. /\ worker = "idle" /\ worker' = "assign" /\ fresh = "null" /\ old = "null"
        /\ UNCHANGED <<main, pointer, stop, old, raced>>
    BY <1>3 DEF SetModeAnalyzer, Ordered
  <2>3. Owned
    BY <2>2
  <2>4. main = "join_analyzer" => pointer # a
    BY <2>1, <2>3 DEF Owned, PointerOwns, After
  <2> QED
    BY <2>1, <2>2, <2>3, <2>4, Names
    DEF Owned, ObjectOwned, PointerOwns, TypeInv, ObjectsTyped, ThreadsTyped, Alive
<1>4. CASE Assign
  <2>1. fresh' = "null" /\ old = "null" /\ target' = target /\ target = "analyzer"
    BY <1>4 DEF Assign, Ordered
  <2>2. /\ Owned
        /\ main \notin After \cup Early \cup {"pointer", "join_analyzer"}
        /\ pointer' = fresh /\ UNCHANGED <<main, thread>>
        /\ \/ pointer = "null" /\ worker' = "idle" /\ UNCHANGED <<old, object, stop>>
           \/ /\ pointer \in Analyzer /\ object[pointer] = "live"
              /\ worker' = "join" /\ old' = pointer
              /\ object' = [object EXCEPT ![pointer] = "deleting"]
              /\ stop' = [stop EXCEPT ![pointer] = TRUE]
    BY <1>1, <1>4 DEF Assign
  <2> QED
    BY <2>1, <2>2, Names
    DEF Owned, ObjectOwned, PointerOwns, TypeInv, ObjectsTyped, WorkerTyped
<1>5. CASE JoinOld
  <2>1. /\ object' = [object EXCEPT ![old] = "none"]
        /\ stop' = [stop EXCEPT ![old] = FALSE]
        /\ thread' = [thread EXCEPT ![old] = "none"]
        /\ worker = "join" /\ worker' = IF target = "control" THEN "clear" ELSE "idle"
        /\ old' = "null" /\ fresh = "null"
        /\ UNCHANGED <<main, pointer, target, fresh, raced>>
    BY <1>5 DEF JoinOld, Joined, Ordered
  <2>2. Owned
    BY <2>1
  <2> QED
    BY <2>1, <2>2, Names
    DEF Owned, ObjectOwned, PointerOwns, TypeInv, ObjectsTyped, ThreadsTyped, WorkerTyped
<1>6. CASE Clear \/ ExitWorker
  <2>1. /\ worker' \in {"idle", "exited"}
        /\ UNCHANGED <<main, pointer, object, stop, thread, fresh, old, raced>>
    BY <1>6 DEF Clear, ExitWorker
  <2> QED
    BY <2>1 DEF Owned, ObjectOwned, PointerOwns
<1> QED
  BY <1>2, <1>3, <1>4, <1>5, <1>6 DEF WorkerProgress

(* An analyzer thread ends only when its object is being deleted.           *)
LEMMA OwnedAnalyzer ==
  ASSUME TypeInv, Owned, NEW a \in Analyzer, AnalyzerProgress(a)
  PROVE  Owned'
<1>1. /\ \E p \in Alive \cup {"exited"} :
            /\ thread' = [thread EXCEPT ![a] = p]
            /\ p = "exited" => stop[a]
      /\ thread[a] # "none"
      /\ UNCHANGED <<main, pointer, object, stop, worker, target, fresh, old>>
  BY DEF AnalyzerProgress, Loop, Capture, Submit, AnalyzerRuns, runVars, workerVars, Alive
<1> QED
  BY <1>1 DEF Owned, ObjectOwned, PointerOwns, TypeInv, ThreadsTyped, ObjectsTyped, Alive

LEMMA OwnedSignal ==
  ASSUME TypeInv, Owned, NEW t \in Thread, Interrupted(t) \/ Handle(t)
  PROVE  Owned'
<1>1. UNCHANGED <<pointer, analyzerVars, workerVars>>
  BY DEF Interrupted, Handle
<1>2. main' = main \/ (main = "wait" /\ main' = "wake")
  BY DEF Interrupted, Handle, Signal, HandlerProgress, HandlerCalls, HandlerLock, HandlerSet,
         HandlerNotify, runVars
<1> QED
  BY <1>1, <1>2 DEF Owned, ObjectOwned, PointerOwns, analyzerVars, workerVars, After, Early

LEMMA OwnedNext ==
  TypeInv /\ Ordered /\ (raced = {} => Owned) /\ [Next]_vars => (raced' = {} => Owned')
<1> SUFFICES ASSUME TypeInv, Ordered, raced = {} => Owned, [Next]_vars, raced' = {}
             PROVE  Owned'
  OBVIOUS
<1>1. CASE UNCHANGED vars
  BY <1>1 DEF vars, runVars, analyzerVars, workerVars, Owned, ObjectOwned, PointerOwns
<1>2. CASE MainProgress \/ Wake
  <2>1. raced' = raced
    BY <1>2 DEF MainProgress, Wake, LoadConfiguration, CreateDevices, CreateServer,
       CreatePointer, CheckMembers, MainInRun, DestroyAnalyzer, JoinAnalyzer, StopServer,
       JoinServer, FreeDevices, Exit, workerVars
  <2> QED
    BY <1>2, <2>1, OwnedMain
<1>3. CASE SetModeControl \/ SetModeAnalyzer \/ ExitWorker \/ WorkerProgress
  BY <1>3, OwnedWorker
<1>4. ASSUME NEW a \in Analyzer, AnalyzerProgress(a) PROVE Owned'
  <2>1. raced' = raced
    BY <1>4 DEF AnalyzerProgress, Loop, Capture, Submit, AnalyzerRuns, workerVars
  <2> QED
    BY <1>4, <2>1, OwnedAnalyzer
<1>5. ASSUME NEW t \in Thread, Interrupted(t) \/ Handle(t) PROVE Owned'
  <2>1. raced' = raced
    BY <1>5 DEF Interrupted, Handle, workerVars
  <2> QED
    BY <1>5, <2>1, OwnedSignal
<1> QED
  BY <1>1, <1>2, <1>3, <1>4, <1>5 DEF Next, Over

-------------------------------------------------------------------------------
(***************************************************************************)
(* The theorems.                                                           *)
(***************************************************************************)
Inv == TypeInv /\ Ordered /\ Handled /\ Warned /\ (raced = {} => Owned)

LEMMA InvInit == Init => Inv
  BY TypeInit, OrderedInit, HandledInit, WarnedInit, OwnedInit DEF Inv

LEMMA InvNext == Inv /\ [Next]_vars => Inv'
  BY TypeNext, OrderedNext, HandledNext, WarnedNext, OwnedNext DEF Inv

LEMMA Invariance == Spec => []Inv
  BY InvInit, InvNext, PTL DEF Spec

(* Every variable of the application keeps its type: the analyzer's loop    *)
(* over the devices stays within them, and m_analyzer holds an Analyzer,    *)
(* null, or what was in its memory.                                         *)
THEOREM TypeCorrect == Spec => []TypeOK
<1>1. Inv => TypeOK
  BY TypeInvIsTypeOK DEF Inv
<1> QED
  BY <1>1, Invariance, PTL

(* An analyzer thread that still runs belongs to an object in the hands of  *)
(* m_analyzer or of setMode(), and the devices outlive it.                  *)
LEMMA RunningIsOwned ==
  ASSUME Inv, raced = {}, NEW a \in Threads
  PROVE  /\ a \in Analyzer /\ object[a] # "none" /\ a \in {pointer, fresh, old}
         /\ main \notin {"free_devices", "leave", "exited"}
<1>1. a \in Analyzer /\ object[a] # "none"
  BY DEF Threads, Inv, Owned, ObjectOwned
<1>2. object[a] \in {"live", "deleting"}
  BY <1>1 DEF Inv, TypeInv, ObjectsTyped
<1>3. a \in {pointer, fresh, old}
  BY <1>1, <1>2 DEF Inv, Owned, ObjectOwned
<1>4. ASSUME main \in {"free_devices", "leave", "exited"} PROVE FALSE
  <2>1. worker = "exited" /\ fresh = "null" /\ old = "null"
    BY <1>4 DEF Inv, Ordered
  <2>2. main \in After /\ main # "join_analyzer"
    BY <1>4 DEF After
  <2>3. pointer = a /\ a # fresh
    BY <1>1, <1>3, <2>1, Names
  <2> QED
    BY <1>1, <2>2, <2>3 DEF Inv, Owned, PointerOwns
<1> QED
  BY <1>1, <1>3, <1>4

(* Whatever the clients' set_mode requests and the analyzers' errors: a     *)
(* running analyzer thread uses memory that exists.                         *)
THEOREM ThreadsAreOwned == Spec => []AnalyzersAreOwned
<1>1. Inv => AnalyzersAreOwned
  BY RunningIsOwned DEF AnalyzersAreOwned, DevicesAlive
<1> QED
  BY <1>1, Invariance, PTL

LEMMA NobodyElseInClear == Inv => ClearRunsAlone
<1> SUFFICES ASSUME Inv, worker = "clear", raced = {}, NEW a \in Threads PROVE FALSE
  BY DEF ClearRunsAlone
<1>1. pointer = "null" /\ fresh = "null" /\ old = "null"
  BY DEF Inv, Owned, Ordered
<1> QED
  BY <1>1, RunningIsOwned, Names

(* setMode(Control) calls Devices::clear() when no analyzer thread runs.    *)
THEOREM ClearIsAlone == Spec => []ClearRunsAlone
  BY NobodyElseInClear, Invariance, PTL

(* What get_mode answers is what runs.                                      *)
THEOREM ModesAreTrue == Spec => []ModeIsTrue
<1>1. Inv => ModeIsTrue
  <2> SUFFICES ASSUME Inv, worker = "idle", raced = {}, main \in InRun \cup {"check", "install"}
               PROVE  /\ Threads = IF GetMode = "control" THEN {} ELSE {pointer}
                      /\ \A a \in Threads : ~ stop[a]
    BY DEF ModeIsTrue
  <2>1. fresh = "null" /\ old = "null"
    BY DEF Inv, Ordered
  <2>2. main \notin After \cup Early \cup {"pointer", "failed", "join_analyzer"}
    BY DEF InRun, Holding, After, Early
  <2>3. Threads \subseteq {pointer}
    BY <2>1, RunningIsOwned, Names
  <2>4. pointer \in Analyzer \cup {"null"}
    BY <2>2 DEF Inv, Ordered, TypeInv, WorkerTyped
  <2>5. pointer \in Analyzer => pointer \in Threads /\ object[pointer] = "live"
    BY <2>2 DEF Inv, Owned, ObjectOwned, PointerOwns, Threads, Alive
  <2>6. \A a \in Threads : ~ stop[a]
    BY <2>3, <2>5, RunningIsOwned DEF Inv, Owned, ObjectOwned
  <2>7. pointer = "null" => Threads = {}
    BY <2>3, RunningIsOwned, Names
  <2> QED
    BY <2>3, <2>4, <2>5, <2>6, <2>7, Names DEF GetMode
<1> QED
  BY <1>1, Invariance, PTL

(* When the last member is gone no handler is left that has tested G_APP,   *)
(* whether it still has to use the pointer or is inside interrupt().        *)
THEOREM HandlersAreServed == Spec => []HandlersHaveApplication
<1>1. Inv => HandlersHaveApplication
  <2> SUFFICES ASSUME Inv, raced = {}, main \in {"leave", "exited"}, NEW t \in Thread,
                      handler[t] # "none"
               PROVE  FALSE
    BY DEF HandlersHaveApplication
  <2>1. t # "main"
    BY DEF Inv, Handled, InRun, Holding
  <2>2. worker = "exited"
    BY DEF Inv, Ordered
  <2>3. t \in Threads
    BY <2>1, <2>2 DEF Inv, Handled, HasThread
  <2> QED
    BY <2>3, RunningIsOwned
<1> QED
  BY <1>1, Invariance, PTL

(* A process that has crashed does nothing more.                            *)
LEMMA CrashIsFinal == crashed /\ [Next]_vars => UNCHANGED vars
<1> SUFFICES ASSUME crashed, [Next]_vars PROVE UNCHANGED vars
  OBVIOUS
<1>1. ~ Running
  BY DEF Running
<1>2. ~ MainProgress /\ ~ Wake
  BY <1>1 DEF MainProgress, LoadConfiguration, CreateDevices, CreateServer, CreatePointer,
       CheckMembers, MainInRun, DestroyAnalyzer, JoinAnalyzer, StopServer, JoinServer,
       FreeDevices, Exit, Wake, MainGoes, MainRuns
<1>3. ~ (SetModeControl \/ SetModeAnalyzer \/ ExitWorker \/ WorkerProgress)
  BY <1>1 DEF SetModeControl, SetModeAnalyzer, ExitWorker, WorkerProgress, Assign, JoinOld,
       Clear, WorkerRuns
<1>4. \A a \in Analyzer : ~ AnalyzerProgress(a)
  BY <1>1 DEF AnalyzerProgress, Loop, Capture, Submit, AnalyzerRuns
<1>5. \A t \in Thread : ~ Interrupted(t) /\ ~ Handle(t)
  BY <1>1 DEF Interrupted, Handle
<1> QED
  BY <1>2, <1>3, <1>4, <1>5 DEF Next, Over

(* An application that keeps its hands off m_analyzer when it is not there  *)
(* can only die of the null pointer.                                        *)
LEMMA CrashesOfNull ==
  ASSUME Inv, ~ crashed, [Next]_vars, crashed', raced' = {}
  PROVE  \E t \in Thread : Handle(t) /\ NullPointer(t)
<1>1. CASE MainProgress \/ Wake
  <2>1. DestroyAnalyzer
    BY <1>1 DEF MainProgress, Wake, LoadConfiguration, CreateDevices, CreateServer,
       CreatePointer, CheckMembers, MainInRun, JoinAnalyzer, StopServer, JoinServer,
       FreeDevices, Exit
  <2>2. raced = {} /\ main = "destroy_analyzer" /\ pointer # "null" /\ Delete(pointer)
    BY <2>1 DEF DestroyAnalyzer, MainGoes, workerVars
  <2>3. pointer \in Analyzer
    BY <2>2 DEF Inv, Ordered, TypeInv, WorkerTyped, Early
  <2>4. object[pointer] = "live"
    BY <2>2, <2>3 DEF Inv, Owned, PointerOwns, After
  <2> QED
    BY <2>2, <2>4 DEF Delete
<1>2. CASE SetModeControl \/ SetModeAnalyzer \/ ExitWorker \/ WorkerProgress
  <2>1. PICK new, next : Replace(new, next) /\ WorkerRuns /\ worker \in {"idle", "assign"}
    BY <1>2 DEF SetModeControl, SetModeAnalyzer, ExitWorker, WorkerProgress, Assign, JoinOld,
                Clear
  <2>2. raced = {} /\ main \notin After \cup Early \cup {"pointer", "join_analyzer"}
    BY <2>1, TouchedInTime DEF Inv, Replace
  <2>3. pointer # "uninit"
    BY <2>1, <2>2 DEF Inv, Ordered, WorkerRuns, Running
  <2>4. pointer \in Analyzer => object[pointer] = "live"
    BY <2>2 DEF Inv, Owned, PointerOwns
  <2> QED
    BY <2>1, <2>3, <2>4 DEF Replace, Delete
<1>3. ASSUME NEW a \in Analyzer, AnalyzerProgress(a) PROVE FALSE
  <2>1. Submit(a) /\ ~ DevicesAlive /\ raced = {}
    BY <1>3 DEF AnalyzerProgress, Loop, Capture, Submit, AnalyzerRuns, workerVars
  <2>2. a \in Threads
    BY <2>1 DEF Submit, Threads
  <2> QED
    BY <2>1, <2>2, RunningIsOwned DEF DevicesAlive
<1>4. CASE \E t \in Thread : Interrupted(t) \/ Handle(t)
  BY <1>4 DEF Interrupted, Handle
<1>5. CASE Over \/ UNCHANGED vars
  BY <1>5 DEF Over, vars
<1> QED
  BY <1>1, <1>2, <1>3, <1>4, <1>5 DEF Next

(* The handler that finds G_APP set and then null belongs to a second       *)
(* signal: main() resets it after run() has returned, for which another     *)
(* handler has set m_interrupted.                                           *)
LEMMA NullNeedsTwo ==
  ASSUME Inv, NEW t \in Thread, Running, NullPointer(t)
  PROVE  signals > 1
<1>1. handler[t] = "use" /\ ~ gapp /\ signals > 0
  BY DEF NullPointer, Inv, Warned
<1>2. main \notin Starting /\ main \notin InRun \cup {"uninstall"}
  BY <1>1 DEF Inv, Warned, Handled
<1>3. main \in Leaving
  BY <1>2 DEF Running, Inv, TypeInv, RunTyped, Destroying, Starting, Early, Leaving, After
<1> QED
  BY <1>1, <1>3 DEF Inv, Warned, Pending

(* A single SIGINT, on whatever thread and at whatever moment, ends the     *)
(* application without a crash.                                             *)
THEOREM SingleSignalIsSafe == Spec => []OneSignalIsSafe
<1>1. Init => OneSignalIsSafe
  BY DEF Init, OneSignalIsSafe
<1>2. Inv /\ OneSignalIsSafe /\ [Next]_vars => OneSignalIsSafe'
  <2> SUFFICES ASSUME Inv, OneSignalIsSafe, [Next]_vars, raced' = {}, crashed'
               PROVE  signals' > 1
    BY DEF OneSignalIsSafe
  <2>1. CASE crashed
    <3>1. UNCHANGED vars
      BY <2>1, CrashIsFinal
    <3> QED
      BY <2>1, <3>1 DEF OneSignalIsSafe, vars, runVars, workerVars
  <2>2. CASE ~ crashed
    <3>1. PICK t \in Thread : Handle(t) /\ NullPointer(t)
      BY <2>2, CrashesOfNull
    <3>2. signals > 1 /\ UNCHANGED signals
      BY <3>1, NullNeedsTwo
      DEF Handle, HandlerProgress, HandlerCalls, HandlerLock, HandlerSet, HandlerNotify,
          NullPointer, runVars
    <3> QED
      BY <3>2
  <2> QED
    BY <2>1, <2>2
<1> QED
  BY <1>1, <1>2, Invariance, PTL DEF Spec

===============================================================================
