---------------------------- MODULE TransportProofs ----------------------------
(***************************************************************************)
(* Proofs about the ports below the device manager: the manager over them  *)
(* is the one of the module Devices, so that what DevicesProofs has proved *)
(* holds here too, and no failure makes a device lose track of its         *)
(* descriptor.                                                             *)
(***************************************************************************)
EXTENDS Transport, DevicesProofs

-------------------------------------------------------------------------------
(***************************************************************************)
(* Superposition: every step is a step of the manager or leaves it alone.  *)
(***************************************************************************)
LEMMA StepOfManager == [TransportNext]_transportVars => [Next]_vars
<1> SUFFICES ASSUME [TransportNext]_transportVars PROVE [Next]_vars
  OBVIOUS
<1>1. ASSUME NEW t \in Client, TransportProgress(t) PROVE Progress(t) \/ UNCHANGED vars
  <2> USE DEF Progress
  <2>1. CASE Elsewhere(t)
    BY <2>1 DEF Elsewhere
  <2>2. CASE Send(t) \/ SendFails(t)
    BY <2>2 DEF Send, SendFails
  <2>3. CASE BeginReset(t) \/ Close(t) \/ Open(t)
    BY <2>3 DEF BeginReset, Close, Open
  <2>4. CASE OpenFails(t) \/ Configure(t) \/ ConfigureFails(t)
    BY <2>4 DEF OpenFails, Configure, ConfigureFails, EndReset
  <2> QED
    BY <1>1, <2>1, <2>2, <2>3, <2>4 DEF TransportProgress
<1>2. ASSUME NEW t \in Client, NEW c \in Calls, Enter(t, c) PROVE Invoke(t, c)
  BY <1>2 DEF Enter
<1>3. ASSUME NEW d \in Device, HardwareChanges(d) PROVE UNCHANGED vars
  BY <1>3 DEF HardwareChanges
<1>4. CASE OtherFiles
  BY <1>4 DEF OtherFiles
<1>5. CASE UNCHANGED transportVars
  BY <1>5 DEF transportVars
<1> QED
  BY <1>1, <1>2, <1>3, <1>4, <1>5 DEF TransportNext, Next

(* The manager over these ports is the one of the module Devices            *)
(* (DeviceManager without its fairness): whatever part of reset() fails,    *)
(* its callers see a reset.                                                 *)
THEOREM RefinesManager == TransportSpec => Init /\ [][Next]_vars
<1>1. TransportInit => Init
  BY DEF TransportInit
<1> QED
  BY <1>1, StepOfManager, PTL DEF TransportSpec

(* Whatever the hardware does: threads never race on a device, and a call   *)
(* that returns has set its colours and shown them.                         *)
THEOREM ManagerIsSafe ==
  ASSUME ClearAlone
  PROVE  TransportSpec => [](NoDataRace /\ SuccessIsShown)
<1>1. TransportInit => EffectInv
  BY EffectInit DEF TransportInit
<1>2. EffectInv /\ [TransportNext]_transportVars => EffectInv'
  BY EffectStep, StepOfManager
<1>3. EffectInv => NoDataRace /\ SuccessIsShown
  BY OneAtWork DEF EffectInv, NoDataRace, Inside, AtWork, Effect, Kept, Landed, SuccessIsShown
<1> QED
  BY <1>1, <1>2, <1>3, PTL DEF TransportSpec

-------------------------------------------------------------------------------
(***************************************************************************)
(* Descriptors.  That closing comes before opening only on SPI devices is  *)
(* what keeps a serial device's port until the new one is open; nobody's   *)
(* descriptor is another's, because open() returns free ones.              *)
(***************************************************************************)
Apportioned ==
  /\ \A d \in Device : held[d] \cap others = {}
  /\ \A d, e \in Device : d # e => held[d] \cap held[e] = {}

PortsTyped ==
  /\ fd \in [Device -> Descriptor \cup {NoDescriptor}]
  /\ held \in [Device -> SUBSET Descriptor]
  /\ others \subseteq Descriptor
  /\ hardware \in [Device -> {"good", "flaky", "gone"}]
  /\ live \in [Device -> BOOLEAN]
  /\ tuned \in [Device -> BOOLEAN]
  /\ phase \in [Device -> {"none", "close", "open", "configure"}]

Attended ==
  \A d \in Device :
    phase[d] # "none" => \E t \in Client : pc[t] = "sleep" /\ at[t] = d

Ports == PortsTyped /\ OwnsItsDescriptor /\ Apportioned /\ \A d \in Device : phase[d] = "close" => d \in SPI

DescriptorInv == TypeInv /\ Attended /\ Ports

LEMMA DescriptorInit == TransportInit => DescriptorInv
<1> SUFFICES ASSUME TransportInit PROVE DescriptorInv
  OBVIOUS
<1>1. Descriptor \subseteq Nat
  BY TransportAssumption DEF TransportAssumption
<1> USE DEF TransportInit
<1>2. fd \in [Device -> Descriptor] /\ \A d, e \in Device : fd[d] = fd[e] => d = e
  OBVIOUS
<1>3. PortsTyped
  BY <1>2 DEF PortsTyped
<1>4. OwnsItsDescriptor
  BY <1>1, <1>2 DEF OwnsItsDescriptor, NoDescriptor
<1>5. Apportioned
  BY <1>2 DEF Apportioned
<1> QED
  BY <1>3, <1>4, <1>5, TypeInit DEF DescriptorInv, Ports, Attended

(* A thread in reset() sleeps for a device that exists.                     *)
LEMMA SleeperAtDevice ==
  ASSUME TypeInv, NEW t \in Client, pc[t] = "sleep"
  PROVE  at[t] \in Device
  BY DEF TypeInv, Placed, Inside

(* Each part of reset() leaves the ports in order.                          *)
LEMMA ResetKeepsPorts ==
  ASSUME DescriptorInv, NEW t \in Client,
         BeginReset(t) \/ Close(t) \/ Open(t) \/ OpenFails(t) \/ Configure(t)
           \/ ConfigureFails(t)
  PROVE  Ports'
<1> DEFINE d == at[t]
<1>1. pc[t] = "sleep"
  BY DEF BeginReset, Close, Open, OpenFails, Configure, ConfigureFails, At
<1>2. d \in Device
  BY <1>1, SleeperAtDevice DEF DescriptorInv
<1>3. Descriptor \subseteq Nat
  BY TransportAssumption DEF TransportAssumption
<1> HIDE DEF d
<1> USE <1>2 DEF DescriptorInv, Ports, world, port, At, EndReset
<1>4. CASE BeginReset(t)
  <2>1. /\ phase[d] = "none"
        /\ phase' = [phase EXCEPT ![d] = IF d \in SPI THEN "close" ELSE "open"]
        /\ UNCHANGED <<fd, held, others, hardware, live, tuned>>
    BY <1>4 DEF BeginReset, d
  <2>2. PortsTyped'
    BY <2>1 DEF PortsTyped
  <2>3. OwnsItsDescriptor' /\ Apportioned' /\ \A e \in Device : phase'[e] = "close" => e \in SPI
    BY <2>1 DEF PortsTyped, OwnsItsDescriptor, Apportioned
  <2> QED
    BY <2>2, <2>3
<1>5. CASE Close(t)
  <2>1. /\ phase[d] = "close" /\ d \in SPI
        /\ held' = [held EXCEPT ![d] = @ \ {fd[d]}]
        /\ fd' \in {fd, [fd EXCEPT ![d] = NoDescriptor]}
        /\ live' = [live EXCEPT ![d] = FALSE]
        /\ tuned' = [tuned EXCEPT ![d] = FALSE]
        /\ phase' = [phase EXCEPT ![d] = "open"]
        /\ UNCHANGED <<others, hardware>>
    BY <1>5 DEF Close, d
  <2>2. PortsTyped'
    BY <2>1 DEF PortsTyped
  <2>3. held'[d] = {} /\ \A e \in Device \ {d} : held'[e] = held[e] /\ fd'[e] = fd[e]
    BY <2>1 DEF PortsTyped, OwnsItsDescriptor
  <2>4. OwnsItsDescriptor' /\ Apportioned' /\ \A e \in Device : phase'[e] = "close" => e \in SPI
    BY <2>1, <2>3 DEF PortsTyped, OwnsItsDescriptor, Apportioned
  <2> QED
    BY <2>2, <2>4
<1>6. CASE Open(t)
  <2>1. PICK n \in Free : fd' = [fd EXCEPT ![d] = n] /\ held' = [held EXCEPT ![d] = {n}]
    BY <1>6 DEF Open, d
  <2>2. /\ n \in Descriptor /\ n # NoDescriptor /\ n \notin others
        /\ \A e \in Device : n \notin held[e]
    BY <1>3 DEF Free, NoDescriptor
  <2>3. /\ phase[d] = "open"
        /\ live' = [live EXCEPT ![d] = TRUE]
        /\ phase' = [phase EXCEPT ![d] = "configure"]
        /\ UNCHANGED <<others, hardware, tuned>>
    BY <1>6 DEF Open, d
  <2>4. PortsTyped'
    BY <2>1, <2>2, <2>3 DEF PortsTyped
  <2>5. OwnsItsDescriptor' /\ Apportioned' /\ \A e \in Device : phase'[e] = "close" => e \in SPI
    BY <2>1, <2>2, <2>3 DEF PortsTyped, OwnsItsDescriptor, Apportioned
  <2> QED
    BY <2>4, <2>5
<1>7. CASE OpenFails(t)
  <2>1. /\ phase[d] = "open"
        /\ fd' = IF d \in SPI THEN [fd EXCEPT ![d] = NoDescriptor] ELSE fd
        /\ phase' = [phase EXCEPT ![d] = "none"]
        /\ UNCHANGED <<held, others, hardware, live, tuned>>
    BY <1>7 DEF OpenFails, d
  <2>2. PortsTyped'
    BY <2>1 DEF PortsTyped
  <2>3. OwnsItsDescriptor' /\ Apportioned' /\ \A e \in Device : phase'[e] = "close" => e \in SPI
    BY <2>1 DEF PortsTyped, OwnsItsDescriptor, Apportioned
  <2> QED
    BY <2>2, <2>3
<1>8. CASE Configure(t) \/ ConfigureFails(t)
  <2>1. /\ phase[d] = "configure"
        /\ tuned' \in {tuned, [tuned EXCEPT ![d] = TRUE]}
        /\ phase' = [phase EXCEPT ![d] = "none"]
        /\ UNCHANGED <<fd, held, others, hardware, live>>
    BY <1>8 DEF Configure, ConfigureFails, d
  <2>2. PortsTyped'
    BY <2>1 DEF PortsTyped
  <2>3. OwnsItsDescriptor' /\ Apportioned' /\ \A e \in Device : phase'[e] = "close" => e \in SPI
    BY <2>1 DEF PortsTyped, OwnsItsDescriptor, Apportioned
  <2> QED
    BY <2>2, <2>3
<1> QED
  BY <1>4, <1>5, <1>6, <1>7, <1>8

(* Hardware does not touch descriptors, and other files are opened on free  *)
(* ones.                                                                    *)
LEMMA WorldKeepsPorts ==
  ASSUME DescriptorInv, OtherFiles \/ \E d \in Device : HardwareChanges(d)
  PROVE  Ports'
<1> USE DEF DescriptorInv, Ports
<1>1. CASE OtherFiles
  <2>1. others' \subseteq Descriptor /\ \A d \in Device : held[d] \cap others' = {}
    BY <1>1 DEF OtherFiles, OthersOpen, OthersClose, Free, PortsTyped, Apportioned
  <2>2. UNCHANGED <<fd, held, hardware, live, tuned, phase>>
    BY <1>1 DEF OtherFiles, port
  <2>3. PortsTyped'
    BY <2>1, <2>2 DEF PortsTyped
  <2>4. OwnsItsDescriptor' /\ Apportioned'
    BY <2>1, <2>2 DEF OwnsItsDescriptor, Apportioned
  <2> QED
    BY <2>2, <2>3, <2>4
<1>2. ASSUME NEW d \in Device, HardwareChanges(d) PROVE Ports'
  <2>1. UNCHANGED <<fd, held, others, phase>>
    BY <1>2 DEF HardwareChanges
  <2>2. hardware' \in [Device -> {"good", "flaky", "gone"}]
    BY <1>2 DEF HardwareChanges, PortsTyped
  <2>3. live' \in [Device -> BOOLEAN] /\ tuned' \in [Device -> BOOLEAN]
    BY <1>2 DEF HardwareChanges, PortsTyped
  <2>4. PortsTyped'
    BY <2>1, <2>2, <2>3 DEF PortsTyped
  <2>5. OwnsItsDescriptor' /\ Apportioned'
    BY <2>1 DEF OwnsItsDescriptor, Apportioned
  <2> QED
    BY <2>1, <2>4, <2>5
<1> QED
  BY <1>1, <1>2

LEMMA PortsStay == Ports /\ UNCHANGED <<port, world>> => Ports'
  BY DEF Ports, PortsTyped, OwnsItsDescriptor, Apportioned, port, world

(* A thread stays asleep until its reset() is over.                         *)
LEMMA AttendedStep ==
  ASSUME DescriptorInv, [TransportNext]_transportVars
  PROVE  Attended'
<1> USE DEF DescriptorInv, Attended
<1>0. pc \in [Client -> {"idle", "start", "try", "update", "sleep", "return", "throw"}]
      /\ at \in [Client -> Nat] /\ phase \in [Device -> {"none", "close", "open", "configure"}]
  BY DEF TypeInv, TypeOK, Ports, PortsTyped
<1>1. ASSUME NEW t \in Client, Elsewhere(t) \/ Send(t) \/ SendFails(t) PROVE Attended'
  <2>1. pc[t] # "sleep" /\ phase' = phase
    BY <1>1 DEF Elsewhere, Send, SendFails, Lock, Begin, Reject, Get, Set, Leave, Update,
                UpdateFails, port
  <2>2. \A u \in Client \ {t} : pc'[u] = pc[u] /\ at'[u] = at[u]
    BY <1>0, <1>1 DEF Elsewhere, Send, SendFails, Lock, Begin, Reject, Get, Set, Leave, Update,
                UpdateFails, Done, Caught
  <2> QED
    BY <2>1, <2>2
<1>2. ASSUME NEW t \in Client, BeginReset(t) \/ Close(t) \/ Open(t) PROVE Attended'
  <2>1. pc[t] = "sleep" /\ UNCHANGED <<pc, at>>
    BY <1>2 DEF BeginReset, Close, Open, At, vars
  <2>2. \A d \in Device \ {at[t]} : phase'[d] = phase[d]
    BY <1>0, <1>2 DEF BeginReset, Close, Open
  <2> QED
    BY <2>1, <2>2
<1>3. ASSUME NEW t \in Client, OpenFails(t) \/ Configure(t) \/ ConfigureFails(t) PROVE Attended'
  <2>1. /\ phase' = [phase EXCEPT ![at[t]] = "none"]
        /\ pc' = [pc EXCEPT ![t] = "try"] /\ at' = at
    BY <1>3 DEF OpenFails, Configure, ConfigureFails, EndReset, Reset
  <2> QED
    BY <1>0, <2>1
<1>4. ASSUME NEW t \in Client, NEW c \in Calls, Enter(t, c) PROVE Attended'
  <2>1. pc[t] = "idle" /\ phase' = phase
    BY <1>4 DEF Enter, Invoke, port
  <2>2. \A u \in Client \ {t} : pc'[u] = pc[u] /\ at'[u] = at[u]
    BY <1>0, <1>4 DEF Enter, Invoke
  <2> QED
    BY <2>1, <2>2
<1>5. ASSUME OtherFiles \/ (\E d \in Device : HardwareChanges(d)) \/ UNCHANGED transportVars
      PROVE  Attended'
  <2>1. UNCHANGED <<pc, at, phase>>
    BY <1>5 DEF OtherFiles, HardwareChanges, transportVars, vars, port
  <2> QED
    BY <2>1
<1> QED
  BY <1>1, <1>2, <1>3, <1>4, <1>5 DEF TransportNext, TransportProgress

LEMMA DescriptorStep == DescriptorInv /\ [TransportNext]_transportVars => DescriptorInv'
<1> SUFFICES ASSUME DescriptorInv, [TransportNext]_transportVars PROVE DescriptorInv'
  OBVIOUS
<1>1. TypeInv'
  BY TypeStep, StepOfManager DEF DescriptorInv
<1>2. Attended'
  BY AttendedStep
<1>3. Ports'
  <2>1. ASSUME NEW t \in Client, Elsewhere(t) \/ Send(t) \/ SendFails(t) PROVE Ports'
    BY <2>1, PortsStay DEF Elsewhere, Send, SendFails, DescriptorInv
  <2>2. ASSUME NEW t \in Client, NEW c \in Calls, Enter(t, c) PROVE Ports'
    BY <2>2, PortsStay DEF Enter, DescriptorInv
  <2>3. CASE UNCHANGED transportVars
    BY <2>3, PortsStay DEF transportVars, DescriptorInv
  <2> QED
    BY <2>1, <2>2, <2>3, ResetKeepsPorts, WorldKeepsPorts DEF TransportNext, TransportProgress
<1> QED
  BY <1>1, <1>2, <1>3 DEF DescriptorInv

(* Every variable keeps its type, and a reset() under way has its thread.   *)
THEOREM TransportTypeCorrect == TransportSpec => []TransportTypeOK
<1>1. DescriptorInv => TransportTypeOK
  BY DEF DescriptorInv, Ports, TypeInv, Attended, PortsTyped, TransportTypeOK
<1> QED
  BY <1>1, DescriptorInit, DescriptorStep, PTL DEF TransportSpec

(* Whatever fails, and whoever opens files meanwhile: a device holds one    *)
(* descriptor at most, and what it has stored is that one or none.          *)
THEOREM DescriptorsAreOwned == TransportSpec => []OwnsItsDescriptor
<1>1. DescriptorInv => OwnsItsDescriptor
  BY DEF DescriptorInv, Ports
<1> QED
  BY <1>1, DescriptorInit, DescriptorStep, PTL DEF TransportSpec

===============================================================================
