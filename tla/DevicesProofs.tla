----------------------------- MODULE DevicesProofs -----------------------------
(***************************************************************************)
(* Proofs about the device manager, for every number of threads, devices,  *)
(* channels and retries.  Apart from type correctness they assume          *)
(* ClearAlone, the callers' part of the bargain: without it clear() races. *)
(***************************************************************************)
EXTENDS Devices, TLAPS

-------------------------------------------------------------------------------
(***************************************************************************)
(* What the devices' methods compute.                                      *)
(***************************************************************************)

(* A call leaves a colour in every channel of the device.                   *)
LEMMA ModifiedType ==
  ASSUME NEW n \in Nat, NEW c \in AtmoCall, NEW m \in Vector(n)
  PROVE  Modified(c, m) \in Vector(n)
<1>1. c.colors \in Seq(Color)
  BY DEF AtmoCall
<1>2. ASSUME NEW i \in Channel(n), Assigns(c, i)
      PROVE  Assigned(c, i) \in Color
  <2>1. CASE c.op = "clear"
    BY <2>1, BlackIsAColor DEF Assigned
  <2>2. CASE c.op = "setChannel"
    BY <1>1, <2>2 DEF AtmoCall, Assigned
  <2>3. CASE c.op = "setChannels"
    BY <1>1, <1>2, <2>3 DEF Assigns, Assigned, Channel
  <2> QED
    BY <1>2, <2>1, <2>2, <2>3 DEF Assigns
<1> QED
  BY <1>2 DEF Modified, Vector

(* Repeating a call after a failed update() changes no colour again.        *)
LEMMA ModifiedTwice ==
  ASSUME NEW n \in Nat, NEW c, NEW m \in Vector(n)
  PROVE  Modified(c, Modified(c, m)) = Modified(c, m)
  BY DEF Modified, Vector

-------------------------------------------------------------------------------
(***************************************************************************)
(* Type correctness.  The device index of a client inside a device's       *)
(* method must be known to be legal, which getDevice() and the loop of     *)
(* clear() ensure.                                                         *)
(***************************************************************************)
Placed ==
  \A t \in Client :
    /\ Inside(t) => at[t] \in Device
    /\ pc[t] = "update" => call[t].op \in Writing /\ ~ Rejects(call[t], NumChannels[at[t]])
    /\ pc[t] = "sleep" => retry[t] < MAX_RETRIES
    /\ pc[t] = "start" /\ call[t].op = "clear" => at[t] = 0

TypeInv == TypeOK /\ Placed

LEMMA CallsAreCalls ==
  /\ Calls \cup {NoCall} \subseteq AtmoCall
  /\ \A c \in Calls \cup {NoCall} : c.device \in Nat
<1>1. NoCall \in AtmoCall
  BY DEF NoCall, AtmoCall, Writing
<1>2. \A c \in AtmoCall : c.device \in Nat
  BY DEF AtmoCall
<1> QED
  BY <1>1, <1>2, DevicesAssumption DEF DevicesAssumption

LEMMA TypeInit == Init => TypeInv
<1> SUFFICES ASSUME Init PROVE TypeInv
  OBVIOUS
<1>1. \A d \in Device : NumChannels[d] \in Nat
  BY DevicesAssumption DEF DevicesAssumption
<1>2. \A d \in Device : channels[d] \in Vector(NumChannels[d])
  BY BlackIsAColor DEF Init, Vector, Dark
<1>3. \A d \in Device : shown[d] \in Vector(NumChannels[d])
  <2> SUFFICES ASSUME NEW d \in Device PROVE shown[d] \in Vector(NumChannels[d])
    OBVIOUS
  <2>1. shown[d] \in InitiallyShown(d)
    BY DEF Init
  <2>2. Dark(NumChannels[d]) \in Vector(NumChannels[d])
    BY BlackIsAColor DEF Vector, Dark
  <2> QED
    BY <2>1, <2>2 DEF InitiallyShown
<1>4. channels \in [Device -> AnyVector] /\ shown \in [Device -> AnyVector]
  BY <1>2, <1>3 DEF Init, AnyVector
<1>5. retry \in [Client -> 0 .. MAX_RETRIES]
  BY DevicesAssumption DEF DevicesAssumption, Init
<1>6. Placed
  BY DEF Init, Placed, Inside
<1> QED
  BY <1>2, <1>3, <1>4, <1>5, <1>6 DEF Init, TypeInv, TypeOK

LEMMA TypeStep == TypeInv /\ [Next]_vars => TypeInv'
<1> SUFFICES ASSUME TypeInv, [Next]_vars PROVE TypeInv'
  OBVIOUS
<1> USE DEF TypeInv
<1>0. ASSUME UNCHANGED vars PROVE TypeInv'
  BY <1>0 DEF vars, TypeOK, Placed, Inside, Vector
<1>1. ASSUME NEW t \in Client, NEW c \in Calls, Invoke(t, c) PROVE TypeInv'
  <2>1. TypeOK'
    BY <1>1, CallsAreCalls DEF Invoke, TypeOK, Vector
  <2>2. Placed'
    BY <1>1 DEF Invoke, TypeOK, Placed, Inside
  <2> QED
    BY <2>1, <2>2
<1>2. ASSUME NEW t \in Client, Lock(t) PROVE TypeInv'
  BY <1>2 DEF Lock, TypeOK, Placed, Inside, Vector
<1>3. ASSUME NEW t \in Client, Reject(t) PROVE TypeInv'
  BY <1>3 DEF Reject, Caught, TypeOK, Placed, Inside, Vector
<1>4. ASSUME NEW t \in Client, Get(t) PROVE TypeInv'
  BY <1>4 DEF Get, TypeOK, Placed, Inside, Vector
<1>5. ASSUME NEW t \in Client, Set(t) PROVE TypeInv'
  <2>1. at[t] \in Device /\ call[t] \in AtmoCall
    BY <1>5, CallsAreCalls DEF Set, TypeOK, Placed, Inside
  <2>2. NumChannels[at[t]] \in Nat
    BY <2>1, DevicesAssumption DEF DevicesAssumption
  <2>3. Modified(call[t], channels[at[t]]) \in Vector(NumChannels[at[t]])
    BY <2>1, <2>2, ModifiedType DEF TypeOK
  <2>4. /\ channels' \in [Device -> AnyVector]
        /\ \A d \in Device : channels'[d] \in Vector(NumChannels[d])
    BY <1>5, <2>1, <2>3 DEF Set, TypeOK, AnyVector
  <2>5. TypeOK'
    BY <1>5, <2>4 DEF Set, TypeOK, Vector
  <2>6. Placed'
    BY <1>5, <2>1 DEF Set, TypeOK, Placed, Inside
  <2> QED
    BY <2>5, <2>6
<1>6. ASSUME NEW t \in Client, Update(t) PROVE TypeInv'
  <2>1. at[t] \in Device
    BY <1>6 DEF Update, Placed, Inside
  <2>2. /\ shown' \in [Device -> AnyVector]
        /\ \A d \in Device : shown'[d] \in Vector(NumChannels[d])
    BY <1>6, <2>1 DEF Update, TypeOK
  <2>3. /\ pc' \in [Client -> {"idle", "start", "try", "update", "sleep", "return", "throw"}]
        /\ at' \in [Client -> Nat]
        /\ retry' \in [Client -> 0 .. MAX_RETRIES]
    <3>1. CASE call[t].op = "clear" /\ at[t] + 1 \in Device
      <4>1. at[t] + 1 \in Nat
        BY DEF TypeOK
      <4>2. 0 \in 0 .. MAX_RETRIES
        BY DevicesAssumption DEF DevicesAssumption
      <4>3. /\ at' = [at EXCEPT ![t] = at[t] + 1]
            /\ retry' = [retry EXCEPT ![t] = 0]
            /\ pc' = [pc EXCEPT ![t] = "try"]
        BY <1>6, <3>1 DEF Update, Done
      <4> QED
        BY <4>1, <4>2, <4>3 DEF TypeOK
    <3>2. CASE ~ (call[t].op = "clear" /\ at[t] + 1 \in Device)
      BY <1>6, <3>2 DEF Update, Done, TypeOK
    <3> QED
      BY <3>1, <3>2
  <2>4. TypeOK'
    BY <1>6, <2>2, <2>3 DEF Update, TypeOK, Vector
  <2>5. Placed'
    BY <1>6, <2>1 DEF Update, Done, TypeOK, Placed, Inside
  <2> QED
    BY <2>4, <2>5
<1>7. ASSUME NEW t \in Client, UpdateFails(t) PROVE TypeInv'
  <2>1. at[t] \in Device
    BY <1>7 DEF UpdateFails, Placed, Inside
  <2>2. /\ shown' \in [Device -> AnyVector]
        /\ \A d \in Device : shown'[d] \in Vector(NumChannels[d])
    BY <1>7, <2>1 DEF UpdateFails, TypeOK
  <2>3. TypeOK'
    BY <1>7, <2>2 DEF UpdateFails, Caught, TypeOK, Vector
  <2>4. Placed'
    BY <1>7, <2>1 DEF UpdateFails, Caught, TypeOK, Placed, Inside
  <2> QED
    BY <2>3, <2>4
<1>8. ASSUME NEW t \in Client, Reset(t) PROVE TypeInv'
  <2>1. retry[t] + 1 \in 0 .. MAX_RETRIES
    BY <1>8, DevicesAssumption DEF DevicesAssumption, Reset, TypeOK, Placed
  <2>2. TypeOK'
    BY <1>8, <2>1 DEF Reset, TypeOK, Vector
  <2>3. Placed'
    BY <1>8 DEF Reset, TypeOK, Placed, Inside
  <2> QED
    BY <2>2, <2>3
<1>9. ASSUME NEW t \in Client, Leave(t) PROVE TypeInv'
  BY <1>9, DevicesAssumption DEF DevicesAssumption, Leave, TypeOK, Placed, Inside, Vector
<1>10. ASSUME NEW t \in Client, Begin(t) PROVE TypeInv'
  <2>1. NumDevices # 0 => 0 \in Device
    BY DevicesAssumption DEF DevicesAssumption, Device
  <2>2. TypeOK'
    BY <1>10 DEF Begin, TypeOK, Vector
  <2>3. Placed'
    BY <1>10, <2>1 DEF Begin, TypeOK, Placed, Inside
  <2> QED
    BY <2>2, <2>3
<1> QED
  BY <1>0, <1>1, <1>2, <1>3, <1>4, <1>5, <1>6, <1>7, <1>8, <1>9, <1>10 DEF Next, Progress

(* Every variable has its type in every reachable state, with ClearAlone or *)
(* without it; the retry counter never passes MAX_RETRIES.                  *)
THEOREM TypeCorrect == Spec => []TypeOK
<1>1. Spec => []TypeInv
  BY TypeInit, TypeStep, PTL DEF Spec
<1> QED
  BY <1>1, PTL DEF TypeInv

-------------------------------------------------------------------------------
(***************************************************************************)
(* Mutual exclusion.  A client at work in a locking method holds the       *)
(* mutex, a client in clear() is alone because its callers see to it, and  *)
(* so no two clients are ever at work together.                            *)
(***************************************************************************)
AtWork(t) == pc[t] \in {"try", "update", "sleep", "return", "throw"}

Owned ==
  \A t \in Client : AtWork(t) /\ call[t].op # "clear" => mutex = t

Apart ==
  \A t \in Client :
    \A u \in Client \ {t} :
      pc[t] # "idle" /\ pc[u] # "idle" => call[t].op # "clear"

ExclusionInv == TypeInv /\ Owned /\ Apart

LEMMA OneAtWork ==
  ExclusionInv =>
    \A t, u \in Client : t # u /\ AtWork(t) => ~ AtWork(u)
BY DEF ExclusionInv, Owned, Apart, AtWork

LEMMA ExclusionInit == Init => ExclusionInv
BY TypeInit DEF Init, ExclusionInv, Owned, Apart, AtWork

LEMMA ExclusionStep ==
  ASSUME ClearAlone, ExclusionInv, [Next]_vars
  PROVE  ExclusionInv'
<1>1. TypeInv /\ TypeInv'
  BY TypeStep DEF ExclusionInv
<1>2. NoClient \notin Client
  BY DevicesAssumption DEF DevicesAssumption
<1> USE DEF ExclusionInv, Owned, Apart, AtWork
<1>3. ASSUME UNCHANGED vars PROVE (Owned /\ Apart)'
  BY <1>3 DEF vars
<1>4. ASSUME NEW t \in Client, NEW c \in Calls, Invoke(t, c) PROVE (Owned /\ Apart)'
  <2>1. \A u \in Client \ {t} : pc[u] # "idle" => c.op # "clear" /\ call[u].op # "clear"
    BY <1>4, ClearAlone DEF Invoke, Admitted
  <2>2. Apart'
    BY <1>1, <1>4, <2>1 DEF Invoke, TypeInv, TypeOK
  <2>3. Owned'
    BY <1>1, <1>4 DEF Invoke, TypeInv, TypeOK
  <2> QED
    BY <2>2, <2>3
<1>5. ASSUME NEW t \in Client, Lock(t) PROVE (Owned /\ Apart)'
  BY <1>1, <1>2, <1>5 DEF Lock, TypeInv, TypeOK
<1>6. ASSUME NEW t \in Client, Reject(t) PROVE (Owned /\ Apart)'
  BY <1>1, <1>6 DEF Reject, Caught, TypeInv, TypeOK
<1>7. ASSUME NEW t \in Client, Get(t) PROVE (Owned /\ Apart)'
  BY <1>1, <1>7 DEF Get, TypeInv, TypeOK
<1>8. ASSUME NEW t \in Client, Set(t) PROVE (Owned /\ Apart)'
  BY <1>1, <1>8 DEF Set, TypeInv, TypeOK
<1>9. ASSUME NEW t \in Client, Update(t) PROVE (Owned /\ Apart)'
  BY <1>1, <1>9 DEF Update, Done, TypeInv, TypeOK
<1>10. ASSUME NEW t \in Client, UpdateFails(t) PROVE (Owned /\ Apart)'
  BY <1>1, <1>10 DEF UpdateFails, Caught, TypeInv, TypeOK
<1>11. ASSUME NEW t \in Client, Reset(t) PROVE (Owned /\ Apart)'
  BY <1>1, <1>11 DEF Reset, TypeInv, TypeOK
<1>12. ASSUME NEW t \in Client, Leave(t) PROVE (Owned /\ Apart)'
  <2>1. \A u \in Client \ {t} : ~ AtWork(u)
    BY <1>12, OneAtWork DEF Leave
  <2>2. Owned'
    BY <1>1, <1>12, <2>1 DEF Leave, TypeInv, TypeOK
  <2>3. Apart'
    BY <1>1, <1>12 DEF Leave, TypeInv, TypeOK, NoCall
  <2> QED
    BY <2>2, <2>3
<1>13. ASSUME NEW t \in Client, Begin(t) PROVE (Owned /\ Apart)'
  BY <1>1, <1>13 DEF Begin, TypeInv, TypeOK
<1> QED
  BY <1>1, <1>3, <1>4, <1>5, <1>6, <1>7, <1>8, <1>9, <1>10, <1>11, <1>12, <1>13
     DEF Next, Progress

(* Under ClearAlone no two threads are ever inside the methods of the same  *)
(* device: the mutex and the callers' discipline together rule out a data   *)
(* race on m_channels and on the port.                                      *)
THEOREM NoRace == ASSUME ClearAlone PROVE Spec => []NoDataRace
<1>1. ExclusionInv /\ [Next]_vars => ExclusionInv'
  BY ExclusionStep
<1>2. ExclusionInv => NoDataRace
  BY OneAtWork DEF NoDataRace, Inside, AtWork
<1> QED
  BY ExclusionInit, <1>1, <1>2, PTL DEF Spec

-------------------------------------------------------------------------------
(***************************************************************************)
(* Success.  While a writing call works on a device, m_channels keeps what *)
(* its first attempt assigned, and clear() leaves every device it has      *)
(* passed with the LEDs showing m_channels.  Both are stable because       *)
(* nobody else is at work.                                                 *)
(***************************************************************************)
Kept(t, d) == channels[d] = Modified(call[t], channels[d])

Landed(t, d) == Kept(t, d) /\ shown[d] = channels[d]

Effect(t) ==
  AtWork(t) /\ call[t].op \in Writing =>
    /\ Inside(t) /\ ~ Untaken(t) => Kept(t, at[t])
    /\ Inside(t) /\ call[t].op = "clear" => \A d \in Device : d < at[t] => Landed(t, d)
    /\ pc[t] = "return" => \A d \in Targets(call[t]) : Landed(t, d)

(* The path of a call: which device it works on, and that only a writing or *)
(* a rejected call is ever retried.                                         *)
Path(t) ==
  /\ pc[t] \in {"idle", "start"} => retry[t] = 0
  /\ pc[t] # "idle" /\ call[t].op # "clear" => at[t] = call[t].device
  /\ Inside(t) /\ ~ Rejects(call[t], NumChannels[at[t]]) /\ call[t].op \notin Writing =>
       pc[t] = "try" /\ retry[t] = 0
  /\ pc[t] = "return" =>
       \/ call[t].op = "clear"
       \/ at[t] \in Device /\ ~ Rejects(call[t], NumChannels[at[t]])

EffectInv ==
  /\ ExclusionInv
  /\ \A t \in Client : Path(t) /\ Effect(t)

LEMMA EffectInit == Init => EffectInv
BY ExclusionInit DEF Init, EffectInv, Effect, Path, AtWork, Inside

(* A step of t leaves the calls of the other clients as they are.           *)
LEMMA Undisturbed ==
  ASSUME EffectInv,
         NEW t \in Client, NEW u \in Client \ {t},
         pc'[u] = pc[u], call'[u] = call[u], at'[u] = at[u], retry'[u] = retry[u],
         AtWork(t) \/ UNCHANGED <<channels, shown>>
  PROVE  (Path(u) /\ Effect(u))'
<1>1. Path(u)'
  BY DEF EffectInv, Path, Inside
<1>2. CASE AtWork(t)
  <2>1. ~ AtWork(u)
    BY <1>2, OneAtWork DEF EffectInv
  <2> QED
    BY <1>1, <2>1 DEF Effect, AtWork
<1>3. CASE UNCHANGED <<channels, shown>>
  BY <1>1, <1>3 DEF EffectInv, Effect, AtWork, Inside, Untaken, Kept, Landed
<1> QED
  BY <1>2, <1>3

LEMMA EffectStep ==
  ASSUME ClearAlone, EffectInv, [Next]_vars
  PROVE  EffectInv'
<1>0. TypeInv /\ ExclusionInv /\ ExclusionInv'
  BY ExclusionStep DEF EffectInv, ExclusionInv
<1> SUFFICES \A u \in Client : (Path(u) /\ Effect(u))'
  BY <1>0 DEF EffectInv
<1> USE DEF TypeInv, TypeOK
<1>1. ASSUME UNCHANGED vars PROVE \A u \in Client : (Path(u) /\ Effect(u))'
  BY <1>1 DEF vars, EffectInv, Path, Effect, AtWork, Inside, Untaken, Kept, Landed
<1>2. ASSUME NEW t \in Client, NEW c \in Calls, Invoke(t, c)
      PROVE  \A u \in Client : (Path(u) /\ Effect(u))'
  <2>1. \A u \in Client \ {t} : (Path(u) /\ Effect(u))'
    BY <1>0, <1>2, Undisturbed DEF Invoke
  <2>2. Path(t)'
    BY <1>0, <1>2 DEF Invoke, EffectInv, Path, Inside, Writing
  <2>3. Effect(t)'
    BY <1>0, <1>2 DEF Invoke, Effect, AtWork
  <2> QED
    BY <2>1, <2>2, <2>3
<1>3. ASSUME NEW t \in Client, Lock(t)
      PROVE  \A u \in Client : (Path(u) /\ Effect(u))'
  <2>1. \A u \in Client \ {t} : (Path(u) /\ Effect(u))'
    BY <1>0, <1>3, Undisturbed DEF Lock
  <2>2. Path(t)'
    BY <1>0, <1>3 DEF Lock, EffectInv, Path, Inside
  <2>3. Effect(t)'
    BY <1>0, <1>3 DEF Lock, EffectInv, Path, Effect, Inside, Untaken
  <2> QED
    BY <2>1, <2>2, <2>3
<1>4. ASSUME NEW t \in Client, Reject(t)
      PROVE  \A u \in Client : (Path(u) /\ Effect(u))'
  <2>1. \A u \in Client \ {t} : (Path(u) /\ Effect(u))'
    BY <1>0, <1>4, Undisturbed DEF Reject, Caught
  <2>2. Path(t)'
    BY <1>0, <1>4 DEF Reject, Caught, EffectInv, Path, Inside
  <2>3. Effect(t)'
    BY <1>0, <1>4 DEF Reject, Caught, Rejects, EffectInv, Effect, AtWork, Inside, Untaken, Kept, Landed
  <2> QED
    BY <2>1, <2>2, <2>3
<1>5. ASSUME NEW t \in Client, Get(t)
      PROVE  \A u \in Client : (Path(u) /\ Effect(u))'
  <2>1. \A u \in Client \ {t} : (Path(u) /\ Effect(u))'
    BY <1>0, <1>5, Undisturbed DEF Get
  <2>2. Path(t)'
    BY <1>0, <1>5 DEF Get, EffectInv, Path, Placed, Inside
  <2>3. Effect(t)'
    BY <1>0, <1>5 DEF Get, Effect
  <2> QED
    BY <2>1, <2>2, <2>3
<1>6. ASSUME NEW t \in Client, Set(t)
      PROVE  \A u \in Client : (Path(u) /\ Effect(u))'
  <2>1. \A u \in Client \ {t} : (Path(u) /\ Effect(u))'
    BY <1>0, <1>6, Undisturbed DEF Set, AtWork
  <2>2. Path(t)'
    BY <1>0, <1>6 DEF Set, EffectInv, Path, Inside
  <2>3. at[t] \in Device /\ NumChannels[at[t]] \in Nat
    BY <1>0, <1>6, DevicesAssumption DEF DevicesAssumption, Set, Placed, Inside
  <2>4. channels'[at[t]] = Modified(call[t], channels[at[t]])
    BY <1>0, <1>6, <2>3 DEF Set
  <2>5. Modified(call[t], channels'[at[t]]) = channels'[at[t]]
    BY <1>0, <2>3, <2>4, ModifiedTwice
  <2>6. \A d \in Device : d < at[t] => channels'[d] = channels[d] /\ shown'[d] = shown[d]
    BY <1>0, <1>6, <2>3 DEF Set, Device
  <2>7. Effect(t)'
    BY <1>0, <1>6, <2>5, <2>6 DEF Set, EffectInv, Effect, AtWork, Inside, Kept, Landed
  <2> QED
    BY <2>1, <2>2, <2>7
<1>7. ASSUME NEW t \in Client, Update(t)
      PROVE  \A u \in Client : (Path(u) /\ Effect(u))'
  <2>1. \A u \in Client \ {t} : (Path(u) /\ Effect(u))'
    BY <1>0, <1>7, Undisturbed DEF Update, Done, AtWork
  <2>2. /\ at[t] \in Device
        /\ call[t].op \in Writing
        /\ ~ Rejects(call[t], NumChannels[at[t]])
    BY <1>0, <1>7 DEF Update, Placed, Inside
  <2>3. Kept(t, at[t])
    BY <1>7, <2>2 DEF Update, EffectInv, Effect, AtWork, Inside, Untaken
  <2>4. \A d \in Device : d = at[t] => Landed(t, d)'
    BY <1>0, <1>7, <2>2, <2>3 DEF Update, Landed, Kept
  <2>5. \A d \in Device : d # at[t] /\ Landed(t, d) => Landed(t, d)'
    BY <1>0, <1>7 DEF Update, Landed, Kept
  <2>6. call[t].op = "clear" => \A d \in Device : d < at[t] => Landed(t, d)'
    BY <1>7, <2>2, <2>5 DEF Update, EffectInv, Effect, AtWork, Inside, Device
  <2>7. CASE call[t].op = "clear" /\ at[t] + 1 \in Device
    <3>1. /\ pc'[t] = "try" /\ retry'[t] = 0 /\ at'[t] = at[t] + 1
          /\ call'[t] = call[t]
      BY <1>0, <1>7, <2>7 DEF Update, Done
    <3>2. \A d \in Device : d < at'[t] => Landed(t, d)'
      <4>1. \A d \in Device : d < at[t] + 1 => d < at[t] \/ d = at[t]
        BY <2>2, DevicesAssumption DEF DevicesAssumption, Device
      <4> QED
        BY <2>4, <2>6, <2>7, <3>1, <4>1
    <3>3. Effect(t)'
      BY <3>1, <3>2 DEF Effect, Inside, Untaken
    <3>4. Path(t)'
      BY <2>7, <3>1 DEF Path, Inside
    <3> QED
      BY <2>1, <3>3, <3>4
  <2>8. CASE ~ (call[t].op = "clear" /\ at[t] + 1 \in Device)
    <3>1. /\ pc'[t] = "return" /\ at' = at /\ call' = call /\ retry' = retry
      BY <1>0, <1>7, <2>8 DEF Update, Done
    <3>2. \A d \in Targets(call[t]) : Landed(t, d)'
      <4>1. CASE call[t].op = "clear"
        <5>1. \A d \in Device : d < at[t] \/ d = at[t]
          BY <2>2, <2>8, <4>1, DevicesAssumption DEF DevicesAssumption, Device
        <5> QED
          BY <2>4, <2>6, <4>1, <5>1 DEF Targets
      <4>2. CASE call[t].op # "clear"
        <5>1. at[t] = call[t].device
          BY <1>7, <4>2 DEF Update, EffectInv, Path
        <5> QED
          BY <2>2, <2>4, <4>2, <5>1 DEF Targets
      <4> QED
        BY <4>1, <4>2
    <3>3. Effect(t)'
      BY <3>1, <3>2 DEF Effect, Inside
    <3>4. Path(t)'
      BY <1>7, <2>2, <3>1 DEF Update, EffectInv, Path, Inside
    <3> QED
      BY <2>1, <3>3, <3>4
  <2> QED
    BY <2>7, <2>8
<1>8. ASSUME NEW t \in Client, UpdateFails(t)
      PROVE  \A u \in Client : (Path(u) /\ Effect(u))'
  <2>1. \A u \in Client \ {t} : (Path(u) /\ Effect(u))'
    BY <1>0, <1>8, Undisturbed DEF UpdateFails, Caught, AtWork
  <2>2. Path(t)'
    BY <1>0, <1>8 DEF UpdateFails, Caught, EffectInv, Path, Placed, Inside
  <2>3. at[t] \in Device /\ Kept(t, at[t])
    BY <1>0, <1>8 DEF UpdateFails, EffectInv, Effect, Placed, AtWork, Inside, Untaken
  <2>4. \A d \in Device : d < at[t] => channels'[d] = channels[d] /\ shown'[d] = shown[d]
    <3>1. \A d \in Device : d < at[t] => d # at[t]
      BY <2>3, DevicesAssumption DEF DevicesAssumption, Device
    <3> QED
      BY <1>0, <1>8, <2>3, <3>1 DEF UpdateFails
  <2>5. Effect(t)'
    BY <1>0, <1>8, <2>3, <2>4 DEF UpdateFails, Caught, EffectInv, Effect, AtWork, Inside, Kept, Landed
  <2> QED
    BY <2>1, <2>2, <2>5
<1>9. ASSUME NEW t \in Client, Reset(t)
      PROVE  \A u \in Client : (Path(u) /\ Effect(u))'
  <2>1. \A u \in Client \ {t} : (Path(u) /\ Effect(u))'
    BY <1>0, <1>9, Undisturbed DEF Reset
  <2>2. Path(t)'
    BY <1>0, <1>9 DEF Reset, EffectInv, Path, Inside
  <2>3. Effect(t)'
    BY <1>0, <1>9 DEF Reset, EffectInv, Effect, AtWork, Inside, Untaken, Kept, Landed
  <2> QED
    BY <2>1, <2>2, <2>3
<1>10. ASSUME NEW t \in Client, Leave(t)
       PROVE  \A u \in Client : (Path(u) /\ Effect(u))'
  <2>1. \A u \in Client \ {t} : (Path(u) /\ Effect(u))'
    BY <1>0, <1>10, Undisturbed DEF Leave
  <2>2. Path(t)' /\ Effect(t)'
    BY <1>0, <1>10 DEF Leave, Path, Effect, AtWork, Inside
  <2> QED
    BY <2>1, <2>2
<1>11. ASSUME NEW t \in Client, Begin(t)
       PROVE  \A u \in Client : (Path(u) /\ Effect(u))'
  <2>1. \A u \in Client \ {t} : (Path(u) /\ Effect(u))'
    BY <1>0, <1>11, Undisturbed DEF Begin
  <2>2. Path(t)'
    BY <1>0, <1>11 DEF Begin, EffectInv, Path, Inside, Writing
  <2>3. at[t] = 0 /\ at' = at /\ call' = call
    BY <1>0, <1>11 DEF Begin, Placed
  <2>4. Effect(t)'
    <3>1. CASE NumDevices = 0
      <4>1. Device = {}
        BY <3>1 DEF Device
      <4> QED
        BY <1>0, <1>11, <3>1, <4>1 DEF Begin, Effect, Inside, Targets
    <3>2. CASE NumDevices # 0
      <4>1. \A d \in Device : ~ d < 0
        BY DevicesAssumption DEF DevicesAssumption, Device
      <4> QED
        BY <1>0, <1>11, <2>3, <3>2, <4>1 DEF Begin, EffectInv, Path, Effect, Inside, Untaken
    <3> QED
      BY <3>1, <3>2
  <2> QED
    BY <2>1, <2>2, <2>4
<1> QED
  BY <1>1, <1>2, <1>3, <1>4, <1>5, <1>6, <1>7, <1>8, <1>9, <1>10, <1>11 DEF Next, Progress

(* Under ClearAlone a writing call that returns without an exception has    *)
(* reached the LEDs of each of its devices, after however many retries and  *)
(* whatever other threads call.                                             *)
THEOREM SuccessReachesTheLEDs == ASSUME ClearAlone PROVE Spec => []SuccessIsShown
<1>1. EffectInv /\ [Next]_vars => EffectInv'
  BY EffectStep
<1>2. EffectInv => SuccessIsShown
  BY DEF EffectInv, Effect, AtWork, Kept, Landed, SuccessIsShown
<1> QED
  BY EffectInit, <1>1, <1>2, PTL DEF Spec

-------------------------------------------------------------------------------
(***************************************************************************)
(* The refinement: under ClearAlone the device manager implements          *)
(* ColorStore, its callers' view.  The first attempt's assignment to       *)
(* m_channels is the step Write, a getter's read of them the step Read;    *)
(* retries, the mutex and clear()'s walk over the devices are stuttering   *)
(* steps.                                                                  *)
(***************************************************************************)

(* The refinement mapping's values, named for the proofs.                   *)
StatusOf == [t \in Client |-> Status(t)]

LeftOf == [t \in Client |-> Left(t)]

(* ColorStore's operators on colours are those of AtmoDevice.               *)
LEMMA SameOperators ==
  /\ Store!Device = Device
  /\ Store!NoCall = NoCall
  /\ Store!NoAnswer = NoAnswer
  /\ Store!Writing = Writing
  /\ \A n : Store!Dark(n) = Dark(n)
  /\ \A c : Store!Targets(c) = Targets(c)
  /\ \A c, n : Store!Rejects(c, n) <=> Rejects(c, n)
  /\ \A c, m : Store!Modified(c, m) = Modified(c, m)
  /\ \A c, m : Store!Answer(c, m) = Answer(c, m)
<1>1. Store!Device = Device /\ Store!NoCall = NoCall /\ Store!NoAnswer = NoAnswer
  BY DEF Store!Device, Device, Store!NoCall, NoCall, Store!NoAnswer, NoAnswer
<1>2. Store!Writing = Writing
  BY DEF Store!Writing, Writing
<1>3. \A n : Store!Dark(n) = Dark(n)
  BY DEF Store!Dark, Dark, Store!Channel, Channel
<1>4. \A c : Store!Targets(c) = Targets(c)
  BY DEF Store!Targets, Targets, Store!Device, Device
<1>5. \A c, n : Store!Rejects(c, n) <=> Rejects(c, n)
  BY DEF Store!Rejects, Rejects
<1>6. \A c, m : Store!Modified(c, m) = Modified(c, m)
  BY DEF Store!Modified, Modified, Store!Assigns, Assigns, Store!Assigned, Assigned
<1>7. \A c, m : Store!Answer(c, m) = Answer(c, m)
  BY DEF Store!Answer, Answer
<1> QED
  BY <1>1, <1>2, <1>3, <1>4, <1>5, <1>6, <1>7

LEMMA StoreInit == Init => Store!Init
<1> SUFFICES ASSUME Init PROVE Store!Init
  OBVIOUS
<1>1. StatusOf = [t \in Client |-> "idle"]
  BY DEF Init, StatusOf, Status
<1>2. LeftOf = [t \in Client |-> {}]
  BY DEF Init, LeftOf, Left
<1> QED
  BY <1>1, <1>2, SameOperators DEF Init, Store!Init, StatusOf, LeftOf

(* A step of t changes the mapped state of t alone.                         *)
Steps(t) ==
  \A u \in Client \ {t} :
    pc'[u] = pc[u] /\ call'[u] = call[u] /\ at'[u] = at[u] /\ retry'[u] = retry[u]

LEMMA Mapped ==
  ASSUME NEW t \in Client, Steps(t)
  PROVE  /\ StatusOf' = [StatusOf EXCEPT ![t] = Status(t)']
         /\ LeftOf' = [LeftOf EXCEPT ![t] = Left(t)']
<1>1. \A u \in Client \ {t} : Left(u)' = Left(u) /\ Status(u)' = Status(u)
  BY DEF Steps, Left, Untaken, Status
<1> QED
  BY <1>1 DEF StatusOf, LeftOf

(* A step within a call that takes no effect: it is invisible, or decides   *)
(* that the call fails.                                                     *)
LEMMA QuietStep ==
  ASSUME NEW t \in Client, Steps(t),
         Status(t) = "busy", Status(t)' \in {"busy", "failed"}, Left(t)' = Left(t),
         UNCHANGED <<channels, call, answer>>
  PROVE  Store!Fail(t) \/ UNCHANGED Store!vars
<1>1. LeftOf' = LeftOf /\ StatusOf' = [StatusOf EXCEPT ![t] = Status(t)']
  BY Mapped DEF LeftOf
<1>2. StatusOf[t] = "busy"
  BY DEF StatusOf
<1>3. CASE Status(t)' = "busy"
  <2>1. StatusOf' = StatusOf
    BY <1>1, <1>3 DEF StatusOf
  <2> QED
    BY <1>1, <2>1 DEF Store!vars, LeftOf, StatusOf
<1>4. CASE Status(t)' = "failed"
  BY <1>1, <1>2, <1>4 DEF Store!Fail, LeftOf, StatusOf
<1> QED
  BY <1>3, <1>4

-------------------------------------------------------------------------------
LEMMA InvokeSimulates ==
  ASSUME EffectInv, NEW t \in Client, NEW c \in Calls, Invoke(t, c)
  PROVE  Store!Invoke(t, c)
<1>0. TypeInv
  BY DEF EffectInv, ExclusionInv
<1> USE DEF TypeInv, TypeOK
<1>1. Left(t)' = Targets(c)
  <2>1. CASE c.op # "clear"
    BY <1>0, <2>1 DEF Invoke, Left, Untaken, Targets
  <2>2. CASE c.op = "clear"
    <3>1. \A d \in Device : d > 0 \/ d = 0
      BY DevicesAssumption DEF DevicesAssumption, Device
    <3>2. pc'[t] = "start" /\ at'[t] = 0 /\ call'[t] = c
      BY <1>0, <2>2 DEF Invoke
    <3> QED
      BY <2>2, <3>1, <3>2 DEF Left, Untaken, Targets
  <2> QED
    BY <2>1, <2>2
<1>2. Status(t) = "idle" /\ Status(t)' = "busy"
  BY <1>0 DEF Invoke, Status
<1>3. /\ LeftOf' = [LeftOf EXCEPT ![t] = Targets(c)]
      /\ StatusOf' = [StatusOf EXCEPT ![t] = "busy"]
  BY <1>1, <1>2, Mapped DEF Invoke, Steps
<1> QED
  BY <1>2, <1>3, SameOperators DEF Invoke, Store!Invoke, LeftOf, StatusOf

LEMMA LeaveSimulates ==
  ASSUME EffectInv, NEW t \in Client, Leave(t)
  PROVE  Store!Leave(t)
<1>0. TypeInv
  BY DEF EffectInv, ExclusionInv
<1> USE DEF TypeInv, TypeOK
<1>1. /\ Left(t)' = {}
      /\ Status(t) \in {"succeeded", "failed"} /\ Status(t)' = "idle"
  BY <1>0 DEF Leave, Left, Status
<1>2. /\ LeftOf' = [LeftOf EXCEPT ![t] = {}]
      /\ StatusOf' = [StatusOf EXCEPT ![t] = "idle"]
  BY <1>1, Mapped DEF Leave, Steps
<1> QED
  BY <1>1, <1>2, SameOperators DEF Leave, Store!Leave, LeftOf, StatusOf

(* The devices left when t works on a device where its call has not yet     *)
(* taken effect, and when it has.                                           *)
LEMMA LeftCases ==
  ASSUME TypeInv, NEW t \in Client, Inside(t)
  PROVE  /\ ~ Untaken(t) => Left(t) = {d \in Targets(call[t]) : d > at[t]}
         /\ Untaken(t) => Left(t) = {d \in Targets(call[t]) : d > at[t] \/ d = at[t]}
BY DEF Left, Inside

LEMMA TargetIsTarget ==
  ASSUME EffectInv, NEW t \in Client, Inside(t)
  PROVE  at[t] \in Device /\ at[t] \in Targets(call[t])
BY DEF EffectInv, ExclusionInv, TypeInv, Placed, Path, Targets, Inside

LEMMA GetSimulates ==
  ASSUME EffectInv, NEW t \in Client, Get(t)
  PROVE  Store!Read(t, at[t])
<1>0. TypeInv
  BY DEF EffectInv, ExclusionInv
<1>1. Inside(t) /\ at[t] \in Device /\ at[t] \in Targets(call[t])
  BY TargetIsTarget DEF Get, Inside
<1> USE DEF TypeInv, TypeOK
<1>2. Targets(call[t]) = {at[t]}
  BY <1>1 DEF Get, Targets, Writing
<1>3. Untaken(t)
  BY <1>1 DEF Get, EffectInv, Path, Untaken
<1>4. Left(t) = {at[t]}
  BY <1>0, <1>1, <1>2, <1>3, LeftCases
<1>5. Left(t)' = {}
  <2>1. /\ pc'[t] = "return" /\ at' = at /\ call' = call /\ retry' = retry
        /\ ~ Rejects(call[t], NumChannels[at[t]])
    BY <1>0 DEF Get
  <2>2. ~ at[t] > at[t]
    BY <1>0
  <2> QED
    BY <1>1, <1>2, <2>1, <2>2 DEF Left, Untaken
<1>6. Status(t) = "busy" /\ Status(t)' = "succeeded"
  BY <1>0 DEF Get, Status
<1>7. /\ LeftOf' = [LeftOf EXCEPT ![t] = {}]
      /\ StatusOf' = [StatusOf EXCEPT ![t] = "succeeded"]
  BY <1>0, <1>5, <1>6, Mapped DEF Get, Steps
<1>8. LeftOf[t] = {at[t]} /\ StatusOf[t] = "busy"
  BY <1>4, <1>6 DEF LeftOf, StatusOf
<1> QED
  BY <1>7, <1>8, SameOperators DEF Get, Store!Read, Store!CanReach, LeftOf, StatusOf

(* The first attempt of a writing call takes effect; a later one assigns    *)
(* the colours the device has already.                                      *)
LEMMA SetSimulates ==
  ASSUME EffectInv, NEW t \in Client, Set(t)
  PROVE  Store!Write(t, at[t]) \/ Store!Fail(t) \/ UNCHANGED Store!vars
<1>0. TypeInv
  BY DEF EffectInv, ExclusionInv
<1>1. Inside(t) /\ at[t] \in Device /\ at[t] \in Targets(call[t])
  BY TargetIsTarget DEF Set, Inside
<1> USE DEF TypeInv, TypeOK
<1>2. /\ pc[t] = "try" /\ pc'[t] = "update"
      /\ at' = at /\ call' = call /\ retry' = retry
      /\ call[t].op \in Writing
      /\ ~ Rejects(call[t], NumChannels[at[t]])
  BY <1>0 DEF Set
<1>3. Left(t)' = {d \in Targets(call[t]) : d > at[t]}
  BY <1>1, <1>2 DEF Left, Untaken
<1>4. Steps(t) /\ Status(t) = "busy" /\ Status(t)' = "busy"
  BY <1>0, <1>2 DEF Set, Steps, Status
<1>5. CASE retry[t] = 0
  <2>1. Left(t) = {d \in Targets(call[t]) : d > at[t] \/ d = at[t]}
    BY <1>0, <1>1, <1>2, <1>5, LeftCases DEF Untaken
  <2>2. Left(t)' = Left(t) \ {at[t]}
    <3>1. \A d \in Targets(call[t]) : d \in Nat
      <4>1. call[t].device \in Nat
        BY <1>0, CallsAreCalls
      <4> QED
        BY <4>1, DevicesAssumption DEF DevicesAssumption, Targets, Device
    <3> QED
      BY <1>0, <1>3, <2>1, <3>1
  <2>3. /\ LeftOf' = [LeftOf EXCEPT ![t] = LeftOf[t] \ {at[t]}]
        /\ StatusOf' = StatusOf
    BY <1>4, <2>2, Mapped DEF LeftOf, StatusOf
  <2>4. at[t] \in LeftOf[t] /\ StatusOf[t] = "busy"
    BY <1>1, <1>4, <2>1 DEF LeftOf, StatusOf
  <2> QED
    BY <1>2, <2>3, <2>4, SameOperators
       DEF Set, Store!Write, Store!CanReach, LeftOf, StatusOf
<1>6. CASE retry[t] # 0
  <2>1. ~ Untaken(t)
    BY <1>1, <1>2, <1>6 DEF Untaken
  <2>2. channels[at[t]] = Modified(call[t], channels[at[t]])
    BY <1>1, <1>2, <2>1 DEF EffectInv, Effect, AtWork, Kept
  <2>3. channels' = channels
    BY <1>0, <1>1, <2>2 DEF Set
  <2>4. Left(t)' = Left(t)
    BY <1>0, <1>1, <1>3, <2>1, LeftCases
  <2> QED
    BY <1>4, <2>3, <2>4, QuietStep DEF Set
<1> QED
  BY <1>5, <1>6

LEMMA UpdateSimulates ==
  ASSUME EffectInv, NEW t \in Client, Update(t)
  PROVE  Store!Succeed(t) \/ Store!Fail(t) \/ UNCHANGED Store!vars
<1>0. TypeInv
  BY DEF EffectInv, ExclusionInv
<1>1. Inside(t) /\ at[t] \in Device /\ at[t] \in Targets(call[t])
  BY TargetIsTarget DEF Update, Inside
<1> USE DEF TypeInv, TypeOK
<1>2. /\ ~ Rejects(call[t], NumChannels[at[t]]) /\ pc[t] = "update"
      /\ call' = call /\ Status(t) = "busy"
  BY <1>0 DEF Update, Placed, Status
<1>3. Left(t) = {d \in Targets(call[t]) : d > at[t]}
  BY <1>0, <1>1, <1>2, LeftCases DEF Untaken
<1>4. CASE call[t].op = "clear" /\ at[t] + 1 \in Device
  <2>1. /\ pc'[t] = "try" /\ retry'[t] = 0 /\ at'[t] = at[t] + 1
        /\ Status(t)' = "busy" /\ Steps(t)
    BY <1>0, <1>2, <1>4 DEF Update, Done, Steps, Status
  <2>2. Left(t)' = {d \in Device : d > at[t] + 1 \/ d = at[t] + 1}
    BY <1>2, <1>4, <2>1 DEF Left, Untaken, Targets
  <2>3. \A d \in Device : d > at[t] <=> d > at[t] + 1 \/ d = at[t] + 1
    BY <1>1, DevicesAssumption DEF DevicesAssumption, Device
  <2>4. Left(t)' = Left(t)
    BY <1>3, <1>4, <2>2, <2>3 DEF Targets
  <2> QED
    BY <1>2, <2>1, <2>4, QuietStep DEF Update
<1>5. CASE ~ (call[t].op = "clear" /\ at[t] + 1 \in Device)
  <2>1. /\ pc'[t] = "return" /\ at' = at /\ retry' = retry
        /\ Status(t)' = "succeeded" /\ Steps(t)
    BY <1>0, <1>2, <1>5 DEF Update, Done, Steps, Status
  <2>2. Left(t) = {}
    <3>1. CASE call[t].op = "clear"
      BY <1>1, <1>3, <1>5, <3>1, DevicesAssumption DEF DevicesAssumption, Targets, Device
    <3>2. CASE call[t].op # "clear"
      <4>1. Targets(call[t]) = {at[t]}
        BY <1>1, <3>2 DEF Targets
      <4> QED
        BY <1>0, <1>3, <4>1
    <3> QED
      BY <3>1, <3>2
  <2>3. Left(t)' = {}
    BY <1>1, <1>2, <1>3, <2>1, <2>2 DEF Left, Untaken
  <2>4. /\ LeftOf[t] = {} /\ LeftOf' = LeftOf
        /\ StatusOf[t] = "busy" /\ StatusOf' = [StatusOf EXCEPT ![t] = "succeeded"]
    BY <1>2, <2>1, <2>2, <2>3, Mapped DEF LeftOf, StatusOf
  <2> QED
    BY <2>4 DEF Update, Store!Succeed, LeftOf, StatusOf
<1> QED
  BY <1>4, <1>5

(* clear() of no device at all succeeds at once.                            *)
LEMMA BeginSimulates ==
  ASSUME EffectInv, NEW t \in Client, Begin(t)
  PROVE  Store!Succeed(t) \/ Store!Fail(t) \/ UNCHANGED Store!vars
<1>0. TypeInv
  BY DEF EffectInv, ExclusionInv
<1> USE DEF TypeInv, TypeOK
<1>1. Steps(t) /\ Status(t) = "busy" /\ at[t] = 0 /\ retry[t] = 0
  BY <1>0 DEF Begin, Steps, Status, Placed, EffectInv, Path
<1>2. CASE NumDevices = 0
  <2>1. Targets(call[t]) = {}
    BY <1>2 DEF Begin, Targets, Device
  <2>2. Left(t) = {} /\ Left(t)' = {} /\ Status(t)' = "succeeded"
    BY <1>0, <1>2, <2>1 DEF Begin, Left, Status
  <2>3. /\ LeftOf[t] = {} /\ LeftOf' = LeftOf
        /\ StatusOf[t] = "busy" /\ StatusOf' = [StatusOf EXCEPT ![t] = "succeeded"]
    BY <1>1, <2>2, Mapped DEF LeftOf, StatusOf
  <2> QED
    BY <2>3 DEF Begin, Store!Succeed, LeftOf, StatusOf
<1>3. CASE NumDevices # 0
  <2>1. /\ pc'[t] = "try" /\ at' = at /\ call' = call /\ retry' = retry
        /\ Status(t)' = "busy"
    BY <1>0, <1>3 DEF Begin, Status
  <2>2. Left(t)' = Left(t)
    BY <1>1, <2>1 DEF Begin, Left, Untaken
  <2> QED
    BY <1>1, <2>1, <2>2, QuietStep DEF Begin
<1> QED
  BY <1>2, <1>3

LEMMA QuietSteps ==
  ASSUME EffectInv, NEW t \in Client,
         Lock(t) \/ Reject(t) \/ UpdateFails(t) \/ Reset(t)
  PROVE  Store!Fail(t) \/ UNCHANGED Store!vars
<1>0. TypeInv
  BY DEF EffectInv, ExclusionInv
<1> USE DEF TypeInv, TypeOK
<1>1. Status(t) = "busy" /\ Status(t)' \in {"busy", "failed"} /\ Steps(t)
  BY <1>0 DEF Lock, Reject, UpdateFails, Reset, Caught, Steps, Status
<1>2. CASE Lock(t)
  <2>1. Left(t)' = Left(t)
    BY <1>0, <1>2 DEF Lock, EffectInv, Path, Left, Untaken
  <2> QED
    BY <1>1, <1>2, <2>1, QuietStep DEF Lock
<1>3. CASE Reject(t)
  <2>1. Left(t)' = Left(t)
    BY <1>0, <1>3 DEF Reject, Caught, Left, Untaken
  <2> QED
    BY <1>1, <1>3, <2>1, QuietStep DEF Reject
<1>4. CASE UpdateFails(t)
  <2>1. Left(t)' = Left(t)
    BY <1>0, <1>4 DEF UpdateFails, Caught, Placed, Inside, Left, Untaken
  <2> QED
    BY <1>1, <1>4, <2>1, QuietStep DEF UpdateFails
<1>5. CASE Reset(t)
  <2>1. Left(t)' = Left(t)
    BY <1>0, <1>5 DEF Reset, Left, Untaken
  <2> QED
    BY <1>1, <1>5, <2>1, QuietStep DEF Reset
<1> QED
  BY <1>2, <1>3, <1>4, <1>5

LEMMA StoreStep == EffectInv /\ [Next]_vars => [Store!Next]_(Store!vars)
<1> SUFFICES ASSUME EffectInv, [Next]_vars PROVE [Store!Next]_(Store!vars)
  OBVIOUS
<1>1. CASE UNCHANGED vars
  <2>1. LeftOf' = LeftOf /\ StatusOf' = StatusOf
    BY <1>1 DEF vars, LeftOf, Left, Untaken, StatusOf, Status
  <2> QED
    BY <1>1, <2>1 DEF vars, Store!vars, LeftOf, StatusOf
<1>2. ASSUME NEW t \in Client, NEW c \in Calls, Invoke(t, c) PROVE Store!Next
  BY <1>2, InvokeSimulates DEF Store!Next
<1>3. ASSUME NEW t \in Client, Get(t) PROVE Store!Next
  <2>1. at[t] \in Store!Device
    BY <1>3, TargetIsTarget, SameOperators DEF Get, Inside
  <2> QED
    BY <1>3, <2>1, GetSimulates DEF Store!Next
<1>4. ASSUME NEW t \in Client, Set(t) PROVE [Store!Next]_(Store!vars)
  <2>1. at[t] \in Store!Device
    BY <1>4, TargetIsTarget, SameOperators DEF Set, Inside
  <2> QED
    BY <1>4, <2>1, SetSimulates DEF Store!Next
<1>5. ASSUME NEW t \in Client, Leave(t) PROVE Store!Next
  BY <1>5, LeaveSimulates DEF Store!Next
<1>6. ASSUME NEW t \in Client, Update(t) \/ Begin(t) PROVE [Store!Next]_(Store!vars)
  BY <1>6, UpdateSimulates, BeginSimulates DEF Store!Next
<1>7. ASSUME NEW t \in Client, Lock(t) \/ Reject(t) \/ UpdateFails(t) \/ Reset(t)
      PROVE  [Store!Next]_(Store!vars)
  BY <1>7, QuietSteps DEF Store!Next
<1> QED
  BY <1>1, <1>2, <1>3, <1>4, <1>5, <1>6, <1>7 DEF Next, Progress

(* Under ClearAlone the device manager implements the store its callers may *)
(* think of: a call takes effect once per device at one instant between its *)
(* invocation and its return, a call that succeeds has taken effect on all  *)
(* its devices, and a rejected one on none.                                 *)
THEOREM ImplementsColorStore == ASSUME ClearAlone PROVE Spec => AtomicStore
<1>1. EffectInv /\ [Next]_vars => EffectInv'
  BY EffectStep
<1> QED
  BY EffectInit, StoreInit, StoreStep, <1>1, PTL DEF Spec, AtomicStore, Store!Spec

===============================================================================
