------------------------------ MODULE ColorStore ------------------------------
(***************************************************************************)
(* What the Devices manager promises its callers ("manages lifetime and    *)
(* concurrency", src/atmoanalyzer/include/atmo/devices.hpp): a call takes  *)
(* effect on a device at one instant between its invocation and its        *)
(* return, and nothing else ever changes a colour.  A call that succeeds   *)
(* has taken effect on each of its devices; one that fails may or may not  *)
(* have.  Locks, retries, resets and the LED hardware are not visible.     *)
(***************************************************************************)
EXTENDS AtmoDevice

CONSTANTS Client, NumDevices, NumChannels, Calls

VARIABLES
  colors,   (* the colours of each device                                  *)
  status,   (* each client: idle, busy, succeeded (about to return) or     *)
            (* failed (about to throw)                                     *)
  request,  (* the call of each client                                     *)
  left,     (* the devices on which it has not taken effect yet            *)
  reply     (* what a getter has read                                      *)

vars == <<colors, status, request, left, reply>>

Device == 0 .. NumDevices - 1

(* A call with an illegal device index has a target it can never reach.    *)
Targets(c) == IF c.op = "clear" THEN Device ELSE {c.device}

Init ==
  /\ colors = [d \in Device |-> Dark(NumChannels[d])]
  /\ status = [t \in Client |-> "idle"]
  /\ request = [t \in Client |-> NoCall]
  /\ left = [t \in Client |-> {}]
  /\ reply = [t \in Client |-> NoAnswer]

Invoke(t, c) ==
  /\ status[t] = "idle"
  /\ status' = [status EXCEPT ![t] = "busy"]
  /\ request' = [request EXCEPT ![t] = c]
  /\ left' = [left EXCEPT ![t] = Targets(c)]
  /\ UNCHANGED <<colors, reply>>

CanReach(t, d) ==
  /\ status[t] = "busy"
  /\ d \in left[t]
  /\ ~ Rejects(request[t], NumChannels[d])

(* A getter reads its device and that is all it does.                       *)
Read(t, d) ==
  /\ CanReach(t, d)
  /\ request[t].op \notin Writing
  /\ reply' = [reply EXCEPT ![t] = Answer(request[t], colors[d])]
  /\ left' = [left EXCEPT ![t] = {}]
  /\ status' = [status EXCEPT ![t] = "succeeded"]
  /\ UNCHANGED <<colors, request>>

Write(t, d) ==
  /\ CanReach(t, d)
  /\ request[t].op \in Writing
  /\ colors' = [colors EXCEPT ![d] = Modified(request[t], @)]
  /\ left' = [left EXCEPT ![t] = @ \ {d}]
  /\ UNCHANGED <<status, request, reply>>

Succeed(t) ==
  /\ status[t] = "busy"
  /\ left[t] = {}
  /\ status' = [status EXCEPT ![t] = "succeeded"]
  /\ UNCHANGED <<colors, request, left, reply>>

Fail(t) ==
  /\ status[t] = "busy"
  /\ status' = [status EXCEPT ![t] = "failed"]
  /\ UNCHANGED <<colors, request, left, reply>>

Leave(t) ==
  /\ status[t] \in {"succeeded", "failed"}
  /\ status' = [status EXCEPT ![t] = "idle"]
  /\ request' = [request EXCEPT ![t] = NoCall]
  /\ left' = [left EXCEPT ![t] = {}]
  /\ reply' = [reply EXCEPT ![t] = NoAnswer]
  /\ UNCHANGED colors

Next ==
  \E t \in Client :
    \/ \E c \in Calls : Invoke(t, c)
    \/ \E d \in Device : Read(t, d) \/ Write(t, d)
    \/ Succeed(t)
    \/ Fail(t)
    \/ Leave(t)

Spec == Init /\ [][Next]_vars

===============================================================================
