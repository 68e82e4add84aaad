-------------------------------- MODULE Devices --------------------------------
(***************************************************************************)
(* The class Devices (src/atmoanalyzer/devices.cpp): the manager that all  *)
(* threads use to reach the LED devices.  The four channel methods hold    *)
(* m_mutex for the whole call, the sleeps between retries included;        *)
(* clear() takes no lock at all.  Every method goes through                *)
(* executeWithRetry, which resets a device that threw and tries again up   *)
(* to MAX_RETRIES times when the device is configured with reset_on_error. *)
(*                                                                         *)
(* A client is a thread.  Its program counter is                           *)
(*   idle     not in a call                                                *)
(*   start    in the method: about to lock m_mutex, or in clear()          *)
(*   try      about to call the device's method                            *)
(*   update   m_channels is assigned, update() is sending it to the LEDs   *)
(*   sleep    the device threw; sleeping, then reset() and ++retry         *)
(*   return   leaving with a result, throw: leaving with an exception.     *)
(* The lengths of the sleeps (1 << retry seconds) are left out.            *)
(***************************************************************************)
EXTENDS AtmoDevice

CONSTANTS
  Client,        (* the threads that call the manager                      *)
  NoClient,      (* "nobody", the owner of a free mutex                    *)
  NumDevices,    (* m_devices.size()                                       *)
  NumChannels,   (* the number of channels of each device                  *)
  ResetOnError,  (* Device::reset_on_error of each device                  *)
  DotStar,       (* the devices whose constructor does not clear the LEDs  *)
  MAX_RETRIES,
  Calls,         (* the calls the clients make                             *)
  ClearAlone     (* TRUE: callers keep clear() apart from all other calls  *)

Device == 0 .. NumDevices - 1

ASSUME DevicesAssumption ==
  /\ NoClient \notin Client
  /\ NumDevices \in Nat
  /\ NumChannels \in [Device -> Nat \ {0}]
  /\ ResetOnError \in [Device -> BOOLEAN]
  /\ DotStar \subseteq Device
  /\ MAX_RETRIES \in Nat
  /\ Calls \subseteq AtmoCall
  /\ ClearAlone \in BOOLEAN

VARIABLES
  mutex,      (* the client that holds m_mutex, or NoClient               *)
  pc,         (* where each client is                                     *)
  call,       (* the call it makes                                        *)
  at,         (* the index of the device it is working on                 *)
  retry,      (* executeWithRetry's counter                               *)
  answer,     (* what a getter is going to return                         *)
  channels,   (* m_channels of each device                                *)
  shown       (* the colours last sent to its LEDs successfully           *)

locals == <<pc, call, at, retry, answer>>
vars == <<mutex, pc, call, at, retry, answer, channels, shown>>

Targets(c) == IF c.op = "clear" THEN Device ELSE {c.device}

(* The constructors of the serial devices clear the LEDs, DotStar's leaves  *)
(* them as they are.                                                        *)
InitiallyShown(d) ==
  IF d \in DotStar THEN Vector(NumChannels[d]) ELSE {Dark(NumChannels[d])}

AnyVector == UNION {Vector(NumChannels[d]) : d \in Device}

Init ==
  /\ mutex = NoClient
  /\ pc = [t \in Client |-> "idle"]
  /\ call = [t \in Client |-> NoCall]
  /\ at = [t \in Client |-> 0]
  /\ retry = [t \in Client |-> 0]
  /\ answer = [t \in Client |-> NoAnswer]
  /\ channels = [d \in Device |-> Dark(NumChannels[d])]
  /\ shown \in {s \in [Device -> AnyVector] :
                  \A d \in Device : s[d] \in InitiallyShown(d)}

-------------------------------------------------------------------------------
(***************************************************************************)
(* Entering a call.  The callers' side of the bargain, which the module    *)
(* Application discharges when ClearAlone is TRUE: clear() is only called  *)
(* while no other thread is in the manager, and none enters during it.     *)
(***************************************************************************)
Admitted(t, c) ==
  ClearAlone =>
    \A u \in Client \ {t} :
      pc[u] # "idle" => c.op # "clear" /\ call[u].op # "clear"

Invoke(t, c) ==
  /\ pc[t] = "idle"
  /\ Admitted(t, c)
  /\ pc' = [pc EXCEPT ![t] = "start"]
  /\ call' = [call EXCEPT ![t] = c]
  /\ at' = [at EXCEPT ![t] = IF c.op = "clear" THEN 0 ELSE c.device]
  /\ UNCHANGED <<mutex, retry, answer, channels, shown>>

(* Mutant of Lock: the method forgets its lock_guard.                       *)
LockForgotten(t) ==
  /\ pc[t] = "start"
  /\ call[t].op # "clear"
  /\ mutex' = t
  /\ pc' = [pc EXCEPT ![t] = IF at[t] \in Device THEN "try" ELSE "throw"]
  /\ UNCHANGED <<call, at, retry, answer, channels, shown>>

(* The lock_guard, then getDevice(), outside the retry loop: an illegal     *)
(* device index is never retried.                                           *)
Lock(t) ==
  /\ pc[t] = "start"
  /\ call[t].op # "clear"
  /\ mutex = NoClient
  /\ mutex' = t
  /\ pc' = [pc EXCEPT ![t] = IF at[t] \in Device THEN "try" ELSE "throw"]
  /\ UNCHANGED <<call, at, retry, answer, channels, shown>>

(* clear() locks nothing and starts its loop over the devices.              *)
Begin(t) ==
  /\ pc[t] = "start"
  /\ call[t].op = "clear"
  /\ pc' = [pc EXCEPT ![t] = IF NumDevices = 0 THEN "return" ELSE "try"]
  /\ UNCHANGED <<mutex, call, at, retry, answer, channels, shown>>

(* Mutants of Caught: one retry too many; the last exception is swallowed.  *)
CaughtTooOften(t) ==
  pc' = [pc EXCEPT ![t] = IF ResetOnError[at[t]] /\ retry[t] <= MAX_RETRIES
                          THEN "sleep" ELSE "throw"]

CaughtForGood(t) ==
  pc' = [pc EXCEPT ![t] = IF ResetOnError[at[t]] /\ retry[t] < MAX_RETRIES
                          THEN "sleep" ELSE "return"]

(* executeWithRetry's catch block.                                          *)
Caught(t) ==
  pc' = [pc EXCEPT ![t] = IF ResetOnError[at[t]] /\ retry[t] < MAX_RETRIES
                          THEN "sleep" ELSE "throw"]

(* Mutant of Reject: setChannels copies what fits before it checks.         *)
RejectAfterCopy(t) ==
  /\ pc[t] = "try"
  /\ Rejects(call[t], NumChannels[at[t]])
  /\ Caught(t)
  /\ channels' = IF call[t].op = "setChannels"
                 THEN [channels EXCEPT ![at[t]] = Modified(call[t], @)]
                 ELSE channels
  /\ UNCHANGED <<mutex, call, at, retry, answer, shown>>

(***************************************************************************)
(* The device's method: it checks its arguments, assigns m_channels and    *)
(* calls update().  Whatever it throws is caught by executeWithRetry.      *)
(***************************************************************************)
Reject(t) ==
  /\ pc[t] = "try"
  /\ Rejects(call[t], NumChannels[at[t]])
  /\ Caught(t)
  /\ UNCHANGED <<mutex, call, at, retry, answer, channels, shown>>

Get(t) ==
  /\ pc[t] = "try"
  /\ call[t].op \notin Writing
  /\ ~ Rejects(call[t], NumChannels[at[t]])
  /\ answer' = [answer EXCEPT ![t] = Answer(call[t], channels[at[t]])]
  /\ pc' = [pc EXCEPT ![t] = "return"]
  /\ UNCHANGED <<mutex, call, at, retry, channels, shown>>

Set(t) ==
  /\ pc[t] = "try"
  /\ call[t].op \in Writing
  /\ ~ Rejects(call[t], NumChannels[at[t]])
  /\ channels' = [channels EXCEPT ![at[t]] = Modified(call[t], @)]
  /\ pc' = [pc EXCEPT ![t] = "update"]
  /\ UNCHANGED <<mutex, call, at, retry, answer, shown>>

(* The method returns.  clear() goes on to the next device, with a new      *)
(* executeWithRetry and so a new counter.                                   *)
Done(t) ==
  IF call[t].op = "clear" /\ at[t] + 1 \in Device
  THEN /\ at' = [at EXCEPT ![t] = @ + 1]
       /\ retry' = [retry EXCEPT ![t] = 0]
       /\ pc' = [pc EXCEPT ![t] = "try"]
  ELSE /\ pc' = [pc EXCEPT ![t] = "return"]
       /\ UNCHANGED <<at, retry>>

Update(t) ==
  /\ pc[t] = "update"
  /\ shown' = [shown EXCEPT ![at[t]] = channels[at[t]]]
  /\ Done(t)
  /\ UNCHANGED <<mutex, call, answer, channels>>

(* update() throws: the LEDs may have taken the colours or not.             *)
UpdateFails(t) ==
  /\ pc[t] = "update"
  /\ shown' \in {shown, [shown EXCEPT ![at[t]] = channels[at[t]]]}
  /\ Caught(t)
  /\ UNCHANGED <<mutex, call, at, retry, answer, channels>>

(* Mutant of Reset: the counter is not advanced.                            *)
ResetForever(t) ==
  /\ pc[t] = "sleep"
  /\ pc' = [pc EXCEPT ![t] = "try"]
  /\ UNCHANGED <<mutex, call, at, retry, answer, channels, shown>>

(* The sleep ends; reset() runs and what it throws is swallowed.            *)
Reset(t) ==
  /\ pc[t] = "sleep"
  /\ retry' = [retry EXCEPT ![t] = @ + 1]
  /\ pc' = [pc EXCEPT ![t] = "try"]
  /\ UNCHANGED <<mutex, call, at, answer, channels, shown>>

(* The call ends, with a value or an exception; the lock_guard unlocks.     *)
Leave(t) ==
  /\ pc[t] \in {"return", "throw"}
  /\ mutex' = IF call[t].op = "clear" THEN mutex ELSE NoClient
  /\ pc' = [pc EXCEPT ![t] = "idle"]
  /\ call' = [call EXCEPT ![t] = NoCall]
  /\ at' = [at EXCEPT ![t] = 0]
  /\ retry' = [retry EXCEPT ![t] = 0]
  /\ answer' = [answer EXCEPT ![t] = NoAnswer]
  /\ UNCHANGED <<channels, shown>>

Progress(t) ==
  Lock(t) \/ Begin(t) \/ Reject(t) \/ Get(t) \/ Set(t) \/ Update(t)
          \/ UpdateFails(t) \/ Reset(t) \/ Leave(t)

Next == \E t \in Client : Progress(t) \/ \E c \in Calls : Invoke(t, c)

(* A running thread is scheduled again and again: each client's own steps   *)
(* inside a call are weakly fair.  Nobody has to make a call.               *)
Spec == Init /\ [][Next]_vars /\ \A t \in Client : WF_vars(Progress(t))

-------------------------------------------------------------------------------
(* Every variable has its type, and executeWithRetry's counter stays within *)
(* MAX_RETRIES (it is a uint8_t that 1U << retry turns into seconds).       *)
TypeOK ==
  /\ mutex \in Client \cup {NoClient}
  /\ pc \in [Client -> {"idle", "start", "try", "update", "sleep", "return", "throw"}]
  /\ call \in [Client -> Calls \cup {NoCall}]
  /\ at \in [Client -> Nat]
  /\ retry \in [Client -> 0 .. MAX_RETRIES]
  /\ DOMAIN answer = Client
  /\ channels \in [Device -> AnyVector]
  /\ shown \in [Device -> AnyVector]
  /\ \A d \in Device : channels[d] \in Vector(NumChannels[d])
  /\ \A d \in Device : shown[d] \in Vector(NumChannels[d])

(* The client may touch the device object at[t].                            *)
Inside(t) == pc[t] \in {"try", "update", "sleep"}

(* devices.hpp:51: "All methods of this class are thread-safe".  No two     *)
(* threads are inside the methods of one device object at the same time,    *)
(* where they would race on m_channels and on the port.                     *)
NoDataRace ==
  \A t, u \in Client :
    t # u /\ Inside(t) /\ Inside(u) => at[t] # at[u]

(* A writing call that returns without an exception did what it says: its   *)
(* devices hold the colours it asked for and their LEDs show them, however  *)
(* often it was retried and whoever else was calling.                       *)
SuccessIsShown ==
  \A t \in Client :
    pc[t] = "return" /\ call[t].op \in Writing =>
      \A d \in Targets(call[t]) :
        /\ channels[d] = Modified(call[t], channels[d])
        /\ shown[d] = channels[d]

(* The retries are over at some point: a call that has entered the manager  *)
(* comes back, with a result or an exception, and does not hold the mutex   *)
(* against everybody else for ever.                                         *)
EnteredCallReturns ==
  \A t \in Client : pc[t] \notin {"idle", "start"} ~> pc[t] = "idle"

(* Refinement: seen from its callers the manager is a ColorStore, in which  *)
(* every call takes effect once per device, at one instant.  That instant   *)
(* is the first attempt's assignment to m_channels; a retry repeats it.     *)
Untaken(t) ==
  \/ pc[t] = "start"
  \/ at[t] \notin Device
  \/ Rejects(call[t], NumChannels[at[t]])
  \/ pc[t] = "try" /\ retry[t] = 0

Left(t) ==
  IF pc[t] = "idle" THEN {}
  ELSE {d \in Targets(call[t]) : d > at[t] \/ (d = at[t] /\ Untaken(t))}

Status(t) ==
  IF pc[t] = "idle" THEN "idle"
  ELSE IF pc[t] = "return" THEN "succeeded"
  ELSE IF pc[t] = "throw" THEN "failed"
  ELSE "busy"

Store == INSTANCE ColorStore
  WITH colors  <- channels,
       status  <- [t \in Client |-> Status(t)],
       request <- call,
       left    <- [t \in Client |-> Left(t)],
       reply   <- answer

AtomicStore == Store!Spec

===============================================================================
