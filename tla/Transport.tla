------------------------------- MODULE Transport -------------------------------
(***************************************************************************)
(* What is below update() and reset() in the module Devices: the ports of  *)
(* the serial devices (src/atmodevice/serial_devices.cpp) and the file     *)
(* descriptors of the SPI devices (spi_devices.cpp), hardware that fails   *)
(* or is unplugged and comes back, and the other files of the process,     *)
(* which are opened and closed meanwhile by the network and the capture    *)
(* device and get whatever descriptor is free.                             *)
(*                                                                         *)
(* The variables of Devices are used as they are: a step here is a step of *)
(* Devices with its outcome decided by the hardware, a part of the reset   *)
(* during the sleep that Devices has as one step, or a step of the         *)
(* environment.                                                            *)
(*                                                                         *)
(* The constructors and destructors are not repeated: the devices begin as *)
(* their constructors leave them, opened and configured.                   *)
(***************************************************************************)
EXTENDS Devices, FiniteSets, Integers

CONSTANT Descriptor    (* the file descriptors a process can have          *)

ASSUME TransportAssumption ==
  /\ Descriptor \subseteq Nat
  /\ IsFiniteSet(Descriptor)
  /\ Cardinality(Descriptor) > NumDevices

VARIABLES
  fd,         (* the native handle of m_serial_port, or m_file_descriptor  *)
  held,       (* the descriptors that are open on the device's file        *)
  others,     (* the descriptors that are open on other files              *)
  hardware,   (* each device's hardware: good, flaky or gone               *)
  live,       (* the open file leads to the hardware that is there now     *)
  tuned,      (* the hardware has the baud rate or the SPI mode, word      *)
              (* length and speed that the code sets                       *)
  phase       (* where reset() is: none, close, open, configure            *)

port == <<fd, held, live, tuned, phase>>
world == <<others, hardware>>
transportVars == <<vars, port, world>>

SPI == DotStar

NoDescriptor == -1

Free == Descriptor \ (others \cup UNION {held[d] : d \in Device})

TransportInit ==
  /\ Init
  /\ fd \in {f \in [Device -> Descriptor] : \A d, e \in Device : f[d] = f[e] => d = e}
  /\ held = [d \in Device |-> {fd[d]}]
  /\ others = {}
  /\ hardware \in [Device -> {"good", "flaky"}]
  /\ live = [d \in Device |-> TRUE]
  /\ tuned = [d \in Device |-> TRUE]
  /\ phase = [d \in Device |-> "none"]

-------------------------------------------------------------------------------
(* An operation on the open file can succeed, and must succeed.             *)
Works(d) == fd[d] # NoDescriptor /\ live[d] /\ hardware[d] # "gone"

MustWork(d) == Works(d) /\ hardware[d] = "good"

Send(t) ==
  /\ Update(t)
  /\ Works(at[t])
  /\ UNCHANGED <<port, world>>

SendFails(t) ==
  /\ UpdateFails(t)
  /\ ~ MustWork(at[t])
  /\ UNCHANGED <<port, world>>

(* Mutant of BeginReset: a port that is open is not opened again.           *)
BeginResetOfOpen(t) ==
  /\ pc[t] = "sleep"
  /\ phase[at[t]] = "none"
  /\ phase' = [phase EXCEPT ![at[t]] =
                 IF fd[at[t]] = NoDescriptor THEN "open" ELSE "configure"]
  /\ UNCHANGED <<vars, fd, held, live, tuned, world>>

(* reset() is called when the sleep is over.                                *)
BeginReset(t) ==
  /\ pc[t] = "sleep"
  /\ phase[at[t]] = "none"
  /\ phase' = [phase EXCEPT ![at[t]] = IF at[t] \in SPI THEN "close" ELSE "open"]
  /\ UNCHANGED <<vars, fd, held, live, tuned, world>>

At(t, p) == pc[t] = "sleep" /\ phase[at[t]] = p

(* Mutant of EndReset: what reset() throws is not swallowed.                *)
EndResetThrows(t) ==
  /\ pc' = [pc EXCEPT ![t] = IF tuned[at[t]] THEN "try" ELSE "throw"]
  /\ retry' = [retry EXCEPT ![t] = @ + 1]
  /\ phase' = [phase EXCEPT ![at[t]] = "none"]
  /\ UNCHANGED <<mutex, call, at, answer, channels, shown>>

(* reset() is over, by an exception or not: the call is tried again.        *)
EndReset(t) ==
  /\ Reset(t)
  /\ phase' = [phase EXCEPT ![at[t]] = "none"]

(* SPIDevice::closeDevice(): the number is forgotten when close() reports   *)
(* an error, and kept when it does not.  Linux releases it in either case,  *)
(* and spidev forgets the speed of a device that nobody has open.           *)
Close(t) ==
  LET d == at[t]
  IN  /\ At(t, "close")
      /\ held' = [held EXCEPT ![d] = @ \ {fd[d]}]
      /\ fd' \in {fd, [fd EXCEPT ![d] = NoDescriptor]}
      /\ live' = [live EXCEPT ![d] = FALSE]
      /\ tuned' = [tuned EXCEPT ![d] = FALSE]
      /\ phase' = [phase EXCEPT ![d] = "open"]
      /\ UNCHANGED <<vars, world>>

(* The file is opened; the move assignment of a serial port closes the one  *)
(* it replaces, which until then was open beside the new one.               *)
Open(t) ==
  LET d == at[t]
  IN  /\ At(t, "open")
      /\ hardware[d] # "gone"
      /\ \E n \in Free :
           /\ fd' = [fd EXCEPT ![d] = n]
           /\ held' = [held EXCEPT ![d] = {n}]
      /\ live' = [live EXCEPT ![d] = TRUE]
      /\ phase' = [phase EXCEPT ![d] = "configure"]
      /\ UNCHANGED <<vars, tuned, world>>

(* Mutant of OpenFails: the result is checked before it is stored.          *)
OpenFailsUnstored(t) ==
  /\ At(t, "open")
  /\ hardware[at[t]] # "good" \/ Free = {}
  /\ EndReset(t)
  /\ UNCHANGED <<fd, held, live, tuned, world>>

(* open() fails: an SPI device has stored the -1, a serial device still has *)
(* the old port.                                                            *)
OpenFails(t) ==
  LET d == at[t]
  IN  /\ At(t, "open")
      /\ hardware[d] # "good" \/ Free = {}
      /\ fd' = IF d \in SPI THEN [fd EXCEPT ![d] = NoDescriptor] ELSE fd
      /\ EndReset(t)
      /\ UNCHANGED <<held, live, tuned, world>>

(* The baud rate, or the six SPI settings.                                  *)
Configure(t) ==
  /\ At(t, "configure")
  /\ Works(at[t])
  /\ tuned' = [tuned EXCEPT ![at[t]] = TRUE]
  /\ EndReset(t)
  /\ UNCHANGED <<fd, held, live, world>>

(* One of them is refused: the file stays open.                             *)
ConfigureFails(t) ==
  /\ At(t, "configure")
  /\ ~ MustWork(at[t])
  /\ EndReset(t)
  /\ UNCHANGED <<fd, held, live, tuned, world>>

(* All other steps of the manager have nothing to do with the ports.        *)
Elsewhere(t) ==
  /\ Lock(t) \/ Begin(t) \/ Reject(t) \/ Get(t) \/ Set(t) \/ Leave(t)
  /\ UNCHANGED <<port, world>>

TransportProgress(t) ==
  \/ Elsewhere(t) \/ Send(t) \/ SendFails(t)
  \/ BeginReset(t) \/ Close(t) \/ Open(t) \/ OpenFails(t)
  \/ Configure(t) \/ ConfigureFails(t)

Enter(t, c) == Invoke(t, c) /\ UNCHANGED <<port, world>>

(* Hardware that has been away is reached only by opening its file again,   *)
(* and has its default settings.                                            *)
HardwareChanges(d) ==
  /\ \E h \in {"good", "flaky", "gone"} \ {hardware[d]} :
       /\ hardware' = [hardware EXCEPT ![d] = h]
       /\ live' = [live EXCEPT ![d] = @ /\ h # "gone"]
       /\ tuned' = [tuned EXCEPT ![d] = @ /\ h # "gone"]
  /\ UNCHANGED <<vars, fd, held, others, phase>>

OthersOpen == others' \in {others \cup {n} : n \in Free}

OthersClose == others' \in {others \ {n} : n \in others}

OtherFiles ==
  /\ OthersOpen \/ OthersClose
  /\ UNCHANGED <<vars, port, hardware>>

TransportNext ==
  \/ \E t \in Client : TransportProgress(t) \/ \E c \in Calls : Enter(t, c)
  \/ \E d \in Device : HardwareChanges(d)
  \/ OtherFiles

TransportSpec ==
  /\ TransportInit /\ [][TransportNext]_transportVars
  /\ \A t \in Client : WF_transportVars(TransportProgress(t))

-------------------------------------------------------------------------------
(* Every variable has its type, and reset() runs only for a device that     *)
(* somebody sleeps for.                                                     *)
TransportTypeOK ==
  /\ TypeOK
  /\ fd \in [Device -> Descriptor \cup {NoDescriptor}]
  /\ held \in [Device -> SUBSET Descriptor]
  /\ others \subseteq Descriptor
  /\ hardware \in [Device -> {"good", "flaky", "gone"}]
  /\ live \in [Device -> BOOLEAN]
  /\ tuned \in [Device -> BOOLEAN]
  /\ phase \in [Device -> {"none", "close", "open", "configure"}]
  /\ \A d \in Device :
       phase[d] # "none" => \E t \in Client : pc[t] = "sleep" /\ at[t] = d

(* A descriptor is a number that the system gives away again.  Whatever     *)
(* failed before, a device that writes to, configures or closes a number    *)
(* has its own file open there, never a client's socket or another device's *)
(* port; and it has no second one that nobody will close.                   *)
OwnsItsDescriptor ==
  \A d \in Device :
    IF phase[d] = "open" /\ d \in SPI THEN held[d] = {}
    ELSE held[d] = {fd[d]} \ {NoDescriptor}

(* The device at[t] is about to be reset for a call it does not reject.     *)
Retrying(t, d) ==
  /\ pc[t] = "sleep" /\ at[t] = d /\ phase[d] = "none"
  /\ ~ Rejects(call[t], NumChannels[d])

(* device.hpp:60: reset() is to "reopen the device", "a workaround for      *)
(* misbehaving USB devices".  If the hardware is well again before the      *)
(* sleep ends and stays so (and descriptors are left), the call returns     *)
(* without an exception, or clear() has gone on to the next device, even by *)
(* its last retry: nothing that a reset or an update that failed earlier    *)
(* has left behind keeps the next reset from recovering the device.         *)
RecoversWhenHealthy ==
  \A t \in Client : \A d \in Device :
    Retrying(t, d) ~> \/ pc[t] = "return" \/ at[t] > d
                      \/ hardware[d] # "good" \/ Free = {}

(* The manager over these ports is the one of the module Devices, its       *)
(* fairness included: every reset is over at some time, and whatever part   *)
(* of it fails, nothing changes but the counter of the retries.             *)
DeviceManager == Spec

(* config/example.yml:7-8: a device "can be reset automatically", and "with *)
(* every failing reset, the wait time is doubled".  A failing reset is      *)
(* followed by another, not by a write: an update only succeeds on hardware *)
(* that has its settings.                                                   *)
ResetBeforeUse == [][\A t \in Client : Send(t) => tuned[at[t]]]_transportVars

===============================================================================
