# atmolight in TLA+

This directory is a verification project for atmolight, a C++ daemon that drives
LED strips: clients control the LEDs over a websocket, or an analyzer paints
them with the colours of the borders of a video input.  The TLA+ modules are
translated from the sources; TLC checks them on small instances, and TLAPS
proves the central safety properties of the device manager, of what is below
it, of the application's life, of the two together and of the websocket server
for all instances.

Paths below are relative to the repository's root (`src/atmoanalyzer/...` etc.).

## 1. The system

| Component | State | Operations |
|---|---|---|
| `Devices` (`src/atmoanalyzer/devices.cpp`), the device manager | `m_mutex`, the devices with their `reset_on_error` | `clear`, `getChannel(s)`, `setChannel(s)`, each through `executeWithRetry` |
| `BaseAtmoDevice` (`src/atmodevice/device.cpp`) | `m_channels` | checks, assignment, then the virtual `update()` |
| `AtmoLight`, `KarateLight`, `DotStar` (`serial_devices.cpp`, `spi_devices.cpp`) | an open port or file descriptor and its settings, the LEDs | `update` (encode and send), `reset` (close, open, configure) |
| `Application` (`application.cpp`) | configuration, `m_devices`, `m_control_server`, `m_analyzer`, `m_interrupted` | construction, `run`, `interrupt`, `setMode`, `getMode`, destruction |
| `atmolight` (`src/atmolight/atmolight.cpp`) | `G_APP` | `main`, the SIGINT handler |
| `Analyzer` (`analyzer.cpp`) | `m_interrupted`, `m_channels_per_device`, a thread | `processFrame`, `submitChannels`, `run`, destruction |
| `OpenCVCapture` (`open_cv_capture.cpp`) | the video device, `m_current_frame`, which averaging paints | `capture` |
| `ControlServer`, `Connection` (`control_server.cpp`) | an `io_context` with one thread, an acceptor, per client a stream and `m_buffer` | accept, handshake, read, write, stop |
| `RequestHandler` (`request_handler.cpp`) | none of its own | `handleRequest`: parse, dispatch to `Devices` and the mode callbacks, answer |
| `Configuration` (`config.cpp`) | immutable after loading | load: required and optional keys, defaults, refusals |
| `atmoctrl` | none | one shot: clear, set channels |

Threads: the main thread (constructs, waits in `run()`, destroys), the control
server's worker (all clients, and `setMode`), one thread per `Analyzer` object,
and the SIGINT handler on any of them.  They share the device manager (guarded
by `Devices::m_mutex`, except for `clear()`), `m_analyzer` (guarded by
nothing), `m_interrupted` of the application (mutex and condition variable) and
of each analyzer (atomic).

What makes it hard, and the properties that answer it:

- *Concurrent calls of the device manager, and calls that fail and are tried
  again with the lock held.*  No data race (`NoDataRace`); callers see an
  atomic store (`AtomicStore`); a call that returns has shown its colours
  (`SuccessIsShown`); retries end (`EnteredCallReturns`).
- *Replacing a thread while it runs.*  The mode is what `get_mode` says and no
  old thread is left (`ModeIsTrue`); `clear()` runs with nobody else in the
  manager (`ClearRunsAlone`); `set_mode` returns (`SetModeReturns`).
- *A manager that is safe only as its callers behave.*  The threads of the
  application, which know nothing of each other's calls, never race in it
  (`ManagerIsThreadSafe`), see atomic devices (`CallsAreAtomic`,
  `WritesAreShown`), and no late frame lights an LED in Control mode
  (`ControlOwnsTheLeds`).
- *Lifetime at construction and destruction, under signals.*
  `AnalyzersAreOwned`, `HandlersHaveApplication`, `OneSignalIsSafe`,
  `ShutdownCompletes`, `InterruptLeavesRun`, and the claims that fail,
  `NoSelfDeadlock` and `CleanExit`.
- *A reset that is made of several system calls, each of which may fail, and is
  swallowed and repeated.*  A descriptor is a number that the system gives away
  again: no device uses a foreign one or leaks its own (`OwnsItsDescriptor`),
  and whatever failed before, hardware that is well again is recovered
  (`RecoversWhenHealthy`); the manager above sees nothing of it
  (`DeviceManager`).  The claim that fails: `ResetBeforeUse`.
- *Areas of a picture that are averaged and painted over one after the other.*
  What is cropped is not shown (`CropsAreOmitted`), and an area that meets no
  other shows its own pixels (`ApartAreasAreTrue`).
- *A table updated in place by frames that may fail half-way.*  With complete
  mappings what is submitted is one whole frame (`WholeFramesAreSubmitted`).
  With others no picture is submitted by its own frame; the next empty frame
  does submit the half-updated table, and `LeftoversAreOfOnePicture` says that
  it has nothing but the beginning of the latest picture.  The claim that fails:
  `UsersKeepUnmapped`.
- *Encodings.*  Size, order and checksum of packets (`LedsShowChannels`,
  `ChecksumHolds`), and `AskedChannelsAreLit` of `atmoctrl`: colours received,
  and at a brightness that is not 0, but for the dim ones of a DotStar.
- *Callback chains of the websocket server, and requests that fail half-way.*
  Answers are complete and in order (`AnswersInOrder`,
  `EveryRequestIsAnswered`), a client reads what it has written
  (`ReadsOwnWrites`), a request takes effect as a whole or not at all
  (`AllOrNothing`), clients are accepted (`EveryClientIsAccepted`), and the
  claim that fails, `ServerSurvivesRequests`.

`PROJECT.json` lists every component and every hazard at its line.

## 2. Modules

| Module | Content |
|---|---|
| `AtmoDevice` | operators: colours, calls, what a call checks, assigns and answers |
| `ColorStore` | abstract specification of the device manager |
| `Devices` | the manager, one step per lock, assignment, update, failure and reset |
| `DevicesProofs` | theorems about `Devices` |
| `Transport` | the ports, descriptors and hardware below `Devices` |
| `TransportProofs` | theorems about `Transport` |
| `Configuration` | operators: what each reader of the file requires, refuses and returns |
| `Interrupt` | `run()`, `interrupt()` and the signal handler |
| `Application` | the life of the process, on top of `Interrupt` and `Configuration` |
| `ApplicationProofs` | theorems about `Application` |
| `Daemon` | the threads of `Application` inside the manager of `Devices` |
| `DaemonProofs` | theorems about `Daemon` |
| `Capture` | operators: the areas of a picture, their sums, means, and the painting |
| `CaptureProofs` | lemmas about `Capture`: sums and means, the order of the segments, where the areas lie |
| `Analyzer` | the frames, mappings and submissions of one analyzer thread, on top of `Capture` and `Configuration` |
| `AnalyzerProofs` | theorems about `Analyzer` |
| `RequestHandler` | operators: what a message does to the colours and the mode, and its answer |
| `ControlServer` | connections, on top of `RequestHandler`, and which exceptions of a request escape |
| `ControlServerProofs` | theorems about `ControlServer` and `RequestHandler` |
| `Packets` | operators: the byte sequences sent to each type of device |
| `Atmoctrl` | the command line tool, on top of `AtmoDevice` and `Packets` |
| `AtmoctrlProofs` | theorems about `Atmoctrl` and the packets |
| `MCDevices`, `MCTransport`, `MCApplication`, `MCDaemon`, `MCAnalyzer`, `MCControlServer`, `MCAtmoctrl` | instances for TLC |

How they fit together: `Application` has the *callers* of the device manager
and treats a call as one step; `Devices` has the inside of these calls for any
set of threads, and `Transport` the inside of the steps in which `Devices`
updates and resets.  `Devices` has the parameter `ClearAlone`: when it is TRUE,
its clients do what `ClearRunsAlone` says of the application, namely call
`clear()` only while no other thread is in the manager.  `Daemon` puts the two
together without that parameter.  `Analyzer` and
`ControlServer` have the data that `Application` leaves out: the frames of one
analyzer, and the requests of the clients.  Both treat a call of the manager as
one step, which is what `ColorStore`, and with it `Devices`, allows them.

### Devices

A client is a thread.  `Invoke` enters a method, `Lock` is the `lock_guard`
followed by `getDevice()`, `Begin` starts `clear()`, which has no lock.
`Reject`, `Get` and `Set` are one attempt inside `executeWithRetry`: the
argument checks that throw, the getters, and the assignment to `m_channels`.
The assignment and `update()` are separate steps because `update()` blocks in
the driver and can throw after `m_channels` has changed.  `UpdateFails` leaves
it open whether the LEDs took the colours.  `Caught` is the catch block and
`Reset` the sleep, the reset (whose exceptions are swallowed) and `++retry`.
`Leave` returns and unlocks.

The abstract `ColorStore` lets a call take effect on each device at one instant
between invocation and return, and lets a failed call have taken effect or not.
The refinement mapping reads `colors` off `m_channels`, the caller's status off
its program counter, and the devices a call has still to reach off the index
of the `clear()` loop; a retried assignment maps to a stutter because assigning
twice is assigning once.

### Transport

`Transport` is a superposition on `Devices`: it EXTENDS it, keeps its variables
and adds what is below them.  A step of `Transport` is a step of `Devices` whose
outcome is decided by the hardware, a part of a reset (which `Devices` has as
one step), or a step of the environment.  `fd` is what the device object
remembers (the native handle of the serial port, or `m_file_descriptor`),
`held` what is really open on the device's file, `others` the descriptors of
everything else in the process, which come and go at any time.  `hardware` is
good (nothing fails), flaky (anything may) or gone; `live` says whether the open
file still leads to the hardware, which it does not after the hardware was gone,
and `tuned` whether its settings are the code's (closing an SPI device's file
loses them, as spidev resets the speed).  `phase` walks through
`reset()`: a serial device opens a second port, moves it into the member, which
closes the first, and sets the baud rate; an SPI device closes, opens and
configures.  `open()` takes any free number.  `closeDevice()` forgets the number
only if `close()` failed: `OwnsItsDescriptor` shows why this does no harm, the
next operation being an `open()` that overwrites it, with -1 if it fails.

### Configuration

Every reader is two operators, the condition under which it returns and what it
returns; otherwise it throws.  A YAML node is a record of the keys it has.
`Application` loads a file with it (`LoadConfiguration`), `Analyzer` gets its
mappings and its sides from it (`Settings`), so that the defaults, for example
one channel of depth 20 for a side that is left out, are the code's.

### Interrupt and Application

The main thread's program counter walks through the initialisation of the
members, `run()` and the destruction in reverse order.  `m_analyzer` is
initialised after the server's thread has started, and destroyed before it has
stopped.  The ghost variable `raced` remembers that the worker used the pointer
in one of these two windows, which is undefined behaviour; `crashed` is what it
may lead to (a double delete, a delete of garbage).  The invariants about modes
and lifetimes are stated for executions in which it did not happen
(`raced = {}`), and the run `shutdown_race` shows that it can, and what follows.
Deleting an analyzer is two steps, setting its flag and returning from `join()`.

A signal handler runs on the thread that is interrupted, so that thread's own
steps are disabled until the handler is done.  This is what makes
`SelfDeadlock` possible.  The handler's test of `G_APP` (`Signal`) and its use
(`HandlerCalls`) are two steps, and `main()` may reset the pointer in between
when it is another thread that was interrupted.  Either the pointer that was
tested is used, or it is read again and null is dereferenced (`NullPointer`,
which ends the process by `crashed`): the code leaves it to the build.  The
handler that makes `run()` return has used the pointer before, so that this
takes a second signal: `OneSignalIsSafe`.

### Daemon

`Daemon` EXTENDS `Application` and has an instance of `Devices` whose clients are
the worker and the analyzers, with `ClearAlone` FALSE.  A call that `Application`
makes in one step is entered by one step here (`Serve` between two `set_mode`
requests, `CallClear` inside `setMode()`, `CallSetChannels` in the loop of
`submitChannels()`), makes the steps of `Devices`, which all other threads and
signals interleave with, and its return is the step of `Application`
(`WorkerReturns`, `AnalyzerReturns`; the frame ends if the call threw).  All other
steps of a thread are made while it is not in a call.  `Installed` is the section
`devices` of the file as the readers of `Configuration` return it; the number of
channels of a device is what its constructor sets.  The manager's variables have
their first values from the beginning, though the devices are constructed in
`CreateDevices`: until then nothing reads them.  After a use of `m_analyzer` out of
time (`raced`) an analyzer may be in a manager that is gone, and `Perish` is what
becomes of it.

### Capture and Analyzer

`Capture` has the four functions that place the areas, with their truncated
quotients, and what `getMean()` does to one area: it returns the truncated mean
(`Truncated`) and assigns the rounded one to the area (`Painted`), so that areas
that are averaged later see the painting.  `Segments` is the order in which
they are averaged and mapped.  One of the three colours stands for all, as they
are averaged alike and apart.

`Analyzer` takes one step per turn of the thread's loops.  `Capture` takes a
picture, or an empty frame, which gives no colours at all; `Average` is
`getMean()` of the next area, and `CaptureFails` an exception anywhere before
`Captured`.  `Map` stores the next colour in the table, `MapFails` is the
`at()` that throws at the first colour without a legal mapping and leaves what
has been stored so far.  `Submit` sends the next device, and `SubmitFails` ends
the frame there.  `frame` has the colours averaged so far, `latest` those of the
last picture that was captured completely, `seen` which picture it was before
it was painted; `latest` and `seen` are there for the properties only.
`IsImage` says without a loop what the mappings mean for a set of captured
channels: all of them in `WholeFramesAreSubmitted`, those before the first without
a legal mapping (`Mappable`) in `LeftoversAreOfOnePicture`.  Both compare it with the
table over sequences of frames.
`CropsAreOmitted` and `ApartAreasAreTrue` compare a frame with the picture it was
taken of, without mentioning how the areas are computed one from another.  Users
change colours at any time (`UserSets`).  `Application` has the same thread with
its data left out, and the thread that creates, interrupts and joins it.

### RequestHandler and ControlServer

`RequestHandler` has no state: `HandleRequest(m, s)` is the set of what may come
of message `m` in state `s`, each an answer and the state left behind.  A
property of a request is a sequence of at most one element, empty when it is
absent or of a wrong type; `Required` says which properties a command reads
before it does anything.  Numbers are converted as the code does (`ToUint8`,
`ToSize`).  A call of the manager may fail having taken effect or not (`Written`),
`clear()` up to any device (`OnControlMode`).  A message is a request, a JSON text
without a usable `msg_id`, a text that is not JSON (with or without bytes in the
parser's message that cannot be serialised again), or binary.

A handler of the `io_context` is one step, since one thread runs them all:
`ReadRequest` is `readRequest` with all of `handleRequest` and the start of the
write.  The buffer is modelled as a sequence of messages and responses, so that
forgetting to empty it shows.  In Analyzer mode, `Paint` changes any device
between two handlers.

### Packets and Atmoctrl

`Packets` has one operator per `writeBuffer()`, and `Received`, which is what
the hardware reads out of a packet (external).  `Buffer` says which byte of the
header or of a channel's frame is at each index, `calculateChecksum` which bits
an odd number of the bytes have.  `Atmoctrl` is the program
that sends them: each `SetChannel` assigns one channel and each `Update` sends
all of them, or throws and ends the program.  In `Devices`, a successful
`update()` is what `LedsShowChannels` says of it: the LEDs show `m_channels`.

## 3. Runs

| Run | Shows |
|---|---|
| `devices` | `TypeOK`, `NoDataRace`, `SuccessIsShown`, refinement `AtomicStore`, `EnteredCallReturns` |
| `transport` | `TransportTypeOK`, `OwnsItsDescriptor`, refinement `DeviceManager`, `RecoversWhenHealthy` |
| `half_reset` | violation of `ResetBeforeUse` |
| `application` | `TypeOK`, `ModeIsTrue`, `ClearRunsAlone`, `AnalyzersAreOwned`, `HandlersHaveApplication`, `OneSignalIsSafe`, `InterruptLeavesRun`, `ShutdownCompletes`, `SetModeReturns` |
| `signal_deadlock` | violation of `NoSelfDeadlock` |
| `shutdown_race` | violation of `CleanExit` |
| `daemon` | `DaemonTypeOK`, `ManagerIsThreadSafe`, `WritesAreShown`, `CallsAreAtomic`, `ControlOwnsTheLeds` |
| `analyzer` | `TypeOK`, `WholeFramesAreSubmitted`, `LeftoversAreOfOnePicture`, `CropsAreOmitted`, `ApartAreasAreTrue`, `StopsWhenTold` |
| `unmapped_devices` | violation of `UsersKeepUnmapped` |
| `control_server` | `TypeOK`, `AnswersInOrder`, `ReadsOwnWrites`, `AllOrNothing`, `EveryRequestIsAnswered`, `EveryClientIsAccepted` |
| `missing_msg_id` | violation of `ServerSurvivesRequests` |
| `atmoctrl` | `TypeOK`, `LedsShowChannels`, `ChecksumHolds`, `AskedChannelsAreLit` |

Bounds, and why they are enough:

- `devices`: two threads (the program has two that call the manager at a time:
  the server's worker and the current analyzer; during `set_mode analyzer` an
  old and a new analyzer may overlap, and the theorems hold for any number),
  two devices of one and two channels so that `clear()` has a second device to
  fail on and `setChannels` a proper prefix, two colours, `MAX_RETRIES = 2`
  instead of 7: first, middle and last attempt.
- `transport`: one thread, since a reset runs under the manager's mutex (or
  alone, in `clear()`), as `NoDataRace` says; a serial device and a DotStar, both
  with `reset_on_error`; `MAX_RETRIES = 1`: a call resets a device once, and what
  a reset that failed has left behind is met by the next call, or by the other
  device's part of `clear()`; three descriptors: one for each device and one
  for the rest of the process, which is enough for every number to change
  hands, and for none to be left.
- `application`: two analyzers, since `setMode` keeps at most the old and the
  new one; two signals, so that a second one meets a finished or a pending
  first, or runs into the destruction; seven configuration files: no devices and one, each of the optional
  sections alone, both, none, and three that are refused at different
  places.  The runs that look for a violation use one signal.
- `daemon`: two analyzers, since the old one may be inside a call while the new
  one enters the manager; two devices, so that `clear()` and a frame have a second
  one to go to, one with a reset and one without; `MAX_RETRIES = 1`: a first and
  a last attempt; one signal, one request that writes and one that reads.
  The analyzers are interchangeable, which this run uses as symmetry.
- `analyzer`: two devices with three channels; levels 0 to 3; two pictures of four
  rows and five columns and one of 20 x 20, on which the default depth fits.
  Eight sections that can be read: complete mappings with cropped bars; two
  sources for one channel and a device without any; a missing mapping; a
  device and a channel that do not exist; crops larger than the picture;
  sides that are left out, mapped or not; and one section that is refused.
  (295156 states: an interruption, an error or a user between any two turns of
  a loop.)
- `control_server`: the first client sends three requests ahead (set, get and
  mode in any order), the second one message of 15 sorts, among them every kind
  that is not a request and a refused one of each reason; one device of two
  channels, so that `set_channels` has a proper prefix.  A second message meets
  the buffer a first one has left, a second client meets the accept a
  first one has re-armed.
- `atmoctrl`: every type of device with its real number of channels, except the
  DotStar (3 instead of 256, its frames are alike); channels up to 16, which no
  device has; colours with different components, among them white (the largest
  brightness), one whose sum of 25 is just enough for a brightness of 1, and a
  darker one, which a DotStar does not show.

Fairness: each thread that can take a step is scheduled again and again (weak
fairness of each thread's steps); the `io_context` runs every handler that is
ready.  Nothing is assumed of clients, of new calls, of signals, or of errors.
A signal handler that waits for `m_mutex` gets it in the end (strong fairness
of the handler), which is only needed against unboundedly many spurious wakeups
of `run()`.  `capture()` is assumed to return, as its steps are weakly fair.
`Application` assumes the same of a call of the manager, which is what
`EnteredCallReturns` says of `Devices`.  `Daemon` states no fairness: it is about
safety only, as the liveness of all threads with all steps of their calls is more
than TLC can check on an instance of any interest.
In `Transport` only the threads are fair: system calls return, with success or an
error.  Nothing makes hardware come back, and `RecoversWhenHealthy` asks
nothing of a call whose hardware does not stay good; that the run checks
`DeviceManager`, which is `Spec` of `Devices` with its fairness, shows that the
steps a reset is made of do come to an end.  `RecoversWhenHealthy` counts a call
as recovered only when it is about to return without an exception or `clear()`
has gone on to a later device (`at[t] > d`): a call that throws fails it, on
either device.

## 4. Proofs

`DevicesProofs` proves, for any set of clients, any devices, any calls and any
`MAX_RETRIES`:

- `TypeCorrect`: `Spec => []TypeOK`.  `TypeOK` is not inductive: that the
  device a client works on exists, and that it holds the colours of that
  device, must be known where `m_channels[at[t]]` is used.  The proof adds
  that a client inside a method has a legal index (`Placed`).
- `NoRace`: `ClearAlone => (Spec => []NoDataRace)`.  The invariant says that
  every client inside a method other than `clear()` owns the mutex, and that a
  client in `clear()` is alone.
- `SuccessReachesTheLEDs`: `ClearAlone => (Spec => []SuccessIsShown)`.  The
  invariant follows the call along its path: between the assignment and the
  update the device holds the call's colours, afterwards the LEDs do, and for
  `clear()` all devices before the current index are done; exclusion keeps
  everybody else from disturbing it.
- `ImplementsColorStore`: `ClearAlone => (Spec => AtomicStore)`, one step per
  action, each mapped to a step of `ColorStore` or a stutter.

`TransportProofs`, for any devices, descriptors and `MAX_RETRIES`:

- `ManagerIsSafe`: `ClearAlone => (TransportSpec => [](NoDataRace /\ SuccessIsShown))`.
  `StepOfManager` shows that each step is a step of `Devices` or leaves its
  variables alone, so that the invariants of `DevicesProofs` carry over.
- `RefinesManager`: `TransportSpec => Init /\ [][Next]_vars`, all of `DeviceManager`
  but its fairness.
- `TransportTypeCorrect`, `DescriptorsAreOwned`: `[]TransportTypeOK` and
  `[]OwnsItsDescriptor`.  The inductive invariant adds that no number is open on
  two files (`Apportioned`), without which an `open()` might return a number
  that another device has, and that only SPI devices are ever in the phase
  `close`.  The induction needs no `ClearAlone`: a second thread may run
  `clear()` in the middle of a reset and reset the same device.

`ApplicationProofs`, for any number of `Analyzer` objects and of signals and any
configuration files:

- `TypeCorrect`, `HandlersAreServed`: `[]TypeOK` and `[]HandlersHaveApplication`.
- `SingleSignalIsSafe`: `[]OneSignalIsSafe`.  The invariant `Warned` counts the
  handlers: `run()` returns, and `G_APP` is reset, only once `m_interrupted` is
  set, and a handler that has yet to set it (or even to use the pointer) then
  stands for a second signal.
- `ThreadsAreOwned`, `ClearIsAlone`, `ModesAreTrue`: `[]AnalyzersAreOwned`,
  `[]ClearRunsAlone` and `[]ModeIsTrue`.  The inductive invariant is
  `TypeInv /\ Ordered /\ Handled /\ Warned /\ (raced = {} => Owned)`.  `Ordered` says what
  the worker holds at each place and in which stretch of the main thread it
  exists.  `Owned` is the ownership argument: an object lives until somebody
  deletes it, its thread runs exactly as long, and it is held by `m_analyzer`, by
  the `unique_ptr` being assigned, or by the one that deletes it; none of them
  holds what another one holds.  It is lost once the worker uses `m_analyzer`
  before it is initialised or after it is destroyed, hence `raced = {}`.

`ControlServerProofs`, for any clients, requests, devices and numbers of channels:

- `TypeCorrect`: `[]TypeOK`; it rests on lemmas about `RequestHandler`, that a
  readable request is turned into a call with 8-bit colours, that whatever comes
  of a message is a state of the devices again, and that the answer carries its
  `msg_id`.
- `OrderOfAnswers`: `[]AnswersInOrder`.  The inductive invariant counts along
  each connection: the responses received answer the first requests sent
  (`Replied`), the one being written answers the next (`Buffered`), and the inbox
  holds exactly the rest (`Pending`).
- `RequestsAreAtomic`: `Spec => AllOrNothing`, from the same invariant and the
  lemmas about `HandleRequest`.
- `ReadsWhatItWrote`: `[]ReadsOwnWrites`.  The property relates
  two answers of the past; the invariant `OwnWrites` relates the colours of now to
  each set request the server has answered: while nothing it knows of has
  disturbed the device since, the device shows what was asked for.  A step that
  answers a getter turns it into the property (`Reads`); that nobody paints
  meanwhile needs `ModeIsAsked`: the mode is Analyzer only after somebody asked.

`AnalyzerProofs`, for any devices, any sections of the configuration (illegal
mappings, too few, none), pictures of any size and any user calls:

- `TypeCorrect`: `[]TypeOK`.  That a mean is a colour again needs that the sum of
  an area is at most its size times the brightest level (`CaptureProofs`), and
  that painting leaves a picture of the same size (`TypeInv`).
- `SubmitsLeftovers`: `[]LeftoversAreOfOnePicture`.  `MapInv` says that
  all colours before the one being mapped have a legal mapping, so the
  loop cannot end when one has none; `FrameInv`, below, says for these
  colours what it says for all in the next theorem.
- `SubmitsWholeFrames`: `[]WholeFramesAreSubmitted`.  `FrameInv` says
  that the table is the image of the latest picture, or on the way to it: after
  n = `count` colours a channel shows the last of them that is mapped to it, a
  channel whose sources all come later may show anything, and one without sources
  is black (`Shows`).  When all colours are mapped, nothing earlier is left, because
  every frame has the same targets.
- `ApartShowsWhatIsSeen`: `[]ApartAreasAreTrue`.  `ApartInv`: a pixel that
  no area averaged so far covers is the original one.
- `CropsStayOff`: `[]CropsAreOmitted`.  `CropInv`: if all pixels that are not
  cropped are between two levels, they are still so after any painting, and so
  are all means.  It rests on where the four functions place their areas
  (`CaptureProofs`): inside what is not cropped, if the segments fit.

`CaptureProofs` has the sum of a sequence as a recursive function.  The
library's induction theorems cannot be instantiated with a predicate here, so
its lemma `Induction` is about the set of the numbers that have the property,
and follows from the minimum principle for well-founded relations (`WFMin`).

`AtmoctrlProofs`, for any colours, any number of LEDs of a DotStar and any
command line:

- `TypeCorrect`, `ShowsTheChannels`, `SumsUp`: `[]TypeOK`, `[]LedsShowChannels`,
  `[]ChecksumHolds`.  `PacketIs` says of each type what is sent: that many bytes,
  from which the device reads the colours it was given; a brightness fits
  into its five bits (`BrightnessIs`), and which brightness each LED is
  sent (`BrightnessOf`).  `ChecksumOfAll` is about any
  buffer: a byte that was zero, set to the checksum, makes the checksum zero,
  since each of its bits changes the parity of the bytes that have it.
- `LightsWhatWasAsked`: `[]AskedChannelsAreLit`, from the loop invariant `LoopInv`:
  exactly the channels below the counter have been set, or up to the counter
  between `setChannel()` and the end of its update.  That they are lit needs
  that the truncated brightness is positive for a sum of components of 25 or
  more (`BrightnessIsPositive`).

`DaemonProofs`, for any devices, requests, frames, analyzers, retries and signals:

- `RunsTheApplication`: `DaemonSpec => Init /\ [][Next]_vars` of `Application`: every
  step of the process is one of `Application` or leaves its variables alone, so
  that the theorems of `ApplicationProofs` hold of the process.
- `DaemonTypeCorrect`, `ManagerHasNoRace`, `RequestsReachTheLEDs`: `[]DaemonTypeOK`,
  `[]ManagerIsThreadSafe`, `[]WritesAreShown`.
- `CallsTakeEffectAtOnce`, `ClientsOwnTheLeds`: `CallsAreAtomic` and
  `ControlOwnsTheLeds`, properties of every step.

The theorems of `DevicesProofs` with a premise `ClearAlone` are used here where
nothing is assumed: `DaemonProofs` takes that module twice, with `ClearAlone` FALSE
(`Free`) and TRUE (`Alone`).  The two differ in one operator, `Admitted`, the
guard that keeps `clear()` apart.  The invariant is
`Inv /\ Free!TypeInv /\ Linked /\ (raced = {} => Alone!EffectInv)`, with `Inv` of
`ApplicationProofs`; `Linked` says that a thread is in a method only where
its own code calls it.  As long as `raced = {}`, `ClearRunsAlone` and `Linked`
give `Admitted` for every call that is entered (`AloneTakesIt`), so each step of the
process is one of `Alone!Next`, and its invariants and its refinement of
`ColorStore` carry over.  `ClientsOwnTheLeds` follows from `Owned`: with a null
pointer and nobody being deleted there is no analyzer thread.

The assumptions on the constants are the ASSUMEs of the modules
(`BlackIsAColor`, `DevicesAssumption`, `TransportAssumption`,
`InterruptAssumption`, `ApplicationAssumption`, `RequestHandlerAssumption`,
`ControlServerAssumption`, `AnalyzerAssumption`, `AtmoctrlAssumption`,
`DaemonAssumption`), which TLC evaluates in the runs.

Model-checked only: all liveness (`EnteredCallReturns`, `RecoversWhenHealthy`,
`InterruptLeavesRun`, `ShutdownCompletes`, `SetModeReturns`, `StopsWhenTold`,
`EveryRequestIsAnswered`, `EveryClientIsAccepted`), and the fairness that
`DeviceManager` includes, since it speaks of ENABLED, which the provers do not
reason about.

## 5. Not modelled

- Time: the lengths of sleeps and timeouts.  With 7 retries a call may hold
  the mutex for 1 + 2 + ... + 64 = 127 seconds; the model says only that it ends.
- The inside of `pthread_cond_wait`, of Boost.Asio, Beast, nlohmann::json and
  yaml-cpp, which are modelled from how the code uses them; the syntax of JSON
  and YAML.
- The rounding of the floats in which the areas are computed; the model's
  quotients are exact, so that an area may differ by a pixel where the code's
  product is just below an integer.  A negative width is undefined behaviour
  when converted: the model has 0, and any other outcome is `CaptureFails`.
- That the kernel gives returned USB hardware another name while the old port
  is still held (`/dev/ttyUSB1`): then no reset finds it.
- Devices whose constructor throws: the application's constructor throws then,
  too, and the process ends.
- A SIGINT before the handler is installed ends the process by its default
  action; SIGTERM, which systemd sends, always does.
- Weak memory effects of the unsynchronised `m_analyzer` and `G_APP`, beyond the
  order of the loads and stores and the second load of `G_APP`.
- The Python bindings and the tests (empty files), the
  build files.

Disagreements between the code and its comments that are read off one line, and
have no run, are listed among the findings: `clear()` takes no lock although the
manager calls itself thread-safe (harmless, as `ManagerHasNoRace` shows); a configuration without a control
section is refused; device 0 is opened whatever the file says, and also if
it names no device; an empty frame makes no colours; `getMean()` is const and
paints; colours are not range-checked; dim colours are dark on a DotStar;
`remote_endpoint()` is called before the error is looked at; `set_mode control` that
fails has changed the mode; a second signal may find `G_APP` null
(`OneSignalIsSafe` excepts it); a half-updated table is submitted by the next empty
frame (`LeftoversAreOfOnePicture` says what of it); `m_analyzer` may be used before
its initialisation (`raced`).

## 6. Plan

Done, in this order: `AtmoDevice`, `ColorStore`, `Devices` with its proofs,
`Interrupt`, `Application`, `Analyzer`, `ControlServer`, `Packets`, `Atmoctrl`;
then `Transport`, `RequestHandler`, `Configuration` and `Capture` below or inside
them, the proofs of `Transport`, `Application`, `ControlServer`, `Analyzer` and
`Atmoctrl`; then `Daemon`, the composition of `Application` and `Devices`, with its
proofs.

Left: `Transport` in the place of `Devices` inside `Daemon`, and the requests of
`ControlServer` in the place of `Serve`; both refinements of steps that `Daemon`
already has.
