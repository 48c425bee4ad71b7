# Mighty Mouse: a TLA+ development

Mighty Mouse turns an Android phone into a USB mouse and keyboard. The phone
sends commands over Bluetooth RFCOMM to an Arduino Leonardo, which decodes them
and produces USB events. The repository also carries LUFA, the USB library of an
earlier prototype of the dongle. This directory holds TLA+ models of the parts that
have behaviour, TLC configurations that check them on small instances, and
TLAPS proofs of what matters most.

## The system and its parts

| Part | Source (`MightyMouse/src/com/vos/MightyMouse/` unless said otherwise) | Module |
|---|---|---|
| Connection manager: three kinds of threads around one lock | `WorkerClass.java` | `WorkerClass` |
| Main activity: callbacks, results, menu | `MouseAndKeyboardActivity.java` | `Lifecycle`; its Handler in `WorkerClass`, its senders in `Dispatcher` |
| Ten-key pad, device list, file list | `TenKeyActivity.java`, `DeviceListActivity.java`, `FileListActivity.java` | `Lifecycle` |
| Command encoder, file sender | `DispatcherSingleton.java` | `Dispatcher`, `CommandChannel`; the singleton itself in `Lifecycle` |
| Track pad and its sender thread | `TrackPad.java` | `TrackPad` |
| Firmware of the dongle | `SerialProtocol/SerialProtocol.ino` | `SerialProtocol` |
| LUFA: ring buffer | `LUFA-120730/LUFA/Drivers/Misc/RingBuffer.h` | `RingBuffer`, `BoundedQueue` |
| LUFA: USB-to-serial bridge, CDC class driver | `LUFA-120730/Projects/USBtoSerial/`, `LUFA/Drivers/USB/Class/Device/CDCClassDevice.c` | `USBtoSerial` |
| LUFA: USB device core | `LUFA/Drivers/USB/Core/` (AVR8) | `USBDevice` |
| LUFA: USB host core | the same | `USBHost`, composed with `USBDevice` |
| Manifest, resources; the rest of LUFA | `AndroidManifest.xml`, `res/`, `LUFA-120730/` | none, see "Not modelled" |

A touch goes to `TrackPad`, which adds it to a running total. Its `MouseSender`
thread turns the total into a mouse command. Keys and clicks come from the UI
thread, files from a background task. All three call `DispatcherSingleton`,
which writes each command in three pieces, `255`, a letter, a payload, through
`WorkerClass.write()`. The firmware reads one byte per `loop()`.

## How the modules correspond to the code

**WorkerClass.** The variables are the fields of the class, the program counter
of every thread, and the state of every socket. A ConnectThread and the
ConnectedThread that takes its socket over are named by that socket. Names are
reused when nothing refers to them. Every synchronized method is one step; a
blocking call and the code after it are two. `NullDereference` is the uncaught
exception that follows a socket which could not be created. The messages that
only show text (toast, read, write) are left out, and so is a failure of
`getInputStream()`.

**SerialProtocol.** One action, `Loop(b)`, with one alternative per branch of
the switch. `size` and `frame` are history: the bytes since the last START_BYTE,
from which the properties say what should have happened.

**Dispatcher** extends SerialProtocol: it composes the encoder, a link and the
firmware. Each of the three writes of a command is a step, and the payload is
read from the shared buffer at the third. The link is up or down; a write while
it is down is dropped silently, as `sendByte()` does. The firmware ignores which
button a click names, so the model's click event has none. The abstract
`CommandChannel` is what the user may expect of the composition: commands given
wait in a sequence and come out once each, the oldest first, until something is
lost, after which it promises nothing. Its waiting commands are read from the
histories `issued` and `executed` (`Waiting`, `Output`).

**TrackPad.** One axis, in half pixels. Reads and writes of the shared total are
steps of their own where the code does not hold `mLock`. Velocities and times
are computed by the code and never used, and are left out.

**Lifecycle.** One action per callback Android makes on the main activity and on
the activities it covers itself with, per listener the user can reach, and per
step of the file task. `stack` is what covers the main activity, `results` the
results under way to `onActivityResult()`. The order of callbacks is Android's
and is in the guards; two parts of it matter: an activity that asks for Bluetooth
in `onStart()` is still resumed before it is paused, and saved view state and
results are delivered before `onResume()`. A `WorkerClass` is only created,
started and stopped here: after `stop()` its cancelled threads end, and may start
it again, as their error paths do. "Up" on the ten-key pad ends the main activity
as well and starts another one, because the manifest declares no launch mode for
it. An uncaught exception sets `crash`, after which
nothing happens. `KillProcess` is Android reclaiming a process in the background:
statics and objects go, the saved state and the activity stack stay.

**RingBuffer.** `RingBuffer_Insert` and `RingBuffer_Remove` are two steps each,
with the other side free to interrupt between the move of a pointer and the
locked update of `Count`. The abstract `BoundedQueue` has a sequence and the last
item taken. The refinement mapping `Contents` reads that sequence from the code's
own fields: the array from `Out` on, as many items as `Count` says, corrected by
the operation that is half done. `log`, `nin` and `nout` are history, for
`RingInv` and `Delivered`.

**USBtoSerial** extends RingBuffer: the serial side is its buffer with the
receive interrupt as inserter, the other buffer is used by the main loop alone
and is a sequence. A step of the main loop is one access to a register, because
an interrupt may come between any two: the tests, the read and the release of
`CDC_Device_ReceiveByte` are five steps. Serial bytes are numbered as they arrive
at the USART, whether or not the receive interrupt keeps them. A
`SetLineEncoding` that waits for its packet holds up the main loop. The build is the project's own
(`Config/LUFAConfig.h`: control requests are served by an interrupt). Taken from
the hardware's manual as the code uses it: a bank is the host's from
`Endpoint_ClearIN` until it was read; a bus reset disables the endpoints and its
handler leaves the control endpoint selected; what a test of that endpoint's
flags returns is left open, and a byte read from it is `Foreign`.

**USBDevice** is the device's half of the USB core: its interrupt handler, and
`USB_DeviceTask` with every standard request and the loops that wait inside
them. **USBHost** extends it with the host's half and the cable. `hpc` is the
case of `USB_Host_ProcessNextHostState` the main loop is in, so that an
interrupt can come between reading `USB_HostState` and storing the next one;
`ctl` is `USB_Host_SendControlRequest` and its stages. Time appears in one
form: `DeviceWaits` says that the device has done what it could, which a timeout
waits for unless the device is late (`past.late`), and that may happen up to
`MaxFaults` times. Assumed of the controllers: a SETUP packet is always accepted
and clears the endpoint, a bus reset clears address and endpoint before its
interrupt is served, the wake-up flag follows the bus, and, as
`Host_AVR8.h:206-207` says, the host's interrupts do not fire while it has the
bus suspended: a disconnection waits until the bus is resumed. A device without
VBUS may lose its power, or be exchanged for another one (`PowerLost`). Left out as
coincidences of microseconds: a VBUS change and a reset served by one interrupt,
a reset or SETUP packet just when a status stage ends, a pipe error inside
`HOST_STATE_WaitForDevice`. Pipe configuration always succeeds.

### The build of the firmware

The sketch stores a byte in a plain `char` and compares it with 255. Where
`char` is signed, which is avr-gcc's default for the Leonardo, this never holds
and no command is ever executed (see "Comments the models refute"). The
repository fixes no build. **What the firmware and the whole Dispatcher
composition do with commands is stated for a build where plain `char` is
unsigned**, the only one in which the protocol works at all. The types of both
(`FirmwareTypes`, `DispatcherTypes`) and `PromptCancel` are proved for either
build.

## Runs

Passing runs:

| Run | What it shows |
|---|---|
| `worker_safety` | State, thread fields, sockets and action bar agree in every interleaving, although the adapter may refuse a socket; only such a socket ends the process. |
| `worker_liveness` | `STATE_CONNECTING` ends and a cancelled ConnectedThread ends, although `accept()` may throw at any time. |
| `firmware` | Exactly the whole commands of a stream are executed, exactly the junk is reported. |
| `dispatcher` | For threads that do not overlap, encoder, link and firmware implement `CommandChannel`; after a loss at any byte every later command is executed and nothing else follows; without a loss a file without a character 255 is typed whole before success is reported; Cancel stops within one character. |
| `trackpad` | The relayed byte never wraps; totals are taken; `onStop()` returns. |
| `lifecycle` | A null service is dereferenced only after a request for Bluetooth or after the ten-key pad came first; results find their fields unless the process died in between; every service but the main activity's was told to stop, and the main activity's buttons reach its own; discovery ends before a connection; a file task ends, and Bluetooth that was granted leads to a running service. |
| `ring_buffer` | The ring buffer implements a bounded queue, and what was inserted comes out. |
| `usb_serial` | Whatever timeouts, suspends, resets and unpluggings do to the main loop, no byte is sent twice or out of order, and without a reset (or a new configuration) or an overrun no byte is missing but those that arrived while the device was suspended or not configured; the host's bytes go out on the line in order; while the host keeps the bridge open both directions drain, and a transfer is ended by a short packet unless the flush timed out. |
| `usb_host` | Host and device agree on address, configuration and state until a request times out, unless a disconnection waits for a suspended bus; no request waits for ever; a device that stays in the socket is enumerated, and its main loop comes back, as long as requests are read to the end. |

Runs that refute something a comment says (quoted in `PROJECT.json`, "findings"):

| Run | What happens |
|---|---|
| `worker_healthy` | Two attempts overlap and one succeeds; the late failure of the other calls `start()`, which closes the healthy connection. |
| `dispatcher_race` | Commands of two threads mix without any loss. |
| `file_truncated` | A file is typed only up to its first character whose low byte is 255, and success is reported. |

### Comments the models refute

These have no run of their own. Each row gives what to put into a copy of the
named configuration, in place of its properties, to see the counterexample.

| Comment | Configuration and property | What happens |
|---|---|---|
| `WorkerClass.java:203` "Stop all threads" | `WorkerClassHealthy.cfg`, `StopIsFinal` | After `stop()` a cancelled thread's error path starts the service again. |
| `MouseAndKeyboardActivity.java:311` "Stop the Bluetooth chat services" | `Lifecycle.cfg`, `OnlyMainListens` | The service of a destroyed activity is started again by its cancelled threads and goes on listening. |
| `SerialProtocol.ino:45` "Any time we receive START_BYTE, start over" | `SerialProtocol.cfg` with `CharSigned = TRUE`, `StartsOver` | START_BYTE is not recognised where `char` is signed. |
| `SerialProtocol.ino:17` "Expecting an x-coordinate -127 to 127" | `Dispatcher.cfg` with `Deltas <- UnitDeltas`, `IsChannel` | A delta of -1 is the byte 255 and cuts its own command. |
| `TrackPad.java:37` "Be sure to access them in a threadsafe manner." | `TrackPad.cfg`, `ResetOnlySent` | A movement between send and reset is lost. |
| `TrackPad.java:163` "There is a thread sending the mouse actions while this view is up and running." | `TrackPad.cfg`, `ThreadWhileUp` | After the activity was hidden once, no thread sends the mouse. |
| `DispatcherSingleton.java:112` "Therefore as long as the object has been initialized, it is null safe." | `Lifecycle.cfg`, `NullSafe` | The two cases of `NullServiceHasCause`. |
| `HostStandardReq.h:157` "Maximum size of the string descriptor which can be stored into the buffer." | `USBHost.cfg`, `ShortDescriptorArrives` | With a buffer larger than the descriptor the data loop (`HostStandardReq.c:93`) asks for a packet after the last one, and the request times out. |

More behaviours of the code that are in the models without a run of their own:

- After `accept()` threw, `STATE_LISTEN` is shown with a dead AcceptThread that
  `start()` keeps. `ListeningIsReal` is therefore checked with
  `AcceptMayFail = FALSE`; with `TRUE` TLC refutes it.
- A server socket that could not be created is dereferenced by `run()`
  (`NullDereference`).
- The end of a file is itself sent as the payload 255, which types nothing.
  `SentMeansTyped` is about files that have no such character of their own
  (`EndIsUnique`); `file_truncated` shows what happens to the others.
- Success is also reported when bytes were dropped: `SentMeansTyped` claims
  nothing once something was lost.
- A loss of a payload and of the next delimiter leaves the dongle waiting for a
  key, and it types the letter of the next command. `RecoversAfterLoss` states
  what holds afterwards.
- Lifecycle has six more ways to crash: a text restored before `onResume()`, the
  row that says no device was found, a folder that cannot be listed, a file
  task's dialog whose activity was rotated away, a result that outlives its
  process, no adapter at all. `CallbacksFindTheirFields` and `FileTaskEnds` say
  what they are confined to.
- A process that asked for Bluetooth while it had a service keeps the old one
  running and sends through it: `OthersStopped` and `SingletonServesMain` exempt it.
- The receive interrupt of the serial bridge overruns its ring buffer, and drops
  bytes while the device is suspended or not configured; a bus reset between
  selecting the endpoint and writing loses a byte, and between testing the
  endpoint and reading it makes a byte go out that the host never sent; a flush
  that times out after a full packet leaves the host's transfer open. The
  properties of USBtoSerial exempt exactly these (`past.overrun`, `past.missed`,
  `past.reset`, `past.late`).
- A `SetLineEncoding` whose packet a bus reset takes away waits inside its
  interrupt until the cable is pulled, and the main loop with it. `BridgeDrains`
  and `TransferEnds` assume that none is pending (`Serving`).
- A request that timed out may still be executed by the device, and a control
  read that the host gives up leaves the device in a loop that does not look
  for a new SETUP packet. `EnumeratedAgrees` holds up to the first timeout after
  a reset; `HostRecovers` and `DeviceReturns` assume `Orderly`.
- A control read that a new SETUP packet cuts short ends in
  `USB_Device_ProcessControlRequest` stalling and clearing that packet
  (`DeviceStandardReq.c:115-119`): the host's next request is refused unseen.
- A device pulled or exchanged while the bus is suspended is noticed only when
  the bus is resumed; `EnumeratedAgrees` claims nothing until then. A request
  resumes the bus and suspends it again at its end (`HostStandardReq.c:188`). If
  VBUS is switched off during such a request, the bus is suspended again before
  the device seems to go, and the host stays as it is, without VBUS, until
  somebody resumes the bus. `Orderly` exempts this; without its last conjunct
  `HostRecovers` is violated.
- A device that was only addressed when it was suspended wakes up "Configured",
  as the code has it; `EnumeratedAgrees` therefore allows either state as long
  as the host has set no configuration.

### Bounds

`Sockets` and `AcceptThreads` bound how many threads live at once, not how many
are ever made. Two sockets are what a replaced connection needs; three accept
threads let an old one overlap with two new ones. (The same invariants hold with
three sockets, in 5.5 million states.) The liveness run has two of each.
`MaxQueue` bounds waiting messages and `MaxAir` bytes under way; both make a step
wait. `MaxCommands` bounds a Dispatcher behaviour: a command cut by a loss, one
that meets its remains, and one after it. `Scenarios` are the sets of threads
that send: UI and mouse together, or the file task. `Overlap = FALSE` keeps to
the behaviours in which no two threads are in the middle of a command;
`dispatcher_race` shows what the others do. The firmware's bytes are the four
special ones, a letter and a byte above 127. `Totals` holds fractions of a pixel
and totals just above and below 127 pixels.

Lifecycle has two main activities (a rotation, a restart or a restored process),
two activities on top of the main one, five `WorkerClass` objects (names of
objects nothing refers to are reused) and a file of two reads, a character and
its end, so that it can be cancelled between them. `past.mains`
stops counting at two. RingBuffer and USBtoSerial have a buffer of two bytes, of
which three pass through: pointers wrap, the buffer fills, and it can be overrun
by one. A bank holds two bytes, so that there are full, short and empty packets;
`MaxEvents` allows one disturbance, wherever it hits the main loop. (The same
properties hold with two, in 6.4 million states.) USBHost has a
device with one configuration and numbers beyond it that are refused, and two
faults.

`TypeOK` of Lifecycle and of USBHost is in no configuration; added to
`Lifecycle.cfg` and `USBHost.cfg` it holds on the same instances, and that of
USBHost is proved (`HostTypeOK`).

Deadlock is not checked where the system may stop: in the Dispatcher runs the
user may stop, and in the WorkerClass runs every thread may end after
`onDestroy()`. In Lifecycle the process may crash, in RingBuffer all bytes pass,
and in USBHost a device of which nothing more is asked rests.

### Fairness

`WorkerClass`: threads are scheduled, and a blocking call returns once its socket
was closed or `connect()` timed out. Strong fairness makes up for the bounded
queue and pools only. Nothing is assumed of the user, the peers or the writers.
`TrackPad`: the sender is scheduled and gets `mLock` although the UI thread takes
it again and again, because each touch event holds it briefly; the finger owes
nothing. `Lifecycle`: Android makes the callbacks that are due and runs the
background task; the user owes nothing. `RingBuffer`: both sides finish what they
began and the remover looks again. `USBtoSerial`: the main loop goes round, the
flush timer expires again and again (strong fairness, since it may or may not
have expired at each look), and a host polls a configured device. `USBHost`:
interrupts are served, both main loops run; the cable, the voltage, the
application and the suspending of the bus owe nothing.

## Proofs

Every safety property that a passing run checks is proved, for every value of
the constants that the named assumptions allow. A theorem whose hypotheses are
narrower than those assumptions says so below.

**`WorkerClassProofs`**, for any number of sockets, threads and writers and
with both kinds of failure allowed: `TypeOK`, `StateMatchesThreads`, `SingleLink`
and `ConnectingHasThread`. `SingleLink` is not inductive alone: an accept thread
between `accept()` and `connected()` holds a socket in a local variable, so the
inductive invariant `IInv` adds that every such thread has one
(`AcceptedHasSocket`). `start()` and `connected()` are shared by many actions,
so each has one lemma that every caller cites. `CrashOnlyByRefusal` proves
`CrashNeedsRefusal`: it adds that a writer about to use its copy has one
(`WritersReady`), which follows from `StateMatchesThreads`. `NullSafe` is its
counterpart: if sockets can be created (`~CreateMayFail`) nothing crashes.
`StatusCurrent` speaks of an empty queue, so its invariant has to speak of a
full one: the Handler's queue always ends with the present state, and in
`STATE_CONNECTED` the peer's name comes right before it or was the last one
delivered (`QueueTellsState`). `ListenersLive` has the hypothesis
`~AcceptMayFail`, without which it is false; it adds that every AcceptThread a
field refers to runs (`ListenersRun`). Three action properties say how things
end: a socket closed under a thread stays closed (`CancelIsFinal`); a good
connection ends by `stop()`, `connect()`, another attempt that succeeds, or the
late failure of another thread (`LinkEndsFairly`), so that `worker_healthy` shows
the only way; and a service stopped when no attempt and no connection is left
stays in `STATE_NONE` (`EndedForGood`), so that what `StopIsFinal` meets needs
one. `LinkEndsFairly` needs that the error paths are taken only with a socket
that is gone (`ErrorPathsDead`).

**`SerialProtocolProofs`**, for every set of bytes: with unsigned `char`,
`DecodesFrames` and `ReportsJunk`. The invariant `FInv` says that
`currentState`, `mouseX` and `mouseY` summarise the bytes since the last
START_BYTE; the proof has one case per state. `FirmwareTypes` needs no
hypothesis on `char`.

**`LifecycleProofs`**, for any number of services, main activities and
characters and any depth of the stack: `NullServiceHasCause`, `OthersStopped` and
`SingletonServesMain`. None is inductive. That a null service has a cause needs
to know that a singleton without a service was made by an activity that had none
(`SingletonExcused`), that a main activity past `onStart()` without a service
asked for Bluetooth (`ChatExcused`), and that an answer still under way is
remembered (`AskedKnown`); `OthersStopped` needs that a service runs only if its
activity was resumed (`RunningIsMain`), since `onDestroy()` reaches `stop()`
only then; `SingletonServesMain` needs who can have made the singleton before
the first main activity (`FirstMain`). `LInv` is their conjunction; the proof of
`StepInv` has one case per action, and the actions that touch nothing of it
share `FrameInv`. A second invariant, `CInv` (`ChoiceInvariant`), is about what
the user chooses in another activity: only the system's dialog is ever put on
top of something (`ChosenFirst`), an activity without a service waits for the
answer of that dialog (`Answered`), a list is open, or its result under way, only
over an activity that has its fields (`ChoiceFinds`), and no list is opened while
a chosen device is still to be connected to (`OneChoice`). From it follow
`CallbacksFindTheirFields` and `DiscoveryEnds`. `TaskInBounds` and the two
invariants give `TypeOK` (`LifecycleTypes`). `TaskIsBounded` counts down the steps
that a file task has left (`StepsLeft`): its own steps lower the count or throw,
no other step changes it unless it ends the task.

**`RingBufferProofs`**, for any size and any bytes: `RingInv`, and that the
ring buffer implements `BoundedQueue` (`RingIsQueue`) under the mapping
`Contents`. Initial states are initial; the first half of an insertion appends
to `Contents` (`StoreEnqueues`), that of a removal takes its head
(`FetchDequeues`), and the updates of `Count` are stutters. The invariant
relates `Count` to the pointers while either side is half done.

**`TrackPadProofs`**, for any steps and totals of the finger: `TypeOK`
(`DeltaNeverWraps`), whose point is that the delta relayed fits a signed byte
even when the finger moves while the sender rounds the total; that `onStop()`
waits for the sender only without `mLock` and after clearing `mKeepRunning`, and
returns when the thread is dead (`StopIsSafe`); and the action property that no
step gives the view a thread again (`DeadForGood`). `StopIsBounded` and
`TakeIsBounded` count down the sender's steps, at most nine, to its end once
`onStop()` waits and to the reset of a total that is not zero.

**`DispatcherProofs`**, for any commands, files, delay of the link and losses:
the types; `CancelIsPrompt`, with overlapping threads too; `RecoversAfterLoss`
and `SentMeansTyped`; that the composition implements `CommandChannel`
(`ChannelKept`); and that an error is reported only after a loss
(`ErrorsAreLosses`). The last four have the hypothesis `PlainCommands`: unsigned
`char`, no two threads in the middle of a command, no byte 255 in a key's or a
movement's payload. All three parts are needed;
`dispatcher_race` and two rows above show what happens otherwise. The characters
of a file are not restricted. The invariant `Pipeline` says what the bytes in the
air will make the decoder do: there is a path of decoder states and counts of
executed commands (`Reaches`), one step per byte (`Follows`), that begins where
the decoder is (`Holding`, with `Executed` for what it has executed) and ends
where the thread that is writing needs it (`WriterAt`). Bytes from before a loss
lead through the state `"JUNK"`, about which nothing is known until the next
START_BYTE. Each write appends a step to the path, each `loop()` removes the
first, and a loss starts a new one. It follows that what was executed is a prefix
of what was issued (`OrderKept`). For the refinement every step is then one of
four (`StepShape`): a command that was asked for is issued, a command is
executed, bytes are lost for the first time, or neither history changes; the
first three map to `Give`, `Execute` and `Break`, the last to a stutter, as does
everything after a loss (`StepRefines`). That the event executed is the one that
waited longest is `OrderKept` in the next state. `SentIsTyped` has the further hypothesis
`FileAlone`, that the user does not type or point while a file is sent, and adds
how far the file task's loop has come (`Typing`).

**`USBtoSerialProofs`**, for any sizes and any number of disturbances: the types
(`BridgeTypes`), `HostInOrder` and `NothingLost` (`NoneTwice`, `NoneLost`), and
`LineInOrder` (`LineKeepsOrder`). The invariant `ToHostInv` relates the ring
buffer to the main loop: up to an overrun the buffer holds the bytes inserted
from `nout` on and the byte in the loop's hands is the first of them (`Stored`); up to a
reset the endpoint that was tested is the one that is written (`Selected`); what
the host has and the bank holds are bytes below the one to be sent next
(`Sent`). `RingInv` cannot be used here, because the receive interrupt inserts
without looking whether the buffer is full.

**`USBHostProofs`**, for any number of configurations and faults:
`EnumeratedAgrees` (`EnumerationAgrees`) and `TypeOK` (`HostTypeOK`).
`EnumeratedAgrees` is about the end of a sequence of requests, so the invariant
says what each state of the host's state machine knows about the device on the
way there (`Promises`: the device was reset, its address is being set, was
taken, both agree, its `USB_DeviceState` fits). This holds while the device has
stayed in the socket and no disconnection waits (`Session`) and no request has
timed out. It needs that the host notices a pulled cable (`Wiring`), and that
one whose disconnection `HOST_STATE_Powered_WaitForConnect` cleared is missed
before the second reset (`Unnoticed`); that the bus is active during a request
(`Driven`); that no interrupt has changed `USB_HostState` under the case being
executed (`InCase`); that a SETUP packet finds the endpoint empty (`SetupAlone`)
and where requests come from (`Requesting`). `HostTypeOK` holds
without these exemptions. Its substance is that the host never stores a
configuration that the device does not have, which needs that no status stage
answers such a request (`Unaccepted`).

The assumptions are those of the modules: `None` is no thread and no request,
`Null` no service; bytes are 0..255; sizes are positive; characters are natural
numbers and deltas lie within -127..127, which `DeltaNeverWraps` shows of the
sender; the bytes of USBtoSerial are numbered in the order they arrive; the
switches are Booleans.

What stays with TLC:

- Liveness, because the prover does not do fairness: `ConnectingEnds`,
  `CancelledThreadEnds`, `TotalIsTaken`, `StopReturns`, `FileTaskEnds`,
  `EnabledIsServed`, `Delivered`, `BridgeDrains`, `TransferEnds`, `HostReturns`,
  `HostRecovers` and `DeviceReturns`. For `StopReturns`, `TotalIsTaken` and
  `FileTaskEnds` the counters above are the part of the argument that is proved;
  what is left to TLC is that a thread which is scheduled uses them up.
- What the violation runs and "Comments the models refute" show to be false.

## Not modelled

- The rest of LUFA. It is a general library, vendored whole: about 150,000 lines
  of C, of which two thirds are some sixty demos, bootloaders and other projects
  (descriptors, and the same main loop around the core that is modelled here),
  and most of the remainder documentation, register access and ports to other
  chips. Nothing in Mighty Mouse links against it; the root `README.md` says
  that the prototype never made it out of the prototyping stages. What is
  modelled of it is the concurrent part that its other programs rest on. By
  lines, most of the repository is therefore not covered, and could not be
  without transcribing device drivers for hardware the system does not have.
- In the modelled parts of LUFA: pipes other than the control pipe, stall bits,
  remote wake-up, the ID pin, background-current errors, control requests of the
  application, string and RAM descriptors, the notification endpoint and the
  stream functions of the CDC driver.
- The manifest, layouts and texts, toasts and logging; `ensureDiscoverable()`,
  whose dialog returns nothing; the check mark of the auto-send menu item, which
  `onResume()` does not reset.
- `WorkerClass` is not shown to implement an abstract connection: the late
  exception that closes a healthy link violates the one that one would state.
  `Dispatcher` implements `CommandChannel` only without overlapping threads, and
  what the channel does after a loss is stated by `RecoversAfterLoss` instead. The
  shared key buffer (`DispatcherSingleton.java:157`) has no property of its own:
  it matters only where threads overlap.
