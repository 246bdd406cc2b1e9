# Verification of ETCDmxTool

TLA+ models of ETCDmxTool, a Qt program that captures DMX/RDM traffic, sends
DMX levels, runs scripts against the output and acts as an RDM controller. TLC
checks the models on small instances; TLAPS proves the theorems in the
`...Proofs` modules for every value of the constants.

Paths below are relative to the repository's root.

## The system

| Part | State it keeps | Operations | Talks to |
|---|---|---|---|
| `GadgetCaptureDevice` (`src/capturedevice.cpp`), on a worker thread | mode, open flag, timer, packet being built, packet list | `open`, `close`, posted `startReading/startSending/stopReading/stopSending`, `readData`, `sendData`, `setDmxLevels`, `setDmxEnabled` | the Gadget driver (calls); the window (queued `sniffing`, `transmitting`, `closed`, `packetsReady`; shared `m_packetList`, `m_txLevels`) |
| `WhipCaptureDevice`, `FTDComm` (`src/whip/ftdcomm.cpp`), on the GUI thread | FTDI handle, packet being built | `open`, `close`, `onTimer`, byte packing | the FTDI library |
| `MainWindow` (`src/mainwindow.cpp`) | page shown, capture buttons, levels of two scenes, packet table | mode buttons, capture actions, faders, crossfade, RDM pages, script buttons | everything |
| `RDMController` (`src/rdm/rdmcontroller.cpp`), GUI thread | discovery state, device list, labels, sensors, custom command | `startDiscovery`, `fetchSensorValues`, `executeCustomCommand` and the single-shot timers they start | the Gadget driver's response queue; signals to the window |
| `Scripting`, `ScriptSerial`, `ScriptDMX` (`src/scripting.cpp`), script thread and serial thread | engine, running flag, serial buffer | `run`, `abort`, `readText`, `writeText`, `setLevel`, `enable`, `disable` | queued calls from and to the window; the capture device |
| `PacketTable` (`src/packettable.cpp`), `FileSave`, `FileOpen` (`src/file.cpp`) | rows; files | append, clear, discard DMX, save, load | file threads use the table of the GUI thread |
| Dissectors (`src/dissectors`), pcap export (`src/pcap`) | none | bytes to text, bytes to blocks | called by table and window |
| Command line (`src/commandlineparse.cpp`) | table | sniff to a file | device, `FileSave` |
| Log, dialogs, widgets, tables of names | display only | | |

What is hard here is not the data but the threads and the queues between them:
the GUI only posts `open` and `close` to the worker and goes on, status comes
back later through a second queue, the RDM timers are never cancelled, and the
script thread shares levels, flags and a serial buffer with two other threads.
There are no automated tests in the repository. `PROJECT.json` lists every
hazard at its line with the properties that cover it.

What makes each part correct:

* capture: every packet reaches the window once, whole and in order; a device
  that was closed is silent; the buttons end up showing what the device does;
* DMX output: a universe on the wire is one that somebody set; disabled is off;
* RDM: every discovery ends, the tree names the devices commands go to, an
  answer is stored only as what it answers;
* scripts: Run and Abort never leave the window stuck, an abort stops the
  script, the serial port's bytes are each read once and its thread does not outlive
  the script;
* files, pcap, dissectors: what is written can be read back, lengths add up.

## Modules

| Module | Models | Checked by |
|---|---|---|
| `PacketHandoff` | what `ICaptureDevice` promises about packets: `put` grows one packet at a time, a fetch takes all | refined by `GadgetCapture` and `WhipCapture` |
| `GadgetCapture` | the Gadget device on its two threads and the window that drives it | `MCGadgetCapture.cfg`, `GadgetCaptureProofs` |
| `WhipCapture` | the Whip device, its FTDI framing and the same window, all on one thread | `MCWhipCapture.cfg`, `WhipCaptureProofs` |
| `DmxOutput` | writers and sender of the DMX levels, on Gadget and Whip | `MCDmxOutput.cfg`, `MCDmxOutputDisable.cfg`, `DmxOutputProofs` |
| `Crossfade` | the DMX page: scenes, faders, crossfader, timed fades | `MCCrossfade.cfg`, `CrossfadeProofs` |
| `RdmController` | discovery, sensor values, custom commands, device tree | `MCRdmController.cfg`, `MCRdmCommands.cfg`, `MCRdmLabels.cfg`, `RdmControllerProofs` |
| `Scripting` | Run/Abort buttons, script thread, serial port thread | `MCScripting.cfg`, `MCScriptingRunningCanBeAborted.cfg`, `MCScriptingTextsAreWritten.cfg`, `ScriptingProofs` |
| `CaptureFiles` | the packet table between the GUI and the threads that save and load it | `MCCaptureFiles.cfg`, `CaptureFilesProofs` |
| `SequenceInduction` | nothing of the program: induction over the naturals, and what flattening a sequence of sequences gives | used by `CaptureFilesProofs`, `WhipCaptureProofs` and `ScriptingProofs` |

An operator commented *Fault* is a plausible mistake in the definition that
follows it; it is used nowhere. With it in the definition's place the run named in
`PROJECT.json` fails, which shows that the property depends on that code.

How the modules meet: `Crossfade` ends where it gives levels to the device, and
`DmxOutput` begins there, with the script as a second writer. `GadgetCapture` and
`WhipCapture` end where the window has a packet, which `CaptureFiles` takes from
there (`Capture`). `Scripting` opens the device through `RunScript` of the capture
modules. `RdmController` uses the Gadget's driver beside the capture.

### GadgetCapture

`events` is the worker's queue of posted slots, `signals` the GUI's queue of
posted signals, `list` is `m_packetList` and `mutex` is `m_listMutex`. An action
is one turn of an event loop, cut where the mutex is taken or released:
`LockAndCopy`/`ClearAndUnlock` are `getPackets`, `BeginRead`/`ReadByte`/
`ReadBreak`/`EndRead` are `readData` with `addPacket` in `ReadBreak`. Each button
is one action with all its calls: `ModeButton` posts the two stop slots and, in
two modes, a start slot, as `modeButtonPressed` does. `rxTimer` is what
`m_rxTimer` points to; a timer whose pointer is overwritten moves to `orphans`
and keeps firing.

A received word is a serial number, so loss, repetition and reordering show.
The driver's receive queue is external. `setDmxLevels` and `sendData` are in
`DmxOutput`. `ControllerMode` is never set by the program and is left out.

### WhipCapture

`open`, `close` and `onTimer` run on the GUI thread, so `pc` says which handler
that thread is in and where: a button ends in `InOpen` if it opens the device,
and a timer event goes through `BeginRead` (`ReceiveData`), one `Unpack...` per
coded byte, one `Split...` per word and `EndRead...`, which is the direct call of
`readData`. Status signals are queued, as on the Gadget. `handle` is
`FTDComm::DeviceOpen` and `deviceOpen` is `m_deviceOpen`; they part when
`FT_Close` fails, or when `SetupDevice` fails in `open`. `timer` never goes off
again once `m_rxTimer` has been made. The driver's queue is external: it gets a
break, or the two nibbles of a data byte one after the other, at any moment the
handle is open, and a read may cut it anywhere. Failures of `FT_GetStatus` and
`FT_Read` read nothing and are left out.

### DmxOutput

`setDmxLevels` takes the mutex and copies slot by slot (`BeginSet`, `CopySlot`).
The send tests `m_enabled` and then reads slot by slot (`BeginSend`,
`ReadSlot`), with the mutex on the Whip and without on the Gadget. `output` is
whether the Gadget drives the port: it repeats the last frame from
`Gadget2_SendDMX` until `Gadget2_DisableDMX`.

### Crossfade

One action per slot of the window, each with the `updateTxLevels` and the
`valueChanged` it sets off. Fades are timers that all call `fadeTick` and share
`m_fadeTimer`, `m_fadeLength`, `m_fadeCounter` and `fadeAtoB`: a timer whose
pointer was overwritten moves to `orphans`. Time is `elapsed`, in steps of the
fade's length; beyond the end it makes no difference, since the slider clips.
`crashed` is the use of the deleted timer. `m_txLevels` starts with anything, as
in the code.

### RdmController

One action per state of `advanceDiscoveryStateMachine`, per timer handler and
per user call; the states that first read and then clear the response queue are
two steps, since the driver may add a response in between. `discTimers`,
`sensorTimers` and `customTimers` count pending single shots, which fire in any
order. A payload is abstracted to its parameter; a device with several
personalities or sensors is asked once. `ClearLoop` is what
`for(i = 0; i < GetNumResponses(); i++) ClearResponse(i)` leaves behind when
`ClearResponse` removes the entry, as `gadget/stub/GadgetDLL.cpp:291` says: every
other response. The driver's queues hold `MaxQueue` entries and lose what does
not fit, and it may lose or refuse `MaxFaults` commands; it need not answer.

### Scripting

`phase` follows `Scripting::run` on the script thread; `PressAbort` and
`Interrupt` are the two halves of `abort()`, the test of `m_running` and the
setting of the flag. `serial`, `port` and `events` are the port's thread, its
port and its event queue; a text queued before `openPort` finds the port closed,
one still queued at `exit()` is never delivered. `ScriptFile` is left out: no code
sets its file name.

`BeginReadText` is `readText` up to the clear, with what `QString(m_buffer)` does to
the bytes: the conversion of Qt 5 takes UTF-8, stops at the first zero byte and
replaces what is no whole character. A byte is a character of its own, a carriage
return, zero, or the first or second byte of a character of two, so that a buffer
read between the two gives two replacements; longer characters and a byte order mark
add no other case. `taken` is what readings took out of the buffer, `returned` what
the script was handed.

### CaptureFiles

A `job` is one Save or Open with the thread made for it. Each access to the
table is a step: `CheckRow` is the loop's `rowCount()`, `ReadRow` its
`getPacket(i)`, which fails if the table got shorter in between
(`ReadRowGone`). Opening to write truncates the file at once, in the GUI thread.
The text stream keeps the rows of a save in its buffer (`lines`) and writes them when
it is full, some 16 KB, and at the end (`Flush`). The buffer is full after a whole row,
so a piece ends where a row does; the model writes a piece after any row. A piece goes to
the save's own position in the file (`at`), which another save's truncation does not
move: what is missing before it becomes a `Hole` of zero bytes (`Written`), and a load
reads them as part of the next row's timestamp (`AsRead`). Positions are counted in
rows, since a row is the same text in every save. A load takes the rows of the file in
one step, when it starts; reading in pieces differs only while a save writes the same
file, and no property is about such a load. A packet is its time and the
messages run together in it, which is what `preprocessPacket` tells apart.
`jobs[j].shrunk` remembers whether the table became shorter since the job was
started, `jobs[j].clear` whether nothing that could harm it happened: for a save, no
row was taken out since it or a save that still ran at its start was started, and no
later save truncated the file; for a load, it ran alone. `discardDmxData` takes the rows out one by one
(`DiscardDmx`, `DiscardRow`, `EndDiscard`): meanwhile the window does nothing else
(`discarding`, `GuiFree`), but the file threads go on and see the table between two
removals. `lines` is for a load what it has read of the file, and `skips`
whether its format passes over lines without data. Started and Finished are one
queue to the window.

## What the runs show

| Run | Bounds | Shows |
|---|---|---|
| `gadget_capture` | 3 presses, 3 words, sniffer-capable device | packets cross between the threads whole, once and in order (`BytesInOrder`, `CopyIsCurrent`, `ImplementsHandoff`), never without a wake-up (`NoLostWakeup`, `PacketsReachWindow`); device and buttons agree in the end (`ClosedIsQuiet`, `ButtonsFollowDevice`, `StartActsAsShown`, `CloseTakesEffect`) |
| `whip_capture` | 3 presses, 3 data bytes, 2 breaks, reads of 4 coded bytes, 1 failing driver call | a byte arrives whole or not at all, however reads cut it (`WholeBytesArrive`), packets as on the Gadget (`ImplementsHandoff`); the handle is the device's except after a failure (`HandleFollowsDevice`), the buttons show the device (`ButtonsFollowDevice`) |
| `dmx_output` | 2 slots, levels 0..1, 3 calls | levels are one writer's (`LevelsFromOneWriter`), the Whip's frames are whole and the Gadget's slots are (`FramesWerePublished`), a disable lets at most one more frame out (`AtMostOneLateFrame`), levels reach the wire (`LevelsReachWire`) |
| `dmx_disable` | the same | **violated**: `DisableStopsOutput` |
| `crossfade` | 3 slots, 1 fader, levels 0..2, 2 fades | the device has the mix of the scenes, within two roundings and without overflow (`LevelsAreTheMix`), the page shows its slots (`PageShowsSlots`), only overlapping fades use a deleted timer (`OnlyOverlappingFadesCrash`), the others end (`FadesEnd`) |
| `rdm_discovery` | 2 devices, 2 calls, 1 fault, queues of 2 | each discovery is reported once (`EveryStartFinishesOnce`), rows and devices match (`RowsNameTheirDevice`) |
| `rdm_commands` | 1 device, 3 calls, queues of 2 | one custom command at a time, each with its timer (`CustomCommandHasTimer`), and discoveries end whatever they meet (`DiscoveryFinishes`) |
| `rdm_labels` | 2 devices, 1 call | **violated**: `AnsweredDevicesAreLabelled` |
| `scripting` | 3 runs, 2 texts, 2 bytes per run | Run always comes back (`RunComesBack`), aborts work (`AbortStopsScript`), each byte received is read once, in order, and plain text reaches the script unchanged (`EachByteReadOnce`), the port's thread ends with its script (`PortThreadEndsWithScript`) |
| `script_abort` | 2 runs | **violated**: `RunningCanBeAborted` |
| `script_texts` | 2 runs, 1 text | **violated**: `TextsAreWritten` |
| `capture_files` | 1 captured packet, a file of at most 1 row and a hole, 2 jobs | a save over a table that only grew writes the rows there were, in any pieces and although an older save still writes (`SavedFileHoldsRows`), an undisturbed load gives back the messages of the file (`ReloadGivesMessages`), a save reads past the end only if the table shrank since that save was started (`CrashNeedsShrunkTable`), the wait cursor goes away (`CursorComesBack`) |

Each run of a model whose types are not trivial also checks its `TypeOK`.

The bounds are small but let every interesting case happen. Three presses give
open-close-open, two opens in a row, and a mode change during a capture; three
words give a packet, a break and a next packet while the GUI is fetching. Two
slots are enough for a torn frame, three calls for two writers and a disable.
Two devices are enough for the skipped answer and for a tree in another order
than the list, two calls for overlapping discoveries, three for two custom
commands after a discovery. Three runs let a third be queued behind an aborted
and a waiting one. On the Whip, three bytes are six coded bytes and two breaks,
twice what one read takes: a byte split by a read, one on either side of it, a
break with nothing buffered; one failure is a failed open, setup or close followed
by two more presses. In `Crossfade` three pages of one fader have a page in the
middle, levels 0..2 have a value that rounds, and two fades overlap. In
`CaptureFiles` one captured packet with three messages becomes two rows, a load
adds one or two more, and two jobs are every pair of saves and loads. Two rows are
enough for two saves to write in pieces around each other, and for the second to
truncate what the first has written; more rows change only the number of loop turns.
In `Scripting` two bytes in a run are a byte before and after a reading, a zero before
the carriage return and half a character beside it; the proof covers every number.

Deadlock is checked for `DmxOutput`. In the other models the user may stop
pressing buttons and the bounded inputs run out, so the system may come to rest.

### Fairness

Only the program's own threads and timers are assumed to go on. The GUI and the
worker deliver what is posted to them and a started timer fires
(`GadgetCapture`); a writer finishes its copy and the send timer fires
(`DmxOutput`); time passes and a zero-interval timer fires again (`Crossfade`);
single shots fire (`RdmController`); the script thread runs queued calls, the
engine stops an interrupted script, and a thread that was told to exit does
(`Scripting`); each file thread runs on, a discard ends and the window delivers its
signals (`CaptureFiles`). No user action, no received byte, no answer of a device and no
end of a script that was not interrupted is assumed. The strong fairness on
ending an interrupted script covers that it may be inside `readText` again and
again; the engine looks at the flag between any two calls. The one on delivering signals in
`CaptureFiles` covers that the user may start one discard after another: a posted
signal is delivered when the window comes back to its event loop, however often it is
kept from it. `WhipCapture` has safety properties only and needs none.

### Findings

1. `dmx.disable()` can be undone by a send already past its check
   (`src/capturedevice.cpp:265`): the output stays on.
2. `GET_PERSONALITY_DESC` skips every other label answer
   (`src/rdm/rdmcontroller.cpp:138`).
3. An abort before the script thread sets `m_running` is dropped, and the script
   then runs with Abort disabled (`src/scripting.cpp:246`).
4. Texts written just before a script ends never reach the serial port
   (`src/scripting.cpp:49`).

### Seen while modelling

The models contain these too, and the properties name them as exceptions; nothing
in the repository says otherwise of them, so they are not findings.

* Starting a second fade before the first tick has moved the crossfader, or after
  dragging it to an end, leaves two timers; the first to finish deletes the timer
  the second will use (`src/mainwindow.cpp:1089`, `overlapped` in
  `OnlyOverlappingFadesCrash`).
* The Next button refuses the page that would end at slot 512
  (`src/mainwindow.cpp:1409`, `NextPage`).
* A page change shows `m_txLevels` before anything has set it
  (`src/mainwindow.cpp:1425`, `sent` in `PageShowsSlots`).
* A break with nothing buffered becomes a zero byte of the next Whip packet
  (`src/capturedevice.cpp:125`, the zeros left out in `WholeBytesArrive`).
* A Whip open that fails in `SetupDevice`, or a failed `FT_Close`, leaves a handle
  that every later open refuses (`failures > 0` in `HandleFollowsDevice`).
* A Save while a load of the same file runs truncates what is being read; emptying
  or discarding during a save can make it read past the table (`shrunk` in
  `CrashNeedsShrunkTable`).
* A second Save truncates a file the first has written part of
  (`src/file.cpp:225`, `src/file.cpp:254`): the first goes on at its position and, when
  it ends, its file has a hole where its first rows were. The second save fills it, so
  `SavedFileHoldsRows` exempts the first (`clear`) and not the second; if the program
  ends, or rows are discarded, before that, the rows in the hole are lost.
* `doc/SCRIPTING.md:48` says that `readText` "Reads the serial port buffer and returns
  the content as text". The code returns nothing until a carriage return has come
  (`src/scripting.cpp:72`), and then the content up to its first zero byte, with
  bytes that are not whole UTF-8 characters replaced; the rest is cleared with the
  buffer (`src/scripting.cpp:74`, the bytes that are not `Plain` in
  `EachByteReadOnce`). Texts are written as Latin-1, so a script does not even read
  back what it writes.
* A left-over answer with the same parameter is reported as the answer of the next
  custom command (`src/rdm/rdmcontroller.cpp:502`, `ReadCustomCommand`).

Seen in code that no model covers, and so checked by no run:

* `m_captureFileModified` is never set, and the window's mark is cleared when a save
  finishes whatever was captured since (`src/mainwindow.cpp:902`).
* Sniffing from the command line builds a streaming `FileSave`, and nothing calls
  its `doSave` (`src/commandlineparse.cpp:109`).
* The pcap export writes the packet's whole length as the captured length and cuts
  the data at the snap length (`src/pcap/pcapng.cpp:344`), where `src/pcap/pcapng.h:158`
  says the captured length is the smaller of the two. Its tests for `if_fcslen` and
  `if_tsoffset` are inverted, so that a zero, the default, is what writes them
  (`src/pcap/pcapng.cpp:256`).

## What is proved

All from the constants' assumptions alone, for every value of the constants.
Every safety property a passing run checks is a theorem, the invariants and the
action properties. Every module has `TypeCorrect`, `Spec => []TypeOK`, with one step
per action. In five of them `TypeOK` is not inductive. In four `TypeInv` adds what is
missing: a running fade has a length to divide by (`Crossfade`), a copy under way
is inside the array (`DmxOutput`), there is a queued run only for a press
(`Scripting`), a queue is being cleared only in a state that has that loop
(`RdmController`). In `CaptureFiles` it is the wait cursor, which must not go below
zero; see there.

`SequenceInduction` says nothing of the program; other proofs rest on it:

* `Induction`: a set that holds 0 and every successor of a member holds every natural
  number. The library's induction theorems take an operator as a parameter, which the
  provers cannot instantiate; for a set the pigeonhole principle gives the same. Were
  `m` missing, taking 1 away would map the missing numbers up to `m` one to one into
  themselves without `m`.
* `FlattenAppend`, with `FlattenType`: `FlattenSeq` of the community modules, a
  recursive function, yields a sequence over the same set and grows at its end.

`GadgetCaptureProofs`

* `CopyCorrect`: `Spec => []CopyIsCurrent`. The invariant says who holds the
  mutex in each state of the GUI and that the list has not changed since it was
  copied. It is inductive: only `LockAndCopy` takes the mutex, only
  `ClearAndUnlock` gives it back, and `ReadBreak` needs it.
* `HandoffImplemented`: `Spec => ImplementsHandoff`, by the refinement
  `put <- taken \o list, got <- taken`. `CopyIsCurrent` is what makes the clear in
  `getPackets` a `GetAll`: without it the cleared packets need not be the copied
  ones.
* `WakeupCorrect`: `Spec => []NoLostWakeup`, from `TypeOK` and two lemmas on queues:
  a pending signal survives an append and survives the removal of another.
* `QuietCorrect`: `Spec => []ClosedIsQuiet`. `QuietInv` describes the whole queue of
  posted slots: the two stop slots stay neighbours (`StopsPaired`), the device is
  quiet between them, and while open was never called twice in a row a start slot
  comes after a stop or finds no timer.
* `ButtonsCorrect`: `Spec => []ButtonsFollowDevice`. It needs `StopsPaired`: the last
  slot of the queue is never `stopReading`, the one slot that changes the device
  without a signal. Two lemmas follow the last status through the signal queue.
* `StartCorrect`: `StartActsAsShown`, an action property. `ButtonsCorrect` gives that
  with nothing on its way the mark shows the device's status; `SendingIsLast` adds that
  in transmit mode reading never has the last word, so a device that reads is in sniff
  mode, which is what the handler looks at.
* `BytesCorrect`: `Spec => []BytesInOrder`. All that is on its way is one sequence of
  word sequences, `Stream`, from what was fetched to the driver's queue. A step of
  `readData` moves a word from one to the one before (`ByteMoveKept`) or ends a packet
  (`PacketMoveKept`); `OrderKept` says that a rearrangement that keeps every word
  and the order keeps the property. `CopyIsCurrent` is needed for the clear in
  `getPackets`.

`WhipCaptureProofs`

* `HandleCorrect`: `HandleFollowsDevice` is inductive as it stands.
* `ButtonsCorrect`: `ButtonsInv` adds, for the states before the window is idle, that
  `open` is reached only with the device closed and that the last signal on its
  way is the device's status.
* `HandoffImplemented`: the Whip refines `PacketHandoff` by the same mapping, with no
  mutex to rely on, since one thread does both sides.
* `TypeCorrect` includes that two nibbles make a byte (`NibblesMakeByte`) and that a
  word is cut to one (`ByteOfWord`).
* `BytesCorrect`: `Spec => []WholeBytesArrive`, in two invariants. `CodedInv` is about
  the coded bytes on their way, the rest of the read and then the driver's queue: the
  high nibbles rise, a low nibble follows its high one or has not been sent, and a high
  nibble just unpacked belongs to the low one that is next. A reading cut between the
  two satisfies it, since the rest then begins with the low nibble. `BytesInv` adds up
  the data bytes during a read: those in packets and in words (`Done`) and those the
  rest of the read will complete (`Pending`) are those kept, and all that are done come
  before all that are on their way (`Highs`). `FlattenAppend` shows that ending a packet
  moves no byte.

`CaptureFilesProofs`

* `TypeCorrect`: the cursor is never restored more often than it was set. `Foresees`
  follows the cursor through the signals on their way: `wait[i]` is what it is once the
  first `i` are delivered, always a natural number, and in the end one for each job that
  has emitted Started and not yet Finished.
* `CrashCorrect`: `Spec => []CrashNeedsShrunkTable`, with `GrowthInv`: a save since whose
  start the table has not become shorter `Follows` it, that is, the rows it has in its
  buffer are the table's after its position, and it has one more to read if it found
  one. Captures, loads and other saves only add rows, so such a save never reads past
  the end, whatever else runs.
* `SavedCorrect`: `SavedFileHoldsRows`, with `SavesFollow` on top of it: while a save is
  still clear, no save that runs is `shrunk`, and the file has the table's first
  rows up to the clear save's position and no more rows than the table. Behind that
  position there may be holes. A piece another save writes is the table's rows at
  their own places (`FlushFollows`), so it keeps this; a piece of the save itself
  moves its position on (`FlushFollowsOwn`); and when it ends its position is the end of
  the table, which leaves no room for a hole. Each row taken
  out ends what is clear (`Shrink`), one by one for a discard.
* `ReloadCorrect`: `ReloadGivesMessages`. A clear load runs alone (`Alone`) and, if the file has no
  hole, for some
  `k`, has still the rows after the `k`-th to load while the table holds the messages of
  the first `k` (`Loaded`). That splitting a row, and passing over one without data,
  keep the messages rests on `FlattenAppend`.

`ScriptingProofs`

* `EachByteReadOnceCorrect`: inductive together with the fact that the script reads only
  while it is evaluated, so that the buffer is not emptied for a new script in
  the middle of a reading. That every buffer has a part before its first zero
  (`ZeroExists`), whose text is typed and all of a plain buffer (`QStringType`), rests
  on `Induction`; that a plain stream has plain parts is `PlainParts`.
* `PortThreadCorrect`: `PortThreadEndsWithScript` is inductive as it stands, since only
  `Join` ends the wait.

Only model-checked: the eight liveness properties (`CloseTakesEffect`,
`PacketsReachWindow`, `LevelsReachWire`, `FadesEnd`, `DiscoveryFinishes`,
`AbortStopsScript`, `RunComesBack`, `CursorComesBack`), since fairness means `ENABLED`,
which the provers do not reason about. The four properties that the findings violate are
false and are shown so by TLC.

Two properties of bytes are stated with quantifiers over positions and not with
`SelectSeq`, which the provers take as an unknown operator: that the data bytes
received are a certain set and rise says the same as that the sequence without zeros is
that set in order.

## Plan

Done: both capture devices, DMX output and its page, RDM controller, scripts, and
the packet table with its file threads, and a proof of every safety property. What
could still be added, in this order:

1. One instance that composes `Crossfade` with `DmxOutput`. The device's side of it
   is there already: a writer of `DmxOutput` sets any array.
2. Pure operators against reference definitions: the blocks of the pcap export, RDM
   checksum and discovery response, and the composing of raw commands.

## Not modelled, and why

The dissectors' text, name tables, widgets, dialogs and the log are display only.
The device list is built once at start. The firmware update is one driver call.
The files `src/whip/comm.cpp` and `src/whip/ft_comm.cpp` are not compiled. The
`RdmDiscoveryResponseDissector` is not in the plugin's project file. Pcap export and
the composing of raw RDM commands turn rows or widgets into bytes in one call, with
no state of their own. Command-line sniffing is start-up code around the hand-off
that the capture modules have. `ScriptFile` and the streaming half of `FileSave` are
never run. The driver libraries are external: most of the C sources of the
repository are vendored copies of the FTDI and libusb code
(`src/whip/linux/...`), which the application uses through the calls that
`WhipCapture` and `DmxOutput` take as external.
