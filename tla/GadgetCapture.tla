---------------------------- MODULE GadgetCapture ----------------------------
(***************************************************************************)
(* A Gadget2 capture device and the main window that drives it.            *)
(*                                                                         *)
(* GadgetCaptureDevice lives on a worker thread of its own.  The GUI       *)
(* thread calls open and close, which only post startReading,              *)
(* startSending, stopReading and stopSending to the worker's event queue   *)
(* (events); the worker emits sniffing, transmitting, closed and           *)
(* packetsReady, which are posted back to the GUI thread (signals).        *)
(* Received packets cross from the worker to the GUI in m_packetList       *)
(* (list), under m_listMutex (mutex).                                      *)
(*                                                                         *)
(* Each action is one turn of a thread's event loop, cut where the code    *)
(* takes or releases the mutex.  Received words are serial numbers, so     *)
(* that order and loss show; Break stands for the 0x8000 word.             *)
(***************************************************************************)
EXTENDS Naturals, Sequences, SequencesExt

CONSTANTS
  SnifferCapable,  \* does deviceCapabilities hold CAPABILITY_SNIFFER
  MaxPresses,      \* bound on the buttons the user presses
  MaxWords         \* bound on the words the driver receives

ASSUME ConstantsAssumption ==
  /\ SnifferCapable \in BOOLEAN
  /\ MaxPresses \in Nat
  /\ MaxWords \in Nat

VARIABLES
  \* MainWindow, on the GUI thread
  opMode,        \* MainWindow::m_mode
  buttons,       \* the capture actions: startChecked, startEnabled, stopEnabled
  table,         \* rows of m_packetTable
  guiPc,         \* "idle", "locked" in getPackets, "showing" in readData's loop
  result,        \* getPackets' local copy of the list
  signals,       \* signals posted to the GUI thread and not yet delivered
  \* GadgetCaptureDevice, shared and on the worker thread
  mode,          \* m_mode
  deviceOpen,    \* m_deviceOpen
  events,        \* slots posted to the worker thread and not yet run
  rxTimer,       \* the kind of timer m_rxTimer points to
  orphans,       \* running timers no pointer refers to any more, by kind
  chunk,         \* words of readData's buffer still to process
  reading,       \* is the worker inside readData
  packetBuffer,  \* m_packetBuffer
  list,          \* m_packetList
  mutex,         \* holder of m_listMutex
  \* the Gadget driver
  receiving,     \* raw receive mode
  raw,           \* its raw receive queue
  \* history
  presses,       \* buttons pressed
  words,         \* words received
  bytes,         \* words received that are not breaks
  taken,         \* packets getPackets has returned
  requested,     \* the last of open and close the GUI called
  overlapped,    \* has open been called twice with no close between
  ignored        \* has readData left packets in the list since it was last empty

guiVars    == <<opMode, buttons, table, guiPc, result>>
deviceVars == <<deviceOpen, rxTimer, orphans>>
readVars   == <<chunk, reading, packetBuffer>>
driverVars == <<receiving, raw, words, bytes>>
askVars    == <<presses, requested, overlapped>>
vars == <<guiVars, signals, mode, deviceVars, events, readVars, list, mutex,
          driverVars, askVars, taken, ignored>>

-----------------------------------------------------------------------------
OpModes == {"SNIFFER", "DMXCONTROL", "RDMCONTROL", "DMXVIEW", "SCRIPT"}
Slots   == {"startReading", "startSending", "stopReading", "stopSending"}
Status  == {"sniffing", "transmitting", "closed"}
Signals == Status \cup {"packetsReady"}
Kinds   == {"read", "send"}
Timers  == Kinds \cup {"none"}

Buttons == [startChecked : BOOLEAN, startEnabled : BOOLEAN, stopEnabled : BOOLEAN]

Break == 0

Word   == Nat
Packet == Seq(Word \ {Break})

Init ==
  /\ opMode = "SNIFFER"
  /\ buttons = [startChecked |-> FALSE, startEnabled |-> SnifferCapable,
                stopEnabled |-> FALSE]
  /\ table = <<>>
  /\ guiPc = "idle"
  /\ result = <<>>
  /\ signals = <<>>
  /\ mode = "Sniff"
  /\ deviceOpen = FALSE
  /\ events = <<>>
  /\ rxTimer = "none"
  /\ orphans = [k \in Kinds |-> 0]
  /\ chunk = <<>>
  /\ reading = FALSE
  /\ packetBuffer = <<>>
  /\ list = <<>>
  /\ mutex = "free"
  /\ receiving = FALSE
  /\ raw = <<>>
  /\ presses = 0
  /\ words = 0
  /\ bytes = 0
  /\ taken = <<>>
  /\ requested = "close"
  /\ overlapped = FALSE
  /\ ignored = FALSE

-----------------------------------------------------------------------------
(* GUI thread: the user's buttons.                                         *)

\* The slot that open posts in device mode m.
StartSlot(m) == IF m = "Sniff" THEN "startReading" ELSE "startSending"

\* Fault: only the sending side is stopped.
StopSlotsNoRead == <<"stopSending">>

StopSlots == <<"stopReading", "stopSending">>

\* open() in device mode m: the start slot is posted to the worker.
Open(m) ==
  /\ events' = Append(events, StartSlot(m))
  /\ requested' = "open"
  /\ overlapped' = (overlapped \/ requested = "open")

\* close(): both stop slots are posted, whatever is running.
Close ==
  /\ events' = events \o StopSlots
  /\ requested' = "close"
  /\ UNCHANGED overlapped

\* close() and then open() in device mode m, in one handler.
Reopen(m) ==
  /\ events' = events \o StopSlots \o <<StartSlot(m)>>
  /\ requested' = "open"
  /\ UNCHANGED overlapped

\* The user acts only when the GUI thread is in its event loop.
Press ==
  /\ guiPc = "idle"
  /\ presses < MaxPresses
  /\ presses' = presses + 1
  /\ UNCHANGED <<guiPc, result, signals, deviceVars, readVars, list, mutex,
                 driverVars, taken, ignored>>

\* modeButtonPressed: capture is stopped first; two of the modes open the
\* device again.  A click on the mode already shown runs the handler too.
ModeButton(m) ==
  /\ Press
  /\ opMode' = m
  /\ CASE m = "DMXCONTROL" -> mode' = "Transmit" /\ Reopen("Transmit")
       [] m = "DMXVIEW"    -> mode' = "Sniff" /\ Reopen("Sniff")
       [] m = "SNIFFER"    -> mode' = "Sniff" /\ Close
       [] OTHER            -> UNCHANGED mode /\ Close
  /\ UNCHANGED <<buttons, table>>

\* Start Capture, a checkable action: a stop if the device is seen open and
\* in sniff mode, else startCapture, which opens and empties the table.
StartCapture ==
  /\ Press
  /\ buttons.startEnabled
  /\ buttons' = [buttons EXCEPT !.startChecked = ~@]
  /\ IF deviceOpen /\ mode = "Sniff"
     THEN Close /\ UNCHANGED table
     ELSE Open(mode) /\ table' = <<>>
  /\ UNCHANGED <<opMode, mode>>

StopCapture ==
  /\ Press
  /\ buttons.stopEnabled
  /\ Close
  /\ UNCHANGED <<opMode, buttons, table, mode>>

RestartCapture ==
  /\ Press
  /\ buttons.stopEnabled
  /\ Reopen(mode)
  /\ table' = <<>>
  /\ UNCHANGED <<opMode, buttons, mode>>

\* Run Script opens the device to transmit and never closes it.
RunScript ==
  /\ Press
  /\ opMode = "SCRIPT"
  /\ mode' = "Transmit"
  /\ Open("Transmit")
  /\ UNCHANGED <<opMode, buttons, table>>

-----------------------------------------------------------------------------
(* GUI thread: the signals the worker posted.                              *)

Deliver(s) ==
  /\ guiPc = "idle"
  /\ signals # <<>>
  /\ Head(signals) = s
  /\ signals' = Tail(signals)
  /\ UNCHANGED <<opMode, mode, deviceVars, events, readVars, driverVars, askVars>>

\* The lambdas connected to sniffing, closed and transmitting.
ButtonsAfter(s) ==
  [startChecked |-> s = "sniffing",
   startEnabled |-> s = "sniffing" \/ (s = "closed" /\ SnifferCapable),
   stopEnabled  |-> s = "sniffing"]

DeliverStatus ==
  /\ \E s \in Status : Deliver(s) /\ buttons' = ButtonsAfter(s)
  /\ UNCHANGED <<table, guiPc, result, list, mutex, taken, ignored>>

\* MainWindow::readData in a mode that does not look at packets.
IgnorePackets ==
  /\ Deliver("packetsReady")
  /\ opMode \notin {"SNIFFER", "DMXVIEW"}
  /\ ignored' = (ignored \/ list # <<>>)
  /\ UNCHANGED <<buttons, table, guiPc, result, list, mutex, taken>>

\* getPackets: lock and copy the list.
LockAndCopy ==
  /\ Deliver("packetsReady")
  /\ opMode \in {"SNIFFER", "DMXVIEW"}
  /\ mutex = "free"
  /\ mutex' = "gui"
  /\ guiPc' = "locked"
  /\ result' = list
  /\ UNCHANGED <<buttons, table, list, taken, ignored>>

\* getPackets clears the list and unlocks.  DMX view only looks at the last
\* packet; the sniffer's table takes them one by one.
ClearAndUnlock ==
  /\ guiPc = "locked"
  /\ list' = <<>>
  /\ mutex' = "free"
  /\ taken' = taken \o result
  /\ ignored' = FALSE
  /\ IF opMode = "SNIFFER" /\ result # <<>>
     THEN guiPc' = "showing" /\ UNCHANGED result
     ELSE guiPc' = "idle" /\ result' = <<>>
  /\ UNCHANGED <<opMode, buttons, table, signals, mode, deviceVars, events,
                 readVars, driverVars, askVars>>

\* readData's loop: a packet that holds data becomes a row.
ShowPacket ==
  /\ guiPc = "showing"
  /\ result # <<>>
  /\ table' = IF Head(result) = <<>> THEN table ELSE Append(table, Head(result))
  /\ result' = Tail(result)
  /\ guiPc' = IF Len(result) = 1 THEN "idle" ELSE "showing"
  /\ UNCHANGED <<opMode, buttons, signals, mode, deviceVars, events, readVars,
                 list, mutex, driverVars, askVars, taken, ignored>>

-----------------------------------------------------------------------------
(* Worker thread: the posted slots.                                        *)

RunSlot(s) ==
  /\ ~reading
  /\ events # <<>>
  /\ Head(events) = s
  /\ events' = Tail(events)
  /\ UNCHANGED <<guiVars, mode, readVars, list, mutex, raw, words, bytes,
                 askVars, taken, ignored>>

\* m_rxTimer = new QTimer: a timer already there keeps running unreachable.
NewTimer(kind) ==
  /\ rxTimer' = kind
  /\ orphans' = IF rxTimer = "none" THEN orphans
                ELSE [orphans EXCEPT ![rxTimer] = @ + 1]

StartReading ==
  /\ RunSlot("startReading")
  /\ receiving' = TRUE
  /\ NewTimer("read")
  /\ deviceOpen' = TRUE
  /\ signals' = Append(signals, "sniffing")

StartSending ==
  /\ RunSlot("startSending")
  /\ NewTimer("send")
  /\ deviceOpen' = TRUE
  /\ signals' = Append(signals, "transmitting")
  /\ UNCHANGED receiving

StopReading ==
  /\ RunSlot("stopReading")
  /\ receiving' = FALSE
  /\ rxTimer' = "none"
  /\ UNCHANGED <<orphans, deviceOpen, signals>>

\* Fault: the timer is deleted but the device still counts as open.
StopSendingStaysOpen ==
  /\ RunSlot("stopSending")
  /\ rxTimer' = "none"
  /\ signals' = Append(signals, "closed")
  /\ UNCHANGED <<orphans, deviceOpen, receiving>>

StopSending ==
  /\ RunSlot("stopSending")
  /\ rxTimer' = "none"
  /\ deviceOpen' = FALSE
  /\ signals' = Append(signals, "closed")
  /\ UNCHANGED <<orphans, receiving>>

-----------------------------------------------------------------------------
(* Worker thread: readData, one word per step.                             *)

ReadTimerRuns == rxTimer = "read" \/ orphans["read"] > 0

\* A read timer fires and readData takes all the words the driver holds.
BeginRead ==
  /\ ~reading
  /\ ReadTimerRuns
  /\ raw # <<>>
  /\ reading' = TRUE
  /\ chunk' = raw
  /\ raw' = <<>>
  /\ UNCHANGED <<guiVars, signals, mode, deviceVars, events, packetBuffer, list,
                 mutex, receiving, words, bytes, askVars, taken, ignored>>

ReadStep ==
  /\ reading
  /\ chunk # <<>>
  /\ chunk' = Tail(chunk)
  /\ UNCHANGED <<guiVars, signals, mode, deviceVars, events, reading, mutex,
                 driverVars, askVars, taken, ignored>>

\* Fault: break words are taken for data.
ReadAnyByte ==
  /\ ReadStep
  /\ packetBuffer' = Append(packetBuffer, Head(chunk))
  /\ UNCHANGED list

ReadByte ==
  /\ ReadStep
  /\ Head(chunk) # Break
  /\ packetBuffer' = Append(packetBuffer, Head(chunk))
  /\ UNCHANGED list

\* Fault: addPacket without the mutex.
ReadBreakUnlocked ==
  /\ ReadStep
  /\ Head(chunk) = Break
  /\ list' = Append(list, packetBuffer)
  /\ packetBuffer' = <<>>

\* A break ends the packet: addPacket under the mutex, empty or not.
ReadBreak ==
  /\ ReadStep
  /\ Head(chunk) = Break
  /\ mutex = "free"
  /\ list' = Append(list, packetBuffer)
  /\ packetBuffer' = <<>>

\* Fault: packetsReady is not emitted.
EndReadSilent ==
  /\ reading
  /\ chunk = <<>>
  /\ reading' = FALSE
  /\ UNCHANGED <<guiVars, signals, mode, deviceVars, events, chunk, packetBuffer,
                 list, mutex, driverVars, askVars, taken, ignored>>

EndRead ==
  /\ reading
  /\ chunk = <<>>
  /\ reading' = FALSE
  /\ signals' = Append(signals, "packetsReady")
  /\ UNCHANGED <<guiVars, mode, deviceVars, events, chunk, packetBuffer, list,
                 mutex, driverVars, askVars, taken, ignored>>

-----------------------------------------------------------------------------
(* The driver: a byte or a break arrives while the port is receiving.      *)

Arrive ==
  /\ receiving
  /\ words < MaxWords
  /\ words' = words + 1
  /\ \/ raw' = Append(raw, Break) /\ UNCHANGED bytes
     \/ raw' = Append(raw, bytes + 1) /\ bytes' = bytes + 1
  /\ UNCHANGED <<guiVars, signals, mode, deviceVars, events, readVars, list,
                 mutex, receiving, askVars, taken, ignored>>

-----------------------------------------------------------------------------
User ==
  \/ \E m \in OpModes : ModeButton(m)
  \/ StartCapture \/ StopCapture \/ RestartCapture \/ RunScript

Gui == DeliverStatus \/ IgnorePackets \/ LockAndCopy \/ ClearAndUnlock \/ ShowPacket

PostedSlot == StartReading \/ StartSending \/ StopReading \/ StopSending

Read == BeginRead \/ ReadByte \/ ReadBreak \/ EndRead

Next == User \/ Gui \/ PostedSlot \/ Read \/ Arrive

Spec == Init /\ [][Next]_vars

\* Both threads keep turning their event loops: the GUI delivers posted
\* signals, the worker runs posted slots and fires its zero-interval timer.
Fairness ==
  /\ WF_vars(Gui)
  /\ WF_vars(PostedSlot)
  /\ WF_vars(Read)

FairSpec == Spec /\ Fairness

-----------------------------------------------------------------------------
(* Properties.                                                             *)

TypeOK ==
  /\ opMode \in OpModes
  /\ buttons \in Buttons
  /\ table \in Seq(Packet)
  /\ guiPc \in {"idle", "locked", "showing"}
  /\ result \in Seq(Packet)
  /\ signals \in Seq(Signals)
  /\ mode \in {"Sniff", "Transmit"}
  /\ deviceOpen \in BOOLEAN
  /\ events \in Seq(Slots)
  /\ rxTimer \in Timers
  /\ orphans \in [Kinds -> Nat]
  /\ chunk \in Seq(Word)
  /\ reading \in BOOLEAN
  /\ packetBuffer \in Packet
  /\ list \in Seq(Packet)
  /\ mutex \in {"free", "gui"}
  /\ receiving \in BOOLEAN
  /\ raw \in Seq(Word)
  /\ presses \in Nat
  /\ words \in Nat
  /\ bytes \in Nat
  /\ taken \in Seq(Packet)
  /\ requested \in {"open", "close"}
  /\ overlapped \in BOOLEAN
  /\ ignored \in BOOLEAN

\* What is on its way, in order: the packets fetched, the shared list, the
\* packet being built, and the words not processed yet.
Stream == taken \o list \o <<packetBuffer, chunk \o raw>>

\* Bytes further on in a sequence of word sequences are greater.
Rising(s) ==
  \A p, q \in DOMAIN s : \A i \in DOMAIN s[p], j \in DOMAIN s[q] :
    (p < q \/ (p = q /\ i < j)) /\ s[p][i] # Break /\ s[q][j] # Break => s[p][i] < s[q][j]

\* Across the driver's queue, readData's buffer, the packet being built, the
\* shared list and what the GUI has fetched, no received byte is lost,
\* repeated or reordered, whatever is opened and closed meanwhile
\* (GadgetCaptureDevice::readData, ICaptureDevice::addPacket, getPackets).
BytesInOrder ==
  /\ (UNION {Range(Stream[p]) : p \in DOMAIN Stream}) \ {Break} = 1..bytes
  /\ Rising(Stream)

\* The capture device implements the lossless hand-off of packets: the GUI's
\* copy-then-clear never drops a packet the worker adds in between.
Handoff == INSTANCE PacketHandoff WITH put <- taken \o list, got <- taken
ImplementsHandoff == Handoff!Spec

\* While the GUI is between its copy and its clear, the list is still what it
\* copied: m_listMutex keeps addPacket out (getPackets, addPacket).
CopyIsCurrent ==
  IF guiPc = "locked" THEN mutex = "gui" /\ result = list ELSE mutex = "free"

\* Packets waiting in the list always have a packetsReady on its way, unless
\* readData was called in a mode that leaves them there.
NoLostWakeup ==
  list # <<>> /\ ~ignored =>
    reading \/ guiPc = "locked" \/ \E i \in DOMAIN signals : signals[i] = "packetsReady"

\* Once the worker has run all that was posted, a closed device is silent: not
\* receiving and without a timer.  An unreachable timer survives only if the
\* GUI opened the device twice with no close between (Start pressed before
\* the sniffing signal is back, or Run Script repeated).
ClosedIsQuiet ==
  /\ events = <<>> /\ ~deviceOpen => ~receiving /\ rxTimer = "none"
  /\ ~overlapped => \A k \in Kinds : orphans[k] = 0

DeviceStatus ==
  IF ~deviceOpen THEN "closed"
  ELSE IF rxTimer = "read" THEN "sniffing" ELSE "transmitting"

NoStatusPending == \A i \in DOMAIN signals : signals[i] \notin Status

LastStatusPending(s) ==
  \E i \in DOMAIN signals :
    /\ signals[i] = s
    /\ \A j \in DOMAIN signals : j > i => signals[j] \notin Status

\* When the worker has nothing left to run, the capture buttons show what the
\* device does, or the last status signal on its way will make them.
ButtonsFollowDevice ==
  events = <<>> =>
    \/ NoStatusPending /\ buttons = ButtonsAfter(DeviceStatus)
    \/ LastStatusPending(DeviceStatus)

\* With nothing in flight, pressing Start does what its check mark shows: a
\* stop if checked, a capture if not.  The handler does not look at the mark
\* but at m_deviceOpen and m_mode, which change at different times.
StartActsAsShown ==
  [][StartCapture /\ events = <<>> /\ NoStatusPending =>
       requested' = IF buttons.startChecked THEN "close" ELSE "open"]_vars

\* A close the GUI asked for takes effect, unless it asks for an open again.
CloseTakesEffect == requested = "close" ~> ~deviceOpen \/ requested = "open"

\* Packets waiting while the window shows packets are fetched, unless the
\* user leaves for another mode first.
PacketsReachWindow ==
  list # <<>> /\ ~ignored ~> list = <<>> \/ opMode \notin {"SNIFFER", "DMXVIEW"}
=============================================================================
