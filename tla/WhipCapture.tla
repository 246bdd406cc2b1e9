----------------------------- MODULE WhipCapture -----------------------------
(***************************************************************************)
(* A Whip capture device (WhipCaptureDevice over FTDComm) and the main     *)
(* window that drives it.                                                  *)
(*                                                                         *)
(* Everything runs on the GUI thread: open and close call the FTDI driver  *)
(* at once and may fail, and a 100 ms timer reads the driver's queue.  The *)
(* queue holds coded bytes: a break, or one nibble of a data byte, high    *)
(* nibble first.  ReceiveData unpacks what one read takes into words and   *)
(* onTimer splits the words into packets.  sniffing and closed are queued  *)
(* to the window, packetsReady is a direct call of readData.               *)
(*                                                                         *)
(* Each action is one handler, or one turn of a loop in it; pc is where    *)
(* the GUI thread is.  The n-th data byte has n for both of its nibbles,   *)
(* so that order, loss and a mix of two bytes show.  What the timer sends  *)
(* in transmit mode is in DmxOutput.                                       *)
(***************************************************************************)
EXTENDS Naturals, Sequences, SequencesExt

CONSTANTS
  Radix,       \* values of a nibble (16 in the code)
  MaxRead,     \* coded bytes one read takes at most (RX_BUF_SIZE in the code)
  MaxBytes,    \* bound on the data bytes received
  MaxBreaks,   \* bound on the breaks received
  MaxPresses,  \* bound on the buttons the user presses
  MaxFailures  \* bound on the driver calls that fail

ASSUME ConstantsAssumption ==
  /\ Radix \in Nat \ {0}
  /\ MaxRead \in Nat \ {0}
  /\ MaxBytes \in 0..(Radix - 1)
  /\ MaxBreaks \in Nat
  /\ MaxPresses \in Nat
  /\ MaxFailures \in Nat

VARIABLES
  \* MainWindow
  opMode,        \* MainWindow::m_mode
  buttons,       \* the capture actions: startChecked, startEnabled, stopEnabled
  table,         \* rows of m_packetTable
  signals,       \* queued signals not yet delivered
  pc,            \* what the GUI thread is doing
  \* WhipCaptureDevice
  mode,          \* m_mode
  deviceOpen,    \* m_deviceOpen
  timer,         \* has m_rxTimer been created: it is never stopped
  packetBuffer,  \* m_packetBuffer
  list,          \* m_packetList
  \* FTDComm, with the locals of UnPackIncomingBytes
  handle,        \* DeviceOpen: an FTDI handle is open
  chunk,         \* coded bytes of InputBuff still to unpack
  temp,          \* Temp
  gotHigh,       \* GotHighNibble
  words,         \* OutputBuff: words not yet split into packets
  \* the FTDI driver and the Whip
  arrived,       \* coded bytes received and not yet read
  half,          \* data byte whose high nibble has been sent, or 0
  bytes,         \* data bytes begun
  breaks,        \* breaks sent
  \* bounds and history
  presses,       \* buttons pressed
  failures,      \* driver calls that have failed
  taken,         \* packets getPackets has returned
  kept           \* data bytes of which one read took both nibbles

windowVars == <<opMode, buttons, table>>
openVars   == <<deviceOpen, timer, handle, failures>>
unpackVars == <<chunk, temp, gotHigh, words>>
driverVars == <<arrived, half, bytes, breaks>>
packetVars == <<packetBuffer, list, taken>>
vars == <<windowVars, signals, pc, mode, openVars, unpackVars, driverVars,
          packetVars, presses, kept>>

-----------------------------------------------------------------------------
\* RDM control is not offered for a Whip.
OpModes  == {"SNIFFER", "DMXCONTROL", "DMXVIEW", "SCRIPT"}
Viewers  == {"SNIFFER", "DMXVIEW"}
Status   == {"sniffing", "closed"}
Places   == {"idle", "opening", "starting", "unpacking", "splitting"}
Buttons  == [startChecked : BOOLEAN, startEnabled : BOOLEAN, stopEnabled : BOOLEAN]

Nibble    == 0..(Radix - 1)
Code      == [kind : {"break", "high", "low"}, nibble : Nibble]
ByteVal   == 0..(Radix * Radix - 1)
BreakWord == Radix * Radix
Packet    == Seq(ByteVal)

\* The lambdas connected to sniffing and closed.
ButtonsAfter(s) ==
  [startChecked |-> s = "sniffing", startEnabled |-> TRUE,
   stopEnabled |-> s = "sniffing"]

Init ==
  /\ opMode = "SNIFFER"
  /\ buttons = ButtonsAfter("closed")
  /\ table = <<>>
  /\ signals = <<>>
  /\ pc = "idle"
  /\ mode = "Sniff"
  /\ deviceOpen = FALSE
  /\ timer = FALSE
  /\ packetBuffer = <<>>
  /\ list = <<>>
  /\ handle = FALSE
  /\ chunk = <<>>
  /\ temp = 0
  /\ gotHigh = FALSE
  /\ words = <<>>
  /\ arrived = <<>>
  /\ half = 0
  /\ bytes = 0
  /\ breaks = 0
  /\ presses = 0
  /\ failures = 0
  /\ taken = <<>>
  /\ kept = {}

-----------------------------------------------------------------------------
(* The user's buttons.                                                     *)

Press ==
  /\ pc = "idle"
  /\ presses < MaxPresses
  /\ presses' = presses + 1
  /\ UNCHANGED <<timer, unpackVars, half, bytes, breaks, packetVars, kept>>

\* A driver call that fails.
Fail == failures < MaxFailures /\ failures' = failures + 1

\* Fault: closed is not emitted.
CloseSilent ==
  /\ \/ ~handle /\ UNCHANGED <<handle, arrived, failures>>
     \/ handle /\ handle' = FALSE /\ arrived' = <<>> /\ UNCHANGED failures
     \/ handle /\ Fail /\ UNCHANGED <<handle, arrived>>
  /\ deviceOpen' = FALSE
  /\ UNCHANGED signals

\* close(): FT_Close may fail and leave the handle open, the device counts as
\* closed all the same.  What the driver still held goes with the handle.
Close ==
  /\ \/ ~handle /\ UNCHANGED <<handle, arrived, failures>>
     \/ handle /\ handle' = FALSE /\ arrived' = <<>> /\ UNCHANGED failures
     \/ handle /\ Fail /\ UNCHANGED <<handle, arrived>>
  /\ deviceOpen' = FALSE
  /\ signals' = Append(signals, "closed")

\* modeButtonPressed: capture is stopped first; two of the modes open the
\* device again.
ModeButton(m) ==
  /\ Press
  /\ Close
  /\ opMode' = m
  /\ pc' = IF m \in {"DMXCONTROL", "DMXVIEW"} THEN "opening" ELSE "idle"
  /\ mode' = CASE m = "DMXCONTROL" -> "Transmit"
               [] m = "SCRIPT"     -> mode
               [] OTHER            -> "Sniff"
  /\ UNCHANGED <<buttons, table>>

\* Start Capture, a checkable action: a stop if the device is seen open and
\* in sniff mode, else startCapture.
StartCapture ==
  /\ Press
  /\ buttons.startEnabled
  /\ buttons' = [buttons EXCEPT !.startChecked = ~@]
  /\ IF deviceOpen /\ mode = "Sniff"
     THEN Close /\ UNCHANGED pc
     ELSE pc' = "starting" /\ UNCHANGED <<deviceOpen, handle, arrived, failures, signals>>
  /\ UNCHANGED <<opMode, table, mode>>

StopCapture ==
  /\ Press
  /\ buttons.stopEnabled
  /\ Close
  /\ UNCHANGED <<windowVars, pc, mode>>

RestartCapture ==
  /\ Press
  /\ buttons.stopEnabled
  /\ Close
  /\ pc' = "starting"
  /\ UNCHANGED <<windowVars, mode>>

\* Run Script opens the device to transmit and never closes it.
RunScript ==
  /\ Press
  /\ opMode = "SCRIPT"
  /\ mode' = "Transmit"
  /\ pc' = "opening"
  /\ UNCHANGED <<windowVars, signals, deviceOpen, handle, arrived, failures>>

-----------------------------------------------------------------------------
(* open(), called at the end of a handler.                                 *)

InOpen ==
  /\ pc \in {"opening", "starting"}
  /\ pc' = "idle"
  /\ UNCHANGED <<opMode, buttons, mode, unpackVars, driverVars, packetVars,
                 presses, kept>>

\* startCapture empties the table; sniffing is emitted in either mode.
OpenSucceeds ==
  /\ InOpen
  /\ ~handle
  /\ handle' = TRUE
  /\ timer' = TRUE
  /\ deviceOpen' = TRUE
  /\ signals' = Append(signals, "sniffing")
  /\ table' = IF pc = "starting" THEN <<>> ELSE table
  /\ UNCHANGED failures

\* Fault: the device counts as open before FTDComm has answered.
OpenFailsMarkedOpen ==
  /\ InOpen
  /\ \/ handle /\ UNCHANGED <<handle, failures>>
     \/ ~handle /\ Fail /\ handle' \in BOOLEAN
  /\ deviceOpen' = TRUE
  /\ UNCHANGED <<table, signals, timer>>

\* open returns false: a handle is open already, FT_Open fails, or
\* SetupDevice fails and leaves the handle open.
OpenFails ==
  /\ InOpen
  /\ \/ handle /\ UNCHANGED <<handle, failures>>
     \/ ~handle /\ Fail /\ handle' \in BOOLEAN
  /\ UNCHANGED <<table, signals, deviceOpen, timer>>

\* A queued signal reaches the window.
DeliverStatus ==
  /\ pc = "idle"
  /\ signals # <<>>
  /\ buttons' = ButtonsAfter(Head(signals))
  /\ signals' = Tail(signals)
  /\ UNCHANGED <<opMode, table, pc, mode, openVars, unpackVars, driverVars,
                 packetVars, presses, kept>>

-----------------------------------------------------------------------------
(* onTimer in sniff mode.                                                  *)

\* The data bytes of which the coded bytes c hold both nibbles.
BytesWithin(c) ==
  {c[i].nibble : i \in {j \in 1..Len(c) : /\ j < Len(c)
                                          /\ c[j].kind = "high"
                                          /\ c[j + 1].kind = "low"}}

\* ReceiveData reads what the driver holds, up to its buffer's size.
BeginRead ==
  /\ pc = "idle"
  /\ timer
  /\ mode = "Sniff"
  /\ handle
  /\ arrived # <<>>
  /\ pc' = "unpacking"
  /\ \E n \in 1..Len(arrived) :
       /\ n = IF Len(arrived) < MaxRead THEN Len(arrived) ELSE MaxRead
       /\ chunk' = SubSeq(arrived, 1, n)
       /\ arrived' = SubSeq(arrived, n + 1, Len(arrived))
  /\ kept' = kept \cup BytesWithin(chunk')
  /\ temp' = 0
  /\ gotHigh' = FALSE
  /\ words' = <<>>
  /\ UNCHANGED <<windowVars, signals, mode, openVars, half, bytes, breaks,
                 packetVars, presses>>

Unpack(kind) ==
  /\ pc = "unpacking"
  /\ chunk # <<>>
  /\ Head(chunk).kind = kind
  /\ chunk' = Tail(chunk)
  /\ UNCHANGED <<windowVars, signals, pc, mode, openVars, driverVars, packetVars,
                 presses, kept>>

UnpackBreak ==
  /\ Unpack("break")
  /\ words' = Append(words, BreakWord)
  /\ UNCHANGED <<temp, gotHigh>>

UnpackHigh ==
  /\ Unpack("high")
  /\ temp' = Head(chunk).nibble * Radix
  /\ gotHigh' = TRUE
  /\ UNCHANGED words

\* Fault: a low nibble makes a byte whether or not its high nibble came.
UnpackAnyLow ==
  /\ Unpack("low")
  /\ words' = Append(words, temp + Head(chunk).nibble)
  /\ gotHigh' = FALSE
  /\ UNCHANGED temp

\* A low nibble without its high nibble is dropped.
UnpackLow ==
  /\ Unpack("low")
  /\ IF gotHigh
     THEN words' = Append(words, temp + Head(chunk).nibble)
     ELSE UNCHANGED words
  /\ gotHigh' = FALSE
  /\ UNCHANGED temp

\* onTimer returns if the read gave no word.
EndUnpack ==
  /\ pc = "unpacking"
  /\ chunk = <<>>
  /\ pc' = IF words = <<>> THEN "idle" ELSE "splitting"
  /\ UNCHANGED <<windowVars, signals, mode, openVars, unpackVars, driverVars,
                 packetVars, presses, kept>>

Split ==
  /\ pc = "splitting"
  /\ words # <<>>
  /\ words' = Tail(words)
  /\ UNCHANGED <<windowVars, signals, pc, mode, openVars, chunk, temp, gotHigh,
                 driverVars, taken, presses, kept>>

\* Does the next word end the packet: a break, unless nothing is buffered.
EndsPacket == Head(words) = BreakWord /\ packetBuffer # <<>>

\* Fault: the finished packet takes the place of those still in the list.
SplitReplacesList ==
  /\ Split
  /\ EndsPacket
  /\ list' = <<packetBuffer>>
  /\ packetBuffer' = <<>>

SplitPacket ==
  /\ Split
  /\ EndsPacket
  /\ list' = Append(list, packetBuffer)
  /\ packetBuffer' = <<>>

\* Fault: the word is not cut to a byte.
SplitWord ==
  /\ Split
  /\ ~EndsPacket
  /\ packetBuffer' = Append(packetBuffer, Head(words))
  /\ UNCHANGED list

\* Any other word is cut to a byte: a break with nothing buffered gives a 0.
SplitByte ==
  /\ Split
  /\ ~EndsPacket
  /\ packetBuffer' = Append(packetBuffer, Head(words) % BreakWord)
  /\ UNCHANGED list

InEndRead ==
  /\ pc = "splitting"
  /\ words = <<>>
  /\ pc' = "idle"
  /\ UNCHANGED <<opMode, buttons, signals, mode, openVars, unpackVars, driverVars,
                 packetBuffer, presses, kept>>

\* packetsReady calls readData: the window fetches the list if it shows
\* packets, and the sniffer makes a row of each.
EndReadFetches ==
  /\ InEndRead
  /\ opMode \in Viewers
  /\ taken' = taken \o list
  /\ list' = <<>>
  /\ table' = IF opMode = "SNIFFER" THEN table \o list ELSE table

\* In the other modes the list stays.
EndReadLeaves ==
  /\ InEndRead
  /\ opMode \notin Viewers
  /\ UNCHANGED <<table, list, taken>>

-----------------------------------------------------------------------------
(* The Whip sends coded bytes while its handle is open.                    *)

Arrive(c) ==
  /\ handle
  /\ arrived' = Append(arrived, c)
  /\ UNCHANGED <<windowVars, signals, pc, mode, openVars, unpackVars, packetVars,
                 presses, kept>>

SendBreak ==
  /\ half = 0
  /\ breaks < MaxBreaks
  /\ Arrive([kind |-> "break", nibble |-> 0])
  /\ breaks' = breaks + 1
  /\ UNCHANGED <<half, bytes>>

SendHigh ==
  /\ half = 0
  /\ bytes < MaxBytes
  /\ Arrive([kind |-> "high", nibble |-> bytes + 1])
  /\ bytes' = bytes + 1
  /\ half' = bytes + 1
  /\ UNCHANGED breaks

SendLow ==
  /\ half # 0
  /\ Arrive([kind |-> "low", nibble |-> half])
  /\ half' = 0
  /\ UNCHANGED <<bytes, breaks>>

-----------------------------------------------------------------------------
User ==
  \/ \E m \in OpModes : ModeButton(m)
  \/ StartCapture \/ StopCapture \/ RestartCapture \/ RunScript

Gui ==
  \/ OpenSucceeds \/ OpenFails \/ DeliverStatus
  \/ BeginRead \/ UnpackBreak \/ UnpackHigh \/ UnpackLow \/ EndUnpack
  \/ SplitPacket \/ SplitByte \/ EndReadFetches \/ EndReadLeaves

Whip == SendBreak \/ SendHigh \/ SendLow

Next == User \/ Gui \/ Whip

Spec == Init /\ [][Next]_vars

-----------------------------------------------------------------------------
(* Properties.                                                             *)

TypeOK ==
  /\ opMode \in OpModes
  /\ buttons \in Buttons
  /\ table \in Seq(Packet)
  /\ signals \in Seq(Status)
  /\ pc \in Places
  /\ mode \in {"Sniff", "Transmit"}
  /\ deviceOpen \in BOOLEAN
  /\ timer \in BOOLEAN
  /\ packetBuffer \in Packet
  /\ list \in Seq(Packet)
  /\ handle \in BOOLEAN
  /\ chunk \in Seq(Code)
  /\ temp \in {n * Radix : n \in Nibble}
  /\ gotHigh \in BOOLEAN
  /\ words \in Seq(ByteVal \cup {BreakWord})
  /\ arrived \in Seq(Code)
  /\ half \in Nibble
  /\ bytes \in 0..MaxBytes
  /\ breaks \in 0..MaxBreaks
  /\ presses \in 0..MaxPresses
  /\ failures \in 0..MaxFailures
  /\ taken \in Seq(Packet)
  /\ kept \in SUBSET Nibble

\* The bytes in the packets fetched, waiting and being built, end to end.
Received == FlattenSeq(taken \o list) \o packetBuffer

\* A data byte is never 0 here: a 0 comes from a break with nothing buffered.
DataByte == ByteVal \ {0}

\* Data bytes further on in a sequence are greater.
Rising(s) ==
  \A i, j \in DOMAIN s : i < j /\ s[i] \in DataByte /\ s[j] \in DataByte => s[i] < s[j]

\* Between timer events the data bytes received are exactly those of which one
\* read took both nibbles, each once, in order and with its own two nibbles,
\* whatever was opened, closed or failed meanwhile
\* (FTDComm::UnPackIncomingBytes, WhipCaptureDevice::onTimer, getPackets).
WholeBytesArrive ==
  pc \notin {"unpacking", "splitting"} =>
    /\ Range(Received) \cap DataByte = {n * Radix + n : n \in kept}
    /\ Rising(Received)

\* The Whip implements the lossless hand-off of packets too, with no posted
\* signal between the device and the window and in modes that leave the list.
Handoff == INSTANCE PacketHandoff WITH put <- taken \o list, got <- taken
ImplementsHandoff == Handoff!Spec

\* m_deviceOpen is never true without an FTDI handle, and a handle the window
\* does not know of is left only by a driver call that failed: SetupDevice in
\* open, which leaves the device open, or FT_Close in close.
HandleFollowsDevice ==
  /\ deviceOpen => handle /\ timer
  /\ handle /\ ~deviceOpen => failures > 0

\* With no signal on its way and no driver call failed, the capture buttons
\* of a device in sniff mode show whether it is open.  (In transmit mode they
\* do not: Start is offered, and toggles its mark without any effect.)
ButtonsFollowDevice ==
  pc = "idle" /\ signals = <<>> /\ failures = 0 /\ mode = "Sniff" =>
    buttons = ButtonsAfter(IF deviceOpen THEN "sniffing" ELSE "closed")
=============================================================================
