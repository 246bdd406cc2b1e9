------------------------------ MODULE DmxOutput ------------------------------
(***************************************************************************)
(* DMX output: who sets the levels, who switches the output on and off,    *)
(* and the periodic send of the device.                                    *)
(*                                                                         *)
(* Two threads write: the GUI (faders, crossfade, the Disable DMX button)  *)
(* and the script thread (the dmx object).  Both end in setDmxLevels and   *)
(* setDmxEnabled of the one capture device.  The device sends the levels   *)
(* on a timer: the Gadget on a worker thread and without taking the mutex, *)
(* the Whip on the GUI thread and under the mutex.                         *)
(*                                                                         *)
(* A step is a piece of a handler that touches shared memory at one place: *)
(* one slot of m_txLevels, m_enabled, the mutex, or a call of the driver.  *)
(***************************************************************************)
EXTENDS Naturals

CONSTANTS
  Slots,      \* number of DMX slots (512 in the code)
  MaxLevel,   \* levels are 0..MaxLevel (255 in the code)
  MaxCalls    \* bound on the calls that set levels or switch the output

ASSUME ConstantsAssumption ==
  /\ Slots \in Nat \ {0}
  /\ MaxLevel \in Nat
  /\ MaxCalls \in Nat

Slot    == 1..Slots
Level   == 0..MaxLevel
Frame   == [Slot -> Level]
Writers == {"gui", "script"}

\* Fault: one slot is not cleared.
BlankShort == [s \in 1..(Slots - 1) |-> 0]

Blank == [s \in Slot |-> 0]

VARIABLES
  device,     \* "gadget" or "whip"
  sending,    \* is the device open to transmit, its send timer running
  enabled,    \* m_enabled
  levels,     \* ICaptureDevice::m_txLevels
  mutex,      \* holder of m_listMutex, or "free"
  source,     \* the array a writer copies: MainWindow's and ScriptDMX's levels
  pc,         \* what a writer is doing: "idle", "copying" or "disabling"
  copied,     \* slots a writer has copied
  sendPc,     \* "idle", or "reading" once the send has found m_enabled true
  frame,      \* the part of the levels the send has read
  read,       \* slots the send has read
  wire,       \* the last frame sent
  output,     \* does the Gadget put DMX on the port: it repeats the last frame
              \* from Gadget2_SendDMX until Gadget2_DisableDMX
  calls,      \* bound: calls made so far
  lastWriter, \* history: the writer whose copy finished last
  published,  \* history: every array setDmxLevels was called with
  off,        \* history: has setDmxEnabled(false) returned, and no enable since
  lateFrames  \* history: frames sent while off

writerVars == <<source, pc, copied>>
sendVars   == <<sendPc, frame, read, wire>>
offVars    == <<off, lateFrames>>
vars == <<device, sending, enabled, levels, mutex, writerVars, sendVars, output,
          calls, lastWriter, published, offVars>>

-----------------------------------------------------------------------------
Init ==
  /\ device \in {"gadget", "whip"}
  /\ sending = FALSE
  /\ enabled = TRUE
  /\ levels = Blank
  /\ mutex = "free"
  /\ source = [w \in Writers |-> Blank]
  /\ pc = [w \in Writers |-> "idle"]
  /\ copied = [w \in Writers |-> 0]
  /\ sendPc = "idle"
  /\ frame = Blank
  /\ read = 0
  /\ wire = Blank
  /\ output = FALSE
  /\ calls = 0
  /\ lastWriter = "none"
  /\ published = {Blank}
  /\ off = FALSE
  /\ lateFrames = 0

\* The Whip's send timer and the GUI's handlers share one thread.
MayRun(w) ==
  /\ pc[w] = "idle"
  /\ w = "gui" /\ device = "whip" => sendPc = "idle"

DeviceIdle == sendPc = "idle" /\ (device = "whip" => pc["gui"] = "idle")

Call ==
  /\ calls < MaxCalls
  /\ calls' = calls + 1

-----------------------------------------------------------------------------
(* Writers.                                                                *)

\* The GUI mixes its two scenes into any array; a script changes one slot.
MaySet(w, f) ==
  w = "script" => \E s \in Slot, v \in Level : f = [source[w] EXCEPT ![s] = v]

\* Fault: the levels are copied without the mutex.
BeginSetUnlocked(w, f) ==
  /\ MayRun(w)
  /\ Call
  /\ MaySet(w, f)
  /\ source' = [source EXCEPT ![w] = f]
  /\ published' = published \cup {f}
  /\ pc' = [pc EXCEPT ![w] = "copying"]
  /\ copied' = [copied EXCEPT ![w] = 0]
  /\ UNCHANGED <<device, sending, enabled, levels, mutex, sendVars, output,
                 lastWriter, offVars>>

\* setDmxLevels takes the mutex; the copy follows slot by slot.
BeginSet(w, f) ==
  /\ MayRun(w)
  /\ Call
  /\ MaySet(w, f)
  /\ mutex = "free"
  /\ mutex' = w
  /\ source' = [source EXCEPT ![w] = f]
  /\ published' = published \cup {f}
  /\ pc' = [pc EXCEPT ![w] = "copying"]
  /\ copied' = [copied EXCEPT ![w] = 0]
  /\ UNCHANGED <<device, sending, enabled, levels, sendVars, output, lastWriter,
                 offVars>>

\* Fault: the mutex is not released after the last slot.
CopySlotHolding(w) ==
  LET s == copied[w] + 1 IN
  /\ pc[w] = "copying"
  /\ levels' = [levels EXCEPT ![s] = source[w][s]]
  /\ copied' = [copied EXCEPT ![w] = s]
  /\ IF s < Slots
     THEN UNCHANGED <<pc, lastWriter>>
     ELSE pc' = [pc EXCEPT ![w] = "idle"] /\ lastWriter' = w
  /\ UNCHANGED <<device, sending, enabled, source, mutex, sendVars, output, calls,
                 published, offVars>>

CopySlot(w) ==
  LET s == copied[w] + 1 IN
  /\ pc[w] = "copying"
  /\ levels' = [levels EXCEPT ![s] = source[w][s]]
  /\ copied' = [copied EXCEPT ![w] = s]
  /\ IF s < Slots
     THEN UNCHANGED <<pc, mutex, lastWriter>>
     ELSE /\ pc' = [pc EXCEPT ![w] = "idle"]
          /\ mutex' = "free"
          /\ lastWriter' = w
  /\ UNCHANGED <<device, sending, enabled, source, sendVars, output, calls,
                 published, offVars>>

Enable(w) ==
  /\ MayRun(w)
  /\ Call
  /\ enabled' = TRUE
  /\ off' = FALSE
  /\ lateFrames' = 0
  /\ UNCHANGED <<device, sending, levels, mutex, writerVars, sendVars, output,
                 lastWriter, published>>

\* setDmxEnabled(false) returns; an enable may have come in between.
Disabled ==
  /\ off' = ~enabled'
  /\ lateFrames' = 0

\* setDmxEnabled(false): the Whip only clears the flag, the Gadget then calls
\* Gadget2_DisableDMX as well.
BeginDisable(w) ==
  /\ MayRun(w)
  /\ Call
  /\ enabled' = FALSE
  /\ IF device = "gadget"
     THEN pc' = [pc EXCEPT ![w] = "disabling"] /\ UNCHANGED offVars
     ELSE Disabled /\ UNCHANGED pc
  /\ UNCHANGED <<device, sending, levels, mutex, source, copied, sendVars, output,
                 lastWriter, published>>

EndDisable(w) ==
  /\ pc[w] = "disabling"
  /\ pc' = [pc EXCEPT ![w] = "idle"]
  /\ output' = FALSE
  /\ UNCHANGED enabled
  /\ Disabled
  /\ UNCHANGED <<device, sending, levels, mutex, source, copied, sendVars, calls,
                 lastWriter, published>>

-----------------------------------------------------------------------------
(* The device.                                                             *)

StartSending ==
  /\ DeviceIdle
  /\ sending' = TRUE
  /\ UNCHANGED <<device, enabled, levels, mutex, writerVars, sendVars, output, calls,
                 lastWriter, published, offVars>>

\* stopSending disables the Gadget's output as well; m_enabled is left alone.
StopSending ==
  /\ DeviceIdle
  /\ sending' = FALSE
  /\ output' = FALSE
  /\ UNCHANGED <<device, enabled, levels, mutex, writerVars, sendVars, calls,
                 lastWriter, published, offVars>>

\* Fault: the timer does not look at m_enabled.
BeginSendUnchecked ==
  /\ DeviceIdle
  /\ sending
  /\ IF device = "whip" THEN mutex = "free" /\ mutex' = "device"
     ELSE UNCHANGED mutex
  /\ sendPc' = "reading"
  /\ read' = 0
  /\ UNCHANGED <<device, sending, enabled, levels, writerVars, frame, wire, output, calls,
                 lastWriter, published, offVars>>

\* The send timer fires: m_enabled is looked at once, before the levels are
\* read.  Only the Whip takes the mutex.
BeginSend ==
  /\ DeviceIdle
  /\ sending
  /\ enabled
  /\ IF device = "whip" THEN mutex = "free" /\ mutex' = "device"
     ELSE UNCHANGED mutex
  /\ sendPc' = "reading"
  /\ read' = 0
  /\ UNCHANGED <<device, sending, enabled, levels, writerVars, frame, wire, output, calls,
                 lastWriter, published, offVars>>

\* The driver takes the levels over, slot by slot, and the frame goes out.
ReadSlot ==
  LET s == read + 1
      f == [frame EXCEPT ![s] = levels[s]] IN
  /\ sendPc = "reading"
  /\ read' = s
  /\ frame' = f
  /\ IF s < Slots
     THEN UNCHANGED <<sendPc, wire, output, mutex, lateFrames>>
     ELSE /\ sendPc' = "idle"
          /\ wire' = f
          /\ output' = (output \/ device = "gadget")
          /\ mutex' = IF device = "whip" THEN "free" ELSE mutex
          /\ lateFrames' = IF off THEN lateFrames + 1 ELSE lateFrames
  /\ UNCHANGED <<device, sending, enabled, levels, writerVars, calls, lastWriter,
                 published, off>>

-----------------------------------------------------------------------------
Writer(w) ==
  \/ \E f \in Frame : BeginSet(w, f)
  \/ CopySlot(w)
  \/ Enable(w)
  \/ BeginDisable(w)
  \/ EndDisable(w)

Device == StartSending \/ StopSending \/ BeginSend \/ ReadSlot

Next == (\E w \in Writers : Writer(w)) \/ Device

Spec == Init /\ [][Next]_vars

\* A writer finishes the call it is in, and a running send timer fires and
\* its send finishes.
Fairness ==
  /\ \A w \in Writers : WF_vars(CopySlot(w) \/ EndDisable(w))
  /\ WF_vars(BeginSend \/ ReadSlot)

FairSpec == Spec /\ Fairness

-----------------------------------------------------------------------------
(* Properties.                                                             *)

TypeOK ==
  /\ device \in {"gadget", "whip"}
  /\ sending \in BOOLEAN
  /\ enabled \in BOOLEAN
  /\ levels \in Frame
  /\ mutex \in Writers \cup {"free", "device"}
  /\ source \in [Writers -> Frame]
  /\ pc \in [Writers -> {"idle", "copying", "disabling"}]
  /\ copied \in [Writers -> 0..Slots]
  /\ sendPc \in {"idle", "reading"}
  /\ frame \in Frame
  /\ read \in 0..Slots
  /\ wire \in Frame
  /\ output \in BOOLEAN
  /\ calls \in Nat
  /\ lastWriter \in Writers \cup {"none"}
  /\ published \subseteq Frame
  /\ off \in BOOLEAN
  /\ lateFrames \in Nat

\* The levels are always one writer's whole universe: with no copy under way
\* they equal what the last writer holds, never a mixture of the GUI's and the
\* script's (setDmxLevels copies 512 slots under m_listMutex).
LevelsFromOneWriter ==
  (\A w \in Writers : pc[w] # "copying") =>
    levels = IF lastWriter = "none" THEN Blank ELSE source[lastWriter]

\* The Whip sends only arrays that some caller set as a whole (onTimer holds
\* m_listMutex).  The Gadget reads without the mutex: its frame can mix two
\* arrays, but each slot is a level that was set for that slot.
FramesWerePublished ==
  IF device = "whip" THEN wire \in published
  ELSE \A s \in Slot : \E f \in published : wire[s] = f[s]

\* After setDmxEnabled(false) has returned, no more than the one frame that
\* was past its m_enabled check goes out, whoever disables and however often.
AtMostOneLateFrame == lateFrames <= 1

\* What doc/SCRIPTING.md says of dmx.disable(), "disables the DMX output": once
\* it has returned and no send is under way, the output is off until somebody
\* enables it again.
DisableStopsOutput == off /\ sendPc = "idle" => ~output

\* Levels that stay set while the device transmits reach the wire.
LevelsReachWire ==
  \A f \in Frame :
    levels = f /\ sending /\ enabled ~> wire = f \/ levels # f \/ ~sending \/ ~enabled
=============================================================================
