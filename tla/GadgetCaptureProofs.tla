------------------------- MODULE GadgetCaptureProofs -------------------------
(***************************************************************************)
(* Safety of the Gadget capture device, for every number of button presses *)
(* and received words.                                                     *)
(***************************************************************************)
EXTENDS GadgetCapture, SequenceTheorems, TLAPS

\* Appending to a list keeps all that was before it.
LEMMA AppendConcat ==
  ASSUME NEW S, NEW s \in Seq(S), NEW t \in Seq(S), NEW e \in S
  PROVE  s \o Append(t, e) = Append(s \o t, e)
  OBVIOUS

\* Every variable keeps its type: in particular m_rxTimer only ever points to
\* a read or a send timer and the queues hold only the slots and signals the
\* classes declare.
THEOREM TypeCorrect == Spec => []TypeOK
<1> USE ConstantsAssumption
<1>s. \A S : <<>> \in Seq(S)
  OBVIOUS
<1>e. /\ {"startReading", "startSending", "stopReading", "stopSending"} \subseteq Slots
      /\ {"sniffing", "transmitting", "closed", "packetsReady"} \subseteq Signals
      /\ Status \subseteq Signals
      /\ Kinds \subseteq Timers
      /\ "none" \in Timers /\ "read" \in Kinds /\ "send" \in Kinds
      /\ \A t \in Timers : t # "none" => t \in Kinds
      /\ Break \in Word
      /\ \A n \in Nat : n \in Word
      /\ "SNIFFER" \in OpModes
  BY DEF Slots, Status, Signals, Kinds, Timers, Break, Word, OpModes
<1>p. /\ <<>> \in Packet
      /\ \A b \in Packet, w \in Word \ {Break} : Append(b, w) \in Packet
  BY DEF Packet, Word
<1>b. \A s \in Status : ButtonsAfter(s) \in Buttons
  BY DEF ButtonsAfter, Buttons
<1>1. Init => TypeOK
  <2> SUFFICES ASSUME Init PROVE TypeOK
    OBVIOUS
  <2>1. buttons \in Buttons
    BY DEF Init, Buttons
  <2>2. orphans \in [Kinds -> Nat]
    BY DEF Init
  <2>3. QED
    BY <2>1, <2>2, <1>s, <1>e, <1>p DEF Init, TypeOK
<1>2. TypeOK /\ [Next]_vars => TypeOK'
  <2> SUFFICES ASSUME TypeOK, [Next]_vars PROVE TypeOK'
    OBVIOUS
  <2> USE <1>e DEF TypeOK
  <2>c. ASSUME Close
        PROVE  /\ events' \in Seq(Slots) /\ requested' \in {"open", "close"}
               /\ overlapped' \in BOOLEAN
    BY <2>c DEF Close, StopSlots
  <2>o. ASSUME NEW m, Open(m)
        PROVE  /\ events' \in Seq(Slots) /\ requested' \in {"open", "close"}
               /\ overlapped' \in BOOLEAN
    BY <2>o DEF Open, StartSlot
  <2>r. ASSUME NEW m, Reopen(m)
        PROVE  /\ events' \in Seq(Slots) /\ requested' \in {"open", "close"}
               /\ overlapped' \in BOOLEAN
    <3>1. StopSlots \in Seq(Slots) /\ <<StartSlot(m)>> \in Seq(Slots)
      BY DEF StopSlots, StartSlot
    <3>2. QED
      BY <2>r, <3>1 DEF Reopen
  <2>1. ASSUME NEW m \in OpModes, ModeButton(m) PROVE TypeOK'
    <3>1. /\ mode' \in {"Sniff", "Transmit"}
          /\ events' \in Seq(Slots)
          /\ requested' \in {"open", "close"}
          /\ overlapped' \in BOOLEAN
      BY <2>1, <2>c, <2>r DEF ModeButton, OpModes
    <3>2. QED
      BY <2>1, <3>1 DEF ModeButton, Press, deviceVars, readVars, driverVars
  <2>2. CASE StartCapture
    <3>1. buttons' \in Buttons
      BY <2>2 DEF StartCapture, Buttons
    <3>2. /\ table' \in Seq(Packet)
          /\ events' \in Seq(Slots)
          /\ requested' \in {"open", "close"}
          /\ overlapped' \in BOOLEAN
      BY <2>2, <2>c, <2>o, <1>s DEF StartCapture
    <3>3. presses' \in Nat
      BY <2>2 DEF StartCapture, Press
    <3>4. UNCHANGED <<opMode, mode, guiPc, result, signals, deviceVars, readVars, list,
                      mutex, driverVars, taken, ignored>>
      BY <2>2 DEF StartCapture, Press
    <3>5. QED
      BY <3>1, <3>2, <3>3, <3>4 DEF deviceVars, readVars, driverVars
  <2>3. CASE StopCapture
    BY <2>3, <2>c DEF StopCapture, Press, deviceVars, readVars, driverVars
  <2>4. CASE RestartCapture
    BY <2>4, <2>r, <1>s DEF RestartCapture, Press, deviceVars, readVars, driverVars
  <2>5. CASE RunScript
    BY <2>5, <2>o DEF RunScript, Press, deviceVars, readVars, driverVars
  <2>6. CASE DeliverStatus
    BY <2>6, <1>b DEF DeliverStatus, Deliver,
                deviceVars, readVars, driverVars, askVars
  <2>7. CASE IgnorePackets
    BY <2>7 DEF IgnorePackets, Deliver,
                deviceVars, readVars, driverVars, askVars
  <2>8. CASE LockAndCopy
    BY <2>8 DEF LockAndCopy, Deliver,
                deviceVars, readVars, driverVars, askVars
  <2>9. CASE ClearAndUnlock
    <3>1. taken' \in Seq(Packet)
      BY <2>9, ConcatProperties DEF ClearAndUnlock
    <3>3. list' \in Seq(Packet)
      BY <2>9, <1>s DEF ClearAndUnlock
    <3>4. result' \in Seq(Packet) /\ guiPc' \in {"idle", "locked", "showing"}
      BY <2>9, <1>s DEF ClearAndUnlock
    <3>2. QED
      BY <2>9, <3>1, <3>3, <3>4 DEF ClearAndUnlock, deviceVars, readVars, driverVars, askVars
  <2>9s. CASE ShowPacket
    <3>2. Head(result) \in Packet /\ result' \in Seq(Packet)
      BY <2>9s DEF ShowPacket
    <3>3. table' \in Seq(Packet)
      BY <2>9s, <3>2 DEF ShowPacket
    <3>4. QED
      BY <2>9s, <3>2, <3>3 DEF ShowPacket, deviceVars, readVars, driverVars, askVars
  <2>t. ASSUME NEW k \in Kinds, NewTimer(k) PROVE rxTimer' \in Timers /\ orphans' \in [Kinds -> Nat]
    BY <2>t DEF NewTimer
  <2>10. CASE StartReading
    BY <2>10, <2>t DEF StartReading, RunSlot, guiVars, readVars, askVars
  <2>11. CASE StartSending
    BY <2>11, <2>t DEF StartSending, RunSlot, guiVars, readVars, askVars
  <2>12. CASE StopReading
    <3>1. /\ events' \in Seq(Slots)
          /\ rxTimer' \in Timers
          /\ signals' \in Seq(Signals)
      BY <2>12 DEF StopReading, RunSlot
    <3>2. QED
      BY <2>12, <3>1 DEF StopReading, RunSlot, guiVars, readVars, askVars
  <2>13. CASE StopSending
    <3>1. /\ events' \in Seq(Slots)
          /\ rxTimer' \in Timers
          /\ signals' \in Seq(Signals)
      BY <2>13 DEF StopSending, RunSlot
    <3>2. QED
      BY <2>13, <3>1 DEF StopSending, RunSlot, guiVars, readVars, askVars
  <2>14. CASE BeginRead
    BY <2>14, <1>s DEF BeginRead, guiVars, deviceVars, askVars
  <2>15. CASE ReadByte
    <3>1. chunk' \in Seq(Word) /\ packetBuffer' \in Packet
      <4>1. Head(chunk) \in Word \ {Break}
        BY <2>15 DEF ReadByte, ReadStep
      <4>2. QED
        <5>1. chunk' = Tail(chunk) /\ chunk # <<>>
          BY <2>15 DEF ReadByte, ReadStep
        <5>2. packetBuffer' = Append(packetBuffer, Head(chunk))
          BY <2>15 DEF ReadByte
        <5>3. chunk' \in Seq(Word)
          BY <5>1
        <5>4. QED
          BY <4>1, <5>2, <5>3, <1>p
    <3>2. QED
      BY <2>15, <3>1 DEF ReadByte, ReadStep, guiVars, deviceVars, driverVars, askVars
  <2>16. CASE ReadBreak
    BY <2>16, <1>p DEF ReadBreak, ReadStep, guiVars, deviceVars, driverVars, askVars
  <2>17. CASE EndRead
    <3>1. signals' \in Seq(Signals)
      BY <2>17 DEF EndRead
    <3>2. QED
      BY <2>17, <3>1 DEF EndRead, guiVars, deviceVars, driverVars, askVars
  <2>18. CASE Arrive
    <3>1. raw' \in Seq(Word) /\ words' \in Nat /\ bytes' \in Nat
      <4>1. Break \in Word /\ bytes + 1 \in Word
        BY <1>e
      <4>2. CASE raw' = Append(raw, Break) /\ UNCHANGED bytes
        BY <4>1, <4>2, <2>18 DEF Arrive
      <4>3. CASE raw' = Append(raw, bytes + 1) /\ bytes' = bytes + 1
        BY <4>1, <4>3, <2>18 DEF Arrive
      <4>4. QED
        BY <4>2, <4>3, <2>18 DEF Arrive
    <3>2. QED
      BY <2>18, <3>1 DEF Arrive, guiVars, deviceVars, readVars, askVars
  <2>19. CASE UNCHANGED vars
    BY <2>19 DEF vars, guiVars, deviceVars, readVars, driverVars, askVars
  <2>20. QED
    BY <2>1, <2>2, <2>3, <2>4, <2>5, <2>6, <2>7, <2>8, <2>9, <2>9s, <2>10, <2>11,
       <2>12, <2>13, <2>14, <2>15, <2>16, <2>17, <2>18, <2>19
       DEF Next, User, Gui, PostedSlot, Read
<1>3. QED
  BY <1>1, <1>2, PTL DEF Spec

-----------------------------------------------------------------------------
\* Only the GUI thread holds the mutex over a step, and while it does the
\* list stays what getPackets copied.
THEOREM CopyCorrect == Spec => []CopyIsCurrent
<1>1. Init => CopyIsCurrent
  BY DEF Init, CopyIsCurrent
<1>2. CopyIsCurrent /\ [Next]_vars => CopyIsCurrent'
  <2> SUFFICES ASSUME CopyIsCurrent, [Next]_vars PROVE CopyIsCurrent'
    OBVIOUS
  <2> USE DEF CopyIsCurrent
  <2>1. CASE User
    BY <2>1 DEF User, ModeButton, StartCapture, StopCapture, RestartCapture,
                RunScript, Press
  <2>2. CASE DeliverStatus
    BY <2>2 DEF DeliverStatus
  <2>3. CASE IgnorePackets
    BY <2>3 DEF IgnorePackets
  <2>4. CASE LockAndCopy
    BY <2>4 DEF LockAndCopy
  <2>5. CASE ClearAndUnlock
    BY <2>5 DEF ClearAndUnlock
  <2>6. CASE ShowPacket
    BY <2>6 DEF ShowPacket
  <2>7. CASE PostedSlot
    BY <2>7 DEF PostedSlot, StartReading, StartSending, StopReading, StopSending,
                RunSlot, guiVars
  <2>8. CASE BeginRead \/ EndRead \/ Arrive
    BY <2>8 DEF BeginRead, EndRead, Arrive, readVars, guiVars
  <2>9. CASE ReadByte
    BY <2>9 DEF ReadByte, ReadStep, guiVars
  <2>10. CASE ReadBreak
    BY <2>10 DEF ReadBreak, ReadStep, guiVars
  <2>11. CASE UNCHANGED vars
    BY <2>11 DEF vars, guiVars
  <2>12. QED
    BY <2>1, <2>2, <2>3, <2>4, <2>5, <2>6, <2>7, <2>8, <2>9, <2>10, <2>11
       DEF Next, Gui, Read
<1>3. QED
  BY <1>1, <1>2, PTL DEF Spec

-----------------------------------------------------------------------------
\* The capture device implements the lossless, ordered hand-off of packets:
\* addPacket is a Put, the clear in getPackets a GetAll, and every other step
\* changes neither what was completed nor what was handed over.
THEOREM HandoffImplemented == Spec => ImplementsHandoff
<1>1. Init => Handoff!Init
  BY DEF Init, Handoff!Init
<1>2. TypeOK /\ CopyIsCurrent /\ [Next]_vars => [Handoff!Next]_(Handoff!vars)
  <2> SUFFICES ASSUME TypeOK, CopyIsCurrent, [Next]_vars
               PROVE  [Handoff!Next]_(Handoff!vars)
    OBVIOUS
  <2>t. list \in Seq(Packet) /\ taken \in Seq(Packet) /\ packetBuffer \in Packet
    BY DEF TypeOK
  <2>s. ASSUME UNCHANGED <<taken, list>> PROVE [Handoff!Next]_(Handoff!vars)
    BY <2>s DEF Handoff!vars
  <2>1. CASE ReadBreak
    <3>1. list' = Append(list, packetBuffer) /\ taken' = taken
      BY <2>1 DEF ReadBreak, ReadStep
    <3>2. (taken \o list)' = Append(taken \o list, packetBuffer)
      BY <3>1, <2>t, AppendConcat
    <3>3. taken \o list \in Seq(Packet)
      BY <2>t
    <3>4. Handoff!Put
      BY <3>1, <3>2, <3>3, <2>t DEF Handoff!Put
    <3>5. QED
      BY <3>4 DEF Handoff!Next
  <2>2. CASE ClearAndUnlock
    <3>1. result = list
      BY <2>2 DEF ClearAndUnlock, CopyIsCurrent
    <3>2. list' = <<>> /\ taken' = taken \o list
      BY <2>2, <3>1 DEF ClearAndUnlock
    <3>3. taken \o list \in Seq(Packet)
      BY <2>t
    <3>4. (taken \o list)' = taken \o list
      BY <3>2, <3>3
    <3>5. Handoff!GetAll
      BY <3>2, <3>4 DEF Handoff!GetAll
    <3>6. QED
      BY <3>5 DEF Handoff!Next
  <2>3. CASE User
    BY <2>3, <2>s DEF User, ModeButton, StartCapture, StopCapture, RestartCapture,
                      RunScript, Press
  <2>4. CASE DeliverStatus \/ IgnorePackets \/ LockAndCopy \/ ShowPacket
    BY <2>4, <2>s DEF DeliverStatus, IgnorePackets, LockAndCopy, ShowPacket
  <2>5. CASE PostedSlot
    BY <2>5, <2>s DEF PostedSlot, StartReading, StartSending, StopReading,
                      StopSending, RunSlot
  <2>6. CASE BeginRead \/ ReadByte \/ EndRead \/ Arrive
    BY <2>6, <2>s DEF BeginRead, ReadByte, ReadStep, EndRead, Arrive
  <2>7. CASE UNCHANGED vars
    BY <2>7, <2>s DEF vars
  <2>8. QED
    BY <2>1, <2>2, <2>3, <2>4, <2>5, <2>6, <2>7 DEF Next, Gui, Read
<1>3. QED
  BY <1>1, <1>2, TypeCorrect, CopyCorrect, PTL DEF Spec, ImplementsHandoff, Handoff!Spec

-----------------------------------------------------------------------------
\* A signal queued for the GUI is still queued after another is appended.
LEMMA PendingAfterAppend ==
  ASSUME NEW S, NEW q \in Seq(S), NEW e \in S, NEW x,
         \E i \in DOMAIN q : q[i] = x
  PROVE  \E i \in DOMAIN Append(q, e) : Append(q, e)[i] = x
  OBVIOUS

\* ... and after a different one is delivered.
LEMMA PendingAfterTail ==
  ASSUME NEW S, NEW q \in Seq(S), NEW x, q # <<>>, Head(q) # x,
         \E i \in DOMAIN q : q[i] = x
  PROVE  \E i \in DOMAIN Tail(q) : Tail(q)[i] = x
<1>1. PICK i \in DOMAIN q : q[i] = x
  OBVIOUS
<1>2. i > 1
  BY <1>1
<1>3. i - 1 \in DOMAIN Tail(q) /\ Tail(q)[i - 1] = x
  BY <1>1, <1>2
<1>4. QED
  BY <1>3

\* No lost wake-up: packets that the GUI has not been made to leave behind
\* always have a packetsReady coming for them.
THEOREM WakeupCorrect == Spec => []NoLostWakeup
<1> DEFINE Ready == \E i \in DOMAIN signals : signals[i] = "packetsReady"
<1>1. Init => NoLostWakeup
  BY DEF Init, NoLostWakeup
<1>2. TypeOK /\ NoLostWakeup /\ [Next]_vars => NoLostWakeup'
  <2> SUFFICES ASSUME TypeOK, NoLostWakeup, [Next]_vars PROVE NoLostWakeup'
    OBVIOUS
  <2>t. signals \in Seq(Signals)
    BY DEF TypeOK
  <2>e. Status \subseteq Signals /\ "packetsReady" \in Signals /\ "packetsReady" \notin Status
        /\ {"sniffing", "transmitting", "closed"} \subseteq Signals
    BY DEF Signals, Status
  <2>n. list # <<>> /\ ~ignored => reading \/ guiPc = "locked" \/ Ready
    BY DEF NoLostWakeup
  <2> SUFFICES list' # <<>> /\ ~ignored' => reading' \/ guiPc' = "locked" \/ Ready'
    BY DEF NoLostWakeup
  <2>1. CASE User
    BY <2>1, <2>n DEF User, ModeButton, StartCapture, StopCapture, RestartCapture,
                      RunScript, Press, readVars
  <2>2. CASE DeliverStatus
    <3>1. PICK s \in Status : Deliver(s)
      BY <2>2 DEF DeliverStatus
    <3>2. signals' = Tail(signals) /\ signals # <<>> /\ Head(signals) # "packetsReady"
      BY <3>1, <2>e DEF Deliver
    <3>3. Ready => Ready'
      BY <3>2, <2>t, PendingAfterTail
    <3>4. QED
      BY <2>2, <3>1, <3>3, <2>n DEF DeliverStatus, Deliver, readVars
  <2>3. CASE IgnorePackets
    BY <2>3, <2>n DEF IgnorePackets, Deliver, readVars
  <2>4. CASE LockAndCopy
    BY <2>4 DEF LockAndCopy
  <2>5. CASE ClearAndUnlock
    BY <2>5 DEF ClearAndUnlock
  <2>6. CASE ShowPacket
    BY <2>6, <2>n DEF ShowPacket, readVars
  <2>7. CASE PostedSlot
    <3>1. \/ signals' = signals
          \/ \E s \in {"sniffing", "transmitting", "closed"} : signals' = Append(signals, s)
      BY <2>7 DEF PostedSlot, StartReading, StartSending, StopReading, StopSending
    <3>2. Ready => Ready'
      BY <3>1, <2>t, <2>e, PendingAfterAppend
    <3>3. UNCHANGED <<list, ignored, reading, guiPc>>
      BY <2>7 DEF PostedSlot, StartReading, StartSending, StopReading, StopSending,
                  RunSlot, readVars, guiVars
    <3>4. QED
      BY <3>2, <3>3, <2>n
  <2>8. CASE BeginRead \/ ReadByte \/ ReadBreak
    BY <2>8 DEF BeginRead, ReadByte, ReadBreak, ReadStep
  <2>9. CASE EndRead
    <3>1. signals' = Append(signals, "packetsReady")
      BY <2>9 DEF EndRead
    <3>2. Ready'
      BY <3>1, <2>t, <2>e
    <3>3. QED
      BY <3>2
  <2>10. CASE Arrive
    BY <2>10, <2>n DEF Arrive, readVars, guiVars
  <2>11. CASE UNCHANGED vars
    BY <2>11, <2>n DEF vars, readVars, guiVars
  <2>12. QED
    BY <2>1, <2>2, <2>3, <2>4, <2>5, <2>6, <2>7, <2>8, <2>9, <2>10, <2>11
       DEF Next, Gui, Read
<1>3. QED
  BY <1>1, <1>2, TypeCorrect, PTL DEF Spec
-----------------------------------------------------------------------------
(* The worker's queue of posted slots.                                     *)

\* close posts its two slots together: they stay neighbours in the queue, of
\* which the worker may have run the first.
StopsPaired ==
  /\ \A i \in DOMAIN events :
       events[i] = "stopReading" => i + 1 \in DOMAIN events /\ events[i + 1] = "stopSending"
  /\ \A i \in DOMAIN events :
       events[i] = "stopSending" /\ i > 1 => events[i - 1] = "stopReading"

StartSlots == {"startReading", "startSending"}

\* The strengthening of ClosedIsQuiet.  A closed device, or one between its two
\* stop slots, is quiet.  While open was never called twice in a row, a start
\* slot comes after a stop or finds no timer, and after a close the last slot
\* posted is a stop or none is left and the timer is gone.
QuietInv ==
  /\ StopsPaired
  /\ ~deviceOpen \/ (events # <<>> /\ events[1] = "stopSending") =>
       ~receiving /\ rxTimer = "none"
  /\ ~overlapped =>
       /\ \A k \in Kinds : orphans[k] = 0
       /\ \A i \in DOMAIN events :
            events[i] \in StartSlots => IF i = 1 THEN rxTimer = "none"
                                                ELSE events[i - 1] = "stopSending"
       /\ requested = "close" =>
            IF events = <<>> THEN rxTimer = "none" ELSE events[Len(events)] = "stopSending"

\* What the worker's queue is after open.
LEMMA QueueAfterOpen ==
  ASSUME events \in Seq(Slots), NEW m, Open(m)
  PROVE  /\ events' \in Seq(Slots) /\ Len(events') = Len(events) + 1
         /\ \A i \in 1..Len(events) : events'[i] = events[i]
         /\ events'[Len(events) + 1] \in StartSlots
<1>1. StartSlot(m) \in StartSlots /\ StartSlot(m) \in Slots
  BY DEF StartSlot, StartSlots, Slots
<1>2. events' = Append(events, StartSlot(m))
  BY DEF Open
<1>3. QED
  BY <1>1, <1>2

\* What it is after close.
LEMMA QueueAfterClose ==
  ASSUME events \in Seq(Slots), Close
  PROVE  /\ events' \in Seq(Slots) /\ Len(events') = Len(events) + 2
         /\ \A i \in 1..Len(events) : events'[i] = events[i]
         /\ events'[Len(events) + 1] = "stopReading"
         /\ events'[Len(events) + 2] = "stopSending"
<1>1. events' = events \o <<"stopReading", "stopSending">>
  BY DEF Close, StopSlots
<1>2. <<"stopReading", "stopSending">> \in Seq(Slots)
  BY DEF Slots
<1>3. QED
  BY <1>1, <1>2

\* What it is after close and open.
LEMMA QueueAfterReopen ==
  ASSUME events \in Seq(Slots), NEW m, Reopen(m)
  PROVE  /\ events' \in Seq(Slots) /\ Len(events') = Len(events) + 3
         /\ \A i \in 1..Len(events) : events'[i] = events[i]
         /\ events'[Len(events) + 1] = "stopReading"
         /\ events'[Len(events) + 2] = "stopSending"
         /\ events'[Len(events) + 3] \in StartSlots
<1>1. StartSlot(m) \in StartSlots /\ StartSlot(m) \in Slots
  BY DEF StartSlot, StartSlots, Slots
<1> DEFINE stops == <<"stopReading", "stopSending">>
<1>2. events' = (events \o stops) \o <<StartSlot(m)>>
  BY DEF Reopen, StopSlots
<1>3. stops \in Seq(Slots) /\ Len(stops) = 2 /\ stops[1] = "stopReading" /\ stops[2] = "stopSending"
  BY DEF Slots
<1> HIDE DEF stops
<1>4. /\ events \o stops \in Seq(Slots) /\ Len(events \o stops) = Len(events) + 2
      /\ \A i \in 1..Len(events) : (events \o stops)[i] = events[i]
      /\ (events \o stops)[Len(events) + 1] = "stopReading"
      /\ (events \o stops)[Len(events) + 2] = "stopSending"
  <2>1. /\ events \o stops \in Seq(Slots) /\ Len(events \o stops) = Len(events) + Len(stops)
        /\ \A i \in 1..(Len(events) + Len(stops)) :
             (events \o stops)[i] = IF i <= Len(events) THEN events[i] ELSE stops[i - Len(events)]
    BY <1>3, ConcatProperties
  <2>2. Len(events) \in Nat
    OBVIOUS
  <2>3. /\ Len(events) + 1 - Len(events) = 1 /\ Len(events) + 2 - Len(events) = 2
        /\ Len(events) + 1 \in 1..(Len(events) + 2) /\ ~(Len(events) + 1 <= Len(events))
        /\ Len(events) + 2 \in 1..(Len(events) + 2) /\ ~(Len(events) + 2 <= Len(events))
        /\ \A i \in 1..Len(events) : i \in 1..(Len(events) + 2) /\ i <= Len(events)
    BY <2>2
  <2>4. QED
    BY <1>3, <2>1, <2>3
<1> DEFINE both == events \o stops
<1> HIDE DEF both
<1>5. /\ both \in Seq(Slots) /\ Len(both) = Len(events) + 2
      /\ \A i \in 1..Len(events) : both[i] = events[i]
      /\ both[Len(events) + 1] = "stopReading" /\ both[Len(events) + 2] = "stopSending"
  BY <1>4 DEF both
<1>6. events' = Append(both, StartSlot(m))
  BY <1>2, <1>5, <1>1 DEF both
<1>7. QED
  BY <1>1, <1>5, <1>6

\* What one of the user's buttons does to the queue, and what it leaves alone.
LEMMA UserPosts ==
  ASSUME User
  PROVE  /\ Close \/ (\E m : Open(m)) \/ (\E m : Reopen(m))
         /\ UNCHANGED <<deviceVars, receiving>>
<1>1. ASSUME NEW m \in OpModes, ModeButton(m)
      PROVE  Close \/ (\E n : Open(n)) \/ (\E n : Reopen(n))
  BY <1>1 DEF ModeButton, OpModes
<1>2. QED
  BY <1>1 DEF User, ModeButton, StartCapture, StopCapture, RestartCapture, RunScript,
              Press, driverVars

\* The queue after the worker has run its first slot.
LEMMA QueueAfterRun ==
  ASSUME events \in Seq(Slots), NEW s, RunSlot(s)
  PROVE  /\ events # <<>> /\ Len(events) > 0 /\ events[1] = s
         /\ events' \in Seq(Slots) /\ Len(events') = Len(events) - 1
         /\ \A i \in 1..(Len(events) - 1) : events'[i] = events[i + 1]
<1>1. events # <<>> /\ Head(events) = s /\ events' = Tail(events)
  BY DEF RunSlot
<1>2. QED
  BY <1>1

\* The queue of posted slots always has the shape QuietInv gives it.
LEMMA QuietInvCorrect == Spec => []QuietInv
<1>1. Init => QuietInv
  <2> SUFFICES ASSUME Init PROVE QuietInv
    OBVIOUS
  <2>1. events = <<>> /\ DOMAIN events = {}
    BY DEF Init
  <2>2. QED
    BY <2>1 DEF Init, QuietInv, StopsPaired
<1>2. TypeOK /\ QuietInv /\ [Next]_vars => QuietInv'
  <2> SUFFICES ASSUME TypeOK, QuietInv, [Next]_vars PROVE QuietInv'
    OBVIOUS
  <2>t. /\ events \in Seq(Slots) /\ deviceOpen \in BOOLEAN /\ receiving \in BOOLEAN
        /\ orphans \in [Kinds -> Nat] /\ rxTimer \in Timers
        /\ overlapped \in BOOLEAN /\ requested \in {"open", "close"}
    BY DEF TypeOK
  <2>n. DOMAIN events = 1..Len(events) /\ Len(events) \in Nat
        /\ (events = <<>> <=> Len(events) = 0)
    BY <2>t
  <2>l. \A q \in Seq(Slots) : DOMAIN q = 1..Len(q) /\ Len(q) \in Nat /\ (q = <<>> <=> Len(q) = 0)
    OBVIOUS
  <2>q. UNCHANGED <<events, deviceVars, receiving, requested, overlapped>> => QuietInv'
    BY DEF QuietInv, StopsPaired, deviceVars
  <2>1. CASE User
    <3>u. UNCHANGED <<deviceOpen, rxTimer, orphans, receiving>>
      BY <2>1, UserPosts DEF deviceVars
    <3>1. CASE \E m : Open(m)
      <4>1. PICK m : Open(m)
        BY <3>1
      <4>2. /\ events' \in Seq(Slots) /\ Len(events') = Len(events) + 1
            /\ \A i \in 1..Len(events) : events'[i] = events[i]
            /\ events'[Len(events) + 1] \in StartSlots
        BY <4>1, <2>t, QueueAfterOpen
      <4>3. requested' = "open" /\ overlapped' = (overlapped \/ requested = "open")
        BY <4>1 DEF Open
      <4>s. "stopReading" \notin StartSlots /\ "stopSending" \notin StartSlots
        BY DEF StartSlots
      <4>d. DOMAIN events' = 1..(Len(events) + 1) /\ events' # <<>>
        BY <4>2, <2>l
      <4>4. StopsPaired'
        BY <4>2, <4>d, <4>s, <2>n DEF QuietInv, StopsPaired
      <4>5. (~deviceOpen \/ (events # <<>> /\ events[1] = "stopSending") =>
               ~receiving /\ rxTimer = "none")'
        BY <4>2, <4>d, <4>s, <3>u, <2>n DEF QuietInv
      <4>6. ASSUME ~overlapped'
            PROVE  /\ \A k \in Kinds : orphans'[k] = 0
                   /\ \A i \in DOMAIN events' :
                        events'[i] \in StartSlots => IF i = 1 THEN rxTimer' = "none"
                                                       ELSE events'[i - 1] = "stopSending"
        <5>1. ~overlapped /\ requested = "close"
          BY <4>6, <4>3, <2>t
        <5>2. /\ \A k \in Kinds : orphans[k] = 0
              /\ \A i \in DOMAIN events :
                   events[i] \in StartSlots => IF i = 1 THEN rxTimer = "none"
                                                 ELSE events[i - 1] = "stopSending"
              /\ IF events = <<>> THEN rxTimer = "none" ELSE events[Len(events)] = "stopSending"
          BY <5>1 DEF QuietInv
        <5>3. QED
          BY <5>2, <4>2, <4>d, <3>u, <2>n
      <4>7. QED
        BY <4>3, <4>4, <4>5, <4>6 DEF QuietInv
    <3>2. CASE Close
      <4>2. /\ events' \in Seq(Slots) /\ Len(events') = Len(events) + 2
            /\ \A i \in 1..Len(events) : events'[i] = events[i]
            /\ events'[Len(events) + 1] = "stopReading"
            /\ events'[Len(events) + 2] = "stopSending"
        BY <3>2, <2>t, QueueAfterClose
      <4>3. overlapped' = overlapped
        BY <3>2 DEF Close
      <4>s. "stopReading" \notin StartSlots /\ "stopSending" \notin StartSlots
        BY DEF StartSlots
      <4>d. DOMAIN events' = 1..(Len(events) + 2) /\ events' # <<>>
        BY <4>2, <2>l
      <4>4. StopsPaired'
        BY <4>2, <4>d, <2>n DEF QuietInv, StopsPaired
      <4>5. (~deviceOpen \/ (events # <<>> /\ events[1] = "stopSending") =>
               ~receiving /\ rxTimer = "none")'
        BY <4>2, <4>d, <3>u, <2>n DEF QuietInv
      <4>6. ASSUME ~overlapped'
            PROVE  /\ \A k \in Kinds : orphans'[k] = 0
                   /\ \A i \in DOMAIN events' :
                        events'[i] \in StartSlots => IF i = 1 THEN rxTimer' = "none"
                                                       ELSE events'[i - 1] = "stopSending"
        BY <4>2, <4>3, <4>6, <4>d, <4>s, <3>u, <2>n DEF QuietInv
      <4>7. QED
        BY <4>2, <4>d, <4>4, <4>5, <4>6 DEF QuietInv
    <3>3. CASE \E m : Reopen(m)
      <4>1. PICK m : Reopen(m)
        BY <3>3
      <4>2. /\ events' \in Seq(Slots) /\ Len(events') = Len(events) + 3
            /\ \A i \in 1..Len(events) : events'[i] = events[i]
            /\ events'[Len(events) + 1] = "stopReading"
            /\ events'[Len(events) + 2] = "stopSending"
            /\ events'[Len(events) + 3] \in StartSlots
        BY <4>1, <2>t, QueueAfterReopen
      <4>3. requested' = "open" /\ overlapped' = overlapped
        BY <4>1 DEF Reopen
      <4>s. "stopReading" \notin StartSlots /\ "stopSending" \notin StartSlots
        BY DEF StartSlots
      <4>d. DOMAIN events' = 1..(Len(events) + 3) /\ events' # <<>>
        BY <4>2, <2>l
      <4>4. StopsPaired'
        BY <4>2, <4>d, <4>s, <2>n DEF QuietInv, StopsPaired
      <4>5. (~deviceOpen \/ (events # <<>> /\ events[1] = "stopSending") =>
               ~receiving /\ rxTimer = "none")'
        BY <4>2, <4>d, <3>u, <2>n DEF QuietInv
      <4>6. ASSUME ~overlapped'
            PROVE  /\ \A k \in Kinds : orphans'[k] = 0
                   /\ \A i \in DOMAIN events' :
                        events'[i] \in StartSlots => IF i = 1 THEN rxTimer' = "none"
                                                       ELSE events'[i - 1] = "stopSending"
        BY <4>2, <4>3, <4>6, <4>d, <4>s, <3>u, <2>n DEF QuietInv
      <4>7. QED
        BY <4>3, <4>4, <4>5, <4>6 DEF QuietInv
    <3>4. QED
      BY <2>1, <3>1, <3>2, <3>3, UserPosts
  <2>2. CASE DeliverStatus \/ IgnorePackets \/ LockAndCopy \/ ClearAndUnlock \/ ShowPacket
    BY <2>2, <2>q DEF DeliverStatus, IgnorePackets, LockAndCopy, ClearAndUnlock, ShowPacket,
                      Deliver, driverVars, askVars
  <2>3. CASE BeginRead \/ ReadByte \/ ReadBreak \/ EndRead \/ Arrive
    BY <2>3, <2>q DEF BeginRead, ReadByte, ReadBreak, ReadStep, EndRead, Arrive,
                      driverVars, askVars
  <2>r. ASSUME NEW s, RunSlot(s)
        PROVE  /\ StopsPaired'
               /\ events' # <<>> /\ events'[1] = "stopSending" => s = "stopReading"
               /\ ~overlapped' =>
                    /\ \A i \in DOMAIN events' :
                         events'[i] \in StartSlots => IF i = 1 THEN s = "stopSending"
                                                       ELSE events'[i - 1] = "stopSending"
                    /\ requested' = "close" =>
                         IF events' = <<>> THEN s = "stopSending"
                                           ELSE events'[Len(events')] = "stopSending"
    <3>1. /\ events # <<>> /\ Len(events) > 0 /\ events[1] = s
          /\ events' \in Seq(Slots) /\ Len(events') = Len(events) - 1
          /\ \A i \in 1..(Len(events) - 1) : events'[i] = events[i + 1]
      BY <2>r, <2>t, QueueAfterRun
    <3>2. DOMAIN events' = 1..(Len(events) - 1) /\ (events' = <<>> <=> Len(events) = 1)
      BY <3>1, <2>l, <2>n
    <3>3. requested' = requested /\ overlapped' = overlapped
      BY <2>r DEF RunSlot, askVars
    <3>4. StopsPaired'
      <4>1. \A i \in 1..(Len(events) - 1) :
               events'[i] = "stopReading" => i + 1 \in DOMAIN events' /\ events'[i + 1] = "stopSending"
        <5> SUFFICES ASSUME NEW i \in 1..(Len(events) - 1), events'[i] = "stopReading"
                     PROVE  i + 1 \in DOMAIN events' /\ events'[i + 1] = "stopSending"
          OBVIOUS
        <5>1. i + 1 \in DOMAIN events /\ events[i + 1] = "stopReading"
          BY <3>1, <2>n
        <5>2. i + 2 \in DOMAIN events /\ events[i + 2] = "stopSending"
          BY <5>1 DEF QuietInv, StopsPaired
        <5>3. QED
          BY <5>2, <3>1, <3>2, <2>n
      <4>2. \A i \in 1..(Len(events) - 1) :
               events'[i] = "stopSending" /\ i > 1 => events'[i - 1] = "stopReading"
        <5> SUFFICES ASSUME NEW i \in 1..(Len(events) - 1), events'[i] = "stopSending", i > 1
                     PROVE  events'[i - 1] = "stopReading"
          OBVIOUS
        <5>1. i + 1 \in DOMAIN events /\ events[i + 1] = "stopSending"
          BY <3>1, <2>n
        <5>2. events[i] = "stopReading"
          BY <5>1 DEF QuietInv, StopsPaired
        <5>3. QED
          BY <5>2, <3>1, <2>n
      <4>3. QED
        BY <4>1, <4>2, <3>2 DEF StopsPaired
    <3>5. ASSUME events' # <<>>, events'[1] = "stopSending" PROVE s = "stopReading"
      <4>1. 2 \in DOMAIN events /\ events[2] = "stopSending"
        BY <3>1, <3>2, <3>5, <2>n
      <4>2. events[1] = "stopReading"
        BY <4>1 DEF QuietInv, StopsPaired
      <4>3. QED
        BY <4>2, <3>1
    <3>6. ASSUME ~overlapped'
          PROVE  \A i \in DOMAIN events' :
                   events'[i] \in StartSlots => IF i = 1 THEN s = "stopSending"
                                                 ELSE events'[i - 1] = "stopSending"
      <4> SUFFICES ASSUME NEW i \in 1..(Len(events) - 1), events'[i] \in StartSlots
                   PROVE  IF i = 1 THEN s = "stopSending" ELSE events'[i - 1] = "stopSending"
        BY <3>2
      <4>1. i + 1 \in DOMAIN events /\ events[i + 1] \in StartSlots
        BY <3>1, <2>n
      <4>2. events[i] = "stopSending"
        BY <4>1, <3>3, <3>6 DEF QuietInv
      <4>3. QED
        BY <4>2, <3>1, <2>n
    <3>7. ASSUME ~overlapped', requested' = "close"
          PROVE  IF events' = <<>> THEN s = "stopSending"
                                   ELSE events'[Len(events')] = "stopSending"
      <4>1. events[Len(events)] = "stopSending"
        BY <3>1, <3>3, <3>7 DEF QuietInv
      <4>2. QED
        BY <4>1, <3>1, <3>2, <2>n
    <3>8. QED
      BY <3>4, <3>5, <3>6, <3>7
  <2>4. CASE StartReading \/ StartSending
    <3>1. PICK s \in StartSlots, k \in Kinds : RunSlot(s) /\ NewTimer(k) /\ deviceOpen' = TRUE
      BY <2>4 DEF StartReading, StartSending, StartSlots, Kinds
    <3>2. s # "stopReading" /\ s # "stopSending"
      BY DEF StartSlots
    <3>3. events # <<>> /\ 1 \in DOMAIN events /\ events[1] = s
      <4>1. events # <<>> /\ Len(events) > 0 /\ events[1] = s
        BY <3>1, <2>t, QueueAfterRun
      <4>2. QED
        BY <4>1, <2>n
    <3>4. ~overlapped' => \A j \in Kinds : orphans'[j] = 0
      <4> SUFFICES ASSUME ~overlapped' PROVE \A j \in Kinds : orphans'[j] = 0
        OBVIOUS
      <4>1. ~overlapped
        BY <3>1 DEF RunSlot, askVars
      <4>2. rxTimer = "none" /\ \A j \in Kinds : orphans[j] = 0
        BY <4>1, <3>3 DEF QuietInv
      <4>3. QED
        BY <4>2, <3>1 DEF NewTimer
    <3>5. QED
      BY <3>1, <3>2, <3>4, <2>r DEF QuietInv
  <2>5. CASE StopReading
    <3>1. RunSlot("stopReading") /\ receiving' = FALSE /\ rxTimer' = "none" /\ orphans' = orphans
      BY <2>5 DEF StopReading
    <3>2. overlapped' = overlapped
      BY <3>1 DEF RunSlot, askVars
    <3>3. QED
      BY <3>1, <3>2, <2>r DEF QuietInv
  <2>6. CASE StopSending
    <3>1. RunSlot("stopSending") /\ rxTimer' = "none" /\ deviceOpen' = FALSE
          /\ UNCHANGED <<orphans, receiving>>
      BY <2>6 DEF StopSending
    <3>2. overlapped' = overlapped
      BY <3>1 DEF RunSlot, askVars
    <3>3. ~receiving
      BY <3>1, <2>t, QueueAfterRun DEF QuietInv
    <3>4. QED
      BY <3>1, <3>2, <3>3, <2>r DEF QuietInv
  <2>7. CASE UNCHANGED vars
    BY <2>7, <2>q DEF vars, driverVars, askVars
  <2>8. QED
    BY <2>1, <2>2, <2>3, <2>4, <2>5, <2>6, <2>7 DEF Next, Gui, PostedSlot, Read
<1>3. QED
  BY <1>1, <1>2, TypeCorrect, PTL DEF Spec

\* A device that is closed with nothing posted neither receives nor has a
\* timer, and timers are lost only by opening twice in a row.
THEOREM QuietCorrect == Spec => []ClosedIsQuiet
<1>1. QuietInv => ClosedIsQuiet
  BY DEF QuietInv, ClosedIsQuiet
<1>2. QED
  BY <1>1, QuietInvCorrect, PTL

-----------------------------------------------------------------------------
(* The capture buttons.                                                    *)

\* What the status signals on their way say after one more signal is posted ...
LEMMA StatusAfterAppend ==
  ASSUME signals \in Seq(Signals), NEW e \in Signals, signals' = Append(signals, e)
  PROVE  /\ e \in Status => LastStatusPending(e)'
         /\ e \notin Status =>
              /\ NoStatusPending => NoStatusPending'
              /\ \A s : LastStatusPending(s) => LastStatusPending(s)'
<1>1. /\ DOMAIN signals = 1..Len(signals) /\ Len(signals) \in Nat
      /\ DOMAIN signals' = 1..(Len(signals) + 1)
      /\ \A i \in 1..Len(signals) : signals'[i] = signals[i]
      /\ signals'[Len(signals) + 1] = e
  OBVIOUS
<1>2. QED
  BY <1>1 DEF NoStatusPending, LastStatusPending

\* ... and after the first of them is delivered.
LEMMA StatusAfterTail ==
  ASSUME signals \in Seq(Signals), signals # <<>>, signals' = Tail(signals)
  PROVE  /\ NoStatusPending => Head(signals) \notin Status /\ NoStatusPending'
         /\ \A s : LastStatusPending(s) =>
              (Head(signals) = s /\ NoStatusPending') \/ LastStatusPending(s)'
<1>1. /\ DOMAIN signals = 1..Len(signals) /\ Len(signals) \in Nat \ {0}
      /\ DOMAIN signals' = 1..(Len(signals) - 1)
      /\ \A i \in 1..(Len(signals) - 1) : signals'[i] = signals[i + 1]
      /\ Head(signals) = signals[1]
  OBVIOUS
<1>2. NoStatusPending => Head(signals) \notin Status /\ NoStatusPending'
  BY <1>1 DEF NoStatusPending
<1>3. ASSUME NEW s, LastStatusPending(s)
      PROVE  (Head(signals) = s /\ NoStatusPending') \/ LastStatusPending(s)'
  <2>1. PICK i \in 1..Len(signals) :
          signals[i] = s /\ \A j \in 1..Len(signals) : j > i => signals[j] \notin Status
    BY <1>1, <1>3 DEF LastStatusPending
  <2>2. CASE i = 1
    BY <1>1, <2>1, <2>2 DEF NoStatusPending
  <2>3. CASE i > 1
    <3>1. i - 1 \in DOMAIN signals' /\ signals'[i - 1] = s
      BY <1>1, <2>1, <2>3
    <3>2. \A j \in DOMAIN signals' : j > i - 1 => signals'[j] \notin Status
      BY <1>1, <2>1
    <3>3. QED
      BY <3>1, <3>2 DEF LastStatusPending
  <2>4. QED
    BY <1>1, <2>2, <2>3
<1>4. QED
  BY <1>2, <1>3

\* With nothing left for the worker to run, the buttons show the device's
\* status or the last status on its way will make them: every slot that can be
\* the last of the queue emits the status it leaves.
THEOREM ButtonsCorrect == Spec => []ButtonsFollowDevice
<1>1. Init => ButtonsFollowDevice
  <2> SUFFICES ASSUME Init PROVE NoStatusPending /\ buttons = ButtonsAfter(DeviceStatus)
    BY DEF ButtonsFollowDevice
  <2>1. DOMAIN signals = {}
    BY DEF Init
  <2>2. DeviceStatus = "closed"
    BY DEF Init, DeviceStatus
  <2>3. QED
    BY <2>1, <2>2, ConstantsAssumption DEF Init, NoStatusPending, ButtonsAfter, ConstantsAssumption
<1>2. TypeOK /\ StopsPaired /\ ButtonsFollowDevice /\ [Next]_vars => ButtonsFollowDevice'
  <2> SUFFICES ASSUME TypeOK, StopsPaired, ButtonsFollowDevice, [Next]_vars, events' = <<>>
               PROVE  \/ NoStatusPending' /\ (buttons = ButtonsAfter(DeviceStatus))'
                      \/ LastStatusPending(DeviceStatus)'
    BY DEF ButtonsFollowDevice
  <2>t. signals \in Seq(Signals) /\ events \in Seq(Slots)
    BY DEF TypeOK
  <2>e. Status \subseteq Signals /\ "packetsReady" \in Signals /\ "packetsReady" \notin Status
        /\ {"sniffing", "transmitting", "closed"} \subseteq Status
    BY DEF Signals, Status
  <2>b. events = <<>> => \/ NoStatusPending /\ buttons = ButtonsAfter(DeviceStatus)
                         \/ LastStatusPending(DeviceStatus)
    BY DEF ButtonsFollowDevice
  <2>d. UNCHANGED deviceVars => DeviceStatus' = DeviceStatus
    BY DEF deviceVars, DeviceStatus
  <2>1. ASSUME User PROVE FALSE
    <3>1. Close \/ (\E m : Open(m)) \/ (\E m : Reopen(m))
      BY <2>1, UserPosts
    <3>2. events' \in Seq(Slots) /\ Len(events') > 0
      <4>1. Len(events) \in Nat
        BY <2>t
      <4>2. QED
        BY <3>1, <4>1, <2>t, QueueAfterOpen, QueueAfterClose, QueueAfterReopen
    <3>3. QED
      BY <3>2
  <2>2. CASE DeliverStatus
    <3>1. PICK s \in Status : Deliver(s) /\ buttons' = ButtonsAfter(s)
      BY <2>2 DEF DeliverStatus
    <3>2. signals # <<>> /\ Head(signals) = s /\ signals' = Tail(signals)
          /\ UNCHANGED <<deviceVars, events>>
      BY <3>1 DEF Deliver
    <3>3. LastStatusPending(DeviceStatus)
      BY <3>2, <2>b, <2>t, StatusAfterTail
    <3>4. \/ s = DeviceStatus /\ NoStatusPending'
          \/ \E x : x = DeviceStatus /\ LastStatusPending(x)'
      BY <3>2, <3>3, <2>t, StatusAfterTail
    <3>5. QED
      BY <3>1, <3>2, <3>4, <2>d DEF LastStatusPending, ButtonsAfter
  <2>3. CASE IgnorePackets \/ LockAndCopy
    <3>1. Deliver("packetsReady") /\ buttons' = buttons
      BY <2>3 DEF IgnorePackets, LockAndCopy
    <3>2. signals # <<>> /\ Head(signals) = "packetsReady" /\ signals' = Tail(signals)
          /\ UNCHANGED <<deviceVars, events>>
      BY <3>1 DEF Deliver
    <3>3. NoStatusPending => NoStatusPending'
      BY <3>2, <2>t, StatusAfterTail
    <3>4. DeviceStatus \in Status
      BY DEF DeviceStatus, Status
    <3>5. LastStatusPending(DeviceStatus) => \E x : x = DeviceStatus /\ LastStatusPending(x)'
      BY <3>2, <3>4, <2>t, <2>e, StatusAfterTail
    <3>6. QED
      BY <3>1, <3>2, <3>3, <3>5, <2>b, <2>d DEF LastStatusPending, ButtonsAfter
  <2>4. CASE EndRead
    <3>1. signals' = Append(signals, "packetsReady")
          /\ UNCHANGED <<deviceVars, events, buttons>>
      BY <2>4 DEF EndRead, guiVars
    <3>2. NoStatusPending => NoStatusPending'
      BY <3>1, <2>t, <2>e, StatusAfterAppend
    <3>3. LastStatusPending(DeviceStatus) => \E x : x = DeviceStatus /\ LastStatusPending(x)'
      BY <3>1, <2>t, <2>e, StatusAfterAppend
    <3>4. QED
      BY <3>1, <3>2, <3>3, <2>b, <2>d DEF LastStatusPending, ButtonsAfter
  <2>5. CASE ClearAndUnlock \/ ShowPacket \/ BeginRead \/ ReadByte \/ ReadBreak \/ Arrive
             \/ UNCHANGED vars
    <3>1. UNCHANGED <<signals, deviceVars, events, buttons>>
      BY <2>5 DEF ClearAndUnlock, ShowPacket, BeginRead, ReadByte, ReadBreak, ReadStep,
                  Arrive, vars, guiVars
    <3>2. QED
      BY <3>1, <2>b, <2>d DEF LastStatusPending, NoStatusPending, ButtonsAfter
  <2>6. CASE StartReading \/ StartSending \/ StopSending
    <3>1. signals' = Append(signals, DeviceStatus') /\ DeviceStatus' \in Status
      BY <2>6 DEF StartReading, StartSending, StopSending, NewTimer, DeviceStatus, Status
    <3>2. \E x : x = DeviceStatus' /\ LastStatusPending(x)'
      BY <3>1, <2>t, <2>e, StatusAfterAppend
    <3>3. QED
      BY <3>2 DEF LastStatusPending
  <2>7. ASSUME StopReading PROVE FALSE
    <3>1. RunSlot("stopReading")
      BY <2>7 DEF StopReading
    <3>2. /\ Len(events) > 0 /\ events[1] = "stopReading" /\ events' \in Seq(Slots)
          /\ Len(events') = Len(events) - 1
      BY <3>1, <2>t, QueueAfterRun
    <3>3. DOMAIN events = 1..Len(events) /\ Len(events) \in Nat
      BY <2>t
    <3>4. 2 \in DOMAIN events
      <4>1. 1 \in DOMAIN events
        BY <3>2, <3>3
      <4>2. 1 + 1 \in DOMAIN events
        BY <3>2, <4>1 DEF StopsPaired
      <4>3. QED
        BY <4>2
    <3>5. QED
      BY <3>2, <3>3, <3>4
  <2>8. QED
    BY <2>1, <2>2, <2>3, <2>4, <2>5, <2>6, <2>7 DEF Next, Gui, PostedSlot, Read
<1>3. QuietInv => StopsPaired
  BY DEF QuietInv
<1>4. QED
  BY <1>1, <1>2, <1>3, TypeCorrect, QuietInvCorrect, PTL DEF Spec

-----------------------------------------------------------------------------
(* The bytes on their way.                                                 *)

\* A stream holds the bytes up to n: each is somewhere, nothing else is, and
\* later places hold greater bytes.
InOrder(s, n) ==
  /\ \A p \in DOMAIN s : \A i \in DOMAIN s[p] : s[p][i] # Break => s[p][i] \in 1..n
  /\ \A b \in 1..n : \E p \in DOMAIN s : \E i \in DOMAIN s[p] : s[p][i] = b
  /\ Rising(s)

\* This is what BytesInOrder says, without the sets of values.
LEMMA InOrderMeans ==
  ASSUME NEW s, NEW n \in Nat
  PROVE  InOrder(s, n) <=>
           /\ (UNION {Range(s[p]) : p \in DOMAIN s}) \ {Break} = 1..n
           /\ Rising(s)
<1>1. Break \notin 1..n
  BY DEF Break
<1>2. ASSUME NEW b
      PROVE  b \in (UNION {Range(s[p]) : p \in DOMAIN s}) \ {Break}
               <=> b # Break /\ \E p \in DOMAIN s : \E i \in DOMAIN s[p] : s[p][i] = b
  <2>1. b \in UNION {Range(s[p]) : p \in DOMAIN s} <=> \E p \in DOMAIN s : b \in Range(s[p])
    OBVIOUS
  <2>2. \A p \in DOMAIN s : b \in Range(s[p]) <=> \E i \in DOMAIN s[p] : s[p][i] = b
    BY DEF Range
  <2>. QED
    BY <2>1, <2>2
<1>. DEFINE V == (UNION {Range(s[p]) : p \in DOMAIN s}) \ {Break}
<1>3. \A b : b \in V <=> b # Break /\ \E p \in DOMAIN s : \E i \in DOMAIN s[p] : s[p][i] = b
  BY <1>2
<1>. HIDE DEF V
<1>. DEFINE Mean == /\ \A p \in DOMAIN s : \A i \in DOMAIN s[p] : s[p][i] # Break => s[p][i] \in 1..n
                    /\ \A b \in 1..n : \E p \in DOMAIN s : \E i \in DOMAIN s[p] : s[p][i] = b
<1>4. ASSUME V = 1..n PROVE Mean
  BY <1>3, <1>4, Zenon
<1>5. ASSUME Mean PROVE V = 1..n
  <2>1. ASSUME NEW b \in V PROVE b \in 1..n
    BY <1>3, <1>5, <2>1
  <2>2. ASSUME NEW b \in 1..n PROVE b \in V
    <3>1. b # Break
      BY <1>1, <2>2
    <3>. QED
      BY <1>3, <1>5, <2>2, <3>1
  <2>. QED
    BY <2>1, <2>2
<1>6. QED
  BY <1>4, <1>5, Zenon DEF InOrder, V

\* Every place of stream t has the value of a place of stream s, part P[p][i] and
\* index I[p][i], the places come in the same order there, and no byte of s is
\* left behind.
Rearranges(s, t, P, I) ==
  /\ \A p \in DOMAIN t : \A i \in DOMAIN t[p] :
       /\ P[p][i] \in DOMAIN s /\ I[p][i] \in DOMAIN s[P[p][i]]
       /\ s[P[p][i]][I[p][i]] = t[p][i]
  /\ \A p \in DOMAIN t : \A q \in DOMAIN t : \A i \in DOMAIN t[p] : \A j \in DOMAIN t[q] :
       p < q \/ (p = q /\ i < j) =>
         P[p][i] < P[q][j] \/ (P[p][i] = P[q][j] /\ I[p][i] < I[q][j])
  /\ \A p \in DOMAIN s : \A i \in DOMAIN s[p] :
       s[p][i] # Break => \E q \in DOMAIN t : \E j \in DOMAIN t[q] : t[q][j] = s[p][i]

\* A stream keeps its bytes and their order in such a move.
LEMMA OrderKept ==
  ASSUME NEW s, NEW t, NEW n \in Nat, NEW P, NEW I,
         Rearranges(s, t, P, I), InOrder(s, n)
  PROVE  InOrder(t, n)
<1>1. ASSUME NEW p \in DOMAIN t, NEW i \in DOMAIN t[p]
      PROVE  P[p][i] \in DOMAIN s /\ I[p][i] \in DOMAIN s[P[p][i]] /\ s[P[p][i]][I[p][i]] = t[p][i]
  BY <1>1 DEF Rearranges
<1>2. Rising(t)
  <2>. SUFFICES ASSUME NEW p \in DOMAIN t, NEW q \in DOMAIN t, NEW i \in DOMAIN t[p], NEW j \in DOMAIN t[q],
                       p < q \/ (p = q /\ i < j), t[p][i] # Break, t[q][j] # Break
                PROVE  t[p][i] < t[q][j]
    BY Zenon DEF Rising
  <2>1. P[p][i] < P[q][j] \/ (P[p][i] = P[q][j] /\ I[p][i] < I[q][j])
    BY DEF Rearranges
  <2>2. Rising(s)
    BY DEF InOrder
  <2>3. /\ P[p][i] \in DOMAIN s /\ I[p][i] \in DOMAIN s[P[p][i]] /\ s[P[p][i]][I[p][i]] = t[p][i]
        /\ P[q][j] \in DOMAIN s /\ I[q][j] \in DOMAIN s[P[q][j]] /\ s[P[q][j]][I[q][j]] = t[q][j]
    BY <1>1
  <2>4. QED
    BY <2>1, <2>2, <2>3, Zenon DEF Rising
<1>3. \A p \in DOMAIN t : \A i \in DOMAIN t[p] : t[p][i] # Break => t[p][i] \in 1..n
  <2>1. \A p \in DOMAIN s : \A i \in DOMAIN s[p] : s[p][i] # Break => s[p][i] \in 1..n
    BY DEF InOrder
  <2>. TAKE p \in DOMAIN t
  <2>. TAKE i \in DOMAIN t[p]
  <2>. HAVE t[p][i] # Break
  <2>. QED
    BY <1>1, <2>1
<1>4. \A b \in 1..n : \E p \in DOMAIN t : \E i \in DOMAIN t[p] : t[p][i] = b
  <2>. TAKE b \in 1..n
  <2>1. PICK p \in DOMAIN s : \E i \in DOMAIN s[p] : s[p][i] = b
    BY DEF InOrder
  <2>2. PICK i \in DOMAIN s[p] : s[p][i] = b
    BY <2>1
  <2>3. s[p][i] # Break
    BY <2>2 DEF Break
  <2>4. \E q \in DOMAIN t : \E j \in DOMAIN t[q] : t[q][j] = s[p][i]
    BY <2>3 DEF Rearranges
  <2>. QED
    BY <2>2, <2>4
<1>5. QED
  BY <1>2, <1>3, <1>4 DEF InOrder

\* Stream t is stream s, of L packets, m bytes in the packet being built and k
\* words to read, after the first of those words was added to that packet.
ByteMoved(s, t, L, m, k) ==
  /\ DOMAIN s = 1..(L + 2) /\ DOMAIN t = 1..(L + 2)
  /\ \A p \in 1..L : t[p] = s[p] /\ DOMAIN s[p] \subseteq Nat
  /\ DOMAIN s[L + 1] = 1..m /\ DOMAIN t[L + 1] = 1..(m + 1)
  /\ \A i \in 1..m : t[L + 1][i] = s[L + 1][i]
  /\ DOMAIN s[L + 2] = 1..k /\ DOMAIN t[L + 2] = 1..(k - 1)
  /\ t[L + 1][m + 1] = s[L + 2][1]
  /\ \A i \in 1..(k - 1) : t[L + 2][i] = s[L + 2][i + 1]

\* Stream t is stream s after the packet being built went to the list, leaving
\* an empty one, and the break that ended it was read.
PacketMoved(s, t, L, k) ==
  /\ DOMAIN s = 1..(L + 2) /\ DOMAIN t = 1..(L + 3)
  /\ \A p \in 1..(L + 1) : t[p] = s[p]
  /\ DOMAIN t[L + 2] = {}
  /\ DOMAIN s[L + 2] = 1..k /\ DOMAIN t[L + 3] = 1..(k - 1)
  /\ s[L + 2][1] = Break
  /\ \A i \in 1..(k - 1) : t[L + 3][i] = s[L + 2][i + 1]

\* Stream t is stream s after word w has come in.
WordAdded(s, t, L, k, w) ==
  /\ DOMAIN s = 1..(L + 2) /\ DOMAIN t = 1..(L + 2)
  /\ \A p \in 1..(L + 1) : t[p] = s[p]
  /\ DOMAIN s[L + 2] = 1..k /\ DOMAIN t[L + 2] = 1..(k + 1)
  /\ \A i \in 1..k : t[L + 2][i] = s[L + 2][i]
  /\ t[L + 2][k + 1] = w

\* Where the byte at place i of part p came from in the first of these moves.
PartBefore(L, m, p, i)  == IF p = L + 1 /\ i = m + 1 THEN L + 2 ELSE p
PlaceBefore(L, m, p, i) == IF p = L + 1 /\ i = m + 1 THEN 1
                           ELSE IF p = L + 2 THEN i + 1 ELSE i

\* The places come in the same order there.
LEMMA OrderBefore ==
  ASSUME NEW L \in Nat, NEW m \in Nat,
         NEW p \in 1..(L + 2), NEW q \in 1..(L + 2), NEW i \in Nat, NEW j \in Nat,
         p = L + 1 => i <= m + 1, q = L + 1 => j <= m + 1, q = L + 2 => j >= 1,
         p < q \/ (p = q /\ i < j)
  PROVE  \/ PartBefore(L, m, p, i) < PartBefore(L, m, q, j)
         \/ /\ PartBefore(L, m, p, i) = PartBefore(L, m, q, j)
            /\ PlaceBefore(L, m, p, i) < PlaceBefore(L, m, q, j)
  BY DEF PartBefore, PlaceBefore

\* Bytes keep their order when one is added to the packet being built.
LEMMA ByteMoveKept ==
  ASSUME NEW s, NEW t, NEW n \in Nat, NEW L \in Nat, NEW m \in Nat, NEW k \in Nat \ {0},
         ByteMoved(s, t, L, m, k), InOrder(s, n)
  PROVE  InOrder(t, n)
<1>. DEFINE P == [p \in Nat |-> [i \in Nat |-> PartBefore(L, m, p, i)]]
            I == [p \in Nat |-> [i \in Nat |-> PlaceBefore(L, m, p, i)]]
<1>1. \A p \in Nat : \A i \in Nat : P[p][i] = PartBefore(L, m, p, i) /\ I[p][i] = PlaceBefore(L, m, p, i)
  OBVIOUS
<1>. HIDE DEF P, I
<1>2. ASSUME NEW p \in DOMAIN t
      PROVE  p \in Nat /\ p \in 1..(L + 2) /\ (p \in 1..L \/ p = L + 1 \/ p = L + 2)
  <2>1. p \in 1..(L + 2)
    BY <1>2 DEF ByteMoved
  <2>. QED
    BY <2>1
<1>3. ASSUME NEW p \in DOMAIN t, NEW i \in DOMAIN t[p]
      PROVE  i \in Nat /\ (p = L + 1 => i \in 1..m \/ i = m + 1) /\ (p = L + 2 => i \in 1..(k - 1))
  <2>1. CASE p \in 1..L
    BY <1>3, <2>1 DEF ByteMoved
  <2>2. CASE p = L + 1
    <3>1. i \in 1..(m + 1)
      BY <1>3, <2>2 DEF ByteMoved
    <3>. QED
      BY <2>2, <3>1
  <2>3. CASE p = L + 2
    <3>1. i \in 1..(k - 1)
      BY <1>3, <2>3 DEF ByteMoved
    <3>. QED
      BY <2>3, <3>1
  <2>. QED
    BY <1>2, <1>3, <2>1, <2>2, <2>3
<1>4. ASSUME NEW p \in DOMAIN t, NEW i \in DOMAIN t[p]
      PROVE  P[p][i] \in DOMAIN s /\ I[p][i] \in DOMAIN s[P[p][i]] /\ s[P[p][i]][I[p][i]] = t[p][i]
  <2>0. p \in Nat /\ i \in Nat
    BY <1>2, <1>3, <1>4
  <2>1. CASE p \in 1..L \/ (p = L + 1 /\ i \in 1..m)
    <3>1. PartBefore(L, m, p, i) = p /\ PlaceBefore(L, m, p, i) = i
      BY <2>0, <2>1 DEF PartBefore, PlaceBefore
    <3>2. P[p][i] = p /\ I[p][i] = i
      BY <1>1, <2>0, <3>1
    <3>3. p \in DOMAIN s /\ i \in DOMAIN s[p] /\ s[p][i] = t[p][i]
      BY <1>4, <2>1 DEF ByteMoved
    <3>. QED
      BY <3>2, <3>3
  <2>2. CASE p = L + 1 /\ i = m + 1
    <3>1. P[p][i] = L + 2 /\ I[p][i] = 1
      BY <1>1, <2>0, <2>2 DEF PartBefore, PlaceBefore
    <3>2. L + 2 \in DOMAIN s /\ 1 \in DOMAIN s[L + 2] /\ s[L + 2][1] = t[p][i]
      BY <2>2 DEF ByteMoved
    <3>. QED
      BY <3>1, <3>2
  <2>3. CASE p = L + 2
    <3>1. P[p][i] = L + 2 /\ I[p][i] = i + 1
      BY <1>1, <2>0, <2>3 DEF PartBefore, PlaceBefore
    <3>2. i \in 1..(k - 1)
      BY <1>3, <1>4, <2>3
    <3>3. L + 2 \in DOMAIN s /\ i + 1 \in DOMAIN s[L + 2] /\ s[L + 2][i + 1] = t[p][i]
      BY <2>3, <3>2 DEF ByteMoved
    <3>. QED
      BY <3>1, <3>3
  <2>. QED
    BY <1>2, <1>3, <1>4, <2>1, <2>2, <2>3
<1>5. ASSUME NEW p \in DOMAIN t, NEW q \in DOMAIN t, NEW i \in DOMAIN t[p], NEW j \in DOMAIN t[q],
             p < q \/ (p = q /\ i < j)
      PROVE  P[p][i] < P[q][j] \/ (P[p][i] = P[q][j] /\ I[p][i] < I[q][j])
  <2>1. p \in 1..(L + 2) /\ q \in 1..(L + 2) /\ i \in Nat /\ j \in Nat /\ p \in Nat /\ q \in Nat
    BY <1>2, <1>3, <1>5
  <2>2. (p = L + 1 => i <= m + 1) /\ (q = L + 1 => j <= m + 1) /\ (q = L + 2 => j >= 1)
    BY <1>3, <1>5
  <2>3. \/ PartBefore(L, m, p, i) < PartBefore(L, m, q, j)
        \/ /\ PartBefore(L, m, p, i) = PartBefore(L, m, q, j)
           /\ PlaceBefore(L, m, p, i) < PlaceBefore(L, m, q, j)
    BY <1>5, <2>1, <2>2, OrderBefore
  <2>. QED
    BY <1>1, <2>1, <2>3
<1>6. ASSUME NEW p \in DOMAIN s, NEW i \in DOMAIN s[p]
      PROVE  \E q \in DOMAIN t : \E j \in DOMAIN t[q] : t[q][j] = s[p][i]
  <2>0. p \in 1..L \/ p = L + 1 \/ p = L + 2
    <3>1. p \in 1..(L + 2)
      BY <1>6 DEF ByteMoved
    <3>. QED
      BY <3>1
  <2>1. CASE p \in 1..L \/ p = L + 1
    <3>1. p \in DOMAIN t /\ i \in DOMAIN t[p] /\ t[p][i] = s[p][i]
      BY <1>6, <2>1 DEF ByteMoved
    <3>. QED
      BY <3>1
  <2>2. CASE p = L + 2 /\ i = 1
    <3>1. L + 1 \in DOMAIN t /\ m + 1 \in DOMAIN t[L + 1] /\ t[L + 1][m + 1] = s[p][i]
      BY <2>2 DEF ByteMoved
    <3>. QED
      BY <3>1
  <2>3. CASE p = L + 2 /\ i # 1
    <3>1. i - 1 \in 1..(k - 1)
      BY <1>6, <2>3 DEF ByteMoved
    <3>2. L + 2 \in DOMAIN t /\ i - 1 \in DOMAIN t[L + 2] /\ t[L + 2][i - 1] = s[p][i]
      BY <2>3, <3>1 DEF ByteMoved
    <3>. QED
      BY <3>2
  <2>. QED
    BY <2>0, <2>1, <2>2, <2>3
<1>7. Rearranges(s, t, P, I)
  BY <1>4, <1>5, <1>6 DEF Rearranges
<1>8. QED
  BY <1>7, OrderKept

\* ... when the packet being built is completed ...
LEMMA PacketMoveKept ==
  ASSUME NEW s, NEW t, NEW n \in Nat, NEW L \in Nat, NEW k \in Nat \ {0},
         PacketMoved(s, t, L, k), InOrder(s, n)
  PROVE  InOrder(t, n)
<1>. DEFINE P == [p \in Nat |-> [i \in DOMAIN t[p] |-> IF p = L + 3 THEN L + 2 ELSE p]]
            I == [p \in Nat |-> [i \in DOMAIN t[p] |-> IF p = L + 3 THEN i + 1 ELSE i]]
<1>1. \A p \in Nat : \A i \in DOMAIN t[p] :
        /\ P[p][i] = IF p = L + 3 THEN L + 2 ELSE p
        /\ I[p][i] = IF p = L + 3 THEN i + 1 ELSE i
  OBVIOUS
<1>. HIDE DEF P, I
<1>2. ASSUME NEW p \in DOMAIN t, NEW i \in DOMAIN t[p]
      PROVE  \/ p \in 1..(L + 1) /\ P[p][i] = p /\ I[p][i] = i
             \/ p = L + 3 /\ i \in 1..(k - 1) /\ P[p][i] = L + 2 /\ I[p][i] = i + 1
  <2>1. p \in 1..(L + 3) /\ p # L + 2
    BY <1>2 DEF PacketMoved
  <2>2. p \in Nat /\ (p \in 1..(L + 1) \/ p = L + 3)
    BY <2>1
  <2>3. CASE p \in 1..(L + 1)
    <3>1. p # L + 3
      BY <2>3
    <3>. QED
      BY <1>1, <1>2, <2>2, <2>3, <3>1
  <2>4. CASE p = L + 3
    <3>1. i \in 1..(k - 1)
      BY <1>2, <2>4 DEF PacketMoved
    <3>. QED
      BY <1>1, <1>2, <2>2, <2>4, <3>1
  <2>. QED
    BY <2>2, <2>3, <2>4
<1>3. ASSUME NEW p \in DOMAIN t, NEW i \in DOMAIN t[p]
      PROVE  P[p][i] \in DOMAIN s /\ I[p][i] \in DOMAIN s[P[p][i]] /\ s[P[p][i]][I[p][i]] = t[p][i]
  <2>1. CASE p \in 1..(L + 1) /\ P[p][i] = p /\ I[p][i] = i
    BY <1>3, <2>1 DEF PacketMoved
  <2>2. CASE p = L + 3 /\ i \in 1..(k - 1) /\ P[p][i] = L + 2 /\ I[p][i] = i + 1
    <3>1. L + 2 \in DOMAIN s /\ i + 1 \in DOMAIN s[L + 2] /\ s[L + 2][i + 1] = t[p][i]
      BY <2>2 DEF PacketMoved
    <3>. QED
      BY <2>2, <3>1
  <2>. QED
    BY <1>2, <1>3, <2>1, <2>2
<1>4. ASSUME NEW p \in DOMAIN t, NEW q \in DOMAIN t, NEW i \in DOMAIN t[p], NEW j \in DOMAIN t[q],
             p < q \/ (p = q /\ i < j)
      PROVE  P[p][i] < P[q][j] \/ (P[p][i] = P[q][j] /\ I[p][i] < I[q][j])
  <2>1. \/ p \in 1..(L + 1) /\ P[p][i] = p /\ I[p][i] = i
        \/ p = L + 3 /\ i \in 1..(k - 1) /\ P[p][i] = L + 2 /\ I[p][i] = i + 1
    BY <1>2, <1>4
  <2>2. \/ q \in 1..(L + 1) /\ P[q][j] = q /\ I[q][j] = j
        \/ q = L + 3 /\ j \in 1..(k - 1) /\ P[q][j] = L + 2 /\ I[q][j] = j + 1
    BY <1>2, <1>4
  <2>. QED
    BY <1>4, <2>1, <2>2
<1>5. ASSUME NEW p \in DOMAIN s, NEW i \in DOMAIN s[p], s[p][i] # Break
      PROVE  \E q \in DOMAIN t : \E j \in DOMAIN t[q] : t[q][j] = s[p][i]
  <2>1. p \in 1..(L + 1) \/ p = L + 2
    <3>1. p \in 1..(L + 2)
      BY <1>5 DEF PacketMoved
    <3>. QED
      BY <3>1
  <2>2. CASE p \in 1..(L + 1)
    <3>1. p \in DOMAIN t /\ t[p] = s[p]
      BY <2>2 DEF PacketMoved
    <3>. QED
      BY <1>5, <3>1
  <2>3. CASE p = L + 2
    <3>1. i \in 1..k /\ i # 1
      BY <1>5, <2>3 DEF PacketMoved
    <3>2. i - 1 \in 1..(k - 1)
      BY <3>1
    <3>3. L + 3 \in DOMAIN t /\ i - 1 \in DOMAIN t[L + 3] /\ t[L + 3][i - 1] = s[p][i]
      BY <2>3, <3>1, <3>2 DEF PacketMoved
    <3>. QED
      BY <3>3
  <2>. QED
    BY <2>1, <2>2, <2>3
<1>6. Rearranges(s, t, P, I)
  BY <1>3, <1>4, <1>5 DEF Rearranges
<1>7. QED
  BY <1>6, OrderKept

\* ... and when a break, or the next byte, arrives.
LEMMA ArrivalKept ==
  ASSUME NEW s, NEW t, NEW n \in Nat, NEW m \in Nat, NEW w \in Word, NEW L \in Nat, NEW k \in Nat,
         (w = Break /\ m = n) \/ (w = n + 1 /\ m = n + 1),
         WordAdded(s, t, L, k, w), InOrder(s, n)
  PROVE  InOrder(t, m)
<1>0. DOMAIN s = DOMAIN t
  BY DEF WordAdded
<1>1. ASSUME NEW p \in DOMAIN t, NEW i \in DOMAIN t[p]
      PROVE  \/ i \in DOMAIN s[p] /\ s[p][i] = t[p][i]
             \/ p = L + 2 /\ i = k + 1 /\ t[p][i] = w
  <2>1. p \in 1..(L + 1) \/ p = L + 2
    <3>1. p \in 1..(L + 2)
      BY <1>1 DEF WordAdded
    <3>. QED
      BY <3>1
  <2>2. CASE p \in 1..(L + 1)
    BY <1>1, <2>2 DEF WordAdded
  <2>3. CASE p = L + 2
    <3>1. i \in 1..(k + 1)
      BY <1>1, <2>3 DEF WordAdded
    <3>2. i \in 1..k \/ i = k + 1
      BY <3>1
    <3>. QED
      BY <2>3, <3>2 DEF WordAdded
  <2>. QED
    BY <2>1, <2>2, <2>3
<1>2. ASSUME NEW p \in DOMAIN s, NEW i \in DOMAIN s[p]
      PROVE  i \in DOMAIN t[p] /\ t[p][i] = s[p][i]
  <2>1. p \in 1..(L + 1) \/ p = L + 2
    <3>1. p \in 1..(L + 2)
      BY <1>2 DEF WordAdded
    <3>. QED
      BY <3>1
  <2>2. CASE p \in 1..(L + 1)
    BY <1>2, <2>2 DEF WordAdded
  <2>3. CASE p = L + 2
    BY <1>2, <2>3 DEF WordAdded
  <2>. QED
    BY <2>1, <2>2, <2>3
<1>3. L + 2 \in DOMAIN t /\ k + 1 \in DOMAIN t[L + 2] /\ t[L + 2][k + 1] = w
  BY DEF WordAdded
<1>4. ASSUME NEW p \in DOMAIN t, NEW i \in DOMAIN t[p]
      PROVE  ~(p > L + 2) /\ (p = L + 2 => ~(i > k + 1))
  BY <1>4 DEF WordAdded
<1>5. /\ \A p \in DOMAIN s : \A i \in DOMAIN s[p] : s[p][i] # Break => s[p][i] \in 1..n
      /\ \A b \in 1..n : \E p \in DOMAIN s : \E i \in DOMAIN s[p] : s[p][i] = b
  BY DEF InOrder
<1>6. Rising(t)
  <2>. SUFFICES ASSUME NEW p \in DOMAIN t, NEW q \in DOMAIN t, NEW i \in DOMAIN t[p], NEW j \in DOMAIN t[q],
                       p < q \/ (p = q /\ i < j), t[p][i] # Break, t[q][j] # Break
                PROVE  t[p][i] < t[q][j]
    BY Zenon DEF Rising
  <2>1. ~(p = L + 2 /\ i = k + 1)
    BY <1>4
  <2>2. i \in DOMAIN s[p] /\ s[p][i] = t[p][i]
    BY <1>1, <2>1
  <2>3. CASE j \in DOMAIN s[q] /\ s[q][j] = t[q][j]
    <3>1. Rising(s)
      BY DEF InOrder
    <3>. QED
      BY <1>0, <2>2, <2>3, <3>1, Zenon DEF Rising
  <2>4. CASE t[q][j] = w
    <3>1. w = n + 1 /\ s[p][i] \in 1..n
      BY <1>0, <1>5, <2>2, <2>4
    <3>. QED
      BY <2>2, <2>4, <3>1
  <2>5. QED
    BY <1>1, <2>3, <2>4
<1>7. \A p \in DOMAIN t : \A i \in DOMAIN t[p] : t[p][i] # Break => t[p][i] \in 1..m
  <2>. TAKE p \in DOMAIN t
  <2>. TAKE i \in DOMAIN t[p]
  <2>. HAVE t[p][i] # Break
  <2>1. CASE i \in DOMAIN s[p] /\ s[p][i] = t[p][i]
    <3>1. t[p][i] \in 1..n
      BY <1>0, <1>5, <2>1
    <3>. QED
      BY <3>1
  <2>2. CASE t[p][i] = w
    BY <2>2
  <2>. QED
    BY <1>1, <2>1, <2>2
<1>8. \A b \in 1..m : \E p \in DOMAIN t : \E i \in DOMAIN t[p] : t[p][i] = b
  <2>. TAKE b \in 1..m
  <2>1. CASE b \in 1..n
    BY <1>0, <1>2, <1>5, <2>1
  <2>2. CASE b = w
    BY <1>3, <2>2
  <2>. QED
    BY <2>1, <2>2
<1>9. QED
  BY <1>6, <1>7, <1>8 DEF InOrder

\* What a stream is made of.
LEMMA StreamParts ==
  ASSUME NEW put \in Seq(Seq(Word)), NEW buf \in Seq(Word), NEW rest \in Seq(Word),
         NEW s, s = put \o <<buf, rest>>
  PROVE  /\ Len(put) \in Nat /\ Len(buf) \in Nat /\ Len(rest) \in Nat
         /\ DOMAIN s = 1..(Len(put) + 2)
         /\ \A p \in 1..Len(put) : s[p] = put[p] /\ DOMAIN s[p] \subseteq Nat
         /\ s[Len(put) + 1] = buf /\ s[Len(put) + 2] = rest
         /\ DOMAIN buf = 1..Len(buf) /\ DOMAIN rest = 1..Len(rest)
<1>1. \A p \in 1..Len(put) : put[p] \in Seq(Word)
  OBVIOUS
<1>. QED
  BY <1>1

\* The three moves as readData and the driver make them: ReadByte ...
LEMMA ByteMoves ==
  ASSUME NEW put \in Seq(Seq(Word)), NEW buf \in Seq(Word), NEW rest \in Seq(Word),
         NEW n \in Nat, rest # <<>>, InOrder(put \o <<buf, rest>>, n)
  PROVE  InOrder(put \o <<Append(buf, Head(rest)), Tail(rest)>>, n)
<1>. DEFINE s == put \o <<buf, rest>>
            t == put \o <<Append(buf, Head(rest)), Tail(rest)>>
<1>1. /\ Append(buf, Head(rest)) \in Seq(Word) /\ Len(Append(buf, Head(rest))) = Len(buf) + 1
      /\ \A i \in 1..Len(buf) : Append(buf, Head(rest))[i] = buf[i]
      /\ Append(buf, Head(rest))[Len(buf) + 1] = rest[1]
  OBVIOUS
<1>2. /\ Len(rest) # 0 /\ Tail(rest) \in Seq(Word) /\ Len(Tail(rest)) = Len(rest) - 1
      /\ \A i \in 1..(Len(rest) - 1) : Tail(rest)[i] = rest[i + 1]
  OBVIOUS
<1>3. /\ Len(put) \in Nat /\ Len(buf) \in Nat /\ Len(rest) \in Nat
      /\ DOMAIN s = 1..(Len(put) + 2)
      /\ \A p \in 1..Len(put) : s[p] = put[p] /\ DOMAIN s[p] \subseteq Nat
      /\ s[Len(put) + 1] = buf /\ s[Len(put) + 2] = rest
      /\ DOMAIN buf = 1..Len(buf) /\ DOMAIN rest = 1..Len(rest)
  BY StreamParts
<1>4. /\ DOMAIN t = 1..(Len(put) + 2)
      /\ \A p \in 1..Len(put) : t[p] = put[p]
      /\ t[Len(put) + 1] = Append(buf, Head(rest)) /\ t[Len(put) + 2] = Tail(rest)
      /\ DOMAIN Append(buf, Head(rest)) = 1..(Len(buf) + 1) /\ DOMAIN Tail(rest) = 1..(Len(rest) - 1)
  BY <1>1, <1>2, StreamParts
<1>5. InOrder(s, n)
  OBVIOUS
<1>. HIDE DEF s, t
<1>6. ByteMoved(s, t, Len(put), Len(buf), Len(rest))
  BY <1>1, <1>2, <1>3, <1>4 DEF ByteMoved
<1>7. InOrder(t, n)
  BY <1>2, <1>3, <1>5, <1>6, ByteMoveKept
<1>. QED
  BY <1>7 DEF t

\* ... ReadBreak ...
LEMMA BreakMoves ==
  ASSUME NEW put \in Seq(Seq(Word)), NEW buf \in Seq(Word), NEW rest \in Seq(Word),
         NEW n \in Nat, rest # <<>>, Head(rest) = Break,
         InOrder(put \o <<buf, rest>>, n)
  PROVE  InOrder(Append(put, buf) \o << <<>>, Tail(rest)>>, n)
<1>. DEFINE s == put \o <<buf, rest>>
            full == Append(put, buf)
            t == full \o << <<>>, Tail(rest)>>
<1>1. /\ full \in Seq(Seq(Word)) /\ Len(full) = Len(put) + 1
      /\ \A p \in 1..Len(put) : full[p] = put[p]
      /\ full[Len(put) + 1] = buf
  OBVIOUS
<1>2. /\ Len(rest) # 0 /\ Tail(rest) \in Seq(Word) /\ Len(Tail(rest)) = Len(rest) - 1
      /\ \A i \in 1..(Len(rest) - 1) : Tail(rest)[i] = rest[i + 1]
      /\ rest[1] = Break
      /\ <<>> \in Seq(Word) /\ DOMAIN <<>> = {}
  OBVIOUS
<1>3. /\ Len(put) \in Nat /\ Len(rest) \in Nat
      /\ DOMAIN s = 1..(Len(put) + 2)
      /\ \A p \in 1..Len(put) : s[p] = put[p]
      /\ s[Len(put) + 1] = buf /\ s[Len(put) + 2] = rest
      /\ DOMAIN rest = 1..Len(rest)
  BY StreamParts
<1>. HIDE DEF full
<1>4. /\ DOMAIN t = 1..(Len(full) + 2)
      /\ \A p \in 1..Len(full) : t[p] = full[p]
      /\ t[Len(full) + 1] = <<>> /\ t[Len(full) + 2] = Tail(rest)
      /\ DOMAIN Tail(rest) = 1..(Len(rest) - 1)
  BY <1>1, <1>2, StreamParts
<1>5. InOrder(s, n)
  OBVIOUS
<1>. HIDE DEF s, t
<1>6. /\ DOMAIN t = 1..(Len(put) + 3) /\ DOMAIN t[Len(put) + 2] = {}
      /\ t[Len(put) + 3] = Tail(rest)
  BY <1>1, <1>2, <1>3, <1>4
<1>7. \A p \in 1..(Len(put) + 1) : t[p] = s[p]
  <2>. TAKE p \in 1..(Len(put) + 1)
  <2>1. p \in 1..Len(put) \/ p = Len(put) + 1
    <3>1. Len(put) \in Nat
      BY <1>3
    <3>. QED
      BY <3>1
  <2>. QED
    BY <1>1, <1>3, <1>4, <2>1
<1>8. PacketMoved(s, t, Len(put), Len(rest))
  BY <1>2, <1>3, <1>4, <1>6, <1>7 DEF PacketMoved
<1>9. InOrder(t, n)
  BY <1>2, <1>3, <1>5, <1>8, PacketMoveKept
<1>. QED
  BY <1>9 DEF t, full

\* ... and Arrive.
LEMMA WordArrives ==
  ASSUME NEW put \in Seq(Seq(Word)), NEW buf \in Seq(Word), NEW rest \in Seq(Word),
         NEW n \in Nat, NEW m \in Nat, NEW w \in Word,
         InOrder(put \o <<buf, rest>>, n),
         (w = Break /\ m = n) \/ (w = n + 1 /\ m = n + 1)
  PROVE  InOrder(put \o <<buf, Append(rest, w)>>, m)
<1>. DEFINE s == put \o <<buf, rest>>
            t == put \o <<buf, Append(rest, w)>>
<1>1. /\ Append(rest, w) \in Seq(Word) /\ Len(Append(rest, w)) = Len(rest) + 1
      /\ \A i \in 1..Len(rest) : Append(rest, w)[i] = rest[i]
      /\ Append(rest, w)[Len(rest) + 1] = w
  OBVIOUS
<1>2. /\ Len(put) \in Nat /\ Len(rest) \in Nat
      /\ DOMAIN s = 1..(Len(put) + 2)
      /\ \A p \in 1..Len(put) : s[p] = put[p]
      /\ s[Len(put) + 1] = buf /\ s[Len(put) + 2] = rest
      /\ DOMAIN rest = 1..Len(rest)
  BY StreamParts
<1>3. /\ DOMAIN t = 1..(Len(put) + 2)
      /\ \A p \in 1..Len(put) : t[p] = put[p]
      /\ t[Len(put) + 1] = buf /\ t[Len(put) + 2] = Append(rest, w)
      /\ DOMAIN Append(rest, w) = 1..(Len(rest) + 1)
  BY <1>1, StreamParts
<1>4. InOrder(s, n)
  OBVIOUS
<1>. HIDE DEF s, t
<1>5. \A p \in 1..(Len(put) + 1) : t[p] = s[p]
  <2>. TAKE p \in 1..(Len(put) + 1)
  <2>1. p \in 1..Len(put) \/ p = Len(put) + 1
    <3>1. Len(put) \in Nat
      BY <1>2
    <3>. QED
      BY <3>1
  <2>. QED
    BY <1>2, <1>3, <2>1
<1>6. WordAdded(s, t, Len(put), Len(rest), w)
  BY <1>1, <1>2, <1>3, <1>5 DEF WordAdded
<1>7. InOrder(t, m)
  BY <1>2, <1>4, <1>6, ArrivalKept
<1>. QED
  BY <1>7 DEF t

-----------------------------------------------------------------------------
\* readData has a buffer only while it runs.
ReadsItsBuffer == ~reading => chunk = <<>>

\* No received byte is lost, repeated or reordered between the driver and the
\* GUI: a step moves one word, or one packet, to the next of the places on its
\* way, and what getPackets clears is what it copied.
THEOREM BytesCorrect == Spec => []BytesInOrder
<1>. DEFINE Inv == BytesInOrder /\ ReadsItsBuffer
<1>1. Init => Inv
  <2>. SUFFICES ASSUME Init PROVE Inv
    OBVIOUS
  <2>1. taken \o list = <<>> /\ packetBuffer = <<>> /\ chunk \o raw = <<>> /\ bytes = 0
    BY DEF Init
  <2>2. Stream = << <<>>, <<>> >>
    BY <2>1 DEF Stream
  <2>3. DOMAIN Stream = 1..2 /\ \A p \in DOMAIN Stream : DOMAIN Stream[p] = {}
    BY <2>2
  <2>4. InOrder(Stream, 0)
    <3>1. Rising(Stream)
      BY <2>3, Zenon DEF Rising
    <3>2. 1..0 = {}
      OBVIOUS
    <3>. QED
      BY <2>3, <3>1, <3>2, Zenon DEF InOrder
  <2>. QED
    BY <2>1, <2>4, InOrderMeans DEF BytesInOrder, Init, ReadsItsBuffer
<1>2. TypeOK /\ CopyIsCurrent /\ Inv /\ [Next]_vars => Inv'
  <2>. SUFFICES ASSUME TypeOK, CopyIsCurrent, Inv, [Next]_vars PROVE Inv'
    OBVIOUS
  <2>. DEFINE put == taken \o list
              rest == chunk \o raw
  <2>t. /\ taken \in Seq(Packet) /\ list \in Seq(Packet) /\ packetBuffer \in Packet
        /\ chunk \in Seq(Word) /\ raw \in Seq(Word) /\ bytes \in Nat
    BY DEF TypeOK
  <2>p. Packet \subseteq Seq(Word)
    BY DEF Packet, Word
  <2>s. put \in Seq(Seq(Word)) /\ packetBuffer \in Seq(Word) /\ rest \in Seq(Word)
    <3>1. taken \in Seq(Seq(Word)) /\ list \in Seq(Seq(Word))
      BY <2>t, <2>p
    <3>. QED
      BY <2>t, <2>p, <3>1
  <2>o. InOrder(put \o <<packetBuffer, rest>>, bytes)
    BY <2>t, InOrderMeans DEF BytesInOrder, Stream
  <2>q. ASSUME InOrder(put' \o <<packetBuffer', rest'>>, bytes'), bytes' \in Nat PROVE BytesInOrder'
    BY <2>q, InOrderMeans DEF BytesInOrder, Stream, Rising
  <2>u. ASSUME UNCHANGED <<put, packetBuffer, rest, bytes>> PROVE BytesInOrder'
    BY <2>o, <2>t, <2>u, <2>q
  <2>h. ASSUME chunk # <<>>
        PROVE  /\ rest # <<>> /\ Head(rest) = Head(chunk) /\ Tail(rest) = Tail(chunk) \o raw
    BY <2>h, <2>t
  <2>1. CASE User
    BY <2>1, <2>u DEF User, ModeButton, StartCapture, StopCapture, RestartCapture, RunScript,
                      Press, readVars, driverVars, ReadsItsBuffer
  <2>2. CASE DeliverStatus \/ IgnorePackets \/ LockAndCopy \/ ShowPacket
    BY <2>2, <2>u DEF DeliverStatus, IgnorePackets, LockAndCopy, ShowPacket, Deliver,
                      readVars, driverVars, ReadsItsBuffer
  <2>3. CASE ClearAndUnlock
    <3>1. taken' = taken \o list /\ list' = <<>>
          /\ UNCHANGED <<chunk, reading, packetBuffer, raw, bytes>>
      BY <2>3 DEF ClearAndUnlock, CopyIsCurrent, readVars, driverVars
    <3>2. put' = put
      BY <3>1, <2>t
    <3>. QED
      BY <2>u, <3>1, <3>2 DEF ReadsItsBuffer
  <2>4. CASE PostedSlot
    BY <2>4, <2>u DEF PostedSlot, StartReading, StartSending, StopReading, StopSending,
                      RunSlot, readVars, ReadsItsBuffer
  <2>5. CASE BeginRead
    <3>1. chunk = <<>> /\ chunk' = raw /\ raw' = <<>> /\ reading'
          /\ UNCHANGED <<taken, list, packetBuffer, bytes>>
      BY <2>5 DEF BeginRead, ReadsItsBuffer
    <3>2. rest' = rest
      BY <3>1, <2>t
    <3>. QED
      BY <2>u, <3>1, <3>2 DEF ReadsItsBuffer
  <2>6. CASE ReadByte
    <3>1. /\ chunk # <<>> /\ chunk' = Tail(chunk) /\ packetBuffer' = Append(packetBuffer, Head(chunk))
          /\ UNCHANGED <<taken, list, raw, bytes>> /\ reading'
      BY <2>6 DEF ReadByte, ReadStep, driverVars
    <3>2. /\ put' = put /\ rest' = Tail(rest) /\ bytes' = bytes
          /\ packetBuffer' = Append(packetBuffer, Head(rest))
      BY <2>h, <3>1
    <3>3. InOrder(put \o <<Append(packetBuffer, Head(rest)), Tail(rest)>>, bytes)
      BY <2>o, <2>s, <2>t, <2>h, <3>1, ByteMoves
    <3>. HIDE DEF put, rest
    <3>. QED
      BY <2>q, <2>t, <3>1, <3>2, <3>3 DEF ReadsItsBuffer
  <2>7. CASE ReadBreak
    <3>1. /\ chunk # <<>> /\ chunk' = Tail(chunk) /\ Head(chunk) = Break
          /\ list' = Append(list, packetBuffer) /\ packetBuffer' = <<>>
          /\ UNCHANGED <<taken, raw, bytes>> /\ reading'
      BY <2>7 DEF ReadBreak, ReadStep, driverVars
    <3>2. put' = Append(put, packetBuffer)
      BY <2>t, <3>1, AppendConcat
    <3>3. rest' = Tail(rest) /\ bytes' = bytes
      BY <2>h, <3>1
    <3>4. InOrder(Append(put, packetBuffer) \o << <<>>, Tail(rest)>>, bytes)
      BY <2>o, <2>s, <2>t, <2>h, <3>1, BreakMoves
    <3>. HIDE DEF put, rest
    <3>. QED
      BY <2>q, <2>t, <3>1, <3>2, <3>3, <3>4 DEF ReadsItsBuffer
  <2>8. CASE EndRead
    BY <2>8, <2>u DEF EndRead, driverVars, ReadsItsBuffer
  <2>9. CASE Arrive
    <3>1. PICK w \in Word : /\ raw' = Append(raw, w)
                            /\ (w = Break /\ bytes' = bytes) \/ (w = bytes + 1 /\ bytes' = bytes + 1)
      BY <2>9, <2>t DEF Arrive, Word, Break
    <3>2. UNCHANGED <<taken, list, packetBuffer, chunk, reading>>
      BY <2>9 DEF Arrive, readVars
    <3>3. put' = put /\ rest' = Append(rest, w) /\ bytes' \in Nat
      BY <2>t, <3>1, <3>2, AppendConcat
    <3>4. InOrder(put \o <<packetBuffer, Append(rest, w)>>, bytes')
      BY <2>o, <2>s, <2>t, <3>1, <3>3, WordArrives
    <3>. HIDE DEF put, rest
    <3>. QED
      BY <2>q, <3>2, <3>3, <3>4 DEF ReadsItsBuffer
  <2>10. CASE UNCHANGED vars
    BY <2>10, <2>u DEF vars, readVars, driverVars, ReadsItsBuffer
  <2>11. QED
    BY <2>1, <2>2, <2>3, <2>4, <2>5, <2>6, <2>7, <2>8, <2>9, <2>10 DEF Next, Gui, Read
<1>3. QED
  BY <1>1, <1>2, TypeCorrect, CopyCorrect, PTL DEF Spec

-----------------------------------------------------------------------------
(* The Start button.                                                       *)

\* In transmit mode reading never has the last word: a device that reads, or
\* a slot that makes it read, has another slot behind it.
SendingIsLast ==
  mode = "Transmit" =>
    /\ deviceOpen /\ rxTimer = "read" => events # <<>>
    /\ events # <<>> => events[Len(events)] # "startReading"

\* What m_mode says and what the worker will end up doing agree, because open
\* is always called with the mode just set.
LEMMA SendingLast == Spec => []SendingIsLast
<1>1. Init => SendingIsLast
  BY DEF Init, SendingIsLast
<1>2. TypeOK /\ SendingIsLast /\ [Next]_vars => SendingIsLast'
  <2>. SUFFICES ASSUME TypeOK, SendingIsLast, [Next]_vars PROVE SendingIsLast'
    OBVIOUS
  <2>t. events \in Seq(Slots) /\ Len(events) \in Nat
    BY DEF TypeOK
  <2>c. ASSUME Close PROVE events' # <<>> /\ events'[Len(events')] # "startReading"
    BY <2>c, <2>t, QueueAfterClose
  <2>o. ASSUME NEW m, Open(m) \/ Reopen(m)
        PROVE  events' # <<>> /\ (m # "Sniff" => events'[Len(events')] # "startReading")
    <3>1. CASE Open(m)
      <4>1. events' = Append(events, StartSlot(m))
        BY <3>1 DEF Open
      <4>2. events' # <<>> /\ events'[Len(events')] = StartSlot(m)
        BY <4>1, <2>t
      <4>. QED
        BY <4>2 DEF StartSlot
    <3>2. CASE Reopen(m)
      <4>1. events' = (events \o StopSlots) \o <<StartSlot(m)>>
        BY <3>2 DEF Reopen
      <4>2. events \o StopSlots \in Seq(Slots) /\ StartSlot(m) \in Slots
        BY <2>t DEF StopSlots, Slots, StartSlot
      <4>3. events' # <<>> /\ events'[Len(events')] = StartSlot(m)
        <5>. DEFINE q == events \o StopSlots
        <5>. HIDE DEF q
        <5>1. events' = Append(q, StartSlot(m)) /\ q \in Seq(Slots)
          BY <4>1, <4>2 DEF q
        <5>. QED
          BY <5>1, <4>2
      <4>. QED
        BY <4>3 DEF StartSlot
    <3>. QED
      BY <2>o, <3>1, <3>2
  <2>1. ASSUME NEW m \in OpModes, ModeButton(m) PROVE SendingIsLast'
    BY <2>1, <2>c, <2>o DEF ModeButton, OpModes, SendingIsLast
  <2>2. CASE StartCapture
    <3>1. mode' = mode /\ (Close \/ Open(mode))
      BY <2>2 DEF StartCapture
    <3>. QED
      BY <3>1, <2>c, <2>o DEF SendingIsLast
  <2>3. CASE StopCapture \/ RestartCapture \/ RunScript
    BY <2>3, <2>c, <2>o DEF StopCapture, RestartCapture, RunScript, SendingIsLast
  <2>r. ASSUME NEW s, RunSlot(s)
        PROVE  /\ mode' = mode
               /\ mode = "Transmit" /\ s = "startReading" => events' # <<>>
               /\ mode = "Transmit" /\ events' # <<>> => events'[Len(events')] # "startReading"
    <3>1. /\ Len(events) > 0 /\ events[1] = s /\ events # <<>> /\ events' \in Seq(Slots)
          /\ Len(events') = Len(events) - 1
          /\ \A i \in 1..(Len(events) - 1) : events'[i] = events[i + 1]
      BY <2>r, <2>t, QueueAfterRun
    <3>2. mode' = mode
      BY <2>r DEF RunSlot
    <3>3. mode = "Transmit" => events[Len(events)] # "startReading"
      BY <3>1 DEF SendingIsLast
    <3>4. ASSUME mode = "Transmit", s = "startReading" PROVE events' # <<>>
      <4>1. Len(events) # 1
        BY <3>1, <3>3, <3>4
      <4>. QED
        BY <3>1, <4>1, <2>t
    <3>5. ASSUME mode = "Transmit", events' # <<>> PROVE events'[Len(events')] # "startReading"
      <4>1. Len(events) - 1 \in 1..(Len(events) - 1) /\ Len(events) - 1 + 1 = Len(events)
        BY <3>1, <3>5, <2>t
      <4>. QED
        BY <3>1, <3>3, <3>5, <4>1
    <3>. QED
      BY <3>2, <3>4, <3>5
  <2>4. CASE PostedSlot
    <3>1. \/ RunSlot("startReading")
          \/ \E s : RunSlot(s) /\ rxTimer' # "read"
      BY <2>4 DEF PostedSlot, StartReading, StartSending, StopReading, StopSending, NewTimer
    <3>. QED
      BY <3>1, <2>r DEF SendingIsLast
  <2>5. CASE Gui \/ Read \/ Arrive \/ UNCHANGED vars
    BY <2>5 DEF Gui, DeliverStatus, IgnorePackets, LockAndCopy, ClearAndUnlock, ShowPacket,
                Deliver, Read, BeginRead, ReadByte, ReadBreak, ReadStep, EndRead, Arrive,
                vars, deviceVars, SendingIsLast
  <2>. QED
    BY <2>1, <2>2, <2>3, <2>4, <2>5 DEF Next, User
<1>3. QED
  BY <1>1, <1>2, TypeCorrect, PTL DEF Spec

\* Start does what its mark shows when nothing is in flight: then the mark
\* shows the device's status, and the mode the handler looks at agrees with it.
THEOREM StartCorrect == Spec => StartActsAsShown
<1>1. TypeOK /\ ButtonsFollowDevice /\ SendingIsLast =>
        (StartCapture /\ events = <<>> /\ NoStatusPending =>
           requested' = IF buttons.startChecked THEN "close" ELSE "open")
  <2>. SUFFICES ASSUME TypeOK, ButtonsFollowDevice, SendingIsLast, StartCapture, events = <<>>,
                       NoStatusPending
                PROVE  requested' = IF buttons.startChecked THEN "close" ELSE "open"
    OBVIOUS
  <2>1. DeviceStatus \in Status
    BY DEF DeviceStatus, Status
  <2>2. buttons = ButtonsAfter(DeviceStatus)
    <3>1. ~LastStatusPending(DeviceStatus)
      BY <2>1 DEF NoStatusPending, LastStatusPending
    <3>. QED
      BY <3>1 DEF ButtonsFollowDevice
  <2>3. /\ buttons.startChecked <=> DeviceStatus = "sniffing"
        /\ DeviceStatus \in {"sniffing", "closed"}
    <3>1. buttons.startEnabled
      BY DEF StartCapture
    <3>. QED
      BY <2>2, <3>1 DEF ButtonsAfter
  <2>4. deviceOpen /\ mode = "Sniff" <=> DeviceStatus = "sniffing"
    <3>1. mode \in {"Sniff", "Transmit"}
      BY DEF TypeOK
    <3>2. ~deviceOpen => DeviceStatus = "closed"
      BY DEF DeviceStatus
    <3>3. DeviceStatus = "sniffing" => deviceOpen /\ rxTimer = "read"
      BY DEF DeviceStatus
    <3>4. deviceOpen => DeviceStatus # "closed"
      BY DEF DeviceStatus
    <3>. QED
      BY <2>3, <3>1, <3>2, <3>3, <3>4 DEF SendingIsLast
  <2>. QED
    BY <2>3, <2>4 DEF StartCapture, Close, Open
<1>2. QED
  BY <1>1, ButtonsCorrect, SendingLast, TypeCorrect, PTL DEF Spec, StartActsAsShown
=============================================================================
