--------------------------- MODULE DmxOutputProofs ---------------------------
(***************************************************************************)
(* Safety of the DMX output, for every number of slots, levels and calls,  *)
(* on a Gadget and on a Whip.                                              *)
(***************************************************************************)
EXTENDS DmxOutput, TLAPS

\* Every variable keeps its type; in particular the two copies, into m_txLevels
\* and out of it, never touch a slot beyond the last.
TypeInv ==
  /\ TypeOK
  /\ \A w \in Writers : pc[w] = "copying" => copied[w] < Slots
  /\ sendPc = "reading" => read < Slots

LEMMA TypeInvCorrect == Spec => []TypeInv
<1> USE ConstantsAssumption DEF ConstantsAssumption
<1>w. "gui" \in Writers /\ "script" \in Writers
  BY DEF Writers
<1>b. Blank \in Frame
  BY DEF Blank, Frame, Level
<1>1. Init => TypeInv
  <2> SUFFICES ASSUME Init PROVE TypeInv
    OBVIOUS
  <2>1. source \in [Writers -> Frame] /\ pc \in [Writers -> {"idle", "copying", "disabling"}]
    BY <1>b DEF Init
  <2>2. copied \in [Writers -> 0..Slots] /\ \A w \in Writers : pc[w] # "copying"
    BY DEF Init
  <2>3. read \in 0..Slots /\ sendPc # "reading" /\ published \subseteq Frame
    BY <1>b DEF Init
  <2>4. levels \in Frame /\ frame \in Frame /\ wire \in Frame
    BY <1>b DEF Init
  <2>5. QED
    BY <2>1, <2>2, <2>3, <2>4 DEF Init, TypeInv, TypeOK
<1>2. TypeInv /\ [Next]_vars => TypeInv'
  <2> SUFFICES ASSUME TypeInv, [Next]_vars PROVE TypeInv'
    OBVIOUS
  <2> USE DEF TypeInv, TypeOK
  <2>1. ASSUME NEW w \in Writers, NEW f \in Frame, BeginSet(w, f) PROVE TypeInv'
    BY <2>1 DEF BeginSet, Call, sendVars, offVars
  <2>2. ASSUME NEW w \in Writers, CopySlot(w) PROVE TypeInv'
    <3> DEFINE s == copied[w] + 1
    <3>1. s \in Slot /\ s \in 0..Slots /\ source[w][s] \in Level
      BY <2>2 DEF CopySlot, Slot, Frame
    <3>2. levels' = [levels EXCEPT ![s] = source[w][s]] /\ copied' = [copied EXCEPT ![w] = s]
      BY <2>2 DEF CopySlot
    <3>3. levels' \in Frame /\ copied' \in [Writers -> 0..Slots]
      BY <3>1, <3>2 DEF Frame
    <3>4. CASE s < Slots
      BY <2>2, <3>1, <3>2, <3>3, <3>4 DEF CopySlot, sendVars, offVars
    <3>5. CASE ~(s < Slots)
      BY <2>2, <3>1, <3>2, <3>3, <3>5 DEF CopySlot, sendVars, offVars
    <3>6. QED
      BY <3>4, <3>5
  <2>3. ASSUME NEW w \in Writers, Enable(w) PROVE TypeInv'
    <3>1. calls' \in Nat /\ lateFrames' \in Nat /\ enabled' \in BOOLEAN /\ off' \in BOOLEAN
      <4>1. calls' = calls + 1 /\ lateFrames' = 0 /\ enabled' = TRUE /\ off' = FALSE
        BY <2>3 DEF Enable, Call
      <4>2. calls' \in Nat /\ lateFrames' \in Nat
        BY <4>1
      <4>3. QED
        BY <4>1, <4>2, Zenon
    <3>2. UNCHANGED <<device, sending, levels, mutex, writerVars, sendVars, output,
                      lastWriter, published>>
      BY <2>3 DEF Enable
    <3>3. QED
      BY <3>1, <3>2 DEF writerVars, sendVars
  <2>4. ASSUME NEW w \in Writers, BeginDisable(w) PROVE TypeInv'
    <3>1. calls' \in Nat /\ enabled' = FALSE /\ lateFrames' \in Nat /\ off' \in BOOLEAN
      <4>1. calls' = calls + 1 /\ enabled' = FALSE
        BY <2>4 DEF BeginDisable, Call
      <4>2. UNCHANGED <<off, lateFrames>> \/ (off' = ~enabled' /\ lateFrames' = 0)
        BY <2>4 DEF BeginDisable, Disabled, offVars
      <4>3. (off' = ~enabled') => off' \in BOOLEAN
        OBVIOUS
      <4>4. lateFrames' \in Nat
        BY <4>2
      <4>5. off' \in BOOLEAN
        BY <4>2, <4>3
      <4>6. calls' \in Nat
        BY <4>1
      <4>7. QED
        BY <4>1, <4>4, <4>5, <4>6
    <3>2. /\ pc' \in [Writers -> {"idle", "copying", "disabling"}]
          /\ \A u \in Writers : pc'[u] = "copying" => pc[u] = "copying"
      BY <2>4 DEF BeginDisable
    <3>3. UNCHANGED <<device, sending, levels, mutex, source, copied, sendVars, output,
                      lastWriter, published>>
      BY <2>4 DEF BeginDisable
    <3>4. QED
      BY <3>1, <3>2, <3>3 DEF sendVars
  <2>5. ASSUME NEW w \in Writers, EndDisable(w) PROVE TypeInv'
    BY <2>5 DEF EndDisable, Disabled, sendVars
  <2>6. CASE StartSending \/ StopSending
    BY <2>6 DEF StartSending, StopSending, writerVars, sendVars, offVars
  <2>7. CASE BeginSend
    BY <2>7 DEF BeginSend, writerVars, offVars
  <2>8. CASE ReadSlot
    <3> DEFINE s == read + 1
    <3>1. s \in Slot /\ s \in 0..Slots /\ levels[s] \in Level
      BY <2>8 DEF ReadSlot, Slot, Frame
    <3>2. [frame EXCEPT ![s] = levels[s]] \in Frame
      BY <3>1 DEF Frame
    <3>3. CASE s < Slots
      BY <2>8, <3>1, <3>2, <3>3 DEF ReadSlot, writerVars
    <3>4. CASE ~(s < Slots)
      <4>1. /\ wire' \in Frame /\ frame' \in Frame /\ read' \in 0..Slots /\ sendPc' = "idle"
            /\ mutex' \in Writers \cup {"free", "device"}
        BY <2>8, <3>1, <3>2, <3>4 DEF ReadSlot
      <4>2. lateFrames' \in Nat
        BY <2>8, <3>4 DEF ReadSlot
      <4>3. output' \in BOOLEAN
        BY <2>8, <3>4 DEF ReadSlot
      <4>4. UNCHANGED <<device, sending, enabled, levels, writerVars, calls, lastWriter,
                        published, off>>
        BY <2>8 DEF ReadSlot
      <4>5. QED
        BY <4>1, <4>2, <4>3, <4>4 DEF writerVars
    <3>5. QED
      BY <3>3, <3>4
  <2>9. CASE UNCHANGED vars
    BY <2>9 DEF vars, writerVars, sendVars, offVars
  <2>10. QED
    BY <2>1, <2>2, <2>3, <2>4, <2>5, <2>6, <2>7, <2>8, <2>9 DEF Next, Writer, Device
<1>3. QED
  BY <1>1, <1>2, PTL DEF Spec

\* Every variable keeps its type.
THEOREM TypeCorrect == Spec => []TypeOK
<1>1. TypeInv => TypeOK
  BY DEF TypeInv
<1>2. QED
  BY <1>1, TypeInvCorrect, PTL

-----------------------------------------------------------------------------
(* The late frame.                                                         *)

\* Why there is no second late frame: while the output counts as switched off
\* m_enabled is false, so no send begins, and the one that was under way has
\* been counted when it ends.
LateInv ==
  /\ off => ~enabled
  /\ ~off => lateFrames = 0
  /\ lateFrames <= 1
  /\ sendPc = "reading" => lateFrames = 0

\* At most one frame follows setDmxEnabled(false), on either device and for
\* every interleaving of the two writers with the send.
THEOREM LateFrameCorrect == Spec => []AtMostOneLateFrame
<1>1. Init => LateInv
  BY DEF Init, LateInv
<1>2. TypeInv /\ LateInv /\ [Next]_vars => LateInv'
  <2> SUFFICES ASSUME TypeInv, LateInv, [Next]_vars PROVE LateInv'
    OBVIOUS
  <2>t. lateFrames \in Nat /\ off \in BOOLEAN /\ enabled \in BOOLEAN
        /\ sendPc \in {"idle", "reading"}
    BY DEF TypeInv, TypeOK
  <2> USE DEF LateInv
  <2>1. ASSUME NEW w \in Writers, NEW f \in Frame, BeginSet(w, f) \/ CopySlot(w) PROVE LateInv'
    BY <2>1 DEF BeginSet, CopySlot, sendVars, offVars
  <2>2. ASSUME NEW w \in Writers, Enable(w) PROVE LateInv'
    BY <2>2 DEF Enable
  <2>3. ASSUME NEW w \in Writers, BeginDisable(w) PROVE LateInv'
    BY <2>3 DEF BeginDisable, Disabled, sendVars, offVars
  <2>4. ASSUME NEW w \in Writers, EndDisable(w) PROVE LateInv'
    <3>1. off' = ~enabled' /\ lateFrames' = 0
      BY <2>4 DEF EndDisable, Disabled
    <3>2. off' => ~enabled'
      BY <3>1
    <3>3. QED
      BY <3>1, <3>2
  <2>5. CASE StartSending \/ StopSending
    BY <2>5 DEF StartSending, StopSending, sendVars, offVars
  <2>6. CASE BeginSend
    BY <2>6 DEF BeginSend, offVars
  <2>7. CASE ReadSlot
    BY <2>7, <2>t DEF ReadSlot
  <2>8. CASE UNCHANGED vars
    BY <2>8 DEF vars, sendVars, offVars
  <2>9. Blank \in Frame
    BY ConstantsAssumption DEF Blank, Frame, Level, ConstantsAssumption
  <2>10. QED
    BY <2>1, <2>2, <2>3, <2>4, <2>5, <2>6, <2>7, <2>8, <2>9 DEF Next, Writer, Device
<1>3. LateInv => AtMostOneLateFrame
  BY DEF LateInv, AtMostOneLateFrame
<1>4. QED
  BY <1>1, <1>2, <1>3, TypeInvCorrect, PTL DEF Spec

-----------------------------------------------------------------------------
(* The copy into m_txLevels.                                               *)

\* Who holds m_listMutex.
MutexInv ==
  /\ \A w \in Writers : mutex = w <=> pc[w] = "copying"
  /\ mutex = "device" <=> (device = "whip" /\ sendPc = "reading")

\* A copy has brought its first slots over, and between copies the levels are
\* the last writer's.
CopyInv ==
  /\ \A w \in Writers : pc[w] = "copying" =>
       \A s \in 1..copied[w] : levels[s] = source[w][s]
  /\ LevelsFromOneWriter

\* m_listMutex has one holder at a time: the copying writer or the Whip's send.
LEMMA MutexCorrect == Spec => []MutexInv
<1>1. Init => MutexInv
  BY DEF Init, MutexInv, Writers
<1>2. TypeInv /\ MutexInv /\ [Next]_vars => MutexInv'
  <2> SUFFICES ASSUME TypeInv, MutexInv, [Next]_vars PROVE MutexInv'
    OBVIOUS
  <2>t. /\ pc \in [Writers -> {"idle", "copying", "disabling"}]
        /\ "free" \notin Writers /\ "device" \notin Writers
    BY DEF TypeInv, TypeOK, Writers
  <2> USE DEF MutexInv
  <2>1. ASSUME NEW w \in Writers, NEW f \in Frame, BeginSet(w, f) PROVE MutexInv'
    BY <2>1, <2>t DEF BeginSet, MayRun, sendVars
  <2>2. ASSUME NEW w \in Writers, CopySlot(w) PROVE MutexInv'
    BY <2>2, <2>t DEF CopySlot, sendVars
  <2>3. ASSUME NEW w \in Writers, Enable(w) PROVE MutexInv'
    BY <2>3 DEF Enable, writerVars, sendVars
  <2>4. ASSUME NEW w \in Writers, BeginDisable(w) PROVE MutexInv'
    BY <2>4, <2>t DEF BeginDisable, MayRun, sendVars
  <2>5. ASSUME NEW w \in Writers, EndDisable(w) PROVE MutexInv'
    BY <2>5, <2>t DEF EndDisable, sendVars
  <2>6. CASE StartSending \/ StopSending
    BY <2>6 DEF StartSending, StopSending, writerVars, sendVars
  <2>7. CASE BeginSend
    BY <2>7, <2>t DEF BeginSend, DeviceIdle, writerVars
  <2>8. CASE ReadSlot
    BY <2>8, <2>t DEF ReadSlot, writerVars
  <2>9. CASE UNCHANGED vars
    BY <2>9 DEF vars, writerVars, sendVars
  <2>10. QED
    BY <2>1, <2>2, <2>3, <2>4, <2>5, <2>6, <2>7, <2>8, <2>9 DEF Next, Writer, Device
<1>3. QED
  BY <1>1, <1>2, TypeInvCorrect, PTL DEF Spec

\* Between copies, and half way through one, the levels are one writer's: the
\* mutex keeps the GUI's universe and the script's apart.
LEMMA CopyCorrect == Spec => []CopyInv
<1> USE ConstantsAssumption DEF ConstantsAssumption
<1>1. Init => CopyInv
  BY DEF Init, CopyInv, LevelsFromOneWriter
<1>2. TypeInv /\ MutexInv /\ CopyInv /\ [Next]_vars => CopyInv'
  <2> SUFFICES ASSUME TypeInv, MutexInv, CopyInv, [Next]_vars PROVE CopyInv'
    OBVIOUS
  <2>t. /\ pc \in [Writers -> {"idle", "copying", "disabling"}]
        /\ copied \in [Writers -> 0..Slots]
        /\ source \in [Writers -> Frame]
        /\ levels \in [Slot -> Level]
        /\ lastWriter \in Writers \cup {"none"}
        /\ "none" \notin Writers
    BY DEF TypeInv, TypeOK, Writers, Frame
  <2> USE DEF CopyInv, LevelsFromOneWriter
  <2>s. ASSUME UNCHANGED <<levels, source, copied, lastWriter>>,
               \A w \in Writers : pc'[w] = "copying" <=> pc[w] = "copying"
        PROVE  CopyInv'
    BY <2>s
  <2>o. ASSUME NEW w \in Writers, pc[w] = "copying", NEW u \in Writers, pc[u] = "copying"
        PROVE  u = w
    BY <2>o DEF MutexInv
  <2>1. ASSUME NEW w \in Writers, NEW f \in Frame, BeginSet(w, f) PROVE CopyInv'
    <3>1. \A u \in Writers : pc[u] # "copying"
      BY <2>1 DEF BeginSet, MutexInv, Writers
    <3>2. pc'[w] = "copying" /\ copied'[w] = 0 /\ \A u \in Writers : u # w => pc'[u] = pc[u]
      BY <2>1, <2>t DEF BeginSet
    <3>3. QED
      BY <3>1, <3>2
  <2>2. ASSUME NEW w \in Writers, CopySlot(w) PROVE CopyInv'
    <3> DEFINE s == copied[w] + 1
    <3>1. /\ s \in Slot /\ copied'[w] = s /\ source' = source
          /\ levels' = [levels EXCEPT ![s] = source[w][s]]
          /\ pc[w] = "copying" /\ copied[w] \in Nat
      BY <2>2, <2>t DEF CopySlot, TypeInv, TypeOK, Slot
    <3>2. \A t \in 1..s : levels'[t] = source[w][t]
      <4> TAKE t \in 1..s
      <4>1. t \in Slot
        BY <3>1 DEF Slot
      <4>2. CASE t = s
        BY <3>1, <4>1, <4>2, <2>t
      <4>3. CASE t # s
        BY <3>1, <4>1, <4>3, <2>t
      <4>4. QED
        BY <4>2, <4>3
    <3>3. \A u \in Writers : u # w => pc'[u] # "copying"
      BY <2>2, <2>o, <2>t, <3>1 DEF CopySlot
    <3>4. CASE s < Slots
      <4>1. pc' = pc
        BY <2>2, <3>4 DEF CopySlot
      <4>2. QED
        BY <3>1, <3>2, <3>3, <4>1
    <3>5. CASE ~(s < Slots)
      <4>1. s = Slots
        BY <3>1, <3>5 DEF Slot
      <4>2. pc'[w] = "idle" /\ lastWriter' = w
        BY <2>2, <2>t, <3>5 DEF CopySlot
      <4>3. levels' \in [Slot -> Level] /\ source[w] \in [Slot -> Level]
        BY <3>1, <2>t DEF Frame
      <4>4. levels' = source[w]
        BY <3>2, <4>1, <4>3 DEF Slot
      <4>5. QED
        BY <3>1, <3>3, <4>2, <4>4, <2>t
    <3>6. QED
      BY <3>4, <3>5
  <2>3. ASSUME NEW w \in Writers, Enable(w) PROVE CopyInv'
    BY <2>3, <2>s DEF Enable, writerVars
  <2>4. ASSUME NEW w \in Writers, BeginDisable(w) PROVE CopyInv'
    BY <2>4, <2>s, <2>t DEF BeginDisable, MayRun
  <2>5. ASSUME NEW w \in Writers, EndDisable(w) PROVE CopyInv'
    BY <2>5, <2>s, <2>t DEF EndDisable
  <2>6. CASE Device
    BY <2>6, <2>s DEF Device, StartSending, StopSending, BeginSend, ReadSlot, writerVars
  <2>7. CASE UNCHANGED vars
    BY <2>7, <2>s DEF vars, writerVars
  <2>8. QED
    BY <2>1, <2>2, <2>3, <2>4, <2>5, <2>6, <2>7 DEF Next, Writer
<1>3. QED
  BY <1>1, <1>2, TypeInvCorrect, MutexCorrect, PTL DEF Spec

\* The levels are always one writer's whole universe between copies.
THEOREM LevelsCorrect == Spec => []LevelsFromOneWriter
<1>1. CopyInv => LevelsFromOneWriter
  BY DEF CopyInv
<1>2. QED
  BY <1>1, CopyCorrect, PTL

-----------------------------------------------------------------------------
(* What goes out.                                                          *)

\* Each slot of an array has a level that somebody has set for that slot.
SlotsWereSet(levs) == \A s \in Slot : \E f \in published : levs[s] = f[s]

\* The strengthening of FramesWerePublished: slot by slot everything that is
\* read has been set, and the Whip's send, which holds the mutex, has read the
\* first slots of levels that do not change meanwhile.
FrameInv ==
  /\ Blank \in published
  /\ \A w \in Writers : source[w] \in published
  /\ SlotsWereSet(levels)
  /\ SlotsWereSet(frame)
  /\ device = "whip" /\ sendPc = "reading" => \A s \in 1..read : frame[s] = levels[s]
  /\ FramesWerePublished

\* The Whip sends whole arrays only; a Gadget's frame is made of slots that
\* were set, at whatever moment its send and the writers meet.
THEOREM FramesCorrect == Spec => []FramesWerePublished
<1> USE ConstantsAssumption DEF ConstantsAssumption
<1>1. Init => FrameInv
  BY DEF Init, FrameInv, FramesWerePublished, SlotsWereSet
<1>2. TypeInv /\ TypeInv' /\ MutexInv /\ CopyInv /\ FrameInv /\ [Next]_vars => FrameInv'
  <2> SUFFICES ASSUME TypeInv, TypeInv', MutexInv, CopyInv, FrameInv, [Next]_vars
               PROVE  FrameInv'
    OBVIOUS
  <2>t. /\ levels \in [Slot -> Level] /\ frame \in [Slot -> Level]
        /\ source \in [Writers -> Frame] /\ read \in 0..Slots
        /\ lastWriter \in Writers \cup {"none"}
    BY DEF TypeInv, TypeOK, Frame
  <2> USE DEF FrameInv, FramesWerePublished, SlotsWereSet
  <2>s. ASSUME UNCHANGED <<device, source, published, levels, frame, read, wire>>,
               sendPc' = "reading" => sendPc = "reading"
        PROVE  FrameInv'
    BY <2>s
  <2>1. ASSUME NEW w \in Writers, NEW f \in Frame, BeginSet(w, f) PROVE FrameInv'
    <3>1. /\ published' = published \cup {f} /\ source' = [source EXCEPT ![w] = f]
          /\ UNCHANGED <<device, levels, sendVars>>
      BY <2>1 DEF BeginSet
    <3>2. \A u \in Writers : source'[u] \in published'
      BY <3>1, <2>t
    <3>3. published \subseteq published'
      BY <3>1
    <3>4. QED
      BY <3>1, <3>2, <3>3 DEF sendVars
  <2>2. ASSUME NEW w \in Writers, CopySlot(w) PROVE FrameInv'
    <3> DEFINE s == copied[w] + 1
    <3>1. /\ s \in Slot /\ levels' = [levels EXCEPT ![s] = source[w][s]]
          /\ UNCHANGED <<device, source, published, sendVars>>
          /\ pc[w] = "copying"
      BY <2>2, <2>t DEF CopySlot, TypeInv, TypeOK, Slot
    <3>2. SlotsWereSet(levels')
      <4> SUFFICES ASSUME NEW t \in Slot PROVE \E f \in published : levels'[t] = f[t]
        OBVIOUS
      <4>1. CASE t = s
        BY <3>1, <4>1, <2>t
      <4>2. CASE t # s
        BY <3>1, <4>2, <2>t
      <4>3. QED
        BY <4>1, <4>2
    <3>3. ~(device = "whip" /\ sendPc = "reading")
      BY <3>1 DEF MutexInv, Writers
    <3>4. QED
      BY <3>1, <3>2, <3>3 DEF sendVars
  <2>3. ASSUME NEW w \in Writers, Enable(w) PROVE FrameInv'
    BY <2>3, <2>s DEF Enable, writerVars, sendVars
  <2>4. ASSUME NEW w \in Writers, BeginDisable(w) PROVE FrameInv'
    BY <2>4, <2>s DEF BeginDisable, sendVars
  <2>5. ASSUME NEW w \in Writers, EndDisable(w) PROVE FrameInv'
    BY <2>5, <2>s DEF EndDisable, sendVars
  <2>6. CASE StartSending \/ StopSending
    BY <2>6, <2>s DEF StartSending, StopSending, writerVars, sendVars
  <2>7. CASE BeginSend
    <3>1. read' = 0 /\ UNCHANGED <<device, source, published, levels, frame, wire>>
      BY <2>7 DEF BeginSend, writerVars
    <3>2. QED
      BY <3>1
  <2>8. CASE ReadSlot
    <3> DEFINE s == read + 1
               f == [frame EXCEPT ![s] = levels[s]]
    <3>1. /\ s \in Slot /\ frame' = f /\ read' = s /\ sendPc = "reading"
          /\ UNCHANGED <<device, source, published, levels>>
      BY <2>8, <2>t DEF ReadSlot, writerVars, TypeInv, TypeOK, Slot
    <3>2. SlotsWereSet(f)
      <4> SUFFICES ASSUME NEW t \in Slot PROVE \E p \in published : f[t] = p[t]
        OBVIOUS
      <4>1. CASE t = s
        BY <3>1, <4>1, <2>t
      <4>2. CASE t # s
        BY <3>1, <4>2, <2>t
      <4>3. QED
        BY <4>1, <4>2
    <3>3. device = "whip" => \A t \in 1..s : f[t] = levels[t]
      <4> SUFFICES ASSUME device = "whip", NEW t \in 1..s PROVE f[t] = levels[t]
        OBVIOUS
      <4>1. t \in Slot /\ (t # s => t \in 1..read)
        BY <3>1, <2>t DEF Slot
      <4>2. CASE t = s
        BY <3>1, <4>1, <4>2, <2>t
      <4>3. CASE t # s
        BY <3>1, <4>1, <4>3, <2>t
      <4>4. QED
        BY <4>2, <4>3
    <3>4. CASE s < Slots
      <4>1. wire' = wire
        BY <2>8, <3>4 DEF ReadSlot
      <4>2. QED
        BY <3>1, <3>2, <3>3, <4>1
    <3>5. CASE ~(s < Slots)
      <4>1. s = Slots
        BY <3>1, <3>5 DEF Slot
      <4>2. wire' = f /\ sendPc' = "idle"
        BY <2>8, <3>5 DEF ReadSlot
      <4>3. device = "whip" => wire' \in published
        <5> SUFFICES ASSUME device = "whip" PROVE f \in published
          BY <4>2
        <5>1. f \in [Slot -> Level]
          BY <3>1, <2>t
        <5>2. f = levels
          BY <3>3, <4>1, <5>1, <2>t DEF Slot
        <5>3. \A w \in Writers : pc[w] # "copying"
          BY <3>1 DEF MutexInv, Writers
        <5>4. levels \in published
          BY <5>3, <2>t DEF CopyInv, LevelsFromOneWriter
        <5>5. QED
          BY <5>2, <5>4
      <4>4. QED
        BY <3>1, <3>2, <4>2, <4>3
    <3>6. QED
      BY <3>4, <3>5
  <2>9. CASE UNCHANGED vars
    BY <2>9, <2>s DEF vars, writerVars, sendVars
  <2>10. QED
    BY <2>1, <2>2, <2>3, <2>4, <2>5, <2>6, <2>7, <2>8, <2>9 DEF Next, Writer, Device
<1>3. FrameInv => FramesWerePublished
  BY DEF FrameInv
<1>4. QED
  BY <1>1, <1>2, <1>3, TypeInvCorrect, MutexCorrect, CopyCorrect, PTL DEF Spec
=============================================================================
