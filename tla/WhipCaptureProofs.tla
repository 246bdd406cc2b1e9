-------------------------- MODULE WhipCaptureProofs --------------------------
(***************************************************************************)
(* Safety of the Whip capture device, for every nibble radix, read size    *)
(* and number of button presses, driver failures, breaks and data bytes.   *)
(***************************************************************************)
EXTENDS WhipCapture, SequenceTheorems, SequenceInduction

\* Two nibbles make a byte, and a byte is never mistaken for a break.
LEMMA NibblesMakeByte ==
  ASSUME Radix \in Nat \ {0}, NEW h \in Nibble, NEW l \in Nibble
  PROVE  h * Radix + l \in ByteVal
<1>1. h <= Radix - 1 /\ l <= Radix - 1 /\ h \in Nat /\ l \in Nat
  BY DEF Nibble
<1>2. h * Radix <= (Radix - 1) * Radix /\ h * Radix \in Nat
  BY <1>1
<1>3. (Radix - 1) * Radix = Radix * Radix - Radix
  OBVIOUS
<1>4. QED
  BY <1>1, <1>2, <1>3 DEF ByteVal

\* Whatever word is split off, the byte buffered is a byte.
LEMMA ByteOfWord ==
  ASSUME Radix \in Nat \ {0}, NEW w \in ByteVal \cup {BreakWord}
  PROVE  w % BreakWord \in ByteVal
<1>1. BreakWord \in Nat \ {0}
  BY DEF BreakWord
<1>2. w \in Nat
  BY <1>1 DEF ByteVal
<1>3. w % BreakWord \in 0..(BreakWord - 1)
  BY <1>1, <1>2
<1>4. QED
  BY <1>3 DEF ByteVal, BreakWord

\* Appending to a list keeps all that was before it.
LEMMA AppendConcat ==
  ASSUME NEW S, NEW s \in Seq(S), NEW t \in Seq(S), NEW e \in S
  PROVE  s \o Append(t, e) = Append(s \o t, e)
  OBVIOUS

\* Every variable keeps its type: in particular a packet holds bytes only, a
\* break's word being cut down to one when it ends no packet, and the word of
\* two nibbles always fits a byte (UnPackIncomingBytes, onTimer).
THEOREM TypeCorrect == Spec => []TypeOK
<1> USE ConstantsAssumption
<1>s. \A S : <<>> \in Seq(S)
  OBVIOUS
<1>a. \A S : \A s \in Seq(S), x \in S : Append(s, x) \in Seq(S)
  OBVIOUS
<1>e. /\ "SNIFFER" \in OpModes
      /\ "sniffing" \in Status /\ "closed" \in Status
      /\ "idle" \in Places /\ "opening" \in Places /\ "starting" \in Places
      /\ "unpacking" \in Places /\ "splitting" \in Places
  BY DEF OpModes, Status, Places
<1>p. <<>> \in Packet /\ \A p \in Packet, b \in ByteVal : Append(p, b) \in Packet
  BY DEF Packet
<1>b. \A s \in Status : ButtonsAfter(s) \in Buttons
  BY DEF ButtonsAfter, Buttons
<1>n. 0 \in Nibble /\ 0 * Radix = 0
  BY DEF Nibble
<1>1. Init => TypeOK
  <2> SUFFICES ASSUME Init PROVE TypeOK
    OBVIOUS
  <2>1. buttons \in Buttons
    BY <1>b, <1>e DEF Init
  <2>2. temp \in {n * Radix : n \in Nibble} /\ half \in Nibble
    BY <1>n DEF Init
  <2>3. /\ table \in Seq(Packet) /\ signals \in Seq(Status) /\ list \in Seq(Packet)
        /\ chunk \in Seq(Code) /\ words \in Seq(ByteVal \cup {BreakWord})
        /\ arrived \in Seq(Code) /\ taken \in Seq(Packet) /\ packetBuffer \in Packet
    BY <1>s, <1>p DEF Init
  <2>4. /\ bytes \in 0..MaxBytes /\ breaks \in 0..MaxBreaks
        /\ presses \in 0..MaxPresses /\ failures \in 0..MaxFailures
    BY DEF Init
  <2>5. QED
    BY <2>1, <2>2, <2>3, <2>4, <1>e DEF Init, TypeOK
<1>2. TypeOK /\ [Next]_vars => TypeOK'
  <2> SUFFICES ASSUME TypeOK, [Next]_vars PROVE TypeOK'
    OBVIOUS
  <2> USE DEF TypeOK
  <2> DEFINE ClosedTypes == /\ handle' \in BOOLEAN /\ deviceOpen' \in BOOLEAN
                            /\ arrived' \in Seq(Code) /\ signals' \in Seq(Status)
                            /\ failures' \in 0..MaxFailures
  <2>f. Fail => failures' \in 0..MaxFailures
    BY DEF Fail
  <2>c. Close => ClosedTypes
    BY <2>f, <1>e, <1>s, <1>a DEF Close
  <2>p. Press => /\ presses' \in 0..MaxPresses
                 /\ UNCHANGED <<timer, unpackVars, half, bytes, breaks, packetVars, kept>>
    BY DEF Press
  <2>1. ASSUME NEW x \in OpModes, ModeButton(x) PROVE TypeOK'
    <3>1. ClosedTypes /\ mode' \in {"Sniff", "Transmit"} /\ pc' \in Places
      BY <2>1, <2>c, <1>e DEF ModeButton
    <3>2. QED
      BY <2>1, <2>p, <3>1 DEF ModeButton, unpackVars, packetVars
  <2>2. CASE StartCapture
    <3>1. ClosedTypes /\ pc' \in Places
      <4>1. CASE deviceOpen /\ mode = "Sniff"
        BY <2>2, <2>c, <4>1 DEF StartCapture
      <4>2. CASE ~(deviceOpen /\ mode = "Sniff")
        BY <2>2, <4>2, <1>e DEF StartCapture
      <4>3. QED
        BY <4>1, <4>2
    <3>2. buttons' \in Buttons
      BY <2>2 DEF StartCapture, Buttons
    <3>3. QED
      BY <2>2, <2>p, <3>1, <3>2 DEF StartCapture, unpackVars, packetVars
  <2>3. CASE StopCapture
    BY <2>3, <2>c, <2>p DEF StopCapture, windowVars, unpackVars, packetVars
  <2>4. CASE RestartCapture
    BY <2>4, <2>c, <2>p, <1>e DEF RestartCapture, windowVars, unpackVars, packetVars
  <2>5. CASE RunScript
    BY <2>5, <2>p, <1>e DEF RunScript, windowVars, unpackVars, packetVars
  <2>6. CASE OpenSucceeds
    BY <2>6, <1>e, <1>s DEF OpenSucceeds, InOpen, unpackVars, driverVars, packetVars
  <2>7. CASE OpenFails
    BY <2>7, <2>f, <1>e DEF OpenFails, InOpen, unpackVars, driverVars, packetVars
  <2>8. CASE DeliverStatus
    BY <2>8, <1>b DEF DeliverStatus, openVars, unpackVars, driverVars, packetVars
  <2>9. CASE BeginRead
    <3>1. PICK n \in 1..Len(arrived) :
            chunk' = SubSeq(arrived, 1, n) /\ arrived' = SubSeq(arrived, n + 1, Len(arrived))
      BY <2>9 DEF BeginRead
    <3>2. chunk' \in Seq(Code) /\ arrived' \in Seq(Code)
      BY <3>1
    <3>c. \A i \in 1..Len(chunk') : chunk'[i].nibble \in Nibble
      <4>1. \A i \in 1..Len(chunk') : chunk'[i] \in Code
        BY <3>2
      <4>2. \A c \in Code : c.nibble \in Nibble
        BY DEF Code
      <4>3. QED
        BY <4>1, <4>2
    <3>3. BytesWithin(chunk') \subseteq Nibble
      BY <3>c DEF BytesWithin
    <3>4. kept' \in SUBSET Nibble /\ temp' \in {h * Radix : h \in Nibble}
      BY <2>9, <3>3, <1>n DEF BeginRead
    <3>5. QED
      BY <2>9, <3>2, <3>4, <1>e, <1>s DEF BeginRead, windowVars, openVars, packetVars
  <2>u. ASSUME NEW k, Unpack(k)
        PROVE  /\ chunk' \in Seq(Code) /\ Head(chunk) \in Code
               /\ UNCHANGED <<windowVars, signals, pc, mode, openVars, driverVars,
                              packetVars, presses, kept>>
    BY <2>u DEF Unpack
  <2>w. ByteVal \cup {BreakWord} # {} /\ Code = [kind : {"break", "high", "low"}, nibble : Nibble]
    BY DEF Code
  <2>10. CASE UnpackBreak
    <3>1. words' \in Seq(ByteVal \cup {BreakWord})
      BY <2>10, <1>a DEF UnpackBreak
    <3>2. QED
      BY <2>10, <2>u, <3>1 DEF UnpackBreak, windowVars, openVars, driverVars, packetVars
  <2>11. CASE UnpackHigh
    <3>1. Head(chunk).nibble \in Nibble
      BY <2>11, <2>u, <2>w DEF UnpackHigh
    <3>2. temp' \in {n * Radix : n \in Nibble}
      BY <2>11, <3>1 DEF UnpackHigh
    <3>3. QED
      BY <2>11, <2>u, <3>2 DEF UnpackHigh, windowVars, openVars, driverVars, packetVars
  <2>12. CASE UnpackLow
    <3>1. Head(chunk).nibble \in Nibble
      BY <2>12, <2>u, <2>w DEF UnpackLow
    <3>2. temp + Head(chunk).nibble \in ByteVal
      BY <3>1, NibblesMakeByte
    <3>3. words' \in Seq(ByteVal \cup {BreakWord})
      BY <2>12, <3>2, <1>a DEF UnpackLow
    <3>4. QED
      BY <2>12, <2>u, <3>3 DEF UnpackLow, windowVars, openVars, driverVars, packetVars
  <2>13. CASE EndUnpack
    BY <2>13, <1>e DEF EndUnpack, windowVars, openVars, unpackVars, driverVars, packetVars
  <2>sp. ASSUME Split
         PROVE  /\ words' \in Seq(ByteVal \cup {BreakWord})
                /\ Head(words) \in ByteVal \cup {BreakWord}
                /\ UNCHANGED <<windowVars, signals, pc, mode, openVars, chunk, temp,
                               gotHigh, driverVars, taken, presses, kept>>
    BY <2>sp DEF Split
  <2>14. CASE SplitPacket
    BY <2>14, <2>sp, <1>p DEF SplitPacket, windowVars, openVars, driverVars
  <2>15. CASE SplitByte
    <3>1. packetBuffer' \in Packet
      BY <2>15, <2>sp, <1>p, ByteOfWord DEF SplitByte
    <3>2. QED
      BY <2>15, <2>sp, <3>1 DEF SplitByte, windowVars, openVars, driverVars
  <2>16. CASE EndReadFetches
    <3>1. taken \o list \in Seq(Packet) /\ table \o list \in Seq(Packet)
      BY ConcatProperties
    <3>2. taken' \in Seq(Packet) /\ table' \in Seq(Packet) /\ list' \in Seq(Packet)
      BY <2>16, <3>1, <1>s DEF EndReadFetches
    <3>3. QED
      BY <2>16, <3>2, <1>e DEF EndReadFetches, InEndRead, openVars, unpackVars, driverVars
  <2>17. CASE EndReadLeaves
    BY <2>17, <1>e DEF EndReadLeaves, InEndRead, openVars, unpackVars, driverVars
  <2>a. ASSUME NEW d \in Code, Arrive(d)
        PROVE  /\ arrived' \in Seq(Code)
               /\ UNCHANGED <<windowVars, signals, pc, mode, openVars, unpackVars,
                              packetVars, presses, kept>>
    BY <2>a DEF Arrive
  <2>18. CASE SendBreak
    <3>1. [kind |-> "break", nibble |-> 0] \in Code
      BY <1>n DEF Code
    <3>2. breaks' \in 0..MaxBreaks
      BY <2>18 DEF SendBreak
    <3>3. QED
      BY <2>18, <2>a, <3>1, <3>2 DEF SendBreak, windowVars, openVars, unpackVars, packetVars
  <2>19. CASE SendHigh
    <3>1. bytes + 1 \in Nibble /\ bytes + 1 \in 0..MaxBytes
      BY <2>19 DEF SendHigh, Nibble
    <3>2. [kind |-> "high", nibble |-> bytes + 1] \in Code
      BY <3>1 DEF Code
    <3>3. QED
      BY <2>19, <2>a, <3>1, <3>2 DEF SendHigh, windowVars, openVars, unpackVars, packetVars
  <2>20. CASE SendLow
    <3>1. [kind |-> "low", nibble |-> half] \in Code
      BY DEF Code
    <3>2. QED
      BY <2>20, <2>a, <3>1, <1>n DEF SendLow, windowVars, openVars, unpackVars, packetVars
  <2>21. CASE UNCHANGED vars
    BY <2>21 DEF vars, windowVars, openVars, unpackVars, driverVars, packetVars
  <2>22. QED
    BY <2>1, <2>2, <2>3, <2>4, <2>5, <2>6, <2>7, <2>8, <2>9, <2>10, <2>11, <2>12,
       <2>13, <2>14, <2>15, <2>16, <2>17, <2>18, <2>19, <2>20, <2>21
       DEF Next, User, Gui, Whip
<1>3. QED
  BY <1>1, <1>2, PTL DEF Spec

-----------------------------------------------------------------------------
\* The device counts as open only while FTDComm holds a handle, and a handle
\* nobody closed is left behind only by a driver call that failed.
THEOREM HandleCorrect == Spec => []HandleFollowsDevice
<1>1. Init => HandleFollowsDevice
  BY DEF Init, HandleFollowsDevice
<1>2. TypeOK /\ HandleFollowsDevice /\ [Next]_vars => HandleFollowsDevice'
  <2> SUFFICES ASSUME TypeOK, HandleFollowsDevice, [Next]_vars
               PROVE  HandleFollowsDevice'
    OBVIOUS
  <2>t. failures \in Nat /\ {handle, deviceOpen, timer} \subseteq BOOLEAN
    BY ConstantsAssumption DEF TypeOK
  <2> USE DEF HandleFollowsDevice
  <2>s. ASSUME UNCHANGED openVars PROVE HandleFollowsDevice'
    BY <2>s DEF openVars
  <2>c. ASSUME Close, UNCHANGED timer PROVE HandleFollowsDevice'
    BY <2>c, <2>t DEF Close, Fail
  <2>1. CASE User
    <3>1. ASSUME NEW x \in OpModes, ModeButton(x) PROVE HandleFollowsDevice'
      BY <3>1, <2>c DEF ModeButton, Press
    <3>2. CASE StartCapture
      BY <3>2, <2>c, <2>s DEF StartCapture, Press, openVars
    <3>3. CASE StopCapture \/ RestartCapture
      BY <3>3, <2>c DEF StopCapture, RestartCapture, Press
    <3>4. CASE RunScript
      BY <3>4, <2>s DEF RunScript, Press, openVars
    <3>5. QED
      BY <2>1, <3>1, <3>2, <3>3, <3>4 DEF User
  <2>2. CASE OpenSucceeds
    BY <2>2 DEF OpenSucceeds
  <2>3. CASE OpenFails
    BY <2>3, <2>t DEF OpenFails, Fail
  <2>4. CASE DeliverStatus \/ BeginRead \/ EndUnpack
    BY <2>4, <2>s DEF DeliverStatus, BeginRead, EndUnpack
  <2>5. CASE UnpackBreak \/ UnpackHigh \/ UnpackLow
    BY <2>5, <2>s DEF UnpackBreak, UnpackHigh, UnpackLow, Unpack
  <2>6. CASE SplitPacket \/ SplitByte
    BY <2>6, <2>s DEF SplitPacket, SplitByte, Split
  <2>7. CASE EndReadFetches \/ EndReadLeaves
    BY <2>7, <2>s DEF EndReadFetches, EndReadLeaves, InEndRead
  <2>8. CASE Whip
    BY <2>8, <2>s DEF Whip, SendBreak, SendHigh, SendLow, Arrive
  <2>9. CASE UNCHANGED vars
    BY <2>9, <2>s DEF vars
  <2>10. QED
    BY <2>1, <2>2, <2>3, <2>4, <2>5, <2>6, <2>7, <2>8, <2>9 DEF Next, Gui
<1>3. QED
  BY <1>1, <1>2, TypeCorrect, PTL DEF Spec

-----------------------------------------------------------------------------
\* The signal the window will be left with.
DeviceStatus == IF deviceOpen THEN "sniffing" ELSE "closed"

\* The strengthening of ButtonsFollowDevice: with no driver call failed, open is
\* only reached with the device closed, the last signal on its way tells the
\* state of the device, and with none on its way the buttons show it, but for
\* Start's mark while startCapture is about to open.
ButtonsInv ==
  failures = 0 /\ mode = "Sniff" =>
    /\ pc \in {"opening", "starting"} => ~deviceOpen
    /\ signals # <<>> => signals[Len(signals)] = DeviceStatus
    /\ signals = <<>> /\ pc # "starting" => buttons = ButtonsAfter(DeviceStatus)

\* The last of the signals after one more is queued.
LEMMA LastAfterAppend ==
  ASSUME NEW S, NEW q \in Seq(S), NEW e \in S
  PROVE  Append(q, e) # <<>> /\ Append(q, e)[Len(Append(q, e))] = e
  OBVIOUS

\* The last of the signals after the first is delivered.
LEMMA LastAfterTail ==
  ASSUME NEW S, NEW q \in Seq(S), q # <<>>
  PROVE  /\ Tail(q) # <<>> => Tail(q)[Len(Tail(q))] = q[Len(q)]
         /\ Tail(q) = <<>> => Head(q) = q[Len(q)]
<1>1. Len(q) \in Nat \ {0} /\ Len(Tail(q)) = Len(q) - 1 /\ Head(q) = q[1]
  OBVIOUS
<1>2. ASSUME Tail(q) # <<>> PROVE Tail(q)[Len(Tail(q))] = q[Len(q)]
  <2>1. Tail(q) \in Seq(S) /\ Len(Tail(q)) \in 1..(Len(q) - 1)
    BY <1>1, <1>2
  <2>2. \A i \in 1..(Len(q) - 1) : Tail(q)[i] = q[i + 1]
    OBVIOUS
  <2>3. QED
    BY <2>1, <2>2, <1>1
<1>3. Tail(q) = <<>> => Head(q) = q[Len(q)]
  <2>1. Tail(q) \in Seq(S)
    OBVIOUS
  <2>2. Tail(q) = <<>> <=> Len(Tail(q)) = 0
    BY <2>1, EmptySeq
  <2>3. QED
    BY <1>1, <2>2
<1>4. QED
  BY <1>2, <1>3

\* The capture buttons show whether the device is open, however presses,
\* mode changes and queued signals interleave, while no driver call fails.
THEOREM ButtonsCorrect == Spec => []ButtonsFollowDevice
<1>1. Init => ButtonsInv
  BY DEF Init, ButtonsInv, DeviceStatus
<1>2. TypeOK /\ HandleFollowsDevice /\ ButtonsInv /\ [Next]_vars => ButtonsInv'
  <2> SUFFICES ASSUME TypeOK, HandleFollowsDevice, ButtonsInv, [Next]_vars,
                      failures' = 0, mode' = "Sniff"
               PROVE  /\ pc' \in {"opening", "starting"} => ~deviceOpen'
                      /\ signals' # <<>> => signals'[Len(signals')] = DeviceStatus'
                      /\ signals' = <<>> /\ pc' # "starting" => buttons' = ButtonsAfter(DeviceStatus)'
    BY DEF ButtonsInv
  <2> DEFINE Goal == /\ pc' \in {"opening", "starting"} => ~deviceOpen'
                     /\ signals' # <<>> => signals'[Len(signals')] = DeviceStatus'
                     /\ signals' = <<>> /\ pc' # "starting" => buttons' = ButtonsAfter(DeviceStatus)'
  <2>t. signals \in Seq(Status) /\ "closed" \in Status /\ "sniffing" \in Status
        /\ failures \in Nat
    BY ConstantsAssumption DEF TypeOK, Status
  <2>c. ASSUME Close PROVE Goal
    <3>1. signals' = Append(signals, "closed") /\ deviceOpen' = FALSE
      BY <2>c DEF Close
    <3>2. signals' # <<>> /\ signals'[Len(signals')] = "closed"
      BY <3>1, <2>t, LastAfterAppend
    <3>3. QED
      BY <3>1, <3>2 DEF DeviceStatus
  <2>s. ASSUME UNCHANGED <<signals, pc, deviceOpen, buttons, mode, failures>> PROVE Goal
    BY <2>s DEF ButtonsInv, DeviceStatus, ButtonsAfter
  <2>1. ASSUME NEW x \in OpModes, ModeButton(x) PROVE Goal
    BY <2>1, <2>c DEF ModeButton
  <2>2. CASE StartCapture
    <3>1. CASE deviceOpen
      BY <2>2, <3>1, <2>c DEF StartCapture
    <3>2. CASE ~deviceOpen
      <4>1. /\ pc' = "starting" /\ UNCHANGED <<deviceOpen, signals, mode, failures>>
        BY <2>2, <3>2 DEF StartCapture
      <4>2. QED
        BY <3>2, <4>1 DEF ButtonsInv, DeviceStatus
    <3>3. QED
      BY <3>1, <3>2
  <2>3. CASE StopCapture \/ RestartCapture
    BY <2>3, <2>c DEF StopCapture, RestartCapture
  <2>4. CASE RunScript
    BY <2>4 DEF RunScript
  <2>5. CASE OpenSucceeds
    <3>1. signals' = Append(signals, "sniffing") /\ deviceOpen' = TRUE /\ pc' = "idle"
      BY <2>5 DEF OpenSucceeds, InOpen
    <3>2. signals' # <<>> /\ signals'[Len(signals')] = "sniffing"
      BY <3>1, <2>t, LastAfterAppend
    <3>3. QED
      BY <3>1, <3>2 DEF DeviceStatus
  <2>6. CASE OpenFails
    <3>1. CASE ~handle
      BY <2>6, <3>1, <2>t DEF OpenFails, Fail
    <3>2. CASE handle
      <4>1. failures = 0 /\ mode = "Sniff" /\ pc \in {"opening", "starting"}
        BY <2>6, <3>2 DEF OpenFails, InOpen
      <4>2. QED
        BY <3>2, <4>1 DEF ButtonsInv, HandleFollowsDevice
    <3>3. QED
      BY <3>1, <3>2
  <2>7. CASE DeliverStatus
    <3>1. /\ signals # <<>> /\ signals' = Tail(signals)
          /\ buttons' = ButtonsAfter(Head(signals)) /\ pc = "idle"
          /\ UNCHANGED <<pc, mode, deviceOpen, failures>>
      BY <2>7 DEF DeliverStatus, openVars
    <3>2. signals[Len(signals)] = DeviceStatus
      BY <3>1 DEF ButtonsInv
    <3>3. /\ signals' # <<>> => signals'[Len(signals')] = DeviceStatus
          /\ signals' = <<>> => Head(signals) = DeviceStatus
      BY <3>1, <3>2, <2>t, LastAfterTail
    <3>4. QED
      BY <3>1, <3>3 DEF DeviceStatus, ButtonsAfter
  <2>8. CASE BeginRead \/ EndUnpack
    BY <2>8 DEF BeginRead, EndUnpack, windowVars, openVars, ButtonsInv, DeviceStatus,
                ButtonsAfter
  <2>9. CASE UnpackBreak \/ UnpackHigh \/ UnpackLow
    BY <2>9, <2>s DEF UnpackBreak, UnpackHigh, UnpackLow, Unpack, windowVars, openVars
  <2>10. CASE SplitPacket \/ SplitByte
    BY <2>10, <2>s DEF SplitPacket, SplitByte, Split, windowVars, openVars
  <2>11. CASE EndReadFetches \/ EndReadLeaves
    BY <2>11 DEF EndReadFetches, EndReadLeaves, InEndRead, openVars, ButtonsInv,
                 DeviceStatus, ButtonsAfter
  <2>12. CASE Whip
    BY <2>12, <2>s DEF Whip, SendBreak, SendHigh, SendLow, Arrive, windowVars, openVars
  <2>13. CASE UNCHANGED vars
    BY <2>13, <2>s DEF vars, windowVars, openVars
  <2>14. QED
    BY <2>1, <2>2, <2>3, <2>4, <2>5, <2>6, <2>7, <2>8, <2>9, <2>10, <2>11, <2>12, <2>13
       DEF Next, User, Gui
<1>3. ButtonsInv => ButtonsFollowDevice
  BY DEF ButtonsInv, ButtonsFollowDevice, DeviceStatus
<1>4. QED
  BY <1>1, <1>2, <1>3, TypeCorrect, HandleCorrect, PTL DEF Spec

-----------------------------------------------------------------------------
\* The Whip implements the hand-off of packets: a break that ends a packet is
\* a Put, the fetch at the end of a read a GetAll, and every other step leaves
\* both sequences alone.
THEOREM HandoffImplemented == Spec => ImplementsHandoff
<1>1. Init => Handoff!Init
  BY DEF Init, Handoff!Init
<1>2. TypeOK /\ [Next]_vars => [Handoff!Next]_(Handoff!vars)
  <2> SUFFICES ASSUME TypeOK, [Next]_vars PROVE [Handoff!Next]_(Handoff!vars)
    OBVIOUS
  <2>t. list \in Seq(Packet) /\ taken \in Seq(Packet) /\ packetBuffer \in Packet
    BY DEF TypeOK
  <2>s. ASSUME UNCHANGED <<taken, list>> PROVE [Handoff!Next]_(Handoff!vars)
    BY <2>s DEF Handoff!vars
  <2>1. CASE SplitPacket
    <3>1. list' = Append(list, packetBuffer) /\ taken' = taken
      BY <2>1 DEF SplitPacket, Split
    <3>2. (taken \o list)' = Append(taken \o list, packetBuffer)
      BY <3>1, <2>t, AppendConcat
    <3>3. taken \o list \in Seq(Packet)
      BY <2>t
    <3>4. Handoff!Put
      BY <3>1, <3>2, <3>3, <2>t DEF Handoff!Put
    <3>5. QED
      BY <3>4 DEF Handoff!Next
  <2>2. CASE EndReadFetches
    <3>1. list' = <<>> /\ taken' = taken \o list
      BY <2>2 DEF EndReadFetches
    <3>2. taken \o list \in Seq(Packet)
      BY <2>t
    <3>3. (taken \o list)' = taken \o list
      BY <3>1, <3>2
    <3>4. Handoff!GetAll
      BY <3>1, <3>3 DEF Handoff!GetAll
    <3>5. QED
      BY <3>4 DEF Handoff!Next
  <2>3. CASE User
    BY <2>3, <2>s DEF User, ModeButton, StartCapture, StopCapture, RestartCapture,
                      RunScript, Press, packetVars
  <2>4. CASE OpenSucceeds \/ OpenFails \/ DeliverStatus \/ BeginRead \/ EndUnpack
    BY <2>4, <2>s DEF OpenSucceeds, OpenFails, InOpen, DeliverStatus, BeginRead,
                      EndUnpack, packetVars
  <2>5. CASE UnpackBreak \/ UnpackHigh \/ UnpackLow
    BY <2>5, <2>s DEF UnpackBreak, UnpackHigh, UnpackLow, Unpack, packetVars
  <2>6. CASE SplitByte
    BY <2>6, <2>s DEF SplitByte, Split
  <2>7. CASE EndReadLeaves
    BY <2>7, <2>s DEF EndReadLeaves
  <2>8. CASE Whip
    BY <2>8, <2>s DEF Whip, SendBreak, SendHigh, SendLow, Arrive, packetVars
  <2>9. CASE UNCHANGED vars
    BY <2>9, <2>s DEF vars, packetVars
  <2>10. QED
    BY <2>1, <2>2, <2>3, <2>4, <2>5, <2>6, <2>7, <2>8, <2>9 DEF Next, Gui
<1>3. QED
  BY <1>1, <1>2, TypeCorrect, PTL DEF Spec, ImplementsHandoff, Handoff!Spec

-----------------------------------------------------------------------------
(* The data bytes: what is on its way as coded bytes, as words and as      *)
(* bytes of packets.                                                       *)

\* The coded bytes on their way, the rest of the current read first.
Coded == chunk \o arrived

\* Coded bytes c as the Whip sends them, n data bytes begun and h half sent:
\* high nibbles rise, and the low nibble of a byte follows its high one unless
\* it has not been sent yet.
WellCoded(c, h, n) ==
  /\ h \in 0..n
  /\ \A i \in 1..Len(c) : c[i].kind # "break" => c[i].nibble \in 1..n
  /\ \A i, j \in 1..Len(c) :
       i < j /\ c[i].kind = "high" /\ c[j].kind = "high" => c[i].nibble < c[j].nibble
  /\ \A i \in 1..Len(c) :
       c[i].kind = "high" =>
         /\ i = Len(c) => h = c[i].nibble
         /\ i < Len(c) => c[i + 1].kind = "low" /\ c[i + 1].nibble = c[i].nibble

\* Nothing on its way is well coded.
LEMMA CodedEmpty ==
  ASSUME NEW n \in Nat, NEW h \in 0..n
  PROVE  WellCoded(<<>>, h, n)
  BY DEF WellCoded

\* A well coded stream stays one when its first coded byte is taken.
LEMMA CodedTail ==
  ASSUME NEW S, NEW c \in Seq(S), c # <<>>, NEW h, NEW n \in Nat, WellCoded(c, h, n)
  PROVE  WellCoded(Tail(c), h, n)
<1> DEFINE d == Tail(c)
<1>1. /\ Len(c) \in Nat /\ Len(d) = Len(c) - 1 /\ Len(d) \in Nat
      /\ \A i \in 1..Len(d) : d[i] = c[i + 1]
  OBVIOUS
<1> HIDE DEF d
<1>2. ASSUME NEW i \in 1..Len(d), d[i].kind # "break" PROVE d[i].nibble \in 1..n
  <2>1. i + 1 \in 1..Len(c) /\ d[i] = c[i + 1]
    BY <1>1
  <2> QED
    BY <1>2, <2>1 DEF WellCoded
<1>3. ASSUME NEW i \in 1..Len(d), NEW j \in 1..Len(d), i < j, d[i].kind = "high", d[j].kind = "high"
      PROVE  d[i].nibble < d[j].nibble
  <2>1. /\ i + 1 \in 1..Len(c) /\ d[i] = c[i + 1] /\ j + 1 \in 1..Len(c) /\ d[j] = c[j + 1]
        /\ i + 1 < j + 1
    BY <1>1, <1>3
  <2> QED
    BY <1>3, <2>1 DEF WellCoded
<1>4. ASSUME NEW i \in 1..Len(d), d[i].kind = "high"
      PROVE  /\ i = Len(d) => h = d[i].nibble
             /\ i < Len(d) => d[i + 1].kind = "low" /\ d[i + 1].nibble = d[i].nibble
  <2>1. /\ i + 1 \in 1..Len(c) /\ d[i] = c[i + 1]
        /\ i = Len(d) => i + 1 = Len(c)
        /\ i < Len(d) => i + 1 < Len(c) /\ d[i + 1] = c[i + 1 + 1]
    BY <1>1
  <2> QED
    BY <1>4, <2>1 DEF WellCoded
<1>5. h \in 0..n
  BY DEF WellCoded
<1>6. WellCoded(d, h, n)
  BY <1>2, <1>3, <1>4, <1>5 DEF WellCoded
<1> QED
  BY <1>6 DEF d

\* What one more coded byte does to a sequence.
LEMMA AfterAppend ==
  ASSUME NEW S, NEW c \in Seq(S), NEW x \in S
  PROVE  /\ Len(Append(c, x)) = Len(c) + 1 /\ Len(c) \in Nat
         /\ \A i \in 1..Len(c) : Append(c, x)[i] = c[i]
         /\ Append(c, x)[Len(c) + 1] = x
  OBVIOUS

\* It stays one when the Whip sends a break, a high nibble or a low one.
LEMMA CodedSent ==
  ASSUME NEW S, NEW c \in Seq(S), NEW h, NEW n \in Nat, WellCoded(c, h, n),
         NEW x \in S, NEW g, NEW m \in Nat,
         \/ h = 0 /\ x.kind = "break" /\ g = 0 /\ m = n
         \/ h = 0 /\ x.kind = "high" /\ x.nibble = n + 1 /\ g = n + 1 /\ m = n + 1
         \/ h # 0 /\ x.kind = "low" /\ x.nibble = h /\ g = 0 /\ m = n
  PROVE  WellCoded(Append(c, x), g, m)
<1> DEFINE d == Append(c, x)
           l == Len(c)
<1>1. /\ Len(d) = l + 1 /\ l \in Nat
      /\ \A i \in 1..l : d[i] = c[i]
      /\ d[l + 1] = x
  BY AfterAppend
<1> HIDE DEF d
<1>2. g \in 0..m
  OBVIOUS
<1>3. ASSUME NEW i \in 1..Len(d), d[i].kind # "break" PROVE d[i].nibble \in 1..m
  <2>1. CASE i = l + 1
    BY <1>1, <1>3, <2>1 DEF WellCoded
  <2>2. CASE i \in 1..l
    BY <1>1, <1>3, <2>2 DEF WellCoded
  <2> QED
    BY <1>1, <2>1, <2>2
<1>4. ASSUME NEW i \in 1..Len(d), NEW j \in 1..Len(d), i < j, d[i].kind = "high", d[j].kind = "high"
      PROVE  d[i].nibble < d[j].nibble
  <2>1. i \in 1..l /\ d[i] = c[i]
    BY <1>1, <1>4
  <2>2. CASE j = l + 1
    BY <1>1, <1>4, <2>1, <2>2 DEF WellCoded
  <2>3. CASE j \in 1..l
    BY <1>1, <1>4, <2>1, <2>3 DEF WellCoded
  <2> QED
    BY <1>1, <2>2, <2>3
<1>5. ASSUME NEW i \in 1..Len(d), d[i].kind = "high"
      PROVE  /\ i = Len(d) => g = d[i].nibble
             /\ i < Len(d) => d[i + 1].kind = "low" /\ d[i + 1].nibble = d[i].nibble
  <2>1. CASE i = l + 1
    BY <1>1, <1>5, <2>1
  <2>2. CASE i = l
    <3>1. l \in 1..l /\ c[l].kind = "high" /\ d[i] = c[l] /\ d[i + 1] = x
      BY <1>1, <1>5, <2>2
    <3>2. h = c[l].nibble /\ h # 0
      BY <3>1 DEF WellCoded
    <3> QED
      BY <1>1, <2>2, <3>1, <3>2
  <2>3. CASE i \in 1..(l - 1)
    <3>1. i \in 1..l /\ i + 1 \in 1..l /\ i < l /\ i < Len(d) /\ i # Len(d) /\ l = Len(c)
      BY <1>1, <2>3
    <3>2. d[i] = c[i] /\ d[i + 1] = c[i + 1]
      BY <1>1, <3>1
    <3> HIDE DEF l
    <3> QED
      BY <1>5, <3>1, <3>2 DEF WellCoded
  <2> QED
    BY <1>1, <2>1, <2>2, <2>3
<1>6. WellCoded(d, g, m)
  BY <1>2, <1>3, <1>4, <1>5 DEF WellCoded
<1> QED
  BY <1>6 DEF d

\* The numbers of the data bytes whose high nibble is in c.
Highs(c) == {c[i].nibble : i \in {k \in 1..Len(c) : c[k].kind = "high"}}

\* The high nibble of the next byte has been unpacked, its low one has not.
HalfUnpacked == gotHigh /\ chunk # <<>>

\* What is on its way is well coded; a high nibble just unpacked belongs to the
\* low nibble that is next, and to a byte before all the others on their way.
CodedInv ==
  /\ pc # "unpacking" => chunk = <<>>
  /\ WellCoded(Coded, half, bytes)
  /\ HalfUnpacked =>
       /\ Head(chunk).kind = "low"
       /\ temp = Head(chunk).nibble * Radix
       /\ Head(chunk).nibble \in 1..bytes
       /\ \A m \in Highs(Coded) : Head(chunk).nibble < m
  /\ kept \subseteq 1..bytes

\* The highs left when the first coded byte is taken.
LEMMA HighsTail ==
  ASSUME NEW S, NEW c \in Seq(S), c # <<>>
  PROVE  /\ Highs(Tail(c)) \subseteq Highs(c)
         /\ Head(c).kind = "high" => Head(c).nibble \in Highs(c)
         /\ Head(c).kind # "high" => Highs(Tail(c)) = Highs(c)
<1> DEFINE d == Tail(c)
<1>1. /\ Len(c) \in Nat \ {0} /\ Len(d) = Len(c) - 1
      /\ \A i \in 1..Len(d) : d[i] = c[i + 1]
      /\ Head(c) = c[1]
  OBVIOUS
<1> HIDE DEF d
<1>2. ASSUME NEW m \in Highs(d) PROVE m \in Highs(c)
  <2>1. PICK i \in 1..Len(d) : d[i].kind = "high" /\ m = d[i].nibble
    BY <1>2 DEF Highs
  <2>2. i + 1 \in 1..Len(c) /\ d[i] = c[i + 1]
    BY <1>1
  <2> QED
    BY <2>1, <2>2 DEF Highs
<1>3. 1 \in 1..Len(c)
  BY <1>1
<1>4. Head(c).kind = "high" => Head(c).nibble \in Highs(c)
  BY <1>1, <1>3 DEF Highs
<1>5. ASSUME Head(c).kind # "high", NEW m \in Highs(c) PROVE m \in Highs(d)
  <2>1. PICK i \in 1..Len(c) : c[i].kind = "high" /\ m = c[i].nibble
    BY <1>5 DEF Highs
  <2>2. i - 1 \in 1..Len(d) /\ d[i - 1] = c[i]
    <3>1. i # 1
      BY <1>1, <1>5, <2>1
    <3>2. i - 1 \in 1..Len(d) /\ (i - 1) + 1 = i
      BY <1>1, <3>1
    <3> QED
      BY <1>1, <3>2
  <2> QED
    BY <2>1, <2>2 DEF Highs
<1> QED
  BY <1>2, <1>4, <1>5 DEF d

\* The highs once one more coded byte is sent.
LEMMA HighsAppend ==
  ASSUME NEW S, NEW c \in Seq(S), NEW x \in S
  PROVE  Highs(Append(c, x)) = Highs(c) \cup {y \in {x.nibble} : x.kind = "high"}
<1> DEFINE d == Append(c, x)
           l == Len(c)
<1>1. /\ Len(d) = l + 1 /\ l \in Nat
      /\ \A i \in 1..l : d[i] = c[i]
      /\ d[l + 1] = x
  BY AfterAppend
<1> HIDE DEF d
<1>2. ASSUME NEW m \in Highs(d) PROVE m \in Highs(c) \/ (m = x.nibble /\ x.kind = "high")
  <2>1. PICK i \in 1..Len(d) : d[i].kind = "high" /\ m = d[i].nibble
    BY <1>2 DEF Highs
  <2>2. i = l + 1 \/ (i \in 1..l /\ d[i] = c[i])
    BY <1>1
  <2> QED
    BY <1>1, <2>1, <2>2 DEF Highs
<1>3. ASSUME NEW m \in Highs(c) PROVE m \in Highs(d)
  <2>1. PICK i \in 1..Len(c) : c[i].kind = "high" /\ m = c[i].nibble
    BY <1>3 DEF Highs
  <2>2. i \in 1..Len(d) /\ d[i] = c[i]
    BY <1>1
  <2> QED
    BY <2>1, <2>2 DEF Highs
<1>4. x.kind = "high" => x.nibble \in Highs(d)
  <2>1. l + 1 \in 1..Len(d)
    BY <1>1
  <2> QED
    BY <1>1, <2>1 DEF Highs
<1> QED
  BY <1>2, <1>3, <1>4 DEF d

\* The highs of a well coded stream number data bytes begun.
LEMMA HighsBegun ==
  ASSUME NEW c, NEW h, NEW n, WellCoded(c, h, n)
  PROVE  Highs(c) \subseteq 1..n
<1>1. ASSUME NEW m \in Highs(c) PROVE m \in 1..n
  <2>1. PICK i \in 1..Len(c) : c[i].kind = "high" /\ m = c[i].nibble
    BY <1>1 DEF Highs
  <2> QED
    BY <2>1 DEF WellCoded
<1> QED
  BY <1>1

\* A high nibble at the head comes before every other, and its low nibble next.
LEMMA HeadHigh ==
  ASSUME NEW S, NEW c \in Seq(S), c # <<>>, NEW h, NEW n, WellCoded(c, h, n),
         Head(c).kind = "high"
  PROVE  /\ \A m \in Highs(Tail(c)) : Head(c).nibble < m
         /\ Tail(c) # <<>> =>
              Head(Tail(c)).kind = "low" /\ Head(Tail(c)).nibble = Head(c).nibble
<1> DEFINE d == Tail(c)
<1>1. /\ Len(c) \in Nat \ {0} /\ Len(d) = Len(c) - 1 /\ d \in Seq(S)
      /\ \A i \in 1..Len(d) : d[i] = c[i + 1]
      /\ Head(c) = c[1]
  OBVIOUS
<1> HIDE DEF d
<1>2. 1 \in 1..Len(c)
  BY <1>1
<1>3. ASSUME NEW m \in Highs(d) PROVE Head(c).nibble < m
  <2>1. PICK i \in 1..Len(d) : d[i].kind = "high" /\ m = d[i].nibble
    BY <1>3 DEF Highs
  <2>2. i + 1 \in 1..Len(c) /\ d[i] = c[i + 1] /\ 1 < i + 1
    BY <1>1
  <2> QED
    BY <1>1, <1>2, <2>1, <2>2 DEF WellCoded
<1>4. ASSUME d # <<>> PROVE Head(d).kind = "low" /\ Head(d).nibble = Head(c).nibble
  <2>1. Len(d) \in Nat \ {0} /\ Head(d) = d[1]
    BY <1>1, <1>4
  <2>2. 1 \in 1..Len(d) /\ d[1] = c[1 + 1] /\ 1 < Len(c)
    BY <1>1, <2>1
  <2> QED
    BY <1>1, <1>2, <2>1, <2>2 DEF WellCoded
<1> QED
  BY <1>3, <1>4 DEF d

\* Taking the first coded byte of the read takes it off what is on its way.
LEMMA CodedUnpacked ==
  ASSUME NEW S, NEW c \in Seq(S), NEW a \in Seq(S), c # <<>>
  PROVE  /\ c \o a \in Seq(S) /\ c \o a # <<>>
         /\ Head(c \o a) = Head(c) /\ Tail(c \o a) = Tail(c) \o a
  OBVIOUS

\* A read of the first n coded bytes leaves all that is on its way in order.
LEMMA CodedRead ==
  ASSUME NEW S, NEW a \in Seq(S), NEW n \in 1..Len(a)
  PROVE  /\ SubSeq(a, 1, n) \o SubSeq(a, n + 1, Len(a)) = a
         /\ SubSeq(a, 1, n) \in Seq(S) /\ SubSeq(a, n + 1, Len(a)) \in Seq(S)
         /\ SubSeq(a, 1, n) # <<>>
  OBVIOUS

\* The data bytes within a read are of those begun.
LEMMA WithinBegun ==
  ASSUME NEW S, NEW c \in Seq(S), NEW a \in Seq(S), NEW h, NEW n, WellCoded(c \o a, h, n)
  PROVE  BytesWithin(c) \subseteq 1..n
<1>1. \A i \in 1..Len(c) : i \in 1..Len(c \o a) /\ (c \o a)[i] = c[i]
  OBVIOUS
<1> DEFINE d == c \o a
<1> HIDE DEF d
<1>2. \A i \in 1..Len(c) : c[i].kind = "high" => c[i].nibble \in 1..n
  BY <1>1 DEF WellCoded, d
<1> QED
  BY <1>2 DEF BytesWithin

\* The Whip sends whole bytes, and the unpacking meets the nibbles in pairs.
LEMMA CodedInvCorrect == Spec => []CodedInv
<1> USE ConstantsAssumption
<1>1. Init => CodedInv
  <2> SUFFICES ASSUME Init PROVE CodedInv
    OBVIOUS
  <2>1. Coded = <<>> /\ half = 0 /\ bytes = 0 /\ chunk = <<>> /\ kept = {}
    BY DEF Init, Coded
  <2>2. WellCoded(Coded, half, bytes)
    BY <2>1, CodedEmpty
  <2> QED
    BY <2>1, <2>2 DEF CodedInv, HalfUnpacked
<1>2. TypeOK /\ CodedInv /\ [Next]_vars => CodedInv'
  <2> SUFFICES ASSUME TypeOK, CodedInv, [Next]_vars PROVE CodedInv'
    OBVIOUS
  <2>t. /\ chunk \in Seq(Code) /\ arrived \in Seq(Code) /\ bytes \in Nat /\ half \in Nat
        /\ Coded \in Seq(Code)
    BY DEF TypeOK, Coded, Nibble
  <2>i. /\ pc # "unpacking" => chunk = <<>>
        /\ WellCoded(Coded, half, bytes) /\ kept \subseteq 1..bytes /\ half \in 0..bytes
    BY DEF CodedInv, WellCoded
  \* Steps that take no coded byte of the read under way.
  <2>s. ASSUME UNCHANGED <<chunk, temp, gotHigh, arrived, half, bytes, kept>>,
               pc = "unpacking" => pc' = "unpacking" \/ chunk = <<>>
        PROVE  CodedInv'
    BY <2>s, <2>i DEF CodedInv, Coded, HalfUnpacked
  \* Steps that close the driver's handle.
  <2>c. ASSUME pc = "idle", UNCHANGED <<chunk, temp, gotHigh, half, bytes, kept>>,
               arrived' = <<>> \/ arrived' = arrived
        PROVE  CodedInv'
    <3>1. chunk' = <<>> /\ ~HalfUnpacked'
      BY <2>c, <2>i DEF HalfUnpacked
    <3>2. Coded' = <<>> \/ Coded' = Coded
      BY <2>c, <2>i, <2>t, <3>1 DEF Coded
    <3>3. WellCoded(Coded', half', bytes')
      BY <2>c, <2>i, <2>t, <3>2, CodedEmpty
    <3> QED
      BY <2>c, <2>i, <3>1, <3>3 DEF CodedInv
  \* Steps that take one.
  <2>u. ASSUME NEW k, Unpack(k)
        PROVE  /\ Head(chunk).kind = k /\ chunk # <<>> /\ pc' = "unpacking"
               /\ UNCHANGED <<half, bytes, kept>>
               /\ chunk' = Tail(chunk) /\ chunk' \in Seq(Code)
               /\ Coded # <<>> /\ Head(Coded) = Head(chunk) /\ Coded' = Tail(Coded)
               /\ WellCoded(Coded', half', bytes')
               /\ Highs(Coded') \subseteq Highs(Coded)
    <3>1. /\ Head(chunk).kind = k /\ chunk # <<>> /\ pc' = "unpacking"
          /\ UNCHANGED <<half, bytes, kept, arrived>> /\ chunk' = Tail(chunk)
      BY <2>u DEF Unpack, driverVars
    <3>2. Coded # <<>> /\ Head(Coded) = Head(chunk) /\ Coded' = Tail(Coded)
      BY <2>t, <3>1, CodedUnpacked DEF Coded
    <3>3. WellCoded(Coded', half', bytes') /\ Highs(Coded') \subseteq Highs(Coded)
      BY <2>t, <2>i, <3>1, <3>2, CodedTail, HighsTail
    <3> QED
      BY <2>t, <3>1, <3>2, <3>3
  \* The Whip's sends.
  <2>a. ASSUME NEW x \in Code, Arrive(x), WellCoded(Append(Coded, x), half', bytes'),
               x.kind = "high" => x.nibble = bytes + 1,
               bytes' \in Nat, bytes' >= bytes
        PROVE  CodedInv'
    <3>1. /\ arrived' = Append(arrived, x)
          /\ UNCHANGED <<pc, chunk, temp, gotHigh, kept>>
      BY <2>a DEF Arrive, unpackVars
    <3>2. Coded' = Append(Coded, x)
      BY <2>t, <3>1, AppendConcat DEF Coded
    <3>3. HalfUnpacked =>
            /\ Head(chunk).nibble \in 1..bytes'
            /\ \A m \in Highs(Coded') : Head(chunk).nibble < m
      <4>1. Highs(Coded') = Highs(Coded) \cup {y \in {x.nibble} : x.kind = "high"}
        BY <2>t, <3>2, HighsAppend
      <4>2. HalfUnpacked => /\ Head(chunk).nibble \in 1..bytes
                            /\ \A m \in Highs(Coded) : Head(chunk).nibble < m
        BY DEF CodedInv
      <4> QED
        BY <2>a, <2>t, <4>1, <4>2
    <3>4. kept' \subseteq 1..bytes'
      BY <2>a, <2>i, <2>t, <3>1
    <3>5. HalfUnpacked' <=> HalfUnpacked
      BY <3>1 DEF HalfUnpacked
    <3>6. HalfUnpacked => Head(chunk).kind = "low" /\ temp = Head(chunk).nibble * Radix
      BY DEF CodedInv
    <3>7. WellCoded(Coded', half', bytes')
      BY <2>a, <3>2
    <3> QED
      BY <2>i, <3>1, <3>3, <3>4, <3>5, <3>6, <3>7 DEF CodedInv
  <2>1. CASE User
    <3>1. Close => arrived' = <<>> \/ arrived' = arrived
      BY DEF Close
    <3>2. Press => pc = "idle" /\ UNCHANGED <<chunk, temp, gotHigh, half, bytes, kept>>
      BY DEF Press, unpackVars
    <3> QED
      BY <2>1, <2>c, <3>1, <3>2 DEF User, ModeButton, StartCapture, StopCapture,
                                    RestartCapture, RunScript
  <2>2. CASE OpenSucceeds \/ OpenFails
    BY <2>2, <2>s DEF OpenSucceeds, OpenFails, InOpen, unpackVars, driverVars
  <2>3. CASE DeliverStatus
    BY <2>3, <2>s DEF DeliverStatus, unpackVars, driverVars
  <2>4. CASE BeginRead
    <3>1. PICK n \in 1..Len(arrived) :
            chunk' = SubSeq(arrived, 1, n) /\ arrived' = SubSeq(arrived, n + 1, Len(arrived))
      BY <2>4 DEF BeginRead
    <3>2. /\ pc = "idle" /\ pc' = "unpacking" /\ gotHigh' = FALSE
          /\ kept' = kept \cup BytesWithin(chunk') /\ UNCHANGED <<half, bytes>>
      BY <2>4 DEF BeginRead
    <3>3. /\ Coded = arrived /\ Coded' = arrived /\ chunk' \in Seq(Code) /\ arrived' \in Seq(Code)
      BY <2>t, <2>i, <3>1, <3>2, CodedRead DEF Coded
    <3>4. WellCoded(Coded', half', bytes')
      BY <2>i, <3>2, <3>3
    <3>5. BytesWithin(chunk') \subseteq 1..bytes'
      BY <3>3, <3>4, WithinBegun DEF Coded
    <3> QED
      BY <2>i, <3>2, <3>4, <3>5 DEF CodedInv, HalfUnpacked
  <2>5. CASE UnpackBreak
    <3>1. Unpack("break") /\ UNCHANGED gotHigh
      BY <2>5 DEF UnpackBreak
    <3>2. gotHigh = FALSE
      BY <2>u, <3>1 DEF CodedInv, HalfUnpacked, TypeOK
    <3> QED
      BY <2>i, <2>u, <3>1, <3>2 DEF CodedInv, HalfUnpacked
  <2>6. CASE UnpackHigh
    <3>1. Unpack("high") /\ temp' = Head(chunk).nibble * Radix
      BY <2>6 DEF UnpackHigh
    <3>2. /\ \A m \in Highs(Coded') : Head(chunk).nibble < m
          /\ Coded' # <<>> =>
               Head(Coded').kind = "low" /\ Head(Coded').nibble = Head(chunk).nibble
      BY <2>t, <2>i, <2>u, <3>1, HeadHigh
    <3>3. chunk' # <<>> => Coded' # <<>> /\ Head(Coded') = Head(chunk')
      <4>1. arrived' = arrived /\ chunk' \in Seq(Code)
        BY <2>u, <3>1 DEF Unpack, driverVars
      <4> QED
        BY <2>t, <4>1, CodedUnpacked DEF Coded
    <3>4. Head(chunk).nibble \in 1..bytes
      <4>1. Head(chunk).nibble \in Highs(Coded)
        BY <2>t, <2>u, <3>1, HighsTail
      <4> QED
        BY <2>i, <4>1, HighsBegun
    <3> QED
      BY <2>i, <2>u, <3>1, <3>2, <3>3, <3>4 DEF CodedInv, HalfUnpacked
  <2>7. CASE UnpackLow
    <3>1. Unpack("low") /\ gotHigh' = FALSE
      BY <2>7 DEF UnpackLow
    <3> QED
      BY <2>i, <2>u, <3>1 DEF CodedInv, HalfUnpacked
  <2>8. CASE EndUnpack
    BY <2>8, <2>s DEF EndUnpack, unpackVars, driverVars
  <2>9. CASE SplitPacket \/ SplitByte
    BY <2>9, <2>s DEF SplitPacket, SplitByte, Split, driverVars
  <2>10. CASE EndReadFetches \/ EndReadLeaves
    BY <2>10, <2>s DEF EndReadFetches, EndReadLeaves, InEndRead, unpackVars, driverVars
  <2>11. CASE SendBreak
    <3> DEFINE x == [kind |-> "break", nibble |-> 0]
    <3>1. x \in Code /\ x.kind = "break"
      BY DEF Code, Nibble
    <3> HIDE DEF x
    <3>2. half = 0 /\ Arrive(x) /\ half' = 0 /\ bytes' = bytes
      BY <2>11 DEF SendBreak, x
    <3>3. WellCoded(Append(Coded, x), half', bytes')
      BY <2>t, <2>i, <3>1, <3>2, CodedSent
    <3> QED
      BY <2>a, <2>t, <3>1, <3>2, <3>3
  <2>12. CASE SendHigh
    <3> DEFINE x == [kind |-> "high", nibble |-> bytes + 1]
    <3>1. x \in Code /\ x.kind = "high" /\ x.nibble = bytes + 1
      BY <2>12, <2>t DEF Code, Nibble, SendHigh
    <3> HIDE DEF x
    <3>2. half = 0 /\ Arrive(x) /\ half' = bytes + 1 /\ bytes' = bytes + 1
      BY <2>12 DEF SendHigh, x
    <3>3. WellCoded(Append(Coded, x), half', bytes')
      <4>1. bytes' \in Nat
        BY <2>t, <3>2
      <4> QED
        BY <2>t, <2>i, <3>1, <3>2, <4>1, CodedSent
    <3> QED
      BY <2>a, <2>t, <3>1, <3>2, <3>3
  <2>13. CASE SendLow
    <3> DEFINE x == [kind |-> "low", nibble |-> half]
    <3>1. x \in Code /\ x.kind = "low" /\ x.nibble = half
      BY DEF Code, TypeOK
    <3> HIDE DEF x
    <3>2. half # 0 /\ Arrive(x) /\ half' = 0 /\ bytes' = bytes
      BY <2>13 DEF SendLow, x
    <3>3. WellCoded(Append(Coded, x), half', bytes')
      BY <2>t, <2>i, <3>1, <3>2, CodedSent
    <3> QED
      BY <2>a, <2>t, <3>1, <3>2, <3>3
  <2>14. CASE UNCHANGED vars
    BY <2>14, <2>s DEF vars, unpackVars, driverVars
  <2> QED
    BY <2>1, <2>2, <2>3, <2>4, <2>5, <2>6, <2>7, <2>8, <2>9, <2>10, <2>11, <2>12, <2>13, <2>14
       DEF Next, Gui, Whip
<1> QED
  BY <1>1, <1>2, TypeCorrect, PTL DEF Spec

-----------------------------------------------------------------------------
\* The byte made of the two nibbles of data byte n.
DataOf(n) == n * Radix + n

\* Data bytes keep the order of their numbers, and are never 0 nor a break.
LEMMA DataRises ==
  ASSUME NEW n \in Nat, NEW m \in Nat, n < m
  PROVE  DataOf(n) < DataOf(m)
<1> USE ConstantsAssumption
<1>1. (m - n) * Radix > 0
  OBVIOUS
<1>2. (m - n) * Radix = m * Radix - n * Radix
  OBVIOUS
<1>3. n * Radix \in Nat /\ m * Radix \in Nat
  OBVIOUS
<1> QED
  BY <1>1, <1>2, <1>3 DEF DataOf

\* The byte of any number the Whip sends is a data byte.
LEMMA DataIsByte ==
  ASSUME NEW n \in 1..MaxBytes
  PROVE  DataOf(n) \in DataByte
<1>1. n \in Nibble /\ n # 0
  BY ConstantsAssumption DEF Nibble
<1>2. DataOf(n) \in ByteVal
  BY <1>1, NibblesMakeByte, ConstantsAssumption DEF DataOf
<1>3. n * Radix \in Nat
  BY ConstantsAssumption
<1> QED
  BY <1>1, <1>2, <1>3 DEF DataOf, DataByte

\* What a data byte is not.
LEMMA DataByteType ==
  /\ DataByte \subseteq Nat /\ DataByte \subseteq ByteVal /\ ByteVal \subseteq Nat
  /\ 0 \notin DataByte /\ BreakWord \notin DataByte /\ 0 \in ByteVal
  /\ \A w \in ByteVal : w % BreakWord = w
  /\ BreakWord % BreakWord = 0
<1> USE ConstantsAssumption
<1>1. Radix * Radix \in Nat \ {0}
  OBVIOUS
<1> QED
  BY <1>1 DEF DataByte, ByteVal, BreakWord

\* The numbers of the data bytes that the rest of the read will complete.
Pending == BytesWithin(chunk) \cup {n \in {Head(chunk).nibble} : HalfUnpacked}

\* The data bytes unpacked so far.
Done == (Range(Received) \cup Range(words)) \cap DataByte

\* The strengthening of WholeBytesArrive: what is unpacked and what the rest of
\* the read will complete are the bytes kept, all unpacked ones come before
\* those on their way, and those in packets before those in words.
BytesInv ==
  /\ pc \notin {"unpacking", "splitting"} => words = <<>>
  /\ Done \cup {DataOf(n) : n \in Pending} = {DataOf(n) : n \in kept}
  /\ \A x \in Done : \A m \in Highs(Coded) : x < DataOf(m)
  /\ HalfUnpacked => \A x \in Done : x < DataOf(Head(chunk).nibble)
  /\ Rising(Received) /\ Rising(words)
  /\ \A x \in Range(Received) \cap DataByte, y \in Range(words) \cap DataByte : x < y

\* One more value at the end of a rising sequence.
LEMMA RisingAppend ==
  ASSUME NEW S, NEW s \in Seq(S), NEW x \in S, Rising(s),
         x \in DataByte => \A y \in Range(s) \cap DataByte : y < x
  PROVE  Rising(Append(s, x)) /\ Range(Append(s, x)) = Range(s) \cup {x}
<1> DEFINE d == Append(s, x)
           l == Len(s)
<1>1. /\ l \in Nat /\ DOMAIN s = 1..l /\ DOMAIN d = 1..(l + 1)
      /\ \A i \in 1..l : d[i] = s[i]
      /\ d[l + 1] = x
  OBVIOUS
<1> HIDE DEF d, l
<1>2. ASSUME NEW i \in DOMAIN d, NEW j \in DOMAIN d, i < j, d[i] \in DataByte, d[j] \in DataByte
      PROVE  d[i] < d[j]
  <2>1. i \in 1..l /\ d[i] = s[i]
    BY <1>1, <1>2
  <2>2. CASE j = l + 1
    BY <1>1, <1>2, <2>1, <2>2 DEF Range
  <2>3. CASE j \in 1..l
    BY <1>1, <1>2, <2>1, <2>3 DEF Rising
  <2> QED
    BY <1>1, <2>2, <2>3
<1>3. Range(d) = Range(s) \cup {x}
  <2>1. \A i \in 1..(l + 1) : i = l + 1 \/ i \in 1..l
    BY <1>1
  <2>2. l + 1 \in 1..(l + 1) /\ 1..l \subseteq 1..(l + 1)
    BY <1>1
  <2> QED
    BY <1>1, <2>1, <2>2 DEF Range
<1>4. Rising(d)
  BY <1>2 DEF Rising
<1> QED
  BY <1>3, <1>4 DEF d

\* The first value of a rising sequence taken off.
LEMMA RisingTail ==
  ASSUME NEW S, NEW s \in Seq(S), s # <<>>, Rising(s)
  PROVE  /\ Rising(Tail(s)) /\ Range(s) = {Head(s)} \cup Range(Tail(s))
         /\ Head(s) \in DataByte => \A y \in Range(Tail(s)) \cap DataByte : Head(s) < y
<1> DEFINE d == Tail(s)
           l == Len(s)
<1>1. /\ l \in Nat \ {0} /\ DOMAIN s = 1..l /\ DOMAIN d = 1..(l - 1)
      /\ \A i \in 1..(l - 1) : d[i] = s[i + 1]
      /\ Head(s) = s[1]
  OBVIOUS
<1> HIDE DEF d, l
<1>2. ASSUME NEW i \in DOMAIN d, NEW j \in DOMAIN d, i < j, d[i] \in DataByte, d[j] \in DataByte
      PROVE  d[i] < d[j]
  <2>1. /\ i + 1 \in DOMAIN s /\ j + 1 \in DOMAIN s /\ i + 1 < j + 1
        /\ d[i] = s[i + 1] /\ d[j] = s[j + 1]
    BY <1>1, <1>2
  <2> QED
    BY <1>2, <2>1 DEF Rising
<1>3. ASSUME NEW j \in DOMAIN d, Head(s) \in DataByte, d[j] \in DataByte
      PROVE  Head(s) < d[j]
  <2>1. j + 1 \in DOMAIN s /\ 1 \in DOMAIN s /\ 1 < j + 1 /\ d[j] = s[j + 1]
    BY <1>1
  <2> QED
    BY <1>1, <1>3, <2>1 DEF Rising
<1>4. Range(s) = {Head(s)} \cup Range(d)
  <2>1. ASSUME NEW i \in DOMAIN s PROVE i = 1 \/ (i - 1 \in DOMAIN d /\ d[i - 1] = s[i])
    <3>1. CASE i # 1
      <4>1. i - 1 \in 1..(l - 1) /\ (i - 1) + 1 = i
        BY <1>1, <3>1
      <4> QED
        BY <1>1, <4>1
    <3> QED
      BY <3>1
  <2>2. 1 \in DOMAIN s /\ \A i \in DOMAIN d : i + 1 \in DOMAIN s /\ d[i] = s[i + 1]
    BY <1>1
  <2>3. Range(s) \subseteq {Head(s)} \cup Range(d)
    BY <1>1, <2>1 DEF Range
  <2>4. {Head(s)} \cup Range(d) \subseteq Range(s)
    BY <1>1, <2>2 DEF Range
  <2> QED
    BY <2>3, <2>4
<1>5. Rising(d)
  BY <1>2 DEF Rising
<1>6. Head(s) \in DataByte => \A y \in Range(d) \cap DataByte : Head(s) < y
  BY <1>3 DEF Range
<1> QED
  BY <1>4, <1>5, <1>6 DEF d

\* The data bytes within a read, before and after its first coded byte is taken.
LEMMA WithinTail ==
  ASSUME NEW S, NEW c \in Seq(S), c # <<>>
  PROVE  BytesWithin(c) = BytesWithin(Tail(c)) \cup
           {n \in {Head(c).nibble} : /\ Tail(c) # <<>>
                                     /\ Head(c).kind = "high"
                                     /\ Head(Tail(c)).kind = "low"}
<1> DEFINE d == Tail(c)
           l == Len(c)
<1>1. /\ l \in Nat \ {0} /\ Len(d) = l - 1 /\ d \in Seq(S)
      /\ \A i \in 1..(l - 1) : d[i] = c[i + 1]
      /\ Head(c) = c[1]
  OBVIOUS
<1> HIDE DEF d, l
<1>h. /\ d # <<>> <=> l > 1
      /\ d # <<>> => Head(d) = c[1 + 1]
  <2>1. d = <<>> <=> Len(d) = 0
    BY <1>1, EmptySeq
  <2>2. d # <<>> => Head(d) = d[1] /\ 1 \in 1..(l - 1)
    BY <1>1, <2>1
  <2> QED
    BY <1>1, <2>1, <2>2
<1>2. ASSUME NEW n \in BytesWithin(c)
      PROVE  n \in BytesWithin(d) \/ (/\ n = Head(c).nibble /\ d # <<>>
                                      /\ Head(c).kind = "high" /\ Head(d).kind = "low")
  <2>1. PICK i \in 1..l : i < l /\ c[i].kind = "high" /\ c[i + 1].kind = "low" /\ n = c[i].nibble
    BY <1>2 DEF BytesWithin, l
  <2>2. CASE i = 1
    BY <1>1, <1>h, <2>1, <2>2
  <2>3. CASE i # 1
    <3> DEFINE k == i - 1
    <3>1. k \in 1..Len(d) /\ k < Len(d) /\ k + 1 \in 1..(l - 1) /\ k + 1 = i /\ k \in 1..(l - 1)
      BY <1>1, <2>1, <2>3
    <3> HIDE DEF k
    <3>2. d[k] = c[i] /\ d[k + 1] = c[i + 1]
      BY <1>1, <3>1
    <3> QED
      BY <2>1, <3>1, <3>2 DEF BytesWithin
  <2> QED
    BY <2>2, <2>3
<1>3. ASSUME NEW n \in BytesWithin(d) PROVE n \in BytesWithin(c)
  <2>1. PICK i \in 1..(l - 1) : /\ i < l - 1 /\ d[i].kind = "high" /\ d[i + 1].kind = "low"
                                /\ n = d[i].nibble
    BY <1>1, <1>3 DEF BytesWithin
  <2>2. i + 1 \in 1..l /\ i + 1 < l /\ d[i] = c[i + 1] /\ d[i + 1] = c[i + 1 + 1]
    BY <1>1, <2>1
  <2> QED
    BY <2>1, <2>2 DEF BytesWithin, l
<1>4. ASSUME d # <<>>, Head(c).kind = "high", Head(d).kind = "low"
      PROVE  Head(c).nibble \in BytesWithin(c)
  <2>1. 1 \in 1..l /\ 1 < l /\ c[1 + 1].kind = "low"
    BY <1>1, <1>h, <1>4
  <2> QED
    BY <1>1, <1>4, <2>1 DEF BytesWithin, l
<1> QED
  BY <1>2, <1>3, <1>4 DEF d

\* The bytes received are bytes.
LEMMA ReceivedType == TypeOK => Received \in Seq(ByteVal)
<1> SUFFICES ASSUME TypeOK PROVE Received \in Seq(ByteVal)
  OBVIOUS
<1>1. taken \o list \in Seq(Seq(ByteVal)) /\ packetBuffer \in Seq(ByteVal)
  BY DEF TypeOK, Packet
<1>2. FlattenSeq(taken \o list) \in Seq(ByteVal)
  BY <1>1, FlattenType
<1> QED
  BY <1>1, <1>2, ConcatProperties DEF Received

\* Finishing a packet moves no byte.
LEMMA ReceivedKept ==
  ASSUME NEW S, NEW t \in Seq(Seq(S)), NEW l \in Seq(Seq(S)), NEW p \in Seq(S)
  PROVE  FlattenSeq(t \o Append(l, p)) \o <<>> = FlattenSeq(t \o l) \o p
<1>1. t \o Append(l, p) = Append(t \o l, p) /\ t \o l \in Seq(Seq(S))
  BY AppendConcat
<1>2. FlattenSeq(Append(t \o l, p)) = FlattenSeq(t \o l) \o p
  BY <1>1, FlattenAppend
<1>3. FlattenSeq(t \o l) \in Seq(S)
  BY <1>1, FlattenType
<1>4. FlattenSeq(t \o l) \o p \in Seq(S)
  BY <1>3, ConcatProperties
<1> QED
  BY <1>1, <1>2, <1>4, ConcatEmptySeq

\* What has been unpacked and what the rest of the read will give is always what
\* was kept, in order.
LEMMA BytesInvCorrect == Spec => []BytesInv
<1> USE ConstantsAssumption
<1>e. Range(<<>>) = {} /\ Rising(<<>>) /\ BytesWithin(<<>>) = {} /\ Highs(<<>>) = {}
  BY DEF Range, Rising, BytesWithin, Highs
<1>1. Init => BytesInv
  <2> SUFFICES ASSUME Init PROVE BytesInv
    OBVIOUS
  <2>1. /\ taken \o list = <<>> /\ packetBuffer = <<>> /\ words = <<>>
        /\ chunk = <<>> /\ kept = {}
    BY DEF Init
  <2>2. Received = <<>>
    BY <2>1, FlattenEmpty DEF Received
  <2>3. Done = {} /\ Pending = {} /\ ~HalfUnpacked
    BY <1>e, <2>1, <2>2 DEF Done, Pending, HalfUnpacked
  <2> QED
    BY <1>e, <2>1, <2>2, <2>3 DEF BytesInv
<1>2. TypeOK /\ TypeOK' /\ CodedInv /\ CodedInv' /\ BytesInv /\ [Next]_vars => BytesInv'
  <2> SUFFICES ASSUME TypeOK, TypeOK', CodedInv, CodedInv', BytesInv, [Next]_vars
               PROVE  BytesInv'
    OBVIOUS
  <2>t. /\ chunk \in Seq(Code) /\ arrived \in Seq(Code) /\ Coded \in Seq(Code)
        /\ words \in Seq(ByteVal \cup {BreakWord}) /\ Received \in Seq(ByteVal)
        /\ taken \in Seq(Seq(ByteVal)) /\ list \in Seq(Seq(ByteVal))
        /\ packetBuffer \in Seq(ByteVal) /\ bytes \in 0..MaxBytes
    BY ReceivedType DEF TypeOK, Coded, Packet
  <2>d. Done \subseteq DataByte /\ DataByte \subseteq Nat
    BY DataByteType DEF Done
  <2>k. kept \subseteq 1..bytes /\ kept \subseteq 1..MaxBytes
    BY <2>t DEF CodedInv
  <2>b. /\ Done \cup {DataOf(n) : n \in Pending} = {DataOf(n) : n \in kept}
        /\ \A x \in Done : \A m \in Highs(Coded) : x < DataOf(m)
        /\ HalfUnpacked => \A x \in Done : x < DataOf(Head(chunk).nibble)
        /\ Rising(Received) /\ Rising(words)
        /\ \A x \in Range(Received) \cap DataByte, y \in Range(words) \cap DataByte : x < y
        /\ pc \notin {"unpacking", "splitting"} => words = <<>>
    BY DEF BytesInv
  \* Steps that change neither words nor packets, and take nothing to unpack.
  <2>s. ASSUME UNCHANGED <<taken, list, packetBuffer, words, chunk, gotHigh, kept>>,
               pc' \in {"unpacking", "splitting"} \/ words = <<>>,
               \A m \in Highs(Coded') : m \in Highs(Coded) \/ m = bytes + 1
        PROVE  BytesInv'
    <3>1. /\ UNCHANGED <<Received, words, Done, Pending, HalfUnpacked>>
          /\ HalfUnpacked => Head(chunk') = Head(chunk)
      BY <2>s DEF Received, Done, Pending, HalfUnpacked
    <3>2. ASSUME NEW x \in Done, NEW m \in Highs(Coded') PROVE x < DataOf(m)
      <4>1. CASE m \in Highs(Coded)
        BY <2>b, <3>2, <4>1
      <4>2. CASE m = bytes + 1
        <5>1. PICK n \in kept : x = DataOf(n)
          BY <2>b, <3>2
        <5>2. n \in Nat /\ m \in Nat /\ n < m
          BY <2>k, <2>t, <4>2
        <5> QED
          BY <5>1, <5>2, DataRises
      <4> QED
        BY <2>s, <3>2, <4>1, <4>2
    <3>3. HalfUnpacked' => \A x \in Done : x < DataOf(Head(chunk').nibble)
      BY <2>b, <3>1
    <3> QED
      BY <2>s, <2>b, <3>1, <3>2, <3>3 DEF BytesInv
  \* The pieces the Unpack steps share.
  <2>u. ASSUME NEW k, Unpack(k)
        PROVE  /\ Head(chunk).kind = k /\ chunk # <<>> /\ pc' = "unpacking"
               /\ UNCHANGED <<Received, kept>> /\ chunk' = Tail(chunk) /\ chunk' \in Seq(Code)
               /\ Coded # <<>> /\ Head(Coded) = Head(chunk) /\ Coded' = Tail(Coded)
               /\ Highs(Coded') \subseteq Highs(Coded)
               /\ BytesWithin(chunk) = BytesWithin(chunk') \cup
                    {n \in {Head(chunk).nibble} : /\ chunk' # <<>> /\ k = "high"
                                                  /\ Head(chunk').kind = "low"}
    <3>1. /\ Head(chunk).kind = k /\ chunk # <<>> /\ pc' = "unpacking"
          /\ UNCHANGED <<Received, kept, arrived>> /\ chunk' = Tail(chunk)
      BY <2>u DEF Unpack, driverVars, packetVars, Received
    <3>2. Coded # <<>> /\ Head(Coded) = Head(chunk) /\ Coded' = Tail(Coded)
      BY <2>t, <3>1, CodedUnpacked DEF Coded
    <3>3. Highs(Coded') \subseteq Highs(Coded)
      BY <2>t, <3>2, HighsTail
    <3>4. chunk' \in Seq(Code)
      BY <2>t, <3>1
    <3>5. BytesWithin(chunk) = BytesWithin(chunk') \cup
            {n \in {Head(chunk).nibble} : /\ chunk' # <<>> /\ k = "high"
                                          /\ Head(chunk').kind = "low"}
      BY <2>t, <3>1, WithinTail
    <3> QED
      BY <3>1, <3>2, <3>3, <3>4, <3>5
  \* An unpacking that gives no data byte and has none to expect less or more.
  <2>v. ASSUME NEW k, Unpack(k), Range(words') \cap DataByte = Range(words) \cap DataByte,
               Rising(words'), Pending' = Pending,
               HalfUnpacked' => Head(chunk').nibble \in Highs(Coded)
        PROVE  BytesInv'
    <3>1. Done' = Done
      BY <2>u, <2>v DEF Done
    <3>2. HalfUnpacked' => \A x \in Done : x < DataOf(Head(chunk').nibble)
      BY <2>b, <2>v
    <3> QED
      BY <2>b, <2>u, <2>v, <3>1, <3>2 DEF BytesInv
  <2>1. CASE User
    <3>1. pc = "idle" /\ UNCHANGED <<taken, list, packetBuffer, words, chunk, gotHigh, kept>>
      BY <2>1 DEF User, ModeButton, StartCapture, StopCapture, RestartCapture, RunScript,
                  Press, unpackVars, packetVars
    <3>2. arrived' = <<>> \/ arrived' = arrived
      BY <2>1 DEF User, ModeButton, StartCapture, StopCapture, RestartCapture, RunScript, Close
    <3>3. Coded' = <<>> \/ Coded' = Coded
      BY <2>t, <3>1, <3>2 DEF Coded, CodedInv
    <3> QED
      BY <1>e, <2>b, <2>s, <3>1, <3>3
  <2>2. CASE OpenSucceeds \/ OpenFails
    <3>1. /\ pc \notin {"unpacking", "splitting"}
          /\ UNCHANGED <<taken, list, packetBuffer, words, chunk, gotHigh, kept, Coded>>
      BY <2>2 DEF OpenSucceeds, OpenFails, InOpen, unpackVars, driverVars, packetVars, Coded
    <3> QED
      BY <2>b, <2>s, <3>1
  <2>3. CASE DeliverStatus
    <3>1. /\ pc = "idle"
          /\ UNCHANGED <<taken, list, packetBuffer, words, chunk, gotHigh, kept, Coded>>
      BY <2>3 DEF DeliverStatus, unpackVars, driverVars, packetVars, Coded
    <3> QED
      BY <2>b, <2>s, <3>1
  <2>4. CASE BeginRead
    <3>1. PICK n \in 1..Len(arrived) :
            chunk' = SubSeq(arrived, 1, n) /\ arrived' = SubSeq(arrived, n + 1, Len(arrived))
      BY <2>4 DEF BeginRead
    <3>2. /\ pc = "idle" /\ pc' = "unpacking" /\ gotHigh' = FALSE /\ words' = <<>>
          /\ kept' = kept \cup BytesWithin(chunk') /\ UNCHANGED <<taken, list, packetBuffer>>
      BY <2>4 DEF BeginRead, packetVars
    <3>3. chunk = <<>> /\ words = <<>> /\ ~HalfUnpacked
      BY <2>b, <3>2 DEF CodedInv, HalfUnpacked
    <3>4. Coded = arrived /\ Coded' = arrived
      BY <2>t, <3>1, <3>3, CodedRead DEF Coded
    <3>5. UNCHANGED <<Received, words, Done>>
      BY <3>2, <3>3 DEF Received, Done
    <3>6. Pending = {} /\ Pending' = BytesWithin(chunk') /\ ~HalfUnpacked'
      BY <1>e, <3>2, <3>3 DEF Pending, HalfUnpacked
    <3>7. Done' \cup {DataOf(n_1) : n_1 \in Pending'} = {DataOf(n_1) : n_1 \in kept'}
      <4>1. Done = {DataOf(n_1) : n_1 \in kept}
        BY <2>b, <3>6
      <4> QED
        BY <3>2, <3>5, <3>6, <4>1
    <3> QED
      BY <2>b, <3>2, <3>4, <3>5, <3>6, <3>7 DEF BytesInv
  <2>5. CASE UnpackBreak
    <3>1. Unpack("break") /\ words' = Append(words, BreakWord) /\ UNCHANGED gotHigh
      BY <2>5 DEF UnpackBreak
    <3>2. ~HalfUnpacked /\ ~HalfUnpacked'
      BY <2>u, <3>1 DEF CodedInv, HalfUnpacked
    <3>3. Pending' = Pending
      BY <2>u, <3>1, <3>2 DEF Pending
    <3>4. Rising(words') /\ Range(words') = Range(words) \cup {BreakWord}
      BY <2>t, <2>b, <3>1, DataByteType, RisingAppend
    <3> QED
      BY <2>v, <3>1, <3>2, <3>3, <3>4, DataByteType
  <2>6. CASE UnpackHigh
    <3>1. Unpack("high") /\ words' = words /\ gotHigh' = TRUE
      BY <2>6 DEF UnpackHigh
    <3>2. ~HalfUnpacked
      BY <2>u, <3>1 DEF CodedInv
    <3>3. HalfUnpacked' <=> chunk' # <<>>
      BY <3>1 DEF HalfUnpacked
    <3>4. chunk' # <<>> => /\ Head(chunk').kind = "low"
                           /\ Head(chunk').nibble = Head(chunk).nibble
      <4>1. Coded' # <<>> => /\ Head(Coded').kind = "low"
                             /\ Head(Coded').nibble = Head(Coded).nibble
        BY <2>t, <2>u, <3>1, HeadHigh DEF CodedInv
      <4>2. arrived' = arrived
        BY <3>1 DEF Unpack, driverVars
      <4>3. chunk' # <<>> => Coded' # <<>> /\ Head(Coded') = Head(chunk')
        BY <2>t, <2>u, <3>1, <4>2, CodedUnpacked DEF Coded
      <4> QED
        BY <2>u, <3>1, <4>1, <4>3
    <3>5. Pending' = Pending
      BY <2>u, <3>1, <3>2, <3>3, <3>4 DEF Pending
    <3>6. Head(chunk).nibble \in Highs(Coded)
      BY <2>t, <2>u, <3>1, HighsTail
    <3> QED
      BY <2>b, <2>v, <3>1, <3>3, <3>4, <3>5, <3>6
  <2>7. CASE UnpackLow
    <3>1. Unpack("low") /\ gotHigh' = FALSE
      BY <2>7 DEF UnpackLow
    <3>2. ~HalfUnpacked' /\ Pending' = BytesWithin(chunk')
      BY <3>1 DEF HalfUnpacked, Pending
    <3>3. BytesWithin(chunk) = BytesWithin(chunk')
      BY <2>u, <3>1
    <3>4. CASE ~gotHigh
      <4>1. Pending' = Pending /\ words' = words
        BY <2>7, <3>2, <3>3, <3>4 DEF Pending, HalfUnpacked, UnpackLow
      <4> QED
        BY <2>b, <2>v, <3>1, <3>2, <4>1
    <3>5. CASE gotHigh
      <4> DEFINE n == Head(chunk).nibble
      <4>1. HalfUnpacked /\ temp = n * Radix /\ n \in 1..bytes /\ \A m \in Highs(Coded) : n < m
        BY <2>u, <3>1, <3>5 DEF HalfUnpacked, CodedInv
      <4>2. words' = Append(words, DataOf(n)) /\ DataOf(n) \in DataByte
        <5>1. words' = Append(words, temp + n)
          BY <2>7, <3>5 DEF UnpackLow
        <5> HIDE DEF n
        <5>2. temp + n = DataOf(n)
          BY <4>1 DEF DataOf
        <5>3. DataOf(n) \in DataByte
          BY <2>t, <4>1, DataIsByte
        <5> QED
          BY <5>1, <5>2, <5>3
      <4>3. Pending = Pending' \cup {n}
        BY <3>2, <3>3, <4>1 DEF Pending
      <4>n. n \in Nat
        BY <2>t, <4>1
      <4>4. \A x \in Done : x < DataOf(n)
        BY <2>b, <4>1
      <4> HIDE DEF n
      <4>5. Rising(words') /\ Range(words') = Range(words) \cup {DataOf(n)}
        <5>1. \A y \in Range(words) \cap DataByte : y < DataOf(n)
          BY <4>4 DEF Done
        <5>2. DataOf(n) \in ByteVal \cup {BreakWord}
          BY <4>2, DataByteType
        <5> DEFINE e == DataOf(n)
        <5>3. words' = Append(words, e) /\ e \in ByteVal \cup {BreakWord} /\ Rising(words)
          BY <2>b, <4>2, <5>2
        <5> HIDE DEF e
        <5>4. e \in DataByte => \A y \in Range(words) \cap DataByte : y < e
          BY <5>1 DEF e
        <5>5. Rising(words') /\ Range(words') = Range(words) \cup {e}
          BY <2>t, <5>3, <5>4, RisingAppend
        <5> QED
          BY <5>5 DEF e
      <4>6. Done' = Done \cup {DataOf(n)}
        BY <2>u, <3>1, <4>2, <4>5 DEF Done
      <4>7. Done' \cup {DataOf(i) : i \in Pending'} = {DataOf(i) : i \in kept'}
        <5>1. {DataOf(i) : i \in Pending} = {DataOf(i) : i \in Pending'} \cup {DataOf(n)}
          BY <4>3
        <5>2. kept' = kept
          BY <2>u, <3>1
        <5> QED
          BY <2>b, <4>6, <5>1, <5>2
      <4>8. ASSUME NEW x \in Done', NEW m \in Highs(Coded') PROVE x < DataOf(m)
        <5>1. m \in Highs(Coded)
          BY <2>u, <3>1, <4>8
        <5>2. CASE x \in Done
          BY <2>b, <5>1, <5>2
        <5>3. CASE x = DataOf(n)
          <6>1. m \in Nat /\ n < m
            <7>1. Highs(Coded) \subseteq 1..bytes
              BY HighsBegun DEF CodedInv
            <7> QED
              BY <2>t, <4>1, <5>1, <7>1 DEF n
          <6> QED
            BY <4>n, <5>3, <6>1, DataRises
        <5> QED
          BY <4>6, <4>8, <5>2, <5>3
      <4>9. ASSUME NEW x \in Range(Received) \cap DataByte, NEW y \in Range(words') \cap DataByte
            PROVE  x < y
        <5>1. x \in Done
          BY <4>9 DEF Done
        <5> QED
          BY <2>b, <4>4, <4>5, <4>9, <5>1
      <4> QED
        BY <2>b, <2>u, <3>1, <3>2, <4>5, <4>7, <4>8, <4>9 DEF BytesInv
    <3> QED
      BY <3>4, <3>5 DEF TypeOK
  <2>8. CASE EndUnpack
    <3>1. /\ UNCHANGED <<taken, list, packetBuffer, words, chunk, gotHigh, kept, Coded>>
          /\ pc' \in {"unpacking", "splitting"} \/ words = <<>>
      BY <2>8 DEF EndUnpack, unpackVars, driverVars, packetVars, Coded
    <3> QED
      BY <2>s, <3>1
  <2>p. ASSUME Split
        PROVE  /\ words # <<>> /\ words' = Tail(words) /\ pc' = "splitting"
               /\ UNCHANGED <<chunk, gotHigh, kept, Coded, Pending, HalfUnpacked, taken>>
               /\ Rising(words') /\ Range(words) = {Head(words)} \cup Range(words')
               /\ Head(words) \in DataByte =>
                    \A y \in Range(words') \cap DataByte : Head(words) < y
               /\ Head(words) \in ByteVal \cup {BreakWord}
    <3>1. /\ words # <<>> /\ words' = Tail(words) /\ pc' = "splitting"
          /\ UNCHANGED <<chunk, gotHigh, kept, Coded, taken>>
      BY <2>p DEF Split, driverVars, Coded
    <3>2. UNCHANGED <<Pending, HalfUnpacked>>
      BY <3>1 DEF Pending, HalfUnpacked
    <3> QED
      BY <2>t, <2>b, <3>1, <3>2, RisingTail
  \* A splitting that gives no new data byte nor loses one.
  <2>q. ASSUME Split, Done' = Done, Rising(Received'),
               \A x \in Range(Received') \cap DataByte, y \in Range(words') \cap DataByte : x < y
        PROVE  BytesInv'
    <3>1. UNCHANGED <<chunk, kept, Coded, Pending, HalfUnpacked>> /\ pc' = "splitting" /\ Rising(words')
      BY <2>p, <2>q
    <3>2. Done' \cup {DataOf(n) : n \in Pending'} = {DataOf(n) : n \in kept'}
      BY <2>b, <2>q, <3>1
    <3>3. /\ \A x \in Done' : \A m \in Highs(Coded') : x < DataOf(m)
          /\ HalfUnpacked' => \A x \in Done' : x < DataOf(Head(chunk').nibble)
      BY <2>b, <2>q, <3>1
    <3> QED
      BY <2>q, <3>1, <3>2, <3>3 DEF BytesInv
  <2>9. CASE SplitPacket
    <3>1. Split /\ Head(words) = BreakWord /\ list' = Append(list, packetBuffer) /\ packetBuffer' = <<>>
      BY <2>9 DEF SplitPacket, EndsPacket
    <3>2. Received' = Received
      <4>1. Received' = FlattenSeq(taken \o Append(list, packetBuffer)) \o <<>>
        BY <2>p, <3>1 DEF Received
      <4>2. FlattenSeq(taken \o Append(list, packetBuffer)) \o <<>>
              = FlattenSeq(taken \o list) \o packetBuffer
        BY <2>t, ReceivedKept
      <4> QED
        BY <4>1, <4>2 DEF Received
    <3>3. Done' = Done /\ Range(words') \subseteq Range(words)
      BY <2>p, <3>1, <3>2, DataByteType DEF Done
    <3> QED
      BY <2>b, <2>q, <3>1, <3>2, <3>3
  <2>10. CASE SplitByte
    <3> DEFINE e == Head(words) % BreakWord
    <3>1. Split /\ packetBuffer' = Append(packetBuffer, e) /\ list' = list
      BY <2>10 DEF SplitByte
    <3>2. /\ e \in ByteVal
          /\ Head(words) \in DataByte => e = Head(words)
          /\ Head(words) \notin DataByte => e \notin DataByte
      BY <2>p, <3>1, DataByteType DEF DataByte
    <3> HIDE DEF e
    <3>3. Received' = Append(Received, e)
      <4>1. FlattenSeq(taken \o list) \in Seq(ByteVal)
        BY <2>t, FlattenType, ConcatProperties
      <4>2. taken' = taken
        BY <2>p, <3>1
      <4>3. Received' = FlattenSeq(taken \o list) \o Append(packetBuffer, e)
        BY <3>1, <4>2 DEF Received
      <4>4. FlattenSeq(taken \o list) \o Append(packetBuffer, e)
              = Append(FlattenSeq(taken \o list) \o packetBuffer, e)
        <5> DEFINE flat == FlattenSeq(taken \o list)
        <5>1. flat \in Seq(ByteVal) /\ packetBuffer \in Seq(ByteVal) /\ e \in ByteVal
          BY <2>t, <3>2, <4>1
        <5> HIDE DEF flat
        <5>2. flat \o Append(packetBuffer, e) = Append(flat \o packetBuffer, e)
          BY <5>1, AppendConcat
        <5> QED
          BY <5>2 DEF flat
      <4> QED
        BY <4>3, <4>4 DEF Received
    <3>4. Rising(Received') /\ Range(Received') = Range(Received) \cup {e}
      <4>1. e \in DataByte => \A y \in Range(Received) \cap DataByte : y < e
        BY <2>b, <2>p, <3>1, <3>2
      <4> QED
        BY <2>t, <2>b, <3>2, <3>3, <4>1, RisingAppend
    <3>5. Done' = Done
      BY <2>p, <3>1, <3>2, <3>4 DEF Done
    <3>6. ASSUME NEW x \in Range(Received') \cap DataByte, NEW y \in Range(words') \cap DataByte
          PROVE  x < y
      <4>1. y \in Range(words)
        BY <2>p, <3>1, <3>6
      <4> QED
        BY <2>b, <2>p, <3>1, <3>2, <3>4, <3>6, <4>1
    <3> QED
      BY <2>q, <3>1, <3>4, <3>5, <3>6
  <2>11. CASE EndReadFetches
    <3>1. /\ words = <<>> /\ taken' = taken \o list /\ list' = <<>>
          /\ UNCHANGED <<packetBuffer, words, chunk, gotHigh, kept, Coded>>
      BY <2>11 DEF EndReadFetches, InEndRead, unpackVars, driverVars, Coded
    <3>2. UNCHANGED <<Received, Done, Pending, HalfUnpacked>>
      <4>1. taken' \o list' = taken \o list
        BY <2>t, <3>1
      <4> QED
        BY <3>1, <4>1 DEF Received, Done, Pending, HalfUnpacked
    <3>3. HalfUnpacked' => Head(chunk') = Head(chunk)
      BY <3>1
    <3> QED
      BY <2>b, <3>1, <3>2, <3>3 DEF BytesInv
  <2>12. CASE EndReadLeaves
    <3>1. /\ UNCHANGED <<taken, list, packetBuffer, words, chunk, gotHigh, kept, Coded>>
          /\ words = <<>>
      BY <2>12 DEF EndReadLeaves, InEndRead, unpackVars, driverVars, Coded
    <3> QED
      BY <2>s, <3>1
  <2>13. CASE Whip
    <3> DEFINE Sent(x) == x \in Code /\ arrived' = Append(arrived, x)
                            /\ (x.kind = "high" => x.nibble = bytes + 1)
    <3>1. /\ UNCHANGED <<pc, taken, list, packetBuffer, words, chunk, gotHigh, kept>>
          /\ \E x : Sent(x)
      <4>1. ASSUME SendBreak PROVE Sent([kind |-> "break", nibble |-> 0])
        BY <4>1 DEF SendBreak, Arrive, Code, Nibble
      <4>2. ASSUME SendHigh PROVE Sent([kind |-> "high", nibble |-> bytes + 1])
        BY <2>t, <4>2 DEF SendHigh, Arrive, Code, Nibble
      <4>3. ASSUME SendLow PROVE Sent([kind |-> "low", nibble |-> half])
        BY <4>3 DEF SendLow, Arrive, Code, TypeOK
      <4> HIDE DEF Sent
      <4>4. UNCHANGED <<pc, taken, list, packetBuffer, words, chunk, gotHigh, kept>>
        BY <2>13 DEF Whip, SendBreak, SendHigh, SendLow, Arrive, unpackVars, packetVars
      <4> QED
        BY <2>13, <4>1, <4>2, <4>3, <4>4 DEF Whip
    <3>2. PICK x : Sent(x)
      BY <3>1
    <3>3. Coded' = Append(Coded, x)
      BY <2>t, <3>1, <3>2, AppendConcat DEF Coded
    <3>4. Highs(Coded') = Highs(Coded) \cup {y \in {x.nibble} : x.kind = "high"}
      BY <2>t, <3>2, <3>3, HighsAppend
    <3> QED
      BY <2>b, <2>s, <3>1, <3>2, <3>4
  <2>14. CASE UNCHANGED vars
    <3>1. UNCHANGED <<pc, taken, list, packetBuffer, words, chunk, gotHigh, kept, Coded>>
      BY <2>14 DEF vars, unpackVars, driverVars, packetVars, Coded
    <3> QED
      BY <2>b, <2>s, <3>1
  <2> QED
    BY <2>1, <2>2, <2>3, <2>4, <2>5, <2>6, <2>7, <2>8, <2>9, <2>10, <2>11, <2>12, <2>13, <2>14
       DEF Next, Gui
<1> QED
  BY <1>1, <1>2, TypeCorrect, CodedInvCorrect, PTL DEF Spec

\* No data byte is lost, doubled, mixed with another or out of order between the
\* driver and the window but those cut by the end of a read, whatever is opened,
\* closed or fails meanwhile, for every radix, read size and number of bytes.
THEOREM BytesCorrect == Spec => []WholeBytesArrive
<1>1. CodedInv /\ BytesInv => WholeBytesArrive
  <2> SUFFICES ASSUME CodedInv, BytesInv, pc \notin {"unpacking", "splitting"}
               PROVE  /\ Range(Received) \cap DataByte = {n * Radix + n : n \in kept}
                      /\ Rising(Received)
    BY DEF WholeBytesArrive
  <2>1. words = <<>> /\ chunk = <<>>
    BY DEF CodedInv, BytesInv
  <2>2. Range(words) = {} /\ BytesWithin(chunk) = {}
    BY <2>1 DEF Range, BytesWithin
  <2>3. Done = Range(Received) \cap DataByte /\ Pending = {}
    BY <2>1, <2>2 DEF Done, Pending, HalfUnpacked
  <2> QED
    BY <2>3 DEF BytesInv, DataOf
<1> QED
  BY <1>1, CodedInvCorrect, BytesInvCorrect, PTL
=============================================================================
