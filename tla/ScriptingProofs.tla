--------------------------- MODULE ScriptingProofs ---------------------------
(***************************************************************************)
(* Safety of the script runner and its serial port, for every number of    *)
(* runs, texts and received bytes.                                         *)
(***************************************************************************)
EXTENDS Scripting, SequenceTheorems, SequenceInduction

-----------------------------------------------------------------------------
(* The conversion of what was received.                                    *)

\* n bytes come before the first zero of s.
ZeroAfter(s, n) ==
  /\ \A i \in 1..n : s[i] # "zero"
  /\ n < Len(s) => s[n + 1] = "zero"

\* Every buffer has a part before its first zero.
LEMMA ZeroExists ==
  ASSUME NEW s \in Seq(Byte)
  PROVE  \E n \in 0..Len(s) : ZeroAfter(s, n)
<1>1. Len(s) \in Nat
  OBVIOUS
<1> SUFFICES ASSUME \A n \in 0..Len(s) : ~ZeroAfter(s, n) PROVE FALSE
  OBVIOUS
<1> DEFINE K == {n \in Nat : n <= Len(s) => \A i \in 1..n : s[i] # "zero"}
<1>2. 0 \in K
  OBVIOUS
<1>3. ASSUME NEW n \in Nat, n \in K PROVE n + 1 \in K
  <2> SUFFICES ASSUME n + 1 <= Len(s), NEW i \in 1..(n + 1) PROVE s[i] # "zero"
    OBVIOUS
  <2>1. n \in 0..Len(s) /\ n < Len(s)
    BY <1>1
  <2>2. \A k \in 1..n : s[k] # "zero"
    BY <1>3, <2>1
  <2>3. s[n + 1] # "zero"
    BY <2>1, <2>2 DEF ZeroAfter
  <2> QED
    BY <2>2, <2>3
<1> HIDE DEF K
<1>4. Len(s) \in K
  BY <1>1, <1>2, <1>3, Induction
<1>5. ZeroAfter(s, Len(s))
  BY <1>1, <1>4 DEF K, ZeroAfter
<1> QED
  BY <1>1, <1>5

\* That part is a sequence of bytes, and all of a buffer without zeros.
LEMMA BeforeZeroType ==
  ASSUME NEW s \in Seq(Byte)
  PROVE  /\ BeforeZero(s) \in Seq(Byte)
         /\ (\A i \in 1..Len(s) : s[i] # "zero") => BeforeZero(s) = s
<1>1. Len(s) \in Nat
  OBVIOUS
<1> DEFINE n == CHOOSE n \in 0..Len(s) : ZeroAfter(s, n)
<1>2. n \in 0..Len(s) /\ ZeroAfter(s, n)
  BY ZeroExists
<1>3. BeforeZero(s) = SubSeq(s, 1, n)
  BY DEF BeforeZero, ZeroAfter
<1> HIDE DEF n
<1>4. BeforeZero(s) \in Seq(Byte)
  BY <1>1, <1>2, <1>3
<1>5. ASSUME \A i \in 1..Len(s) : s[i] # "zero" PROVE BeforeZero(s) = s
  <2>1. n < Len(s) => n + 1 \in 1..Len(s)
    BY <1>1, <1>2
  <2>2. n = Len(s)
    BY <1>1, <1>2, <1>5, <2>1 DEF ZeroAfter
  <2> QED
    BY <1>3, <2>2
<1> QED
  BY <1>4, <1>5

\* The text is the bytes before the first zero, some of them replaced, and all the
\* bytes of a plain buffer.
LEMMA QStringType ==
  ASSUME NEW s \in Seq(Byte)
  PROVE  /\ QString(s) \in Seq(Byte \cup {"replaced"})
         /\ Plain(s) => QString(s) = s
<1> DEFINE read == BeforeZero(s)
           Read(i) == IF Cut(read, i) THEN "replaced" ELSE read[i]
<1>1. read \in Seq(Byte)
  BY BeforeZeroType
<1>2. QString(s) = [i \in 1..Len(read) |-> Read(i)]
  BY DEF QString
<1>3. ASSUME Plain(s) PROVE QString(s) = s
  <2>1. Len(s) \in Nat /\ \A i \in 1..Len(s) : s[i] \in {"text", "cr"}
    BY <1>3 DEF Plain
  <2>2. read = s
    BY <2>1, BeforeZeroType
  <2>3. \A i \in 1..Len(s) : Read(i) = s[i]
    BY <2>1, <2>2 DEF Cut
  <2>4. s = [i \in 1..Len(s) |-> s[i]]
    OBVIOUS
  <2> HIDE DEF read, Read
  <2> QED
    BY <1>2, <2>2, <2>3, <2>4
<1>4. \A i \in 1..Len(read) : Read(i) \in Byte \cup {"replaced"}
  <2> SUFFICES ASSUME NEW i \in 1..Len(read) PROVE Read(i) \in Byte \cup {"replaced"}
    OBVIOUS
  <2>1. read[i] \in Byte
    BY <1>1
  <2> QED
    BY <2>1
<1> HIDE DEF read, Read
<1>5. Len(read) \in Nat
  BY <1>1
<1>6. QString(s) \in Seq(Byte \cup {"replaced"})
  BY <1>2, <1>4, <1>5, IsASeq
<1> QED
  BY <1>3, <1>6

-----------------------------------------------------------------------------
(* Types.                                                                  *)

\* What TypeOK needs to be inductive: there is a queued run only for a press.
TypeInv == TypeOK /\ requests <= presses

\* Every variable keeps its type: in particular no press of Run is queued
\* twice.
THEOREM TypeCorrect == Spec => []TypeOK
<1> USE ConstantsAssumption DEF ConstantsAssumption
<1>n. MaxRuns \in Nat /\ MaxTexts \in Nat /\ MaxBytes \in Nat
  OBVIOUS
<1>s. \A S : <<>> \in Seq(S)
  OBVIOUS
<1>a. \A S : \A s \in Seq(S), x \in S : Append(s, x) \in Seq(S)
  OBVIOUS
<1>p. /\ {"idle", "starting", "evaluating", "joining", "reporting"} \subseteq Phases
      /\ Open \in Texts \cup {Open}
  BY DEF Phases
<1>1. Init => TypeInv
  <2> SUFFICES ASSUME Init PROVE TypeInv
    OBVIOUS
  <2>1. /\ reports \in Seq(Report) /\ events \in Seq(Texts \cup {Open}) /\ buffer \in Seq(Byte)
        /\ sent \in Seq(Texts) /\ received \in Seq(Byte) /\ taken \in Seq(Byte)
        /\ returned \in Seq(Byte \cup {"replaced"})
    BY <1>s DEF Init
  <2>2. {requests, presses} \subseteq 0..MaxRuns /\ written \in 0..MaxTexts /\ requests <= presses
    BY <1>n DEF Init
  <2>3. {runEnabled, abortEnabled, aborting, serialChosen, running, interrupted, error,
         reading} \subseteq BOOLEAN
    BY DEF Init
  <2>4. QED
    BY <2>1, <2>2, <2>3, <1>p DEF Init, TypeInv, TypeOK
<1>2. TypeInv /\ [Next]_vars => TypeInv'
  <2> SUFFICES ASSUME TypeInv, [Next]_vars PROVE TypeInv'
    OBVIOUS
  <2> USE DEF TypeInv, TypeOK
  <2>1. CASE PressRun
    <3>1. requests' = requests + 1 /\ presses' = presses + 1 /\ presses < MaxRuns
      BY <2>1 DEF PressRun
    <3>2. {requests', presses'} \subseteq 0..MaxRuns /\ requests' <= presses'
      BY <3>1, <1>n
    <3>3. QED
      BY <2>1, <3>2 DEF PressRun, serialVars, readVars
  <2>2. CASE PressAbort \/ Interrupt \/ SetSerialPort
    BY <2>2 DEF PressAbort, AbortPressed, Interrupt, SetSerialPort, runVars, serialVars,
                readVars
  <2>3. CASE ScriptFinished
    <3>1. reports' \in Seq(Report)
      BY <2>3 DEF ScriptFinished
    <3>2. QED
      BY <2>3, <3>1 DEF ScriptFinished, serialVars, readVars
  <2>4. CASE Start
    <3>1. requests' = requests - 1 /\ requests > 0 /\ presses' = presses
      BY <2>4 DEF Start, guiVars
    <3>2. {requests', presses'} \subseteq 0..MaxRuns /\ requests' <= presses'
      BY <3>1, <1>n
    <3>3. /\ events' \in Seq(Texts \cup {Open}) /\ buffer' \in Seq(Byte)
          /\ sent' \in Seq(Texts) /\ received' \in Seq(Byte) /\ taken' \in Seq(Byte)
          /\ returned' \in Seq(Byte \cup {"replaced"})
      BY <2>4, <1>s DEF Start
    <3>4. written' \in 0..MaxTexts
      BY <2>4, <1>n DEF Start
    <3>5. serial' \in {"none", "starting", "looping", "gone"}
      BY <2>4 DEF Start
    <3>6. QED
      BY <2>4, <3>2, <3>3, <3>4, <3>5, <1>p DEF Start, guiVars
  <2>5. CASE Evaluate
    BY <2>5, <1>p DEF Evaluate, guiVars, serialVars, readVars
  <2>6. CASE WriteText
    <3>1. written + 1 \in Texts /\ written' = written + 1 /\ written' \in 0..MaxTexts
      BY <2>6, <1>n DEF WriteText, Texts
    <3>2. events' \in Seq(Texts \cup {Open})
      BY <2>6, <3>1, <1>a DEF WriteText
    <3>3. QED
      BY <2>6, <3>1, <3>2 DEF WriteText, guiVars, runVars, readVars
  <2>7. CASE BeginReadText
    <3>1. taken' \in Seq(Byte)
      BY <2>7 DEF BeginReadText
    <3>2. QString(buffer) \in Seq(Byte \cup {"replaced"})
      BY QStringType
    <3>3. returned' \in Seq(Byte \cup {"replaced"})
      BY <2>7, <3>2 DEF BeginReadText
    <3>4. QED
      BY <2>7, <3>1, <3>3 DEF BeginReadText, guiVars, runVars, serialVars
  <2>8. CASE EndReadText
    BY <2>8, <1>s DEF EndReadText, guiVars, runVars, serialVars
  <2>9. CASE EndEvaluate
    BY <2>9, <1>p DEF EndEvaluate, guiVars, serialVars, readVars
  <2>10. CASE Join
    BY <2>10, <1>p DEF Join, guiVars, readVars
  <2>11. CASE EmitFinished
    <3>1. [error |-> error, interrupted |-> interrupted] \in Report
      BY DEF Report
    <3>2. reports' \in Seq(Report)
      BY <2>11, <3>1, <1>a DEF EmitFinished
    <3>3. QED
      BY <2>11, <3>2, <1>p DEF EmitFinished, guiVars, serialVars, readVars
  <2>12. CASE ThreadStarts
    <3>1. events' \in Seq(Texts \cup {Open})
      BY <2>12, <1>p, <1>a DEF ThreadStarts
    <3>2. QED
      BY <2>12, <3>1 DEF ThreadStarts, guiVars, runVars, readVars
  <2>13. CASE DeliverEvent
    <3>1. events' \in Seq(Texts \cup {Open}) /\ Head(events) \in Texts \cup {Open}
      BY <2>13 DEF DeliverEvent
    <3>2. CASE Head(events) = Open
      BY <2>13, <3>1, <3>2 DEF DeliverEvent, guiVars, runVars, readVars
    <3>3. CASE Head(events) # Open
      <4>1. sent' \in Seq(Texts)
        BY <2>13, <3>1, <3>3, <1>a DEF DeliverEvent
      <4>2. QED
        BY <2>13, <3>1, <3>3, <4>1 DEF DeliverEvent, guiVars, runVars, readVars
    <3>4. QED
      BY <3>2, <3>3
  <2>14. CASE ThreadExits
    BY <2>14, <1>s DEF ThreadExits, guiVars, runVars, readVars
  <2>15. ASSUME NEW b \in Byte, ReadyRead(b) PROVE TypeInv'
    BY <2>15, <1>a DEF ReadyRead, guiVars, runVars, serialVars
  <2>16. CASE UNCHANGED vars
    BY <2>16 DEF vars, guiVars, runVars, serialVars, readVars
  <2>17. QED
    BY <2>1, <2>2, <2>3, <2>4, <2>5, <2>6, <2>7, <2>8, <2>9, <2>10, <2>11, <2>12, <2>13,
       <2>14, <2>15, <2>16 DEF Next, Gui, Script, SerialThread
<1>3. TypeInv => TypeOK
  BY DEF TypeInv
<1>4. QED
  BY <1>1, <1>2, <1>3, PTL DEF Spec

-----------------------------------------------------------------------------
\* The port's thread is gone before run reports and the next script can open
\* the same port: ~ScriptSerial waits for it in every order of starting,
\* exiting and ending.
THEOREM PortThreadCorrect == Spec => []PortThreadEndsWithScript
<1>1. Init => PortThreadEndsWithScript
  BY DEF Init, PortThreadEndsWithScript
<1>2. PortThreadEndsWithScript /\ [Next]_vars => PortThreadEndsWithScript'
  <2> SUFFICES ASSUME PortThreadEndsWithScript, [Next]_vars PROVE PortThreadEndsWithScript'
    OBVIOUS
  <2> USE DEF PortThreadEndsWithScript
  <2>1. CASE Gui
    BY <2>1 DEF Gui, PressRun, PressAbort, Interrupt, ScriptFinished, SetSerialPort,
                runVars, serialVars
  <2>2. CASE Start \/ Evaluate \/ EndEvaluate \/ Join
    BY <2>2 DEF Start, Evaluate, EndEvaluate, Join, serialVars
  <2>3. CASE WriteText \/ BeginReadText \/ EndReadText
    BY <2>3 DEF WriteText, BeginReadText, EndReadText, runVars, serialVars
  <2>4. CASE EmitFinished
    BY <2>4 DEF EmitFinished, serialVars
  <2>5. CASE SerialThread
    BY <2>5 DEF SerialThread, ThreadStarts, DeliverEvent, ThreadExits, ReadyRead, runVars,
                serialVars
  <2>6. CASE UNCHANGED vars
    BY <2>6 DEF vars, runVars, serialVars
  <2>7. QED
    BY <2>1, <2>2, <2>3, <2>4, <2>5, <2>6 DEF Next, Script
<1>3. QED
  BY <1>1, <1>2, PTL DEF Spec

-----------------------------------------------------------------------------
\* readText is only under way while the script is evaluated, so the buffer is
\* not emptied for a new script in the middle of it.
ReadInv == EachByteReadOnce /\ (reading => phase = "evaluating")

\* Of two sequences put together that are plain, each is.
LEMMA PlainParts ==
  ASSUME NEW s \in Seq(Byte), NEW t \in Seq(Byte), Plain(s \o t)
  PROVE  Plain(s) /\ Plain(t)
<1>1. /\ Len(s) \in Nat /\ Len(t) \in Nat /\ Len(s \o t) = Len(s) + Len(t)
      /\ \A i \in 1..(Len(s) + Len(t)) :
           (s \o t)[i] = IF i <= Len(s) THEN s[i] ELSE t[i - Len(s)]
  BY ConcatProperties
<1>2. ASSUME NEW i \in 1..Len(s) PROVE s[i] \in {"text", "cr"}
  <2>1. i \in 1..(Len(s) + Len(t)) /\ i <= Len(s)
    BY <1>1
  <2> QED
    BY <1>1, <2>1 DEF Plain
<1>3. ASSUME NEW i \in 1..Len(t) PROVE t[i] \in {"text", "cr"}
  <2>1. i + Len(s) \in 1..(Len(s) + Len(t)) /\ ~(i + Len(s) <= Len(s))
        /\ i + Len(s) - Len(s) = i
    BY <1>1
  <2> QED
    BY <1>1, <2>1 DEF Plain
<1> QED
  BY <1>2, <1>3 DEF Plain

\* Bytes that arrive while the script reads are neither lost nor read twice, and
\* plain text comes to the script as it was received.
THEOREM EachByteReadOnceCorrect == Spec => []EachByteReadOnce
<1>1. Init => ReadInv
  BY DEF Init, ReadInv, EachByteReadOnce
<1>2. TypeOK /\ ReadInv /\ [Next]_vars => ReadInv'
  <2> SUFFICES ASSUME TypeOK, ReadInv, [Next]_vars PROVE ReadInv'
    OBVIOUS
  <2>t. /\ buffer \in Seq(Byte) /\ received \in Seq(Byte) /\ taken \in Seq(Byte)
        /\ returned \in Seq(Byte \cup {"replaced"}) /\ reading \in BOOLEAN
    BY DEF TypeOK
  <2> USE DEF ReadInv, EachByteReadOnce
  <2>s. ASSUME UNCHANGED readVars, reading => phase' = "evaluating" PROVE ReadInv'
    BY <2>s DEF readVars
  <2>1. CASE Gui
    BY <2>1, <2>s DEF Gui, PressRun, PressAbort, Interrupt, ScriptFinished, SetSerialPort,
                      runVars
  <2>2. CASE Start
    <3>1. /\ received' = <<>> /\ taken' = <<>> /\ returned' = <<>> /\ buffer' = <<>>
          /\ reading' = reading /\ phase # "evaluating"
      BY <2>2 DEF Start
    <3>2. <<>> \o <<>> = <<>>
      OBVIOUS
    <3> QED
      BY <3>1, <3>2
  <2>3. CASE Evaluate \/ EndEvaluate \/ Join \/ EmitFinished
    BY <2>3, <2>s DEF Evaluate, EndEvaluate, InScript, Join, EmitFinished
  <2>4. CASE WriteText
    BY <2>4, <2>s DEF WriteText, InScript
  <2>5. CASE BeginReadText
    <3>1. /\ phase' = "evaluating" /\ ~reading /\ reading' = TRUE
          /\ received' = received
          /\ taken' = taken \o buffer /\ returned' = returned \o QString(buffer)
      BY <2>5 DEF BeginReadText, InScript, runVars
    <3>2. received = taken \o buffer /\ (Plain(received) => received = returned \o buffer)
      BY <3>1
    <3>3. ASSUME Plain(received) PROVE QString(buffer) = buffer
      <4>1. Plain(taken \o buffer)
        BY <3>2, <3>3
      <4>2. Plain(buffer)
        BY <2>t, <4>1, PlainParts
      <4> QED
        BY <2>t, <4>2, QStringType
    <3>4. Plain(received) => received = returned'
      BY <3>1, <3>2, <3>3
    <3>5. taken' \in Seq(Byte) /\ returned' \in Seq(Byte \cup {"replaced"})
      <4>1. QString(buffer) \in Seq(Byte \cup {"replaced"})
        BY <2>t, QStringType
      <4> QED
        BY <2>t, <3>1, <4>1
    <3>6. taken' \o <<>> = taken' /\ returned' \o <<>> = returned'
      BY <3>5
    <3>7. received' = taken' \o <<>> /\ (Plain(received') => received' = returned' \o <<>>)
      BY <3>1, <3>2, <3>4, <3>6
    <3> QED
      BY <3>1, <3>7
  <2>6. CASE EndReadText
    <3>1. /\ reading /\ reading' = FALSE /\ buffer' = <<>>
          /\ received' = received /\ taken' = taken /\ returned' = returned
      BY <2>6 DEF EndReadText
    <3> QED
      BY <3>1
  <2>7. ASSUME NEW b \in Byte, ReadyRead(b) PROVE ReadInv'
    <3>1. /\ ~reading /\ reading' = reading /\ taken' = taken /\ returned' = returned
          /\ phase' = phase
          /\ received' = Append(received, b) /\ buffer' = Append(buffer, b)
      BY <2>7 DEF ReadyRead, runVars
    <3>2. /\ taken \o Append(buffer, b) = Append(taken \o buffer, b)
          /\ returned \o Append(buffer, b) = Append(returned \o buffer, b)
      BY <2>t
    <3>3. received = taken \o buffer /\ (Plain(received) => received = returned \o buffer)
      BY <3>1
    <3>4. Plain(received') => Plain(received)
      <4>1. <<b>> \in Seq(Byte) /\ received' = received \o <<b>>
        BY <2>t, <3>1
      <4> QED
        BY <2>t, <4>1, PlainParts
    <3>5. /\ received' = taken' \o buffer'
          /\ Plain(received') => received' = returned' \o buffer'
      BY <3>1, <3>2, <3>3, <3>4
    <3> QED
      BY <3>1, <3>5
  <2>8. CASE ThreadStarts \/ DeliverEvent \/ ThreadExits
    BY <2>8, <2>s DEF ThreadStarts, DeliverEvent, ThreadExits, runVars
  <2>9. CASE UNCHANGED vars
    BY <2>9, <2>s DEF vars, runVars
  <2>10. QED
    BY <2>1, <2>2, <2>3, <2>4, <2>5, <2>6, <2>7, <2>8, <2>9 DEF Next, Script, SerialThread
<1>3. ReadInv => EachByteReadOnce
  BY DEF ReadInv
<1>4. QED
  BY <1>1, <1>2, <1>3, TypeCorrect, PTL DEF Spec
=============================================================================
