------------------------------ MODULE Scripting ------------------------------
(***************************************************************************)
(* The script runner: the Run and Abort buttons on the GUI thread, the     *)
(* script thread that evaluates, and the thread of the script's serial     *)
(* port.                                                                   *)
(*                                                                         *)
(* Scripting::run called from the GUI is queued to the script thread, and  *)
(* finished is queued back; abort is a direct call that looks at m_running *)
(* and sets a flag of the engine.  A ScriptSerial lives for one evaluation *)
(* and has a thread and an event queue of its own.                         *)
(*                                                                         *)
(* What a script does to the DMX levels is in DmxOutput, what Run does to  *)
(* the capture device in GadgetCapture.  A text written is abstracted to   *)
(* its number, a received byte to what makes a difference to readText: is  *)
(* it a carriage return, zero, the first or the second byte of a character *)
(* of two, or a character of its own.                                      *)
(***************************************************************************)
EXTENDS Naturals, Sequences, SequencesExt

CONSTANTS
  MaxRuns,    \* bound on presses of Run Script
  MaxTexts,   \* bound on the texts one script writes
  MaxBytes    \* bound on the bytes the serial port receives in one run

ASSUME ConstantsAssumption == {MaxRuns, MaxTexts, MaxBytes} \subseteq Nat

VARIABLES
  \* GUI thread
  runEnabled,    \* btnRunScript
  abortEnabled,  \* btnAbortScript
  aborting,      \* has abort() seen m_running and not yet set the flag
  serialChosen,  \* is Scripting::m_name set
  \* script thread
  requests,      \* queued calls of run
  phase,         \* where run is, see Phases
  running,       \* m_running
  interrupted,   \* the engine's interrupted flag
  error,         \* is the value of the evaluation an error
  reading,       \* is the script inside readText, holding m_bufferMutex
  reports,       \* queued finished signals
  \* the serial port of the script that runs
  serial,        \* the port's thread: "none", "starting", "looping" or "gone"
  port,          \* "closed", "open" or "failed"
  events,        \* events queued for the port's thread: Open or a text
  buffer,        \* m_buffer
  \* history, of the current run but for presses
  presses,       \* presses of Run Script
  written,       \* number of texts written by the script
  sent,          \* texts given to the open port
  received,      \* bytes received by the open port
  taken,         \* bytes readText took out of the buffer
  returned       \* the texts it returned, put together

guiVars    == <<runEnabled, abortEnabled, aborting, serialChosen, presses>>
runVars    == <<requests, phase, running, interrupted, error, reports>>
serialVars == <<serial, port, events, written, sent>>
readVars   == <<reading, buffer, received, taken, returned>>
vars == <<guiVars, runVars, serialVars, readVars>>

Byte   == {"text", "cr", "zero", "lead", "tail"}
Texts  == 1..MaxTexts
Open   == 0                \* the event that calls openPort
Report == [error : BOOLEAN, interrupted : BOOLEAN]

\* "starting": the script's objects exist, m_running is not yet set.
\* "joining": evaluation is over, m_running reset, ~ScriptSerial waits.
Phases == {"idle", "starting", "evaluating", "joining", "reporting"}

Init ==
  /\ runEnabled = TRUE
  /\ abortEnabled = FALSE
  /\ aborting = FALSE
  /\ serialChosen = FALSE
  /\ requests = 0
  /\ phase = "idle"
  /\ running = FALSE
  /\ interrupted = FALSE
  /\ error = FALSE
  /\ reading = FALSE
  /\ reports = <<>>
  /\ serial = "none"
  /\ port = "closed"
  /\ events = <<>>
  /\ buffer = <<>>
  /\ presses = 0
  /\ written = 0
  /\ sent = <<>>
  /\ received = <<>>
  /\ taken = <<>>
  /\ returned = <<>>

-----------------------------------------------------------------------------
(* GUI thread.                                                             *)

\* Fault: the script is queued twice.
PressRunTwice ==
  /\ runEnabled /\ ~aborting
  /\ presses < MaxRuns
  /\ presses' = presses + 1
  /\ requests' = requests + 2
  /\ runEnabled' = FALSE
  /\ abortEnabled' = TRUE
  /\ UNCHANGED <<aborting, serialChosen, phase, running, interrupted, error, reports,
                 serialVars, readVars>>

PressRun ==
  /\ runEnabled /\ ~aborting
  /\ presses < MaxRuns
  /\ presses' = presses + 1
  /\ requests' = requests + 1
  /\ runEnabled' = FALSE
  /\ abortEnabled' = TRUE
  /\ UNCHANGED <<aborting, serialChosen, phase, running, interrupted, error, reports,
                 serialVars, readVars>>

\* The handler ends by swapping the buttons, whatever abort did.
AbortPressed ==
  /\ runEnabled' = TRUE
  /\ abortEnabled' = FALSE

\* abort() does nothing unless m_running.
PressAbort ==
  /\ abortEnabled /\ ~aborting
  /\ IF running
     THEN aborting' = TRUE /\ UNCHANGED <<runEnabled, abortEnabled>>
     ELSE AbortPressed /\ UNCHANGED aborting
  /\ UNCHANGED <<serialChosen, presses, runVars, serialVars, readVars>>

Interrupt ==
  /\ aborting
  /\ aborting' = FALSE
  /\ interrupted' = TRUE
  /\ AbortPressed
  /\ UNCHANGED <<serialChosen, presses, requests, phase, running, error, reports,
                 serialVars, readVars>>

ScriptFinished ==
  /\ reports # <<>> /\ ~aborting
  /\ reports' = Tail(reports)
  /\ runEnabled' = TRUE
  /\ abortEnabled' = FALSE
  /\ UNCHANGED <<aborting, serialChosen, presses, requests, phase, running,
                 interrupted, error, serialVars, readVars>>

SetSerialPort ==
  /\ ~aborting /\ ~serialChosen
  /\ serialChosen' = TRUE
  /\ UNCHANGED <<runEnabled, abortEnabled, aborting, presses, runVars, serialVars,
                 readVars>>

-----------------------------------------------------------------------------
(* Script thread: run.                                                     *)

\* A ScriptSerial is built only when a port has been chosen.
Start ==
  /\ phase = "idle" /\ requests > 0
  /\ requests' = requests - 1
  /\ interrupted' = FALSE
  /\ phase' = "starting"
  /\ serial' = IF serialChosen THEN "starting" ELSE "none"
  /\ port' = "closed"
  /\ events' = <<>>
  /\ buffer' = <<>>
  /\ written' = 0
  /\ sent' = <<>>
  /\ received' = <<>>
  /\ taken' = <<>>
  /\ returned' = <<>>
  /\ UNCHANGED <<guiVars, running, error, reports, reading>>

Evaluate ==
  /\ phase = "starting"
  /\ phase' = "evaluating"
  /\ running' = TRUE
  /\ UNCHANGED <<guiVars, requests, interrupted, error, reports, serialVars, readVars>>

\* The script is between two calls of its objects.
InScript == phase = "evaluating" /\ ~reading

\* writeText of another thread queues itself to the port's thread.
WriteText ==
  /\ InScript
  /\ serial # "none"
  /\ written < MaxTexts
  /\ written' = written + 1
  /\ events' = Append(events, written + 1)
  /\ UNCHANGED <<guiVars, runVars, serial, port, sent, readVars>>

\* What is read as a C string: the bytes before the first zero.
BeforeZero(bytes) ==
  SubSeq(bytes, 1, CHOOSE n \in 0..Len(bytes) :
                     /\ \A i \in 1..n : bytes[i] # "zero"
                     /\ n < Len(bytes) => bytes[n + 1] = "zero")

\* A byte of a character of two without the other.
Cut(bytes, i) ==
  \/ bytes[i] = "lead" /\ (i < Len(bytes) => bytes[i + 1] # "tail")
  \/ bytes[i] = "tail" /\ (i > 1 => bytes[i - 1] # "lead")

\* The text QString makes of bytes in UTF-8, as the bytes that encode it: what is
\* cut is replaced by a character that says so.
QString(bytes) ==
  LET read == BeforeZero(bytes)
  IN [i \in 1..Len(read) |-> IF Cut(read, i) THEN "replaced" ELSE read[i]]

\* readText holds the mutex from its test for a carriage return to the clear.
BeginReadText ==
  /\ InScript
  /\ serial # "none"
  /\ Contains(buffer, "cr")
  /\ reading' = TRUE
  /\ taken' = taken \o buffer
  /\ returned' = returned \o QString(buffer)
  /\ UNCHANGED <<guiVars, runVars, serialVars, buffer, received>>

EndReadText ==
  /\ reading
  /\ reading' = FALSE
  /\ buffer' = <<>>
  /\ UNCHANGED <<guiVars, runVars, serialVars, received, taken, returned>>

\* A script ends by itself, by an exception, or because it is interrupted;
\* then ~ScriptSerial tells the port's thread to exit.
EndEvaluate ==
  /\ InScript
  /\ error' \in BOOLEAN
  /\ running' = FALSE
  /\ phase' = "joining"
  /\ UNCHANGED <<guiVars, requests, interrupted, reports, serialVars, readVars>>

\* Fault: the port's thread is not waited for.
JoinWithoutWait ==
  /\ phase = "joining"
  /\ phase' = "reporting"
  /\ UNCHANGED <<guiVars, requests, running, interrupted, error, reports, serialVars,
                 readVars>>

Join ==
  /\ phase = "joining"
  /\ serial \in {"none", "gone"}
  /\ serial' = "none"
  /\ phase' = "reporting"
  /\ UNCHANGED <<guiVars, requests, running, interrupted, error, reports, port, events,
                 written, sent, readVars>>

EmitFinished ==
  /\ phase = "reporting"
  /\ reports' = Append(reports, [error |-> error, interrupted |-> interrupted])
  /\ phase' = "idle"
  /\ UNCHANGED <<guiVars, requests, running, interrupted, error, serialVars, readVars>>

-----------------------------------------------------------------------------
(* The port's thread.                                                      *)

\* started is queued to openPort: texts may have been queued before it.
ThreadStarts ==
  /\ serial = "starting"
  /\ serial' = "looping"
  /\ events' = Append(events, Open)
  /\ UNCHANGED <<guiVars, runVars, port, written, sent, readVars>>

\* A text given to a port that is not open is dropped.
DeliverEvent ==
  /\ serial = "looping"
  /\ events # <<>>
  /\ events' = Tail(events)
  /\ IF Head(events) = Open
     THEN port' \in {"open", "failed"} /\ UNCHANGED sent
     ELSE /\ sent' = IF port = "open" THEN Append(sent, Head(events)) ELSE sent
          /\ UNCHANGED port
  /\ UNCHANGED <<guiVars, runVars, serial, written, readVars>>

\* Fault: the bytes are appended without the mutex.
ReadyReadUnlocked(b) ==
  /\ serial = "looping"
  /\ port = "open"
  /\ Len(received) < MaxBytes
  /\ received' = Append(received, b)
  /\ buffer' = Append(buffer, b)
  /\ UNCHANGED <<guiVars, runVars, serialVars, reading, taken, returned>>

\* readyRead appends under m_bufferMutex.
ReadyRead(b) ==
  /\ serial = "looping"
  /\ port = "open"
  /\ Len(received) < MaxBytes
  /\ ~reading
  /\ received' = Append(received, b)
  /\ buffer' = Append(buffer, b)
  /\ UNCHANGED <<guiVars, runVars, serialVars, reading, taken, returned>>

\* Fault: an exit before the event loop is forgotten.
ThreadExitsFromLoop ==
  /\ phase = "joining"
  /\ serial = "looping"
  /\ serial' = "gone"
  /\ events' = <<>>
  /\ UNCHANGED <<guiVars, runVars, port, written, sent, readVars>>

\* exit() ends the event loop between two events, or before its first; what
\* is still queued is never delivered.
ThreadExits ==
  /\ phase = "joining"
  /\ serial \in {"starting", "looping"}
  /\ serial' = "gone"
  /\ events' = <<>>
  /\ UNCHANGED <<guiVars, runVars, port, written, sent, readVars>>

-----------------------------------------------------------------------------
Gui == PressRun \/ PressAbort \/ Interrupt \/ ScriptFinished \/ SetSerialPort

Script ==
  \/ Start \/ Evaluate
  \/ WriteText \/ BeginReadText \/ EndReadText
  \/ EndEvaluate \/ Join \/ EmitFinished

SerialThread ==
  \/ ThreadStarts \/ DeliverEvent \/ ThreadExits
  \/ \E b \in Byte : ReadyRead(b)

Next == Gui \/ Script \/ SerialThread

Spec == Init /\ [][Next]_vars

\* Threads run.  A script need not end by itself, but the engine ends one that
\* is interrupted.
Fairness ==
  /\ WF_vars(Interrupt)
  /\ WF_vars(ScriptFinished)
  /\ WF_vars(Start) /\ WF_vars(Evaluate) /\ WF_vars(EndReadText)
  /\ SF_vars(interrupted /\ EndEvaluate)
  /\ WF_vars(Join) /\ WF_vars(EmitFinished)
  /\ WF_vars(ThreadExits)

FairSpec == Spec /\ Fairness

-----------------------------------------------------------------------------
(* Properties.                                                             *)

TypeOK ==
  /\ {runEnabled, abortEnabled, aborting, serialChosen, running, interrupted, error,
      reading} \subseteq BOOLEAN
  /\ {requests, presses} \subseteq 0..MaxRuns
  /\ phase \in Phases
  /\ reports \in Seq(Report)
  /\ serial \in {"none", "starting", "looping", "gone"}
  /\ port \in {"closed", "open", "failed"}
  /\ events \in Seq(Texts \cup {Open})
  /\ buffer \in Seq(Byte)
  /\ written \in 0..MaxTexts
  /\ sent \in Seq(Texts)
  /\ received \in Seq(Byte)
  /\ taken \in Seq(Byte)
  /\ returned \in Seq(Byte \cup {"replaced"})

\* Text without zeros in characters of one byte.
Plain(bytes) == \A i \in 1..Len(bytes) : bytes[i] \in {"text", "cr"}

\* Each byte that arrives, while the script reads too, is taken by one reading, in
\* order: the bytes taken, then the buffer, are what arrived.  The texts handed to the
\* script are the same bytes if they are plain; of others it gets what the
\* conversion leaves, and the rest of the buffer is gone (readyRead, readText).
EachByteReadOnce ==
  LET left == IF reading THEN <<>> ELSE buffer
  IN /\ received = taken \o left
     /\ Plain(received) => received = returned \o left

\* The port's thread never outlives its script: it is gone before the next
\* script can open the same port.
PortThreadEndsWithScript ==
  serial # "none" => phase \in {"starting", "evaluating", "joining"}

\* An abort that reached a running script stops it, and the GUI learns of it:
\* a script queued behind it does not take the flag back first, and the wait
\* for the port's thread ends.
AbortStopsScript == interrupted /\ running ~> phase = "idle"

\* Whatever was pressed, Run becomes available again or a script runs on.
RunComesBack == ~runEnabled ~> runEnabled \/ (phase = "evaluating" /\ ~interrupted)

\* doc/SCRIPTING.md:25: "Abort Script - aborts the script (if it is already
\* running)": a running script that has not been told to stop can be aborted.
RunningCanBeAborted == running /\ ~interrupted => abortEnabled

\* doc/SCRIPTING.md:46: "`serial.writeText(text)` - Writes the specified text
\* to the serial port": once the script is done, its texts are written, unless
\* the port could not be opened.
TextsAreWritten ==
  phase = "reporting" /\ port # "failed" => Len(sent) = written
=============================================================================
