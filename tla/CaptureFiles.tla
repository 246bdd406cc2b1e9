---------------------------- MODULE CaptureFiles ----------------------------
(***************************************************************************)
(* The packet table and the capture file: capturing into the table while   *)
(* threads save it and load it.                                            *)
(*                                                                         *)
(* MainWindow starts a thread for every Save and every Open; nothing keeps *)
(* two of them, or the capture, apart.  A job is one such thread with its  *)
(* FileSave or FileOpen.  A save walks the table row by row with rowCount  *)
(* and getPacket, a load appends row by row; each access to the table is   *)
(* one step here (QList's own unsynchronised memory is not modelled).      *)
(*                                                                         *)
(* A row is a packet: its timestamp and the messages run together in it.   *)
(* The file is a sequence of rows.  A save writes it in pieces, whenever   *)
(* the text stream has enough in its buffer, each piece at the save's own  *)
(* position: past the end of a file that another save has truncated, it    *)
(* leaves a hole.  Positions are counted in rows, and pieces end where a   *)
(* row does: the same row is the same text for every save.  A load takes   *)
(* the rows when it starts; that its stream reads a long file piece by     *)
(* piece makes a difference only while a save writes the same file, and no *)
(* property is about the rows such a load appends.                         *)
(***************************************************************************)
EXTENDS Naturals, Sequences, SequencesExt

CONSTANTS
  MaxPackets,  \* bound on the packets captured
  MaxJobs      \* bound on the saves and loads started

ASSUME ConstantsAssumption ==
  /\ MaxPackets \in Nat
  /\ MaxJobs \in Nat

VARIABLES
  table,      \* PacketTable::m_packets
  dissector,  \* is the RDM dissector enabled
  file,       \* the rows in the capture file
  format,     \* its format
  jobs,       \* the save and load threads started so far
  discarding, \* is the GUI thread inside discardDmxData
  signals,    \* Started and Finished, queued to the window
  cursor,     \* wait cursors set and not restored
  crashed,    \* has a save read a row that is not there
  \* bounds
  captured,   \* packets captured
  started     \* jobs started

vars == <<table, dissector, file, format, jobs, discarding, signals, cursor,
          crashed, captured, started>>

-----------------------------------------------------------------------------
\* A DMX frame, RDM messages that a Whip cannot part from the response to them,
\* or, from a compressed file only, nothing.
Messages == {"dmx", "rdm", "response"}
Captures == {<<"dmx">>, <<"rdm", "rdm", "response">>}
Row      == [time : Nat, data : Seq(Messages)]

Kinds == {"save", "load"}
None  == [kind |-> "none"]
Job   == [kind  : Kinds,
          state : {"queued", "checking", "reading", "loading"},
          open  : BOOLEAN,   \* has the file been opened
          lines : Seq(Row),  \* what its stream buffers: rows to write, or to load
          at    : Nat,       \* rows before its position in the file it writes
          skips : BOOLEAN,   \* is it a load that passes over lines without data
          \* history
          rows   : Nat,      \* rows in the table when it was started
          shrunk : BOOLEAN,  \* has the table become shorter since
          clear  : BOOLEAN]  \* has nothing else got in its way

JobId == 1..MaxJobs

\* Zero bytes of a file, in place of a row.
Hole == [time |-> 0, data |-> <<>>]

\* At first the file holds one row or none, or what two saves have left before.
Init ==
  /\ table = <<>>
  /\ dissector = TRUE
  /\ format \in {"text", "compressed"}
  /\ \/ file \in {<<>>} \cup {<<[time |-> 1, data |-> d]>> : d \in Captures \cup {<<>>}}
     \/ format = "text" /\ file = <<Hole, [time |-> 1, data |-> <<"dmx">>]>>
  /\ jobs = [j \in JobId |-> None]
  /\ discarding = FALSE
  /\ signals = <<>>
  /\ cursor = 0
  /\ crashed = FALSE
  /\ captured = 0
  /\ started = 0

HasData(r) == r.data # <<>>

Running(kinds) == {j \in JobId : jobs[j].kind \in kinds}

\* The jobs, those of the kinds given that run no longer clear.
Disturb(js, kinds) ==
  [j \in JobId |-> IF js[j].kind \in kinds THEN [js[j] EXCEPT !.clear = FALSE]
                                          ELSE js[j]]

\* The jobs that run, after a step that takes rows out of the table.
Shrink(js) ==
  [j \in JobId |->
     IF js[j].kind \in Kinds
     THEN [js[j] EXCEPT !.shrunk = @ \/ Len(table') < Len(table), !.clear = FALSE]
     ELSE js[j]]

-----------------------------------------------------------------------------
(* PacketTable.                                                            *)

\* Fault: the second part gets no timestamp of its own.
PreprocessUntimed(r) ==
  IF Len(r.data) > 1 /\ Head(r.data) = "rdm"
  THEN <<[r EXCEPT !.data = <<Head(@)>>], [time |-> 0, data |-> Tail(r.data)]>>
  ELSE <<r>>

\* RdmPlugin::preprocessPacket: what follows the first message is split off,
\* once.  The other dissectors keep a packet whole.
Preprocess(r) ==
  IF Len(r.data) > 1 /\ Head(r.data) = "rdm"
  THEN <<[r EXCEPT !.data = <<Head(@)>>], [r EXCEPT !.data = Tail(@)]>>
  ELSE <<r>>

\* appendPacket, on the GUI thread or on that of a load.
AppendPacket(r) ==
  table' = table \o (IF dissector THEN Preprocess(r) ELSE <<r>>)

-----------------------------------------------------------------------------
(* The GUI thread.                                                         *)

GuiFree == ~crashed /\ ~discarding

\* readData: a captured packet goes to the table, during a load too.
Capture(d) ==
  /\ GuiFree
  /\ captured < MaxPackets
  /\ captured' = captured + 1
  /\ AppendPacket([time |-> captured + 1, data |-> d])
  /\ jobs' = Disturb(jobs, {"load"})
  /\ UNCHANGED <<dissector, file, format, discarding, signals, cursor, crashed, started>>

\* startCapture empties the table.
ClearTable ==
  /\ GuiFree
  /\ table # <<>>
  /\ table' = <<>>
  /\ jobs' = Shrink(jobs)
  /\ UNCHANGED <<dissector, file, format, discarding, signals, cursor, crashed,
                 captured, started>>

\* discardDmxData: the rows go one by one, which other threads may see.
DiscardDmx ==
  /\ GuiFree
  /\ table # <<>>
  /\ discarding' = TRUE
  /\ UNCHANGED <<table, dissector, file, format, jobs, signals, cursor, crashed,
                 captured, started>>

\* Does a row begin with a zero byte; an empty one reads as if it did.
Discards(r) == HasData(r) => Head(r.data) = "dmx"

DiscardStep ==
  /\ ~crashed
  /\ discarding
  /\ UNCHANGED <<dissector, file, format, signals, cursor, crashed, captured, started>>

\* The iterator removes the next row of that kind.
DiscardRow ==
  /\ DiscardStep
  /\ \E i \in 1..Len(table) :
       /\ Discards(table[i])
       /\ \A k \in 1..(i - 1) : ~Discards(table[k])
       /\ table' = RemoveAt(table, i)
  /\ jobs' = Shrink(jobs)
  /\ UNCHANGED discarding

EndDiscard ==
  /\ DiscardStep
  /\ \A i \in 1..Len(table) : ~Discards(table[i])
  /\ discarding' = FALSE
  /\ UNCHANGED <<table, jobs>>

\* The user switches the RDM dissector on or off (the dissector menu).
ToggleDissector ==
  /\ GuiFree
  /\ dissector' = ~dissector
  /\ UNCHANGED <<table, file, format, jobs, discarding, signals, cursor, crashed,
                 captured, started>>

StartJob(js, kind, open, clear) ==
  /\ started < MaxJobs
  /\ started' = started + 1
  /\ jobs' = [js EXCEPT ![started'] =
                [kind |-> kind, state |-> "queued", open |-> open, lines |-> <<>>,
                 at |-> 0, skips |-> FALSE, rows |-> Len(table'), shrunk |-> FALSE,
                 clear |-> clear]]

\* saveTextFile: opening the file to write truncates it at once, under the saves
\* and loads that run; a file that cannot be opened is saved to all the same.
PressSave(open) ==
  /\ GuiFree
  /\ UNCHANGED <<table, dissector, discarding, signals, cursor, crashed, captured>>
  /\ StartJob(Disturb(jobs, IF open THEN Kinds ELSE {"load"}), "save", open,
              \A j \in Running({"save"}) : ~jobs[j].shrunk)
  /\ file' = IF open THEN <<>> ELSE file
  /\ format' = IF open THEN "text" ELSE format

\* openFile: the table is emptied and the file opened to read.
PressOpen(open) ==
  /\ GuiFree
  /\ table' = <<>>
  /\ StartJob(Shrink(jobs), "load", open, Running(Kinds) = {})
  /\ UNCHANGED <<dissector, file, format, discarding, signals, cursor, crashed, captured>>

\* Started sets the wait cursor, Finished restores the one before.
DeliverSignal ==
  /\ GuiFree
  /\ signals # <<>>
  /\ signals' = Tail(signals)
  /\ cursor' = IF Head(signals) = "Started" THEN cursor + 1 ELSE cursor - 1
  /\ UNCHANGED <<table, dissector, file, format, jobs, discarding, crashed, captured,
                 started>>

-----------------------------------------------------------------------------
(* The threads of the jobs.                                                *)

JobStep(j, kind, state) ==
  /\ ~crashed
  /\ jobs[j].kind = kind
  /\ jobs[j].state = state
  /\ UNCHANGED <<dissector, discarding, cursor, captured, started>>

\* doSave emits Started.
StartSave(j) ==
  /\ JobStep(j, "save", "queued")
  /\ jobs' = [jobs EXCEPT ![j].state = "checking"]
  /\ signals' = Append(signals, "Started")
  /\ UNCHANGED <<table, file, format, crashed>>

\* The rows a save has read: the loop's i.
RowsRead(j) == jobs[j].at + Len(jobs[j].lines)

\* Fault: the loop runs one row too far.
CheckRowTooFar(j) ==
  /\ JobStep(j, "save", "checking")
  /\ RowsRead(j) <= Len(table)
  /\ jobs' = [jobs EXCEPT ![j].state = "reading"]
  /\ UNCHANGED <<table, file, format, signals, crashed>>

\* writeTable: is there another row.
CheckRow(j) ==
  /\ JobStep(j, "save", "checking")
  /\ RowsRead(j) < Len(table)
  /\ jobs' = [jobs EXCEPT ![j].state = "reading"]
  /\ UNCHANGED <<table, file, format, signals, crashed>>

\* The file once rows are written in it after the first n.
Written(n, rows) ==
  LET end == n + Len(rows)
  IN [i \in 1..(IF Len(file) > end THEN Len(file) ELSE end) |->
        IF i \in (n + 1)..end THEN rows[i - n]
        ELSE IF i <= Len(file) THEN file[i]
        ELSE Hole]

\* Fault: the rows are added to what the file holds.
FlushAtEnd(j, rows) ==
  file' = IF jobs[j].open THEN file \o rows ELSE file

\* The stream writes at its file's position, if it has opened it.
Flush(j, rows) ==
  file' = IF jobs[j].open /\ rows # <<>> THEN Written(jobs[j].at, rows) ELSE file

\* getPacket and writePacket: the row stays in the stream's buffer, or is the one
\* that fills it, and all the rows in it are written.
ReadRow(j) ==
  LET n    == RowsRead(j) + 1
      rows == Append(jobs[j].lines, table[n])
  IN
  /\ JobStep(j, "save", "reading")
  /\ n <= Len(table)
  /\ \/ /\ jobs' = [jobs EXCEPT ![j].state = "checking", ![j].lines = rows]
        /\ UNCHANGED file
     \/ /\ jobs' = [jobs EXCEPT ![j].state = "checking", ![j].lines = <<>>, ![j].at = n]
        /\ Flush(j, rows)
  /\ UNCHANGED <<table, format, signals, crashed>>

\* Is a save about to read a row that is not there.
PastEnd(j) ==
  /\ jobs[j].kind = "save"
  /\ jobs[j].state = "reading"
  /\ RowsRead(j) >= Len(table)

\* The table has become shorter since the check: the program fails.
ReadRowGone(j) ==
  /\ JobStep(j, "save", "reading")
  /\ PastEnd(j)
  /\ crashed' = TRUE
  /\ UNCHANGED <<table, file, format, jobs, signals>>

\* After the loop, what is left in the buffer is written.
EndSave(j) ==
  /\ JobStep(j, "save", "checking")
  /\ RowsRead(j) >= Len(table)
  /\ Flush(j, jobs[j].lines)
  /\ jobs' = [jobs EXCEPT ![j] = None]
  /\ signals' = Append(signals, "Finished")
  /\ UNCHANGED <<table, format, crashed>>

\* The rows as they are read: a hole has no line end, its zero bytes come before
\* the next row's timestamp, which is then no number.
AsRead(rows) ==
  [i \in 1..Len(rows) |->
     IF i > 1 /\ rows[i - 1] = Hole THEN [rows[i] EXCEPT !.time = 0] ELSE rows[i]]

\* Fault: Started is not emitted.
StartLoadSilent(j) ==
  /\ JobStep(j, "load", "queued")
  /\ jobs' = [jobs EXCEPT ![j].state = "loading",
                          ![j].lines = IF jobs[j].open THEN AsRead(file) ELSE <<>>,
                          ![j].skips = format = "text"]
  /\ UNCHANGED <<table, file, format, signals, crashed>>

\* doRead emits Started and finds the format.
StartLoad(j) ==
  /\ JobStep(j, "load", "queued")
  /\ jobs' = [jobs EXCEPT ![j].state = "loading",
                          ![j].lines = IF jobs[j].open THEN AsRead(file) ELSE <<>>,
                          ![j].skips = format = "text"]
  /\ signals' = Append(signals, "Started")
  /\ UNCHANGED <<table, file, format, crashed>>

\* One row of the file becomes a packet of the table; a text line without data
\* gives none.
LoadRow(j) ==
  /\ JobStep(j, "load", "loading")
  /\ jobs[j].lines # <<>>
  /\ IF jobs[j].skips /\ ~HasData(Head(jobs[j].lines))
     THEN UNCHANGED table
     ELSE AppendPacket(Head(jobs[j].lines))
  /\ jobs' = [jobs EXCEPT ![j].lines = Tail(@)]
  /\ UNCHANGED <<file, format, signals, crashed>>

\* Fault: an unreadable file gives no Finished.
EndLoadIfOpen(j) ==
  /\ JobStep(j, "load", "loading")
  /\ jobs[j].lines = <<>>
  /\ jobs' = [jobs EXCEPT ![j] = None]
  /\ signals' = IF jobs[j].open THEN Append(signals, "Finished") ELSE signals
  /\ UNCHANGED <<table, file, format, crashed>>

EndLoad(j) ==
  /\ JobStep(j, "load", "loading")
  /\ jobs[j].lines = <<>>
  /\ jobs' = [jobs EXCEPT ![j] = None]
  /\ signals' = Append(signals, "Finished")
  /\ UNCHANGED <<table, file, format, crashed>>

-----------------------------------------------------------------------------
User ==
  \/ \E d \in Captures : Capture(d)
  \/ ClearTable \/ DiscardDmx \/ ToggleDissector
  \/ \E open \in BOOLEAN : PressSave(open) \/ PressOpen(open)

Work(j) ==
  \/ StartSave(j) \/ CheckRow(j) \/ ReadRow(j) \/ ReadRowGone(j) \/ EndSave(j)
  \/ StartLoad(j) \/ LoadRow(j) \/ EndLoad(j)

Discard == DiscardRow \/ EndDiscard

Next == User \/ Discard \/ DeliverSignal \/ \E j \in JobId : Work(j)

Spec == Init /\ [][Next]_vars

\* Every thread started runs on, and the window ends what it does and, however
\* often the user keeps it busy in between, delivers its signals.
FairSpec ==
  /\ Spec
  /\ WF_vars(Discard)
  /\ SF_vars(DeliverSignal)
  /\ \A j \in JobId : WF_vars(Work(j))

-----------------------------------------------------------------------------
(* Properties.                                                             *)

TypeOK ==
  /\ table \in Seq(Row)
  /\ dissector \in BOOLEAN
  /\ file \in Seq(Row)
  /\ format \in {"text", "compressed"}
  /\ jobs \in [JobId -> Job \cup {None}]
  /\ discarding \in BOOLEAN
  /\ signals \in Seq({"Started", "Finished"})
  /\ cursor \in Nat
  /\ crashed \in BOOLEAN
  /\ captured \in 0..MaxPackets
  /\ started \in 0..MaxJobs

\* The messages in a sequence of rows, each with its row's timestamp.
PiecesOf(r)  == [k \in 1..Len(r.data) |-> <<r.time, r.data[k]>>]
Pieces(rows) == FlattenSeq([i \in 1..Len(rows) |-> PiecesOf(rows[i])])

\* Has the file no hole.
Intact == \A i \in 1..Len(file) : file[i] # Hole

\* When a save ends, the file begins with the rows that were there when Save was
\* pressed, and holds nothing but the first rows of the table, if the save could
\* open it, the table only grew, and no later save truncated the file.  Saves begun
\* before it may still be writing: the holes their pieces leave in the file it has
\* truncated are filled, and what they write is what it writes, if while they ran
\* the table only grew too (saveTextFile, FileSave::writeTable).
SavedFileHoldsRows ==
  [][\A j \in Running({"save"}) :
       EndSave(j) /\ jobs[j].open /\ jobs[j].clear =>
         IsPrefix(file', table) /\ Len(file') >= jobs[j].rows]_vars

\* A load that nothing has disturbed, of a file without holes, ends with the
\* messages that are in it, in order and with their timestamps, however rows are
\* split: saving split rows, or switching the dissector meanwhile, loses nothing
\* (FileOpen::loadOriginal and loadCompressed, appendPacket, preprocessPacket).
ReloadGivesMessages ==
  [][\A j \in Running({"load"}) :
       EndLoad(j) /\ jobs[j].open /\ jobs[j].clear /\ Intact =>
         Pieces(table) = Pieces(file)]_vars

\* A save reads a row that is not there only if, since that save was started, the
\* table has become shorter; packets captured or loaded meanwhile never make it
\* fail (FileSave::writeTable, PacketTable::getPacket).
CrashNeedsShrunkTable ==
  crashed => \E j \in JobId : PastEnd(j) /\ jobs[j].shrunk

\* The wait cursor never stays: each job that sets it restores it in the end,
\* however jobs overlap, as long as the program lives.
CursorComesBack == cursor > 0 ~> cursor = 0 \/ crashed
=============================================================================
