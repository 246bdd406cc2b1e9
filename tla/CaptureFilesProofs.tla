------------------------- MODULE CaptureFilesProofs -------------------------
(***************************************************************************)
(* Safety of the packet table and the threads that save and load it, for   *)
(* any number of packets captured and jobs started.                        *)
(***************************************************************************)
EXTENDS CaptureFiles, SequenceTheorems, SequenceInduction

-----------------------------------------------------------------------------
(* The jobs.                                                               *)

\* A slot that has a job in it has a whole one.
LEMMA JobAt ==
  ASSUME jobs \in [JobId -> Job \cup {None}], NEW j \in JobId, jobs[j].kind \in Kinds
  PROVE  jobs[j] \in Job
<1>1. jobs[j] \in Job \cup {None}
  OBVIOUS
<1>2. None.kind = "none"
  BY DEF None
<1>3. QED
  BY <1>1, <1>2 DEF Kinds

\* What a handler may do to the jobs that run: write in their history.
Marked(js) ==
  /\ js \in [JobId -> Job \cup {None}]
  /\ \A j \in JobId :
       IF jobs[j].kind \in Kinds
       THEN js[j] = [jobs[j] EXCEPT !.shrunk = js[j].shrunk, !.clear = js[j].clear]
       ELSE js[j] = jobs[j]

\* The rest of a job stays.
LEMMA MarkedFields ==
  ASSUME jobs \in [JobId -> Job \cup {None}], NEW js, Marked(js), NEW j \in JobId
  PROVE  /\ js[j].kind = jobs[j].kind
         /\ js[j].state = jobs[j].state
         /\ jobs[j].kind \in Kinds =>
              /\ js[j] \in Job
              /\ js[j].open = jobs[j].open
              /\ js[j].lines = jobs[j].lines
              /\ js[j].at = jobs[j].at
              /\ js[j].rows = jobs[j].rows
         /\ jobs[j].kind \notin Kinds => js[j] = jobs[j]
<1>1. CASE jobs[j].kind \in Kinds
  <2>1. jobs[j] \in Job /\ js[j] = [jobs[j] EXCEPT !.shrunk = js[j].shrunk, !.clear = js[j].clear]
    BY <1>1, JobAt DEF Marked
  <2> DEFINE sh == js[j].shrunk
             cl == js[j].clear
  <2> HIDE DEF sh, cl
  <2>2. js[j] = [jobs[j] EXCEPT !.shrunk = sh, !.clear = cl]
    BY <2>1 DEF sh, cl
  <2>3. /\ js[j].kind = jobs[j].kind /\ js[j].state = jobs[j].state
        /\ js[j].open = jobs[j].open /\ js[j].lines = jobs[j].lines
        /\ js[j].at = jobs[j].at /\ js[j].rows = jobs[j].rows
    BY <2>1, <2>2 DEF Job
  <2>4. js[j] \in Job
    <3>1. js[j] \in Job \cup {None}
      BY DEF Marked
    <3>2. None.kind \notin Kinds
      BY DEF None, Kinds
    <3>3. QED
      BY <1>1, <2>3, <3>1, <3>2
  <2>5. QED
    BY <1>1, <2>3, <2>4
<1>2. CASE jobs[j].kind \notin Kinds
  BY <1>2 DEF Marked
<1>3. QED
  BY <1>1, <1>2

\* Disturbing changes clear alone, and only of the kinds given.
LEMMA Disturbed ==
  ASSUME jobs \in [JobId -> Job \cup {None}], NEW kinds \in SUBSET Kinds
  PROVE  /\ Marked(Disturb(jobs, kinds))
         /\ \A j \in JobId : jobs[j].kind \in Kinds =>
              /\ Disturb(jobs, kinds)[j].shrunk = jobs[j].shrunk
              /\ Disturb(jobs, kinds)[j].clear = (jobs[j].clear /\ jobs[j].kind \notin kinds)
<1>1. ASSUME NEW j \in JobId, jobs[j].kind \in Kinds
      PROVE  LET d == Disturb(jobs, kinds)[j] IN
             /\ d \in Job
             /\ d.shrunk = jobs[j].shrunk
             /\ d.clear = (jobs[j].clear /\ jobs[j].kind \notin kinds)
             /\ d = [jobs[j] EXCEPT !.shrunk = d.shrunk, !.clear = d.clear]
  <2>1. jobs[j] \in Job
    BY <1>1, JobAt
  <2>2. CASE jobs[j].kind \in kinds
    <3>1. Disturb(jobs, kinds)[j] = [jobs[j] EXCEPT !.clear = FALSE]
      BY <2>2 DEF Disturb
    <3>2. QED
      BY <2>1, <2>2, <3>1 DEF Job
  <2>3. CASE jobs[j].kind \notin kinds
    <3>1. Disturb(jobs, kinds)[j] = jobs[j]
      BY <2>3 DEF Disturb
    <3>2. QED
      BY <2>1, <2>3, <3>1 DEF Job
  <2>4. QED
    BY <2>2, <2>3
<1>2. \A j \in JobId : jobs[j].kind \notin Kinds => Disturb(jobs, kinds)[j] = jobs[j]
  BY DEF Disturb
<1>3. Disturb(jobs, kinds) \in [JobId -> Job \cup {None}]
  <2>1. \A j \in JobId : Disturb(jobs, kinds)[j] \in Job \cup {None}
    BY <1>1, <1>2
  <2>2. Disturb(jobs, kinds) = [j \in JobId |-> Disturb(jobs, kinds)[j]]
    BY DEF Disturb
  <2>3. QED
    BY <2>1, <2>2
<1>4. QED
  BY <1>1, <1>2, <1>3 DEF Marked

\* A table that shrinks is remembered by every job.
LEMMA Shrunk ==
  ASSUME jobs \in [JobId -> Job \cup {None}]
  PROVE  /\ Marked(Shrink(jobs))
         /\ \A j \in JobId : jobs[j].kind \in Kinds =>
              /\ Shrink(jobs)[j].shrunk = (jobs[j].shrunk \/ Len(table') < Len(table))
              /\ ~Shrink(jobs)[j].clear
<1> DEFINE shorter == Len(table') < Len(table)
<1>1. ASSUME NEW j \in JobId, jobs[j].kind \in Kinds
      PROVE  LET d == Shrink(jobs)[j] IN
             /\ d \in Job
             /\ d.shrunk = (jobs[j].shrunk \/ shorter)
             /\ d.clear = FALSE
             /\ d = [jobs[j] EXCEPT !.shrunk = d.shrunk, !.clear = d.clear]
  <2>1. jobs[j] \in Job
    BY <1>1, JobAt
  <2>2. Shrink(jobs)[j] = [jobs[j] EXCEPT !.shrunk = @ \/ shorter, !.clear = FALSE]
    BY <1>1 DEF Shrink
  <2> HIDE DEF shorter
  <2>3. QED
    BY <2>1, <2>2 DEF Job
<1>2. \A j \in JobId : jobs[j].kind \notin Kinds => Shrink(jobs)[j] = jobs[j]
  BY DEF Shrink
<1>3. Shrink(jobs) \in [JobId -> Job \cup {None}]
  <2>1. \A j \in JobId : Shrink(jobs)[j] \in Job \cup {None}
    BY <1>1, <1>2
  <2>2. Shrink(jobs) = [j \in JobId |-> Shrink(jobs)[j]]
    BY DEF Shrink
  <2>3. QED
    BY <2>1, <2>2
<1>4. QED
  BY <1>1, <1>2, <1>3 DEF Marked

\* The dissector parts a row into rows.
LEMMA PreprocessType ==
  ASSUME NEW r \in Row
  PROVE  Preprocess(r) \in Seq(Row) /\ <<r>> \in Seq(Row)
<1>1. CASE Len(r.data) > 1 /\ Head(r.data) = "rdm"
  <2>1. r.data \in Seq(Messages) /\ r.time \in Nat
    BY DEF Row
  <2>2. <<Head(r.data)>> \in Seq(Messages) /\ Tail(r.data) \in Seq(Messages)
    <3>1. Head(r.data) \in Messages /\ Tail(r.data) \in Seq(Messages)
      BY <1>1, <2>1
    <3>2. QED
      BY <3>1
  <2> DEFINE one == <<Head(r.data)>>
             others == Tail(r.data)
  <2> HIDE DEF one, others
  <2>a. one \in Seq(Messages) /\ others \in Seq(Messages)
    BY <2>2 DEF one, others
  <2>b. [r EXCEPT !.data = one] \in Row /\ [r EXCEPT !.data = others] \in Row
    BY <2>1, <2>a DEF Row
  <2>3. [r EXCEPT !.data = <<Head(@)>>] \in Row /\ [r EXCEPT !.data = Tail(@)] \in Row
    BY <2>b DEF one, others
  <2>4. QED
    BY <1>1, <2>3 DEF Preprocess
<1>2. CASE ~(Len(r.data) > 1 /\ Head(r.data) = "rdm")
  BY <1>2 DEF Preprocess
<1>3. QED
  BY <1>1, <1>2

\* An append keeps the table a sequence of rows, and its first rows.
LEMMA AppendType ==
  ASSUME table \in Seq(Row), NEW r \in Row, AppendPacket(r)
  PROVE  /\ table' \in Seq(Row)
         /\ Len(table') >= Len(table)
         /\ \A i \in 1..Len(table) : table'[i] = table[i]
<1>1. PICK new \in Seq(Row) : table' = table \o new
  BY PreprocessType DEF AppendPacket
<1>2. QED
  BY <1>1

\* Taking a row out leaves a sequence of rows.
LEMMA RemoveType ==
  ASSUME NEW s \in Seq(Row), NEW i \in 1..Len(s)
  PROVE  RemoveAt(s, i) \in Seq(Row)
<1>1. SubSeq(s, 1, i - 1) \in Seq(Row) /\ SubSeq(s, i + 1, Len(s)) \in Seq(Row)
  OBVIOUS
<1>2. QED
  BY <1>1 DEF RemoveAt

\* A change of one job's fields that keeps their types keeps the jobs' type.
LEMMA JobChanged ==
  ASSUME jobs \in [JobId -> Job \cup {None}], NEW j \in JobId,
         NEW b \in Job \cup {None}, jobs' = [jobs EXCEPT ![j] = b]
  PROVE  /\ jobs' \in [JobId -> Job \cup {None}]
         /\ jobs'[j] = b
         /\ \A k \in JobId \ {j} : jobs'[k] = jobs[k]
  OBVIOUS

\* A hole has the type of a row.
LEMMA HoleType == Hole \in Row
  BY DEF Hole, Row

\* What is written in a file, and where.
LEMMA WrittenAt ==
  ASSUME file \in Seq(Row), NEW n \in Nat, NEW rows \in Seq(Row)
  PROVE  LET end == n + Len(rows) IN
         /\ Written(n, rows) \in Seq(Row)
         /\ Len(Written(n, rows)) = IF Len(file) > end THEN Len(file) ELSE end
         /\ \A i \in (n + 1)..end : Written(n, rows)[i] = rows[i - n]
         /\ \A i \in 1..Len(file) : i \notin (n + 1)..end => Written(n, rows)[i] = file[i]
<1> DEFINE end == n + Len(rows)
           last == IF Len(file) > end THEN Len(file) ELSE end
           w == Written(n, rows)
<1>1. /\ Len(file) \in Nat /\ Len(rows) \in Nat /\ end \in Nat /\ last \in Nat
      /\ Len(file) <= last /\ end <= last
  OBVIOUS
<1>2. w = [i \in 1..last |-> IF i \in (n + 1)..end THEN rows[i - n]
                              ELSE IF i <= Len(file) THEN file[i] ELSE Hole]
  BY DEF Written
<1>3. ASSUME NEW i \in 1..last
      PROVE  (IF i \in (n + 1)..end THEN rows[i - n]
              ELSE IF i <= Len(file) THEN file[i] ELSE Hole) \in Row
  <2>1. CASE i \in (n + 1)..end
    <3>1. i - n \in 1..Len(rows)
      BY <1>1, <2>1
    <3>2. QED
      BY <2>1, <3>1
  <2>2. CASE i \notin (n + 1)..end /\ i <= Len(file)
    BY <1>1, <2>2
  <2>3. CASE i \notin (n + 1)..end /\ ~(i <= Len(file))
    BY <2>3, HoleType
  <2>4. QED
    BY <2>1, <2>2, <2>3
<1> HIDE DEF w, last
<1>4. w \in Seq(Row) /\ Len(w) = last
  BY <1>1, <1>2, <1>3, IsASeq
<1>5. \A i \in (n + 1)..end : w[i] = rows[i - n]
  <2> SUFFICES ASSUME NEW i \in (n + 1)..end PROVE w[i] = rows[i - n]
    OBVIOUS
  <2>1. i \in 1..last
    BY <1>1
  <2>2. QED
    BY <1>2, <2>1
<1>6. \A i \in 1..Len(file) : i \notin (n + 1)..end => w[i] = file[i]
  <2> SUFFICES ASSUME NEW i \in 1..Len(file), i \notin (n + 1)..end PROVE w[i] = file[i]
    OBVIOUS
  <2>1. i \in 1..last /\ i <= Len(file)
    BY <1>1
  <2>2. QED
    BY <1>2, <2>1
<1>7. QED
  BY <1>4, <1>5, <1>6 DEF w, last

-----------------------------------------------------------------------------
(* Types, and the wait cursor.                                             *)

Types ==
  /\ table \in Seq(Row)
  /\ dissector \in BOOLEAN
  /\ file \in Seq(Row)
  /\ format \in {"text", "compressed"}
  /\ jobs \in [JobId -> Job \cup {None}]
  /\ discarding \in BOOLEAN
  /\ signals \in Seq({"Started", "Finished"})
  /\ crashed \in BOOLEAN
  /\ captured \in 0..MaxPackets
  /\ started \in 0..MaxJobs

\* A slot is free until a job is started in it.
FreeSlots == \A j \in JobId : j > started => jobs[j] = None

\* The jobs that have emitted Started and not yet Finished.
Active == {j \in JobId : jobs[j].kind \in Kinds /\ jobs[j].state # "queued"}

\* wait[i] is what cursor is once the first i signals are delivered: never less
\* than nothing, and in the end one for each active job.
Foresees(wait) ==
  /\ wait \in [0..Len(signals) -> Nat]
  /\ wait[0] = cursor
  /\ \A i \in 1..Len(signals) :
       wait[i] = IF signals[i] = "Started" THEN wait[i - 1] + 1 ELSE wait[i - 1] - 1
  /\ wait[Len(signals)] = Cardinality(Active)

CursorInv == \E wait : Foresees(wait)

TypeInv == Types /\ FreeSlots /\ CursorInv

\* What is captured is a sequence of messages.
LEMMA CapturesType == \A d \in Captures \cup {<<>>} : d \in Seq(Messages)
<1>1. \A S : \A a \in S : <<a>> \in Seq(S)
  OBVIOUS
<1>2. \A S : \A a, b, c \in S : <<a, b, c>> \in Seq(S)
  OBVIOUS
<1>3. \A S : <<>> \in Seq(S)
  OBVIOUS
<1>4. "dmx" \in Messages /\ "rdm" \in Messages /\ "response" \in Messages
  BY DEF Messages
<1>5. <<"dmx">> \in Seq(Messages) /\ <<"rdm", "rdm", "response">> \in Seq(Messages)
  BY <1>1, <1>2, <1>4
<1>6. QED
  BY <1>3, <1>5 DEF Captures

\* At first no job has started.
LEMMA TypeInit == Init => TypeInv
<1> USE ConstantsAssumption
<1> SUFFICES ASSUME Init PROVE TypeInv
  OBVIOUS
<1>1. Types
  <2>1. \A d \in Captures \cup {<<>>} : d \in Seq(Messages)
    BY CapturesType
  <2>2. \A d \in Captures \cup {<<>>} : [time |-> 1, data |-> d] \in Row
    BY <2>1 DEF Row
  <2>3. \A x \in Row : <<x>> \in Seq(Row)
    OBVIOUS
  <2>4. <<>> \in Seq(Row) /\ <<>> \in Seq({"Started", "Finished"})
    OBVIOUS
  <2>5. file \in Seq(Row)
    <3>1. [time |-> 1, data |-> <<"dmx">>] \in Row
      BY <2>2 DEF Captures
    <3>2. \A x, y \in Row : <<x, y>> \in Seq(Row)
      OBVIOUS
    <3>3. <<Hole, [time |-> 1, data |-> <<"dmx">>]>> \in Seq(Row)
      BY <3>1, <3>2, HoleType
    <3>4. QED
      BY <2>2, <2>3, <2>4, <3>3 DEF Init
  <2>6. table \in Seq(Row) /\ signals \in Seq({"Started", "Finished"})
    BY <2>4 DEF Init
  <2>7. jobs \in [JobId -> Job \cup {None}]
    BY DEF Init
  <2>8. captured \in 0..MaxPackets /\ started \in 0..MaxJobs
    BY DEF Init
  <2>9. QED
    BY <2>5, <2>6, <2>7, <2>8 DEF Init, Types
<1>2. FreeSlots
  BY DEF Init, FreeSlots
<1>3. CursorInv
  <2>1. Active = {}
    BY DEF Init, Active, None, Kinds
  <2>2. Cardinality(Active) = 0
    BY <2>1, FS_EmptySet
  <2>3. Len(signals) = 0 /\ cursor = 0
    BY DEF Init
  <2>4. Foresees([i \in 0..0 |-> 0])
    BY <2>2, <2>3 DEF Foresees
  <2>5. QED
    BY <2>4 DEF CursorInv
<1>4. QED
  BY <1>1, <1>2, <1>3 DEF TypeInv

\* A signal delivered moves the cursor as foreseen.
LEMMA CursorDelivered ==
  ASSUME Types, CursorInv, signals # <<>>, signals' = Tail(signals), UNCHANGED jobs,
         cursor' = IF Head(signals) = "Started" THEN cursor + 1 ELSE cursor - 1
  PROVE  CursorInv'
<1>1. PICK wait : Foresees(wait)
  BY DEF CursorInv
<1> DEFINE later == [i \in 0..Len(signals') |-> wait[i + 1]]
<1>2. /\ Len(signals) \in Nat \ {0} /\ Len(signals') = Len(signals) - 1
      /\ \A i \in 1..Len(signals') : signals'[i] = signals[i + 1]
      /\ Head(signals) = signals[1]
  BY DEF Types
<1>3. later \in [0..Len(signals') -> Nat]
  BY <1>1, <1>2 DEF Foresees
<1>4. later[0] = cursor'
  <2>1. wait[1] = IF signals[1] = "Started" THEN wait[1 - 1] + 1 ELSE wait[1 - 1] - 1
    BY <1>1, <1>2 DEF Foresees
  <2>2. wait[0] = cursor
    BY <1>1 DEF Foresees
  <2>3. later[0] = wait[1]
    BY <1>2
  <2>4. QED
    BY <1>2, <2>1, <2>2, <2>3
<1>5. ASSUME NEW i \in 1..Len(signals')
      PROVE  later[i] = IF signals'[i] = "Started" THEN later[i - 1] + 1 ELSE later[i - 1] - 1
  <2>1. i + 1 \in 1..Len(signals) /\ i \in 0..Len(signals') /\ i - 1 \in 0..Len(signals')
    BY <1>2
  <2>2. later[i] = wait[i + 1] /\ later[i - 1] = wait[i - 1 + 1] /\ i - 1 + 1 = i
    BY <2>1
  <2>3. wait[i + 1] = IF signals[i + 1] = "Started" THEN wait[i + 1 - 1] + 1
                                                    ELSE wait[i + 1 - 1] - 1
    BY <1>1, <2>1 DEF Foresees
  <2>4. i + 1 - 1 = i /\ signals'[i] = signals[i + 1]
    BY <1>2
  <2>5. QED
    BY <2>2, <2>3, <2>4
<1>6. Active' = Active
  BY DEF Active
<1>7. later[Len(signals')] = Cardinality(Active')
  BY <1>1, <1>2, <1>6 DEF Foresees
<1> HIDE DEF later
<1>8. PICK w : w = later
  OBVIOUS
<1>9. Foresees(w)'
  BY <1>3, <1>4, <1>5, <1>7, <1>8 DEF Foresees
<1>10. QED
  BY <1>9 DEF CursorInv

\* A signal sent is foreseen if the jobs active follow it.
LEMMA CursorSent ==
  ASSUME Types, CursorInv, NEW s \in {"Started", "Finished"}, signals' = Append(signals, s),
         UNCHANGED cursor, NEW j \in JobId,
         IF s = "Started" THEN j \notin Active /\ Active' = Active \cup {j}
                          ELSE j \in Active /\ Active' = Active \ {j}
  PROVE  CursorInv'
<1> USE ConstantsAssumption
<1>1. PICK wait : Foresees(wait)
  BY DEF CursorInv
<1> DEFINE L == Len(signals)
           total == Cardinality(Active')
           more == [i \in 0..(L + 1) |-> IF i = L + 1 THEN total ELSE wait[i]]
<1>2. /\ L \in Nat /\ Len(signals') = L + 1 /\ signals'[L + 1] = s
      /\ \A i \in 1..L : signals'[i] = signals[i]
  BY DEF Types
<1>3. IsFiniteSet(Active)
  <2>1. IsFiniteSet(JobId) /\ Active \in SUBSET JobId
    BY FS_Interval DEF JobId, Active
  <2>2. QED
    BY <2>1, FS_Subset
<1>4. /\ total \in Nat
      /\ total = IF s = "Started" THEN Cardinality(Active) + 1 ELSE Cardinality(Active) - 1
  <2>1. CASE s = "Started"
    BY <1>3, <2>1, FS_AddElement, FS_CardinalityType
  <2>2. CASE s # "Started"
    BY <1>3, <2>2, FS_RemoveElement, FS_CardinalityType
  <2>3. QED
    BY <2>1, <2>2
<1>5. more \in [0..Len(signals') -> Nat]
  BY <1>1, <1>2, <1>4 DEF Foresees
<1>6. more[0] = cursor'
  BY <1>1, <1>2 DEF Foresees
<1>7. ASSUME NEW i \in 1..Len(signals')
      PROVE  more[i] = IF signals'[i] = "Started" THEN more[i - 1] + 1 ELSE more[i - 1] - 1
  <2>1. CASE i = L + 1
    <3>1. more[i] = total /\ more[i - 1] = wait[L]
      BY <1>2, <2>1
    <3>2. wait[L] = Cardinality(Active)
      BY <1>1 DEF Foresees
    <3>3. QED
      BY <1>2, <1>4, <2>1, <3>1, <3>2
  <2>2. CASE i # L + 1
    <3>1. i \in 1..L
      BY <1>2, <2>2
    <3>2. more[i] = wait[i] /\ more[i - 1] = wait[i - 1]
      BY <1>2, <3>1
    <3>3. QED
      BY <1>1, <1>2, <3>1, <3>2 DEF Foresees
  <2>3. QED
    BY <2>1, <2>2
<1>8. more[Len(signals')] = Cardinality(Active')
  BY <1>2
<1> HIDE DEF more, total, L
<1>9. PICK w : w = more
  OBVIOUS
<1>10. Foresees(w)'
  BY <1>5, <1>6, <1>7, <1>8, <1>9 DEF Foresees, total
<1>11. QED
  BY <1>10 DEF CursorInv

\* With no signal sent or delivered and the same jobs active, nothing is disturbed.
LEMMA CursorSame ==
  ASSUME CursorInv, UNCHANGED <<signals, cursor>>, Active' = Active
  PROVE  CursorInv'
  BY DEF CursorInv, Foresees

\* What a handler that marks the jobs keeps.
LEMMA MarkKeeps ==
  ASSUME TypeInv, Marked(jobs'), UNCHANGED <<signals, cursor, started>>
  PROVE  jobs' \in [JobId -> Job \cup {None}] /\ FreeSlots' /\ CursorInv'
<1>t. jobs \in [JobId -> Job \cup {None}]
  BY DEF TypeInv, Types
<1>1. /\ jobs' \in [JobId -> Job \cup {None}]
      /\ \A j \in JobId : jobs[j].kind \notin Kinds => jobs'[j] = jobs[j]
  BY DEF Marked
<1>2. \A j \in JobId : jobs'[j].kind = jobs[j].kind /\ jobs'[j].state = jobs[j].state
  BY <1>t, MarkedFields
<1>3. FreeSlots'
  BY <1>1 DEF TypeInv, FreeSlots, None, Kinds
<1>4. Active' = Active
  BY <1>2 DEF Active
<1>5. QED
  BY <1>1, <1>3, <1>4, CursorSame DEF TypeInv

\* What starting a job keeps: it takes a free slot, and is not active yet.
LEMMA StartKeeps ==
  ASSUME TypeInv, NEW js, Marked(js), NEW kind \in Kinds, NEW open \in BOOLEAN,
         NEW clear \in BOOLEAN, StartJob(js, kind, open, clear),
         table' \in Seq(Row), UNCHANGED <<signals, cursor>>
  PROVE  /\ jobs' \in [JobId -> Job \cup {None}]
         /\ started' \in JobId
         /\ started' = started + 1
         /\ jobs[started'] = None
         /\ jobs'[started'] = [kind |-> kind, state |-> "queued", open |-> open,
                               lines |-> <<>>, at |-> 0, skips |-> FALSE,
                               rows |-> Len(table'), shrunk |-> FALSE, clear |-> clear]
         /\ \A j \in JobId \ {started'} : jobs'[j] = js[j]
         /\ FreeSlots' /\ CursorInv'
<1> USE ConstantsAssumption
<1> DEFINE job == [kind |-> kind, state |-> "queued", open |-> open, lines |-> <<>>,
                   at |-> 0, skips |-> FALSE, rows |-> Len(table'), shrunk |-> FALSE,
                   clear |-> clear]
<1>t. jobs \in [JobId -> Job \cup {None}]
  BY DEF TypeInv, Types
<1>1. js \in [JobId -> Job \cup {None}]
  BY DEF Marked
<1>2. job \in Job
  <2>1. <<>> \in Seq(Row) /\ Len(table') \in Nat
    OBVIOUS
  <2>2. QED
    BY <2>1 DEF Job
<1>3. started' \in JobId /\ started' = started + 1 /\ jobs' = [js EXCEPT ![started'] = job]
  BY DEF StartJob, TypeInv, Types, JobId
<1> HIDE DEF job
<1>4. /\ jobs' \in [JobId -> Job \cup {None}] /\ jobs'[started'] = job
      /\ \A j \in JobId \ {started'} : jobs'[j] = js[j]
  BY <1>1, <1>2, <1>3
<1>5. jobs[started'] = None
  BY <1>3 DEF TypeInv, Types, FreeSlots, JobId
<1>6. FreeSlots'
  <2> SUFFICES ASSUME NEW j \in JobId, j > started' PROVE jobs'[j] = None
    BY DEF FreeSlots
  <2>1. j # started' /\ j > started
    BY <1>3 DEF JobId, TypeInv, Types
  <2>2. jobs[j] = None
    BY <2>1 DEF TypeInv, FreeSlots
  <2>3. jobs'[j] = js[j]
    BY <1>4, <2>1
  <2>4. js[j] = jobs[j]
    BY <2>2 DEF None, Kinds, Marked
  <2>5. QED
    BY <2>2, <2>3, <2>4
<1>7. \A j \in JobId \ {started'} :
        jobs'[j].kind = jobs[j].kind /\ jobs'[j].state = jobs[j].state
  BY <1>t, <1>4, MarkedFields
<1>8. jobs'[started'].state = "queued" /\ jobs[started'].kind \notin Kinds
  BY <1>4, <1>5 DEF job, None, Kinds
<1>9. Active' = Active
  BY <1>7, <1>8 DEF Active
<1>10. CursorInv'
  BY <1>9, CursorSame DEF TypeInv
<1>11. QED
  BY <1>3, <1>4, <1>5, <1>6, <1>10 DEF job

\* What a step of a job keeps, the job going on or ending.
LEMMA JobKeeps ==
  ASSUME TypeInv, NEW j \in JobId, jobs[j].kind \in Kinds, NEW b \in Job \cup {None},
         jobs' = [jobs EXCEPT ![j] = b], UNCHANGED started
  PROVE  /\ jobs' \in [JobId -> Job \cup {None}]
         /\ FreeSlots'
         /\ Active' \ {j} = Active \ {j}
         /\ j \in Active' <=> b \in Job /\ b.state # "queued"
         /\ j \in Active <=> jobs[j].state # "queued"
<1>1. jobs \in [JobId -> Job \cup {None}]
  BY DEF TypeInv, Types
<1>2. /\ jobs' \in [JobId -> Job \cup {None}] /\ jobs'[j] = b
      /\ \A k \in JobId \ {j} : jobs'[k] = jobs[k]
  BY <1>1, JobChanged
<1>3. ~(j > started)
  <2>1. None.kind \notin Kinds
    BY DEF None, Kinds
  <2>2. QED
    BY <2>1 DEF TypeInv, FreeSlots
<1>4. FreeSlots'
  BY <1>2, <1>3 DEF TypeInv, FreeSlots
<1>5. b.kind \in Kinds <=> b \in Job
  BY DEF Job, None, Kinds
<1>6. QED
  BY <1>2, <1>4, <1>5 DEF Active

\* The job j going on in state s, with lines l and the position a in its file.
Moved(j, s, l, a, p) == [jobs[j] EXCEPT !.state = s, !.lines = l, !.at = a, !.skips = p]

\* A running job that goes on is a job.
LEMMA MovedJob ==
  ASSUME jobs \in [JobId -> Job \cup {None}], NEW j \in JobId, jobs[j].kind \in Kinds,
         NEW s \in {"queued", "checking", "reading", "loading"}, NEW l \in Seq(Row),
         NEW a \in Nat, NEW p \in BOOLEAN
  PROVE  LET b == Moved(j, s, l, a, p) IN
         /\ b \in Job
         /\ b.state = s /\ b.lines = l /\ b.at = a /\ b.skips = p
         /\ b.kind = jobs[j].kind /\ b.open = jobs[j].open
         /\ b.rows = jobs[j].rows /\ b.shrunk = jobs[j].shrunk
         /\ b.clear = jobs[j].clear
<1>1. jobs[j] \in Job
  BY JobAt
<1>2. QED
  BY <1>1 DEF Job, Moved

\* An update of one field, as the job replaced.
LEMMA JobUpdates ==
  ASSUME jobs \in [JobId -> Job \cup {None}], NEW j \in JobId, jobs[j].kind \in Kinds,
         NEW s, NEW l
  PROVE  LET job == jobs[j] IN
         /\ [jobs EXCEPT ![j].state = s] =
               [jobs EXCEPT ![j] = Moved(j, s, job.lines, job.at, job.skips)]
         /\ [jobs EXCEPT ![j].lines = l] =
               [jobs EXCEPT ![j] = Moved(j, job.state, l, job.at, job.skips)]
<1>1. jobs[j] \in Job
  BY JobAt
<1>2. QED
  BY <1>1 DEF Job, Moved

\* What is read of a file is rows, and of one without holes the rows it has.
LEMMA AsReadType ==
  ASSUME NEW s \in Seq(Row)
  PROVE  /\ AsRead(s) \in Seq(Row)
         /\ (\A i \in 1..Len(s) : s[i] # Hole) => AsRead(s) = s
<1> DEFINE Line(i) == IF i > 1 /\ s[i - 1] = Hole THEN [s[i] EXCEPT !.time = 0] ELSE s[i]
<1>1. Len(s) \in Nat /\ \A i \in 1..Len(s) : s[i] \in Row
  OBVIOUS
<1>2. \A i \in 1..Len(s) : Line(i) \in Row
  BY <1>1 DEF Row
<1>3. AsRead(s) = [i \in 1..Len(s) |-> Line(i)]
  BY DEF AsRead
<1>4. ASSUME \A i \in 1..Len(s) : s[i] # Hole PROVE AsRead(s) = s
  <2>1. \A i \in 1..Len(s) : Line(i) = s[i]
    <3> SUFFICES ASSUME NEW i \in 1..Len(s), i > 1 PROVE s[i - 1] # Hole
      OBVIOUS
    <3>1. i - 1 \in 1..Len(s)
      BY <1>1
    <3>2. QED
      BY <1>4, <3>1
  <2>2. s = [i \in 1..Len(s) |-> s[i]]
    BY <1>1
  <2> HIDE DEF Line
  <2>3. QED
    BY <1>3, <2>1, <2>2
<1> HIDE DEF Line
<1>5. AsRead(s) \in Seq(Row)
  BY <1>1, <1>2, <1>3, IsASeq
<1>6. QED
  BY <1>4, <1>5

\* A job whose step it is.
LEMMA JobSteps ==
  ASSUME TypeInv, NEW j \in JobId, NEW kind \in Kinds, NEW state, JobStep(j, kind, state)
  PROVE  /\ jobs[j] \in Job /\ jobs[j].kind = kind /\ jobs[j].state = state
         /\ jobs[j].lines \in Seq(Row) /\ jobs[j].at \in Nat /\ jobs[j].skips \in BOOLEAN
         /\ RowsRead(j) \in Nat
         /\ ~crashed /\ UNCHANGED <<dissector, discarding, cursor, captured, started>>
<1>1. /\ jobs[j] \in Job /\ jobs[j].kind = kind /\ jobs[j].state = state
      /\ ~crashed /\ UNCHANGED <<dissector, discarding, cursor, captured, started>>
  BY JobAt DEF JobStep, TypeInv, Types
<1>2. jobs[j].lines \in Seq(Row) /\ jobs[j].at \in Nat /\ jobs[j].skips \in BOOLEAN
  BY <1>1 DEF Job
<1>3. QED
  BY <1>1, <1>2 DEF RowsRead

\* A row read stays in the buffer, or all that is there is written.
LEMMA RowRead ==
  ASSUME TypeInv, NEW j \in JobId, ReadRow(j)
  PROVE  \E l \in Seq(Row), a \in Nat, rows \in Seq(Row) :
           /\ jobs' = [jobs EXCEPT ![j] = Moved(j, "checking", l, a, jobs[j].skips)]
           /\ rows = Append(jobs[j].lines, table[RowsRead(j) + 1])
           /\ RowsRead(j) + 1 <= Len(table)
           /\ a + Len(l) = RowsRead(j) + 1
           /\ \/ l = rows /\ a = jobs[j].at /\ UNCHANGED file
              \/ l = <<>> /\ Flush(j, rows)
<1> DEFINE n == RowsRead(j) + 1
           all == Append(jobs[j].lines, table[n])
<1>1. JobStep(j, "save", "reading") /\ n <= Len(table)
  BY DEF ReadRow
<1>2. /\ jobs[j] \in Job /\ jobs[j].kind \in Kinds /\ jobs[j].lines \in Seq(Row)
      /\ jobs[j].at \in Nat /\ RowsRead(j) \in Nat
  BY <1>1, JobSteps DEF Kinds
<1>3. /\ jobs \in [JobId -> Job \cup {None}] /\ table \in Seq(Row)
  BY DEF TypeInv, Types
<1>4. n \in Nat /\ table[n] \in Row
  <2>1. n \in 1..Len(table)
    BY <1>1, <1>2, <1>3
  <2>2. QED
    BY <1>3, <2>1
<1>5. /\ all \in Seq(Row) /\ Len(all) = Len(jobs[j].lines) + 1
      /\ jobs[j].at + Len(all) = n
  <2>1. all \in Seq(Row) /\ Len(all) = Len(jobs[j].lines) + 1
    BY <1>2, <1>4
  <2>2. QED
    BY <1>2, <2>1 DEF RowsRead
<1>6. \/ jobs' = [jobs EXCEPT ![j].state = "checking", ![j].lines = all] /\ UNCHANGED file
      \/ /\ jobs' = [jobs EXCEPT ![j].state = "checking", ![j].lines = <<>>, ![j].at = n]
         /\ Flush(j, all)
  BY DEF ReadRow
<1>7. n = RowsRead(j) + 1 /\ all = Append(jobs[j].lines, table[RowsRead(j) + 1])
  OBVIOUS
<1> HIDE DEF n, all
<1>8. CASE jobs' = [jobs EXCEPT ![j].state = "checking", ![j].lines = all] /\ UNCHANGED file
  <2>1. [jobs EXCEPT ![j].state = "checking", ![j].lines = all]
          = [jobs EXCEPT ![j] = Moved(j, "checking", all, jobs[j].at, jobs[j].skips)]
    BY <1>2 DEF Job, Moved
  <2>2. jobs' = [jobs EXCEPT ![j] = Moved(j, "checking", all, jobs[j].at, jobs[j].skips)]
    BY <1>8, <2>1
  <2>3. QED
    BY <1>1, <1>2, <1>5, <1>7, <1>8, <2>2
<1>9. CASE /\ jobs' = [jobs EXCEPT ![j].state = "checking", ![j].lines = <<>>, ![j].at = n]
           /\ Flush(j, all)
  <2> <<>> \in Seq(Row)
    OBVIOUS
  <2>1. PICK l \in Seq(Row) : l = <<>>
    OBVIOUS
  <2>2. jobs' = [jobs EXCEPT ![j].state = "checking", ![j].lines = l, ![j].at = n]
    BY <1>9, <2>1
  <2>3. jobs' = [jobs EXCEPT ![j] = Moved(j, "checking", l, n, jobs[j].skips)]
    <3>1. [jobs EXCEPT ![j].state = "checking", ![j].lines = l, ![j].at = n]
            = [jobs EXCEPT ![j] = Moved(j, "checking", l, n, jobs[j].skips)]
      BY <1>2 DEF Job, Moved
    <3>2. QED
      BY <2>2, <3>1
  <2>4. n + Len(l) = n
    BY <1>4, <2>1
  <2>5. QED
    BY <1>1, <1>4, <1>5, <1>7, <1>9, <2>1, <2>3, <2>4
<1>10. QED
  BY <1>6, <1>8, <1>9

\* The other steps in which a job goes on.
LEMMA JobGoesOn ==
  ASSUME TypeInv, NEW j \in JobId
  PROVE  LET job == jobs[j] IN
         /\ StartSave(j) =>
              jobs' = [jobs EXCEPT ![j] = Moved(j, "checking", job.lines, job.at, job.skips)]
         /\ CheckRow(j) =>
              jobs' = [jobs EXCEPT ![j] = Moved(j, "reading", job.lines, job.at, job.skips)]
         /\ StartLoad(j) =>
              \E l \in Seq(Row), p \in BOOLEAN :
                /\ l = IF job.open THEN AsRead(file) ELSE <<>>
                /\ jobs' = [jobs EXCEPT ![j] = Moved(j, "loading", l, job.at, p)]
         /\ LoadRow(j) =>
              /\ Head(job.lines) \in Row /\ Tail(job.lines) \in Seq(Row)
              /\ jobs' = [jobs EXCEPT
                            ![j] = Moved(j, "loading", Tail(job.lines), job.at, job.skips)]
<1>t. jobs \in [JobId -> Job \cup {None}] /\ file \in Seq(Row)
  BY DEF TypeInv, Types
<1>k. "save" \in Kinds /\ "load" \in Kinds
  BY DEF Kinds
<1>1. ASSUME StartSave(j)
      PROVE  jobs' = [jobs EXCEPT ![j] = Moved(j, "checking", jobs[j].lines, jobs[j].at, jobs[j].skips)]
  <2>1. JobStep(j, "save", "queued") /\ jobs' = [jobs EXCEPT ![j].state = "checking"]
    BY <1>1 DEF StartSave
  <2>2. jobs[j].kind \in Kinds
    BY <1>k, <2>1, JobSteps
  <2>3. QED
    BY <1>t, <2>1, <2>2, JobUpdates
<1>2. ASSUME CheckRow(j)
      PROVE  jobs' = [jobs EXCEPT ![j] = Moved(j, "reading", jobs[j].lines, jobs[j].at, jobs[j].skips)]
  <2>1. JobStep(j, "save", "checking") /\ jobs' = [jobs EXCEPT ![j].state = "reading"]
    BY <1>2 DEF CheckRow
  <2>2. jobs[j].kind \in Kinds
    BY <1>k, <2>1, JobSteps
  <2>3. QED
    BY <1>t, <2>1, <2>2, JobUpdates
<1>3. ASSUME StartLoad(j)
      PROVE  \E l \in Seq(Row), p \in BOOLEAN :
               /\ l = IF jobs[j].open THEN AsRead(file) ELSE <<>>
               /\ jobs' = [jobs EXCEPT ![j] = Moved(j, "loading", l, jobs[j].at, p)]
  <2> DEFINE read == IF jobs[j].open THEN AsRead(file) ELSE <<>>
             text == format = "text"
  <2>1. /\ JobStep(j, "load", "queued")
        /\ jobs' = [jobs EXCEPT ![j].state = "loading", ![j].lines = read, ![j].skips = text]
    BY <1>3 DEF StartLoad
  <2>2. read \in Seq(Row) /\ text \in BOOLEAN
    <3>1. AsRead(file) \in Seq(Row) /\ <<>> \in Seq(Row)
      BY <1>t, AsReadType
    <3>2. QED
      BY <3>1
  <2>3. jobs[j].kind \in Kinds
    BY <1>k, <2>1, JobSteps
  <2>4. read = IF jobs[j].open THEN AsRead(file) ELSE <<>>
    OBVIOUS
  <2> HIDE DEF read, text
  <2>5. jobs' = [jobs EXCEPT ![j] = Moved(j, "loading", read, jobs[j].at, text)]
    <3>1. jobs[j] \in Job
      BY <2>1, JobSteps, <1>k
    <3>2. [jobs EXCEPT ![j].state = "loading", ![j].lines = read, ![j].skips = text]
            = [jobs EXCEPT ![j] = Moved(j, "loading", read, jobs[j].at, text)]
      BY <3>1 DEF Job, Moved
    <3>3. QED
      BY <2>1, <3>2
  <2>6. QED
    BY <2>2, <2>4, <2>5
<1>4. ASSUME LoadRow(j)
      PROVE  /\ Head(jobs[j].lines) \in Row /\ Tail(jobs[j].lines) \in Seq(Row)
             /\ jobs' = [jobs EXCEPT
                           ![j] = Moved(j, "loading", Tail(jobs[j].lines), jobs[j].at, jobs[j].skips)]
  <2> DEFINE rest == Tail(jobs[j].lines)
  <2>1. /\ JobStep(j, "load", "loading") /\ jobs[j].lines # <<>>
        /\ jobs' = [jobs EXCEPT ![j].lines = rest]
    BY <1>4 DEF LoadRow
  <2>2. jobs[j].kind \in Kinds /\ jobs[j].state = "loading" /\ jobs[j].lines \in Seq(Row)
    BY <1>k, <2>1, JobSteps
  <2>3. Head(jobs[j].lines) \in Row /\ rest \in Seq(Row)
    BY <2>1, <2>2
  <2> HIDE DEF rest
  <2>4. jobs' = [jobs EXCEPT ![j] = Moved(j, jobs[j].state, rest, jobs[j].at, jobs[j].skips)]
    BY <1>t, <2>1, <2>2, JobUpdates
  <2>5. QED
    BY <2>2, <2>3, <2>4 DEF rest
<1>5. QED
  BY <1>1, <1>2, <1>3, <1>4

\* What is written in the file are rows.
LEMMA FlushType ==
  ASSUME TypeInv, NEW j \in JobId, jobs[j] \in Job, NEW rows \in Seq(Row), Flush(j, rows)
  PROVE  file' \in Seq(Row)
<1>1. file \in Seq(Row) /\ jobs[j].at \in Nat
  BY DEF TypeInv, Types, Job
<1>2. Written(jobs[j].at, rows) \in Seq(Row)
  BY <1>1, WrittenAt
<1>3. QED
  BY <1>1, <1>2 DEF Flush

\* Every step keeps the types.
LEMMA TypeStep == TypeInv /\ [Next]_vars => TypeInv'
<1> USE ConstantsAssumption
<1> SUFFICES ASSUME TypeInv, [Next]_vars PROVE TypeInv'
  OBVIOUS
<1>t. Types /\ FreeSlots /\ CursorInv /\ jobs \in [JobId -> Job \cup {None}]
  BY DEF TypeInv, Types
<1>k. /\ {"load"} \in SUBSET Kinds /\ Kinds \in SUBSET Kinds
      /\ "save" \in Kinds /\ "load" \in Kinds
  BY DEF Kinds
<1>e. <<>> \in Seq(Row)
  OBVIOUS
<1>1. ASSUME NEW d \in Captures, Capture(d) PROVE TypeInv'
  <2>1. [time |-> captured + 1, data |-> d] \in Row
    BY <1>1, <1>t, CapturesType DEF Row, Types
  <2>2. table' \in Seq(Row)
    BY <1>1, <1>t, <2>1, AppendType DEF Capture, Types
  <2>3. Marked(jobs')
    BY <1>1, <1>t, <1>k, Disturbed DEF Capture
  <2>4. jobs' \in [JobId -> Job \cup {None}] /\ FreeSlots' /\ CursorInv'
    BY <1>1, <2>3, MarkKeeps DEF Capture
  <2>5. captured' \in 0..MaxPackets
    BY <1>1, <1>t DEF Capture, Types
  <2>6. QED
    BY <1>1, <1>t, <2>2, <2>4, <2>5 DEF Capture, TypeInv, Types
<1>2. CASE ClearTable
  <2>1. Marked(jobs')
    BY <1>2, <1>t, Shrunk DEF ClearTable
  <2>2. jobs' \in [JobId -> Job \cup {None}] /\ FreeSlots' /\ CursorInv'
    BY <1>2, <2>1, MarkKeeps DEF ClearTable
  <2>3. QED
    BY <1>2, <1>t, <1>e, <2>2 DEF ClearTable, TypeInv, Types
<1>3. CASE DiscardDmx
  <2>1. FreeSlots' /\ CursorInv'
    BY <1>3, <1>t, CursorSame DEF DiscardDmx, FreeSlots, Active
  <2>2. QED
    BY <1>3, <1>t, <2>1 DEF DiscardDmx, TypeInv, Types
<1>4. CASE ToggleDissector
  <2>1. FreeSlots' /\ CursorInv'
    BY <1>4, <1>t, CursorSame DEF ToggleDissector, FreeSlots, Active
  <2>2. QED
    BY <1>4, <1>t, <2>1 DEF ToggleDissector, TypeInv, Types
<1>5. ASSUME NEW open \in BOOLEAN, PressSave(open) PROVE TypeInv'
  <2> DEFINE clear == \A j \in Running({"save"}) : ~jobs[j].shrunk
             kinds == IF open THEN Kinds ELSE {"load"}
             js == Disturb(jobs, kinds)
  <2>1. clear \in BOOLEAN /\ kinds \in SUBSET Kinds
    BY <1>k
  <2>2. table' \in Seq(Row)
    BY <1>5, <1>t DEF PressSave, Types
  <2>3. StartJob(js, "save", open, clear) /\ UNCHANGED <<signals, cursor>>
    BY <1>5 DEF PressSave
  <2> HIDE DEF clear, kinds
  <2>4. Marked(js)
    BY <1>t, <2>1, Disturbed
  <2> HIDE DEF js
  <2>5. /\ jobs' \in [JobId -> Job \cup {None}] /\ started' \in JobId
        /\ FreeSlots' /\ CursorInv'
    BY <1>5, <1>k, <2>1, <2>2, <2>3, <2>4, StartKeeps
  <2>6. file' \in Seq(Row) /\ format' \in {"text", "compressed"}
    BY <1>5, <1>t, <1>e DEF PressSave, Types
  <2>7. QED
    BY <1>5, <1>t, <2>2, <2>5, <2>6 DEF PressSave, TypeInv, Types, JobId
<1>6. ASSUME NEW open \in BOOLEAN, PressOpen(open) PROVE TypeInv'
  <2> DEFINE clear == Running(Kinds) = {}
             js == Shrink(jobs)
  <2>1. clear \in BOOLEAN
    OBVIOUS
  <2>2. table' \in Seq(Row)
    BY <1>6, <1>e DEF PressOpen
  <2>3. StartJob(js, "load", open, clear) /\ UNCHANGED <<signals, cursor>>
    BY <1>6 DEF PressOpen
  <2>4. Marked(js)
    BY <1>t, Shrunk
  <2> HIDE DEF clear, js
  <2>5. /\ jobs' \in [JobId -> Job \cup {None}] /\ started' \in JobId
        /\ FreeSlots' /\ CursorInv'
    BY <1>6, <1>k, <2>1, <2>2, <2>3, <2>4, StartKeeps
  <2>6. QED
    BY <1>6, <1>t, <2>2, <2>5 DEF PressOpen, TypeInv, Types, JobId
<1>7. CASE DiscardRow
  <2>1. table' \in Seq(Row)
    BY <1>7, <1>t, RemoveType DEF DiscardRow, Types
  <2>2. Marked(jobs')
    BY <1>7, <1>t, Shrunk DEF DiscardRow
  <2>3. jobs' \in [JobId -> Job \cup {None}] /\ FreeSlots' /\ CursorInv'
    BY <1>7, <2>2, MarkKeeps DEF DiscardRow, DiscardStep
  <2>4. QED
    BY <1>7, <1>t, <2>1, <2>3 DEF DiscardRow, DiscardStep, TypeInv, Types
<1>8. CASE EndDiscard
  <2>1. FreeSlots' /\ CursorInv'
    BY <1>8, <1>t, CursorSame DEF EndDiscard, DiscardStep, FreeSlots, Active
  <2>2. QED
    BY <1>8, <1>t, <2>1 DEF EndDiscard, DiscardStep, TypeInv, Types
<1>9. CASE DeliverSignal
  <2>1. CursorInv'
    BY <1>9, <1>t, CursorDelivered DEF DeliverSignal
  <2>2. FreeSlots'
    BY <1>9, <1>t DEF DeliverSignal, FreeSlots
  <2>3. signals' \in Seq({"Started", "Finished"})
    BY <1>9, <1>t DEF DeliverSignal, Types
  <2>4. QED
    BY <1>9, <1>t, <2>1, <2>2, <2>3 DEF DeliverSignal, TypeInv, Types
<1>w. ASSUME NEW j \in JobId, Work(j) PROVE TypeInv'
  <2>j. ASSUME NEW kind \in Kinds, NEW state, JobStep(j, kind, state)
        PROVE  /\ jobs[j].kind \in Kinds /\ jobs[j] \in Job /\ jobs[j].state = state
               /\ jobs[j].lines \in Seq(Row) /\ jobs[j].at \in Nat /\ jobs[j].skips \in BOOLEAN
               /\ UNCHANGED <<dissector, discarding, cursor, captured, started>>
    BY <1>w, <2>j, JobSteps
  <2>f. \A s \in {"Started", "Finished"} :
          Append(signals, s) \in Seq({"Started", "Finished"})
    BY <1>t DEF Types
  <2>r. ASSUME NEW b \in Job \cup {None}, jobs[j].kind \in Kinds, UNCHANGED <<started, cursor>>,
               jobs' = [jobs EXCEPT ![j] = b],
               \/ UNCHANGED signals /\ jobs[j].state # "queued" /\ b \in Job /\ b.state # "queued"
               \/ signals' = Append(signals, "Started") /\ jobs[j].state = "queued"
                  /\ b \in Job /\ b.state # "queued"
               \/ signals' = Append(signals, "Finished") /\ jobs[j].state # "queued" /\ b = None
        PROVE  /\ jobs' \in [JobId -> Job \cup {None}] /\ FreeSlots' /\ CursorInv'
               /\ signals' \in Seq({"Started", "Finished"})
    <3>1. /\ jobs' \in [JobId -> Job \cup {None}] /\ FreeSlots'
          /\ Active' \ {j} = Active \ {j}
          /\ j \in Active' <=> b \in Job /\ b.state # "queued"
          /\ j \in Active <=> jobs[j].state # "queued"
      BY <1>w, <2>r, JobKeeps
    <3>2. None \notin Job
      BY DEF None, Job, Kinds
    <3>3. CASE UNCHANGED signals /\ jobs[j].state # "queued" /\ b \in Job /\ b.state # "queued"
      <4>1. Active' = Active
        BY <3>1, <3>3
      <4>2. QED
        BY <1>t, <2>r, <3>1, <3>3, <4>1, CursorSame DEF Types
    <3>4. CASE /\ signals' = Append(signals, "Started") /\ jobs[j].state = "queued"
               /\ b \in Job /\ b.state # "queued"
      <4>1. j \notin Active /\ Active' = Active \cup {j}
        BY <3>1, <3>4
      <4>2. CursorInv'
        BY <1>t, <1>w, <2>r, <3>4, <4>1, CursorSent
      <4>3. QED
        BY <2>f, <3>1, <3>4, <4>2
    <3>5. CASE /\ signals' = Append(signals, "Finished") /\ jobs[j].state # "queued" /\ b = None
      <4>1. j \in Active /\ Active' = Active \ {j}
        BY <3>1, <3>2, <3>5
      <4>2. CursorInv'
        BY <1>t, <1>w, <2>r, <3>5, <4>1, CursorSent
      <4>3. QED
        BY <2>f, <3>1, <3>5, <4>2
    <3>6. QED
      BY <2>r, <3>3, <3>4, <3>5
  <2>m. ASSUME jobs[j].kind \in Kinds, NEW s \in {"checking", "reading", "loading"},
               NEW l \in Seq(Row), NEW a \in Nat, NEW p \in BOOLEAN,
               jobs' = [jobs EXCEPT ![j] = Moved(j, s, l, a, p)], UNCHANGED <<started, cursor>>,
               IF jobs[j].state = "queued" THEN signals' = Append(signals, "Started")
                                           ELSE UNCHANGED signals
        PROVE  /\ jobs' \in [JobId -> Job \cup {None}] /\ FreeSlots' /\ CursorInv'
               /\ signals' \in Seq({"Started", "Finished"})
    <3> DEFINE b == Moved(j, s, l, a, p)
    <3>1. b \in Job /\ b.state # "queued"
      BY <1>t, <1>w, <2>m, MovedJob
    <3> HIDE DEF b
    <3>2. jobs' = [jobs EXCEPT ![j] = b]
      BY <2>m DEF b
    <3>3. QED
      BY <2>m, <2>r, <3>1, <3>2
  <2>s. /\ "checking" \in {"checking", "reading", "loading"}
        /\ "reading" \in {"checking", "reading", "loading"}
        /\ "loading" \in {"checking", "reading", "loading"}
    OBVIOUS
  <2>1. CASE StartSave(j)
    <3>1. JobStep(j, "save", "queued") /\ signals' = Append(signals, "Started")
      BY <2>1 DEF StartSave
    <3>2. jobs' = [jobs EXCEPT ![j] = Moved(j, "checking", jobs[j].lines, jobs[j].at, jobs[j].skips)]
      BY <1>w, <2>1, JobGoesOn
    <3>3. /\ jobs' \in [JobId -> Job \cup {None}] /\ FreeSlots' /\ CursorInv'
          /\ signals' \in Seq({"Started", "Finished"})
      <4>1. jobs[j].kind \in Kinds /\ jobs[j].state = "queued" /\ UNCHANGED <<started, cursor>>
        BY <1>k, <2>j, <3>1
      <4>2. jobs[j].lines \in Seq(Row) /\ jobs[j].at \in Nat /\ jobs[j].skips \in BOOLEAN
        BY <1>k, <2>j, <3>1
      <4>3. QED
        BY <2>m, <2>s, <3>1, <3>2, <4>1, <4>2
    <3>4. QED
      BY <1>t, <1>k, <2>1, <2>j, <3>1, <3>3 DEF StartSave, TypeInv, Types
  <2>2. CASE CheckRow(j)
    <3>1. JobStep(j, "save", "checking") /\ UNCHANGED signals
      BY <2>2 DEF CheckRow
    <3>2. jobs' = [jobs EXCEPT ![j] = Moved(j, "reading", jobs[j].lines, jobs[j].at, jobs[j].skips)]
      BY <1>w, <2>2, JobGoesOn
    <3>3. /\ jobs' \in [JobId -> Job \cup {None}] /\ FreeSlots' /\ CursorInv'
          /\ signals' \in Seq({"Started", "Finished"})
      <4>1. jobs[j].kind \in Kinds /\ jobs[j].state = "checking" /\ UNCHANGED <<started, cursor>>
        BY <1>k, <2>j, <3>1
      <4>2. jobs[j].lines \in Seq(Row) /\ jobs[j].at \in Nat /\ jobs[j].skips \in BOOLEAN
        BY <1>k, <2>j, <3>1
      <4>3. QED
        BY <2>m, <2>s, <3>1, <3>2, <4>1, <4>2
    <3>4. QED
      BY <1>t, <1>k, <2>2, <2>j, <3>1, <3>3 DEF CheckRow, TypeInv, Types
  <2>3. CASE ReadRow(j)
    <3>1. JobStep(j, "save", "reading") /\ UNCHANGED signals
      BY <2>3 DEF ReadRow
    <3>2. PICK l \in Seq(Row), a \in Nat, rows \in Seq(Row) :
            /\ jobs' = [jobs EXCEPT ![j] = Moved(j, "checking", l, a, jobs[j].skips)]
            /\ UNCHANGED file \/ Flush(j, rows)
      BY <1>w, <2>3, RowRead
    <3>3. /\ jobs' \in [JobId -> Job \cup {None}] /\ FreeSlots' /\ CursorInv'
          /\ signals' \in Seq({"Started", "Finished"})
      <4>1. jobs[j].kind \in Kinds /\ jobs[j].state = "reading" /\ UNCHANGED <<started, cursor>>
        BY <1>k, <2>j, <3>1
      <4>2. jobs[j].lines \in Seq(Row) /\ jobs[j].at \in Nat /\ jobs[j].skips \in BOOLEAN
        BY <1>k, <2>j, <3>1
      <4>3. QED
        BY <2>m, <2>s, <3>1, <3>2, <4>1, <4>2
    <3>4. file' \in Seq(Row)
      <4>1. jobs[j] \in Job /\ file \in Seq(Row)
        BY <1>t, <1>k, <2>j, <3>1 DEF Types
      <4>2. QED
        BY <1>w, <3>2, <4>1, FlushType
    <3>5. QED
      BY <1>t, <1>k, <2>3, <2>j, <3>1, <3>3, <3>4 DEF ReadRow, TypeInv, Types
  <2>4. CASE ReadRowGone(j)
    <3>1. JobStep(j, "save", "reading")
      BY <2>4 DEF ReadRowGone
    <3>2. FreeSlots' /\ CursorInv'
      BY <1>t, <1>k, <2>4, <2>j, <3>1, CursorSame DEF ReadRowGone, FreeSlots, Active
    <3>3. QED
      BY <1>t, <1>k, <2>4, <2>j, <3>1, <3>2 DEF ReadRowGone, TypeInv, Types
  <2>5. CASE EndSave(j)
    <3>1. JobStep(j, "save", "checking") /\ Flush(j, jobs[j].lines)
      BY <2>5 DEF EndSave
    <3>2. /\ jobs' \in [JobId -> Job \cup {None}] /\ FreeSlots' /\ CursorInv'
          /\ signals' \in Seq({"Started", "Finished"})
      BY <1>k, <2>5, <2>j, <2>r, <3>1 DEF EndSave
    <3>3. file' \in Seq(Row)
      <4>1. jobs[j] \in Job /\ jobs[j].lines \in Seq(Row)
        BY <1>k, <2>j, <3>1
      <4>2. QED
        BY <1>w, <3>1, <4>1, FlushType
    <3>4. QED
      BY <1>t, <1>k, <2>5, <2>j, <3>1, <3>2, <3>3 DEF EndSave, TypeInv, Types
  <2>6. CASE StartLoad(j)
    <3>1. JobStep(j, "load", "queued") /\ signals' = Append(signals, "Started")
      BY <2>6 DEF StartLoad
    <3>2. PICK l \in Seq(Row), p \in BOOLEAN :
            jobs' = [jobs EXCEPT ![j] = Moved(j, "loading", l, jobs[j].at, p)]
      BY <1>w, <2>6, JobGoesOn
    <3>3. /\ jobs' \in [JobId -> Job \cup {None}] /\ FreeSlots' /\ CursorInv'
          /\ signals' \in Seq({"Started", "Finished"})
      <4>1. jobs[j].kind \in Kinds /\ jobs[j].state = "queued" /\ UNCHANGED <<started, cursor>>
        BY <1>k, <2>j, <3>1
      <4>2. jobs[j].lines \in Seq(Row) /\ jobs[j].at \in Nat /\ jobs[j].skips \in BOOLEAN
        BY <1>k, <2>j, <3>1
      <4>3. QED
        BY <2>m, <2>s, <3>1, <3>2, <4>1, <4>2
    <3>4. QED
      BY <1>t, <1>k, <2>6, <2>j, <3>1, <3>3 DEF StartLoad, TypeInv, Types
  <2>7. CASE LoadRow(j)
    <3> DEFINE l == Tail(jobs[j].lines)
    <3>1. JobStep(j, "load", "loading") /\ UNCHANGED signals
      BY <2>7 DEF LoadRow
    <3>2. /\ Head(jobs[j].lines) \in Row /\ l \in Seq(Row)
          /\ jobs' = [jobs EXCEPT ![j] = Moved(j, "loading", l, jobs[j].at, jobs[j].skips)]
      BY <1>w, <2>7, JobGoesOn
    <3> HIDE DEF l
    <3>3. /\ jobs' \in [JobId -> Job \cup {None}] /\ FreeSlots' /\ CursorInv'
          /\ signals' \in Seq({"Started", "Finished"})
      <4>1. jobs[j].kind \in Kinds /\ jobs[j].state = "loading" /\ UNCHANGED <<started, cursor>>
        BY <1>k, <2>j, <3>1
      <4>2. jobs[j].lines \in Seq(Row) /\ jobs[j].at \in Nat /\ jobs[j].skips \in BOOLEAN
        BY <1>k, <2>j, <3>1
      <4>3. QED
        BY <2>m, <2>s, <3>1, <3>2, <4>1, <4>2
    <3>4. table' \in Seq(Row)
      BY <1>t, <2>7, <3>2, AppendType DEF LoadRow, Types
    <3>5. QED
      BY <1>t, <1>k, <2>7, <2>j, <3>1, <3>3, <3>4 DEF LoadRow, TypeInv, Types
  <2>8. CASE EndLoad(j)
    <3>1. JobStep(j, "load", "loading")
      BY <2>8 DEF EndLoad
    <3>2. /\ jobs' \in [JobId -> Job \cup {None}] /\ FreeSlots' /\ CursorInv'
          /\ signals' \in Seq({"Started", "Finished"})
      BY <1>k, <2>8, <2>j, <2>r, <3>1 DEF EndLoad
    <3>3. QED
      BY <1>t, <1>k, <2>8, <2>j, <3>1, <3>2 DEF EndLoad, TypeInv, Types
  <2>9. QED
    BY <1>w, <2>1, <2>2, <2>3, <2>4, <2>5, <2>6, <2>7, <2>8 DEF Work
<1>u. CASE UNCHANGED vars
  <2>1. FreeSlots' /\ CursorInv'
    BY <1>t, <1>u, CursorSame DEF vars, FreeSlots, Active
  <2>2. QED
    BY <1>t, <1>u, <2>1 DEF vars, TypeInv, Types
<1>q. QED
  BY <1>1, <1>2, <1>3, <1>4, <1>5, <1>6, <1>7, <1>8, <1>9, <1>w, <1>u
     DEF Next, User, Discard

\* Every variable keeps its type; in particular the cursor is never restored more
\* often than it was set, whatever order the signals of overlapping jobs come in
\* (doRead, doSave and the lambdas connected to Started and Finished).
THEOREM TypeCorrect == Spec => []TypeOK
<1>1. Spec => []TypeInv
  BY TypeInit, TypeStep, PTL DEF Spec
<1>2. TypeInv => TypeOK
  <2> SUFFICES ASSUME TypeInv PROVE TypeOK
    OBVIOUS
  <2>1. PICK wait : Foresees(wait)
    BY DEF TypeInv, CursorInv
  <2>2. 0 \in 0..Len(signals)
    BY DEF TypeInv, Types
  <2>3. cursor \in Nat
    BY <2>1, <2>2 DEF Foresees
  <2>4. QED
    BY <2>3 DEF TypeInv, Types, TypeOK
<1>3. QED
  BY <1>1, <1>2, PTL

-----------------------------------------------------------------------------
(* Saves.                                                                  *)

ClearSave(j) == jobs[j].kind = "save" /\ jobs[j].clear

\* The rows a save has in its buffer are those of the table after the rows it has
\* written, and if it has found one more, that is still to come.
Follows(j) ==
  /\ RowsRead(j) <= Len(table)
  /\ \A i \in 1..Len(jobs[j].lines) : jobs[j].lines[i] = table[jobs[j].at + i]
  /\ jobs[j].state = "reading" => RowsRead(j) < Len(table)
  /\ jobs[j].rows <= Len(table)

\* A save while which the table only grew follows it.
GrowthInv == \A j \in JobId : jobs[j].kind = "save" /\ ~jobs[j].shrunk => Follows(j)

OnlyGrown == \A k \in JobId : jobs[k].kind = "save" => ~jobs[k].shrunk

\* What the file holds up to where a save writes are the first rows of the table, and
\* it holds no more rows than the table.  After that it may have holes.
FileFollows(j) ==
  /\ jobs[j].at <= Len(file)
  /\ Len(file) <= Len(table)
  /\ \A i \in 1..jobs[j].at : file[i] = table[i]

SavesFollow ==
  \A j \in JobId : ClearSave(j) => OnlyGrown /\ (jobs[j].open => FileFollows(j))

SaveInv == GrowthInv /\ SavesFollow /\ CrashNeedsShrunkTable

\* At first there is no save.
LEMMA SaveInit == Init => SaveInv
  BY DEF Init, SaveInv, GrowthInv, SavesFollow, ClearSave, CrashNeedsShrunkTable, None

\* The fields of a save.
LEMMA SaveFields ==
  ASSUME TypeInv, NEW j \in JobId, jobs[j].kind = "save"
  PROVE  /\ jobs[j] \in Job /\ jobs[j].lines \in Seq(Row) /\ jobs[j].at \in Nat
         /\ jobs[j].rows \in Nat /\ jobs[j].open \in BOOLEAN /\ jobs[j].shrunk \in BOOLEAN
         /\ jobs[j].clear \in BOOLEAN /\ RowsRead(j) \in Nat
         /\ RowsRead(j) = jobs[j].at + Len(jobs[j].lines)
<1>1. jobs[j] \in Job
  BY JobAt DEF TypeInv, Types, Kinds
<1>2. /\ jobs[j].lines \in Seq(Row) /\ jobs[j].at \in Nat
      /\ jobs[j].rows \in Nat /\ jobs[j].open \in BOOLEAN /\ jobs[j].shrunk \in BOOLEAN
      /\ jobs[j].clear \in BOOLEAN
  BY <1>1 DEF Job
<1>3. QED
  BY <1>1, <1>2 DEF RowsRead

\* The same save, but for its history.
Same(j) ==
  /\ jobs[j].kind = "save"
  /\ jobs'[j].state = jobs[j].state
  /\ jobs'[j].open = jobs[j].open
  /\ jobs'[j].lines = jobs[j].lines
  /\ jobs'[j].at = jobs[j].at
  /\ jobs'[j].rows = jobs[j].rows

\* Rows that come to the table leave every save's place in it.
LEMMA StillFollows ==
  ASSUME TypeInv, NEW j \in JobId, Follows(j), Same(j), table' \in Seq(Row),
         Len(table') >= Len(table), \A i \in 1..Len(table) : table'[i] = table[i]
  PROVE  Follows(j)'
<1>1. /\ jobs[j].lines \in Seq(Row) /\ jobs[j].at \in Nat /\ jobs[j].rows \in Nat
      /\ RowsRead(j) \in Nat /\ RowsRead(j) = jobs[j].at + Len(jobs[j].lines)
  BY SaveFields DEF Same
<1>2. table \in Seq(Row) /\ Len(table) \in Nat /\ Len(table') \in Nat
  BY DEF TypeInv, Types
<1>3. RowsRead(j)' = RowsRead(j) /\ RowsRead(j) <= Len(table)
  BY DEF RowsRead, Same, Follows
<1>4. \A i \in 1..Len(jobs[j].lines) : jobs[j].lines[i] = table'[jobs[j].at + i]
  <2> SUFFICES ASSUME NEW i \in 1..Len(jobs[j].lines)
               PROVE  jobs[j].lines[i] = table'[jobs[j].at + i]
    OBVIOUS
  <2>1. jobs[j].at + i \in 1..Len(table)
    <3>1. Len(jobs[j].lines) \in Nat
      BY <1>1
    <3>2. QED
      BY <1>1, <1>2, <1>3, <3>1
  <2>2. QED
    BY <2>1 DEF Follows
<1>5. /\ RowsRead(j)' <= Len(table') /\ jobs[j].rows <= Len(table')
      /\ jobs[j].state = "reading" => RowsRead(j)' < Len(table')
  BY <1>1, <1>2, <1>3 DEF Follows
<1>6. QED
  BY <1>4, <1>5 DEF Follows, Same

\* A step that leaves the saves and the file alone, and the rows in the table.
LEMMA Undisturbed ==
  ASSUME TypeInv, SaveInv, ~crashed', UNCHANGED file, table' \in Seq(Row),
         Len(table') >= Len(table), \A i \in 1..Len(table) : table'[i] = table[i],
         \A j \in JobId : jobs'[j].kind = "save" =>
           Same(j) /\ jobs'[j].shrunk = jobs[j].shrunk /\ (jobs'[j].clear => jobs[j].clear)
  PROVE  SaveInv'
<1>1. GrowthInv'
  <2> SUFFICES ASSUME NEW j \in JobId, jobs'[j].kind = "save", ~jobs'[j].shrunk
               PROVE  Follows(j)'
    BY DEF GrowthInv
  <2>1. Same(j) /\ Follows(j)
    BY DEF SaveInv, GrowthInv, Same
  <2>2. QED
    BY <2>1, StillFollows
<1>2. SavesFollow'
  <2> SUFFICES ASSUME NEW j \in JobId, ClearSave(j)'
               PROVE  OnlyGrown' /\ (jobs'[j].open => FileFollows(j)')
    BY DEF SavesFollow
  <2>1. ClearSave(j) /\ Same(j)
    BY DEF ClearSave, Same
  <2>2. OnlyGrown /\ (jobs[j].open => FileFollows(j))
    BY <2>1 DEF SaveInv, SavesFollow
  <2>3. OnlyGrown'
    BY <2>2 DEF OnlyGrown, Same
  <2>4. ASSUME jobs'[j].open PROVE FileFollows(j)'
    <3>1. FileFollows(j) /\ jobs'[j].at = jobs[j].at
      BY <2>1, <2>2, <2>4 DEF Same
    <3>2. table \in Seq(Row) /\ file \in Seq(Row) /\ jobs[j].at \in Nat
      BY <2>1, SaveFields DEF TypeInv, Types, Same
    <3>3. Len(table) \in Nat /\ Len(file) \in Nat /\ Len(table') \in Nat
      BY <3>2
    <3>4. jobs[j].at <= Len(file) /\ Len(file) <= Len(table')
      BY <3>1, <3>2, <3>3 DEF FileFollows
    <3>5. \A i \in 1..jobs[j].at : file[i] = table'[i]
      <4> SUFFICES ASSUME NEW i \in 1..jobs[j].at PROVE file[i] = table'[i]
        OBVIOUS
      <4>1. i \in 1..Len(table)
        BY <3>1, <3>2, <3>3 DEF FileFollows
      <4>2. QED
        BY <3>1, <4>1 DEF FileFollows
    <3>6. QED
      BY <3>1, <3>4, <3>5 DEF FileFollows
  <2>5. QED
    BY <2>3, <2>4
<1>3. QED
  BY <1>1, <1>2 DEF SaveInv, CrashNeedsShrunkTable

\* A step that takes rows out of the table, if there are any.
LEMMA ShrinkSaves ==
  ASSUME TypeInv, SaveInv, ~crashed', table' = <<>> \/ Len(table') < Len(table),
         \A j \in JobId : jobs'[j].kind = "save" =>
           jobs[j].kind = "save" /\ jobs'[j] = Shrink(jobs)[j]
  PROVE  SaveInv'
<1>t. jobs \in [JobId -> Job \cup {None}] /\ table \in Seq(Row) /\ Len(table) \in Nat
  BY DEF TypeInv, Types
<1>j. ASSUME NEW j \in JobId, jobs'[j].kind = "save"
      PROVE  /\ Same(j) /\ ~jobs'[j].clear
             /\ jobs'[j].shrunk = (jobs[j].shrunk \/ Len(table') < Len(table))
  <2>1. jobs[j].kind = "save" /\ jobs[j].kind \in Kinds /\ jobs'[j] = Shrink(jobs)[j]
    BY <1>j DEF Kinds
  <2>2. Marked(Shrink(jobs))
    BY <1>t, Shrunk
  <2>3. /\ Shrink(jobs)[j].shrunk = (jobs[j].shrunk \/ Len(table') < Len(table))
        /\ ~Shrink(jobs)[j].clear
    BY <1>t, <1>j, <2>1, Shrunk
  <2> DEFINE js == Shrink(jobs)
  <2> HIDE DEF js
  <2>4. Marked(js) /\ jobs'[j] = js[j]
    BY <2>1, <2>2 DEF js
  <2>5. Same(j)
    <3>1. /\ js[j].state = jobs[j].state /\ js[j].open = jobs[j].open
          /\ js[j].lines = jobs[j].lines /\ js[j].at = jobs[j].at
          /\ js[j].rows = jobs[j].rows
      BY <1>t, <1>j, <2>1, <2>4, MarkedFields
    <3>2. QED
      BY <2>1, <2>4, <3>1 DEF Same
  <2>6. QED
    BY <2>1, <2>3, <2>5
<1>1. GrowthInv'
  <2> SUFFICES ASSUME NEW j \in JobId, jobs'[j].kind = "save", ~jobs'[j].shrunk
               PROVE  Follows(j)'
    BY DEF GrowthInv
  <2>1. Same(j) /\ ~jobs[j].shrunk /\ ~(Len(table') < Len(table))
    BY <1>j
  <2>2. table' = <<>> /\ Len(table) = 0
    BY <1>t, <2>1
  <2>3. table' = table /\ table' \in Seq(Row)
    BY <1>t, <2>2
  <2>4. Follows(j)
    BY <2>1 DEF SaveInv, GrowthInv, Same
  <2>5. Len(table') >= Len(table) /\ \A i \in 1..Len(table) : table'[i] = table[i]
    BY <1>t, <2>3
  <2>6. QED
    BY <2>1, <2>3, <2>4, <2>5, StillFollows
<1>2. SavesFollow'
  BY <1>j DEF SavesFollow, ClearSave
<1>3. QED
  BY <1>1, <1>2 DEF SaveInv, CrashNeedsShrunkTable

\* The step of a save that goes on or ends, once what it does to its own rows and
\* to the file is known to be right.
LEMMA SaveGoesOn ==
  ASSUME TypeInv, SaveInv, NEW j \in JobId, jobs[j].kind = "save", NEW b \in Job \cup {None},
         jobs' = [jobs EXCEPT ![j] = b], UNCHANGED table, ~crashed',
         b \in Job => /\ b.kind = "save" /\ b.open = jobs[j].open
                      /\ b.shrunk = jobs[j].shrunk /\ b.clear = jobs[j].clear,
         b \in Job /\ Follows(j) => Follows(j)',
         \A k \in JobId : /\ jobs[k].kind = "save" /\ jobs[k].open /\ jobs'[k].kind = "save"
                          /\ FileFollows(k) /\ Follows(j)
                          => FileFollows(k)'
  PROVE  SaveInv'
<1>1. /\ jobs'[j] = b /\ \A k \in JobId \ {j} : jobs'[k] = jobs[k]
  BY JobChanged DEF TypeInv, Types
<1>2. jobs'[j].kind = "save" => b \in Job
  BY <1>1 DEF None
<1>3. \A k \in JobId : jobs'[k].kind = "save" =>
        /\ jobs[k].kind = "save" /\ jobs'[k].open = jobs[k].open
        /\ jobs'[k].shrunk = jobs[k].shrunk /\ jobs'[k].clear = jobs[k].clear
  BY <1>1, <1>2
<1>4. GrowthInv'
  <2> SUFFICES ASSUME NEW k \in JobId, jobs'[k].kind = "save", ~jobs'[k].shrunk
               PROVE  Follows(k)'
    BY DEF GrowthInv
  <2>1. Follows(k)
    BY <1>3 DEF SaveInv, GrowthInv
  <2>2. CASE k = j
    BY <1>2, <2>1, <2>2
  <2>3. CASE k # j
    BY <1>1, <2>1, <2>3 DEF Follows, RowsRead
  <2>4. QED
    BY <2>2, <2>3
<1>5. SavesFollow'
  <2> SUFFICES ASSUME NEW k \in JobId, ClearSave(k)'
               PROVE  OnlyGrown' /\ (jobs'[k].open => FileFollows(k)')
    BY DEF SavesFollow
  <2>1. ClearSave(k) /\ jobs'[k].kind = "save"
    BY <1>3 DEF ClearSave
  <2>2. OnlyGrown /\ (jobs[k].open => FileFollows(k))
    BY <2>1 DEF SaveInv, SavesFollow
  <2>3. OnlyGrown'
    BY <1>3, <2>2 DEF OnlyGrown
  <2>4. Follows(j)
    BY <2>2 DEF OnlyGrown, SaveInv, GrowthInv
  <2>5. ASSUME jobs'[k].open PROVE FileFollows(k)'
    BY <1>3, <2>1, <2>2, <2>4, <2>5
  <2>6. QED
    BY <2>3, <2>5
<1>6. QED
  BY <1>4, <1>5 DEF SaveInv, CrashNeedsShrunkTable

\* Rows of the table written where they are in it keep a file's first rows and its
\* length, and are in it then.
LEMMA WrittenFollows ==
  ASSUME table \in Seq(Row), file \in Seq(Row), NEW n \in Nat, NEW rows \in Seq(Row),
         n + Len(rows) <= Len(table), Len(file) <= Len(table),
         \A i \in 1..Len(rows) : rows[i] = table[n + i],
         NEW a \in Nat, a <= Len(file), \A i \in 1..a : file[i] = table[i]
  PROVE  LET w == Written(n, rows) IN
         /\ w \in Seq(Row) /\ Len(w) <= Len(table) /\ a <= Len(w) /\ n + Len(rows) <= Len(w)
         /\ \A i \in 1..a : w[i] = table[i]
         /\ \A i \in (n + 1)..(n + Len(rows)) : w[i] = table[i]
<1> DEFINE w == Written(n, rows)
           end == n + Len(rows)
<1>1. Len(table) \in Nat /\ Len(file) \in Nat /\ Len(rows) \in Nat /\ end \in Nat
  OBVIOUS
<1>2. /\ w \in Seq(Row) /\ Len(w) = IF Len(file) > end THEN Len(file) ELSE end
      /\ \A i \in (n + 1)..end : w[i] = rows[i - n]
      /\ \A i \in 1..Len(file) : i \notin (n + 1)..end => w[i] = file[i]
  BY WrittenAt
<1> HIDE DEF w
<1>3. \A i \in (n + 1)..end : w[i] = table[i]
  <2> SUFFICES ASSUME NEW i \in (n + 1)..end PROVE w[i] = table[i]
    OBVIOUS
  <2>1. i - n \in 1..Len(rows) /\ n + (i - n) = i
    BY <1>1
  <2>2. rows[i - n] = table[n + (i - n)]
    BY <2>1
  <2>3. QED
    BY <1>2, <2>1, <2>2
<1>4. \A i \in 1..a : w[i] = table[i]
  <2> SUFFICES ASSUME NEW i \in 1..a PROVE w[i] = table[i]
    OBVIOUS
  <2>1. i \in 1..Len(file)
    BY <1>1
  <2>2. QED
    BY <1>2, <1>3, <2>1
<1>5. Len(w) <= Len(table) /\ a <= Len(w) /\ end <= Len(w)
  BY <1>1, <1>2
<1>6. QED
  BY <1>2, <1>3, <1>4, <1>5 DEF w

\* What a save writes next keeps the file's first rows for every save.
LEMMA FlushFollows ==
  ASSUME TypeInv, NEW j \in JobId, jobs[j].kind = "save", NEW rows \in Seq(Row),
         Flush(j, rows), jobs[j].at + Len(rows) <= Len(table),
         \A i \in 1..Len(rows) : rows[i] = table[jobs[j].at + i],
         NEW a \in Nat, a <= Len(file), Len(file) <= Len(table),
         \A i \in 1..a : file[i] = table[i]
  PROVE  /\ file' \in Seq(Row) /\ Len(file') <= Len(table) /\ a <= Len(file')
         /\ \A i \in 1..a : file'[i] = table[i]
<1>1. table \in Seq(Row) /\ file \in Seq(Row) /\ jobs[j].at \in Nat
  BY SaveFields DEF TypeInv, Types
<1>2. CASE jobs[j].open /\ rows # <<>>
  <2>1. file' = Written(jobs[j].at, rows)
    BY <1>2 DEF Flush
  <2> DEFINE n == jobs[j].at
  <2>2. n \in Nat /\ n + Len(rows) <= Len(table) /\ \A i \in 1..Len(rows) : rows[i] = table[n + i]
    BY <1>1
  <2>n. file' = Written(n, rows)
    BY <2>1
  <2> HIDE DEF n
  <2>3. QED
    BY <1>1, <2>2, <2>n, WrittenFollows
<1>3. CASE ~(jobs[j].open /\ rows # <<>>)
  BY <1>1, <1>3 DEF Flush
<1>4. QED
  BY <1>2, <1>3

\* And its own, with the rows written.
LEMMA FlushFollowsOwn ==
  ASSUME TypeInv, NEW j \in JobId, jobs[j].kind = "save", jobs[j].open, NEW rows \in Seq(Row),
         Flush(j, rows), jobs[j].at + Len(rows) <= Len(table),
         \A i \in 1..Len(rows) : rows[i] = table[jobs[j].at + i], FileFollows(j)
  PROVE  /\ file' \in Seq(Row) /\ Len(file') <= Len(table)
         /\ jobs[j].at + Len(rows) <= Len(file')
         /\ \A i \in 1..(jobs[j].at + Len(rows)) : file'[i] = table[i]
<1> DEFINE n == jobs[j].at
           end == n + Len(rows)
<1>1. table \in Seq(Row) /\ file \in Seq(Row) /\ n \in Nat
  BY SaveFields DEF TypeInv, Types
<1>2. n <= Len(file) /\ Len(file) <= Len(table) /\ \A i \in 1..n : file[i] = table[i]
  BY DEF FileFollows
<1>3. CASE rows # <<>>
  <2>1. end <= Len(table) /\ (\A i \in 1..Len(rows) : rows[i] = table[n + i])
        /\ file' = Written(n, rows)
    BY <1>3 DEF Flush
  <2>n. n <= Len(file) /\ n + Len(rows) <= Len(table)
    BY <1>2, <2>1
  <2> HIDE DEF n
  <2>w. LET w == Written(n, rows) IN
        /\ w \in Seq(Row) /\ Len(w) <= Len(table) /\ n <= Len(w) /\ n + Len(rows) <= Len(w)
        /\ \A i \in 1..n : w[i] = table[i]
        /\ \A i \in (n + 1)..(n + Len(rows)) : w[i] = table[i]
    BY <1>1, <1>2, <2>1, <2>n, WrittenFollows
  <2>e. end = n + Len(rows) /\ end \in Nat /\ Len(rows) \in Nat
    BY <1>1
  <2> HIDE DEF end
  <2>2. /\ file' \in Seq(Row) /\ Len(file') <= Len(table) /\ end <= Len(file')
        /\ \A i \in 1..n : file'[i] = table[i]
        /\ \A i \in (n + 1)..end : file'[i] = table[i]
    BY <2>1, <2>e, <2>w
  <2>3. \A i \in 1..end : i \in 1..n \/ i \in (n + 1)..end
    BY <1>1, <2>e
  <2>4. QED
    BY <2>2, <2>3 DEF n, end
<1>4. CASE rows = <<>>
  <2>1. file' = file /\ Len(rows) = 0
    BY <1>4 DEF Flush
  <2>2. QED
    BY <1>1, <1>2, <2>1
<1>5. QED
  BY <1>3, <1>4

\* Every step keeps SaveInv.
LEMMA SaveStep == TypeInv /\ SaveInv /\ [Next]_vars => SaveInv'
<1> USE ConstantsAssumption
<1> SUFFICES ASSUME TypeInv, SaveInv, [Next]_vars PROVE SaveInv'
  OBVIOUS
<1>t. /\ jobs \in [JobId -> Job \cup {None}] /\ table \in Seq(Row) /\ file \in Seq(Row)
      /\ captured \in Nat /\ Len(table) \in Nat
  BY DEF TypeInv, Types
<1>k. /\ "save" \in Kinds /\ "load" \in Kinds /\ None.kind = "none" /\ "none" \notin Kinds
      /\ {"load"} \in SUBSET Kinds /\ Kinds \in SUBSET Kinds
  BY DEF Kinds, None
\* Steps in which rows come and the saves stay.
<1>s. ASSUME UNCHANGED <<file, jobs, table>>, ~crashed' PROVE SaveInv'
  <2>1. \A j \in JobId : jobs'[j].kind = "save" =>
          Same(j) /\ jobs'[j].shrunk = jobs[j].shrunk /\ (jobs'[j].clear => jobs[j].clear)
    BY <1>s DEF Same
  <2>2. table' \in Seq(Row) /\ Len(table') >= Len(table)
    BY <1>t, <1>s
  <2>3. QED
    BY <1>s, <2>1, <2>2, Undisturbed
<1>1. ASSUME NEW d \in Captures, Capture(d) PROVE SaveInv'
  <2>1. [time |-> captured + 1, data |-> d] \in Row
    BY <1>1, <1>t, CapturesType DEF Row
  <2>2. /\ table' \in Seq(Row) /\ Len(table') >= Len(table)
        /\ \A i \in 1..Len(table) : table'[i] = table[i]
    BY <1>1, <1>t, <2>1, AppendType DEF Capture
  <2>3. UNCHANGED file /\ ~crashed' /\ jobs' = Disturb(jobs, {"load"})
    BY <1>1 DEF Capture, GuiFree
  <2>4. \A j \in JobId : jobs'[j].kind = "save" =>
          Same(j) /\ jobs'[j].shrunk = jobs[j].shrunk /\ (jobs'[j].clear => jobs[j].clear)
    <3> SUFFICES ASSUME NEW j \in JobId, jobs'[j].kind = "save"
                 PROVE  Same(j) /\ jobs'[j].shrunk = jobs[j].shrunk
                        /\ (jobs'[j].clear => jobs[j].clear)
      OBVIOUS
    <3>1. Marked(jobs')
      BY <1>t, <1>k, <2>3, Disturbed
    <3>2. jobs[j].kind = "save"
      BY <1>t, <3>1, MarkedFields
    <3>3. Same(j)
      BY <1>t, <1>k, <3>1, <3>2, MarkedFields DEF Same
    <3>4. jobs'[j].shrunk = jobs[j].shrunk /\ (jobs'[j].clear => jobs[j].clear)
      BY <1>t, <1>k, <2>3, <3>2, Disturbed
    <3>5. QED
      BY <3>3, <3>4
  <2>5. QED
    BY <2>2, <2>3, <2>4, Undisturbed
<1>2. CASE ClearTable
  <2>1. table' = <<>> /\ ~crashed' /\ jobs' = Shrink(jobs)
    BY <1>2 DEF ClearTable, GuiFree
  <2>2. Marked(jobs')
    BY <1>t, <2>1, Shrunk
  <2>3. \A j \in JobId : jobs'[j].kind = jobs[j].kind
    BY <1>t, <2>2, MarkedFields
  <2>4. QED
    BY <2>1, <2>3, ShrinkSaves
<1>3. CASE DiscardDmx
  BY <1>3, <1>s DEF DiscardDmx, GuiFree
<1>4. CASE ToggleDissector
  BY <1>4, <1>s DEF ToggleDissector, GuiFree
<1>5. ASSUME NEW open \in BOOLEAN, PressSave(open) PROVE SaveInv'
  <2> DEFINE clear == \A j \in Running({"save"}) : ~jobs[j].shrunk
             kinds == IF open THEN Kinds ELSE {"load"}
             js == Disturb(jobs, kinds)
  <2>p. PICK new : new = started'
    OBVIOUS
  <2>0. /\ clear \in BOOLEAN /\ kinds \in SUBSET Kinds
        /\ clear => OnlyGrown
    BY <1>k DEF Running, OnlyGrown
  <2>k. (open => "save" \in kinds) /\ (~open => "save" \notin kinds)
    BY DEF Kinds
  <2>f. /\ UNCHANGED <<table, signals, cursor>> /\ ~crashed' /\ table' \in Seq(Row)
        /\ StartJob(js, "save", open, clear)
        /\ (open => file' = <<>>) /\ (~open => file' = file)
    BY <1>5, <1>t DEF PressSave, GuiFree
  <2> HIDE DEF clear, kinds
  <2>1. Marked(js)
    BY <1>t, <2>0, Disturbed
  <2>2. \A j \in JobId : jobs[j].kind = "save" =>
          /\ js[j].shrunk = jobs[j].shrunk
          /\ js[j].clear => jobs[j].clear /\ ~open
    BY <1>t, <1>k, <2>0, <2>k, Disturbed
  <2> HIDE DEF js
  <2>3. /\ new \in JobId
        /\ jobs'[new] = [kind |-> "save", state |-> "queued", open |-> open, lines |-> <<>>,
                         at |-> 0, skips |-> FALSE, rows |-> Len(table'), shrunk |-> FALSE,
                         clear |-> clear]
        /\ \A j \in JobId \ {new} : jobs'[j] = js[j]
    BY <1>k, <2>0, <2>1, <2>f, <2>p, StartKeeps
  <2>4. ASSUME NEW j \in JobId, j # new, jobs'[j].kind = "save"
        PROVE  /\ Same(j) /\ jobs'[j].shrunk = jobs[j].shrunk
               /\ jobs'[j].clear => jobs[j].clear /\ ~open
    <3>1. jobs'[j] = js[j]
      BY <2>3, <2>4
    <3>2. jobs[j].kind = "save"
      BY <1>t, <2>1, <2>4, <3>1, MarkedFields
    <3>3. Same(j)
      BY <1>t, <1>k, <2>1, <3>1, <3>2, MarkedFields DEF Same
    <3>4. QED
      BY <2>2, <3>1, <3>2, <3>3
  <2>5. Follows(new)'
    <3>1. /\ jobs'[new].lines = <<>> /\ jobs'[new].at = 0 /\ jobs'[new].state = "queued"
          /\ jobs'[new].rows = Len(table')
      BY <2>3
    <3>2. RowsRead(new)' = 0
      BY <3>1 DEF RowsRead
    <3>3. QED
      BY <1>t, <2>f, <3>1, <3>2 DEF Follows
  <2>6. GrowthInv'
    <3> SUFFICES ASSUME NEW j \in JobId, jobs'[j].kind = "save", ~jobs'[j].shrunk, j # new
                 PROVE  Follows(j)'
      BY <2>5 DEF GrowthInv
    <3>1. Same(j) /\ ~jobs[j].shrunk
      BY <2>4
    <3>2. Follows(j)
      BY <3>1 DEF SaveInv, GrowthInv, Same
    <3>3. Len(table') >= Len(table) /\ \A i \in 1..Len(table) : table'[i] = table[i]
      BY <1>t, <2>f
    <3>4. QED
      BY <2>f, <3>1, <3>2, <3>3, StillFollows
  <2>7. OnlyGrown => OnlyGrown'
    <3> SUFFICES ASSUME OnlyGrown, NEW j \in JobId, jobs'[j].kind = "save"
                 PROVE  ~jobs'[j].shrunk
      BY DEF OnlyGrown
    <3>1. CASE j = new
      BY <2>3, <3>1
    <3>2. CASE j # new
      BY <2>4, <3>2 DEF OnlyGrown, Same
    <3>3. QED
      BY <3>1, <3>2
  <2>8. SavesFollow'
    <3> SUFFICES ASSUME NEW j \in JobId, ClearSave(j)'
                 PROVE  OnlyGrown' /\ (jobs'[j].open => FileFollows(j)')
      BY DEF SavesFollow
    <3>1. CASE j = new
      <4>1. OnlyGrown'
        BY <2>0, <2>3, <2>7, <3>1 DEF ClearSave
      <4>2. ASSUME jobs'[j].open PROVE FileFollows(j)'
        <5>1. file' = <<>> /\ jobs'[j].at = 0 /\ Len(table') \in Nat
          BY <1>t, <2>3, <2>f, <3>1, <4>2
        <5>2. QED
          BY <5>1 DEF FileFollows
      <4>3. QED
        BY <4>1, <4>2
    <3>2. CASE j # new
      <4>1. Same(j) /\ ClearSave(j) /\ ~open
        BY <2>4, <3>2 DEF ClearSave, Same
      <4>2. OnlyGrown /\ (jobs[j].open => FileFollows(j))
        BY <4>1 DEF SaveInv, SavesFollow
      <4>3. jobs'[j].open => FileFollows(j)'
        BY <2>f, <4>1, <4>2 DEF FileFollows, Same
      <4>4. QED
        BY <2>7, <4>2, <4>3
    <3>3. QED
      BY <3>1, <3>2
  <2>9. QED
    BY <2>6, <2>8, <2>f DEF SaveInv, CrashNeedsShrunkTable
<1>6. ASSUME NEW open \in BOOLEAN, PressOpen(open) PROVE SaveInv'
  <2> DEFINE clear == Running(Kinds) = {}
             js == Shrink(jobs)
             new == started'
  <2>1. /\ clear \in BOOLEAN /\ table' \in Seq(Row) /\ table' = <<>> /\ ~crashed'
        /\ StartJob(js, "load", open, clear) /\ UNCHANGED <<signals, cursor>>
    BY <1>6 DEF PressOpen, GuiFree
  <2>2. Marked(js)
    BY <1>t, Shrunk
  <2> HIDE DEF clear, js
  <2>3. /\ new \in JobId /\ jobs'[new].kind = "load"
        /\ \A j \in JobId \ {new} : jobs'[j] = js[j]
    <3>1. /\ new \in JobId
          /\ jobs'[new] = [kind |-> "load", state |-> "queued", open |-> open, lines |-> <<>>,
                           at |-> 0, skips |-> FALSE, rows |-> Len(table'), shrunk |-> FALSE,
                           clear |-> clear]
          /\ \A j \in JobId \ {new} : jobs'[j] = js[j]
      BY <1>k, <2>1, <2>2, StartKeeps
    <3>2. QED
      BY <3>1
  <2> HIDE DEF new
  <2>4. ASSUME NEW j \in JobId, jobs'[j].kind = "save"
        PROVE  jobs[j].kind = "save" /\ jobs'[j] = Shrink(jobs)[j]
    <3>1. j # new /\ jobs'[j] = js[j]
      BY <2>3, <2>4
    <3>2. jobs[j].kind = "save"
      BY <1>t, <2>2, <2>4, <3>1, MarkedFields
    <3>3. QED
      BY <3>1, <3>2 DEF js
  <2>5. QED
    BY <2>1, <2>4, ShrinkSaves
<1>7. CASE DiscardRow
  <2>1. ~crashed' /\ jobs' = Shrink(jobs)
    BY <1>7 DEF DiscardRow, DiscardStep
  <2>2. Len(table') < Len(table)
    <3>1. PICK i \in 1..Len(table) : table' = RemoveAt(table, i)
      BY <1>7 DEF DiscardRow
    <3>2. /\ Len(SubSeq(table, 1, i - 1)) = i - 1
          /\ Len(SubSeq(table, i + 1, Len(table))) = Len(table) - i
      BY <1>t, <3>1
    <3>3. SubSeq(table, 1, i - 1) \in Seq(Row) /\ SubSeq(table, i + 1, Len(table)) \in Seq(Row)
      BY <1>t
    <3>4. Len(table') = (i - 1) + (Len(table) - i)
      <4> DEFINE a == SubSeq(table, 1, i - 1)
                 b == SubSeq(table, i + 1, Len(table))
      <4>1. table' = a \o b
        BY <3>1 DEF RemoveAt
      <4>2. a \in Seq(Row) /\ b \in Seq(Row) /\ Len(a) = i - 1 /\ Len(b) = Len(table) - i
        BY <3>2, <3>3
      <4> HIDE DEF a, b
      <4>3. Len(a \o b) = Len(a) + Len(b)
        BY <4>2
      <4>4. QED
        BY <4>1, <4>2, <4>3
    <3>5. QED
      BY <1>t, <3>4
  <2>3. Marked(jobs')
    BY <1>t, <2>1, Shrunk
  <2>4. \A j \in JobId : jobs'[j].kind = jobs[j].kind
    BY <1>t, <2>3, MarkedFields
  <2>5. QED
    BY <2>1, <2>2, <2>4, ShrinkSaves
<1>8. CASE EndDiscard
  BY <1>8, <1>s DEF EndDiscard, DiscardStep
<1>9. CASE DeliverSignal
  BY <1>9, <1>s DEF DeliverSignal, GuiFree
<1>w. ASSUME NEW j \in JobId, Work(j) PROVE SaveInv'
  <2>j. ASSUME NEW kind \in Kinds, NEW state, JobStep(j, kind, state)
        PROVE  /\ jobs[j].kind = kind /\ jobs[j].kind \in Kinds /\ jobs[j].state = state
               /\ jobs[j].lines \in Seq(Row) /\ jobs[j].at \in Nat /\ jobs[j].skips \in BOOLEAN
               /\ RowsRead(j) \in Nat /\ RowsRead(j) = jobs[j].at + Len(jobs[j].lines)
               /\ Len(jobs[j].lines) \in Nat /\ ~crashed
    <3>1. /\ jobs[j].kind = kind /\ jobs[j].kind \in Kinds /\ jobs[j].state = state
          /\ jobs[j].lines \in Seq(Row) /\ jobs[j].at \in Nat /\ jobs[j].skips \in BOOLEAN
          /\ RowsRead(j) \in Nat /\ ~crashed
      BY <1>w, <2>j, JobSteps
    <3>2. QED
      BY <3>1 DEF RowsRead
  <2>m. ASSUME jobs[j].kind = "save", NEW s \in {"checking", "reading"}, NEW l \in Seq(Row),
               NEW a \in Nat, jobs[j].skips \in BOOLEAN, UNCHANGED table, ~crashed',
               jobs' = [jobs EXCEPT ![j] = Moved(j, s, l, a, jobs[j].skips)],
               Follows(j) =>
                 /\ a + Len(l) <= Len(table)
                 /\ \A i \in 1..Len(l) : l[i] = table[a + i]
                 /\ s = "reading" => a + Len(l) < Len(table),
               \A k \in JobId \ {j} : FileFollows(k) /\ Follows(j) /\ jobs[k].kind = "save" =>
                 /\ jobs[k].at <= Len(file') /\ Len(file') <= Len(table)
                 /\ \A i \in 1..jobs[k].at : file'[i] = table[i],
               FileFollows(j) /\ jobs[j].open /\ Follows(j) =>
                 /\ a <= Len(file') /\ Len(file') <= Len(table)
                 /\ \A i \in 1..a : file'[i] = table[i]
        PROVE  SaveInv'
    <3> DEFINE p == jobs[j].skips
               b == Moved(j, s, l, a, p)
    <3>s. s \in {"queued", "checking", "reading", "loading"}
      OBVIOUS
    <3>p. p \in BOOLEAN /\ jobs' = [jobs EXCEPT ![j] = b]
      BY <2>m
    <3> HIDE DEF p
    <3>1. /\ b \in Job /\ b.kind = "save" /\ b.state = s /\ b.lines = l /\ b.at = a
          /\ b.open = jobs[j].open /\ b.rows = jobs[j].rows /\ b.shrunk = jobs[j].shrunk
          /\ b.clear = jobs[j].clear
      BY <1>t, <1>k, <1>w, <2>m, <3>s, <3>p, MovedJob
    <3> HIDE DEF b
    <3>2. jobs'[j] = b /\ \A k \in JobId \ {j} : jobs'[k] = jobs[k]
      BY <1>t, <1>w, <3>p
    <3>3. ASSUME Follows(j) PROVE Follows(j)'
      BY <2>m, <3>1, <3>2, <3>3 DEF Follows, RowsRead
    <3>4. ASSUME NEW k \in JobId, jobs[k].kind = "save", jobs[k].open, FileFollows(k), Follows(j)
          PROVE  FileFollows(k)'
      <4>1. CASE k = j
        BY <2>m, <3>1, <3>2, <3>4, <4>1 DEF FileFollows
      <4>2. CASE k # j
        BY <2>m, <3>2, <3>4, <4>2 DEF FileFollows
      <4>3. QED
        BY <4>1, <4>2
    <3>5. QED
      BY <1>w, <2>m, <3>1, <3>3, <3>4, <3>p, SaveGoesOn
  <2>l. ASSUME jobs[j].kind = "load", ~crashed', UNCHANGED file,
               NEW b, jobs' = [jobs EXCEPT ![j] = b], b.kind # "save",
               table' \in Seq(Row), Len(table') >= Len(table),
               \A i \in 1..Len(table) : table'[i] = table[i]
        PROVE  SaveInv'
    <3>1. jobs'[j] = b /\ \A k \in JobId \ {j} : jobs'[k] = jobs[k]
      BY <1>t, <1>w, <2>l
    <3>2. \A k \in JobId : jobs'[k].kind = "save" =>
            Same(k) /\ jobs'[k].shrunk = jobs[k].shrunk /\ (jobs'[k].clear => jobs[k].clear)
      BY <2>l, <3>1 DEF Same
    <3>3. QED
      BY <2>l, <3>2, Undisturbed
  <2>1. CASE StartSave(j)
    <3>1. JobStep(j, "save", "queued") /\ UNCHANGED <<table, file, crashed>>
      BY <2>1 DEF StartSave
    <3>2. jobs' = [jobs EXCEPT ![j] = Moved(j, "checking", jobs[j].lines, jobs[j].at, jobs[j].skips)]
      BY <1>w, <2>1, JobGoesOn
    <3>3. /\ jobs[j].kind = "save" /\ jobs[j].lines \in Seq(Row) /\ jobs[j].at \in Nat
          /\ jobs[j].skips \in BOOLEAN /\ RowsRead(j) = jobs[j].at + Len(jobs[j].lines)
          /\ ~crashed
      BY <1>k, <2>j, <3>1
    <3>4. QED
      BY <2>m, <3>1, <3>2, <3>3 DEF Follows, FileFollows
  <2>2. CASE CheckRow(j)
    <3>1. /\ JobStep(j, "save", "checking") /\ UNCHANGED <<table, file, crashed>>
          /\ RowsRead(j) < Len(table)
      BY <2>2 DEF CheckRow
    <3>2. jobs' = [jobs EXCEPT ![j] = Moved(j, "reading", jobs[j].lines, jobs[j].at, jobs[j].skips)]
      BY <1>w, <2>2, JobGoesOn
    <3>3. /\ jobs[j].kind = "save" /\ jobs[j].lines \in Seq(Row) /\ jobs[j].at \in Nat
          /\ jobs[j].skips \in BOOLEAN /\ RowsRead(j) = jobs[j].at + Len(jobs[j].lines)
          /\ ~crashed
      BY <1>k, <2>j, <3>1
    <3>4. QED
      BY <2>m, <3>1, <3>2, <3>3 DEF Follows, FileFollows
  <2>3. CASE ReadRow(j)
    <3>1. JobStep(j, "save", "reading") /\ UNCHANGED <<table, crashed>>
      BY <2>3 DEF ReadRow
    <3>2. /\ jobs[j].kind = "save" /\ jobs[j].lines \in Seq(Row) /\ jobs[j].at \in Nat
          /\ jobs[j].skips \in BOOLEAN /\ RowsRead(j) = jobs[j].at + Len(jobs[j].lines)
          /\ ~crashed /\ Len(jobs[j].lines) \in Nat /\ RowsRead(j) \in Nat
      BY <1>k, <2>j, <3>1
    <3>3. PICK l \in Seq(Row), a \in Nat, rows \in Seq(Row) :
            /\ jobs' = [jobs EXCEPT ![j] = Moved(j, "checking", l, a, jobs[j].skips)]
            /\ rows = Append(jobs[j].lines, table[RowsRead(j) + 1])
            /\ RowsRead(j) + 1 <= Len(table)
            /\ a + Len(l) = RowsRead(j) + 1
            /\ \/ l = rows /\ a = jobs[j].at /\ UNCHANGED file
               \/ l = <<>> /\ Flush(j, rows)
      BY <1>w, <2>3, RowRead
    <3>r. /\ Len(rows) = Len(jobs[j].lines) + 1 /\ jobs[j].at + Len(rows) <= Len(table)
          /\ jobs[j].at + Len(rows) = RowsRead(j) + 1
      <4>1. table[RowsRead(j) + 1] \in Row
        <5>1. RowsRead(j) + 1 \in 1..Len(table)
          BY <1>t, <3>2, <3>3
        <5>2. QED
          BY <1>t, <5>1
      <4>2. Len(rows) = Len(jobs[j].lines) + 1
        BY <3>2, <3>3, <4>1
      <4>3. RowsRead(j) + 1 <= Len(table)
        BY <3>3
      <4>4. jobs[j].at \in Nat /\ Len(jobs[j].lines) \in Nat /\ RowsRead(j) \in Nat
            /\ RowsRead(j) = jobs[j].at + Len(jobs[j].lines)
        BY <3>2
      <4>5. jobs[j].at + Len(rows) = RowsRead(j) + 1
        BY <4>2, <4>4
      <4>6. QED
        BY <4>2, <4>3, <4>5
    <3>f. Follows(j) => \A i \in 1..Len(rows) : rows[i] = table[jobs[j].at + i]
      <4> SUFFICES ASSUME Follows(j), NEW i \in 1..Len(rows)
                   PROVE  rows[i] = table[jobs[j].at + i]
        OBVIOUS
      <4>1. CASE i = Len(jobs[j].lines) + 1
        <5>1. rows[i] = table[RowsRead(j) + 1]
          BY <3>2, <3>3, <4>1
        <5>2. RowsRead(j) + 1 = jobs[j].at + i
          BY <3>2, <4>1
        <5>3. QED
          BY <5>1, <5>2
      <4>2. CASE i # Len(jobs[j].lines) + 1
        <5>1. i \in 1..Len(jobs[j].lines)
          BY <3>2, <3>r, <4>2
        <5>2. rows[i] = jobs[j].lines[i]
          BY <3>2, <3>3, <5>1
        <5>3. QED
          BY <5>1, <5>2 DEF Follows
      <4>3. QED
        BY <4>1, <4>2
    <3>4. ASSUME Follows(j)
          PROVE  /\ a + Len(l) <= Len(table)
                 /\ \A i \in 1..Len(l) : l[i] = table[a + i]
      <4>1. \A i \in 1..Len(l) : l[i] = table[a + i]
        <5>1. CASE l = rows /\ a = jobs[j].at
          BY <3>4, <3>f, <5>1
        <5>2. CASE l = <<>>
          BY <5>2
        <5>3. QED
          BY <3>3, <5>1, <5>2
      <4>2. QED
        BY <3>3, <4>1
    <3>5. ASSUME NEW k \in JobId \ {j}, FileFollows(k), Follows(j), jobs[k].kind = "save"
          PROVE  /\ jobs[k].at <= Len(file') /\ Len(file') <= Len(table)
                 /\ \A i \in 1..jobs[k].at : file'[i] = table[i]
      <4>1. CASE UNCHANGED file
        BY <3>5, <4>1 DEF FileFollows
      <4>2. CASE Flush(j, rows)
        <5> DEFINE n == jobs[k].at
        <5>1. /\ n \in Nat /\ n <= Len(file) /\ Len(file) <= Len(table)
              /\ \A i \in 1..n : file[i] = table[i]
          BY <3>5, SaveFields DEF FileFollows
        <5> HIDE DEF n
        <5>2. Len(file') <= Len(table) /\ n <= Len(file') /\ \A i \in 1..n : file'[i] = table[i]
          BY <1>w, <3>2, <3>5, <3>f, <3>r, <4>2, <5>1, FlushFollows
        <5>3. QED
          BY <5>2 DEF n
      <4>3. QED
        BY <3>3, <4>1, <4>2
    <3>6. ASSUME FileFollows(j), jobs[j].open, Follows(j)
          PROVE  /\ a <= Len(file') /\ Len(file') <= Len(table)
                 /\ \A i \in 1..a : file'[i] = table[i]
      <4>1. CASE a = jobs[j].at /\ UNCHANGED file
        BY <3>6, <4>1 DEF FileFollows
      <4>2. CASE l = <<>> /\ Flush(j, rows)
        <5>1. a = jobs[j].at + Len(rows)
          BY <3>3, <3>r, <4>2
        <5>2. QED
          BY <1>w, <3>2, <3>6, <3>f, <3>r, <4>2, <5>1, FlushFollowsOwn
      <4>3. QED
        BY <3>3, <4>1, <4>2
    <3>7. QED
      BY <2>m, <3>1, <3>2, <3>3, <3>4, <3>5, <3>6
  <2>4. CASE ReadRowGone(j)
    <3>1. JobStep(j, "save", "reading") /\ PastEnd(j) /\ UNCHANGED <<table, file, jobs>>
      BY <2>4 DEF ReadRowGone
    <3>2. /\ jobs[j].kind = "save" /\ jobs[j].state = "reading" /\ RowsRead(j) \in Nat
          /\ RowsRead(j) >= Len(table)
      BY <1>k, <2>j, <3>1 DEF PastEnd
    <3>3. jobs[j].shrunk
      BY <1>t, <1>w, <3>2 DEF SaveInv, GrowthInv, Follows
    <3>4. PastEnd(j)' /\ jobs'[j].shrunk
      BY <3>1, <3>3 DEF PastEnd, RowsRead
    <3>5. CrashNeedsShrunkTable'
      BY <1>w, <3>4 DEF CrashNeedsShrunkTable
    <3>6. GrowthInv' /\ SavesFollow'
      BY <3>1 DEF SaveInv, GrowthInv, SavesFollow, ClearSave, OnlyGrown, Follows, FileFollows,
                  RowsRead
    <3>7. QED
      BY <3>5, <3>6 DEF SaveInv
  <2>5. CASE EndSave(j)
    <3>1. /\ JobStep(j, "save", "checking") /\ UNCHANGED <<table, crashed>>
          /\ jobs' = [jobs EXCEPT ![j] = None] /\ Flush(j, jobs[j].lines)
      BY <2>5 DEF EndSave
    <3>2. /\ jobs[j].kind = "save" /\ jobs[j].lines \in Seq(Row) /\ ~crashed
          /\ RowsRead(j) = jobs[j].at + Len(jobs[j].lines)
      BY <1>k, <2>j, <3>1
    <3>3. None \notin Job
      BY DEF None, Job, Kinds
    <3>4. ASSUME NEW k \in JobId, jobs[k].kind = "save", jobs'[k].kind = "save",
                 FileFollows(k), Follows(j)
          PROVE  FileFollows(k)'
      <4> DEFINE n == jobs[k].at
                 rows == jobs[j].lines
      <4>1. /\ n \in Nat /\ n <= Len(file) /\ Len(file) <= Len(table)
            /\ \A i \in 1..n : file[i] = table[i]
        BY <3>4, SaveFields DEF FileFollows
      <4>2. /\ rows \in Seq(Row) /\ Flush(j, rows) /\ jobs[j].at + Len(rows) <= Len(table)
            /\ \A i \in 1..Len(rows) : rows[i] = table[jobs[j].at + i]
        BY <3>1, <3>2, <3>4 DEF Follows
      <4>3. jobs'[k].at = n /\ UNCHANGED table
        <5>1. k # j
          BY <1>t, <1>k, <1>w, <3>1, <3>4
        <5>2. QED
          BY <1>t, <1>w, <3>1, <5>1
      <4> HIDE DEF n, rows
      <4>4. Len(file') <= Len(table) /\ n <= Len(file') /\ \A i \in 1..n : file'[i] = table[i]
        BY <1>w, <3>2, <4>1, <4>2, FlushFollows
      <4>5. QED
        BY <4>3, <4>4 DEF FileFollows
    <3>5. QED
      BY <1>w, <3>1, <3>2, <3>3, <3>4, SaveGoesOn
  <2>6. CASE StartLoad(j)
    <3>1. JobStep(j, "load", "queued") /\ UNCHANGED <<table, file, crashed>>
      BY <2>6 DEF StartLoad
    <3>2. PICK l \in Seq(Row), p \in BOOLEAN :
            jobs' = [jobs EXCEPT ![j] = Moved(j, "loading", l, jobs[j].at, p)]
      BY <1>w, <2>6, JobGoesOn
    <3>3. jobs[j].kind = "load" /\ jobs[j].at \in Nat /\ ~crashed
      BY <1>k, <2>j, <3>1
    <3> DEFINE b == Moved(j, "loading", l, jobs[j].at, p)
    <3>4. b.kind = "load"
      BY <1>t, <1>k, <1>w, <3>3, MovedJob
    <3> HIDE DEF b
    <3>5. jobs' = [jobs EXCEPT ![j] = b] /\ table' \in Seq(Row) /\ Len(table') >= Len(table)
      BY <1>t, <3>1, <3>2 DEF b
    <3>6. QED
      BY <2>l, <3>1, <3>3, <3>4, <3>5
  <2>7. CASE LoadRow(j)
    <3> DEFINE l == Tail(jobs[j].lines)
               h == Head(jobs[j].lines)
               p == jobs[j].skips
    <3>1. /\ JobStep(j, "load", "loading") /\ UNCHANGED <<file, crashed>>
          /\ UNCHANGED table \/ AppendPacket(h)
      BY <2>7 DEF LoadRow
    <3>2. /\ h \in Row /\ l \in Seq(Row)
          /\ jobs' = [jobs EXCEPT ![j] = Moved(j, "loading", l, jobs[j].at, p)]
      BY <1>w, <2>7, JobGoesOn
    <3>3. jobs[j].kind = "load" /\ jobs[j].at \in Nat /\ p \in BOOLEAN /\ ~crashed
      BY <1>k, <2>j, <3>1
    <3> HIDE DEF l, h, p
    <3> DEFINE b == Moved(j, "loading", l, jobs[j].at, p)
    <3>4. b.kind = "load"
      BY <1>t, <1>k, <1>w, <3>2, <3>3, MovedJob
    <3> HIDE DEF b
    <3>5. /\ table' \in Seq(Row) /\ Len(table') >= Len(table)
          /\ \A i \in 1..Len(table) : table'[i] = table[i]
      BY <1>t, <3>1, <3>2, AppendType
    <3>6. jobs' = [jobs EXCEPT ![j] = b]
      BY <3>2 DEF b
    <3>7. QED
      BY <2>l, <3>1, <3>3, <3>4, <3>5, <3>6
  <2>8. CASE EndLoad(j)
    <3>1. /\ JobStep(j, "load", "loading") /\ UNCHANGED <<table, file, crashed>>
          /\ jobs' = [jobs EXCEPT ![j] = None]
      BY <2>8 DEF EndLoad
    <3>2. jobs[j].kind = "load" /\ ~crashed
      BY <1>k, <2>j, <3>1
    <3>3. None.kind # "save" /\ table' \in Seq(Row) /\ Len(table') >= Len(table)
      BY <1>t, <1>k, <3>1
    <3>4. QED
      BY <2>l, <3>1, <3>2, <3>3
  <2>9. QED
    BY <1>w, <2>1, <2>2, <2>3, <2>4, <2>5, <2>6, <2>7, <2>8 DEF Work
<1>u. CASE UNCHANGED vars
  BY <1>u DEF vars, SaveInv, GrowthInv, SavesFollow, ClearSave, OnlyGrown, Follows,
              FileFollows, RowsRead, CrashNeedsShrunkTable, PastEnd
<1>q. QED
  BY <1>1, <1>2, <1>3, <1>4, <1>5, <1>6, <1>7, <1>8, <1>9, <1>w, <1>u
     DEF Next, User, Discard

\* A save walks past the end of the table only if the table became shorter since that
\* save was started: rows captured, loaded or parted meanwhile, and other saves, never
\* make it fail (FileSave::writeTable, PacketTable::getPacket).
THEOREM CrashCorrect == Spec => []CrashNeedsShrunkTable
<1>1. Spec => [](TypeInv /\ SaveInv)
  BY TypeInit, TypeStep, SaveInit, SaveStep, PTL DEF Spec
<1>2. SaveInv => CrashNeedsShrunkTable
  BY DEF SaveInv
<1>3. QED
  BY <1>1, <1>2, PTL

\* A save over a table that only grew, its file truncated by no later save, leaves a
\* file that begins with the rows there were and holds only first rows of the table,
\* without holes: in however many pieces it, and older saves over the same file, write
\* (saveTextFile, FileSave::writeTable and writePacket).
THEOREM SavedCorrect == Spec => SavedFileHoldsRows
<1>1. ASSUME TypeInv, SaveInv, NEW j \in Running({"save"}), EndSave(j), jobs[j].open, jobs[j].clear
      PROVE  IsPrefix(file', table) /\ Len(file') >= jobs[j].rows
  <2>1. j \in JobId /\ ClearSave(j) /\ jobs[j].kind = "save"
    BY <1>1 DEF Running, ClearSave
  <2>2. Follows(j) /\ FileFollows(j)
    BY <1>1, <2>1 DEF SaveInv, SavesFollow, GrowthInv, OnlyGrown
  <2>3. /\ jobs[j].lines \in Seq(Row) /\ jobs[j].rows \in Nat /\ jobs[j].at \in Nat
        /\ RowsRead(j) \in Nat /\ RowsRead(j) = jobs[j].at + Len(jobs[j].lines)
    BY <1>1, <2>1, SaveFields
  <2>4. table \in Seq(Row) /\ Len(table) \in Nat
    BY <1>1 DEF TypeInv, Types
  <2>5. jobs[j].at + Len(jobs[j].lines) = Len(table)
    BY <1>1, <2>2, <2>3, <2>4 DEF Follows, EndSave
  <2> DEFINE rows == jobs[j].lines
  <2>6. /\ rows \in Seq(Row) /\ Flush(j, rows) /\ jobs[j].at + Len(rows) = Len(table)
        /\ \A i \in 1..Len(rows) : rows[i] = table[jobs[j].at + i]
    BY <1>1, <2>2, <2>3, <2>5 DEF Follows, EndSave
  <2>7. jobs[j].at + Len(rows) <= Len(table)
    BY <2>4, <2>6
  <2> HIDE DEF rows
  <2>8. /\ file' \in Seq(Row) /\ Len(file') <= Len(table)
        /\ jobs[j].at + Len(rows) <= Len(file')
        /\ \A i \in 1..(jobs[j].at + Len(rows)) : file'[i] = table[i]
    BY <1>1, <2>1, <2>2, <2>6, <2>7, FlushFollowsOwn
  <2>9. Len(file') = Len(table) /\ \A i \in 1..Len(table) : file'[i] = table[i]
    BY <2>4, <2>6, <2>8
  <2>10. file' = table
    BY <2>4, <2>8, <2>9
  <2>11. jobs[j].rows <= Len(table)
    BY <2>2 DEF Follows
  <2>12. QED
    BY <2>4, <2>10, <2>11 DEF IsPrefix
<1>2. Spec => [](TypeInv /\ SaveInv)
  BY TypeInit, TypeStep, SaveInit, SaveStep, PTL DEF Spec
<1>3. TypeInv /\ SaveInv /\ [Next]_vars =>
        [\A j \in Running({"save"}) : EndSave(j) /\ jobs[j].open /\ jobs[j].clear =>
           IsPrefix(file', table) /\ Len(file') >= jobs[j].rows]_vars
  BY <1>1
<1>4. QED
  BY <1>2, <1>3, PTL DEF Spec, SavedFileHoldsRows

-----------------------------------------------------------------------------
(* Loads.                                                                  *)

Piece == Nat \X Messages

\* The pieces of a row.
LEMMA PiecesOfRow ==
  ASSUME NEW r \in Row
  PROVE  PiecesOf(r) \in Seq(Piece) /\ (~HasData(r) => PiecesOf(r) = <<>>)
<1>1. r.time \in Nat /\ r.data \in Seq(Messages)
  BY DEF Row
<1>2. \A k \in 1..Len(r.data) : <<r.time, r.data[k]>> \in Piece
  BY <1>1 DEF Piece
<1>3. PiecesOf(r) \in Seq(Piece)
  <2>1. Len(r.data) \in Nat
    BY <1>1
  <2>2. QED
    BY <1>2, <2>1, IsASeq DEF PiecesOf
<1>4. ASSUME ~HasData(r) PROVE PiecesOf(r) = <<>>
  <2>1. Len(r.data) = 0
    BY <1>1, <1>4 DEF HasData
  <2>2. Len(PiecesOf(r)) = 0
    BY <2>1 DEF PiecesOf
  <2>3. QED
    BY <1>3, <2>2
<1>5. QED
  BY <1>3, <1>4

\* No rows, no pieces.
LEMMA PiecesEmpty == Pieces(<<>>) = <<>>
<1>1. [i \in 1..Len(<<>>) |-> PiecesOf(<<>>[i])] = <<>>
  OBVIOUS
<1>2. QED
  BY <1>1, FlattenEmpty DEF Pieces

\* The pieces of a row appended come last.
LEMMA PiecesAppend ==
  ASSUME NEW s \in Seq(Row), NEW r \in Row
  PROVE  Pieces(Append(s, r)) = Pieces(s) \o PiecesOf(r) /\ Pieces(s) \in Seq(Piece)
<1> DEFINE m == [i \in 1..Len(s) |-> PiecesOf(s[i])]
           t == Append(s, r)
           n == [i \in 1..Len(t) |-> PiecesOf(t[i])]
<1>1. Len(s) \in Nat /\ \A i \in 1..Len(s) : s[i] \in Row
  OBVIOUS
<1>2. m \in Seq(Seq(Piece)) /\ Len(m) = Len(s)
  BY <1>1, PiecesOfRow, IsASeq
<1>3. PiecesOf(r) \in Seq(Piece)
  BY PiecesOfRow
<1>4. /\ Len(t) = Len(s) + 1 /\ t[Len(s) + 1] = r
      /\ \A i \in 1..Len(s) : t[i] = s[i]
  OBVIOUS
<1> HIDE DEF t
<1>5. n = Append(m, PiecesOf(r))
  <2> DEFINE a == Append(m, PiecesOf(r))
  <2>1. /\ a \in Seq(Seq(Piece)) /\ Len(a) = Len(s) + 1 /\ a[Len(s) + 1] = PiecesOf(r)
        /\ \A i \in 1..Len(s) : a[i] = m[i]
    BY <1>2, <1>3
  <2>2. \A i \in 1..(Len(s) + 1) : i \in 1..Len(s) \/ i = Len(s) + 1
    BY <1>1
  <2> HIDE DEF a
  <2>3. \A i \in 1..(Len(s) + 1) : n[i] = a[i]
    BY <1>1, <1>4, <2>1, <2>2
  <2>4. n = [i \in 1..(Len(s) + 1) |-> n[i]] /\ a = [i \in 1..(Len(s) + 1) |-> a[i]]
    BY <1>4, <2>1
  <2>5. n = a
    BY <2>3, <2>4
  <2>6. QED
    BY <2>5 DEF a
<1> HIDE DEF m, n
<1>6. FlattenSeq(n) = FlattenSeq(m) \o PiecesOf(r) /\ FlattenSeq(m) \in Seq(Piece)
  BY <1>2, <1>3, <1>5, FlattenAppend, FlattenType
<1>7. QED
  BY <1>6 DEF m, n, t, Pieces

\* A sequence is its first element and the rest.
LEMMA HeadThenRest ==
  ASSUME NEW S, NEW s \in Seq(S), NEW a \in Seq(S), NEW b \in Seq(S), Len(s) > 0,
         Len(a) = 1, Len(b) = Len(s) - 1, a[1] = s[1],
         \A k \in 1..(Len(s) - 1) : b[k] = s[k + 1]
  PROVE  s = a \o b
<1>1. a \o b \in Seq(S) /\ Len(a \o b) = Len(s) /\ Len(s) \in Nat
  <2>1. Len(s) \in Nat /\ Len(a) \in Nat /\ Len(b) \in Nat
    OBVIOUS
  <2>2. a \o b \in Seq(S) /\ Len(a \o b) = Len(a) + Len(b)
    BY ConcatProperties, Zenon
  <2>3. Len(a) + Len(b) = Len(s)
    BY <2>1
  <2>4. QED
    BY <2>1, <2>2, <2>3
<1>2. ASSUME NEW k \in 1..Len(s) PROVE (a \o b)[k] = s[k]
  <2>1. (a \o b)[k] = IF k <= Len(a) THEN a[k] ELSE b[k - Len(a)]
    <3>1. k \in 1..(Len(a) + Len(b))
      BY <1>2
    <3>2. QED
      BY <3>1, ConcatProperties, Zenon
  <2>2. k \in Nat /\ k >= 1 /\ k <= Len(s) /\ Len(s) \in Nat
    BY <1>2
  <2>3. CASE k = 1
    BY <2>1, <2>3
  <2>4. CASE k # 1
    <3>1. k - 1 \in 1..(Len(s) - 1) /\ k - 1 + 1 = k /\ ~(k <= 1)
      BY <2>2, <2>4
    <3>2. QED
      BY <2>1, <3>1
  <2>5. QED
    BY <2>3, <2>4
<1>3. QED
  BY <1>1, <1>2

\* Parting a row parts its pieces.
LEMMA PiecesParted ==
  ASSUME NEW s \in Seq(Row), NEW r \in Row
  PROVE  Pieces(s \o Preprocess(r)) = Pieces(s) \o PiecesOf(r)
<1>1. CASE Len(r.data) > 1 /\ Head(r.data) = "rdm"
  <2> DEFINE first == [r EXCEPT !.data = <<Head(r.data)>>]
             others == [r EXCEPT !.data = Tail(r.data)]
  <2>1. r.time \in Nat /\ r.data \in Seq(Messages)
    BY DEF Row
  <2>2. Preprocess(r) = <<first, others>>
    BY <1>1 DEF Preprocess
  <2>3. first \in Row /\ others \in Row
    <3>1. <<first, others>> \in Seq(Row)
      BY <2>2, PreprocessType
    <3> HIDE DEF first, others
    <3>2. <<first, others>>[1] \in Row /\ <<first, others>>[2] \in Row
      BY <3>1
    <3>3. QED
      BY <3>2
  <2>4. first.time = r.time /\ first.data = <<r.data[1]>>
    BY <1>1, <2>1 DEF Row
  <2>5. /\ others.time = r.time /\ Len(others.data) = Len(r.data) - 1
        /\ \A k \in 1..(Len(r.data) - 1) : others.data[k] = r.data[k + 1]
    <3>1. others.time = r.time /\ others.data = Tail(r.data)
      BY DEF Row
    <3>2. QED
      BY <1>1, <2>1, <3>1
  <2> HIDE DEF first, others
  <2>6. PiecesOf(r) = PiecesOf(first) \o PiecesOf(others)
    <3>1. PiecesOf(first) = <<<<r.time, r.data[1]>>>>
      BY <2>4 DEF PiecesOf
    <3>2. PiecesOf(others) = [k \in 1..(Len(r.data) - 1) |-> <<r.time, r.data[k + 1]>>]
      BY <2>5 DEF PiecesOf
    <3>3. PiecesOf(r) = [k \in 1..Len(r.data) |-> <<r.time, r.data[k]>>]
      BY DEF PiecesOf
    <3>4. /\ PiecesOf(first) \in Seq(Piece) /\ PiecesOf(others) \in Seq(Piece)
          /\ PiecesOf(r) \in Seq(Piece)
      BY <2>3, PiecesOfRow
    <3>5. Len(r.data) \in Nat /\ Len(r.data) > 1
      BY <1>1, <2>1
    <3>6. /\ Len(PiecesOf(first)) = 1 /\ Len(PiecesOf(others)) = Len(r.data) - 1
          /\ Len(PiecesOf(r)) = Len(r.data)
      BY <3>1, <3>2, <3>3, <3>5
    <3>7. PiecesOf(first)[1] = PiecesOf(r)[1]
      BY <3>1, <3>3, <3>5
    <3>8. \A k \in 1..(Len(PiecesOf(r)) - 1) : PiecesOf(others)[k] = PiecesOf(r)[k + 1]
      BY <3>2, <3>3, <3>5, <3>6
    <3>9. Len(PiecesOf(r)) > 0 /\ Len(PiecesOf(others)) = Len(PiecesOf(r)) - 1
      BY <3>5, <3>6
    <3>10. QED
      BY <3>4, <3>6, <3>7, <3>8, <3>9, HeadThenRest
  <2>7. s \o <<first, others>> = Append(Append(s, first), others) /\ Append(s, first) \in Seq(Row)
    BY <2>3
  <2>8. /\ Pieces(Append(s, first)) = Pieces(s) \o PiecesOf(first) /\ Pieces(s) \in Seq(Piece)
        /\ Pieces(Append(Append(s, first), others))
             = Pieces(Append(s, first)) \o PiecesOf(others)
    BY <2>3, <2>7, PiecesAppend
  <2>9. PiecesOf(first) \in Seq(Piece) /\ PiecesOf(others) \in Seq(Piece)
    BY <2>3, PiecesOfRow
  <2>10. (Pieces(s) \o PiecesOf(first)) \o PiecesOf(others)
           = Pieces(s) \o (PiecesOf(first) \o PiecesOf(others))
    BY <2>8, <2>9
  <2>11. QED
    BY <2>2, <2>6, <2>7, <2>8, <2>10
<1>2. CASE ~(Len(r.data) > 1 /\ Head(r.data) = "rdm")
  <2>1. Preprocess(r) = <<r>>
    BY <1>2 DEF Preprocess
  <2>2. s \o <<r>> = Append(s, r)
    OBVIOUS
  <2>3. QED
    BY <2>1, <2>2, PiecesAppend
<1>3. QED
  BY <1>1, <1>2

\* A packet appended adds its pieces, whether a dissector parts it or not.
LEMMA PacketPieces ==
  ASSUME table \in Seq(Row), NEW r \in Row, AppendPacket(r)
  PROVE  Pieces(table') = Pieces(table) \o PiecesOf(r)
<1>1. table \o <<r>> = Append(table, r)
  OBVIOUS
<1>2. Pieces(table \o <<r>>) = Pieces(table) \o PiecesOf(r)
  BY <1>1, PiecesAppend
<1>3. QED
  BY <1>2, PiecesParted DEF AppendPacket

ClearLoad(j) == jobs[j].kind = "load" /\ jobs[j].clear

\* A clear load runs alone.
Alone(j) == \A k \in JobId : jobs[k].kind \in Kinds => k = j

\* What it has loaded are the pieces of the first k rows of the file, and the others
\* are in its lines; a file with holes reads as something else.
Loaded(j) ==
  /\ jobs[j].state = "queued" => table = <<>>
  /\ jobs[j].state = "loading" /\ jobs[j].open /\ Intact =>
       \E k \in 0..Len(file) :
         /\ jobs[j].lines = SubSeq(file, k + 1, Len(file))
         /\ Pieces(table) = Pieces(SubSeq(file, 1, k))

LoadInv == \A j \in JobId : ClearLoad(j) => Alone(j) /\ Loaded(j)

\* At first there is no load.
LEMMA LoadInit == Init => LoadInv
  BY DEF Init, LoadInv, ClearLoad, None

\* With nothing changed that it speaks of, LoadInv goes on.
LEMMA LoadSame ==
  ASSUME LoadInv, UNCHANGED <<table, file, jobs>>
  PROVE  LoadInv'
  BY DEF LoadInv, ClearLoad, Alone, Loaded, Intact

\* The first row still to load, and what is loaded with it.
LEMMA NextLine ==
  ASSUME file \in Seq(Row), NEW k \in 0..Len(file), NEW lines, lines # <<>>,
         lines = SubSeq(file, k + 1, Len(file))
  PROVE  /\ k + 1 \in 0..Len(file)
         /\ Head(lines) = file[k + 1] /\ file[k + 1] \in Row
         /\ Tail(lines) = SubSeq(file, k + 2, Len(file))
         /\ SubSeq(file, 1, k) \in Seq(Row)
         /\ SubSeq(file, 1, k + 1) = Append(SubSeq(file, 1, k), file[k + 1])
<1>1. Len(file) \in Nat /\ k \in Nat
  OBVIOUS
<1>2. k + 1 \in 1..Len(file)
  <2>1. CASE k = Len(file)
    <3>1. SubSeq(file, k + 1, Len(file)) = <<>>
      BY <1>1, <2>1
    <3>2. QED
      BY <3>1
  <2>2. QED
    BY <1>1, <2>1
<1>3. Head(lines) = file[k + 1] /\ file[k + 1] \in Row
  BY <1>1, <1>2
<1>4. Tail(lines) = SubSeq(file, k + 2, Len(file))
  BY <1>1, <1>2
<1>5. SubSeq(file, 1, k) \in Seq(Row)
  BY <1>1
<1>6. SubSeq(file, 1, k + 1) = Append(SubSeq(file, 1, k), file[k + 1])
  BY <1>1, <1>2
<1>7. QED
  BY <1>2, <1>3, <1>4, <1>5, <1>6

\* Every step keeps LoadInv.
LEMMA LoadStep == TypeInv /\ LoadInv /\ [Next]_vars => LoadInv'
<1> USE ConstantsAssumption
<1> SUFFICES ASSUME TypeInv, LoadInv, [Next]_vars PROVE LoadInv'
  OBVIOUS
<1>t. /\ jobs \in [JobId -> Job \cup {None}] /\ table \in Seq(Row) /\ file \in Seq(Row)
  BY DEF TypeInv, Types
<1>k. /\ "save" \in Kinds /\ "load" \in Kinds /\ None.kind = "none" /\ "none" \notin Kinds
      /\ {"load"} \in SUBSET Kinds /\ Kinds \in SUBSET Kinds
  BY DEF Kinds, None
<1>n. ASSUME \A j \in JobId : ~ClearLoad(j)' PROVE LoadInv'
  BY <1>n DEF LoadInv
\* Steps that leave no load clear.
<1>d. ASSUME Marked(jobs'), \A j \in JobId : jobs[j].kind = "load" => ~jobs'[j].clear
      PROVE  LoadInv'
  <2>1. \A j \in JobId : ~ClearLoad(j)'
    BY <1>t, <1>d, MarkedFields DEF ClearLoad
  <2>2. QED
    BY <1>n, <2>1
<1>s. ASSUME jobs' = Shrink(jobs) PROVE LoadInv'
  BY <1>t, <1>k, <1>s, <1>d, Shrunk
<1>1. ASSUME NEW d \in Captures, Capture(d) PROVE LoadInv'
  <2>1. jobs' = Disturb(jobs, {"load"})
    BY <1>1 DEF Capture
  <2>2. Marked(jobs') /\ \A j \in JobId : jobs[j].kind = "load" => ~jobs'[j].clear
    BY <1>t, <1>k, <2>1, Disturbed
  <2>3. QED
    BY <1>d, <2>2
<1>2. CASE ClearTable
  BY <1>2, <1>s DEF ClearTable
<1>3. CASE DiscardDmx
  BY <1>3, LoadSame DEF DiscardDmx
<1>4. CASE ToggleDissector
  BY <1>4, LoadSame DEF ToggleDissector
<1>5. ASSUME NEW open \in BOOLEAN, PressSave(open) PROVE LoadInv'
  <2> DEFINE clear == \A j \in Running({"save"}) : ~jobs[j].shrunk
             kinds == IF open THEN Kinds ELSE {"load"}
             js == Disturb(jobs, kinds)
  <2>p. PICK new : new = started'
    OBVIOUS
  <2>0. clear \in BOOLEAN /\ kinds \in SUBSET Kinds /\ "load" \in kinds
    BY <1>k
  <2>f. /\ UNCHANGED <<signals, cursor>> /\ table' \in Seq(Row)
        /\ StartJob(js, "save", open, clear)
    BY <1>5, <1>t DEF PressSave
  <2> HIDE DEF clear, kinds
  <2>1. Marked(js) /\ \A j \in JobId : jobs[j].kind = "load" => ~js[j].clear
    BY <1>t, <1>k, <2>0, Disturbed
  <2> HIDE DEF js
  <2>2. /\ new \in JobId /\ jobs'[new].kind = "save"
        /\ \A j \in JobId \ {new} : jobs'[j] = js[j]
    <3>1. /\ new \in JobId
          /\ jobs'[new] = [kind |-> "save", state |-> "queued", open |-> open, lines |-> <<>>,
                           at |-> 0, skips |-> FALSE, rows |-> Len(table'), shrunk |-> FALSE,
                           clear |-> clear]
          /\ \A j \in JobId \ {new} : jobs'[j] = js[j]
      BY <1>k, <2>0, <2>1, <2>f, <2>p, StartKeeps
    <3>2. QED
      BY <3>1
  <2>3. ASSUME NEW j \in JobId, ClearLoad(j)' PROVE FALSE
    <3>1. jobs'[j].kind = "load" /\ jobs'[j].clear
      BY <2>3 DEF ClearLoad
    <3>2. j # new /\ jobs'[j] = js[j]
      BY <2>2, <2>3, <3>1
    <3>3. jobs[j].kind = "load"
      BY <1>t, <2>1, <2>3, <3>1, <3>2, MarkedFields
    <3>4. QED
      BY <2>1, <2>3, <3>1, <3>2, <3>3
  <2>4. QED
    BY <1>n, <2>3
<1>6. ASSUME NEW open \in BOOLEAN, PressOpen(open) PROVE LoadInv'
  <2> DEFINE clear == Running(Kinds) = {}
             js == Shrink(jobs)
  <2>p. PICK new : new = started'
    OBVIOUS
  <2>f. /\ clear \in BOOLEAN /\ UNCHANGED <<signals, cursor>> /\ table' \in Seq(Row)
        /\ table' = <<>> /\ StartJob(js, "load", open, clear)
    BY <1>6 DEF PressOpen
  <2>c. clear => \A k \in JobId : jobs[k].kind \notin Kinds
    BY DEF Running
  <2> HIDE DEF clear
  <2>1. Marked(js) /\ \A j \in JobId : jobs[j].kind = "load" => ~js[j].clear
    BY <1>t, <1>k, Shrunk
  <2> HIDE DEF js
  <2>2. /\ new \in JobId /\ jobs'[new].kind = "load" /\ jobs'[new].state = "queued"
        /\ jobs'[new].clear = clear
        /\ \A j \in JobId \ {new} : jobs'[j] = js[j]
    <3>1. /\ new \in JobId
          /\ jobs'[new] = [kind |-> "load", state |-> "queued", open |-> open, lines |-> <<>>,
                           at |-> 0, skips |-> FALSE, rows |-> Len(table'), shrunk |-> FALSE,
                           clear |-> clear]
          /\ \A j \in JobId \ {new} : jobs'[j] = js[j]
      BY <1>k, <2>1, <2>f, <2>p, StartKeeps
    <3>2. QED
      BY <3>1
  <2>3. ASSUME NEW j \in JobId, ClearLoad(j)' PROVE Alone(j)' /\ Loaded(j)'
    <3>1. jobs'[j].kind = "load" /\ jobs'[j].clear
      BY <2>3 DEF ClearLoad
    <3>2. j = new
      <4> SUFFICES ASSUME j # new PROVE FALSE
        OBVIOUS
      <4>1. jobs'[j] = js[j]
        BY <2>2, <2>3
      <4>2. jobs[j].kind = "load"
        BY <1>t, <2>1, <2>3, <3>1, <4>1, MarkedFields
      <4>3. QED
        BY <2>1, <2>3, <3>1, <4>1, <4>2
    <3>3. \A k \in JobId : jobs[k].kind \notin Kinds
      BY <2>2, <2>c, <3>1, <3>2
    <3>4. Alone(j)'
      <4> SUFFICES ASSUME NEW k \in JobId, jobs'[k].kind \in Kinds, k # j PROVE FALSE
        BY DEF Alone
      <4>1. jobs'[k] = js[k]
        BY <2>2, <3>2
      <4>2. jobs[k].kind = jobs'[k].kind
        BY <1>t, <2>1, <4>1, MarkedFields
      <4>3. QED
        BY <3>3, <4>2
    <3>5. Loaded(j)'
      BY <2>2, <2>f, <3>2 DEF Loaded
    <3>6. QED
      BY <3>4, <3>5
  <2>4. QED
    BY <2>3 DEF LoadInv
<1>7. CASE DiscardRow
  BY <1>7, <1>s DEF DiscardRow
<1>8. CASE EndDiscard
  BY <1>8, LoadSame DEF EndDiscard, DiscardStep
<1>9. CASE DeliverSignal
  BY <1>9, LoadSame DEF DeliverSignal
<1>w. ASSUME NEW j \in JobId, Work(j) PROVE LoadInv'
  <2>j. ASSUME NEW kind \in Kinds, NEW state, JobStep(j, kind, state)
        PROVE  /\ jobs[j].kind = kind /\ jobs[j] \in Job /\ jobs[j].state = state
               /\ jobs[j].lines \in Seq(Row) /\ jobs[j].at \in Nat /\ jobs[j].skips \in BOOLEAN
    BY <1>w, <2>j, JobSteps
  <2>o. ASSUME jobs[j].kind \in Kinds, NEW b, jobs' = [jobs EXCEPT ![j] = b],
               b.kind = "load" /\ b.clear => jobs[j].kind = "load" /\ jobs[j].clear,
               b.kind = "load" /\ b.clear /\ ClearLoad(j) /\ Loaded(j) => Loaded(j)'
        PROVE  LoadInv'
    <3>1. jobs'[j] = b /\ \A k \in JobId \ {j} : jobs'[k] = jobs[k]
      BY <1>t, <1>w, <2>o
    <3>2. ASSUME NEW k \in JobId, ClearLoad(k)' PROVE Alone(k)' /\ Loaded(k)'
      <4>1. ClearLoad(k)
        <5>1. CASE k = j
          BY <2>o, <3>1, <3>2, <5>1 DEF ClearLoad
        <5>2. CASE k # j
          BY <3>1, <3>2, <5>2 DEF ClearLoad
        <5>3. QED
          BY <5>1, <5>2
      <4>2. Alone(k) /\ Loaded(k)
        BY <3>2, <4>1 DEF LoadInv
      <4>3. k = j
        BY <1>w, <2>o, <4>2 DEF Alone
      <4>4. Alone(k)'
        <5> SUFFICES ASSUME NEW i \in JobId, jobs'[i].kind \in Kinds, i # j PROVE FALSE
          BY <4>3 DEF Alone
        <5>1. jobs[i].kind \in Kinds
          BY <3>1
        <5>2. QED
          BY <4>2, <4>3, <5>1 DEF Alone
      <4>5. Loaded(k)'
        BY <2>o, <3>1, <3>2, <4>1, <4>2, <4>3 DEF ClearLoad
      <4>6. QED
        BY <4>4, <4>5
    <3>3. QED
      BY <3>2 DEF LoadInv
  <2>s. ASSUME jobs[j].kind = "save", NEW s \in {"checking", "reading"}, NEW l \in Seq(Row),
               NEW a \in Nat, jobs[j].skips \in BOOLEAN,
               jobs' = [jobs EXCEPT ![j] = Moved(j, s, l, a, jobs[j].skips)]
        PROVE  LoadInv'
    <3> DEFINE p == jobs[j].skips
               b == Moved(j, s, l, a, p)
    <3>1. s \in {"queued", "checking", "reading", "loading"} /\ p \in BOOLEAN
          /\ jobs' = [jobs EXCEPT ![j] = b]
      BY <2>s
    <3> HIDE DEF p
    <3>2. b.kind = "save"
      BY <1>t, <1>k, <1>w, <2>s, <3>1, MovedJob
    <3> HIDE DEF b
    <3>3. QED
      BY <1>k, <2>o, <2>s, <3>1, <3>2
  <2>1. CASE StartSave(j)
    <3>1. JobStep(j, "save", "queued")
      BY <2>1 DEF StartSave
    <3>2. jobs' = [jobs EXCEPT ![j] = Moved(j, "checking", jobs[j].lines, jobs[j].at, jobs[j].skips)]
      BY <1>w, <2>1, JobGoesOn
    <3>3. /\ jobs[j].kind = "save" /\ jobs[j].lines \in Seq(Row) /\ jobs[j].at \in Nat
          /\ jobs[j].skips \in BOOLEAN
      BY <1>k, <2>j, <3>1
    <3>4. QED
      BY <2>s, <3>2, <3>3
  <2>2. CASE CheckRow(j)
    <3>1. JobStep(j, "save", "checking")
      BY <2>2 DEF CheckRow
    <3>2. jobs' = [jobs EXCEPT ![j] = Moved(j, "reading", jobs[j].lines, jobs[j].at, jobs[j].skips)]
      BY <1>w, <2>2, JobGoesOn
    <3>3. /\ jobs[j].kind = "save" /\ jobs[j].lines \in Seq(Row) /\ jobs[j].at \in Nat
          /\ jobs[j].skips \in BOOLEAN
      BY <1>k, <2>j, <3>1
    <3>4. QED
      BY <2>s, <3>2, <3>3
  <2>3. CASE ReadRow(j)
    <3>1. JobStep(j, "save", "reading")
      BY <2>3 DEF ReadRow
    <3>2. PICK l \in Seq(Row), a \in Nat :
            jobs' = [jobs EXCEPT ![j] = Moved(j, "checking", l, a, jobs[j].skips)]
      BY <1>w, <2>3, RowRead
    <3>3. jobs[j].kind = "save" /\ jobs[j].skips \in BOOLEAN
      BY <1>k, <2>j, <3>1
    <3>4. QED
      BY <2>s, <3>2, <3>3
  <2>4. CASE ReadRowGone(j)
    BY <2>4, LoadSame DEF ReadRowGone
  <2>5. CASE EndSave(j)
    <3>1. JobStep(j, "save", "checking") /\ jobs' = [jobs EXCEPT ![j] = None]
      BY <2>5 DEF EndSave
    <3>2. QED
      BY <1>k, <2>j, <2>o, <3>1
  <2>6. CASE StartLoad(j)
    <3>1. JobStep(j, "load", "queued") /\ UNCHANGED <<table, file>>
      BY <2>6 DEF StartLoad
    <3>2. /\ jobs[j] \in Job /\ jobs[j].kind = "load" /\ jobs[j].state = "queued"
          /\ jobs[j].at \in Nat
      BY <1>k, <2>j, <3>1
    <3>3. PICK l \in Seq(Row), p \in BOOLEAN :
            /\ l = IF jobs[j].open THEN AsRead(file) ELSE <<>>
            /\ jobs' = [jobs EXCEPT ![j] = Moved(j, "loading", l, jobs[j].at, p)]
      BY <1>w, <2>6, JobGoesOn
    <3> DEFINE b == Moved(j, "loading", l, jobs[j].at, p)
    <3>4. /\ b.kind = "load" /\ b.clear = jobs[j].clear /\ b.state = "loading" /\ b.lines = l
          /\ b.open = jobs[j].open
      BY <1>t, <1>k, <1>w, <3>2, MovedJob
    <3>5. jobs' = [jobs EXCEPT ![j] = b]
      BY <3>3
    <3> HIDE DEF b
    <3>6. jobs'[j] = b
      BY <1>t, <1>w, <3>5
    <3>7. ASSUME Loaded(j) PROVE Loaded(j)'
      <4>1. table = <<>>
        BY <3>2, <3>7 DEF Loaded
      <4>2. ASSUME jobs[j].open, Intact
            PROVE  \E k \in 0..Len(file) : /\ l = SubSeq(file, k + 1, Len(file))
                                           /\ Pieces(table) = Pieces(SubSeq(file, 1, k))
        <5>1. l = file /\ Len(file) \in Nat
          BY <1>t, <3>3, <4>2, AsReadType DEF Intact
        <5>2. SubSeq(file, 0 + 1, Len(file)) = file /\ SubSeq(file, 1, 0) = <<>>
          BY <1>t
        <5>3. 0 \in 0..Len(file)
          BY <5>1
        <5>4. QED
          BY <4>1, <5>1, <5>2, <5>3
      <4>3. Intact' <=> Intact
        BY <3>1 DEF Intact
      <4>4. QED
        BY <3>1, <3>4, <3>6, <4>2, <4>3 DEF Loaded
    <3>8. QED
      BY <1>k, <2>o, <3>2, <3>4, <3>5, <3>7
  <2>7. CASE LoadRow(j)
    <3> DEFINE l == Tail(jobs[j].lines)
               h == Head(jobs[j].lines)
               p == jobs[j].skips
               b == Moved(j, "loading", l, jobs[j].at, p)
    <3>1. /\ JobStep(j, "load", "loading") /\ UNCHANGED file /\ jobs[j].lines # <<>>
          /\ IF p /\ ~HasData(h) THEN UNCHANGED table ELSE AppendPacket(h)
      BY <2>7 DEF LoadRow
    <3>2. /\ jobs[j] \in Job /\ jobs[j].kind = "load" /\ jobs[j].state = "loading"
          /\ p \in BOOLEAN /\ jobs[j].lines \in Seq(Row) /\ jobs[j].at \in Nat
      BY <1>k, <2>j, <3>1
    <3>3. l \in Seq(Row) /\ h \in Row /\ jobs' = [jobs EXCEPT ![j] = b]
      BY <1>w, <2>7, JobGoesOn
    <3> HIDE DEF l, h, p
    <3>4. /\ b.kind = "load" /\ b.clear = jobs[j].clear /\ b.state = "loading" /\ b.lines = l
          /\ b.open = jobs[j].open
      BY <1>t, <1>k, <1>w, <3>2, <3>3, MovedJob
    <3> HIDE DEF b
    <3>5. jobs'[j] = b
      BY <1>t, <1>w, <3>3
    <3>6. Pieces(table') = Pieces(table) \o PiecesOf(h)
      <4>1. CASE p /\ ~HasData(h)
        <5>1. PiecesOf(h) = <<>> /\ Pieces(table) \in Seq(Piece)
          BY <1>t, <3>3, <4>1, PiecesOfRow, PiecesAppend
        <5>2. Pieces(table) \o <<>> = Pieces(table)
          BY <5>1, ConcatEmptySeq
        <5>3. QED
          BY <3>1, <4>1, <5>1, <5>2
      <4>2. CASE ~(p /\ ~HasData(h))
        BY <1>t, <3>1, <3>3, <4>2, PacketPieces
      <4>3. QED
        BY <4>1, <4>2
    <3>7. ASSUME Loaded(j) PROVE Loaded(j)'
      <4>1. ASSUME jobs[j].open, Intact
            PROVE  \E k \in 0..Len(file) : /\ l = SubSeq(file, k + 1, Len(file))
                                           /\ Pieces(table') = Pieces(SubSeq(file, 1, k))
        <5>1. PICK k \in 0..Len(file) : /\ jobs[j].lines = SubSeq(file, k + 1, Len(file))
                                        /\ Pieces(table) = Pieces(SubSeq(file, 1, k))
          BY <3>2, <3>7, <4>1 DEF Loaded
        <5>2. /\ k + 1 \in 0..Len(file) /\ h = file[k + 1] /\ h \in Row
              /\ l = SubSeq(file, k + 2, Len(file)) /\ SubSeq(file, 1, k) \in Seq(Row)
              /\ SubSeq(file, 1, k + 1) = Append(SubSeq(file, 1, k), h)
          BY <1>t, <3>1, <5>1, NextLine DEF l, h
        <5>3. Pieces(SubSeq(file, 1, k + 1)) = Pieces(SubSeq(file, 1, k)) \o PiecesOf(h)
          BY <5>2, PiecesAppend
        <5>4. k + 1 + 1 = k + 2
          OBVIOUS
        <5>5. QED
          BY <3>6, <5>1, <5>2, <5>3, <5>4
      <4>2. Intact' <=> Intact
        BY <3>1 DEF Intact
      <4>3. QED
        BY <3>1, <3>4, <3>5, <4>1, <4>2 DEF Loaded
    <3>8. QED
      BY <1>k, <2>o, <3>2, <3>3, <3>4, <3>7
  <2>8. CASE EndLoad(j)
    <3>1. JobStep(j, "load", "loading") /\ jobs' = [jobs EXCEPT ![j] = None]
      BY <2>8 DEF EndLoad
    <3>2. QED
      BY <1>k, <2>j, <2>o, <3>1
  <2>9. QED
    BY <1>w, <2>1, <2>2, <2>3, <2>4, <2>5, <2>6, <2>7, <2>8 DEF Work
<1>u. CASE UNCHANGED vars
  BY <1>u, LoadSame DEF vars
<1>q. QED
  BY <1>1, <1>2, <1>3, <1>4, <1>5, <1>6, <1>7, <1>8, <1>9, <1>w, <1>u
     DEF Next, User, Discard

\* A load that nothing has disturbed, of a file without holes, ends with the messages
\* of the file in the table, in order and with their times, whichever rows were parted
\* and whenever (loadOriginal, loadCompressed, appendPacket, preprocessPacket).
THEOREM ReloadCorrect == Spec => ReloadGivesMessages
<1>1. ASSUME TypeInv, LoadInv, NEW j \in Running({"load"}), EndLoad(j), jobs[j].open, jobs[j].clear,
             Intact
      PROVE  Pieces(table) = Pieces(file)
  <2>1. j \in JobId /\ ClearLoad(j)
    BY <1>1 DEF Running, ClearLoad
  <2>2. jobs[j].state = "loading" /\ jobs[j].lines = <<>>
    BY <1>1 DEF EndLoad, JobStep
  <2>3. PICK k \in 0..Len(file) : /\ jobs[j].lines = SubSeq(file, k + 1, Len(file))
                                  /\ Pieces(table) = Pieces(SubSeq(file, 1, k))
    BY <1>1, <2>1, <2>2 DEF LoadInv, Loaded
  <2>4. file \in Seq(Row)
    BY <1>1 DEF TypeInv, Types
  <2>5. k = Len(file)
    <3>1. CASE k < Len(file)
      <4>1. Len(SubSeq(file, k + 1, Len(file))) = Len(file) - k
        BY <2>4, <3>1
      <4>2. QED
        BY <2>2, <2>3, <2>4, <3>1, <4>1
    <3>2. QED
      BY <2>4, <3>1
  <2>6. SubSeq(file, 1, Len(file)) = file
    BY <2>4
  <2>7. QED
    BY <2>3, <2>5, <2>6
<1>2. Spec => [](TypeInv /\ LoadInv)
  BY TypeInit, TypeStep, LoadInit, LoadStep, PTL DEF Spec
<1>3. TypeInv /\ LoadInv /\ [Next]_vars =>
        [\A j \in Running({"load"}) : EndLoad(j) /\ jobs[j].open /\ jobs[j].clear /\ Intact =>
           Pieces(table) = Pieces(file)]_vars
  BY <1>1
<1>4. QED
  BY <1>2, <1>3, PTL DEF Spec, ReloadGivesMessages
=============================================================================
