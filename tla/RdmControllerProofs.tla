------------------------- MODULE RdmControllerProofs -------------------------
(***************************************************************************)
(* Safety of the RDM controller, for every set of devices and custom PIDs, *)
(* every number of calls and faults and every size of the driver's queues. *)
(***************************************************************************)
EXTENDS RdmController, WellFoundedInduction, TLAPS

\* The states that read answers and clear the queue in a loop of its own.
ReadStates == {"GET_MANUF_LABEL", "GET_SUPPORTED_PARAMETERS", "GET_SENSOR_DEFINITION"}

\* What TypeOK needs to be inductive: the loop between reading and clearing is
\* only in the states that have one.
TypeInv == TypeOK /\ (clearing => state \in ReadStates)

\* What is sent to the driver is a list of commands.
LEMMA SendTypes ==
  ASSUME MaxQueue \in Nat, commands \in Seq(Commands), NEW cs \in Seq(Commands), Send(cs)
  PROVE  commands' \in Seq(Commands)
<1>1. commands \o cs \in Seq(Commands)
  OBVIOUS
<1>2. ASSUME NEW q \in Seq(Commands), NEW n \in 0..Len(q)
      PROVE  SubSeq(q, 1, n) \in Seq(Commands)
  OBVIOUS
<1> DEFINE q == commands \o cs
           n == IF Len(q) < MaxQueue THEN Len(q) ELSE MaxQueue
<1>3. n \in 0..Len(q)
  BY <1>1
<1>4. commands' = SubSeq(q, 1, n)
  BY DEF Send
<1>5. QED
  BY <1>1, <1>2, <1>3, <1>4

LEMMA SendToAllTypes ==
  ASSUME MaxQueue \in Nat, commands \in Seq(Commands), devices \in Seq(Device),
         NEW p \in Pid, SendToAll(p)
  PROVE  commands' \in Seq(Commands)
<1> DEFINE cs == [i \in DOMAIN devices |-> Request(p, devices[i])]
<1>1. \A i \in 1..Len(devices) : Request(p, devices[i]) \in Commands
  BY DEF Request, Commands
<1>2. cs = [i \in 1..Len(devices) |-> Request(p, devices[i])] /\ Len(devices) \in Nat
  OBVIOUS
<1>3. cs \in Seq(Commands)
  BY <1>1, <1>2
<1>4. QED
  BY <1>3, SendTypes DEF SendToAll

\* The loop that clears keeps every other response.
LEMMA ClearLoopTypes ==
  ASSUME NEW q \in Seq(Responses)
  PROVE  ClearLoop(q) \in Seq(Responses)
<1>1. Len(q) \div 2 \in Nat /\ \A k \in 1..(Len(q) \div 2) : 2 * k \in 1..Len(q)
  OBVIOUS
<1>2. \A k \in 1..(Len(q) \div 2) : q[2 * k] \in Responses
  BY <1>1
<1>3. QED
  BY <1>1, <1>2 DEF ClearLoop

\* What is stored for a parameter is a payload that was received, or none.
LEMMA StoreTypes ==
  ASSUME stores \in [StoredPids -> [Device -> Pid \cup {"none"}]],
         NEW p \in StoredPids, NEW rs \in SUBSET Responses, Store(p, rs)
  PROVE  stores' \in [StoredPids -> [Device -> Pid \cup {"none"}]]
<1> DEFINE new == [d \in Device |->
                     IF \E r \in rs : r.dev = d
                     THEN (CHOOSE r \in rs : r.dev = d).pid
                     ELSE stores[p][d]]
<1>1. \A d \in Device : new[d] \in Pid \cup {"none"}
  <2> TAKE d \in Device
  <2>1. CASE \E r \in rs : r.dev = d
    <3>1. (CHOOSE r \in rs : r.dev = d) \in rs
      BY <2>1
    <3>2. \A r \in Responses : r.pid \in Pid
      BY DEF Responses
    <3>3. QED
      BY <2>1, <3>1, <3>2
  <2>2. CASE ~ \E r \in rs : r.dev = d
    BY <2>2
  <2>3. QED
    BY <2>1, <2>2
<1>2. new \in [Device -> Pid \cup {"none"}]
  BY <1>1
<1>3. stores' = [stores EXCEPT ![p] = new]
  BY DEF Store
<1>4. QED
  BY <1>2, <1>3

\* Responses looked at by a read loop are responses.
LEMMA AcksTypes ==
  ASSUME NEW q \in Seq(Responses), NEW p
  PROVE  Acks(q, p) \in SUBSET Responses
<1>1. ToSet(q) \subseteq Responses
  BY DEF ToSet
<1>2. QED
  BY <1>1 DEF Acks

\* Of some positions in a queue one is the last.
LEMMA LastExists ==
  ASSUME NEW n \in Nat, NEW A \in SUBSET (1..n), A # {}
  PROVE  \E i \in A : \A j \in A : j <= i
<1> DEFINE T == {n - i : i \in A}
           R == {ss \in Nat \X Nat : ss[1] < ss[2]}
<1>1. T \subseteq Nat /\ T # {}
  <2>1. \A i \in A : n - i \in Nat
    OBVIOUS
  <2>2. \E i \in A : TRUE
    OBVIOUS
  <2>3. QED
    BY <2>1, <2>2
<1>w. IsWellFoundedOn(R, Nat)
  BY NatLessThanWellFounded, Zenon DEF OpToRel
<1>r. \A x, y \in Nat : y < x => <<y, x>> \in R
  OBVIOUS
<1> HIDE DEF R
<1>2. PICK x \in T : \A y \in T : ~(<<y, x>> \in R)
  BY <1>1, <1>w, WFMin, Zenon
<1>3. \A y \in T : ~(y < x)
  BY <1>1, <1>2, <1>r
<1>4. PICK i \in A : x = n - i
  BY <1>2
<1>5. \A j \in A : j <= i
  <2> TAKE j \in A
  <2>1. ~(n - j < n - i)
    BY <1>3, <1>4
  <2>2. QED
    BY <2>1
<1>6. QED
  BY <1>5

\* Removing one response leaves a queue.
LEMMA RemoveTypes ==
  ASSUME NEW q \in Seq(Responses), NEW i \in DOMAIN q
  PROVE  RemoveAt(q, i) \in Seq(Responses)
<1>1. SubSeq(q, 1, i - 1) \in Seq(Responses) /\ SubSeq(q, i + 1, Len(q)) \in Seq(Responses)
  OBVIOUS
<1>2. QED
  BY <1>1 DEF RemoveAt

\* The names of the parameters the code asks for.
LEMMA PidNames ==
  /\ StoredPids \subseteq Pid
  /\ {LABEL, PERS, MANUF, PARAMS, SENSORDEF, SENSORVAL} \subseteq StoredPids
  /\ DOMAIN Reads = ReadStates
  /\ \A s \in ReadStates : /\ s \in States /\ After[s] \in States
                           /\ Reads[s] \in StoredPids /\ Asks[s] \in StoredPids
BY DEF Pid, StoredPids, Reads, Asks, After, ReadStates, States

LEMMA TypeInvCorrect == Spec => []TypeInv
<1> USE ConstantsAssumption, PidNames
<1>c. MaxCalls \in Nat /\ MaxFaults \in Nat /\ MaxQueue \in Nat
  BY DEF ConstantsAssumption
<1>n. {"END_DISCOVERY", "GET_NAME", "GET_PERSONALITY_DESC", "IDLE"} \subseteq States
      /\ "GET_MANUF_LABEL" \in States
      /\ {"END_DISCOVERY", "GET_NAME", "GET_PERSONALITY_DESC", "IDLE"} \cap ReadStates = {}
  BY DEF States, ReadStates
<1>1. Init => TypeInv
  <2> SUFFICES ASSUME Init PROVE TypeInv
    OBVIOUS
  <2>1. stores \in [StoredPids -> [Device -> Pid \cup {"none"}]]
    BY DEF Init
  <2>2. state \in States /\ clearing = FALSE /\ customPid \in Pid \cup {"none"}
    BY <1>n DEF Init
  <2>3. /\ devices \in Seq(Device) /\ tree \in Seq(Device) /\ found \in Seq(Device)
        /\ commands \in Seq(Commands) /\ responses \in Seq(Responses)
    BY DEF Init
  <2>4. QED
    BY <2>1, <2>2, <2>3 DEF Init, TypeInv, TypeOK
<1>2. TypeInv /\ [Next]_vars => TypeInv'
  <2> SUFFICES ASSUME TypeInv, [Next]_vars PROVE TypeInv'
    OBVIOUS
  <2> USE DEF TypeInv, TypeOK
  <2>c. \A i \in Selectable : devices[i] \in Device
    BY DEF Selectable
  <2>r. \A p \in Pid, d \in Device : <<Request(p, d)>> \in Seq(Commands)
    BY DEF Request, Commands
  <2>q. ASSUME NEW p \in Pid, NEW i \in Selectable, Send(<<Request(p, devices[i])>>)
        PROVE  commands' \in Seq(Commands)
    BY <1>c, <2>q, <2>c, <2>r, SendTypes
  <2>1. CASE StartDiscovery
    BY <2>1, <1>n DEF StartDiscovery, Call, sensorVars, customVars
  <2>2. CASE FetchSensorValues
    <3>1. commands' \in Seq(Commands)
      BY <2>2, <2>q DEF FetchSensorValues
    <3>2. QED
      BY <2>2, <3>1 DEF FetchSensorValues, Call, customVars, countVars
  <2>3. ASSUME NEW p \in CustomPids, ExecuteCustomCommand(p) PROVE TypeInv'
    <3>1. p \in Pid
      BY DEF Pid
    <3>2. commands' \in Seq(Commands)
      BY <2>3, <2>q, <3>1 DEF ExecuteCustomCommand
    <3>3. QED
      BY <2>3, <3>1, <3>2 DEF ExecuteCustomCommand, Call, sensorVars, countVars
  <2>4. CASE EndDiscovery
    <3>1. devices' \in Seq(Device)
      BY <2>4 DEF EndDiscovery, Fire
    <3>2. QED
      BY <2>4, <3>1, <1>n DEF EndDiscovery, Fire, sensorVars, customVars
  <2>5. CASE GetName
    <3>1. commands' \in Seq(Commands)
      BY <2>5, <1>c, SendToAllTypes DEF GetName
    <3>2. QED
      BY <2>5, <3>1, <1>n DEF GetName, Fire, sensorVars, customVars
  <2>6. CASE GetPersonalityDesc
    <3>1. commands' \in Seq(Commands)
      BY <2>6, <1>c, SendToAllTypes DEF GetPersonalityDesc
    <3>2. {r \in PassedByClearLoop(responses) : r.ack} \in SUBSET Responses
      BY DEF PassedByClearLoop
    <3>3. stores' \in [StoredPids -> [Device -> Pid \cup {"none"}]]
      BY <2>6, <3>2, StoreTypes DEF GetPersonalityDesc
    <3>4. responses' \in Seq(Responses)
      BY <2>6, ClearLoopTypes DEF GetPersonalityDesc
    <3>5. QED
      BY <2>6, <3>1, <3>3, <3>4, <1>n DEF GetPersonalityDesc, Fire, sensorVars, customVars
  <2>7. ASSUME NEW s \in ReadStates, ReadAnswers(s) PROVE TypeInv'
    <3>1. stores' \in [StoredPids -> [Device -> Pid \cup {"none"}]]
      BY <2>7, StoreTypes, AcksTypes DEF ReadAnswers
    <3>2. QED
      BY <2>7, <3>1 DEF ReadAnswers, Fire, sensorVars, customVars
  <2>8. CASE ClearAndAsk
    <3>1. commands' \in Seq(Commands) /\ state' \in States
      BY <2>8, <1>c, SendToAllTypes DEF ClearAndAsk
    <3>2. responses' \in Seq(Responses)
      BY <2>8, ClearLoopTypes DEF ClearAndAsk
    <3>3. QED
      BY <2>8, <3>1, <3>2 DEF ClearAndAsk, sensorVars, customVars, countVars
  <2>9. CASE Finish
    <3>1. stores' \in [StoredPids -> [Device -> Pid \cup {"none"}]]
      BY <2>9, StoreTypes, AcksTypes DEF Finish
    <3>2. tree' \in Seq(Device) /\ discTimers' \in Nat /\ finishes' \in Nat
      BY <2>9 DEF Finish, Fire
    <3>3. QED
      BY <2>9, <3>1, <3>2 DEF Finish, Fire, sensorVars, customVars
  <2>10. CASE ReadSensorValues
    <3>1. stores' \in [StoredPids -> [Device -> Pid \cup {"none"}]]
      BY <2>10, StoreTypes, AcksTypes DEF ReadSensorValues
    <3>2. QED
      BY <2>10, <3>1 DEF ReadSensorValues, customVars, driverVars, countVars
  <2>11. CASE ReadCustomCommand
    <3>1. responses' \in Seq(Responses)
      <4>1. CASE Answers = {}
        BY <2>11, <4>1 DEF ReadCustomCommand
      <4>2. CASE Answers # {}
        <5> DEFINE last == CHOOSE i \in Answers : \A j \in Answers : j <= i
        <5>1. \E i \in Answers : \A j \in Answers : j <= i
          <6>1. Answers \subseteq 1..Len(responses) /\ Len(responses) \in Nat
            BY DEF Answers
          <6>2. QED
            BY <4>2, <6>1, LastExists
        <5>2. last \in DOMAIN responses
          BY <5>1 DEF Answers
        <5>3. responses' = RemoveAt(responses, last)
          BY <2>11, <4>2 DEF ReadCustomCommand
        <5>4. QED
          BY <5>2, <5>3, RemoveTypes
      <4>3. QED
        BY <4>1, <4>2
    <3>2. customTimers' \in Nat /\ runningCustom' \in BOOLEAN
      <4>1. customTimers > 0 /\ customTimers' = customTimers - 1 /\ runningCustom' = FALSE
        BY <2>11 DEF ReadCustomCommand
      <4>2. customTimers' \in Nat
        BY <4>1
      <4>3. QED
        BY <4>1, <4>2, Zenon
    <3>3. UNCHANGED <<state, devices, stores, clearing, discTimers, sensorTimers, customPid,
                      tree, found, commands, calls, faults, starts, finishes>>
      BY <2>11 DEF ReadCustomCommand, sensorVars, countVars
    <3>4. QED
      BY <3>1, <3>2, <3>3
  <2>12. CASE Deal
    <3>1. commands' \in Seq(Commands) /\ Head(commands) \in Commands
      BY <2>12 DEF Deal
    <3>2. \A ok \in BOOLEAN : [pid |-> Head(commands).pid, dev |-> Head(commands).dev, ack |-> ok]
                                \in Responses
      BY <3>1 DEF Commands, Responses
    <3>3. responses' \in Seq(Responses) /\ faults' \in Nat
      <4>1. ASSUME NEW ok \in BOOLEAN,
                   responses' = Append(responses, [pid |-> Head(commands).pid,
                                                   dev |-> Head(commands).dev, ack |-> ok])
            PROVE  responses' \in Seq(Responses)
        BY <4>1, <3>2
      <4>2. responses' \in Seq(Responses)
        BY <2>12, <4>1 DEF Deal
      <4>3. faults' = faults \/ faults' = faults + 1
        BY <2>12 DEF Deal
      <4>4. QED
        BY <4>2, <4>3
    <3>4. QED
      BY <2>12, <3>1, <3>3 DEF Deal, sensorVars, customVars, countVars
  <2>13. ASSUME NEW d \in Device, Discover(d) PROVE TypeInv'
    BY <2>13 DEF Discover, sensorVars, customVars, countVars
  <2>14. CASE UNCHANGED vars
    BY <2>14 DEF vars, sensorVars, customVars, driverVars, countVars
  <2>15. QED
    BY <2>1, <2>2, <2>3, <2>4, <2>5, <2>6, <2>7, <2>8, <2>9, <2>10, <2>11, <2>12, <2>13,
       <2>14 DEF Next, User, Advance, Driver
<1>3. QED
  BY <1>1, <1>2, PTL DEF Spec

\* Every variable keeps its type: in particular no single shot is counted
\* below none pending, and a removal loop never leaves the queue.
THEOREM TypeCorrect == Spec => []TypeOK
<1>1. TypeInv => TypeOK
  BY DEF TypeInv
<1>2. QED
  BY <1>1, TypeInvCorrect, PTL

-----------------------------------------------------------------------------
\* A custom command never outlives its timer and is never doubled, whatever
\* discoveries and refused calls it meets.
THEOREM CustomCommandCorrect == Spec => []CustomCommandHasTimer
<1>1. Init => CustomCommandHasTimer
  BY DEF Init, CustomCommandHasTimer
<1>2. TypeInv /\ CustomCommandHasTimer /\ [Next]_vars => CustomCommandHasTimer'
  <2> SUFFICES ASSUME TypeInv, CustomCommandHasTimer, [Next]_vars
               PROVE  CustomCommandHasTimer'
    OBVIOUS
  <2>t. customTimers \in Nat /\ runningCustom \in BOOLEAN
    BY DEF TypeInv, TypeOK
  <2> USE DEF CustomCommandHasTimer
  <2>s. ASSUME UNCHANGED customVars PROVE CustomCommandHasTimer'
    BY <2>s DEF customVars
  <2>1. CASE StartDiscovery \/ FetchSensorValues
    BY <2>1, <2>s DEF StartDiscovery, FetchSensorValues
  <2>2. ASSUME NEW p \in CustomPids, ExecuteCustomCommand(p) PROVE CustomCommandHasTimer'
    <3>1. ~runningCustom /\ runningCustom' = TRUE /\ customTimers' = customTimers + 1
      BY <2>2 DEF ExecuteCustomCommand
    <3>2. QED
      BY <3>1
  <2>3. CASE ReadCustomCommand
    <3>1. customTimers > 0 /\ runningCustom' = FALSE /\ customTimers' = customTimers - 1
      BY <2>3 DEF ReadCustomCommand
    <3>2. QED
      BY <3>1, <2>t
  <2>4. CASE Advance
    BY <2>4, <2>s DEF Advance, EndDiscovery, GetName, GetPersonalityDesc, ReadAnswers,
                      ClearAndAsk, Finish, Fire
  <2>5. CASE ReadSensorValues \/ Driver
    BY <2>5, <2>s DEF ReadSensorValues, Driver, Deal, Discover
  <2>6. CASE UNCHANGED vars
    BY <2>6, <2>s DEF vars
  <2>7. QED
    BY <2>1, <2>2, <2>3, <2>4, <2>5, <2>6 DEF Next, User
<1>3. QED
  BY <1>1, <1>2, TypeInvCorrect, PTL DEF Spec

-----------------------------------------------------------------------------
\* Discoveries that overlap share one state and yet each start is reported
\* finished once: timers are neither lost nor multiplied.
THEOREM StartsFinishCorrect == Spec => []EveryStartFinishesOnce
<1>1. Init => EveryStartFinishesOnce
  BY DEF Init, EveryStartFinishesOnce
<1>2. TypeInv /\ EveryStartFinishesOnce /\ [Next]_vars => EveryStartFinishesOnce'
  <2> SUFFICES ASSUME TypeInv, EveryStartFinishesOnce, [Next]_vars
               PROVE  EveryStartFinishesOnce'
    OBVIOUS
  <2>t. starts \in Nat /\ finishes \in Nat /\ discTimers \in Nat
    BY DEF TypeInv, TypeOK
  <2> USE DEF EveryStartFinishesOnce
  <2>s. ASSUME UNCHANGED <<state, clearing, discTimers, countVars>>
        PROVE  EveryStartFinishesOnce'
    BY <2>s DEF countVars
  <2>a. ASSUME UNCHANGED <<discTimers, starts, finishes>>, discTimers > 0
        PROVE  EveryStartFinishesOnce'
    BY <2>a
  <2>1. CASE StartDiscovery
    BY <2>1, <2>t DEF StartDiscovery
  <2>2. CASE FetchSensorValues \/ \E p \in CustomPids : ExecuteCustomCommand(p)
    BY <2>2, <2>s DEF FetchSensorValues, ExecuteCustomCommand
  <2>3. CASE EndDiscovery \/ GetName \/ GetPersonalityDesc \/ \E s \in DOMAIN Reads : ReadAnswers(s)
    BY <2>3, <2>a DEF EndDiscovery, GetName, GetPersonalityDesc, ReadAnswers, Fire
  <2>4. CASE ClearAndAsk
    BY <2>4, <2>a DEF ClearAndAsk, countVars
  <2>5. CASE Finish
    BY <2>5, <2>t DEF Finish, Fire
  <2>6. CASE ReadSensorValues \/ ReadCustomCommand \/ Driver
    BY <2>6, <2>s DEF ReadSensorValues, ReadCustomCommand, Driver, Deal, Discover
  <2>7. CASE UNCHANGED vars
    BY <2>7, <2>s DEF vars
  <2>8. QED
    BY <2>1, <2>2, <2>3, <2>4, <2>5, <2>6, <2>7 DEF Next, User, Advance
<1>3. QED
  BY <1>1, <1>2, TypeInvCorrect, PTL DEF Spec

-----------------------------------------------------------------------------
\* The strengthening of RowsNameTheirDevice: rows are appended only when the
\* machine has come to its last state, and the device list does not change any
\* more there; the first rows then repeat the list.
TreeInv ==
  \/ tree = <<>>
  \/ /\ state = "IDLE"
     /\ Len(devices) <= Len(tree)
     /\ \A i \in 1..Len(devices) : tree[i] = devices[i]

\* A row of the tree names the device a command composed for it goes to, even
\* when discoveries overlap and a list is shown twice.
THEOREM RowsCorrect == Spec => []RowsNameTheirDevice
<1>1. Init => TreeInv
  BY DEF Init, TreeInv
<1>2. TypeInv /\ TreeInv /\ [Next]_vars => TreeInv'
  <2> SUFFICES ASSUME TypeInv, TreeInv, [Next]_vars PROVE TreeInv'
    OBVIOUS
  <2>t. devices \in Seq(Device) /\ tree \in Seq(Device) /\ (clearing => state \in ReadStates)
    BY DEF TypeInv, TypeOK
  <2>i. "IDLE" \notin ReadStates /\ \A s \in DOMAIN Reads : s # "IDLE"
    BY PidNames DEF ReadStates
  <2> USE DEF TreeInv
  <2>s. ASSUME UNCHANGED <<state, devices, tree>> PROVE TreeInv'
    BY <2>s
  <2>e. ASSUME state # "IDLE", UNCHANGED tree PROVE TreeInv'
    BY <2>e
  <2>1. CASE StartDiscovery
    BY <2>1 DEF StartDiscovery
  <2>2. CASE FetchSensorValues \/ \E p \in CustomPids : ExecuteCustomCommand(p)
    BY <2>2, <2>s DEF FetchSensorValues, ExecuteCustomCommand
  <2>3. CASE EndDiscovery \/ GetName \/ GetPersonalityDesc \/ \E s \in DOMAIN Reads : ReadAnswers(s)
    BY <2>3, <2>e, <2>i DEF EndDiscovery, GetName, GetPersonalityDesc, ReadAnswers, Fire
  <2>4. CASE ClearAndAsk
    BY <2>4, <2>e, <2>i, <2>t DEF ClearAndAsk
  <2>5. CASE Finish
    <3>1. tree' = tree \o devices /\ devices' = devices /\ state = "IDLE" /\ state' = state
      BY <2>5 DEF Finish, Fire
    <3>2. Len(tree') = Len(tree) + Len(devices) /\ Len(tree) \in Nat /\ Len(devices) \in Nat
      BY <3>1, <2>t
    <3>3. CASE tree = <<>>
      <4>1. tree' = devices
        BY <3>1, <3>3, <2>t
      <4>2. QED
        BY <3>1, <3>2, <4>1
    <3>4. CASE tree # <<>>
      <4>1. \A i \in 1..Len(devices) : i \in 1..Len(tree) /\ tree'[i] = tree[i]
        BY <3>1, <3>2, <3>4, <2>t
      <4>2. QED
        BY <3>1, <3>2, <3>4, <4>1
    <3>5. QED
      BY <3>3, <3>4
  <2>6. CASE ReadSensorValues \/ ReadCustomCommand \/ Driver
    BY <2>6, <2>s DEF ReadSensorValues, ReadCustomCommand, Driver, Deal, Discover
  <2>7. CASE UNCHANGED vars
    BY <2>7, <2>s DEF vars
  <2>8. QED
    BY <2>1, <2>2, <2>3, <2>4, <2>5, <2>6, <2>7 DEF Next, User, Advance
<1>3. TypeOK /\ TreeInv => RowsNameTheirDevice
  <2> SUFFICES ASSUME TypeOK, TreeInv, NEW i \in Selectable PROVE tree[i] = devices[i]
    BY DEF RowsNameTheirDevice
  <2>1. i \in 1..Len(tree) /\ i \in 1..Len(devices) /\ tree # <<>>
    BY DEF Selectable, TypeOK
  <2>2. QED
    BY <2>1 DEF TreeInv
<1>4. QED
  BY <1>1, <1>2, <1>3, TypeInvCorrect, TypeCorrect, PTL DEF Spec
=============================================================================
