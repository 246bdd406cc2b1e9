---------------------------- MODULE RdmController ----------------------------
(***************************************************************************)
(* RDMController: discovery, sensor values and custom commands, and the    *)
(* part of the main window that shows the discovered devices.              *)
(*                                                                         *)
(* Everything here runs on the GUI thread.  A command is given to the      *)
(* Gadget driver, a single-shot timer is started, and when it fires the    *)
(* controller looks at what the driver has put in its response queue.      *)
(* Timers fire in any order: the code never cancels one, and a discovery   *)
(* can be started while timers of an earlier one are pending.              *)
(*                                                                         *)
(* A payload is abstracted to the parameter (PID) it belongs to.           *)
(***************************************************************************)
EXTENDS Naturals, Sequences, SequencesExt

CONSTANTS
  Device,        \* RDM devices that may be on the line
  CustomPids,    \* PIDs the user may put in a custom command
  MaxCalls,      \* bound on the calls the user makes
  MaxFaults,     \* bound on the commands that are lost or refused
  MaxQueue       \* bound on the driver's queues; what does not fit is lost

\* The PIDs discovery and the sensor page ask for, in the code's names.
LABEL      == "DEVICE_LABEL"
PERS       == "DMX_PERSONALITY_DESCRIPTION"
MANUF      == "MANUFACTURER_LABEL"
PARAMS     == "SUPPORTED_PARAMETERS"
SENSORDEF  == "SENSOR_DEFINITION"
SENSORVAL  == "SENSOR_VALUE"
StoredPids == {LABEL, PERS, MANUF, PARAMS, SENSORDEF, SENSORVAL}
Pid        == StoredPids \cup CustomPids

ASSUME ConstantsAssumption ==
  /\ "none" \notin Pid
  /\ MaxCalls \in Nat
  /\ MaxFaults \in Nat
  /\ MaxQueue \in Nat

VARIABLES
  state,         \* m_discoveryState
  devices,       \* m_devices
  stores,        \* by PID and device: the PID of the payload held in
                 \* m_deviceLabels, m_personalityLists, ..., or "none"
  clearing,      \* is the handler between its read loop and its clear loop
  discTimers,    \* pending single shots of advanceDiscoveryStateMachine
  sensorTimers,  \* pending single shots of readSensorValues
  customTimers,  \* pending single shots of readCustomCommand
  runningCustom, \* m_runningCustomCommand
  customPid,     \* m_currentCustomParameter
  tree,          \* rows of twRdmDevices
  \* the Gadget driver
  found,         \* devices it has discovered
  commands,      \* commands it has not yet dealt with
  responses,     \* its response queue
  \* history
  calls,         \* bound: calls made by the user
  faults,        \* bound: commands lost or refused
  starts,        \* startDiscovery calls
  finishes       \* discoveryFinished emissions

driverVars == <<found, commands, responses, faults>>
sensorVars == <<sensorTimers>>
customVars == <<customTimers, runningCustom, customPid>>
countVars  == <<starts, finishes>>
vars == <<state, devices, stores, clearing, discTimers, sensorVars, customVars,
          tree, driverVars, calls, countVars>>

-----------------------------------------------------------------------------
States == {"END_DISCOVERY", "GET_NAME", "GET_PERSONALITY_DESC", "GET_MANUF_LABEL",
           "GET_SUPPORTED_PARAMETERS", "GET_SENSOR_DEFINITION", "IDLE"}

Request(p, d) == [pid |-> p, dev |-> d]

\* Give the driver the commands of cs, as many as its queue takes.
Send(cs) == LET q == commands \o cs IN
  commands' = SubSeq(q, 1, IF Len(q) < MaxQueue THEN Len(q) ELSE MaxQueue)

\* A command of PID p for each device of the list, in its order.  A device with
\* several personalities or sensors is sent one command, and one with none is
\* as one whose command is lost.
SendToAll(p) == Send([i \in DOMAIN devices |-> Request(p, devices[i])])

\* for(i = 0; i < GetNumResponses(); i++) ClearResponse(i): each removal moves
\* the next response into the place just passed, so every other one stays.
ClearLoop(q) == [k \in 1..(Len(q) \div 2) |-> q[2 * k]]

\* What the loop that clears inside its body gets to look at.
PassedByClearLoop(q) == {q[k] : k \in {i \in DOMAIN q : i % 2 = 1}}

Acks(q, p) == {r \in ToSet(q) : r.ack /\ r.pid = p}

\* Store, for each response of rs, its payload as the p of its device.
Store(p, rs) ==
  stores' = [stores EXCEPT ![p] =
               [d \in Device |->
                  IF \E r \in rs : r.dev = d
                  THEN (CHOOSE r \in rs : r.dev = d).pid
                  ELSE @[d]]]

Init ==
  /\ state = "IDLE"
  /\ devices = <<>>
  /\ stores = [p \in StoredPids |-> [d \in Device |-> "none"]]
  /\ clearing = FALSE
  /\ discTimers = 0
  /\ sensorTimers = 0
  /\ customTimers = 0
  /\ runningCustom = FALSE
  /\ customPid = "none"
  /\ tree = <<>>
  /\ found = <<>>
  /\ commands = <<>>
  /\ responses = <<>>
  /\ calls = 0
  /\ faults = 0
  /\ starts = 0
  /\ finishes = 0

-----------------------------------------------------------------------------
(* The user.                                                               *)

Call ==
  /\ ~clearing
  /\ calls < MaxCalls
  /\ calls' = calls + 1

\* Fault: the tree is not emptied.
StartDiscoveryKeepsTree ==
  /\ Call
  /\ devices' = <<>>
  /\ found' = <<>>
  /\ state' = "END_DISCOVERY"
  /\ discTimers' = discTimers + 1
  /\ starts' = starts + 1
  /\ UNCHANGED <<stores, clearing, sensorVars, customVars, tree, commands, responses,
                 faults, finishes>>

\* startDiscovery: the list is emptied, the driver told to discover, and the
\* discoveryStarted handler empties the tree.  Responses stay queued.
StartDiscovery ==
  /\ Call
  /\ devices' = <<>>
  /\ tree' = <<>>
  /\ found' = <<>>
  /\ state' = "END_DISCOVERY"
  /\ discTimers' = discTimers + 1
  /\ starts' = starts + 1
  /\ UNCHANGED <<stores, clearing, sensorVars, customVars, commands, responses,
                 faults, finishes>>

\* The device of the selected row, if the device list is that long.
Selectable == {i \in DOMAIN tree : i \in DOMAIN devices}

FetchSensorValues ==
  /\ Call
  /\ \E i \in Selectable :
       IF stores[SENSORDEF][devices[i]] = "none" THEN UNCHANGED commands
       ELSE Send(<<Request(SENSORVAL, devices[i])>>)
  /\ sensorTimers' = sensorTimers + 1
  /\ UNCHANGED <<state, devices, stores, clearing, discTimers, customVars, tree,
                 found, responses, faults, countVars>>

\* Fault: a second command is sent over a running one.
ExecuteCustomCommandAlways(p) ==
  /\ Call
  /\ \E i \in Selectable : Send(<<Request(p, devices[i])>>)
  /\ runningCustom' = TRUE
  /\ customPid' = p
  /\ customTimers' = customTimers + 1
  /\ UNCHANGED <<state, devices, stores, clearing, discTimers, sensorVars, tree,
                 found, responses, faults, countVars>>

\* executeCustomCommand refuses while one is running.
ExecuteCustomCommand(p) ==
  /\ Call
  /\ \E i \in Selectable :
       /\ ~runningCustom
       /\ Send(<<Request(p, devices[i])>>)
  /\ runningCustom' = TRUE
  /\ customPid' = p
  /\ customTimers' = customTimers + 1
  /\ UNCHANGED <<state, devices, stores, clearing, discTimers, sensorVars, tree,
                 found, responses, faults, countVars>>

-----------------------------------------------------------------------------
(* advanceDiscoveryStateMachine, when a discovery timer fires.             *)

Fire(s) ==
  /\ ~clearing
  /\ discTimers > 0
  /\ state = s
  /\ UNCHANGED <<sensorVars, customVars, found, calls, faults, starts>>

EndDiscovery ==
  /\ Fire("END_DISCOVERY")
  /\ devices' = devices \o found
  /\ state' = "GET_NAME"
  /\ UNCHANGED <<stores, clearing, discTimers, tree, commands, responses, finishes>>

\* Fault: the state is not advanced.
GetNameStays ==
  /\ Fire("GET_NAME")
  /\ SendToAll(LABEL)
  /\ UNCHANGED <<state, devices, stores, clearing, discTimers, tree, responses,
                 finishes>>

GetName ==
  /\ Fire("GET_NAME")
  /\ SendToAll(LABEL)
  /\ state' = "GET_PERSONALITY_DESC"
  /\ UNCHANGED <<devices, stores, clearing, discTimers, tree, responses, finishes>>

\* Any ACK the loop looks at is taken for a DEVICE_LABEL, whatever its PID, and
\* the loop clears what it looks at.
GetPersonalityDesc ==
  /\ Fire("GET_PERSONALITY_DESC")
  /\ Store(LABEL, {r \in PassedByClearLoop(responses) : r.ack})
  /\ responses' = ClearLoop(responses)
  /\ SendToAll(PERS)
  /\ state' = "GET_MANUF_LABEL"
  /\ UNCHANGED <<devices, clearing, discTimers, tree, finishes>>

\* The next states read the answers of one PID, and then clear the queue in a
\* loop of its own; the driver may add a response in between.
Reads == [GET_MANUF_LABEL |-> PERS, GET_SUPPORTED_PARAMETERS |-> MANUF,
          GET_SENSOR_DEFINITION |-> PARAMS]
Asks  == [GET_MANUF_LABEL |-> MANUF, GET_SUPPORTED_PARAMETERS |-> PARAMS,
          GET_SENSOR_DEFINITION |-> SENSORDEF]
After == [GET_MANUF_LABEL |-> "GET_SUPPORTED_PARAMETERS",
          GET_SUPPORTED_PARAMETERS |-> "GET_SENSOR_DEFINITION",
          GET_SENSOR_DEFINITION |-> "IDLE"]

ReadAnswers(s) ==
  /\ Fire(s)
  /\ Store(Reads[s], Acks(responses, Reads[s]))
  /\ clearing' = TRUE
  /\ UNCHANGED <<state, devices, discTimers, tree, commands, responses, finishes>>

ClearAndAsk ==
  /\ clearing
  /\ clearing' = FALSE
  /\ responses' = ClearLoop(responses)
  /\ SendToAll(Asks[state])
  /\ state' = After[state]
  /\ UNCHANGED <<devices, stores, discTimers, sensorVars, customVars, tree, found,
                 calls, faults, countVars>>

\* Fault: the last state starts a timer like the others.
FinishRearms ==
  /\ Fire("IDLE")
  /\ Store(SENSORDEF, Acks(responses, SENSORDEF))
  /\ finishes' = finishes + 1
  /\ tree' = tree \o devices
  /\ UNCHANGED <<state, devices, clearing, discTimers, commands, responses>>

\* The last state starts no timer; the window appends the device list to its
\* tree (gotDiscoveryData).
Finish ==
  /\ Fire("IDLE")
  /\ Store(SENSORDEF, Acks(responses, SENSORDEF))
  /\ discTimers' = discTimers - 1
  /\ finishes' = finishes + 1
  /\ tree' = tree \o devices
  /\ UNCHANGED <<state, devices, clearing, commands, responses>>

-----------------------------------------------------------------------------
(* The other single shots.                                                 *)

\* Fault: the timer is not a single shot.
ReadSensorValuesAgain ==
  /\ ~clearing
  /\ sensorTimers' = sensorTimers - 1
  /\ Store(SENSORVAL, Acks(responses, SENSORVAL))
  /\ UNCHANGED <<state, devices, clearing, discTimers, customVars, tree, driverVars,
                 calls, countVars>>

\* readSensorValues leaves the responses in the queue.
ReadSensorValues ==
  /\ ~clearing
  /\ sensorTimers > 0
  /\ sensorTimers' = sensorTimers - 1
  /\ Store(SENSORVAL, Acks(responses, SENSORVAL))
  /\ UNCHANGED <<state, devices, clearing, discTimers, customVars, tree, driverVars,
                 calls, countVars>>

Answers == {i \in DOMAIN responses : responses[i].pid = customPid}

\* readCustomCommand: every response of the PID is reported as the answer, from
\* whatever device and of whatever age; the last of them is removed.  With none
\* the command has timed out.  Either way it is over.
ReadCustomCommand ==
  /\ ~clearing
  /\ customTimers > 0
  /\ customTimers' = customTimers - 1
  /\ runningCustom' = FALSE
  /\ responses' = IF Answers = {} THEN responses
                  ELSE RemoveAt(responses,
                                CHOOSE i \in Answers : \A j \in Answers : j <= i)
  /\ UNCHANGED <<state, devices, stores, clearing, discTimers, sensorVars, customPid,
                 tree, found, commands, calls, faults, countVars>>

-----------------------------------------------------------------------------
(* The driver.                                                             *)

\* Devices found after discovery has read the list are not looked at again.
Discover(d) ==
  /\ starts > 0 /\ state = "END_DISCOVERY"
  /\ d \notin ToSet(found)
  /\ found' = Append(found, d)
  /\ UNCHANGED <<state, devices, stores, clearing, discTimers, sensorVars, customVars,
                 tree, commands, responses, calls, faults, countVars>>

\* The device answers the oldest command, or the command is lost.
Deal ==
  /\ commands # <<>>
  /\ commands' = Tail(commands)
  /\ LET c == Head(commands) IN
     \/ \E ok \in BOOLEAN :
          /\ ok \/ faults < MaxFaults
          /\ Len(responses) < MaxQueue
          /\ responses' = Append(responses, [pid |-> c.pid, dev |-> c.dev, ack |-> ok])
          /\ faults' = IF ok THEN faults ELSE faults + 1
     \/ /\ faults < MaxFaults \/ Len(responses) = MaxQueue
        /\ faults' = IF faults < MaxFaults THEN faults + 1 ELSE faults
        /\ UNCHANGED responses
  /\ UNCHANGED <<state, devices, stores, clearing, discTimers, sensorVars, customVars,
                 tree, found, calls, countVars>>

-----------------------------------------------------------------------------
User ==
  \/ StartDiscovery
  \/ FetchSensorValues
  \/ \E p \in CustomPids : ExecuteCustomCommand(p)

Advance ==
  \/ EndDiscovery \/ GetName \/ GetPersonalityDesc
  \/ \E s \in DOMAIN Reads : ReadAnswers(s)
  \/ ClearAndAsk
  \/ Finish

Driver == Deal \/ \E d \in Device : Discover(d)

Next == User \/ Advance \/ ReadSensorValues \/ ReadCustomCommand \/ Driver

Spec == Init /\ [][Next]_vars

\* Qt fires every single shot; the driver may lose any command.
Fairness ==
  /\ WF_vars(Advance)
  /\ WF_vars(ReadSensorValues)
  /\ WF_vars(ReadCustomCommand)

FairSpec == Spec /\ Fairness

-----------------------------------------------------------------------------
(* Properties.                                                             *)

Responses == [pid : Pid, dev : Device, ack : BOOLEAN]
Commands  == [pid : Pid, dev : Device]

TypeOK ==
  /\ state \in States
  /\ devices \in Seq(Device)
  /\ stores \in [StoredPids -> [Device -> Pid \cup {"none"}]]
  /\ clearing \in BOOLEAN
  /\ discTimers \in Nat
  /\ sensorTimers \in Nat
  /\ customTimers \in Nat
  /\ runningCustom \in BOOLEAN
  /\ customPid \in Pid \cup {"none"}
  /\ tree \in Seq(Device)
  /\ found \in Seq(Device)
  /\ commands \in Seq(Commands)
  /\ responses \in Seq(Responses)
  /\ calls \in Nat
  /\ faults \in Nat
  /\ starts \in Nat
  /\ finishes \in Nat

\* A custom command is marked running exactly while one timer is pending that
\* will end it, so a second command is never sent over it and the controller
\* never stays busy (executeCustomCommand, readCustomCommand).
CustomCommandHasTimer == customTimers = IF runningCustom THEN 1 ELSE 0

\* Each startDiscovery gives one chain of timers, and each chain ends in one
\* discoveryFinished; until then the machine is armed.  Overlapping discoveries
\* thus report as often as they were started, although they share one state.
EveryStartFinishesOnce ==
  /\ starts = finishes + discTimers
  /\ state # "IDLE" \/ clearing => discTimers > 0

\* Row i of the tree, if it can be used at all, stands for device i of the
\* list: a command composed for the selected row goes to the device shown,
\* even while discoveries overlap (gotDiscoveryData, selectedDevice).
RowsNameTheirDevice == \A i \in Selectable : tree[i] = devices[i]

\* A started discovery is reported finished even if the driver answers nothing,
\* whatever other discoveries and custom commands it meets.
DiscoveryFinishes == discTimers > 0 ~> discTimers = 0

\* When the label step ends, the log says "Finished getting  DEVICE_LABELS, n
\* responses": each device whose label is among those n responses has one.
AnsweredDevicesAreLabelled ==
  [][state = "GET_PERSONALITY_DESC" /\ state' = "GET_MANUF_LABEL" =>
       \A r \in Acks(responses, LABEL) : stores'[LABEL][r.dev] # "none"]_vars
=============================================================================
