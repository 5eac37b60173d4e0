----------------------------- MODULE SquircoApp -----------------------------
(***************************************************************************)
(* The application of a Squirco light switch node (main.c, commands.c,     *)
(* LSButton.c, sensors.c): the command ring, the application state, the    *)
(* one data request it owns, the join chain and the light switch.          *)
(*                                                                         *)
(* The super-loop runs SYS_TaskHandler (received frames, then the data     *)
(* request, then the timers) and APP_TaskHandler in turn; `task' is the    *)
(* part being run.  The network layer is what NwkCore shows it to be: it   *)
(* copies the data of a request in the first pass after NWK_DataReq and    *)
(* confirms it, once, in a later one.  Readings and times are abstracted   *)
(* to the choices they lead to; LSSyncMode, which nothing sets, is left    *)
(* out.                                                                    *)
(***************************************************************************)
EXTENDS Naturals

CONSTANTS
  RingSize,    \* CommandsInIndexSize
  MaxRetries,  \* APP_MAX_TX_RETRIES
  Inbound,     \* the [cmd, addr, pan] messages the network may deliver
  Sensed,      \* the sensors whose readings may change
  Pans,        \* the PAN identifiers of the hubs
  Home,        \* eeDefaultPan when the node starts
  LSisRemote,  \* eeLSisRemote: the node is a remote for another switch
  TryCap       \* the history counts attempts up to this number

Hub == "hub"
Addrs == {Hub, "node"}
Cmds == {"join_chain", "sys_info", "join_ping", "toggle", "on", "off",
         "temperature", "light", "ls_state", "unknown"}
Message == [cmd : Cmds, addr : Addrs, pan : Pans]
(* `try' is history: which attempt at delivering a report an entry is.     *)
Entry == [cmd : Cmds, addr : Addrs, pan : Pans, try : 1 .. TryCap]

ASSUME AppConstantsOK ==
  /\ RingSize \in Nat \ {0, 1} /\ MaxRetries \in Nat /\ TryCap \in Nat \ {0}
  /\ Inbound \subseteq Message /\ Sensed \subseteq {"temperature", "light"}
  /\ Home \in Pans /\ LSisRemote \in BOOLEAN

AppStates == {"INITIAL", "SEND", "BROADCAST", "IDLE", "LS_TOGGLE", "LS_ON",
              "LS_OFF", "PUSH_CLIMATE", "PUSH_BRIGHTNESS", "PUSH_LS_STATE"}
Data == {"none", "chain", "sys_info", "join", "temperature", "light", "ls_state"}
Confirms == {"data", "join", "temperature", "light", "ls_state"}
(* NO_ACK stands for the two statuses with NWK_NO_ACK_STATUS's bit, which  *)
(* is what the confirmations test (0x10 and NWK_NO_ROUTE_STATUS, 0x11).    *)
Statuses == {"SUCCESS", "NO_ACK", "ERROR"}

VARIABLES
  task,       \* the part of the super-loop being run
  appState,
  busy,       \* appNwkDataReqBusy
  req,        \* appNwkDataReq: its stage, dstAddr and confirm
  data,       \* appNwkDataReq.data: the message it points at
  frame,      \* the frame made of it: message, destination, payload, PAN
  dst_node,
  conf,       \* CMDDataConfType
  ring,       \* CommandsInBuffer
  start, end, \* CommandsInIndexStart, CommandsInIndexEnd
  tx_tries,
  App_PanID,
  nwkPan,     \* the PAN the radio is set to
  msgPan,     \* msgInternodeCmd.payload
  SysJoinChained,
  joinTimer, resetTimer, \* appAsyncJoinTimer, appAsyncJoinChainResetTimer
  sensing,    \* appDBTTimer and appALSTimer, which are started together
  eeprom,     \* eeSysJoined and eeDefaultPan
  LSConnectedMode, LSModeCounterStarted, LSToggleState, LSRemoteToggle,
  relay,      \* PORTE4
  asked,      \* history: the address and attempt of the entry being dealt with
  hubAcked    \* history: a join ping has been acknowledged

request == <<busy, req, data, frame, dst_node, conf, tx_tries>>
buffer  == <<ring, start, end>>
join    == <<App_PanID, nwkPan, msgPan, SysJoinChained, joinTimer, resetTimer>>
joined  == <<sensing, eeprom, LSConnectedMode, hubAcked>>
switch  == <<LSModeCounterStarted, LSToggleState, LSRemoteToggle, relay>>
vars    == <<task, appState, request, buffer, join, joined, switch, asked>>

NoEntry == [cmd |-> "unknown", addr |-> Hub, pan |-> Home, try |-> 1]
NoFrame == [msg |-> "none", dst |-> Hub, asked |-> Hub]
Nobody  == [addr |-> Hub, try |-> 1]

Init ==
  /\ task = "app" /\ appState = "INITIAL"
  /\ busy = FALSE
  /\ req = [stage |-> "none", dst |-> Hub, confirm |-> "data", try |-> 1]
  /\ data = "none" /\ dst_node = Hub /\ conf = "data" /\ tx_tries = 0
  /\ frame = NoFrame
  /\ ring = [i \in 0 .. RingSize - 1 |-> NoEntry] /\ start = 0 /\ end = 0
  /\ msgPan = Home /\ SysJoinChained = FALSE
  /\ joinTimer = FALSE /\ resetTimer = FALSE
  /\ eeprom \in [joined : BOOLEAN, pan : {Home}]
  /\ App_PanID = eeprom.pan /\ nwkPan = eeprom.pan
  /\ sensing = FALSE /\ LSConnectedMode = FALSE /\ hubAcked = eeprom.joined
  /\ LSModeCounterStarted = FALSE /\ LSToggleState = FALSE
  /\ LSRemoteToggle = FALSE /\ relay = FALSE
  /\ asked = Nobody

(***************************************************************************)
(* The ring: an entry that does not fit makes it look empty (end = start). *)
(* The application's own entries leave the payload of the slot as it was.  *)
(***************************************************************************)
AfterLast(i) == IF i = RingSize THEN 0 ELSE i + 1                  \* faulty variant
After(i) == (i + 1) % RingSize

Put(e) == ring' = [ring EXCEPT ![end] = e] /\ end' = After(end) /\ start' = start

PutOwn(c, a, t) ==
  Put([ring[end] EXCEPT !.cmd = c, !.addr = a, !.try = t])

(***************************************************************************)
(* nwkRxTaskHandler, which calls appDataInd for every frame it delivers.   *)
(***************************************************************************)
appDataInd(m) ==
  /\ task = "rx"
  /\ Put([cmd |-> m.cmd, addr |-> m.addr, pan |-> m.pan, try |-> 1])
  /\ UNCHANGED <<task, appState, request, join, joined, switch, asked>>

RxDone ==
  /\ task = "rx" /\ task' = "net"
  /\ UNCHANGED <<appState, request, buffer, join, joined, switch, asked>>

(***************************************************************************)
(* nwkDataReqTaskHandler and the confirmations it calls.                   *)
(***************************************************************************)
NetSend ==
  /\ task = "net" /\ req.stage = "initial"
  /\ req' = [req EXCEPT !.stage = "wait"]
  /\ frame' = [msg |-> data, dst |-> req.dst, asked |-> asked.addr]
  /\ asked' = Nobody
  /\ task' = "timer"
  /\ UNCHANGED <<appState, busy, data, dst_node, conf, tx_tries, buffer, join,
                 joined, switch>>

NetWait ==
  /\ task = "net" /\ req.stage \in {"none", "wait"} /\ task' = "timer"
  /\ UNCHANGED <<appState, request, buffer, join, joined, switch, asked>>

(* appTempDataConf, appLightDataConf, appLSButtonDataConf: the report is   *)
(* asked for once more when nobody acknowledged it.                        *)
Retries(status) == tx_tries < MaxRetries /\ status = "NO_ACK"
Tries(status) ==
  LET t == IF Retries(status) THEN tx_tries + 1 ELSE tx_tries
  IN  IF t >= MaxRetries THEN 0 ELSE t

ReportConf(status) ==
  /\ req.confirm \in {"temperature", "light", "ls_state"}
  /\ \/ /\ Retries(status)
        /\ PutOwn(req.confirm, Hub, IF req.try < TryCap THEN req.try + 1 ELSE TryCap)
     \/ ~ Retries(status) /\ UNCHANGED buffer
  /\ tx_tries' = Tries(status)
  /\ UNCHANGED joined

appDataConf ==
  /\ req.confirm = "data"
  /\ UNCHANGED <<tx_tries, buffer, joined>>

(* The EEPROM may still be busy with an earlier write (eeprom_is_ready).   *)
appSystemJoinConf(status) ==
  /\ req.confirm = "join"
  /\ \/ eeprom' = [joined |-> TRUE, pan |-> App_PanID]
     \/ eeprom' = eeprom
  /\ sensing' = TRUE /\ LSConnectedMode' = TRUE
  /\ hubAcked' = (hubAcked \/ status = "SUCCESS")
  /\ UNCHANGED <<tx_tries, buffer>>

NetConfirm(status) ==
  /\ task = "net" /\ req.stage = "wait"
  /\ appDataConf \/ appSystemJoinConf(status) \/ ReportConf(status)
  /\ req' = [req EXCEPT !.stage = "none"] /\ frame' = NoFrame
  /\ busy' = FALSE /\ appState' = "IDLE" /\ task' = "timer"
  /\ UNCHANGED <<data, dst_node, conf, join, switch, asked>>

(***************************************************************************)
(* SYS_TimerTaskHandler and the handlers of the application's timers.  A   *)
(* sensor handler reports its reading if it has changed enough.            *)
(***************************************************************************)
Sense(c) ==                       \* ADC_GET_TEMPERATURE, ADC_GET_AMBIENT_LIGHT
  /\ task = "timer" /\ sensing
  /\ PutOwn(c, Hub, 1)
  /\ appState' = "IDLE"
  /\ UNCHANGED <<task, request, join, joined, switch, asked>>

appAsyncJoinTimerHandler ==
  /\ task = "timer" /\ joinTimer
  /\ joinTimer' = FALSE
  /\ PutOwn("join_ping", Hub, 1)
  /\ appState' = "IDLE"
  /\ UNCHANGED <<task, request, App_PanID, nwkPan, msgPan, SysJoinChained,
                 resetTimer, joined, switch, asked>>

appAsyncJoinChainResetTimerHandler ==
  /\ task = "timer" /\ resetTimer
  /\ resetTimer' = FALSE /\ SysJoinChained' = FALSE
  /\ UNCHANGED <<task, appState, request, buffer, App_PanID, nwkPan, msgPan,
                 joinTimer, joined, switch, asked>>

TimersDone ==
  /\ task = "timer" /\ task' = "app"
  /\ UNCHANGED <<appState, request, buffer, join, joined, switch, asked>>

(***************************************************************************)
(* APP_TaskHandler, by application state.                                  *)
(***************************************************************************)
In(s) == task = "app" /\ appState = s

appInit ==
  /\ In("INITIAL")
  /\ App_PanID' = eeprom.pan /\ nwkPan' = eeprom.pan
  /\ sensing' = eeprom.joined /\ LSConnectedMode' = eeprom.joined
  /\ appState' = "IDLE" /\ task' = "rx"
  /\ UNCHANGED <<request, buffer, msgPan, SysJoinChained, joinTimer, resetTimer,
                 eeprom, hubAcked, switch, asked>>

(* appSendData and appBroadcastData; the wait for the request in progress  *)
(* is a loop of its own, from which no other handler is ever called.       *)
MayIssueAlways == TRUE                                             \* faulty variant
MayIssue == ~ busy

Issue(dst, confirm) ==
  /\ MayIssue
  /\ req' = [stage |-> "initial", dst |-> dst, confirm |-> confirm, try |-> asked.try]
  /\ busy' = TRUE
  /\ appState' = "IDLE" /\ task' = "rx"
  /\ UNCHANGED <<data, frame, dst_node, conf, tx_tries, buffer, join, joined,
                 switch, asked>>

appSendData == In("SEND") /\ Issue(dst_node, conf)
appBroadcastData == In("BROADCAST") /\ Issue("all", "data")

Block ==
  /\ In("SEND") \/ In("BROADCAST")
  /\ ~ MayIssue
  /\ task' = "spin"
  /\ UNCHANGED <<appState, request, buffer, join, joined, switch, asked>>

Spin ==
  /\ task = "spin" /\ busy
  /\ UNCHANGED vars

(* LS_TOGGLE, LS_ON and LS_OFF ask LSStateMachine for a toggle; none of    *)
(* them leaves its state.                                                  *)
Toggles ==
  \/ appState = "LS_TOGGLE"
  \/ appState = "LS_ON" /\ ~ LSToggleState
  \/ appState = "LS_OFF" /\ LSToggleState

RemoteToggle ==
  /\ In("LS_TOGGLE") \/ In("LS_ON") \/ In("LS_OFF")
  /\ LSRemoteToggle' = (LSRemoteToggle \/ Toggles)
  /\ task' = "rx"
  /\ UNCHANGED <<appState, request, buffer, join, joined, LSModeCounterStarted,
                 LSToggleState, relay, asked>>

(* Make the request's data and confirmation ready, and send it next.       *)
Prepare(msg, confirm) ==
  /\ data' = msg /\ conf' = confirm /\ appState' = "SEND"

CMDPush ==
  /\ \/ In("PUSH_CLIMATE") /\ Prepare("temperature", "temperature") /\ dst_node' = dst_node
     \/ In("PUSH_BRIGHTNESS") /\ Prepare("light", "light") /\ dst_node' = dst_node
     \/ In("PUSH_LS_STATE") /\ Prepare("ls_state", "ls_state")
                            /\ dst_node' = ring[start].addr
  /\ task' = "rx"
  /\ UNCHANGED <<busy, req, frame, tx_tries, buffer, join, joined, switch, asked>>

(* LSStateMachine, for a debounced button that is down or not.  How long   *)
(* it was down decides, when it is released; when it was not down, the     *)
(* uninitialised LSHoldDuration does, and may be anything.                 *)
FlipLate ==                                                        \* faulty variant
  /\ LSToggleState' = ~ LSToggleState
  /\ relay' = (LSToggleState /\ ~ LSisRemote)
  /\ UNCHANGED buffer
Flip ==
  /\ LSToggleState' = ~ LSToggleState
  /\ relay' = (LSToggleState' /\ ~ LSisRemote)
  /\ \/ /\ LSConnectedMode
        /\ IF LSisRemote THEN PutOwn("toggle", "node", 1) ELSE PutOwn("ls_state", Hub, 1)
     \/ ~ LSConnectedMode /\ UNCHANGED buffer

LSStateMachine ==
  /\ In("IDLE")
  /\ \/ /\ LSRemoteToggle' = (LSRemoteToggle /\ LSModeCounterStarted)   \* down
        /\ LSModeCounterStarted' = TRUE
        /\ UNCHANGED <<LSToggleState, relay, buffer>>
     \/ /\ ~ LSRemoteToggle                                               \* up
        /\ LSModeCounterStarted' = FALSE
        /\ LSRemoteToggle' = LSRemoteToggle
        /\ Flip \/ UNCHANGED <<LSToggleState, relay, buffer>>
  /\ task' = "cmd"
  /\ UNCHANGED <<appState, request, join, joined, asked>>

(***************************************************************************)
(* CMDDataIOStateMachine: the entry at the start of the ring, which it     *)
(* leaves there while a request is in progress.                            *)
(***************************************************************************)
Follows(pan) == ~ SysJoinChained \/ pan # App_PanID

JoinChain(e) ==
  /\ e.cmd = "join_chain"
  /\ resetTimer' = TRUE
  /\ \/ /\ Follows(e.pan)
        /\ SysJoinChained' = TRUE /\ App_PanID' = e.pan /\ msgPan' = e.pan
        /\ joinTimer' = TRUE
        /\ data' = "chain" /\ appState' = "BROADCAST"
     \/ /\ ~ Follows(e.pan)
        /\ appState' = "IDLE"
        /\ UNCHANGED <<SysJoinChained, App_PanID, msgPan, joinTimer, data>>
  /\ UNCHANGED <<conf, dst_node, nwkPan>>

SysInfoStale(e) ==                                                 \* faulty variant
  /\ e.cmd = "sys_info"
  /\ dst_node' = Hub /\ Prepare("sys_info", conf)
  /\ UNCHANGED join
SysInfo(e) ==
  /\ e.cmd = "sys_info"
  /\ dst_node' = Hub /\ Prepare("sys_info", "data")
  /\ UNCHANGED join

JoinPingUntuned(e) ==                                              \* faulty variant
  /\ e.cmd = "join_ping"
  /\ dst_node' = Hub /\ Prepare("join", "join")
  /\ UNCHANGED join
JoinPing(e) ==
  /\ e.cmd = "join_ping"
  /\ nwkPan' = App_PanID
  /\ dst_node' = Hub /\ Prepare("join", "join")
  /\ UNCHANGED <<App_PanID, msgPan, SysJoinChained, joinTimer, resetTimer>>

StateOf ==
  [toggle |-> "LS_TOGGLE", on |-> "LS_ON", off |-> "LS_OFF",
   temperature |-> "PUSH_CLIMATE", light |-> "PUSH_BRIGHTNESS",
   ls_state |-> "PUSH_LS_STATE", unknown |-> "IDLE"]

Defer(e) ==
  /\ e.cmd \in DOMAIN StateOf
  /\ appState' = StateOf[e.cmd]
  /\ UNCHANGED <<dst_node, data, conf, join>>

CMDDataIOStateMachine ==
  /\ task = "cmd" /\ task' = "rx"
  /\ \/ /\ start # end
        /\ LET e == ring[start] IN
             /\ JoinChain(e) \/ SysInfo(e) \/ JoinPing(e) \/ Defer(e)
             /\ asked' = [addr |-> e.addr, try |-> e.try]
        /\ start' = IF busy THEN start ELSE After(start)
     \/ /\ start = end
        /\ UNCHANGED <<appState, data, conf, dst_node, join, start, asked>>
  /\ UNCHANGED <<busy, req, frame, tx_tries, ring, end, joined, switch>>

-----------------------------------------------------------------------------
App == \/ appInit \/ appSendData \/ appBroadcastData \/ Block \/ Spin
       \/ RemoteToggle \/ CMDPush \/ LSStateMachine \/ CMDDataIOStateMachine
Timer == \/ TimersDone \/ \E c \in Sensed : Sense(c)
         \/ appAsyncJoinTimerHandler \/ appAsyncJoinChainResetTimerHandler
Net == NetSend \/ NetWait \/ \E s \in Statuses : NetConfirm(s)
Rx  == RxDone \/ \E m \in Inbound : appDataInd(m)

Next == Rx \/ Net \/ Timer \/ App

Spec == Init /\ [][Next]_vars

(***************************************************************************)
(* The loop never stops, every received frame and every timer that is due  *)
(* is dealt with in finite time, and the network layer confirms a request  *)
(* (RequestsConfirmed of NwkCore) if its handlers are called.              *)
(***************************************************************************)
Fairness ==
  /\ WF_vars(Next) /\ WF_vars(RxDone) /\ WF_vars(TimersDone)
  /\ SF_vars(\E s \in Statuses : NetConfirm(s))

FairSpec == Spec /\ Fairness

-----------------------------------------------------------------------------
(* Every variable keeps its type; the indices stay inside the ring.        *)
TypeOK ==
  /\ task \in {"rx", "net", "timer", "app", "cmd", "spin"}
  /\ appState \in AppStates /\ busy \in BOOLEAN
  /\ req \in [stage : {"none", "initial", "wait"}, dst : Addrs \cup {"all"},
              confirm : Confirms, try : 1 .. TryCap]
  /\ data \in Data /\ dst_node \in Addrs /\ conf \in Confirms
  /\ frame \in [msg : Data, dst : Addrs \cup {"all"}, asked : Addrs]
  /\ ring \in [0 .. RingSize - 1 -> Entry] /\ asked \in [addr : Addrs, try : 1 .. TryCap]
  /\ start \in 0 .. RingSize - 1 /\ end \in 0 .. RingSize - 1
  /\ tx_tries \in Nat
  /\ App_PanID \in Pans /\ nwkPan \in Pans /\ msgPan \in Pans
  /\ eeprom \in [joined : BOOLEAN, pan : Pans]
  /\ SysJoinChained \in BOOLEAN /\ joinTimer \in BOOLEAN /\ resetTimer \in BOOLEAN
  /\ sensing \in BOOLEAN /\ hubAcked \in BOOLEAN /\ LSConnectedMode \in BOOLEAN
  /\ LSModeCounterStarted \in BOOLEAN /\ LSToggleState \in BOOLEAN
  /\ LSRemoteToggle \in BOOLEAN /\ relay \in BOOLEAN

(* The one NWK_DataReq_t is never issued while it is still in the queue of *)
(* the network layer: NWK_DataReq would link it to itself.                 *)
RequestNotReused ==
  [][req.stage # "none" /\ req' # req => req'.stage \in {"wait", "none"}]_vars

(* A frame is confirmed to the function that belongs to the message it     *)
(* carries, although message, CMDDataConfType and request are set in three *)
(* different passes and a timer or a confirmation may intervene in each:   *)
(* a retry repeats the report that failed and only a join ping joins.      *)
ConfirmOf ==
  [chain |-> "data", sys_info |-> "data", join |-> "join",
   temperature |-> "temperature", light |-> "light", ls_state |-> "ls_state"]
ConfirmFitsMessage ==
  req.stage = "wait" => frame.msg \in DOMAIN ConfirmOf
                        /\ req.confirm = ConfirmOf[frame.msg]

(* What goes out about a PAN is about the PAN the node follows then: a     *)
(* broadcast is the join chain of App_PanID, and a join ping leaves with   *)
(* the radio on App_PanID.                                                 *)
FollowsOnePan ==
  [][NetSend =>
       /\ frame'.dst = "all" <=> frame'.msg = "chain"
       /\ frame'.msg = "chain" => msgPan = App_PanID
       /\ frame'.msg = "join" => nwkPan = App_PanID]_vars

(* The relay is on exactly when the switch is, and stays off on a remote.  *)
RelayFollows == relay = (LSToggleState /\ ~ LSisRemote)

(* main.c:175: the node waits for the transmission to finish.              *)
WaitEnds == task = "spin" ~> task # "spin"

(* config.h:32: a report is sent at most MaxRetries + 1 times.             *)
AttemptsBounded == req.stage = "wait" => req.try <= MaxRetries + 1

(* main.c:149: a switch state reported on the node's own account or again  *)
(* is sent to the hub.                                                     *)
SwitchStateToHub ==
  req.stage = "wait" /\ frame.msg = "ls_state" /\ frame.asked = Hub => frame.dst = Hub

(* sensors.c:75, main.c:97: a temperature or light report is sent to the   *)
(* hub.                                                                    *)
ReadingToHub ==
  req.stage = "wait" /\ frame.msg \in {"temperature", "light"} => frame.dst = Hub

(* commands.c:174: the toggle command toggles the light switch.            *)
ToggleCommandTaken == appState = "LS_TOGGLE" ~> appState # "LS_TOGGLE"

(* LSButton.c:65: the switch is toggled on a button release, so that a     *)
(* press (or a remote toggle) has been seen before.                        *)
TogglesOnRelease ==
  [][LSToggleState' # LSToggleState => LSModeCounterStarted]_vars

(* main.c:23: the EEPROM tells whether the node has been connected to a    *)
(* hub or not, that is, whether a hub has acknowledged it.                 *)
JoinedMeansConnected == eeprom.joined => hubAcked

(* commands.c:156: a join ping taken from the ring is sent.                *)
JoinPingSent ==
  [][appState = "SEND" /\ data = "join" /\ ~ busy /\ appState' = "IDLE"
       => req'.stage = "initial"]_vars

(* LSButton.c:36, commands.c:174: while the application keeps returning to *)
(* its idle state, a remote toggle is acted on.                            *)
RemoteToggleTaken ==
  []<>(task = "app" /\ appState = "IDLE") => (LSRemoteToggle ~> ~ LSRemoteToggle)

=============================================================================
