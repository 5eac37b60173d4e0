-------------------------- MODULE SquircoAppProofs --------------------------
(***************************************************************************)
(* Invariants of the application, for every ring size, retry limit, set of *)
(* PANs and traffic.                                                       *)
(***************************************************************************)
EXTENDS SquircoApp, TLAPS

USE AppConstantsOK

(***************************************************************************)
(* Type correctness.                                                       *)
(***************************************************************************)
LEMMA EntryUpdate ==
  ASSUME NEW e \in Entry, NEW c \in Cmds, NEW a \in Addrs, NEW t \in 1 .. TryCap
  PROVE  [e EXCEPT !.cmd = c, !.addr = a, !.try = t] \in Entry
BY DEF Entry

LEMMA PutType ==
  ASSUME ring \in [0 .. RingSize - 1 -> Entry],
         start \in 0 .. RingSize - 1, end \in 0 .. RingSize - 1, NEW e \in Entry, Put(e)
  PROVE  /\ ring' \in [0 .. RingSize - 1 -> Entry]
         /\ start' \in 0 .. RingSize - 1 /\ end' \in 0 .. RingSize - 1
BY DEF Put, After

LEMMA PutOwnType ==
  ASSUME TypeOK, NEW c \in Cmds, NEW a \in Addrs, NEW t \in 1 .. TryCap, PutOwn(c, a, t)
  PROVE  /\ ring' \in [0 .. RingSize - 1 -> Entry]
         /\ start' \in 0 .. RingSize - 1 /\ end' \in 0 .. RingSize - 1
<1>1. ring[end] \in Entry
  BY DEF TypeOK
<1>2. [ring[end] EXCEPT !.cmd = c, !.addr = a, !.try = t] \in Entry
  BY <1>1, EntryUpdate
<1> QED BY <1>2, PutType DEF PutOwn, TypeOK

LEMMA TypeInit == Init => TypeOK
<1> SUFFICES ASSUME Init PROVE TypeOK
  OBVIOUS
<1>1. 1 \in 1 .. TryCap /\ 0 \in 0 .. RingSize - 1
  OBVIOUS
<1>2. NoEntry \in Entry /\ ring \in [0 .. RingSize - 1 -> Entry]
  BY <1>1 DEF Init, NoEntry, Entry, Cmds, Addrs, Hub
<1>3. /\ req \in [stage : {"none", "initial", "wait"}, dst : Addrs \cup {"all"},
                  confirm : Confirms, try : 1 .. TryCap]
      /\ frame \in [msg : Data, dst : Addrs \cup {"all"}, asked : Addrs]
      /\ asked \in [addr : Addrs, try : 1 .. TryCap]
  BY <1>1 DEF Init, NoFrame, Nobody, Confirms, Data, Addrs, Hub
<1>4. /\ eeprom \in [joined : BOOLEAN, pan : Pans] /\ eeprom.joined \in BOOLEAN
      /\ eeprom.pan = Home
  BY DEF Init
<1>5. /\ SysJoinChained \in BOOLEAN /\ joinTimer \in BOOLEAN /\ resetTimer \in BOOLEAN
      /\ sensing \in BOOLEAN /\ hubAcked \in BOOLEAN /\ LSConnectedMode \in BOOLEAN
      /\ LSModeCounterStarted \in BOOLEAN /\ LSToggleState \in BOOLEAN
      /\ LSRemoteToggle \in BOOLEAN /\ relay \in BOOLEAN /\ busy \in BOOLEAN
  BY <1>4, Zenon DEF Init
<1> QED BY <1>1, <1>2, <1>3, <1>4, <1>5
        DEF Init, TypeOK, AppStates, Data, Confirms, Addrs, Hub

LEMMA TypeNext == TypeOK /\ [Next]_vars => TypeOK'
<1> SUFFICES ASSUME TypeOK, [Next]_vars PROVE TypeOK'
  OBVIOUS
<1> USE DEF request, buffer, join, joined, switch
<1>1. CASE Rx
  <2>1. CASE RxDone BY <2>1 DEF RxDone, TypeOK
  <2>2. ASSUME NEW m \in Inbound, appDataInd(m) PROVE TypeOK'
    <3>1. [cmd |-> m.cmd, addr |-> m.addr, pan |-> m.pan, try |-> 1] \in Entry
      BY DEF Message, Entry
    <3>2. /\ ring' \in [0 .. RingSize - 1 -> Entry]
          /\ start' \in 0 .. RingSize - 1 /\ end' \in 0 .. RingSize - 1
      BY <2>2, <3>1, PutType DEF appDataInd, TypeOK
    <3> QED BY <2>2, <3>2 DEF appDataInd, TypeOK
  <2> QED BY <1>1, <2>1, <2>2 DEF Rx
<1>2. CASE NetSend BY SMTT(30), <1>2 DEF NetSend, TypeOK, Nobody, Addrs, Hub
<1>3. CASE NetWait BY <1>3 DEF NetWait, TypeOK
<1>4. ASSUME NEW s \in Statuses, NetConfirm(s) PROVE TypeOK'
  <2>1. /\ ring' \in [0 .. RingSize - 1 -> Entry]
        /\ start' \in 0 .. RingSize - 1 /\ end' \in 0 .. RingSize - 1
        /\ tx_tries' \in Nat
        /\ eeprom' \in [joined : BOOLEAN, pan : Pans]
        /\ sensing' \in BOOLEAN /\ hubAcked' \in BOOLEAN /\ LSConnectedMode' \in BOOLEAN
    <3>1. CASE appDataConf BY <3>1 DEF appDataConf, TypeOK
    <3>2. CASE appSystemJoinConf(s)
      <4>1. hubAcked' \in BOOLEAN /\ sensing' \in BOOLEAN /\ LSConnectedMode' \in BOOLEAN
        BY <3>2, Zenon DEF appSystemJoinConf
      <4>2. eeprom' \in [joined : BOOLEAN, pan : Pans]
        <5>1. eeprom' = [joined |-> TRUE, pan |-> App_PanID] \/ eeprom' = eeprom
          BY <3>2, Zenon DEF appSystemJoinConf
        <5>2. App_PanID \in Pans /\ eeprom \in [joined : BOOLEAN, pan : Pans]
          BY DEF TypeOK
        <5>3. [joined |-> TRUE, pan |-> App_PanID] \in [joined : BOOLEAN, pan : Pans]
          BY <5>2
        <5> QED BY <5>1, <5>2, <5>3, Zenon
      <4>3. UNCHANGED <<tx_tries, buffer>>
        BY <3>2, Zenon DEF appSystemJoinConf
      <4> QED BY <4>1, <4>2, <4>3 DEF TypeOK
    <3>3. CASE ReportConf(s)
      <4>1. req.confirm \in Cmds /\ Hub \in Addrs
        BY <3>3 DEF ReportConf, Cmds, Addrs
      <4>2. (IF req.try < TryCap THEN req.try + 1 ELSE TryCap) \in 1 .. TryCap
        BY DEF TypeOK
      <4>3. /\ ring' \in [0 .. RingSize - 1 -> Entry]
            /\ start' \in 0 .. RingSize - 1 /\ end' \in 0 .. RingSize - 1
        BY <3>3, <4>1, <4>2, PutOwnType DEF ReportConf, TypeOK
      <4>4. Tries(s) \in Nat
        BY DEF Tries, TypeOK
      <4> QED BY <3>3, <4>3, <4>4 DEF ReportConf, TypeOK
    <3> QED BY <1>4, <3>1, <3>2, <3>3 DEF NetConfirm
  <2>2. NoFrame \in [msg : Data, dst : Addrs \cup {"all"}, asked : Addrs]
    BY DEF NoFrame, Data, Addrs, Hub
  <2> QED BY <1>4, <2>1, <2>2 DEF NetConfirm, TypeOK, AppStates
<1>5. ASSUME NEW c \in Sensed, Sense(c) PROVE TypeOK'
  <2>1. c \in Cmds /\ Hub \in Addrs /\ 1 \in 1 .. TryCap
    BY DEF Cmds, Addrs
  <2>2. /\ ring' \in [0 .. RingSize - 1 -> Entry]
        /\ start' \in 0 .. RingSize - 1 /\ end' \in 0 .. RingSize - 1
    BY <1>5, <2>1, PutOwnType DEF Sense
  <2> QED BY <1>5, <2>2 DEF Sense, TypeOK, AppStates
<1>6. CASE appAsyncJoinTimerHandler
  <2>1. "join_ping" \in Cmds /\ Hub \in Addrs /\ 1 \in 1 .. TryCap
    BY DEF Cmds, Addrs
  <2>2. /\ ring' \in [0 .. RingSize - 1 -> Entry]
        /\ start' \in 0 .. RingSize - 1 /\ end' \in 0 .. RingSize - 1
    BY <1>6, <2>1, PutOwnType DEF appAsyncJoinTimerHandler
  <2>3. joinTimer' \in BOOLEAN
    BY <1>6, Zenon DEF appAsyncJoinTimerHandler
  <2>4. /\ appState' = "IDLE"
        /\ UNCHANGED <<task, request, App_PanID, nwkPan, msgPan, SysJoinChained,
                       resetTimer, joined, switch, asked>>
    BY <1>6, Zenon DEF appAsyncJoinTimerHandler
  <2> QED BY <2>2, <2>3, <2>4 DEF TypeOK, AppStates
<1>7. CASE appAsyncJoinChainResetTimerHandler
  <2>1. resetTimer' \in BOOLEAN /\ SysJoinChained' \in BOOLEAN
    BY <1>7, Zenon DEF appAsyncJoinChainResetTimerHandler
  <2>2. UNCHANGED <<task, appState, request, buffer, App_PanID, nwkPan, msgPan,
                    joinTimer, joined, switch, asked>>
    BY <1>7, Zenon DEF appAsyncJoinChainResetTimerHandler
  <2> QED BY <2>1, <2>2 DEF TypeOK
<1>8. CASE TimersDone BY <1>8 DEF TimersDone, TypeOK
<1>9. CASE appInit BY <1>9 DEF appInit, TypeOK, AppStates
<1>10. ASSUME NEW dst, NEW confirm, Issue(dst, confirm),
              dst \in Addrs \cup {"all"}, confirm \in Confirms
       PROVE TypeOK'
  BY <1>10 DEF Issue, TypeOK, AppStates
<1>11. CASE appSendData BY <1>10, <1>11 DEF appSendData, TypeOK
<1>12. CASE appBroadcastData BY <1>10, <1>12 DEF appBroadcastData, Confirms
<1>13. CASE Block BY <1>13 DEF Block, TypeOK
<1>14. CASE Spin BY <1>14 DEF Spin, vars, TypeOK
<1>15. CASE RemoteToggle BY <1>15 DEF RemoteToggle, TypeOK
<1>16. CASE CMDPush
  <2>1. ring[start].addr \in Addrs
    BY DEF TypeOK, Entry
  <2> QED BY <1>16, <2>1 DEF CMDPush, Prepare, TypeOK, Data, Confirms, AppStates
<1>17. CASE LSStateMachine
  <2>1. /\ ring' \in [0 .. RingSize - 1 -> Entry]
        /\ start' \in 0 .. RingSize - 1 /\ end' \in 0 .. RingSize - 1
        /\ LSToggleState' \in BOOLEAN /\ relay' \in BOOLEAN
    <3>1. CASE Flip
      <4>1. /\ "toggle" \in Cmds /\ "ls_state" \in Cmds /\ Hub \in Addrs
            /\ "node" \in Addrs /\ 1 \in 1 .. TryCap
        BY DEF Cmds, Addrs
      <4>2. PutOwn("toggle", "node", 1) \/ PutOwn("ls_state", Hub, 1) \/ UNCHANGED buffer
        BY <3>1 DEF Flip
      <4>3. /\ ring' \in [0 .. RingSize - 1 -> Entry]
            /\ start' \in 0 .. RingSize - 1 /\ end' \in 0 .. RingSize - 1
        BY <4>1, <4>2, PutOwnType DEF TypeOK
      <4>4. LSToggleState' \in BOOLEAN /\ relay' \in BOOLEAN
        BY <3>1, Zenon DEF Flip
      <4> QED BY <4>3, <4>4
    <3>2. CASE UNCHANGED <<LSToggleState, relay, buffer>>
      BY <3>2 DEF TypeOK
    <3> QED BY <1>17, <3>1, <3>2 DEF LSStateMachine
  <2>2. LSRemoteToggle' \in BOOLEAN /\ LSModeCounterStarted' \in BOOLEAN
    BY <1>17 DEF LSStateMachine, TypeOK
  <2> QED BY <1>17, <2>1, <2>2 DEF LSStateMachine, TypeOK
<1>18. CASE CMDDataIOStateMachine
  <2>1. ring[start] \in Entry /\ start' \in 0 .. RingSize - 1
    BY <1>18 DEF CMDDataIOStateMachine, TypeOK, After
  <2> DEFINE e == ring[start]
  <2> USE DEF TypeOK, Data, Confirms, AppStates, Addrs, Hub
  <2>2. CASE start = end
    BY <1>18, <2>1, <2>2 DEF CMDDataIOStateMachine
  <2>3. CASE start # end
    <3>0. asked' \in [addr : Addrs, try : 1 .. TryCap]
      BY <1>18, <2>1, <2>3 DEF CMDDataIOStateMachine, Entry
    <3> SUFFICES /\ appState' \in AppStates /\ data' \in Data /\ conf' \in Confirms
                 /\ dst_node' \in Addrs /\ App_PanID' \in Pans /\ nwkPan' \in Pans
                 /\ msgPan' \in Pans /\ SysJoinChained' \in BOOLEAN
                 /\ joinTimer' \in BOOLEAN /\ resetTimer' \in BOOLEAN
      BY <1>18, <2>1, <2>3, <3>0 DEF CMDDataIOStateMachine
    <3>1. CASE JoinChain(e)
      BY ZenonT(30), <2>1, <3>1 DEF JoinChain, Entry
    <3>2. CASE SysInfo(e) BY <3>2 DEF SysInfo, Prepare
    <3>3. CASE JoinPing(e) BY <3>3 DEF JoinPing, Prepare
    <3>4. CASE Defer(e)
      <4>1. \A c \in DOMAIN StateOf : StateOf[c] \in AppStates
        BY DEF StateOf
      <4> QED BY <3>4, <4>1 DEF Defer
    <3> QED BY <1>18, <2>3, <3>1, <3>2, <3>3, <3>4 DEF CMDDataIOStateMachine
  <2> QED BY <2>2, <2>3
<1>19. CASE UNCHANGED vars BY <1>19 DEF vars, TypeOK
<1> QED BY <1>1, <1>2, <1>3, <1>4, <1>5, <1>6, <1>7, <1>8, <1>9, <1>11, <1>12, <1>13,
           <1>14, <1>15, <1>16, <1>17, <1>18, <1>19 DEF Next, Rx, Net, Timer, App

(* Type correctness of the application (TypeOK).                           *)
THEOREM AppTypeCorrect == Spec => []TypeOK
BY TypeInit, TypeNext, PTL DEF Spec

(***************************************************************************)
(* What the three passes that make a request leave behind: an application  *)
(* state that sends has the message ready with its confirmation, and a     *)
(* request keeps both until its frame is made.                             *)
(***************************************************************************)
Idles == task = "cmd" => appState = "IDLE"
BusyHolds == ~ busy => req.stage = "none"
Prepared ==
  /\ appState = "INITIAL" => data = "none"
  /\ appState = "SEND" => data \in DOMAIN ConfirmOf \ {"chain"} /\ conf = ConfirmOf[data]
  /\ appState = "BROADCAST" => data = "chain"
Issued ==
  req.stage = "initial" =>
    /\ task \in {"rx", "net"}
    /\ data \in DOMAIN ConfirmOf /\ req.confirm = ConfirmOf[data]
    /\ req.dst = "all" <=> data = "chain"
OnePan ==
  /\ data = "chain" => msgPan = App_PanID
  /\ data = "join" => nwkPan = App_PanID

IInv == TypeOK /\ Idles /\ BusyHolds /\ Prepared /\ Issued /\ OnePan /\ ConfirmFitsMessage

LEMMA IInvInit == Init => IInv
BY TypeInit DEF Init, IInv, Idles, BusyHolds, Prepared, Issued, OnePan, ConfirmFitsMessage

LEMMA ConfirmOfValues ==
  /\ DOMAIN ConfirmOf = Data \ {"none"}
  /\ ConfirmOf["chain"] = "data" /\ ConfirmOf["sys_info"] = "data"
  /\ ConfirmOf["join"] = "join" /\ ConfirmOf["temperature"] = "temperature"
  /\ ConfirmOf["light"] = "light" /\ ConfirmOf["ls_state"] = "ls_state"
BY DEF ConfirmOf, Data

(* The steps that neither make a request nor prepare one.                  *)
LEMMA OthersKeep ==
  ASSUME IInv, TypeOK', UNCHANGED <<busy, req, data, frame, conf, App_PanID, nwkPan, msgPan>>,
         \/ appState' = appState
         \/ appState' \notin {"INITIAL", "SEND", "BROADCAST"},
         task' = "cmd" => appState' = "IDLE",
         req.stage = "initial" => task' \in {"rx", "net"}
  PROVE  IInv'
BY DEF IInv, Idles, BusyHolds, Prepared, Issued, OnePan, ConfirmFitsMessage

LEMMA IInvNext == IInv /\ [Next]_vars => IInv'
<1> SUFFICES ASSUME IInv, [Next]_vars PROVE IInv'
  OBVIOUS
<1>0. TypeOK /\ TypeOK'
  BY TypeNext DEF IInv
<1> USE DEF request, buffer, join, joined, switch
<1>1. CASE Rx
  BY <1>0, <1>1, OthersKeep DEF Rx, RxDone, appDataInd, IInv, Issued
<1>2. CASE NetSend
  <2>1. /\ frame' = [msg |-> data, dst |-> req.dst, asked |-> asked.addr]
        /\ req' = [req EXCEPT !.stage = "wait"] /\ req.stage = "initial"
        /\ UNCHANGED <<appState, busy, data, conf, join>> /\ task' = "timer"
    BY <1>2, Zenon DEF NetSend
  <2>2. req'.stage = "wait" /\ req'.confirm = req.confirm /\ frame'.msg = data
    BY <2>1, <1>0 DEF TypeOK
  <2> QED BY <1>0, <2>1, <2>2 DEF IInv, Idles, BusyHolds, Prepared, Issued, OnePan,
             ConfirmFitsMessage
<1>3. CASE NetWait
  BY <1>0, <1>3, OthersKeep DEF NetWait
<1>4. ASSUME NEW s \in Statuses, NetConfirm(s) PROVE IInv'
  <2>1. /\ req' = [req EXCEPT !.stage = "none"] /\ appState' = "IDLE" /\ task' = "timer"
        /\ UNCHANGED <<data, conf, join>>
    BY <1>4, Zenon DEF NetConfirm
  <2>2. req'.stage = "none"
    BY <2>1, <1>0 DEF TypeOK
  <2> QED BY <1>0, <2>1, <2>2 DEF IInv, Idles, BusyHolds, Prepared, Issued, OnePan,
             ConfirmFitsMessage
<1>5. CASE Timer
  <2>1. req.stage # "initial"
    BY <1>5 DEF Timer, TimersDone, Sense, appAsyncJoinTimerHandler,
       appAsyncJoinChainResetTimerHandler, IInv, Issued
  <2> QED BY <1>0, <1>5, <2>1, OthersKeep DEF Timer, TimersDone, Sense,
             appAsyncJoinTimerHandler, appAsyncJoinChainResetTimerHandler
<1>6. CASE appInit
  <2>1. data = "none" /\ data' = data /\ req.stage # "initial" /\ req' = req
    BY <1>6 DEF appInit, In, IInv, Prepared, Issued
  <2> QED BY <1>0, <1>6, <2>1 DEF appInit, IInv, Idles, BusyHolds, Prepared, Issued, OnePan,
             ConfirmFitsMessage
<1>7. ASSUME NEW dst, NEW confirm, Issue(dst, confirm), data \in DOMAIN ConfirmOf,
             confirm = ConfirmOf[data], dst = "all" <=> data = "chain"
      PROVE IInv'
  <2>1. req'.stage = "initial" /\ req'.dst = dst /\ req'.confirm = confirm
    BY <1>7 DEF Issue
  <2> QED BY <1>0, <1>7, <2>1 DEF Issue, IInv, Idles, BusyHolds, Prepared, Issued, OnePan,
             ConfirmFitsMessage
<1>8. CASE appSendData
  <2>1. dst_node # "all"
    BY <1>0 DEF TypeOK, Addrs, Hub
  <2> QED BY <1>7, <1>8, <2>1 DEF appSendData, In, IInv, Prepared
<1>9. CASE appBroadcastData
  BY <1>7, <1>9, ConfirmOfValues DEF appBroadcastData, In, IInv, Prepared, Data
<1>10. CASE Block \/ Spin \/ RemoteToggle \/ LSStateMachine
  <2>1. req.stage # "initial"
    BY <1>10 DEF Block, Spin, RemoteToggle, LSStateMachine, In, IInv, Issued
  <2> QED BY <1>0, <1>10, <2>1, OthersKeep
          DEF Block, Spin, vars, RemoteToggle, LSStateMachine, In
<1>11. CASE CMDPush
  <2>1. req.stage # "initial" /\ req' = req
    BY <1>11 DEF CMDPush, In, IInv, Issued
  <2>2. /\ data' \in {"temperature", "light", "ls_state"} /\ conf' = data'
        /\ appState' = "SEND" /\ task' = "rx"
    BY <1>11 DEF CMDPush, Prepare
  <2> QED BY <1>0, <1>11, <2>1, <2>2, ConfirmOfValues DEF CMDPush, IInv, Idles, BusyHolds,
             Prepared, Issued, OnePan, ConfirmFitsMessage, Data
<1>12. CASE CMDDataIOStateMachine
  <2>1. /\ req.stage # "initial" /\ appState = "IDLE"
        /\ task' = "rx" /\ UNCHANGED <<busy, req, frame>>
    BY <1>12 DEF CMDDataIOStateMachine, IInv, Issued, Idles
  <2>2. CASE UNCHANGED <<appState, data, conf, join>>
    BY <1>0, <2>1, <2>2, OthersKeep
  <2> USE DEF IInv, Idles, BusyHolds, Prepared, Issued, OnePan, ConfirmFitsMessage
  <2>3. ASSUME NEW e, JoinChain(e) PROVE IInv'
    BY <1>0, <2>1, <2>3, ConfirmOfValues DEF JoinChain
  <2>4. ASSUME NEW e, SysInfo(e) PROVE IInv'
    BY <1>0, <2>1, <2>4, ConfirmOfValues DEF SysInfo, Prepare, Data
  <2>5. ASSUME NEW e, JoinPing(e) PROVE IInv'
    BY <1>0, <2>1, <2>5, ConfirmOfValues DEF JoinPing, Prepare, Data
  <2>6. ASSUME NEW e, Defer(e) PROVE IInv'
    <3>1. appState' \notin {"INITIAL", "SEND", "BROADCAST"}
      BY <2>6 DEF Defer, StateOf
    <3> QED BY <1>0, <2>1, <2>6, <3>1, OthersKeep DEF Defer
  <2> QED BY <1>12, <2>2, <2>3, <2>4, <2>5, <2>6 DEF CMDDataIOStateMachine
<1>13. CASE UNCHANGED vars
  BY <1>0, <1>13, OthersKeep DEF vars, IInv, Idles, Issued
<1> QED BY <1>1, <1>2, <1>3, <1>4, <1>5, <1>6, <1>8, <1>9, <1>10, <1>11, <1>12, <1>13
        DEF Next, Net, App

LEMMA AppInvariant == Spec => []IInv
BY IInvInit, IInvNext, PTL DEF Spec

(* A frame is confirmed to the function of the message it carries          *)
(* (ConfirmFitsMessage), although appSendData, the task that prepared the  *)
(* message and nwkDataReqSendFrame run in different passes.                *)
THEOREM ConfirmAlwaysFits == Spec => []ConfirmFitsMessage
BY AppInvariant, PTL DEF IInv

(* appNwkDataReq is never issued while the network layer still has it      *)
(* (RequestNotReused): appNwkDataReqBusy is set for as long.               *)
THEOREM RequestNeverReused == Spec => RequestNotReused
<1>1. IInv /\ [Next]_vars =>
        [req.stage # "none" /\ req' # req => req'.stage \in {"wait", "none"}]_vars
  <2> SUFFICES ASSUME IInv, Next, req.stage # "none", req' # req
               PROVE  req'.stage \in {"wait", "none"}
    OBVIOUS
  <2>1. NetSend \/ \E s \in Statuses : NetConfirm(s)
    <3>1. ASSUME NEW dst, NEW confirm PROVE ~ Issue(dst, confirm)
      BY DEF Issue, MayIssue, IInv, BusyHolds
    <3>2. ~ appSendData /\ ~ appBroadcastData
      BY <3>1 DEF appSendData, appBroadcastData
    <3> QED
      BY <3>2 DEF Next, Rx, RxDone, appDataInd, Net, NetWait, Timer, TimersDone, Sense,
         appAsyncJoinTimerHandler, appAsyncJoinChainResetTimerHandler, App, appInit, Block,
         Spin, RemoteToggle, CMDPush, LSStateMachine, CMDDataIOStateMachine, request, vars
  <2> QED BY <2>1 DEF NetSend, NetConfirm, IInv, TypeOK
<1> QED BY <1>1, AppInvariant, PTL DEF Spec, RequestNotReused

(* A join chain goes out about the PAN the node follows, a join ping with  *)
(* the radio on it (FollowsOnePan), although another join chain may arrive *)
(* between the passes that prepare and send them.                          *)
THEOREM OnePanFollowed == Spec => FollowsOnePan
<1>1. IInv /\ [Next]_vars =>
        [NetSend =>
           /\ frame'.dst = "all" <=> frame'.msg = "chain"
           /\ frame'.msg = "chain" => msgPan = App_PanID
           /\ frame'.msg = "join" => nwkPan = App_PanID]_vars
  BY DEF NetSend, IInv, Issued, OnePan
<1> QED BY <1>1, AppInvariant, PTL DEF Spec, FollowsOnePan

(* The relay follows the switch (RelayFollows): LSStateMachine is the only *)
(* code that changes either.                                               *)
THEOREM RelayAlwaysFollows == Spec => []RelayFollows
<1>1. Init => RelayFollows
  BY DEF Init, RelayFollows
<1>2. RelayFollows /\ [Next]_vars => RelayFollows'
  <2> SUFFICES ASSUME RelayFollows, [Next]_vars PROVE RelayFollows'
    OBVIOUS
  <2>1. CASE UNCHANGED <<LSToggleState, relay>>
    BY <2>1 DEF RelayFollows
  <2>2. CASE Flip
    BY <2>2, Zenon DEF Flip, RelayFollows
  <2>3. UNCHANGED <<LSToggleState, relay>> \/ Flip
    BY DEF Next, Rx, RxDone, appDataInd, Net, NetSend, NetConfirm, NetWait, Timer, TimersDone,
       Sense, appAsyncJoinTimerHandler, appAsyncJoinChainResetTimerHandler, App, appInit,
       appSendData, appBroadcastData, Issue, Block, Spin, RemoteToggle, CMDPush,
       LSStateMachine, CMDDataIOStateMachine, switch, vars
  <2> QED BY <2>1, <2>2, <2>3
<1> QED BY <1>1, <1>2, PTL DEF Spec
=============================================================================
