-------------------------- MODULE JoinChainProofs --------------------------
(***************************************************************************)
(* Where there is one hub, for any number of nodes, however they lie, and  *)
(* any number of faults: a node is never marked as joined with half of a   *)
(* PAN in its EEPROM.                                                      *)
(***************************************************************************)
EXTENDS JoinChain, TLAPS

(* What the code never says: that there is one hub, and new nodes.         *)
OneHub == /\ \E h : Hubs = {h}
          /\ Home \notin Hubs /\ Torn \notin Hubs
          /\ Joined = FALSE

Doings == {"idle", "chain", "sending", "ping", "word", "byte", "report", "stuck"}

TypeOK ==
  /\ App_PanID \in [Nodes -> PanIds] /\ nwkPan \in [Nodes -> PanIds]
  /\ SysJoinChained \in [Nodes -> BOOLEAN]
  /\ joinTimer \in [Nodes -> BOOLEAN] /\ resetTimer \in [Nodes -> BOOLEAN]
  /\ sensing \in [Nodes -> BOOLEAN] /\ doing \in [Nodes -> Doings]
  /\ eeDefaultPan \in [Nodes -> PanIds] /\ eeSysJoined \in [Nodes -> BOOLEAN]
  /\ heard \in [Nodes -> SUBSET Hubs]

(* A node is in a join from the chain to the last write, and its PAN is a  *)
(* hub's all the time.                                                     *)
Joining(n) == joinTimer[n] \/ doing[n] \in {"chain", "sending", "ping", "word", "byte"}
ChainKept == \A n \in Nodes : Joining(n) => App_PanID[n] \in Hubs

(* The flag is the last thing that is written.                             *)
FlagLast == \A n \in Nodes :
  /\ doing[n] = "byte" => eeDefaultPan[n] \in Hubs
  /\ eeSysJoined[n] => eeDefaultPan[n] \in Hubs

IInv == TypeOK /\ ChainKept /\ FlagLast

-----------------------------------------------------------------------------
(* A fresh node has none of it to show.                                    *)
LEMMA IInvInit == ASSUME OneHub, Init PROVE IInv
BY DEF OneHub, Init, IInv, TypeOK, ChainKept, FlagLast, Joining, PanIds, Doings, Home

(* What is in the air is a hub's.                                          *)
LEMMA AirTyped ==
  ASSUME TypeOK, NEW pan \in Hubs, NEW S, Air(pan, S)
  PROVE  heard' \in [Nodes -> SUBSET Hubs]
BY DEF Air, TypeOK

(* The first write of a join changes nothing where the PAN was whole.      *)
LEMMA SameHub == ASSUME OneHub, NEW p \in Hubs, NEW q \in Hubs PROVE p = q
BY DEF OneHub

LEMMA HubChainStep == ASSUME OneHub, IInv, NEW h \in Hubs, HubChain(h) PROVE IInv'
<1>1. heard' \in [Nodes -> SUBSET Hubs]  BY AirTyped DEF IInv, HubChain
<1> QED BY <1>1 DEF HubChain, ram, eeprom, IInv, TypeOK, ChainKept, FlagLast, Joining

LEMMA TakeStep ==
  ASSUME OneHub, IInv, NEW n \in Nodes, NEW pan \in Hubs, Take(n, pan)
  PROVE  IInv'
<1>1. CASE Follow(n, pan)
  BY <1>1 DEF Take, Follow, PassOn, Does, InUse, eeprom, IInv, TypeOK, ChainKept, FlagLast, Joining, PanIds, Doings
<1>2. CASE Ignore(n, pan)
  BY <1>2 DEF Take, Ignore, eeprom, IInv, TypeOK, ChainKept, FlagLast, Joining
<1> QED BY <1>1, <1>2 DEF Take

LEMMA BroadcastStep ==
  ASSUME OneHub, IInv, NEW n \in Nodes, appBroadcastData(n)
  PROVE  IInv'
<1>1. App_PanID[n] \in Hubs  BY DEF IInv, ChainKept, Joining, appBroadcastData
<1>2. heard' \in [Nodes -> SUBSET Hubs]
  BY <1>1, AirTyped DEF IInv, appBroadcastData
<1> QED BY <1>2 DEF appBroadcastData, Does, eeprom, IInv, TypeOK, ChainKept, FlagLast, Joining, Doings

LEMMA DataConfStep ==
  ASSUME OneHub, IInv, NEW n \in Nodes, appDataConf(n)
  PROVE  IInv'
BY DEF appDataConf, Does, eeprom, IInv, TypeOK, ChainKept, FlagLast, Joining, Doings

LEMMA PingStep ==
  ASSUME OneHub, IInv, NEW n \in Nodes, JoinPing(n)
  PROVE  IInv'
BY DEF JoinPing, Ping, InUse, Does, eeprom, IInv, TypeOK, ChainKept, FlagLast, Joining, Doings

LEMMA JoinConfStep ==
  ASSUME OneHub, IInv, NEW n \in Nodes, appSystemJoinConf(n)
  PROVE  IInv'
<1>1. App_PanID[n] \in Hubs  BY DEF IInv, ChainKept, Joining, appSystemJoinConf
<1>2. eeSysJoined[n] => eeDefaultPan[n] = App_PanID[n]
  BY <1>1, SameHub DEF IInv, FlagLast
<1>3. CASE UNCHANGED eeDefaultPan
  BY <1>3 DEF appSystemJoinConf, Does, IInv, TypeOK, ChainKept, FlagLast, Joining, Doings
<1>4. CASE /\ eeDefaultPan' = [eeDefaultPan EXCEPT ![n] = IF @ = App_PanID[n] THEN @ ELSE Torn]
           /\ Does(n, "word")
  <2>1. TypeOK' /\ ChainKept'
    BY <1>4 DEF appSystemJoinConf, Does, IInv, TypeOK, ChainKept, Joining, Doings, PanIds
  <2>2. FlagLast'
    BY <1>2, <1>4 DEF appSystemJoinConf, Does, IInv, TypeOK, FlagLast
  <2> QED BY <2>1, <2>2 DEF IInv
<1> QED BY <1>3, <1>4 DEF appSystemJoinConf

LEMMA WriteStep ==
  ASSUME OneHub, IInv, NEW n \in Nodes, WriteWord(n) \/ WriteJoined(n)
  PROVE  IInv'
<1>1. CASE WriteWord(n)
  BY <1>1 DEF WriteWord, Does, IInv, TypeOK, ChainKept, FlagLast, Joining, Doings
<1>2. CASE WriteJoined(n)
  BY <1>2 DEF WriteJoined, Does, IInv, TypeOK, ChainKept, FlagLast, Joining, Doings
<1> QED BY <1>1, <1>2

LEMMA ReportStep ==
  ASSUME OneHub, IInv, NEW n \in Nodes, Report(n) \/ ReportConf(n)
  PROVE  IInv'
BY DEF Report, ReportConf, InUse, Does, eeprom, IInv, TypeOK, ChainKept, FlagLast, Joining,
       Doings

LEMMA ResetStep ==
  ASSUME OneHub, IInv, NEW n \in Nodes, ResetChain(n)
  PROVE  IInv'
BY DEF OneHub, ResetChain, eeprom, IInv, TypeOK, ChainKept, FlagLast, Joining

LEMMA RestartStep ==
  ASSUME OneHub, IInv, NEW n \in Nodes, Restart(n)
  PROVE  IInv'
BY DEF Restart, Does, eeprom, IInv, TypeOK, ChainKept, FlagLast, Joining, Doings

(* Every step of the hub and the nodes keeps the invariant.                *)
LEMMA IInvNext == ASSUME OneHub, IInv, [Next]_vars PROVE IInv'
<1>1. CASE UNCHANGED vars
  BY <1>1 DEF vars, ram, eeprom, IInv, TypeOK, ChainKept, FlagLast, Joining
<1>2. CASE \E h \in Hubs : HubChain(h)  BY <1>2, HubChainStep
<1>3. CASE \E n \in Nodes : Node(n)
  <2>1. PICK n \in Nodes : Node(n)  BY <1>3
  <2> QED BY <2>1, TakeStep, BroadcastStep, DataConfStep, PingStep, JoinConfStep,
             WriteStep, ReportStep, ResetStep, RestartStep DEF Node, SuperLoop
<1> QED BY <1>1, <1>2, <1>3 DEF Next

(* The invariant holds in every state.                                     *)
THEOREM JoinInvariant == ASSUME OneHub PROVE Spec => []IInv
<1>1. Init => IInv  BY IInvInit
<1>2. IInv /\ [Next]_vars => IInv'  BY IInvNext
<1> QED BY <1>1, <1>2, PTL DEF Spec

(* appSystemJoinConf writes the flag after the PAN, and nothing comes      *)
(* between that makes a joined node's PAN another: wherever the supply     *)
(* fails, a node that starts as joined has a whole PAN.                    *)
THEOREM JoinedStaysWhole == ASSUME OneHub PROVE Spec => []JoinedWhole
<1>1. IInv => JoinedWhole  BY DEF OneHub, IInv, FlagLast, JoinedWhole
<1> QED BY <1>1, JoinInvariant, PTL
=============================================================================
