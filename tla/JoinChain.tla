----------------------------- MODULE JoinChain -----------------------------
(***************************************************************************)
(* How several nodes find their hub (commands.c, main.c).  The hub sends a *)
(* join chain to everybody around it, whatever their PAN.  The network     *)
(* layer does not forward it: a node that follows the chain sends it on    *)
(* itself, and half a second later tunes to the PAN, pings the hub and     *)
(* keeps the PAN in its EEPROM.                                            *)
(*                                                                         *)
(* Of a node's application (SquircoApp) this module keeps the join chain   *)
(* and the use of the one data request, which the readings and reports of  *)
(* a node that has joined need as well: who needs it while it is in use    *)
(* waits in the super-loop for the super-loop, for ever.                   *)
(***************************************************************************)
EXTENDS Naturals, FiniteSets

CONSTANTS
  Nodes,
  Hubs,      \* the hubs; a hub stands for its PAN identifier too
  Near,      \* who hears whom: [Nodes -> SUBSET (Nodes \cup Hubs)]
  Late,      \* nodes whose join timer may outlast the reset timer started with it,
             \* or be due just after the chain of another hub
  Joined,    \* eeSysJoined of the nodes when they start
  MaxFaults  \* frames lost, restarts and EEPROM writes refused

Home == "home"  \* eeDefaultPan of new nodes
Torn == "torn"  \* one byte of a PAN and one of another

PanIds == Hubs \cup {Home, Torn}

ASSUME JoinConstantsOK ==
  /\ Near \in [Nodes -> SUBSET (Nodes \cup Hubs)]
  /\ \A n, m \in Nodes : m \in Near[n] <=> n \in Near[m]
  /\ Late \subseteq Nodes /\ Joined \in BOOLEAN /\ MaxFaults \in Nat

VARIABLES
  App_PanID, SysJoinChained,
  joinTimer, resetTimer,  \* appAsyncJoinTimer, appAsyncJoinChainResetTimer
  nwkPan,                 \* the PAN the radio is set to
  sensing,                \* appDBTTimer and appALSTimer run, LSConnectedMode
  doing,                  \* what the node is busy with
  eeDefaultPan, eeSysJoined,
  heard,                  \* the PANs of the chains in the node's ring and on their way to it
  known,                  \* the nodes that have pinged a hub, with the hub
  faults

ram    == <<App_PanID, SysJoinChained, joinTimer, resetTimer, nwkPan, sensing, doing>>
eeprom == <<eeDefaultPan, eeSysJoined>>
vars   == <<ram, eeprom, heard, known, faults>>

Init ==
  /\ eeDefaultPan = [n \in Nodes |-> Home] /\ eeSysJoined = [n \in Nodes |-> Joined]
  /\ App_PanID = eeDefaultPan /\ nwkPan = eeDefaultPan
  /\ SysJoinChained = [n \in Nodes |-> FALSE]
  /\ joinTimer = [n \in Nodes |-> FALSE] /\ resetTimer = [n \in Nodes |-> FALSE]
  /\ doing = [n \in Nodes |-> "idle"] /\ sensing = eeSysJoined
  /\ heard = [n \in Nodes |-> {}] /\ known = {} /\ faults = 0

Fault == faults < MaxFaults /\ faults' = faults + 1

Does(n, what) == doing' = [doing EXCEPT ![n] = what]

(* appNwkDataReqBusy, while the super-loop runs.                           *)
InUse(n) == doing[n] \in {"sending", "ping", "report"}

(* A chain for `pan' is sent; some of those it is for may miss it.         *)
Air(pan, listeners) ==
  \/ /\ heard' = [n \in Nodes |-> heard[n] \cup IF n \in listeners THEN {pan} ELSE {}]
     /\ UNCHANGED faults
  \/ \E reached \in SUBSET listeners \ {listeners} :
       /\ heard' = [n \in Nodes |-> heard[n] \cup IF n \in reached THEN {pan} ELSE {}]
       /\ Fault

(* The hub repeats the chain as long as it likes.                          *)
HubChain(h) ==
  /\ Air(h, {n \in Nodes : h \in Near[n]})
  /\ UNCHANGED <<ram, eeprom, known>>

-----------------------------------------------------------------------------
(* CMDDataIOStateMachine, for a join chain.  A chain that is followed      *)
(* while the request is in use has appBroadcastData wait, or is lost when  *)
(* the confirmation, which sets appState, comes before.  One that is not   *)
(* followed stays in the ring as long as the request is in use.            *)
Follows(n, pan) == ~ SysJoinChained[n] \/ pan # App_PanID[n]

PassOn(n) ==
  \/ doing[n] = "idle" /\ Does(n, "chain") /\ UNCHANGED faults
  \/ InUse(n) /\ Does(n, "stuck") /\ UNCHANGED faults
  \/ InUse(n) /\ UNCHANGED doing /\ Fault

Follow(n, pan) ==
  /\ Follows(n, pan)
  /\ SysJoinChained' = [SysJoinChained EXCEPT ![n] = TRUE]
  /\ App_PanID' = [App_PanID EXCEPT ![n] = pan]
  /\ joinTimer' = [joinTimer EXCEPT ![n] = TRUE]
  /\ PassOn(n)

Ignore(n, pan) ==
  /\ ~ Follows(n, pan) /\ doing[n] = "idle"
  /\ UNCHANGED <<SysJoinChained, App_PanID, joinTimer, doing, faults>>

TakeForEver(n, pan) ==                                             \* faulty variant
  /\ pan \in heard[n] /\ heard' = [heard EXCEPT ![n] = @ \ {pan}]
  /\ Follow(n, pan) \/ Ignore(n, pan)
  /\ UNCHANGED <<resetTimer, nwkPan, sensing, eeprom, known>>
TakeUnmarked(n, pan) ==                                            \* faulty variant
  /\ pan \in heard[n] /\ heard' = [heard EXCEPT ![n] = @ \ {pan}]
  /\ resetTimer' = [resetTimer EXCEPT ![n] = TRUE]
  /\ App_PanID' = [App_PanID EXCEPT ![n] = pan]
  /\ joinTimer' = [joinTimer EXCEPT ![n] = TRUE]
  /\ PassOn(n)
  /\ UNCHANGED <<SysJoinChained, nwkPan, sensing, eeprom, known>>
Take(n, pan) ==
  /\ pan \in heard[n] /\ heard' = [heard EXCEPT ![n] = @ \ {pan}]
  /\ resetTimer' = [resetTimer EXCEPT ![n] = TRUE]
  /\ Follow(n, pan) \/ Ignore(n, pan)
  /\ UNCHANGED <<nwkPan, sensing, eeprom, known>>

(* appBroadcastData and the end of the transmission.                       *)
appBroadcastData(n) ==
  /\ doing[n] = "chain" /\ Does(n, "sending")
  /\ Air(App_PanID[n], Near[n] \cap Nodes)
  /\ UNCHANGED <<App_PanID, SysJoinChained, joinTimer, resetTimer, nwkPan, sensing,
                 eeprom, known>>

appDataConf(n) ==
  /\ doing[n] = "sending" /\ Does(n, "idle")
  /\ UNCHANGED <<App_PanID, SysJoinChained, joinTimer, resetTimer, nwkPan, sensing,
                 eeprom, heard, known, faults>>

-----------------------------------------------------------------------------
(* appAsyncJoinTimerHandler and the join ping it puts into the ring.  But  *)
(* for late nodes the broadcast is over by then: it takes milliseconds,    *)
(* the timer 500 and more.  Where it is not, the handler's appState loses  *)
(* the chain, or the ping finds the request in use; a report may be under  *)
(* way in any node.  The ping is relayed by nodes that are tuned to the    *)
(* PAN already.                                                            *)
Relays(h) ==
  LET upTo[k \in 0 .. Cardinality(Nodes)] ==
        IF k = 0 THEN {h}
        ELSE upTo[k - 1] \cup
             {n \in Nodes : /\ nwkPan'[n] = h /\ doing[n] # "stuck"
                           /\ Near[n] \cap upTo[k - 1] # {}}
  IN  upTo[Cardinality(Nodes)]

Ping(n) ==
  \/ /\ doing[n] = "idle"
     /\ known' = known \cup {<<n, h>> : h \in {g \in Hubs : g = App_PanID[n] /\ n \in Relays(g)}}
     /\ UNCHANGED faults
  \/ doing[n] \in {"idle", "chain"} /\ Fault /\ UNCHANGED known

JoinPing(n) ==
  /\ joinTimer[n] /\ (doing[n] \in {"chain", "sending"} => n \in Late)
  /\ joinTimer' = [joinTimer EXCEPT ![n] = FALSE]
  /\ nwkPan' = [nwkPan EXCEPT ![n] = App_PanID[n]]
  /\ \/ Ping(n) /\ Does(n, "ping")
     \/ InUse(n) /\ Does(n, "stuck") /\ UNCHANGED <<known, faults>>
  /\ UNCHANGED <<App_PanID, SysJoinChained, resetTimer, sensing, eeprom, heard>>

(* appSystemJoinConf, whatever became of the ping: the two bytes of the    *)
(* PAN, one after the other, and then the flag, unless the EEPROM is busy; *)
(* and readings from now on.                                               *)
FlagFirst(n) ==                                                    \* faulty variant
  /\ doing[n] = "ping" /\ Does(n, "word")
  /\ eeDefaultPan' = [eeDefaultPan EXCEPT ![n] = IF @ = App_PanID[n] THEN @ ELSE Torn]
  /\ eeSysJoined' = [eeSysJoined EXCEPT ![n] = TRUE]
  /\ UNCHANGED <<App_PanID, SysJoinChained, joinTimer, resetTimer, nwkPan,
                 sensing, heard, known, faults>>
appSystemJoinConf(n) ==
  /\ doing[n] = "ping"
  /\ \/ /\ eeDefaultPan' = [eeDefaultPan EXCEPT ![n] = IF @ = App_PanID[n] THEN @ ELSE Torn]
        /\ Does(n, "word") /\ UNCHANGED <<sensing, faults>>
     \/ /\ Does(n, "idle") /\ sensing' = [sensing EXCEPT ![n] = TRUE]
        /\ Fault /\ UNCHANGED eeDefaultPan
  /\ UNCHANGED <<App_PanID, SysJoinChained, joinTimer, resetTimer, nwkPan,
                 eeSysJoined, heard, known>>

WriteWord(n) ==
  /\ doing[n] = "word" /\ Does(n, "byte")
  /\ eeDefaultPan' = [eeDefaultPan EXCEPT ![n] = App_PanID[n]]
  /\ UNCHANGED <<App_PanID, SysJoinChained, joinTimer, resetTimer, nwkPan,
                 sensing, eeSysJoined, heard, known, faults>>

WriteJoined(n) ==
  /\ doing[n] = "byte" /\ Does(n, "idle")
  /\ eeSysJoined' = [eeSysJoined EXCEPT ![n] = TRUE]
  /\ sensing' = [sensing EXCEPT ![n] = TRUE]
  /\ UNCHANGED <<App_PanID, SysJoinChained, joinTimer, resetTimer, nwkPan,
                 eeDefaultPan, heard, known, faults>>

(* A reading or a switch state of a joined node, sent and confirmed.  The  *)
(* handler that asks for it sets appState and so loses a chain that is to  *)
(* be passed on; a request in use is waited for.                           *)
Report(n) ==
  /\ sensing[n]
  /\ \/ doing[n] = "idle" /\ Does(n, "report") /\ UNCHANGED faults
     \/ doing[n] = "chain" /\ Does(n, "report") /\ Fault
     \/ InUse(n) /\ Does(n, "stuck") /\ UNCHANGED faults
  /\ UNCHANGED <<App_PanID, SysJoinChained, joinTimer, resetTimer, nwkPan, sensing,
                 eeprom, heard, known>>

ReportConf(n) ==
  /\ doing[n] = "report" /\ Does(n, "idle")
  /\ UNCHANGED <<App_PanID, SysJoinChained, joinTimer, resetTimer, nwkPan, sensing,
                 eeprom, heard, known, faults>>

-----------------------------------------------------------------------------
(* appAsyncJoinChainResetTimerHandler.  65 seconds are long enough for the *)
(* chain to have died down and, but for late nodes, for the node's own     *)
(* ping to be over; not for its readings, which come all the time.         *)
Stuck(n) == doing[n] = "stuck"
Quiet == \A n \in Nodes : Stuck(n) \/ (heard[n] = {} /\ doing[n] \notin {"chain", "sending"})

ResetChain(n) ==
  /\ resetTimer[n] /\ Quiet /\ ~ Stuck(n) /\ doing[n] \notin {"word", "byte"}
  /\ n \notin Late => ~ joinTimer[n] /\ doing[n] # "ping"
  /\ resetTimer' = [resetTimer EXCEPT ![n] = FALSE]
  /\ SysJoinChained' = [SysJoinChained EXCEPT ![n] = FALSE]
  /\ UNCHANGED <<App_PanID, joinTimer, nwkPan, sensing, doing, eeprom, heard, known, faults>>

(* The node loses its supply at any moment and starts again: appInit.      *)
Restart(n) ==
  /\ Fault
  /\ App_PanID' = [App_PanID EXCEPT ![n] = eeDefaultPan[n]]
  /\ nwkPan' = [nwkPan EXCEPT ![n] = eeDefaultPan[n]]
  /\ SysJoinChained' = [SysJoinChained EXCEPT ![n] = FALSE]
  /\ joinTimer' = [joinTimer EXCEPT ![n] = FALSE]
  /\ resetTimer' = [resetTimer EXCEPT ![n] = FALSE]
  /\ sensing' = [sensing EXCEPT ![n] = eeSysJoined[n]]
  /\ Does(n, "idle") /\ heard' = [heard EXCEPT ![n] = {}]
  /\ UNCHANGED <<eeprom, known>>

SuperLoop(n) ==
  \/ appBroadcastData(n) \/ appDataConf(n)
  \/ appSystemJoinConf(n) \/ WriteWord(n) \/ WriteJoined(n) \/ ReportConf(n)

Node(n) ==
  \/ \E pan \in Hubs : Take(n, pan)
  \/ SuperLoop(n) \/ JoinPing(n) \/ Report(n) \/ ResetChain(n) \/ Restart(n)

Next == (\E h \in Hubs : HubChain(h)) \/ (\E n \in Nodes : Node(n))

Spec == Init /\ [][Next]_vars

(* The hub repeats its chain, super-loops run and take what is in the ring *)
(* between reports, and timers that are started expire.                    *)
FairSpec ==
  /\ Spec
  /\ \A h \in Hubs : WF_vars(HubChain(h))
  /\ \A n \in Nodes :
       /\ WF_vars(SuperLoop(n)) /\ SF_vars(\E pan \in Hubs : Take(n, pan))
       /\ SF_vars(JoinPing(n)) /\ SF_vars(ResetChain(n))

-----------------------------------------------------------------------------
(* Once faults are over every node is on the hub's PAN, for good and after *)
(* a restart too, and the hub knows of it; although a node says it has     *)
(* joined when its ping was lost, or sent before its neighbour was tuned.  *)
(* It may be that a node ends in the wait for a request in use instead.    *)
At(n, h) ==
  /\ nwkPan[n] = h /\ eeDefaultPan[n] = h /\ eeSysJoined[n]
  /\ <<n, h>> \in known
EveryoneJoins ==
  \/ \E h \in Hubs : <>[](\A n \in Nodes : At(n, h))
  \/ <>[](\E n \in Nodes : Stuck(n))

(* Nodes do not send a chain round and round between them.                 *)
FloodsEnd == []<>Quiet

(* A node is marked as joined only with all of a PAN in its EEPROM: where  *)
(* the supply fails does not matter.                                       *)
JoinedWhole == \A n \in Nodes : eeSysJoined[n] => eeDefaultPan[n] # Torn
=============================================================================
