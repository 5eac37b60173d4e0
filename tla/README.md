# Verification of the Squirco light switch firmware

TLA+ models, TLC configurations and TLAPS proofs for the firmware in
`src/Firmware/squirco_LS_v0.5b/firmware_core/src/` (written `…/` below): a
wall switch on an ATmega256RFR2 that toggles a relay, reports its sensors and
its switch to a hub, takes commands from the hub, and joins the hub's network
through its neighbours. It contains Atmel's Lightweight Mesh stack, of which
the firmware in use is the configuration in `…/config.h`: unicast routing
without route discovery, security, no multicast.

## 1. The system

### 1.1 How it runs

`main` (`…/main.c:495`) initialises everything and then loops for ever:

    SYS_TaskHandler:  PHY_TaskHandler
                      NWK_TaskHandler: nwkRx, nwkTx, nwkDataReq, nwkSecurity
                      SYS_TimerTaskHandler
    APP_TaskHandler

There are no threads. Concurrency is of three kinds:

* two interrupts (the timer tick, the radio) that leave counts and flags for
  the loop;
* callbacks: the network layer calls the application with received data and
  with confirmations, the timer handler calls the network layer and the
  application, in the middle of what these were doing over several passes;
* the other nodes and the air, which lose, repeat, delay and reorder frames.

A handler that waits does so by keeping a state and returning, so that almost
every operation is spread over several passes. Whatever else runs between two
passes may change what the operation relies on. One handler waits in place
(`appSendData`), and that is the first finding below.

### 1.2 Inventory

| Component | State | Operations | What makes it correct |
|---|---|---|---|
| Frame engine (`nwkFrame.c`, `nwkDataReq.c`, `nwkTx.c`, `nwkRx.c`, `nwkSecurity.c`) | pool of frames with state, header and tx part; request queue; busy count `nwkIb.lock`; active frame of the radio and of the cipher; two timers; sequence number | NWK_DataReq; PHY_DataInd, PHY_DataConf; one iteration of each task handler's sweep; timer handlers | every frame is released and every request confirmed, once, with its own outcome; busy count exact; one frame on the radio, one in the cipher |
| Route table (`nwkRoute.c`) | entries: destination, next hop, score, rank, link quality | learn from a received frame, mark a transmission as good or failed, remove | one route per destination; replacement by rank; a dead next hop is given up |
| Duplicate filter (`nwkRx.c:203-288`) | per source: newest number, window mask, time to live; timer | reject or accept; age | accepted once, fresh frames not rejected, entries expire |
| Software timers (`sysTimer.c`, `halTimer.c`) | list of differences; tick count | start, stop, restart, task handler, tick interrupt | each timer is a countdown of its own; none lost, none linked twice |
| Application (`main.c`, `commands.c`, `LSButton.c`, `sensors.c`) | application state; one request with its busy flag; command ring; destination, confirmation type; PAN of the join chain; switch and relay; EEPROM | receive; confirm; timer handlers; one pass of APP_TaskHandler in each state; command dispatch; button | message, destination and confirmation belong together; request not reused; PAN consistent; relay follows the switch; reports reach the hub; commands have their effect |
| Radio driver (`phy/atmegarfr2/phy.c`) | driver and transceiver state, interrupt flags, frame buffer and its protection | send, task handler, receiver on and off, sleep, random number | a pass hands over at most one frame or one end of transmission; a frame stays until it is copied; the node always listens again |
| Network set-up (`nwk.c`) | addresses, PAN, endpoints | init, setters, sleep | |
| Over-the-air update (`otaServer.c`, `otaClient.c`) | on either side: state, session, size left, CRC, retries, one command, one request, timers | start, send a block, confirm it; confirmation, timer and command handlers | the image is handed over in order; completion means a complete image; a session ends; request and timers belong to the state |
| Encryption back-end (`sysEncrypt.c`) | | one cipher block | |
| Network of nodes (`nwkTx.c`, `nwkRx.c`, `nwkRoute.c` of several nodes) | routes, known frames and sequence number of each node, frames under way, links | send, relay, answer, learn, forget; links change, frames are lost, nodes restart | a report is delivered once; stale routes wear out; acknowledgements find back |
| Joining (`main.c`, `commands.c` of several nodes) | PAN followed, chain mark, two timers, PAN of the radio and EEPROM of each node | hear a chain, pass it on, ping the hub, write the EEPROM, forget the chain, restart | every node ends with the hub; floods end; the EEPROM is whole |
| Route discovery (`nwkRouteDiscovery.c`) | table of discoveries with sender and link qualities, timer, waiting frames | request, reply, time out | routes do not run in circles; the best is found; each frame leaves |
| Multicast (`nwkGroup.c`) | list of groups | compiled out | |
| ADC, LED driver, UART, other ports | | | |

### 1.3 Interactions

* Application to network: `NWK_DataReq` puts `appNwkDataReq` on the queue;
  its `confirm` is called in a later pass. Received data is handed to
  `appDataInd`, which puts it into the command ring.
* Timers: `sysTimer` calls the application's handlers, which put commands into
  the same ring and set the application state, and the network layer's, which
  move frames on.
* Network to route table and duplicate filter: synchronous calls of the receive
  and transmit handlers.
* Network to radio: `PHY_DataReq`, answered by `PHY_DataConf`; `PHY_DataInd`.
* Node to node: data frames, acknowledgements and route errors, relayed by nodes
  between; the join chain, which the applications themselves pass on; the ping
  by which the hub gets to know a node.

### 1.4 What is hard

`PROJECT.json` lists the hazards, each at its line. In short: the pool is
exhausted inside a handler that allocates; acknowledgements come late, twice,
or for a sequence number that has been used again; a slot is reused while a
confirmed request still points at it; timeouts are decremented before they are
tested; a report is prepared in three passes while timers and confirmations
intervene; one retry counter serves three kinds of report; the ring index
moves between taking an entry and using it; ranks are halved at their limit;
frames arrive out of order and across a wrap; a timer handler changes the list
that is being worked off; responses and blocks of an upgrade come late, twice or
for an earlier session; a frame arrives while the last one waits to be copied
or while the driver turns to sending; routes outlive links, so that frames run in
circles; a node restarts between two writes of its EEPROM, or with sequence
numbers that the others have seen before.

## 2. Modules

| Module | Models | Composes |
|---|---|---|
| `DataService` | abstract: what the network layer promises about data requests | |
| `NwkCore` | the frame engine of one node | implements `DataService`; abstracts route table and duplicate filter to their possible answers |
| `NwkRoute` | the route table | implements `RouteMap` |
| `RouteMap` | abstract: a bounded map from destinations to next hops | |
| `NwkDuplicate` | the duplicate filter and copies of frames in flight | |
| `SysTimer` | software timers and the tick interrupt | implements `Countdown` |
| `Countdown` | abstract: a set of independent countdowns | |
| `PhyDriver` | the radio driver and the transceiver | implements `PhyService` |
| `PhyService` | abstract: the radio as `NwkCore` takes it to be | |
| `SquircoApp` | the application of one node | takes the network layer to be what `DataService` says |
| `Mesh` | several nodes that relay reports and acknowledgements | takes each node to be what `NwkCore`, `NwkRoute` and `NwkDuplicate` show |
| `JoinChain` | several nodes that join a hub | the join chain of `SquircoApp`, several times |
| `RouteDiscovery` | route discovery between several nodes | takes the route table to be `RouteMap` |
| `OtaUpgrade` | upgrade server, upgrade client and the network between them | takes the network layer and the timers to be what `NwkCore` and `SysTimer` show |
| `MC*` | small instances for TLC | `MCNwkTables` has `NwkRoute` and `NwkDuplicate`, `MCDrivers` has `PhyDriver` and `SysTimer` |
| `*Proofs` | theorems and proofs about `NwkCore`, `SquircoApp`, `OtaUpgrade`, `Mesh`, `JoinChain`, `RouteDiscovery` | `NwkTablesProofs` is about `NwkRoute` and `NwkDuplicate`, `DriversProofs` about `PhyDriver` and `SysTimer` |

`PROJECT.json` maps each definition to its lines. Operators marked "faulty
variant" are used by no specification: each is a plausible mistake in the
definition that follows it, kept to show that a property notices it.

### 2.1 NwkCore

`task` is the task handler being run and `cur` the frame its sweep over the
pool visited last, so that a step is one iteration of a handler's loop; a sweep
never goes back, as in the code. `state`, `hdr`, `tx` are the fields of
`NwkFrame_t`. `PhyRx` is PHY_DataInd with a header of `Inbound`, `PhyConf` is
PHY_DataConf; `RxReceived` … `RxFinish`, `TxEncrypt` … `TxConfirm` are the cases
of the two switches; `ReqSend` and `ReqConfirm` those of nwkDataReqTaskHandler;
`Sec*` those of nwkSecurityTaskHandler; `AckTick` and `DelayTick` the timer
handlers. Broadcast copies, acknowledgements and route errors are allocated
inside the receive handler's actions, with both outcomes of the allocation.

Abstractions:

* Addresses are this node, another, and broadcast. A lookup in the route table
  may find a hop or not; any frame may or may not be a duplicate.
* Payloads are only: taken by the endpoint, refused by it, or an ACK command.
* A frame for a foreign PAN, or one that the receive handler drops before it
  allocates, is `PhyIdle`; a frame for which the pool is exhausted is lost.
* `SYS_EncryptReq` calls back synchronously in this build, so that the
  intermediate state WAIT of the cipher is inside `SecProcess`.
* A frame that is freed or confirmed gets default fields back (the code clears
  them on the next allocation); the same for the cipher's direction.
* `tx[n].acked` and `reqs[r].acked` are history: the ACK has really come.

`DataService` is what an application may rely on: a request is answered once, and
one that asks for an acknowledgement with success exactly if that has come.
`Phase` and `Calls` say which of its states a request of the engine is in.

### 2.2 NwkRoute and RouteMap

One action per call: `FrameReceived`, `Sent`, `Failed` (the two outcomes of
nwkRouteFrameSent), `Remove`. The search for a known entry and for the entry to
take are those of the code: first match; first of rank zero, else lowest rank.
Nothing in this firmware sets `fixed`, and `nwkRouteUpdateEntry` is called only
by route discovery; neither is modelled. `lost` is history. `RouteMap` is what
the other layers rely on: a bounded map that changes by one route at a time and
gives one up for another only when full.

### 2.3 NwkDuplicate

The table, its timer and an environment in which each source sends consecutive
numbers and any of the last `MaxLag` may arrive, any number of times or never.
Its names differ from those of `NwkRoute` (`FilterSpec`, `Entries`, `Sources`), so
that one module may extend both. The mask is the set of its bits; `mask << shift` keeps `Window` of them, and a
shift by 16 or more gives 0 (what the AVR compiler's shift loop produces).

### 2.4 SysTimer and Countdown

`timers` is the linked list, `timeout` the differences. The tick interrupt may
come at any step. `Enter`, `Expire`, `HandlerDone`, `Leave` are the parts of
SYS_TimerTaskHandler; tasks start and stop timers between two calls of it, and
handlers do so within one. A stopped timer's `timeout`, which the code leaves as
it is and never reads, is reset to 0. Its names differ from those of `PhyDriver`
(`TimersSpec`, `clock`), so that one module may extend both. `Countdown` is a set of timers that each
count down for themselves, with time taken off in the order in which they are
due.

### 2.5 SquircoApp

`task` is the part of the loop being run. The actions have the names of the C
functions, or of the state of APP_TaskHandler they are the case of. `ring`,
`start`, `end` are the command buffer with its overflow (an entry that does not
fit makes it look empty). The network layer takes the data of a request in the
pass after NWK_DataReq (`NetSend`: `frame` is what it copied) and confirms it
once, later (`NetConfirm`): the interface NwkCore has for one request. The
time a button is held, readings and intervals are the choices they lead to.

* `LSHoldDuration` (`…/LSButton.c:34`) is an uninitialised local that is read
  when the button is up without having been down. In the -Os build its value is
  whatever the register holds: `Flip` may happen or not.
* `NO_ACK` stands for the statuses 0x10 and 0x11, which have the bit the
  confirmations test; every other error is `ERROR`.
* `asked`, `frame.asked`, `try`, `hubAcked` are history.

### 2.6 PhyDriver and PhyService

`trxStatus`, `rxEnd`, `txEnd`, `buffer` and `protected` (rxSafeMode) are the
transceiver, which receives, acknowledges and sends by itself; its actions come
between any two of the driver's. `cpu` is where PHY_TaskHandler is: the loop, the
copy of the frame (`Indicate`), the wait for the end of its acknowledgement
(`Release`). The other calls finish in one step: phyTrxSetState waits for a state
that the transceiver is forced into. `pending` is history: the frame that raised
`rxEnd`. PHY_Sleep and PHY_Wakeup are called by nothing in this firmware; they are
those of an application that asks NWK_Busy first.

### 2.7 Mesh

A node deals with a received frame in one step (`Received`), up to the frames that
leave it, because `NwkCore` has shown that what lies between ends. A node's tables
have room for every other node, and link quality is not averaged over frames: the
quality of a frame is that of its link. `Transmit` is a frame on the air with the
nodes that get it, whether one of them gets it once more (its hardware
acknowledgement was lost) and the status the radio reports; `Unicast` and
`Broadcast` say which of these may be. A source sends one report after the other,
as the application does, and reports count their frames from zero (`Report`), since
the frames of the last one are gone. `faults` counts what the air does wrong: a
link comes, goes or changes, a frame or a hardware acknowledgement is lost, a node
restarts. Security and the random delays do not appear: any order of sending is
possible.

### 2.8 JoinChain

`Follow` and `Ignore` are the two branches of the join chain in
CMDDataIOStateMachine; `appBroadcastData`, `JoinPing`, `appSystemJoinConf`,
`WriteWord` and `WriteJoined` are what follows, with a restart between any two.
`doing` joins `appState` and `appNwkDataReqBusy` into one value. A node that has
joined, or found so at its start, reads its sensors (`sensing`: appDBTTimer and
appALSTimer run) and sends the readings with the same request (`Report`, at any time
and as often as it likes). Whoever needs the request while it is in use waits in place
for ever: "stuck" is that state (`…/main.c:173,248`), and `PassOn`, `JoinPing` and
`Report` may end in it. They do not always: a confirmation that comes in the passes
between sets the application state to idle, and the chain or ping is lost, which is one
of the faults.
EEPROM words are written byte by byte, so that a PAN may be `Torn`. Faults are lost
chains and pings, restarts, and the EEPROM that is not ready when the join is to be
recorded.

Times appear as orders, and these are assumptions: the reset timer (65 s) runs out
when the chain has died down between the nodes that are not stuck, and, except in the
nodes of `Late`, a broadcast ends before the join timer (500 ms and the address) does
and the node's own ping before the reset timer. Readings may be under way at any of
these moments. `Late` are nodes for which the times are no help: an address near the
end of the range, or a chain of another hub just when the join timer is due. The hub
is external and repeats its chain.

### 2.9 RouteDiscovery

The actions are the handlers of requests, replies and the timer; the timer's handler
goes through the table slot by slot (`Stays`, `Expires`), since what it does for one
changes the others. `Request` is nwkRouteDiscoveryRequest in its three cases: a
discovery is under way, a slot is free (and the pool may be empty), the table is
full. Times left are abstracted to live or not, and a discovery lasts until its
requests and replies are gone (`Settled`). `clean` is history: the discovery that
had the network for itself, about which `FindsBest` speaks. `RouteFails` is
nwkRouteFrameSent and the route errors of other nodes: it takes any route of any node
away.

### 2.10 OtaUpgrade

The actions have the names of the C functions; `ServerSent` and `ClientSent` are
the two functions `otaDataConf`, the server's and the client's. `srv` and `cli`
are `otaServer` and `otaClient`, `srvCmd` and `cliCmd` the command each side has
(a request sends what the command holds when it is sent, a retry sends it
again), `srvReq` and `cliReq` the stage of `otaDataReq`: "twice" is a request
that NWK_DataReq was given while it was with the network layer, which links it to
itself. A frame may still be made of it; then the network layer goes round the queue
for ever ("hung"), the server does and hears nothing more, and frames that have left
it still arrive. `OTA_ServerStartUpdrade` has no guard, as in the code
(`…/lwMesh/service/src/otaServer.c:125`), and comes at any time.
`Awaits` and `Resends` pair the server's states that differ in the bit 0x80.

The network sends a frame or loses it, delivers those in flight in any order,
and confirms what it likes: a failure for a frame that has arrived, and, for a
block or a block response, which ask for no acknowledgement, success for one
that has not. A start request or response is confirmed as successful only after
it has arrived. It delivers no frame twice (`AcceptedOnce` of `NwkDuplicate`),
but each side sends its command again.

Abstractions:

* Sizes are in blocks; a CRC is the sequence of blocks it was computed from, so
  that two different sequences never have the same. `SizeSpan` is 2^32, at which
  the client's size wraps.
* `rand()` never gives a session identifier again (`MaxSessions` of them).
* The applications of both sides are not in this firmware. The server's does what it
  likes, `MaxSessions` times; the client's answers each block once, with success or an
  error of its own.
* The pool has a frame for each request; that it is exhausted, and the request
  confirmed without a frame, is in `NwkCore`, and is a failure like others here.
* The test of the sizes of commands is left out: both sides send whole ones.
* `sent`, `handed`, `length`, `complete` and `notified` are history.

## 3. Runs

All bounds are CONSTANTS in the cfg named in `PROJECT.json`.

| Run | Question | Bounds, and why they suffice |
|---|---|---|
| `traffic` | Do counts and owners hold on every path a frame can take, and is every request confirmed by its own frame with its own outcome? | 3 frames: one received, its broadcast copy or acknowledgement or route error, and one more, so that both outcomes of every allocation occur at every point. `MCNwkTraffic` chooses one kind of traffic: received frames and no request, of eight kinds, one for each branch of the receive handler, the two secured ones, which compete for the cipher, apart from the six plain ones; or 2 requests, a secured acknowledged one and a broadcast one, and ACK commands for every number at any time, numbers modulo 2 so that they collide. Symmetric in the requests. |
| `live` | Does the engine implement `DataService`, and is everything confirmed and released? | 1 request, 2 frames, ACKs and secured frames. FairSpec. |
| `tables` | Are routes ordered, given up in time and a map; are frames accepted once and new ones not rejected? | `MCNwkTables` runs one table or the other. Routes: 2 entries, 3 destinations (replacement happens), one of them not routing; score 3, ranks 3 to 5, so that halving happens after two frames and again and again. Filter: 2 entries, 3 sources (the table is full), window 2, numbers modulo 6, so that they wrap; lifetime of 2 ticks. Symmetric in the sources. |
| `drivers` | Is the timer list a set of countdowns that all expire; is the radio what `NwkCore` takes it to be? | `MCDrivers` runs one driver or the other. Timers: 3 with intervals 1, 3 and 4, tick 2: one shorter than a tick (as appLSDebounceTimer), two periodic; interrupt count modulo 3, so that it wraps. Radio: 2 frames of others, told from one another and from the node's own. Fair. |
| `node` | Do message, confirmation and request stay together, and is what is sent about a PAN about the PAN followed? | `MCSquircoNode` chooses: both sensors and every command but the join chain, from the hub (`switch_state` has two addresses), 1 retry; or the chains of 2 hubs. A ring of 2, so that it wraps and overflows. |
| `mesh` | Is a report delivered once, and again and again, whatever routes are left from before? | 4 nodes: source, sink and two relays, in three topologies (line, diamond, ladder) among which the links change; 3 faults, so that one comes after the repair of another; score 2. FairSpec. |
| `join_chain` | Do all nodes join, and stay whole, whatever is lost and whenever one restarts? | A hub and 2 nodes, one of which the hub does not reach, and which is in `Late`; 3 faults, so that a node may restart in the middle of its second join, a write be refused and a chain lost. FairSpec. |
| `discovery` | Do routes end, is the best found, does each frame leave? | 4 nodes in a triangle with a tail, the best way round the triangle; two discoveries that cross each other, each passing through or by the nodes of the other, and compete for tables of one entry; 1 fault. FairSpec. |
| `upgrade` | Is the image handed over in order, is completion true, does each session end? | An image of 2 blocks, so that there is a middle and an end; 2 sessions, the second started at any moment of the first or after it, so that frames of the first arrive in the second; 2 frames in flight, so that they overtake; 3 retries as in the code; sizes modulo 5, so that the client's size passes zero and is told from every size sent. FairSpec. |
| `wait`, `attempts`, `switch_state` | findings, section 6 | |

`AckTicks` = 2 and `MaxJitter` = 1 make a frame wait for more than one tick and
for exactly one. `MaxBlocks` = 2 means payloads of no, one or two cipher
blocks: none for an own request without data and for a received frame of exactly the
MIC, one and two for the rest, those included whose size wraps because they are shorter
than the MIC; a longer one repeats `SecProcess`. `NwkDuplicate` is bounded by `MaxLag` < `Window`
(a frame later than the window is taken for a newer one, and frames already seen
may then be accepted again: nothing promises more) and by `MaxGap`, beyond which a
source has sent so many unheard frames that its new numbers look like old ones.
`TryCap` bounds the history of attempts; in the runs where nothing is said about
attempts it is 1.

`CHECK_DEADLOCK` is on except in `upgrade` and `discovery`: when the last of
`MaxSessions` upgrades is over and nothing is in flight, server and client really
rest; when the faults are used up and every frame has its route, no discovery is
needed any more.

The configurations beside the listed runs show what the code does not keep:

| Configuration | Result |
|---|---|
| `MCMesh_loop`, `MCDrivers_dropped`, `MCJoinChain_rejoin`, `MCJoinChain_hubs`, `MCRouteDiscovery_stale`, `MCRouteDiscovery_circle`, `MCRouteDiscovery_flat`, `MCSquircoApp_*` | refuted, section 6 |

### 3.1 Fairness

* The super-loop does not stop: `WF(Next)` and, where a step of a part could
  repeat for ever, weak fairness of the step that leaves it (`RxDone`,
  `TimersDone`). One received frame and finitely many timers are dealt with in
  a pass.
* A transmission ends: the transceiver retries a bounded number of times and
  then raises its interrupt (`SF` of PhyConf).
* A running timer becomes due: the tick interrupt comes for ever and the
  handler is called in every pass (`SF` of AckTick, DelayTick; `WF` of the
  interrupt in `SysTimer`).
* In `SquircoApp` a request is confirmed (`SF` of NetConfirm) because
  `RequestsConfirmed` holds in `NwkCore`.
* In `OtaUpgrade` the network layer sends and confirms every request (the same
  property), running timers become due (`EventuallyDue` of `SysTimer`), and the
  client's application answers for every block it is handed. Nothing is assumed
  of the server's application: `SessionsEnd` lets the server stay in READY, where
  it waits for a block.
* The transceiver finishes what it has begun, and the super-loop gets round to
  PHY_TaskHandler (`WF` of each of their steps in `PhyDriver`).
* In `Mesh` each node sends what it has to send (`FramesReleased` of `NwkCore`), the
  acknowledgement timer runs out, and the application goes on reporting.
* In `JoinChain` the hub repeats its chain, super-loops run and take what is in the
  ring between readings (`SF` of Take, which is disabled while the application is not
  idle), and timers that are started expire (`SF` of JoinPing and ResetChain, which wait
  for others). Nothing is assumed of readings: they may come at any rate or stop.
* In `RouteDiscovery` the commands of a discovery are received or lost (`SF`, since
  a node that is busy with its timer receives nothing), and a timer's handler gets
  to the end of the table and of each entry's time (`SF` of Expires per slot).
* Not assumed: that a frame is acknowledged or that anything is delivered. Where
  `Mesh`, `JoinChain` and `RouteDiscovery` promise delivery, it is because the
  faults are finitely many and there is a way for the frames.

`RequestsConfirmed` and `FramesReleased` are stated under `QuietAir`: from some
moment on nothing is received. Without it an endless stream of secured frames in
lower slots keeps the cipher from a higher one (nwkSecurityTaskHandler takes the
lowest pending slot first). This is a property of the code, listed as a hazard.

## 4. Proofs

TLAPS proves the following for every value of the constants that satisfies the
ASSUMEs: any pool, any set of requests and frames on the air, any ring, number of
PANs, table size, score and rank, any number of nodes, timers and faults. Only the
theorems about `JoinChain` assume more (`OneHub`, below), and `RoutesEnd` and
`RoutesLead` speak of destinations that one node alone seeks. The invariants named below were given to TLC on the runs' instances first.

### 4.1 NwkCoreProofs

There are three invariants, each on top of the one before.

*Types, radio and timers* (`TypeCorrect`, `RadioOwned`, `WaitersStayTimed`,
`OutcomesStand`): `IInv == TypeOK /\ RadioOwner /\ WaitersTimed`. Neither of the
last two is inductive without the types; `WaitersTimed` needs that a sweep that
moves a frame to a waiting state starts the timer in the same step and that a timer
handler restarts it if any frame waited. Most actions change the state of one frame
between states that are neither WAIT_CONF nor waiting; two lemmas deal with those
together. `OutcomeStands` is an action property that follows from `TypeOK` and the
guards of all the actions that write `tx`.

*Counts* (`LockAccounted`, `CipherExclusiveAlways`): `CInv` adds `LockAccounting`
and `CipherExclusive`. A count is that of a set of slots, and most steps move one
slot: `OneSlot` says what the cardinality of a set of slots does when one slot
changes, `PoolCount` and `CipherCount` apply it to the pool and to the frames of the
cipher. The receive handler is the case that is more: it may release a frame,
allocate one or two others and take one out of the cipher in one step.

*Requests and their frames* (`ConfirmsMatch`, `EngineServes`): `ConfirmMatches` is
not inductive, since it says nothing of requests that have been confirmed and keep
a frame pointer to a slot that is taken again. `SInv` adds `FramesSound` (a frame
with a confirmation function is on its way out; `acked` is set on the way to CONFIRM
only), `QueueSound` (the queue holds each request in use once) and `LinksSound` (a
waiting request has a frame of its own that asks for the acknowledgement it asks
for, each frame of a request has one that waits, and no request before a waiting one
in the queue points at the same frame). The last conjunct is what makes
nwkDataReqTxConf, which searches the queue from its head by the frame pointer, find
the right one: a stale pointer can only come after it. A step leaves most frames
`Steady`; only confirming, sending, answering and NWK_DataReq change links.
`EngineServes` then shows that each step is one of `DataService` or leaves what the
application sees unchanged. A request that asked for an acknowledgement is decided
with success exactly if its own has come, because `FramesSound` ties the status of
the frame to `acked` when it reaches CONFIRM.

### 4.2 SquircoAppProofs

`AppTypeCorrect`, `ConfirmAlwaysFits`, `RequestNeverReused`, `OnePanFollowed`,
`RelayAlwaysFollows`. `ConfirmFitsMessage` speaks of the frame that has been sent,
and its cause lies up to three passes earlier, so that the invariant has a conjunct
for each: `Prepared` (in state SEND, message and `CMDDataConfType` belong together;
in state BROADCAST the message is the join chain), `Issued` (a request that has
been issued and not yet copied still has its message: the network layer takes it
before the application runs again), `BusyHolds` (a request that is queued has
`busy` set) and `Idles` (commands are dispatched from the idle state only).
`OnePan` says which PAN a join chain and a join ping that are being prepared are
about. The proof shows why timers and confirmations may intervene: they set the
state to idle, which loses a message but never mixes two.

### 4.3 NwkTablesProofs

*Route table* (`RouteTypeCorrect`, `RoutesUnique`, `RanksStayOrdered`,
`FailuresStayCounted`, `TableIsMap`). The invariant is the conjunction of the first
four. The lemmas say what a search returns (`Finds`, `Takes`) and that halving keeps
the rank of a live entry at least 2, which is why the code adds 1 after halving.
`TableIsMap` is the refinement of `RouteMap`: since no destination has two entries,
the table is a map, writing a slot adds one route and gives up at most the one that
was in the slot, which the search chooses only if no slot is free, that is, if the
map is full (`DestsCount` counts its domain by its slots). Halving the ranks changes
no route.

*Duplicate filter* (`EntriesExpire`, `CopiesRejected`, `NewFramesPass`). What the
table knows and what has happened are tied by `Entered`: of each live entry, `Follows`
(its sequence number is not so far behind the newest sent that the distance, modulo
256 in the code, wraps into the window) and `Remembers` (of every number that may
still arrive, the mask tells whether a frame with it has been accepted). With
`OneEntry` (no source has two live entries) and `Bounded` (what is kept of the
history) that is inductive, and both properties follow. The heart is modular
arithmetic: `Located` and `Distances` say when a number lies in the window before or
after the entry's; `NewerRemembers` that the shift keeps the bits of the frames that
may still arrive, also when it shifts all of them out.

### 4.4 OtaUpgradeProofs

`OtaTypeCorrect`, `RequestsStayMatched`, `TimersStayMatched`, `BlocksStayInOrder`,
`StartsAloneCollide`, `CompletionTrue`. The first invariant adds two parts to the three it
proves. `StartsAloneCollide` follows from `RequestsMatch`: every other function that
queues the request does so in a state in which it is free, which is not so of a start
(`StartCollides`, `OthersQueueOnce`).
`RetriesLeft`: a busy side has a retry left, without which the counters could pass
zero. `Images`: every CRC under way, in a command or in the air, is that of a
beginning of the image, and the client's is that of the blocks it has handed over as
long as it may accept another. A block is then accepted only if what has been handed
over, continued by it, is again a beginning of the image, whichever attempt or
session the frame is from. The proof uses the abstraction of the CRC: it says that
the protocol mixes no blocks, not that 16 bits find every error. It bounds neither
retries, sessions nor frames in flight.

`CompletionTrue` needs more, since an answer COMPLETED may come from any command
that is still in the air (`OInv`). `CommandsHonest`: every command under way is of a
session that has begun, has the size of that session's image, and says COMPLETED
only if the client has completed it. `ServerCounts` and `ClientCounts`: on either
side, what is left and what has been sent or handed over add up to the size of the
image, the client's modulo 2^32 only when it has given the session up. The client
thus reaches size 0, and says COMPLETED, exactly when it has handed over the whole
image; the server believes only answers of the current session.

### 4.5 DriversProofs

Timers: `TimersLinkedOnce`, `ListIsCountdowns`: the list of differences implements
`Countdown`, for any number of timers, intervals and ticks. The time at which a
timer is due is a sum along the list, so that this is a proof by induction over its
length. The prover cannot instantiate the library's induction theorems, which take a
predicate; `Induction` here takes a set of naturals instead and follows from the
existence of minimal elements. `SumExists` and `DueAtIs` connect the recursive
function of `DueAt` with a function that has its equations (`Sums`); from there on
each operation on the list is one lemma that exhibits the sums of the new list:
`StartMaps` (placing a timer leaves all others due when they were), `StopMaps` (the
next timer inherits the time of the one stopped), `TailMaps` (the first is due no
later than the others, and taking it off takes its time off all) and `SettleMaps`.
`PlaceIs` says that the timers due no later are exactly those before the position
placeTimer finds. The invariant is `TypeOK /\ LinkedOnce` and that no time is left over outside
the handler.

Radio: `FramesAreKept`, `DriverServes`. `FrameKept` is not inductive: the transceiver must
not get the buffer while a frame waits in it, which depends on the driver's state.
`InStep` says that the transceiver is in a state that the driver's allows, that the
flag of a received frame is down while the driver waits for the end of a
transmission, and that PHY_TaskHandler is in the middle of a frame only when the
driver is idle. `DriverServes` is the safety part of `ImplementsService`: each step
of driver or transceiver is a step of `PhyService` or changes nothing it sees. That a
transmission is confirmed in the end is liveness and stays with TLC.

### 4.6 MeshProofs

`ReportsDeliveredOnce`. `DataSound`: all data on the air is the one report, and the
source has a copy to send only until it has sent it. `TakenSound`: once the sink has
taken the report, its duplicate filter knows the report's number. `NumberSound`:
while the source waits for its acknowledgement, number 0 of the source is the
report's, so that an acknowledgement of number 0 comes from a sink that has taken it;
an acknowledgement left from before would break this, and the model's reports begin
only when the frames of the last one are gone, as the code's sequence numbers come
round only after 256 frames. Routes, links and faults do not occur in the invariant:
delivery at most once owes nothing to them.

### 4.7 JoinChainProofs

`JoinedStaysWhole`, for one hub and nodes that have not joined before (`OneHub`); without
either the code does not keep the property (section 6). Faults, addresses (`Late`) and
readings are any. `FlagLast` says that the joined flag is
set, or about to be set, only when the PAN in the EEPROM is whole; a second join then
writes the PAN that is there already. `ChainKept` and `Joining` say that a node that is
busy with a chain, a ping or the EEPROM follows the PAN of the hub by then. That a node
does not wait for ever is no theorem: joining and readings lead there.

### 4.8 RouteDiscoveryProofs

`DiscoveryTypeCorrect`, `RoutesNeverCircle`, `RoutesLeadThere`, for any nodes, links,
table size and faults. `RoutesEnd` says nothing of how it comes about, and no node
knows more than its neighbours. The invariant is that for each destination d

* there is no circle of next hops to d (`NoCircle`: every set of nodes without d has
  a next hop that leaves it), and
* while replies of the discovery are under way, the nodes that have followed one
  form a set F (`Fresh`) in which the reverse quality never falls from a node to its
  next hop, and to which the senders of all replies belong, with at least the quality
  the reply carries.

A node follows only a reply that is better than the one it followed before (`Accepts`).
The nodes of F that have at least the quality of the reply lead from its sender to d,
and the node itself is not among them: a circle through the new next hop would be a
circle among the old ones (`FollowedIsSafe`). The nodes outside F may keep routes from
before, in any order. Every other step is `Quiet`: it writes no route to d, keeps the
qualities of the discovery or leaves no reply of it under way. That an entry is given
up only when no reply of its discovery is under way (`Settled`) is needed here: with a
reply still on its way through nodes that have forgotten what they had, F would be
lost. So is `SoughtAlone`: the two discoveries of `MCRouteDiscovery_circle` keep their
qualities apart, but write the same next hops.

`NoCircleEnds` goes from the invariant to walks: among as many hops as there are nodes,
and one more, a node occurs twice (`FS_PigeonHole`), and what is between would be a
circle. `StepByStep` is induction over a set of naturals, from which `HopsExist` and
`WalkIs` take what the recursive function in `Walk` computes. `RoutesLeadThere` adds
`Linked`: a reply goes on only from a node that has set its own next hop. Its hypothesis,
that no route is taken away, is about the behaviour, not about its constants: losing
commands, running out of frames and full tables are all allowed. TLC checks it with
`KeptSpec` and the invariant `RoutesLead` in `MCRouteDiscovery.cfg`; the inductive
invariant was given to TLC on the instance of `discovery` and on one with tables of two
entries and two faults.

### 4.9 Model-checked only

All liveness, which the prover does not reach: `RequestsConfirmed`,
`FramesReleased`, `EventuallyDue`, `Attentive`, `SessionsEnd`, `Delivered`,
`Acknowledged`, `EveryoneJoins`, `FloodsEnd`, `FramesLeave`, and the fairness part of
`PhyService`. Of the invariants only `FindsBest` of `RouteDiscovery`, which is no
theorem: it holds for the links of the run and not for all (section 6).
`AppTypeCorrect`, `RelayAlwaysFollows`, `RouteTypeCorrect`, `RoutesUnique`,
`TimersLinkedOnce`, `DiscoveryTypeCorrect` and `RoutesLeadThere` are proved and no run
repeats them.

## 5. Hazards and properties

The properties are stated and commented in the modules, at their end. The
`hazards` of `PROJECT.json` say which property is aimed at which line; a hazard
without a property has a note that says why.

## 6. What the checks found

Three statements of the sources about the program do not hold, each shown by a
run:

1. `wait`: `appSendData` (`…/main.c:173`) waits in place for
   `appNwkDataReqBusy`, which only a confirmation from the super-loop clears. If a
   command is prepared while a request is in progress, the node stops for ever.
2. `attempts`: a report that is not acknowledged is sent again without end.
   `tx_tries` is reset as soon as it reaches APP_MAX_TX_RETRIES by the very
   confirmation that asked for the retry (`…/main.c:106`).
3. `switch_state`: `CMDPushLSState` (`…/commands.c:69`) reads the destination
   from the ring's start index, which has moved on already.

Six more statements in `SquircoApp` are refuted by TLC with the configurations
beside them, named `MCSquircoApp_*.cfg`:

* `ToggleCommandTaken` (`_toggle`): a remote toggle leaves the application in
  APP_STATE_LS_TOGGLE, where neither the button nor commands are handled until a
  timer or a confirmation happens to set it to idle (`…/main.c:432`).
* `ReadingToHub` (`_reading`): a reading goes to the last destination set.
* `TogglesOnRelease` (`_release`): the uninitialised hold duration.
* `JoinedMeansConnected` (`_joined`): the join is recorded whatever the status.
* `JoinPingSent` (`_ping`): a timer handler sets the idle state in between.
* `RemoteToggleTaken` (`_remote`): a remote toggle during a press is never
  cleared, and the button counts as held down from then on.

Eight statements about several nodes and about the drivers are refuted by the
configurations named. None contradicts a document; each says where the code stops
short of what one might take for granted:

* `AcknowledgedIndicated` (`MCDrivers_dropped`): a frame that the transceiver has
  received and acknowledged is dropped if the driver turns to sending before its
  next look at the flags (`…/lwMesh/phy/atmegarfr2/src/phy.c:183`). The sender
  believes the hop succeeded.
* `AcknowledgedAlways` (`MCMesh_loop`): with two relays between source and sink
  that hear each other better than the source, each may take the other for the
  way to the source. A frame that comes back removes one of the two routes, and the
  next flood teaches it again (`…/lwMesh/nwk/src/nwkRoute.c:214`). Reports arrive,
  their acknowledgements do not.
* `JoinedWhole` (`MCJoinChain_rejoin`): a node that has joined and moves to another
  PAN still has the joined flag while the PAN is being written, so that a restart
  leaves it marked as joined with half a PAN (`…/main.c:70`).
* `FloodsEnd` (`MCJoinChain_hubs`): between two hubs nodes pass the two chains round,
  since a chain with another PAN is followed even when one is marked
  (`…/commands.c:108`).
* `GivenUpLast` (`MCRouteDiscovery_stale`): an expired entry is reported again at
  every tick (`…/lwMesh/nwk/src/nwkRouteDiscovery.c:208`), so that frames waiting for
  a later discovery of the same destination are given up early.
* `RoutesEndForAll` (`MCRouteDiscovery_circle`): when two nodes seek the same
  destination at the same time and one reply is lost, the replies of the two leave
  routes through one another, since each reply that is followed replaces the next hop
  whatever the other discovery has found
  (`…/lwMesh/nwk/src/nwkRouteDiscovery.c:366`). The circle stays until a frame has
  run round it or fails.
* `FindsBest` for links of its own (`MCRouteDiscovery_flat`): a request that comes again
  with a better quality is passed on, but the destination, where the two are rounded to
  the same (`…/lwMesh/nwk/src/nwkRouteDiscovery.c:399`), does not answer again. The one
  reply then goes back over the newer senders, may reach a node that has passed it on
  already, and is dropped there. Nothing is lost and nothing else is under way, and the
  source has no route.
* `RoutesBackEnd` (`MCRouteDiscovery_flat`, with TLC's `-continue`): the same reply
  leaves routes back to the source that run in a circle between the two nodes, each of
  which has passed it to the other (`…/lwMesh/nwk/src/nwkRouteDiscovery.c:367`).

The first finding limits what the other runs see only in that a node that has
stopped stays stopped; every state before that is reached. In `JoinChain` a node gets
there by joining too: a chain that is followed, or a join ping that is due, while a
reading is unconfirmed is enough, which is why `EveryoneJoins` makes an exception of it.

The upgrade does what its properties say, with one exception that they name: a start
while a frame of the last upgrade is unconfirmed queues `otaDataReq` a second time, and
the network layer of the server goes round its queue for ever. `OnlyStartsCollide` says
that nothing else does so. Two things limit the upgrade without contradicting them:
a block response that is lost, or dropped because it overtakes the confirmation
of its request, ends the session (the block sent again does not fit the CRC), and
a repeated response makes the server ask for one block too many.

## 7. Not modelled

* Multicast groups (`nwkGroup.c`) and the multicast branches of `nwkRx.c`,
  `nwkRoute.c` and `nwkRouteDiscovery.c`: compiled out, and the group table is a
  list without control.
* The applications of the over-the-air update: not in this firmware.
* In the radio driver: the setters of channel, band, PAN, address and power,
  PHY_EdReq and PHY_EncryptReq, which write registers and wait for them.
* Address, PAN and endpoint setters, NWK_Lock, NWK_LinearizeLqi: called once at
  start or not at all.
* The cipher, ADC tables, LED driver: computations and I/O without control.
* UART commands: the task is commented out in `main.c`.
* The remote mode at run time (`LSisRemote` is a CONSTANT), `eeIdentity`,
  `LSSyncMode` (nothing sets it).
* Restarts of the sink, and a change of PAN by a node that relays for others:
  `JoinChain` knows no routes and `Mesh` no PANs. What the readings of joined nodes
  carry and where they go (`SquircoApp`, `Mesh`): in `JoinChain` they only use the
  request.
* What the cipher overwrites when the size of a secured frame has wrapped
  (`…/lwMesh/nwk/src/nwkSecurity.c:120`): payloads have no contents here.
* Hardware design files and the other ports of the stack (six more microcontrollers,
  five more transceivers).

Of about 59,000 lines in the repository's sources 46,000 are headers, most of them
register definitions by the makers of microcontrollers that this firmware does not
run on; of the 12,900 lines of C about 5,800 belong to the other ports and 1,400 are
a look-up table. The models map the C code that is left and has control to model,
which is why their share of all lines is small and cannot grow much.

## 8. Plan

Done: the modules of section 2 and the proofs of section 4. Next, in this order:

1. An abstract transfer that `OtaUpgrade` implements.
2. `SquircoApp` with `LSisRemote = TRUE`.
3. For `RouteDiscovery`, which links make `FindsBest` true, and whether circles of
   overlapping discoveries always end with the first frame that fails.
