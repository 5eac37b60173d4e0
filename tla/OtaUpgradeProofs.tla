-------------------------- MODULE OtaUpgradeProofs --------------------------
(***************************************************************************)
(* Invariants of the over-the-air upgrade, for every size of image, number *)
(* of retries and sessions, and however many frames are in flight.         *)
(***************************************************************************)
EXTENDS OtaUpgrade, TLAPS

USE OtaConstantsOK

ServerInfo == [state : ServerStates, session : Sessions, size : Nat, crc : Seq(Block),
               retries : 0 .. MaxRetries]
ClientInfo == [state : ClientStates, session : Sessions, size : Nat, crc : Seq(Block),
               retries : 0 .. MaxRetries]

(* A side that is busy has a retry left, so that its counter, decremented  *)
(* before it is tested, never passes zero.                                 *)
RetriesLeft ==
  /\ srv.state # "IDLE" => srv.retries > 0
  /\ cli.state # "IDLE" => cli.retries > 0

(* Every CRC under way is that of a beginning of the image; the client's   *)
(* is that of the blocks it has handed over, while it accepts more.        *)
InOrder(s) == \A i \in DOMAIN s : s[i] = i
Images ==
  /\ InOrder(srv.crc) /\ Len(srv.crc) = sent
  /\ InOrder(srvCmd.crc) /\ InOrder(cliCmd.crc)
  /\ \A f \in DOMAIN air : InOrder(f.crc)
  /\ InOrder(handed)
  /\ cli.state \in {"START_RESP_SENT", "READY", "WAIT_BLOCK_CONF"} => cli.crc = handed
  /\ cli.state = "BLOCK_RESP_SENT" /\ cliCmd.status = "SUCCESS" => cli.crc = handed

IInv == TypeOK /\ RequestsMatch /\ TimersMatch /\ RetriesLeft /\ Images

LEMMA WaitStates ==
  /\ DOMAIN Awaits = {"START_REQ_SENT", "BLOCK_REQ_SENT"}
  /\ DOMAIN Resends = {"WAIT_START_RESP", "WAIT_BLOCK_RESP"}
  /\ Awaits["START_REQ_SENT"] = "WAIT_START_RESP"
  /\ Awaits["BLOCK_REQ_SENT"] = "WAIT_BLOCK_RESP"
  /\ Resends["WAIT_START_RESP"] = "START_REQ_SENT"
  /\ Resends["WAIT_BLOCK_RESP"] = "BLOCK_REQ_SENT"
BY DEF Awaits, Resends

LEMMA InitHolds == Init => IInv
<1> SUFFICES ASSUME Init PROVE IInv
  OBVIOUS
<1>1. <<>> \in Seq(Block) /\ InOrder(<<>>) /\ Len(<<>>) = 0 /\ 0 \in Sessions
  BY DEF InOrder, Sessions
<1>2. NoCommand \in Command /\ NoCommand.crc = <<>>
  BY <1>1 DEF NoCommand, Command, Statuses
<1>3. DOMAIN air = {}
  BY DEF Init, EmptyBag, SetToBag
<1>4. TypeOK
  BY <1>1, <1>2, <1>3 DEF Init, TypeOK, ServerStates, ClientStates, Request, Stage, Outcomes
<1>5. RequestsMatch /\ TimersMatch /\ RetriesLeft
  BY WaitStates DEF Init, RequestsMatch, TimersMatch, RetriesLeft, Stage
<1>6. Images
  BY <1>1, <1>2, <1>3 DEF Init, Images
<1> QED BY <1>4, <1>5, <1>6 DEF IInv

(* What the two sides' records become.                                     *)
LEMMA ServerUpdate ==
  ASSUME NEW r \in ServerInfo, NEW st \in ServerStates, NEW n \in 0 .. MaxRetries
  PROVE  /\ [r EXCEPT !.state = st] \in ServerInfo
         /\ [r EXCEPT !.retries = n, !.state = st] \in ServerInfo
BY DEF ServerInfo

LEMMA ClientUpdate ==
  ASSUME NEW r \in ClientInfo, NEW st \in ClientStates, NEW n \in 0 .. MaxRetries
  PROVE  /\ [r EXCEPT !.state = st] \in ClientInfo
         /\ [r EXCEPT !.retries = n] \in ClientInfo
         /\ [r EXCEPT !.retries = n, !.state = st] \in ClientInfo
BY DEF ClientInfo

LEMMA Queued ==
  /\ Stage("free") \in Request /\ Stage("queued") \in Request /\ Stage("sent") \in Request
  /\ Stage("free").stage = "free" /\ Stage("queued").stage = "queued"
  /\ Stage("sent").stage = "sent"
  /\ \A req \in Request : req.stage = "free" => NWK_DataReq(req) = Stage("queued")
BY DEF Stage, Request, NWK_DataReq

(* A request that is queued once more is with the network layer then.      *)
LEMMA Requeued ==
  ASSUME NEW req \in Request
  PROVE  NWK_DataReq(req) \in Request /\ NWK_DataReq(req).stage # "free"
BY DEF Stage, Request, NWK_DataReq

(* The next block continues the image where the last one ended.            *)
LEMMA InOrderNext ==
  ASSUME NEW q \in Seq(Block), InOrder(q)
  PROVE  InOrder(q \o <<Len(q) + 1>>) /\ InOrder(q \o <<>>)
BY DEF InOrder, Block

LEMMA StartKeeps ==
  ASSUME IInv, NEW n \in Sizes, OTA_ServerStartUpdrade(n)
  PROVE  IInv'
<1> USE DEF IInv
<1>1. srv.session + 1 \in Sessions /\ n \in Nat /\ <<>> \in Seq(Block) /\ InOrder(<<>>)
  BY SMTT(30) DEF OTA_ServerStartUpdrade, TypeOK, Sessions, InOrder
<1>2. srv' \in ServerInfo /\ srvCmd' \in Command /\ srvCmd'.crc = <<>>
      /\ srv'.state = "START_REQ_SENT" /\ srv'.retries = MaxRetries /\ srv'.crc = <<>>
  <2> HIDE DEF IInv
  <2>1. "START_REQ_SENT" \in ServerStates /\ MaxRetries \in 0 .. MaxRetries
    BY WaitStates DEF ServerStates
  <2>2. srvCmd' \in Command /\ srvCmd'.crc = <<>>
    BY <1>1 DEF OTA_ServerStartUpdrade, NoCommand, Command, Statuses
  <2> QED BY <1>1, <2>1, <2>2 DEF OTA_ServerStartUpdrade, ServerInfo
<1>3. srvReq' \in Request /\ srvReq'.stage # "free"
  BY Requeued DEF OTA_ServerStartUpdrade, TypeOK
<1>4. TypeOK'
  BY <1>1, <1>2, <1>3 DEF OTA_ServerStartUpdrade, TypeOK, ServerInfo, Outcomes, client
<1>5. RequestsMatch' /\ TimersMatch' /\ RetriesLeft'
  BY <1>2, <1>3, WaitStates
     DEF OTA_ServerStartUpdrade, RequestsMatch, TimersMatch, RetriesLeft, client
<1>6. Images'
  BY <1>1, <1>2 DEF OTA_ServerStartUpdrade, Images, client
<1> QED BY <1>4, <1>5, <1>6

LEMMA SendBlockKeeps ==
  ASSUME IInv, OTA_ServerSendBlock
  PROVE  IInv'
<1> USE DEF IInv
<1>0. srv.size \in Nat /\ sent \in Nat /\ srv.crc \in Seq(Block) /\ sent + 1 \in Block
  BY DEF TypeOK, Block
<1> HIDE DEF IInv
<1>1. /\ NextBlock \in Seq(Block) /\ Len(NextBlock) \in 0 .. 1
      /\ srv.size - Len(NextBlock) \in Nat /\ sent + Len(NextBlock) \in Nat
  BY <1>0 DEF NextBlock
<1>2. /\ srv.crc \o NextBlock \in Seq(Block) /\ InOrder(srv.crc \o NextBlock)
      /\ Len(srv.crc \o NextBlock) = sent + Len(NextBlock)
  <2>1. InOrder(srv.crc) /\ Len(srv.crc) = sent
    BY DEF IInv, Images
  <2>2. InOrder(srv.crc \o NextBlock)
    BY <1>0, <2>1, InOrderNext DEF NextBlock
  <2> QED BY <1>0, <1>1, <2>1, <2>2
<1> USE DEF IInv
<1>3. srv' \in ServerInfo /\ srvCmd' \in Command /\ srvCmd'.crc = srv.crc \o NextBlock
      /\ srv'.state = "BLOCK_REQ_SENT" /\ srv'.retries = srv.retries
      /\ srv'.crc = srv.crc \o NextBlock
  <2> HIDE DEF IInv
  <2>1. srv \in ServerInfo /\ srv.session \in Sessions
    BY DEF IInv, TypeOK, ServerInfo
  <2>2. "BLOCK_REQ_SENT" \in ServerStates
    BY WaitStates DEF ServerStates
  <2> QED BY <1>1, <1>2, <2>1, <2>2
       DEF OTA_ServerSendBlock, ServerInfo, NoCommand, Command, Statuses
<1>4. srvReq' = Stage("queued") /\ srvReq' \in Request /\ srvReq'.stage = "queued"
  BY Queued, WaitStates DEF OTA_ServerSendBlock, RequestsMatch, TypeOK
<1>5. TypeOK'
  BY <1>1, <1>3, <1>4 DEF OTA_ServerSendBlock, TypeOK, ServerInfo, client
<1>6. RequestsMatch' /\ TimersMatch' /\ RetriesLeft'
  BY <1>3, <1>4, WaitStates
     DEF OTA_ServerSendBlock, RequestsMatch, TimersMatch, RetriesLeft, client
<1>7. Images'
  BY <1>2, <1>3 DEF OTA_ServerSendBlock, Images, client
<1> QED BY <1>5, <1>6, <1>7

(* A retry sends the command once more, or gives the session up.           *)
LEMMA RetryKeeps ==
  ASSUME IInv, NEW req \in Request, req.stage = "free", srv.state # "IDLE",
         srv.state \in DOMAIN Awaits \cup DOMAIN Resends,
         otaRequestRetry(req), respTimer' = FALSE,
         UNCHANGED <<srvCmd, spacingTimer, sent, length, client, air>>
  PROVE  IInv'
<1>1. srv \in ServerInfo /\ srv.retries \in 1 .. MaxRetries
  BY DEF IInv, TypeOK, ServerInfo, RetriesLeft
<1>2. srv.retries - 1 \in 0 .. MaxRetries
  BY <1>1
<1>3. srvReq' \in Request /\ srv' \in ServerInfo /\ srv'.crc = srv.crc
      /\ \/ srv'.state = "IDLE" /\ srvReq'.stage = "free"
         \/ /\ srv'.state \in DOMAIN Awaits /\ srvReq'.stage = "queued"
            /\ srv'.retries > 0
  <2>1. CASE LastRetry
    <3>1. srv' = [srv EXCEPT !.retries = @ - 1, !.state = "IDLE"] /\ srvReq' = req
      BY <2>1 DEF otaRequestRetry
    <3> QED BY <3>1, <1>1, <1>2, ServerUpdate DEF ServerStates, ServerInfo
  <2>2. CASE ~ LastRetry
    <3>1. srv' = [srv EXCEPT !.retries = @ - 1, !.state = Unmasked(@)]
          /\ srvReq' = Stage("queued")
      BY <2>2, Queued DEF otaRequestRetry
    <3>2. Unmasked(srv.state) \in DOMAIN Awaits /\ srv.retries - 1 > 0
      BY <2>2, <1>1, WaitStates DEF Unmasked, LastRetry
    <3> QED BY <3>1, <3>2, <1>1, <1>2, Queued, ServerUpdate DEF ServerStates, ServerInfo
  <2> QED BY <2>1, <2>2
<1>4. notified' \in Outcomes
  BY DEF otaRequestRetry, Outcomes, IInv, TypeOK
<1>5. TypeOK'
  BY <1>3, <1>4 DEF IInv, TypeOK, ServerInfo, client
<1>6. RequestsMatch' /\ TimersMatch' /\ RetriesLeft'
  BY <1>3, WaitStates DEF IInv, RequestsMatch, TimersMatch, RetriesLeft, client
<1>7. Images'
  BY <1>3 DEF IInv, Images, client
<1> QED BY <1>5, <1>6, <1>7 DEF IInv

LEMMA ServerSentKeeps ==
  ASSUME IInv, NEW ok \in BOOLEAN, ServerSent(ok)
  PROVE  IInv'
<1>1. srv.state \in DOMAIN Awaits /\ ~ respTimer /\ srv.retries > 0
  BY WaitStates DEF IInv, ServerSent, RequestsMatch, TimersMatch, RetriesLeft
<1>2. CASE ok
  <2>1. srv' = [srv EXCEPT !.state = Masked(@)] /\ Masked(srv.state) \in DOMAIN Resends
    BY <1>1, <1>2, WaitStates DEF ServerSent, Masked
  <2>2. srv' \in ServerInfo /\ srv'.state \in DOMAIN Resends /\ srv'.crc = srv.crc
        /\ srv'.retries = srv.retries
    BY <2>1, ServerUpdate DEF IInv, TypeOK, ServerInfo, ServerStates
  <2>3. srvReq' = Stage("free") /\ srvReq' \in Request /\ srvReq'.stage = "free"
    BY <1>2, Queued DEF ServerSent
  <2>4. TypeOK'
    BY <1>2, <2>2, <2>3 DEF ServerSent, IInv, TypeOK, ServerInfo, client
  <2>5. RequestsMatch' /\ TimersMatch' /\ RetriesLeft'
    BY <1>1, <1>2, <2>2, <2>3, WaitStates
       DEF ServerSent, IInv, RequestsMatch, TimersMatch, RetriesLeft, client
  <2>6. Images'
    BY <2>2 DEF ServerSent, IInv, Images, client
  <2> QED BY <2>4, <2>5, <2>6 DEF IInv
<1>3. CASE ~ ok
  <2>1. otaRequestRetry(Stage("free")) /\ respTimer' = FALSE
    BY <1>1, <1>3 DEF ServerSent
  <2> QED BY <1>1, <2>1, Queued, WaitStates, RetryKeeps DEF ServerSent
<1> QED BY <1>2, <1>3

LEMMA ResponseTimerKeeps == IInv /\ otaResponseTimerHandler => IInv'
<1> SUFFICES ASSUME IInv, otaResponseTimerHandler PROVE IInv'
  OBVIOUS
<1>1. srv.state \in DOMAIN Resends /\ srvReq \in Request /\ srvReq.stage = "free"
  BY WaitStates DEF IInv, otaResponseTimerHandler, TypeOK, RequestsMatch, TimersMatch
<1> QED BY <1>1, WaitStates, RetryKeeps DEF otaResponseTimerHandler

LEMMA SpacingTimerKeeps == IInv /\ otaFrameSpacingTimerHandler => IInv'
<1> SUFFICES ASSUME IInv, otaFrameSpacingTimerHandler PROVE IInv'
  OBVIOUS
<1>1. srv' \in ServerInfo /\ srv'.state = "READY" /\ srv'.crc = srv.crc
      /\ srv'.retries = srv.retries
  BY ServerUpdate
     DEF otaFrameSpacingTimerHandler, IInv, TypeOK, ServerInfo, ServerStates
<1>2. srv.state = "WAIT_FRAME_SPACING"
  BY DEF otaFrameSpacingTimerHandler, IInv, TimersMatch
<1>3. TypeOK'
  BY <1>1 DEF otaFrameSpacingTimerHandler, IInv, TypeOK, ServerInfo, Outcomes, client
<1>4. RequestsMatch' /\ TimersMatch' /\ RetriesLeft'
  BY <1>1, <1>2, WaitStates
     DEF otaFrameSpacingTimerHandler, IInv, RequestsMatch, TimersMatch, RetriesLeft, client
<1>5. Images'
  BY <1>1 DEF otaFrameSpacingTimerHandler, IInv, Images, client
<1> QED BY <1>3, <1>4, <1>5 DEF IInv

(***************************************************************************)
(* The client.                                                             *)
(***************************************************************************)
LEMMA ResponseKeeps ==
  ASSUME NEW c \in ClientInfo, NEW st \in Statuses, cliReq \in Request,
         cliReq.stage = "free", otaClientSendResponse(c, st)
  PROVE  /\ cli' \in ClientInfo /\ cli'.state = "BLOCK_RESP_SENT"
         /\ cli'.retries = c.retries /\ cli'.crc = c.crc
         /\ cliCmd' \in Command /\ cliCmd'.status = st /\ InOrder(cliCmd'.crc)
         /\ cliReq' \in Request /\ cliReq'.stage = "queued"
<1>1. <<>> \in Seq(Block) /\ c.session \in Sessions /\ "BLOCK_RESP_SENT" \in ClientStates
  BY DEF ClientInfo, ClientStates
<1>2. cliCmd' \in Command /\ cliCmd'.status = st /\ InOrder(cliCmd'.crc)
  <2>1. cliCmd' \in Command /\ cliCmd'.status = st /\ cliCmd'.crc = <<>>
    BY <1>1 DEF otaClientSendResponse, NoCommand, Command
  <2> QED BY <2>1 DEF InOrder
<1>3. cliReq' \in Request /\ cliReq'.stage = "queued"
  BY Queued DEF otaClientSendResponse
<1> QED BY <1>1, <1>2, <1>3, ClientUpdate DEF otaClientSendResponse, ClientInfo

LEMMA BlockConfirmKeeps ==
  ASSUME IInv, NEW st \in {"SUCCESS", "APPLICATION"}, OTA_ClientBlockConfirm(st)
  PROVE  IInv'
<1>1. /\ cli \in ClientInfo /\ cliReq \in Request /\ cliReq.stage = "free"
      /\ cli.state = "WAIT_BLOCK_CONF" /\ cli.retries > 0 /\ ~ reqTimer
  BY DEF IInv, TypeOK, ClientInfo, RequestsMatch, TimersMatch, RetriesLeft,
         OTA_ClientBlockConfirm
<1>2. Answer(st) \in Statuses
  BY DEF Answer, Statuses
<1>3. otaClientSendResponse(cli, Answer(st))
  BY DEF OTA_ClientBlockConfirm
<1>4. /\ cli' \in ClientInfo /\ cli'.state = "BLOCK_RESP_SENT"
      /\ cli'.retries = cli.retries /\ cli'.crc = cli.crc
      /\ cliCmd' \in Command /\ InOrder(cliCmd'.crc)
      /\ cliReq' \in Request /\ cliReq'.stage = "queued"
  BY <1>1, <1>2, <1>3, ResponseKeeps
<1>5. complete' \subseteq Sessions
  BY <1>1 DEF OTA_ClientBlockConfirm, IInv, TypeOK, ClientInfo
<1>6. TypeOK'
  BY <1>4, <1>5 DEF OTA_ClientBlockConfirm, IInv, TypeOK, ClientInfo, server
<1>7. RequestsMatch' /\ TimersMatch' /\ RetriesLeft'
  BY <1>1, <1>4
     DEF OTA_ClientBlockConfirm, IInv, RequestsMatch, TimersMatch, RetriesLeft, server
<1>8. Images'
  BY <1>1, <1>4 DEF OTA_ClientBlockConfirm, IInv, Images, server
<1> QED BY <1>6, <1>7, <1>8 DEF IInv

LEMMA ClientSentKeeps ==
  ASSUME IInv, NEW ok \in BOOLEAN, ClientSent(ok)
  PROVE  IInv'
<1>0. reqTimer = FALSE
  BY Zenon DEF IInv, TypeOK, RequestsMatch, TimersMatch, ClientSent
<1>1. /\ cli \in ClientInfo /\ cli.retries \in 1 .. MaxRetries
      /\ cli.state \in {"START_RESP_SENT", "BLOCK_RESP_SENT"}
  BY DEF IInv, TypeOK, ClientInfo, RequestsMatch, TimersMatch, RetriesLeft, ClientSent
<1>2. /\ cli' \in ClientInfo /\ cli'.crc = cli.crc /\ cliReq' \in Request
      /\ \/ /\ cli'.state = "READY" /\ cliReq'.stage = "free" /\ reqTimer' = TRUE
            /\ cli'.retries = MaxRetries
            /\ cli.state = "START_RESP_SENT" \/ cliCmd.status = "SUCCESS"
         \/ cli'.state = "IDLE" /\ cliReq'.stage = "free" /\ reqTimer' = FALSE
         \/ /\ cli'.state = cli.state /\ cliReq'.stage = "queued" /\ reqTimer' = FALSE
            /\ cli'.retries > 0
  <2>0. /\ MaxRetries \in 0 .. MaxRetries /\ 0 \in 0 .. MaxRetries
        /\ "READY" \in ClientStates /\ "IDLE" \in ClientStates
    BY DEF ClientStates
  <2>1. CASE ok
    <3>1. cliReq' = Stage("free") /\ ClientAnswered
      BY <2>1 DEF ClientSent
    <3>2. CASE cli' = [cli EXCEPT !.retries = MaxRetries, !.state = "READY"]
      <4>1. reqTimer' = TRUE /\ (cli.state = "START_RESP_SENT" \/ cliCmd.status = "SUCCESS")
        BY <1>1, <3>1, <3>2, <2>0 DEF ClientAnswered, ClientInfo
      <4>2. cli' \in ClientInfo /\ cli'.crc = cli.crc /\ cli'.state = "READY"
            /\ cli'.retries = MaxRetries
        BY <1>1, <2>0, <3>2, ClientUpdate DEF ClientInfo
      <4> QED BY <3>1, <4>1, <4>2, Queued
    <3>3. CASE cli' = [cli EXCEPT !.retries = MaxRetries, !.state = "IDLE"]
      <4>1. reqTimer' = FALSE
        BY <1>0, <1>1, <3>1, <3>3, <2>0 DEF ClientAnswered, ClientInfo
      <4>2. cli' \in ClientInfo /\ cli'.crc = cli.crc /\ cli'.state = "IDLE"
        BY <1>1, <2>0, <3>3, ClientUpdate DEF ClientInfo
      <4> QED BY <3>1, <4>1, <4>2, Queued
    <3> QED BY <3>1, <3>2, <3>3 DEF ClientAnswered
  <2>2. CASE ~ ok
    <3>0. reqTimer' = FALSE /\ ClientFailed
      BY <1>0, <2>2 DEF ClientSent, ClientFailed
    <3>1. CASE cli.retries = 1
      <4>1. cli' = [cli EXCEPT !.retries = 0, !.state = "IDLE"] /\ cliReq' = Stage("free")
        BY <3>0, <3>1 DEF ClientFailed
      <4> QED BY <1>1, <2>0, <3>0, <4>1, ClientUpdate, Queued DEF ClientInfo
    <3>2. CASE cli.retries # 1
      <4>1. cli.retries - 1 \in 1 .. MaxRetries /\ cli.retries - 1 \in 0 .. MaxRetries
        BY <1>1, <3>2
      <4>2. cli' = [cli EXCEPT !.retries = cli.retries - 1] /\ cliReq' = Stage("queued")
        BY <3>0, <3>2, Queued DEF ClientFailed
      <4>3. cli' \in ClientInfo /\ cli'.crc = cli.crc /\ cli'.state = cli.state
            /\ cli'.retries = cli.retries - 1
        BY <1>1, <4>1, <4>2, ClientUpdate DEF ClientInfo
      <4> QED BY <1>1, <3>0, <4>1, <4>2, <4>3, Queued
    <3> QED BY <3>1, <3>2
  <2> QED BY <2>1, <2>2
<1>3. TypeOK'
  BY <1>2 DEF ClientSent, IInv, TypeOK, ClientInfo, server
<1>4. RequestsMatch' /\ TimersMatch' /\ RetriesLeft'
  BY <1>0, <1>1, <1>2
     DEF ClientSent, IInv, RequestsMatch, TimersMatch, RetriesLeft, server
<1>5. Images'
  BY <1>1, <1>2 DEF ClientSent, IInv, Images, server
<1> QED BY <1>3, <1>4, <1>5 DEF IInv

LEMMA SessionTimerKeeps == IInv /\ otaRequestTimerHandler => IInv'
<1> SUFFICES ASSUME IInv, otaRequestTimerHandler PROVE IInv'
  OBVIOUS
<1>1. cli' \in ClientInfo /\ cli'.state = "IDLE" /\ cli.state = "READY"
  BY ZenonT(30), ClientUpdate
     DEF otaRequestTimerHandler, IInv, TypeOK, ClientInfo, ClientStates, TimersMatch
<1>2. TypeOK'
  BY <1>1 DEF otaRequestTimerHandler, IInv, TypeOK, ClientInfo, server
<1>3. RequestsMatch' /\ TimersMatch' /\ RetriesLeft'
  BY <1>1
     DEF otaRequestTimerHandler, IInv, RequestsMatch, TimersMatch, RetriesLeft, server
<1>4. Images'
  BY <1>1 DEF otaRequestTimerHandler, IInv, Images, server
<1> QED BY <1>2, <1>3, <1>4 DEF IInv

(***************************************************************************)
(* The network.                                                            *)
(***************************************************************************)
LEMMA AcksKeep ==
  ASSUME NEW req \in Request, NEW cmd, NEW n, NEW f, NEW r \in Acks(req, cmd, n, f)
  PROVE  r \in Request /\ r.stage = req.stage
<1>1. r = req \/ r = [req EXCEPT !.acked = TRUE]
  BY DEF Acks
<1> QED BY <1>1 DEF Request

(* A frame taken from the air leaves no new one there.                     *)
LEMMA RemoveShrinks ==
  ASSUME NEW f, air' = BagRemove(air, f)
  PROVE  DOMAIN air' \subseteq DOMAIN air
BY Zenon DEF BagRemove

LEMMA AddGrows ==
  ASSUME NEW f, OnAir(f)
  PROVE  DOMAIN air' \subseteq DOMAIN air \cup {f}
<1>1. CASE air' = air
  BY <1>1
<1>2. CASE air' = BagAdd(air, f)
  BY <1>2, Zenon DEF BagAdd
<1> QED BY <1>1, <1>2 DEF OnAir

LEMMA FrameOfCommand ==
  ASSUME NEW c \in Command, NEW n \in 0 .. MaxRetries
  PROVE  Frame(c, n) \in Command /\ Frame(c, n).crc = c.crc
BY DEF Frame, Command

(* A response changes the state of the server only while it waits for one, *)
(* and ends or starts the timers that belong to the states.                *)
LEMMA ToServerKeeps ==
  ASSUME IInv, NEW f \in DOMAIN air, air' = BagRemove(air, f), ToServer(f)
  PROVE  IInv'
<1>0. DOMAIN air' \subseteq DOMAIN air
  BY RemoveShrinks
<1>1. cliReq' \in Request /\ cliReq'.stage = cliReq.stage
  BY AcksKeep DEF IInv, TypeOK, ToServer
<1>2. /\ srv \in ServerInfo /\ f \in Command /\ respTimer \in BOOLEAN
      /\ spacingTimer \in BOOLEAN /\ notified \in Outcomes
  BY DEF IInv, TypeOK, ServerInfo
<1>3. /\ srv' \in ServerInfo /\ srv'.crc = srv.crc /\ notified' \in Outcomes
      /\ \/ srv' = srv /\ respTimer' = respTimer /\ spacingTimer' = spacingTimer
         \/ /\ srv.state \in DOMAIN Resends /\ respTimer' = FALSE
            /\ srv'.retries = MaxRetries
            /\ \/ srv'.state \in {"READY", "IDLE"} /\ spacingTimer' = spacingTimer
               \/ srv'.state = "WAIT_FRAME_SPACING" /\ spacingTimer' = TRUE
  <2>0. /\ MaxRetries \in 0 .. MaxRetries
        /\ {"READY", "IDLE", "WAIT_FRAME_SPACING"} \subseteq ServerStates
    BY DEF ServerStates
  <2>1. \A st \in ServerStates :
          LET r == [srv EXCEPT !.retries = MaxRetries, !.state = st]
          IN  r \in ServerInfo /\ r.crc = srv.crc /\ r.retries = MaxRetries /\ r.state = st
    BY <1>2, <2>0, ServerUpdate DEF ServerInfo
  <2>2. CASE otaHandleStartResp(f) /\ Expected(f, "WAIT_START_RESP")
    <3>1. /\ srv' = [srv EXCEPT !.retries = MaxRetries, !.state = "READY"]
          /\ respTimer' = FALSE /\ notified' = "READY" /\ spacingTimer' = spacingTimer
          /\ srv.state = "WAIT_START_RESP"
      BY <2>2 DEF otaHandleStartResp, Expected
    <3> QED BY <2>0, <2>1, <3>1, WaitStates DEF Outcomes
  <2>3. CASE /\ otaHandleBlockResp(f) /\ Expected(f, "WAIT_BLOCK_RESP")
             /\ f.status = "SUCCESS"
    <3>1. /\ srv' = [srv EXCEPT !.retries = MaxRetries, !.state = "WAIT_FRAME_SPACING"]
          /\ respTimer' = FALSE /\ notified' = notified /\ spacingTimer' = TRUE
          /\ srv.state = "WAIT_BLOCK_RESP"
      BY <2>3 DEF otaHandleBlockResp, Expected
    <3> QED BY <1>2, <2>0, <2>1, <3>1, WaitStates
  <2>4. CASE /\ otaHandleBlockResp(f) /\ Expected(f, "WAIT_BLOCK_RESP")
             /\ f.status # "SUCCESS"
    <3>1. f.status \in Outcomes
      BY <1>2 DEF Command, Outcomes
    <3>2. /\ srv' = [srv EXCEPT !.retries = MaxRetries, !.state = "IDLE"]
          /\ respTimer' = FALSE /\ notified' = f.status /\ spacingTimer' = spacingTimer
          /\ srv.state = "WAIT_BLOCK_RESP"
      BY <2>4 DEF otaHandleBlockResp, Expected
    <3> QED BY <2>0, <2>1, <3>1, <3>2, WaitStates
  <2>5. CASE UNCHANGED <<srv, respTimer, notified, spacingTimer>>
    BY <1>2, <2>5
  <2> QED BY <2>2, <2>3, <2>4, <2>5 DEF ToServer, otaHandleStartResp, otaHandleBlockResp
<1>4. respTimer' \in BOOLEAN /\ spacingTimer' \in BOOLEAN
  BY <1>2, <1>3
<1>5. TypeOK'
  BY <1>0, <1>1, <1>3, <1>4 DEF ToServer, IInv, TypeOK, ServerInfo
<1>6. CASE srv' = srv /\ respTimer' = respTimer /\ spacingTimer' = spacingTimer
  <2>1. RequestsMatch' /\ TimersMatch' /\ RetriesLeft'
    BY <1>1, <1>6, Zenon DEF ToServer, IInv, RequestsMatch, TimersMatch, RetriesLeft
  <2>2. Images'
    BY <1>0, <1>6 DEF ToServer, IInv, Images
  <2> QED BY <1>5, <2>1, <2>2 DEF IInv
<1>7. CASE srv' # srv \/ respTimer' # respTimer \/ spacingTimer' # spacingTimer
  <2>1. /\ srv.state \in DOMAIN Resends /\ respTimer' = FALSE /\ spacingTimer = FALSE
        /\ srv'.retries = MaxRetries
        /\ \/ srv'.state \in {"READY", "IDLE"} /\ spacingTimer' = FALSE
           \/ srv'.state = "WAIT_FRAME_SPACING" /\ spacingTimer' = TRUE
    <3>1. srv.state \in DOMAIN Resends
      BY <1>3, <1>7
    <3>2. spacingTimer = FALSE
      BY <1>2, <3>1, WaitStates DEF IInv, TimersMatch
    <3> QED BY <1>3, <1>7, <3>1, <3>2
  <2>2. RequestsMatch' /\ TimersMatch' /\ RetriesLeft'
    BY <1>1, <2>1, WaitStates DEF ToServer, IInv, RequestsMatch, TimersMatch, RetriesLeft
  <2>3. Images'
    BY <1>0, <1>3 DEF ToServer, IInv, Images
  <2> QED BY <1>5, <2>2, <2>3 DEF IInv
<1> QED BY <1>6, <1>7

LEMMA StartReqKeeps ==
  ASSUME IInv, NEW f \in DOMAIN air, air' = BagRemove(air, f), otaHandleStartReq(f),
         srvReq' \in Acks(srvReq, srvCmd, srv.retries, f),
         UNCHANGED <<srv, srvCmd, respTimer, spacingTimer, sent, length, notified>>
  PROVE  IInv'
<1>0. DOMAIN air' \subseteq DOMAIN air
  BY RemoveShrinks
<1>1. srvReq' \in Request /\ srvReq'.stage = srvReq.stage
  BY AcksKeep DEF IInv, TypeOK
<1>2. CASE MayStart
  <2>1. f \in Command /\ cliReq \in Request /\ cliReq.stage = "free" /\ ~ reqTimer
    BY <1>2 DEF IInv, TypeOK, RequestsMatch, TimersMatch, MayStart
  <2>2. /\ cli' = [state |-> "START_RESP_SENT", session |-> f.session, size |-> f.size,
                   crc |-> <<>>, retries |-> MaxRetries]
        /\ cliCmd' = [NoCommand EXCEPT !.cmd = "START_RESP", !.session = f.session]
        /\ cliReq' = NWK_DataReq(cliReq) /\ handed' = <<>>
        /\ reqTimer' = reqTimer /\ complete' = complete
    BY <1>2 DEF otaHandleStartReq
  <2>3. MaxRetries \in 0 .. MaxRetries /\ <<>> \in Seq(Block) /\ InOrder(<<>>)
        /\ f.session \in Sessions /\ f.size \in Nat
    BY <2>1 DEF InOrder, Command
  <2>4. cli' \in ClientInfo /\ cliCmd' \in Command /\ cliCmd'.crc = <<>>
        /\ cli'.state = "START_RESP_SENT" /\ cli'.retries = MaxRetries
        /\ cli'.crc = <<>>
    BY <2>2, <2>3 DEF ClientInfo, ClientStates, NoCommand, Command, Statuses
  <2>5. cliReq' \in Request /\ cliReq'.stage = "queued"
    BY <2>1, <2>2, Queued
  <2>6. TypeOK'
    BY <1>0, <1>1, <2>2, <2>3, <2>4, <2>5 DEF IInv, TypeOK, ClientInfo
  <2>7. RequestsMatch' /\ TimersMatch' /\ RetriesLeft'
    BY <1>1, <2>1, <2>2, <2>4, <2>5 DEF IInv, RequestsMatch, TimersMatch, RetriesLeft
  <2>8. Images'
    BY <1>0, <2>2, <2>3, <2>4 DEF IInv, Images
  <2> QED BY <2>6, <2>7, <2>8 DEF IInv
<1>3. CASE ~ MayStart
  <2>1. UNCHANGED <<client>>
    BY <1>3 DEF otaHandleStartReq, client
  <2>2. TypeOK'
    BY <1>0, <1>1, <2>1 DEF IInv, TypeOK, client
  <2>3. RequestsMatch' /\ TimersMatch' /\ RetriesLeft'
    BY <1>1, <2>1, Zenon DEF IInv, RequestsMatch, TimersMatch, RetriesLeft, client
  <2>4. Images'
    BY <1>0, <2>1 DEF IInv, Images, client
  <2> QED BY <2>2, <2>3, <2>4 DEF IInv
<1> QED BY <1>2, <1>3

(* A block that fits the CRC it came with continues what was handed over;  *)
(* one that does not is refused.                                           *)
LEMMA BlockReqKeeps ==
  ASSUME IInv, NEW f \in DOMAIN air, air' = BagRemove(air, f), otaHandleBlockReq(f),
         srvReq' \in Acks(srvReq, srvCmd, srv.retries, f),
         UNCHANGED <<srv, srvCmd, respTimer, spacingTimer, sent, length, notified>>
  PROVE  IInv'
<1>0. DOMAIN air' \subseteq DOMAIN air
  BY RemoveShrinks
<1>1. srvReq' \in Request /\ srvReq'.stage = srvReq.stage
  BY AcksKeep DEF IInv, TypeOK
<1>2. CASE Accepts(f)
  <2>1. /\ f \in Command /\ cliReq \in Request /\ cliReq.stage = "free"
        /\ cli \in ClientInfo /\ handed \in Seq(Block)
        /\ cli.state = "READY" /\ cli.crc = handed /\ cli.retries > 0
    BY <1>2 DEF IInv, TypeOK, ClientInfo, RequestsMatch, RetriesLeft, Images, Accepts
  <2>2. /\ (cli.size - Len(f.data)) % SizeSpan \in Nat
        /\ cli.crc \o f.data \in Seq(Block)
    <3>1. cli.size \in Nat /\ Len(f.data) \in Nat /\ f.data \in Seq(Block)
          /\ cli.crc \in Seq(Block)
      BY <2>1 DEF Command, ClientInfo
    <3> QED BY <3>1
  <2>3. /\ Taken(f) \in ClientInfo /\ Taken(f).crc = cli.crc \o f.data
        /\ Taken(f).retries = cli.retries
    BY <2>1, <2>2 DEF Taken, ClientInfo
  <2>4. CASE Matches(f)
    <3>1. /\ cli' = [Taken(f) EXCEPT !.state = "WAIT_BLOCK_CONF"] /\ reqTimer' = FALSE
          /\ handed' = handed \o f.data /\ cliCmd' = cliCmd /\ cliReq' = cliReq
          /\ complete' = complete
      BY <1>2, <2>4 DEF otaHandleBlockReq
    <3>2. /\ cli' \in ClientInfo /\ cli'.state = "WAIT_BLOCK_CONF"
          /\ cli'.crc = cli.crc \o f.data /\ cli'.retries = cli.retries
      BY <2>3, <3>1 DEF ClientInfo, ClientStates
    <3>3. handed' \in Seq(Block) /\ cli'.crc = handed' /\ InOrder(handed')
      BY <2>1, <2>2, <2>3, <2>4, <3>1, <3>2 DEF Matches, IInv, Images
    <3>4. TypeOK'
      BY <1>0, <1>1, <3>1, <3>2, <3>3 DEF IInv, TypeOK, ClientInfo
    <3>5. RequestsMatch' /\ TimersMatch' /\ RetriesLeft'
      BY <1>1, <2>1, <3>1, <3>2 DEF IInv, RequestsMatch, TimersMatch, RetriesLeft
    <3>6. Images'
      BY <1>0, <3>1, <3>2, <3>3 DEF IInv, Images
    <3> QED BY <3>4, <3>5, <3>6 DEF IInv
  <2>5. CASE ~ Matches(f)
    <3>1. /\ otaClientSendResponse(Taken(f), "CRC_ERROR") /\ reqTimer' = FALSE
          /\ handed' = handed /\ complete' = complete
      BY <1>2, <2>5 DEF otaHandleBlockReq
    <3>2. /\ cli' \in ClientInfo /\ cli'.state = "BLOCK_RESP_SENT"
          /\ cli'.retries = cli.retries
          /\ cliCmd' \in Command /\ cliCmd'.status = "CRC_ERROR" /\ InOrder(cliCmd'.crc)
          /\ cliReq' \in Request /\ cliReq'.stage = "queued"
      BY <2>1, <2>3, <3>1, ResponseKeeps DEF Statuses
    <3>3. TypeOK'
      BY <1>0, <1>1, <3>1, <3>2 DEF IInv, TypeOK, ClientInfo
    <3>4. RequestsMatch' /\ TimersMatch' /\ RetriesLeft'
      BY <1>1, <2>1, <3>1, <3>2 DEF IInv, RequestsMatch, TimersMatch, RetriesLeft
    <3>5. Images'
      BY <1>0, <3>1, <3>2 DEF IInv, Images
    <3> QED BY <3>3, <3>4, <3>5 DEF IInv
  <2> QED BY <2>4, <2>5
<1>3. CASE ~ Accepts(f)
  <2>1. UNCHANGED <<client>>
    BY <1>3 DEF otaHandleBlockReq, client
  <2>2. TypeOK'
    BY <1>0, <1>1, <2>1 DEF IInv, TypeOK, client
  <2>3. RequestsMatch' /\ TimersMatch' /\ RetriesLeft'
    BY <1>1, <2>1, Zenon DEF IInv, RequestsMatch, TimersMatch, RetriesLeft, client
  <2>4. Images'
    BY <1>0, <2>1 DEF IInv, Images, client
  <2> QED BY <2>2, <2>3, <2>4 DEF IInv
<1> QED BY <1>2, <1>3

LEMMA ServerTransmitKeeps == IInv /\ ServerTransmit => IInv'
<1> SUFFICES ASSUME IInv, ServerTransmit PROVE IInv'
  OBVIOUS
<1>1. srvReq' \in Request /\ srvReq'.stage # "free" /\ srvReq.stage # "free"
  <2>1. srvReq.stage # "free" /\ (srvReq' = Stage("sent") \/ srvReq' = Stage("hung"))
    BY Zenon DEF ServerTransmit
  <2>2. \A s \in {"sent", "hung"} : Stage(s) \in Request /\ Stage(s).stage # "free"
    BY DEF Stage, Request
  <2> QED BY <2>1, <2>2
<1>2. \A f \in DOMAIN air' : f \in DOMAIN air \/ f = Frame(srvCmd, srv.retries)
  BY AddGrows DEF ServerTransmit
<1>3. Frame(srvCmd, srv.retries) \in Command
      /\ Frame(srvCmd, srv.retries).crc = srvCmd.crc
  BY FrameOfCommand DEF IInv, TypeOK
<1>4. TypeOK'
  BY <1>1, <1>2, <1>3 DEF ServerTransmit, IInv, TypeOK, client
<1>5. RequestsMatch' /\ TimersMatch' /\ RetriesLeft'
  BY <1>1, Zenon
     DEF ServerTransmit, IInv, RequestsMatch, TimersMatch, RetriesLeft, client
<1>6. Images'
  BY <1>2, <1>3 DEF ServerTransmit, IInv, Images, client
<1> QED BY <1>4, <1>5, <1>6 DEF IInv

LEMMA ClientTransmitKeeps == IInv /\ ClientTransmit => IInv'
<1> SUFFICES ASSUME IInv, ClientTransmit PROVE IInv'
  OBVIOUS
<1>1. cliReq' \in Request /\ cliReq'.stage = "sent" /\ cliReq.stage = "queued"
  BY Queued DEF ClientTransmit
<1>2. \A f \in DOMAIN air' : f \in DOMAIN air \/ f = Frame(cliCmd, cli.retries)
  BY AddGrows DEF ClientTransmit
<1>3. Frame(cliCmd, cli.retries) \in Command /\ InOrder(Frame(cliCmd, cli.retries).crc)
  BY FrameOfCommand DEF IInv, TypeOK, Images
<1>4. TypeOK'
  BY <1>1, <1>2, <1>3 DEF ClientTransmit, IInv, TypeOK, server
<1>5. RequestsMatch' /\ TimersMatch' /\ RetriesLeft'
  BY <1>1, Zenon
     DEF ClientTransmit, IInv, RequestsMatch, TimersMatch, RetriesLeft, server
<1>6. Images'
  BY <1>2, <1>3 DEF ClientTransmit, IInv, Images, server
<1> QED BY <1>4, <1>5, <1>6 DEF IInv

LEMMA LoseKeeps == ASSUME IInv, NEW f \in DOMAIN air, Lose(f) PROVE IInv'
<1>0. DOMAIN air' \subseteq DOMAIN air
  BY RemoveShrinks DEF Lose
<1>1. TypeOK'
  BY <1>0 DEF Lose, IInv, TypeOK, server, client
<1>2. RequestsMatch' /\ TimersMatch' /\ RetriesLeft'
  BY Zenon DEF Lose, IInv, RequestsMatch, TimersMatch, RetriesLeft, server, client
<1>3. Images'
  BY <1>0 DEF Lose, IInv, Images, server, client
<1> QED BY <1>1, <1>2, <1>3 DEF IInv

LEMMA StutterKeeps == IInv /\ UNCHANGED vars => IInv'
<1> SUFFICES ASSUME IInv, UNCHANGED vars PROVE IInv'
  OBVIOUS
<1>1. TypeOK'
  BY DEF IInv, TypeOK, vars, server, client
<1>2. RequestsMatch' /\ TimersMatch' /\ RetriesLeft'
  BY Zenon DEF IInv, RequestsMatch, TimersMatch, RetriesLeft, vars, server, client
<1>3. Images'
  BY DEF IInv, Images, vars, server, client
<1> QED BY <1>1, <1>2, <1>3 DEF IInv

LEMMA NextKeeps == IInv /\ [Next]_vars => IInv'
<1> SUFFICES ASSUME IInv, [Next]_vars PROVE IInv'
  OBVIOUS
<1>1. CASE Server
  BY <1>1, StartKeeps, SendBlockKeeps, ServerSentKeeps, ResponseTimerKeeps,
     SpacingTimerKeeps DEF Server
<1>2. CASE Client
  BY <1>2, BlockConfirmKeeps, ClientSentKeeps, SessionTimerKeeps DEF Client
<1>3. CASE Network
  <2>1. ASSUME NEW f \in DOMAIN air, Arrive(f) PROVE IInv'
    <3>1. CASE ToServer(f)
      BY <2>1, <3>1, ToServerKeeps DEF Arrive
    <3>2. CASE ToClient(f)
      BY <2>1, <3>2, StartReqKeeps, BlockReqKeeps DEF Arrive, ToClient
    <3> QED BY <2>1, <3>1, <3>2 DEF Arrive
  <2> QED BY <1>3, <2>1, ServerTransmitKeeps, ClientTransmitKeeps, LoseKeeps DEF Network
<1>4. CASE UNCHANGED vars
  BY <1>4, StutterKeeps
<1> QED BY <1>1, <1>2, <1>3, <1>4 DEF Next

LEMMA OtaInvariant == Spec => []IInv
<1> QED BY InitHolds, NextKeeps, PTL DEF Spec

(***************************************************************************)
(* Completion.  A client that accepts blocks has still to come what its    *)
(* image is larger than what it has handed over, so that a remaining size  *)
(* of nothing means the whole image; and a response that says so names a   *)
(* session whose image the client has accepted, wherever the response is.  *)
(***************************************************************************)
Commands == {srvCmd, cliCmd} \cup DOMAIN air

Honest(c) ==
  /\ c.session <= srv.session
  /\ c.cmd = "START_REQ" => c.size = length[c.session]
  /\ Len(c.crc) <= length[c.session]
  /\ c.status = "COMPLETED" => c.session \in complete

Progressing ==
  \/ cli.state \in {"START_RESP_SENT", "READY", "WAIT_BLOCK_CONF"}
  \/ cli.state = "BLOCK_RESP_SENT" /\ cliCmd.status = "SUCCESS"

CommandsHonest == \A c \in Commands : Honest(c)
ServerCounts ==
  /\ \A s \in Sessions : length[s] < SizeSpan
  /\ srvCmd.session = srv.session
  /\ srv.size + sent = length[srv.session]
ClientCounts ==
  /\ cli.session <= srv.session
  /\ Progressing => cli.size + Len(handed) = length[cli.session]

OInv == IInv /\ CommandsHonest /\ ServerCounts /\ ClientCounts /\ CompletedMeansComplete

LEMMA CommandsTyped == TypeOK => Commands \subseteq Command
BY DEF TypeOK, Commands

(* A step that leaves the sessions and their lengths alone has to account  *)
(* for the commands it makes, and for no other.                            *)
LEMMA CommandsKept ==
  ASSUME OInv, srv'.session = srv.session, length' = length, complete \subseteq complete',
         \A c \in Commands' : c \in Commands \/ Honest(c)'
  PROVE  CommandsHonest'
<1>1. ASSUME NEW c \in Commands, Honest(c) PROVE Honest(c)'
  BY <1>1 DEF Honest
<1> QED BY <1>1 DEF OInv, CommandsHonest

LEMMA OInitHolds == Init => OInv
<1> SUFFICES ASSUME Init PROVE OInv
  OBVIOUS
<1>1. DOMAIN air = {} /\ 0 \in Sessions
  BY DEF Init, EmptyBag, SetToBag, Sessions
<1>2. /\ srvCmd.session = 0 /\ srvCmd.cmd = "NONE" /\ Len(srvCmd.crc) = 0
      /\ srvCmd.status = "SUCCESS" /\ cliCmd = srvCmd
  BY DEF Init, NoCommand
<1>3. CommandsHonest
  BY <1>1, <1>2 DEF Init, CommandsHonest, Commands, Honest
<1>4. ServerCounts /\ ClientCounts /\ CompletedMeansComplete
  BY <1>1, <1>2 DEF Init, ServerCounts, ClientCounts, Progressing, CompletedMeansComplete
<1> QED BY <1>3, <1>4, InitHolds DEF OInv

(* A new session has a number that no command under way carries.           *)
LEMMA StartCounts ==
  ASSUME OInv, NEW n \in Sizes, OTA_ServerStartUpdrade(n)
  PROVE  CommandsHonest' /\ ServerCounts' /\ ClientCounts' /\ CompletedMeansComplete'
<1>1. /\ srv \in ServerInfo /\ cli \in ClientInfo /\ Commands \subseteq Command
      /\ length \in [Sessions -> Nat]
  BY CommandsTyped DEF OInv, IInv, TypeOK, ServerInfo, ClientInfo
<1> DEFINE id == srv.session + 1
<1>2. id \in Sessions /\ srv.session \in Sessions
  BY <1>1 DEF OTA_ServerStartUpdrade, ServerInfo, Sessions
<1>3. /\ srv'.session = id /\ srv'.size = n /\ sent' = 0 /\ notified' = "NONE"
      /\ length' = [length EXCEPT ![id] = n] /\ UNCHANGED <<client, air>>
      /\ srvCmd'.cmd = "START_REQ" /\ srvCmd'.session = id /\ srvCmd'.size = n
      /\ Len(srvCmd'.crc) = 0 /\ srvCmd'.status = "SUCCESS"
  BY DEF OTA_ServerStartUpdrade, NoCommand
<1>4. n \in Nat /\ n < SizeSpan /\ length'[id] = n
      /\ \A s \in Sessions : s <= srv.session => length'[s] = length[s]
  BY <1>1, <1>2, <1>3 DEF Sessions
<1>5. ASSUME NEW c \in Commands PROVE Honest(c)'
  <2>1. c \in Command /\ Honest(c)
    BY <1>1, <1>5 DEF OInv, CommandsHonest
  <2>2. c.session \in Sessions /\ c.session <= srv.session
    BY <2>1 DEF Command, Honest
  <2>3. length'[c.session] = length[c.session] /\ c.session <= srv'.session
        /\ complete' = complete
    BY <1>2, <1>3, <1>4, <2>2 DEF Sessions, client
  <2> QED BY <2>1, <2>3 DEF Honest
<1>6. Honest(srvCmd)'
  BY <1>2, <1>3, <1>4 DEF Honest, Sessions
<1>7. CommandsHonest'
  <2>1. Commands' \subseteq Commands \cup {srvCmd'}
    BY <1>3 DEF Commands, client
  <2> QED BY <1>5, <1>6, <2>1 DEF CommandsHonest
<1>8. ServerCounts'
  BY <1>1, <1>2, <1>3, <1>4 DEF OInv, ServerCounts
<1>9. ClientCounts'
  <2>1. cli' = cli /\ cliCmd' = cliCmd /\ handed' = handed
    BY <1>3 DEF client
  <2>2. cli.session \in Sessions /\ cli.session <= srv.session
    BY <1>1 DEF ClientInfo, OInv, ClientCounts
  <2>3. length'[cli.session] = length[cli.session] /\ cli.session <= srv'.session
    BY <1>2, <1>3, <1>4, <2>2 DEF Sessions
  <2> QED BY <2>1, <2>3 DEF OInv, ClientCounts, Progressing
<1> QED BY <1>3, <1>7, <1>8, <1>9 DEF CompletedMeansComplete

LEMMA SendBlockCounts ==
  ASSUME OInv, OTA_ServerSendBlock
  PROVE  CommandsHonest' /\ ServerCounts' /\ ClientCounts' /\ CompletedMeansComplete'
<1>1. /\ srv \in ServerInfo /\ length \in [Sessions -> Nat] /\ sent \in Nat
      /\ srv.crc \in Seq(Block) /\ Len(srv.crc) = sent /\ srv.session \in Sessions
      /\ srv.size \in Nat
  BY DEF OInv, IInv, TypeOK, ServerInfo, Images
<1>2. NextBlock \in Seq(Block) /\ Len(NextBlock) <= srv.size /\ Len(NextBlock) \in Nat
  <2>1. sent + 1 \in Block
    BY <1>1 DEF Block
  <2> QED BY ONLY <1>1, <2>1 DEF NextBlock
<1>3. /\ srv'.session = srv.session /\ srv'.size = srv.size - Len(NextBlock)
      /\ sent' = sent + Len(NextBlock) /\ notified' = notified /\ length' = length
      /\ UNCHANGED <<client, air>>
      /\ srvCmd'.cmd = "BLOCK_REQ" /\ srvCmd'.session = srv.session
      /\ srvCmd'.crc = srv.crc \o NextBlock /\ srvCmd'.status = "SUCCESS"
  BY <1>1 DEF OTA_ServerSendBlock, NoCommand, ServerInfo
<1>4. Len(srvCmd'.crc) <= length[srv.session]
  <2>1. Len(srv.crc \o NextBlock) = sent + Len(NextBlock)
    BY SMTT(30), <1>1, <1>2
  <2>2. srv.size + sent = length[srv.session]
    BY DEF OInv, ServerCounts
  <2> QED BY <1>1, <1>2, <1>3, <2>1, <2>2
<1>5. Honest(srvCmd)'
  BY <1>1, <1>3, <1>4 DEF Honest, Sessions
<1>6. CommandsHonest'
  <2>1. Commands' \subseteq Commands \cup {srvCmd'} /\ complete' = complete
    BY <1>3 DEF Commands, client
  <2> QED BY <1>3, <1>5, <2>1, CommandsKept
<1>7. ServerCounts'
  BY <1>1, <1>2, <1>3 DEF OInv, ServerCounts
<1>8. ClientCounts' /\ CompletedMeansComplete'
  BY <1>3 DEF OInv, ClientCounts, Progressing, CompletedMeansComplete, client
<1> QED BY <1>6, <1>7, <1>8

(* Timers, confirmations and retries make no new command.                  *)
LEMMA ServerRestCounts ==
  ASSUME OInv,
         \/ \E ok \in BOOLEAN : ServerSent(ok)
         \/ otaResponseTimerHandler
         \/ otaFrameSpacingTimerHandler
  PROVE  CommandsHonest' /\ ServerCounts' /\ ClientCounts' /\ CompletedMeansComplete'
<1>1. srv \in ServerInfo
  BY DEF OInv, IInv, TypeOK, ServerInfo
<1>2. /\ srv'.session = srv.session /\ srv'.size = srv.size
      /\ UNCHANGED <<srvCmd, sent, length, client, air>>
      /\ notified' \in {notified, "READY", "NO_RESPONSE"}
  BY <1>1 DEF ServerSent, otaResponseTimerHandler, otaFrameSpacingTimerHandler,
              otaRequestRetry, ServerInfo
<1>3. Commands' = Commands /\ complete' = complete
  BY <1>2 DEF Commands, client
<1>4. CommandsHonest'
  BY <1>2, <1>3, CommandsKept
<1>5. ServerCounts' /\ ClientCounts' /\ CompletedMeansComplete'
  BY <1>2, <1>3 DEF OInv, ServerCounts, ClientCounts, Progressing, CompletedMeansComplete,
                    client
<1> QED BY <1>4, <1>5

(* The client says completed when nothing of the image is left, and then   *)
(* it has handed over all of it.                                           *)
LEMMA ConfirmCounts ==
  ASSUME OInv, NEW st \in {"SUCCESS", "APPLICATION"}, OTA_ClientBlockConfirm(st)
  PROVE  CommandsHonest' /\ ServerCounts' /\ ClientCounts' /\ CompletedMeansComplete'
<1>1. /\ cli \in ClientInfo /\ cli.state = "WAIT_BLOCK_CONF" /\ cli.session \in Sessions
      /\ cli.size \in Nat /\ handed \in Seq(Block) /\ length \in [Sessions -> Nat]
  BY DEF OInv, IInv, TypeOK, ClientInfo, OTA_ClientBlockConfirm
<1>2. /\ UNCHANGED <<server, air>> /\ handed' = handed
      /\ cli'.session = cli.session /\ cli'.size = cli.size
      /\ cliCmd'.cmd = "BLOCK_RESP" /\ cliCmd'.session = cli.session
      /\ Len(cliCmd'.crc) = 0 /\ cliCmd'.status = Answer(st)
      /\ complete \subseteq complete'
  BY <1>1 DEF OTA_ClientBlockConfirm, otaClientSendResponse, NoCommand, ClientInfo
<1>3. cli.size + Len(handed) = length[cli.session] /\ cli.session <= srv.session
  BY <1>1 DEF OInv, ClientCounts, Progressing
<1>4. ASSUME Answer(st) = "COMPLETED" PROVE cli.session \in complete'
  <2>1. st = "SUCCESS" /\ cli.size = 0
    BY <1>4 DEF Answer
  <2>2. Len(handed) = length[cli.session]
    BY <1>1, <1>3, <2>1
  <2>3. handed = [i \in 1 .. length[cli.session] |-> i]
    BY <1>1, <2>2 DEF OInv, IInv, Images, InOrder
  <2> QED BY <2>1, <2>3 DEF OTA_ClientBlockConfirm
<1>5. Honest(cliCmd)'
  BY <1>1, <1>2, <1>3, <1>4 DEF Honest, server
<1>6. CommandsHonest'
  <2>1. Commands' \subseteq Commands \cup {cliCmd'}
    BY <1>2 DEF Commands, server
  <2> QED BY <1>2, <1>5, <2>1, CommandsKept DEF server
<1>7. ServerCounts' /\ ClientCounts'
  BY <1>2, <1>3 DEF OInv, ServerCounts, ClientCounts, server
<1>8. CompletedMeansComplete'
  BY <1>2 DEF OInv, CompletedMeansComplete, server
<1> QED BY <1>6, <1>7, <1>8

LEMMA ClientRestCounts ==
  ASSUME OInv, (\E ok \in BOOLEAN : ClientSent(ok)) \/ otaRequestTimerHandler
  PROVE  CommandsHonest' /\ ServerCounts' /\ ClientCounts' /\ CompletedMeansComplete'
<1>1. cli \in ClientInfo /\ (cliReq.stage # "free" =>
                               cli.state \in {"START_RESP_SENT", "BLOCK_RESP_SENT"})
  BY DEF OInv, IInv, TypeOK, ClientInfo, RequestsMatch
<1>2. /\ cli'.session = cli.session /\ cli'.size = cli.size
      /\ UNCHANGED <<cliCmd, handed, complete, server, air>>
      /\ \/ cli'.state = "IDLE"
         \/ cli'.state = cli.state
         \/ cli'.state = "READY" /\ Progressing
  BY <1>1 DEF ClientSent, ClientAnswered, ClientFailed, otaRequestTimerHandler, ClientInfo,
              Progressing
<1>3. Commands' = Commands
  BY <1>2 DEF Commands, server
<1>4. CommandsHonest'
  BY <1>2, <1>3, CommandsKept DEF server
<1>5. Progressing' => Progressing
  BY <1>2 DEF Progressing
<1>6. ServerCounts' /\ ClientCounts' /\ CompletedMeansComplete'
  BY <1>2, <1>5 DEF OInv, ServerCounts, ClientCounts, CompletedMeansComplete, server
<1> QED BY <1>4, <1>6

(* The server believes what a response of its own session says.            *)
LEMMA ToServerCounts ==
  ASSUME OInv, NEW f \in DOMAIN air, air' = BagRemove(air, f), ToServer(f)
  PROVE  CommandsHonest' /\ ServerCounts' /\ ClientCounts' /\ CompletedMeansComplete'
<1>1. srv \in ServerInfo /\ Honest(f)
  BY DEF OInv, IInv, TypeOK, ServerInfo, CommandsHonest, Commands
<1>2. /\ UNCHANGED <<srvCmd, sent, length, cli, cliCmd, handed, complete>>
      /\ srv'.session = srv.session /\ srv'.size = srv.size
      /\ \/ notified' = notified
         \/ notified' = "READY"
         \/ notified' = f.status /\ srv.session = f.session
  BY <1>1 DEF ToServer, otaHandleStartResp, otaHandleBlockResp, Expected, ServerInfo
<1>3. Commands' \subseteq Commands
  BY <1>2, RemoveShrinks DEF Commands
<1>4. CommandsHonest'
  BY <1>2, <1>3, CommandsKept
<1>5. ServerCounts' /\ ClientCounts'
  BY <1>2 DEF OInv, ServerCounts, ClientCounts, Progressing
<1>6. CompletedMeansComplete'
  BY <1>1, <1>2 DEF OInv, CompletedMeansComplete, Honest
<1> QED BY <1>4, <1>5, <1>6

(* A start request carries the length of its session's image.              *)
LEMMA StartReqCounts ==
  ASSUME OInv, NEW f \in DOMAIN air, air' = BagRemove(air, f), otaHandleStartReq(f),
         UNCHANGED <<srv, srvCmd, respTimer, spacingTimer, sent, length, notified>>
  PROVE  CommandsHonest' /\ ServerCounts' /\ ClientCounts' /\ CompletedMeansComplete'
<1>1. f \in Command /\ Honest(f) /\ length \in [Sessions -> Nat]
  BY DEF OInv, IInv, TypeOK, CommandsHonest, Commands
<1>2. complete' = complete /\ f.session \in Sessions /\ f.size = length[f.session]
  BY <1>1 DEF otaHandleStartReq, Command, Honest
<1>3. ServerCounts' /\ CompletedMeansComplete'
  BY <1>2 DEF OInv, ServerCounts, CompletedMeansComplete
<1>4. CASE MayStart
  <2>1. /\ cli'.session = f.session /\ cli'.size = f.size /\ handed' = <<>>
        /\ cliCmd'.cmd = "START_RESP" /\ cliCmd'.session = f.session
        /\ Len(cliCmd'.crc) = 0 /\ cliCmd'.status = "SUCCESS"
    <3>1. /\ cli' = [state |-> "START_RESP_SENT", session |-> f.session, size |-> f.size,
                     crc |-> <<>>, retries |-> MaxRetries]
          /\ cliCmd' = [NoCommand EXCEPT !.cmd = "START_RESP", !.session = f.session]
          /\ handed' = <<>>
      BY <1>4 DEF otaHandleStartReq
    <3> QED BY <3>1 DEF NoCommand
  <2>2. Honest(cliCmd)'
    BY <1>1, <1>2, <2>1 DEF Honest
  <2>3. Commands' \subseteq Commands \cup {cliCmd'}
    BY RemoveShrinks DEF Commands
  <2>4. CommandsHonest'
    BY <1>2, <2>2, <2>3, CommandsKept
  <2>5. ClientCounts'
    BY <1>1, <1>2, <2>1 DEF ClientCounts, Honest
  <2> QED BY <1>3, <2>4, <2>5
<1>5. CASE ~ MayStart
  <2>1. cli' = cli /\ cliCmd' = cliCmd /\ handed' = handed
    BY <1>5 DEF otaHandleStartReq
  <2>2. Commands' \subseteq Commands
    BY <2>1, RemoveShrinks DEF Commands
  <2>3. CommandsHonest'
    BY <1>2, <2>2, CommandsKept
  <2>4. ClientCounts'
    BY <2>1 DEF OInv, ClientCounts, Progressing
  <2> QED BY <1>3, <2>3, <2>4
<1> QED BY <1>4, <1>5

(* A block that fits is one of the image, and so leaves a size that is not *)
(* negative: the subtraction of uint32_t does not wrap.                    *)
LEMMA TakenLeaves ==
  ASSUME OInv, NEW f \in DOMAIN air, f.cmd = "BLOCK_REQ", Accepts(f), Matches(f)
  PROVE  Taken(f).size + Len(handed \o f.data) = length[cli.session]
<1>1. /\ f \in Command /\ Honest(f) /\ length \in [Sessions -> Nat]
      /\ cli \in ClientInfo /\ handed \in Seq(Block) /\ cli.crc = handed
      /\ cli.size + Len(handed) = length[cli.session] /\ cli.session = f.session
  BY DEF OInv, IInv, TypeOK, CommandsHonest, Commands, ClientInfo, Images, Accepts,
         ClientCounts, Progressing
<1>2. /\ f.data \in Seq(Block) /\ f.crc \in Seq(Block) /\ cli.size \in Nat
      /\ cli.session \in Sessions /\ length[cli.session] \in Nat
      /\ length[cli.session] < SizeSpan /\ Len(f.crc) <= length[cli.session]
  BY <1>1 DEF Command, ClientInfo, Honest, OInv, ServerCounts
<1>3. f.crc = handed \o f.data
  BY <1>1 DEF Matches, Taken, ClientInfo
<1>4. Len(f.crc) = Len(handed) + Len(f.data) /\ Len(handed) \in Nat /\ Len(f.data) \in Nat
  BY <1>1, <1>2, <1>3
<1>5. /\ cli.size - Len(f.data) \in 0 .. SizeSpan - 1 /\ SizeSpan \in Nat \ {0}
      /\ cli.size - Len(f.data) + Len(f.crc) = length[cli.session]
  BY SMTT(30), <1>1, <1>2, <1>4
<1>6. (cli.size - Len(f.data)) % SizeSpan = cli.size - Len(f.data)
  BY <1>5
<1>7. Taken(f).size = (cli.size - Len(f.data)) % SizeSpan
  BY <1>1 DEF Taken, ClientInfo
<1> QED BY <1>3, <1>5, <1>6, <1>7

LEMMA BlockReqCounts ==
  ASSUME OInv, NEW f \in DOMAIN air, air' = BagRemove(air, f), otaHandleBlockReq(f),
         UNCHANGED <<srv, srvCmd, respTimer, spacingTimer, sent, length, notified>>
  PROVE  CommandsHonest' /\ ServerCounts' /\ ClientCounts' /\ CompletedMeansComplete'
<1>1. complete' = complete /\ cli \in ClientInfo /\ length \in [Sessions -> Nat]
      /\ cli.session \in Sessions
  BY DEF otaHandleBlockReq, OInv, IInv, TypeOK, ClientInfo
<1>2. ServerCounts' /\ CompletedMeansComplete'
  BY <1>1 DEF OInv, ServerCounts, CompletedMeansComplete
<1>3. Taken(f).session = cli.session
  BY <1>1 DEF Taken, ClientInfo
<1>4. CASE Accepts(f) /\ Matches(f)
  <2>1. /\ cli'.session = cli.session /\ cli'.size = Taken(f).size /\ cliCmd' = cliCmd
        /\ handed' = handed \o f.data
    BY <1>1, <1>3, <1>4 DEF otaHandleBlockReq, Taken, ClientInfo
  <2>2. Commands' \subseteq Commands
    BY <2>1, RemoveShrinks DEF Commands
  <2>3. CommandsHonest'
    BY <1>1, <2>2, CommandsKept
  <2>4. Taken(f).size + Len(handed \o f.data) = length[cli.session]
    BY <1>4, TakenLeaves DEF otaHandleBlockReq
  <2>5. ClientCounts'
    BY <2>1, <2>4 DEF OInv, ClientCounts
  <2> QED BY <1>2, <2>3, <2>5
<1>5. CASE Accepts(f) /\ ~ Matches(f)
  <2>1. otaClientSendResponse(Taken(f), "CRC_ERROR")
    BY <1>5 DEF otaHandleBlockReq
  <2>2. /\ cli'.session = cli.session /\ cli'.state = "BLOCK_RESP_SENT"
        /\ cliCmd'.cmd = "BLOCK_RESP" /\ cliCmd'.session = cli.session
        /\ Len(cliCmd'.crc) = 0 /\ cliCmd'.status = "CRC_ERROR"
    BY <1>1, <1>3, <2>1 DEF otaClientSendResponse, NoCommand, Taken, ClientInfo
  <2>3. Honest(cliCmd)'
    BY <1>1, <2>2 DEF Honest, OInv, ClientCounts
  <2>4. Commands' \subseteq Commands \cup {cliCmd'}
    BY RemoveShrinks DEF Commands
  <2>5. CommandsHonest'
    BY <1>1, <2>3, <2>4, CommandsKept
  <2>6. ClientCounts'
    BY <2>2 DEF OInv, ClientCounts, Progressing
  <2> QED BY <1>2, <2>5, <2>6
<1>6. CASE ~ Accepts(f)
  <2>1. cli' = cli /\ cliCmd' = cliCmd /\ handed' = handed
    BY <1>6 DEF otaHandleBlockReq
  <2>2. Commands' \subseteq Commands
    BY <2>1, RemoveShrinks DEF Commands
  <2>3. CommandsHonest'
    BY <1>1, <2>2, CommandsKept
  <2>4. ClientCounts'
    BY <2>1 DEF OInv, ClientCounts, Progressing
  <2> QED BY <1>2, <2>3, <2>4
<1> QED BY <1>4, <1>5, <1>6

(* A frame says what the command says that it was made of.                 *)
LEMMA HonestFrame ==
  ASSUME NEW c \in Command, NEW n \in 0 .. MaxRetries, Honest(c)
  PROVE  Honest(Frame(c, n))
<1>1. LET g == Frame(c, n)
      IN  g.session = c.session /\ g.cmd = c.cmd /\ g.size = c.size /\ g.crc = c.crc
          /\ g.status = c.status
  BY DEF Frame, Command
<1> QED BY <1>1 DEF Honest

LEMMA TransmitCounts ==
  ASSUME OInv, ServerTransmit \/ ClientTransmit
  PROVE  CommandsHonest' /\ ServerCounts' /\ ClientCounts' /\ CompletedMeansComplete'
<1>1. /\ srvCmd \in Command /\ cliCmd \in Command /\ Honest(srvCmd) /\ Honest(cliCmd)
      /\ srv.retries \in 0 .. MaxRetries /\ cli.retries \in 0 .. MaxRetries
  BY DEF OInv, IInv, TypeOK, CommandsHonest, Commands
<1>2. UNCHANGED <<srv, srvCmd, sent, length, notified, cli, cliCmd, handed, complete>>
  BY DEF ServerTransmit, ClientTransmit, server, client
<1>3. PICK g : Honest(g) /\ DOMAIN air' \subseteq DOMAIN air \cup {g}
  <2>1. CASE ServerTransmit
    BY <1>1, <2>1, HonestFrame, AddGrows DEF ServerTransmit
  <2>2. CASE ClientTransmit
    BY <1>1, <2>2, HonestFrame, AddGrows DEF ClientTransmit
  <2> QED BY <2>1, <2>2
<1>4. Honest(g)' /\ Commands' \subseteq Commands \cup {g}
  BY <1>2, <1>3 DEF Honest, Commands
<1>5. CommandsHonest'
  BY <1>2, <1>4, CommandsKept
<1>6. ServerCounts' /\ ClientCounts' /\ CompletedMeansComplete'
  BY <1>2 DEF OInv, ServerCounts, ClientCounts, Progressing, CompletedMeansComplete
<1> QED BY <1>5, <1>6

(* Nothing changes but for the frames that are lost.                       *)
LEMMA QuietCounts ==
  ASSUME OInv, DOMAIN air' \subseteq DOMAIN air, UNCHANGED <<server, client>>
  PROVE  CommandsHonest' /\ ServerCounts' /\ ClientCounts' /\ CompletedMeansComplete'
<1>1. Commands' \subseteq Commands
  BY DEF Commands, server, client
<1>2. CommandsHonest'
  BY <1>1, CommandsKept DEF server, client
<1>3. ServerCounts' /\ ClientCounts' /\ CompletedMeansComplete'
  BY DEF OInv, ServerCounts, ClientCounts, Progressing, CompletedMeansComplete, server, client
<1> QED BY <1>2, <1>3

LEMMA ONextKeeps == OInv /\ [Next]_vars => OInv'
<1> SUFFICES ASSUME OInv, [Next]_vars PROVE OInv'
  OBVIOUS
<1> DEFINE Counts == CommandsHonest /\ ServerCounts /\ ClientCounts /\ CompletedMeansComplete
<1>1. ASSUME Server PROVE Counts'
  BY <1>1, StartCounts, SendBlockCounts, ServerRestCounts DEF Server
<1>2. ASSUME Client PROVE Counts'
  BY <1>2, ConfirmCounts, ClientRestCounts DEF Client
<1>3. ASSUME Network PROVE Counts'
  <2>1. ASSUME NEW f \in DOMAIN air, Arrive(f) PROVE Counts'
    <3>1. CASE ToServer(f)
      BY <2>1, <3>1, ToServerCounts DEF Arrive
    <3>2. CASE ToClient(f)
      BY <2>1, <3>2, StartReqCounts, BlockReqCounts DEF Arrive, ToClient
    <3> QED BY <2>1, <3>1, <3>2 DEF Arrive
  <2>2. ASSUME NEW f \in DOMAIN air, Lose(f) PROVE Counts'
    BY <2>2, RemoveShrinks, QuietCounts DEF Lose
  <2> QED BY <1>3, <2>1, <2>2, TransmitCounts DEF Network
<1>4. ASSUME UNCHANGED vars PROVE Counts'
  BY <1>4, QuietCounts DEF vars
<1>5. Counts'
  BY <1>1, <1>2, <1>3, <1>4 DEF Next
<1>6. IInv'
  BY NextKeeps DEF OInv
<1> QED BY <1>5, <1>6 DEF OInv

LEMMA OtaCounts == Spec => []OInv
<1> QED BY OInitHolds, ONextKeeps, PTL DEF Spec

(* The steps of the server that queue its request find it free, but for    *)
(* the start of an upgrade.                                                *)
Collides == srvReq.stage # "twice" /\ srvReq'.stage = "twice"

LEMMA StartCollides ==
  ASSUME IInv, Collides, NEW n \in Sizes, OTA_ServerStartUpdrade(n)
  PROVE  srv'.session # srv.session /\ srvReq.stage \in {"queued", "sent"}
<1>1. srv.session \in Nat /\ srv'.session = srv.session + 1
  BY DEF OTA_ServerStartUpdrade, IInv, TypeOK, Sessions
<1>2. srvReq \in Request /\ srvReq.stage # "hung" /\ srvReq' = NWK_DataReq(srvReq)
  BY DEF OTA_ServerStartUpdrade, IInv, TypeOK
<1>3. srvReq.stage # "free"
  BY <1>2, Queued DEF Collides
<1> QED BY <1>1, <1>2, <1>3 DEF Collides, Request

LEMMA OthersQueueOnce ==
  ASSUME IInv,
         \/ OTA_ServerSendBlock \/ (\E ok \in BOOLEAN : ServerSent(ok))
         \/ otaResponseTimerHandler \/ otaFrameSpacingTimerHandler
         \/ Client \/ Network
  PROVE  ~ Collides
<1>1. srvReq \in Request /\ (srv.state \notin DOMAIN Awaits => srvReq.stage = "free")
  BY DEF IInv, TypeOK, RequestsMatch
<1>2. CASE OTA_ServerSendBlock
  BY <1>1, <1>2, Queued, WaitStates DEF OTA_ServerSendBlock, Collides
<1>3. ASSUME NEW req \in Request, req.stage = "free", otaRequestRetry(req) PROVE ~ Collides
  BY <1>3, Queued DEF otaRequestRetry, Collides
<1>4. ASSUME NEW ok \in BOOLEAN, ServerSent(ok) PROVE ~ Collides
  <2>1. srvReq' = Stage("free") \/ otaRequestRetry(Stage("free"))
    BY <1>4, Zenon DEF ServerSent
  <2> QED BY <1>3, <2>1, Queued DEF Collides
<1>5. CASE otaResponseTimerHandler
  <2>1. srvReq.stage = "free" /\ otaRequestRetry(srvReq)
    BY <1>1, <1>5, WaitStates DEF otaResponseTimerHandler, IInv, TimersMatch
  <2> QED BY <1>1, <1>3, <2>1
<1>6. ASSUME srvReq' = srvReq PROVE ~ Collides
  BY <1>6 DEF Collides
<1>7. CASE otaFrameSpacingTimerHandler
  BY <1>6, <1>7 DEF otaFrameSpacingTimerHandler
<1>8. CASE Client
  BY <1>6, <1>8, Zenon
     DEF Client, OTA_ClientBlockConfirm, ClientSent, otaRequestTimerHandler, server
<1>9. CASE Network
  <2>1. CASE ServerTransmit
    <3>1. srvReq' = Stage("sent") \/ srvReq' = Stage("hung")
      BY <2>1, Zenon DEF ServerTransmit
    <3> QED BY <3>1 DEF Collides, Stage
  <2>2. CASE ClientTransmit
    BY <1>6, <2>2, Zenon DEF ClientTransmit, server
  <2>3. ASSUME NEW f, Arrive(f) PROVE ~ Collides
    <3>1. CASE ToServer(f)
      BY <1>6, <3>1, Zenon DEF ToServer
    <3>2. CASE ToClient(f)
      <4>1. srvReq' \in {srvReq, [srvReq EXCEPT !.acked = TRUE]}
        BY <3>2 DEF ToClient, Acks
      <4> QED BY <1>1, <4>1 DEF Collides, Request
    <3> QED BY <2>3, <3>1, <3>2 DEF Arrive
  <2>4. ASSUME NEW f, Lose(f) PROVE ~ Collides
    BY <1>6, <2>4, Zenon DEF Lose, server
  <2> QED BY <1>9, <2>1, <2>2, <2>3, <2>4 DEF Network
<1> QED BY <1>2, <1>4, <1>5, <1>7, <1>8, <1>9

-----------------------------------------------------------------------------
(* Every variable keeps its type; in particular the retry counters of both *)
(* sides stay in 0 .. MaxRetries although they are decremented unchecked.  *)
THEOREM OtaTypeCorrect == Spec => []TypeOK
<1>1. IInv => TypeOK
  BY DEF IInv
<1> QED BY OtaInvariant, <1>1, PTL

(* The one data request of each side is with the network layer exactly     *)
(* while its state waits for the confirmation, and the client's is never   *)
(* queued twice.                                                           *)
THEOREM RequestsStayMatched == Spec => []RequestsMatch
<1>1. IInv => RequestsMatch
  BY DEF IInv
<1> QED BY OtaInvariant, <1>1, PTL

(* Only the start of an upgrade, and only while the frame of the last one  *)
(* is not confirmed, queues the server's request a second time.            *)
THEOREM StartsAloneCollide == Spec => OnlyStartsCollide
<1>1. IInv /\ [Next]_vars
        => [Collides => srv'.session # srv.session /\ srvReq.stage \in {"queued", "sent"}]_vars
  <2> SUFFICES ASSUME IInv, Next, Collides
               PROVE  srv'.session # srv.session /\ srvReq.stage \in {"queued", "sent"}
    OBVIOUS
  <2> QED BY StartCollides, OthersQueueOnce DEF Next, Server
<1> QED BY <1>1, OtaInvariant, PTL DEF Spec, OnlyStartsCollide, Collides

(* The three timers run exactly in the states they watch.                  *)
THEOREM TimersStayMatched == Spec => []TimersMatch
<1>1. IInv => TimersMatch
  BY DEF IInv
<1> QED BY OtaInvariant, <1>1, PTL

(* Whatever is lost, delayed, reordered or sent again, the blocks that the *)
(* client's application gets are the image from its beginning, in order.   *)
THEOREM BlocksStayInOrder == Spec => []BlocksInOrder
<1>1. IInv => BlocksInOrder
  BY DEF IInv, Images, InOrder, BlocksInOrder
<1> QED BY OtaInvariant, <1>1, PTL

(* When the server's application is told that the upgrade is complete, the *)
(* client's has accepted every block of the image of that very session:    *)
(* no response of an older session, or of a client that lost a block or    *)
(* whose remaining size wrapped, is taken for it.                          *)
THEOREM CompletionTrue == Spec => []CompletedMeansComplete
<1>1. OInv => CompletedMeansComplete
  BY DEF OInv
<1> QED BY OtaCounts, <1>1, PTL
=============================================================================

