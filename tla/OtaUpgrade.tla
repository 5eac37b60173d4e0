----------------------------- MODULE OtaUpgrade -----------------------------
(***************************************************************************)
(* The over-the-air upgrade service: a server (otaServer.c) that sends an  *)
(* image block by block and a client (otaClient.c) that checks each block, *)
(* hands it to its application and answers.  Each side has one data        *)
(* request and its timers.  The network between them loses frames, delays  *)
(* and reorders them, reports a failure for a frame that has arrived (a    *)
(* lost acknowledgement) and, where no acknowledgement was asked for,      *)
(* success for one that has not.                                           *)
(*                                                                         *)
(* A CRC tells any two sequences of blocks apart here: it is the sequence  *)
(* itself.  Sizes are counted in blocks.                                   *)
(***************************************************************************)
EXTENDS Integers, Sequences, Bags, BagsExt

CONSTANTS
  Sizes,       \* the sizes of images, in blocks
  SizeSpan,    \* 2^32: sizes are uint32_t
  MaxRetries,  \* OTA_MAX_RETRIES
  MaxSessions, \* bound: upgrades the server starts; rand() never repeats
  MaxAir       \* bound: frames in flight

ASSUME OtaConstantsOK ==
  /\ Sizes \subseteq Nat \ {0} /\ SizeSpan \in Nat \ {0}
  /\ \A n \in Sizes : n < SizeSpan
  /\ MaxRetries \in Nat \ {0} /\ MaxSessions \in Nat /\ MaxAir \in Nat

Sessions == 0 .. MaxSessions
Block    == Nat \ {0}
Statuses == {"SUCCESS", "COMPLETED", "CRC_ERROR", "APPLICATION"}

(* The four commands; `try' is no field of the code: it tells the attempts *)
(* at a command that is acknowledged apart, as nwkSeq does.                *)
Command == [cmd : {"NONE", "START_REQ", "START_RESP", "BLOCK_REQ", "BLOCK_RESP"},
            session : Sessions, size : Nat, crc : Seq(Block), data : Seq(Block),
            status : Statuses, try : Nat]
NoCommand == [cmd |-> "NONE", session |-> 0, size |-> 0, crc |-> <<>>,
              data |-> <<>>, status |-> "SUCCESS", try |-> 0]

(* otaDataReq: not queued, queued, its frame sent and not confirmed, or    *)
(* linked into the queue it is in already, which makes the queue a circle: *)
(* a frame may still be made of it, then nwkDataReqTaskHandler, or the     *)
(* confirmation of the former frame, goes round for ever ("hung").         *)
(* `acked' tells that the network layer has received the acknowledgement.  *)
Request == [stage : {"free", "queued", "sent", "twice", "hung"}, acked : BOOLEAN]
Stage(s) == [stage |-> s, acked |-> FALSE]
NWK_DataReq(req) == Stage(IF req.stage = "free" THEN "queued" ELSE "twice")

VARIABLES
  srv,          \* otaServer
  srvCmd,       \* the server's otaCommand
  srvReq,       \* the server's otaDataReq
  respTimer, spacingTimer, \* otaResponseTimer, otaFrameSpacingTimer
  cli,          \* otaClient
  cliCmd, cliReq,
  reqTimer,     \* otaRequestTimer
  air,          \* the frames in flight
  sent,         \* history: how many blocks of the image the server has sent
  handed,       \* history: the blocks the client's application was handed
  length,       \* history: the size of the image of each session
  complete,     \* history: sessions whose whole image the client has accepted
  notified      \* history: the last outcome told to the server's application

server == <<srv, srvCmd, srvReq, respTimer, spacingTimer, sent, length, notified>>
client == <<cli, cliCmd, cliReq, reqTimer, handed, complete>>
vars   == <<server, client, air>>

Init ==
  /\ srv = [state |-> "IDLE", session |-> 0, size |-> 0, crc |-> <<>>, retries |-> 0]
  /\ srvCmd = NoCommand /\ srvReq = Stage("free")
  /\ respTimer = FALSE /\ spacingTimer = FALSE
  /\ cli = [state |-> "IDLE", session |-> 0, size |-> 0, crc |-> <<>>, retries |-> 0]
  /\ cliCmd = NoCommand /\ cliReq = Stage("free") /\ reqTimer = FALSE
  /\ air = EmptyBag
  /\ sent = 0 /\ handed = <<>> /\ length = [s \in Sessions |-> 0]
  /\ complete = {} /\ notified = "NONE"

(***************************************************************************)
(* The server.                                                             *)
(***************************************************************************)
Awaits == [START_REQ_SENT |-> "WAIT_START_RESP", BLOCK_REQ_SENT |-> "WAIT_BLOCK_RESP"]
Resends == [WAIT_START_RESP |-> "START_REQ_SENT", WAIT_BLOCK_RESP |-> "BLOCK_REQ_SENT"]

(* The bit OTA_SERVER_STATE_WAIT_RESP_MASK, set and cleared.               *)
Masked(s) == IF s \in DOMAIN Awaits THEN Awaits[s] ELSE "INVALID"
Unmasked(s) == IF s \in DOMAIN Resends THEN Resends[s] ELSE s

(* The application starts an upgrade whenever it likes, in the middle of   *)
(* the last one too.                                                       *)
OTA_ServerStartUpdrade(size) ==
  /\ srvReq.stage # "hung" /\ srv.session < MaxSessions
  /\ respTimer' = FALSE /\ spacingTimer' = FALSE
  /\ LET id == srv.session + 1 IN
       /\ srv' = [state |-> "START_REQ_SENT", session |-> id, size |-> size,
                  crc |-> <<>>, retries |-> MaxRetries]
       /\ srvCmd' = [NoCommand EXCEPT !.cmd = "START_REQ", !.session = id, !.size = size]
       /\ length' = [length EXCEPT ![id] = size]
  /\ srvReq' = NWK_DataReq(srvReq)
  /\ sent' = 0 /\ notified' = "NONE"
  /\ UNCHANGED <<client, air>>

(* The block the application sends is the next of the image, or an empty   *)
(* one when the server takes the image for sent.                           *)
NextBlock == IF srv.size > 0 THEN <<sent + 1>> ELSE <<>>

OTA_ServerSendBlock ==
  /\ srv.state = "READY"
  /\ srv' = [srv EXCEPT !.state = "BLOCK_REQ_SENT", !.size = @ - Len(NextBlock),
                        !.crc = @ \o NextBlock]
  /\ srvCmd' = [NoCommand EXCEPT !.cmd = "BLOCK_REQ", !.session = srv.session,
                                 !.crc = srv.crc \o NextBlock, !.data = NextBlock]
  /\ srvReq' = NWK_DataReq(srvReq)
  /\ sent' = sent + Len(NextBlock)
  /\ UNCHANGED <<respTimer, spacingTimer, length, notified, client, air>>

LastRetryLate == srv.retries = 0                                   \* faulty variant
LastRetry == srv.retries = 1                     \* 0 == --retries

(* req is the request as the caller finds it: the network layer takes it   *)
(* off its queue before it confirms it.                                    *)
otaRequestRetry(req) ==
  \/ /\ LastRetry
     /\ srv' = [srv EXCEPT !.retries = @ - 1, !.state = "IDLE"]
     /\ srvReq' = req
     /\ notified' = "NO_RESPONSE"
  \/ /\ ~ LastRetry
     /\ srv' = [srv EXCEPT !.retries = @ - 1, !.state = Unmasked(@)]
     /\ srvReq' = NWK_DataReq(req)
     /\ notified' = notified

ServerSent(success) ==                           \* otaDataConf
  /\ srvReq.stage = "sent"
  /\ success /\ srvCmd.cmd = "START_REQ" => srvReq.acked
  /\ \/ /\ success
        /\ srv' = [srv EXCEPT !.state = Masked(@)]
        /\ srvReq' = Stage("free")
        /\ respTimer' = TRUE /\ notified' = notified
     \/ /\ ~ success
        /\ otaRequestRetry(Stage("free"))
        /\ respTimer' = respTimer
  /\ UNCHANGED <<srvCmd, spacingTimer, sent, length, client, air>>

otaResponseTimerHandler ==
  /\ respTimer /\ respTimer' = FALSE
  /\ otaRequestRetry(srvReq)
  /\ UNCHANGED <<srvCmd, spacingTimer, sent, length, client, air>>

otaFrameSpacingTimerHandler ==
  /\ spacingTimer /\ spacingTimer' = FALSE
  /\ srv' = [srv EXCEPT !.state = "READY"]
  /\ notified' = "READY"
  /\ UNCHANGED <<srvCmd, srvReq, respTimer, sent, length, client, air>>

(* A response counts if the server waits for it and it is of the session.  *)
ExpectedOfAny(f, state) == srv.state = state                       \* faulty variant
ExpectedAnyTime(f, state) == srv.session = f.session               \* faulty variant
Expected(f, state) == srv.state = state /\ srv.session = f.session

(* The client answers a start request with success and nothing else.       *)
otaHandleStartResp(f) ==
  /\ f.cmd = "START_RESP"
  /\ \/ /\ Expected(f, "WAIT_START_RESP")
        /\ srv' = [srv EXCEPT !.retries = MaxRetries, !.state = "READY"]
        /\ respTimer' = FALSE /\ notified' = "READY"
     \/ /\ ~ Expected(f, "WAIT_START_RESP")
        /\ UNCHANGED <<srv, respTimer, notified>>
  /\ spacingTimer' = spacingTimer

otaHandleBlockResp(f) ==
  /\ f.cmd = "BLOCK_RESP"
  /\ \/ /\ Expected(f, "WAIT_BLOCK_RESP") /\ f.status = "SUCCESS"
        /\ srv' = [srv EXCEPT !.retries = MaxRetries, !.state = "WAIT_FRAME_SPACING"]
        /\ respTimer' = FALSE /\ spacingTimer' = TRUE
        /\ notified' = notified
     \/ /\ Expected(f, "WAIT_BLOCK_RESP") /\ f.status # "SUCCESS"
        /\ srv' = [srv EXCEPT !.retries = MaxRetries, !.state = "IDLE"]
        /\ respTimer' = FALSE /\ spacingTimer' = spacingTimer
        /\ notified' = f.status
     \/ /\ ~ Expected(f, "WAIT_BLOCK_RESP")
        /\ UNCHANGED <<srv, respTimer, spacingTimer, notified>>

(***************************************************************************)
(* The client.                                                             *)
(***************************************************************************)
otaClientSendResponse(c, status) ==
  /\ cli' = [c EXCEPT !.state = "BLOCK_RESP_SENT"]
  /\ cliCmd' = [NoCommand EXCEPT !.cmd = "BLOCK_RESP", !.session = c.session,
                                 !.status = status]
  /\ cliReq' = NWK_DataReq(cliReq)

(* The application answers for a block it was handed, once.                *)
Answer(status) == IF status = "SUCCESS" /\ cli.size = 0 THEN "COMPLETED" ELSE status

OTA_ClientBlockConfirm(status) ==
  /\ cli.state = "WAIT_BLOCK_CONF"
  /\ otaClientSendResponse(cli, Answer(status))
  /\ complete' = IF status = "SUCCESS" /\ handed = [i \in 1 .. length[cli.session] |-> i]
                 THEN complete \cup {cli.session} ELSE complete
  /\ UNCHANGED <<reqTimer, handed, server, air>>

ClientAnsweredUntimed ==                                           \* faulty variant
  /\ cli' = [cli EXCEPT !.retries = MaxRetries,
               !.state = IF cliCmd.status = "SUCCESS" THEN "READY" ELSE "IDLE"]
  /\ reqTimer' = reqTimer
ClientAnswered ==                                \* otaDataConf, with success
  \/ /\ \/ cli.state = "START_RESP_SENT"
        \/ cli.state = "BLOCK_RESP_SENT" /\ cliCmd.status = "SUCCESS"
     /\ cli' = [cli EXCEPT !.retries = MaxRetries, !.state = "READY"]
     /\ reqTimer' = TRUE
  \/ /\ cli.state = "BLOCK_RESP_SENT" /\ cliCmd.status # "SUCCESS"
     /\ cli' = [cli EXCEPT !.retries = MaxRetries, !.state = "IDLE"]
     /\ reqTimer' = reqTimer

ClientFailed ==                                  \* and without
  /\ reqTimer' = reqTimer
  /\ \/ /\ cli.retries = 1
        /\ cli' = [cli EXCEPT !.retries = 0, !.state = "IDLE"]
        /\ cliReq' = Stage("free")
     \/ /\ cli.retries # 1
        /\ cli' = [cli EXCEPT !.retries = @ - 1]
        /\ cliReq' = NWK_DataReq(Stage("free"))

ClientSent(success) ==
  /\ cliReq.stage = "sent"
  /\ success /\ cliCmd.cmd = "START_RESP" => cliReq.acked
  /\ \/ success /\ ClientAnswered /\ cliReq' = Stage("free")
     \/ ~ success /\ ClientFailed
  /\ UNCHANGED <<cliCmd, handed, complete, server, air>>

otaRequestTimerHandler ==
  /\ reqTimer /\ reqTimer' = FALSE
  /\ cli' = [cli EXCEPT !.state = "IDLE"]
  /\ UNCHANGED <<cliCmd, cliReq, handed, complete, server, air>>

MayStartAlways == TRUE                                             \* faulty variant
MayStart == cli.state = "IDLE"

otaHandleStartReq(f) ==
  /\ f.cmd = "START_REQ"
  /\ \/ /\ MayStart
        /\ cli' = [state |-> "START_RESP_SENT", session |-> f.session, size |-> f.size,
                   crc |-> <<>>, retries |-> MaxRetries]
        /\ cliCmd' = [NoCommand EXCEPT !.cmd = "START_RESP", !.session = f.session]
        /\ cliReq' = NWK_DataReq(cliReq)
        /\ handed' = <<>>
     \/ /\ ~ MayStart
        /\ UNCHANGED <<cli, cliCmd, cliReq, handed>>
  /\ UNCHANGED <<reqTimer, complete>>

(* What the client has once it has taken the block off and into its CRC.   *)
Taken(f) == [cli EXCEPT !.size = (@ - Len(f.data)) % SizeSpan, !.crc = @ \o f.data]

Accepts(f) == cli.state = "READY" /\ cli.session = f.session

MatchesAlways(f) == TRUE                                           \* faulty variant
Matches(f) == Taken(f).crc = f.crc

otaHandleBlockReq(f) ==
  /\ f.cmd = "BLOCK_REQ"
  /\ \/ /\ Accepts(f) /\ Matches(f)              \* OTA_ClientBlockIndication
        /\ cli' = [Taken(f) EXCEPT !.state = "WAIT_BLOCK_CONF"]
        /\ reqTimer' = FALSE
        /\ handed' = handed \o f.data
        /\ UNCHANGED <<cliCmd, cliReq>>
     \/ /\ Accepts(f) /\ ~ Matches(f)
        /\ otaClientSendResponse(Taken(f), "CRC_ERROR")
        /\ reqTimer' = FALSE
        /\ handed' = handed
     \/ /\ ~ Accepts(f)
        /\ UNCHANGED <<cli, cliCmd, cliReq, reqTimer, handed>>
  /\ complete' = complete

(***************************************************************************)
(* The network.  A request is made a frame, which may be lost; a frame     *)
(* that arrives is handled and, if that was asked for, acknowledged, and   *)
(* the acknowledgement may be lost.                                        *)
(***************************************************************************)
Acknowledged(cmd) == cmd \in {"START_REQ", "START_RESP"}
Frame(cmd, retries) == [cmd EXCEPT !.try = IF Acknowledged(cmd.cmd) THEN retries ELSE 0]

OnAir(f) == (BagCardinality(air) < MaxAir /\ air' = BagAdd(air, f)) \/ air' = air

ServerTransmit ==
  /\ \/ srvReq.stage = "queued" /\ srvReq' = Stage("sent")
     \/ srvReq.stage = "twice" /\ srvReq' = Stage("hung")
  /\ OnAir(Frame(srvCmd, srv.retries))
  /\ UNCHANGED <<srv, srvCmd, respTimer, spacingTimer, sent, length, notified, client>>

ClientTransmit ==
  /\ cliReq.stage = "queued"
  /\ cliReq' = Stage("sent")
  /\ OnAir(Frame(cliCmd, cli.retries))
  /\ UNCHANGED <<cli, cliCmd, reqTimer, handed, complete, server>>

(* What an arriving frame may do to the request it was sent for.           *)
Acks(req, cmd, retries, f) ==
  IF req.stage = "sent" /\ Acknowledged(f.cmd) /\ Frame(cmd, retries) = f
  THEN {req, [req EXCEPT !.acked = TRUE]} ELSE {req}

ToServer(f) ==
  /\ srvReq.stage # "hung"
  /\ otaHandleStartResp(f) \/ otaHandleBlockResp(f)
  /\ cliReq' \in Acks(cliReq, cliCmd, cli.retries, f)
  /\ UNCHANGED <<srvCmd, srvReq, sent, length, cli, cliCmd, reqTimer, handed, complete>>

ToClient(f) ==
  /\ otaHandleStartReq(f) \/ otaHandleBlockReq(f)
  /\ srvReq' \in Acks(srvReq, srvCmd, srv.retries, f)
  /\ UNCHANGED <<srv, srvCmd, respTimer, spacingTimer, sent, length, notified>>

Arrive(f) == air' = BagRemove(air, f) /\ (ToServer(f) \/ ToClient(f))

Lose(f) == air' = BagRemove(air, f) /\ UNCHANGED <<server, client>>

-----------------------------------------------------------------------------
Server == \/ \E n \in Sizes : OTA_ServerStartUpdrade(n)
          \/ OTA_ServerSendBlock
          \/ \E ok \in BOOLEAN : ServerSent(ok)
          \/ otaResponseTimerHandler \/ otaFrameSpacingTimerHandler
Client == \/ \E s \in {"SUCCESS", "APPLICATION"} : OTA_ClientBlockConfirm(s)
          \/ \E ok \in BOOLEAN : ClientSent(ok)
          \/ otaRequestTimerHandler
Network == \/ ServerTransmit \/ ClientTransmit
           \/ \E f \in DOMAIN air : Arrive(f) \/ Lose(f)

Next == Server \/ Client \/ Network

Spec == Init /\ [][Next]_vars

(***************************************************************************)
(* The network layer sends and confirms every request (RequestsConfirmed   *)
(* of NwkCore), a running timer is due in the end (EventuallyDue of        *)
(* SysTimer), and the client's application answers for every block.        *)
(* Nothing is assumed about the server's application or about delivery.    *)
(***************************************************************************)
Fairness ==
  /\ WF_vars(ServerTransmit) /\ WF_vars(\E ok \in BOOLEAN : ServerSent(ok))
  /\ WF_vars(ClientTransmit) /\ WF_vars(\E ok \in BOOLEAN : ClientSent(ok))
  /\ WF_vars(otaResponseTimerHandler) /\ WF_vars(otaFrameSpacingTimerHandler)
  /\ WF_vars(otaRequestTimerHandler)
  /\ WF_vars(\E s \in {"SUCCESS", "APPLICATION"} : OTA_ClientBlockConfirm(s))

FairSpec == Spec /\ Fairness

-----------------------------------------------------------------------------
ServerStates == {"IDLE", "READY", "WAIT_FRAME_SPACING"} \cup DOMAIN Awaits \cup DOMAIN Resends
ClientStates == {"IDLE", "START_RESP_SENT", "READY", "WAIT_BLOCK_CONF", "BLOCK_RESP_SENT"}
Outcomes == {"NONE", "READY", "NO_RESPONSE"} \cup Statuses

(* Every variable keeps its type: the wait bit is set only in a state that *)
(* has one, and no retry counter passes zero (they are uint8_t).           *)
TypeOK ==
  /\ srv \in [state : ServerStates, session : Sessions, size : Nat, crc : Seq(Block),
              retries : 0 .. MaxRetries]
  /\ cli \in [state : ClientStates, session : Sessions, size : Nat, crc : Seq(Block),
              retries : 0 .. MaxRetries]
  /\ srvCmd \in Command /\ cliCmd \in Command
  /\ srvReq \in Request /\ cliReq \in Request
  /\ respTimer \in BOOLEAN /\ spacingTimer \in BOOLEAN /\ reqTimer \in BOOLEAN
  /\ DOMAIN air \subseteq Command
  /\ sent \in Nat /\ handed \in Seq(Block) /\ length \in [Sessions -> Nat]
  /\ complete \subseteq Sessions /\ notified \in Outcomes

(* Each side has one NWK_DataReq_t: it is with the network layer exactly   *)
(* in the states that wait for its confirmation, and the client's is never *)
(* queued a second time.                                                   *)
RequestsMatch ==
  /\ cliReq.stage \notin {"twice", "hung"}
  /\ srvReq.stage = "free" <=> srv.state \notin DOMAIN Awaits
  /\ cliReq.stage = "free" <=> cli.state \notin {"START_RESP_SENT", "BLOCK_RESP_SENT"}

(* No retry, timer, response or block queues the server's request while it *)
(* is with the network layer.  Starting an upgrade before the last frame   *)
(* is confirmed does, and is the only thing that does.                     *)
OnlyStartsCollide ==
  [][srvReq.stage # "twice" /\ srvReq'.stage = "twice"
       => srv'.session # srv.session /\ srvReq.stage \in {"queued", "sent"}]_vars

(* A timer runs exactly in the state it watches, so that none left over    *)
(* from an earlier exchange ends or resends a later one.                   *)
TimersMatch ==
  /\ respTimer <=> srv.state \in DOMAIN Resends
  /\ spacingTimer <=> srv.state = "WAIT_FRAME_SPACING"
  /\ reqTimer <=> cli.state = "READY"

(* What the client's application is handed is the image from its           *)
(* beginning, without gaps and repetitions, although blocks and responses  *)
(* are sent again and an old response may be taken for a new one.          *)
BlocksInOrder == \A i \in DOMAIN handed : handed[i] = i

(* The server's application is told that the upgrade is complete only if   *)
(* the client's has accepted the whole image of this session.              *)
CompletedMeansComplete == notified = "COMPLETED" => srv.session \in complete

(* A session ends: the client never stays in one for ever, and the server  *)
(* comes back to its application, whatever is lost and whenever another    *)
(* upgrade is started, unless that start has closed the queue to a circle. *)
SessionsEnd ==
  /\ cli.state # "IDLE" ~> cli.state = "IDLE"
  /\ srv.state # "IDLE" ~> srv.state \in {"IDLE", "READY"} \/ srvReq.stage = "hung"
=============================================================================
