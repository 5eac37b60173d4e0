------------------------------ MODULE MCNwkCore ------------------------------
(* Small instances of NwkCore: the frames on the air and the requests of   *)
(* the application, one or a few of each kind the code tells apart.        *)
EXTENDS NwkCore

Plain == [NoHeader EXCEPT !.dst = "self", !.mac = "self", !.load = "taken"]

Acks      == {[Plain EXCEPT !.load = "ack", !.acks = s] : s \in Seqs}
Secured   == [Plain EXCEPT !.sec = TRUE, !.ack = TRUE]
Relayed   == [Plain EXCEPT !.mac = "all", !.dst = "all"]
Sought    == [Plain EXCEPT !.mac = "all", !.ack = TRUE, !.load = "refused"]
Routed    == [Plain EXCEPT !.dst = "node", !.ack = TRUE, !.sec = TRUE]
Overheard == [Plain EXCEPT !.mac = "all", !.dst = "node"]
Joining   == [Plain EXCEPT !.mac = "all", !.dst = "all", !.bpan = TRUE]
Echo      == [Plain EXCEPT !.src = "self", !.dst = "node", !.mac = "all"]
Multicast == [Plain EXCEPT !.mc = TRUE]

AckReq  == [NoOption EXCEPT !.ack = TRUE]
SecReq  == [NoOption EXCEPT !.ack = TRUE, !.sec = TRUE]
JoinReq == [NoOption EXCEPT !.bpan = TRUE, !.dst = "all"]
LinkReq == [NoOption EXCEPT !.ll = TRUE]

ReqSymmetry == Permutations(Reqs)

MixedOptions == {SecReq, JoinReq}

WildAir == {Secured, Relayed, Sought, Routed, Overheard, Joining, Echo, Multicast}

NoOptions == {}

FewAir == {[Plain EXCEPT !.load = "ack", !.acks = 0], Secured}
=============================================================================
