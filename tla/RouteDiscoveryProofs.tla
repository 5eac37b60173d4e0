------------------------ MODULE RouteDiscoveryProofs ------------------------
(***************************************************************************)
(* Routes do not run in circles, for any number of nodes, links between    *)
(* them, table size and faults, towards a destination that one node at a   *)
(* time seeks.  The first part proves the types, the second what makes a   *)
(* reply safe to follow, the third that a walk along routes without a      *)
(* circle ends, the fourth that it ends at the destination.                *)
(***************************************************************************)
EXTENDS RouteDiscovery, FiniteSetTheorems, WellFoundedInduction, TLAPS

(***************************************************************************)
(* Types.                                                                  *)
(***************************************************************************)

(* What is live in a table belongs to a frame that wants a route, and has  *)
(* a sender unless the node has begun the discovery itself.                *)
Sound(n, tab) ==
  /\ tab \in [Slots -> Entry]
  /\ \A i \in Slots : tab[i].live =>
       /\ <<tab[i].src, tab[i].dst>> \in Wanted
       /\ tab[i].src # n => tab[i].sender \in Nodes
  /\ \A i, j \in Slots :
       tab[i].live /\ tab[j].live /\ tab[i].src = tab[j].src /\ tab[i].dst = tab[j].dst
         => i = j

AllWanted == \A c \in air : <<c.src, c.dst>> \in Wanted
WaitWanted == \A n \in Nodes : \A x \in waiting[n] : <<n, x>> \in Wanted

TInv ==
  /\ TypeOK /\ AllWanted /\ WaitWanted
  /\ \A n \in Nodes : Sound(n, table[n])

LEMMA LqType == \A a, b \in 0 .. Best : UpdateLq(a, b) \in 0 .. Best
<1> TAKE a, b \in 0 .. Best
<1>1. a * b \in Nat /\ a * b <= 255 * 255
  <2>1. a \in Nat /\ b \in Nat /\ a <= 255 /\ b <= 255
    BY DEF Best
  <2>2. a * b <= 255 * b
    BY <2>1
  <2> QED BY <2>1, <2>2
<1> QED BY <1>1 DEF UpdateLq, Best

LEMMA WantedType ==
  \A p \in Wanted : p \in Nodes \X Nodes /\ p[1] \in Nodes /\ p[2] \in Nodes /\ p[1] # p[2]
  BY DiscoveryConstantsOK DEF DiscoveryConstantsOK

LEMMA NewType ==
  \A x, y \in Nodes, m \in Nodes \cup {NONE}, f, r \in 0 .. Best :
    /\ New(x, y, m, f, r) \in Entry
    /\ New(x, y, m, f, r).live /\ New(x, y, m, f, r).src = x
    /\ New(x, y, m, f, r).dst = y /\ New(x, y, m, f, r).sender = m
    /\ New(x, y, m, f, r).rev = r
  BY DEF New, Entry

LEMMA ExpiredType ==
  \A e \in Entry : /\ Expired(e) \in Entry /\ ~ Expired(e).live
                   /\ Expired(e).src = e.src /\ Expired(e).dst = e.dst
  BY DEF Expired, Entry

LEMMA AnsweredType ==
  \A e \in Entry, q \in 0 .. Best :
    /\ Answered(e, q) \in Entry /\ Answered(e, q).live = e.live
    /\ Answered(e, q).src = e.src /\ Answered(e, q).dst = e.dst
    /\ Answered(e, q).sender = e.sender /\ Answered(e, q).rev = q
  BY DEF Answered, Entry

LEMMA RequestsType ==
  \A n \in Nodes, x, y \in Nodes, q \in 0 .. Best :
    \A c \in Requests(n, x, y, q) : c \in Command /\ c.id = "request" /\ c.src = x /\ c.dst = y
<1> TAKE n \in Nodes, x, y \in Nodes, q \in 0 .. Best
<1> TAKE c \in Requests(n, x, y, q)
<1>1. PICK m \in Nodes :
        c = [id |-> "request", from |-> n, to |-> m, src |-> x, dst |-> y, lq |-> q]
  BY DEF Requests, Neighbours
<1> QED BY <1>1 DEF Command

LEMMA ReplyType ==
  \A n, m \in Nodes, x, y \in Nodes, q \in 0 .. Best :
    \A c \in Reply(n, m, x, y, q) :
      c \in Command /\ c.src = x /\ c.dst = y /\ c.from = n /\ c.lq = q
  BY DEF Reply, Command

(* A slot that is freed, or given to a discovery that has none.            *)
LEMMA FreeingIsSound ==
  \A n \in Nodes : \A tab : \A i \in Slots :
    Sound(n, tab) => Sound(n, [tab EXCEPT ![i] = Expired(@)])
<1> TAKE n \in Nodes
<1> TAKE tab
<1> TAKE i \in Slots
<1> HAVE Sound(n, tab)
<1> DEFINE new == [tab EXCEPT ![i] = Expired(@)]
<1>1. tab[i] \in Entry /\ tab \in [Slots -> Entry]
  BY DEF Sound
<1>2. new \in [Slots -> Entry] /\ ~ new[i].live /\ \A j \in Slots : j # i => new[j] = tab[j]
  BY <1>1, ExpiredType
<1> HIDE DEF new
<1>3. Sound(n, new)
  BY <1>2 DEF Sound
<1> QED BY <1>3 DEF new

LEMMA TakingIsSound ==
  \A n \in Nodes : \A tab : \A i \in Slots : \A e \in Entry :
    /\ Sound(n, tab) /\ e.live /\ <<e.src, e.dst>> \in Wanted
    /\ e.src # n => e.sender \in Nodes
    /\ \A j \in Slots : Is(tab[j], e.src, e.dst) => j = i
    => Sound(n, [tab EXCEPT ![i] = e])
<1> TAKE n \in Nodes
<1> TAKE tab
<1> TAKE i \in Slots
<1> TAKE e \in Entry
<1> HAVE /\ Sound(n, tab) /\ e.live /\ <<e.src, e.dst>> \in Wanted
         /\ e.src # n => e.sender \in Nodes
         /\ \A j \in Slots : Is(tab[j], e.src, e.dst) => j = i
<1> DEFINE new == [tab EXCEPT ![i] = e]
<1>1. new \in [Slots -> Entry] /\ new[i] = e /\ \A j \in Slots : j # i => new[j] = tab[j]
  BY DEF Sound
<1> HIDE DEF new
<1>2. Sound(n, new)
  BY <1>1 DEF Sound, Is
<1> QED BY <1>2 DEF new

LEMMA OneTable ==
  \A n \in Nodes : \A tab :
    TInv /\ Sound(n, tab) /\ table' = [table EXCEPT ![n] = tab]
      => /\ table' \in [Nodes -> [Slots -> Entry]]
         /\ \A m \in Nodes : Sound(m, table'[m])
  BY DEF TInv, TypeOK, Sound

LEMMA RequestStep ==
  ASSUME TInv, NEW n \in Nodes, NEW d, <<n, d>> \in Wanted,
         NEW tab, Sound(n, tab), NEW wait, wait \subseteq Nodes,
         \A x \in wait : <<n, x>> \in Wanted, Request(n, d, tab, wait)
  PROVE  /\ table' \in [Nodes -> [Slots -> Entry]] /\ \A m \in Nodes : Sound(m, table'[m])
         /\ waiting' \in [Nodes -> SUBSET Nodes] /\ WaitWanted'
         /\ air' \subseteq Command /\ AllWanted'
         /\ clean' \subseteq Wanted /\ faults' \in 0 .. MaxFaults
<1>0. d \in Nodes /\ n # d /\ NONE \notin Nodes /\ MaxFaults \in Nat
  BY WantedType, DiscoveryConstantsOK DEF DiscoveryConstantsOK
<1>1. /\ table \in [Nodes -> [Slots -> Entry]] /\ waiting \in [Nodes -> SUBSET Nodes]
      /\ air \subseteq Command /\ clean \subseteq Wanted /\ faults \in 0 .. MaxFaults
      /\ AllWanted /\ WaitWanted
  BY DEF TInv, TypeOK
<1>2. table' \in [Nodes -> [Slots -> Entry]] /\ \A m \in Nodes : Sound(m, table'[m])
  <2>1. CASE table' = [table EXCEPT ![n] = tab]
    BY <2>1, OneTable
  <2>2. ASSUME NEW i \in Slots, ~ tab[i].live, ~ \E j \in Slots : Is(tab[j], n, d),
               table' = [table EXCEPT ![n] = [tab EXCEPT ![i] = New(n, d, NONE, NoLink, NoLink)]]
        PROVE  table' \in [Nodes -> [Slots -> Entry]] /\ \A m \in Nodes : Sound(m, table'[m])
    <3> DEFINE e == New(n, d, NONE, NoLink, NoLink)
    <3>1. e \in Entry /\ e.live /\ e.src = n /\ e.dst = d
      BY <1>0 DEF New, Entry, NoLink, Best
    <3> HIDE DEF e
    <3>2. Sound(n, [tab EXCEPT ![i] = e])
      BY <2>2, <3>1, TakingIsSound
    <3>3. table' = [table EXCEPT ![n] = [tab EXCEPT ![i] = e]]
      BY <2>2 DEF e
    <3> QED BY <3>2, <3>3, OneTable
  <2> QED BY <2>1, <2>2 DEF Request
<1>3. waiting' \in [Nodes -> SUBSET Nodes] /\ WaitWanted'
  <2>1. PICK w \in {wait, wait \cup {d}} : waiting' = [waiting EXCEPT ![n] = w]
    BY DEF Request
  <2>2. w \subseteq Nodes /\ \A x \in w : <<n, x>> \in Wanted
    BY <1>0, <2>1
  <2>3. waiting' \in [Nodes -> SUBSET Nodes] /\ waiting'[n] = w
        /\ \A m \in Nodes : m # n => waiting'[m] = waiting[m]
    BY <1>1, <2>1, <2>2
  <2> QED BY <1>1, <2>2, <2>3, Zenon DEF WaitWanted
<1>4. air' \subseteq Command /\ AllWanted'
  <2>1. air' = air \/ air' = air \cup Requests(n, n, d, Best)
    BY DEF Request
  <2>2. \A c \in Requests(n, n, d, Best) : c \in Command /\ c.src = n /\ c.dst = d
    BY <1>0, RequestsType DEF Best
  <2> QED BY <1>1, <2>1, <2>2 DEF AllWanted
<1>5. clean' \subseteq Wanted /\ faults' \in 0 .. MaxFaults
  <2>1. clean' \in {clean, {<<n, d>>}, {}} /\ (faults' = faults \/ Fault)
    BY DEF Request
  <2> QED BY <1>0, <1>1, <2>1 DEF Fault
<1> QED BY <1>2, <1>3, <1>4, <1>5

(* What a request does to a node: nothing, or it is written to one slot,   *)
(* its own or a free one, and answered or passed on.                       *)
Taken(c, i, e, lq) ==
  /\ table' = [table EXCEPT ![c.to] = [table[c.to] EXCEPT ![i] = e]]
  /\ e.live /\ e.src = c.src /\ e.dst = c.dst /\ e.sender = c.from /\ c.src # c.to
  /\ \A j \in Slots : Is(table[c.to][j], c.src, c.dst) => j = i
  /\ table[c.to][i].live => Is(table[c.to][i], c.src, c.dst) /\ e.rev = table[c.to][i].rev
  /\ \/ /\ c.dst = c.to /\ route' = [route EXCEPT ![c.to][c.src] = c.from]
        /\ air' = (air \ {c}) \cup Reply(c.to, c.from, c.src, c.dst, lq)
     \/ /\ route' = route
        /\ air' = (air \ {c}) \cup Requests(c.to, c.src, c.dst, lq)

LEMMA RequestTaken ==
  ASSUME TInv, NEW c \in air, RequestReceived(c.to, c)
  PROVE  \/ table' = table /\ route' = route /\ air' = air \ {c}
         \/ \E i \in Slots, e \in Entry, lq \in 0 .. Best : Taken(c, i, e, lq)
<1> DEFINE n == c.to
           lq == UpdateLq(c.lq, Lqi[<<c.from, n>>])
<1>1. /\ n \in Nodes /\ c.from \in Nodes /\ c.src \in Nodes /\ c.dst \in Nodes
      /\ c.lq \in 0 .. Best
  BY DEF TInv, TypeOK, Command
<1>2. lq \in 0 .. Best
  <2>1. Lqi[<<c.from, n>>] \in 0 .. Best
    BY <1>1, DiscoveryConstantsOK DEF DiscoveryConstantsOK
  <2> QED BY <1>1, <2>1, LqType
<1>3. table \in [Nodes -> [Slots -> Entry]] /\ table[n] \in [Slots -> Entry] /\ Sound(n, table[n])
  BY <1>1 DEF TInv, TypeOK
<1> HIDE DEF lq
<1>4. ASSUME NEW i \in Slots, Slot(n, i, c, lq), Concerns(n, c),
             table' = [table EXCEPT ![n][i] =
                         New(c.src, c.dst, c.from, lq,
                             IF HasEntry(n, c.src, c.dst) THEN @.rev ELSE NoLink)],
             IF c.dst = n
             THEN /\ route' = [route EXCEPT ![n][c.src] = c.from]
                  /\ air' = (air \ {c}) \cup Reply(n, c.from, c.src, c.dst, lq)
             ELSE /\ route' = route
                  /\ air' = (air \ {c}) \cup Requests(n, c.src, c.dst, lq)
      PROVE  \E j \in Slots, e \in Entry, q \in 0 .. Best : Taken(c, j, e, q)
  <2> DEFINE r == IF HasEntry(n, c.src, c.dst) THEN table[n][i].rev ELSE NoLink
             e == New(c.src, c.dst, c.from, lq, r)
  <2>1. r \in 0 .. Best
    BY <1>3 DEF Entry, NoLink, Best
  <2>2. table' = [table EXCEPT ![n] = [table[n] EXCEPT ![i] = e]]
    BY <1>1, <1>3, <1>4
  <2>3. /\ table[n][i].live => Is(table[n][i], c.src, c.dst) /\ r = table[n][i].rev
        /\ \A j \in Slots : Is(table[n][j], c.src, c.dst) => j = i
    <3>1. CASE Finds(n, i, c.src, c.dst)
      <4>1. Is(table[n][i], c.src, c.dst) /\ HasEntry(n, c.src, c.dst)
        BY <3>1 DEF Finds, HasEntry
      <4> QED BY <1>3, <4>1 DEF Sound, Is
    <3>2. CASE ~ HasEntry(n, c.src, c.dst) /\ Takes(n, i)
      BY <3>2 DEF HasEntry, Takes
    <3> QED BY <1>4, <3>1, <3>2 DEF Slot
  <2> HIDE DEF r
  <2>4. e \in Entry /\ e.live /\ e.src = c.src /\ e.dst = c.dst /\ e.sender = c.from /\ e.rev = r
    BY <1>1, <1>2, <2>1 DEF New, Entry
  <2> HIDE DEF e
  <2>5. Taken(c, i, e, lq)
    BY <1>4, <2>2, <2>3, <2>4 DEF Taken, Concerns
  <2> QED BY SMTT(30), <1>2, <2>4, <2>5
<1> QED BY <1>4 DEF RequestReceived, lq

(* What a reply does: nothing, or it is written to the discovery's slot,   *)
(* becomes the next hop, and is passed on unless the node is the source.   *)
Followed(c, i) ==
  /\ Is(table[c.to][i], c.src, c.dst) /\ Accepts(table[c.to][i], c.lq)
  /\ table' = [table EXCEPT ![c.to] = [table[c.to] EXCEPT ![i] = Answered(table[c.to][i], c.lq)]]
  /\ \/ /\ c.src = c.to /\ route' = [route EXCEPT ![c.to][c.dst] = c.from]
        /\ air' = air \ {c}
     \/ /\ c.src # c.to /\ table[c.to][i].sender \in Nodes
        /\ route' = [route EXCEPT ![c.to] = Relayed(@, c, table[c.to][i].sender)]
        /\ air' = (air \ {c}) \cup Reply(c.to, table[c.to][i].sender, c.src, c.dst, c.lq)

LEMMA ReplyFollowed ==
  ASSUME TInv, NEW c \in air, ReplyReceived(c.to, c)
  PROVE  \/ table' = table /\ route' = route /\ air' = air \ {c}
         \/ c.id = "reply" /\ \E i \in Slots : Followed(c, i)
<1> DEFINE n == c.to
<1>1. n \in Nodes /\ Sound(n, table[n]) /\ table \in [Nodes -> [Slots -> Entry]]
  BY DEF TInv, TypeOK, Command
<1>2. ASSUME NEW i \in Slots,
             Finds(n, i, c.src, c.dst) /\ Accepts(table[n][i], c.lq),
             table' = [table EXCEPT ![n][i] = Answered(@, c.lq)],
             IF c.src = n
             THEN /\ route' = [route EXCEPT ![n][c.dst] = c.from]
                  /\ air' = air \ {c}
             ELSE /\ route' = [route EXCEPT ![n] = Relayed(@, c, table[n][i].sender)]
                  /\ air' = (air \ {c}) \cup Reply(n, table[n][i].sender, c.src, c.dst, c.lq)
      PROVE  Followed(c, i)
  <2>1. Is(table[n][i], c.src, c.dst)
    BY <1>2 DEF Finds
  <2>2. c.src # n => table[n][i].sender \in Nodes
    BY <1>1, <2>1 DEF Sound, Is
  <2>3. table' = [table EXCEPT ![n] = [table[n] EXCEPT ![i] = Answered(table[n][i], c.lq)]]
    BY <1>1, <1>2
  <2> QED BY <1>2, <2>1, <2>2, <2>3 DEF Followed
<1> QED BY <1>2 DEF ReplyReceived

LEMMA TypeInit == Init => TInv
<1> SUFFICES ASSUME Init PROVE TInv
  OBVIOUS
<1>1. NoEntry \in Entry /\ ~ NoEntry.live
  BY DEF NoEntry, Entry, NoLink, Best
<1>2. 0 \in 0 .. TableSize - 1 /\ 0 \in 0 .. MaxFaults
  BY DiscoveryConstantsOK DEF DiscoveryConstantsOK
<1>3. TypeOK
  BY <1>1, <1>2 DEF Init, TypeOK
<1> HIDE DEF NoEntry
<1>4. \A n \in Nodes : Sound(n, table[n])
  BY <1>1 DEF Init, Sound
<1> QED BY <1>3, <1>4 DEF Init, TInv, AllWanted, WaitWanted

(* The slot the timer's handler is at, and the next.                       *)
LEMMA SweepType ==
  ASSUME TypeOK, NEW n \in Nodes
  PROVE  At(n) \in Slots /\ (NextSlot(n) => sweep' \in [Nodes -> 0 .. TableSize - 1])
<1>1. TableSize \in Nat /\ TableSize > 0 /\ sweep[n] \in 0 .. TableSize - 1
  BY DiscoveryConstantsOK DEF DiscoveryConstantsOK, TypeOK
<1>2. (sweep[n] + 1) % TableSize \in 0 .. TableSize - 1
  BY <1>1
<1> QED BY <1>1, <1>2 DEF TypeOK, At, Slots, NextSlot

RouteType == [Nodes -> [Nodes -> Nodes \cup {NONE}]]

LEMMA OneRoute ==
  \A r \in RouteType : \A n, x \in Nodes, y \in Nodes \cup {NONE} :
    /\ [r EXCEPT ![n][x] = y] \in RouteType
    /\ \A m, z \in Nodes :
         [r EXCEPT ![n][x] = y][m][z] = IF m = n /\ z = x THEN y ELSE r[m][z]
<1> TAKE r \in RouteType
<1> TAKE n, x \in Nodes, y \in Nodes \cup {NONE}
<1>1. [r[n] EXCEPT ![x] = y] \in [Nodes -> Nodes \cup {NONE}]
  BY DEF RouteType
<1> QED BY <1>1 DEF RouteType

LEMMA RelayedRoute ==
  \A r \in RouteType : \A n \in Nodes, c \in Command, y \in Nodes :
    /\ [r EXCEPT ![n] = Relayed(@, c, y)] \in RouteType
    /\ c.src # c.dst => \A m, z \in Nodes :
         [r EXCEPT ![n] = Relayed(@, c, y)][m][z]
           = IF m = n /\ z = c.dst THEN c.from
             ELSE IF m = n /\ z = c.src THEN y ELSE r[m][z]
<1> TAKE r \in RouteType
<1> TAKE n \in Nodes, c \in Command, y \in Nodes
<1>1. c.from \in Nodes /\ c.src \in Nodes /\ c.dst \in Nodes
  BY DEF Command
<1>2. /\ Relayed(r[n], c, y) \in [Nodes -> Nodes \cup {NONE}]
      /\ c.src # c.dst => \A z \in Nodes :
           Relayed(r[n], c, y)[z]
             = IF z = c.dst THEN c.from ELSE IF z = c.src THEN y ELSE r[n][z]
  BY <1>1 DEF Relayed, RouteType
<1> QED BY <1>2 DEF RouteType

LEMMA ReceiveTypes ==
  ASSUME TInv, NEW c \in air, Receive(c)
  PROVE  TInv'
<1>1. /\ c \in Command /\ c.to \in Nodes /\ c.from \in Nodes /\ c.src \in Nodes
      /\ c.dst \in Nodes /\ c.lq \in 0 .. Best /\ <<c.src, c.dst>> \in Wanted
  BY DEF TInv, TypeOK, Command, AllWanted
<1>2. /\ table \in [Nodes -> [Slots -> Entry]] /\ route \in [Nodes -> [Nodes -> Nodes \cup {NONE}]]
      /\ timer \in [Nodes -> BOOLEAN] /\ air \subseteq Command /\ AllWanted
      /\ \A n \in Nodes : Sound(n, table[n])
  BY DEF TInv, TypeOK
<1>r. route \in RouteType
  BY <1>2 DEF RouteType
<1>3. UNCHANGED <<sweep, waiting, clean, faults>>
  BY DEF Receive
<1>4. timer' \in [Nodes -> BOOLEAN]
  <2>1. CASE RequestReceived(c.to, c)
    BY <1>1, <1>2, <2>1 DEF RequestReceived
  <2>2. CASE ReplyReceived(c.to, c)
    BY <1>1, <1>2, <2>2 DEF ReplyReceived
  <2> QED BY <2>1, <2>2 DEF Receive
<1>5. /\ table' \in [Nodes -> [Slots -> Entry]] /\ \A n \in Nodes : Sound(n, table'[n])
      /\ route' \in [Nodes -> [Nodes -> Nodes \cup {NONE}]]
      /\ air' \subseteq Command /\ AllWanted'
  <2>1. CASE table' = table /\ route' = route /\ air' = air \ {c}
    BY <1>2, <2>1 DEF AllWanted
  <2>2. ASSUME NEW i \in Slots, NEW e \in Entry, NEW lq \in 0 .. Best, Taken(c, i, e, lq)
        PROVE  /\ table' \in [Nodes -> [Slots -> Entry]] /\ \A n \in Nodes : Sound(n, table'[n])
               /\ route' \in [Nodes -> [Nodes -> Nodes \cup {NONE}]]
               /\ air' \subseteq Command /\ AllWanted'
    <3>1. Sound(c.to, [table[c.to] EXCEPT ![i] = e])
      BY <1>1, <1>2, <2>2, TakingIsSound DEF Taken
    <3>2. table' = [table EXCEPT ![c.to] = [table[c.to] EXCEPT ![i] = e]]
      BY <2>2 DEF Taken
    <3>3. route' = route \/ route' = [route EXCEPT ![c.to][c.src] = c.from]
      BY <2>2 DEF Taken
    <3>4. \A x \in Requests(c.to, c.src, c.dst, lq) \cup Reply(c.to, c.from, c.src, c.dst, lq) :
            x \in Command /\ x.src = c.src /\ x.dst = c.dst
      BY <1>1, RequestsType, ReplyType
    <3>5. air' \subseteq Command /\ AllWanted'
      <4>1. air' \subseteq air \cup Requests(c.to, c.src, c.dst, lq)
                              \cup Reply(c.to, c.from, c.src, c.dst, lq)
        BY <2>2 DEF Taken
      <4> QED BY <1>1, <1>2, <3>4, <4>1 DEF AllWanted
    <3>6. table' \in [Nodes -> [Slots -> Entry]] /\ \A n \in Nodes : Sound(n, table'[n])
      BY <1>1, <3>1, <3>2, OneTable
    <3>7. route' \in RouteType
      BY <1>1, <1>r, <3>3, OneRoute
    <3> QED BY <3>5, <3>6, <3>7 DEF RouteType
  <2>3. ASSUME NEW i \in Slots, Followed(c, i)
        PROVE  /\ table' \in [Nodes -> [Slots -> Entry]] /\ \A n \in Nodes : Sound(n, table'[n])
               /\ route' \in [Nodes -> [Nodes -> Nodes \cup {NONE}]]
               /\ air' \subseteq Command /\ AllWanted'
    <3> DEFINE n == c.to
               e == Answered(table[n][i], c.lq)
    <3>1. /\ e \in Entry /\ e.live /\ e.src = c.src /\ e.dst = c.dst
          /\ e.sender = table[n][i].sender
      BY <1>1, <1>2, <2>3, AnsweredType DEF Followed, Is
    <3>2. \A j \in Slots : Is(table[n][j], c.src, c.dst) => j = i
      BY <1>1, <1>2, <2>3 DEF Followed, Sound, Is
    <3>3. e.src # n => e.sender \in Nodes
      BY <2>3, <3>1 DEF Followed
    <3>4. table' = [table EXCEPT ![n] = [table[n] EXCEPT ![i] = e]]
      BY <2>3 DEF Followed
    <3> HIDE DEF e
    <3>5. Sound(n, [table[n] EXCEPT ![i] = e])
      BY <1>1, <1>2, <3>1, <3>2, <3>3, TakingIsSound
    <3>6. table' \in [Nodes -> [Slots -> Entry]] /\ \A m \in Nodes : Sound(m, table'[m])
      BY <1>1, <3>4, <3>5, OneTable
    <3>7. route' \in [Nodes -> [Nodes -> Nodes \cup {NONE}]]
      <4>1. route' \in RouteType
        BY <1>1, <1>r, <2>3, OneRoute, RelayedRoute DEF Followed
      <4> QED BY <4>1 DEF RouteType
    <3>8. air' \subseteq Command /\ AllWanted'
      <4>1. CASE air' = air \ {c}
        BY <1>2, <4>1 DEF AllWanted
      <4>2. CASE /\ table[n][i].sender \in Nodes
                 /\ air' = (air \ {c}) \cup Reply(n, table[n][i].sender, c.src, c.dst, c.lq)
        <5>1. \A x \in Reply(n, table[n][i].sender, c.src, c.dst, c.lq) :
                x \in Command /\ x.src = c.src /\ x.dst = c.dst
          BY <1>1, <4>2, ReplyType
        <5> QED BY <1>1, <1>2, <4>2, <5>1 DEF AllWanted
      <4> QED BY <2>3, <4>1, <4>2 DEF Followed
    <3> QED BY <3>6, <3>7, <3>8
  <2>4. CASE RequestReceived(c.to, c)
    BY <2>1, <2>2, <2>4, RequestTaken
  <2>5. CASE ReplyReceived(c.to, c)
    BY <2>1, <2>3, <2>5, ReplyFollowed
  <2> QED BY <2>4, <2>5 DEF Receive
<1> QED BY <1>3, <1>4, <1>5 DEF TInv, TypeOK, WaitWanted

(* A tick of the timer's handler clears a slot and may take one for a new  *)
(* discovery; a frame that finds no route takes one.                       *)
LEMMA ExpiresTypes ==
  ASSUME TInv, NEW n \in Nodes, Expires(n)
  PROVE  TInv'
<1> DEFINE e == table[n][At(n)]
           tab == [table[n] EXCEPT ![At(n)] = Expired(@)]
<1>1. /\ TypeOK /\ AllWanted /\ WaitWanted /\ Sound(n, table[n]) /\ At(n) \in Slots
      /\ table \in [Nodes -> [Slots -> Entry]]
      /\ \A m \in Nodes : Sound(m, table[m])
  BY SweepType DEF TInv, TypeOK
<1>2. Sound(n, tab)
  BY <1>1, FreeingIsSound
<1>3. route' = route /\ sweep' \in [Nodes -> 0 .. TableSize - 1]
  BY <1>1, SweepType DEF Expires
<1>4. timer' \in [Nodes -> BOOLEAN]
  BY <1>1 DEF Expires, TypeOK, Running
<1>5. Done(n, e, tab)
  BY DEF Expires
<1> HIDE DEF e, tab
<1>6. /\ table' \in [Nodes -> [Slots -> Entry]] /\ \A m \in Nodes : Sound(m, table'[m])
      /\ waiting' \in [Nodes -> SUBSET Nodes] /\ WaitWanted'
      /\ air' \subseteq Command /\ AllWanted'
      /\ clean' \subseteq Wanted /\ faults' \in 0 .. MaxFaults
  <2>1. CASE /\ waiting' = waiting \/ waiting' = [waiting EXCEPT ![n] = @ \ {e.dst}]
             /\ table' = [table EXCEPT ![n] = tab] /\ UNCHANGED <<air, clean, faults>>
    <3>1. table' \in [Nodes -> [Slots -> Entry]] /\ \A m \in Nodes : Sound(m, table'[m])
      BY <1>2, <2>1, OneTable
    <3>2. waiting' \in [Nodes -> SUBSET Nodes] /\ \A m \in Nodes : waiting'[m] \subseteq waiting[m]
      <4>1. PICK w \in SUBSET waiting[n] : waiting' = [waiting EXCEPT ![n] = w]
        BY <1>1, <2>1 DEF TypeOK
      <4> QED BY <1>1, <4>1 DEF TypeOK
    <3> QED BY <1>1, <2>1, <3>1, <3>2 DEF TypeOK, WaitWanted, AllWanted
  <2>2. CASE e.src = n /\ e.dst \in waiting[n] /\ Request(n, e.dst, tab, waiting[n] \ {e.dst})
    <3>1. <<n, e.dst>> \in Wanted /\ waiting[n] \ {e.dst} \subseteq Nodes
          /\ \A x \in waiting[n] \ {e.dst} : <<n, x>> \in Wanted
      BY <1>1, <2>2 DEF WaitWanted, TypeOK
    <3> QED BY <1>2, <2>2, <3>1, RequestStep
  <2> QED BY <1>5, <2>1, <2>2 DEF Done
<1> QED BY <1>1, <1>3, <1>4, <1>6 DEF TInv, TypeOK

LEMMA SendTypes ==
  ASSUME TInv, NEW p \in Wanted, Send(p[1], p[2])
  PROVE  TInv'
<1>1. /\ p[1] \in Nodes /\ <<p[1], p[2]>> \in Wanted /\ waiting[p[1]] \subseteq Nodes
      /\ \A x \in waiting[p[1]] : <<p[1], x>> \in Wanted
      /\ Sound(p[1], table[p[1]]) /\ Request(p[1], p[2], table[p[1]], waiting[p[1]])
  BY WantedType DEF Send, TInv, TypeOK, WaitWanted
<1>2. /\ table' \in [Nodes -> [Slots -> Entry]] /\ \A m \in Nodes : Sound(m, table'[m])
      /\ waiting' \in [Nodes -> SUBSET Nodes] /\ WaitWanted'
      /\ air' \subseteq Command /\ AllWanted'
      /\ clean' \subseteq Wanted /\ faults' \in 0 .. MaxFaults
  BY <1>1, RequestStep
<1>3. timer' \in [Nodes -> BOOLEAN]
  BY <1>1 DEF Send, TInv, TypeOK
<1> QED BY <1>2, <1>3 DEF Send, TInv, TypeOK

LEMMA FaultType == TypeOK /\ Fault => faults' \in 0 .. MaxFaults
  BY DiscoveryConstantsOK DEF DiscoveryConstantsOK, TypeOK, Fault

LEMMA TypeStep ==
  TInv /\ [Next]_vars => TInv'
<1> SUFFICES ASSUME TInv, [Next]_vars PROVE TInv'
  OBVIOUS
<1> USE DEF TInv
<1>1. CASE UNCHANGED vars
  BY <1>1 DEF vars, TypeOK, AllWanted, WaitWanted
<1>2. ASSUME NEW p \in Wanted, Send(p[1], p[2]) PROVE TInv'
  BY <1>2, SendTypes
<1>3. ASSUME NEW c \in air, Receive(c) PROVE TInv'
  BY <1>3, ReceiveTypes
<1>4. ASSUME NEW c \in air, Lose(c) PROVE TInv'
  <2>1. faults' \in 0 .. MaxFaults
    BY <1>4, FaultType DEF Lose
  <2> QED BY <1>4, <2>1 DEF Lose, TypeOK, AllWanted, WaitWanted
<1>5. ASSUME NEW n \in Nodes, Stays(n) PROVE TInv'
  <2>1. sweep' \in [Nodes -> 0 .. TableSize - 1]
    BY <1>5, SweepType DEF Stays
  <2> QED BY <1>5, <2>1 DEF Stays, TypeOK, AllWanted, WaitWanted
<1>6. ASSUME NEW n \in Nodes, Expires(n) PROVE TInv'
  BY <1>6, ExpiresTypes
<1>7. ASSUME NEW n \in Nodes, NEW d \in Nodes, RouteFails(n, d) PROVE TInv'
  <2>1. route' \in RouteType
    <3>1. route \in RouteType
      BY DEF TypeOK, RouteType
    <3> QED BY <1>7, <3>1, OneRoute DEF RouteFails
  <2>2. faults' \in 0 .. MaxFaults
    BY <1>7, FaultType DEF RouteFails
  <2>3. TypeOK'
    BY <1>7, <2>1, <2>2 DEF RouteFails, TypeOK, RouteType
  <2> QED BY <1>7, <2>3 DEF RouteFails, AllWanted, WaitWanted
<1> QED BY <1>1, <1>2, <1>3, <1>4, <1>5, <1>6, <1>7 DEF Next

(* Every slot, route and command is of its type, and what is live or under *)
(* way belongs to a frame that wants a route.                              *)
THEOREM DiscoveryTypeCorrect == Spec => []TInv
  BY TypeInit, TypeStep, PTL DEF Spec

(***************************************************************************)
(* What makes a reply safe to follow.  While replies of a discovery are    *)
(* under way, F are the nodes that have followed one: the reverse quality  *)
(* never falls along the next hops from one of them to the next.  A node   *)
(* accepts only a better reply than it has had, so that its new next hop,  *)
(* and all that come after, are not the node itself.  The other nodes may  *)
(* have routes from before, and no circle among them.                      *)
(***************************************************************************)
Holds(tab, m, s, d, q) ==
  m = d \/ \E j \in Slots : Is(tab[m][j], s, d) /\ tab[m][j].rev >= q

Replies(s, d) == {c \in air : c.id = "reply" /\ c.src = s /\ c.dst = d}

Fresh(s, d, F) ==
  /\ d \in F
  /\ \A m \in F \ {d} : \E i \in Slots :
       /\ Is(table[m][i], s, d)
       /\ route[m][d] # NONE =>
            route[m][d] \in F /\ Holds(table, route[m][d], s, d, table[m][i].rev)
  /\ \A c \in Replies(s, d) : c.from \in F /\ Holds(table, c.from, s, d, c.lq)

NoCircle(d) ==
  \A S \in SUBSET (Nodes \ {d}) : S # {} => \E n \in S : route[n][d] \notin S

Safe(s, d) == NoCircle(d) /\ \E F \in SUBSET Nodes : Fresh(s, d, F)

IInv == TInv /\ \A p \in Wanted : SoughtAlone(p) => Safe(p[1], p[2])

(* A step that changes no route to d, but may take some away, sends no     *)
(* reply but from d, and leaves none or keeps what the nodes know of the   *)
(* discovery.                                                              *)
Steady(d) == \A m \in Nodes : route'[m][d] = route[m][d]
Shrinks(d) == \A m \in Nodes : route'[m][d] \in {route[m][d], NONE}
Keeps(s, d) ==
  \A m \in Nodes, j \in Slots :
    Is(table[m][j], s, d) => Is(table'[m][j], s, d) /\ table'[m][j].rev = table[m][j].rev
OldReplies(s, d) == \A c \in Replies(s, d)' : c \in Replies(s, d) \/ c.from = d
Quiet(s, d) ==
  Shrinks(d) /\ OldReplies(s, d) /\ (Replies(s, d)' = {} \/ Keeps(s, d))

LEMMA QuietIsSafe ==
  ASSUME TInv, NEW s \in Nodes, NEW d \in Nodes, Safe(s, d), Quiet(s, d)
  PROVE  Safe(s, d)'
<1>0. NONE \notin Nodes
  BY DiscoveryConstantsOK DEF DiscoveryConstantsOK
<1>1. NoCircle(d)'
  <2>1. ASSUME NEW S \in SUBSET (Nodes \ {d}), S # {}
        PROVE  \E n \in S : route'[n][d] \notin S
    <3>1. PICK n \in S : route[n][d] \notin S
      BY <2>1 DEF Safe, NoCircle
    <3>2. route'[n][d] \in {route[n][d], NONE}
      BY DEF Quiet, Shrinks
    <3> QED BY <1>0, <3>1, <3>2
  <2> QED BY <2>1 DEF NoCircle
<1>2. CASE Replies(s, d)' = {}
  <2>1. Fresh(s, d, {d})'
    BY <1>2 DEF Fresh
  <2> QED BY <1>1, <2>1 DEF Safe
<1>3. CASE Keeps(s, d) /\ OldReplies(s, d)
  <2>1. PICK F \in SUBSET Nodes : Fresh(s, d, F)
    BY DEF Safe
  <2>2. \A m \in Nodes : \A q : Holds(table, m, s, d, q) => Holds(table', m, s, d, q)
    BY <1>3 DEF Keeps, Holds
  <2>3. ASSUME NEW m \in F \ {d}
        PROVE  \E i \in Slots :
                 /\ Is(table'[m][i], s, d)
                 /\ route'[m][d] # NONE =>
                      route'[m][d] \in F /\ Holds(table', route'[m][d], s, d, table'[m][i].rev)
    <3>1. PICK i \in Slots :
            /\ Is(table[m][i], s, d)
            /\ route[m][d] # NONE =>
                 route[m][d] \in F /\ Holds(table, route[m][d], s, d, table[m][i].rev)
      BY <2>1 DEF Fresh
    <3>2. Is(table'[m][i], s, d) /\ table'[m][i].rev = table[m][i].rev
      BY <1>3, <3>1 DEF Keeps
    <3>3. CASE route'[m][d] = NONE
      BY <3>2, <3>3
    <3>4. CASE route'[m][d] = route[m][d] /\ route[m][d] # NONE
      BY <2>2, <3>1, <3>2, <3>4
    <3> QED BY <3>3, <3>4 DEF Quiet, Shrinks
  <2>4. \A c \in Replies(s, d)' : c.from \in F /\ Holds(table', c.from, s, d, c.lq)
    <3> TAKE c \in Replies(s, d)'
    <3>1. CASE c \in Replies(s, d)
      BY <2>1, <2>2, <3>1 DEF Fresh
    <3>2. CASE c.from = d
      BY <2>1, <3>2 DEF Fresh, Holds
    <3> QED BY <1>3, <3>1, <3>2 DEF OldReplies
  <2>5. Fresh(s, d, F)'
    BY <2>1, <2>3, <2>4 DEF Fresh
  <2> QED BY <1>1, <2>5 DEF Safe
<1> QED BY <1>2, <1>3 DEF Quiet

LEMMA QualityType ==
  /\ \A e \in Entry : e.rev \in 0 .. Best
  /\ \A c \in Command : c.lq \in 0 .. Best
  /\ \A x, y, z \in 0 .. Best : x >= y /\ y >= z => x >= z
  /\ \A x, y \in 0 .. Best : x < y => ~ x >= y /\ y >= x
  /\ \A x \in 0 .. Best : x >= x
<1>1. \A e \in Entry : e.rev \in 0 .. Best
  BY DEF Entry
<1>2. \A c \in Command : c.lq \in 0 .. Best
  BY DEF Command
<1>3. \A x, y, z \in 0 .. Best : x >= y /\ y >= z => x >= z
  BY DEF Best
<1>4. \A x, y \in 0 .. Best : x < y => ~ x >= y /\ y >= x
  BY DEF Best
<1>5. \A x \in 0 .. Best : x >= x
  BY DEF Best
<1> QED BY <1>1, <1>2, <1>3, <1>4, <1>5, Zenon

LEMMA FollowedChanges ==
  ASSUME TInv, NEW s \in Nodes, NEW d \in Nodes, s # d,
         NEW c \in air, c.src = s, c.dst = d, NEW i \in Slots, Followed(c, i)
  PROVE  /\ route'[c.to][d] = c.from
         /\ \A m \in Nodes : m # c.to => route'[m][d] = route[m][d]
         /\ \A x \in Replies(s, d)' :
              x \in Replies(s, d) \/ (x.from = c.to /\ x.lq = c.lq)
<1> DEFINE n == c.to
<1>0. /\ c \in Command /\ n \in Nodes /\ c.from \in Nodes /\ c.lq \in 0 .. Best
      /\ route \in RouteType
  BY DEF TInv, TypeOK, Command, RouteType
<1>1. route'[n][d] = c.from /\ \A m \in Nodes : m # n => route'[m][d] = route[m][d]
  <2>1. CASE route' = [route EXCEPT ![n][c.dst] = c.from]
    <3>1. \A m, z \in Nodes :
            route'[m][z] = IF m = n /\ z = c.dst THEN c.from ELSE route[m][z]
      BY <1>0, <2>1 DEF RouteType
    <3> QED BY <1>0, <3>1
  <2>2. CASE /\ table[n][i].sender \in Nodes
             /\ route' = [route EXCEPT ![n] = Relayed(@, c, table[n][i].sender)]
    BY <1>0, <2>2, RelayedRoute
  <2> QED BY <2>1, <2>2 DEF Followed
<1>2. \A x \in Replies(s, d)' : x \in Replies(s, d) \/ (x.from = n /\ x.lq = c.lq)
  <2>1. CASE air' = air \ {c}
    BY <2>1 DEF Replies
  <2>2. CASE /\ table[n][i].sender \in Nodes
             /\ air' = (air \ {c}) \cup Reply(n, table[n][i].sender, c.src, c.dst, c.lq)
    <3>1. \A x \in Reply(n, table[n][i].sender, c.src, c.dst, c.lq) :
            x.from = n /\ x.lq = c.lq
      BY SMTT(30), <1>0, <2>2, ReplyType DEF Command
    <3> QED BY <2>2, <3>1 DEF Replies
  <2> QED BY <2>1, <2>2 DEF Followed
<1> QED BY <1>1, <1>2

(* A reply that is followed closes no circle: the new next hop is of a     *)
(* higher reverse quality than the node has had, and so is all that comes  *)
(* after it.                                                               *)
LEMMA FollowedIsSafe ==
  ASSUME TInv, NEW s \in Nodes, NEW d \in Nodes, s # d, Safe(s, d),
         NEW c \in air, c.id = "reply", c.src = s, c.dst = d,
         NEW i \in Slots, Followed(c, i)
  PROVE  Safe(s, d)'
<1> DEFINE n == c.to
           e == Answered(table[n][i], c.lq)
<1>0. /\ c \in Command /\ n \in Nodes /\ c.from \in Nodes /\ c.lq \in 0 .. Best
      /\ NONE \notin Nodes /\ table \in [Nodes -> [Slots -> Entry]] /\ route \in RouteType
      /\ Sound(n, table[n])
  BY DiscoveryConstantsOK DEF DiscoveryConstantsOK, TInv, TypeOK, Command, RouteType
<1>1. /\ Is(table[n][i], s, d) /\ table[n][i].rev < c.lq /\ table[n][i].rev \in 0 .. Best
      /\ table[n][i] \in Entry
  <2>1. table[n][i] \in Entry
    BY <1>0
  <2>2. Is(table[n][i], s, d) /\ c.lq > table[n][i].rev
    BY DEF Followed, Accepts
  <2>3. table[n][i].rev \in 0 .. Best
    BY <2>1, QualityType
  <2> QED BY <1>0, <2>1, <2>2, <2>3 DEF Best
<1>2. \A j \in Slots : Is(table[n][j], s, d) => j = i
  BY <1>0, <1>1 DEF Sound, Is
<1>3. /\ Is(e, s, d) /\ e.rev = c.lq
      /\ table' = [table EXCEPT ![n] = [table[n] EXCEPT ![i] = e]]
  BY <1>0, <1>1, AnsweredType DEF Followed, Is
<1> HIDE DEF e
<1>4. /\ table'[n][i] = e /\ \A j \in Slots : j # i => table'[n][j] = table[n][j]
      /\ \A m \in Nodes : m # n => table'[m] = table[m]
  BY <1>0, <1>3
<1>5. /\ route'[n][d] = c.from /\ \A m \in Nodes : m # n => route'[m][d] = route[m][d]
      /\ \A x \in Replies(s, d)' : x \in Replies(s, d) \/ (x.from = n /\ x.lq = c.lq)
  BY FollowedChanges
<1>7. PICK F \in SUBSET Nodes : Fresh(s, d, F)
  BY DEF Safe
<1>8. c.from \in F /\ Holds(table, c.from, s, d, c.lq)
  BY <1>7 DEF Fresh, Replies
<1> DEFINE G == {m \in F : Holds(table, m, s, d, c.lq)}
<1>9. n # d => n \notin G
  BY <1>0, <1>1, <1>2, QualityType DEF Holds
<1>10. \A m \in Nodes, q \in 0 .. Best : Holds(table, m, s, d, q) => Holds(table', m, s, d, q)
  <2> TAKE m \in Nodes, q \in 0 .. Best
  <2> HAVE Holds(table, m, s, d, q)
  <2>1. CASE m = d
    BY <2>1 DEF Holds
  <2>2. ASSUME NEW j \in Slots, Is(table[m][j], s, d), table[m][j].rev >= q
        PROVE  Holds(table', m, s, d, q)
    <3>1. CASE m = n /\ j = i
      <4>1. e.rev >= q
        <5>1. c.lq >= table[n][i].rev
          BY <1>0, <1>1, QualityType
        <5> QED BY <1>0, <1>1, <1>3, <2>2, <3>1, <5>1, QualityType
      <4> QED BY <1>3, <1>4, <3>1, <4>1 DEF Holds
    <3>2. CASE table'[m][j] = table[m][j]
      BY <2>2, <3>2 DEF Holds
    <3> QED BY <1>4, <3>1, <3>2
  <2> QED BY <2>1, <2>2 DEF Holds
<1>11. NoCircle(d)'
  <2>1. ASSUME NEW S \in SUBSET (Nodes \ {d}), \A m \in S : route'[m][d] \in S
        PROVE  S = {}
    <3>1. \A S1 \in SUBSET (Nodes \ {d}) : (\A m \in S1 : route[m][d] \in S1) => S1 = {}
      BY DEF Safe, NoCircle
    <3>2. CASE n \notin S
      BY <1>5, <2>1, <3>1, <3>2
    <3>3. CASE n \in S
      <4>1. n # d /\ c.from \in S \cap G
        BY <1>5, <1>8, <2>1, <3>3
      <4>2. ASSUME NEW m \in S \cap G PROVE route[m][d] \in S \cap G
        <5>1. m # n /\ m # d /\ m \in F /\ m \in Nodes /\ Holds(table, m, s, d, c.lq)
          BY <1>9, <2>1, <4>1, <4>2
        <5>2. route[m][d] \in S /\ route[m][d] # NONE
          BY <1>0, <1>5, <2>1, <4>2, <5>1
        <5>3. PICK k \in Slots :
                /\ Is(table[m][k], s, d)
                /\ route[m][d] \in F /\ Holds(table, route[m][d], s, d, table[m][k].rev)
          BY <1>7, <5>1, <5>2 DEF Fresh
        <5>4. table[m][k].rev >= c.lq /\ table[m][k].rev \in 0 .. Best
          <6>1. Sound(m, table[m]) /\ table[m][k] \in Entry
            BY <1>0, <5>1 DEF TInv
          <6>2. \A j \in Slots : Is(table[m][j], s, d) => j = k
            BY <5>3, <6>1 DEF Sound, Is
          <6> QED BY <5>1, <6>1, <6>2 DEF Holds, Entry
        <5>5. Holds(table, route[m][d], s, d, c.lq)
          <6>1. CASE route[m][d] = d
            BY <6>1 DEF Holds
          <6>2. ASSUME NEW j \in Slots, Is(table[route[m][d]][j], s, d),
                       table[route[m][d]][j].rev >= table[m][k].rev
                PROVE  Holds(table, route[m][d], s, d, c.lq)
            <7>1. table[route[m][d]][j].rev \in 0 .. Best
              BY <1>0, <2>1, <5>2, QualityType
            <7>2. table[route[m][d]][j].rev >= c.lq
              BY <1>0, <5>4, <6>2, <7>1, QualityType
            <7> QED BY <6>2, <7>2 DEF Holds
          <6> QED BY <5>3, <6>1, <6>2 DEF Holds
        <5> QED BY <5>2, <5>3, <5>5
      <4> HIDE DEF G
      <4>3. S \cap G = {}
        BY <2>1, <3>1, <4>2
      <4> QED BY <4>1, <4>3
    <3> QED BY <3>2, <3>3
  <2> QED BY <2>1 DEF NoCircle
<1>12. Fresh(s, d, F \cup {n})'
  <2>1. \A x \in Replies(s, d)' :
          x.from \in F \cup {n} /\ Holds(table', x.from, s, d, x.lq)
    <3> TAKE x \in Replies(s, d)'
    <3>1. CASE x \in Replies(s, d)
      <4>1. x.from \in Nodes /\ x.lq \in 0 .. Best /\ x.from \in F /\ Holds(table, x.from, s, d, x.lq)
        BY <1>7, <3>1 DEF Fresh, Replies, TInv, TypeOK, Command
      <4> QED BY <1>10, <4>1
    <3>2. CASE x.from = n /\ x.lq = c.lq
      <4>1. e.rev >= c.lq
        BY <1>0, <1>3 DEF Best
      <4> QED BY <1>3, <1>4, <3>2, <4>1 DEF Holds
    <3> QED BY <1>5, <3>1, <3>2
  <2>2. ASSUME NEW m \in (F \cup {n}) \ {d}
        PROVE  \E k \in Slots :
                 /\ Is(table'[m][k], s, d)
                 /\ route'[m][d] # NONE =>
                      /\ route'[m][d] \in F \cup {n}
                      /\ Holds(table', route'[m][d], s, d, table'[m][k].rev)
    <3>1. CASE m = n
      <4>1. Holds(table', c.from, s, d, c.lq)
        BY <1>0, <1>8, <1>10
      <4> QED BY <1>3, <1>4, <1>5, <1>8, <3>1, <4>1
    <3>2. CASE m # n
      <4>1. m \in Nodes /\ table'[m] = table[m] /\ route'[m][d] = route[m][d]
        BY <1>4, <1>5, <2>2, <3>2
      <4>2. PICK k \in Slots :
              /\ Is(table[m][k], s, d)
              /\ route[m][d] # NONE =>
                   route[m][d] \in F /\ Holds(table, route[m][d], s, d, table[m][k].rev)
        BY <1>7, <2>2, <3>2 DEF Fresh
      <4>3. table[m][k].rev \in 0 .. Best
        BY <1>0, <4>1 DEF Entry
      <4> QED BY <1>10, <4>1, <4>2, <4>3
    <3> QED BY <3>1, <3>2
  <2>3. d \in F
    BY <1>7 DEF Fresh
  <2> QED BY <2>1, <2>2, <2>3 DEF Fresh
<1>13. F \cup {n} \in SUBSET Nodes
  BY <1>0
<1> QED BY <1>11, <1>12, <1>13 DEF Safe

(***************************************************************************)
(* Every other step is quiet, as no other discovery begins or ends at d.   *)
(***************************************************************************)
LEMMA TableIsQuiet ==
  ASSUME TInv, NEW s \in Nodes, NEW d \in Nodes, NEW n \in Nodes, NEW new,
         table' = [table EXCEPT ![n] = new], route' = route,
         Replies(s, d)' \subseteq Replies(s, d),
         \/ Replies(s, d) = {}
         \/ \A j \in Slots : Is(table[n][j], s, d) => new[j] = table[n][j]
  PROVE  Quiet(s, d) /\ Steady(d)
<1>1. table \in [Nodes -> [Slots -> Entry]]
  BY DEF TInv, TypeOK
<1>2. CASE Replies(s, d) = {}
  BY <1>2 DEF Quiet, Shrinks, Steady, OldReplies
<1>3. CASE \A j \in Slots : Is(table[n][j], s, d) => new[j] = table[n][j]
  BY <1>1, <1>3 DEF Quiet, Shrinks, Steady, Keeps, OldReplies
<1> QED BY <1>2, <1>3

LEMMA RequestIsQuiet ==
  ASSUME TInv, NEW s \in Nodes, NEW d \in Nodes, NEW n \in Nodes, NEW x \in Nodes,
         NEW tab, tab \in [Slots -> Entry], NEW wait, Request(n, x, tab, wait), route' = route,
         \/ Replies(s, d) = {}
         \/ \A j \in Slots : Is(table[n][j], s, d) => tab[j] = table[n][j]
  PROVE  Quiet(s, d) /\ Steady(d)
<1>1. Replies(s, d)' \subseteq Replies(s, d)
  <2>1. air' = air \/ air' = air \cup Requests(n, n, x, Best)
    BY DEF Request
  <2>2. \A c \in Requests(n, n, x, Best) : c.id = "request"
    BY SMTT(30), RequestsType DEF Best
  <2> QED BY <2>1, <2>2 DEF Replies
<1>2. CASE table' = [table EXCEPT ![n] = tab]
  BY <1>1, <1>2, TableIsQuiet
<1>3. ASSUME NEW i \in Slots, ~ tab[i].live, NEW e,
             table' = [table EXCEPT ![n] = [tab EXCEPT ![i] = e]]
      PROVE  Quiet(s, d) /\ Steady(d)
  <2> DEFINE new == [tab EXCEPT ![i] = e]
  <2>1. \A j \in Slots : j # i => new[j] = tab[j]
    OBVIOUS
  <2>2. table' = [table EXCEPT ![n] = new]
    BY <1>3
  <2> HIDE DEF new
  <2>3. CASE Replies(s, d) = {}
    BY <1>1, <2>2, <2>3, TableIsQuiet
  <2>4. CASE \A j \in Slots : Is(table[n][j], s, d) => tab[j] = table[n][j]
    <3>1. \A j \in Slots : Is(table[n][j], s, d) => new[j] = table[n][j]
      BY <1>3, <2>1, <2>4 DEF Is
    <3> QED BY <1>1, <2>2, <3>1, TableIsQuiet
  <2> QED BY <2>3, <2>4
<1> QED BY <1>2, <1>3 DEF Request

(* A request at the destination leaves a route back, but not to d, and the *)
(* first reply; on the way it changes a sender, never a reverse quality.   *)
LEMMA TakenIsQuiet ==
  ASSUME TInv, NEW s \in Nodes, NEW d \in Nodes, s # d, NEW c \in air,
         <<c.src, c.dst>> = <<s, d>> \/ d \notin {c.src, c.dst},
         NEW i \in Slots, NEW e \in Entry, NEW lq \in 0 .. Best, Taken(c, i, e, lq)
  PROVE  Quiet(s, d) /\ Steady(d)
<1>1. /\ c \in Command /\ c.to \in Nodes /\ c.from \in Nodes /\ c.src \in Nodes
      /\ c.dst \in Nodes /\ c.src # d
      /\ table \in [Nodes -> [Slots -> Entry]] /\ route \in RouteType
  BY DEF TInv, TypeOK, Command, RouteType
<1>2. Steady(d) /\ Shrinks(d)
  <2>1. CASE route' = route
    BY <2>1 DEF Steady, Shrinks
  <2>2. CASE route' = [route EXCEPT ![c.to][c.src] = c.from]
    <3>1. \A m \in Nodes : route'[m][d] = route[m][d]
      BY <1>1, <2>2 DEF RouteType
    <3> QED BY <3>1 DEF Steady, Shrinks
  <2> QED BY <2>1, <2>2 DEF Taken
<1>3. Keeps(s, d)
  <2>1. table' = [table EXCEPT ![c.to] = [table[c.to] EXCEPT ![i] = e]]
    BY DEF Taken
  <2>2. /\ table'[c.to][i] = e /\ \A j \in Slots : j # i => table'[c.to][j] = table[c.to][j]
        /\ \A m \in Nodes : m # c.to => table'[m] = table[m]
    BY <1>1, <2>1
  <2>3. Is(table[c.to][i], s, d) => Is(e, s, d) /\ e.rev = table[c.to][i].rev
    BY DEF Taken, Is
  <2> QED BY <2>2, <2>3 DEF Keeps
<1>4. OldReplies(s, d)
  <2>1. \A x \in Requests(c.to, c.src, c.dst, lq) : x.id = "request"
    BY <1>1, RequestsType
  <2>2. \A x \in Reply(c.to, c.from, c.src, c.dst, lq) : x.from = c.to /\ x.dst = c.dst
    BY <1>1, ReplyType
  <2>3. CASE c.dst = c.to /\ air' = (air \ {c}) \cup Reply(c.to, c.from, c.src, c.dst, lq)
    BY <2>2, <2>3 DEF OldReplies, Replies
  <2>4. CASE air' = (air \ {c}) \cup Requests(c.to, c.src, c.dst, lq)
    BY <2>1, <2>4 DEF OldReplies, Replies
  <2> QED BY <2>3, <2>4 DEF Taken
<1> QED BY <1>2, <1>3, <1>4 DEF Quiet

(* A reply of another discovery writes other routes and another slot.      *)
LEMMA OtherReplyIsQuiet ==
  ASSUME TInv, NEW s \in Nodes, NEW d \in Nodes, NEW c \in air, c.src # c.dst,
         d \notin {c.src, c.dst}, NEW i \in Slots, Followed(c, i)
  PROVE  Quiet(s, d) /\ Steady(d)
<1> DEFINE e == Answered(table[c.to][i], c.lq)
           y == table[c.to][i].sender
<1>1. /\ c \in Command /\ c.to \in Nodes /\ c.from \in Nodes /\ c.src \in Nodes
      /\ c.dst \in Nodes /\ c.lq \in 0 .. Best /\ table \in [Nodes -> [Slots -> Entry]] /\ route \in RouteType
  BY DEF TInv, TypeOK, Command, RouteType
<1>2. Steady(d) /\ Shrinks(d)
  <2>1. CASE route' = [route EXCEPT ![c.to][c.dst] = c.from]
    <3>1. \A m \in Nodes : route'[m][d] = route[m][d]
      BY <1>1, <2>1 DEF RouteType
    <3> QED BY <3>1 DEF Steady, Shrinks
  <2>2. CASE y \in Nodes /\ route' = [route EXCEPT ![c.to] = Relayed(@, c, y)]
    <3> HIDE DEF y
    <3>1. \A m \in Nodes : route'[m][d] = route[m][d]
      BY SMTT(30), <1>1, <2>2, RelayedRoute
    <3> QED BY <3>1 DEF Steady, Shrinks
  <2> QED BY <2>1, <2>2 DEF Followed
<1>3. Keeps(s, d)
  <2>1. table' = [table EXCEPT ![c.to] = [table[c.to] EXCEPT ![i] = e]]
    BY DEF Followed
  <2> HIDE DEF e
  <2>2. /\ \A j \in Slots : j # i => table'[c.to][j] = table[c.to][j]
        /\ \A m \in Nodes : m # c.to => table'[m] = table[m]
    BY <1>1, <2>1
  <2>3. ~ Is(table[c.to][i], s, d)
    BY DEF Followed, Is
  <2> QED BY <2>2, <2>3 DEF Keeps
<1>4. OldReplies(s, d)
  <2>1. CASE air' = air \ {c}
    BY <2>1 DEF OldReplies, Replies
  <2>2. CASE y \in Nodes /\ air' = (air \ {c}) \cup Reply(c.to, y, c.src, c.dst, c.lq)
    <3> HIDE DEF y, e
    <3>1. \A x \in Reply(c.to, y, c.src, c.dst, c.lq) : x.dst = c.dst
      BY SMTT(30), <1>1, <2>2, ReplyType
    <3> QED BY <2>2, <3>1 DEF OldReplies, Replies
  <2> QED BY <2>1, <2>2 DEF Followed
<1> QED BY <1>2, <1>3, <1>4 DEF Quiet

(* The step that is not: a reply of the discovery itself is followed.      *)
Answers(s, d) ==
  \E c \in air, i \in Slots : c.id = "reply" /\ c.src = s /\ c.dst = d /\ Followed(c, i)

LEMMA ReceiveIsQuiet ==
  ASSUME TInv, NEW s \in Nodes, NEW d \in Nodes, s # d,
         \A q \in Wanted : q # <<s, d>> => d \notin {q[1], q[2]},
         NEW c \in air, Receive(c)
  PROVE  (Quiet(s, d) /\ Steady(d)) \/ Answers(s, d)
<1>1. /\ <<c.src, c.dst>> \in Wanted /\ c.src # c.dst
      /\ <<c.src, c.dst>> = <<s, d>> \/ d \notin {c.src, c.dst}
  <2>1. <<c.src, c.dst>> \in Wanted
    BY DEF TInv, AllWanted
  <2> QED BY <2>1, WantedType
<1>2. ASSUME table' = table, route' = route, air' = air \ {c} PROVE Quiet(s, d) /\ Steady(d)
  BY <1>2 DEF Quiet, Steady, Shrinks, Keeps, OldReplies, Replies
<1>3. CASE RequestReceived(c.to, c)
  BY <1>1, <1>2, <1>3, RequestTaken, TakenIsQuiet
<1>4. CASE ReplyReceived(c.to, c)
  <2>1. ASSUME NEW i \in Slots, Followed(c, i), c.id = "reply"
        PROVE  (Quiet(s, d) /\ Steady(d)) \/ Answers(s, d)
    <3>1. CASE c.src = s /\ c.dst = d
      BY <2>1, <3>1 DEF Answers
    <3>2. CASE d \notin {c.src, c.dst}
      BY <1>1, <2>1, <3>2, OtherReplyIsQuiet
    <3> QED BY <1>1, <3>1, <3>2
  <2> QED BY <1>2, <1>4, <2>1, ReplyFollowed
<1> QED BY <1>3, <1>4 DEF Receive

(* An entry is given up when no reply of its discovery is under way.       *)
LEMMA ExpiresIsQuiet ==
  ASSUME TInv, NEW s \in Nodes, NEW d \in Nodes, NEW n \in Nodes, Expires(n)
  PROVE  Quiet(s, d) /\ Steady(d)
<1> DEFINE e == table[n][At(n)]
           tab == [table[n] EXCEPT ![At(n)] = Expired(@)]
<1>1. /\ At(n) \in Slots /\ table[n] \in [Slots -> Entry] /\ Sound(n, table[n])
      /\ waiting[n] \subseteq Nodes
  BY SweepType DEF TInv, TypeOK
<1>2. Done(n, e, tab) /\ (e.live => Settled(e.src, e.dst)) /\ route' = route
  BY DEF Expires
<1>3. tab \in [Slots -> Entry] /\ \A j \in Slots : j # At(n) => tab[j] = table[n][j]
  <2>1. Expired(table[n][At(n)]) \in Entry
    BY <1>1, ExpiredType
  <2> QED BY <1>1, <2>1
<1>4. Is(e, s, d) => Replies(s, d) = {}
  BY <1>2 DEF Is, Settled, Replies
<1>5. \/ Replies(s, d) = {}
      \/ \A j \in Slots : Is(table[n][j], s, d) => tab[j] = table[n][j]
  BY <1>3, <1>4
<1> HIDE DEF tab, e
<1>6. CASE table' = [table EXCEPT ![n] = tab] /\ air' = air
  <2>1. Replies(s, d)' \subseteq Replies(s, d)
    BY <1>6 DEF Replies
  <2> QED BY <1>2, <1>5, <1>6, <2>1, TableIsQuiet
<1>7. CASE e.dst \in waiting[n] /\ Request(n, e.dst, tab, waiting[n] \ {e.dst})
  BY <1>1, <1>2, <1>3, <1>5, <1>7, RequestIsQuiet
<1> QED BY <1>2, <1>6, <1>7 DEF Done

LEMMA SendIsQuiet ==
  ASSUME TInv, NEW s \in Nodes, NEW d \in Nodes, NEW p \in Wanted, Send(p[1], p[2])
  PROVE  Quiet(s, d) /\ Steady(d)
<1>1. /\ p[1] \in Nodes /\ p[2] \in Nodes /\ table[p[1]] \in [Slots -> Entry]
      /\ Request(p[1], p[2], table[p[1]], waiting[p[1]]) /\ route' = route
  BY WantedType DEF TInv, TypeOK, Send
<1> QED BY <1>1, RequestIsQuiet

LEMMA FailsIsQuiet ==
  ASSUME TInv, NEW s \in Nodes, NEW d \in Nodes, NEW n \in Nodes, NEW x \in Nodes,
         RouteFails(n, x)
  PROVE  Quiet(s, d)
<1>1. route \in RouteType /\ route' = [route EXCEPT ![n][x] = NONE]
  BY DEF RouteFails, TInv, TypeOK, RouteType
<1>2. \A m \in Nodes : route'[m][d] \in {route[m][d], NONE}
  BY <1>1 DEF RouteType
<1>3. table' = table /\ air' = air
  BY DEF RouteFails
<1> QED BY <1>2, <1>3 DEF Quiet, Shrinks, Keeps, OldReplies, Replies

LEMMA StepIsQuiet ==
  ASSUME TInv, NEW s \in Nodes, NEW d \in Nodes, s # d,
         \A q \in Wanted : q # <<s, d>> => d \notin {q[1], q[2]},
         [Next]_vars
  PROVE  \/ Quiet(s, d) /\ (Steady(d) \/ \E n, x \in Nodes : RouteFails(n, x))
         \/ Answers(s, d)
<1>1. ASSUME table' = table, air' \subseteq air, route' = route
      PROVE  Quiet(s, d) /\ Steady(d)
  BY <1>1 DEF Quiet, Steady, Shrinks, Keeps, OldReplies, Replies
<1>2. CASE UNCHANGED vars
  BY <1>1, <1>2 DEF vars
<1>3. ASSUME NEW p \in Wanted, Send(p[1], p[2]) PROVE Quiet(s, d) /\ Steady(d)
  BY <1>3, SendIsQuiet
<1>4. ASSUME NEW c \in air, Receive(c)
      PROVE  (Quiet(s, d) /\ Steady(d)) \/ Answers(s, d)
  BY <1>4, ReceiveIsQuiet
<1>5. ASSUME NEW c \in air, Lose(c) PROVE Quiet(s, d) /\ Steady(d)
  BY <1>1, <1>5 DEF Lose
<1>6. ASSUME NEW n \in Nodes, Stays(n) PROVE Quiet(s, d) /\ Steady(d)
  BY <1>1, <1>6 DEF Stays
<1>7. ASSUME NEW n \in Nodes, Expires(n) PROVE Quiet(s, d) /\ Steady(d)
  BY <1>7, ExpiresIsQuiet
<1>8. ASSUME NEW n \in Nodes, NEW x \in Nodes, RouteFails(n, x)
      PROVE  Quiet(s, d) /\ \E m, y \in Nodes : RouteFails(m, y)
  BY <1>8, FailsIsQuiet
<1> QED BY <1>2, <1>3, <1>4, <1>5, <1>6, <1>7, <1>8 DEF Next

LEMMA SafeStep ==
  ASSUME TInv, NEW s \in Nodes, NEW d \in Nodes, s # d, Safe(s, d),
         \A q \in Wanted : q # <<s, d>> => d \notin {q[1], q[2]},
         [Next]_vars
  PROVE  Safe(s, d)'
<1>1. CASE Quiet(s, d)
  BY <1>1, QuietIsSafe
<1>2. CASE Answers(s, d)
  BY <1>2, FollowedIsSafe DEF Answers
<1> QED BY <1>1, <1>2, StepIsQuiet

LEMMA InvInit == Init => IInv
<1> SUFFICES ASSUME Init PROVE IInv
  OBVIOUS
<1>1. \A p \in Wanted : Safe(p[1], p[2])
  <2> TAKE p \in Wanted
  <2>1. p[2] \in Nodes /\ NONE \notin Nodes
    BY WantedType, DiscoveryConstantsOK DEF DiscoveryConstantsOK
  <2>2. \A n \in Nodes : route[n][p[2]] = NONE
    BY <2>1 DEF Init
  <2>3. NoCircle(p[2])
    BY <2>1, <2>2 DEF NoCircle
  <2>4. Fresh(p[1], p[2], {p[2]})
    BY DEF Init, Fresh, Replies
  <2> QED BY <2>1, <2>3, <2>4 DEF Safe
<1> QED BY <1>1, TypeInit DEF IInv

LEMMA InvStep == IInv /\ [Next]_vars => IInv'
<1> SUFFICES ASSUME IInv, [Next]_vars PROVE IInv'
  OBVIOUS
<1>1. TInv /\ TInv'
  BY TypeStep DEF IInv
<1>2. ASSUME NEW p \in Wanted, SoughtAlone(p) PROVE Safe(p[1], p[2])'
  <2>1. p[1] \in Nodes /\ p[2] \in Nodes /\ p[1] # p[2] /\ p = <<p[1], p[2]>>
    BY WantedType
  <2>2. \A q \in Wanted : q # <<p[1], p[2]>> => p[2] \notin {q[1], q[2]}
    BY <1>2, <2>1 DEF SoughtAlone
  <2>3. Safe(p[1], p[2])
    BY <1>2 DEF IInv
  <2> QED BY <1>1, <2>1, <2>2, <2>3, SafeStep
<1> QED BY <1>1, <1>2 DEF IInv, SoughtAlone

(***************************************************************************)
(* A walk along routes without a circle ends.                              *)
(***************************************************************************)
LEMMA StepByStep ==
  ASSUME NEW S, 0 \in S, \A k \in Nat : k \in S => k + 1 \in S
  PROVE  \A k \in Nat : k \in S
<1> DEFINE T == Nat \ S
<1> SUFFICES ASSUME T # {} PROVE FALSE
  OBVIOUS
<1>1. T \subseteq Nat
  OBVIOUS
<1>2. PICK m \in T : \A k \in T : <<k, m>> \notin OpToRel(<, Nat)
  BY <1>1, WFMin, NatLessThanWellFounded, Zenon
<1>3. m \in Nat /\ m # 0 /\ m \notin S
  OBVIOUS
<1>4. m - 1 \in Nat /\ m - 1 < m
  BY <1>3
<1>5. m - 1 \notin T
  BY <1>1, <1>2, <1>3, <1>4, Zenon DEF OpToRel
<1>6. (m - 1) + 1 \in S
  BY <1>4, <1>5
<1> QED BY <1>3, <1>6

HopsFrom(f, n, d, k) ==
  /\ f \in [0 .. k -> Nodes] /\ f[0] = n
  /\ \A j \in 1 .. k : f[j] = Hop(f[j - 1], d)

LEMMA HopType ==
  ASSUME TypeOK, NEW d \in Nodes
  PROVE  \A n \in Nodes : Hop(n, d) \in Nodes
  BY DEF TypeOK, Hop

LEMMA HopsExist ==
  ASSUME TypeOK, NEW n \in Nodes, NEW d \in Nodes
  PROVE  \A k \in Nat : \E f : HopsFrom(f, n, d, k)
<1> DEFINE S == {k \in Nat : \E f : HopsFrom(f, n, d, k)}
<1>1. 0 \in S
  <2>1. HopsFrom([j \in 0 .. 0 |-> n], n, d, 0)
    BY DEF HopsFrom
  <2> QED BY <2>1
<1>2. ASSUME NEW k \in Nat, k \in S PROVE k + 1 \in S
  <2>1. PICK f : HopsFrom(f, n, d, k)
    BY <1>2
  <2> DEFINE g == [j \in 0 .. k + 1 |-> IF j = k + 1 THEN Hop(f[k], d) ELSE f[j]]
  <2>2. f \in [0 .. k -> Nodes] /\ f[0] = n /\ Hop(f[k], d) \in Nodes
    BY <2>1, HopType DEF HopsFrom
  <2>3. g \in [0 .. k + 1 -> Nodes] /\ g[0] = n
    BY <2>2
  <2>4. ASSUME NEW j \in 1 .. k + 1 PROVE g[j] = Hop(g[j - 1], d)
    <3>1. CASE j = k + 1
      BY <2>2, <3>1
    <3>2. CASE j \in 1 .. k
      <4>1. g[j] = f[j] /\ g[j - 1] = f[j - 1]
        BY <3>2
      <4> QED BY <2>1, <3>2, <4>1 DEF HopsFrom
    <3> QED BY <3>1, <3>2
  <2> HIDE DEF g
  <2>5. HopsFrom(g, n, d, k + 1)
    BY <2>3, <2>4 DEF HopsFrom
  <2> QED BY <2>5
<1> HIDE DEF S
<1>3. \A k \in Nat : k \in S
  BY <1>1, <1>2, StepByStep
<1> QED BY <1>3 DEF S

LEMMA WalkIs ==
  ASSUME TypeOK, NEW n \in Nodes, NEW d \in Nodes, NEW k \in Nat
  PROVE  \E f : HopsFrom(f, n, d, k) /\ Walk(n, d, k) = f[k]
<1> DEFINE D(g) == [j \in 0 .. k |-> IF j = 0 THEN n ELSE Hop(g[j - 1], d)]
           at == CHOOSE g : g = D(g)
<1>1. PICK f : HopsFrom(f, n, d, k)
  BY HopsExist
<1>2. f = D(f)
  BY <1>1 DEF HopsFrom
<1>3. at = D(at)
  BY <1>2
<1>4. Walk(n, d, k) = at[k]
  BY DEF Walk
<1> HIDE DEF at
<1> DEFINE S == {j \in Nat : j <= k => at[j] = f[j]}
<1>5. 0 \in S
  BY <1>1, <1>3 DEF HopsFrom
<1>6. ASSUME NEW j \in Nat, j \in S PROVE j + 1 \in S
  <2> SUFFICES ASSUME j + 1 <= k PROVE at[j + 1] = f[j + 1]
    OBVIOUS
  <2>1. j + 1 \in 1 .. k /\ j \in 0 .. k /\ (j + 1) - 1 = j /\ at[j] = f[j]
    BY <1>6
  <2>2. f[j + 1] = Hop(f[j], d)
    BY <1>1, <2>1 DEF HopsFrom
  <2>3. at[j + 1] = Hop(at[j], d)
    BY <1>3, <2>1
  <2> QED BY <2>1, <2>2, <2>3
<1> HIDE DEF S
<1>7. k \in S
  BY <1>5, <1>6, StepByStep
<1> QED BY <1>1, <1>4, <1>7 DEF S

(* The walk is at most as long as there are nodes: it would come to one    *)
(* node twice, and what lies between would be a circle.                    *)
LEMMA NoCircleEnds ==
  ASSUME TypeOK, NEW d \in Nodes, NoCircle(d)
  PROVE  Ends(d)
<1> DEFINE k == Cardinality(Nodes)
<1>0. k \in Nat /\ IsFiniteSet(Nodes) /\ NONE \notin Nodes
  BY DiscoveryConstantsOK, FS_CardinalityType DEF DiscoveryConstantsOK
<1> SUFFICES ASSUME NEW n \in Nodes
             PROVE  Hop(Walk(n, d, k), d) = Walk(n, d, k)
  BY DEF Ends
<1> HIDE DEF k
<1>1. PICK f : HopsFrom(f, n, d, k) /\ Walk(n, d, k) = f[k]
  BY <1>0, WalkIs
<1>2. f \in [0 .. k -> Nodes] /\ \A j \in 1 .. k : f[j] = Hop(f[j - 1], d)
  BY <1>1 DEF HopsFrom
<1>3. PICK j \in 0 .. k - 1 : Hop(f[j], d) = f[j]
  <2> SUFFICES ASSUME \A j \in 0 .. k - 1 : Hop(f[j], d) # f[j] PROVE FALSE
    OBVIOUS
  <2>1. IsFiniteSet(0 .. k) /\ Cardinality(Nodes) < Cardinality(0 .. k)
    <3>1. IsFiniteSet(0 .. k) /\ Cardinality(0 .. k) = IF 0 > k THEN 0 ELSE k - 0 + 1
      BY <1>0, FS_Interval
    <3> QED BY <1>0, <3>1 DEF k
  <2>2. PICK x, y \in 0 .. k : x < y /\ f[x] = f[y]
    <3>1. PICK x, y \in 0 .. k : x # y /\ f[x] = f[y]
      BY <1>0, <1>2, <2>1, FS_PigeonHole
    <3> QED BY <1>0, <3>1
  <2> DEFINE T == {f[j] : j \in x .. y - 1}
  <2>3. T # {} /\ \A j \in x .. y - 1 : f[j] # d /\ route[f[j]][d] = f[j + 1]
    <3>1. x \in x .. y - 1 /\ x .. y - 1 \subseteq 0 .. k - 1
      BY <1>0, <2>2
    <3>2. ASSUME NEW j \in 0 .. k - 1 PROVE f[j] # d /\ route[f[j]][d] = f[j + 1]
      <4>1. j + 1 \in 1 .. k /\ (j + 1) - 1 = j
        BY <1>0
      <4>2. f[j + 1] = Hop(f[j], d) /\ Hop(f[j], d) # f[j]
        BY <1>2, <4>1
      <4> QED BY <4>2 DEF Hop
    <3> QED BY <3>1, <3>2
  <2>4. T \in SUBSET (Nodes \ {d})
    BY <1>0, <1>2, <2>2, <2>3
  <2>5. ASSUME NEW j \in x .. y - 1 PROVE route[f[j]][d] \in T
    <3>1. route[f[j]][d] = f[j + 1]
      BY <2>3
    <3>2. CASE j + 1 = y
      <4>1. f[j + 1] = f[x] /\ x \in x .. y - 1
        BY <2>2, <3>2
      <4> QED BY <3>1, <4>1
    <3>3. CASE j + 1 \in x .. y - 1
      BY <3>1, <3>3
    <3> QED BY <1>0, <2>2, <3>2, <3>3
  <2>6. \A m \in T : route[m][d] \in T
    BY <2>5
  <2> HIDE DEF T
  <2> QED BY <2>3, <2>4, <2>6 DEF NoCircle
<1> DEFINE S == {i \in Nat : j + i <= k => f[j + i] = f[j]}
<1>4. 0 \in S
  BY <1>0
<1>5. ASSUME NEW i \in Nat, i \in S PROVE i + 1 \in S
  <2> SUFFICES ASSUME j + (i + 1) <= k PROVE f[j + (i + 1)] = f[j]
    OBVIOUS
  <2>1. j + (i + 1) \in 1 .. k /\ (j + (i + 1)) - 1 = j + i /\ j + i <= k
    BY <1>0
  <2>2. f[j + (i + 1)] = Hop(f[j + i], d) /\ f[j + i] = f[j]
    BY <1>2, <1>5, <2>1
  <2> QED BY <1>3, <2>2
<1> HIDE DEF S
<1>6. k - j \in S
  <2>1. k - j \in Nat
    BY <1>0
  <2> QED BY <1>4, <1>5, <2>1, StepByStep
<1>7. f[k] = f[j]
  <2>1. j + (k - j) = k /\ k <= k
    BY <1>0
  <2> QED BY <1>6, <2>1 DEF S
<1> QED BY <1>1, <1>3, <1>7

(* Followed hop by hop from any node, the routes to a destination that is  *)
(* sought by one node alone never run in a circle.                         *)
THEOREM RoutesNeverCircle == Spec => []RoutesEnd
<1>1. IInv => RoutesEnd
  BY WantedType, NoCircleEnds DEF IInv, TInv, Safe, RoutesEnd
<1> QED BY <1>1, InvInit, InvStep, PTL DEF Spec

(***************************************************************************)
(* A reply goes on only from a node that has just set its next hop, so     *)
(* that no node learns a route to one without.                             *)
(***************************************************************************)
Linked(s, d) ==
  /\ \A m \in Nodes : route[m][d] \in Nodes \ {d} => route[route[m][d]][d] # NONE
  /\ \A c \in Replies(s, d) : c.from # d => route[c.from][d] # NONE

LEMMA LinkedStep ==
  ASSUME TInv, NEW s \in Nodes, NEW d \in Nodes, s # d, Linked(s, d),
         \A q \in Wanted : q # <<s, d>> => d \notin {q[1], q[2]},
         [Next]_vars, [\A n, x \in Nodes : ~ RouteFails(n, x)]_vars
  PROVE  Linked(s, d)'
<1>0. NONE \notin Nodes /\ \A c \in air : c.from \in Nodes /\ c.to \in Nodes
  BY DiscoveryConstantsOK DEF DiscoveryConstantsOK, TInv, TypeOK, Command
<1>1. CASE UNCHANGED vars
  BY <1>1 DEF vars, Linked, Replies
<1>2. CASE Quiet(s, d) /\ Steady(d)
  <2>1. \A m \in Nodes : route'[m][d] = route[m][d]
    BY <1>2 DEF Steady
  <2>2. \A c \in Replies(s, d)' : c.from # d => c \in Replies(s, d) /\ c.from \in Nodes
    BY <1>0, <1>2 DEF Quiet, OldReplies, Replies
  <2> QED BY <2>1, <2>2 DEF Linked
<1>3. ASSUME NEW c \in air, NEW i \in Slots, c.id = "reply", c.src = s, c.dst = d,
             Followed(c, i)
      PROVE  Linked(s, d)'
  <2>1. /\ route'[c.to][d] = c.from
        /\ \A m \in Nodes : m # c.to => route'[m][d] = route[m][d]
        /\ \A x \in Replies(s, d)' :
             x \in Replies(s, d) \/ (x.from = c.to /\ x.lq = c.lq)
    BY <1>3, FollowedChanges
  <2>2. c.from # d => route[c.from][d] # NONE
    BY <1>3 DEF Linked, Replies
  <2>3. \A m \in Nodes : route[m][d] # NONE => route'[m][d] # NONE
    BY <1>0, <2>1
  <2>4. ASSUME NEW m \in Nodes, route'[m][d] \in Nodes \ {d}
        PROVE  route'[route'[m][d]][d] # NONE
    <3>1. CASE m = c.to
      BY <1>0, <2>1, <2>2, <2>3, <2>4, <3>1
    <3>2. CASE m # c.to
      BY <2>1, <2>3, <2>4, <3>2 DEF Linked
    <3> QED BY <3>1, <3>2
  <2>5. \A x \in Replies(s, d)' : x.from # d => route'[x.from][d] # NONE
    <3> TAKE x \in Replies(s, d)'
    <3>1. CASE x \in Replies(s, d)
      BY <1>0, <2>3, <3>1 DEF Linked, Replies
    <3>2. CASE x.from = c.to
      BY <1>0, <2>1, <3>2
    <3> QED BY <2>1, <3>1, <3>2
  <2> QED BY <2>4, <2>5 DEF Linked
<1> QED BY <1>1, <1>2, <1>3, StepIsQuiet DEF Answers

(* A walk that starts with a route never comes to a node without.          *)
LEMMA LinkedLeads ==
  ASSUME TypeOK, NEW s \in Nodes, NEW d \in Nodes, NoCircle(d), Linked(s, d)
  PROVE  Leads(d)
<1> DEFINE k == Cardinality(Nodes)
<1>0. k \in Nat /\ NONE \notin Nodes
  BY DiscoveryConstantsOK, FS_CardinalityType DEF DiscoveryConstantsOK
<1> SUFFICES ASSUME NEW n \in Nodes, route[n][d] # NONE PROVE Walk(n, d, k) = d
  BY DEF Leads
<1>1. Hop(Walk(n, d, k), d) = Walk(n, d, k)
  BY NoCircleEnds DEF Ends
<1> HIDE DEF k
<1>2. PICK f : HopsFrom(f, n, d, k) /\ Walk(n, d, k) = f[k]
  BY <1>0, WalkIs
<1> DEFINE S == {j \in Nat : j <= k => f[j] = d \/ route[f[j]][d] # NONE}
<1>3. 0 \in S
  BY <1>2 DEF HopsFrom
<1>4. ASSUME NEW j \in Nat, j \in S PROVE j + 1 \in S
  <2> SUFFICES ASSUME j + 1 <= k PROVE f[j + 1] = d \/ route[f[j + 1]][d] # NONE
    OBVIOUS
  <2>1. j + 1 \in 1 .. k /\ (j + 1) - 1 = j /\ j \in 0 .. k /\ j <= k
    BY <1>0
  <2>2. f[j + 1] = Hop(f[j], d) /\ f[j] \in Nodes /\ (f[j] = d \/ route[f[j]][d] # NONE)
    BY <1>2, <1>4, <2>1 DEF HopsFrom
  <2>3. CASE f[j] = d
    BY <2>2, <2>3 DEF Hop
  <2>4. CASE f[j] # d
    <3>1. f[j + 1] = route[f[j]][d] /\ route[f[j]][d] \in Nodes
      BY <2>2, <2>4 DEF Hop, TypeOK
    <3> QED BY <2>2, <3>1 DEF Linked
  <2> QED BY <2>3, <2>4
<1> HIDE DEF S
<1>5. k \in S
  BY <1>0, <1>3, <1>4, StepByStep
<1>6. f[k] = d \/ (route[f[k]][d] # NONE /\ f[k] \in Nodes)
  <2>1. k \in 0 .. k /\ k <= k
    BY <1>0
  <2> QED BY <1>2, <1>5, <2>1 DEF S, HopsFrom
<1>7. CASE f[k] # d
  <2>1. route[f[k]][d] = f[k]
    BY <1>1, <1>2, <1>6, <1>7 DEF Hop
  <2>2. {f[k]} \in SUBSET (Nodes \ {d}) /\ {f[k]} # {}
    BY <1>6, <1>7
  <2> QED BY <2>1, <2>2 DEF NoCircle
<1> QED BY <1>2, <1>7

AllLinked == \A p \in Wanted : SoughtAlone(p) => Linked(p[1], p[2])

(* As long as no route is taken away, whatever commands are lost, a route  *)
(* to such a destination leads there from every node that has one.         *)
THEOREM RoutesLeadThere ==
  Spec /\ [][\A n, x \in Nodes : ~ RouteFails(n, x)]_vars => []RoutesLead
<1>1. Init => AllLinked
  <2> SUFFICES ASSUME Init, NEW p \in Wanted PROVE Linked(p[1], p[2])
    BY DEF AllLinked
  <2>1. p[2] \in Nodes /\ NONE \notin Nodes
    BY WantedType, DiscoveryConstantsOK DEF DiscoveryConstantsOK
  <2> QED BY <2>1 DEF Init, Linked, Replies
<1>2. IInv /\ AllLinked /\ [Next]_vars /\ [\A n, x \in Nodes : ~ RouteFails(n, x)]_vars
        => AllLinked'
  <2> SUFFICES ASSUME IInv, AllLinked, [Next]_vars,
                      [\A n, x \in Nodes : ~ RouteFails(n, x)]_vars,
                      NEW p \in Wanted, SoughtAlone(p)
               PROVE  Linked(p[1], p[2])'
    BY DEF AllLinked, SoughtAlone
  <2>1. p[1] \in Nodes /\ p[2] \in Nodes /\ p[1] # p[2] /\ p = <<p[1], p[2]>>
    BY WantedType
  <2>2. \A q \in Wanted : q # <<p[1], p[2]>> => p[2] \notin {q[1], q[2]}
    BY <2>1 DEF SoughtAlone
  <2>3. TInv /\ Linked(p[1], p[2])
    BY DEF IInv, AllLinked
  <2> QED BY <2>1, <2>2, <2>3, LinkedStep
<1>3. IInv /\ AllLinked => RoutesLead
  <2> SUFFICES ASSUME IInv, AllLinked, NEW p \in Wanted, SoughtAlone(p) PROVE Leads(p[2])
    BY DEF RoutesLead
  <2>1. TypeOK /\ p[1] \in Nodes /\ p[2] \in Nodes
    BY WantedType DEF IInv, TInv
  <2>2. NoCircle(p[2]) /\ Linked(p[1], p[2])
    BY DEF IInv, Safe, AllLinked
  <2> QED BY <2>1, <2>2, LinkedLeads
<1> QED BY <1>1, <1>2, <1>3, InvInit, InvStep, PTL DEF Spec
=============================================================================
