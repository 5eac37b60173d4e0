--------------------------- MODULE DriversProofs ----------------------------
(***************************************************************************)
(* The two drivers under the network layer.  The radio driver with its     *)
(* transceiver, for every set of frames the others may send; then the list *)
(* of timers, whose differences are a set of countdowns for any number of  *)
(* timers, intervals and ticks.                                            *)
(***************************************************************************)
EXTENDS PhyDriver, SysTimer, FiniteSetTheorems, NaturalsInduction,
        WellFoundedInduction, SequenceTheorems, TLAPS

(***************************************************************************)
(* The radio.                                                              *)
(***************************************************************************)
Listening == {"TRX_OFF", "RX_AACK_ON", "BUSY_RX_AACK"}
Sending   == {"BUSY_TX_ARET", "TX_ARET_ON"}

TypeOK ==
  /\ phyState \in {"IDLE", "TX_WAIT_END", "SLEEP"} /\ phyRxState \in BOOLEAN
  /\ cpu \in {"loop", "copy", "wait"} /\ indicated \in BOOLEAN
  /\ trxStatus \in Listening \cup Sending \cup {"SLEEP"}
  /\ rxEnd \in BOOLEAN /\ txEnd \in BOOLEAN /\ protected \in BOOLEAN

(* What the driver believes of the transceiver is so, and the flag of a    *)
(* received frame is never up while the driver waits for another flag.     *)
InStep ==
  /\ phyState = "IDLE" => trxStatus \in Listening
  /\ phyState = "TX_WAIT_END" => trxStatus \in Sending /\ ~ rxEnd
  /\ phyState = "SLEEP" => trxStatus = "SLEEP"
  /\ cpu # "loop" => phyState = "IDLE"

IInv == TypeOK /\ InStep /\ FrameKept

LEMMA IInvInit == Init => IInv
BY DEF Init, IInv, TypeOK, InStep, FrameKept, Listening, Sending

(* The transceiver by itself.                                              *)
LEMMA TransceiverKeeps == ASSUME IInv, Transceiver PROVE IInv'
<1> USE DEF IInv, TypeOK, InStep, FrameKept, Listening, Sending, driver, flags, memory
<1>1. CASE \E f \in Frames : RxStart(f)  BY <1>1 DEF RxStart
<1>2. CASE RxFail  BY <1>2 DEF RxFail
<1>3. CASE \E acked \in BOOLEAN : RxComplete(acked)  BY <1>3 DEF RxComplete
<1>4. CASE AckSent  BY <1>4 DEF AckSent
<1>5. CASE TxComplete  BY <1>5 DEF TxComplete
<1> QED BY <1>1, <1>2, <1>3, <1>4, <1>5 DEF Transceiver, RxOver

(* The calls of the network layer and the application.                     *)
LEMMA CallsKeep == ASSUME IInv, Calls PROVE IInv'
<1> USE DEF IInv, TypeOK, InStep, FrameKept, Listening, Sending, flags, memory,
            InLoop, phySetRxState, phyTrxSetState, ClearFlags
<1>1. CASE \E rx \in BOOLEAN : PHY_SetRxState(rx)  BY <1>1 DEF PHY_SetRxState
<1>2. CASE PHY_RandomReq  BY <1>2 DEF PHY_RandomReq
<1>3. CASE PHY_Sleep  BY <1>3 DEF PHY_Sleep
<1>4. CASE PHY_Wakeup  BY <1>4 DEF PHY_Wakeup
<1>5. CASE PHY_DataReq  BY <1>5 DEF PHY_DataReq
<1> QED BY <1>1, <1>2, <1>3, <1>4, <1>5 DEF Calls

(* The driver's own steps.                                                 *)
LEMMA TaskHandlerKeeps == ASSUME IInv, TaskHandler PROVE IInv'
<1> USE DEF IInv, TypeOK, InStep, FrameKept, Listening, Sending, flags, memory,
            InLoop, phySetRxState, phyTrxSetState, ClearFlags
<1>1. CASE TaskRx  BY <1>1 DEF TaskRx
<1>2. CASE Indicate  BY <1>2 DEF Indicate
<1>3. CASE Release  BY <1>3 DEF Release
<1>4. CASE TaskTx  BY <1>4 DEF TaskTx
<1> QED BY <1>1, <1>2, <1>3, <1>4 DEF TaskHandler

LEMMA IInvNext == ASSUME IInv, [Next]_vars PROVE IInv'
<1>1. CASE UNCHANGED vars
  BY <1>1 DEF vars, driver, flags, memory, IInv, TypeOK, InStep, FrameKept
<1> QED BY <1>1, TransceiverKeeps, CallsKeep, TaskHandlerKeeps DEF Next

THEOREM PhyInvariant == Spec => []IInv
BY IInvInit, IInvNext, PTL DEF Spec

(* Whatever arrives after it, a frame that has not been given back yet is  *)
(* in the transceiver's buffer as it arrived: PHY_TaskHandler never hands  *)
(* up a frame that another one has overwritten.                            *)
THEOREM FramesAreKept == Spec => []FrameKept
<1>1. IInv => FrameKept  BY DEF IInv
<1> QED BY <1>1, PhyInvariant, PTL

-----------------------------------------------------------------------------
(* A step of the transceiver or the driver is one of the service, or none. *)
LEMMA ServiceStep == ASSUME IInv, [Next]_vars PROVE [Service!Next]_(Service!vars)
<1> USE DEF Service!Next, Service!vars, Service!DataReq, Service!DataConf, Service!DataInd
<1>1. CASE UNCHANGED vars
  BY <1>1 DEF vars, driver
<1>2. CASE Transceiver
  BY <1>2 DEF Transceiver, RxOver, RxStart, RxFail, RxComplete, AckSent, TxComplete, driver
<1>3. CASE Calls
  BY <1>3 DEF Calls, PHY_SetRxState, PHY_RandomReq, PHY_Sleep, PHY_Wakeup, PHY_DataReq
<1>4. CASE TaskRx \/ Release
  BY <1>4 DEF TaskRx, Release
<1>5. CASE Indicate
  BY <1>5 DEF Indicate, IInv, InStep, TypeOK
<1>6. CASE TaskTx
  BY <1>6 DEF TaskTx, IInv, InStep, TypeOK, Listening, Sending
<1> QED BY <1>1, <1>2, <1>3, <1>4, <1>5, <1>6 DEF Next, TaskHandler

(* The driver implements the safety part of the service that NwkCore takes *)
(* it for: each PHY_DataReq is confirmed at most once, no frame is         *)
(* indicated before its confirmation, and no second request comes before.  *)
THEOREM DriverServes == Spec => Service!Safety
<1>1. Init => Service!Init  BY DEF Init, Service!Init
<1>2. IInv /\ [Next]_vars => [Service!Next]_(Service!vars)  BY ServiceStep
<1> QED BY <1>1, <1>2, PhyInvariant, PTL DEF Spec, Service!Safety

(***************************************************************************)
(* The timers.  The time at which one is due is a sum along the list; the  *)
(* first lemmas are about such sums, the next about what inserting,        *)
(* removing and taking off do to them.                                     *)
(***************************************************************************)

(* Every set of naturals has a least element; thereby sets of naturals can *)
(* be used for induction.                                                  *)
LEMMA Least ==
  ASSUME NEW S, S \subseteq Nat, S # {}
  PROVE  \E m \in S : \A k \in S : m <= k
<1>1. PICK m \in S : \A k \in S : <<k, m>> \notin OpToRel(<, Nat)
  BY WFMin, NatLessThanWellFounded, Zenon
<1>2. \A k \in S : ~ (k < m)
  BY <1>1, Zenon DEF OpToRel
<1> QED BY <1>2

LEMMA Induction ==
  ASSUME NEW S, 0 \in S, \A n \in Nat : n \in S => n + 1 \in S
  PROVE  \A n \in Nat : n \in S
<1> SUFFICES ASSUME ~ (Nat \subseteq S) PROVE FALSE
  OBVIOUS
<1> DEFINE T == {n \in Nat : n \notin S}
<1>1. T \subseteq Nat /\ T # {}
  OBVIOUS
<1> HIDE DEF T
<1>2. PICK m \in T : \A k \in T : m <= k
  BY <1>1, Least
<1>3. m \in Nat /\ m # 0 /\ m \notin S
  BY <1>2 DEF T
<1>4. m - 1 \in Nat /\ m - 1 \notin T
  BY <1>1, <1>2, <1>3
<1>5. m - 1 \in S
  BY <1>4 DEF T
<1>6. (m - 1) + 1 \in S
  BY <1>4, <1>5
<1> QED BY <1>3, <1>6

(***************************************************************************)
(* Sums of the times left along a list.                                    *)
(***************************************************************************)
Sums(f, l, ts) ==
  /\ f \in [0 .. Len(l) -> Nat] /\ f[0] = 0
  /\ \A k \in 1 .. Len(l) : f[k] = f[k - 1] + ts[l[k]]

LEMMA SumExists ==
  ASSUME NEW l \in Seq(Timers), NEW ts \in [Timers -> Nat]
  PROVE  \E f : Sums(f, l, ts)
<1> DEFINE P(n) == \E f \in [0 .. n -> Nat] :
                     f[0] = 0 /\ \A k \in 1 .. n : f[k] = f[k - 1] + ts[l[k]]
           S == {n \in Nat : n <= Len(l) => P(n)}
<1>0. Len(l) \in Nat
  OBVIOUS
<1>1. 0 \in S
  <2>1. P(0)
    <3> DEFINE f == [k \in 0 .. 0 |-> 0]
    <3> WITNESS f \in [0 .. 0 -> Nat]
    <3> QED OBVIOUS
  <2> QED BY <2>1
<1>2. ASSUME NEW n \in Nat, n + 1 <= Len(l), P(n) PROVE P(n + 1)
  <2>1. PICK f \in [0 .. n -> Nat] :
          f[0] = 0 /\ \A k \in 1 .. n : f[k] = f[k - 1] + ts[l[k]]
    BY <1>2, Zenon
  <2>2. l[n + 1] \in Timers /\ ts[l[n + 1]] \in Nat
    BY SMTT(30), <1>0, <1>2
  <2> DEFINE g == [k \in 0 .. n + 1 |-> IF k = n + 1 THEN f[n] + ts[l[n + 1]] ELSE f[k]]
  <2>3. f[n] \in Nat
    BY <2>1
  <2>4. g \in [0 .. n + 1 -> Nat]
    BY <2>1, <2>2, <2>3
  <2>5. g[0] = 0 /\ \A k \in 1 .. n + 1 : g[k] = g[k - 1] + ts[l[k]]
    BY <2>1
  <2> HIDE DEF g
  <2> QED BY <2>4, <2>5
<1> HIDE DEF P
<1>3. \A n \in Nat : n \in S => n + 1 \in S
  BY <1>0, <1>2
<1> HIDE DEF S
<1>4. Len(l) \in S
  BY <1>0, <1>1, <1>3, Induction
<1>5. P(Len(l))
  BY <1>0, <1>4 DEF S
<1> QED BY <1>5 DEF P, Sums

LEMMA DueAtIs ==
  ASSUME NEW l \in Seq(Timers), NEW ts \in [Timers -> Nat], NEW f, Sums(f, l, ts)
  PROVE  \A k \in 0 .. Len(l) : DueAt(l, ts, k) = f[k]
<1> DEFINE D(g) == [k \in 0 .. Len(l) |-> IF k = 0 THEN 0 ELSE g[k - 1] + ts[l[k]]]
           due == CHOOSE g : g = D(g)
<1>0. Len(l) \in Nat
  OBVIOUS
<1>1. f = D(f)
  BY <1>0 DEF Sums
<1>2. due = D(due)
  BY <1>1
<1>3. \A k \in 0 .. Len(l) : DueAt(l, ts, k) = due[k]
  BY DEF DueAt
<1> HIDE DEF due
<1> DEFINE S == {n \in Nat : n <= Len(l) => due[n] = f[n]}
<1>4. 0 \in S
  BY <1>0, <1>2 DEF Sums
<1>5. ASSUME NEW n \in Nat, n \in S PROVE n + 1 \in S
  BY <1>0, <1>2, <1>5 DEF Sums
<1> HIDE DEF S
<1>6. \A n \in Nat : n \in S
  BY <1>4, <1>5, Induction
<1> QED BY <1>0, <1>3, <1>6 DEF S

(* A sum of times left only grows along the list.                          *)
LEMMA SumMonotone ==
  ASSUME NEW l \in Seq(Timers), NEW ts \in [Timers -> Nat], NEW f, Sums(f, l, ts)
  PROVE  \A j \in 0 .. Len(l) : \A i \in 0 .. j : f[i] <= f[j]
<1>0. Len(l) \in Nat /\ \A i \in 0 .. Len(l) : f[i] \in Nat
  <2>1. Len(l) \in Nat
    OBVIOUS
  <2> QED BY <2>1, Zenon DEF Sums
<1> DEFINE S == {n \in Nat : n <= Len(l) => \A i \in 0 .. n : f[i] <= f[n]}
<1>1. 0 \in S
  BY <1>0
<1>2. ASSUME NEW n \in Nat, n \in S PROVE n + 1 \in S
  <2> SUFFICES ASSUME n + 1 <= Len(l), NEW i \in 0 .. n + 1 PROVE f[i] <= f[n + 1]
    OBVIOUS
  <2>1. l[n + 1] \in Timers /\ ts[l[n + 1]] \in Nat /\ f[n + 1] = f[n] + ts[l[n + 1]]
    BY <1>0 DEF Sums
  <2>2. f[n] <= f[n + 1] /\ f[n] \in Nat /\ f[n + 1] \in Nat /\ f[i] \in Nat
    BY <1>0, <2>1
  <2>3. i \in 0 .. n => f[i] <= f[n]
    BY <1>0, <1>2
  <2> QED BY <2>2, <2>3
<1> HIDE DEF S
<1>3. \A n \in Nat : n \in S
  BY <1>1, <1>2, Induction
<1> QED BY <1>0, <1>3 DEF S

(* placeTimer finds the end of those that are due no later.                *)
LEMMA PlaceIs ==
  ASSUME NEW l \in Seq(Timers), NEW ts \in [Timers -> Nat], NEW f, Sums(f, l, ts),
         NEW t \in Timers, Interval[t] \in Nat
  PROVE  /\ Place(l, ts, t) \in 0 .. Len(l)
         /\ \A i \in 1 .. Len(l) : f[i] <= Interval[t] <=> i <= Place(l, ts, t)
<1> DEFINE A == {i \in DOMAIN l : DueAt(l, ts, i) <= Interval[t]}
<1>0. Len(l) \in Nat /\ DOMAIN l = 1 .. Len(l) /\ \A i \in 0 .. Len(l) : f[i] \in Nat
  BY SMTT(30) DEF Sums
<1>1. A = {i \in 1 .. Len(l) : f[i] <= Interval[t]}
  BY <1>0, DueAtIs
<1> HIDE DEF A
<1>2. \A j \in 1 .. Len(l) : \A i \in 1 .. j : f[i] <= f[j]
  BY <1>0, SumMonotone
<1>3. PICK p \in 0 .. Len(l) : A = 1 .. p
  <2> DEFINE B == {n \in Nat : n < Len(l) => n + 1 \notin A}
  <2>1. Len(l) \in B /\ B \subseteq Nat
    BY <1>0
  <2> HIDE DEF B
  <2>2. PICK p \in B : \A k \in B : p <= k
    BY <2>1, Least
  <2>3. p \in 0 .. Len(l)
    BY <1>0, <2>1, <2>2
  <2>4. ASSUME NEW i \in 1 .. p PROVE i \in A
    <3>1. i - 1 \in Nat /\ i - 1 \notin B
      BY <2>1, <2>2, <2>3, <1>0
    <3> QED BY <3>1 DEF B
  <2>5. ASSUME NEW i \in A PROVE i \in 1 .. p
    <3> SUFFICES ASSUME p < i PROVE FALSE
      BY <1>0, <1>1, <2>3
    <3>1. i \in 1 .. Len(l) /\ f[i] <= Interval[t] /\ p + 1 \in 1 .. i
      BY <1>0, <1>1, <2>3
    <3>2. f[p + 1] <= f[i] /\ f[p + 1] \in Nat /\ f[i] \in Nat
      BY <1>0, <1>2, <3>1
    <3>3. p + 1 \in A
      BY SMTT(30), <1>0, <1>1, <3>1, <3>2
    <3> QED BY <1>0, <2>2, <2>3, <3>1, <3>3 DEF B
  <2> QED BY <2>3, <2>4, <2>5
<1>4. Cardinality(1 .. p) = p
  <2>1. Cardinality(1 .. p) = IF 1 > p THEN 0 ELSE p - 1 + 1
    BY FS_Interval
  <2> QED BY <1>0, <2>1
<1>5. Place(l, ts, t) = p
  BY <1>3, <1>4 DEF Place, A
<1> QED BY <1>0, <1>1, <1>3, <1>5

(***************************************************************************)
(* The lists that the timers are linked into.                              *)
(***************************************************************************)
Distinct(l) == \A i, j \in DOMAIN l : l[i] = l[j] => i = j
Members(l) == {s \in Timers : \E i \in DOMAIN l : l[i] = s}
LeftOf(l, ts) == [t \in Members(l) |-> DueAt(l, ts, CHOOSE i \in DOMAIN l : l[i] = t)]

LEMMA LeftOfIs ==
  \A l \in Seq(Timers), ts \in [Timers -> Nat] : \A f :
    Sums(f, l, ts) /\ Distinct(l) =>
      /\ DOMAIN LeftOf(l, ts) = Members(l)
      /\ \A i \in 1 .. Len(l) : l[i] \in Members(l) /\ LeftOf(l, ts)[l[i]] = f[i]
<1> TAKE l \in Seq(Timers), ts \in [Timers -> Nat]
<1> TAKE f
<1> HAVE Sums(f, l, ts) /\ Distinct(l)
<1>0. Len(l) \in Nat /\ DOMAIN l = 1 .. Len(l) /\ \A i \in 1 .. Len(l) : l[i] \in Timers
  OBVIOUS
<1>1. ASSUME NEW i \in 1 .. Len(l)
      PROVE  l[i] \in Members(l) /\ LeftOf(l, ts)[l[i]] = f[i]
  <2>1. l[i] \in Members(l)
    BY <1>0 DEF Members
  <2>2. (CHOOSE j \in DOMAIN l : l[j] = l[i]) = i
    BY <1>0 DEF Distinct
  <2>3. DueAt(l, ts, i) = f[i]
    BY <1>0, DueAtIs
  <2> QED BY <2>1, <2>2, <2>3, Zenon DEF LeftOf
<1> QED BY <1>1, Zenon DEF LeftOf

(* A map of the timers of a list is its countdown if it gives each the sum *)
(* of the times up to it.                                                  *)
LEMMA LeftOfUnique ==
  \A l \in Seq(Timers), ts \in [Timers -> Nat] : \A f, g :
    (/\ Sums(f, l, ts) /\ Distinct(l) /\ g = [t \in Members(l) |-> g[t]]
     /\ \A i \in 1 .. Len(l) : g[l[i]] = f[i])
    => LeftOf(l, ts) = g
<1> TAKE l \in Seq(Timers), ts \in [Timers -> Nat]
<1> TAKE f, g
<1> HAVE /\ Sums(f, l, ts) /\ Distinct(l) /\ g = [t \in Members(l) |-> g[t]]
         /\ \A i \in 1 .. Len(l) : g[l[i]] = f[i]
<1>1. DOMAIN l = 1 .. Len(l)
  OBVIOUS
<1>2. ASSUME NEW t \in Members(l) PROVE LeftOf(l, ts)[t] = g[t]
  <2>1. PICK i \in 1 .. Len(l) : l[i] = t
    BY <1>1 DEF Members
  <2> QED BY <2>1, LeftOfIs
<1>3. LeftOf(l, ts) = [t \in Members(l) |-> LeftOf(l, ts)[t]]
  BY DEF LeftOf
<1> QED BY <1>2, <1>3, Zenon

(* What the linking and unlinking of the list does to it.                  *)
LinkedAfter(m, l, p, t) ==
  /\ m \in Seq(Timers) /\ Len(m) = Len(l) + 1
  /\ \A i \in 1 .. Len(l) + 1 :
       m[i] = IF i <= p THEN l[i] ELSE IF i = p + 1 THEN t ELSE l[i - 1]

LEMMA Inserted ==
  \A l \in Seq(Timers) : \A p \in 0 .. Len(l), t \in Timers :
    LinkedAfter(InsertAt(l, p + 1, t), l, p, t)
<1> TAKE l \in Seq(Timers)
<1> TAKE p \in 0 .. Len(l), t \in Timers
<1> DEFINE a == SubSeq(l, 1, p)
           b == SubSeq(l, p + 1, Len(l))
           m == InsertAt(l, p + 1, t)
<1>0. Len(l) \in Nat /\ p \in Nat /\ p <= Len(l) /\ (p + 1) - 1 = p
  OBVIOUS
<1>1. a \in Seq(Timers) /\ Len(a) = p /\ \A i \in 1 .. p : a[i] = l[i]
  BY <1>0, SubSeqProperties
<1>2. b \in Seq(Timers) /\ Len(b) = Len(l) - p
      /\ \A i \in 1 .. Len(l) - p : b[i] = l[p + i]
  BY <1>0, SubSeqProperties
<1>3. m = a \o <<t>> \o b
  BY <1>0 DEF InsertAt
<1> HIDE DEF a, b, m
<1>4. /\ m \in Seq(Timers) /\ Len(m) = p + 1 + (Len(l) - p)
      /\ \A i \in 1 .. Len(m) :
           m[i] = IF i <= p THEN a[i] ELSE IF i = p + 1 THEN t ELSE b[i - (p + 1)]
  BY SMTT(30), <1>0, <1>1, <1>2, <1>3
<1>5. Len(m) = Len(l) + 1
  BY <1>0, <1>4
<1>6. ASSUME NEW i \in 1 .. Len(l) + 1
      PROVE  m[i] = IF i <= p THEN l[i] ELSE IF i = p + 1 THEN t ELSE l[i - 1]
  <2>1. m[i] = IF i <= p THEN a[i] ELSE IF i = p + 1 THEN t ELSE b[i - (p + 1)]
    BY <1>4, <1>5
  <2>2. CASE i <= p
    BY <1>0, <1>1, <2>1, <2>2
  <2>3. CASE i = p + 1
    BY <1>0, <2>1, <2>3
  <2>4. CASE i > p + 1
    <3>1. i - (p + 1) \in 1 .. Len(l) - p /\ p + (i - (p + 1)) = i - 1
      BY <1>0, <2>4
    <3>2. b[i - (p + 1)] = l[i - 1]
      BY <1>2, <3>1
    <3> QED BY <1>0, <2>1, <2>4, <3>2
  <2> QED BY <1>0, <2>2, <2>3, <2>4
<1> QED BY <1>4, <1>5, <1>6 DEF LinkedAfter, m

LEMMA Removed ==
  ASSUME NEW l \in Seq(Timers), NEW p \in 1 .. Len(l)
  PROVE  /\ RemoveAt(l, p) \in Seq(Timers) /\ Len(RemoveAt(l, p)) = Len(l) - 1
         /\ \A i \in 1 .. Len(l) - 1 :
              RemoveAt(l, p)[i] = IF i < p THEN l[i] ELSE l[i + 1]
<1> DEFINE a == SubSeq(l, 1, p - 1)
           b == SubSeq(l, p + 1, Len(l))
           m == RemoveAt(l, p)
<1>0. Len(l) \in Nat /\ p \in Nat /\ p <= Len(l) /\ 1 <= p
  OBVIOUS
<1>1. a \in Seq(Timers) /\ Len(a) = p - 1 /\ \A i \in 1 .. p - 1 : a[i] = l[i]
  BY <1>0, SubSeqProperties
<1>2. b \in Seq(Timers) /\ Len(b) = Len(l) - p
      /\ \A i \in 1 .. Len(l) - p : b[i] = l[p + i]
  BY <1>0, SubSeqProperties
<1>3. m = a \o b
  BY DEF RemoveAt
<1> HIDE DEF a, b, m
<1>4. /\ m \in Seq(Timers) /\ Len(m) = Len(a) + Len(b)
      /\ \A i \in 1 .. Len(a) + Len(b) : m[i] = IF i <= Len(a) THEN a[i] ELSE b[i - Len(a)]
  BY <1>1, <1>2, <1>3, ConcatProperties, Zenon
<1>5. Len(m) = Len(l) - 1
  BY <1>0, <1>1, <1>2, <1>4
<1>6. ASSUME NEW i \in 1 .. Len(l) - 1
      PROVE  m[i] = IF i < p THEN l[i] ELSE l[i + 1]
  <2>1. m[i] = IF i <= Len(a) THEN a[i] ELSE b[i - Len(a)]
    BY <1>4, <1>5, Zenon
  <2>2. CASE i < p
    BY <1>0, <1>1, <2>1, <2>2
  <2>3. CASE i >= p
    <3>1. i - Len(a) \in 1 .. Len(l) - p /\ p + (i - Len(a)) = i + 1 /\ ~ (i <= Len(a))
      BY <1>0, <1>1, <2>3
    <3>2. b[i - Len(a)] = l[i + 1]
      BY <1>2, <3>1
    <3> QED BY <1>0, <2>1, <2>3, <3>1, <3>2
  <2> QED BY <1>0, <2>2, <2>3
<1> QED BY <1>4, <1>5, <1>6, Zenon DEF m

(***************************************************************************)
(* What the operations on the list do to the countdowns.                   *)
(***************************************************************************)
(* The countdowns of S, as they are and with time taken off.               *)
Kept(f, S) == [s \in S |-> f[s]]
Less(f, S, d) == [s \in S |-> f[s] - d]

(* What SYS_TimerStop, the handler's step to a timer that is due, and its  *)
(* end make of the differences.                                            *)
Stopped(l, ts, p) ==
  [s \in Timers |-> IF s = l[p] THEN 0
     ELSE ts[s] + (IF s \in (IF p < Len(l) THEN {l[p + 1]} ELSE {}) THEN ts[l[p]] ELSE 0)]
Cleared(l, ts) == [ts EXCEPT ![Head(l)] = 0]
Reduced(l, ts, e) ==
  [t \in Timers |-> IF l # <<>> /\ t = Head(l) THEN ts[t] - e ELSE ts[t]]

(* The first timer is due first.                                           *)
LEMMA LeftAlong ==
  ASSUME NEW l \in Seq(Timers), NEW ts \in [Timers -> Nat], Distinct(l)
  PROVE  /\ LeftOf(l, ts) \in [Members(l) -> Nat]
         /\ l # <<>> => /\ Head(l) \in Members(l)
                        /\ LeftOf(l, ts)[Head(l)] = ts[Head(l)]
                        /\ \A s \in Members(l) : ts[Head(l)] <= LeftOf(l, ts)[s]
<1>0. Len(l) \in Nat /\ DOMAIN l = 1 .. Len(l) /\ \A i \in 1 .. Len(l) : l[i] \in Timers
  OBVIOUS
<1>1. PICK f : Sums(f, l, ts)
  BY SumExists
<1>2. /\ DOMAIN LeftOf(l, ts) = Members(l)
      /\ \A i \in 1 .. Len(l) : l[i] \in Members(l) /\ LeftOf(l, ts)[l[i]] = f[i]
  BY <1>1, LeftOfIs
<1>3. \A i \in 1 .. Len(l) : f[i] \in Nat
  <2>1. f \in [0 .. Len(l) -> Nat]
    BY <1>1, Zenon DEF Sums
  <2> QED BY <1>0, <2>1
<1>4. LeftOf(l, ts) \in [Members(l) -> Nat]
  <2>1. LeftOf(l, ts) = [t \in Members(l) |-> LeftOf(l, ts)[t]]
    BY DEF LeftOf
  <2>2. \A t \in Members(l) : LeftOf(l, ts)[t] \in Nat
    BY SMTT(30), <1>0, <1>2, <1>3 DEF Members
  <2> QED BY <2>1, <2>2
<1>5. ASSUME l # <<>>
      PROVE  /\ Head(l) \in Members(l)
             /\ LeftOf(l, ts)[Head(l)] = ts[Head(l)]
             /\ \A s \in Members(l) : ts[Head(l)] <= LeftOf(l, ts)[s]
  <2>1. 1 \in 1 .. Len(l) /\ Head(l) = l[1]
    BY <1>0, <1>5
  <2>2. f[1] = ts[l[1]] /\ f[1] \in Nat
    <3>1. f[1] = f[1 - 1] + ts[l[1]] /\ f[0] = 0
      BY <1>1, <2>1 DEF Sums
    <3>2. ts[l[1]] \in Nat
      BY <1>0, <2>1
    <3> QED BY <3>1, <3>2
  <2>3. \A i \in 1 .. Len(l) : f[1] <= f[i]
    <3>1. \A j \in 0 .. Len(l) : \A i \in 0 .. j : f[i] <= f[j]
      BY <1>1, SumMonotone
    <3> QED BY <1>0, <3>1
  <2>4. ASSUME NEW s \in Members(l) PROVE ts[Head(l)] <= LeftOf(l, ts)[s]
    <3>1. PICK i \in 1 .. Len(l) : l[i] = s
      BY <1>0 DEF Members
    <3> QED BY <1>2, <2>1, <2>2, <2>3, <3>1
  <2> QED BY <1>2, <2>1, <2>2, <2>4
<1> QED BY <1>4, <1>5

(* A timer that placeTimer links is due after its interval, and the others *)
(* when they were.                                                         *)
LEMMA StartMaps ==
  \A l \in Seq(Timers), ts \in [Timers -> Nat] : \A t \in Timers \ Members(l) :
           Distinct(l) =>
             /\ Placed(l, ts, t).list \in Seq(Timers)
             /\ Placed(l, ts, t).left \in [Timers -> Nat]
             /\ Distinct(Placed(l, ts, t).list)
             /\ Members(Placed(l, ts, t).list) = Members(l) \cup {t}
             /\ LeftOf(Placed(l, ts, t).list, Placed(l, ts, t).left)
                  = Timing!Add(LeftOf(l, ts), t, Interval[t])
<1> TAKE l \in Seq(Timers), ts \in [Timers -> Nat]
<1> TAKE t \in Timers \ Members(l)
<1> HAVE Distinct(l)
<1>0. Len(l) \in Nat /\ DOMAIN l = 1 .. Len(l) /\ \A i \in 1 .. Len(l) : l[i] \in Timers
  OBVIOUS
<1>a. Interval[t] \in Nat
  BY TimerConstantsOK DEF TimerConstantsOK
<1>1. PICK f : Sums(f, l, ts)
  BY SumExists
<1>2. /\ f[0] = 0 /\ \A i \in 0 .. Len(l) : f[i] \in Nat
      /\ \A i \in 1 .. Len(l) : f[i] = f[i - 1] + ts[l[i]]
  BY <1>0, <1>1 DEF Sums
<1>3. PICK k \in 0 .. Len(l) :
        k = Place(l, ts, t) /\ \A i \in 1 .. Len(l) : f[i] <= Interval[t] <=> i <= k
  BY <1>1, <1>a, PlaceIs, Zenon
<1>4. DueAt(l, ts, k) = f[k]
  BY <1>1, DueAtIs
<1> DEFINE d == Interval[t] - f[k]
           m == InsertAt(l, k + 1, t)
           us == [s \in Timers |->
                    IF s = t THEN d
                    ELSE IF k < Len(l) /\ s = l[k + 1] THEN ts[s] - d ELSE ts[s]]
           g == [i \in 0 .. Len(m) |->
                   IF i <= k THEN f[i] ELSE IF i = k + 1 THEN Interval[t] ELSE f[i - 1]]
<1>5. Placed(l, ts, t).list = m /\ Placed(l, ts, t).left = us
  BY <1>3, <1>4 DEF Placed
<1>6. /\ m \in Seq(Timers) /\ Len(m) = Len(l) + 1
      /\ \A i \in 1 .. Len(l) + 1 :
           m[i] = IF i <= k THEN l[i] ELSE IF i = k + 1 THEN t ELSE l[i - 1]
  <2> HIDE DEF d, us, g
  <2>1. k \in 0 .. Len(l) /\ t \in Timers
    OBVIOUS
  <2>2. LinkedAfter(m, l, k, t)
    BY <2>1, Inserted, Zenon
  <2> HIDE DEF m
  <2> QED BY <2>2 DEF LinkedAfter
<1>7. d \in Nat /\ (k < Len(l) => ts[l[k + 1]] - d \in Nat)
  <2>1. k \in Nat /\ f[k] \in Nat /\ f[k] <= Interval[t]
    BY <1>0, <1>2, <1>3, <1>a
  <2>2. ASSUME k < Len(l) PROVE ts[l[k + 1]] - d \in Nat
    <3>1. k + 1 \in 1 .. Len(l) /\ (k + 1) - 1 = k /\ ~ (k + 1 <= k)
      BY <1>0, <2>1, <2>2
    <3>2. f[k + 1] = f[k] + ts[l[k + 1]] /\ ~ (f[k + 1] <= Interval[t])
      BY <1>2, <1>3, <3>1
    <3>3. ts[l[k + 1]] \in Nat
      BY <1>0, <3>1
    <3> QED BY <1>a, <2>1, <3>2, <3>3
  <2> QED BY <1>a, <2>1, <2>2
<1>8. us \in [Timers -> Nat]
  BY <1>7
<1>9. \A i \in 1 .. Len(l) : l[i] # t
  BY <1>0 DEF Members
<1>10. Distinct(m)
  <2>1. DOMAIN m = 1 .. Len(l) + 1
    BY <1>6
  <2>2. ASSUME NEW i \in 1 .. Len(l) + 1, NEW j \in 1 .. Len(l) + 1, m[i] = m[j]
        PROVE  i = j
    <3>1. k \in Nat /\ (i <= k => i \in 1 .. Len(l)) /\ (i > k + 1 => i - 1 \in 1 .. Len(l))
          /\ (j <= k => j \in 1 .. Len(l)) /\ (j > k + 1 => j - 1 \in 1 .. Len(l))
      BY <1>0
    <3>2. \A x, y \in 1 .. Len(l) : l[x] = l[y] => x = y
      BY <1>0 DEF Distinct
    <3> HIDE DEF m
    <3> HIDE DEF us, g, d
    <3> DEFINE from(x) == IF x <= k THEN x ELSE x - 1
    <3>3. \A x \in {i, j} : x # k + 1 => from(x) \in 1 .. Len(l)
      BY <3>1, i \in 1 .. Len(l) + 1, j \in 1 .. Len(l) + 1
    <3>4. \A x \in {i, j} : m[x] = IF x = k + 1 THEN t ELSE l[from(x)]
      <4> TAKE x \in {i, j}
      <4>1. m[x] = IF x <= k THEN l[x] ELSE IF x = k + 1 THEN t ELSE l[x - 1]
        BY <1>6, x \in 1 .. Len(l) + 1
      <4>2. x \in Nat /\ k \in Nat
        BY <3>1, x \in 1 .. Len(l) + 1
      <4>3. CASE x <= k
        BY <4>1, <4>2, <4>3
      <4>4. CASE x > k
        BY <4>1, <4>2, <4>4
      <4> QED BY ONLY <4>2, <4>3, <4>4
    <3>5. i # k + 1 /\ j # k + 1 /\ from(i) = from(j) => i = j
      BY <1>0, <3>1, i \in 1 .. Len(l) + 1, j \in 1 .. Len(l) + 1
    <3> HIDE DEF from
    <3> QED BY <1>9, <2>2, <3>2, <3>3, <3>4, <3>5
  <2> HIDE DEF m
  <2> QED BY <2>1, <2>2 DEF Distinct
<1>11. Members(m) = Members(l) \cup {t}
  <2>1. DOMAIN m = 1 .. Len(l) + 1
    BY <1>6
  <2> HIDE DEF m
  <2>2. ASSUME NEW s \in Members(m) PROVE s \in Members(l) \cup {t}
    <3>1. PICK i \in 1 .. Len(l) + 1 : m[i] = s
      BY <2>1 DEF Members
    <3>2. CASE i <= k
      <4>1. i \in 1 .. Len(l) /\ l[i] = s
        BY <1>0, <1>6, <3>1, <3>2
      <4> QED BY <1>0, <4>1 DEF Members
    <3>3. CASE i = k + 1
      BY <1>0, <1>6, <3>1, <3>3
    <3>4. CASE i > k + 1
      <4>1. i - 1 \in 1 .. Len(l) /\ l[i - 1] = s
        BY <1>0, <1>6, <3>1, <3>4
      <4> QED BY <1>0, <4>1 DEF Members
    <3> QED BY <1>0, <3>2, <3>3, <3>4
  <2>3. ASSUME NEW s \in Members(l) PROVE s \in Members(m)
    <3>1. PICK i \in 1 .. Len(l) : l[i] = s
      BY <1>0 DEF Members
    <3>2. CASE i <= k
      <4>1. i \in 1 .. Len(l) + 1 /\ m[i] = s
        BY <1>0, <1>6, <3>1, <3>2
      <4> QED BY <2>1, <4>1 DEF Members
    <3>3. CASE i > k
      <4>1. i + 1 \in 1 .. Len(l) + 1 /\ (i + 1) - 1 = i /\ ~ (i + 1 <= k) /\ i + 1 # k + 1
        BY <1>0, <3>3
      <4>2. m[i + 1] = s
        BY SMTT(30), <1>6, <3>1, <4>1
      <4> QED BY <2>1, <4>1, <4>2 DEF Members
    <3> QED BY <1>0, <3>2, <3>3
  <2>4. t \in Members(m)
    <3>1. k + 1 \in 1 .. Len(l) + 1 /\ m[k + 1] = t
      BY SMTT(30), <1>0, <1>6
    <3> QED BY <2>1, <3>1 DEF Members
  <2> QED BY <2>2, <2>3, <2>4
<1> HIDE DEF m
<1>12. Sums(g, m, us)
  <2>1. g \in [0 .. Len(m) -> Nat] /\ g[0] = 0
    <3>1. ASSUME NEW i \in 0 .. Len(m)
          PROVE  (IF i <= k THEN f[i] ELSE IF i = k + 1 THEN Interval[t] ELSE f[i - 1]) \in Nat
      <4>1. k \in Nat /\ (i <= k => i \in 0 .. Len(l))
            /\ (~ (i <= k) => i - 1 \in 0 .. Len(l))
        BY <1>0, <1>6
      <4> QED BY <1>2, <1>a, <4>1
    <3>2. 0 \in 0 .. Len(m) /\ 0 <= k
      BY <1>0, <1>6
    <3> QED BY <1>2, <3>1, <3>2
  <2>2. ASSUME NEW i \in 1 .. Len(m) PROVE g[i] = g[i - 1] + us[m[i]]
    <3>0. k \in Nat /\ k <= Len(l) /\ i \in Nat /\ 1 <= i /\ i <= Len(l) + 1 /\ i - 1 \in 0 .. Len(m)
      BY <1>0, <1>6
    <3>1. CASE i <= k
      <4>1. i \in 1 .. Len(l) /\ m[i] = l[i] /\ l[i] \in Timers /\ l[i] # t
        BY <1>0, <1>6, <1>9, <3>0, <3>1
      <4>2. k < Len(l) => l[i] # l[k + 1]
        <5> SUFFICES ASSUME k < Len(l), l[i] = l[k + 1] PROVE FALSE
          OBVIOUS
        <5>1. k + 1 \in 1 .. Len(l) /\ k + 1 # i
          BY <1>0, <3>0, <3>1
        <5> QED BY <1>0, <4>1, <5>1 DEF Distinct
      <4>3. us[m[i]] = ts[l[i]]
        BY <4>1, <4>2
      <4>4. g[i] = f[i] /\ g[i - 1] = f[i - 1]
        BY <3>0, <3>1
      <4> HIDE DEF g, us
      <4> QED BY <1>2, <4>1, <4>3, <4>4
    <3>2. CASE i = k + 1
      <4>1. m[i] = t /\ us[t] = d
        BY <1>6, <3>0, <3>2
      <4>2. g[i] = Interval[t] /\ g[i - 1] = f[k] /\ f[k] \in Nat
        BY <1>2, <1>6, <3>0, <3>2
      <4> HIDE DEF g, us
      <4> QED BY <1>a, <4>1, <4>2
    <3>3. CASE i = k + 2
      <4>1. k < Len(l) /\ k + 1 \in 1 .. Len(l) /\ (k + 1) - 1 = k /\ i - 1 = k + 1
        BY <1>0, <3>0, <3>3
      <4>2. m[i] = l[k + 1] /\ l[k + 1] \in Timers /\ l[k + 1] # t /\ ts[l[k + 1]] \in Nat
        BY <1>0, <1>6, <1>9, <3>0, <3>3, <4>1
      <4>3. us[m[i]] = ts[l[k + 1]] - d
        BY <4>1, <4>2
      <4>4. g[i] = f[k + 1] /\ g[i - 1] = Interval[t]
        <5>1. i - 1 \in 0 .. Len(m) /\ i \in 0 .. Len(m) /\ ~ (i - 1 <= k) /\ ~ (i <= k) /\ i # k + 1
          BY <1>6, <3>0, <3>3
        <5> QED BY <4>1, <5>1, Zenon
      <4>5. f[k + 1] = f[k] + ts[l[k + 1]] /\ f[k] \in Nat
        BY <1>2, <3>0, <4>1
      <4> HIDE DEF g, us
      <4> QED BY SMTT(30), <1>a, <4>2, <4>3, <4>4, <4>5
    <3>4. CASE i > k + 2
      <4>1. i - 1 \in 1 .. Len(l) /\ m[i] = l[i - 1] /\ l[i - 1] \in Timers /\ l[i - 1] # t
        BY <1>0, <1>6, <1>9, <3>0, <3>4
      <4>2. k < Len(l) /\ k + 1 \in 1 .. Len(l) /\ k + 1 # i - 1
        BY <1>0, <3>0, <3>4
      <4>3. l[i - 1] # l[k + 1]
        BY <1>0, <4>1, <4>2 DEF Distinct
      <4>4. us[m[i]] = ts[l[i - 1]]
        BY <4>1, <4>3
      <4>5. g[i] = f[i - 1] /\ g[i - 1] = f[(i - 1) - 1]
        BY SMTT(30), <1>6, <3>0, <3>4
      <4> HIDE DEF g, us
      <4> QED BY <1>2, <4>1, <4>4, <4>5
    <3> QED BY <3>0, <3>1, <3>2, <3>3, <3>4
  <2> HIDE DEF g, us
  <2> QED BY <2>1, <2>2 DEF Sums
<1>13. /\ DOMAIN LeftOf(l, ts) = Members(l)
       /\ \A i \in 1 .. Len(l) : l[i] \in Members(l) /\ LeftOf(l, ts)[l[i]] = f[i]
  BY <1>1, LeftOfIs
<1> DEFINE h == [s \in Members(m) |-> IF s = t THEN Interval[t] ELSE LeftOf(l, ts)[s]]
<1>14. LeftOf(m, us) = h
  <2>1. h = [s \in Members(m) |-> h[s]]
    OBVIOUS
  <2>2. ASSUME NEW i \in 1 .. Len(m) PROVE h[m[i]] = g[i]
    <3>0. k \in Nat /\ i \in Nat /\ i <= Len(l) + 1 /\ i \in DOMAIN m /\ m[i] \in Timers
      BY <1>0, <1>6
    <3>1. m[i] \in Members(m)
      BY <3>0 DEF Members
    <3>2. CASE i <= k
      <4>1. i \in 1 .. Len(l) /\ m[i] = l[i] /\ l[i] # t /\ g[i] = f[i]
        BY <1>0, <1>6, <1>9, <3>0, <3>2
      <4> HIDE DEF g
      <4> QED BY <1>13, <3>1, <4>1
    <3>3. CASE i = k + 1
      <4>1. m[i] = t /\ g[i] = Interval[t]
        BY <1>6, <3>0, <3>3
      <4> HIDE DEF g
      <4> QED BY <3>1, <4>1
    <3>4. CASE i > k + 1
      <4>1. i - 1 \in 1 .. Len(l) /\ m[i] = l[i - 1] /\ l[i - 1] # t /\ g[i] = f[i - 1]
        BY SMTT(30), <1>0, <1>6, <1>9, <3>0, <3>4
      <4> HIDE DEF g
      <4> QED BY <1>13, <3>1, <4>1
    <3> QED BY <3>0, <3>2, <3>3, <3>4
  <2> HIDE DEF g, us, h
  <2>3. m \in Seq(Timers) /\ us \in [Timers -> Nat] /\ Distinct(m) /\ Sums(g, m, us)
    BY <1>6, <1>8, <1>10, <1>12
  <2>4. \A i \in 1 .. Len(m) : h[m[i]] = g[i]
    BY <2>2
  <2> QED BY ONLY <2>1, <2>3, <2>4, LeftOfUnique
<1> HIDE DEF us, g, d
<1>15. h = Timing!Add(LeftOf(l, ts), t, Interval[t])
  BY <1>11, <1>13 DEF Timing!Add
<1> HIDE DEF h
<1> QED BY <1>5, <1>6, <1>8, <1>10, <1>11, <1>14, <1>15

(* A timer that is stopped leaves its time to the next one.                *)
LEMMA StopMaps ==
  \A l \in Seq(Timers), ts \in [Timers -> Nat] : \A p \in 1 .. Len(l) :
    Distinct(l) =>
      /\ RemoveAt(l, p) \in Seq(Timers) /\ Stopped(l, ts, p) \in [Timers -> Nat]
      /\ Distinct(RemoveAt(l, p)) /\ Members(RemoveAt(l, p)) = Members(l) \ {l[p]}
      /\ LeftOf(RemoveAt(l, p), Stopped(l, ts, p))
           = Kept(LeftOf(l, ts), Members(l) \ {l[p]})
<1> TAKE l \in Seq(Timers), ts \in [Timers -> Nat]
<1> TAKE p \in 1 .. Len(l)
<1> HAVE Distinct(l)
<1>a. PICK heirs : heirs = IF p < Len(l) THEN {l[p + 1]} ELSE {}
  OBVIOUS
<1>b. PICK us : us = Stopped(l, ts, p)
  OBVIOUS
<1>c. us = [s \in Timers |-> IF s = l[p] THEN 0
               ELSE ts[s] + (IF s \in heirs THEN ts[l[p]] ELSE 0)]
  BY <1>a, <1>b DEF Stopped
<1>0. Len(l) \in Nat /\ DOMAIN l = 1 .. Len(l) /\ \A i \in 1 .. Len(l) : l[i] \in Timers
  OBVIOUS
<1>1. PICK f : Sums(f, l, ts)
  BY SumExists
<1>2. /\ f[0] = 0 /\ \A i \in 0 .. Len(l) : f[i] \in Nat
      /\ \A i \in 1 .. Len(l) : f[i] = f[i - 1] + ts[l[i]]
  BY <1>0, <1>1 DEF Sums
<1>3. \A i, j \in 1 .. Len(l) : l[i] = l[j] => i = j
  BY <1>0 DEF Distinct
<1> DEFINE m == RemoveAt(l, p)
           g == [j \in 0 .. Len(m) |-> IF j < p THEN f[j] ELSE f[j + 1]]
<1>4. /\ m \in Seq(Timers) /\ Len(m) = Len(l) - 1 /\ DOMAIN m = 1 .. Len(l) - 1
      /\ \A i \in 1 .. Len(l) - 1 : m[i] = IF i < p THEN l[i] ELSE l[i + 1]
  <2>1. /\ m \in Seq(Timers) /\ Len(m) = Len(l) - 1
        /\ \A i \in 1 .. Len(l) - 1 : m[i] = IF i < p THEN l[i] ELSE l[i + 1]
    BY Removed, Zenon
  <2> HIDE DEF m
  <2>2. DOMAIN m = 1 .. Len(m)
    BY <2>1
  <2> QED BY <2>1, <2>2, Zenon
<1>5. us \in [Timers -> Nat]
  BY <1>0, <1>c
<1> HIDE DEF m
<1>6. \A j \in 1 .. Len(l) - 1 : j \in 1 .. Len(l) /\ j + 1 \in 1 .. Len(l)
  BY <1>0
<1>7. Distinct(m)
  <2>1. ASSUME NEW i \in 1 .. Len(l) - 1, NEW j \in 1 .. Len(l) - 1, m[i] = m[j] PROVE i = j
    <3>1. i \in 1 .. Len(l) /\ i + 1 \in 1 .. Len(l) /\ j \in 1 .. Len(l) /\ j + 1 \in 1 .. Len(l)
      BY <1>6
    <3>2. (IF i < p THEN l[i] ELSE l[i + 1]) = (IF j < p THEN l[j] ELSE l[j + 1])
      BY <1>4, <2>1, Zenon
    <3>3. (IF i < p THEN i ELSE i + 1) = (IF j < p THEN j ELSE j + 1)
      BY ONLY <1>3, <3>1, <3>2
    <3> QED BY ONLY <1>0, <3>1, <3>3, p \in 1 .. Len(l)
  <2> QED BY <1>4, <2>1, Zenon DEF Distinct
<1>8. Members(m) = Members(l) \ {l[p]}
  <2>1. ASSUME NEW s \in Members(m) PROVE s \in Members(l) \ {l[p]}
    <3>1. PICK i \in 1 .. Len(l) - 1 : m[i] = s
      BY <1>4, Zenon DEF Members
    <3>2. CASE i < p
      <4>1. i \in 1 .. Len(l) /\ l[i] = s /\ i # p
        BY <1>4, <1>6, <3>1, <3>2
      <4>2. s # l[p]
        BY <1>3, <4>1
      <4> QED BY <1>0, <4>1, <4>2 DEF Members
    <3>3. CASE ~ (i < p)
      <4>1. i + 1 \in 1 .. Len(l) /\ l[i + 1] = s /\ i + 1 # p
        BY <1>4, <1>6, <3>1, <3>3
      <4>2. s # l[p]
        BY <1>3, <4>1
      <4> QED BY <1>0, <4>1, <4>2 DEF Members
    <3> QED BY <3>2, <3>3
  <2>2. ASSUME NEW s \in Members(l), s # l[p] PROVE s \in Members(m)
    <3>1. PICK i \in 1 .. Len(l) : l[i] = s
      BY <1>0, Zenon DEF Members
    <3>2. CASE i < p
      <4>1. i \in 1 .. Len(l) - 1 /\ m[i] = s
        BY SMTT(30), <1>0, <1>4, <3>1, <3>2
      <4> QED BY <1>4, <4>1, Zenon DEF Members
    <3>3. CASE i > p
      <4>1. i - 1 \in 1 .. Len(l) - 1 /\ (i - 1) + 1 = i /\ ~ (i - 1 < p)
        BY <1>0, <3>3
      <4>2. m[i - 1] = s
        BY <1>4, <3>1, <4>1
      <4> QED BY <1>4, <4>1, <4>2, Zenon DEF Members
    <3> QED BY <2>2, <3>1, <3>2, <3>3
  <2> QED BY <2>1, <2>2
<1>9. Sums(g, m, us)
  <2>1. g \in [0 .. Len(m) -> Nat] /\ g[0] = 0
    <3>1. \A j \in 0 .. Len(m) : j \in 0 .. Len(l) /\ j + 1 \in 0 .. Len(l)
      BY <1>0, <1>4
    <3>2. 0 \in 0 .. Len(m) /\ 0 < p
      BY <1>0, <1>4
    <3>3. g[0] = 0
      BY <1>2, <3>2
    <3>4. \A j \in 0 .. Len(m) : (IF j < p THEN f[j] ELSE f[j + 1]) \in Nat
      BY <1>2, <3>1
    <3>5. g \in [0 .. Len(m) -> Nat]
      BY <3>4
    <3> HIDE DEF g
    <3> QED BY <3>3, <3>5
  <2>2. ASSUME NEW j \in 1 .. Len(m) PROVE g[j] = g[j - 1] + us[m[j]]
    <3>0. /\ j \in 1 .. Len(l) - 1 /\ j \in 1 .. Len(l) /\ j + 1 \in 1 .. Len(l)
          /\ j \in 0 .. Len(m) /\ j - 1 \in 0 .. Len(m) /\ (j + 1) - 1 = j
      <4>1. Len(l) \in Nat /\ Len(m) = Len(l) - 1 /\ j \in 1 .. Len(m)
        BY <1>0, <1>4
      <4> QED BY ONLY <4>1
    <3>1. CASE j < p
      <4>1. m[j] = l[j] /\ g[j] = f[j] /\ g[j - 1] = f[j - 1] /\ j # p /\ j # p + 1
        BY <1>4, <3>0, <3>1
      <4>2. l[j] # l[p] /\ l[j] \notin heirs
        <5>1. l[j] # l[p]
          BY <1>3, <3>0, <4>1
        <5>2. p < Len(l) => p + 1 \in 1 .. Len(l)
          BY <1>0
        <5> QED BY <1>a, <1>3, <3>0, <4>1, <5>1, <5>2
      <4>3. us[m[j]] = ts[l[j]] + 0 /\ ts[l[j]] \in Nat
        BY <1>0, <1>c, <3>0, <4>1, <4>2
      <4>4. f[j] = f[j - 1] + ts[l[j]] /\ f[j - 1] \in Nat
        BY <1>2, <3>0
      <4> HIDE DEF g
      <4> QED BY ONLY <4>1, <4>3, <4>4
    <3>2. CASE j = p
      <4>1. m[j] = l[p + 1] /\ g[j] = f[p + 1] /\ g[j - 1] = f[p - 1] /\ p < Len(l)
        BY <1>0, <1>4, <3>0, <3>2
      <4>2. l[p + 1] # l[p] /\ heirs = {l[p + 1]}
        BY <1>a, <1>3, <3>0, <3>2, <4>1
      <4>3. us[m[j]] = ts[l[p + 1]] + ts[l[p]] /\ ts[l[p + 1]] \in Nat /\ ts[l[p]] \in Nat
        BY <1>0, <1>c, <3>0, <3>2, <4>1, <4>2
      <4>4. f[p + 1] = f[p] + ts[l[p + 1]] /\ f[p] = f[p - 1] + ts[l[p]]
        BY <1>2, <3>0, <3>2
      <4>5. f[p - 1] \in Nat
        BY <1>0, <1>2
      <4> HIDE DEF g
      <4> QED BY SMTT(30), <4>1, <4>3, <4>4, <4>5
    <3>3. CASE j > p
      <4>0. ~ (j < p) /\ ~ (j - 1 < p) /\ (j - 1) + 1 = j /\ j + 1 # p /\ j # p
        BY <3>0, <3>3
      <4>1. m[j] = l[j + 1] /\ g[j] = f[j + 1] /\ g[j - 1] = f[j] /\ j + 1 # p /\ j # p
        BY <1>4, <3>0, <4>0
      <4>2. l[j + 1] # l[p] /\ l[j + 1] \notin heirs
        <5>1. l[j + 1] # l[p]
          BY <1>3, <3>0, <4>1
        <5>2. p < Len(l) => p + 1 \in 1 .. Len(l) /\ p + 1 # j + 1
          BY <1>0, <4>1
        <5> QED BY <1>a, <1>3, <3>0, <5>1, <5>2
      <4>3. us[m[j]] = ts[l[j + 1]] + 0 /\ ts[l[j + 1]] \in Nat
        BY <1>0, <1>c, <3>0, <4>1, <4>2
      <4> HIDE DEF g
      <4> QED BY <1>2, <3>0, <4>1, <4>3
    <3> QED BY <1>0, <3>0, <3>1, <3>2, <3>3
  <2> HIDE DEF g
  <2> QED BY <2>1, <2>2 DEF Sums
<1>10. /\ DOMAIN LeftOf(l, ts) = Members(l)
       /\ \A i \in 1 .. Len(l) : l[i] \in Members(l) /\ LeftOf(l, ts)[l[i]] = f[i]
  BY <1>1, LeftOfIs
<1> DEFINE h == [s \in Members(m) |-> LeftOf(l, ts)[s]]
<1>11. LeftOf(m, us) = h
  <2>1. h = [s \in Members(m) |-> h[s]]
    OBVIOUS
  <2>2. ASSUME NEW j \in 1 .. Len(m) PROVE h[m[j]] = g[j]
    <3>0. /\ j \in 1 .. Len(l) - 1 /\ j \in 1 .. Len(l) /\ j + 1 \in 1 .. Len(l)
          /\ j \in 0 .. Len(m) /\ j \in DOMAIN m /\ m[j] \in Timers
      BY <1>0, <1>4
    <3>1. m[j] \in Members(m)
      BY <3>0 DEF Members
    <3>2. g[j] = IF j < p THEN f[j] ELSE f[j + 1]
      BY <3>0
    <3> HIDE DEF g
    <3> QED BY <1>4, <1>10, <3>0, <3>1, <3>2
  <2> HIDE DEF g, h
  <2> QED BY <1>4, <1>5, <1>7, <1>9, <2>1, <2>2, LeftOfUnique
<1>12. h = Kept(LeftOf(l, ts), Members(m))
  BY DEF Kept
<1> HIDE DEF h
<1> QED BY <1>b, <1>4, <1>5, <1>7, <1>8, <1>11, <1>12, Zenon DEF m

(* When the first timer is taken off the list, the others keep their       *)
(* differences, and thereby lose its time.                                 *)
LEMMA TailMaps ==
  \A l \in Seq(Timers), ts \in [Timers -> Nat] :
    Distinct(l) /\ l # <<>> =>
      /\ Tail(l) \in Seq(Timers) /\ Cleared(l, ts) \in [Timers -> Nat]
      /\ Distinct(Tail(l)) /\ Members(Tail(l)) = Members(l) \ {Head(l)}
      /\ LeftOf(Tail(l), Cleared(l, ts))
           = Less(LeftOf(l, ts), Members(l) \ {Head(l)}, LeftOf(l, ts)[Head(l)])
<1> TAKE l \in Seq(Timers), ts \in [Timers -> Nat]
<1> HAVE Distinct(l) /\ l # <<>>
<1>a. PICK us : us = Cleared(l, ts)
  OBVIOUS
<1>b. us = [ts EXCEPT ![Head(l)] = 0]
  BY <1>a DEF Cleared
<1>0. Len(l) \in Nat /\ DOMAIN l = 1 .. Len(l) /\ \A i \in 1 .. Len(l) : l[i] \in Timers
  OBVIOUS
<1>1. PICK f : Sums(f, l, ts)
  BY SumExists
<1>2. /\ f[0] = 0 /\ \A i \in 0 .. Len(l) : f[i] \in Nat
      /\ \A i \in 1 .. Len(l) : f[i] = f[i - 1] + ts[l[i]]
  BY <1>0, <1>1 DEF Sums
<1>3. \A i, j \in 1 .. Len(l) : l[i] = l[j] => i = j
  BY <1>0 DEF Distinct
<1> DEFINE m == Tail(l)
           g == [j \in 0 .. Len(m) |-> f[j + 1] - f[1]]
<1>4. /\ m \in Seq(Timers) /\ Len(m) = Len(l) - 1 /\ DOMAIN m = 1 .. Len(l) - 1
      /\ 1 \in 1 .. Len(l) /\ Head(l) = l[1]
      /\ \A i \in 1 .. Len(l) - 1 : m[i] = l[i + 1]
  BY <1>0
<1>5. us \in [Timers -> Nat]
  BY <1>0, <1>b
<1> HIDE DEF m
<1>6. \A j \in 1 .. Len(l) - 1 : j \in 1 .. Len(l) /\ j + 1 \in 1 .. Len(l)
  BY <1>0
<1>7. Distinct(m)
  <2>1. ASSUME NEW i \in 1 .. Len(l) - 1, NEW j \in 1 .. Len(l) - 1, m[i] = m[j] PROVE i = j
    <3>1. i + 1 \in 1 .. Len(l) /\ j + 1 \in 1 .. Len(l) /\ l[i + 1] = l[j + 1]
      BY <1>4, <1>6, <2>1
    <3>2. i + 1 = j + 1
      BY <1>3, <3>1, Zenon
    <3> QED BY <3>2
  <2> QED BY <1>4, <2>1, Zenon DEF Distinct
<1>8. Members(m) = Members(l) \ {l[1]}
  <2>1. ASSUME NEW s \in Members(m) PROVE s \in Members(l) \ {l[1]}
    <3>1. PICK i \in 1 .. Len(l) - 1 : m[i] = s
      BY <1>4, Zenon DEF Members
    <3>2. i + 1 \in 1 .. Len(l) /\ l[i + 1] = s /\ i + 1 # 1
      BY <1>4, <1>6, <3>1
    <3>3. s # l[1]
      BY <1>3, <1>4, <3>2
    <3> QED BY <1>0, <3>2, <3>3 DEF Members
  <2>2. ASSUME NEW s \in Members(l), s # l[1] PROVE s \in Members(m)
    <3>1. PICK i \in 1 .. Len(l) : l[i] = s
      BY <1>0, Zenon DEF Members
    <3>2. i - 1 \in 1 .. Len(l) - 1 /\ (i - 1) + 1 = i
      BY <1>0, <2>2, <3>1
    <3>3. m[i - 1] = s
      BY <1>4, <3>1, <3>2
    <3> QED BY <1>4, <3>2, <3>3, Zenon DEF Members
  <2> QED BY <2>1, <2>2
<1>9. Sums(g, m, us)
  <2>1. g \in [0 .. Len(m) -> Nat] /\ g[0] = 0
    <3>1. \A j \in 0 .. Len(m) : j + 1 \in 0 .. Len(l) /\ 1 \in 0 .. j + 1
      BY <1>0, <1>4
    <3>2. \A j \in 0 .. Len(l) : \A i \in 0 .. j : f[i] <= f[j]
      BY <1>1, SumMonotone
    <3>3. \A j \in 0 .. Len(m) : f[j + 1] \in Nat /\ f[1] \in Nat /\ f[1] <= f[j + 1]
      BY <1>2, <1>4, <3>1, <3>2
    <3>4. \A j \in 0 .. Len(m) : f[j + 1] - f[1] \in Nat
      BY <3>3
    <3>5. 0 \in 0 .. Len(m) /\ 0 + 1 = 1
      BY <1>0, <1>4
    <3>6. g[0] = f[1] - f[1]
      BY <3>5
    <3>7. g \in [0 .. Len(m) -> Nat]
      BY <3>4
    <3> HIDE DEF g
    <3> QED BY <3>3, <3>5, <3>6, <3>7
  <2>2. ASSUME NEW j \in 1 .. Len(m) PROVE g[j] = g[j - 1] + us[m[j]]
    <3>0. /\ j \in 1 .. Len(l) - 1 /\ j \in 0 .. Len(l) /\ j + 1 \in 1 .. Len(l)
          /\ j \in 0 .. Len(m) /\ j - 1 \in 0 .. Len(m) /\ (j + 1) - 1 = j /\ (j - 1) + 1 = j
      BY <1>0, <1>4
    <3>1. m[j] = l[j + 1] /\ l[j + 1] # l[1] /\ l[j + 1] \in Timers
      BY <1>0, <1>3, <1>4, <3>0
    <3>2. us[m[j]] = ts[l[j + 1]] /\ ts[l[j + 1]] \in Nat
      BY <1>b, <1>4, <3>1
    <3>3. g[j] = f[j + 1] - f[1] /\ g[j - 1] = f[j] - f[1]
      BY <3>0
    <3>4. f[j + 1] = f[j] + ts[l[j + 1]] /\ f[j] \in Nat /\ f[1] \in Nat
      BY <1>2, <1>4, <3>0
    <3> HIDE DEF g
    <3> QED BY <3>2, <3>3, <3>4
  <2> HIDE DEF g
  <2> QED BY <2>1, <2>2 DEF Sums
<1>10. /\ DOMAIN LeftOf(l, ts) = Members(l)
       /\ \A i \in 1 .. Len(l) : l[i] \in Members(l) /\ LeftOf(l, ts)[l[i]] = f[i]
  BY <1>1, LeftOfIs
<1> DEFINE h == [s \in Members(m) |-> LeftOf(l, ts)[s] - LeftOf(l, ts)[l[1]]]
<1>11. LeftOf(m, us) = h
  <2>1. h = [s \in Members(m) |-> h[s]]
    OBVIOUS
  <2>2. ASSUME NEW j \in 1 .. Len(m) PROVE h[m[j]] = g[j]
    <3>0. /\ j \in 1 .. Len(l) - 1 /\ j + 1 \in 1 .. Len(l)
          /\ j \in 0 .. Len(m) /\ j \in DOMAIN m /\ m[j] \in Timers
      BY <1>0, <1>4
    <3>1. m[j] \in Members(m)
      BY <3>0 DEF Members
    <3>2. g[j] = f[j + 1] - f[1]
      BY <3>0
    <3> HIDE DEF g
    <3> QED BY <1>4, <1>10, <3>0, <3>1, <3>2
  <2> HIDE DEF g, h
  <2> QED BY <1>4, <1>5, <1>7, <1>9, <2>1, <2>2, LeftOfUnique
<1>12. h = Less(LeftOf(l, ts), Members(m), LeftOf(l, ts)[l[1]])
  BY DEF Less
<1> HIDE DEF h
<1> QED BY <1>a, <1>4, <1>5, <1>7, <1>8, <1>11, <1>12, Zenon DEF m

(* Time taken off the first timer is taken off all.                        *)
LEMMA SettleMaps ==
  \A l \in Seq(Timers), ts \in [Timers -> Nat], e \in Nat :
    Distinct(l) /\ (l # <<>> => e < ts[Head(l)]) =>
      /\ Reduced(l, ts, e) \in [Timers -> Nat]
      /\ LeftOf(l, Reduced(l, ts, e)) = Less(LeftOf(l, ts), Members(l), e)
<1> TAKE l \in Seq(Timers), ts \in [Timers -> Nat], e \in Nat
<1> HAVE Distinct(l) /\ (l # <<>> => e < ts[Head(l)])
<1>a. PICK us : us = Reduced(l, ts, e)
  OBVIOUS
<1>b. us = [t \in Timers |-> IF l # <<>> /\ t = Head(l) THEN ts[t] - e ELSE ts[t]]
  BY <1>a DEF Reduced
<1>0. Len(l) \in Nat /\ DOMAIN l = 1 .. Len(l) /\ \A i \in 1 .. Len(l) : l[i] \in Timers
  OBVIOUS
<1>1. PICK f : Sums(f, l, ts)
  BY SumExists
<1>2. /\ f[0] = 0 /\ \A i \in 0 .. Len(l) : f[i] \in Nat
      /\ \A i \in 1 .. Len(l) : f[i] = f[i - 1] + ts[l[i]]
  BY <1>0, <1>1 DEF Sums
<1>3. \A i, j \in 1 .. Len(l) : l[i] = l[j] => i = j
  BY <1>0 DEF Distinct
<1>4. ASSUME NEW i \in 1 .. Len(l)
      PROVE  /\ l # <<>> /\ Head(l) = l[1] /\ 1 \in 1 .. Len(l)
             /\ us[l[i]] = IF i = 1 THEN ts[l[1]] - e ELSE ts[l[i]]
  <2>1. l # <<>> /\ Head(l) = l[1] /\ 1 \in 1 .. Len(l)
    BY <1>0
  <2> QED BY <1>0, <1>b, <1>3, <2>1
<1>5. us \in [Timers -> Nat]
  <2>1. ASSUME l # <<>> PROVE ts[Head(l)] - e \in Nat
    <3>1. Head(l) \in Timers
      BY <2>1
    <3> QED BY <2>1, <3>1
  <2> QED BY <1>b, <2>1
<1> DEFINE g == [j \in 0 .. Len(l) |-> IF j = 0 THEN 0 ELSE f[j] - e]
<1>6. Sums(g, l, us)
  <2>1. ASSUME NEW j \in 1 .. Len(l) PROVE f[j] - e \in Nat /\ f[1] = ts[l[1]]
    <3>0. 1 \in 1 .. Len(l) /\ l[1] \in Timers /\ 1 \in 0 .. j /\ j \in 0 .. Len(l)
      BY <1>0, <1>4
    <3>1. f[1] = ts[l[1]] /\ f[1] \in Nat
      <4>1. f[1] = f[1 - 1] + ts[l[1]] /\ ts[l[1]] \in Nat
        BY <1>2, <3>0
      <4> QED BY <1>2, <4>1
    <3>2. f[1] <= f[j] /\ f[j] \in Nat
      BY <1>1, <1>2, <3>0, SumMonotone
    <3>3. e < ts[l[1]]
      BY <1>4
    <3> QED BY <3>1, <3>2, <3>3
  <2>2. g \in [0 .. Len(l) -> Nat] /\ g[0] = 0
    BY <1>0, <2>1
  <2>3. ASSUME NEW j \in 1 .. Len(l) PROVE g[j] = g[j - 1] + us[l[j]]
    <3>0. j \in 0 .. Len(l) /\ j - 1 \in 0 .. Len(l) /\ g[j] = f[j] - e
      BY <1>0
    <3>1. CASE j = 1
      BY <1>0, <1>4, <2>1, <3>0, <3>1
    <3>2. CASE j # 1
      <4>1. g[j - 1] = f[j - 1] - e /\ us[l[j]] = ts[l[j]]
        <5>1. j - 1 # 0
          BY <3>2
        <5> QED BY <1>4, <3>0, <3>2, <5>1, Zenon
      <4>2. f[j] = f[j - 1] + ts[l[j]] /\ f[j - 1] \in Nat /\ ts[l[j]] \in Nat
        BY <1>0, <1>2, <3>0
      <4> HIDE DEF g
      <4> QED BY <3>0, <4>1, <4>2
    <3> QED BY <3>1, <3>2
  <2> HIDE DEF g
  <2> QED BY <2>2, <2>3 DEF Sums
<1>7. /\ DOMAIN LeftOf(l, ts) = Members(l)
      /\ \A i \in 1 .. Len(l) : l[i] \in Members(l) /\ LeftOf(l, ts)[l[i]] = f[i]
  BY <1>1, LeftOfIs
<1> DEFINE h == [s \in Members(l) |-> LeftOf(l, ts)[s] - e]
<1>8. h = [s \in Members(l) |-> h[s]]
  OBVIOUS
<1>9. \A j \in 1 .. Len(l) : h[l[j]] = g[j]
  BY <1>0, <1>7
<1>11. h = Less(LeftOf(l, ts), Members(l), e)
  BY DEF Less
<1> HIDE DEF g, h
<1>10. LeftOf(l, us) = h
  BY <1>5, <1>6, <1>8, <1>9, LeftOfUnique
<1> QED BY <1>a, <1>5, <1>10, <1>11, Zenon

(***************************************************************************)
(* The invariant: the list links each of its timers once, and time that    *)
(* has passed is taken off within the handler.                             *)
(***************************************************************************)
Taken == ~ loop => elapsed = 0
TInv == TimersTypeOK /\ LinkedOnce /\ Taken

LEMMA Lists ==
  /\ LinkedOnce <=> Distinct(timers)
  /\ Left = LeftOf(timers, timeout)
  /\ \A t \in Timers : SYS_TimerStarted(t) <=> t \in Members(timers)
BY DEF LinkedOnce, Distinct, Left, LeftOf, Members, Position, SYS_TimerStarted

LEMMA ListsNext ==
  /\ LinkedOnce' <=> Distinct(timers')
  /\ Left' = LeftOf(timers', timeout')
BY DEF LinkedOnce, Distinct, Left, LeftOf, Members, Position, SYS_TimerStarted

LEMMA Products ==
  ASSUME NEW a \in Nat \ {0}, NEW b \in Nat \ {0}
  PROVE  a * b \in Nat \ {0}
<1> DEFINE S == {n \in Nat : n # 0 => n * b \in Nat \ {0}}
<1>1. 0 \in S
  OBVIOUS
<1>2. ASSUME NEW n \in Nat, n \in S PROVE n + 1 \in S
  <2>1. (n + 1) * b = n * b + b
    OBVIOUS
  <2>2. n = 0 => n * b = 0
    OBVIOUS
  <2> QED BY <1>2, <2>1, <2>2
<1> HIDE DEF S
<1>3. a \in S
  BY <1>1, <1>2, Induction
<1> QED BY <1>3 DEF S

LEMMA TInvInit == TimersInit => TInv
<1> SUFFICES ASSUME TimersInit PROVE TInv
  OBVIOUS
<1>1. timers \in Seq(Timers) /\ timeout \in [Timers -> Nat] /\ LinkedOnce
  BY DEF TimersInit, LinkedOnce
<1>2. 0 \in 0 .. IrqSize - 1
  BY TimerConstantsOK DEF TimerConstantsOK
<1> QED BY <1>1, <1>2 DEF TimersInit, TInv, TimersTypeOK, Taken

(* A timer that is started is linked once more, with its whole interval.   *)
LEMMA StartStep ==
  ASSUME TInv, NEW t \in Timers, SYS_TimerStart(t)
  PROVE  TInv' /\ Timing!Start(t)
<1>1. timers \in Seq(Timers) /\ timeout \in [Timers -> Nat] /\ Distinct(timers)
  BY Lists DEF TInv, TimersTypeOK
<1>2. t \in Timers \ Members(timers)
  BY Lists DEF SYS_TimerStart
<1>3. timers' = Placed(timers, timeout, t).list /\ timeout' = Placed(timers, timeout, t).left
  BY DEF SYS_TimerStart
<1>4. /\ timers' \in Seq(Timers) /\ timeout' \in [Timers -> Nat] /\ Distinct(timers')
      /\ LeftOf(timers', timeout') = Timing!Add(LeftOf(timers, timeout), t, Interval[t])
  <2>1. /\ Placed(timers, timeout, t).list \in Seq(Timers)
        /\ Placed(timers, timeout, t).left \in [Timers -> Nat]
        /\ Distinct(Placed(timers, timeout, t).list)
        /\ LeftOf(Placed(timers, timeout, t).list, Placed(timers, timeout, t).left)
             = Timing!Add(LeftOf(timers, timeout), t, Interval[t])
    BY <1>1, <1>2, StartMaps
  <2> QED BY <1>3, <2>1, Zenon
<1>5. DOMAIN LeftOf(timers, timeout) = Members(timers)
  BY DEF LeftOf
<1>6. TInv'
  BY <1>4, ListsNext DEF TInv, TimersTypeOK, Taken, SYS_TimerStart
<1>7. t \notin DOMAIN Left /\ elapsed' = elapsed
  BY <1>2, <1>5, Lists DEF SYS_TimerStart
<1>8. Left' = Timing!Add(Left, t, Interval[t])
  BY <1>4, Lists, ListsNext
<1> QED BY <1>6, <1>7, <1>8, Zenon DEF Timing!Start, Timing!Running

(* A timer that is stopped leaves the times of the others as they are.     *)
LEMMA StopStep ==
  ASSUME TInv, NEW t \in Timers, SYS_TimerStop(t)
  PROVE  TInv' /\ Timing!Stop(t)
<1>1. timers \in Seq(Timers) /\ timeout \in [Timers -> Nat] /\ Distinct(timers)
  BY Lists DEF TInv, TimersTypeOK
<1>2. PICK p \in 1 .. Len(timers) :
        /\ timers[p] = t /\ timers' = RemoveAt(timers, p)
        /\ timeout' = [s \in Timers |-> IF s = t THEN 0
                         ELSE timeout[s] + (IF s \in Inherits(p) THEN timeout[t] ELSE 0)]
  BY <1>1 DEF SYS_TimerStop
<1>3. Inherits(p) = IF p < Len(timers) THEN {timers[p + 1]} ELSE {}
  BY DEF Inherits
<1>4. /\ timers' \in Seq(Timers) /\ timeout' \in [Timers -> Nat] /\ Distinct(timers')
      /\ LeftOf(timers', timeout') = Kept(LeftOf(timers, timeout), Members(timers) \ {t})
  <2>1. timeout' = Stopped(timers, timeout, p)
    BY <1>2, <1>3 DEF Stopped
  <2>2. /\ RemoveAt(timers, p) \in Seq(Timers) /\ Stopped(timers, timeout, p) \in [Timers -> Nat]
        /\ Distinct(RemoveAt(timers, p))
        /\ LeftOf(RemoveAt(timers, p), Stopped(timers, timeout, p))
             = Kept(LeftOf(timers, timeout), Members(timers) \ {timers[p]})
    BY <1>1, StopMaps
  <2> QED BY <1>2, <2>1, <2>2, Zenon
<1>5. DOMAIN LeftOf(timers, timeout) = Members(timers) /\ t \in Members(timers)
  BY <1>1, <1>2 DEF LeftOf, Members
<1>6. TInv'
  BY <1>4, ListsNext DEF TInv, TimersTypeOK, Taken, SYS_TimerStop
<1>7. t \in DOMAIN Left /\ elapsed' = elapsed
  BY <1>5, Lists DEF SYS_TimerStop
<1>8. Left' = [s \in DOMAIN Left \ {t} |-> Left[s]]
  BY <1>4, <1>5, Lists, ListsNext DEF Kept
<1> QED BY <1>6, <1>7, <1>8 DEF Timing!Stop, Timing!OnlyOf, Timing!Running

(* The first timer is due before the others; those keep what is left of    *)
(* their times, and the timer itself, if periodic, gets its interval.      *)
LEMMA ExpireStep ==
  ASSUME TInv, Expire
  PROVE  TInv' /\ \E t \in Timers : Timing!Expire(t)
<1>1. timers \in Seq(Timers) /\ timeout \in [Timers -> Nat] /\ Distinct(timers)
  BY Lists DEF TInv, TimersTypeOK
<1>2. timers # <<>> /\ timeout[Head(timers)] <= elapsed
  BY DEF Expire, Due
<1>3. PICK t \in Timers : t = Head(timers)
  BY <1>1, <1>2
<1>4. PICK l : l = Tail(timers)
  OBVIOUS
<1>5. PICK us : us = [timeout EXCEPT ![t] = 0]
  OBVIOUS
<1>6. /\ l \in Seq(Timers) /\ us \in [Timers -> Nat] /\ Distinct(l)
      /\ Members(l) = Members(timers) \ {t}
      /\ LeftOf(l, us) = Less(LeftOf(timers, timeout), Members(timers) \ {t},
                              LeftOf(timers, timeout)[t])
  <2>1. us = Cleared(timers, timeout)
    BY <1>3, <1>5 DEF Cleared
  <2>2. /\ Tail(timers) \in Seq(Timers) /\ Cleared(timers, timeout) \in [Timers -> Nat]
        /\ Distinct(Tail(timers)) /\ Members(Tail(timers)) = Members(timers) \ {Head(timers)}
        /\ LeftOf(Tail(timers), Cleared(timers, timeout))
             = Less(LeftOf(timers, timeout), Members(timers) \ {Head(timers)},
                    LeftOf(timers, timeout)[Head(timers)])
    BY <1>1, <1>2, TailMaps
  <2> QED BY <1>3, <1>4, <2>1, <2>2, Zenon
<1>7. /\ timers' = Again(l, us, t).list /\ timeout' = Again(l, us, t).left
      /\ elapsed' = elapsed - timeout[t] /\ handler' = t /\ loop /\ UNCHANGED <<irq, loop>>
  BY <1>3, <1>4, <1>5 DEF Expire
<1>8. /\ LeftOf(timers, timeout) \in [Members(timers) -> Nat]
      /\ t \in Members(timers) /\ LeftOf(timers, timeout)[t] = timeout[t]
      /\ \A s \in Members(timers) : timeout[t] <= LeftOf(timers, timeout)[s]
  BY <1>1, <1>2, <1>3, LeftAlong
<1>9. /\ timers' \in Seq(Timers) /\ timeout' \in [Timers -> Nat] /\ Distinct(timers')
      /\ LeftOf(timers', timeout')
           = IF t \in Periodic
             THEN Timing!Add(LeftOf(l, us), t, Interval[t]) ELSE LeftOf(l, us)
  <2>1. CASE t \in Periodic
    <3>1. timers' = Placed(l, us, t).list /\ timeout' = Placed(l, us, t).left
      BY <1>7, <2>1 DEF Again
    <3>2. t \in Timers \ Members(l)
      BY <1>6
    <3>3. /\ Placed(l, us, t).list \in Seq(Timers) /\ Placed(l, us, t).left \in [Timers -> Nat]
          /\ Distinct(Placed(l, us, t).list)
          /\ LeftOf(Placed(l, us, t).list, Placed(l, us, t).left)
               = Timing!Add(LeftOf(l, us), t, Interval[t])
      BY <1>6, <3>2, StartMaps
    <3> QED BY <2>1, <3>1, <3>3
  <2>2. CASE t \notin Periodic
    <3>1. timers' = l /\ timeout' = us
      BY <1>7, <2>2 DEF Again
    <3> QED BY <1>6, <2>2, <3>1
  <2> QED BY <2>1, <2>2
<1>10. TInv'
  <2>1. elapsed \in Nat /\ timeout[t] \in Nat /\ timeout[t] <= elapsed
    BY <1>1, <1>2, <1>3 DEF TInv, TimersTypeOK
  <2>2. elapsed' \in Nat
    BY <1>7, <2>1
  <2> QED BY <1>7, <1>9, <2>2, ListsNext DEF TInv, TimersTypeOK, Taken
<1>11. Timing!Expire(t)
  <2> DEFINE rest == [s \in DOMAIN Left \ {t} |-> Left[s] - Left[t]]
  <2>1. DOMAIN Left = Members(timers) /\ Left = LeftOf(timers, timeout)
    BY <1>8, Lists
  <2>2. rest = LeftOf(l, us)
    BY <1>6, <2>1 DEF Less
  <2>3. /\ t \in DOMAIN Left /\ Left[t] <= elapsed /\ elapsed' = elapsed - Left[t]
        /\ \A s \in DOMAIN Left : Left[t] <= Left[s]
    BY <1>2, <1>3, <1>7, <1>8, <2>1
  <2>4. Left' = IF t \in Periodic THEN Timing!Add(rest, t, Interval[t]) ELSE rest
    <3> HIDE DEF rest
    <3> QED BY <1>9, <2>2, ListsNext, Zenon
  <2> QED BY <2>3, <2>4, Zenon DEF Timing!Expire, Timing!Running
<1> QED BY <1>10, <1>11

(* Time that no timer is due for is taken off the first one, and thereby   *)
(* off all.                                                                *)
LEMMA LeaveStep ==
  ASSUME TInv, Leave
  PROVE  TInv' /\ Timing!Settle
<1>1. timers \in Seq(Timers) /\ timeout \in [Timers -> Nat] /\ Distinct(timers) /\ elapsed \in Nat
  BY Lists DEF TInv, TimersTypeOK
<1>2. timers # <<>> => elapsed < timeout[Head(timers)]
  <2> SUFFICES ASSUME timers # <<>> PROVE elapsed < timeout[Head(timers)]
    OBVIOUS
  <2>1. Head(timers) \in Timers
    BY <1>1
  <2> QED BY <1>1, <2>1 DEF Leave, Due
<1>3. PICK us : us = timeout'
  OBVIOUS
<1>4. us = Reduced(timers, timeout, elapsed)
  BY <1>3 DEF Leave, Reduced
<1>5. /\ us \in [Timers -> Nat]
      /\ LeftOf(timers, us) = Less(LeftOf(timers, timeout), Members(timers), elapsed)
  BY <1>1, <1>2, <1>4, SettleMaps
<1>6. timers' = timers /\ elapsed' = 0 /\ loop' = FALSE /\ UNCHANGED <<irq, handler>>
  BY DEF Leave
<1>7. TInv'
  BY <1>1, <1>3, <1>5, <1>6, ListsNext DEF TInv, TimersTypeOK, Taken
<1>8. LeftOf(timers, timeout) \in [Members(timers) -> Nat]
      /\ \A s \in Members(timers) : elapsed < LeftOf(timers, timeout)[s]
  <2>1. LeftOf(timers, timeout) \in [Members(timers) -> Nat]
    BY <1>1, LeftAlong
  <2>2. ASSUME NEW s \in Members(timers) PROVE elapsed < LeftOf(timers, timeout)[s]
    <3>1. timers # <<>>
      BY DEF Members
    <3>2. Head(timers) \in Timers /\ timeout[Head(timers)] <= LeftOf(timers, timeout)[s]
      BY <1>1, <3>1, LeftAlong
    <3>3. timeout[Head(timers)] \in Nat /\ LeftOf(timers, timeout)[s] \in Nat
      BY <1>1, <2>1, <3>2
    <3> QED BY <1>1, <1>2, <3>1, <3>2, <3>3
  <2> QED BY <2>1, <2>2
<1>9. DOMAIN Left = Members(timers) /\ Left = LeftOf(timers, timeout)
  BY <1>8, Lists
<1>10. Left' = [s \in DOMAIN Left |-> Left[s] - elapsed]
  BY <1>3, <1>5, <1>6, <1>9, ListsNext DEF Less
<1>11. \A s \in DOMAIN Left : Left[s] > elapsed
  BY <1>1, <1>8, <1>9
<1> QED BY <1>6, <1>7, <1>10, <1>11 DEF Timing!Settle, Timing!Running

(* The handler takes over the ticks counted so far.                        *)
LEMMA EnterStep ==
  ASSUME TInv, Enter
  PROVE  TInv' /\ Timing!Pass
<1>1. irq \in Nat \ {0} /\ TickTime \in Nat \ {0}
  BY TimerConstantsOK DEF TimerConstantsOK, TInv, TimersTypeOK, Enter
<1>2. elapsed' \in Nat \ {0}
  BY <1>1, Products DEF Enter
<1>3. timers' = timers /\ timeout' = timeout /\ elapsed = 0
  BY DEF Enter, TInv, Taken
<1>4. Left' = Left
  BY <1>3, Lists, ListsNext
<1>5. TInv'
  BY TimerConstantsOK, <1>2, <1>3 DEF TimerConstantsOK, TInv, TimersTypeOK, LinkedOnce, Taken, Enter
<1> QED BY <1>2, <1>3, <1>4, <1>5 DEF Timing!Pass

LEMMA TimerStep ==
  ASSUME TInv, [TimersNext]_clock
  PROVE  TInv' /\ [Timing!Next]_<<Left, elapsed>>
<1>1. ASSUME NEW t \in Timers, SYS_TimerStart(t) PROVE TInv' /\ Timing!Next
  BY <1>1, StartStep DEF Timing!Next
<1>2. ASSUME NEW t \in Timers, SYS_TimerStop(t) PROVE TInv' /\ Timing!Next
  BY <1>2, StopStep DEF Timing!Next
<1>3. CASE Enter
  BY <1>3, EnterStep DEF Timing!Next
<1>4. CASE Expire
  BY <1>4, ExpireStep DEF Timing!Next
<1>5. CASE Leave
  BY <1>5, LeaveStep DEF Timing!Next
<1>6. CASE TIMER4_COMPA_vect \/ HandlerDone \/ UNCHANGED clock
  <2>1. timers' = timers /\ timeout' = timeout /\ elapsed' = elapsed /\ loop' = loop
    BY <1>6 DEF TIMER4_COMPA_vect, HandlerDone, clock
  <2>2. irq' \in 0 .. IrqSize - 1 /\ handler' \in Timers \cup {NONE}
    BY TimerConstantsOK, <1>6 DEF TIMER4_COMPA_vect, HandlerDone, clock, TInv, TimersTypeOK, TimerConstantsOK
  <2>3. Left' = Left
    BY <2>1, Lists, ListsNext
  <2>4. TInv'
    BY <2>1, <2>2 DEF TInv, TimersTypeOK, LinkedOnce, Taken
  <2> QED BY <2>1, <2>3, <2>4
<1> QED BY <1>1, <1>2, <1>3, <1>4, <1>5, <1>6, Zenon DEF TimersNext, Tasks, TimersTask

LEMMA TimerInvariant == TimersSpec => []TInv
<1>1. TimersInit => TInv  BY TInvInit
<1>2. TInv /\ [TimersNext]_clock => TInv'  BY TimerStep
<1> QED BY <1>1, <1>2, PTL DEF TimersSpec

(* However tasks, handlers and ticks alternate, no timer is linked twice,  *)
(* and no difference in the list passes below zero.                        *)
THEOREM TimersLinkedOnce == TimersSpec => [](TimersTypeOK /\ LinkedOnce)
<1>1. TInv => TimersTypeOK /\ LinkedOnce  BY DEF TInv
<1> QED BY <1>1, TimerInvariant, PTL

(* The list of differences (placeTimer, SYS_TimerStop and the handler) is  *)
(* a set of independent countdowns.                                        *)
THEOREM ListIsCountdowns == TimersSpec => ImplementsCountdown
<1>1. TimersInit => Timing!Init
  <2> SUFFICES ASSUME TimersInit PROVE Timing!Init
    OBVIOUS
  <2>1. timers = <<>> /\ elapsed = 0
    BY DEF TimersInit
  <2>2. Members(timers) = {}
    BY <2>1 DEF Members
  <2>3. Left = [t \in {} |-> 0]
    BY <2>2, Lists DEF LeftOf
  <2> QED BY <2>1, <2>3 DEF Timing!Init
<1>2. TInv /\ [TimersNext]_clock => [Timing!Next]_<<Left, elapsed>>  BY TimerStep
<1> QED BY <1>1, <1>2, TimerInvariant, PTL DEF TimersSpec, ImplementsCountdown, Timing!Spec
=============================================================================
