-------------------------- MODULE NwkTablesProofs --------------------------
(***************************************************************************)
(* Invariants of the two tables of the network layer: of the duplicate     *)
(* filter, for tables of any size, any number of sources, and sequence     *)
(* numbers and windows of any width; of the route table, for every size,   *)
(* set of nodes and range of ranks and scores, and that it is the map that *)
(* the rest of the network layer takes it to be.                           *)
(***************************************************************************)
EXTENDS NwkRoute, NwkDuplicate, FiniteSetTheorems, TLAPS

(***************************************************************************)
(* The duplicate filter.                                                   *)
(***************************************************************************)
EntryType == [src : Sources, seq : Seqs, mask : SUBSET (0 .. Window - 1), ttl : 0 .. Ttl]

(* How far b lies behind a, going round.                                   *)
Back(a, b) == IF a >= b THEN a - b ELSE a - b + SeqSize

(* What an entry is worth to a source that has sent x last and of whose    *)
(* frames A have been accepted: it is not so far behind that its distance  *)
(* wraps into the window, and its mask tells, of every frame that may      *)
(* still arrive, whether it has been accepted.                             *)
Follows(e, x) == Ahead(e, x) <= SeqSize - Window
Remembers(e, x, A) == \A s \in Recent(x) : s \in A <=> Behind(e, s) \in e.mask

Entered ==
  \A i \in Slot : Alive(i) =>
    LET n == rejection[i].src
    IN  Follows(rejection[i], newest[n]) /\ Remembers(rejection[i], newest[n], accepted[n])
Bounded ==
  \A n \in Sources :
    /\ accepted[n] \subseteq Recent(newest[n])
    /\ ~ Heard(n) => accepted[n] = {}

DInv == FilterTypeOK /\ OneEntry /\ Expiring /\ Entered /\ Bounded

(***************************************************************************)
(* The arithmetic of sequence numbers.                                     *)
(***************************************************************************)
LEMMA Modulo ==
  ASSUME NEW M \in Nat \ {0}, NEW x \in Int
  PROVE  /\ x \in 0 .. M - 1 => x % M = x
         /\ 0 - M <= x /\ x < 0 => x % M = x + M
         /\ x = M => x % M = 0
OBVIOUS

LEMMA Constants ==
  /\ SeqSize \in Nat \ {0} /\ Window \in Nat \ {0} /\ SeqSize > 2 * Window
  /\ MaxLag \in Nat /\ MaxLag < Window /\ 0 \in Seqs
  /\ MaxGap \in Nat /\ MaxGap <= SeqSize - Window
BY DuplicateConstantsOK DEF DuplicateConstantsOK, Seqs

LEMMA Distance ==
  ASSUME NEW a \in Seqs, NEW b \in Seqs
  PROVE  /\ (a - b) % SeqSize = Back(a, b) /\ Back(a, b) \in Seqs
         /\ Back(a, Back(a, b)) = b
<1>1. a - b \in Int /\ a - b < SeqSize /\ a - b > 0 - SeqSize /\ SeqSize \in Nat \ {0}
  BY Constants DEF Seqs
<1>2. a \in Int /\ b \in Int /\ 0 <= a /\ 0 <= b /\ a < SeqSize /\ b < SeqSize
  BY Constants DEF Seqs
<1>3. CASE a >= b
  BY <1>1, <1>2, <1>3, Modulo DEF Back, Seqs
<1>4. CASE ~ (a >= b)
  BY <1>1, <1>2, <1>4, Modulo DEF Back, Seqs
<1> QED BY <1>3, <1>4

(* The frames that may arrive are those at most MaxLag behind.             *)
LEMMA RecentIs ==
  ASSUME NEW a \in Seqs
  PROVE  \A s : s \in Recent(a) <=> s \in Seqs /\ Back(a, s) <= MaxLag
<1>1. ASSUME NEW s \in Recent(a) PROVE s \in Seqs /\ Back(a, s) <= MaxLag
  <2>1. PICK k \in 0 .. MaxLag : s = (a - k) % SeqSize
    BY DEF Recent
  <2>2. k \in Seqs /\ k <= MaxLag
    BY Constants DEF Seqs
  <2>3. s = Back(a, k) /\ s \in Seqs /\ Back(a, s) = k
    BY <2>1, <2>2, Distance
  <2> QED BY <2>2, <2>3
<1>2. ASSUME NEW s \in Seqs, Back(a, s) <= MaxLag PROVE s \in Recent(a)
  <2>1. Back(a, s) \in Seqs /\ Back(a, Back(a, s)) = s
    BY Distance
  <2>2. (a - Back(a, s)) % SeqSize = s
    BY <2>1, Distance
  <2>3. Back(a, s) \in 0 .. MaxLag
    BY <1>2, <2>1, Constants DEF Seqs
  <2> QED BY <2>2, <2>3 DEF Recent
<1> QED BY <1>1, <1>2

(* A frame that may arrive is within the window of an entry if it is not   *)
(* newer than the entry, and beyond it otherwise: never in between.        *)
LEMMA Located ==
  ASSUME NEW q \in Seqs, NEW x \in Seqs, NEW s \in Seqs,
         Back(x, q) <= SeqSize - Window, Back(x, s) <= MaxLag
  PROVE  /\ Back(x, s) >= Back(x, q) =>
              Back(q, s) = Back(x, s) - Back(x, q) /\ Back(q, s) < Window
         /\ Back(x, s) < Back(x, q) =>
              Back(q, s) = SeqSize - (Back(x, q) - Back(x, s)) /\ Back(q, s) >= Window
<1>1. /\ q \in Int /\ x \in Int /\ s \in Int /\ 0 <= q /\ 0 <= x /\ 0 <= s
      /\ q < SeqSize /\ x < SeqSize /\ s < SeqSize
      /\ SeqSize \in Int /\ Window \in Int /\ MaxLag \in Int
      /\ MaxLag < Window /\ SeqSize > 2 * Window
  BY Constants DEF Seqs
<1> QED BY ONLY <1>1, Back(x, q) <= SeqSize - Window, Back(x, s) <= MaxLag DEF Back

LEMMA Distances ==
  ASSUME NEW e \in EntryType, NEW s \in Seqs
  PROVE  /\ Behind(e, s) = Back(e.seq, s) /\ Ahead(e, s) = Back(s, e.seq)
         /\ Behind(e, s) \in Seqs /\ Ahead(e, s) \in Seqs
BY Distance DEF EntryType, Behind, Ahead

(* The sequence number that follows.                                       *)
LEMMA Successor ==
  ASSUME NEW x \in Seqs
  PROVE  LET y == (x + 1) % SeqSize
         IN  /\ y \in Seqs /\ y # x
             /\ \A s \in Seqs : Back(y, s) = IF s = y THEN 0 ELSE Back(x, s) + 1
<1>1. x \in Int /\ 0 <= x /\ x < SeqSize /\ SeqSize \in Nat \ {0} /\ SeqSize > 1
  BY Constants DEF Seqs
<1> DEFINE y == (x + 1) % SeqSize
<1>2. y = IF x + 1 = SeqSize THEN 0 ELSE x + 1
  BY <1>1, Modulo
<1> HIDE DEF y
<1>3. ASSUME NEW s \in Seqs PROVE Back(y, s) = IF s = y THEN 0 ELSE Back(x, s) + 1
  <2>1. s \in Int /\ 0 <= s /\ s < SeqSize
    BY <1>1 DEF Seqs
  <2> QED BY ONLY <1>1, <1>2, <2>1 DEF Back
<1>4. y \in Seqs /\ y # x
  BY <1>1, <1>2 DEF Seqs
<1> QED BY <1>3, <1>4 DEF y

(***************************************************************************)
(* What the three ways to accept a frame and a frame that is sent leave of *)
(* an entry's memory.                                                      *)
(***************************************************************************)
LEMMA LateRemembers ==
  ASSUME NEW e \in EntryType, NEW x \in Seqs, NEW A, NEW s \in Recent(x),
         Follows(e, x), Remembers(e, x, A), Behind(e, s) < Window
  PROVE  LET u == [e EXCEPT !.mask = @ \cup {Behind(e, s)}]
         IN  /\ u \in EntryType /\ u.src = e.src /\ u.ttl = e.ttl
             /\ Follows(u, x) /\ Remembers(u, x, A \cup {s})
<1>1. s \in Seqs /\ Behind(e, s) \in 0 .. Window - 1
  BY RecentIs, Distances, Constants DEF Seqs
<1> DEFINE u == [e EXCEPT !.mask = @ \cup {Behind(e, s)}]
<1>2. /\ u \in EntryType /\ u.src = e.src /\ u.ttl = e.ttl /\ u.seq = e.seq
      /\ u.mask = e.mask \cup {Behind(e, s)}
  BY <1>1 DEF EntryType
<1> HIDE DEF u
<1>3. Follows(u, x)
  BY <1>2 DEF Follows, Ahead
<1>4. ASSUME NEW t \in Recent(x) PROVE t \in A \cup {s} <=> Behind(u, t) \in u.mask
  <2>1. t \in Seqs /\ e.seq \in Seqs
    BY RecentIs DEF EntryType
  <2>2. Behind(u, t) = Behind(e, t) /\ Behind(e, t) = Back(e.seq, t)
        /\ Behind(e, s) = Back(e.seq, s)
    BY <1>1, <1>2, <2>1, Distances DEF Behind
  <2>3. Back(e.seq, t) = Back(e.seq, s) => t = s
    BY <1>1, <2>1, Distance
  <2> QED BY <1>2, <2>2, <2>3 DEF Remembers
<1> QED BY <1>2, <1>3, <1>4 DEF Remembers, u

LEMMA NewerRemembers ==
  ASSUME NEW e \in EntryType, NEW x \in Seqs, NEW A, NEW s \in Recent(x),
         Follows(e, x), Remembers(e, x, A), Behind(e, s) >= Window
  PROVE  LET u == [e EXCEPT !.seq = s, !.ttl = Ttl,
                            !.mask = Shifted(@, Ahead(e, s)) \cup {0}]
         IN  /\ u \in EntryType /\ u.src = e.src /\ u.ttl = Ttl
             /\ Follows(u, x) /\ Remembers(u, x, A \cup {s})
<1> DEFINE u == [e EXCEPT !.seq = s, !.ttl = Ttl, !.mask = Shifted(@, Ahead(e, s)) \cup {0}]
<1>1. s \in Seqs /\ Back(x, s) <= MaxLag /\ e.seq \in Seqs /\ e.mask \subseteq 0 .. Window - 1
  BY RecentIs DEF EntryType
<1>2. /\ u \in EntryType /\ u.src = e.src /\ u.ttl = Ttl /\ u.seq = s
      /\ u.mask = Shifted(e.mask, Ahead(e, s)) \cup {0}
  <2>1. Ttl \in 0 .. Ttl /\ 0 \in 0 .. Window - 1
    BY DuplicateConstantsOK DEF DuplicateConstantsOK
  <2>2. Shifted(e.mask, Ahead(e, s)) \cup {0} \in SUBSET (0 .. Window - 1)
    BY <2>1 DEF Shifted
  <2> QED BY <1>1, <2>1, <2>2 DEF EntryType
<1> HIDE DEF u
<1>3. Ahead(u, x) = Back(x, s) /\ Back(x, s) \in Seqs
  BY <1>1, <1>2, Distance DEF Ahead
<1>4. Follows(u, x)
  BY <1>1, <1>3, Constants DEF Follows, Seqs
<1>5. Back(x, e.seq) <= SeqSize - Window /\ Behind(e, s) = Back(e.seq, s)
      /\ Ahead(e, s) = Back(s, e.seq)
  BY <1>1, Distances DEF Follows
<1>6. Back(x, s) < Back(x, e.seq)
  <2>1. Back(x, s) \in Int /\ Back(x, e.seq) \in Int /\ Back(e.seq, s) \in Int
    <3>1. Back(x, s) \in Seqs /\ Back(x, e.seq) \in Seqs /\ Back(e.seq, s) \in Seqs
      BY <1>1, Distance
    <3>2. Seqs \subseteq Int
      BY Constants DEF Seqs
    <3> QED BY <3>1, <3>2
  <2>2. Back(e.seq, s) >= Window
    BY <1>5
  <2>3. Back(x, s) >= Back(x, e.seq) => Back(e.seq, s) < Window
    BY <1>1, <1>5, Located
  <2>4. Window \in Int
    BY Constants
  <2> QED BY ONLY <2>1, <2>2, <2>3, <2>4
<1>7. Ahead(e, s) = Back(x, e.seq) - Back(x, s)
  <2>1. /\ x \in Int /\ 0 <= x /\ x < SeqSize /\ s \in Int /\ 0 <= s /\ s < SeqSize
        /\ e.seq \in Int /\ 0 <= e.seq /\ e.seq < SeqSize /\ SeqSize \in Int
    BY <1>1, Constants DEF Seqs
  <2> QED BY ONLY <1>5, <1>6, <2>1 DEF Back
<1>8. ASSUME NEW t \in Recent(x) PROVE t \in A \cup {s} <=> Behind(u, t) \in u.mask
  <2>1. t \in Seqs /\ Back(x, t) <= MaxLag
    BY RecentIs
  <2>2. /\ Behind(u, t) = Back(s, t) /\ Behind(e, t) = Back(e.seq, t)
        /\ Back(x, t) \in Int /\ Back(x, s) \in Int /\ Back(x, e.seq) \in Int
        /\ Back(s, t) \in Int /\ Back(e.seq, t) \in Int
    BY <1>1, <1>2, <2>1, Distances, Distance DEF Behind, Seqs
  <2>3. t \in A <=> Back(e.seq, t) \in e.mask
    BY <2>2 DEF Remembers
  <2>4. Back(x, s) <= SeqSize - Window /\ SeqSize \in Int /\ Window \in Int /\ 0 < Window
        /\ SeqSize > 2 * Window /\ MaxLag \in Int /\ MaxLag < Window
    BY <1>1, <2>2, Constants
  <2>5. t = s <=> Back(x, t) = Back(x, s)
    BY <1>1, <2>1, Distance
  <2>6. CASE Back(x, t) < Back(x, s)
    <3>1. Back(s, t) >= Window
      BY <1>1, <2>1, <2>4, <2>6, Located
    <3>2. Back(e.seq, t) >= Window
      <4>1. Back(x, t) < Back(x, e.seq)
        BY <1>6, <2>2, <2>6
      <4> QED BY <1>1, <1>5, <2>1, <4>1, Located
    <3>3. Back(e.seq, t) \notin e.mask
      BY <1>1, <2>2, <2>4, <3>2
    <3>4. Back(s, t) \notin u.mask
      BY <1>2, <2>2, <2>4, <3>1 DEF EntryType
    <3>5. t # s
      BY <2>2, <2>5, <2>6
    <3> QED BY <2>2, <2>3, <3>3, <3>4, <3>5
  <2>7. CASE Back(x, t) >= Back(x, s)
    <3>1. Back(s, t) = Back(x, t) - Back(x, s) /\ Back(s, t) < Window
      BY <1>1, <2>1, <2>4, <2>7, Located
    <3>2. Back(s, t) = 0 <=> t = s
      BY <2>2, <2>5, <3>1
    <3>3. Back(s, t) \in Shifted(e.mask, Ahead(e, s)) <=>
            Back(x, t) - Back(x, e.seq) \in e.mask
      <4>1. Back(s, t) \in 0 .. Window - 1
        BY <2>2, <2>4, <2>7, <3>1
      <4>2. Back(x, t) - Back(x, e.seq) + Ahead(e, s) = Back(s, t)
        BY <1>7, <2>2, <3>1
      <4>3. \A k \in e.mask :
              k + Ahead(e, s) = Back(s, t) => k = Back(x, t) - Back(x, e.seq)
        BY <1>1, <1>7, <2>2, <3>1
      <4> QED BY <4>1, <4>2, <4>3 DEF Shifted
    <3>4. Back(x, t) - Back(x, e.seq) \in e.mask <=> Back(e.seq, t) \in e.mask
      <4>1. CASE Back(x, t) >= Back(x, e.seq)
        BY <1>1, <1>5, <2>1, <4>1, Located
      <4>2. CASE Back(x, t) < Back(x, e.seq)
        <5>1. Back(e.seq, t) >= Window
          BY <1>1, <1>5, <2>1, <4>2, Located
        <5> QED BY <1>1, <2>2, <2>4, <4>2, <5>1
      <4> QED BY <2>2, <4>1, <4>2
    <3> QED BY <1>2, <2>2, <2>3, <3>2, <3>3, <3>4
  <2> QED BY <2>2, <2>6, <2>7
<1> QED BY <1>2, <1>4, <1>8 DEF Remembers, u

LEMMA FirstRemembers ==
  ASSUME NEW n \in Sources, NEW x \in Seqs, NEW s \in Recent(x)
  PROVE  LET u == [src |-> n, seq |-> s, mask |-> {0}, ttl |-> Ttl]
         IN  u \in EntryType /\ Follows(u, x) /\ Remembers(u, x, {s})
<1> DEFINE u == [src |-> n, seq |-> s, mask |-> {0}, ttl |-> Ttl]
<1>1. s \in Seqs /\ Back(x, s) <= MaxLag
  BY RecentIs
<1>2. u \in EntryType /\ u.seq = s /\ u.mask = {0}
  <2>1. Ttl \in 0 .. Ttl /\ {0} \in SUBSET (0 .. Window - 1)
    BY DuplicateConstantsOK DEF DuplicateConstantsOK
  <2> QED BY <1>1, <2>1 DEF EntryType
<1> HIDE DEF u
<1>3. Follows(u, x)
  <2>1. Ahead(u, x) = Back(x, s) /\ Back(x, s) \in Seqs
    BY <1>1, <1>2, Distance DEF Ahead
  <2> QED BY <1>1, <2>1, Constants DEF Follows, Seqs
<1>4. ASSUME NEW t \in Recent(x) PROVE t \in {s} <=> Behind(u, t) \in u.mask
  <2>1. t \in Seqs
    BY RecentIs
  <2>2. Behind(u, t) = Back(s, t)
    BY <1>1, <1>2, <2>1, Distance DEF Behind
  <2>3. t \in Int /\ s \in Int /\ SeqSize \in Int /\ 0 <= t /\ 0 <= s /\ t < SeqSize
        /\ s < SeqSize
    BY <1>1, <2>1, Constants DEF Seqs
  <2>4. Back(s, t) = 0 <=> t = s
    BY ONLY <2>3 DEF Back
  <2> QED BY <1>2, <2>2, <2>4
<1> QED BY <1>2, <1>3, <1>4 DEF Remembers, u

(* A new frame of the source has not been accepted, and the entry does not *)
(* mistake it for an old one.                                              *)
LEMMA SentRemembers ==
  ASSUME NEW e \in EntryType, NEW x \in Seqs, NEW A, A \subseteq Recent(x),
         Remembers(e, x, A), Ahead(e, x) < MaxGap
  PROVE  LET y == (x + 1) % SeqSize
         IN  Follows(e, y) /\ Remembers(e, y, A \cap Recent(y))
<1> DEFINE y == (x + 1) % SeqSize
<1>1. y \in Seqs /\ y # x
      /\ \A s \in Seqs : Back(y, s) = IF s = y THEN 0 ELSE Back(x, s) + 1
  BY Successor
<1> HIDE DEF y
<1>2. e.seq \in Seqs /\ Ahead(e, x) = Back(x, e.seq) /\ Ahead(e, y) = Back(y, e.seq)
      /\ Back(x, e.seq) \in Int
  <2>1. e.seq \in Seqs
    BY DEF EntryType
  <2> QED BY <1>1, <2>1, Distances, Distance DEF Seqs
<1>3. Follows(e, y)
  BY <1>1, <1>2, Constants DEF Follows
<1>4. y \notin A
  <2>1. Back(x, y) = SeqSize - 1
    <3>1. Back(y, x) = Back(x, x) + 1 /\ Back(x, x) = 0
      BY <1>1, Constants DEF Back, Seqs
    <3>2. x \in Int /\ y \in Int /\ SeqSize \in Int /\ 0 <= x /\ 0 <= y /\ x < SeqSize
          /\ y < SeqSize
      BY <1>1, Constants DEF Seqs
    <3> QED BY ONLY <3>1, <3>2 DEF Back
  <2>2. ~ (Back(x, y) <= MaxLag)
    BY <2>1, Constants
  <2> QED BY <2>2, RecentIs
<1>5. ASSUME NEW s \in Recent(y) PROVE s \in A \cap Recent(y) <=> Behind(e, s) \in e.mask
  <2>1. s \in Seqs /\ Back(y, s) <= MaxLag
    BY <1>1, RecentIs
  <2>2. CASE s = y
    <3>1. Back(e.seq, y) \in Int /\ Behind(e, s) = Back(e.seq, y)
      BY <1>1, <1>2, <2>2, Distances, Distance DEF Seqs
    <3>2. y # e.seq => Back(e.seq, y) >= Window
      <4>1. Back(y, e.seq) = Back(x, e.seq) + 1 \/ y = e.seq
        BY <1>1, <1>2
      <4>2. /\ y \in Int /\ e.seq \in Int /\ SeqSize \in Int /\ 0 <= y /\ 0 <= e.seq
            /\ y < SeqSize /\ e.seq < SeqSize /\ Window \in Int /\ MaxGap \in Int
            /\ MaxGap <= SeqSize - Window /\ Back(x, e.seq) < MaxGap
        BY <1>1, <1>2, Constants DEF Seqs
      <4> QED BY ONLY <1>2, <4>1, <4>2 DEF Back
    <3>3. y # e.seq
      <4>1. x \in Int /\ y \in Int /\ SeqSize \in Int /\ 0 <= x /\ 0 <= y /\ x < SeqSize
            /\ y < SeqSize
        BY <1>1, Constants DEF Seqs
      <4>2. Back(y, x) = Back(x, x) + 1 /\ Back(x, x) = 0
        BY <1>1, Constants DEF Back, Seqs
      <4>3. Back(x, y) = SeqSize - 1
        BY ONLY <4>1, <4>2 DEF Back
      <4> QED BY <1>2, <4>3, Constants
    <3>4. e.mask \subseteq 0 .. Window - 1 /\ Window \in Int
      BY Constants DEF EntryType
    <3> QED BY <1>4, <2>2, <3>1, <3>2, <3>3, <3>4
  <2>3. CASE s # y
    <3>1. Back(x, s) \in Int /\ Back(y, s) = Back(x, s) + 1
      BY <1>1, <2>1, <2>3, Distance DEF Seqs
    <3>2. s \in Recent(x)
      BY <2>1, <3>1, RecentIs, Constants
    <3> QED BY <3>2 DEF Remembers
  <2> QED BY <2>2, <2>3
<1> QED BY <1>3, <1>5 DEF Remembers, y
(***************************************************************************)
(* The steps of the filter.                                                *)
(***************************************************************************)
LEMMA Typed ==
  ASSUME FilterTypeOK
  PROVE  /\ rejection \in [Slot -> EntryType]
         /\ \A i \in Slot : rejection[i] \in EntryType /\ rejection[i].src \in Sources
         /\ \A n \in Sources : newest[n] \in Seqs
BY DEF FilterTypeOK, EntryType

LEMMA DInitHolds == FilterInit => DInv
<1> SUFFICES ASSUME FilterInit PROVE DInv
  OBVIOUS
<1>1. PICK n \in Sources :
        rejection = [i \in Slot |-> [src |-> n, seq |-> 0, mask |-> {}, ttl |-> 0]]
  BY DEF FilterInit
<1>2. 0 \in Seqs /\ 0 \in 0 .. Ttl
  BY Constants, DuplicateConstantsOK DEF DuplicateConstantsOK
<1>3. FilterTypeOK
  BY <1>1, <1>2 DEF FilterInit, FilterTypeOK
<1>4. \A i \in Slot : ~ Alive(i)
  BY <1>1 DEF Alive
<1>5. OneEntry /\ Expiring /\ Entered /\ Free = Slot
  BY <1>4 DEF OneEntry, Expiring, Entered, Free
<1>6. Bounded
  BY DEF Bounded, FilterInit
<1> QED BY <1>3, <1>5, <1>6 DEF DInv

(* What has to be seen to when an entry gets a source's frame.             *)
LEMMA Written ==
  ASSUME DInv, NEW i \in Slot, NEW u \in EntryType, NEW n \in Sources, NEW s \in Recent(newest[n]),
         rejection' = [rejection EXCEPT ![i] = u], u.src = n, u.ttl > 0,
         Alive(i) => rejection[i].src = n,
         \A j \in Slot : Holds(j, n) => j = i,
         accepted' = [accepted EXCEPT ![n] = @ \cup {s}], newest' = newest,
         timer' \in BOOLEAN, timer', Follows(u, newest[n]),
         Remembers(u, newest[n], accepted[n] \cup {s})
  PROVE  DInv'
<1>1. /\ rejection \in [Slot -> EntryType] /\ newest \in [Sources -> Seqs]
      /\ accepted \in [Sources -> SUBSET Seqs] /\ s \in Seqs
  BY RecentIs, Typed DEF DInv, FilterTypeOK
<1>2. /\ rejection' \in [Slot -> EntryType] /\ rejection'[i] = u
      /\ \A j \in Slot \ {i} : rejection'[j] = rejection[j]
      /\ accepted' \in [Sources -> SUBSET Seqs] /\ accepted'[n] = accepted[n] \cup {s}
      /\ \A m \in Sources \ {n} : accepted'[m] = accepted[m]
  BY <1>1
<1>3. FilterTypeOK'
  BY <1>1, <1>2 DEF FilterTypeOK, EntryType
<1>4. Alive(i)' /\ \A j \in Slot \ {i} : Alive(j)' <=> Alive(j)
  BY <1>2 DEF Alive
<1>5. \A j \in Slot \ {i} : Alive(j) => rejection[j].src # n
  BY DEF Holds
<1>6. OneEntry'
  BY <1>2, <1>4, <1>5 DEF DInv, OneEntry
<1>7. Entered'
  <2>1. ASSUME NEW j \in Slot, Alive(j)'
        PROVE  LET m == rejection'[j].src
               IN  Follows(rejection'[j], newest[m])
                   /\ Remembers(rejection'[j], newest[m], accepted'[m])
    <3>1. CASE j = i
      BY <1>2, <3>1
    <3>2. CASE j # i
      <4>1. Alive(j) /\ rejection'[j] = rejection[j] /\ rejection[j].src \in Sources \ {n}
        BY <1>2, <1>4, <1>5, <2>1, <3>2, Typed DEF DInv
      <4> QED BY <1>2, <4>1 DEF DInv, Entered
    <3> QED BY <3>1, <3>2
  <2> QED BY <2>1 DEF Entered, Follows, Remembers, Recent, Ahead, Behind
<1>8. Bounded'
  <2>1. Heard(n)' /\ \A m \in Sources \ {n} : Heard(m) => Heard(m)'
    <3>1. Heard(n)'
      BY <1>2, <1>4 DEF Heard, Holds
    <3>2. ASSUME NEW m \in Sources \ {n}, Heard(m) PROVE Heard(m)'
      <4>1. PICK j \in Slot : Holds(j, m)
        BY <3>2 DEF Heard
      <4>2. j # i
        BY <4>1 DEF Holds
      <4> QED BY <1>2, <1>4, <4>1, <4>2 DEF Heard, Holds
    <3> QED BY <3>1, <3>2
  <2> QED BY <1>2, <2>1 DEF DInv, Bounded, Recent
<1> QED BY <1>3, <1>6, <1>7, <1>8 DEF DInv, Expiring

LEMMA ReceiveKeeps ==
  ASSUME DInv, NEW n \in Sources, NEW s \in Recent(newest[n]), Receive(n, s)
  PROVE  DInv'
<1>1. newest[n] \in Seqs /\ \A i \in Slot : rejection[i] \in EntryType
  BY Typed DEF DInv
<1>2. ASSUME NEW i \in Slot, Holds(i, n), AcceptLate(i, s) \/ AcceptNewer(i, s) PROVE DInv'
  <2> DEFINE e == rejection[i]
  <2>1. /\ e \in EntryType /\ Alive(i) /\ e.src = n /\ e.ttl > 0
        /\ Follows(e, newest[n]) /\ Remembers(e, newest[n], accepted[n])
    BY <1>1, <1>2 DEF Holds, DInv, Entered, Alive
  <2>2. timer' \in BOOLEAN /\ timer'
    <3>1. i \notin Free /\ timer' = timer
      BY <1>2, <2>1 DEF Free, AcceptLate, AcceptNewer
    <3> QED BY <3>1, Zenon DEF DInv, Expiring, FilterTypeOK
  <2>3. \A j \in Slot : Holds(j, n) => j = i
    BY <1>2 DEF DInv, OneEntry, Holds
  <2>4. accepted' = [accepted EXCEPT ![n] = @ \cup {s}] /\ newest' = newest
    BY DEF Receive
  <2>5. PICK u \in EntryType : /\ rejection' = [rejection EXCEPT ![i] = u]
                               /\ u.src = n /\ u.ttl > 0 /\ Follows(u, newest[n])
                               /\ Remembers(u, newest[n], accepted[n] \cup {s})
    <3>1. CASE AcceptLate(i, s)
      <4> DEFINE u == [e EXCEPT !.mask = @ \cup {Behind(e, s)}]
      <4>1. rejection' = [rejection EXCEPT ![i] = u] /\ Behind(e, s) < Window
        BY <3>1, <1>1 DEF AcceptLate
      <4> HIDE DEF u
      <4>2. /\ u \in EntryType /\ u.src = n /\ u.ttl > 0
            /\ Follows(u, newest[n]) /\ Remembers(u, newest[n], accepted[n] \cup {s})
        <5> HIDE DEF e
        <5> QED BY <1>1, <2>1, <4>1, LateRemembers DEF u
      <4> QED BY <4>1, <4>2
    <3>2. CASE AcceptNewer(i, s)
      <4> DEFINE u == [e EXCEPT !.seq = s, !.ttl = Ttl,
                                !.mask = Shifted(@, Ahead(e, s)) \cup {0}]
      <4>1. rejection' = [rejection EXCEPT ![i] = u] /\ Behind(e, s) >= Window
        BY <3>2, <1>1 DEF AcceptNewer
      <4>0. Ttl > 0
        BY DuplicateConstantsOK DEF DuplicateConstantsOK
      <4> HIDE DEF u
      <4>2. /\ u \in EntryType /\ u.src = n /\ u.ttl > 0
            /\ Follows(u, newest[n]) /\ Remembers(u, newest[n], accepted[n] \cup {s})
        <5> HIDE DEF e
        <5>1. /\ u \in EntryType /\ u.src = e.src /\ u.ttl = Ttl
              /\ Follows(u, newest[n]) /\ Remembers(u, newest[n], accepted[n] \cup {s})
          BY <1>1, <2>1, <4>1, NewerRemembers, Zenon DEF u
        <5> QED BY <2>1, <4>0, <5>1
      <4> QED BY <4>1, <4>2
    <3> QED BY <1>2, <3>1, <3>2
  <2> QED BY <2>1, <2>2, <2>3, <2>4, <2>5, Written
<1>3. ASSUME NEW i \in Slot, ~ Heard(n), TakesSlot(i), AcceptFirst(i, n, s) PROVE DInv'
  <2> DEFINE u == [src |-> n, seq |-> s, mask |-> {0}, ttl |-> Ttl]
  <2>1. accepted' = [accepted EXCEPT ![n] = @ \cup {s}] /\ newest' = newest
    BY DEF Receive
  <2>2. accepted[n] \cup {s} = {s}
    BY <1>3 DEF DInv, Bounded
  <2>3. /\ rejection' = [rejection EXCEPT ![i] = u] /\ timer' = TRUE
        /\ u.src = n /\ u.ttl > 0
    BY <1>3, DuplicateConstantsOK DEF AcceptFirst, DuplicateConstantsOK
  <2>4. u \in EntryType /\ Follows(u, newest[n]) /\ Remembers(u, newest[n], {s})
    BY <1>1, FirstRemembers
  <2>5. ~ Alive(i) /\ \A j \in Slot : ~ Holds(j, n)
    BY <1>3 DEF TakesSlot, Free, Heard
  <2> HIDE DEF u
  <2> QED BY <2>1, <2>2, <2>3, <2>4, <2>5, Written
<1> QED BY <1>2, <1>3 DEF Receive

(* The handler forgets what it accepted from the sources whose entries run *)
(* out, and changes nothing of the others but their time.                  *)
LEMMA TickKeeps == DInv /\ Tick => DInv'
<1> SUFFICES ASSUME DInv, Tick PROVE DInv'
  OBVIOUS
<1>1. /\ rejection \in [Slot -> EntryType] /\ newest \in [Sources -> Seqs] /\ newest' = newest
      /\ accepted \in [Sources -> SUBSET Seqs]
      /\ rejection' = [i \in Slot |-> Aged(rejection[i])]
  BY Typed DEF DInv, FilterTypeOK, Tick
<1>2. ASSUME NEW e \in EntryType
      PROVE  /\ Aged(e) \in EntryType /\ Aged(e).src = e.src /\ Aged(e).seq = e.seq
             /\ Aged(e).mask = e.mask /\ (Aged(e).ttl > 0 <=> e.ttl > 0 /\ e.ttl # 1)
  <2>1. e.ttl \in Int /\ 0 <= e.ttl /\ e.ttl <= Ttl /\ Ttl \in Int
    BY DuplicateConstantsOK DEF DuplicateConstantsOK, EntryType
  <2>2. CASE e.ttl > 0
    <3>1. Aged(e) = [e EXCEPT !.ttl = e.ttl - 1] /\ e.ttl - 1 \in 0 .. Ttl
      BY <2>1, <2>2 DEF Aged
    <3> QED BY <2>1, <2>2, <3>1 DEF EntryType
  <2>3. CASE ~ (e.ttl > 0)
    BY <2>1, <2>3 DEF Aged
  <2> QED BY <2>2, <2>3
<1>3. \A i \in Slot :
        /\ rejection'[i] \in EntryType /\ rejection'[i].src = rejection[i].src
        /\ rejection'[i].seq = rejection[i].seq /\ rejection'[i].mask = rejection[i].mask
        /\ Alive(i)' <=> Alive(i) /\ rejection[i].ttl # 1
  BY <1>1, <1>2 DEF Alive
<1>4. \A n \in Sources :
        accepted'[n] = IF \E i \in Slot : Holds(i, n) /\ rejection[i].ttl = 1
                       THEN {} ELSE accepted[n]
  BY DEF Tick
<1>5. accepted' \in [Sources -> SUBSET Seqs]
  BY <1>1 DEF Tick
<1>6. FilterTypeOK'
  <2>1. rejection' \in [Slot -> EntryType] /\ timer' \in BOOLEAN
    BY <1>1, <1>2 DEF Tick
  <2> QED BY <1>1, <1>5, <2>1 DEF FilterTypeOK, EntryType
<1>7. OneEntry'
  BY <1>3 DEF DInv, OneEntry
<1>8. Expiring'
  BY <1>3 DEF Expiring, Free, Tick
<1>9. Entered'
  <2>1. ASSUME NEW i \in Slot, Alive(i)'
        PROVE  LET m == rejection'[i].src
               IN  Follows(rejection'[i], newest[m])
                   /\ Remembers(rejection'[i], newest[m], accepted'[m])
    <3> DEFINE m == rejection[i].src
    <3>1. Alive(i) /\ rejection[i].ttl # 1 /\ m \in Sources
      BY <1>3, <2>1, Typed DEF DInv
    <3>2. Follows(rejection[i], newest[m]) /\ Remembers(rejection[i], newest[m], accepted[m])
      BY <3>1 DEF DInv, Entered
    <3>3. \A j \in Slot : Holds(j, m) => j = i
      BY <3>1 DEF DInv, OneEntry, Holds
    <3>4. accepted'[m] = accepted[m]
      BY <1>4, <3>1, <3>3
    <3> QED BY <1>3, <3>2, <3>4 DEF Follows, Remembers, Ahead, Behind
  <2> QED BY <1>1, <2>1 DEF Entered, Follows, Remembers, Recent, Ahead, Behind
<1>10. Bounded'
  <2>1. ASSUME NEW n \in Sources
        PROVE  accepted'[n] \subseteq Recent(newest[n]) /\ (~ Heard(n)' => accepted'[n] = {})
    <3>1. CASE \E i \in Slot : Holds(i, n) /\ rejection[i].ttl = 1
      BY <1>4, <3>1
    <3>2. CASE ~ \E i \in Slot : Holds(i, n) /\ rejection[i].ttl = 1
      <4>1. accepted'[n] = accepted[n]
        BY <1>4, <3>2
      <4>2. Heard(n) => Heard(n)'
        BY <1>3, <3>2 DEF Heard, Holds
      <4> QED BY <4>1, <4>2 DEF DInv, Bounded
    <3> QED BY <3>1, <3>2
  <2> QED BY <1>1, <2>1 DEF Bounded, Recent
<1> QED BY <1>6, <1>7, <1>8, <1>9, <1>10 DEF DInv

LEMMA TransmitKeeps == ASSUME DInv, NEW n \in Sources, Transmit(n) PROVE DInv'
<1> DEFINE y == (newest[n] + 1) % SeqSize
<1>1. /\ rejection \in [Slot -> EntryType] /\ newest \in [Sources -> Seqs]
      /\ accepted \in [Sources -> SUBSET Seqs] /\ newest[n] \in Seqs
      /\ UNCHANGED <<rejection, timer>>
  BY Typed DEF DInv, FilterTypeOK, Transmit
<1>2. newest' = [newest EXCEPT ![n] = y] /\ y \in Seqs
  BY <1>1, Successor DEF Transmit
<1> HIDE DEF y
<1>3. /\ newest' \in [Sources -> Seqs] /\ newest'[n] = y
      /\ \A m \in Sources \ {n} : newest'[m] = newest[m]
  BY <1>1, <1>2
<1>4. /\ accepted' \in [Sources -> SUBSET Seqs] /\ accepted'[n] = accepted[n] \cap Recent(y)
      /\ \A m \in Sources \ {n} : accepted'[m] = accepted[m]
  BY <1>1, <1>3 DEF Transmit
<1>5. FilterTypeOK'
  BY <1>1, <1>3, <1>4 DEF DInv, FilterTypeOK
<1>6. OneEntry'
  BY <1>1 DEF DInv, OneEntry, Alive
<1>7. Expiring'
  BY <1>1, Zenon DEF DInv, Expiring, Free, Alive
<1>8. Entered'
  <2>1. ASSUME NEW i \in Slot, Alive(i)
        PROVE  LET m == rejection[i].src
               IN  Follows(rejection[i], newest'[m])
                   /\ Remembers(rejection[i], newest'[m], accepted'[m])
    <3> DEFINE m == rejection[i].src
    <3>1. m \in Sources /\ rejection[i] \in EntryType
      BY Typed DEF DInv
    <3>2. Follows(rejection[i], newest[m]) /\ Remembers(rejection[i], newest[m], accepted[m])
      BY <2>1 DEF DInv, Entered
    <3>3. CASE m = n
      <4>1. Ahead(rejection[i], newest[n]) < MaxGap /\ accepted[n] \subseteq Recent(newest[n])
        BY <2>1, <3>3 DEF Transmit, Holds, DInv, Bounded
      <4>2. Follows(rejection[i], y) /\ Remembers(rejection[i], y, accepted[n] \cap Recent(y))
        BY <1>1, <3>1, <3>2, <3>3, <4>1, SentRemembers DEF y
      <4> QED BY <1>3, <1>4, <3>3, <4>2
    <3>4. CASE m # n
      BY <1>3, <1>4, <3>1, <3>2, <3>4
    <3> QED BY <3>3, <3>4
  <2> QED BY <1>1, <2>1 DEF Entered, Alive, Follows, Remembers, Recent, Ahead, Behind
<1>9. Bounded'
  <2>1. \A m \in Sources : Heard(m)' <=> Heard(m)
    BY <1>1 DEF Heard, Holds, Alive
  <2>2. ASSUME NEW m \in Sources
        PROVE  accepted'[m] \subseteq Recent(newest'[m]) /\ (~ Heard(m) => accepted'[m] = {})
    BY <1>3, <1>4 DEF DInv, Bounded
  <2> QED BY <2>1, <2>2 DEF Bounded, Recent
<1> QED BY <1>5, <1>6, <1>7, <1>8, <1>9 DEF DInv

LEMMA FilterInvariant == FilterSpec => []DInv
<1>1. DInv /\ [FilterNext]_filter => DInv'
  <2> SUFFICES ASSUME DInv, [FilterNext]_filter PROVE DInv'
    OBVIOUS
  <2>1. CASE UNCHANGED filter
    <3>1. UNCHANGED <<rejection, timer, newest, accepted>>
      BY <2>1 DEF filter
    <3>2. FilterTypeOK' /\ OneEntry' /\ Bounded'
      BY <3>1 DEF DInv, FilterTypeOK, OneEntry, Bounded, Heard, Holds, Alive, Recent
    <3>3. Expiring'
      BY <3>1, Zenon DEF DInv, Expiring, Free, Alive
    <3>4. Entered'
      BY <3>1 DEF DInv, Entered, Alive, Follows, Remembers, Recent, Ahead, Behind
    <3> QED BY <3>2, <3>3, <3>4 DEF DInv
  <2>2. CASE FilterNext
    BY <2>2, ReceiveKeeps, TickKeeps, TransmitKeeps DEF FilterNext
  <2> QED BY <2>1, <2>2
<1> QED BY DInitHolds, <1>1, PTL DEF FilterSpec

-----------------------------------------------------------------------------
(* While an entry is in use, the timer that makes it expire is running.    *)
THEOREM EntriesExpire == FilterSpec => []Expiring
<1>1. DInv => Expiring
  BY DEF DInv
<1> QED BY FilterInvariant, <1>1, PTL

(* A frame that has been accepted is rejected when a copy of it arrives,   *)
(* in whatever order the copies come and across the wrap of the number,    *)
(* for every width of sequence number and window.                          *)
THEOREM CopiesRejected == FilterSpec => []AcceptedOnce
<1>1. DInv => AcceptedOnce
  <2> SUFFICES ASSUME DInv, NEW n \in Sources, NEW s \in accepted[n] \cap Recent(newest[n])
               PROVE  Duplicate(n, s)
    BY DEF AcceptedOnce
  <2>1. PICK i \in Slot : Holds(i, n)
    BY DEF DInv, Bounded, Heard
  <2>2. Remembers(rejection[i], newest[n], accepted[n])
    BY <2>1 DEF DInv, Entered, Holds
  <2> QED BY <2>1, <2>2 DEF Duplicate, Remembers
<1> QED BY FilterInvariant, <1>1, PTL

(* A frame that has not been accepted is rejected only if the table is     *)
(* full of other sources: no entry, however old, and no wrap of the number *)
(* makes the filter take a new frame for a copy.                           *)
THEOREM NewFramesPass == FilterSpec => []FreshAccepted
<1>1. DInv => FreshAccepted
  <2> SUFFICES ASSUME DInv, NEW n \in Sources, NEW s \in Recent(newest[n]), Duplicate(n, s),
                      ~ (~ Heard(n) /\ Free = {})
               PROVE  s \in accepted[n]
    BY DEF FreshAccepted
  <2>1. PICK i \in Slot : Holds(i, n) /\ Behind(rejection[i], s) \in rejection[i].mask
    BY DEF Duplicate
  <2>2. Remembers(rejection[i], newest[n], accepted[n])
    BY <2>1 DEF DInv, Entered, Holds
  <2> QED BY <2>1, <2>2 DEF Remembers
<1> QED BY FilterInvariant, <1>1, PTL

(***************************************************************************)
(* The route table.                                                        *)
(***************************************************************************)
USE RouteConstantsOK

(* The four invariants keep each other: what a step does to an entry       *)
(* depends on whether it is live, which the rank and the score tell.       *)
IInv == TypeOK /\ OneRoute /\ RanksOrdered /\ FailuresCounted

LEMMA IInvInit == Init => IInv
BY DEF Init, IInv, TypeOK, OneRoute, RanksOrdered, FailuresCounted, Index, Entry, Live

(* An entry of the table and the failures counted for it, as IInv has it.  *)
Sound(e, f) ==
  /\ e \in Entry /\ f \in Nat
  /\ e.dst # UNKNOWN => /\ e.rank \in 2 .. MaxRank - 1
                        /\ e.score + f = DefaultScore /\ e.score > 0
  /\ e.dst = UNKNOWN => e.rank <= 1

LEMMA IInvBySlot ==
  IInv <=> /\ table \in [Index -> Entry] /\ lost \in [Index -> Nat]
           /\ \A i \in Index : Sound(table[i], lost[i])
           /\ OneRoute
BY DEF IInv, TypeOK, RanksOrdered, FailuresCounted, Sound, Live

LEMMA IInvBySlotNext ==
  (/\ table' \in [Index -> Entry] /\ lost' \in [Index -> Nat]
   /\ \A i \in Index : Sound(table'[i], lost'[i])
   /\ OneRoute') => IInv'
BY DEF IInv, TypeOK, RanksOrdered, FailuresCounted, Sound, Live

(* A step that puts e at i keeps the invariant if e is sound and no other  *)
(* entry is for its destination.                                           *)
LEMMA OneSlot ==
  ASSUME IInv, NEW i \in Index, NEW e, NEW f, Sound(e, f),
         table' = [table EXCEPT ![i] = e], lost' = [lost EXCEPT ![i] = f],
         e.dst # UNKNOWN => \A j \in Index \ {i} : table[j].dst # e.dst
  PROVE  IInv'
<1>1. table' \in [Index -> Entry] /\ lost' \in [Index -> Nat]
  BY IInvBySlot DEF Sound
<1>2. \A j \in Index : Sound(table'[j], lost'[j])
  BY IInvBySlot
<1>3. OneRoute'
  BY IInvBySlot DEF OneRoute, Live
<1> QED BY <1>1, <1>2, <1>3, IInvBySlotNext

(* What the updates of the code leave of an entry.                         *)
LEMMA FreedEntry ==
  ASSUME NEW e \in Entry
  PROVE  /\ Freed(e) \in Entry /\ Freed(e).dst = UNKNOWN /\ Freed(e).rank = 0
         /\ Sound(Freed(e), 0)
<1>1. Freed(e) \in Entry /\ Freed(e).dst = UNKNOWN /\ Freed(e).rank = 0
  BY DEF Freed, Entry
<1> QED BY <1>1 DEF Sound

LEMMA ScoredEntry ==
  ASSUME NEW e \in Entry, NEW s \in Nat
  PROVE  /\ [e EXCEPT !.score = s] \in Entry /\ [e EXCEPT !.score = s].score = s
         /\ [e EXCEPT !.score = s].dst = e.dst /\ [e EXCEPT !.score = s].rank = e.rank
BY DEF Entry

LEMMA HeardEntry ==
  ASSUME NEW e \in Entry, NEW mac \in Node, NEW lqi \in 0 .. MaxLqi, NEW s \in Nat
  PROVE  /\ [e EXCEPT !.lqi = lqi] \in Entry
         /\ [e EXCEPT !.hop = mac, !.score = s, !.lqi = lqi] \in Entry
BY DEF Entry

LEMMA WorkedEntry ==
  ASSUME NEW e \in Entry, NEW s \in Nat, NEW r \in Nat
  PROVE  [e EXCEPT !.score = s, !.rank = r] \in Entry
BY DEF Entry

LEMMA LiveSound ==
  ASSUME NEW e \in Entry, NEW f \in Nat, e.dst # UNKNOWN, e.rank \in 2 .. MaxRank - 1,
         e.score + f = DefaultScore, e.score > 0
  PROVE  Sound(e, f)
BY DEF Sound

(* A failure takes one from the score, or frees the entry.                 *)
LEMMA WeakenedEntry ==
  ASSUME NEW e \in Entry, NEW f \in Nat, Sound(e, f), e.dst # UNKNOWN
  PROVE  /\ Sound(Weakened(e), IF e.score = 1 THEN 0 ELSE f + 1)
         /\ Weakened(e).dst \in {e.dst, UNKNOWN}
<1>1. CASE e.score = 1
  <2>1. Weakened(e) = [Freed(e) EXCEPT !.score = 0]
    BY <1>1 DEF Weakened
  <2>2. /\ Weakened(e) \in Entry /\ Weakened(e).dst = UNKNOWN
        /\ Weakened(e).rank = 0
    BY <2>1, FreedEntry DEF Entry
  <2> QED BY <1>1, <2>2 DEF Sound
<1>2. CASE e.score # 1
  <2>1. /\ e.score \in Nat /\ e.score - 1 \in Nat /\ e.score - 1 > 0
        /\ (e.score - 1) + (f + 1) = DefaultScore
    BY <1>2 DEF Sound, Entry
  <2>2. Weakened(e) = [e EXCEPT !.score = e.score - 1]
    BY <1>2 DEF Weakened
  <2>3. /\ Weakened(e) \in Entry /\ Weakened(e).score = e.score - 1
        /\ Weakened(e).dst = e.dst /\ Weakened(e).rank = e.rank
    BY <2>1, <2>2, ScoredEntry
  <2>4. e.rank \in 2 .. MaxRank - 1 /\ f + 1 \in Nat
    BY DEF Sound
  <2>5. Sound(Weakened(e), f + 1)
    <3>1. /\ Weakened(e) \in Entry /\ Weakened(e).dst # UNKNOWN
          /\ Weakened(e).rank \in 2 .. MaxRank - 1
      BY <2>3, <2>4
    <3>2. Weakened(e).score > 0 /\ Weakened(e).score + (f + 1) = DefaultScore
      BY <2>1, <2>3
    <3> QED BY <3>1, <3>2, <2>4, LiveSound
  <2> QED BY <1>2, <2>3, <2>5
<1> QED BY <1>1, <1>2

LEMMA FrameReceivedKeeps ==
  ASSUME IInv, NEW src \in Node, NEW mac \in Node, NEW lqi \in 0 .. MaxLqi,
         NEW sought \in BOOLEAN, FrameReceived(src, mac, lqi, sought)
  PROVE  IInv'
<1>0. src # UNKNOWN
  OBVIOUS
<1>1. ASSUME NEW i \in Index, Finds(i, src),
             table' = [table EXCEPT ![i] =
               IF Better(@, mac, lqi, sought)
               THEN [@ EXCEPT !.hop = mac, !.score = DefaultScore, !.lqi = lqi]
               ELSE [@ EXCEPT !.lqi = lqi]],
             lost' = [lost EXCEPT ![i] = IF Better(table[i], mac, lqi, sought) THEN 0 ELSE @]
      PROVE  IInv'
  <2> DEFINE e == IF Better(table[i], mac, lqi, sought)
                  THEN [table[i] EXCEPT !.hop = mac, !.score = DefaultScore, !.lqi = lqi]
                  ELSE [table[i] EXCEPT !.lqi = lqi]
             f == IF Better(table[i], mac, lqi, sought) THEN 0 ELSE lost[i]
  <2>1. table' = [table EXCEPT ![i] = e] /\ lost' = [lost EXCEPT ![i] = f]
    BY <1>1
  <2>2. table[i] \in Entry /\ Sound(table[i], lost[i]) /\ table[i].dst = src
    BY <1>1, IInvBySlot DEF Finds
  <2>3. e \in Entry /\ f \in Nat
    BY <2>2, HeardEntry DEF Sound
  <2>5. /\ e.dst = src /\ e.rank = table[i].rank
        /\ e.score + f = DefaultScore /\ e.score > 0
    BY <2>2, <1>0 DEF Sound, Entry
  <2>6. Sound(e, f)
    BY <2>2, <2>3, <2>5, <1>0 DEF Sound
  <2>4. \A j \in Index \ {i} : table[j].dst # src
    BY <2>2, <1>0, IInvBySlot DEF OneRoute, Live
  <2> HIDE DEF e, f
  <2> QED BY <2>1, <2>4, <2>5, <2>6, OneSlot
<1>2. ASSUME NEW i \in Index, ~ Known(src),
             table' = [table EXCEPT ![i] =
               [dst |-> src, hop |-> mac, score |-> DefaultScore,
                rank |-> DefaultRank, lqi |-> lqi]],
             lost' = [lost EXCEPT ![i] = 0]
      PROVE  IInv'
  <2> DEFINE e == [dst |-> src, hop |-> mac, score |-> DefaultScore,
                   rank |-> DefaultRank, lqi |-> lqi]
  <2>1. Sound(e, 0) /\ e.dst = src
    BY DEF Sound, Entry
  <2>2. \A j \in Index \ {i} : table[j].dst # src
    BY <1>2 DEF Known
  <2>3. table' = [table EXCEPT ![i] = e] /\ lost' = [lost EXCEPT ![i] = 0]
    BY <1>2
  <2> HIDE DEF e
  <2> QED BY <2>1, <2>2, <2>3, OneSlot
<1> QED BY <1>1, <1>2 DEF FrameReceived

(* Halving the ranks keeps those of live entries above those of free ones. *)
LEMMA NormalizedRanks ==
  ASSUME NEW r \in Nat
  PROVE  /\ Normalized(r) \in Nat
         /\ r \in 2 .. MaxRank => Normalized(r) \in 2 .. MaxRank - 1
         /\ r <= 1 => Normalized(r) <= 1
BY DEF Normalized

LEMMA SentKeeps ==
  ASSUME IInv, NEW dst \in Node, Sent(dst)
  PROVE  IInv'
<1>1. PICK i \in Index :
        /\ Finds(i, dst)
        /\ LET worked == [table EXCEPT ![i].score = DefaultScore, ![i].rank = @ + 1] IN
             table' = IF worked[i].rank = MaxRank
                      THEN [j \in Index |-> [worked[j] EXCEPT !.rank = Normalized(@)]]
                      ELSE worked
        /\ lost' = [lost EXCEPT ![i] = 0]
  BY DEF Sent
<1> DEFINE worked == [table EXCEPT ![i].score = DefaultScore, ![i].rank = @ + 1]
<1>2. /\ table \in [Index -> Entry] /\ lost \in [Index -> Nat]
      /\ \A j \in Index : Sound(table[j], lost[j])
      /\ table[i].dst # UNKNOWN /\ table[i].rank \in 2 .. MaxRank - 1
  BY <1>1, IInvBySlot DEF Sound, Finds
<1>3. /\ worked[i] \in Entry /\ worked[i].dst = table[i].dst
      /\ worked[i].score = DefaultScore /\ worked[i].rank \in 3 .. MaxRank
      /\ \A j \in Index \ {i} : worked[j] = table[j]
  <2>1. table[i] \in Entry /\ table[i].rank + 1 \in 3 .. MaxRank
    BY <1>2
  <2>2. worked[i] = [table[i] EXCEPT !.score = DefaultScore, !.rank = table[i].rank + 1]
    BY <1>2
  <2>3. /\ worked[i].dst = table[i].dst /\ worked[i].score = DefaultScore
        /\ worked[i].rank = table[i].rank + 1
    BY <2>1, <2>2 DEF Entry
  <2>4. worked[i] \in Entry
    <3>1. table[i].rank + 1 \in Nat /\ DefaultScore \in Nat
      BY <2>1
    <3>2. [table[i] EXCEPT !.score = DefaultScore, !.rank = table[i].rank + 1] \in Entry
      BY <2>1, <3>1, WorkedEntry, Zenon
    <3> HIDE DEF worked
    <3> QED BY <2>2, <3>2
  <2> QED BY <2>1, <2>3, <2>4, <1>2
<1>4. worked \in [Index -> Entry]
  BY <1>2, <1>3
<1>5. \A j \in Index : worked[j].dst = table[j].dst
  BY <1>3
<1>6. \A j \in Index : lost'[j] = IF j = i THEN 0 ELSE lost[j]
  BY <1>1, <1>2
<1>7. CASE worked[i].rank = MaxRank
  <2>1. table' = [j \in Index |-> [worked[j] EXCEPT !.rank = Normalized(@)]]
    BY <1>1, <1>7
  <2> HIDE DEF worked
  <2>2. \A j \in Index : table'[j].dst = table[j].dst
    BY <2>1, <1>4, <1>5 DEF Entry
  <2>3. ASSUME NEW j \in Index PROVE Sound(table'[j], lost'[j])
    <3>1. worked[j] \in Entry /\ worked[j].rank \in Nat
      BY <1>4 DEF Entry
    <3>2. table'[j] = [worked[j] EXCEPT !.rank = Normalized(worked[j].rank)]
      BY <2>1
    <3>3. /\ table'[j] \in Entry /\ table'[j].score = worked[j].score
          /\ table'[j].dst = worked[j].dst
          /\ table'[j].rank = Normalized(worked[j].rank)
      BY <3>1, <3>2, NormalizedRanks DEF Entry
    <3>4. CASE j = i
      <4>1. /\ Normalized(worked[j].rank) \in 2 .. MaxRank - 1
            /\ lost'[j] = 0 /\ worked[j].score = DefaultScore
            /\ table'[j].dst # UNKNOWN
        BY <3>1, <3>3, <3>4, <1>2, <1>3, <1>6, NormalizedRanks
      <4> QED BY <3>3, <4>1 DEF Sound
    <3>5. CASE j # i
      BY <3>1, <3>3, <3>5, <1>2, <1>3, <1>6, NormalizedRanks DEF Sound
    <3> QED BY <3>4, <3>5
  <2>4. OneRoute'
    BY <2>2, IInvBySlot DEF OneRoute, Live
  <2>5. table' \in [Index -> Entry] /\ lost' \in [Index -> Nat]
    BY <2>1, <2>3, <1>1, <1>2 DEF Sound
  <2> QED BY <2>3, <2>4, <2>5, IInvBySlotNext
<1>8. CASE worked[i].rank # MaxRank
  <2>1. table' = worked
    BY <1>1, <1>8
  <2>2. \A j \in Index : Sound(table'[j], lost'[j])
    BY <2>1, <1>2, <1>3, <1>6, <1>8 DEF Sound
  <2>3. OneRoute'
    BY <2>1, <1>5, IInvBySlot DEF OneRoute, Live
  <2>4. table' \in [Index -> Entry] /\ lost' \in [Index -> Nat]
    BY <2>1, <1>4, <1>1, <1>2
  <2> QED BY <2>2, <2>3, <2>4, IInvBySlotNext
<1> QED BY <1>7, <1>8

LEMMA FailedKeeps ==
  ASSUME IInv, NEW dst \in Node, Failed(dst)
  PROVE  IInv'
<1>1. PICK i \in Index :
        /\ Finds(i, dst)
        /\ table' = [table EXCEPT ![i] = Weakened(@)]
        /\ lost' = [lost EXCEPT ![i] = IF table[i].score = 1 THEN 0 ELSE @ + 1]
  BY DEF Failed
<1>2. /\ table[i] \in Entry /\ lost[i] \in Nat /\ Sound(table[i], lost[i])
      /\ table[i].dst = dst /\ dst # UNKNOWN
  BY <1>1, IInvBySlot DEF Finds
<1> DEFINE f == IF table[i].score = 1 THEN 0 ELSE lost[i] + 1
<1>3. Sound(Weakened(table[i]), f) /\ Weakened(table[i]).dst \in {dst, UNKNOWN}
  BY <1>2, WeakenedEntry
<1>4. \A j \in Index \ {i} : table[j].dst # dst
  BY <1>2, IInvBySlot DEF OneRoute, Live
<1>5. table' = [table EXCEPT ![i] = Weakened(table[i])] /\ lost' = [lost EXCEPT ![i] = f]
  BY <1>1
<1> HIDE DEF f
<1> QED BY <1>3, <1>4, <1>5, OneSlot

LEMMA RemoveKeeps ==
  ASSUME IInv, NEW dst \in Node, Remove(dst)
  PROVE  IInv'
<1>1. PICK i \in Index :
        /\ table' = [table EXCEPT ![i] = Freed(@)]
        /\ lost' = [lost EXCEPT ![i] = 0]
  BY DEF Remove
<1>2. Sound(Freed(table[i]), 0) /\ Freed(table[i]).dst = UNKNOWN
  BY IInvBySlot, FreedEntry
<1> QED BY <1>1, <1>2, OneSlot

LEMMA IInvNext == IInv /\ [Next]_vars => IInv'
<1> SUFFICES ASSUME IInv, [Next]_vars PROVE IInv'
  OBVIOUS
<1>1. CASE UNCHANGED vars
  BY <1>1 DEF vars, IInv, TypeOK, OneRoute, RanksOrdered, FailuresCounted, Live
<1> QED BY <1>1, FrameReceivedKeeps, SentKeeps, FailedKeeps, RemoveKeeps DEF Next

LEMMA RouteInvariant == Spec => []IInv
BY IInvInit, IInvNext, PTL DEF Spec

(* Type correctness of the route table (TypeOK).                           *)
THEOREM RouteTypeCorrect == Spec => []TypeOK
BY RouteInvariant, PTL DEF IInv

(* No destination ever has two routes (OneRoute): nwkRouteFrameReceived    *)
(* makes an entry only for a source it has not found.                      *)
THEOREM RoutesUnique == Spec => []OneRoute
BY RouteInvariant, PTL DEF IInv

(* The ranks of routes in use stay above those of free entries and below   *)
(* the maximum, however often nwkRouteFrameSent raises one and             *)
(* nwkRouteNormalizeRanks halves them all (RanksOrdered).                  *)
THEOREM RanksStayOrdered == Spec => []RanksOrdered
BY RouteInvariant, PTL DEF IInv

(* The score of a route in use is what its failures in a row have left of  *)
(* NWK_ROUTE_DEFAULT_SCORE, and never passes zero (FailuresCounted).       *)
THEOREM FailuresStayCounted == Spec => []FailuresCounted
BY RouteInvariant, PTL DEF IInv

(***************************************************************************)
(* The table is a route map.                                               *)
(***************************************************************************)
LiveIn(t) == {i \in Index : t[i].dst # UNKNOWN}
Dests(t) == {t[i].dst : i \in LiveIn(t)}
OneIn(t) == \A i, j \in LiveIn(t) : t[i].dst = t[j].dst => i = j
FirstIn(t, i, d) == t[i].dst = d /\ \A j \in 0 .. i - 1 : t[j].dst # d
MapOf(t) == [d \in Dests(t) |->
               LET i == CHOOSE j \in LiveIn(t) : FirstIn(t, j, d) IN t[i].hop]

LEMMA MapsAre ==
  /\ Routes = MapOf(table) /\ Routes' = MapOf(table')
  /\ Live = LiveIn(table) /\ (OneRoute <=> OneIn(table)) /\ (OneRoute' <=> OneIn(table'))
BY Zenon DEF Routes, MapOf, Dests, Live, LiveIn, OneRoute, OneIn, Finds, FirstIn

(* What the search finds for a destination is its entry.                   *)
LEMMA MapFinds ==
  ASSUME NEW t, OneIn(t), NEW i \in LiveIn(t)
  PROVE  t[i].dst \in Dests(t) /\ MapOf(t)[t[i].dst] = t[i].hop
<1> DEFINE d == t[i].dst
           k == CHOOSE j \in LiveIn(t) : FirstIn(t, j, d)
<1>1. d \in Dests(t)
  BY DEF Dests
<1>2. FirstIn(t, i, d)
  BY DEF FirstIn, OneIn, LiveIn, Index
<1>3. k \in LiveIn(t) /\ FirstIn(t, k, d)
  BY <1>2, Zenon
<1>4. k = i
  BY <1>3 DEF FirstIn, OneIn
<1>5. MapOf(t)[d] = t[k].hop
  BY <1>1 DEF MapOf
<1> QED BY <1>1, <1>4, <1>5

LEMMA MapIs ==
  ASSUME NEW t, OneIn(t), NEW m, m = [d \in Dests(t) |-> m[d]],
         \A i \in LiveIn(t) : m[t[i].dst] = t[i].hop
  PROVE  MapOf(t) = m
<1> DEFINE Hop(d) == LET i == CHOOSE j \in LiveIn(t) : FirstIn(t, j, d) IN t[i].hop
<1>1. MapOf(t) = [d \in Dests(t) |-> Hop(d)]
  BY Zenon DEF MapOf
<1>2. ASSUME NEW d \in Dests(t) PROVE Hop(d) = m[d]
  <2>1. PICK i \in LiveIn(t) : t[i].dst = d
    BY DEF Dests
  <2>2. MapOf(t)[d] = m[d]
    BY <2>1, MapFinds
  <2> HIDE DEF Hop
  <2> QED BY <1>1, <2>2
<1> HIDE DEF Hop
<1> QED BY <1>1, <1>2

(* As many destinations as entries in use.                                 *)
LEMMA DestsCount ==
  ASSUME NEW t, OneIn(t)
  PROVE  /\ LiveIn(t) = Index => Cardinality(Dests(t)) = Size
         /\ LiveIn(t) # Index => Cardinality(Dests(t)) < Size
<1> DEFINE f == [i \in LiveIn(t) |-> t[i].dst]
<1>1. IsFiniteSet(Index) /\ Cardinality(Index) = Size
  BY FS_Interval DEF Index
<1>2. LiveIn(t) \in SUBSET Index
  BY DEF LiveIn
<1>3. IsFiniteSet(LiveIn(t)) /\ Cardinality(LiveIn(t)) <= Size
      /\ (Cardinality(LiveIn(t)) = Size => LiveIn(t) = Index)
  BY <1>1, <1>2, FS_Subset
<1>4. f \in Surjection(LiveIn(t), Dests(t)) /\ f \in Injection(LiveIn(t), Dests(t))
  BY DEF Surjection, Injection, IsInjective, Dests, OneIn
<1>5. Cardinality(Dests(t)) = Cardinality(LiveIn(t))
  BY <1>3, <1>4, FS_Surjection
<1>6. Cardinality(LiveIn(t)) \in Nat
  BY <1>3, FS_CardinalityType
<1> QED BY <1>1, <1>3, <1>5, <1>6

(* An entry that is freed is a route that is forgotten.                    *)
LEMMA FreedForgets ==
  ASSUME NEW t, NEW u, OneIn(t), OneIn(u), NEW i \in LiveIn(t),
         u[i].dst = UNKNOWN, \A j \in Index \ {i} : u[j] = t[j]
  PROVE  MapOf(u) = Map!Without(MapOf(t), t[i].dst)
<1> DEFINE m == Map!Without(MapOf(t), t[i].dst)
<1>1. LiveIn(u) = LiveIn(t) \ {i}
  BY DEF LiveIn
<1>2. Dests(u) = Dests(t) \ {t[i].dst}
  BY <1>1 DEF Dests, OneIn, LiveIn
<1>3. m = [x \in Dests(u) |-> MapOf(t)[x]]
  BY <1>2 DEF MapOf, Map!Without
<1>4. \A j \in LiveIn(u) : m[u[j].dst] = u[j].hop
  BY <1>1, <1>2, <1>3, MapFinds DEF Dests, LiveIn
<1> HIDE DEF m
<1>5. m = [x \in Dests(u) |-> m[x]]
  BY <1>3
<1>6. MapOf(u) = m
  BY <1>4, <1>5, MapIs
<1> QED BY <1>6 DEF m

(* An entry that is written is a route that is changed or added, in the    *)
(* place of the one the entry held.                                        *)
LEMMA WrittenAdds ==
  ASSUME NEW t, NEW u, OneIn(t), OneIn(u), NEW i \in Index,
         u[i].dst # UNKNOWN, \A j \in Index \ {i} : u[j] = t[j], NEW base,
         \/ i \in LiveIn(t) /\ base = Map!Without(MapOf(t), t[i].dst)
         \/ i \notin LiveIn(t) /\ base = MapOf(t)
  PROVE  MapOf(u) = Map!With(base, u[i].dst, u[i].hop)
<1> DEFINE m == Map!With(base, u[i].dst, u[i].hop)
<1>1. LiveIn(u) = LiveIn(t) \cup {i}
  BY DEF LiveIn
<1>2. DOMAIN base = {t[j].dst : j \in LiveIn(t) \ {i}}
      /\ \A j \in LiveIn(t) \ {i} : base[t[j].dst] = t[j].hop
  <2>1. DOMAIN MapOf(t) = Dests(t)
    BY DEF MapOf
  <2>2. CASE i \notin LiveIn(t)
    BY <2>1, <2>2, MapFinds DEF Dests
  <2>3. CASE i \in LiveIn(t)
    <3>1. base = [x \in Dests(t) \ {t[i].dst} |-> MapOf(t)[x]]
      BY <2>1, <2>3 DEF Map!Without
    <3>2. Dests(t) \ {t[i].dst} = {t[j].dst : j \in LiveIn(t) \ {i}}
      BY <2>3 DEF Dests, OneIn
    <3> QED BY <3>1, <3>2, MapFinds DEF Dests
  <2> QED BY <2>2, <2>3
<1>3. m = [x \in DOMAIN base \cup {u[i].dst} |-> IF x = u[i].dst THEN u[i].hop ELSE base[x]]
  BY DEF Map!With
<1>4. Dests(u) = DOMAIN base \cup {u[i].dst}
  BY <1>1, <1>2 DEF Dests, LiveIn
<1> HIDE DEF m
<1>5. \A j \in LiveIn(u) : m[u[j].dst] = u[j].hop
  <2> TAKE j \in LiveIn(u)
  <2>1. CASE j = i
    BY <1>3, <2>1
  <2>2. CASE j # i
    <3>1. j \in LiveIn(t) \ {i} /\ u[j] = t[j] /\ u[j].dst # u[i].dst
      BY <1>1, <2>2 DEF LiveIn, OneIn
    <3> QED BY <1>2, <1>3, <3>1
  <2> QED BY <2>1, <2>2
<1>6. m = [x \in Dests(u) |-> m[x]]
  BY <1>3, <1>4
<1>7. MapOf(u) = m
  BY <1>5, <1>6, MapIs
<1> QED BY <1>7 DEF m

LEMMA WrittenFresh ==
  ASSUME NEW t, NEW u, OneIn(t), OneIn(u), NEW i \in Index \ LiveIn(t),
         u[i].dst # UNKNOWN, \A j \in Index \ {i} : u[j] = t[j]
  PROVE  MapOf(u) = Map!With(MapOf(t), u[i].dst, u[i].hop)
<1>1. PICK base : base = MapOf(t)
  OBVIOUS
<1> QED BY <1>1, WrittenAdds

LEMMA WrittenOver ==
  ASSUME NEW t, NEW u, OneIn(t), OneIn(u), NEW i \in LiveIn(t),
         u[i].dst # UNKNOWN, \A j \in Index \ {i} : u[j] = t[j]
  PROVE  MapOf(u) = Map!With(Map!Without(MapOf(t), t[i].dst), u[i].dst, u[i].hop)
<1>1. PICK base : base = Map!Without(MapOf(t), t[i].dst)
  OBVIOUS
<1>2. i \in Index
  BY DEF LiveIn
<1> QED BY <1>1, <1>2, WrittenAdds

LEMMA SameCardinality == \A S : Map!Cardinality(S) = Cardinality(S)
BY Zenon DEF Map!Cardinality, Cardinality

(* A step that writes one entry: it frees or rewrites one in use, or takes *)
(* one that is free, or any when none is.                                  *)
LEMMA EntrySteps ==
  ASSUME IInv, OneRoute', NEW i \in Index, NEW e, table' = [table EXCEPT ![i] = e],
         \/ e.dst = UNKNOWN /\ i \in Live
         \/ /\ e.dst \in Node /\ e.hop \in Node
            /\ i \in Live => Live = Index \/ e.dst = table[i].dst
  PROVE  Map!Next
<1> DEFINE R == MapOf(table)
           RR == MapOf(table')
<1>0. /\ OneIn(table) /\ OneIn(table') /\ Live = LiveIn(table) /\ Routes = R /\ Routes' = RR
      /\ UNKNOWN \notin Node
  BY MapsAre DEF IInv
<1>1. /\ \A j \in LiveIn(table) : table[j].dst \in Node
      /\ table'[i] = e /\ \A j \in Index \ {i} : table'[j] = table[j]
  BY DEF IInv, TypeOK, Entry, LiveIn
<1>u. PICK u : u = table'
  OBVIOUS
<1>w. /\ OneIn(u) /\ u[i] = e /\ \A j \in Index \ {i} : u[j] = table[j]
      /\ RR = MapOf(u)
  BY <1>0, <1>1, <1>u
<1>2. DOMAIN R = Dests(table)
  BY DEF MapOf
<1>3. CASE e.dst = UNKNOWN
  <2>1. RR = Map!Without(R, table[i].dst) /\ table[i].dst \in DOMAIN R
    BY <1>0, <1>1, <1>2, <1>3, FreedForgets, MapFinds
  <2> HIDE DEF R, RR
  <2>2. Map!Forget(table[i].dst)
    BY <1>0, <2>1 DEF Map!Forget
  <2> QED BY <1>0, <1>1, <1>3, <2>2 DEF Map!Next
<1>4. CASE e.dst \in Node /\ i \in Live /\ e.dst = table[i].dst
  <2>1. e.dst \in DOMAIN R
    BY <1>0, <1>2, <1>4, MapFinds
  <2>2. RR = Map!With(Map!Without(R, e.dst), e.dst, e.hop)
    BY <1>0, <1>w, <1>4, WrittenOver
  <2> HIDE DEF R, RR
  <2>3. Map!With(Map!Without(R, e.dst), e.dst, e.hop) = Map!With(R, e.dst, e.hop)
    BY <2>1 DEF Map!With, Map!Without
  <2>4. Map!Change(e.dst, e.hop)
    BY <1>0, <2>1, <2>2, <2>3 DEF Map!Change
  <2> QED BY <1>3, <1>4, <2>4 DEF Map!Next
<1>5. ASSUME e.dst \in Node, ~ (i \in Live /\ e.dst = table[i].dst)
      PROVE  e.dst \notin DOMAIN R
  <2>1. \A j \in LiveIn(table) : table[j].dst # e.dst
    BY <1>0, <1>1, <1>5 DEF LiveIn, OneIn
  <2> QED BY <1>2, <2>1 DEF Dests
<1>6. CASE e.dst \in Node /\ i \notin Live
  <2>1. e.dst \notin DOMAIN R /\ Cardinality(DOMAIN R) < Size
    BY <1>0, <1>2, <1>5, <1>6, DestsCount
  <2>2. RR = Map!With(R, e.dst, e.hop)
    BY <1>0, <1>w, <1>6, WrittenFresh
  <2> HIDE DEF R, RR
  <2>3. Map!Add(e.dst, e.hop)
    BY <1>0, <2>1, <2>2, SameCardinality DEF Map!Add
  <2> QED BY <1>0, <1>6, <2>3 DEF Map!Next
<1>7. CASE e.dst \in Node /\ i \in Live /\ e.dst # table[i].dst
  <2>1. e.dst \notin DOMAIN R /\ Cardinality(DOMAIN R) = Size
    BY <1>0, <1>2, <1>5, <1>7, DestsCount
  <2>2. table[i].dst \in DOMAIN R
    BY <1>0, <1>2, <1>7, MapFinds
  <2>3. RR = Map!With(Map!Without(R, table[i].dst), e.dst, e.hop)
    BY <1>0, <1>w, <1>7, WrittenOver
  <2> HIDE DEF R, RR
  <2>4. Map!Replace(e.dst, e.hop)
    BY <1>0, <2>1, <2>2, <2>3, SameCardinality DEF Map!Replace
  <2> QED BY <1>0, <1>7, <2>4 DEF Map!Next
<1> QED BY <1>0, <1>3, <1>4, <1>6, <1>7

(* A new entry takes one in use only when there is no free one.            *)
LEMMA TakesFree ==
  ASSUME IInv, NEW i \in Index, Takes(i)
  PROVE  i \in Live => Live = Index
<1>1. \A j \in Index : table[j].rank \in Nat
  BY DEF IInv, TypeOK, Entry
<1>2. \A j \in Index : (j \in Live => table[j].rank >= 2) /\ (j \notin Live => table[j].rank <= 1)
  BY DEF IInv, RanksOrdered
<1>3. CASE \E j \in Index : table[j].rank = 0
  BY <1>2, <1>3 DEF Takes
<1>4. CASE ~ \E j \in Index : table[j].rank = 0
  <2>1. \A j \in Index : table[i].rank <= table[j].rank
    BY <1>4 DEF Takes
  <2>2. i \in Live => \A j \in Index : j \in Live
    BY <1>1, <1>2, <2>1
  <2> QED BY <2>2 DEF Live
<1> QED BY <1>3, <1>4

LEMMA ReceivedMaps ==
  ASSUME IInv, OneRoute', NEW src \in Node, NEW mac \in Node, NEW lqi \in 0 .. MaxLqi,
         NEW sought \in BOOLEAN, FrameReceived(src, mac, lqi, sought)
  PROVE  Map!Next
<1>0. UNKNOWN \notin Node /\ \A i \in Index : table[i] \in Entry
  BY DEF IInv, TypeOK
<1>1. ASSUME NEW i \in Index, Finds(i, src),
             table' = [table EXCEPT ![i] =
               IF Better(@, mac, lqi, sought)
               THEN [@ EXCEPT !.hop = mac, !.score = DefaultScore, !.lqi = lqi]
               ELSE [@ EXCEPT !.lqi = lqi]]
      PROVE  Map!Next
  <2> DEFINE e == IF Better(table[i], mac, lqi, sought)
                  THEN [table[i] EXCEPT !.hop = mac, !.score = DefaultScore, !.lqi = lqi]
                  ELSE [table[i] EXCEPT !.lqi = lqi]
  <2>1. table[i].dst = src /\ i \in Live /\ table[i] \in Entry
    BY <1>0, <1>1 DEF Finds, Live
  <2>2. e.dst = src /\ e.hop \in Node
    BY <2>1 DEF Entry
  <2>3. table' = [table EXCEPT ![i] = e]
    BY <1>1
  <2> HIDE DEF e
  <2> QED BY <2>1, <2>2, <2>3, EntrySteps
<1>2. ASSUME NEW i \in Index, Takes(i),
             table' = [table EXCEPT ![i] =
               [dst |-> src, hop |-> mac, score |-> DefaultScore,
                rank |-> DefaultRank, lqi |-> lqi]]
      PROVE  Map!Next
  <2> DEFINE e == [dst |-> src, hop |-> mac, score |-> DefaultScore,
                   rank |-> DefaultRank, lqi |-> lqi]
  <2>1. e.dst = src /\ e.hop = mac /\ table' = [table EXCEPT ![i] = e]
    BY <1>2
  <2> HIDE DEF e
  <2> QED BY <1>2, <2>1, TakesFree, EntrySteps
<1> QED BY <1>1, <1>2 DEF FrameReceived

(* A frame that has been sent changes scores and ranks, and no route.      *)
LEMMA SentMaps ==
  ASSUME IInv, OneRoute', NEW dst \in Node, Sent(dst)
  PROVE  Routes' = Routes
<1>0. \A i \in Index : table[i] \in Entry /\ table \in [Index -> Entry]
  BY DEF IInv, TypeOK
<1>1. PICK i \in Index :
        LET worked == [table EXCEPT ![i].score = DefaultScore, ![i].rank = @ + 1] IN
          table' = IF worked[i].rank = MaxRank
                   THEN [j \in Index |-> [worked[j] EXCEPT !.rank = Normalized(@)]]
                   ELSE worked
  BY DEF Sent
<1> DEFINE worked == [table EXCEPT ![i].score = DefaultScore, ![i].rank = @ + 1]
<1>2. \A j \in Index : /\ worked[j].dst = table[j].dst /\ worked[j].hop = table[j].hop
                       /\ worked[j] \in Entry
  <2>1. worked[i] = [table[i] EXCEPT !.score = DefaultScore, !.rank = table[i].rank + 1]
    BY <1>0
  <2>2. table[i].rank + 1 \in Nat
    BY <1>0 DEF Entry
  <2>3. worked[i] \in Entry /\ worked[i].dst = table[i].dst /\ worked[i].hop = table[i].hop
    <3> HIDE DEF worked
    <3> QED BY <1>0, <2>1, <2>2 DEF Entry
  <2> QED BY <1>0, <2>3
<1>3. table' = worked \/ table' = [j \in Index |-> [worked[j] EXCEPT !.rank = Normalized(@)]]
  BY <1>1
<1> HIDE DEF worked
<1>4. \A j \in Index : table'[j].dst = table[j].dst /\ table'[j].hop = table[j].hop
  BY <1>2, <1>3 DEF Entry
<1>5. LiveIn(table') = LiveIn(table) /\ Dests(table') = Dests(table)
  BY <1>4 DEF LiveIn, Dests
<1>6. OneIn(table) /\ OneIn(table')
  BY MapsAre DEF IInv
<1>7. MapOf(table) = [d \in Dests(table') |-> MapOf(table)[d]]
  <2>1. MapOf(table) = [d \in Dests(table) |-> MapOf(table)[d]]
    BY DEF MapOf
  <2> QED BY <1>5, <2>1
<1>8. \A j \in LiveIn(table') : MapOf(table)[table'[j].dst] = table'[j].hop
  BY <1>4, <1>5, <1>6, MapFinds DEF LiveIn
<1> QED BY <1>6, <1>7, <1>8, MapIs, MapsAre

LEMMA LostMaps ==
  ASSUME IInv, OneRoute', NEW dst \in Node, Failed(dst) \/ Remove(dst)
  PROVE  Map!Next
<1>1. PICK i \in Index :
        /\ Finds(i, dst)
        /\ \/ table' = [table EXCEPT ![i] = Weakened(@)]
           \/ table' = [table EXCEPT ![i] = Freed(@)]
  BY DEF Failed, Remove
<1>2. table[i] \in Entry /\ table[i].dst = dst /\ i \in Live /\ UNKNOWN \notin Node
  BY <1>1 DEF IInv, TypeOK, Finds, Live
<1>3. Freed(table[i]).dst = UNKNOWN
  BY <1>2, FreedEntry
<1>4. \/ Weakened(table[i]).dst = UNKNOWN
      \/ Weakened(table[i]).dst = dst /\ Weakened(table[i]).hop = table[i].hop
  BY <1>2 DEF Weakened, Freed, Entry
<1>5. table[i].hop \in Node
  BY <1>2 DEF Entry
<1>6. CASE table' = [table EXCEPT ![i] = Weakened(@)]
  <2> DEFINE e == Weakened(table[i])
  <2>1. table' = [table EXCEPT ![i] = e]
    BY <1>6
  <2>2. e.dst = UNKNOWN \/ (e.dst = dst /\ e.hop \in Node)
    BY <1>4, <1>5
  <2> HIDE DEF e
  <2> QED BY <1>2, <2>1, <2>2, EntrySteps
<1>7. CASE table' = [table EXCEPT ![i] = Freed(@)]
  BY <1>2, <1>3, <1>7, EntrySteps
<1> QED BY <1>1, <1>6, <1>7

LEMMA MapInit == Init => Map!Init
<1> SUFFICES ASSUME Init PROVE Routes = [x \in {} |-> x]
  BY DEF Map!Init
<1>1. Dests(table) = {}
  BY DEF Init, Dests, LiveIn
<1> QED BY <1>1, MapsAre DEF MapOf

LEMMA MapStep == IInv /\ IInv' /\ [Next]_vars => [Map!Next]_Routes
<1> SUFFICES ASSUME IInv, OneRoute', [Next]_vars PROVE Map!Next \/ Routes' = Routes
  BY DEF IInv
<1>1. CASE UNCHANGED vars
  BY <1>1, MapsAre DEF vars
<1> QED BY <1>1, ReceivedMaps, SentMaps, LostMaps DEF Next

(* The table of at most Size entries is a map from destinations to next    *)
(* hops: nwkRouteFrameReceived, nwkRouteFrameSent and nwkRouteRemove       *)
(* change one route at a time, and a route is given up for a new one only  *)
(* when all entries are in use (ImplementsMap).                            *)
THEOREM TableIsMap == Spec => ImplementsMap
<1>1. IInv /\ IInv' /\ [Next]_vars => [Map!Next]_Routes
  BY MapStep
<1> QED BY <1>1, MapInit, RouteInvariant, PTL DEF Spec, ImplementsMap, Map!Spec
=============================================================================
