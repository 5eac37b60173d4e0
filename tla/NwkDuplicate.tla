---------------------------- MODULE NwkDuplicate ----------------------------
(***************************************************************************)
(* The duplicate filter of a Lightweight Mesh node (nwkRxRejectDuplicate   *)
(* and its timer in nwkRx.c): for each source heard lately, the newest     *)
(* sequence number and which of the Window numbers up to it have been      *)
(* seen.  A frame reaches a node over several paths, so that copies of a   *)
(* frame arrive late and out of order; the environment here delivers any   *)
(* frame that is at most MaxLag behind the newest its source has sent, any *)
(* number of times or never.  Names differ from those of NwkRoute, the     *)
(* other table of nwkRxTaskHandler, so that one module may extend both.    *)
(***************************************************************************)
EXTENDS Integers, FiniteSets

CONSTANTS
  Entries,  \* NWK_DUPLICATE_REJECTION_TABLE_SIZE
  Sources,  \* the addresses of the nodes that frames come from
  SeqSize,  \* 256: nwkSeq is a uint8_t
  Window,   \* 8: mask is a uint8_t
  Ttl,      \* DUPLICATE_REJECTION_TTL
  MaxLag,   \* how far behind the newest a copy of a frame may arrive
  MaxGap    \* how many frames in a row the node may miss while it remembers

ASSUME DuplicateConstantsOK ==
  /\ Entries \in Nat \ {0} /\ Ttl \in Nat \ {0}
  /\ Window \in Nat \ {0} /\ SeqSize \in Nat /\ SeqSize > 2 * Window
  /\ MaxLag \in 0 .. Window - 1
  /\ MaxGap \in 1 .. SeqSize - Window

Slot == 0 .. Entries - 1
Seqs  == 0 .. SeqSize - 1

VARIABLES
  rejection, \* nwkRxDuplicateRejectionTable
  timer,     \* nwkRxDuplicateRejectionTimer is in the timer list
  newest,    \* environment: the last sequence number of each source
  accepted   \* history: what was accepted from a source since its entry was made

filter == <<rejection, timer, newest, accepted>>

FilterInit ==
  /\ \E n \in Sources :
       rejection = [i \in Slot |-> [src |-> n, seq |-> 0, mask |-> {}, ttl |-> 0]]
  /\ timer = FALSE
  /\ newest = [n \in Sources |-> 0]
  /\ accepted = [n \in Sources |-> {}]

Alive(i) == rejection[i].ttl > 0
Free == {i \in Slot : ~ Alive(i)}

(* The entry the search ends at, if it finds one; the entry it would take  *)
(* otherwise is the last free one.                                         *)
StopsAtFree(i, n) ==                                               \* faulty variant
  Alive(i) /\ rejection[i].src = n /\ \A j \in 0 .. i - 1 : Alive(j)
Holds(i, n) == Alive(i) /\ rejection[i].src = n
Heard(n) == \E i \in Slot : Holds(i, n)
TakesSlot(i) == i \in Free /\ \A j \in Free : j <= i

Behind(e, s) == (e.seq - s) % SeqSize              \* diff, a uint8_t
Ahead(e, s) == (s - e.seq) % SeqSize               \* shift

(* mask << shift, of which eight bits are kept.                            *)
Dropped(mask, shift) == {}                                         \* faulty variant
Unshifted(mask, shift) == mask                                     \* faulty variant
Untruncated(mask, shift) == {k + shift : k \in mask}               \* faulty variant
Shifted(mask, shift) == {k + shift : k \in mask} \cap (0 .. Window - 1)

Duplicate(n, s) ==
  \/ \E i \in Slot : Holds(i, n) /\ Behind(rejection[i], s) \in rejection[i].mask
  \/ ~ Heard(n) /\ Free = {}

(* An old frame seen for the first time, a newer one, a new source.        *)
AcceptLate(i, s) ==
  /\ Behind(rejection[i], s) < Window /\ Behind(rejection[i], s) \notin rejection[i].mask
  /\ rejection' = [rejection EXCEPT ![i].mask = @ \cup {Behind(rejection[i], s)}]
  /\ timer' = timer

AcceptNewer(i, s) ==
  /\ Behind(rejection[i], s) >= Window
  /\ rejection' = [rejection EXCEPT ![i].seq = s, ![i].ttl = Ttl,
                                    ![i].mask = Shifted(@, Ahead(rejection[i], s)) \cup {0}]
  /\ timer' = timer

AcceptUntimed(i, n, s) ==                                          \* faulty variant
  /\ rejection' = [rejection EXCEPT ![i] =
                      [src |-> n, seq |-> s, mask |-> {0}, ttl |-> Ttl]]
  /\ timer' = timer
AcceptFirst(i, n, s) ==
  /\ rejection' = [rejection EXCEPT ![i] =
                      [src |-> n, seq |-> s, mask |-> {0}, ttl |-> Ttl]]
  /\ timer' = TRUE

Receive(n, s) ==
  /\ \/ \E i \in Slot : Holds(i, n) /\ (AcceptLate(i, s) \/ AcceptNewer(i, s))
     \/ ~ Heard(n) /\ \E i \in Slot : TakesSlot(i) /\ AcceptFirst(i, n, s)
  /\ accepted' = [accepted EXCEPT ![n] = @ \cup {s}]
  /\ newest' = newest

(* nwkRxDuplicateRejectionTimerHandler                                     *)
Aged(e) == IF e.ttl > 0 THEN [e EXCEPT !.ttl = @ - 1] ELSE e

Tick ==
  /\ timer
  /\ rejection' = [i \in Slot |-> Aged(rejection[i])]
  /\ timer' = (Free # Slot)
  /\ accepted' = [n \in Sources |->
                     IF \E i \in Slot : Holds(i, n) /\ rejection[i].ttl = 1
                     THEN {} ELSE accepted[n]]
  /\ newest' = newest

-----------------------------------------------------------------------------
(* The environment: a source sends its next frame.  What was accepted more *)
(* than MaxLag before the newest cannot arrive any more.                   *)
Recent(s) == {(s - k) % SeqSize : k \in 0 .. MaxLag}

Transmit(n) ==
  /\ \A i \in Slot : Holds(i, n) => Ahead(rejection[i], newest[n]) < MaxGap
  /\ newest' = [newest EXCEPT ![n] = (@ + 1) % SeqSize]
  /\ accepted' = [accepted EXCEPT ![n] = @ \cap Recent(newest'[n])]
  /\ UNCHANGED <<rejection, timer>>

FilterNext ==
  \/ \E n \in Sources : Transmit(n) \/ \E s \in Recent(newest[n]) : Receive(n, s)
  \/ Tick

FilterSpec == FilterInit /\ [][FilterNext]_filter

-----------------------------------------------------------------------------
FilterTypeOK ==
  /\ rejection \in [Slot -> [src : Sources, seq : Seqs, mask : SUBSET (0 .. Window - 1),
                              ttl : 0 .. Ttl]]
  /\ timer \in BOOLEAN
  /\ newest \in [Sources -> Seqs] /\ accepted \in [Sources -> SUBSET Seqs]

(* A source has one entry, so that what it sent is remembered in one place *)
(* and an expired entry does not hide behind a live one.                   *)
OneEntry ==
  \A i, j \in Slot : Alive(i) /\ Alive(j) /\ rejection[i].src = rejection[j].src => i = j

(* Entries expire: while one is in use the timer is running, although only *)
(* a new entry starts it and the handler stops it.                         *)
Expiring == Free # Slot => timer

(* A frame that has been accepted is a duplicate when it comes again, as   *)
(* long as the entry of its source lives, in whatever order the frames of  *)
(* the window arrive and across the wrap of the sequence number.           *)
AcceptedOnce ==
  \A n \in Sources : \A s \in accepted[n] \cap Recent(newest[n]) : Duplicate(n, s)

(* A frame that has not been accepted is not taken for a duplicate, unless *)
(* the table is full of other sources.                                     *)
FreshAccepted ==
  \A n \in Sources : \A s \in Recent(newest[n]) :
    Duplicate(n, s) => s \in accepted[n] \/ (~ Heard(n) /\ Free = {})
=============================================================================
