------------------------- MODULE VersionedBufferProofs -------------------------
(***************************************************************************)
(* A backing that claims an epoch holds that epoch's image, for any        *)
(* backings, rows, sizes and capacities.  The inductive invariant says,    *)
(* beside the types:                                                       *)
(*   - OrderInv: sequences are captured in order, and each is built once;  *)
(*   - VersionInv: while a version is named its backing claims it, and no  *)
(*     build writes there;                                                 *)
(*   - ClosedInv, ReachInv: what journal and captures keep of the writes;  *)
(*   - FollowInv: an image differs from one a backing may still hold only  *)
(*     in rows written since;                                              *)
(*   - UploadInv: whose uploads are queued;                                *)
(*   - ClaimInv, WriteInv: what each backing will hold, as claimed or as   *)
(*     built so far, once the queue has run.                               *)
(***************************************************************************)
EXTENDS VersionedBuffer, FiniteSetTheorems, WellFoundedInduction, TLAPS

Journals == [seq : 1 .. MaxSequence, count : 0 .. Rows, cap : Capacities, writes : SUBSET Writes,
             base : 0 .. MaxSequence, previous : Versions \cup {None}, rows : [Index -> 0 .. MaxSequence],
             shrunk : BOOLEAN]
Holdings == [class : Nat, epoch : 0 .. MaxSequence, image : Images \cup {None}, bound : BOOLEAN]
Uploads == [b : Backings, seq : 1 .. MaxSequence, range : SUBSET Index, rows : [Index -> 0 .. MaxSequence]]

Types ==
  /\ journal \in Journals
  /\ family \in [previous : Versions \cup {None}, lastRevision : 0 .. MaxSequence]
  /\ input \in Captures \cup {None}
  /\ build \in Builds \cup {None}
  /\ pending \subseteq Versions
  /\ current \in Versions \cup {None}
  /\ ack \in Acks \cup {None}
  /\ backing \in [Backings -> Holdings]
  /\ gpu \in [Backings -> [Index -> 0 .. Junk]]
  /\ uploads \in Seq(Uploads)
  /\ lost \subseteq Backings

\* An upload of the queue that writes row r of backing b.
Touches(k, b, r) == uploads[k].b = b /\ r \in uploads[k].range

\* Row r of b will be x when the queue has run.
Lands(b, r, x) ==
  /\ \A k \in 1 .. Len(uploads) :
       Touches(k, b, r) /\ (\A l \in 1 .. Len(uploads) : l > k => ~Touches(l, b, r)) => uploads[k].rows[r] = x
  /\ (\A k \in 1 .. Len(uploads) : ~Touches(k, b, r)) => gpu[b][r] = x

\* Row r of b will be written by an upload of sequence s, after the k-th.
Overwritten(k, b, r, s) == \E l \in 1 .. Len(uploads) : l > k /\ Touches(l, b, r) /\ uploads[l].seq = s

\* What else is queued for row r comes before the uploads of sequence s, and x remains.
Stored(b, r, x, s) ==
  /\ Lands(b, r, x)
  /\ \A k \in 1 .. Len(uploads) : Touches(k, b, r) /\ uploads[k].seq # s => Overwritten(k, b, r, s)

\* The versions that somebody beside the uploader names.
Settled == ({current, journal.previous, family.previous}
            \cup (IF ack = None THEN {} ELSE {ack.version})
            \cup (IF input = None THEN {} ELSE {input.previous})
            \cup (IF build = None THEN {} ELSE {build.in.previous})) \ {None}

Unqueued(v) == \A k \in 1 .. Len(uploads) : uploads[k].seq # v.seq

Claims(b) == backing[b].epoch # 0
Writing == build # None /\ build.at = "writing"

OrderInv ==
  /\ family.lastRevision <= journal.seq
  /\ \A v \in Named :
       /\ v.seq <= family.lastRevision
       /\ build # None => v.seq < build.in.seq
       /\ input # None => v.seq < input.seq
  /\ \A b \in Backings :
       /\ backing[b].epoch <= family.lastRevision
       /\ build # None => backing[b].epoch < build.in.seq
       /\ input # None => backing[b].epoch < input.seq
  /\ build # None => build.in.seq <= family.lastRevision
  /\ input # None => input.seq = family.lastRevision
  /\ build # None /\ input # None => build.in.seq < input.seq

VersionInv ==
  /\ \A v \in Named : backing[v.b].epoch = v.seq /\ backing[v.b].image = v.image /\ backing[v.b].class # 0
  /\ build # None => backing[build.b].class # 0 /\ \A v \in Named : v.b # build.b
  /\ \A b \in Backings : Claims(b) => backing[b].image # None

\* The writes from a base to a sequence, all of them.
Closed(writes, base, seq) == {w.seq : w \in writes} = (Max({base, 1}) + 1) .. seq

ClosedInv ==
  /\ Closed(journal.writes, journal.base, journal.seq) /\ journal.base <= journal.seq
  /\ \A c \in ({input} \cup (IF build = None THEN {} ELSE {build.in})) \ {None} : Closed(c.writes, c.base, c.seq)

ReachInv ==
  /\ journal.base # 0 => journal.previous # None /\ journal.base <= journal.previous.seq
  /\ \A b \in Backings : Claims(b) => backing[b].epoch >= journal.base
  /\ ack # None => \A b \in Backings : Claims(b) =>
       backing[b].epoch >= ack.version.seq \/ (ack.floor # None /\ backing[b].epoch >= ack.floor)

\* Image `to', of the journal whose writes these are, differs from `from', of epoch e, only
\* in rows written since.
Follows(from, e, to, writes, base) ==
  e >= base => \A r \in Index : r <= from.size /\ r <= to.size /\ to.rows[r] # from.rows[r] =>
                 \E w \in writes : w.seq > e /\ r \in w.rows

\* What a claim, a build or a capture holds is followed by the journal.
Led(image, e, j) ==
  /\ Follows(image, e, ImageOf(j), j.writes, j.base)
  /\ ~j.shrunk => image.size <= j.count

FollowInv ==
  ~SparseAfterShrink =>
    /\ \A b \in Backings : Claims(b) =>
         /\ Led(backing[b].image, backing[b].epoch, journal)
         /\ input # None => Follows(backing[b].image, backing[b].epoch, input.image, input.writes, input.base)
         /\ build # None => Follows(backing[b].image, backing[b].epoch, build.in.image, build.in.writes, build.in.base)
    /\ build # None =>
         /\ Led(build.in.image, build.in.seq, journal)
         /\ input # None => Follows(build.in.image, build.in.seq, input.image, input.writes, input.base)
    /\ input # None => Led(input.image, input.seq, journal)

UploadInv ==
  /\ \A k \in 1 .. Len(uploads) :
       /\ uploads[k].seq <= family.lastRevision
       /\ input # None => uploads[k].seq < input.seq
       /\ build # None => uploads[k].seq <= build.in.seq
       /\ build # None /\ uploads[k].seq = build.in.seq => Writing /\ uploads[k].b = build.b
       /\ \A v \in pending : uploads[k].seq = v.seq => uploads[k].b = v.b
  /\ \A v \in Settled : Unqueued(v)
  /\ build # None /\ build.cancelled => Writing /\ build.b \in lost

\* Unless it lost an upload, a backing will hold what it claims: its own uploads are those
\* of a pending version, and whatever else is queued is overwritten by them.
Delivers(b) ==
  /\ \A r \in 1 .. backing[b].image.size : Stored(b, r, backing[b].image.rows[r], backing[b].epoch)
  /\ \A k \in 1 .. Len(uploads) : uploads[k].b = b /\ uploads[k].seq = backing[b].epoch =>
       \E v \in pending : v.seq = backing[b].epoch

ClaimInv == ~SparseAfterShrink => \A b \in Backings \ lost : Claims(b) => Delivers(b)

\* So will the backing of a build, in the rows that are not to be queued any more.
WriteInv ==
  Writing =>
    /\ build.in.image.size # 0 => ~Claims(build.b)
    /\ build.in.image.size = 0 => build.todo = {}
    /\ ~SparseAfterShrink /\ build.b \notin lost =>
         \A r \in (1 .. build.in.image.size) \ build.todo :
           Stored(build.b, r, build.in.image.rows[r], build.in.seq)

IInv ==
  /\ Types /\ OrderInv /\ VersionInv /\ ClosedInv /\ ReachInv
  /\ FollowInv /\ UploadInv /\ ClaimInv /\ WriteInv

-----------------------------------------------------------------------------
(* Extremes of sets of numbers.                                            *)
LEMMA Extremes2 ==
  ASSUME NEW a \in Int, NEW b \in Int
  PROVE  /\ Max({a, b}) = IF a >= b THEN a ELSE b
         /\ Min({a, b}) = IF a <= b THEN a ELSE b
<1>1. Max({a, b}) = IF a >= b THEN a ELSE b
  <2>1. \E x \in {a, b} : \A y \in {a, b} : x >= y
    OBVIOUS
  <2>2. Max({a, b}) \in {a, b} /\ \A y \in {a, b} : Max({a, b}) >= y
    BY <2>1 DEF Max
  <2> QED
    BY <2>2
<1>2. Min({a, b}) = IF a <= b THEN a ELSE b
  <2>1. \E x \in {a, b} : \A y \in {a, b} : x <= y
    OBVIOUS
  <2>2. Min({a, b}) \in {a, b} /\ \A y \in {a, b} : Min({a, b}) <= y
    BY <2>1 DEF Min
  <2> QED
    BY <2>2
<1> QED
  BY <1>1, <1>2

LEMMA LeastOfNaturals ==
  ASSUME NEW S \in SUBSET Nat, S # {}
  PROVE  Min(S) \in S /\ \A y \in S : Min(S) <= y
<1>1. PICK x \in S : \A y \in S : ~(<<y, x>> \in OpToRel(<, Nat))
  BY NatLessThanWellFounded, WFMin
<1>2. \A y \in S : x <= y
  <2> SUFFICES ASSUME NEW y \in S, ~(x <= y) PROVE FALSE
    OBVIOUS
  <2>1. y < x /\ <<y, x>> \in Nat \X Nat
    OBVIOUS
  <2> QED
    BY <1>1, <2>1 DEF OpToRel
<1> QED
  BY <1>2 DEF Min

(* A build's class exists.                                                 *)
LEMMA ClassExists ==
  ASSUME NEW in \in Captures
  PROVE  ChooseClass(in) \in Nat \ {0}
<1>1. in.cap \in Nat \ {0} /\ in.cap \in Capacities /\ (in.previous # None => in.previous.cap \in Nat \ {0})
  BY VersionedBufferAssumption DEF Captures, Versions
<1> DEFINE rounded == PowerOfTwoFrom(in.cap)
<1>2. rounded \in Nat \ {0}
  BY <1>1, RoundingAssumption
<1> HIDE DEF rounded
<1>3. CASE in.previous # None /\ in.cap <= in.previous.cap
  BY <1>1, <1>3 DEF ChooseClass
<1>4. CASE in.previous = None
  BY <1>2, <1>4 DEF ChooseClass, ReplacementCapacity, rounded
<1>5. CASE in.previous # None /\ ~(in.cap <= in.previous.cap)
  <2> DEFINE more == in.previous.cap + Max({in.previous.cap \div 2, 1})
  <2>1. in.previous.cap \div 2 \in Nat
    BY <1>1, <1>5
  <2>2. Max({in.previous.cap \div 2, 1}) \in Nat
    BY <2>1, Extremes2
  <2>3. more \in Nat
    BY <1>1, <1>5, <2>2
  <2> HIDE DEF more
  <2>4. Max({rounded, more}) \in Nat \ {0}
    BY <1>2, <2>3, Extremes2
  <2> QED
    BY <1>5, <2>4 DEF ChooseClass, ReplacementCapacity, rounded, more
<1> QED
  BY <1>3, <1>4, <1>5

LEMMA FloorExists ==
  ASSUME Types
  PROVE  /\ OldestContentEpoch \in (1 .. MaxSequence) \cup {None}
         /\ \A b \in Backings : Claims(b) => OldestContentEpoch # None /\ OldestContentEpoch <= backing[b].epoch
<1> DEFINE epochs == {backing[b].epoch : b \in Backings} \ {0}
<1>1. epochs \in SUBSET (1 .. MaxSequence)
  BY VersionedBufferAssumption DEF Types, Holdings
<1>2. CASE epochs = {}
  BY <1>2 DEF OldestContentEpoch, Claims
<1>3. CASE epochs # {}
  <2>0. epochs \in SUBSET Nat
    BY <1>1, VersionedBufferAssumption
  <2>1. Min(epochs) \in epochs /\ \A y \in epochs : Min(epochs) <= y
    <3> HIDE DEF epochs
    <3> QED
      BY <1>3, <2>0, LeastOfNaturals
  <2>2. OldestContentEpoch = Min(epochs)
    BY <1>3 DEF OldestContentEpoch
  <2>3. \A b \in Backings : Claims(b) => backing[b].epoch \in epochs
    BY DEF Claims
  <2> HIDE DEF epochs
  <2>4. OldestContentEpoch \in 1 .. MaxSequence
    BY <1>1, <2>1, <2>2
  <2>5. OldestContentEpoch # None
    BY <2>4, VersionedBufferAssumption, NoneAssumption
  <2> QED
    BY <2>1, <2>2, <2>3, <2>4, <2>5
<1> QED
  BY <1>2, <1>3

(* What the acquisition does to the backings.                              *)
Acquired(b, allocated, gone) ==
  /\ input # None /\ build = None /\ input' = None
  /\ build' = [in |-> input, b |-> b, allocated |-> allocated, todo |-> {}, at |-> "leased",
               cancelled |-> FALSE]
  /\ \A v \in Named : v.b # b
  /\ \A x \in Backings : x # b => backing'[x] = IF x \in gone THEN Empty ELSE backing[x]
  /\ backing' \in [Backings -> Holdings] /\ gpu' \in [Backings -> [Index -> 0 .. Junk]]
  /\ backing'[b].class # 0 /\ (allocated => ~Claims(b)')
  /\ ~allocated => backing'[b] = backing[b] /\ b \notin gone
  /\ \A x \in Backings : x \notin gone /\ ~(x = b /\ allocated) => gpu'[x] = gpu[x]
  /\ lost' = lost \ gone
  /\ UNCHANGED <<journal, family, pending, current, ack, uploads>>

LEMMA AcquireFacts ==
  ASSUME IInv, Acquire
  PROVE  \E b \in Backings, allocated \in BOOLEAN, gone \in SUBSET Reusable : Acquired(b, allocated, gone)
<1>0. /\ input \in Captures /\ build = None /\ input' = None
      /\ UNCHANGED <<journal, family, pending, current, ack, uploads>>
      /\ backing \in [Backings -> Holdings] /\ gpu \in [Backings -> [Index -> 0 .. Junk]]
  BY DEF Acquire, IInv, Types
<1>1. /\ Empty \in Holdings /\ [r \in Index |-> Junk] \in [Index -> 0 .. Junk]
      /\ ChooseClass(input) \in Nat \ {0}
  BY <1>0, ClassExists, VersionedBufferAssumption DEF Empty, Holdings, Junk
<1> DEFINE Take(b, allocated, gone) ==
             /\ build' = [in |-> input, b |-> b, allocated |-> allocated, todo |-> {}, at |-> "leased",
                          cancelled |-> FALSE]
             /\ backing' = [x \in Backings |->
                  IF x = b /\ allocated THEN [Empty EXCEPT !.class = ChooseClass(input)]
                  ELSE IF x \in gone THEN Empty ELSE backing[x]]
             /\ gpu' = [x \in Backings |-> IF x \in gone \/ (x = b /\ allocated) THEN [r \in Index |-> Junk] ELSE gpu[x]]
             /\ lost' = lost \ gone
<1>2. \/ \E b \in Reusable, gone \in SUBSET Reusable : b \notin gone /\ Take(b, FALSE, gone)
      \/ \E b \in Backings, gone \in SUBSET Reusable : (backing[b].class = 0 \/ b \in gone) /\ Take(b, TRUE, gone)
  <2> DEFINE same == {b \in Reusable : backing[b].class = ChooseClass(input)}
             others == Reusable \ same
  <2>1. \/ \E b \in same, spares \in SUBSET same : Take(b, FALSE, others \cup (same \ (spares \cup {b})))
        \/ \E b \in Backings : (backing[b].class = 0 \/ b \in others) /\ Take(b, TRUE, others)
    BY Zenon DEF Acquire
  <2>2. CASE \E b \in same, spares \in SUBSET same : Take(b, FALSE, others \cup (same \ (spares \cup {b})))
    <3>1. PICK b \in same, spares \in SUBSET same : Take(b, FALSE, others \cup (same \ (spares \cup {b})))
      BY <2>2
    <3>2. PICK gone : gone = others \cup (same \ (spares \cup {b}))
      OBVIOUS
    <3>3. b \in Reusable /\ gone \in SUBSET Reusable /\ b \notin gone
      BY <3>2
    <3>4. Take(b, FALSE, gone)
      BY <3>1, <3>2
    <3> QED
      BY <3>3, <3>4
  <2>3. CASE \E b \in Backings : (backing[b].class = 0 \/ b \in others) /\ Take(b, TRUE, others)
    <3>1. PICK b \in Backings : (backing[b].class = 0 \/ b \in others) /\ Take(b, TRUE, others)
      BY <2>3
    <3>2. PICK gone : gone = others
      OBVIOUS
    <3>3. gone \in SUBSET Reusable /\ (backing[b].class = 0 \/ b \in gone) /\ Take(b, TRUE, gone)
      BY <3>1, <3>2
    <3> QED
      BY <3>3
  <2> QED
    BY <2>1, <2>2, <2>3
<1>3. \A b \in Backings : b \in Reusable \/ backing[b].class = 0 => \A v \in Named : v.b # b
  BY DEF Reusable, Leased, IInv, VersionInv
<1>4. \A b \in Reusable : b \in Backings /\ backing[b].class # 0
  BY DEF Reusable
<1>5. CASE \E b \in Reusable, gone \in SUBSET Reusable : b \notin gone /\ Take(b, FALSE, gone)
  <2>1. PICK b \in Reusable, gone \in SUBSET Reusable : b \notin gone /\ Take(b, FALSE, gone)
    BY <1>5
  <2>2. /\ backing'[b] = backing[b]
        /\ \A x \in Backings : x # b => backing'[x] = IF x \in gone THEN Empty ELSE backing[x]
        /\ backing' \in [Backings -> Holdings]
    BY <1>0, <1>1, <1>4, <2>1
  <2>3. /\ \A x \in Backings : x \notin gone => gpu'[x] = gpu[x]
        /\ gpu' \in [Backings -> [Index -> 0 .. Junk]] /\ lost' = lost \ gone
    BY <1>0, <1>1, <2>1
  <2>4. build' = [in |-> input, b |-> b, allocated |-> FALSE, todo |-> {}, at |-> "leased", cancelled |-> FALSE]
    BY <2>1
  <2> HIDE DEF Take
  <2>5. b \in Backings /\ FALSE \in BOOLEAN /\ input # None /\ backing'[b].class # 0
        /\ (\A v \in Named : v.b # b) /\ b \notin gone
    BY <1>0, <1>3, <1>4, <2>1, <2>2, NoneAssumption
  <2>8. Acquired(b, FALSE, gone)
    BY <1>0, <2>2, <2>3, <2>4, <2>5 DEF Acquired
  <2> QED
    BY <2>1, <2>5, <2>8
<1>6. CASE \E b \in Backings, gone \in SUBSET Reusable : (backing[b].class = 0 \/ b \in gone) /\ Take(b, TRUE, gone)
  <2>1. PICK b \in Backings, gone \in SUBSET Reusable : (backing[b].class = 0 \/ b \in gone) /\ Take(b, TRUE, gone)
    BY <1>6
  <2>2. /\ backing'[b] = [Empty EXCEPT !.class = ChooseClass(input)]
        /\ \A x \in Backings : x # b => backing'[x] = IF x \in gone THEN Empty ELSE backing[x]
    BY <1>0, <1>1, <2>1
  <2>6. /\ backing'[b].class # 0 /\ ~Claims(b)' /\ backing'[b] \in Holdings
        /\ backing' = [x \in Backings |-> backing'[x]]
    BY <1>1, <2>1, <2>2, VersionedBufferAssumption DEF Empty, Claims, Holdings
  <2>7. backing' \in [Backings -> Holdings]
    BY <1>0, <1>1, <2>2, <2>6
  <2>3. /\ \A x \in Backings : x \notin gone /\ x # b => gpu'[x] = gpu[x]
        /\ gpu' \in [Backings -> [Index -> 0 .. Junk]] /\ lost' = lost \ gone
    BY <1>0, <1>1, <2>1
  <2>4. build' = [in |-> input, b |-> b, allocated |-> TRUE, todo |-> {}, at |-> "leased", cancelled |-> FALSE]
    BY <2>1
  <2> HIDE DEF Take
  <2>5. TRUE \in BOOLEAN /\ input # None /\ (\A v \in Named : v.b # b)
    BY <1>0, <1>3, <1>4, <2>1, NoneAssumption
  <2>8. Acquired(b, TRUE, gone)
    BY <1>0, <2>2, <2>3, <2>4, <2>5, <2>6, <2>7 DEF Acquired
  <2> QED
    BY <2>1, <2>5, <2>8
<1> QED
  BY <1>2, <1>5, <1>6

(* Where a backing is in the journal's reach, the acknowledgement trims.     *)
LEMMA AcknowledgeFacts ==
  ASSUME IInv, Acknowledge
  PROVE  /\ ack # None /\ ack' = None
         /\ UNCHANGED <<family, input, build, pending, current, backing, gpu, uploads, lost>>
         /\ \/ journal' = journal
            \/ \E base \in 0 .. MaxSequence :
                 /\ base >= journal.base /\ (base = journal.base \/ base <= ack.version.seq)
                 /\ base = journal.base \/ (ack.floor # None => base <= ack.floor)
                 /\ ack.version.seq <= journal.seq
                 /\ journal.previous # None => ack.version.seq > journal.previous.seq
                 /\ journal' = [journal EXCEPT !.previous = ack.version, !.base = base,
                                  !.writes = {w \in journal.writes : w.seq > base}]
<1>0. /\ ack \in Acks /\ ack.version.seq \in 1 .. MaxSequence /\ ack # None /\ ack' = None
      /\ ack.floor # None => ack.floor \in 1 .. MaxSequence
      /\ journal \in Journals /\ journal.base \in 0 .. MaxSequence /\ journal.seq \in 1 .. MaxSequence
      /\ journal.previous # None => journal.previous.seq \in 1 .. MaxSequence
      /\ UNCHANGED <<family, input, build, pending, current, backing, gpu, uploads, lost>>
  BY DEF Acknowledge, IInv, Types, Acks, Versions, Journals
<1> DEFINE keep == IF ack.floor = None THEN ack.version.seq ELSE Min({ack.version.seq, ack.floor})
           base == Max({journal.base, keep})
<1>1. keep \in 1 .. MaxSequence /\ keep <= ack.version.seq /\ (ack.floor # None => keep <= ack.floor)
  <2>1. CASE ack.floor = None
    BY <1>0, <2>1, VersionedBufferAssumption
  <2>2. CASE ack.floor # None
    <3>1. ack.version.seq \in Int /\ ack.floor \in Int
      BY <1>0, <2>2, VersionedBufferAssumption
    <3>2. keep = IF ack.version.seq <= ack.floor THEN ack.version.seq ELSE ack.floor
      BY <2>2, <3>1, Extremes2
    <3> QED
      BY <1>0, <2>2, <3>1, <3>2, VersionedBufferAssumption
  <2> QED
    BY <2>1, <2>2
<1>2. journal' = IF ack.version.seq > journal.seq \/ (journal.previous # None /\ ack.version.seq <= journal.previous.seq)
                 THEN journal
                 ELSE [journal EXCEPT !.previous = ack.version, !.base = base,
                         !.writes = {w \in journal.writes : w.seq > base}]
  BY <1>0 DEF Acknowledge, Journals
<1> HIDE DEF keep
<1>3. base \in 0 .. MaxSequence /\ base >= journal.base /\ (base = journal.base \/ base = keep)
  BY <1>0, <1>1, Extremes2, VersionedBufferAssumption
<1> HIDE DEF base
<1>4. CASE ack.version.seq > journal.seq \/ (journal.previous # None /\ ack.version.seq <= journal.previous.seq)
  BY <1>0, <1>2, <1>4
<1>5. CASE ~(ack.version.seq > journal.seq \/ (journal.previous # None /\ ack.version.seq <= journal.previous.seq))
  <2>1. /\ base = journal.base \/ base <= ack.version.seq
        /\ base = journal.base \/ (ack.floor # None => base <= ack.floor)
        /\ ack.version.seq <= journal.seq
        /\ journal.previous # None => ack.version.seq > journal.previous.seq
    BY <1>0, <1>1, <1>3, <1>5, VersionedBufferAssumption
  <2> QED
    BY <1>0, <1>2, <1>3, <1>5, <2>1
<1> QED
  BY <1>4, <1>5

(* The types are preserved.                                                *)
LEMMA TypesStep ==
  ASSUME IInv, [Next]_vars
  PROVE  Types'
<1>0. /\ Types /\ MaxSequence \in Nat /\ Rows \in Nat /\ Sizes \subseteq 0 .. Rows /\ Offsets \subseteq 1 .. Rows
      /\ None \notin 0 .. MaxSequence
  BY VersionedBufferAssumption, NoneAssumption DEF IInv
<1>1. ASSUME NEW offset \in Offsets, NEW result \in Sizes, AppendWrite(offset, result) PROVE Types'
  <2>1. Max({journal.count, result}) \in 0 .. Rows
    BY <1>0, Extremes2 DEF Types, Journals
  <2>2. journal.seq + 1 \in 1 .. MaxSequence /\ offset \in Index
    BY <1>0, <1>1 DEF AppendWrite, Types, Journals, Index
  <2>3. [Zeroed(journal.rows, journal.count) EXCEPT ![offset] = journal.seq + 1] \in [Index -> 0 .. MaxSequence]
    BY <1>0, <2>2 DEF Zeroed, Types, Journals
  <2>4. journal.writes \cup {[seq |-> journal.seq + 1, rows |-> {offset}]} \in SUBSET Writes
    BY <1>0, <2>2 DEF Types, Journals, Writes
  <2>5. journal' \in Journals
    BY <1>0, <1>1, <2>1, <2>2, <2>3, <2>4 DEF AppendWrite, Types, Journals
  <2> QED
    BY <1>0, <1>1, <2>5 DEF AppendWrite, Types
<1>2. ASSUME NEW count \in Sizes, NEW capacity \in Capacities, ReplaceImage(count, capacity) PROVE Types'
  <2>1. Max({journal.cap, capacity}) \in Capacities
    <3>0. journal.cap \in Capacities /\ Capacities \subseteq Nat
      BY <1>0, VersionedBufferAssumption DEF Types, Journals
    <3>2. \A c \in Capacities : c \in Int
      BY <3>0
    <3>1. journal.cap \in Capacities /\ journal.cap \in Int /\ capacity \in Int
      BY <3>0, <3>2
    <3> QED
      BY <3>1, Extremes2
  <2>2. journal.seq + 1 \in 1 .. MaxSequence /\ 1 .. count \in SUBSET Index
    BY <1>0, <1>2 DEF ReplaceImage, Types, Journals, Index
  <2>3. Zeroed([r \in Index |-> journal.seq + 1], count) \in [Index -> 0 .. MaxSequence]
    BY <1>0, <2>2 DEF Zeroed
  <2>4. journal.writes \cup {[seq |-> journal.seq + 1, rows |-> 1 .. count]} \in SUBSET Writes
    BY <1>0, <2>2 DEF Types, Journals, Writes
  <2>5. journal' \in Journals
    BY <1>0, <1>2, <2>1, <2>2, <2>3, <2>4 DEF ReplaceImage, Types, Journals
  <2> QED
    BY <1>0, <1>2, <2>5 DEF ReplaceImage, Types
<1>3. ASSUME NEW capacity \in Capacities, RequestCapacity(capacity) PROVE Types'
  <2>1. journal.seq + 1 \in 1 .. MaxSequence
    BY <1>0, <1>3 DEF RequestCapacity, Types, Journals
  <2>2. journal.writes \cup {[seq |-> journal.seq + 1, rows |-> {}]} \in SUBSET Writes
    BY <1>0, <2>1 DEF Types, Journals, Writes
  <2>3. journal' \in Journals
    BY <1>0, <1>3, <2>1, <2>2 DEF RequestCapacity, Types, Journals
  <2> QED
    BY <1>0, <1>3, <2>3 DEF RequestCapacity, Types
<1>4. ASSUME RequestCapture PROVE Types'
  <2>1. CaptureDesired \in Captures /\ journal.seq \in 0 .. MaxSequence
    BY <1>0 DEF CaptureDesired, Types, Journals, Captures, ImageOf, Images
  <2> QED
    BY <1>0, <1>4, <2>1 DEF RequestCapture, Types
<1>5. ASSUME Acquire PROVE Types'
  <2>1. PICK b \in Backings, allocated \in BOOLEAN, gone \in SUBSET Reusable : Acquired(b, allocated, gone)
    BY <1>5, AcquireFacts
  <2>2. build' \in Builds
    BY <1>0, <2>1 DEF Acquired, Builds, Types
  <2> QED
    BY <1>0, <2>1, <2>2 DEF Acquired, Types
<1>6. ASSUME CancelBuild \/ FailBuild PROVE Types'
  BY <1>0, <1>6 DEF CancelBuild, FailBuild, Types
<1>7. ASSUME BeginWrites PROVE Types'
  <2>0. build \in Builds /\ build.b \in Backings /\ build.in \in Captures
    BY <1>0, <1>7 DEF BeginWrites, Types, Builds
  <2>1. DirtyRows(build.b, build.in, build.allocated) \in SUBSET Index
    BY <1>0, <2>0 DEF DirtyRows, Captures, Writes, Images, Index
  <2>2. build' \in Builds
    BY <1>7, <2>0, <2>1 DEF BeginWrites, Builds
  <2>3. backing' \in [Backings -> Holdings]
    <3>1. backing \in [Backings -> Holdings] /\ 0 \in 0 .. MaxSequence
      BY <1>0 DEF Types
    <3>2. Forget(build.b) = [backing EXCEPT ![build.b] = [backing[build.b] EXCEPT !.image = None, !.epoch = 0]]
      BY <2>0, <3>1 DEF Forget, Holdings
    <3>3. [backing[build.b] EXCEPT !.image = None, !.epoch = 0] \in Holdings
      BY <2>0, <3>1 DEF Holdings
    <3> QED
      BY <1>7, <2>0, <3>1, <3>2, <3>3 DEF BeginWrites
  <2> QED
    BY <1>0, <1>7, <2>2, <2>3 DEF BeginWrites, Types
<1>8. ASSUME QueueUpload PROVE Types'
  <2>0. build \in Builds /\ build.b \in Backings /\ build.in \in Captures /\ build.todo \in SUBSET Index
    BY <1>0, <1>8 DEF QueueUpload, Types, Builds
  <2>1. FirstRange(build.todo) \in SUBSET Index
    BY <2>0 DEF FirstRange
  <2>2. [b |-> build.b, seq |-> build.in.seq, range |-> FirstRange(build.todo), rows |-> build.in.image.rows] \in Uploads
    BY <2>0, <2>1 DEF Uploads, Captures, Images
  <2>3. build' \in Builds
    BY <1>8, <2>0 DEF QueueUpload, Builds
  <2>4. uploads' \in Seq(Uploads)
    BY <1>0, <1>8, <2>2 DEF QueueUpload, Types
  <2> QED
    BY <1>0, <1>8, <2>3, <2>4 DEF QueueUpload, Types
<1>9. ASSUME FinishBuild PROVE Types'
  <2>0. build \in Builds /\ build.b \in Backings /\ build.in \in Captures
    BY <1>0, <1>9 DEF FinishBuild, Types, Builds
  <2>1. backing[build.b] \in Holdings /\ backing[build.b].class \in Nat \ {0}
    BY <1>0, <1>9, <2>0 DEF FinishBuild, Types, Holdings, IInv, VersionInv
  <2>2. [seq |-> build.in.seq, cap |-> backing[build.b].class, b |-> build.b, image |-> build.in.image] \in Versions
    BY <2>0, <2>1 DEF Versions, Captures
  <2>3. backing' \in [Backings -> Holdings]
    <3>1. backing \in [Backings -> Holdings] /\ build.in.image \in Images /\ build.in.seq \in 0 .. MaxSequence
      BY <1>0, <2>0 DEF Types, Captures
    <3>2. backing' = [backing EXCEPT ![build.b] = [backing[build.b] EXCEPT !.image = build.in.image, !.epoch = build.in.seq]]
      BY <1>9, <2>0, <3>1 DEF FinishBuild, Holdings
    <3>3. [backing[build.b] EXCEPT !.image = build.in.image, !.epoch = build.in.seq] \in Holdings
      BY <2>0, <3>1 DEF Holdings
    <3> QED
      BY <2>0, <3>1, <3>2, <3>3
  <2> QED
    BY <1>0, <1>9, <2>2, <2>3 DEF FinishBuild, Types
<1>10. ASSUME RunUpload PROVE Types'
  <2>1. uploads \in Seq(Uploads) /\ uploads # <<>> /\ Head(uploads) \in Uploads /\ uploads' \in Seq(Uploads)
    BY <1>0, <1>10 DEF RunUpload, Types
  <2>2. gpu' \in [Backings -> [Index -> 0 .. Junk]]
    BY <1>0, <1>10, <2>1 DEF RunUpload, Types, Uploads, Junk
  <2> QED
    BY <1>0, <1>10, <2>1, <2>2 DEF RunUpload, Types
<1>11. ASSUME CancelUpload PROVE Types'
  <2>1. uploads \in Seq(Uploads) /\ uploads # <<>> /\ Head(uploads) \in Uploads /\ uploads' \in Seq(Uploads)
    BY <1>0, <1>11 DEF CancelUpload, Types
  <2>2. lost' \subseteq Backings /\ pending' \subseteq Versions /\ build' \in Builds \cup {None}
    BY <1>0, <1>11, <2>1 DEF CancelUpload, Types, Uploads, Builds
  <2> QED
    BY <1>0, <1>11, <2>1, <2>2 DEF CancelUpload, Types
<1>12. ASSUME NEW v \in pending, PublishVersion(v) PROVE Types'
  BY <1>0, <1>12 DEF PublishVersion, Types
<1>13. ASSUME AcknowledgeReadsFloor PROVE Types'
  <2>1. ack' \in Acks
    BY <1>0, <1>13, FloorExists DEF AcknowledgeReadsFloor, Types, Acks
  <2> QED
    BY <1>0, <1>13, <2>1 DEF AcknowledgeReadsFloor, Types
<1>14. ASSUME Acknowledge PROVE Types'
  <2>1. journal' \in Journals
    <3>1. CASE journal' = journal
      BY <1>0, <3>1 DEF Types
    <3>2. ASSUME NEW base \in 0 .. MaxSequence,
                 journal' = [journal EXCEPT !.previous = ack.version, !.base = base,
                               !.writes = {w \in journal.writes : w.seq > base}]
          PROVE  journal' \in Journals
      <4>1. ack.version \in Versions
        BY <1>0, <1>14 DEF Acknowledge, Types, Acks
      <4>2. {w \in journal.writes : w.seq > base} \in SUBSET Writes
        BY <1>0 DEF Types, Journals
      <4> QED
        BY <1>0, <3>2, <4>1, <4>2 DEF Types, Journals
    <3> QED
      BY <1>14, <3>1, <3>2, AcknowledgeFacts, Zenon DEF IInv
  <2> QED
    BY <1>0, <1>14, <2>1, AcknowledgeFacts DEF Types
<1>15. ASSUME FamilyAcknowledge PROVE Types'
  <2>1. backing' \in [Backings -> Holdings]
    BY <1>0, <1>15 DEF FamilyAcknowledge, Types, Holdings, Versions
  <2> QED
    BY <1>0, <1>15, <2>1 DEF FamilyAcknowledge, Types
<1>16. ASSUME NEW b \in Backings, ClockPasses(b) PROVE Types'
  <2>1. backing' \in [Backings -> Holdings]
    BY <1>0, <1>16 DEF ClockPasses, Types, Holdings
  <2> QED
    BY <1>0, <1>16, <2>1 DEF ClockPasses, Types
<1>17. ASSUME UNCHANGED vars PROVE Types'
  BY <1>0, <1>17 DEF vars, Types
<1> QED
  BY <1>1, <1>2, <1>3, <1>4, <1>5, <1>6, <1>7, <1>8, <1>9, <1>10, <1>11, <1>12, <1>13, <1>14, <1>15,
     <1>16, <1>17 DEF Next

(* What a write of the manager does to the journal.                        *)
Wrote(rows) ==
  /\ journal'.seq = journal.seq + 1 /\ journal'.base = journal.base /\ journal'.previous = journal.previous
  /\ journal'.writes = journal.writes \cup {[seq |-> journal.seq + 1, rows |-> rows]}
  /\ ~journal'.shrunk => ~journal.shrunk /\ journal.count <= journal'.count
  /\ ~SparseAfterShrink => \A r \in Index : r <= journal'.count =>
       \/ r \in rows
       \/ r <= journal.count /\ journal'.rows[r] = journal.rows[r]
       \/ r > journal.count /\ ~journal.shrunk
  /\ UNCHANGED <<family, input, build, pending, current, ack, backing, gpu, uploads, lost>>

Writers ==
  \/ \E offset \in Offsets, result \in Sizes : AppendWrite(offset, result)
  \/ \E count \in Sizes, capacity \in Capacities : ReplaceImage(count, capacity)
  \/ \E capacity \in Capacities : RequestCapacity(capacity)

LEMMA WriterFacts ==
  ASSUME Types, Writers
  PROVE  \E rows \in SUBSET Index : Wrote(rows)
<1>0. /\ journal \in Journals /\ journal.count \in 0 .. Rows /\ journal.rows \in [Index -> 0 .. MaxSequence]
      /\ journal.seq \in 1 .. MaxSequence
      /\ Rows \in Nat /\ MaxSequence \in Nat /\ Sizes \subseteq 0 .. Rows
  BY VersionedBufferAssumption DEF Types, Journals
<1>1. ASSUME NEW offset \in Offsets, NEW result \in Sizes, AppendWrite(offset, result)
      PROVE  \E rows \in SUBSET Index : Wrote(rows)
  <2> DEFINE top == Max({journal.count, result})
  <2>1. top = IF journal.count >= result THEN journal.count ELSE result
    BY <1>0, Extremes2
  <2>2. /\ offset \in Index /\ offset <= top /\ journal.count <= top /\ top \in 0 .. Rows
    BY <1>0, <1>1, <2>1 DEF AppendWrite, Index
  <2>3. /\ journal' = [journal EXCEPT !.seq = journal.seq + 1, !.count = top,
                         !.rows = [Zeroed(journal.rows, journal.count) EXCEPT ![offset] = journal.seq + 1],
                         !.writes = journal.writes \cup {[seq |-> journal.seq + 1, rows |-> {offset}]}]
        /\ (((journal.count + 1) .. top) \ {offset} # {} /\ journal.shrunk) => SparseAfterShrink
        /\ UNCHANGED <<family, input, build, pending, current, ack, backing, gpu, uploads, lost>>
    BY <1>1, Zenon DEF AppendWrite
  <2> HIDE DEF top
  <2>4. /\ journal'.seq = journal.seq + 1 /\ journal'.count = top /\ journal'.base = journal.base
        /\ journal'.previous = journal.previous
        /\ journal'.writes = journal.writes \cup {[seq |-> journal.seq + 1, rows |-> {offset}]}
        /\ journal'.rows = [Zeroed(journal.rows, journal.count) EXCEPT ![offset] = journal.seq + 1]
    BY <1>0, <2>3 DEF Journals
  <2>5. ~journal'.shrunk => ~journal.shrunk
    BY <1>0, <2>3 DEF Journals
  <2>6. ASSUME ~SparseAfterShrink, NEW r \in Index, r <= journal'.count, r \notin {offset}, ~(r <= journal.count)
        PROVE  ~journal.shrunk
    <3>1. r \in ((journal.count + 1) .. top) \ {offset}
      BY <1>0, <2>2, <2>4, <2>6 DEF Index
    <3> QED
      BY <2>3, <2>6, <3>1
  <2>7. ASSUME NEW r \in Index, r \notin {offset}, r <= journal.count
        PROVE  journal'.rows[r] = journal.rows[r]
    BY <1>0, <2>2, <2>4, <2>7 DEF Zeroed, Index
  <2>8. \A r \in Index : r <= journal.count \/ r > journal.count
    BY <1>0 DEF Index
  <2>9. {offset} \in SUBSET Index /\ journal.count <= journal'.count
    BY <2>2, <2>4
  <2> QED
    BY <2>3, <2>4, <2>5, <2>6, <2>7, <2>8, <2>9 DEF Wrote
<1>2. ASSUME NEW count \in Sizes, NEW capacity \in Capacities, ReplaceImage(count, capacity)
      PROVE  \E rows \in SUBSET Index : Wrote(rows)
  <2>1. 1 .. count \in SUBSET Index /\ count \in 0 .. Rows
    BY <1>0 DEF Index
  <2>2. /\ journal'.seq = journal.seq + 1 /\ journal'.count = count /\ journal'.base = journal.base
        /\ journal'.previous = journal.previous
        /\ journal'.writes = journal.writes \cup {[seq |-> journal.seq + 1, rows |-> 1 .. count]}
        /\ UNCHANGED <<family, input, build, pending, current, ack, backing, gpu, uploads, lost>>
    BY <1>0, <1>2 DEF ReplaceImage, Journals
  <2>3. journal'.shrunk = (journal.shrunk \/ count < journal.count)
    BY <1>0, <1>2 DEF ReplaceImage, Journals
  <2>6. ~journal'.shrunk => ~journal.shrunk /\ ~(count < journal.count)
    BY <2>3, Zenon
  <2>7. ~(count < journal.count) => journal.count <= journal'.count
    BY <1>0, <2>1, <2>2
  <2>4. ~journal'.shrunk => ~journal.shrunk /\ journal.count <= journal'.count
    BY <2>6, <2>7
  <2>5. \A r \in Index : r <= journal'.count => r \in 1 .. count
    BY <2>1, <2>2 DEF Index
  <2> QED
    BY <2>1, <2>2, <2>4, <2>5 DEF Wrote
<1>3. ASSUME NEW capacity \in Capacities, RequestCapacity(capacity)
      PROVE  \E rows \in SUBSET Index : Wrote(rows)
  <2>1. /\ journal'.seq = journal.seq + 1 /\ journal'.count = journal.count /\ journal'.base = journal.base
        /\ journal'.previous = journal.previous /\ journal'.rows = journal.rows
        /\ journal'.writes = journal.writes \cup {[seq |-> journal.seq + 1, rows |-> {}]}
        /\ UNCHANGED <<family, input, build, pending, current, ack, backing, gpu, uploads, lost>>
    BY <1>0, <1>3 DEF RequestCapacity, Journals
  <2>2. ~journal'.shrunk => ~journal.shrunk
    BY <1>0, <1>3 DEF RequestCapacity, Journals
  <2>3. {} \in SUBSET Index /\ journal.count <= journal'.count
    BY <1>0, <2>1
  <2> QED
    BY <2>1, <2>2, <2>3 DEF Wrote
<1> QED
  BY <1>1, <1>2, <1>3 DEF Writers

(* The steps that leave every claim, capture and build where it was.       *)
Calm ==
  /\ Named' \subseteq Named /\ pending' \subseteq pending
  /\ \A v \in Settled' : v \in Settled \/ Unqueued(v)
  /\ family'.lastRevision = family.lastRevision /\ journal.seq <= journal'.seq
  /\ input' = input
  /\ build' = None \/ (build # None /\ build'.in = build.in /\ build'.b = build.b)
  /\ \A b \in Backings : /\ backing'[b].epoch = backing[b].epoch
                         /\ backing'[b].image = backing[b].image /\ backing'[b].class = backing[b].class

Drop == CancelBuild \/ FailBuild

LEMMA CalmSteps ==
  ASSUME IInv,
         \/ Writers \/ Drop \/ QueueUpload \/ RunUpload \/ CancelUpload
         \/ (\E v \in pending : PublishVersion(v)) \/ AcknowledgeReadsFloor \/ Acknowledge
         \/ FamilyAcknowledge \/ (\E b \in Backings : ClockPasses(b)) \/ UNCHANGED vars
  PROVE  Calm
<1>0. /\ Types /\ journal \in Journals /\ journal.seq \in 1 .. MaxSequence /\ MaxSequence \in Nat
      /\ family \in [previous : Versions \cup {None}, lastRevision : 0 .. MaxSequence]
      /\ backing \in [Backings -> Holdings]
  BY VersionedBufferAssumption DEF IInv, Types, Journals
<1>1. CASE Writers
  <2>1. PICK rows \in SUBSET Index : Wrote(rows)
    BY <1>0, <1>1, WriterFacts
  <2>2. Named' \subseteq Named /\ pending' \subseteq pending /\ Settled' \subseteq Settled
    BY <2>1 DEF Wrote, Named, Settled
  <2> QED
    BY <1>0, <2>1, <2>2 DEF Wrote, Calm
<1>2. CASE Drop
  <2>1. build' = None /\ UNCHANGED <<journal, family, input, pending, current, ack, backing, gpu, uploads, lost>>
    BY <1>2 DEF Drop, CancelBuild, FailBuild
  <2>2. Named' \subseteq Named /\ pending' \subseteq pending /\ Settled' \subseteq Settled
    BY <2>1 DEF Named, Settled
  <2> QED
    BY <1>0, <2>1, <2>2 DEF Calm
<1>3. CASE QueueUpload
  <2>1. /\ build # None /\ build'.in = build.in /\ build'.b = build.b
        /\ UNCHANGED <<journal, family, input, pending, current, ack, backing, gpu, lost>>
    BY <1>0, <1>3 DEF QueueUpload, Types, Builds
  <2>2. Named' \subseteq Named /\ pending' \subseteq pending /\ Settled' \subseteq Settled
    BY <2>1 DEF Named, Settled
  <2> QED
    BY <1>0, <2>1, <2>2 DEF Calm
<1>4. CASE RunUpload
  <2>1. UNCHANGED <<journal, family, input, build, pending, current, ack, backing, lost>>
    BY <1>4 DEF RunUpload
  <2>2. Named' \subseteq Named /\ pending' \subseteq pending /\ Settled' \subseteq Settled
    BY <2>1 DEF Named, Settled
  <2> QED
    BY <1>0, <2>1, <2>2 DEF Calm
<1>5. CASE CancelUpload
  <2>1. UNCHANGED <<journal, family, input, current, ack, backing, gpu>> /\ pending' \subseteq pending
    BY <1>5 DEF CancelUpload
  <2>2. build' = build \/ (build # None /\ build' # None /\ build'.in = build.in /\ build'.b = build.b)
    BY <1>0, <1>5, NoneAssumption DEF CancelUpload, Types, Builds
  <2>3. Named' \subseteq Named /\ pending' \subseteq pending /\ Settled' \subseteq Settled
    BY <2>1, <2>2 DEF Named, Settled
  <2> QED
    BY <1>0, <2>1, <2>2, <2>3 DEF Calm
<1>6. ASSUME NEW v \in pending, PublishVersion(v) PROVE Calm
  <2>1. UNCHANGED <<journal, family, input, build, ack, backing, gpu, uploads, lost>> /\ pending' \subseteq pending
        /\ current' \in {current, v}
    BY <1>6 DEF PublishVersion
  <2>2. Named' \subseteq Named /\ pending' \subseteq pending /\ Settled' \subseteq Settled \cup {v}
    BY <2>1 DEF Named, Settled
  <2>3. Unqueued(v)
    <3>1. DOMAIN uploads = 1 .. Len(uploads)
      BY <1>0 DEF Types
    <3> QED
      BY <1>6, <3>1 DEF PublishVersion, Unqueued
  <2> QED
    BY <1>0, <2>1, <2>2, <2>3 DEF Calm
<1>7. CASE AcknowledgeReadsFloor
  <2>1. /\ ack' # None => ack'.version = current
        /\ UNCHANGED <<journal, family, input, build, pending, current, backing, gpu, uploads, lost>>
    BY <1>7 DEF AcknowledgeReadsFloor
  <2>2. Named' \subseteq Named /\ pending' \subseteq pending /\ Settled' \subseteq Settled
    BY <2>1 DEF Named, Settled
  <2> QED
    BY <1>0, <2>1, <2>2 DEF Calm
<1>8. CASE Acknowledge
  <2>1. /\ ack # None /\ ack' = None /\ UNCHANGED <<family, input, build, pending, current, backing>>
        /\ journal'.previous \in {journal.previous, ack.version} /\ journal'.seq = journal.seq
    BY <1>0, <1>8 DEF Acknowledge, Journals
  <2>2. Named' \subseteq Named /\ pending' \subseteq pending /\ Settled' \subseteq Settled
    BY <2>1 DEF Named, Settled
  <2> QED
    BY <1>0, <2>1, <2>2 DEF Calm
<1>9. CASE FamilyAcknowledge
  <2>1. /\ family'.previous = current /\ family'.lastRevision = family.lastRevision
        /\ UNCHANGED <<journal, input, build, pending, current, ack>>
    BY <1>0, <1>9 DEF FamilyAcknowledge
  <2>2. Named' \subseteq Named /\ pending' \subseteq pending /\ Settled' \subseteq Settled
    BY <2>1 DEF Named, Settled
  <2>3. \A b \in Backings : /\ backing'[b].epoch = backing[b].epoch
                            /\ backing'[b].image = backing[b].image /\ backing'[b].class = backing[b].class
    BY <1>0, <1>9 DEF FamilyAcknowledge, Holdings, Types, Versions
  <2> QED
    BY <1>0, <2>1, <2>2, <2>3 DEF Calm
<1>10. ASSUME NEW c \in Backings, ClockPasses(c) PROVE Calm
  <2>1. UNCHANGED <<journal, family, input, build, pending, current, ack>>
    BY <1>10 DEF ClockPasses
  <2>2. Named' \subseteq Named /\ pending' \subseteq pending /\ Settled' \subseteq Settled
    BY <2>1 DEF Named, Settled
  <2>3. \A b \in Backings : /\ backing'[b].epoch = backing[b].epoch
                            /\ backing'[b].image = backing[b].image /\ backing'[b].class = backing[b].class
    BY <1>0, <1>10 DEF ClockPasses, Holdings
  <2> QED
    BY <1>0, <2>1, <2>2, <2>3 DEF Calm
<1>11. CASE UNCHANGED vars
  <2>1. Named' \subseteq Named /\ pending' \subseteq pending /\ Settled' \subseteq Settled
    BY <1>11 DEF vars, Named, Settled
  <2> QED
    BY <1>0, <1>11, <2>1 DEF vars, Calm
<1> QED
  BY <1>1, <1>2, <1>3, <1>4, <1>5, <1>6, <1>7, <1>8, <1>9, <1>10, <1>11

(* The new version of a finished build.                                    *)
Finished(version) ==
  /\ Writing /\ build.todo = {} /\ build' = None
  /\ version \in Versions /\ version.seq = build.in.seq /\ version.b = build.b /\ version.image = build.in.image
  /\ IF build.cancelled THEN pending' = pending ELSE pending' = pending \cup {version}
  /\ backing'[build.b].epoch = build.in.seq /\ backing'[build.b].image = build.in.image
  /\ backing'[build.b].class = backing[build.b].class
  /\ \A b \in Backings : b # build.b => backing'[b] = backing[b]
  /\ UNCHANGED <<journal, family, input, current, ack, gpu, uploads, lost>>

LEMMA FinishFacts ==
  ASSUME IInv, FinishBuild
  PROVE  \E version : Finished(version) /\ Named' \subseteq Named \cup {version} /\ Settled' \subseteq Settled
<1>0. /\ build \in Builds /\ build.b \in Backings /\ build.in \in Captures
      /\ backing \in [Backings -> Holdings] /\ backing[build.b].class # 0
  BY DEF IInv, Types, FinishBuild, Builds, VersionInv
<1> DEFINE version == [seq |-> build.in.seq, cap |-> backing[build.b].class, b |-> build.b, image |-> build.in.image]
<1>1. version \in Versions
  BY <1>0 DEF Versions, Captures, Holdings
<1>2. /\ version.seq = build.in.seq /\ version.b = build.b /\ version.image = build.in.image
  OBVIOUS
<1>3. /\ Writing /\ build.todo = {} /\ build' = None
      /\ pending' = IF build.cancelled THEN pending ELSE pending \cup {version}
      /\ UNCHANGED <<journal, family, input, current, ack, gpu, uploads, lost>>
  BY Zenon DEF FinishBuild, Writing
<1>4. /\ backing'[build.b].epoch = build.in.seq /\ backing'[build.b].image = build.in.image
      /\ backing'[build.b].class = backing[build.b].class
      /\ \A b \in Backings : b # build.b => backing'[b] = backing[b]
  BY <1>0 DEF FinishBuild, Holdings
<1> HIDE DEF version
<1>5. IF build.cancelled THEN pending' = pending ELSE pending' = pending \cup {version}
  BY <1>3, Zenon
<1>6. Finished(version)
  BY <1>1, <1>2, <1>3, <1>4, <1>5 DEF Finished
<1>7. pending' \subseteq pending \cup {version}
  BY <1>5
<1>8. Named' \subseteq Named \cup {version} /\ Settled' \subseteq Settled
  BY <1>3, <1>7 DEF Named, Settled
<1> QED
  BY <1>6, <1>8

(* The first write of a build: the backing's claim goes, if anything is    *)
(* written.                                                                *)
Begun ==
  /\ build # None /\ build.at = "leased" /\ build' # None
  /\ build' = [build EXCEPT !.todo = DirtyRows(build.b, build.in, build.allocated), !.at = "writing"]
  /\ \A b \in Backings : b # build.b \/ build.in.image.size = 0 => backing'[b] = backing[b]
  /\ build.in.image.size # 0 =>
       /\ backing'[build.b].epoch = 0 /\ backing'[build.b].image = None
       /\ backing'[build.b].class = backing[build.b].class
  /\ Named' = Named /\ Settled' = Settled
  /\ UNCHANGED <<journal, family, input, pending, current, ack, gpu, uploads>>

LEMMA BeginFacts ==
  ASSUME IInv, BeginWrites
  PROVE  Begun
<1>0. /\ build \in Builds /\ build.b \in Backings /\ build.in \in Captures /\ build.in.image.size \in Nat
      /\ backing \in [Backings -> Holdings]
  BY VersionedBufferAssumption DEF IInv, Types, BeginWrites, Builds, Captures, Images
<1>1. /\ build # None /\ build.at = "leased"
      /\ build' = [build EXCEPT !.todo = DirtyRows(build.b, build.in, build.allocated), !.at = "writing"]
      /\ backing' = IF build.in.image.size = 0 THEN backing ELSE Forget(build.b)
      /\ UNCHANGED <<journal, family, input, pending, current, ack, gpu, uploads>>
  BY Zenon DEF BeginWrites
<1>2. build'.in = build.in
  BY <1>0, <1>1 DEF Builds
<1>3. Builds # {} /\ build' \in Builds
  <2>1. DirtyRows(build.b, build.in, build.allocated) \in SUBSET Index
    <3>1. Rows \in Nat
      BY VersionedBufferAssumption
    <3> QED
      BY <1>0, <3>1 DEF DirtyRows, Captures, Writes, Images, Index
  <2> QED
    BY <1>0, <1>1, <2>1 DEF Builds
<1>4. build' # None
  BY <1>3, NoneAssumption
<1>5. Named' = Named /\ Settled' = Settled
  BY <1>1, <1>2, <1>4 DEF Named, Settled
<1>6. \A b \in Backings : b # build.b \/ build.in.image.size = 0 => backing'[b] = backing[b]
  BY <1>0, <1>1 DEF Forget
<1>7. build.in.image.size # 0 =>
        /\ backing'[build.b].epoch = 0 /\ backing'[build.b].image = None
        /\ backing'[build.b].class = backing[build.b].class
  BY <1>0, <1>1 DEF Forget, Holdings
<1> QED
  BY <1>1, <1>4, <1>5, <1>6, <1>7 DEF Begun

(* The capture of the journal.                                             *)
Captured ==
  /\ journal.seq # family.lastRevision
  /\ family'.previous = family.previous /\ family'.lastRevision = journal.seq
  /\ input' # None /\ input' = CaptureDesired
  /\ Named' \subseteq Named /\ Settled' \subseteq Settled
  /\ UNCHANGED <<journal, build, pending, current, ack, backing, gpu, uploads, lost>>

LEMMA CaptureFacts ==
  ASSUME IInv, RequestCapture
  PROVE  Captured /\ CaptureDesired \in Captures
<1>0. /\ journal \in Journals
      /\ family \in [previous : Versions \cup {None}, lastRevision : 0 .. MaxSequence]
  BY DEF IInv, Types
<1>1. CaptureDesired \in Captures /\ CaptureDesired.previous = journal.previous
  BY <1>0 DEF CaptureDesired, Journals, Captures, ImageOf, Images
<1>2. /\ journal.seq # family.lastRevision
      /\ family'.previous = family.previous /\ family'.lastRevision = journal.seq /\ input' = CaptureDesired
      /\ UNCHANGED <<journal, build, pending, current, ack, backing, gpu, uploads, lost>>
  BY <1>0 DEF RequestCapture
<1>3. input' # None
  BY <1>1, <1>2, NoneAssumption
<1>4. Named' \subseteq Named /\ Settled' \subseteq Settled
  BY <1>1, <1>2, <1>3 DEF Named, Settled
<1> QED
  BY <1>1, <1>2, <1>3, <1>4 DEF Captured

LEMMA AcquiredNames ==
  ASSUME Types, NEW b \in Backings, NEW allocated \in BOOLEAN, NEW gone, Acquired(b, allocated, gone)
  PROVE  /\ Named' \subseteq Named /\ Settled' \subseteq Settled
         /\ build' # None /\ build'.in = input /\ build'.b = b
<1>1. build' # None /\ build'.in = input /\ build'.b = b
  <2>1. build' \in Builds
    BY DEF Acquired, Builds, Types
  <2> QED
    BY <2>1, NoneAssumption DEF Acquired
<1> QED
  BY <1>1 DEF Acquired, Named, Settled

(* Of these, the steps that leave the queue alone.                         *)
Still ==
  /\ UNCHANGED <<gpu, uploads, lost>>
  /\ build' = None \/ build' = build
  /\ \A v \in pending : v \notin pending' => Unqueued(v)

LEMMA StillSteps ==
  ASSUME Types,
         \/ Writers \/ Drop \/ (\E v \in pending : PublishVersion(v)) \/ AcknowledgeReadsFloor \/ Acknowledge
         \/ FamilyAcknowledge \/ (\E b \in Backings : ClockPasses(b)) \/ UNCHANGED vars
  PROVE  Still
<1>1. CASE Writers
  <2>1. PICK rows \in SUBSET Index : Wrote(rows)
    BY <1>1, WriterFacts
  <2> QED
    BY <2>1 DEF Wrote, Still
<1>2. CASE Drop
  BY <1>2 DEF Drop, CancelBuild, FailBuild, Still
<1>3. ASSUME NEW v \in pending, PublishVersion(v) PROVE Still
  <2>1. DOMAIN uploads = 1 .. Len(uploads)
    BY DEF Types
  <2> QED
    BY <1>3, <2>1 DEF PublishVersion, Unqueued, Still
<1>4. CASE AcknowledgeReadsFloor \/ Acknowledge
  BY <1>4 DEF AcknowledgeReadsFloor, Acknowledge, Still
<1>5. CASE FamilyAcknowledge
  BY <1>5 DEF FamilyAcknowledge, Still
<1>6. ASSUME NEW b \in Backings, ClockPasses(b) PROVE Still
  BY <1>6 DEF ClockPasses, Still
<1>7. CASE UNCHANGED vars
  BY <1>7 DEF vars, Still
<1> QED
  BY <1>1, <1>2, <1>3, <1>4, <1>5, <1>6, <1>7

(* The steps of the system, one class at a time.                           *)
LEMMA StepClasses ==
  ASSUME IInv, [Next]_vars
  PROVE  \/ Calm /\ \/ Writers
                    \/ Drop \/ QueueUpload \/ RunUpload \/ CancelUpload
                    \/ (\E v \in pending : PublishVersion(v)) \/ AcknowledgeReadsFloor \/ Acknowledge
                    \/ FamilyAcknowledge \/ (\E b \in Backings : ClockPasses(b)) \/ UNCHANGED vars
         \/ RequestCapture \/ Acquire \/ BeginWrites \/ FinishBuild
BY CalmSteps, Zenon DEF Next, Writers, Drop

LEMMA NamedAreVersions ==
  ASSUME Types
  PROVE  \A v \in Named : /\ v \in Versions /\ v # None /\ v.seq \in 1 .. MaxSequence /\ v.b \in Backings
                          /\ v.image \in Images
<1>1. Named \subseteq Versions
  BY NoneAssumption DEF Types, Named, Journals, Acks, Captures, Builds
<1> QED
  BY <1>1, NoneAssumption DEF Versions

LEMMA Numbers ==
  ASSUME Types
  PROVE  /\ MaxSequence \in Nat /\ Rows \in Nat /\ None \notin Builds /\ None \notin Captures
         /\ journal.seq \in Nat \ {0} /\ journal.base \in Nat /\ journal.count \in 0 .. Rows
         /\ family.lastRevision \in Nat
         /\ \A v \in Named : v.seq \in Nat \ {0} /\ v.b \in Backings
         /\ \A b \in Backings : backing[b].epoch \in Nat
         /\ build # None => /\ build.in \in Captures /\ build.in.seq \in Nat \ {0} /\ build.b \in Backings
                            /\ build.in.image.size \in 0 .. Rows
         /\ input # None => input.seq \in Nat \ {0}
         /\ ack # None => /\ ack.version \in Named /\ ack.version \in Versions
                          /\ ack.floor # None => ack.floor \in Nat \ {0}
         /\ journal.previous # None => journal.previous \in Named
         /\ \A k \in 1 .. Len(uploads) : /\ uploads[k] \in Uploads /\ uploads[k].seq \in Nat \ {0}
                                         /\ uploads[k].b \in Backings
<1>0. MaxSequence \in Nat /\ Rows \in Nat /\ None \notin Builds /\ None \notin Captures
  BY VersionedBufferAssumption, NoneAssumption
<1>1. /\ journal.seq \in Nat \ {0} /\ journal.base \in Nat /\ journal.count \in 0 .. Rows
      /\ family.lastRevision \in Nat
      /\ \A b \in Backings : backing[b].epoch \in Nat
  BY <1>0 DEF Types, Journals, Holdings
<1>2. \A v \in Named : v.seq \in Nat \ {0} /\ v.b \in Backings
  BY <1>0, NamedAreVersions
<1>3. build # None => /\ build.in \in Captures /\ build.in.seq \in Nat \ {0} /\ build.b \in Backings
                      /\ build.in.image.size \in 0 .. Rows
  BY <1>0 DEF Types, Builds, Captures, Images
<1>4. input # None => input.seq \in Nat \ {0}
  BY <1>0 DEF Types, Captures
<1>5. ack # None => /\ ack.version \in Named /\ ack.version \in Versions
                    /\ ack.floor # None => ack.floor \in Nat \ {0}
  BY <1>0, NoneAssumption DEF Types, Acks, Named
<1>6. journal.previous # None => journal.previous \in Named
  BY DEF Named
<1>7. \A k \in 1 .. Len(uploads) : /\ uploads[k] \in Uploads /\ uploads[k].seq \in Nat \ {0}
                                   /\ uploads[k].b \in Backings
  <2>1. \A k \in 1 .. Len(uploads) : uploads[k] \in Uploads
    BY DEF Types
  <2> QED
    BY <1>0, <2>1 DEF Uploads
<1> QED
  BY <1>0, <1>1, <1>2, <1>3, <1>4, <1>5, <1>6, <1>7

(* Sequences are captured in order, and built once.                        *)
LEMMA OrderStep ==
  ASSUME IInv, [Next]_vars
  PROVE  OrderInv'
<1>0. Types /\ OrderInv /\ Types'
  BY TypesStep DEF IInv
<1>1. ASSUME Calm PROVE OrderInv'
  <2>1. journal'.seq \in Nat
    BY <1>0, Numbers DEF Types, Journals
  <2>2. /\ family.lastRevision <= journal'.seq
        /\ \A v \in Named : v.seq \in Nat
    BY <1>0, <1>1, <2>1, Numbers DEF OrderInv, Calm
  <2> QED
    BY <1>0, <1>1, <2>2 DEF OrderInv, Calm
<1>2. ASSUME RequestCapture PROVE OrderInv'
  <2>1. Captured /\ CaptureDesired.seq = journal.seq
    BY <1>2, CaptureFacts DEF CaptureDesired
  <2> QED
    BY <1>0, <2>1, Numbers DEF OrderInv, Captured
<1>3. ASSUME Acquire PROVE OrderInv'
  <2>1. PICK b \in Backings, allocated \in BOOLEAN, gone \in SUBSET Reusable : Acquired(b, allocated, gone)
    BY <1>3, AcquireFacts
  <2>2. Named' \subseteq Named /\ build' # None /\ build'.in = input /\ build'.b = b
    BY <1>0, <2>1, AcquiredNames
  <2>3. \A x \in Backings : backing'[x].epoch = 0 \/ backing'[x].epoch = backing[x].epoch
    BY <2>1 DEF Acquired, Empty, Claims
  <2>4. input # None /\ input' = None /\ UNCHANGED <<journal, family>>
    BY <2>1 DEF Acquired
  <2> QED
    BY <1>0, <2>2, <2>3, <2>4, Numbers DEF OrderInv
<1>4. ASSUME BeginWrites PROVE OrderInv'
  <2>1. Begun
    BY <1>4, BeginFacts
  <2>2. build # None /\ build'.in = build.in
    BY <1>0, <2>1 DEF Begun, Types, Builds
  <2>3. \A x \in Backings : backing'[x].epoch = 0 \/ backing'[x].epoch = backing[x].epoch
    BY <2>1 DEF Begun
  <2>4. Named' = Named /\ UNCHANGED <<journal, family, input>>
    BY <2>1 DEF Begun
  <2> QED
    BY <1>0, <2>2, <2>3, <2>4, Numbers DEF OrderInv
<1>5. ASSUME FinishBuild PROVE OrderInv'
  <2>1. PICK version : Finished(version) /\ Named' \subseteq Named \cup {version}
    BY <1>5, FinishFacts
  <2>2. /\ build # None /\ build' = None /\ version.seq = build.in.seq /\ UNCHANGED <<journal, family, input>>
        /\ \A x \in Backings : backing'[x].epoch = build.in.seq \/ backing'[x].epoch = backing[x].epoch
    BY <2>1 DEF Finished, Writing
  <2> QED
    BY <1>0, <2>1, <2>2, Numbers DEF OrderInv
<1> QED
  BY <1>1, <1>2, <1>3, <1>4, <1>5, StepClasses

(* While a version is named its backing claims it.                         *)
LEMMA VersionStep ==
  ASSUME IInv, [Next]_vars
  PROVE  VersionInv'
<1>0. /\ Types /\ VersionInv
      /\ \A v \in Named : v.b \in Backings
      /\ build # None => build.b \in Backings
      /\ \A b \in Backings : backing[b].epoch \in Nat
  BY Numbers DEF IInv
<1>1. ASSUME Calm PROVE VersionInv'
  BY <1>0, <1>1 DEF VersionInv, Calm, Claims
<1>2. ASSUME RequestCapture PROVE VersionInv'
  BY <1>0, <1>2, CaptureFacts DEF VersionInv, Captured, Claims
<1>3. ASSUME Acquire PROVE VersionInv'
  <2>1. PICK b \in Backings, allocated \in BOOLEAN, gone \in SUBSET Reusable : Acquired(b, allocated, gone)
    BY <1>3, AcquireFacts
  <2>2. Named' \subseteq Named /\ build' # None /\ build'.in = input /\ build'.b = b
    BY <1>0, <2>1, AcquiredNames
  <2>3. \A v \in Named : v.b \notin gone /\ v.b # b
    BY <2>1 DEF Acquired, Reusable, Leased
  <2>4. \A x \in Backings : x # b => backing'[x] = IF x \in gone THEN Empty ELSE backing[x]
    BY <2>1 DEF Acquired
  <2>5. backing'[b].class # 0 /\ (backing'[b] = backing[b] \/ ~Claims(b)')
    BY <2>1 DEF Acquired
  <2>6. Empty.epoch = 0
    BY DEF Empty
  <2>7. \A x \in Backings : Claims(x)' => backing'[x] = backing[x]
    BY <2>4, <2>5, <2>6 DEF Claims
  <2> QED
    BY <1>0, <2>2, <2>3, <2>4, <2>5, <2>7 DEF VersionInv, Claims
<1>4. ASSUME BeginWrites PROVE VersionInv'
  <2>1. Begun
    BY <1>4, BeginFacts
  <2>2. build # None /\ build'.b = build.b
    BY <1>0, <2>1 DEF Begun, Types, Builds
  <2>3. /\ Named' = Named
        /\ \A b \in Backings : \/ backing'[b] = backing[b]
                               \/ /\ b = build.b /\ backing'[b].epoch = 0
                                  /\ backing'[b].class = backing[b].class
    BY <2>1 DEF Begun
  <2> QED
    BY <1>0, <2>2, <2>3 DEF VersionInv, Claims
<1>5. ASSUME FinishBuild PROVE VersionInv'
  <2>1. PICK version : Finished(version) /\ Named' \subseteq Named \cup {version}
    BY <1>5, FinishFacts
  <2>2. /\ build # None /\ build' = None /\ version.seq = build.in.seq /\ version.b = build.b
        /\ version.image = build.in.image
        /\ backing'[build.b].epoch = build.in.seq /\ backing'[build.b].image = build.in.image
        /\ backing'[build.b].class = backing[build.b].class
        /\ \A x \in Backings : x # build.b => backing'[x] = backing[x]
    BY <2>1 DEF Finished, Writing
  <2>3. build.in.image # None
    BY <1>0, <2>2, NoneAssumption DEF Types, Builds, Captures
  <2> QED
    BY <1>0, <2>1, <2>2, <2>3 DEF VersionInv, Claims
<1> QED
  BY <1>1, <1>2, <1>3, <1>4, <1>5, StepClasses

LEMMA JournalChanges ==
  ASSUME IInv, [Next]_vars
  PROVE  Writers \/ Acknowledge \/ journal' = journal
BY StepClasses, CaptureFacts, AcquireFacts, BeginFacts, FinishFacts
   DEF Calm, Captured, Acquired, Begun, Finished, Drop, CancelBuild, FailBuild, QueueUpload, RunUpload,
       CancelUpload, PublishVersion, AcknowledgeReadsFloor, FamilyAcknowledge, ClockPasses, vars

(* Every capture has all writes from its base on.                          *)
LEMMA ClosedStep ==
  ASSUME IInv, [Next]_vars
  PROVE  ClosedInv'
<1>0. /\ Types /\ journal.seq \in Nat \ {0} /\ journal.base \in Nat /\ build' \in Builds \cup {None}
      /\ Closed(journal.writes, journal.base, journal.seq) /\ journal.base <= journal.seq
      /\ input # None => Closed(input.writes, input.base, input.seq)
      /\ build # None => Closed(build.in.writes, build.in.base, build.in.seq)
  <2>1. \A c \in ({input} \cup (IF build = None THEN {} ELSE {build.in})) \ {None} : Closed(c.writes, c.base, c.seq)
    BY DEF IInv, ClosedInv
  <2>2. build # None => build.in # None
    BY Numbers DEF IInv
  <2>3. build' \in Builds \cup {None}
    BY TypesStep DEF Types
  <2> QED
    BY <2>1, <2>2, <2>3, Numbers DEF IInv, ClosedInv
<1>1. /\ Closed(journal'.writes, journal'.base, journal'.seq) /\ journal'.base <= journal'.seq
  <2>1. ASSUME NEW rows \in SUBSET Index, Wrote(rows)
        PROVE  Closed(journal'.writes, journal'.base, journal'.seq) /\ journal'.base <= journal'.seq
    <3>1. Max({journal.base, 1}) = IF journal.base >= 1 THEN journal.base ELSE 1
      BY <1>0, Extremes2
    <3>2. PICK m \in Nat : m = Max({journal.base, 1}) + 1 /\ m <= journal.seq + 1
      BY <1>0, <3>1
    <3>3. {w.seq : w \in journal.writes} = m .. journal.seq
      BY <1>0, <3>2 DEF Closed
    <3>4. {w.seq : w \in journal'.writes} = {w.seq : w \in journal.writes} \cup {journal.seq + 1}
      <4>1. PICK x : x = [seq |-> journal.seq + 1, rows |-> rows]
        OBVIOUS
      <4>2. x.seq = journal.seq + 1
        BY <4>1
      <4>3. journal'.writes = journal.writes \cup {x}
        BY <2>1, <4>1 DEF Wrote
      <4> QED
        BY <4>2, <4>3
    <3>6. journal'.base = journal.base /\ journal'.seq = journal.seq + 1
      BY <2>1 DEF Wrote
    <3>5. {w.seq : w \in journal'.writes} = m .. (journal.seq + 1)
      BY <1>0, <3>2, <3>3, <3>4
    <3>7. Closed(journal'.writes, journal'.base, journal'.seq)
      <4>1. (Max({journal'.base, 1}) + 1) .. journal'.seq = m .. (journal.seq + 1)
        BY <3>2, <3>6
      <4> QED
        BY <3>5, <4>1 DEF Closed
    <3> QED
      BY <1>0, <3>6, <3>7
  <2>2. ASSUME Acknowledge
        PROVE  Closed(journal'.writes, journal'.base, journal'.seq) /\ journal'.base <= journal'.seq
    <3>1. CASE journal' = journal
      BY <1>0, <3>1
    <3>2. ASSUME NEW base \in 0 .. MaxSequence, base >= journal.base,
                 base = journal.base \/ base <= ack.version.seq, ack.version.seq <= journal.seq,
                 journal' = [journal EXCEPT !.previous = ack.version, !.base = base,
                               !.writes = {w \in journal.writes : w.seq > base}]
          PROVE  Closed(journal'.writes, journal'.base, journal'.seq) /\ journal'.base <= journal'.seq
      <4>1. /\ journal'.seq = journal.seq /\ journal'.base = base
            /\ journal'.writes = {w \in journal.writes : w.seq > base}
        BY <1>0, <3>2 DEF Types, Journals
      <4>2. base \in Nat /\ base <= journal.seq
        <5>1. ack # None /\ ack.version.seq \in Nat
          BY <1>0, <2>2, Numbers DEF Acknowledge
        <5> QED
          BY <1>0, <3>2, <5>1, Numbers
      <4>3. /\ Max({journal.base, 1}) = IF journal.base >= 1 THEN journal.base ELSE 1
            /\ Max({base, 1}) = IF base >= 1 THEN base ELSE 1
        BY <1>0, <4>2, Extremes2
      <4>4. {w.seq : w \in journal.writes} = (Max({journal.base, 1}) + 1) .. journal.seq
        BY <1>0 DEF Closed
      <4>5. {w.seq : w \in journal'.writes} = {s \in {w.seq : w \in journal.writes} : s > base}
        BY <4>1
      <4>6. {w.seq : w \in journal'.writes} = (Max({base, 1}) + 1) .. journal.seq
        <5>1. PICK m \in Nat, n \in Nat : m = Max({journal.base, 1}) + 1 /\ n = Max({base, 1}) + 1
          BY <1>0, <4>2, <4>3
        <5>2. m <= n /\ n > base /\ n >= 2 /\ (n = base + 1 \/ n = m)
          BY <1>0, <3>2, <4>2, <4>3, <5>1
        <5>3. \A s \in m .. journal.seq : s > base <=> s \in n .. journal.seq
          BY <1>0, <3>2, <4>2, <5>1, <5>2
        <5>4. \A s \in n .. journal.seq : s \in m .. journal.seq
          BY <1>0, <5>1, <5>2
        <5>5. {s \in m .. journal.seq : s > base} = n .. journal.seq
          BY <5>3, <5>4
        <5> QED
          BY <4>4, <4>5, <5>1, <5>5
      <4> QED
        BY <4>1, <4>2, <4>6 DEF Closed
    <3> QED
      BY <2>2, <3>1, <3>2, AcknowledgeFacts, Zenon
  <2>3. Writers \/ Acknowledge \/ journal' = journal
    BY JournalChanges
  <2> QED
    BY <1>0, <2>1, <2>2, <2>3, WriterFacts
<1>2. /\ input' # None => Closed(input'.writes, input'.base, input'.seq)
      /\ build' # None => Closed(build'.in.writes, build'.in.base, build'.in.seq)
  <2>1. ASSUME Calm
        PROVE  /\ input' # None => Closed(input'.writes, input'.base, input'.seq)
               /\ build' # None => Closed(build'.in.writes, build'.in.base, build'.in.seq)
    BY <1>0, <2>1 DEF Calm
  <2>2. ASSUME RequestCapture
        PROVE  /\ input' # None => Closed(input'.writes, input'.base, input'.seq)
               /\ build' # None => Closed(build'.in.writes, build'.in.base, build'.in.seq)
    BY <1>0, <2>2, CaptureFacts DEF Captured, CaptureDesired
  <2>3. ASSUME NEW b \in Backings, NEW allocated \in BOOLEAN, NEW gone \in SUBSET Reusable,
               Acquired(b, allocated, gone)
        PROVE  /\ input' # None => Closed(input'.writes, input'.base, input'.seq)
               /\ build' # None => Closed(build'.in.writes, build'.in.base, build'.in.seq)
    <3>1. input # None /\ input' = None /\ build'.in = input
      BY <2>3 DEF Acquired
    <3> QED
      BY <1>0, <3>1
  <2>4. ASSUME BeginWrites
        PROVE  /\ input' # None => Closed(input'.writes, input'.base, input'.seq)
               /\ build' # None => Closed(build'.in.writes, build'.in.base, build'.in.seq)
    <3>1. build # None /\ input' = input /\ build'.in = build.in
      BY <1>0, <2>4, BeginFacts DEF Begun, Types, Builds
    <3> QED
      BY <1>0, <3>1
  <2>5. ASSUME FinishBuild
        PROVE  /\ input' # None => Closed(input'.writes, input'.base, input'.seq)
               /\ build' # None => Closed(build'.in.writes, build'.in.base, build'.in.seq)
    BY <1>0, <2>5, FinishFacts DEF Finished
  <2> QED
    BY <2>1, <2>2, <2>3, <2>4, <2>5, StepClasses, AcquireFacts
<1> QED
  BY <1>1, <1>2 DEF ClosedInv

(* The journal reaches back to every claim.                                *)
LEMMA ReachStep ==
  ASSUME IInv, [Next]_vars
  PROVE  ReachInv'
<1>0. /\ Types /\ ReachInv
      /\ journal.seq \in Nat /\ journal.base \in Nat
      /\ \A b \in Backings : backing[b].epoch \in Nat
  BY Numbers DEF IInv
<1> DEFINE Kept == \A x \in Backings : backing'[x].epoch = 0 \/ backing'[x].epoch = backing[x].epoch
<1>1. ASSUME Kept, journal'.base = journal.base, journal'.previous = journal.previous, ack' \in {None, ack}
      PROVE  ReachInv'
  BY <1>0, <1>1 DEF ReachInv, Claims
<1>2. ASSUME Writers, Calm PROVE ReachInv'
  <2>1. PICK rows \in SUBSET Index : Wrote(rows)
    BY <1>0, <1>2, WriterFacts
  <2> QED
    BY <1>1, <1>2, <2>1 DEF Wrote, Calm
<1>3. ASSUME Calm, Drop \/ QueueUpload \/ RunUpload \/ CancelUpload \/ (\E v \in pending : PublishVersion(v))
                   \/ FamilyAcknowledge \/ (\E b \in Backings : ClockPasses(b)) \/ UNCHANGED vars
      PROVE  ReachInv'
  <2>1. journal' = journal /\ ack' = ack
    BY <1>3 DEF Drop, CancelBuild, FailBuild, QueueUpload, RunUpload, CancelUpload, PublishVersion,
                FamilyAcknowledge, ClockPasses, vars
  <2> QED
    BY <1>1, <1>3, <2>1 DEF Calm
<1>4. ASSUME AcknowledgeReadsFloor PROVE ReachInv'
  <2>1. UNCHANGED <<journal, backing>> /\ ack'.floor = OldestContentEpoch
    BY <1>4 DEF AcknowledgeReadsFloor
  <2> QED
    BY <1>0, <2>1, FloorExists DEF ReachInv, Claims
<1>5. ASSUME Acknowledge PROVE ReachInv'
  <2>0. ack # None /\ ack' = None /\ backing' = backing
    BY <1>5, AcknowledgeFacts
  <2>1. CASE journal' = journal
    BY <1>1, <2>0, <2>1
  <2>2. ASSUME NEW base \in 0 .. MaxSequence, base >= journal.base,
               base = journal.base \/ base <= ack.version.seq,
               base = journal.base \/ (ack.floor # None => base <= ack.floor),
               journal.previous # None => ack.version.seq > journal.previous.seq,
               journal' = [journal EXCEPT !.previous = ack.version, !.base = base,
                             !.writes = {w \in journal.writes : w.seq > base}]
        PROVE  ReachInv'
    <3>1. journal'.previous = ack.version /\ journal'.base = base
      BY <1>0, <2>2 DEF Types, Journals
    <3>2. /\ base \in Nat /\ ack.version.seq \in Nat /\ ack.version # None
          /\ ack.floor # None => ack.floor \in Nat
          /\ journal.previous # None => journal.previous.seq \in Nat
      <4>1. ack.version \in Named /\ (ack.floor # None => ack.floor \in Nat)
            /\ (journal.previous # None => journal.previous \in Named)
        BY <1>0, <2>0, Numbers
      <4>2. base \in Nat
        BY <1>0, Numbers
      <4> QED
        BY <1>0, <4>1, <4>2, Numbers, NamedAreVersions
    <3>3. base # 0 => base <= ack.version.seq
      BY <1>0, <2>2, <3>2 DEF ReachInv
    <3>4. \A b \in Backings : Claims(b) => backing[b].epoch >= base
      BY <1>0, <2>0, <2>2, <3>2 DEF ReachInv
    <3> QED
      BY <2>0, <3>1, <3>2, <3>3, <3>4 DEF ReachInv, Claims
  <2> QED
    BY <1>5, <2>1, <2>2, AcknowledgeFacts, Zenon
<1>6. ASSUME RequestCapture PROVE ReachInv'
  BY <1>1, <1>6, CaptureFacts DEF Captured
<1>7. ASSUME Acquire PROVE ReachInv'
  <2>1. PICK b \in Backings, allocated \in BOOLEAN, gone \in SUBSET Reusable : Acquired(b, allocated, gone)
    BY <1>7, AcquireFacts
  <2>2. Kept
    BY <2>1 DEF Acquired, Empty, Claims
  <2> QED
    BY <1>1, <2>1, <2>2 DEF Acquired
<1>8. ASSUME BeginWrites PROVE ReachInv'
  <2>1. Kept /\ journal' = journal /\ ack' = ack
    BY <1>8, BeginFacts DEF Begun
  <2> QED
    BY <1>1, <2>1
<1>9. ASSUME FinishBuild PROVE ReachInv'
  <2>1. PICK version : Finished(version) /\ Named' \subseteq Named \cup {version}
    BY <1>9, FinishFacts
  <2>2. /\ build # None /\ UNCHANGED <<journal, ack>>
        /\ backing'[build.b].epoch = build.in.seq
        /\ \A x \in Backings : x # build.b => backing'[x] = backing[x]
    BY <2>1 DEF Finished, Writing
  <2>3. \A v \in Named : v.seq < build.in.seq /\ v.seq \in Nat
    BY <1>0, <2>2, Numbers DEF IInv, OrderInv
  <2>4. build.in.seq \in Nat
    BY <1>0, <2>2, Numbers
  <2>5. build.in.seq >= journal.base
    <3>1. journal.base # 0 => journal.previous \in Named
      BY <1>0, Numbers DEF ReachInv
    <3> QED
      BY <1>0, <2>3, <2>4, <3>1 DEF ReachInv
  <2>6. ack # None => build.in.seq >= ack.version.seq
    BY <1>0, <2>3, <2>4, Numbers
  <2> QED
    BY <1>0, <2>2, <2>5, <2>6 DEF ReachInv, Claims
<1> QED
  BY <1>2, <1>3, <1>4, <1>5, <1>6, <1>7, <1>8, <1>9, StepClasses

(* The journal goes on following what it followed.                         *)
LEMMA LedStep ==
  ASSUME IInv, [Next]_vars, ~SparseAfterShrink,
         NEW image \in Images, NEW e \in Nat, e <= journal.seq, Led(image, e, journal)
  PROVE  Led(image, e, journal')
<1>0. /\ Types /\ journal.seq \in Nat \ {0} /\ journal.base \in Nat /\ journal.count \in 0 .. Rows /\ Rows \in Nat
      /\ image.size \in 0 .. Rows /\ journal \in Journals
      /\ \A w \in journal.writes : w.seq \in Nat
  <2>1. /\ journal \in Journals /\ image.size \in 0 .. Rows
    BY DEF IInv, Types, Images
  <2>2. \A w \in journal.writes : w.seq \in Nat
    BY <2>1, VersionedBufferAssumption DEF Journals, Writes
  <2> QED
    BY <2>1, <2>2, Numbers DEF IInv
<1>1. /\ e >= journal.base => \A r \in Index : r <= image.size /\ r <= journal.count /\ journal.rows[r] # image.rows[r] =>
           \E w \in journal.writes : w.seq > e /\ r \in w.rows
      /\ ~journal.shrunk => image.size <= journal.count
  BY DEF Led, Follows, ImageOf
<1>2. ASSUME NEW rows \in SUBSET Index, Wrote(rows)
      PROVE  Led(image, e, journal')
  <2>1. PICK last : last = [seq |-> journal.seq + 1, rows |-> rows]
    OBVIOUS
  <2>2. last \in journal'.writes /\ last.seq > e /\ last.rows = rows /\ journal.writes \subseteq journal'.writes
    BY <1>0, <1>2, <2>1 DEF Wrote
  <2>3. ASSUME e >= journal.base, NEW r \in Index, r <= image.size, r <= journal'.count,
               journal'.rows[r] # image.rows[r]
        PROVE  \E w \in journal'.writes : w.seq > e /\ r \in w.rows
    <3>1. \/ r \in rows
          \/ r <= journal.count /\ journal'.rows[r] = journal.rows[r]
          \/ r > journal.count /\ ~journal.shrunk
      BY <1>2, <2>3 DEF Wrote
    <3>2. CASE r \in rows
      BY <2>2, <3>2
    <3>3. CASE r <= journal.count /\ journal'.rows[r] = journal.rows[r]
      BY <1>1, <2>2, <2>3, <3>3
    <3>4. CASE r > journal.count /\ ~journal.shrunk
      BY <1>0, <1>1, <2>3, <3>4 DEF Index
    <3> QED
      BY <3>1, <3>2, <3>3, <3>4
  <2>4. ~journal'.shrunk => image.size <= journal'.count
    <3>1. ~journal'.shrunk => ~journal.shrunk /\ journal.count <= journal'.count
      BY <1>2 DEF Wrote
    <3>2. journal'.count \in 0 .. Rows
      BY TypesStep DEF Types, Journals
    <3>3. image.size <= journal.count /\ journal.count <= journal'.count => image.size <= journal'.count
      BY <1>0, <3>2
    <3> QED
      BY <1>1, <3>1, <3>3
  <2>5. journal'.base = journal.base
    BY <1>2 DEF Wrote
  <2> QED
    BY <2>3, <2>4, <2>5 DEF Led, Follows, ImageOf
<1>3. ASSUME Acknowledge PROVE Led(image, e, journal')
  <2>1. ASSUME NEW base \in 0 .. MaxSequence, base >= journal.base,
               journal' = [journal EXCEPT !.previous = ack.version, !.base = base,
                             !.writes = {w \in journal.writes : w.seq > base}]
        PROVE  Led(image, e, journal')
    <3>1. /\ journal'.base = base /\ journal'.count = journal.count /\ journal'.rows = journal.rows
          /\ journal'.writes = {w \in journal.writes : w.seq > base}
      BY <1>0, <2>1 DEF Journals
    <3>2. journal'.shrunk = journal.shrunk
      BY <1>0, <2>1 DEF Journals
    <3>3. base \in Nat
      BY <2>1, VersionedBufferAssumption
    <3>4. ASSUME e >= base, NEW r \in Index, r <= image.size, r <= journal.count,
                 journal.rows[r] # image.rows[r]
          PROVE  \E w \in journal'.writes : w.seq > e /\ r \in w.rows
      <4>1. e >= journal.base
        BY <1>0, <2>1, <3>3, <3>4
      <4>2. PICK w \in journal.writes : w.seq > e /\ r \in w.rows
        BY <1>1, <3>4, <4>1
      <4>3. w.seq > base
        BY <1>0, <3>3, <3>4, <4>2
      <4> QED
        BY <3>1, <4>2, <4>3
    <3>5. ~journal'.shrunk => image.size <= journal'.count
      BY <1>1, <3>1, <3>2, Zenon
    <3> QED
      BY <3>1, <3>4, <3>5 DEF Led, Follows, ImageOf
  <2> QED
    BY <1>3, <2>1, AcknowledgeFacts, Zenon
<1> QED
  BY <1>0, <1>2, <1>3, WriterFacts, JournalChanges

(* What is claimed or captured is followed.                                *)
LEMMA FollowStep ==
  ASSUME IInv, [Next]_vars
  PROVE  FollowInv'
<1> SUFFICES ASSUME ~SparseAfterShrink PROVE FollowInv'
  BY DEF FollowInv
<1>0. /\ Types /\ FollowInv
      /\ \A b \in Backings : Claims(b) =>
           /\ backing[b].image \in Images /\ backing[b].epoch \in Nat /\ backing[b].epoch <= journal.seq
      /\ build # None => build.in.image \in Images /\ build.in.seq \in Nat /\ build.in.seq <= journal.seq
      /\ input # None => input.image \in Images /\ input.seq \in Nat /\ input.seq <= journal.seq
  <2>1. /\ family.lastRevision \in Nat /\ journal.seq \in Nat /\ family.lastRevision <= journal.seq
        /\ \A b \in Backings : backing[b].epoch \in Nat /\ backing[b].epoch <= family.lastRevision
        /\ build # None => build.in.seq \in Nat /\ build.in.seq <= family.lastRevision
        /\ input # None => input.seq \in Nat /\ input.seq <= family.lastRevision
    BY Numbers DEF IInv, OrderInv
  <2>2. \A b \in Backings : Claims(b) => backing[b].image \in Images
    BY DEF IInv, Types, Holdings, VersionInv
  <2>3. (build # None => build.in.image \in Images) /\ (input # None => input.image \in Images)
    BY DEF IInv, Types, Builds, Captures
  <2> QED
    BY <2>1, <2>2, <2>3 DEF IInv
<1> DEFINE Kept == \A b \in Backings : Claims(b)' =>
             Claims(b) /\ backing'[b].epoch = backing[b].epoch /\ backing'[b].image = backing[b].image
<1>1. /\ \A b \in Backings : Claims(b) => Led(backing[b].image, backing[b].epoch, journal')
      /\ build # None => Led(build.in.image, build.in.seq, journal')
      /\ input # None => Led(input.image, input.seq, journal')
  BY <1>0, LedStep DEF FollowInv
<1>2. ASSUME Calm PROVE FollowInv'
  <2>1. Kept
    BY <1>2 DEF Calm, Claims
  <2>2. input' = input /\ (build' # None => build # None /\ build'.in = build.in)
    BY <1>2 DEF Calm
  <2> QED
    BY <1>0, <1>1, <2>1, <2>2 DEF FollowInv
<1>3. ASSUME RequestCapture PROVE FollowInv'
  <2>1. /\ input' # None /\ input'.image = ImageOf(journal) /\ input'.writes = journal.writes /\ input'.base = journal.base
        /\ input'.seq = journal.seq /\ UNCHANGED <<journal, build, backing>>
    BY <1>3, CaptureFacts DEF Captured, CaptureDesired
  <2>2. Led(ImageOf(journal), journal.seq, journal)
    <3>1. ImageOf(journal).size <= journal.count
      BY <1>0, Numbers DEF ImageOf
    <3> QED
      BY <3>1 DEF Led, Follows
  <2>3. \A b \in Backings : Claims(b) =>
          Follows(backing[b].image, backing[b].epoch, ImageOf(journal), journal.writes, journal.base)
    BY <1>0 DEF FollowInv, Led
  <2>4. build # None => Follows(build.in.image, build.in.seq, ImageOf(journal), journal.writes, journal.base)
    BY <1>0 DEF FollowInv, Led
  <2> QED
    BY <1>0, <2>1, <2>2, <2>3, <2>4 DEF FollowInv, Claims
<1>4. ASSUME Acquire PROVE FollowInv'
  <2>1. PICK b \in Backings, allocated \in BOOLEAN, gone \in SUBSET Reusable : Acquired(b, allocated, gone)
    BY <1>4, AcquireFacts
  <2>4. input # None /\ input' = None /\ journal' = journal
    BY <2>1 DEF Acquired
  <2>2. build' # None /\ build'.in = input /\ input # None /\ input' = None /\ journal' = journal
    BY <1>0, <2>1, <2>4, AcquiredNames
  <2>3. Kept
    BY <2>1 DEF Acquired, Empty, Claims
  <2> QED
    BY <1>0, <1>1, <2>2, <2>3 DEF FollowInv
<1>5. ASSUME BeginWrites PROVE FollowInv'
  <2>1. Begun
    BY <1>5, BeginFacts
  <2>2. build # None /\ build'.in = build.in /\ input' = input
    BY <1>0, <2>1 DEF Begun, Types, Builds
  <2>3. Kept
    BY <2>1 DEF Begun, Claims
  <2> QED
    BY <1>0, <1>1, <2>2, <2>3 DEF FollowInv
<1>6. ASSUME FinishBuild PROVE FollowInv'
  <2>1. PICK version : Finished(version) /\ Named' \subseteq Named \cup {version}
    BY <1>6, FinishFacts
  <2>2. /\ build # None /\ build' = None /\ UNCHANGED <<journal, input>>
        /\ backing'[build.b].epoch = build.in.seq /\ backing'[build.b].image = build.in.image
        /\ \A x \in Backings : x # build.b => backing'[x] = backing[x]
    BY <2>1 DEF Finished, Writing
  <2> QED
    BY <1>0, <1>1, <2>2 DEF FollowInv, Claims
<1> QED
  BY <1>2, <1>3, <1>4, <1>5, <1>6, StepClasses

(* The queue after its head has gone, and after an upload has joined it.   *)
LEMMA Behead ==
  ASSUME Types, uploads # <<>>, uploads' = Tail(uploads)
  PROVE  /\ Len(uploads) \in Nat \ {0} /\ Len(uploads') = Len(uploads) - 1 /\ Head(uploads) = uploads[1]
         /\ \A k \in 1 .. Len(uploads') : k + 1 \in 1 .. Len(uploads) /\ uploads'[k] = uploads[k + 1]
         /\ \A k \in 1 .. Len(uploads) : k > 1 => k - 1 \in 1 .. Len(uploads') /\ uploads'[k - 1] = uploads[k]
<1>0. uploads \in Seq(Uploads)
  BY DEF Types
<1>1. Len(uploads) \in Nat \ {0} /\ Len(uploads') = Len(uploads) - 1 /\ Head(uploads) = uploads[1]
  BY <1>0
<1>2. \A k \in 1 .. Len(uploads') : k + 1 \in 1 .. Len(uploads) /\ uploads'[k] = uploads[k + 1]
  BY <1>0, <1>1
<1>3. \A k \in 1 .. Len(uploads) : k > 1 => k - 1 \in 1 .. Len(uploads') /\ uploads'[k - 1] = uploads[k]
  BY <1>0, <1>1
<1> QED
  BY <1>1, <1>2, <1>3

\* The range a build hands over.
Queued(range) ==
  /\ Writing /\ range = FirstRange(build.todo) /\ range \subseteq build.todo
  /\ build' # None /\ build'.todo = build.todo \ range /\ build'.at = "writing"
  /\ build'.in = build.in /\ build'.b = build.b /\ build'.cancelled = build.cancelled
  /\ Len(uploads) \in Nat /\ Len(uploads') = Len(uploads) + 1
  /\ \A k \in 1 .. Len(uploads) : uploads'[k] = uploads[k]
  /\ uploads'[Len(uploads) + 1] =
       [b |-> build.b, seq |-> build.in.seq, range |-> range, rows |-> build.in.image.rows]
  /\ UNCHANGED <<journal, family, input, pending, current, ack, backing, gpu, lost>>

LEMMA QueueFacts ==
  ASSUME Types, Types', QueueUpload
  PROVE  \E range : Queued(range)
<1>0. build \in Builds /\ build # None /\ build.at = "writing" /\ uploads \in Seq(Uploads) /\ build' # None
  <2>1. build \in Builds /\ build # None /\ build.at = "writing" /\ uploads \in Seq(Uploads)
    BY DEF QueueUpload, Types
  <2>2. build' = [build EXCEPT !.todo = build.todo \ FirstRange(build.todo)]
    BY DEF QueueUpload
  <2>3. build' \in Builds
    BY <2>1, <2>2 DEF Builds
  <2> QED
    BY <2>1, <2>3, NoneAssumption
<1>1. PICK range : range = FirstRange(build.todo)
  OBVIOUS
<1>2. range \subseteq build.todo
  BY <1>1 DEF FirstRange
<1>3. PICK u : u = [b |-> build.b, seq |-> build.in.seq, range |-> range, rows |-> build.in.image.rows]
  OBVIOUS
<1>4. /\ uploads' = Append(uploads, u) /\ build' = [build EXCEPT !.todo = build.todo \ range]
      /\ UNCHANGED <<journal, family, input, pending, current, ack, backing, gpu, lost>>
  BY <1>1, <1>3 DEF QueueUpload
<1>5. /\ Len(uploads) \in Nat /\ Len(uploads') = Len(uploads) + 1
      /\ \A k \in 1 .. Len(uploads) : uploads'[k] = uploads[k]
      /\ uploads'[Len(uploads) + 1] = u
  BY <1>0, <1>4
<1>6. /\ build'.todo = build.todo \ range /\ build'.at = "writing"
      /\ build'.in = build.in /\ build'.b = build.b
  BY <1>0, <1>4 DEF Builds
<1>7. build'.cancelled = build.cancelled
  BY <1>0, <1>4 DEF Builds
<1> QED
  BY <1>0, <1>1, <1>2, <1>3, <1>4, <1>5, <1>6, <1>7 DEF Queued, Writing

\* An upload cancelled, of a build in progress or of a pending version.
Hit(v) == v \in pending /\ v.seq = uploads[1].seq
Struck == build # None /\ build.b = uploads[1].b /\ build.in.seq = uploads[1].seq

Cancelled ==
  /\ uploads # <<>> /\ uploads' = Tail(uploads)
  /\ \A v : v \in pending' <=> v \in pending /\ ~Hit(v)
  /\ lost' = IF Struck \/ (\E v \in pending : Hit(v)) THEN lost \cup {uploads[1].b} ELSE lost
  /\ IF Struck THEN /\ build' # None /\ build'.todo = build.todo /\ build'.at = build.at
                    /\ build'.in = build.in /\ build'.b = build.b
               ELSE build' = build
  /\ UNCHANGED <<journal, family, input, current, ack, backing, gpu>>

LEMMA CancelFacts ==
  ASSUME Types, CancelUpload
  PROVE  Cancelled
<1>0. uploads \in Seq(Uploads) /\ uploads # <<>> /\ uploads' = Tail(uploads) /\ Head(uploads) = uploads[1]
  BY DEF CancelUpload, Types
<1>1. /\ lost' = IF Struck \/ {v \in pending : v.seq = uploads[1].seq} # {} THEN lost \cup {uploads[1].b} ELSE lost
      /\ pending' = pending \ {v \in pending : v.seq = uploads[1].seq}
      /\ build' = IF Struck THEN [build EXCEPT !.cancelled = TRUE] ELSE build
      /\ UNCHANGED <<journal, family, input, current, ack, backing, gpu>>
  BY <1>0, Zenon DEF CancelUpload, Struck
<1>2. \A v : v \in pending' <=> v \in pending /\ ~Hit(v)
  BY <1>1 DEF Hit
<1>3. {v \in pending : v.seq = uploads[1].seq} # {} <=> \E v \in pending : Hit(v)
  BY DEF Hit
<1>4. lost' = IF Struck \/ (\E v \in pending : Hit(v)) THEN lost \cup {uploads[1].b} ELSE lost
  BY <1>1, <1>3, Zenon
<1>5. ASSUME Struck
      PROVE  /\ build' # None /\ build'.todo = build.todo /\ build'.at = build.at
             /\ build'.in = build.in /\ build'.b = build.b
  <2>1. build \in Builds /\ build' = [build EXCEPT !.cancelled = TRUE]
    BY <1>1, <1>5, Zenon DEF Struck, Types
  <2>2. build' \in Builds
    BY <2>1 DEF Builds
  <2> QED
    BY <2>1, <2>2, NoneAssumption DEF Builds
<1>6. ~Struck => build' = build
  BY <1>1, Zenon
<1>7. IF Struck THEN /\ build' # None /\ build'.todo = build.todo /\ build'.at = build.at
                     /\ build'.in = build.in /\ build'.b = build.b
                ELSE build' = build
  BY <1>5, <1>6, Zenon
<1> QED
  BY <1>0, <1>1, <1>2, <1>4, <1>7, Zenon DEF Cancelled

(* Whose uploads are queued.                                               *)
LEMMA UploadStep ==
  ASSUME IInv, [Next]_vars
  PROVE  UploadInv'
<1>0. /\ Types /\ Types' /\ UploadInv /\ OrderInv
      /\ \A k \in 1 .. Len(uploads) : uploads[k].seq \in Nat
      /\ family.lastRevision \in Nat /\ journal.seq \in Nat
      /\ build # None => build.in.seq \in Nat
  BY TypesStep, Numbers DEF IInv
<1>1. ASSUME Calm, Still PROVE UploadInv'
  <2>1. uploads' = uploads /\ lost' = lost
    BY <1>1 DEF Still
  <2>2. \A v \in Settled' : Unqueued(v)'
    BY <1>0, <1>1, <2>1 DEF Calm, UploadInv, Unqueued
  <2>3. build' = None \/ build' = build
    BY <1>1 DEF Still
  <2>4. family'.lastRevision = family.lastRevision /\ input' = input /\ pending' \subseteq pending
    BY <1>1 DEF Calm
  <2> QED
    BY <1>0, <2>1, <2>2, <2>3, <2>4 DEF UploadInv, Writing
<1>2. ASSUME QueueUpload, Calm PROVE UploadInv'
  <2>1. PICK range : Queued(range)
    BY <1>0, <1>2, QueueFacts
  <2>2. ASSUME NEW k \in 1 .. Len(uploads')
        PROVE  (k \in 1 .. Len(uploads) /\ uploads'[k] = uploads[k])
               \/ (uploads'[k].seq = build.in.seq /\ uploads'[k].b = build.b)
    BY <2>1, <2>2 DEF Queued
  <2>3. \A v \in Named : v.seq < build.in.seq /\ v.seq \in Nat
    BY <1>0, <2>1, Numbers DEF OrderInv, Queued, Writing
  <2>4. /\ pending \subseteq Named /\ Settled \subseteq Named
    BY <1>0, NoneAssumption DEF Named, Settled, Types
  <2>5. /\ Writing /\ Writing' /\ build'.in = build.in /\ build'.b = build.b /\ build'.cancelled = build.cancelled
        /\ UNCHANGED <<family, input, pending, lost>>
    BY <2>1 DEF Queued, Writing
  <2>6. \A v \in Settled' : Unqueued(v)'
    <3>1. \A v \in Settled' : v \in Settled
      <4>1. UNCHANGED <<journal, family, input, pending, current, ack>> /\ build # None /\ build' # None
        BY <2>1 DEF Queued, Writing
      <4> QED
        BY <2>5, <4>1 DEF Settled
    <3>2. ASSUME NEW v \in Settled' PROVE Unqueued(v)'
      <4>1. v \in Settled /\ Unqueued(v) /\ v.seq # build.in.seq
        BY <1>0, <2>3, <2>4, <2>5, <3>1, <3>2 DEF UploadInv, Writing
      <4> QED
        BY <2>2, <4>1 DEF Unqueued
    <3> QED
      BY <3>2
  <2>7. \A k \in 1 .. Len(uploads') :
          /\ uploads'[k].seq <= family.lastRevision
          /\ input # None => uploads'[k].seq < input.seq
          /\ uploads'[k].seq <= build.in.seq
          /\ uploads'[k].seq = build.in.seq => uploads'[k].b = build.b
          /\ \A v \in pending : uploads'[k].seq = v.seq => uploads'[k].b = v.b
    BY <1>0, <2>2, <2>3, <2>4, <2>5 DEF UploadInv, OrderInv, Writing
  <2>8. build'.cancelled => Writing' /\ build'.b \in lost'
    <3>1. build.cancelled => build.b \in lost
      BY <1>0, <2>5, Zenon DEF UploadInv, Writing
    <3> QED
      BY <2>5, <3>1
  <2>9. build # None
    BY <2>5 DEF Writing
  <2> QED
    BY <2>5, <2>6, <2>7, <2>8, <2>9 DEF UploadInv
<1>3. ASSUME RunUpload, Calm PROVE UploadInv'
  <2>1. /\ uploads # <<>> /\ uploads' = Tail(uploads)
        /\ UNCHANGED <<journal, family, input, build, pending, current, ack, lost>>
    BY <1>3 DEF RunUpload
  <2>2. \A k \in 1 .. Len(uploads') : k + 1 \in 1 .. Len(uploads) /\ uploads'[k] = uploads[k + 1]
    BY <1>0, <2>1, Behead
  <2>3. \A v \in Settled' : Unqueued(v)'
    BY <1>0, <1>3, <2>2 DEF Calm, UploadInv, Unqueued
  <2> QED
    BY <1>0, <2>1, <2>2, <2>3 DEF UploadInv, Writing
<1>4. ASSUME CancelUpload, Calm PROVE UploadInv'
  <2>1. Cancelled
    BY <1>0, <1>4, CancelFacts
  <2>2. \A k \in 1 .. Len(uploads') : k + 1 \in 1 .. Len(uploads) /\ uploads'[k] = uploads[k + 1]
    BY <1>0, <2>1, Behead DEF Cancelled
  <2>3. \A v \in Settled' : Unqueued(v)'
    BY <1>0, <1>4, <2>2 DEF Calm, UploadInv, Unqueued
  <2>4. /\ pending' \subseteq pending /\ lost \subseteq lost' /\ UNCHANGED <<family, input>>
    BY <2>1 DEF Cancelled
  <2>5. build' # None => /\ build # None /\ build'.in = build.in /\ build'.b = build.b /\ build'.at = build.at
    BY <2>1 DEF Cancelled, Struck
  <2>6. build' # None /\ build'.cancelled => Writing' /\ build'.b \in lost'
    <3>1. CASE Struck
      <4>1. 1 \in 1 .. Len(uploads)
        BY <1>0, <2>1, Behead DEF Cancelled
      <4>2. Writing
        BY <1>0, <3>1, <4>1 DEF UploadInv, Struck
      <4>3. lost' = lost \cup {uploads[1].b}
        BY <2>1, <3>1 DEF Cancelled
      <4> QED
        BY <2>5, <3>1, <4>2, <4>3 DEF Struck, Writing
    <3>2. CASE ~Struck
      <4>1. build' = build
        BY <2>1, <3>2 DEF Cancelled
      <4> QED
        BY <1>0, <2>4, <4>1 DEF UploadInv, Writing
    <3> QED
      BY <3>1, <3>2
  <2> QED
    BY <1>0, <2>2, <2>3, <2>4, <2>5, <2>6 DEF UploadInv, Writing
<1>5. ASSUME RequestCapture PROVE UploadInv'
  <2>1. /\ input' # None /\ input'.seq = journal.seq /\ family'.lastRevision = journal.seq
        /\ journal.seq # family.lastRevision /\ Settled' \subseteq Settled
        /\ UNCHANGED <<build, pending, uploads, lost>>
    BY <1>5, CaptureFacts DEF Captured, CaptureDesired
  <2>2. family.lastRevision < journal.seq
    BY <1>0, <2>1 DEF OrderInv
  <2>3. \A v \in Settled' : Unqueued(v)'
    BY <1>0, <2>1 DEF UploadInv, Unqueued
  <2>4. \A k \in 1 .. Len(uploads) : uploads[k].seq < journal.seq
    BY <1>0, <2>2 DEF UploadInv
  <2> QED
    BY <1>0, <2>1, <2>3, <2>4 DEF UploadInv, Writing
<1>6. ASSUME Acquire PROVE UploadInv'
  <2>1. PICK b \in Backings, allocated \in BOOLEAN, gone \in SUBSET Reusable : Acquired(b, allocated, gone)
    BY <1>6, AcquireFacts
  <2>2. Settled' \subseteq Settled /\ build' # None /\ build'.in = input
    BY <1>0, <2>1, AcquiredNames
  <2>3. input # None /\ input' = None /\ UNCHANGED <<family, pending, uploads>>
    BY <2>1 DEF Acquired
  <2>4. ~build'.cancelled
    BY <2>1 DEF Acquired
  <2>5. \A v \in Settled' : Unqueued(v)'
    BY <1>0, <2>2, <2>3 DEF UploadInv, Unqueued
  <2>6. input.seq \in Nat
    BY <1>0, <2>3, Numbers
  <2>7. \A k \in 1 .. Len(uploads) : uploads[k].seq < input.seq /\ uploads[k].seq # input.seq
    BY <1>0, <2>3, <2>6 DEF UploadInv
  <2> QED
    BY <1>0, <2>2, <2>3, <2>4, <2>5, <2>6, <2>7 DEF UploadInv
<1>7. ASSUME BeginWrites PROVE UploadInv'
  <2>1. Begun
    BY <1>7, BeginFacts
  <2>2. /\ build # None /\ build'.in = build.in /\ build'.b = build.b /\ ~Writing
        /\ Settled' = Settled /\ UNCHANGED <<family, input, pending, uploads>>
    BY <1>0, <2>1 DEF Begun, Types, Builds, Writing
  <2>3. build'.cancelled = build.cancelled
    BY <1>0, <2>1 DEF Begun, Types, Builds
  <2>4. \A v \in Settled' : Unqueued(v)'
    BY <1>0, <2>2 DEF UploadInv, Unqueued
  <2>5. ~build'.cancelled
    BY <1>0, <2>2, <2>3 DEF UploadInv
  <2> QED
    BY <1>0, <2>2, <2>4, <2>5 DEF UploadInv
<1>8. ASSUME FinishBuild PROVE UploadInv'
  <2>1. PICK version : Finished(version) /\ Settled' \subseteq Settled
    BY <1>8, FinishFacts
  <2>2. /\ Writing /\ build' = None /\ version.seq = build.in.seq /\ version.b = build.b
        /\ pending' \subseteq pending \cup {version} /\ UNCHANGED <<family, input, uploads>>
    BY <2>1 DEF Finished
  <2>3. \A v \in Settled' : Unqueued(v)'
    BY <1>0, <2>1, <2>2 DEF UploadInv, Unqueued
  <2> QED
    BY <1>0, <2>2, <2>3 DEF UploadInv, Writing
<1> QED
  BY <1>0, <1>1, <1>2, <1>3, <1>4, <1>5, <1>6, <1>7, <1>8, StepClasses, StillSteps

(* What is stored stays stored as the queue runs, loses an upload of       *)
(* another sequence, or grows.                                             *)
LEMMA StoredStays ==
  ASSUME uploads' = uploads, NEW b, gpu'[b] = gpu[b], NEW r, NEW x, NEW s, Stored(b, r, x, s)
  PROVE  Stored(b, r, x, s)'
BY DEF Stored, Lands, Overwritten, Touches

LEMMA StoredBehead ==
  ASSUME Types, uploads # <<>>, uploads' = Tail(uploads),
         NEW b \in Backings, NEW r \in Index, NEW x, NEW s, Stored(b, r, x, s),
         Touches(1, b, r) => \/ gpu'[b][r] = uploads[1].rows[r]
                             \/ gpu' = gpu /\ uploads[1].seq # s,
         ~Touches(1, b, r) => gpu'[b][r] = gpu[b][r]
  PROVE  Stored(b, r, x, s)'
<1>0. /\ Len(uploads) \in Nat \ {0} /\ Len(uploads') = Len(uploads) - 1
      /\ \A k \in 1 .. Len(uploads') : k + 1 \in 1 .. Len(uploads) /\ uploads'[k] = uploads[k + 1]
      /\ \A k \in 1 .. Len(uploads) : k > 1 => k - 1 \in 1 .. Len(uploads') /\ uploads'[k - 1] = uploads[k]
  BY Behead
<1>1. \A k \in 1 .. Len(uploads') : Touches(k, b, r)' <=> Touches(k + 1, b, r)
  BY <1>0 DEF Touches
<1>2. \A k \in 1 .. Len(uploads) : k > 1 => (Touches(k - 1, b, r)' <=> Touches(k, b, r))
  BY <1>0 DEF Touches
<1>3. ASSUME NEW k \in 1 .. Len(uploads'), Touches(k, b, r)',
             \A l \in 1 .. Len(uploads') : l > k => ~Touches(l, b, r)'
      PROVE  uploads'[k].rows[r] = x
  <2>1. k + 1 \in 1 .. Len(uploads) /\ Touches(k + 1, b, r) /\ uploads'[k] = uploads[k + 1]
    BY <1>0, <1>1, <1>3
  <2>2. \A l \in 1 .. Len(uploads) : l > k + 1 => ~Touches(l, b, r)
    <3>1. \A l \in 1 .. Len(uploads) : l > k + 1 => l > 1 /\ l - 1 > k
      BY <1>0
    <3> QED
      BY <1>0, <1>2, <1>3, <3>1
  <2> QED
    BY <2>1, <2>2 DEF Stored, Lands
<1>4. ASSUME \A k \in 1 .. Len(uploads') : ~Touches(k, b, r)'
      PROVE  gpu'[b][r] = x
  <2>1. \A k \in 1 .. Len(uploads) : k > 1 => ~Touches(k, b, r)
    BY <1>0, <1>2, <1>4
  <2>2. 1 \in 1 .. Len(uploads) /\ \A k \in 1 .. Len(uploads) : k = 1 \/ k > 1
    BY <1>0
  <2>3. CASE Touches(1, b, r)
    <3>1. uploads[1].rows[r] = x
      BY <2>1, <2>2, <2>3 DEF Stored, Lands
    <3>2. ~Overwritten(1, b, r, s)
      BY <2>1 DEF Overwritten
    <3>3. uploads[1].seq = s
      BY <2>2, <2>3, <3>2 DEF Stored
    <3> QED
      BY <2>3, <3>1, <3>3
  <2>4. CASE ~Touches(1, b, r)
    <3>1. gpu[b][r] = x
      BY <2>1, <2>2, <2>4 DEF Stored, Lands
    <3> QED
      BY <2>4, <3>1
  <2> QED
    BY <2>3, <2>4
<1>5. ASSUME NEW k \in 1 .. Len(uploads'), Touches(k, b, r)', uploads'[k].seq # s
      PROVE  Overwritten(k, b, r, s)'
  <2>1. Overwritten(k + 1, b, r, s)
    BY <1>0, <1>1, <1>5 DEF Stored
  <2>2. PICK l \in 1 .. Len(uploads) : l > k + 1 /\ Touches(l, b, r) /\ uploads[l].seq = s
    BY <2>1 DEF Overwritten
  <2>3. l > 1 /\ l - 1 > k
    BY <1>0, <2>2
  <2>4. l - 1 \in 1 .. Len(uploads') /\ uploads'[l - 1].seq = s /\ Touches(l - 1, b, r)'
    BY <1>0, <1>2, <2>2, <2>3
  <2> QED
    BY <2>3, <2>4 DEF Overwritten
<1> QED
  BY <1>3, <1>4, <1>5 DEF Stored, Lands

LEMMA StoredQueued ==
  ASSUME NEW range, Queued(range), NEW b, NEW r, NEW x, NEW s,
         IF b = build.b /\ r \in range THEN s = build.in.seq /\ x = build.in.image.rows[r] ELSE Stored(b, r, x, s)
  PROVE  Stored(b, r, x, s)'
<1>0. PICK n \in Nat : n = Len(uploads)
  BY DEF Queued
<1>1. /\ Len(uploads') = n + 1 /\ gpu' = gpu
      /\ \A k \in 1 .. n : uploads'[k] = uploads[k]
  BY <1>0 DEF Queued
<1>2. /\ uploads'[n + 1].b = build.b /\ uploads'[n + 1].seq = build.in.seq
      /\ uploads'[n + 1].range = range /\ uploads'[n + 1].rows = build.in.image.rows
  BY <1>0 DEF Queued
<1>3. /\ \A k \in 1 .. (n + 1) : k \in 1 .. n \/ k = n + 1
      /\ \A k \in 1 .. n : k \in 1 .. (n + 1) /\ k < n + 1 /\ n + 1 > k
      /\ n + 1 \in 1 .. (n + 1) /\ ~(n + 1 > n + 1)
  BY <1>0
<1>4. \A k \in 1 .. n : Touches(k, b, r)' <=> Touches(k, b, r)
  BY <1>1 DEF Touches
<1>5. Touches(n + 1, b, r)' <=> b = build.b /\ r \in range
  BY <1>2 DEF Touches
<1>6. CASE b = build.b /\ r \in range
  <2>1. Touches(n + 1, b, r)' /\ uploads'[n + 1].seq = s /\ uploads'[n + 1].rows[r] = x
    BY <1>2, <1>5, <1>6
  <2>2. \A k \in 1 .. Len(uploads') :
          Touches(k, b, r)' /\ (\A l \in 1 .. Len(uploads') : l > k => ~Touches(l, b, r)') => uploads'[k].rows[r] = x
    BY <1>1, <1>3, <2>1
  <2>3. ~(\A k \in 1 .. Len(uploads') : ~Touches(k, b, r)')
    BY <1>1, <1>3, <2>1
  <2>4. \A k \in 1 .. Len(uploads') : uploads'[k].seq # s => Overwritten(k, b, r, s)'
    BY <1>1, <1>3, <2>1 DEF Overwritten
  <2> QED
    BY <2>2, <2>3, <2>4 DEF Stored, Lands
<1>7. CASE ~(b = build.b /\ r \in range)
  <2>0. Stored(b, r, x, s) /\ ~Touches(n + 1, b, r)'
    BY <1>5, <1>7
  <2>1. \A k \in 1 .. Len(uploads') : Touches(k, b, r)' => k \in 1 .. n /\ Touches(k, b, r)
    BY <1>1, <1>3, <1>4, <2>0
  <2>2. \A k \in 1 .. n : Touches(k, b, r) => k \in 1 .. Len(uploads') /\ Touches(k, b, r)'
    BY <1>1, <1>3, <1>4
  <2>3. \A k \in 1 .. Len(uploads') :
          Touches(k, b, r)' /\ (\A l \in 1 .. Len(uploads') : l > k => ~Touches(l, b, r)') => uploads'[k].rows[r] = x
    BY <1>0, <1>1, <2>0, <2>1, <2>2 DEF Stored, Lands
  <2>4. (\A k \in 1 .. Len(uploads') : ~Touches(k, b, r)') => gpu'[b][r] = x
    BY <1>0, <1>1, <2>0, <2>2 DEF Stored, Lands
  <2>5. \A k \in 1 .. Len(uploads') : Touches(k, b, r)' /\ uploads'[k].seq # s => Overwritten(k, b, r, s)'
    BY <1>0, <1>1, <2>0, <2>1, <2>2 DEF Stored, Overwritten
  <2> QED
    BY <2>3, <2>4, <2>5 DEF Stored, Lands
<1> QED
  BY <1>6, <1>7

LEMMA RunFacts ==
  ASSUME Types, RunUpload
  PROVE  /\ uploads # <<>> /\ uploads' = Tail(uploads)
         /\ \A b \in Backings, r \in Index :
              gpu'[b][r] = IF Touches(1, b, r) THEN uploads[1].rows[r] ELSE gpu[b][r]
         /\ UNCHANGED <<journal, family, input, build, pending, current, ack, backing, lost>>
<1>0. /\ uploads \in Seq(Uploads) /\ uploads # <<>> /\ Head(uploads) = uploads[1] /\ uploads[1] \in Uploads
      /\ gpu \in [Backings -> [Index -> 0 .. Junk]]
  BY DEF RunUpload, Types
<1>1. PICK u : u = uploads[1]
  OBVIOUS
<1>2. /\ uploads' = Tail(uploads) /\ u.b \in Backings
      /\ gpu' = [gpu EXCEPT ![u.b] = [r \in Index |-> IF r \in u.range THEN u.rows[r] ELSE gpu[u.b][r]]]
      /\ UNCHANGED <<journal, family, input, build, pending, current, ack, backing, lost>>
  BY <1>0, <1>1 DEF RunUpload, Uploads
<1>3. \A b \in Backings, r \in Index :
        gpu'[b][r] = IF u.b = b /\ r \in u.range THEN u.rows[r] ELSE gpu[b][r]
  BY <1>0, <1>2
<1> QED
  BY <1>0, <1>1, <1>2, <1>3 DEF Touches

(* A backing that claims an epoch will hold it.                            *)
LEMMA ClaimStep ==
  ASSUME IInv, [Next]_vars
  PROVE  ClaimInv'
<1> SUFFICES ASSUME ~SparseAfterShrink, NEW b \in Backings, b \notin lost', Claims(b)'
             PROVE  Delivers(b)'
  BY DEF ClaimInv
<1>0. /\ Types /\ UploadInv /\ (b \notin lost /\ Claims(b) => Delivers(b))
      /\ Claims(b) => 1 .. backing[b].image.size \subseteq Index
  <2>1. Claims(b) => backing[b].image \in Images
    BY DEF IInv, Types, Holdings, VersionInv
  <2>2. Claims(b) => 1 .. backing[b].image.size \subseteq Index
    BY <2>1, VersionedBufferAssumption DEF Images, Index
  <2> QED
    BY <2>2 DEF IInv, ClaimInv
<1>1. ASSUME b \notin lost, Claims(b), backing'[b].epoch = backing[b].epoch, backing'[b].image = backing[b].image,
             \A r \in Index : \A x, s : s = backing[b].epoch /\ Stored(b, r, x, s) => Stored(b, r, x, s)',
             \A k \in 1 .. Len(uploads') : uploads'[k].b = b /\ uploads'[k].seq = backing'[b].epoch =>
               \E v \in pending' : v.seq = backing'[b].epoch
      PROVE  Delivers(b)'
  <2>1. (\A r \in 1 .. backing[b].image.size : Stored(b, r, backing[b].image.rows[r], backing[b].epoch))'
    <3>1. PICK e, image : e = backing[b].epoch /\ image = backing[b].image
      OBVIOUS
    <3>2. e = backing'[b].epoch /\ image = backing'[b].image
      BY <1>1, <3>1
    <3>3. ASSUME NEW r \in 1 .. image.size PROVE Stored(b, r, image.rows[r], e)'
      <4>1. r \in Index /\ Stored(b, r, image.rows[r], e)
        BY <1>0, <1>1, <3>1, <3>3 DEF Delivers
      <4> QED
        BY <1>1, <3>1, <4>1
    <3> QED
      BY <3>2, <3>3
  <2> QED
    BY <1>1, <2>1 DEF Delivers
<1>2. ASSUME b \notin lost, Claims(b), backing'[b].epoch = backing[b].epoch, backing'[b].image = backing[b].image,
             \A r \in Index : \A x, s : s = backing[b].epoch /\ Stored(b, r, x, s) => Stored(b, r, x, s)',
             \A k \in 1 .. Len(uploads') : uploads'[k].b = b => \E l \in 1 .. Len(uploads) : uploads'[k] = uploads[l],
             \A v \in pending : v \in pending' \/ Unqueued(v)'
      PROVE  Delivers(b)'
  <2>1. ASSUME NEW k \in 1 .. Len(uploads'), uploads'[k].b = b, uploads'[k].seq = backing'[b].epoch
        PROVE  \E v \in pending' : v.seq = backing'[b].epoch
    <3>1. PICK l \in 1 .. Len(uploads) : uploads'[k] = uploads[l]
      BY <1>2, <2>1
    <3>2. PICK v \in pending : v.seq = backing[b].epoch
      BY <1>0, <1>2, <2>1, <3>1 DEF Delivers
    <3>3. ~Unqueued(v)'
      BY <1>2, <2>1, <3>2 DEF Unqueued
    <3> QED
      BY <1>2, <3>2, <3>3
  <2> QED
    BY <1>2, <1>1, <2>1
<1>3. ASSUME Calm, Still PROVE Delivers(b)'
  <2>1. /\ uploads' = uploads /\ gpu'[b] = gpu[b] /\ lost' = lost
        /\ backing'[b].epoch = backing[b].epoch /\ backing'[b].image = backing[b].image
    BY <1>3 DEF Calm, Still
  <2>2. \A r \in Index : \A x, s : Stored(b, r, x, s) => Stored(b, r, x, s)'
    BY <2>1, StoredStays
  <2>3. \A v \in pending : v \in pending' \/ Unqueued(v)'
    BY <1>3, <2>1 DEF Still, Unqueued
  <2> QED
    BY <1>2, <2>1, <2>2, <2>3 DEF Claims
<1>4. ASSUME QueueUpload, Calm PROVE Delivers(b)'
  <2>1. PICK range : Queued(range)
    BY <1>0, <1>4, TypesStep, QueueFacts
  <2>2. /\ b \notin lost /\ Claims(b)
        /\ backing'[b].epoch = backing[b].epoch /\ backing'[b].image = backing[b].image
    BY <1>4, <2>1 DEF Calm, Queued, Claims
  <2>3. b # build.b
    <3>1. Writing /\ build.todo # {}
      BY <1>4, <2>1 DEF QueueUpload, Queued
    <3>2. build.in.image.size # 0
      BY <3>1 DEF IInv, WriteInv
    <3> QED
      BY <2>2, <3>1, <3>2 DEF IInv, WriteInv
  <2>4. \A r \in Index : \A x, s : Stored(b, r, x, s) => Stored(b, r, x, s)'
    BY <2>1, <2>3, StoredQueued
  <2>5. \A k \in 1 .. Len(uploads') : uploads'[k].b = b => \E l \in 1 .. Len(uploads) : uploads'[k] = uploads[l]
    BY <2>1, <2>3 DEF Queued
  <2>6. pending' = pending
    BY <2>1 DEF Queued
  <2> QED
    BY <1>2, <2>2, <2>4, <2>5, <2>6
<1>5. ASSUME RunUpload, Calm PROVE Delivers(b)'
  <2>1. /\ uploads # <<>> /\ uploads' = Tail(uploads)
        /\ \A r \in Index : gpu'[b][r] = IF Touches(1, b, r) THEN uploads[1].rows[r] ELSE gpu[b][r]
        /\ UNCHANGED <<pending, backing, lost>>
    BY <1>0, <1>5, RunFacts
  <2>2. \A r \in Index : \A x, s : Stored(b, r, x, s) => Stored(b, r, x, s)'
    <3>1. ASSUME NEW r \in Index, NEW x, NEW s, Stored(b, r, x, s) PROVE Stored(b, r, x, s)'
      BY <1>0, <2>1, <3>1, StoredBehead
    <3> QED
      BY <3>1
  <2>3. \A k \in 1 .. Len(uploads') : \E l \in 1 .. Len(uploads) : uploads'[k] = uploads[l]
    BY <1>0, <2>1, Behead
  <2>4. b \notin lost /\ Claims(b)
    BY <2>1 DEF Claims
  <2> QED
    BY <1>2, <2>1, <2>2, <2>3, <2>4
<1>6. ASSUME CancelUpload, Calm PROVE Delivers(b)'
  <2>1. Cancelled
    BY <1>0, <1>6, CancelFacts
  <2>2. /\ uploads # <<>> /\ uploads' = Tail(uploads) /\ UNCHANGED <<backing, gpu>>
        /\ 1 \in 1 .. Len(uploads) /\ b \notin lost /\ Claims(b)
    BY <1>0, <2>1, Behead DEF Cancelled, Claims
  <2>3. uploads[1].b = b => ~Struck /\ \A v \in pending : ~Hit(v)
    BY <2>1 DEF Cancelled
  <2>4. ~(uploads[1].b = b /\ uploads[1].seq = backing[b].epoch)
    <3>1. SUFFICES ASSUME uploads[1].b = b, uploads[1].seq = backing[b].epoch PROVE FALSE
      OBVIOUS
    <3>2. PICK v \in pending : v.seq = backing[b].epoch
      BY <1>0, <2>2, <3>1 DEF Delivers
    <3> QED
      BY <2>3, <3>1, <3>2 DEF Hit
  <2>5. \A r \in Index : \A x, s : s = backing[b].epoch /\ Stored(b, r, x, s) => Stored(b, r, x, s)'
    <3>1. ASSUME NEW r \in Index, NEW x, NEW s, s = backing[b].epoch, Stored(b, r, x, s) PROVE Stored(b, r, x, s)'
      <4>1. Touches(1, b, r) => uploads[1].seq # s
        BY <2>4, <3>1 DEF Touches
      <4> QED
        BY <1>0, <2>2, <3>1, <4>1, StoredBehead
    <3> QED
      BY <3>1
  <2>6. \A k \in 1 .. Len(uploads') : \E l \in 1 .. Len(uploads) : uploads'[k] = uploads[l]
    BY <1>0, <2>2, Behead
  <2>7. ASSUME NEW k \in 1 .. Len(uploads'), uploads'[k].b = b, uploads'[k].seq = backing'[b].epoch
        PROVE  \E v \in pending' : v.seq = backing'[b].epoch
    <3>1. PICK l \in 1 .. Len(uploads) : uploads'[k] = uploads[l]
      BY <2>6
    <3>2. PICK v \in pending : v.seq = backing[b].epoch
      BY <1>0, <2>2, <2>7, <3>1 DEF Delivers
    <3>3. ~Hit(v)
      <4>1. SUFFICES ASSUME v.seq = uploads[1].seq PROVE FALSE
        BY DEF Hit
      <4>2. uploads[1].b = v.b /\ uploads[l].b = v.b
        BY <1>0, <2>2, <2>7, <3>1, <3>2, <4>1 DEF UploadInv
      <4> QED
        BY <2>4, <2>7, <3>1, <3>2, <4>1, <4>2
    <3> QED
      BY <2>1, <2>2, <3>2, <3>3 DEF Cancelled
  <2> QED
    BY <1>1, <2>2, <2>5, <2>7
<1>7. ASSUME b \notin lost, Claims(b), backing'[b] = backing[b], gpu'[b] = gpu[b], uploads' = uploads,
             pending \subseteq pending'
      PROVE  Delivers(b)'
  <2>1. \A r \in Index : \A x, s : Stored(b, r, x, s) => Stored(b, r, x, s)'
    BY <1>7, StoredStays
  <2> QED
    BY <1>2, <1>7, <2>1
<1>8. ASSUME RequestCapture PROVE Delivers(b)'
  BY <1>7, <1>8, CaptureFacts DEF Captured, Claims
<1>9. ASSUME Acquire PROVE Delivers(b)'
  <2>1. PICK c \in Backings, allocated \in BOOLEAN, gone \in SUBSET Reusable : Acquired(c, allocated, gone)
    BY <1>9, AcquireFacts
  <2>2. b \notin gone /\ ~(b = c /\ allocated)
    BY <2>1 DEF Acquired, Claims, Empty
  <2> QED
    BY <1>7, <2>1, <2>2 DEF Acquired, Claims
<1>10. ASSUME BeginWrites PROVE Delivers(b)'
  <2>1. Begun
    BY <1>10, BeginFacts
  <2>2. b # build.b \/ build.in.image.size = 0
    BY <2>1 DEF Begun, Claims
  <2>3. b \notin lost
    BY <1>10, <2>2 DEF BeginWrites
  <2> QED
    BY <1>7, <2>1, <2>2, <2>3 DEF Begun, Claims
<1>11. ASSUME FinishBuild PROVE Delivers(b)'
  <2>1. PICK version : Finished(version)
    BY <1>11, FinishFacts
  <2>2. CASE b # build.b
    BY <1>7, <2>1, <2>2 DEF Finished, Claims
  <2>3. CASE b = build.b
    <3>1. /\ Writing /\ build.todo = {} /\ uploads' = uploads /\ gpu' = gpu /\ lost' = lost
          /\ backing'[b].epoch = build.in.seq /\ backing'[b].image = build.in.image
      BY <2>1, <2>3 DEF Finished
    <3>2. \A r \in 1 .. build.in.image.size : Stored(b, r, build.in.image.rows[r], build.in.seq)
      BY <2>3, <3>1 DEF IInv, WriteInv
    <3>3. (\A r \in 1 .. backing[b].image.size : Stored(b, r, backing[b].image.rows[r], backing[b].epoch))'
      <4>1. PICK e, image : e = build.in.seq /\ image = build.in.image
        OBVIOUS
      <4>2. \A r \in 1 .. image.size : Stored(b, r, image.rows[r], e)'
        BY <3>1, <3>2, <4>1, StoredStays
      <4> QED
        BY <3>1, <4>1, <4>2
    <3>4. ~build.cancelled
      BY <1>0, <2>3, <3>1 DEF UploadInv, Writing
    <3>5. version \in pending' /\ version.seq = build.in.seq
      BY <2>1, <3>4 DEF Finished
    <3> QED
      BY <3>1, <3>3, <3>5 DEF Delivers
  <2> QED
    BY <2>2, <2>3
<1> QED
  BY <1>0, <1>3, <1>4, <1>5, <1>6, <1>8, <1>9, <1>10, <1>11, StepClasses, StillSteps

(* A build that takes over a backing's contents finds in it all rows but   *)
(* those it is going to write.                                             *)
LEMMA PatchFacts ==
  ASSUME IInv, Begun, ~SparseAfterShrink, build.b \notin lost, ~build.allocated,
         backing[build.b].epoch # 0, backing[build.b].epoch >= build.in.base,
         backing[build.b].image.size = build.in.image.size,
         NEW r \in 1 .. build.in.image.size,
         ~ \E w \in build.in.writes : w.seq > backing[build.b].epoch /\ r \in w.rows
  PROVE  /\ Lands(build.b, r, build.in.image.rows[r])
         /\ \A k \in 1 .. Len(uploads) : ~Touches(k, build.b, r)
<1>0. /\ Types /\ build # None /\ build.b \in Backings /\ Delivers(build.b) /\ UploadInv
      /\ \A v \in Named : v.b # build.b
  <2>1. Types /\ build # None
    BY DEF IInv, Begun
  <2>2. build.b \in Backings
    BY <2>1, Numbers
  <2> QED
    BY <2>1, <2>2 DEF IInv, ClaimInv, Claims, VersionInv
<1>1. Stored(build.b, r, backing[build.b].image.rows[r], backing[build.b].epoch)
  BY <1>0 DEF Delivers
<1>2. r \in Index
  BY <1>0, Numbers DEF Index
<1>3. build.in.image.rows[r] = backing[build.b].image.rows[r]
  <2>1. Follows(backing[build.b].image, backing[build.b].epoch, build.in.image, build.in.writes, build.in.base)
    BY <1>0 DEF IInv, FollowInv, Claims
  <2>2. r <= build.in.image.size
    BY <1>0, Numbers
  <2> QED
    BY <1>2, <2>1, <2>2 DEF Follows
<1>4. \A k \in 1 .. Len(uploads) : uploads[k].b = build.b => uploads[k].seq # backing[build.b].epoch
  <2>1. SUFFICES ASSUME NEW k \in 1 .. Len(uploads), uploads[k].b = build.b,
                        uploads[k].seq = backing[build.b].epoch
                 PROVE  FALSE
    OBVIOUS
  <2>2. PICK v \in pending : v.seq = backing[build.b].epoch
    BY <1>0, <2>1 DEF Delivers
  <2>3. v \in Named
    BY <1>0, NoneAssumption DEF Named, Types
  <2> QED
    BY <1>0, <2>1, <2>2, <2>3 DEF UploadInv
<1>5. \A k \in 1 .. Len(uploads) : ~Touches(k, build.b, r)
  BY <1>1, <1>4 DEF Stored, Overwritten, Touches
<1> QED
  BY <1>1, <1>3, <1>5 DEF Stored

LEMMA EmptyPatch ==
  ASSUME NEW dirty \in SUBSET Index, 2 * Cardinality(dirty) <= 0
  PROVE  dirty = {}
<1>1. IsFiniteSet(dirty)
  <2>1. 1 \in Int /\ Rows \in Int
    BY VersionedBufferAssumption
  <2>2. IsFiniteSet(Index)
    BY <2>1, FS_Interval DEF Index
  <2> QED
    BY <2>2, FS_Subset
<1>2. Cardinality(dirty) \in Nat
  BY <1>1, FS_CardinalityType
<1>3. Cardinality(dirty) = 0
  BY <1>2
<1> QED
  BY <1>1, <1>3, FS_EmptySet

(* What a build has written, and what it need not write, is there.         *)
LEMMA WriteStep ==
  ASSUME IInv, [Next]_vars
  PROVE  WriteInv'
<1>0. /\ Types /\ Types' /\ UploadInv /\ WriteInv
      /\ build # None => /\ build.b \in Backings /\ 1 .. build.in.image.size \subseteq Index
                         /\ build.in.image.size \in Nat
  <2>1. build # None => /\ build.b \in Backings /\ 1 .. build.in.image.size \subseteq Index
                        /\ build.in.image.size \in Nat
    <3>1. Types
      BY DEF IInv
    <3> QED
      BY <3>1, Numbers DEF Index
  <2> QED
    BY <2>1, TypesStep DEF IInv
<1>1. ASSUME Writing, build' # None, build'.in = build.in, build'.b = build.b, build'.todo \subseteq build.todo,
             backing'[build.b].epoch = backing[build.b].epoch,
             ~SparseAfterShrink /\ build.b \notin lost' => build.b \notin lost,
             ~SparseAfterShrink /\ build.b \notin lost' =>
               \A r \in 1 .. build.in.image.size :
                 \A x, s : s = build.in.seq /\ x = build.in.image.rows[r] /\ r \notin build'.todo
                           /\ (r \notin build.todo => Stored(build.b, r, x, s)) => Stored(build.b, r, x, s)'
      PROVE  WriteInv'
  <2>1. (build.in.image.size # 0 => ~Claims(build.b))'
    BY <1>0, <1>1 DEF WriteInv, Claims
  <2>2. (build.in.image.size = 0 => build.todo = {})'
    BY <1>0, <1>1 DEF WriteInv
  <2>3. ASSUME ~SparseAfterShrink, build'.b \notin lost'
        PROVE  (\A r \in (1 .. build.in.image.size) \ build.todo :
                  Stored(build.b, r, build.in.image.rows[r], build.in.seq))'
    <3>1. PICK b, s, image : b = build.b /\ s = build.in.seq /\ image = build.in.image
      OBVIOUS
    <3>2. b = build'.b /\ s = build'.in.seq /\ image = build'.in.image
      BY <1>1, <3>1
    <3>3. ASSUME NEW r \in (1 .. image.size) \ build'.todo PROVE Stored(b, r, image.rows[r], s)'
      <4>1. r \notin build.todo => Stored(b, r, image.rows[r], s)
        BY <1>0, <1>1, <2>3, <3>1, <3>3 DEF WriteInv
      <4> QED
        BY <1>1, <2>3, <3>1, <3>3, <4>1
    <3> QED
      BY <3>2, <3>3
  <2> QED
    BY <2>1, <2>2, <2>3 DEF WriteInv
<1>2. ASSUME ~Writing' PROVE WriteInv'
  BY <1>2 DEF WriteInv
<1>3. ASSUME Writing, build' = build, backing'[build.b].epoch = backing[build.b].epoch,
             uploads' = uploads, gpu' = gpu, lost' = lost
      PROVE  WriteInv'
  <2>1. \A r, x, s : Stored(build.b, r, x, s) => Stored(build.b, r, x, s)'
    <3>1. PICK b : b = build.b
      OBVIOUS
    <3>2. \A r, x, s : Stored(b, r, x, s) => Stored(b, r, x, s)'
      BY <1>3, StoredStays
    <3> QED
      BY <1>3, <3>1, <3>2
  <2> QED
    BY <1>1, <1>3, <2>1 DEF Writing
<1>4. ASSUME Calm, Still PROVE WriteInv'
  <2>1. CASE Writing /\ build' = build
    <3>1. backing'[build.b].epoch = backing[build.b].epoch
      BY <1>0, <1>4, <2>1 DEF Calm, Writing
    <3> QED
      BY <1>3, <1>4, <2>1, <3>1 DEF Still
  <2>2. CASE ~(Writing /\ build' = build)
    BY <1>2, <1>4, <2>2 DEF Still, Writing
  <2> QED
    BY <2>1, <2>2
<1>5. ASSUME QueueUpload, Calm PROVE WriteInv'
  <2>1. PICK range : Queued(range)
    BY <1>0, <1>5, QueueFacts
  <2>2. /\ Writing /\ build' # None /\ build'.in = build.in /\ build'.b = build.b
        /\ build'.todo = build.todo \ range /\ UNCHANGED <<backing, lost>>
    BY <2>1 DEF Queued
  <2>3. \A r, x, s : s = build.in.seq /\ x = build.in.image.rows[r] /\ r \notin build'.todo
                     /\ (r \notin build.todo => Stored(build.b, r, x, s)) => Stored(build.b, r, x, s)'
    <3>1. PICK b : b = build.b
      OBVIOUS
    <3>2. ASSUME NEW r, NEW x, NEW s, s = build.in.seq, x = build.in.image.rows[r], r \notin build'.todo,
                 r \notin build.todo => Stored(b, r, x, s)
          PROVE  Stored(b, r, x, s)'
      <4>1. r \in range \/ Stored(b, r, x, s)
        BY <2>2, <3>2
      <4>2. IF b = build.b /\ r \in range THEN s = build.in.seq /\ x = build.in.image.rows[r] ELSE Stored(b, r, x, s)
        BY <3>1, <3>2, <4>1
      <4> QED
        BY <2>1, <4>2, StoredQueued
    <3> QED
      BY <2>2, <3>1, <3>2
  <2> QED
    BY <1>1, <2>2, <2>3
<1>6. ASSUME RunUpload, Calm PROVE WriteInv'
  <2>1. CASE Writing
    <3>1. PICK b : b = build.b
      OBVIOUS
    <3>2. /\ uploads # <<>> /\ uploads' = Tail(uploads) /\ b \in Backings
          /\ \A r \in Index : gpu'[b][r] = IF Touches(1, b, r) THEN uploads[1].rows[r] ELSE gpu[b][r]
          /\ UNCHANGED <<build, backing, lost>>
      BY <1>0, <1>6, <2>1, <3>1, RunFacts DEF Writing
    <3>3. ASSUME NEW r \in Index, NEW x, NEW s, Stored(b, r, x, s) PROVE Stored(b, r, x, s)'
      BY <1>0, <3>2, <3>3, StoredBehead
    <3>4. \A r \in Index : \A x, s : Stored(build.b, r, x, s) => Stored(build.b, r, x, s)'
      BY <3>1, <3>2, <3>3
    <3> QED
      BY <1>0, <1>1, <2>1, <3>2, <3>4 DEF Writing
  <2>2. CASE ~Writing
    BY <1>2, <1>6, <2>2 DEF RunUpload, Writing
  <2> QED
    BY <2>1, <2>2
<1>7. ASSUME CancelUpload, Calm PROVE WriteInv'
  <2>0. Cancelled
    BY <1>0, <1>7, CancelFacts
  <2>1. CASE Writing
    <3>1. PICK b : b = build.b
      OBVIOUS
    <3>2. /\ uploads # <<>> /\ uploads' = Tail(uploads) /\ UNCHANGED <<backing, gpu>> /\ b \in Backings
          /\ 1 \in 1 .. Len(uploads) /\ lost \subseteq lost' /\ build # None
      BY <1>0, <2>0, <2>1, <3>1, Behead DEF Cancelled, Writing
    <3>3. build' # None /\ build'.in = build.in /\ build'.b = build.b /\ build'.todo = build.todo
      BY <2>0, <2>1 DEF Cancelled, Writing
    <3>4. b \notin lost' => ~(uploads[1].b = b /\ uploads[1].seq = build.in.seq)
      BY <2>0, <3>1, <3>2 DEF Cancelled, Struck
    <3>5. ASSUME NEW r \in Index, NEW x, NEW s, s = build.in.seq, b \notin lost', Stored(b, r, x, s)
          PROVE  Stored(b, r, x, s)'
      <4>1. Touches(1, b, r) => uploads[1].seq # s
        BY <3>4, <3>5 DEF Touches
      <4> QED
        BY <1>0, <3>2, <3>5, <4>1, StoredBehead
    <3>6. build.b \notin lost' => \A r \in Index : \A x, s :
            s = build.in.seq /\ Stored(build.b, r, x, s) => Stored(build.b, r, x, s)'
      BY <3>1, <3>3, <3>5
    <3> QED
      BY <1>0, <1>1, <2>1, <3>2, <3>3, <3>6 DEF Writing
  <2>2. CASE ~Writing
    BY <1>2, <2>0, <2>2 DEF Cancelled, Struck, Writing
  <2> QED
    BY <2>1, <2>2
<1>8. ASSUME RequestCapture PROVE WriteInv'
  <2>1. UNCHANGED <<build, backing, uploads, gpu, lost>>
    BY <1>8, CaptureFacts DEF Captured
  <2> QED
    BY <1>2, <1>3, <2>1 DEF Writing
<1>9. ASSUME Acquire PROVE WriteInv'
  <2>1. build'.at = "leased"
    BY <1>9, AcquireFacts DEF Acquired
  <2> QED
    BY <1>2, <2>1 DEF Writing
<1>10. ASSUME BeginWrites PROVE WriteInv'
  <2>0. Begun
    BY <1>10, BeginFacts
  <2>1. /\ build \in Builds /\ build # None
        /\ build'.in = build.in /\ build'.b = build.b
        /\ build'.todo = DirtyRows(build.b, build.in, build.allocated)
    BY <1>0, <2>0 DEF Begun, Types, Builds
  <2>2. (build.in.image.size # 0 => ~Claims(build.b))'
    BY <2>0, <2>1 DEF Begun, Claims
  <2> DEFINE dirty == UNION {w.rows : w \in {x \in build.in.writes : x.seq > backing[build.b].epoch}}
             covers == JournalCoversBacking(backing[build.b].epoch, build.b, build.in, build.allocated)
  <2>3. \/ build'.todo = 1 .. build.in.image.size
        \/ covers /\ 2 * Cardinality(dirty) <= build.in.image.size /\ build'.todo = dirty
    BY <2>1 DEF DirtyRows
  <2>4. dirty \in SUBSET Index
    BY <1>0, <2>1 DEF Types, Builds, Captures, Writes
  <2>5. \A r : r \notin dirty => ~ \E w \in build.in.writes : w.seq > backing[build.b].epoch /\ r \in w.rows
    OBVIOUS
  <2> HIDE DEF dirty
  <2>6. (build.in.image.size = 0 => build.todo = {})'
    <3>1. ASSUME build.in.image.size = 0 PROVE build'.todo = {}
      <4>1. 1 .. build.in.image.size = {}
        BY <3>1
      <4>2. 2 * Cardinality(dirty) <= build.in.image.size => dirty = {}
        BY <2>4, <3>1, EmptyPatch
      <4> QED
        BY <2>3, <4>1, <4>2
    <3> QED
      BY <2>1, <3>1
  <2>7. ASSUME ~SparseAfterShrink, build'.b \notin lost'
        PROVE  (\A r \in (1 .. build.in.image.size) \ build.todo :
                  Stored(build.b, r, build.in.image.rows[r], build.in.seq))'
    <3>1. CASE build'.todo = 1 .. build.in.image.size
      BY <2>1, <3>1
    <3>2. CASE covers /\ build'.todo = dirty /\ build'.todo # 1 .. build.in.image.size
      <4>1. PICK b, s, image : b = build.b /\ s = build.in.seq /\ image = build.in.image
        OBVIOUS
      <4>2. b = build'.b /\ s = build'.in.seq /\ image = build'.in.image
        BY <2>1, <4>1
      <4>3. b \notin lost
        BY <1>10, <2>1, <2>7, <3>2, <4>1 DEF BeginWrites
      <4>4. ASSUME NEW r \in (1 .. image.size) \ build'.todo PROVE Stored(b, r, image.rows[r], s)'
        <5>1. /\ ~build.allocated /\ backing[build.b].epoch # 0 /\ backing[build.b].epoch >= build.in.base
              /\ backing[build.b].image.size = build.in.image.size
          BY <3>2 DEF JournalCoversBacking
        <5>2. ~ \E w \in build.in.writes : w.seq > backing[build.b].epoch /\ r \in w.rows
          BY <2>5, <3>2, <4>4
        <5>3. /\ Lands(build.b, r, build.in.image.rows[r])
              /\ \A k \in 1 .. Len(uploads) : ~Touches(k, build.b, r)
          BY <2>0, <2>7, <4>1, <4>3, <4>4, <5>1, <5>2, PatchFacts
        <5>4. Stored(b, r, image.rows[r], s)
          BY <4>1, <5>3 DEF Stored
        <5>5. uploads' = uploads /\ gpu' = gpu
          BY <2>0 DEF Begun
        <5> QED
          BY <5>4, <5>5, StoredStays
      <4> QED
        BY <4>2, <4>4
    <3> QED
      BY <2>3, <3>1, <3>2
  <2> QED
    BY <2>2, <2>6, <2>7 DEF WriteInv
<1>11. ASSUME FinishBuild PROVE WriteInv'
  BY <1>2, <1>11 DEF FinishBuild, Writing
<1> QED
  BY <1>0, <1>4, <1>5, <1>6, <1>7, <1>8, <1>9, <1>10, <1>11, StepClasses, StillSteps

-----------------------------------------------------------------------------
LEMMA InitHolds == Init => IInv
<1> SUFFICES ASSUME Init PROVE IInv
  OBVIOUS
<1>0. /\ MaxSequence \in Nat /\ Rows \in Nat /\ Sizes \subseteq 0 .. Rows /\ None \notin Captures /\ None \notin Builds
  BY VersionedBufferAssumption, NoneAssumption
<1>1. /\ family = [previous |-> None, lastRevision |-> 0] /\ input = None /\ build = None /\ pending = {}
      /\ current = None /\ ack = None /\ backing = [b \in Backings |-> Empty]
      /\ gpu = [b \in Backings |-> [r \in Index |-> Junk]] /\ uploads = <<>> /\ lost = {}
  BY Zenon DEF Init
<1>2. PICK n \in Sizes, c \in Capacities :
        journal = [seq |-> 1, count |-> n, cap |-> c, writes |-> {}, base |-> 0, previous |-> None,
                   rows |-> Zeroed([r \in Index |-> 1], n), shrunk |-> FALSE]
  BY Zenon DEF Init
<1>3. /\ journal.seq = 1 /\ journal.base = 0 /\ journal.writes = {} /\ journal.previous = None
  BY <1>2
<1>4. \A b \in Backings : backing[b] = Empty /\ ~Claims(b)
  BY <1>1 DEF Empty, Claims
<1>5. Named = {} /\ Settled = {}
  BY <1>1, <1>3 DEF Named, Settled
<1>6. Types
  <2>0. MaxSequence # 0
    BY VersionedBufferAssumption
  <2>1. Zeroed([r \in Index |-> 1], n) \in [Index -> 0 .. MaxSequence]
    BY <1>0, <2>0 DEF Zeroed
  <2>2. journal \in Journals
    BY <1>0, <1>2, <2>0, <2>1 DEF Journals
  <2>3. Empty \in Holdings
    BY <1>0 DEF Empty, Holdings
  <2>4. [r \in Index |-> Junk] \in [Index -> 0 .. Junk]
    BY <1>0 DEF Junk
  <2>5. /\ backing \in [Backings -> Holdings] /\ gpu \in [Backings -> [Index -> 0 .. Junk]]
    BY <1>1, <2>3, <2>4
  <2>6. family \in [previous : Versions \cup {None}, lastRevision : 0 .. MaxSequence]
    BY <1>0, <1>1
  <2> QED
    BY <1>1, <2>2, <2>5, <2>6 DEF Types
<1>7. OrderInv
  BY <1>1, <1>3, <1>4, <1>5 DEF OrderInv, Empty
<1>8. VersionInv
  BY <1>1, <1>4, <1>5 DEF VersionInv
<1>9. ClosedInv
  <2>1. Max({0, 1}) = 1
    BY Extremes2
  <2>2. Closed({}, 0, 1)
    BY <2>1 DEF Closed
  <2> QED
    BY <1>1, <1>3, <2>2 DEF ClosedInv
<1>10. ReachInv
  BY <1>1, <1>3, <1>4 DEF ReachInv
<1>11. FollowInv
  BY <1>1, <1>4 DEF FollowInv
<1>12. UploadInv
  <2>1. Len(uploads) = 0
    BY <1>1
  <2> QED
    BY <1>1, <1>5, <2>1 DEF UploadInv
<1>13. ClaimInv /\ WriteInv
  BY <1>1, <1>4 DEF ClaimInv, WriteInv, Writing
<1> QED
  BY <1>6, <1>7, <1>8, <1>9, <1>10, <1>11, <1>12, <1>13 DEF IInv

LEMMA InvariantStep == IInv /\ [Next]_vars => IInv'
BY TypesStep, OrderStep, VersionStep, ClosedStep, ReachStep, FollowStep, UploadStep, ClaimStep, WriteStep DEF IInv

(* The inductive invariant holds.                                          *)
THEOREM InvariantHolds == Spec => []IInv
BY InitHolds, InvariantStep, PTL DEF Spec

(* VersionedBufferBuildInput: all writes after the capture's base are in   *)
(* `writes', closed through the captured sequence, although Acknowledge    *)
(* trims with a floor read before its lock.                                *)
THEOREM CapturesStayClosed == Spec => []CapturesAreClosed
<1>1. IInv => CapturesAreClosed
  BY DEF IInv, ClosedInv, Closed, CapturesAreClosed
<1> QED
  BY <1>1, InvariantHolds, PTL

(* BufferJournal::Acknowledge drops no write that a backing which claims   *)
(* an epoch still needs.                                                   *)
THEOREM NoBackingIsLeftBehind == Spec => []JournalReachesBackings
<1>1. IInv => JournalReachesBackings
  BY DEF IInv, ReachInv, Claims, JournalReachesBackings
<1> QED
  BY <1>1, InvariantHolds, PTL

(* The types of the properties: a leased backing exists.                   *)
LEMMA TypesFollow == IInv => TypeOK
<1> SUFFICES ASSUME IInv PROVE TypeOK
  OBVIOUS
<1>1. Types /\ VersionInv
  BY DEF IInv
<1>2. /\ journal.seq \in 1 .. MaxSequence /\ journal.count \in 0 .. Rows /\ ImageOf(journal) \in Images
  BY <1>1 DEF Types, Journals, ImageOf, Images
<1>3. \A b \in Backings : /\ backing[b].epoch \in 0 .. MaxSequence
                          /\ backing[b].image = None \/ backing[b].image \in Images
  BY <1>1 DEF Types, Holdings
<1>4. \A b \in Leased : backing[b].class # 0
  BY <1>1 DEF Leased, VersionInv
<1>5. family.lastRevision \in 0 .. MaxSequence
  BY <1>1 DEF Types
<1> QED
  BY <1>1, <1>2, <1>3, <1>4, <1>5 DEF TypeOK, Types

(* Where no gap is left unwritten after a shrink, a backing that claims an *)
(* epoch, and has no upload queued or lost, holds that epoch's image row   *)
(* for row: BackingPool's contentEpoch says what it holds.                 *)
THEOREM EpochsTellTheTruth ==
  ASSUME ~SparseAfterShrink
  PROVE  Spec => []EpochTellsContents
<1>1. IInv => EpochTellsContents
  <2> SUFFICES ASSUME IInv PROVE EpochTellsContents
    OBVIOUS
  <2>1. ASSUME NEW b \in Backings \ lost, backing[b].epoch # 0, \A k \in DOMAIN uploads : uploads[k].b # b
        PROVE  Holds(b, backing[b].image)
    <3>1. Delivers(b)
      BY <2>1 DEF IInv, ClaimInv, Claims
    <3>2. \A k \in 1 .. Len(uploads) : uploads[k].b # b
      BY <2>1 DEF IInv, Types
    <3> QED
      BY <3>1, <3>2 DEF Delivers, Stored, Lands, Touches, Holds
  <2> QED
    BY <2>1, TypesFollow DEF EpochTellsContents
<1> QED
  BY <1>1, InvariantHolds, PTL

(* Under the same condition a published version is immutable: while the    *)
(* graph, the journal or the family keeps it, its backing shows exactly    *)
(* its image.                                                              *)
THEOREM PublishedStayExact ==
  ASSUME ~SparseAfterShrink
  PROVE  Spec => []KeptVersionsStayExact
<1>1. IInv => KeptVersionsStayExact
  <2> SUFFICES ASSUME IInv, NEW v \in {current, journal.previous, family.previous} \ {None}, v.b \notin lost
               PROVE  Holds(v.b, v.image)
    BY DEF KeptVersionsStayExact
  <2>1. v \in Settled /\ v \in Named
    BY DEF Settled, Named
  <2>2. /\ v.b \in Backings /\ v.seq \in Nat \ {0}
        /\ backing[v.b].epoch = v.seq /\ backing[v.b].image = v.image
    BY <2>1, Numbers DEF IInv, VersionInv
  <2>3. Delivers(v.b)
    BY <2>2 DEF IInv, ClaimInv, Claims
  <2>4. Unqueued(v)
    BY <2>1 DEF IInv, UploadInv
  <2>5. ASSUME NEW r \in 1 .. v.image.size
        PROVE  gpu[v.b][r] = v.image.rows[r]
    <3>1. Stored(v.b, r, v.image.rows[r], v.seq)
      BY <2>2, <2>3 DEF Delivers
    <3>2. \A k \in 1 .. Len(uploads) : ~Touches(k, v.b, r)
      BY <2>4, <3>1 DEF Unqueued, Stored, Overwritten
    <3> QED
      BY <3>1, <3>2 DEF Stored, Lands
  <2> QED
    BY <2>5 DEF Holds
<1> QED
  BY <1>1, InvariantHolds, PTL
==============================================================================
