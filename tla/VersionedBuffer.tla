--------------------------- MODULE VersionedBuffer ---------------------------
(***************************************************************************)
(* The journal, build and acknowledge loop of one versioned buffer:        *)
(* BufferJournal.cpp, Build of VersionedBufferBuild.cpp, and the journal   *)
(* half of VersionedBufferFamily.h.                                        *)
(*                                                                         *)
(* A version is built into a backing leased from the pool, which still     *)
(* holds an older version: only the rows the journal says were written     *)
(* since are uploaded.  A row's contents are the sequence of the write     *)
(* that made them (0: zero fill).  Rows are wider than the 256 bytes       *)
(* across which dirty ranges merge.  The journal is initialised once.      *)
(* The graph (StateGraph) hands the producer the newest capture and runs   *)
(* one build at a time; the pool's own concurrency is in BackingPool.      *)
(***************************************************************************)
EXTENDS Integers, Sequences, FiniteSets, FiniteSetsExt

CONSTANTS
  Backings,    \* bound: the allocations alive at once
  Rows,        \* bound: element indices are 1 .. Rows
  Sizes,       \* the element counts the manager asks for
  Offsets,     \* the rows it writes one at a time
  Capacities,  \* the capacities it asks for
  MaxSequence, \* bound: the journal's last write sequence
  MaxPerClass, \* Config::maxPerClass
  SpareFree,   \* Config::spareFree
  SparseAfterShrink, \* whether growth may leave unwritten rows after an image was shrunk
  None

ASSUME VersionedBufferAssumption ==
  /\ Rows \in Nat /\ MaxSequence \in Nat \ {0} /\ MaxPerClass \in Nat /\ SpareFree \in Nat
  /\ Sizes \subseteq 0 .. Rows /\ Offsets \subseteq 1 .. Rows /\ Capacities \subseteq Nat \ {0} /\ SparseAfterShrink \in BOOLEAN
  /\ \A c \in Capacities : c >= Rows
  /\ IsFiniteSet(Backings)

(* The values a variable can have.                                         *)
Index == 1 .. Rows
Images == [size : 0 .. Rows, rows : [Index -> 0 .. MaxSequence]]
Writes == [seq : 1 .. MaxSequence, rows : SUBSET Index]
Versions == [seq : 1 .. MaxSequence, cap : Nat \ {0}, b : Backings, image : Images]
Captures == [seq : 1 .. MaxSequence, cap : Capacities, previous : Versions \cup {None},
             writes : SUBSET Writes, image : Images, base : 0 .. MaxSequence]
Builds == [in : Captures, b : Backings, allocated : BOOLEAN, todo : SUBSET Index,
           at : {"leased", "writing"}, cancelled : BOOLEAN]
Acks == [version : Versions, floor : (1 .. MaxSequence) \cup {None}]

\* None is no value.
ASSUME NoneAssumption ==
  /\ None \notin 0 .. MaxSequence /\ None \notin Images /\ None \notin Versions
  /\ None \notin Captures /\ None \notin Builds /\ None \notin Acks

VARIABLES
  journal,  \* BufferJournal's members
  family,   \* VersionedBufferFamily's m_previous and m_lastJournalRevision
  input,    \* the capture the graph wants built
  build,    \* the build in progress
  pending,  \* versions made whose uploads have not completed
  current,  \* the version the graph published last
  ack,      \* a BufferJournal::Acknowledge between its floor and its lock
  backing,  \* each backing's class, contentEpoch, image, and whether it is bound
  gpu,      \* each backing's rows
  uploads,  \* the uploader's queue
  lost      \* history: backings a made version's upload was cancelled for,
            \* until their next whole write

vars == <<journal, family, input, build, pending, current, ack, backing, gpu, uploads, lost>>

Junk == MaxSequence + 1  \* what a fresh allocation holds
Empty == [class |-> 0, epoch |-> 0, image |-> None, bound |-> FALSE]
ImageOf(j) == [size |-> j.count, rows |-> j.rows]
Zeroed(rows, from) == [r \in Index |-> IF r > from THEN 0 ELSE rows[r]]

Init ==
  /\ \E n \in Sizes, c \in Capacities :
       journal = [seq |-> 1, count |-> n, cap |-> c, writes |-> {}, base |-> 0, previous |-> None,
                  rows |-> Zeroed([r \in Index |-> 1], n), shrunk |-> FALSE]
  /\ family = [previous |-> None, lastRevision |-> 0]
  /\ input = None
  /\ build = None
  /\ pending = {}
  /\ current = None
  /\ ack = None
  /\ backing = [b \in Backings |-> Empty]
  /\ gpu = [b \in Backings |-> [r \in Index |-> Junk]]
  /\ uploads = <<>>
  /\ lost = {}

-----------------------------------------------------------------------------
(* The manager's writes.  A write is the sequence and the rows it covers.  *)
AppendWrite(offset, result) ==
  LET seq == journal.seq + 1
      count == Max({journal.count, result})
      gap == ((journal.count + 1) .. count) \ {offset}
  IN  /\ journal.seq < MaxSequence
      /\ offset \in 1 .. result
      /\ result <= journal.cap
      /\ (gap # {} /\ journal.shrunk) => SparseAfterShrink
      /\ journal' = [journal EXCEPT !.seq = seq, !.count = count,
                       !.rows = [Zeroed(@, journal.count) EXCEPT ![offset] = seq],
                       !.writes = @ \cup {[seq |-> seq, rows |-> {offset}]}]
      /\ UNCHANGED <<family, input, build, pending, current, ack, backing, gpu, uploads, lost>>

ReplaceImage(count, capacity) ==
  LET seq == journal.seq + 1
  IN  /\ journal.seq < MaxSequence
      /\ count <= capacity
      /\ journal' = [journal EXCEPT !.seq = seq, !.count = count, !.cap = Max({@, capacity}),
                       !.rows = Zeroed([r \in Index |-> seq], count),
                       !.writes = @ \cup {[seq |-> seq, rows |-> 1 .. count]},
                       !.shrunk = @ \/ count < journal.count]
      /\ UNCHANGED <<family, input, build, pending, current, ack, backing, gpu, uploads, lost>>

\* Mutant: no checkpoint closes the sequence.
RequestCapacityUnclosed(capacity) ==
  /\ journal.seq < MaxSequence
  /\ capacity > journal.cap
  /\ journal' = [journal EXCEPT !.seq = @ + 1, !.cap = capacity]
  /\ UNCHANGED <<family, input, build, pending, current, ack, backing, gpu, uploads, lost>>

(* The checkpoint write covers no row.                                     *)
RequestCapacity(capacity) ==
  LET seq == journal.seq + 1
  IN  /\ journal.seq < MaxSequence
      /\ capacity > journal.cap
      /\ journal' = [journal EXCEPT !.seq = seq, !.cap = capacity,
                       !.writes = @ \cup {[seq |-> seq, rows |-> {}]}]
      /\ UNCHANGED <<family, input, build, pending, current, ack, backing, gpu, uploads, lost>>

CaptureDesired ==
  [seq |-> journal.seq, cap |-> journal.cap, previous |-> journal.previous, writes |-> journal.writes,
   image |-> ImageOf(journal), base |-> journal.base]

(* A capture made the address's latest intent; the same revision again is  *)
(* already desired.                                                        *)
RequestCapture ==
  /\ journal.seq # family.lastRevision
  /\ family' = [family EXCEPT !.lastRevision = journal.seq]
  /\ input' = CaptureDesired
  /\ UNCHANGED <<journal, build, pending, current, ack, backing, gpu, uploads, lost>>

-----------------------------------------------------------------------------
(* The build, on the graph's producer thread.                              *)
PowerOfTwoFrom(n) == Min({p \in {2 ^ k : k \in 0 .. n} : p >= n})

\* bit_ceil, of the capacities there are.
ASSUME RoundingAssumption == \A c \in Capacities : PowerOfTwoFrom(c) \in Nat /\ PowerOfTwoFrom(c) >= c

ReplacementCapacity(in) ==
  LET rounded == PowerOfTwoFrom(in.cap)
  IN  IF in.previous = None THEN rounded
      ELSE Max({rounded, in.previous.cap + Max({in.previous.cap \div 2, 1})})

ChooseClass(in) ==
  IF in.previous # None /\ in.cap <= in.previous.cap THEN in.previous.cap ELSE ReplacementCapacity(in)

(* The leases: a version owns its backing's, and is kept by whoever names  *)
(* it.                                                                     *)
Named == ({current, journal.previous, family.previous}
          \cup (IF ack = None THEN {} ELSE {ack.version})
          \cup (IF input = None THEN {} ELSE {input.previous})
          \cup (IF build = None THEN {} ELSE {build.in.previous})
          \cup pending) \ {None}

Leased == {v.b : v \in Named} \cup (IF build = None THEN {} ELSE {build.b})

\* Mutant: only the clock keeps a backing from reuse.
ReusableByClock == {b \in Backings : backing[b].class # 0 /\ ~backing[b].bound}

Reusable == {b \in Backings \ Leased : backing[b].class # 0 /\ ~backing[b].bound}

(* nearer: the highest contentEpoch at or below the sequence asked for,    *)
(* then those past it.                                                     *)
Nearer(a, b, prefer) ==
  LET ea == backing[a].epoch
      eb == backing[b].epoch
  IN  IF (ea <= prefer) # (eb <= prefer) THEN ea <= prefer
      ELSE IF ea <= prefer THEN ea > eb ELSE ea < eb

(* Acquire: the nearest reusable backing of the class, or a new one; the   *)
(* reusable ones of other classes and past the spares go.  Exhausted: the  *)
(* build stays suspended until this is enabled.                            *)
Acquire ==
  /\ input # None
  /\ build = None
  /\ LET class == ChooseClass(input)
         same == {b \in Reusable : backing[b].class = class}
         others == Reusable \ same
         made == {b \in Backings : backing[b].class = class}
         Take(b, allocated, gone) ==
           /\ build' = [in |-> input, b |-> b, allocated |-> allocated, todo |-> {}, at |-> "leased",
                        cancelled |-> FALSE]
           /\ backing' = [x \in Backings |->
                IF x = b /\ allocated THEN [Empty EXCEPT !.class = class]
                ELSE IF x \in gone THEN Empty ELSE backing[x]]
           /\ gpu' = [x \in Backings |-> IF x \in gone \/ (x = b /\ allocated) THEN [r \in Index |-> Junk] ELSE gpu[x]]
           /\ lost' = lost \ gone
     IN  \/ \E b \in same, spares \in SUBSET same :
              /\ \A x \in same : ~Nearer(x, b, input.seq)
              /\ b \notin spares
              /\ Cardinality(spares) = Min({SpareFree, Cardinality(same) - 1})
              /\ \A x \in spares, y \in same \ (spares \cup {b}) : ~Nearer(y, x, input.seq)
              /\ Take(b, FALSE, others \cup (same \ (spares \cup {b})))
         \/ \E b \in Backings :
              /\ same = {}
              /\ MaxPerClass # 0 => Cardinality(made) < MaxPerClass
              /\ backing[b].class = 0 \/ b \in others
              /\ Take(b, TRUE, others)
  /\ input' = None
  /\ UNCHANGED <<journal, family, pending, current, ack, uploads>>

(* Cancelled (or failed) before a byte was written: the lease goes back    *)
(* with what the backing held.                                             *)
CancelBuild ==
  /\ build # None
  /\ build.at = "leased"
  /\ build' = None
  /\ UNCHANGED <<journal, family, input, pending, current, ack, backing, gpu, uploads, lost>>

JournalCoversBacking(held, b, in, allocated) ==
  /\ ~allocated
  /\ held # 0
  /\ held >= in.base
  /\ held <= in.seq
  /\ backing[b].image # None
  /\ backing[b].image.size = in.image.size

\* Mutant: the first write after what the backing holds is skipped.
DirtyRowsSkipFirst(b, in, allocated) ==
  LET held == backing[b].epoch
      dirty == UNION {w.rows : w \in {x \in in.writes : x.seq > held + 1}}
  IN  IF JournalCoversBacking(held, b, in, allocated) /\ 2 * Cardinality(dirty) <= in.image.size
      THEN dirty ELSE 1 .. in.image.size

(* The rows to upload: the writes since what the backing holds, or the     *)
(* whole image when the journal does not reach back or half is dirty.      *)
DirtyRows(b, in, allocated) ==
  LET held == backing[b].epoch
      dirty == UNION {w.rows : w \in {x \in in.writes : x.seq > held}}
  IN  IF JournalCoversBacking(held, b, in, allocated) /\ 2 * Cardinality(dirty) <= in.image.size
      THEN dirty ELSE 1 .. in.image.size

\* Mutant: the backing keeps its claim while it is rewritten.
ForgetNothing(b) == backing

Forget(b) == [backing EXCEPT ![b].image = None, ![b].epoch = 0]

(* An empty image writes nothing and forgets nothing.                      *)
BeginWrites ==
  /\ build # None
  /\ build.at = "leased"
  /\ LET size == build.in.image.size
         todo == DirtyRows(build.b, build.in, build.allocated)
     IN  /\ backing' = IF size = 0 THEN backing ELSE Forget(build.b)
         /\ build' = [build EXCEPT !.todo = todo, !.at = "writing"]
         /\ lost' = IF size # 0 /\ todo = 1 .. size THEN lost \ {build.b} ELSE lost
  /\ UNCHANGED <<journal, family, input, pending, current, ack, gpu, uploads>>

FirstRange(rows) == {r \in rows : Min(rows) .. r \subseteq rows}

(* One dirty range handed to the upload service, which copies the image's  *)
(* rows as it queues them.                                                 *)
QueueUpload ==
  /\ build # None
  /\ build.at = "writing"
  /\ build.todo # {}
  /\ LET range == FirstRange(build.todo)
     IN  /\ uploads' = Append(uploads, [b |-> build.b, seq |-> build.in.seq, range |-> range, rows |-> build.in.image.rows])
         /\ build' = [build EXCEPT !.todo = @ \ range]
  /\ UNCHANGED <<journal, family, input, pending, current, ack, backing, gpu, lost>>

(* The service refuses a range: the build fails, and ranges it queued      *)
(* before still land.                                                      *)
FailBuild ==
  /\ build # None
  /\ build.at = "writing"
  /\ build.todo # {}
  /\ build' = None
  /\ UNCHANGED <<journal, family, input, pending, current, ack, backing, gpu, uploads, lost>>

(* The version, ready once its tickets complete; a ticket cancelled        *)
(* already makes it fail at once.                                          *)
FinishBuild ==
  /\ build # None
  /\ build.at = "writing"
  /\ build.todo = {}
  /\ LET b == build.b
         version == [seq |-> build.in.seq, cap |-> backing[b].class, b |-> b, image |-> build.in.image]
     IN  /\ backing' = [backing EXCEPT ![b].image = build.in.image, ![b].epoch = build.in.seq]
         /\ pending' = IF build.cancelled THEN pending ELSE pending \cup {version}
  /\ build' = None
  /\ UNCHANGED <<journal, family, input, current, ack, gpu, uploads, lost>>

-----------------------------------------------------------------------------
(* The uploader and the graph (external here): copies land in the order    *)
(* queued; a cancelled one fails its version, which nobody then names.     *)
RunUpload ==
  /\ uploads # <<>>
  /\ LET u == Head(uploads)
     IN  gpu' = [gpu EXCEPT ![u.b] = [r \in Index |-> IF r \in u.range THEN u.rows[r] ELSE @[r]]]
  /\ uploads' = Tail(uploads)
  /\ UNCHANGED <<journal, family, input, build, pending, current, ack, backing, lost>>

CancelUpload ==
  /\ uploads # <<>>
  /\ LET u == Head(uploads)
         building == build # None /\ build.b = u.b /\ build.in.seq = u.seq
         owners == {v \in pending : v.seq = u.seq}
     IN  /\ lost' = IF building \/ owners # {} THEN lost \cup {u.b} ELSE lost
         /\ pending' = pending \ owners
         /\ build' = IF building THEN [build EXCEPT !.cancelled = TRUE] ELSE build
  /\ uploads' = Tail(uploads)
  /\ UNCHANGED <<journal, family, input, current, ack, backing, gpu>>

(* A version's uploads completed: the graph publishes it, unless a newer   *)
(* one already is.                                                         *)
PublishVersion(v) ==
  /\ \A k \in DOMAIN uploads : uploads[k].seq # v.seq
  /\ pending' = pending \ {v}
  /\ current' = IF current = None \/ v.seq > current.seq THEN v ELSE current
  /\ UNCHANGED <<journal, family, input, build, ack, backing, gpu, uploads, lost>>

-----------------------------------------------------------------------------
(* The host acknowledges the version it published, to the journal and to   *)
(* the family.                                                             *)

\* Mutant: a backing a build has leased is not looked at.
OldestUnleasedEpoch ==
  LET epochs == {backing[b].epoch : b \in Backings \ Leased} \ {0}
  IN  IF epochs = {} THEN None ELSE Min(epochs)

OldestContentEpoch ==
  LET epochs == {backing[b].epoch : b \in Backings} \ {0}
  IN  IF epochs = {} THEN None ELSE Min(epochs)

AcknowledgeReadsFloor ==
  /\ current # None
  /\ ack = None
  /\ ack' = [version |-> current, floor |-> OldestContentEpoch]
  /\ UNCHANGED <<journal, family, input, build, pending, current, backing, gpu, uploads, lost>>

Acknowledge ==
  /\ ack # None
  /\ LET v == ack.version
         base == Max({journal.base, IF ack.floor = None THEN v.seq ELSE Min({v.seq, ack.floor})})
     IN  journal' = IF v.seq > journal.seq \/ (journal.previous # None /\ v.seq <= journal.previous.seq)
                    THEN journal
                    ELSE [journal EXCEPT !.previous = v, !.base = base,
                            !.writes = {w \in @ : w.seq > base}]
  /\ ack' = None
  /\ UNCHANGED <<family, input, build, pending, current, backing, gpu, uploads, lost>>

(* The superseded version's backing is bound to the clock for the frames   *)
(* still in flight.                                                        *)
FamilyAcknowledge ==
  /\ current # None
  /\ family.previous # None => current.seq > family.previous.seq
  /\ family' = [family EXCEPT !.previous = current]
  /\ backing' = IF family.previous # None /\ family.previous.b # current.b
                THEN [backing EXCEPT ![family.previous.b].bound = TRUE] ELSE backing
  /\ UNCHANGED <<journal, input, build, pending, current, ack, gpu, uploads, lost>>

(* The clock reaches the backing's safeAt.                                 *)
ClockPasses(b) ==
  /\ backing[b].bound
  /\ backing' = [backing EXCEPT ![b].bound = FALSE]
  /\ UNCHANGED <<journal, family, input, build, pending, current, ack, gpu, uploads, lost>>

Next ==
  \/ \E offset \in Offsets, result \in Sizes : AppendWrite(offset, result)
  \/ \E count \in Sizes, capacity \in Capacities : ReplaceImage(count, capacity)
  \/ \E capacity \in Capacities : RequestCapacity(capacity)
  \/ RequestCapture
  \/ Acquire \/ CancelBuild \/ BeginWrites \/ QueueUpload \/ FailBuild \/ FinishBuild
  \/ RunUpload \/ CancelUpload
  \/ \E v \in pending : PublishVersion(v)
  \/ AcknowledgeReadsFloor \/ Acknowledge \/ FamilyAcknowledge
  \/ \E b \in Backings : ClockPasses(b)

Spec == Init /\ [][Next]_vars

-----------------------------------------------------------------------------
(* Every variable has its type; a leased, named or queued backing exists.  *)
TypeOK ==
  /\ journal.seq \in 1 .. MaxSequence /\ journal.count \in 0 .. Rows /\ ImageOf(journal) \in Images
  /\ family.lastRevision \in 0 .. MaxSequence
  /\ \A b \in Backings : backing[b].epoch \in 0 .. MaxSequence /\ (backing[b].image = None \/ backing[b].image \in Images)
  /\ gpu \in [Backings -> [Index -> 0 .. Junk]]
  /\ lost \subseteq Backings
  /\ \A b \in Leased : backing[b].class # 0

Holds(b, image) == \A r \in 1 .. image.size : gpu[b][r] = image.rows[r]

(* BackingPool.h: contentEpoch is the journal position a backing's contents *)
(* hold.  Once its uploads have landed, a backing that claims an epoch      *)
(* holds, row for row, the image of that epoch, whatever mixture of patches *)
(* and whole writes, failed and cancelled builds made it; only one that     *)
(* lost an upload of a made version does not.  The variables have their     *)
(* types.                                                                   *)
EpochTellsContents ==
  /\ TypeOK
  /\ \A b \in Backings \ lost :
       backing[b].epoch # 0 /\ (\A k \in DOMAIN uploads : uploads[k].b # b) => Holds(b, backing[b].image)

(* A published version is immutable: as long as the graph, the journal or  *)
(* the family keeps it, its backing shows exactly its image, although      *)
(* later builds reuse backings and late uploads of failed builds land.     *)
KeptVersionsStayExact ==
  \A v \in {current, journal.previous, family.previous} \ {None} :
    v.b \in lost \/ Holds(v.b, v.image)

(* VersionedBufferBuildInput: all writes after journalBaseSequence are in  *)
(* `writes', closed through the captured sequence, although Acknowledge    *)
(* trims with a floor read before its lock.                                *)
CapturesAreClosed ==
  \A c \in ({input} \cup (IF build = None THEN {} ELSE {build.in})) \ {None} :
    {w.seq : w \in c.writes} = (Max({c.base, 1}) + 1) .. c.seq

(* BufferJournal.h: only the writes no backing still needs are dropped, so *)
(* every backing that claims an epoch can catch up from the journal.       *)
JournalReachesBackings ==
  \A b \in Backings : backing[b].epoch # 0 => backing[b].epoch >= journal.base

=============================================================================
