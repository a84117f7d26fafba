---------------------- MODULE GrowableBufferSetProofs ----------------------
(***************************************************************************)
(* The safety of GrowableBufferSet, for any buffers, shrink policies,      *)
(* needs and faults; the growth policy is Doubling(1).  The inductive      *)
(* invariant says, beside the types:                                       *)
(*   - JoinInv: a registered buffer is on the stack, or has a slot and a   *)
(*     version, or is gone for good; what a batch grows keeps its slot     *)
(*     until it settles; a grown version is never the first; only buffers  *)
(*     that were registered are required;                                  *)
(*   - CurrentInv: while m_changed is unset, the last set names what a new *)
(*     one would;                                                          *)
(*   - SealedInv: what the last seal returned meets what it required.      *)
(***************************************************************************)
EXTENDS GrowableBufferSet, SequenceTheorems, TLAPS

Needed == AskedUnits \cup {0}
Needs == [units : Needed, newer : Nat]
Blocks == [stride : Nat, layout : Nat, made : Nat]
Asks == UNION {[S -> Nat] : S \in SUBSET Buffers}
Batches == [state : {"none", "pending", "ready", "failed"}, asks : Asks]
Slots == [taken : BOOLEAN, units : Nat, serial : Nat, made : BOOLEAN, window : Windows]
WellFormed(slots) ==
    slots \in [Buffers -> Slots] /\ \A b \in Buffers : slots[b].window.peak \in Needed

\* The types, with the requirements among what the host asks for.
Types ==
    /\ life \in [Buffers -> {"new", "live", "dropped"}]
    /\ latchLife \in BOOLEAN /\ stack \subseteq Buffers \cup {Latch}
    /\ WellFormed(slot)
    /\ latch \in [taken : BOOLEAN, block : Blocks]
    /\ batch \in Batches /\ (batch.state = "none" <=> batch = NoBatch)
    /\ waking \in Seq(SUBSET Buffers)
    /\ changed \in BOOLEAN /\ todo \in BOOLEAN /\ open \in BOOLEAN
    /\ last = NoSet \/ last.versions \in [Buffers -> Versions]
    /\ needs \in [Buffers -> Needs] /\ latchNeed \in Blocks
    /\ build \in [required : [Buffers -> Needs], latch : Blocks]
    /\ outcome \in {"none", "named", "pending", "error"}
    /\ pc \in {"idle", "begun", "required"}
    /\ changes \in 0..MaxChanges /\ faults \in 0..MaxFaults

\* What holds of the producer's slots, also in the middle of a build.
SlotInv(slots) ==
    \A b \in Buffers :
        /\ slots[b].taken => life[b] # "new"
        /\ ~slots[b].taken => slots[b].serial = 0 /\ ~slots[b].made
        /\ slots[b].made => slots[b].serial > 1
        /\ batch.state # "none" /\ b \in DOMAIN batch.asks => slots[b].taken /\ slots[b].serial > 0
        /\ life[b] # "new" /\ b \notin stack =>
               (slots[b].taken /\ slots[b].serial > 0) \/ Expired(b)

JoinInv ==
    /\ SlotInv(slot)
    /\ \A b \in Buffers :
        /\ b \in stack => ~slot[b].taken /\ life[b] # "new"
        /\ needs[b] # NoNeed => life[b] # "new"
        /\ build.required[b] # NoNeed => life[b] # "new"

CurrentInv ==
    /\ ~changed /\ last # NoSet => last = NamesOf(slot, latch)
    /\ KeptSetIsCurrent

SealedInv ==
    Returned =>
        \A b \in Buffers :
            /\ build.required[b] # NoNeed /\ ~Expired(b) =>
                   /\ last.versions[b].units >= build.required[b].units
                   /\ last.versions[b].serial > build.required[b].newer
            /\ b \in ZeroBuffers => last.versions[b].serial # 1

IInv == Types /\ JoinInv /\ CurrentInv /\ SealedInv

(***************************************************************************)
(* The model's operators                                                   *)
(***************************************************************************)

\* A policy makes a capacity that holds the need.
LEMMA DoublingReaches ==
    ASSUME NEW current \in Nat, NEW needed \in Needed
    PROVE  NextDoubling(current, needed) \in Nat /\ NextDoubling(current, needed) >= needed
<1>1. needed \in Nat
  BY GrowableAssumption DEF Needed
<1>2. CASE Larger(current, 1) >= needed
  BY <1>1, <1>2 DEF NextDoubling, Larger
<1>3. CASE ~(Larger(current, 1) >= needed)
  <2>1. needed \in AskedUnits /\ current \in 0..needed
    BY <1>1, <1>3 DEF Needed, Larger
  <2> QED
    BY <2>1, DoublingAssumption
<1> QED
  BY <1>2, <1>3

LEMMA GrowToReaches ==
    ASSUME NEW need \in Needs, NEW held \in Nat
    PROVE  GrowTo(need, held) \in Nat /\ GrowTo(need, held) >= need.units
BY DoublingReaches, GrowableAssumption DEF GrowTo, Needs, Needed

\* An ask leaves a window and a capacity.
LEMMA ObserveTyped ==
    ASSUME NEW w \in Windows, w.peak \in Needed, NEW capacity \in Nat, NEW need \in Needed
    PROVE  /\ Observe(w, capacity, need).window \in Windows
           /\ Observe(w, capacity, need).window.peak \in Needed
           /\ Observe(w, capacity, need).units \in Nat
<1> DEFINE asked == IF w.seen = 0
                    THEN [seen |-> 1, peak |-> need, settled |-> FALSE]
                    ELSE [w EXCEPT !.seen = IF @ < Observations THEN @ + 1 ELSE @,
                                   !.peak = Larger(@, need)]
<1>0. /\ Observations \in Nat \ {0} /\ need \in Nat
      /\ w \in [seen : 0..Observations, peak : Nat, settled : BOOLEAN]
  BY GrowableAssumption DEF Needed, Windows
<1>1. asked \in Windows /\ asked.peak \in Needed
  <2>1. CASE w.seen = 0
    <3>1. asked = [seen |-> 1, peak |-> need, settled |-> FALSE]
      BY <2>1
    <3>2. 1 \in 0..Observations
      BY <1>0
    <3> HIDE DEF asked
    <3> QED
      BY <3>1, <3>2, <1>0 DEF Windows
  <2>2. CASE w.seen # 0
    <3>1. PICK n \in 0..Observations : n = IF w.seen < Observations THEN w.seen + 1 ELSE w.seen
      BY <1>0
    <3>2. PICK p \in Needed : p = Larger(w.peak, need)
      BY DEF Larger
    <3>3. asked = [w EXCEPT !.seen = n, !.peak = p]
      BY <2>2, <3>1, <3>2
    <3>4. asked = [seen |-> n, peak |-> p, settled |-> w.settled]
      BY <3>3, <1>0
    <3>5. p \in Nat /\ w.settled \in BOOLEAN
      BY <1>0, GrowableAssumption DEF Needed
    <3> HIDE DEF asked
    <3> QED
      BY <3>4, <3>5 DEF Windows
  <2> QED
    BY <2>1, <2>2
<1>2. Closed \in Windows /\ Closed.peak \in Needed
  BY <1>0 DEF Closed, Windows, Needed
<1>3. Observe(w, capacity, need).window \in {asked, Closed}
  BY DEF Observe
<1>4. Observe(w, capacity, need).units \in {capacity, NextDoubling(0, asked.peak)}
  BY DEF Observe
<1> HIDE DEF asked
<1>5. NextDoubling(0, asked.peak) \in Nat
  BY <1>1, DoublingReaches
<1> QED
  BY <1>1, <1>2, <1>3, <1>4, <1>5

LEMMA VacantTyped == Vacant \in Slots /\ Vacant.window = Closed /\ Closed.peak \in Needed
BY GrowableAssumption DEF Vacant, Closed, Slots, Windows, Needed

\* TakenSlots, slot by slot.
LEMMA TakenFacts ==
    ASSUME Types
    PROVE  /\ WellFormed(TakenSlots)
           /\ \A b \in Buffers :
                /\ b \notin stack => TakenSlots[b] = slot[b]
                /\ b \in stack => /\ TakenSlots[b].taken /\ ~TakenSlots[b].made
                                  /\ ~Expired(b) => TakenSlots[b].serial = 1
                                  /\ Expired(b) => TakenSlots[b].serial = 0
           /\ stack = {} => TakenSlots = slot /\ TakenLatch = latch
           /\ TakenLatch \in [taken : BOOLEAN, block : Blocks]
           /\ TakenLatch.block = latch.block
<1>0. /\ slot \in [Buffers -> Slots] /\ \A b \in Buffers : slot[b].window.peak \in Needed
      /\ latch \in [taken : BOOLEAN, block : Blocks]
      /\ FirstUnits \in [Buffers -> Nat \ {0}]
  BY GrowableAssumption DEF Types, WellFormed
<1> DEFINE Joined(b) == IF Expired(b) THEN [Vacant EXCEPT !.taken = TRUE]
                        ELSE [Vacant EXCEPT !.taken = TRUE, !.units = FirstUnits[b], !.serial = 1]
<1>1. ASSUME NEW b \in Buffers
      PROVE  /\ Joined(b) \in Slots /\ Joined(b).window = Closed
             /\ Joined(b).taken /\ ~Joined(b).made
             /\ ~Expired(b) => Joined(b).serial = 1
             /\ Expired(b) => Joined(b).serial = 0
  <2>1. CASE Expired(b)
    <3>1. Joined(b) = [taken |-> TRUE, units |-> 0, serial |-> 0, made |-> FALSE, window |-> Closed]
      BY <2>1 DEF Vacant
    <3> QED
      BY <3>1, <2>1, VacantTyped DEF Slots, Vacant
  <2>2. CASE ~Expired(b)
    <3>1. Joined(b) = [taken |-> TRUE, units |-> FirstUnits[b], serial |-> 1, made |-> FALSE,
                       window |-> Closed]
      BY <2>2 DEF Vacant
    <3>2. FirstUnits[b] \in Nat
      BY <1>0
    <3> QED
      BY <3>1, <3>2, <2>2, VacantTyped DEF Slots, Vacant
  <2> QED
    BY <2>1, <2>2
<1>2. TakenSlots = [b \in Buffers |-> IF b \notin stack THEN slot[b] ELSE Joined(b)]
  BY DEF TakenSlots
<1> HIDE DEF Joined
<1>3. TakenSlots \in [Buffers -> Slots]
  BY <1>0, <1>1, <1>2
<1>4. \A b \in Buffers : TakenSlots[b].window.peak \in Needed
  BY <1>0, <1>1, <1>2, VacantTyped
<1>5. TakenLatch \in [taken : BOOLEAN, block : Blocks] /\ TakenLatch.block = latch.block
  <2>1. TakenLatch = [latch EXCEPT !.taken = (latch.taken \/ Latch \in stack)]
    BY DEF TakenLatch
  <2>2. PICK t \in BOOLEAN : t = (latch.taken \/ Latch \in stack)
    OBVIOUS
  <2>3. TakenLatch = [latch EXCEPT !.taken = t]
    BY <2>1, <2>2
  <2> QED
    BY <2>3, <1>0
<1>6. ASSUME stack = {}
      PROVE  TakenSlots = slot /\ TakenLatch = latch
  <2>1. TakenSlots = slot
    BY <1>0, <1>2, <1>6
  <2>2. (latch.taken \/ Latch \in stack) = latch.taken
    BY <1>0, <1>6
  <2>3. TakenLatch = [latch EXCEPT !.taken = latch.taken]
    BY <2>2 DEF TakenLatch
  <2> QED
    BY <2>1, <2>3, <1>0
<1> QED
  BY <1>1, <1>2, <1>3, <1>4, <1>5, <1>6 DEF WellFormed

\* Grown, slot by slot.
LEMMA GrownFacts ==
    ASSUME Types, NEW s, WellFormed(s)
    PROVE  /\ WellFormed(Grown(s))
           /\ \A b \in Buffers :
                /\ Grown(s)[b].taken = s[b].taken
                /\ \/ Grown(s)[b] = s[b]
                   \/ /\ batch.state = "ready" /\ b \in DOMAIN batch.asks /\ s[b].taken
                      /\ Grown(s)[b].serial = s[b].serial + 1 /\ Grown(s)[b].made
<1>0. /\ s \in [Buffers -> Slots] /\ \A b \in Buffers : s[b].window.peak \in Needed
      /\ batch.asks \in Asks
  BY DEF WellFormed, Types, Batches
<1> DEFINE Growing(b) == batch.state = "ready" /\ b \in DOMAIN batch.asks /\ s[b].taken
           Newer(b) == [s[b] EXCEPT !.units = batch.asks[b], !.serial = @ + 1, !.made = TRUE]
<1>1. Grown(s) = [b \in Buffers |-> IF Growing(b) THEN Newer(b) ELSE s[b]]
  BY DEF Grown
<1>2. ASSUME NEW b \in Buffers, Growing(b)
      PROVE  /\ Newer(b) \in Slots /\ Newer(b).window = s[b].window
             /\ Newer(b).taken = s[b].taken
             /\ Newer(b).serial = s[b].serial + 1 /\ Newer(b).made
  <2>1. batch.asks[b] \in Nat
    BY <1>0, <1>2 DEF Asks
  <2>2. s[b] \in [taken : BOOLEAN, units : Nat, serial : Nat, made : BOOLEAN, window : Windows]
    BY <1>0 DEF Slots
  <2>3. PICK u \in Nat, n \in Nat : u = batch.asks[b] /\ n = s[b].serial + 1
    BY <2>1, <2>2
  <2>4. Newer(b) = [s[b] EXCEPT !.units = u, !.serial = n, !.made = TRUE]
    BY <2>3
  <2> HIDE DEF Newer, Growing
  <2>5. PICK r \in Slots : r = s[b]
    BY <1>0
  <2>6. PICK t \in BOOLEAN : t = TRUE
    OBVIOUS
  <2>7. Newer(b) = [r EXCEPT !.units = u, !.serial = n, !.made = t]
    BY <2>4, <2>5, <2>6
  <2>8. /\ [r EXCEPT !.units = u, !.serial = n, !.made = t] \in Slots
        /\ [r EXCEPT !.units = u, !.serial = n, !.made = t].window = r.window
        /\ [r EXCEPT !.units = u, !.serial = n, !.made = t].taken = r.taken
        /\ [r EXCEPT !.units = u, !.serial = n, !.made = t].serial = n
        /\ [r EXCEPT !.units = u, !.serial = n, !.made = t].made = t
    BY <2>5 DEF Slots
  <2> QED
    BY <2>3, <2>5, <2>6, <2>7, <2>8
<1> HIDE DEF Newer
<1>3. \A b \in Buffers : Grown(s)[b] = IF Growing(b) THEN Newer(b) ELSE s[b]
  BY <1>1
<1>4. Grown(s) \in [Buffers -> Slots]
  BY <1>0, <1>1, <1>2
<1>5. \A b \in Buffers : Grown(s)[b].window.peak \in Needed
  BY <1>0, <1>2, <1>3
<1> QED
  BY <1>2, <1>3, <1>4, <1>5 DEF WellFormed

LEMMA RemoveTyped ==
    ASSUME waking \in Seq(SUBSET Buffers), NEW i \in DOMAIN waking
    PROVE  /\ RemoveAt(waking, i) \in Seq(SUBSET Buffers)
           /\ \A j \in DOMAIN RemoveAt(waking, i) :
                 \E k \in DOMAIN waking : RemoveAt(waking, i)[j] = waking[k]
<1> DEFINE p == SubSeq(waking, 1, i - 1)
           q == SubSeq(waking, i + 1, Len(waking))
<1>1. i \in 1..Len(waking) /\ Len(waking) \in Nat
  OBVIOUS
<1>2. /\ p \in Seq(SUBSET Buffers) /\ Len(p) = i - 1
      /\ \A j \in 1..(i - 1) : p[j] = waking[j]
  BY <1>1, SubSeqProperties
<1>3. /\ q \in Seq(SUBSET Buffers) /\ Len(q) = Len(waking) - i
      /\ \A j \in 1..(Len(waking) - i) : q[j] = waking[i + j]
  BY <1>1, SubSeqProperties
<1>4. RemoveAt(waking, i) = p \o q
  BY DEF RemoveAt
<1> HIDE DEF p, q
<1>5. /\ p \o q \in Seq(SUBSET Buffers) /\ Len(p \o q) = Len(p) + Len(q)
      /\ \A j \in 1..(Len(p) + Len(q)) : (p \o q)[j] = IF j <= Len(p) THEN p[j] ELSE q[j - Len(p)]
  BY <1>2, <1>3, ConcatProperties
<1>7. Len(p) + Len(q) = Len(waking) - 1 /\ i \in Nat /\ DOMAIN waking = 1..Len(waking)
  BY <1>1, <1>2, <1>3
<1>6. ASSUME NEW j \in 1..(Len(p) + Len(q))
      PROVE  \E k \in DOMAIN waking : (p \o q)[j] = waking[k]
  <2>1. CASE j <= Len(p)
    <3>1. j \in 1..(i - 1) /\ j \in 1..Len(waking)
      BY <2>1, <1>1, <1>2, <1>6, <1>7
    <3>2. (p \o q)[j] = waking[j]
      BY <2>1, <3>1, <1>2, <1>5, <1>6
    <3> QED
      BY <3>1, <3>2, <1>7
  <2>2. CASE ~(j <= Len(p))
    <3>1. j - Len(p) \in 1..(Len(waking) - i)
      BY <2>2, <1>1, <1>2, <1>6, <1>7
    <3>2. (p \o q)[j] = waking[i + (j - Len(p))]
      BY <2>2, <3>1, <1>3, <1>5, <1>6
    <3>3. i + (j - Len(p)) \in 1..Len(waking)
      BY <3>1, <1>1, <1>2, <1>7
    <3> QED
      BY <3>2, <3>3, <1>7
  <2> QED
    BY <2>1, <2>2
<1>8. DOMAIN (p \o q) = 1..(Len(p) + Len(q))
  <2>1. PICK r \in Seq(SUBSET Buffers) : r = p \o q
    BY <1>5
  <2>2. DOMAIN r = 1..Len(r)
    BY <2>1
  <2> QED
    BY <1>5, <2>1, <2>2
<1>9. \A j \in DOMAIN (p \o q) : \E k \in DOMAIN waking : (p \o q)[j] = waking[k]
  BY <1>6, <1>8
<1> QED
  BY <1>4, <1>5, <1>9, Zenon

(***************************************************************************)
(* What the producer's steps leave                                         *)
(***************************************************************************)

\* The same versions, whatever the windows.
Alike(s, t) ==
    \A b \in Buffers : /\ s[b].taken = t[b].taken /\ s[b].units = t[b].units
                       /\ s[b].serial = t[b].serial /\ s[b].made = t[b].made

\* A growth posted for buffers that are there, and not met or shrunk.
PostsGrowth ==
    /\ batch = NoBatch /\ batch' \in Batches /\ batch'.state = "pending"
    /\ \A b \in DOMAIN batch'.asks :
          /\ ~Expired(b)
          /\ b \in Unmet(TakenSlots) \/ (TakenSlots[b].taken /\ TakenSlots[b].serial > 0)

SealEffect ==
    /\ pc = "required" /\ pc' = "idle"
    /\ stack' = {}
    /\ UNCHANGED <<life, latchLife, lane, build, host, todo, open>>
    /\ WellFormed(slot') /\ Alike(slot', TakenSlots)
    /\ batch' = batch \/ PostsGrowth

LEMMA NamesIgnoreWindows ==
    ASSUME NEW s, NEW t, NEW l, NEW m, Alike(s, t), l.block = m.block
    PROVE  NamesOf(s, l) = NamesOf(t, m)
<1>1. \A b \in Buffers : /\ s[b].taken = t[b].taken /\ s[b].units = t[b].units
                         /\ s[b].serial = t[b].serial /\ s[b].made = t[b].made
  BY DEF Alike
<1> DEFINE V(x) == [b \in Buffers |->
                        IF x[b].taken /\ (x[b].made \/ b \notin ZeroBuffers)
                        THEN [units |-> x[b].units, serial |-> x[b].serial]
                        ELSE [units |-> 0, serial |-> 0]]
<1>2. V(s) = V(t)
  BY <1>1
<1>3. \A x, y : NamesOf(x, y) = [versions |-> V(x), latch |-> y.block]
  BY DEF NamesOf
<1> HIDE DEF V
<1> QED
  BY <1>2, <1>3

LEMMA ReopenedFacts ==
    ASSUME Types
    PROVE  WellFormed(Reopened(TakenSlots)) /\ Alike(Reopened(TakenSlots), TakenSlots)
<1>0. /\ TakenSlots \in [Buffers -> Slots] /\ \A b \in Buffers : TakenSlots[b].window.peak \in Needed
  BY TakenFacts DEF WellFormed
<1> DEFINE Shut(b) == [TakenSlots[b] EXCEPT !.window = Closed]
<1>1. ASSUME NEW b \in Buffers
      PROVE  /\ Shut(b) \in Slots /\ Shut(b).window = Closed
             /\ Shut(b).taken = TakenSlots[b].taken /\ Shut(b).units = TakenSlots[b].units
             /\ Shut(b).serial = TakenSlots[b].serial /\ Shut(b).made = TakenSlots[b].made
  <2>1. PICK r \in Slots : r = TakenSlots[b]
    BY <1>0
  <2>2. PICK w \in Windows : w = Closed
    BY VacantTyped DEF Slots
  <2>3. Shut(b) = [r EXCEPT !.window = w]
    BY <2>1, <2>2
  <2> HIDE DEF Shut
  <2> QED
    BY <2>1, <2>2, <2>3 DEF Slots
<1>2. Reopened(TakenSlots) = [b \in Buffers |-> IF b \in Unmet(TakenSlots) THEN Shut(b) ELSE TakenSlots[b]]
  BY DEF Reopened
<1> HIDE DEF Shut
<1>3. \A b \in Buffers : Reopened(TakenSlots)[b] = IF b \in Unmet(TakenSlots) THEN Shut(b) ELSE TakenSlots[b]
  BY <1>2
<1>4. Reopened(TakenSlots) \in [Buffers -> Slots]
  BY <1>0, <1>1, <1>2
<1>5. \A b \in Buffers : Reopened(TakenSlots)[b].window.peak \in Needed
  BY <1>0, <1>1, <1>3, VacantTyped
<1>6. Alike(Reopened(TakenSlots), TakenSlots)
  BY <1>1, <1>3 DEF Alike
<1> QED
  BY <1>4, <1>5, <1>6 DEF WellFormed

\* The values SealNames goes through.
SealSlots == IF batch = NoBatch THEN Reopened(TakenSlots) ELSE TakenSlots
Seen == Observed(SealSlots)
ShrinkAsks == Posted([b \in {x \in DOMAIN Seen : Seen[x].units < SealSlots[x].units} |-> Seen[b].units])

LEMMA SealSlotsFacts ==
    ASSUME Types
    PROVE  WellFormed(SealSlots) /\ Alike(SealSlots, TakenSlots)
BY TakenFacts, ReopenedFacts DEF SealSlots, Alike

LEMMA SeenFacts ==
    ASSUME Types
    PROVE  /\ DOMAIN Seen \subseteq Buffers
           /\ \A b \in DOMAIN Seen :
                 /\ batch = NoBatch /\ TakenSlots[b].taken /\ TakenSlots[b].serial > 0
                 /\ Seen[b].window \in Windows /\ Seen[b].window.peak \in Needed
                 /\ Seen[b].units \in Nat
<1>0. /\ SealSlots \in [Buffers -> Slots]
      /\ \A b \in Buffers : SealSlots[b].window.peak \in Needed
      /\ Alike(SealSlots, TakenSlots)
      /\ build.required \in [Buffers -> Needs] /\ Shrinking \subseteq Buffers
  BY SealSlotsFacts, GrowableAssumption DEF WellFormed, Types
<1> DEFINE asked == {b \in Shrinking : batch = NoBatch /\ build.required[b].units > 0
                                       /\ SealSlots[b].taken /\ SealSlots[b].serial > 0}
           Sees(b) == Observe(SealSlots[b].window, SealSlots[b].units, build.required[b].units)
<1>1. Seen = [b \in asked |-> Sees(b)]
  BY DEF Seen, Observed
<1>2. ASSUME NEW b \in asked
      PROVE  /\ b \in Buffers /\ batch = NoBatch /\ TakenSlots[b].taken /\ TakenSlots[b].serial > 0
             /\ Sees(b).window \in Windows /\ Sees(b).window.peak \in Needed
             /\ Sees(b).units \in Nat
  <2>1. b \in Buffers /\ TakenSlots[b].taken /\ TakenSlots[b].serial > 0 /\ batch = NoBatch
    BY <1>0, <1>2 DEF Alike
  <2>2. /\ SealSlots[b].window \in Windows /\ SealSlots[b].window.peak \in Needed
        /\ SealSlots[b].units \in Nat /\ build.required[b].units \in Needed
    BY <2>1, <1>0 DEF Slots, Needs
  <2>3. /\ Sees(b).window \in Windows /\ Sees(b).window.peak \in Needed /\ Sees(b).units \in Nat
    BY <2>2, ObserveTyped
  <2> QED
    BY <2>1, <2>3
<1> HIDE DEF asked, Sees
<1> QED
  BY <1>1, <1>2

LEMMA LatchAfterTyped ==
    ASSUME Types
    PROVE  LatchAfter(TakenLatch) \in [taken : BOOLEAN, block : Blocks]
<1>0. PICK l \in [taken : BOOLEAN, block : Blocks], n \in Blocks : l = TakenLatch /\ n = build.latch
  BY TakenFacts DEF Types
<1> DEFINE same == l.block # NoBlock /\ l.block.layout = n.layout
<1>1. PICK s \in Nat : s = NextHeadroom(IF same THEN l.block.stride ELSE 0, n.stride)
  BY DEF NextHeadroom, Larger, Blocks
<1>2. PICK m \in Nat : m = l.block.made + 1
  BY DEF Blocks
<1>3. \/ LatchAfter(l) = l
      \/ LatchAfter(l) = [l EXCEPT !.block = [stride |-> s, layout |-> n.layout, made |-> m]]
  BY <1>0, <1>1, <1>2 DEF LatchAfter
<1>4. [stride |-> s, layout |-> n.layout, made |-> m] \in Blocks
  BY DEF Blocks
<1> QED
  BY <1>0, <1>3, <1>4

LEMMA SealWaitsFacts ==
    ASSUME Types, SealWaits
    PROVE  /\ SealEffect /\ slot' = TakenSlots /\ latch' = TakenLatch /\ changed' = TakenChanges
           /\ batch' = batch /\ outcome' = "pending" /\ last' = last
BY TakenFacts DEF SealWaits, SealTakes, SealEffect, Alike, shared, lane, host

LEMMA SealPostsFacts ==
    ASSUME Types, SealPosts
    PROVE  /\ SealEffect /\ latch' = TakenLatch /\ changed' = TakenChanges
           /\ outcome' \in {"pending", "error"} /\ last' = last
<1> DEFINE U == Unmet(TakenSlots)
           P == GrowthAsks(TakenSlots)
<1>0. /\ build.required \in [Buffers -> Needs] /\ TakenSlots \in [Buffers -> Slots]
      /\ U \subseteq Buffers
  BY TakenFacts DEF Types, WellFormed, Unmet
<1>1. /\ DOMAIN P = {b \in U : ~Expired(b)} /\ P \in [DOMAIN P -> Nat]
  <2>1. \A b \in U : GrowTo(build.required[b], TakenSlots[b].units) \in Nat
    <3>1. ASSUME NEW b \in U
          PROVE  GrowTo(build.required[b], TakenSlots[b].units) \in Nat
      <4>1. build.required[b] \in Needs /\ TakenSlots[b].units \in Nat
        BY <1>0 DEF Slots
      <4> QED
        BY <4>1, GrowToReaches
    <3> QED
      BY <3>1
  <2> DEFINE G == [b \in U |-> GrowTo(build.required[b], TakenSlots[b].units)]
  <2>2. P = [b \in {x \in DOMAIN G : ~Expired(x)} |-> G[b]]
    BY DEF GrowthAsks, Posted
  <2>3. DOMAIN G = U /\ \A b \in U : G[b] \in Nat
    BY <2>1
  <2> HIDE DEF G
  <2>4. P = [b \in {x \in U : ~Expired(x)} |-> G[b]]
    BY <2>2, <2>3
  <2> QED
    BY <2>3, <2>4
<1> HIDE DEF U, P
<1>2. P \in Asks
  BY <1>0, <1>1 DEF Asks
<1>3. CASE batch' = BatchOf(P)
  <2>1. batch' \in Batches /\ batch'.state = "pending" /\ batch'.asks = P
    BY <1>2, <1>3 DEF BatchOf, Batches
  <2>2. PostsGrowth
    BY <2>1, <1>1 DEF PostsGrowth, SealPosts, U
  <2> QED
    BY <2>2, ReopenedFacts DEF SealPosts, SealTakes, SealEffect, shared, lane, host
<1>4. CASE batch' = batch
  BY <1>4, ReopenedFacts DEF SealPosts, SealTakes, SealEffect, shared, lane, host
<1> QED
  BY <1>3, <1>4 DEF SealPosts, P

LEMMA SealNamesFacts ==
    ASSUME Types, SealNames
    PROVE  /\ SealEffect /\ outcome' = "named" /\ changed' = FALSE
           /\ \/ Unmet(TakenSlots) = {}
              \/ \A b \in Unmet(TakenSlots) : Expired(b)
           /\ latch' \in [taken : BOOLEAN, block : Blocks]
           /\ \/ last' = NamesOf(TakenSlots, latch')
              \/ /\ last' = last /\ last # NoSet /\ ~TakenChanges
                 /\ latch' = TakenLatch
<1>1. /\ slot' = [b \in Buffers |-> IF b \in DOMAIN Seen
                                    THEN [SealSlots[b] EXCEPT !.window = Seen[b].window]
                                    ELSE SealSlots[b]]
      /\ batch' = IF ShrinkAsks # << >> /\ open THEN BatchOf(ShrinkAsks) ELSE batch
      /\ latch' = LatchAfter(TakenLatch)
      /\ \/ last' = NamesOf(SealSlots, latch')
         \/ last' = last /\ last # NoSet /\ ~TakenChanges /\ latch' = TakenLatch
  BY DEF SealNames, SealSlots, Seen, ShrinkAsks
<1>2. SealTakes /\ changed' = FALSE /\ outcome' = "named"
  BY DEF SealNames
<1>3. \/ Unmet(TakenSlots) = {}
      \/ \A b \in Unmet(TakenSlots) : Expired(b)
  <2>1. ASSUME GrowthAsks(TakenSlots) = << >>
        PROVE  \A b \in Unmet(TakenSlots) : Expired(b)
    <3>1. DOMAIN GrowthAsks(TakenSlots) = {b \in Unmet(TakenSlots) : ~Expired(b)}
      BY DEF GrowthAsks, Posted
    <3>2. DOMAIN GrowthAsks(TakenSlots) = {}
      BY <2>1
    <3> QED
      BY <3>1, <3>2
  <2> QED
    BY <2>1 DEF SealNames
<1>4. /\ SealSlots \in [Buffers -> Slots]
      /\ \A b \in Buffers : SealSlots[b].window.peak \in Needed
      /\ Alike(SealSlots, TakenSlots)
  BY SealSlotsFacts DEF WellFormed
<1>5. WellFormed(slot') /\ Alike(slot', SealSlots)
  <2> DEFINE Asked(b) == [SealSlots[b] EXCEPT !.window = Seen[b].window]
  <2>1. ASSUME NEW b \in DOMAIN Seen
        PROVE  /\ Asked(b) \in Slots /\ Asked(b).window.peak \in Needed
               /\ Asked(b).taken = SealSlots[b].taken /\ Asked(b).units = SealSlots[b].units
               /\ Asked(b).serial = SealSlots[b].serial /\ Asked(b).made = SealSlots[b].made
    <3>1. PICK r \in Slots : r = SealSlots[b]
      BY <2>1, <1>4, SeenFacts
    <3>2. PICK w \in Windows : w = Seen[b].window /\ w.peak \in Needed
      BY <2>1, SeenFacts
    <3>3. Asked(b) = [r EXCEPT !.window = w]
      BY <3>1, <3>2
    <3> HIDE DEF Asked
    <3> QED
      BY <3>1, <3>2, <3>3 DEF Slots
  <2>2. slot' = [b \in Buffers |-> IF b \in DOMAIN Seen THEN Asked(b) ELSE SealSlots[b]]
    BY <1>1
  <2> HIDE DEF Asked
  <2>3. \A b \in Buffers : slot'[b] = IF b \in DOMAIN Seen THEN Asked(b) ELSE SealSlots[b]
    BY <2>2
  <2>4. slot' \in [Buffers -> Slots]
    BY <2>1, <2>2, <1>4
  <2>5. \A b \in Buffers : slot'[b].window.peak \in Needed
    BY <2>1, <2>3, <1>4
  <2>6. Alike(slot', SealSlots)
    BY <2>1, <2>3 DEF Alike
  <2> QED
    BY <2>4, <2>5, <2>6 DEF WellFormed
<1>6. Alike(slot', TakenSlots)
  BY <1>4, <1>5 DEF Alike
<1>7. batch' = batch \/ PostsGrowth
  <2> DEFINE less == {x \in DOMAIN Seen : Seen[x].units < SealSlots[x].units}
  <2>1. ShrinkAsks = [b \in {x \in less : ~Expired(x)} |-> Seen[b].units]
    BY DEF ShrinkAsks, Posted
  <2>2. less \subseteq DOMAIN Seen
    OBVIOUS
  <2> HIDE DEF less
  <2>3. /\ DOMAIN ShrinkAsks = {x \in less : ~Expired(x)}
        /\ ShrinkAsks \in [{x \in less : ~Expired(x)} -> Nat]
    BY <2>1, <2>2, SeenFacts
  <2>4. ShrinkAsks \in Asks
    BY <2>2, <2>3, SeenFacts DEF Asks
  <2>5. CASE batch' = BatchOf(ShrinkAsks) /\ ShrinkAsks # << >>
    <3>1. batch' \in Batches /\ batch'.state = "pending" /\ batch'.asks = ShrinkAsks
      BY <2>4, <2>5 DEF BatchOf, Batches
    <3>2. CASE DOMAIN ShrinkAsks # {}
      BY <3>1, <3>2, <2>2, <2>3, SeenFacts DEF PostsGrowth
    <3>3. CASE DOMAIN ShrinkAsks = {}
      <4>1. ShrinkAsks = << >>
        BY <3>3, <2>3
      <4> QED
        BY <4>1, <2>5
    <3> QED
      BY <3>2, <3>3
  <2> QED
    BY <2>5, <1>1
<1>8. NamesOf(SealSlots, latch') = NamesOf(TakenSlots, latch')
  BY <1>4, NamesIgnoreWindows
<1> QED
  BY <1>1, <1>2, <1>3, <1>5, <1>6, <1>7, <1>8, LatchAfterTyped DEF SealTakes, SealEffect, shared, lane, host

LEMMA BeginFacts ==
    ASSUME Types, Begin
    PROVE  /\ WellFormed(slot')
           /\ \A b \in Buffers :
                 \/ Expired(b) /\ slot'[b] = Vacant
                 \/ slot'[b] = Grown(TakenSlots)[b]
           /\ ~changed' => slot' = slot /\ latch' = latch
           /\ latch' \in [taken : BOOLEAN, block : Blocks]
           /\ changed' \in BOOLEAN
<1> DEFINE grown == Grown(TakenSlots)
           gone == {b \in Buffers : grown[b].taken /\ Expired(b)}
<1>0. /\ slot' = [b \in Buffers |-> IF b \in gone THEN Vacant ELSE grown[b]]
      /\ changed' = (TakenChanges \/ SettleChanges(TakenSlots) \/ gone # {})
      /\ latch' = TakenLatch
  BY DEF Begin
<1>1. grown \in [Buffers -> Slots] /\ \A b \in Buffers : grown[b].window.peak \in Needed
  BY TakenFacts, GrownFacts DEF WellFormed
<1>2. ASSUME ~changed'
      PROVE  slot' = slot /\ latch' = latch
  <2>1. stack = {} /\ grown = TakenSlots /\ gone = {}
    BY <1>0, <1>2 DEF TakenChanges, SettleChanges
  <2>2. TakenSlots = slot /\ TakenLatch = latch
    BY <2>1, TakenFacts
  <2>3. slot' = [b \in Buffers |-> grown[b]]
    BY <1>0, <2>1
  <2> HIDE DEF grown, gone
  <2> QED
    BY <2>1, <2>2, <2>3, <1>0, <1>1
<1>3. \A b \in gone : Expired(b)
  OBVIOUS
<1>4. changed' \in BOOLEAN
  BY <1>0
<1> HIDE DEF grown, gone
<1>5. \A b \in Buffers : slot'[b] = IF b \in gone THEN Vacant ELSE grown[b]
  BY <1>0
<1>6. slot' \in [Buffers -> Slots]
  BY <1>0, <1>1, VacantTyped
<1>7. \A b \in Buffers : slot'[b].window.peak \in Needed
  BY <1>1, <1>5, VacantTyped
<1>8. \A b \in Buffers : \/ Expired(b) /\ slot'[b] = Vacant
                         \/ slot'[b] = Grown(TakenSlots)[b]
  BY <1>3, <1>5 DEF grown
<1> QED
  BY <1>0, <1>2, <1>4, <1>6, <1>7, <1>8, TakenFacts DEF WellFormed

\* A settled window.
LEMMA PassTimeFacts ==
    ASSUME Types, PassTime
    PROVE  WellFormed(slot') /\ Alike(slot', slot)
<1>0. slot \in [Buffers -> Slots] /\ \A b \in Buffers : slot[b].window.peak \in Needed
  BY DEF Types, WellFormed
<1> DEFINE Aged(b) == [slot[b] EXCEPT !.window.settled = slot[b].window.seen > 0]
<1>1. ASSUME NEW b \in Buffers
      PROVE  /\ Aged(b) \in Slots /\ Aged(b).window.peak \in Needed
             /\ Aged(b).taken = slot[b].taken /\ Aged(b).units = slot[b].units
             /\ Aged(b).serial = slot[b].serial /\ Aged(b).made = slot[b].made
  <2>1. PICK r \in Slots : r = slot[b]
    BY <1>0
  <2>2. PICK w \in Windows : w = r.window /\ w.peak \in Needed
    BY <2>1, <1>0 DEF Slots
  <2>3. PICK t \in BOOLEAN : t = (w.seen > 0)
    <3>1. CASE w.seen > 0
      <4>1. TRUE = (w.seen > 0)
        BY <3>1
      <4> QED
        BY <4>1
    <3>2. CASE ~(w.seen > 0)
      <4>1. FALSE = (w.seen > 0)
        BY <3>2
      <4> QED
        BY <4>1
    <3> QED
      BY <3>1, <3>2
  <2>4. [w EXCEPT !.settled = t] \in Windows /\ [w EXCEPT !.settled = t].peak = w.peak
    BY <2>2 DEF Windows
  <2>5. PICK v \in Windows : v = [w EXCEPT !.settled = t] /\ v.peak \in Needed
    BY <2>2, <2>4
  <2>6. Aged(b) = [r EXCEPT !.window = v]
    BY <2>1, <2>2, <2>3, <2>5
  <2> HIDE DEF Aged
  <2> QED
    BY <2>1, <2>5, <2>6 DEF Slots
<1>2. slot' = [b \in Buffers |-> Aged(b)]
  BY DEF PassTime
<1> HIDE DEF Aged
<1>3. \A b \in Buffers : slot'[b] = Aged(b)
  BY <1>2
<1>4. slot' \in [Buffers -> Slots]
  BY <1>1, <1>2
<1>5. \A b \in Buffers : slot'[b].window.peak \in Needed
  BY <1>1, <1>3
<1>6. Alike(slot', slot)
  BY <1>1, <1>3 DEF Alike
<1> QED
  BY <1>4, <1>5, <1>6 DEF WellFormed

\* A buffer whose owner dropped it, and that nobody holds, is gone for good.
LEMMA ExpiredStays ==
    ASSUME Types, [Next]_vars, NEW b \in Buffers, Expired(b)
    PROVE  Expired(b)'
<1>0. /\ life[b] = "dropped" /\ life \in [Buffers -> {"new", "live", "dropped"}]
      /\ ~(batch.state = "pending" /\ b \in DOMAIN batch.asks)
      /\ waking \in Seq(SUBSET Buffers) /\ \A i \in DOMAIN waking : b \notin waking[i]
  BY DEF Expired, Types
<1>1. ASSUME life' = life \/ Register(b) \/ Drop(b) \/ \E c \in Buffers \ {b} : Register(c) \/ Drop(c)
      PROVE  life'[b] = "dropped"
  BY <1>0, <1>1 DEF Register, Drop
<1>2. ASSUME waking' = waking, batch' = batch \/ batch' = NoBatch, life'[b] = "dropped"
      PROVE  Expired(b)'
  BY <1>0, <1>2 DEF Expired, NoBatch
<1>3. CASE UNCHANGED vars
  BY <1>1, <1>2, <1>3 DEF vars, lane
<1>4. ASSUME NEW c \in Buffers, Register(c)
      PROVE  Expired(b)'
  BY <1>1, <1>2, <1>4 DEF Register, lane
<1>5. ASSUME NEW c \in Buffers, Drop(c)
      PROVE  Expired(b)'
  BY <1>1, <1>2, <1>5 DEF Drop
<1>6. ASSUME NEW c \in Buffers, Relayout(c) \/ \E u \in AskedUnits : Ask(c, u)
      PROVE  Expired(b)'
  BY <1>1, <1>2, <1>6 DEF Relayout, Ask, HostChanges, shared, lane
<1>7. ASSUME NEW a \in LatchAsks, AskLatch(a)
      PROVE  Expired(b)'
  BY <1>1, <1>2, <1>7 DEF AskLatch, HostChanges, shared, lane
<1>8. CASE RegisterLatch
  BY <1>1, <1>2, <1>8 DEF RegisterLatch, lane
<1>9. CASE Begin
  BY <1>1, <1>2, <1>9 DEF Begin, lane
<1>10. CASE Require
  BY <1>1, <1>2, <1>10 DEF Require, shared, lane
<1>11. CASE SealEffect
  <2>1. life'[b] = "dropped" /\ waking' = waking
    BY <1>11, <1>0 DEF SealEffect, lane
  <2>2. CASE batch' = batch
    BY <2>1, <2>2, <1>2
  <2>3. CASE PostsGrowth
    BY <2>1, <2>3, <1>0 DEF PostsGrowth, Expired
  <2> QED
    BY <2>2, <2>3, <1>11 DEF SealEffect
<1>12. CASE SealWaits \/ SealPosts \/ SealNames
  BY <1>11, <1>12, SealWaitsFacts, SealPostsFacts, SealNamesFacts
<1>13. ASSUME NEW x \in {"ready", "failed"}, Complete(x)
      PROVE  Expired(b)'
  <2>1. life' = life /\ b \notin DOMAIN batch.asks /\ waking' = Append(waking, DOMAIN batch.asks)
    BY <1>13, <1>0 DEF Complete, shared
  <2>2. batch \in Batches /\ DOMAIN batch.asks \in SUBSET Buffers
    BY DEF Types, Batches, Asks
  <2>3. batch'.state # "pending"
    BY <2>2, <1>13 DEF Complete, Batches
  <2>4. \A i \in DOMAIN waking' : b \notin waking'[i]
    BY <2>1, <2>2, <1>0, AppendProperties
  <2> QED
    BY <2>1, <2>3, <2>4, <1>0 DEF Expired
<1>14. CASE Wake
  <2>1. PICK i \in DOMAIN waking : waking' = RemoveAt(waking, i)
    BY <1>14 DEF Wake
  <2>2. \A j \in DOMAIN waking' : b \notin waking'[j]
    BY <2>1, <1>0, RemoveTyped
  <2>3. life' = life /\ batch' = batch
    BY <1>14 DEF Wake, shared
  <2> QED
    BY <2>2, <2>3, <1>0 DEF Expired
<1>15. CASE Close
  BY <1>1, <1>2, <1>15 DEF Close, shared
<1>16. CASE PassTime
  BY <1>1, <1>2, <1>16 DEF PassTime, shared, lane
<1> QED
  BY <1>3, <1>4, <1>5, <1>6, <1>7, <1>8, <1>9, <1>10, <1>12, <1>13, <1>14, <1>15, <1>16 DEF Next

(***************************************************************************)
(* The initial states                                                      *)
(***************************************************************************)

LEMMA InitHolds == Init => IInv
<1> SUFFICES ASSUME Init
             PROVE  IInv
  OBVIOUS
<1>1. NoNeed \in Needs /\ NoBlock \in Blocks
  BY DEF NoNeed, Needs, Needed, NoBlock, Blocks
<1>2. WellFormed(slot)
  <2>1. slot \in [Buffers -> Slots] /\ \A b \in Buffers : slot[b] = Vacant
    BY VacantTyped DEF Init
  <2> QED
    BY <2>1, VacantTyped DEF WellFormed
<1>3. batch \in Batches /\ (batch.state = "none" <=> batch = NoBatch)
  <2>1. << >> \in [{} -> Nat]
    OBVIOUS
  <2> QED
    BY <2>1 DEF Init, NoBatch, Batches, Asks
<1>4. build \in [required : [Buffers -> Needs], latch : Blocks] /\ needs \in [Buffers -> Needs]
  BY <1>1 DEF Init
<1>5. Types
  <2>1. /\ waking \in Seq(SUBSET Buffers) /\ stack \subseteq Buffers \cup {Latch}
        /\ life \in [Buffers -> {"new", "live", "dropped"}]
    BY DEF Init
  <2>2. latch \in [taken : BOOLEAN, block : Blocks]
    BY <1>1 DEF Init
  <2>3. /\ latchLife \in BOOLEAN /\ changed \in BOOLEAN /\ todo \in BOOLEAN /\ open \in BOOLEAN
        /\ last = NoSet /\ latchNeed \in Blocks /\ outcome = "none" /\ pc = "idle"
    BY <1>1 DEF Init
  <2>4. changes \in 0..MaxChanges /\ faults \in 0..MaxFaults
    BY GrowableAssumption DEF Init
  <2> QED
    BY <1>2, <1>3, <1>4, <2>1, <2>2, <2>3, <2>4 DEF Types
<1>6. JoinInv
  <2>1. /\ life = [b \in Buffers |-> "new"] /\ stack = {} /\ batch.state = "none"
        /\ slot = [b \in Buffers |-> Vacant] /\ needs = [b \in Buffers |-> NoNeed]
        /\ build.required = needs
    BY DEF Init, NoBatch
  <2> QED
    BY <2>1 DEF JoinInv, SlotInv, Vacant
<1>7. CurrentInv /\ SealedInv
  BY DEF Init, CurrentInv, KeptSetIsCurrent, SealedInv, Returned
<1> QED
  BY <1>5, <1>6, <1>7 DEF IInv

(***************************************************************************)
(* Types                                                                   *)
(***************************************************************************)

LEMMA HostKeepsTypes ==
    ASSUME Types, NEW b \in Buffers,
           Relayout(b) \/ (\E u \in AskedUnits : Ask(b, u)) \/ (\E a \in LatchAsks : AskLatch(a))
    PROVE  Types'
<1>1. HostChanges
  BY DEF Relayout, Ask, AskLatch
<1>2. /\ UNCHANGED <<life, latchLife, stack, slot, latch, batch, waking, faults, changed, last,
                     build, outcome, pc, open>>
      /\ todo' = TRUE /\ changes' \in 0..MaxChanges
  BY <1>1, GrowableAssumption DEF HostChanges, shared, lane, Types
<1>3. CASE Relayout(b)
  <2>1. PICK n \in Nat : n = slot[b].serial
    BY DEF Types, WellFormed, Slots
  <2>2. needs' = [needs EXCEPT ![b].newer = n] /\ latchNeed' = latchNeed
    BY <1>3, <2>1 DEF Relayout
  <2>3. needs' \in [Buffers -> Needs]
    BY <2>2 DEF Types, Needs
  <2> QED
    BY <1>2, <2>2, <2>3 DEF Types, WellFormed
<1>4. ASSUME NEW u \in AskedUnits, Ask(b, u)
      PROVE  Types'
  <2>1. needs' = [needs EXCEPT ![b].units = u] /\ latchNeed' = latchNeed
    BY <1>4 DEF Ask
  <2>2. needs' \in [Buffers -> Needs]
    BY <2>1 DEF Types, Needs, Needed
  <2> QED
    BY <1>2, <2>1, <2>2 DEF Types, WellFormed
<1>5. ASSUME NEW a \in LatchAsks, AskLatch(a)
      PROVE  Types'
  <2>1. latchNeed' = [stride |-> a.bytes, layout |-> a.layout, made |-> 0] /\ needs' = needs
    BY <1>5 DEF AskLatch
  <2>2. latchNeed' \in Blocks
    BY <2>1, GrowableAssumption DEF Blocks
  <2> QED
    BY <1>2, <2>1, <2>2 DEF Types, WellFormed
<1> QED
  BY <1>3, <1>4, <1>5

LEMMA NamesTyped ==
    ASSUME NEW s, WellFormed(s), NEW l
    PROVE  NamesOf(s, l).versions \in [Buffers -> Versions]
<1>1. s \in [Buffers -> Slots]
  BY DEF WellFormed
<1>2. \A b \in Buffers : s[b].units \in Nat /\ s[b].serial \in Nat
  BY <1>1 DEF Slots
<1> QED
  BY <1>2 DEF NamesOf, Versions

LEMMA SealKeepsTypes ==
    ASSUME Types, SealWaits \/ SealPosts \/ SealNames
    PROVE  Types'
<1>1. /\ SealEffect /\ latch' \in [taken : BOOLEAN, block : Blocks]
      /\ outcome' \in {"none", "named", "pending", "error"}
      /\ changed' = TakenChanges \/ changed' = FALSE
  BY SealWaitsFacts, SealPostsFacts, SealNamesFacts, TakenFacts
<1>2. last' = NoSet \/ last'.versions \in [Buffers -> Versions]
  <2>1. CASE SealNames
    <3>1. NamesOf(TakenSlots, latch').versions \in [Buffers -> Versions]
      BY TakenFacts, NamesTyped
    <3>2. last' = NamesOf(TakenSlots, latch') \/ last' = last
      BY <2>1, SealNamesFacts
    <3> QED
      BY <3>1, <3>2 DEF Types
  <2> QED
    BY <2>1, SealWaitsFacts, SealPostsFacts DEF Types
<1>3. batch' \in Batches /\ (batch'.state = "none" <=> batch' = NoBatch)
  BY <1>1 DEF SealEffect, PostsGrowth, NoBatch, Types
<1>4. changed' \in BOOLEAN
  BY <1>1 DEF TakenChanges, Types
<1>5. /\ UNCHANGED <<life, latchLife, waking, faults, build, needs, latchNeed, changes, todo, open>>
      /\ stack' = {} /\ pc' = "idle" /\ WellFormed(slot')
  BY <1>1 DEF SealEffect, lane, host
<1> QED
  BY <1>1, <1>2, <1>3, <1>4, <1>5 DEF Types

LEMMA TypesKept == ASSUME Types, [Next]_vars PROVE Types'
<1>1. CASE UNCHANGED vars
  BY <1>1 DEF vars, Types, WellFormed
<1>2. ASSUME NEW b \in Buffers, Register(b)
      PROVE  Types'
  BY <1>2 DEF Register, Types, WellFormed, lane, host
<1>3. ASSUME NEW b \in Buffers, Drop(b)
      PROVE  Types'
  <2>1. life' \in [Buffers -> {"new", "live", "dropped"}] /\ faults' \in 0..MaxFaults
    BY <1>3, GrowableAssumption DEF Drop, Fault, Types
  <2>2. needs' \in [Buffers -> Needs]
    <3>1. NoNeed \in Needs
      BY DEF NoNeed, Needs, Needed
    <3> QED
      BY <1>3, <3>1 DEF Drop, Types
  <2> QED
    BY <1>3, <2>1, <2>2 DEF Drop, Types, WellFormed
<1>4. ASSUME NEW b \in Buffers,
             Relayout(b) \/ (\E u \in AskedUnits : Ask(b, u)) \/ (\E a \in LatchAsks : AskLatch(a))
      PROVE  Types'
  BY <1>4, HostKeepsTypes
<1>5. ASSUME NEW a \in LatchAsks, AskLatch(a)
      PROVE  Types'
  <2>1. /\ UNCHANGED <<life, latchLife, stack, slot, latch, batch, waking, faults, changed, last,
                       build, outcome, pc, open, needs>>
        /\ todo' = TRUE /\ changes' \in 0..MaxChanges
    BY <1>5, GrowableAssumption DEF AskLatch, HostChanges, shared, lane, Types
  <2>2. latchNeed' \in Blocks
    BY <1>5, GrowableAssumption DEF AskLatch, Blocks
  <2> QED
    BY <2>1, <2>2 DEF Types, WellFormed
<1>6. CASE RegisterLatch
  BY <1>6 DEF RegisterLatch, Types, WellFormed, lane, host
<1>7. CASE Begin
  <2>1. WellFormed(slot') /\ latch' \in [taken : BOOLEAN, block : Blocks] /\ changed' \in BOOLEAN
    BY <1>7, BeginFacts
  <2>2. batch' \in Batches /\ (batch'.state = "none" <=> batch' = NoBatch)
    <3>1. NoBatch \in Batches /\ NoBatch.state = "none"
      <4>1. << >> \in [{} -> Nat]
        OBVIOUS
      <4> QED
        BY <4>1 DEF NoBatch, Batches, Asks
    <3> QED
      BY <1>7, <3>1 DEF Begin, Types
  <2>3. /\ UNCHANGED <<life, latchLife, waking, faults, last, build, outcome, needs, latchNeed,
                       changes, open>>
        /\ stack' = {} /\ pc' = "begun" /\ todo' = FALSE
    BY <1>7 DEF Begin, lane, host
  <2> QED
    BY <2>1, <2>2, <2>3 DEF Types
<1>8. CASE Require
  BY <1>8 DEF Require, Types, WellFormed, shared, lane, host
<1>9. CASE SealWaits \/ SealPosts \/ SealNames
  BY <1>9, SealKeepsTypes
<1>10. ASSUME NEW x \in {"ready", "failed"}, Complete(x)
       PROVE  Types'
  <2>1. DOMAIN batch.asks \in SUBSET Buffers /\ batch.state = "pending"
    BY <1>10 DEF Complete, Types, Batches, Asks
  <2>2. waking' \in Seq(SUBSET Buffers)
    BY <2>1, <1>10, AppendProperties DEF Complete, Types
  <2>3. batch' \in Batches /\ batch'.state = x
    BY <1>10 DEF Complete, Types, Batches
  <2>4. faults' \in 0..MaxFaults
    BY <1>10, GrowableAssumption DEF Complete, Fault, Types
  <2>5. /\ UNCHANGED <<life, latchLife, stack, slot, latch, changed, last, build, outcome, pc,
                       needs, latchNeed, changes, todo, open>>
    BY <1>10 DEF Complete, shared, host
  <2> QED
    BY <2>2, <2>3, <2>4, <2>5 DEF Types, WellFormed, NoBatch
<1>11. CASE Wake
  <2>1. waking' \in Seq(SUBSET Buffers)
    BY <1>11, RemoveTyped DEF Wake, Types
  <2> QED
    BY <1>11, <2>1 DEF Wake, Types, WellFormed, shared, host
<1>12. CASE Close
  <2>1. faults' \in 0..MaxFaults
    BY <1>12, GrowableAssumption DEF Close, Fault, Types
  <2> QED
    BY <1>12, <2>1 DEF Close, Types, WellFormed, shared, host
<1>13. CASE PassTime
  <2>1. WellFormed(slot')
    BY <1>13, PassTimeFacts
  <2> QED
    BY <1>13, <2>1 DEF PassTime, Types, shared, lane, host
<1> QED
  BY <1>1, <1>2, <1>3, <1>4, <1>5, <1>6, <1>7, <1>8, <1>9, <1>10, <1>11, <1>12, <1>13 DEF Next

(***************************************************************************)
(* Joining, growing and dropping                                           *)
(***************************************************************************)

\* Once everything registered joined, what is there and not dropped has a version.
LEMMA TakenJoins ==
    ASSUME Types, JoinInv
    PROVE  /\ SlotInv(TakenSlots)
           /\ \A b \in Buffers : life[b] # "new" =>
                 (TakenSlots[b].taken /\ TakenSlots[b].serial > 0) \/ Expired(b)
<1>1. ASSUME NEW b \in Buffers, b \in stack
      PROVE  /\ life[b] # "new" /\ TakenSlots[b].taken /\ ~TakenSlots[b].made
             /\ TakenSlots[b].serial > 0 \/ Expired(b)
             /\ ~(batch.state # "none" /\ b \in DOMAIN batch.asks)
  BY <1>1, TakenFacts DEF JoinInv, SlotInv
<1>2. ASSUME NEW b \in Buffers, b \notin stack
      PROVE  TakenSlots[b] = slot[b]
  BY <1>2, TakenFacts
<1> QED
  BY <1>1, <1>2 DEF JoinInv, SlotInv

\* Everything a growth is posted for is there and has a version.
LEMMA PostedAreThere ==
    ASSUME Types, JoinInv, pc = "required", PostsGrowth, NEW b \in DOMAIN batch'.asks
    PROVE  b \in Buffers /\ TakenSlots[b].taken /\ TakenSlots[b].serial > 0
<1>1. b \in Buffers
  BY DEF PostsGrowth, Batches, Asks
<1>2. CASE b \in Unmet(TakenSlots)
  <2>1. life[b] # "new"
    BY <1>1, <1>2, TakenJoins DEF Unmet, JoinInv, SlotInv
  <2>2. ~Expired(b)
    BY DEF PostsGrowth
  <2> QED
    BY <1>1, <2>1, <2>2, TakenJoins
<1> QED
  BY <1>1, <1>2 DEF PostsGrowth

LEMMA SealKeepsJoin ==
    ASSUME Types, JoinInv, [Next]_vars, SealEffect
    PROVE  JoinInv'
<1>1. /\ life' = life /\ stack' = {} /\ needs' = needs /\ build' = build
      /\ Alike(slot', TakenSlots) /\ pc = "required"
  BY DEF SealEffect, host
<1>2. ASSUME NEW b \in Buffers
      PROVE  /\ slot'[b].taken => life'[b] # "new"
             /\ ~slot'[b].taken => slot'[b].serial = 0 /\ ~slot'[b].made
             /\ slot'[b].made => slot'[b].serial > 1
             /\ life'[b] # "new" => (slot'[b].taken /\ slot'[b].serial > 0) \/ Expired(b)'
  <2>1. /\ slot'[b].taken = TakenSlots[b].taken /\ slot'[b].serial = TakenSlots[b].serial
        /\ slot'[b].made = TakenSlots[b].made
    BY <1>1 DEF Alike
  <2>2. Expired(b) => Expired(b)'
    BY ExpiredStays
  <2> QED
    BY <1>1, <2>1, <2>2, TakenJoins DEF SlotInv
<1>3. ASSUME NEW b \in Buffers, batch'.state # "none", b \in DOMAIN batch'.asks
      PROVE  slot'[b].taken /\ slot'[b].serial > 0
  <2>1. slot'[b].taken = TakenSlots[b].taken /\ slot'[b].serial = TakenSlots[b].serial
    BY <1>1 DEF Alike
  <2>2. CASE batch' = batch
    BY <1>3, <2>1, <2>2, TakenJoins DEF SlotInv
  <2>3. CASE PostsGrowth
    BY <1>1, <1>3, <2>1, <2>3, PostedAreThere
  <2> QED
    BY <2>2, <2>3 DEF SealEffect
<1>4. SlotInv(slot)'
  BY <1>2, <1>3 DEF SlotInv
<1> QED
  BY <1>1, <1>4 DEF JoinInv

LEMMA BeginKeepsJoin ==
    ASSUME Types, JoinInv, [Next]_vars, Begin
    PROVE  JoinInv'
<1>1. /\ life' = life /\ stack' = {} /\ needs' = needs /\ build' = build
      /\ batch' = IF Settled THEN NoBatch ELSE batch
  BY DEF Begin, host
<1>2. TakenSlots \in [Buffers -> Slots]
  BY TakenFacts DEF WellFormed
<1>3. ASSUME NEW b \in Buffers
      PROVE  /\ slot'[b].taken => life'[b] # "new"
             /\ ~slot'[b].taken => slot'[b].serial = 0 /\ ~slot'[b].made
             /\ slot'[b].made => slot'[b].serial > 1
             /\ life'[b] # "new" => (slot'[b].taken /\ slot'[b].serial > 0) \/ Expired(b)'
             /\ batch'.state # "none" /\ b \in DOMAIN batch'.asks =>
                    slot'[b].taken /\ slot'[b].serial > 0
  <2>0. /\ TakenSlots[b].serial \in Nat
        /\ TakenSlots[b].taken => life[b] # "new"
        /\ ~TakenSlots[b].taken => TakenSlots[b].serial = 0 /\ ~TakenSlots[b].made
        /\ TakenSlots[b].made => TakenSlots[b].serial > 1
        /\ batch.state # "none" /\ b \in DOMAIN batch.asks =>
               TakenSlots[b].taken /\ TakenSlots[b].serial > 0
        /\ life[b] # "new" => (TakenSlots[b].taken /\ TakenSlots[b].serial > 0) \/ Expired(b)
    BY <1>2, TakenJoins DEF SlotInv, Slots
  <2>1. Expired(b) => Expired(b)'
    BY ExpiredStays
  <2>2. batch'.state # "none" => batch' = batch /\ batch.state = "pending"
    BY <1>1 DEF Settled, NoBatch, Types, Batches
  <2>3. CASE Expired(b) /\ slot'[b] = Vacant
    BY <1>1, <2>1, <2>2, <2>3 DEF Vacant, Expired
  <2>4. CASE slot'[b] = Grown(TakenSlots)[b]
    <3>1. /\ slot'[b].taken = TakenSlots[b].taken
          /\ \/ slot'[b] = TakenSlots[b]
             \/ /\ batch.state = "ready" /\ b \in DOMAIN batch.asks /\ TakenSlots[b].taken
                /\ slot'[b].serial = TakenSlots[b].serial + 1 /\ slot'[b].made
      BY <2>4, TakenFacts, GrownFacts
    <3> QED
      BY <1>1, <2>0, <2>1, <2>2, <3>1
  <2> QED
    BY <2>3, <2>4, BeginFacts
<1>4. SlotInv(slot)'
  BY <1>1, <1>3 DEF SlotInv
<1> QED
  BY <1>1, <1>4 DEF JoinInv

\* A step that moves no version: what it does to the other variables.
LEMMA QuietKeepsJoin ==
    ASSUME Types, JoinInv, [Next]_vars, Alike(slot', slot),
           batch' = batch \/ (batch.state # "none" /\ batch'.asks = batch.asks),
           life' = life /\ stack' \cap Buffers = stack \cap Buffers,
           \A b \in Buffers : needs'[b] = needs[b] \/ life[b] # "new",
           build' = build \/ build'.required = needs
    PROVE  JoinInv'
<1>1. ASSUME NEW b \in Buffers
      PROVE  /\ slot'[b].taken => life'[b] # "new"
             /\ ~slot'[b].taken => slot'[b].serial = 0 /\ ~slot'[b].made
             /\ slot'[b].made => slot'[b].serial > 1
             /\ batch'.state # "none" /\ b \in DOMAIN batch'.asks =>
                    slot'[b].taken /\ slot'[b].serial > 0
             /\ life'[b] # "new" /\ b \notin stack' =>
                    (slot'[b].taken /\ slot'[b].serial > 0) \/ Expired(b)'
             /\ b \in stack' => ~slot'[b].taken /\ life'[b] # "new"
             /\ needs'[b] # NoNeed => life'[b] # "new"
             /\ build'.required[b] # NoNeed => life'[b] # "new"
  <2>1. /\ slot'[b].taken = slot[b].taken /\ slot'[b].serial = slot[b].serial
        /\ slot'[b].made = slot[b].made
    BY DEF Alike
  <2>2. Expired(b) => Expired(b)'
    BY ExpiredStays
  <2>3. b \in stack' <=> b \in stack
    OBVIOUS
  <2> QED
    BY <2>1, <2>2, <2>3 DEF JoinInv, SlotInv
<1> QED
  BY <1>1 DEF JoinInv, SlotInv

LEMMA JoinKept == ASSUME Types, JoinInv, [Next]_vars PROVE JoinInv'
<1>0. Alike(slot, slot)
  BY DEF Alike
<1>1. CASE UNCHANGED vars
  BY <1>0, <1>1, QuietKeepsJoin DEF vars
<1>2. ASSUME NEW c \in Buffers, Register(c)
      PROVE  JoinInv'
  <2>1. /\ life[c] = "new" /\ life' = [life EXCEPT ![c] = "live"] /\ stack' = stack \cup {c}
        /\ UNCHANGED <<slot, batch, waking, needs, build>>
        /\ life \in [Buffers -> {"new", "live", "dropped"}]
    BY <1>2 DEF Register, lane, host, Types
  <2>2. ASSUME NEW b \in Buffers
        PROVE  /\ slot[b].taken => life'[b] # "new"
               /\ life'[b] # "new" /\ b \notin stack' =>
                      (slot[b].taken /\ slot[b].serial > 0) \/ Expired(b)'
               /\ b \in stack' => ~slot[b].taken /\ life'[b] # "new"
               /\ needs[b] # NoNeed => life'[b] # "new"
               /\ build.required[b] # NoNeed => life'[b] # "new"
    <3>1. Expired(b) => Expired(b)'
      BY ExpiredStays
    <3>2. CASE b = c
      BY <2>1, <3>2 DEF JoinInv, SlotInv
    <3>3. CASE b # c
      BY <2>1, <3>1, <3>3 DEF JoinInv, SlotInv
    <3> QED
      BY <3>2, <3>3
  <2> QED
    BY <2>1, <2>2 DEF JoinInv, SlotInv
<1>3. ASSUME NEW c \in Buffers, Drop(c)
      PROVE  JoinInv'
  <2>1. /\ life[c] = "live" /\ life' = [life EXCEPT ![c] = "dropped"] /\ stack' = stack
        /\ needs' = [needs EXCEPT ![c] = NoNeed]
        /\ UNCHANGED <<slot, batch, waking, build>>
        /\ life \in [Buffers -> {"new", "live", "dropped"}] /\ needs \in [Buffers -> Needs]
    BY <1>3 DEF Drop, Types
  <2>2. ASSUME NEW b \in Buffers
        PROVE  /\ life[b] # "new" <=> life'[b] # "new"
               /\ needs'[b] # NoNeed => needs[b] # NoNeed
               /\ Expired(b) => Expired(b)'
    BY <2>1, ExpiredStays
  <2> QED
    BY <2>1, <2>2 DEF JoinInv, SlotInv
<1>4. ASSUME NEW c \in Buffers, Relayout(c) \/ \E u \in AskedUnits : Ask(c, u)
      PROVE  JoinInv'
  <2>1. /\ life[c] = "live" /\ \A b \in Buffers \ {c} : needs'[b] = needs[b]
        /\ UNCHANGED <<life, stack, slot, batch, build>>
    BY <1>4 DEF Relayout, Ask, HostChanges, shared, Types
  <2>2. \A b \in Buffers : needs'[b] = needs[b] \/ life[b] # "new"
    BY <2>1
  <2> QED
    BY <1>0, <2>1, <2>2, QuietKeepsJoin
<1>5. ASSUME NEW a \in LatchAsks, AskLatch(a)
      PROVE  JoinInv'
  BY <1>0, <1>5, QuietKeepsJoin DEF AskLatch, HostChanges, shared
<1>6. CASE RegisterLatch
  <2>1. stack' \cap Buffers = stack \cap Buffers
    BY <1>6, GrowableAssumption DEF RegisterLatch, Latch
  <2> QED
    BY <1>0, <1>6, <2>1, QuietKeepsJoin DEF RegisterLatch, host
<1>7. CASE Begin
  BY <1>7, BeginKeepsJoin
<1>8. CASE Require
  <2>1. build'.required = needs
    BY <1>8 DEF Require
  <2> QED
    BY <1>0, <1>8, <2>1, QuietKeepsJoin DEF Require, shared, host
<1>9. CASE SealWaits \/ SealPosts \/ SealNames
  BY <1>9, SealWaitsFacts, SealPostsFacts, SealNamesFacts, SealKeepsJoin
<1>10. ASSUME NEW x \in {"ready", "failed"}, Complete(x)
       PROVE  JoinInv'
  <2>1. batch.state # "none" /\ batch'.asks = batch.asks
    BY <1>10 DEF Complete, Types, Batches
  <2> QED
    BY <1>0, <1>10, <2>1, QuietKeepsJoin DEF Complete, shared, host
<1>11. CASE Wake
  BY <1>0, <1>11, QuietKeepsJoin DEF Wake, shared, host
<1>12. CASE Close
  BY <1>0, <1>12, QuietKeepsJoin DEF Close, shared, host
<1>13. CASE PassTime
  BY <1>13, PassTimeFacts, QuietKeepsJoin DEF PassTime, shared, host
<1> QED
  BY <1>1, <1>2, <1>3, <1>4, <1>5, <1>6, <1>7, <1>8, <1>9, <1>10, <1>11, <1>12, <1>13 DEF Next

(***************************************************************************)
(* The sets that are sealed                                                *)
(***************************************************************************)

\* Everything but Begin and Seal: no version, block or set moves.
SetStands ==
    /\ Alike(slot', slot) /\ latch' = latch
    /\ UNCHANGED <<last, changed, outcome>>
    /\ (pc' = pc /\ build' = build) \/ pc' # "idle"

LEMMA OthersLeaveTheSet ==
    ASSUME Types, [Next]_vars
    PROVE  SetStands \/ Begin \/ SealWaits \/ SealPosts \/ SealNames
<1>0. Alike(slot, slot)
  BY DEF Alike
<1>1. CASE UNCHANGED vars
  BY <1>0, <1>1 DEF vars, SetStands
<1>2. ASSUME NEW c \in Buffers, Register(c) \/ Drop(c)
      PROVE  SetStands
  BY <1>0, <1>2 DEF Register, Drop, SetStands
<1>3. ASSUME HostChanges
      PROVE  SetStands
  BY <1>0, <1>3 DEF HostChanges, SetStands
<1>4. ASSUME NEW c \in Buffers, Relayout(c) \/ \E u \in AskedUnits : Ask(c, u)
      PROVE  SetStands
  BY <1>3, <1>4 DEF Relayout, Ask
<1>5. ASSUME NEW a \in LatchAsks, AskLatch(a)
      PROVE  SetStands
  BY <1>3, <1>5 DEF AskLatch
<1>6. CASE RegisterLatch \/ Wake \/ Close \/ Complete("ready") \/ Complete("failed")
  BY <1>0, <1>6 DEF RegisterLatch, Wake, Close, Complete, SetStands
<1>7. CASE Require
  BY <1>0, <1>7 DEF Require, SetStands
<1>8. CASE PassTime
  BY <1>8, PassTimeFacts DEF PassTime, SetStands
<1> QED
  BY <1>1, <1>2, <1>4, <1>5, <1>6, <1>7, <1>8 DEF Next

LEMMA CurrentKept == ASSUME Types, CurrentInv, [Next]_vars PROVE CurrentInv'
<1>1. CASE SetStands
  <2>1. NamesOf(slot', latch') = NamesOf(slot, latch)
    BY <1>1, NamesIgnoreWindows DEF SetStands
  <2>2. /\ last' = last /\ (changed' <=> changed)
        /\ Returned' => Returned
    BY <1>1 DEF SetStands, Returned
  <2> QED
    BY <2>1, <2>2 DEF CurrentInv, KeptSetIsCurrent, NamesOf
<1>2. CASE Begin
  <2>1. last' = last /\ pc' = "begun"
    BY <1>2 DEF Begin
  <2>2. ~changed' => ~changed /\ slot' = slot /\ latch' = latch
    BY <1>2, BeginFacts DEF Begin, TakenChanges
  <2> QED
    BY <2>1, <2>2 DEF CurrentInv, KeptSetIsCurrent, Returned, NamesOf
<1>3. CASE SealWaits \/ SealPosts
  <2>1. /\ Alike(slot', TakenSlots) /\ latch' = TakenLatch /\ changed' = TakenChanges
        /\ last' = last /\ outcome' # "named"
    BY <1>3, SealWaitsFacts, SealPostsFacts DEF SealEffect
  <2>2. ~changed' => /\ ~changed /\ TakenSlots = slot /\ TakenLatch = latch
    BY <2>1, TakenFacts DEF TakenChanges
  <2>3. ~changed' => NamesOf(slot', latch') = NamesOf(slot, latch)
    BY <2>1, <2>2, NamesIgnoreWindows
  <2> QED
    BY <2>1, <2>2, <2>3 DEF CurrentInv, KeptSetIsCurrent, Returned, NamesOf
<1>4. CASE SealNames
  <2>1. last' = NamesOf(slot', latch')
    <3>1. Alike(slot', TakenSlots)
      BY <1>4, SealNamesFacts DEF SealEffect
    <3>2. NamesOf(slot', latch') = NamesOf(TakenSlots, latch')
      BY <3>1, NamesIgnoreWindows
    <3>3. ASSUME last' = last, last # NoSet, ~TakenChanges, latch' = TakenLatch
          PROVE  last' = NamesOf(TakenSlots, latch')
      BY <3>3, TakenFacts DEF TakenChanges, CurrentInv
    <3> QED
      BY <1>4, <3>2, <3>3, SealNamesFacts
  <2> QED
    BY <2>1 DEF CurrentInv, KeptSetIsCurrent, NamesOf
<1> QED
  BY <1>1, <1>2, <1>3, <1>4, OthersLeaveTheSet

\* A set that is named, from the slots it names.
LEMMA SealNamesMeets ==
    ASSUME Types, JoinInv, [Next]_vars, SealNames, NEW b \in Buffers,
           last' = NamesOf(slot', latch')
    PROVE  /\ build'.required[b] # NoNeed /\ ~Expired(b)' =>
                  /\ last'.versions[b].units >= build'.required[b].units
                  /\ last'.versions[b].serial > build'.required[b].newer
           /\ b \in ZeroBuffers => last'.versions[b].serial # 1
<1> DEFINE s == TakenSlots[b]
           need == build.required[b]
<1>0. /\ build' = build /\ need \in Needs /\ s \in Slots
  BY SealNamesFacts, TakenFacts DEF SealEffect, Types, WellFormed
<1>1. /\ slot'[b].taken = s.taken /\ slot'[b].units = s.units
      /\ slot'[b].serial = s.serial /\ slot'[b].made = s.made
  BY SealNamesFacts DEF SealEffect, Alike
<1>2. last'.versions[b] = IF s.taken /\ (s.made \/ b \notin ZeroBuffers)
                          THEN [units |-> s.units, serial |-> s.serial]
                          ELSE [units |-> 0, serial |-> 0]
  BY <1>1 DEF NamesOf
<1>3. ~Expired(b)' => ~Expired(b)
  BY ExpiredStays
<1>4. /\ s.made => s.serial > 1
      /\ ~s.taken => s.serial = 0
  BY TakenJoins DEF SlotInv
<1>5. ASSUME need # NoNeed, ~Expired(b)
      PROVE  last'.versions[b].units >= need.units /\ last'.versions[b].serial > need.newer
  <2>1. b \notin Unmet(TakenSlots)
    BY <1>5, SealNamesFacts
  <2>2. MetBy(need, s)
    BY <1>5, <2>1 DEF Unmet
  <2>3. s.units >= need.units /\ s.serial > need.newer
    BY <2>2 DEF MetBy
  <2>4. s.taken
    BY <1>0, <1>4, <2>3 DEF Needs
  <2>5. s.made \/ b \notin ZeroBuffers
    BY <1>5, <2>1, <2>4 DEF Unmet
  <2> QED
    BY <1>2, <2>3, <2>4, <2>5
<1>6. ASSUME b \in ZeroBuffers
      PROVE  last'.versions[b].serial # 1
  <2>1. CASE s.taken /\ s.made
    BY <1>0, <1>2, <1>4, <2>1 DEF Slots
  <2>2. CASE ~(s.taken /\ s.made)
    BY <1>2, <1>6, <2>2
  <2> QED
    BY <2>1, <2>2
<1> QED
  BY <1>0, <1>3, <1>5, <1>6

LEMMA SealedKept ==
    ASSUME Types, JoinInv, CurrentInv, SealedInv, [Next]_vars
    PROVE  SealedInv'
<1>1. CASE SetStands
  <2>1. /\ Returned' => Returned /\ build' = build
        /\ last' = last
    BY <1>1 DEF SetStands, Returned
  <2>2. \A b \in Buffers : ~Expired(b)' => ~Expired(b)
    BY ExpiredStays
  <2> QED
    BY <2>1, <2>2 DEF SealedInv
<1>2. CASE Begin \/ SealWaits \/ SealPosts
  <2>1. ~Returned'
    BY <1>2, SealWaitsFacts, SealPostsFacts DEF Begin, Returned
  <2> QED
    BY <2>1 DEF SealedInv
<1>3. CASE SealNames
  <2>1. pc' = "idle" /\ outcome' = "named" /\ CurrentInv'
    BY <1>3, CurrentKept, SealNamesFacts DEF SealEffect
  <2>2. last' = NamesOf(slot', latch')
    BY <2>1 DEF CurrentInv, KeptSetIsCurrent, Returned, NamesOf
  <2> QED
    BY <1>3, <2>2, SealNamesMeets DEF SealedInv
<1> QED
  BY <1>1, <1>2, <1>3, OthersLeaveTheSet

(***************************************************************************)
(* The theorems                                                            *)
(***************************************************************************)

\* The inductive invariant holds of every behaviour of GrowableBufferSet.
THEOREM InvariantHolds == Spec => []IInv
<1>1. Init => IInv
  BY InitHolds
<1>2. IInv /\ [Next]_vars => IInv'
  BY TypesKept, JoinKept, CurrentKept, SealedKept DEF IInv
<1> QED
  BY <1>1, <1>2, PTL DEF Spec

\* What GrowableBufferSet::Seal returns meets every requirement it was given,
\* and names no Zero registration's first version, however registrations,
\* drops, growths and shrinks interleave with the build.
THEOREM SealedSetsMeetTheirRequirements == Spec => []SealedMeetsRequirements
<1>1. Types => TypeOK
  <2> SUFFICES ASSUME Types
               PROVE  TypeOK
    OBVIOUS
  <2>1. /\ slot \in [Buffers -> [taken : BOOLEAN, units : Nat, serial : Nat,
                                 made : BOOLEAN, window : Windows]]
        /\ latch \in [taken : BOOLEAN, block : [stride : Nat, layout : Nat, made : Nat]]
    BY DEF Types, WellFormed, Slots, Blocks
  <2>2. /\ batch.state \in {"none", "pending", "ready", "failed"}
        /\ batch.asks \in [DOMAIN batch.asks -> Nat] /\ DOMAIN batch.asks \subseteq Buffers
    BY DEF Types, Batches, Asks
  <2>3. /\ needs \in [Buffers -> [units : Nat, newer : Nat]]
        /\ build.required \in [Buffers -> [units : Nat, newer : Nat]]
    <3>1. Needs \subseteq [units : Nat, newer : Nat]
      <4>1. Needed \subseteq Nat
        BY GrowableAssumption DEF Needed
      <4> QED
        BY <4>1 DEF Needs
    <3>2. needs \in [Buffers -> Needs] /\ build.required \in [Buffers -> Needs]
      BY DEF Types
    <3> QED
      BY <3>1, <3>2
  <2> QED
    BY <2>1, <2>2, <2>3 DEF Types, TypeOK
<1>2. IInv => SealedMeetsRequirements
  BY <1>1 DEF IInv, SealedInv, SealedMeetsRequirements
<1> QED
  BY <1>2, InvariantHolds, PTL

\* The set that Seal returns again, because m_changed is unset, is the set it
\* would make.
THEOREM KeptSetsAreCurrent == Spec => []KeptSetIsCurrent
<1>1. IInv => KeptSetIsCurrent
  BY DEF IInv, CurrentInv
<1> QED
  BY <1>1, InvariantHolds, PTL
=============================================================================
