------------------------- MODULE GrowableBufferSet -------------------------
(***************************************************************************)
(* GrowableBufferSet: growable buffers and a latch block named by one      *)
(* sealed set.  The producer begins a build, states its requirements and   *)
(* seals; a seal names the newest ready versions or posts one growth batch *)
(* (VersionGrowthArtifact, VersionedBufferGrowth) and is pending until the *)
(* batch's done stored its outcome and woke the producer.                  *)
(*                                                                         *)
(* Threads: the producer (Begin, Require, Seal), any thread registering or *)
(* dropping a buffer, and the lane that completes a batch.  Begin and Seal *)
(* touch shared state once each (the registration stack, the batch's       *)
(* state, weak references), so each is one step.                           *)
(*                                                                         *)
(* A version is its buffer's serial and units; bytes, strides, addresses   *)
(* and leases follow from them.  The text in m_failure and the counters    *)
(* are left out.  Time is whether an open shrink window is `settle` old.   *)
(***************************************************************************)
EXTENDS Naturals, Sequences, FiniteSets, SequencesExt

CONSTANTS
    Buffers,        \* the buffers that may join the set
    ZeroBuffers,    \* those registered with GrowableContents::Zero
    Shrinking,      \* those registered with a ShrinkPolicy::WhenBelow
    FirstUnits,     \* [Buffers -> units of the owner's first version]
    UsedPercent,    \* ShrinkPolicy::usedPercent
    Observations,   \* ShrinkPolicy::observations
    AskedUnits,     \* the units the host asks for (0: nothing)
    LatchAsks,      \* the latch layouts it asks for: [bytes, layout]
    NoSet,          \* m_last.named before the first seal
    MaxChanges,     \* bound: changes of the host's requirements
    MaxFaults       \* bound: failed batches, dropped buffers and shutdowns together

ASSUME GrowableAssumption ==
    /\ ZeroBuffers \subseteq Buffers /\ Shrinking \subseteq Buffers
    /\ FirstUnits \in [Buffers -> Nat \ {0}]
    /\ UsedPercent \in 1..100 /\ Observations \in Nat \ {0}
    /\ AskedUnits \subseteq Nat
    /\ "latch" \notin Buffers    \* Latch, as the stack holds it
    /\ \A a \in LatchAsks : a.bytes \in Nat \ {0} /\ a.layout \in Nat \ {0}
    /\ MaxChanges \in Nat /\ MaxFaults \in Nat

VARIABLES
    life,       \* each buffer: new, live (registered), dropped by its owner
    latchLife,  \* whether the latch is registered
    stack,      \* m_registered: what is registered and not taken
    slot,       \* m_slots: the producer's slot of each buffer
    latch,      \* m_latchSlots: the latch's taken flag and block
    batch,      \* m_batch: NoBatch, or its asks and state
    waking,     \* the batches whose state is stored and whose wake is not called
    changed,    \* m_changed
    last,       \* m_last: the last sealed set
    build,      \* the build's requirements
    outcome,    \* what the last seal returned: none, named, pending, error
    pc,         \* the producer: idle, begun, required
    needs,      \* the host's requirements of each buffer
    latchNeed,  \* the host's requirement of the latch
    todo,       \* the host asked its producer to build again
    open,       \* the graph still accepts growths
    changes, faults

host == <<needs, latchNeed, changes>>
shared == <<life, latchLife, stack>>
lane == <<waking, faults>>
vars == <<life, latchLife, stack, slot, latch, batch, waking, changed, last,
          build, outcome, pc, needs, latchNeed, todo, open, changes, faults>>

Latch == "latch"
NoBatch == [state |-> "none", asks |-> << >>]
NoBlock == [stride |-> 0, layout |-> 0, made |-> 0]
NoNeed == [units |-> 0, newer |-> 0]
Closed == [seen |-> 0, peak |-> 0, settled |-> FALSE]
Vacant == [taken |-> FALSE, units |-> 0, serial |-> 0, made |-> FALSE, window |-> Closed]

(***************************************************************************)
(* GrowthPolicy and ShrinkWindow                                           *)
(***************************************************************************)

Larger(a, b) == IF a > b THEN a ELSE b

\* Doubling(1).Next: the current capacity while it holds the need, else doubled until it does.
NextDoubling(current, needed) ==
    LET c == Larger(current, 1)
    IN  IF c >= needed THEN c
        ELSE CHOOSE n \in {c * 2 ^ k : k \in 1..needed} : n >= needed /\ n < 2 * needed

\* Doubling reaches every need the host states.
ASSUME DoublingAssumption ==
    \A needed \in AskedUnits : \A current \in 0..needed :
        NextDoubling(current, needed) \in Nat /\ NextDoubling(current, needed) >= needed

\* Headroom(0).Next, a latch's policy: exactly the need.
NextHeadroom(current, needed) == Larger(Larger(current, 1), needed)

Low(capacity, need) ==
    need <= (capacity \div 100) * UsedPercent + ((capacity % 100) * UsedPercent) \div 100

\* Mutant: a window still one ask short is not due.
DueLate(window) ==
    /\ window.seen > 0
    /\ window.seen >= Observations
    /\ window.settled

\* The window is open, one more low ask closes it, and it is old enough.
Due(window) ==
    /\ window.seen > 0
    /\ window.seen + 1 >= Observations
    /\ window.settled

\* One ask: the window it leaves and the capacity to make (the same one: no
\* shrink).  Nothing tells counts past Observations apart.
Observe(window, capacity, need) ==
    LET asked == IF window.seen = 0
                 THEN [seen |-> 1, peak |-> need, settled |-> FALSE]
                 ELSE [window EXCEPT !.seen = IF @ < Observations THEN @ + 1 ELSE @,
                                     !.peak = Larger(@, need)]
        closes == asked.seen >= Observations /\ asked.settled
        target == NextDoubling(0, asked.peak)
    IN  [window |-> IF Low(capacity, need) /\ ~closes THEN asked ELSE Closed,
         units  |-> IF Low(capacity, need) /\ closes /\ target < capacity
                    THEN target ELSE capacity]

\* Mutant: the very version a relayout replaces meets it.
MetByTheSame(need, s) == s.units >= need.units /\ s.serial >= need.newer

\* GrowableRequirement: MetBy and GrowTo.
MetBy(need, s) == s.units >= need.units /\ s.serial > need.newer
GrowTo(need, held) == IF held >= need.units THEN held ELSE NextDoubling(held, need.units)

(***************************************************************************)
(* The set's own helpers                                                   *)
(***************************************************************************)

\* Its owner dropped the buffer, and no growth's work still holds it.
Expired(b) ==
    /\ life[b] = "dropped"
    /\ ~(batch.state = "pending" /\ b \in DOMAIN batch.asks)
    /\ \A i \in DOMAIN waking : b \notin waking[i]

\* TakeRegistered: the slots once everything on the stack joined.
TakenSlots ==
    [b \in Buffers |->
        IF b \notin stack THEN slot[b]
        ELSE IF Expired(b) THEN [Vacant EXCEPT !.taken = TRUE]
        ELSE [Vacant EXCEPT !.taken = TRUE, !.units = FirstUnits[b], !.serial = 1]]
TakenLatch == [latch EXCEPT !.taken = @ \/ Latch \in stack]
TakenChanges == changed \/ stack # {}

\* Settle: a ready batch's versions become the slots' newest.
Grown(slots) ==
    [b \in Buffers |->
        IF batch.state = "ready" /\ b \in DOMAIN batch.asks /\ slots[b].taken
        THEN [slots[b] EXCEPT !.units = batch.asks[b], !.serial = @ + 1, !.made = TRUE]
        ELSE slots[b]]
\* Mutant: a failed batch is kept as if it were in flight.
SettledWhenReady == batch.state = "ready"

\* The batch left pending: Begin takes it off.
Settled == batch.state \in {"ready", "failed"}

\* Mutant: a settled batch does not set m_changed.
SettleForgets(slots) == FALSE

\* Whether a settled batch sets m_changed.
SettleChanges(slots) == Grown(slots) # slots

\* The buffers a seal must first grow: requirements not met, and a Zero
\* registration's first version.
Unmet(slots) ==
    {b \in Buffers :
        \/ build.required[b] # NoNeed /\ ~MetBy(build.required[b], slots[b])
        \/ b \in ZeroBuffers /\ slots[b].taken /\ ~slots[b].made /\ ~Expired(b)}

\* What Post asks for: an expired buffer is skipped.
Posted(asks) == [b \in {x \in DOMAIN asks : ~Expired(x)} |-> asks[b]]
BatchOf(asks) == [state |-> "pending", asks |-> asks]

\* What a new set names.
NamesOf(slots, l) ==
    [versions |->
        [b \in Buffers |->
            IF slots[b].taken /\ (slots[b].made \/ b \notin ZeroBuffers)
            THEN [units |-> slots[b].units, serial |-> slots[b].serial]
            ELSE [units |-> 0, serial |-> 0]],
     latch |-> l.block]

Init ==
    /\ life = [b \in Buffers |-> "new"] /\ latchLife = FALSE /\ stack = {}
    /\ slot = [b \in Buffers |-> Vacant]
    /\ latch = [taken |-> FALSE, block |-> NoBlock]
    /\ batch = NoBatch /\ waking = << >> /\ open = TRUE
    /\ changed = TRUE /\ last = NoSet
    /\ needs = [b \in Buffers |-> NoNeed] /\ latchNeed = NoBlock
    /\ build = [required |-> needs, latch |-> latchNeed]
    /\ outcome = "none" /\ pc = "idle" /\ todo = FALSE
    /\ changes = 0 /\ faults = 0

(***************************************************************************)
(* Any thread: registrations, and an owner dropping its buffer             *)
(***************************************************************************)

Register(b) ==
    /\ life[b] = "new"
    /\ life' = [life EXCEPT ![b] = "live"]
    /\ stack' = stack \cup {b}
    /\ UNCHANGED <<latchLife, slot, latch, batch, lane, changed, last, build,
                   outcome, pc, host, todo, open>>

RegisterLatch ==
    /\ ~latchLife
    /\ latchLife' = TRUE
    /\ stack' = stack \cup {Latch}
    /\ UNCHANGED <<life, slot, latch, batch, lane, changed, last, build,
                   outcome, pc, host, todo, open>>

Fault == faults < MaxFaults /\ faults' = faults + 1

\* The host asks nothing more of a buffer its owner dropped.
Drop(b) ==
    /\ life[b] = "live" /\ Fault
    /\ life' = [life EXCEPT ![b] = "dropped"]
    /\ needs' = [needs EXCEPT ![b] = NoNeed]
    /\ UNCHANGED <<latchLife, stack, slot, latch, batch, waking, changed, last,
                   build, outcome, pc, latchNeed, changes, todo, open>>

(***************************************************************************)
(* The host: what it requires, each change asking for a build              *)
(***************************************************************************)

HostChanges ==
    /\ changes < MaxChanges
    /\ changes' = changes + 1
    /\ todo' = TRUE
    /\ UNCHANGED <<shared, slot, latch, batch, lane, changed, last, build,
                   outcome, pc, open>>

Ask(b, units) ==
    /\ life[b] = "live" /\ needs[b].units # units
    /\ needs' = [needs EXCEPT ![b].units = units]
    /\ UNCHANGED latchNeed
    /\ HostChanges

\* A relayout: a version newer than the newest ready one (Build::Serial).
Relayout(b) ==
    /\ life[b] = "live" /\ slot[b].serial > needs[b].newer
    /\ needs' = [needs EXCEPT ![b].newer = slot[b].serial]
    /\ UNCHANGED latchNeed
    /\ HostChanges

AskLatch(a) ==
    /\ latchLife
    /\ latchNeed' = [stride |-> a.bytes, layout |-> a.layout, made |-> 0]
    /\ latchNeed' # latchNeed
    /\ UNCHANGED needs
    /\ HostChanges

(***************************************************************************)
(* The producer                                                            *)
(***************************************************************************)

\* ShrinkPending: a seal now would name other versions, nothing having moved.
ShrinkPending ==
    \/ changed
    \/ Settled
    \/ batch = NoBatch /\ \E b \in Shrinking : slot[b].taken /\ Due(slot[b].window)

\* The host builds when asked to, and while its requirements stand for a shrink.
BuildsAgain == todo \/ (outcome = "named" /\ ShrinkPending)

Begin ==
    /\ pc = "idle" /\ BuildsAgain
    /\ LET grown == Grown(TakenSlots)
           gone  == {b \in Buffers : grown[b].taken /\ Expired(b)}
       IN  /\ slot' = [b \in Buffers |-> IF b \in gone THEN Vacant ELSE grown[b]]
           /\ changed' = (TakenChanges \/ SettleChanges(TakenSlots) \/ gone # {})
    /\ latch' = TakenLatch /\ stack' = {}
    /\ batch' = IF Settled THEN NoBatch ELSE batch
    /\ pc' = "begun" /\ todo' = FALSE
    /\ UNCHANGED <<life, latchLife, lane, last, build, outcome, host, open>>

\* Build::Require and RequireNewer, for everything the host needs.
Require ==
    /\ pc = "begun"
    /\ build' = [required |-> needs, latch |-> latchNeed]
    /\ pc' = "required"
    /\ UNCHANGED <<shared, slot, latch, batch, lane, changed, last, outcome,
                   host, todo, open>>

\* What every seal does: it takes what was registered since Begin.
SealTakes ==
    /\ pc = "required" /\ pc' = "idle"
    /\ stack' = {}
    /\ UNCHANGED <<life, latchLife, lane, build, host, todo, open>>

\* Something is not met while a batch is in flight: it is posted once that settled.
SealWaits ==
    /\ SealTakes
    /\ Unmet(TakenSlots) # {} /\ batch # NoBatch
    /\ slot' = TakenSlots /\ latch' = TakenLatch /\ changed' = TakenChanges
    /\ outcome' = "pending"
    /\ UNCHANGED <<batch, last>>

\* The slots with the windows of the buffers to grow closed, and what to ask for.
Reopened(slots) ==
    [b \in Buffers |-> IF b \in Unmet(slots) THEN [slots[b] EXCEPT !.window = Closed]
                       ELSE slots[b]]
GrowthAsks(slots) ==
    Posted([b \in Unmet(slots) |-> GrowTo(build.required[b], slots[b].units)])

\* One batch for everything not met; the graph refuses it while it shuts down.
SealPosts ==
    /\ SealTakes
    /\ batch = NoBatch /\ GrowthAsks(TakenSlots) # << >>
    /\ slot' = Reopened(TakenSlots) /\ latch' = TakenLatch /\ changed' = TakenChanges
    /\ \/ open /\ batch' = BatchOf(GrowthAsks(TakenSlots)) /\ outcome' = "pending"
       \/ ~open /\ UNCHANGED batch /\ outcome' = "error"
    /\ UNCHANGED last

\* The observed asks of a seal that has no batch in flight.
Observed(slots) ==
    LET asked == {b \in Shrinking : batch = NoBatch /\ build.required[b].units > 0
                                    /\ slots[b].taken /\ slots[b].serial > 0}
    IN  [b \in asked |-> Observe(slots[b].window, slots[b].units, build.required[b].units)]

\* The latch's block: made anew for another layout or for more bytes.
LatchAfter(l) ==
    LET same == l.block # NoBlock /\ l.block.layout = build.latch.layout
    IN  IF build.latch = NoBlock \/ (same /\ l.block.stride >= build.latch.stride) THEN l
        ELSE [l EXCEPT !.block =
                [stride |-> NextHeadroom(IF same THEN @.stride ELSE 0, build.latch.stride),
                 layout |-> build.latch.layout, made |-> @.made + 1]]

\* Every requirement of a buffer still there is met: the set is named, or the
\* last one returned when nothing changed, and shrinks are posted beside it.
SealNames ==
    /\ SealTakes
    /\ \/ Unmet(TakenSlots) = {}
       \/ batch = NoBatch /\ GrowthAsks(TakenSlots) = << >>
    /\ LET slots  == IF batch = NoBatch THEN Reopened(TakenSlots) ELSE TakenSlots
           seen   == Observed(slots)
           shrink == Posted([b \in {x \in DOMAIN seen : seen[x].units < slots[x].units}
                               |-> seen[b].units])
           after  == LatchAfter(TakenLatch)
           moved  == TakenChanges \/ after # TakenLatch
       IN  /\ slot' = [b \in Buffers |-> IF b \in DOMAIN seen
                                         THEN [slots[b] EXCEPT !.window = seen[b].window]
                                         ELSE slots[b]]
           /\ batch' = IF shrink # << >> /\ open THEN BatchOf(shrink) ELSE batch
           /\ latch' = after
           /\ last' = IF ~moved /\ last # NoSet THEN last ELSE NamesOf(slots, after)
    /\ changed' = FALSE
    /\ outcome' = "named"

Seal == SealWaits \/ SealPosts \/ SealNames

(***************************************************************************)
(* The growth: its versions are made and filled, or something of it fails; *)
(* done stores that, then wakes the host, and the work is let go.          *)
(***************************************************************************)

Complete(state) ==
    /\ batch.state = "pending"
    /\ IF state = "failed" THEN Fault ELSE UNCHANGED faults
    /\ batch' = [batch EXCEPT !.state = state]
    /\ waking' = Append(waking, DOMAIN batch.asks)
    /\ UNCHANGED <<shared, slot, latch, changed, last, build, outcome, pc, host,
                   todo, open>>

Wake ==
    /\ \E i \in DOMAIN waking : waking' = RemoveAt(waking, i)
    /\ todo' = TRUE
    /\ UNCHANGED <<shared, slot, latch, batch, faults, changed, last, build,
                   outcome, pc, host, open>>

\* The graph shuts down: it accepts no more growths.
Close ==
    /\ open /\ open' = FALSE /\ Fault
    /\ UNCHANGED <<shared, slot, latch, batch, waking, changed, last, build,
                   outcome, pc, host, todo>>

\* `settle` passes over the open windows.
PassTime ==
    /\ \E b \in Buffers : slot[b].window.seen > 0 /\ ~slot[b].window.settled
    /\ slot' = [b \in Buffers |-> [slot[b] EXCEPT !.window.settled = slot[b].window.seen > 0]]
    /\ UNCHANGED <<shared, latch, batch, lane, changed, last, build, outcome, pc,
                   host, todo, open>>

Next ==
    \/ \E b \in Buffers : Register(b) \/ Drop(b) \/ Relayout(b)
    \/ \E b \in Buffers, u \in AskedUnits : Ask(b, u)
    \/ \E a \in LatchAsks : AskLatch(a)
    \/ RegisterLatch
    \/ Begin \/ Require \/ SealWaits \/ SealPosts \/ SealNames
    \/ Complete("ready") \/ Complete("failed") \/ Wake
    \/ Close \/ PassTime

Spec == Init /\ [][Next]_vars

\* The producer runs, the graph completes every growth it accepted, and time passes.
FairSpec ==
    /\ Spec
    /\ WF_vars(Begin) /\ WF_vars(Require) /\ WF_vars(Seal)
    /\ WF_vars(Complete("ready")) /\ WF_vars(Wake) /\ WF_vars(PassTime)

(***************************************************************************)
(* Properties                                                              *)
(***************************************************************************)

Windows == [seen : 0..Observations, peak : Nat, settled : BOOLEAN]
Versions == [units : Nat, serial : Nat]

TypeOK ==
    /\ life \in [Buffers -> {"new", "live", "dropped"}]
    /\ latchLife \in BOOLEAN /\ stack \subseteq Buffers \cup {Latch}
    /\ slot \in [Buffers -> [taken : BOOLEAN, units : Nat, serial : Nat,
                             made : BOOLEAN, window : Windows]]
    /\ latch \in [taken : BOOLEAN, block : [stride : Nat, layout : Nat, made : Nat]]
    /\ batch.state \in {"none", "pending", "ready", "failed"}
    /\ batch.state # "none" => batch.asks \in [DOMAIN batch.asks -> Nat]
                               /\ DOMAIN batch.asks \subseteq Buffers
    /\ waking \in Seq(SUBSET Buffers)
    /\ changed \in BOOLEAN /\ todo \in BOOLEAN /\ open \in BOOLEAN
    /\ last = NoSet \/ last.versions \in [Buffers -> Versions]
    /\ needs \in [Buffers -> [units : Nat, newer : Nat]]
    /\ build.required \in [Buffers -> [units : Nat, newer : Nat]]
    /\ outcome \in {"none", "named", "pending", "error"}
    /\ pc \in {"idle", "begun", "required"}
    /\ changes \in 0..MaxChanges /\ faults \in 0..MaxFaults

\* The set the last seal returned, as the host has it until it builds again.
Returned == pc = "idle" /\ outcome = "named"

\* "A requirement a set cannot meet is never sealed": a returned set holds, of
\* every required buffer that is still there, the units asked and a version
\* newer than the relayout's, and a Zero registration's first version is never
\* named, whatever was registered, dropped, grown or shrunk between Begin and
\* Seal (GrowableBufferSet::Seal).  The variables have their types.
SealedMeetsRequirements ==
    /\ TypeOK
    /\ Returned =>
        \A b \in Buffers :
            LET version == last.versions[b]
                need    == build.required[b]
            IN  /\ need # NoNeed /\ ~Expired(b) =>
                      version.units >= need.units /\ version.serial > need.newer
                /\ b \in ZeroBuffers => version.serial # 1

\* A set that is returned again names what a new one would: m_changed misses
\* no registration, settled batch, expired buffer or replaced latch block
\* (GrowableBufferSet::Seal's kept m_last).
KeptSetIsCurrent == Returned => last = NamesOf(slot, latch)

Named(b) == IF last = NoSet THEN [units |-> 0, serial |-> 0] ELSE last.versions[b]

\* No registration, wake or failed batch is lost: while the graph accepts
\* growths, the set named in the end meets what the host needs of every buffer
\* that is there, and of the latch (Sealed::pending: "seal again after the wake").
RequirementsAreSealed ==
    <>[](open =>
        /\ \A b \in Buffers : needs[b] # NoNeed =>
              Named(b).units >= needs[b].units /\ Named(b).serial > needs[b].newer
        /\ latchNeed # NoBlock =>
              /\ last # NoSet
              /\ last.latch.layout = latchNeed.layout
              /\ last.latch.stride >= latchNeed.stride)

\* A producer that builds again while ShrinkPending says so gives memory back
\* in a quiet scene: in the end no asked, shrinking buffer is named at a size
\* its policy would shrink (GrowableBufferSet::ShrinkPending, ShrinkWindow::Due).
\* This holds for a window of one or two observations.  From three on it fails:
\* after one quiet seal Due is false, ShrinkPending asks for no further build,
\* and the window never fills.
QuietSceneShrinks ==
    <>[](open =>
        \A b \in Shrinking : needs[b].units > 0 =>
            ~(Low(Named(b).units, needs[b].units)
              /\ NextDoubling(0, needs[b].units) < Named(b).units))
=============================================================================
