# A TLA+ verification of ORGModuleServices

ORGModuleServices is a library of services for a renderer: an asynchronous graph
that builds immutable artifacts, a pool of GPU backings, an exchange of published
revisions, hot reload of pipelines, and shader compilation. Almost all of it is
concurrent, and much of it lock-free. This directory models those parts in TLA+,
checks small instances of them with TLC, and proves with TLAPS, for any number of
threads, backings, fragments, buffers, pipelines, addresses or calls, the safety of the
ten components it models; of the graph, whose properties are the largest, two are proved
and two are model-checked only.

`PROJECT.json` maps every definition to the lines it translates and lists the
runs, the properties, a mutation of the code that each property rejects, the
hazards and the theorems.

    tlc -workers 2 -config BackingPool.cfg BackingPool
    tlapm LockFreeProofs.tla

## 1. Inventory

| Component | State | Operations | Threads |
|---|---|---|---|
| `SerializedTaskPump` | one atomic word (consumer state and requested epoch), drained epoch, one delayed deadline and its generation | Notify, NotifyAfter, TryRunInline, RequestStop; Run and FireDelayed on the scheduler | any caller, any worker |
| `PublicationExchange` | three slots, the ready index, the consumer's active index | TryPublish, TryReplace, ReclaimRetired; TrySelect, ClearActive | one producer, one consumer |
| `RevisionAssembler` | fragments with lock-free waiter lists, pending revisions with a countdown, a completed stack | Resolve/Fail, Begin/Set/Seal, Collect, TrySelect | producers, a coordinator, the frame |
| `RetirementClock` | completed point, a stack of waiters | Advance, Subscribe | any |
| `BackingPool` | all, free and returned backings; each one's leases, pins, safeAt; availability waiters and an event count | Acquire, Trim, lease copy/Bind/Reset, Pin, SubscribeAvailability | an exclusive section, lease holders and binding consumers outside it |
| `PipelineRegistry` | entries, a pending reload request, the running batch, staged and retired payloads, a generation of the sources | Register, RequestReload, Service, Publish, Retire | an owner thread, build threads, the file watcher |
| `StateGraph` | per address a node (the cursor of the version being built, its recipe, parked successors), an archive of versions, aliases of predicted generations, pins, wakes, retries, waiters | PostRequest, Invalidate, Cancel, Release, MarkPublished, AwaitExact, NotifySuspensionSatisfied; the drain; producers; acceptance mailboxes; GPU tokens | clients post to queues, one drain at a time owns the state |
| `BufferJournal`, versioned buffer builds | a paged image, its writes and their base sequence; a backing's contentEpoch | AppendWrite, ReplaceImage, CaptureDesired, Acknowledge; Build | writers, builders, acknowledgements |
| `JournaledBufferSet` | parts, each with a pool and a high-water class; a backing's sealed mark | Publish, Discard | one publisher |
| `GrowableBufferSet` | slots with their newest version and shrink window, registrations pushed lock-free, one growth batch, the last sealed set | Register, Begin, Require, Seal, ShrinkPending; the batch's done | any registers, one thread seals, a lane completes |
| Compile flights, `ShaderCompiler`, `PipelineService`, `ShaderServiceAdapter` | flights in a table, a memory and a disk cache, active and retired pipelines, a module's jobs | CompileAsync, Request, PublishReady, Retire; Request, Release, Shutdown | any caller, compile threads |
| Growth policies, `LeasedArraySlots` | numbers, a free list | arithmetic | sequential |
| Graph contracts, trace, diagnostics | none of their own | interfaces of the host | - |

How they interact. The graph's drain runs on a pump; so do a host's coordinators.
A producer of the graph that asks the pool for a backing and finds none suspends
itself, subscribes to the pool's availability, and is resumed by
`NotifySuspensionSatisfied`; the pool in turn subscribes to the retirement clock,
which the frame advances. Buffers grow as work of the graph. The versions that
result become fragments; a revision names a fragment per slot, and is published,
through the exchange, when all of them are ready. The frame selects it, binds what
it names, and retires what it replaced once the device has passed the frame.

What is hard. Nothing is lost only because of a compare-exchange, a recheck after a
push, or a count that two parties settle: wake-ups of the pump, the clock and the
pool; the last waiter of a revision; the drain that stops at its time budget. A
value read before one step is compared after another: the clock in Acquire, the
fingerprint in a reload, a GPU token before its subscription. Executors refuse,
drains and rebuilds throw, callbacks come late or twice. Each of these is a hazard
of `PROJECT.json`, with the property that would notice it.

What makes each component correct:

- pump: one consumer; no accepted work without a drain to come; a stale timer does
  nothing;
- exchange: it is a latest-wins mailbox, race-free, and a replacement never fails;
- assembler: whole revisions only, newest wins, every settled revision is decided;
- clock: a waiter runs once, when its point is reached, and always does;
- pool: a backing has one place; while it is claimed, to be reused or destroyed, no
  lease, no pin and, the bound backing apart, no frame in flight names it; whoever
  waits for one is woken;
- registry: at rest no pipeline was built from old files, and no payload is
  released under a frame;
- graph: one build per address, nothing forgotten when it goes idle, awaiters
  answered once, archived versions never regress, failures and retries reach whom
  they concern;
- buffers: a version holds exactly the writes up to its sequence, whatever its
  backing held before; a failed write is never built upon;
- growable set: what is sealed meets what was required; a set that is kept is still
  the newest; no wake is lost, and a quiet scene gives its memory back;
- flights: each callback runs once, every request is answered, and the tables of
  the services agree with one another.

## 2. Plan

1. `SerializedTaskPump` and its proofs, `PublicationExchange` with its abstract
   `PublicationMailbox`, `RetirementClock`, `BackingPool`: the lock-free
   base. *Done.*
2. `RevisionAssembly` (on the mailbox), `PipelineRegistry`. *Done.*
3. `StateGraph`, without leases and alternative groups. *Done.*
4. `VersionedBuffer`: journal, captures, builds that catch a reused backing up,
   acknowledgements. *Done.* Next: the predecessor-copy build and
   `JournaledBufferSet`'s partial failures on the same state.
5. `GrowableBufferSet` and `CompileServices`. *Done.* Left: `JournaledBufferSet`, the
   frame's AdoptAll and Bind, the two-acquirer variant of the pool.
6. `StateGraph` further: terminal answers of awaits, Latest consumers ending on the
   newest version, leases and reclamation.
7. Proofs: the pump, the clock, the exchange and its refinement of the mailbox, the
   pool, the assembler, the compile services, the versioned buffer, the growable
   set, the registry, the graph's OneBuildPerAddress and VersionsAreImmutable. *Done.*
   Left: the graph's NothingIsForgotten and AwaitersAreServed.

## 3. The modules and the code

Conventions. A variable keeps the name of the member it stands for. A step of a
lock-free component is one access to an atomic, or one access and what the thread
then does to its own locals; a step of a component under a mutex is the critical
section. Atomics are sequentially consistent: reorderings that a weaker memory
order would allow are out of scope, except that the exchange's plain values are
checked for races. A constant named Max... is a bound of the model, not of the code.
The theorems about a module are in a module of its name with Proofs appended; those
about the exchange, the clock and the pump share `LockFreeProofs`, for which the names
of the clock's and the pump's specifications begin with Clock and Pump.

**SerializedTaskPump.** `consumer` and `epoch` are the two halves of m_word, changed
together by the compare-exchanges of Notify, Run and RunOwned. Threads are callers
and workers; `pc` says where each one is inside a call. A submission is accepted (a
task joins `tasks`) or refused (Fail, then the reject handler); a drain returns or
throws. `pending`, the epochs whose work no drain has taken, stands for the client's
queue. A delayed notification is the pair (due, generation); timers carry the
generation they were submitted with and FireDelayed ignores a stale one.

**PublicationExchange / PublicationMailbox.** Every atomic access of TryPublish,
TryReplace, TrySelect, ClearActive and ReclaimRetired is a step. The mailbox has
four variables (offered, held, active, newest) and says what the frame may see; the
refinement mapping reads them off the slots and the program counters.

**RetirementClock.** Advance, Subscribe and RunReached on the waiter stack: push,
recheck, take the whole list, run what is reached, push the rest back.

**BackingPool.** Acquire is split where another thread can get in: taking the return
stack, each look at a free backing, each claim (count, then recheck, against Pin's
count, then recheck), allocation, arming availability. Candidates are taken in any
order, which includes the order by content epoch. Trim is the same walk with an
empty request. Event() counts and then wakes. A lease's Bind raises safeAt.

**VersionedBuffer.** The contents of a row are the sequence of the write that made
them, so an image is a size and a function from rows to sequences, and `gpu` is what
each backing really holds, next to the epoch and image it claims. A build is split at
the points other threads can see: the lease (with the pool's preference by epoch), the
Forget that precedes the writes, each range queued, and the store of the new epoch.
Acknowledge is split between the floor it reads and its lock. The uploader is external:
uploads land in the order queued, are refused, or are cancelled. Backings are freed by
the versions that name them and the clock; how the pool does that safely is
`BackingPool`. One row is written at a time, and rows are wider than the 256 bytes over
which the code merges dirty ranges, so that a range left out shows.

**PipelineRegistry.** Files have contents; an entry is built from `Inputs` and
reloaded when one of `Sources` changes. A rebuild reads its files, then reports
unchanged, a payload, or a failure, or throws, before or after its work, and its done
call may come late. Service is the owner's call: it finishes a batch that is in and
may start the next in the same call. Publish swaps staged payloads into the slots,
and Retire keeps the replaced ones until their frame has completed. Saving a file,
building, releasing and submitting frames are the environment.

**RevisionAssembly.** A producer settles its fragment in steps: the state, the list
of waiters closed, and for each waiter the error, the countdown, and for the last
one the push and the notification. The coordinator drafts, seals (attaching fragment
by fragment while they settle), and collects. The exchange is used as the mailbox
the run `exchange` shows it to implement.

**StateGraph.** The record `graph` is what the drain owns. Operators are named after
the code's functions and compose the way these call each other: RequestInternal is
the whole function, with refusal, alias, coalescing, parking and installation;
ApplyCompletion the whole switch. The drain is a sequence of phases in the code's
order, one queue entry per step, so clients, producers, the GPU and acceptance
mailboxes interleave with it; the phases that the code stops at its two-millisecond
budget may be left early, after at least one entry where the code checks the clock
only after an entry. A GPU token goes from recorded to submitted to complete, or
fails, by itself; addresses in `Notifying` tell the graph, the others are polled.
Recipes stand for their fingerprints. `MCStateGraph` gives the instances.

**GrowableBufferSet.** The producer begins (taking registrations and a settled batch,
clearing expired slots), states its requirements, and seals; between these three steps
other threads register, drop and complete. Seal is three actions, one per way out: it
waits for a batch in flight, posts one, or names the set. Each contains all that the
code does on that way: the registrations taken, the windows closed, the shrinks
observed and posted, the latch made, m_last kept or replaced. A version is its serial
and its units. The growth's work (VersionGrowthArtifact, VersionedBufferGrowth) ends
ready or failed, whatever of it failed; done stores that, and wakes the host in a later
step, until which the work keeps its buffers alive. The host builds again when one of
its requirements changed or a batch woke it and, while its last seal was named, when
ShrinkPending says so: that is the contract the header states. An open shrink window is
`settle` old or not.

**CompileServices.** A flight is named after the call that owns it, and each section
under a mutex is a step: the look into the tables, Attach, the submission, and for the
thread that completes a flight the memory cache, the load, DXC, the store, the table, the
promise, the callbacks taken and each one run. A callback may make the next call. A
submitter takes a task or refuses it; a factory or DXC makes something, nothing, or
throws; a cache file is absent, torn or whole. PublishReady goes through the flights in
any order, as the hash table does. The adapter keeps its mutex across CompileAsync, so
its Request is not one step. A behaviour makes the calls of one workload of
`MCCompileServices`.

## 4. The runs

| Run | Shows | States |
|---|---|---|
| `pump` | two callers, two workers, refusals, throws, stops, three delayed arms: OneConsumer, IdleMeansDrained, DrainedMeansServed, DelayArmedExactly, and, fairly, AcceptedWorkSettles | 315 000 |
| `exchange` | six candidates through three slots: NoDataRace, ReplaceAlwaysPublishes, ImplementsMailbox | 77 000 |
| `clock` | three threads, two waiters, two points: RunsOnceWhenReached, NoneStranded, ReachedRuns | 44 000 |
| `pool` | two backings, an acquirer, a holder, a pinner, the clock: OnePlace, ClaimExcludesUse, ClaimAfterRetirement, EventWakes | about 1 min |
| `versions` | two backings, four rows, four journal sequences, two capacity classes, refused, cancelled and lost uploads: EpochTellsContents, KeptVersionsStayExact, CapturesAreClosed, JournalReachesBackings | 2.0 million |
| `registry` | two entries that share an include, two edits, one faulty and one transient entry, a frame: NoPipelineKeepsOldFiles, RegistrationsAreServed, NoReleaseInFlight, ReloadsSettle | 1.1 million |
| `assembly` | two fragments, one requiring the other, three revisions: PublishedIsWhole, CompletedIsDecided, NewestWins, SettledIsDecided | 450 000 |
| `graph` | eight scenarios of three to five client operations on four addresses: OneBuildPerAddress, NothingIsForgotten, AwaitersAreServed, VersionsAreImmutable | 1.4 million |
| `services` | a shader asked for twice, by the host and a module or by two modules, with a pipeline asked for by its callback; pipelines of one id under two keys: AttachesAreCalledOnce, TablesAgree, ShutdownIsFinal, and, fairly, RequestsAreAnswered | 125 000 |
| `growable` | a shrinking Fresh buffer, a Zero buffer and a latch, two changes of the requirements, one fault (a failed batch, a dropped buffer or a shutdown): SealedMeetsRequirements, KeptSetIsCurrent, and, fairly, RequirementsAreSealed, QuietSceneShrinks | 183 000 |
| `graph_failure`, `graph_retry` | disagreements, section 6 | small |

The type invariant of each module is a conjunct of its first safety property (of the
pump it is a property of its own).

Bounds. Two callers and two workers are the fewest for which a worker, an inline
runner and a late notification meet; three delayed arms let a newer deadline replace
an older one whose submission then fails. Three slots can be confused by three
generations; six candidates let every slot be used twice. Two backings allow one
candidate to be lost to a pin while another is found; a second capacity class or
acquirer exceeds five minutes. Four sequences are the fewest for which a backing falls two
versions behind and is caught up, two rows of four can be dirty without the whole image
being written, and one more write comes in meanwhile; the backings are interchangeable,
so the run uses their symmetry. Two edits are an edit during the reload of another.
Three revisions are one published, one abandoned and one pending. The graph's
scenarios issue their operations in every order, interleaved with everything else:
an exact consumer while its address moves on, a Latest consumer of a polled upload, a
publication at each stage, release and re-request during a build, dependencies and
suspensions met while building, a refused prediction that is already awaited, a
cycle with a cancellation, and an archived version that is released, requested again and
published. What needs four versions of one address or a chain of
three consumers is beyond them. In the growable set the Fresh buffer starts at four units,
so that two changes suffice for a shrink that a new requirement overtakes; two faults
(656 000 states) also pass, a third change takes TLC past five minutes.
Two calls of a key are the fewest that join a flight as it completes, and a call of another
key of the id displaces its pipeline.

Fairness. A thread inside a call goes on (weak fairness of each thread's steps): the
code has no unbounded waits, and its compare-exchange loops are single steps. Nobody
is obliged to make a call, with these exceptions. In the registry the owner calls
Service every frame and publishes between two calls (strong, because Publish is
enabled only there), the watcher reports what changed, and rebuilds end. In the
assembler producers settle what they have begun, and the coordinator, once notified,
collects (strong, since sealing interrupts it). The clock thread of the pool goes on.
In the compile services a submitter runs what it took and a thread
inside a call goes on, a task or callback included; nobody need publish, retire or shut
down. The producer of the growable set builds when it is asked to, the graph completes every growth it
accepted (batches fail at most MaxFaults times, otherwise a growth could fail for ever), and
time passes.
StateGraph states only safety; "nothing is forgotten" is phrased as a property of
the idle graph, so it needs no fairness.

Deadlock is checked except where a system really may stop: a pump that was stopped,
a registry and an assembler whose bounded inputs are used up, a journal at its last
sequence, a graph at rest, services all of whose calls were answered, a growable set whose
host asks for nothing more.

## 5. What is proved

Every invariant that a run checks, except NothingIsForgotten and AwaitersAreServed of
`StateGraph`, is a theorem for every value of the constants (three have a hypothesis, named
below), and so are the action properties NewestWins and VersionsAreImmutable and the
refinement ImplementsMailbox. Each proof module states one inductive invariant IInv, shows
Spec => []IInv with one step per action (`InvariantHolds`), and reads the properties off
it. TLC finds no violation of any IInv on small instances.

| Module | Theorems |
|---|---|
| `LockFreeProofs` | SlotAccessIsExclusive (NoDataRace), ReplaceFindsASlot (ReplaceAlwaysPublishes), ExchangeIsAMailbox (ImplementsMailbox); WakesRunOnce (RunsOnceWhenReached), NobodyIsStranded (NoneStranded); PumpTypeCorrect, ConsumerIsExclusive (OneConsumer), NoLostWakeup (IdleMeansDrained), DrainedEpochIsHonest (DrainedMeansServed), DelayIsExact (DelayArmedExactly) |
| `BackingPoolProofs` | BackingsAreInOnePlace (OnePlace), ClaimedIsUnused (ClaimExcludesUse), ClaimedIsRetired (ClaimAfterRetirement) |
| `RevisionAssemblyProofs` | OnlyWholeRevisionsPublished (PublishedIsWhole), CompletedAreDecided (CompletedIsDecided), NewestAlwaysWins (NewestWins) |
| `CompileServicesProofs` | CallbacksRunOnce (AttachesAreCalledOnce), ServiceTablesAgree (TablesAgree), NothingOutlivesShutdown (ShutdownIsFinal) |
| `VersionedBufferProofs` | CapturesStayClosed (CapturesAreClosed), NoBackingIsLeftBehind (JournalReachesBackings), EpochsTellTheTruth (EpochTellsContents), PublishedStayExact (KeptVersionsStayExact) |
| `GrowableBufferSetProofs` | SealedSetsMeetTheirRequirements (SealedMeetsRequirements), KeptSetsAreCurrent (KeptSetIsCurrent) |
| `PipelineRegistryProofs` | PipelineRegistryServed (RegistrationsAreServed), PipelineRegistryReleases (NoReleaseInFlight), PipelineRegistryCurrent (NoPipelineKeepsOldFiles) |
| `StateGraphProofs` | StateGraphBuildsOnce (OneBuildPerAddress), VersionsStayImmutable (VersionsAreImmutable) |

None of these properties is inductive alone. What IInv adds to each, and what for:

**Pump.** RoleInv: whoever consumes does so under Running or Stopping, and there is one
such thread; Run takes the role only from Scheduled, a state in which nobody may have
it. EpochInv: every pending epoch lies above the drained one, and above the epoch a
finished pass observed, so a pass may set the drained epoch to what it observed before
it drained, and going Idle by compare-exchange on the whole word loses nothing.
GenerationInv: every timer and every NotifyAfter in progress carries a generation no
newer than the counter, and no two carry the same one, so disarming by generation hits
the right deadline.

**Clock.** PlaceInv: a waiter that has not run is on the stack or with the one thread
that took it. ClockInv: what RunReached read never lies ahead of the clock. GuardInv:
somebody stands behind each reached waiter on the stack, either a thread about to take
the stack or the subscriber that has yet to recheck.

**Exchange.** CallInv and OwnerInv give each slot its state from who holds it. FreeInv is
the counting argument for three slots: one is the consumer's, one at most is being
retired, and the scan has not passed a free one. ValueInv orders what was published;
the mailbox's variables are read off these.

**Pool.** CountInv: the two counters of a backing are the numbers of its leases and pins,
cardinalities of sets of threads. HandleInv and PlaceInv follow a backing from lease to
return stack to free list. ClaimInv is the handshake of claim and pin: each counts and
then looks at the other's count, so one of the two gives up.

**Assembler.** A sealed revision is owed one count by each fragment it names and one by
Seal. TokenInv: each owed count has exactly one carrier, a waiter list, a producer's walk
or the coordinator's attach. CountInv: `remaining` is their number, so the one that
takes it to zero is the last. DecisionInv: what no longer owes is settled, and a failure
has been written down or is about to be. OrderInv and StatsInv carry the newest-wins
rule to the exchange and the counters to the claim that none is decided twice.

**Compile services.** StageInv: who may be where while a flight is at each stage.
TableInv, PipelineInv: a flight under way is the one its key's table names. ListInv: a
callback that has not run is in one list, or in the hands of the call that attaches
or runs it. AdapterInv: what a request holds and its jobs keep.

**Versioned buffer.** OrderInv: sequences are captured, built and named in order.
VersionInv: while a version is named its backing claims it, and no build writes there.
ClosedInv and ReachInv: journal and captures together keep every write that some backing
needs; the floor Acknowledge read before its lock can only be too low. FollowInv: two
images differ only in rows written between them. UploadInv: whose uploads are queued;
those of a settled version have all landed. ClaimInv and WriteInv state the result for
the queue, not for the moment: what each row of a backing will hold once the uploads
still queued have run. One consequence is in the model: an empty image queues no
upload, so a build of one does not take its backing out of `lost`.

**Growable set.** JoinInv: a registered buffer is on the stack, or has a slot and a
version, or is gone for good; a growth's buffers keep their slots until it settles.
CurrentInv: while m_changed is unset the last set names what a new one would.
SealedInv: the property, which stands until the next seal because a buffer that has
expired stays so: no growth is posted for one.

**Registry.** Its IInv is called Base. WorkInv: the members of the batch are the entries
at work, and remaining counts those whose result is not in. EntryInv: what is published,
staged, read or built for an entry are contents of its own files. AskInv: whatever is
stale has been asked for, and no more reloads are asked for than there were edits.
GpuInv: the frame that a replaced payload waits for is no earlier than the last that bound
it, although a payload staged and replaced again was bound by none. NoPipelineKeepsOldFiles
takes two invariants more. FreshInv: whatever a rebuild has read, and whatever the slot of
an entry will hold that is neither in the batch, stale nor keeping what it has, is current
except for files whose change is still to be told. OrderInv: files only get newer, and what
is in the slot, staged, and read for an entry follow one another in that order; so a rebuild
that finds what the slot holds also finds what is staged. When an edit is undone this is
false (disagreement 4), and the theorem has the hypothesis ~Reverts.

**Graph.** FlightInv: while a node is in flight exactly one build, acceptance or completion
of its address is under way, which also says that none is counted twice as it moves from
one list to the next. GraphOK: the drain's record is well formed; a node with a revision to
build, or one it produced, has a generation, so that what goes into the archive is named.
KnownInv says the same of what is under way: a completion that comes in after its address
was cancelled or superseded is archived under a generation its node has. ClientInv types
what the queues of other threads hold. The proof follows the code's call structure: each
operator on the record is shown to be Sound, that is, to keep the record well formed, what
is under way as it is, and the generations there are; Sound is reflexive and transitive, so
a caller's lemma follows from its callees'. Only ReleaseLocked erases a node, which Applied
allows where nothing is under way: that is what the guard on buildInFlight in Erase is for.
TLC checked this IInv on all 1.4 million states of the run `graph`.

VersionsAreImmutable compares the archive before and after a drain step, and needs a second
invariant, AInv. ArchiveOK: the archive has one entry per version, a cursor has produced the
version it is for or nothing, and a cursor at a milestone is no step behind the archive's
entry of its version, so that StoreVersion may write it there again at any time. AimInv: what
is under way is of the revision its cursor is for, and of an earlier generation, in which
case its completion is stale, or of the present one, which is then Preparing: a completion
that is applied finds its version unbuilt. PromisedInv: a generation that PostRequest has
reserved, or that a posted request carries, is the one its revision has, if the address names
it at all; so the Failed entry with which RequestInternal answers a prediction it refuses
replaces nothing that was built. The argument again follows the calls: each operator keeps
what a step has made of the graph Faithful to the graph the step began with, that is, every
version archived then is there still, whatever a running build will find of its node has
gone on from it, and no prediction that was right has become wrong. The exception in the
property, a version that is being built anew, is decided on the graph before the step, and
so is Storable, the condition under which StoreVersion may take a version back. TLC checked
AInv on 2.3 million states, those of the run `graph` and of two more scenarios.

Assumptions. Those on constants are the modules' ASSUMEs, which TLC evaluates on each run:
bounds are natural numbers, thread sets are finite where they are counted and disjoint
where the code gives their members different roles, and None, "coordinator", "latch"
and the like are no members of the sets they are told apart from. Capacities hold every
row. The clients' operations are well typed, and so are the requirements that a producer
discovers (ScenarioAssumption); nothing else is said of scenarios. RoundingAssumption and DoublingAssumption say of the constants' values that
doubling reaches a need: laws of exponentiation, which the provers do not know. The two
theorems about contents have the hypothesis ~SparseAfterShrink: disagreement 6 of
section 6 is a counterexample without it.

Only model-checked:

- NothingIsForgotten and AwaitersAreServed of `StateGraph`. They speak of which snapshot
  answers a requirement, what the pins, wakes and waiters of each address are, and what a
  chain of aliases leads to, across all the operators of a drain. PinsWithout, whose value they need and
  which Sound need not know, is a fold, and what a fold computes is an induction over data,
  out of the provers' reach;
- every liveness property (AcceptedWorkSettles, ReachedRuns, EventWakes, ReloadsSettle,
  SettledIsDecided, RequestsAreAnswered, RequirementsAreSealed, QuietSceneShrinks):
  they rest on fairness, and so on ENABLED, which TLAPS cannot reason about;
- the two laws of exponentiation.

## 6. Where code and documentation disagree

Two have a run that shows them.

1. `graph_failure`. A version that fails before it produced anything is not archived
   (StoreVersion returns at producedRevision 0), so exact dependents never see the failure
   and stay Blocked, which the comment in ApplyCompletion says the call is there to avoid.
2. `graph_retry`. A RetryAfter is queued after the drain's retry loop, and nothing arms a
   timer for it: on a quiet graph it never runs, while WaitIdle's comment relies on the
   drain publishing the earliest deadline.

The others are set apart by name in the passing runs; changing the constant or the
property named here makes TLC show them.

3. Acquire reads the clock twice: to look for a reusable backing and, exhausted, to arm
   availability (`BackingPool.cpp`:369 and 479). A backing whose point is passed in between
   is neither found nor armed, and no event is counted: the subscriber sleeps although
   `BackingPool.h`:257 promises a wake when "the clock advanced past a free backing's
   safeAt". `AvailabilityWakes` says it without EventWakes' exception, and fails.
4. A rebuild is compared with the fingerprint of the published payload although a newer one
   is staged (`PipelineRegistry.cpp`:149). When an edit is undone at that moment the rebuild
   reports unchanged, and the payload of the undone edit is published and kept:
   `PipelineRegistry.h`:89 says "no pipeline keeps the files of before".
   NoPipelineKeepsOldFiles fails with `Reverts = TRUE`.
5. Build stores the new contentEpoch when the uploads are queued. When a ticket is then
   cancelled the readiness token fails the version, but nothing forgets the epoch
   (JournaledBufferSet has Discard for this), so the backing claims contents that never
   arrived and the next build only adds the newer writes; the repository's README
   defines contentEpoch as "the journal position its contents hold". `lost` is the set
   of such backings: without it TLC violates EpochTellsContents in six steps.
6. After ReplaceImage has shrunk the image, AppendWrite past unwritten rows back to an
   earlier size zero-fills the image ("a dense zero-filled byte image even when its
   journal is sparse") but journals only its own rows. A backing that still holds the
   earlier image of that size keeps its old rows there. `SparseAfterShrink = TRUE`
   shows it.
7. A producer that seals again only while ShrinkPending says so gives memory back when its
   policy asks for one or two observations. With three, as in `tests/Growth/GrowthTests.cpp`:304,
   one quiet seal leaves `seen` at 1, Due wants seen + 1 >= 3, and nothing asks again: the
   buffer keeps its size, although `GrowableBufferSet.h`:213 says to seal "for this, or a quiet
   scene keeps its sizes". `Observations = 3` violates QuietSceneShrinks.

8. A version that is archived, released and requested again with the same recipe keeps its
   generation (`StateGraphImplementation.h`:3948), and is built all the same, so the build stores a new outcome over the archived one: a version that was Published goes back to
   CpuReady, or fails, although `StateGraphImplementation.h`:488 says "Completed versions are
   immutable." `Rebuilding` sets these versions apart in VersionsAreImmutable.
9. RequestInternal calls SetDesired(node, true) at 3906, before it computes stillDesired at 3923,
   whose test of node.desired is therefore always true. A request for the version of a cancelled
   address is answered AlreadyDesired and builds nothing, although the comment at 3947 says that
   "an identical request must recreate desired state rather than pretending that the version is
   still desired". `CancelledAreRevived` says it; a scenario that requests, cancels and requests
   again violates it.
10. A request for a newer revision of an address whose version has Failed or was Cancelled is
   parked behind it (3985) and never promoted, for PromoteSuccessor runs when a version gets
   ready: what the comment at 4026 fears, that it "can strand the address forever". The last
   conjunct of NothingIsForgotten speaks of the versions that got ready only; with the states
   of Terminal added it is violated.

Read off the code while modelling `CompileServices`, and no property's subject: Load has
resized the artifact's binary when a torn file turns out short (`ShaderCompiler.cpp`:224), so a
compile that then fails returns an artifact that tests as a success; Store does not look at
its stream and so renames a torn file into place; an include file edited between BuildKey
and the compile is cached under the key of its old text; and of two builds of one id the one
published last stays, be it the older. In `GrowableBufferSet`, registering a latch moves the
set's Serial although no version or block moved.

The property `NothingIsForgotten` leaves one further case out by name (`Noticed`): a
version marked Published after its cursor moved on wakes nobody.

## 7. What is not modelled

`JournaledBufferSet` is not: one thread publishes its parts one after another, its pool is
`BackingPool` and its rule for epochs that of `VersionedBuffer` (none while a backing is written);
what would be its own, an emit that throws midway and Discard, is unchecked. Nor are the
predecessor-copy build of the versioned buffers, slot leases (a free list of one thread) and
CompileFlightRegistry (unused in the library). DXC, file hashing, descriptor and upload
allocation are I/O; the shader cache's files are modelled by their state. Contracts, traces and diagnostics
keep no protocol state. In the modelled components: statistics and logging everywhere;
the pool's readback pins, closing and census; the registry's listeners and path
normalisation; the clock's destructor; snapshot and GPU-written requests, the shrink window and page
sharing of the versioned buffers; the growable set's AdoptAll, Bind and Capture contents and
the exceptions it throws for calls it forbids; the adapter's Status; the graph's AnyOf and Fallback groups, LifetimeHold
edges, leases and reclamation, published views, ready callbacks, Shutdown, WaitIdle, blocking
requests, kinds without a producer and non-default kind policies. 64-bit epochs, sequences and
generations are treated as unbounded.

Three hazards of the code are known and have no property. With two acquirers behind the pool's
exclusive hook, the second one's Acquire resets scanEvents between the first one's exhausted
look and its subscription (`BackingPool.cpp`:360; the checked instance has one acquirer). In
`StateGraphImplementation.h`, a consumer is evaluated once per drain, so that a Latest dependency
that changes again in the same drain needs the next one (3146); FailCycle
announces nothing to the awaiters of the cycle's versions (1830). They need the graph's liveness, which the model
states only for the idle graph.
