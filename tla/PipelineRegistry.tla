-------------------------- MODULE PipelineRegistry --------------------------
(***************************************************************************)
(* The hot-reload registry of live pipelines (PipelineRegistry.h/.cpp).    *)
(*                                                                         *)
(* A module builds a pipeline from shader files and registers it with how  *)
(* to build it again.  A watcher that sees a file change calls             *)
(* RequestReload; the owner thread's Service picks the entries the request *)
(* names, starts their rebuilds, and stages the results once every one is  *)
(* in; the owner's Publish swaps them into the slots and holds what they   *)
(* replace until the frames that may bind it are complete.                 *)
(*                                                                         *)
(* A file is its content, a number; a payload and its fingerprint are the  *)
(* contents it was built from.  Vectors whose order nothing observes are   *)
(* sets; the staged list and the retired queue keep theirs.  Each mutex_   *)
(* section is one step.  Publish is one step as well: only the owner       *)
(* thread reads a fingerprint or a staged payload, and no recording reads  *)
(* a slot during it (the safe point its comment requires).                 *)
(***************************************************************************)
EXTENDS Naturals, Sequences, FiniteSets, SequencesExt

CONSTANTS
    Entries,    \* the pipelines modules may register, each once
    Files,      \* the shader files
    Sources,    \* [Entries -> SUBSET Files]: desc.sources, the files an entry names
    Inputs,     \* [Entries -> SUBSET Files]: what it is compiled from, includes too
    Reverts,    \* whether an edit may bring an earlier content of a file back
    Faulty,     \* SUBSET Entries: those whose rebuild may fail or throw
    Transient,  \* SUBSET Entries: those whose slot may be released
    MaxEdits,   \* bound: edits of files and forced reloads, together
    MaxFrame    \* bound: frames submitted

\* A file is named by the entries that declare it or is an include of whoever uses
\* it, never both: what RequestReload's comment on includes presumes.
ASSUME SourcesAssumption ==
    /\ Sources \in [Entries -> SUBSET Files]
    /\ Inputs \in [Entries -> SUBSET Files]
    /\ \A e \in Entries : Sources[e] \subseteq Inputs[e]
    /\ \A e, d \in Entries : (Inputs[e] \ Sources[e]) \cap Sources[d] = {}

ASSUME BoundsAssumption ==
    /\ Reverts \in BOOLEAN
    /\ Faulty \subseteq Entries /\ Transient \subseteq Entries
    /\ MaxEdits \in Nat /\ MaxFrame \in Nat

VARIABLES
    files,      \* the content of each file
    edits,      \* edits and forced reloads made
    dirty,      \* files changed since the watcher last reported them
    phase,      \* per entry: absent, building (by its module), live, expired
    built,      \* per entry: what its module's build read, and builtFor
    entries,    \* entries_
    slot,       \* per entry: the contents its slot's payload was built from
    fingerprint,\* Entry::fingerprint
    stale,      \* entries with Entry::stale
    request,    \* request_
    asked,      \* asked_
    sourcesGeneration,
    batch,      \* running_: its entries, their requests, remaining; NoBatch
    work,       \* per entry of the batch: queued, reading, done
    result,     \* per entry of the batch: its LiveBuild
    late,       \* entries whose rebuild threw and whose done call is still to come
    owner,      \* where the owner thread is: frame, recheck (in Service, a batch started)
    staged,     \* staged_
    keeps,      \* entries that keep their payload: the last rebuild failed or was dropped
    retired,    \* retired_, each with the last frame that bound the payload
    boundAt,    \* per entry: the last frame that bound its slot's payload
    frame,      \* frames submitted
    completed   \* frames the device has completed

fileVars  == <<files, edits, dirty>>
entryVars == <<phase, built, entries, slot, fingerprint, stale>>
askVars   == <<request, asked, sourcesGeneration>>
batchVars == <<batch, work, result, late>>
outVars   == <<staged, keeps>>
gpuVars   == <<retired, boundAt, frame, completed>>
vars == <<fileVars, entryVars, askVars, batchVars, owner, outVars, gpuVars>>

NoBatch   == [members |-> {}, prints |-> <<>>, force |-> {}, remaining |-> 0, on |-> FALSE]
NoRequest == [asked |-> FALSE, all |-> FALSE, force |-> FALSE, files |-> {}]
Nothing   == <<>>                    \* no contents read, no payload
Seen(e)   == [f \in Inputs[e] |-> files[f]]
Contents(e) == [Inputs[e] -> 0..MaxEdits]

\* LiveBuild: a payload with its fingerprint, a failure, or unchanged.
NoBuild       == [kind |-> "none", content |-> Nothing]
Failure       == [kind |-> "failed", content |-> Nothing]
Unchanged     == [kind |-> "unchanged", content |-> Nothing]
Rebuilt(c)    == [kind |-> "rebuilt", content |-> c]

Expired == {e \in Entries : phase[e] = "expired"}

Init ==
    /\ files = [f \in Files |-> 0] /\ edits = 0 /\ dirty = {}
    /\ phase = [e \in Entries |-> "absent"]
    /\ built = [e \in Entries |-> [content |-> Nothing, for |-> 0]]
    /\ entries = {}
    /\ slot = [e \in Entries |-> Nothing]
    /\ fingerprint = [e \in Entries |-> Nothing]
    /\ stale = {}
    /\ request = NoRequest /\ asked = FALSE
    /\ sourcesGeneration = 0
    /\ batch = NoBatch
    /\ work = [e \in Entries |-> "idle"]
    /\ result = [e \in Entries |-> NoBuild]
    /\ late = {}
    /\ owner = "frame"
    /\ staged = <<>>
    /\ keeps = {}
    /\ retired = <<>>
    /\ boundAt = [e \in Entries |-> 0]
    /\ frame = 0 /\ completed = 0

-----------------------------------------------------------------------------
(* The files, their watcher and the modules that build pipelines: callers.  *)

\* A file is saved with other content: new, or (Reverts) one it had before.
Edit(f) ==
    /\ edits < MaxEdits
    /\ edits' = edits + 1
    /\ \E c \in (IF Reverts THEN 0..edits ELSE {}) \cup {edits + 1} :
           /\ c # files[f]
           /\ files' = [files EXCEPT ![f] = c]
    /\ dirty' = dirty \cup {f}
    /\ UNCHANGED <<entryVars, askVars, batchVars, owner, outVars, gpuVars>>

\* A module starts building a pipeline: it notes SourcesGeneration and reads the files.
BeginBuild(e) ==
    /\ phase[e] = "absent"
    /\ phase' = [phase EXCEPT ![e] = "building"]
    /\ built' = [built EXCEPT ![e] = [content |-> Seen(e), for |-> sourcesGeneration]]
    /\ UNCHANGED <<fileVars, entries, slot, fingerprint, stale, askVars, batchVars, owner, outVars, gpuVars>>

\* The last holder of a slot lets go: the entry's weak slot expires.
Release(e) ==
    /\ e \in Transient /\ phase[e] = "live"
    /\ phase' = [phase EXCEPT ![e] = "expired"]
    /\ UNCHANGED <<fileVars, built, entries, slot, fingerprint, stale, askVars, batchVars, owner, outVars, gpuVars>>

\* PruneLocked: the entries that remain, given those inBatch.
PruneLocked(inBatch) == {e \in entries : phase[e] # "expired" \/ e \in inBatch}

\* Mutant of Register: builtFor is not compared with SourcesGeneration.
RegisterUnchecked(e) ==
    /\ phase[e] = "building"
    /\ phase' = [phase EXCEPT ![e] = "live"]
    /\ slot' = [slot EXCEPT ![e] = built[e].content]
    /\ fingerprint' = [fingerprint EXCEPT ![e] = built[e].content]
    /\ built' = [built EXCEPT ![e] = [content |-> Nothing, for |-> 0]]
    /\ entries' = entries \cup {e}
    /\ UNCHANGED <<fileVars, stale, askVars, batchVars, owner, outVars, gpuVars>>

\* Register: whether it prunes first depends on how many entries there are (pruneAt_),
\* which is left open.
Register(e) ==
    /\ phase[e] = "building"
    /\ phase' = [phase EXCEPT ![e] = "live"]
    /\ slot' = [slot EXCEPT ![e] = built[e].content]
    /\ fingerprint' = [fingerprint EXCEPT ![e] = built[e].content]
    /\ built' = [built EXCEPT ![e] = [content |-> Nothing, for |-> 0]]
    /\ \E kept \in {entries, PruneLocked(batch.members)} : entries' = kept \cup {e}
    /\ LET old == built[e].for < sourcesGeneration
       IN  /\ stale' = IF old THEN stale \cup {e} ELSE stale
           /\ asked' = (asked \/ old)
    /\ UNCHANGED <<fileVars, request, sourcesGeneration, batchVars, owner, outVars, gpuVars>>

\* RequestReload: an empty changedFile asks for every entry; requests coalesce.
RequestReload(all, changed, force) ==
    /\ request' = [ asked |-> TRUE,
                    all   |-> request.all \/ all,
                    force |-> request.force \/ force,
                    files |-> IF all \/ request.all THEN request.files
                                                    ELSE request.files \cup changed ]
    /\ asked' = TRUE

\* The watcher reports a file that changed.
ReportChange(f) ==
    /\ f \in dirty
    /\ dirty' = dirty \ {f}
    /\ RequestReload(FALSE, {f}, FALSE)
    /\ UNCHANGED <<files, edits, entryVars, sourcesGeneration, batchVars, owner, outVars, gpuVars>>

\* Somebody asks for everything to be built again, changed or not.
ForceReload ==
    /\ edits < MaxEdits
    /\ edits' = edits + 1
    /\ RequestReload(TRUE, {}, TRUE)
    /\ UNCHANGED <<files, dirty, entryVars, sourcesGeneration, batchVars, owner, outVars, gpuVars>>

-----------------------------------------------------------------------------
(* The owner thread: Service, once a frame.                                 *)

BatchIsIn == batch.on /\ batch.remaining = 0

\* One batch entry in FinishBatch's loop: a payload is staged.
StagedBy(members) ==
    LET order == SetToSeq({e \in members : result[e].kind = "rebuilt"})
    IN  [i \in 1..Len(order) |-> [entry |-> order[i], content |-> result[order[i]].content]]

\* FinishBatch: the payloads staged, and the failures noted (LastReload's outcome).
FinishBatch ==
    /\ staged' = staged \o StagedBy(batch.members)
    /\ keeps' = (keeps \ batch.members)
                    \cup {e \in batch.members : result[e].kind = "failed"}

\* The batch is gone: a done call still to come finds a result already written, in a
\* batch nobody reads.
BatchGone == result' = [e \in Entries |-> NoBuild] /\ late' = {}
NoneRunning == batch' = NoBatch /\ work' = [e \in Entries |-> "idle"]

\* StartBatch: the entries the request names, and the stale ones.
Picked(live) ==
    LET declared == UNION {Sources[e] : e \in live}
        all == request.all \/ ~(request.files \subseteq declared)
    IN  {e \in live : request.asked /\ (all \/ request.files \cap Sources[e] # {})}

StartBatch ==
    LET kept    == PruneLocked({})
        picked  == Picked(kept)
        members == kept \cap (picked \cup stale)
    IN  /\ request' = NoRequest
        /\ asked' = FALSE
        /\ entries' = kept
        /\ stale' = stale \ members
        /\ sourcesGeneration' = IF request.asked THEN sourcesGeneration + 1 ELSE sourcesGeneration
        /\ batch' = [ on        |-> TRUE,
                      members   |-> members,
                      prints    |-> [e \in members |-> fingerprint[e]],
                      force     |-> IF request.force THEN members \cap picked ELSE {},
                      remaining |-> Cardinality(members) ]
        /\ work' = [e \in Entries |-> IF e \in members THEN "queued" ELSE "idle"]

\* Service: the reload whose rebuilds are all in is finished, and the one asked for
\* started.  Nothing another thread does in between is told from doing it before.
Service ==
    LET finishes == BatchIsIn
        starts   == asked /\ (finishes \/ ~batch.on)
    IN  /\ owner = "frame"
        /\ finishes \/ starts
        /\ IF finishes THEN FinishBatch ELSE UNCHANGED outVars
        /\ BatchGone
        /\ \/ starts /\ StartBatch /\ owner' = "recheck"
           \/ ~starts /\ NoneRunning /\ UNCHANGED <<entries, stale, request, asked, sourcesGeneration, owner>>
        /\ UNCHANGED <<fileVars, phase, built, slot, fingerprint, gpuVars>>

\* Service, after StartBatch: every rebuild may be in at once.
ServiceRecheck ==
    /\ owner = "recheck"
    /\ owner' = "frame"
    /\ \/ BatchIsIn /\ FinishBatch /\ BatchGone /\ NoneRunning
       \/ ~BatchIsIn /\ UNCHANGED <<batchVars, outVars>>
    /\ UNCHANGED <<fileVars, entryVars, askVars, gpuVars>>

-----------------------------------------------------------------------------
(* The rebuilds, started by one task and completing on any thread.          *)

\* Mutant of Complete: a second call counts down again.
CompleteTwice(e, build) ==
    /\ work' = [work EXCEPT ![e] = "done"]
    /\ result' = [result EXCEPT ![e] = build]
    /\ batch' = [batch EXCEPT !.remaining = @ - 1]

\* Batch::Complete: a second call for an entry is ignored.
Complete(e, build) ==
    IF work[e] = "done"
    THEN UNCHANGED <<batch, work, result>>
    ELSE /\ work' = [work EXCEPT ![e] = "done"]
         /\ result' = [result EXCEPT ![e] = build]
         /\ batch' = [batch EXCEPT !.remaining = @ - 1]

\* The submitter refuses the task: every rebuild fails, on the owner thread.
SubmitRefused ==
    /\ owner = "recheck" /\ batch.members # {}
    /\ \A e \in batch.members : work[e] = "queued"
    /\ work' = [e \in Entries |-> IF e \in batch.members THEN "done" ELSE work[e]]
    /\ result' = [e \in Entries |-> IF e \in batch.members THEN Failure ELSE result[e]]
    /\ batch' = [batch EXCEPT !.remaining = 0]
    /\ UNCHANGED <<fileVars, entryVars, askVars, late, owner, outVars, gpuVars>>

\* The task starts an entry's rebuild, which reads the files as they are now.
StartRebuild(e) ==
    /\ work[e] = "queued"
    /\ work' = [work EXCEPT ![e] = "reading"]
    /\ result' = [result EXCEPT ![e] = [kind |-> "none", content |-> Seen(e)]]
    /\ UNCHANGED <<fileVars, entryVars, askVars, batch, late, owner, outVars, gpuVars>>

\* Mutant of RebuildThrows: the exception completes nothing.
RebuildThrowsSilently(e) ==
    /\ e \in Faulty /\ work[e] = "queued"
    /\ work' = [work EXCEPT ![e] = "idle"]
    /\ UNCHANGED <<fileVars, entryVars, askVars, batch, result, late, owner, outVars, gpuVars>>

\* It has no rebuild function, or it throws before it starts anything.
RebuildThrows(e) ==
    /\ e \in Faulty /\ work[e] = "queued"
    /\ Complete(e, Failure)
    /\ UNCHANGED <<fileVars, entryVars, askVars, late, owner, outVars, gpuVars>>

\* It throws having started its work, whose done call is still to come.
RebuildThrowsLate(e) ==
    /\ e \in Faulty /\ work[e] = "reading"
    /\ Complete(e, Failure)
    /\ late' = late \cup {e}
    /\ UNCHANGED <<fileVars, entryVars, askVars, owner, outVars, gpuVars>>

\* What a rebuild reports of the contents it read (LiveBuild's contract).
BuildOf(e) ==
    LET c == result[e].content
    IN  IF c = batch.prints[e] /\ e \notin batch.force THEN Unchanged ELSE Rebuilt(c)

\* Its done call: the build, or a compile error.
RebuildDone(e) ==
    /\ work[e] = "reading"
    /\ \E build \in {BuildOf(e)} \cup (IF e \in Faulty THEN {Failure} ELSE {}) : Complete(e, build)
    /\ UNCHANGED <<fileVars, entryVars, askVars, late, owner, outVars, gpuVars>>

\* The done call of a rebuild that threw.
LateDone(e) ==
    /\ e \in late
    /\ late' = late \ {e}
    /\ Complete(e, Failure)
    /\ UNCHANGED <<fileVars, entryVars, askVars, owner, outVars, gpuVars>>

-----------------------------------------------------------------------------
(* Publication and retirement.                                              *)

\* What a slot holds after the staged list is swapped in, in order: the last payload
\* staged for it.
StagedFor(e)  == {i \in 1..Len(staged) : staged[i].entry = e}
LastStaged(e) == IF StagedFor(e) = {} THEN slot[e] ELSE staged[Max(StagedFor(e))].content

\* The payloads the swaps of the staged list replace: a slot's own, which frames may
\* bind, then those staged before another for the same slot, which none ever bound.
\* All wait for one point, so their order among themselves decides nothing.
Replaced(point) ==
    LET order == SetToSeq({i \in 1..Len(staged) : phase[staged[i].entry] # "expired"})
    IN  [n \in 1..Len(order) |->
            LET e == staged[order[n]].entry
            IN  [ point |-> point,
                  bound |-> IF \E j \in StagedFor(e) : j < order[n] THEN 0 ELSE boundAt[e] ]]

\* Mutant of Publish: the slots change, their entries' fingerprints do not.
PublishKeepsFingerprint ==
    /\ owner = "frame"
    /\ staged # <<>>
    /\ slot' = [e \in Entries |-> IF phase[e] # "expired" THEN LastStaged(e) ELSE slot[e]]
    /\ retired' = retired \o Replaced(frame)
    /\ staged' = <<>>
    /\ UNCHANGED <<fileVars, phase, built, entries, fingerprint, stale, askVars, batchVars, owner, keeps, boundAt, frame, completed>>

\* Publish(retirementPoint), at the owner's safe point: the last frame submitted.
Publish ==
    /\ owner = "frame"
    /\ staged # <<>>
    /\ LET swapped == {e \in Entries : phase[e] # "expired" /\ StagedFor(e) # {}}
       IN  /\ slot' = [e \in Entries |-> IF e \in swapped THEN LastStaged(e) ELSE slot[e]]
           /\ fingerprint' = [e \in Entries |-> IF e \in swapped THEN LastStaged(e) ELSE fingerprint[e]]
           /\ boundAt' = [e \in Entries |-> IF e \in swapped THEN 0 ELSE boundAt[e]]
    /\ retired' = retired \o Replaced(frame)
    /\ staged' = <<>>
    /\ UNCHANGED <<fileVars, phase, built, entries, stale, askVars, batchVars, owner, keeps, frame, completed>>

\* Mutant of Retire: a payload is let go one frame early.
RetireEarly(completedPoint) ==
    /\ completedPoint <= completed
    /\ retired # <<>> /\ retired[1].point <= completedPoint + 1
    /\ retired' = Tail(retired)
    /\ UNCHANGED <<fileVars, entryVars, askVars, batchVars, owner, outVars, boundAt, frame, completed>>

\* Retire(completedPoint), any thread: the queue from its first payload still needed on.
Retire(completedPoint) ==
    /\ completedPoint <= completed
    /\ LET needed == {i \in 1..Len(retired) : retired[i].point > completedPoint}
           first  == IF needed = {} THEN Len(retired) + 1 ELSE Min(needed)
       IN  /\ first > 1
           /\ retired' = SubSeq(retired, first, Len(retired))
    /\ UNCHANGED <<fileVars, entryVars, askVars, batchVars, owner, outVars, boundAt, frame, completed>>

\* DrainRetired, the device idle: what is staged goes too, and its entries keep what they have.
DrainRetired ==
    /\ owner = "frame" /\ completed = frame
    /\ retired # <<>> \/ staged # <<>>
    /\ retired' = <<>>
    /\ staged' = <<>>
    /\ keeps' = keeps \cup {staged[i].entry : i \in 1..Len(staged)}
    /\ UNCHANGED <<fileVars, entryVars, askVars, batchVars, owner, boundAt, frame, completed>>

\* The owner records and submits a frame that binds every live slot.
Record ==
    /\ owner = "frame" /\ frame < MaxFrame
    /\ frame' = frame + 1
    /\ boundAt' = [e \in Entries |-> IF phase[e] = "live" THEN frame + 1 ELSE boundAt[e]]
    /\ UNCHANGED <<fileVars, entryVars, askVars, batchVars, owner, outVars, retired, completed>>

\* The device completes a frame.
CompleteFrame ==
    /\ completed < frame
    /\ completed' = completed + 1
    /\ UNCHANGED <<fileVars, entryVars, askVars, batchVars, owner, outVars, retired, boundAt, frame>>

-----------------------------------------------------------------------------
Rebuild(e) == \/ StartRebuild(e) \/ RebuildThrows(e) \/ RebuildThrowsLate(e)
              \/ RebuildDone(e) \/ LateDone(e)

OwnerService == Service \/ ServiceRecheck

Next ==
    \/ \E f \in Files : Edit(f) \/ ReportChange(f)
    \/ \E e \in Entries : BeginBuild(e) \/ Register(e) \/ Release(e) \/ Rebuild(e)
    \/ ForceReload \/ OwnerService \/ SubmitRefused
    \/ Publish \/ DrainRetired \/ Record \/ CompleteFrame
    \/ \E p \in 0..MaxFrame : Retire(p)

Spec == Init /\ [][Next]_vars

\* The owner calls Service every frame and reaches its safe point; the watcher reports
\* a change; a rebuild calls done (LiveRebuild's contract); a build registers.
Fairness ==
    /\ WF_vars(OwnerService)
    /\ SF_vars(Publish)    \* enabled only between two Service calls
    /\ \A f \in Files : WF_vars(ReportChange(f))
    /\ \A e \in Entries : WF_vars(Register(e)) /\ WF_vars(Rebuild(e))

FairSpec == Spec /\ Fairness

-----------------------------------------------------------------------------
(* Properties.                                                              *)

BuildKinds == {"none", "failed", "unchanged", "rebuilt"}
Builds(e) == [kind : BuildKinds, content : Contents(e) \cup {Nothing}]

\* The types of the variables.
TypeOK ==
    /\ files \in [Files -> 0..MaxEdits] /\ edits \in 0..MaxEdits /\ dirty \subseteq Files
    /\ phase \in [Entries -> {"absent", "building", "live", "expired"}]
    /\ \A e \in Entries : built[e].content \in Contents(e) \cup {Nothing}
    /\ entries \subseteq Entries /\ stale \subseteq Entries
    /\ \A e \in Entries : slot[e] \in Contents(e) \cup {Nothing}
    /\ request \in [asked : BOOLEAN, all : BOOLEAN, force : BOOLEAN, files : SUBSET Files]
    /\ asked \in BOOLEAN
    /\ sourcesGeneration \in 0..MaxEdits
    /\ batch.members \subseteq Entries /\ batch.on \in BOOLEAN
    /\ \A e \in Entries : result[e] \in Builds(e)
    /\ work \in [Entries -> {"idle", "queued", "reading", "done"}]
    /\ owner \in {"frame", "recheck"}
    /\ late \subseteq batch.members
    /\ frame \in 0..MaxFrame /\ completed \in 0..frame

\* Nothing asked for, running, staged, unreported or being registered.
Quiet ==
    /\ ~asked /\ ~batch.on /\ staged = <<>> /\ dirty = {}
    /\ \A e \in Entries : phase[e] # "building"

\* Once nothing is left to do, every live pipeline whose last rebuild did not fail is
\* built from the files as they are: whatever edits, reports, registrations of builds
\* that read the files before a reload, and rebuilds interleaved, "no pipeline keeps
\* the files of before" (Register's comment).
NoPipelineKeepsOldFiles ==
    Quiet => \A e \in Entries :
        (phase[e] = "live" /\ e \notin keeps) => slot[e] = Seen(e)

\* The fingerprint a rebuild is compared against describes the payload in the slot.
\* A live entry is never pruned, and an entry told stale is served by a Service to come.
\* A batch counts down exactly the rebuilds that are not in yet, so remaining never wraps
\* and zero means every result was written (Batch::Complete ignores a second call),
\* whatever a rebuild that threw does later.
\* The variables have their types.
RegistrationsAreServed ==
    /\ TypeOK
    /\ batch.remaining = Cardinality({e \in batch.members : work[e] # "done"})
    /\ \A e \in Entries : phase[e] = "live" => e \in entries /\ fingerprint[e] = slot[e]
    /\ stale # {} => asked \/ stale \subseteq Expired
    /\ request.asked => asked

\* Publish holds what a slot gives up until Retire passes the point it was published
\* at: no payload leaves the retired queue while a frame that bound it is in flight.
NoReleaseInFlight ==
    [][ \A i \in 1..Len(retired) : i <= Len(retired) - Len(retired') => retired[i].bound <= completed ]_vars

\* Every reload asked for is started, finished and published, and every stale
\* registration rebuilt: the registry always comes to rest once edits stop.
ReloadsSettle == <>[]Quiet

=============================================================================
