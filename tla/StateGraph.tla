----------------------------- MODULE StateGraph -----------------------------
(***************************************************************************)
(* The asynchronous artifact graph (Async/Detail/StateGraphImplementation). *)
(*                                                                         *)
(* Every address has a node, the cursor of the version being built, and    *)
(* an archive of immutable versions.  Clients post requests and other      *)
(* mutations to lock-free queues; producers run on the scheduler and push  *)
(* completions; one drain at a time (SerializedTaskPump) applies them,     *)
(* wakes the consumers of what changed, and starts the builds whose        *)
(* dependencies are satisfied.                                             *)
(*                                                                         *)
(* The record graph is the state the drain owns, changed by operators      *)
(* named after the code's functions; s is that record throughout.  The     *)
(* queues other threads touch are variables of their own.  A drain passes  *)
(* through numbered phases, one queue entry per step; the phases under the *)
(* drain's time budget may be left early.                                  *)
(*                                                                         *)
(* A recipe names an address at most once and is the request's             *)
(* fingerprint; clients hold the handles they were given, so no version is *)
(* reclaimed; requirements are AllOf or Optional; every kind has a         *)
(* producer and the default ArtifactKindPolicy.                            *)
(***************************************************************************)
EXTENDS Naturals, FiniteSets, Sequences, SequencesExt

CONSTANTS
    Keys,       \* the addresses
    Scenarios,  \* sets of client operations; a behaviour issues those of one, in any order
    Outcomes,   \* [Keys -> SUBSET Outcome]: what the producer of an address may return
    Later,      \* [Keys -> SUBSET Requirement]: the dependencies it discovers while building
    GpuKeys,    \* addresses whose results carry a GpuSubmissionSet ...
    Notifying,  \* ... and those of them whose notifications are authoritative
    Accepting,  \* addresses whose results carry an acceptance action
    Awaiters    \* identities of AwaitExact registrations

VARIABLES
    todo,        \* operations the clients have not issued
    handles,     \* versions PostRequest has returned to clients
    posted,      \* postedIntents
    awaits,      \* postedAwaits
    notices,     \* postedSuspensions
    owed,        \* suspensions whose owner has still to notify the graph
    graph,       \* the state the drain owns
    phase,       \* 0: no drain is running; else the phase it is in
    scheduled,   \* drainPump has a notification no drain has begun to serve
    timer,       \* delayedDrainScheduled
    builds,      \* producer tasks in flight
    completions, \* completions
    acceptances, \* acceptanceMailboxes
    token,       \* the state of every GpuSubmissionSet, by the version it belongs to
    subscribed,  \* the submission sets that notify the graph
    signals,     \* gpuSignals
    fired        \* per awaiter: the callbacks that ran, in order

queues == <<posted, awaits, notices>>
vars   == <<todo, handles, queues, owed, graph, phase, scheduled, timer, builds, completions,
            acceptances, token, subscribed, signals, fired>>

Outcome == {"ready", "needs", "retry", "failed", "suspend", "suspendExact"}

\* The milestones in the order of ArtifactReadiness; Cancelled and Failed are below all of them.
Rank == [Missing |-> 0, Blocked |-> 1, Queued |-> 2, Preparing |-> 3, CpuReady |-> 4,
         UploadSubmitted |-> 5, GpuReady |-> 6, Published |-> 7]
Terminal  == {"Cancelled", "Failed"}
Readiness == DOMAIN Rank \cup Terminal

Satisfies(actual, required) == actual \notin Terminal /\ Rank[actual] >= Rank[required]

ASSUME GraphAssumption ==
    /\ IsFiniteSet(Keys) /\ Outcomes \in [Keys -> SUBSET Outcome]
    /\ GpuKeys \subseteq Keys /\ Notifying \subseteq GpuKeys /\ Accepting \subseteq Keys

Version(k, rev, gen)         == [key |-> k, rev |-> rev, gen |-> gen]
Snapshot(k, rev, gen, state) == [key |-> k, rev |-> rev, gen |-> gen, readiness |-> state]
Identity(x)                  == Version(x.key, x.rev, x.gen)

Requirement == [key : Keys, rev : Nat, gen : Nat, ready : DOMAIN Rank, policy : {"all", "optional"},
                edge : {"exact", "latest", "gate"}]
\* What a client asks for; the handles an operation needs are chosen when it is issued.
Operation ==
    [op : {"request"}, key : Keys, rev : Nat \ {0}, reqs : SUBSET Requirement, coalesce : BOOLEAN]
    \cup [op : {"invalidate", "publish"}, key : Keys, rev : Nat \ {0}]
    \cup [op : {"cancel", "release"}, key : Keys]
    \cup [op : {"await"}, who : Awaiters, key : Keys, rev : Nat \ {0}, milestone : DOMAIN Rank]
    \cup [op : {"unawait"}, who : Awaiters, key : Keys, rev : Nat \ {0}]

ASSUME ScenarioAssumption ==
    /\ \A scenario \in Scenarios : scenario \subseteq Operation
    /\ Later \in [Keys -> SUBSET Requirement]

\* A Node, absent from nodes.  gen is what completions are checked against, vgen the version's
\* identity; asked is the recipe requested, reqs the one in force; used the resolved
\* dependencies; waiting the generation of the submission set waited for, or 0.
NoNode ==
    [present |-> FALSE, desired |-> FALSE, rev |-> 0, latestReq |-> 0, produced |-> 0, gen |-> 0,
     vgen |-> 0, state |-> "Missing", reqs |-> {}, asked |-> {}, edges |-> {}, used |-> {},
     waiting |-> 0, inFlight |-> FALSE, attempted |-> FALSE, terminal |-> FALSE,
     published |-> FALSE, latestNeeded |-> FALSE, coalesce |-> FALSE, superseded |-> FALSE,
     retry |-> FALSE, suspended |-> FALSE, successors |-> <<>>]

\* gens, reserved and recipes are partial functions on <<address, revision>>.  woken, ready,
\* starting, accepting, subscribing and delayed live for one drain.
NewGraph ==
    [nodes |-> [k \in Keys |-> NoNode], versions |-> {}, aliases |-> <<>>, gens |-> <<>>,
     reserved |-> <<>>, recipes |-> <<>>, nextGen |-> 0, pins |-> EmptyBag, pending |-> <<>>,
     wakes |-> <<>>, retries |-> {}, waiters |-> {}, dropped |-> {}, latched |-> {},
     parked |-> {}, recovery |-> {}, woken |-> {}, polled |-> {}, ready |-> <<>>,
     starting |-> {}, accepting |-> {}, subscribing |-> {}, delayed |-> FALSE]

Init ==
    /\ todo \in Scenarios
    /\ handles = {} /\ posted = <<>> /\ awaits = <<>> /\ notices = {} /\ owed = {}
    /\ graph = NewGraph
    /\ phase = 0 /\ scheduled = FALSE /\ timer = FALSE
    /\ builds = {} /\ completions = <<>> /\ acceptances = {}
    /\ token = <<>> /\ subscribed = {} /\ signals = {}
    /\ fired = [w \in Awaiters |-> <<>>]

-----------------------------------------------------------------------------
(***************************************************************************)
(* Versions, their archive and their selection.                            *)
(***************************************************************************)
WithNode(s, k, n) == [s EXCEPT !.nodes[k] = n]
WithState(s, k, state) == [s EXCEPT !.nodes[k].state = state]

Canonical(s, v) == IF v \in DOMAIN s.aliases THEN s.aliases[v] ELSE v

\* A version that ended before it produced anything is named by the revision it was for.
MakeSnapshot(k, n) ==
    Snapshot(k, IF n.state \in Terminal /\ n.produced = 0 THEN n.rev ELSE n.produced, n.vgen, n.state)

Archived(s, v)    == {x \in s.versions : Identity(x) = v}
Archive(s, x)     == [s EXCEPT !.versions = (@ \ Archived(s, Identity(x))) \cup {x}]
Announce(s, x)    == [s EXCEPT !.ready = Append(@, x)]
\* Mutant: the cursor is archived before it has produced anything.
StoreVersionEarly(s, k) == Archive(s, MakeSnapshot(k, s.nodes[k]))
StoreVersion(s, k) ==
    IF s.nodes[k].produced = 0 THEN s ELSE Archive(s, MakeSnapshot(k, s.nodes[k]))

Newest(S) ==
    {x \in S : \A y \in S : x.rev > y.rev \/ (x.rev = y.rev /\ x.gen >= y.gen)}

\* The versions of an address at a milestone; the cursor's own snapshot stands for its version.
Reached(s, k, floor, milestone) ==
    LET n      == s.nodes[k]
        good(S) == {x \in S : x.rev >= floor /\ Satisfies(x.readiness, milestone)}
        cursor == good({x \in {MakeSnapshot(k, n)} : n.present})
    IN  cursor \cup {x \in good({v \in s.versions : v.key = k}) : \A c \in cursor : Identity(c) # Identity(x)}

\* The snapshot that answers a requirement: a set of at most one.
SelectSnapshot(s, q) ==
    LET n     == s.nodes[q.key]
        named == {x \in s.versions : x.key = q.key /\ x.rev = q.rev
                    /\ (q.gen = 0 \/ Identity(x) = Canonical(s, Version(q.key, q.rev, q.gen)))}
    IN  IF q.edge = "latest" \/ q.rev = 0 THEN Newest(Reached(s, q.key, q.rev, q.ready))
        ELSE IF named # {} THEN Newest(named)
        ELSE {x \in {MakeSnapshot(q.key, n)} :
                 n.present /\ n.produced = q.rev /\ q.gen \in {0, n.vgen}}

RequirementSatisfied(s, q)  == \E x \in SelectSnapshot(s, q) : Satisfies(x.readiness, q.ready)
DependenciesSatisfied(s, n) == \A q \in n.reqs : q.policy = "all" => RequirementSatisfied(s, q)
DependencySnapshots(s, n) ==
    UNION {{x \in SelectSnapshot(s, q) : Satisfies(x.readiness, q.ready)} : q \in n.reqs}

\* An address-level gate binds to the version that first opens it.
LatchReadyGates(s, n) ==
    LET latch(q) == LET S == Newest(Reached(s, q.key, 1, q.ready))
                    IN  IF q.edge = "gate" /\ q.rev = 0 /\ S # {}
                        THEN LET x == CHOOSE x \in S : TRUE IN [q EXCEPT !.rev = x.rev, !.gen = x.gen]
                        ELSE q
    IN  [n EXCEPT !.reqs = {latch(q) : q \in @}]

\* What an await sees of a version that may be archived, current, parked or unknown.
SnapshotExact(s, v) ==
    LET n == s.nodes[v.key]
    IN  IF Archived(s, v) # {} THEN CHOOSE x \in Archived(s, v) : TRUE
        ELSE IF n.present /\ v.rev \in {n.produced, n.rev} /\ n.vgen = v.gen
             THEN Snapshot(v.key, v.rev, v.gen, n.state)
        ELSE IF \E i \in DOMAIN n.successors : n.successors[i].rev = v.rev /\ n.successors[i].gen = v.gen
             THEN Snapshot(v.key, v.rev, v.gen, "Blocked")
        ELSE Snapshot(v.key, v.rev, v.gen, "Missing")

\* A running build's closure stays valid while every captured version holds its readiness.
DependenciesStillMatch(s, c) ==
    \A d \in c.deps :
        LET n == s.nodes[d.key]
        IN  IF n.present /\ n.produced = d.rev /\ n.vgen = d.gen THEN Satisfies(n.state, d.readiness)
            ELSE \E x \in Archived(s, Identity(d)) : Satisfies(x.readiness, d.readiness)

-----------------------------------------------------------------------------
(***************************************************************************)
(* Edges: pins on exact content, wake edges, cycles.                       *)
(***************************************************************************)
ExactVersions(reqs) == {Version(q.key, q.rev, q.gen) : q \in {r \in reqs : r.edge = "exact" /\ r.rev # 0}}
Pin(s, reqs)        == [s EXCEPT !.pins = @ (+) SetToBag(ExactVersions(reqs))]
Unpin(s, reqs)      == [s EXCEPT !.pins = @ (-) SetToBag(ExactVersions(reqs))]
HasExactDependent(s, v) == BagIn(v, s.pins) \/ BagIn(Version(v.key, v.rev, 0), s.pins)

Consumers(s, k) == {c \in Keys : k \in s.nodes[c].edges}

RemoveWaiterEdges(s, k) == [Unpin(s, s.nodes[k].reqs) EXCEPT !.nodes[k].edges = {}]
InstallWaiterEdges(s, k) ==
    LET n == s.nodes[k]
    IN  [Pin(s, n.reqs) EXCEPT !.nodes[k].edges = {q.key : q \in n.reqs \cup n.asked} \ {k}]

LatestOf(n) == {q.key : q \in {r \in n.asked : r.edge = "latest"}}
PruneCompletedWaiterEdges(n) == [n EXCEPT !.edges = @ \cap LatestOf(n)]

WakeWaiters(s, k) ==
    IF Consumers(s, k) = {} THEN s
    ELSE [s EXCEPT !.wakes = Append(@, [dep |-> k, consumers |-> Consumers(s, k)])]

\* What an address waits for; an archived version of the address itself is no cycle.
Needs(s, k, root) ==
    {q.key : q \in {r \in s.nodes[k].reqs :
        /\ r.policy = "all"
        /\ ~(r.key = k /\ k = root /\ r.edge = "exact" /\ r.gen # 0 /\ r.rev # s.nodes[k].rev
             /\ Archived(s, Version(r.key, r.rev, r.gen)) # {})}}

\* The addresses of one dependency cycle through k, or none.  Which of several the search
\* meets first does not matter to any address outside them.
DetectCycle(s, k) ==
    LET paths == {p \in UNION {[1..n -> Keys] : n \in 1..Cardinality(Keys)} :
                    /\ p[1] = k /\ IsInjective(p)
                    /\ \A i \in 1..Len(p) - 1 : p[i + 1] \in Needs(s, p[i], k)
                    /\ k \in Needs(s, p[Len(p)], k)}
    IN  IF paths = {} THEN {} ELSE Range(CHOOSE p \in paths : TRUE)

FailCycle(s, cycle) ==
    [s EXCEPT !.nodes = [k \in Keys |->
        IF k \in cycle /\ s.nodes[k].present
        THEN [s.nodes[k] EXCEPT !.terminal = TRUE, !.gen = @ + 1, !.retry = FALSE, !.state = "Failed"]
        ELSE s.nodes[k]]]

-----------------------------------------------------------------------------
(***************************************************************************)
(* The life of a node.                                                     *)
(***************************************************************************)
\* A state change that consumers and awaiters must learn of.
Publish(s, k) == WakeWaiters(Announce(StoreVersion(s, k), MakeSnapshot(k, s.nodes[k])), k)

QueueNode(s, k) ==
    LET n       == s.nodes[k]
        settled == \/ n.state \in {"Queued", "UploadSubmitted"}
                   \/ n.state = "CpuReady" /\ n.waiting # 0
                   \/ n.produced = n.rev /\ n.state \in {"GpuReady", "Published"}
        m       == LatchReadyGates(s, n)
        doomed  == \E q \in m.reqs : /\ q.policy = "all"
                                     /\ \E x \in SelectSnapshot(s, q) : x.readiness \in Terminal
    IN  IF ~n.desired \/ n.terminal \/ n.inFlight \/ settled THEN s
        ELSE IF DependenciesSatisfied(s, m)
             THEN [WithNode(s, k, [m EXCEPT !.state = "Queued"]) EXCEPT !.pending = Append(@, k)]
        ELSE IF doomed
             THEN Publish(WithNode(s, k, [m EXCEPT !.terminal = TRUE, !.state = "Failed"]), k)
        ELSE WithNode(s, k, [m EXCEPT !.state = "Blocked"])

QueueUnlessCyclic(s, k) ==
    LET cycle == DetectCycle(s, k) IN IF cycle # {} THEN FailCycle(s, cycle) ELSE QueueNode(s, k)

\* Makes r the version the cursor builds; the version it replaces stays in the archive.
Install(s, k, r) ==
    LET left == RemoveWaiterEdges(StoreVersion(s, k), k)
        n    == [left.nodes[k] EXCEPT
                    !.rev = r.rev, !.vgen = r.gen, !.gen = r.gen, !.reqs = r.reqs, !.asked = r.asked,
                    !.coalesce = r.coalesce, !.state = "Missing", !.produced = 0, !.used = {},
                    !.waiting = 0, !.terminal = FALSE, !.latestNeeded = FALSE,
                    !.superseded = FALSE, !.attempted = FALSE, !.retry = FALSE]
    IN  QueueUnlessCyclic(InstallWaiterEdges(WithNode(left, k, n), k), k)

PromoteSuccessor(s, k) ==
    LET n == s.nodes[k]
    IN  IF n.successors = <<>> \/ n.inFlight THEN s
        ELSE Install(Unpin([s EXCEPT !.nodes[k].successors = Tail(@), !.nodes[k].published = FALSE],
                           Head(n.successors).reqs), k, Head(n.successors))

ParkSuccessor(s, k, r) == Pin([s EXCEPT !.nodes[k].successors = Append(@, r)], r.reqs)

\* A consumer of a Latest edge that has finished is rebuilt as a version of its own.
QueueLatestSuccessor(s, k) ==
    LET n     == s.nodes[k]
        calm  == [s EXCEPT !.nodes[k].latestNeeded = FALSE]
        fresh == [rev |-> n.rev, gen |-> s.nextGen + 1, reqs |-> n.asked, asked |-> n.asked,
                  coalesce |-> n.coalesce]
    IN  IF n.inFlight \/ n.produced = 0 \/ n.state \notin {"UploadSubmitted", "GpuReady", "Published"}
        THEN s
        ELSE IF n.successors # <<>> THEN PromoteSuccessor(calm, k)
        ELSE PromoteSuccessor(ParkSuccessor([calm EXCEPT !.nextGen = @ + 1], k, fresh), k)

Advance(s, k) ==
    IF s.nodes[k].latestNeeded THEN QueueLatestSuccessor(s, k) ELSE PromoteSuccessor(s, k)

WakeWaiter(s, dep, k) ==
    LET n        == s.nodes[k]
        d        == s.nodes[dep]
        selected == \E q \in n.asked : q.key = dep /\ q.edge = "latest" /\ RequirementSatisfied(s, q)
        used     == d.present /\ \E x \in n.used : x.key = dep /\ x.rev = d.produced /\ x.gen = d.vgen
        newer    == selected /\ ~used
    IN  IF ~n.present THEN s
        ELSE IF newer /\ n.state \in {"UploadSubmitted", "GpuReady", "Published"} THEN QueueLatestSuccessor(s, k)
        ELSE QueueNode(IF newer /\ n.attempted THEN [s EXCEPT !.nodes[k].latestNeeded = TRUE] ELSE s, k)

-----------------------------------------------------------------------------
(***************************************************************************)
(* Client mutations, as the drain applies them.                            *)
(***************************************************************************)
\* A table entry: 0 when the <<address, revision>> has none.
Entry(table, kr) == IF kr \in DOMAIN table THEN table[kr] ELSE 0
Enter(table, kr, entry) == [x \in DOMAIN table \cup {kr} |-> IF x = kr THEN entry ELSE table[x]]
Without(table, kr) == [x \in DOMAIN table \ {kr} |-> table[x]]

\* Predicted handles already given out resolve to the installed version, and so do the
\* waiters and pins registered against them.
AliasPredicted(s, predicted, installed) ==
    IF predicted.gen \in {0, installed.gen} THEN s
    ELSE [s EXCEPT
            !.aliases = Enter(@, predicted, installed),
            !.waiters = {IF w.version = predicted THEN [w EXCEPT !.version = installed] ELSE w : w \in @},
            !.pins    = IF BagIn(predicted, @)
                        THEN (@ (-) (predicted :> @[predicted])) (+) (installed :> @[predicted]) ELSE @]

\* A refused prediction that names no installed version is archived as a Failed one.
RejectPredicted(s, r, gen, created) ==
    LET refused == Snapshot(r.key, r.rev, r.gen, "Failed")
        kr      == <<r.key, r.rev>>
        kept    == IF created THEN [s EXCEPT !.gens = Without(@, kr), !.reserved = Without(@, kr)] ELSE s
    IN  IF r.gen = 0 \/ (~created /\ r.gen = gen) THEN s ELSE Announce(Archive(kept, refused), refused)

\* The pins left when the recipes of the versions parked after the first m are let go.
PinsWithout(s, q, m) ==
    FoldSeq(LAMBDA r, pins : pins (-) SetToBag(ExactVersions(r.reqs)), s.pins, SubSeq(q, m + 1, Len(q)))

\* Latest-wins: the parked versions no exact consumer pinned give way, newest first.
CoalesceSuccessors(s, k) ==
    LET q       == s.nodes[k].successors
        left(m) == [s EXCEPT !.pins = PinsWithout(s, q, m)]
        stays   == {i \in 1..Len(q) : ~q[i].coalesce \/ HasExactDependent(left(i), Version(k, q[i].rev, q[i].gen))}
        last    == IF stays = {} THEN 0 ELSE Max(stays)
    IN  [left(last) EXCEPT !.nodes[k].successors = SubSeq(q, 1, last)]

\* The address is busy with an earlier version: r waits behind it, unless nothing has been
\* built of that version yet and nobody needs it.
EnqueueBehindActive(s, k, r) ==
    LET n      == s.nodes[k]
        active == Version(k, n.rev, n.vgen)
        merged == IF r.coalesce
                  THEN CoalesceSuccessors(
                         IF HasExactDependent(s, active) THEN s ELSE [s EXCEPT !.nodes[k].superseded = TRUE], k)
                  ELSE s
        parked == ParkSuccessor(merged, k, r)
        obsolete == /\ r.coalesce /\ ~n.inFlight /\ ~HasExactDependent(parked, active)
                    /\ n.state \in {"Missing", "Blocked", "Queued"}
    IN  IF obsolete \/ (n.state = "UploadSubmitted" /\ ~n.inFlight) THEN PromoteSuccessor(parked, k) ELSE parked

\* Requirements on predicted handles are on the versions these resolved to.
Resolved(s, reqs) ==
    {IF q.gen = 0 THEN q ELSE [q EXCEPT !.gen = Canonical(s, Version(q.key, q.rev, q.gen)).gen] : q \in reqs}

\* The node of an address, and the generation of a revision: the one it has, was predicted or
\* reserved, or a new one.
Reserve(s, r) ==
    LET kr     == <<r.key, r.rev>>
        minted == r.gen = 0 /\ Entry(s.gens, kr) = 0 /\ Entry(s.reserved, kr) = 0
        gen    == IF Entry(s.gens, kr) # 0 THEN s.gens[kr] ELSE IF r.gen # 0 THEN r.gen
                  ELSE IF minted THEN s.nextGen + 1 ELSE s.reserved[kr]
    IN  [s EXCEPT !.gens = Enter(@, kr, gen), !.nextGen = IF minted THEN @ + 1 ELSE @,
                  !.reserved = IF minted THEN Enter(@, kr, gen) ELSE @,
                  !.nodes[r.key].present = TRUE, !.nodes[r.key].desired = TRUE]

\* An identical request for a version that is gone from the archive is a new version.
Reborn(s, kr) ==
    LET g == s.nextGen + 1 IN [s EXCEPT !.nextGen = g, !.gens = Enter(@, kr, g), !.reserved = Enter(@, kr, g)]

\* r becomes what the address builds, or waits behind it.
Admit(s, r, reqs) ==
    LET kr       == <<r.key, r.rev>>
        g        == s.gens[kr]
        n        == s.nodes[r.key]
        entry    == [rev |-> r.rev, gen |-> g, reqs |-> reqs, asked |-> reqs, coalesce |-> r.coalesce]
        admitted == [AliasPredicted(s, Version(r.key, r.rev, r.gen), Version(r.key, r.rev, g))
                       EXCEPT !.recipes = Enter(@, kr, reqs), !.nodes[r.key].latestReq = r.rev]
        finished == n.produced = n.rev /\ n.state \in {"GpuReady", "Published"}
    IN  IF n.rev # 0 /\ ~finished THEN EnqueueBehindActive(admitted, r.key, entry)
        ELSE Install(admitted, r.key, entry)

RequestInternal(s0, r) ==
    LET kr     == <<r.key, r.rev>>
        reqs   == Resolved(s0, r.reqs)
        s      == Reserve(s0, r)
        gen    == s.gens[kr]
        n      == s.nodes[r.key]
        known  == kr \in DOMAIN s.recipes
        wanted == n.rev = r.rev \/ \E i \in DOMAIN n.successors : n.successors[i].rev = r.rev
        stale  == r.rev < n.latestReq /\ ~(known /\ wanted)
        reborn == known /\ Archived(s, Version(r.key, r.rev, gen)) = {}
    IN  IF (known /\ s.recipes[kr] # reqs) \/ stale
        THEN RejectPredicted(s, r, gen, Entry(s0.gens, kr) = 0)
        ELSE IF known /\ wanted THEN AliasPredicted(s, Version(r.key, r.rev, r.gen), Version(r.key, r.rev, gen))
        ELSE Admit(IF reborn THEN Reborn(s, kr) ELSE s, r, reqs)

\* Re-requests an address from the recipe of its newest version.
Invalidate(s, k, rev) ==
    LET q == s.nodes[k].successors
    IN  RequestInternal(s, [key |-> k, rev |-> rev, gen |-> 0, coalesce |-> FALSE,
                            reqs |-> IF q # <<>> THEN Last(q).reqs ELSE s.nodes[k].reqs])

CancelLocked(s, k) ==
    LET n     == s.nodes[k]
        left  == RemoveWaiterEdges(s, k)
        freed == [left EXCEPT !.pins = PinsWithout(left, n.successors, 0)]
    IN  IF ~n.present THEN s
        ELSE WithNode(freed, k, [freed.nodes[k] EXCEPT !.gen = @ + 1, !.desired = FALSE, !.successors = <<>>,
                                     !.retry = FALSE, !.waiting = 0, !.state = "Cancelled"])

\* Mutant: a node is erased under its running build.
EraseRunning(s, k) == IF Consumers(s, k) # {} THEN s ELSE WithNode(s, k, NoNode)
\* A node nothing needs is erased.
Erase(s, k) ==
    IF s.nodes[k].inFlight \/ Consumers(s, k) # {} THEN s ELSE WithNode(s, k, NoNode)
ReleaseLocked(s, k) == IF s.nodes[k].present THEN Erase(CancelLocked(s, k), k) ELSE s

\* Mutant: a version that ended is published all the same.
PublishableTerminal == {"UploadSubmitted", "GpuReady", "Published"} \cup Terminal
\* The milestones at which a version may be marked Published.
Publishable == {"UploadSubmitted", "GpuReady", "Published"}

MarkPublishedLocked(s, v) ==
    LET old    == {x \in Archived(s, v) : x.readiness \in Publishable \ {"Published"}}
        marked == IF old = {} THEN s ELSE Archive(s, Snapshot(v.key, v.rev, v.gen, "Published"))
        n      == s.nodes[v.key]
        cursor == /\ n.present /\ n.produced = v.rev /\ n.vgen = v.gen /\ n.state \in Publishable
                  /\ ~(n.published /\ n.state = "Published")
        m      == [n EXCEPT !.published = TRUE, !.state = IF @ = "GpuReady" THEN "Published" ELSE @]
        stored == IF cursor THEN WakeWaiters(StoreVersion(WithNode(marked, v.key, m), v.key), v.key) ELSE marked
    IN  IF old = {} THEN stored ELSE Announce(stored, CHOOSE x \in Archived(stored, v) : TRUE)

ApplyMutation(s, o) ==
    CASE o.op = "request"    -> RequestInternal(s, o)
      [] o.op = "invalidate" -> Invalidate(s, o.key, o.rev)
      [] o.op = "cancel"     -> CancelLocked(s, o.key)
      [] o.op = "release"    -> ReleaseLocked(s, o.key)
      [] o.op = "publish"    -> MarkPublishedLocked(s, Canonical(s, Version(o.key, o.rev, o.gen)))

-----------------------------------------------------------------------------
(***************************************************************************)
(* Completions and GPU progress.  gpu is the state of the result's         *)
(* submission set when the drain looks at it, or "none".                   *)
(***************************************************************************)
\* The milestone a node reaches, what everybody is told of it, and what follows.
Settle(s, k, state) ==
    LET told == Publish(WithState(s, k, state), k)
    IN  IF state = "CpuReady" THEN told ELSE Advance(told, k)

ApplyReady(s, c, gpu) ==
    LET k    == c.key
        n    == s.nodes[k]
        busy == gpu \in {"recorded", "submitted"}
        m    == [PruneCompletedWaiterEdges(n) EXCEPT
                    !.terminal = FALSE, !.retry = FALSE, !.suspended = FALSE, !.published = FALSE,
                    !.produced = c.rev, !.used = {d \in c.deps : d.key \in LatestOf(n)},
                    !.waiting = IF busy THEN c.gen ELSE 0]
        u    == [WithNode(s, k, m) EXCEPT
                    !.subscribing = IF busy THEN @ \cup {<<k, c.gen>>} ELSE @,
                    !.recovery    = IF busy /\ k \notin Notifying THEN @ \cup {k} ELSE @]
    IN  Settle(u, k, CASE gpu = "recorded"  -> "CpuReady"
                       [] gpu = "submitted" -> "UploadSubmitted"
                       [] OTHER             -> "GpuReady")

\* Replaces the recipe in force by one the producer asked for.
Rewire(s, k, reqs) ==
    LET left == RemoveWaiterEdges(s, k)
    IN  InstallWaiterEdges([left EXCEPT !.nodes[k].reqs = reqs, !.nodes[k].retry = FALSE], k)

ApplySuspension(s, c) ==
    LET id == <<c.key, c.gen>>
        u  == [s EXCEPT !.nodes[c.key].state = "Blocked", !.nodes[c.key].retry = FALSE,
                        !.nodes[c.key].suspended = id \notin s.latched]
    IN  IF id \in s.latched THEN QueueNode([u EXCEPT !.latched = @ \ {id}], c.key)
        ELSE [u EXCEPT !.parked = @ \cup {[id |-> id, rev |-> c.rev]}]

\* The version ended: consumers are woken, then the address moves on.
ApplyTermination(s, c, state) ==
    LET u == [s EXCEPT !.nodes[c.key].state = state,
                       !.nodes[c.key].terminal = IF state = "Failed" THEN TRUE ELSE @]
    IN  PromoteSuccessor(WakeWaiters(StoreVersion(
            Announce(u, Snapshot(c.key, c.rev, c.gen, state)), c.key), c.key), c.key)

ApplyCompletion(s, c, gpu) ==
    LET k     == c.key
        n     == s.nodes[k]
        idle  == [s EXCEPT !.nodes[k].inFlight = FALSE]
        live  == [idle EXCEPT !.nodes[k].terminal = FALSE]
        stale == \/ n.gen # c.gen \/ ~DependenciesStillMatch(s, c)
                 \/ c.rev # n.rev /\ c.outcome \in {"needs", "retry", "suspend", "suspendExact"}
        applied ==
            IF stale THEN QueueNode(idle, k)
            ELSE CASE c.outcome = "ready"     -> ApplyReady(idle, c, gpu)
                   [] c.outcome = "needs"     -> QueueUnlessCyclic(Rewire(live, k, c.reqs), k)
                   [] c.outcome = "retry"     -> [live EXCEPT !.nodes[k].state = "Blocked", !.nodes[k].retry = TRUE,
                                                              !.retries = @ \cup {<<k, c.gen>>}]
                   [] c.outcome = "suspend"   -> ApplySuspension(live, c)
                   [] c.outcome = "suspendExact" ->
                          QueueNode([Rewire(live, k, n.reqs \cup c.reqs) EXCEPT !.nodes[k].suspended = FALSE], k)
                   [] c.outcome = "cancelled" -> ApplyTermination(idle, c, "Cancelled")
                   [] c.outcome = "failed"    -> ApplyTermination(idle, c, "Failed")
    IN  IF ~n.present THEN s
        ELSE IF applied.nodes[k].desired THEN applied ELSE Erase(applied, k)

\* A result with an acceptance action that is still current is applied after the action ran.
NeedsAcceptance(s, c) ==
    /\ c.outcome = "ready" /\ c.key \in Accepting /\ ~c.accepted
    /\ s.nodes[c.key].present /\ s.nodes[c.key].gen = c.gen /\ DependenciesStillMatch(s, c)

ApplyGpu(s, k, gpu) ==
    LET n      == s.nodes[k]
        failed == [n EXCEPT !.terminal = TRUE, !.waiting = 0, !.state = "Failed"]
        upload == IF n.state = "CpuReady" THEN Publish(WithState(s, k, "UploadSubmitted"), k) ELSE s
        done   == Publish([upload EXCEPT !.nodes[k].waiting = 0,
                              !.nodes[k].state = IF n.published THEN "Published" ELSE "GpuReady"], k)
    IN  CASE gpu = "failed"    -> PromoteSuccessor(Publish(WithNode(s, k, failed), k), k)
          [] gpu = "complete"  -> PromoteSuccessor(done, k)
          [] gpu = "submitted" -> IF n.state = "CpuReady" THEN Advance(upload, k) ELSE s
          [] OTHER             -> s

-----------------------------------------------------------------------------
(***************************************************************************)
(* Clients.  An exact requirement names a version whose handle is held.    *)
(***************************************************************************)
engine == <<owed, graph, phase, timer, builds, completions, acceptances, token, subscribed, signals>>

Held(k, rev)  == {h \in handles : h.key = k /\ h.rev = rev}
HasHandles(reqs) == \A q \in reqs : (q.edge # "latest" /\ q.rev # 0) => Held(q.key, q.rev) # {}
Bind(q) == IF q.edge = "latest" \/ q.rev = 0 THEN q
           ELSE [q EXCEPT !.gen = (CHOOSE h \in Held(q.key, q.rev) : TRUE).gen]

PostRequest(o) ==
    /\ o \in todo /\ o.op = "request" /\ HasHandles(o.reqs)
    /\ LET kr  == <<o.key, o.rev>>
           new == Entry(graph.reserved, kr) = 0
           gen == IF new THEN graph.nextGen + 1 ELSE graph.reserved[kr]
       IN  /\ graph' = IF new THEN [graph EXCEPT !.nextGen = gen, !.reserved = Enter(@, kr, gen)] ELSE graph
           /\ posted' = Append(posted, [op |-> "request", key |-> o.key, rev |-> o.rev, gen |-> gen,
                                        reqs |-> {Bind(q) : q \in o.reqs}, coalesce |-> o.coalesce])
           /\ handles' = handles \cup {Version(o.key, o.rev, gen)}
    /\ todo' = todo \ {o} /\ scheduled' = TRUE
    /\ UNCHANGED <<awaits, notices, phase, timer, builds, completions, acceptances, token, subscribed,
                   signals, owed, fired>>

PostMutation(o) ==
    /\ o \in todo
    /\ \/ o.op \in {"invalidate", "cancel", "release"} /\ posted' = Append(posted, o)
       \/ /\ o.op = "publish"
          /\ \E h \in Held(o.key, o.rev) :
                posted' = Append(posted, [op |-> "publish", key |-> h.key, rev |-> h.rev, gen |-> h.gen])
    /\ todo' = todo \ {o} /\ scheduled' = TRUE
    /\ UNCHANGED <<handles, awaits, notices, engine, fired>>

AwaitExact(o) ==
    /\ o \in todo /\ o.op = "await"
    /\ \E h \in Held(o.key, o.rev) :
          awaits' = Append(awaits, [who |-> o.who, version |-> h, milestone |-> o.milestone, cancel |-> FALSE])
    /\ todo' = todo \ {o} /\ scheduled' = TRUE
    /\ UNCHANGED <<handles, posted, notices, engine, fired>>

\* An awaiter is cancelled through the object AwaitExact returned.
CancelAwait(o) ==
    /\ o \in todo /\ o.op = "unawait"
    /\ ~\E a \in todo : a.op = "await" /\ a.who = o.who
    /\ \E h \in Held(o.key, o.rev) :
          awaits' = Append(awaits, [who |-> o.who, version |-> h, milestone |-> "Missing", cancel |-> TRUE])
    /\ todo' = todo \ {o} /\ scheduled' = TRUE
    /\ UNCHANGED <<handles, posted, notices, engine, fired>>

NotifySuspensionSatisfied(id) ==
    /\ id \in owed /\ owed' = owed \ {id}
    /\ notices' = notices \cup {id} /\ scheduled' = TRUE
    /\ UNCHANGED <<todo, handles, posted, awaits, graph, phase, timer, builds, completions, acceptances,
                   token, subscribed, signals, fired>>

-----------------------------------------------------------------------------
(***************************************************************************)
(* The drain.  Phases: 1 awaits, 2 notices, 3 intents, 4 GPU signals,      *)
(* 5 retries, 6 completions, 7 waiter wakes, 8 builds.  The first three    *)
(* empty their queue; the others stop when the time budget is spent, the   *)
(* polls, the retries and the builds not before they have taken one entry. *)
(***************************************************************************)
MayEnter(p) ==
    /\ phase \in 1..p
    /\ phase = 1 /\ p > 1 => awaits = <<>>
    /\ phase <= 2 /\ p > 2 => notices = {}
    /\ phase <= 3 /\ p > 3 => posted = <<>>
    /\ phase <= 3 /\ p > 4 => graph.recovery = {}
    /\ phase <= 4 /\ p > 5 => graph.retries = {}
    /\ phase <= 7 /\ p > 8 => graph.pending = <<>>
InPhase(p) == MayEnter(p) /\ phase' = p

BeginDrain ==
    /\ phase = 0 /\ scheduled
    /\ phase' = 1 /\ scheduled' = FALSE
    /\ UNCHANGED <<todo, handles, queues, owed, graph, timer, builds, completions, acceptances, token,
                   subscribed, signals, fired>>

Callback(x) == IF x.readiness \in Terminal THEN "terminal" ELSE "reached"
\* Mutant: only the very milestone answers, not a later one.
AnswersExactly(x, w) == Identity(x) = w.version /\ (x.readiness \in Terminal \/ x.readiness = w.milestone)
Answers(x, w) == Identity(x) = w.version /\ (x.readiness \in Terminal \/ Satisfies(x.readiness, w.milestone))

ApplyPostedAwait ==
    /\ InPhase(1) /\ awaits # <<>>
    /\ LET a == Head(awaits)
           w == [who |-> a.who, version |-> Canonical(graph, a.version), milestone |-> a.milestone]
           mine == {x \in graph.waiters : x.who = a.who /\ x.version = w.version}
           x == SnapshotExact(graph, w.version)
       IN  \/ /\ a.cancel
              /\ graph' = [graph EXCEPT !.waiters = @ \ mine,
                                        !.dropped = IF mine = {} THEN @ \cup {a.who} ELSE @]
              /\ UNCHANGED fired
           \/ /\ ~a.cancel /\ a.who \notin graph.dropped /\ Answers(x, w)
              /\ fired' = [fired EXCEPT ![a.who] = Append(@, Callback(x))]
              /\ UNCHANGED graph
           \/ /\ ~a.cancel /\ (a.who \in graph.dropped \/ ~Answers(x, w))
              /\ graph' = IF a.who \in graph.dropped THEN [graph EXCEPT !.dropped = @ \ {a.who}]
                          ELSE [graph EXCEPT !.waiters = @ \cup {w}]
              /\ UNCHANGED fired
    /\ awaits' = Tail(awaits)
    /\ UNCHANGED <<todo, handles, posted, notices, owed, scheduled, timer, builds, completions, acceptances,
                   token, subscribed, signals>>

\* A notification that comes before its suspension is remembered.
SuspensionSatisfied(s, id) ==
    LET k    == id[1]
        n    == s.nodes[k]
        mine == {x \in s.parked : x.id = id}
        u    == [s EXCEPT !.parked = @ \ mine]
    IN  IF mine = {} THEN [s EXCEPT !.latched = @ \cup {id}]
        ELSE IF n.present /\ n.gen = id[2] /\ n.suspended /\ \A x \in mine : x.rev = n.rev
             THEN QueueNode([u EXCEPT !.nodes[k].suspended = FALSE], k)
        ELSE u

ApplyPostedSuspension ==
    /\ InPhase(2)
    /\ \E id \in notices :
          /\ graph' = SuspensionSatisfied(graph, id)
          /\ notices' = notices \ {id}
    /\ UNCHANGED <<todo, handles, posted, awaits, owed, scheduled, timer, builds, completions, acceptances,
                   token, subscribed, signals, fired>>

ApplyPostedIntent ==
    /\ InPhase(3) /\ posted # <<>>
    /\ graph' = ApplyMutation(graph, Head(posted))
    /\ posted' = Tail(posted)
    /\ UNCHANGED <<todo, handles, awaits, notices, owed, scheduled, timer, builds, completions, acceptances,
                   token, subscribed, signals, fired>>

\* A signal, or the poll of a node whose notifications are not authoritative.
ApplyGpuSignal ==
    /\ InPhase(4)
    /\ \E k \in signals \cup (graph.recovery \ graph.polled) :
          LET n     == graph.nodes[k]
              waits == n.present /\ n.state \in {"CpuReady", "UploadSubmitted"} /\ n.waiting # 0
              u     == [graph EXCEPT !.polled = @ \cup {k}, !.recovery = IF waits THEN @ ELSE @ \ {k}]
          IN  /\ graph' = IF waits THEN ApplyGpu(u, k, token[<<k, n.waiting>>]) ELSE u
              /\ signals' = signals \ {k}
    /\ UNCHANGED <<todo, handles, queues, owed, scheduled, timer, builds, completions, acceptances, token,
                   subscribed, fired>>

\* The deadline of the earliest retry has passed, or its node has moved on.
ApplyRetry ==
    /\ InPhase(5) /\ ~graph.delayed
    /\ \E r \in graph.retries :
          LET k    == r[1]
              n    == graph.nodes[k]
              u    == [graph EXCEPT !.retries = @ \ {r}]
          IN  graph' = IF n.present /\ n.gen = r[2] /\ n.retry
                       THEN QueueNode([u EXCEPT !.nodes[k].retry = FALSE], k) ELSE u
    /\ UNCHANGED <<todo, handles, queues, owed, scheduled, timer, builds, completions, acceptances, token,
                   subscribed, signals, fired>>

\* The earliest retry is not due: the drain will come back for it.
AwaitRetry ==
    /\ InPhase(5)
    /\ \E r \in graph.retries : graph.nodes[r[1]].gen = r[2] /\ graph.nodes[r[1]].retry
    /\ ~graph.delayed /\ graph' = [graph EXCEPT !.delayed = TRUE]
    /\ UNCHANGED <<todo, handles, queues, owed, scheduled, timer, builds, completions, acceptances, token,
                   subscribed, signals, fired>>

ApplyNextCompletion ==
    /\ InPhase(6) /\ completions # <<>>
    /\ LET c0  == Head(completions)
           gpu == IF c0.outcome = "ready" /\ c0.key \in GpuKeys THEN token[<<c0.key, c0.gen>>] ELSE "none"
           c   == IF gpu = "failed" THEN [c0 EXCEPT !.outcome = "failed"] ELSE c0
       IN  graph' = IF NeedsAcceptance(graph, c) THEN [graph EXCEPT !.accepting = @ \cup {c}]
                    ELSE ApplyCompletion(graph, c, gpu)
    /\ completions' = Tail(completions)
    /\ UNCHANGED <<todo, handles, queues, owed, scheduled, timer, builds, acceptances, token, subscribed,
                   signals, fired>>

\* A consumer is evaluated once per drain, however many of its dependencies changed.
ApplyWake ==
    /\ InPhase(7) /\ graph.wakes # <<>>
    /\ LET wake == Head(graph.wakes)
       IN  \E k \in wake.consumers :
             LET rest == wake.consumers \ {k}
                 u    == [graph EXCEPT !.woken = @ \cup {k},
                             !.wakes = IF rest = {} THEN Tail(@) ELSE [@ EXCEPT ![1].consumers = rest]]
             IN  graph' = IF k \in graph.woken THEN u ELSE WakeWaiter(u, wake.dep, k)
    /\ UNCHANGED <<todo, handles, queues, owed, scheduled, timer, builds, completions, acceptances, token,
                   subscribed, signals, fired>>

\* A queued node's recipe may have been replaced since it was queued.
StartBuild ==
    /\ InPhase(8) /\ graph.pending # <<>>
    /\ LET k == Head(graph.pending)
           u == [graph EXCEPT !.pending = Tail(@)]
           m == LatchReadyGates(u, u.nodes[k])
           b == [key |-> k, rev |-> m.rev, gen |-> m.gen, deps |-> DependencySnapshots(u, m), first |-> ~m.attempted]
       IN  graph' = IF ~m.present \/ m.state # "Queued" \/ m.inFlight THEN u
                    ELSE IF ~DependenciesSatisfied(u, m) THEN WithNode(u, k, [m EXCEPT !.state = "Blocked"])
                    ELSE [WithNode(u, k, [m EXCEPT !.inFlight = TRUE, !.attempted = TRUE, !.state = "Preparing"])
                             EXCEPT !.starting = @ \cup {b}]
    /\ UNCHANGED <<todo, handles, queues, owed, scheduled, timer, builds, completions, acceptances, token,
                   subscribed, signals, fired>>

\* Mutant: wakes left over by the time budget are forgotten.
HasImmediateWorkUnwoken ==
    \/ awaits # <<>> \/ posted # <<>> \/ notices # {} \/ completions # <<>> \/ signals # {}
    \/ graph.pending # <<>> \/ graph.subscribing # {}
\* Work this drain leaves behind that no other thread will announce.
HasImmediateWork ==
    \/ awaits # <<>> \/ posted # <<>> \/ notices # {} \/ completions # <<>> \/ signals # {}
    \/ graph.pending # <<>> \/ graph.wakes # <<>> \/ graph.subscribing # {}

\* The first snapshot of this drain that answers an exact waiter runs its callback.
FinishDrain ==
    /\ MayEnter(9)
    /\ LET answered == {w \in graph.waiters : \E i \in DOMAIN graph.ready : Answers(graph.ready[i], w)}
           first(w) == SelectSeq(graph.ready, LAMBDA x : Answers(x, w))[1]
           of(who)  == {w \in answered : w.who = who}
       IN  /\ fired' = [who \in Awaiters |->
                           IF of(who) = {} THEN fired[who]
                           ELSE Append(fired[who], Callback(first(CHOOSE w \in of(who) : TRUE)))]
           /\ graph' = [graph EXCEPT !.waiters = @ \ answered, !.ready = <<>>, !.woken = {}, !.polled = {},
                                     !.starting = {}, !.accepting = {}, !.subscribing = {}, !.delayed = FALSE]
    /\ phase' = 0
    /\ subscribed' = subscribed \cup graph.subscribing
    /\ signals' = signals \cup {t[1] : t \in graph.subscribing}
    /\ builds' = builds \cup graph.starting
    /\ acceptances' = acceptances \cup graph.accepting
    /\ scheduled' = (scheduled \/ HasImmediateWork)
    /\ timer' = (timer \/ (~HasImmediateWork /\ (graph.delayed \/ graph.recovery # {})))
    /\ UNCHANGED <<todo, handles, queues, owed, completions, token>>

DelayedDrain ==
    /\ timer /\ timer' = FALSE /\ scheduled' = TRUE
    /\ UNCHANGED <<todo, handles, queues, owed, graph, phase, builds, completions, acceptances, token,
                   subscribed, signals, fired>>

-----------------------------------------------------------------------------
(***************************************************************************)
(* Producers, acceptance mailboxes and the GPU.                            *)
(***************************************************************************)
\* A producer returns; one that was superseded may give up instead.  What it discovers while
\* building, and a suspension, it meets on its first attempt at a version.
FinishBuild(b) ==
    /\ b \in builds /\ builds' = builds \ {b}
    /\ \E o \in Outcomes[b.key] \cup (IF graph.nodes[b.key].superseded THEN {"cancelled"} ELSE {}) :
          /\ o \in {"needs", "suspend", "suspendExact"} => b.first
          /\ o \in {"needs", "suspendExact"} => HasHandles(Later[b.key])
          /\ completions' = Append(completions,
                [key |-> b.key, rev |-> b.rev, gen |-> b.gen, deps |-> b.deps, outcome |-> o, accepted |-> FALSE,
                 reqs |-> IF o \in {"needs", "suspendExact"} THEN {Bind(q) : q \in Later[b.key]} ELSE {}])
          /\ owed' = IF o = "suspend" THEN owed \cup {<<b.key, b.gen>>} ELSE owed
          /\ token' = IF o = "ready" /\ b.key \in GpuKeys THEN Enter(token, <<b.key, b.gen>>, "recorded") ELSE token
    /\ scheduled' = TRUE
    /\ UNCHANGED <<todo, handles, queues, graph, phase, timer, acceptances, subscribed, signals, fired>>

\* The acceptance action ran, or threw.
ApplyAcceptance(c) ==
    /\ c \in acceptances /\ acceptances' = acceptances \ {c}
    /\ \E o \in {"ready", "failed"} :
          completions' = Append(completions, [c EXCEPT !.accepted = TRUE, !.outcome = o])
    /\ scheduled' = TRUE
    /\ UNCHANGED <<todo, handles, queues, owed, graph, phase, timer, builds, token, subscribed, signals, fired>>

\* A submission set is submitted, completes or fails, and tells its subscriber.
GpuProgress(t) ==
    /\ \/ token[t] = "recorded"  /\ \E x \in {"submitted", "failed"} : token' = [token EXCEPT ![t] = x]
       \/ token[t] = "submitted" /\ \E x \in {"complete", "failed"} : token' = [token EXCEPT ![t] = x]
    /\ LET tells == t \in subscribed /\ t[1] \in Notifying
       IN  /\ signals' = IF tells THEN signals \cup {t[1]} ELSE signals
           /\ scheduled' = (scheduled \/ tells)
    /\ UNCHANGED <<todo, handles, queues, owed, graph, phase, timer, builds, completions, acceptances,
                   subscribed, fired>>

Client  == \E o \in todo : PostRequest(o) \/ PostMutation(o) \/ AwaitExact(o) \/ CancelAwait(o)
Drain   == \/ BeginDrain \/ ApplyPostedAwait \/ ApplyPostedSuspension \/ ApplyPostedIntent
           \/ ApplyGpuSignal \/ ApplyRetry \/ AwaitRetry \/ ApplyNextCompletion \/ ApplyWake
           \/ StartBuild \/ FinishDrain \/ DelayedDrain
Outside == \/ \E b \in builds : FinishBuild(b)
           \/ \E c \in acceptances : ApplyAcceptance(c)
           \/ \E t \in DOMAIN token : GpuProgress(t)
           \/ \E id \in owed : NotifySuspensionSatisfied(id)

Next == Client \/ Drain \/ Outside
Spec == Init /\ [][Next]_vars

-----------------------------------------------------------------------------
(***************************************************************************)
(* Properties.                                                             *)
(***************************************************************************)
\* The cursor, the archive and the queues hold what their types say; a node that is not
\* present is the blank one.
TypeOK ==
    /\ \A k \in Keys : LET n == graph.nodes[k] IN
          /\ n.state \in Readiness /\ (~n.present => n = NoNode)
          /\ n.edges \subseteq Keys \ {k}
    /\ \A x \in graph.versions : x.readiness \in Readiness /\ x.rev > 0 /\ x.gen \in 1..graph.nextGen
    /\ Range(graph.pending) \subseteq Keys /\ signals \subseteq GpuKeys
    /\ phase \in 0..8 /\ scheduled \in BOOLEAN /\ timer \in BOOLEAN

Idle == phase = 0 /\ ~scheduled

\* buildInFlight is the drain's only record of a producer task it cannot see: it is set exactly
\* while one build of the address is starting, running, in an acceptance mailbox or completed
\* and not yet applied, so no address is ever built twice at once and none waits for a build
\* that is over (Drain, ApplyCompletion, ReleaseLocked).  The variables have their types.
OneBuildPerAddress ==
    /\ TypeOK
    /\ \A k \in Keys :
        Cardinality({b \in graph.starting \cup builds : b.key = k})
        + Cardinality({c \in graph.accepting \cup acceptances : c.key = k})
        + Cardinality({i \in DOMAIN completions : completions[i].key = k})
        = IF graph.nodes[k].inFlight THEN 1 ELSE 0

\* What the drain itself has seen reach a milestone: a version a client marks Published after
\* the cursor has moved on wakes nobody (MarkPublishedLocked).
Noticed(s) ==
    [s EXCEPT !.versions = {x \in @ : x.readiness = "Published" =>
                               s.nodes[x.key].produced = x.rev /\ s.nodes[x.key].vgen = x.gen}]

\* A drain that is not scheduled again has left nothing behind: every queue is empty, a Blocked
\* node really waits for something outside the drain, nothing is Queued, and no finished
\* version holds up a successor (hasImmediateWork, WakeWaiters, PromoteSuccessor).
NothingIsForgotten ==
    Idle =>
        /\ awaits = <<>> /\ posted = <<>> /\ notices = {} /\ completions = <<>> /\ signals = {}
        /\ graph.pending = <<>> /\ graph.wakes = <<>> /\ graph.ready = <<>>
        /\ \A k \in Keys : LET n == graph.nodes[k] IN
              /\ n.state # "Queued"
              /\ n.state = "Blocked" /\ n.desired /\ ~n.retry /\ ~n.suspended
                    => ~DependenciesSatisfied(Noticed(graph), n)
              /\ n.state \in {"UploadSubmitted", "GpuReady", "Published"} => n.successors = <<>>

\* AwaitExact runs at most one of its callables, once, and once the graph is idle no waiter is
\* left on a version that reached its milestone (ApplyPostedAwaits, the exact-waiter loop).
AwaitersAreServed ==
    /\ \A w \in Awaiters : Len(fired[w]) <= 1
    /\ Idle => \A w \in graph.waiters : ~Satisfies(SnapshotExact(graph, w.version).readiness, w.milestone)

\* An archived version that its address builds anew, under the generation it has: released or
\* cancelled, and requested again (the reborn case of RequestInternal is for the others).
Unbuilt == {"Missing", "Blocked", "Queued", "Preparing"}
Rebuilding(s, x) ==
    LET n == s.nodes[x.key] IN n.rev = x.rev /\ n.vgen = x.gen /\ n.state \in Unbuilt
Follows(next, last) == next \in Terminal \/ (last \notin Terminal /\ Satisfies(next, last))

\* An archived version is immutable, unless it is being built anew: it stays, its readiness only
\* rises until it ends, and a version that ended never becomes ready (StoreVersion,
\* MarkPublishedLocked, the refusals of RequestInternal).
VersionsAreImmutable ==
    [][\A x \in graph.versions : \E y \in graph'.versions :
          Identity(y) = Identity(x) /\ (Rebuilding(graph, x) \/ Follows(y.readiness, x.readiness))]_vars

\* A retry comes back by itself: an idle graph that holds a live retry has a timer running for
\* it (the RetryAfter case of ApplyCompletion, retryDelay, WaitIdle).
RetriesComeBack ==
    Idle /\ graph.retries # {} =>
        \/ timer
        \/ \A r \in graph.retries : ~(graph.nodes[r[1]].retry /\ graph.nodes[r[1]].gen = r[2])

\* A producer's failure reaches whoever requires exactly that version: an idle graph has no
\* consumer Blocked on a version that Failed (the Failed case of ApplyCompletion).
FailureReachesDependents ==
    Idle => \A k \in Keys : LET n == graph.nodes[k] IN
        n.desired /\ n.state = "Blocked" =>
            \A q \in n.reqs : q.edge = "exact" /\ q.policy = "all" =>
                SnapshotExact(graph, Canonical(graph, Version(q.key, q.rev, q.gen))).readiness # "Failed"

\* A request after a cancellation is not left at that: an idle graph has no address that is desired
\* and Cancelled, whether the request is for the version cancelled or for the next one, which
\* waits behind it (stillDesired and EnqueueBehindActive of RequestInternal).
CancelledAreRevived ==
    Idle => \A k \in Keys : graph.nodes[k].desired => graph.nodes[k].state # "Cancelled"

=============================================================================
