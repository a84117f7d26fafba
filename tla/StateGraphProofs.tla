-------------------------- MODULE StateGraphProofs --------------------------
(***************************************************************************)
(* The safety of StateGraph, for any addresses, scenarios, outcomes and    *)
(* awaiters: an address is never built twice at once, and an archived      *)
(* version is immutable.                                                   *)
(*                                                                         *)
(* The first follows from the inductive invariant IInv of four parts:      *)
(*   - GraphOK: the state the drain owns is well formed: nodes, archive,   *)
(*     tables and queues hold what they should, and a version that the     *)
(*     cursor builds or has produced has a generation;                     *)
(*   - FlightInv: a node is in flight while exactly one of its builds,     *)
(*     acceptances and completions is under way;                           *)
(*   - KnownInv: what is built of a version is built of one that has a     *)
(*     generation, so that what it produces may be archived;               *)
(*   - ClientInv: what the queues of other threads hold.                   *)
(*                                                                         *)
(* A drain step applies operators to the graph one after the other.  Each  *)
(* of them is Sound: it maps a well formed graph to a well formed one in   *)
(* which the same builds are under way.  Only releasing an address erases  *)
(* a node, which Applied allows for a node that nothing builds.            *)
(*                                                                         *)
(* The second is an action property: it needs an invariant of its own,     *)
(* AInv, inductive together with IInv:                                     *)
(*   - ArchiveOK: the archive has one entry per version, and no cursor     *)
(*     that may be archived again is behind the entry of its version;      *)
(*   - AimInv: what is under way is of the version its cursor is for;      *)
(*   - PromisedInv: a generation a client was promised is the one its      *)
(*     revision has, if the address names it at all.                       *)
(* The operators of a drain step are each Faithful to the graph the step   *)
(* began with, as they are Sound.                                          *)
(***************************************************************************)
EXTENDS StateGraph, FiniteSetTheorems, SequenceTheorems, WellFoundedInduction, TLAPS

\* The records are typed field by field: only the fields the proofs need.
NodeFields == {"present", "desired", "rev", "latestReq", "produced", "gen", "vgen", "state", "reqs", "asked",
               "edges", "used", "waiting", "inFlight", "attempted", "terminal", "published", "latestNeeded",
               "coalesce", "superseded", "retry", "suspended", "successors"}
GraphFields == {"nodes", "versions", "aliases", "gens", "reserved", "recipes", "nextGen", "pins", "pending",
                "wakes", "retries", "waiters", "dropped", "latched", "parked", "recovery", "woken", "polled",
                "ready", "starting", "accepting", "subscribing", "delayed"}

\* What the archive, the queues of a node and the wake list hold, when g generations are minted.
Recipe        == SUBSET Requirement
Versions      == [key : Keys, rev : Nat, gen : Nat]
Snapshots     == [key : Keys, rev : Nat, gen : Nat, readiness : Readiness]
Archivable(g) == [key : Keys, rev : Nat \ {0}, gen : 1..g, readiness : Readiness]
Parked(g)     == [rev : Nat, gen : 1..g, reqs : Recipe, asked : Recipe, coalesce : BOOLEAN]
Wakes         == [dep : Keys, consumers : SUBSET Keys]

\* A node of k; one that is not present is blank.
NodeOK(n, k, g) ==
    /\ DOMAIN n = NodeFields
    /\ n.state \in Readiness /\ n.edges \in SUBSET (Keys \ {k})
    /\ n.rev \in Nat /\ n.produced \in Nat /\ n.vgen \in 0..g
    /\ n.rev # 0 \/ n.produced # 0 => n.vgen # 0
    /\ n.reqs \in Recipe /\ n.asked \in Recipe
    /\ n.successors \in Seq(Parked(g))
    /\ n.coalesce \in BOOLEAN /\ n.gen \in Nat
    /\ ~n.present => n = NoNode

NodesOK(s) ==
    /\ DOMAIN s = GraphFields /\ DOMAIN s.nodes = Keys /\ s.nextGen \in Nat
    /\ \A k \in Keys : NodeOK(s.nodes[k], k, s.nextGen)
TablesOK(s) ==
    /\ s.versions \in SUBSET Archivable(s.nextGen)
    /\ \A x \in DOMAIN s.gens : s.gens[x] \in 1..s.nextGen
    /\ \A x \in DOMAIN s.reserved : s.reserved[x] \in 1..s.nextGen
    /\ \A x \in DOMAIN s.aliases : s.aliases[x] \in Versions
QueuesOK(s) ==
    /\ s.pending \in Seq(Keys) /\ s.wakes \in Seq(Wakes)
    /\ \A r \in s.retries : r[1] \in Keys
    /\ s.recovery \in SUBSET Keys
    /\ \A t \in s.subscribing : t[1] \in GpuKeys
GraphOK(s) == NodesOK(s) /\ TablesOK(s) /\ QueuesOK(s)

\* What clients post, and what a producer's completion may report.
Postable(g) ==
    [op : {"request"}, key : Keys, rev : Nat \ {0}, gen : 0..g, reqs : Recipe, coalesce : BOOLEAN]
    \cup [op : {"invalidate"}, key : Keys, rev : Nat \ {0}]
    \cup [op : {"cancel", "release"}, key : Keys]
    \cup [op : {"publish"}, key : Keys, rev : Nat, gen : Nat]
Reports == Outcome \cup {"cancelled"}

\* Builds under way, and completions before and after their acceptance.
Started   == [key : Keys, rev : Nat, gen : Nat, deps : SUBSET Snapshots, first : BOOLEAN]
Completed == [key : Keys, rev : Nat, gen : Nat, deps : SUBSET Snapshots, outcome : Reports,
              accepted : BOOLEAN, reqs : Recipe]

\* The producer tasks, acceptance actions and completions of an address under way.
InBuild(k)  == {b \in graph.starting \cup builds : b.key = k}
InAccept(k) == {c \in graph.accepting \cup acceptances : c.key = k}
InDone(k)   == {i \in DOMAIN completions : completions[i].key = k}
One(S)      == \E x \in S : S = {x}

\* buildInFlight says that one of them is there, and which it may be.
FlightOf(k) ==
    IF graph.nodes[k].inFlight
    THEN \/ One(InBuild(k)) /\ InAccept(k) = {} /\ InDone(k) = {}
         \/ InBuild(k) = {} /\ One(InAccept(k)) /\ InDone(k) = {}
         \/ InBuild(k) = {} /\ InAccept(k) = {} /\ One(InDone(k))
    ELSE InBuild(k) = {} /\ InAccept(k) = {} /\ InDone(k) = {}

FlightInv ==
    /\ graph.starting \in SUBSET Started /\ builds \in SUBSET Started
    /\ graph.accepting \in SUBSET Completed /\ acceptances \in SUBSET Completed
    /\ completions \in Seq(Completed)
    /\ graph.starting \cap builds = {} /\ graph.accepting \cap acceptances = {}
    /\ \A k \in Keys : FlightOf(k)

\* What is built of a version is built of one that has a generation.
Known(x) == x.rev # 0 => graph.nodes[x.key].vgen # 0
KnownInv ==
    /\ \A b \in graph.starting \cup builds : Known(b)
    /\ \A c \in graph.accepting \cup acceptances : Known(c)
    /\ \A i \in 1..Len(completions) : Known(completions[i])

\* What the other threads put into their queues.
ClientInv ==
    /\ todo \in SUBSET Operation /\ handles \in SUBSET Versions
    /\ posted \in Seq(Postable(graph.nextGen))
    /\ \A id \in notices \cup owed : id[1] \in Keys
    /\ signals \in SUBSET GpuKeys
    /\ phase \in 0..8 /\ scheduled \in BOOLEAN /\ timer \in BOOLEAN

IInv == GraphOK(graph) /\ FlightInv /\ KnownInv /\ ClientInv

-----------------------------------------------------------------------------
\* u has the same builds under way as s, and whatever node or generation s has.
Kept(s, u) ==
    /\ u.starting = s.starting /\ u.accepting = s.accepting /\ s.nextGen <= u.nextGen
    /\ \A k \in Keys : /\ u.nodes[k].inFlight = s.nodes[k].inFlight
                       /\ s.nodes[k].present => u.nodes[k].present
                       /\ s.nodes[k].vgen # 0 => u.nodes[k].vgen # 0
Sound(s, u) == GraphOK(u) /\ Kept(s, u)

\* The fields that most operators leave alone.
SameTables(s, u) == /\ u.versions = s.versions /\ u.gens = s.gens /\ u.reserved = s.reserved
                    /\ u.aliases = s.aliases /\ u.starting = s.starting /\ u.accepting = s.accepting
SameQueues(s, u) == /\ u.pending = s.pending /\ u.wakes = s.wakes /\ u.retries = s.retries
                    /\ u.recovery = s.recovery /\ u.subscribing = s.subscribing

(* Every state is sound for itself, and soundness composes along the steps *)
(* of an operation.                                                        *)
LEMMA SoundRefl == ASSUME NEW s, GraphOK(s) PROVE Sound(s, s)
  BY DEF Sound, Kept, GraphOK, NodesOK

LEMMA SoundTrans == ASSUME NEW s, NEW u, NEW v, GraphOK(s), Sound(s, u), Sound(u, v) PROVE Sound(s, v)
<1>1. s.nextGen \in Nat /\ u.nextGen \in Nat /\ v.nextGen \in Nat
  BY DEF Sound, GraphOK, NodesOK
<1> QED
  BY <1>1 DEF Sound, Kept

(* A node and the tables stay well formed when generations have been       *)
(* minted since.                                                           *)
LEMMA NodeGrows ==
  ASSUME NEW n, NEW k, NEW g \in Nat, NEW h \in Nat, g <= h, NodeOK(n, k, g)
  PROVE  NodeOK(n, k, h)
<1>1. 0..g \subseteq 0..h /\ 1..g \subseteq 1..h
  OBVIOUS
<1>2. Parked(g) \subseteq Parked(h)
  BY <1>1 DEF Parked
<1>3. Seq(Parked(g)) \subseteq Seq(Parked(h))
  BY <1>2
<1> QED
  BY <1>1, <1>3 DEF NodeOK

LEMMA TablesGrow ==
  ASSUME NEW s, NEW u, SameTables(s, u), s.nextGen \in Nat, u.nextGen \in Nat, s.nextGen <= u.nextGen, TablesOK(s)
  PROVE  TablesOK(u)
<1>1. 1..s.nextGen \subseteq 1..u.nextGen
  OBVIOUS
<1>2. Archivable(s.nextGen) \subseteq Archivable(u.nextGen)
  BY <1>1 DEF Archivable
<1> QED
  BY <1>1, <1>2 DEF TablesOK, SameTables

(* One node changes, and the rest stays.                                   *)
LEMMA NodeStep ==
  ASSUME NEW s, GraphOK(s), NEW k \in Keys, NEW u,
         DOMAIN u = GraphFields, DOMAIN u.nodes = Keys, u.nextGen \in Nat, s.nextGen <= u.nextGen,
         \A d \in Keys \ {k} : u.nodes[d] = s.nodes[d],
         NodeOK(u.nodes[k], k, u.nextGen),
         u.nodes[k].inFlight = s.nodes[k].inFlight, s.nodes[k].present => u.nodes[k].present,
         s.nodes[k].vgen # 0 => u.nodes[k].vgen # 0,
         SameTables(s, u), QueuesOK(u)
  PROVE  Sound(s, u)
<1>0. s.nextGen \in Nat
  BY DEF GraphOK, NodesOK
<1>1. NodesOK(u)
  <2>1. \A d \in Keys : NodeOK(u.nodes[d], d, u.nextGen)
    BY <1>0, NodeGrows DEF GraphOK, NodesOK
  <2> QED
    BY <2>1 DEF NodesOK
<1>2. TablesOK(u)
  BY <1>0, TablesGrow DEF GraphOK
<1>3. Kept(s, u)
  BY DEF Kept, SameTables
<1> QED
  BY <1>1, <1>2, <1>3 DEF Sound, GraphOK

(* Nothing changes that the invariant is about but the queues.             *)
LEMMA QueueStep ==
  ASSUME NEW s, GraphOK(s), NEW u,
         DOMAIN u = GraphFields, u.nodes = s.nodes, u.nextGen = s.nextGen, SameTables(s, u), QueuesOK(u)
  PROVE  Sound(s, u)
<1>1. NodesOK(u) /\ TablesOK(u)
  BY TablesGrow DEF GraphOK, NodesOK
<1>2. Kept(s, u)
  BY DEF Kept, SameTables, GraphOK, NodesOK
<1> QED
  BY <1>1, <1>2 DEF Sound, GraphOK

(* Replacing a node by a well formed one that keeps what is in flight.     *)
LEMMA WithNodeSound ==
  ASSUME NEW s, GraphOK(s), NEW k \in Keys, NEW n, NodeOK(n, k, s.nextGen),
         n.inFlight = s.nodes[k].inFlight, s.nodes[k].present => n.present, s.nodes[k].vgen # 0 => n.vgen # 0
  PROVE  /\ Sound(s, WithNode(s, k, n)) /\ WithNode(s, k, n).nodes[k] = n
         /\ WithNode(s, k, n).nextGen = s.nextGen
<1> DEFINE u == WithNode(s, k, n)
<1>1. DOMAIN s = GraphFields /\ DOMAIN s.nodes = Keys /\ s.nextGen \in Nat
  BY DEF GraphOK, NodesOK
<1>2. /\ DOMAIN u = GraphFields /\ DOMAIN u.nodes = Keys /\ u.nextGen = s.nextGen /\ u.nodes[k] = n
      /\ \A d \in Keys \ {k} : u.nodes[d] = s.nodes[d]
      /\ SameTables(s, u) /\ SameQueues(s, u)
  BY <1>1 DEF WithNode, GraphFields, SameTables, SameQueues
<1> HIDE DEF u
<1>3. QueuesOK(u)
  BY <1>2 DEF GraphOK, QueuesOK, SameQueues
<1>4. Sound(s, u)
  BY <1>1, <1>2, <1>3, NodeStep
<1> QED
  BY <1>2, <1>4 DEF u

(* The pins of exact content are no part of the invariant.                 *)
LEMMA PinSound ==
  ASSUME NEW s, GraphOK(s), NEW pins
  PROVE  LET u == [s EXCEPT !.pins = pins]
         IN  Sound(s, u) /\ u.nodes = s.nodes /\ u.nextGen = s.nextGen
<1> DEFINE u == [s EXCEPT !.pins = pins]
<1>1. DOMAIN s = GraphFields
  BY DEF GraphOK, NodesOK
<1>2. /\ DOMAIN u = GraphFields /\ u.nodes = s.nodes /\ u.nextGen = s.nextGen
      /\ SameTables(s, u) /\ SameQueues(s, u)
  BY <1>1 DEF GraphFields, SameTables, SameQueues
<1> HIDE DEF u
<1>3. QueuesOK(u)
  BY <1>2 DEF GraphOK, QueuesOK, SameQueues
<1>4. Sound(s, u)
  BY <1>2, <1>3, QueueStep
<1> QED
  BY <1>2, <1>4 DEF u

-----------------------------------------------------------------------------
(* What a cursor shows of itself is a snapshot; one that has produced is   *)
(* fit for the archive.                                                    *)
LEMMA SnapshotType ==
  ASSUME NEW k \in Keys, NEW g \in Nat, NEW n, NodeOK(n, k, g)
  PROVE  /\ MakeSnapshot(k, n) \in Snapshots
         /\ MakeSnapshot(k, n).key = k /\ MakeSnapshot(k, n).readiness = n.state
         /\ n.produced # 0 => MakeSnapshot(k, n) \in Archivable(g)
BY DEF NodeOK, MakeSnapshot, Snapshot, Snapshots, Archivable

(* Archive replaces the version of that identity, if there is one.         *)
LEMMA ArchiveSound ==
  ASSUME NEW s, GraphOK(s), NEW x \in Archivable(s.nextGen)
  PROVE  /\ Sound(s, Archive(s, x)) /\ Archive(s, x).nodes = s.nodes
         /\ Archive(s, x).nextGen = s.nextGen
         /\ x \in Archive(s, x).versions
<1> DEFINE u == Archive(s, x)
<1>1. DOMAIN s = GraphFields /\ s.nextGen \in Nat
  BY DEF GraphOK, NodesOK
<1>2. /\ DOMAIN u = GraphFields /\ u.nodes = s.nodes /\ u.nextGen = s.nextGen /\ SameQueues(s, u)
      /\ u.gens = s.gens /\ u.reserved = s.reserved /\ u.aliases = s.aliases
      /\ u.starting = s.starting /\ u.accepting = s.accepting
      /\ u.versions = (s.versions \ Archived(s, Identity(x))) \cup {x}
  BY <1>1 DEF Archive, GraphFields, SameQueues
<1> HIDE DEF u
<1>3. NodesOK(u) /\ QueuesOK(u) /\ TablesOK(u)
  BY <1>2 DEF GraphOK, NodesOK, QueuesOK, TablesOK, SameQueues
<1>4. Kept(s, u)
  BY <1>1, <1>2 DEF Kept
<1> QED
  BY <1>2, <1>3, <1>4 DEF u, Sound, GraphOK

(* StoreVersion: the cursor goes into the archive once it has produced.    *)
LEMMA StoreSound ==
  ASSUME NEW s, GraphOK(s), NEW k \in Keys
  PROVE  /\ Sound(s, StoreVersion(s, k)) /\ StoreVersion(s, k).nodes = s.nodes
         /\ StoreVersion(s, k).nextGen = s.nextGen
<1>1. CASE s.nodes[k].produced = 0
  BY <1>1, SoundRefl DEF StoreVersion
<1>2. CASE s.nodes[k].produced # 0
  <2>1. MakeSnapshot(k, s.nodes[k]) \in Archivable(s.nextGen)
    BY <1>2, SnapshotType DEF GraphOK, NodesOK
  <2> QED
    BY <1>2, <2>1, ArchiveSound DEF StoreVersion
<1> QED
  BY <1>1, <1>2

(* The snapshots of this drain and the wake list are bookkeeping of the    *)
(* drain.                                                                  *)
LEMMA AnnounceSound ==
  ASSUME NEW s, GraphOK(s), NEW x
  PROVE  /\ Sound(s, Announce(s, x)) /\ Announce(s, x).nodes = s.nodes
         /\ Announce(s, x).nextGen = s.nextGen /\ Announce(s, x).versions = s.versions
<1> DEFINE u == Announce(s, x)
<1>1. DOMAIN s = GraphFields
  BY DEF GraphOK, NodesOK
<1>2. /\ DOMAIN u = GraphFields /\ u.nodes = s.nodes /\ u.nextGen = s.nextGen /\ u.versions = s.versions
      /\ SameTables(s, u) /\ SameQueues(s, u)
  BY <1>1 DEF Announce, GraphFields, SameTables, SameQueues
<1> HIDE DEF u
<1>3. QueuesOK(u)
  BY <1>2 DEF GraphOK, QueuesOK, SameQueues
<1>4. Sound(s, u)
  BY <1>2, <1>3, QueueStep
<1> QED
  BY <1>2, <1>4 DEF u

LEMMA WakeSound ==
  ASSUME NEW s, GraphOK(s), NEW k \in Keys
  PROVE  /\ Sound(s, WakeWaiters(s, k)) /\ WakeWaiters(s, k).nodes = s.nodes
         /\ WakeWaiters(s, k).nextGen = s.nextGen /\ WakeWaiters(s, k).versions = s.versions
<1>1. CASE Consumers(s, k) = {}
  BY <1>1, SoundRefl DEF WakeWaiters
<1>2. CASE Consumers(s, k) # {}
  <2> DEFINE wake == [dep |-> k, consumers |-> Consumers(s, k)]
             u    == [s EXCEPT !.wakes = Append(@, wake)]
  <2>1. DOMAIN s = GraphFields /\ s.wakes \in Seq(Wakes)
    BY DEF GraphOK, NodesOK, QueuesOK
  <2>2. wake \in Wakes
    BY DEF Wakes, Consumers
  <2>3. /\ DOMAIN u = GraphFields /\ u.nodes = s.nodes /\ u.nextGen = s.nextGen /\ u.versions = s.versions
        /\ SameTables(s, u) /\ u.wakes = Append(s.wakes, wake)
        /\ u.pending = s.pending /\ u.retries = s.retries /\ u.recovery = s.recovery
        /\ u.subscribing = s.subscribing
    BY <2>1 DEF GraphFields, SameTables
  <2>4. WakeWaiters(s, k) = u
    BY <1>2 DEF WakeWaiters
  <2> HIDE DEF u, wake
  <2>5. u.wakes \in Seq(Wakes)
    BY <2>1, <2>2, <2>3
  <2>6. QueuesOK(u)
    BY <2>3, <2>5 DEF GraphOK, QueuesOK
  <2> QED
    BY <2>3, <2>4, <2>6, QueueStep
<1> QED
  BY <1>1, <1>2

(* Publish archives, announces and wakes: the nodes stay as they are.      *)
LEMMA PublishSound ==
  ASSUME NEW s, GraphOK(s), NEW k \in Keys
  PROVE  /\ Sound(s, Publish(s, k)) /\ Publish(s, k).nodes = s.nodes
         /\ Publish(s, k).nextGen = s.nextGen
<1> DEFINE a == StoreVersion(s, k)
           b == Announce(a, MakeSnapshot(k, s.nodes[k]))
<1>1. Sound(s, a) /\ a.nodes = s.nodes /\ a.nextGen = s.nextGen
  BY StoreSound
<1> HIDE DEF a
<1>2. Sound(a, b) /\ b.nodes = s.nodes /\ b.nextGen = s.nextGen
  BY <1>1, AnnounceSound DEF Sound
<1>3. Publish(s, k) = WakeWaiters(b, k)
  BY DEF Publish, a
<1> HIDE DEF b
<1>4. Sound(s, b)
  BY <1>1, <1>2, SoundTrans
<1>5. Sound(b, WakeWaiters(b, k)) /\ WakeWaiters(b, k).nodes = s.nodes /\ WakeWaiters(b, k).nextGen = s.nextGen
  BY <1>2, WakeSound DEF Sound
<1> QED
  BY <1>3, <1>4, <1>5, SoundTrans

-----------------------------------------------------------------------------
(* What answers a requirement is a snapshot of the archive or of the       *)
(* cursor.                                                                 *)
LEMMA SelectType ==
  ASSUME NEW s, GraphOK(s), NEW q, q.key \in Keys
  PROVE  /\ SelectSnapshot(s, q) \in SUBSET Snapshots
         /\ Newest(Reached(s, q.key, 1, q.ready)) \in SUBSET Snapshots
<1>1. NodeOK(s.nodes[q.key], q.key, s.nextGen) /\ s.nextGen \in Nat
  BY DEF GraphOK, NodesOK
<1>2. MakeSnapshot(q.key, s.nodes[q.key]) \in Snapshots
  BY <1>1, SnapshotType
<1>3. s.versions \in SUBSET Snapshots
  <2>1. Archivable(s.nextGen) \subseteq Snapshots
    BY <1>1 DEF Archivable, Snapshots
  <2> QED
    BY <2>1 DEF GraphOK, TablesOK
<1>4. \A S : Newest(S) \subseteq S
  BY DEF Newest
<1>5. \A floor, milestone : Reached(s, q.key, floor, milestone) \subseteq Snapshots
  BY <1>2, <1>3 DEF Reached
<1> QED
  BY <1>2, <1>3, <1>4, <1>5 DEF SelectSnapshot

(* LatchReadyGates binds address-level gates and nothing else of the node. *)
LEMMA LatchSound ==
  ASSUME NEW s, GraphOK(s), NEW k \in Keys, NodeOK(s.nodes[k], k, s.nextGen)
  PROVE  LET n == s.nodes[k]
             m == LatchReadyGates(s, n)
         IN  /\ m = [n EXCEPT !.reqs = m.reqs]
             /\ n.present => NodeOK(m, k, s.nextGen)
<1> DEFINE n == s.nodes[k]
           latch(q) == LET S == Newest(Reached(s, q.key, 1, q.ready))
                       IN  IF q.edge = "gate" /\ q.rev = 0 /\ S # {}
                           THEN LET x == CHOOSE x \in S : TRUE IN [q EXCEPT !.rev = x.rev, !.gen = x.gen]
                           ELSE q
           R == {latch(q) : q \in n.reqs}
           m == [n EXCEPT !.reqs = R]
<1>1. LatchReadyGates(s, n) = m
  BY DEF LatchReadyGates
<1>2. DOMAIN n = NodeFields /\ n.reqs \in SUBSET Requirement
  BY DEF NodeOK, Recipe
<1>3. ASSUME NEW q \in Requirement PROVE latch(q) \in Requirement
  <2> DEFINE S == Newest(Reached(s, q.key, 1, q.ready))
  <2>1. q.key \in Keys
    BY DEF Requirement
  <2>2. S \in SUBSET Snapshots
    BY <2>1, SelectType
  <2> HIDE DEF S
  <2>3. CASE S # {}
    <3> DEFINE x == CHOOSE x \in S : TRUE
    <3>1. x \in Snapshots
      BY <2>2, <2>3
    <3> HIDE DEF x
    <3>2. x.rev \in Nat /\ x.gen \in Nat
      BY <3>1 DEF Snapshots
    <3>3. [q EXCEPT !.rev = x.rev, !.gen = x.gen] \in Requirement
      BY <3>2 DEF Requirement
    <3> QED
      BY <3>3 DEF S, x
  <2> QED
    BY <2>3 DEF S
<1> HIDE DEF latch
<1>4. R \in Recipe
  BY <1>2, <1>3 DEF Recipe
<1>5. m.reqs = R
  BY <1>2 DEF NodeFields
<1> HIDE DEF R
<1>6. n.present => NodeOK(m, k, s.nextGen)
  BY <1>4 DEF NodeOK, NodeFields
<1> QED
  BY <1>1, <1>5, <1>6

(* The states the code assigns are states a node may have.                 *)
LEMMA ReadinessFacts ==
  /\ "Failed" \in Readiness /\ "Cancelled" \in Readiness /\ "Missing" \in Readiness /\ "Blocked" \in Readiness
  /\ "Queued" \in Readiness /\ "Preparing" \in Readiness /\ "CpuReady" \in Readiness
  /\ "UploadSubmitted" \in Readiness /\ "GpuReady" \in Readiness /\ "Published" \in Readiness
BY DEF Readiness, Rank, Terminal

(* A node that is queued joins the pending builds.                         *)
LEMMA PendingSound ==
  ASSUME NEW s, GraphOK(s), NEW k \in Keys
  PROVE  Sound(s, [s EXCEPT !.pending = Append(@, k)])
<1> DEFINE u == [s EXCEPT !.pending = Append(@, k)]
<1>1. DOMAIN s = GraphFields /\ s.pending \in Seq(Keys)
  BY DEF GraphOK, NodesOK, QueuesOK
<1>2. /\ DOMAIN u = GraphFields /\ u.nodes = s.nodes /\ u.nextGen = s.nextGen
      /\ SameTables(s, u) /\ u.pending = Append(s.pending, k)
      /\ u.wakes = s.wakes /\ u.retries = s.retries /\ u.recovery = s.recovery /\ u.subscribing = s.subscribing
  BY <1>1 DEF GraphFields, SameTables
<1> HIDE DEF u
<1>3. u.pending \in Seq(Keys)
  BY <1>1, <1>2
<1>4. QueuesOK(u)
  BY <1>2, <1>3 DEF GraphOK, QueuesOK
<1>5. Sound(s, u)
  BY <1>2, <1>4, QueueStep
<1> QED
  BY <1>5 DEF u

(* QueueNode, whatever it decides: leave, queue, fail or block the node.   *)
LEMMA QueueNodeSound ==
  ASSUME NEW s, GraphOK(s), NEW k \in Keys
  PROVE  Sound(s, QueueNode(s, k))
<1> DEFINE n == s.nodes[k]
           m == LatchReadyGates(s, n)
           queued  == [m EXCEPT !.state = "Queued"]
           failed  == [m EXCEPT !.terminal = TRUE, !.state = "Failed"]
           blocked == [m EXCEPT !.state = "Blocked"]
<1>0. NodeOK(n, k, s.nextGen)
  BY DEF GraphOK, NodesOK
<1>1. CASE ~n.present
  <2>1. ~n.desired
    BY <1>0, <1>1 DEF NodeOK, NoNode
  <2> QED
    BY <2>1, SoundRefl DEF QueueNode
<1>2. CASE n.present
  <2>1. NodeOK(m, k, s.nextGen) /\ m = [n EXCEPT !.reqs = m.reqs]
    BY <1>0, <1>2, LatchSound
  <2>2. DOMAIN n = NodeFields
    BY <1>0 DEF NodeOK
  <2> HIDE DEF m
  <2>3. m.inFlight = n.inFlight /\ m.present /\ m.vgen = n.vgen
    BY <1>2, <2>1, <2>2 DEF NodeFields
  <2> HIDE DEF n
  <2>4. /\ NodeOK(queued, k, s.nextGen) /\ queued.inFlight = n.inFlight /\ queued.present /\ queued.vgen = n.vgen
        /\ NodeOK(failed, k, s.nextGen) /\ failed.inFlight = n.inFlight /\ failed.present /\ failed.vgen = n.vgen
        /\ NodeOK(blocked, k, s.nextGen) /\ blocked.inFlight = n.inFlight /\ blocked.present /\ blocked.vgen = n.vgen
    BY <2>1, <2>3, ReadinessFacts DEF NodeOK, NodeFields
  <2> HIDE DEF queued, failed, blocked
  <2>5. /\ Sound(s, WithNode(s, k, queued)) /\ Sound(s, WithNode(s, k, failed)) /\ Sound(s, WithNode(s, k, blocked))
    BY <2>4, WithNodeSound DEF n
  <2>6. Sound(s, [WithNode(s, k, queued) EXCEPT !.pending = Append(@, k)])
    BY <2>5, PendingSound, SoundTrans DEF Sound
  <2>7. Sound(s, Publish(WithNode(s, k, failed), k))
    BY <2>5, PublishSound, SoundTrans DEF Sound
  <2> QED
    BY <2>5, <2>6, <2>7, SoundRefl DEF QueueNode, n, m, queued, failed, blocked
<1> QED
  BY <1>1, <1>2

(* FailCycle fails the nodes of a cycle that are present, and starts or    *)
(* ends no build.                                                          *)
LEMMA FailCycleSound ==
  ASSUME NEW s, GraphOK(s), NEW cycle
  PROVE  Sound(s, FailCycle(s, cycle))
<1> DEFINE u == FailCycle(s, cycle)
           failed(k) == [s.nodes[k] EXCEPT !.terminal = TRUE, !.gen = @ + 1, !.retry = FALSE, !.state = "Failed"]
<1>1. DOMAIN s = GraphFields /\ DOMAIN s.nodes = Keys /\ s.nextGen \in Nat
  BY DEF GraphOK, NodesOK
<1>2. /\ DOMAIN u = GraphFields /\ u.nextGen = s.nextGen /\ DOMAIN u.nodes = Keys
      /\ SameTables(s, u) /\ SameQueues(s, u)
      /\ \A k \in Keys : u.nodes[k] = IF k \in cycle /\ s.nodes[k].present THEN failed(k) ELSE s.nodes[k]
  BY <1>1 DEF FailCycle, GraphFields, SameTables, SameQueues
<1> HIDE DEF u, failed
<1>3. ASSUME NEW k \in Keys
      PROVE  /\ NodeOK(u.nodes[k], k, s.nextGen) /\ u.nodes[k].inFlight = s.nodes[k].inFlight
             /\ s.nodes[k].present => u.nodes[k].present
             /\ u.nodes[k].vgen = s.nodes[k].vgen
  <2>1. NodeOK(s.nodes[k], k, s.nextGen)
    BY DEF GraphOK, NodesOK
  <2>2. s.nodes[k].present => NodeOK(failed(k), k, s.nextGen) /\ failed(k).inFlight = s.nodes[k].inFlight
                              /\ failed(k).present /\ failed(k).vgen = s.nodes[k].vgen
    BY <2>1, ReadinessFacts DEF NodeOK, NodeFields, failed
  <2> QED
    BY <1>2, <2>1, <2>2
<1>4. NodesOK(u)
  BY <1>1, <1>2, <1>3 DEF NodesOK
<1>5. TablesOK(u)
  BY <1>1, <1>2, TablesGrow DEF GraphOK
<1>7. QueuesOK(u)
  BY <1>2 DEF GraphOK, QueuesOK, SameQueues
<1>6. Kept(s, u)
  <2>1. u.starting = s.starting /\ u.accepting = s.accepting /\ s.nextGen <= u.nextGen
    BY <1>1, <1>2 DEF SameTables
  <2> QED
    BY <2>1, <1>3 DEF Kept
<1> QED
  BY <1>4, <1>5, <1>6, <1>7 DEF Sound, GraphOK, u

LEMMA QueueUnlessSound ==
  ASSUME NEW s, GraphOK(s), NEW k \in Keys
  PROVE  Sound(s, QueueUnlessCyclic(s, k))
BY FailCycleSound, QueueNodeSound DEF QueueUnlessCyclic

-----------------------------------------------------------------------------
(* A node that is there is replaced by another state of it.                *)
LEMMA RemoveSound ==
  ASSUME NEW s, GraphOK(s), NEW k \in Keys, s.nodes[k].present
  PROVE  LET u == RemoveWaiterEdges(s, k)
         IN  Sound(s, u) /\ u.nodes[k] = [s.nodes[k] EXCEPT !.edges = {}] /\ u.nextGen = s.nextGen
<1> DEFINE v == Unpin(s, s.nodes[k].reqs)
           m == [s.nodes[k] EXCEPT !.edges = {}]
<1>1. Sound(s, v) /\ v.nodes = s.nodes /\ v.nextGen = s.nextGen
  BY PinSound DEF Unpin
<1>2. RemoveWaiterEdges(s, k) = WithNode(v, k, m)
  <2> HIDE DEF v
  <2> QED
    BY <1>1 DEF RemoveWaiterEdges, WithNode, v
<1>3. NodeOK(m, k, s.nextGen) /\ m.inFlight = s.nodes[k].inFlight /\ m.present /\ m.vgen = s.nodes[k].vgen
  <2>1. NodeOK(s.nodes[k], k, s.nextGen)
    BY DEF GraphOK, NodesOK
  <2> QED
    BY <2>1 DEF NodeOK, NodeFields
<1> HIDE DEF v, m
<1>4. /\ Sound(v, WithNode(v, k, m)) /\ WithNode(v, k, m).nodes[k] = m
      /\ WithNode(v, k, m).nextGen = v.nextGen
  BY <1>1, <1>3, WithNodeSound DEF Sound
<1> QED
  BY <1>1, <1>2, <1>4, SoundTrans DEF m

(* InstallWaiterEdges leaves no address waiting for itself.                *)
LEMMA InstallEdgesSound ==
  ASSUME NEW s, GraphOK(s), NEW k \in Keys, s.nodes[k].present
  PROVE  LET u == InstallWaiterEdges(s, k)
         IN  Sound(s, u) /\ u.nextGen = s.nextGen /\ u.nodes[k].present
<1> DEFINE n == s.nodes[k]
           v == Pin(s, n.reqs)
           edges == {q.key : q \in n.reqs \cup n.asked} \ {k}
           m == [n EXCEPT !.edges = edges]
<1>1. Sound(s, v) /\ v.nodes = s.nodes /\ v.nextGen = s.nextGen
  BY PinSound DEF Pin
<1>2. InstallWaiterEdges(s, k) = WithNode(v, k, m)
  <2> HIDE DEF v, edges
  <2> QED
    BY <1>1 DEF InstallWaiterEdges, WithNode, v, edges
<1>3. edges \in SUBSET (Keys \ {k})
  <2>1. n.reqs \cup n.asked \in SUBSET Requirement
    BY DEF GraphOK, NodesOK, NodeOK, Recipe
  <2>2. \A q \in Requirement : q.key \in Keys
    BY DEF Requirement
  <2> QED
    BY <2>1, <2>2
<1> HIDE DEF edges, v
<1>4. NodeOK(m, k, s.nextGen) /\ m.inFlight = s.nodes[k].inFlight /\ m.present /\ m.vgen = s.nodes[k].vgen
  <2>1. NodeOK(s.nodes[k], k, s.nextGen)
    BY DEF GraphOK, NodesOK
  <2> QED
    BY <2>1, <1>3 DEF NodeOK, NodeFields
<1> HIDE DEF m
<1>5. /\ Sound(v, WithNode(v, k, m)) /\ WithNode(v, k, m).nodes[k] = m
      /\ WithNode(v, k, m).nextGen = v.nextGen
  BY <1>1, <1>4, WithNodeSound DEF Sound
<1> QED
  BY <1>1, <1>2, <1>4, <1>5, SoundTrans

-----------------------------------------------------------------------------
(* Install makes a version that has a generation the one the cursor        *)
(* builds.                                                                 *)
LEMMA InstallSound ==
  ASSUME NEW s, GraphOK(s), NEW k \in Keys, s.nodes[k].present, NEW r \in Parked(s.nextGen)
  PROVE  Sound(s, Install(s, k, r))
<1> DEFINE a    == StoreVersion(s, k)
           left == RemoveWaiterEdges(a, k)
           n    == [left.nodes[k] EXCEPT
                    !.rev = r.rev, !.vgen = r.gen, !.gen = r.gen, !.reqs = r.reqs, !.asked = r.asked,
                    !.coalesce = r.coalesce, !.state = "Missing", !.produced = 0, !.used = {},
                    !.waiting = 0, !.terminal = FALSE, !.latestNeeded = FALSE,
                    !.superseded = FALSE, !.attempted = FALSE, !.retry = FALSE]
           b    == WithNode(left, k, n)
           c    == InstallWaiterEdges(b, k)
<1>1. Sound(s, a) /\ a.nodes = s.nodes /\ a.nextGen = s.nextGen
  BY StoreSound
<1>2. Install(s, k, r) = QueueUnlessCyclic(c, k)
  BY DEF Install
<1> HIDE DEF a
<1>3. /\ Sound(a, left) /\ left.nodes[k] = [s.nodes[k] EXCEPT !.edges = {}] /\ left.nextGen = s.nextGen
  BY <1>1, RemoveSound DEF Sound
<1> HIDE DEF left
<1>4. Sound(s, left)
  BY <1>1, <1>3, SoundTrans
<1>5. NodeOK(left.nodes[k], k, s.nextGen) /\ left.nodes[k].present /\ s.nextGen \in Nat
  BY <1>3, <1>4 DEF Sound, GraphOK, NodesOK, Kept
<1>6. NodeOK(n, k, left.nextGen) /\ n.inFlight = left.nodes[k].inFlight /\ n.present /\ n.vgen # 0
  <2>1. r.rev \in Nat /\ r.gen \in 1..s.nextGen /\ r.reqs \in Recipe /\ r.asked \in Recipe /\ r.coalesce \in BOOLEAN
    BY DEF Parked
  <2>2. DOMAIN n = NodeFields /\ n.inFlight = left.nodes[k].inFlight /\ n.present = left.nodes[k].present
        /\ n.vgen = r.gen /\ n.rev = r.rev /\ n.produced = 0 /\ n.reqs = r.reqs /\ n.asked = r.asked
        /\ n.coalesce = r.coalesce /\ n.gen = r.gen /\ n.state = "Missing" /\ n.edges = left.nodes[k].edges
        /\ n.successors = left.nodes[k].successors
    BY <1>5 DEF NodeOK, NodeFields
  <2> HIDE DEF n
  <2> QED
    BY <1>3, <1>5, <2>1, <2>2, ReadinessFacts DEF NodeOK
<1> HIDE DEF n
<1>7. Sound(left, b) /\ b.nodes[k] = n
  BY <1>4, <1>6, WithNodeSound DEF Sound
<1> HIDE DEF b
<1>8. Sound(b, c)
  BY <1>6, <1>7, InstallEdgesSound DEF Sound
<1> HIDE DEF c
<1>9. Sound(c, QueueUnlessCyclic(c, k))
  BY <1>8, QueueUnlessSound DEF Sound
<1>10. Sound(s, b)
  BY <1>4, <1>7, SoundTrans
<1>11. Sound(s, c)
  BY <1>8, <1>10, SoundTrans
<1> QED
  BY <1>2, <1>9, <1>11, SoundTrans

(* PromoteSuccessor installs the oldest parked version, unless a build is  *)
(* under way.                                                              *)
LEMMA PromoteSound ==
  ASSUME NEW s, GraphOK(s), NEW k \in Keys
  PROVE  Sound(s, PromoteSuccessor(s, k))
<1> DEFINE n == s.nodes[k]
           q == n.successors
           m == [n EXCEPT !.successors = Tail(q), !.published = FALSE]
           a == WithNode(s, k, m)
           b == Unpin(a, Head(q).reqs)
<1>1. CASE q = <<>> \/ n.inFlight
  BY <1>1, SoundRefl DEF PromoteSuccessor
<1>2. CASE ~(q = <<>> \/ n.inFlight)
  <2>1. NodeOK(n, k, s.nextGen) /\ s.nextGen \in Nat /\ q \in Seq(Parked(s.nextGen))
    BY DEF GraphOK, NodesOK, NodeOK
  <2>2. n.present
    BY <1>2, <2>1 DEF NodeOK, NoNode
  <2>3. Head(q) \in Parked(s.nextGen) /\ Tail(q) \in Seq(Parked(s.nextGen))
    BY <1>2, <2>1, HeadTailProperties
  <2>4. NodeOK(m, k, s.nextGen) /\ m.inFlight = n.inFlight /\ m.present /\ m.vgen = n.vgen
    BY <2>1, <2>2, <2>3 DEF NodeOK, NodeFields
  <2>5. PromoteSuccessor(s, k) = Install(b, k, Head(q))
    BY <1>2 DEF PromoteSuccessor, WithNode
  <2> HIDE DEF m
  <2>6. Sound(s, a) /\ a.nodes[k] = m /\ a.nextGen = s.nextGen
    BY <2>4, WithNodeSound
  <2> HIDE DEF a
  <2>7. Sound(a, b) /\ b.nodes = a.nodes /\ b.nextGen = s.nextGen
    BY <2>6, PinSound DEF Unpin, Sound
  <2> HIDE DEF b
  <2>8. Sound(s, b)
    BY <2>6, <2>7, SoundTrans
  <2>9. Sound(b, Install(b, k, Head(q)))
    BY <2>3, <2>4, <2>6, <2>7, InstallSound DEF Sound
  <2> QED
    BY <2>5, <2>8, <2>9, SoundTrans
<1> QED
  BY <1>1, <1>2

(* ParkSuccessor: a version waits behind the cursor.                       *)
LEMMA ParkSound ==
  ASSUME NEW s, GraphOK(s), NEW k \in Keys, s.nodes[k].present, NEW r \in Parked(s.nextGen)
  PROVE  Sound(s, ParkSuccessor(s, k, r))
<1> DEFINE n == s.nodes[k]
           m == [n EXCEPT !.successors = Append(@, r)]
           a == WithNode(s, k, m)
<1>1. ParkSuccessor(s, k, r) = Pin(a, r.reqs)
  BY DEF ParkSuccessor, WithNode
<1>2. NodeOK(n, k, s.nextGen) /\ n.successors \in Seq(Parked(s.nextGen))
  BY DEF GraphOK, NodesOK, NodeOK
<1>3. Append(n.successors, r) \in Seq(Parked(s.nextGen))
  BY <1>2
<1>4. NodeOK(m, k, s.nextGen) /\ m.inFlight = n.inFlight /\ m.present /\ m.vgen = n.vgen
  BY <1>2, <1>3 DEF NodeOK, NodeFields
<1> HIDE DEF m
<1>5. Sound(s, a)
  BY <1>4, WithNodeSound
<1> HIDE DEF a
<1>6. Sound(a, Pin(a, r.reqs))
  BY <1>5, PinSound DEF Pin, Sound
<1> QED
  BY <1>1, <1>5, <1>6, SoundTrans

(* A generation is taken.                                                  *)
LEMMA MintSound ==
  ASSUME NEW s, GraphOK(s)
  PROVE  LET u == [s EXCEPT !.nextGen = @ + 1]
         IN  Sound(s, u) /\ u.nextGen = s.nextGen + 1 /\ u.nodes = s.nodes
<1> DEFINE u == [s EXCEPT !.nextGen = @ + 1]
<1>1. DOMAIN s = GraphFields /\ s.nextGen \in Nat /\ DOMAIN s.nodes = Keys
  BY DEF GraphOK, NodesOK
<1>2. /\ DOMAIN u = GraphFields /\ u.nodes = s.nodes /\ u.nextGen = s.nextGen + 1
      /\ SameTables(s, u) /\ SameQueues(s, u)
  BY <1>1 DEF GraphFields, SameTables, SameQueues
<1> HIDE DEF u
<1>3. NodesOK(u)
  BY <1>1, <1>2, NodeGrows DEF GraphOK, NodesOK
<1>4. TablesOK(u)
  BY <1>1, <1>2, TablesGrow DEF GraphOK
<1>5. QueuesOK(u)
  BY <1>2 DEF GraphOK, QueuesOK, SameQueues
<1>6. Kept(s, u)
  BY <1>1, <1>2 DEF Kept, SameTables
<1>7. Sound(s, u)
  BY <1>3, <1>4, <1>5, <1>6 DEF Sound, GraphOK
<1> QED
  BY <1>2, <1>7 DEF u

(* A flag that WakeWaiter sets on a node changes nothing else.             *)
LEMMA FlagSound ==
  ASSUME NEW s, GraphOK(s), NEW k \in Keys, NEW n, s.nodes[k].present,
         n = [s.nodes[k] EXCEPT !.latestNeeded = FALSE] \/ n = [s.nodes[k] EXCEPT !.latestNeeded = TRUE]
  PROVE  Sound(s, WithNode(s, k, n)) /\ WithNode(s, k, n).nodes[k] = n /\ WithNode(s, k, n).nextGen = s.nextGen
<1>1. NodeOK(s.nodes[k], k, s.nextGen)
  BY DEF GraphOK, NodesOK
<1>2. NodeOK(n, k, s.nextGen) /\ n.inFlight = s.nodes[k].inFlight /\ n.present /\ n.vgen = s.nodes[k].vgen
  BY <1>1 DEF NodeOK, NodeFields
<1> QED
  BY <1>2, WithNodeSound

(* QueueLatestSuccessor mints a generation for the rebuilt version and     *)
(* promotes it.                                                            *)
LEMMA QueueLatestSound ==
  ASSUME NEW s, GraphOK(s), NEW k \in Keys
  PROVE  Sound(s, QueueLatestSuccessor(s, k))
<1> DEFINE n    == s.nodes[k]
           calm == [s EXCEPT !.nodes[k].latestNeeded = FALSE]
           up   == [calm EXCEPT !.nextGen = @ + 1]
           r    == [rev |-> n.rev, gen |-> s.nextGen + 1, reqs |-> n.asked, asked |-> n.asked,
                    coalesce |-> n.coalesce]
           parked == ParkSuccessor(up, k, r)
<1>1. CASE n.produced = 0
  BY <1>1, SoundRefl DEF QueueLatestSuccessor
<1>2. CASE n.produced # 0
  <2>1. NodeOK(n, k, s.nextGen) /\ s.nextGen \in Nat
    BY DEF GraphOK, NodesOK
  <2>2. n.present
    BY <1>2, <2>1 DEF NodeOK, NoNode
  <2>3. QueueLatestSuccessor(s, k) \in {s, PromoteSuccessor(calm, k), PromoteSuccessor(parked, k)}
    BY DEF QueueLatestSuccessor
  <2>4. Sound(s, calm) /\ calm.nodes[k].present /\ calm.nextGen = s.nextGen
    <3>1. calm = WithNode(s, k, [n EXCEPT !.latestNeeded = FALSE])
      BY DEF WithNode
    <3>2. Sound(s, calm) /\ calm.nextGen = s.nextGen
      BY <2>2, <3>1, FlagSound
    <3> QED
      BY <2>2, <3>2 DEF Sound, Kept
  <2> HIDE DEF calm
  <2>5. Sound(calm, up) /\ up.nextGen = s.nextGen + 1 /\ up.nodes[k].present
    BY <2>4, MintSound DEF Sound
  <2> HIDE DEF up
  <2>6. r \in Parked(up.nextGen)
    BY <2>1, <2>5 DEF Parked, NodeOK
  <2> HIDE DEF r
  <2>7. Sound(up, parked)
    BY <2>5, <2>6, ParkSound DEF Sound
  <2> HIDE DEF parked
  <2>8. Sound(s, parked)
    BY <2>4, <2>5, <2>7, SoundTrans
  <2>9. Sound(s, PromoteSuccessor(calm, k)) /\ Sound(s, PromoteSuccessor(parked, k))
    BY <2>4, <2>8, PromoteSound, SoundTrans DEF Sound
  <2> QED
    BY <2>3, <2>9, SoundRefl
<1> QED
  BY <1>1, <1>2

LEMMA AdvanceSound ==
  ASSUME NEW s, GraphOK(s), NEW k \in Keys
  PROVE  Sound(s, Advance(s, k))
BY PromoteSound, QueueLatestSound DEF Advance

(* A consumer is woken: it is rebuilt, queued or left as it is.            *)
LEMMA WakeWaiterSound ==
  ASSUME NEW s, GraphOK(s), NEW k \in Keys, NEW dep
  PROVE  Sound(s, WakeWaiter(s, dep, k))
<1> DEFINE n == s.nodes[k]
           u == [s EXCEPT !.nodes[k].latestNeeded = TRUE]
<1>1. CASE ~n.present
  BY <1>1, SoundRefl DEF WakeWaiter
<1>2. CASE n.present
  <2>1. u = WithNode(s, k, [n EXCEPT !.latestNeeded = TRUE])
    BY DEF WithNode
  <2>2. Sound(s, u)
    BY <1>2, <2>1, FlagSound
  <2>3. WakeWaiter(s, dep, k) \in {QueueLatestSuccessor(s, k), QueueNode(u, k), QueueNode(s, k)}
    BY <1>2 DEF WakeWaiter
  <2> HIDE DEF u
  <2>4. Sound(s, QueueNode(u, k))
    BY <2>2, QueueNodeSound, SoundTrans DEF Sound
  <2> QED
    BY <2>3, <2>4, QueueNodeSound, QueueLatestSound
<1> QED
  BY <1>1, <1>2

-----------------------------------------------------------------------------
(* The smallest and the largest of a set of positions exist.               *)
LEMMA MinExists ==
    ASSUME NEW S \in SUBSET Nat, S # {}
    PROVE  Min(S) \in S /\ \A y \in S : Min(S) <= y
<1> DEFINE Less == OpToRel(<, Nat)
<1>1. \A x, y \in Nat : <<y, x>> \in Less <=> y < x
  BY DEF OpToRel
<1>2. IsWellFoundedOn(Less, Nat)
  BY NatLessThanWellFounded
<1>3. PICK d \in S : \A y \in S : ~(<<y, d>> \in Less)
  <2> HIDE DEF Less
  <2> QED
    BY <1>2, WFMin
<1>4. \A y \in S : d <= y
  <2> HIDE DEF Less
  <2>1. \A y \in S : ~(y < d)
    BY <1>1, <1>3
  <2> QED
    BY <2>1
<1> QED
  BY <1>4 DEF Min

LEMMA MaxExists ==
    ASSUME NEW n \in Nat, NEW S \in SUBSET (1..n), S # {}
    PROVE  Max(S) \in S /\ \A y \in S : Max(S) >= y
<1> DEFINE Co == {n - x : x \in S}
<1>1. Co \in SUBSET Nat /\ Co # {}
  <2>1. \A x \in S : n - x \in Nat /\ n - x \in Co
    OBVIOUS
  <2> QED
    BY <2>1
<1>2. PICK d \in Co : \A y \in Co : d <= y
  <2> HIDE DEF Co
  <2> QED
    BY <1>1, MinExists
<1>3. PICK m \in S : d = n - m
  OBVIOUS
<1>4. \A y \in S : m >= y
  <2> SUFFICES ASSUME NEW y \in S PROVE m >= y
    OBVIOUS
  <2>1. n - y \in Co
    OBVIOUS
  <2>2. n - m <= n - y
    BY <1>2, <1>3, <2>1
  <2> QED
    BY <2>2
<1> QED
  BY <1>4 DEF Max


-----------------------------------------------------------------------------
(* A table keeps its type when an entry is added.                          *)
LEMMA TableAdd ==
  ASSUME NEW T, NEW table, \A x \in DOMAIN table : table[x] \in T, NEW a, NEW b \in T
  PROVE  /\ \A x \in DOMAIN Enter(table, a, b) : Enter(table, a, b)[x] \in T
         /\ a \in DOMAIN Enter(table, a, b) /\ Enter(table, a, b)[a] = b
BY DEF Enter

(* AliasPredicted names the installed version for the one that was         *)
(* predicted.                                                              *)
LEMMA AliasSound ==
  ASSUME NEW s, GraphOK(s), NEW predicted, NEW installed \in Versions
  PROVE  LET u == AliasPredicted(s, predicted, installed)
         IN  Sound(s, u) /\ u.nodes = s.nodes /\ u.nextGen = s.nextGen /\ u.gens = s.gens
<1> DEFINE u == AliasPredicted(s, predicted, installed)
<1>1. CASE predicted.gen \in {0, installed.gen}
  BY <1>1, SoundRefl DEF AliasPredicted
<1>2. CASE predicted.gen \notin {0, installed.gen}
  <2>1. DOMAIN s = GraphFields /\ s.nextGen \in Nat
    BY DEF GraphOK, NodesOK
  <2>2. /\ DOMAIN u = GraphFields /\ u.nodes = s.nodes /\ u.nextGen = s.nextGen
        /\ u.aliases = Enter(s.aliases, predicted, installed)
        /\ u.versions = s.versions /\ u.gens = s.gens /\ u.reserved = s.reserved
        /\ u.starting = s.starting /\ u.accepting = s.accepting
        /\ SameQueues(s, u)
    BY <1>2, <2>1 DEF AliasPredicted, GraphFields, SameQueues
  <2> HIDE DEF u
  <2>3. \A x \in DOMAIN u.aliases : u.aliases[x] \in Versions
    BY <2>2, TableAdd DEF GraphOK, TablesOK
  <2>4. TablesOK(u)
    BY <2>2, <2>3 DEF GraphOK, TablesOK
  <2>5. NodesOK(u)
    BY <2>2 DEF GraphOK, NodesOK
  <2>6. QueuesOK(u)
    BY <2>2 DEF GraphOK, QueuesOK, SameQueues
  <2>7. Kept(s, u)
    BY <2>1, <2>2 DEF Kept
  <2> QED
    BY <2>2, <2>4, <2>5, <2>6, <2>7 DEF Sound, GraphOK, u
<1> QED
  BY <1>1, <1>2

(* RejectPredicted takes a reservation back.                               *)
LEMMA ForgetSound ==
  ASSUME NEW s, GraphOK(s), NEW kr
  PROVE  LET u == [s EXCEPT !.gens = Without(@, kr), !.reserved = Without(@, kr)]
         IN  Sound(s, u) /\ u.nextGen = s.nextGen
<1> DEFINE u == [s EXCEPT !.gens = Without(@, kr), !.reserved = Without(@, kr)]
<1>1. DOMAIN s = GraphFields /\ s.nextGen \in Nat
  BY DEF GraphOK, NodesOK
<1>2. /\ DOMAIN u = GraphFields /\ u.nodes = s.nodes /\ u.nextGen = s.nextGen
      /\ u.gens = Without(s.gens, kr) /\ u.reserved = Without(s.reserved, kr)
      /\ u.versions = s.versions /\ u.aliases = s.aliases
      /\ u.starting = s.starting /\ u.accepting = s.accepting
      /\ SameQueues(s, u)
  BY <1>1 DEF GraphFields, SameQueues
<1> HIDE DEF u
<1>3. TablesOK(u)
  BY <1>2 DEF GraphOK, TablesOK, Without
<1>4. NodesOK(u)
  BY <1>2 DEF GraphOK, NodesOK
<1>5. QueuesOK(u)
  BY <1>2 DEF GraphOK, QueuesOK, SameQueues
<1>6. Kept(s, u)
  BY <1>1, <1>2 DEF Kept
<1> QED
  BY <1>2, <1>3, <1>4, <1>5, <1>6 DEF Sound, GraphOK, u

\* A request the drain applies.
Requested(r, g) ==
    /\ r.key \in Keys /\ r.rev \in Nat \ {0} /\ r.gen \in 0..g
    /\ r.reqs \in Recipe /\ r.coalesce \in BOOLEAN

(* RejectPredicted archives the refused version, which has a generation,   *)
(* as Failed.                                                              *)
LEMMA RejectSound ==
  ASSUME NEW s, GraphOK(s), NEW r, Requested(r, s.nextGen), NEW gen, NEW created
  PROVE  Sound(s, RejectPredicted(s, r, gen, created))
<1> DEFINE refused == Snapshot(r.key, r.rev, r.gen, "Failed")
           kr == <<r.key, r.rev>>
           without == [s EXCEPT !.gens = Without(@, kr), !.reserved = Without(@, kr)]
           kept == IF created THEN without ELSE s
           a == Archive(kept, refused)
<1>0. s.nextGen \in Nat
  BY DEF GraphOK, NodesOK
<1>1. CASE r.gen = 0
  BY <1>1, SoundRefl DEF RejectPredicted
<1>2. CASE r.gen # 0
  <2>1. refused \in Archivable(s.nextGen)
    BY <1>0, <1>2, ReadinessFacts DEF Requested, Archivable, Snapshot
  <2>2. RejectPredicted(s, r, gen, created) \in {s, Announce(a, refused)}
    BY DEF RejectPredicted
  <2>3. Sound(s, without) /\ without.nextGen = s.nextGen
    BY ForgetSound
  <2> HIDE DEF without, refused
  <2>4. Sound(s, kept) /\ kept.nextGen = s.nextGen
    BY <2>3, SoundRefl
  <2> HIDE DEF kept
  <2>5. Sound(kept, a)
    BY <2>1, <2>4, ArchiveSound DEF Sound
  <2> HIDE DEF a
  <2>6. Sound(a, Announce(a, refused))
    BY <2>5, AnnounceSound DEF Sound
  <2>7. Sound(s, Announce(a, refused))
    BY <2>4, <2>5, <2>6, SoundTrans
  <2> QED
    BY <2>2, <2>7, SoundRefl
<1> QED
  BY <1>1, <1>2

(* CoalesceSuccessors keeps a prefix of the parked versions.               *)
LEMMA CoalesceSound ==
  ASSUME NEW s, GraphOK(s), NEW k \in Keys, s.nodes[k].present
  PROVE  LET u == CoalesceSuccessors(s, k) IN Sound(s, u) /\ u.nextGen = s.nextGen
<1> DEFINE n == s.nodes[k]
           q == n.successors
           left(m) == [s EXCEPT !.pins = PinsWithout(s, q, m)]
           stays == {i \in 1..Len(q) : ~q[i].coalesce \/ HasExactDependent(left(i), Version(k, q[i].rev, q[i].gen))}
           last == IF stays = {} THEN 0 ELSE Max(stays)
           a == left(last)
           m == [n EXCEPT !.successors = SubSeq(q, 1, last)]
<1>1. NodeOK(n, k, s.nextGen) /\ q \in Seq(Parked(s.nextGen)) /\ Len(q) \in Nat
  BY DEF GraphOK, NodesOK, NodeOK
<1>2. last \in 0..Len(q)
  <2>1. stays \in SUBSET (1..Len(q))
    OBVIOUS
  <2> HIDE DEF stays
  <2>2. stays # {} => Max(stays) \in stays
    BY <1>1, <2>1, MaxExists
  <2>3. CASE stays = {}
    BY <1>1, <2>3
  <2>4. CASE stays # {}
    <3>1. last = Max(stays) /\ Max(stays) \in 1..Len(q)
      BY <2>1, <2>2, <2>4
    <3> HIDE DEF last
    <3> QED
      BY <1>1, <3>1
  <2> QED
    BY <2>3, <2>4
<1>3. Sound(s, a) /\ a.nodes = s.nodes /\ a.nextGen = s.nextGen
  BY PinSound
<1>4. CoalesceSuccessors(s, k) = [a EXCEPT !.nodes[k].successors = SubSeq(q, 1, last)]
  BY DEF CoalesceSuccessors
<1> HIDE DEF a, last
<1>5. SubSeq(q, 1, last) \in Seq(Parked(s.nextGen))
  <2>1. \A i \in 1..last : q[i] \in Parked(s.nextGen)
    BY <1>1, <1>2, ElementOfSeq
  <2> QED
    BY <1>2, <2>1, SubSeqProperties
<1>6. CoalesceSuccessors(s, k) = WithNode(a, k, m)
  BY <1>3, <1>4 DEF WithNode
<1>7. NodeOK(m, k, s.nextGen) /\ m.inFlight = n.inFlight /\ m.present /\ m.vgen = n.vgen
  BY <1>1, <1>5 DEF NodeOK, NodeFields
<1> HIDE DEF m
<1>8. Sound(a, WithNode(a, k, m)) /\ WithNode(a, k, m).nextGen = a.nextGen
  BY <1>3, <1>7, WithNodeSound DEF Sound
<1> QED
  BY <1>3, <1>6, <1>8, SoundTrans

(* A version waits behind the one under way, or takes its place.           *)
LEMMA EnqueueSound ==
  ASSUME NEW s, GraphOK(s), NEW k \in Keys, s.nodes[k].present, NEW r \in Parked(s.nextGen)
  PROVE  Sound(s, EnqueueBehindActive(s, k, r))
<1> DEFINE n == s.nodes[k]
           marked == [s EXCEPT !.nodes[k].superseded = TRUE]
           m == [n EXCEPT !.superseded = TRUE]
           from == IF HasExactDependent(s, Version(k, n.rev, n.vgen)) THEN s ELSE marked
           merged == IF r.coalesce THEN CoalesceSuccessors(from, k) ELSE s
           parked == ParkSuccessor(merged, k, r)
<1>1. EnqueueBehindActive(s, k, r) \in {parked, PromoteSuccessor(parked, k)}
  BY DEF EnqueueBehindActive
<1>2. marked = WithNode(s, k, m)
  BY DEF WithNode
<1>3. NodeOK(m, k, s.nextGen) /\ m.inFlight = n.inFlight /\ m.present /\ m.vgen = n.vgen
  <2>1. NodeOK(n, k, s.nextGen)
    BY DEF GraphOK, NodesOK
  <2> QED
    BY <2>1 DEF NodeOK, NodeFields
<1> HIDE DEF m, marked
<1>4. Sound(s, marked) /\ marked.nextGen = s.nextGen
  BY <1>2, <1>3, WithNodeSound
<1>5. Sound(s, from) /\ from.nextGen = s.nextGen
  BY <1>4, SoundRefl
<1> HIDE DEF from
<1>6. GraphOK(from) /\ from.nodes[k].present
  BY <1>5 DEF Sound, Kept
<1>7. Sound(from, CoalesceSuccessors(from, k)) /\ CoalesceSuccessors(from, k).nextGen = s.nextGen
  BY <1>5, <1>6, CoalesceSound
<1>8. Sound(s, merged) /\ merged.nextGen = s.nextGen
  BY <1>5, <1>7, SoundRefl, SoundTrans
<1> HIDE DEF merged
<1>9. GraphOK(merged) /\ merged.nodes[k].present
  BY <1>8 DEF Sound, Kept
<1>10. Sound(s, parked)
  BY <1>8, <1>9, ParkSound, SoundTrans
<1> HIDE DEF parked
<1>11. Sound(s, PromoteSuccessor(parked, k))
  BY <1>10, PromoteSound, SoundTrans DEF Sound
<1> QED
  BY <1>1, <1>10, <1>11

(* Requirements stay requirements when their handles are resolved.         *)
LEMMA ResolvedType ==
  ASSUME NEW s, GraphOK(s), NEW reqs \in Recipe
  PROVE  Resolved(s, reqs) \in Recipe
<1>1. ASSUME NEW q \in Requirement
      PROVE  [q EXCEPT !.gen = Canonical(s, Version(q.key, q.rev, q.gen)).gen] \in Requirement
  <2> DEFINE v == Version(q.key, q.rev, q.gen)
  <2>1. v \in Versions
    BY DEF Requirement, Version, Versions
  <2> HIDE DEF v
  <2>2. Canonical(s, v) \in Versions
    BY <2>1 DEF Canonical, GraphOK, TablesOK
  <2>3. Canonical(s, v).gen \in Nat
    BY <2>2 DEF Versions
  <2> QED
    BY <2>3 DEF Requirement, v
<1> QED
  BY <1>1 DEF Resolved, Recipe

(* Reserve gives the revision a generation that has been minted.           *)
LEMMA ReserveSound ==
  ASSUME NEW s, GraphOK(s), NEW r, Requested(r, s.nextGen)
  PROVE  LET u == Reserve(s, r)
         IN  Sound(s, u) /\ u.nodes[r.key].present /\ u.gens[<<r.key, r.rev>>] \in 1..u.nextGen
<1> DEFINE kr     == <<r.key, r.rev>>
           minted == r.gen = 0 /\ Entry(s.gens, kr) = 0 /\ Entry(s.reserved, kr) = 0
           gen    == IF Entry(s.gens, kr) # 0 THEN s.gens[kr] ELSE IF r.gen # 0 THEN r.gen
                     ELSE IF minted THEN s.nextGen + 1 ELSE s.reserved[kr]
           next   == IF minted THEN s.nextGen + 1 ELSE s.nextGen
           k      == r.key
           m      == [s.nodes[k] EXCEPT !.present = TRUE, !.desired = TRUE]
           u      == Reserve(s, r)
<1>0. /\ DOMAIN s = GraphFields /\ DOMAIN s.nodes = Keys /\ s.nextGen \in Nat /\ k \in Keys
      /\ r.gen \in 0..s.nextGen
  BY DEF GraphOK, NodesOK, Requested
<1>1. gen \in 1..next /\ next \in Nat /\ s.nextGen <= next
  <2>1. Entry(s.gens, kr) # 0 => s.gens[kr] \in 1..s.nextGen
    BY DEF Entry, GraphOK, TablesOK
  <2>2. Entry(s.reserved, kr) # 0 => s.reserved[kr] \in 1..s.nextGen
    BY DEF Entry, GraphOK, TablesOK
  <2> QED
    BY <1>0, <2>1, <2>2
<1>2. /\ DOMAIN u = GraphFields /\ DOMAIN u.nodes = Keys /\ u.nextGen = next
      /\ u.nodes[k] = m /\ \A d \in Keys \ {k} : u.nodes[d] = s.nodes[d]
      /\ u.gens = Enter(s.gens, kr, gen) /\ u.reserved \in {s.reserved, Enter(s.reserved, kr, gen)}
      /\ u.versions = s.versions /\ u.aliases = s.aliases
      /\ u.starting = s.starting /\ u.accepting = s.accepting /\ SameQueues(s, u)
  <2> HIDE DEF gen
  <2> QED
    BY <1>0 DEF Reserve, GraphFields, SameQueues, gen
<1> HIDE DEF u, gen, next, minted
<1>3. NodeOK(m, k, s.nextGen) /\ m.present /\ m.inFlight = s.nodes[k].inFlight /\ m.vgen = s.nodes[k].vgen
  <2>1. NodeOK(s.nodes[k], k, s.nextGen)
    BY <1>0 DEF GraphOK, NodesOK
  <2> QED
    BY <2>1 DEF NodeOK, NodeFields
<1> HIDE DEF m
<1>4. NodesOK(u)
  <2>1. \A d \in Keys : NodeOK(u.nodes[d], d, s.nextGen)
    BY <1>2, <1>3 DEF GraphOK, NodesOK
  <2> QED
    BY <1>0, <1>1, <1>2, <2>1, NodeGrows DEF NodesOK
<1>5. TablesOK(u)
  <2>1. 1..s.nextGen \subseteq 1..next
    BY <1>0, <1>1
  <2>2. Archivable(s.nextGen) \subseteq Archivable(next)
    BY <2>1 DEF Archivable
  <2>3. \A x \in DOMAIN u.gens : u.gens[x] \in 1..next
    <3>1. \A x \in DOMAIN s.gens : s.gens[x] \in 1..next
      BY <2>1 DEF GraphOK, TablesOK
    <3>2. \A x \in DOMAIN Enter(s.gens, kr, gen) : Enter(s.gens, kr, gen)[x] \in 1..next
      BY <1>1, <3>1, TableAdd
    <3> QED
      BY <1>2, <3>2
  <2>4. \A x \in DOMAIN u.reserved : u.reserved[x] \in 1..next
    <3>1. \A x \in DOMAIN s.reserved : s.reserved[x] \in 1..next
      BY <2>1 DEF GraphOK, TablesOK
    <3>2. \A x \in DOMAIN Enter(s.reserved, kr, gen) : Enter(s.reserved, kr, gen)[x] \in 1..next
      BY <1>1, <3>1, TableAdd
    <3> QED
      BY <1>2, <3>1, <3>2
  <2> QED
    BY <1>2, <2>2, <2>3, <2>4 DEF GraphOK, TablesOK
<1>6. QueuesOK(u)
  BY <1>2 DEF GraphOK, QueuesOK, SameQueues
<1>7. Kept(s, u)
  BY <1>0, <1>1, <1>2, <1>3 DEF Kept
<1>8. u.gens[kr] = gen
  BY <1>2 DEF Enter
<1> QED
  BY <1>1, <1>2, <1>3, <1>4, <1>5, <1>6, <1>7, <1>8 DEF Sound, GraphOK, u

(* Reborn gives it a new one.                                              *)
LEMMA RebornSound ==
  ASSUME NEW s, GraphOK(s), NEW kr
  PROVE  LET u == Reborn(s, kr)
         IN  Sound(s, u) /\ u.nodes = s.nodes /\ u.gens[kr] \in 1..u.nextGen
<1> DEFINE u == Reborn(s, kr)
           g == s.nextGen + 1
           up == [s EXCEPT !.nextGen = @ + 1]
<1>0. DOMAIN s = GraphFields /\ s.nextGen \in Nat
  BY DEF GraphOK, NodesOK
<1>1. Sound(s, up) /\ up.nextGen = g /\ up.nodes = s.nodes
  BY MintSound
<1>2. /\ DOMAIN up = GraphFields /\ up.gens = s.gens /\ up.reserved = s.reserved /\ up.versions = s.versions
      /\ up.aliases = s.aliases /\ up.starting = s.starting /\ up.accepting = s.accepting /\ SameQueues(s, up)
  BY <1>0 DEF GraphFields, SameQueues
<1>3. /\ DOMAIN u = GraphFields /\ u.nodes = s.nodes /\ u.nextGen = g
      /\ u.gens = Enter(s.gens, kr, g) /\ u.reserved = Enter(s.reserved, kr, g)
      /\ u.versions = s.versions /\ u.aliases = s.aliases /\ u.starting = s.starting /\ u.accepting = s.accepting
      /\ SameQueues(s, u)
  BY <1>0 DEF GraphFields, SameQueues, Reborn
<1> HIDE DEF up, u
<1>4. GraphOK(up)
  BY <1>1 DEF Sound
<1>5. TablesOK(u)
  <2>1. g \in 1..g
    BY <1>0
  <2> HIDE DEF g
  <2>2. /\ \A x \in DOMAIN u.gens : u.gens[x] \in 1..g
        /\ \A x \in DOMAIN u.reserved : u.reserved[x] \in 1..g
    <3>1. /\ \A x \in DOMAIN s.gens : s.gens[x] \in 1..g
          /\ \A x \in DOMAIN s.reserved : s.reserved[x] \in 1..g
      BY <1>1, <1>2, <1>4 DEF GraphOK, TablesOK
    <3>2. /\ \A x \in DOMAIN Enter(s.gens, kr, g) : Enter(s.gens, kr, g)[x] \in 1..g
          /\ \A x \in DOMAIN Enter(s.reserved, kr, g) : Enter(s.reserved, kr, g)[x] \in 1..g
      BY <2>1, <3>1, TableAdd
    <3> QED
      BY <1>3, <3>2
  <2> QED
    BY <1>1, <1>2, <1>3, <1>4, <2>2 DEF GraphOK, TablesOK
<1>6. NodesOK(u)
  BY <1>1, <1>2, <1>3, <1>4 DEF GraphOK, NodesOK
<1>7. QueuesOK(u)
  BY <1>3 DEF GraphOK, QueuesOK, SameQueues
<1>8. Kept(s, u)
  BY <1>0, <1>3 DEF Kept
<1>9. u.gens[kr] = g
  BY <1>3 DEF Enter
<1> QED
  BY <1>0, <1>3, <1>5, <1>6, <1>7, <1>8, <1>9 DEF Sound, GraphOK, u

(* A version that has a generation is installed or parked.                 *)
LEMMA AdmitSound ==
  ASSUME NEW s, GraphOK(s), NEW r, Requested(r, s.nextGen), NEW reqs \in Recipe,
         s.nodes[r.key].present, s.gens[<<r.key, r.rev>>] \in 1..s.nextGen
  PROVE  Sound(s, Admit(s, r, reqs))
<1> DEFINE k  == r.key
           kr == <<r.key, r.rev>>
           g  == s.gens[kr]
           e  == [rev |-> r.rev, gen |-> g, reqs |-> reqs, asked |-> reqs, coalesce |-> r.coalesce]
           a  == AliasPredicted(s, Version(r.key, r.rev, r.gen), Version(r.key, r.rev, g))
           m  == [s.nodes[k] EXCEPT !.latestReq = r.rev]
           b  == WithNode(a, k, m)
           c  == [a EXCEPT !.recipes = Enter(@, kr, reqs), !.nodes[r.key].latestReq = r.rev]
<1>0. k \in Keys /\ s.nextGen \in Nat /\ NodeOK(s.nodes[k], k, s.nextGen)
  BY DEF Requested, GraphOK, NodesOK
<1>1. e \in Parked(s.nextGen)
  BY DEF Parked, Requested
<1>2. Version(r.key, r.rev, g) \in Versions
  BY <1>0 DEF Version, Versions, Requested
<1>3. Admit(s, r, reqs) \in {EnqueueBehindActive(c, k, e), Install(c, k, e)}
  BY DEF Admit
<1> HIDE DEF e
<1>4. Sound(s, a) /\ a.nodes = s.nodes /\ a.nextGen = s.nextGen
  BY <1>2, AliasSound
<1> HIDE DEF a
<1>5. NodeOK(m, k, s.nextGen) /\ m.present /\ m.inFlight = s.nodes[k].inFlight /\ m.vgen = s.nodes[k].vgen
  BY <1>0 DEF NodeOK, NodeFields
<1>6. Sound(a, b) /\ b.nodes[k] = m /\ b.nextGen = s.nextGen
  <2> HIDE DEF m
  <2> QED
    BY <1>0, <1>4, <1>5, WithNodeSound DEF Sound
<1>7. /\ DOMAIN c = GraphFields /\ c.nodes = b.nodes /\ c.nextGen = b.nextGen
      /\ SameTables(b, c) /\ SameQueues(b, c)
  <2>1. DOMAIN a = GraphFields /\ DOMAIN a.nodes = Keys
    BY <1>4 DEF Sound, GraphOK, NodesOK
  <2> QED
    BY <1>4, <2>1 DEF GraphFields, SameTables, SameQueues, WithNode
<1> HIDE DEF b, c, m
<1>8. QueuesOK(c) /\ GraphOK(b)
  BY <1>6, <1>7 DEF Sound, GraphOK, QueuesOK, SameQueues
<1>9. Sound(b, c)
  BY <1>7, <1>8, QueueStep
<1>10. Sound(s, c)
  BY <1>4, <1>6, <1>9, SoundTrans
<1>11. GraphOK(c) /\ c.nodes[k].present /\ c.nextGen = s.nextGen
  BY <1>5, <1>6, <1>7, <1>10 DEF Sound
<1>12. Sound(c, EnqueueBehindActive(c, k, e)) /\ Sound(c, Install(c, k, e))
  <2> HIDE DEF k
  <2> QED
    BY <1>0, <1>1, <1>11, EnqueueSound, InstallSound
<1> QED
  BY <1>3, <1>10, <1>12, SoundTrans

(* The three cases of RequestInternal: refused, known already, admitted.   *)
LEMMA RequestSound ==
  ASSUME NEW s, GraphOK(s), NEW r, Requested(r, s.nextGen)
  PROVE  Sound(s, RequestInternal(s, r))
<1> DEFINE kr   == <<r.key, r.rev>>
           u    == Reserve(s, r)
           gen  == u.gens[kr]
           reqs == Resolved(s, r.reqs)
           new  == Entry(s.gens, kr) = 0
           w    == Reborn(u, kr)
           a    == RejectPredicted(u, r, gen, new)
           b    == AliasPredicted(u, Version(r.key, r.rev, r.gen), Version(r.key, r.rev, gen))
<1>1. RequestInternal(s, r) \in {a, b, Admit(w, r, reqs), Admit(u, r, reqs)}
  BY DEF RequestInternal
<1>2. Sound(s, u) /\ u.nodes[r.key].present /\ gen \in 1..u.nextGen
  BY ReserveSound
<1>3. reqs \in Recipe
  BY ResolvedType DEF Requested
<1> HIDE DEF u, reqs, new
<1>4. GraphOK(u) /\ Requested(r, u.nextGen) /\ u.nextGen \in Nat
  BY <1>2 DEF Sound, GraphOK, NodesOK, Kept, Requested
<1>5. Sound(u, w) /\ w.nodes = u.nodes /\ w.gens[kr] \in 1..w.nextGen
  BY <1>4, RebornSound
<1>6. Sound(u, Admit(u, r, reqs))
  BY <1>2, <1>3, <1>4, AdmitSound
<1>7. Sound(u, b)
  <2>1. Version(r.key, r.rev, gen) \in Versions
    BY <1>2, <1>4 DEF Version, Versions, Requested
  <2> QED
    BY <1>4, <2>1, AliasSound
<1>8. Sound(u, a)
  BY <1>4, RejectSound
<1> HIDE DEF w, a, b
<1>9. GraphOK(w) /\ Requested(r, w.nextGen)
  BY <1>4, <1>5 DEF Sound, GraphOK, NodesOK, Kept, Requested
<1>10. Sound(w, Admit(w, r, reqs))
  BY <1>2, <1>3, <1>5, <1>9, AdmitSound
<1>11. Sound(u, Admit(w, r, reqs))
  BY <1>4, <1>5, <1>10, SoundTrans
<1> QED
  BY <1>1, <1>2, <1>6, <1>7, <1>8, <1>11, SoundTrans

(* Invalidate requests again from a recipe the node holds.                 *)
LEMMA InvalidateSound ==
  ASSUME NEW s, GraphOK(s), NEW k \in Keys, NEW rev \in Nat \ {0}
  PROVE  Sound(s, Invalidate(s, k, rev))
<1> DEFINE q == s.nodes[k].successors
           reqs == IF q # <<>> THEN Last(q).reqs ELSE s.nodes[k].reqs
           r == [key |-> k, rev |-> rev, gen |-> 0, coalesce |-> FALSE, reqs |-> reqs]
<1>1. q \in Seq(Parked(s.nextGen)) /\ s.nodes[k].reqs \in Recipe /\ s.nextGen \in Nat
  BY DEF GraphOK, NodesOK, NodeOK
<1>2. q # <<>> => Last(q) \in Parked(s.nextGen)
  <2>1. q # <<>> => Len(q) \in 1..Len(q)
    BY <1>1
  <2> QED
    BY <1>1, <2>1, ElementOfSeq DEF Last
<1>3. reqs \in Recipe
  BY <1>1, <1>2 DEF Parked
<1>4. Invalidate(s, k, rev) = RequestInternal(s, r)
  BY DEF Invalidate
<1> HIDE DEF reqs
<1>5. Requested(r, s.nextGen)
  BY <1>1, <1>3 DEF Requested
<1> QED
  BY <1>4, <1>5, RequestSound

(* CancelLocked clears the parked versions and leaves a running build      *)
(* running.                                                                *)
LEMMA CancelSound ==
  ASSUME NEW s, GraphOK(s), NEW k \in Keys
  PROVE  Sound(s, CancelLocked(s, k))
<1> DEFINE n     == s.nodes[k]
           left  == RemoveWaiterEdges(s, k)
           freed == [left EXCEPT !.pins = PinsWithout(left, n.successors, 0)]
           m     == [freed.nodes[k] EXCEPT !.gen = @ + 1, !.desired = FALSE, !.successors = <<>>,
                                     !.retry = FALSE, !.waiting = 0, !.state = "Cancelled"]
<1>1. CASE ~n.present
  BY <1>1, SoundRefl DEF CancelLocked
<1>2. CASE n.present
  <2>1. CancelLocked(s, k) = WithNode(freed, k, m)
    BY <1>2 DEF CancelLocked
  <2>2. Sound(s, left)
    BY <1>2, RemoveSound
  <2> HIDE DEF left
  <2>3. Sound(left, freed)
    BY <2>2, PinSound DEF Sound
  <2> HIDE DEF freed
  <2>4. Sound(s, freed)
    BY <2>2, <2>3, SoundTrans
  <2>5. NodeOK(freed.nodes[k], k, freed.nextGen) /\ freed.nodes[k].present
    BY <1>2, <2>4 DEF Sound, Kept, GraphOK, NodesOK
  <2>6. /\ NodeOK(m, k, freed.nextGen) /\ m.inFlight = freed.nodes[k].inFlight /\ m.present
        /\ m.vgen = freed.nodes[k].vgen
    BY <2>5, ReadinessFacts DEF NodeOK, NodeFields
  <2> HIDE DEF m
  <2>7. Sound(freed, WithNode(freed, k, m))
    BY <2>4, <2>6, WithNodeSound DEF Sound
  <2> QED
    BY <2>1, <2>4, <2>7, SoundTrans
<1> QED
  BY <1>1, <1>2

\* As Sound, but a node that nothing builds may have been erased.
Applied(s, u) ==
    /\ GraphOK(u)
    /\ u.starting = s.starting /\ u.accepting = s.accepting /\ s.nextGen <= u.nextGen
    /\ \A k \in Keys : /\ u.nodes[k].inFlight <=> s.nodes[k].inFlight
                       /\ s.nodes[k].inFlight /\ s.nodes[k].vgen # 0 => u.nodes[k].vgen # 0

(* Applied is weaker than Sound: it lets a node that nothing builds be     *)
(* erased.                                                                 *)
LEMMA SoundApplied ==
  ASSUME NEW s, NEW u, Sound(s, u) PROVE Applied(s, u)
BY DEF Sound, Kept, Applied

(* Erase spares a node whose build is under way.                           *)
LEMMA EraseApplied ==
  ASSUME NEW s, NEW u, Sound(s, u), NEW k \in Keys
  PROVE  Applied(s, Erase(u, k))
<1>1. CASE u.nodes[k].inFlight \/ Consumers(u, k) # {}
  BY <1>1, SoundApplied DEF Erase
<1>2. CASE ~(u.nodes[k].inFlight \/ Consumers(u, k) # {})
  <2> DEFINE v == WithNode(u, k, NoNode)
  <2>1. DOMAIN u = GraphFields /\ DOMAIN u.nodes = Keys /\ u.nextGen \in Nat
    BY DEF Sound, GraphOK, NodesOK
  <2>2. /\ DOMAIN v = GraphFields /\ DOMAIN v.nodes = Keys /\ v.nextGen = u.nextGen /\ v.nodes[k] = NoNode
        /\ \A d \in Keys \ {k} : v.nodes[d] = u.nodes[d]
        /\ SameTables(u, v) /\ SameQueues(u, v)
    BY <2>1 DEF WithNode, GraphFields, SameTables, SameQueues
  <2>3. Erase(u, k) = v
    BY <1>2 DEF Erase
  <2> HIDE DEF v
  <2>4. NodeOK(NoNode, k, u.nextGen) /\ ~NoNode.inFlight
    BY <2>1, ReadinessFacts DEF NodeOK, NoNode, NodeFields, Recipe
  <2>5. NodesOK(v)
    BY <2>1, <2>2, <2>4 DEF Sound, GraphOK, NodesOK
  <2>6. TablesOK(v)
    BY <2>1, <2>2, TablesGrow DEF Sound, GraphOK
  <2>7. QueuesOK(v)
    BY <2>2 DEF Sound, GraphOK, QueuesOK, SameQueues
  <2>8. \A d \in Keys : /\ v.nodes[d].inFlight <=> s.nodes[d].inFlight
                        /\ s.nodes[d].inFlight /\ s.nodes[d].vgen # 0 => v.nodes[d].vgen # 0
    BY <1>2, <2>2, <2>4 DEF Sound, Kept
  <2> QED
    BY <2>2, <2>3, <2>5, <2>6, <2>7, <2>8 DEF Sound, Kept, Applied, GraphOK, SameTables
<1> QED
  BY <1>1, <1>2

LEMMA ReleaseApplied ==
  ASSUME NEW s, GraphOK(s), NEW k \in Keys
  PROVE  Applied(s, ReleaseLocked(s, k))
BY CancelSound, EraseApplied, SoundRefl, SoundApplied DEF ReleaseLocked

(* MarkPublishedLocked changes the readiness of an archived version, and   *)
(* of the cursor it is.                                                    *)
LEMMA MarkSound ==
  ASSUME NEW s, GraphOK(s), NEW v \in Versions
  PROVE  Sound(s, MarkPublishedLocked(s, v))
<1> DEFINE k      == v.key
           x      == Snapshot(v.key, v.rev, v.gen, "Published")
           old    == {y \in Archived(s, v) : y.readiness \in Publishable \ {"Published"}}
           marked == IF old = {} THEN s ELSE Archive(s, x)
           n      == s.nodes[k]
           m      == [n EXCEPT !.published = TRUE, !.state = IF @ = "GpuReady" THEN "Published" ELSE @]
           a      == WithNode(marked, k, m)
           b      == StoreVersion(a, k)
           c      == WakeWaiters(b, k)
<1>0. k \in Keys /\ s.nextGen \in Nat /\ NodeOK(n, k, s.nextGen)
  BY DEF Versions, GraphOK, NodesOK
<1>1. /\ MarkPublishedLocked(s, v) \in {marked, Announce(marked, CHOOSE y \in Archived(marked, v) : TRUE)}
      \/ /\ n.present
         /\ MarkPublishedLocked(s, v) \in {c, Announce(c, CHOOSE y \in Archived(c, v) : TRUE)}
  BY DEF MarkPublishedLocked
<1>2. Sound(s, marked) /\ marked.nodes = s.nodes /\ marked.nextGen = s.nextGen
  <2>1. CASE old = {}
    BY <2>1, SoundRefl
  <2>2. CASE old # {}
    <3>1. PICK y \in s.versions : Identity(y) = v
      BY <2>2 DEF Archived
    <3>2. y \in Archivable(s.nextGen)
      BY DEF GraphOK, TablesOK
    <3>3. v.rev = y.rev /\ v.gen = y.gen
      BY <3>1 DEF Identity, Version
    <3>4. x \in Archivable(s.nextGen)
      BY <1>0, <3>2, <3>3, ReadinessFacts DEF Archivable, Snapshot
    <3> QED
      BY <2>2, <3>4, ArchiveSound
  <2> QED
    BY <2>1, <2>2
<1> HIDE DEF marked, k
<1>3. ASSUME n.present PROVE Sound(s, c)
  <2>1. NodeOK(m, k, s.nextGen) /\ m.inFlight = n.inFlight /\ m.present /\ m.vgen = n.vgen
    BY <1>0, <1>3, ReadinessFacts DEF NodeOK, NodeFields
  <2> HIDE DEF m
  <2>2. Sound(marked, a)
    BY <1>0, <1>2, <1>3, <2>1, WithNodeSound DEF Sound
  <2> HIDE DEF a
  <2>3. Sound(a, b)
    BY <1>0, <2>2, StoreSound DEF Sound
  <2> HIDE DEF b
  <2>4. Sound(b, c)
    BY <1>0, <2>3, WakeSound DEF Sound
  <2> QED
    BY <1>2, <2>2, <2>3, <2>4, SoundTrans
<1> HIDE DEF c, old
<1>4. ASSUME NEW u, Sound(s, u), NEW y PROVE Sound(s, Announce(u, y))
  BY <1>4, AnnounceSound, SoundTrans DEF Sound
<1> QED
  BY <1>1, <1>2, <1>3, <1>4

(* Whatever client mutation the drain applies, what is in flight stays so. *)
LEMMA MutationApplied ==
  ASSUME NEW s, GraphOK(s), NEW o \in Postable(s.nextGen)
  PROVE  Applied(s, ApplyMutation(s, o))
<1>0. s.nextGen \in Nat /\ o.key \in Keys /\ o.op \in {"request", "invalidate", "cancel", "release", "publish"}
  BY DEF GraphOK, NodesOK, Postable
<1>1. CASE o.op = "request"
  <2>1. Requested(o, s.nextGen)
    BY <1>1 DEF Postable, Requested
  <2>2. ApplyMutation(s, o) = RequestInternal(s, o)
    BY <1>1 DEF ApplyMutation
  <2> QED
    BY <2>1, <2>2, RequestSound, SoundApplied
<1>2. CASE o.op = "invalidate"
  <2>1. o.rev \in Nat \ {0}
    BY <1>2 DEF Postable
  <2>2. ApplyMutation(s, o) = Invalidate(s, o.key, o.rev)
    BY <1>2 DEF ApplyMutation
  <2> QED
    BY <1>0, <2>1, <2>2, InvalidateSound, SoundApplied
<1>3. CASE o.op = "cancel"
  BY <1>0, <1>3, CancelSound, SoundApplied DEF ApplyMutation
<1>4. CASE o.op = "release"
  BY <1>0, <1>4, ReleaseApplied DEF ApplyMutation
<1>5. CASE o.op = "publish"
  <2> DEFINE w == Version(o.key, o.rev, o.gen)
             v == Canonical(s, w)
  <2>1. w \in Versions
    BY <1>5 DEF Postable, Version, Versions
  <2>2. v \in Versions
    BY <2>1 DEF Canonical, GraphOK, TablesOK
  <2>3. ApplyMutation(s, o) = MarkPublishedLocked(s, v)
    BY <1>5 DEF ApplyMutation
  <2> HIDE DEF v
  <2> QED
    BY <2>2, <2>3, MarkSound, SoundApplied
<1> QED
  BY <1>0, <1>1, <1>2, <1>3, <1>4, <1>5

-----------------------------------------------------------------------------
(* A node that reached a milestone, and what follows from that.            *)
LEMMA SettleSound ==
  ASSUME NEW s, GraphOK(s), NEW k \in Keys, s.nodes[k].present, NEW state \in Readiness
  PROVE  Sound(s, Settle(s, k, state))
<1> DEFINE m == [s.nodes[k] EXCEPT !.state = state]
           a == WithState(s, k, state)
           told == Publish(a, k)
<1>1. Settle(s, k, state) \in {told, Advance(told, k)}
  BY DEF Settle
<1>2. a = WithNode(s, k, m)
  BY DEF WithState, WithNode
<1>3. NodeOK(m, k, s.nextGen) /\ m.inFlight = s.nodes[k].inFlight /\ m.present /\ m.vgen = s.nodes[k].vgen
  <2>1. NodeOK(s.nodes[k], k, s.nextGen)
    BY DEF GraphOK, NodesOK
  <2> QED
    BY <2>1 DEF NodeOK, NodeFields
<1> HIDE DEF m, a
<1>4. Sound(s, a)
  BY <1>2, <1>3, WithNodeSound
<1>5. Sound(s, told)
  BY <1>4, PublishSound, SoundTrans DEF Sound
<1> HIDE DEF told
<1>6. Sound(s, Advance(told, k))
  BY <1>5, AdvanceSound, SoundTrans DEF Sound
<1> QED
  BY <1>1, <1>5, <1>6

(* ApplyReady subscribes only addresses whose results carry a submission   *)
(* set.                                                                    *)
LEMMA ReadySound ==
  ASSUME NEW s, GraphOK(s), NEW c, c.key \in Keys, s.nodes[c.key].present, c.rev \in Nat,
         c.rev # 0 => s.nodes[c.key].vgen # 0,
         NEW gpu, gpu \in {"recorded", "submitted"} => c.key \in GpuKeys
  PROVE  Sound(s, ApplyReady(s, c, gpu))
<1> DEFINE k    == c.key
           n    == s.nodes[k]
           busy == gpu \in {"recorded", "submitted"}
           used == {d \in c.deps : d.key \in LatestOf(n)}
           edges == n.edges \cap LatestOf(n)
           m    == [PruneCompletedWaiterEdges(n) EXCEPT
                    !.terminal = FALSE, !.retry = FALSE, !.suspended = FALSE, !.published = FALSE,
                    !.produced = c.rev, !.used = used, !.waiting = IF busy THEN c.gen ELSE 0]
           a    == WithNode(s, k, m)
           u    == [a EXCEPT
                    !.subscribing = IF busy THEN @ \cup {<<k, c.gen>>} ELSE @,
                    !.recovery    = IF busy /\ k \notin Notifying THEN @ \cup {k} ELSE @]
<1>1. ApplyReady(s, c, gpu) \in {Settle(u, k, "CpuReady"), Settle(u, k, "UploadSubmitted"), Settle(u, k, "GpuReady")}
  BY DEF ApplyReady
<1>2. NodeOK(n, k, s.nextGen)
  BY DEF GraphOK, NodesOK
<1>3. NodeOK(m, k, s.nextGen) /\ m.inFlight = n.inFlight /\ m.present /\ m.vgen = n.vgen
  <2> HIDE DEF used
  <2>1. /\ DOMAIN m = NodeFields /\ m.inFlight = n.inFlight /\ m.present = n.present /\ m.vgen = n.vgen
        /\ m.produced = c.rev /\ m.rev = n.rev /\ m.state = n.state /\ m.reqs = n.reqs /\ m.asked = n.asked
        /\ m.successors = n.successors /\ m.coalesce = n.coalesce /\ m.gen = n.gen /\ m.edges = edges
    BY <1>2 DEF NodeOK, NodeFields, PruneCompletedWaiterEdges
  <2> HIDE DEF m
  <2> QED
    BY <1>2, <2>1 DEF NodeOK
<1> HIDE DEF m
<1>4. Sound(s, a) /\ a.nodes[k] = m
  BY <1>3, WithNodeSound
<1> HIDE DEF a
<1>5. DOMAIN a = GraphFields /\ QueuesOK(a)
  BY <1>4 DEF Sound, GraphOK, NodesOK
<1>6. /\ DOMAIN u = GraphFields /\ u.nodes = a.nodes /\ u.nextGen = a.nextGen /\ SameTables(a, u)
      /\ u.pending = a.pending /\ u.wakes = a.wakes /\ u.retries = a.retries
      /\ u.recovery \subseteq a.recovery \cup {k}
      /\ \A t \in u.subscribing : t \in a.subscribing \/ (busy /\ t = <<k, c.gen>>)
  BY <1>5 DEF GraphFields, SameTables
<1> HIDE DEF u
<1>7. QueuesOK(u)
  BY <1>5, <1>6 DEF QueuesOK
<1>8. Sound(a, u)
  BY <1>4, <1>6, <1>7, QueueStep DEF Sound
<1>9. Sound(s, u) /\ u.nodes[k].present
  BY <1>3, <1>4, <1>6, <1>8, SoundTrans
<1>10. ASSUME NEW state \in Readiness PROVE Sound(s, Settle(u, k, state))
  BY <1>9, SettleSound, SoundTrans DEF Sound
<1> QED
  BY <1>1, <1>10, ReadinessFacts

(* Rewire replaces the recipe in force.                                    *)
LEMMA RewireSound ==
  ASSUME NEW s, GraphOK(s), NEW k \in Keys, s.nodes[k].present, NEW reqs \in Recipe
  PROVE  Sound(s, Rewire(s, k, reqs)) /\ Rewire(s, k, reqs).nodes[k].present
<1> DEFINE left == RemoveWaiterEdges(s, k)
           m    == [left.nodes[k] EXCEPT !.reqs = reqs, !.retry = FALSE]
           a    == WithNode(left, k, m)
<1>1. Rewire(s, k, reqs) = InstallWaiterEdges(a, k)
  BY DEF Rewire, WithNode
<1>2. Sound(s, left)
  BY RemoveSound
<1> HIDE DEF left
<1>3. NodeOK(left.nodes[k], k, left.nextGen) /\ left.nodes[k].present
  BY <1>2 DEF Sound, Kept, GraphOK, NodesOK
<1>4. NodeOK(m, k, left.nextGen) /\ m.inFlight = left.nodes[k].inFlight /\ m.present /\ m.vgen = left.nodes[k].vgen
  BY <1>3 DEF NodeOK, NodeFields
<1> HIDE DEF m
<1>5. Sound(left, a) /\ a.nodes[k] = m
  BY <1>2, <1>4, WithNodeSound DEF Sound
<1> HIDE DEF a
<1>6. Sound(a, InstallWaiterEdges(a, k)) /\ InstallWaiterEdges(a, k).nodes[k].present
  BY <1>4, <1>5, InstallEdgesSound DEF Sound
<1> QED
  BY <1>1, <1>2, <1>5, <1>6, SoundTrans

(* ApplySuspension parks the build or, when its notification came first,   *)
(* queues it.                                                              *)
LEMMA SuspensionSound ==
  ASSUME NEW s, GraphOK(s), NEW c, c.key \in Keys, s.nodes[c.key].present
  PROVE  Sound(s, ApplySuspension(s, c))
<1> DEFINE k  == c.key
           id == <<c.key, c.gen>>
           late == id \notin s.latched
           m  == [s.nodes[k] EXCEPT !.state = "Blocked", !.retry = FALSE, !.suspended = late]
           u  == [s EXCEPT !.nodes[c.key].state = "Blocked", !.nodes[c.key].retry = FALSE,
                           !.nodes[c.key].suspended = id \notin s.latched]
           a  == [u EXCEPT !.latched = @ \ {id}]
           b  == [u EXCEPT !.parked = @ \cup {[id |-> id, rev |-> c.rev]}]
<1>1. ApplySuspension(s, c) \in {QueueNode(a, k), b}
  BY DEF ApplySuspension
<1>2. u = WithNode(s, k, m)
  BY DEF WithNode
<1>3. NodeOK(m, k, s.nextGen) /\ m.inFlight = s.nodes[k].inFlight /\ m.present /\ m.vgen = s.nodes[k].vgen
  <2>1. NodeOK(s.nodes[k], k, s.nextGen)
    BY DEF GraphOK, NodesOK
  <2> HIDE DEF late
  <2> QED
    BY <2>1, ReadinessFacts DEF NodeOK, NodeFields
<1> HIDE DEF m, u
<1>4. Sound(s, u)
  BY <1>2, <1>3, WithNodeSound
<1>5. DOMAIN u = GraphFields
  BY <1>4 DEF Sound, GraphOK, NodesOK
<1> HIDE DEF id
<1>6. /\ DOMAIN a = GraphFields /\ a.nodes = u.nodes /\ a.nextGen = u.nextGen /\ SameTables(u, a) /\ SameQueues(u, a)
      /\ DOMAIN b = GraphFields /\ b.nodes = u.nodes /\ b.nextGen = u.nextGen /\ SameTables(u, b) /\ SameQueues(u, b)
  BY <1>5 DEF GraphFields, SameTables, SameQueues
<1> HIDE DEF a, b
<1>7. QueuesOK(a) /\ QueuesOK(b)
  BY <1>4, <1>6 DEF Sound, GraphOK, QueuesOK, SameQueues
<1>8. Sound(u, a) /\ Sound(u, b)
  BY <1>4, <1>6, <1>7, QueueStep DEF Sound
<1>9. Sound(s, a) /\ Sound(s, b)
  BY <1>4, <1>8, SoundTrans
<1>10. Sound(s, QueueNode(a, k))
  BY <1>9, QueueNodeSound, SoundTrans DEF Sound
<1> QED
  BY <1>1, <1>9, <1>10

(* ApplyTermination wakes the consumers and promotes the next version.     *)
LEMMA TerminationSound ==
  ASSUME NEW s, GraphOK(s), NEW c, c.key \in Keys, s.nodes[c.key].present, NEW state \in Readiness
  PROVE  Sound(s, ApplyTermination(s, c, state))
<1> DEFINE k  == c.key
           end == IF state = "Failed" THEN TRUE ELSE s.nodes[k].terminal
           m  == [s.nodes[k] EXCEPT !.state = state, !.terminal = end]
           u  == [s EXCEPT !.nodes[c.key].state = state,
                       !.nodes[c.key].terminal = IF state = "Failed" THEN TRUE ELSE @]
           a  == Announce(u, Snapshot(c.key, c.rev, c.gen, state))
           b  == StoreVersion(a, k)
           d  == WakeWaiters(b, k)
<1>1. ApplyTermination(s, c, state) = PromoteSuccessor(d, k)
  BY DEF ApplyTermination
<1>2. u = WithNode(s, k, m)
  <2>1. NodeOK(s.nodes[k], k, s.nextGen)
    BY DEF GraphOK, NodesOK
  <2>2. DOMAIN s = GraphFields /\ DOMAIN s.nodes = Keys
    BY DEF GraphOK, NodesOK
  <2>3. CASE state = "Failed"
    BY <2>3 DEF WithNode
  <2>4. CASE state # "Failed"
    <3>1. /\ u = [s EXCEPT !.nodes[c.key].state = state, !.nodes[c.key].terminal = @]
          /\ m = [s.nodes[k] EXCEPT !.state = state, !.terminal = s.nodes[k].terminal]
      BY <2>4
    <3> HIDE DEF u, m
    <3> QED
      BY <2>1, <2>2, <3>1 DEF WithNode, NodeOK, NodeFields, GraphFields
  <2> QED
    BY <2>3, <2>4
<1>3. NodeOK(m, k, s.nextGen) /\ m.inFlight = s.nodes[k].inFlight /\ m.present /\ m.vgen = s.nodes[k].vgen
  <2>1. NodeOK(s.nodes[k], k, s.nextGen)
    BY DEF GraphOK, NodesOK
  <2> HIDE DEF end
  <2> QED
    BY <2>1 DEF NodeOK, NodeFields
<1> HIDE DEF m, u
<1>4. Sound(s, u)
  BY <1>2, <1>3, WithNodeSound
<1>5. Sound(s, a)
  BY <1>4, AnnounceSound, SoundTrans DEF Sound
<1> HIDE DEF a
<1>6. Sound(s, b)
  BY <1>5, StoreSound, SoundTrans DEF Sound
<1> HIDE DEF b
<1>7. Sound(s, d)
  BY <1>6, WakeSound, SoundTrans DEF Sound
<1> HIDE DEF d
<1> QED
  BY <1>1, <1>7, PromoteSound, SoundTrans DEF Sound

(* The node of a completion with buildInFlight cleared.                    *)
LEMMA IdleFacts ==
  ASSUME NEW s, GraphOK(s), NEW k \in Keys, s.nodes[k].present
  PROVE  LET idle == [s EXCEPT !.nodes[k].inFlight = FALSE]
         IN  /\ GraphOK(idle) /\ idle.nodes[k].present /\ idle.nodes[k].vgen = s.nodes[k].vgen
             /\ ~idle.nodes[k].inFlight
             /\ \A d \in Keys \ {k} : idle.nodes[d] = s.nodes[d]
             /\ idle.starting = s.starting /\ idle.accepting = s.accepting /\ idle.nextGen = s.nextGen
<1> DEFINE m == [s.nodes[k] EXCEPT !.inFlight = FALSE]
           idle == [s EXCEPT !.nodes[k].inFlight = FALSE]
<1>1. DOMAIN s = GraphFields /\ DOMAIN s.nodes = Keys /\ s.nextGen \in Nat /\ NodeOK(s.nodes[k], k, s.nextGen)
  BY DEF GraphOK, NodesOK
<1>2. /\ DOMAIN idle = GraphFields /\ DOMAIN idle.nodes = Keys /\ idle.nextGen = s.nextGen /\ idle.nodes[k] = m
      /\ \A d \in Keys \ {k} : idle.nodes[d] = s.nodes[d]
      /\ SameTables(s, idle) /\ SameQueues(s, idle)
  BY <1>1 DEF GraphFields, SameTables, SameQueues
<1>3. NodeOK(m, k, s.nextGen) /\ ~m.inFlight /\ m.present /\ m.vgen = s.nodes[k].vgen
  BY <1>1 DEF NodeOK, NodeFields
<1> HIDE DEF idle, m
<1>4. NodesOK(idle)
  BY <1>1, <1>2, <1>3 DEF GraphOK, NodesOK
<1>5. TablesOK(idle)
  BY <1>1, <1>2, TablesGrow DEF GraphOK
<1>6. QueuesOK(idle)
  BY <1>2 DEF GraphOK, QueuesOK, SameQueues
<1> QED
  BY <1>2, <1>3, <1>4, <1>5, <1>6 DEF GraphOK, SameTables, idle

(* ApplyCompletion clears the flag of its own address and of no other.     *)
LEMMA CompletionApplied ==
  ASSUME NEW s, GraphOK(s), NEW c, c.key \in Keys, s.nodes[c.key].present, c.rev \in Nat, c.reqs \in Recipe,
         c.outcome \in Reports, c.rev # 0 => s.nodes[c.key].vgen # 0,
         NEW gpu, gpu \in {"recorded", "submitted"} => c.key \in GpuKeys
  PROVE  Applied([s EXCEPT !.nodes[c.key].inFlight = FALSE], ApplyCompletion(s, c, gpu))
<1> DEFINE k    == c.key
           idle == [s EXCEPT !.nodes[k].inFlight = FALSE]
           live == [idle EXCEPT !.nodes[k].terminal = FALSE]
           waits == [live EXCEPT !.nodes[k].state = "Blocked", !.nodes[k].retry = TRUE,
                                 !.retries = @ \cup {<<k, c.gen>>}]
           more == Rewire(live, k, s.nodes[k].reqs \cup c.reqs)
           free == [more EXCEPT !.nodes[k].suspended = FALSE]
           A1 == QueueNode(idle, k)
           A2 == ApplyReady(idle, c, gpu)
           A3 == QueueUnlessCyclic(Rewire(live, k, c.reqs), k)
           A4 == ApplySuspension(live, c)
           A5 == QueueNode(free, k)
           A6 == ApplyTermination(idle, c, "Cancelled")
           A7 == ApplyTermination(idle, c, "Failed")
           S  == {A1, A2, A3, waits, A4, A5, A6, A7}
<1>1. \E a \in S : ApplyCompletion(s, c, gpu) \in {a, Erase(a, k)}
  <2> HIDE DEF idle
  <2>1. c.outcome \in {"ready", "needs", "retry", "failed", "suspend", "suspendExact", "cancelled"}
    BY DEF Reports, Outcome
  <2> QED
    BY <2>1 DEF ApplyCompletion, idle
<1>2. GraphOK(idle) /\ idle.nodes[k].present /\ idle.nodes[k].vgen = s.nodes[k].vgen
  BY IdleFacts
<1> HIDE DEF idle
<1>3. Sound(idle, live) /\ live.nodes[k].present
  <2> DEFINE m == [idle.nodes[k] EXCEPT !.terminal = FALSE]
  <2>1. live = WithNode(idle, k, m)
    BY DEF WithNode
  <2>2. NodeOK(m, k, idle.nextGen) /\ m.inFlight = idle.nodes[k].inFlight /\ m.present /\ m.vgen = idle.nodes[k].vgen
    <3>1. NodeOK(idle.nodes[k], k, idle.nextGen)
      BY <1>2 DEF GraphOK, NodesOK
    <3> QED
      BY <1>2, <3>1 DEF NodeOK, NodeFields
  <2> HIDE DEF m, live
  <2>3. Sound(idle, live) /\ live.nodes[k] = m
    BY <1>2, <2>1, <2>2, WithNodeSound
  <2> QED
    BY <2>2, <2>3
<1>4. GraphOK(live)
  BY <1>3 DEF Sound
<1>5. Sound(idle, waits)
  <2> DEFINE m == [live.nodes[k] EXCEPT !.state = "Blocked", !.retry = TRUE]
             u == WithNode(live, k, m)
  <2> HIDE DEF live
  <2>1. NodeOK(live.nodes[k], k, live.nextGen) /\ DOMAIN live = GraphFields /\ DOMAIN live.nodes = Keys
    BY <1>4 DEF GraphOK, NodesOK
  <2>2. NodeOK(m, k, live.nextGen) /\ m.inFlight = live.nodes[k].inFlight /\ m.present /\ m.vgen = live.nodes[k].vgen
    BY <1>3, <2>1, ReadinessFacts DEF NodeOK, NodeFields
  <2>3. /\ DOMAIN waits = GraphFields /\ waits.nodes = u.nodes /\ waits.nextGen = u.nextGen
        /\ SameTables(u, waits) /\ waits.retries = u.retries \cup {<<k, c.gen>>}
        /\ waits.pending = u.pending /\ waits.wakes = u.wakes /\ waits.recovery = u.recovery
        /\ waits.subscribing = u.subscribing
    BY <2>1 DEF WithNode, GraphFields, SameTables
  <2> HIDE DEF m, waits
  <2>4. Sound(live, u)
    BY <1>3, <1>4, <2>2, WithNodeSound
  <2> HIDE DEF u
  <2>5. QueuesOK(waits)
    BY <2>3, <2>4 DEF Sound, GraphOK, QueuesOK
  <2>6. Sound(u, waits)
    BY <2>3, <2>4, <2>5, QueueStep DEF Sound
  <2> QED
    BY <1>2, <1>3, <2>4, <2>6, SoundTrans
<1>6. Sound(idle, A3)
  <2> HIDE DEF live
  <2>1. Sound(live, Rewire(live, k, c.reqs))
    BY <1>3, <1>4, RewireSound
  <2>2. Sound(live, A3)
    BY <1>4, <2>1, QueueUnlessSound, SoundTrans DEF Sound
  <2> QED
    BY <1>2, <1>3, <2>2, SoundTrans
<1>7. Sound(idle, A5)
  <2> HIDE DEF live
  <2>1. s.nodes[k].reqs \cup c.reqs \in Recipe
    BY DEF GraphOK, NodesOK, NodeOK, Recipe
  <2>2. Sound(live, more) /\ more.nodes[k].present
    BY <1>3, <1>4, <2>1, RewireSound
  <2> HIDE DEF more
  <2> DEFINE m == [more.nodes[k] EXCEPT !.suspended = FALSE]
  <2>3. free = WithNode(more, k, m)
    BY DEF WithNode
  <2>4. NodeOK(more.nodes[k], k, more.nextGen)
    BY <2>2 DEF Sound, GraphOK, NodesOK
  <2>5. NodeOK(m, k, more.nextGen) /\ m.inFlight = more.nodes[k].inFlight /\ m.present /\ m.vgen = more.nodes[k].vgen
    BY <2>2, <2>4 DEF NodeOK, NodeFields
  <2> HIDE DEF free, m
  <2>6. Sound(more, free)
    BY <2>2, <2>3, <2>5, WithNodeSound DEF Sound
  <2>7. Sound(free, A5)
    BY <2>6, QueueNodeSound DEF Sound
  <2> QED
    BY <1>2, <1>3, <2>2, <2>6, <2>7, SoundTrans
<1>8. Sound(idle, A4)
  <2> HIDE DEF live
  <2> QED
    BY <1>2, <1>3, <1>4, SuspensionSound, SoundTrans
<1>9. Sound(idle, A1) /\ Sound(idle, A2) /\ Sound(idle, A6) /\ Sound(idle, A7)
  BY <1>2, QueueNodeSound, ReadySound, TerminationSound, ReadinessFacts
<1>10. \A a \in S : Sound(idle, a)
  <2> HIDE DEF A1, A2, A3, A4, A5, A6, A7, waits
  <2> QED
    BY <1>5, <1>6, <1>7, <1>8, <1>9
<1> HIDE DEF S
<1>11. Applied(idle, ApplyCompletion(s, c, gpu))
  BY <1>1, <1>10, EraseApplied, SoundApplied
<1> QED
  BY <1>11 DEF idle

(* ApplyGpu, whatever the state of the submission set.                     *)
LEMMA GpuSound ==
  ASSUME NEW s, GraphOK(s), NEW k \in Keys, s.nodes[k].present, NEW gpu
  PROVE  Sound(s, ApplyGpu(s, k, gpu))
<1> DEFINE n      == s.nodes[k]
           failed == [n EXCEPT !.terminal = TRUE, !.waiting = 0, !.state = "Failed"]
           one    == [n EXCEPT !.state = "UploadSubmitted"]
           told   == Publish(WithState(s, k, "UploadSubmitted"), k)
           upload == IF n.state = "CpuReady" THEN told ELSE s
           to     == IF n.published THEN "Published" ELSE "GpuReady"
           m      == [upload.nodes[k] EXCEPT !.waiting = 0, !.state = to]
           last   == [upload EXCEPT !.nodes[k].waiting = 0, !.nodes[k].state = to]
           done   == Publish(last, k)
           ended  == Publish(WithNode(s, k, failed), k)
<1>1. ApplyGpu(s, k, gpu) \in {PromoteSuccessor(ended, k), PromoteSuccessor(done, k), Advance(upload, k), s}
  BY DEF ApplyGpu
<1>2. NodeOK(n, k, s.nextGen)
  BY DEF GraphOK, NodesOK
<1>3. /\ NodeOK(failed, k, s.nextGen) /\ failed.inFlight = n.inFlight /\ failed.present /\ failed.vgen = n.vgen
      /\ NodeOK(one, k, s.nextGen) /\ one.inFlight = n.inFlight /\ one.present /\ one.vgen = n.vgen
  BY <1>2, ReadinessFacts DEF NodeOK, NodeFields
<1>4. Sound(s, PromoteSuccessor(ended, k))
  <2> HIDE DEF failed
  <2>1. Sound(s, WithNode(s, k, failed))
    BY <1>3, WithNodeSound
  <2>2. Sound(s, ended)
    BY <2>1, PublishSound, SoundTrans DEF Sound
  <2> HIDE DEF ended
  <2> QED
    BY <2>2, PromoteSound, SoundTrans DEF Sound
<1>5. Sound(s, upload)
  <2>1. WithState(s, k, "UploadSubmitted") = WithNode(s, k, one)
    BY DEF WithState, WithNode
  <2> HIDE DEF one
  <2>2. Sound(s, WithNode(s, k, one))
    BY <1>3, WithNodeSound
  <2>3. Sound(s, told)
    BY <2>1, <2>2, PublishSound, SoundTrans DEF Sound
  <2> QED
    BY <2>3, SoundRefl
<1> HIDE DEF upload
<1>6. Sound(s, PromoteSuccessor(done, k))
  <2>1. NodeOK(upload.nodes[k], k, upload.nextGen) /\ upload.nodes[k].present
    BY <1>5 DEF Sound, Kept, GraphOK, NodesOK
  <2>2. last = WithNode(upload, k, m)
    BY DEF WithNode
  <2>3. to \in Readiness
    BY ReadinessFacts
  <2> HIDE DEF to
  <2>4. NodeOK(m, k, upload.nextGen) /\ m.inFlight = upload.nodes[k].inFlight /\ m.present /\ m.vgen = upload.nodes[k].vgen
    BY <2>1, <2>3 DEF NodeOK, NodeFields
  <2> HIDE DEF m, last
  <2>5. Sound(upload, last)
    BY <1>5, <2>2, <2>4, WithNodeSound DEF Sound
  <2>6. Sound(s, last)
    BY <1>5, <2>5, SoundTrans
  <2>7. Sound(s, done)
    BY <2>6, PublishSound, SoundTrans DEF Sound
  <2> HIDE DEF done
  <2> QED
    BY <2>7, PromoteSound, SoundTrans DEF Sound
<1>7. Sound(s, Advance(upload, k))
  BY <1>5, AdvanceSound, SoundTrans DEF Sound
<1> QED
  BY <1>1, <1>4, <1>6, <1>7, SoundRefl

-----------------------------------------------------------------------------
(* A notification frees the parked build, or is remembered.                *)
LEMMA SuspensionSatisfiedSound ==
  ASSUME NEW s, GraphOK(s), NEW id, id[1] \in Keys
  PROVE  Sound(s, SuspensionSatisfied(s, id))
<1> DEFINE k    == id[1]
           n    == s.nodes[k]
           mine == {x \in s.parked : x.id = id}
           u    == [s EXCEPT !.parked = @ \ mine]
           late == [s EXCEPT !.latched = @ \cup {id}]
           free == [u EXCEPT !.nodes[k].suspended = FALSE]
<1>1. SuspensionSatisfied(s, id) \in {late, u} \/ (n.present /\ SuspensionSatisfied(s, id) = QueueNode(free, k))
  BY DEF SuspensionSatisfied
<1>2. DOMAIN s = GraphFields
  BY DEF GraphOK, NodesOK
<1> HIDE DEF mine
<1>3. /\ DOMAIN u = GraphFields /\ u.nodes = s.nodes /\ u.nextGen = s.nextGen /\ SameTables(s, u) /\ SameQueues(s, u)
      /\ DOMAIN late = GraphFields /\ late.nodes = s.nodes /\ late.nextGen = s.nextGen
      /\ SameTables(s, late) /\ SameQueues(s, late)
  BY <1>2 DEF GraphFields, SameTables, SameQueues
<1> HIDE DEF u, late
<1>4. QueuesOK(u) /\ QueuesOK(late)
  BY <1>3 DEF GraphOK, QueuesOK, SameQueues
<1>5. Sound(s, u) /\ Sound(s, late)
  BY <1>3, <1>4, QueueStep
<1>6. ASSUME n.present PROVE Sound(s, QueueNode(free, k))
  <2> DEFINE m == [u.nodes[k] EXCEPT !.suspended = FALSE]
  <2>1. free = WithNode(u, k, m)
    BY DEF WithNode
  <2>2. NodeOK(u.nodes[k], k, u.nextGen) /\ u.nodes[k].present
    BY <1>3, <1>5, <1>6 DEF Sound, GraphOK, NodesOK
  <2>3. NodeOK(m, k, u.nextGen) /\ m.inFlight = u.nodes[k].inFlight /\ m.present /\ m.vgen = u.nodes[k].vgen
    BY <2>2 DEF NodeOK, NodeFields
  <2> HIDE DEF m, free
  <2>4. Sound(u, free)
    BY <1>5, <2>1, <2>3, WithNodeSound DEF Sound
  <2>5. Sound(s, free)
    BY <1>5, <2>4, SoundTrans
  <2> QED
    BY <2>5, QueueNodeSound, SoundTrans DEF Sound
<1> QED
  BY <1>1, <1>5, <1>6

(* The drain's own books: fields the invariant is not about, and queues.   *)
LEMMA PolledSound ==
  ASSUME NEW s, GraphOK(s), NEW polled, NEW recovery \in SUBSET Keys
  PROVE  LET u == [s EXCEPT !.polled = polled, !.recovery = recovery] IN Sound(s, u) /\ u.nodes = s.nodes
<1> DEFINE u == [s EXCEPT !.polled = polled, !.recovery = recovery]
<1>1. DOMAIN s = GraphFields
  BY DEF GraphOK, NodesOK
<1>2. /\ DOMAIN u = GraphFields /\ u.nodes = s.nodes /\ u.nextGen = s.nextGen /\ SameTables(s, u)
      /\ u.pending = s.pending /\ u.wakes = s.wakes /\ u.retries = s.retries /\ u.recovery = recovery
      /\ u.subscribing = s.subscribing
  BY <1>1 DEF GraphFields, SameTables
<1> HIDE DEF u
<1>3. QueuesOK(u)
  BY <1>2 DEF GraphOK, QueuesOK
<1>4. Sound(s, u)
  BY <1>2, <1>3, QueueStep
<1> QED
  BY <1>2, <1>4 DEF u

LEMMA RetriesSound ==
  ASSUME NEW s, GraphOK(s), NEW retries \in SUBSET s.retries
  PROVE  LET u == [s EXCEPT !.retries = retries] IN Sound(s, u) /\ u.nodes = s.nodes
<1> DEFINE u == [s EXCEPT !.retries = retries]
<1>1. DOMAIN s = GraphFields
  BY DEF GraphOK, NodesOK
<1>2. /\ DOMAIN u = GraphFields /\ u.nodes = s.nodes /\ u.nextGen = s.nextGen /\ SameTables(s, u)
      /\ u.pending = s.pending /\ u.wakes = s.wakes /\ u.retries = retries /\ u.recovery = s.recovery
      /\ u.subscribing = s.subscribing
  BY <1>1 DEF GraphFields, SameTables
<1> HIDE DEF u
<1>3. QueuesOK(u)
  BY <1>2 DEF GraphOK, QueuesOK
<1>4. Sound(s, u)
  BY <1>2, <1>3, QueueStep
<1> QED
  BY <1>2, <1>4 DEF u

LEMMA DelayedSound ==
  ASSUME NEW s, GraphOK(s)
  PROVE  Sound(s, [s EXCEPT !.delayed = TRUE])
<1> DEFINE u == [s EXCEPT !.delayed = TRUE]
<1>1. DOMAIN s = GraphFields
  BY DEF GraphOK, NodesOK
<1>2. DOMAIN u = GraphFields /\ u.nodes = s.nodes /\ u.nextGen = s.nextGen /\ SameTables(s, u) /\ SameQueues(s, u)
  BY <1>1 DEF GraphFields, SameTables, SameQueues
<1> HIDE DEF u
<1>3. QueuesOK(u)
  BY <1>2 DEF GraphOK, QueuesOK, SameQueues
<1>4. Sound(s, u)
  BY <1>2, <1>3, QueueStep
<1> QED
  BY <1>4 DEF u

LEMMA WaitersSound ==
  ASSUME NEW s, GraphOK(s), NEW waiters, NEW dropped
  PROVE  /\ Sound(s, [s EXCEPT !.waiters = waiters, !.dropped = dropped])
         /\ Sound(s, [s EXCEPT !.waiters = waiters])
         /\ Sound(s, [s EXCEPT !.dropped = dropped])
<1> DEFINE a == [s EXCEPT !.waiters = waiters, !.dropped = dropped]
           b == [s EXCEPT !.waiters = waiters]
           c == [s EXCEPT !.dropped = dropped]
<1>1. DOMAIN s = GraphFields
  BY DEF GraphOK, NodesOK
<1>2. /\ DOMAIN a = GraphFields /\ a.nodes = s.nodes /\ a.nextGen = s.nextGen /\ SameTables(s, a) /\ SameQueues(s, a)
      /\ DOMAIN b = GraphFields /\ b.nodes = s.nodes /\ b.nextGen = s.nextGen /\ SameTables(s, b) /\ SameQueues(s, b)
      /\ DOMAIN c = GraphFields /\ c.nodes = s.nodes /\ c.nextGen = s.nextGen /\ SameTables(s, c) /\ SameQueues(s, c)
  BY <1>1 DEF GraphFields, SameTables, SameQueues
<1> HIDE DEF a, b, c
<1>3. QueuesOK(a) /\ QueuesOK(b) /\ QueuesOK(c)
  BY <1>2 DEF GraphOK, QueuesOK, SameQueues
<1>4. Sound(s, a) /\ Sound(s, b) /\ Sound(s, c)
  BY <1>2, <1>3, QueueStep
<1> QED
  BY <1>4 DEF a, b, c

(* What a step does to the graph when it leaves what is under way alone.   *)
FlightVars == <<builds, completions, acceptances>>

(* What is under way is of an address in flight.                           *)
LEMMA UnderWay ==
  ASSUME FlightInv
  PROVE  /\ \A b \in graph.starting \cup builds : b.key \in Keys /\ graph.nodes[b.key].inFlight
         /\ \A c \in graph.accepting \cup acceptances : c.key \in Keys /\ graph.nodes[c.key].inFlight
         /\ \A i \in 1..Len(completions) : /\ completions[i].key \in Keys
                                            /\ graph.nodes[completions[i].key].inFlight
<1>1. \A b \in graph.starting \cup builds : b.key \in Keys /\ graph.nodes[b.key].inFlight
  <2> SUFFICES ASSUME NEW b \in graph.starting \cup builds PROVE b.key \in Keys /\ graph.nodes[b.key].inFlight
    OBVIOUS
  <2>1. b.key \in Keys
    BY DEF FlightInv, Started
  <2>2. b \in InBuild(b.key)
    BY DEF InBuild
  <2> QED
    BY <2>1, <2>2 DEF FlightInv, FlightOf
<1>2. \A c \in graph.accepting \cup acceptances : c.key \in Keys /\ graph.nodes[c.key].inFlight
  <2> SUFFICES ASSUME NEW c \in graph.accepting \cup acceptances PROVE c.key \in Keys /\ graph.nodes[c.key].inFlight
    OBVIOUS
  <2>1. c.key \in Keys
    BY DEF FlightInv, Completed
  <2>2. c \in InAccept(c.key)
    BY DEF InAccept
  <2> QED
    BY <2>1, <2>2 DEF FlightInv, FlightOf
<1>3. \A i \in 1..Len(completions) : completions[i].key \in Keys /\ graph.nodes[completions[i].key].inFlight
  <2> SUFFICES ASSUME NEW i \in 1..Len(completions)
               PROVE  completions[i].key \in Keys /\ graph.nodes[completions[i].key].inFlight
    OBVIOUS
  <2>0. completions[i] \in Completed
    BY ElementOfSeq DEF FlightInv
  <2>1. completions[i].key \in Keys
    BY <2>0 DEF Completed
  <2>2. i \in InDone(completions[i].key)
    BY DEF InDone, FlightInv
  <2> QED
    BY <2>1, <2>2 DEF FlightInv, FlightOf
<1> QED
  BY <1>1, <1>2, <1>3

(* Builds, acceptances and completions that a step leaves alone still      *)
(* match the flags, if the step left what is in flight alone.              *)
LEMMA FlightKept ==
  ASSUME FlightInv, KnownInv, GraphOK(graph), Applied(graph, graph'), UNCHANGED FlightVars
  PROVE  FlightInv' /\ KnownInv'
<1>1. graph'.starting = graph.starting /\ graph'.accepting = graph.accepting
  BY DEF Applied
<1>2. ASSUME NEW k \in Keys PROVE FlightOf(k)'
  <2>1. InBuild(k)' = InBuild(k) /\ InAccept(k)' = InAccept(k) /\ InDone(k)' = InDone(k)
    BY <1>1 DEF InBuild, InAccept, InDone, FlightVars
  <2>2. graph'.nodes[k].inFlight <=> graph.nodes[k].inFlight
    BY DEF Applied
  <2>3. FlightOf(k)
    BY DEF FlightInv
  <2> QED
    BY <2>1, <2>2, <2>3 DEF FlightOf, One
<1>3. FlightInv'
  BY <1>1, <1>2 DEF FlightInv, FlightVars
<1>4. ASSUME NEW x, x.key \in Keys, Known(x), graph.nodes[x.key].inFlight PROVE Known(x)'
  BY <1>4 DEF Known, Applied
<1>5. KnownInv'
  BY <1>1, <1>4, UnderWay DEF KnownInv, FlightVars
<1> QED
  BY <1>3, <1>5

-----------------------------------------------------------------------------
(* What clients posted stays postable when generations are minted.         *)
LEMMA PostableGrows ==
  ASSUME NEW g \in Nat, NEW h \in Nat, g <= h
  PROVE  Postable(g) \subseteq Postable(h) /\ Seq(Postable(g)) \subseteq Seq(Postable(h))
<1>1. 0..g \subseteq 0..h
  OBVIOUS
<1>2. Postable(g) \subseteq Postable(h)
  BY <1>1 DEF Postable
<1> HIDE DEF Postable
<1> QED
  BY <1>2

LEMMA GraphStep ==
  ASSUME IInv, Applied(graph, graph'), UNCHANGED FlightVars
  PROVE  /\ GraphOK(graph)' /\ FlightInv' /\ KnownInv'
         /\ graph.nextGen \in Nat /\ graph'.nextGen \in Nat /\ graph.nextGen <= graph'.nextGen
         /\ Seq(Postable(graph.nextGen)) \subseteq Seq(Postable(graph'.nextGen))
<1>1. GraphOK(graph)' /\ FlightInv' /\ KnownInv'
  BY FlightKept DEF IInv, Applied
<1>2. graph.nextGen \in Nat /\ graph'.nextGen \in Nat /\ graph.nextGen <= graph'.nextGen
  BY DEF IInv, Applied, GraphOK, NodesOK
<1> QED
  BY <1>1, <1>2, PostableGrows

(* A step of the drain that applies an entry and leaves what is under way  *)
(* as it is.                                                               *)
DrainVars == <<todo, handles, owed, scheduled, timer, builds, completions, acceptances>>

LEMMA DrainStep ==
  ASSUME IInv, Applied(graph, graph'), UNCHANGED DrainVars, phase' \in 1..8,
         posted' = posted \/ (posted # <<>> /\ posted' = Tail(posted)),
         notices' \subseteq notices, signals' \subseteq signals
  PROVE  IInv'
<1>1. UNCHANGED FlightVars
  BY DEF FlightVars, DrainVars
<1>2. GraphOK(graph)' /\ FlightInv' /\ KnownInv' /\ Seq(Postable(graph.nextGen)) \subseteq Seq(Postable(graph'.nextGen))
  BY <1>1, GraphStep
<1>3. posted' \in Seq(Postable(graph.nextGen))
  <2>1. posted \in Seq(Postable(graph.nextGen))
    BY DEF IInv, ClientInv
  <2> QED
    BY <2>1
<1>4. ClientInv'
  BY <1>2, <1>3 DEF IInv, ClientInv, DrainVars
<1> QED
  BY <1>2, <1>4 DEF IInv

(* A step that leaves the graph and what is under way alone.               *)
LEMMA OutsideStep ==
  ASSUME IInv, UNCHANGED <<graph, builds, completions, acceptances>>, ClientInv'
  PROVE  IInv'
<1>1. Applied(graph, graph')
  BY SoundRefl, SoundApplied DEF IInv
<1>2. UNCHANGED FlightVars
  BY DEF FlightVars
<1> QED
  BY <1>1, <1>2, GraphStep DEF IInv

LEMMA PhaseFacts ==
  ASSUME NEW p \in 1..8, InPhase(p)
  PROVE  phase' \in 1..8
BY DEF InPhase

(* The requirements of a request, bound to the handles its client holds.   *)
LEMMA BindType ==
  ASSUME IInv, NEW reqs \in SUBSET Requirement, HasHandles(reqs)
  PROVE  {Bind(q) : q \in reqs} \in Recipe
<1> SUFFICES ASSUME NEW q \in reqs PROVE Bind(q) \in Requirement
  BY DEF Recipe
<1>1. CASE q.edge = "latest" \/ q.rev = 0
  BY <1>1 DEF Bind
<1>2. CASE ~(q.edge = "latest" \/ q.rev = 0)
  <2> DEFINE h == CHOOSE h \in Held(q.key, q.rev) : TRUE
  <2>1. h \in Held(q.key, q.rev)
    BY <1>2 DEF HasHandles
  <2>2. h \in Versions
    BY <2>1 DEF Held, IInv, ClientInv
  <2> HIDE DEF h
  <2>3. [q EXCEPT !.gen = h.gen] \in Requirement
    BY <2>2 DEF Versions, Requirement
  <2> QED
    BY <1>2, <2>3 DEF Bind, h
<1> QED
  BY <1>1, <1>2

(* The clients: each posts to a queue of its own.                          *)
LEMMA PostMutationStep == ASSUME IInv, NEW o, PostMutation(o) PROVE IInv'
<1>1. o \in Operation /\ todo' \subseteq todo
  BY DEF PostMutation, IInv, ClientInv
<1>2. \E x \in Postable(graph.nextGen) : posted' = Append(posted, x)
  <2>1. CASE o.op \in {"invalidate", "cancel", "release"} /\ posted' = Append(posted, o)
    <3>1. o \in Postable(graph.nextGen)
      BY <1>1, <2>1 DEF Operation, Postable
    <3> QED
      BY <2>1, <3>1
  <2>2. CASE /\ o.op = "publish"
             /\ \E h \in Held(o.key, o.rev) :
                   posted' = Append(posted, [op |-> "publish", key |-> h.key, rev |-> h.rev, gen |-> h.gen])
    <3>1. PICK h \in Held(o.key, o.rev) :
             posted' = Append(posted, [op |-> "publish", key |-> h.key, rev |-> h.rev, gen |-> h.gen])
      BY <2>2
    <3>2. h \in Versions
      BY DEF Held, IInv, ClientInv
    <3>3. [op |-> "publish", key |-> h.key, rev |-> h.rev, gen |-> h.gen] \in Postable(graph.nextGen)
      BY <3>2 DEF Versions, Postable
    <3> QED
      BY <3>1, <3>3
  <2> QED
    BY <2>1, <2>2 DEF PostMutation
<1>3. posted' \in Seq(Postable(graph.nextGen))
  <2>1. posted \in Seq(Postable(graph.nextGen))
    BY DEF IInv, ClientInv
  <2> QED
    BY <1>2, <2>1
<1>4. UNCHANGED <<handles, notices, engine>> /\ scheduled' = TRUE
  BY DEF PostMutation
<1>5. ClientInv'
  BY <1>1, <1>3, <1>4 DEF IInv, ClientInv, engine
<1> QED
  BY <1>4, <1>5, OutsideStep DEF engine

LEMMA AwaitStep == ASSUME IInv, NEW o, AwaitExact(o) \/ CancelAwait(o) PROVE IInv'
<1>1. todo' \subseteq todo /\ UNCHANGED <<handles, posted, notices, engine>> /\ scheduled' = TRUE
  BY DEF AwaitExact, CancelAwait
<1>2. ClientInv'
  BY <1>1 DEF IInv, ClientInv, engine
<1> QED
  BY <1>1, <1>2, OutsideStep DEF engine

(* A suspension is told satisfied; a drain begins; the GPU moves on.       *)
LEMMA NotifyStep == ASSUME IInv, NEW id, NotifySuspensionSatisfied(id) PROVE IInv'
<1>1. (notices \cup owed)' \subseteq notices \cup owed
  BY DEF NotifySuspensionSatisfied
<1>2. ClientInv'
  BY <1>1 DEF IInv, ClientInv, NotifySuspensionSatisfied
<1> QED
  BY <1>2, OutsideStep DEF NotifySuspensionSatisfied

LEMMA BeginStep == ASSUME IInv, BeginDrain \/ DelayedDrain PROVE IInv'
<1>1. UNCHANGED <<todo, handles, posted, notices, owed, graph, builds, completions, acceptances, signals>>
  BY DEF BeginDrain, DelayedDrain, queues
<1>2. phase' \in 0..8 /\ scheduled' \in BOOLEAN /\ timer' \in BOOLEAN
  <2>0. phase \in 0..8 /\ timer \in BOOLEAN
    BY DEF IInv, ClientInv
  <2>1. CASE BeginDrain
    <3>1. phase' = 1 /\ timer' = timer
      BY <2>1 DEF BeginDrain
    <3>2. scheduled' \in BOOLEAN
      BY <2>1, Zenon DEF BeginDrain
    <3> QED
      BY <2>0, <3>1, <3>2
  <2>2. CASE DelayedDrain
    BY <2>0, <2>2 DEF DelayedDrain
  <2> QED
    BY <2>1, <2>2
<1>3. ClientInv'
  BY <1>1, <1>2 DEF IInv, ClientInv
<1> QED
  BY <1>1, <1>3, OutsideStep

LEMMA GpuProgressStep == ASSUME IInv, NEW t, GpuProgress(t) PROVE IInv'
<1>1. signals' \in SUBSET GpuKeys /\ scheduled' \in BOOLEAN
  BY GraphAssumption DEF IInv, ClientInv, GpuProgress
<1>2. ClientInv'
  BY <1>1 DEF IInv, ClientInv, GpuProgress, queues
<1> QED
  BY <1>2, OutsideStep DEF GpuProgress

(* PostRequest reserves the generation of the handle it returns.           *)
LEMMA PostRequestStep == ASSUME IInv, NEW o, PostRequest(o) PROVE IInv'
<1> DEFINE kr  == <<o.key, o.rev>>
           new == Entry(graph.reserved, kr) = 0
           gen == IF new THEN graph.nextGen + 1 ELSE graph.reserved[kr]
           u   == [graph EXCEPT !.nextGen = gen, !.reserved = Enter(@, kr, gen)]
           r   == [op |-> "request", key |-> o.key, rev |-> o.rev, gen |-> gen,
                   reqs |-> {Bind(q) : q \in o.reqs}, coalesce |-> o.coalesce]
<1>1. /\ graph' = IF new THEN u ELSE graph
      /\ posted' = Append(posted, r) /\ handles' = handles \cup {Version(o.key, o.rev, gen)}
      /\ todo' \subseteq todo /\ scheduled' = TRUE
      /\ UNCHANGED <<awaits, notices, phase, timer, builds, completions, acceptances, signals, owed>>
  BY DEF PostRequest
<1>2. o \in Operation /\ o.op = "request" /\ HasHandles(o.reqs) /\ GraphOK(graph)
  BY DEF PostRequest, IInv, ClientInv
<1>3. o.key \in Keys /\ o.rev \in Nat \ {0} /\ o.reqs \in SUBSET Requirement /\ o.coalesce \in BOOLEAN
  BY <1>2 DEF Operation
<1>4. r.reqs \in Recipe
  BY <1>2, <1>3, BindType
<1>5. graph.nextGen \in Nat /\ DOMAIN graph = GraphFields /\ DOMAIN graph.nodes = Keys
  BY <1>2 DEF GraphOK, NodesOK
<1>6. gen \in IF new THEN {graph.nextGen + 1} ELSE 1..graph.nextGen
  BY DEF Entry, IInv, GraphOK, TablesOK
<1>7. /\ DOMAIN u = GraphFields /\ u.nodes = graph.nodes /\ u.nextGen = gen
      /\ u.reserved = Enter(graph.reserved, kr, gen)
      /\ u.versions = graph.versions /\ u.gens = graph.gens /\ u.aliases = graph.aliases
      /\ u.starting = graph.starting /\ u.accepting = graph.accepting /\ SameQueues(graph, u)
  <2> HIDE DEF gen
  <2> QED
    BY <1>5 DEF GraphFields, SameQueues
<1> HIDE DEF u
<1>8. Applied(graph, graph') /\ gen \in 0..graph'.nextGen
  <2>1. CASE ~new
    BY <1>1, <1>2, <1>5, <1>6, <2>1, SoundRefl, SoundApplied
  <2>2. CASE new
    <3>1. gen = graph.nextGen + 1 /\ graph' = u
      BY <1>1, <2>2
    <3> HIDE DEF gen
    <3>2. 1..graph.nextGen \subseteq 1..gen /\ gen \in Nat /\ gen \in 1..gen /\ graph.nextGen <= gen
      BY <1>5, <3>1
    <3>3. NodesOK(u)
      BY <1>2, <1>5, <1>7, <3>2, NodeGrows DEF GraphOK, NodesOK
    <3>4. TablesOK(u)
      <4>1. Archivable(graph.nextGen) \subseteq Archivable(gen)
        BY <3>2 DEF Archivable
      <4>2. \A x \in DOMAIN graph.reserved : graph.reserved[x] \in 1..gen
        BY <1>2, <3>2 DEF GraphOK, TablesOK
      <4>3. \A x \in DOMAIN Enter(graph.reserved, kr, gen) : Enter(graph.reserved, kr, gen)[x] \in 1..gen
        BY <3>2, <4>2, TableAdd
      <4> QED
        BY <1>2, <1>7, <3>2, <4>1, <4>3 DEF GraphOK, TablesOK
    <3>5. QueuesOK(u)
      BY <1>2, <1>7 DEF GraphOK, QueuesOK, SameQueues
    <3> QED
      BY <1>7, <3>1, <3>2, <3>3, <3>4, <3>5 DEF Applied, GraphOK
  <2> QED
    BY <2>1, <2>2
<1>9. UNCHANGED FlightVars
  BY <1>1 DEF FlightVars
<1>10. /\ GraphOK(graph)' /\ FlightInv' /\ KnownInv' /\ graph'.nextGen \in Nat
       /\ Seq(Postable(graph.nextGen)) \subseteq Seq(Postable(graph'.nextGen))
  BY <1>8, <1>9, GraphStep
<1>11. r \in Postable(graph'.nextGen)
  <2> HIDE DEF gen
  <2> QED
    BY <1>3, <1>4, <1>8 DEF Postable
<1>12. posted' \in Seq(Postable(graph'.nextGen))
  <2>1. posted \in Seq(Postable(graph'.nextGen))
    BY <1>10 DEF IInv, ClientInv
  <2> HIDE DEF r
  <2> QED
    BY <1>1, <1>11, <2>1
<1>13. handles' \in SUBSET Versions
  <2>1. gen \in Nat
    BY <1>8, <1>10
  <2> HIDE DEF gen
  <2>2. Version(o.key, o.rev, gen) \in Versions
    BY <1>3, <2>1 DEF Version, Versions
  <2> QED
    BY <1>1, <2>2 DEF IInv, ClientInv
<1>14. ClientInv'
  BY <1>1, <1>12, <1>13 DEF IInv, ClientInv
<1> QED
  BY <1>10, <1>14 DEF IInv

(* The drain applies the entries of its queues.                            *)
LEMMA AwaitAppliedStep == ASSUME IInv, ApplyPostedAwait PROVE IInv' /\ Applied(graph, graph')
<1>1. /\ InPhase(1)
      /\ UNCHANGED <<todo, handles, posted, notices, owed, scheduled, timer, builds, completions, acceptances, signals>>
  BY DEF ApplyPostedAwait
<1>2. \E waiters, dropped :
         graph' \in {graph, [graph EXCEPT !.waiters = waiters, !.dropped = dropped],
                     [graph EXCEPT !.waiters = waiters], [graph EXCEPT !.dropped = dropped]}
  BY DEF ApplyPostedAwait
<1>3. Applied(graph, graph')
  BY <1>2, WaitersSound, SoundRefl, SoundApplied DEF IInv
<1> QED
  BY <1>1, <1>3, PhaseFacts, DrainStep DEF DrainVars

LEMMA SuspensionAppliedStep == ASSUME IInv, ApplyPostedSuspension PROVE IInv' /\ Applied(graph, graph')
<1>1. PICK id \in notices : graph' = SuspensionSatisfied(graph, id) /\ notices' = notices \ {id}
  BY DEF ApplyPostedSuspension
<1>2. id[1] \in Keys
  BY DEF IInv, ClientInv
<1>3. Applied(graph, graph')
  BY <1>1, <1>2, SuspensionSatisfiedSound, SoundApplied DEF IInv
<1>4. phase' \in 1..8
  BY PhaseFacts DEF ApplyPostedSuspension
<1> QED
  BY <1>1, <1>3, <1>4, DrainStep DEF DrainVars, ApplyPostedSuspension

LEMMA IntentAppliedStep == ASSUME IInv, ApplyPostedIntent PROVE IInv' /\ Applied(graph, graph')
<1>1. posted # <<>> /\ graph' = ApplyMutation(graph, Head(posted)) /\ posted' = Tail(posted)
  BY DEF ApplyPostedIntent
<1>2. Head(posted) \in Postable(graph.nextGen)
  <2>1. posted \in Seq(Postable(graph.nextGen))
    BY DEF IInv, ClientInv
  <2> QED
    BY <1>1, <2>1
<1>3. Applied(graph, graph')
  BY <1>1, <1>2, MutationApplied DEF IInv
<1>4. phase' \in 1..8
  BY PhaseFacts DEF ApplyPostedIntent
<1> QED
  BY <1>1, <1>3, <1>4, DrainStep DEF DrainVars, ApplyPostedIntent

LEMMA GpuAppliedStep == ASSUME IInv, ApplyGpuSignal PROVE IInv' /\ Applied(graph, graph')
<1>1. PICK k \in signals \cup (graph.recovery \ graph.polled) :
         LET n     == graph.nodes[k]
             waits == n.present /\ n.state \in {"CpuReady", "UploadSubmitted"} /\ n.waiting # 0
             u     == [graph EXCEPT !.polled = @ \cup {k}, !.recovery = IF waits THEN @ ELSE @ \ {k}]
         IN  /\ graph' = IF waits THEN ApplyGpu(u, k, token[<<k, n.waiting>>]) ELSE u
             /\ signals' = signals \ {k}
  BY DEF ApplyGpuSignal
<1> DEFINE n     == graph.nodes[k]
           waits == n.present /\ n.state \in {"CpuReady", "UploadSubmitted"} /\ n.waiting # 0
           polled == graph.polled \cup {k}
           recovery == IF waits THEN graph.recovery ELSE graph.recovery \ {k}
           u     == [graph EXCEPT !.polled = polled, !.recovery = recovery]
<1>2. graph' = (IF waits THEN ApplyGpu(u, k, token[<<k, n.waiting>>]) ELSE u) /\ signals' \subseteq signals
  BY <1>1
<1>3. k \in Keys /\ recovery \in SUBSET Keys
  BY GraphAssumption DEF IInv, ClientInv, GraphOK, QueuesOK
<1> HIDE DEF polled, recovery
<1>4. Sound(graph, u) /\ u.nodes = graph.nodes
  BY <1>3, PolledSound DEF IInv
<1> HIDE DEF u
<1>5. waits => Sound(u, ApplyGpu(u, k, token[<<k, n.waiting>>]))
  BY <1>3, <1>4, GpuSound DEF Sound
<1>6. Sound(graph, graph')
  <2>1. CASE waits
    BY <1>2, <1>4, <1>5, <2>1, SoundTrans DEF IInv
  <2>2. CASE ~waits
    BY <1>2, <1>4, <2>2
  <2> QED
    BY <2>1, <2>2
<1>7. phase' \in 1..8 /\ UNCHANGED <<DrainVars, posted, notices>>
  BY PhaseFacts DEF ApplyGpuSignal, DrainVars, queues
<1> QED
  BY <1>2, <1>6, <1>7, SoundApplied, DrainStep

LEMMA RetryStep == ASSUME IInv, ApplyRetry \/ AwaitRetry PROVE IInv' /\ Applied(graph, graph')
<1>1. phase' \in 1..8 /\ UNCHANGED <<DrainVars, posted, notices, signals>>
  <2>1. InPhase(5) /\ UNCHANGED <<DrainVars, posted, notices, signals>>
    BY DEF ApplyRetry, AwaitRetry, DrainVars, queues
  <2> QED
    BY <2>1, PhaseFacts
<1>2. CASE AwaitRetry
  <2>1. Sound(graph, graph')
    BY <1>2, DelayedSound DEF AwaitRetry, IInv
  <2> QED
    BY <1>1, <2>1, SoundApplied, DrainStep
<1>3. CASE ApplyRetry
  <2>1. PICK r \in graph.retries :
          LET n == graph.nodes[r[1]]
              u == [graph EXCEPT !.retries = @ \ {r}]
          IN  graph' = IF n.present /\ n.gen = r[2] /\ n.retry
                       THEN QueueNode([u EXCEPT !.nodes[r[1]].retry = FALSE], r[1]) ELSE u
    BY <1>3 DEF ApplyRetry
  <2> DEFINE k == r[1]
             retries == graph.retries \ {r}
             u == [graph EXCEPT !.retries = retries]
             m == [u.nodes[k] EXCEPT !.retry = FALSE]
             free == [u EXCEPT !.nodes[k].retry = FALSE]
  <2>2. graph' = u \/ (graph.nodes[k].present /\ graph' = QueueNode(free, k))
    BY <2>1
  <2>3. k \in Keys
    BY DEF IInv, GraphOK, QueuesOK
  <2>4. Sound(graph, u) /\ u.nodes = graph.nodes
    BY RetriesSound DEF IInv
  <2> HIDE DEF u, k
  <2>5. ASSUME graph.nodes[k].present PROVE Sound(graph, QueueNode(free, k))
    <3>1. free = WithNode(u, k, m)
      BY DEF WithNode
    <3>2. NodeOK(u.nodes[k], k, u.nextGen) /\ u.nodes[k].present
      BY <2>3, <2>4, <2>5 DEF Sound, GraphOK, NodesOK
    <3>3. NodeOK(m, k, u.nextGen) /\ m.inFlight = u.nodes[k].inFlight /\ m.present /\ m.vgen = u.nodes[k].vgen
      BY <3>2 DEF NodeOK, NodeFields
    <3> HIDE DEF m, free
    <3>4. Sound(u, free)
      BY <2>3, <2>4, <3>1, <3>3, WithNodeSound DEF Sound
    <3>5. Sound(graph, free)
      BY <2>4, <3>4, SoundTrans DEF IInv
    <3> QED
      BY <2>3, <3>5, QueueNodeSound, SoundTrans DEF Sound, IInv
  <2>6. Sound(graph, graph')
    BY <2>2, <2>4, <2>5
  <2> QED
    BY <1>1, <2>6, SoundApplied, DrainStep
<1> QED
  BY <1>2, <1>3

LEMMA WakeAppliedStep == ASSUME IInv, ApplyWake PROVE IInv' /\ Applied(graph, graph')
<1> DEFINE wake == Head(graph.wakes)
<1>1. PICK k \in wake.consumers :
         LET rest == wake.consumers \ {k}
             u    == [graph EXCEPT !.woken = @ \cup {k},
                         !.wakes = IF rest = {} THEN Tail(@) ELSE [@ EXCEPT ![1].consumers = rest]]
         IN  graph' = IF k \in graph.woken THEN u ELSE WakeWaiter(u, wake.dep, k)
  BY DEF ApplyWake
<1> DEFINE rest  == wake.consumers \ {k}
           next  == [wake EXCEPT !.consumers = rest]
           wakes == IF rest = {} THEN Tail(graph.wakes) ELSE [graph.wakes EXCEPT ![1] = next]
           u     == [graph EXCEPT !.woken = @ \cup {k},
                         !.wakes = IF rest = {} THEN Tail(@) ELSE [@ EXCEPT ![1].consumers = rest]]
<1>2. graph.wakes \in Seq(Wakes) /\ graph.wakes # <<>> /\ DOMAIN graph = GraphFields
  BY DEF ApplyWake, IInv, GraphOK, QueuesOK, NodesOK
<1>3. wake \in Wakes /\ wake = graph.wakes[1]
  BY <1>2
<1>4. k \in Keys /\ next \in Wakes
  BY <1>3 DEF Wakes
<1>5. wakes \in Seq(Wakes)
  <2> HIDE DEF wake, next
  <2> QED
    BY <1>2, <1>4
<1>6. /\ DOMAIN u = GraphFields /\ u.nodes = graph.nodes /\ u.nextGen = graph.nextGen /\ SameTables(graph, u)
      /\ u.pending = graph.pending /\ u.wakes = wakes /\ u.retries = graph.retries
      /\ u.recovery = graph.recovery /\ u.subscribing = graph.subscribing
  BY <1>2, <1>3 DEF GraphFields, SameTables
<1>7. graph' = u \/ graph' = WakeWaiter(u, wake.dep, k)
  BY <1>1
<1> HIDE DEF u, wakes
<1>8. QueuesOK(u)
  BY <1>5, <1>6 DEF IInv, GraphOK, QueuesOK
<1>9. Sound(graph, u)
  BY <1>6, <1>8, QueueStep DEF IInv
<1>10. Sound(graph, graph')
  BY <1>4, <1>7, <1>9, WakeWaiterSound, SoundTrans DEF Sound, IInv
<1>11. phase' \in 1..8 /\ UNCHANGED <<DrainVars, posted, notices, signals>>
  BY PhaseFacts DEF ApplyWake, DrainVars, queues
<1> QED
  BY <1>10, <1>11, SoundApplied, DrainStep

-----------------------------------------------------------------------------
\* StartBuild adds the build to those that start when the drain is over.
StartingWith(s, b) == [s EXCEPT !.starting = @ \cup {b}]

(* A build begins: its node is in flight and the build is among the        *)
(* starting ones.                                                          *)
LEMMA StartGraph ==
  ASSUME NEW s, GraphOK(s), NEW k \in Keys, NEW n, NodeOK(n, k, s.nextGen), NEW b,
         NEW u, u = StartingWith(WithNode(s, k, n), b)
  PROVE  /\ GraphOK(u) /\ u.nodes[k] = n /\ \A d \in Keys \ {k} : u.nodes[d] = s.nodes[d]
         /\ u.starting = s.starting \cup {b} /\ u.accepting = s.accepting /\ u.nextGen = s.nextGen
<1>1. DOMAIN s = GraphFields /\ DOMAIN s.nodes = Keys /\ s.nextGen \in Nat
  BY DEF GraphOK, NodesOK
<1>2. /\ DOMAIN u = GraphFields /\ DOMAIN u.nodes = Keys /\ u.nextGen = s.nextGen /\ u.nodes[k] = n
      /\ \A d \in Keys \ {k} : u.nodes[d] = s.nodes[d]
      /\ u.versions = s.versions /\ u.gens = s.gens /\ u.reserved = s.reserved /\ u.aliases = s.aliases
      /\ u.starting = s.starting \cup {b} /\ u.accepting = s.accepting /\ SameQueues(s, u)
  BY <1>1 DEF WithNode, StartingWith, GraphFields, SameQueues
<1>3. NodesOK(u)
  BY <1>1, <1>2 DEF GraphOK, NodesOK
<1>4. TablesOK(u)
  BY <1>2 DEF GraphOK, TablesOK
<1>5. QueuesOK(u)
  BY <1>2 DEF GraphOK, QueuesOK, SameQueues
<1> QED
  BY <1>2, <1>3, <1>4, <1>5 DEF GraphOK

LEMMA DependencyType ==
  ASSUME NEW s, GraphOK(s), NEW n, n.reqs \in Recipe
  PROVE  DependencySnapshots(s, n) \in SUBSET Snapshots
<1> SUFFICES ASSUME NEW q \in n.reqs, NEW x \in SelectSnapshot(s, q) PROVE x \in Snapshots
  BY DEF DependencySnapshots
<1>1. q.key \in Keys
  BY DEF Recipe, Requirement
<1> QED
  BY <1>1, SelectType

(* A queued node leaves the queue.                                         *)
LEMMA PoppedSound ==
  ASSUME NEW s, GraphOK(s), s.pending # <<>>
  PROVE  LET u == [s EXCEPT !.pending = Tail(@)] IN Sound(s, u) /\ u.nodes = s.nodes
<1> DEFINE u == [s EXCEPT !.pending = Tail(@)]
<1>1. DOMAIN s = GraphFields /\ s.pending \in Seq(Keys)
  BY DEF GraphOK, NodesOK, QueuesOK
<1>2. /\ DOMAIN u = GraphFields /\ u.nodes = s.nodes /\ u.nextGen = s.nextGen /\ SameTables(s, u)
      /\ u.pending = Tail(s.pending) /\ u.wakes = s.wakes /\ u.retries = s.retries
      /\ u.recovery = s.recovery /\ u.subscribing = s.subscribing
  BY <1>1 DEF GraphFields, SameTables
<1> HIDE DEF u
<1>3. Tail(s.pending) \in Seq(Keys)
  BY <1>1
<1>4. QueuesOK(u)
  BY <1>2, <1>3 DEF GraphOK, QueuesOK
<1>5. Sound(s, u)
  BY <1>2, <1>4, QueueStep
<1> QED
  BY <1>2, <1>5 DEF u

(* Nothing is under way of an address that is not in flight.               *)
LEMMA StartFlight ==
  ASSUME FlightInv, KnownInv, GraphOK(graph), UNCHANGED FlightVars,
         NEW b \in Started, ~graph.nodes[b.key].inFlight, graph'.nodes[b.key].inFlight,
         b.rev # 0 => graph'.nodes[b.key].vgen # 0, graph'.nodes[b.key].vgen = graph.nodes[b.key].vgen,
         \A d \in Keys \ {b.key} : graph'.nodes[d] = graph.nodes[d],
         graph'.starting = graph.starting \cup {b}, graph'.accepting = graph.accepting
  PROVE  FlightInv' /\ KnownInv'
<1>0. b.key \in Keys
  BY DEF Started
<1>1. b \notin builds
  BY <1>0 DEF FlightInv, FlightOf, InBuild
<1>2. ASSUME NEW k \in Keys PROVE FlightOf(k)'
  <2>1. FlightOf(k)
    BY DEF FlightInv
  <2>2. InAccept(k)' = InAccept(k) /\ InDone(k)' = InDone(k)
    BY DEF InAccept, InDone, FlightVars
  <2>3. CASE k = b.key
    <3>1. InBuild(k) = {} /\ InAccept(k) = {} /\ InDone(k) = {}
      BY <2>1, <2>3 DEF FlightOf
    <3>2. InBuild(k)' = {b}
      BY <2>3, <3>1 DEF InBuild, FlightVars
    <3> QED
      BY <2>2, <2>3, <3>1, <3>2 DEF FlightOf, One
  <2>4. CASE k # b.key
    <3>1. InBuild(k)' = InBuild(k)
      BY <2>4 DEF InBuild, FlightVars
    <3> QED
      BY <2>1, <2>2, <2>4, <3>1 DEF FlightOf, One
  <2> QED
    BY <2>3, <2>4
<1>3. FlightInv'
  BY <1>1, <1>2 DEF FlightInv, FlightVars
<1>4. \A x : x.key \in Keys /\ Known(x) => Known(x)'
  BY DEF Known
<1>5. /\ \A x \in graph.starting \cup builds : x.key \in Keys
      /\ \A x \in graph.accepting \cup acceptances : x.key \in Keys
  BY DEF FlightInv, Started, Completed
<1>6. \A i \in 1..Len(completions) : completions[i].key \in Keys
  <2>1. \A i \in 1..Len(completions) : completions[i] \in Completed
    BY ElementOfSeq DEF FlightInv
  <2> QED
    BY <2>1 DEF Completed
<1>7. Known(b)'
  BY DEF Known
<1>8. KnownInv'
  BY <1>4, <1>5, <1>6, <1>7 DEF KnownInv, FlightVars
<1> QED
  BY <1>3, <1>8

(* StartBuild drops the queued node, blocks it or starts its build.        *)
LEMMA StartStep == ASSUME IInv, StartBuild PROVE IInv'
<1> DEFINE k == Head(graph.pending)
           u == [graph EXCEPT !.pending = Tail(@)]
           m == LatchReadyGates(u, u.nodes[k])
           b == [key |-> k, rev |-> m.rev, gen |-> m.gen, deps |-> DependencySnapshots(u, m), first |-> ~m.attempted]
           idle == [m EXCEPT !.state = "Blocked"]
           busy == [m EXCEPT !.inFlight = TRUE, !.attempted = TRUE, !.state = "Preparing"]
           v == [WithNode(u, k, busy) EXCEPT !.starting = @ \cup {b}]
<1>1. /\ graph.pending # <<>> /\ phase' \in 1..8 /\ UNCHANGED <<DrainVars, posted, notices, signals>>
  <2>1. InPhase(8) /\ graph.pending # <<>> /\ UNCHANGED <<DrainVars, posted, notices, signals>>
    BY DEF StartBuild, DrainVars, queues
  <2> QED
    BY <2>1, PhaseFacts
<1>2. \/ graph' = u
      \/ m.present /\ graph' = WithNode(u, k, idle)
      \/ m.present /\ ~m.inFlight /\ graph' = v
  BY DEF StartBuild
<1>3. k \in Keys
  <2>1. graph.pending \in Seq(Keys)
    BY DEF IInv, GraphOK, QueuesOK
  <2> QED
    BY <1>1, <2>1
<1>4. Sound(graph, u) /\ u.nodes = graph.nodes
  BY <1>1, PoppedSound DEF IInv
<1> DEFINE n == u.nodes[k]
<1> HIDE DEF u, k
<1>5. GraphOK(u) /\ NodeOK(n, k, u.nextGen)
  BY <1>3, <1>4 DEF Sound, GraphOK, NodesOK
<1>6. m = [n EXCEPT !.reqs = m.reqs] /\ (n.present => NodeOK(m, k, u.nextGen))
  BY <1>3, <1>5, LatchSound
<1> HIDE DEF m
<1>7. m.present = n.present /\ m.inFlight = n.inFlight /\ m.vgen = n.vgen
  <2>1. DOMAIN n = NodeFields
    BY <1>5 DEF NodeOK
  <2> QED
    BY <1>6, <2>1 DEF NodeFields
<1>8. CASE graph' = u
  BY <1>1, <1>4, <1>8, SoundApplied, DrainStep
<1>9. CASE m.present /\ graph' = WithNode(u, k, idle)
  <2>1. NodeOK(idle, k, u.nextGen) /\ idle.inFlight = m.inFlight /\ idle.present = m.present /\ idle.vgen = m.vgen
    BY <1>6, <1>7, <1>9, ReadinessFacts DEF NodeOK, NodeFields
  <2> HIDE DEF idle
  <2>2. Sound(u, graph')
    BY <1>3, <1>5, <1>7, <1>9, <2>1, WithNodeSound
  <2>3. Sound(graph, graph')
    BY <1>4, <2>2, SoundTrans DEF IInv
  <2> QED
    BY <1>1, <2>3, SoundApplied, DrainStep
<1>10. CASE m.present /\ ~m.inFlight /\ graph' = v
  <2>1. NodeOK(m, k, u.nextGen)
    BY <1>6, <1>7, <1>10
  <2>2. NodeOK(busy, k, u.nextGen) /\ busy.inFlight /\ busy.vgen = m.vgen
    BY <1>10, <2>1, ReadinessFacts DEF NodeOK, NodeFields
  <2>3. b \in Started /\ b.key = k
    <3>1. DependencySnapshots(u, m) \in SUBSET Snapshots
      BY <1>5, <2>1, DependencyType DEF NodeOK
    <3> QED
      BY <1>3, <2>1, <3>1 DEF NodeOK, Started
  <2>4. b.rev # 0 => m.vgen # 0
    BY <2>1 DEF NodeOK
  <2> HIDE DEF busy, b
  <2>0. graph' = StartingWith(WithNode(u, k, busy), b)
    BY <1>10 DEF StartingWith
  <2>5. /\ GraphOK(graph') /\ graph'.nodes[k] = busy /\ \A d \in Keys \ {k} : graph'.nodes[d] = u.nodes[d]
        /\ graph'.starting = u.starting \cup {b} /\ graph'.accepting = u.accepting /\ graph'.nextGen = u.nextGen
    BY <1>3, <1>5, <2>0, <2>2, StartGraph
  <2> HIDE DEF v
  <2>6. u.starting = graph.starting /\ u.accepting = graph.accepting /\ graph.nextGen <= u.nextGen
        /\ graph.nextGen \in Nat /\ u.nextGen \in Nat
    BY <1>4 DEF Sound, Kept, IInv, GraphOK, NodesOK
  <2>7. FlightInv' /\ KnownInv'
    <3>1. ~graph.nodes[b.key].inFlight /\ graph'.nodes[b.key].inFlight
          /\ (b.rev # 0 => graph'.nodes[b.key].vgen # 0)
          /\ graph'.nodes[b.key].vgen = graph.nodes[b.key].vgen
      BY <1>4, <1>7, <1>10, <2>2, <2>3, <2>4, <2>5
    <3>2. UNCHANGED FlightVars /\ \A d \in Keys \ {b.key} : graph'.nodes[d] = graph.nodes[d]
      BY <1>1, <1>4, <2>3, <2>5 DEF FlightVars, DrainVars
    <3> QED
      BY <2>3, <2>5, <2>6, <3>1, <3>2, StartFlight DEF IInv
  <2>8. posted' \in Seq(Postable(graph'.nextGen))
    BY <1>1, <2>5, <2>6, PostableGrows DEF IInv, ClientInv
  <2>9. ClientInv'
    BY <1>1, <2>8 DEF IInv, ClientInv, DrainVars
  <2> QED
    BY <2>5, <2>7, <2>9 DEF IInv
<1> QED
  BY <1>2, <1>8, <1>9, <1>10

-----------------------------------------------------------------------------
(* FinishDrain hands the builds and acceptances over to other threads.     *)
LEMMA FinishStep == ASSUME IInv, FinishDrain PROVE IInv'
<1> DEFINE answered == {w \in graph.waiters : \E i \in DOMAIN graph.ready : Answers(graph.ready[i], w)}
           left == [graph EXCEPT !.waiters = @ \ answered, !.ready = <<>>, !.woken = {}, !.polled = {},
                                 !.starting = {}, !.accepting = {}, !.subscribing = {}, !.delayed = FALSE]
<1>1. /\ graph' = left /\ phase' = 0 /\ signals' = signals \cup {t[1] : t \in graph.subscribing}
      /\ builds' = builds \cup graph.starting /\ acceptances' = acceptances \cup graph.accepting
      /\ UNCHANGED <<todo, handles, posted, notices, owed, completions>>
  BY DEF FinishDrain, queues
<1>2. scheduled' \in BOOLEAN /\ timer' \in BOOLEAN
  <2>1. scheduled' = (scheduled \/ HasImmediateWork)
    BY DEF FinishDrain
  <2>2. timer' = (timer \/ (~HasImmediateWork /\ (graph.delayed \/ graph.recovery # {})))
    BY DEF FinishDrain
  <2>3. scheduled' \in BOOLEAN
    BY <2>1, Zenon
  <2>4. timer' \in BOOLEAN
    BY <2>2, Zenon
  <2> QED
    BY <2>3, <2>4
<1>3. DOMAIN graph = GraphFields /\ DOMAIN graph.nodes = Keys
  BY DEF IInv, GraphOK, NodesOK
<1>4. /\ DOMAIN left = GraphFields /\ left.nodes = graph.nodes /\ left.nextGen = graph.nextGen
      /\ left.versions = graph.versions /\ left.gens = graph.gens /\ left.reserved = graph.reserved
      /\ left.aliases = graph.aliases /\ left.starting = {} /\ left.accepting = {}
      /\ left.pending = graph.pending /\ left.wakes = graph.wakes /\ left.retries = graph.retries
      /\ left.recovery = graph.recovery /\ left.subscribing = {}
  <2> HIDE DEF answered
  <2> QED
    BY <1>3 DEF GraphFields
<1> HIDE DEF left
<1>5. GraphOK(graph)'
  <2>1. NodesOK(left)
    BY <1>3, <1>4 DEF IInv, GraphOK, NodesOK
  <2>2. TablesOK(left)
    BY <1>4 DEF IInv, GraphOK, TablesOK
  <2>3. QueuesOK(left)
    BY <1>4 DEF IInv, GraphOK, QueuesOK
  <2> QED
    BY <1>1, <2>1, <2>2, <2>3 DEF GraphOK
<1>6. FlightInv'
  <2>1. ASSUME NEW k \in Keys PROVE FlightOf(k)'
    <3>1. InBuild(k)' = InBuild(k) /\ InAccept(k)' = InAccept(k) /\ InDone(k)' = InDone(k)
      BY <1>1, <1>4 DEF InBuild, InAccept, InDone
    <3> QED
      BY <1>1, <1>4, <3>1 DEF IInv, FlightInv, FlightOf, One
  <2> QED
    BY <1>1, <1>4, <2>1 DEF IInv, FlightInv
<1>7. KnownInv'
  <2>1. \A x : Known(x) => Known(x)'
    BY <1>1, <1>4 DEF Known
  <2> QED
    BY <1>1, <1>4, <2>1 DEF IInv, KnownInv
<1>8. ClientInv'
  <2>1. signals' \in SUBSET GpuKeys
    BY <1>1 DEF IInv, ClientInv, GraphOK, QueuesOK
  <2> QED
    BY <1>1, <1>2, <1>4, <2>1 DEF IInv, ClientInv
<1> QED
  BY <1>5, <1>6, <1>7, <1>8 DEF IInv

(* A build or an acceptance that is over leaves a completion.              *)
LEMMA CompletedFlight ==
  ASSUME FlightInv, KnownInv, graph' = graph, NEW c \in Completed, Known(c), completions' = Append(completions, c),
         \/ acceptances' = acceptances /\ \E b \in builds : b.key = c.key /\ builds' = builds \ {b}
         \/ builds' = builds /\ \E a \in acceptances : a.key = c.key /\ acceptances' = acceptances \ {a}
  PROVE  FlightInv' /\ KnownInv'
<1>1. completions \in Seq(Completed) /\ completions' \in Seq(Completed)
  BY DEF FlightInv
<1>2. /\ Len(completions') = Len(completions) + 1 /\ Len(completions) \in Nat
      /\ \A i \in 1..Len(completions) : completions'[i] = completions[i]
      /\ completions'[Len(completions) + 1] = c
  BY <1>1
<1>3. c.key \in Keys
  BY DEF Completed
<1>4. ASSUME NEW k \in Keys PROVE FlightOf(k)'
  <2>1. DOMAIN completions = 1..Len(completions) /\ DOMAIN completions' = 1..Len(completions) + 1
    BY <1>1, <1>2
  <2>2. FlightOf(k)
    BY DEF FlightInv
  <2>3. CASE k = c.key
    <3>1. InBuild(k) # {} \/ InAccept(k) # {}
      BY <2>3 DEF InBuild, InAccept
    <3>2. graph.nodes[k].inFlight /\ InDone(k) = {} /\ (InBuild(k) = {} \/ InAccept(k) = {})
          /\ (One(InBuild(k)) \/ One(InAccept(k)))
      BY <2>2, <3>1 DEF FlightOf, One
    <3>3. InBuild(k)' = {} /\ InAccept(k)' = {}
      <4>1. CASE acceptances' = acceptances /\ \E b \in builds : b.key = c.key /\ builds' = builds \ {b}
        <5>1. PICK b \in builds : b.key = c.key /\ builds' = builds \ {b}
          BY <4>1
        <5>2. InBuild(k) = {b} /\ InAccept(k) = {}
          BY <2>3, <3>2, <5>1 DEF InBuild, One
        <5> QED
          BY <4>1, <5>1, <5>2 DEF InBuild, InAccept, FlightInv
      <4>2. CASE builds' = builds /\ \E a \in acceptances : a.key = c.key /\ acceptances' = acceptances \ {a}
        <5>1. PICK a \in acceptances : a.key = c.key /\ acceptances' = acceptances \ {a}
          BY <4>2
        <5>2. InAccept(k) = {a} /\ InBuild(k) = {}
          BY <2>3, <3>2, <5>1 DEF InAccept, One
        <5> QED
          BY <4>2, <5>1, <5>2 DEF InBuild, InAccept, FlightInv
      <4> QED
        BY <4>1, <4>2
    <3>4. InDone(k)' = {Len(completions) + 1}
      BY <1>2, <2>1, <2>3, <3>2 DEF InDone
    <3> QED
      BY <3>2, <3>3, <3>4 DEF FlightOf, One
  <2>4. CASE k # c.key
    <3>1. InBuild(k)' = InBuild(k) /\ InAccept(k)' = InAccept(k)
      BY <2>4 DEF InBuild, InAccept
    <3>2. InDone(k)' = InDone(k)
      BY <1>2, <2>1, <2>4 DEF InDone
    <3> QED
      BY <2>2, <3>1, <3>2 DEF FlightOf, One
  <2> QED
    BY <2>3, <2>4
<1>5. FlightInv'
  BY <1>1, <1>4 DEF FlightInv
<1>6. \A x : Known(x) => Known(x)'
  BY DEF Known
<1>7. KnownInv'
  BY <1>2, <1>6 DEF KnownInv
<1> QED
  BY <1>5, <1>7

LEMMA FinishBuildStep == ASSUME IInv, NEW b, FinishBuild(b) PROVE IInv'
<1>1. /\ b \in builds /\ builds' = builds \ {b} /\ scheduled' = TRUE
      /\ UNCHANGED <<todo, handles, posted, notices, graph, phase, timer, acceptances, signals>>
  BY DEF FinishBuild, queues
<1>2. PICK o \in Outcomes[b.key] \cup (IF graph.nodes[b.key].superseded THEN {"cancelled"} ELSE {}) :
         /\ o \in {"needs", "suspendExact"} => HasHandles(Later[b.key])
         /\ completions' = Append(completions,
               [key |-> b.key, rev |-> b.rev, gen |-> b.gen, deps |-> b.deps, outcome |-> o, accepted |-> FALSE,
                reqs |-> IF o \in {"needs", "suspendExact"} THEN {Bind(q) : q \in Later[b.key]} ELSE {}])
         /\ owed' = IF o = "suspend" THEN owed \cup {<<b.key, b.gen>>} ELSE owed
  BY DEF FinishBuild
<1> DEFINE reqs == IF o \in {"needs", "suspendExact"} THEN {Bind(q) : q \in Later[b.key]} ELSE {}
           c == [key |-> b.key, rev |-> b.rev, gen |-> b.gen, deps |-> b.deps, outcome |-> o,
                 accepted |-> FALSE, reqs |-> reqs]
<1>3. b \in Started /\ Known(b)
  BY <1>1 DEF IInv, FlightInv, KnownInv
<1>4. b.key \in Keys
  BY <1>3 DEF Started
<1>5. o \in Reports
  BY <1>2, <1>4, GraphAssumption DEF Reports
<1>6. reqs \in Recipe
  <2>1. Later[b.key] \in SUBSET Requirement
    BY <1>4, ScenarioAssumption
  <2> QED
    BY <1>2, <2>1, BindType DEF Recipe
<1> HIDE DEF reqs
<1>7. c \in Completed /\ c.key = b.key /\ Known(c)
  BY <1>3, <1>5, <1>6 DEF Started, Completed, Known
<1>8. completions' = Append(completions, c)
  BY <1>2 DEF reqs
<1> HIDE DEF c
<1>9. FlightInv' /\ KnownInv'
  BY <1>1, <1>7, <1>8, CompletedFlight DEF IInv
<1>10. \A id \in (notices \cup owed)' : id[1] \in Keys
  BY <1>1, <1>2, <1>4 DEF IInv, ClientInv
<1>11. ClientInv'
  BY <1>1, <1>10 DEF IInv, ClientInv
<1> QED
  BY <1>1, <1>9, <1>11 DEF IInv

LEMMA AcceptanceStep == ASSUME IInv, NEW c, ApplyAcceptance(c) PROVE IInv'
<1>1. /\ c \in acceptances /\ acceptances' = acceptances \ {c} /\ scheduled' = TRUE
      /\ UNCHANGED <<todo, handles, posted, notices, owed, graph, phase, timer, builds, signals>>
  BY DEF ApplyAcceptance, queues
<1>2. PICK o \in {"ready", "failed"} : completions' = Append(completions, [c EXCEPT !.accepted = TRUE, !.outcome = o])
  BY DEF ApplyAcceptance
<1> DEFINE d == [c EXCEPT !.accepted = TRUE, !.outcome = o]
<1>3. c \in Completed /\ Known(c)
  BY <1>1 DEF IInv, FlightInv, KnownInv
<1>4. d \in Completed /\ d.key = c.key /\ d.rev = c.rev
  BY <1>3 DEF Completed, Reports, Outcome
<1>5. completions' = Append(completions, d)
  BY <1>2
<1> HIDE DEF d
<1>6. FlightInv' /\ KnownInv'
  BY <1>1, <1>3, <1>4, <1>5, CompletedFlight DEF IInv, Known
<1>7. ClientInv'
  BY <1>1 DEF IInv, ClientInv
<1> QED
  BY <1>1, <1>6, <1>7 DEF IInv

(* The oldest completion leaves the queue, and it was all its address had. *)
LEMMA CompletionTaken ==
  ASSUME FlightInv, completions # <<>>, NEW c, c = Head(completions), completions' = Tail(completions)
  PROVE  /\ c \in Completed /\ completions' \in Seq(Completed)
         /\ graph.nodes[c.key].inFlight
         /\ InBuild(c.key) = {} /\ InAccept(c.key) = {}
         /\ InDone(c.key)' = {}
         /\ \A k \in Keys \ {c.key} :
               (InDone(k) = {} => InDone(k)' = {}) /\ (One(InDone(k)) => One(InDone(k)'))
         /\ \A i \in 1..Len(completions') : i + 1 \in 1..Len(completions) /\ completions'[i] = completions[i + 1]
<1>1. completions \in Seq(Completed)
  BY DEF FlightInv
<1>2. /\ c \in Completed /\ c = completions[1] /\ completions' \in Seq(Completed)
      /\ Len(completions) \in Nat \ {0} /\ Len(completions') = Len(completions) - 1
      /\ \A i \in 1..Len(completions') : i + 1 \in 1..Len(completions) /\ completions'[i] = completions[i + 1]
  BY <1>1
<1>3. DOMAIN completions = 1..Len(completions) /\ DOMAIN completions' = 1..Len(completions')
  BY <1>1, <1>2
<1>4. c.key \in Keys
  BY <1>2 DEF Completed
<1>5. 1 \in InDone(c.key)
  BY <1>2, <1>3 DEF InDone
<1>6. /\ graph.nodes[c.key].inFlight /\ InBuild(c.key) = {} /\ InAccept(c.key) = {}
      /\ One(InDone(c.key))
  BY <1>4, <1>5 DEF FlightInv, FlightOf, One
<1>7. InDone(c.key) = {1}
  BY <1>5, <1>6 DEF One
<1>8. ASSUME NEW k, NEW i PROVE i \in InDone(k)' <=> i \in 1..Len(completions') /\ i + 1 \in InDone(k)
  BY <1>2, <1>3 DEF InDone
<1>9. InDone(c.key)' = {}
  BY <1>7, <1>8
<1>10. ASSUME NEW k \in Keys \ {c.key}
       PROVE  (InDone(k) = {} => InDone(k)' = {}) /\ (One(InDone(k)) => One(InDone(k)'))
  <2>1. InDone(k) = {} => InDone(k)' = {}
    BY <1>8
  <2>2. ASSUME NEW j, InDone(k) = {j} PROVE InDone(k)' = {j - 1}
    <3>1. j \in 1..Len(completions) /\ j # 1
      BY <1>2, <1>3, <2>2 DEF InDone
    <3>2. j - 1 \in 1..Len(completions') /\ (j - 1) + 1 = j
      BY <1>2, <3>1
    <3>3. j - 1 \in InDone(k)'
      BY <1>8, <2>2, <3>2
    <3>4. ASSUME NEW i \in InDone(k)' PROVE i = j - 1
      <4>1. i \in 1..Len(completions') /\ i + 1 = j
        BY <1>8, <2>2
      <4> QED
        BY <1>2, <4>1
    <3> QED
      BY <3>3, <3>4
  <2>3. One(InDone(k)) => One(InDone(k)')
    BY <2>2 DEF One
  <2> QED
    BY <2>1, <2>3
<1> QED
  BY <1>2, <1>6, <1>9, <1>10

\* ApplyNextCompletion adds the completion to those that await their acceptance action.
AcceptingWith(s, c) == [s EXCEPT !.accepting = @ \cup {c}]

LEMMA AcceptGraph ==
  ASSUME NEW s, GraphOK(s), NEW c, NEW u, u = AcceptingWith(s, c)
  PROVE  /\ GraphOK(u) /\ u.nodes = s.nodes /\ u.nextGen = s.nextGen
         /\ u.starting = s.starting /\ u.accepting = s.accepting \cup {c}
<1>1. DOMAIN s = GraphFields
  BY DEF GraphOK, NodesOK
<1>2. /\ DOMAIN u = GraphFields /\ u.nodes = s.nodes /\ u.nextGen = s.nextGen
      /\ u.versions = s.versions /\ u.gens = s.gens /\ u.reserved = s.reserved /\ u.aliases = s.aliases
      /\ u.starting = s.starting /\ u.accepting = s.accepting \cup {c} /\ SameQueues(s, u)
  BY <1>1 DEF AcceptingWith, GraphFields, SameQueues
<1>3. NodesOK(u)
  BY <1>2 DEF GraphOK, NodesOK
<1>4. TablesOK(u)
  BY <1>2 DEF GraphOK, TablesOK
<1>5. QueuesOK(u)
  BY <1>2 DEF GraphOK, QueuesOK, SameQueues
<1> QED
  BY <1>2, <1>3, <1>4, <1>5 DEF GraphOK

(* The completion waits for its acceptance action.                         *)
LEMMA AcceptFlight ==
  ASSUME FlightInv, KnownInv, completions # <<>>, completions' = Tail(completions),
         UNCHANGED <<builds, acceptances>>, graph'.nodes = graph.nodes, graph'.starting = graph.starting,
         NEW h, h = Head(completions), NEW c \in Completed, c.key = h.key, Known(c), graph'.accepting = graph.accepting \cup {c}
  PROVE  FlightInv' /\ KnownInv'
<1>1. /\ completions' \in Seq(Completed) /\ graph.nodes[c.key].inFlight
      /\ InBuild(c.key) = {} /\ InAccept(c.key) = {} /\ InDone(c.key)' = {}
      /\ \A k \in Keys \ {c.key} : (InDone(k) = {} => InDone(k)' = {}) /\ (One(InDone(k)) => One(InDone(k)'))
      /\ \A i \in 1..Len(completions') : i + 1 \in 1..Len(completions) /\ completions'[i] = completions[i + 1]
  BY CompletionTaken
<1>2. c \notin acceptances
  BY <1>1 DEF InAccept
<1>3. ASSUME NEW k \in Keys PROVE FlightOf(k)'
  <2>1. InBuild(k)' = InBuild(k)
    BY DEF InBuild
  <2>2. CASE k = c.key
    <3>1. InAccept(k)' = {c}
      BY <1>1, <2>2 DEF InAccept
    <3> QED
      BY <1>1, <2>1, <2>2, <3>1 DEF FlightOf, One
  <2>3. CASE k # c.key
    <3>1. InAccept(k)' = InAccept(k)
      BY <2>3 DEF InAccept
    <3>2. FlightOf(k)
      BY DEF FlightInv
    <3>3. graph'.nodes[k].inFlight = graph.nodes[k].inFlight /\ One(InBuild(k))' = One(InBuild(k))
          /\ One(InAccept(k))' = One(InAccept(k)) /\ One(InDone(k))' = One(InDone(k)')
      BY <2>1, <3>1 DEF One
    <3> QED
      BY <1>1, <2>1, <2>3, <3>1, <3>2, <3>3 DEF FlightOf
  <2> QED
    BY <2>2, <2>3
<1>4. FlightInv'
  BY <1>1, <1>2, <1>3 DEF FlightInv
<1>5. \A x : Known(x) => Known(x)'
  BY DEF Known
<1>6. KnownInv'
  BY <1>1, <1>5 DEF KnownInv
<1> QED
  BY <1>4, <1>6

(* The completion is applied: nothing is under way of its address.         *)
LEMMA AppliedFlight ==
  ASSUME FlightInv, KnownInv, completions # <<>>, completions' = Tail(completions), NEW c, c = Head(completions),
         UNCHANGED <<builds, acceptances>>, graph'.starting = graph.starting, graph'.accepting = graph.accepting,
         ~graph'.nodes[c.key].inFlight,
         \A d \in Keys \ {c.key} :
            /\ graph'.nodes[d].inFlight <=> graph.nodes[d].inFlight
            /\ graph.nodes[d].inFlight /\ graph.nodes[d].vgen # 0 => graph'.nodes[d].vgen # 0
  PROVE  FlightInv' /\ KnownInv'
<1>1. /\ completions' \in Seq(Completed) /\ c \in Completed
      /\ InBuild(c.key) = {} /\ InAccept(c.key) = {} /\ InDone(c.key)' = {}
      /\ \A k \in Keys \ {c.key} : (InDone(k) = {} => InDone(k)' = {}) /\ (One(InDone(k)) => One(InDone(k)'))
      /\ \A i \in 1..Len(completions') : i + 1 \in 1..Len(completions) /\ completions'[i] = completions[i + 1]
  BY CompletionTaken
<1>2. /\ ~graph'.nodes[c.key].inFlight
      /\ \A d \in Keys \ {c.key} :
            /\ graph'.nodes[d].inFlight <=> graph.nodes[d].inFlight
            /\ graph.nodes[d].inFlight /\ graph.nodes[d].vgen # 0 => graph'.nodes[d].vgen # 0
  OBVIOUS
<1>3. ASSUME NEW k \in Keys PROVE FlightOf(k)'
  <2>1. InBuild(k)' = InBuild(k) /\ InAccept(k)' = InAccept(k)
    BY DEF InBuild, InAccept
  <2>2. CASE k = c.key
    BY <1>1, <1>2, <2>1, <2>2 DEF FlightOf
  <2>3. CASE k # c.key
    <3>1. FlightOf(k)
      BY DEF FlightInv
    <3>2. /\ One(InBuild(k))' = One(InBuild(k)) /\ One(InAccept(k))' = One(InAccept(k))
          /\ One(InDone(k))' = One(InDone(k)')
      BY <2>1 DEF One
    <3> QED
      BY <1>1, <1>2, <2>1, <2>3, <3>1, <3>2 DEF FlightOf
  <2> QED
    BY <2>2, <2>3
<1>4. FlightInv'
  BY <1>1, <1>3 DEF FlightInv
<1>5. ASSUME NEW x, x.key \in Keys \ {c.key}, Known(x), graph.nodes[x.key].inFlight PROVE Known(x)'
  BY <1>2, <1>5 DEF Known
<1>6. \A b \in graph.starting \cup builds : Known(b)'
  <2> SUFFICES ASSUME NEW b \in graph.starting \cup builds PROVE Known(b)'
    OBVIOUS
  <2>1. b.key # c.key
    BY <1>1 DEF InBuild
  <2> QED
    BY <1>5, <2>1, UnderWay DEF KnownInv
<1>7. \A a \in graph.accepting \cup acceptances : Known(a)'
  <2> SUFFICES ASSUME NEW a \in graph.accepting \cup acceptances PROVE Known(a)'
    OBVIOUS
  <2>1. a.key # c.key
    BY <1>1 DEF InAccept
  <2> QED
    BY <1>5, <2>1, UnderWay DEF KnownInv
<1>8. \A i \in 1..Len(completions') : Known(completions[i])'
  <2> SUFFICES ASSUME NEW i \in 1..Len(completions') PROVE Known(completions[i])'
    OBVIOUS
  <2>1. i \in DOMAIN completions'
    BY <1>1
  <2>2. completions'[i].key # c.key
    BY <1>1, <2>1 DEF InDone
  <2>3. completions'[i].key \in Keys /\ graph.nodes[completions'[i].key].inFlight
    BY <1>1, UnderWay
  <2>4. completions'[i].rev # 0 => graph.nodes[completions'[i].key].vgen # 0
    BY <1>1 DEF KnownInv, Known
  <2> QED
    BY <1>2, <2>2, <2>3, <2>4 DEF Known
<1>9. KnownInv'
  BY <1>6, <1>7, <1>8 DEF KnownInv
<1> QED
  BY <1>4, <1>9

(* ApplyNextCompletion moves the completion to the acceptance mailboxes,   *)
(* or applies it to a node that is present because it is in flight.        *)
LEMMA CompletionStep == ASSUME IInv, ApplyNextCompletion PROVE IInv'
<1> DEFINE gpuOf(h) == IF h.outcome = "ready" /\ h.key \in GpuKeys THEN token[<<h.key, h.gen>>] ELSE "none"
           of(h)    == IF gpuOf(h) = "failed" THEN [h EXCEPT !.outcome = "failed"] ELSE h
<1>1. /\ completions # <<>> /\ completions' = Tail(completions)
      /\ UNCHANGED <<todo, handles, posted, notices, owed, scheduled, timer, builds, acceptances, signals>>
  BY DEF ApplyNextCompletion, queues
<1>2. phase' \in 1..8
  <2>1. InPhase(6)
    BY DEF ApplyNextCompletion
  <2> QED
    BY <2>1, PhaseFacts
<1>3. PICK h : h = Head(completions)
  OBVIOUS
<1>4. PICK gpu : gpu = gpuOf(h)
  OBVIOUS
<1>5. PICK c : c = of(h)
  OBVIOUS
<1>6. graph' = IF NeedsAcceptance(graph, c) THEN [graph EXCEPT !.accepting = @ \cup {c}]
               ELSE ApplyCompletion(graph, c, gpu)
  BY <1>3, <1>4, <1>5 DEF ApplyNextCompletion
<1>7. h \in Completed /\ graph.nodes[h.key].inFlight
  BY <1>1, <1>3, CompletionTaken DEF IInv
<1>8. c \in Completed /\ c.key = h.key /\ c.rev = h.rev
  BY <1>5, <1>7 DEF Completed, Reports, Outcome
<1>9. gpu \in {"recorded", "submitted"} => c.key \in GpuKeys
  BY <1>4, <1>8
<1>10. Known(h)
  <2>1. 1 \in 1..Len(completions) /\ h = completions[1]
    BY <1>1, <1>3 DEF IInv, FlightInv
  <2> QED
    BY <2>1 DEF IInv, KnownInv
<1>11. Known(c)
  BY <1>8, <1>10 DEF Known
<1> HIDE DEF of, gpuOf
<1>12. CASE NeedsAcceptance(graph, c)
  <2>1. graph' = AcceptingWith(graph, c)
    BY <1>6, <1>12 DEF AcceptingWith
  <2>2. /\ GraphOK(graph') /\ graph'.nodes = graph.nodes /\ graph'.nextGen = graph.nextGen
        /\ graph'.starting = graph.starting /\ graph'.accepting = graph.accepting \cup {c}
    BY <2>1, AcceptGraph DEF IInv
  <2>3. FlightInv' /\ KnownInv'
    BY <1>1, <1>3, <1>8, <1>11, <2>2, AcceptFlight DEF IInv
  <2>4. ClientInv'
    BY <1>1, <1>2, <2>2 DEF IInv, ClientInv
  <2> QED
    BY <2>2, <2>3, <2>4 DEF IInv
<1>13. CASE ~NeedsAcceptance(graph, c)
  <2> DEFINE idle == [graph EXCEPT !.nodes[c.key].inFlight = FALSE]
  <2>1. c.key \in Keys /\ c.rev \in Nat /\ c.reqs \in Recipe /\ c.outcome \in Reports
    BY <1>8 DEF Completed
  <2>2. graph.nodes[c.key].present
    <3>1. NodeOK(graph.nodes[c.key], c.key, graph.nextGen)
      BY <2>1 DEF IInv, GraphOK, NodesOK
    <3> QED
      BY <1>7, <1>8, <3>1 DEF NodeOK, NoNode
  <2>3. c.rev # 0 => graph.nodes[c.key].vgen # 0
    BY <1>11 DEF Known
  <2>4. Applied(idle, ApplyCompletion(graph, c, gpu))
    BY <1>9, <2>1, <2>2, <2>3, CompletionApplied DEF IInv
  <2>5. /\ ~idle.nodes[c.key].inFlight /\ \A d \in Keys \ {c.key} : idle.nodes[d] = graph.nodes[d]
        /\ idle.starting = graph.starting /\ idle.accepting = graph.accepting /\ idle.nextGen = graph.nextGen
    BY <2>1, <2>2, IdleFacts DEF IInv
  <2>6. graph' = ApplyCompletion(graph, c, gpu)
    BY <1>6, <1>13
  <2> HIDE DEF idle
  <2>7. /\ GraphOK(graph') /\ graph'.starting = graph.starting /\ graph'.accepting = graph.accepting
        /\ graph.nextGen <= graph'.nextGen /\ ~graph'.nodes[c.key].inFlight
        /\ \A d \in Keys \ {c.key} :
              /\ graph'.nodes[d].inFlight <=> graph.nodes[d].inFlight
              /\ graph.nodes[d].inFlight /\ graph.nodes[d].vgen # 0 => graph'.nodes[d].vgen # 0
    BY <2>1, <2>4, <2>5, <2>6 DEF Applied
  <2>8. FlightInv' /\ KnownInv'
    BY <1>1, <1>3, <1>8, <2>7, AppliedFlight DEF IInv
  <2>9. posted' \in Seq(Postable(graph'.nextGen))
    <3>1. graph.nextGen \in Nat /\ graph'.nextGen \in Nat
      BY <2>7 DEF IInv, GraphOK, NodesOK
    <3> QED
      BY <1>1, <2>7, <3>1, PostableGrows DEF IInv, ClientInv
  <2>10. ClientInv'
    BY <1>1, <1>2, <2>9 DEF IInv, ClientInv
  <2> QED
    BY <2>7, <2>8, <2>10 DEF IInv
<1> QED
  BY <1>12, <1>13

(* Init establishes the invariant, and every step of Next preserves it.    *)
LEMMA InitInv == Init => IInv
<1> SUFFICES ASSUME Init PROVE IInv
  OBVIOUS
<1>1. /\ graph = NewGraph /\ builds = {} /\ acceptances = {} /\ completions = <<>> /\ phase = 0
      /\ posted = <<>> /\ handles = {} /\ notices = {} /\ owed = {} /\ signals = {} /\ todo \in Scenarios
      /\ scheduled = FALSE /\ timer = FALSE
  BY DEF Init
<1>2. /\ DOMAIN graph = GraphFields /\ graph.nodes = [k \in Keys |-> NoNode] /\ graph.nextGen = 0
      /\ graph.versions = {} /\ graph.aliases = <<>> /\ graph.gens = <<>> /\ graph.reserved = <<>>
      /\ graph.starting = {} /\ graph.accepting = {} /\ graph.subscribing = {} /\ graph.retries = {}
      /\ graph.pending = <<>> /\ graph.wakes = <<>> /\ graph.recovery = {}
  BY <1>1 DEF NewGraph, GraphFields
<1>3. \A k \in Keys : NodeOK(NoNode, k, 0) /\ ~NoNode.inFlight
  BY ReadinessFacts DEF NodeOK, NoNode, NodeFields, Recipe
<1>4. NodesOK(graph)
  BY <1>2, <1>3 DEF NodesOK
<1>5. TablesOK(graph)
  BY <1>2 DEF TablesOK
<1>6. QueuesOK(graph)
  BY <1>2 DEF QueuesOK
<1>7. FlightInv
  <2>1. ASSUME NEW k \in Keys PROVE FlightOf(k)
    BY <1>1, <1>2, <1>3 DEF FlightOf, InBuild, InAccept, InDone
  <2> QED
    BY <1>1, <1>2, <2>1 DEF FlightInv
<1>8. KnownInv
  BY <1>1, <1>2 DEF KnownInv
<1>9. ClientInv
  <2>1. todo \in SUBSET Operation
    BY <1>1, ScenarioAssumption
  <2>2. scheduled \in BOOLEAN /\ timer \in BOOLEAN
    BY <1>1
  <2> QED
    BY <1>1, <2>1, <2>2 DEF ClientInv
<1> QED
  BY <1>4, <1>5, <1>6, <1>7, <1>8, <1>9 DEF IInv, GraphOK

LEMMA StepInv == IInv /\ [Next]_vars => IInv'
<1> SUFFICES ASSUME IInv, [Next]_vars PROVE IInv'
  OBVIOUS
<1>1. CASE UNCHANGED vars
  <2>1. UNCHANGED <<todo, handles, posted, notices, owed, graph, phase, scheduled, timer, builds, completions,
                    acceptances, signals>>
    BY <1>1 DEF vars, queues
  <2>2. ClientInv'
    BY <2>1 DEF IInv, ClientInv
  <2> QED
    BY <2>1, <2>2, OutsideStep
<1>2. CASE Client
  BY <1>2, PostRequestStep, PostMutationStep, AwaitStep DEF Client
<1>3. CASE Drain
  BY <1>3, BeginStep, AwaitAppliedStep, SuspensionAppliedStep, IntentAppliedStep, GpuAppliedStep, RetryStep,
     CompletionStep, WakeAppliedStep, StartStep, FinishStep DEF Drain
<1>4. CASE Outside
  BY <1>4, FinishBuildStep, AcceptanceStep, GpuProgressStep, NotifyStep DEF Outside
<1> QED
  BY <1>1, <1>2, <1>3, <1>4 DEF Next

(* The invariant counts each address at most once.                         *)
LEMMA OneIsOne == ASSUME NEW S PROVE Cardinality({}) = 0 /\ (One(S) => Cardinality(S) = 1)
BY FS_EmptySet, FS_Singleton DEF One

LEMMA IInvOneBuild == IInv => OneBuildPerAddress
<1> SUFFICES ASSUME IInv PROVE OneBuildPerAddress
  OBVIOUS
<1>1. TypeOK
  <2>1. \A k \in Keys : /\ graph.nodes[k].state \in Readiness
                        /\ (~graph.nodes[k].present => graph.nodes[k] = NoNode)
                        /\ graph.nodes[k].edges \subseteq Keys \ {k}
    BY DEF IInv, GraphOK, NodesOK, NodeOK
  <2>2. \A x \in graph.versions : x.readiness \in Readiness /\ x.rev > 0 /\ x.gen \in 1..graph.nextGen
    <3> SUFFICES ASSUME NEW x \in graph.versions
                 PROVE  x.readiness \in Readiness /\ x.rev > 0 /\ x.gen \in 1..graph.nextGen
      OBVIOUS
    <3>1. x \in Archivable(graph.nextGen)
      BY DEF IInv, GraphOK, TablesOK
    <3> QED
      BY <3>1 DEF Archivable
  <2>3. Range(graph.pending) \subseteq Keys
    <3>1. graph.pending \in Seq(Keys)
      BY DEF IInv, GraphOK, QueuesOK
    <3> QED
      BY <3>1, ElementOfSeq DEF Range
  <2> QED
    BY <2>1, <2>2, <2>3 DEF TypeOK, IInv, ClientInv
<1>2. ASSUME NEW k \in Keys
      PROVE  Cardinality({b \in graph.starting \cup builds : b.key = k})
             + Cardinality({c \in graph.accepting \cup acceptances : c.key = k})
             + Cardinality({i \in DOMAIN completions : completions[i].key = k})
             = IF graph.nodes[k].inFlight THEN 1 ELSE 0
  <2>1. FlightOf(k)
    BY DEF IInv, FlightInv
  <2>2. Cardinality(InBuild(k)) + Cardinality(InAccept(k)) + Cardinality(InDone(k))
        = IF graph.nodes[k].inFlight THEN 1 ELSE 0
    BY <2>1, OneIsOne DEF FlightOf
  <2> QED
    BY <2>2 DEF InBuild, InAccept, InDone
<1> QED
  BY <1>1, <1>2 DEF OneBuildPerAddress

(* Spec => []IInv, for any addresses, clients, outcomes and scenarios.     *)
THEOREM InvariantHolds == Spec => []IInv
BY InitInv, StepInv, PTL DEF Spec

(* buildInFlight is set exactly while one build of the address is          *)
(* starting, running, in an acceptance mailbox or completed and not yet    *)
(* applied: Drain never starts a second one, and neither Cancel, Release,  *)
(* Invalidate nor a late completion leaves the flag behind                 *)
(* (OneBuildPerAddress).                                                   *)
THEOREM StateGraphBuildsOnce == Spec => []OneBuildPerAddress
BY InvariantHolds, IInvOneBuild, PTL

-----------------------------------------------------------------------------
(***************************************************************************)
(* Archived versions are immutable.  What one drain step has made of the   *)
(* graph s0 so far, s, is Faithful to it: every version archived in s0 is  *)
(* there still, and every cursor may be archived again.                    *)
(***************************************************************************)
Milestones == {"CpuReady", "UploadSubmitted", "GpuReady", "Published"}

\* A cursor has produced the version it was for; what it shows of it is no step back from what
\* the archive V holds, and it shows nothing of a version that is being built.
CursorOK(n, k, V) ==
    /\ n.produced \in {0, n.rev}
    /\ n.inFlight => n.state \notin Milestones
    /\ n.produced # 0 /\ n.state \in Milestones =>
          \A x \in V : Identity(x) = Version(k, n.produced, n.vgen) => Follows(n.state, x.readiness)
ArchiveOK(s) ==
    /\ \A x, y \in s.versions : Identity(x) = Identity(y) => x = y
    /\ \A k \in Keys : CursorOK(s.nodes[k], k, s.versions)

\* A node names the version it is for and those parked behind it.  A prediction given to a client
\* is right where it is named: its generation is the one its revision has.
Names(n, v) ==
    \/ n.rev = v.rev /\ n.vgen = v.gen
    \/ \E i \in 1..Len(n.successors) : n.successors[i].rev = v.rev /\ n.successors[i].gen = v.gen
Predicted(s, v) == Names(s.nodes[v.key], v) => Entry(s.gens, <<v.key, v.rev>>) = v.gen

\* No archived version is lost or goes back.
Stays(s, u) ==
    \A x \in s.versions : \E y \in u.versions :
        Identity(y) = Identity(x) /\ (Rebuilding(s, x) \/ Follows(y.readiness, x.readiness))
\* What a running build will find of the node n it was started for, when it is m.
Carries(n, m) ==
    m.inFlight => /\ n.inFlight
                  /\ \/ n.rev = 0
                     \/ m.rev = n.rev /\ n.gen <= m.gen /\ (m.gen = n.gen => m.state = n.state)
\* A prediction that was right in s0 names the generation its revision has in s.
Fits(s0, s, v) == v.gen \in 1..s0.nextGen /\ Predicted(s0, v) => Entry(s.gens, <<v.key, v.rev>>) = v.gen
\* A generation is reserved that was, or that its revision has.
Vouched(s0, s, v) ==
    v.gen # 0 /\ Entry(s.reserved, <<v.key, v.rev>>) = v.gen =>
        v.gen \in {Entry(s0.reserved, <<v.key, v.rev>>), Entry(s.gens, <<v.key, v.rev>>)}

Faithful(s0, s) ==
    /\ GraphOK(s0) /\ GraphOK(s) /\ s0.nextGen <= s.nextGen
    /\ ArchiveOK(s) /\ Stays(s0, s)
    /\ \A k \in Keys : Carries(s0.nodes[k], s.nodes[k])
    /\ \A v \in Versions : (Names(s.nodes[v.key], v) => Fits(s0, s, v)) /\ Vouched(s0, s, v)

\* The fields that matter here.
Like(n, m) ==
    /\ m.inFlight = n.inFlight /\ m.state = n.state /\ m.rev = n.rev /\ m.vgen = n.vgen
    /\ m.produced = n.produced /\ m.gen = n.gen /\ m.successors = n.successors
SameArchive(s, u) ==
    u.versions = s.versions /\ u.gens = s.gens /\ u.reserved = s.reserved /\ s.nextGen <= u.nextGen
Alike(s, u) == SameArchive(s, u) /\ \A k \in Keys : Like(s.nodes[k], u.nodes[k])

(* The order of readiness.                                                 *)
LEMMA FollowsFacts ==
  /\ \A a \in Readiness : Follows(a, a)
  /\ \A a, b, c \in Readiness : Follows(a, b) /\ Follows(b, c) => Follows(a, c)
  /\ \A a \in Readiness : Follows("Failed", a) /\ Follows("Cancelled", a)
<1>1. \A a \in DOMAIN Rank : Rank[a] \in Nat
  BY DEF Rank
<1>2. Readiness = DOMAIN Rank \cup Terminal
  BY DEF Readiness
<1> HIDE DEF Rank
<1> QED
  BY <1>1, <1>2 DEF Follows, Satisfies, Terminal

(* The milestones lie between the states of a version that is being built  *)
(* and those of one that ended.                                            *)
LEMMA StateFacts ==
  /\ Unbuilt \cap Milestones = {} /\ Unbuilt \cap Terminal = {} /\ Milestones \cap Terminal = {}
  /\ Readiness = Unbuilt \cup Milestones \cup Terminal
BY DEF Unbuilt, Milestones, Terminal, Readiness, Rank

(* A graph is faithful to itself.                                          *)
LEMMA FaithfulRefl == ASSUME NEW s, GraphOK(s), ArchiveOK(s) PROVE Faithful(s, s)
<1>1. s.nextGen \in Nat /\ \A k \in Keys : s.nodes[k].gen \in Nat
  BY DEF GraphOK, NodesOK, NodeOK
<1>2. \A x \in s.versions : x.readiness \in Readiness
  BY DEF GraphOK, TablesOK, Archivable
<1>3. Stays(s, s)
  BY <1>2, FollowsFacts DEF Stays
<1>4. \A k \in Keys : Carries(s.nodes[k], s.nodes[k])
  BY <1>1 DEF Carries
<1>5. \A v \in Versions : (Names(s.nodes[v.key], v) => Fits(s, s, v)) /\ Vouched(s, s, v)
  BY DEF Fits, Predicted, Vouched
<1> QED
  BY <1>1, <1>3, <1>4, <1>5 DEF Faithful

(* One node changes.                                                       *)
LEMMA NodeFaithful ==
  ASSUME NEW s0, NEW s, Faithful(s0, s), NEW k \in Keys, NEW u, GraphOK(u), SameArchive(s, u),
         \A d \in Keys \ {k} : Like(s.nodes[d], u.nodes[d]),
         CursorOK(u.nodes[k], k, s.versions), Carries(s0.nodes[k], u.nodes[k]),
         \A v \in Versions : v.key = k /\ Names(u.nodes[k], v) => Fits(s0, s, v)
  PROVE  Faithful(s0, u)
<1>1. s0.nextGen <= u.nextGen
  BY DEF Faithful, GraphOK, NodesOK, SameArchive
<1>2. ArchiveOK(u)
  <2>1. \A d \in Keys \ {k} : CursorOK(u.nodes[d], d, s.versions)
    BY DEF Faithful, ArchiveOK, CursorOK, Like
  <2> QED
    BY <2>1 DEF Faithful, ArchiveOK, SameArchive
<1>3. Stays(s0, u)
  BY DEF Faithful, Stays, SameArchive
<1>4. \A d \in Keys : Carries(s0.nodes[d], u.nodes[d])
  <2>1. \A d \in Keys \ {k} : Carries(s0.nodes[d], u.nodes[d])
    BY DEF Faithful, Carries, Like
  <2> QED
    BY <2>1
<1>5. ASSUME NEW v \in Versions PROVE (Names(u.nodes[v.key], v) => Fits(s0, u, v)) /\ Vouched(s0, u, v)
  <2>1. Vouched(s0, u, v)
    BY DEF Faithful, Vouched, SameArchive
  <2>2. Fits(s0, s, v) => Fits(s0, u, v)
    BY DEF Fits, SameArchive
  <2>3. v.key \in Keys
    BY DEF Versions
  <2>4. v.key # k => (Names(u.nodes[v.key], v) => Names(s.nodes[v.key], v))
    BY <2>3 DEF Names, Like
  <2> QED
    BY <2>1, <2>2, <2>3, <2>4 DEF Faithful
<1> QED
  BY <1>1, <1>2, <1>3, <1>4, <1>5 DEF Faithful

(* Nothing changes that matters.                                           *)
LEMMA AlikeFaithful ==
  ASSUME NEW s0, NEW s, Faithful(s0, s), NEW u, GraphOK(u), Alike(s, u)
  PROVE  Faithful(s0, u)
<1>1. s0.nextGen <= u.nextGen
  BY DEF Faithful, GraphOK, NodesOK, SameArchive, Alike
<1>2. ArchiveOK(u)
  <2>1. \A d \in Keys : CursorOK(u.nodes[d], d, s.versions)
    BY DEF Faithful, ArchiveOK, CursorOK, Like, Alike
  <2> QED
    BY <2>1 DEF Faithful, ArchiveOK, SameArchive, Alike
<1>3. Stays(s0, u)
  BY DEF Faithful, Stays, SameArchive, Alike
<1>4. \A d \in Keys : Carries(s0.nodes[d], u.nodes[d])
  BY DEF Faithful, Carries, Like, Alike
<1>5. ASSUME NEW v \in Versions PROVE (Names(u.nodes[v.key], v) => Fits(s0, u, v)) /\ Vouched(s0, u, v)
  <2>1. Vouched(s0, u, v)
    BY DEF Faithful, Vouched, SameArchive, Alike
  <2>2. Fits(s0, s, v) => Fits(s0, u, v)
    BY DEF Fits, SameArchive, Alike
  <2>3. v.key \in Keys
    BY DEF Versions
  <2>4. Names(u.nodes[v.key], v) => Names(s.nodes[v.key], v)
    BY <2>3 DEF Names, Like, Alike
  <2> QED
    BY <2>1, <2>2, <2>4 DEF Faithful
<1> QED
  BY <1>1, <1>2, <1>3, <1>4, <1>5 DEF Faithful

(* A version is archived in the place of one that it follows, or that is   *)
(* being built anew; no cursor that shows it is ahead of it.               *)
LEMMA ArchiveFaithful ==
  ASSUME NEW s0, NEW s, Faithful(s0, s), NEW x \in Archivable(s.nextGen),
         \/ \A y \in s.versions : Identity(y) = Identity(x) => Follows(x.readiness, y.readiness)
         \/ \A y \in s0.versions : Identity(y) = Identity(x) => Rebuilding(s0, y),
         \A k \in Keys : LET n == s.nodes[k] IN
            n.produced # 0 /\ n.state \in Milestones /\ Identity(x) = Version(k, n.produced, n.vgen)
                => Follows(n.state, x.readiness)
  PROVE  Faithful(s0, Archive(s, x))
<1> DEFINE u == Archive(s, x)
<1>1. /\ GraphOK(u) /\ u.nodes = s.nodes /\ u.nextGen = s.nextGen
      /\ u.gens = s.gens /\ u.reserved = s.reserved
      /\ u.versions = (s.versions \ Archived(s, Identity(x))) \cup {x}
  <2>1. GraphOK(u) /\ u.nodes = s.nodes /\ u.nextGen = s.nextGen
    BY ArchiveSound DEF Faithful, Sound
  <2> QED
    BY <2>1 DEF Archive, Faithful, GraphOK, NodesOK, GraphFields
<1> HIDE DEF u
<1>2. \A y \in u.versions : y = x \/ (y \in s.versions /\ Identity(y) # Identity(x))
  BY <1>1 DEF Archived
<1>3. ArchiveOK(u)
  <2>1. \A y, z \in u.versions : Identity(y) = Identity(z) => y = z
    BY <1>2 DEF Faithful, ArchiveOK
  <2>2. \A k \in Keys : CursorOK(s.nodes[k], k, u.versions)
    BY <1>2 DEF Faithful, ArchiveOK, CursorOK
  <2> QED
    BY <1>1, <2>1, <2>2 DEF ArchiveOK
<1>4. Stays(s0, u)
  <2> SUFFICES ASSUME NEW z \in s0.versions
               PROVE  \E y \in u.versions :
                        Identity(y) = Identity(z) /\ (Rebuilding(s0, z) \/ Follows(y.readiness, z.readiness))
    BY DEF Stays
  <2>1. PICK y \in s.versions : Identity(y) = Identity(z) /\ (Rebuilding(s0, z) \/ Follows(y.readiness, z.readiness))
    BY DEF Faithful, Stays
  <2>2. CASE Identity(z) # Identity(x)
    BY <1>1, <2>1, <2>2 DEF Archived
  <2>3. CASE Identity(z) = Identity(x)
    <3>1. x \in u.versions
      BY <1>1
    <3>2. x.readiness \in Readiness /\ y.readiness \in Readiness /\ z.readiness \in Readiness
      BY DEF Faithful, GraphOK, TablesOK, Archivable
    <3>3. Rebuilding(s0, z) \/ Follows(x.readiness, z.readiness)
      BY <2>1, <2>3, <3>2, FollowsFacts
    <3> QED
      BY <2>3, <3>1, <3>3
  <2> QED
    BY <2>2, <2>3
<1>5. \A v \in Versions : (Names(u.nodes[v.key], v) => Fits(s0, u, v)) /\ Vouched(s0, u, v)
  BY <1>1 DEF Faithful, Fits, Vouched
<1> QED
  BY <1>1, <1>3, <1>4, <1>5 DEF Faithful, u

(* A node is replaced by another state of it.                              *)
LEMMA WithFaithful ==
  ASSUME NEW s0, NEW s, Faithful(s0, s), NEW k \in Keys, NEW m, GraphOK(WithNode(s, k, m)),
         CursorOK(m, k, s.versions), Carries(s0.nodes[k], m),
         \A v \in Versions : v.key = k /\ Names(m, v) => Fits(s0, s, v)
  PROVE  Faithful(s0, WithNode(s, k, m))
<1> DEFINE u == WithNode(s, k, m)
<1>1. DOMAIN s = GraphFields /\ DOMAIN s.nodes = Keys /\ s.nextGen \in Nat
  BY DEF Faithful, GraphOK, NodesOK
<1>2. SameArchive(s, u) /\ u.nodes[k] = m /\ \A d \in Keys \ {k} : u.nodes[d] = s.nodes[d]
  BY <1>1 DEF WithNode, GraphFields, SameArchive
<1> HIDE DEF u
<1>3. \A d \in Keys \ {k} : Like(s.nodes[d], u.nodes[d])
  BY <1>2 DEF Like
<1> QED
  BY <1>2, <1>3, NodeFaithful DEF u

\* The node m is n, no longer at a milestone: it is not being built, or what is built of it is stale.
Moved(n, m) ==
    /\ m.rev = n.rev /\ m.vgen = n.vgen /\ m.produced = n.produced
    /\ m.successors \in {n.successors, <<>>}
    /\ m.state \notin Milestones
    /\ m.inFlight => n.inFlight /\ n.gen < m.gen

(* Such a node may be archived again as it might before, and a build       *)
(* finds it gone on.                                                       *)
LEMMA MovedCursor ==
  ASSUME NEW s0, NEW s, Faithful(s0, s), NEW k \in Keys, NEW m, Moved(s.nodes[k], m), m.gen \in Nat
  PROVE  /\ CursorOK(m, k, s.versions) /\ Carries(s0.nodes[k], m)
         /\ \A v \in Versions : v.key = k /\ Names(m, v) => Fits(s0, s, v)
<1>1. CursorOK(m, k, s.versions)
  BY DEF Faithful, ArchiveOK, CursorOK, Moved
<1>2. Carries(s0.nodes[k], m)
  <2>1. s0.nodes[k].gen \in Nat /\ s.nodes[k].gen \in Nat
    BY DEF Faithful, GraphOK, NodesOK, NodeOK
  <2>2. Carries(s0.nodes[k], s.nodes[k])
    BY DEF Faithful
  <2> QED
    BY <2>1, <2>2 DEF Carries, Moved
<1>3. ASSUME NEW v \in Versions, v.key = k, Names(m, v) PROVE Fits(s0, s, v)
  <2>1. Names(s.nodes[k], v)
    BY <1>3 DEF Names, Moved
  <2> QED
    BY <1>3, <2>1 DEF Faithful
<1> QED
  BY <1>1, <1>2, <1>3

(* A node is replaced by such a one.                                       *)
LEMMA MovedFaithful ==
  ASSUME NEW s0, NEW s, Faithful(s0, s), NEW k \in Keys, NEW m, GraphOK(WithNode(s, k, m)), Moved(s.nodes[k], m)
  PROVE  Faithful(s0, WithNode(s, k, m))
<1>1. m.gen \in Nat
  <2>1. WithNode(s, k, m).nodes[k] = m
    BY DEF WithNode, Faithful, GraphOK, NodesOK, GraphFields
  <2> QED
    BY <2>1 DEF GraphOK, NodesOK, NodeOK
<1> QED
  BY <1>1, MovedCursor, WithFaithful

(* The bookkeeping of the drain, the pins and the edges.                   *)
LEMMA BookFaithful ==
  ASSUME NEW s0, NEW s, Faithful(s0, s), NEW k \in Keys, NEW x, NEW pins
  PROVE  /\ Faithful(s0, Announce(s, x)) /\ Faithful(s0, WakeWaiters(s, k))
         /\ Faithful(s0, [s EXCEPT !.pins = pins]) /\ Faithful(s0, [s EXCEPT !.pending = Append(@, k)])
<1>1. DOMAIN s = GraphFields /\ s.nextGen \in Nat /\ GraphOK(s)
  BY DEF Faithful, GraphOK, NodesOK
<1>2. Alike(s, Announce(s, x)) /\ Alike(s, [s EXCEPT !.pins = pins]) /\ Alike(s, [s EXCEPT !.pending = Append(@, k)])
  BY <1>1 DEF Alike, SameArchive, Like, Announce, GraphFields
<1>3. Alike(s, WakeWaiters(s, k))
  BY <1>1 DEF Alike, SameArchive, Like, WakeWaiters, GraphFields
<1>4. /\ GraphOK(Announce(s, x)) /\ GraphOK(WakeWaiters(s, k))
      /\ GraphOK([s EXCEPT !.pins = pins]) /\ GraphOK([s EXCEPT !.pending = Append(@, k)])
  BY <1>1, AnnounceSound, WakeSound, PinSound, PendingSound DEF Sound
<1> QED
  BY <1>2, <1>3, <1>4, AlikeFaithful

(* The edges of a node are taken down, and put up.                         *)
LEMMA RemoveFaithful ==
  ASSUME NEW s0, NEW s, Faithful(s0, s), NEW k \in Keys, s.nodes[k].present
  PROVE  /\ Faithful(s0, RemoveWaiterEdges(s, k))
         /\ RemoveWaiterEdges(s, k).nodes[k] = [s.nodes[k] EXCEPT !.edges = {}]
         /\ Alike(s, RemoveWaiterEdges(s, k))
<1> DEFINE u == RemoveWaiterEdges(s, k)
<1>1. DOMAIN s = GraphFields /\ s.nextGen \in Nat /\ GraphOK(s) /\ DOMAIN s.nodes = Keys
      /\ DOMAIN s.nodes[k] = NodeFields
  BY DEF Faithful, GraphOK, NodesOK, NodeOK
<1>2. GraphOK(u) /\ u.nodes[k] = [s.nodes[k] EXCEPT !.edges = {}]
  BY <1>1, RemoveSound DEF Sound
<1>3. Alike(s, u)
  BY <1>1 DEF Alike, SameArchive, Like, RemoveWaiterEdges, Unpin, GraphFields, NodeFields
<1> QED
  BY <1>2, <1>3, AlikeFaithful

LEMMA InstallEdgesFaithful ==
  ASSUME NEW s0, NEW s, Faithful(s0, s), NEW k \in Keys, s.nodes[k].present
  PROVE  Faithful(s0, InstallWaiterEdges(s, k)) /\ Alike(s, InstallWaiterEdges(s, k))
<1> DEFINE u == InstallWaiterEdges(s, k)
<1>1. DOMAIN s = GraphFields /\ s.nextGen \in Nat /\ GraphOK(s) /\ DOMAIN s.nodes = Keys
      /\ DOMAIN s.nodes[k] = NodeFields
  BY DEF Faithful, GraphOK, NodesOK, NodeOK
<1>2. GraphOK(u)
  BY <1>1, InstallEdgesSound DEF Sound
<1>3. Alike(s, u)
  BY <1>1 DEF Alike, SameArchive, Like, InstallWaiterEdges, Pin, GraphFields, NodeFields
<1> QED
  BY <1>2, <1>3, AlikeFaithful

-----------------------------------------------------------------------------
\* What the cursor shows may be archived: it is not being built, or is built anew since s0.
Storable(s0, s, k) ==
    LET n == s.nodes[k]
    IN  n.produced # 0 /\ n.state \in Unbuilt =>
            s0.nodes[k].rev = n.rev /\ s0.nodes[k].vgen = n.vgen /\ s0.nodes[k].state \in Unbuilt

(* The cursor is archived: Storable if it shows no step back, or its       *)
(* version is being built anew.                                            *)
LEMMA StoreFaithful ==
  ASSUME NEW s0, NEW s, Faithful(s0, s), NEW k \in Keys, Storable(s0, s, k)
  PROVE  Faithful(s0, StoreVersion(s, k)) /\ StoreVersion(s, k).nodes = s.nodes
<1> DEFINE n == s.nodes[k]
           x == MakeSnapshot(k, n)
<1>0. GraphOK(s) /\ NodeOK(n, k, s.nextGen) /\ s.nextGen \in Nat /\ n.state \in Readiness /\ CursorOK(n, k, s.versions)
  BY DEF Faithful, GraphOK, NodesOK, NodeOK, ArchiveOK
<1>1. CASE n.produced = 0
  BY <1>1 DEF StoreVersion
<1>2. CASE n.produced # 0
  <2>1. x \in Archivable(s.nextGen) /\ x.readiness = n.state /\ Identity(x) = Version(k, n.produced, n.vgen)
    <3>1. x \in Archivable(s.nextGen) /\ x.readiness = n.state
      BY <1>0, <1>2, SnapshotType
    <3> QED
      BY <1>2, <3>1 DEF MakeSnapshot, Snapshot, Identity
  <2>2. StoreVersion(s, k) = Archive(s, x)
    BY <1>2 DEF StoreVersion
  <2> HIDE DEF x
  <2>3. \/ \A y \in s.versions : Identity(y) = Identity(x) => Follows(x.readiness, y.readiness)
        \/ \A y \in s0.versions : Identity(y) = Identity(x) => Rebuilding(s0, y)
    <3>1. CASE n.state \in Milestones
      BY <1>0, <1>2, <2>1, <3>1 DEF CursorOK
    <3>2. CASE n.state \in Terminal
      BY <2>1, <3>2 DEF Follows
    <3>3. CASE n.state \in Unbuilt
      BY <1>0, <1>2, <2>1, <3>3 DEF Storable, CursorOK, Rebuilding, Identity, Version
    <3> QED
      BY <1>0, <3>1, <3>2, <3>3, StateFacts
  <2>4. ASSUME NEW d \in Keys, s.nodes[d].produced # 0, s.nodes[d].state \in Milestones,
               Identity(x) = Version(d, s.nodes[d].produced, s.nodes[d].vgen)
        PROVE  Follows(s.nodes[d].state, x.readiness)
    <3>1. d = k
      BY <2>1, <2>4 DEF Version
    <3> QED
      BY <1>0, <2>1, <3>1, FollowsFacts
  <2>5. Faithful(s0, Archive(s, x))
    <3> HIDE DEF n
    <3> QED
      BY <2>1, <2>3, <2>4, ArchiveFaithful
  <2> QED
    BY <1>0, <2>2, <2>5, StoreSound
<1> QED
  BY <1>1, <1>2

(* The cursor is archived and announced.                                   *)
LEMMA PublishFaithful ==
  ASSUME NEW s0, NEW s, Faithful(s0, s), NEW k \in Keys, Storable(s0, s, k)
  PROVE  Faithful(s0, Publish(s, k)) /\ Publish(s, k).nodes = s.nodes
<1> DEFINE a == StoreVersion(s, k)
           b == Announce(a, MakeSnapshot(k, s.nodes[k]))
<1>1. Faithful(s0, a) /\ a.nodes = s.nodes
  BY StoreFaithful
<1> HIDE DEF a
<1>2. Faithful(s0, b) /\ b.nodes = s.nodes
  BY <1>1, BookFaithful, AnnounceSound DEF Faithful
<1> HIDE DEF b
<1>3. Faithful(s0, WakeWaiters(b, k)) /\ WakeWaiters(b, k).nodes = s.nodes
  BY <1>2, BookFaithful, WakeSound DEF Faithful
<1> QED
  BY <1>3 DEF Publish, a, b

(* QueueNode takes a node that is not being built out of its milestone.    *)
LEMMA QueueNodeFaithful ==
  ASSUME NEW s0, NEW s, Faithful(s0, s), NEW k \in Keys
  PROVE  Faithful(s0, QueueNode(s, k))
<1> DEFINE n == s.nodes[k]
           m == LatchReadyGates(s, n)
           queued  == [m EXCEPT !.state = "Queued"]
           failed  == [m EXCEPT !.terminal = TRUE, !.state = "Failed"]
           blocked == [m EXCEPT !.state = "Blocked"]
<1>0. NodeOK(n, k, s.nextGen) /\ GraphOK(s)
  BY DEF Faithful, GraphOK, NodesOK
<1>1. CASE ~n.desired \/ n.inFlight
  BY <1>1 DEF QueueNode
<1>2. CASE n.desired /\ ~n.inFlight
  <2>0. n.present
    BY <1>0, <1>2 DEF NodeOK, NoNode
  <2>1. NodeOK(m, k, s.nextGen) /\ m = [n EXCEPT !.reqs = m.reqs]
    BY <1>0, <2>0, LatchSound
  <2>2. DOMAIN n = NodeFields
    BY <1>0 DEF NodeOK
  <2> HIDE DEF m
  <2>3. /\ m.inFlight = n.inFlight /\ m.present /\ m.vgen = n.vgen /\ m.rev = n.rev /\ m.produced = n.produced
        /\ m.successors = n.successors /\ m.gen = n.gen /\ DOMAIN m = NodeFields
    BY <2>0, <2>1, <2>2 DEF NodeFields
  <2> HIDE DEF n
  <2>4. /\ NodeOK(queued, k, s.nextGen) /\ queued.inFlight = n.inFlight /\ queued.present /\ queued.vgen = n.vgen
        /\ NodeOK(failed, k, s.nextGen) /\ failed.inFlight = n.inFlight /\ failed.present /\ failed.vgen = n.vgen
        /\ NodeOK(blocked, k, s.nextGen) /\ blocked.inFlight = n.inFlight /\ blocked.present /\ blocked.vgen = n.vgen
    BY <2>1, <2>3, ReadinessFacts DEF NodeOK, NodeFields
  <2>5. Moved(n, queued) /\ Moved(n, failed) /\ Moved(n, blocked) /\ failed.state = "Failed"
    BY <1>2, <2>3 DEF Moved, NodeFields, Milestones
  <2> HIDE DEF queued, failed, blocked
  <2>6. /\ GraphOK(WithNode(s, k, queued)) /\ GraphOK(WithNode(s, k, failed)) /\ GraphOK(WithNode(s, k, blocked))
        /\ WithNode(s, k, failed).nodes[k] = failed
    BY <1>0, <2>4, WithNodeSound DEF n, Sound
  <2>7. /\ Faithful(s0, WithNode(s, k, queued)) /\ Faithful(s0, WithNode(s, k, failed))
        /\ Faithful(s0, WithNode(s, k, blocked))
    BY <2>5, <2>6, MovedFaithful DEF n
  <2>8. Faithful(s0, [WithNode(s, k, queued) EXCEPT !.pending = Append(@, k)])
    BY <2>7, BookFaithful
  <2>9. Faithful(s0, Publish(WithNode(s, k, failed), k))
    <3>1. Storable(s0, WithNode(s, k, failed), k)
      BY <2>5, <2>6 DEF Storable, Unbuilt
    <3> QED
      BY <2>7, <3>1, PublishFaithful
  <2> QED
    BY <2>7, <2>8, <2>9 DEF QueueNode, n, m, queued, failed, blocked
<1> QED
  BY <1>1, <1>2

(* FailCycle makes the builds of a cycle stale.                            *)
LEMMA FailCycleFaithful ==
  ASSUME NEW s0, NEW s, Faithful(s0, s), NEW cycle
  PROVE  Faithful(s0, FailCycle(s, cycle))
<1> DEFINE u == FailCycle(s, cycle)
           failed(k) == [s.nodes[k] EXCEPT !.terminal = TRUE, !.gen = @ + 1, !.retry = FALSE, !.state = "Failed"]
<1>1. DOMAIN s = GraphFields /\ DOMAIN s.nodes = Keys /\ s.nextGen \in Nat /\ GraphOK(s)
  BY DEF Faithful, GraphOK, NodesOK
<1>2. /\ SameArchive(s, u) /\ u.nextGen = s.nextGen
      /\ \A k \in Keys : u.nodes[k] = IF k \in cycle /\ s.nodes[k].present THEN failed(k) ELSE s.nodes[k]
  BY <1>1 DEF FailCycle, GraphFields, SameArchive
<1>3. GraphOK(u)
  BY <1>1, FailCycleSound DEF Sound
<1> HIDE DEF u
<1>4. ASSUME NEW k \in Keys
      PROVE  /\ CursorOK(u.nodes[k], k, s.versions) /\ Carries(s0.nodes[k], u.nodes[k])
             /\ \A v \in Versions : v.key = k /\ Names(u.nodes[k], v) => Fits(s0, s, v)
  <2>1. CASE u.nodes[k] = s.nodes[k]
    BY <2>1 DEF Faithful, ArchiveOK
  <2>2. CASE u.nodes[k] = failed(k)
    <3>1. DOMAIN s.nodes[k] = NodeFields /\ s.nodes[k].gen \in Nat
      BY <1>1 DEF GraphOK, NodesOK, NodeOK
    <3>2. Moved(s.nodes[k], failed(k)) /\ failed(k).gen \in Nat
      BY <3>1 DEF Moved, NodeFields, Milestones
    <3> HIDE DEF failed
    <3> QED
      BY <2>2, <3>2, MovedCursor
  <2> QED
    BY <1>2, <2>1, <2>2
<1>5. ArchiveOK(u)
  BY <1>2, <1>4 DEF Faithful, ArchiveOK, SameArchive
<1>6. Stays(s0, u)
  BY <1>2 DEF Faithful, Stays, SameArchive
<1>7. ASSUME NEW v \in Versions PROVE (Names(u.nodes[v.key], v) => Fits(s0, u, v)) /\ Vouched(s0, u, v)
  <2>1. v.key \in Keys
    BY DEF Versions
  <2>2. Names(u.nodes[v.key], v) => Fits(s0, s, v)
    BY <1>4, <2>1
  <2>3. Vouched(s0, s, v)
    BY DEF Faithful
  <2> QED
    BY <1>2, <2>2, <2>3 DEF Fits, Vouched, SameArchive
<1> QED
  BY <1>2, <1>3, <1>4, <1>5, <1>6, <1>7 DEF Faithful, u

(* A node that is in no cycle is queued.                                   *)
LEMMA QueueUnlessFaithful ==
  ASSUME NEW s0, NEW s, Faithful(s0, s), NEW k \in Keys
  PROVE  Faithful(s0, QueueUnlessCyclic(s, k))
BY FailCycleFaithful, QueueNodeFaithful DEF QueueUnlessCyclic

(* Whether a version fits depends on the table of generations alone.       *)
LEMMA FitsSame ==
  ASSUME NEW s0, NEW s, NEW u, u.gens = s.gens, NEW v
  PROVE  Fits(s0, u, v) <=> Fits(s0, s, v)
BY DEF Fits

(* A version is its address, revision and generation.                      *)
LEMMA VersionIs ==
  ASSUME NEW v \in Versions
  PROVE  v = Version(v.key, v.rev, v.gen)
BY DEF Versions, Version

(* Install archives the cursor and makes it build a version that fits.     *)
LEMMA InstallFaithful ==
  ASSUME NEW s0, NEW s, Faithful(s0, s), NEW k \in Keys, s.nodes[k].present, NEW r \in Parked(s.nextGen),
         Storable(s0, s, k), ~s.nodes[k].inFlight \/ s.nodes[k].rev = 0, Fits(s0, s, Version(k, r.rev, r.gen))
  PROVE  Faithful(s0, Install(s, k, r))
<1> DEFINE a    == StoreVersion(s, k)
           left == RemoveWaiterEdges(a, k)
           n    == [left.nodes[k] EXCEPT
                    !.rev = r.rev, !.vgen = r.gen, !.gen = r.gen, !.reqs = r.reqs, !.asked = r.asked,
                    !.coalesce = r.coalesce, !.state = "Missing", !.produced = 0, !.used = {},
                    !.waiting = 0, !.terminal = FALSE, !.latestNeeded = FALSE,
                    !.superseded = FALSE, !.attempted = FALSE, !.retry = FALSE]
           b    == WithNode(left, k, n)
           c    == InstallWaiterEdges(b, k)
<1>1. Faithful(s0, a) /\ a.nodes = s.nodes /\ a.nextGen = s.nextGen /\ a.gens = s.gens
  <2>1. a.nextGen = s.nextGen /\ a.gens = s.gens
    BY DEF StoreVersion, Archive, Faithful, GraphOK, NodesOK, GraphFields
  <2> QED
    BY <2>1, StoreFaithful
<1>2. Install(s, k, r) = QueueUnlessCyclic(c, k)
  BY DEF Install
<1> HIDE DEF a
<1>3. /\ Faithful(s0, left) /\ left.nodes[k] = [s.nodes[k] EXCEPT !.edges = {}] /\ Alike(a, left)
      /\ s.nextGen <= left.nextGen /\ left.gens = s.gens
  <2>1. /\ Faithful(s0, left) /\ left.nodes[k] = [s.nodes[k] EXCEPT !.edges = {}] /\ Alike(a, left)
    BY <1>1, RemoveFaithful
  <2> QED
    BY <1>1, <2>1 DEF Alike, SameArchive
<1> HIDE DEF left
<1>5. /\ NodeOK(left.nodes[k], k, left.nextGen) /\ left.nextGen \in Nat /\ s.nextGen \in Nat
      /\ left.nodes[k].present = s.nodes[k].present /\ left.nodes[k].inFlight = s.nodes[k].inFlight
      /\ left.nodes[k].successors = s.nodes[k].successors
  <2>1. NodeOK(left.nodes[k], k, left.nextGen) /\ left.nextGen \in Nat /\ s.nextGen \in Nat /\ DOMAIN s.nodes[k] = NodeFields
    BY <1>3 DEF Faithful, GraphOK, NodesOK, NodeOK
  <2> QED
    BY <1>3, <2>1 DEF NodeFields
<1>6. /\ NodeOK(n, k, left.nextGen) /\ n.inFlight = s.nodes[k].inFlight /\ n.present /\ n.vgen # 0
      /\ n.vgen = r.gen /\ n.rev = r.rev /\ n.produced = 0 /\ n.state = "Missing"
      /\ n.successors = s.nodes[k].successors
  <2>1. r.rev \in Nat /\ r.gen \in 1..left.nextGen /\ r.reqs \in Recipe /\ r.asked \in Recipe /\ r.coalesce \in BOOLEAN
    BY <1>3, <1>5 DEF Parked
  <2>2. DOMAIN n = NodeFields /\ n.inFlight = left.nodes[k].inFlight /\ n.present = left.nodes[k].present
        /\ n.vgen = r.gen /\ n.rev = r.rev /\ n.produced = 0 /\ n.reqs = r.reqs /\ n.asked = r.asked
        /\ n.coalesce = r.coalesce /\ n.gen = r.gen /\ n.state = "Missing" /\ n.edges = left.nodes[k].edges
        /\ n.successors = left.nodes[k].successors
    BY <1>5 DEF NodeOK, NodeFields
  <2> HIDE DEF n
  <2> QED
    BY <1>3, <1>5, <2>1, <2>2, ReadinessFacts DEF NodeOK
<1> HIDE DEF n
<1>7. Faithful(s0, b) /\ b.nodes[k] = n
  <2>1. GraphOK(b) /\ b.nodes[k] = n
    <3>1. GraphOK(left)
      BY <1>3 DEF Faithful
    <3> QED
      BY <1>5, <1>6, <3>1, WithNodeSound DEF Sound
  <2>2. CursorOK(n, k, left.versions)
    BY <1>6 DEF CursorOK, Milestones
  <2>3. Carries(s0.nodes[k], n)
    <3>1. Carries(s0.nodes[k], s.nodes[k])
      BY DEF Faithful
    <3> QED
      BY <1>6, <3>1 DEF Carries
  <2>4. ASSUME NEW v \in Versions, v.key = k, Names(n, v) PROVE Fits(s0, left, v)
    <3>1. CASE n.rev = v.rev /\ n.vgen = v.gen
      <4>1. v = Version(k, r.rev, r.gen)
        BY <1>6, <2>4, <3>1, VersionIs
      <4> QED
        BY <1>3, <4>1, FitsSame
    <3>2. CASE ~(n.rev = v.rev /\ n.vgen = v.gen)
      <4>1. Names(s.nodes[k], v)
        BY <1>6, <2>4, <3>2 DEF Names
      <4>2. Fits(s0, s, v)
        BY <2>4, <4>1 DEF Faithful
      <4> QED
        BY <1>3, <4>2, FitsSame
    <3> QED
      BY <3>1, <3>2
  <2>5. Faithful(s0, WithNode(left, k, n))
    BY <1>3, <2>1, <2>2, <2>3, <2>4, WithFaithful
  <2> QED
    BY <2>1, <2>5
<1> HIDE DEF b
<1>8. Faithful(s0, c)
  BY <1>6, <1>7, InstallEdgesFaithful
<1> HIDE DEF c
<1> QED
  BY <1>2, <1>8, QueueUnlessFaithful

(* The head and the tail of a queue are of its elements.                   *)
LEMMA TailFacts ==
  ASSUME NEW S, NEW q \in Seq(S), q # <<>>
  PROVE  /\ Head(q) \in S /\ Tail(q) \in Seq(S) /\ Head(q) = q[1] /\ 1 \in 1..Len(q)
         /\ \A i \in 1..Len(Tail(q)) : i + 1 \in 1..Len(q) /\ Tail(q)[i] = q[i + 1]
<1>1. Len(q) \in Nat \ {0} /\ Len(Tail(q)) = Len(q) - 1
  OBVIOUS
<1> QED
  BY <1>1

(* What is parked behind the cursor fits as it is named already.           *)
LEMMA PromoteFaithful ==
  ASSUME NEW s0, NEW s, Faithful(s0, s), NEW k \in Keys, Storable(s0, s, k)
  PROVE  Faithful(s0, PromoteSuccessor(s, k))
<1> DEFINE n == s.nodes[k]
           q == n.successors
           m == [n EXCEPT !.successors = Tail(q), !.published = FALSE]
           a == WithNode(s, k, m)
           b == Unpin(a, Head(q).reqs)
           v == Version(k, Head(q).rev, Head(q).gen)
<1>1. CASE q = <<>> \/ n.inFlight
  BY <1>1 DEF PromoteSuccessor
<1>2. CASE ~(q = <<>> \/ n.inFlight)
  <2>1. NodeOK(n, k, s.nextGen) /\ s.nextGen \in Nat /\ q \in Seq(Parked(s.nextGen)) /\ GraphOK(s)
    BY DEF Faithful, GraphOK, NodesOK, NodeOK
  <2>2. n.present
    BY <1>2, <2>1 DEF NodeOK, NoNode
  <2>3. Head(q) \in Parked(s.nextGen) /\ Tail(q) \in Seq(Parked(s.nextGen)) /\ Head(q) = q[1] /\ 1 \in 1..Len(q)
        /\ \A i \in 1..Len(Tail(q)) : i + 1 \in 1..Len(q) /\ Tail(q)[i] = q[i + 1]
    BY <1>2, <2>1, TailFacts
  <2>4. /\ NodeOK(m, k, s.nextGen) /\ m.inFlight = n.inFlight /\ m.present /\ m.vgen = n.vgen /\ m.rev = n.rev
        /\ m.produced = n.produced /\ m.state = n.state /\ m.successors = Tail(q) /\ m.gen = n.gen
    BY <2>1, <2>2, <2>3 DEF NodeOK, NodeFields
  <2>5. PromoteSuccessor(s, k) = Install(b, k, Head(q))
    BY <1>2 DEF PromoteSuccessor, WithNode
  <2>6. v \in Versions /\ Fits(s0, s, v)
    <3>1. Names(n, v)
      BY <2>3 DEF Names, Version
    <3>2. v \in Versions /\ v.key = k
      BY <2>1, <2>3 DEF Version, Versions, Parked
    <3> QED
      BY <3>1, <3>2 DEF Faithful
  <2> HIDE DEF m, v
  <2>7. GraphOK(a) /\ a.nodes[k] = m /\ a.nextGen = s.nextGen
    BY <2>1, <2>4, WithNodeSound DEF Sound
  <2>8. Faithful(s0, a)
    <3>1. CursorOK(m, k, s.versions)
      BY <2>4 DEF Faithful, ArchiveOK, CursorOK
    <3>2. Carries(s0.nodes[k], m)
      BY <1>2, <2>4 DEF Carries
    <3>3. ASSUME NEW w \in Versions, w.key = k, Names(m, w) PROVE Fits(s0, s, w)
      <4>1. Names(n, w)
        BY <2>3, <2>4, <3>3 DEF Names
      <4> QED
        BY <3>3, <4>1 DEF Faithful
    <3> QED
      BY <2>7, <3>1, <3>2, <3>3, WithFaithful
  <2>9. a.gens = s.gens /\ DOMAIN a = GraphFields
    BY <2>7 DEF WithNode, GraphOK, NodesOK, GraphFields, Faithful
  <2> HIDE DEF a
  <2>10. Faithful(s0, b) /\ b.nodes = a.nodes /\ b.nextGen = s.nextGen /\ b.gens = s.gens
    <3>1. b.nodes = a.nodes /\ b.nextGen = a.nextGen /\ b.gens = a.gens
      BY <2>9 DEF Unpin, GraphFields
    <3>2. Faithful(s0, b)
      BY <2>8, BookFaithful DEF Unpin
    <3> QED
      BY <2>7, <2>9, <3>1, <3>2
  <2> HIDE DEF b
  <2>11. Storable(s0, b, k)
    BY <2>4, <2>7, <2>10 DEF Storable
  <2>12. Fits(s0, b, v)
    BY <2>6, <2>10, FitsSame
  <2>13. Faithful(s0, Install(b, k, Head(q)))
    BY <1>2, <2>3, <2>4, <2>7, <2>10, <2>11, <2>12, InstallFaithful DEF v
  <2> QED
    BY <2>5, <2>13
<1> QED
  BY <1>1, <1>2

(* A version that fits is parked.                                          *)
LEMMA ParkFaithful ==
  ASSUME NEW s0, NEW s, Faithful(s0, s), NEW k \in Keys, s.nodes[k].present, NEW r \in Parked(s.nextGen),
         Fits(s0, s, Version(k, r.rev, r.gen))
  PROVE  LET u == ParkSuccessor(s, k, r)
         IN  /\ Faithful(s0, u) /\ u.gens = s.gens /\ u.nextGen = s.nextGen
             /\ u.nodes[k] = [s.nodes[k] EXCEPT !.successors = Append(@, r)]
<1> DEFINE n == s.nodes[k]
           m == [n EXCEPT !.successors = Append(@, r)]
           a == WithNode(s, k, m)
<1>1. ParkSuccessor(s, k, r) = Pin(a, r.reqs)
  BY DEF ParkSuccessor, WithNode
<1>2. NodeOK(n, k, s.nextGen) /\ n.successors \in Seq(Parked(s.nextGen)) /\ GraphOK(s)
  BY DEF Faithful, GraphOK, NodesOK, NodeOK
<1>3. /\ Append(n.successors, r) \in Seq(Parked(s.nextGen))
      /\ \A i \in 1..Len(Append(n.successors, r)) :
            Append(n.successors, r)[i] = r
            \/ (i \in 1..Len(n.successors) /\ Append(n.successors, r)[i] = n.successors[i])
  BY <1>2
<1>4. /\ NodeOK(m, k, s.nextGen) /\ m.inFlight = n.inFlight /\ m.present /\ m.vgen = n.vgen /\ m.rev = n.rev
      /\ m.produced = n.produced /\ m.state = n.state /\ m.successors = Append(n.successors, r) /\ m.gen = n.gen
  BY <1>2, <1>3 DEF NodeOK, NodeFields
<1> HIDE DEF m
<1>5. GraphOK(a) /\ a.nodes[k] = m
  BY <1>2, <1>4, WithNodeSound DEF Sound
<1>6. Faithful(s0, a)
  <2>1. CursorOK(m, k, s.versions)
    BY <1>4 DEF Faithful, ArchiveOK, CursorOK
  <2>2. Carries(s0.nodes[k], m)
    BY <1>4 DEF Carries, Faithful
  <2>3. ASSUME NEW w \in Versions, w.key = k, Names(m, w) PROVE Fits(s0, s, w)
    <3>1. CASE Names(n, w)
      BY <2>3, <3>1 DEF Faithful
    <3>2. CASE ~Names(n, w)
      <4>1. r.rev = w.rev /\ r.gen = w.gen
        BY <1>3, <1>4, <2>3, <3>2 DEF Names
      <4>2. w = Version(k, r.rev, r.gen)
        BY <2>3, <4>1, VersionIs
      <4> QED
        BY <4>2
    <3> QED
      BY <3>1, <3>2
  <2> QED
    BY <1>5, <2>1, <2>2, <2>3, WithFaithful
<1>7. a.gens = s.gens /\ a.nextGen = s.nextGen /\ DOMAIN a = GraphFields
  BY <1>5 DEF WithNode, GraphOK, NodesOK, GraphFields, Faithful
<1> HIDE DEF a
<1>8. Faithful(s0, Pin(a, r.reqs))
  BY <1>6, BookFaithful DEF Pin
<1>9. Pin(a, r.reqs).nodes = a.nodes /\ Pin(a, r.reqs).gens = a.gens /\ Pin(a, r.reqs).nextGen = a.nextGen
  BY <1>7 DEF Pin, GraphFields
<1> QED
  BY <1>1, <1>5, <1>7, <1>8, <1>9 DEF m

(* The version that QueueLatestSuccessor rebuilds has a generation nobody  *)
(* was promised.                                                           *)
LEMMA QueueLatestFaithful ==
  ASSUME NEW s0, NEW s, Faithful(s0, s), NEW k \in Keys
  PROVE  Faithful(s0, QueueLatestSuccessor(s, k))
<1> DEFINE n    == s.nodes[k]
           calm == [s EXCEPT !.nodes[k].latestNeeded = FALSE]
           up   == [calm EXCEPT !.nextGen = @ + 1]
           r    == [rev |-> n.rev, gen |-> s.nextGen + 1, reqs |-> n.asked, asked |-> n.asked,
                    coalesce |-> n.coalesce]
           parked == ParkSuccessor(up, k, r)
<1>1. CASE n.produced = 0 \/ n.state \notin {"UploadSubmitted", "GpuReady", "Published"}
  BY <1>1 DEF QueueLatestSuccessor
<1>2. CASE n.produced # 0 /\ n.state \in {"UploadSubmitted", "GpuReady", "Published"}
  <2>1. NodeOK(n, k, s.nextGen) /\ s.nextGen \in Nat /\ s0.nextGen \in Nat /\ s0.nextGen <= s.nextGen /\ GraphOK(s)
        /\ DOMAIN s = GraphFields /\ DOMAIN s.nodes = Keys
    BY DEF Faithful, GraphOK, NodesOK
  <2>2. n.present /\ DOMAIN n = NodeFields
    BY <1>2, <2>1 DEF NodeOK, NoNode
  <2>3. QueueLatestSuccessor(s, k) \in {s, PromoteSuccessor(calm, k), PromoteSuccessor(parked, k)}
    BY DEF QueueLatestSuccessor
  <2>4. /\ Faithful(s0, calm) /\ GraphOK(calm) /\ calm.nodes[k].present /\ calm.nextGen = s.nextGen
        /\ calm.nodes[k].produced = n.produced /\ calm.nodes[k].state = n.state
    <3>1. calm = WithNode(s, k, [n EXCEPT !.latestNeeded = FALSE])
      BY DEF WithNode
    <3>2. GraphOK(calm)
      BY <2>1, <2>2, <3>1, FlagSound DEF Sound
    <3>3. /\ Alike(s, calm) /\ calm.nodes[k].present /\ calm.nextGen = s.nextGen
          /\ calm.nodes[k].produced = n.produced /\ calm.nodes[k].state = n.state
      BY <2>1, <2>2 DEF Alike, SameArchive, Like, GraphFields, NodeFields
    <3> HIDE DEF calm
    <3> QED
      BY <3>2, <3>3, AlikeFaithful
  <2> HIDE DEF calm
  <2>5. /\ Faithful(s0, up) /\ up.nextGen = s.nextGen + 1 /\ up.nodes = calm.nodes
    <3>1. DOMAIN calm = GraphFields
      BY <2>4 DEF GraphOK, NodesOK
    <3>2. GraphOK(up) /\ Alike(calm, up) /\ up.nextGen = s.nextGen + 1 /\ up.nodes = calm.nodes
      BY <2>1, <2>4, <3>1, MintSound DEF Sound, Alike, SameArchive, Like, GraphFields
    <3> HIDE DEF up
    <3> QED
      BY <2>4, <3>2, AlikeFaithful
  <2> HIDE DEF up
  <2>6. r \in Parked(up.nextGen) /\ r.gen = s.nextGen + 1
    BY <2>1, <2>5 DEF Parked, NodeOK
  <2> HIDE DEF r
  <2>7. Fits(s0, up, Version(k, r.rev, r.gen))
    BY <2>1, <2>6 DEF Fits, Version
  <2>8. Faithful(s0, parked) /\ parked.nodes[k] = [up.nodes[k] EXCEPT !.successors = Append(@, r)]
    BY <2>4, <2>5, <2>6, <2>7, ParkFaithful
  <2> HIDE DEF parked
  <2>9. Storable(s0, calm, k) /\ Storable(s0, parked, k)
    <3>1. DOMAIN up.nodes[k] = NodeFields
      BY <2>5 DEF Faithful, GraphOK, NodesOK, NodeOK
    <3>2. parked.nodes[k].state = n.state
      BY <2>4, <2>5, <2>8, <3>1 DEF NodeFields
    <3> QED
      BY <1>2, <2>4, <3>2 DEF Storable, Unbuilt
  <2>10. Faithful(s0, PromoteSuccessor(calm, k)) /\ Faithful(s0, PromoteSuccessor(parked, k))
    BY <2>4, <2>8, <2>9, PromoteFaithful
  <2> QED
    BY <2>3, <2>10
<1> QED
  BY <1>1, <1>2

(* An address moves on, and a consumer is woken.                           *)
LEMMA AdvanceFaithful ==
  ASSUME NEW s0, NEW s, Faithful(s0, s), NEW k \in Keys, Storable(s0, s, k)
  PROVE  Faithful(s0, Advance(s, k))
BY PromoteFaithful, QueueLatestFaithful DEF Advance

LEMMA WakeWaiterFaithful ==
  ASSUME NEW s0, NEW s, Faithful(s0, s), NEW k \in Keys, NEW dep
  PROVE  Faithful(s0, WakeWaiter(s, dep, k))
<1> DEFINE n == s.nodes[k]
           u == [s EXCEPT !.nodes[k].latestNeeded = TRUE]
<1>1. CASE ~n.present
  BY <1>1 DEF WakeWaiter
<1>2. CASE n.present
  <2>0. GraphOK(s) /\ DOMAIN s = GraphFields /\ DOMAIN s.nodes = Keys /\ DOMAIN n = NodeFields /\ s.nextGen \in Nat
    BY DEF Faithful, GraphOK, NodesOK, NodeOK
  <2>1. u = WithNode(s, k, [n EXCEPT !.latestNeeded = TRUE])
    BY DEF WithNode
  <2>2. Faithful(s0, u)
    <3>1. GraphOK(u)
      BY <1>2, <2>0, <2>1, FlagSound DEF Sound
    <3>2. Alike(s, u)
      BY <2>0 DEF Alike, SameArchive, Like, GraphFields, NodeFields
    <3> HIDE DEF u
    <3> QED
      BY <3>1, <3>2, AlikeFaithful
  <2>3. WakeWaiter(s, dep, k) \in {QueueLatestSuccessor(s, k), QueueNode(u, k), QueueNode(s, k)}
    BY <1>2 DEF WakeWaiter
  <2> HIDE DEF u
  <2> QED
    BY <2>2, <2>3, QueueNodeFaithful, QueueLatestFaithful
<1> QED
  BY <1>1, <1>2

-----------------------------------------------------------------------------
(* An entry of a table to which one was added, or from which it was taken. *)
LEMMA EntryFacts ==
  ASSUME NEW table, NEW kr, NEW e, NEW p
  PROVE  /\ Entry(Enter(table, kr, e), p) = IF p = kr THEN e ELSE Entry(table, p)
         /\ Entry(Without(table, kr), p) = IF p = kr THEN 0 ELSE Entry(table, p)
BY DEF Entry, Enter, Without

(* Aliases name no version of a node.                                      *)
LEMMA AliasFaithful ==
  ASSUME NEW s0, NEW s, Faithful(s0, s), NEW predicted, NEW installed \in Versions
  PROVE  LET u == AliasPredicted(s, predicted, installed)
         IN  Faithful(s0, u) /\ u.nodes = s.nodes /\ u.nextGen = s.nextGen /\ u.gens = s.gens
<1> DEFINE u == AliasPredicted(s, predicted, installed)
<1>1. DOMAIN s = GraphFields /\ s.nextGen \in Nat /\ GraphOK(s)
  BY DEF Faithful, GraphOK, NodesOK
<1>2. GraphOK(u) /\ u.nodes = s.nodes /\ u.nextGen = s.nextGen /\ u.gens = s.gens
  BY <1>1, AliasSound DEF Sound
<1>3. Alike(s, u)
  <2>1. u.versions = s.versions /\ u.reserved = s.reserved
    BY <1>1 DEF AliasPredicted, GraphFields
  <2> HIDE DEF u
  <2> QED
    BY <1>1, <1>2, <2>1 DEF Alike, SameArchive, Like
<1> HIDE DEF u
<1> QED
  BY <1>2, <1>3, AlikeFaithful DEF u

(* Of what is parked some give way.                                        *)
LEMMA CoalesceFaithful ==
  ASSUME NEW s0, NEW s, Faithful(s0, s), NEW k \in Keys, s.nodes[k].present
  PROVE  LET u == CoalesceSuccessors(s, k)
             n == s.nodes[k]
         IN  /\ Faithful(s0, u) /\ u.gens = s.gens /\ u.nextGen = s.nextGen
             /\ u.nodes[k] = [n EXCEPT !.successors = u.nodes[k].successors]
<1> DEFINE n == s.nodes[k]
           q == n.successors
           left(m) == [s EXCEPT !.pins = PinsWithout(s, q, m)]
           stays == {i \in 1..Len(q) : ~q[i].coalesce \/ HasExactDependent(left(i), Version(k, q[i].rev, q[i].gen))}
           last == IF stays = {} THEN 0 ELSE Max(stays)
           a == left(last)
           m == [n EXCEPT !.successors = SubSeq(q, 1, last)]
<1>0. GraphOK(s) /\ DOMAIN s = GraphFields
  BY DEF Faithful, GraphOK, NodesOK
<1>1. NodeOK(n, k, s.nextGen) /\ q \in Seq(Parked(s.nextGen)) /\ Len(q) \in Nat /\ DOMAIN n = NodeFields
  BY <1>0 DEF GraphOK, NodesOK, NodeOK
<1>2. last \in 0..Len(q)
  <2>1. stays \in SUBSET (1..Len(q))
    OBVIOUS
  <2> HIDE DEF stays
  <2>2. stays # {} => Max(stays) \in stays
    BY <1>1, <2>1, MaxExists
  <2>3. CASE stays = {}
    BY <1>1, <2>3
  <2>4. CASE stays # {}
    <3>1. last = Max(stays) /\ Max(stays) \in 1..Len(q)
      BY <2>1, <2>2, <2>4
    <3> HIDE DEF last
    <3> QED
      BY <1>1, <3>1
  <2> QED
    BY <2>3, <2>4
<1>3. /\ Faithful(s0, a) /\ a.nodes = s.nodes /\ a.gens = s.gens /\ a.nextGen = s.nextGen
      /\ a.versions = s.versions /\ DOMAIN a = GraphFields
  <2>1. Faithful(s0, a)
    BY BookFaithful
  <2> QED
    BY <1>0, <2>1 DEF GraphFields
<1>4. CoalesceSuccessors(s, k) = [a EXCEPT !.nodes[k].successors = SubSeq(q, 1, last)]
  BY DEF CoalesceSuccessors
<1>5. GraphOK(CoalesceSuccessors(s, k))
  BY <1>0, CoalesceSound DEF Sound
<1> HIDE DEF a, last
<1>6. CoalesceSuccessors(s, k) = WithNode(a, k, m)
  BY <1>3, <1>4 DEF WithNode
<1>7. Len(SubSeq(q, 1, last)) = last /\ \A i \in 1..last : SubSeq(q, 1, last)[i] = q[i] /\ i \in 1..Len(q)
  BY <1>1, <1>2, SubSeqProperties
<1>8. /\ m.inFlight = n.inFlight /\ m.vgen = n.vgen /\ m.rev = n.rev /\ m.produced = n.produced
      /\ m.state = n.state /\ m.successors = SubSeq(q, 1, last) /\ m.gen = n.gen
      /\ m = [n EXCEPT !.successors = m.successors]
  BY <1>1 DEF NodeFields
<1> HIDE DEF m
<1>9. CursorOK(m, k, a.versions)
  BY <1>3, <1>8 DEF Faithful, ArchiveOK, CursorOK
<1>10. Carries(s0.nodes[k], m)
  BY <1>8 DEF Faithful, Carries
<1>11. ASSUME NEW v \in Versions, v.key = k, Names(m, v) PROVE Fits(s0, a, v)
  <2>1. Names(n, v)
    <3>1. CASE m.rev = v.rev /\ m.vgen = v.gen
      BY <1>8, <3>1 DEF Names
    <3>2. CASE ~(m.rev = v.rev /\ m.vgen = v.gen)
      <4>1. PICK i \in 1..Len(m.successors) : m.successors[i].rev = v.rev /\ m.successors[i].gen = v.gen
        BY <1>11, <3>2 DEF Names
      <4>2. i \in 1..Len(q) /\ q[i].rev = v.rev /\ q[i].gen = v.gen
        BY <1>7, <1>8, <4>1
      <4> QED
        BY <4>2 DEF Names
    <3> QED
      BY <3>1, <3>2
  <2> QED
    BY <1>3, <1>11, <2>1 DEF Faithful
<1>12. Faithful(s0, WithNode(a, k, m))
  BY <1>3, <1>5, <1>6, <1>9, <1>10, <1>11, WithFaithful
<1>13. WithNode(a, k, m).gens = a.gens /\ WithNode(a, k, m).nextGen = a.nextGen /\ WithNode(a, k, m).nodes[k] = m
  BY <1>3 DEF WithNode, GraphFields, Faithful, GraphOK, NodesOK
<1> QED
  BY <1>3, <1>6, <1>8, <1>12, <1>13

(* Storable depends on four fields of the node.                            *)
LEMMA StorableLike ==
  ASSUME NEW s0, NEW s, NEW k, Storable(s0, s, k), NEW u,
         u.nodes[k].state = s.nodes[k].state, u.nodes[k].rev = s.nodes[k].rev,
         u.nodes[k].vgen = s.nodes[k].vgen, u.nodes[k].produced = s.nodes[k].produced
  PROVE  Storable(s0, u, k)
BY DEF Storable

(* A version that fits waits behind the one under way, or takes its place. *)
LEMMA EnqueueFaithful ==
  ASSUME NEW s0, NEW s, Faithful(s0, s), NEW k \in Keys, s.nodes[k].present, NEW r \in Parked(s.nextGen),
         Storable(s0, s, k), Fits(s0, s, Version(k, r.rev, r.gen))
  PROVE  Faithful(s0, EnqueueBehindActive(s, k, r))
<1> DEFINE n == s.nodes[k]
           marked == [s EXCEPT !.nodes[k].superseded = TRUE]
           m == [n EXCEPT !.superseded = TRUE]
           from == IF HasExactDependent(s, Version(k, n.rev, n.vgen)) THEN s ELSE marked
           merged == IF r.coalesce THEN CoalesceSuccessors(from, k) ELSE s
           parked == ParkSuccessor(merged, k, r)
           Fine(u) == /\ Faithful(s0, u) /\ u.gens = s.gens /\ u.nextGen = s.nextGen
                      /\ u.nodes[k].present /\ Storable(s0, u, k)
<1>0. GraphOK(s) /\ DOMAIN s = GraphFields /\ DOMAIN s.nodes = Keys /\ s.nextGen \in Nat
      /\ NodeOK(n, k, s.nextGen) /\ DOMAIN n = NodeFields
  BY DEF Faithful, GraphOK, NodesOK, NodeOK
<1>1. EnqueueBehindActive(s, k, r) \in {parked, PromoteSuccessor(parked, k)}
  BY DEF EnqueueBehindActive
<1>2. marked = WithNode(s, k, m)
  BY DEF WithNode
<1>3. NodeOK(m, k, s.nextGen) /\ m.inFlight = n.inFlight /\ m.present /\ m.vgen = n.vgen /\ Like(n, m)
  BY <1>0 DEF NodeOK, NodeFields, Like
<1>31. s.nodes[k].vgen # 0 => m.vgen # 0
  BY <1>3
<1> HIDE DEF m
<1>4. Fine(marked)
  <2>1. GraphOK(marked) /\ marked.nodes[k] = m
    <3>1. GraphOK(s)
      BY <1>0
    <3>2. GraphOK(WithNode(s, k, m)) /\ WithNode(s, k, m).nodes[k] = m
      BY <1>3, <1>31, <3>1, WithNodeSound DEF Sound
    <3> QED
      BY <1>2, <3>2
  <2>2. Alike(s, marked) /\ marked.gens = s.gens /\ marked.nextGen = s.nextGen
    BY <1>0, <1>2, <1>3 DEF Alike, SameArchive, Like, WithNode, GraphFields
  <2> HIDE DEF marked
  <2>3. Faithful(s0, marked)
    BY <2>1, <2>2, AlikeFaithful
  <2> QED
    BY <1>3, <2>1, <2>2, <2>3, StorableLike DEF Like
<1> HIDE DEF marked
<1>5. Fine(s)
  OBVIOUS
<1>6. Fine(from)
  BY <1>4, <1>5
<1> HIDE DEF from
<1>7. Fine(CoalesceSuccessors(from, k))
  <2> DEFINE u == CoalesceSuccessors(from, k)
  <2>1. /\ Faithful(s0, u) /\ u.gens = from.gens /\ u.nextGen = from.nextGen
        /\ u.nodes[k] = [from.nodes[k] EXCEPT !.successors = u.nodes[k].successors]
    BY <1>6, CoalesceFaithful
  <2>2. DOMAIN from.nodes[k] = NodeFields
    BY <1>6 DEF Faithful, GraphOK, NodesOK, NodeOK
  <2> HIDE DEF u
  <2>3. /\ u.nodes[k].state = from.nodes[k].state /\ u.nodes[k].rev = from.nodes[k].rev
        /\ u.nodes[k].vgen = from.nodes[k].vgen /\ u.nodes[k].produced = from.nodes[k].produced
        /\ u.nodes[k].present = from.nodes[k].present
    BY <2>1, <2>2 DEF NodeFields
  <2> QED
    BY <1>6, <2>1, <2>3, StorableLike DEF u
<1>8. Fine(merged)
  BY <1>5, <1>7
<1> HIDE DEF merged
<1>9. Faithful(s0, parked) /\ Storable(s0, parked, k)
  <2>1. Fits(s0, merged, Version(k, r.rev, r.gen))
    BY <1>8, FitsSame
  <2>2. Faithful(s0, parked) /\ parked.nodes[k] = [merged.nodes[k] EXCEPT !.successors = Append(@, r)]
    BY <1>8, <2>1, ParkFaithful
  <2>3. DOMAIN merged.nodes[k] = NodeFields
    BY <1>8 DEF Faithful, GraphOK, NodesOK, NodeOK
  <2> HIDE DEF parked
  <2>4. /\ parked.nodes[k].state = merged.nodes[k].state /\ parked.nodes[k].rev = merged.nodes[k].rev
        /\ parked.nodes[k].vgen = merged.nodes[k].vgen /\ parked.nodes[k].produced = merged.nodes[k].produced
    BY <2>2, <2>3 DEF NodeFields
  <2> QED
    BY <1>8, <2>2, <2>4, StorableLike
<1> HIDE DEF parked
<1>10. Faithful(s0, PromoteSuccessor(parked, k))
  BY <1>9, PromoteFaithful
<1> QED
  BY <1>1, <1>9, <1>10

(* Reserve gives a generation to a revision that had none.                 *)
LEMMA ReserveFaithful ==
  ASSUME NEW s, GraphOK(s), ArchiveOK(s), NEW r, Requested(r, s.nextGen)
  PROVE  LET u  == Reserve(s, r)
             kr == <<r.key, r.rev>>
         IN  /\ Faithful(s, u) /\ u.versions = s.versions
             /\ \A d \in Keys : Like(s.nodes[d], u.nodes[d])
             /\ \A p : Entry(u.gens, p) = IF p = kr THEN u.gens[kr] ELSE Entry(s.gens, p)
             /\ Entry(s.gens, kr) # 0 => u.gens[kr] = Entry(s.gens, kr)
<1> DEFINE kr     == <<r.key, r.rev>>
           minted == r.gen = 0 /\ Entry(s.gens, kr) = 0 /\ Entry(s.reserved, kr) = 0
           gen    == IF Entry(s.gens, kr) # 0 THEN s.gens[kr] ELSE IF r.gen # 0 THEN r.gen
                     ELSE IF minted THEN s.nextGen + 1 ELSE s.reserved[kr]
           u      == Reserve(s, r)
<1>1. /\ DOMAIN s = GraphFields /\ DOMAIN s.nodes = Keys /\ s.nextGen \in Nat /\ r.key \in Keys
      /\ DOMAIN s.nodes[r.key] = NodeFields
  BY DEF GraphOK, NodesOK, NodeOK, Requested
<1>2. GraphOK(u) /\ s.nextGen <= u.nextGen
  BY ReserveSound DEF Sound, Kept
<1>3. /\ u.gens = Enter(s.gens, kr, gen) /\ u.reserved \in {s.reserved, Enter(s.reserved, kr, gen)}
      /\ u.versions = s.versions /\ \A d \in Keys : Like(s.nodes[d], u.nodes[d])
  <2> HIDE DEF gen
  <2> QED
    BY <1>1 DEF Reserve, GraphFields, gen, Like, NodeFields
<1>4. Entry(s.gens, kr) # 0 => gen = Entry(s.gens, kr)
  BY DEF Entry
<1> HIDE DEF u, gen, minted
<1>5. u.gens[kr] = gen /\ \A p : Entry(u.gens, p) = IF p = kr THEN gen ELSE Entry(s.gens, p)
  <2>1. u.gens[kr] = gen
    BY <1>3 DEF Enter
  <2> QED
    BY <1>3, <2>1, EntryFacts
<1>6. ArchiveOK(u) /\ Stays(s, u)
  <2>1. Faithful(s, s)
    BY FaithfulRefl
  <2> QED
    BY <1>3, <2>1 DEF Faithful, ArchiveOK, CursorOK, Like, Stays
<1>7. \A d \in Keys : Carries(s.nodes[d], u.nodes[d])
  <2>1. Faithful(s, s)
    BY FaithfulRefl
  <2> QED
    BY <1>3, <2>1 DEF Faithful, Carries, Like
<1>8. ASSUME NEW v \in Versions PROVE (Names(u.nodes[v.key], v) => Fits(s, u, v)) /\ Vouched(s, u, v)
  <2>1. v.key \in Keys
    BY DEF Versions
  <2>2. Names(u.nodes[v.key], v) => Names(s.nodes[v.key], v)
    BY <1>3, <2>1 DEF Names, Like
  <2>3. Names(u.nodes[v.key], v) => Fits(s, u, v)
    <3>1. CASE <<v.key, v.rev>> = kr
      BY <1>4, <1>5, <2>2, <3>1 DEF Fits, Predicted
    <3>2. CASE <<v.key, v.rev>> # kr
      BY <1>5, <2>2, <3>2 DEF Fits, Predicted
    <3> QED
      BY <3>1, <3>2
  <2>4. Vouched(s, u, v)
    <3>1. CASE u.reserved = s.reserved
      BY <3>1 DEF Vouched
    <3>2. CASE u.reserved = Enter(s.reserved, kr, gen)
      <4>1. \A p : Entry(u.reserved, p) = IF p = kr THEN gen ELSE Entry(s.reserved, p)
        BY <3>2, EntryFacts
      <4> QED
        BY <1>5, <4>1 DEF Vouched
    <3> QED
      BY <1>3, <3>1, <3>2
  <2> QED
    BY <2>3, <2>4
<1>9. Faithful(s, u)
  BY <1>2, <1>6, <1>7, <1>8 DEF Faithful
<1> QED
  BY <1>3, <1>4, <1>5, <1>9 DEF u

(* Reborn gives a new generation to a revision that no node names.         *)
LEMMA RebornFaithful ==
  ASSUME NEW s0, NEW s, Faithful(s0, s), NEW kr,
         \A v \in Versions : <<v.key, v.rev>> = kr => ~Names(s.nodes[v.key], v)
  PROVE  Faithful(s0, Reborn(s, kr)) /\ Reborn(s, kr).nodes = s.nodes
<1> DEFINE u == Reborn(s, kr)
           g == s.nextGen + 1
<1>1. DOMAIN s = GraphFields /\ s.nextGen \in Nat /\ s0.nextGen \in Nat /\ GraphOK(s) /\ s0.nextGen <= s.nextGen
  BY DEF Faithful, GraphOK, NodesOK
<1>2. GraphOK(u)
  BY <1>1, RebornSound DEF Sound
<1>3. /\ u.nodes = s.nodes /\ u.nextGen = g /\ u.versions = s.versions
      /\ u.gens = Enter(s.gens, kr, g) /\ u.reserved = Enter(s.reserved, kr, g)
  BY <1>1 DEF Reborn, GraphFields
<1>4. s0.nextGen <= u.nextGen
  BY <1>1, <1>3
<1> HIDE DEF u, g
<1>5. \A p : /\ Entry(u.gens, p) = IF p = kr THEN g ELSE Entry(s.gens, p)
             /\ Entry(u.reserved, p) = IF p = kr THEN g ELSE Entry(s.reserved, p)
  BY <1>3, EntryFacts
<1>6. ASSUME NEW v \in Versions PROVE (Names(u.nodes[v.key], v) => Fits(s0, u, v)) /\ Vouched(s0, u, v)
  <2>1. (Names(s.nodes[v.key], v) => Fits(s0, s, v)) /\ Vouched(s0, s, v)
    BY DEF Faithful
  <2>2. CASE <<v.key, v.rev>> = kr
    BY <1>3, <1>5, <2>2 DEF Vouched
  <2>3. CASE <<v.key, v.rev>> # kr
    BY <1>3, <1>5, <2>1, <2>3 DEF Vouched, Fits
  <2> QED
    BY <2>2, <2>3
<1>7. ArchiveOK(u) /\ Stays(s0, u) /\ \A d \in Keys : Carries(s0.nodes[d], u.nodes[d])
  BY <1>3 DEF Faithful, ArchiveOK, Stays
<1> QED
  BY <1>1, <1>2, <1>3, <1>4, <1>6, <1>7 DEF u, Faithful

(* RejectPredicted takes back a generation that no revision had before.    *)
LEMMA ForgetFaithful ==
  ASSUME NEW s0, NEW s, Faithful(s0, s), NEW kr, Entry(s0.gens, kr) = 0,
         \A d \in Keys : Like(s0.nodes[d], s.nodes[d]),
         \A p : p # kr => Entry(s.gens, p) = Entry(s0.gens, p)
  PROVE  LET u == [s EXCEPT !.gens = Without(@, kr), !.reserved = Without(@, kr)]
         IN  Faithful(s0, u) /\ u.nodes = s.nodes
<1> DEFINE u == [s EXCEPT !.gens = Without(@, kr), !.reserved = Without(@, kr)]
<1>1. DOMAIN s = GraphFields /\ s.nextGen \in Nat /\ s0.nextGen \in Nat /\ GraphOK(s) /\ s0.nextGen <= s.nextGen
  BY DEF Faithful, GraphOK, NodesOK
<1>2. GraphOK(u)
  BY <1>1, ForgetSound DEF Sound
<1>3. /\ u.nodes = s.nodes /\ u.nextGen = s.nextGen /\ u.versions = s.versions
      /\ u.gens = Without(s.gens, kr) /\ u.reserved = Without(s.reserved, kr)
  BY <1>1 DEF GraphFields
<1> HIDE DEF u
<1>4. \A p : /\ Entry(u.gens, p) = IF p = kr THEN 0 ELSE Entry(s.gens, p)
             /\ Entry(u.reserved, p) = IF p = kr THEN 0 ELSE Entry(s.reserved, p)
  BY <1>3 DEF Entry, Without
<1>5. ASSUME NEW v \in Versions PROVE (Names(u.nodes[v.key], v) => Fits(s0, u, v)) /\ Vouched(s0, u, v)
  <2>1. (Names(s.nodes[v.key], v) => Fits(s0, s, v)) /\ Vouched(s0, s, v)
    BY DEF Faithful
  <2>2. CASE <<v.key, v.rev>> = kr
    <3>1. Vouched(s0, u, v)
      BY <1>4, <2>2 DEF Vouched
    <3>2. Names(u.nodes[v.key], v) => Names(s0.nodes[v.key], v)
      BY <1>3 DEF Versions, Names, Like
    <3>3. v.gen \in 1..s0.nextGen => v.gen # 0
      BY <1>1
    <3>4. Names(u.nodes[v.key], v) => Fits(s0, u, v)
      BY <2>2, <3>2, <3>3 DEF Fits, Predicted
    <3> QED
      BY <3>1, <3>4
  <2>3. CASE <<v.key, v.rev>> # kr
    BY <1>3, <1>4, <2>1, <2>3 DEF Vouched, Fits
  <2> QED
    BY <2>2, <2>3
<1>6. ArchiveOK(u) /\ Stays(s0, u) /\ \A d \in Keys : Carries(s0.nodes[d], u.nodes[d])
  BY <1>3 DEF Faithful, ArchiveOK, Stays
<1> QED
  BY <1>1, <1>2, <1>3, <1>5, <1>6 DEF u, Faithful

(* RejectPredicted archives the refused prediction, which no cursor has    *)
(* produced.                                                               *)
LEMMA RejectFaithful ==
  ASSUME NEW s, GraphOK(s), ArchiveOK(s), NEW r, Requested(r, s.nextGen),
         r.gen = 0 \/ Predicted(s, Version(r.key, r.rev, r.gen))
  PROVE  LET u == Reserve(s, r) IN
         Faithful(s, RejectPredicted(u, r, u.gens[<<r.key, r.rev>>], Entry(s.gens, <<r.key, r.rev>>) = 0))
<1> DEFINE kr == <<r.key, r.rev>>
           u  == Reserve(s, r)
           v  == Version(r.key, r.rev, r.gen)
           refused == Snapshot(r.key, r.rev, r.gen, "Failed")
           created == Entry(s.gens, kr) = 0
           without == [u EXCEPT !.gens = Without(@, kr), !.reserved = Without(@, kr)]
           kept == IF created THEN without ELSE u
           a == Archive(kept, refused)
           b == Announce(a, refused)
<1>0. s.nextGen \in Nat /\ r.key \in Keys /\ r.rev \in Nat \ {0} /\ r.gen \in 0..s.nextGen
  BY DEF GraphOK, NodesOK, Requested
<1>1. /\ Faithful(s, u) /\ u.versions = s.versions
      /\ \A d \in Keys : Like(s.nodes[d], u.nodes[d])
      /\ \A p : Entry(u.gens, p) = IF p = kr THEN u.gens[kr] ELSE Entry(s.gens, p)
      /\ Entry(s.gens, kr) # 0 => u.gens[kr] = Entry(s.gens, kr)
  BY ReserveFaithful
<1>2. CASE r.gen = 0 \/ (~created /\ r.gen = u.gens[kr])
  BY <1>1, <1>2 DEF RejectPredicted
<1>3. CASE ~(r.gen = 0 \/ (~created /\ r.gen = u.gens[kr]))
  <2>1. RejectPredicted(u, r, u.gens[kr], created) = b
    BY <1>3 DEF RejectPredicted
  <2> HIDE DEF u
  <2>2. s.nextGen <= u.nextGen /\ u.nextGen \in Nat
    BY <1>1 DEF Faithful, GraphOK, NodesOK
  <2>3. Faithful(s, kept) /\ kept.nodes = u.nodes /\ kept.nextGen = u.nextGen
    <3>1. CASE created
      <4>0. Entry(s.gens, kr) = 0 /\ \A p : p # kr => Entry(u.gens, p) = Entry(s.gens, p)
        BY <1>1, <3>1
      <4>1. Faithful(s, without) /\ without.nodes = u.nodes
        BY <1>1, <4>0, ForgetFaithful
      <4>2. without.nextGen = u.nextGen
        BY <1>1 DEF Faithful, GraphOK, NodesOK, GraphFields
      <4> HIDE DEF without
      <4> QED
        BY <3>1, <4>1, <4>2
    <3>2. CASE ~created
      BY <1>1, <3>2
    <3> QED
      BY <3>1, <3>2
  <2>4. refused \in Archivable(kept.nextGen) /\ refused.readiness = "Failed" /\ Identity(refused) = v
    BY <1>0, <1>3, <2>2, <2>3, ReadinessFacts DEF Archivable, Snapshot, Identity, Version
  <2>5. \A y \in kept.versions : Follows(refused.readiness, y.readiness)
    BY <2>4 DEF Follows, Terminal
  <2>6. ASSUME NEW k \in Keys, kept.nodes[k].produced # 0, v = Version(k, kept.nodes[k].produced, kept.nodes[k].vgen)
        PROVE  FALSE
    <3>1. /\ s.nodes[k].produced # 0 /\ v = Version(k, s.nodes[k].produced, s.nodes[k].vgen)
          /\ s.nodes[k].produced \in {0, s.nodes[k].rev}
      BY <1>1, <2>3, <2>6 DEF Like, ArchiveOK, CursorOK
    <3>2. v.key = k /\ v.key = r.key /\ v.rev = r.rev /\ v.gen = r.gen
          /\ v.rev = s.nodes[k].rev /\ v.gen = s.nodes[k].vgen
      BY <3>1 DEF Version
    <3>3. Names(s.nodes[v.key], v)
      BY <3>2 DEF Names
    <3>4. Entry(s.gens, kr) = r.gen
      BY <1>3, <3>2, <3>3 DEF Predicted
    <3> QED
      BY <1>1, <1>3, <3>4
  <2> HIDE DEF kept, refused
  <2>7. Faithful(s, a)
    BY <2>3, <2>4, <2>5, <2>6, ArchiveFaithful
  <2> HIDE DEF a
  <2>8. Faithful(s, b)
    BY <1>0, <2>7, BookFaithful
  <2> QED
    BY <2>1, <2>8 DEF u
<1> QED
  BY <1>2, <1>3

(* Admit names the version whose generation the revision has.              *)
LEMMA AdmitFaithful ==
  ASSUME NEW s0, NEW s, Faithful(s0, s), NEW r, Requested(r, s.nextGen), NEW reqs \in Recipe,
         s.nodes[r.key].present, s.gens[<<r.key, r.rev>>] \in 1..s.nextGen,
         Entry(s.gens, <<r.key, r.rev>>) = s.gens[<<r.key, r.rev>>], Storable(s0, s, r.key)
  PROVE  Faithful(s0, Admit(s, r, reqs))
<1> DEFINE k  == r.key
           n  == s.nodes[k]
           kr == <<r.key, r.rev>>
           g  == s.gens[kr]
           e  == [rev |-> r.rev, gen |-> g, reqs |-> reqs, asked |-> reqs, coalesce |-> r.coalesce]
           a  == AliasPredicted(s, Version(r.key, r.rev, r.gen), Version(r.key, r.rev, g))
           m  == [n EXCEPT !.latestReq = r.rev]
           b  == WithNode(a, k, m)
           c  == [a EXCEPT !.recipes = Enter(@, kr, reqs), !.nodes[r.key].latestReq = r.rev]
<1>0. k \in Keys /\ s.nextGen \in Nat /\ NodeOK(n, k, s.nextGen) /\ CursorOK(n, k, s.versions)
      /\ s0.nextGen \in Nat
  BY DEF Requested, Faithful, GraphOK, NodesOK, ArchiveOK
<1>1. e \in Parked(s.nextGen) /\ e.rev = r.rev /\ e.gen = g
  BY DEF Parked, Requested
<1>2. Version(r.key, r.rev, g) \in Versions
  BY <1>0 DEF Version, Versions, Requested
<1>3. \/ Admit(s, r, reqs) = EnqueueBehindActive(c, k, e)
      \/ Admit(s, r, reqs) = Install(c, k, e) /\ (n.rev = 0 \/ n.state \in {"GpuReady", "Published"})
  BY DEF Admit
<1> HIDE DEF e
<1>4. Faithful(s0, a) /\ a.nodes = s.nodes /\ a.nextGen = s.nextGen /\ a.gens = s.gens
  BY <1>2, AliasFaithful
<1> HIDE DEF a
<1>5. NodeOK(m, k, s.nextGen) /\ m.present /\ Like(n, m)
  BY <1>0 DEF NodeOK, NodeFields, Like
<1>6. GraphOK(b)
  <2> HIDE DEF m
  <2> QED
    BY <1>0, <1>4, <1>5, WithNodeSound DEF Sound, Faithful, Like
<1>7. /\ DOMAIN c = GraphFields /\ c.nodes = b.nodes /\ c.nextGen = b.nextGen
      /\ SameTables(b, c) /\ SameQueues(b, c)
      /\ Alike(a, c) /\ c.nodes[k] = m /\ c.nextGen = s.nextGen /\ c.gens = s.gens
  <2>1. DOMAIN a = GraphFields /\ DOMAIN a.nodes = Keys
    BY <1>4 DEF Faithful, GraphOK, NodesOK
  <2> QED
    BY <1>0, <1>4, <1>5, <2>1 DEF GraphFields, SameTables, SameQueues, WithNode, Alike, SameArchive, Like
<1> HIDE DEF b, c, m
<1>8. GraphOK(c)
  <2>1. QueuesOK(c)
    BY <1>6, <1>7 DEF GraphOK, QueuesOK, SameQueues
  <2> QED
    BY <1>6, <1>7, <2>1, QueueStep DEF Sound
<1>9. Faithful(s0, c)
  BY <1>4, <1>7, <1>8, AlikeFaithful
<1>10. Storable(s0, c, k)
  BY <1>5, <1>7, StorableLike DEF Like
<1>11. Fits(s0, c, Version(k, e.rev, e.gen))
  BY <1>1, <1>7 DEF Fits, Version
<1>12. Faithful(s0, EnqueueBehindActive(c, k, e))
  BY <1>0, <1>1, <1>5, <1>7, <1>9, <1>10, <1>11, EnqueueFaithful
<1>13. n.rev = 0 \/ n.state \in {"GpuReady", "Published"} => Faithful(s0, Install(c, k, e))
  <2>1. n.rev = 0 \/ n.state \in {"GpuReady", "Published"} => ~c.nodes[k].inFlight \/ c.nodes[k].rev = 0
    BY <1>0, <1>5, <1>7 DEF CursorOK, Milestones, Like
  <2> QED
    BY <1>0, <1>1, <1>5, <1>7, <1>9, <1>10, <1>11, <2>1, InstallFaithful
<1> QED
  BY <1>3, <1>12, <1>13

(* A request is refused, known already, or admitted with the generation    *)
(* of its revision.                                                        *)
LEMMA RequestFaithful ==
  ASSUME NEW s, GraphOK(s), ArchiveOK(s), NEW r, Requested(r, s.nextGen),
         r.gen = 0 \/ Predicted(s, Version(r.key, r.rev, r.gen))
  PROVE  Faithful(s, RequestInternal(s, r))
<1> DEFINE kr   == <<r.key, r.rev>>
           k    == r.key
           u    == Reserve(s, r)
           n    == u.nodes[k]
           gen  == u.gens[kr]
           reqs == Resolved(s, r.reqs)
           w    == Reborn(u, kr)
           a    == RejectPredicted(u, r, gen, Entry(s.gens, kr) = 0)
           b    == AliasPredicted(u, Version(r.key, r.rev, r.gen), Version(r.key, r.rev, gen))
           wanted == n.rev = r.rev \/ \E i \in DOMAIN n.successors : n.successors[i].rev = r.rev
           known  == kr \in DOMAIN u.recipes
<1>1. \/ RequestInternal(s, r) \in {a, b, Admit(u, r, reqs)}
      \/ RequestInternal(s, r) = Admit(w, r, reqs) /\ ~wanted
  BY DEF RequestInternal
<1>2. /\ Faithful(s, u) /\ \A d \in Keys : Like(s.nodes[d], u.nodes[d])
      /\ \A p : Entry(u.gens, p) = IF p = kr THEN u.gens[kr] ELSE Entry(s.gens, p)
  BY ReserveFaithful
<1>3. u.nodes[k].present /\ gen \in 1..u.nextGen /\ k \in Keys /\ r.rev \in Nat \ {0}
  BY ReserveSound DEF Requested
<1>4. reqs \in Recipe
  BY ResolvedType DEF Requested
<1>5. Faithful(s, a)
  BY RejectFaithful
<1> HIDE DEF a
<1>6. wanted \/ \A v \in Versions : <<v.key, v.rev>> = kr => ~Names(u.nodes[v.key], v)
  <2>1. n.successors \in Seq(Parked(u.nextGen))
    BY <1>2, <1>3 DEF Faithful, GraphOK, NodesOK, NodeOK
  <2>2. DOMAIN n.successors = 1..Len(n.successors)
    BY <2>1
  <2> QED
    BY <2>2 DEF Names
<1> HIDE DEF u, reqs, wanted
<1>7. GraphOK(u) /\ Requested(r, u.nextGen) /\ u.nextGen \in Nat
  BY <1>2 DEF Faithful, GraphOK, NodesOK, Requested
<1>8. Faithful(s, b)
  <2>1. Version(r.key, r.rev, gen) \in Versions
    BY <1>3, <1>7 DEF Version, Versions
  <2> QED
    BY <1>2, <2>1, AliasFaithful
<1>9. Storable(s, u, k)
  BY <1>2, <1>3 DEF Storable, Like
<1>10. Faithful(s, Admit(u, r, reqs))
  BY <1>2, <1>3, <1>4, <1>7, <1>9, AdmitFaithful
<1>11. ~wanted => Faithful(s, Admit(w, r, reqs))
  <2> SUFFICES ASSUME ~wanted PROVE Faithful(s, Admit(w, r, reqs))
    OBVIOUS
  <2>1. Faithful(s, w) /\ w.nodes = u.nodes
    BY <1>2, <1>6, RebornFaithful
  <2>2. w.gens[kr] \in 1..w.nextGen /\ Entry(w.gens, kr) = w.gens[kr]
    <3>1. w.gens[kr] \in 1..w.nextGen /\ u.nextGen <= w.nextGen
      BY <1>7, RebornSound DEF Sound, Kept
    <3>2. w.gens = Enter(u.gens, kr, u.nextGen + 1)
      BY <1>7 DEF Reborn, GraphOK, NodesOK, GraphFields
    <3> QED
      BY <3>1, <3>2 DEF Entry, Enter
  <2>3. Requested(r, w.nextGen)
    <3>1. u.nextGen <= w.nextGen /\ w.nextGen \in Nat
      BY <1>7, <2>1, RebornSound DEF Sound, Kept, Faithful, GraphOK, NodesOK
    <3> QED
      BY <1>7, <3>1 DEF Requested
  <2> HIDE DEF w
  <2>4. Storable(s, w, k)
    BY <1>9, <2>1, StorableLike
  <2> QED
    BY <1>3, <1>4, <2>1, <2>2, <2>3, <2>4, AdmitFaithful
<1> QED
  BY <1>1, <1>5, <1>8, <1>10, <1>11

(* Invalidate requests the recipe of the newest version again.             *)
LEMMA InvalidateFaithful ==
  ASSUME NEW s, GraphOK(s), ArchiveOK(s), NEW k \in Keys, NEW rev \in Nat \ {0}
  PROVE  Faithful(s, Invalidate(s, k, rev))
<1> DEFINE q == s.nodes[k].successors
           reqs == IF q # <<>> THEN Last(q).reqs ELSE s.nodes[k].reqs
           r == [key |-> k, rev |-> rev, gen |-> 0, coalesce |-> FALSE, reqs |-> reqs]
<1>1. q \in Seq(Parked(s.nextGen)) /\ s.nodes[k].reqs \in Recipe /\ s.nextGen \in Nat
  BY DEF GraphOK, NodesOK, NodeOK
<1>2. q # <<>> => Last(q) \in Parked(s.nextGen)
  <2>1. q # <<>> => Len(q) \in 1..Len(q)
    BY <1>1
  <2> QED
    BY <1>1, <2>1, ElementOfSeq DEF Last
<1>3. reqs \in Recipe
  BY <1>1, <1>2 DEF Parked
<1>4. Invalidate(s, k, rev) = RequestInternal(s, r)
  BY DEF Invalidate
<1> HIDE DEF reqs
<1>5. Requested(r, s.nextGen) /\ r.gen = 0
  BY <1>1, <1>3 DEF Requested
<1> HIDE DEF r
<1> QED
  BY <1>4, <1>5, RequestFaithful

(* A cancelled node is for the version it was for, and parks none.         *)
LEMMA CancelFaithful ==
  ASSUME NEW s0, NEW s, Faithful(s0, s), NEW k \in Keys
  PROVE  Faithful(s0, CancelLocked(s, k))
<1> DEFINE n     == s.nodes[k]
           left  == RemoveWaiterEdges(s, k)
           freed == [left EXCEPT !.pins = PinsWithout(left, n.successors, 0)]
           m     == [freed.nodes[k] EXCEPT !.gen = @ + 1, !.desired = FALSE, !.successors = <<>>,
                                     !.retry = FALSE, !.waiting = 0, !.state = "Cancelled"]
<1>1. CASE ~n.present
  BY <1>1 DEF CancelLocked
<1>2. CASE n.present
  <2>1. CancelLocked(s, k) = WithNode(freed, k, m)
    BY <1>2 DEF CancelLocked
  <2>2. GraphOK(WithNode(freed, k, m))
    BY <2>1, CancelSound DEF Sound, Faithful
  <2>3. Faithful(s0, left)
    BY <1>2, RemoveFaithful
  <2> HIDE DEF left
  <2>4. Faithful(s0, freed)
    BY <2>3, BookFaithful
  <2> HIDE DEF freed
  <2>5. DOMAIN freed.nodes[k] = NodeFields /\ freed.nodes[k].gen \in Nat
    BY <2>4 DEF Faithful, GraphOK, NodesOK, NodeOK
  <2>6. Moved(freed.nodes[k], m)
    BY <2>5 DEF Moved, NodeFields, Milestones
  <2> HIDE DEF m
  <2> QED
    BY <2>1, <2>2, <2>4, <2>6, MovedFaithful
<1> QED
  BY <1>1, <1>2

(* A node that is erased names nothing.                                    *)
(* An erased node names no version; a released one is cancelled, then      *)
(* erased if nothing needs it.                                             *)
LEMMA EraseFaithful ==
  ASSUME NEW s0, NEW s, Faithful(s0, s), NEW k \in Keys
  PROVE  Faithful(s0, Erase(s, k))
<1>1. CASE s.nodes[k].inFlight \/ Consumers(s, k) # {}
  BY <1>1 DEF Erase
<1>2. CASE ~(s.nodes[k].inFlight \/ Consumers(s, k) # {})
  <2>1. Erase(s, k) = WithNode(s, k, NoNode)
    BY <1>2 DEF Erase
  <2>2. GraphOK(WithNode(s, k, NoNode))
    BY <2>1, SoundRefl, EraseApplied DEF Applied, Faithful
  <2>3. ~NoNode.inFlight /\ NoNode.produced = 0 /\ NoNode.successors = <<>> /\ NoNode.vgen = 0
    BY DEF NoNode
  <2>4. CursorOK(NoNode, k, s.versions) /\ Carries(s0.nodes[k], NoNode)
    BY <2>3 DEF CursorOK, Carries
  <2>5. ASSUME NEW v \in Versions, Names(NoNode, v) PROVE Fits(s0, s, v)
    <3>1. v.gen = 0
      BY <2>3, <2>5 DEF Names
    <3> QED
      BY <3>1 DEF Fits
  <2> QED
    BY <2>1, <2>2, <2>4, <2>5, WithFaithful
<1> QED
  BY <1>1, <1>2

LEMMA ReleaseFaithful ==
  ASSUME NEW s0, NEW s, Faithful(s0, s), NEW k \in Keys
  PROVE  Faithful(s0, ReleaseLocked(s, k))
BY CancelFaithful, EraseFaithful DEF ReleaseLocked

(* MarkPublishedLocked raises an archived version, and the cursor with it: *)
(* the archive ends as if only the cursor had been raised and stored.      *)
LEMMA MarkFaithful ==
  ASSUME NEW s, GraphOK(s), ArchiveOK(s), NEW v \in Versions
  PROVE  Faithful(s, MarkPublishedLocked(s, v))
<1> DEFINE k      == v.key
           x      == Snapshot(v.key, v.rev, v.gen, "Published")
           old    == {y \in Archived(s, v) : y.readiness \in Publishable \ {"Published"}}
           marked == IF old = {} THEN s ELSE Archive(s, x)
           n      == s.nodes[k]
           cursor == /\ n.present /\ n.produced = v.rev /\ n.vgen = v.gen /\ n.state \in Publishable
                     /\ ~(n.published /\ n.state = "Published")
           m      == [n EXCEPT !.published = TRUE, !.state = IF @ = "GpuReady" THEN "Published" ELSE @]
           a      == WithNode(marked, k, m)
           b      == StoreVersion(a, k)
           c      == WakeWaiters(b, k)
           a0     == WithNode(s, k, m)
           b0     == StoreVersion(a0, k)
<1>0. /\ k \in Keys /\ s.nextGen \in Nat /\ NodeOK(n, k, s.nextGen) /\ DOMAIN n = NodeFields
      /\ CursorOK(n, k, s.versions) /\ Faithful(s, s)
  BY FaithfulRefl DEF Versions, GraphOK, NodesOK, ArchiveOK, NodeOK
<1>1. \/ /\ ~cursor
         /\ MarkPublishedLocked(s, v) \in {marked, Announce(marked, CHOOSE y \in Archived(marked, v) : TRUE)}
      \/ /\ cursor
         /\ MarkPublishedLocked(s, v) \in {c, Announce(c, CHOOSE y \in Archived(c, v) : TRUE)}
  BY DEF MarkPublishedLocked
<1>2. old # {} =>
        /\ x \in Archivable(s.nextGen) /\ x.readiness = "Published" /\ Identity(x) = v
        /\ \A y \in s.versions : Identity(y) = v => y.readiness \in {"UploadSubmitted", "GpuReady"}
  <2> SUFFICES ASSUME old # {}
               PROVE  /\ x \in Archivable(s.nextGen) /\ x.readiness = "Published" /\ Identity(x) = v
                      /\ \A y \in s.versions : Identity(y) = v => y.readiness \in {"UploadSubmitted", "GpuReady"}
    OBVIOUS
  <2>1. PICK y \in s.versions : Identity(y) = v /\ y.readiness \in Publishable \ {"Published"}
    BY DEF Archived
  <2>2. y \in Archivable(s.nextGen)
    BY DEF GraphOK, TablesOK
  <2>3. v.rev = y.rev /\ v.gen = y.gen
    BY <2>1 DEF Identity, Version
  <2>4. x \in Archivable(s.nextGen) /\ x.readiness = "Published" /\ Identity(x) = v
    BY <1>0, <2>2, <2>3, VersionIs, ReadinessFacts DEF Archivable, Snapshot, Identity, Version
  <2>5. \A z \in s.versions : Identity(z) = v => z = y
    BY <2>1 DEF ArchiveOK
  <2> QED
    BY <2>1, <2>4, <2>5 DEF Publishable
<1>3. /\ marked.nodes = s.nodes /\ marked.nextGen = s.nextGen /\ GraphOK(marked)
      /\ marked.gens = s.gens /\ marked.reserved = s.reserved
      /\ \A y : y \in marked.versions => y \in s.versions \/ Identity(y) = v
      /\ \A y : y \in s.versions /\ Identity(y) # v => y \in marked.versions
  <2>1. CASE old = {}
    BY <2>1
  <2>2. CASE old # {}
    <3>1. /\ GraphOK(Archive(s, x)) /\ Archive(s, x).nodes = s.nodes /\ Archive(s, x).nextGen = s.nextGen
      BY <1>2, <2>2, ArchiveSound DEF Sound
    <3>2. /\ Archive(s, x).gens = s.gens /\ Archive(s, x).reserved = s.reserved
          /\ Archive(s, x).versions = (s.versions \ Archived(s, Identity(x))) \cup {x}
      BY DEF Archive, GraphOK, NodesOK, GraphFields
    <3> HIDE DEF x, old
    <3> QED
      BY <1>2, <2>2, <3>1, <3>2 DEF Archived
  <2> QED
    BY <2>1, <2>2
<1>4. ASSUME ~cursor PROVE Faithful(s, marked)
  <2>1. CASE old = {}
    BY <1>0, <2>1
  <2>2. CASE old # {}
    <3>1. \A y \in s.versions : Identity(y) = Identity(x) => Follows(x.readiness, y.readiness)
      BY <1>2, <2>2 DEF Follows, Satisfies, Terminal, Rank
    <3>2. ASSUME NEW d \in Keys, s.nodes[d].produced # 0, s.nodes[d].state \in Milestones,
                 Identity(x) = Version(d, s.nodes[d].produced, s.nodes[d].vgen)
          PROVE  Follows(s.nodes[d].state, x.readiness)
      <4>1. d = k /\ n.produced = v.rev /\ n.vgen = v.gen
        BY <1>2, <2>2, <3>2 DEF Version
      <4>2. n.present
        BY <1>0, <3>2, <4>1 DEF NodeOK, NoNode
      <4>3. PICK y \in s.versions : Identity(y) = v /\ y.readiness \in {"UploadSubmitted", "GpuReady"}
        BY <1>2, <2>2 DEF Archived
      <4>4. Follows(n.state, y.readiness)
        BY <1>0, <1>2, <2>2, <3>2, <4>1, <4>3 DEF CursorOK
      <4>5. n.state # "CpuReady"
        BY <4>3, <4>4 DEF Follows, Satisfies, Rank, Terminal
      <4>6. n.state = "Published"
        BY <1>4, <3>2, <4>1, <4>2, <4>5 DEF Milestones, Publishable
      <4> QED
        BY <1>2, <2>2, <4>1, <4>6 DEF Follows, Satisfies, Terminal, Rank
    <3> HIDE DEF x
    <3> QED
      BY <1>0, <1>2, <2>2, <3>1, <3>2, ArchiveFaithful
  <2> QED
    BY <2>1, <2>2
<1>5. ASSUME cursor PROVE Faithful(s, c)
  <2>1. /\ NodeOK(m, k, s.nextGen) /\ m.inFlight = n.inFlight /\ m.present /\ m.vgen = n.vgen /\ m.rev = n.rev
        /\ m.produced = n.produced /\ m.successors = n.successors
        /\ m.state = (IF n.state = "GpuReady" THEN "Published" ELSE n.state) /\ ~m.inFlight
    BY <1>0, <1>5, ReadinessFacts DEF NodeOK, NodeFields, CursorOK, Publishable, Milestones
  <2>2. m.state \in Milestones /\ m.state \in Readiness /\ n.state \in Readiness /\ n.state \in Milestones
    BY <1>0, <1>5, <2>1 DEF Milestones, Publishable, NodeOK
  <2>3. Follows(m.state, n.state)
    BY <1>5, <2>1 DEF Publishable, Follows, Satisfies, Terminal, Rank
  <2> HIDE DEF m
  <2>4. CursorOK(m, k, s.versions)
    <3>1. \A y \in s.versions : y.readiness \in Readiness
      BY DEF GraphOK, TablesOK, Archivable
    <3> QED
      BY <1>0, <2>1, <2>2, <2>3, <3>1, FollowsFacts DEF CursorOK
  <2>5. Carries(n, m)
    BY <2>1 DEF Carries
  <2>6. GraphOK(a0) /\ a0.nodes[k] = m /\ a0.nextGen = s.nextGen /\ DOMAIN s = GraphFields /\ DOMAIN s.nodes = Keys
    BY <1>0, <2>1, WithNodeSound DEF Sound, GraphOK, NodesOK
  <2>7. Faithful(s, a0)
    <3>1. ASSUME NEW w \in Versions, w.key = k, Names(m, w) PROVE Fits(s, s, w)
      <4>1. Names(n, w)
        BY <2>1, <3>1 DEF Names
      <4> QED
        BY <1>0, <3>1, <4>1 DEF Faithful
    <3> QED
      BY <1>0, <2>4, <2>5, <2>6, <3>1, WithFaithful
  <2>8. Storable(s, a0, k)
    BY <2>2, <2>6, StateFacts DEF Storable
  <2>9. Faithful(s, b0) /\ b0.nodes = a0.nodes
    BY <1>0, <2>7, <2>8, StoreFaithful
  <2>10. GraphOK(a) /\ a.nodes[k] = m /\ a.nextGen = s.nextGen /\ DOMAIN a = GraphFields
    BY <1>0, <1>3, <2>1, WithNodeSound DEF Sound, GraphOK, NodesOK
  <2>11. /\ a.nodes = a0.nodes /\ a.gens = a0.gens /\ a.reserved = a0.reserved /\ a0.versions = s.versions
         /\ a.versions = marked.versions /\ DOMAIN a0 = GraphFields
    <3>1. DOMAIN marked = GraphFields
      BY <1>3 DEF GraphOK, NodesOK
    <3> HIDE DEF marked
    <3> QED
      BY <1>3, <2>6, <3>1 DEF WithNode, GraphFields
  <2> HIDE DEF a, a0, marked
  <2>12. GraphOK(b)
    BY <1>0, <2>10, StoreSound DEF Sound
  <2>13. Alike(b0, b)
    <3> DEFINE y == MakeSnapshot(k, m)
    <3>1. Identity(y) = v
      BY <1>5, <2>1, <2>2, StateFacts, VersionIs DEF MakeSnapshot, Snapshot, Identity, Version
    <3> HIDE DEF y
    <3>2. ASSUME NEW u, DOMAIN u = GraphFields, u.nodes[k] = m
          PROVE  LET w == StoreVersion(u, k)
                 IN  /\ w.nodes = u.nodes /\ w.gens = u.gens /\ w.reserved = u.reserved /\ w.nextGen = u.nextGen
                     /\ w.versions = IF m.produced = 0 THEN u.versions ELSE (u.versions \ Archived(u, v)) \cup {y}
      <4>1. StoreVersion(u, k) = IF m.produced = 0 THEN u ELSE Archive(u, y)
        BY <3>2 DEF StoreVersion, y
      <4>2. m.produced = 0 \/ StoreVersion(u, k) = [u EXCEPT !.versions = (@ \ Archived(u, v)) \cup {y}]
        BY <3>1, <4>1 DEF Archive
      <4> QED
        BY <3>2, <4>1, <4>2 DEF GraphFields
    <3>3. \A z : Identity(z) # v => (z \in a.versions <=> z \in a0.versions)
      BY <1>3, <2>11
    <3>4. a.versions \ Archived(a, v) = a0.versions \ Archived(a0, v)
      BY <3>3 DEF Archived
    <3>5. m.produced = 0 => a.versions = a0.versions
      <4>1. ASSUME NEW u, GraphOK(u), NEW z \in u.versions PROVE Identity(z).rev # 0
        BY <4>1 DEF GraphOK, TablesOK, Archivable, Identity, Version
      <4>2. m.produced = 0 => v.rev = 0
        BY <1>5, <2>1
      <4>3. ASSUME m.produced = 0, NEW z PROVE z \in a.versions <=> z \in a0.versions
        <5>1. CASE Identity(z) # v
          BY <3>3, <5>1
        <5>2. CASE Identity(z) = v
          <6>1. GraphOK(a) /\ GraphOK(a0)
            BY <2>6, <2>10
          <6> QED
            BY <4>1, <4>2, <4>3, <5>2, <6>1
        <5> QED
          BY <5>1, <5>2
      <4> QED
        BY <4>3
    <3>6. /\ b.nodes = a.nodes /\ b.gens = a.gens /\ b.reserved = a.reserved /\ b.nextGen = a.nextGen
          /\ b.versions = IF m.produced = 0 THEN a.versions ELSE (a.versions \ Archived(a, v)) \cup {y}
      BY <2>10, <3>2
    <3>7. /\ b0.nodes = a0.nodes /\ b0.gens = a0.gens /\ b0.reserved = a0.reserved /\ b0.nextGen = a0.nextGen
          /\ b0.versions = IF m.produced = 0 THEN a0.versions ELSE (a0.versions \ Archived(a0, v)) \cup {y}
      BY <2>6, <2>11, <3>2
    <3> HIDE DEF b, b0
    <3>8. b.versions = b0.versions
      BY <3>4, <3>5, <3>6, <3>7
    <3> QED
      BY <1>0, <2>6, <2>10, <2>11, <3>6, <3>7, <3>8 DEF Alike, SameArchive, Like
  <2> HIDE DEF b, b0
  <2>14. Faithful(s, b)
    BY <2>9, <2>12, <2>13, AlikeFaithful
  <2> QED
    BY <1>0, <2>14, BookFaithful
<1> HIDE DEF c, marked, cursor
<1>6. ASSUME NEW u, Faithful(s, u), NEW y PROVE Faithful(s, Announce(u, y))
  BY <1>0, <1>6, BookFaithful
<1> QED
  BY <1>1, <1>4, <1>5, <1>6


(* Whatever a client has posted, if it was promised the generation it      *)
(* names.                                                                  *)
LEMMA MutationFaithful ==
  ASSUME NEW s, GraphOK(s), ArchiveOK(s), NEW o \in Postable(s.nextGen),
         o.op = "request" /\ o.gen # 0 => Predicted(s, Version(o.key, o.rev, o.gen))
  PROVE  Faithful(s, ApplyMutation(s, o))
<1>0. /\ s.nextGen \in Nat /\ o.key \in Keys /\ o.op \in {"request", "invalidate", "cancel", "release", "publish"}
      /\ Faithful(s, s)
  BY FaithfulRefl DEF GraphOK, NodesOK, Postable
<1>1. CASE o.op = "request"
  <2>1. Requested(o, s.nextGen)
    BY <1>1 DEF Postable, Requested
  <2>2. ApplyMutation(s, o) = RequestInternal(s, o)
    BY <1>1 DEF ApplyMutation
  <2> QED
    BY <1>1, <2>1, <2>2, RequestFaithful
<1>2. CASE o.op = "invalidate"
  <2>1. o.rev \in Nat \ {0}
    BY <1>2 DEF Postable
  <2>2. ApplyMutation(s, o) = Invalidate(s, o.key, o.rev)
    BY <1>2 DEF ApplyMutation
  <2> QED
    BY <1>0, <2>1, <2>2, InvalidateFaithful
<1>3. CASE o.op = "cancel"
  BY <1>0, <1>3, CancelFaithful DEF ApplyMutation
<1>4. CASE o.op = "release"
  BY <1>0, <1>4, ReleaseFaithful DEF ApplyMutation
<1>5. CASE o.op = "publish"
  <2> DEFINE w == Version(o.key, o.rev, o.gen)
             v == Canonical(s, w)
  <2>1. w \in Versions
    BY <1>5 DEF Postable, Version, Versions
  <2>2. v \in Versions
    BY <2>1 DEF Canonical, GraphOK, TablesOK
  <2>3. ApplyMutation(s, o) = MarkPublishedLocked(s, v)
    BY <1>5 DEF ApplyMutation
  <2> HIDE DEF v
  <2> QED
    BY <2>2, <2>3, MarkFaithful
<1> QED
  BY <1>0, <1>1, <1>2, <1>3, <1>4, <1>5

(* A node whose flags change, or what is remembered of its recipe.         *)
LEMMA LikeFaithful ==
  ASSUME NEW s0, NEW s, Faithful(s0, s), NEW k \in Keys, NEW m, Like(s.nodes[k], m),
         NodeOK(m, k, s.nextGen), s.nodes[k].present => m.present
  PROVE  Faithful(s0, WithNode(s, k, m)) /\ WithNode(s, k, m).nodes[k] = m
<1> DEFINE u == WithNode(s, k, m)
<1>1. DOMAIN s = GraphFields /\ DOMAIN s.nodes = Keys /\ s.nextGen \in Nat /\ GraphOK(s)
  BY DEF Faithful, GraphOK, NodesOK
<1>2. GraphOK(u) /\ u.nodes[k] = m
  BY <1>1, WithNodeSound DEF Sound, Like
<1>3. Alike(s, u)
  BY <1>1, <1>2 DEF Alike, SameArchive, Like, WithNode, GraphFields
<1> HIDE DEF u
<1> QED
  BY <1>2, <1>3, AlikeFaithful DEF u

(* A graph that differs only in the drain's books.                         *)
LEMMA BooksFaithful ==
  ASSUME NEW s0, NEW s, Faithful(s0, s), NEW u, GraphOK(u), u.nodes = s.nodes, u.nextGen = s.nextGen,
         u.versions = s.versions, u.gens = s.gens, u.reserved = s.reserved
  PROVE  Faithful(s0, u)
<1>1. s.nextGen \in Nat
  BY DEF Faithful, GraphOK, NodesOK
<1>2. Alike(s, u)
  BY <1>1 DEF Alike, SameArchive, Like
<1> QED
  BY <1>2, AlikeFaithful

(* The milestone of an idle cursor rises.                                  *)
LEMMA RaiseFaithful ==
  ASSUME NEW s0, NEW s, Faithful(s0, s), NEW k \in Keys, s.nodes[k].present,
         NEW state \in Milestones, s.nodes[k].state \in Milestones, Follows(state, s.nodes[k].state),
         NEW waiting
  PROVE  LET m == [s.nodes[k] EXCEPT !.waiting = waiting, !.state = state]
             u == WithNode(s, k, m)
         IN  Faithful(s0, u) /\ u.nodes[k] = m /\ Storable(s0, u, k)
<1> DEFINE n == s.nodes[k]
           m == [n EXCEPT !.waiting = waiting, !.state = state]
           u == WithNode(s, k, m)
<1>1. /\ NodeOK(n, k, s.nextGen) /\ s.nextGen \in Nat /\ GraphOK(s) /\ CursorOK(n, k, s.versions)
      /\ DOMAIN n = NodeFields /\ n.state \in Readiness
  BY DEF Faithful, GraphOK, NodesOK, ArchiveOK, NodeOK
<1>2. state \in Readiness
  BY StateFacts
<1>3. /\ m.inFlight = n.inFlight /\ m.present /\ m.vgen = n.vgen /\ m.rev = n.rev /\ m.produced = n.produced
      /\ m.successors = n.successors /\ m.state = state
  BY <1>1 DEF NodeFields
<1>4. NodeOK(m, k, s.nextGen)
  BY <1>1, <1>2 DEF NodeOK, NodeFields
<1> HIDE DEF m
<1>5. GraphOK(u) /\ u.nodes[k] = m
  BY <1>1, <1>3, <1>4, WithNodeSound DEF Sound
<1>6. CursorOK(m, k, s.versions)
  <2>1. \A y \in s.versions : y.readiness \in Readiness
    BY <1>1 DEF GraphOK, TablesOK, Archivable
  <2> QED
    BY <1>1, <1>2, <1>3, <2>1, FollowsFacts DEF CursorOK
<1>7. Carries(s0.nodes[k], m)
  BY <1>1, <1>3 DEF Carries, CursorOK
<1>8. ASSUME NEW v \in Versions, v.key = k, Names(m, v) PROVE Fits(s0, s, v)
  <2>1. Names(n, v)
    BY <1>3, <1>8 DEF Names
  <2> QED
    BY <1>8, <2>1 DEF Faithful
<1>9. Faithful(s0, u)
  BY <1>5, <1>6, <1>7, <1>8, WithFaithful
<1>10. Storable(s0, u, k)
  BY <1>3, <1>5, StateFacts DEF Storable
<1> QED
  BY <1>5, <1>9, <1>10 DEF m

(* A build has produced the version it was started for, which nothing has  *)
(* shown before.                                                           *)
LEMMA ProducedFaithful ==
  ASSUME NEW s0, NEW s, Faithful(s0, s), NEW k \in Keys,
         ~s.nodes[k].inFlight, s.nodes[k].state \notin Milestones,
         NEW v, GraphOK(v), SameArchive(s, v), v.nextGen = s.nextGen,
         \A d \in Keys \ {k} : Like(s.nodes[d], v.nodes[d]),
         v.nodes[k].rev = s.nodes[k].rev, v.nodes[k].vgen = s.nodes[k].vgen, ~v.nodes[k].inFlight,
         v.nodes[k].successors = s.nodes[k].successors, v.nodes[k].state \in Milestones,
         \/ v.nodes[k].produced = 0
         \/ /\ v.nodes[k].produced = s.nodes[k].rev
            /\ s0.nodes[k].rev = s.nodes[k].rev /\ s0.nodes[k].vgen = s.nodes[k].vgen
            /\ s0.nodes[k].state \in Unbuilt
  PROVE  /\ Faithful(s0, Publish(v, k)) /\ Publish(v, k).nodes = v.nodes
         /\ Storable(s0, Publish(v, k), k)
<1> DEFINE n == s.nodes[k]
           m == v.nodes[k]
           x == MakeSnapshot(k, m)
           a == StoreVersion(v, k)
           b == Announce(a, x)
<1>1. /\ GraphOK(s) /\ NodeOK(m, k, s.nextGen) /\ s.nextGen \in Nat /\ DOMAIN v = GraphFields
      /\ CursorOK(n, k, s.versions) /\ m.state \in Readiness /\ DOMAIN s = GraphFields
  BY DEF Faithful, GraphOK, NodesOK, NodeOK, ArchiveOK
<1>2. Carries(s0.nodes[k], m)
  BY DEF Carries
<1>3. ASSUME NEW w \in Versions, w.key = k, Names(m, w) PROVE Fits(s0, s, w)
  <2>1. Names(n, w)
    BY <1>3 DEF Names
  <2> QED
    BY <1>3, <2>1 DEF Faithful
<1>4. GraphOK(a) /\ a.nodes = v.nodes
  BY StoreSound DEF Sound
<1>5. Faithful(s0, a)
  <2>1. CASE m.produced = 0
    <3>1. CursorOK(m, k, s.versions)
      BY <2>1 DEF CursorOK
    <3>2. Faithful(s0, v)
      BY <1>2, <1>3, <3>1, NodeFaithful
    <3> QED
      BY <2>1, <3>2 DEF StoreVersion
  <2>2. CASE m.produced # 0
    <3> DEFINE t == Archive(s, x)
    <3>1. /\ x \in Archivable(s.nextGen) /\ x.readiness = m.state /\ Identity(x) = Version(k, n.rev, n.vgen)
      <4>1. x \in Archivable(s.nextGen) /\ x.readiness = m.state
        BY <1>1, <2>2, SnapshotType
      <4> QED
        BY <2>2, <4>1 DEF MakeSnapshot, Snapshot, Identity
    <3>2. a = Archive(v, x)
      BY <2>2 DEF StoreVersion
    <3> HIDE DEF x
    <3>3. \A y \in s0.versions : Identity(y) = Identity(x) => Rebuilding(s0, y)
      BY <2>2, <3>1 DEF Rebuilding, Identity, Version
    <3>4. ASSUME NEW d \in Keys, s.nodes[d].state \in Milestones
          PROVE  Identity(x) # Version(d, s.nodes[d].produced, s.nodes[d].vgen)
      BY <3>1, <3>4 DEF Version
    <3>5. Faithful(s0, t)
      BY <3>1, <3>3, <3>4, ArchiveFaithful
    <3>6. /\ t.nodes = s.nodes /\ t.nextGen = s.nextGen /\ t.gens = s.gens /\ t.reserved = s.reserved
          /\ t.versions = (s.versions \ Archived(s, Identity(x))) \cup {x}
      BY <1>1 DEF Archive, GraphFields
    <3>7. /\ a.nextGen = v.nextGen /\ a.gens = v.gens /\ a.reserved = v.reserved
          /\ a.versions = (v.versions \ Archived(v, Identity(x))) \cup {x}
      BY <1>1, <3>2 DEF Archive, GraphFields
    <3>8. a.versions = t.versions
      BY <3>6, <3>7 DEF Archived, SameArchive
    <3> HIDE DEF t, a
    <3>9. SameArchive(t, a)
      BY <1>1, <3>6, <3>7, <3>8 DEF SameArchive
    <3>10. CursorOK(m, k, t.versions)
      <4>1. \A y \in t.versions : Identity(y) = Identity(x) => y = x
        BY <3>6 DEF Archived
      <4>2. Follows(m.state, m.state)
        BY <1>1, FollowsFacts
      <4> QED
        BY <2>2, <3>1, <4>1, <4>2 DEF CursorOK
    <3>11. \A w \in Versions : w.key = k /\ Names(m, w) => Fits(s0, t, w)
      BY <1>3, <3>6, FitsSame
    <3>12. \A d \in Keys \ {k} : Like(t.nodes[d], a.nodes[d])
      BY <1>4, <3>6
    <3> QED
      BY <1>2, <1>4, <3>5, <3>9, <3>10, <3>11, <3>12, NodeFaithful
  <2> QED
    BY <2>1, <2>2
<1> HIDE DEF a
<1>6. Faithful(s0, b) /\ b.nodes = v.nodes
  BY <1>4, <1>5, BookFaithful, AnnounceSound
<1> HIDE DEF b
<1>7. Faithful(s0, WakeWaiters(b, k)) /\ WakeWaiters(b, k).nodes = v.nodes
  BY <1>6, BookFaithful, WakeSound DEF Faithful
<1>8. Publish(v, k) = WakeWaiters(b, k)
  BY DEF Publish, a, b
<1>9. Storable(s0, Publish(v, k), k)
  BY <1>7, <1>8, StateFacts DEF Storable
<1> QED
  BY <1>7, <1>8, <1>9

\* What a build that is applied to the node n was started for, when the graph was s0.
Answered(s0, n, c) ==
    \/ c.rev = 0
    \/ /\ c.rev = n.rev /\ s0.nodes[c.key].rev = n.rev /\ s0.nodes[c.key].vgen = n.vgen
       /\ s0.nodes[c.key].state \in Unbuilt

(* A producer has delivered the version its node is for.                   *)
LEMMA ReadyFaithful ==
  ASSUME NEW s0, NEW s, Faithful(s0, s), NEW c, c.key \in Keys, s.nodes[c.key].present, c.rev \in Nat,
         c.rev # 0 => s.nodes[c.key].vgen # 0, ~s.nodes[c.key].inFlight,
         s.nodes[c.key].state \notin Milestones, Answered(s0, s.nodes[c.key], c),
         NEW gpu, gpu \in {"recorded", "submitted"} => c.key \in GpuKeys
  PROVE  Faithful(s0, ApplyReady(s, c, gpu))
<1> DEFINE k    == c.key
           n    == s.nodes[k]
           busy == gpu \in {"recorded", "submitted"}
           used == {d \in c.deps : d.key \in LatestOf(n)}
           edges == n.edges \cap LatestOf(n)
           m    == [PruneCompletedWaiterEdges(n) EXCEPT
                    !.terminal = FALSE, !.retry = FALSE, !.suspended = FALSE, !.published = FALSE,
                    !.produced = c.rev, !.used = used, !.waiting = IF busy THEN c.gen ELSE 0]
           a    == WithNode(s, k, m)
           u    == [a EXCEPT
                    !.subscribing = IF busy THEN @ \cup {<<k, c.gen>>} ELSE @,
                    !.recovery    = IF busy /\ k \notin Notifying THEN @ \cup {k} ELSE @]
<1>1. ApplyReady(s, c, gpu) \in {Settle(u, k, "CpuReady"), Settle(u, k, "UploadSubmitted"), Settle(u, k, "GpuReady")}
  BY DEF ApplyReady
<1>2. NodeOK(n, k, s.nextGen) /\ GraphOK(s) /\ s.nextGen \in Nat /\ DOMAIN s = GraphFields /\ DOMAIN s.nodes = Keys
  BY DEF Faithful, GraphOK, NodesOK
<1>3. /\ NodeOK(m, k, s.nextGen) /\ m.inFlight = n.inFlight /\ m.present /\ m.vgen = n.vgen
      /\ m.rev = n.rev /\ m.produced = c.rev /\ m.successors = n.successors
  <2> HIDE DEF used
  <2>1. /\ DOMAIN m = NodeFields /\ m.inFlight = n.inFlight /\ m.present = n.present /\ m.vgen = n.vgen
        /\ m.produced = c.rev /\ m.rev = n.rev /\ m.state = n.state /\ m.reqs = n.reqs /\ m.asked = n.asked
        /\ m.successors = n.successors /\ m.coalesce = n.coalesce /\ m.gen = n.gen /\ m.edges = edges
    BY <1>2 DEF NodeOK, NodeFields, PruneCompletedWaiterEdges
  <2> HIDE DEF m
  <2> QED
    BY <1>2, <2>1 DEF NodeOK
<1> HIDE DEF m
<1>4. /\ GraphOK(a) /\ a.nodes[k] = m /\ a.nextGen = s.nextGen /\ SameArchive(s, a)
      /\ \A d \in Keys \ {k} : a.nodes[d] = s.nodes[d]
  <2>1. GraphOK(a) /\ a.nodes[k] = m /\ a.nextGen = s.nextGen
    BY <1>2, <1>3, WithNodeSound DEF Sound
  <2> QED
    BY <1>2, <2>1 DEF WithNode, SameArchive, GraphFields
<1> HIDE DEF a
<1>5. DOMAIN a = GraphFields /\ QueuesOK(a) /\ DOMAIN a.nodes = Keys
  BY <1>4 DEF GraphOK, NodesOK
<1>6. /\ DOMAIN u = GraphFields /\ u.nodes = a.nodes /\ u.nextGen = a.nextGen /\ SameTables(a, u)
      /\ u.pending = a.pending /\ u.wakes = a.wakes /\ u.retries = a.retries
      /\ u.recovery \subseteq a.recovery \cup {k}
      /\ \A t \in u.subscribing : t \in a.subscribing \/ (busy /\ t = <<k, c.gen>>)
  BY <1>5 DEF GraphFields, SameTables
<1> HIDE DEF u
<1>7. GraphOK(u)
  <2>1. QueuesOK(u)
    BY <1>5, <1>6 DEF QueuesOK
  <2> QED
    BY <1>4, <1>6, <2>1, QueueStep DEF Sound
<1>8. ASSUME NEW state \in Milestones PROVE Faithful(s0, Settle(u, k, state))
  <2> DEFINE e == [m EXCEPT !.state = state]
             v == WithState(u, k, state)
             told == Publish(v, k)
  <2>1. Settle(u, k, state) \in {told, Advance(told, k)}
    BY DEF Settle
  <2>2. v = WithNode(u, k, e)
    BY <1>4, <1>6 DEF WithState, WithNode
  <2>3. /\ NodeOK(e, k, s.nextGen) /\ e.inFlight = n.inFlight /\ e.present /\ e.vgen = n.vgen
        /\ e.rev = n.rev /\ e.produced = c.rev /\ e.successors = n.successors /\ e.state = state
    BY <1>3, StateFacts DEF NodeOK, NodeFields
  <2> HIDE DEF e
  <2>4. /\ GraphOK(v) /\ v.nodes[k] = e /\ v.nextGen = u.nextGen /\ SameTables(u, v)
        /\ \A d \in Keys \ {k} : v.nodes[d] = u.nodes[d]
    <3>1. GraphOK(v) /\ v.nodes[k] = e /\ v.nextGen = u.nextGen
      BY <1>2, <1>3, <1>4, <1>6, <1>7, <2>2, <2>3, WithNodeSound DEF Sound
    <3> QED
      BY <1>5, <1>6, <2>2, <3>1 DEF WithNode, SameTables, GraphFields
  <2> HIDE DEF v
  <2>5. SameArchive(s, v) /\ v.nextGen = s.nextGen
    BY <1>2, <1>4, <1>6, <2>4 DEF SameArchive, SameTables
  <2>6. \A d \in Keys \ {k} : Like(s.nodes[d], v.nodes[d])
    BY <1>4, <1>6, <2>4 DEF Like
  <2>7. Faithful(s0, told) /\ Storable(s0, told, k)
    <3>1. \/ v.nodes[k].produced = 0
          \/ /\ v.nodes[k].produced = n.rev
             /\ s0.nodes[k].rev = n.rev /\ s0.nodes[k].vgen = n.vgen
             /\ s0.nodes[k].state \in Unbuilt
      BY <2>3, <2>4 DEF Answered
    <3> HIDE DEF k
    <3>2. k \in Keys /\ ~s.nodes[k].inFlight /\ s.nodes[k].state \notin Milestones
      BY DEF k
    <3> QED
      BY <2>3, <2>4, <2>5, <2>6, <3>1, <3>2, ProducedFaithful
  <2> HIDE DEF told
  <2>8. Faithful(s0, Advance(told, k))
    BY <2>7, AdvanceFaithful
  <2> QED
    BY <2>1, <2>7, <2>8
<1> QED
  BY <1>1, <1>8 DEF Milestones

(* A recipe is replaced by one that the producer asked for.                *)
LEMMA RewireFaithful ==
  ASSUME NEW s0, NEW s, Faithful(s0, s), NEW k \in Keys, s.nodes[k].present, NEW reqs \in Recipe
  PROVE  Faithful(s0, Rewire(s, k, reqs)) /\ Rewire(s, k, reqs).nodes[k].present
<1> DEFINE left == RemoveWaiterEdges(s, k)
           m    == [left.nodes[k] EXCEPT !.reqs = reqs, !.retry = FALSE]
           a    == WithNode(left, k, m)
<1>1. Rewire(s, k, reqs) = InstallWaiterEdges(a, k)
  BY DEF Rewire, WithNode
<1>2. Faithful(s0, left) /\ left.nodes[k].present
  BY RemoveFaithful, RemoveSound DEF Sound, Kept, Faithful
<1> HIDE DEF left
<1>3. NodeOK(left.nodes[k], k, left.nextGen)
  BY <1>2 DEF Faithful, GraphOK, NodesOK
<1>4. NodeOK(m, k, left.nextGen) /\ Like(left.nodes[k], m) /\ m.present
  BY <1>2, <1>3 DEF NodeOK, NodeFields, Like
<1> HIDE DEF m
<1>5. Faithful(s0, a) /\ a.nodes[k] = m
  BY <1>2, <1>4, LikeFaithful
<1> HIDE DEF a
<1>6. Faithful(s0, InstallWaiterEdges(a, k)) /\ InstallWaiterEdges(a, k).nodes[k].present
  BY <1>4, <1>5, InstallEdgesFaithful, InstallEdgesSound DEF Sound, Kept, Faithful
<1> QED
  BY <1>1, <1>6

\* The changes of an idle node that take it out of its milestone.
LEMMA IdleMoved ==
  ASSUME NEW s0, NEW s, Faithful(s0, s), NEW k \in Keys, s.nodes[k].present, ~s.nodes[k].inFlight,
         NEW m, NodeOK(m, k, s.nextGen), ~m.inFlight, m.inFlight = s.nodes[k].inFlight, m.present,
         m.state \notin Milestones,
         m.rev = s.nodes[k].rev, m.vgen = s.nodes[k].vgen, m.produced = s.nodes[k].produced,
         m.successors = s.nodes[k].successors
  PROVE  Faithful(s0, WithNode(s, k, m)) /\ WithNode(s, k, m).nodes[k] = m
<1>1. GraphOK(s)
  BY DEF Faithful
<1>2. GraphOK(WithNode(s, k, m)) /\ WithNode(s, k, m).nodes[k] = m
  BY <1>1, WithNodeSound DEF Sound
<1>3. Moved(s.nodes[k], m)
  BY DEF Moved
<1> QED
  BY <1>2, <1>3, MovedFaithful

(* A build is suspended, or goes on as it has been notified already.       *)
LEMMA SuspensionFaithful ==
  ASSUME NEW s0, NEW s, Faithful(s0, s), NEW c, c.key \in Keys, s.nodes[c.key].present, ~s.nodes[c.key].inFlight
  PROVE  Faithful(s0, ApplySuspension(s, c))
<1> DEFINE k  == c.key
           id == <<c.key, c.gen>>
           late == id \notin s.latched
           n  == s.nodes[k]
           m  == [n EXCEPT !.state = "Blocked", !.retry = FALSE, !.suspended = late]
           u  == [s EXCEPT !.nodes[c.key].state = "Blocked", !.nodes[c.key].retry = FALSE,
                           !.nodes[c.key].suspended = id \notin s.latched]
           a  == [u EXCEPT !.latched = @ \ {id}]
           b  == [u EXCEPT !.parked = @ \cup {[id |-> id, rev |-> c.rev]}]
<1>1. ApplySuspension(s, c) \in {QueueNode(a, k), b}
  BY DEF ApplySuspension
<1>2. u = WithNode(s, k, m)
  BY DEF WithNode
<1>3. /\ NodeOK(m, k, s.nextGen) /\ m.inFlight = n.inFlight /\ m.present /\ m.vgen = n.vgen /\ m.rev = n.rev
      /\ m.produced = n.produced /\ m.successors = n.successors /\ m.state \notin Milestones
  <2>1. NodeOK(n, k, s.nextGen)
    BY DEF Faithful, GraphOK, NodesOK
  <2> HIDE DEF late
  <2> QED
    BY <2>1, ReadinessFacts DEF NodeOK, NodeFields, Milestones
<1> HIDE DEF m, u
<1>4. Faithful(s0, u)
  BY <1>2, <1>3, IdleMoved
<1>5. DOMAIN u = GraphFields
  BY <1>4 DEF Faithful, GraphOK, NodesOK
<1> HIDE DEF id
<1>6. /\ DOMAIN a = GraphFields /\ a.nodes = u.nodes /\ a.nextGen = u.nextGen /\ SameTables(u, a) /\ SameQueues(u, a)
      /\ DOMAIN b = GraphFields /\ b.nodes = u.nodes /\ b.nextGen = u.nextGen /\ SameTables(u, b) /\ SameQueues(u, b)
  BY <1>5 DEF GraphFields, SameTables, SameQueues
<1> HIDE DEF a, b
<1>7. QueuesOK(a) /\ QueuesOK(b)
  BY <1>4, <1>6 DEF Faithful, GraphOK, QueuesOK, SameQueues
<1>8. GraphOK(a) /\ GraphOK(b)
  BY <1>4, <1>6, <1>7, QueueStep DEF Sound, Faithful
<1>9. Faithful(s0, a) /\ Faithful(s0, b)
  BY <1>4, <1>6, <1>8, BooksFaithful DEF SameTables
<1> QED
  BY <1>1, <1>9, QueueNodeFaithful

(* A version ends before it is produced.                                   *)
LEMMA TerminationFaithful ==
  ASSUME NEW s0, NEW s, Faithful(s0, s), NEW c, c.key \in Keys, s.nodes[c.key].present, ~s.nodes[c.key].inFlight,
         NEW state \in Terminal
  PROVE  Faithful(s0, ApplyTermination(s, c, state))
<1> DEFINE k  == c.key
           n  == s.nodes[k]
           end == IF state = "Failed" THEN TRUE ELSE n.terminal
           m  == [n EXCEPT !.state = state, !.terminal = end]
           u  == [s EXCEPT !.nodes[c.key].state = state,
                       !.nodes[c.key].terminal = IF state = "Failed" THEN TRUE ELSE @]
           a  == Announce(u, Snapshot(c.key, c.rev, c.gen, state))
           b  == StoreVersion(a, k)
           d  == WakeWaiters(b, k)
<1>1. ApplyTermination(s, c, state) = PromoteSuccessor(d, k)
  BY DEF ApplyTermination
<1>0. NodeOK(n, k, s.nextGen) /\ DOMAIN s = GraphFields /\ DOMAIN s.nodes = Keys /\ state \in Readiness
  BY StateFacts DEF Faithful, GraphOK, NodesOK
<1>2. u = WithNode(s, k, m)
  <2>1. CASE state = "Failed"
    BY <2>1 DEF WithNode
  <2>2. CASE state # "Failed"
    <3>1. /\ u = [s EXCEPT !.nodes[c.key].state = state, !.nodes[c.key].terminal = @]
          /\ m = [s.nodes[k] EXCEPT !.state = state, !.terminal = s.nodes[k].terminal]
      BY <2>2
    <3> HIDE DEF u, m
    <3> QED
      BY <1>0, <3>1 DEF WithNode, NodeOK, NodeFields, GraphFields
  <2> QED
    BY <2>1, <2>2
<1>3. /\ NodeOK(m, k, s.nextGen) /\ m.inFlight = n.inFlight /\ m.present /\ m.vgen = n.vgen /\ m.rev = n.rev
      /\ m.produced = n.produced /\ m.successors = n.successors /\ m.state = state
  <2> HIDE DEF end
  <2> QED
    BY <1>0 DEF NodeOK, NodeFields
<1>31. state \notin Milestones /\ state \notin Unbuilt
  BY StateFacts
<1> HIDE DEF m, u
<1>4. Faithful(s0, u) /\ u.nodes[k] = m
  BY <1>2, <1>3, <1>31, IdleMoved
<1>5. Faithful(s0, a) /\ a.nodes = u.nodes
  BY <1>4, BookFaithful, AnnounceSound DEF Faithful
<1> HIDE DEF a
<1>6. Faithful(s0, b) /\ b.nodes = u.nodes
  <2>1. Storable(s0, a, k)
    BY <1>3, <1>31, <1>4, <1>5 DEF Storable
  <2> QED
    BY <1>5, <2>1, StoreFaithful
<1> HIDE DEF b
<1>7. Faithful(s0, d) /\ d.nodes = u.nodes
  BY <1>6, BookFaithful, WakeSound DEF Faithful
<1> HIDE DEF d
<1>8. Storable(s0, d, k)
  BY <1>3, <1>31, <1>4, <1>7 DEF Storable
<1> QED
  BY <1>1, <1>7, <1>8, PromoteFaithful

(* A completion is applied.                                                *)
LEMMA CompletionFaithful ==
  ASSUME NEW s, GraphOK(s), ArchiveOK(s), NEW c, c.key \in Keys, s.nodes[c.key].present, s.nodes[c.key].inFlight,
         c.rev \in Nat, c.reqs \in Recipe, c.outcome \in Reports, c.rev # 0 => s.nodes[c.key].vgen # 0,
         \/ c.rev = 0
         \/ c.rev = s.nodes[c.key].rev /\ (c.gen = s.nodes[c.key].gen => s.nodes[c.key].state = "Preparing"),
         NEW gpu, gpu \in {"recorded", "submitted"} => c.key \in GpuKeys
  PROVE  Faithful(s, ApplyCompletion(s, c, gpu))
<1> DEFINE k    == c.key
           n    == s.nodes[k]
           idle == [s EXCEPT !.nodes[k].inFlight = FALSE]
           i    == [n EXCEPT !.inFlight = FALSE]
           live == [idle EXCEPT !.nodes[k].terminal = FALSE]
           waits == [live EXCEPT !.nodes[k].state = "Blocked", !.nodes[k].retry = TRUE,
                                 !.retries = @ \cup {<<k, c.gen>>}]
           more == Rewire(live, k, n.reqs \cup c.reqs)
           free == [more EXCEPT !.nodes[k].suspended = FALSE]
           A1 == QueueNode(idle, k)
           A2 == ApplyReady(idle, c, gpu)
           A3 == QueueUnlessCyclic(Rewire(live, k, c.reqs), k)
           A4 == ApplySuspension(live, c)
           A5 == QueueNode(free, k)
           A6 == ApplyTermination(idle, c, "Cancelled")
           A7 == ApplyTermination(idle, c, "Failed")
           S  == {A1, A3, waits, A4, A5, A6, A7} \cup {a \in {A2} : c.gen = n.gen}
<1>1. \E a \in S : ApplyCompletion(s, c, gpu) \in {a, Erase(a, k)}
  <2> HIDE DEF idle
  <2>1. c.outcome \in {"ready", "needs", "retry", "failed", "suspend", "suspendExact", "cancelled"}
    BY DEF Reports, Outcome
  <2> QED
    BY <2>1 DEF ApplyCompletion, idle
<1>2. /\ Faithful(s, s) /\ DOMAIN s = GraphFields /\ DOMAIN s.nodes = Keys /\ s.nextGen \in Nat
      /\ NodeOK(n, k, s.nextGen) /\ CursorOK(n, k, s.versions) /\ DOMAIN n = NodeFields
  BY FaithfulRefl DEF GraphOK, NodesOK, ArchiveOK, NodeOK
<1>3. n.state \notin Milestones
  BY <1>2 DEF CursorOK
<1>4. /\ i.inFlight = FALSE /\ i.present /\ i.vgen = n.vgen /\ i.rev = n.rev /\ i.produced = n.produced
      /\ i.successors = n.successors /\ i.state = n.state /\ i.reqs = n.reqs
  BY <1>2 DEF NodeFields
<1>5. Faithful(s, idle) /\ idle.nodes[k] = i
  <2>1. GraphOK(idle)
    BY IdleFacts
  <2>2. idle = WithNode(s, k, i) /\ idle.nodes[k] = i
    BY <1>2 DEF WithNode
  <2> HIDE DEF idle, i
  <2>3. CursorOK(i, k, s.versions) /\ Carries(n, i)
    BY <1>2, <1>4 DEF CursorOK, Carries
  <2>4. ASSUME NEW v \in Versions, v.key = k, Names(i, v) PROVE Fits(s, s, v)
    <3>1. Names(n, v)
      BY <1>4, <2>4 DEF Names
    <3> QED
      BY <1>2, <2>4, <3>1 DEF Faithful
  <2> QED
    BY <1>2, <2>1, <2>2, <2>3, <2>4, WithFaithful
<1> HIDE DEF idle, i
<1>6. Faithful(s, live) /\ live.nodes[k].present /\ ~live.nodes[k].inFlight
  <2> DEFINE m == [idle.nodes[k] EXCEPT !.terminal = FALSE]
  <2>1. live = WithNode(idle, k, m)
    BY DEF WithNode
  <2>2. NodeOK(m, k, idle.nextGen) /\ Like(idle.nodes[k], m) /\ m.present
    <3>1. NodeOK(idle.nodes[k], k, idle.nextGen)
      BY <1>5 DEF Faithful, GraphOK, NodesOK
    <3> QED
      BY <1>4, <1>5, <3>1 DEF NodeOK, NodeFields, Like
  <2> HIDE DEF m, live
  <2> QED
    BY <1>4, <1>5, <2>1, <2>2, LikeFaithful DEF Like
<1> HIDE DEF live
<1>7. Faithful(s, waits)
  <2> DEFINE m == [live.nodes[k] EXCEPT !.state = "Blocked", !.retry = TRUE]
             u == WithNode(live, k, m)
  <2>1. NodeOK(live.nodes[k], k, live.nextGen) /\ DOMAIN live = GraphFields /\ DOMAIN live.nodes = Keys /\ GraphOK(live)
    BY <1>6 DEF Faithful, GraphOK, NodesOK
  <2>2. /\ NodeOK(m, k, live.nextGen) /\ m.inFlight = live.nodes[k].inFlight /\ m.present /\ m.vgen = live.nodes[k].vgen
        /\ m.rev = live.nodes[k].rev /\ m.produced = live.nodes[k].produced
        /\ m.successors = live.nodes[k].successors /\ m.state \notin Milestones
    BY <1>6, <2>1, ReadinessFacts DEF NodeOK, NodeFields, Milestones
  <2>3. /\ DOMAIN waits = GraphFields /\ waits.nodes = u.nodes /\ waits.nextGen = u.nextGen
        /\ SameTables(u, waits) /\ waits.retries = u.retries \cup {<<k, c.gen>>}
        /\ waits.pending = u.pending /\ waits.wakes = u.wakes /\ waits.recovery = u.recovery
        /\ waits.subscribing = u.subscribing
    BY <2>1 DEF WithNode, GraphFields, SameTables
  <2> HIDE DEF m, waits
  <2>4. Faithful(s, u)
    BY <1>6, <2>2, IdleMoved
  <2> HIDE DEF u
  <2>5. GraphOK(u)
    BY <2>4 DEF Faithful
  <2>6. QueuesOK(waits)
    BY <2>3, <2>5 DEF GraphOK, QueuesOK
  <2>7. GraphOK(waits)
    BY <2>3, <2>5, <2>6, QueueStep DEF Sound
  <2> QED
    BY <2>3, <2>4, <2>7, BooksFaithful DEF SameTables
<1>8. Faithful(s, A3)
  BY <1>6, RewireFaithful, QueueUnlessFaithful
<1>9. Faithful(s, A5)
  <2>1. n.reqs \cup c.reqs \in Recipe
    BY <1>2 DEF NodeOK, Recipe
  <2>2. Faithful(s, more) /\ more.nodes[k].present
    BY <1>6, <2>1, RewireFaithful
  <2> HIDE DEF more
  <2> DEFINE m == [more.nodes[k] EXCEPT !.suspended = FALSE]
  <2>3. free = WithNode(more, k, m)
    BY DEF WithNode
  <2>4. NodeOK(more.nodes[k], k, more.nextGen)
    BY <2>2 DEF Faithful, GraphOK, NodesOK
  <2>5. NodeOK(m, k, more.nextGen) /\ Like(more.nodes[k], m) /\ m.present
    BY <2>2, <2>4 DEF NodeOK, NodeFields, Like
  <2> HIDE DEF free, m
  <2>6. Faithful(s, free)
    BY <2>2, <2>3, <2>5, LikeFaithful
  <2> QED
    BY <2>6, QueueNodeFaithful
<1>10. Faithful(s, A1) /\ Faithful(s, A4) /\ Faithful(s, A6) /\ Faithful(s, A7)
  BY <1>4, <1>5, <1>6, QueueNodeFaithful, SuspensionFaithful, TerminationFaithful DEF Terminal
<1>11. c.gen = n.gen => Faithful(s, A2)
  <2>1. c.gen = n.gen => Answered(s, idle.nodes[k], c)
    BY <1>4, <1>5 DEF Answered, Unbuilt
  <2> QED
    BY <1>3, <1>4, <1>5, <2>1, ReadyFaithful
<1>12. \A a \in S : Faithful(s, a)
  <2> HIDE DEF A1, A2, A3, A4, A5, A6, A7, waits
  <2> QED
    BY <1>7, <1>8, <1>9, <1>10, <1>11
<1> HIDE DEF S
<1> QED
  BY <1>1, <1>12, EraseFaithful

(* ApplyGpu, for a cursor whose result is not on the GPU yet.              *)
LEMMA GpuFaithful ==
  ASSUME NEW s0, NEW s, Faithful(s0, s), NEW k \in Keys, s.nodes[k].present,
         s.nodes[k].state \in {"CpuReady", "UploadSubmitted"}, NEW gpu
  PROVE  Faithful(s0, ApplyGpu(s, k, gpu))
<1> DEFINE n      == s.nodes[k]
           failed == [n EXCEPT !.terminal = TRUE, !.waiting = 0, !.state = "Failed"]
           raised == WithState(s, k, "UploadSubmitted")
           told   == Publish(raised, k)
           upload == IF n.state = "CpuReady" THEN told ELSE s
           to     == IF n.published THEN "Published" ELSE "GpuReady"
           last   == [upload EXCEPT !.nodes[k].waiting = 0, !.nodes[k].state = to]
           done   == Publish(last, k)
           ended  == Publish(WithNode(s, k, failed), k)
<1>1. ApplyGpu(s, k, gpu) \in {PromoteSuccessor(ended, k), PromoteSuccessor(done, k), Advance(upload, k), s}
  BY DEF ApplyGpu
<1>2. NodeOK(n, k, s.nextGen) /\ CursorOK(n, k, s.versions) /\ DOMAIN n = NodeFields
  BY DEF Faithful, GraphOK, NodesOK, ArchiveOK, NodeOK
<1>3. ~n.inFlight
  BY <1>2 DEF CursorOK, Milestones
<1>4. Faithful(s0, PromoteSuccessor(ended, k))
  <2>1. /\ NodeOK(failed, k, s.nextGen) /\ failed.inFlight = n.inFlight /\ failed.present /\ failed.vgen = n.vgen
        /\ failed.rev = n.rev /\ failed.produced = n.produced /\ failed.successors = n.successors
        /\ failed.state = "Failed"
    BY <1>2, ReadinessFacts DEF NodeOK, NodeFields
  <2> HIDE DEF failed
  <2>2. failed.state \notin Milestones /\ failed.state \notin Unbuilt
    BY <2>1 DEF Milestones, Unbuilt
  <2>3. Faithful(s0, WithNode(s, k, failed)) /\ WithNode(s, k, failed).nodes[k] = failed
    BY <1>3, <2>1, <2>2, IdleMoved
  <2>4. Storable(s0, WithNode(s, k, failed), k)
    BY <2>2, <2>3 DEF Storable
  <2>5. Faithful(s0, ended) /\ ended.nodes[k] = failed
    BY <2>3, <2>4, PublishFaithful
  <2>6. Storable(s0, ended, k)
    BY <2>2, <2>5 DEF Storable
  <2> HIDE DEF ended
  <2> QED
    BY <2>5, <2>6, PromoteFaithful
<1>5. Faithful(s0, upload) /\ upload.nodes[k].present /\ upload.nodes[k].state = "UploadSubmitted"
  <2>1. CASE n.state = "CpuReady"
    <3> DEFINE m == [n EXCEPT !.waiting = n.waiting, !.state = "UploadSubmitted"]
    <3>1. raised = WithNode(s, k, m)
      BY <1>2 DEF WithState, WithNode, NodeFields
    <3>2. Follows("UploadSubmitted", n.state)
      BY <2>1 DEF Follows, Satisfies, Rank, Terminal
    <3>3. Faithful(s0, WithNode(s, k, m)) /\ WithNode(s, k, m).nodes[k] = m /\ Storable(s0, WithNode(s, k, m), k)
      BY <2>1, <3>2, RaiseFaithful DEF Milestones
    <3>4. m.present /\ m.state = "UploadSubmitted"
      BY <1>2 DEF NodeFields
    <3> HIDE DEF m, raised
    <3>5. Faithful(s0, told) /\ told.nodes[k] = m
      BY <3>1, <3>3, PublishFaithful
    <3> HIDE DEF told
    <3> QED
      BY <2>1, <3>4, <3>5
  <2>2. CASE n.state # "CpuReady"
    BY <2>2
  <2> QED
    BY <2>1, <2>2
<1> HIDE DEF upload
<1>6. Faithful(s0, PromoteSuccessor(done, k))
  <2> DEFINE m == [upload.nodes[k] EXCEPT !.waiting = 0, !.state = to]
  <2>1. last = WithNode(upload, k, m)
    BY DEF WithNode
  <2>2. to \in Milestones /\ Follows(to, "UploadSubmitted")
    BY DEF Milestones, Follows, Satisfies, Rank, Terminal
  <2> HIDE DEF to
  <2>3. /\ Faithful(s0, WithNode(upload, k, m)) /\ WithNode(upload, k, m).nodes[k] = m
        /\ Storable(s0, WithNode(upload, k, m), k)
    <3>1. upload.nodes[k].state \in Milestones /\ Follows(to, upload.nodes[k].state)
      BY <1>5, <2>2 DEF Milestones
    <3> QED
      BY <1>5, <2>2, <3>1, RaiseFaithful
  <2> HIDE DEF m, last
  <2>4. Faithful(s0, done) /\ done.nodes = last.nodes
    BY <2>1, <2>3, PublishFaithful
  <2> HIDE DEF done
  <2>5. Storable(s0, done, k)
    BY <2>1, <2>3, <2>4, StorableLike
  <2> QED
    BY <2>4, <2>5, PromoteFaithful
<1>7. Faithful(s0, Advance(upload, k))
  <2>1. Storable(s0, upload, k)
    BY <1>5 DEF Storable, Unbuilt
  <2> QED
    BY <1>5, <2>1, AdvanceFaithful
<1> QED
  BY <1>1, <1>4, <1>6, <1>7

(* A suspended node is queued again.                                       *)
LEMMA SuspensionSatisfiedFaithful ==
  ASSUME NEW s0, NEW s, Faithful(s0, s), NEW id, id[1] \in Keys
  PROVE  Faithful(s0, SuspensionSatisfied(s, id))
<1> DEFINE k    == id[1]
           n    == s.nodes[k]
           mine == {x \in s.parked : x.id = id}
           u    == [s EXCEPT !.parked = @ \ mine]
           late == [s EXCEPT !.latched = @ \cup {id}]
           free == [u EXCEPT !.nodes[k].suspended = FALSE]
<1>1. SuspensionSatisfied(s, id) \in {late, u} \/ (n.present /\ SuspensionSatisfied(s, id) = QueueNode(free, k))
  BY DEF SuspensionSatisfied
<1>2. DOMAIN s = GraphFields /\ GraphOK(s)
  BY DEF Faithful, GraphOK, NodesOK
<1> HIDE DEF mine
<1>3. /\ DOMAIN u = GraphFields /\ u.nodes = s.nodes /\ u.nextGen = s.nextGen /\ SameTables(s, u) /\ SameQueues(s, u)
      /\ DOMAIN late = GraphFields /\ late.nodes = s.nodes /\ late.nextGen = s.nextGen
      /\ SameTables(s, late) /\ SameQueues(s, late)
  BY <1>2 DEF GraphFields, SameTables, SameQueues
<1> HIDE DEF u, late
<1>4. QueuesOK(u) /\ QueuesOK(late)
  BY <1>2, <1>3 DEF GraphOK, QueuesOK, SameQueues
<1>5. GraphOK(u) /\ GraphOK(late)
  BY <1>2, <1>3, <1>4, QueueStep DEF Sound
<1>6. Faithful(s0, u) /\ Faithful(s0, late)
  BY <1>3, <1>5, BooksFaithful DEF SameTables
<1>7. ASSUME n.present PROVE Faithful(s0, QueueNode(free, k))
  <2> DEFINE m == [u.nodes[k] EXCEPT !.suspended = FALSE]
  <2>1. free = WithNode(u, k, m)
    BY DEF WithNode
  <2>2. NodeOK(u.nodes[k], k, u.nextGen) /\ u.nodes[k].present
    BY <1>3, <1>5, <1>7 DEF GraphOK, NodesOK
  <2>3. NodeOK(m, k, u.nextGen) /\ Like(u.nodes[k], m) /\ m.present
    BY <2>2 DEF NodeOK, NodeFields, Like
  <2> HIDE DEF m, free
  <2>4. Faithful(s0, free)
    BY <1>6, <2>1, <2>3, LikeFaithful
  <2> QED
    BY <2>4, QueueNodeFaithful
<1> QED
  BY <1>1, <1>6, <1>7

-----------------------------------------------------------------------------
(***************************************************************************)
(* The steps.                                                              *)
(***************************************************************************)
\* What is under way of any address, and what clients have posted.
Tasks  == (graph.starting \cup builds) \cup (graph.accepting \cup acceptances)
             \cup {completions[i] : i \in 1..Len(completions)}
Orders == {posted[i] : i \in 1..Len(posted)}

\* What is under way is of the version the cursor is for: of an earlier generation, so that its
\* completion is stale, or of the present one, which is Preparing.
Aimed(x) ==
    LET n == graph.nodes[x.key]
    IN  x.rev = 0 \/ (x.rev = n.rev /\ x.gen <= n.gen /\ (x.gen = n.gen => n.state = "Preparing"))
AimInv == \A x \in Tasks : Aimed(x)

\* A generation that a client holds, or that the next request of the revision is given.
Promised(v) ==
    /\ v.gen # 0
    /\ \/ Entry(graph.reserved, <<v.key, v.rev>>) = v.gen
       \/ \E r \in Orders : r.op = "request" /\ Version(r.key, r.rev, r.gen) = v
PromisedInv == \A v \in Versions : Promised(v) => Predicted(graph, v)

AInv == ArchiveOK(graph) /\ AimInv /\ PromisedInv

(* What is under way is of an address in flight.                           *)
TasksInFlight == \A x \in Tasks : x.key \in Keys /\ graph.nodes[x.key].inFlight
LEMMA TasksFly == FlightInv => TasksInFlight
BY UnderWay DEF Tasks, TasksInFlight

(* What is posted is postable.                                             *)
LEMMA OrdersFacts ==
  ASSUME IInv
  PROVE  /\ \A r \in Orders : r \in Postable(graph.nextGen)
         /\ posted # <<>> => Head(posted) \in Orders /\ {Tail(posted)[i] : i \in 1..Len(Tail(posted))} \subseteq Orders
<1>1. posted \in Seq(Postable(graph.nextGen))
  BY DEF IInv, ClientInv
<1>2. \A r \in Orders : r \in Postable(graph.nextGen)
  BY <1>1, ElementOfSeq DEF Orders
<1>3. ASSUME posted # <<>>
      PROVE  Head(posted) \in Orders /\ {Tail(posted)[i] : i \in 1..Len(Tail(posted))} \subseteq Orders
  <2> HIDE DEF Postable
  <2> QED
    BY <1>1, <1>3, TailFacts DEF Orders
<1> QED
  BY <1>2, <1>3

(* A faithful step that starts nothing.                                    *)
LEMMA Carried ==
  ASSUME IInv, IInv', AInv, Faithful(graph, graph'), Orders' \subseteq Orders,
         \A x \in Tasks' : \E y \in Tasks : y.key = x.key /\ y.rev = x.rev /\ y.gen = x.gen
  PROVE  AInv' /\ Stays(graph, graph')
<1>1. TasksInFlight'
  <2>1. FlightInv' => TasksInFlight'
    BY TasksFly, PTL
  <2> QED
    BY <2>1 DEF IInv
<1>2. ASSUME NEW x \in Tasks' PROVE Aimed(x)'
  <2> DEFINE n == graph.nodes[x.key]
             m == graph'.nodes[x.key]
  <2>1. PICK y \in Tasks : y.key = x.key /\ y.rev = x.rev /\ y.gen = x.gen
    OBVIOUS
  <2>2. x.rev = 0 \/ (x.rev = n.rev /\ x.gen <= n.gen /\ (x.gen = n.gen => n.state = "Preparing"))
    BY <2>1 DEF AInv, AimInv, Aimed
  <2>3. x.key \in Keys /\ m.inFlight
    BY <1>1 DEF TasksInFlight
  <2>4. n.rev = 0 \/ (m.rev = n.rev /\ n.gen <= m.gen /\ (m.gen = n.gen => m.state = n.state))
    BY <2>3 DEF Faithful, Carries
  <2>5. n.gen \in Nat /\ m.gen \in Nat /\ x.gen \in Nat
    <3>1. NodeOK(n, x.key, graph.nextGen) /\ NodeOK(m, x.key, graph'.nextGen)
      BY <2>3 DEF Faithful, GraphOK, NodesOK
    <3>2. y.gen \in Nat
      <4>1. \A i \in 1..Len(completions) : completions[i] \in Completed
        BY ElementOfSeq DEF IInv, FlightInv
      <4> QED
        BY <4>1 DEF Tasks, IInv, FlightInv, Started, Completed
    <3> QED
      BY <2>1, <3>1, <3>2 DEF NodeOK
  <2>6. CASE x.rev = 0
    BY <2>6 DEF Aimed
  <2>7. CASE x.rev # 0
    <3>1. x.rev = m.rev /\ x.gen <= m.gen /\ (x.gen = m.gen => m.state = "Preparing")
      <4> HIDE DEF n, m
      <4> QED
        BY <2>2, <2>4, <2>5, <2>7
    <3> QED
      BY <3>1 DEF Aimed
  <2> QED
    BY <2>6, <2>7
<1>3. ASSUME NEW v \in Versions, Promised(v)' PROVE Predicted(graph', v)
  <2> DEFINE kr == <<v.key, v.rev>>
  <2>1. SUFFICES ASSUME Names(graph'.nodes[v.key], v) PROVE Entry(graph'.gens, kr) = v.gen
    BY DEF Predicted
  <2>2. Fits(graph, graph', v) /\ Vouched(graph, graph', v) /\ v.gen # 0
    BY <1>3, <2>1 DEF Faithful, Promised
  <2>3. Promised(v) /\ v.gen \in 1..graph.nextGen => Predicted(graph, v) /\ v.gen \in 1..graph.nextGen
    BY DEF AInv, PromisedInv
  <2>4. CASE Entry(graph'.reserved, kr) = v.gen
    <3>1. CASE v.gen = Entry(graph.reserved, kr)
      <4>1. v.gen \in 1..graph.nextGen
        BY <2>2, <3>1 DEF Entry, IInv, GraphOK, TablesOK
      <4> QED
        BY <2>2, <2>3, <3>1, <4>1 DEF Fits, Promised
    <3> QED
      BY <2>2, <2>4, <3>1 DEF Vouched
  <2>5. CASE \E r \in Orders' : r.op = "request" /\ Version(r.key, r.rev, r.gen) = v
    <3>1. PICK r \in Orders : r.op = "request" /\ Version(r.key, r.rev, r.gen) = v
      BY <2>5
    <3>2. r.gen \in 0..graph.nextGen /\ v.gen = r.gen /\ graph.nextGen \in Nat
      <4>1. r \in Postable(graph.nextGen)
        BY OrdersFacts
      <4> QED
        BY <3>1, <4>1 DEF Postable, Version, IInv, GraphOK, NodesOK
    <3>3. v.gen \in 1..graph.nextGen /\ Promised(v)
      BY <2>2, <3>1, <3>2 DEF Promised
    <3> QED
      BY <2>2, <2>3, <3>3 DEF Fits
  <2> QED
    BY <1>3, <2>4, <2>5 DEF Promised
<1>4. ArchiveOK(graph)' /\ Stays(graph, graph')
  BY DEF Faithful
<1> QED
  BY <1>2, <1>3, <1>4 DEF AInv, AimInv, PromisedInv

(* A step that leaves the graph alone, and one of the drain that leaves    *)
(* what is under way alone.                                                *)
LEMMA CarriedOutside ==
  ASSUME IInv, IInv', AInv, graph' = graph, Orders' \subseteq Orders,
         \A x \in Tasks' : \E y \in Tasks : y.key = x.key /\ y.rev = x.rev /\ y.gen = x.gen
  PROVE  AInv' /\ Stays(graph, graph')
<1>1. Faithful(graph, graph')
  BY FaithfulRefl DEF IInv, AInv
<1> QED
  BY <1>1, Carried

(* A faithful step of the drain that leaves what is under way alone.       *)
LEMMA CarriedDrain ==
  ASSUME IInv, IInv', AInv, Faithful(graph, graph'), Orders' \subseteq Orders,
         graph'.starting = graph.starting, graph'.accepting = graph.accepting, UNCHANGED FlightVars
  PROVE  AInv' /\ Stays(graph, graph')
<1>1. Tasks' = Tasks
  BY DEF Tasks, FlightVars
<1> QED
  BY <1>1, Carried

(* The clients, the drain and the other threads, one after the other.      *)
LEMMA MutationCarried ==
  ASSUME IInv, IInv', AInv, NEW o, PostMutation(o) PROVE AInv' /\ Stays(graph, graph')
<1>1. o \in Operation /\ UNCHANGED <<graph, builds, completions, acceptances>>
  BY DEF PostMutation, engine, IInv, ClientInv
<1>2. PICK x : posted' = Append(posted, x) /\ x.op # "request"
  <2>1. CASE o.op \in {"invalidate", "cancel", "release"} /\ posted' = Append(posted, o)
    BY <2>1
  <2>2. CASE \E h \in Held(o.key, o.rev) :
                posted' = Append(posted, [op |-> "publish", key |-> h.key, rev |-> h.rev, gen |-> h.gen])
    <3>1. PICK h \in Held(o.key, o.rev) :
             posted' = Append(posted, [op |-> "publish", key |-> h.key, rev |-> h.rev, gen |-> h.gen])
      BY <2>2
    <3> QED
      BY <3>1
  <2> QED
    BY <2>1, <2>2 DEF PostMutation
<1>3. \A r \in Orders' : r \in Orders \/ r = x
  BY <1>2 DEF Orders, IInv, ClientInv
<1>4. Tasks' = Tasks
  BY <1>1 DEF Tasks
<1>5. AimInv'
  BY <1>1, <1>4 DEF AInv, AimInv, Aimed
<1>6. PromisedInv'
  <2>1. ASSUME NEW v \in Versions, Promised(v)' PROVE Promised(v)
    BY <1>1, <1>2, <1>3, <2>1 DEF Promised
  <2> QED
    BY <1>1, <2>1 DEF AInv, PromisedInv
<1> QED
  BY <1>1, <1>5, <1>6, FaithfulRefl DEF AInv, IInv, Faithful

(* The steps that touch neither the graph nor what is posted or under      *)
(* way.                                                                    *)
LEMMA QuietCarried ==
  ASSUME IInv, IInv', AInv,
         \/ UNCHANGED vars \/ BeginDrain \/ DelayedDrain
         \/ \E o \in todo : AwaitExact(o) \/ CancelAwait(o)
         \/ \E id \in owed : NotifySuspensionSatisfied(id)
         \/ \E t \in DOMAIN token : GpuProgress(t)
  PROVE  AInv' /\ Stays(graph, graph')
<1>1. UNCHANGED <<graph, builds, completions, acceptances, posted>>
  BY DEF BeginDrain, DelayedDrain, AwaitExact, CancelAwait, NotifySuspensionSatisfied, GpuProgress, queues, engine, vars
<1>2. Tasks' = Tasks /\ Orders' = Orders
  BY <1>1 DEF Tasks, Orders
<1> QED
  BY <1>1, <1>2, CarriedOutside

(* A build or an acceptance that is over leaves a completion that is aimed *)
(* as it was.                                                              *)
LEMMA AppendedTasks ==
  ASSUME IInv, IInv', AInv, graph' = graph, posted' = posted, NEW y \in Tasks, NEW c,
         c.key = y.key, c.rev = y.rev, c.gen = y.gen, completions' = Append(completions, c),
         builds' \subseteq builds, acceptances' \subseteq acceptances
  PROVE  AInv' /\ Stays(graph, graph')
<1>1. ASSUME NEW x \in Tasks' PROVE \E z \in Tasks : z.key = x.key /\ z.rev = x.rev /\ z.gen = x.gen
  <2>1. x \in Tasks \/ x = c
    BY <1>1 DEF Tasks, IInv, FlightInv
  <2> QED
    BY <2>1
<1>2. Orders' = Orders
  BY DEF Orders
<1> QED
  BY <1>1, <1>2, CarriedOutside

(* A producer returns, or an acceptance action has run.                    *)
LEMMA BuildCarried ==
  ASSUME IInv, IInv', AInv, NEW b, FinishBuild(b) PROVE AInv' /\ Stays(graph, graph')
<1>1. PICK o, reqs :
        completions' = Append(completions, [key |-> b.key, rev |-> b.rev, gen |-> b.gen, deps |-> b.deps,
                                            outcome |-> o, accepted |-> FALSE, reqs |-> reqs])
  BY DEF FinishBuild
<1>2. b \in builds /\ builds' \subseteq builds /\ UNCHANGED <<graph, posted, acceptances>>
  BY DEF FinishBuild, queues
<1>3. b \in Tasks
  BY <1>2 DEF Tasks
<1> QED
  BY <1>1, <1>2, <1>3, AppendedTasks

LEMMA AcceptanceCarried ==
  ASSUME IInv, IInv', AInv, NEW c, ApplyAcceptance(c) PROVE AInv' /\ Stays(graph, graph')
<1>1. c \in acceptances /\ acceptances' \subseteq acceptances /\ UNCHANGED <<graph, posted, builds>>
  BY DEF ApplyAcceptance, queues
<1>2. PICK o : completions' = Append(completions, [c EXCEPT !.accepted = TRUE, !.outcome = o])
  BY DEF ApplyAcceptance
<1>3. c \in Completed /\ c \in Tasks
  BY <1>1 DEF Tasks, IInv, FlightInv
<1> DEFINE d == [c EXCEPT !.accepted = TRUE, !.outcome = o]
<1>4. d.key = c.key /\ d.rev = c.rev /\ d.gen = c.gen
  BY <1>3 DEF Completed
<1> HIDE DEF d
<1>5. completions' = Append(completions, d)
  BY <1>2 DEF d
<1> QED
  BY <1>1, <1>3, <1>4, <1>5, AppendedTasks

-----------------------------------------------------------------------------
(* A step of the drain that applies an entry of its queues.                *)
LEMMA AppliedTasks ==
  ASSUME IInv, IInv', AInv, Faithful(graph, graph'), Applied(graph, graph'), UNCHANGED DrainVars,
         posted' = posted \/ (posted # <<>> /\ posted' = Tail(posted))
  PROVE  AInv' /\ Stays(graph, graph')
<1>1. Orders' \subseteq Orders
  <2>1. CASE posted' = posted
    BY <2>1 DEF Orders
  <2>2. CASE posted # <<>> /\ posted' = Tail(posted)
    BY <2>2, OrdersFacts DEF Orders
  <2> QED
    BY <2>1, <2>2
<1> QED
  BY <1>1, CarriedDrain DEF Applied, DrainVars, FlightVars

(* The first three queues of the drain.                                    *)
LEMMA AwaitCarried ==
  ASSUME IInv, IInv', AInv, ApplyPostedAwait PROVE AInv' /\ Stays(graph, graph')
<1>1. UNCHANGED DrainVars /\ posted' = posted
  BY DEF ApplyPostedAwait, DrainVars
<1>2. \E waiters, dropped :
         graph' \in {graph, [graph EXCEPT !.waiters = waiters, !.dropped = dropped],
                     [graph EXCEPT !.waiters = waiters], [graph EXCEPT !.dropped = dropped]}
  BY DEF ApplyPostedAwait
<1>3. DOMAIN graph = GraphFields
  BY DEF IInv, GraphOK, NodesOK
<1>4. /\ graph'.nodes = graph.nodes /\ graph'.nextGen = graph.nextGen /\ graph'.versions = graph.versions
      /\ graph'.gens = graph.gens /\ graph'.reserved = graph.reserved
  BY <1>2, <1>3 DEF GraphFields
<1>5. Faithful(graph, graph) /\ GraphOK(graph')
  BY FaithfulRefl DEF IInv, AInv
<1>6. Faithful(graph, graph')
  BY <1>4, <1>5, BooksFaithful
<1> QED
  BY <1>1, <1>6, AwaitAppliedStep, AppliedTasks

LEMMA SuspensionCarried ==
  ASSUME IInv, IInv', AInv, ApplyPostedSuspension PROVE AInv' /\ Stays(graph, graph')
<1>1. PICK id \in notices : graph' = SuspensionSatisfied(graph, id)
  BY DEF ApplyPostedSuspension
<1>2. id[1] \in Keys /\ Faithful(graph, graph)
  BY FaithfulRefl DEF IInv, ClientInv, AInv
<1>3. Faithful(graph, graph')
  BY <1>1, <1>2, SuspensionSatisfiedFaithful
<1> QED
  BY <1>3, SuspensionAppliedStep, AppliedTasks DEF ApplyPostedSuspension, DrainVars

LEMMA IntentCarried ==
  ASSUME IInv, IInv', AInv, ApplyPostedIntent PROVE AInv' /\ Stays(graph, graph')
<1>1. posted # <<>> /\ graph' = ApplyMutation(graph, Head(posted)) /\ posted' = Tail(posted) /\ UNCHANGED DrainVars
  BY DEF ApplyPostedIntent, DrainVars
<1>2. PICK o : o = Head(posted)
  OBVIOUS
<1>3. o \in Orders /\ o \in Postable(graph.nextGen)
  BY <1>1, <1>2, OrdersFacts
<1>4. ASSUME o.op = "request", o.gen # 0 PROVE Predicted(graph, Version(o.key, o.rev, o.gen))
  <2>1. o.key \in Keys /\ o.rev \in Nat /\ o.gen \in Nat
    <3>1. graph.nextGen \in Nat
      BY DEF IInv, GraphOK, NodesOK
    <3> QED
      BY <1>3, <1>4, <3>1 DEF Postable
  <2>2. Version(o.key, o.rev, o.gen) \in Versions /\ Version(o.key, o.rev, o.gen).gen = o.gen
    BY <2>1 DEF Version, Versions
  <2> QED
    BY <1>3, <1>4, <2>2 DEF AInv, PromisedInv, Promised
<1>5. Faithful(graph, graph')
  BY <1>1, <1>2, <1>3, <1>4, MutationFaithful DEF IInv, AInv
<1> QED
  BY <1>1, <1>5, IntentAppliedStep, AppliedTasks

(* GPU progress, retries and wakes.                                        *)
LEMMA GpuCarried ==
  ASSUME IInv, IInv', AInv, ApplyGpuSignal PROVE AInv' /\ Stays(graph, graph')
<1>1. PICK k \in signals \cup (graph.recovery \ graph.polled) :
         LET n     == graph.nodes[k]
             waits == n.present /\ n.state \in {"CpuReady", "UploadSubmitted"} /\ n.waiting # 0
             u     == [graph EXCEPT !.polled = @ \cup {k}, !.recovery = IF waits THEN @ ELSE @ \ {k}]
         IN  /\ graph' = IF waits THEN ApplyGpu(u, k, token[<<k, n.waiting>>]) ELSE u
             /\ signals' = signals \ {k}
  BY DEF ApplyGpuSignal
<1> DEFINE n     == graph.nodes[k]
           waits == n.present /\ n.state \in {"CpuReady", "UploadSubmitted"} /\ n.waiting # 0
           polled == graph.polled \cup {k}
           recovery == IF waits THEN graph.recovery ELSE graph.recovery \ {k}
           u     == [graph EXCEPT !.polled = polled, !.recovery = recovery]
<1>2. graph' = IF waits THEN ApplyGpu(u, k, token[<<k, n.waiting>>]) ELSE u
  BY <1>1
<1>3. k \in Keys /\ recovery \in SUBSET Keys /\ DOMAIN graph = GraphFields
  BY GraphAssumption DEF IInv, ClientInv, GraphOK, QueuesOK, NodesOK
<1> HIDE DEF polled, recovery
<1>4. /\ GraphOK(u) /\ u.nodes = graph.nodes /\ u.nextGen = graph.nextGen /\ u.versions = graph.versions
      /\ u.gens = graph.gens /\ u.reserved = graph.reserved
  <2>1. GraphOK(u) /\ u.nodes = graph.nodes
    BY <1>3, PolledSound DEF IInv, Sound
  <2> QED
    BY <1>3, <2>1 DEF GraphFields
<1> HIDE DEF u
<1>5. Faithful(graph, u)
  <2>1. Faithful(graph, graph)
    BY FaithfulRefl DEF IInv, AInv
  <2> QED
    BY <1>4, <2>1, BooksFaithful
<1>6. waits => Faithful(graph, ApplyGpu(u, k, token[<<k, n.waiting>>]))
  BY <1>3, <1>4, <1>5, GpuFaithful
<1>7. Faithful(graph, graph')
  BY <1>2, <1>5, <1>6
<1>8. UNCHANGED DrainVars /\ posted' = posted
  BY DEF ApplyGpuSignal, DrainVars, queues
<1> QED
  BY <1>7, <1>8, GpuAppliedStep, AppliedTasks

(* A retry is due.                                                         *)
LEMMA RetryCarried ==
  ASSUME IInv, IInv', AInv, ApplyRetry \/ AwaitRetry PROVE AInv' /\ Stays(graph, graph')
<1>1. UNCHANGED DrainVars /\ posted' = posted
  BY DEF ApplyRetry, AwaitRetry, DrainVars, queues
<1>2. DOMAIN graph = GraphFields /\ Faithful(graph, graph)
  BY FaithfulRefl DEF IInv, AInv, GraphOK, NodesOK
<1>3. CASE AwaitRetry
  <2>1. graph' = [graph EXCEPT !.delayed = TRUE] /\ GraphOK(graph')
    BY <1>3 DEF AwaitRetry, IInv
  <2>2. Faithful(graph, graph')
    <3>1. /\ graph'.nodes = graph.nodes /\ graph'.nextGen = graph.nextGen /\ graph'.versions = graph.versions
          /\ graph'.gens = graph.gens /\ graph'.reserved = graph.reserved
      BY <1>2, <2>1 DEF GraphFields
    <3> QED
      BY <1>2, <2>1, <3>1, BooksFaithful
  <2> QED
    BY <1>1, <2>2, RetryStep, AppliedTasks
<1>4. CASE ApplyRetry
  <2>1. PICK r \in graph.retries :
          LET n == graph.nodes[r[1]]
              u == [graph EXCEPT !.retries = @ \ {r}]
          IN  graph' = IF n.present /\ n.gen = r[2] /\ n.retry
                       THEN QueueNode([u EXCEPT !.nodes[r[1]].retry = FALSE], r[1]) ELSE u
    BY <1>4 DEF ApplyRetry
  <2> DEFINE k == r[1]
             retries == graph.retries \ {r}
             u == [graph EXCEPT !.retries = retries]
             m == [u.nodes[k] EXCEPT !.retry = FALSE]
             free == [u EXCEPT !.nodes[k].retry = FALSE]
  <2>2. graph' = u \/ (graph.nodes[k].present /\ graph' = QueueNode(free, k))
    BY <2>1
  <2>3. k \in Keys
    BY DEF IInv, GraphOK, QueuesOK
  <2>4. /\ GraphOK(u) /\ u.nodes = graph.nodes /\ u.nextGen = graph.nextGen /\ u.versions = graph.versions
        /\ u.gens = graph.gens /\ u.reserved = graph.reserved
    <3>1. GraphOK(u) /\ u.nodes = graph.nodes
      BY RetriesSound DEF IInv, Sound
    <3> QED
      BY <1>2, <3>1 DEF GraphFields
  <2> HIDE DEF u, k
  <2>5. Faithful(graph, u)
    BY <1>2, <2>4, BooksFaithful
  <2>6. ASSUME graph.nodes[k].present PROVE Faithful(graph, QueueNode(free, k))
    <3>1. free = WithNode(u, k, m)
      BY DEF WithNode
    <3>2. NodeOK(u.nodes[k], k, u.nextGen) /\ u.nodes[k].present
      BY <2>3, <2>4, <2>6 DEF GraphOK, NodesOK
    <3>3. NodeOK(m, k, u.nextGen) /\ Like(u.nodes[k], m) /\ m.present
      BY <3>2 DEF NodeOK, NodeFields, Like
    <3> HIDE DEF m, free
    <3>4. Faithful(graph, free)
      BY <2>3, <2>5, <3>1, <3>3, LikeFaithful
    <3> QED
      BY <2>3, <3>4, QueueNodeFaithful
  <2>7. Faithful(graph, graph')
    BY <2>2, <2>5, <2>6
  <2> QED
    BY <1>1, <2>7, RetryStep, AppliedTasks
<1> QED
  BY <1>3, <1>4

LEMMA WakeCarried ==
  ASSUME IInv, IInv', AInv, ApplyWake PROVE AInv' /\ Stays(graph, graph')
<1> DEFINE wake == Head(graph.wakes)
<1>1. PICK k \in wake.consumers :
         LET rest == wake.consumers \ {k}
             u    == [graph EXCEPT !.woken = @ \cup {k},
                         !.wakes = IF rest = {} THEN Tail(@) ELSE [@ EXCEPT ![1].consumers = rest]]
         IN  graph' = IF k \in graph.woken THEN u ELSE WakeWaiter(u, wake.dep, k)
  BY DEF ApplyWake
<1> DEFINE rest  == wake.consumers \ {k}
           next  == [wake EXCEPT !.consumers = rest]
           wakes == IF rest = {} THEN Tail(graph.wakes) ELSE [graph.wakes EXCEPT ![1] = next]
           u     == [graph EXCEPT !.woken = @ \cup {k},
                         !.wakes = IF rest = {} THEN Tail(@) ELSE [@ EXCEPT ![1].consumers = rest]]
<1>2. graph.wakes \in Seq(Wakes) /\ graph.wakes # <<>> /\ DOMAIN graph = GraphFields
  BY DEF ApplyWake, IInv, GraphOK, QueuesOK, NodesOK
<1>3. wake \in Wakes /\ wake = graph.wakes[1]
  BY <1>2
<1>4. k \in Keys /\ next \in Wakes
  BY <1>3 DEF Wakes
<1>5. wakes \in Seq(Wakes)
  <2> HIDE DEF wake, next
  <2> QED
    BY <1>2, <1>4
<1>6. /\ DOMAIN u = GraphFields /\ u.nodes = graph.nodes /\ u.nextGen = graph.nextGen /\ SameTables(graph, u)
      /\ u.pending = graph.pending /\ u.wakes = wakes /\ u.retries = graph.retries
      /\ u.recovery = graph.recovery /\ u.subscribing = graph.subscribing
      /\ u.versions = graph.versions /\ u.gens = graph.gens /\ u.reserved = graph.reserved
  BY <1>2, <1>3 DEF GraphFields, SameTables
<1>7. graph' = u \/ graph' = WakeWaiter(u, wake.dep, k)
  BY <1>1
<1> HIDE DEF u, wakes
<1>8. QueuesOK(u)
  BY <1>5, <1>6 DEF IInv, GraphOK, QueuesOK
<1>9. GraphOK(u)
  BY <1>6, <1>8, QueueStep DEF IInv, Sound
<1>10. Faithful(graph, u)
  <2>1. Faithful(graph, graph)
    BY FaithfulRefl DEF IInv, AInv
  <2> QED
    BY <1>6, <1>9, <2>1, BooksFaithful
<1>11. Faithful(graph, graph')
  BY <1>4, <1>7, <1>10, WakeWaiterFaithful
<1>12. UNCHANGED DrainVars /\ posted' = posted
  BY DEF ApplyWake, DrainVars, queues
<1> QED
  BY <1>11, <1>12, WakeAppliedStep, AppliedTasks

(* FinishDrain hands on what is under way; a completion that awaits its    *)
(* acceptance is under way still.                                          *)
LEMMA FinishCarried ==
  ASSUME IInv, IInv', AInv, FinishDrain PROVE AInv' /\ Stays(graph, graph')
<1> DEFINE answered == {w \in graph.waiters : \E i \in DOMAIN graph.ready : Answers(graph.ready[i], w)}
           left == [graph EXCEPT !.waiters = @ \ answered, !.ready = <<>>, !.woken = {}, !.polled = {},
                                 !.starting = {}, !.accepting = {}, !.subscribing = {}, !.delayed = FALSE]
<1>1. /\ graph' = left /\ builds' = builds \cup graph.starting /\ acceptances' = acceptances \cup graph.accepting
      /\ posted' = posted /\ completions' = completions
  BY DEF FinishDrain, queues
<1>2. DOMAIN graph = GraphFields
  BY DEF IInv, GraphOK, NodesOK
<1>3. /\ left.nodes = graph.nodes /\ left.nextGen = graph.nextGen
      /\ left.versions = graph.versions /\ left.gens = graph.gens /\ left.reserved = graph.reserved
      /\ left.starting = {} /\ left.accepting = {}
  <2> HIDE DEF answered
  <2> QED
    BY <1>2 DEF GraphFields
<1> HIDE DEF left
<1>4. Faithful(graph, graph')
  <2>1. Faithful(graph, graph)
    BY FaithfulRefl DEF IInv, AInv
  <2> QED
    BY <1>1, <1>3, <2>1, BooksFaithful DEF IInv
<1>5. Tasks' = Tasks /\ Orders' = Orders
  BY <1>1, <1>3 DEF Tasks, Orders
<1> QED
  BY <1>4, <1>5, Carried

(* A completion is applied to the node its build was started for.          *)
LEMMA CompletionCarried ==
  ASSUME IInv, IInv', AInv, ApplyNextCompletion PROVE AInv' /\ Stays(graph, graph')
<1> DEFINE gpuOf(h) == IF h.outcome = "ready" /\ h.key \in GpuKeys THEN token[<<h.key, h.gen>>] ELSE "none"
           of(h)    == IF gpuOf(h) = "failed" THEN [h EXCEPT !.outcome = "failed"] ELSE h
<1>1. /\ completions # <<>> /\ completions' = Tail(completions) /\ posted' = posted
      /\ UNCHANGED <<builds, acceptances>>
  BY DEF ApplyNextCompletion, queues
<1>2. PICK h : h = Head(completions)
  OBVIOUS
<1>3. PICK gpu : gpu = gpuOf(h)
  OBVIOUS
<1>4. PICK c : c = of(h)
  OBVIOUS
<1>5. graph' = IF NeedsAcceptance(graph, c) THEN [graph EXCEPT !.accepting = @ \cup {c}]
               ELSE ApplyCompletion(graph, c, gpu)
  BY <1>2, <1>3, <1>4 DEF ApplyNextCompletion
<1>6. /\ h \in Completed /\ graph.nodes[h.key].inFlight
      /\ \A i \in 1..Len(completions') : i + 1 \in 1..Len(completions) /\ completions'[i] = completions[i + 1]
  BY <1>1, <1>2, CompletionTaken DEF IInv
<1>7. c \in Completed /\ c.key = h.key /\ c.rev = h.rev /\ c.gen = h.gen
  BY <1>4, <1>6 DEF Completed, Reports, Outcome
<1>8. gpu \in {"recorded", "submitted"} => c.key \in GpuKeys
  BY <1>3, <1>7
<1>9. h \in Tasks /\ Known(h)
  <2>1. 1 \in 1..Len(completions) /\ h = completions[1]
    BY <1>1, <1>2 DEF IInv, FlightInv
  <2> QED
    BY <2>1 DEF IInv, KnownInv, Tasks
<1> HIDE DEF of, gpuOf
<1>10. Orders' = Orders
  BY <1>1 DEF Orders
<1>11. \A i \in 1..Len(completions') : completions'[i] \in Tasks
  BY <1>6 DEF Tasks
<1>12. CASE NeedsAcceptance(graph, c)
  <2>1. graph' = [graph EXCEPT !.accepting = @ \cup {c}] /\ DOMAIN graph = GraphFields
    BY <1>5, <1>12 DEF IInv, GraphOK, NodesOK
  <2>2. /\ graph'.nodes = graph.nodes /\ graph'.nextGen = graph.nextGen /\ graph'.versions = graph.versions
        /\ graph'.gens = graph.gens /\ graph'.reserved = graph.reserved
        /\ graph'.starting = graph.starting /\ graph'.accepting = graph.accepting \cup {c}
    BY <2>1 DEF GraphFields
  <2>3. Faithful(graph, graph')
    <3>1. Faithful(graph, graph)
      BY FaithfulRefl DEF IInv, AInv
    <3> QED
      BY <2>2, <3>1, BooksFaithful DEF IInv
  <2>4. ASSUME NEW x \in Tasks' PROVE \E y \in Tasks : y.key = x.key /\ y.rev = x.rev /\ y.gen = x.gen
    <3>1. x \in Tasks \/ x = c
      BY <1>1, <1>11, <2>2 DEF Tasks
    <3> QED
      BY <1>7, <1>9, <3>1
  <2> QED
    BY <1>10, <2>3, <2>4, Carried
<1>13. CASE ~NeedsAcceptance(graph, c)
  <2> DEFINE n == graph.nodes[c.key]
  <2>1. c.key \in Keys /\ c.rev \in Nat /\ c.reqs \in Recipe /\ c.outcome \in Reports
    BY <1>7 DEF Completed
  <2>2. n.present /\ n.inFlight
    <3>1. NodeOK(n, c.key, graph.nextGen)
      BY <2>1 DEF IInv, GraphOK, NodesOK
    <3> QED
      BY <1>6, <1>7, <3>1 DEF NodeOK, NoNode
  <2>3. c.rev # 0 => n.vgen # 0
    BY <1>7, <1>9 DEF Known
  <2>4. c.rev = 0 \/ (c.rev = n.rev /\ (c.gen = n.gen => n.state = "Preparing"))
    BY <1>7, <1>9 DEF AInv, AimInv, Aimed
  <2>5. graph' = ApplyCompletion(graph, c, gpu)
    BY <1>5, <1>13
  <2>6. Faithful(graph, graph')
    BY <1>8, <2>1, <2>2, <2>3, <2>4, <2>5, CompletionFaithful DEF IInv, AInv
  <2>7. graph'.starting = graph.starting /\ graph'.accepting = graph.accepting
    <3>1. Applied([graph EXCEPT !.nodes[c.key].inFlight = FALSE], graph')
      BY <1>8, <2>1, <2>2, <2>3, <2>5, CompletionApplied DEF IInv
    <3> QED
      BY <2>1, <2>2, <3>1, IdleFacts DEF IInv, Applied
  <2>8. Tasks' \subseteq Tasks
    BY <1>1, <1>11, <2>7 DEF Tasks
  <2> QED
    BY <1>10, <2>6, <2>8, Carried
<1> QED
  BY <1>12, <1>13

(* The generation PostRequest reserves is new, or was promised before.     *)
LEMMA RequestCarried ==
  ASSUME IInv, IInv', AInv, NEW o, PostRequest(o) PROVE AInv' /\ Stays(graph, graph')
<1> DEFINE kr  == <<o.key, o.rev>>
           new == Entry(graph.reserved, kr) = 0
           gen == IF new THEN graph.nextGen + 1 ELSE graph.reserved[kr]
           u   == [graph EXCEPT !.nextGen = gen, !.reserved = Enter(@, kr, gen)]
           r   == [op |-> "request", key |-> o.key, rev |-> o.rev, gen |-> gen,
                   reqs |-> {Bind(q) : q \in o.reqs}, coalesce |-> o.coalesce]
<1>1. /\ graph' = IF new THEN u ELSE graph
      /\ posted' = Append(posted, r)
      /\ UNCHANGED <<builds, completions, acceptances>>
  BY DEF PostRequest
<1>2. graph.nextGen \in Nat /\ DOMAIN graph = GraphFields /\ GraphOK(graph)
  BY DEF IInv, GraphOK, NodesOK
<1>3. /\ u.nodes = graph.nodes /\ u.reserved = Enter(graph.reserved, kr, gen)
      /\ u.versions = graph.versions /\ u.gens = graph.gens
      /\ u.starting = graph.starting /\ u.accepting = graph.accepting
  <2> HIDE DEF gen
  <2> QED
    BY <1>2 DEF GraphFields
<1> HIDE DEF u
<1>4. /\ graph'.nodes = graph.nodes /\ graph'.versions = graph.versions /\ graph'.gens = graph.gens
      /\ graph'.starting = graph.starting /\ graph'.accepting = graph.accepting
      /\ graph'.reserved = IF new THEN Enter(graph.reserved, kr, gen) ELSE graph.reserved
  BY <1>1, <1>3
<1>5. Tasks' = Tasks
  BY <1>1, <1>4 DEF Tasks
<1>6. AimInv'
  BY <1>4, <1>5 DEF AInv, AimInv, Aimed
<1>7. ASSUME NEW x \in Orders' PROVE x \in Orders \/ x = r
  <2> HIDE DEF r
  <2> QED
    BY <1>1 DEF Orders, IInv, ClientInv
<1>8. ASSUME NEW v \in Versions, v.gen = graph.nextGen + 1 PROVE ~Names(graph.nodes[v.key], v)
  <2> DEFINE n == graph.nodes[v.key]
  <2>1. n.vgen \in 0..graph.nextGen /\ n.successors \in Seq(Parked(graph.nextGen))
    BY <1>2 DEF Versions, GraphOK, NodesOK, NodeOK
  <2>2. \A i \in 1..Len(n.successors) : n.successors[i].gen \in 1..graph.nextGen
    <3>1. \A i \in 1..Len(n.successors) : n.successors[i] \in Parked(graph.nextGen)
      BY <2>1, ElementOfSeq
    <3> QED
      BY <3>1 DEF Parked
  <2> HIDE DEF n
  <2>3. n.vgen # v.gen /\ \A i \in 1..Len(n.successors) : n.successors[i].gen # v.gen
    BY <1>2, <1>8, <2>1, <2>2
  <2> QED
    BY <2>3 DEF Names, n
<1>9. ASSUME NEW v \in Versions, Promised(v)' PROVE Promised(v) \/ v.gen = graph.nextGen + 1
  <2>1. v.gen # 0
    BY <1>9 DEF Promised
  <2>2. CASE Entry(graph'.reserved, <<v.key, v.rev>>) = v.gen
    <3>1. CASE ~new \/ <<v.key, v.rev>> # kr
      <4>1. Entry(graph.reserved, <<v.key, v.rev>>) = v.gen
        BY <1>4, <2>2, <3>1, EntryFacts
      <4> QED
        BY <2>1, <4>1 DEF Promised
    <3>2. CASE new /\ <<v.key, v.rev>> = kr
      BY <1>4, <2>2, <3>2, EntryFacts
    <3> QED
      BY <3>1, <3>2
  <2>3. CASE \E x \in Orders' : x.op = "request" /\ Version(x.key, x.rev, x.gen) = v
    <3>1. PICK x \in Orders' : x.op = "request" /\ Version(x.key, x.rev, x.gen) = v
      BY <2>3
    <3>2. CASE x \in Orders
      BY <2>1, <3>1, <3>2 DEF Promised
    <3>3. CASE x = r
      <4>1. v.key = o.key /\ v.rev = o.rev /\ v.gen = gen
        <5> HIDE DEF gen
        <5> QED
          BY <3>1, <3>3 DEF Version
      <4>2. ~new => Entry(graph.reserved, <<v.key, v.rev>>) = v.gen
        BY <4>1 DEF Entry
      <4> QED
        BY <2>1, <4>1, <4>2 DEF Promised
    <3> QED
      BY <1>7, <3>2, <3>3
  <2> QED
    BY <1>9, <2>2, <2>3 DEF Promised
<1>10. PromisedInv'
  <2> SUFFICES ASSUME NEW v \in Versions, Promised(v)' PROVE Predicted(graph', v)
    BY DEF PromisedInv
  <2>1. Predicted(graph, v)
    BY <1>8, <1>9 DEF AInv, PromisedInv, Predicted
  <2> QED
    BY <1>4, <2>1 DEF Predicted
<1>11. ArchiveOK(graph)'
  BY <1>4 DEF AInv, ArchiveOK
<1>12. Stays(graph, graph')
  <2>1. Stays(graph, graph)
    BY <1>2, FaithfulRefl DEF AInv, Faithful
  <2> QED
    BY <1>4, <2>1 DEF Stays
<1> QED
  BY <1>6, <1>10, <1>11, <1>12 DEF AInv

(* A build that starts is of the version the cursor is for.                *)
LEMMA StartCarried ==
  ASSUME IInv, IInv', AInv, StartBuild PROVE AInv' /\ Stays(graph, graph')
<1> DEFINE k == Head(graph.pending)
           u == [graph EXCEPT !.pending = Tail(@)]
           m == LatchReadyGates(u, u.nodes[k])
           b == [key |-> k, rev |-> m.rev, gen |-> m.gen, deps |-> DependencySnapshots(u, m), first |-> ~m.attempted]
           idle == [m EXCEPT !.state = "Blocked"]
           busy == [m EXCEPT !.inFlight = TRUE, !.attempted = TRUE, !.state = "Preparing"]
           v == [WithNode(u, k, busy) EXCEPT !.starting = @ \cup {b}]
<1>1. graph.pending # <<>> /\ UNCHANGED DrainVars /\ posted' = posted
  BY DEF StartBuild, DrainVars, queues
<1>2. \/ graph' = u
      \/ m.present /\ ~m.inFlight /\ graph' = WithNode(u, k, idle)
      \/ m.present /\ ~m.inFlight /\ graph' = v
  BY DEF StartBuild
<1>3. k \in Keys
  <2>1. graph.pending \in Seq(Keys)
    BY DEF IInv, GraphOK, QueuesOK
  <2> QED
    BY <1>1, <2>1
<1>4. /\ GraphOK(u) /\ u.nodes = graph.nodes /\ u.nextGen = graph.nextGen /\ u.versions = graph.versions
      /\ u.gens = graph.gens /\ u.reserved = graph.reserved
      /\ u.starting = graph.starting /\ u.accepting = graph.accepting
  <2>1. GraphOK(u) /\ u.nodes = graph.nodes /\ DOMAIN graph = GraphFields
    BY <1>1, PoppedSound DEF IInv, Sound, GraphOK, NodesOK
  <2> QED
    BY <2>1 DEF GraphFields
<1> DEFINE n == u.nodes[k]
<1> HIDE DEF u, k
<1>5. NodeOK(n, k, u.nextGen)
  BY <1>3, <1>4 DEF GraphOK, NodesOK
<1>6. m = [n EXCEPT !.reqs = m.reqs] /\ (n.present => NodeOK(m, k, u.nextGen))
  BY <1>3, <1>4, <1>5, LatchSound
<1> HIDE DEF m
<1>7. /\ DOMAIN m = NodeFields
      /\ m.present = n.present /\ m.inFlight = n.inFlight /\ m.vgen = n.vgen /\ m.rev = n.rev /\ m.gen = n.gen
      /\ m.produced = n.produced /\ m.successors = n.successors
  <2>1. DOMAIN n = NodeFields
    BY <1>5 DEF NodeOK
  <2> QED
    BY <1>6, <2>1 DEF NodeFields
<1>8. Faithful(graph, u)
  <2>1. Faithful(graph, graph)
    BY FaithfulRefl DEF IInv, AInv
  <2> QED
    BY <1>4, <2>1, BooksFaithful
<1>9. Orders' = Orders
  BY <1>1 DEF Orders
<1>10. CASE graph' = u
  <2>1. Tasks' = Tasks
    BY <1>1, <1>4, <1>10 DEF Tasks, DrainVars
  <2> QED
    BY <1>8, <1>9, <1>10, <2>1, Carried
<1>11. CASE ~m.inFlight /\ graph' = WithNode(u, k, idle)
  <2>1. Moved(n, idle)
    BY <1>7, <1>11 DEF Moved, NodeFields, Milestones
  <2>2. Faithful(graph, graph')
    <3> HIDE DEF idle
    <3> QED
      BY <1>3, <1>8, <1>11, <2>1, MovedFaithful DEF IInv
  <2>3. Tasks' = Tasks
    <3>1. DOMAIN u = GraphFields
      BY <1>4 DEF GraphOK, NodesOK
    <3>2. graph'.starting = u.starting /\ graph'.accepting = u.accepting
      BY <1>11, <3>1 DEF WithNode, GraphFields
    <3> QED
      BY <1>1, <1>4, <3>2 DEF Tasks, DrainVars
  <2> QED
    BY <1>9, <2>2, <2>3, Carried
<1>12. CASE m.present /\ ~m.inFlight /\ graph' = v
  <2>1. NodeOK(m, k, u.nextGen) /\ b.key = k /\ b.rev = m.rev /\ b.gen = m.gen
    BY <1>6, <1>7, <1>12
  <2>2. /\ NodeOK(busy, k, u.nextGen) /\ busy.inFlight /\ busy.vgen = m.vgen /\ busy.rev = m.rev /\ busy.gen = m.gen
        /\ busy.state = "Preparing" /\ busy.produced = m.produced /\ busy.successors = m.successors
    <3>1. /\ busy.inFlight /\ busy.vgen = m.vgen /\ busy.rev = m.rev /\ busy.gen = m.gen
          /\ busy.state = "Preparing" /\ busy.produced = m.produced /\ busy.successors = m.successors
      BY <1>7 DEF NodeFields
    <3>2. NodeOK(busy, k, u.nextGen)
      BY <1>12, <2>1, ReadinessFacts DEF NodeOK, NodeFields
    <3> QED
      BY <3>1, <3>2
  <2> HIDE DEF busy, b
  <2>3. graph' = StartingWith(WithNode(u, k, busy), b)
    BY <1>12 DEF StartingWith
  <2>4. /\ graph'.nodes[k] = busy /\ \A d \in Keys \ {k} : graph'.nodes[d] = u.nodes[d]
        /\ graph'.starting = u.starting \cup {b} /\ graph'.accepting = u.accepting
    BY <1>3, <1>4, <2>2, <2>3, StartGraph
  <2>5. graph'.versions = graph.versions /\ graph'.gens = graph.gens /\ graph'.reserved = graph.reserved
    <3>1. DOMAIN u = GraphFields
      BY <1>4 DEF GraphOK, NodesOK
    <3> QED
      BY <1>4, <2>3, <3>1 DEF StartingWith, WithNode, GraphFields
  <2> HIDE DEF v
  <2>6. ASSUME NEW x \in Tasks' PROVE Aimed(x)'
    <3>1. x = b \/ x \in Tasks
      BY <1>1, <1>4, <2>4 DEF Tasks, DrainVars
    <3>2. CASE x = b
      <4>1. m.gen \in Nat
        BY <2>1 DEF NodeOK
      <4> QED
        BY <2>1, <2>2, <2>4, <3>2, <4>1 DEF Aimed
    <3>3. CASE x \in Tasks
      <4>1. x.key \in Keys /\ graph.nodes[x.key].inFlight
        BY <3>3, TasksFly DEF IInv, TasksInFlight
      <4>2. x.key # k
        BY <1>4, <1>7, <1>12, <4>1
      <4>3. graph'.nodes[x.key] = graph.nodes[x.key]
        BY <1>4, <2>4, <4>1, <4>2
      <4> QED
        BY <3>3, <4>3 DEF AInv, AimInv, Aimed
    <3> QED
      BY <3>1, <3>2, <3>3
  <2>7. ArchiveOK(graph)'
    <3>1. CursorOK(busy, k, graph.versions)
      <4>1. CursorOK(n, k, graph.versions)
        BY <1>3, <1>4 DEF AInv, ArchiveOK
      <4> QED
        BY <1>7, <2>2, <4>1 DEF CursorOK, Milestones
    <3> QED
      BY <1>4, <2>4, <2>5, <3>1 DEF AInv, ArchiveOK
  <2>8. Stays(graph, graph')
    <3>1. Stays(graph, graph)
      BY FaithfulRefl DEF IInv, AInv, Faithful
    <3> QED
      BY <2>5, <3>1 DEF Stays
  <2>9. PromisedInv'
    <3> SUFFICES ASSUME NEW w \in Versions, Promised(w)' PROVE Predicted(graph', w)
      BY DEF PromisedInv
    <3>1. Predicted(graph, w)
      BY <1>9, <2>5 DEF AInv, PromisedInv, Promised
    <3>2. Names(graph'.nodes[w.key], w) => Names(graph.nodes[w.key], w)
      <4>1. w.key \in Keys
        BY DEF Versions
      <4>2. CASE w.key = k
        BY <1>4, <1>7, <2>2, <2>4, <4>2 DEF Names
      <4>3. CASE w.key # k
        BY <1>4, <2>4, <4>1, <4>3
      <4> QED
        BY <4>2, <4>3
    <3> QED
      BY <2>5, <3>1, <3>2 DEF Predicted
  <2> QED
    BY <2>6, <2>7, <2>8, <2>9 DEF AInv, AimInv
<1> QED
  BY <1>2, <1>10, <1>11, <1>12

(* Init establishes AInv, and every step of Next preserves it.             *)
LEMMA InitArchive == Init => AInv
<1> SUFFICES ASSUME Init PROVE AInv
  OBVIOUS
<1>1. graph = NewGraph /\ builds = {} /\ acceptances = {} /\ completions = <<>> /\ posted = <<>>
  BY DEF Init
<1>2. /\ \A k \in Keys : graph.nodes[k] = NoNode
      /\ graph.versions = {} /\ graph.reserved = <<>> /\ graph.starting = {} /\ graph.accepting = {}
  BY <1>1 DEF NewGraph
<1>3. NoNode.produced = 0 /\ NoNode.rev = 0 /\ NoNode.inFlight = FALSE
  BY DEF NoNode
<1>4. ArchiveOK(graph)
  BY <1>2, <1>3 DEF ArchiveOK, CursorOK
<1>5. Tasks = {} /\ Orders = {}
  BY <1>1, <1>2 DEF Tasks, Orders
<1>6. PromisedInv
  BY <1>2, <1>5 DEF PromisedInv, Promised, Entry
<1> QED
  BY <1>4, <1>5, <1>6 DEF AInv, AimInv

LEMMA StepArchive == IInv /\ IInv' /\ AInv /\ [Next]_vars => AInv' /\ Stays(graph, graph')
<1> SUFFICES ASSUME IInv, IInv', AInv, [Next]_vars PROVE AInv' /\ Stays(graph, graph')
  OBVIOUS
<1>1. CASE UNCHANGED vars
  BY <1>1, QuietCarried
<1>2. CASE Client
  BY <1>2, RequestCarried, MutationCarried, QuietCarried DEF Client
<1>3. CASE Drain
  BY <1>3, QuietCarried, AwaitCarried, SuspensionCarried, IntentCarried, GpuCarried, RetryCarried,
     CompletionCarried, WakeCarried, StartCarried, FinishCarried DEF Drain
<1>4. CASE Outside
  BY <1>4, BuildCarried, AcceptanceCarried, QuietCarried DEF Outside
<1> QED
  BY <1>1, <1>2, <1>3, <1>4 DEF Next

(* An archived version is immutable unless its address builds it anew:     *)
(* StoreVersion never lets a cursor step back behind what the archive      *)
(* shows of its version, MarkPublishedLocked only raises a version that    *)
(* has not ended, and the refusals of RequestInternal archive a prediction *)
(* as Failed that names nothing else (VersionsAreImmutable).               *)
THEOREM VersionsStayImmutable == Spec => VersionsAreImmutable
<1>1. Init => IInv /\ AInv
  BY InitInv, InitArchive
<1>2. IInv /\ AInv /\ [Next]_vars => (IInv /\ AInv)'
  BY StepInv, StepArchive
<1>3. IInv /\ AInv /\ [Next]_vars =>
        [\A x \in graph.versions : \E y \in graph'.versions :
            Identity(y) = Identity(x) /\ (Rebuilding(graph, x) \/ Follows(y.readiness, x.readiness))]_vars
  BY StepInv, StepArchive DEF Stays
<1> QED
  BY <1>1, <1>2, <1>3, PTL DEF Spec, VersionsAreImmutable
=============================================================================
