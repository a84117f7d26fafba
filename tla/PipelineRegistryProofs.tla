----------------------- MODULE PipelineRegistryProofs -----------------------
(***************************************************************************)
(* The safety of PipelineRegistry, for any pipelines, files and bounds.    *)
(* The inductive invariant Base says, beside the types:                    *)
(*   - WorkInv: the batch counts its rebuilds that are not in, and every   *)
(*     result that is in is one;                                           *)
(*   - EntryInv: what is registered, stale or staged was registered, and   *)
(*     a live pipeline is always among the entries, its fingerprint that   *)
(*     of its slot;                                                        *)
(*   - AskInv: a stale registration or a request has a Service to come;    *)
(*   - GpuInv: a retired payload waits for a frame no earlier than the     *)
(*     last that bound it.                                                 *)
(* That no pipeline keeps the files of before needs two more, and that no  *)
(* edit brings an earlier content of a file back:                          *)
(*   - OrderInv: a slot is no younger than what is staged for it, that no  *)
(*     younger than what is being built, that no younger than the files;   *)
(*   - FreshInv: whoever is to fill a slot last read files that are still  *)
(*     as they were, or that a request or the watcher will name.           *)
(***************************************************************************)
EXTENDS PipelineRegistry, FiniteSetTheorems, SequenceTheorems, WellFoundedInduction, TLAPS

\* Contents, staged payloads and retired ones, of any entry.
AnyContent == {Nothing} \cup UNION {Contents(e) : e \in Entries}
Staging == [entry : Entries, content : AnyContent]
Retirement == [point : Nat, bound : Nat]

\* e has been registered; e's rebuild has read its files and is not known to be dropped.
Begun(e) == phase[e] \in {"live", "expired"}
Reading(e) == work[e] = "reading" \/ (work[e] = "done" /\ result[e].kind = "rebuilt")

\* The types TypeOK leaves out.
Types ==
    /\ TypeOK
    /\ built \in [Entries -> [content : AnyContent, for : Nat]]
    /\ slot \in [Entries -> AnyContent]
    /\ fingerprint \in [Entries -> AnyContent]
    /\ result \in [Entries -> [kind : BuildKinds, content : AnyContent]]
    /\ batch \in [ members : SUBSET Entries, prints : {batch.prints}, force : {batch.force},
                    remaining : Nat, on : BOOLEAN ]
    /\ staged \in Seq(Staging)
    /\ retired \in Seq(Retirement)
    /\ boundAt \in [Entries -> Nat]

\* The rebuilds of the batch that are not in yet.
Missing == {e \in batch.members : work[e] # "done"}

\* A rebuild has a state while its entry is in the batch, and remaining counts Missing.
WorkInv ==
    /\ \A e \in Entries : e \in batch.members <=> work[e] # "idle"
    /\ batch.members \subseteq entries
    /\ ~batch.on => batch.members = {}
    /\ owner = "recheck" => batch.on
    /\ \A e \in late : work[e] = "done"
    /\ \A e \in Entries : work[e] = "done" => result[e].kind # "none"
    /\ IsFiniteSet(entries)
    /\ batch.remaining = Cardinality(Missing)

\* Entries, stale ones and staged ones were registered; their contents are of their files.
EntryInv ==
    /\ \A e \in entries \cup stale : Begun(e)
    /\ \A i \in 1..Len(staged) : Begun(staged[i].entry)
    /\ \A e \in Entries : phase[e] = "live" => e \in entries
    /\ \A e \in Entries : Begun(e) => fingerprint[e] = slot[e] /\ slot[e] \in Contents(e)
    /\ \A e \in Entries : phase[e] = "building" => built[e].content \in Contents(e)
    /\ \A i \in 1..Len(staged) : staged[i].content \in Contents(staged[i].entry)
    /\ \A e \in Entries : Reading(e) => result[e].content \in Contents(e)
    /\ \A e \in Entries : built[e].for <= sourcesGeneration

\* The generation the next StartBatch adds.
Asked == IF request.asked THEN 1 ELSE 0

\* What is asked for or stale is served by a Service to come; each generation, started
\* or still to be asked for, is of an edit or a forced reload of its own.
AskInv ==
    /\ stale # {} => asked \/ stale \subseteq Expired
    /\ request.asked => asked
    /\ IsFiniteSet(dirty)
    /\ sourcesGeneration + Asked + Cardinality(dirty) <= edits

\* No payload is bound by a frame later than the one it waits for.
GpuInv ==
    /\ \A e \in Entries : boundAt[e] <= frame
    /\ \A i \in 1..Len(retired) : retired[i].bound <= retired[i].point /\ retired[i].point <= frame

Base == Types /\ WorkInv /\ EntryInv /\ AskInv /\ GpuInv

-----------------------------------------------------------------------------
(* The smallest and the largest of a set of positions exist.               *)
LEMMA MinExists ==
    ASSUME NEW S \in SUBSET Nat, S # {}
    PROVE  Min(S) \in S /\ \A y \in S : Min(S) <= y
<1> DEFINE Less == OpToRel(<, Nat)
<1>1. \A x, y \in Nat : <<y, x>> \in Less <=> y < x
  BY DEF OpToRel
<1>2. IsWellFoundedOn(Less, Nat)
  BY NatLessThanWellFounded
<1>3. PICK d \in S : \A y \in S : ~(<<y, d>> \in Less)
  <2> HIDE DEF Less
  <2> QED
    BY <1>2, WFMin
<1>4. \A y \in S : d <= y
  <2> HIDE DEF Less
  <2>1. \A y \in S : ~(y < d)
    BY <1>1, <1>3
  <2> QED
    BY <2>1
<1> QED
  BY <1>4 DEF Min

LEMMA MaxExists ==
    ASSUME NEW n \in Nat, NEW S \in SUBSET (1..n), S # {}
    PROVE  Max(S) \in S /\ \A y \in S : Max(S) >= y
<1> DEFINE Co == {n - x : x \in S}
<1>1. Co \in SUBSET Nat /\ Co # {}
  <2>1. \A x \in S : n - x \in Nat /\ n - x \in Co
    OBVIOUS
  <2> QED
    BY <2>1
<1>2. PICK d \in Co : \A y \in Co : d <= y
  <2> HIDE DEF Co
  <2> QED
    BY <1>1, MinExists
<1>3. PICK m \in S : d = n - m
  OBVIOUS
<1>4. \A y \in S : m >= y
  <2> SUFFICES ASSUME NEW y \in S PROVE m >= y
    OBVIOUS
  <2>1. n - y \in Co
    OBVIOUS
  <2>2. n - m <= n - y
    BY <1>2, <1>3, <2>1
  <2> QED
    BY <2>2
<1> QED
  BY <1>4 DEF Max

(* SetToSeq lists each element of a finite set once.                       *)
LEMMA SequenceOfSet ==
    ASSUME NEW S, IsFiniteSet(S)
    PROVE  /\ SetToSeq(S) \in Seq(S)
           /\ \A x \in S : \E i \in 1..Len(SetToSeq(S)) : SetToSeq(S)[i] = x
           /\ \A i, j \in 1..Len(SetToSeq(S)) : SetToSeq(S)[i] = SetToSeq(S)[j] => i = j
<1> DEFINE n == Cardinality(S)
<1>1. n \in Nat /\ ExistsBijection(1..n, S)
  BY FS_CardinalityType
<1>2. \E f \in [1..n -> S] : IsInjective(f)
  BY <1>1 DEF ExistsBijection, Bijection, Injection, IsInjective
<1>3. SetToSeq(S) \in [1..n -> S] /\ IsInjective(SetToSeq(S))
  BY <1>2 DEF SetToSeq
<1>4. SetToSeq(S) \in Injection(1..n, S)
  BY <1>3 DEF Injection, IsInjective
<1>5. Cardinality(1..n) = n
  BY <1>1, FS_Interval
<1>6. SetToSeq(S) \in Surjection(1..n, S)
  BY <1>4, <1>5, FS_Injection
<1>7. SetToSeq(S) \in Seq(S) /\ Len(SetToSeq(S)) = n
  BY <1>1, <1>3
<1> QED
  BY <1>3, <1>6, <1>7 DEF Surjection, IsInjective

(* What a rebuild that is not in yet changes when it completes.            *)
LEMMA Completes ==
    ASSUME Types, WorkInv, NEW e \in Entries, work[e] \in {"queued", "reading"},
           NEW build \in [kind : BuildKinds, content : AnyContent], build.kind # "none",
           Complete(e, build)
    PROVE  /\ work' = [work EXCEPT ![e] = "done"]
           /\ result' = [result EXCEPT ![e] = build]
           /\ batch' = [batch EXCEPT !.remaining = @ - 1]
           /\ e \in Missing /\ Missing' = Missing \ {e}
           /\ batch'.remaining \in Nat
           /\ batch'.remaining = Cardinality(Missing')
<1>1. /\ work' = [work EXCEPT ![e] = "done"]
      /\ result' = [result EXCEPT ![e] = build]
      /\ batch' = [batch EXCEPT !.remaining = @ - 1]
  BY DEF Complete
<1>2. e \in Missing
  BY DEF WorkInv, Missing
<1>3. batch'.members = batch.members /\ batch'.remaining = batch.remaining - 1
  BY <1>1 DEF Types
<1>4. Missing' = Missing \ {e}
  BY <1>1, <1>3 DEF Missing, Types, TypeOK
<1>5. IsFiniteSet(Missing)
  <2>1. Missing \in SUBSET entries
    BY DEF Missing, WorkInv
  <2> QED
    BY <2>1, FS_Subset DEF WorkInv
<1>6. Cardinality(Missing \ {e}) = Cardinality(Missing) - 1 /\ IsFiniteSet(Missing \ {e})
  BY <1>2, <1>5, FS_RemoveElement
<1>7. Cardinality(Missing') = batch'.remaining
  BY <1>3, <1>4, <1>6 DEF WorkInv
<1>8. batch'.remaining \in Nat
  BY <1>4, <1>6, <1>7, FS_CardinalityType
<1> QED
  BY <1>1, <1>2, <1>4, <1>7, <1>8

(* A batch that counts zero has every result.                              *)
LEMMA AllAreIn ==
    ASSUME WorkInv, BatchIsIn
    PROVE  \A e \in batch.members : work[e] = "done"
<1>1. Missing \in SUBSET entries
  BY DEF Missing, WorkInv
<1>2. IsFiniteSet(Missing)
  BY <1>1, FS_Subset DEF WorkInv
<1>3. Missing = {}
  BY <1>2, FS_EmptySet DEF WorkInv, BatchIsIn
<1> QED
  BY <1>3 DEF Missing

(* FinishBatch appends a payload for each entry that was rebuilt.          *)
LEMMA Finishes ==
    ASSUME Types, WorkInv, FinishBatch
    PROVE  /\ staged' \in Seq(Staging)
           /\ Len(staged') >= Len(staged)
           /\ \A i \in 1..Len(staged) : staged'[i] = staged[i]
           /\ \A i \in Len(staged) + 1 .. Len(staged') :
                LET e == staged'[i].entry
                IN  /\ e \in batch.members /\ result[e].kind = "rebuilt"
                    /\ staged'[i].content = result[e].content
                    /\ \A j \in Len(staged) + 1 .. Len(staged') :
                          staged'[j].entry = e => j = i
           /\ \A e \in batch.members : result[e].kind = "rebuilt" =>
                \E i \in Len(staged) + 1 .. Len(staged') : staged'[i].entry = e
<1> DEFINE done == {e \in batch.members : result[e].kind = "rebuilt"}
           order == SetToSeq(done)
           new == StagedBy(batch.members)
<1>1. batch.members \subseteq Entries
  BY DEF Types
<1>2. IsFiniteSet(done)
  <2>1. done \in SUBSET entries
    BY DEF WorkInv
  <2> QED
    BY <2>1, FS_Subset DEF WorkInv
<1>3. /\ order \in Seq(done)
      /\ \A x \in done : \E i \in 1..Len(order) : order[i] = x
      /\ \A i, j \in 1..Len(order) : order[i] = order[j] => i = j
  <2> HIDE DEF done
  <2> QED
    BY <1>2, SequenceOfSet
<1>4. Len(order) \in Nat /\ \A i \in 1..Len(order) : order[i] \in done
  <2> HIDE DEF done, order
  <2> QED
    BY <1>3
<1>5. new = [i \in 1..Len(order) |-> [entry |-> order[i], content |-> result[order[i]].content]]
  BY DEF StagedBy
<1>6. new \in Seq(Staging) /\ Len(new) = Len(order)
  <2>1. \A i \in 1..Len(order) : [entry |-> order[i], content |-> result[order[i]].content] \in Staging
    BY <1>1, <1>4 DEF Staging, Types
  <2> HIDE DEF done, order, new
  <2> QED
    BY <1>4, <1>5, <2>1
<1>7. \A i \in 1..Len(new) : new[i].entry = order[i] /\ new[i].content = result[order[i]].content
  <2> HIDE DEF done, order, new
  <2> QED
    BY <1>5, <1>6
<1>8. staged' = staged \o new /\ staged \in Seq(Staging)
  BY DEF FinishBatch, Types
<1>9. /\ staged' \in Seq(Staging)
      /\ Len(staged') = Len(staged) + Len(new)
      /\ \A i \in 1..Len(staged) : staged'[i] = staged[i]
      /\ \A i \in 1..Len(new) : staged'[Len(staged) + i] = new[i]
  <2> HIDE DEF done, order, new
  <2>1. Len(staged) \in Nat /\ Len(new) \in Nat
    BY <1>6, <1>8
  <2>2. /\ staged \o new \in Seq(Staging)
        /\ Len(staged \o new) = Len(staged) + Len(new)
        /\ \A i \in 1 .. Len(staged) + Len(new) :
              (staged \o new)[i] = IF i <= Len(staged) THEN staged[i] ELSE new[i - Len(staged)]
    BY <1>6, <1>8, ConcatProperties, Zenon
  <2>3. \A i \in 1..Len(staged) : (staged \o new)[i] = staged[i]
    BY <2>1, <2>2
  <2>4. ASSUME NEW i \in 1..Len(new) PROVE (staged \o new)[Len(staged) + i] = new[i]
    <3>1. Len(staged) + i \in 1 .. Len(staged) + Len(new) /\ ~(Len(staged) + i <= Len(staged))
          /\ (Len(staged) + i) - Len(staged) = i
      BY <2>1
    <3> QED
      BY <2>2, <3>1
  <2> QED
    BY <1>8, <2>2, <2>3, <2>4
<1>10. \A i \in Len(staged) + 1 .. Len(staged') :
          /\ i - Len(staged) \in 1..Len(new)
          /\ staged'[i] = new[i - Len(staged)]
  <2> HIDE DEF done, order, new
  <2>1. Len(staged) \in Nat /\ Len(new) \in Nat
    BY <1>6, <1>8
  <2> QED
    BY <1>9, <2>1
<1>11. \A e \in done : \E i \in Len(staged) + 1 .. Len(staged') : staged'[i].entry = e
  <2> SUFFICES ASSUME NEW e \in done
               PROVE  \E i \in Len(staged) + 1 .. Len(staged') : staged'[i].entry = e
    OBVIOUS
  <2>1. PICK i \in 1..Len(order) : order[i] = e
    BY <1>3
  <2> HIDE DEF done, order, new
  <2>2. Len(staged) + i \in Len(staged) + 1 .. Len(staged')
    BY <1>6, <1>8, <1>9
  <2>3. staged'[Len(staged) + i].entry = e
    BY <1>6, <1>7, <1>9, <2>1
  <2> QED
    BY <2>2, <2>3
<1>12. \A i \in Len(staged) + 1 .. Len(staged') :
          /\ staged'[i].entry \in done
          /\ staged'[i].content = result[staged'[i].entry].content
          /\ \A j \in Len(staged) + 1 .. Len(staged') : staged'[j].entry = staged'[i].entry => j = i
  <2> HIDE DEF done, order, new
  <2> SUFFICES ASSUME NEW i \in Len(staged) + 1 .. Len(staged')
               PROVE  /\ staged'[i].entry \in done
                      /\ staged'[i].content = result[staged'[i].entry].content
                      /\ \A j \in Len(staged) + 1 .. Len(staged') : staged'[j].entry = staged'[i].entry => j = i
    OBVIOUS
  <2>1. \A k \in Len(staged) + 1 .. Len(staged') : k - Len(staged) \in 1..Len(order) /\ staged'[k].entry = order[k - Len(staged)] /\ staged'[k].content = result[order[k - Len(staged)]].content
    BY <1>6, <1>7, <1>10
  <2>2. ASSUME NEW j \in Len(staged) + 1 .. Len(staged'), staged'[j].entry = staged'[i].entry PROVE j = i
    <3>1. order[j - Len(staged)] = order[i - Len(staged)]
      BY <2>1, <2>2
    <3>2. j - Len(staged) = i - Len(staged)
      BY <1>3, <2>1, <3>1
    <3> QED
      BY <1>8, <3>2
  <2> QED
    BY <1>4, <2>1, <2>2
<1> QED
  <2> HIDE DEF order, new
  <2>1. Len(staged') >= Len(staged)
    <3>1. Len(staged) \in Nat /\ Len(new) \in Nat
      BY <1>6, <1>8
    <3> QED
      BY <3>1, <1>9
  <2> QED
    BY <1>9, <1>11, <1>12, <2>1

\* The request names f, or everything.
Requested(f) == request.asked /\ (request.all \/ f \in request.files)

(* StartBatch takes every entry whose files the request names, itself or   *)
(* through an include, and every stale one.                                *)
LEMMA Starts ==
    ASSUME Types, EntryInv, IsFiniteSet(entries), StartBatch
    PROVE  /\ request' = NoRequest /\ asked' = FALSE
           /\ entries' = {e \in entries : phase[e] = "live"} /\ IsFiniteSet(entries')
           /\ batch' \in [ members : SUBSET Entries, prints : {batch'.prints}, force : {batch'.force},
                           remaining : Nat, on : BOOLEAN ]
           /\ batch'.on /\ batch'.members \subseteq entries'
           /\ batch'.remaining = Cardinality(batch'.members)
           /\ \A e \in batch'.members : batch'.prints[e] = fingerprint[e]
           /\ stale' = stale \ batch'.members /\ stale \cap entries' \subseteq batch'.members
           /\ sourcesGeneration' = sourcesGeneration + Asked
           /\ work' = [e \in Entries |-> IF e \in batch'.members THEN "queued" ELSE "idle"]
           /\ \A e \in entries' : (\E f \in Inputs[e] : Requested(f)) => e \in batch'.members
<1> DEFINE kept == PruneLocked({})
           picked == Picked(kept)
           members == kept \cap (picked \cup stale)
           force == IF request.force THEN members \cap picked ELSE {}
           prints == [e \in members |-> fingerprint[e]]
<1>1. kept = {e \in entries : phase[e] = "live"}
  BY DEF PruneLocked, EntryInv, Begun
<1>2. entries \subseteq Entries /\ sourcesGeneration \in Nat
  BY DEF Types, TypeOK
<1>3. IsFiniteSet(kept) /\ IsFiniteSet(members)
  <2>1. kept \in SUBSET entries /\ members \in SUBSET entries
    BY <1>1
  <2> QED
    BY <2>1, FS_Subset
<1>4. /\ request' = NoRequest /\ asked' = FALSE
      /\ entries' = kept
      /\ stale' = stale \ members
      /\ sourcesGeneration' = IF request.asked THEN sourcesGeneration + 1 ELSE sourcesGeneration
      /\ batch' = [ on        |-> TRUE,
                    members   |-> members,
                    prints    |-> prints,
                    force     |-> force,
                    remaining |-> Cardinality(members) ]
      /\ work' = [e \in Entries |-> IF e \in members THEN "queued" ELSE "idle"]
  BY DEF StartBatch
<1>5. members \subseteq kept /\ members \subseteq Entries /\ stale \cap kept \subseteq members
  BY <1>1, <1>2
<1>6. \A e \in members : prints[e] = fingerprint[e]
  OBVIOUS
<1>7. ASSUME NEW e \in kept, NEW f \in Inputs[e], Requested(f) PROVE e \in members
  <2>1. e \in Entries
    BY <1>1, <1>2
  <2>2. request.asked /\ (request.all \/ f \in request.files)
    BY <1>7 DEF Requested
  <2>3. CASE f \in Sources[e]
    BY <2>1, <2>2, <2>3 DEF Picked
  <2>4. CASE f \notin Sources[e]
    <3>1. \A d \in kept : f \notin Sources[d]
      BY <1>1, <1>2, <2>1, <2>4, SourcesAssumption
    <3>2. request.all \/ ~(request.files \subseteq UNION {Sources[d] : d \in kept})
      BY <2>2, <3>1
    <3> QED
      BY <2>2, <3>2 DEF Picked
  <2> QED
    BY <2>3, <2>4
<1>8. Cardinality(members) \in Nat
  BY <1>3, FS_CardinalityType
<1> HIDE DEF kept, picked, members, force, prints
<1>9. /\ batch'.on = TRUE /\ batch'.members = members /\ batch'.prints = prints
      /\ batch'.force = force /\ batch'.remaining = Cardinality(members)
  BY <1>4
<1>10. batch' \in [ members : SUBSET Entries, prints : {batch'.prints}, force : {batch'.force},
                    remaining : Nat, on : BOOLEAN ]
  <2>1. [ on |-> TRUE, members |-> members, prints |-> prints, force |-> force,
          remaining |-> Cardinality(members) ]
        \in [ members : SUBSET Entries, prints : {prints}, force : {force}, remaining : Nat, on : BOOLEAN ]
    BY <1>5, <1>8
  <2> QED
    BY <1>4, <1>9, <2>1
<1>11. sourcesGeneration' = sourcesGeneration + Asked
  BY <1>2, <1>4 DEF Asked
<1> QED
  BY <1>1, <1>3, <1>4, <1>5, <1>6, <1>7, <1>9, <1>10, <1>11

-----------------------------------------------------------------------------
(* What a build reads are contents of its files.                           *)
LEMMA SeenIsContents ==
    ASSUME TypeOK, NEW e \in Entries
    PROVE  Seen(e) \in Contents(e) /\ Contents(e) \subseteq AnyContent
<1>1. Seen(e) \in Contents(e)
  BY SourcesAssumption DEF TypeOK, Seen, Contents
<1>2. Contents(e) \subseteq AnyContent
  BY DEF AnyContent
<1> QED
  BY <1>1, <1>2

(* What a rebuild may report has the type of a result.                     *)
LEMMA BuildIsTyped ==
    ASSUME Types, NEW e \in Entries
    PROVE  /\ Failure \in Builds(e) /\ BuildOf(e) \in Builds(e) /\ NoBuild \in Builds(e)
           /\ Failure.kind # "none" /\ BuildOf(e).kind # "none"
           /\ Builds(e) \subseteq [kind : BuildKinds, content : AnyContent]
<1>1. result[e].content \in Contents(e) \cup {Nothing}
  BY DEF Types, TypeOK, Builds
<1>2. Failure \in Builds(e) /\ NoBuild \in Builds(e) /\ Unchanged \in Builds(e)
  BY DEF Failure, NoBuild, Unchanged, Builds, BuildKinds
<1>3. Rebuilt(result[e].content) \in Builds(e)
  BY <1>1 DEF Rebuilt, Builds, BuildKinds
<1>4. Builds(e) \subseteq [kind : BuildKinds, content : AnyContent]
  <2>0. Nothing \in AnyContent
    BY DEF AnyContent
  <2>1. Contents(e) \cup {Nothing} \subseteq AnyContent
    BY <2>0, SeenIsContents DEF Types
  <2> HIDE DEF AnyContent, Contents
  <2> QED
    BY <2>1 DEF Builds
<1> QED
  BY <1>2, <1>3, <1>4 DEF BuildOf, Failure, Unchanged, Rebuilt

(* Service and its second look keep the variables in their types.          *)
LEMMA ServiceTypes ==
    ASSUME Base, Service
    PROVE  Types'
<1> USE DEF Base
<1>1. staged' \in Seq(Staging)
  <2>1. CASE BatchIsIn
    BY <2>1, Finishes DEF Service
  <2>2. CASE ~BatchIsIn
    BY <2>2 DEF Service, outVars, Types
  <2> QED
    BY <2>1, <2>2
<1>2. /\ result' = [e \in Entries |-> NoBuild] /\ late' = {}
      /\ UNCHANGED <<files, edits, dirty, phase, built, slot, fingerprint, retired, boundAt, frame, completed>>
  BY DEF Service, BatchGone, fileVars, gpuVars
<1>3. /\ result' \in [Entries -> [kind : BuildKinds, content : AnyContent]]
      /\ \A e \in Entries : result'[e] \in Builds(e)
  <2>1. \A e \in Entries : NoBuild \in Builds(e) /\ NoBuild \in [kind : BuildKinds, content : AnyContent]
    BY BuildIsTyped
  <2> QED
    BY <1>2, <2>1
<1>4. CASE StartBatch /\ owner' = "recheck"
  <2>1. /\ batch' \in [ members : SUBSET Entries, prints : {batch'.prints}, force : {batch'.force},
                        remaining : Nat, on : BOOLEAN ]
        /\ request' = NoRequest /\ asked' = FALSE /\ entries' \subseteq entries /\ stale' \subseteq stale
        /\ sourcesGeneration' = sourcesGeneration + Asked
        /\ work' \in [Entries -> {"idle", "queued", "reading", "done"}]
    BY <1>4, Starts DEF WorkInv
  <2>2. sourcesGeneration' \in 0..MaxEdits
    <3>1. Cardinality(dirty) \in Nat /\ Asked \in Nat /\ edits \in 0..MaxEdits /\ sourcesGeneration \in Nat
      BY FS_CardinalityType DEF AskInv, Types, TypeOK, Asked
    <3>2. sourcesGeneration + Asked <= edits
      BY <3>1 DEF AskInv
    <3> QED
      BY <2>1, <3>1, <3>2, BoundsAssumption
  <2>3. NoRequest \in [asked : BOOLEAN, all : BOOLEAN, force : BOOLEAN, files : SUBSET Files]
    BY DEF NoRequest
  <2>4. batch'.members \subseteq Entries /\ batch'.on \in BOOLEAN
    BY <2>1
  <2> QED
    BY <1>1, <1>2, <1>3, <1>4, <2>1, <2>2, <2>3, <2>4 DEF Types, TypeOK
<1>5. CASE NoneRunning /\ UNCHANGED <<entries, stale, request, asked, sourcesGeneration, owner>>
  <2>1. batch' = NoBatch /\ work' = [e \in Entries |-> "idle"]
    BY <1>5 DEF NoneRunning
  <2>2. batch' \in [ members : SUBSET Entries, prints : {batch'.prints}, force : {batch'.force},
                     remaining : Nat, on : BOOLEAN ]
    BY <2>1 DEF NoBatch
  <2>3. batch'.members \subseteq Entries /\ batch'.on \in BOOLEAN
    BY <2>2
  <2> QED
    BY <1>1, <1>2, <1>3, <1>5, <2>1, <2>2, <2>3 DEF Types, TypeOK
<1> QED
  BY <1>4, <1>5 DEF Service

LEMMA RecheckTypes ==
    ASSUME Base, ServiceRecheck
    PROVE  Types'
<1> USE DEF Base
<1>1. UNCHANGED <<files, edits, dirty, phase, built, entries, slot, fingerprint, stale, request, asked,
                  sourcesGeneration, retired, boundAt, frame, completed>> /\ owner' = "frame"
  BY DEF ServiceRecheck, fileVars, entryVars, askVars, gpuVars
<1>2. CASE BatchIsIn /\ FinishBatch /\ BatchGone /\ NoneRunning
  <2>1. staged' \in Seq(Staging)
    BY <1>2, Finishes
  <2>2. \A e \in Entries : NoBuild \in Builds(e) /\ NoBuild \in [kind : BuildKinds, content : AnyContent]
    BY BuildIsTyped
  <2>3. /\ result' = [e \in Entries |-> NoBuild] /\ late' = {}
        /\ batch' = NoBatch /\ work' = [e \in Entries |-> "idle"]
    BY <1>2 DEF BatchGone, NoneRunning
  <2>4. batch' \in [ members : SUBSET Entries, prints : {batch'.prints}, force : {batch'.force},
                     remaining : Nat, on : BOOLEAN ]
    BY <2>3 DEF NoBatch
  <2>5. batch'.members \subseteq Entries /\ batch'.on \in BOOLEAN
    BY <2>4
  <2> QED
    BY <1>1, <2>1, <2>2, <2>3, <2>4, <2>5 DEF Types, TypeOK
<1>3. CASE UNCHANGED <<batchVars, outVars>>
  BY <1>1, <1>3 DEF batchVars, outVars, Types, TypeOK
<1> QED
  BY <1>2, <1>3 DEF ServiceRecheck

\* One rebuild's result comes in.
OneDone(e, build) ==
    /\ work' = [work EXCEPT ![e] = "done"]
    /\ result' = [result EXCEPT ![e] = build]
    /\ batch' = [batch EXCEPT !.remaining = @ - 1]

(* A rebuild starts, its result comes in, or a late call changes nothing.  *)
LEMMA RebuildCases ==
    ASSUME Types, WorkInv, NEW e \in Entries, Rebuild(e)
    PROVE  /\ UNCHANGED <<fileVars, entryVars, askVars, owner, outVars, gpuVars>>
           /\ \/ StartRebuild(e)
              \/ /\ work[e] \in {"queued", "reading"} /\ late' \in {late, late \cup {e}}
                 /\ OneDone(e, Failure)
                 /\ batch'.remaining \in Nat /\ batch'.remaining = Cardinality(Missing')
              \/ /\ work[e] = "reading" /\ UNCHANGED late
                 /\ OneDone(e, BuildOf(e))
                 /\ batch'.remaining \in Nat /\ batch'.remaining = Cardinality(Missing')
              \/ late' = late \ {e} /\ UNCHANGED <<batch, work, result>>
<1>1. /\ Failure \in [kind : BuildKinds, content : AnyContent] /\ Failure.kind # "none"
      /\ BuildOf(e) \in [kind : BuildKinds, content : AnyContent] /\ BuildOf(e).kind # "none"
  BY BuildIsTyped
<1>2. CASE StartRebuild(e)
  BY <1>2 DEF StartRebuild
<1>3. CASE RebuildThrows(e)
  <2>1. work[e] \in {"queued", "reading"} /\ Complete(e, Failure)
    BY <1>3 DEF RebuildThrows
  <2> QED
    BY <1>1, <1>3, <2>1, Completes DEF RebuildThrows, OneDone
<1>4. CASE RebuildThrowsLate(e)
  <2>1. work[e] \in {"queued", "reading"} /\ Complete(e, Failure)
    BY <1>4 DEF RebuildThrowsLate
  <2> QED
    BY <1>1, <1>4, <2>1, Completes DEF RebuildThrowsLate, OneDone
<1>5. CASE RebuildDone(e)
  <2>1. PICK build \in {BuildOf(e), Failure} : Complete(e, build)
    BY <1>5 DEF RebuildDone
  <2>2. work[e] = "reading" /\ UNCHANGED late
    BY <1>5 DEF RebuildDone
  <2>3. OneDone(e, build) /\ batch'.remaining \in Nat /\ batch'.remaining = Cardinality(Missing')
    BY <1>1, <2>1, <2>2, Completes DEF OneDone
  <2>4. UNCHANGED <<fileVars, entryVars, askVars, owner, outVars, gpuVars>>
    BY <1>5 DEF RebuildDone
  <2> QED
    BY <2>1, <2>2, <2>3, <2>4
<1>6. CASE LateDone(e)
  <2>1. work[e] = "done"
    BY <1>6 DEF LateDone, WorkInv
  <2> QED
    BY <1>6, <2>1 DEF LateDone, Complete
<1> QED
  BY <1>2, <1>3, <1>4, <1>5, <1>6 DEF Rebuild

LEMMA RebuildTypes ==
    ASSUME Base, NEW e \in Entries, Rebuild(e)
    PROVE  Types'
<1> USE DEF Base
<1>1. UNCHANGED <<files, edits, dirty, phase, built, entries, slot, fingerprint, stale, request, asked,
                  sourcesGeneration, owner, staged, retired, boundAt, frame, completed>>
  BY RebuildCases DEF fileVars, entryVars, askVars, outVars, gpuVars
<1>2. Types' <=> /\ result' \in [Entries -> [kind : BuildKinds, content : AnyContent]]
                 /\ \A d \in Entries : result'[d] \in Builds(d)
                 /\ batch' \in [ members : SUBSET Entries, prints : {batch'.prints}, force : {batch'.force},
                                 remaining : Nat, on : BOOLEAN ]
                 /\ batch'.members \subseteq Entries /\ batch'.on \in BOOLEAN
                 /\ work' \in [Entries -> {"idle", "queued", "reading", "done"}]
                 /\ late' \subseteq batch'.members
  BY <1>1 DEF Types, TypeOK
<1>3. ASSUME NEW build \in Builds(e), OneDone(e, build), batch'.remaining \in Nat,
             work[e] # "idle", late' \in {late, late \cup {e}}
      PROVE  Types'
  <2>1. build \in [kind : BuildKinds, content : AnyContent]
    BY <1>3, BuildIsTyped
  <2>2. /\ result' \in [Entries -> [kind : BuildKinds, content : AnyContent]]
        /\ \A d \in Entries : result'[d] \in Builds(d)
        /\ work' \in [Entries -> {"idle", "queued", "reading", "done"}]
    BY <1>3, <2>1 DEF OneDone, Types, TypeOK
  <2>3. /\ batch'.members = batch.members /\ batch'.on = batch.on
        /\ batch' \in [ members : SUBSET Entries, prints : {batch'.prints}, force : {batch'.force},
                        remaining : Nat, on : BOOLEAN ]
    BY <1>3 DEF OneDone, Types
  <2>4. e \in batch.members
    BY <1>3 DEF WorkInv
  <2> QED
    BY <1>2, <1>3, <2>2, <2>3, <2>4 DEF Types, TypeOK
<1>4. CASE StartRebuild(e)
  <2>1. [kind |-> "none", content |-> Seen(e)] \in Builds(e)
    BY SeenIsContents DEF Types, Builds, BuildKinds
  <2>2. [kind |-> "none", content |-> Seen(e)] \in [kind : BuildKinds, content : AnyContent]
    BY <2>1, BuildIsTyped
  <2>3. UNCHANGED <<batch, late>>
    BY <1>4 DEF StartRebuild
  <2> QED
    BY <1>2, <1>4, <2>1, <2>2, <2>3 DEF StartRebuild, Types, TypeOK
<1>5. CASE late' = late \ {e} /\ UNCHANGED <<batch, work, result>>
  BY <1>2, <1>5 DEF Types, TypeOK
<1> QED
  BY <1>3, <1>4, <1>5, RebuildCases, BuildIsTyped

(* Retire lets go a prefix of the queue, all of it published at a frame    *)
(* that is complete.                                                       *)
LEMMA RetireFacts ==
    ASSUME Types, NEW p \in 0..MaxFrame, Retire(p)
    PROVE  /\ retired' \in Seq(Retirement)
           /\ \E first \in 2 .. Len(retired) + 1 :
                /\ Len(retired') = Len(retired) + 1 - first
                /\ \A i \in 1..Len(retired') : retired'[i] = retired[i + first - 1]
                /\ \A i \in 1 .. first - 1 : retired[i].point <= p
           /\ p <= completed
<1> DEFINE needed == {i \in 1..Len(retired) : retired[i].point > p}
           first == IF needed = {} THEN Len(retired) + 1 ELSE Min(needed)
<1>1. retired \in Seq(Retirement) /\ Len(retired) \in Nat
  BY DEF Types
<1>2. /\ first \in 1 .. Len(retired) + 1
      /\ \A i \in 1..Len(retired) : i < first => i \notin needed
  <2>1. CASE needed = {}
    BY <1>1, <2>1
  <2>2. CASE needed # {}
    <3>1. needed \in SUBSET Nat /\ needed \subseteq 1..Len(retired)
      BY <1>1
    <3> HIDE DEF needed
    <3>2. Min(needed) \in needed /\ \A y \in needed : Min(needed) <= y
      BY <2>2, <3>1, MinExists
    <3>3. first = Min(needed)
      BY <2>2
    <3>4. \A i \in needed : first <= i
      BY <3>2, <3>3
    <3>5. first \in 1..Len(retired)
      BY <3>1, <3>2, <3>3
    <3> HIDE DEF first
    <3>6. ASSUME NEW i \in 1..Len(retired), i < first, i \in needed PROVE FALSE
      BY <3>4, <3>5, <3>6
    <3> QED
      BY <1>1, <3>5, <3>6
  <2> QED
    BY <2>1, <2>2
<1>3. p <= completed /\ first > 1 /\ retired' = SubSeq(retired, first, Len(retired))
  BY DEF Retire
<1>4. \A i \in 1 .. first - 1 : retired[i].point <= p
  <2> SUFFICES ASSUME NEW i \in 1 .. first - 1 PROVE retired[i].point <= p
    OBVIOUS
  <2>1. i \in 1..Len(retired) /\ i < first
    <3> HIDE DEF first
    <3> QED
      BY <1>1, <1>2
  <2>2. ~(retired[i].point > p)
    BY <1>2, <2>1
  <2>3. retired[i] \in Retirement
    BY <1>1, <2>1, ElementOfSeq
  <2>3a. retired[i].point \in Nat
    BY <2>3 DEF Retirement
  <2> QED
    BY <2>2, <2>3a
<1> HIDE DEF needed, first
<1>5. first \in 2 .. Len(retired) + 1
  BY <1>1, <1>2, <1>3
<1>6. /\ retired' \in Seq(Retirement)
      /\ Len(retired') = Len(retired) + 1 - first
      /\ \A i \in 1..Len(retired') : retired'[i] = retired[i + first - 1]
  BY <1>1, <1>3, <1>5, SubSeqProperties
<1> QED
  BY <1>3, <1>4, <1>5, <1>6

(* What Publish queues waits for its retirement point, and was bound by no *)
(* frame or by the last frame that bound its slot.                         *)
LEMMA ReplacedIs ==
    ASSUME Types, NEW point \in Nat
    PROVE  /\ Replaced(point) \in Seq(Retirement)
           /\ \A n \in 1..Len(Replaced(point)) :
                /\ Replaced(point)[n].point = point
                /\ \E e \in Entries : Replaced(point)[n].bound \in {0, boundAt[e]}
<1> DEFINE left == {i \in 1..Len(staged) : phase[staged[i].entry] # "expired"}
           order == SetToSeq(left)
           Item(n) == LET e == staged[order[n]].entry
                      IN  [ point |-> point,
                            bound |-> IF \E j \in StagedFor(e) : j < order[n] THEN 0 ELSE boundAt[e] ]
<1>1. Len(staged) \in Nat /\ left \in SUBSET (1..Len(staged))
  BY DEF Types
<1>2. IsFiniteSet(left)
  <2>1. IsFiniteSet(1..Len(staged))
    BY <1>1, FS_Interval
  <2> QED
    BY <1>1, <2>1, FS_Subset
<1>3. order \in Seq(left)
  <2> HIDE DEF left
  <2> QED
    BY <1>2, SequenceOfSet
<1>4. Len(order) \in Nat /\ \A n \in 1..Len(order) : order[n] \in 1..Len(staged)
  <2> HIDE DEF left, order
  <2>1. Len(order) \in Nat /\ \A n \in 1..Len(order) : order[n] \in left
    BY <1>3, ElementOfSeq
  <2> QED
    BY <1>1, <2>1
<1>5. Replaced(point) = [n \in 1..Len(order) |-> Item(n)]
  BY DEF Replaced
<1>6. \A n \in 1..Len(order) : staged[order[n]].entry \in Entries
  <2> HIDE DEF order
  <2> SUFFICES ASSUME NEW n \in 1..Len(order) PROVE staged[order[n]].entry \in Entries
    OBVIOUS
  <2>1. order[n] \in 1..Len(staged)
    BY <1>4
  <2>2. staged[order[n]] \in Staging
    BY <2>1, ElementOfSeq DEF Types
  <2> QED
    BY <2>2 DEF Staging
<1>7. ASSUME NEW n \in 1..Len(order)
      PROVE  /\ Item(n).point = point
             /\ \E e \in Entries : Item(n).bound \in {0, boundAt[e]}
             /\ Item(n) \in Retirement
  <2>1. PICK e \in Entries : e = staged[order[n]].entry
    BY <1>6
  <2>2. Item(n) = [ point |-> point,
                    bound |-> IF \E j \in StagedFor(e) : j < order[n] THEN 0 ELSE boundAt[e] ]
    BY <2>1
  <2>3. boundAt[e] \in Nat
    BY DEF Types
  <2> HIDE DEF Item, order, left
  <2> QED
    BY <2>2, <2>3 DEF Retirement
<1> HIDE DEF order, left, Item
<1>8. Replaced(point) \in Seq(Retirement) /\ Len(Replaced(point)) = Len(order)
  BY <1>4, <1>5, <1>7
<1> QED
  BY <1>5, <1>7, <1>8

(* The last payload staged for an entry is what its slot will hold.        *)
LEMMA LastStagedIs ==
    ASSUME Types, NEW e \in Entries
    PROVE  /\ StagedFor(e) \subseteq 1..Len(staged)
           /\ StagedFor(e) = {} => LastStaged(e) = slot[e]
           /\ StagedFor(e) # {} =>
                \E i \in StagedFor(e) :
                   LastStaged(e) = staged[i].content /\ \A j \in StagedFor(e) : j <= i
<1>1. Len(staged) \in Nat /\ StagedFor(e) \in SUBSET (1..Len(staged))
  BY DEF Types, StagedFor
<1>2. CASE StagedFor(e) # {}
  <2>1. Max(StagedFor(e)) \in StagedFor(e) /\ \A y \in StagedFor(e) : Max(StagedFor(e)) >= y
    BY <1>1, <1>2, MaxExists
  <2>2. LastStaged(e) = staged[Max(StagedFor(e))].content
    BY <1>2 DEF LastStaged
  <2>3. \A j \in StagedFor(e) : j <= Max(StagedFor(e))
    BY <1>1, <2>1
  <2> QED
    BY <1>1, <1>2, <2>1, <2>2, <2>3
<1> QED
  BY <1>1, <1>2 DEF LastStaged

LEMMA LastIsTyped ==
    ASSUME Types, EntryInv, NEW e \in Entries
    PROVE  LastStaged(e) \in AnyContent /\ (StagedFor(e) # {} \/ Begun(e) => LastStaged(e) \in Contents(e))
<1>1. \A i \in StagedFor(e) : staged[i].entry = e /\ staged[i].content \in Contents(e) /\ staged[i].content \in AnyContent
  <2> SUFFICES ASSUME NEW i \in StagedFor(e)
               PROVE  staged[i].entry = e /\ staged[i].content \in Contents(e) /\ staged[i].content \in AnyContent
    OBVIOUS
  <2>1. i \in 1..Len(staged) /\ staged[i].entry = e
    BY DEF StagedFor
  <2>2. staged[i] \in Staging
    BY <2>1, ElementOfSeq DEF Types
  <2> QED
    BY <2>1, <2>2 DEF EntryInv, Staging
<1>2. slot[e] \in AnyContent /\ (Begun(e) => slot[e] \in Contents(e))
  BY DEF Types, EntryInv
<1> QED
  BY <1>1, <1>2, LastStagedIs

LEMMA PublishTypes ==
    ASSUME Base, Publish
    PROVE  Types'
<1> USE DEF Base
<1> DEFINE swapped == {e \in Entries : phase[e] # "expired" /\ StagedFor(e) # {}}
<1>1. /\ slot' = [e \in Entries |-> IF e \in swapped THEN LastStaged(e) ELSE slot[e]]
      /\ fingerprint' = [e \in Entries |-> IF e \in swapped THEN LastStaged(e) ELSE fingerprint[e]]
      /\ boundAt' = [e \in Entries |-> IF e \in swapped THEN 0 ELSE boundAt[e]]
      /\ retired' = retired \o Replaced(frame)
      /\ staged' = <<>>
      /\ UNCHANGED <<fileVars, phase, built, entries, stale, askVars, batchVars, owner, keeps, frame, completed>>
  BY DEF Publish
<1>2. \A e \in swapped : LastStaged(e) \in AnyContent /\ LastStaged(e) \in Contents(e)
  BY LastIsTyped
<1>3. /\ slot' \in [Entries -> AnyContent] /\ fingerprint' \in [Entries -> AnyContent]
      /\ \A d \in Entries : slot'[d] \in Contents(d) \cup {Nothing}
      /\ boundAt' \in [Entries -> Nat]
  <2> HIDE DEF swapped
  <2> QED
    BY <1>1, <1>2 DEF Types, TypeOK
<1>4. staged' \in Seq(Staging)
  BY <1>1
<1>5. retired' \in Seq(Retirement)
  <2>1. Replaced(frame) \in Seq(Retirement) /\ retired \in Seq(Retirement)
    BY ReplacedIs DEF Types, TypeOK
  <2> QED
    BY <1>1, <2>1, ConcatProperties
<1> HIDE DEF swapped
<1> QED
  BY <1>1, <1>3, <1>4, <1>5 DEF fileVars, askVars, batchVars, Types, TypeOK

(* Every step keeps the variables in their types.                          *)
LEMMA TypeStep ==
    ASSUME Base, [Next]_vars
    PROVE  Types'
<1> USE DEF Base
<1>0. Types /\ TypeOK /\ MaxEdits \in Nat /\ MaxFrame \in Nat
  BY BoundsAssumption DEF Types
<1>1. CASE UNCHANGED vars
  BY <1>1 DEF vars, fileVars, entryVars, askVars, batchVars, outVars, gpuVars, Types, TypeOK
<1>2. ASSUME NEW f \in Files, Edit(f) PROVE Types'
  <2>1. PICK c \in {edits + 1} \cup 0..edits : files' = [files EXCEPT ![f] = c]
    BY <1>2 DEF Edit
  <2>2. edits' = edits + 1 /\ edits < MaxEdits /\ dirty' = dirty \cup {f}
    BY <1>2 DEF Edit
  <2>3. edits' \in 0..MaxEdits /\ c \in 0..MaxEdits
    BY <1>0, <2>2 DEF TypeOK
  <2>4. files' \in [Files -> 0..MaxEdits] /\ dirty' \subseteq Files
    BY <2>1, <2>2, <2>3 DEF Types, TypeOK
  <2> QED
    BY <1>2, <2>3, <2>4 DEF Edit, entryVars, askVars, batchVars, outVars, gpuVars, Types, TypeOK
<1>3. ASSUME NEW f \in Files, ReportChange(f) PROVE Types'
  <2>1. request' \in [asked : BOOLEAN, all : BOOLEAN, force : BOOLEAN, files : SUBSET Files] /\ asked' = TRUE
    BY <1>3 DEF ReportChange, RequestReload, Types, TypeOK
  <2> QED
    BY <1>3, <2>1 DEF ReportChange, entryVars, batchVars, outVars, gpuVars, Types, TypeOK
<1>4. ASSUME ForceReload PROVE Types'
  <2>1. request' \in [asked : BOOLEAN, all : BOOLEAN, force : BOOLEAN, files : SUBSET Files] /\ asked' = TRUE
    BY <1>4 DEF ForceReload, RequestReload, Types, TypeOK
  <2>2. edits' \in 0..MaxEdits
    BY <1>0, <1>4 DEF ForceReload, TypeOK
  <2> QED
    BY <1>4, <2>1, <2>2 DEF ForceReload, entryVars, batchVars, outVars, gpuVars, Types, TypeOK
<1>5. ASSUME NEW e \in Entries, BeginBuild(e) PROVE Types'
  <2>1. Seen(e) \in Contents(e) /\ Seen(e) \in AnyContent
    BY <1>0, SeenIsContents
  <2>2. sourcesGeneration \in Nat
    BY <1>0 DEF TypeOK
  <2>3. /\ built' \in [Entries -> [content : AnyContent, for : Nat]]
        /\ \A d \in Entries : built'[d].content \in Contents(d) \cup {Nothing}
    BY <1>5, <2>1, <2>2 DEF BeginBuild, Types, TypeOK
  <2> QED
    BY <1>5, <2>3 DEF BeginBuild, fileVars, askVars, batchVars, outVars, gpuVars, Types, TypeOK
<1>6. ASSUME NEW e \in Entries, Register(e) PROVE Types'
  <2>1. /\ phase' = [phase EXCEPT ![e] = "live"]
        /\ slot' = [slot EXCEPT ![e] = built[e].content]
        /\ fingerprint' = [fingerprint EXCEPT ![e] = built[e].content]
        /\ built' = [built EXCEPT ![e] = [content |-> Nothing, for |-> 0]]
        /\ UNCHANGED <<fileVars, request, sourcesGeneration, batchVars, owner, outVars, gpuVars>>
    BY <1>6 DEF Register
  <2>2. /\ entries' \subseteq Entries /\ stale' \subseteq Entries /\ asked' \in BOOLEAN
    BY <1>0, <1>6 DEF Register, PruneLocked, TypeOK
  <2>3. Nothing \in AnyContent
    BY DEF AnyContent
  <2>4. /\ built' \in [Entries -> [content : AnyContent, for : Nat]]
        /\ \A d \in Entries : built'[d].content \in Contents(d) \cup {Nothing}
    BY <2>1, <2>3 DEF Types, TypeOK
  <2>5. /\ slot' \in [Entries -> AnyContent] /\ fingerprint' \in [Entries -> AnyContent]
        /\ \A d \in Entries : slot'[d] \in Contents(d) \cup {Nothing}
    BY <2>1 DEF Types, TypeOK
  <2> QED
    BY <2>1, <2>2, <2>4, <2>5 DEF fileVars, batchVars, outVars, gpuVars, Types, TypeOK
<1>7. ASSUME NEW e \in Entries, Release(e) PROVE Types'
  BY <1>7 DEF Release, fileVars, askVars, batchVars, outVars, gpuVars, Types, TypeOK
<1>8. ASSUME NEW e \in Entries, Rebuild(e) PROVE Types'
  BY <1>8, RebuildTypes
<1>9. ASSUME OwnerService PROVE Types'
  BY <1>9, ServiceTypes, RecheckTypes DEF OwnerService
<1>10. ASSUME SubmitRefused PROVE Types'
  <2>1. batch' = [batch EXCEPT !.remaining = 0] /\ UNCHANGED late
    BY <1>10 DEF SubmitRefused
  <2>2. /\ batch' \in [ members : SUBSET Entries, prints : {batch'.prints}, force : {batch'.force},
                        remaining : Nat, on : BOOLEAN ]
        /\ batch'.members = batch.members /\ batch'.on = batch.on
    BY <2>1 DEF Types
  <2>3. \A e \in Entries : Failure \in Builds(e) /\ Failure \in [kind : BuildKinds, content : AnyContent]
    BY BuildIsTyped
  <2>4. /\ result' \in [Entries -> [kind : BuildKinds, content : AnyContent]]
        /\ \A d \in Entries : result'[d] \in Builds(d)
        /\ work' \in [Entries -> {"idle", "queued", "reading", "done"}]
    BY <1>10, <2>3 DEF SubmitRefused, Types, TypeOK
  <2> QED
    BY <1>10, <2>1, <2>2, <2>4 DEF SubmitRefused, fileVars, entryVars, askVars, outVars, gpuVars, Types, TypeOK
<1>11. ASSUME Publish PROVE Types'
  BY <1>11, PublishTypes
<1>12. ASSUME DrainRetired PROVE Types'
  <2>1. staged' \in Seq(Staging) /\ retired' \in Seq(Retirement)
    BY <1>12 DEF DrainRetired
  <2> QED
    BY <1>12, <2>1 DEF DrainRetired, fileVars, entryVars, askVars, batchVars, outVars, gpuVars, Types, TypeOK
<1>13. ASSUME Record PROVE Types'
  <2>1. frame' \in 0..MaxFrame /\ completed' \in 0..frame'
    BY <1>0, <1>13 DEF Record, TypeOK
  <2>2. boundAt' \in [Entries -> Nat]
    BY <1>0, <1>13 DEF Record, Types, TypeOK
  <2> QED
    BY <1>13, <2>1, <2>2 DEF Record, fileVars, entryVars, askVars, batchVars, outVars, gpuVars, Types, TypeOK
<1>14. ASSUME CompleteFrame PROVE Types'
  <2>1. completed' \in 0..frame
    BY <1>0, <1>14 DEF CompleteFrame, TypeOK
  <2> QED
    BY <1>14, <2>1 DEF CompleteFrame, fileVars, entryVars, askVars, batchVars, outVars, gpuVars, Types, TypeOK
<1>15. ASSUME NEW p \in 0..MaxFrame, Retire(p) PROVE Types'
  BY <1>15, RetireFacts DEF Retire, fileVars, entryVars, askVars, batchVars, outVars, gpuVars, Types, TypeOK
<1> QED
  BY <1>1, <1>2, <1>3, <1>4, <1>5, <1>6, <1>7, <1>8, <1>9, <1>10, <1>11, <1>12, <1>13, <1>14, <1>15 DEF Next

-----------------------------------------------------------------------------
(* With no batch there is nothing to count.                                *)
LEMMA NoneIsRunning ==
    ASSUME TypeOK, NoneRunning, BatchGone, IsFiniteSet(entries'), owner' = "frame"
    PROVE  WorkInv'
<1>1. batch' = NoBatch /\ work' = [e \in Entries |-> "idle"] /\ late' = {}
  BY DEF NoneRunning, BatchGone
<1>2. batch'.members = {} /\ batch'.remaining = 0
  BY <1>1 DEF NoBatch
<1>3. Missing' = {}
  BY <1>2 DEF Missing
<1>4. batch'.remaining = Cardinality(Missing')
  BY <1>2, <1>3, FS_EmptySet
<1> QED
  BY <1>1, <1>2, <1>4 DEF WorkInv

(* Every step keeps the batch's count.                                     *)
LEMMA WorkStep ==
    ASSUME Base, [Next]_vars
    PROVE  WorkInv'
<1> USE DEF Base
<1>0. /\ batch.members \subseteq Entries /\ entries \subseteq Entries
      /\ DOMAIN work = Entries /\ DOMAIN result = Entries
  BY DEF Types, TypeOK
<1>1. ASSUME UNCHANGED <<batchVars, owner, entries>> PROVE WorkInv'
  BY <1>1 DEF batchVars, WorkInv, Missing
<1>2. ASSUME NEW e \in Entries, Register(e) PROVE WorkInv'
  <2>1. UNCHANGED <<batchVars, owner>>
    BY <1>2 DEF Register
  <2>2. PICK kept \in {entries, PruneLocked(batch.members)} : entries' = kept \cup {e}
    BY <1>2 DEF Register
  <2>3. kept \in SUBSET entries /\ batch.members \subseteq kept
    BY <2>2 DEF PruneLocked, WorkInv
  <2>4. IsFiniteSet(kept)
    BY <2>3, FS_Subset DEF WorkInv
  <2>5. IsFiniteSet(entries') /\ batch.members \subseteq entries'
    BY <2>2, <2>3, <2>4, FS_AddElement
  <2> QED
    BY <2>1, <2>5 DEF batchVars, WorkInv, Missing
<1>3. ASSUME NEW e \in Entries, Rebuild(e) PROVE WorkInv'
  <2>1. UNCHANGED <<entries, owner>>
    BY <1>3, RebuildCases DEF entryVars
  <2>2. ASSUME NEW build, build.kind # "none", OneDone(e, build), work[e] # "idle",
               late' \in {late, late \cup {e}}, batch'.remaining = Cardinality(Missing')
        PROVE  WorkInv'
    <3>1. batch'.members = batch.members /\ batch'.on = batch.on
      BY <2>2 DEF OneDone, Types
    <3>2. \A d \in Entries : work'[d] = (IF d = e THEN "done" ELSE work[d])
                             /\ result'[d] = (IF d = e THEN build ELSE result[d])
      BY <1>0, <2>2 DEF OneDone
    <3>3. late \subseteq Entries
      BY <1>0 DEF Types, TypeOK
    <3> QED
      BY <2>1, <2>2, <3>1, <3>2, <3>3 DEF WorkInv
  <2>3. CASE StartRebuild(e)
    <3>1. UNCHANGED <<batch, late>> /\ work[e] = "queued"
      BY <2>3 DEF StartRebuild
    <3>2. \A d \in Entries : work'[d] = (IF d = e THEN "reading" ELSE work[d])
                             /\ (d # e => result'[d] = result[d])
      BY <1>0, <2>3 DEF StartRebuild
    <3>3. Missing' = Missing
      BY <1>0, <3>1, <3>2 DEF Missing
    <3>4. \A d \in late : d \in Entries /\ d # e
      BY <1>0, <3>1 DEF WorkInv, Types, TypeOK
    <3> QED
      BY <2>1, <3>1, <3>2, <3>3, <3>4 DEF WorkInv
  <2>4. CASE late' = late \ {e} /\ UNCHANGED <<batch, work, result>>
    BY <2>1, <2>4 DEF WorkInv, Missing
  <2> QED
    BY <1>3, <2>2, <2>3, <2>4, RebuildCases, BuildIsTyped
<1>4. ASSUME Service PROVE WorkInv'
  <2>1. IsFiniteSet(entries)
    BY DEF WorkInv
  <2>2. CASE StartBatch /\ owner' = "recheck"
    <3>1. /\ IsFiniteSet(entries') /\ batch'.on /\ batch'.members \subseteq entries'
          /\ batch'.members \subseteq Entries
          /\ batch'.remaining = Cardinality(batch'.members)
          /\ work' = [e \in Entries |-> IF e \in batch'.members THEN "queued" ELSE "idle"]
      BY <2>1, <2>2, Starts
    <3>2. Missing' = batch'.members
      BY <3>1 DEF Missing
    <3>3. late' = {}
      BY <1>4 DEF Service, BatchGone
    <3> QED
      BY <3>1, <3>2, <3>3 DEF WorkInv
  <2>3. CASE NoneRunning /\ UNCHANGED <<entries, stale, request, asked, sourcesGeneration, owner>>
    <3>1. BatchGone /\ owner' = "frame"
      BY <1>4, <2>3 DEF Service
    <3> QED
      BY <2>1, <2>3, <3>1, NoneIsRunning DEF Types
  <2> QED
    BY <1>4, <2>2, <2>3 DEF Service
<1>5. ASSUME ServiceRecheck PROVE WorkInv'
  <2>1. IsFiniteSet(entries') /\ owner' = "frame" /\ UNCHANGED entries
    BY <1>5 DEF ServiceRecheck, entryVars, WorkInv
  <2>2. CASE BatchIsIn /\ FinishBatch /\ BatchGone /\ NoneRunning
    BY <2>1, <2>2, NoneIsRunning DEF Types
  <2>3. CASE UNCHANGED <<batchVars, outVars>>
    BY <2>1, <2>3 DEF batchVars, WorkInv, Missing
  <2> QED
    BY <1>5, <2>2, <2>3 DEF ServiceRecheck
<1>6. ASSUME SubmitRefused PROVE WorkInv'
  <2>1. /\ batch' = [batch EXCEPT !.remaining = 0] /\ UNCHANGED <<late, entries, owner>>
        /\ work' = [e \in Entries |-> IF e \in batch.members THEN "done" ELSE work[e]]
        /\ result' = [e \in Entries |-> IF e \in batch.members THEN Failure ELSE result[e]]
    BY <1>6 DEF SubmitRefused, entryVars
  <2>2. batch'.members = batch.members /\ batch'.on = batch.on /\ batch'.remaining = 0
    BY <2>1 DEF Types
  <2>3. Missing' = {}
    BY <1>0, <2>1, <2>2 DEF Missing
  <2>4. batch'.remaining = Cardinality(Missing')
    BY <2>2, <2>3, FS_EmptySet
  <2>5. late \subseteq Entries /\ Failure.kind # "none"
    BY <1>0 DEF Types, TypeOK, Failure
  <2> QED
    BY <1>0, <2>1, <2>2, <2>4, <2>5 DEF WorkInv
<1>7. ASSUME [Next]_vars,
             ~\E e \in Entries : Register(e) \/ Rebuild(e),
             ~Service, ~ServiceRecheck, ~SubmitRefused
      PROVE  UNCHANGED <<batchVars, owner, entries>>
  BY <1>7 DEF Next, OwnerService, vars, entryVars, Edit, ReportChange, BeginBuild, Release, ForceReload, Publish,
             DrainRetired, Record, CompleteFrame, Retire
<1> QED
  BY <1>1, <1>2, <1>3, <1>4, <1>5, <1>6, <1>7

-----------------------------------------------------------------------------
(* What is staged belongs to entries that were registered.                 *)
LEMMA StagedIsTyped ==
    ASSUME Types
    PROVE  \A i \in 1..Len(staged) : staged[i].entry \in Entries /\ staged[i].content \in AnyContent
<1> SUFFICES ASSUME NEW i \in 1..Len(staged)
             PROVE  staged[i].entry \in Entries /\ staged[i].content \in AnyContent
  OBVIOUS
<1>1. staged[i] \in Staging
  BY ElementOfSeq DEF Types
<1> QED
  BY <1>1 DEF Staging

LEMMA FinishedStaged ==
    ASSUME Base, BatchIsIn, FinishBatch
    PROVE  \A i \in 1..Len(staged') :
              /\ staged'[i].entry \in Entries
              /\ staged'[i].content \in Contents(staged'[i].entry)
              /\ Begun(staged'[i].entry)
<1> USE DEF Base
<1>1. Len(staged) \in Nat /\ Len(staged') \in Nat
  BY Finishes DEF Types
<1>2. \A i \in 1..Len(staged) : staged[i].entry \in Entries
  BY StagedIsTyped
<1>3. \A e \in batch.members : e \in Entries /\ Begun(e) /\ work[e] = "done"
  BY AllAreIn DEF Types, WorkInv, EntryInv
<1>4. \A e \in batch.members : result[e].kind = "rebuilt" => result[e].content \in Contents(e)
  BY <1>3 DEF EntryInv, Reading
<1>5. ASSUME NEW i \in 1..Len(staged')
      PROVE  /\ staged'[i].entry \in Entries
             /\ staged'[i].content \in Contents(staged'[i].entry)
             /\ Begun(staged'[i].entry)
  <2>1. CASE i \in 1..Len(staged)
    BY <1>2, <2>1, Finishes DEF EntryInv
  <2>2. CASE i \in Len(staged) + 1 .. Len(staged')
    BY <1>3, <1>4, <2>2, Finishes
  <2> QED
    BY <1>1, <2>1, <2>2
<1> QED
  BY <1>5

(* Every step keeps live entries registered and described.                 *)
LEMMA EntryStep ==
    ASSUME Base, [Next]_vars
    PROVE  EntryInv'
<1> USE DEF Base
<1>0. /\ Types /\ TypeOK
      /\ entries \subseteq Entries /\ stale \subseteq Entries
      /\ DOMAIN built = Entries /\ DOMAIN slot = Entries /\ DOMAIN fingerprint = Entries
      /\ DOMAIN phase = Entries /\ DOMAIN work = Entries /\ DOMAIN result = Entries
      /\ sourcesGeneration \in Nat /\ Len(staged) \in Nat
  BY DEF Types, TypeOK
<1>00. \A i \in 1..Len(staged) : staged[i].entry \in Entries
  BY StagedIsTyped
<1>1. ASSUME UNCHANGED <<entryVars, sourcesGeneration, work, result, staged>> PROVE EntryInv'
  BY <1>1 DEF entryVars, EntryInv, Begun, Reading, Contents
<1>2. ASSUME NEW e \in Entries, BeginBuild(e) PROVE EntryInv'
  <2>1. /\ \A d \in Entries : /\ phase'[d] = (IF d = e THEN "building" ELSE phase[d])
                              /\ built'[d] = (IF d = e THEN [content |-> Seen(e), for |-> sourcesGeneration] ELSE built[d])
        /\ UNCHANGED <<entries, slot, fingerprint, stale, sourcesGeneration, work, result, staged>>
        /\ phase[e] = "absent"
    BY <1>0, <1>2 DEF BeginBuild, askVars, batchVars, outVars
  <2>2. Seen(e) \in Contents(e)
    BY <1>0, SeenIsContents
  <2>3. \A d \in Entries : Begun(d) => d # e /\ Begun(d)'
    BY <2>1 DEF Begun
  <2>4. \A d \in Entries : Begun(d)' => Begun(d)
    BY <2>1 DEF Begun
  <2>5. \A d \in Entries : Reading(d)' <=> Reading(d)
    BY <2>1 DEF Reading
  <2>6. \A d \in Entries : Contents(d)' = Contents(d)
    BY DEF Contents
  <2> QED
    BY <1>0, <1>00, <2>1, <2>2, <2>3, <2>4, <2>5, <2>6 DEF EntryInv
<1>3. ASSUME NEW e \in Entries, Register(e) PROVE EntryInv'
  <2>1. /\ \A d \in Entries : /\ phase'[d] = (IF d = e THEN "live" ELSE phase[d])
                              /\ slot'[d] = (IF d = e THEN built[e].content ELSE slot[d])
                              /\ fingerprint'[d] = (IF d = e THEN built[e].content ELSE fingerprint[d])
                              /\ built'[d] = (IF d = e THEN [content |-> Nothing, for |-> 0] ELSE built[d])
        /\ UNCHANGED <<sourcesGeneration, work, result, staged>>
        /\ phase[e] = "building"
    BY <1>0, <1>3 DEF Register, askVars, batchVars, outVars
  <2>2. \A d \in Entries : Begun(d)' <=> d = e \/ Begun(d)
    BY <2>1 DEF Begun
  <2>3. \A d \in Entries : (Reading(d)' <=> Reading(d)) /\ Contents(d)' = Contents(d)
    BY <2>1 DEF Reading, Contents
  <2>4. entries' \subseteq entries \cup {e} /\ stale' \subseteq stale \cup {e}
        /\ e \in entries' /\ \A d \in entries : phase[d] = "live" => d \in entries'
    BY <1>3 DEF Register, PruneLocked
  <2> QED
    BY <1>0, <1>00, <2>1, <2>2, <2>3, <2>4 DEF EntryInv
<1>4. ASSUME NEW e \in Entries, Release(e) PROVE EntryInv'
  <2>1. /\ \A d \in Entries : phase'[d] = (IF d = e THEN "expired" ELSE phase[d])
        /\ UNCHANGED <<built, entries, slot, fingerprint, stale, sourcesGeneration, work, result, staged>>
        /\ phase[e] = "live"
    BY <1>0, <1>4 DEF Release, askVars, batchVars, outVars
  <2>2. \A d \in Entries : Begun(d)' <=> Begun(d)
    BY <2>1 DEF Begun
  <2>3. \A d \in Entries : (Reading(d)' <=> Reading(d)) /\ Contents(d)' = Contents(d)
    BY <2>1 DEF Reading, Contents
  <2> QED
    BY <1>0, <1>00, <2>1, <2>2, <2>3 DEF EntryInv
<1>5. ASSUME NEW e \in Entries, Rebuild(e) PROVE EntryInv'
  <2>1. UNCHANGED <<entryVars, sourcesGeneration, staged>>
    BY <1>5, RebuildCases DEF askVars, outVars
  <2>2. (\A d \in Entries : Reading(d)' => result'[d].content \in Contents(d)) => EntryInv'
    BY <2>1 DEF entryVars, EntryInv, Begun, Contents
  <2>3. CASE StartRebuild(e)
    <3>1. \A d \in Entries : /\ work'[d] = (IF d = e THEN "reading" ELSE work[d])
                             /\ result'[d] = (IF d = e THEN [kind |-> "none", content |-> Seen(e)] ELSE result[d])
      BY <1>0, <2>3 DEF StartRebuild
    <3>2. Seen(e) \in Contents(e)
      BY <1>0, SeenIsContents
    <3> QED
      BY <2>2, <3>1, <3>2 DEF EntryInv, Reading
  <2>4. ASSUME NEW build, OneDone(e, build), build.kind = "rebuilt" => build.content \in Contents(e)
        PROVE  EntryInv'
    <3>1. \A d \in Entries : /\ work'[d] = (IF d = e THEN "done" ELSE work[d])
                             /\ result'[d] = (IF d = e THEN build ELSE result[d])
      BY <1>0, <2>4 DEF OneDone
    <3> QED
      BY <2>2, <2>4, <3>1 DEF EntryInv, Reading
  <2>5. CASE UNCHANGED <<batch, work, result>>
    BY <1>1, <2>1, <2>5
  <2>6. work[e] = "reading" => (BuildOf(e).kind = "rebuilt" => BuildOf(e).content \in Contents(e))
    BY DEF EntryInv, Reading, BuildOf, Unchanged, Rebuilt
  <2>7. Failure.kind # "rebuilt"
    BY DEF Failure
  <2> QED
    BY <1>5, <2>3, <2>4, <2>5, <2>6, <2>7, RebuildCases
<1>6. ASSUME OwnerService PROVE EntryInv'
  <2>1. UNCHANGED <<phase, built, slot, fingerprint>>
    BY <1>6 DEF OwnerService, Service, ServiceRecheck, entryVars
  <2>2. \A d \in Entries : (Begun(d)' <=> Begun(d)) /\ Contents(d)' = Contents(d)
    BY <2>1 DEF Begun, Contents
  <2>3. \A i \in 1..Len(staged') : /\ Begun(staged'[i].entry)
                                   /\ staged'[i].entry \in Entries
                                   /\ staged'[i].content \in Contents(staged'[i].entry)
    <3>1. \/ BatchIsIn /\ FinishBatch
          \/ UNCHANGED staged
      BY <1>6 DEF OwnerService, Service, ServiceRecheck, outVars
    <3> QED
      BY <1>00, <3>1, FinishedStaged DEF EntryInv
  <2>4. /\ entries' \subseteq entries /\ stale' \subseteq stale
        /\ \A d \in entries : phase[d] = "live" => d \in entries'
        /\ sourcesGeneration' \in Nat /\ sourcesGeneration' >= sourcesGeneration
    <3>1. CASE StartBatch
      <4>1. IsFiniteSet(entries) /\ Asked \in Nat
        BY DEF WorkInv, Asked
      <4> QED
        BY <1>0, <3>1, <4>1, Starts
    <3>2. CASE UNCHANGED <<entries, stale, sourcesGeneration>>
      BY <1>0, <3>2
    <3> QED
      BY <1>6, <3>1, <3>2 DEF OwnerService, Service, ServiceRecheck, entryVars, askVars
  <2>5. \A d \in Entries : Reading(d)' => Reading(d) /\ result'[d] = result[d]
    <3>1. CASE StartBatch
      <4>1. IsFiniteSet(entries)
        BY DEF WorkInv
      <4>2. work' = [e \in Entries |-> IF e \in batch'.members THEN "queued" ELSE "idle"]
        BY <3>1, <4>1, Starts
      <4> QED
        BY <4>2 DEF Reading
    <3>2. CASE NoneRunning
      BY <3>2 DEF NoneRunning, Reading
    <3>3. CASE UNCHANGED batchVars
      BY <3>3 DEF batchVars, Reading
    <3> QED
      BY <1>6, <3>1, <3>2, <3>3 DEF OwnerService, Service, ServiceRecheck
  <2>6. \A d \in Entries : built[d].for \in Nat
    BY DEF Types
  <2> QED
    BY <1>0, <2>1, <2>2, <2>3, <2>4, <2>5, <2>6 DEF EntryInv
<1>7. ASSUME SubmitRefused PROVE EntryInv'
  <2>1. /\ UNCHANGED <<entryVars, sourcesGeneration, staged>>
        /\ \A d \in Entries : /\ work'[d] = (IF d \in batch.members THEN "done" ELSE work[d])
                              /\ result'[d] = (IF d \in batch.members THEN Failure ELSE result[d])
    BY <1>7 DEF SubmitRefused, askVars, outVars
  <2>2. \A d \in Entries : Reading(d)' => Reading(d) /\ result'[d] = result[d]
    BY <2>1 DEF Reading, Failure
  <2> QED
    BY <2>1, <2>2 DEF entryVars, EntryInv, Begun, Contents
<1>8. ASSUME Publish PROVE EntryInv'
  <2> DEFINE swapped == {e \in Entries : phase[e] # "expired" /\ StagedFor(e) # {}}
  <2>1. /\ slot' = [e \in Entries |-> IF e \in swapped THEN LastStaged(e) ELSE slot[e]]
        /\ fingerprint' = [e \in Entries |-> IF e \in swapped THEN LastStaged(e) ELSE fingerprint[e]]
        /\ staged' = <<>>
        /\ UNCHANGED <<phase, built, entries, stale, sourcesGeneration, work, result>>
    BY <1>8 DEF Publish, askVars, batchVars
  <2>2. \A e \in swapped : LastStaged(e) \in Contents(e)
    BY <1>0, LastIsTyped
  <2>3. \A d \in Entries : (Begun(d)' <=> Begun(d)) /\ (Reading(d)' <=> Reading(d)) /\ Contents(d)' = Contents(d)
    BY <2>1 DEF Begun, Reading, Contents
  <2>4. Len(staged') = 0
    BY <2>1
  <2> HIDE DEF swapped
  <2>5. \A d \in Entries : Begun(d) => fingerprint'[d] = slot'[d] /\ slot'[d] \in Contents(d)
    BY <2>1, <2>2 DEF EntryInv
  <2> QED
    BY <1>0, <2>1, <2>3, <2>4, <2>5 DEF EntryInv
<1>9. ASSUME DrainRetired PROVE EntryInv'
  <2>1. staged' = <<>> /\ UNCHANGED <<entryVars, sourcesGeneration, work, result>>
    BY <1>9 DEF DrainRetired, askVars, batchVars
  <2> QED
    BY <2>1 DEF entryVars, EntryInv, Begun, Reading, Contents
<1>10. ASSUME [Next]_vars,
              ~\E e \in Entries : BeginBuild(e) \/ Register(e) \/ Release(e) \/ Rebuild(e),
              ~OwnerService, ~SubmitRefused, ~Publish, ~DrainRetired
       PROVE  UNCHANGED <<entryVars, sourcesGeneration, work, result, staged>>
  BY <1>10 DEF Next, vars, askVars, batchVars, outVars, Edit, ReportChange, ForceReload, Record, CompleteFrame, Retire
<1> QED
  BY <1>1, <1>2, <1>3, <1>4, <1>5, <1>6, <1>7, <1>8, <1>9, <1>10

-----------------------------------------------------------------------------
(* Requests and stale registrations stay asked for; generations are        *)
(* counted against edits.                                                  *)
LEMMA AskStep ==
    ASSUME Base, [Next]_vars
    PROVE  AskInv'
<1> USE DEF Base
<1>0. /\ TypeOK /\ IsFiniteSet(dirty) /\ Cardinality(dirty) \in Nat /\ DOMAIN phase = Entries
      /\ sourcesGeneration \in Nat /\ edits \in Nat /\ Asked \in Nat /\ Asked <= 1
      /\ entries \subseteq Entries /\ stale \subseteq Entries
      /\ sourcesGeneration + Asked + Cardinality(dirty) <= edits
  BY BoundsAssumption, FS_CardinalityType DEF Types, TypeOK, AskInv, Asked
<1>1. ASSUME UNCHANGED <<stale, asked, request, dirty, sourcesGeneration, edits>>, Expired \subseteq Expired'
      PROVE  AskInv'
  BY <1>1 DEF AskInv, Asked
<1>2. ASSUME NEW f \in Files, Edit(f) PROVE AskInv'
  <2>1. /\ edits' = edits + 1 /\ dirty' = dirty \cup {f}
        /\ UNCHANGED <<phase, stale, asked, request, sourcesGeneration>>
    BY <1>2 DEF Edit, entryVars, askVars
  <2>2. IsFiniteSet(dirty') /\ Cardinality(dirty') \in Nat /\ Cardinality(dirty') <= Cardinality(dirty) + 1
    BY <1>0, <2>1, FS_AddElement, FS_CardinalityType
  <2> QED
    BY <1>0, <2>1, <2>2 DEF AskInv, Asked, Expired
<1>3. ASSUME NEW f \in Files, ReportChange(f) PROVE AskInv'
  <2>1. /\ f \in dirty /\ dirty' = dirty \ {f} /\ asked' = TRUE /\ request'.asked = TRUE
        /\ UNCHANGED <<edits, phase, stale, sourcesGeneration>>
    BY <1>3 DEF ReportChange, RequestReload, entryVars
  <2>2. IsFiniteSet(dirty') /\ Cardinality(dirty') = Cardinality(dirty) - 1
    BY <1>0, <2>1, FS_RemoveElement
  <2> QED
    BY <1>0, <2>1, <2>2 DEF AskInv, Asked, Expired
<1>4. ASSUME ForceReload PROVE AskInv'
  <2>1. /\ edits' = edits + 1 /\ asked' = TRUE /\ request'.asked = TRUE
        /\ UNCHANGED <<dirty, phase, stale, sourcesGeneration>>
    BY <1>4 DEF ForceReload, RequestReload, entryVars
  <2> QED
    BY <1>0, <2>1 DEF AskInv, Asked, Expired
<1>5. ASSUME NEW e \in Entries, Register(e) PROVE AskInv'
  <2>1. /\ UNCHANGED <<dirty, edits, request, sourcesGeneration>>
        /\ phase[e] = "building" /\ phase' = [phase EXCEPT ![e] = "live"]
    BY <1>5 DEF Register, fileVars
  <2>2. \/ stale' = stale /\ asked' = asked
        \/ asked' = TRUE
    BY <1>0, <1>5 DEF Register, TypeOK
  <2>3. Expired \subseteq Expired'
    BY <1>0, <2>1 DEF Expired
  <2> QED
    BY <1>0, <2>1, <2>2, <2>3 DEF AskInv, Asked
<1>6. ASSUME NEW e \in Entries, BeginBuild(e) \/ Release(e) PROVE AskInv'
  <2>1. UNCHANGED <<stale, asked, request, dirty, sourcesGeneration, edits>>
    BY <1>6 DEF BeginBuild, Release, fileVars, askVars
  <2>2. Expired \subseteq Expired'
    BY <1>0, <1>6 DEF BeginBuild, Release, Expired
  <2> QED
    BY <1>1, <2>1, <2>2
<1>7. ASSUME Service, StartBatch PROVE AskInv'
  <2>1. UNCHANGED <<dirty, edits, phase>>
    BY <1>7 DEF Service, fileVars
  <2>2. /\ request' = NoRequest /\ sourcesGeneration' = sourcesGeneration + Asked
        /\ entries' = {e \in entries : phase[e] = "live"}
        /\ stale' = stale \ batch'.members /\ stale \cap entries' \subseteq batch'.members
    BY <1>7, Starts DEF WorkInv
  <2>3. stale' \subseteq Expired'
    <3> SUFFICES ASSUME NEW e \in stale' PROVE e \in Expired'
      OBVIOUS
    <3>1. e \in stale /\ e \in Entries /\ e \notin entries'
      BY <1>0, <2>2
    <3>2. Begun(e) /\ phase[e] # "live"
      BY <2>2, <3>1 DEF EntryInv
    <3> QED
      BY <2>1, <3>1, <3>2 DEF Begun, Expired
  <2> QED
    BY <1>0, <2>1, <2>2, <2>3 DEF AskInv, Asked, NoRequest
<1>8. ASSUME [Next]_vars,
             ~\E f \in Files : Edit(f) \/ ReportChange(f),
             ~ForceReload,
             ~\E e \in Entries : Register(e) \/ BeginBuild(e) \/ Release(e),
             ~(Service /\ StartBatch)
      PROVE  UNCHANGED <<stale, asked, request, dirty, sourcesGeneration, edits>> /\ UNCHANGED phase
  <2>1. ASSUME NEW e \in Entries, Rebuild(e)
        PROVE  UNCHANGED <<stale, asked, request, dirty, sourcesGeneration, edits>> /\ UNCHANGED phase
    BY <2>1, RebuildCases DEF fileVars, entryVars, askVars
  <2> QED
    BY <1>8, <2>1 DEF Next, OwnerService, Service, ServiceRecheck, vars, fileVars, entryVars, askVars,
                      SubmitRefused, Publish, DrainRetired, Record, CompleteFrame, Retire
<1> QED
  BY <1>1, <1>2, <1>3, <1>4, <1>5, <1>6, <1>7, <1>8 DEF Expired

(* What is retired was bound by no frame after the one it waits for.       *)
LEMMA GpuStep ==
    ASSUME Base, [Next]_vars
    PROVE  GpuInv'
<1> USE DEF Base
<1>0. /\ frame \in Nat /\ boundAt \in [Entries -> Nat]
      /\ retired \in Seq(Retirement) /\ Len(retired) \in Nat
  BY BoundsAssumption DEF Types, TypeOK
<1>1. \A i \in 1..Len(retired) : retired[i].point \in Nat /\ retired[i].bound \in Nat
  <2> SUFFICES ASSUME NEW i \in 1..Len(retired) PROVE retired[i].point \in Nat /\ retired[i].bound \in Nat
    OBVIOUS
  <2>1. retired[i] \in Retirement
    BY <1>0, ElementOfSeq
  <2> QED
    BY <2>1 DEF Retirement
<1>2. ASSUME UNCHANGED <<boundAt, frame, retired>> PROVE GpuInv'
  BY <1>2 DEF GpuInv
<1>3. ASSUME Publish PROVE GpuInv'
  <2>1. /\ retired' = retired \o Replaced(frame) /\ frame' = frame
        /\ \A e \in Entries : boundAt'[e] \in {0, boundAt[e]}
    BY <1>3 DEF Publish
  <2>2. /\ Replaced(frame) \in Seq(Retirement)
        /\ \A n \in 1..Len(Replaced(frame)) :
              /\ Replaced(frame)[n].point = frame
              /\ \E e \in Entries : Replaced(frame)[n].bound \in {0, boundAt[e]}
    BY <1>0, ReplacedIs
  <2> DEFINE new == Replaced(frame)
  <2> HIDE DEF new
  <2>3. Len(new) \in Nat
    BY <2>2 DEF new
  <2>4. /\ Len(retired \o new) = Len(retired) + Len(new)
        /\ \A i \in 1 .. Len(retired) + Len(new) :
              (retired \o new)[i] = IF i <= Len(retired) THEN retired[i] ELSE new[i - Len(retired)]
    BY <1>0, <2>2, ConcatProperties, Zenon DEF new
  <2>5. \A i \in 1..Len(new) : new[i].point = frame /\ new[i].bound <= frame
    BY <1>0, <2>2 DEF new, GpuInv
  <2>6. ASSUME NEW i \in 1..Len(retired')
        PROVE  retired'[i].bound <= retired'[i].point /\ retired'[i].point <= frame
    <3>1. i \in 1 .. Len(retired) + Len(new) /\ retired' = retired \o new
      BY <2>1, <2>4 DEF new
    <3>2. CASE i <= Len(retired)
      <4>1. retired'[i] = retired[i] /\ i \in 1..Len(retired)
        BY <1>0, <2>3, <2>4, <3>1, <3>2
      <4> QED
        BY <4>1 DEF GpuInv
    <3>3. CASE ~(i <= Len(retired))
      <4>1. retired'[i] = new[i - Len(retired)] /\ i - Len(retired) \in 1..Len(new)
        BY <1>0, <2>3, <2>4, <3>1, <3>3
      <4> QED
        BY <1>0, <2>5, <4>1
    <3> QED
      BY <3>2, <3>3
  <2>7. \A e \in Entries : boundAt'[e] <= frame'
    BY <1>0, <2>1 DEF GpuInv
  <2> QED
    BY <2>1, <2>6, <2>7 DEF GpuInv
<1>4. ASSUME NEW p \in 0..MaxFrame, Retire(p) PROVE GpuInv'
  <2>1. UNCHANGED <<boundAt, frame>>
    BY <1>4 DEF Retire
  <2>2. PICK first \in 2 .. Len(retired) + 1 :
                /\ Len(retired') = Len(retired) + 1 - first
                /\ \A i \in 1..Len(retired') : retired'[i] = retired[i + first - 1]
    BY <1>4, RetireFacts
  <2>3. \A i \in 1..Len(retired') : i + first - 1 \in 1..Len(retired)
    BY <1>0, <2>2
  <2> QED
    BY <2>1, <2>2, <2>3 DEF GpuInv
<1>5. ASSUME DrainRetired PROVE GpuInv'
  BY <1>5 DEF DrainRetired, GpuInv
<1>6. ASSUME Record PROVE GpuInv'
  <2>1. frame' = frame + 1 /\ retired' = retired /\ \A e \in Entries : boundAt'[e] \in {frame + 1, boundAt[e]}
    BY <1>6 DEF Record
  <2> QED
    BY <1>0, <1>1, <2>1 DEF GpuInv
<1>7. ASSUME [Next]_vars, ~Publish, ~DrainRetired, ~Record, ~\E p \in 0..MaxFrame : Retire(p)
      PROVE  UNCHANGED <<boundAt, frame, retired>>
  <2>1. ASSUME NEW e \in Entries, Rebuild(e) PROVE UNCHANGED <<boundAt, frame, retired>>
    BY <2>1, RebuildCases DEF gpuVars
  <2> QED
    BY <1>7, <2>1 DEF Next, OwnerService, Service, ServiceRecheck, vars, gpuVars, Edit, ReportChange, ForceReload,
                      BeginBuild, Register, Release, SubmitRefused, CompleteFrame
<1> QED
  BY <1>2, <1>3, <1>4, <1>5, <1>6, <1>7

-----------------------------------------------------------------------------
(* The initial states satisfy the invariant.                               *)
LEMMA BaseInit == Init => Base
<1> SUFFICES ASSUME Init PROVE Base
  OBVIOUS
<1> USE DEF Init
<1>0. MaxEdits \in Nat /\ MaxFrame \in Nat /\ Nothing \in AnyContent
  BY BoundsAssumption DEF AnyContent
<1>1. TypeOK
  <2>1. NoRequest \in [asked : BOOLEAN, all : BOOLEAN, force : BOOLEAN, files : SUBSET Files]
    BY DEF NoRequest
  <2>2. batch.members \subseteq Entries /\ batch.on \in BOOLEAN /\ late \subseteq batch.members
    BY DEF NoBatch
  <2>3. \A e \in Entries : result[e] \in Builds(e)
    BY DEF Builds, BuildKinds, NoBuild
  <2>4. /\ files \in [Files -> 0..MaxEdits] /\ edits \in 0..MaxEdits /\ sourcesGeneration \in 0..MaxEdits
        /\ frame \in 0..MaxFrame /\ completed \in 0..frame
    BY <1>0
  <2>5. /\ phase \in [Entries -> {"absent", "building", "live", "expired"}]
        /\ work \in [Entries -> {"idle", "queued", "reading", "done"}]
        /\ \A e \in Entries : built[e].content = Nothing /\ slot[e] = Nothing
    OBVIOUS
  <2> QED
    BY <2>1, <2>2, <2>3, <2>4, <2>5 DEF TypeOK
<1>2. Types
  <2>1. batch \in [ members : SUBSET Entries, prints : {batch.prints}, force : {batch.force},
                    remaining : Nat, on : BOOLEAN ]
    BY DEF NoBatch
  <2>2. NoBuild \in [kind : BuildKinds, content : AnyContent]
    BY <1>0 DEF NoBuild, BuildKinds
  <2> HIDE DEF AnyContent
  <2> QED
    BY <1>0, <1>1, <2>1, <2>2 DEF Types
<1>3. WorkInv
  <2>1. Missing = {} /\ batch.remaining = 0 /\ batch.members = {}
    BY DEF NoBatch, Missing
  <2> QED
    BY <2>1, FS_EmptySet DEF WorkInv
<1>4. EntryInv
  BY DEF EntryInv, Begun, Reading
<1>5. AskInv
  BY FS_EmptySet DEF AskInv, Asked, NoRequest
<1>6. GpuInv
  BY DEF GpuInv
<1> QED
  BY <1>2, <1>3, <1>4, <1>5, <1>6 DEF Base

(* The types, the batch's count and what is registered, asked for and      *)
(* retired hold in every reachable state.                                  *)
THEOREM BaseHolds == Spec => []Base
<1>1. Init => Base
  BY BaseInit
<1>2. Base /\ [Next]_vars => Base'
  <2> SUFFICES ASSUME Base, [Next]_vars PROVE Base'
    OBVIOUS
  <2>1. Types' /\ WorkInv' /\ EntryInv' /\ AskInv' /\ GpuInv'
    BY TypeStep, WorkStep, EntryStep, AskStep, GpuStep
  <2> QED
    BY <2>1 DEF Base
<1> QED
  BY <1>1, <1>2, PTL DEF Spec

(* A live pipeline is never pruned and its fingerprint describes its slot, *)
(* a stale one is served by a Service to come, and remaining counts the    *)
(* rebuilds that are not in, whatever is called late or twice.             *)
THEOREM PipelineRegistryServed == Spec => []RegistrationsAreServed
<1>1. Base => RegistrationsAreServed
  <2> SUFFICES ASSUME Base PROVE RegistrationsAreServed
    OBVIOUS
  <2>1. \A e \in Entries : phase[e] = "live" => e \in entries /\ fingerprint[e] = slot[e]
    BY DEF Base, EntryInv, Begun
  <2> QED
    BY <2>1 DEF Base, Types, WorkInv, Missing, AskInv, RegistrationsAreServed
<1> QED
  BY <1>1, BaseHolds, PTL

(* Retire and DrainRetired let go no payload that a frame in flight bound. *)
THEOREM PipelineRegistryReleases == Spec => NoReleaseInFlight
<1> DEFINE Dropped == \A i \in 1..Len(retired) : i <= Len(retired) - Len(retired') => retired[i].bound <= completed
<1>1. Base /\ [Next]_vars => [Dropped]_vars
  <2> SUFFICES ASSUME Base, [Next]_vars PROVE Dropped
    OBVIOUS
  <2>0. /\ frame \in Nat /\ completed \in Nat /\ retired \in Seq(Retirement) /\ Len(retired) \in Nat
    BY BoundsAssumption DEF Base, Types, TypeOK
  <2>1. \A i \in 1..Len(retired) : /\ retired[i].point \in Nat /\ retired[i].bound \in Nat
                                   /\ retired[i].bound <= retired[i].point /\ retired[i].point <= frame
    <3> SUFFICES ASSUME NEW i \in 1..Len(retired)
                 PROVE  retired[i].point \in Nat /\ retired[i].bound \in Nat
                        /\ retired[i].bound <= retired[i].point /\ retired[i].point <= frame
      OBVIOUS
    <3>1. retired[i] \in Retirement
      BY <2>0, ElementOfSeq
    <3> QED
      BY <3>1 DEF Retirement, Base, GpuInv
  <2>2. ASSUME UNCHANGED retired PROVE Dropped
    BY <2>0, <2>2
  <2>3. ASSUME Publish PROVE Dropped
    <3>1. retired' = retired \o Replaced(frame) /\ Replaced(frame) \in Seq(Retirement)
      BY <2>0, <2>3, ReplacedIs DEF Publish, Base
    <3> DEFINE new == Replaced(frame)
    <3> HIDE DEF new
    <3>2. Len(retired') = Len(retired) + Len(new) /\ Len(new) \in Nat
      BY <2>0, <3>1, ConcatProperties DEF new
    <3> QED
      BY <2>0, <3>2
  <2>4. ASSUME NEW p \in 0..MaxFrame, Retire(p) PROVE Dropped
    <3>1. PICK first \in 2 .. Len(retired) + 1 :
                /\ Len(retired') = Len(retired) + 1 - first
                /\ \A i \in 1 .. first - 1 : retired[i].point <= p
      BY <2>4, RetireFacts DEF Base
    <3>2. p <= completed /\ p \in Nat
      BY <2>4 DEF Retire
    <3> QED
      BY <2>0, <2>1, <3>1, <3>2
  <2>5. ASSUME DrainRetired PROVE Dropped
    <3>1. completed = frame
      BY <2>5 DEF DrainRetired
    <3> QED
      BY <2>0, <2>1, <3>1
  <2>6. ASSUME ~Publish, ~DrainRetired, ~\E p \in 0..MaxFrame : Retire(p) PROVE UNCHANGED retired
    <3>1. ASSUME NEW e \in Entries, Rebuild(e) PROVE UNCHANGED retired
      BY <3>1, RebuildCases DEF gpuVars, Base
    <3> QED
      BY <2>6, <3>1 DEF Next, OwnerService, Service, ServiceRecheck, vars, gpuVars, Edit, ReportChange, ForceReload,
                        BeginBuild, Register, Release, SubmitRefused, CompleteFrame, Record
  <2> QED
    BY <2>2, <2>3, <2>4, <2>5, <2>6
<1> QED
  BY <1>1, BaseHolds, PTL DEF Spec, NoReleaseInFlight

-----------------------------------------------------------------------------
\* Contents d of e's files are as late as c.
Later(e, c, d) == \A f \in Inputs[e] : c[f] <= d[f]

\* What a batch compares a rebuild with is no younger than the slot, the slot no younger
\* than what is staged for it, that no younger than a rebuild's, that no younger than the
\* files.
OrderOf(e) ==
    /\ phase[e] = "building" => Later(e, built[e].content, Seen(e))
    /\ Begun(e) => Later(e, slot[e], LastStaged(e)) /\ Later(e, LastStaged(e), Seen(e))
    /\ e \in batch.members => batch.prints[e] \in Contents(e) /\ Later(e, batch.prints[e], slot[e])
    /\ Reading(e) => Later(e, LastStaged(e), result[e].content) /\ Later(e, result[e].content, Seen(e))

OrderInv ==
    /\ \A f \in Files : files[f] <= edits
    /\ \A e \in Entries : OrderOf(e)

(* Later is a partial order on the contents of an entry's files.           *)
LEMMA LaterFacts ==
    ASSUME NEW e \in Entries, NEW a \in Contents(e), NEW b \in Contents(e), NEW c \in Contents(e)
    PROVE  /\ Later(e, a, a)
           /\ Later(e, a, b) /\ Later(e, b, c) => Later(e, a, c)
           /\ Later(e, a, b) /\ Later(e, b, a) => a = b
<1>1. \A f \in Inputs[e] : a[f] \in Nat /\ b[f] \in Nat /\ c[f] \in Nat
  BY BoundsAssumption DEF Contents
<1>2. ASSUME Later(e, a, b), Later(e, b, a) PROVE a = b
  <2>1. \A f \in Inputs[e] : a[f] = b[f]
    BY <1>1, <1>2 DEF Later
  <2> QED
    BY <2>1 DEF Contents
<1> QED
  BY <1>1, <1>2 DEF Later

(* FinishBatch makes a rebuilt payload the one its slot will hold.         *)
LEMMA LastFinished ==
    ASSUME Types, WorkInv, FinishBatch, UNCHANGED slot, NEW e \in Entries
    PROVE  LastStaged(e)' = IF e \in batch.members /\ result[e].kind = "rebuilt"
                            THEN result[e].content ELSE LastStaged(e)
<1> DEFINE S == StagedFor(e)'
           n == Len(staged)
           m == Len(staged')
<1>1. n \in Nat /\ m \in Nat /\ n <= m
  BY Finishes DEF Types
<1>2. S \in SUBSET (1..m) /\ S = {i \in 1..m : staged'[i].entry = e}
  BY DEF StagedFor
<1>3. LastStaged(e)' = IF S = {} THEN slot[e] ELSE staged'[Max(S)].content
  BY DEF LastStaged
<1>4. S # {} => Max(S) \in S /\ \A y \in S : Max(S) >= y
  <2> HIDE DEF S, n, m
  <2> QED
    BY <1>1, <1>2, MaxExists
<1>5. CASE e \in batch.members /\ result[e].kind = "rebuilt"
  <2>1. PICK i \in n + 1 .. m : staged'[i].entry = e
    BY <1>5, Finishes
  <2>2. i \in S /\ S # {}
    BY <1>1, <1>2, <2>1
  <2>3. Max(S) \in n + 1 .. m
    <3> HIDE DEF S, n, m
    <3>1. Max(S) >= i /\ Max(S) \in 1..m
      BY <1>2, <1>4, <2>2
    <3> QED
      BY <1>1, <2>1, <3>1
  <2>4. staged'[Max(S)].entry = e
    BY <1>2, <1>4, <2>2
  <2>5. staged'[Max(S)].content = result[e].content
    BY <2>3, <2>4, Finishes
  <2> QED
    BY <1>3, <1>5, <2>2, <2>5
<1>6. CASE ~(e \in batch.members /\ result[e].kind = "rebuilt")
  <2>1. \A i \in n + 1 .. m : staged'[i].entry # e
    BY <1>6, Finishes
  <2>2. \A i \in 1..n : staged'[i] = staged[i]
    BY Finishes
  <2>3. S = StagedFor(e)
    <3>1. StagedFor(e) = {i \in 1..n : staged[i].entry = e}
      BY DEF StagedFor
    <3> HIDE DEF S, n, m
    <3> QED
      BY <1>1, <1>2, <2>1, <2>2, <3>1
  <2>4. S # {} => staged'[Max(S)] = staged[Max(S)]
    <3>1. StagedFor(e) \subseteq 1..n
      BY DEF StagedFor
    <3> QED
      BY <1>4, <2>2, <2>3, <3>1
  <2> QED
    BY <1>3, <1>6, <2>3, <2>4 DEF LastStaged
<1> QED
  BY <1>5, <1>6

(* Every step keeps that order, when no edit brings old contents back.     *)
LEMMA OrderStep ==
    ASSUME ~Reverts, Base, OrderInv, [Next]_vars
    PROVE  OrderInv'
<1> USE DEF Base
<1>0. /\ TypeOK /\ Types /\ MaxEdits \in Nat /\ edits \in Nat
      /\ files \in [Files -> 0..MaxEdits]
      /\ DOMAIN phase = Entries /\ DOMAIN built = Entries /\ DOMAIN slot = Entries
      /\ DOMAIN work = Entries /\ DOMAIN result = Entries
      /\ \A e \in Entries : Inputs[e] \subseteq Files
      /\ \A e \in Entries : e \in batch.members => Begun(e)
      /\ \A e \in Entries : Reading(e) => e \in batch.members
  BY BoundsAssumption, SourcesAssumption DEF Types, TypeOK, WorkInv, EntryInv, Reading
<1>00. \A e \in Entries : /\ Seen(e) \in Contents(e)
                          /\ Begun(e) => slot[e] \in Contents(e) /\ LastStaged(e) \in Contents(e)
                          /\ phase[e] = "building" => built[e].content \in Contents(e)
                          /\ Reading(e) => result[e].content \in Contents(e)
  BY <1>0, SeenIsContents, LastIsTyped DEF EntryInv
<1>1. ASSUME UNCHANGED <<files, edits, batch, work, result, slot, staged, built>>,
             \A e \in Entries : (phase'[e] = "building" => phase[e] = "building") /\ (Begun(e)' => Begun(e))
      PROVE  OrderInv'
  <2>1. \A e \in Entries : /\ Seen(e)' = Seen(e) /\ LastStaged(e)' = LastStaged(e)
                           /\ Contents(e)' = Contents(e) /\ (Reading(e)' <=> Reading(e))
    BY <1>1 DEF Seen, LastStaged, StagedFor, Contents, Reading
  <2> QED
    BY <1>1, <2>1 DEF OrderInv, OrderOf, Later
<1>2. ASSUME NEW g \in Files, Edit(g) PROVE OrderInv'
  <2>1. /\ files' = [files EXCEPT ![g] = edits + 1] /\ edits' = edits + 1
        /\ UNCHANGED <<phase, built, slot, batch, work, result, staged>>
    BY <1>2 DEF Edit, entryVars, batchVars, outVars
  <2>2. \A f \in Files : files[f] \in Nat /\ files[f] <= files'[f] /\ files'[f] <= edits'
    BY <1>0, <2>1 DEF OrderInv
  <2>3. ASSUME NEW e \in Entries, NEW c \in Contents(e), Later(e, c, Seen(e)) PROVE Later(e, c, Seen(e)')
    <3>1. \A f \in Inputs[e] : Seen(e)[f] = files[f] /\ Seen(e)'[f] = files'[f]
      BY DEF Seen
    <3>2. \A f \in Inputs[e] : c[f] \in Nat
      BY <1>0 DEF Contents
    <3>3. \A f \in Inputs[e] : c[f] <= files[f]
      BY <2>3, <3>1 DEF Later
    <3>4. \A f \in Inputs[e] : f \in Files
      BY <1>0
    <3>5. \A f \in Inputs[e] : c[f] <= files'[f]
      <4> SUFFICES ASSUME NEW f \in Inputs[e] PROVE c[f] <= files'[f]
        OBVIOUS
      <4>1. files[f] \in Nat /\ files'[f] \in Nat /\ files[f] <= files'[f]
        BY <1>0, <2>1, <2>2, <3>4
      <4> QED
        BY <3>2, <3>3, <4>1
    <3> QED
      BY <3>1, <3>5 DEF Later
  <2>4. \A e \in Entries : /\ LastStaged(e)' = LastStaged(e) /\ Contents(e)' = Contents(e)
                           /\ (Reading(e)' <=> Reading(e)) /\ (Begun(e)' <=> Begun(e))
    BY <2>1 DEF LastStaged, StagedFor, Contents, Reading, Begun
  <2>5. \A e \in Entries : OrderOf(e)'
    <3> SUFFICES ASSUME NEW e \in Entries PROVE OrderOf(e)'
      OBVIOUS
    <3>1. \A c, d : Later(e, c, d)' <=> Later(e, c, d)
      BY DEF Later
    <3>2. OrderOf(e)
      BY DEF OrderInv
    <3> QED
      BY <1>00, <2>1, <2>3, <2>4, <3>1, <3>2 DEF OrderOf, Later
  <2> QED
    BY <2>2, <2>5 DEF OrderInv
<1>3. ASSUME NEW e \in Entries, BeginBuild(e) PROVE OrderInv'
  <2>1. /\ UNCHANGED <<files, edits, batch, work, result, slot, staged>>
        /\ built' = [built EXCEPT ![e] = [content |-> Seen(e), for |-> sourcesGeneration]]
        /\ phase[e] = "absent" /\ phase' = [phase EXCEPT ![e] = "building"]
    BY <1>3 DEF BeginBuild, fileVars, batchVars, outVars
  <2>2. \A d \in Entries : /\ Seen(d)' = Seen(d) /\ LastStaged(d)' = LastStaged(d)
                           /\ Contents(d)' = Contents(d) /\ (Reading(d)' <=> Reading(d))
    BY <2>1 DEF Seen, LastStaged, StagedFor, Contents, Reading
  <2>3. Later(e, Seen(e), Seen(e))
    BY <1>00, LaterFacts
  <2>4. \A d \in Entries : Begun(d)' => Begun(d)
    BY <1>0, <2>1 DEF Begun
  <2>5. built'[e].content = Seen(e)
    BY <1>0, <2>1
  <2>6. \A d \in Entries \ {e} : built'[d] = built[d] /\ phase'[d] = phase[d]
    BY <1>0, <2>1
  <2> QED
    BY <2>1, <2>2, <2>3, <2>4, <2>5, <2>6 DEF OrderInv, OrderOf, Later
<1>4. ASSUME NEW e \in Entries, Register(e) PROVE OrderInv'
  <2>1. /\ UNCHANGED <<files, edits, batch, work, result, staged>>
        /\ slot' = [slot EXCEPT ![e] = built[e].content]
        /\ built' = [built EXCEPT ![e] = [content |-> Nothing, for |-> 0]]
        /\ phase[e] = "building" /\ phase' = [phase EXCEPT ![e] = "live"]
    BY <1>4 DEF Register, fileVars, batchVars, outVars
  <2>2. \A d \in Entries : /\ Seen(d)' = Seen(d) /\ Contents(d)' = Contents(d)
                           /\ (Reading(d)' <=> Reading(d)) /\ StagedFor(d)' = StagedFor(d)
    BY <2>1 DEF Seen, StagedFor, Contents, Reading
  <2>3. ~Begun(e)
    BY <2>1 DEF Begun
  <2>4. StagedFor(e) = {}
    BY <2>3 DEF StagedFor, EntryInv
  <2>5. slot'[e] = built[e].content /\ LastStaged(e)' = built[e].content
    BY <1>0, <2>1, <2>2, <2>4 DEF LastStaged
  <2>6. OrderOf(e)'
    <3>1. Later(e, built[e].content, built[e].content) /\ Later(e, built[e].content, Seen(e))
      BY <1>00, <2>1, LaterFacts DEF OrderInv, OrderOf
    <3>2. phase'[e] = "live" /\ e \notin batch'.members /\ ~Reading(e)'
      BY <1>0, <2>1, <2>2, <2>3
    <3> QED
      BY <2>2, <2>5, <3>1, <3>2 DEF OrderOf, Later
  <2>7. ASSUME NEW d \in Entries \ {e} PROVE OrderOf(d)'
    <3>1. /\ slot'[d] = slot[d] /\ built'[d] = built[d] /\ phase'[d] = phase[d]
          /\ LastStaged(d)' = LastStaged(d) /\ (Begun(d)' <=> Begun(d))
      BY <1>0, <2>1, <2>2 DEF LastStaged, Begun
    <3>2. OrderOf(d)
      BY DEF OrderInv
    <3> QED
      BY <2>1, <2>2, <3>1, <3>2 DEF OrderOf, Later
  <2>8. \A d \in Entries : OrderOf(d)'
    BY <2>6, <2>7
  <2> QED
    BY <2>1, <2>8 DEF OrderInv
<1>5. ASSUME NEW e \in Entries, Release(e) PROVE OrderInv'
  BY <1>0, <1>1, <1>5 DEF Release, fileVars, batchVars, outVars, Begun
<1>6. ASSUME UNCHANGED <<files, edits, phase, built, slot, staged>>,
             batch'.members = batch.members, batch'.prints = batch.prints,
             \A e \in Entries : Reading(e)' =>
                \/ Reading(e) /\ result'[e].content = result[e].content
                \/ Begun(e) /\ result'[e].content = Seen(e)
      PROVE  OrderInv'
  <2>1. \A e \in Entries : /\ Seen(e)' = Seen(e) /\ LastStaged(e)' = LastStaged(e)
                           /\ Contents(e)' = Contents(e) /\ (Begun(e)' <=> Begun(e))
    BY <1>6 DEF Seen, LastStaged, StagedFor, Contents, Begun
  <2>2. \A e \in Entries : Later(e, Seen(e), Seen(e))
    BY <1>00, LaterFacts
  <2> QED
    BY <1>6, <2>1, <2>2 DEF OrderInv, OrderOf, Later
<1>7. ASSUME NEW e \in Entries, Rebuild(e) PROVE OrderInv'
  <2>1. UNCHANGED <<files, edits, phase, built, slot, staged>>
    BY <1>7, RebuildCases DEF fileVars, entryVars, outVars
  <2>2. CASE StartRebuild(e)
    <3>1. /\ batch' = batch /\ work[e] = "queued"
          /\ \A d \in Entries : /\ work'[d] = (IF d = e THEN "reading" ELSE work[d])
                                /\ result'[d] = (IF d = e THEN [kind |-> "none", content |-> Seen(e)] ELSE result[d])
      BY <1>0, <2>2 DEF StartRebuild
    <3>2. Begun(e)
      BY <1>0, <3>1 DEF WorkInv
    <3>3. \A d \in Entries : Reading(d)' =>
                \/ Reading(d) /\ result'[d].content = result[d].content
                \/ Begun(d) /\ result'[d].content = Seen(d)
      BY <3>1, <3>2 DEF Reading
    <3> QED
      BY <1>6, <2>1, <3>1, <3>3
  <2>3. ASSUME NEW build, OneDone(e, build),
               build.kind = "rebuilt" => Reading(e) /\ build.content = result[e].content
        PROVE  OrderInv'
    <3>1. \A d \in Entries : /\ work'[d] = (IF d = e THEN "done" ELSE work[d])
                             /\ result'[d] = (IF d = e THEN build ELSE result[d])
      BY <1>0, <2>3 DEF OneDone
    <3>2. \A d \in Entries : Reading(d)' => Reading(d) /\ result'[d].content = result[d].content
      BY <2>3, <3>1 DEF Reading
    <3>3. batch'.members = batch.members /\ batch'.prints = batch.prints
      BY <2>3 DEF OneDone, Types
    <3> QED
      BY <1>6, <2>1, <3>2, <3>3
  <2>4. CASE UNCHANGED <<batch, work, result>>
    BY <1>6, <2>1, <2>4 DEF Reading
  <2>5. work[e] = "reading" => (BuildOf(e).kind = "rebuilt" => Reading(e) /\ BuildOf(e).content = result[e].content)
    BY DEF Reading, BuildOf, Unchanged, Rebuilt
  <2>6. Failure.kind # "rebuilt"
    BY DEF Failure
  <2> QED
    BY <1>7, <2>2, <2>3, <2>4, <2>5, <2>6, RebuildCases
<1>8. ASSUME SubmitRefused PROVE OrderInv'
  <2>1. /\ UNCHANGED <<files, edits, phase, built, slot, staged>>
        /\ batch' = [batch EXCEPT !.remaining = 0]
        /\ \A d \in Entries : /\ work'[d] = (IF d \in batch.members THEN "done" ELSE work[d])
                              /\ result'[d] = (IF d \in batch.members THEN Failure ELSE result[d])
    BY <1>8 DEF SubmitRefused, fileVars, entryVars, outVars
  <2>2. \A d \in Entries : Reading(d)' => Reading(d) /\ result'[d] = result[d]
    BY <2>1 DEF Reading, Failure
  <2>3. batch'.members = batch.members /\ batch'.prints = batch.prints
    BY <2>1 DEF Types
  <2> QED
    BY <1>6, <2>1, <2>2, <2>3
<1>9. ASSUME OwnerService PROVE OrderInv'
  <2>1. UNCHANGED <<files, edits, phase, built, slot, fingerprint>>
    BY <1>9 DEF OwnerService, Service, ServiceRecheck, fileVars, entryVars
  <2>2. \A e \in Entries : /\ Seen(e)' = Seen(e) /\ Contents(e)' = Contents(e) /\ (Begun(e)' <=> Begun(e))
    BY <2>1 DEF Seen, Contents, Begun
  <2>3. \A e \in Entries : \/ LastStaged(e)' = LastStaged(e)
                           \/ Reading(e) /\ LastStaged(e)' = result[e].content
    <3>1. CASE UNCHANGED staged
      BY <2>1, <3>1 DEF LastStaged, StagedFor
    <3>2. CASE BatchIsIn /\ FinishBatch
      BY <2>1, <3>2, LastFinished, AllAreIn DEF Reading
    <3> QED
      BY <1>9, <3>1, <3>2 DEF OwnerService, Service, ServiceRecheck, outVars
  <2>4. \/ UNCHANGED <<batch, work, result, staged>>
        \/ /\ \A e \in Entries : ~Reading(e)'
           /\ \A e \in Entries : e \in batch'.members => batch'.prints[e] = fingerprint[e] /\ Begun(e)
    <3>1. CASE StartBatch
      <4>1. IsFiniteSet(entries)
        BY DEF WorkInv
      <4>2. /\ work' = [e \in Entries |-> IF e \in batch'.members THEN "queued" ELSE "idle"]
            /\ \A e \in batch'.members : batch'.prints[e] = fingerprint[e] /\ phase[e] = "live"
        BY <3>1, <4>1, Starts
      <4> QED
        BY <4>2 DEF Reading, Begun
    <3>2. CASE NoneRunning
      BY <3>2 DEF NoneRunning, NoBatch, Reading
    <3> QED
      BY <1>9, <3>1, <3>2 DEF OwnerService, Service, ServiceRecheck, batchVars, outVars
  <2>5. ASSUME NEW e \in Entries PROVE OrderOf(e)'
    <3>1. OrderOf(e)
      BY DEF OrderInv
    <3>2. CASE UNCHANGED <<batch, work, result, staged>>
      <4>1. LastStaged(e)' = LastStaged(e) /\ (Reading(e)' <=> Reading(e))
        BY <2>1, <3>2 DEF LastStaged, StagedFor, Reading
      <4> QED
        BY <2>1, <2>2, <3>1, <3>2, <4>1 DEF OrderOf, Later
    <3>3. CASE /\ ~Reading(e)'
               /\ e \in batch'.members => batch'.prints[e] = fingerprint[e] /\ Begun(e)
      <4>1. Begun(e) => Later(e, slot[e], LastStaged(e)') /\ Later(e, LastStaged(e)', Seen(e))
        <5>1. CASE LastStaged(e)' = LastStaged(e)
          BY <3>1, <5>1 DEF OrderOf
        <5>2. CASE Reading(e) /\ LastStaged(e)' = result[e].content
          <6>1. Reading(e) => Begun(e)
            BY <1>0
          <6>2. /\ slot[e] \in Contents(e) /\ LastStaged(e) \in Contents(e) /\ result[e].content \in Contents(e)
                /\ Later(e, slot[e], LastStaged(e)) /\ Later(e, LastStaged(e), result[e].content)
                /\ Later(e, result[e].content, Seen(e))
            BY <1>00, <3>1, <5>2, <6>1 DEF OrderOf
          <6>3. Later(e, slot[e], result[e].content)
            BY <6>2, LaterFacts
          <6> QED
            BY <5>2, <6>2, <6>3
        <5> QED
          BY <2>3, <5>1, <5>2
      <4>2. Begun(e) => fingerprint[e] = slot[e] /\ Later(e, slot[e], slot[e])
        BY <1>00, LaterFacts DEF EntryInv
      <4> QED
        BY <1>00, <2>1, <2>2, <3>1, <3>3, <4>1, <4>2 DEF OrderOf, Later
    <3> QED
      BY <2>4, <3>2, <3>3
  <2> QED
    BY <2>1, <2>5 DEF OrderInv
<1>10. ASSUME Publish PROVE OrderInv'
  <2>1. /\ UNCHANGED <<files, edits, phase, built, batch, work, result>>
        /\ staged' = <<>>
        /\ \A e \in Entries : slot'[e] = IF phase[e] # "expired" /\ StagedFor(e) # {} THEN LastStaged(e) ELSE slot[e]
    BY <1>10 DEF Publish, fileVars, batchVars
  <2>2. \A e \in Entries : /\ Seen(e)' = Seen(e) /\ Contents(e)' = Contents(e)
                           /\ (Reading(e)' <=> Reading(e)) /\ (Begun(e)' <=> Begun(e))
    BY <2>1 DEF Seen, Contents, Reading, Begun
  <2>3. \A e \in Entries : LastStaged(e)' = slot'[e] /\ slot'[e] \in {slot[e], LastStaged(e)}
    <3>1. Len(staged') = 0
      BY <2>1
    <3>2. \A e \in Entries : StagedFor(e)' = {}
      BY <3>1 DEF StagedFor
    <3> QED
      BY <2>1, <3>2 DEF LastStaged
  <2>4. ASSUME NEW e \in Entries PROVE OrderOf(e)'
    <3>1. OrderOf(e)
      BY DEF OrderInv
    <3>2. CASE Begun(e)
      <4>1. /\ slot[e] \in Contents(e) /\ LastStaged(e) \in Contents(e) /\ Seen(e) \in Contents(e)
            /\ Later(e, slot[e], LastStaged(e)) /\ Later(e, LastStaged(e), Seen(e))
        BY <1>00, <3>1, <3>2 DEF OrderOf
      <4>2. /\ Later(e, slot[e], slot'[e]) /\ Later(e, slot'[e], LastStaged(e)) /\ slot'[e] \in Contents(e)
        BY <2>3, <4>1, LaterFacts
      <4>3. Later(e, slot'[e], slot'[e]) /\ Later(e, slot'[e], Seen(e))
        BY <4>1, <4>2, LaterFacts
      <4>4. e \in batch.members => /\ batch.prints[e] \in Contents(e) /\ Later(e, batch.prints[e], slot'[e])
        BY <3>1, <4>1, <4>2, LaterFacts DEF OrderOf
      <4>5. Reading(e) => Later(e, slot'[e], result[e].content) /\ Later(e, result[e].content, Seen(e))
        BY <1>00, <3>1, <4>1, <4>2, LaterFacts DEF OrderOf
      <4>6. phase[e] # "building"
        BY <3>2 DEF Begun
      <4> QED
        BY <2>1, <2>2, <2>3, <4>3, <4>4, <4>5, <4>6 DEF OrderOf, Later
    <3>3. CASE ~Begun(e)
      BY <1>0, <2>1, <2>2, <3>1, <3>3 DEF OrderOf, Later
    <3> QED
      BY <3>2, <3>3
  <2> QED
    BY <2>1, <2>4 DEF OrderInv
<1>11. ASSUME DrainRetired PROVE OrderInv'
  <2>1. /\ UNCHANGED <<files, edits, phase, built, slot, batch, work, result>>
        /\ staged' = <<>>
    BY <1>11 DEF DrainRetired, fileVars, entryVars, batchVars
  <2>2. \A e \in Entries : /\ Seen(e)' = Seen(e) /\ Contents(e)' = Contents(e)
                           /\ (Reading(e)' <=> Reading(e)) /\ (Begun(e)' <=> Begun(e))
    BY <2>1 DEF Seen, Contents, Reading, Begun
  <2>3. \A e \in Entries : LastStaged(e)' = slot[e]
    <3>1. Len(staged') = 0
      BY <2>1
    <3>2. \A e \in Entries : StagedFor(e)' = {}
      BY <3>1 DEF StagedFor
    <3> QED
      BY <2>1, <3>2 DEF LastStaged
  <2>4. ASSUME NEW e \in Entries PROVE OrderOf(e)'
    <3>1. OrderOf(e)
      BY DEF OrderInv
    <3>2. CASE Begun(e)
      <4>1. /\ slot[e] \in Contents(e) /\ LastStaged(e) \in Contents(e) /\ Seen(e) \in Contents(e)
            /\ Later(e, slot[e], LastStaged(e)) /\ Later(e, LastStaged(e), Seen(e))
        BY <1>00, <3>1, <3>2 DEF OrderOf
      <4>2. Later(e, slot[e], slot[e]) /\ Later(e, slot[e], Seen(e))
        BY <4>1, LaterFacts
      <4>3. Reading(e) => Later(e, slot[e], result[e].content) /\ Later(e, result[e].content, Seen(e))
        BY <1>00, <3>1, <4>1, LaterFacts DEF OrderOf
      <4>4. phase[e] # "building"
        BY <3>2 DEF Begun
      <4> QED
        BY <2>1, <2>2, <2>3, <3>1, <4>2, <4>3, <4>4 DEF OrderOf, Later
    <3>3. CASE ~Begun(e)
      BY <1>0, <2>1, <2>2, <3>1, <3>3 DEF OrderOf, Later
    <3> QED
      BY <3>2, <3>3
  <2> QED
    BY <2>1, <2>4 DEF OrderInv
<1>12. ASSUME [Next]_vars,
              ~\E f \in Files : Edit(f),
              ~\E e \in Entries : BeginBuild(e) \/ Register(e) \/ Release(e) \/ Rebuild(e),
              ~OwnerService, ~SubmitRefused, ~Publish, ~DrainRetired
       PROVE  UNCHANGED <<files, edits, batch, work, result, slot, staged, built, phase>>
              \/ ForceReload
  BY <1>12 DEF Next, vars, fileVars, entryVars, batchVars, outVars, ReportChange, Record, CompleteFrame, Retire
<1>13. ASSUME ForceReload PROVE OrderInv'
  <2>1. edits' = edits + 1 /\ UNCHANGED <<files, batch, work, result, slot, staged, built, phase>>
    BY <1>13 DEF ForceReload, entryVars, batchVars, outVars
  <2>2. \A e \in Entries : /\ Seen(e)' = Seen(e) /\ LastStaged(e)' = LastStaged(e)
                           /\ Contents(e)' = Contents(e) /\ (Reading(e)' <=> Reading(e)) /\ (Begun(e)' <=> Begun(e))
    BY <2>1 DEF Seen, LastStaged, StagedFor, Contents, Reading, Begun
  <2>3. \A f \in Files : files'[f] <= edits'
    BY <1>0, <2>1 DEF OrderInv
  <2> QED
    BY <2>1, <2>2, <2>3 DEF OrderInv, OrderOf, Later
<1>14. ASSUME UNCHANGED <<files, edits, batch, work, result, slot, staged, built, phase>> PROVE OrderInv'
  BY <1>1, <1>14 DEF Begun
<1> QED
  BY <1>2, <1>3, <1>4, <1>5, <1>7, <1>8, <1>9, <1>10, <1>11, <1>12, <1>13, <1>14

-----------------------------------------------------------------------------
\* A change of f is still to be reported, or to be served.
Told(f) == f \in dirty \/ Requested(f)
Current(e, c) == \A f \in Inputs[e] : c[f] = files[f] \/ Told(f)

\* What a build reads that Register will not call old, what a rebuild read, what an
\* unchanged one was compared with, and what the slot of an entry will hold that is not
\* in the batch, stale or keeping what it has: current, but for files still to be told.
FreshOf(e) ==
    /\ phase[e] = "building" => built[e].for < sourcesGeneration \/ Current(e, built[e].content)
    /\ phase[e] = "live" =>
          /\ Reading(e) => Current(e, result[e].content)
          /\ (work[e] = "done" /\ result[e].kind = "unchanged") => Current(e, slot[e]) /\ Current(e, LastStaged(e))
          /\ e \notin batch.members \cup keeps \cup stale => Current(e, LastStaged(e))

FreshInv == \A e \in Entries : FreshOf(e)

(* A batch that is finished leaves current contents, or an entry that      *)
(* keeps what it has.                                                      *)
LEMMA FinishFresh ==
    ASSUME Base, FreshInv, BatchIsIn, FinishBatch, UNCHANGED slot,
           NEW e \in Entries, phase[e] = "live", e \notin keeps', e \notin stale
    PROVE  Current(e, LastStaged(e)')
<1> USE DEF Base
<1>1. LastStaged(e)' = IF e \in batch.members /\ result[e].kind = "rebuilt"
                       THEN result[e].content ELSE LastStaged(e)
  BY LastFinished
<1>2. FreshOf(e)
  BY DEF FreshInv
<1>3. keeps' = (keeps \ batch.members) \cup {d \in batch.members : result[d].kind = "failed"}
  BY DEF FinishBatch
<1>4. CASE e \in batch.members
  <2>1. work[e] = "done" /\ result[e].kind # "failed"
    BY <1>3, <1>4, AllAreIn
  <2>2. result[e].kind \in {"unchanged", "rebuilt"}
    BY <2>1 DEF WorkInv, Types, BuildKinds
  <2> QED
    BY <1>1, <1>2, <1>4, <2>1, <2>2 DEF FreshOf, Reading
<1>5. CASE e \notin batch.members
  BY <1>1, <1>2, <1>3, <1>5 DEF FreshOf
<1> QED
  BY <1>4, <1>5

(* Every step keeps what will fill the slots current.                      *)
LEMMA FreshStep ==
    ASSUME Base, OrderInv, FreshInv, [Next]_vars
    PROVE  FreshInv'
<1> USE DEF Base
<1>0. /\ TypeOK /\ Types /\ sourcesGeneration \in Nat
      /\ files \in [Files -> 0..MaxEdits]
      /\ DOMAIN phase = Entries /\ DOMAIN built = Entries /\ DOMAIN slot = Entries
      /\ DOMAIN work = Entries /\ DOMAIN result = Entries
      /\ \A e \in Entries : Inputs[e] \subseteq Files
      /\ \A e \in Entries : e \in batch.members => Begun(e)
      /\ \A e \in Entries : Reading(e) => e \in batch.members
      /\ \A e \in Entries : work[e] = "done" => e \in batch.members
      /\ \A e \in Entries : built[e].for \in Nat /\ built[e].for <= sourcesGeneration
  BY SourcesAssumption DEF Types, TypeOK, WorkInv, EntryInv, Reading
<1>00. \A e \in Entries : Current(e, Seen(e))
  BY DEF Current, Seen
<1>1. ASSUME \A f \in Files : (Told(f) => Told(f)') /\ (files'[f] = files[f] \/ Told(f)'),
             UNCHANGED <<built, sourcesGeneration, batch, work, result, slot, staged, keeps, stale>>,
             \A e \in Entries : /\ phase'[e] = "building" => phase[e] = "building"
                                /\ phase'[e] = "live" => phase[e] = "live"
      PROVE  FreshInv'
  <2>1. \A e \in Entries : LastStaged(e)' = LastStaged(e) /\ (Reading(e)' <=> Reading(e))
    BY <1>1 DEF LastStaged, StagedFor, Reading
  <2>2. \A e \in Entries : \A c : Current(e, c) => \A f \in Inputs[e] : c[f] = files'[f] \/ Told(f)'
    BY <1>0, <1>1 DEF Current
  <2>3. ASSUME NEW e \in Entries PROVE FreshOf(e)'
    <3>1. FreshOf(e)
      BY DEF FreshInv
    <3> DEFINE Kept(c) == \A f \in Inputs[e] : c[f] = files'[f] \/ Told(f)'
    <3>2. /\ Current(e, built[e].content) => Kept(built[e].content)
          /\ Current(e, result[e].content) => Kept(result[e].content)
          /\ Current(e, slot[e]) => Kept(slot[e])
          /\ Current(e, LastStaged(e)) => Kept(LastStaged(e))
      BY <2>2
    <3>3. /\ Current(e, built[e].content)' <=> Kept(built[e].content)
          /\ Current(e, result[e].content)' <=> Kept(result[e].content)
          /\ Current(e, slot[e])' <=> Kept(slot[e])
          /\ Current(e, LastStaged(e))' <=> Kept(LastStaged(e))
      BY <1>1, <2>1 DEF Current
    <3> HIDE DEF Kept
    <3> QED
      BY <1>1, <2>1, <3>1, <3>2, <3>3 DEF FreshOf
  <2> QED
    BY <2>3 DEF FreshInv
<1>2. ASSUME NEW g \in Files, Edit(g) PROVE FreshInv'
  <2>1. /\ files' \in {[files EXCEPT ![g] = c] : c \in {edits + 1} \cup 0..edits} /\ dirty' = dirty \cup {g}
        /\ UNCHANGED <<phase, built, stale, request, sourcesGeneration, slot, batch, work, result, staged, keeps>>
    BY <1>2 DEF Edit, entryVars, askVars, batchVars, outVars
  <2>2. \A f \in Files : (Told(f) => Told(f)') /\ (files'[f] = files[f] \/ Told(f)')
    BY <1>0, <2>1 DEF Told, Requested
  <2> QED
    BY <1>1, <2>1, <2>2
<1>3. ASSUME NEW g \in Files, ReportChange(g) PROVE FreshInv'
  <2>1. /\ dirty' = dirty \ {g} /\ RequestReload(FALSE, {g}, FALSE)
        /\ UNCHANGED <<files, phase, built, stale, sourcesGeneration, slot, batch, work, result, staged, keeps>>
    BY <1>3 DEF ReportChange, entryVars, batchVars, outVars
  <2>2. /\ request'.asked = TRUE /\ request'.all = request.all
        /\ ~request.all => request'.files = request.files \cup {g}
    BY <1>0, <2>1 DEF RequestReload, TypeOK
  <2>3. \A f \in Files : (Told(f) => Told(f)') /\ (files'[f] = files[f] \/ Told(f)')
    BY <2>1, <2>2 DEF Told, Requested
  <2> QED
    BY <1>1, <2>1, <2>3
<1>4. ASSUME ForceReload PROVE FreshInv'
  <2>1. /\ request'.asked = TRUE /\ request'.all = TRUE
        /\ UNCHANGED <<files, dirty, phase, built, stale, sourcesGeneration, slot, batch, work, result, staged, keeps>>
    BY <1>4 DEF ForceReload, RequestReload, entryVars, batchVars, outVars
  <2>2. \A f \in Files : (Told(f) => Told(f)') /\ (files'[f] = files[f] \/ Told(f)')
    BY <2>1 DEF Told, Requested
  <2> QED
    BY <1>1, <2>1, <2>2
<1>5. ASSUME NEW e \in Entries, Release(e) PROVE FreshInv'
  <2>1. /\ UNCHANGED <<files, dirty, request, built, sourcesGeneration, batch, work, result, slot, staged, keeps, stale>>
        /\ \A d \in Entries : phase'[d] = IF d = e THEN "expired" ELSE phase[d]
    BY <1>0, <1>5 DEF Release, fileVars, askVars, batchVars, outVars
  <2>2. \A f \in Files : (Told(f) => Told(f)') /\ (files'[f] = files[f] \/ Told(f)')
    BY <2>1 DEF Told, Requested
  <2> QED
    BY <1>1, <2>1, <2>2
<1>6. ASSUME UNCHANGED <<files, dirty, request>>
      PROVE  \A f : Told(f)' <=> Told(f)
  BY <1>6 DEF Told, Requested
<1>7. ASSUME NEW e \in Entries, BeginBuild(e) PROVE FreshInv'
  <2>1. /\ UNCHANGED <<files, dirty, request, sourcesGeneration, batch, work, result, slot, staged, keeps, stale>>
        /\ \A d \in Entries : /\ phase'[d] = (IF d = e THEN "building" ELSE phase[d])
                              /\ built'[d] = (IF d = e THEN [content |-> Seen(e), for |-> sourcesGeneration] ELSE built[d])
    BY <1>0, <1>7 DEF BeginBuild, fileVars, askVars, batchVars, outVars
  <2>2. \A d \in Entries : LastStaged(d)' = LastStaged(d) /\ (Reading(d)' <=> Reading(d))
    BY <2>1 DEF LastStaged, StagedFor, Reading
  <2>3. \A f : Told(f)' <=> Told(f)
    BY <1>6, <2>1
  <2>4. FreshOf(e)'
    BY <1>00, <2>1, <2>3 DEF FreshOf, Current
  <2>5. ASSUME NEW d \in Entries \ {e} PROVE FreshOf(d)'
    <3>1. FreshOf(d)
      BY DEF FreshInv
    <3> QED
      BY <2>1, <2>2, <2>3, <3>1 DEF FreshOf, Current
  <2>6. \A d \in Entries : FreshOf(d)'
    BY <2>4, <2>5
  <2> QED
    BY <2>6 DEF FreshInv
<1>8. ASSUME NEW e \in Entries, Register(e) PROVE FreshInv'
  <2>1. /\ UNCHANGED <<files, dirty, request, sourcesGeneration, batch, work, result, staged, keeps>>
        /\ \A d \in Entries : /\ phase'[d] = (IF d = e THEN "live" ELSE phase[d])
                              /\ slot'[d] = (IF d = e THEN built[e].content ELSE slot[d])
                              /\ d # e => built'[d] = built[d]
        /\ phase[e] = "building"
    BY <1>0, <1>8 DEF Register, fileVars, batchVars, outVars
  <2>2. stale' = IF built[e].for < sourcesGeneration THEN stale \cup {e} ELSE stale
    BY <1>8 DEF Register
  <2>3. \A d \in Entries : StagedFor(d)' = StagedFor(d) /\ (Reading(d)' <=> Reading(d))
    BY <2>1 DEF StagedFor, Reading
  <2>4. \A f : Told(f)' <=> Told(f)
    BY <1>6, <2>1
  <2>5. FreshOf(e)'
    <3>1. ~Begun(e)
      BY <2>1 DEF Begun
    <3>2. StagedFor(e) = {}
      BY <3>1 DEF StagedFor, EntryInv
    <3>3. LastStaged(e)' = built[e].content
      BY <2>1, <2>3, <3>2 DEF LastStaged
    <3>4. ~Reading(e)' /\ work'[e] # "done"
      BY <1>0, <2>1, <2>3, <3>1
    <3>5. e \in stale' \/ Current(e, built[e].content)
      BY <2>1, <2>2 DEF FreshInv, FreshOf
    <3> QED
      BY <2>1, <2>4, <3>3, <3>4, <3>5 DEF FreshOf, Current
  <2>6. ASSUME NEW d \in Entries \ {e} PROVE FreshOf(d)'
    <3>1. FreshOf(d)
      BY DEF FreshInv
    <3>2. LastStaged(d)' = LastStaged(d) /\ (d \in stale' <=> d \in stale)
      BY <2>1, <2>2, <2>3 DEF LastStaged
    <3> QED
      BY <2>1, <2>3, <2>4, <3>1, <3>2 DEF FreshOf, Current
  <2>7. \A d \in Entries : FreshOf(d)'
    BY <2>5, <2>6
  <2> QED
    BY <2>7 DEF FreshInv
<1>9. ASSUME UNCHANGED <<files, dirty, request, phase, built, sourcesGeneration, slot, staged, keeps, stale>>,
             batch'.members = batch.members,
             \A e \in Entries : Reading(e)' =>
                \/ Reading(e) /\ result'[e].content = result[e].content
                \/ result'[e].content = Seen(e),
             \A e \in Entries : work'[e] = "done" /\ result'[e].kind = "unchanged" =>
                \/ work[e] = "done" /\ result[e].kind = "unchanged"
                \/ Reading(e) /\ result[e].content = slot[e] /\ result[e].content = LastStaged(e)
      PROVE  FreshInv'
  <2>1. \A d \in Entries : LastStaged(d)' = LastStaged(d)
    BY <1>9 DEF LastStaged, StagedFor
  <2>2. \A f : Told(f)' <=> Told(f)
    BY <1>6, <1>9
  <2>3. ASSUME NEW d \in Entries PROVE FreshOf(d)'
    <3>1. FreshOf(d)
      BY DEF FreshInv
    <3>2. ASSUME phase[d] = "live", Reading(d)' PROVE Current(d, result'[d].content)
      <4>1. CASE Reading(d) /\ result'[d].content = result[d].content
        BY <3>1, <3>2, <4>1 DEF FreshOf
      <4>2. CASE result'[d].content = Seen(d)
        BY <1>00, <4>2
      <4> QED
        BY <1>9, <3>2, <4>1, <4>2
    <3>3. ASSUME phase[d] = "live", work'[d] = "done", result'[d].kind = "unchanged"
          PROVE  Current(d, slot[d]) /\ Current(d, LastStaged(d))
      BY <1>9, <3>1, <3>3 DEF FreshOf
    <3> QED
      BY <1>9, <2>1, <2>2, <3>1, <3>2, <3>3 DEF FreshOf, Current
  <2> QED
    BY <2>3 DEF FreshInv
<1>10. ASSUME NEW e \in Entries, Rebuild(e) PROVE FreshInv'
  <2>1. UNCHANGED <<files, dirty, request, phase, built, sourcesGeneration, slot, staged, keeps, stale>>
    BY <1>10, RebuildCases DEF fileVars, entryVars, askVars, outVars
  <2>2. CASE StartRebuild(e)
    <3>1. /\ batch' = batch
          /\ \A d \in Entries : /\ work'[d] = (IF d = e THEN "reading" ELSE work[d])
                                /\ result'[d] = (IF d = e THEN [kind |-> "none", content |-> Seen(e)] ELSE result[d])
      BY <1>0, <2>2 DEF StartRebuild
    <3>2. \A d \in Entries : Reading(d)' =>
                \/ Reading(d) /\ result'[d].content = result[d].content
                \/ result'[d].content = Seen(d)
      BY <3>1 DEF Reading
    <3> QED
      BY <1>9, <2>1, <3>1, <3>2
  <2>3. ASSUME NEW build, OneDone(e, build),
               build.kind = "rebuilt" => Reading(e) /\ build.content = result[e].content,
               build.kind = "unchanged" => Reading(e) /\ result[e].content = batch.prints[e]
        PROVE  FreshInv'
    <3>1. \A d \in Entries : /\ work'[d] = (IF d = e THEN "done" ELSE work[d])
                             /\ result'[d] = (IF d = e THEN build ELSE result[d])
      BY <1>0, <2>3 DEF OneDone
    <3>2. \A d \in Entries : Reading(d)' => Reading(d) /\ result'[d].content = result[d].content
      BY <2>3, <3>1 DEF Reading
    <3>3. batch'.members = batch.members
      BY <2>3 DEF OneDone, Types
    <3>4. ASSUME build.kind = "unchanged"
          PROVE  result[e].content = slot[e] /\ result[e].content = LastStaged(e)
      <4>1. Reading(e) /\ e \in batch.members /\ Begun(e) /\ result[e].content = batch.prints[e]
        BY <1>0, <2>3, <3>4
      <4>2. /\ slot[e] \in Contents(e) /\ LastStaged(e) \in Contents(e) /\ result[e].content \in Contents(e)
        BY <1>0, <4>1, LastIsTyped DEF EntryInv
      <4>3. /\ Later(e, result[e].content, slot[e]) /\ Later(e, slot[e], LastStaged(e))
            /\ Later(e, LastStaged(e), result[e].content)
        BY <4>1 DEF OrderInv, OrderOf
      <4>4. Later(e, slot[e], result[e].content) /\ Later(e, result[e].content, LastStaged(e))
        BY <4>2, <4>3, LaterFacts
      <4> QED
        BY <4>2, <4>3, <4>4, LaterFacts
    <3>5. \A d \in Entries : work'[d] = "done" /\ result'[d].kind = "unchanged" =>
                \/ work[d] = "done" /\ result[d].kind = "unchanged"
                \/ Reading(d) /\ result[d].content = slot[d] /\ result[d].content = LastStaged(d)
      BY <2>3, <3>1, <3>4
    <3> QED
      BY <1>9, <2>1, <3>2, <3>3, <3>5
  <2>4. CASE UNCHANGED <<batch, work, result>>
    BY <1>9, <2>1, <2>4 DEF Reading
  <2>5. work[e] = "reading" =>
           /\ BuildOf(e).kind = "rebuilt" => Reading(e) /\ BuildOf(e).content = result[e].content
           /\ BuildOf(e).kind = "unchanged" => Reading(e) /\ result[e].content = batch.prints[e]
    BY DEF Reading, BuildOf, Unchanged, Rebuilt
  <2>6. Failure.kind # "rebuilt" /\ Failure.kind # "unchanged"
    BY DEF Failure
  <2> QED
    BY <1>10, <2>2, <2>3, <2>4, <2>5, <2>6, RebuildCases
<1>11. ASSUME SubmitRefused PROVE FreshInv'
  <2>1. /\ UNCHANGED <<files, dirty, request, phase, built, sourcesGeneration, slot, staged, keeps, stale>>
        /\ batch' = [batch EXCEPT !.remaining = 0]
        /\ \A d \in Entries : /\ work'[d] = (IF d \in batch.members THEN "done" ELSE work[d])
                              /\ result'[d] = (IF d \in batch.members THEN Failure ELSE result[d])
    BY <1>11 DEF SubmitRefused, fileVars, entryVars, askVars, outVars
  <2>2. \A d \in Entries : Reading(d)' => Reading(d) /\ result'[d] = result[d]
    BY <2>1 DEF Reading, Failure
  <2>3. \A d \in Entries : work'[d] = "done" /\ result'[d].kind = "unchanged" =>
                work[d] = "done" /\ result[d].kind = "unchanged"
    BY <2>1 DEF Failure
  <2>4. batch'.members = batch.members
    BY <2>1 DEF Types
  <2> QED
    BY <1>9, <2>1, <2>2, <2>3, <2>4
<1>12. ASSUME OwnerService PROVE FreshInv'
  <2>1. UNCHANGED <<files, edits, dirty, phase, built, slot, fingerprint>>
    BY <1>12 DEF OwnerService, Service, ServiceRecheck, fileVars, entryVars
  <2>2. CASE UNCHANGED <<request, sourcesGeneration, stale, batchVars, outVars>>
    <3>1. \A f \in Files : (Told(f) => Told(f)') /\ (files'[f] = files[f] \/ Told(f)')
      BY <2>1, <2>2 DEF Told, Requested
    <3> QED
      BY <1>1, <2>1, <2>2, <3>1 DEF batchVars, outVars
  <2>3. ASSUME \/ BatchIsIn /\ FinishBatch
               \/ batch.members = {} /\ UNCHANGED outVars,
               NEW e \in Entries, phase[e] = "live", e \notin keeps', e \notin stale
        PROVE  Current(e, LastStaged(e)')
    <3>1. CASE BatchIsIn /\ FinishBatch
      BY <2>1, <2>3, <3>1, FinishFresh
    <3>2. CASE batch.members = {} /\ UNCHANGED outVars
      <4>1. LastStaged(e)' = LastStaged(e) /\ keeps' = keeps
        BY <2>1, <3>2 DEF LastStaged, StagedFor, outVars
      <4> QED
        BY <2>3, <3>2, <4>1 DEF FreshInv, FreshOf
    <3> QED
      BY <2>3, <3>1, <3>2
  <2>4. CASE /\ StartBatch
             /\ \/ BatchIsIn /\ FinishBatch
                \/ batch.members = {} /\ UNCHANGED outVars
    <3>1. IsFiniteSet(entries) /\ Asked \in Nat
      BY DEF WorkInv, Asked
    <3>2. /\ request' = NoRequest
          /\ entries' = {d \in entries : phase[d] = "live"}
          /\ stale' = stale \ batch'.members
          /\ sourcesGeneration' = sourcesGeneration + Asked
          /\ work' = [d \in Entries |-> IF d \in batch'.members THEN "queued" ELSE "idle"]
          /\ \A d \in entries' : (\E f \in Inputs[d] : Requested(f)) => d \in batch'.members
      BY <2>4, <3>1, Starts
    <3>3. \A f : Told(f)' <=> f \in dirty
      BY <2>1, <3>2 DEF Told, Requested, NoRequest
    <3>4. ASSUME NEW e \in Entries PROVE FreshOf(e)'
      <4>1. ~Reading(e)' /\ work'[e] # "done"
        BY <3>2 DEF Reading
      <4>2. ASSUME phase[e] = "building"
            PROVE  built[e].for < sourcesGeneration' \/ Current(e, built[e].content)'
        <5>1. built[e].for < sourcesGeneration \/ Current(e, built[e].content)
          BY <4>2 DEF FreshInv, FreshOf
        <5>2. CASE request.asked
          BY <1>0, <3>2, <5>2 DEF Asked
        <5>3. CASE ~request.asked
          <6>1. sourcesGeneration' = sourcesGeneration
            BY <1>0, <3>2, <5>3 DEF Asked
          <6>2. \A f : Told(f)' <=> Told(f)
            BY <3>3, <5>3 DEF Told, Requested
          <6> QED
            BY <2>1, <5>1, <6>1, <6>2 DEF Current
        <5> QED
          BY <5>2, <5>3
      <4>3. ASSUME phase[e] = "live", e \notin batch'.members \cup keeps' \cup stale'
            PROVE  Current(e, LastStaged(e))'
        <5>1. e \notin stale /\ e \notin keeps'
          BY <3>2, <4>3
        <5>2. Current(e, LastStaged(e)')
          BY <2>3, <2>4, <4>3, <5>1
        <5>3. e \in entries'
          BY <3>2, <4>3 DEF EntryInv
        <5>4. \A f \in Inputs[e] : ~Requested(f)
          BY <3>2, <4>3, <5>3
        <5>5. \A f \in Inputs[e] : Told(f)' <=> Told(f)
          BY <3>3, <5>4 DEF Told
        <5> QED
          BY <2>1, <5>2, <5>5 DEF Current
      <4> QED
        BY <2>1, <4>1, <4>2, <4>3 DEF FreshOf
    <3> QED
      BY <3>4 DEF FreshInv
  <2>5. CASE NoneRunning /\ BatchIsIn /\ FinishBatch /\ UNCHANGED <<request, sourcesGeneration, stale>>
    <3>1. /\ batch'.members = {} /\ work' = [d \in Entries |-> "idle"]
      BY <2>5 DEF NoneRunning, NoBatch
    <3>2. \A f : Told(f)' <=> Told(f)
      BY <1>6, <2>1, <2>5
    <3>3. ASSUME NEW e \in Entries PROVE FreshOf(e)'
      <4>1. ~Reading(e)' /\ work'[e] # "done"
        BY <3>1 DEF Reading
      <4>2. phase[e] = "live" /\ e \notin keeps' \cup stale => Current(e, LastStaged(e)')
        BY <2>3, <2>5
      <4>3. FreshOf(e)
        BY DEF FreshInv
      <4> QED
        BY <2>1, <2>5, <3>1, <3>2, <4>1, <4>2, <4>3 DEF FreshOf, Current
    <3> QED
      BY <3>3 DEF FreshInv
  <2>6. ~batch.on => batch.members = {}
    BY DEF WorkInv
  <2> QED
    BY <1>12, <2>2, <2>4, <2>5, <2>6 DEF OwnerService, Service, ServiceRecheck, askVars, entryVars
<1>13. ASSUME Publish PROVE FreshInv'
  <2>1. /\ UNCHANGED <<files, dirty, request, sourcesGeneration, phase, built, batch, work, result, keeps, stale>>
        /\ staged' = <<>>
        /\ \A e \in Entries : slot'[e] = IF phase[e] # "expired" /\ StagedFor(e) # {} THEN LastStaged(e) ELSE slot[e]
    BY <1>13 DEF Publish, fileVars, askVars, batchVars
  <2>2. \A f : Told(f)' <=> Told(f)
    BY <1>6, <2>1
  <2>3. \A e \in Entries : LastStaged(e)' = slot'[e] /\ (phase[e] = "live" => slot'[e] = LastStaged(e))
    <3>1. Len(staged') = 0
      BY <2>1
    <3>2. \A e \in Entries : StagedFor(e)' = {}
      BY <3>1 DEF StagedFor
    <3> QED
      BY <2>1, <3>2 DEF LastStaged
  <2>4. ASSUME NEW e \in Entries PROVE FreshOf(e)'
    <3>1. FreshOf(e) /\ (Reading(e)' <=> Reading(e))
      BY <2>1 DEF FreshInv, Reading
    <3> QED
      BY <2>1, <2>2, <2>3, <3>1 DEF FreshOf, Current
  <2> QED
    BY <2>4 DEF FreshInv
<1>14. ASSUME DrainRetired PROVE FreshInv'
  <2>1. /\ UNCHANGED <<files, dirty, request, sourcesGeneration, phase, built, slot, batch, work, result, stale>>
        /\ staged' = <<>> /\ keeps' = keeps \cup {staged[i].entry : i \in 1..Len(staged)}
    BY <1>14 DEF DrainRetired, fileVars, entryVars, askVars, batchVars
  <2>2. \A f : Told(f)' <=> Told(f)
    BY <1>6, <2>1
  <2>3. \A e \in Entries : LastStaged(e)' = slot[e] /\ (e \notin keeps' => e \notin keeps /\ LastStaged(e) = slot[e])
    <3>1. Len(staged') = 0
      BY <2>1
    <3>2. \A e \in Entries : StagedFor(e)' = {}
      BY <3>1 DEF StagedFor
    <3>3. \A e \in Entries : e \notin keeps' => StagedFor(e) = {}
      BY <2>1 DEF StagedFor
    <3> QED
      BY <2>1, <3>2, <3>3 DEF LastStaged
  <2>4. ASSUME NEW e \in Entries PROVE FreshOf(e)'
    <3>1. FreshOf(e) /\ (Reading(e)' <=> Reading(e))
      BY <2>1 DEF FreshInv, Reading
    <3> QED
      BY <2>1, <2>2, <2>3, <3>1 DEF FreshOf, Current
  <2> QED
    BY <2>4 DEF FreshInv
<1>15. ASSUME [Next]_vars,
              ~\E f \in Files : Edit(f) \/ ReportChange(f), ~ForceReload,
              ~\E e \in Entries : BeginBuild(e) \/ Register(e) \/ Release(e) \/ Rebuild(e),
              ~OwnerService, ~SubmitRefused, ~Publish, ~DrainRetired
       PROVE  UNCHANGED <<files, dirty, request, sourcesGeneration, phase, built, slot, staged, keeps, stale, batch, work, result>>
  BY <1>15 DEF Next, vars, fileVars, entryVars, askVars, batchVars, outVars, Record, CompleteFrame, Retire
<1>16. ASSUME UNCHANGED <<files, dirty, request, sourcesGeneration, phase, built, slot, staged, keeps, stale, batch, work, result>>
       PROVE  FreshInv'
  <2>1. \A e \in Entries : Reading(e)' <=> Reading(e)
    BY <1>16 DEF Reading
  <2> QED
    BY <1>9, <1>16, <2>1
<1> QED
  BY <1>2, <1>3, <1>4, <1>5, <1>7, <1>8, <1>10, <1>11, <1>12, <1>13, <1>14, <1>15, <1>16

(* If no edit brings an earlier content of a file back, then once nothing  *)
(* is asked for, running, staged, unreported or being registered, every    *)
(* live pipeline whose last rebuild did not fail is built from the files   *)
(* as they are, however requests, rebuilds, registrations of older builds  *)
(* and publications interleaved.                                           *)
THEOREM PipelineRegistryCurrent ==
    ASSUME ~Reverts
    PROVE  Spec => []NoPipelineKeepsOldFiles
<1>1. Init => OrderInv /\ FreshInv
  <2> SUFFICES ASSUME Init PROVE OrderInv /\ FreshInv
    OBVIOUS
  <2>1. \A e \in Entries : phase[e] = "absent" /\ ~Reading(e) /\ e \notin batch.members
    BY DEF Init, Reading, NoBatch
  <2>2. \A f \in Files : files[f] <= edits
    BY DEF Init
  <2> QED
    BY <2>1, <2>2 DEF OrderInv, OrderOf, Begun, FreshInv, FreshOf
<1>2. Base /\ OrderInv /\ FreshInv /\ [Next]_vars => OrderInv' /\ FreshInv'
  BY OrderStep, FreshStep
<1>3. Base /\ FreshInv => NoPipelineKeepsOldFiles
  <2> SUFFICES ASSUME Base, FreshInv, Quiet, NEW e \in Entries, phase[e] = "live", e \notin keeps
               PROVE  slot[e] = Seen(e)
    BY DEF NoPipelineKeepsOldFiles
  <2>1. ~request.asked /\ dirty = {} /\ batch.members = {} /\ Len(staged) = 0
    BY DEF Quiet, Base, AskInv, WorkInv
  <2>2. e \notin stale
    BY DEF Quiet, Base, AskInv, Expired
  <2>3. LastStaged(e) = slot[e]
    BY <2>1 DEF LastStaged, StagedFor
  <2>4. Current(e, slot[e])
    BY <2>1, <2>2, <2>3 DEF FreshInv, FreshOf
  <2>5. \A f \in Inputs[e] : slot[e][f] = files[f]
    BY <2>1, <2>4 DEF Current, Told, Requested
  <2>6. slot[e] \in Contents(e)
    BY DEF Base, EntryInv, Begun
  <2> QED
    BY <2>5, <2>6 DEF Contents, Seen
<1> QED
  BY <1>1, <1>2, <1>3, BaseHolds, PTL DEF Spec
=============================================================================
