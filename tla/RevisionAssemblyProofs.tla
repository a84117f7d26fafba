----------------------- MODULE RevisionAssemblyProofs -----------------------
(***************************************************************************)
(* The safety of RevisionAssembly, for any number of producers, slots and  *)
(* revisions and any requirements.  A sealed revision is owed one count    *)
(* by each fragment it names and one by Seal.  The inductive invariant     *)
(* says, beside the types:                                                 *)
(*   - ThreadInv: where a producer and the coordinator can be;             *)
(*   - TokenInv: each count that is owed has one carrier;                  *)
(*   - CountInv: `remaining' is the number of counts owed, as long as      *)
(*     somebody owns the revision;                                         *)
(*   - DecisionInv: a fragment that owes no more is settled, and failed    *)
(*     revisions know an error, or a settler about to write it;            *)
(*   - OrderInv: what is published, handed over and active is in sequence  *)
(*     order and whole;                                                    *)
(*   - StatsInv: the counters account for every sealed revision.           *)
(***************************************************************************)
EXTENDS RevisionAssembly, FiniteSetTheorems, WellFoundedInduction, TLAPS

\* The types TypeOK leaves out.
Revisions == [slots : [Slots -> Fragments \cup {None}], remaining : Nat,
              failed : BOOLEAN, error : Fragments \cup {None}]
Positions == [at : {"idle", "take", "walk", "attach", "error", "count", "notify"},
              todo : SUBSET (Sequences \cup Fragments),
              cur : 0..MaxSealed, frag : Fragments \cup {None}]
RevisionType == revision \in [Sequences -> Revisions]
ThreadType == thread \in [Threads -> Positions]
LocalsOK ==
    /\ RevisionType /\ ThreadType
    /\ stats \in [sealed : Int, published : Int, failed : Int, superseded : Int, abandoned : Int]
    /\ published \in Nat /\ mailbox \in Nat /\ active \in Nat

Types == TypeOK /\ LocalsOK

Sealed == 1..latestSequence
Names(r) == Named(revision[r].slots)

ProducerInv(f) ==
    /\ thread[f].at # "attach" /\ thread[f].todo \subseteq Sequences
    /\ thread[f].at \in {"idle", "take"} => thread[f].todo = {}
    /\ thread[f].at \in {"idle", "take", "walk"} => thread[f].cur = 0
    /\ thread[f].at \in {"error", "count", "notify"} => thread[f].cur # 0 /\ thread[f].frag = f
    /\ thread[f].at # "idle" => state[f] # "Pending"
    /\ thread[f].at \in {"walk", "error", "count", "notify"} => f \in closed
    /\ f \in closed => state[f] # "Pending" /\ waiters[f] = {} /\ thread[f].at # "take"

CoordinatorInv ==
    LET c == thread[Coordinator]
    IN  /\ c.at \notin {"take", "walk"} /\ c.todo \subseteq Fragments
        /\ c.at = "idle" => c.cur = 0 /\ c.todo = {} /\ c.frag = None
        /\ c.at # "idle" => c.cur = latestSequence /\ c.cur # 0
        /\ c.at = "attach" => c.frag = None
        /\ c.at = "error" => c.frag # None
        /\ c.at \in {"count", "notify"} /\ c.frag = None => c.todo = {}
        /\ c.frag # None => c.frag \in closed \ c.todo

ThreadInv == CoordinatorInv /\ \A f \in Fragments : ProducerInv(f)

CoordinatorHas(r, f) ==
    thread[Coordinator].cur = r /\ (f \in thread[Coordinator].todo \/ thread[Coordinator].frag = f)

\* The revisions a producer has not counted down yet, or is counting down.
ProducerHas(f) == waiters[f] \cup thread[f].todo \cup ({thread[f].cur} \ {0})

TokenInv ==
    /\ \A f \in Fragments : \A r \in ProducerHas(f) :
           r \in Sealed /\ f \in Names(r) /\ ~CoordinatorHas(r, f)
    /\ \A f \in Fragments : thread[f].cur \notin thread[f].todo
    /\ \A r \in Sealed, f \in Fragments : CoordinatorHas(r, f) => f \in Names(r)

\* The counts a revision is still owed: by its fragments, and by Seal (None).
FragmentOwes(r, f) ==
    \/ r \in waiters[f] \cup thread[f].todo
    \/ thread[f].cur = r /\ thread[f].at \in {"error", "count"}
    \/ /\ CoordinatorHas(r, f)
       /\ f \in thread[Coordinator].todo \/ thread[Coordinator].at \in {"error", "count"}
SealOwes(r) ==
    /\ thread[Coordinator].cur = r
    /\ thread[Coordinator].frag # None \/ thread[Coordinator].at \in {"attach", "count"}
Owed(r) == {f \in Fragments : FragmentOwes(r, f)} \cup (IF SealOwes(r) THEN {None} ELSE {})

CountInv ==
    /\ \A r \in Sealed : Alive(r) => revision[r].remaining = Cardinality(Owed(r))
    /\ completed \subseteq Sealed
    /\ \A r \in completed : revision[r].remaining = 0

ErrorKnown(r) ==
    revision[r].error \in Names(r) /\ state[revision[r].error] = "Failed"

DecisionInv ==
    /\ \A t \in Threads : thread[t].at \in {"error", "count"} /\ thread[t].frag # None =>
           /\ state[thread[t].frag] # "Pending"
           /\ state[thread[t].frag] = "Failed" => revision[thread[t].cur].failed
           /\ thread[t].at = "error" => state[thread[t].frag] = "Failed"
    /\ \A r \in Sealed : Alive(r) => \A f \in Names(r) \ Owed(r) :
           state[f] # "Pending" /\ (state[f] = "Failed" => revision[r].failed)
    /\ \A r \in Sealed : revision[r].failed =>
           ErrorKnown(r) \/ \E t \in Threads : thread[t].at = "error" /\ thread[t].cur = r

Whole(r) == Closure(revision[r].slots) /\ \A f \in Names(r) : state[f] = "Ready"

OrderInv ==
    /\ pending \subseteq Sealed
    /\ active <= published /\ mailbox <= published
    /\ mailbox # 0 => active <= mailbox
    /\ \A r \in Sealed : Closure(revision[r].slots)
    /\ \A r \in {mailbox, active} \ {0} : Whole(r)

StatsInv ==
    /\ stats.sealed = latestSequence
    /\ stats.sealed = Cardinality(pending) + stats.published + stats.failed
                      + stats.superseded + stats.abandoned

\* The cases of a producer's walk of its waiters.
WalkRest(f) ==
    UNCHANGED <<state, waiters, closed, draft, latest, latestSequence, pending,
                completed, published, stats, wake, mailbox, active>>
WalkEnds(f) ==
    /\ thread[f].at = "walk" /\ thread[f].todo = {}
    /\ thread' = [thread EXCEPT ![f] = Idle]
    /\ UNCHANGED revision /\ WalkRest(f)
WalkSettles(f, r) ==
    /\ thread[f].at = "walk" /\ r \in thread[f].todo /\ Alive(r)
    /\ SettleWaiter(f, r, f, thread[f].todo \ {r})
    /\ WalkRest(f)
WalkDrops(f, r) ==
    /\ thread[f].at = "walk" /\ r \in thread[f].todo /\ ~Alive(r)
    /\ thread' = [thread EXCEPT ![f].todo = @ \ {r}]
    /\ UNCHANGED revision /\ WalkRest(f)

\* The cases of Seal's attach.
AttachRest ==
    UNCHANGED <<state, closed, draft, latest, latestSequence, pending,
                completed, published, stats, wake, mailbox, active>>
AttachSettles(f) ==
    /\ thread[Coordinator].at = "attach" /\ f \in thread[Coordinator].todo \cap closed
    /\ SettleWaiter(Coordinator, thread[Coordinator].cur, f, thread[Coordinator].todo \ {f})
    /\ UNCHANGED waiters /\ AttachRest
AttachWaits(f) ==
    /\ thread[Coordinator].at = "attach" /\ f \in thread[Coordinator].todo \ closed
    /\ waiters' = [waiters EXCEPT ![f] = @ \cup {thread[Coordinator].cur}]
    /\ thread' = [thread EXCEPT ![Coordinator].todo = @ \ {f}]
    /\ UNCHANGED revision /\ AttachRest

IInv == Types /\ ThreadInv /\ TokenInv /\ CountInv /\ DecisionInv /\ OrderInv /\ StatsInv

-----------------------------------------------------------------------------
(* The newest of a set of revisions exists.                                *)
LEMMA MaxExists ==
    ASSUME NEW n \in Nat, NEW S, S \subseteq 0..n, S # {}
    PROVE  Max(S) \in S /\ \A y \in S : Max(S) >= y
<1> DEFINE Less == OpToRel(<, Nat)
           Co == {n - x : x \in S}
<1>1. Co \subseteq Nat /\ Co # {}
  <2>1. \A x \in S : n - x \in Nat /\ n - x \in Co
    OBVIOUS
  <2> QED
    BY <2>1
<1>2. \A x, y \in Nat : <<y, x>> \in Less <=> y < x
  BY DEF OpToRel
<1>3. IsWellFoundedOn(Less, Nat)
  BY NatLessThanWellFounded
<1>4. PICK d \in Co : \A y \in Co : ~(<<y, d>> \in Less)
  <2> HIDE DEF Less, Co
  <2> QED
    BY <1>1, <1>3, WFMin
<1>5. \A y \in Co : ~(y < d)
  <2> HIDE DEF Less, Co
  <2> QED
    BY <1>1, <1>2, <1>4, Zenon
<1>6. PICK m \in S : d = n - m
  OBVIOUS
<1>7. \A y \in S : m >= y
  <2> SUFFICES ASSUME NEW y \in S PROVE m >= y
    OBVIOUS
  <2>1. n - y \in Co
    OBVIOUS
  <2>2. ~(n - y < n - m)
    BY <1>5, <1>6, <2>1
  <2> QED
    BY <2>2
<1> QED
  BY <1>7 DEF Max

(* The walk ends, settles one waiter, or drops one.                        *)
LEMMA WalkCases ==
    ASSUME Types, ThreadInv, NEW f \in Fragments, WalkWaiter(f)
    PROVE  WalkEnds(f) \/ \E r \in Sequences : WalkSettles(f, r) \/ WalkDrops(f, r)
<1> DEFINE r == Max(thread[f].todo)
<1>1. CASE thread[f].todo = {}
  BY <1>1 DEF WalkWaiter, WalkEnds, WalkRest
<1>2. CASE thread[f].todo # {}
  <2>1. r \in thread[f].todo /\ r \in Sequences
    BY <1>2, RevisionAssumption, MaxExists DEF ThreadInv, ProducerInv, Sequences
  <2> HIDE DEF r
  <2>2. WalkSettles(f, r) \/ WalkDrops(f, r)
    BY <1>2, <2>1 DEF WalkWaiter, WalkSettles, WalkDrops, WalkRest, r
  <2> QED
    BY <2>1, <2>2
<1> QED
  BY <1>1, <1>2

LEMMA AttachCases ==
    ASSUME Types, ThreadInv, Attach
    PROVE  \E f \in Fragments : AttachSettles(f) \/ AttachWaits(f)
<1>1. thread[Coordinator].todo \subseteq Fragments
  BY DEF ThreadInv, CoordinatorInv
<1> QED
  BY <1>1 DEF Attach, AttachSettles, AttachWaits, AttachRest

(* What a thread settles, counts or has counted is a sealed revision.      *)
LEMMA CurrentIsSealed ==
    ASSUME Types, ThreadInv, TokenInv, NEW t \in Threads,
           thread[t].at \in {"attach", "error", "count", "notify"}
    PROVE  thread[t].cur \in Sealed /\ thread[t].cur \in Sequences /\ Alive(thread[t].cur)
<1>1. thread[t].cur \in Sealed
  <2>1. CASE t = Coordinator
    BY <2>1 DEF Types, TypeOK, ThreadInv, CoordinatorInv, Sealed
  <2>2. CASE t \in Fragments
    BY <2>2 DEF ThreadInv, ProducerInv, TokenInv, ProducerHas
  <2> QED
    BY <2>1, <2>2 DEF Threads
<1>2. thread[t].cur \in Sequences
  BY <1>1, RevisionAssumption DEF Types, TypeOK, Sealed, Sequences
<1>3. Alive(thread[t].cur)
  BY DEF Alive
<1> QED
  BY <1>1, <1>2, <1>3

LEMMA OwedIsFinite ==
    ASSUME NEW r
    PROVE  IsFiniteSet(Owed(r))
<1>1. IsFiniteSet(Fragments \cup {None})
  BY RevisionAssumption, FS_AddElement
<1> QED
  BY <1>1, FS_Subset DEF Owed

(* A thread that is about to count carries a count that is owed.           *)
LEMMA CounterOwes ==
    ASSUME Types, ThreadInv, TokenInv, CountInv, NEW t \in Threads, thread[t].at = "count"
    PROVE  LET r == thread[t].cur
           IN  /\ r \in Sealed /\ r \in Sequences /\ Alive(r)
               /\ thread[t].frag \in Owed(r)
               /\ revision[r].remaining = Cardinality(Owed(r))
               /\ revision[r].remaining \in Nat \ {0}
<1> DEFINE r == thread[t].cur
<1>1. r \in Sealed /\ r \in Sequences /\ Alive(r)
  BY CurrentIsSealed
<1>2. thread[t].frag \in Owed(r)
  <2>1. CASE t = Coordinator
    <3>1. CASE thread[t].frag = None
      BY <2>1, <3>1 DEF Owed, SealOwes
    <3>2. CASE thread[t].frag # None
      BY <2>1, <3>2 DEF Owed, FragmentOwes, CoordinatorHas, Types, LocalsOK, ThreadType, Positions, Threads
    <3> QED
      BY <3>1, <3>2
  <2>2. CASE t \in Fragments
    BY <2>2 DEF Owed, FragmentOwes, ThreadInv, ProducerInv
  <2> QED
    BY <2>1, <2>2 DEF Threads
<1>4. revision[r].remaining = Cardinality(Owed(r)) /\ revision[r].remaining \in Nat
  BY <1>1 DEF CountInv, Types, LocalsOK, RevisionType, Revisions
<1>5. Cardinality(Owed(r)) # 0
  <2> HIDE DEF r
  <2> QED
    BY <1>2, OwedIsFinite, FS_EmptySet
<1> QED
  BY <1>1, <1>2, <1>4, <1>5

(* A thread's place and what it holds.                                     *)
LEMMA ThreadTypeStep ==
    ASSUME IInv, [Next]_vars
    PROVE  ThreadType'
<1> USE RevisionAssumption DEF Threads, Sequences, Idle
<1>0. /\ thread \in [Threads -> Positions] /\ waiters \in [Fragments -> SUBSET Sequences]
      /\ draft.slots \in [Slots -> Fragments \cup {None}] /\ latestSequence \in 0..MaxSealed
  BY DEF IInv, Types, TypeOK, LocalsOK, ThreadType
<1>1. CASE UNCHANGED vars
  BY <1>0, <1>1 DEF vars, Positions, ThreadType, Named
<1>2. ASSUME NEW f \in Fragments, NEW s \in {"Ready", "Failed"}, Settle(f, s) PROVE ThreadType'
  BY <1>0, <1>2 DEF Settle, Positions, ThreadType, Named
<1>3. ASSUME NEW f \in Fragments, TakeWaiters(f) PROVE ThreadType'
  <2>1. [thread[f] EXCEPT !.at = "walk", !.todo = waiters[f]] \in Positions
    <3>1. thread[f] \in Positions /\ waiters[f] \in SUBSET (Sequences \cup Fragments)
      BY <1>0
    <3> QED
      BY <3>1 DEF Positions
  <2>2. thread' = [thread EXCEPT ![f] = [thread[f] EXCEPT !.at = "walk", !.todo = waiters[f]]]
    BY <1>3 DEF TakeWaiters
  <2> QED
    BY <1>0, <2>1, <2>2 DEF ThreadType
<1>4. ASSUME NEW f \in Fragments, WalkEnds(f) PROVE ThreadType'
  BY <1>0, <1>4 DEF WalkEnds, WalkRest, Positions, ThreadType, Named
<1>5. ASSUME NEW f \in Fragments, NEW r \in Sequences, WalkSettles(f, r) PROVE ThreadType'
  BY <1>0, <1>5 DEF WalkSettles, WalkRest, SettleWaiter, Positions, ThreadType, Named
<1>6. ASSUME NEW f \in Fragments, NEW r \in Sequences, WalkDrops(f, r) PROVE ThreadType'
  BY <1>0, <1>6 DEF WalkDrops, WalkRest, Positions, ThreadType, Named
<1>7. ASSUME NEW t \in Threads, WriteError(t) PROVE ThreadType'
  BY <1>0, <1>7 DEF WriteError, Positions, ThreadType, Named
<1>8. ASSUME NEW t \in Threads, CountDown(t) PROVE ThreadType'
  BY <1>0, <1>8 DEF CountDown, Resume, Positions, ThreadType, Named
<1>9. ASSUME NEW t \in Threads, Notify(t) PROVE ThreadType'
  BY <1>0, <1>9 DEF Notify, Resume, Positions, ThreadType, Named
<1>10. CASE Begin
  BY <1>0, <1>10 DEF Begin, Positions, ThreadType, Named
<1>11. ASSUME NEW s \in Slots, NEW f \in Fragments, Set(s, f) PROVE ThreadType'
  BY <1>0, <1>11 DEF Set, Positions, ThreadType, Named
<1>12. CASE Seal
  BY <1>0, <1>12 DEF Seal, Positions, ThreadType, Named
<1>13. ASSUME NEW f \in Fragments, AttachSettles(f) PROVE ThreadType'
  BY <1>0, <1>13 DEF AttachSettles, AttachRest, SettleWaiter, Positions, ThreadType, Named
<1>14. ASSUME NEW f \in Fragments, AttachWaits(f) PROVE ThreadType'
  BY <1>0, <1>14 DEF AttachWaits, AttachRest, Positions, ThreadType, Named
<1>15. CASE AttachEnd
  BY <1>0, <1>15 DEF AttachEnd, Positions, ThreadType, Named
<1>16. CASE Collect
  BY <1>0, <1>16 DEF Collect, Positions, ThreadType, Named
<1>17. CASE TrySelect
  BY <1>0, <1>17 DEF TrySelect, Positions, ThreadType, Named
<1>18. ASSUME NEW f \in Fragments, WalkWaiter(f) PROVE ThreadType'
  BY <1>4, <1>5, <1>6, <1>18, WalkCases DEF IInv
<1>19. CASE Attach
  BY <1>13, <1>14, <1>19, AttachCases DEF IInv
<1> QED
  BY <1>1, <1>2, <1>3, <1>4, <1>5, <1>6, <1>7, <1>8, <1>9, <1>10, <1>11, <1>12, <1>13, <1>14, <1>15, <1>16, <1>17, <1>18, <1>19
     DEF Next, Produce, Sealing, Walk, Threads

(* A revision's slots and decision.                                        *)
LEMMA RevisionTypeStep ==
    ASSUME IInv, [Next]_vars
    PROVE  RevisionType'
<1> USE RevisionAssumption DEF Threads, Sequences
<1>0. /\ revision \in [Sequences -> Revisions] /\ thread \in [Threads -> Positions]
      /\ draft.slots \in [Slots -> Fragments \cup {None}] /\ latestSequence \in 0..MaxSealed
      /\ IsFiniteSet(Fragments)
  BY DEF IInv, Types, TypeOK, LocalsOK, ThreadType, RevisionType
<1>1. CASE UNCHANGED vars
  BY <1>0, <1>1 DEF vars, Revisions, RevisionType
<1>2. ASSUME NEW f \in Fragments, NEW s \in {"Ready", "Failed"}, Settle(f, s) PROVE RevisionType'
  BY <1>0, <1>2 DEF Settle, Revisions, RevisionType
<1>3. ASSUME NEW f \in Fragments, TakeWaiters(f) PROVE RevisionType'
  BY <1>0, <1>3 DEF TakeWaiters, Revisions, RevisionType
<1>4. ASSUME NEW f \in Fragments, WalkEnds(f) PROVE RevisionType'
  BY <1>0, <1>4 DEF WalkEnds, WalkRest, Revisions, RevisionType
<1>5. ASSUME NEW f \in Fragments, NEW r \in Sequences, WalkSettles(f, r) PROVE RevisionType'
  BY <1>0, <1>5 DEF WalkSettles, WalkRest, SettleWaiter, Revisions, RevisionType
<1>6. ASSUME NEW f \in Fragments, NEW r \in Sequences, WalkDrops(f, r) PROVE RevisionType'
  BY <1>0, <1>6 DEF WalkDrops, WalkRest, Revisions, RevisionType
<1>7. ASSUME NEW t \in Threads, WriteError(t) PROVE RevisionType'
  <2>1. thread[t].cur \in Sequences /\ thread[t].frag \in Fragments \cup {None}
    BY <1>0, <1>7, CurrentIsSealed DEF WriteError, IInv, Positions
  <2> QED
    BY <1>0, <1>7, <2>1 DEF WriteError, RevisionType, Revisions
<1>8. ASSUME NEW t \in Threads, CountDown(t) PROVE RevisionType'
  <2>1. /\ thread[t].cur \in Sequences
        /\ revision[thread[t].cur].remaining - 1 \in Nat
    BY <1>8, CounterOwes DEF CountDown, IInv
  <2> QED
    BY <1>0, <1>8, <2>1 DEF CountDown, RevisionType, Revisions
<1>9. ASSUME NEW t \in Threads, Notify(t) PROVE RevisionType'
  BY <1>0, <1>9 DEF Notify, Resume, Revisions, RevisionType
<1>10. CASE Begin
  BY <1>0, <1>10 DEF Begin, Revisions, RevisionType
<1>11. ASSUME NEW s \in Slots, NEW f \in Fragments, Set(s, f) PROVE RevisionType'
  BY <1>0, <1>11 DEF Set, Revisions, RevisionType
<1>12. CASE Seal
  <2>1. Cardinality(Named(draft.slots)) + 1 \in Nat
    BY <1>0, FS_Subset, FS_CardinalityType DEF Named
  <2> QED
    BY <1>0, <1>12, <2>1 DEF Seal, RevisionType, Revisions
<1>13. ASSUME NEW f \in Fragments, AttachSettles(f) PROVE RevisionType'
  BY <1>0, <1>13 DEF AttachSettles, AttachRest, SettleWaiter, Revisions, RevisionType
<1>14. ASSUME NEW f \in Fragments, AttachWaits(f) PROVE RevisionType'
  BY <1>0, <1>14 DEF AttachWaits, AttachRest, Revisions, RevisionType
<1>15. CASE AttachEnd
  BY <1>0, <1>15 DEF AttachEnd, Revisions, RevisionType
<1>16. CASE Collect
  BY <1>0, <1>16 DEF Collect, Revisions, RevisionType
<1>17. CASE TrySelect
  BY <1>0, <1>17 DEF TrySelect, Revisions, RevisionType
<1>18. ASSUME NEW f \in Fragments, WalkWaiter(f) PROVE RevisionType'
  BY <1>4, <1>5, <1>6, <1>18, WalkCases DEF IInv
<1>19. CASE Attach
  BY <1>13, <1>14, <1>19, AttachCases DEF IInv
<1> QED
  BY <1>1, <1>2, <1>3, <1>4, <1>5, <1>6, <1>7, <1>8, <1>9, <1>10, <1>11, <1>12, <1>13, <1>14, <1>15, <1>16, <1>17, <1>18, <1>19
     DEF Next, Produce, Sealing, Walk, Threads

(* The shared variables.                                                   *)
LEMMA StateTypeStep ==
    ASSUME IInv, [Next]_vars
    PROVE  TypeOK'
<1> USE RevisionAssumption DEF Threads, Sequences
<1>0. /\ TypeOK /\ ThreadType /\ RevisionType
      /\ pending \subseteq Sealed /\ completed \subseteq Sealed
  BY DEF IInv, Types, LocalsOK, OrderInv, CountInv
<1>1. CASE UNCHANGED vars
  BY <1>0, <1>1 DEF vars, TypeOK
<1>2. ASSUME NEW f \in Fragments, NEW s \in {"Ready", "Failed"}, Settle(f, s) PROVE TypeOK'
  BY <1>0, <1>2 DEF Settle, TypeOK
<1>3. ASSUME NEW f \in Fragments, TakeWaiters(f) PROVE TypeOK'
  BY <1>0, <1>3 DEF TakeWaiters, TypeOK
<1>4. ASSUME NEW f \in Fragments, WalkEnds(f) PROVE TypeOK'
  BY <1>0, <1>4 DEF WalkEnds, WalkRest, TypeOK
<1>5. ASSUME NEW f \in Fragments, NEW r \in Sequences, WalkSettles(f, r) PROVE TypeOK'
  BY <1>0, <1>5 DEF WalkSettles, WalkRest, SettleWaiter, TypeOK
<1>6. ASSUME NEW f \in Fragments, NEW r \in Sequences, WalkDrops(f, r) PROVE TypeOK'
  BY <1>0, <1>6 DEF WalkDrops, WalkRest, TypeOK
<1>7. ASSUME NEW t \in Threads, WriteError(t) PROVE TypeOK'
  BY <1>0, <1>7 DEF WriteError, TypeOK
<1>8. ASSUME NEW t \in Threads, CountDown(t) PROVE TypeOK'
  <2>1. thread[t].cur \in Sequences /\ revision[thread[t].cur].remaining \in Nat \ {0}
    BY <1>8, CounterOwes DEF CountDown, IInv
  <2>2. \A r \in Sequences : revision'[r].remaining \in {revision[r].remaining, revision[r].remaining - 1}
                             /\ (r # thread[t].cur => revision'[r] = revision[r])
    BY <1>0, <1>8, <2>1 DEF CountDown, RevisionType, Revisions
  <2>3. revision'[thread[t].cur].remaining = revision[thread[t].cur].remaining - 1
    BY <1>0, <1>8, <2>1 DEF CountDown, RevisionType, Revisions
  <2>4. Cardinality(Fragments) \in Nat
    BY FS_CardinalityType
  <2>5. \A r \in Sequences : revision'[r].remaining \in 0..(Cardinality(Fragments) + 1)
    BY <1>0, <2>1, <2>2, <2>3, <2>4 DEF TypeOK
  <2>6. completed' \subseteq Sequences
    BY <1>0, <1>8, <2>1 DEF CountDown, TypeOK
  <2> QED
    BY <1>0, <1>8, <2>5, <2>6 DEF CountDown, TypeOK
<1>9. ASSUME NEW t \in Threads, Notify(t) PROVE TypeOK'
  BY <1>0, <1>9 DEF Notify, Resume, TypeOK
<1>10. CASE Begin
  BY <1>0, <1>10 DEF Begin, TypeOK
<1>11. ASSUME NEW s \in Slots, NEW f \in Fragments, Set(s, f) PROVE TypeOK'
  BY <1>0, <1>11 DEF Set, TypeOK
<1>12. CASE Seal
  <2>1. Cardinality(Named(draft.slots)) \in 0..Cardinality(Fragments) /\ Cardinality(Fragments) \in Nat
    <3>1. Named(draft.slots) \subseteq Fragments /\ IsFiniteSet(Fragments)
      BY <1>0 DEF TypeOK, Named
    <3> QED
      BY <3>1, FS_Subset, FS_CardinalityType
  <2>2. latestSequence + 1 \in Sequences /\ latestSequence' = latestSequence + 1
    BY <1>0, <1>12 DEF Seal, TypeOK
  <2>3. \A r \in Sequences : revision'[r] =
            IF r = latestSequence + 1
            THEN [slots |-> draft.slots, remaining |-> Cardinality(Named(draft.slots)) + 1,
                  failed |-> FALSE, error |-> None]
            ELSE revision[r]
    BY <1>0, <1>12 DEF Seal, RevisionType
  <2>4. \A r \in Sequences : revision'[r].remaining \in 0..(Cardinality(Fragments) + 1)
    BY <1>0, <2>1, <2>3 DEF TypeOK
  <2>5. /\ pending' \subseteq Sequences /\ latest' \in [Slots -> Fragments \cup {None}]
        /\ latestSequence' \in 0..MaxSealed /\ published \in 0..latestSequence'
    BY <1>0, <1>12, <2>2 DEF Seal, TypeOK
  <2> QED
    BY <1>0, <1>12, <2>4, <2>5 DEF Seal, TypeOK
<1>13. ASSUME NEW f \in Fragments, AttachSettles(f) PROVE TypeOK'
  BY <1>0, <1>13 DEF AttachSettles, AttachRest, SettleWaiter, TypeOK
<1>14. ASSUME NEW f \in Fragments, AttachWaits(f) PROVE TypeOK'
  <2>1. thread[Coordinator].cur \in Sequences
    BY <1>14, CurrentIsSealed DEF AttachWaits, IInv
  <2>2. waiters' \in [Fragments -> SUBSET Sequences]
    BY <1>0, <1>14, <2>1 DEF AttachWaits, TypeOK
  <2> QED
    BY <1>0, <1>14, <2>2 DEF AttachWaits, AttachRest, TypeOK
<1>15. CASE AttachEnd
  BY <1>0, <1>15 DEF AttachEnd, TypeOK
<1>16. CASE Collect
  <2> DEFINE whole == {r \in (completed \cap pending) \
                                  {q \in completed \cap pending : revision[q].failed} : r > published}
  <2>1. whole \subseteq 0..MaxSealed /\ \A r \in whole : r \in Sealed /\ r > published
    <3>1. whole \subseteq pending
      OBVIOUS
    <3>2. latestSequence \in 0..MaxSealed
      BY <1>0 DEF TypeOK
    <3>3. \A r \in whole : r > published
      OBVIOUS
    <3> HIDE DEF whole
    <3>4. \A r \in whole : r \in Sealed
      BY <1>0, <3>1
    <3>5. Sealed \subseteq 0..MaxSealed
      BY <3>2 DEF Sealed
    <3> QED
      BY <3>3, <3>4, <3>5
  <2>2. whole # {} => Max(whole) \in whole
    BY <2>1, MaxExists
  <2>3. PICK new : new = IF whole = {} THEN published ELSE Max(whole)
    OBVIOUS
  <2>4. /\ published' = new
        /\ mailbox' = IF whole = {} THEN mailbox ELSE new
        /\ completed' = {} /\ wake' = FALSE
        /\ UNCHANGED <<state, waiters, closed, draft, latest, latestSequence, revision, active>>
    BY <1>16, <2>3 DEF Collect
  <2>5. pending' \subseteq pending
    BY <1>16 DEF Collect
  <2>6. new \in 0..latestSequence /\ new >= published
    <3> HIDE DEF whole
    <3> QED
      BY <1>0, <2>1, <2>2, <2>3 DEF TypeOK, Sealed
  <2>7. mailbox' \in 0..new /\ active \in 0..new
    BY <1>0, <2>4, <2>6 DEF TypeOK
  <2> QED
    BY <1>0, <2>4, <2>5, <2>6, <2>7 DEF TypeOK
<1>17. CASE TrySelect
  BY <1>0, <1>17 DEF TrySelect, TypeOK
<1>18. ASSUME NEW f \in Fragments, WalkWaiter(f) PROVE TypeOK'
  BY <1>4, <1>5, <1>6, <1>18, WalkCases DEF IInv
<1>19. CASE Attach
  BY <1>13, <1>14, <1>19, AttachCases DEF IInv
<1> QED
  BY <1>1, <1>2, <1>3, <1>4, <1>5, <1>6, <1>7, <1>8, <1>9, <1>10, <1>11, <1>12, <1>13, <1>14, <1>15, <1>16, <1>17, <1>18, <1>19
     DEF Next, Produce, Sealing, Walk, Threads

(* The types.                                                               *)
LEMMA TypeStep ==
    ASSUME IInv, [Next]_vars
    PROVE  Types'
<1>1. TypeOK' /\ ThreadType' /\ RevisionType'
  BY StateTypeStep, ThreadTypeStep, RevisionTypeStep
<1>2. published' \in Nat /\ mailbox' \in Nat /\ active' \in Nat
  BY <1>1, RevisionAssumption DEF TypeOK
<1>3. stats' \in [sealed : Int, published : Int, failed : Int, superseded : Int, abandoned : Int]
  <2> DEFINE Counters == [sealed : Int, published : Int, failed : Int, superseded : Int, abandoned : Int]
  <2>0. stats \in Counters
    BY DEF IInv, Types, LocalsOK
  <2>1. CASE Seal
    BY <2>0, <2>1 DEF Seal
  <2>2. CASE Collect
    <3>1. ASSUME NEW S PROVE S \subseteq pending \cup completed => Cardinality(S) \in Int
      <4>1. IsFiniteSet(Sequences)
        BY RevisionAssumption, FS_Interval DEF Sequences
      <4>2. pending \cup completed \subseteq Sequences
        BY DEF IInv, Types, TypeOK
      <4> QED
        BY <4>1, <4>2, FS_Subset, FS_CardinalityType
    <3> DEFINE mine == completed \cap pending
               failures == {r \in mine : revision[r].failed}
               whole == {r \in mine \ failures : r > published}
               newest == IF whole = {} THEN published ELSE Max(whole)
               left == pending \ mine
               kept == IF whole = {} THEN left ELSE {r \in left : r >= newest}
    <3>2. PICK a, b, c, d : a = Cardinality(failures) /\ b = (IF whole = {} THEN 0 ELSE 1)
                            /\ c = Cardinality(mine \ failures) /\ d = Cardinality(left \ kept)
      OBVIOUS
    <3>3. a \in Int /\ b \in Int /\ c \in Int /\ d \in Int
      <4>1. failures \subseteq pending \cup completed /\ mine \ failures \subseteq pending \cup completed
            /\ left \ kept \subseteq pending \cup completed
        OBVIOUS
      <4> HIDE DEF mine, failures, whole, left, kept
      <4> QED
        BY <3>1, <3>2, <4>1
    <3>4. stats' = [stats EXCEPT !.failed = @ + a, !.published = @ + b,
                                 !.superseded = @ + c - b, !.abandoned = @ + d]
      BY <2>2, <3>2 DEF Collect
    <3> HIDE DEF mine, failures, whole, newest, left, kept
    <3>5. stats' = [sealed |-> stats.sealed, published |-> stats.published + b,
                    failed |-> stats.failed + a, superseded |-> stats.superseded + c - b,
                    abandoned |-> stats.abandoned + d]
      BY <2>0, <3>4
    <3>6. /\ stats.sealed \in Int /\ stats.published \in Int /\ stats.failed \in Int
          /\ stats.superseded \in Int /\ stats.abandoned \in Int
      BY <2>0
    <3> QED
      BY <3>3, <3>5, <3>6
  <2>3. CASE UNCHANGED stats
    BY <2>0, <2>3
  <2> QED
    BY <2>1, <2>2, <2>3 DEF Next, Produce, Sealing, Walk, vars, TakeWaiters, WalkWaiter, Settle, WriteError,
       CountDown, Notify, Begin, Set, Attach, AttachEnd, TrySelect
<1> QED
  BY <1>1, <1>2, <1>3 DEF Types, LocalsOK


(* Where the coordinator can be.                                            *)
LEMMA CoordinatorStep ==
    ASSUME IInv, [Next]_vars
    PROVE  CoordinatorInv'
<1> USE DEF Idle
<1>0. /\ thread \in [Threads -> Positions] /\ waiters \in [Fragments -> SUBSET Sequences]
      /\ state \in [Fragments -> {"Pending", "Ready", "Failed"}] /\ closed \subseteq Fragments
      /\ latestSequence \in Nat /\ None \notin Fragments
      /\ Coordinator \in Threads /\ \A g \in Fragments : g \in Threads /\ g # Coordinator
      /\ CoordinatorInv /\ draft.slots \in [Slots -> Fragments \cup {None}]
  BY RevisionAssumption DEF IInv, Types, TypeOK, LocalsOK, ThreadInv, ThreadType, Threads, Coordinator
<1>1. CASE UNCHANGED vars
  BY <1>0, <1>1 DEF vars, CoordinatorInv, Positions
<1>2. ASSUME NEW f \in Fragments, NEW s \in {"Ready", "Failed"}, Settle(f, s) PROVE CoordinatorInv'
  BY <1>0, <1>2 DEF Settle, CoordinatorInv, Positions
<1>3. ASSUME NEW f \in Fragments, TakeWaiters(f) PROVE CoordinatorInv'
  BY <1>0, <1>3 DEF TakeWaiters, CoordinatorInv, Positions
<1>4. ASSUME NEW f \in Fragments, WalkEnds(f) PROVE CoordinatorInv'
  BY <1>0, <1>4 DEF WalkEnds, WalkRest, CoordinatorInv, Positions
<1>5. ASSUME NEW f \in Fragments, NEW r \in Sequences, WalkSettles(f, r) PROVE CoordinatorInv'
  BY <1>0, <1>5 DEF WalkSettles, WalkRest, SettleWaiter, CoordinatorInv, Positions
<1>6. ASSUME NEW f \in Fragments, NEW r \in Sequences, WalkDrops(f, r) PROVE CoordinatorInv'
  BY <1>0, <1>6 DEF WalkDrops, WalkRest, CoordinatorInv, Positions
<1>7. ASSUME NEW t \in Threads, WriteError(t) PROVE CoordinatorInv'
  BY <1>0, <1>7 DEF WriteError, CoordinatorInv, Positions
<1>8. ASSUME NEW t \in Threads, CountDown(t) PROVE CoordinatorInv'
  BY <1>0, <1>8 DEF CountDown, Resume, CoordinatorInv, Positions
<1>9. ASSUME NEW t \in Threads, Notify(t) PROVE CoordinatorInv'
  BY <1>0, <1>9 DEF Notify, Resume, CoordinatorInv, Positions
<1>10. CASE Begin
  BY <1>0, <1>10 DEF Begin, CoordinatorInv, Positions
<1>11. ASSUME NEW s \in Slots, NEW f \in Fragments, Set(s, f) PROVE CoordinatorInv'
  BY <1>0, <1>11 DEF Set, CoordinatorInv, Positions
<1>12. CASE Seal
  BY <1>0, <1>12 DEF Seal, Named, CoordinatorInv, Positions
<1>13. ASSUME NEW f \in Fragments, AttachSettles(f) PROVE CoordinatorInv'
  BY <1>0, <1>13 DEF AttachSettles, AttachRest, SettleWaiter, CoordinatorInv, Positions
<1>14. ASSUME NEW f \in Fragments, AttachWaits(f) PROVE CoordinatorInv'
  BY <1>0, <1>14 DEF AttachWaits, AttachRest, CoordinatorInv, Positions
<1>15. CASE AttachEnd
  BY <1>0, <1>15 DEF AttachEnd, CoordinatorInv, Positions
<1>16. CASE Collect
  BY <1>0, <1>16 DEF Collect, CoordinatorInv, Positions
<1>17. CASE TrySelect
  BY <1>0, <1>17 DEF TrySelect, CoordinatorInv, Positions
<1>18. ASSUME NEW f \in Fragments, WalkWaiter(f) PROVE CoordinatorInv'
  BY <1>4, <1>5, <1>6, <1>18, WalkCases DEF IInv
<1>19. CASE Attach
  BY <1>13, <1>14, <1>19, AttachCases DEF IInv
<1> QED
  BY <1>1, <1>2, <1>3, <1>4, <1>5, <1>6, <1>7, <1>8, <1>9, <1>10, <1>11, <1>12, <1>13, <1>14, <1>15, <1>16, <1>17, <1>18, <1>19
     DEF Next, Produce, Sealing, Walk, Threads

(* Where a producer can be.                                                 *)
LEMMA ProducerStep ==
    ASSUME IInv, [Next]_vars
    PROVE  (\A p \in Fragments : ProducerInv(p))'
<1> USE DEF Idle, Threads
<1>0. /\ thread \in [Threads -> Positions] /\ waiters \in [Fragments -> SUBSET Sequences]
      /\ state \in [Fragments -> {"Pending", "Ready", "Failed"}] /\ closed \subseteq Fragments
      /\ latestSequence \in Nat /\ None \notin Fragments
      /\ Coordinator \in Threads /\ \A g \in Fragments : g \in Threads /\ g # Coordinator
      /\ CoordinatorInv /\ \A g \in Fragments : ProducerInv(g)
  BY RevisionAssumption DEF IInv, Types, TypeOK, LocalsOK, ThreadInv, ThreadType, Threads, Coordinator
<1>1. CASE UNCHANGED vars
  BY <1>0, <1>1 DEF vars, ProducerInv, Positions
<1>2. ASSUME NEW f \in Fragments, NEW s \in {"Ready", "Failed"}, Settle(f, s) PROVE (\A p \in Fragments : ProducerInv(p))'
  BY <1>0, <1>2 DEF Settle, ProducerInv, Positions
<1>3. ASSUME NEW f \in Fragments, TakeWaiters(f) PROVE (\A p \in Fragments : ProducerInv(p))'
  BY <1>0, <1>3 DEF TakeWaiters, ProducerInv, Positions
<1>4. ASSUME NEW f \in Fragments, WalkEnds(f) PROVE (\A p \in Fragments : ProducerInv(p))'
  BY <1>0, <1>4 DEF WalkEnds, WalkRest, ProducerInv, Positions
<1>5. ASSUME NEW f \in Fragments, NEW r \in Sequences, WalkSettles(f, r) PROVE (\A p \in Fragments : ProducerInv(p))'
  <2>1. /\ \A p \in Fragments \ {f} : thread'[p] = thread[p]
        /\ \E at \in {"error", "count"} :
               thread'[f] = [at |-> at, todo |-> thread[f].todo \ {r}, cur |-> r, frag |-> f]
        /\ state' = state /\ waiters' = waiters /\ closed' = closed /\ thread[f].at = "walk"
    BY <1>0, <1>5 DEF WalkSettles, WalkRest, SettleWaiter
  <2>2. r # 0
    BY DEF Sequences
  <2> QED
    BY <1>0, <2>1, <2>2 DEF ProducerInv
<1>6. ASSUME NEW f \in Fragments, NEW r \in Sequences, WalkDrops(f, r) PROVE (\A p \in Fragments : ProducerInv(p))'
  BY <1>0, <1>6 DEF WalkDrops, WalkRest, ProducerInv, Positions
<1>7. ASSUME NEW t \in Threads, WriteError(t) PROVE (\A p \in Fragments : ProducerInv(p))'
  BY <1>0, <1>7 DEF WriteError, ProducerInv, Positions
<1>8. ASSUME NEW t \in Threads, CountDown(t) PROVE (\A p \in Fragments : ProducerInv(p))'
  BY <1>0, <1>8 DEF CountDown, Resume, ProducerInv, Positions
<1>9. ASSUME NEW t \in Threads, Notify(t) PROVE (\A p \in Fragments : ProducerInv(p))'
  BY <1>0, <1>9 DEF Notify, Resume, ProducerInv, Positions
<1>10. CASE Begin
  BY <1>0, <1>10 DEF Begin, ProducerInv, Positions
<1>11. ASSUME NEW s \in Slots, NEW f \in Fragments, Set(s, f) PROVE (\A p \in Fragments : ProducerInv(p))'
  BY <1>0, <1>11 DEF Set, ProducerInv, Positions
<1>12. CASE Seal
  BY <1>0, <1>12 DEF Seal, ProducerInv, Positions
<1>13. ASSUME NEW f \in Fragments, AttachSettles(f) PROVE (\A p \in Fragments : ProducerInv(p))'
  BY <1>0, <1>13 DEF AttachSettles, AttachRest, SettleWaiter, ProducerInv, Positions
<1>14. ASSUME NEW f \in Fragments, AttachWaits(f) PROVE (\A p \in Fragments : ProducerInv(p))'
  BY <1>0, <1>14 DEF AttachWaits, AttachRest, ProducerInv, Positions
<1>15. CASE AttachEnd
  BY <1>0, <1>15 DEF AttachEnd, ProducerInv, Positions
<1>16. CASE Collect
  BY <1>0, <1>16 DEF Collect, ProducerInv, Positions
<1>17. CASE TrySelect
  BY <1>0, <1>17 DEF TrySelect, ProducerInv, Positions
<1>18. ASSUME NEW f \in Fragments, WalkWaiter(f) PROVE (\A p \in Fragments : ProducerInv(p))'
  BY <1>4, <1>5, <1>6, <1>18, WalkCases DEF IInv
<1>19. CASE Attach
  BY <1>13, <1>14, <1>19, AttachCases DEF IInv
<1> QED
  BY <1>1, <1>2, <1>3, <1>4, <1>5, <1>6, <1>7, <1>8, <1>9, <1>10, <1>11, <1>12, <1>13, <1>14, <1>15, <1>16, <1>17, <1>18, <1>19
     DEF Next, Produce, Sealing, Walk, Threads

(* The facts about threads the steps below share.                           *)
LEMMA Places ==
    ASSUME IInv
    PROVE  /\ thread \in [Threads -> Positions] /\ waiters \in [Fragments -> SUBSET Sequences]
           /\ state \in [Fragments -> {"Pending", "Ready", "Failed"}] /\ closed \subseteq Fragments
           /\ revision \in [Sequences -> Revisions] /\ draft.slots \in [Slots -> Fragments \cup {None}]
           /\ latestSequence \in 0..MaxSealed /\ None \notin Fragments
           /\ Sealed \subseteq Sequences /\ Sealed \subseteq Nat /\ 0 \notin Sealed
           /\ Coordinator \in Threads /\ \A g \in Fragments : g \in Threads /\ g # Coordinator
           /\ CoordinatorInv /\ \A g \in Fragments : ProducerInv(g)
<1>1. Sealed \subseteq Sequences /\ Sealed \subseteq Nat /\ 0 \notin Sealed
  BY RevisionAssumption DEF IInv, Types, TypeOK, Sealed, Sequences
<1> QED
  BY <1>1, RevisionAssumption
     DEF IInv, Types, TypeOK, LocalsOK, ThreadInv, ThreadType, RevisionType, Threads, Coordinator

(* What never changes: a sealed revision's slots, a settled fragment, a     *)
(* failed revision.                                                        *)
LEMMA Lasting ==
    ASSUME IInv, [Next]_vars
    PROVE  /\ ~Seal => latestSequence' = latestSequence
           /\ Sealed \subseteq Sealed'
           /\ \A r \in Sealed : /\ revision'[r].slots = revision[r].slots
                                /\ Names(r)' = Names(r)
                                /\ revision[r].failed => revision'[r].failed
           /\ \A f \in Fragments : state[f] # "Pending" => state'[f] = state[f]
<1> DEFINE Goal == /\ ~Seal => latestSequence' = latestSequence
                   /\ Sealed \subseteq Sealed'
                   /\ \A r \in Sealed : /\ revision'[r].slots = revision[r].slots
                                        /\ revision[r].failed => revision'[r].failed
                   /\ \A f \in Fragments : state[f] # "Pending" => state'[f] = state[f]
<1>0. /\ revision \in [Sequences -> Revisions] /\ Sealed \subseteq Sequences
      /\ state \in [Fragments -> {"Pending", "Ready", "Failed"}]
  BY Places
<1>1. ASSUME revision' = revision, state' = state, latestSequence' = latestSequence PROVE Goal
  BY <1>1 DEF Sealed
<1>2. ASSUME NEW f \in Fragments, NEW s \in {"Ready", "Failed"}, Settle(f, s) PROVE Goal
  BY <1>0, <1>2 DEF Settle, Sealed
<1>3. ASSUME NEW f \in Fragments, NEW r \in Sequences, WalkSettles(f, r) PROVE Goal
  BY <1>0, <1>3 DEF WalkSettles, WalkRest, SettleWaiter, Sealed, Revisions
<1>4. ASSUME NEW f \in Fragments, AttachSettles(f) PROVE Goal
  BY <1>0, <1>4 DEF AttachSettles, AttachRest, SettleWaiter, Sealed, Revisions
<1>5. ASSUME NEW t \in Threads, WriteError(t) PROVE Goal
  BY <1>0, <1>5 DEF WriteError, Sealed, Revisions
<1>6. ASSUME NEW t \in Threads, CountDown(t) PROVE Goal
  BY <1>0, <1>6 DEF CountDown, Sealed, Revisions
<1>7. ASSUME Seal PROVE Goal
  <2>1. Sealed \subseteq Sealed' /\ latestSequence + 1 \notin Sealed
    BY <1>7, Places DEF Seal, Sealed
  <2> QED
    BY <1>0, <1>7, <2>1 DEF Seal, Revisions
<1>8. ASSUME NEW f \in Fragments, WalkWaiter(f) PROVE Goal
  <2>1. ASSUME NEW r \in Sequences, WalkDrops(f, r) PROVE Goal
    BY <1>1, <2>1 DEF WalkDrops, WalkRest
  <2>2. WalkEnds(f) => Goal
    BY <1>1 DEF WalkEnds, WalkRest
  <2> QED
    BY <1>3, <1>8, <2>1, <2>2, WalkCases DEF IInv
<1>9. ASSUME Attach PROVE Goal
  <2>1. ASSUME NEW f \in Fragments, AttachWaits(f) PROVE Goal
    BY <1>1, <2>1 DEF AttachWaits, AttachRest
  <2> QED
    BY <1>4, <1>9, <2>1, AttachCases DEF IInv
<1> HIDE DEF Goal
<1>10. ASSUME NEW f \in Fragments, TakeWaiters(f) PROVE Goal
  BY <1>1, <1>10 DEF TakeWaiters
<1>11. ASSUME NEW t \in Threads, Notify(t) PROVE Goal
  BY <1>1, <1>11 DEF Notify
<1>12. ASSUME Begin \/ AttachEnd \/ Collect \/ TrySelect \/ UNCHANGED vars PROVE Goal
  BY <1>1, <1>12 DEF Begin, AttachEnd, Collect, TrySelect, vars
<1>13. ASSUME NEW s \in Slots, NEW f \in Fragments, Set(s, f) PROVE Goal
  BY <1>1, <1>13 DEF Set
<1>14. Goal
  BY <1>2, <1>5, <1>6, <1>7, <1>8, <1>9, <1>10, <1>11, <1>12, <1>13 DEF Next, Produce, Sealing, Walk, Threads
<1>15. \A r \in Sealed : Names(r)' = Names(r)
  BY <1>14 DEF Goal, Names, Named
<1> QED
  BY <1>14, <1>15 DEF Goal

(* Each count that is owed has one carrier.                                *)
LEMMA TokenStep ==
    ASSUME IInv, [Next]_vars
    PROVE  TokenInv'
<1>0. /\ TokenInv /\ thread \in [Threads -> Positions] /\ waiters \in [Fragments -> SUBSET Sequences]
      /\ CoordinatorInv /\ (\A g \in Fragments : ProducerInv(g)) /\ 0 \notin Sealed
      /\ None \notin Fragments /\ Coordinator \in Threads
      /\ \A g \in Fragments : g \in Threads /\ g # Coordinator
      /\ \A r \in Sealed : Names(r)' = Names(r)
  BY Places, Lasting DEF IInv
<1>1. CASE UNCHANGED vars
  BY <1>0, <1>1 DEF vars, TokenInv, ProducerHas, CoordinatorHas, Sealed
<1>2. ASSUME NEW f \in Fragments, NEW s \in {"Ready", "Failed"}, Settle(f, s) PROVE TokenInv'
  BY <1>0, <1>2 DEF Settle, TokenInv, ProducerHas, CoordinatorHas, Sealed
<1>3. ASSUME NEW f \in Fragments, TakeWaiters(f) PROVE TokenInv'
  <2>1. /\ \A p \in Fragments \ {f} : thread'[p] = thread[p] /\ waiters'[p] = waiters[p]
        /\ thread'[f].todo = waiters[f] /\ thread'[f].cur = 0 /\ waiters'[f] = {}
    BY <1>0, <1>3 DEF TakeWaiters, ProducerInv, Positions
  <2>2. thread'[Coordinator] = thread[Coordinator] /\ latestSequence' = latestSequence
    BY <1>0, <1>3 DEF TakeWaiters
  <2> QED
    BY <1>0, <2>1, <2>2 DEF TokenInv, ProducerHas, CoordinatorHas, Sealed
<1>4. ASSUME NEW f \in Fragments, WalkEnds(f) PROVE TokenInv'
  <2>1. /\ \A p \in Fragments \ {f} : thread'[p] = thread[p]
        /\ waiters' = waiters /\ thread'[f].todo = {} /\ thread'[f].cur = 0
    BY <1>0, <1>4 DEF WalkEnds, WalkRest, Idle
  <2>2. thread'[Coordinator] = thread[Coordinator] /\ latestSequence' = latestSequence
    BY <1>0, <1>4 DEF WalkEnds, WalkRest
  <2> QED
    BY <1>0, <2>1, <2>2 DEF TokenInv, ProducerHas, CoordinatorHas, Sealed
<1>5. ASSUME NEW f \in Fragments, NEW r \in Sequences, WalkSettles(f, r) PROVE TokenInv'
  BY <1>0, <1>5 DEF WalkSettles, WalkRest, SettleWaiter, TokenInv, ProducerHas, CoordinatorHas, Sealed
<1>6. ASSUME NEW f \in Fragments, NEW r \in Sequences, WalkDrops(f, r) PROVE TokenInv'
  BY <1>0, <1>6 DEF WalkDrops, WalkRest, TokenInv, ProducerHas, CoordinatorHas, Sealed
<1>7. ASSUME NEW t \in Threads, WriteError(t) PROVE TokenInv'
  BY <1>0, <1>7 DEF WriteError, TokenInv, ProducerHas, CoordinatorHas, Sealed
<1>8. ASSUME NEW t \in Threads, CountDown(t) PROVE TokenInv'
  <2>1. /\ \A p \in Fragments : /\ thread'[p].todo = thread[p].todo
                                /\ thread'[p].cur = thread[p].cur \/ thread'[p].cur = 0
        /\ waiters' = waiters
    BY <1>0, <1>8 DEF CountDown, Resume, Positions
  <2>2. /\ Sealed' = Sealed
        /\ \A r \in Sealed, g \in Fragments : CoordinatorHas(r, g)' => CoordinatorHas(r, g)
    BY <1>0, <1>8 DEF CountDown, Resume, Idle, CoordinatorHas, CoordinatorInv, Positions, Sealed
  <2>3. \A p \in Fragments : \A q \in ProducerHas(p)' :
            q \in Sealed' /\ p \in Names(q)' /\ ~CoordinatorHas(q, p)'
    <3>1. \A p \in Fragments : \A q \in ProducerHas(p)' : q \in ProducerHas(p)
      BY <2>1 DEF ProducerHas
    <3> QED
      BY <1>0, <2>2, <3>1 DEF TokenInv
  <2>4. \A p \in Fragments : thread'[p].cur \notin thread'[p].todo
    <3>1. \A p \in Fragments : 0 \notin thread[p].todo
      BY <1>0 DEF TokenInv, ProducerHas
    <3> QED
      BY <1>0, <2>1, <3>1 DEF TokenInv
  <2>5. \A r \in Sealed', g \in Fragments : CoordinatorHas(r, g)' => g \in Names(r)'
    BY <1>0, <2>2 DEF TokenInv
  <2> QED
    BY <2>3, <2>4, <2>5 DEF TokenInv
<1>9. ASSUME NEW t \in Threads, Notify(t) PROVE TokenInv'
  <2>1. /\ \A p \in Fragments : /\ thread'[p].todo = thread[p].todo
                                /\ thread'[p].cur = thread[p].cur \/ thread'[p].cur = 0
        /\ waiters' = waiters
    BY <1>0, <1>9 DEF Notify, Resume, Positions
  <2>2. /\ Sealed' = Sealed
        /\ \A r \in Sealed, g \in Fragments : CoordinatorHas(r, g)' => CoordinatorHas(r, g)
    BY <1>0, <1>9 DEF Notify, Resume, Idle, CoordinatorHas, CoordinatorInv, Positions, Sealed
  <2>3. \A p \in Fragments : \A q \in ProducerHas(p)' :
            q \in Sealed' /\ p \in Names(q)' /\ ~CoordinatorHas(q, p)'
    <3>1. \A p \in Fragments : \A q \in ProducerHas(p)' : q \in ProducerHas(p)
      BY <2>1 DEF ProducerHas
    <3> QED
      BY <1>0, <2>2, <3>1 DEF TokenInv
  <2>4. \A p \in Fragments : thread'[p].cur \notin thread'[p].todo
    <3>1. \A p \in Fragments : 0 \notin thread[p].todo
      BY <1>0 DEF TokenInv, ProducerHas
    <3> QED
      BY <1>0, <2>1, <3>1 DEF TokenInv
  <2>5. \A r \in Sealed', g \in Fragments : CoordinatorHas(r, g)' => g \in Names(r)'
    BY <1>0, <2>2 DEF TokenInv
  <2> QED
    BY <2>3, <2>4, <2>5 DEF TokenInv
<1>10. CASE Begin
  BY <1>0, <1>10 DEF Begin, TokenInv, ProducerHas, CoordinatorHas, Sealed
<1>11. ASSUME NEW s \in Slots, NEW f \in Fragments, Set(s, f) PROVE TokenInv'
  BY <1>0, <1>11 DEF Set, TokenInv, ProducerHas, CoordinatorHas, Sealed
<1>12. CASE Seal
  <2>0. PICK new : new = latestSequence + 1
    OBVIOUS
  <2>1. /\ \A p \in Fragments : thread'[p] = thread[p]
        /\ waiters' = waiters /\ Sealed' = Sealed \cup {new} /\ new \notin Sealed
    BY <1>0, <2>0, <1>12, Places DEF Seal, Sealed
  <2>2. Names(new)' = Named(draft.slots)
    <3>1. revision'[new].slots = draft.slots
      <4>1. new \in Sequences /\ revision \in [Sequences -> Revisions]
        BY <2>0, <1>12, Places DEF Seal, Sequences
      <4> QED
        BY <2>0, <1>12, <4>1 DEF Seal
    <3> QED
      BY <3>1 DEF Names
  <2>3. /\ thread'[Coordinator].cur = new /\ thread'[Coordinator].frag = None
        /\ thread'[Coordinator].todo = Named(draft.slots)
    BY <1>0, <2>0, <1>12 DEF Seal
  <2>4. \A r \in Sealed, g \in Fragments : ~CoordinatorHas(r, g)'
    BY <2>1, <2>3 DEF CoordinatorHas
  <2>5. \A g \in Fragments : CoordinatorHas(new, g)' => g \in Named(draft.slots)
    BY <1>0, <2>3 DEF CoordinatorHas
  <2> QED
    BY <1>0, <2>1, <2>2, <2>4, <2>5 DEF TokenInv, ProducerHas
<1>13. ASSUME NEW f \in Fragments, AttachSettles(f) PROVE TokenInv'
  BY <1>0, <1>13 DEF AttachSettles, AttachRest, SettleWaiter, TokenInv, ProducerHas, CoordinatorHas, Sealed
<1>14. ASSUME NEW f \in Fragments, AttachWaits(f) PROVE TokenInv'
  <2> DEFINE r == thread[Coordinator].cur
  <2>1. /\ \A p \in Fragments : thread'[p] = thread[p]
        /\ \A p \in Fragments \ {f} : waiters'[p] = waiters[p]
        /\ waiters'[f] = waiters[f] \cup {r} /\ latestSequence' = latestSequence
        /\ f \in Fragments /\ CoordinatorHas(r, f) /\ r \in Sealed
    BY <1>0, <1>14, Places DEF AttachWaits, AttachRest, CoordinatorHas, CoordinatorInv, Sealed
  <2>2. /\ thread'[Coordinator].cur = r /\ thread'[Coordinator].frag = None
        /\ thread'[Coordinator].todo = thread[Coordinator].todo \ {f}
        /\ thread[Coordinator].frag = None
    BY <1>0, <1>14 DEF AttachWaits, CoordinatorInv, Positions
  <2>3. Sealed' = Sealed
    BY <2>1 DEF Sealed
  <2> HIDE DEF r
  <2>4. \A q \in Sealed, g \in Fragments : CoordinatorHas(q, g)' => CoordinatorHas(q, g) /\ ~(q = r /\ g = f)
    BY <1>0, <2>2 DEF CoordinatorHas, r
  <2> QED
    BY <1>0, <2>1, <2>3, <2>4 DEF TokenInv, ProducerHas
<1>15. CASE AttachEnd
  BY <1>0, <1>15 DEF AttachEnd, TokenInv, ProducerHas, CoordinatorHas, Sealed
<1>16. CASE Collect
  BY <1>0, <1>16 DEF Collect, TokenInv, ProducerHas, CoordinatorHas, Sealed
<1>17. CASE TrySelect
  BY <1>0, <1>17 DEF TrySelect, TokenInv, ProducerHas, CoordinatorHas, Sealed
<1>18. ASSUME NEW f \in Fragments, WalkWaiter(f) PROVE TokenInv'
  BY <1>4, <1>5, <1>6, <1>18, WalkCases DEF IInv
<1>19. CASE Attach
  BY <1>13, <1>14, <1>19, AttachCases DEF IInv
<1> QED
  BY <1>1, <1>2, <1>3, <1>4, <1>5, <1>6, <1>7, <1>8, <1>9, <1>10, <1>11, <1>12, <1>13, <1>14, <1>15, <1>16, <1>17, <1>18, <1>19
     DEF Next, Produce, Sealing, Walk, Threads

(* Where a thread goes on after a count or a notify.                       *)
LEMMA Resumed ==
    ASSUME IInv, NEW t \in Threads, thread[t].at \in {"count", "notify"}
    PROVE  /\ t \in Fragments =>
                Resume(t) = [at |-> "walk", todo |-> thread[t].todo, cur |-> 0, frag |-> None]
           /\ t = Coordinator /\ thread[t].frag = None => Resume(t) = Idle /\ thread[t].todo = {}
           /\ t = Coordinator /\ thread[t].frag # None =>
                Resume(t) = [at |-> "attach", todo |-> thread[t].todo, cur |-> thread[t].cur,
                             frag |-> None]
<1>1. CoordinatorInv /\ (t \in Fragments => t # Coordinator)
  BY Places
<1> QED
  BY <1>1 DEF Resume, CoordinatorInv

(* Nobody comes to own a revision that nobody owned.                       *)
LEMMA AliveStep ==
    ASSUME IInv, [Next]_vars
    PROVE  \A q \in Sealed : Alive(q)' => Alive(q)
<1> DEFINE Goal ==
      \A q \in Sealed : q \in pending' \/ q \in completed' \/ (\E t \in Threads : thread'[t].cur = q) => Alive(q)
<1>0. /\ thread \in [Threads -> Positions] /\ 0 \notin Sealed /\ latestSequence + 1 \notin Sealed
      /\ Coordinator \in Threads /\ Fragments \subseteq Threads /\ CoordinatorInv
  BY Places DEF Sealed
<1>1. ASSUME UNCHANGED vars PROVE Goal
  BY <1>0, <1>1 DEF vars, Alive
<1>2. ASSUME NEW f \in Fragments, NEW s \in {"Ready", "Failed"}, Settle(f, s) PROVE Goal
  BY <1>0, <1>2 DEF Settle, Alive
<1>3. ASSUME NEW f \in Fragments, TakeWaiters(f) PROVE Goal
  BY <1>0, <1>3 DEF TakeWaiters, Alive
<1>4. ASSUME NEW f \in Fragments, WalkEnds(f) PROVE Goal
  BY <1>0, <1>4 DEF WalkEnds, WalkRest, Idle, Alive
<1>5. ASSUME NEW f \in Fragments, NEW r \in Sequences, WalkSettles(f, r) PROVE Goal
  BY <1>0, <1>5 DEF WalkSettles, WalkRest, SettleWaiter, Alive
<1>6. ASSUME NEW f \in Fragments, NEW r \in Sequences, WalkDrops(f, r) PROVE Goal
  BY <1>0, <1>6 DEF WalkDrops, WalkRest, Alive
<1>7. ASSUME NEW t \in Threads, WriteError(t) PROVE Goal
  BY <1>0, <1>7 DEF WriteError, Alive
<1>8. ASSUME NEW t \in Threads, CountDown(t) PROVE Goal
  <2>1. \A u \in Threads : thread'[u].cur \in {0, thread[u].cur}
    <3>1. Resume(t).cur \in {0, thread[t].cur}
      BY <1>8, Resumed DEF CountDown, Idle, Threads
    <3>2. \A u \in Threads : u # t => thread'[u] = thread[u]
      BY <1>0, <1>8 DEF CountDown
    <3>3. thread'[t].cur \in {Resume(t).cur, thread[t].cur}
      BY <1>0, <1>8 DEF CountDown, Positions
    <3> QED
      BY <3>1, <3>2, <3>3
  <2>2. pending' = pending /\ \A q \in completed' : q \in completed \/ q = thread[t].cur
    BY <1>8 DEF CountDown
  <2> QED
    BY <1>0, <2>1, <2>2 DEF Alive
<1>9. ASSUME NEW t \in Threads, Notify(t) PROVE Goal
  <2>1. \A u \in Threads : thread'[u].cur \in {0, thread[u].cur}
    <3>1. Resume(t).cur \in {0, thread[t].cur}
      BY <1>9, Resumed DEF Notify, Idle, Threads
    <3>2. \A u \in Threads : u # t => thread'[u] = thread[u]
      BY <1>0, <1>9 DEF Notify
    <3>3. thread'[t].cur \in {Resume(t).cur, thread[t].cur}
      BY <1>0, <1>9 DEF Notify, Positions
    <3> QED
      BY <3>1, <3>2, <3>3
  <2>2. pending' = pending /\ \A q \in completed' : q \in completed \/ q = thread[t].cur
    BY <1>9 DEF Notify
  <2> QED
    BY <1>0, <2>1, <2>2 DEF Alive
<1>10. ASSUME Begin PROVE Goal
  BY <1>0, <1>10 DEF Begin, Alive
<1>11. ASSUME NEW s \in Slots, NEW f \in Fragments, Set(s, f) PROVE Goal
  BY <1>0, <1>11 DEF Set, Alive
<1>12. ASSUME Seal PROVE Goal
  BY <1>0, <1>12 DEF Seal, Alive
<1>13. ASSUME NEW f \in Fragments, AttachSettles(f) PROVE Goal
  BY <1>0, <1>13 DEF AttachSettles, AttachRest, SettleWaiter, Alive
<1>14. ASSUME NEW f \in Fragments, AttachWaits(f) PROVE Goal
  BY <1>0, <1>14 DEF AttachWaits, AttachRest, Alive
<1>15. ASSUME AttachEnd PROVE Goal
  BY <1>0, <1>15 DEF AttachEnd, Alive
<1>16. ASSUME Collect PROVE Goal
  BY <1>0, <1>16 DEF Collect, Alive
<1>17. ASSUME TrySelect PROVE Goal
  BY <1>0, <1>17 DEF TrySelect, Alive
<1> HIDE DEF Goal
<1>18. ASSUME NEW f \in Fragments, WalkWaiter(f) PROVE Goal
  BY <1>4, <1>5, <1>6, <1>18, WalkCases DEF IInv
<1>19. ASSUME Attach PROVE Goal
  BY <1>13, <1>14, <1>19, AttachCases DEF IInv
<1>20. Goal
  BY <1>1, <1>2, <1>3, <1>4, <1>5, <1>6, <1>7, <1>8, <1>9, <1>10, <1>11, <1>12, <1>13, <1>14, <1>15, <1>16, <1>17, <1>18, <1>19
     DEF Next, Produce, Sealing, Walk, Threads
<1> QED
  BY <1>20 DEF Goal, Alive

(* Only the count of a revision changes what it is owed.                   *)
LEMMA OwedKept ==
    ASSUME IInv, [Next]_vars, NEW q \in Sealed, Alive(q)',
           \A t \in Threads : CountDown(t) => thread[t].cur # q
    PROVE  Owed(q)' = Owed(q) /\ revision'[q].remaining = revision[q].remaining
<1> DEFINE Goal ==
      /\ \A p \in Fragments : FragmentOwes(q, p)' <=> FragmentOwes(q, p)
      /\ SealOwes(q)' <=> SealOwes(q)
      /\ revision'[q].remaining = revision[q].remaining
<1>0. /\ thread \in [Threads -> Positions] /\ revision \in [Sequences -> Revisions]
      /\ CoordinatorInv /\ (\A g \in Fragments : ProducerInv(g)) /\ None \notin Fragments
      /\ Coordinator \in Threads /\ (\A g \in Fragments : g \in Threads /\ g # Coordinator)
      /\ q \in Sequences /\ q # 0 /\ q # latestSequence + 1 /\ Alive(q)
      /\ waiters \in [Fragments -> SUBSET Sequences]
  BY Places, AliveStep DEF Sealed
<1>1. ASSUME UNCHANGED vars PROVE Goal
  BY <1>0, <1>1 DEF vars, FragmentOwes, SealOwes, CoordinatorHas
<1>2. ASSUME NEW f \in Fragments, NEW s \in {"Ready", "Failed"}, Settle(f, s) PROVE Goal
  BY <1>0, <1>2 DEF Settle, FragmentOwes, SealOwes, CoordinatorHas
<1>3. ASSUME NEW f \in Fragments, TakeWaiters(f) PROVE Goal
  <2>1. /\ \A p \in Fragments \ {f} : thread'[p] = thread[p] /\ waiters'[p] = waiters[p]
        /\ thread'[f].todo = waiters[f] /\ waiters'[f] = {} /\ thread[f].todo = {}
        /\ thread'[f].cur = 0 /\ thread[f].cur = 0
        /\ thread'[Coordinator] = thread[Coordinator] /\ revision' = revision
    BY <1>0, <1>3 DEF TakeWaiters, ProducerInv, Positions
  <2> QED
    BY <1>0, <2>1 DEF FragmentOwes, SealOwes, CoordinatorHas
<1>4. ASSUME NEW f \in Fragments, WalkEnds(f) PROVE Goal
  BY <1>0, <1>4 DEF WalkEnds, WalkRest, Idle, FragmentOwes, SealOwes, CoordinatorHas
<1>5. ASSUME NEW f \in Fragments, NEW r \in Sequences, WalkSettles(f, r) PROVE Goal
  BY <1>0, <1>5 DEF WalkSettles, WalkRest, SettleWaiter, FragmentOwes, SealOwes, CoordinatorHas
<1>6. ASSUME NEW f \in Fragments, NEW r \in Sequences, WalkDrops(f, r) PROVE Goal
  BY <1>0, <1>6 DEF WalkDrops, WalkRest, FragmentOwes, SealOwes, CoordinatorHas
<1>7. ASSUME NEW t \in Threads, WriteError(t) PROVE Goal
  <2>1. \A u \in Threads : /\ thread'[u].todo = thread[u].todo /\ thread'[u].cur = thread[u].cur
                           /\ thread'[u].frag = thread[u].frag
                           /\ \/ thread'[u].at = thread[u].at
                              \/ thread[u].at = "error" /\ thread'[u].at = "count"
    BY <1>0, <1>7 DEF WriteError, Positions
  <2>2. waiters' = waiters /\ revision'[q].remaining = revision[q].remaining
    BY <1>0, <1>7 DEF WriteError, Revisions
  <2>3. thread[Coordinator].at = "error" => thread[Coordinator].frag # None
    BY <1>0 DEF CoordinatorInv
  <2> QED
    BY <1>0, <2>1, <2>2, <2>3 DEF FragmentOwes, SealOwes, CoordinatorHas
<1>8. ASSUME NEW t \in Threads, CountDown(t) PROVE Goal
  <2>1. /\ \A u \in Threads : u # t => thread'[u] = thread[u]
        /\ waiters' = waiters /\ revision'[q].remaining = revision[q].remaining
        /\ thread'[t] \in {Resume(t), [thread[t] EXCEPT !.at = "notify"]}
    BY <1>0, <1>8 DEF CountDown, Revisions
  <2>2. thread[t].at \in {"count", "notify"} /\ (thread[t].cur = q => thread[t].at = "notify")
        /\ thread[t] \in Positions
    BY <1>0, <1>8 DEF CountDown
  <2>3. CASE t \in Fragments
    <3>1. thread'[t].todo = thread[t].todo /\ (thread[t].cur = q => thread'[t].at \notin {"error", "count"})
          /\ (thread[t].cur # q => thread'[t].cur # q)
      BY <1>0, <2>1, <2>2, <2>3, Resumed DEF Positions
    <3>2. thread'[Coordinator] = thread[Coordinator]
      BY <1>0, <2>1, <2>3
    <3> QED
      BY <1>0, <2>1, <2>2, <3>1, <3>2 DEF FragmentOwes, SealOwes, CoordinatorHas
  <2>4. CASE t = Coordinator /\ thread[t].frag = None
    <3>1. thread[t].todo = {} /\ thread'[t].todo = {} /\ thread'[t].frag = None
          /\ (thread'[t].cur = q => thread[t].cur = q /\ thread'[t].at = "notify")
      BY <1>0, <2>1, <2>2, <2>4, Resumed DEF Positions, Idle
    <3> QED
      BY <1>0, <2>1, <2>2, <2>4, <3>1 DEF FragmentOwes, SealOwes, CoordinatorHas
  <2>5. CASE t = Coordinator /\ thread[t].frag # None
    <3>1. thread'[t].todo = thread[t].todo /\ thread'[t].cur = thread[t].cur
          /\ \/ thread'[t].at = "attach" /\ thread'[t].frag = None
             \/ thread'[t].at = "notify" /\ thread'[t].frag = thread[t].frag
      BY <1>0, <2>1, <2>2, <2>5, Resumed DEF Positions
    <3> QED
      BY <1>0, <2>1, <2>2, <2>5, <3>1 DEF FragmentOwes, SealOwes, CoordinatorHas
  <2> QED
    BY <2>3, <2>4, <2>5 DEF Threads
<1>9. ASSUME NEW t \in Threads, Notify(t) PROVE Goal
  <2>1. /\ \A u \in Threads : u # t => thread'[u] = thread[u]
        /\ waiters' = waiters /\ revision'[q].remaining = revision[q].remaining
        /\ thread'[t] \in {Resume(t), [thread[t] EXCEPT !.at = "notify"]}
    BY <1>0, <1>9 DEF Notify, Revisions
  <2>2. thread[t].at \in {"count", "notify"} /\ (thread[t].cur = q => thread[t].at = "notify")
        /\ thread[t] \in Positions
    BY <1>0, <1>9 DEF Notify
  <2>3. CASE t \in Fragments
    <3>1. thread'[t].todo = thread[t].todo /\ (thread[t].cur = q => thread'[t].at \notin {"error", "count"})
          /\ (thread[t].cur # q => thread'[t].cur # q)
      BY <1>0, <2>1, <2>2, <2>3, Resumed DEF Positions
    <3>2. thread'[Coordinator] = thread[Coordinator]
      BY <1>0, <2>1, <2>3
    <3> QED
      BY <1>0, <2>1, <2>2, <3>1, <3>2 DEF FragmentOwes, SealOwes, CoordinatorHas
  <2>4. CASE t = Coordinator /\ thread[t].frag = None
    <3>1. thread[t].todo = {} /\ thread'[t].todo = {} /\ thread'[t].frag = None
          /\ (thread'[t].cur = q => thread[t].cur = q /\ thread'[t].at = "notify")
      BY <1>0, <2>1, <2>2, <2>4, Resumed DEF Positions, Idle
    <3> QED
      BY <1>0, <2>1, <2>2, <2>4, <3>1 DEF FragmentOwes, SealOwes, CoordinatorHas
  <2>5. CASE t = Coordinator /\ thread[t].frag # None
    <3>1. thread'[t].todo = thread[t].todo /\ thread'[t].cur = thread[t].cur
          /\ \/ thread'[t].at = "attach" /\ thread'[t].frag = None
             \/ thread'[t].at = "notify" /\ thread'[t].frag = thread[t].frag
      BY <1>0, <2>1, <2>2, <2>5, Resumed DEF Positions
    <3> QED
      BY <1>0, <2>1, <2>2, <2>5, <3>1 DEF FragmentOwes, SealOwes, CoordinatorHas
  <2> QED
    BY <2>3, <2>4, <2>5 DEF Threads
<1>10. ASSUME Begin PROVE Goal
  BY <1>0, <1>10 DEF Begin, FragmentOwes, SealOwes, CoordinatorHas
<1>11. ASSUME NEW s \in Slots, NEW f \in Fragments, Set(s, f) PROVE Goal
  BY <1>0, <1>11 DEF Set, FragmentOwes, SealOwes, CoordinatorHas
<1>12. ASSUME Seal PROVE Goal
  <2>1. /\ \A p \in Fragments : thread'[p] = thread[p]
        /\ waiters' = waiters /\ revision'[q] = revision[q]
        /\ thread'[Coordinator].cur = latestSequence + 1
    BY <1>0, <1>12 DEF Seal
  <2>2. thread[Coordinator].cur = 0
    BY <1>0, <1>12 DEF Seal, CoordinatorInv
  <2> QED
    BY <1>0, <2>1, <2>2 DEF FragmentOwes, SealOwes, CoordinatorHas
<1>13. ASSUME NEW f \in Fragments, AttachSettles(f) PROVE Goal
  BY <1>0, <1>13 DEF AttachSettles, AttachRest, SettleWaiter, FragmentOwes, SealOwes, CoordinatorHas
<1>14. ASSUME NEW f \in Fragments, AttachWaits(f) PROVE Goal
  <2>1. /\ \A p \in Fragments : thread'[p] = thread[p]
        /\ \A p \in Fragments \ {f} : waiters'[p] = waiters[p]
        /\ waiters'[f] = waiters[f] \cup {thread[Coordinator].cur}
        /\ thread[Coordinator].at = "attach" /\ thread[Coordinator].frag = None
        /\ f \in thread[Coordinator].todo /\ revision' = revision
    BY <1>0, <1>14 DEF AttachWaits, AttachRest, CoordinatorInv
  <2>2. /\ thread'[Coordinator].cur = thread[Coordinator].cur /\ thread'[Coordinator].frag = None
        /\ thread'[Coordinator].todo = thread[Coordinator].todo \ {f}
        /\ thread'[Coordinator].at = "attach"
    BY <1>0, <2>1, <1>14 DEF AttachWaits, Positions
  <2> QED
    BY <1>0, <2>1, <2>2 DEF FragmentOwes, SealOwes, CoordinatorHas
<1>15. ASSUME AttachEnd PROVE Goal
  <2>1. /\ \A p \in Fragments : thread'[p] = thread[p]
        /\ waiters' = waiters /\ revision' = revision
        /\ thread[Coordinator].at = "attach" /\ thread[Coordinator].frag = None
        /\ thread[Coordinator].todo = {}
    BY <1>0, <1>15 DEF AttachEnd, CoordinatorInv
  <2>2. /\ thread'[Coordinator].cur = thread[Coordinator].cur /\ thread'[Coordinator].frag = None
        /\ thread'[Coordinator].todo = {} /\ thread'[Coordinator].at = "count"
    BY <1>0, <2>1, <1>15 DEF AttachEnd, Positions
  <2> QED
    BY <1>0, <2>1, <2>2 DEF FragmentOwes, SealOwes, CoordinatorHas
<1>16. ASSUME Collect PROVE Goal
  BY <1>0, <1>16 DEF Collect, FragmentOwes, SealOwes, CoordinatorHas
<1>17. ASSUME TrySelect PROVE Goal
  BY <1>0, <1>17 DEF TrySelect, FragmentOwes, SealOwes, CoordinatorHas
<1> HIDE DEF Goal
<1>18. ASSUME NEW f \in Fragments, WalkWaiter(f) PROVE Goal
  BY <1>4, <1>5, <1>6, <1>18, WalkCases DEF IInv
<1>19. ASSUME Attach PROVE Goal
  BY <1>13, <1>14, <1>19, AttachCases DEF IInv
<1>20. Goal
  BY <1>1, <1>2, <1>3, <1>4, <1>5, <1>6, <1>7, <1>8, <1>9, <1>10, <1>11, <1>12, <1>13, <1>14, <1>15, <1>16, <1>17, <1>18, <1>19
     DEF Next, Produce, Sealing, Walk, Threads
<1> QED
  BY <1>20 DEF Goal, Owed

(* Only a count changes what remains of a sealed revision.                 *)
LEMMA RemainingKept ==
    ASSUME IInv, [Next]_vars, \A t \in Threads : ~CountDown(t), NEW p \in Sealed
    PROVE  revision'[p].remaining = revision[p].remaining
<1> DEFINE Goal == revision'[p].remaining = revision[p].remaining
<1>0. revision \in [Sequences -> Revisions] /\ p \in Sequences /\ p # latestSequence + 1
  BY Places DEF Sealed
<1>1. ASSUME NEW f \in Fragments, WalkWaiter(f) PROVE Goal
  BY <1>0, <1>1 DEF WalkWaiter, SettleWaiter, Revisions
<1>2. ASSUME Attach PROVE Goal
  BY <1>0, <1>2 DEF Attach, SettleWaiter, Revisions
<1>3. ASSUME NEW t \in Threads, WriteError(t) PROVE Goal
  BY <1>0, <1>3 DEF WriteError, Revisions
<1>4. ASSUME Seal PROVE Goal
  BY <1>0, <1>4 DEF Seal
<1>5. CASE UNCHANGED revision
  BY <1>5
<1> HIDE DEF Goal
<1>6. ASSUME NEW f \in Fragments, TakeWaiters(f) \/ \E s \in {"Ready", "Failed"} : Settle(f, s) PROVE Goal
  BY <1>5, <1>6 DEF TakeWaiters, Settle, Goal
<1>7. ASSUME NEW t \in Threads, Notify(t) PROVE Goal
  BY <1>5, <1>7 DEF Notify, Goal
<1>8. ASSUME Begin \/ AttachEnd \/ Collect \/ TrySelect \/ UNCHANGED vars PROVE Goal
  BY <1>5, <1>8 DEF Begin, AttachEnd, Collect, TrySelect, vars, Goal
<1>9. ASSUME NEW s \in Slots, NEW f \in Fragments, Set(s, f) PROVE Goal
  BY <1>5, <1>9 DEF Set, Goal
<1>10. Goal
  BY <1>1, <1>2, <1>3, <1>4, <1>6, <1>7, <1>8, <1>9 DEF Next, Produce, Sealing, Walk, Threads
<1> QED
  BY <1>10 DEF Goal

(* A count strikes exactly its own carrier off what the revision is owed.   *)
LEMMA CountedOwed ==
    ASSUME IInv, NEW t \in Threads, CountDown(t), NEW q, q = thread[t].cur
    PROVE  Owed(q)' = Owed(q) \ {thread[t].frag} /\ revision'[q].remaining = revision[q].remaining - 1
<1>0. /\ thread \in [Threads -> Positions] /\ revision \in [Sequences -> Revisions]
      /\ CoordinatorInv /\ (\A g \in Fragments : ProducerInv(g)) /\ None \notin Fragments
      /\ Coordinator \in Threads /\ (\A g \in Fragments : g \in Threads /\ g # Coordinator)
      /\ q \in Sequences /\ q # 0 /\ waiters \in [Fragments -> SUBSET Sequences] /\ TokenInv
  <2>1. q \in Sealed /\ thread[t].at = "count"
    BY CurrentIsSealed DEF IInv, CountDown
  <2> QED
    BY <2>1, Places DEF IInv
<1> DEFINE Goal == /\ \A p \in Fragments : FragmentOwes(q, p)' <=> FragmentOwes(q, p) /\ p # thread[t].frag
                   /\ SealOwes(q)' <=> SealOwes(q) /\ thread[t].frag # None
<1>1. /\ \A u \in Threads : u # t => thread'[u] = thread[u]
      /\ waiters' = waiters /\ thread[t].at = "count" /\ thread[t] \in Positions
      /\ thread'[t] \in {Resume(t), [thread[t] EXCEPT !.at = "notify"]}
  BY <1>0 DEF CountDown
<1>2. revision'[q].remaining = revision[q].remaining - 1
  BY <1>0 DEF CountDown, Revisions
<1>3. ASSUME t \in Fragments PROVE Goal
  <2>1. thread[t].frag = t /\ q \notin waiters[t] /\ q \notin thread[t].todo /\ ~CoordinatorHas(q, t)
    BY <1>0, <1>1, <1>3 DEF ProducerInv, TokenInv, ProducerHas
  <2>2. thread'[t].todo = thread[t].todo /\ (thread'[t].cur = q => thread'[t].at = "notify")
    BY <1>0, <1>1, <1>3, Resumed DEF Positions
  <2>3. thread'[Coordinator] = thread[Coordinator]
    BY <1>0, <1>1, <1>3
  <2> QED
    BY <1>0, <1>1, <1>3, <2>1, <2>2, <2>3 DEF FragmentOwes, SealOwes, CoordinatorHas
<1>4. ASSUME t = Coordinator, thread[t].frag = None PROVE Goal
  <2>1. thread[t].todo = {} /\ thread'[t].todo = {} /\ thread'[t].frag = None
        /\ (thread'[t].cur = q => thread'[t].at = "notify")
    BY <1>0, <1>1, <1>4, Resumed DEF Positions, Idle
  <2> QED
    BY <1>0, <1>1, <1>4, <2>1 DEF FragmentOwes, SealOwes, CoordinatorHas
<1>5. ASSUME t = Coordinator, thread[t].frag # None PROVE Goal
  <2>1. PICK f \in Fragments : f = thread[t].frag
    BY <1>1, <1>5 DEF Positions
  <2>2. f \notin thread[t].todo /\ CoordinatorHas(q, f) /\ waiters[f] = {} /\ q \notin ProducerHas(f)
    BY <1>0, <1>5, <2>1 DEF CoordinatorInv, ProducerInv, TokenInv, CoordinatorHas
  <2>3. thread'[t].todo = thread[t].todo /\ thread'[t].cur = q
        /\ \/ thread'[t].at = "attach" /\ thread'[t].frag = None
           \/ thread'[t].at = "notify" /\ thread'[t].frag = f
    BY <1>0, <1>1, <1>5, <2>1, Resumed DEF Positions
  <2> QED
    BY <1>0, <1>1, <1>5, <2>1, <2>2, <2>3 DEF FragmentOwes, SealOwes, CoordinatorHas, ProducerHas
<1>6. Goal
  BY <1>3, <1>4, <1>5 DEF Threads
<1>7. Owed(q)' = Owed(q) \ {thread[t].frag}
  BY <1>0, <1>6 DEF Owed
<1> QED
  BY <1>2, <1>7

(* A sealed revision is owed a count by each fragment it names and by Seal. *)
LEMMA NewOwed ==
    ASSUME IInv, Seal, NEW q, q = latestSequence + 1
    PROVE  /\ Owed(q)' = Named(draft.slots) \cup {None}
           /\ revision'[q].remaining = Cardinality(Owed(q)')
<1>0. /\ thread \in [Threads -> Positions] /\ revision \in [Sequences -> Revisions]
      /\ CoordinatorInv /\ None \notin Fragments /\ q \in Sequences /\ q \notin Sealed /\ q # 0
      /\ Coordinator \in Threads /\ (\A g \in Fragments : g \in Threads /\ g # Coordinator)
      /\ Named(draft.slots) \subseteq Fragments /\ TokenInv
  BY Places DEF IInv, Seal, Sequences, Sealed, Named
<1>1. /\ \A p \in Fragments : thread'[p] = thread[p]
      /\ waiters' = waiters
      /\ thread'[Coordinator] = [at |-> "attach", todo |-> Named(draft.slots), cur |-> q, frag |-> None]
      /\ revision'[q].remaining = Cardinality(Named(draft.slots)) + 1
  BY <1>0 DEF Seal
<1>2. \A p \in Fragments : q \notin waiters[p] /\ q \notin thread[p].todo /\ q # thread[p].cur
  BY <1>0 DEF TokenInv, ProducerHas
<1>3. \A p \in Fragments : FragmentOwes(q, p)' <=> p \in Named(draft.slots)
  BY <1>0, <1>1, <1>2 DEF FragmentOwes, CoordinatorHas
<1>4. SealOwes(q)'
  BY <1>0, <1>1 DEF SealOwes
<1>5. Owed(q)' = Named(draft.slots) \cup {None}
  BY <1>0, <1>3, <1>4 DEF Owed
<1>6. Cardinality(Named(draft.slots) \cup {None}) = Cardinality(Named(draft.slots)) + 1
  <2>1. IsFiniteSet(Named(draft.slots)) /\ None \notin Named(draft.slots)
    BY <1>0, RevisionAssumption, FS_Subset
  <2> HIDE DEF Named
  <2> QED
    BY <2>1, FS_AddElement
<1> QED
  BY <1>1, <1>5, <1>6

(* The count is the number of counts owed.                                  *)
LEMMA CountStep ==
    ASSUME IInv, [Next]_vars
    PROVE  CountInv'
<1>1. ASSUME NEW t \in Threads, CountDown(t) PROVE CountInv'
  <2>1. PICK q : q = thread[t].cur
    OBVIOUS
  <2>2. /\ q \in Sealed /\ q \in Sequences /\ Alive(q) /\ thread[t].frag \in Owed(q)
        /\ revision[q].remaining = Cardinality(Owed(q)) /\ revision[q].remaining \in Nat \ {0}
    BY <1>1, <2>1, CounterOwes DEF CountDown, IInv
  <2>3. Owed(q)' = Owed(q) \ {thread[t].frag} /\ revision'[q].remaining = revision[q].remaining - 1
    BY <1>1, <2>1, CountedOwed
  <2>4. revision'[q].remaining = Cardinality(Owed(q)')
    <3>1. Cardinality(Owed(q) \ {thread[t].frag}) = Cardinality(Owed(q)) - 1
      BY <2>2, OwedIsFinite, FS_RemoveElement
    <3> QED
      BY <2>2, <2>3, <3>1
  <2>5. \A u \in Threads : CountDown(u) => thread[u].cur = q
    <3>1. ASSUME NEW u \in Threads, CountDown(u), thread[u].cur # q PROVE FALSE
      <4>1. /\ revision'[thread[u].cur].remaining = revision[thread[u].cur].remaining - 1
            /\ revision[thread[u].cur].remaining \in Nat
        BY <3>1, CountedOwed, CounterOwes DEF CountDown, IInv
      <4>2. revision'[thread[u].cur] = revision[thread[u].cur]
        <5>1. thread[u].cur \in Sequences
          BY <3>1, CurrentIsSealed DEF CountDown, IInv
        <5> QED
          BY <1>1, <2>1, <3>1, <5>1, Places DEF CountDown
      <4> QED
        BY <4>1, <4>2
    <3> QED
      BY <3>1
  <2>6. ASSUME NEW p \in Sealed, Alive(p)', p # q
        PROVE  revision'[p].remaining = Cardinality(Owed(p)')
    <3>1. Owed(p)' = Owed(p) /\ revision'[p].remaining = revision[p].remaining
      BY <2>5, <2>6, OwedKept
    <3> QED
      BY <2>6, <3>1, AliveStep DEF CountInv, IInv
  <2>7. Sealed' = Sealed
    BY <1>1 DEF CountDown, Sealed
  <2>8. completed' \subseteq Sealed /\ \A p \in completed' : revision'[p].remaining = 0
    <3>1. completed' \subseteq completed \cup {q} /\ (q \in completed' => q \in completed \/ revision[q].remaining = 1)
      BY <1>1, <2>1 DEF CountDown
    <3>2. q \notin completed
      BY <2>2 DEF CountInv, IInv
    <3>3. \A p \in Sequences : p # q => revision'[p] = revision[p]
      BY <1>1, <2>1, Places DEF CountDown
    <3>4. completed \subseteq Sequences /\ completed \subseteq Sealed
      BY DEF IInv, Types, TypeOK, CountInv
    <3> QED
      BY <2>2, <2>3, <3>1, <3>2, <3>3, <3>4 DEF CountInv, IInv
  <2>9. \A p \in Sealed : Alive(p)' => revision'[p].remaining = Cardinality(Owed(p)')
    BY <2>4, <2>6
  <2> QED
    BY <2>7, <2>8, <2>9 DEF CountInv
<1>2. ASSUME \A t \in Threads : ~CountDown(t) PROVE CountInv'
  <2>1. ASSUME NEW p \in Sealed, Alive(p)'
        PROVE  revision'[p].remaining = Cardinality(Owed(p)')
    <3>1. Owed(p)' = Owed(p) /\ revision'[p].remaining = revision[p].remaining
      BY <1>2, <2>1, OwedKept
    <3> QED
      BY <2>1, <3>1, AliveStep DEF CountInv, IInv
  <2>2. ASSUME NEW p \in Sealed', p \notin Sealed
        PROVE  revision'[p].remaining = Cardinality(Owed(p)')
    <3>1. Seal /\ p = latestSequence + 1
      <4>1. CASE Seal
        BY <2>2, <4>1, Places DEF Seal, Sealed
      <4>2. CASE ~Seal
        BY <2>2, <4>2, Lasting DEF Sealed
      <4> QED
        BY <4>1, <4>2
    <3> QED
      BY <3>1, NewOwed
  <2>3. completed' \subseteq completed
    BY <1>2 DEF Next, Produce, Sealing, Walk, vars, TakeWaiters, WalkWaiter, Settle, WriteError,
       Notify, Begin, Set, Seal, Attach, AttachEnd, Collect, TrySelect, Threads
  <2>4. \A p \in completed' : revision'[p].remaining = 0
    <3> SUFFICES ASSUME NEW p \in completed PROVE revision'[p].remaining = 0
      BY <2>3
    <3>1. p \in Sealed /\ revision[p].remaining = 0
      BY DEF IInv, CountInv
    <3>2. revision'[p].remaining = revision[p].remaining
      BY <1>2, <3>1, RemainingKept
    <3> QED
      BY <3>1, <3>2
  <2>5. completed' \subseteq Sealed'
    BY <2>3, Lasting DEF IInv, CountInv
  <2>6. \A p \in Sealed' : Alive(p)' => revision'[p].remaining = Cardinality(Owed(p)')
    BY <2>1, <2>2
  <2> QED
    BY <2>4, <2>5, <2>6 DEF CountInv
<1> QED
  BY <1>1, <1>2

(* What a thread settles for is a settled fragment, and a failed one is    *)
(* known to the revision.                                                  *)
LEMMA SettlingStep ==
    ASSUME IInv, [Next]_vars
    PROVE  \A u \in Threads : thread'[u].at \in {"error", "count"} /\ thread'[u].frag # None =>
               /\ state'[thread'[u].frag] # "Pending"
               /\ state'[thread'[u].frag] = "Failed" => revision'[thread'[u].cur].failed
               /\ thread'[u].at = "error" => state'[thread'[u].frag] = "Failed"
<1> DEFINE Goal ==
      \A u \in Threads : thread'[u].at \in {"error", "count"} /\ thread'[u].frag # None =>
          \/ /\ thread[u].at \in {"error", "count"} /\ (thread'[u].at = "error" => thread[u].at = "error")
             /\ thread'[u].frag = thread[u].frag /\ thread'[u].cur = thread[u].cur
          \/ /\ thread'[u].frag \in Fragments /\ state[thread'[u].frag] # "Pending"
             /\ state[thread'[u].frag] = "Failed" => revision'[thread'[u].cur].failed
             /\ thread'[u].at = "error" => state[thread'[u].frag] = "Failed"
<1>0. /\ thread \in [Threads -> Positions] /\ waiters \in [Fragments -> SUBSET Sequences]
      /\ CoordinatorInv /\ (\A g \in Fragments : ProducerInv(g)) /\ None \notin Fragments
      /\ Coordinator \in Threads /\ \A g \in Fragments : g \in Threads /\ g # Coordinator
      /\ revision \in [Sequences -> Revisions] /\ (\A g \in closed : g \in Fragments /\ state[g] # "Pending")
      /\ (thread[Coordinator].at = "attach" => thread[Coordinator].cur \in Sequences)
  <2>1. \A g \in closed : g \in Fragments /\ state[g] # "Pending"
    BY Places DEF ProducerInv
  <2>2. thread[Coordinator].at = "attach" => thread[Coordinator].cur \in Sequences
    BY Places, CurrentIsSealed DEF IInv
  <2> QED
    BY <2>1, <2>2, Places
<1>1. ASSUME UNCHANGED vars PROVE Goal
  BY <1>0, <1>1 DEF vars
<1>2. ASSUME NEW f \in Fragments, NEW s \in {"Ready", "Failed"}, Settle(f, s) PROVE Goal
  BY <1>0, <1>2 DEF Settle, CoordinatorInv, Positions
<1>3. ASSUME NEW f \in Fragments, TakeWaiters(f) PROVE Goal
  BY <1>0, <1>3 DEF TakeWaiters, CoordinatorInv, Positions
<1>4. ASSUME NEW f \in Fragments, WalkEnds(f) PROVE Goal
  BY <1>0, <1>4 DEF WalkEnds, WalkRest, Idle, Positions, Threads
<1>5. ASSUME NEW f \in Fragments, NEW r \in Sequences, WalkSettles(f, r) PROVE Goal
  <2>1. /\ \A u \in Threads : u # f => thread'[u] = thread[u]
        /\ thread'[f].frag = f /\ thread'[f].cur = r /\ f \in Threads
        /\ thread'[f].at = (IF state[f] = "Failed" /\ ~revision[r].failed THEN "error" ELSE "count")
    BY <1>0, <1>5 DEF WalkSettles, SettleWaiter
  <2>2. state[f] # "Pending"
    BY <1>0, <1>5 DEF WalkSettles, ProducerInv
  <2>3. state[f] = "Failed" => revision'[r].failed
    BY <1>0, <1>5 DEF WalkSettles, SettleWaiter, Revisions
  <2> QED
    BY <2>1, <2>2, <2>3
<1>6. ASSUME NEW f \in Fragments, NEW r \in Sequences, WalkDrops(f, r) PROVE Goal
  BY <1>0, <1>6 DEF WalkDrops, WalkRest, CoordinatorInv, Positions
<1>7. ASSUME NEW t \in Threads, WriteError(t) PROVE Goal
  BY <1>0, <1>7 DEF WriteError, CoordinatorInv, Positions
<1>8. ASSUME NEW t \in Threads, CountDown(t) PROVE Goal
  BY <1>0, <1>8, Resumed DEF CountDown, Resume, Idle, Positions, Threads
<1>9. ASSUME NEW t \in Threads, Notify(t) PROVE Goal
  BY <1>0, <1>9, Resumed DEF Notify, Resume, Idle, Positions, Threads
<1>10. ASSUME Begin PROVE Goal
  BY <1>0, <1>10 DEF Begin
<1>11. ASSUME NEW s \in Slots, NEW f \in Fragments, Set(s, f) PROVE Goal
  BY <1>0, <1>11 DEF Set
<1>12. ASSUME Seal PROVE Goal
  BY <1>0, <1>12 DEF Seal
<1>13. ASSUME NEW f \in Fragments, AttachSettles(f) PROVE Goal
  BY <1>0, <1>13 DEF AttachSettles, AttachRest, SettleWaiter, Revisions, Positions
<1>14. ASSUME NEW f \in Fragments, AttachWaits(f) PROVE Goal
  BY <1>0, <1>14 DEF AttachWaits, AttachRest, CoordinatorInv, Positions
<1>15. ASSUME AttachEnd PROVE Goal
  BY <1>0, <1>15 DEF AttachEnd, CoordinatorInv, Positions
<1>16. ASSUME Collect PROVE Goal
  BY <1>0, <1>16 DEF Collect
<1>17. ASSUME TrySelect PROVE Goal
  BY <1>0, <1>17 DEF TrySelect
<1> HIDE DEF Goal
<1>18. ASSUME NEW f \in Fragments, WalkWaiter(f) PROVE Goal
  BY <1>4, <1>5, <1>6, <1>18, WalkCases DEF IInv
<1>19. ASSUME Attach PROVE Goal
  BY <1>13, <1>14, <1>19, AttachCases DEF IInv
<1>20. Goal
  BY <1>1, <1>2, <1>3, <1>4, <1>5, <1>6, <1>7, <1>8, <1>9, <1>10, <1>11, <1>12, <1>13, <1>14, <1>15, <1>16, <1>17, <1>18, <1>19
     DEF Next, Produce, Sealing, Walk, Threads
<1> QED
  <2> SUFFICES ASSUME NEW u \in Threads, thread'[u].at \in {"error", "count"}, thread'[u].frag # None
               PROVE  /\ state'[thread'[u].frag] # "Pending"
                      /\ state'[thread'[u].frag] = "Failed" => revision'[thread'[u].cur].failed
                      /\ thread'[u].at = "error" => state'[thread'[u].frag] = "Failed"
    OBVIOUS
  <2>1. CASE /\ thread[u].at \in {"error", "count"} /\ (thread'[u].at = "error" => thread[u].at = "error")
             /\ thread'[u].frag = thread[u].frag /\ thread'[u].cur = thread[u].cur
    <3>1. /\ state[thread[u].frag] # "Pending"
          /\ state[thread[u].frag] = "Failed" => revision[thread[u].cur].failed
          /\ thread[u].at = "error" => state[thread[u].frag] = "Failed"
      BY <2>1 DEF IInv, DecisionInv
    <3>2. thread[u].frag \in Fragments /\ thread[u].cur \in Sealed
      BY <2>1, CurrentIsSealed, Places DEF IInv, Positions
    <3> QED
      BY <2>1, <3>1, <3>2, Lasting
  <2>2. CASE /\ thread'[u].frag \in Fragments /\ state[thread'[u].frag] # "Pending"
             /\ state[thread'[u].frag] = "Failed" => revision'[thread'[u].cur].failed
             /\ thread'[u].at = "error" => state[thread'[u].frag] = "Failed"
    BY <2>2, Lasting
  <2> QED
    BY <1>20, <2>1, <2>2 DEF Goal

(* The fragments that owe a revision nothing are settled.                  *)
LEMMA SettledStep ==
    ASSUME IInv, [Next]_vars, NEW r \in Sealed', Alive(r)', NEW f \in Names(r)' \ Owed(r)'
    PROVE  state'[f] # "Pending" /\ (state'[f] = "Failed" => revision'[r].failed)
<1>1. CASE r \notin Sealed
  <2>1. Seal /\ r = latestSequence + 1
    <3>1. CASE Seal
      BY <1>1, <3>1, Places DEF Seal, Sealed
    <3>2. CASE ~Seal
      BY <1>1, <3>2, Lasting DEF Sealed
    <3> QED
      BY <3>1, <3>2
  <2>2. Names(r)' = Named(draft.slots)
    <3>1. revision'[r].slots = draft.slots
      BY <2>1, Places DEF Seal, Sequences
    <3> QED
      BY <3>1 DEF Names
  <2> QED
    BY <2>1, <2>2, NewOwed
<1>2. CASE r \in Sealed
  <2>1. Alive(r) /\ Names(r)' = Names(r) /\ f \in Fragments
    BY <1>2, AliveStep, Lasting, Places DEF Names, Named, Revisions
  <2>2. CASE \E t \in Threads : CountDown(t) /\ thread[t].cur = r
    <3>1. PICK t \in Threads : CountDown(t) /\ thread[t].cur = r
      BY <2>2
    <3>2. Owed(r)' = Owed(r) \ {thread[t].frag}
      BY <3>1, CountedOwed
    <3>3. thread[t].at = "count"
      BY <3>1 DEF CountDown
    <3>4. CASE f = thread[t].frag
      <4>1. f # None
        BY <2>1, RevisionAssumption
      <4>2. state[f] # "Pending" /\ (state[f] = "Failed" => revision[r].failed)
        BY <3>1, <3>3, <3>4, <4>1 DEF IInv, DecisionInv
      <4> QED
        BY <1>2, <2>1, <4>2, Lasting
    <3>5. CASE f # thread[t].frag
      <4>1. f \in Names(r) \ Owed(r)
        BY <2>1, <3>2, <3>5
      <4>2. state[f] # "Pending" /\ (state[f] = "Failed" => revision[r].failed)
        BY <1>2, <2>1, <4>1 DEF IInv, DecisionInv
      <4> QED
        BY <1>2, <2>1, <4>2, Lasting
    <3> QED
      BY <3>4, <3>5
  <2>3. CASE \A t \in Threads : CountDown(t) => thread[t].cur # r
    <3>1. Owed(r)' = Owed(r)
      BY <1>2, <2>3, OwedKept
    <3>2. state[f] # "Pending" /\ (state[f] = "Failed" => revision[r].failed)
      BY <1>2, <2>1, <3>1 DEF IInv, DecisionInv
    <3> QED
      BY <1>2, <2>1, <3>2, Lasting
  <2> QED
    BY <2>2, <2>3
<1> QED
  BY <1>1, <1>2

(* A failed revision keeps its error, or its error is being written.       *)
LEMMA ErrorStep ==
    ASSUME IInv, [Next]_vars, NEW q \in Sealed, revision'[q].failed
    PROVE  ErrorKnown(q)' \/ \E t \in Threads : thread'[t].at = "error" /\ thread'[t].cur = q
<1> DEFINE Goal ==
      \/ /\ revision[q].failed /\ revision'[q].error = revision[q].error
         /\ \A t \in Threads : thread[t].at = "error" /\ thread[t].cur = q =>
                               thread'[t].at = "error" /\ thread'[t].cur = q
      \/ \E t \in Threads : thread'[t].at = "error" /\ thread'[t].cur = q
      \/ \E t \in Threads : /\ thread[t].at = "error" /\ thread[t].cur = q
                            /\ revision'[q].error = thread[t].frag
<1>0. /\ thread \in [Threads -> Positions] /\ revision \in [Sequences -> Revisions]
      /\ Coordinator \in Threads /\ (\A g \in Fragments : g \in Threads /\ g # Coordinator)
      /\ q \in Sequences /\ q # latestSequence + 1
  BY Places DEF Sealed
<1>1. ASSUME UNCHANGED vars PROVE Goal
  BY <1>0, <1>1 DEF vars
<1>2. ASSUME NEW f \in Fragments, NEW s \in {"Ready", "Failed"}, Settle(f, s) PROVE Goal
  BY <1>0, <1>2 DEF Settle, Idle, Positions, Revisions
<1>3. ASSUME NEW f \in Fragments, TakeWaiters(f) PROVE Goal
  BY <1>0, <1>3 DEF TakeWaiters, Idle, Positions, Revisions
<1>4. ASSUME NEW f \in Fragments, WalkEnds(f) PROVE Goal
  BY <1>0, <1>4 DEF WalkEnds, WalkRest, Idle, Positions, Revisions
<1>5. ASSUME NEW f \in Fragments, NEW r \in Sequences, WalkSettles(f, r) PROVE Goal
  BY <1>0, <1>5 DEF WalkSettles, WalkRest, SettleWaiter, Revisions
<1>6. ASSUME NEW f \in Fragments, NEW r \in Sequences, WalkDrops(f, r) PROVE Goal
  BY <1>0, <1>6 DEF WalkDrops, WalkRest, Revisions
<1>7. ASSUME NEW t \in Threads, WriteError(t) PROVE Goal
  BY <1>0, <1>7 DEF WriteError, Idle, Positions, Revisions
<1>8. ASSUME NEW t \in Threads, CountDown(t) PROVE Goal
  BY <1>0, <1>8 DEF CountDown, Resume, Idle, Positions, Revisions
<1>9. ASSUME NEW t \in Threads, Notify(t) PROVE Goal
  BY <1>0, <1>9 DEF Notify, Resume, Idle, Positions, Revisions
<1>10. ASSUME Begin PROVE Goal
  BY <1>0, <1>10 DEF Begin, Revisions
<1>11. ASSUME NEW s \in Slots, NEW f \in Fragments, Set(s, f) PROVE Goal
  BY <1>0, <1>11 DEF Set, Revisions
<1>12. ASSUME Seal PROVE Goal
  BY <1>0, <1>12 DEF Seal, Revisions
<1>13. ASSUME NEW f \in Fragments, AttachSettles(f) PROVE Goal
  BY <1>0, <1>13 DEF AttachSettles, AttachRest, SettleWaiter, Revisions
<1>14. ASSUME NEW f \in Fragments, AttachWaits(f) PROVE Goal
  BY <1>0, <1>14 DEF AttachWaits, AttachRest, Revisions
<1>15. ASSUME AttachEnd PROVE Goal
  BY <1>0, <1>15 DEF AttachEnd, Idle, Positions, Revisions
<1>16. ASSUME Collect PROVE Goal
  BY <1>0, <1>16 DEF Collect, Revisions
<1>17. ASSUME TrySelect PROVE Goal
  BY <1>0, <1>17 DEF TrySelect, Revisions
<1> HIDE DEF Goal
<1>18. ASSUME NEW f \in Fragments, WalkWaiter(f) PROVE Goal
  BY <1>4, <1>5, <1>6, <1>18, WalkCases DEF IInv
<1>19. ASSUME Attach PROVE Goal
  BY <1>13, <1>14, <1>19, AttachCases DEF IInv
<1>20. Goal
  BY <1>1, <1>2, <1>3, <1>4, <1>5, <1>6, <1>7, <1>8, <1>9, <1>10, <1>11, <1>12, <1>13, <1>14, <1>15, <1>16, <1>17, <1>18, <1>19
     DEF Next, Produce, Sealing, Walk, Threads
<1> QED
  <2>1. Names(q)' = Names(q) /\ \A g \in Fragments : state[g] = "Failed" => state'[g] = "Failed"
    BY Lasting
  <2>2. Names(q) \subseteq Fragments
    BY Places DEF Names, Named, Revisions
  <2>3. CASE /\ revision[q].failed /\ revision'[q].error = revision[q].error
             /\ \A t \in Threads : thread[t].at = "error" /\ thread[t].cur = q =>
                                   thread'[t].at = "error" /\ thread'[t].cur = q
    <3>1. CASE ErrorKnown(q)
      BY <2>1, <2>2, <2>3, <3>1 DEF ErrorKnown
    <3>2. CASE \E t \in Threads : thread[t].at = "error" /\ thread[t].cur = q
      BY <2>3, <3>2
    <3> QED
      BY <2>3, <3>1, <3>2 DEF IInv, DecisionInv
  <2>4. ASSUME NEW t \in Threads, thread[t].at = "error", thread[t].cur = q,
               revision'[q].error = thread[t].frag
        PROVE  ErrorKnown(q)'
    <3>1. thread[t].frag \in Names(q) /\ thread[t].frag # None
      <4>1. CASE t = Coordinator
        <5>1. PICK f \in Fragments : thread[t].frag = f
          BY <2>4, <4>1, Places DEF CoordinatorInv, Positions
        <5>2. CoordinatorHas(q, f)
          BY <2>4, <4>1, <5>1 DEF CoordinatorHas
        <5> QED
          BY <5>1, <5>2, Places DEF IInv, TokenInv
      <4>2. CASE t \in Fragments
        <5>1. thread[t].frag = t /\ q \in ProducerHas(t) /\ None \notin Fragments
          BY <2>4, <4>2, Places DEF ProducerInv, ProducerHas
        <5> QED
          BY <4>2, <5>1 DEF IInv, TokenInv
      <4> QED
        BY <4>1, <4>2 DEF Threads
    <3>2. state[thread[t].frag] = "Failed"
      BY <2>4, <3>1 DEF IInv, DecisionInv
    <3> QED
      BY <2>1, <2>2, <2>4, <3>1, <3>2 DEF ErrorKnown
  <2> QED
    BY <1>20, <2>3, <2>4 DEF Goal

(* A revision is decided by its fragments alone.                           *)
LEMMA DecisionStep ==
    ASSUME IInv, [Next]_vars
    PROVE  DecisionInv'
<1>1. \A t \in Threads : thread'[t].at \in {"error", "count"} /\ thread'[t].frag # None =>
           /\ state'[thread'[t].frag] # "Pending"
           /\ state'[thread'[t].frag] = "Failed" => revision'[thread'[t].cur].failed
           /\ thread'[t].at = "error" => state'[thread'[t].frag] = "Failed"
  BY SettlingStep
<1>2. \A r \in Sealed' : Alive(r)' => \A f \in Names(r)' \ Owed(r)' :
           state'[f] # "Pending" /\ (state'[f] = "Failed" => revision'[r].failed)
  BY SettledStep
<1>3. ASSUME NEW r \in Sealed', revision'[r].failed
      PROVE  ErrorKnown(r)' \/ \E t \in Threads : thread'[t].at = "error" /\ thread'[t].cur = r
  <2>1. CASE r \in Sealed
    BY <1>3, <2>1, ErrorStep
  <2>2. CASE r \notin Sealed
    <3>1. CASE Seal
      <4>1. r = latestSequence + 1 /\ r \in Sequences
        BY <2>2, <3>1, Places DEF Seal, Sealed, Sequences
      <4>2. ~revision'[r].failed
        BY <3>1, <4>1, Places DEF Seal
      <4> QED
        BY <1>3, <4>2
    <3>2. CASE ~Seal
      BY <2>2, <3>2, Lasting DEF Sealed
    <3> QED
      BY <3>1, <3>2
  <2> QED
    BY <2>1, <2>2
<1> QED
  BY <1>1, <1>2, <1>3 DEF DecisionInv

(* A completed revision is decided: its fragments are settled, and it has  *)
(* failed if one of them did.                                              *)
LEMMA CompletedSettled ==
    ASSUME IInv, NEW r \in completed
    PROVE  /\ r \in Sealed /\ revision[r].remaining = 0 /\ Names(r) \subseteq Fragments
           /\ \A f \in Names(r) : state[f] # "Pending" /\ (state[f] = "Failed" => revision[r].failed)
           /\ revision[r].failed => ErrorKnown(r)
<1>1. r \in Sealed /\ Alive(r) /\ revision[r].remaining = Cardinality(Owed(r)) /\ revision[r].remaining = 0
  BY DEF IInv, CountInv, Alive
<1>2. Owed(r) = {}
  BY <1>1, OwedIsFinite, FS_EmptySet
<1>3. ~ \E t \in Threads : thread[t].at = "error" /\ thread[t].cur = r
  <2> SUFFICES ASSUME NEW t \in Threads, thread[t].at = "error", thread[t].cur = r PROVE FALSE
    OBVIOUS
  <2>1. CASE t = Coordinator
    <3>1. SealOwes(r)
      BY <2>1, Places DEF CoordinatorInv, SealOwes
    <3> QED
      BY <1>2, <3>1 DEF Owed
  <2>2. CASE t \in Fragments
    <3>1. FragmentOwes(r, t)
      BY <2>2 DEF FragmentOwes
    <3> QED
      BY <1>2, <2>2, <3>1 DEF Owed
  <2> QED
    BY <2>1, <2>2 DEF Threads
<1>4. Names(r) \subseteq Fragments
  BY <1>1, Places DEF Names, Named, Revisions
<1> QED
  BY <1>1, <1>2, <1>3, <1>4 DEF IInv, DecisionInv

(* Collect hands over a newer whole revision, or nothing.                  *)
LEMMA Collected ==
    ASSUME IInv, Collect
    PROVE  \/ published' = published /\ mailbox' = mailbox
           \/ /\ published' \in Sealed /\ mailbox' = published' /\ published' > published
              /\ Whole(published')
<1> DEFINE whole == {r \in (completed \cap pending) \
                                  {q \in completed \cap pending : revision[q].failed} : r > published}
<1>1. CASE whole = {}
  BY <1>1 DEF Collect
<1>2. CASE whole # {}
  <2>1. Max(whole) \in whole
    <3>1. whole \subseteq pending
      OBVIOUS
    <3> HIDE DEF whole
    <3>2. whole \subseteq 0..MaxSealed
      BY <3>1, RevisionAssumption DEF IInv, Types, TypeOK, Sequences
    <3> QED
      BY <1>2, <3>2, RevisionAssumption, MaxExists
  <2>2. PICK r : r = Max(whole)
    OBVIOUS
  <2>3. r \in completed /\ ~revision[r].failed /\ r > published
    BY <2>1, <2>2
  <2>4. published' = r /\ mailbox' = r
    BY <1>2, <2>2 DEF Collect
  <2>5. r \in Sealed /\ Names(r) \subseteq Fragments
        /\ \A f \in Names(r) : state[f] # "Pending" /\ state[f] # "Failed"
    BY <2>3, CompletedSettled
  <2>6. Whole(r)
    BY <2>5, Places DEF Whole, IInv, OrderInv
  <2> HIDE DEF whole
  <2> QED
    BY <2>3, <2>4, <2>5, <2>6
<1> QED
  BY <1>1, <1>2

(* What the frame gets is newer and whole.                                 *)
LEMMA OrderStep ==
    ASSUME IInv, [Next]_vars
    PROVE  OrderInv'
<1>0. /\ OrderInv /\ published \in Nat /\ mailbox \in Nat /\ active \in Nat
      /\ mailbox \in {0} \cup Sealed /\ active \in {0} \cup Sealed
  BY RevisionAssumption DEF IInv, Types, TypeOK, LocalsOK, Sealed
<1>1. \A r \in Sealed : Whole(r) => Whole(r)'
  <2>1. \A r \in Sealed : Names(r) \subseteq Fragments
    BY Places DEF Names, Named, Revisions
  <2> QED
    BY <2>1, Lasting DEF Whole, Closure
<1>2. \A r \in Sealed' : Closure(revision'[r].slots)
  <2> SUFFICES ASSUME NEW r \in Sealed' PROVE Closure(revision'[r].slots)
    OBVIOUS
  <2>1. CASE r \in Sealed
    BY <1>0, <2>1, Lasting DEF OrderInv
  <2>2. CASE r \notin Sealed
    <3>1. Seal
      BY <2>2, Lasting DEF Sealed
    <3>2. revision'[r].slots = draft.slots
      BY <2>2, <3>1, Places DEF Seal, Sealed, Sequences
    <3> QED
      BY <3>1, <3>2 DEF Seal
  <2> QED
    BY <2>1, <2>2
<1>3. \A r \in Sealed' : Closure(revision[r].slots)'
  BY <1>2 DEF Closure
<1>4. CASE Collect
  <2>1. pending' \subseteq pending /\ active' = active /\ Sealed' = Sealed
    BY <1>4 DEF Collect, Sealed
  <2>2. CASE published' = published /\ mailbox' = mailbox
    BY <1>0, <1>1, <1>3, <2>1, <2>2 DEF OrderInv
  <2>3. CASE /\ published' \in Sealed /\ mailbox' = published' /\ published' > published
             /\ Whole(published')
    <3>1. PICK r \in Sealed : r = published'
      BY <2>3
    <3>2. Whole(r)'
      BY <1>1, <2>3, <3>1
    <3>3. active' <= published' /\ mailbox' <= published' /\ active' <= mailbox'
      BY <1>0, <2>1, <2>3, <3>1, Places DEF OrderInv
    <3> QED
      BY <1>0, <1>1, <1>3, <2>1, <2>3, <3>1, <3>2, <3>3 DEF OrderInv
  <2> QED
    BY <1>4, <2>2, <2>3, Collected
<1>5. CASE TrySelect
  <2>1. pending' = pending /\ published' = published /\ Sealed' = Sealed
        /\ active' = mailbox /\ mailbox' = 0 /\ mailbox # 0
    BY <1>5 DEF TrySelect, Sealed
  <2> QED
    BY <1>0, <1>1, <1>3, <2>1 DEF OrderInv
<1>6. CASE Seal
  <2>1. /\ pending' = pending \cup {latestSequence + 1} /\ Sealed \subseteq Sealed'
        /\ latestSequence + 1 \in Sealed'
        /\ published' = published /\ mailbox' = mailbox /\ active' = active
    BY <1>6, Places DEF Seal, Sealed
  <2> QED
    BY <1>0, <1>1, <1>3, <2>1 DEF OrderInv
<1>7. CASE UNCHANGED <<pending, published, mailbox, active>> /\ ~Seal
  <2>1. Sealed' = Sealed
    BY <1>7, Lasting DEF Sealed
  <2> QED
    BY <1>0, <1>1, <1>3, <1>7, <2>1 DEF OrderInv
<1>8. Seal \/ Collect \/ TrySelect \/ UNCHANGED <<pending, published, mailbox, active>>
  BY DEF Next, Produce, Sealing, Walk, vars, TakeWaiters, WalkWaiter, Settle, WriteError,
         CountDown, Notify, Begin, Set, Attach, AttachEnd
<1> QED
  BY <1>4, <1>5, <1>6, <1>7, <1>8

LEMMA SplitCount ==
    ASSUME NEW S, IsFiniteSet(S), NEW T, T \subseteq S
    PROVE  /\ Cardinality(S) = Cardinality(T) + Cardinality(S \ T)
           /\ Cardinality(S) \in Nat /\ Cardinality(T) \in Nat /\ Cardinality(S \ T) \in Nat
<1>1. IsFiniteSet(T) /\ IsFiniteSet(S \ T)
  BY FS_Subset
<1>2. S = T \cup (S \ T) /\ T \cap (S \ T) = {}
  OBVIOUS
<1>3. Cardinality(T \cup (S \ T)) = Cardinality(T) + Cardinality(S \ T) - Cardinality(T \cap (S \ T))
  BY <1>1, FS_Union
<1>4. Cardinality(T \cap (S \ T)) = 0
  BY <1>2, FS_EmptySet
<1>5. Cardinality(S) \in Nat /\ Cardinality(T) \in Nat /\ Cardinality(S \ T) \in Nat
  BY <1>1, FS_CardinalityType
<1> QED
  BY <1>2, <1>3, <1>4, <1>5

(* Each sealed revision is counted once.                                   *)
LEMMA StatsStep ==
    ASSUME IInv, [Next]_vars
    PROVE  StatsInv'
<1>0. /\ StatsInv /\ IsFiniteSet(pending) /\ pending \subseteq Sealed /\ latestSequence \in Nat
      /\ stats \in [sealed : Int, published : Int, failed : Int, superseded : Int, abandoned : Int]
  <2>1. IsFiniteSet(Sequences)
    BY RevisionAssumption, FS_Interval DEF Sequences
  <2>2. pending \subseteq Sealed /\ pending \subseteq Sequences
    BY DEF IInv, Types, TypeOK, OrderInv
  <2> QED
    BY <2>1, <2>2, FS_Subset, RevisionAssumption DEF IInv, Types, TypeOK, LocalsOK
<1>1. CASE Seal
  <2>1. Cardinality(pending \cup {latestSequence + 1}) = Cardinality(pending) + 1
    <3>1. latestSequence + 1 \notin pending
      BY <1>0 DEF Sealed
    <3> QED
      BY <1>0, <3>1, FS_AddElement
  <2>2. Cardinality(pending) \in Nat
    BY <1>0, FS_CardinalityType
  <2>3. /\ pending' = pending \cup {latestSequence + 1} /\ latestSequence' = latestSequence + 1
        /\ stats' = [stats EXCEPT !.sealed = @ + 1]
    BY <1>1 DEF Seal
  <2>4. Cardinality(pending') = Cardinality(pending) + 1
    BY <2>1, <2>3
  <2>5. /\ stats'.sealed = stats.sealed + 1 /\ stats'.published = stats.published
        /\ stats'.failed = stats.failed /\ stats'.superseded = stats.superseded
        /\ stats'.abandoned = stats.abandoned
    BY <1>0, <2>3
  <2>6. /\ stats.sealed \in Int /\ stats.published \in Int /\ stats.failed \in Int
        /\ stats.superseded \in Int /\ stats.abandoned \in Int
    BY <1>0
  <2>7. PICK n, k : n = Cardinality(pending) /\ k = Cardinality(pending')
    OBVIOUS
  <2>8. /\ stats.sealed = n + stats.published + stats.failed + stats.superseded + stats.abandoned
        /\ stats.sealed = latestSequence
    BY <1>0, <2>7 DEF StatsInv
  <2>9. /\ stats'.sealed = k + stats'.published + stats'.failed + stats'.superseded + stats'.abandoned
        /\ stats'.sealed = latestSequence'
    BY <2>2, <2>3, <2>4, <2>5, <2>6, <2>7, <2>8
  <2> QED
    BY <2>7, <2>9 DEF StatsInv
<1>2. CASE Collect
  <2> DEFINE mine == completed \cap pending
             failures == {r \in mine : revision[r].failed}
             whole == {r \in mine \ failures : r > published}
             newest == IF whole = {} THEN published ELSE Max(whole)
             left == pending \ mine
             kept == IF whole = {} THEN left ELSE {r \in left : r >= newest}
  <2>1. PICK a, b, c, d : a = Cardinality(failures) /\ b = (IF whole = {} THEN 0 ELSE 1)
                          /\ c = Cardinality(mine \ failures) /\ d = Cardinality(left \ kept)
    OBVIOUS
  <2>2. /\ stats' = [stats EXCEPT !.failed = @ + a, !.published = @ + b,
                                  !.superseded = @ + c - b, !.abandoned = @ + d]
        /\ pending' = kept /\ latestSequence' = latestSequence
    BY <1>2, <2>1 DEF Collect
  <2>3. mine \subseteq pending /\ failures \subseteq mine /\ kept \subseteq left /\ left = pending \ mine
        /\ b \in {0, 1}
    BY <2>1
  <2> HIDE DEF mine, failures, whole, newest, left, kept
  <2>4. IsFiniteSet(mine) /\ IsFiniteSet(left)
    BY <1>0, <2>3, FS_Subset
  <2>5. PICK m, l, k, n : m = Cardinality(mine) /\ l = Cardinality(left) /\ k = Cardinality(kept)
                          /\ n = Cardinality(pending)
    OBVIOUS
  <2>6. /\ n = m + l /\ m = a + c /\ l = k + d
        /\ n \in Nat /\ m \in Nat /\ l \in Nat /\ k \in Nat /\ a \in Nat /\ c \in Nat /\ d \in Nat
    <3>1. n = m + l /\ n \in Nat /\ m \in Nat /\ l \in Nat
      BY <1>0, <2>3, <2>5, SplitCount
    <3>2. m = a + c /\ a \in Nat /\ c \in Nat
      BY <2>1, <2>3, <2>4, <2>5, SplitCount
    <3>3. l = k + d /\ k \in Nat /\ d \in Nat
      BY <2>1, <2>3, <2>4, <2>5, SplitCount
    <3> QED
      BY <3>1, <3>2, <3>3
  <2>7. /\ stats'.sealed = stats.sealed /\ stats'.published = stats.published + b
        /\ stats'.failed = stats.failed + a /\ stats'.superseded = stats.superseded + c - b
        /\ stats'.abandoned = stats.abandoned + d
    BY <1>0, <2>2
  <2>8. /\ stats.sealed \in Int /\ stats.published \in Int /\ stats.failed \in Int
        /\ stats.superseded \in Int /\ stats.abandoned \in Int
        /\ stats.sealed = n + stats.published + stats.failed + stats.superseded + stats.abandoned
        /\ stats.sealed = latestSequence
    BY <1>0, <2>5 DEF StatsInv
  <2>9. stats'.sealed = k + stats'.published + stats'.failed + stats'.superseded + stats'.abandoned
    BY <2>3, <2>6, <2>7, <2>8
  <2> QED
    BY <2>2, <2>5, <2>7, <2>8, <2>9 DEF StatsInv
<1>3. CASE UNCHANGED <<stats, pending, latestSequence>>
  BY <1>0, <1>3 DEF StatsInv
<1>4. Seal \/ Collect \/ UNCHANGED <<stats, pending, latestSequence>>
  BY DEF Next, Produce, Sealing, Walk, vars, TakeWaiters, WalkWaiter, Settle, WriteError,
         CountDown, Notify, Begin, Set, Attach, AttachEnd, TrySelect
<1> QED
  BY <1>1, <1>2, <1>3, <1>4

-----------------------------------------------------------------------------
(* The invariant holds at the start.                                       *)
LEMMA InitHolds == Init => IInv
<1> SUFFICES ASSUME Init PROVE IInv
  OBVIOUS
<1>1. Types
  <2>1. TypeOK
    <3>1. Cardinality(Fragments) \in Nat
      BY RevisionAssumption, FS_CardinalityType
    <3>2. \A r \in Sequences : revision[r].remaining \in 0..(Cardinality(Fragments) + 1)
      BY <3>1 DEF Init
    <3>3. Empty \in [Slots -> Fragments \cup {None}]
      BY DEF Empty
    <3>4. draft \in [base : 0..MaxSealed, slots : [Slots -> Fragments \cup {None}]]
      BY <3>3, RevisionAssumption DEF Init
    <3>5. /\ state \in [Fragments -> {"Pending", "Ready", "Failed"}]
          /\ waiters \in [Fragments -> SUBSET Sequences] /\ closed \subseteq Fragments
          /\ latest \in [Slots -> Fragments \cup {None}]
      BY <3>3 DEF Init
    <3>6. /\ latestSequence \in 0..MaxSealed /\ pending \subseteq Sequences /\ completed \subseteq Sequences
          /\ published \in 0..latestSequence /\ mailbox \in 0..published /\ active \in 0..published
      <4>1. latestSequence = 0 /\ published = 0 /\ mailbox = 0 /\ active = 0 /\ pending = {} /\ completed = {}
        BY DEF Init
      <4>2. MaxSealed \in Nat
        BY RevisionAssumption
      <4> QED
        BY <4>1, <4>2
    <3>7. wake \in BOOLEAN
      BY DEF Init
    <3> QED
      BY <3>2, <3>4, <3>5, <3>6, <3>7 DEF TypeOK
  <2>2. RevisionType
    BY DEF Init, RevisionType, Revisions, Empty
  <2>3. ThreadType
    BY RevisionAssumption DEF Init, ThreadType, Positions, Idle
  <2> QED
    BY <2>1, <2>2, <2>3 DEF Types, LocalsOK, Init
<1>2. \A t \in Threads : thread[t] = Idle
  BY DEF Init
<1>3. Sealed = {}
  BY DEF Init, Sealed
<1>4. ThreadInv
  BY <1>2 DEF Init, ThreadInv, CoordinatorInv, ProducerInv, Idle, Threads
<1>5. TokenInv
  BY <1>2, <1>3 DEF Init, TokenInv, ProducerHas, Idle, Threads
<1>6. CountInv /\ DecisionInv
  BY <1>2, <1>3 DEF Init, CountInv, DecisionInv, Idle
<1>7. OrderInv
  BY <1>3 DEF Init, OrderInv
<1>8. StatsInv
  BY FS_EmptySet DEF Init, StatsInv
<1> QED
  BY <1>1, <1>4, <1>5, <1>6, <1>7, <1>8 DEF IInv

(* The inductive invariant of the revision primitive.                      *)
THEOREM InvariantHolds == Spec => []IInv
<1>1. IInv /\ [Next]_vars => IInv'
  <2> SUFFICES ASSUME IInv, [Next]_vars PROVE IInv'
    OBVIOUS
  <2>1. Types'
    BY TypeStep
  <2>2. ThreadInv'
    BY CoordinatorStep, ProducerStep DEF ThreadInv
  <2>3. TokenInv' /\ CountInv' /\ DecisionInv' /\ OrderInv' /\ StatsInv'
    BY TokenStep, CountStep, DecisionStep, OrderStep, StatsStep
  <2> QED
    BY <2>1, <2>2, <2>3 DEF IInv
<1> QED
  BY InitHolds, <1>1, PTL DEF Spec

(* Collect publishes, and the frame selects, only revisions whose every    *)
(* fragment is ready and whose required fragments are in their slots       *)
(* (Collect's look at `failed', Seal's ValidateClosure).                   *)
THEOREM OnlyWholeRevisionsPublished == Spec => []PublishedIsWhole
<1>1. IInv => PublishedIsWhole
  BY DEF IInv, OrderInv, Whole, PublishedIsWhole, Names
<1> QED
  BY InvariantHolds, <1>1, PTL

(* A revision on the completion stack is settled, has failed exactly if    *)
(* one of its fragments did, and then carries its error; the counters      *)
(* account for every sealed revision once (CountDown, Collect's m_stats).  *)
THEOREM CompletedAreDecided == Spec => []CompletedIsDecided
<1>1. IInv => CompletedIsDecided
  <2> SUFFICES ASSUME IInv PROVE CompletedIsDecided
    OBVIOUS
  <2>1. TypeOK /\ StatsInv
    BY DEF IInv, Types
  <2>2. ASSUME NEW r \in completed
        PROVE  /\ Settled(r) /\ revision[r].remaining = 0
               /\ revision[r].failed <=> \E f \in Named(revision[r].slots) : state[f] = "Failed"
               /\ revision[r].failed => /\ revision[r].error \in Named(revision[r].slots)
                                        /\ state[revision[r].error] = "Failed"
    BY CompletedSettled DEF Settled, Names, ErrorKnown
  <2> QED
    BY <2>1, <2>2 DEF CompletedIsDecided, StatsInv
<1> QED
  BY InvariantHolds, <1>1, PTL

(* The frame never goes back: neither Collect nor TrySelect hands it a     *)
(* revision older than the one it runs with.                               *)
THEOREM NewestAlwaysWins == Spec => NewestWins
<1>1. IInv /\ IInv' /\ [Next]_vars => [active' >= active /\ (mailbox' # 0 => mailbox' >= active')]_vars
  <2> SUFFICES ASSUME IInv, IInv', [Next]_vars
               PROVE  active' >= active /\ (mailbox' # 0 => mailbox' >= active')
    OBVIOUS
  <2>1. mailbox' # 0 => mailbox' >= active'
    BY DEF IInv, OrderInv, Types, LocalsOK
  <2>2. active \in Nat /\ mailbox \in Nat /\ (mailbox # 0 => mailbox >= active)
    BY DEF IInv, OrderInv, Types, LocalsOK
  <2>3. active' = active \/ (mailbox # 0 /\ active' = mailbox)
    BY DEF Next, Produce, Sealing, Walk, vars, TakeWaiters, WalkWaiter, Settle, WriteError,
           CountDown, Notify, Begin, Set, Seal, Attach, AttachEnd, Collect, TrySelect
  <2> QED
    BY <2>1, <2>2, <2>3
<1> QED
  BY InvariantHolds, <1>1, PTL DEF Spec, NewestWins
=============================================================================
