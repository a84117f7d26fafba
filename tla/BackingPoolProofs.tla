-------------------------- MODULE BackingPoolProofs --------------------------
(***************************************************************************)
(* The safety of BackingPool, for any number of backings, of finitely many *)
(* acquirers, holders and pinners, any configuration and any clock.  The   *)
(* inductive invariant says, beside the types:                             *)
(*   - CountInv: the two counters of a backing count its leases and pins;  *)
(*   - HandleInv: where a thread's lease and pin are in use;               *)
(*   - PlaceInv: where a backing without a lease is;                       *)
(*   - CallInv: one acquirer is inside the exclusion, and the candidates   *)
(*     of its call are free backings the clock has passed;                 *)
(*   - ClaimInv: a claim is seen by every consumer that pins after it.     *)
(***************************************************************************)
EXTENDS BackingPool, FiniteSetTheorems, TLAPS

Labels == {"idle", "event", "wake", "return", "check", "refused", "pinned", "take", "look", "choose",
           "claim", "claimed", "subscribe", "exhausted", "recheck", "waiting"}

\* The types TypeOK leaves out.  Nothing depends on the clock point a call arms.
LocalsOK ==
  /\ pc \in [Threads -> Labels]
  /\ after \in [Threads -> {"idle", "exhausted", "waiting"}]
  /\ pin \in [Pinners -> Backings \cup {None}]
  /\ want \in [Acquirers -> Classes \cup {None}]
  /\ completed \in 0 .. MaxPoint
  /\ call \in [mode : {"none", "acquire", "trim"}, seen : Nat, same : SUBSET Backings,
               rest : SUBSET Backings, chosen : Backings \cup {None},
               target : Backings \cup {None}, purpose : {"none", "reuse", "release", "bound"},
               point : {call.point}]

Types == TypeOK /\ LocalsOK

Holding(b) == {t \in Leasers : lease[t] = b /\ pc[t] # "return"}
Pinning(b) == {p \in Pinners : pin[p] = b}

CountInv ==
  /\ \A b \in Backings : leases[b] = Cardinality(Holding(b))
  /\ \A b \in Backings : consumers[b] = Cardinality(Pinning(b))

HandleInv ==
  /\ \A p \in Pinners : pin[p] # None <=> pc[p] \in {"check", "refused", "pinned"}
  /\ \A t \in Leasers : pc[t] = "return" => lease[t] # None
  /\ \A t \in Leasers : lease[t] # None => lease[t] \in all

PlaceInv ==
  /\ returned \subseteq all /\ returned \cap free = {}
  /\ \A b \in free \cup returned : leases[b] = 0
  /\ \A t \in Leasers : pc[t] = "return" =>
       leases[lease[t]] = 0 /\ lease[t] \notin free \cup returned
  /\ \A t, u \in Leasers : pc[t] = "return" /\ pc[u] = "return" /\ lease[t] = lease[u] => t = u
  /\ \A b \in all : leases[b] = 0 =>
       b \in free \cup returned \/ \E t \in Leasers : pc[t] = "return" /\ lease[t] = b

InCall(a) == pc[a] \in {"take", "look", "choose", "claim", "claimed", "subscribe"}
Inside(a) == InCall(a) \/ (pc[a] \in {"event", "wake"} /\ after[a] = "exhausted")
Candidates == call.same \cup call.rest

CallInv ==
  \A a \in Acquirers :
    /\ Inside(a) => lock = a
    /\ InCall(a) =>
         /\ call.mode \in {"acquire", "trim"}
         /\ call.mode = "acquire" => lease[a] = None
         /\ call.mode = "trim" => call.same = {} /\ call.chosen = None
         /\ pc[a] \in {"take", "look"} => Candidates = {} /\ call.chosen = None
         /\ Candidates \subseteq free /\ call.same \cap call.rest = {}
         /\ \A b \in Candidates : completed >= safeAt[b]
         /\ call.chosen # None => call.chosen \in free \ Candidates
    /\ pc[a] \in {"claim", "claimed"} =>
         /\ call.target \in free \ Candidates
         /\ call.target # call.chosen
         /\ call.purpose # "release" => call.mode = "acquire"
         /\ call.purpose # "bound" => completed >= safeAt[call.target]

ClaimInv ==
  \A a \in Acquirers :
    /\ pc[a] \in {"claim", "claimed"} => retired[call.target]
    /\ pc[a] = "claimed" => \A p \in Pinners : pin[p] = call.target => pc[p] # "pinned"

IInv == Types /\ CountInv /\ HandleInv /\ PlaceInv /\ CallInv /\ ClaimInv

-----------------------------------------------------------------------------
(* A backing with a lease, or a pin, has a count, and the last one has no  *)
(* other beside it.                                                        *)
LEMMA CountsHolders ==
  ASSUME Types, CountInv, NEW t \in Leasers, lease[t] # None, pc[t] # "return"
  PROVE  /\ lease[t] \in Backings /\ leases[lease[t]] \in Nat \ {0}
         /\ leases[lease[t]] = 1 => Holding(lease[t]) = {t}
         /\ leases[lease[t]] # 1 => leases[lease[t]] - 1 \in Nat \ {0}
<1> DEFINE H == Holding(lease[t])
<1>1. lease[t] \in Backings /\ leases[lease[t]] = Cardinality(H) /\ leases[lease[t]] \in Nat
  BY DEF Types, TypeOK, CountInv
<1>2. IsFiniteSet(H)
  BY PoolAssumption, FS_Union, FS_Subset DEF Leasers, Holding
<1>3. t \in H
  BY DEF Holding
<1> HIDE DEF H
<1>4. Cardinality(H) # 0
  BY <1>2, <1>3, FS_EmptySet
<1>5. Cardinality(H) = 1 => H = {t}
  BY <1>2, <1>3, FS_Singleton
<1> QED
  BY <1>1, <1>4, <1>5 DEF H

LEMMA CountsPinners ==
  ASSUME Types, CountInv, NEW t \in Pinners, pin[t] # None
  PROVE  pin[t] \in Backings /\ consumers[pin[t]] \in Nat \ {0}
<1> DEFINE P == Pinning(pin[t])
<1>1. pin[t] \in Backings /\ consumers[pin[t]] = Cardinality(P) /\ consumers[pin[t]] \in Nat
  BY DEF Types, TypeOK, LocalsOK, CountInv
<1>2. IsFiniteSet(P) /\ t \in P
  BY PoolAssumption, FS_Subset DEF Pinning
<1> HIDE DEF P
<1> QED
  BY <1>1, <1>2, FS_EmptySet

(* A lease's backing is neither free nor on the return stack.              *)
LEMMA LeasedIsNotFree ==
  ASSUME IInv, NEW t \in Leasers, lease[t] # None
  PROVE  lease[t] \in all \ (free \cup returned)
<1>1. lease[t] \in all
  BY DEF IInv, HandleInv
<1>2. CASE pc[t] = "return"
  BY <1>1, <1>2 DEF IInv, PlaceInv
<1>3. CASE pc[t] # "return"
  BY <1>1, <1>3, CountsHolders DEF IInv, PlaceInv
<1> QED
  BY <1>2, <1>3

(* Every action keeps the variables in their types.                        *)
LEMMA TypeStep ==
  ASSUME IInv, [Next]_vars
  PROVE  Types'
<1> USE PoolAssumption DEF IInv, Types, TypeOK, LocalsOK, Labels, Threads, Leasers, NoCall, backing, lists, availability, clock, locals, handles, Goto
<1>1. CASE UNCHANGED vars
  BY <1>1 DEF vars
<1>2. ASSUME NEW t \in Threads,
            RaiseEvent(t) \/ WakeWaiters(t)
      PROVE  Types'
  BY <1>2 DEF RaiseEvent, WakeWaiters
<1>3. CASE Advance
  BY <1>3 DEF Advance
<1>4. ASSUME NEW p \in subs, ClockWake(p) PROVE Types'
  BY <1>4 DEF ClockWake, GoEvent
<1>5. ASSUME NEW t \in Pinners, PinCheck(t) PROVE Types'
  BY <1>5 DEF PinCheck
<1>6. ASSUME NEW t \in Pinners, Unpin(t) PROVE Types'
  BY <1>6, CountsPinners DEF Unpin, GoEvent, HandleInv
<1>7. ASSUME NEW t \in Pinners, NEW b \in Backings, PinCount(t, b) PROVE Types'
  BY <1>7 DEF PinCount
<1>8. ASSUME NEW t \in Leasers, PushReturned(t) PROVE Types'
  BY <1>8 DEF PushReturned, GoEvent, HandleInv
<1>9. ASSUME NEW t \in Leasers, NEW h \in Holders, CopyLease(t, h) PROVE Types'
  BY <1>9 DEF CopyLease
<1>10. ASSUME NEW t \in Leasers, NEW p \in 1 .. MaxPoint, Bind(t, p) PROVE Types'
  BY <1>10 DEF Bind
<1>11. ASSUME NEW t \in Leasers, ResetLease(t) PROVE Types'
  BY <1>11, CountsHolders DEF ResetLease
<1>12. ASSUME NEW a \in Acquirers, NEW c \in Classes, BeginAcquire(a, c) PROVE Types'
  BY <1>12 DEF BeginAcquire
<1>13. ASSUME NEW a \in Acquirers, BeginTrim(a) PROVE Types'
  BY <1>13 DEF BeginTrim
<1>14. ASSUME NEW a \in Acquirers, TakeReturned(a) PROVE Types'
  BY <1>14 DEF TakeReturned
<1>15. ASSUME NEW a \in Acquirers, Look(a) PROVE Types'
  <2>1. \E S, R \in SUBSET Backings, n \in Nat :
          call' = [call EXCEPT !.seen = n, !.same = S, !.rest = R]
    <3>1. CASE call.mode = "acquire"
      <4> DEFINE reusable == {b \in free : Reusable(b)}
                 mine == {b \in reusable : class[b] = want[a]}
      <4>1. call' = [call EXCEPT !.seen = completed, !.same = mine, !.rest = reusable \ mine]
        BY <1>15, <3>1 DEF Look
      <4>2. mine \in SUBSET Backings /\ reusable \ mine \in SUBSET Backings /\ completed \in Nat
        OBVIOUS
      <4> HIDE DEF mine, reusable
      <4> QED
        BY <4>1, <4>2
    <3>2. CASE call.mode = "trim"
      <4>1. PICK R \in SUBSET Backings : call' = [call EXCEPT !.rest = R]
        BY <1>15, <3>2 DEF Look
      <4>2. call' = [call EXCEPT !.seen = call.seen, !.same = call.same, !.rest = R]
        BY <4>1
      <4> QED
        BY <4>2
    <3> QED
      BY <1>15, <3>1, <3>2 DEF Look
  <2> QED
    BY <1>15, <2>1 DEF Look
<1>16. ASSUME NEW a \in Acquirers, ClaimCandidate(a) PROVE Types'
  <2>1. PICK b \in call.same : Claim(a, b, "reuse", [call EXCEPT !.same = @ \ {b}])
    BY <1>16 DEF ClaimCandidate
  <2> QED
    BY <2>1 DEF Claim
<1>17. ASSUME NEW a \in Acquirers, KeepSpares(a) PROVE Types'
  <2>1. PICK keep \in SUBSET call.same :
          call' = [call EXCEPT !.same = {}, !.rest = @ \cup (call.same \ keep)]
    BY <1>17 DEF KeepSpares, Spares
  <2> QED
    BY <1>17, <2>1 DEF KeepSpares
<1>18. ASSUME NEW a \in Acquirers, ClaimRelease(a) PROVE Types'
  <2>1. PICK b \in call.rest : Claim(a, b, "release", [call EXCEPT !.rest = @ \ {b}])
    BY <1>18 DEF ClaimRelease
  <2> QED
    BY <2>1 DEF Claim
<1>19. ASSUME NEW a \in Acquirers, ClaimCheck(a) PROVE Types'
  BY <1>19 DEF ClaimCheck, CallInv
<1>20. ASSUME NEW a \in Acquirers, Recirculate(a) PROVE Types'
  BY <1>20 DEF Recirculate
<1>21. ASSUME NEW a \in Acquirers, ReleaseBacking(a) PROVE Types'
  BY <1>21 DEF ReleaseBacking
<1>22. ASSUME NEW a \in Acquirers,
            EndTrim(a) \/ AllocateThrows(a)
      PROVE  Types'
  BY <1>22 DEF EndTrim, LoopsDone, Leave, AllocateThrows, NoneChosen
<1>23. ASSUME NEW a \in Acquirers, LeaseChosen(a) PROVE Types'
  BY <1>23 DEF LeaseChosen, LoopsDone, Leave
<1>24. ASSUME NEW a \in Acquirers, NEW b \in Backings, Allocate(a, b) PROVE Types'
  BY <1>24 DEF Allocate, NoneChosen, LoopsDone, Leave
<1>25. ASSUME NEW a \in Acquirers, NEW b \in Backings, ClaimBound(a, b) PROVE Types'
  BY <1>25 DEF ClaimBound, Claim, NoneChosen, LoopsDone, BoundOnly
<1>26. ASSUME NEW a \in Acquirers, Exhaust(a) PROVE Types'
  BY <1>26 DEF Exhaust, NoneChosen, LoopsDone, Leave
<1>27. ASSUME NEW a \in Acquirers, SubscribeClock(a) PROVE Types'
  BY <1>27 DEF SubscribeClock, Leave, GoEvent
<1>28. ASSUME NEW a \in Acquirers,
            Subscribe(a) \/ Recheck(a) \/ Retry(a)
      PROVE  Types'
  BY <1>28 DEF Subscribe, Recheck, GoEvent, Retry
<1> QED
  BY <1>1, <1>2, <1>3, <1>4, <1>5, <1>6, <1>7, <1>8, <1>9, <1>10, <1>11, <1>12, <1>13, <1>14, <1>15, <1>16, <1>17, <1>18, <1>19, <1>20, <1>21, <1>22, <1>23, <1>24, <1>25, <1>26, <1>27, <1>28
     DEF Next, Step, Call, AcquirerStep, ClockStep

(* A handle is in use from its lease or pin to its release.                *)
LEMMA HandleStep ==
  ASSUME IInv, [Next]_vars
  PROVE  HandleInv'
<1> USE PoolAssumption DEF IInv, Types, TypeOK, LocalsOK, Labels, Threads, Leasers, HandleInv, backing, lists, availability, clock, locals, handles, Goto
<1>1. CASE UNCHANGED vars
  BY <1>1 DEF vars
<1>2. ASSUME NEW t \in Threads,
            RaiseEvent(t) \/ WakeWaiters(t)
      PROVE  HandleInv'
  BY <1>2 DEF RaiseEvent, WakeWaiters
<1>3. CASE Advance
  BY <1>3 DEF Advance
<1>4. ASSUME NEW p \in subs, ClockWake(p) PROVE HandleInv'
  BY <1>4 DEF ClockWake, GoEvent
<1>5. ASSUME NEW t \in Pinners, PinCheck(t) PROVE HandleInv'
  BY <1>5 DEF PinCheck
<1>6. ASSUME NEW t \in Pinners, Unpin(t) PROVE HandleInv'
  BY <1>6 DEF Unpin, GoEvent
<1>7. ASSUME NEW t \in Pinners, NEW b \in Backings, PinCount(t, b) PROVE HandleInv'
  BY <1>7 DEF PinCount
<1>8. ASSUME NEW t \in Leasers, PushReturned(t) PROVE HandleInv'
  BY <1>8 DEF PushReturned, GoEvent
<1>9. ASSUME NEW t \in Leasers, NEW h \in Holders, CopyLease(t, h) PROVE HandleInv'
  BY <1>9 DEF CopyLease
<1>10. ASSUME NEW t \in Leasers, NEW p \in 1 .. MaxPoint, Bind(t, p) PROVE HandleInv'
  BY <1>10 DEF Bind
<1>11. ASSUME NEW t \in Leasers, ResetLease(t) PROVE HandleInv'
  BY <1>11 DEF ResetLease
<1>12. ASSUME NEW a \in Acquirers, NEW c \in Classes, BeginAcquire(a, c) PROVE HandleInv'
  BY <1>12 DEF BeginAcquire
<1>13. ASSUME NEW a \in Acquirers, BeginTrim(a) PROVE HandleInv'
  BY <1>13 DEF BeginTrim
<1>14. ASSUME NEW a \in Acquirers, TakeReturned(a) PROVE HandleInv'
  BY <1>14 DEF TakeReturned
<1>15. ASSUME NEW a \in Acquirers, Look(a) PROVE HandleInv'
  BY <1>15 DEF Look, Reusable, Spares
<1>16. ASSUME NEW a \in Acquirers, ClaimCandidate(a) PROVE HandleInv'
  BY <1>16 DEF ClaimCandidate, Claim
<1>17. ASSUME NEW a \in Acquirers, KeepSpares(a) PROVE HandleInv'
  BY <1>17 DEF KeepSpares, Spares
<1>18. ASSUME NEW a \in Acquirers, ClaimRelease(a) PROVE HandleInv'
  BY <1>18 DEF ClaimRelease, Claim
<1>19. ASSUME NEW a \in Acquirers, ClaimCheck(a) PROVE HandleInv'
  BY <1>19 DEF ClaimCheck
<1>20. ASSUME NEW a \in Acquirers, Recirculate(a) PROVE HandleInv'
  BY <1>20 DEF Recirculate
<1>21. ASSUME NEW a \in Acquirers, ReleaseBacking(a) PROVE HandleInv'
  BY <1>21, LeasedIsNotFree DEF ReleaseBacking, CallInv
<1>22. ASSUME NEW a \in Acquirers,
            EndTrim(a) \/ AllocateThrows(a)
      PROVE  HandleInv'
  BY <1>22 DEF EndTrim, LoopsDone, Leave, AllocateThrows, NoneChosen
<1>23. ASSUME NEW a \in Acquirers, LeaseChosen(a) PROVE HandleInv'
  BY <1>23 DEF CallInv, InCall, LeaseChosen, LoopsDone, Leave
<1>24. ASSUME NEW a \in Acquirers, NEW b \in Backings, Allocate(a, b) PROVE HandleInv'
  BY <1>24 DEF Allocate, NoneChosen, LoopsDone, Leave
<1>25. ASSUME NEW a \in Acquirers, NEW b \in Backings, ClaimBound(a, b) PROVE HandleInv'
  BY <1>25 DEF ClaimBound, Claim, NoneChosen, LoopsDone, BoundOnly
<1>26. ASSUME NEW a \in Acquirers, Exhaust(a) PROVE HandleInv'
  BY <1>26 DEF Exhaust, NoneChosen, LoopsDone, Leave
<1>27. ASSUME NEW a \in Acquirers, SubscribeClock(a) PROVE HandleInv'
  BY <1>27 DEF SubscribeClock, Leave, GoEvent
<1>28. ASSUME NEW a \in Acquirers,
            Subscribe(a) \/ Recheck(a) \/ Retry(a)
      PROVE  HandleInv'
  BY <1>28 DEF Subscribe, Recheck, GoEvent, Retry
<1> QED
  BY <1>1, <1>2, <1>3, <1>4, <1>5, <1>6, <1>7, <1>8, <1>9, <1>10, <1>11, <1>12, <1>13, <1>14, <1>15, <1>16, <1>17, <1>18, <1>19, <1>20, <1>21, <1>22, <1>23, <1>24, <1>25, <1>26, <1>27, <1>28
     DEF Next, Step, Call, AcquirerStep, ClockStep

(* A backing moves from its last lease to the return stack, to the free     *)
(* list, and into the next lease.                                          *)
LEMMA PlaceStep ==
  ASSUME IInv, [Next]_vars
  PROVE  PlaceInv'
<1> USE PoolAssumption DEF IInv, Types, TypeOK, LocalsOK, Labels, Threads, Leasers, HandleInv, PlaceInv, backing, lists, availability, clock, locals, handles, Goto
<1>1. CASE UNCHANGED vars
  BY <1>1 DEF vars
<1>2. ASSUME NEW t \in Threads,
            RaiseEvent(t) \/ WakeWaiters(t)
      PROVE  PlaceInv'
  BY <1>2 DEF RaiseEvent, WakeWaiters
<1>3. CASE Advance
  BY <1>3 DEF Advance
<1>4. ASSUME NEW p \in subs, ClockWake(p) PROVE PlaceInv'
  BY <1>4 DEF ClockWake, GoEvent
<1>5. ASSUME NEW t \in Pinners, PinCheck(t) PROVE PlaceInv'
  BY <1>5 DEF PinCheck
<1>6. ASSUME NEW t \in Pinners, Unpin(t) PROVE PlaceInv'
  BY <1>6 DEF Unpin, GoEvent
<1>7. ASSUME NEW t \in Pinners, NEW b \in Backings, PinCount(t, b) PROVE PlaceInv'
  BY <1>7 DEF PinCount
<1>8. ASSUME NEW t \in Leasers, PushReturned(t) PROVE PlaceInv'
  BY <1>8 DEF PushReturned, GoEvent
<1>9. ASSUME NEW t \in Leasers, NEW h \in Holders, CopyLease(t, h) PROVE PlaceInv'
  BY <1>9, CountsHolders DEF CopyLease
<1>10. ASSUME NEW t \in Leasers, NEW p \in 1 .. MaxPoint, Bind(t, p) PROVE PlaceInv'
  BY <1>10 DEF Bind
<1>11. ASSUME NEW t \in Leasers, ResetLease(t) PROVE PlaceInv'
  <2>1. CASE leases[lease[t]] = 1
    <3>1. /\ leases' = [leases EXCEPT ![lease[t]] = 0]
          /\ pc' = [pc EXCEPT ![t] = "return"]
          /\ UNCHANGED <<lists, lease>>
      BY <1>11, <2>1 DEF ResetLease
    <3>2. \A u \in Leasers : pc[u] = "return" => lease[u] # lease[t]
      BY <2>1
    <3>3. lease[t] \in all \ (free \cup returned)
      BY <1>11, LeasedIsNotFree DEF ResetLease
    <3> QED
      BY <1>11, <3>1, <3>2, <3>3 DEF ResetLease
  <2>2. CASE leases[lease[t]] # 1
    <3>1. leases[lease[t]] - 1 # 0
      BY <1>11, <2>2, CountsHolders DEF ResetLease
    <3>2. /\ leases' = [leases EXCEPT ![lease[t]] = @ - 1]
          /\ lease' = [lease EXCEPT ![t] = None]
          /\ UNCHANGED <<lists, pc>>
      BY <1>11, <2>2 DEF ResetLease
    <3>3. lease[t] \in all \ (free \cup returned)
      BY <1>11, LeasedIsNotFree DEF ResetLease
    <3>4. \A u \in Leasers : pc[u] = "return" => u # t
      BY <1>11 DEF ResetLease
    <3>5. \A u \in Leasers : pc[u] = "return" => lease[u] # lease[t]
      BY <1>11, CountsHolders DEF ResetLease
    <3> QED
      BY <1>11, <3>1, <3>2, <3>3, <3>4, <3>5
  <2> QED
    BY <1>11, <2>1, <2>2
<1>12. ASSUME NEW a \in Acquirers, NEW c \in Classes, BeginAcquire(a, c) PROVE PlaceInv'
  BY <1>12 DEF BeginAcquire
<1>13. ASSUME NEW a \in Acquirers, BeginTrim(a) PROVE PlaceInv'
  BY <1>13 DEF BeginTrim
<1>14. ASSUME NEW a \in Acquirers, TakeReturned(a) PROVE PlaceInv'
  BY <1>14 DEF TakeReturned
<1>15. ASSUME NEW a \in Acquirers, Look(a) PROVE PlaceInv'
  BY <1>15 DEF Look, Reusable, Spares
<1>16. ASSUME NEW a \in Acquirers, ClaimCandidate(a) PROVE PlaceInv'
  BY <1>16 DEF ClaimCandidate, Claim
<1>17. ASSUME NEW a \in Acquirers, KeepSpares(a) PROVE PlaceInv'
  BY <1>17 DEF KeepSpares, Spares
<1>18. ASSUME NEW a \in Acquirers, ClaimRelease(a) PROVE PlaceInv'
  BY <1>18 DEF ClaimRelease, Claim
<1>19. ASSUME NEW a \in Acquirers, ClaimCheck(a) PROVE PlaceInv'
  BY <1>19 DEF ClaimCheck
<1>20. ASSUME NEW a \in Acquirers, Recirculate(a) PROVE PlaceInv'
  BY <1>20 DEF Recirculate
<1>21. ASSUME NEW a \in Acquirers, ReleaseBacking(a) PROVE PlaceInv'
  BY <1>21 DEF CallInv, ReleaseBacking
<1>22. ASSUME NEW a \in Acquirers,
            EndTrim(a) \/ AllocateThrows(a)
      PROVE  PlaceInv'
  BY <1>22 DEF EndTrim, LoopsDone, Leave, AllocateThrows, NoneChosen
<1>23. ASSUME NEW a \in Acquirers, LeaseChosen(a) PROVE PlaceInv'
  BY <1>23 DEF CallInv, InCall, Candidates, LeaseChosen, LoopsDone, Leave
<1>24. ASSUME NEW a \in Acquirers, NEW b \in Backings, Allocate(a, b) PROVE PlaceInv'
  BY <1>24 DEF Allocate, NoneChosen, LoopsDone, Leave
<1>25. ASSUME NEW a \in Acquirers, NEW b \in Backings, ClaimBound(a, b) PROVE PlaceInv'
  BY <1>25 DEF ClaimBound, Claim, NoneChosen, LoopsDone, BoundOnly
<1>26. ASSUME NEW a \in Acquirers, Exhaust(a) PROVE PlaceInv'
  BY <1>26 DEF Exhaust, NoneChosen, LoopsDone, Leave
<1>27. ASSUME NEW a \in Acquirers, SubscribeClock(a) PROVE PlaceInv'
  BY <1>27 DEF SubscribeClock, Leave, GoEvent
<1>28. ASSUME NEW a \in Acquirers,
            Subscribe(a) \/ Recheck(a) \/ Retry(a)
      PROVE  PlaceInv'
  BY <1>28 DEF Subscribe, Recheck, GoEvent, Retry
<1> QED
  BY <1>1, <1>2, <1>3, <1>4, <1>5, <1>6, <1>7, <1>8, <1>9, <1>10, <1>11, <1>12, <1>13, <1>14, <1>15, <1>16, <1>17, <1>18, <1>19, <1>20, <1>21, <1>22, <1>23, <1>24, <1>25, <1>26, <1>27, <1>28
     DEF Next, Step, Call, AcquirerStep, ClockStep

(* The exclusion keeps an acquirer's candidates free, and free backings are *)
(* not bound.                                                              *)
LEMMA CallStep ==
  ASSUME IInv, [Next]_vars
  PROVE  CallInv'
<1> USE PoolAssumption DEF IInv, Types, TypeOK, LocalsOK, Labels, Threads, Leasers, CallInv, InCall, Inside, Candidates, NoCall, backing, lists, availability, clock, locals, handles, Goto
<1>1. CASE UNCHANGED vars
  BY <1>1 DEF vars
<1>2. ASSUME NEW t \in Threads,
            RaiseEvent(t) \/ WakeWaiters(t)
      PROVE  CallInv'
  BY <1>2 DEF RaiseEvent, WakeWaiters
<1>3. CASE Advance
  BY <1>3 DEF Advance
<1>4. ASSUME NEW p \in subs, ClockWake(p) PROVE CallInv'
  BY <1>4 DEF ClockWake, GoEvent
<1>5. ASSUME NEW t \in Pinners, PinCheck(t) PROVE CallInv'
  BY <1>5 DEF PinCheck
<1>6. ASSUME NEW t \in Pinners, Unpin(t) PROVE CallInv'
  BY <1>6 DEF Unpin, GoEvent
<1>7. ASSUME NEW t \in Pinners, NEW b \in Backings, PinCount(t, b) PROVE CallInv'
  BY <1>7 DEF PinCount
<1>8. ASSUME NEW t \in Leasers, PushReturned(t) PROVE CallInv'
  BY <1>8 DEF PushReturned, GoEvent
<1>9. ASSUME NEW t \in Leasers, NEW h \in Holders, CopyLease(t, h) PROVE CallInv'
  BY <1>9 DEF CopyLease
<1>10. ASSUME NEW t \in Leasers, NEW p \in 1 .. MaxPoint, Bind(t, p) PROVE CallInv'
  BY <1>10, LeasedIsNotFree DEF Bind
<1>11. ASSUME NEW t \in Leasers, ResetLease(t) PROVE CallInv'
  BY <1>11 DEF ResetLease
<1>12. ASSUME NEW a \in Acquirers, NEW c \in Classes, BeginAcquire(a, c) PROVE CallInv'
  BY <1>12 DEF BeginAcquire
<1>13. ASSUME NEW a \in Acquirers, BeginTrim(a) PROVE CallInv'
  BY <1>13 DEF BeginTrim
<1>14. ASSUME NEW a \in Acquirers, TakeReturned(a) PROVE CallInv'
  BY <1>14 DEF TakeReturned
<1>15. ASSUME NEW a \in Acquirers, Look(a) PROVE CallInv'
  <2>1. /\ call'.mode = call.mode /\ call'.chosen = call.chosen
        /\ call'.same \subseteq free /\ call'.rest \subseteq free
        /\ call'.same \cap call'.rest = {}
        /\ \A b \in call'.same \cup call'.rest : completed >= safeAt[b]
        /\ call.mode = "trim" => call'.same = {}
    <3> DEFINE reusable == {b \in free : Reusable(b)}
               mine == {b \in reusable : class[b] = want[a]}
    <3>1. reusable \subseteq free /\ \A b \in reusable : completed >= safeAt[b]
      BY DEF Reusable
    <3>2. CASE call.mode = "acquire"
      <4>1. call' = [call EXCEPT !.seen = completed, !.same = mine, !.rest = reusable \ mine]
        BY <1>15, <3>2 DEF Look
      <4>2. mine \subseteq reusable
        OBVIOUS
      <4> HIDE DEF mine, reusable
      <4> QED
        BY <3>1, <3>2, <4>1, <4>2
    <3>3. CASE call.mode = "trim"
      <4>1. PICK R \in SUBSET reusable : call' = [call EXCEPT !.rest = R]
        BY <1>15, <3>3 DEF Look
      <4>2. call.same = {}
        BY <1>15, <3>3 DEF Look
      <4> HIDE DEF mine, reusable
      <4> QED
        BY <3>1, <3>3, <4>1, <4>2
    <3> QED
      BY <1>15, <3>2, <3>3 DEF Look
  <2>2. pc' = [pc EXCEPT ![a] = "choose"]
    BY <1>15 DEF Look
  <2> QED
    BY <1>15, <2>1, <2>2 DEF Look
<1>16. ASSUME NEW a \in Acquirers, ClaimCandidate(a) PROVE CallInv'
  BY <1>16 DEF ClaimCandidate, Claim
<1>17. ASSUME NEW a \in Acquirers, KeepSpares(a) PROVE CallInv'
  BY <1>17 DEF KeepSpares, Spares
<1>18. ASSUME NEW a \in Acquirers, ClaimRelease(a) PROVE CallInv'
  BY <1>18 DEF ClaimRelease, Claim
<1>19. ASSUME NEW a \in Acquirers, ClaimCheck(a) PROVE CallInv'
  BY <1>19 DEF ClaimCheck
<1>20. ASSUME NEW a \in Acquirers, Recirculate(a) PROVE CallInv'
  BY <1>20 DEF Recirculate
<1>21. ASSUME NEW a \in Acquirers, ReleaseBacking(a) PROVE CallInv'
  BY <1>21 DEF ReleaseBacking
<1>22. ASSUME NEW a \in Acquirers,
            EndTrim(a) \/ AllocateThrows(a)
      PROVE  CallInv'
  BY <1>22 DEF EndTrim, LoopsDone, Leave, AllocateThrows, NoneChosen
<1>23. ASSUME NEW a \in Acquirers, LeaseChosen(a) PROVE CallInv'
  BY <1>23 DEF LeaseChosen, LoopsDone, Leave
<1>24. ASSUME NEW a \in Acquirers, NEW b \in Backings, Allocate(a, b) PROVE CallInv'
  BY <1>24 DEF Allocate, NoneChosen, LoopsDone, Leave
<1>25. ASSUME NEW a \in Acquirers, NEW b \in Backings, ClaimBound(a, b) PROVE CallInv'
  BY <1>25 DEF ClaimBound, Claim, NoneChosen, LoopsDone, BoundOnly
<1>26. ASSUME NEW a \in Acquirers, Exhaust(a) PROVE CallInv'
  BY <1>26 DEF Exhaust, NoneChosen, LoopsDone, Leave
<1>27. ASSUME NEW a \in Acquirers, SubscribeClock(a) PROVE CallInv'
  BY <1>27 DEF SubscribeClock, Leave, GoEvent
<1>28. ASSUME NEW a \in Acquirers,
            Subscribe(a) \/ Recheck(a) \/ Retry(a)
      PROVE  CallInv'
  BY <1>28 DEF Subscribe, Recheck, GoEvent, Retry
<1> QED
  BY <1>1, <1>2, <1>3, <1>4, <1>5, <1>6, <1>7, <1>8, <1>9, <1>10, <1>11, <1>12, <1>13, <1>14, <1>15, <1>16, <1>17, <1>18, <1>19, <1>20, <1>21, <1>22, <1>23, <1>24, <1>25, <1>26, <1>27, <1>28
     DEF Next, Step, Call, AcquirerStep, ClockStep

(* The claim's store and load against the pin's: one side sees the other.   *)
LEMMA ClaimStep ==
  ASSUME IInv, [Next]_vars
  PROVE  ClaimInv'
<1> USE PoolAssumption DEF IInv, Types, TypeOK, LocalsOK, Labels, Threads, Leasers, HandleInv, ClaimInv, CallInv, InCall, Inside, backing, lists, availability, clock, locals, handles, Goto
<1>1. CASE UNCHANGED vars
  BY <1>1 DEF vars
<1>2. ASSUME NEW t \in Threads,
            RaiseEvent(t) \/ WakeWaiters(t)
      PROVE  ClaimInv'
  BY <1>2 DEF RaiseEvent, WakeWaiters
<1>3. CASE Advance
  BY <1>3 DEF Advance
<1>4. ASSUME NEW p \in subs, ClockWake(p) PROVE ClaimInv'
  BY <1>4 DEF ClockWake, GoEvent
<1>5. ASSUME NEW t \in Pinners, PinCheck(t) PROVE ClaimInv'
  BY <1>5 DEF PinCheck
<1>6. ASSUME NEW t \in Pinners, Unpin(t) PROVE ClaimInv'
  BY <1>6 DEF Unpin, GoEvent
<1>7. ASSUME NEW t \in Pinners, NEW b \in Backings, PinCount(t, b) PROVE ClaimInv'
  BY <1>7 DEF PinCount
<1>8. ASSUME NEW t \in Leasers, PushReturned(t) PROVE ClaimInv'
  BY <1>8 DEF PushReturned, GoEvent
<1>9. ASSUME NEW t \in Leasers, NEW h \in Holders, CopyLease(t, h) PROVE ClaimInv'
  BY <1>9 DEF CopyLease
<1>10. ASSUME NEW t \in Leasers, NEW p \in 1 .. MaxPoint, Bind(t, p) PROVE ClaimInv'
  BY <1>10 DEF Bind
<1>11. ASSUME NEW t \in Leasers, ResetLease(t) PROVE ClaimInv'
  BY <1>11 DEF ResetLease
<1>12. ASSUME NEW a \in Acquirers, NEW c \in Classes, BeginAcquire(a, c) PROVE ClaimInv'
  BY <1>12 DEF BeginAcquire
<1>13. ASSUME NEW a \in Acquirers, BeginTrim(a) PROVE ClaimInv'
  BY <1>13 DEF BeginTrim
<1>14. ASSUME NEW a \in Acquirers, TakeReturned(a) PROVE ClaimInv'
  BY <1>14 DEF TakeReturned
<1>15. ASSUME NEW a \in Acquirers, Look(a) PROVE ClaimInv'
  BY <1>15 DEF Look, Reusable, Spares
<1>16. ASSUME NEW a \in Acquirers, ClaimCandidate(a) PROVE ClaimInv'
  BY <1>16 DEF ClaimCandidate, Claim
<1>17. ASSUME NEW a \in Acquirers, KeepSpares(a) PROVE ClaimInv'
  BY <1>17 DEF KeepSpares, Spares
<1>18. ASSUME NEW a \in Acquirers, ClaimRelease(a) PROVE ClaimInv'
  BY <1>18 DEF ClaimRelease, Claim
<1>19. ASSUME NEW a \in Acquirers, ClaimCheck(a) PROVE ClaimInv'
  BY <1>19, CountsPinners DEF ClaimCheck
<1>20. ASSUME NEW a \in Acquirers, Recirculate(a) PROVE ClaimInv'
  BY <1>20 DEF Recirculate
<1>21. ASSUME NEW a \in Acquirers, ReleaseBacking(a) PROVE ClaimInv'
  BY <1>21 DEF ReleaseBacking
<1>22. ASSUME NEW a \in Acquirers,
            EndTrim(a) \/ AllocateThrows(a)
      PROVE  ClaimInv'
  BY <1>22 DEF EndTrim, LoopsDone, Leave, AllocateThrows, NoneChosen
<1>23. ASSUME NEW a \in Acquirers, LeaseChosen(a) PROVE ClaimInv'
  BY <1>23 DEF LeaseChosen, LoopsDone, Leave
<1>24. ASSUME NEW a \in Acquirers, NEW b \in Backings, Allocate(a, b) PROVE ClaimInv'
  BY <1>24 DEF Allocate, NoneChosen, LoopsDone, Leave
<1>25. ASSUME NEW a \in Acquirers, NEW b \in Backings, ClaimBound(a, b) PROVE ClaimInv'
  BY <1>25 DEF ClaimBound, Claim, NoneChosen, LoopsDone, BoundOnly
<1>26. ASSUME NEW a \in Acquirers, Exhaust(a) PROVE ClaimInv'
  BY <1>26 DEF Exhaust, NoneChosen, LoopsDone, Leave
<1>27. ASSUME NEW a \in Acquirers, SubscribeClock(a) PROVE ClaimInv'
  BY <1>27 DEF SubscribeClock, Leave, GoEvent
<1>28. ASSUME NEW a \in Acquirers,
            Subscribe(a) \/ Recheck(a) \/ Retry(a)
      PROVE  ClaimInv'
  BY <1>28 DEF Subscribe, Recheck, GoEvent, Retry
<1> QED
  BY <1>1, <1>2, <1>3, <1>4, <1>5, <1>6, <1>7, <1>8, <1>9, <1>10, <1>11, <1>12, <1>13, <1>14, <1>15, <1>16, <1>17, <1>18, <1>19, <1>20, <1>21, <1>22, <1>23, <1>24, <1>25, <1>26, <1>27, <1>28
     DEF Next, Step, Call, AcquirerStep, ClockStep

(* The sets the counters count are finite.                                 *)
LEMMA FiniteCounts ==
  ASSUME NEW b
  PROVE  IsFiniteSet(Holding(b)) /\ IsFiniteSet(Pinning(b))
BY PoolAssumption, FS_Union, FS_Subset DEF Leasers, Holding, Pinning

(* Each copy, grant and pin adds one to its count, each release takes one  *)
(* off.                                                                    *)
LEMMA CountStep ==
  ASSUME IInv, [Next]_vars
  PROVE  CountInv'
<1> USE PoolAssumption DEF IInv, Types, TypeOK, LocalsOK, Labels, Threads, Leasers, HandleInv, CountInv, Holding, Pinning, backing, lists, availability, clock, locals, handles, Goto
<1>1. CASE UNCHANGED vars
  BY <1>1 DEF vars
<1>2. ASSUME NEW t \in Threads,
            RaiseEvent(t) \/ WakeWaiters(t)
      PROVE  CountInv'
  <2>1. /\ UNCHANGED <<leases, consumers>>
        /\ \A b \in Backings : Holding(b)' = Holding(b) /\ Pinning(b)' = Pinning(b)
    BY <1>2 DEF RaiseEvent, WakeWaiters
  <2> QED
    BY <2>1
<1>3. CASE Advance
  <2>1. /\ UNCHANGED <<leases, consumers>>
        /\ \A b \in Backings : Holding(b)' = Holding(b) /\ Pinning(b)' = Pinning(b)
    BY <1>3 DEF Advance
  <2> QED
    BY <2>1
<1>4. ASSUME NEW p \in subs, ClockWake(p) PROVE CountInv'
  <2>1. /\ UNCHANGED <<leases, consumers>>
        /\ \A b \in Backings : Holding(b)' = Holding(b) /\ Pinning(b)' = Pinning(b)
    BY <1>4 DEF ClockWake, GoEvent
  <2> QED
    BY <2>1
<1>5. ASSUME NEW t \in Pinners, PinCheck(t) PROVE CountInv'
  <2>1. /\ UNCHANGED <<leases, consumers>>
        /\ \A b \in Backings : Holding(b)' = Holding(b) /\ Pinning(b)' = Pinning(b)
    BY <1>5 DEF PinCheck
  <2> QED
    BY <2>1
<1>6. ASSUME NEW t \in Pinners, Unpin(t) PROVE CountInv'
  <2>1. PICK x \in Backings : x = pin[t]
    BY <1>6 DEF Unpin, GoEvent
  <2>2. consumers' = [consumers EXCEPT ![x] = @ - 1] /\ leases' = leases
    BY <1>6, <2>1 DEF Unpin, GoEvent
  <2>3. t \in Pinning(x) /\ Pinning(x)' = Pinning(x) \ {t}
    BY <1>6, <2>1 DEF Unpin, GoEvent
  <2>4. /\ \A b \in Backings \ {x} : Pinning(b)' = Pinning(b)
        /\ \A b \in Backings : Holding(b)' = Holding(b)
    BY <1>6, <2>1 DEF Unpin, GoEvent
  <2> HIDE DEF IInv, CountInv, Holding, Pinning
  <2>5. Cardinality(Pinning(x)') = Cardinality(Pinning(x)) - 1
    BY <2>3, FiniteCounts, FS_RemoveElement
  <2> QED
    BY <2>2, <2>4, <2>5 DEF IInv, CountInv
<1>7. ASSUME NEW t \in Pinners, NEW b \in Backings, PinCount(t, b) PROVE CountInv'
  <2>1. PICK x \in Backings : x = b
    BY <1>7 DEF PinCount
  <2>2. consumers' = [consumers EXCEPT ![x] = @ + 1] /\ leases' = leases
    BY <1>7, <2>1 DEF PinCount
  <2>3. t \notin Pinning(x) /\ Pinning(x)' = Pinning(x) \cup {t}
    BY <1>7, <2>1 DEF PinCount
  <2>4. /\ \A d \in Backings \ {x} : Pinning(d)' = Pinning(d)
        /\ \A d \in Backings : Holding(d)' = Holding(d)
    BY <1>7, <2>1 DEF PinCount
  <2> HIDE DEF IInv, CountInv, Holding, Pinning
  <2>5. Cardinality(Pinning(x)') = Cardinality(Pinning(x)) + 1
    BY <2>3, FiniteCounts, FS_AddElement
  <2> QED
    BY <2>2, <2>4, <2>5 DEF IInv, CountInv
<1>8. ASSUME NEW t \in Leasers, PushReturned(t) PROVE CountInv'
  <2>1. /\ UNCHANGED <<leases, consumers>>
        /\ \A b \in Backings : Holding(b)' = Holding(b) /\ Pinning(b)' = Pinning(b)
    BY <1>8 DEF PushReturned, GoEvent
  <2> QED
    BY <2>1
<1>9. ASSUME NEW t \in Leasers, NEW h \in Holders, CopyLease(t, h) PROVE CountInv'
  <2>1. PICK x \in Backings : x = lease[t]
    BY <1>9 DEF CopyLease
  <2>2. leases' = [leases EXCEPT ![x] = @ + 1] /\ consumers' = consumers
    BY <1>9, <2>1 DEF CopyLease
  <2>3. h \notin Holding(x) /\ Holding(x)' = Holding(x) \cup {h}
    BY <1>9, <2>1 DEF CopyLease
  <2>4. /\ \A b \in Backings \ {x} : Holding(b)' = Holding(b)
        /\ \A b \in Backings : Pinning(b)' = Pinning(b)
    BY <1>9, <2>1 DEF CopyLease
  <2> HIDE DEF IInv, CountInv, Holding, Pinning
  <2>5. Cardinality(Holding(x)') = Cardinality(Holding(x)) + 1
    BY <2>3, FiniteCounts, FS_AddElement
  <2> QED
    BY <2>2, <2>4, <2>5 DEF IInv, CountInv
<1>10. ASSUME NEW t \in Leasers, NEW p \in 1 .. MaxPoint, Bind(t, p) PROVE CountInv'
  <2>1. /\ UNCHANGED <<leases, consumers>>
        /\ \A b \in Backings : Holding(b)' = Holding(b) /\ Pinning(b)' = Pinning(b)
    BY <1>10 DEF Bind
  <2> QED
    BY <2>1
<1>11. ASSUME NEW t \in Leasers, ResetLease(t) PROVE CountInv'
  <2>1. PICK x \in Backings : x = lease[t]
    BY <1>11 DEF ResetLease
  <2>2. leases' = [leases EXCEPT ![x] = @ - 1] /\ consumers' = consumers
    BY <1>11, <2>1 DEF ResetLease
  <2>3. t \in Holding(x) /\ Holding(x)' = Holding(x) \ {t}
    BY <1>11, <2>1 DEF ResetLease
  <2>4. /\ \A b \in Backings \ {x} : Holding(b)' = Holding(b)
        /\ \A b \in Backings : Pinning(b)' = Pinning(b)
    BY <1>11, <2>1 DEF ResetLease
  <2> HIDE DEF IInv, CountInv, Holding, Pinning
  <2>5. Cardinality(Holding(x)') = Cardinality(Holding(x)) - 1
    BY <2>3, FiniteCounts, FS_RemoveElement
  <2> QED
    BY <2>2, <2>4, <2>5 DEF IInv, CountInv
<1>12. ASSUME NEW a \in Acquirers, NEW c \in Classes, BeginAcquire(a, c) PROVE CountInv'
  <2>1. /\ UNCHANGED <<leases, consumers>>
        /\ \A b \in Backings : Holding(b)' = Holding(b) /\ Pinning(b)' = Pinning(b)
    BY <1>12 DEF BeginAcquire
  <2> QED
    BY <2>1
<1>13. ASSUME NEW a \in Acquirers, BeginTrim(a) PROVE CountInv'
  <2>1. /\ UNCHANGED <<leases, consumers>>
        /\ \A b \in Backings : Holding(b)' = Holding(b) /\ Pinning(b)' = Pinning(b)
    BY <1>13 DEF BeginTrim
  <2> QED
    BY <2>1
<1>14. ASSUME NEW a \in Acquirers, TakeReturned(a) PROVE CountInv'
  <2>1. /\ UNCHANGED <<leases, consumers>>
        /\ \A b \in Backings : Holding(b)' = Holding(b) /\ Pinning(b)' = Pinning(b)
    BY <1>14 DEF TakeReturned
  <2> QED
    BY <2>1
<1>15. ASSUME NEW a \in Acquirers, Look(a) PROVE CountInv'
  <2>1. /\ UNCHANGED <<leases, consumers>>
        /\ \A b \in Backings : Holding(b)' = Holding(b) /\ Pinning(b)' = Pinning(b)
    BY <1>15 DEF Look, Reusable, Spares
  <2> QED
    BY <2>1
<1>16. ASSUME NEW a \in Acquirers, ClaimCandidate(a) PROVE CountInv'
  <2>1. /\ UNCHANGED <<leases, consumers>>
        /\ \A b \in Backings : Holding(b)' = Holding(b) /\ Pinning(b)' = Pinning(b)
    BY <1>16 DEF ClaimCandidate, Claim
  <2> QED
    BY <2>1
<1>17. ASSUME NEW a \in Acquirers, KeepSpares(a) PROVE CountInv'
  <2>1. /\ UNCHANGED <<leases, consumers>>
        /\ \A b \in Backings : Holding(b)' = Holding(b) /\ Pinning(b)' = Pinning(b)
    BY <1>17 DEF KeepSpares, Spares
  <2> QED
    BY <2>1
<1>18. ASSUME NEW a \in Acquirers, ClaimRelease(a) PROVE CountInv'
  <2>1. /\ UNCHANGED <<leases, consumers>>
        /\ \A b \in Backings : Holding(b)' = Holding(b) /\ Pinning(b)' = Pinning(b)
    BY <1>18 DEF ClaimRelease, Claim
  <2> QED
    BY <2>1
<1>19. ASSUME NEW a \in Acquirers, ClaimCheck(a) PROVE CountInv'
  <2>1. /\ UNCHANGED <<leases, consumers>>
        /\ \A b \in Backings : Holding(b)' = Holding(b) /\ Pinning(b)' = Pinning(b)
    BY <1>19 DEF ClaimCheck
  <2> QED
    BY <2>1
<1>20. ASSUME NEW a \in Acquirers, Recirculate(a) PROVE CountInv'
  <2>1. /\ UNCHANGED <<leases, consumers>>
        /\ \A b \in Backings : Holding(b)' = Holding(b) /\ Pinning(b)' = Pinning(b)
    BY <1>20 DEF Recirculate
  <2> QED
    BY <2>1
<1>21. ASSUME NEW a \in Acquirers, ReleaseBacking(a) PROVE CountInv'
  <2>1. /\ UNCHANGED <<leases, consumers>>
        /\ \A b \in Backings : Holding(b)' = Holding(b) /\ Pinning(b)' = Pinning(b)
    BY <1>21 DEF ReleaseBacking
  <2> QED
    BY <2>1
<1>22. ASSUME NEW a \in Acquirers,
            EndTrim(a) \/ AllocateThrows(a)
      PROVE  CountInv'
  <2>1. /\ UNCHANGED <<leases, consumers>>
        /\ \A b \in Backings : Holding(b)' = Holding(b) /\ Pinning(b)' = Pinning(b)
    BY <1>22 DEF EndTrim, LoopsDone, Leave, AllocateThrows, NoneChosen
  <2> QED
    BY <2>1
<1>23. ASSUME NEW a \in Acquirers, LeaseChosen(a) PROVE CountInv'
  <2>1. PICK x \in Backings : x = call.chosen
    BY <1>23 DEF LeaseChosen, LoopsDone, Leave, CallInv, InCall
  <2>2. leases' = [leases EXCEPT ![x] = @ + 1] /\ consumers' = consumers
    BY <1>23, <2>1 DEF LeaseChosen, LoopsDone, Leave, CallInv, InCall
  <2>3. a \notin Holding(x) /\ Holding(x)' = Holding(x) \cup {a}
    BY <1>23, <2>1 DEF LeaseChosen, LoopsDone, Leave, CallInv, InCall
  <2>4. /\ \A b \in Backings \ {x} : Holding(b)' = Holding(b)
        /\ \A b \in Backings : Pinning(b)' = Pinning(b)
    BY <1>23, <2>1 DEF LeaseChosen, LoopsDone, Leave, CallInv, InCall
  <2> HIDE DEF IInv, CountInv, Holding, Pinning
  <2>5. Cardinality(Holding(x)') = Cardinality(Holding(x)) + 1
    BY <2>3, FiniteCounts, FS_AddElement
  <2> QED
    BY <2>2, <2>4, <2>5 DEF IInv, CountInv
<1>24. ASSUME NEW a \in Acquirers, NEW b \in Backings, Allocate(a, b) PROVE CountInv'
  <2>1. PICK x \in Backings : x = b
    BY <1>24 DEF Allocate, NoneChosen, LoopsDone, Leave, CallInv, InCall, PlaceInv
  <2>0. leases[x] = 0
    <3>1. Holding(x) = {}
      BY <1>24, <2>1 DEF Allocate
    <3> HIDE DEF Holding
    <3> QED
      BY <3>1, FS_EmptySet
  <2>2. leases' = [leases EXCEPT ![x] = @ + 1] /\ consumers' = consumers
    BY <1>24, <2>1, <2>0 DEF Allocate, NoneChosen, LoopsDone, Leave, CallInv, InCall, PlaceInv
  <2>3. a \notin Holding(x) /\ Holding(x)' = Holding(x) \cup {a}
    BY <1>24, <2>1 DEF Allocate, NoneChosen, LoopsDone, Leave, CallInv, InCall, PlaceInv
  <2>4. /\ \A d \in Backings \ {x} : Holding(d)' = Holding(d)
        /\ \A d \in Backings : Pinning(d)' = Pinning(d)
    BY <1>24, <2>1 DEF Allocate, NoneChosen, LoopsDone, Leave, CallInv, InCall, PlaceInv
  <2> HIDE DEF IInv, CountInv, Holding, Pinning
  <2>5. Cardinality(Holding(x)') = Cardinality(Holding(x)) + 1
    BY <2>3, FiniteCounts, FS_AddElement
  <2> QED
    BY <2>2, <2>4, <2>5 DEF IInv, CountInv
<1>25. ASSUME NEW a \in Acquirers, NEW b \in Backings, ClaimBound(a, b) PROVE CountInv'
  <2>1. /\ UNCHANGED <<leases, consumers>>
        /\ \A d \in Backings : Holding(d)' = Holding(d) /\ Pinning(d)' = Pinning(d)
    BY <1>25 DEF ClaimBound, Claim, NoneChosen, LoopsDone, BoundOnly
  <2> QED
    BY <2>1
<1>26. ASSUME NEW a \in Acquirers, Exhaust(a) PROVE CountInv'
  <2>1. /\ UNCHANGED <<leases, consumers>>
        /\ \A b \in Backings : Holding(b)' = Holding(b) /\ Pinning(b)' = Pinning(b)
    BY <1>26 DEF Exhaust, NoneChosen, LoopsDone, Leave
  <2> QED
    BY <2>1
<1>27. ASSUME NEW a \in Acquirers, SubscribeClock(a) PROVE CountInv'
  <2>1. /\ UNCHANGED <<leases, consumers>>
        /\ \A b \in Backings : Holding(b)' = Holding(b) /\ Pinning(b)' = Pinning(b)
    BY <1>27 DEF SubscribeClock, Leave, GoEvent
  <2> QED
    BY <2>1
<1>28. ASSUME NEW a \in Acquirers,
            Subscribe(a) \/ Recheck(a) \/ Retry(a)
      PROVE  CountInv'
  <2>1. /\ UNCHANGED <<leases, consumers>>
        /\ \A b \in Backings : Holding(b)' = Holding(b) /\ Pinning(b)' = Pinning(b)
    BY <1>28 DEF Subscribe, Recheck, GoEvent, Retry
  <2> QED
    BY <2>1
<1> QED
  BY <1>1, <1>2, <1>3, <1>4, <1>5, <1>6, <1>7, <1>8, <1>9, <1>10, <1>11, <1>12, <1>13, <1>14, <1>15, <1>16, <1>17, <1>18, <1>19, <1>20, <1>21, <1>22, <1>23, <1>24, <1>25, <1>26, <1>27, <1>28
     DEF Next, Step, Call, AcquirerStep, ClockStep

-----------------------------------------------------------------------------
(* The invariant holds for a new pool, and every step of every thread      *)
(* preserves it.                                                           *)
THEOREM InvariantHolds == Spec => []IInv
<1>1. Init => IInv
  <2> SUFFICES ASSUME Init PROVE IInv
    OBVIOUS
  <2>1. Types
    BY PoolAssumption DEF Init, Types, TypeOK, LocalsOK, Labels, NoCall
  <2>2. \A b \in Backings : Holding(b) = {} /\ Pinning(b) = {}
    BY PoolAssumption DEF Init, Holding, Pinning, Leasers
  <2>3. CountInv
    BY <2>2, FS_EmptySet DEF Init, CountInv
  <2>4. HandleInv /\ PlaceInv
    BY DEF Init, HandleInv, PlaceInv, Leasers, Threads
  <2>5. CallInv /\ ClaimInv
    BY DEF Init, CallInv, InCall, Inside, ClaimInv, Threads, Leasers
  <2> QED
    BY <2>1, <2>3, <2>4, <2>5 DEF IInv
<1>2. IInv /\ [Next]_vars => IInv'
  <2> SUFFICES ASSUME IInv, [Next]_vars PROVE IInv'
    OBVIOUS
  <2>1. Types' /\ CountInv' /\ HandleInv'
    BY TypeStep, CountStep, HandleStep
  <2>2. PlaceInv' /\ CallInv' /\ ClaimInv'
    BY PlaceStep, CallStep, ClaimStep
  <2> QED
    BY <2>1, <2>2 DEF IInv
<1> QED
  BY <1>1, <1>2, PTL DEF Spec

(* One thread at most is returning a backing, and only one that has no     *)
(* lease and is in no list.                                                *)
LEMMA ReturningIsAlone ==
  ASSUME IInv, NEW b \in all
  PROVE  \/ Returning(b) = {} /\ Cardinality(Returning(b)) = 0
         \/ /\ Cardinality(Returning(b)) = 1
            /\ leases[b] = 0 /\ b \notin free \cup returned
<1>1. CASE Returning(b) = {}
  BY <1>1, FS_EmptySet
<1>2. CASE Returning(b) # {}
  <2>1. PICK t \in Leasers : pc[t] = "return" /\ lease[t] = b
    BY <1>2 DEF Returning
  <2>2. Returning(b) = {t}
    BY <2>1 DEF IInv, PlaceInv, Returning
  <2>3. Cardinality({t}) = 1
    BY FS_Singleton
  <2> QED
    BY <2>1, <2>2, <2>3 DEF IInv, PlaceInv
<1> QED
  BY <1>1, <1>2

(* Each backing of the pool is in one place: leased, being returned once,  *)
(* on the return stack, or free, through every interleaving of Reset,      *)
(* Returned, TakeReturned, Acquire and Trim.                               *)
THEOREM BackingsAreInOnePlace == Spec => []OnePlace
<1>1. IInv => OnePlace
  <2> SUFFICES ASSUME IInv PROVE OnePlace
    OBVIOUS
  <2>1. TypeOK
    BY DEF IInv, Types
  <2>2. ASSUME NEW b \in all
        PROVE  LET leased == IF leases[b] > 0 THEN 1 ELSE 0
                   stacked == IF b \in returned THEN 1 ELSE 0
                   listed == IF b \in free THEN 1 ELSE 0
               IN  leased + Cardinality(Returning(b)) + stacked + listed = 1
    <3>1. leases[b] \in Nat /\ ~(b \in free /\ b \in returned)
          /\ (b \in free \cup returned => leases[b] = 0)
      BY <2>1 DEF TypeOK, IInv, PlaceInv
    <3>2. leases[b] = 0 => b \in free \cup returned \/ Returning(b) # {}
      BY DEF IInv, PlaceInv, Returning
    <3>3. CASE Cardinality(Returning(b)) = 0 /\ Returning(b) = {}
      BY <3>1, <3>2, <3>3
    <3>4. CASE Cardinality(Returning(b)) = 1 /\ leases[b] = 0 /\ b \notin free \cup returned
      BY <3>4
    <3> QED
      BY <3>3, <3>4, ReturningIsAlone
  <2> QED
    BY <2>1, <2>2 DEF OnePlace
<1> QED
  BY <1>1, InvariantHolds, PTL

(* TryClaim against Pin: while the pool has a backing claimed, to reuse or *)
(* to release, it has no lease and no consumer that was let in.            *)
THEOREM ClaimedIsUnused == Spec => []ClaimExcludesUse
<1>1. IInv => ClaimExcludesUse
  BY DEF IInv, PlaceInv, CallInv, ClaimInv, ClaimExcludesUse
<1> QED
  BY <1>1, InvariantHolds, PTL

(* The clock has passed every bind of a backing that is claimed, however   *)
(* long the claim took, the reuse of the bound backing apart.              *)
THEOREM ClaimedIsRetired == Spec => []ClaimAfterRetirement
<1>1. IInv => ClaimAfterRetirement
  BY DEF IInv, CallInv, ClaimAfterRetirement
<1> QED
  BY <1>1, InvariantHolds, PTL
=============================================================================
