----------------------------- MODULE BackingPool -----------------------------
(***************************************************************************)
(* The pool of GPU backings of BackingPool.cpp.                            *)
(*                                                                         *)
(* Acquirers run one at a time inside the host's exclusion; holders copy,  *)
(* bind and release leases, and pinners pin backings, lock-free and at any *)
(* moment.  The clock is what RetirementClock promises: a subscribed point *)
(* is woken once it is reached.  One key is modelled, with its capacity    *)
(* classes; Acquire's preference among reusable backings (contentEpoch) is *)
(* a free choice.  `events' and `scanEvents' are only ever compared, so    *)
(* they are one flag: an event was raised since the last Acquire began.    *)
(***************************************************************************)
EXTENDS Naturals, FiniteSets, FiniteSetsExt

CONSTANTS
  Backings,     \* bound: the allocations there can be
  Acquirers,    \* threads that acquire, trim and subscribe
  Holders,      \* threads that hold leases given to them
  Pinners,      \* binding consumers
  Clock,        \* the thread that advances the clock
  Classes,      \* capacity classes
  MaxPerClass,  \* Config::maxPerClass, 0 for no cap
  SpareFree,    \* Config::spareFree
  MaxPoint,     \* bound: clock points
  None

ASSUME PoolAssumption ==
  /\ MaxPerClass \in Nat /\ SpareFree \in Nat /\ MaxPoint \in Nat
  /\ IsFiniteSet(Acquirers) /\ IsFiniteSet(Holders) /\ IsFiniteSet(Pinners)
  /\ None \notin Backings \cup Acquirers \cup Classes

Leasers == Acquirers \cup Holders
Threads == Leasers \cup Pinners \cup {Clock}

VARIABLES
  reuseBound,  \* Config::reuseBound, fixed at creation
  class,       \* each backing's capacity class
  leases,      \* Backing::leases
  safeAt,      \* Backing::safeAt
  retired,     \* Backing::retired
  consumers,   \* Backing::bindingConsumers
  made,        \* backings ever allocated
  all, free,   \* State::all and State::free
  activeClass, \* State::active: the class last asked for
  returned,    \* the return stack
  waiters,     \* availability subscriptions
  woken,       \* subscribers whose wake ran
  eventSinceScan, \* events # scanEvents
  armedAt,     \* the clock point availability is armed for (0: none)
  subs,        \* clock points the pool is subscribed at
  completed,   \* the clock
  lock,        \* the acquirer inside the exclusion
  call,        \* the locals of the acquirer inside
  want,        \* the class each acquirer asks for
  overtaken,   \* history: backings whose safeAt the clock passed between an
               \* acquirer's look and its ArmAvailability
  lease,       \* the backing each leaser's lease names
  pin,         \* the backing each pinner's hold names
  pc,          \* each thread's next step
  after        \* where a thread goes on after Event()

backing == <<reuseBound, class, leases, safeAt, retired, consumers, made>>
lists == <<all, free, activeClass, returned>>
availability == <<waiters, woken, eventSinceScan>>
clock == <<armedAt, subs, completed>>
locals == <<lock, call, want, overtaken>>
handles == <<lease, pin>>
vars == <<reuseBound, class, leases, safeAt, retired, consumers, made, all, free, activeClass, returned,
          waiters, woken, eventSinceScan, armedAt, subs, completed, lock, call, want,
          overtaken, lease, pin, pc, after>>

(* What an acquirer's call holds: the clock it read, the candidates of the  *)
(* class, those to release, the one chosen, the one being claimed and why,  *)
(* and the point it arms.                                                   *)
NoCall == [mode |-> "none", seen |-> 0, same |-> {}, rest |-> {}, chosen |-> None,
           target |-> None, purpose |-> "none", point |-> 0]

Goto(t, label) == pc' = [pc EXCEPT ![t] = label]

(* Go on with Event(), then at `label'.                                    *)
GoEvent(t, label) ==
  /\ Goto(t, "event")
  /\ after' = [after EXCEPT ![t] = label]

Reusable(b) == leases[b] = 0 /\ completed >= safeAt[b] /\ consumers[b] = 0

Init ==
  /\ reuseBound \in BOOLEAN
  /\ class = [b \in Backings |-> None]
  /\ leases = [b \in Backings |-> 0]
  /\ safeAt = [b \in Backings |-> 0]
  /\ retired = [b \in Backings |-> FALSE]
  /\ consumers = [b \in Backings |-> 0]
  /\ made = {} /\ all = {} /\ free = {} /\ returned = {}
  /\ activeClass = None
  /\ waiters = {} /\ woken = {} /\ eventSinceScan = FALSE
  /\ armedAt = 0 /\ subs = {} /\ completed = 0
  /\ lock = None /\ call = NoCall
  /\ want = [a \in Acquirers |-> None]
  /\ overtaken = [a \in Acquirers |-> {}]
  /\ lease = [t \in Leasers |-> None]
  /\ pin = [t \in Pinners |-> None]
  /\ pc = [t \in Threads |-> "idle"]
  /\ after = [t \in Threads |-> "idle"]

-----------------------------------------------------------------------------
(* Event: counts itself, then wakes every waiter subscribed so far.        *)
RaiseEvent(t) ==
  /\ pc[t] = "event"
  /\ eventSinceScan' = TRUE
  /\ Goto(t, "wake")
  /\ UNCHANGED <<backing, lists, waiters, woken, clock, locals, handles, after>>

WakeWaiters(t) ==
  /\ pc[t] = "wake"
  /\ woken' = woken \cup waiters
  /\ waiters' = {}
  /\ Goto(t, after[t])
  /\ after' = [after EXCEPT ![t] = "idle"]
  /\ lock' = IF lock = t THEN None ELSE lock
  /\ UNCHANGED <<backing, lists, eventSinceScan, clock, call, want, overtaken, handles>>

(* BackingLease's copy constructor, into a holder without a lease.         *)
CopyLease(t, h) ==
  /\ pc[t] = "idle" /\ pc[h] = "idle"
  /\ lease[t] # None /\ lease[h] = None
  /\ lease' = [lease EXCEPT ![h] = lease[t]]
  /\ leases' = [leases EXCEPT ![lease[t]] = @ + 1]
  /\ UNCHANGED <<reuseBound, class, safeAt, retired, consumers, made, lists, availability, clock, locals, pin, pc, after>>

(* BackingLease::Bind: the maximum of every bind.                          *)
Bind(t, p) ==
  /\ pc[t] = "idle"
  /\ lease[t] # None
  /\ safeAt[lease[t]] < p
  /\ safeAt' = [safeAt EXCEPT ![lease[t]] = p]
  /\ UNCHANGED <<reuseBound, class, leases, retired, consumers, made, lists, availability, clock, locals, handles, pc, after>>

\* Mutant: every release returns the backing, not only the last one.
ResetAlwaysReturns(t) ==
  /\ pc[t] = "idle"
  /\ lease[t] # None
  /\ leases' = [leases EXCEPT ![lease[t]] = @ - 1]
  /\ Goto(t, "return")
  /\ UNCHANGED <<reuseBound, class, safeAt, retired, consumers, made, lists, availability, clock, locals, handles, after>>

(* BackingLease::Reset: the last lease returns the backing.                *)
ResetLease(t) ==
  /\ pc[t] = "idle"
  /\ lease[t] # None
  /\ leases' = [leases EXCEPT ![lease[t]] = @ - 1]
  /\ \/ /\ leases[lease[t]] = 1
        /\ Goto(t, "return")
        /\ UNCHANGED lease
     \/ /\ leases[lease[t]] # 1
        /\ lease' = [lease EXCEPT ![t] = None]
        /\ UNCHANGED pc
  /\ UNCHANGED <<reuseBound, class, safeAt, retired, consumers, made, lists, availability, clock, locals, pin, after>>

(* Returned: push onto the return stack, then Event.                       *)
PushReturned(t) ==
  /\ pc[t] = "return"
  /\ returned' = returned \cup {lease[t]}
  /\ lease' = [lease EXCEPT ![t] = None]
  /\ GoEvent(t, "idle")
  /\ UNCHANGED <<backing, all, free, activeClass, availability, clock, locals, pin>>

-----------------------------------------------------------------------------
(* Pin: the consumer counts itself ...                                     *)
PinCount(t, b) ==
  /\ pc[t] = "idle"
  /\ b \in made
  /\ consumers' = [consumers EXCEPT ![b] = @ + 1]
  /\ pin' = [pin EXCEPT ![t] = b]
  /\ Goto(t, "check")
  /\ UNCHANGED <<reuseBound, class, leases, safeAt, retired, made, lists, availability, clock, locals, lease, after>>

(* ... then looks whether the pool claimed the backing meanwhile.          *)
PinCheck(t) ==
  /\ pc[t] = "check"
  /\ Goto(t, IF retired[pin[t]] THEN "refused" ELSE "pinned")
  /\ UNCHANGED <<backing, lists, availability, clock, locals, handles, after>>

(* ~Hold: the last consumer raises an event.                               *)
Unpin(t) ==
  /\ pc[t] \in {"refused", "pinned"}
  /\ consumers' = [consumers EXCEPT ![pin[t]] = @ - 1]
  /\ pin' = [pin EXCEPT ![t] = None]
  /\ \/ consumers[pin[t]] = 1 /\ GoEvent(t, "idle")
     \/ consumers[pin[t]] # 1 /\ Goto(t, "idle") /\ UNCHANGED after
  /\ UNCHANGED <<reuseBound, class, leases, safeAt, retired, made, lists, availability, clock, locals, lease>>

-----------------------------------------------------------------------------
(* The clock advances ...                                                  *)
Advance ==
  /\ completed < MaxPoint
  /\ completed' = completed + 1
  /\ UNCHANGED <<backing, lists, availability, armedAt, subs, locals, handles, pc, after>>

(* ... and wakes a point ArmAvailability subscribed at.                    *)
ClockWake(p) ==
  /\ pc[Clock] = "idle"
  /\ p \in subs
  /\ completed >= p
  /\ subs' = subs \ {p}
  /\ armedAt' = IF armedAt = p THEN 0 ELSE armedAt
  /\ GoEvent(Clock, "idle")
  /\ UNCHANGED <<backing, lists, availability, completed, locals, handles>>

-----------------------------------------------------------------------------
(* Acquire and Trim enter the exclusion ...                                *)
BeginAcquire(a, c) ==
  /\ pc[a] = "idle"
  /\ lease[a] = None
  /\ lock = None
  /\ lock' = a
  /\ call' = [NoCall EXCEPT !.mode = "acquire"]
  /\ want' = [want EXCEPT ![a] = c]
  /\ eventSinceScan' = FALSE
  /\ Goto(a, "take")
  /\ UNCHANGED <<backing, lists, waiters, woken, clock, overtaken, handles, after>>

BeginTrim(a) ==
  /\ pc[a] = "idle"
  /\ lock = None
  /\ lock' = a
  /\ call' = [NoCall EXCEPT !.mode = "trim"]
  /\ Goto(a, "take")
  /\ UNCHANGED <<backing, lists, availability, clock, want, overtaken, handles, after>>

(* ... and leave it.                                                       *)
Leave(a, label) ==
  /\ lock' = None
  /\ call' = NoCall
  /\ want' = IF label = "idle" THEN [want EXCEPT ![a] = None] ELSE want
  /\ Goto(a, label)

(* TakeReturned, and Acquire's note of the class asked for.                *)
TakeReturned(a) ==
  /\ pc[a] = "take"
  /\ free' = free \cup (returned \cap all)
  /\ returned' = {}
  /\ activeClass' = IF call.mode = "acquire" THEN want[a] ELSE activeClass
  /\ Goto(a, "look")
  /\ UNCHANGED <<backing, all, availability, clock, locals, handles, after>>

(* As many spares as the configuration keeps warm.                         *)
Spares(set) == {keep \in SUBSET set : Cardinality(keep) = Min({SpareFree, Cardinality(set)})}

\* Mutant: the clock is not consulted.
LookPastClock(a) ==
  /\ pc[a] = "look"
  /\ call' = [call EXCEPT !.same = {b \in free : leases[b] = 0 /\ consumers[b] = 0 /\ class[b] = want[a]}]
  /\ Goto(a, "choose")
  /\ UNCHANGED <<backing, lists, availability, clock, lock, want, overtaken, handles, after>>

(* The reusable free backings: of the class asked for, to choose from; the *)
(* others, to release.  Trim releases all but the active class's spares.   *)
Look(a) ==
  /\ pc[a] = "look"
  /\ LET reusable == {b \in free : Reusable(b)}
         ofClass(c) == {b \in reusable : class[b] = c}
     IN  \/ /\ call.mode = "acquire"
            /\ call' = [call EXCEPT !.seen = completed, !.same = ofClass(want[a]),
                                    !.rest = reusable \ ofClass(want[a])]
         \/ /\ call.mode = "trim"
            /\ \E keep \in Spares(ofClass(activeClass)) : call' = [call EXCEPT !.rest = reusable \ keep]
  /\ Goto(a, "choose")
  /\ UNCHANGED <<backing, lists, availability, clock, lock, want, overtaken, handles, after>>

(* TryClaim's store, on behalf of the call as it goes on.                  *)
Claim(a, b, why, next) ==
  /\ call' = [next EXCEPT !.target = b, !.purpose = why]
  /\ retired' = [retired EXCEPT ![b] = TRUE]
  /\ Goto(a, "claim")
  /\ UNCHANGED <<reuseBound, class, leases, safeAt, consumers, made, lists, availability, clock,
                 lock, want, overtaken, handles, after>>

(* Try to claim a candidate ...                                            *)
ClaimCandidate(a) ==
  /\ pc[a] = "choose"
  /\ call.chosen = None
  /\ \E b \in call.same : Claim(a, b, "reuse", [call EXCEPT !.same = @ \ {b}])

(* ... with one chosen, the others past the spares are to be released ...  *)
KeepSpares(a) ==
  /\ pc[a] = "choose"
  /\ call.chosen # None
  /\ call.same # {}
  /\ \E keep \in Spares(call.same) :
       call' = [call EXCEPT !.same = {}, !.rest = @ \cup (call.same \ keep)]
  /\ UNCHANGED <<backing, lists, availability, clock, lock, want, overtaken, handles, pc, after>>

(* ... and those to release are claimed one by one.                        *)
ClaimRelease(a) ==
  /\ pc[a] = "choose"
  /\ call.same = {}
  /\ \E b \in call.rest : Claim(a, b, "release", [call EXCEPT !.rest = @ \ {b}])

\* Mutant: the claim does not read the consumers back.
ClaimBlind(a) ==
  /\ pc[a] = "claim"
  /\ Goto(a, "claimed")
  /\ UNCHANGED <<backing, lists, availability, clock, locals, handles, after>>

(* TryClaim's load: a consumer that counted itself keeps the backing.      *)
ClaimCheck(a) ==
  /\ pc[a] = "claim"
  /\ \/ /\ consumers[call.target] # 0
        /\ retired' = [retired EXCEPT ![call.target] = FALSE]
        /\ Goto(a, "choose")
     \/ /\ consumers[call.target] = 0
        /\ Goto(a, "claimed")
        /\ UNCHANGED retired
  /\ UNCHANGED <<reuseBound, class, leases, safeAt, consumers, made, lists, availability, clock, locals, handles, after>>

(* A claimed backing is back in circulation as the chosen one ...          *)
Recirculate(a) ==
  /\ pc[a] = "claimed"
  /\ call.purpose # "release"
  /\ retired' = [retired EXCEPT ![call.target] = FALSE]
  /\ call' = [call EXCEPT !.chosen = call.target]
  /\ Goto(a, "choose")
  /\ UNCHANGED <<reuseBound, class, leases, safeAt, consumers, made, lists, availability, clock,
                 lock, want, overtaken, handles, after>>

\* Mutant: a released backing stays on the free list.
ReleaseKeepsFree(a) ==
  /\ pc[a] = "claimed"
  /\ call.purpose = "release"
  /\ all' = all \ {call.target}
  /\ Goto(a, "choose")
  /\ UNCHANGED <<backing, free, activeClass, returned, availability, clock, locals, handles, after>>

(* ... or gone.                                                            *)
ReleaseBacking(a) ==
  /\ pc[a] = "claimed"
  /\ call.purpose = "release"
  /\ all' = all \ {call.target}
  /\ free' = free \ {call.target}
  /\ Goto(a, "choose")
  /\ UNCHANGED <<backing, activeClass, returned, availability, clock, locals, handles, after>>

-----------------------------------------------------------------------------
(* The loops over the candidates and over those to release have ended.     *)
LoopsDone(a) == pc[a] = "choose" /\ call.same = {} /\ call.rest = {}

(* The class is at its cap.                                                *)
Capped(c) == MaxPerClass # 0 /\ Cardinality({b \in all : class[b] = c}) >= MaxPerClass

(* The free backings reuseBound may take: nothing but the clock holds them. *)
BoundOnly(c) == {b \in free : class[b] = c /\ leases[b] = 0 /\ consumers[b] = 0}

EndTrim(a) ==
  /\ LoopsDone(a)
  /\ call.mode = "trim"
  /\ Leave(a, "idle")
  /\ UNCHANGED <<backing, lists, availability, clock, overtaken, handles, after>>

(* Acquire leases the chosen backing (reusable, or bound: writeAfter).     *)
LeaseChosen(a) ==
  /\ LoopsDone(a)
  /\ call.chosen # None
  /\ free' = free \ {call.chosen}
  /\ leases' = [leases EXCEPT ![call.chosen] = @ + 1]
  /\ lease' = [lease EXCEPT ![a] = call.chosen]
  /\ Leave(a, "idle")
  /\ UNCHANGED <<reuseBound, class, safeAt, retired, consumers, made, all, activeClass, returned, availability, clock,
                 overtaken, pin, after>>

(* Acquire chose none.                                                     *)
NoneChosen(a) ==
  /\ LoopsDone(a)
  /\ call.mode = "acquire"
  /\ call.chosen = None

(* Allocate a new backing below the cap.                                   *)
Allocate(a, b) ==
  /\ NoneChosen(a)
  /\ ~Capped(want[a])
  /\ b \in Backings \ made
  /\ made' = made \cup {b}
  /\ all' = all \cup {b}
  /\ class' = [class EXCEPT ![b] = want[a]]
  /\ leases' = [leases EXCEPT ![b] = 1]
  /\ lease' = [lease EXCEPT ![a] = b]
  /\ Leave(a, "idle")
  /\ UNCHANGED <<reuseBound, safeAt, retired, consumers, free, activeClass, returned, availability, clock, overtaken, pin, after>>

(* hooks.allocate throws: Acquire has no lease and nobody to wait for.     *)
AllocateThrows(a) ==
  /\ NoneChosen(a)
  /\ ~Capped(want[a])
  /\ Leave(a, "idle")
  /\ UNCHANGED <<backing, lists, availability, clock, overtaken, handles, after>>

(* reuseBound: claim the one bound longest ago.                            *)
ClaimBound(a, b) ==
  /\ NoneChosen(a)
  /\ Capped(want[a])
  /\ reuseBound /\ call.purpose # "bound"
  /\ b \in BoundOnly(want[a])
  /\ \A o \in BoundOnly(want[a]) : safeAt[b] <= safeAt[o]
  /\ Claim(a, b, "bound", call)

(* Exhausted: ArmAvailability finds the earliest point a free backing      *)
(* waits for, and arms it unless an earlier one is armed.                  *)
Exhaust(a) ==
  /\ NoneChosen(a)
  /\ Capped(want[a])
  /\ ~reuseBound \/ call.purpose = "bound" \/ BoundOnly(want[a]) = {}
  /\ overtaken' = [overtaken EXCEPT ![a] = {b \in free : call.seen < safeAt[b] /\ safeAt[b] <= completed}]
  /\ LET points == {safeAt[b] : b \in {o \in free : class[o] = want[a] /\ safeAt[o] > completed}}
     IN  \/ /\ points # {}
            /\ armedAt = 0 \/ armedAt > Min(points)
            /\ armedAt' = Min(points)
            /\ call' = [call EXCEPT !.point = Min(points)]
            /\ Goto(a, "subscribe")
            /\ UNCHANGED <<lock, want>>
         \/ /\ points # {} => armedAt # 0 /\ armedAt <= Min(points)
            /\ Leave(a, "exhausted")
            /\ UNCHANGED armedAt
  /\ UNCHANGED <<backing, lists, availability, subs, completed, handles, after>>

(* Its subscription to the clock: a point reached meanwhile wakes here,    *)
(* still inside the exclusion.                                             *)
SubscribeClock(a) ==
  /\ pc[a] = "subscribe"
  /\ \/ /\ completed >= call.point
        /\ armedAt' = IF armedAt = call.point THEN 0 ELSE armedAt
        /\ call' = NoCall
        /\ GoEvent(a, "exhausted")
        /\ UNCHANGED <<subs, lock, want>>
     \/ /\ completed < call.point
        /\ subs' = subs \cup {call.point}
        /\ Leave(a, "exhausted")
        /\ UNCHANGED <<armedAt, after>>
  /\ UNCHANGED <<backing, lists, availability, completed, overtaken, handles>>

(* SubscribeAvailability: push ...                                         *)
Subscribe(a) ==
  /\ pc[a] = "exhausted"
  /\ waiters' = waiters \cup {a}
  /\ Goto(a, "recheck")
  /\ UNCHANGED <<backing, lists, woken, eventSinceScan, clock, locals, handles, after>>

\* Mutant: no look at the events after the push.
RecheckSkipped(a) ==
  /\ pc[a] = "recheck"
  /\ Goto(a, "waiting")
  /\ UNCHANGED <<backing, lists, availability, clock, locals, handles, after>>

(* ... then wake at once if an event came since the look.                  *)
Recheck(a) ==
  /\ pc[a] = "recheck"
  /\ \/ eventSinceScan /\ GoEvent(a, "waiting")
     \/ ~eventSinceScan /\ Goto(a, "waiting") /\ UNCHANGED after
  /\ UNCHANGED <<backing, lists, availability, clock, locals, handles>>

(* The suspended caller runs again.                                        *)
Retry(a) ==
  /\ pc[a] = "waiting"
  /\ a \in woken
  /\ woken' = woken \ {a}
  /\ want' = [want EXCEPT ![a] = None]
  /\ overtaken' = [overtaken EXCEPT ![a] = {}]
  /\ Goto(a, "idle")
  /\ UNCHANGED <<backing, lists, waiters, eventSinceScan, clock, lock, call, handles, after>>

-----------------------------------------------------------------------------
(* Steps a thread inside a call takes.                                     *)
AcquirerStep(a) ==
  \/ TakeReturned(a) \/ Look(a) \/ ClaimCandidate(a) \/ KeepSpares(a) \/ ClaimRelease(a)
  \/ ClaimCheck(a) \/ Recirculate(a) \/ ReleaseBacking(a) \/ EndTrim(a) \/ LeaseChosen(a)
  \/ (\E b \in Backings : Allocate(a, b)) \/ AllocateThrows(a)
  \/ (\E b \in Backings : ClaimBound(a, b)) \/ Exhaust(a) \/ SubscribeClock(a)
  \/ Subscribe(a) \/ Recheck(a) \/ Retry(a)

Step(t) ==
  \/ RaiseEvent(t) \/ WakeWaiters(t)
  \/ t \in Leasers /\ PushReturned(t)
  \/ t \in Pinners /\ PinCheck(t)
  \/ t \in Pinners /\ pc[t] = "refused" /\ Unpin(t)
  \/ t \in Acquirers /\ AcquirerStep(t)

(* What a thread may begin, or end, when it likes.                         *)
Call(t) ==
  \/ t \in Leasers /\ ((\E h \in Holders : CopyLease(t, h)) \/ (\E p \in 1 .. MaxPoint : Bind(t, p)) \/ ResetLease(t))
  \/ t \in Pinners /\ ((\E b \in Backings : PinCount(t, b)) \/ (pc[t] = "pinned" /\ Unpin(t)))
  \/ t \in Acquirers /\ ((\E c \in Classes : BeginAcquire(t, c)) \/ BeginTrim(t))

ClockStep == \E p \in subs : ClockWake(p)

Next == (\E t \in Threads : Step(t) \/ Call(t)) \/ Advance \/ ClockStep

Spec == Init /\ [][Next]_vars

(* Calls that began go on, and the clock wakes the points it reached; no   *)
(* lease need be released, no pin dropped, and the clock need not move.    *)
FairSpec == Spec /\ (\A t \in Threads : WF_vars(Step(t))) /\ WF_vars(ClockStep)

-----------------------------------------------------------------------------
\* Type invariant.
TypeOK ==
  /\ class \in [Backings -> Classes \cup {None}]
  /\ leases \in [Backings -> Nat]
  /\ safeAt \in [Backings -> 0 .. MaxPoint]
  /\ retired \in [Backings -> BOOLEAN]
  /\ consumers \in [Backings -> Nat]
  /\ free \subseteq all /\ all \subseteq made /\ made \subseteq Backings
  /\ returned \subseteq Backings
  /\ waiters \subseteq Acquirers /\ woken \subseteq Acquirers
  /\ lock \in Acquirers \cup {None}
  /\ lease \in [Leasers -> Backings \cup {None}]

\* The threads in the middle of returning b.
Returning(b) == {t \in Leasers : pc[t] = "return" /\ lease[t] = b}

\* Every backing the pool holds is in exactly one place: leased, being
\* returned by one thread, on the return stack, or free.  So "a backing is
\* pushed at most once per lease cycle" and is never lent twice.  The
\* variables have their types.
OnePlace ==
  /\ TypeOK
  /\ \A b \in all :
       LET leased == IF leases[b] > 0 THEN 1 ELSE 0
           stacked == IF b \in returned THEN 1 ELSE 0
           listed == IF b \in free THEN 1 ELSE 0
       IN  leased + Cardinality(Returning(b)) + stacked + listed = 1

\* While the pool has a backing claimed, to reuse or to release, it has no lease
\* and no binding consumer whose pin succeeded ("one side always sees the other").
\* This is about the claim; a reused backing is leased and pinned again.
ClaimExcludesUse ==
  \A a \in Acquirers : pc[a] = "claimed" =>
    /\ leases[call.target] = 0
    /\ \A p \in Pinners : ~(pc[p] = "pinned" /\ pin[p] = call.target)

\* Nothing still read by the GPU is reused or released: the clock reached
\* every bind, except the bound backing whose writes the caller holds back.
ClaimAfterRetirement ==
  \A a \in Acquirers : pc[a] = "claimed" /\ call.purpose # "bound" => completed >= safeAt[call.target]

\* A backing the acquirer a could have.
Available(a) == {b \in free \cup returned : class[b] = want[a] /\ Reusable(b)}

\* An acquirer that found none and subscribed is woken when one is reusable
\* ("wake(identity) runs once a backing may have become reusable"): no event is
\* missed, however it races the look and the subscription.
AvailabilityWakes ==
  \A a \in Acquirers :
    (pc[a] = "waiting" /\ Available(a) # {}) ~> (pc[a] # "waiting" \/ Available(a) = {})

\* The same for a backing that a lease, a pin or a clock point armed in time
\* held back: one the clock overtook between the look and ArmAvailability is
\* the case AvailabilityWakes fails in.
EventWakes ==
  \A a \in Acquirers :
    (pc[a] = "waiting" /\ Available(a) \ overtaken[a] # {})
      ~> (pc[a] # "waiting" \/ Available(a) \ overtaken[a] = {})
=============================================================================
