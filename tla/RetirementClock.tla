--------------------------- MODULE RetirementClock ---------------------------
(***************************************************************************)
(* The monotone GPU completion clock of BackingPool.cpp (RetirementClock): *)
(* threads advance it and subscribe wakes for points still ahead, without  *)
(* a lock.  Subscriptions sit on a stack that a thread takes whole, runs   *)
(* what is reached and pushes the rest back.  The stack's order decides    *)
(* nothing, so it is a set; each access of an atomic is a step.            *)
(***************************************************************************)
EXTENDS Naturals

CONSTANTS
  ClockThreads, \* threads that call Advance and Subscribe
  Waiters,      \* subscriptions
  MaxPoint      \* bound: the highest clock point

ASSUME ClockAssumption == MaxPoint \in Nat

Points == 1 .. MaxPoint
NoPoint == 0

VARIABLES
  completed,  \* m_completed
  stack,      \* m_waiters
  point,      \* each subscription's point (NoPoint: not subscribed yet)
  ran,        \* how often each subscription's wake ran
  at,         \* each thread's next step
  mine,       \* the waiters a thread took off the stack, or is subscribing
  observed    \* the completed value RunReached read

clockVars == <<completed, stack, point, ran, at, mine, observed>>

MoveTo(t, label) == at' = [at EXCEPT ![t] = label]
Reached(p) == completed >= p
Wake(w) == ran' = [ran EXCEPT ![w] = @ + 1]

ClockInit ==
  /\ completed = 0
  /\ stack = {}
  /\ point = [w \in Waiters |-> NoPoint]
  /\ ran = [w \in Waiters |-> 0]
  /\ at = [t \in ClockThreads |-> "idle"]
  /\ mine = [t \in ClockThreads |-> {}]
  /\ observed = [t \in ClockThreads |-> 0]

(* Advance: raises the clock, never lowers it; then RunReached.            *)
Advance(t, p) ==
  /\ at[t] = "idle"
  /\ completed' = IF completed < p THEN p ELSE completed
  /\ MoveTo(t, "take")
  /\ UNCHANGED <<stack, point, ran, mine, observed>>

(* Subscribe: a reached point runs its wake at once.                       *)
Subscribe(t, w, p) ==
  /\ at[t] = "idle"
  /\ point[w] = NoPoint
  /\ point' = [point EXCEPT ![w] = p]
  /\ \/ /\ Reached(p)
        /\ Wake(w)
        /\ UNCHANGED <<at, mine>>
     \/ /\ ~Reached(p)
        /\ mine' = [mine EXCEPT ![t] = {w}]
        /\ MoveTo(t, "push")
        /\ UNCHANGED ran
  /\ UNCHANGED <<completed, stack, observed>>

\* Mutant: no look at the clock after the push.
PushUnchecked(t) ==
  /\ at[t] \in {"push", "pushKept"}
  /\ stack' = stack \cup mine[t]
  /\ MoveTo(t, "idle")
  /\ mine' = [mine EXCEPT ![t] = {}]
  /\ UNCHANGED <<completed, point, ran, observed>>

(* The push, of Subscribe's waiter or of those RunReached kept.            *)
Push(t) ==
  /\ at[t] \in {"push", "pushKept"}
  /\ stack' = stack \cup mine[t]
  /\ MoveTo(t, "recheck")
  /\ UNCHANGED <<completed, point, ran, mine, observed>>

(* Both look at the clock again after their push, for an Advance that      *)
(* found the stack without these waiters.                                  *)
Recheck(t) ==
  /\ at[t] = "recheck"
  /\ MoveTo(t, IF \E w \in mine[t] : Reached(point[w]) THEN "take" ELSE "idle")
  /\ mine' = [mine EXCEPT ![t] = {}]
  /\ UNCHANGED <<completed, stack, point, ran, observed>>

\* Mutant: the list is read, and stays on the stack.
TakeListByLoad(t) ==
  /\ at[t] = "take"
  /\ mine' = [mine EXCEPT ![t] = stack]
  /\ MoveTo(t, IF stack = {} THEN "idle" ELSE "read")
  /\ UNCHANGED <<completed, stack, point, ran, observed>>

(* RunReached takes the whole stack ...                                    *)
TakeList(t) ==
  /\ at[t] = "take"
  /\ mine' = [mine EXCEPT ![t] = stack]
  /\ stack' = {}
  /\ MoveTo(t, IF stack = {} THEN "idle" ELSE "read")
  /\ UNCHANGED <<completed, point, ran, observed>>

\* Mutant: the point in flight is taken for a completed one.
ReadCompletedAhead(t) ==
  /\ at[t] = "read"
  /\ observed' = [observed EXCEPT ![t] = completed + 1]
  /\ MoveTo(t, "walk")
  /\ UNCHANGED <<completed, stack, point, ran, mine>>

(* ... reads the clock ...                                                 *)
ReadCompleted(t) ==
  /\ at[t] = "read"
  /\ observed' = [observed EXCEPT ![t] = completed]
  /\ MoveTo(t, "walk")
  /\ UNCHANGED <<completed, stack, point, ran, mine>>

(* ... runs each waiter that is reached ...                                *)
WakeOne(t, w) ==
  /\ at[t] = "walk"
  /\ w \in mine[t]
  /\ point[w] <= observed[t]
  /\ Wake(w)
  /\ mine' = [mine EXCEPT ![t] = @ \ {w}]
  /\ UNCHANGED <<completed, stack, point, at, observed>>

(* ... and keeps the rest, to push them back.                              *)
KeepRest(t) ==
  /\ at[t] = "walk"
  /\ \A w \in mine[t] : point[w] > observed[t]
  /\ MoveTo(t, IF mine[t] = {} THEN "idle" ELSE "pushKept")
  /\ UNCHANGED <<completed, stack, point, ran, mine, observed>>

Step(t) ==
  \/ Push(t) \/ Recheck(t) \/ TakeList(t) \/ ReadCompleted(t)
  \/ \E w \in Waiters : WakeOne(t, w)
  \/ KeepRest(t)

ClockNext ==
  \E t \in ClockThreads :
    \/ Step(t)
    \/ \E p \in Points : Advance(t, p)
    \/ \E w \in Waiters, p \in Points : Subscribe(t, w, p)

ClockSpec == ClockInit /\ [][ClockNext]_clockVars

(* A thread inside Advance or Subscribe goes on; none has to call again.   *)
ClockFairSpec == ClockSpec /\ \A t \in ClockThreads : WF_clockVars(Step(t))

-----------------------------------------------------------------------------
\* Type invariant.
ClockTypeOK ==
  /\ completed \in 0 .. MaxPoint
  /\ stack \subseteq Waiters
  /\ point \in [Waiters -> 0 .. MaxPoint]
  /\ ran \in [Waiters -> Nat]
  /\ at \in [ClockThreads -> {"idle", "push", "pushKept", "recheck", "take", "read", "walk"}]
  /\ mine \in [ClockThreads -> SUBSET Waiters]
  /\ observed \in [ClockThreads -> 0 .. MaxPoint]

\* A wake runs at most once, and never before the clock reached its point,
\* whichever of the racing threads took it ("it runs once").  The variables
\* have their types.
RunsOnceWhenReached ==
  /\ ClockTypeOK
  /\ \A w \in Waiters : ran[w] <= 1 /\ (ran[w] = 1 => completed >= point[w])

\* No reached waiter is left on the stack when every call has returned: an
\* Advance that raced a push, or another thread's push-back, misses nobody.
NoneStranded ==
  (\A t \in ClockThreads : at[t] = "idle") => \A w \in stack : ~Reached(point[w])

\* Every subscription whose point is reached runs, with no further call.
ReachedRuns ==
  \A w \in Waiters : (point[w] # NoPoint /\ completed >= point[w]) ~> ran[w] = 1
=============================================================================
