------------------------- MODULE SerializedTaskPump -------------------------
(***************************************************************************)
(* The level-triggered single-consumer task pump of                        *)
(* Async/SerializedTaskPump.h.                                             *)
(*                                                                         *)
(* One atomic word holds the consumer state and the requested epoch.  A    *)
(* compare-exchange loop on it takes effect at its successful exchange (or *)
(* at the load that makes it return), so each loop is one action here; the *)
(* user callbacks (drain, submit, reject) and the delayed mutex are steps  *)
(* of their own, so every interleaving around them is explored.            *)
(*                                                                         *)
(* The work a host queues before Notify is represented by the epoch that   *)
(* Notify requested: it is in `pending' until a drain takes the queue.     *)
(***************************************************************************)
EXTENDS Naturals, FiniteSets

CONSTANTS
  Callers,       \* threads that call the public methods
  Workers,       \* scheduler threads that run submitted tasks and timers
  Dues,          \* time points a delayed notification may fall due at
  MaxEpoch,      \* bound: epochs requested
  MaxGeneration  \* bound: delayed arms and stops

ASSUME PumpAssumption ==
  /\ Callers \cap Workers = {}
  /\ Dues \subseteq Nat \ {0}
  /\ MaxEpoch \in Nat
  /\ MaxGeneration \in Nat \ {0}

NoDue == 0       \* m_delayedDue without a value

Threads == Callers \cup Workers

VARIABLES
  consumer,           \* m_word's low bits: the consumer state
  epoch,              \* m_word's high bits: the requested epoch
  drainedEpoch,       \* m_drainedEpoch
  handoffMode,        \* m_handoffMode, fixed by Configure
  delayedGeneration,  \* m_delayedGeneration
  delayedDue,         \* m_delayedDue
  pc,                 \* what each thread is about to do
  observedEpoch,      \* RunOwned's local, by thread
  generation,         \* NotifyAfter's local, by thread
  tasks,              \* Run tasks the scheduler accepted and has not started
  timers,             \* generations of the delayed tasks it accepted
  pending,            \* epochs notified whose work no drain or reject has taken
  stopped             \* history: Stop was called

word    == <<consumer, epoch>>
delayed == <<delayedGeneration, delayedDue>>
locals  == <<observedEpoch, generation>>
pumpVars == <<consumer, epoch, drainedEpoch, handoffMode, delayedGeneration, delayedDue,
              pc, observedEpoch, generation, tasks, timers, pending, stopped>>

States == {"Idle", "Scheduled", "Running", "Stopping"}
PCs == {"idle", "notify", "submit", "owned", "draining", "drained",
        "rejecting", "arming", "disarm", "stopping"}

\* Holding the consumer role: inside RunOwned up to its exit or hand-off.
Consuming(t) == pc[t] \in {"owned", "draining", "drained"}

Goto(t, label) == pc' = [pc EXCEPT ![t] = label]

-----------------------------------------------------------------------------
(* The state Configure leaves: setup, before the pump is shared.           *)
PumpInit ==
  /\ consumer = "Idle"
  /\ epoch = 0
  /\ drainedEpoch = 0
  /\ handoffMode \in {"Inline", "Resubmit"}
  /\ delayedGeneration = 1
  /\ delayedDue = NoDue
  /\ pc = [t \in Threads |-> "idle"]
  /\ observedEpoch = [t \in Threads |-> 0]
  /\ generation = [t \in Threads |-> 0]
  /\ tasks = 0
  /\ timers = {}
  /\ pending = {}
  /\ stopped = FALSE

(* Notify: a caller's own call, or the tail of FireDelayed on a worker.    *)
Notify(t) ==
  /\ (t \in Callers /\ pc[t] = "idle") \/ pc[t] = "notify"
  /\ \/ /\ consumer = "Stopping"
        /\ Goto(t, "idle")
        /\ UNCHANGED <<word, pending>>
     \/ /\ consumer # "Stopping"
        /\ pc[t] = "notify" \/ epoch < MaxEpoch
        /\ epoch' = epoch + 1
        /\ pending' = pending \cup {epoch + 1}
        /\ consumer' = IF consumer = "Idle" THEN "Scheduled" ELSE consumer
        /\ Goto(t, IF consumer = "Idle" THEN "submit" ELSE "idle")
  /\ UNCHANGED <<drainedEpoch, handoffMode, delayed, locals, tasks, timers, stopped>>

(* m_submit took the Run task: after Notify scheduled the consumer, or     *)
(* after RunOwned handed it off.                                           *)
SubmitAccepted(t) ==
  /\ pc[t] = "submit"
  /\ tasks' = tasks + 1
  /\ Goto(t, "idle")
  /\ UNCHANGED <<word, drainedEpoch, handoffMode, delayed, locals, timers, pending, stopped>>

(* Fail: closes the pump for good, then calls m_reject.                    *)
Fail(t) ==
  /\ consumer' = "Stopping"
  /\ Goto(t, "rejecting")

\* Mutant: a refused task is forgotten and the pump stays Scheduled.
SubmitRefusedForgotten(t) ==
  /\ pc[t] = "submit"
  /\ Goto(t, "idle")
  /\ UNCHANGED <<word, drainedEpoch, handoffMode, delayed, locals, tasks, timers, pending, stopped>>

(* m_submit refused the task.                                              *)
SubmitRefused(t) ==
  /\ pc[t] = "submit"
  /\ Fail(t)
  /\ UNCHANGED <<epoch, drainedEpoch, handoffMode, delayed, locals, tasks, timers, pending, stopped>>

(* m_reject: the host fails the work still queued.                         *)
Reject(t) ==
  /\ pc[t] = "rejecting"
  /\ pending' = {}
  /\ Goto(t, "idle")
  /\ UNCHANGED <<word, drainedEpoch, handoffMode, delayed, locals, tasks, timers, stopped>>

(* TryRunInline takes the consumer role from Idle or Scheduled.            *)
TryRunInline(t) ==
  /\ t \in Callers
  /\ pc[t] = "idle"
  /\ consumer \in {"Idle", "Scheduled"}
  /\ epoch < MaxEpoch
  /\ consumer' = "Running"
  /\ epoch' = epoch + 1
  /\ Goto(t, "owned")
  /\ UNCHANGED <<drainedEpoch, handoffMode, delayed, locals, tasks, timers, pending, stopped>>

\* Mutant: the task claims the role without looking for a running consumer.
RunOverConsumer(t) ==
  /\ t \in Workers
  /\ pc[t] = "idle"
  /\ tasks > 0
  /\ tasks' = tasks - 1
  /\ consumer # "Stopping"
  /\ consumer' = "Running"
  /\ Goto(t, "owned")
  /\ UNCHANGED <<epoch, drainedEpoch, handoffMode, delayed, locals, timers, pending, stopped>>

\* Mutant: a task that was already run is run again.
RunUncounted(t) ==
  /\ t \in Workers
  /\ pc[t] = "idle"
  /\ tasks' = tasks - 1
  /\ consumer = "Scheduled"
  /\ consumer' = "Running"
  /\ Goto(t, "owned")
  /\ UNCHANGED <<epoch, drainedEpoch, handoffMode, delayed, locals, timers, pending, stopped>>

(* Run: a submitted task claims the consumer role, unless another has it.  *)
Run(t) ==
  /\ t \in Workers
  /\ pc[t] = "idle"
  /\ tasks > 0
  /\ tasks' = tasks - 1
  /\ \/ /\ consumer \in {"Stopping", "Running"}
        /\ UNCHANGED <<consumer, pc>>
     \/ /\ consumer \in {"Idle", "Scheduled"}
        /\ consumer' = "Running"
        /\ Goto(t, "owned")
  /\ UNCHANGED <<epoch, drainedEpoch, handoffMode, delayed, locals, timers, pending, stopped>>

(* RunOwned: the top of its loop reads the epoch the pass will serve.      *)
BeginPass(t) ==
  /\ pc[t] = "owned"
  /\ \/ /\ consumer = "Stopping"
        /\ Goto(t, "idle")
        /\ UNCHANGED observedEpoch
     \/ /\ consumer # "Stopping"
        /\ observedEpoch' = [observedEpoch EXCEPT ![t] = epoch]
        /\ Goto(t, "draining")
  /\ UNCHANGED <<word, drainedEpoch, handoffMode, delayed, generation, tasks, timers, pending, stopped>>

(* m_drain: takes the work queued so far.                                  *)
Drain(t) ==
  /\ pc[t] = "draining"
  /\ pending' = {}
  /\ Goto(t, "drained")
  /\ UNCHANGED <<word, drainedEpoch, handoffMode, delayed, locals, tasks, timers, stopped>>

(* m_drain throws before it took anything.                                 *)
DrainThrows(t) ==
  /\ pc[t] = "draining"
  /\ Fail(t)
  /\ UNCHANGED <<epoch, drainedEpoch, handoffMode, delayed, locals, tasks, timers, pending, stopped>>

\* Mutant: going Idle by a store instead of the exchange that proves no epoch
\* was requested since the pass began.
FinishPassByStore(t) ==
  /\ pc[t] = "drained"
  /\ drainedEpoch' = observedEpoch[t]
  /\ consumer' = IF consumer = "Stopping" THEN consumer ELSE "Idle"
  /\ Goto(t, "idle")
  /\ UNCHANGED <<epoch, handoffMode, delayed, locals, tasks, timers, pending, stopped>>

\* Mutant: the drained epoch is the one requested when the pass ends.
FinishPassRereadsEpoch(t) ==
  /\ pc[t] = "drained"
  /\ drainedEpoch' = epoch
  /\ \/ /\ consumer # "Running"
        /\ Goto(t, "idle")
        /\ UNCHANGED consumer
     \/ /\ consumer = "Running"
        /\ epoch # observedEpoch[t]
        /\ Goto(t, "owned")
        /\ UNCHANGED consumer
     \/ /\ consumer = "Running"
        /\ epoch = observedEpoch[t]
        /\ consumer' = "Idle"
        /\ Goto(t, "idle")
  /\ UNCHANGED <<epoch, handoffMode, delayed, locals, tasks, timers, pending, stopped>>

(* RunOwned after a drain: go Idle only if nothing was requested since the *)
(* pass began, else drain again or hand off to a new task.                 *)
FinishPass(t) ==
  /\ pc[t] = "drained"
  /\ drainedEpoch' = observedEpoch[t]
  /\ \/ /\ consumer = "Stopping"
        /\ Goto(t, "idle")
        /\ UNCHANGED consumer
     \/ /\ consumer # "Stopping"
        /\ epoch = observedEpoch[t]
        /\ consumer' = "Idle"
        /\ Goto(t, "idle")
     \/ /\ consumer # "Stopping"
        /\ epoch # observedEpoch[t]
        /\ handoffMode = "Inline"
        /\ Goto(t, "owned")
        /\ UNCHANGED consumer
     \/ /\ consumer # "Stopping"
        /\ epoch # observedEpoch[t]
        /\ handoffMode = "Resubmit"
        /\ consumer' = "Scheduled"
        /\ Goto(t, "submit")
  /\ UNCHANGED <<epoch, handoffMode, delayed, locals, tasks, timers, pending, stopped>>

-----------------------------------------------------------------------------
(* NotifyAfter's locked section arms a new generation.  A call that finds  *)
(* the pump stopped, or an armed deadline no later than its own, returns   *)
(* without changing anything.                                              *)
NotifyAfter(t, due) ==
  /\ t \in Callers
  /\ pc[t] = "idle"
  /\ consumer # "Stopping"
  /\ delayedDue = NoDue \/ delayedDue > due
  /\ delayedGeneration < MaxGeneration
  /\ delayedGeneration' = delayedGeneration + 1
  /\ delayedDue' = due
  /\ generation' = [generation EXCEPT ![t] = delayedGeneration + 1]
  /\ Goto(t, "arming")
  /\ UNCHANGED <<word, drainedEpoch, handoffMode, observedEpoch, tasks, timers, pending, stopped>>

(* m_submitDelayed took the timer.                                         *)
DelayAccepted(t) ==
  /\ pc[t] = "arming"
  /\ timers' = timers \cup {generation[t]}
  /\ Goto(t, "idle")
  /\ UNCHANGED <<word, drainedEpoch, handoffMode, delayed, locals, tasks, pending, stopped>>

(* m_submitDelayed refused it.                                             *)
DelayRefused(t) ==
  /\ pc[t] = "arming"
  /\ Goto(t, "disarm")
  /\ UNCHANGED <<word, drainedEpoch, handoffMode, delayed, locals, tasks, timers, pending, stopped>>

\* Mutant: the refused timer disarms whatever is armed by now.
DisarmAny(t) ==
  /\ pc[t] = "disarm"
  /\ delayedDue' = NoDue
  /\ Goto(t, "rejecting")
  /\ UNCHANGED <<word, drainedEpoch, handoffMode, delayedGeneration, locals, tasks, timers, pending, stopped>>

(* ... its second locked section: disarm, unless it was replaced since,    *)
(* then m_reject.                                                          *)
Disarm(t) ==
  /\ pc[t] = "disarm"
  /\ delayedDue' = IF delayedGeneration = generation[t] THEN NoDue ELSE delayedDue
  /\ Goto(t, "rejecting")
  /\ UNCHANGED <<word, drainedEpoch, handoffMode, delayedGeneration, locals, tasks, timers, pending, stopped>>

(* FireDelayed: a timer of the current generation notifies; a stale one,   *)
(* or any after a stop, does nothing.                                      *)
FireDelayed(t, g) ==
  /\ t \in Workers
  /\ pc[t] = "idle"
  /\ g \in timers
  /\ timers' = timers \ {g}
  /\ \/ /\ consumer = "Stopping" \/ delayedDue = NoDue \/ g # delayedGeneration
        /\ UNCHANGED <<delayedDue, pc>>
     \/ /\ consumer # "Stopping" /\ delayedDue # NoDue /\ g = delayedGeneration
        /\ delayedDue' = NoDue
        /\ Goto(t, "notify")
  /\ UNCHANGED <<word, drainedEpoch, handoffMode, delayedGeneration, locals, tasks, pending, stopped>>

(* Stop: the fetch_or, then the delayed state under its mutex.             *)
Stop(t) ==
  /\ t \in Callers
  /\ pc[t] = "idle"
  /\ delayedGeneration < MaxGeneration
  /\ consumer' = "Stopping"
  /\ stopped' = TRUE
  /\ Goto(t, "stopping")
  /\ UNCHANGED <<epoch, drainedEpoch, handoffMode, delayed, locals, tasks, timers, pending>>

StopDelayed(t) ==
  /\ pc[t] = "stopping"
  /\ delayedGeneration' = delayedGeneration + 1
  /\ delayedDue' = NoDue
  /\ Goto(t, "idle")
  /\ UNCHANGED <<word, drainedEpoch, handoffMode, locals, tasks, timers, pending, stopped>>

-----------------------------------------------------------------------------
(* A call in progress, or a task or timer the scheduler accepted.          *)
PumpStep(t) ==
  \/ pc[t] = "notify" /\ Notify(t)
  \/ SubmitAccepted(t) \/ SubmitRefused(t) \/ Reject(t)
  \/ Run(t) \/ BeginPass(t) \/ Drain(t) \/ DrainThrows(t) \/ FinishPass(t)
  \/ DelayAccepted(t) \/ DelayRefused(t) \/ Disarm(t)
  \/ \E g \in timers : FireDelayed(t, g)
  \/ StopDelayed(t)

(* A call a host thread may make, or not.                                  *)
Call(t) ==
  \/ pc[t] = "idle" /\ Notify(t)
  \/ TryRunInline(t)
  \/ \E due \in Dues : NotifyAfter(t, due)
  \/ Stop(t)

PumpNext == \E t \in Threads : PumpStep(t) \/ Call(t)

PumpSpec == PumpInit /\ [][PumpNext]_pumpVars

(* Every thread that is inside a call goes on, and the scheduler runs what *)
(* it accepted; nobody has to make a call.                                 *)
PumpFairSpec == PumpSpec /\ \A t \in Threads : WF_pumpVars(PumpStep(t))

-----------------------------------------------------------------------------
\* Type invariant.
PumpTypeOK ==
  /\ consumer \in States
  /\ epoch \in Nat
  /\ drainedEpoch \in Nat
  /\ handoffMode \in {"Inline", "Resubmit"}
  /\ delayedGeneration \in Nat
  /\ delayedDue \in Dues \cup {NoDue}
  /\ pc \in [Threads -> PCs]
  /\ observedEpoch \in [Threads -> Nat]
  /\ generation \in [Threads -> Nat]
  /\ tasks \in Nat
  /\ timers \subseteq Nat
  /\ pending \subseteq Nat
  /\ stopped \in BOOLEAN

\* Exactly one thread drains at a time, and none while the pump is Idle or
\* Scheduled (Run, TryRunInline and RunOwned exchange the role correctly).
OneConsumer ==
  /\ \A t, u \in Threads : Consuming(t) /\ Consuming(u) => t = u
  /\ consumer \in {"Idle", "Scheduled"} => \A t \in Threads : ~Consuming(t)

\* No lost wake-up: an Idle pump (IsIdle) has drained every epoch requested,
\* however Notify raced the consumer's exit.
IdleMeansDrained == consumer = "Idle" => drainedEpoch = epoch /\ pending = {}

\* Work notified at or before the drained epoch has been taken: a host that
\* polls Stats::drainedEpoch is never told of a drain that missed its work.
DrainedMeansServed == \A e \in pending : e > drainedEpoch

\* The threads or timers that will settle the arm of generation g.
Carries(t, g) == pc[t] \in {"arming", "disarm"} /\ generation[t] = g

\* While the pump runs, a delayed notification is armed exactly when a timer
\* of the current generation exists or is being submitted, through races of
\* replacement, refusal and firing: a deadline is neither lost nor doubled.
DelayArmedExactly ==
  consumer # "Stopping" =>
    (delayedDue # NoDue <=> \/ delayedGeneration \in timers
                            \/ \E t \in Threads : Carries(t, delayedGeneration))

\* Work that Notify accepted is taken by a drain or failed by m_reject, unless
\* the host stops the pump: it is never stranded.
AcceptedWorkSettles == pending # {} ~> (pending = {} \/ stopped)
=============================================================================
