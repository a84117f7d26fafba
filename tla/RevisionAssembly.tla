-------------------------- MODULE RevisionAssembly --------------------------
(***************************************************************************)
(* The lock-free "same update" primitive (Async/RevisionAssembly.h).       *)
(*                                                                         *)
(* A coordinator seals revisions, each naming one fragment per slot;       *)
(* producers settle fragments on any thread; the last settler of a         *)
(* revision's fragments pushes it onto the completion stack and notifies;  *)
(* Collect publishes the newest complete revision to the frame.            *)
(*                                                                         *)
(* Each atomic access is a step of its own, with these merged because no   *)
(* other thread can tell: claim and state store of a fragment; the weak    *)
(* lock of a waiter and the revision's failed exchange; the count that     *)
(* reaches zero and the push that follows (nobody else touches such a      *)
(* revision).  Collect is one step: everything after its exchange of the   *)
(* stack is the coordinator's alone but the hand-over to the frame, which  *)
(* PublicationExchange shows is a mailbox whose replacement always         *)
(* succeeds.  A waiter list is a set: it is walked newest first, which is  *)
(* the order of the sequence numbers.  The weak_ptr a waiter holds is      *)
(* lockable while anyone owns the revision.                                *)
(***************************************************************************)
EXTENDS Naturals, FiniteSets, FiniteSetsExt

CONSTANTS
    Fragments,  \* the fragments producers may settle
    Slots,      \* the slots of a revision
    Requires,   \* [Fragments -> SUBSET (Slots \X Fragments)]: RevisionFragment::Requirements
    None,       \* an empty slot, no fragment, no error
    MaxSealed   \* bound: revisions sealed

ASSUME RevisionAssumption ==
    /\ IsFiniteSet(Fragments) /\ IsFiniteSet(Slots)
    /\ None \notin Fragments /\ "coordinator" \notin Fragments
    /\ Requires \in [Fragments -> SUBSET (Slots \X Fragments)]
    /\ MaxSealed \in Nat

VARIABLES
    state,      \* per fragment: m_state
    waiters,    \* per fragment: m_waiters, the revisions attached
    closed,     \* fragments whose m_waiters is Closed
    draft,      \* the coordinator's Draft: m_base and m_slots
    latest,     \* m_latest
    latestSequence,
    revision,   \* per sequence: slots, remaining, failed, error
    pending,    \* m_pending
    completed,  \* RevisionShared::completed
    published,  \* m_publishedSequence
    stats,      \* m_stats
    thread,     \* per producer (its fragment) and for the coordinator: where it is
    wake,       \* notify was called since the coordinator last collected
    mailbox,    \* the publication the frame has not selected yet; 0: none
    active      \* the revision the frame runs with; 0: none

vars == <<state, waiters, closed, draft, latest, latestSequence, revision, pending,
          completed, published, stats, thread, wake, mailbox, active>>

Coordinator == "coordinator"
Threads     == Fragments \cup {Coordinator}
Sequences   == 1..MaxSealed
Named(slots) == {slots[s] : s \in Slots} \ {None}
Empty       == [s \in Slots |-> None]

\* thread[t]: todo are the waiters a producer still walks (sequences) or the fragments
\* Seal still attaches; it holds revision cur, on behalf of fragment frag (None: Seal's
\* own count).
Idle == [at |-> "idle", todo |-> {}, cur |-> 0, frag |-> None]

Init ==
    /\ state = [f \in Fragments |-> "Pending"]
    /\ waiters = [f \in Fragments |-> {}]
    /\ closed = {}
    /\ draft = [base |-> 0, slots |-> Empty]
    /\ latest = Empty
    /\ latestSequence = 0
    /\ revision = [r \in Sequences |-> [slots |-> Empty, remaining |-> 0, failed |-> FALSE, error |-> None]]
    /\ pending = {} /\ completed = {} /\ published = 0
    /\ stats = [sealed |-> 0, published |-> 0, failed |-> 0, superseded |-> 0, abandoned |-> 0]
    /\ thread = [t \in Threads |-> Idle]
    /\ wake = FALSE /\ mailbox = 0 /\ active = 0

\* Whether a weak_ptr to the revision can be locked: the coordinator, the completion
\* stack or a thread that has it locked owns it.
Alive(r) == r \in pending \/ r \in completed \/ \E t \in Threads : thread[t].cur = r

-----------------------------------------------------------------------------
(* Settling a revision for one fragment, by a producer or by Seal.          *)

\* Mutant of WriteError: the error is written only after the count (here: lost to a
\* reader of the completed revision).
WriteErrorLate(t) ==
    /\ thread[t].at = "error"
    /\ thread' = [thread EXCEPT ![t].at = "count"]
    /\ UNCHANGED <<state, waiters, closed, draft, latest, latestSequence, revision, pending, completed,
                   published, stats, wake, mailbox, active>>

\* The lock of a waiter and SettleWaiter's first line: the first failing fragment's
\* settler goes on to write the error.
SettleWaiter(t, r, f, rest) ==
    LET first == state[f] = "Failed" /\ ~revision[r].failed
    IN  /\ thread' = [thread EXCEPT ![t] = [at |-> IF first THEN "error" ELSE "count",
                                            todo |-> rest, cur |-> r, frag |-> f]]
        /\ revision' = IF first THEN [revision EXCEPT ![r].failed = TRUE] ELSE revision

WriteError(t) ==
    /\ thread[t].at = "error"
    /\ revision' = [revision EXCEPT ![thread[t].cur].error = thread[t].frag]
    /\ thread' = [thread EXCEPT ![t].at = "count"]
    /\ UNCHANGED <<state, waiters, closed, draft, latest, latestSequence, pending, completed,
                   published, stats, wake, mailbox, active>>

\* Where a thread goes on once it has settled a waiter.
Resume(t) ==
    IF t = Coordinator
    THEN IF thread[t].frag = None THEN Idle
         ELSE [at |-> "attach", todo |-> thread[t].todo, cur |-> latestSequence, frag |-> None]
    ELSE [at |-> "walk", todo |-> thread[t].todo, cur |-> 0, frag |-> None]

\* CountDown: the last one pushes the revision.
CountDown(t) ==
    LET r == thread[t].cur
        last == revision[r].remaining = 1
    IN  /\ thread[t].at = "count"
        /\ revision' = [revision EXCEPT ![r].remaining = @ - 1]
        /\ completed' = IF last THEN completed \cup {r} ELSE completed
        /\ thread' = [thread EXCEPT ![t] = IF last THEN [@ EXCEPT !.at = "notify"] ELSE Resume(t)]
        /\ UNCHANGED <<state, waiters, closed, draft, latest, latestSequence, pending,
                       published, stats, wake, mailbox, active>>

\* CountDown's notify, which posts to the coordinator.
Notify(t) ==
    /\ thread[t].at = "notify"
    /\ wake' = TRUE
    /\ thread' = [thread EXCEPT ![t] = Resume(t)]
    /\ UNCHANGED <<state, waiters, closed, draft, latest, latestSequence, revision, pending,
                   completed, published, stats, mailbox, active>>

-----------------------------------------------------------------------------
(* Producers: Resolve and Fail.                                             *)

\* Settle: the one call that claims the fragment stores its state (any later one returns
\* false and does nothing).
Settle(f, s) ==
    /\ thread[f].at = "idle" /\ state[f] = "Pending"
    /\ state' = [state EXCEPT ![f] = s]
    /\ thread' = [thread EXCEPT ![f].at = "take"]
    /\ UNCHANGED <<waiters, closed, draft, latest, latestSequence, revision, pending,
                   completed, published, stats, wake, mailbox, active>>

\* Mutant of TakeWaiters: the list is taken and left open, so a later Attach waits on it.
TakeWaitersLeftOpen(f) ==
    /\ thread[f].at = "take"
    /\ thread' = [thread EXCEPT ![f].at = "walk", ![f].todo = waiters[f]]
    /\ waiters' = [waiters EXCEPT ![f] = {}]
    /\ UNCHANGED <<state, closed, draft, latest, latestSequence, revision, pending,
                   completed, published, stats, wake, mailbox, active>>

\* Its exchange of the waiter list with Closed.
TakeWaiters(f) ==
    /\ thread[f].at = "take"
    /\ thread' = [thread EXCEPT ![f].at = "walk", ![f].todo = waiters[f]]
    /\ waiters' = [waiters EXCEPT ![f] = {}]
    /\ closed' = closed \cup {f}
    /\ UNCHANGED <<state, draft, latest, latestSequence, revision, pending,
                   completed, published, stats, wake, mailbox, active>>

\* The next waiter: settled if its revision is still owned, dropped if it was abandoned.
WalkWaiter(f) ==
    /\ thread[f].at = "walk"
    /\ LET todo == thread[f].todo
           r    == Max(todo)
       IN  \/ /\ todo = {}
              /\ thread' = [thread EXCEPT ![f] = Idle]
              /\ UNCHANGED revision
           \/ /\ todo # {} /\ Alive(r)
              /\ SettleWaiter(f, r, f, todo \ {r})
           \/ /\ todo # {} /\ ~Alive(r)
              /\ thread' = [thread EXCEPT ![f].todo = todo \ {r}]
              /\ UNCHANGED revision
    /\ UNCHANGED <<state, waiters, closed, draft, latest, latestSequence, pending,
                   completed, published, stats, wake, mailbox, active>>

-----------------------------------------------------------------------------
(* The coordinator: Begin, Set, Seal, Collect.                              *)

\* (A draft is edited only while another seal is within the bound.)
Begin ==
    /\ thread[Coordinator].at = "idle" /\ latestSequence < MaxSealed
    /\ draft' = [base |-> latestSequence, slots |-> latest]
    /\ UNCHANGED <<state, waiters, closed, latest, latestSequence, revision, pending,
                   completed, published, stats, thread, wake, mailbox, active>>

Set(s, f) ==
    /\ thread[Coordinator].at = "idle" /\ latestSequence < MaxSealed
    /\ draft' = [draft EXCEPT !.slots[s] = f]
    /\ UNCHANGED <<state, waiters, closed, latest, latestSequence, revision, pending,
                   completed, published, stats, thread, wake, mailbox, active>>

\* Every fragment's requirement is exactly in its slot.
Closure(slots) == \A f \in Named(slots) : \A q \in Requires[f] : slots[q[1]] = q[2]

\* Mutant of Seal: the draft's closure is not looked at.
SealUnclosed ==
    LET r == latestSequence + 1
    IN  /\ thread[Coordinator].at = "idle"
        /\ r <= MaxSealed
        /\ draft.base = latestSequence
        /\ revision' = [revision EXCEPT ![r] =
               [slots |-> draft.slots, remaining |-> Cardinality(Named(draft.slots)) + 1,
                failed |-> FALSE, error |-> None]]
        /\ latestSequence' = r
        /\ latest' = draft.slots
        /\ pending' = pending \cup {r}
        /\ stats' = [stats EXCEPT !.sealed = @ + 1]
        /\ thread' = [thread EXCEPT ![Coordinator] =
               [at |-> "attach", todo |-> Named(draft.slots), cur |-> r, frag |-> None]]
        /\ UNCHANGED <<state, waiters, closed, draft, completed, published, wake, mailbox, active>>

\* Seal, up to the first Attach.  It throws, changing nothing, for a draft begun before
\* another seal and for one whose closure is broken.
Seal ==
    LET r == latestSequence + 1
    IN  /\ thread[Coordinator].at = "idle"
        /\ r <= MaxSealed
        /\ draft.base = latestSequence
        /\ Closure(draft.slots)
        /\ revision' = [revision EXCEPT ![r] =
               [slots |-> draft.slots, remaining |-> Cardinality(Named(draft.slots)) + 1,
                failed |-> FALSE, error |-> None]]
        /\ latestSequence' = r
        /\ latest' = draft.slots
        /\ pending' = pending \cup {r}
        /\ stats' = [stats EXCEPT !.sealed = @ + 1]
        /\ thread' = [thread EXCEPT ![Coordinator] =
               [at |-> "attach", todo |-> Named(draft.slots), cur |-> r, frag |-> None]]
        /\ UNCHANGED <<state, waiters, closed, draft, completed, published, wake, mailbox, active>>

\* Attach: pushed onto the fragment's waiters, or settled here if they are Closed.
Attach ==
    /\ thread[Coordinator].at = "attach"
    /\ \E f \in thread[Coordinator].todo :
           LET r == thread[Coordinator].cur
               rest == thread[Coordinator].todo \ {f}
           IN  \/ /\ f \in closed
                  /\ SettleWaiter(Coordinator, r, f, rest)
                  /\ UNCHANGED waiters
               \/ /\ f \notin closed
                  /\ waiters' = [waiters EXCEPT ![f] = @ \cup {r}]
                  /\ thread' = [thread EXCEPT ![Coordinator].todo = rest]
                  /\ UNCHANGED revision
    /\ UNCHANGED <<state, closed, draft, latest, latestSequence, pending,
                   completed, published, stats, wake, mailbox, active>>

\* Every fragment attached: Seal goes on to its own count.
AttachEnd ==
    /\ thread[Coordinator].at = "attach" /\ thread[Coordinator].todo = {}
    /\ thread' = [thread EXCEPT ![Coordinator].at = "count"]
    /\ UNCHANGED <<state, waiters, closed, draft, latest, latestSequence, revision, pending,
                   completed, published, stats, wake, mailbox, active>>

\* Mutant of Collect: a completed revision is not looked up in m_pending.
CollectRecounts ==
    LET failures == {r \in completed : revision[r].failed}
        whole    == {r \in completed \ failures : r > published}
        newest   == IF whole = {} THEN published ELSE Max(whole)
        left     == pending \ completed
        kept     == IF whole = {} THEN left ELSE {r \in left : r >= newest}
    IN  /\ thread[Coordinator].at = "idle"
        /\ wake \/ completed # {}
        /\ wake' = FALSE
        /\ completed' = {}
        /\ pending' = kept
        /\ published' = newest
        /\ mailbox' = IF whole = {} THEN mailbox ELSE newest
        /\ stats' = [stats EXCEPT
               !.failed = @ + Cardinality(failures),
               !.published = @ + (IF whole = {} THEN 0 ELSE 1),
               !.superseded = @ + Cardinality(completed \ failures) - (IF whole = {} THEN 0 ELSE 1),
               !.abandoned = @ + Cardinality(left \ kept)]
        /\ UNCHANGED <<state, waiters, closed, draft, latest, latestSequence, revision, thread, active>>

\* Mutant of Collect: whatever completed is published, older ones stay pending.
CollectAny ==
    LET mine     == completed \cap pending
        failures == {r \in mine : revision[r].failed}
        whole    == mine \ failures
    IN  /\ thread[Coordinator].at = "idle"
        /\ wake \/ completed # {}
        /\ wake' = FALSE
        /\ completed' = {}
        /\ pending' = pending \ mine
        /\ published' = IF whole = {} THEN published ELSE Max(whole)
        /\ mailbox' = IF whole = {} THEN mailbox ELSE Max(whole)
        /\ UNCHANGED <<stats, state, waiters, closed, draft, latest, latestSequence, revision, thread, active>>

\* Collect: the completed revisions taken; failures counted, the newest complete one
\* handed to the frame, older ones superseded or, still pending, abandoned.
Collect ==
    LET mine     == completed \cap pending     \* the others were counted when abandoned
        failures == {r \in mine : revision[r].failed}
        whole    == {r \in mine \ failures : r > published}
        newest   == IF whole = {} THEN published ELSE Max(whole)
        left     == pending \ mine
        kept     == IF whole = {} THEN left ELSE {r \in left : r >= newest}
    IN  /\ thread[Coordinator].at = "idle"
        /\ wake \/ completed # {}
        /\ wake' = FALSE
        /\ completed' = {}
        /\ pending' = kept
        /\ published' = newest
        /\ mailbox' = IF whole = {} THEN mailbox ELSE newest
        /\ stats' = [stats EXCEPT
               !.failed = @ + Cardinality(failures),
               !.published = @ + (IF whole = {} THEN 0 ELSE 1),
               !.superseded = @ + Cardinality(mine \ failures) - (IF whole = {} THEN 0 ELSE 1),
               !.abandoned = @ + Cardinality(left \ kept)]
        /\ UNCHANGED <<state, waiters, closed, draft, latest, latestSequence, revision, thread, active>>

-----------------------------------------------------------------------------
\* The frame owner: TrySelect, when accept takes the publication.
TrySelect ==
    /\ mailbox # 0
    /\ active' = mailbox
    /\ mailbox' = 0
    /\ UNCHANGED <<state, waiters, closed, draft, latest, latestSequence, revision, pending,
                   completed, published, stats, thread, wake>>

-----------------------------------------------------------------------------
Walk(t) == WriteError(t) \/ CountDown(t) \/ Notify(t)
Produce(f) == TakeWaiters(f) \/ WalkWaiter(f) \/ Walk(f)
Sealing == Attach \/ AttachEnd \/ Walk(Coordinator)

Next ==
    \/ \E f \in Fragments : Produce(f) \/ \E s \in {"Ready", "Failed"} : Settle(f, s)
    \/ Begin \/ Seal \/ Sealing \/ Collect \/ TrySelect
    \/ \E s \in Slots, f \in Fragments : Set(s, f)

Spec == Init /\ [][Next]_vars

\* A call under way finishes, and the coordinator collects when it was told to.
Fairness ==
    /\ \A f \in Fragments : WF_vars(Produce(f))
    /\ WF_vars(Sealing)
    /\ SF_vars(wake /\ Collect)

FairSpec == Spec /\ Fairness

-----------------------------------------------------------------------------
(* Properties.                                                              *)

Settled(r) == \A f \in Named(revision[r].slots) : state[f] # "Pending"

\* The types of the variables.
TypeOK ==
    /\ state \in [Fragments -> {"Pending", "Ready", "Failed"}]
    /\ waiters \in [Fragments -> SUBSET Sequences] /\ closed \subseteq Fragments
    /\ draft \in [base : 0..MaxSealed, slots : [Slots -> Fragments \cup {None}]]
    /\ latest \in [Slots -> Fragments \cup {None}]
    /\ latestSequence \in 0..MaxSealed
    /\ \A r \in Sequences : revision[r].remaining \in 0..(Cardinality(Fragments) + 1)
    /\ pending \subseteq Sequences /\ completed \subseteq Sequences
    /\ published \in 0..latestSequence /\ mailbox \in 0..published /\ active \in 0..published
    /\ wake \in BOOLEAN

\* A revision is published only once every fragment it names is ready, and the frame
\* selects it as one cut: each required fragment is exactly in its slot.
PublishedIsWhole ==
    \A r \in {mailbox, active} \ {0} :
        /\ \A f \in Named(revision[r].slots) : state[f] = "Ready"
        /\ Closure(revision[r].slots)

\* The frame never goes back to an older revision, and never to one published before
\* the one it runs with: the newest complete revision wins.
NewestWins == [][active' >= active /\ (mailbox' # 0 => mailbox' >= active')]_vars

\* A revision on the completion stack is fully settled, and a failed one carries the
\* error of a failed fragment it names: Collect reads it unsynchronised, after the
\* count, whoever counted last.  And the counters agree: every sealed revision is pending
\* or was counted exactly once, as published, failed, superseded or abandoned (Stats),
\* even one that a settler had locked just as a newer publication abandoned it.  The
\* variables have their types.
CompletedIsDecided ==
    /\ TypeOK
    /\ stats.sealed = latestSequence
    /\ stats.sealed = Cardinality(pending) + stats.published + stats.failed
                      + stats.superseded + stats.abandoned
    /\ \A r \in completed :
        /\ Settled(r) /\ revision[r].remaining = 0
        /\ revision[r].failed <=> \E f \in Named(revision[r].slots) : state[f] = "Failed"
        /\ revision[r].failed => /\ revision[r].error \in Named(revision[r].slots)
                                 /\ state[revision[r].error] = "Failed"

\* A sealed revision all of whose fragments settle is decided: published, superseded,
\* abandoned or reported as failed, whether they settle before, during or after Seal.
SettledIsDecided ==
    \A r \in Sequences : (r \in pending /\ Settled(r)) ~> (r \notin pending)
=============================================================================
