------------------------ MODULE PublicationExchange ------------------------
(***************************************************************************)
(* The three-slot publication exchange of Async/PublicationExchange.h.     *)
(*                                                                         *)
(* One producer (the coordinator) and one consumer (the frame owner) share *)
(* three slots and the index of the ready one.  Each atomic access is a    *)
(* step, and so is each write of a slot's plain shared_ptr, so an access   *)
(* of the two threads to one slot at once is a state of the model.         *)
(* A candidate is the number of its creation; a reset slot holds 0.        *)
(***************************************************************************)
EXTENDS Naturals

CONSTANT MaxCandidate  \* bound: candidates the coordinator makes

ASSUME ExchangeAssumption == MaxCandidate \in Nat

Slots == 0 .. 2
kNone == 3

VARIABLES
  state,      \* each slot's atomic state
  value,      \* each slot's shared_ptr (0: null)
  ready,      \* m_ready
  active,     \* m_active, the consumer's own
  op,         \* the producer's call: "publish", "replace" or "reclaim"
  ppc,        \* the producer's next step
  i,          \* the slot its loop is at, or the one it took back
  candidate,  \* the candidate it owns (0: none yet)
  made,       \* candidates made so far
  newest,     \* history: the newest one published
  cpc,        \* the consumer's next step
  taken,      \* the slot its exchange took
  previous    \* TrySelect's local

slotVars == <<state, value>>
producerVars == <<op, ppc, i, candidate, made, newest>>
consumerVars == <<cpc, taken, previous>>
vars == <<state, value, ready, active, op, ppc, i, candidate, made, newest, cpc, taken, previous>>

Init ==
  /\ state = [s \in Slots |-> "Empty"]
  /\ value = [s \in Slots |-> 0]
  /\ ready = kNone
  /\ active = kNone
  /\ op = "reclaim"
  /\ ppc = "idle"
  /\ i = 0
  /\ candidate = 0
  /\ made = 0
  /\ newest = 0
  /\ cpc = "idle"
  /\ taken = kNone
  /\ previous = kNone

-----------------------------------------------------------------------------
(* The coordinator calls TryPublish or TryReplace with the candidate an    *)
(* earlier call left with it, or a new one.                                *)
CallPublish(call) ==
  /\ ppc = "idle"
  /\ call \in {"publish", "replace"}
  /\ \/ candidate # 0 /\ UNCHANGED <<candidate, made>>
     \/ /\ made < MaxCandidate
        /\ made' = made + 1
        /\ candidate' = made + 1
  /\ op' = call
  /\ ppc' = IF call = "replace" THEN "take" ELSE "check"
  /\ UNCHANGED <<slotVars, ready, active, i, newest, consumerVars>>

(* The coordinator calls ReclaimRetired.                                   *)
CallReclaim ==
  /\ ppc = "idle"
  /\ op' = "reclaim"
  /\ ppc' = "reclaim"
  /\ i' = 0
  /\ UNCHANGED <<slotVars, ready, active, candidate, made, newest, consumerVars>>

\* Mutant: reads the ready index instead of exchanging it.
TakeBackByLoad ==
  /\ ppc = "take"
  /\ i' = ready
  /\ ppc' = IF ready = kNone THEN "check" ELSE "retire"
  /\ UNCHANGED <<slotVars, ready, active, op, candidate, made, newest, consumerVars>>

(* TryReplace exchanges the ready index ...                                *)
TakeBack ==
  /\ ppc = "take"
  /\ ready' = kNone
  /\ i' = ready
  /\ ppc' = IF ready = kNone THEN "check" ELSE "retire"
  /\ UNCHANGED <<slotVars, active, op, candidate, made, newest, consumerVars>>

\* Mutant: the taken-back slot is left as it is.
RetireTakenBackLeaked ==
  /\ ppc = "retire"
  /\ ppc' = "check"
  /\ UNCHANGED <<slotVars, ready, active, op, i, candidate, made, newest, consumerVars>>

(* ... and retires the slot it took back.                                  *)
RetireTakenBack ==
  /\ ppc = "retire"
  /\ state' = [state EXCEPT ![i] = "Retired"]
  /\ ppc' = "check"
  /\ UNCHANGED <<value, ready, active, op, i, candidate, made, newest, consumerVars>>

(* TryPublish: a ready successor is not replaced.                          *)
CheckReady ==
  /\ ppc = "check"
  /\ ppc' = IF ready = kNone THEN "reclaim" ELSE "idle"
  /\ i' = 0
  /\ UNCHANGED <<slotVars, ready, active, op, candidate, made, newest, consumerVars>>

(* ReclaimRetired's loop: look at slot i ...                               *)
ReclaimLook ==
  /\ ppc = "reclaim"
  /\ \/ i = kNone /\ ppc' = (IF op = "reclaim" THEN "idle" ELSE "find") /\ i' = 0
     \/ i # kNone /\ state[i] = "Retired" /\ ppc' = "reset" /\ UNCHANGED i
     \/ i # kNone /\ state[i] # "Retired" /\ ppc' = "reclaim" /\ i' = i + 1
  /\ UNCHANGED <<slotVars, ready, active, op, candidate, made, newest, consumerVars>>

(* ... drop its value ...                                                  *)
ReclaimReset ==
  /\ ppc = "reset"
  /\ value' = [value EXCEPT ![i] = 0]
  /\ ppc' = "empty"
  /\ UNCHANGED <<state, ready, active, op, i, candidate, made, newest, consumerVars>>

\* Mutant: the loop steps over the next slot.
ReclaimEmptySkips ==
  /\ ppc = "empty"
  /\ state' = [state EXCEPT ![i] = "Empty"]
  /\ i' = i + 2
  /\ ppc' = "reclaim"
  /\ UNCHANGED <<value, ready, active, op, candidate, made, newest, consumerVars>>

(* ... and give the slot back.                                             *)
ReclaimEmpty ==
  /\ ppc = "empty"
  /\ state' = [state EXCEPT ![i] = "Empty"]
  /\ i' = i + 1
  /\ ppc' = "reclaim"
  /\ UNCHANGED <<value, ready, active, op, candidate, made, newest, consumerVars>>

(* TryPublish's loop over the slots: an Empty one, or none (returns false). *)
FindEmpty ==
  /\ ppc = "find"
  /\ ppc' = IF i = kNone THEN "idle" ELSE IF state[i] = "Empty" THEN "write" ELSE "find"
  /\ i' = IF ppc' = "find" THEN i + 1 ELSE i
  /\ UNCHANGED <<slotVars, ready, active, op, candidate, made, newest, consumerVars>>

WriteValue ==
  /\ ppc = "write"
  /\ value' = [value EXCEPT ![i] = candidate]
  /\ candidate' = 0
  /\ ppc' = "store"
  /\ UNCHANGED <<state, ready, active, op, i, made, newest, consumerVars>>

StoreReady ==
  /\ ppc = "store"
  /\ state' = [state EXCEPT ![i] = "Ready"]
  /\ ppc' = "index"
  /\ UNCHANGED <<value, ready, active, op, i, candidate, made, newest, consumerVars>>

StoreIndex ==
  /\ ppc = "index"
  /\ ready' = i
  /\ newest' = value[i]
  /\ ppc' = "idle"
  /\ UNCHANGED <<slotVars, active, op, i, candidate, made, consumerVars>>

Producer ==
  \/ \E call \in {"publish", "replace"} : CallPublish(call)
  \/ CallReclaim \/ TakeBack \/ RetireTakenBack \/ CheckReady
  \/ ReclaimLook \/ ReclaimReset \/ ReclaimEmpty
  \/ FindEmpty \/ WriteValue \/ StoreReady \/ StoreIndex

-----------------------------------------------------------------------------
(* TrySelect exchanges the ready index; none leaves everything unchanged.  *)
Take ==
  /\ cpc = "idle"
  /\ ready # kNone
  /\ taken' = ready
  /\ ready' = kNone
  /\ cpc' = "accept"
  /\ UNCHANGED <<slotVars, active, producerVars, previous>>

(* The predicate refuses the candidate.                                    *)
RejectTaken ==
  /\ cpc = "accept"
  /\ state' = [state EXCEPT ![taken] = "Retired"]
  /\ taken' = kNone
  /\ cpc' = "idle"
  /\ UNCHANGED <<value, ready, active, producerVars, previous>>

(* It accepts it: the slot becomes the active one ...                      *)
Activate ==
  /\ cpc = "accept"
  /\ previous' = active
  /\ active' = taken
  /\ state' = [state EXCEPT ![taken] = "Active"]
  /\ taken' = kNone
  /\ cpc' = IF active = kNone THEN "idle" ELSE "retire"
  /\ UNCHANGED <<value, ready, producerVars>>

(* ... and the previous one is retired.                                    *)
RetirePrevious ==
  /\ cpc = "retire"
  /\ state' = [state EXCEPT ![previous] = "Retired"]
  /\ cpc' = "idle"
  /\ UNCHANGED <<value, ready, active, producerVars, taken, previous>>

\* Mutant: the slot is retired and m_active still names it.
ClearActiveKeepsIndex ==
  /\ cpc = "idle"
  /\ active # kNone
  /\ state' = [state EXCEPT ![active] = "Retired"]
  /\ UNCHANGED <<value, ready, active, producerVars, consumerVars>>

(* A world reset: the active slot is retired at once.                      *)
ClearActive ==
  /\ cpc = "idle"
  /\ active # kNone
  /\ active' = kNone
  /\ state' = [state EXCEPT ![active] = "Retired"]
  /\ UNCHANGED <<value, ready, producerVars, consumerVars>>

Consumer == Take \/ RejectTaken \/ Activate \/ RetirePrevious \/ ClearActive

Next == Producer \/ Consumer

Spec == Init /\ [][Next]_vars

-----------------------------------------------------------------------------
\* Type invariant.
TypeOK ==
  /\ state \in [Slots -> {"Empty", "Ready", "Active", "Retired"}]
  /\ value \in [Slots -> Nat]
  /\ ready \in Slots \cup {kNone}
  /\ active \in Slots \cup {kNone}
  /\ op \in {"publish", "replace", "reclaim"}
  /\ ppc \in {"idle", "take", "retire", "check", "reclaim", "reset", "empty",
              "find", "write", "store", "index"}
  /\ i \in Slots \cup {kNone}
  /\ candidate \in Nat
  /\ made \in Nat
  /\ newest \in Nat
  /\ cpc \in {"idle", "accept", "retire"}
  /\ taken \in Slots \cup {kNone}
  /\ previous \in Slots \cup {kNone}

\* No data race: while the producer writes or resets slot i's shared_ptr, the
\* consumer neither owns that slot nor can take it (and every variable has
\* its type).
NoDataRace ==
  /\ TypeOK
  /\ ppc \in {"reset", "empty", "write", "store"} => i \notin {ready, active, taken}

\* TryReplace always publishes: as its comment says, "with the taken-back slot
\* reclaimed, a slot is always free", whatever the consumer is in the middle of.
ReplaceAlwaysPublishes ==
  op = "replace" => ~(ppc = "find" /\ i = kNone) /\ ~(ppc = "check" /\ ready # kNone)

\* The successor in a place of the mailbox.
In(slot) == IF slot = kNone THEN 0 ELSE value[slot]

Mailbox == INSTANCE PublicationMailbox WITH
  offered <- In(ready), held <- In(taken), active <- In(active)

\* The exchange implements the mailbox: through every interleaving of the
\* stores, the frame owner's revision stays the one it activated until it
\* activates or clears, and a successor is never both selected and replaced.
ImplementsMailbox == Mailbox!Spec
=============================================================================
