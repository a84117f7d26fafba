--------------------------- MODULE LockFreeProofs ---------------------------
(***************************************************************************)
(* The safety of the three structures threads share without a lock, for    *)
(* any number of candidates, threads, subscriptions, clock points, epochs  *)
(* and delayed notifications.                                              *)
(*                                                                         *)
(* First PublicationExchange and its refinement of PublicationMailbox.     *)
(* The inductive invariant says, beside the types:                         *)
(*   - CallInv: which call the producer is in, and that a call which       *)
(*     publishes has found or made the ready index empty;                  *)
(*   - OwnerInv: which state each slot is in, from who holds it;           *)
(*   - FreeInv: while a publishing call looks for a slot, one is free;     *)
(*   - ValueInv: what is published is never null, and is newer than all    *)
(*     that was.                                                           *)
(***************************************************************************)
EXTENDS PublicationExchange, RetirementClock, SerializedTaskPump, TLAPS

CallInv ==
  /\ ppc \in {"take", "retire"} => op = "replace"
  /\ ppc \in {"check", "find", "write", "store", "index"} => op # "reclaim"
  /\ ppc \in {"retire", "reset", "empty", "write", "store", "index"} => i # kNone
  /\ \/ ppc \in {"retire", "find", "write", "store", "index"}
     \/ ppc \in {"reclaim", "reset", "empty"} /\ op # "reclaim"
     \/ ppc = "check" /\ op = "replace"
     => ready = kNone

\* Only m_ready, the consumer's exchange and the producer's call make a slot
\* Ready theirs; only m_active and the slot being retired are Active.
OwnerInv ==
  /\ ready # kNone => state[ready] = "Ready" /\ ready # taken
  /\ active # kNone => state[active] = "Active"
  /\ taken # kNone => state[taken] = "Ready"
  /\ cpc = "accept" <=> taken # kNone
  /\ cpc = "retire" =>
       previous # kNone /\ previous # active /\ state[previous] = "Active"
  /\ ppc \in {"retire", "index"} => state[i] = "Ready" /\ i # taken
  /\ ppc \in {"reset", "empty"} => state[i] = "Retired"
  /\ ppc \in {"write", "store"} => state[i] = "Empty"
  /\ \A s \in Slots : state[s] = "Ready" =>
       s \in {ready, taken} \/ (ppc \in {"retire", "index"} /\ s = i)
  /\ \A s \in Slots : state[s] = "Active" =>
       s = active \/ (cpc = "retire" /\ s = previous)

\* The slot that a publishing call will find: the consumer can release slots
\* meanwhile and not take one, because the ready index is empty.
FreeInv ==
  op # "reclaim" =>
    /\ ppc \in {"reclaim", "reset", "empty"} =>
         \E s \in Slots :
           state[s] = "Empty" \/ (s >= i /\ state[s] = "Retired")
    /\ ppc = "find" => \E s \in Slots : s >= i /\ state[s] = "Empty"

ValueInv ==
  /\ candidate <= made /\ newest <= made
  /\ candidate # 0 => candidate > newest
  /\ ppc \in {"take", "retire", "check", "reclaim", "reset", "empty", "find", "write"}
     /\ op # "reclaim" => candidate # 0
  /\ ppc \in {"store", "index"} =>
       candidate = 0 /\ newest < value[i] /\ value[i] <= made
  /\ \A s \in {ready, active, taken} \ {kNone} : value[s] # 0

IInv == TypeOK /\ CallInv /\ OwnerInv /\ FreeInv /\ ValueInv

-----------------------------------------------------------------------------
(* Every action keeps the variables in their types.                        *)
LEMMA TypeStep ==
  ASSUME TypeOK, CallInv, [Next]_vars
  PROVE  TypeOK'
<1> USE DEF TypeOK, Slots, kNone, slotVars, producerVars, consumerVars, CallInv
<1>1. CASE UNCHANGED vars
  BY <1>1 DEF vars
<1>2. ASSUME NEW call \in {"publish", "replace"}, CallPublish(call) PROVE TypeOK'
  BY <1>2 DEF CallPublish
<1>3. CASE CallReclaim
  BY <1>3 DEF CallReclaim
<1>4. CASE TakeBack
  BY <1>4 DEF TakeBack
<1>5. CASE RetireTakenBack
  BY <1>5 DEF RetireTakenBack
<1>6. CASE CheckReady
  BY <1>6 DEF CheckReady
<1>7. CASE ReclaimLook
  BY <1>7 DEF ReclaimLook
<1>8. CASE ReclaimReset
  BY <1>8 DEF ReclaimReset
<1>9. CASE ReclaimEmpty
  BY <1>9 DEF ReclaimEmpty
<1>10. CASE FindEmpty
  BY <1>10 DEF FindEmpty
<1>11. CASE WriteValue
  BY <1>11 DEF WriteValue
<1>12. CASE StoreReady
  BY <1>12 DEF StoreReady
<1>13. CASE StoreIndex
  BY <1>13 DEF StoreIndex
<1>14. CASE Take
  BY <1>14 DEF Take
<1>15. CASE RejectTaken
  BY <1>15 DEF RejectTaken
<1>16. CASE Activate
  BY <1>16 DEF Activate
<1>17. CASE RetirePrevious
  BY <1>17 DEF RetirePrevious
<1>18. CASE ClearActive
  BY <1>18 DEF ClearActive
<1> QED
  BY <1>1, <1>2, <1>3, <1>4, <1>5, <1>6, <1>7, <1>8, <1>9, <1>10, <1>11, <1>12, <1>13, <1>14, <1>15, <1>16, <1>17, <1>18 DEF Next, Producer, Consumer

(* The producer's call: only its last step makes an index ready.           *)
LEMMA CallStep ==
  ASSUME TypeOK, CallInv, [Next]_vars
  PROVE  CallInv'
<1> USE DEF TypeOK, Slots, kNone, slotVars, producerVars, consumerVars, CallInv
<1>1. CASE UNCHANGED vars
  BY <1>1 DEF vars
<1>2. ASSUME NEW call \in {"publish", "replace"}, CallPublish(call) PROVE CallInv'
  BY <1>2 DEF CallPublish
<1>3. CASE CallReclaim
  BY <1>3 DEF CallReclaim
<1>4. CASE TakeBack
  BY <1>4 DEF TakeBack
<1>5. CASE RetireTakenBack
  BY <1>5 DEF RetireTakenBack
<1>6. CASE CheckReady
  BY <1>6 DEF CheckReady
<1>7. CASE ReclaimLook
  BY <1>7 DEF ReclaimLook
<1>8. CASE ReclaimReset
  BY <1>8 DEF ReclaimReset
<1>9. CASE ReclaimEmpty
  BY <1>9 DEF ReclaimEmpty
<1>10. CASE FindEmpty
  BY <1>10 DEF FindEmpty
<1>11. CASE WriteValue
  BY <1>11 DEF WriteValue
<1>12. CASE StoreReady
  BY <1>12 DEF StoreReady
<1>13. CASE StoreIndex
  BY <1>13 DEF StoreIndex
<1>14. CASE Take
  BY <1>14 DEF Take
<1>15. CASE RejectTaken
  BY <1>15 DEF RejectTaken
<1>16. CASE Activate
  BY <1>16 DEF Activate
<1>17. CASE RetirePrevious
  BY <1>17 DEF RetirePrevious
<1>18. CASE ClearActive
  BY <1>18 DEF ClearActive
<1> QED
  BY <1>1, <1>2, <1>3, <1>4, <1>5, <1>6, <1>7, <1>8, <1>9, <1>10, <1>11, <1>12, <1>13, <1>14, <1>15, <1>16, <1>17, <1>18 DEF Next, Producer, Consumer

(* Each slot's state follows its owner.                                    *)
LEMMA OwnerStep ==
  ASSUME TypeOK, CallInv, OwnerInv, [Next]_vars
  PROVE  OwnerInv'
<1> USE DEF TypeOK, Slots, kNone, slotVars, producerVars, consumerVars, CallInv, OwnerInv
<1>1. CASE UNCHANGED vars
  BY <1>1 DEF vars
<1>2. ASSUME NEW call \in {"publish", "replace"}, CallPublish(call) PROVE OwnerInv'
  BY <1>2 DEF CallPublish
<1>3. CASE CallReclaim
  BY <1>3 DEF CallReclaim
<1>4. CASE TakeBack
  BY <1>4 DEF TakeBack
<1>5. CASE RetireTakenBack
  BY <1>5 DEF RetireTakenBack
<1>6. CASE CheckReady
  BY <1>6 DEF CheckReady
<1>7. CASE ReclaimLook
  BY <1>7 DEF ReclaimLook
<1>8. CASE ReclaimReset
  BY <1>8 DEF ReclaimReset
<1>9. CASE ReclaimEmpty
  BY <1>9 DEF ReclaimEmpty
<1>10. CASE FindEmpty
  BY <1>10 DEF FindEmpty
<1>11. CASE WriteValue
  BY <1>11 DEF WriteValue
<1>12. CASE StoreReady
  BY <1>12 DEF StoreReady
<1>13. CASE StoreIndex
  BY <1>13 DEF StoreIndex
<1>14. CASE Take
  BY <1>14 DEF Take
<1>15. CASE RejectTaken
  BY <1>15 DEF RejectTaken
<1>16. CASE Activate
  BY <1>16 DEF Activate
<1>17. CASE RetirePrevious
  BY <1>17 DEF RetirePrevious
<1>18. CASE ClearActive
  BY <1>18 DEF ClearActive
<1> QED
  BY <1>1, <1>2, <1>3, <1>4, <1>5, <1>6, <1>7, <1>8, <1>9, <1>10, <1>11, <1>12, <1>13, <1>14, <1>15, <1>16, <1>17, <1>18 DEF Next, Producer, Consumer

(* A slot is free when the call starts to look, and stays free.            *)
LEMMA FreeStep ==
  ASSUME TypeOK, CallInv, OwnerInv, FreeInv, [Next]_vars
  PROVE  FreeInv'
<1> USE DEF TypeOK, Slots, kNone, slotVars, producerVars, consumerVars, CallInv, OwnerInv, FreeInv
<1>1. CASE UNCHANGED vars
  BY <1>1 DEF vars
<1>2. ASSUME NEW call \in {"publish", "replace"}, CallPublish(call) PROVE FreeInv'
  BY <1>2 DEF CallPublish
<1>3. CASE CallReclaim
  BY <1>3 DEF CallReclaim
<1>4. CASE TakeBack
  BY <1>4 DEF TakeBack
<1>5. CASE RetireTakenBack
  BY <1>5 DEF RetireTakenBack
<1>6. CASE CheckReady
  BY <1>6 DEF CheckReady
<1>7. CASE ReclaimLook
  BY <1>7 DEF ReclaimLook
<1>8. CASE ReclaimReset
  BY <1>8 DEF ReclaimReset
<1>9. CASE ReclaimEmpty
  BY <1>9 DEF ReclaimEmpty
<1>10. CASE FindEmpty
  BY <1>10 DEF FindEmpty
<1>11. CASE WriteValue
  BY <1>11 DEF WriteValue
<1>12. CASE StoreReady
  BY <1>12 DEF StoreReady
<1>13. CASE StoreIndex
  BY <1>13 DEF StoreIndex
<1>14. CASE Take
  BY <1>14 DEF Take
<1>15. CASE RejectTaken
  BY <1>15 DEF RejectTaken
<1>16. CASE Activate
  BY <1>16 DEF Activate
<1>17. CASE RetirePrevious
  BY <1>17 DEF RetirePrevious
<1>18. CASE ClearActive
  BY <1>18 DEF ClearActive
<1> QED
  BY <1>1, <1>2, <1>3, <1>4, <1>5, <1>6, <1>7, <1>8, <1>9, <1>10, <1>11, <1>12, <1>13, <1>14, <1>15, <1>16, <1>17, <1>18 DEF Next, Producer, Consumer

(* A value is written before its slot is ready, and dropped after it was   *)
(* retired.                                                                *)
LEMMA ValueStep ==
  ASSUME TypeOK, CallInv, OwnerInv, ValueInv, [Next]_vars
  PROVE  ValueInv'
<1> USE DEF TypeOK, Slots, kNone, slotVars, producerVars, consumerVars, CallInv, OwnerInv, ValueInv
<1>1. CASE UNCHANGED vars
  BY <1>1 DEF vars
<1>2. ASSUME NEW call \in {"publish", "replace"}, CallPublish(call) PROVE ValueInv'
  BY <1>2 DEF CallPublish
<1>3. CASE CallReclaim
  BY <1>3 DEF CallReclaim
<1>4. CASE TakeBack
  BY <1>4 DEF TakeBack
<1>5. CASE RetireTakenBack
  BY <1>5 DEF RetireTakenBack
<1>6. CASE CheckReady
  BY <1>6 DEF CheckReady
<1>7. CASE ReclaimLook
  BY <1>7 DEF ReclaimLook
<1>8. CASE ReclaimReset
  BY <1>8 DEF ReclaimReset
<1>9. CASE ReclaimEmpty
  BY <1>9 DEF ReclaimEmpty
<1>10. CASE FindEmpty
  BY <1>10 DEF FindEmpty
<1>11. CASE WriteValue
  BY <1>11 DEF WriteValue
<1>12. CASE StoreReady
  BY <1>12 DEF StoreReady
<1>13. CASE StoreIndex
  BY <1>13 DEF StoreIndex
<1>14. CASE Take
  BY <1>14 DEF Take
<1>15. CASE RejectTaken
  BY <1>15 DEF RejectTaken
<1>16. CASE Activate
  BY <1>16 DEF Activate
<1>17. CASE RetirePrevious
  BY <1>17 DEF RetirePrevious
<1>18. CASE ClearActive
  BY <1>18 DEF ClearActive
<1> QED
  BY <1>1, <1>2, <1>3, <1>4, <1>5, <1>6, <1>7, <1>8, <1>9, <1>10, <1>11, <1>12, <1>13, <1>14, <1>15, <1>16, <1>17, <1>18 DEF Next, Producer, Consumer

-----------------------------------------------------------------------------
(* The invariant holds for a new exchange, and every step of the           *)
(* coordinator and of the frame owner preserves it.                        *)
THEOREM InvariantHolds == Spec => []IInv
<1>1. Init => IInv
  BY DEF Init, IInv, TypeOK, CallInv, OwnerInv, FreeInv, ValueInv, Slots, kNone
<1>2. IInv /\ [Next]_vars => IInv'
  BY TypeStep, CallStep, OwnerStep, FreeStep, ValueStep DEF IInv
<1> QED
  BY <1>1, <1>2, PTL DEF Spec

(* WritePublication and ReclaimRetired touch a slot's shared_ptr only      *)
(* while the frame owner cannot reach that slot.                           *)
THEOREM SlotAccessIsExclusive == Spec => []NoDataRace
<1>1. IInv => NoDataRace
  BY DEF IInv, TypeOK, CallInv, OwnerInv, NoDataRace, Slots, kNone
<1> QED
  BY <1>1, InvariantHolds, PTL

(* TryReplace finds a slot whatever the frame owner is in the middle of.   *)
THEOREM ReplaceFindsASlot == Spec => []ReplaceAlwaysPublishes
<1>1. IInv => ReplaceAlwaysPublishes
  BY DEF IInv, TypeOK, CallInv, FreeInv, ReplaceAlwaysPublishes, Slots, kNone
<1> QED
  BY <1>1, InvariantHolds, PTL

(* Every step is one of the mailbox, or leaves what it stands for alone:   *)
(* StoreIndex offers, the two exchanges take the offer, the acceptance     *)
(* activates or drops it, and the writes to the slots are not seen.        *)
LEMMA MailboxStep ==
  ASSUME IInv, [Next]_vars
  PROVE  [Mailbox!Next]_(Mailbox!vars)
<1> USE DEF IInv, TypeOK, CallInv, OwnerInv, ValueInv, Slots, kNone, In, slotVars, producerVars, consumerVars, Mailbox!vars
<1>1. CASE UNCHANGED vars
  BY <1>1 DEF vars
<1>2. ASSUME NEW call \in {"publish", "replace"}, CallPublish(call) PROVE UNCHANGED Mailbox!vars
  BY <1>2 DEF CallPublish
<1>3. ASSUME CallReclaim PROVE UNCHANGED Mailbox!vars
  BY <1>3 DEF CallReclaim
<1>4. CASE TakeBack
  <2>1. CASE ready = kNone
    BY <1>4, <2>1 DEF TakeBack
  <2>2. CASE ready # kNone
    BY <1>4, <2>2 DEF TakeBack, Mailbox!Next, Mailbox!TakeBack
  <2> QED
    BY <2>1, <2>2
<1>5. ASSUME RetireTakenBack PROVE UNCHANGED Mailbox!vars
  BY <1>5 DEF RetireTakenBack
<1>6. ASSUME CheckReady PROVE UNCHANGED Mailbox!vars
  BY <1>6 DEF CheckReady
<1>7. ASSUME ReclaimLook PROVE UNCHANGED Mailbox!vars
  BY <1>7 DEF ReclaimLook
<1>8. ASSUME ReclaimReset PROVE UNCHANGED Mailbox!vars
  BY <1>8 DEF ReclaimReset
<1>9. ASSUME ReclaimEmpty PROVE UNCHANGED Mailbox!vars
  BY <1>9 DEF ReclaimEmpty
<1>10. ASSUME FindEmpty PROVE UNCHANGED Mailbox!vars
  BY <1>10 DEF FindEmpty
<1>11. ASSUME WriteValue PROVE UNCHANGED Mailbox!vars
  BY <1>11 DEF WriteValue
<1>12. ASSUME StoreReady PROVE UNCHANGED Mailbox!vars
  BY <1>12 DEF StoreReady
<1>13. ASSUME StoreIndex PROVE Mailbox!Offer
  BY <1>13 DEF StoreIndex, Mailbox!Offer
<1>14. ASSUME Take PROVE Mailbox!Take
  BY <1>14 DEF Take, Mailbox!Take
<1>15. ASSUME RejectTaken PROVE Mailbox!Drop
  BY <1>15 DEF RejectTaken, Mailbox!Drop
<1>16. ASSUME Activate PROVE Mailbox!Activate
  BY <1>16 DEF Activate, Mailbox!Activate
<1>17. ASSUME RetirePrevious PROVE UNCHANGED Mailbox!vars
  BY <1>17 DEF RetirePrevious
<1>18. ASSUME ClearActive PROVE Mailbox!Clear
  BY <1>18 DEF ClearActive, Mailbox!Clear
<1> QED
  BY <1>1, <1>2, <1>3, <1>4, <1>5, <1>6, <1>7, <1>8, <1>9, <1>10, <1>11, <1>12, <1>13, <1>14, <1>15, <1>16, <1>17, <1>18 DEF Next, Producer, Consumer, Mailbox!Next

(* The exchange is a mailbox of complete successors: each frame's revision *)
(* stays the one that was activated, a successor is either selected or     *)
(* taken back, and offers are ever newer.                                  *)
THEOREM ExchangeIsAMailbox == Spec => ImplementsMailbox
<1>1. Init => Mailbox!Init
  BY DEF Init, Mailbox!Init, In, kNone
<1>2. IInv /\ [Next]_vars => [Mailbox!Next]_(Mailbox!vars)
  BY MailboxStep
<1> QED
  BY <1>1, <1>2, InvariantHolds, PTL DEF Spec, ImplementsMailbox, Mailbox!Spec

-----------------------------------------------------------------------------
(***************************************************************************)
(* Then RetirementClock.  Its inductive invariant adds to the properties:  *)
(*   - PlaceInv: a subscription that still waits is in one place, on the   *)
(*     stack or with one thread that took it off, and did not run;         *)
(*   - ClockInv: what ran was reached, and RunReached read no future point;*)
(*   - GuardInv: a reached waiter on the stack has a thread that is about  *)
(*     to take the stack, or that will see it reached in its recheck.      *)
(***************************************************************************)
\* The waiters a thread keeps off the stack: a recheck still names those it
\* has just pushed, and no longer owns them.
Carried(t) ==
  IF at[t] \in {"push", "pushKept", "read", "walk"} THEN mine[t] ELSE {}

Waits(w) == point[w] # NoPoint /\ ran[w] = 0

PlaceInv ==
  /\ \A w \in stack : Waits(w)
  /\ \A t \in ClockThreads : Carried(t) \cap stack = {} /\ \A w \in Carried(t) : Waits(w)
  /\ \A t, u \in ClockThreads : t # u => Carried(t) \cap Carried(u) = {}
  /\ \A t \in ClockThreads : \A w \in mine[t] : point[w] # NoPoint
  /\ \A w \in Waiters : point[w] = NoPoint => ran[w] = 0

ClockInv ==
  /\ \A w \in Waiters : ran[w] <= 1 /\ (ran[w] = 1 => completed >= point[w])
  /\ \A t \in ClockThreads : observed[t] <= completed

WillLook(t) ==
  \/ at[t] = "take"
  \/ at[t] = "recheck" /\ \E v \in mine[t] : Reached(point[v])

GuardInv ==
  \A w \in stack : Reached(point[w]) => \E t \in ClockThreads : WillLook(t)

ClockIInv == ClockTypeOK /\ PlaceInv /\ ClockInv /\ GuardInv

(* Every action keeps the variables in their types.                        *)
LEMMA ClockTypeStep ==
  ASSUME ClockTypeOK, [ClockNext]_clockVars
  PROVE  ClockTypeOK'
<1> USE ClockAssumption DEF ClockTypeOK, Points, NoPoint, MoveTo, Wake
<1>1. CASE UNCHANGED clockVars
  BY <1>1 DEF clockVars
<1>2. ASSUME NEW t \in ClockThreads, Push(t) PROVE ClockTypeOK'
  BY <1>2 DEF Push
<1>3. ASSUME NEW t \in ClockThreads, Recheck(t) PROVE ClockTypeOK'
  BY <1>3 DEF Recheck
<1>4. ASSUME NEW t \in ClockThreads, TakeList(t) PROVE ClockTypeOK'
  BY <1>4 DEF TakeList
<1>5. ASSUME NEW t \in ClockThreads, ReadCompleted(t) PROVE ClockTypeOK'
  BY <1>5 DEF ReadCompleted
<1>6. ASSUME NEW t \in ClockThreads, NEW w \in Waiters, WakeOne(t, w) PROVE ClockTypeOK'
  BY <1>6 DEF WakeOne
<1>7. ASSUME NEW t \in ClockThreads, KeepRest(t) PROVE ClockTypeOK'
  BY <1>7 DEF KeepRest
<1>8. ASSUME NEW t \in ClockThreads, NEW p \in Points, Advance(t, p) PROVE ClockTypeOK'
  BY <1>8 DEF Advance
<1>9. ASSUME NEW t \in ClockThreads, NEW w \in Waiters, NEW p \in Points, Subscribe(t, w, p)
      PROVE  ClockTypeOK'
  BY <1>9 DEF Subscribe
<1> QED
  BY <1>1, <1>2, <1>3, <1>4, <1>5, <1>6, <1>7, <1>8, <1>9 DEF ClockNext, Step

(* The exchange of m_waiters moves the stack to one thread; a push returns *)
(* what that thread kept; a wake runs what it took out.                    *)
LEMMA PlaceStep ==
  ASSUME ClockTypeOK, PlaceInv, [ClockNext]_clockVars
  PROVE  PlaceInv'
<1> USE DEF ClockTypeOK, PlaceInv, Carried, Waits, Points, NoPoint, MoveTo, Wake
<1>1. CASE UNCHANGED clockVars
  BY <1>1 DEF clockVars
<1>2. ASSUME NEW t \in ClockThreads, Push(t) PROVE PlaceInv'
  BY <1>2 DEF Push
<1>3. ASSUME NEW t \in ClockThreads, Recheck(t) PROVE PlaceInv'
  BY <1>3 DEF Recheck
<1>4. ASSUME NEW t \in ClockThreads, TakeList(t) PROVE PlaceInv'
  BY <1>4 DEF TakeList
<1>5. ASSUME NEW t \in ClockThreads, ReadCompleted(t) PROVE PlaceInv'
  BY <1>5 DEF ReadCompleted
<1>6. ASSUME NEW t \in ClockThreads, NEW w \in Waiters, WakeOne(t, w) PROVE PlaceInv'
  BY <1>6 DEF WakeOne
<1>7. ASSUME NEW t \in ClockThreads, KeepRest(t) PROVE PlaceInv'
  BY <1>7 DEF KeepRest
<1>8. ASSUME NEW t \in ClockThreads, NEW p \in Points, Advance(t, p) PROVE PlaceInv'
  BY <1>8 DEF Advance
<1>9. ASSUME NEW t \in ClockThreads, NEW w \in Waiters, NEW p \in Points, Subscribe(t, w, p)
      PROVE  PlaceInv'
  BY <1>9 DEF Subscribe
<1> QED
  BY <1>1, <1>2, <1>3, <1>4, <1>5, <1>6, <1>7, <1>8, <1>9 DEF ClockNext, Step

(* The clock only rises, so what RunReached read stays reached.            *)
LEMMA ClockStep ==
  ASSUME ClockTypeOK, PlaceInv, ClockInv, [ClockNext]_clockVars
  PROVE  ClockInv'
<1> USE ClockAssumption DEF ClockTypeOK, ClockInv, Points, NoPoint, MoveTo, Wake, Reached
<1>1. CASE UNCHANGED clockVars
  BY <1>1 DEF clockVars
<1>2. ASSUME NEW t \in ClockThreads, Push(t) \/ Recheck(t) \/ TakeList(t) \/ KeepRest(t)
      PROVE  ClockInv'
  BY <1>2 DEF Push, Recheck, TakeList, KeepRest
<1>3. ASSUME NEW t \in ClockThreads, ReadCompleted(t) PROVE ClockInv'
  BY <1>3 DEF ReadCompleted
<1>4. ASSUME NEW t \in ClockThreads, NEW w \in Waiters, WakeOne(t, w) PROVE ClockInv'
  <2>1. ran[w] = 0
    BY <1>4 DEF WakeOne, PlaceInv, Carried, Waits
  <2> QED
    BY <1>4, <2>1 DEF WakeOne
<1>5. ASSUME NEW t \in ClockThreads, NEW p \in Points, Advance(t, p) PROVE ClockInv'
  BY <1>5 DEF Advance
<1>6. ASSUME NEW t \in ClockThreads, NEW w \in Waiters, NEW p \in Points, Subscribe(t, w, p)
      PROVE  ClockInv'
  <2>1. ran[w] = 0
    BY <1>6 DEF Subscribe, PlaceInv
  <2> QED
    BY <1>6, <2>1 DEF Subscribe
<1> QED
  BY <1>1, <1>2, <1>3, <1>4, <1>5, <1>6 DEF ClockNext, Step

(* The look at the clock after each push closes the race with an Advance   *)
(* that found the stack without the waiter.                                *)
LEMMA GuardStep ==
  ASSUME ClockTypeOK, PlaceInv, GuardInv, [ClockNext]_clockVars
  PROVE  GuardInv'
<1> USE ClockAssumption DEF ClockTypeOK, GuardInv, WillLook, Points, NoPoint, MoveTo, Wake, Reached
<1>1. CASE UNCHANGED clockVars
  BY <1>1 DEF clockVars
<1>2. ASSUME NEW t \in ClockThreads, Push(t) PROVE GuardInv'
  BY <1>2 DEF Push
<1>3. ASSUME NEW t \in ClockThreads, Recheck(t) PROVE GuardInv'
  BY <1>3 DEF Recheck
<1>4. ASSUME NEW t \in ClockThreads, TakeList(t) PROVE GuardInv'
  BY <1>4 DEF TakeList
<1>5. ASSUME NEW t \in ClockThreads, ReadCompleted(t) PROVE GuardInv'
  BY <1>5 DEF ReadCompleted
<1>6. ASSUME NEW t \in ClockThreads, NEW w \in Waiters, WakeOne(t, w) PROVE GuardInv'
  BY <1>6 DEF WakeOne
<1>7. ASSUME NEW t \in ClockThreads, KeepRest(t) PROVE GuardInv'
  BY <1>7 DEF KeepRest
<1>8. ASSUME NEW t \in ClockThreads, NEW p \in Points, Advance(t, p) PROVE GuardInv'
  BY <1>8 DEF Advance
<1>9. ASSUME NEW t \in ClockThreads, NEW w \in Waiters, NEW p \in Points, Subscribe(t, w, p)
      PROVE  GuardInv'
  BY <1>9 DEF Subscribe, PlaceInv, Waits
<1> QED
  BY <1>1, <1>2, <1>3, <1>4, <1>5, <1>6, <1>7, <1>8, <1>9 DEF ClockNext, Step

(* The invariant holds for a new clock, and every step of every thread     *)
(* preserves it.                                                           *)
THEOREM ClockInvariantHolds == ClockSpec => []ClockIInv
<1>1. ClockInit => ClockIInv
  BY ClockAssumption DEF ClockInit, ClockIInv, ClockTypeOK, PlaceInv, Carried, ClockInv, GuardInv, NoPoint
<1>2. ClockIInv /\ [ClockNext]_clockVars => ClockIInv'
  BY ClockTypeStep, PlaceStep, ClockStep, GuardStep DEF ClockIInv
<1> QED
  BY <1>1, <1>2, PTL DEF ClockSpec

(* Whichever of the threads that race in Advance, Subscribe and RunReached *)
(* takes a subscription, its wake runs once at most, and not early.        *)
THEOREM WakesRunOnce == ClockSpec => []RunsOnceWhenReached
<1>1. ClockIInv => RunsOnceWhenReached
  BY DEF ClockIInv, ClockInv, RunsOnceWhenReached
<1> QED
  BY <1>1, ClockInvariantHolds, PTL

(* When every call of Advance and Subscribe has returned, no reached       *)
(* waiter is left on the stack.                                            *)
THEOREM NobodyIsStranded == ClockSpec => []NoneStranded
<1>1. ClockIInv => NoneStranded
  BY DEF ClockIInv, GuardInv, WillLook, NoneStranded
<1> QED
  BY <1>1, ClockInvariantHolds, PTL

-----------------------------------------------------------------------------
(***************************************************************************)
(* Last, SerializedTaskPump.  Its inductive invariant adds to the          *)
(* properties what the atomic word and the generation counter maintain:    *)
(*   - RoleInv: the consumer role and the state in the word agree;         *)
(*   - EpochInv: what a pass has observed bounds what is still pending;    *)
(*   - GenerationInv: one carrier at most settles each delayed arm.        *)
(***************************************************************************)
RoleInv ==
  /\ \A t \in Threads : Consuming(t) => consumer \in {"Running", "Stopping"}
  /\ \A t, u \in Threads : Consuming(t) /\ Consuming(u) => t = u
  /\ \A t \in Threads : pc[t] = "stopping" => consumer = "Stopping"

EpochInv ==
  /\ drainedEpoch <= epoch
  /\ \A e \in pending : drainedEpoch < e /\ e <= epoch
  /\ \A t \in Threads : observedEpoch[t] <= epoch
  /\ \A t \in Threads : pc[t] = "drained" => \A e \in pending : e > observedEpoch[t]
  /\ consumer = "Idle" => drainedEpoch = epoch

GenerationInv ==
  /\ \A g \in timers : g <= delayedGeneration
  /\ \A t \in Threads : generation[t] <= delayedGeneration
  /\ \A t \in Threads : pc[t] \in {"arming", "disarm"} => generation[t] \notin timers
  /\ \A t, u \in Threads :
       /\ pc[t] \in {"arming", "disarm"} /\ pc[u] \in {"arming", "disarm"}
       /\ generation[t] = generation[u]
       => t = u

PumpIInv == PumpTypeOK /\ RoleInv /\ EpochInv /\ GenerationInv /\ DelayArmedExactly

(* Every action keeps the variables in their types.                        *)
LEMMA PumpTypeStep ==
  ASSUME PumpTypeOK, [PumpNext]_pumpVars
  PROVE  PumpTypeOK'
<1> USE PumpAssumption DEF PumpTypeOK, States, PCs, Threads, NoDue, word, delayed, locals, Goto
<1>1. CASE UNCHANGED pumpVars
  BY <1>1 DEF pumpVars
<1>2. ASSUME NEW t \in Threads, PumpStep(t) \/ Call(t)
      PROVE  PumpTypeOK'
  <2>1. CASE Notify(t)
    <3>1. CASE consumer = "Stopping"
      BY <2>1, <3>1 DEF Notify
    <3>2. CASE consumer = "Idle"
      <4>1. /\ consumer' = "Scheduled"
            /\ epoch' = epoch + 1
            /\ pending' = pending \cup {epoch + 1}
            /\ pc' = [pc EXCEPT ![t] = "submit"]
        BY <2>1, <3>2 DEF Notify
      <4> QED
        BY <2>1, <4>1 DEF Notify
    <3>3. CASE consumer \in {"Scheduled", "Running"}
      <4>1. /\ consumer' = consumer
            /\ epoch' = epoch + 1
            /\ pending' = pending \cup {epoch + 1}
            /\ pc' = [pc EXCEPT ![t] = "idle"]
        BY <2>1, <3>3 DEF Notify
      <4> QED
        BY <2>1, <3>3, <4>1 DEF Notify
    <3> QED
      BY <3>1, <3>2, <3>3 DEF States
  <2>2. CASE SubmitAccepted(t)
    BY <2>2 DEF SubmitAccepted
  <2>3. CASE SubmitRefused(t)
    BY <2>3 DEF Fail, SubmitRefused
  <2>4. CASE Reject(t)
    BY <2>4 DEF Reject
  <2>5. CASE TryRunInline(t)
    BY <2>5 DEF TryRunInline
  <2>6. CASE Run(t)
    BY <2>6 DEF Run
  <2>7. CASE BeginPass(t)
    BY <2>7 DEF BeginPass
  <2>8. CASE Drain(t)
    BY <2>8 DEF Drain
  <2>9. CASE DrainThrows(t)
    BY <2>9 DEF Fail, DrainThrows
  <2>10. CASE FinishPass(t)
    BY <2>10 DEF FinishPass
  <2>11. ASSUME NEW due \in Dues, NotifyAfter(t, due) PROVE PumpTypeOK'
    BY <2>11 DEF NotifyAfter
  <2>12. CASE DelayAccepted(t)
    BY <2>12 DEF DelayAccepted
  <2>13. CASE DelayRefused(t)
    BY <2>13 DEF DelayRefused
  <2>14. CASE Disarm(t)
    BY <2>14 DEF Disarm
  <2>15. ASSUME NEW g \in timers, FireDelayed(t, g) PROVE PumpTypeOK'
    BY <2>15 DEF FireDelayed
  <2>16. CASE Stop(t)
    BY <2>16 DEF Stop
  <2>17. CASE StopDelayed(t)
    BY <2>17 DEF StopDelayed
  <2> QED
    BY <1>2, <2>1, <2>2, <2>3, <2>4, <2>5, <2>6, <2>7, <2>8, <2>9, <2>10, <2>11, <2>12, <2>13, <2>14, <2>15, <2>16, <2>17 DEF PumpStep, Call
<1> QED
  BY <1>1, <1>2 DEF PumpNext

(* The role moves only by the exchanges of Run, TryRunInline and RunOwned. *)
LEMMA RoleStep ==
  ASSUME PumpTypeOK, RoleInv, [PumpNext]_pumpVars
  PROVE  RoleInv'
<1> USE PumpAssumption DEF PumpTypeOK, States, PCs, RoleInv, Consuming, word, delayed, locals, Goto
<1>1. CASE UNCHANGED pumpVars
  BY <1>1 DEF pumpVars
<1>2. ASSUME NEW t \in Threads, PumpStep(t) \/ Call(t)
      PROVE  RoleInv'
  <2>1. CASE Notify(t)
    BY <2>1 DEF Notify
  <2>2. CASE SubmitAccepted(t)
    BY <2>2 DEF SubmitAccepted
  <2>3. CASE SubmitRefused(t)
    BY <2>3 DEF Fail, SubmitRefused
  <2>4. CASE Reject(t)
    BY <2>4 DEF Reject
  <2>5. CASE TryRunInline(t)
    BY <2>5 DEF TryRunInline
  <2>6. CASE Run(t)
    BY <2>6 DEF Run
  <2>7. CASE BeginPass(t)
    BY <2>7 DEF BeginPass
  <2>8. CASE Drain(t)
    BY <2>8 DEF Drain
  <2>9. CASE DrainThrows(t)
    BY <2>9 DEF Fail, DrainThrows
  <2>10. CASE FinishPass(t)
    BY <2>10 DEF FinishPass
  <2>11. ASSUME NEW due \in Dues, NotifyAfter(t, due) PROVE RoleInv'
    BY <2>11 DEF NotifyAfter
  <2>12. CASE DelayAccepted(t)
    BY <2>12 DEF DelayAccepted
  <2>13. CASE DelayRefused(t)
    BY <2>13 DEF DelayRefused
  <2>14. CASE Disarm(t)
    BY <2>14 DEF Disarm
  <2>15. ASSUME NEW g \in timers, FireDelayed(t, g) PROVE RoleInv'
    BY <2>15 DEF FireDelayed
  <2>16. CASE Stop(t)
    BY <2>16 DEF Stop
  <2>17. CASE StopDelayed(t)
    BY <2>17 DEF StopDelayed
  <2> QED
    BY <1>2, <2>1, <2>2, <2>3, <2>4, <2>5, <2>6, <2>7, <2>8, <2>9, <2>10, <2>11, <2>12, <2>13, <2>14, <2>15, <2>16, <2>17 DEF PumpStep, Call
<1> QED
  BY <1>1, <1>2 DEF PumpNext

(* The epochs: an exit to Idle proves that no request is left.             *)
LEMMA EpochStep ==
  ASSUME PumpTypeOK, RoleInv, EpochInv, [PumpNext]_pumpVars
  PROVE  EpochInv'
<1> USE PumpAssumption DEF PumpTypeOK, RoleInv, EpochInv, Consuming, word, delayed, locals, Goto
<1>1. CASE UNCHANGED pumpVars
  BY <1>1 DEF pumpVars
<1>2. ASSUME NEW t \in Threads, PumpStep(t) \/ Call(t)
      PROVE  EpochInv'
  <2>1. CASE Notify(t)
    <3>1. CASE consumer = "Stopping"
      BY <2>1, <3>1 DEF Notify
    <3>2. CASE consumer = "Idle"
      <4>1. /\ consumer' = "Scheduled"
            /\ epoch' = epoch + 1
            /\ pending' = pending \cup {epoch + 1}
            /\ pc' = [pc EXCEPT ![t] = "submit"]
        BY <2>1, <3>2 DEF Notify
      <4> QED
        BY <2>1, <4>1 DEF Notify
    <3>3. CASE consumer \in {"Scheduled", "Running"}
      <4>1. /\ consumer' = consumer
            /\ epoch' = epoch + 1
            /\ pending' = pending \cup {epoch + 1}
            /\ pc' = [pc EXCEPT ![t] = "idle"]
        BY <2>1, <3>3 DEF Notify
      <4> QED
        BY <2>1, <3>3, <4>1 DEF Notify
    <3> QED
      BY <3>1, <3>2, <3>3 DEF States
  <2>2. CASE SubmitAccepted(t)
    BY <2>2 DEF SubmitAccepted
  <2>3. CASE SubmitRefused(t)
    BY <2>3 DEF Fail, SubmitRefused
  <2>4. CASE Reject(t)
    BY <2>4 DEF Reject
  <2>5. CASE TryRunInline(t)
    BY <2>5 DEF TryRunInline
  <2>6. CASE Run(t)
    BY <2>6 DEF Run
  <2>7. CASE BeginPass(t)
    BY <2>7 DEF BeginPass
  <2>8. CASE Drain(t)
    BY <2>8 DEF Drain
  <2>9. CASE DrainThrows(t)
    BY <2>9 DEF Fail, DrainThrows
  <2>10. CASE FinishPass(t)
    BY <2>10 DEF FinishPass
  <2>11. ASSUME NEW due \in Dues, NotifyAfter(t, due) PROVE EpochInv'
    BY <2>11 DEF NotifyAfter
  <2>12. CASE DelayAccepted(t)
    BY <2>12 DEF DelayAccepted
  <2>13. CASE DelayRefused(t)
    BY <2>13 DEF DelayRefused
  <2>14. CASE Disarm(t)
    BY <2>14 DEF Disarm
  <2>15. ASSUME NEW g \in timers, FireDelayed(t, g) PROVE EpochInv'
    BY <2>15 DEF FireDelayed
  <2>16. CASE Stop(t)
    BY <2>16 DEF Stop
  <2>17. CASE StopDelayed(t)
    BY <2>17 DEF StopDelayed
  <2> QED
    BY <1>2, <2>1, <2>2, <2>3, <2>4, <2>5, <2>6, <2>7, <2>8, <2>9, <2>10, <2>11, <2>12, <2>13, <2>14, <2>15, <2>16, <2>17 DEF PumpStep, Call
<1> QED
  BY <1>1, <1>2 DEF PumpNext

(* Each arm has one carrier: its caller, then its timer.                   *)
LEMMA GenerationStep ==
  ASSUME PumpTypeOK, GenerationInv, [PumpNext]_pumpVars
  PROVE  GenerationInv'
<1> USE PumpAssumption DEF PumpTypeOK, GenerationInv, word, delayed, locals, Goto
<1>1. CASE UNCHANGED pumpVars
  BY <1>1 DEF pumpVars
<1>2. ASSUME NEW t \in Threads, PumpStep(t) \/ Call(t)
      PROVE  GenerationInv'
  <2>1. CASE Notify(t)
    BY <2>1 DEF Notify
  <2>2. CASE SubmitAccepted(t)
    BY <2>2 DEF SubmitAccepted
  <2>3. CASE SubmitRefused(t)
    BY <2>3 DEF Fail, SubmitRefused
  <2>4. CASE Reject(t)
    BY <2>4 DEF Reject
  <2>5. CASE TryRunInline(t)
    BY <2>5 DEF TryRunInline
  <2>6. CASE Run(t)
    BY <2>6 DEF Run
  <2>7. CASE BeginPass(t)
    BY <2>7 DEF BeginPass
  <2>8. CASE Drain(t)
    BY <2>8 DEF Drain
  <2>9. CASE DrainThrows(t)
    BY <2>9 DEF Fail, DrainThrows
  <2>10. CASE FinishPass(t)
    BY <2>10 DEF FinishPass
  <2>11. ASSUME NEW due \in Dues, NotifyAfter(t, due) PROVE GenerationInv'
    BY <2>11 DEF NotifyAfter
  <2>12. CASE DelayAccepted(t)
    BY <2>12 DEF DelayAccepted
  <2>13. CASE DelayRefused(t)
    BY <2>13 DEF DelayRefused
  <2>14. CASE Disarm(t)
    BY <2>14 DEF Disarm
  <2>15. ASSUME NEW g \in timers, FireDelayed(t, g) PROVE GenerationInv'
    BY <2>15 DEF FireDelayed
  <2>16. CASE Stop(t)
    BY <2>16 DEF Stop
  <2>17. CASE StopDelayed(t)
    BY <2>17 DEF StopDelayed
  <2> QED
    BY <1>2, <2>1, <2>2, <2>3, <2>4, <2>5, <2>6, <2>7, <2>8, <2>9, <2>10, <2>11, <2>12, <2>13, <2>14, <2>15, <2>16, <2>17 DEF PumpStep, Call
<1> QED
  BY <1>1, <1>2 DEF PumpNext

(* A deadline is armed exactly while its carrier exists.                   *)
LEMMA DelayStep ==
  ASSUME PumpTypeOK, RoleInv, GenerationInv, DelayArmedExactly, [PumpNext]_pumpVars
  PROVE  DelayArmedExactly'
<1> USE PumpAssumption DEF PumpTypeOK, RoleInv, GenerationInv, DelayArmedExactly, Carries, NoDue, word, delayed, locals, Goto
<1>1. CASE UNCHANGED pumpVars
  BY <1>1 DEF pumpVars
<1>2. ASSUME NEW t \in Threads, PumpStep(t) \/ Call(t)
      PROVE  DelayArmedExactly'
  <2>1. CASE Notify(t)
    BY <2>1 DEF Notify
  <2>2. CASE SubmitAccepted(t)
    BY <2>2 DEF SubmitAccepted
  <2>3. CASE SubmitRefused(t)
    BY <2>3 DEF Fail, SubmitRefused
  <2>4. CASE Reject(t)
    BY <2>4 DEF Reject
  <2>5. CASE TryRunInline(t)
    BY <2>5 DEF TryRunInline
  <2>6. CASE Run(t)
    BY <2>6 DEF Run
  <2>7. CASE BeginPass(t)
    BY <2>7 DEF BeginPass
  <2>8. CASE Drain(t)
    BY <2>8 DEF Drain
  <2>9. CASE DrainThrows(t)
    BY <2>9 DEF Fail, DrainThrows
  <2>10. CASE FinishPass(t)
    BY <2>10 DEF FinishPass
  <2>11. ASSUME NEW due \in Dues, NotifyAfter(t, due) PROVE DelayArmedExactly'
    BY <2>11 DEF NotifyAfter
  <2>12. CASE DelayAccepted(t)
    BY <2>12 DEF DelayAccepted
  <2>13. CASE DelayRefused(t)
    BY <2>13 DEF DelayRefused
  <2>14. CASE Disarm(t)
    BY <2>14 DEF Disarm
  <2>15. ASSUME NEW g \in timers, FireDelayed(t, g) PROVE DelayArmedExactly'
    BY <2>15 DEF FireDelayed
  <2>16. CASE Stop(t)
    BY <2>16 DEF Stop
  <2>17. CASE StopDelayed(t)
    BY <2>17 DEF StopDelayed
  <2> QED
    BY <1>2, <2>1, <2>2, <2>3, <2>4, <2>5, <2>6, <2>7, <2>8, <2>9, <2>10, <2>11, <2>12, <2>13, <2>14, <2>15, <2>16, <2>17 DEF PumpStep, Call
<1> QED
  BY <1>1, <1>2 DEF PumpNext

(* The invariant holds as Configure leaves the pump, and every step of     *)
(* every thread preserves it.                                              *)
THEOREM PumpInvariantHolds == PumpSpec => []PumpIInv
<1>1. PumpInit => PumpIInv
  <2> SUFFICES ASSUME PumpInit PROVE PumpIInv
    OBVIOUS
  <2>1. PumpTypeOK
    BY PumpAssumption DEF PumpInit, PumpTypeOK, States, PCs
  <2>2. RoleInv /\ EpochInv
    BY DEF PumpInit, RoleInv, EpochInv, Consuming
  <2>3. GenerationInv /\ DelayArmedExactly
    BY DEF PumpInit, GenerationInv, DelayArmedExactly, Carries, NoDue
  <2> QED
    BY <2>1, <2>2, <2>3 DEF PumpIInv
<1>2. PumpIInv /\ [PumpNext]_pumpVars => PumpIInv'
  BY PumpTypeStep, RoleStep, EpochStep, GenerationStep, DelayStep DEF PumpIInv
<1> QED
  BY <1>1, <1>2, PTL DEF PumpSpec

(* Every variable keeps its type.                                          *)
THEOREM PumpTypeCorrect == PumpSpec => []PumpTypeOK
<1>1. PumpIInv => PumpTypeOK
  BY DEF PumpIInv
<1> QED
  BY <1>1, PumpInvariantHolds, PTL

(* Mutual exclusion of the drain (Run, TryRunInline, RunOwned): no two     *)
(* threads hold the consumer role, for any number of threads.              *)
THEOREM ConsumerIsExclusive == PumpSpec => []OneConsumer
<1>1. PumpIInv => OneConsumer
  BY DEF PumpIInv, PumpTypeOK, States, RoleInv, OneConsumer
<1> QED
  BY <1>1, PumpInvariantHolds, PTL

(* No lost wake-up: when RunOwned's exchange makes the pump Idle, nothing  *)
(* that Notify accepted is left.                                           *)
THEOREM NoLostWakeup == PumpSpec => []IdleMeansDrained
<1>1. PumpIInv => IdleMeansDrained
  BY DEF PumpIInv, PumpTypeOK, EpochInv, IdleMeansDrained
<1> QED
  BY <1>1, PumpInvariantHolds, PTL

(* m_drainedEpoch never claims work that is still queued.                  *)
THEOREM DrainedEpochIsHonest == PumpSpec => []DrainedMeansServed
<1>1. PumpIInv => DrainedMeansServed
  BY DEF PumpIInv, PumpTypeOK, EpochInv, DrainedMeansServed
<1> QED
  BY <1>1, PumpInvariantHolds, PTL

(* NotifyAfter, FireDelayed and Disarm keep an armed deadline and its one  *)
(* live timer in step.                                                     *)
THEOREM DelayIsExact == PumpSpec => []DelayArmedExactly
<1>1. PumpIInv => DelayArmedExactly
  BY DEF PumpIInv
<1> QED
  BY <1>1, PumpInvariantHolds, PTL
=============================================================================
