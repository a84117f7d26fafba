------------------------- MODULE PublicationMailbox -------------------------
(***************************************************************************)
(* What Async/PublicationExchange.h promises: a one-place mailbox of       *)
(* complete successors.  The coordinator offers a newer one or takes the   *)
(* offer back; the frame owner takes the offer for itself, then activates  *)
(* or drops it.  No value changes between the offer and its release.       *)
(***************************************************************************)
EXTENDS Naturals

VARIABLES
  offered,  \* the successor the frame owner may take (0: none)
  held,     \* the one its acceptance predicate is looking at (0: none)
  active,   \* the one its frames use (0: none)
  newest    \* the newest successor ever offered

vars == <<offered, held, active, newest>>

Init == offered = 0 /\ held = 0 /\ active = 0 /\ newest = 0

Offer ==
  /\ offered = 0
  /\ offered' > newest
  /\ newest' = offered'
  /\ UNCHANGED <<held, active>>

TakeBack ==
  /\ offered # 0
  /\ offered' = 0
  /\ UNCHANGED <<held, active, newest>>

Take ==
  /\ offered # 0
  /\ held = 0
  /\ held' = offered
  /\ offered' = 0
  /\ UNCHANGED <<active, newest>>

Activate ==
  /\ held # 0
  /\ active' = held
  /\ held' = 0
  /\ UNCHANGED <<offered, newest>>

Drop ==
  /\ held # 0
  /\ held' = 0
  /\ UNCHANGED <<offered, active, newest>>

Clear ==
  /\ active' = 0
  /\ UNCHANGED <<offered, held, newest>>

Next == Offer \/ TakeBack \/ Take \/ Activate \/ Drop \/ Clear

Spec == Init /\ [][Next]_vars
=============================================================================
