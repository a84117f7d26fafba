------------------------ MODULE MCGrowableBufferSet ------------------------
(* A Fresh buffer that shrinks, a Zero one that does not, and a latch asked  *)
(* for in one layout at two sizes and in another.                            *)
EXTENDS GrowableBufferSet

CONSTANTS fresh, zero

MCFirstUnits == [b \in Buffers |-> IF b = zero THEN 1 ELSE 4]
MCLatchAsks == {[bytes |-> 1, layout |-> 1], [bytes |-> 2, layout |-> 1],
                [bytes |-> 1, layout |-> 2]}
=============================================================================
