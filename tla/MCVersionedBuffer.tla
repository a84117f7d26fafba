------------------------- MODULE MCVersionedBuffer -------------------------
(***************************************************************************)
(* VersionedBuffer with interchangeable backings.                          *)
(***************************************************************************)
EXTENDS VersionedBuffer, TLC

Symmetric == Permutations(Backings)
=============================================================================
