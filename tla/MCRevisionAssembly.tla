------------------------ MODULE MCRevisionAssembly ------------------------
(***************************************************************************)
(* Two fragments for two slots; the recording needs the layout in the      *)
(* first slot.                                                             *)
(***************************************************************************)
EXTENDS RevisionAssembly

CONSTANTS layout, recording

MCRequires == [f \in Fragments |-> IF f = recording THEN {<<1, layout>>} ELSE {}]
=============================================================================
