------------------------ MODULE MCPipelineRegistry ------------------------
(***************************************************************************)
(* Two pipelines of one shader file each and an include both use.          *)
(***************************************************************************)
EXTENDS PipelineRegistry

CONSTANTS e1, e2, f1, inc

MCSources == [e \in Entries |-> IF e = e1 THEN {f1} ELSE {}]
MCInputs  == [e \in Entries |-> MCSources[e] \cup {inc}]
=============================================================================
