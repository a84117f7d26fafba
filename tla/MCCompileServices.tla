------------------------- MODULE MCCompileServices -------------------------
(* One shader asked for twice; with a pipeline asked for by its callback; by *)
(* the host and a module, or by two modules; and pipelines of one id, one    *)
(* key once and another twice.                                               *)
EXTENDS CompileServices

CONSTANTS s1, s2, a1, a2, p1, p2, p3, p4

MCKey == [c \in Compiles |-> "shader"] @@ p1 :> "k1" @@ p2 :> "k2" @@ p3 :> "k2" @@ p4 :> "k1"
MCId == "k1" :> "id" @@ "k2" :> "id"
MCAfter == [c \in Calls |-> IF c = p4 THEN s1 ELSE None]
MCWorkloads == {{s1, s2}, {s1, p4}, {s1, a1}, {a1, a2}, {p1, p2, p3}}
=============================================================================
