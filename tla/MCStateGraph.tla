---------------------------- MODULE MCStateGraph ----------------------------
(***************************************************************************)
(* Small instances of StateGraph: what the clients of a behaviour do and   *)
(* how the producers answer.                                               *)
(***************************************************************************)
EXTENDS StateGraph

CONSTANTS kA, kB, kC, kD, w1

Req(k, rev, ready, policy, edge) ==
    [key |-> k, rev |-> rev, gen |-> 0, ready |-> ready, policy |-> policy, edge |-> edge]
Exact(k, rev)  == Req(k, rev, "CpuReady", "all", "exact")
Latest(k)      == Req(k, 0, "GpuReady", "all", "latest")
Gate(k, ready) == Req(k, 0, ready, "all", "gate")

Request(k, rev, reqs, coalesce) ==
    [op |-> "request", key |-> k, rev |-> rev, reqs |-> reqs, coalesce |-> coalesce]
Await(w, k, rev, ready) == [op |-> "await", who |-> w, key |-> k, rev |-> rev, milestone |-> ready]
Unawait(w, k, rev)      == [op |-> "unawait", who |-> w, key |-> k, rev |-> rev]
On(op, k)               == [op |-> op, key |-> k]
OnRev(op, k, rev)       == [op |-> op, key |-> k, rev |-> rev]

\* An exact consumer, and an awaiter of it, while the address it consumes moves on.
ExactScenario == {Request(kA, 1, {}, TRUE), Request(kA, 2, {}, TRUE), Request(kB, 1, {Exact(kA, 1)}, FALSE),
                  Await(w1, kB, 1, "GpuReady")}
\* A consumer that follows an address whose uploads are polled.
LatestScenario == {Request(kD, 1, {}, FALSE), Request(kD, 2, {}, FALSE), Request(kB, 1, {Latest(kD)}, FALSE)}
\* A version published before, while and after it is the cursor's, and a gate on its address.
PublishScenario == {Request(kD, 1, {}, FALSE), Request(kD, 2, {}, FALSE), Request(kB, 1, {Gate(kD, "GpuReady")}, FALSE),
                    OnRev("publish", kD, 1)}
\* An address released while it is built and requested again; an awaiter withdrawn.
ReleaseScenario == {Request(kB, 1, {}, FALSE), On("release", kB), Request(kB, 1, {}, TRUE),
                    Await(w1, kB, 1, "CpuReady"), Unawait(w1, kB, 1)}
\* Dependencies met while building, a suspension, and a gate behind both.
DiscoveryScenario == {Request(kB, 1, {}, FALSE), Request(kC, 1, {}, FALSE), Request(kD, 1, {Gate(kC, "UploadSubmitted")}, FALSE),
                      Await(w1, kC, 1, "GpuReady")}
\* A stale request whose predicted handle is already awaited and required.
RefusalScenario == {Request(kB, 2, {}, FALSE), Request(kB, 1, {}, FALSE), Request(kD, 1, {Exact(kB, 1)}, FALSE),
                    Await(w1, kB, 1, "CpuReady")}
\* Two addresses that require each other, a cancellation, and a rebuild from the same recipe.
CycleScenario == {Request(kB, 1, {Latest(kC)}, FALSE), Request(kC, 1, {Latest(kB)}, FALSE), On("cancel", kB),
                  Await(w1, kB, 1, "GpuReady"), OnRev("invalidate", kC, 2)}

\* A version that is archived when its address is released, and is published and requested again.
AgainScenario == {Request(kD, 1, {}, FALSE), On("release", kD), Request(kD, 1, {}, TRUE), OnRev("publish", kD, 1)}

MCScenarios == {ExactScenario, LatestScenario, PublishScenario, ReleaseScenario, DiscoveryScenario,
                RefusalScenario, CycleScenario, AgainScenario}
\* A producer that fails, and whoever requires exactly that version.
MCFailure == {{Request(kA, 1, {}, FALSE), Request(kB, 1, {Exact(kA, 1)}, FALSE)}}
\* A producer that asks to be run again later.
MCRetry   == {{Request(kC, 1, {}, FALSE)}}

MCOutcomes == (kA :> {"ready", "failed"}) @@ (kB :> {"ready"}) @@ (kC :> {"needs", "suspend", "suspendExact", "retry", "ready"}) @@ (kD :> {"ready"})
MCLater    == [k \in Keys |-> IF k = kC THEN {Exact(kB, 1)} ELSE {}]
=============================================================================
