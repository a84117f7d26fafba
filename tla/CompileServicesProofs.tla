------------------------ MODULE CompileServicesProofs ------------------------
(***************************************************************************)
(* The safety of the two services, for any calls, keys and recipe ids.     *)
(* The inductive invariant says, beside the types:                         *)
(*   - StageInv: where an owner is while its flight is at each stage, and  *)
(*     which flights go through a compile's stages;                        *)
(*   - TableInv: a flight under way is the one its key's table names;      *)
(*   - PipelineInv: the pipeline service's four tables agree;              *)
(*   - ListInv: a callback that has not run is listed once, in the flight  *)
(*     its call joined, unless its call has yet to attach it or to run it; *)
(*   - AdapterInv: what the adapter's requests hold and its jobs keep.     *)
(***************************************************************************)
EXTENDS CompileServices, TLAPS

Labels == {"idle", "attach", "submit", "completing", "calling", "returned", "closed"}
Compiling == {"load", "dxc", "store", "remember", "erase"}
Stages == {"none", "open", "queued", "complete", "finish", "calling", "ended"} \cup Compiling

\* The types TypeOK leaves out.
LocalsOK ==
    /\ stage \in [Calls -> Stages]
    /\ value \in [Calls -> Calls \cup {"error", "cached", "garbage", None}]
    /\ jobs \in [AdapterCalls -> {"none", "held", "released"}]
    /\ closing \in {"open", "waiting", "closed"}

Types == TypeOK /\ LocalsOK

OwnerInv(c) ==
    /\ flightOf[c] = c <=> stage[c] # "none"
    /\ stage[c] = "open" <=> flightOf[c] = c /\ pc[c] \in {"attach", "submit"}
    /\ stage[c] \notin {"none", "open"} => pc[c] \in {"returned", "completing"}
    /\ pc[c] \in {"submit", "completing"} => flightOf[c] = c
    /\ pc[c] \in {"idle", "closed"} => flightOf[c] = None
    /\ pc[c] = "attach" => flightOf[c] # None
    /\ flightOf[c] # None => stage[flightOf[c]] # "none"
    /\ stage[c] \in Compiling => c \in Compiles
    /\ stage[c] \in {"store", "remember"} => value[c] = c

StageInv == \A c \in Calls : OwnerInv(c)

\* The stages at which a flight is in its service's table.
InShaderTable(f) == stage[f] \in {"open", "queued"} \cup Compiling
InPipelineTable(f) == stage[f] \in {"open", "queued", "complete"}

TableInv ==
    /\ \A f \in Compiles : InShaderTable(f) => flights[Key[f]] = f
    /\ \A k \in ShaderKeys : flights[k] # None => Key[flights[k]] = k /\ InShaderTable(flights[k])
    /\ \A f \in PipelineCalls : InPipelineTable(f) => inFlight[Key[f]] = f
    /\ \A k \in PipelineKeys : inFlight[k] # None =>
           Key[inFlight[k]] = k /\ stage[inFlight[k]] # "none"

PipelineInv ==
    \A k \in PipelineKeys :
        /\ ~(active[k] # None /\ inFlight[k] # None)
        /\ k \in idsByKey <=> active[k] # None \/ inFlight[k] # None
        /\ active[k] # None <=> activeKeyById[Id[k]] = k

\* The call is in its flight's list.
Listed(c) == \E i \in 1..Len(callbacks[flightOf[c]]) : callbacks[flightOf[c]][i] = c

Attached(c) == pc[c] \in {"submit", "completing", "returned"}

ListOK(f) ==
    /\ \A i \in 1..Len(callbacks[f]) :
           LET c == callbacks[f][i]
           IN  c \notin AdapterCalls /\ flightOf[c] = f /\ called[c] = 0 /\ Attached(c)
    /\ \A i, j \in 1..Len(callbacks[f]) : callbacks[f][i] = callbacks[f][j] => i = j
    /\ stage[f] \in {"none", "ended"} => callbacks[f] = <<>>

CallOK(c) ==
    /\ called[c] \in {0, 1}
    /\ ~Attached(c) => called[c] = 0
    /\ called[c] = 1 \/ pc[c] = "calling" => flightOf[c] = None \/ Done(flightOf[c])
    /\ Attached(c) /\ called[c] = 0 => flightOf[c] # None /\ Listed(c)

ListInv == (\A f \in Calls : ListOK(f)) /\ (\A c \in Calls \ AdapterCalls : CallOK(c))

AdapterInv ==
    /\ closing # "open" => lock = None
    /\ closing = "closed" => \A c \in AdapterCalls : jobs[c] = "none"
    /\ \A c \in AdapterCalls :
           /\ pc[c] \in {"attach", "submit", "calling", "completing"} => lock = c
           /\ jobs[c] # "none" => pc[c] = "returned"
           /\ pc[c] = "returned" => lock = c \/ jobs[c] # "none" \/ FutureReady(c)

IInv == Types /\ StageInv /\ TableInv /\ PipelineInv /\ ListInv /\ AdapterInv

\* The cases of a call that asks its service: turned away, answered at once, sent
\* to a flight there is, or to one of its own.
AskRest(c) ==
    /\ pc[c] = "idle"
    /\ c \in AdapterCalls => lock = None
    /\ UNCHANGED <<called, value, callbacks, memory, active, activeKeyById, jobs, closing>>
TakeLock(c) ==
    IF c \in AdapterCalls THEN closing = "open" /\ lock' = c ELSE lock' = lock
AskTurnedAway(c) ==
    /\ AskRest(c) /\ c \in AdapterCalls /\ closing # "open"
    /\ Goto(c, "closed")
    /\ UNCHANGED <<lock, flightOf, stage, flights, inFlight, idsByKey>>
AskHit(c) ==
    /\ AskRest(c) /\ TakeLock(c)
    /\ Goto(c, "calling")
    /\ UNCHANGED <<flightOf, stage, flights, inFlight, idsByKey>>
AskJoin(c, f) ==
    /\ AskRest(c) /\ TakeLock(c)
    /\ f # c /\ stage[f] # "none"
    /\ flightOf' = [flightOf EXCEPT ![c] = f]
    /\ Goto(c, "attach")
    /\ UNCHANGED <<stage, flights, inFlight, idsByKey>>
AskNew(c) ==
    /\ AskRest(c) /\ TakeLock(c)
    /\ flightOf' = [flightOf EXCEPT ![c] = c]
    /\ stage' = [stage EXCEPT ![c] = "open"]
    /\ Goto(c, "attach")
AskNewShader(c) ==
    /\ AskNew(c) /\ c \in Compiles
    /\ flights[Key[c]] = None
    /\ flights' = [flights EXCEPT ![Key[c]] = c]
    /\ UNCHANGED <<inFlight, idsByKey>>
AskNewPipeline(c) ==
    /\ AskNew(c) /\ c \in PipelineCalls
    /\ active[Key[c]] = None /\ inFlight[Key[c]] = None
    /\ inFlight' = [inFlight EXCEPT ![Key[c]] = c]
    /\ idsByKey' = idsByKey \cup {Key[c]}
    /\ UNCHANGED flights

\* A step of a flight up to its callbacks: from one stage to another.
FlightMove(f, to) ==
    /\ stage[f] \notin {"none", "open", "calling", "ended"}
    /\ to \notin {"none", "open", "ended"} /\ (stage[f] = "finish" => to = "calling")
    /\ Stage(f, to)
    /\ to \in Compiling => f \in Compiles
    /\ to \in {"store", "remember"} => value'[f] = f
    /\ \A g \in Calls \ {f} : value'[g] = value[g]
    /\ UNCHANGED <<pc, flightOf, called, callbacks, lock, jobs, closing>>

-----------------------------------------------------------------------------
(* The types, and what the assumptions say of a call and its key.           *)
LEMMA Facts ==
    ASSUME IInv
    PROVE  /\ pc \in [Calls -> Labels] /\ flightOf \in [Calls -> Calls \cup {None}]
           /\ stage \in [Calls -> Stages] /\ called \in [Calls -> Nat]
           /\ callbacks \in [Calls -> Seq(Calls)] /\ None \notin Calls
           /\ value \in [Calls -> Calls \cup {"error", "cached", "garbage", None}]
           /\ \A c \in Calls : OwnerInv(c)
           /\ \A c \in Calls : (c \in Compiles \/ c \in PipelineCalls) /\ ~(c \in Compiles /\ c \in PipelineCalls)
           /\ \A c \in Compiles : c \in Calls /\ Key[c] \in ShaderKeys
           /\ \A c \in PipelineCalls : c \in Calls /\ Key[c] \in PipelineKeys
           /\ \A k \in PipelineKeys : Id[k] \in Ids
           /\ AdapterCalls \subseteq Calls /\ AdapterCalls \subseteq Compiles /\ None \notin PipelineKeys
<1>1. /\ pc \in [Calls -> Labels] /\ flightOf \in [Calls -> Calls \cup {None}]
      /\ stage \in [Calls -> Stages] /\ called \in [Calls -> Nat]
      /\ callbacks \in [Calls -> Seq(Calls)]
      /\ value \in [Calls -> Calls \cup {"error", "cached", "garbage", None}]
  BY DEF IInv, Types, TypeOK, LocalsOK, Labels
<1>2. \A c \in Calls : OwnerInv(c)
  BY DEF IInv, StageInv
<1>3. /\ \A c \in Calls : (c \in Compiles \/ c \in PipelineCalls) /\ ~(c \in Compiles /\ c \in PipelineCalls)
      /\ AdapterCalls \subseteq Calls /\ AdapterCalls \subseteq Compiles /\ None \notin PipelineKeys
      /\ None \notin Calls
  BY CompileAssumption DEF Calls, Compiles
<1>4. /\ \A c \in Compiles : c \in Calls /\ Key[c] \in ShaderKeys
      /\ \A c \in PipelineCalls : c \in Calls /\ Key[c] \in PipelineKeys
      /\ \A k \in PipelineKeys : Id[k] \in Ids
  BY DEF Calls, Compiles, ShaderKeys, PipelineKeys, Ids
<1> QED
  BY <1>1, <1>2, <1>3, <1>4

(* A compile finds its key's artifact, joins its flight or starts one.      *)
LEMMA ShaderAsks ==
    ASSUME IInv, NEW c \in Compiles, AskRest(c), TakeLock(c), FindShader(c),
           UNCHANGED <<inFlight, idsByKey>>
    PROVE  AskHit(c) \/ (\E f \in Calls : AskJoin(c, f)) \/ AskNewShader(c)
<1>0. /\ c \in Calls /\ stage \in [Calls -> Stages] /\ None \notin Calls /\ Key[c] \in ShaderKeys
      /\ flightOf[c] = None /\ stage[c] = "none"
  BY Facts DEF AskRest, OwnerInv
<1>1. CASE memory[Key[c]] # None
  BY <1>1 DEF FindShader, AskHit
<1>2. CASE memory[Key[c]] = None /\ flights[Key[c]] # None
  <2>1. PICK f \in Calls : f = flights[Key[c]]
    BY <1>0, <1>2, Facts DEF IInv, Types, TypeOK
  <2>2. stage[f] # "none" /\ f # c
    BY <1>0, <1>2, <2>1 DEF IInv, TableInv, InShaderTable, Compiling
  <2>3. stage' = stage /\ flightOf' = [flightOf EXCEPT ![c] = f] /\ Goto(c, "attach")
        /\ flights' = flights
    BY <1>0, <1>2, <2>1, <2>2 DEF FindShader, Join
  <2> QED
    BY <2>1, <2>2, <2>3 DEF AskJoin
<1>3. CASE memory[Key[c]] = None /\ flights[Key[c]] = None
  BY <1>0, <1>3 DEF FindShader, Join, AskNewShader, AskNew
<1> QED
  BY <1>1, <1>2, <1>3

(* So does every call of the three.                                        *)
LEMMA AskCases ==
    ASSUME IInv, NEW c \in Calls, CompileAsync(c) \/ Request(c) \/ AdapterRequest(c)
    PROVE  \/ AskTurnedAway(c) \/ AskHit(c) \/ \E f \in Calls : AskJoin(c, f)
           \/ AskNewShader(c) \/ AskNewPipeline(c)
<1>0. /\ stage \in [Calls -> Stages] /\ None \notin Calls /\ (pc[c] = "idle" => flightOf[c] = None /\ stage[c] = "none")
      /\ (c \in ShaderCalls => c \notin AdapterCalls) /\ (c \in PipelineCalls => c \notin AdapterCalls)
      /\ (c \in AdapterCalls => c \in Compiles) /\ (c \in ShaderCalls => c \in Compiles)
      /\ (c \in PipelineCalls => Key[c] \in PipelineKeys)
  BY Facts, CompileAssumption DEF OwnerInv, Compiles
<1>1. CASE CompileAsync(c)
  <2>1. AskRest(c) /\ TakeLock(c) /\ FindShader(c) /\ c \in Compiles /\ UNCHANGED <<inFlight, idsByKey>>
    BY <1>0, <1>1 DEF CompileAsync, Begins, AskRest, TakeLock, pipelineVars, adapterVars
  <2> QED
    BY <2>1, ShaderAsks
<1>2. CASE AdapterRequest(c)
  <2>1. CASE closing = "open"
    <3>1. AskRest(c) /\ TakeLock(c) /\ FindShader(c) /\ c \in Compiles /\ UNCHANGED <<inFlight, idsByKey>>
      BY <1>0, <1>2, <2>1 DEF AdapterRequest, Begins, AskRest, TakeLock, pipelineVars
    <3> QED
      BY <3>1, ShaderAsks
  <2>2. CASE closing # "open"
    BY <1>2, <2>2 DEF AdapterRequest, Begins, AskRest, AskTurnedAway, pipelineVars
  <2> QED
    BY <2>1, <2>2
<1>3. CASE Request(c)
  <2>1. AskRest(c) /\ TakeLock(c) /\ c \in PipelineCalls /\ UNCHANGED flights
    BY <1>0, <1>3 DEF Request, Begins, AskRest, TakeLock, shaderVars, adapterVars
  <2>2. CASE active[Key[c]] # None
    BY <1>3, <2>1, <2>2 DEF Request, AskHit
  <2>3. CASE active[Key[c]] = None /\ inFlight[Key[c]] # None
    <3>1. PICK f \in Calls : f = inFlight[Key[c]]
      BY <1>0, <2>1, <2>3, Facts DEF IInv, Types, TypeOK
    <3>2. stage[f] # "none" /\ f # c
      BY <1>0, <2>1, <2>3, <3>1 DEF IInv, TableInv, AskRest
    <3>3. stage' = stage /\ flightOf' = [flightOf EXCEPT ![c] = f] /\ Goto(c, "attach")
          /\ UNCHANGED <<inFlight, idsByKey>>
      BY <1>0, <1>3, <2>3, <3>1, <3>2 DEF Request, Join
    <3> QED
      BY <2>1, <3>1, <3>2, <3>3 DEF AskJoin
  <2>4. CASE active[Key[c]] = None /\ inFlight[Key[c]] = None
    BY <1>0, <1>3, <2>1, <2>4 DEF Request, Join, AskNewPipeline, AskNew
  <2> QED
    BY <2>2, <2>3, <2>4
<1> QED
  BY <1>1, <1>2, <1>3

(* The steps of a flight before its callbacks move it on and no more.       *)
LEMMA MoveCases ==
    ASSUME IInv, NEW f \in Calls, FlightStep(f), ~CallBack(f)
    PROVE  \E to \in Stages : FlightMove(f, to)
<1>0. /\ stage \in [Calls -> Stages] /\ OwnerInv(f)
      /\ value \in [Calls -> Calls \cup {"error", "cached", "garbage", None}]
  BY Facts
<1>1. ASSUME BuildPipeline(f) PROVE \E to \in Stages : FlightMove(f, to)
  BY <1>0, <1>1 DEF BuildPipeline, FlightMove, Stage, callVars, adapterVars, Stages, Compiling, OwnerInv
<1>2. ASSUME CheckMemory(f) PROVE \E to \in Stages : FlightMove(f, to)
  BY <1>0, <1>2 DEF CheckMemory, FlightMove, Stage, callVars, adapterVars, Stages, Compiling, OwnerInv
<1>3. ASSUME Load(f) PROVE \E to \in Stages : FlightMove(f, to)
  BY <1>0, <1>3 DEF Load, FlightMove, Stage, callVars, adapterVars, Stages, Compiling, OwnerInv
<1>4. ASSUME RunDxc(f) PROVE \E to \in Stages : FlightMove(f, to)
  BY <1>0, <1>4 DEF RunDxc, FlightMove, Stage, callVars, adapterVars, Stages, Compiling, OwnerInv
<1>5. ASSUME Store(f) PROVE \E to \in Stages : FlightMove(f, to)
  BY <1>0, <1>5 DEF Store, FlightMove, Stage, callVars, adapterVars, Stages, Compiling, OwnerInv
<1>6. ASSUME Remember(f) PROVE \E to \in Stages : FlightMove(f, to)
  BY <1>0, <1>6 DEF Remember, FlightMove, Stage, callVars, adapterVars, Stages, Compiling, OwnerInv
<1>7. ASSUME Erase(f) PROVE \E to \in Stages : FlightMove(f, to)
  BY <1>0, <1>7 DEF Erase, FlightMove, Stage, callVars, adapterVars, Stages, Compiling, OwnerInv
<1>8. ASSUME SetPromise(f) PROVE \E to \in Stages : FlightMove(f, to)
  BY <1>0, <1>8 DEF SetPromise, FlightMove, Stage, callVars, adapterVars, Stages, Compiling, OwnerInv
<1>9. ASSUME Finish(f) PROVE \E to \in Stages : FlightMove(f, to)
  BY <1>0, <1>9 DEF Finish, FlightMove, Stage, callVars, adapterVars, Stages, Compiling, OwnerInv
<1> QED
  BY <1>1, <1>2, <1>3, <1>4, <1>5, <1>6, <1>7, <1>8, <1>9 DEF FlightStep

(* Every step, for what the calls, flights and the adapter see of it.       *)
LEMMA StepCases ==
    ASSUME IInv, [Next]_vars
    PROVE  \/ UNCHANGED <<pc, flightOf, called, stage, value, callbacks, lock, jobs, closing>>
           \/ \E c \in Calls :
                \/ AskTurnedAway(c) \/ AskHit(c) \/ (\E f \in Calls : AskJoin(c, f)) \/ AskNew(c)
                \/ Attach(c) \/ CallHere(c) \/ Submit(c) \/ AdapterAccept(c)
                \/ CallBack(c) \/ \E to \in Stages : FlightMove(c, to)
           \/ (\E c \in AdapterCalls : Release(c)) \/ Shutdown \/ ShutdownEnd
<1> DEFINE Quiet == UNCHANGED <<pc, flightOf, called, stage, value, callbacks, lock, jobs, closing>>
<1>1. ASSUME ClearMemoryCache \/ UNCHANGED vars \/ \E fence \in 0..MaxFence : PublishReady(fence) \/ Retire(fence)
      PROVE  Quiet
  BY <1>1 DEF ClearMemoryCache, PublishReady, Retire, vars, callVars, flightVars, adapterVars
<1>2. ASSUME NEW c \in Calls, CompileAsync(c) \/ Request(c) \/ AdapterRequest(c)
      PROVE  AskTurnedAway(c) \/ AskHit(c) \/ (\E f \in Calls : AskJoin(c, f)) \/ AskNew(c)
  BY <1>2, AskCases DEF AskNewShader, AskNewPipeline
<1>3. ASSUME NEW f \in Calls, FlightStep(f)
      PROVE  CallBack(f) \/ \E to \in Stages : FlightMove(f, to)
  BY <1>3, MoveCases
<1> QED
  BY <1>1, <1>2, <1>3 DEF Next, CallStep

(* The types are preserved.                                                *)
LEMMA TypeStep ==
    ASSUME IInv, [Next]_vars
    PROVE  Types'
<1>0. /\ TypeOK /\ LocalsOK /\ None \notin Calls
      /\ \A c \in Calls : OwnerInv(c)
      /\ \A c \in Calls : (c \in Compiles \/ c \in PipelineCalls)
      /\ \A c \in Compiles : c \in Calls /\ Key[c] \in ShaderKeys
      /\ \A c \in PipelineCalls : c \in Calls /\ Key[c] \in PipelineKeys
      /\ \A k \in PipelineKeys : Id[k] \in Ids
      /\ AdapterCalls \subseteq Calls
  BY Facts DEF IInv, Types
<1>1. ASSUME NEW c \in Calls, AskTurnedAway(c) \/ AskHit(c) \/ (\E f \in Calls : AskJoin(c, f)) \/ AskNew(c)
      PROVE  /\ pc' \in [Calls -> Labels] /\ flightOf' \in [Calls -> Calls \cup {None}]
             /\ stage' \in [Calls -> Stages] /\ lock' \in AdapterCalls \cup {None}
             /\ UNCHANGED <<called, value, callbacks, memory, active, activeKeyById, jobs, closing>>
  <2>1. /\ UNCHANGED <<called, value, callbacks, memory, active, activeKeyById, jobs, closing>>
        /\ Goto(c, "closed") \/ Goto(c, "calling") \/ Goto(c, "attach")
        /\ TakeLock(c) \/ lock' = lock
    BY <1>1 DEF AskTurnedAway, AskHit, AskJoin, AskNew, AskRest
  <2>2. pc' \in [Calls -> Labels]
    BY <1>0, <2>1 DEF TypeOK, Labels, Goto
  <2>3. lock' \in AdapterCalls \cup {None}
    BY <1>0, <2>1 DEF TypeOK, TakeLock
  <2>4. \/ flightOf' = flightOf /\ stage' = stage
        \/ \E f \in Calls : flightOf' = [flightOf EXCEPT ![c] = f] /\ stage' = stage
        \/ flightOf' = [flightOf EXCEPT ![c] = c] /\ stage' = [stage EXCEPT ![c] = "open"]
    BY <1>1 DEF AskTurnedAway, AskHit, AskJoin, AskNew
  <2>5. flightOf' \in [Calls -> Calls \cup {None}] /\ stage' \in [Calls -> Stages]
    <3>1. /\ flightOf \in [Calls -> Calls \cup {None}] /\ stage \in [Calls -> Stages]
          /\ "open" \in Stages
      BY <1>0 DEF TypeOK, LocalsOK, Stages
    <3>2. CASE \E f \in Calls : flightOf' = [flightOf EXCEPT ![c] = f] /\ stage' = stage
      BY <3>1, <3>2
    <3>3. CASE flightOf' = [flightOf EXCEPT ![c] = c] /\ stage' = [stage EXCEPT ![c] = "open"]
      BY <3>1, <3>3
    <3> QED
      BY <2>4, <3>1, <3>2, <3>3
  <2> QED
    BY <2>1, <2>2, <2>3, <2>5
<1>2. ASSUME NEW c \in Calls, CompileAsync(c) \/ Request(c) \/ AdapterRequest(c) PROVE Types'
  <2>1. /\ pc' \in [Calls -> Labels] /\ flightOf' \in [Calls -> Calls \cup {None}]
        /\ stage' \in [Calls -> Stages] /\ lock' \in AdapterCalls \cup {None}
        /\ UNCHANGED <<called, value, callbacks, memory, active, activeKeyById, jobs, closing>>
    BY <1>1, <1>2, AskCases DEF AskNewShader, AskNewPipeline
  <2>2. \/ UNCHANGED <<flights, inFlight, idsByKey>> \/ AskNewShader(c) \/ AskNewPipeline(c)
    BY <1>2, AskCases DEF AskTurnedAway, AskHit, AskJoin
  <2>3. flights' \in [ShaderKeys -> Compiles \cup {None}] /\ idsByKey' \subseteq PipelineKeys
        /\ inFlight' \in [PipelineKeys -> PipelineCalls \cup {None}]
    <3>1. /\ flights \in [ShaderKeys -> Compiles \cup {None}] /\ idsByKey \subseteq PipelineKeys
          /\ inFlight \in [PipelineKeys -> PipelineCalls \cup {None}]
      BY <1>0 DEF TypeOK
    <3>2. CASE AskNewShader(c)
      BY <1>0, <3>1, <3>2 DEF AskNewShader
    <3>3. CASE AskNewPipeline(c)
      BY <1>0, <3>1, <3>3 DEF AskNewPipeline
    <3> QED
      BY <2>2, <3>1, <3>2, <3>3
  <2> QED
    BY <1>0, <2>1, <2>3 DEF Types, TypeOK, LocalsOK, Labels
<1>3. ASSUME NEW c \in Calls, Attach(c) PROVE Types'
  <2>1. flightOf[c] \in Calls /\ callbacks' \in [Calls -> Seq(Calls)] /\ pc' \in [Calls -> Labels]
    BY <1>0, <1>3 DEF Attach, TypeOK, Goto, OwnerInv, Labels
  <2> QED
    BY <1>0, <1>3, <2>1 DEF Attach, Types, TypeOK, LocalsOK, Labels, shaderVars, pipelineVars, adapterVars
<1>4. ASSUME NEW c \in Calls, CallHere(c) PROVE Types'
  BY <1>0, <1>4 DEF CallHere, Goto, Types, TypeOK, LocalsOK, flightVars, shaderVars, pipelineVars, adapterVars
<1>5. ASSUME NEW c \in Calls, Submit(c) PROVE Types'
  BY <1>0, <1>5 DEF Submit, Goto, Stage, Types, TypeOK, LocalsOK, Stages, Compiling, shaderVars, pipelineVars, adapterVars
<1>6. ASSUME NEW c \in Calls, AdapterAccept(c) PROVE Types'
  BY <1>0, <1>6 DEF AdapterAccept, Types, TypeOK, LocalsOK, callVars, flightVars, shaderVars, pipelineVars
<1>7. ASSUME NEW f \in Calls, BuildPipeline(f) \/ SetPromise(f) \/ Finish(f) \/ RunDxc(f) PROVE Types'
  <2>1. CASE BuildPipeline(f)
    BY <1>0, <2>1 DEF BuildPipeline, Stage, Types, TypeOK, LocalsOK, Stages, Compiling, callVars, shaderVars,
       pipelineVars, adapterVars
  <2>2. CASE SetPromise(f)
    BY <1>0, <2>2 DEF SetPromise, Stage, Types, TypeOK, LocalsOK, Stages, Compiling, callVars, shaderVars,
       pipelineVars, adapterVars
  <2>3. CASE Finish(f)
    BY <1>0, <2>3 DEF Finish, Stage, Types, TypeOK, LocalsOK, Stages, Compiling, callVars, shaderVars,
       pipelineVars, adapterVars
  <2>4. CASE RunDxc(f)
    <3>1. value' \in [Calls -> Calls \cup {"error", "cached", "garbage", None}]
      BY <1>0, <2>4 DEF RunDxc, LocalsOK
    <3>2. stage' \in [Calls -> Stages]
      BY <1>0, <2>4 DEF RunDxc, LocalsOK, Stage, Stages, Compiling
    <3> QED
      BY <1>0, <2>4, <3>1, <3>2 DEF RunDxc, Types, TypeOK, LocalsOK, callVars, shaderVars, pipelineVars,
         adapterVars
  <2> QED
    BY <1>7, <2>1, <2>2, <2>3, <2>4
<1>8. ASSUME NEW f \in Calls, CheckMemory(f) PROVE Types'
  <2>1. memory[Key[f]] \in Calls \cup {"error", "cached", "garbage", None}
    BY <1>0, <1>8 DEF CheckMemory, TypeOK
  <2> QED
    BY <1>0, <1>8, <2>1 DEF CheckMemory, Stage, Types, TypeOK, LocalsOK, Stages, Compiling, callVars,
       shaderVars, pipelineVars, adapterVars
<1>9. ASSUME NEW f \in Calls, Load(f) \/ Store(f) \/ Remember(f) \/ Erase(f) PROVE Types'
  <2>1. stage[f] \in Compiling
    BY <1>9 DEF Load, Store, Remember, Erase, Compiling
  <2>2. f \in Compiles /\ Key[f] \in ShaderKeys /\ (stage[f] = "remember" => value[f] = f)
    BY <1>0, <2>1 DEF OwnerInv
  <2>3. CASE Load(f)
    BY <1>0, <2>2, <2>3 DEF Load, Stage, Types, TypeOK, LocalsOK, Stages, Compiling, callVars,
       pipelineVars, adapterVars
  <2>4. CASE Store(f)
    BY <1>0, <2>2, <2>4 DEF Store, Stage, Types, TypeOK, LocalsOK, Stages, Compiling, callVars,
       pipelineVars, adapterVars
  <2>5. CASE Remember(f)
    BY <1>0, <2>2, <2>5 DEF Remember, Stage, Types, TypeOK, LocalsOK, Stages, Compiling, callVars,
       pipelineVars, adapterVars
  <2>6. CASE Erase(f)
    BY <1>0, <2>2, <2>6 DEF Erase, Stage, Types, TypeOK, LocalsOK, Stages, Compiling, callVars,
       pipelineVars, adapterVars
  <2> QED
    BY <1>9, <2>3, <2>4, <2>5, <2>6
<1>10. ASSUME NEW f \in Calls, CallBack(f) PROVE Types'
  <2>1. CASE callbacks[f] # <<>> /\ called' = [called EXCEPT ![Head(callbacks[f])] = @ + 1]
             /\ callbacks' = [callbacks EXCEPT ![f] = Tail(@)] /\ UNCHANGED <<pc, stage>>
    <3>1. callbacks[f] \in Seq(Calls) /\ called \in [Calls -> Nat] /\ callbacks \in [Calls -> Seq(Calls)]
      BY <1>0 DEF TypeOK
    <3>2. Head(callbacks[f]) \in Calls /\ Tail(callbacks[f]) \in Seq(Calls)
      BY <2>1, <3>1
    <3>3. called' \in [Calls -> Nat] /\ callbacks' \in [Calls -> Seq(Calls)]
      BY <2>1, <3>1, <3>2
    <3> QED
      BY <1>0, <1>10, <2>1, <3>3 DEF CallBack, Types, TypeOK, LocalsOK, shaderVars, pipelineVars, adapterVars
  <2>2. CASE Stage(f, "ended") /\ Goto(f, "returned") /\ UNCHANGED <<called, callbacks>>
    BY <1>0, <1>10, <2>2 DEF CallBack, Goto, Stage, Types, TypeOK, LocalsOK, Stages, shaderVars, pipelineVars, adapterVars
  <2> QED
    BY <1>10, <2>1, <2>2 DEF CallBack
<1>11. ASSUME ClearMemoryCache \/ Shutdown \/ ShutdownEnd \/ \E c \in AdapterCalls : Release(c) PROVE Types'
  <2>1. CASE ClearMemoryCache
    BY <1>0, <2>1 DEF ClearMemoryCache, Types, TypeOK, LocalsOK, callVars, flightVars, pipelineVars, adapterVars
  <2>2. CASE Shutdown
    BY <1>0, <2>2 DEF Shutdown, Types, TypeOK, LocalsOK, callVars, flightVars, shaderVars, pipelineVars
  <2>3. CASE ShutdownEnd
    BY <1>0, <2>3 DEF ShutdownEnd, Types, TypeOK, LocalsOK, callVars, flightVars, shaderVars, pipelineVars
  <2>4. CASE \E c \in AdapterCalls : Release(c)
    BY <1>0, <2>4 DEF Release, Types, TypeOK, LocalsOK, callVars, flightVars, shaderVars, pipelineVars
  <2> QED
    BY <1>11, <2>1, <2>2, <2>3, <2>4
<1>12. ASSUME NEW fence \in 0..MaxFence, Retire(fence) PROVE Types'
  BY <1>0, <1>12 DEF Retire, Types, TypeOK, LocalsOK, callVars, flightVars, shaderVars, adapterVars
<1>13. ASSUME NEW fence \in 0..MaxFence, PublishReady(fence) PROVE Types'
  <2> DEFINE ready == {f \in PipelineCalls : inFlight[Key[f]] = f /\ Ready(f)}
             made  == {f \in ready : value[f] = f}
             moved == {Id[Key[f]] : f \in made}
  <2>1. PICK last \in [moved -> made] : \E stays, displaced, failed :
          /\ active' = [k \in PipelineKeys |->
                 IF \E f \in stays : Key[f] = k THEN inFlight[k]
                 ELSE IF k \in displaced THEN None ELSE active[k]]
          /\ activeKeyById' = [i \in Ids |-> IF i \in moved THEN Key[last[i]] ELSE activeKeyById[i]]
          /\ idsByKey' = (idsByKey \ displaced) \ failed
    <3>1. PICK last \in [moved -> made] :
            LET stays == {last[i] : i \in moved}
                displaced == {k \in PipelineKeys : Id[k] \in moved /\ active[k] # None} \cup {Key[f] : f \in made \ stays}
            IN  /\ active' = [k \in PipelineKeys |->
                       IF \E f \in stays : Key[f] = k THEN inFlight[k]
                       ELSE IF k \in displaced THEN None ELSE active[k]]
                /\ activeKeyById' = [i \in Ids |-> IF i \in moved THEN Key[last[i]] ELSE activeKeyById[i]]
                /\ idsByKey' = (idsByKey \ displaced) \ {Key[f] : f \in ready \ made}
      BY <1>13, Zenon DEF PublishReady
    <3> QED
      BY <3>1, Zenon
  <2>2. inFlight' = [k \in PipelineKeys |-> IF inFlight[k] \in ready THEN None ELSE inFlight[k]]
    BY <1>13 DEF PublishReady
  <2>3. active' \in [PipelineKeys -> PipelineCalls \cup {None}]
    BY <1>0, <2>1 DEF TypeOK
  <2>4. activeKeyById' \in [Ids -> PipelineKeys \cup {None}]
    <3>1. \A i \in moved : Key[last[i]] \in PipelineKeys
      BY <1>0
    <3> QED
      BY <1>0, <2>1, <3>1 DEF TypeOK
  <2>5. inFlight' \in [PipelineKeys -> PipelineCalls \cup {None}]
    BY <1>0, <2>2 DEF TypeOK
  <2> QED
    BY <1>0, <1>13, <2>1, <2>3, <2>4, <2>5 DEF PublishReady, Types, TypeOK, LocalsOK, callVars, flightVars,
       shaderVars, adapterVars
<1>14. ASSUME UNCHANGED vars PROVE Types'
  BY <1>0, <1>14 DEF vars, Types, TypeOK, LocalsOK, callVars, flightVars, shaderVars, pipelineVars, adapterVars
<1> QED
  BY <1>2, <1>3, <1>4, <1>5, <1>6, <1>7, <1>8, <1>9, <1>10, <1>11, <1>12, <1>13, <1>14
     DEF Next, CallStep, FlightStep


(* Owners and their flights stay in step.                                  *)
LEMMA StageStep ==
    ASSUME IInv, [Next]_vars
    PROVE  StageInv'
<1> SUFFICES ASSUME NEW d \in Calls PROVE OwnerInv(d)'
  BY DEF StageInv
<1>0. /\ pc \in [Calls -> Labels] /\ flightOf \in [Calls -> Calls \cup {None}]
      /\ stage \in [Calls -> Stages] /\ None \notin Calls
      /\ \A c \in Calls : OwnerInv(c)
      /\ \A c \in Calls : (c \in Compiles \/ c \in PipelineCalls) /\ ~(c \in Compiles /\ c \in PipelineCalls)
  BY Facts
<1>1. ASSUME UNCHANGED <<pc, flightOf, stage, value>> PROVE OwnerInv(d)'
  BY <1>0, <1>1 DEF OwnerInv
<1>2. ASSUME NEW c \in Calls, AskTurnedAway(c) PROVE OwnerInv(d)'
  BY <1>0, <1>2 DEF AskTurnedAway, AskRest, Goto, OwnerInv, Stages, Compiling, Labels
<1>3. ASSUME NEW c \in Calls, AskHit(c) PROVE OwnerInv(d)'
  BY <1>0, <1>3 DEF AskHit, AskRest, Goto, OwnerInv, Stages, Compiling, Labels
<1>4. ASSUME NEW c \in Calls, \E f \in Calls : AskJoin(c, f) PROVE OwnerInv(d)'
  BY <1>0, <1>4 DEF AskJoin, AskRest, Goto, OwnerInv, Stages, Compiling, Labels
<1>5. ASSUME NEW c \in Calls, AskNew(c) PROVE OwnerInv(d)'
  BY <1>0, <1>5 DEF AskNew, AskRest, Goto, OwnerInv, Stages, Compiling, Labels
<1>6. ASSUME NEW c \in Calls, Attach(c) PROVE OwnerInv(d)'
  BY <1>0, <1>6 DEF Attach, Goto, Done, OwnerInv, Stages, Compiling, Labels
<1>7. ASSUME NEW c \in Calls, CallHere(c) PROVE OwnerInv(d)'
  BY <1>0, <1>7 DEF CallHere, Goto, flightVars, OwnerInv, Stages, Compiling, Labels
<1>8. ASSUME NEW c \in Calls, Submit(c) PROVE OwnerInv(d)'
  <2>1. pc[c] = "submit" /\ flightOf' = flightOf /\ stage[c] = "open" /\ flightOf[c] = c
    BY <1>0, <1>8 DEF Submit, OwnerInv
  <2>2. \/ pc' = [pc EXCEPT ![c] = "returned"] /\ stage' = [stage EXCEPT ![c] = "queued"]
        \/ pc' = [pc EXCEPT ![c] = "completing"] /\ stage' = [stage EXCEPT ![c] = "complete"]
        \/ pc' = [pc EXCEPT ![c] = "completing"] /\ stage' = [stage EXCEPT ![c] = "erase"] /\ c \in Compiles
    BY <1>0, <1>8, Zenon DEF Submit, Stage, Goto
  <2>5. \A g \in Calls \ {c} : value'[g] = value[g]
    BY <1>0, <1>8, Facts DEF Submit
  <2>3. CASE d = c
    BY <1>0, <2>1, <2>2, <2>3 DEF OwnerInv, Stages, Compiling, Labels
  <2>4. CASE d # c
    BY <1>0, <2>1, <2>2, <2>4, <2>5 DEF OwnerInv, Stages, Compiling, Labels
  <2> QED
    BY <2>3, <2>4
<1>9. ASSUME NEW c \in Calls, AdapterAccept(c) PROVE OwnerInv(d)'
  BY <1>0, <1>9 DEF AdapterAccept, callVars, flightVars, OwnerInv, Stages, Compiling, Labels
<1>10. ASSUME NEW c \in Calls, CallBack(c) PROVE OwnerInv(d)'
  BY <1>0, <1>10 DEF CallBack, Goto, Stage, OwnerInv, Stages, Compiling, Labels
<1>11. ASSUME NEW c \in Calls, \E to \in Stages : FlightMove(c, to) PROVE OwnerInv(d)'
  BY <1>0, <1>11 DEF FlightMove, Stage, OwnerInv, Stages, Compiling, Labels
<1>12. ASSUME Shutdown \/ ShutdownEnd \/ \E c \in AdapterCalls : Release(c) PROVE OwnerInv(d)'
  <2>1. UNCHANGED <<pc, flightOf, stage, value>>
    BY <1>12 DEF Shutdown, ShutdownEnd, Release, callVars, flightVars
  <2> QED
    BY <1>1, <2>1
<1> QED
  BY <1>1, <1>2, <1>3, <1>4, <1>5, <1>6, <1>7, <1>8, <1>9, <1>10, <1>11, <1>12, StepCases

(* A future that is ready stays ready, a flight that is done stays done, and a *)
(* call keeps its flight.                                                  *)
LEMMA Onward ==
    ASSUME IInv, [Next]_vars, NEW d \in Calls
    PROVE  /\ Ready(d) => Ready(d)'
           /\ Done(d) => Done(d)'
           /\ flightOf[d] # None => flightOf'[d] = flightOf[d]
           /\ d \in AdapterCalls /\ FutureReady(d) /\ pc[d] # "idle" => FutureReady(d)'
<1> DEFINE Onw(e) == /\ Ready(e) => Ready(e)'
                     /\ Done(e) => Done(e)'
                     /\ flightOf[e] # None => flightOf'[e] = flightOf[e]
                     /\ pc[e] # "idle" => flightOf'[e] = flightOf[e]
<1>0. /\ pc \in [Calls -> Labels] /\ flightOf \in [Calls -> Calls \cup {None}]
      /\ stage \in [Calls -> Stages] /\ None \notin Calls
      /\ \A c \in Calls : OwnerInv(c)
  BY Facts
<1> SUFFICES ASSUME NEW e \in Calls PROVE Onw(e)
  BY <1>0 DEF FutureReady, Onw
<1>1. ASSUME UNCHANGED <<flightOf, stage>> PROVE Onw(e)
  BY <1>1 DEF Ready, Done
<1>2. ASSUME NEW c \in Calls, AskTurnedAway(c) PROVE Onw(e)
  BY <1>0, <1>2 DEF AskTurnedAway, AskRest, Goto, OwnerInv, Ready, Done
<1>3. ASSUME NEW c \in Calls, AskHit(c) PROVE Onw(e)
  BY <1>0, <1>3 DEF AskHit, AskRest, Goto, OwnerInv, Ready, Done
<1>4. ASSUME NEW c \in Calls, \E f \in Calls : AskJoin(c, f) PROVE Onw(e)
  BY <1>0, <1>4 DEF AskJoin, AskRest, Goto, OwnerInv, Ready, Done
<1>5. ASSUME NEW c \in Calls, AskNew(c) PROVE Onw(e)
  BY <1>0, <1>5 DEF AskNew, AskRest, Goto, OwnerInv, Ready, Done
<1>6. ASSUME NEW c \in Calls, Attach(c) PROVE Onw(e)
  BY <1>0, <1>6 DEF Attach, Goto, OwnerInv, Ready, Done
<1>7. ASSUME NEW c \in Calls, CallHere(c) PROVE Onw(e)
  BY <1>0, <1>7 DEF CallHere, Goto, flightVars, OwnerInv, Ready, Done
<1>8. ASSUME NEW c \in Calls, Submit(c) PROVE Onw(e)
  BY <1>0, <1>8 DEF Submit, Goto, Stage, OwnerInv, Ready, Done
<1>9. ASSUME NEW c \in Calls, AdapterAccept(c) PROVE Onw(e)
  BY <1>0, <1>9 DEF AdapterAccept, callVars, flightVars, OwnerInv, Ready, Done
<1>10. ASSUME NEW c \in Calls, CallBack(c) PROVE Onw(e)
  BY <1>0, <1>10 DEF CallBack, Goto, Stage, OwnerInv, Ready, Done
<1>11. ASSUME NEW c \in Calls, \E to \in Stages : FlightMove(c, to) PROVE Onw(e)
  BY <1>0, <1>11 DEF FlightMove, Stage, OwnerInv, Ready, Done
<1>12. ASSUME Shutdown \/ ShutdownEnd \/ \E c \in AdapterCalls : Release(c) PROVE Onw(e)
  <2>1. UNCHANGED <<flightOf, stage>>
    BY <1>12 DEF Shutdown, ShutdownEnd, Release, callVars, flightVars
  <2> QED
    BY <1>1, <2>1
<1> HIDE DEF Onw
<1> QED
  BY <1>1, <1>2, <1>3, <1>4, <1>5, <1>6, <1>7, <1>8, <1>9, <1>10, <1>11, <1>12, StepCases

(* The adapter's lock, jobs and requests stay in step.                     *)
LEMMA AdapterStep ==
    ASSUME IInv, [Next]_vars
    PROVE  AdapterInv'
<1> DEFINE One(c) == /\ pc[c] \in {"attach", "submit", "calling", "completing"} => lock = c
                     /\ jobs[c] # "none" => pc[c] = "returned"
                     /\ pc[c] = "returned" => lock = c \/ jobs[c] # "none" \/ FutureReady(c)
           Closed == /\ closing # "open" => lock = None
                     /\ closing = "closed" => \A c \in AdapterCalls : jobs[c] = "none"
<1>0. /\ pc \in [Calls -> Labels] /\ flightOf \in [Calls -> Calls \cup {None}]
      /\ None \notin Calls /\ AdapterCalls \subseteq Calls
      /\ \A c \in Calls : OwnerInv(c)
      /\ lock \in AdapterCalls \cup {None}
      /\ jobs \in [AdapterCalls -> {"none", "held", "released"}]
  BY Facts DEF IInv, Types, TypeOK, LocalsOK
<1>00. Closed /\ \A c \in AdapterCalls : One(c)
  BY DEF IInv, AdapterInv
<1>000. \A c \in AdapterCalls : FutureReady(c) /\ pc[c] # "idle" => FutureReady(c)'
  BY <1>0, Onward
<1> SUFFICES ASSUME NEW d PROVE Closed' /\ (d \in AdapterCalls => One(d)')
  BY DEF AdapterInv
<1>1. ASSUME UNCHANGED <<pc, lock, jobs, closing>> PROVE Closed' /\ (d \in AdapterCalls => One(d)')
  BY <1>0, <1>00, <1>000, <1>1
<1>2. ASSUME NEW c \in Calls, AskTurnedAway(c) PROVE Closed' /\ (d \in AdapterCalls => One(d)')
  BY <1>0, <1>00, <1>000, <1>2 DEF AskTurnedAway, AskRest, Goto, OwnerInv
<1>3. ASSUME NEW c \in Calls, AskHit(c) PROVE Closed' /\ (d \in AdapterCalls => One(d)')
  BY <1>0, <1>00, <1>000, <1>3 DEF AskHit, AskRest, Goto, OwnerInv, TakeLock
<1>4. ASSUME NEW c \in Calls, \E f \in Calls : AskJoin(c, f) PROVE Closed' /\ (d \in AdapterCalls => One(d)')
  BY <1>0, <1>00, <1>000, <1>4 DEF AskJoin, AskRest, Goto, OwnerInv, TakeLock
<1>5. ASSUME NEW c \in Calls, AskNew(c) PROVE Closed' /\ (d \in AdapterCalls => One(d)')
  BY <1>0, <1>00, <1>000, <1>5 DEF AskNew, AskRest, Goto, OwnerInv, TakeLock
<1>6. ASSUME NEW c \in Calls, Attach(c) PROVE Closed' /\ (d \in AdapterCalls => One(d)')
  BY <1>0, <1>00, <1>000, <1>6 DEF Attach, Goto, OwnerInv, adapterVars
<1>7. ASSUME NEW c \in Calls, CallHere(c) PROVE Closed' /\ (d \in AdapterCalls => One(d)')
  BY <1>0, <1>00, <1>000, <1>7 DEF CallHere, Goto, flightVars, OwnerInv, adapterVars
<1>8. ASSUME NEW c \in Calls, Submit(c) PROVE Closed' /\ (d \in AdapterCalls => One(d)')
  BY <1>0, <1>00, <1>000, <1>8 DEF Submit, Goto, Stage, OwnerInv, adapterVars
<1>9. ASSUME NEW c \in Calls, AdapterAccept(c) PROVE Closed' /\ (d \in AdapterCalls => One(d)')
  BY <1>0, <1>00, <1>000, <1>9 DEF AdapterAccept, callVars, flightVars, OwnerInv
<1>10. ASSUME NEW c \in Calls, CallBack(c) PROVE Closed' /\ (d \in AdapterCalls => One(d)')
  BY <1>0, <1>00, <1>000, <1>10 DEF CallBack, Goto, Stage, OwnerInv, adapterVars
<1>11. ASSUME NEW c \in Calls, \E to \in Stages : FlightMove(c, to) PROVE Closed' /\ (d \in AdapterCalls => One(d)')
  BY <1>0, <1>00, <1>000, <1>11 DEF FlightMove, Stage, OwnerInv
<1>12. ASSUME Shutdown PROVE Closed' /\ (d \in AdapterCalls => One(d)')
  BY <1>0, <1>00, <1>000, <1>12 DEF Shutdown, callVars, flightVars, FutureReady
<1>13. ASSUME ShutdownEnd PROVE Closed' /\ (d \in AdapterCalls => One(d)')
  BY <1>0, <1>00, <1>000, <1>13 DEF ShutdownEnd, callVars, flightVars, FutureReady
<1>14. ASSUME \E c \in AdapterCalls : Release(c) PROVE Closed' /\ (d \in AdapterCalls => One(d)')
  BY <1>0, <1>00, <1>000, <1>14 DEF Release, callVars, flightVars, FutureReady
<1> HIDE DEF One, Closed
<1> QED
  BY <1>1, <1>2, <1>3, <1>4, <1>5, <1>6, <1>7, <1>8, <1>9, <1>10, <1>11, <1>12, <1>13, <1>14, StepCases

(* A step that runs no callback and adds none.                             *)
LEMMA ListsKept ==
    ASSUME IInv, [Next]_vars, callbacks' = callbacks, called' = called,
           \A c \in Calls : pc[c] # "idle" => flightOf'[c] = flightOf[c],
           \A c \in Calls \ AdapterCalls : Attached(c) <=> Attached(c)',
           \A c \in Calls \ AdapterCalls : pc'[c] = "calling" =>
               pc[c] = "calling" \/ flightOf'[c] = None \/ Done(flightOf[c])',
           \A f \in Calls : stage'[f] \in {"none", "ended"} => stage[f] \in {"none", "ended"} \/ callbacks[f] = <<>>
    PROVE  ListInv'
<1>0. /\ pc \in [Calls -> Labels] /\ flightOf \in [Calls -> Calls \cup {None}]
      /\ callbacks \in [Calls -> Seq(Calls)] /\ None \notin Calls /\ pc' \in [Calls -> Labels]
  BY Facts, TypeStep DEF Types, TypeOK, Labels
<1>00. (\A f \in Calls : ListOK(f)) /\ (\A c \in Calls \ AdapterCalls : CallOK(c))
  BY DEF IInv, ListInv
<1>1. ASSUME NEW f \in Calls PROVE ListOK(f)'
  <2>1. ASSUME NEW i \in 1..Len(callbacks[f]), NEW c, c = callbacks[f][i]
        PROVE  c \notin AdapterCalls /\ flightOf'[c] = f /\ called[c] = 0 /\ Attached(c)'
    <3>1. c \notin AdapterCalls /\ flightOf[c] = f /\ called[c] = 0 /\ Attached(c)
      BY <1>00, <2>1 DEF ListOK
    <3>3. callbacks[f] \in Seq(Calls)
      BY <1>0
    <3>4. c \in Calls
      BY <2>1, <3>3
    <3>2. pc[c] # "idle"
      BY <3>1 DEF Attached
    <3> QED
      BY <3>1, <3>2, <3>4
  <2>2. /\ stage'[f] \in {"none", "ended"} => callbacks[f] = <<>>
        /\ \A i, j \in 1..Len(callbacks[f]) : callbacks[f][i] = callbacks[f][j] => i = j
    BY <1>00 DEF ListOK
  <2> QED
    BY <2>1, <2>2 DEF ListOK
<1>2. ASSUME NEW c \in Calls \ AdapterCalls PROVE CallOK(c)'
  <2>1. CallOK(c) /\ (Attached(c) <=> Attached(c)')
    BY <1>00
  <2>2. ASSUME pc[c] # "idle", flightOf[c] # None, Done(flightOf[c]) PROVE Done(flightOf[c])'
    BY <1>0, <2>2, Onward
  <2>3. called[c] = 1 => pc[c] # "idle"
    BY <2>1 DEF CallOK, Attached
  <2>4. called[c] = 1 \/ pc'[c] = "calling" => flightOf'[c] = None \/ Done(flightOf[c])'
    <3>1. CASE called[c] = 1 \/ pc[c] = "calling"
      <4>1. pc[c] # "idle" /\ flightOf'[c] = flightOf[c] /\ (flightOf[c] = None \/ Done(flightOf[c]))
        BY <2>1, <2>3, <3>1 DEF CallOK
      <4>2. CASE flightOf[c] = None
        BY <4>1, <4>2
      <4>3. CASE flightOf[c] # None
        <5>1. Done(flightOf[c])'
          BY <2>2, <4>1, <4>3
        <5> QED
          BY <5>1
      <4> QED
        BY <4>2, <4>3
    <3>2. CASE called[c] # 1 /\ pc[c] # "calling"
      BY <3>2
    <3> QED
      BY <3>1, <3>2
  <2>5. Attached(c)' /\ called[c] = 0 => flightOf'[c] # None /\ Listed(c)'
    <3>1. ASSUME Attached(c)', called[c] = 0 PROVE flightOf'[c] # None /\ Listed(c)'
      <4>1. flightOf[c] # None /\ Listed(c) /\ pc[c] # "idle" /\ flightOf'[c] = flightOf[c]
        BY <2>1, <3>1 DEF CallOK, Attached
      <4> QED
        BY <4>1, Zenon DEF Listed
    <3> QED
      BY <3>1
  <2> QED
    BY <2>1, <2>4, <2>5 DEF CallOK
<1> QED
  BY <1>1, <1>2 DEF ListInv

(* Attaching, and running a callback on the caller's thread or the flight's. *)
LEMMA AttachLists ==
    ASSUME IInv, [Next]_vars, NEW c \in Calls, Attach(c)
    PROVE  ListInv'
<1>0. /\ pc \in [Calls -> Labels] /\ flightOf \in [Calls -> Calls \cup {None}]
      /\ callbacks \in [Calls -> Seq(Calls)] /\ None \notin Calls /\ OwnerInv(c)
      /\ \A f \in Calls : ListOK(f)
      /\ \A d \in Calls \ AdapterCalls : CallOK(d)
  BY Facts DEF IInv, ListInv
<1> DEFINE f == flightOf[c]
           late == Done(f) /\ c \notin AdapterCalls
<1>1. /\ f \in Calls /\ pc[c] = "attach" /\ stage[f] # "none"
      /\ UNCHANGED <<flightOf, called, stage>>
      /\ callbacks' = [callbacks EXCEPT ![f] = IF late \/ c \in AdapterCalls THEN @ ELSE Append(@, c)]
      /\ pc' = [pc EXCEPT ![c] = IF late THEN "calling" ELSE IF f = c THEN "submit" ELSE "returned"]
  BY <1>0 DEF Attach, OwnerInv, Goto
<1>2. CASE late \/ c \in AdapterCalls
  <2>1. callbacks' = callbacks
    BY <1>0, <1>1, <1>2
  <2>2. \A d \in Calls \ AdapterCalls : Attached(d) <=> Attached(d)'
    BY <1>0, <1>1, <1>2 DEF Attached
  <2>3. \A d \in Calls \ AdapterCalls : pc'[d] = "calling" =>
               pc[d] = "calling" \/ flightOf'[d] = None \/ Done(flightOf[d])'
    BY <1>0, <1>1, <1>2 DEF Done
  <2> QED
    BY <1>1, <2>1, <2>2, <2>3, ListsKept
<1>3. CASE ~late /\ c \notin AdapterCalls
  <2>1. /\ callbacks[f] \in Seq(Calls) /\ callbacks'[f] = Append(callbacks[f], c)
        /\ \A g \in Calls \ {f} : callbacks'[g] = callbacks[g]
        /\ Len(callbacks'[f]) = Len(callbacks[f]) + 1 /\ callbacks'[f][Len(callbacks[f]) + 1] = c
        /\ \A i \in 1..Len(callbacks[f]) : callbacks'[f][i] = callbacks[f][i]
        /\ Len(callbacks[f]) \in Nat
    BY <1>0, <1>1, <1>3
  <2>2. /\ Attached(c)' /\ ~Attached(c) /\ called[c] = 0 /\ stage[f] # "ended"
        /\ \A d \in Calls \ {c} : pc'[d] = pc[d] /\ (Attached(d)' <=> Attached(d))
    BY <1>0, <1>1, <1>3 DEF Attached, Done, CallOK
  <2>3. ASSUME NEW g \in Calls PROVE ListOK(g)'
    <3>1. CASE g # f
      <4>1. callbacks'[g] = callbacks[g] /\ ListOK(g) /\ callbacks[g] \in Seq(Calls)
        BY <1>0, <2>1, <3>1
      <4>2. \A i \in 1..Len(callbacks[g]) : callbacks[g][i] \in Calls \ {c}
        BY <2>2, <4>1 DEF ListOK
      <4> QED
        BY <1>1, <2>2, <4>1, <4>2 DEF ListOK
    <3>2. CASE g = f
      <4>1. ListOK(f)
        BY <1>0, <1>1
      <4>2. \A i \in 1..Len(callbacks[f]) : callbacks[f][i] \in Calls \ {c}
        BY <2>1, <2>2, <4>1 DEF ListOK
      <4> HIDE DEF f
      <4>3. ASSUME NEW i \in 1..Len(callbacks'[f])
            PROVE  /\ callbacks'[f][i] \notin AdapterCalls /\ flightOf'[callbacks'[f][i]] = f
                   /\ called'[callbacks'[f][i]] = 0
                   /\ pc'[callbacks'[f][i]] \in {"submit", "completing", "returned"}
        <5>1. CASE i = Len(callbacks[f]) + 1
          BY <1>1, <1>3, <2>1, <2>2, <5>1 DEF f, Attached
        <5>2. CASE i \in 1..Len(callbacks[f])
          BY <1>1, <2>1, <2>2, <4>1, <4>2, <5>2 DEF ListOK, Attached
        <5> QED
          BY <2>1, <5>1, <5>2
      <4>4. ASSUME NEW i \in 1..Len(callbacks'[f]), NEW j \in 1..Len(callbacks'[f]),
                   callbacks'[f][i] = callbacks'[f][j]
            PROVE  i = j
        <5>1. /\ i = Len(callbacks[f]) + 1 \/ i \in 1..Len(callbacks[f])
              /\ j = Len(callbacks[f]) + 1 \/ j \in 1..Len(callbacks[f])
          BY <2>1
        <5> QED
          BY <2>1, <4>1, <4>2, <4>4, <5>1 DEF ListOK
      <4>5. stage'[f] \notin {"none", "ended"}
        BY <1>1, <2>2
      <4> QED
        BY <3>2, <4>3, <4>4, <4>5 DEF ListOK, Attached
    <3> QED
      BY <3>1, <3>2
  <2>4. ASSUME NEW d \in Calls \ AdapterCalls PROVE CallOK(d)'
    <3>0. CallOK(d)
      BY <1>0
    <3>1. CASE d = c
      <4>1. Listed(c)'
        BY <1>1, <2>1 DEF Listed
      <4> QED
        BY <1>1, <2>2, <3>0, <3>1, <4>1, <1>0, <1>3 DEF CallOK, Done, Attached
    <3>2. CASE d # c
      <4>1. Listed(d) /\ flightOf[d] \in Calls => Listed(d)'
        BY <1>1, <2>1 DEF Listed
      <4> QED
        BY <1>0, <1>1, <2>2, <3>0, <3>2, <4>1 DEF CallOK, Done
    <3> QED
      BY <3>1, <3>2
  <2> QED
    BY <2>3, <2>4 DEF ListInv
<1> QED
  BY <1>2, <1>3

LEMMA CallHereLists ==
    ASSUME IInv, [Next]_vars, NEW c \in Calls, CallHere(c)
    PROVE  ListInv'
<1>0. /\ pc \in [Calls -> Labels] /\ flightOf \in [Calls -> Calls \cup {None}] /\ called \in [Calls -> Nat]
      /\ callbacks \in [Calls -> Seq(Calls)] /\ None \notin Calls
      /\ \A f \in Calls : ListOK(f)
      /\ \A d \in Calls \ AdapterCalls : CallOK(d)
  BY Facts DEF IInv, ListInv
<1>1. /\ pc[c] = "calling" /\ UNCHANGED <<flightOf, stage, callbacks>>
      /\ called' = [called EXCEPT ![c] = IF c \in AdapterCalls THEN @ ELSE @ + 1]
      /\ pc' = [pc EXCEPT ![c] = "returned"]
  BY DEF CallHere, Goto, flightVars
<1>2. ASSUME NEW f \in Calls PROVE ListOK(f)'
  <2>1. callbacks[f] \in Seq(Calls) /\ ListOK(f)
    BY <1>0, <1>2
  <2>2. \A i \in 1..Len(callbacks[f]) : callbacks[f][i] \in Calls \ {c}
    BY <1>1, <2>1 DEF ListOK, Attached
  <2>3. \A i \in 1..Len(callbacks[f]) : called'[callbacks[f][i]] = called[callbacks[f][i]]
                                       /\ pc'[callbacks[f][i]] = pc[callbacks[f][i]]
    BY <1>0, <1>1, <2>2
  <2> QED
    BY <1>1, <2>1, <2>3 DEF ListOK, Attached
<1>3. ASSUME NEW d \in Calls \ AdapterCalls PROVE CallOK(d)'
  <2>1. CallOK(d)
    BY <1>0
  <2>2. CASE d = c
    BY <1>0, <1>1, <2>1, <2>2 DEF CallOK, Attached, Done
  <2>3. CASE d # c
    <3>1. called'[d] = called[d] /\ pc'[d] = pc[d] /\ (Listed(d) <=> Listed(d)')
      BY <1>0, <1>1, <2>3 DEF Listed
    <3> QED
      BY <1>1, <2>1, <3>1 DEF CallOK, Attached, Done
  <2> QED
    BY <2>2, <2>3
<1> QED
  BY <1>2, <1>3 DEF ListInv

LEMMA CallBackLists ==
    ASSUME IInv, [Next]_vars, NEW f \in Calls, CallBack(f)
    PROVE  ListInv'
<1>0. /\ pc \in [Calls -> Labels] /\ flightOf \in [Calls -> Calls \cup {None}] /\ called \in [Calls -> Nat]
      /\ callbacks \in [Calls -> Seq(Calls)] /\ None \notin Calls /\ stage \in [Calls -> Stages]
      /\ OwnerInv(f)
      /\ \A g \in Calls : ListOK(g)
      /\ \A d \in Calls \ AdapterCalls : CallOK(d)
  BY Facts DEF IInv, ListInv
<1>1. CASE /\ callbacks[f] = <<>> /\ Stage(f, "ended") /\ Goto(f, "returned")
           /\ UNCHANGED <<called, callbacks>>
  <2>1. flightOf' = flightOf /\ stage[f] = "calling" /\ pc[f] \in {"returned", "completing"}
    BY <1>0, <1>1 DEF CallBack, OwnerInv
  <2>2. /\ \A d \in Calls : Attached(d) <=> Attached(d)'
        /\ \A d \in Calls : pc'[d] = "calling" => pc[d] = "calling"
        /\ \A g \in Calls : stage'[g] \in {"none", "ended"} => stage[g] \in {"none", "ended"} \/ callbacks[g] = <<>>
    BY <1>0, <1>1, <2>1 DEF Attached, Goto, Stage
  <2> QED
    BY <1>1, <2>1, <2>2, ListsKept
<1>2. CASE /\ callbacks[f] # <<>>
           /\ called' = [called EXCEPT ![Head(callbacks[f])] = @ + 1]
           /\ callbacks' = [callbacks EXCEPT ![f] = Tail(@)]
           /\ UNCHANGED <<pc, stage>>
  <2> DEFINE s == callbacks[f]
             h == Head(s)
  <2>1. /\ s \in Seq(Calls) /\ s # <<>> /\ ListOK(f) /\ UNCHANGED <<pc, stage, flightOf>>
        /\ stage[f] = "calling"
    BY <1>0, <1>2 DEF CallBack
  <2>2. /\ h \in Calls /\ h = s[1] /\ 1 \in 1..Len(s) /\ Len(s) \in Nat
        /\ Len(Tail(s)) = Len(s) - 1 /\ \A i \in 1..Len(Tail(s)) : Tail(s)[i] = s[i+1] /\ i + 1 \in 1..Len(s)
    BY <2>1
  <2>3. /\ callbacks'[f] = Tail(s) /\ \A g \in Calls \ {f} : callbacks'[g] = callbacks[g]
        /\ called'[h] = called[h] + 1 /\ \A d \in Calls \ {h} : called'[d] = called[d]
    BY <1>0, <1>2, <2>2
  <2>4. /\ h \notin AdapterCalls /\ flightOf[h] = f /\ called[h] = 0 /\ Attached(h)
        /\ \A i \in 1..Len(Tail(s)) : Tail(s)[i] # h
    <3>1. /\ h \notin AdapterCalls /\ flightOf[h] = f /\ called[h] = 0 /\ Attached(h)
      BY <2>1, <2>2 DEF ListOK
    <3>2. \A i \in 1..Len(s) : s[i] = s[1] => i = 1
      BY <2>1, <2>2 DEF ListOK
    <3> QED
      BY <2>2, <3>1, <3>2
  <2>5. ASSUME NEW g \in Calls PROVE ListOK(g)'
    <3>1. CASE g # f
      <4>1. callbacks'[g] = callbacks[g] /\ ListOK(g) /\ callbacks[g] \in Seq(Calls)
        BY <1>0, <2>3, <3>1
      <4>2. \A i \in 1..Len(callbacks[g]) : callbacks[g][i] \in Calls \ {h}
        BY <2>4, <3>1, <4>1 DEF ListOK
      <4> QED
        BY <2>1, <2>3, <4>1, <4>2 DEF ListOK, Attached
    <3>2. CASE g = f
      <4>1. \A i \in 1..Len(Tail(s)) :
              /\ Tail(s)[i] \in Calls \ {h} /\ Tail(s)[i] \notin AdapterCalls
              /\ flightOf[Tail(s)[i]] = f /\ called[Tail(s)[i]] = 0 /\ Attached(Tail(s)[i])
        BY <2>1, <2>2, <2>4 DEF ListOK
      <4>2. \A i, j \in 1..Len(Tail(s)) : Tail(s)[i] = Tail(s)[j] => i = j
        <5>1. \A i, j \in 1..Len(s) : s[i] = s[j] => i = j
          BY <2>1 DEF ListOK
        <5> QED
          BY <2>2, <5>1
      <4>3. PICK t : t = Tail(s)
        OBVIOUS
      <4> HIDE DEF s, h
      <4>4. /\ callbacks'[f] = t /\ stage'[f] \notin {"none", "ended"}
            /\ \A i \in 1..Len(t) : t[i] \notin AdapterCalls /\ flightOf'[t[i]] = f
                                    /\ called'[t[i]] = 0 /\ pc'[t[i]] = pc[t[i]] /\ Attached(t[i])
        BY <2>1, <2>3, <4>1, <4>3
      <4>5. \A i, j \in 1..Len(t) : t[i] = t[j] => i = j
        BY <4>2, <4>3
      <4> QED
        BY <3>2, <4>4, <4>5 DEF ListOK, Attached
    <3> QED
      BY <3>1, <3>2
  <2>6. ASSUME NEW d \in Calls \ AdapterCalls PROVE CallOK(d)'
    <3>1. CallOK(d)
      BY <1>0
    <3>2. CASE d = h
      <4> HIDE DEF s, h
      <4> QED
        BY <2>1, <2>3, <2>4, <3>2 DEF CallOK, Done, Attached
    <3>3. CASE d # h
      <4>1. called'[d] = called[d]
        BY <2>3, <3>3
      <4>2. ASSUME flightOf[d] \in Calls, Listed(d) PROVE Listed(d)'
        <5>1. CASE flightOf[d] # f
          BY <2>1, <2>3, <4>2, <5>1 DEF Listed
        <5>2. CASE flightOf[d] = f
          <6>1. PICK i \in 1..Len(s) : s[i] = d
            BY <4>2, <5>2 DEF Listed
          <6>2. i # 1
            BY <2>2, <3>3, <6>1
          <6> HIDE DEF h
          <6>3. i - 1 \in 1..Len(Tail(s)) /\ (i - 1) + 1 = i
            BY <2>2, <6>2
          <6>4. Tail(s)[i-1] = d
            BY <2>2, <6>1, <6>3
          <6> HIDE DEF s
          <6> QED
            BY <2>1, <2>3, <5>2, <6>3, <6>4 DEF Listed
        <5> QED
          BY <5>1, <5>2
      <4> QED
        BY <1>0, <2>1, <3>1, <4>1, <4>2 DEF CallOK, Done, Attached
    <3> QED
      BY <3>2, <3>3
  <2> QED
    BY <2>5, <2>6 DEF ListInv
<1> QED
  BY <1>1, <1>2 DEF CallBack

(* The lists and the calls stay in step.                                   *)
LEMMA ListStep ==
    ASSUME IInv, [Next]_vars
    PROVE  ListInv'
<1>0. /\ pc \in [Calls -> Labels] /\ flightOf \in [Calls -> Calls \cup {None}]
      /\ stage \in [Calls -> Stages] /\ None \notin Calls
      /\ \A c \in Calls : OwnerInv(c)
  BY Facts
<1>1. ASSUME UNCHANGED <<pc, flightOf, called, stage, callbacks>> PROVE ListInv'
  <2>1. /\ \A c \in Calls \ AdapterCalls : Attached(c) <=> Attached(c)'
        /\ \A c \in Calls : flightOf'[c] = flightOf[c] /\ (pc'[c] = "calling" => pc[c] = "calling")
        /\ \A f \in Calls : stage'[f] = stage[f]
    BY <1>1 DEF Attached
  <2> QED
    BY <1>1, <2>1, ListsKept
<1> DEFINE Kept == /\ UNCHANGED <<called, callbacks>>
                   /\ \A c \in Calls : pc[c] # "idle" => flightOf'[c] = flightOf[c]
                   /\ \A c \in Calls : Attached(c) <=> Attached(c)'
                   /\ \A c \in Calls : pc'[c] = "calling" => pc[c] = "calling" \/ flightOf'[c] = None
                   /\ \A f \in Calls : stage'[f] \in {"none", "ended"} => stage[f] \in {"none", "ended"}
<1>2. ASSUME NEW c \in Calls, AskTurnedAway(c) \/ AskHit(c) PROVE Kept
  BY <1>0, <1>2 DEF AskTurnedAway, AskHit, AskRest, Goto, Attached, OwnerInv
<1>3. ASSUME NEW c \in Calls, NEW f \in Calls, AskJoin(c, f) PROVE Kept
  BY <1>0, <1>3 DEF AskJoin, AskRest, Goto, Attached, OwnerInv
<1>4. ASSUME NEW c \in Calls, AskNew(c) PROVE Kept
  BY <1>0, <1>4 DEF AskNew, AskRest, Goto, Attached, OwnerInv
<1>5. ASSUME NEW c \in Calls, Submit(c) PROVE Kept
  BY <1>0, <1>5 DEF Submit, Goto, Stage, Attached, OwnerInv
<1>6. ASSUME NEW f \in Calls, \E to \in Stages : FlightMove(f, to) PROVE Kept
  BY <1>0, <1>6 DEF FlightMove, Stage, Attached
<1>7. ASSUME \/ UNCHANGED <<pc, flightOf, called, stage, value, callbacks, lock, jobs, closing>>
             \/ Shutdown \/ ShutdownEnd \/ (\E c \in AdapterCalls : Release(c))
             \/ \E c \in Calls : AdapterAccept(c)
      PROVE  UNCHANGED <<pc, flightOf, called, stage, callbacks>>
  BY <1>7 DEF Shutdown, ShutdownEnd, Release, AdapterAccept, callVars, flightVars
<1>8. ASSUME Kept PROVE ListInv'
  BY <1>8, ListsKept
<1> HIDE DEF Kept
<1> QED
  BY <1>1, <1>2, <1>3, <1>4, <1>5, <1>6, <1>7, <1>8, StepCases, AttachLists, CallHereLists, CallBackLists

(* A step that changes no table keeps them if flights enter none.          *)
LEMMA TablesKept ==
    ASSUME IInv, flights' = flights, inFlight' = inFlight,
           \A f \in Compiles : InShaderTable(f) <=> InShaderTable(f)',
           \A f \in PipelineCalls : InPipelineTable(f)' => InPipelineTable(f),
           \A f \in PipelineCalls : stage'[f] = "none" => stage[f] = "none"
    PROVE  TableInv'
<1>1. /\ flights \in [ShaderKeys -> Compiles \cup {None}]
      /\ inFlight \in [PipelineKeys -> PipelineCalls \cup {None}]
      /\ TableInv
  BY DEF IInv, Types, TypeOK
<1>2. /\ \A f \in Compiles : InShaderTable(f)' => flights'[Key[f]] = f
      /\ \A f \in PipelineCalls : InPipelineTable(f)' => inFlight'[Key[f]] = f
  BY <1>1 DEF TableInv
<1>3. ASSUME NEW k \in ShaderKeys, flights'[k] # None PROVE Key[flights'[k]] = k /\ InShaderTable(flights[k])'
  BY <1>1, <1>3 DEF TableInv, InShaderTable
<1>4. ASSUME NEW k \in PipelineKeys, inFlight'[k] # None PROVE Key[inFlight'[k]] = k /\ stage'[inFlight'[k]] # "none"
  BY <1>1, <1>4 DEF TableInv
<1> QED
  BY <1>2, <1>3, <1>4 DEF TableInv

(* Every step, for what the tables of flights see of it.                   *)
LEMMA TableCases ==
    ASSUME IInv, [Next]_vars
    PROVE  \/ /\ UNCHANGED <<flights, inFlight>>
              /\ \A f \in Compiles : InShaderTable(f) <=> InShaderTable(f)'
              /\ \A f \in PipelineCalls : InPipelineTable(f)' => InPipelineTable(f)
              /\ \A f \in PipelineCalls : stage'[f] = "none" => stage[f] = "none"
           \/ \E c \in Calls : AskNewShader(c) \/ AskNewPipeline(c) \/ Erase(c)
           \/ \E fence \in 0..MaxFence : PublishReady(fence)
<1> DEFINE Kept == /\ UNCHANGED <<flights, inFlight>>
                   /\ \A f \in Compiles : InShaderTable(f) <=> InShaderTable(f)'
                   /\ \A f \in PipelineCalls : InPipelineTable(f)' => InPipelineTable(f)
                   /\ \A f \in PipelineCalls : stage'[f] = "none" => stage[f] = "none"
<1>0. /\ stage \in [Calls -> Stages] /\ None \notin Calls
      /\ \A c \in Calls : OwnerInv(c)
      /\ \A c \in Calls : (c \in Compiles \/ c \in PipelineCalls) /\ ~(c \in Compiles /\ c \in PipelineCalls)
      /\ Compiles \subseteq Calls /\ PipelineCalls \subseteq Calls
  BY Facts
<1>1. ASSUME UNCHANGED <<stage, flights, inFlight>> PROVE Kept
  BY <1>1 DEF InShaderTable, InPipelineTable
<1>2. ASSUME NEW c \in Calls, CompileAsync(c) \/ Request(c) \/ AdapterRequest(c)
      PROVE  Kept \/ AskNewShader(c) \/ AskNewPipeline(c)
  <2>1. UNCHANGED <<stage, flights, inFlight>> \/ AskNewShader(c) \/ AskNewPipeline(c)
    BY <1>2, AskCases DEF AskTurnedAway, AskHit, AskJoin
  <2> QED
    BY <1>1, <2>1
<1>3. ASSUME \/ \E c \in Calls : Attach(c) \/ CallHere(c) \/ AdapterAccept(c)
             \/ \E c \in AdapterCalls : Release(c)
             \/ \E fence \in 0..MaxFence : Retire(fence)
             \/ ClearMemoryCache \/ Shutdown \/ ShutdownEnd \/ UNCHANGED vars
      PROVE  UNCHANGED <<stage, flights, inFlight>>
  BY <1>3 DEF Attach, CallHere, AdapterAccept, Release, Retire, ClearMemoryCache, Shutdown, ShutdownEnd,
     vars, flightVars, shaderVars, pipelineVars
<1>4. ASSUME NEW c \in Calls, Submit(c) PROVE Kept
  <2>1. UNCHANGED <<flights, inFlight>> /\ stage[c] = "open"
    BY <1>0, <1>4 DEF Submit, OwnerInv, shaderVars, pipelineVars
  <2>2. \/ stage' = [stage EXCEPT ![c] = "queued"]
        \/ c \in PipelineCalls /\ stage' = [stage EXCEPT ![c] = "complete"]
        \/ c \in Compiles /\ stage' = [stage EXCEPT ![c] = "erase"]
    BY <1>0, <1>4, Zenon DEF Submit, Stage
  <2> QED
    BY <1>0, <2>1, <2>2 DEF InShaderTable, InPipelineTable, Compiling
<1>5. ASSUME NEW f \in Calls, BuildPipeline(f) PROVE Kept
  BY <1>0, <1>5 DEF BuildPipeline, Stage, OwnerInv, InShaderTable, InPipelineTable, Compiling, shaderVars, pipelineVars
<1>6. ASSUME NEW f \in Calls, CheckMemory(f) PROVE Kept
  BY <1>0, <1>6 DEF CheckMemory, Stage, OwnerInv, InShaderTable, InPipelineTable, Compiling, shaderVars, pipelineVars
<1>7. ASSUME NEW f \in Calls, Load(f) PROVE Kept
  BY <1>0, <1>7 DEF Load, Stage, OwnerInv, InShaderTable, InPipelineTable, Compiling, pipelineVars
<1>8. ASSUME NEW f \in Calls, RunDxc(f) PROVE Kept
  BY <1>0, <1>8 DEF RunDxc, Stage, OwnerInv, InShaderTable, InPipelineTable, Compiling, shaderVars, pipelineVars
<1>9. ASSUME NEW f \in Calls, Store(f) PROVE Kept
  BY <1>0, <1>9 DEF Store, Stage, OwnerInv, InShaderTable, InPipelineTable, Compiling, pipelineVars
<1>10. ASSUME NEW f \in Calls, Remember(f) PROVE Kept
  BY <1>0, <1>10 DEF Remember, Stage, OwnerInv, InShaderTable, InPipelineTable, Compiling, pipelineVars
<1>11. ASSUME NEW f \in Calls, SetPromise(f) PROVE Kept
  BY <1>0, <1>11 DEF SetPromise, Stage, OwnerInv, InShaderTable, InPipelineTable, Compiling, shaderVars, pipelineVars
<1>12. ASSUME NEW f \in Calls, Finish(f) PROVE Kept
  BY <1>0, <1>12 DEF Finish, Stage, OwnerInv, InShaderTable, InPipelineTable, Compiling, shaderVars, pipelineVars
<1>13. ASSUME NEW f \in Calls, CallBack(f) PROVE Kept
  <2>1. /\ UNCHANGED <<flights, inFlight>> /\ stage[f] = "calling"
        /\ stage' = stage \/ stage' = [stage EXCEPT ![f] = "ended"]
    BY <1>13 DEF CallBack, Stage, shaderVars, pipelineVars
  <2> QED
    BY <1>0, <2>1 DEF InShaderTable, InPipelineTable, Compiling
<1> HIDE DEF Kept
<1>14. Kept \/ (\E c \in Calls : AskNewShader(c) \/ AskNewPipeline(c) \/ Erase(c))
       \/ \E fence \in 0..MaxFence : PublishReady(fence)
  BY <1>1, <1>2, <1>3, <1>4, <1>5, <1>6, <1>7, <1>8, <1>9, <1>10, <1>11, <1>12, <1>13 DEF Next, CallStep, FlightStep
<1> QED
  BY <1>14 DEF Kept

(* A flight under way stays in its table, and no other enters it.          *)
LEMMA TableStep ==
    ASSUME IInv, [Next]_vars
    PROVE  TableInv'
<1>0. /\ stage \in [Calls -> Stages] /\ None \notin Calls
      /\ flights \in [ShaderKeys -> Compiles \cup {None}]
      /\ inFlight \in [PipelineKeys -> PipelineCalls \cup {None}]
      /\ \A c \in Calls : OwnerInv(c)
      /\ \A c \in Calls : (c \in Compiles \/ c \in PipelineCalls) /\ ~(c \in Compiles /\ c \in PipelineCalls)
      /\ \A c \in Compiles : c \in Calls /\ Key[c] \in ShaderKeys
      /\ \A c \in PipelineCalls : c \in Calls /\ Key[c] \in PipelineKeys
  BY Facts DEF IInv, Types, TypeOK
<1> DEFINE ShadersIn == \A f \in Compiles : InShaderTable(f) => flights[Key[f]] = f
           ShadersOf == \A k \in ShaderKeys : flights[k] # None => Key[flights[k]] = k /\ InShaderTable(flights[k])
           PipelinesIn == \A f \in PipelineCalls : InPipelineTable(f) => inFlight[Key[f]] = f
           PipelinesOf == \A k \in PipelineKeys : inFlight[k] # None =>
                              Key[inFlight[k]] = k /\ stage[inFlight[k]] # "none"
<1>00. ShadersIn /\ ShadersOf /\ PipelinesIn /\ PipelinesOf
  BY DEF IInv, TableInv
<1>1. ASSUME NEW c \in Calls, AskNewShader(c) PROVE TableInv'
  <2>1. /\ c \in Compiles /\ flights[Key[c]] = None /\ inFlight' = inFlight /\ stage[c] = "none"
        /\ flights' = [flights EXCEPT ![Key[c]] = c] /\ stage' = [stage EXCEPT ![c] = "open"]
    BY <1>0, <1>1 DEF AskNewShader, AskNew, AskRest, OwnerInv
  <2>2. ShadersIn'
    BY <1>0, <1>00, <2>1 DEF InShaderTable
  <2>3. ShadersOf'
    BY <1>0, <1>00, <2>1 DEF InShaderTable
  <2>4. PipelinesIn' /\ PipelinesOf'
    BY <1>0, <1>00, <2>1 DEF InPipelineTable
  <2> QED
    BY <2>2, <2>3, <2>4 DEF TableInv
<1>2. ASSUME NEW c \in Calls, AskNewPipeline(c) PROVE TableInv'
  <2>1. /\ c \in PipelineCalls /\ inFlight[Key[c]] = None /\ flights' = flights /\ stage[c] = "none"
        /\ inFlight' = [inFlight EXCEPT ![Key[c]] = c] /\ stage' = [stage EXCEPT ![c] = "open"]
    BY <1>0, <1>2 DEF AskNewPipeline, AskNew, AskRest, OwnerInv
  <2>2. PipelinesIn'
    BY <1>0, <1>00, <2>1 DEF InPipelineTable
  <2>3. PipelinesOf'
    BY <1>0, <1>00, <2>1
  <2>4. ShadersIn' /\ ShadersOf'
    BY <1>0, <1>00, <2>1 DEF InShaderTable
  <2> QED
    BY <2>2, <2>3, <2>4 DEF TableInv
<1>3. ASSUME NEW f \in Calls, Erase(f) PROVE TableInv'
  <2>1. /\ stage[f] = "erase" /\ stage' = [stage EXCEPT ![f] = "complete"] /\ inFlight' = inFlight
        /\ flights' = [flights EXCEPT ![Key[f]] = IF @ = f THEN None ELSE @]
    BY <1>3 DEF Erase, Stage, pipelineVars
  <2>2. f \in Compiles /\ Key[f] \in ShaderKeys /\ flights[Key[f]] = f
    BY <1>0, <1>00, <2>1 DEF OwnerInv, Compiling, InShaderTable
  <2>3. flights' = [flights EXCEPT ![Key[f]] = None] /\ ~InShaderTable(f)'
    BY <1>0, <2>1, <2>2 DEF InShaderTable, Compiling
  <2>4. \A g \in Calls \ {f} : stage'[g] = stage[g]
    BY <1>0, <2>1
  <2>5. ShadersIn'
    BY <1>0, <1>00, <2>2, <2>3, <2>4 DEF InShaderTable
  <2>6. ShadersOf'
    BY <1>0, <1>00, <2>2, <2>3, <2>4 DEF InShaderTable
  <2>7. PipelinesIn' /\ PipelinesOf'
    BY <1>0, <1>00, <2>1, <2>2, <2>4 DEF InPipelineTable
  <2> QED
    BY <2>5, <2>6, <2>7 DEF TableInv
<1>4. ASSUME NEW fence \in 0..MaxFence, PublishReady(fence) PROVE TableInv'
  <2> DEFINE ready == {f \in PipelineCalls : inFlight[Key[f]] = f /\ Ready(f)}
  <2>1. /\ UNCHANGED <<stage, flights>>
        /\ inFlight' = [k \in PipelineKeys |-> IF inFlight[k] \in ready THEN None ELSE inFlight[k]]
    BY <1>4 DEF PublishReady, flightVars, shaderVars
  <2>2. \A f \in PipelineCalls : InPipelineTable(f) => f \notin ready
    BY DEF InPipelineTable, Ready
  <2> HIDE DEF ready
  <2>3. PipelinesIn'
    BY <1>0, <1>00, <2>1, <2>2 DEF InPipelineTable
  <2>4. PipelinesOf'
    BY <1>0, <1>00, <2>1
  <2>5. ShadersIn' /\ ShadersOf'
    BY <1>00, <2>1 DEF InShaderTable
  <2> QED
    BY <2>3, <2>4, <2>5 DEF TableInv
<1> QED
  BY <1>1, <1>2, <1>3, <1>4, TableCases, TablesKept

(* Every step, for what the pipeline service's tables see of it.           *)
LEMMA PipelineCases ==
    ASSUME IInv, [Next]_vars
    PROVE  \/ UNCHANGED <<active, inFlight, idsByKey, activeKeyById>>
           \/ \E c \in Calls : AskNewPipeline(c)
           \/ \E fence \in 0..MaxFence : PublishReady(fence)
<1> DEFINE Same == UNCHANGED <<active, inFlight, idsByKey, activeKeyById>>
<1>1. ASSUME NEW c \in Calls, CompileAsync(c) \/ Request(c) \/ AdapterRequest(c) PROVE Same \/ AskNewPipeline(c)
  BY <1>1, AskCases DEF AskTurnedAway, AskHit, AskJoin, AskNewShader, AskNew, AskRest
<1>2. ASSUME NEW c \in Calls, CallStep(c) PROVE Same
  BY <1>2 DEF CallStep, Attach, CallHere, Submit, AdapterAccept, pipelineVars
<1>3. ASSUME NEW f \in Calls, FlightStep(f) PROVE Same
  BY <1>3 DEF FlightStep, BuildPipeline, CheckMemory, Load, RunDxc, Store, Remember, Erase, SetPromise,
     Finish, CallBack, pipelineVars
<1>4. ASSUME \/ \E c \in AdapterCalls : Release(c)
             \/ \E fence \in 0..MaxFence : Retire(fence)
             \/ ClearMemoryCache \/ Shutdown \/ ShutdownEnd \/ UNCHANGED vars
      PROVE  Same
  BY <1>4 DEF Release, Retire, ClearMemoryCache, Shutdown, ShutdownEnd, vars, pipelineVars
<1> QED
  BY <1>1, <1>2, <1>3, <1>4 DEF Next

(* PublishReady moves whole ids: the key of the build that stays becomes    *)
(* active, every other key of the id that was active or completed goes.     *)
LEMMA PublishTables ==
    ASSUME IInv, NEW fence \in 0..MaxFence, PublishReady(fence)
    PROVE  PipelineInv'
<1> DEFINE ready == {f \in PipelineCalls : inFlight[Key[f]] = f /\ Ready(f)}
           made  == {f \in ready : value[f] = f}
           moved == {Id[Key[f]] : f \in made}
           failed == {Key[f] : f \in ready \ made}
<1>0. /\ None \notin Calls /\ None \notin PipelineKeys
      /\ \A c \in PipelineCalls : c \in Calls /\ Key[c] \in PipelineKeys
      /\ \A k \in PipelineKeys : Id[k] \in Ids
      /\ inFlight \in [PipelineKeys -> PipelineCalls \cup {None}]
      /\ \A k \in PipelineKeys : inFlight[k] # None => Key[inFlight[k]] = k
  BY Facts DEF IInv, Types, TypeOK, TableInv
<1>00. \A k \in PipelineKeys :
        /\ ~(active[k] # None /\ inFlight[k] # None)
        /\ k \in idsByKey <=> active[k] # None \/ inFlight[k] # None
        /\ active[k] # None <=> activeKeyById[Id[k]] = k
  BY DEF IInv, PipelineInv
<1>1. PICK last \in [moved -> made] :
        /\ \A i \in moved : Id[Key[last[i]]] = i
        /\ LET stays == {last[i] : i \in moved}
               displaced == {k \in PipelineKeys : Id[k] \in moved /\ active[k] # None} \cup {Key[f] : f \in made \ stays}
           IN  /\ active' = [k \in PipelineKeys |->
                      IF \E f \in stays : Key[f] = k THEN inFlight[k]
                      ELSE IF k \in displaced THEN None ELSE active[k]]
               /\ activeKeyById' = [i \in Ids |-> IF i \in moved THEN Key[last[i]] ELSE activeKeyById[i]]
               /\ idsByKey' = (idsByKey \ displaced) \ {Key[f] : f \in ready \ made}
  BY Zenon DEF PublishReady
<1>2. inFlight' = [k \in PipelineKeys |-> IF inFlight[k] \in ready THEN None ELSE inFlight[k]]
  BY DEF PublishReady
<1> DEFINE stays == {last[i] : i \in moved}
           displaced == {k \in PipelineKeys : Id[k] \in moved /\ active[k] # None} \cup {Key[f] : f \in made \ stays}
<1> SUFFICES ASSUME NEW k \in PipelineKeys
             PROVE  /\ ~(active'[k] # None /\ inFlight'[k] # None)
                    /\ k \in idsByKey' <=> active'[k] # None \/ inFlight'[k] # None
                    /\ active'[k] # None <=> activeKeyById'[Id[k]] = k
  BY DEF PipelineInv
<1>3. \A f \in ready : Key[f] = k <=> inFlight[k] = f
  BY <1>0
<1>4. /\ made \subseteq ready /\ None \notin ready /\ stays \subseteq made
      /\ \A i \in moved : last[i] \in made
  BY <1>0
<1>5. (\E f \in stays : Key[f] = k) <=> inFlight[k] \in stays
  BY <1>3, <1>4
<1>6. k \in failed <=> inFlight[k] \in ready \ made
  BY <1>3, <1>4
<1>7. k \in displaced <=> (Id[k] \in moved /\ active[k] # None) \/ inFlight[k] \in made \ stays
  BY <1>3, <1>4
<1>8. inFlight[k] \in made => Id[k] \in moved
  BY <1>3, <1>4
<1>9. inFlight[k] \in stays <=> Id[k] \in moved /\ Key[last[Id[k]]] = k
  <2>1. ASSUME inFlight[k] \in stays PROVE Id[k] \in moved /\ Key[last[Id[k]]] = k
    <3>1. PICK i \in moved : inFlight[k] = last[i]
      BY <2>1
    <3>2. Key[last[i]] = k /\ Id[Key[last[i]]] = i
      BY <1>1, <1>3, <1>4, <3>1
    <3> QED
      BY <3>1, <3>2
  <2>2. ASSUME Id[k] \in moved, Key[last[Id[k]]] = k PROVE inFlight[k] \in stays
    BY <1>3, <1>4, <2>2
  <2> QED
    BY <2>1, <2>2
<1>10. /\ active'[k] = IF \E f \in stays : Key[f] = k THEN inFlight[k]
                       ELSE IF k \in displaced THEN None ELSE active[k]
       /\ activeKeyById'[Id[k]] = IF Id[k] \in moved THEN Key[last[Id[k]]] ELSE activeKeyById[Id[k]]
       /\ k \in idsByKey' <=> k \in idsByKey /\ k \notin displaced /\ k \notin failed
       /\ inFlight'[k] = IF inFlight[k] \in ready THEN None ELSE inFlight[k]
  BY <1>0, <1>1, <1>2
<1>11. /\ ~(active[k] # None /\ inFlight[k] # None)
       /\ k \in idsByKey <=> active[k] # None \/ inFlight[k] # None
       /\ active[k] # None <=> activeKeyById[Id[k]] = k
  BY <1>00
<1> HIDE DEF ready, made, moved, failed, stays, displaced
<1> QED
  BY <1>4, <1>5, <1>6, <1>7, <1>8, <1>9, <1>10, <1>11

(* The pipeline service's tables stay in step.                             *)
LEMMA PipelineStep ==
    ASSUME IInv, [Next]_vars
    PROVE  PipelineInv'
<1>0. /\ None \notin Calls /\ inFlight \in [PipelineKeys -> PipelineCalls \cup {None}]
      /\ \A c \in PipelineCalls : c \in Calls /\ Key[c] \in PipelineKeys
      /\ PipelineInv
  BY Facts DEF IInv, Types, TypeOK
<1>1. ASSUME UNCHANGED <<active, inFlight, idsByKey, activeKeyById>> PROVE PipelineInv'
  BY <1>0, <1>1 DEF PipelineInv
<1>2. ASSUME NEW c \in Calls, AskNewPipeline(c) PROVE PipelineInv'
  BY <1>0, <1>2 DEF PipelineInv, AskNewPipeline, AskNew, AskRest
<1> QED
  BY <1>1, <1>2, PipelineCases, PublishTables

LEMMA InitHolds == Init => IInv
<1> SUFFICES ASSUME Init PROVE IInv
  OBVIOUS
<1>0. /\ None \notin Calls /\ None \notin ShaderKeys \cup PipelineKeys
      /\ AdapterCalls \subseteq Calls /\ \A k \in PipelineKeys : Id[k] \in Ids
  BY CompileAssumption DEF Calls, Compiles, Ids
<1>1. TypeOK
  <2>1. callbacks \in [Calls -> Seq(Calls)] /\ called \in [Calls -> Nat]
    BY DEF Init
  <2> QED
    BY <2>1 DEF Init, TypeOK
<1>2. LocalsOK
  BY DEF Init, LocalsOK, Stages
<1>3. StageInv
  BY <1>0 DEF Init, StageInv, OwnerInv, Compiling
<1>4. TableInv
  <2>1. \A c \in Compiles \cup PipelineCalls : stage[c] = "none"
    BY DEF Init, Calls, Compiles
  <2>2. (\A k \in ShaderKeys : flights[k] = None) /\ (\A k \in PipelineKeys : inFlight[k] = None)
    BY DEF Init
  <2> QED
    BY <2>1, <2>2 DEF TableInv, InShaderTable, InPipelineTable, Compiling
<1>5. PipelineInv
  BY <1>0 DEF Init, PipelineInv
<1>6. ListInv
  <2>1. \A f \in Calls : callbacks[f] = <<>> /\ called[f] = 0 /\ pc[f] = "idle"
    BY DEF Init
  <2>2. 1..Len(<<>>) = {}
    OBVIOUS
  <2> QED
    BY <2>1, <2>2 DEF ListInv, ListOK, CallOK, Attached
<1>7. AdapterInv
  BY <1>0 DEF Init, AdapterInv
<1> QED
  BY <1>1, <1>2, <1>3, <1>4, <1>5, <1>6, <1>7 DEF IInv, Types

(***************************************************************************)
(* The invariant, and what it says of the services.                        *)
(***************************************************************************)
\* The strengthened invariant is inductive.
THEOREM InvariantHolds == Spec => []IInv
<1>1. IInv /\ [Next]_vars => IInv'
  BY TypeStep, StageStep, TableStep, PipelineStep, ListStep, AdapterStep DEF IInv
<1> QED
  BY <1>1, InitHolds, PTL DEF Spec

\* However calls, completions and publications interleave, whatever the submitter
\* refuses: a callback runs at most once and after its future is ready, and one
\* that has not run when its call returned waits in a flight that will run it.
THEOREM CallbacksRunOnce == Spec => []AttachesAreCalledOnce
<1>1. IInv => AttachesAreCalledOnce
  <2> SUFFICES ASSUME IInv, NEW c \in Calls \ AdapterCalls
               PROVE  LET f == flightOf[c]
                          waits == f # None /\ stage[f] # "ended" /\ \E i \in 1..Len(callbacks[f]) : callbacks[f][i] = c
                      IN  /\ called[c] <= 1
                          /\ called[c] = 1 /\ f # None => Ready(f)
                          /\ pc[c] = "returned" => (called[c] = 1) # waits
    BY Zenon DEF AttachesAreCalledOnce
  <2> DEFINE f == flightOf[c]
  <2>1. /\ CallOK(c) /\ (f # None => ListOK(f))
    BY Facts DEF IInv, ListInv
  <2>2. called[c] <= 1 /\ (called[c] = 1 /\ f # None => Ready(f))
    BY <2>1 DEF CallOK, Ready, Done
  <2>3. ASSUME pc[c] = "returned", called[c] = 1
        PROVE  ~(f # None /\ \E i \in 1..Len(callbacks[f]) : callbacks[f][i] = c)
    BY <2>1, <2>3 DEF ListOK
  <2>4. ASSUME pc[c] = "returned", called[c] # 1
        PROVE  f # None /\ stage[f] # "ended" /\ \E i \in 1..Len(callbacks[f]) : callbacks[f][i] = c
    <3>1. f # None /\ \E i \in 1..Len(callbacks[f]) : callbacks[f][i] = c
      BY <2>1, <2>4 DEF CallOK, Attached, Listed
    <3>2. callbacks[f] # <<>>
      BY <3>1
    <3> QED
      BY <2>1, <3>1, <3>2 DEF ListOK
  <2> QED
    BY <2>2, <2>3, <2>4
<1> QED
  BY <1>1, InvariantHolds, PTL

\* A key is built by one task at a time, the one its table names, and the tables
\* of the pipeline service agree after every publication, whatever completed
\* together and in whatever order.
THEOREM ServiceTablesAgree == Spec => []TablesAgree
<1>1. IInv => TablesAgree
  <2> SUFFICES ASSUME IInv PROVE TablesAgree
    OBVIOUS
  <2>1. ASSUME NEW f \in Calls, Building(f)
        PROVE  IF f \in PipelineCalls THEN inFlight[Key[f]] = f ELSE flights[Key[f]] = f
    <3>1. /\ OwnerInv(f) /\ stage \in [Calls -> Stages]
          /\ (f \in Compiles \/ f \in PipelineCalls) /\ ~(f \in Compiles /\ f \in PipelineCalls)
      BY Facts
    <3>2. CASE f \in PipelineCalls
      <4>1. InPipelineTable(f)
        BY <2>1, <3>1, <3>2 DEF Building, InPipelineTable, OwnerInv, Compiling
      <4> QED
        BY <3>2, <4>1 DEF IInv, TableInv
    <3>3. CASE f \in Compiles /\ f \notin PipelineCalls
      <4>1. InShaderTable(f)
        BY <2>1 DEF Building, InShaderTable, Compiling
      <4> QED
        BY <3>3, <4>1 DEF IInv, TableInv
    <3> QED
      BY <3>1, <3>2, <3>3
  <2> QED
    BY <2>1, Zenon DEF TablesAgree, IInv, Types, PipelineInv
<1> QED
  BY <1>1, InvariantHolds, PTL

\* When the adapter's Shutdown returned, none of its requests is inside the
\* compiler or has a compile under way.
THEOREM NothingOutlivesShutdown == Spec => []ShutdownIsFinal
<1>1. IInv => ShutdownIsFinal
  <2> SUFFICES ASSUME IInv, closing = "closed", NEW c \in AdapterCalls
               PROVE  /\ jobs[c] = "none"
                      /\ pc[c] \in {"idle", "closed"} \/ (pc[c] = "returned" /\ FutureReady(c))
    BY DEF ShutdownIsFinal
  <2>1. lock = None /\ jobs[c] = "none" /\ c # None /\ pc[c] \in Labels
    BY Facts DEF IInv, AdapterInv
  <2> QED
    BY <2>1 DEF IInv, AdapterInv, Labels
<1> QED
  BY <1>1, InvariantHolds, PTL
==============================================================================
