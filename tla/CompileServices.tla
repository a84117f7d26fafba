-------------------------- MODULE CompileServices --------------------------
(***************************************************************************)
(* The two services that build once per key and tell every requester:      *)
(* ShaderCompiler (with the ShaderServiceAdapter modules call it through)  *)
(* and PipelineService, on the CompletionFlight they share.                *)
(*                                                                         *)
(* A call finds its key's result, joins the flight that is making it, or   *)
(* starts one: a flight is named after the call that owns it.  Each        *)
(* section under a mutex (the service's, the flight's) is one step.  A     *)
(* flight's steps are taken by the thread that completes it, the           *)
(* submitter's or, when that refused, the owner's.  A callback may call    *)
(* back into a service: such a call begins once that callback ran.         *)
(*                                                                         *)
(* A key stands for what BuildKey hashes, a binary or payload for the      *)
(* flight that made it.  DXC, the file system and the factories are        *)
(* choices between their outcomes.                                         *)
(***************************************************************************)
EXTENDS Naturals, Sequences, FiniteSets, SequencesExt

CONSTANTS
    ShaderCalls,    \* calls of ShaderCompiler::CompileAsync with a callback
    AdapterCalls,   \* calls of ShaderServiceAdapter's Request
    PipelineCalls,  \* calls of PipelineService::Request with a callback
    Key,            \* [Calls -> Keys]: the key of each call's request
    Id,             \* [Keys -> Ids]: the recipe id a pipeline key hashes
    After,          \* [Calls -> Calls or None]: the call whose callback makes it
    Workloads,      \* bound: the sets of calls made together, one per behaviour
    MaxFence,       \* bound: retirement fence values
    None

Calls == ShaderCalls \cup AdapterCalls \cup PipelineCalls
Compiles == ShaderCalls \cup AdapterCalls
ShaderKeys == {Key[c] : c \in Compiles}
PipelineKeys == {Key[c] : c \in PipelineCalls}
Ids == {Id[k] : k \in PipelineKeys}

ASSUME CompileAssumption ==
    /\ ShaderCalls \cap AdapterCalls = {} /\ Compiles \cap PipelineCalls = {}
    /\ {None, "error", "cached", "garbage"} \cap Calls = {}
    /\ DOMAIN Key = Calls /\ DOMAIN Id = PipelineKeys
    /\ None \notin ShaderKeys \cup PipelineKeys
    /\ Workloads \subseteq SUBSET Calls

VARIABLES
    workload,       \* the calls this behaviour makes
    pc,             \* each call: idle, attach, submit, completing, calling,
                    \* returned; closed (turned away by the adapter)
    flightOf,       \* each call: the flight it joined or started
    called,         \* each call: how often its callback ran
    stage,          \* each flight: what its completing thread does next
    value,          \* each flight: the artifact it completes with
    callbacks,      \* each flight: callbacks_, or those its Finish took
    memory,         \* ShaderCompiler memory_: per key the artifact, or None
    disk,           \* its cache file: absent, torn or whole
    flights,        \* ShaderCompiler flights_: per key the flight, or None
    active,         \* PipelineService active_: per key the payload, or None
    inFlight,       \* PipelineService inFlight_: per key the flight, or None
    idsByKey,       \* the keys with an idsByKey_ entry
    activeKeyById,  \* per id the key, or None
    retired,        \* retired_
    lock,           \* the adapter's mutex: the Request inside, or None
    jobs,           \* the adapter's jobs: per call none, held, released
    closing         \* the adapter's Shutdown: open, waiting, closed

callVars == <<workload, pc, flightOf, called>>
flightVars == <<stage, value, callbacks>>
shaderVars == <<memory, disk, flights>>
pipelineVars == <<active, inFlight, idsByKey, activeKeyById, retired>>
adapterVars == <<lock, jobs, closing>>
vars == <<callVars, flightVars, shaderVars, pipelineVars, adapterVars>>

\* The promise is set; the callbacks are taken, and later ones run at once.
Ready(f) == stage[f] \in {"finish", "calling", "ended"}
Done(f) == stage[f] \in {"calling", "ended"}

\* A task of the flight is queued or at work.
Building(f) == stage[f] \in {"queued", "load", "dxc", "store", "remember"}

Init ==
    /\ workload \in Workloads
    /\ pc = [c \in Calls |-> "idle"]
    /\ flightOf = [c \in Calls |-> None]
    /\ called = [c \in Calls |-> 0]
    /\ stage = [c \in Calls |-> "none"]
    /\ value = [c \in Calls |-> None]
    /\ callbacks = [c \in Calls |-> <<>>]
    /\ memory = [k \in ShaderKeys |-> None]
    /\ disk \in [ShaderKeys -> {"absent", "torn", "whole"}]  \* an earlier session's
    /\ \A k \in ShaderKeys : disk[k] # "absent" => k \in {Key[c] : c \in workload}
    /\ flights = [k \in ShaderKeys |-> None]
    /\ active = [k \in PipelineKeys |-> None]
    /\ inFlight = [k \in PipelineKeys |-> None]
    /\ idsByKey = {}
    /\ activeKeyById = [i \in Ids |-> None]
    /\ retired = <<>>
    /\ lock = None
    /\ jobs = [c \in AdapterCalls |-> "none"]
    /\ closing = "open"

Goto(c, label) == pc' = [pc EXCEPT ![c] = label]
Stage(f, label) == stage' = [stage EXCEPT ![f] = label]

-----------------------------------------------------------------------------
(* The calls.                                                              *)

\* A call joins flight f, its own when the key has none.
Join(c, f) ==
    /\ flightOf' = [flightOf EXCEPT ![c] = f]
    /\ stage' = [stage EXCEPT ![f] = IF f = c THEN "open" ELSE @]
    /\ Goto(c, "attach")

Begins(c) == c \in workload /\ pc[c] = "idle" /\ (After[c] # None => called[After[c]] > 0)

\* CompileAsync under mutex_: the memory cache, a flight to join, or one of its own.
FindShader(c) ==
    LET k == Key[c]
    IN  \/ /\ memory[k] # None
           /\ Goto(c, "calling")
           /\ UNCHANGED <<flightOf, stage, flights>>
        \/ /\ memory[k] = None /\ flights[k] # None
           /\ Join(c, flights[k])
           /\ UNCHANGED flights
        \/ /\ memory[k] = None /\ flights[k] = None
           /\ Join(c, c)
           /\ flights' = [flights EXCEPT ![k] = c]

CompileAsync(c) ==
    /\ c \in ShaderCalls /\ Begins(c)
    /\ FindShader(c)
    /\ UNCHANGED <<workload, called, value, callbacks, memory, disk, pipelineVars, adapterVars>>

\* PipelineService::Request under mutex_: active, in flight, or a new generation.
Request(c) ==
    /\ c \in PipelineCalls /\ Begins(c)
    /\ LET k == Key[c]
       IN  \/ /\ active[k] # None
              /\ Goto(c, "calling")
              /\ UNCHANGED <<flightOf, stage, inFlight, idsByKey>>
           \/ /\ active[k] = None /\ inFlight[k] # None
              /\ Join(c, inFlight[k])
              /\ UNCHANGED <<inFlight, idsByKey>>
           \/ /\ active[k] = None /\ inFlight[k] = None
              /\ Join(c, c)
              /\ inFlight' = [inFlight EXCEPT ![k] = c]
              /\ idsByKey' = idsByKey \cup {k}
    /\ UNCHANGED <<workload, called, value, callbacks, shaderVars, active, activeKeyById, retired, adapterVars>>

\* Mutant of Attach: done_ is read before the lock that guards the list is taken.
AttachWithoutDone(c) ==
    LET f == flightOf[c]
    IN  /\ pc[c] = "attach"
        /\ callbacks' = [callbacks EXCEPT ![f] = IF c \in AdapterCalls THEN @ ELSE Append(@, c)]
        /\ Goto(c, IF f = c THEN "submit" ELSE "returned")
        /\ UNCHANGED <<workload, flightOf, called, stage, value, shaderVars, pipelineVars, adapterVars>>

\* Attach: queued while the flight is not done, run at once when it is; the
\* adapter has no callback.
Attach(c) ==
    LET f == flightOf[c]
        late == Done(f) /\ c \notin AdapterCalls
    IN  /\ pc[c] = "attach"
        /\ callbacks' = [callbacks EXCEPT ![f] = IF late \/ c \in AdapterCalls THEN @ ELSE Append(@, c)]
        /\ Goto(c, IF late THEN "calling" ELSE IF f = c THEN "submit" ELSE "returned")
        /\ UNCHANGED <<workload, flightOf, called, stage, value, shaderVars, pipelineVars, adapterVars>>

\* The callback of a hit, or of a flight already done, on the calling thread.
CallHere(c) ==
    /\ pc[c] = "calling"
    /\ called' = [called EXCEPT ![c] = IF c \in AdapterCalls THEN @ ELSE @ + 1]
    /\ Goto(c, "returned")
    /\ UNCHANGED <<workload, flightOf, flightVars, shaderVars, pipelineVars, adapterVars>>

\* Mutant of Submit: a refused task is left to the submitter.
SubmitIgnoresRefusal(c) ==
    /\ pc[c] = "submit"
    /\ \E answer \in {"queued", "open"} : Stage(c, answer)
    /\ Goto(c, "returned")
    /\ UNCHANGED <<workload, flightOf, called, value, callbacks, shaderVars, pipelineVars, adapterVars>>

\* LaunchServiceTask: the submitter takes the task, or refuses it (false or a
\* throw) and the owner completes the flight with an error artifact.
Submit(c) ==
    /\ pc[c] = "submit"
    /\ \/ /\ Stage(c, "queued")
          /\ Goto(c, "returned")
          /\ UNCHANGED value
       \/ /\ Stage(c, IF c \in PipelineCalls THEN "complete" ELSE "erase")
          /\ Goto(c, "completing")
          /\ value' = [value EXCEPT ![c] = "error"]
    /\ UNCHANGED <<workload, flightOf, called, callbacks, shaderVars, pipelineVars, adapterVars>>

-----------------------------------------------------------------------------
(* The flights.                                                            *)

\* PipelineService's task: the factory returns a payload, or nothing, or throws.
BuildPipeline(f) ==
    /\ f \in PipelineCalls /\ stage[f] = "queued"
    /\ \E made \in {f, "error"} : value' = [value EXCEPT ![f] = made]
    /\ Stage(f, "complete")
    /\ UNCHANGED <<callVars, callbacks, shaderVars, pipelineVars, adapterVars>>

\* CompileOwned, under mutex_: another compile of the key may have been remembered.
CheckMemory(f) ==
    /\ f \in Compiles /\ stage[f] = "queued"
    /\ value' = [value EXCEPT ![f] = memory[Key[f]]]
    /\ Stage(f, IF memory[Key[f]] # None THEN "erase" ELSE "load")
    /\ UNCHANGED <<callVars, callbacks, shaderVars, pipelineVars, adapterVars>>

\* Load: a whole file is remembered (under mutex_).  One whose body is short is
\* not, but the artifact keeps the bytes that were resized for it.
Load(f) ==
    /\ stage[f] = "load"
    /\ \/ /\ disk[Key[f]] = "whole"
          /\ value' = [value EXCEPT ![f] = "cached"]
          /\ memory' = [memory EXCEPT ![Key[f]] = "cached"]
          /\ Stage(f, "erase")
       \/ /\ disk[Key[f]] # "whole"
          /\ value' = [value EXCEPT ![f] = IF disk[Key[f]] = "torn" THEN "garbage" ELSE @]
          /\ Stage(f, "dxc")
          /\ UNCHANGED memory
    /\ UNCHANGED <<callVars, callbacks, disk, flights, pipelineVars, adapterVars>>

\* DXC compiles; or fails, and the artifact goes back as it is; or something
\* throws, and RunFlight makes an error artifact.
RunDxc(f) ==
    /\ stage[f] = "dxc"
    /\ \/ value' = [value EXCEPT ![f] = f] /\ Stage(f, "store")
       \/ value' = [value EXCEPT ![f] = IF @ = None THEN "error" ELSE @] /\ Stage(f, "erase")
       \/ value' = [value EXCEPT ![f] = "error"] /\ Stage(f, "erase")
    /\ UNCHANGED <<callVars, callbacks, shaderVars, pipelineVars, adapterVars>>

\* Store: a temporary of its own renamed onto the key's file.  A write that fails
\* is not noticed; a rename that fails removes the file.
Store(f) ==
    /\ stage[f] = "store"
    /\ \E file \in {"whole", "torn", "absent"} : disk' = [disk EXCEPT ![Key[f]] = file]
    /\ Stage(f, "remember")
    /\ UNCHANGED <<callVars, value, callbacks, memory, flights, pipelineVars, adapterVars>>

Remember(f) ==
    /\ stage[f] = "remember"
    /\ memory' = [memory EXCEPT ![Key[f]] = value[f]]
    /\ Stage(f, "erase")
    /\ UNCHANGED <<callVars, value, callbacks, disk, flights, pipelineVars, adapterVars>>

\* FinishFlight: out of the table first, under mutex_.
Erase(f) ==
    /\ stage[f] = "erase"
    /\ flights' = [flights EXCEPT ![Key[f]] = IF @ = f THEN None ELSE @]
    /\ Stage(f, "complete")
    /\ UNCHANGED <<callVars, value, callbacks, memory, disk, pipelineVars, adapterVars>>

\* Complete or Fail: the future first ...
SetPromise(f) ==
    /\ stage[f] = "complete"
    /\ Stage(f, "finish")
    /\ UNCHANGED <<callVars, value, callbacks, shaderVars, pipelineVars, adapterVars>>

\* ... then Finish: done_ and the callbacks taken, under the flight's mutex ...
Finish(f) ==
    /\ stage[f] = "finish"
    /\ Stage(f, "calling")
    /\ UNCHANGED <<callVars, value, callbacks, shaderVars, pipelineVars, adapterVars>>

\* ... then each callback, in the order they were attached.
CallBack(f) ==
    /\ stage[f] = "calling"
    /\ \/ /\ callbacks[f] # <<>>
          /\ called' = [called EXCEPT ![Head(callbacks[f])] = @ + 1]
          /\ callbacks' = [callbacks EXCEPT ![f] = Tail(@)]
          /\ UNCHANGED <<pc, stage>>
       \/ /\ callbacks[f] = <<>>
          /\ Stage(f, "ended")
          /\ Goto(f, "returned")
          /\ UNCHANGED <<called, callbacks>>
    /\ UNCHANGED <<workload, flightOf, value, shaderVars, pipelineVars, adapterVars>>

ClearMemoryCache ==
    /\ \E k \in ShaderKeys : memory[k] # None
    /\ memory' = [k \in ShaderKeys |-> None]
    /\ UNCHANGED <<callVars, flightVars, disk, flights, pipelineVars, adapterVars>>

-----------------------------------------------------------------------------
(* PipelineService, the owner's frame.                                     *)

\* Mutant of PublishReady: the id's previous pipeline stays active.
PublishReadyKeepsPrior(fence) ==
    LET ready == {f \in PipelineCalls : inFlight[Key[f]] = f /\ Ready(f)}
        made  == {f \in ready : value[f] = f}
    IN  /\ ready # {}
        /\ active' = [k \in PipelineKeys |-> IF \E f \in made : Key[f] = k THEN inFlight[k] ELSE active[k]]
        /\ inFlight' = [k \in PipelineKeys |-> IF inFlight[k] \in ready THEN None ELSE inFlight[k]]
        /\ idsByKey' = idsByKey \ {Key[f] : f \in ready \ made}
        /\ activeKeyById' = [i \in Ids |->
               IF \E f \in made : Id[Key[f]] = i THEN Key[CHOOSE f \in made : Id[Key[f]] = i] ELSE activeKeyById[i]]
        /\ UNCHANGED <<callVars, flightVars, shaderVars, retired, adapterVars>>

\* PublishReady: in the table's order, each completed build that has a payload
\* becomes its id's pipeline and displaces the one before it, whose payload waits
\* for the fence; a failed one is forgotten.  The last of an id, in whatever
\* order, stays.
PublishReady(fence) ==
    LET ready == {f \in PipelineCalls : inFlight[Key[f]] = f /\ Ready(f)}
        made  == {f \in ready : value[f] = f}
        moved == {Id[Key[f]] : f \in made}
    IN  /\ ready # {}
        /\ \E last \in [moved -> made] :
            /\ \A i \in moved : Id[Key[last[i]]] = i
            /\ LET stays == {last[i] : i \in moved}
                   displaced == {k \in PipelineKeys : Id[k] \in moved /\ active[k] # None} \cup {Key[f] : f \in made \ stays}
                   payloads == {active[k] : k \in PipelineKeys} \cup made
               IN  /\ active' = [k \in PipelineKeys |->
                          IF \E f \in stays : Key[f] = k THEN inFlight[k]
                          ELSE IF k \in displaced THEN None ELSE active[k]]
                   /\ activeKeyById' = [i \in Ids |-> IF i \in moved THEN Key[last[i]] ELSE activeKeyById[i]]
                   /\ idsByKey' = (idsByKey \ displaced) \ {Key[f] : f \in ready \ made}
                   /\ retired' = retired \o SetToSeq({[fence |-> fence, payload |-> f] : f \in
                          {g \in payloads \ {None} : Key[g] \in displaced}})
            /\ inFlight' = [k \in PipelineKeys |-> IF inFlight[k] \in ready THEN None ELSE inFlight[k]]
        /\ UNCHANGED <<callVars, flightVars, shaderVars, adapterVars>>

\* Retire: the queue from its front, up to the first payload still needed.
Retire(completed) ==
    /\ retired # <<>> /\ Head(retired).fence <= completed
    /\ LET needed == {i \in 1..Len(retired) : retired[i].fence > completed}
           first  == IF needed = {} THEN Len(retired) + 1 ELSE Min(needed)
       IN  retired' = SubSeq(retired, first, Len(retired))
    /\ UNCHANGED <<callVars, flightVars, shaderVars, active, inFlight, idsByKey, activeKeyById, adapterVars>>

-----------------------------------------------------------------------------
(* ShaderServiceAdapter.                                                   *)

FutureReady(c) == flightOf[c] # None => Ready(flightOf[c])

\* Mutant of AdapterRequest: open is not looked at.
AdapterRequestAlways(c) ==
    /\ c \in AdapterCalls /\ Begins(c) /\ lock = None
    /\ lock' = c
    /\ FindShader(c)
    /\ UNCHANGED <<workload, called, value, callbacks, memory, disk, pipelineVars, jobs, closing>>

\* Request, which holds the adapter's mutex across CompileAsync: turned away when
\* closed.
AdapterRequest(c) ==
    /\ c \in AdapterCalls /\ Begins(c) /\ lock = None
    /\ \/ /\ closing = "open"
          /\ lock' = c
          /\ FindShader(c)
       \/ /\ closing # "open"
          /\ Goto(c, "closed")
          /\ UNCHANGED <<lock, flightOf, stage, flights>>
    /\ UNCHANGED <<workload, called, value, callbacks, memory, disk, pipelineVars, jobs, closing>>

\* Its end: jobs released and ready are swept, this one is added.
AdapterAccept(c) ==
    /\ lock = c /\ pc[c] = "returned"
    /\ jobs' = [d \in AdapterCalls |->
           IF d = c THEN "held"
           ELSE IF jobs[d] = "released" /\ FutureReady(d) THEN "none" ELSE jobs[d]]
    /\ lock' = None
    /\ UNCHANGED <<callVars, flightVars, shaderVars, pipelineVars, closing>>

\* Release: a ready job goes, another is swept later.
Release(c) ==
    /\ lock = None /\ jobs[c] = "held"
    /\ jobs' = [jobs EXCEPT ![c] = IF FutureReady(c) THEN "none" ELSE "released"]
    /\ UNCHANGED <<callVars, flightVars, shaderVars, pipelineVars, lock, closing>>

\* Shutdown: no new jobs ...
Shutdown ==
    /\ lock = None /\ closing = "open"
    /\ closing' = "waiting"
    /\ UNCHANGED <<callVars, flightVars, shaderVars, pipelineVars, lock, jobs>>

\* ... then their futures, unlocked, then they go.
ShutdownEnd ==
    /\ lock = None /\ closing = "waiting"
    /\ \A c \in AdapterCalls : jobs[c] # "none" => FutureReady(c)
    /\ jobs' = [c \in AdapterCalls |-> "none"]
    /\ closing' = "closed"
    /\ UNCHANGED <<callVars, flightVars, shaderVars, pipelineVars, lock>>

-----------------------------------------------------------------------------
CallStep(c) == Attach(c) \/ CallHere(c) \/ Submit(c) \/ AdapterAccept(c)

FlightStep(f) ==
    \/ BuildPipeline(f) \/ CheckMemory(f) \/ Load(f) \/ RunDxc(f) \/ Store(f) \/ Remember(f)
    \/ Erase(f) \/ SetPromise(f) \/ Finish(f) \/ CallBack(f)

Next ==
    \/ \E c \in Calls : CompileAsync(c) \/ Request(c) \/ AdapterRequest(c) \/ CallStep(c) \/ FlightStep(c)
    \/ \E c \in AdapterCalls : Release(c)
    \/ \E fence \in 0..MaxFence : PublishReady(fence) \/ Retire(fence)
    \/ ClearMemoryCache \/ Shutdown \/ ShutdownEnd

Spec == Init /\ [][Next]_vars

\* Threads go on, and a submitter runs every task it took; nobody need publish,
\* retire, release or shut down.
FairSpec ==
    /\ Spec
    /\ \A c \in Calls : WF_vars(CallStep(c) \/ FlightStep(c))
    /\ WF_vars(ShutdownEnd)

-----------------------------------------------------------------------------
(* Properties.                                                             *)

\* Type invariant.
TypeOK ==
    /\ pc \in [Calls -> {"idle", "attach", "submit", "completing", "calling", "returned", "closed"}]
    /\ flightOf \in [Calls -> Calls \cup {None}]
    /\ called \in [Calls -> Nat]
    /\ callbacks \in [Calls -> Seq(Calls)]
    /\ flights \in [ShaderKeys -> Compiles \cup {None}]
    /\ memory \in [ShaderKeys -> Compiles \cup {"cached", None}]
    /\ active \in [PipelineKeys -> PipelineCalls \cup {None}]
    /\ inFlight \in [PipelineKeys -> PipelineCalls \cup {None}]
    /\ activeKeyById \in [Ids -> PipelineKeys \cup {None}]
    /\ idsByKey \subseteq PipelineKeys
    /\ lock \in AdapterCalls \cup {None}

\* "No attach is ever lost" and "exactly once" (CompletionFlight, Request): a
\* callback never runs twice nor before its future is ready, and that of a call
\* that returned ran, or is in the list of a flight that has yet to run it.
AttachesAreCalledOnce ==
    \A c \in Calls \ AdapterCalls :
        LET f == flightOf[c]
            waits == f # None /\ stage[f] # "ended" /\ \E i \in 1..Len(callbacks[f]) : callbacks[f][i] = c
        IN  /\ called[c] <= 1
            /\ called[c] = 1 /\ f # None => Ready(f)
            /\ pc[c] = "returned" => (called[c] = 1) # waits

\* What the tables say of one another, across calls, completions and
\* publications: a key is built by one task at a time, the one its table names;
\* a pipeline key is active or in flight, never both, and has its id exactly then;
\* an id has at most one active pipeline, the one activeKeyById_ names; and the
\* memory cache holds only what a compile made or a whole file held.
TablesAgree ==
    /\ TypeOK
    /\ \A f \in Calls : Building(f) =>
          IF f \in PipelineCalls THEN inFlight[Key[f]] = f ELSE flights[Key[f]] = f
    /\ \A k \in PipelineKeys :
          /\ ~(active[k] # None /\ inFlight[k] # None)
          /\ k \in idsByKey <=> active[k] # None \/ inFlight[k] # None
          /\ active[k] # None <=> activeKeyById[Id[k]] = k

Answered(c) ==
    IF c \in AdapterCalls THEN pc[c] \in {"returned", "closed"} /\ FutureReady(c) ELSE called[c] = 1

\* "No request is ever lost or left pending" (ServiceExecutor): every call made is
\* answered, whether its task ran, failed, threw or was refused, and so an
\* adapter that shuts down gets to its end.
RequestsAreAnswered ==
    <>[](closing # "waiting" /\ \A c \in Calls : pc[c] # "idle" => Answered(c))

\* Once Shutdown returned, no compile a module asked for through the adapter is
\* under way, and none begins: its compiler may go.
ShutdownIsFinal ==
    closing = "closed" => \A c \in AdapterCalls :
        /\ jobs[c] = "none"
        /\ pc[c] \in {"idle", "closed"} \/ (pc[c] = "returned" /\ FutureReady(c))
=============================================================================
