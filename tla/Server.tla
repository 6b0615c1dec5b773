------------------------------- MODULE Server --------------------------------
(***************************************************************************)
(* A server process: Startup until it listens, then Serving, whose           *)
(* generations are GLM forwards (GlmForward) when the GLM family is served   *)
(* and runs of the other models (Generation, MoeDecode, LayerStream) when    *)
(* not: those appear here only by their outcome.                             *)
(***************************************************************************)
EXTENDS Startup, GlmForward, Serving

vars == <<startVars, glmVars, serveVars>>

CONSTANT PromptTokens    \* tokens of a prompt, for the prefill

(* The plan of a GLM server is made with the top-k of its routes and with an *)
(* estimate of an expert's bytes, which may be too low (RoutesFit).          *)
ASSUME ServerAssumption ==
  /\ Callers = Threads /\ PromptTokens \in Nat \ {0}
  /\ \A b \in Boots : b.main = "glm" /\ b.conf.bf16 =>
       /\ b.conf.profile.expert > 0
       /\ b.conf.profile.topk <= b.conf.profile.experts
       /\ \A ids \in Routes : Len(ids) <= b.conf.profile.topk

Init == StartInit /\ GlmInit /\ ServeInit

(* The executor is configured where the plan is made; experts are bound if   *)
(* it computes them and the container holds them as BF16.                    *)
Starting ==
  /\ StartNext
  /\ pool' = IF pc = "open" /\ pc' = "warm"
             THEN Configured(plan'.slots, plan'.vram, mode = "pure_gpu" /\ Conf.bf16)
             ELSE pool
  /\ UNCHANGED <<fwd, rows, throws, spilled, serveVars>>

Glm == family = "glm"
Quiet == UNCHANGED <<bootVars, bankVars>>
Still == UNCHANGED <<glmVars, dev>>

UserActs == pc = "listening" /\ (PageNext \/ Refuse(Conf.key)) /\ Quiet /\ Still
Handle(t) == pc = "listening" /\ (Accept(t, Conf.key) \/ Reply(t)) /\ Quiet /\ Still

(* generate(): the prefill, then a forward after every token but the last.   *)
Generate(t) ==
  /\ pc = "listening" /\ Enqueue(t) /\ Quiet
  /\ IF Glm /\ ~job[t].bad THEN StartForward(t, PromptTokens, TRUE) ELSE Still
Decode(t) ==
  /\ pc = "listening" /\ Emit(t) /\ Quiet
  /\ IF Glm THEN StartForward(t, 1, FALSE) ELSE Still
Forward(t) == /\ pc = "listening" /\ job[t].at = "generate" /\ ForwardStep(t)
              /\ Quiet /\ UNCHANGED serveVars
GenerateEnds(t) ==
  /\ pc = "listening" /\ Return(t) /\ fwd[t].at = "idle"
  /\ Quiet /\ Still
GenerateThrows(t) ==
  /\ pc = "listening" /\ Throw(t) /\ Quiet
  /\ \/ ForwardThrows(t)
     \/ /\ fwd[t].at = "idle" /\ (job[t].bad \/ throws < MaxThrows)
        /\ throws' = IF job[t].bad THEN throws ELSE throws + 1
        /\ UNCHANGED <<pool, fwd, rows, spilled, dev>>

Next ==
  \/ Starting \/ UserActs
  \/ \E t \in Threads : Handle(t) \/ Generate(t) \/ Decode(t) \/ Forward(t)
                        \/ GenerateEnds(t) \/ GenerateThrows(t)

Spec == Init /\ [][Next]_vars

(* Half of the budget of a plan has room for a route, if the plan was made   *)
(* with no less than is uploaded for an expert.  For a quantised container it *)
(* is made with a quarter of three BF16 matrices, less than the one that is  *)
(* bound if it is BF16: pinning a route may evict what it has just pinned.   *)
RoutesFit ==
  pool.bound /\ ExpertBytes <= Conf.profile.expert => \A ids \in Routes : RouteFits(ids)

(* ForwardsAreSound: HandlesStayLive, RoutesFit, PoolBooksExact and          *)
(* RowsInOrder.  About: residency_gpu.cpp and exec_gpu.cpp under concurrent  *)
(* forwards of glm_flash_model.cpp, the plan they are configured with, and   *)
(* the books device_free leaves as they are.                                *)
ForwardsAreSound == HandlesStayLive /\ RoutesFit /\ PoolBooksExact /\ RowsInOrder
=============================================================================
