----------------------------- MODULE MoeDecode ------------------------------
(***************************************************************************)
(* The decode step of MoeModel::forward (src/src/model/moe_model.cpp)      *)
(* driving an ExpertPrefetcher: per MoE layer L the router picks the       *)
(* experts, L is planned, L + 1 is planned with the same experts, L is     *)
(* acquired, its experts are used in order, L is released.  What the       *)
(* layers compute is left out; the router's choice is arbitrary.           *)
(***************************************************************************)
EXTENDS ExpertPrefetcher

CONSTANTS Dense,      \* the layers with a dense MLP; Layers is 1..cfg_.layers
          MaxFaults   \* bound: reads, submits and weight loads that fail

VARIABLES drv,     \* the forward pass: [pc, layer, ids], and last, the ids of the layer before
          threw,   \* history: some forward pass ended in an exception
          left,    \* history: the layers whose plans such a pass left behind
          faults   \* history: the reads, submits and WeightManager::get that failed

history == <<threw, left, faults>>
mvars == <<vars, drv, history>>

ASSUME MoeDecodeAssumption ==
  /\ Cardinality(Layers) \in Nat \ {0} /\ Layers = 1..Cardinality(Layers)
  /\ Dense \subseteq Layers
  /\ MaxFaults \in Nat

AtLayer(l, last) == [pc |-> "layer", layer |-> l, ids |-> <<>>, last |-> last]
TokenStart == AtLayer(1, <<>>)

MInit ==
  /\ Init
  /\ drv = TokenStart
  /\ threw = FALSE /\ left = {} /\ faults = 0

\* The prefetcher has returned from the last call, or was never called.
Driver(pc) == own.pc = "idle" /\ drv.pc = pc

\* The layer after this one, or the first of the next token.
NextLayer == IF drv.layer + 1 \in Layers THEN AtLayer(drv.layer + 1, drv.ids) ELSE TokenStart

\* dense_mlp and continue.
DenseLayer ==
  /\ Driver("layer")
  /\ drv.layer \in Dense
  /\ drv' = NextLayer
  /\ UNCHANGED <<vars, history>>

\* The router peek: topk expert ids.
Route ==
  /\ Driver("layer")
  /\ drv.layer \notin Dense
  /\ \E ids \in Requests : drv' = [drv EXCEPT !.pc = "plan", !.ids = ids]
  /\ UNCHANGED <<vars, history>>

\* try { plan_next_layer(l, eids); } catch (...) {}
TryPlan(l) == IF plans[l] = None THEN PlanBegin(l, drv.ids) ELSE UNCHANGED vars

\* Mutant: this layer is taken to be planned already.
PlanThisAssumed ==
  /\ Driver("plan")
  /\ drv' = [drv EXCEPT !.pc = "planNext"]
  /\ UNCHANGED <<vars, history>>

PlanThis ==
  /\ Driver("plan")
  /\ TryPlan(drv.layer)
  /\ drv' = [drv EXCEPT !.pc = "planNext"]
  /\ UNCHANGED history

PlanNext ==
  /\ Driver("planNext")
  /\ IF drv.layer + 1 \in Layers THEN TryPlan(drv.layer + 1) ELSE UNCHANGED vars
  /\ drv' = [drv EXCEPT !.pc = "acquire"]
  /\ UNCHANGED history

\* An exception leaves forward(): the token is lost, the plans stay.
Leaves ==
  /\ drv' = TokenStart
  /\ threw' = TRUE
  /\ left' = {l \in Layers : plans[l] # None}

Fails == Leaves /\ UNCHANGED faults

Fault == faults < MaxFaults /\ faults' = faults + 1

\* WeightManager::get throws: in the attention, norms, dense MLP or router of the layer,
\* the shared expert or the head before it, or the second router before acquire().
WeightFails ==
  /\ Driver("layer") \/ Driver("acquire")
  /\ Leaves
  /\ Fault
  /\ UNCHANGED vars

Acquire ==
  /\ Driver("acquire")
  /\ IF plans[drv.layer] = None
       THEN Fails /\ UNCHANGED vars
       ELSE /\ AcquireBegin(drv.layer)
            /\ drv' = [drv EXCEPT !.pc = "use"]
            /\ UNCHANGED history

\* Mutant: a failed acquire() is tried again.
UseRetries ==
  /\ Driver("use")
  /\ drv' = [drv EXCEPT !.pc = IF plans[drv.layer].acquired THEN "release" ELSE "acquire"]
  /\ UNCHANGED <<vars, history>>

\* acquire() has thrown, or the experts are there.
Use ==
  /\ Driver("use")
  /\ IF plans[drv.layer].acquired
       THEN drv' = [drv EXCEPT !.pc = "release"] /\ UNCHANGED history
       ELSE Fails
  /\ UNCHANGED vars

\* Mutant: only an even layer is released (double buffering gone wrong).
ReleaseEven ==
  /\ Driver("release")
  /\ IF drv.layer % 2 = 0 THEN Release(drv.layer) ELSE UNCHANGED vars
  /\ drv' = NextLayer
  /\ left' = left \ {drv.layer}
  /\ UNCHANGED <<threw, faults>>

ReleaseLayer ==
  /\ Driver("release")
  /\ Release(drv.layer)
  /\ drv' = NextLayer
  /\ left' = left \ {drv.layer}
  /\ UNCHANGED <<threw, faults>>

DriverStep ==
  DenseLayer \/ Route \/ PlanThis \/ PlanNext \/ Acquire \/ Use \/ ReleaseLayer

\* A read settles, badly perhaps, or calls back; the call in progress goes on.
ReadMove(i) ==
  /\ Settle(i) \/ CallBack(i)
  /\ IF reads'[i] # None /\ ~reads'[i].ok THEN Fault ELSE UNCHANGED faults
  /\ UNCHANGED <<drv, threw, left>>

CallMove == OwnerStep /\ UNCHANGED <<drv, history>>

SubmitFails == SubmitThrows /\ Fault /\ UNCHANGED <<drv, threw, left>>

MNext ==
  DriverStep \/ WeightFails \/ CallMove \/ SubmitFails \/ \E i \in 1..MaxReads : ReadMove(i)

MSpec ==
  /\ MInit
  /\ [][MNext]_mvars
  /\ \A i \in 1..MaxReads : WF_mvars(ReadMove(i))
  /\ WF_mvars(CallMove)
  /\ WF_mvars(DriverStep)

---------------------------------------------------------------------------
\* A layer computes with the experts of its own router or, because a plan for it
\* exists by then and the second is refused, with those the layer before chose for
\* the same token; with those of another token only when that token ended in an
\* exception that left the layer's plan behind (moe_model.cpp:434-446; the comment
\* at :411 promises the layer's own).
OwnOrPrevious ==
  drv.pc = "release" /\ drv.layer \notin left =>
    plans[drv.layer].ids \in {Dedup(drv.ids), Dedup(drv.last)}

\* A forward pass ends in an exception only once a read, a submit() or a weight load
\* has failed: planning one layer ahead never by itself leaves a layer without a
\* plan or a slot, though every exception of the planner is swallowed
\* (moe_model.cpp:434-446, prefetch_pipeline.cpp:137, 172).
ThrowsOnlyOnFault == threw => faults > 0

\* Each layer of each token is left behind, by its output or by an exception.
LayersEnd == \A l \in Layers : drv.pc # "layer" /\ drv.layer = l ~> drv.pc = "layer"
=============================================================================
