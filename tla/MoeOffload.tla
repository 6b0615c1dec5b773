----------------------------- MODULE MoeOffload -----------------------------
(***************************************************************************)
(* Experts of an INT4 MoE model on the GPU: the slot cache of               *)
(* moe/offload_cache.cpp over the host banks of moe/host_banks.cpp, driven  *)
(* by the forward pass of Qwen36MoeInt4Model.                               *)
(*                                                                         *)
(* A slot is a number; slot_for_id_ and id_of_slot_ say which expert of     *)
(* which layer it stands for.  Prefill borrows the first 2E slots as two    *)
(* halves that hold whole layers.  A token's feed-forward rewrites its      *)
(* routed experts to slots, hands those left over to a CPU task that runs   *)
(* beside the GPU, and adds up what both computed.  Which occupied slot was *)
(* used least recently is left open.                                        *)
(***************************************************************************)
EXTENDS Integers, FiniteSets, Sequences, Functions

CONSTANTS NumLayers,     \* layers of the model
          MoeLayers,     \* those with experts
          NumExperts,    \* experts of a MoE layer
          TopK,          \* experts a token is routed to
          Configs        \* settings: [slots, overlap, backend, frac]; frac in quarters

ASSUME MoeOffloadAssumption ==
  /\ NumLayers \in Nat \ {0} /\ NumExperts \in Nat \ {0}
  /\ TopK \in 1 .. NumExperts
  /\ MoeLayers \subseteq 0 .. NumLayers - 1
  /\ Configs \subseteq [slots : Int, overlap : BOOLEAN, backend : {"cpu", "offload", "hybrid"},
                       frac : 0 .. 4]

VARIABLES cfg,           \* OffloadCacheConfig after init_moe_offload
          banked,        \* layers whose arena is filled
          slotFor,       \* slot_for_id_
          idOf,          \* id_of_slot_
          active,        \* prefill_active_
          buf,           \* prefill_buf_
          bufLayer,      \* prefill_layer_of_buf_
          pc,            \* where the forward pass stands
          prefill,       \* the pass is a prefill
          layer,         \* layer of the pass
          ffn,           \* the running feed-forward: order, slots of the positions
                         \* ensured so far, overflow, missed, protect, fetch
          task,          \* the std::async task: "none", "running", "done"
          gpuOk,         \* gpu_ok
          done           \* how often each expert has been added to the output

cacheVars == <<slotFor, idOf, active, buf, bufLayer>>
setupVars == <<cfg, banked>>
passVars  == <<pc, prefill, layer>>
ffnVars   == <<ffn, task, gpuOk, done>>
vars      == <<setupVars, cacheVars, passVars, ffnVars>>

Layers  == 0 .. NumLayers - 1
Experts == 0 .. NumExperts - 1
Flats   == Layers \X Experts
NoFlat  == <<-1, -1>>
NoSlot  == -1
Shared  == -1                      \* the shared expert, in `done`
Slots   == 0 .. cfg.size - 1
Ready   == banked # {}

NoFfn   == [order |-> <<>>, slots |-> <<>>, overflow |-> {}, missed |-> {},
            protect |-> {}, fetch |-> 0]
Nothing == [e \in Experts \cup {Shared} |-> 0]

-----------------------------------------------------------------------------
(* Set-up *)

(* init_moe_offload: with prefill overlap the cache has at least two layers *)
(* of slots, and so it has when no size is given.                           *)
SizeOf(asked) ==
  IF asked.slots <= 0 \/ (asked.overlap /\ asked.slots < 2 * NumExperts)
  THEN 2 * NumExperts ELSE asked.slots

Init ==
  /\ cfg = [size |-> 0, overlap |-> FALSE, backend |-> "cpu", frac |-> 0]
  /\ banked = {}
  /\ slotFor = [f \in Flats |-> NoSlot] /\ idOf = <<>>
  /\ active = FALSE /\ buf = 0 /\ bufLayer = [b \in {0, 1} |-> -1]
  /\ pc = "setup" /\ prefill = FALSE /\ layer = 0
  /\ ffn = NoFfn /\ task = "none" /\ gpuOk = FALSE /\ done = Nothing

(* fill_from_qlwc banks the MoE layers in order and stops at the first that *)
(* the budget or the memory has no room for; a layer that runs out of       *)
(* memory half-way is given back.                                           *)
Setup ==
  /\ pc = "setup" /\ pc' = "idle"
  /\ \E asked \in Configs, stop \in 0 .. NumLayers :
       /\ cfg' = [size |-> SizeOf(asked), overlap |-> asked.overlap,
                  backend |-> asked.backend, frac |-> asked.frac]
       /\ idOf' = [s \in 0 .. SizeOf(asked) - 1 |-> NoFlat]
       /\ banked' = {l \in MoeLayers : l < stop}
  /\ UNCHANGED <<slotFor, active, buf, bufLayer, prefill, layer, ffnVars>>

-----------------------------------------------------------------------------
(* The slot maps.  c is a record of both.                                   *)

Maps == [slotFor |-> slotFor, idOf |-> idOf]

(* Mutant: the expert always loses its slot. *)
ClearAlways(c, S) ==
  [slotFor |-> [f \in Flats |-> IF \E s \in S : c.idOf[s] = f THEN NoSlot ELSE c.slotFor[f]],
   idOf    |-> [s \in Slots |-> IF s \in S THEN NoFlat ELSE c.idOf[s]]]

(* clear_slot of some slots: an expert loses its slot only if that is its   *)
(* current one.                                                             *)
Clear(c, S) ==
  [slotFor |-> [f \in Flats |-> IF c.slotFor[f] \in S /\ c.idOf[c.slotFor[f]] = f
                                THEN NoSlot ELSE c.slotFor[f]],
   idOf    |-> [s \in Slots |-> IF s \in S THEN NoFlat ELSE c.idOf[s]]]

AssignSlot(c, s, f) ==
  LET d == Clear(c, {s})
  IN  [slotFor |-> [d.slotFor EXCEPT ![f] = s], idOf |-> [d.idOf EXCEPT ![s] = f]]

(* Mutant: protected slots may be taken.                                    *)
VictimsUnprotected(c, protect) ==
  LET free == {s \in Slots : c.idOf[s] = NoFlat}
  IN  IF free # {} THEN free ELSE Slots

(* alloc_slot_lru: outside the prefill halves if any slot there is not      *)
(* protected, else anywhere; the first free slot, else one in use.          *)
Victims(c, protect) ==
  LET reserved == IF cfg.overlap THEN 2 * NumExperts ELSE 0
      outside  == {s \in Slots : s >= reserved} \ protect
      region   == IF outside # {} THEN outside ELSE Slots \ protect
      free     == {s \in region : c.idOf[s] = NoFlat}
  IN  IF free # {} THEN {CHOOSE s \in free : \A r \in free : s <= r} ELSE region

(* nfetch of ensure_experts_hybrid: the fraction of the misses, rounded,    *)
(* and at least one if the fraction is not zero.                            *)
Fetches(nmiss) ==
  LET n == (2 * cfg.frac * nmiss + 4) \div 8
  IN  IF nmiss > 0 /\ cfg.frac > 0 /\ n = 0 THEN 1 ELSE n

(* prefetch_prefill_layer: one half is emptied and given to every expert of *)
(* the layer, whatever slot the expert had before.                          *)
Base(b) == IF b = 0 THEN 0 ELSE NumExperts
Half(b) == Base(b) .. Base(b) + NumExperts - 1

FillHalf(c, b, l) ==
  LET d == Clear(c, Half(b))
  IN  [slotFor |-> [f \in Flats |-> IF f[1] = l THEN Base(b) + f[2] ELSE d.slotFor[f]],
       idOf    |-> [s \in Slots |-> IF s \in Half(b) THEN <<l, s - Base(b)>> ELSE d.idOf[s]]]

(* on_prefill_layer: this layer and the next, each if it is banked.  p is   *)
(* the maps with the buffer's state.                                        *)
PrefetchLayer(p, l) ==
  IF l \notin banked THEN p
  ELSE [c        |-> FillHalf(p.c, p.buf, l),
        buf      |-> 1 - p.buf,
        bufLayer |-> [p.bufLayer EXCEPT ![p.buf] = l]]

(* release_prefill_layer: both halves that hold the layer are emptied.      *)
ReleaseLayer(p, l) ==
  LET halves == {b \in {0, 1} : p.bufLayer[b] = l}
  IN  [c        |-> Clear(p.c, UNION {Half(b) : b \in halves}),
       buf      |-> p.buf,
       bufLayer |-> [b \in {0, 1} |-> IF b \in halves THEN -1 ELSE p.bufLayer[b]]]

Buffers == [c |-> Maps, buf |-> buf, bufLayer |-> bufLayer]
SetMaps(c)    == slotFor' = c.slotFor /\ idOf' = c.idOf
SetBuffers(p) == SetMaps(p.c) /\ buf' = p.buf /\ bufLayer' = p.bufLayer

-----------------------------------------------------------------------------
(* The forward pass *)

StartPass ==
  /\ pc = "idle" /\ pc' = "layer" /\ layer' = 0
  /\ \E p \in BOOLEAN :
       /\ prefill' = p
       /\ IF p /\ Ready
          THEN active' = cfg.overlap /\ buf' = 0 /\ bufLayer' = [b \in {0, 1} |-> -1]
          ELSE UNCHANGED <<active, buf, bufLayer>>
  /\ UNCHANGED <<setupVars, slotFor, idOf, ffnVars>>

Overlapping == prefill /\ Ready /\ active

EnterLayer ==
  /\ pc = "layer"
  /\ IF Overlapping /\ layer \in MoeLayers
     THEN SetBuffers(PrefetchLayer(PrefetchLayer(Buffers, layer), layer + 1))
     ELSE UNCHANGED <<slotFor, idOf, buf, bufLayer>>
  /\ pc' = IF layer \in MoeLayers THEN "token" ELSE "leave"
  /\ UNCHANGED <<setupVars, active, prefill, layer, ffnVars>>

LastLayer(l) == l + 1 >= NumLayers

LeaveLayer ==
  /\ pc = "leave"
  /\ IF Overlapping THEN SetBuffers(ReleaseLayer(Buffers, layer))
     ELSE UNCHANGED <<slotFor, idOf, buf, bufLayer>>
  /\ IF LastLayer(layer) THEN pc' = "idle" /\ UNCHANGED layer
     ELSE pc' = "layer" /\ layer' = layer + 1
  /\ UNCHANGED <<setupVars, active, prefill, ffnVars>>

-----------------------------------------------------------------------------
(* moe_ffn_token *)

Routings == {o \in [1 .. TopK -> Experts] : IsInjective(o)}

(* ensure_experts and ensure_experts_hybrid begin.  The latter protects      *)
(* every hit before it evicts and fetches only part of the misses; the CPU  *)
(* back end leaves every expert to the task.                                *)
Hits(order) == {e \in Range(order) : slotFor[<<layer, e>>] # NoSlot}
Begun(order) ==
  IF cfg.backend = "cpu"
  THEN [NoFfn EXCEPT !.order = order, !.slots = [i \in 1 .. TopK |-> NoSlot],
                     !.overflow = Range(order)]
  ELSE IF cfg.backend = "hybrid"
  THEN [NoFfn EXCEPT !.order = order, !.fetch = Fetches(TopK - Cardinality(Hits(order))),
                     !.protect = {slotFor[<<layer, e>>] : e \in Hits(order)}]
  ELSE [NoFfn EXCEPT !.order = order, !.fetch = TopK]

Offload ==
  /\ pc = "token" /\ layer \in banked /\ pc' = "ensure"
  /\ \E order \in Routings : ffn' = Begun(order)
  /\ task' = "none" /\ gpuOk' = FALSE /\ done' = Nothing
  /\ UNCHANGED <<setupVars, cacheVars, prefill, layer>>

(* One position of the top-k: a hit, a miss left to the CPU, a miss that     *)
(* gets a slot, or, when no slot is left, an exception, which ends the pass *)
(* with the maps as they are.                                               *)
Position == Len(ffn.slots) + 1
Ensuring == pc = "ensure" /\ Position <= TopK
Wanted   == <<layer, ffn.order[Position]>>
EnsureVars == <<setupVars, active, buf, bufLayer, prefill, layer, task, gpuOk, done>>

Hit ==
  /\ Ensuring /\ slotFor[Wanted] # NoSlot
  /\ ffn' = [ffn EXCEPT !.slots = Append(@, slotFor[Wanted]),
                        !.protect = @ \cup {slotFor[Wanted]}]
  /\ UNCHANGED <<pc, slotFor, idOf, EnsureVars>>

Spill ==
  /\ Ensuring /\ slotFor[Wanted] = NoSlot /\ ffn.fetch = 0
  /\ ffn' = [ffn EXCEPT !.slots = Append(@, NoSlot), !.overflow = @ \cup {Wanted[2]}]
  /\ UNCHANGED <<pc, slotFor, idOf, EnsureVars>>

Miss ==
  /\ Ensuring /\ slotFor[Wanted] = NoSlot /\ ffn.fetch > 0
  /\ \E t \in Victims(Maps, ffn.protect) :
       /\ SetMaps(AssignSlot(Maps, t, Wanted))
       /\ ffn' = [ffn EXCEPT !.slots = Append(@, t), !.protect = @ \cup {t},
                             !.missed = @ \cup {t}, !.fetch = @ - 1]
  /\ UNCHANGED <<pc, EnsureVars>>

NoSlotLeft ==
  /\ Ensuring /\ slotFor[Wanted] = NoSlot /\ ffn.fetch > 0
  /\ Victims(Maps, ffn.protect) = {}
  /\ pc' = "idle" /\ ffn' = NoFfn
  /\ UNCHANGED <<slotFor, idOf, EnsureVars>>

(* All positions are done: the task for what is left to the CPU.            *)
Ensured ==
  /\ pc = "ensure" /\ Position > TopK /\ pc' = "gpu"
  /\ task' = IF ffn.overflow = {} THEN "none" ELSE "running"
  /\ UNCHANGED <<setupVars, cacheVars, prefill, layer, ffn, gpuOk, done>>

AddTo(d, S) == [e \in DOMAIN d |-> IF e \in S THEN d[e] + 1 ELSE d[e]]

(* A layer without a bank: every routed expert is read into the store,      *)
(* which may throw and end the pass, and computed from there.               *)
Legacy ==
  /\ pc = "token" /\ layer \notin banked
  /\ \E order \in Routings :
       \/ /\ ffn' = [NoFfn EXCEPT !.order = order] /\ pc' = "added"
          /\ done' = AddTo(Nothing, Range(order) \cup {Shared})
       \/ ffn' = NoFfn /\ pc' = "idle" /\ done' = Nothing
  /\ UNCHANGED <<setupVars, cacheVars, prefill, layer, task, gpuOk>>

(* The experts views_for_slot hands to the GPU: what the slot stands for.   *)
OnGpu == {idOf[ffn.slots[i]][2] : i \in {j \in 1 .. TopK : ffn.slots[j] # NoSlot}}

(* Mutant: after a failed fused call the whole top-k runs on the host.      *)
FallbackWhole == Range(ffn.order)

(* The experts run on the host instead, by their place in the routing.      *)
Fallback == {ffn.order[i] : i \in {j \in 1 .. TopK : ffn.slots[j] # NoSlot}}

(* copy_missing, then the fused GPU path, which includes the shared expert, *)
(* or the same experts on the host if it fails.                             *)
GpuPart ==
  /\ pc = "gpu" /\ pc' = "join"
  /\ gpuOk' \in (IF OnGpu = {} THEN {FALSE} ELSE BOOLEAN)
  /\ done' = AddTo(done, IF gpuOk' THEN OnGpu \cup {Shared} ELSE Fallback)
  /\ UNCHANGED <<setupVars, cacheVars, prefill, layer, ffn, task>>

(* An allocation in between throws: the pass ends when the task has, since  *)
(* the future's destructor waits for it.                                    *)
GpuThrows ==
  /\ pc = "gpu" /\ pc' = "unwind"
  /\ UNCHANGED <<setupVars, cacheVars, prefill, layer, ffnVars>>

Unwound ==
  /\ pc = "unwind" /\ task # "running"
  /\ pc' = "idle" /\ task' = "none" /\ ffn' = NoFfn /\ gpuOk' = FALSE /\ done' = Nothing
  /\ UNCHANGED <<setupVars, cacheVars, prefill, layer>>

TaskEnds ==
  /\ task = "running" /\ task' = "done"
  /\ UNCHANGED <<setupVars, cacheVars, passVars, ffn, gpuOk, done>>

(* cpu_fut.get(), and the shared expert where the fused path has not run.   *)
Join ==
  /\ pc = "join" /\ task # "running"
  /\ done' = AddTo(done, (IF task = "done" THEN ffn.overflow ELSE {})
                         \cup (IF gpuOk THEN {} ELSE {Shared}))
  /\ task' = "none" /\ pc' = "added"
  /\ UNCHANGED <<setupVars, cacheVars, prefill, layer, ffn, gpuOk>>

(* A pass has any number of tokens for the layer.                           *)
NextToken ==
  /\ pc = "added" /\ pc' \in {"token", "leave"}
  /\ ffn' = NoFfn /\ gpuOk' = FALSE /\ done' = Nothing
  /\ UNCHANGED <<setupVars, cacheVars, prefill, layer, task>>

Next == \/ Setup \/ StartPass \/ EnterLayer \/ LeaveLayer
        \/ Offload \/ Hit \/ Spill \/ Miss \/ NoSlotLeft \/ Ensured
        \/ Legacy \/ GpuPart \/ GpuThrows \/ Unwound
        \/ TaskEnds \/ Join \/ NextToken

Spec == Init /\ [][Next]_vars

-----------------------------------------------------------------------------
(* Properties *)

(* The two maps agree: an expert that is said to have a slot is the one the *)
(* slot stands for (slot_for_id_ and id_of_slot_, offload_cache.h).  The    *)
(* converse fails in prefill, when a layer is given its second half.        *)
SlotMapConsistent == \A f \in Flats : slotFor[f] # NoSlot => idOf[slotFor[f]] = f

(* The maps agree, and every slot a token was promised still stands for its *)
(* expert when the GPU reads it: no later position of the same top-k has     *)
(* evicted it, so no two positions share one and weights go to the right     *)
(* expert.                                                                  *)
EnsuredSlotsAreTheirs ==
  /\ SlotMapConsistent
  /\ pc = "gpu" => \A i \in 1 .. TopK :
       ffn.slots[i] # NoSlot => idOf[ffn.slots[i]] = <<layer, ffn.order[i]>>

(* However a token is split between GPU, fallback and CPU task, each routed *)
(* expert and the shared one are added to the output once, others never.    *)
EachExpertOnce ==
  pc = "added" => done = AddTo(Nothing, Range(ffn.order) \cup {Shared})

(* With prefill overlap a banked layer is wholly in its half while its      *)
(* tokens run: no token of it evicts, copies or leaves work to the CPU.     *)
PrefillNeverMisses ==
  pc = "gpu" /\ Overlapping /\ cfg.backend # "cpu" =>
    ffn.missed = {} /\ ffn.overflow = {}
=============================================================================
