----------------------------- MODULE GlmForward -----------------------------
(***************************************************************************)
(* GlmFlashModel::forward on several server threads at once: one token after *)
(* the other through every layer; attention extends the request's own cache, *)
(* then a dense block, or a MoE block that routes to TopK experts, has the   *)
(* GPU executor prefetch and pin them, computes, and releases them.  The     *)
(* threads share the executor's ExpertSlotPool, whose calls each hold its    *)
(* mutex.  The products themselves are read from the store or from the       *)
(* weight caches (DeviceCaches), never through a handle.                     *)
(***************************************************************************)
EXTENDS Integers, Sequences, FiniteSets, SequencesExt, VramBooks

CONSTANTS Callers,     \* threads that call forward()
          Layers,      \* sequence over {"dense", "moe"}
          Routes,      \* experts a MoE layer may choose, in the order of their score
          ExpertBytes, \* bound and uploaded of an expert
          MaxThrows    \* forwards that throw, uploads that fail

ASSUME GlmForwardAssumption ==
  /\ Layers \in Seq({"dense", "moe"}) /\ Len(Layers) > 0
  /\ \A ids \in Routes : ids \in Seq(ToSet(ids)) /\ ids # <<>>
  /\ ExpertBytes \in Nat \ {0} /\ MaxThrows \in Nat

VARIABLES pool,     \* cap, budget, bound, used, bytes; map: <<layer, expert>> -> device
                    \* pointer; older: lru_, as pairs, the first used less recently
          fwd,      \* thread -> where its forward is
          rows,     \* thread -> layer -> tokens in the cache (LayerKv::seq)
          throws,
          spilled   \* experts a forward that threw left in the pool
glmVars == <<pool, fwd, rows, throws, spilled>>

Idle == [at |-> "idle", pos |-> 0, last |-> 0, layer |-> 1, i |-> 1,
         ids |-> <<>>, ptr |-> <<>>, shared |-> FALSE]
NoPtr == 0
EmptyPool == [cap |-> 8, budget |-> 0, bound |-> FALSE,
              map |-> <<>>, older |-> {}, used |-> 0, bytes |-> 0]

GlmInit ==
  /\ pool = EmptyPool
  /\ fwd = [t \in Callers |-> Idle]
  /\ rows = [t \in Callers |-> [l \in 1..Len(Layers) |-> 0]]
  /\ throws = 0 /\ spilled = {}

(* ExecGpu::configure: half of the rank's budget, the plan's slots.  The     *)
(* hosts of the experts are bound when the executor computes experts and     *)
(* the container holds them as BF16.                                         *)
Configured(slots, vram, bound) ==
  [pool EXCEPT !.cap = IF slots > 0 THEN slots ELSE @, !.budget = vram \div 2, !.bound = bound]

(***************************************************************************)
(* ExpertSlotPool.  A pointer is named by g_used at its allocation, which    *)
(* never goes down.                                                         *)
(***************************************************************************)
Kept(p, S) == [p EXCEPT !.map = [x \in DOMAIN p.map \ S |-> p.map[x]],
                        !.older = {q \in p.older : q[1] \notin S /\ q[2] \notin S},
                        !.bytes = p.bytes - Cardinality(S) * ExpertBytes]
(* As if --used_ were forgotten (a mutant of Dropped).                        *)
DroppedUncounted(p, S) == Kept(p, S)
Dropped(p, S) == [Kept(p, S) EXCEPT !.used = p.used - Cardinality(S)]

(* evict_one() while there is no room, oldest first, until none is left: an  *)
(* expert goes if there is no room when all older ones have gone.            *)
Room(p, gone) == /\ p.used - gone < p.cap
                 /\ p.budget = 0 \/ p.bytes - gone * ExpertBytes + ExpertBytes <= p.budget
Evicted(p) ==
  {e \in DOMAIN p.map : ~Room(p, Cardinality({x \in DOMAIN p.map : <<x, e>> \in p.older}))}
MadeRoom(p) == Dropped(p, Evicted(p))

Touched(p, e) ==
  [p EXCEPT !.older = {q \in p.older : e \notin {q[1], q[2]}} \cup ({x \in DOMAIN p.map : x # e} \X {e})]
DeviceOf(p, e) == IF e \in DOMAIN p.map THEN p.map[e] ELSE NoPtr

(* pin_upload(): found, uploaded in the room made for it, or refused; the    *)
(* eviction stands even if the upload then fails, and a failed copy has been *)
(* charged.                                                                  *)
PinUpload(e) ==
  IF e \in DOMAIN pool.map
  THEN pool' = Touched(pool, e) /\ UNCHANGED <<dev, throws>>
  ELSE LET p == MadeRoom(pool)
       IN \/ /\ MayAlloc(ExpertBytes) /\ Alloc(ExpertBytes)
             /\ pool' = [p EXCEPT !.map = [x \in DOMAIN @ \cup {e} |->
                                             IF x = e THEN dev.used + 1 ELSE @[x]],
                                  !.older = @ \cup ((DOMAIN p.map) \X {e}), !.used = @ + 1,
                                  !.bytes = @ + ExpertBytes]
             /\ UNCHANGED throws
          \/ /\ MayAlloc(ExpertBytes) /\ throws < MaxThrows /\ throws' = throws + 1
             /\ pool' = p
             /\ Alloc(ExpertBytes) \/ UNCHANGED dev
          \/ /\ ~MayAlloc(ExpertBytes)
             /\ pool' = p /\ UNCHANGED <<dev, throws>>

PoolRelease(e) == pool' = IF e \in DOMAIN pool.map THEN Dropped(pool, {e}) ELSE pool

(***************************************************************************)
(* forward().                                                               *)
(***************************************************************************)
(* A prefill starts over from position 0; a decode continues from the first  *)
(* layer's count.                                                            *)
StartForward(t, tokens, prefill) ==
  /\ fwd[t].at = "idle"
  /\ LET from == IF prefill THEN 0 ELSE rows[t][1]
     IN /\ rows' = IF prefill THEN [rows EXCEPT ![t] = [l \in DOMAIN @ |-> 0]] ELSE rows
        /\ fwd' = [fwd EXCEPT ![t] = [Idle EXCEPT !.at = "attn", !.pos = from,
                                                  !.last = from + tokens - 1]]
  /\ UNCHANGED <<pool, throws, spilled, dev>>

(* The next layer, the next token, or the end.                               *)
NextLayer(f) ==
  IF f.layer < Len(Layers) THEN [f EXCEPT !.at = "attn", !.layer = @ + 1]
  ELSE IF f.pos < f.last THEN [f EXCEPT !.at = "attn", !.layer = 1, !.pos = @ + 1]
  ELSE Idle

Attend(t) ==
  /\ fwd[t].at = "attn"
  /\ rows' = [rows EXCEPT ![t][fwd[t].layer] = fwd[t].pos + 1]
  /\ fwd' = [fwd EXCEPT ![t].at = IF Layers[fwd[t].layer] = "moe" THEN "route" ELSE "dense"]
  /\ UNCHANGED <<pool, throws, spilled, dev>>

DenseFfn(t) ==
  /\ fwd[t].at = "dense"
  /\ fwd' = [fwd EXCEPT ![t] = NextLayer(@)]
  /\ UNCHANGED <<pool, rows, throws, spilled, dev>>

(* What the pool knows the experts of a route by: layer and number.           *)
ExpertIds(layer, ids) == [i \in DOMAIN ids |-> <<layer, ids[i]>>]

(* The executor of pure_gpu has a pool; the others' calls do nothing.         *)
InPool == {t \in Callers : fwd[t].at \in {"prefetch", "pin", "compute", "release"}}
Route(t) ==
  /\ fwd[t].at = "route"
  /\ \E ids \in Routes :
       fwd' = [u \in Callers |->
                 IF u = t THEN [fwd[t] EXCEPT !.at = "prefetch", !.i = 1,
                                              !.ids = ExpertIds(fwd[t].layer, ids),
                                              !.ptr = [i \in DOMAIN ids |-> NoPtr],
                                              !.shared = InPool # {}]
                 ELSE [fwd[u] EXCEPT !.shared = @ \/ u \in InPool]]
  /\ UNCHANGED <<pool, rows, throws, spilled, dev>>

(* The loops over the K experts, one call of the pool at a time.             *)
Turn(t, here, next) ==
  [fwd[t] EXCEPT !.at = IF fwd[t].i < Len(fwd[t].ids) THEN here ELSE next,
                 !.i = IF @ < Len(fwd[t].ids) THEN @ + 1 ELSE 1]
Expert(t) == fwd[t].ids[fwd[t].i]

Prefetch(t) ==
  /\ fwd[t].at = "prefetch"
  /\ IF pool.bound THEN PinUpload(Expert(t)) ELSE UNCHANGED <<pool, dev, throws>>
  /\ fwd' = [fwd EXCEPT ![t] = Turn(t, "prefetch", "pin")]
  /\ spilled' = spilled \cap DOMAIN pool'.map
  /\ UNCHANGED rows

Pin(t) ==
  /\ fwd[t].at = "pin"
  /\ IF pool.bound THEN PinUpload(Expert(t)) ELSE UNCHANGED <<pool, dev, throws>>
  /\ fwd' = [fwd EXCEPT ![t] = [Turn(t, "pin", "compute") EXCEPT
                                  !.ptr[fwd[t].i] = DeviceOf(pool', Expert(t))]]
  /\ spilled' = spilled \cap DOMAIN pool'.map
  /\ UNCHANGED rows

Compute(t) ==
  /\ fwd[t].at = "compute"
  /\ fwd' = [fwd EXCEPT ![t].at = "release"]
  /\ UNCHANGED <<pool, rows, throws, spilled, dev>>

Release(t) ==
  /\ fwd[t].at = "release"
  /\ IF fwd[t].ptr[fwd[t].i] # NoPtr THEN PoolRelease(Expert(t)) ELSE UNCHANGED pool
  /\ spilled' = spilled \cap DOMAIN pool'.map
  /\ fwd' = [fwd EXCEPT ![t] = IF fwd[t].i < Len(fwd[t].ids) THEN Turn(t, "release", "idle")
                               ELSE NextLayer(@)]
  /\ UNCHANGED <<rows, throws, dev>>

(* A product may throw (a tensor missing or cut short): no release follows.  *)
ForwardThrows(t) ==
  /\ fwd[t].at \in {"attn", "dense", "compute"} /\ throws < MaxThrows
  /\ throws' = throws + 1
  /\ spilled' = IF fwd[t].at = "compute"
                THEN spilled \cup (DOMAIN pool.map \cap ToSet(fwd[t].ids)) ELSE spilled
  /\ fwd' = [fwd EXCEPT ![t] = Idle]
  /\ UNCHANGED <<pool, rows, dev>>

ForwardStep(t) == \/ Attend(t) \/ DenseFfn(t) \/ Route(t) \/ Prefetch(t) \/ Pin(t)
                  \/ Compute(t) \/ Release(t)

(***************************************************************************)
(* What the forwards may rely on.                                           *)
(***************************************************************************)
(* The pool has room for all the experts of a route.                         *)
RouteFits(ids) == /\ Len(ids) <= pool.cap
                  /\ pool.budget > 0 => Len(ids) * ExpertBytes <= pool.budget

(* While an FFN computes, the memory each of its handles names is still its  *)
(* expert's, unless another request's FFN ran meanwhile (its release frees a *)
(* shared expert) or the pool is too small for the route (pinning its last   *)
(* experts evicts its first).  A handle is missing only where the books,     *)
(* which device_free never lowers, are full, an upload failed, or nothing is *)
(* bound.                                                                   *)
HandlesStayLive ==
  \A t \in Callers : fwd[t].at = "compute" =>
    \A i \in DOMAIN fwd[t].ids :
      IF fwd[t].ptr[i] # NoPtr
      THEN \/ DeviceOf(pool, fwd[t].ids[i]) = fwd[t].ptr[i]
           \/ fwd[t].shared \/ ~RouteFits(fwd[t].ids)
      ELSE ~pool.bound \/ ~MayAlloc(ExpertBytes) \/ throws > 0

(* The map, its order of use and its two counters agree, within the budget   *)
(* or with one expert alone; and between FFNs the pool holds nothing but     *)
(* what a forward that threw left behind.                                   *)
PoolBooksExact ==
  /\ \A x, y \in DOMAIN pool.map : x # y => (<<x, y>> \in pool.older <=> <<y, x>> \notin pool.older)
  /\ pool.used = Cardinality(DOMAIN pool.map) /\ pool.bytes = pool.used * ExpertBytes
  /\ pool.used <= pool.cap
  /\ pool.budget > 0 => pool.bytes <= pool.budget \/ pool.used <= 1
  /\ InPool = {} => DOMAIN pool.map \subseteq spilled

(* A layer's attention at a position finds the rows of exactly the positions *)
(* before it in its request's cache.                                         *)
RowsInOrder ==
  \A t \in Callers : fwd[t].at = "attn" => rows[t][fwd[t].layer] = fwd[t].pos
=============================================================================
