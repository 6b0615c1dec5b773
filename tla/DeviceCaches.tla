---------------------------- MODULE DeviceCaches ----------------------------
(***************************************************************************)
(* The device copies of weights in hal/cuda_backend.cpp and the products     *)
(* computed from them.  Three caches find a copy by the host address of the  *)
(* weight: g_int4_cache (quantized, LRU with pins), g_cache (FP32) and       *)
(* g_w16_pack (16 bit).  g_used keeps their books against g_budget.          *)
(*                                                                         *)
(* A product takes pointers to its copies, uploads its input, launches, and  *)
(* copies the output back, in several sections under g_mu with the launch    *)
(* outside: what lies between belongs to nobody.  A section is one step; one *)
(* that takes several weights is a step for each, with g_mu held (`batch`).  *)
(* Products of many rows try one path after another until one succeeds.      *)
(* Callers are the threads that run generate().  The host side, which loads  *)
(* weights and frees them (WeightManager, QlwcStore), only shows as what     *)
(* lies at an address.                                                      *)
(***************************************************************************)
EXTENDS Integers, Sequences, FiniteSets, Functions

CONSTANTS Callers,
          Addrs,         \* host addresses
          Int4, Mid, Wide,  \* weights: INT4, W16 below and from kW16PackMinRows rows
          Shape,         \* weight -> its M and K
          Bytes,         \* weight -> [q, f, h]: bytes quantized, in FP32, in 16 bits
          Multi, Ffn,    \* INT4 weights one product takes: of one input, of one MLP
          Rows,          \* INT4 weights multiplied with several rows (a prefill)
          Pins,          \* INT4 weights the warm-up pins (not experts, nor lm_head)
          Spots,         \* addresses the host side may load to
          Budgets,       \* values of g_budget (0: unlimited)
          MidPad, WidePad,  \* headroom of weight_budget_ok
          Workspace,     \* what try_enable_resident_gpu reserves
          AllocBytes,    \* what one device_alloc asks for
          MaxAllocs,     \* device_alloc calls in a behaviour
          MaxFaults,     \* device calls that fail, or buffers too large, in a behaviour
          MaxLoads,      \* host loads in a behaviour
          Host0,         \* what lies at each address when the backend is enabled
          NoCaller

Weights == Int4 \cup Mid \cup Wide

ASSUME DeviceCachesAssumption ==
  /\ IsFiniteSet(Addrs) /\ NoCaller \notin Callers
  /\ Host0 = [a \in Addrs |-> Host0[a]]
  /\ Bytes \in [Weights -> [q : Nat, f : Nat, h : Nat]]
  /\ Budgets \subseteq Nat /\ Rows \cup Pins \subseteq Int4 /\ Spots \subseteq Addrs
  /\ {MidPad, WidePad, Workspace, AllocBytes, MaxAllocs, MaxFaults, MaxLoads} \subseteq Nat
  /\ \A b \in Multi \cup Ffn : b \in Seq(Int4) /\ Len(b) > 1

VARIABLES
  host,     \* address -> weight that lies there
  jit,      \* jit_available: NVRTC and the driver were found when enabled
  i4,       \* g_int4_cache: address -> [of, pin]
  before,   \* its addresses by last_use: pairs, the first used earlier
  fp, pk,   \* g_cache, g_w16_pack: address -> weight whose bytes were uploaded
  used, budget, reserve,
  enabled,
  allocs,   \* device_alloc calls so far: never given back to g_used
  over,     \* the budget was lowered or passed on purpose since it last held
  buf,      \* scratch buffer -> [by, right]: whose product it holds, and if it is right
  job,      \* caller -> its product, see Idle
  batch,    \* who holds g_mu to take several weights, see NoBatch
  wrong,    \* a product ended wrong, and none of the known causes applied
  reused,   \* addresses a weight was loaded to beside another's copy of its shape
  faults, loads
device == <<i4, before, fp, pk, used>>
callers == <<buf, job, wrong, batch>>
vars == <<host, jit, device, budget, reserve, enabled, allocs, over, callers, reused, faults, loads>>

AddrOf(w) == CHOOSE a \in Addrs : host[a] = w
Loaded(w) == \E a \in Addrs : host[a] = w
AddrsOf(S) == {AddrOf(w) : w \in S}

\* The bytes of some addresses of a cache, counted one by one, and each entry's.
Total(S, size) == Cardinality(UNION {{a} \X (1 .. size[a]) : a \in S})
Int4Bytes(cache) == [a \in DOMAIN cache |-> Bytes[cache[a].of].q]
Fp32Bytes(cache) == [a \in DOMAIN cache |-> Bytes[cache[a]].f]
PackBytes(cache) == [a \in DOMAIN cache |-> Bytes[cache[a]].h]

With(f, x, e) == [y \in DOMAIN f \cup {x} |-> IF y = x THEN e ELSE f[y]]

-----------------------------------------------------------------------------
(* The caches as a value D, and the outcomes of an ensure_ function: the     *)
(* caches after it, whether it found or made a copy, the addresses it        *)
(* evicted and the device calls that failed.                                *)
Caches(i, b, f, p, u) == [i4 |-> i, before |-> b, fp |-> f, pk |-> p, used |-> u]
Now == Caches(i4, before, fp, pk, used)
Out(D, ok, gone, f) == [D |-> D, ok |-> ok, gone |-> gone, f |-> f]

Fits(n) == budget = 0 \/ n <= budget

Unpinned(i) == {a \in DOMAIN i : ~i[a].pin}

\* Those of S that leave in the order of last_use until `need` more bytes fit.
Oldest(D, S, need) ==
  {t \in S : ~Fits(D.used + need - Total({x \in S : <<x, t>> \in D.before}, Int4Bytes(D.i4)))}

(* Mutant: pins are not looked at. *)
VictimsPinned(D, need) == Oldest(D, DOMAIN D.i4, need)

(* The LRU of ensure_int4_resident: pinned copies stay. *)
Victims(D, need) == Oldest(D, Unpinned(D.i4), need)

\* The order of use without some addresses, and with x the latest.
Without(r, S) == {e \in r : e[1] \notin S /\ e[2] \notin S}
Latest(r, cache, x) == Without(r, {x}) \cup ((DOMAIN cache \ {x}) \X {x})

Evict(D, gone) ==
  Caches(Restrict(D.i4, DOMAIN D.i4 \ gone), Without(D.before, gone), D.fp, D.pk,
         D.used - Total(gone, Int4Bytes(D.i4)))
Upload(D, x, w) ==
  Caches(With(D.i4, x, [of |-> w, pin |-> FALSE]), Latest(D.before, D.i4, x), D.fp, D.pk,
         D.used + Bytes[w].q)
Touch(D, x) == Caches(D.i4, Latest(D.before, D.i4, x), D.fp, D.pk, D.used)

\* A miss uploads three buffers or none, once what must leave has left.
Missed(D, x, w, gone) ==
  LET E == Evict(D, gone)
  IN  IF ~Fits(E.used + Bytes[w].q) THEN {Out(E, FALSE, gone, 0)}
      ELSE {Out(E, FALSE, gone, 1), Out(Upload(E, x, w), TRUE, gone, 0)}

(* Mutant: a hit is not the latest use. *)
EnsureInt4NoTouch(D, w) ==
  LET x == AddrOf(w)
  IN  IF x \in DOMAIN D.i4 THEN {Out(D, Shape[D.i4[x].of] = Shape[w], {}, 0)}
      ELSE Missed(D, x, w, Victims(D, Bytes[w].q))

(* Mutant: the budget is not tested again after the evictions. *)
EnsureInt4Unchecked(D, w) ==
  LET x == AddrOf(w)
      gone == Victims(D, Bytes[w].q)
  IN  IF x \in DOMAIN D.i4 THEN {Out(D, Shape[D.i4[x].of] = Shape[w], {}, 0)}
      ELSE {Out(Upload(Evict(D, gone), x, w), TRUE, gone, 0)}

(* ensure_int4_resident.  A hit needs the shape.                             *)
EnsureInt4(D, w) ==
  LET x == AddrOf(w)
  IN  IF x \notin DOMAIN D.i4 THEN Missed(D, x, w, Victims(D, Bytes[w].q))
      ELSE IF Shape[D.i4[x].of] # Shape[w] THEN {Out(D, FALSE, {}, 0)}
      ELSE {Out(Touch(D, x), TRUE, {}, 0)}

(* ensure_int4_device, ensure_fp32_matrix (pad 0) and ensure_w16_fp32 share  *)
(* g_cache; ensure_w16_pack has its own.  Neither evicts.                    *)
CopyFp32(D, x, w) == Caches(D.i4, D.before, With(D.fp, x, w), D.pk, D.used + Bytes[w].f)
CopyPack(D, x, w) == Caches(D.i4, D.before, D.fp, With(D.pk, x, w), D.used + Bytes[w].h)

EnsureCopy(D, w, cache, E, pad) ==
  LET x == AddrOf(w)
  IN  IF x \in DOMAIN cache THEN {Out(D, Shape[cache[x]] = Shape[w], {}, 0)}
      ELSE IF ~Fits(E.used + pad) THEN {Out(D, FALSE, {}, 0)}
      ELSE {Out(D, FALSE, {}, 1), Out(E, TRUE, {}, 0)}

EnsureFp32(D, w) == EnsureCopy(D, w, D.fp, CopyFp32(D, AddrOf(w), w), 0)
EnsureMid(D, w)  == EnsureCopy(D, w, D.fp, CopyFp32(D, AddrOf(w), w), MidPad)
EnsureWide(D, w) == EnsureCopy(D, w, D.pk, CopyPack(D, AddrOf(w), w), WidePad)

Put(D) == /\ i4' = D.i4 /\ before' = D.before /\ fp' = D.fp /\ pk' = D.pk /\ used' = D.used
Fail(n) == faults + n <= MaxFaults /\ faults' = faults + n

-----------------------------------------------------------------------------
(* Products.  The kind of a product says which buffers it goes through.      *)
Idle == [pc |-> "idle",          \* or "try", "ensure", "stage", "launch", "fold", "copy"
         kind |-> "none", ws |-> {}, rest |-> <<>>,  \* paths not tried yet
         live |-> TRUE,          \* no eviction has freed a copy it points to
         own |-> TRUE,           \* every copy it uses holds the bytes of its weight
         large |-> FALSE,        \* its weights did not fit beside what cannot be evicted
         disturbed |-> FALSE]    \* another thread used its buffers, or evicted its copies

(* g_dx, g_dy; g_mlp_x, and g_mlp_norm for the other g_mlp_ buffers;         *)
(* g_tc_w_f16 and g_tc_x_f16; g_dequant_scratch.                            *)
Buffers == {"dx", "dy", "mlp_x", "mlp_norm", "tc", "scratch"}
From(k) == CASE k \in {"gemv", "vocab", "jit", "tc"} -> "dx"
             [] k \in {"norm", "mlp", "out"} -> "mlp_x"
             [] OTHER -> "none"
To(k) == CASE k \in {"gemv", "vocab", "jit", "norm"} -> "dy"
           [] k \in {"mlp", "out"} -> "mlp_norm"
           [] OTHER -> k
Touched(k) == CASE k = "none" -> {}
                [] k = "norm" -> {"mlp_x", "mlp_norm", "dy"}
                [] k = "tc" -> {"dx", "dy", "tc"}
                [] k = "scratch" -> {"dx", "dy", "scratch"}
                [] k = "vocab" -> {"dx", "dy", "tc", "scratch"}
                [] OTHER -> {From(k), To(k)}

\* A batch: the kind of its product, the weights not taken yet, the addresses it
\* has pointers to that its later evictions spared, and if none failed.
NoBatch == [by |-> NoCaller, kind |-> "none", todo |-> <<>>, live |-> {}, ok |-> TRUE]
Free == batch.by = NoCaller   \* g_mu, for a section of one step

Busy(c) == job[c].pc # "idle"
Holds(b, c) == buf[b] = [by |-> c, right |-> TRUE]
Filled(b, c, right) == [buf EXCEPT ![b] = [by |-> c, right |-> right]]

(* What a step of c on a product of kind k does to the others' products.     *)
Others(c, k, gone) ==
  [d \in Callers |->
     LET hit == AddrsOf(job[d].ws) \cap gone # {}
     IN  [job[d] EXCEPT !.live = @ /\ ~hit,
            !.disturbed = @ \/ (d # c /\ (hit \/ Touched(k) \cap Touched(job[d].kind) # {}))]]

(* What an INT4 batch needs, beside all that no eviction can give, is more    *)
(* than the budget.                                                         *)
TooLarge(S) ==
  LET own == {a \in AddrsOf(S) : a \notin DOMAIN i4 \/ ~i4[a].pin}
  IN  ~Fits(used - Total(Unpinned(i4), Int4Bytes(i4))
            + Total(own, [a \in own |-> Bytes[host[a]].q]))

(* A product of S of kind k that has its pointers.                           *)
Product(k, S, rest, live, own) ==
  [Idle EXCEPT !.kind = k, !.ws = S, !.rest = rest, !.live = live, !.own = own,
               !.large = S \subseteq Int4 /\ TooLarge(S)]
(* What is left of a call when a path of it failed: the next one, or false.  *)
Failed(S, rest) ==
  IF rest = <<>> THEN Idle ELSE [Idle EXCEPT !.pc = "try", !.ws = S, !.rest = rest]

(* A section that ends with the pointers taken and the input uploaded.       *)
Take(c, p, D, f, gone) ==
  /\ Fail(f) /\ Put(D)
  /\ buf' = IF From(p.kind) = "none" THEN buf ELSE Filled(From(p.kind), c, TRUE)
  /\ job' = [Others(c, p.kind, gone) EXCEPT ![c] = [p EXCEPT !.pc = "launch"]]
  /\ wrong' = wrong

(* A section that only takes the pointers: the upload follows in another.    *)
Hold(c, p, D, f, gone) ==
  /\ Fail(f) /\ Put(D)
  /\ job' = [Others(c, "none", gone) EXCEPT ![c] = [p EXCEPT !.pc = "stage"]]
  /\ UNCHANGED <<buf, wrong>>

(* A section that answers false.                                            *)
Declined(c, k, S, rest, D, f, gone) ==
  /\ Fail(f) /\ Put(D)
  /\ job' = [Others(c, k, gone) EXCEPT ![c] = Failed(S, rest)]
  /\ UNCHANGED <<buf, wrong>>

(* A section that computes the whole product under the lock (gemm_dev,       *)
(* gemm_dev_batch), or fails on the way: the copy is made by then, and stays. *)
Computed(c, w, D, f, right, gone) ==
  /\ Fail(f) /\ Put(D)
  /\ buf' = [Filled("dx", c, TRUE) EXCEPT !["dy"] = [by |-> c, right |-> right]]
  /\ wrong' = (wrong \/ ~(right \/ AddrOf(w) \in reused))
  /\ job' = [Others(c, "gemv", gone) EXCEPT ![c] = Idle]
Whole(c, w, rest, D, f, right, gone) ==
  \/ Computed(c, w, D, f, right, gone)
  \/ Declined(c, "gemv", {w}, rest, D, f + 1, gone)

Books == <<budget, reserve, enabled, allocs, over>>
HostSide == <<host, jit, Books, reused, loads>>

Start(c, S) == enabled /\ Free /\ ~Busy(c) /\ \A w \in S : Loaded(w)

(* try_gemm_int4, try_gemm_int4_batch of one row.  Without a JIT the quantized *)
(* copy, made all the same, is no use: the product goes by one in FP32.      *)
GemmInt4(c, w) ==
  /\ Start(c, {w})
  /\ \E o \in EnsureInt4(Now, w) :
       \/ /\ o.ok /\ jit
          /\ Take(c, Product("gemv", {w}, <<>>, TRUE, o.D.i4[AddrOf(w)].of = w), o.D, o.f, o.gone)
       \/ /\ ~(o.ok /\ jit)
          /\ \E p \in EnsureFp32(o.D, w) :
               IF p.ok THEN Whole(c, w, <<>>, p.D, o.f + p.f, p.D.fp[AddrOf(w)] = w, o.gone)
                       ELSE Declined(c, "none", {w}, <<>>, p.D, o.f + p.f, o.gone)
  /\ UNCHANGED <<HostSide, batch>>

(* try_gemm_int4_batch of more rows: fewer than 64, fewer than 512, more.    *)
Paths == {<<"fp32", "jit">>,
          <<"tc", "jit", "scratch", "fp32">>,
          <<"scratch", "fp32", "jit", "tc">>}

(* try_cublas_fp32_batch: the whole product under the lock.                  *)
Fp32Path(c, w, rest) ==
  \E o \in EnsureFp32(Now, w) :
    IF o.ok THEN Whole(c, w, rest, o.D, o.f, o.D.fp[AddrOf(w)] = w, {})
            ELSE Declined(c, "none", {w}, rest, o.D, o.f, {})

(* try_int4_jit_batch, and tc_gemm_int4_batch_f16 where cublasGemmEx exists:  *)
(* the pointer in one section, the upload of a chunk in another.             *)
StagedPath(c, k, w, rest) ==
  \/ \E o \in EnsureInt4(Now, w) :
       IF o.ok /\ jit
       THEN Hold(c, Product(k, {w}, rest, TRUE, o.D.i4[AddrOf(w)].of = w), o.D, o.f, o.gone)
       ELSE Declined(c, "none", {w}, rest, o.D, o.f, o.gone)
  \/ k = "tc" /\ Declined(c, "none", {w}, rest, Now, 0, {})

(* try_gemm_int4_batch_cublas_scratch: dequantized outside the lock, then     *)
(* multiplied under it.  The scratch buffer may fail to grow.                *)
ScratchPath(c, w, rest) ==
  \E o \in EnsureInt4(Now, w) :
    IF o.ok /\ jit
    THEN \/ Take(c, Product("scratch", {w}, rest, TRUE, o.D.i4[AddrOf(w)].of = w), o.D, o.f, o.gone)
         \/ Declined(c, "scratch", {w}, rest, o.D, o.f + 1, o.gone)
    ELSE Declined(c, "none", {w}, rest, o.D, o.f, o.gone)

Attempt(c, w, paths) ==
  CASE Head(paths) = "fp32"    -> Fp32Path(c, w, Tail(paths))
    [] Head(paths) = "scratch" -> ScratchPath(c, w, Tail(paths))
    [] OTHER                   -> StagedPath(c, Head(paths), w, Tail(paths))

GemmRows(c, w) ==
  /\ Start(c, {w})
  /\ \E paths \in Paths : Attempt(c, w, paths)
  /\ UNCHANGED <<HostSide, batch>>

NextPath(c) ==
  /\ Free /\ job[c].pc = "try"
  /\ \E w \in job[c].ws : Attempt(c, w, job[c].rest)
  /\ UNCHANGED <<HostSide, batch>>

(* Products of several weights take all their pointers in one section.       *)
Begin(c, k, ws) ==
  /\ batch' = [by |-> c, kind |-> k, todo |-> ws, live |-> {}, ok |-> TRUE]
  /\ job' = [job EXCEPT ![c] = [Idle EXCEPT !.pc = "ensure", !.ws = Range(ws)]]
  /\ UNCHANGED <<device, buf, wrong, faults>>

\* A failure ends the batch, or (the MLP's) the others are still uploaded.
Insists(k) == k \in {"mlp", "out"}

EnsureNext(c) ==
  /\ batch.by = c /\ batch.todo # <<>> /\ (batch.ok \/ Insists(batch.kind))
  /\ \E o \in EnsureInt4(Now, Head(batch.todo)) :
       /\ Fail(o.f) /\ Put(o.D)
       /\ job' = [Others(c, "none", o.gone) EXCEPT ![c] = job[c]]
       /\ batch' = [batch EXCEPT
             !.todo = Tail(@), !.ok = @ /\ o.ok,
             !.live = (@ \ o.gone) \cup (IF o.ok THEN {AddrOf(Head(batch.todo))} ELSE {})]
  /\ UNCHANGED <<HostSide, buf, wrong>>

BatchOf(c) ==
  LET S == job[c].ws
  IN  Product(batch.kind, S, <<>>, batch.live = AddrsOf(S),
              \A w \in S : AddrOf(w) \in DOMAIN i4 => i4[AddrOf(w)].of = w)

BatchTaken(c) ==
  /\ batch.by = c /\ batch.todo = <<>> /\ batch.ok
  /\ IF batch.kind = "jit" THEN Hold(c, BatchOf(c), Now, 0, {})
                           ELSE Take(c, BatchOf(c), Now, 0, {})
  /\ batch' = NoBatch
  /\ UNCHANGED HostSide

BatchFailed(c) ==
  /\ batch.by = c /\ ~batch.ok /\ (batch.todo = <<>> \/ ~Insists(batch.kind))
  /\ Declined(c, IF batch.kind \in {"gemv", "jit"} THEN "none" ELSE batch.kind,
              job[c].ws, <<>>, Now, 0, {})
  /\ batch' = NoBatch
  /\ UNCHANGED HostSide

(* try_gemm_int4_multi, and try_gemm_int4_batch_multi with its chunks.       *)
GemmMulti(c, ws) ==
  /\ jit /\ Start(c, Range(ws))
  /\ \E k \in {"gemv", "jit"} : Begin(c, k, ws)
  /\ UNCHANGED HostSide

(* The fused products of the resident mode, and that of the experts of a     *)
(* layer (try_moe_ffn_int4), which asks for no resident mode.  Their own     *)
(* buffers come first and may fail to grow.                                  *)
Fused(c, k, ws) ==
  /\ jit /\ Start(c, Range(ws))
  /\ \/ Declined(c, k, Range(ws), <<>>, Now, 1, {}) /\ UNCHANGED batch
     \/ Begin(c, k, ws)
  /\ UNCHANGED HostSide

Resident == enabled /\ reserve = Workspace

RmsnormMulti(c, ws) == Resident /\ Fused(c, "norm", ws)
MlpDecode(c, ws) == Resident /\ Fused(c, "mlp", ws)
OutMlp(c, ws) == Resident /\ Fused(c, "out", ws)
MoeFfn(c, ws) == Fused(c, "mlp", ws)

(* try_gemm_w16: mid-size weights under the lock, vocabulary ones not.       *)
GemmW16(c, w) ==
  /\ Start(c, {w})
  /\ \/ /\ w \in Mid
        /\ \E o \in EnsureMid(Now, w) :
             IF o.ok THEN Whole(c, w, <<>>, o.D, o.f, o.D.fp[AddrOf(w)] = w, {})
                     ELSE Declined(c, "none", {w}, <<>>, o.D, o.f, {})
     \/ /\ w \in Wide
        /\ \E o \in EnsureWide(Now, w) :
             IF o.ok THEN Take(c, Product("vocab", {w}, <<>>, TRUE, o.D.pk[AddrOf(w)] = w),
                               o.D, o.f, {})
                     ELSE Declined(c, "none", {w}, <<>>, o.D, o.f, {})
  /\ UNCHANGED <<HostSide, batch>>

(* try_gemm_awq, try_gemm_nvfp4: dequantized copies, under the lock.         *)
GemmDequantized(c, w) ==
  /\ Start(c, {w})
  /\ \E o \in EnsureFp32(Now, w) :
       IF o.ok THEN Whole(c, w, <<>>, o.D, o.f, o.D.fp[AddrOf(w)] = w, {})
               ELSE Declined(c, "none", {w}, <<>>, o.D, o.f, {})
  /\ UNCHANGED <<HostSide, batch>>

MidStep(c, at) == job[c].pc = at /\ UNCHANGED <<HostSide, device, batch>>

(* The upload of a chunk, in a section of its own.                           *)
Stage(c) ==
  /\ Free /\ MidStep(c, "stage")
  /\ buf' = Filled(From(job[c].kind), c, TRUE)
  /\ job' = [Others(c, job[c].kind, {}) EXCEPT ![c].pc = "launch"]
  /\ UNCHANGED <<wrong, faults>>

(* The kernels, on what now lies in the buffers and where the pointers point. *)
Launch(c) ==
  /\ jit /\ MidStep(c, "launch")
  /\ LET k == job[c].kind
     IN  /\ buf' = Filled(To(k), c, /\ From(k) # "none" => Holds(From(k), c)
                                    /\ job[c].own /\ job[c].live)
         /\ job' = [Others(c, k, {}) EXCEPT ![c].pc = IF k = "out" THEN "fold" ELSE "copy"]
  /\ UNCHANGED <<wrong, faults>>

(* try_out_mlp_resident: the attention's residual becomes the MLP's input.   *)
Fold(c) ==
  /\ Free /\ MidStep(c, "fold")
  /\ buf' = Filled("mlp_x", c, Holds("mlp_norm", c))
  /\ job' = [Others(c, "out", {}) EXCEPT ![c].pc = "launch", ![c].kind = "mlp"]
  /\ UNCHANGED <<wrong, faults>>

(* The last section copies the output to the host ("tc" and "scratch":       *)
(* multiplies first); a chunked product may go on with the next chunk.       *)
CopyBack(c) ==
  /\ Free /\ MidStep(c, "copy")
  /\ LET j == job[c]
         right == Holds(To(j.kind), c)
     IN  /\ wrong' = (wrong \/ ~(right \/ j.disturbed \/ j.large \/ AddrsOf(j.ws) \cap reused # {}))
         /\ buf' = CASE j.kind = "tc" -> Filled("dy", c, right)
                     [] j.kind = "scratch" -> [Filled("dx", c, TRUE) EXCEPT !["dy"] = [by |-> c, right |-> right]]
                     [] OTHER -> buf
         /\ \E more \in IF j.kind = "jit" THEN BOOLEAN ELSE {FALSE} :
              job' = [Others(c, j.kind, {}) EXCEPT
                        ![c] = IF more THEN [j EXCEPT !.pc = "stage"] ELSE Idle]
  /\ UNCHANGED faults

(* A device call fails on the way: the next path, or the host computes.  The  *)
(* vocabulary product finds only here that no kernel can be compiled.        *)
GiveUp(c) ==
  /\ job[c].pc = "launch" \/ (Free /\ job[c].pc \in {"stage", "fold", "copy"})
  /\ Fail(IF jit THEN 1 ELSE 0)
  /\ job' = [Others(c, job[c].kind, {}) EXCEPT ![c] = Failed(job[c].ws, job[c].rest)]
  /\ UNCHANGED <<HostSide, device, buf, wrong, batch>>

-----------------------------------------------------------------------------
(* prefetch_int4_weight (the warm-up) and prefetch_w16.                      *)
Prefetch(w) ==
  /\ enabled /\ Free /\ Loaded(w)
  /\ \/ /\ w \in Int4
        /\ \E o \in EnsureInt4(Now, w) :
             \/ o.ok /\ Fail(o.f) /\ Put(o.D) /\ job' = Others(NoCaller, "none", o.gone)
             \/ /\ ~o.ok
                /\ \E p \in EnsureFp32(o.D, w) : Fail(o.f + p.f) /\ Put(p.D)
                /\ job' = Others(NoCaller, "none", o.gone)
     \/ /\ w \notin Int4
        /\ \E o \in IF w \in Wide THEN EnsureWide(Now, w) ELSE EnsureMid(Now, w) :
             Fail(o.f) /\ Put(o.D)
        /\ UNCHANGED job
  /\ UNCHANGED <<HostSide, buf, wrong, batch>>

(* pin_int4_weight.                                                        *)
Pin(w) ==
  /\ enabled /\ Free /\ Loaded(w)
  /\ \E o \in EnsureInt4(Now, w) :
       /\ Fail(o.f)
       /\ Put(IF o.ok THEN [o.D EXCEPT !.i4[AddrOf(w)].pin = TRUE] ELSE o.D)
       /\ job' = Others(NoCaller, "none", o.gone)
  /\ UNCHANGED <<HostSide, buf, wrong, batch>>

Over(u, b) == over' = (b > 0 /\ u > b)

(* enable, set_vram_budget: the budget changes, whatever is in use.          *)
SetBudget(b) ==
  /\ Free /\ budget' = b /\ enabled' = TRUE
  /\ Over(used, b)
  /\ UNCHANGED <<host, jit, device, reserve, allocs, callers, reused, faults, loads>>

Empty == [b \in Buffers |-> [by |-> NoCaller, right |-> FALSE]]

(* disable: everything goes; nothing is in flight when the server stops.     *)
Disable ==
  /\ enabled /\ \A c \in Callers : ~Busy(c)
  /\ enabled' = FALSE
  /\ i4' = <<>> /\ before' = {} /\ fp' = <<>> /\ pk' = <<>>
  /\ used' = 0 /\ reserve' = 0 /\ allocs' = 0 /\ over' = FALSE /\ reused' = {}
  /\ buf' = Empty
  /\ UNCHANGED <<host, jit, budget, job, wrong, batch, faults, loads>>

(* try_enable_resident_gpu: LLMOC_RESIDENT_GPU=1 passes the budget.          *)
Reserve(forced) ==
  /\ enabled /\ jit /\ Free /\ reserve < Workspace
  /\ forced \/ Fits(used + Workspace - reserve)
  /\ used' = used + Workspace - reserve /\ reserve' = Workspace
  /\ over' = (over \/ ~Fits(used'))
  /\ UNCHANGED <<host, jit, i4, before, fp, pk, budget, enabled, allocs, callers, reused, faults,
                 loads>>

(* device_alloc; device_free gives nothing back to the books.                *)
Alloc ==
  /\ enabled /\ Free /\ allocs < MaxAllocs /\ Fits(used + AllocBytes)
  /\ used' = used + AllocBytes /\ allocs' = allocs + 1
  /\ UNCHANGED <<host, jit, i4, before, fp, pk, budget, reserve, enabled, over, callers, reused,
                 faults, loads>>

(* The host side frees the weight at an address when no product uses it, and *)
(* loads another there.  The device copies are not told.                    *)
CopiesAt(a) ==
  (IF a \in DOMAIN i4 THEN {i4[a].of} ELSE {}) \cup (IF a \in DOMAIN fp THEN {fp[a]} ELSE {})
    \cup (IF a \in DOMAIN pk THEN {pk[a]} ELSE {})

HostLoad(w, a) ==
  /\ ~Loaded(w) /\ loads < MaxLoads
  /\ \A c \in Callers : host[a] \notin job[c].ws
  /\ loads' = loads + 1
  /\ host' = [host EXCEPT ![a] = w]
  /\ reused' = IF \E v \in CopiesAt(a) : v # w /\ Shape[v] = Shape[w]
               THEN reused \cup {a} ELSE reused
  /\ UNCHANGED <<jit, device, Books, callers, faults>>

Init ==
  /\ host = Host0 /\ jit \in BOOLEAN
  /\ i4 = <<>> /\ before = {} /\ fp = <<>> /\ pk = <<>>
  /\ used = 0 /\ budget = 0 /\ reserve = 0 /\ enabled = FALSE /\ allocs = 0 /\ over = FALSE
  /\ buf = Empty /\ job = [c \in Callers |-> Idle]
  /\ wrong = FALSE /\ batch = NoBatch
  /\ reused = {} /\ faults = 0 /\ loads = 0

Next ==
  \/ \E c \in Callers :
       \/ \E w \in Int4 : GemmInt4(c, w)
       \/ \E w \in Rows : GemmRows(c, w)
       \/ \E b \in Multi : GemmMulti(c, b) \/ RmsnormMulti(c, b)
       \/ \E b \in Ffn : MlpDecode(c, b) \/ OutMlp(c, b) \/ MoeFfn(c, b)
       \/ \E w \in Mid \cup Wide : GemmW16(c, w)
       \/ \E w \in Mid : GemmDequantized(c, w)
       \/ EnsureNext(c) \/ BatchTaken(c) \/ BatchFailed(c)
       \/ NextPath(c) \/ Stage(c) \/ Launch(c) \/ Fold(c) \/ CopyBack(c) \/ GiveUp(c)
  \/ \E w \in Weights : Prefetch(w) \/ \E a \in Spots : HostLoad(w, a)
  \/ \E w \in Pins : Pin(w)
  \/ \E b \in Budgets : SetBudget(b)
  \/ Disable
  \/ \E forced \in BOOLEAN : Reserve(forced)
  \/ Alloc

Spec == Init /\ [][Next]_vars

-----------------------------------------------------------------------------
(* g_used is what the caches hold, the reservation, and every device_alloc    *)
(* ever made, through evictions, uploads that failed and budget changes.     *)
(* Once within the budget it stays there, unless the budget is lowered or    *)
(* the resident mode is forced.                                             *)
BooksExact ==
  /\ (budget > 0 /\ ~over) => used <= budget
  /\ used = Total(DOMAIN i4, Int4Bytes(i4)) + Total(DOMAIN fp, Fp32Bytes(fp))
            + Total(DOMAIN pk, PackBytes(pk)) + reserve + allocs * AllocBytes

(* A product that reports success is that of its own input and weights,      *)
(* unless another thread used its buffers or evicted its copies meanwhile,   *)
(* or its weights together did not fit beside what is pinned, or one of them *)
(* lies where another of the same shape lay when it was uploaded.  In        *)
(* particular a batch that fits never loses a pointer to its own later       *)
(* uploads, no path starts from what a failed one left, and products on       *)
(* separate buffers do not disturb one another.                             *)
ProductsAreOwn == ~wrong

(* A pinned weight stays on the device until disable().                      *)
PinnedStays ==
  [][enabled' => \A a \in DOMAIN i4 :
                    i4[a].pin => a \in DOMAIN i4' /\ i4'[a] = i4[a]]_vars
=============================================================================
