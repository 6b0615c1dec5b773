# TLA+ models of llm-on-cpu

llm-on-cpu serves large language models whose weights do not fit in memory: a
C++ engine that reads experts and layers from disk while it computes, keeps
what it can in RAM and on a GPU, and answers over HTTP. This directory holds
models of the parts of it where order, failure and memory reuse decide whether
the answer is right, from `main()` to the last byte of a reply, the TLC runs that
check them, and proofs, for every size of the system, about each of these models:
both read engines, the expert prefetcher and the decode step that drives it, the
weight cache in RAM and those of the device, layer streaming, the expert slots on
the GPU, generation, a session's state on the device, and the server from the
mode its start-up picks to its page and its concurrent GLM forwards.

File names below are relative to `src/src/` unless they say otherwise.

## 1. The system

```
 page ── HTTP API ── Scheduler ── Generator ── ICausalLM ─┬─ MoeModel (BF16) ── WeightManager
         (threads)                 │                       │        └─ ExpertPrefetcher ── IoEngine
                                   │                       │                                ├ threads
                                   └─ SessionCache,        │                                └ io_uring
                                      MTP head             ├─ Qwen35Int4Model ── LayerStreamLoader ── QlwcStore
                                                           │    └─ Qwen36MoeInt4Model ── OffloadMoeCache
                                                           │                          └ ExpertHostBanks
                                                           └─ GlmFlashModel ── GPU executor ── ExpertSlotPool
 CUDA backend, under all models: weight caches and their budget, the session's
 states and the residual on the device
 start-up: EngineConfig, ModeController, DeviceMesh, PlacementPlanner, file formats
```

### 1.1 Inventory

For each component: the state it keeps, its operations, whom it meets, what is
hard about it, and what makes it correct.

**IoEngine** (`weights/io_engine.cpp`, `io_engine_uring.cpp`). Asynchronous
reads of a file into caller-owned buffers.
*State*: a deque of requests, the count `inflight_`, the stop flag; in the ring
version also what is in the submission queue, the kernel, the completion queue.
*Operations*: `submit`, `drain` (a fence), the destructor, the worker's or the
ring thread's loop. *Meets*: callbacks of ExpertPrefetcher, on its own threads.
*Hard*: workers that count down in any order, a wake-up sent without the lock,
a full ring, short completions, a destructor with requests queued.
*Correct when*: the count is exact, a fence leaves every buffer final, a
callback runs once, nothing is dropped at closing, every `drain` returns.

**ExpertPrefetcher** (`weights/prefetch_pipeline.cpp`). Reads the routed
experts of a layer into a slot ahead of time, pins hot experts in RAM.
*State*: the free slots, a plan per layer, per slot its blocks and its error,
the pinned experts and their budget. *Operations*: `plan_next_layer`, `acquire`,
`release`, `open`, `close`. *Meets*: IoEngine, whose callbacks write the slot's
error from other threads. *Hard*: a plan that throws half-way with reads in
flight; pin loads that fail half-way; an error written after the fence.
*Correct when*: a slot has one owner, no read lands in a slot of somebody else,
what is acquired belongs to the layer and was read whole.

**MoeModel's decode step** (`model/moe_model.cpp`). *State*: the layer and the
routed experts. *Operations*: for each MoE layer route, plan it, plan the next,
acquire, compute, release. *Hard*: exceptions of planning are swallowed; the
next layer is planned before its router has chosen. *Correct when*: a token
computes with the experts its router chose, no token starves the next one.

**WeightManager** (`weights/weight_manager.cpp`). *State*: per tensor a tier and
its bytes, LRU order, `lru_used_`. *Operations*: `get`, `release_prefix`, open and
close, eviction under a budget. *Hard*: references handed out that the next
`get` may evict; loads that throw after they allocated. *Correct when*: the
books are exact, the budget holds, references taken together stay.

**QlwcStore** (`weights/qlwc_store.cpp`). A container of INT4 and 16-bit tensors,
loaded lazily. *State*: views, blobs, `loaded_bytes_`. *Operations*: `ensure`,
`drop_tensor`, `release_except`, open and close. *Hard*: three reads per tensor,
any of which throws. *Correct when*: a view's blobs exist, the counter covers
what is held.

**LayerStreamLoader** (`weights/layer_stream.cpp`) and the layer loop of
`model/qwen3_5_int4_model.cpp`. *State*: pinned layers, the layer being
prefetched, device copies, the loop's pack of raw pointers. *Operations*: open,
close, `prefetch_layer`, `pin_layer`, `release_layer`. *Hard*: two windows that do
not know of each other (the loader's by configuration, the loop's fixed),
raw pointers into blobs that a release frees, a pass that throws and leaves its
layers behind. *Correct when*: what a layer computes with is live, memory is
bounded by the window.

**Weight caches of the CUDA backend** (`hal/cuda_backend.cpp`). *State*: device copies
in three caches (quantized, FP32, 16 bit), found by the host address of the
weight, the LRU order and pins of the first, `g_budget` and `g_used`, and buffers
for inputs and outputs that all products share. *Operations*: `ensure_*`, pin,
budget, disable, and some ten products that take pointers under the mutex and
launch outside it. *Meets*: every model, on any thread; the host side that frees
the weights. *Hard*: host addresses are reused; an upload evicts what a batch
already took; a product falls back from path to path; two threads share buffers.
*Correct when*: the books are exact, a product uses the copies of its own weights
and its own input.

**Device-resident session** (`hal/cuda_backend.cpp`, `model/qwen3_5_int4_model.cpp`).
*State*: per linear layer a convolution window and a recurrence, at home in the
SessionCache with a copy on the device found by the home's address; the residual.
*Operations*: the resident prefill, the decode on the device activation, the host
sandwich with GPU parts, flush, invalidate, release. *Hard*: four paths, each of
which may fail in the middle and hand over to the next; rejected drafts; requests
that throw. *Correct when*: every path starts from the state the last one left.

**OffloadMoeCache, ExpertHostBanks, Qwen36MoeInt4Model** (`moe/`,
`model/qwen3_6_moe_int4_model.cpp`). *State*: slots of the GPU and the two maps
between experts and slots, prefill halves, which layers have host banks, a CPU
task for experts that found no slot. *Operations*: set-up, prefill hooks,
`ensure_experts`, the feed-forward of a token with its fused GPU path, host
fallback and asynchronous part. *Hard*: eviction inside one top-k, prefill
halves that map a layer twice, fallback after part of the work was done.
*Correct when*: a slot stands for one expert, each routed expert is added once.

**Generator** (`model/generate.cpp`) with SessionCache (`model/kv_cache.cpp`) and
the MTP head. *State*: KV length, recurrent state, token list, logits, drafts and
their snapshot, result tokens, logprobs, what has been streamed; the model's
image embeds and position. *Operations*: `generate`: prefill, plain or speculative
decoding, early stops, trimming. *Hard*: rejected drafts have been through every
cache; stops drop tokens from the middle of what was streamed; a request that
throws leaves the model's state behind. *Correct when*: a rejected draft leaves
no trace, caches are not overrun, lists stay aligned.

**Scheduler, HTTP API and its page** (`sched/scheduler.cpp`, `server/http_api.cpp`).
*State*: metrics under a mutex; the page's conversation and what it has read so
far. *Operations*: `enqueue_sync` on whichever thread cpp-httplib runs the handler;
the streamed and the whole reply; the page's submit, read and second request.
*Hard*: nothing serialises two callers; a reply may break off after its first
pieces; a lost connection does not stop the generation. *Correct when*: what the
page files as an answer is a whole one, to the conversation it shows.

**Start-up** (`server/main_*.cpp`, `sched/`, `contracts/device_mesh.cpp`, the loads of the
models, `moe/host_banks.cpp`). *State*: mode, mesh, plan, the device budget with the
slots' reserve, the host banks with what the system holds pinned or locked.
*Operations*: five servers' sequences of resolve, enable, open, load, fill, warm,
pin, listen; any of them may throw. *Hard*: 5 mains that do nearly the same; a reserve
subtracted at one line and added at another; a bank half filled. *Correct when*: a
server that listens runs in the mode, on the mesh, under the budget and with the
model it was configured for; nothing stays locked after FATAL.

**GLM forward and ExpertSlotPool** (`glm/`, `exec/gpu/`). *State*: rows per layer of
the request's cache; an LRU of device buffers with its own budget, shared by all
requests. *Operations*: a forward per token: attend, route, prefetch, pin, compute,
release; the pool's calls. *Hard*: two forwards in one pool, one releases what the
other computes with; `device_free` gives nothing back to the books. *Correct when*:
a handle names its expert's memory, the pool's books are exact.

**The rest**: kernels (`hal/`), forward arithmetic of the model families,
tokenizer, templates, vision, logging, tools. Floating-point or text processing
without state that outlives a call. `PROJECT.json` lists each with its reason.

### 1.2 What is hard to test

`PROJECT.json` lists the hazards, each at its line and with the properties that
would catch it. They fall into seven groups.

1. *Fences and callbacks*: the count, the wake-up, the callback after the fence.
2. *Slots and buffers reused* while a read, a device copy or a raw pointer still
   refers to the old contents.
3. *Half-finished work*: plans, pin loads, three-part reads, forward passes and
   requests that throw between two of their steps.
4. *Budgets*: `lru_used_`, pinned bytes, the layer window, the margin of the KV
   cache, with every path that changes them.
5. *Speculation*: the next layer planned with this layer's experts, drafts that
   are rejected after they were computed.
6. *Two requests at once*, which the code above the models does not prevent.
7. *Start-up*, with five mains, many configurations and machines, and no test.

One hazard has no property: `set_decode_pos` after images (`generate.cpp:504`), which
`GenerationAssumption` excludes because the code breaks it.

Smaller ones that are not in the list because they need no interleaving: an
image-pad token that the model generates itself makes `embed` throw
(`model/qwen3_5_int4_model.cpp:706`); a failed `parse_chat_message` leaves the HTTP
handler by an exception (`server/http_api.cpp:529`); `SpecDecodeRunner::run` counts
against a total it never resets (`model/spec_decode.cpp:17`); `pin_upload` of an id at
another size would lose the old buffer (`exec/gpu/residency_gpu.cpp:85`);
`cpu_acc` is destroyed before the future whose task writes it
(`model/qwen3_6_moe_int4_model.cpp:256`); the layer that `prefetch_layer` reads ahead
is dropped by the release before it is pinned, so it is read twice
(`weights/layer_stream.cpp:186`).

## 2. The modules

| module | models | uses |
|---|---|---|
| `IoContract` | what a caller of either read engine may rely on | |
| `IoEngine` | `ThreadIoEngine` | |
| `IoEngineProps` | its properties, its inductive invariant, its refinement of `IoContract` | `IoEngine`, `IoContract` |
| `IoEngineProofs` | theorems about it | `IoEngineProps`, `TLAPS` |
| `UringEngine` | `UringIoEngine` | `IoContract` |
| `UringProofs` | theorems about it | `UringEngine`, `TLAPS` |
| `ExpertPrefetcher` | `wt::ExpertPrefetcher` over any engine that keeps `IoContract` | |
| `MoeDecode` | the decode step of `MoeModel` driving the prefetcher | `ExpertPrefetcher` |
| `PrefetcherProofs` | theorems about the prefetcher and the decode step | `MoeDecode`, `TLAPS` |
| `WeightManager` | `WeightManager` and its callers' references | |
| `QlwcStore` | the lazy store, as operators on its variables | |
| `LayerStream` | `LayerStreamLoader` over the store and the layer loop | `QlwcStore` |
| `LayerStreamProofs` | theorems about it | `LayerStream`, `TLAPS` |
| `MoeOffload` | GPU expert slots, host banks, the MoE feed-forward | |
| `OffloadProofs` | theorems about it | `MoeOffload`, `TLAPS` |
| `Generation` | `Generator::generate` over SessionCache and the model's own state | |
| `DeviceState` | a session's states and residual on the host and the device, every path that moves them | |
| `GenerationProofs` | theorems about a request (`Generation`) and about its state on the device (`DeviceState`) | `Generation`, `DeviceState`, `TLAPS` |
| `DeviceCaches` | the weight caches of the CUDA backend and the products that use them | |
| `CacheProofs` | theorems about the caches with a budget: on the device (`DeviceCaches`) and in RAM (`WeightManager`) | `DeviceCaches`, `WeightManager`, `TLAPS` |
| `Placement` | mode, mesh, plan and executor, as operators | |
| `HostBanks` | `QlwcExpertHostBanks`: fill, pin, free | |
| `VramBooks` | budget, use and residency of the device, as start-up and the GLM pool see them | |
| `Startup` | the five servers from `main()` to `listen()` or FATAL | `Placement`, `HostBanks`, `VramBooks` |
| `GlmForward` | `GlmFlashModel::forward` on several threads over `ExpertSlotPool` | `VramBooks` |
| `Serving` | HTTP handlers, Scheduler, the page | |
| `Server` | a server started, then serving: `Startup`, `GlmForward` and `Serving` composed | those three |
| `ServerProofs` | theorems about it: what start-up keeps, host banks, page and handlers, forwards over the pool | `Server`, `TLAPS` |

Each specification with a run has an `MC...` module that gives the constants of a run their values.
Mutants, operators named after the definition they damage, stand in front of it;
a run with a mutant in place of its original must fail.

### 2.1 Read engines

`IoEngine` has one action per stretch of code between two releases of the mutex:
`Submit` is the locked block, `NotifyOne` the notify after it; a worker goes
through `TakeJob`, `ReadAt`, `CountDown`, `CallBack`, `NotifyDone`, so that another
thread may stand between any two of them. Waiting on a condition variable is a
state of its own (`sleep`) that only a notify leaves; the spurious wake-ups the
standard allows add no behaviour, since a woken thread tests its predicate again.
`Jobs` bounds the number of `submit` calls of a run, nothing else does.

`IoContract` is the abstract specification: a request is new, pending, settled or
called; a fence returns when none is pending. It says of the fence what both
engines give, which is less than `io_engine.h:31` says: callbacks may still be
running. `ImplementsContract` maps a request in the deque or with a worker that
has not counted it down to pending.

`UringEngine` has the ring: `Prepare` takes a submission entry or `PutBack` returns
the request to the front of the deque, `Enter` hands entries to the kernel (as many as
the ignored result of `io_uring_submit` may say), `KernelComplete` (external) finishes
any of them in any order, `Reap` takes one completion. A request has an offset, a length
and a buffer that is aligned or not; a file's byte is its own position, so the buffers
say what was read: the kernel fills its buffer up to `res`, fewer bytes than asked or up
to the end of the file, and `Reap` compares and copies with the code's arithmetic. A
thread that waits for a completion nobody owes it is `pc = "wait"` after `Enter`.

### 2.2 Experts from disk

`ExpertPrefetcher` models the engine by `IoContract` alone: a read settles, then
calls back; a fence waits for the first. The owner's calls are split where they
submit a read or wait, so reads settle and call back in the middle of a plan. `submit()`
may throw there too (`SubmitThrows`: the ring engine opens the file and allocates its
bounce buffer in it), which loses the slot that is being filled.
A slot's memory is kept per unit with the read that last wrote it, which is what
the properties on foreign reads talk about. `CallBack` writes the slot's error as
the code does, for good and bad reads.

`MoeDecode` extends it with the decode loop; each of its steps is one call, and a
call runs to its end by the prefetcher's own steps. Reads, submits and the weight loads of
a layer (`WeightFails`) may fail; `faults` counts them, and `left` keeps which layers a
token that threw left planned.

`WeightManager` keeps the order of the `last_use` stamps (`older`), not the stamps, and
charges sizes. Eviction of the least recently used, one by one, until the rest
fits, is stated as the set it takes (`LruVictims`): a tensor goes if what is left once
all older ones have gone is still too much. `held` is what a caller took and has
not used yet (`moe_model.cpp:334-357`).

### 2.3 Layers from disk

`QlwcStore` keeps the tensors that have a view, the blobs that are allocated and
the byte counter. A load puts down up to three blobs, and may throw before each.
`LayerStream` adds `pinned_`, `prefetching_`, the device mirror and the loop. A
throw ends the pass and leaves everything as it is, and the next pass starts on
that. `LoadModel` is the load of a streaming server, which pins every layer before
the first pass and leaves them to it. Device copies by reused addresses are
`DeviceCaches`' subject.

### 2.4 Experts on the GPU

`MoeOffload` keeps both maps of the slot cache, so that they can disagree. Which
occupied slot is the LRU victim is left open, except that positions already
served are protected as in the code. The loop over the top-k is one action per
position (`Hit`, `Spill`, `Miss`, `NoSlotLeft`), between `Offload`, which routes the token
and fixes how many misses are fetched, and `Ensured`, which starts the CPU task; nothing
else runs meanwhile. A prefill half is filled and emptied at once (`FillHalf`, `Clear`),
which is what the code's loops over its slots come to. A token's feed-forward is several actions,
with the CPU task (`TaskEnds`) between any of them, and the GPU part may fail
before or after it ran, or throw. `done` counts how often each expert has been
added to the output.

### 2.5 Generation

`Generation` names a token by the position greedy decoding puts it at; a wrong
guess is `Wrong`. What a cache holds is the sequence that went into it, so "no
trace of a rejected draft" is an equation. Every pass may throw (`Fail`), which
drops the request's caches but not the model's own state. Cycle detection
(`gen_stop.h`) is a choice to drop any number of tokens, which includes what it
really drops.

### 2.6 A session on the device

`DeviceState` names a state by the pass that moved it last: a pass that finds the
version of the committed tokens leaves a new one, anything else is `Bad`. A device
function is an operator that gives the set of its outcomes (the copies after it,
whether it answered true, how many calls failed, what it read that was not the
committed version), and `OrElse` and `Then` put them together as the code does its
fallbacks; so a layer is one action, whose outcomes include every place a call may
fail in. `cause` collects what the code is known not to repair, and a property says
that nothing is read wrong without one.

### 2.7 Weight caches

In `DeviceCaches` a product is several actions: it takes its pointers and uploads
(`try`, `stage`), launches outside the mutex, folds, copies back. Between them another
thread, the host side or a budget change may come. A product of several weights
takes its pointers one after the other without giving up `g_mu` in between: `batch` says who
is in the middle of that, what it has taken and what is left, each weight is an
`EnsureNext`, and `BatchTaken` and `BatchFailed` are the end, so that nobody else's action is
possible meanwhile. `Paths` lists the sequences of
fallbacks for many rows; a failed path leaves its buffers as they are for the next, and a
copy it made stays although the product then fails (`Whole`). `jit` is whether kernels can
be compiled, fixed when the libraries are loaded: without it one row goes by a copy in FP32
made beside the quantized one, and products of several weights are refused at once.
`disturbed` marks a product whose buffers or copies another thread touched,
`reused` an address where another weight of the same shape was uploaded before.
The order of the `last_use` stamps is the relation `before`, and an upload evicts a set,
both as in `WeightManager`; `used` is compared with totals over the entries.

### 2.8 Start-up

`Startup` has an action per stretch of `main()` between two calls that may throw or
that change something a later stretch reads. `pc` says which comes next; the mains
differ in `NextOf` and in guards on `Main`. `Placement` holds the pure functions,
including what they do to odd input (a list of one negative id, ids clamped after
the duplicates have gone). `HostBanks` keeps, beside the code's `residency_`, what the
operating system holds of each arena (`os`), so that the two can disagree. An arena is
`partial` while it is filled; `stray` if the fill broke off between its allocation and that
of the vectors that describe it. Uploads of
the warm-up charge `VramBooks` by units.

### 2.9 Serving

`Serving` has an action per critical section of `enqueue_sync`, per piece written to
a stream and per event the page reads. The page is part of the repository
(`http_api.cpp` holds it as a string) and is modelled from its script. In `Server`, with
a GLM server, `generate()` runs `GlmForward` token by token on each thread, with the
pool keyed by layer and expert number as in the code; the other
models' forwards are the modules above, and here one step.

## 3. The runs

| run | bounds | states | shows |
|---|---|---|---|
| `IoEngine` | 2 workers, 2 clients, 2 requests | 51 464 | the fence, closing; the contract with its liveness; every call returns |
| `Uring` | ring of 2, 3 requests (direct; bounced up to the end of the file; behind it) of a file of 3 bytes in blocks of 2, 1 client | 113 531 | the contract's safety; success means the right bytes, failure a read that lacked them; `drain` returns or the ring thread is stuck in one exact way |
| `Prefetch` | 1 layer, 4 experts of 2 parts, 1 slot of 3 units, pin budget 3, 2 reads in flight | 1 376 094 | slot ownership, no foreign read, whole pins within budget, slots lost only by calls that throw |
| `PrefetchErrLost` | 1 expert of 2 parts | | **violated**: a block whose read failed is handed out |
| `MoeDecode` | a dense and 2 MoE layers, 2 experts, 2 slots, 2 faults | 290 680 | a layer computes with its own experts or those of the layer before, another token's only if that one threw; two slots carry every layer until something fails; no layer is stuck |
| `WeightManager` | 5 tensors of sizes 1 to 3, budget 4, 3 references | 4 160 | books, budget, references |
| `LayerStream` | 7 layers, windows 0 to 3, one failing read | 32 117 | live packs, bounded memory, whole views |
| `MoeOffload` | 3 MoE layers and a dense one, 2 experts, 6 settings | 256 678 | promised slots stay, each expert once, a prefill finds its experts |
| `Generation` | 7 requests, caches of 17, margin 8 | 24 393 | no trace of drafts, caches fit, logprobs and stream agree with the result |
| `DeviceState` | a linear and a full layer, prompts of 3, drafts of 2 or 4 (GPU convolution from 3), 4 passes, 2 sessions, 2 failed calls | 221 662 | states and residual go from path to path, except in the ways the properties name |
| `DeviceCaches` | 2 threads, 5 weights at 4 addresses, budgets of 2 and 3 units, with and without a JIT, 1 failed call, 1 host load, 1 `device_alloc` | 574 380 | books exact, products from their own weights and input, pins kept |
| `Server` | 4 882 starts; then 2 threads, 2 messages, answers of at most 1 piece, 1 throw, 1 lost connection, 1 failed bank call, a GLM model of a dense and 2 MoE layers | 1 950 129 | what listens is as configured; banks are whole but for a stray arena; the page files whole answers; the GLM pool is sound |

Why the bounds are enough. Two workers are needed for one to overtake another,
two clients for one fence to meet another's requests; the proofs remove these
bounds. A ring of one entry is the smallest that fills up. One layer is enough for
the prefetcher's own steps, because plans of different layers meet only in the
slots, and `MoeDecode` has three layers on two slots; its two faults let a second one
meet what the first left behind. Seven layers exceed the
memory bound for windows up to two, so that the bound can fail. Two experts with
top-k two and one to five slots give every case of eviction within one token. The
KV cache of 17 with a margin of 8 lets drafts of the largest size start at the last
position the limit allows. Four passes are a prefill, a window of drafts, the
replay after its rejection, and a decode; two sessions let the second
find what a request that threw left behind; two failures let a fallback fail as
well. `LLMOC_GPU_GDN` off is auto that never chooses the device. The budgets of `DeviceCaches` hold two or three of its INT4 weights and one of the others,
so that uploads evict and fail, and one host load is enough for an address to be
reused.
For GLM servers `MCServer` has a budget just below, and just at, what the plan for a route
needs, and one whose plan took an expert for half of what is uploaded, so that the pool has
room for one expert of a route of two; two MoE layers give the pool two experts of each
number. It enumerates machines (no CUDA, no cuBLAS, no NCCL, one small GPU),
meshes, modes, containers and budgets so that every branch of start-up is taken;
serving starts from each of them and depends on little of it (nothing of a pool to which
no expert is bound), which the run's VIEW
says (it is used with safety properties only; so are those of `DeviceCaches`, which
leaves out buffers nobody will read, and of `DeviceState`, which keeps of a version
only what it is equal to). Every property has a mutant of the code that breaks it
within these bounds.

Deadlock is left unchecked where the system may stop: an engine that is destroyed,
a prefetcher whose reads are all in flight, a bounded number of requests used up.
`LayerStream`, `MoeOffload` and `Generation` never stop and are checked for it.

### 3.1 Fairness

- `IoEngine`, `UringEngine`: weak fairness of each thread's own steps, because the
  operating system schedules threads, and of the kernel for what it was given.
  None for starting a call or for signals. The mutex is held only over actions
  that are atomic here, so weak fairness needs no fairness of the lock.
- `MoeDecode`: reads settle and call back (the contract's own promise), the call in
  progress moves on, and so does the loop of `forward`. None for failures.
- The other modules state safety only; nothing in their code waits.

### 3.2 What the violations say

One run is violated.

- `PrefetchErrLost`. `prefetch_pipeline.h:105` says the slot's error is set by any
  failed read and thrown by `acquire`. `drain` returns before the last callback has
  run, and a later success overwrites the error.

Everywhere else a property states what the code keeps, and names exactly the cases
in which it does not, so that the run shows that there are no others.

- `DrainReturnsUnlessStuck`. With nothing queued and nothing in flight the ring thread
  blocks in `io_uring_wait_cqe`; `submit` notifies a condition variable on which
  nobody waits. Entries that `io_uring_submit` did not take, its result being ignored,
  leave it there too. The next `drain` never returns, although `io_engine.h:7` and `:31`
  promise the thread pool's semantics.
- `OwnOrPrevious`. The plan that layer L makes for L+1 uses L's experts; when L+1
  plans its own, the "already planned" exception is swallowed, although
  `moe_model.cpp:411` promises a layer its own experts. A token that throws behind a plan
  leaves it, and a later token computes with the experts of the one that threw.
- `MemoryBounded`. The load of a streaming server fills the store with all layers;
  the bound holds once the first pass has released them. What a read that threw leaves of
  its tensor (`qlwc_store.cpp:94-104`) has no view, so no release sees it: it stays until
  the tensor is loaded after all, one tensor for each failed read.
- `ProductsAreOwn`. A product is another's when two threads interleave (the shared
  buffers, an evicted copy), when a batch does not fit beside what is pinned, and
  when a weight lies where one of the same shape lay at the upload.
- `RecurrenceHandedOver`, `ConvolutionHandedOver`, `ResidualHandedOver`. A device call that
  fails after its kernel moved a state leaves it moved, and the fallback moves it
  again (`late`); a request that throws leaves copies that a new session at the same
  addresses finds (`throw`); with GDN off, or in auto mode when a layer changes sides,
  the host runs beside a device copy (`split`); and
  `apply_speculative_restore` leaves the convolution's copy, so that a replay of eight
  tokens or more starts from what the rejected drafts left (`replay`).
- `ListensAsConfigured`. The INT4 servers with mode "auto" resolve to hybrid and never
  enable CUDA; the slots' reserve is added to the budget also where it was not
  taken off (`main_int4_moe.cpp:210`); negative ids among several are clamped to
  0 after the duplicates were removed; a GLM server whose `enable` fails runs
  pure_gpu on the CPU; a dense server takes a MoE container whose configuration is
  silent and whose layer 0 is dense; the MoE server's warm-up session keeps its
  device states.
- `BanksAreWhole`. The comment at `host_banks.cpp:236` wants no partial arena left. When a
  blob of an expert cannot be allocated its arena is given back; when one of the vectors at
  `:104-106` cannot, the catch at `:214` leaves the arena, unfilled and uncounted. It is the
  last one, `pin()` settles it and `free_all` frees it, but `has_layer` and `layer_gpu_ok`
  accept it (`qwen3_6_moe_int4_model.cpp:195`, `:406`, `offload_cache.cpp:97`).
- `DepthTells`. The queue depth is 0 while a request runs if another returned
  meanwhile, and stays 1 for good after the last one threw.
- `ForwardsAreSound`. A forward's release frees an expert that another forward computes
  with; since `device_free` gives nothing back to `g_used`, the books fill up,
  and from then on handles are missing; and the plan for a quantised container takes an
  expert for a quarter of its three BF16 matrices (`glm_flash_model.cpp:286`), less than the
  one matrix that `bind_expert_hosts` (`:233`) binds where the container has it in BF16, so
  that pinning the last experts of a route may evict its first. None of these changes a result today,
  because no product reads through a handle.

## 4. The proofs

Each theorem holds for every value of the constants that the module's named
assumption allows, and every proof is by an inductive invariant: a conjunction of
named parts, one lemma per part or per action, one step per action in it. The runs
check the properties the theorems state on the small instances of section 3.

| module | theorems | of the run |
|---|---|---|
| `IoEngineProofs` | `InvariantHolds`, `TypeCorrect`, `InflightCorrect`, `FenceCorrect`, `CallbacksCorrect`, `JoinCorrect`, `RefinesContract` | `IoEngine` |
| `UringProofs` | `UringInvariant`, `ResultCorrect`, `RefinesSafety` | `Uring` |
| `PrefetcherProofs` | `PrefetcherInvariant`, `SlotsHaveOneOwner`, `ReadsStayHome`, `AcquiredAreTheirs`, `PinsWholeInBudget`, `SlotsAreLostByThrows` | `Prefetch` |
| | `DecodeInvariant`, `ExpertsOfOwnToken`, `SlotsSuffice`, `ThrowsOnFaultOnly`, `DecodeUsesPrefetcherAsMeant` | `MoeDecode` |
| `CacheProofs` | `CacheInvariant`, `BooksStayExact`, `HeldReferencesStay` | `WeightManager` |
| | `DeviceInvariant`, `BooksAreExact`, `OwnProducts`, `PinnedStaysAlways` | `DeviceCaches` |
| `LayerStreamProofs` | `StreamInvariant`, `PackCorrect`, `PinnedCorrect`, `ViewsCorrect`, `MemoryInvariant`, `MemoryIsBounded`, `BytesAreCovered` | `LayerStream` |
| `OffloadProofs` | `OffloadInvariant`, `PromisedSlotsStay`, `ExpertsAddedOnce`, `PrefillsMissNothing` | `MoeOffload` |
| `GenerationProofs` | `GenerationInvariant`, `CommittedCorrect`, `KvCorrect`, `LogprobsCorrect`, `ImagesCorrect`, `StreamCorrect` | `Generation` |
| | `StateInvariant`, `RecurrencesHandedOver`, `ConvolutionsHandedOver`, `ResidualsHandedOver` | `DeviceState` |
| `ServerProofs` | `ConfiguredInvariant`, `ListensAsAsked`, `BanksInvariant`, `BanksStayWhole`, `ExchangeInvariant`, `AnswersStayWhole`, `DepthIsTold`, `ForwardsInvariant`, `ForwardsStaySound` | `Server` |

### 4.1 What they assume

- `IoEngineAssumption`, `UringAssumption`: a finite, non-empty set of workers, a ring of at
  least one entry, blocks of at least one byte, null values outside the sets they stand
  beside.
- `PrefetcherAssumption`, `MoeDecodeAssumption`: slots are listed once, `None` is not one of the
  records it stands beside, layers are numbered from 1. `SlotsSuffice` and `ThrowsOnFaultOnly`
  also assume `RoomToPlan` (section 4.3).
- `WeightManagerAssumption`: finitely many tensors of at least one byte. `QlwcStore` and
  `LayerStream`: a tensor has finitely many parts and at least one.
- `MoeOffloadAssumption`: at least one layer and one expert, a top-k of at most the experts, the
  types of a setting.
- `GenerationAssumption`: the types of a request, fewer image pads than prompt tokens, at
  most `Margin + 1` drafts, no drafts after images. Without the last two the theorems
  would be false.
- `DeviceStateAssumption`: a model has at least one layer, each linear or full; prompts and
  drafts have at least one token; the types of the rest.
- `DeviceCachesAssumption`: finitely many addresses, sizes and budgets are numbers, and what
  is taken as a batch, pinned or multiplied row by row are INT4 weights, more than one in
  a batch. Nothing relates sizes to budgets, so uploads that can never fit are included.
- `StartupAssumption`, `HostBanksAssumption`: the types of a configuration, a machine and
  a container; an arena has at least one byte; a GLM configuration asks for one of three
  modes, any other word being an error (`glm/glm_config.cpp:67`); where CUDA is available there is a
  device, because `init` fails without one (`hal/cuda_backend.cpp:744`).
- `GlmForwardAssumption`, `ServerAssumption`: there is a layer, a route is not empty, an expert
  has at least one byte; where a container has BF16 experts, a route is no longer than the
  top-k of the profile, which is at most the number of experts, and the profile takes
  an expert for more than nothing. Nothing is assumed about how much it takes it for.

### 4.2 Read engines

The safety properties of the thread pool are not inductive. `DrainFencesBuffers` needs to
know that `inflight_ = 0` means that nothing of anybody is queued or being read, which is
`InflightExact`; that in turn needs a request to be in one place only (`Custody`),
or the count and the set could differ. What has happened to a request follows
from the place it is in (`HistoryOfPlace`): queued means unread and not called,
in no place means read and called. `ExitedMeansDrained` says that a worker leaves
only when stopped with an empty deque, which then stays empty, so at the end of
`join` nothing is left. `FenceHistory` keeps what a fence has established while
other clients go on. `IInv` is their conjunction with `TypeOK`.

The proof has one lemma per conjunct (`TypeStep`, `CountStep`, `CustodyStep`,
`HistoryStep`, `ExitedStep`, `FenceStep`), each with one step per action, and frame
lemmas for actions that touch nothing a conjunct speaks of. `PushBack` and
`PopFront` say what `Append` and `Tail` do to the places in the deque; `ZeroCount`
turns a count of zero into an empty set.

The ring engine has more places: the deque, the thread's hands, the submission queue,
the kernel, the completion queue. `Custody` says a request is in one of them, and
`Delivered` what the kernel reported once it has completed, `Contents` that as much of
the file is in the buffer it was given. `Geometry` says what the rounding gives (the read
covers the bytes wanted, which lie `copy_off` into it, and falls short only at the end of
the file), and `ResultIsTrue` follows for any offsets and lengths. The refinement maps a
request in any of them to pending.

### 4.3 The prefetcher and the decode step

`SlotOwnership` is not inductive because of the throwing paths: a plan that throws
half-way still owns its slot while reads into it are in flight. `OwnerPlace` says
what the call in progress holds at each of its places, `SpansOfOwner` that a slot's
blocks are those its owner packed (of a slot in circulation; one lost by a throw has none), `ReadsInPlace` that a read in flight is for one
of them at its place, `Covered` that what was submitted is in flight or in memory. From
the last three follows that after the fence a slot has what its plan expects
(`PlansComplete`), so `acquire` hands out what was planned. Pins are the same argument
one level up: `PinnedWhole`, `InBudget`.

The decode step adds where its loop stands (`DriverPlace`), that a call in progress is
the one it made (`CallOfDriver`), and that a plan for a later layer was made in this
token and with this layer's experts, but for layers in `left` (`PlansAreOfToken`). `DecodeUsesPrefetcherAsMeant` proves
that the decode step takes only steps the prefetcher's own specification has, so the
properties of the prefetcher hold under it.

`ThrowsOnFaultOnly` is not true of every configuration, and its hypothesis `RoomToPlan` says of
which: two slots or more (the default is two), nothing pinned (the load of a pinned expert may
fail while its layer is planned; the server pins nothing, `server/main_moe.cpp:209`), dense layers
only in front (`first_k_dense_replace`; a dense layer behind a MoE layer is planned too and its
plan takes a slot for good), every expert in the file, and slots as large as a routing.
The instance of the run meets it. No count of slots is needed: `Carried` says that until
something fails each slot is queued, in a plan or being filled, so that an empty queue leaves two slots to two
plans, and by `PlansAreOfToken` one of these would be of the very layer that is being planned.
`RoomLeft` says that the fill loop never overflows a slot, the other way to lose one.

### 4.4 The weight caches

In RAM (`WeightManager`): `BooksStayExact` needs the order of eviction to be total on the
cached entries, and that it stays so when an entry is touched, released or evicted
(`Orders`). Sizes are sets of (tensor, byte), so that sums of any sizes are cardinalities.
For `HeldReferencesStay` the invariant says that the references of a product, as long as
together they fit the budget, are the most recent of the cache (`HeldIsRecent`): eviction
takes an entry only while what is not older than it exceeds the budget, which these
alone never do.

On the device the invariant has four parts. `Plain` are types. `Good` is `BooksExact` said of
any value `D` of the caches, so that the lemmas about touching, evicting, inserting and
dropping (each gives a new `D`) can be put together as the code does its calls: the copies are
those of the weights at their addresses or of ones loaded there since, `used` is the sum over
the three caches, the reserve and the bare allocations, and it is within the budget
unless somebody went over it on purpose. `JobOK` is about a product between two steps:
either it has an excuse (another thread was at its buffers, its batch does not fit, an
address was reused), or the copies it took are its own and still there and the buffer its next
step reads holds its own data. `OwnProducts` follows at its last step.

`BatchOK` is the argument for the copies. What a batch has taken so far was used after
everything else (`before`), so an upload for its next weight evicts one of its own only if
all others that may be evicted are gone: `RoomFor` says that what the batch has taken and its next
weight are within what the whole batch needs, and `SparedOrHopeless` that, if an eviction
reaches the batch's own all the same, then the batch does not fit beside what is pinned, which is what the property excuses (`TooLarge`). `PinnedStaysAlways` is an
action property and follows from what an eviction may take.

### 4.5 Layer streaming

Two facts make `PackIsLive`, `PinnedIsResident` and `ViewsAreWhole` inductive. `LoadCovers`:
whatever the layer being pinned lacks is still on the list of the running loop, so
that an empty list means a whole layer, and, when the window evicts the layer it has
just pinned, that the pack's own `ensure` calls bring back what was lost.
`ClosedIsEmpty`: close leaves no layer pinned, so that open may start from no view.
`DropKeepsWhole` and `ReleaseKeeps` say what a release may take away: a view and its blobs
together, and nothing of a layer that stays or of the tensors no layer owns. The load
of all layers keeps a layer whole or breaks off.

The bound on memory counts the layers that are in the store and not pinned
(`FewStrays`): the one being loaded, the one prefetched, the one before it, and two more
after a pass that broke off. `CurrentKept` says that a release never takes the layer
the loop is at. `BooksCover` compares the byte counter to what is viewed through loads
that throw after one part or two. `UnviewedFew` counts the tensors with blobs and no view:
a failed read adds one at most, and neither loads nor releases add any.

### 4.6 Experts on the GPU

The invariant has four parts. `Good`: an expert that has a slot is the one the slot
stands for; `ClearKeeps`, `AssignKeeps` and `FillKeeps` show it for the three ways the maps
change, with what else each leaves alone. The converse does not hold, and is not
needed. `Promised`: the slots given to the positions so far are protected and stand for
their experts, and exactly the other positions are with the CPU. A victim is never
protected (`VictimsAreFree`), so a later position takes none of them, and what the GPU
reads from the slots is what the fallback would read from the routing
(`GpuRunsThePromised`). `Added`: the positions with a slot and those without one share
no expert, since a routing names none twice, so adding both parts adds each once
(`AddTwice`). `Wholly`: while the tokens of a banked layer run in a prefill with overlap, all
its experts have slots; the load of the next layer goes to the other half and clears
nothing of it (`EnterKeeps`), and since nothing is missed, nothing is evicted
(`NoMissAhead`).

### 4.7 Generation

The invariant says, for each place in a round, how far each cache is along the greedy
sequence (`AtLoop`, `AtFeed`, `AtVerify`, `AtRollback`, `AtReplay`, `AtAccept`), and of the
output that while the loop runs stream and result are the same (`OutInv`). The argument
for drafts: guesses are right up to some place and wrong from there (`Guess`), so
verification accepts just the right ones (`AcceptedIsRight`), the cut of the KV cache
drops all of them (`GreedyCut`), and the replay puts the right ones back (`GreedySeg`).
`DraftsHaveRoom` is where the margin is used. Position and rollback agree because a
request with drafts has no images (`PositionsInt`).

### 4.8 A session on the device

`HandedOver` says for every layer which of its copies is the one that counts, and that it is at
the version due at this place of the pass (`Due`: the new version in the layers the
pass has been through, that of the committed tokens in the others, and in an open draft window
the snapshot's for the way back). `Recurrences` says it for as long as nothing has happened that
the code does not repair (`RClean`), `Convolutions` likewise with one exception, the copies that a
rejected window leaves: the invariant says that a replay which finds one is too short for the
GPU's convolution and so overtakes it on the host. `Residual` says through how many layers
the residual has gone, on the host or on the device. `Phases` ties the phase, the pass
and the snapshot to each other, which the others rest on. `Wrongs` are the three
properties.

A device function is a set of outcomes, and `OrElse` and `Then` take such functions as
arguments, which the prover cannot expand inside a step. So each path has lemmas on
its outcomes first: whatever it does, it leaves four copies and reads nothing of others
(`Sane`), and unless it says `late` or `split` it either moves the recurrence or the
convolution from the committed version to the new one (`RMoves`, `CMoves`) or leaves it where
it is (`RStays`, `CStays`). `OrElse` of a function that stays when it fails and one that moves
moves. Then comes one layer (`Settles`), the steps of a pass, and those between
passes. What the theorems add to the run: any layers in any order, prompts and drafts of
any length, any number of passes, sessions and failed calls.

### 4.9 The server

Start-up (`AsConfigured`), a conjunct per thing the property compares with the configuration, each
kept by every stretch of `main()` up to `listen()`. `ModeKept`: `pure_gpu` stays what it is, and
the device is on where the mode calls for it and CUDA is there. `MeshKept`: the mesh is what
the resolution gives for the ids asked for (`ForModeIsMesh`); sorting ids and taking the n-th is
the only place where data is built up step by step, and `Nth` says of the n-th smallest
that n - 1 are below it, which needs no induction (`NthIs`). `BudgetKept`: the budget is the
one asked for, less the reserve while the warm-up runs without it, plus the reserve in the
one case the property names. `ModelKept`: what was loaded is of the family the server serves.
`PoolKept`: experts are bound to the pool only in a GLM server with a budget. `ListensAsAsked` is their meaning at `listen()`.

Host banks (`Banks`): a fill works on one layer, every arena but that one is whole or is the
last one, left stray when the fill broke off there (`StrayIsLast`), and
the arenas are those of the first MoE layers (`Filled`); the counters are
`LayerBytes` times the number of layers with a residency, the first without the stray one
(`BankBooks`), within budget and cap; what the system holds of an arena is what its residency says, and before `pin()`
comes to a layer it is pageable (`Settlement`); banks exist only in the stretches of
the INT4 MoE server's `main()` (`Phases`). The last is why `free_all` after an exception
gives everything back: it may run in the middle of a fill or of `pin()`.

Page and handlers (`Exchange`): while the page waits, the user spoke last (`Awaited`); at
most one thread writes to the page (`OneWriter`), and what it has written so far, on the
wire or read, is pieces (`Written`); a stream that ended well was generated whole for
this history (`Ended`). `AnswersStayWhole` is an action property and follows from it.
`DepthIsTold` is nearly inductive by itself.

GLM forwards (`Forwards`): `Place` says where a forward is within its route, `Rows` how many
rows each layer's cache has from the layer the token has come to, `PlanFits` that the
plan's slots and bytes hold one route unless it took an expert for less than it is
(`PlanIsRoomy` is the arithmetic of `solve_active` behind it: half of a budget that holds twice
the experts of a token); `PoolBooks` that the pool's map, order and
counters agree and stay within them; `Accounted` that an expert in the pool is owed a
release by a forward or was left by one that threw; `Handles` that the handles a forward
has taken so far name their experts, unless another forward was in the pool
meanwhile. The last needs that a pin of another expert of the same route never evicts
an earlier one, which is where `PlanFits` and the order are used together: with room
for a whole route the least recently used is none of the route's.

### 4.10 What the proofs changed

- Overlapping guards: several definitions used `CASE` with guards that are not
  exclusive, where TLC takes the first and the logic any. They are `IF` chains now, in
  the order the code tests.
- The LRU of the weight cache and of the GLM pool was a sequence. It is the relation
  "used less recently" now, which is all the stamps are compared for, and about which
  there is something to prove without induction over a sequence.
- The loops of `MoeOffload` were folds, and what a fold does needs an induction the prover has
  not. The loop over the top-k is an action per position now, and the loops over the
  slots of a half are functions.
- The batch of `DeviceCaches` was a fold over its weights too. It is a step per weight now, with
  `g_mu` held, and the sums became totals that are cardinalities; so did the LRU order
  become a relation, as in the other two caches.
- `DeviceState` and `WeightManager` name their specifications `DSpec` and `WSpec`, and the like, so
  that the module with the proofs can extend them beside `Generation` and `DeviceCaches`.
- `ListensAsConfigured` does not hold of any configuration whatever: a GLM mode that is none
  of the three, and CUDA without a device, had to be excluded, and the code excludes them
  (section 4.1).
- `MemoryBounded` and the prefetcher's invariants needed facts about constants that
  had gone without saying (a tensor has parts, `None` is no record).

### 4.11 What is only model-checked

The liveness properties (`CallsReturn`, `DrainReturnsUnlessStuck`, `LayersEnd`, and the progress half of `ImplementsContract`, whose safety half is
`RefinesContract`), because the prover has no fairness. Every other property of a passing
run is a theorem. Where a proof needs the least element of a set
it uses that the naturals are well-founded; no proof uses induction over data.

`InflightExact`, `CallbackOnce`, `PinnedIsResident` and the type invariants of the modules
above are proved and not checked again by a run.

## 5. What the models leave out

- Arithmetic: no property speaks of a number the model computes.
- Two requests at a time are in `Serving`, `GlmForward` and `DeviceCaches`. The other models
  assume what `weight_manager.h:6` states, that the scheduler serialises them;
  `sched/scheduler.cpp` does not.
- In `Generation`: more drafts than `Margin + 1`, which the server would accept but
  the KV cache would not hold; drafts after images, after which
  `set_decode_pos` puts the position where it does not belong
  (`generate.cpp:504`). Both are excluded by name in `GenerationAssumption`. The search
  for a cycle in `gen_stop.h` is a choice that includes what it drops.
- In `DeviceCaches`: the arithmetic of the products, the loader of the CUDA libraries;
  a JIT that compiles some kernels and not others is a failed call (`GiveUp`). In
  `DeviceState` the JIT is taken to be available.
- In `Startup`: the contents of files are given; the DeepSeek and Kimi mains, which
  serve stubs with made-up weights; `PlacementPlanner::solve`, whose plan is only
  logged; the contiguous shard of `DeviceMesh`, since no rank but 0 runs.
- In `Serving`: parsing of requests, base64, metrics other than the depth.
- CPU kernels, file formats, tokenizer and templates, the vision encoder, the recipe
  walker, `SpecDecodeRunner` (which no server uses): arithmetic, text, or a straight
  walk without state that outlives a call.
- Exceptions inside OpenMP regions, which end the process.
- Memory that cannot be allocated, except where the code handles it.
- In `LayerStream`: the LWC variant of the loader, which follows the same protocol;
  the eager open of the store.
- In `MoeOffload`: how host banks are pinned, since `layer_gpu_ok` accepts every kind
  although a comment speaks of pinned memory only. Its banks are whole: the stray arena
  of `HostBanks`, whose experts would be looked up and not be there, is not in it.
- `GlmExpertPrefetch`: `plan`, `acquire` and `release` have empty bodies
  (`glm/weights/glm_expert_prefetch.cpp`), so the threads share nothing through it.

## 6. Plan

Done, in this order: the read engines with their contract and proofs; the
prefetcher; the decode step; the weight cache; layer streaming with proofs; the
GPU's expert slots; generation with proofs; the session on the device; the weight
caches of the CUDA backend; start-up; GLM and its pool; serving; the server they
make together.

Models that are left are those of section 5 that keep state: the LWC variant of
the loader and the eager open of the store, both variants of what is modelled.

Proved, in this order: the thread pool; layer streaming; generation; the ring engine;
the prefetcher and the decode step; the bounds of layer streaming; the weight cache;
the server's page, gauge, forwards and host banks; the expert slots on the GPU; the weight
caches of the device; start-up; the session on the device.

Theorems that are left are about liveness, which is out of the prover's reach (section
4.11); every safety and action property of the runs that pass is proved.

## 7. Running it

    tlc -workers 2 -config IoEngine.cfg MCIoEngine.tla
    tlapm IoEngineProofs.tla

`PROJECT.json` gives module, configuration and properties of every run, the lines
each definition models, and the mutant of each property.
