----------------------------- MODULE LayerStream -----------------------------
(***************************************************************************)
(* Layer streaming: the loader of layer_stream.cpp over a lazy QLWC store,  *)
(* driven by the layer loop of Qwen35Int4Model's forward pass.              *)
(*                                                                         *)
(* The model is loaded before it is told to stream: load() fills the packs   *)
(* of all layers, and all of the file is in memory until the first release.  *)
(* The loop prefetches layer L + 1, pins layer L, takes pointers into the   *)
(* store for L (fill_layer_pack), computes, and releases the layer two      *)
(* behind.  A load that throws ends the pass and leaves loader and store as *)
(* they are for the next one.  The window is the configuration's, while the *)
(* loop's own stride is fixed (enable_layer_stream).                        *)
(***************************************************************************)
EXTENDS QlwcStore

CONSTANTS ConfiguredWindows   \* values window_layers may have in a configuration

ASSUME LayerStreamAssumption ==
  /\ NumLayers \in Nat \ {0}
  /\ MaxFaults \in Nat
  /\ ConfiguredWindows \subseteq Int /\ ConfiguredWindows # {}
  /\ Int4Parts \cap PassParts = {} /\ Parts # {} /\ IsFiniteSet(Parts)

VARIABLES pinned,        \* pinned_
          prefetching,   \* prefetching_
          mirror,        \* cuda_layers_: tensors with a device copy
          window,        \* cfg_.window_layers after open()
          pc,            \* where the forward pass stands
          cur,           \* L of the layer loop
          todo,          \* tensors the running load loop has still to ensure
          pack,          \* tensors whose pack pointers lead to live blobs
          filled         \* load() filled every layer, and nothing was released yet

loaderVars == <<pinned, prefetching, mirror, window>>
driverVars == <<pc, cur, todo, pack, filled>>
vars == <<storeVars, loaderVars, driverVars>>

NoLayer      == -1
StreamWindow == 2      \* stream_window_, set by enable_layer_stream

LayerSet(P) == UNION {LayerTensors(l) : l \in P}

Init ==
  /\ StoreEmpty /\ faults = 0
  /\ pinned = {} /\ prefetching = NoLayer /\ mirror = {} /\ window = 1
  /\ pc = "closed" /\ cur = NoLayer /\ todo = {} /\ pack = {} /\ filled = FALSE

(* open(): the window is at least one layer, and the store's open loads     *)
(* what lies outside the layers.  prefetching_ keeps its value.             *)
Open ==
  /\ pc = "closed"
  /\ \E w \in ConfiguredWindows : window' = IF w < 1 THEN 1 ELSE w
  /\ view' = Globals /\ blob' = BlobsOf(Globals) /\ bytes' = SizeOf(Globals)
  /\ pc' = "opened"
  /\ UNCHANGED <<faults, pinned, prefetching, mirror, cur, todo, pack, filled>>

(* Qwen35Int4Model::load() while streamer_ is still null: build_layer_packs  *)
(* defers nothing.  A load that throws here ends the process.               *)
LoadModel ==
  /\ pc = "opened"
  /\ view' = Tensors /\ blob' = AllBlobs
  /\ bytes' = bytes + SizeOf(Tensors \ view)
  /\ pack' = LayerSet(Layers) /\ filled' = TRUE
  /\ pc' = "idle"
  /\ UNCHANGED <<faults, loaderVars, cur, todo>>

(* close(): device copies, store and pinned set are emptied.                *)
Close ==
  /\ pc = "idle"
  /\ view' = {} /\ blob' = {} /\ bytes' = 0
  /\ pinned' = {} /\ mirror' = {} /\ pack' = {}
  /\ pc' = "closed" /\ filled' = FALSE
  /\ UNCHANGED <<faults, prefetching, window, cur, todo>>

StartPass ==
  /\ pc = "idle"
  /\ cur' = 0 /\ pc' = "layer"
  /\ UNCHANGED <<storeVars, loaderVars, todo, pack, filled>>

-----------------------------------------------------------------------------
(* prefetch_layer(L + 1) *)

PrefetchSkipped(l) == l \notin Layers \/ l \in pinned \/ prefetching = l

PrefetchSkip ==
  /\ pc = "layer" /\ PrefetchSkipped(cur + 1)
  /\ pc' = "pin"
  /\ UNCHANGED <<storeVars, loaderVars, cur, todo, pack, filled>>

PrefetchBegin ==
  /\ pc = "layer" /\ ~PrefetchSkipped(cur + 1)
  /\ prefetching' = cur + 1
  /\ todo' = LayerTensors(cur + 1) \ view
  /\ pc' = "prefetching"
  /\ UNCHANGED <<storeVars, pinned, mirror, window, cur, pack, filled>>

PrefetchEnd ==
  /\ pc = "prefetching" /\ todo = {}
  /\ prefetching' = NoLayer
  /\ pc' = "pin"
  /\ UNCHANGED <<storeVars, pinned, mirror, window, cur, todo, pack, filled>>

-----------------------------------------------------------------------------
(* pin_layer(L) *)

PinHit ==
  /\ pc = "pin" /\ cur \in pinned
  /\ todo' = LayerTensors(cur) \ view
  /\ pc' = "packing"
  /\ UNCHANGED <<storeVars, loaderVars, cur, pack, filled>>

PinBegin ==
  /\ pc = "pin" /\ cur \notin pinned
  /\ todo' = LayerTensors(cur) \ view
  /\ pc' = "pinning"
  /\ UNCHANGED <<storeVars, loaderVars, cur, pack, filled>>

(* Mutated: the window is enforced one layer too late.                      *)
InWindowPlusOne(P, w) == {l \in P : Cardinality({m \in P : m > l}) <= w}

(* enforce_window drops the smallest layer ids, and never the largest one,  *)
(* until the window holds: the largest w ids survive.                       *)
InWindow(P, w) == {l \in P : Cardinality({m \in P : m > l}) < w}

(* What is dropped when the layers P stay pinned out of `before`: each      *)
(* release_layer keeps the tensors of the pinned layers and nothing else.   *)
DroppedBy(before, P) == IF P = before THEN {} ELSE Released(LayerSet(P))

(* upload_layer_cuda mirrors the passthrough tensors of the layer whose     *)
(* allocation and copy succeed, after freeing the layer's old copies.       *)
Uploads(l) == SUBSET ({l} \X PassParts)

(* Mutated: the pack is taken from what pin_layer has just loaded, and      *)
(* nothing is ensured again after the window was enforced.                  *)
PinEndTrusted ==
  /\ pc = "pinning" /\ todo = {}
  /\ LET before == pinned \cup {cur}
         after  == InWindow(before, window)
         gone   == DroppedBy(before, after)
     IN  /\ pinned' = after
         /\ mirror' = {t \in mirror : t[1] \in after}
         /\ DropTensors(gone)
         /\ filled' = (filled /\ gone = {})
         /\ pack' = (pack \cup LayerTensors(cur)) \ gone
  /\ pc' = "forward"
  /\ UNCHANGED <<prefetching, window, cur, todo>>

PinEnd ==
  /\ pc = "pinning" /\ todo = {}
  /\ LET before == pinned \cup {cur}
         after  == InWindow(before, window)
         gone   == DroppedBy(before, after)
     IN  /\ pinned' = after
         /\ \E up \in Uploads(cur) :
              mirror' = {t \in mirror \cup up : t[1] \in after}
         /\ DropTensors(gone)
         /\ filled' = (filled /\ gone = {})
         /\ pack' = pack \ gone
         /\ todo' = LayerTensors(cur) \ (view \ gone)
  /\ pc' = "packing"
  /\ UNCHANGED <<prefetching, window, cur>>

-----------------------------------------------------------------------------
(* fill_layer_pack(L): every tensor is ensured, and the pack points at it.  *)

PackEnd ==
  /\ pc = "packing" /\ todo = {}
  /\ pack' = pack \cup LayerTensors(cur)
  /\ pc' = "forward"
  /\ UNCHANGED <<storeVars, loaderVars, cur, todo, filled>>

(* One turn of a load loop, in prefetch_layer, pin_layer or the pack.       *)
Loading == pc \in {"prefetching", "pinning", "packing"}

LoadOne ==
  /\ Loading
  /\ \E t \in todo : LoadTensor(t) /\ todo' = todo \ {t}
  /\ UNCHANGED <<loaderVars, pc, cur, pack, filled>>

(* The exception leaves the loader's call and the forward pass with it.     *)
LoadThrows ==
  /\ Loading
  /\ \E t \in todo : LoadTensorThrows(t)
  /\ todo' = {} /\ pc' = "idle"
  /\ UNCHANGED <<loaderVars, cur, pack, filled>>

-----------------------------------------------------------------------------
(* layer_forward(L) has run; release_layer(L + 1 - stream_window_) and on.  *)

ReleaseAfter(l) == pinned \ {l + 1 - StreamWindow}

LayerDone ==
  /\ pc = "forward"
  /\ LET after == ReleaseAfter(cur)
         gone  == DroppedBy(pinned, after)
     IN  /\ pinned' = after
         /\ mirror' = {t \in mirror : t[1] \in after}
         /\ DropTensors(gone)
         /\ filled' = (filled /\ gone = {})
         /\ pack' = pack \ gone
  /\ \/ cur + 1 \in Layers    /\ cur' = cur + 1 /\ pc' = "layer"
     \/ cur + 1 \notin Layers /\ cur' = cur     /\ pc' = "idle"
  /\ UNCHANGED <<prefetching, window, todo>>

Next == \/ Open \/ LoadModel \/ Close \/ StartPass
        \/ PrefetchSkip \/ PrefetchBegin \/ PrefetchEnd
        \/ PinHit \/ PinBegin \/ PinEnd
        \/ PackEnd \/ LoadOne \/ LoadThrows \/ LayerDone

Spec == Init /\ [][Next]_vars

-----------------------------------------------------------------------------
(* While a layer computes, all its weights are in the store and its pack's  *)
(* pointers lead to them: no eviction of this pass or of an earlier, failed *)
(* one has freed what layer_forward reads.                                  *)
PackIsLive ==
  pc = "forward" => LayerTensors(cur) \subseteq view \cap pack

(* A layer counted as pinned is wholly in memory, so a pin hit may skip     *)
(* every load, and the device copies are those of pinned layers: a release  *)
(* takes both away or neither.  Outside the layers nothing is ever dropped. *)
PinnedIsResident ==
  /\ LayerSet(pinned) \subseteq view
  /\ \A t \in mirror : t[1] \in pinned
  /\ pc # "closed" => Globals \subseteq view

(* Tensors with blobs in the store but no view: no release sees them, until   *)
(* one of them is loaded after all (qlwc_store.cpp:94-104, 134, 146-151).     *)
Unviewed == {b[1] : b \in blob} \ view

(* Streaming bounds memory whatever window is configured, once load()'s fill  *)
(* of all layers has been released, which the first pass does when it leaves  *)
(* its second layer: the loop never has more than the window pinned, and the  *)
(* layers with a view in the store are those, the one being loaded, the one   *)
(* prefetched and the one before it.  A pass that broke off leaves at most    *)
(* two layers more behind, which the next release drops.  Beside these layers *)
(* nothing is in the store but what failed reads left of one tensor each.     *)
MemoryBounded ==
  /\ Cardinality(pinned) <= window
  /\ filled /\ pc # "idle" => cur <= 1
  /\ ~filled =>
       Cardinality({t[1] : t \in view} \ {GlobalLayer})
         <= window + (IF faults = 0 THEN 3 ELSE 5)
  /\ Cardinality(Unviewed) <= faults

(* loaded_bytes_ never says less than what the viewed tensors occupy,       *)
(* however reads failed half-way and were retried, and it is exact as long  *)
(* as none did.                                                             *)
BytesCoverViews ==
  /\ bytes >= SizeOf(view)
  /\ faults = 0 => bytes = Cardinality(blob)

(* A tensor with a view has every blob the view's pointers lead into, also  *)
(* after a load of it that threw and was retried.                           *)
ViewsAreWhole == BlobsOf(view) \subseteq blob
=============================================================================
