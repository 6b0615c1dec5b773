------------------------------ MODULE QlwcStore ------------------------------
(***************************************************************************)
(* The lazily opened QLWC weight file of qlwc_store.cpp: which tensors have *)
(* a view, which blobs lie in memory, and the byte counter kept beside them.*)
(*                                                                         *)
(* A tensor is a pair <<layer, part>>.  An int4 part is read as three blobs *)
(* (q, s and z) and a fourth is computed from s (sf); a passthrough part is *)
(* one blob.  Every blob counts one unit of loaded_bytes_.  The tensors of  *)
(* GlobalLayer are those outside the language model's layers: open() loads  *)
(* them at once and nothing ever drops them.                                *)
(***************************************************************************)
EXTENDS Integers, FiniteSets

CONSTANTS NumLayers,      \* layers of the model, numbered from 0
          Int4Parts,      \* quantised tensors of a layer
          PassParts,      \* passthrough tensors of a layer
          MaxFaults       \* bound: reads that fail in one behaviour

VARIABLES view,           \* int4_views_ and pass_views_: tensors is_loaded() accepts
          blob,           \* blobs_ with content, as pairs <<tensor, kind>>
          bytes,          \* loaded_bytes_, in blobs
          faults          \* reads that have failed so far

storeVars == <<view, blob, bytes, faults>>

Layers      == 0 .. NumLayers - 1
GlobalLayer == -1
Parts       == Int4Parts \cup PassParts
LayerTensors(l) == {l} \X Parts
Globals     == LayerTensors(GlobalLayer)
Tensors     == (Layers \cup {GlobalLayer}) \X Parts
Int4Of(T)   == {t \in T : t[2] \in Int4Parts}

(* The blobs load_tensor fills for the tensors T, and how many they are.    *)
BlobsOf(T)  == (Int4Of(T) \X {"q", "s", "z", "sf"}) \cup ((T \ Int4Of(T)) \X {"data"})
SizeOf(T)   == 3 * Cardinality(Int4Of(T)) + Cardinality(T)
AllBlobs    == BlobsOf(Tensors)

StoreEmpty  == view = {} /\ blob = {} /\ bytes = 0

(* Mutated: the scales widened to floats are not counted.                   *)
LoadTensorUncounted(t) ==
  /\ view'  = view \cup {t}
  /\ blob'  = blob \cup BlobsOf({t})
  /\ bytes' = bytes + 1
  /\ UNCHANGED faults

(* load_tensor, to its end: every blob, the counter, then the view.         *)
LoadTensor(t) ==
  /\ view'  = view \cup {t}
  /\ blob'  = blob \cup BlobsOf({t})
  /\ bytes' = bytes + SizeOf({t})
  /\ UNCHANGED faults

(* Mutated: the view is made before the zeros are read.                     *)
LoadTensorThrowsLate(t) ==
  /\ faults < MaxFaults /\ t[2] \in Int4Parts
  /\ faults' = faults + 1
  /\ view' = view \cup {t}
  /\ blob' = blob \cup ({t} \X {"q", "s"})
  /\ bytes' = bytes + 2

(* load_tensor when a ReadBlob throws.  What was read before the throw      *)
(* stays in blobs_; only the read of the zeros comes after q and s have     *)
(* been counted.  No view is made.                                          *)
LoadTensorThrows(t) ==
  /\ faults < MaxFaults
  /\ faults' = faults + 1
  /\ UNCHANGED view
  /\ \/ UNCHANGED <<blob, bytes>>                       \* the first read
     \/ /\ t[2] \in Int4Parts                           \* the scales
        /\ blob' = blob \cup {<<t, "q">>}
        /\ UNCHANGED bytes
     \/ /\ t[2] \in Int4Parts                           \* the zeros
        /\ blob' = blob \cup ({t} \X {"q", "s"})
        /\ bytes' = bytes + 2

(* release_except: the viewed tensors that are neither kept nor resident.   *)
Released(keep) == view \ (keep \cup Globals)

(* What the store becomes when drop_tensor has run for each of D: only a    *)
(* tensor with a view loses its blobs, and the counter stops at zero.       *)
ViewsAfterDrop(D) == view \ D
BlobsAfterDrop(D) == {b \in blob : b[1] \notin D}
BytesAfterDrop(D) ==
  LET freed == Cardinality({b \in blob : b[1] \in D})
  IN  IF bytes >= freed THEN bytes - freed ELSE 0

DropTensors(D) ==
  /\ view'  = ViewsAfterDrop(D)
  /\ blob'  = BlobsAfterDrop(D)
  /\ bytes' = BytesAfterDrop(D)
  /\ UNCHANGED faults

=============================================================================
