-------------------------- MODULE LayerStreamProofs --------------------------
(***************************************************************************)
(* For any number of layers, parts and failing reads, and any windows, a    *)
(* layer computes with weights that are in memory, pinned layers and views  *)
(* are whole, what is in memory stays within the windows, and the bytes     *)
(* that are counted cover the views.                                        *)
(***************************************************************************)
EXTENDS LayerStream, FiniteSetTheorems, WellFoundedInduction, TLAPS

(* What a layer still lacks is on the list of the running load loop.        *)
LoadCovers ==
  pc \in {"pinning", "packing"} => LayerTensors(cur) \subseteq view \cup todo

(* close() leaves no layer pinned, so open() may start with none in memory. *)
ClosedIsEmpty == pc \in {"closed", "opened"} => pinned = {} /\ mirror = {}

(* The inductive invariant.                                                 *)
IInv == PackIsLive /\ PinnedIsResident /\ ViewsAreWhole /\ LoadCovers /\ ClosedIsEmpty

-----------------------------------------------------------------------------
(* The store *)

(* A blob belongs to a tensor of the set it was asked for.                  *)
LEMMA BlobOwner ==
  ASSUME NEW T, NEW b \in BlobsOf(T)
  PROVE  b[1] \in T
BY DEF BlobsOf, Int4Of

(* More tensors have more blobs.                                            *)
LEMMA BlobsMono ==
  ASSUME NEW S, NEW T, S \subseteq T
  PROVE  BlobsOf(S) \subseteq BlobsOf(T)
BY DEF BlobsOf, Int4Of

(* The blobs of tensors together are those of each together.                *)
LEMMA BlobsUnion ==
  ASSUME NEW S, NEW T
  PROVE  BlobsOf(S \cup T) = BlobsOf(S) \cup BlobsOf(T)
BY DEF BlobsOf, Int4Of

(* Dropping tensors takes their views and their blobs together.             *)
LEMMA DropKeepsWhole ==
  ASSUME ViewsAreWhole, NEW D, DropTensors(D)
  PROVE  ViewsAreWhole'
<1>1. view' = view \ D /\ blob' = {b \in blob : b[1] \notin D}
  BY DEF DropTensors, ViewsAfterDrop, BlobsAfterDrop
<1>2. \A b \in BlobsOf(view \ D) : b \in blob /\ b[1] \notin D
  BY BlobOwner, BlobsMono DEF ViewsAreWhole
<1>. QED  BY <1>1, <1>2 DEF ViewsAreWhole, BlobsOf, Int4Of

(* A release from the layers `before` down to P keeps the tensors of P, and *)
(* those outside the layers.                                                *)
LEMMA ReleaseKeeps ==
  ASSUME NEW before, NEW P, P \subseteq before, LayerSet(before) \subseteq view,
         DropTensors(DroppedBy(before, P))
  PROVE  /\ LayerSet(P) \subseteq view'
         /\ Globals \subseteq view => Globals \subseteq view'
<1>1. view' = view \ DroppedBy(before, P)
  BY DEF DropTensors, ViewsAfterDrop
<1>2. DroppedBy(before, P) \cap (LayerSet(P) \cup Globals) = {}
  BY DEF DroppedBy, Released
<1>3. LayerSet(P) \subseteq LayerSet(before)
  BY DEF LayerSet
<1>. QED  BY <1>1, <1>2, <1>3

-----------------------------------------------------------------------------
(* One step *)

(* Every operation keeps the invariant, the failing loads among them.       *)
LEMMA Inductive ==
  ASSUME IInv, [Next]_vars
  PROVE  IInv'
<1> USE DEF IInv
<1>1. CASE Open
  <2>1. pinned' = {} /\ mirror' = {} /\ view' = Globals /\ blob' = BlobsOf(Globals)
        /\ mirror' = {} /\ pc' = "opened"
    BY <1>1 DEF Open, ClosedIsEmpty
  <2>2. LayerSet(pinned') = {}
    BY <2>1 DEF LayerSet
  <2>. QED
    BY <2>1, <2>2 DEF PackIsLive, PinnedIsResident, ViewsAreWhole, LoadCovers,
         ClosedIsEmpty, BlobsOf, Int4Of, LayerSet, Globals, LayerTensors, Parts
<1>2. CASE Close
  <2>1. BlobsOf({}) = {}
    BY DEF BlobsOf, Int4Of
  <2>2. LayerSet({}) = {}
    BY DEF LayerSet
  <2>. QED
    BY <1>2, <2>1, <2>2 DEF Close, PackIsLive, PinnedIsResident, ViewsAreWhole,
         LoadCovers, ClosedIsEmpty, BlobsOf, Int4Of, LayerSet
<1>3. CASE StartPass
  BY <1>3 DEF StartPass, storeVars, loaderVars, PackIsLive, PinnedIsResident, ViewsAreWhole,
       LoadCovers, ClosedIsEmpty, BlobsOf, Int4Of, LayerSet
<1>4. CASE PrefetchSkip
  BY <1>4 DEF PrefetchSkip, storeVars, loaderVars, PackIsLive, PinnedIsResident,
       ViewsAreWhole, LoadCovers, ClosedIsEmpty, BlobsOf, Int4Of, LayerSet
<1>5. CASE PrefetchBegin
  BY <1>5 DEF PrefetchBegin, storeVars, PackIsLive, PinnedIsResident,
       ViewsAreWhole, LoadCovers, ClosedIsEmpty, BlobsOf, Int4Of, LayerSet
<1>6. CASE PrefetchEnd
  BY <1>6 DEF PrefetchEnd, storeVars, PackIsLive, PinnedIsResident,
       ViewsAreWhole, LoadCovers, ClosedIsEmpty, BlobsOf, Int4Of, LayerSet
<1>7. CASE PinHit
  BY <1>7 DEF PinHit, storeVars, loaderVars, PackIsLive, PinnedIsResident, ViewsAreWhole,
       LoadCovers, ClosedIsEmpty, BlobsOf, Int4Of, LayerSet, LayerTensors, Parts
<1>8. CASE PinBegin
  BY <1>8 DEF PinBegin, storeVars, loaderVars, PackIsLive, PinnedIsResident, ViewsAreWhole,
       LoadCovers, ClosedIsEmpty, BlobsOf, Int4Of, LayerSet, LayerTensors, Parts
<1>9. CASE PinEnd
  <2> DEFINE before == pinned \cup {cur}
             after  == InWindow(before, window)
             gone   == DroppedBy(before, after)
  <2>1. /\ pc = "pinning" /\ todo = {} /\ pc' = "packing" /\ cur' = cur
        /\ pinned' = after /\ DropTensors(gone)
        /\ \A t \in mirror' : t[1] \in after
        /\ todo' = LayerTensors(cur) \ (view \ gone)
    BY <1>9 DEF PinEnd
  <2>2. after \subseteq before
    BY DEF InWindow
  <2>3. LayerSet(before) \subseteq view
    BY <2>1 DEF LoadCovers, PinnedIsResident, LayerSet
  <2>4. LayerSet(after) \subseteq view' /\ Globals \subseteq view'
    <3> HIDE DEF before, after
    <3>. QED  BY <2>1, <2>2, <2>3, ReleaseKeeps DEF PinnedIsResident
  <2>5. view' = view \ gone
    BY <2>1 DEF DropTensors, ViewsAfterDrop
  <2>6. ViewsAreWhole'
    BY <2>1, DropKeepsWhole
  <2>7. PinnedIsResident'
    BY <2>1, <2>4 DEF PinnedIsResident, LayerSet, Globals, LayerTensors, Parts
  <2>8. LoadCovers'
    BY <2>1, <2>5 DEF LoadCovers, LayerTensors, Parts
  <2>. QED  BY <2>1, <2>6, <2>7, <2>8 DEF PackIsLive, ClosedIsEmpty
<1>10. CASE PackEnd
  BY <1>10 DEF PackEnd, storeVars, loaderVars, PackIsLive, PinnedIsResident, ViewsAreWhole,
       LoadCovers, ClosedIsEmpty, BlobsOf, Int4Of, LayerSet, LayerTensors, Parts
<1>11. CASE LoadOne
  <2> PICK t \in todo : LoadTensor(t) /\ todo' = todo \ {t}
    BY <1>11 DEF LoadOne
  <2>1. view' = view \cup {t} /\ blob' = blob \cup BlobsOf({t})
    BY DEF LoadTensor
  <2>2. ViewsAreWhole'
    BY <2>1, BlobsUnion DEF ViewsAreWhole, BlobsOf, Int4Of
  <2>3. UNCHANGED <<pinned, mirror, pc, cur, pack>> /\ pc # "forward" /\ pc # "closed"
    BY <1>11 DEF LoadOne, Loading, loaderVars
  <2>4. LoadCovers'
    BY <2>1, <2>3 DEF LoadCovers, LayerTensors, Parts
  <2>. QED
    BY <2>1, <2>2, <2>3, <2>4 DEF PackIsLive, PinnedIsResident, ClosedIsEmpty, LayerSet
<1>12. CASE LoadThrows
  <2>1. view' = view /\ blob \subseteq blob' /\ UNCHANGED <<pinned, mirror>>
    BY <1>12 DEF LoadThrows, LoadTensorThrows, loaderVars
  <2>2. pc' = "idle" /\ pc # "closed"
    BY <1>12 DEF LoadThrows, Loading
  <2>. QED
    BY <2>1, <2>2 DEF PackIsLive, PinnedIsResident, ViewsAreWhole, LoadCovers,
         ClosedIsEmpty, BlobsOf, Int4Of, LayerSet
<1>13. CASE LayerDone
  <2> DEFINE after == ReleaseAfter(cur)
             gone  == DroppedBy(pinned, after)
  <2>1. /\ pc = "forward" /\ pc' \in {"layer", "idle"}
        /\ pinned' = after /\ DropTensors(gone)
        /\ \A t \in mirror' : t[1] \in after
    BY <1>13 DEF LayerDone
  <2>2. after \subseteq pinned
    BY DEF ReleaseAfter
  <2>3. LayerSet(after) \subseteq view' /\ Globals \subseteq view'
    <3> HIDE DEF after
    <3>. QED  BY <2>1, <2>2, ReleaseKeeps DEF PinnedIsResident
  <2>4. ViewsAreWhole'
    BY <2>1, DropKeepsWhole
  <2>5. PinnedIsResident'
    BY <2>1, <2>3 DEF PinnedIsResident, LayerSet, Globals, LayerTensors, Parts
  <2>. QED  BY <2>1, <2>4, <2>5 DEF PackIsLive, LoadCovers, ClosedIsEmpty
<1>14. CASE LoadModel
  <2>1. pinned' = {} /\ mirror' = {} /\ view' = Tensors /\ blob' = BlobsOf(Tensors)
        /\ pc' = "idle"
    BY <1>14 DEF LoadModel, ClosedIsEmpty, loaderVars, AllBlobs
  <2>2. LayerSet(pinned') = {}
    BY <2>1 DEF LayerSet
  <2>3. Globals \subseteq Tensors
    BY DEF Globals, Tensors, LayerTensors
  <2>. QED
    BY <2>1, <2>2, <2>3 DEF PackIsLive, PinnedIsResident, ViewsAreWhole, LoadCovers,
         ClosedIsEmpty, BlobsOf, Int4Of
<1>15. CASE UNCHANGED vars
  BY <1>15 DEF vars, storeVars, loaderVars, driverVars, PackIsLive, PinnedIsResident,
       ViewsAreWhole, LoadCovers, ClosedIsEmpty, BlobsOf, Int4Of, LayerSet
<1>. QED
  BY <1>1, <1>2, <1>3, <1>4, <1>5, <1>6, <1>7, <1>8, <1>9, <1>10, <1>11, <1>12, <1>13,
     <1>14, <1>15 DEF Next

-----------------------------------------------------------------------------
(* All of the invariant holds in every reachable state.                     *)
THEOREM StreamInvariant == Spec => []IInv
<1>1. Init => IInv
  BY DEF Init, StoreEmpty, IInv, PackIsLive, PinnedIsResident, ViewsAreWhole, LoadCovers,
       ClosedIsEmpty, BlobsOf, Int4Of, LayerSet
<1>. QED  BY <1>1, Inductive, PTL DEF Spec

(* A layer computes with its own weights, all of them in memory.            *)
THEOREM PackCorrect == Spec => []PackIsLive
<1>1. IInv => PackIsLive
  BY DEF IInv
<1>. QED  BY <1>1, StreamInvariant, PTL

(* A pinned layer is wholly in memory, and so is what no layer owns.        *)
THEOREM PinnedCorrect == Spec => []PinnedIsResident
<1>1. IInv => PinnedIsResident
  BY DEF IInv
<1>. QED  BY <1>1, StreamInvariant, PTL

(* No view leads into a blob that is missing, whatever reads have failed.   *)
THEOREM ViewsCorrect == Spec => []ViewsAreWhole
<1>1. IInv => ViewsAreWhole
  BY DEF IInv
<1>. QED  BY <1>1, StreamInvariant, PTL

-----------------------------------------------------------------------------
(* Memory: where the layers in the store come from. *)

(* The layers of which something is in the store.                           *)
StoredLayers == {t[1] : t \in view} \ {GlobalLayer}

InPass == pc \notin {"closed", "opened", "idle"}

(* Types, the window, and what the running load loop may still load.        *)
LoopPlace ==
  /\ pinned \subseteq Layers /\ window \in Nat \ {0} /\ Cardinality(pinned) <= window
  /\ cur \in Layers \cup {NoLayer} /\ (InPass => cur \in Layers)
  /\ pc = "prefetching" => cur + 1 \in Layers
  /\ todo \subseteq IF pc = "prefetching" THEN LayerTensors(cur + 1)
                    ELSE IF pc \in {"pinning", "packing"} THEN LayerTensors(cur) ELSE {}
  /\ todo \cap view = {}
  /\ pc = "closed" => view = {}
  /\ pc = "opened" => view = Globals
  /\ view \subseteq Tensors

(* What earlier passes have left in the store beside the pinned layers.     *)
Strays == IF faults = 0 THEN 1 ELSE 3

(* Nothing was released since the pass began, or since the one it follows    *)
(* broke off: the first two layers come on top of the strays X; or the first *)
(* one is pinned, and the next two do.                                      *)
NotReleased(X) ==
  \/ /\ pc = "idle" \/ (InPass /\ cur = 0)
     /\ StoredLayers \subseteq pinned \cup X \cup {0, 1}
  \/ /\ 0 \in pinned /\ (pc = "idle" \/ (InPass /\ cur <= 1))
     /\ StoredLayers \subseteq pinned \cup X \cup {1, 2}

(* The pass has released: beside the layer in hand and the next there is the *)
(* one before it, or another one that goes when the one before is released. *)
HasReleased ==
  /\ InPass
  /\ \E x \in Layers \cup {GlobalLayer} :
       /\ StoredLayers \subseteq pinned \cup {x, cur, cur + 1}
       /\ x = cur - 1 \/ cur - 1 \in pinned

FewStrays ==
  ~filled /\ pc \notin {"closed", "opened"} =>
    \/ \E X \in SUBSET (Layers \cup {GlobalLayer}) :
         IsFiniteSet(X) /\ Cardinality(X) <= Strays /\ NotReleased(X)
    \/ HasReleased

(* A layer that computes is pinned, or all that is not pinned was released   *)
(* when the window was enforced.                                            *)
CurrentKept ==
  ~filled /\ pc \in {"packing", "forward"} =>
    cur \in pinned \/ StoredLayers \subseteq pinned \cup {cur}

(* Until something is released every tensor is there.                       *)
FilledIsAll ==
  filled => /\ view = Tensors
            /\ pc = "idle" \/ (InPass /\ (cur = 0 \/ (cur = 1 /\ 0 \in pinned)))
            /\ pc \in {"packing", "forward"} => cur \in pinned

(* The counter is right until a load has failed, and never too small.       *)
BooksCover ==
  /\ blob \subseteq AllBlobs
  /\ bytes \in Nat /\ faults \in Nat
  /\ bytes >= SizeOf(view)
  /\ faults = 0 => blob = BlobsOf(view) /\ bytes = SizeOf(view)

(* A failed read leaves the blobs of one tensor at most without a view.     *)
UnviewedFew == IsFiniteSet(Unviewed) /\ Cardinality(Unviewed) <= faults

MInv == LoopPlace /\ FewStrays /\ CurrentKept /\ FilledIsAll /\ BooksCover /\ UnviewedFew

-----------------------------------------------------------------------------
(* Sizes and windows *)

(* Among finitely many layers there is a smallest.                          *)
LEMMA SmallestLayer ==
  ASSUME NEW P \in SUBSET Layers, P # {}
  PROVE  \E l \in P : \A m \in P : l <= m
<1>1. P \subseteq Nat
  BY LayerStreamAssumption DEF Layers
<1>2. PICK l \in P : \A m \in P : <<m, l>> \notin OpToRel(<, Nat)
  BY <1>1, NatLessThanWellFounded, WFMin
<1>3. \A m \in P : ~(m < l)
  BY <1>1, <1>2 DEF OpToRel
<1>. QED  BY <1>1, <1>3

LEMMA LayerBefore ==
  ASSUME NEW l \in Layers
  PROVE  l \in Int /\ l - 1 \in Layers \cup {GlobalLayer}
<1>1. l \in Int /\ 0 <= l /\ l <= NumLayers - 1 /\ NumLayers \in Int
  BY LayerStreamAssumption DEF Layers
<1>2. CASE l = 0
  BY <1>2 DEF GlobalLayer
<1>3. CASE l # 0
  BY <1>1, <1>3 DEF Layers
<1>. QED  BY <1>1, <1>2, <1>3

(* Sets of layers are finite.                                               *)
LEMMA LayersFinite ==
  ASSUME NEW P, P \subseteq Layers \cup {GlobalLayer}
  PROVE  IsFiniteSet(P) /\ Cardinality(P) \in Nat
<1>1. IsFiniteSet(Layers)
  BY LayerStreamAssumption, FS_Interval DEF Layers
<1>2. IsFiniteSet(Layers \cup {GlobalLayer})
  BY <1>1, FS_AddElement
<1>. QED  BY <1>2, FS_Subset, FS_CardinalityType

(* enforce_window leaves at most as many layers as the window has.          *)
LEMMA WindowBound ==
  ASSUME NEW P \in SUBSET Layers, NEW w \in Nat \ {0}
  PROVE  InWindow(P, w) \subseteq P /\ Cardinality(InWindow(P, w)) <= w
<1>. DEFINE Q == InWindow(P, w)
<1>1. Q \subseteq P
  BY DEF InWindow
<1>2. CASE Q = {}
  BY <1>1, <1>2, FS_EmptySet
<1>3. CASE Q # {}
  <2>1. PICK l \in Q : \A m \in Q : l <= m
    BY <1>1, <1>3, SmallestLayer
  <2>. DEFINE above == {m \in P : m > l}
  <2>2. Cardinality(above) < w
    BY <2>1 DEF InWindow
  <2>3. IsFiniteSet(above) /\ Cardinality(above) \in Nat /\ IsFiniteSet(Q)
        /\ Cardinality(Q) \in Nat
    BY <1>1, LayersFinite
  <2>4. P \subseteq Int
    BY DEF Layers
  <2>5. \A m \in Q \ {l} : m \in P /\ m > l
    <3>1. \A m \in Q : m \in P /\ m \in Int /\ l \in Int
      BY <1>1, <2>1, <2>4
    <3>. HIDE DEF Q
    <3>. QED  BY <2>1, <3>1
  <2>6. Cardinality(Q \ {l}) <= Cardinality(above)
    <3>1. Q \ {l} \subseteq above
      BY <2>5
    <3>. QED  BY <2>3, <3>1, FS_Subset
  <2>7. Cardinality(Q \ {l}) = Cardinality(Q) - 1
    BY <2>1, <2>3, FS_RemoveElement
  <2>8. w \in Nat
    OBVIOUS
  <2>9. Cardinality(Q) <= w
    <3>. HIDE DEF Q, above
    <3>. QED  BY <2>2, <2>3, <2>6, <2>7, <2>8
  <2>. QED  BY <1>1, <2>9
<1>. QED  BY <1>2, <1>3

(* Three layers are at most three, and two at most two more.                *)
LEMMA FewLayers ==
  ASSUME NEW x, NEW y, NEW z
  PROVE  IsFiniteSet({x, y, z}) /\ Cardinality({x, y, z}) \in 0 .. 3
<1>1. IsFiniteSet({x}) /\ Cardinality({x}) = 1
  BY FS_Singleton
<1>2. IsFiniteSet({x} \cup {y}) /\ Cardinality({x} \cup {y}) \in 0 .. 2
  BY <1>1, FS_AddElement
<1>3. IsFiniteSet(({x} \cup {y}) \cup {z}) /\ Cardinality(({x} \cup {y}) \cup {z}) \in 0 .. 3
  BY <1>2, FS_AddElement
<1>4. ({x} \cup {y}) \cup {z} = {x, y, z}
  OBVIOUS
<1>. QED  BY <1>3, <1>4

LEMMA LayersTogether ==
  ASSUME NEW P, NEW X, IsFiniteSet(P), IsFiniteSet(X)
  PROVE  /\ IsFiniteSet(P \cup X)
         /\ Cardinality(P \cup X) <= Cardinality(P) + Cardinality(X)
<1>1. Cardinality(P \cup X) = Cardinality(P) + Cardinality(X) - Cardinality(P \cap X)
  BY FS_Union
<1>2. IsFiniteSet(P \cap X) /\ IsFiniteSet(P \cup X)
  BY FS_Intersection, FS_Union
<1>3. /\ Cardinality(P) \in Nat /\ Cardinality(X) \in Nat
      /\ Cardinality(P \cap X) \in Nat /\ Cardinality(P \cup X) \in Nat
  BY <1>2, FS_CardinalityType
<1>. QED  BY <1>1, <1>2, <1>3

-----------------------------------------------------------------------------
(* What loads and releases do to the stored layers *)

LEMMA StoredOfLoad ==
  ASSUME NEW t, view' = view \cup {t}
  PROVE  StoredLayers' \subseteq StoredLayers \cup {t[1]}
BY DEF StoredLayers

(* A release leaves only the pinned layers and what lies outside them.      *)
LEMMA StoredOfDrop ==
  ASSUME NEW before, NEW P, P # before, P \subseteq Layers,
         DropTensors(DroppedBy(before, P))
  PROVE  StoredLayers' \subseteq P
<1>1. view' \subseteq LayerSet(P) \cup Globals
  BY DEF DropTensors, ViewsAfterDrop, DroppedBy, Released
<1>2. \A t \in LayerSet(P) : t[1] \in P
  BY DEF LayerSet, LayerTensors
<1>3. \A t \in Globals : t[1] = GlobalLayer
  BY DEF Globals, LayerTensors
<1>. QED  BY <1>1, <1>2, <1>3 DEF StoredLayers

LEMMA NothingDropped ==
  ASSUME NEW before, DropTensors(DroppedBy(before, before))
  PROVE  view' = view /\ StoredLayers' = StoredLayers
<1>1. view' = view
  BY DEF DropTensors, ViewsAfterDrop, DroppedBy
<1>. QED  BY <1>1 DEF StoredLayers

(* The first release that gives up a layer finds something to drop.         *)
LEMMA FilledDrops ==
  ASSUME view = Tensors, NEW before, before \subseteq Layers, NEW P, P \subseteq before,
         P # before
  PROVE  DroppedBy(before, P) # {}
<1>1. PICK l \in before : l \notin P
  OBVIOUS
<1>2. PICK q \in Parts : TRUE
  BY LayerStreamAssumption
<1>3. l \in Layers /\ l # GlobalLayer
  BY <1>1 DEF Layers, GlobalLayer
<1>4. <<l, q>> \in Tensors
  BY <1>2, <1>3 DEF Tensors
<1>5. <<l, q>> \notin LayerSet(P) /\ <<l, q>> \notin Globals
  BY <1>1, <1>3 DEF LayerSet, LayerTensors, Globals
<1>. QED  BY <1>4, <1>5 DEF DroppedBy, Released

LEMMA StoredAreLayers ==
  ASSUME view \subseteq Tensors
  PROVE  StoredLayers \subseteq Layers
BY DEF StoredLayers, Tensors


-----------------------------------------------------------------------------
(* One step of the bound *)

(* The place in the loop, and the window.                                   *)
LEMMA LoopPlaceStep ==
  ASSUME IInv, LoopPlace, Next
  PROVE  LoopPlace'
<1>. USE LayerStreamAssumption DEF LoopPlace, InPass
<1>int. Layers \subseteq Int /\ 0 \in Layers
  BY DEF Layers
<1>card. Cardinality(pinned) \in Nat /\ IsFiniteSet(pinned)
  BY LayersFinite
<1>tens. /\ Globals \subseteq Tensors
         /\ \A l \in Layers : LayerTensors(l) \subseteq Tensors
  BY DEF Globals, Tensors, LayerTensors
<1>1. CASE Open
  <2>1. window' \in Nat \ {0}
    BY <1>1 DEF Open
  <2>2. pinned' = {} /\ Cardinality(pinned') = 0
    BY <1>1, FS_EmptySet DEF Open, IInv, ClosedIsEmpty
  <2>. QED  BY <1>1, <1>tens, <2>1, <2>2 DEF Open
<1>2. CASE LoadModel
  BY <1>2 DEF LoadModel, loaderVars
<1>3. CASE Close
  <2>1. pinned' = {} /\ Cardinality(pinned') = 0
    BY <1>3, FS_EmptySet DEF Close
  <2>. QED  BY <1>3, <2>1 DEF Close
<1>4. CASE StartPass
  BY <1>4, <1>int DEF StartPass, storeVars, loaderVars
<1>5. CASE PrefetchSkip \/ PrefetchEnd \/ PackEnd
  BY <1>5 DEF PrefetchSkip, PrefetchEnd, PackEnd, storeVars, loaderVars
<1>6. CASE PrefetchBegin
  BY <1>6 DEF PrefetchBegin, PrefetchSkipped, storeVars
<1>7. CASE PinHit \/ PinBegin
  BY <1>7 DEF PinHit, PinBegin, storeVars, loaderVars
<1>8. CASE PinEnd
  <2>. DEFINE before == pinned \cup {cur}
              after  == InWindow(before, window)
  <2>1. /\ pc' = "packing" /\ cur' = cur /\ window' = window /\ pinned' = after
        /\ view' = view \ DroppedBy(before, after)
        /\ todo' = LayerTensors(cur) \ (view \ DroppedBy(before, after))
        /\ cur \in Layers
    BY <1>8 DEF PinEnd, DropTensors, ViewsAfterDrop
  <2>2. after \subseteq before /\ Cardinality(after) <= window
    BY <2>1, WindowBound
  <2>. QED  BY <2>1, <2>2
<1>9. CASE LoadOne
  <2>1. PICK t \in todo : LoadTensor(t) /\ todo' = todo \ {t}
    BY <1>9 DEF LoadOne
  <2>2. view' = view \cup {t} /\ UNCHANGED <<pinned, window, pc, cur>>
    BY <1>9, <2>1 DEF LoadOne, LoadTensor, loaderVars
  <2>3. pc \in {"prefetching", "pinning", "packing"}
    BY <1>9 DEF LoadOne, Loading
  <2>4. t \in Tensors
    BY <2>3, <1>tens
  <2>. QED  BY <2>1, <2>2, <2>3, <2>4
<1>10. CASE LoadThrows
  BY <1>10 DEF LoadThrows, LoadTensorThrows, Loading, loaderVars
<1>11. CASE LayerDone
  <2>1. /\ pinned' \subseteq pinned /\ view' \subseteq view /\ UNCHANGED <<window, todo>>
        /\ cur' \in Layers /\ pc = "forward" /\ pc' \in {"layer", "idle"}
    BY <1>11 DEF LayerDone, ReleaseAfter, DropTensors, ViewsAfterDrop
  <2>2. Cardinality(pinned') <= Cardinality(pinned) /\ Cardinality(pinned') \in Nat
    BY <1>card, <2>1, FS_Subset, FS_CardinalityType
  <2>. QED  BY <1>card, <2>1, <2>2
<1>. QED
  BY <1>1, <1>2, <1>3, <1>4, <1>5, <1>6, <1>7, <1>8, <1>9, <1>10, <1>11 DEF Next

(* A step inside a pass that loads and releases nothing keeps the bound.    *)
LEMMA BoundKept ==
  ASSUME UNCHANGED <<view, pinned, cur, filled, faults>>, InPass, InPass',
         pc' \in {"packing", "forward"} => pc \in {"packing", "forward"} \/ cur \in pinned,
         FewStrays, CurrentKept, FilledIsAll
  PROVE  FewStrays' /\ CurrentKept' /\ FilledIsAll'
<1>1. StoredLayers' = StoredLayers /\ Strays' = Strays
  BY DEF StoredLayers, Strays
<1>2. \A X : NotReleased(X) => NotReleased(X)'
  BY <1>1 DEF NotReleased, InPass
<1>3. HasReleased => HasReleased'
  BY <1>1 DEF HasReleased
<1>4. FewStrays'
  BY <1>1, <1>2, <1>3 DEF FewStrays, InPass
<1>. QED  BY <1>1, <1>4 DEF CurrentKept, FilledIsAll, InPass

(* Once something was released the bound holds afresh.                      *)
LEMMA BoundAfresh ==
  ASSUME ~filled', StoredLayers' \subseteq pinned', cur' \in Layers,
         pc' \notin {"closed", "opened"}
  PROVE  FewStrays' /\ CurrentKept' /\ FilledIsAll'
<1>1. CASE pc' = "idle"
  <2>1. NotReleased({})'
    BY <1>1 DEF NotReleased
  <2>2. IsFiniteSet({}) /\ Cardinality({}) <= Strays'
    BY FS_EmptySet DEF Strays
  <2>. QED  BY <1>1, <2>1, <2>2 DEF FewStrays, CurrentKept, FilledIsAll
<1>2. CASE pc' # "idle"
  <2>1. cur' - 1 \in Layers \cup {GlobalLayer}
    BY LayerBefore
  <2>2. HasReleased'
    BY <1>2, <2>1 DEF HasReleased, InPass
  <2>. QED  BY <1>2, <2>2 DEF FewStrays, CurrentKept, FilledIsAll
<1>. QED  BY <1>1, <1>2


(* Loading a layer's tensor inside a pass.                                  *)
LEMMA BoundLoad ==
  ASSUME NEW l, StoredLayers' \subseteq StoredLayers \cup {l},
         UNCHANGED <<pinned, cur, filled, faults, pc>>, InPass, cur \in Layers,
         l = cur \/ (l = cur + 1 /\ pc \notin {"packing", "forward"}),
         FewStrays, CurrentKept
  PROVE  FewStrays' /\ CurrentKept'
<1>1. Strays' = Strays /\ InPass' /\ cur \in Int
  BY LayerBefore DEF Strays, InPass
<1>2. ASSUME NEW X, NotReleased(X)
      PROVE  NotReleased(X)'
  <2>1. CASE cur = 0 /\ StoredLayers \subseteq pinned \cup X \cup {0, 1}
    BY <1>1, <2>1 DEF NotReleased
  <2>2. CASE 0 \in pinned /\ cur \in {0, 1} /\ StoredLayers \subseteq pinned \cup X \cup {1, 2}
    BY <1>1, <2>2 DEF NotReleased
  <2>3. InPass => pc # "idle" /\ (cur <= 1 => cur \in {0, 1})
    BY LayerStreamAssumption DEF InPass, Layers
  <2>. QED  BY <1>2, <2>1, <2>2, <2>3 DEF NotReleased
<1>3. HasReleased => HasReleased'
  BY <1>1 DEF HasReleased
<1>4. FewStrays'
  BY <1>1, <1>2, <1>3 DEF FewStrays
<1>5. CurrentKept'
  BY DEF CurrentKept
<1>. QED  BY <1>4, <1>5

(* A load that throws ends the pass, and the strays are those of this pass   *)
(* and of the ones before it.                                               *)
LEMMA BoundBrokenOff ==
  ASSUME LoopPlace, FewStrays, FilledIsAll, BooksCover, LoadThrows
  PROVE  FewStrays' /\ CurrentKept' /\ FilledIsAll'
<1>1. /\ view' = view /\ pinned' = pinned /\ cur' = cur /\ filled' = filled
      /\ pc' = "idle" /\ faults' = faults + 1 /\ InPass
  BY DEF LoadThrows, LoadTensorThrows, Loading, loaderVars, InPass
<1>2. StoredLayers' = StoredLayers /\ Strays' = 3 /\ Strays \in 0 .. 3
  BY <1>1 DEF StoredLayers, Strays, BooksCover
<1>3. ASSUME NEW X, NotReleased(X)
      PROVE  NotReleased(X)'
  BY <1>1, <1>2, <1>3 DEF NotReleased
<1>4. ASSUME HasReleased
      PROVE  \E X \in SUBSET (Layers \cup {GlobalLayer}) :
               IsFiniteSet(X) /\ Cardinality(X) <= 3 /\ NotReleased(X)'
  <2>1. PICK x : StoredLayers \subseteq pinned \cup {x, cur, cur + 1}
    BY <1>4 DEF HasReleased
  <2>0. PICK X : X = StoredLayers \cap {x, cur, cur + 1}
    OBVIOUS
  <2>2. IsFiniteSet(X) /\ Cardinality(X) <= 3
    <3>1. IsFiniteSet({x, cur, cur + 1}) /\ Cardinality({x, cur, cur + 1}) \in 0 .. 3
      BY FewLayers
    <3>2. IsFiniteSet(X) /\ Cardinality(X) <= Cardinality({x, cur, cur + 1})
      BY <2>0, <3>1, FS_Subset
    <3>3. Cardinality(X) \in Nat
      BY <3>2, FS_CardinalityType
    <3>. QED  BY <3>1, <3>2, <3>3
  <2>3. X \in SUBSET (Layers \cup {GlobalLayer})
    BY <2>0, StoredAreLayers DEF LoopPlace
  <2>4. NotReleased(X)'
    BY <1>1, <1>2, <2>0, <2>1 DEF NotReleased
  <2>. QED  BY <2>2, <2>3, <2>4
<1>5. FewStrays'
  <2>1. ASSUME NEW X, IsFiniteSet(X), Cardinality(X) <= Strays
        PROVE  Cardinality(X) <= Strays'
    BY <1>2, <2>1, FS_CardinalityType
  <2>. QED  BY <1>1, <1>2, <1>3, <1>4, <2>1 DEF FewStrays, InPass
<1>. QED  BY <1>1, <1>5 DEF CurrentKept, FilledIsAll

(* The window is enforced: the layer in hand is pinned, or all but the       *)
(* window is released.                                                      *)
LEMMA BoundPinEnd ==
  ASSUME LoopPlace, FewStrays, FilledIsAll, PinEnd
  PROVE  FewStrays' /\ CurrentKept' /\ FilledIsAll'
<1>. DEFINE before == pinned \cup {cur}
            after  == InWindow(before, window)
            gone   == DroppedBy(before, after)
<1>1. /\ pc = "pinning" /\ pc' = "packing" /\ cur' = cur /\ faults' = faults
      /\ pinned' = after /\ DropTensors(gone) /\ filled' = (filled /\ gone = {})
  BY DEF PinEnd, DropTensors
<1>2. cur \in Layers /\ before \subseteq Layers /\ window \in Nat \ {0} /\ cur \in Int
  BY <1>1, LayerBefore DEF LoopPlace, InPass
<1>3. after \subseteq before
  BY <1>2, WindowBound
<1>. HIDE DEF after
<1>4. CASE after = before
  <2>1. view' = view /\ StoredLayers' = StoredLayers /\ gone = {}
    BY <1>1, <1>4, NothingDropped DEF DroppedBy
  <2>2. pinned' = pinned \cup {cur} /\ (filled' <=> filled) /\ InPass /\ InPass' /\ Strays' = Strays
    BY <1>1, <1>4, <2>1 DEF InPass, Strays, FilledIsAll
  <2>3. ASSUME NEW X, NotReleased(X)
        PROVE  NotReleased(X)'
    <3>1. CASE cur = 0 /\ StoredLayers \subseteq pinned \cup X \cup {0, 1}
      BY <1>1, <2>1, <2>2, <3>1 DEF NotReleased
    <3>2. CASE 0 \in pinned /\ cur <= 1 /\ StoredLayers \subseteq pinned \cup X \cup {1, 2}
      BY <1>1, <2>1, <2>2, <3>2 DEF NotReleased
    <3>. QED  BY <1>1, <2>3, <3>1, <3>2 DEF NotReleased
  <2>4. HasReleased => HasReleased'
    BY <1>1, <2>1, <2>2 DEF HasReleased
  <2>5. FewStrays'
    BY <1>1, <2>2, <2>3, <2>4 DEF FewStrays
  <2>. QED  BY <1>1, <2>1, <2>2, <2>5 DEF CurrentKept, FilledIsAll
<1>5. CASE after # before
  <2>1. StoredLayers' \subseteq pinned'
    BY <1>1, <1>2, <1>3, <1>5, StoredOfDrop
  <2>2. ~filled'
    BY <1>1, <1>2, <1>3, <1>5, FilledDrops DEF FilledIsAll
  <2>. QED  BY <1>1, <1>2, <2>1, <2>2, BoundAfresh
<1>. QED  BY <1>4, <1>5

(* The layer is left behind: the one before it is released if it is pinned;  *)
(* if not, the window has released it already.                              *)
LEMMA BoundLayerDone ==
  ASSUME LoopPlace, FewStrays, CurrentKept, FilledIsAll, LayerDone
  PROVE  FewStrays' /\ CurrentKept' /\ FilledIsAll'
<1>. DEFINE after == ReleaseAfter(cur)
            gone  == DroppedBy(pinned, after)
<1>1. /\ pc = "forward" /\ pinned' = after /\ DropTensors(gone)
      /\ filled' = (filled /\ gone = {}) /\ faults' = faults
      /\ \/ cur + 1 \in Layers /\ cur' = cur + 1 /\ pc' = "layer"
         \/ cur + 1 \notin Layers /\ cur' = cur /\ pc' = "idle"
  BY DEF LayerDone, DropTensors
<1>2. /\ cur \in Layers /\ cur \in Int /\ cur >= 0 /\ cur - 1 \in Layers \cup {GlobalLayer}
      /\ pinned \subseteq Layers /\ InPass /\ cur' \in Layers
  BY <1>1, LayerBefore DEF LoopPlace, InPass, Layers
<1>3. after = pinned \ {cur - 1}
  BY <1>2 DEF ReleaseAfter, StreamWindow
<1>. HIDE DEF after
<1>4. CASE cur - 1 \in pinned
  <2>1. after # pinned /\ after \subseteq pinned
    BY <1>3, <1>4
  <2>2. StoredLayers' \subseteq pinned'
    BY <1>1, <1>2, <2>1, StoredOfDrop
  <2>3. ~filled'
    BY <1>1, <1>2, <2>1, FilledDrops DEF FilledIsAll
  <2>. QED  BY <1>1, <1>2, <2>2, <2>3, BoundAfresh
<1>5. CASE cur - 1 \notin pinned
  <2>1. after = pinned
    BY <1>3, <1>5
  <2>2. view' = view /\ StoredLayers' = StoredLayers /\ gone = {} /\ pinned' = pinned
    BY <1>1, <2>1, NothingDropped DEF DroppedBy
  <2>3. (filled' <=> filled) /\ Strays' = Strays /\ 1 <= Strays
    <3>1. Strays' = Strays /\ 1 <= Strays
      BY <1>1 DEF Strays
    <3>2. filled' <=> filled
      BY <1>1, <2>2
    <3>. QED  BY <3>1, <3>2
  <2>4. CurrentKept'
    BY <1>1 DEF CurrentKept
  <2>5. FilledIsAll'
    BY <1>1, <1>2, <1>5, <2>2, <2>3 DEF FilledIsAll, InPass
  <2>6. ASSUME ~filled, StoredLayers \subseteq pinned \cup {cur}
        PROVE  FewStrays'
    <3>1. CASE pc' = "idle"
      <4>1. NotReleased({cur})'
        BY <1>1, <2>2, <2>6, <3>1 DEF NotReleased
      <4>2. IsFiniteSet({cur}) /\ Cardinality({cur}) <= Strays'
        BY <2>3, FS_Singleton DEF Strays
      <4>. QED  BY <1>1, <1>2, <3>1, <4>1, <4>2 DEF FewStrays
    <3>2. CASE pc' = "layer"
      <4>1. HasReleased'
        BY <1>1, <1>2, <2>2, <2>6, <3>2 DEF HasReleased, InPass
      <4>. QED  BY <4>1 DEF FewStrays
    <3>. QED  BY <1>1, <3>1, <3>2
  <2>7. ASSUME cur \in pinned, NEW X, NotReleased(X)
        PROVE  NotReleased(X)'
    <3>1. cur = 0 /\ 0 \in pinned /\ StoredLayers \subseteq pinned \cup X \cup {0, 1, 2}
          /\ StoredLayers \subseteq pinned \cup X \cup {1, 2}
      BY <1>1, <1>2, <1>5, <2>7 DEF NotReleased
    <3>2. CASE pc' = "idle"
      BY <2>2, <3>1, <3>2 DEF NotReleased
    <3>3. CASE pc' = "layer"
      BY <1>1, <2>2, <3>1, <3>3 DEF NotReleased, InPass
    <3>. QED  BY <1>1, <3>2, <3>3
  <2>8. ASSUME cur \in pinned, HasReleased
        PROVE  FewStrays'
    <3>1. StoredLayers \subseteq pinned \cup {cur - 1, cur + 1}
      BY <1>5, <2>8 DEF HasReleased
    <3>2. CASE pc' = "idle"
      <4>1. StoredLayers \subseteq Layers
        BY StoredAreLayers DEF LoopPlace
      <4>2. NotReleased({cur - 1})'
        BY <1>1, <2>2, <3>1, <3>2, <4>1 DEF NotReleased
      <4>3. IsFiniteSet({cur - 1}) /\ Cardinality({cur - 1}) <= Strays'
        BY <2>3, FS_Singleton DEF Strays
      <4>. QED  BY <1>1, <1>2, <3>2, <4>2, <4>3 DEF FewStrays
    <3>3. CASE pc' = "layer"
      <4>1. HasReleased'
        BY <1>1, <1>2, <2>2, <2>8, <3>1, <3>3 DEF HasReleased, InPass
      <4>. QED  BY <4>1 DEF FewStrays
    <3>. QED  BY <1>1, <3>2, <3>3
  <2>9. FewStrays'
    BY <1>1, <1>2, <2>3, <2>6, <2>7, <2>8 DEF FewStrays, CurrentKept
  <2>. QED  BY <2>4, <2>5, <2>9
<1>. QED  BY <1>4, <1>5


(* Every step keeps the bound.                                              *)
LEMMA BoundStep ==
  ASSUME LoopPlace, FewStrays, CurrentKept, FilledIsAll, BooksCover, Next
  PROVE  FewStrays' /\ CurrentKept' /\ FilledIsAll'
<1>1. CASE Open
  <2>1. pc' = "opened" /\ filled' = filled /\ pc = "closed"
    BY <1>1 DEF Open
  <2>. QED  BY <2>1 DEF FewStrays, CurrentKept, FilledIsAll, InPass
<1>2. CASE LoadModel
  BY <1>2 DEF LoadModel, FewStrays, CurrentKept, FilledIsAll
<1>3. CASE Close
  BY <1>3 DEF Close, FewStrays, CurrentKept, FilledIsAll
<1>4. CASE StartPass
  <2>1. /\ view' = view /\ pinned' = pinned /\ cur' = 0 /\ filled' = filled
        /\ pc = "idle" /\ pc' = "layer" /\ faults' = faults
    BY <1>4 DEF StartPass, storeVars, loaderVars
  <2>2. StoredLayers' = StoredLayers /\ Strays' = Strays
    BY <2>1 DEF StoredLayers, Strays
  <2>3. \A X : NotReleased(X) => NotReleased(X)'
    BY <2>1, <2>2 DEF NotReleased, InPass
  <2>4. ~HasReleased
    BY <2>1 DEF HasReleased, InPass
  <2>5. FewStrays'
    BY <2>1, <2>2, <2>3, <2>4 DEF FewStrays
  <2>. QED  BY <2>1, <2>5 DEF CurrentKept, FilledIsAll, InPass
<1>5. CASE PrefetchSkip \/ PrefetchBegin \/ PrefetchEnd \/ PinHit \/ PinBegin \/ PackEnd
  <2>1. /\ UNCHANGED <<view, pinned, cur, filled, faults>> /\ InPass /\ InPass'
        /\ pc' \in {"packing", "forward"} => pc \in {"packing", "forward"} \/ cur \in pinned
    BY <1>5 DEF PrefetchSkip, PrefetchBegin, PrefetchEnd, PinHit, PinBegin, PackEnd,
         storeVars, loaderVars, InPass
  <2>. QED  BY <2>1, BoundKept
<1>6. CASE PinEnd
  BY <1>6, BoundPinEnd
<1>7. CASE LoadOne
  <2>1. PICK t \in todo : LoadTensor(t) /\ todo' = todo \ {t}
    BY <1>7 DEF LoadOne
  <2>2. /\ view' = view \cup {t} /\ faults' = faults
        /\ UNCHANGED <<pinned, cur, filled, pc>>
        /\ pc \in {"prefetching", "pinning", "packing"} /\ InPass
    BY <1>7, <2>1 DEF LoadOne, LoadTensor, loaderVars, Loading, InPass
  <2>3. cur \in Layers /\ t \in Tensors
        /\ t[1] = IF pc = "prefetching" THEN cur + 1 ELSE cur
    BY <2>1, <2>2 DEF LoopPlace, LayerTensors, Tensors
  <2>4. StoredLayers' \subseteq StoredLayers \cup {t[1]}
    BY <2>2, StoredOfLoad
  <2>5. FewStrays' /\ CurrentKept'
    BY <2>2, <2>3, <2>4, BoundLoad
  <2>6. FilledIsAll'
    BY <2>2, <2>3 DEF FilledIsAll, InPass
  <2>. QED  BY <2>5, <2>6
<1>8. CASE LoadThrows
  BY <1>8, BoundBrokenOff
<1>9. CASE LayerDone
  BY <1>9, BoundLayerDone
<1>. QED
  BY <1>1, <1>2, <1>3, <1>4, <1>5, <1>6, <1>7, <1>8, <1>9 DEF Next

-----------------------------------------------------------------------------
(* The books *)

(* Tensors and their blobs are finitely many.                               *)
LEMMA SizeFacts ==
  ASSUME NEW T, T \subseteq Tensors
  PROVE  /\ IsFiniteSet(T) /\ IsFiniteSet(Int4Of(T)) /\ IsFiniteSet(T \ Int4Of(T))
         /\ Cardinality(T) \in Nat /\ Cardinality(Int4Of(T)) \in Nat /\ SizeOf(T) \in Nat
         /\ Cardinality(T \ Int4Of(T)) = Cardinality(T) - Cardinality(Int4Of(T))
<1>1. IsFiniteSet(Layers \cup {GlobalLayer})
  BY LayersFinite
<1>2. IsFiniteSet(Tensors)
  BY <1>1, LayerStreamAssumption, FS_Product DEF Tensors
<1>3. IsFiniteSet(T) /\ Int4Of(T) \subseteq T
  BY <1>2, FS_Subset DEF Int4Of
<1>4. IsFiniteSet(Int4Of(T)) /\ IsFiniteSet(T \ Int4Of(T))
      /\ Cardinality(T \ Int4Of(T)) = Cardinality(T) - Cardinality(T \cap Int4Of(T))
  BY <1>3, FS_Subset, FS_Difference
<1>5. T \cap Int4Of(T) = Int4Of(T)
  BY <1>3
<1>6. Cardinality(T) \in Nat /\ Cardinality(Int4Of(T)) \in Nat
  BY <1>3, <1>4, FS_CardinalityType
<1>7. Cardinality(T \ Int4Of(T)) = Cardinality(T) - Cardinality(Int4Of(T))
  BY <1>4, <1>5
<1>8. SizeOf(T) \in Nat
  <2>. HIDE <1>3
  <2>. QED  BY <1>6 DEF SizeOf
<1>. QED  BY <1>3, <1>4, <1>6, <1>7, <1>8

(* Sizes add up.                                                            *)
LEMMA SizeAdds ==
  ASSUME NEW S, NEW T, S \subseteq Tensors, T \subseteq Tensors, S \cap T = {}
  PROVE  SizeOf(S \cup T) = SizeOf(S) + SizeOf(T)
<1>1. Int4Of(S \cup T) = Int4Of(S) \cup Int4Of(T) /\ Int4Of(S) \cap Int4Of(T) = {}
  BY DEF Int4Of
<1>2. /\ Cardinality(S \cup T) = Cardinality(S) + Cardinality(T) - Cardinality({})
      /\ Cardinality(Int4Of(S) \cup Int4Of(T))
           = Cardinality(Int4Of(S)) + Cardinality(Int4Of(T)) - Cardinality({})
  <2>1. /\ IsFiniteSet(S) /\ IsFiniteSet(T)
        /\ IsFiniteSet(Int4Of(S)) /\ IsFiniteSet(Int4Of(T))
    BY SizeFacts
  <2>2. Cardinality(S \cup T) = Cardinality(S) + Cardinality(T) - Cardinality(S \cap T)
    BY <2>1, FS_Union
  <2>3. Cardinality(Int4Of(S) \cup Int4Of(T)) =
          Cardinality(Int4Of(S)) + Cardinality(Int4Of(T)) - Cardinality(Int4Of(S) \cap Int4Of(T))
    BY <2>1, FS_Union
  <2>. QED  BY <1>1, <2>2, <2>3
<1>3. Cardinality({}) = 0
  BY FS_EmptySet
<1>4. /\ Cardinality(S) \in Nat /\ Cardinality(T) \in Nat
      /\ Cardinality(Int4Of(S)) \in Nat /\ Cardinality(Int4Of(T)) \in Nat
  BY SizeFacts
<1>5. Cardinality(Int4Of(S \cup T)) = Cardinality(Int4Of(S)) + Cardinality(Int4Of(T))
  <2>1. Cardinality(Int4Of(S \cup T)) = Cardinality(Int4Of(S) \cup Int4Of(T))
    BY <1>1
  <2>. QED  BY <1>2, <1>3, <1>4, <2>1
<1>6. Cardinality(S \cup T) = Cardinality(S) + Cardinality(T)
  BY <1>2, <1>3, <1>4
<1>. QED  BY <1>4, <1>5, <1>6 DEF SizeOf

LEMMA SizeOfLoad ==
  ASSUME NEW V, V \subseteq Tensors, NEW t \in Tensors
  PROVE  /\ SizeOf(V \cup {t}) <= SizeOf(V) + SizeOf({t})
         /\ t \notin V => SizeOf(V \cup {t}) = SizeOf(V) + SizeOf({t})
<1>1. SizeOf(V) \in Nat /\ SizeOf({t}) \in Nat
  BY SizeFacts
<1>2. CASE t \in V
  <2>1. V \cup {t} = V
    BY <1>2
  <2>2. SizeOf(V \cup {t}) = SizeOf(V)
    BY <2>1
  <2>. QED  BY <1>1, <1>2, <2>2
<1>3. CASE t \notin V
  <2>1. SizeOf(V \cup {t}) = SizeOf(V) + SizeOf({t})
    BY <1>3, SizeAdds
  <2>. QED  BY <1>1, <1>3, <2>1
<1>. QED  BY <1>2, <1>3

(* The counter's unit: the blobs of tensors are as many as their size.      *)
LEMMA BlobCount ==
  ASSUME NEW T, T \subseteq Tensors
  PROVE  Cardinality(BlobsOf(T)) = SizeOf(T)
<1>. DEFINE I == Int4Of(T)
            kinds == {"q", "s", "z", "sf"}
<1>1. IsFiniteSet(kinds) /\ Cardinality(kinds) = 4
  <2>1. IsFiniteSet({"q"}) /\ Cardinality({"q"}) = 1
    BY FS_Singleton
  <2>2. IsFiniteSet({"q"} \cup {"s"}) /\ Cardinality({"q"} \cup {"s"}) = 2
    BY <2>1, FS_AddElement
  <2>3. /\ IsFiniteSet(({"q"} \cup {"s"}) \cup {"z"})
        /\ Cardinality(({"q"} \cup {"s"}) \cup {"z"}) = 3
    BY <2>2, FS_AddElement
  <2>4. /\ IsFiniteSet((({"q"} \cup {"s"}) \cup {"z"}) \cup {"sf"})
        /\ Cardinality((({"q"} \cup {"s"}) \cup {"z"}) \cup {"sf"}) = 4
    BY <2>3, FS_AddElement
  <2>5. (({"q"} \cup {"s"}) \cup {"z"}) \cup {"sf"} = kinds
    OBVIOUS
  <2>. QED  BY <2>4, <2>5
<1>2. IsFiniteSet({"data"}) /\ Cardinality({"data"}) = 1
  BY FS_Singleton
<1>3. /\ IsFiniteSet(I \X kinds) /\ Cardinality(I \X kinds) = Cardinality(I) * 4
      /\ IsFiniteSet((T \ I) \X {"data"})
      /\ Cardinality((T \ I) \X {"data"}) = Cardinality(T \ I) * 1
  <2>1. IsFiniteSet(I) /\ IsFiniteSet(T \ I)
    BY SizeFacts
  <2>. HIDE DEF I, kinds
  <2>. QED  BY <1>1, <1>2, <2>1, FS_Product
<1>4. (I \X kinds) \cap ((T \ I) \X {"data"}) = {}
  OBVIOUS
<1>5. BlobsOf(T) = (I \X kinds) \cup ((T \ I) \X {"data"})
  BY DEF BlobsOf
<1>6. /\ Cardinality(T) \in Nat /\ Cardinality(I) \in Nat
      /\ Cardinality(T \ I) = Cardinality(T) - Cardinality(I)
  BY SizeFacts
<1>7. SizeOf(T) = 3 * Cardinality(I) + Cardinality(T)
  BY DEF SizeOf
<1>. HIDE DEF I, kinds
<1>8. Cardinality(BlobsOf(T)) = Cardinality(I \X kinds) + Cardinality((T \ I) \X {"data"})
                                  - Cardinality({})
  BY <1>3, <1>4, <1>5, FS_Union
<1>9. Cardinality({}) = 0
  BY FS_EmptySet
<1>. QED  BY <1>3, <1>6, <1>7, <1>8, <1>9

(* Dropping viewed tensors gives back exactly their size.                   *)
LEMMA BooksDrop ==
  ASSUME IInv, LoopPlace, BooksCover, NEW D, D \subseteq view, DropTensors(D)
  PROVE  BooksCover'
<1>. DEFINE freed == {b \in blob : b[1] \in D}
<1>1. view \subseteq Tensors /\ D \subseteq Tensors /\ view \ D \subseteq Tensors
  BY DEF LoopPlace
<1>2. freed = BlobsOf(D)
  <2>1. \A b \in AllBlobs : b[1] \in D => b \in BlobsOf(D)
    BY DEF AllBlobs, BlobsOf, Int4Of
  <2>2. BlobsOf(D) \subseteq blob
    BY BlobsMono DEF IInv, ViewsAreWhole
  <2>3. \A b \in BlobsOf(D) : b[1] \in D
    BY BlobOwner
  <2>. QED  BY <2>1, <2>2, <2>3 DEF BooksCover
<1>3. Cardinality(freed) = SizeOf(D)
  BY <1>1, <1>2, BlobCount
<1>4. SizeOf(view) = SizeOf(view \ D) + SizeOf(D)
  <2>1. (view \ D) \cup D = view /\ (view \ D) \cap D = {}
    OBVIOUS
  <2>. QED  BY <1>1, <2>1, SizeAdds
<1>5. SizeOf(view) \in Nat /\ SizeOf(D) \in Nat /\ SizeOf(view \ D) \in Nat
  BY <1>1, SizeFacts
<1>6. bytes' = IF bytes >= SizeOf(D) THEN bytes - SizeOf(D) ELSE 0
  BY <1>3 DEF DropTensors, BytesAfterDrop
<1>7. bytes \in Nat /\ bytes >= SizeOf(view)
  BY DEF BooksCover
<1>8. bytes' = bytes - SizeOf(D) /\ bytes' \in Nat /\ bytes' >= SizeOf(view \ D)
  BY <1>4, <1>5, <1>6, <1>7
<1>9. view' = view \ D /\ faults' = faults /\ blob' = {b \in blob : b[1] \notin D}
  BY DEF DropTensors, ViewsAfterDrop, BlobsAfterDrop
<1>10. ASSUME faults = 0
       PROVE  blob' = BlobsOf(view \ D) /\ bytes' = SizeOf(view \ D)
  <2>1. blob = BlobsOf(view) /\ bytes = SizeOf(view)
    BY <1>10 DEF BooksCover
  <2>2. {b \in BlobsOf(view) : b[1] \notin D} = BlobsOf(view \ D)
    BY DEF BlobsOf, Int4Of
  <2>3. blob' = BlobsOf(view \ D)
    BY <1>9, <2>1, <2>2
  <2>. QED  BY <1>4, <1>5, <1>8, <2>1, <2>3
<1>. QED  BY <1>8, <1>9, <1>10 DEF BooksCover


(* Every step keeps the books.                                              *)
LEMMA BooksStep ==
  ASSUME IInv, LoopPlace, BooksCover, Next
  PROVE  BooksCover'
<1>tens. /\ Globals \subseteq Tensors /\ {} \subseteq Tensors
  BY DEF Globals, Tensors, LayerTensors
<1>type. view \subseteq Tensors /\ bytes \in Nat /\ bytes >= SizeOf(view) /\ faults \in Nat
         /\ blob \subseteq AllBlobs /\ SizeOf(view) \in Nat
  BY SizeFacts DEF LoopPlace, BooksCover
<1>blobs. \A T : T \subseteq Tensors => BlobsOf(T) \subseteq AllBlobs
  BY BlobsMono DEF AllBlobs
<1>1. CASE Open
  <2>1. SizeOf(Globals) \in Nat
    BY <1>tens, SizeFacts
  <2>. QED  BY <1>1, <1>tens, <1>type, <1>blobs, <2>1 DEF Open, BooksCover
<1>2. CASE LoadModel
  <2>1. /\ view' = Tensors /\ blob' = AllBlobs /\ faults' = faults
        /\ bytes' = bytes + SizeOf(Tensors \ view)
    BY <1>2 DEF LoadModel
  <2>2. SizeOf(Tensors) = SizeOf(view) + SizeOf(Tensors \ view)
    <3>1. view \cup (Tensors \ view) = Tensors /\ view \cap (Tensors \ view) = {}
      BY <1>type
    <3>. QED  BY <1>type, <3>1, SizeAdds
  <2>3. SizeOf(Tensors \ view) \in Nat
    BY SizeFacts
  <2>. QED  BY <1>type, <2>1, <2>2, <2>3 DEF BooksCover, AllBlobs
<1>3. CASE Close
  <2>1. SizeOf({}) = 0 /\ BlobsOf({}) = {}
    <3>1. Int4Of({}) = {}
      BY DEF Int4Of
    <3>. QED  BY <3>1, FS_EmptySet DEF SizeOf, BlobsOf
  <2>. QED  BY <1>3, <1>type, <2>1 DEF Close, BooksCover
<1>4. ASSUME UNCHANGED <<view, blob, bytes, faults>>
      PROVE  BooksCover'
  BY <1>4 DEF BooksCover
<1>5. CASE StartPass \/ PrefetchSkip \/ PrefetchBegin \/ PrefetchEnd \/ PinHit \/ PinBegin
           \/ PackEnd
  BY <1>4, <1>5 DEF StartPass, PrefetchSkip, PrefetchBegin, PrefetchEnd, PinHit, PinBegin,
       PackEnd, storeVars
<1>6. CASE PinEnd \/ LayerDone
  <2>1. \A before, P : DroppedBy(before, P) \subseteq view
    BY DEF DroppedBy, Released
  <2>2. \E before, P : DropTensors(DroppedBy(before, P))
    BY <1>6 DEF PinEnd, LayerDone
  <2>. QED  BY <2>1, <2>2, BooksDrop
<1>7. CASE LoadOne
  <2>1. PICK t \in todo : LoadTensor(t)
    BY <1>7 DEF LoadOne
  <2>2. t \in Tensors /\ t \notin view
    BY <1>7, <2>1 DEF LoopPlace, LoadOne, Loading, InPass, LayerTensors, Tensors
  <2>3. /\ view' = view \cup {t} /\ blob' = blob \cup BlobsOf({t})
        /\ bytes' = bytes + SizeOf({t}) /\ faults' = faults
    BY <2>1 DEF LoadTensor
  <2>4. SizeOf(view \cup {t}) = SizeOf(view) + SizeOf({t}) /\ SizeOf({t}) \in Nat
    BY <1>type, <2>2, SizeOfLoad, SizeFacts
  <2>5. BlobsOf(view \cup {t}) = BlobsOf(view) \cup BlobsOf({t})
    BY BlobsUnion
  <2>6. BlobsOf({t}) \subseteq AllBlobs
    BY <1>blobs, <2>2
  <2>7. faults = 0 => blob' = BlobsOf(view') /\ bytes' = SizeOf(view')
    BY <2>3, <2>4, <2>5 DEF BooksCover
  <2>8. bytes' \in Nat /\ bytes' >= SizeOf(view')
    BY <1>type, <2>3, <2>4
  <2>. QED  BY <1>type, <2>3, <2>6, <2>7, <2>8 DEF BooksCover
<1>8. CASE LoadThrows
  <2>1. PICK t \in todo : LoadTensorThrows(t)
    BY <1>8 DEF LoadThrows
  <2>2. t \in Tensors
    BY <1>8, <2>1 DEF LoopPlace, LoadThrows, Loading, InPass, LayerTensors, Tensors
  <2>3. t[2] \in Int4Parts => {t} \X {"q", "s"} \subseteq AllBlobs /\ <<t, "q">> \in AllBlobs
    BY <2>2 DEF AllBlobs, BlobsOf, Int4Of
  <2>4. view' = view /\ faults' = faults + 1 /\ bytes' \in {bytes, bytes + 2}
        /\ blob' \subseteq AllBlobs
    BY <1>type, <2>1, <2>3 DEF LoadTensorThrows
  <2>5. bytes' \in Nat /\ bytes' >= SizeOf(view') /\ faults' \in Nat /\ faults' # 0
    BY <1>type, <2>4
  <2>. QED  BY <2>4, <2>5 DEF BooksCover
<1>. QED
  BY <1>1, <1>2, <1>3, <1>5, <1>6, <1>7, <1>8 DEF Next

-----------------------------------------------------------------------------
(* A load that throws adds one tensor to those with blobs and no view, and  *)
(* whatever else a step does adds none.                                     *)
LEMMA UnviewedStep ==
  ASSUME IInv, LoopPlace, BooksCover, UnviewedFew, Next
  PROVE  UnviewedFew'
<1>1. faults \in Nat /\ IsFiniteSet(Unviewed) /\ Cardinality(Unviewed) <= faults
      /\ Cardinality(Unviewed) \in Nat
  BY FS_CardinalityType DEF BooksCover, UnviewedFew
<1>2. ASSUME Unviewed' \subseteq Unviewed, faults' = faults
      PROVE  UnviewedFew'
  <2>1. IsFiniteSet(Unviewed') /\ Cardinality(Unviewed') <= Cardinality(Unviewed)
        /\ Cardinality(Unviewed') \in Nat
    BY <1>1, <1>2, FS_Subset, FS_CardinalityType
  <2>. QED  BY <1>1, <1>2, <2>1 DEF UnviewedFew
<1>3. ASSUME NEW T, view' = T, blob' = BlobsOf(T), faults' = faults
      PROVE  UnviewedFew'
  <2>1. Unviewed' \subseteq Unviewed
    BY <1>3, BlobOwner DEF Unviewed
  <2>. QED  BY <1>2, <1>3, <2>1
<1>4. CASE Open \/ LoadModel
  <2>1. /\ \E T : view' = T /\ blob' = BlobsOf(T)
        /\ faults' = faults
    BY <1>4 DEF Open, LoadModel, AllBlobs
  <2>. QED  BY <1>3, <2>1
<1>5. CASE Close
  <2>1. Unviewed' \subseteq Unviewed /\ faults' = faults
    BY <1>5 DEF Close, Unviewed
  <2>. QED  BY <1>2, <2>1
<1>6. CASE StartPass \/ PrefetchSkip \/ PrefetchBegin \/ PrefetchEnd \/ PinHit \/ PinBegin
           \/ PackEnd
  <2>1. view' = view /\ blob' = blob /\ faults' = faults
    BY <1>6 DEF StartPass, PrefetchSkip, PrefetchBegin, PrefetchEnd, PinHit, PinBegin,
         PackEnd, storeVars
  <2>. QED  BY <1>2, <2>1 DEF Unviewed
<1>7. CASE PinEnd \/ LayerDone
  <2>1. \E before, P : DropTensors(DroppedBy(before, P))
    BY <1>7 DEF PinEnd, LayerDone
  <2>2. PICK D : DropTensors(D)
    BY <2>1
  <2>3. Unviewed' \subseteq Unviewed /\ faults' = faults
    BY <2>2 DEF DropTensors, ViewsAfterDrop, BlobsAfterDrop, Unviewed
  <2>. QED  BY <1>2, <2>3
<1>8. CASE LoadOne
  <2>1. PICK t \in todo : LoadTensor(t)
    BY <1>8 DEF LoadOne
  <2>2. \A b \in BlobsOf({t}) : b[1] = t
    BY BlobOwner
  <2>3. Unviewed' \subseteq Unviewed /\ faults' = faults
    BY <2>1, <2>2 DEF LoadTensor, Unviewed
  <2>. QED  BY <1>2, <2>3
<1>9. CASE LoadThrows
  <2>1. PICK t \in todo : LoadTensorThrows(t)
    BY <1>9 DEF LoadThrows
  <2>2. Unviewed' \subseteq Unviewed \cup {t} /\ faults' = faults + 1
    <3>1. blob' \subseteq blob \cup ({t} \X {"q", "s"}) /\ view' = view /\ faults' = faults + 1
      BY <2>1 DEF LoadTensorThrows
    <3>. QED  BY <3>1 DEF Unviewed
  <2>3. IsFiniteSet(Unviewed \cup {t}) /\ Cardinality(Unviewed \cup {t}) <= faults + 1
    BY <1>1, FS_AddElement
  <2>4. /\ IsFiniteSet(Unviewed') /\ Cardinality(Unviewed') <= Cardinality(Unviewed \cup {t})
        /\ Cardinality(Unviewed') \in Nat /\ Cardinality(Unviewed \cup {t}) \in Nat
    BY <2>2, <2>3, FS_Subset, FS_CardinalityType
  <2>. QED  BY <1>1, <2>2, <2>3, <2>4 DEF UnviewedFew
<1>. QED  BY <1>4, <1>5, <1>6, <1>7, <1>8, <1>9 DEF Next

(* The bounds hold in every reachable state.                                *)
THEOREM MemoryInvariant == Spec => []MInv
<1>1. Init => MInv
  <2>. SUFFICES ASSUME Init
                PROVE  MInv
    OBVIOUS
  <2>1. Cardinality({}) = 0
    BY FS_EmptySet
  <2>2. SizeOf({}) = 0 /\ BlobsOf({}) = {}
    <3>1. Int4Of({}) = {}
      BY DEF Int4Of
    <3>. QED  BY <2>1, <3>1 DEF SizeOf, BlobsOf
  <2>3. LoopPlace
    BY <2>1 DEF Init, StoreEmpty, LoopPlace, InPass
  <2>4. FewStrays /\ CurrentKept /\ FilledIsAll
    BY DEF Init, FewStrays, CurrentKept, FilledIsAll
  <2>5. BooksCover
    BY <2>2 DEF Init, StoreEmpty, BooksCover
  <2>6. UnviewedFew
    BY <2>1, FS_EmptySet DEF Init, StoreEmpty, Unviewed, UnviewedFew
  <2>. QED  BY <2>3, <2>4, <2>5, <2>6 DEF MInv
<1>2. IInv /\ MInv /\ [Next]_vars => MInv'
  <2>. SUFFICES ASSUME IInv, MInv, [Next]_vars
                PROVE  MInv'
    OBVIOUS
  <2>1. CASE Next
    BY <2>1, LoopPlaceStep, BoundStep, BooksStep, UnviewedStep DEF MInv
  <2>2. CASE UNCHANGED vars
    <3>1. /\ UNCHANGED <<view, blob, bytes, faults>>
          /\ UNCHANGED <<pinned, mirror, window, pc, cur, todo, filled>>
      BY <2>2 DEF vars, storeVars, loaderVars, driverVars
    <3>2. StoredLayers' = StoredLayers /\ Strays' = Strays /\ (InPass' <=> InPass)
      BY <3>1 DEF StoredLayers, Strays, InPass
    <3>3. LoopPlace'
      BY <3>1, <3>2 DEF MInv, LoopPlace
    <3>4. (\A X : NotReleased(X) => NotReleased(X)') /\ (HasReleased => HasReleased')
      BY <3>1, <3>2 DEF NotReleased, HasReleased
    <3>5. FewStrays'
      BY <3>1, <3>2, <3>4 DEF MInv, FewStrays
    <3>6. CurrentKept' /\ FilledIsAll' /\ BooksCover'
      BY <3>1, <3>2 DEF MInv, CurrentKept, FilledIsAll, BooksCover
    <3>7. UnviewedFew'
      BY <3>1 DEF MInv, UnviewedFew, Unviewed
    <3>. QED  BY <3>3, <3>5, <3>6, <3>7 DEF MInv
  <2>. QED  BY <2>1, <2>2
<1>. QED  BY <1>1, <1>2, StreamInvariant, PTL DEF Spec

(* Streaming bounds memory whatever window is configured, and whatever       *)
(* passes have broken off: the window, three or five layers more, and what   *)
(* each failed read left of one tensor (layer_stream.cpp, qlwc_store.cpp,    *)
(* the layer loop of qwen3_5_int4_model.cpp).                               *)
THEOREM MemoryIsBounded == Spec => []MemoryBounded
<1>1. MInv => MemoryBounded
  <2>. SUFFICES ASSUME MInv
                PROVE  MemoryBounded
    OBVIOUS
  <2>1. Cardinality(pinned) <= window
    BY DEF MInv, LoopPlace
  <2>2. filled /\ pc # "idle" => cur <= 1
    BY DEF MInv, FilledIsAll
  <2>3. /\ IsFiniteSet(pinned) /\ Cardinality(pinned) \in Nat /\ window \in Nat
        /\ IsFiniteSet(StoredLayers) /\ Cardinality(StoredLayers) \in Nat
    BY LayersFinite, StoredAreLayers DEF MInv, LoopPlace
  <2>4. ASSUME NEW Y, IsFiniteSet(Y), NEW n \in Nat, Cardinality(Y) <= n,
               StoredLayers \subseteq pinned \cup Y
        PROVE  Cardinality(StoredLayers) <= window + n
    <3>1. /\ IsFiniteSet(pinned \cup Y)
          /\ Cardinality(pinned \cup Y) <= Cardinality(pinned) + Cardinality(Y)
      BY <2>3, <2>4, LayersTogether
    <3>2. Cardinality(StoredLayers) <= Cardinality(pinned \cup Y)
      BY <2>4, <3>1, FS_Subset
    <3>3. Cardinality(Y) \in Nat /\ Cardinality(pinned \cup Y) \in Nat
      BY <2>4, <3>1, FS_CardinalityType
    <3>. QED  BY <2>1, <2>3, <2>4, <3>1, <3>2, <3>3
  <2>5. ASSUME NEW X, IsFiniteSet(X), Cardinality(X) <= Strays, NotReleased(X)
        PROVE  Cardinality(StoredLayers) <= window + (IF faults = 0 THEN 3 ELSE 5)
    <3>1. PICK a, b : StoredLayers \subseteq pinned \cup (X \cup {a, b})
      BY <2>5 DEF NotReleased
    <3>2. IsFiniteSet({a, b}) /\ Cardinality({a, b}) <= 2
      <4>1. IsFiniteSet({a}) /\ Cardinality({a}) = 1
        BY FS_Singleton
      <4>2. IsFiniteSet({a} \cup {b}) /\ Cardinality({a} \cup {b}) <= 2
        BY <4>1, FS_AddElement
      <4>3. {a} \cup {b} = {a, b}
        OBVIOUS
      <4>. QED  BY <4>2, <4>3
    <3>3. /\ IsFiniteSet(X \cup {a, b})
          /\ Cardinality(X \cup {a, b}) <= Cardinality(X) + Cardinality({a, b})
      BY <2>5, <3>2, LayersTogether
    <3>4. /\ Cardinality(X) \in Nat /\ Cardinality({a, b}) \in Nat
          /\ Cardinality(X \cup {a, b}) \in Nat
      BY <2>5, <3>2, <3>3, FS_CardinalityType
    <3>5. Cardinality(X \cup {a, b}) <= Strays + 2 /\ Strays \in Nat
      BY <2>5, <3>2, <3>3, <3>4 DEF Strays
    <3>. QED  BY <2>4, <3>1, <3>3, <3>5 DEF Strays
  <2>6. ASSUME HasReleased
        PROVE  Cardinality(StoredLayers) <= window + 3
    <3>1. PICK x : StoredLayers \subseteq pinned \cup {x, cur, cur + 1}
      BY <2>6 DEF HasReleased
    <3>2. IsFiniteSet({x, cur, cur + 1}) /\ Cardinality({x, cur, cur + 1}) \in 0 .. 3
      BY FewLayers
    <3>3. Cardinality({x, cur, cur + 1}) <= 3 /\ 3 \in Nat
      BY <3>2
    <3>. QED  BY <2>4, <3>1, <3>2, <3>3
  <2>7. ASSUME pc \in {"closed", "opened"}
        PROVE  StoredLayers = {}
    BY <2>7 DEF MInv, LoopPlace, StoredLayers, Globals, LayerTensors
  <2>8. ~filled => Cardinality(StoredLayers) <= window + (IF faults = 0 THEN 3 ELSE 5)
    <3>1. CASE pc \in {"closed", "opened"}
      BY <2>3, <2>7, <3>1, FS_EmptySet
    <3>2. CASE pc \notin {"closed", "opened"}
      BY <2>3, <2>5, <2>6, <3>2 DEF MInv, FewStrays
    <3>. QED  BY <3>1, <3>2
  <2>9. Cardinality(Unviewed) <= faults
    BY DEF MInv, UnviewedFew
  <2>. QED  BY <2>1, <2>2, <2>8, <2>9 DEF MemoryBounded, StoredLayers
<1>. QED  BY <1>1, MemoryInvariant, PTL

(* loaded_bytes_ covers what is in memory, however loads have failed, and is *)
(* exact until one does (qlwc_store.cpp).                                   *)
THEOREM BytesAreCovered == Spec => []BytesCoverViews
<1>1. MInv => BytesCoverViews
  <2>. SUFFICES ASSUME MInv
                PROVE  BytesCoverViews
    OBVIOUS
  <2>1. view \subseteq Tensors
    BY DEF MInv, LoopPlace
  <2>. QED  BY <2>1, BlobCount DEF MInv, BooksCover, BytesCoverViews
<1>. QED  BY <1>1, MemoryInvariant, PTL
=============================================================================
