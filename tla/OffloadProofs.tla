----------------------------- MODULE OffloadProofs -----------------------------
(***************************************************************************)
(* For any layers, experts, top-k and settings of the cache, and banks that *)
(* stop anywhere: a slot promised to a routed expert stays its own until    *)
(* the GPU has read it, each routed expert is added once, and a prefill     *)
(* whose layers are loaded ahead misses none.                               *)
(***************************************************************************)
EXTENDS MoeOffload, SequenceTheorems, WellFoundedInduction, TLAPS

Backends == {"cpu", "offload", "hybrid"}

\* What both slot maps are at any time, and that they agree.
Good(c) ==
  /\ c.slotFor \in [Flats -> Slots \cup {NoSlot}]
  /\ \A s \in Slots : c.idOf[s] \in Flats \cup {NoFlat}
  /\ \A f \in Flats : c.slotFor[f] # NoSlot => c.idOf[c.slotFor[f]] = f

TypeOK ==
  /\ cfg.size \in Nat /\ cfg.overlap \in BOOLEAN /\ cfg.backend \in Backends
  /\ cfg.overlap => cfg.size >= 2 * NumExperts
  /\ banked \subseteq MoeLayers
  /\ active \in BOOLEAN /\ (active => cfg.overlap) /\ buf \in {0, 1}
  /\ pc \in {"setup", "idle", "layer", "token", "ensure", "gpu", "join", "added", "unwind", "leave"}
  /\ prefill \in BOOLEAN /\ layer \in Layers
  /\ gpuOk \in BOOLEAN
  /\ pc = "setup" => ~active /\ \A f \in Flats : slotFor[f] = NoSlot

\* The positions ensured so far: their slots are protected and stand for their
\* experts; the others are with the CPU.
IsFfn(f) == f = [order |-> f.order, slots |-> f.slots, overflow |-> f.overflow,
                 missed |-> f.missed, protect |-> f.protect, fetch |-> f.fetch]
Places(f) ==
  /\ IsFfn(f)
  /\ f.order \in Routings
  /\ f.slots \in Seq(Slots \cup {NoSlot}) /\ Len(f.slots) <= TopK
  /\ f.overflow = {f.order[i] : i \in {j \in 1 .. Len(f.slots) : f.slots[j] = NoSlot}}
Promised ==
  /\ pc \in {"ensure", "gpu", "join"} => Places(ffn)
  /\ pc \in {"ensure", "gpu"} =>
       /\ \A i \in 1 .. Len(ffn.slots) : ffn.slots[i] # NoSlot =>
            ffn.slots[i] \in ffn.protect /\ idOf[ffn.slots[i]] = <<layer, ffn.order[i]>>
       /\ done = Nothing
  /\ pc \in {"gpu", "join"} =>
       /\ Len(ffn.slots) = TopK /\ task \in {"none", "running", "done"}
       /\ task = "none" <=> ffn.overflow = {}

\* What has been added.
Added ==
  /\ pc = "join" => done = AddTo(Nothing, Fallback \cup (IF gpuOk THEN {Shared} ELSE {}))
  /\ EachExpertOnce

\* In a prefill with overlap the layer whose tokens run is in slots, all of it.
Wholly ==
  /\ pc \in {"token", "ensure", "gpu", "join", "added"} /\ Overlapping /\ layer \in banked =>
       \A e \in Experts : slotFor[<<layer, e>>] # NoSlot
  /\ pc \in {"ensure", "gpu"} /\ Overlapping /\ cfg.backend # "cpu" =>
       layer \in banked /\ ffn.missed = {} /\ ffn.overflow = {}

IInv == TypeOK /\ Good(Maps) /\ Promised /\ Added /\ Wholly


-----------------------------------------------------------------------------
(* The slot maps                                                            *)

LEMMA NoFlatIsNone == NoFlat \notin Flats
BY MoeOffloadAssumption DEF NoFlat, Flats, Layers, Experts

LEMMA NoSlotIsNone == cfg.size \in Nat => NoSlot \notin Slots
BY DEF NoSlot, Slots

\* Clearing slots keeps the maps good, and touches no other slot or expert.
LEMMA ClearKeeps ==
  ASSUME cfg.size \in Nat, NEW c, Good(c), NEW S \in SUBSET Slots, NEW d, d = Clear(c, S)
  PROVE  /\ Good(d)
         /\ \A s \in Slots \ S : d.idOf[s] = c.idOf[s]
         /\ \A f \in Flats : d.slotFor[f] \notin S
         /\ \A f \in Flats : c.slotFor[f] \notin S => d.slotFor[f] = c.slotFor[f]
<1> DEFINE kept(f) == IF c.slotFor[f] \in S /\ c.idOf[c.slotFor[f]] = f
                      THEN NoSlot ELSE c.slotFor[f]
<1>1. d.slotFor = [f \in Flats |-> kept(f)]
      BY DEF Clear
<1>2. \A s \in Slots : d.idOf[s] = IF s \in S THEN NoFlat ELSE c.idOf[s]
      BY DEF Clear
<1>3. \A f \in Flats : c.slotFor[f] \in Slots \cup {NoSlot}
      BY DEF Good
<1>4. \A f \in Flats : kept(f) \in Slots \cup {NoSlot}
      BY <1>3
<1>5. d.slotFor \in [Flats -> Slots \cup {NoSlot}]
      BY <1>1, <1>4
<1>6. \A f \in Flats : d.slotFor[f] = kept(f)
      BY <1>1
<1>7. NoSlot \notin S
      BY NoSlotIsNone
<1>8. \A f \in Flats : kept(f) \notin S
      BY <1>7 DEF Good
<1>9. \A s \in Slots \ S : d.idOf[s] = c.idOf[s]
      BY <1>2
<1>10. \A s \in Slots : d.idOf[s] \in Flats \cup {NoFlat}
      BY <1>2 DEF Good
<1>11. ASSUME NEW f \in Flats, d.slotFor[f] # NoSlot PROVE d.idOf[d.slotFor[f]] = f
  <2>1. d.slotFor[f] = c.slotFor[f] /\ c.slotFor[f] \in Slots \ S
        BY <1>6, <1>8, <1>11, <1>3
  <2> QED BY <2>1, <1>9, <1>11 DEF Good
<1> QED BY <1>5, <1>6, <1>8, <1>9, <1>10, <1>11 DEF Good

\* A slot that is given to an expert is its own; nobody else gets one, and only
\* that slot changes.
LEMMA AssignKeeps ==
  ASSUME cfg.size \in Nat, NEW c, Good(c), NEW s \in Slots, NEW f \in Flats,
         NEW d, d = AssignSlot(c, s, f)
  PROVE  /\ Good(d)
         /\ d.slotFor[f] = s /\ d.idOf[s] = f
         /\ \A t \in Slots \ {s} : d.idOf[t] = c.idOf[t]
<1>1. PICK e : e = Clear(c, {s})
      OBVIOUS
<1>2. d.slotFor = [e.slotFor EXCEPT ![f] = s] /\ d.idOf = [e.idOf EXCEPT ![s] = f]
      BY <1>1 DEF AssignSlot
<1>3. /\ Good(e)
      /\ \A t \in Slots \ {s} : e.idOf[t] = c.idOf[t]
      /\ \A g \in Flats : e.slotFor[g] \notin {s}
      BY <1>1, ClearKeeps
<1>4. s \in DOMAIN e.idOf
      BY <1>1 DEF Clear
<1>5. d.slotFor \in [Flats -> Slots \cup {NoSlot}]
      BY <1>2, <1>3 DEF Good
<1>6. d.slotFor[f] = s /\ d.idOf[s] = f
      BY <1>2, <1>3, <1>4 DEF Good
<1>7. \A t \in Slots \ {s} : d.idOf[t] = e.idOf[t]
      BY <1>1, <1>2 DEF Clear
<1>8. \A t \in Slots : d.idOf[t] \in Flats \cup {NoFlat}
      BY <1>3, <1>6, <1>7 DEF Good
<1>9. ASSUME NEW g \in Flats, g # f, d.slotFor[g] # NoSlot PROVE d.idOf[d.slotFor[g]] = g
  <2>1. d.slotFor[g] = e.slotFor[g] /\ e.slotFor[g] \in Slots \ {s}
        BY <1>2, <1>3, <1>9 DEF Good
  <2> QED BY <2>1, <1>3, <1>7, <1>9 DEF Good
<1> QED BY <1>3, <1>5, <1>6, <1>7, <1>8, <1>9 DEF Good

\* The halves of the cache.
LEMMA Halves ==
  ASSUME cfg.size \in Nat, cfg.size >= 2 * NumExperts, NEW b \in {0, 1}
  PROVE  /\ Half(b) \subseteq Slots
         /\ Half(b) \cap Half(1 - b) = {}
         /\ Base(b) \in Int /\ \A e \in Experts : Base(b) + e \in Half(b)
         /\ \A s \in Half(b) : s - Base(b) \in Experts
BY MoeOffloadAssumption DEF Half, Base, Slots, Experts

\* A half that is filled holds the whole layer, and the rest of the cache stays.
LEMMA FillKeeps ==
  ASSUME cfg.size \in Nat, cfg.size >= 2 * NumExperts, NEW c, Good(c),
         NEW b \in {0, 1}, NEW l \in Layers, NEW d, d = FillHalf(c, b, l)
  PROVE  /\ Good(d)
         /\ \A e \in Experts : d.slotFor[<<l, e>>] \in Half(b)
         /\ \A f \in Flats : f[1] # l /\ c.slotFor[f] \notin Half(b) =>
               d.slotFor[f] = c.slotFor[f]
<1>1. PICK g : g = Clear(c, Half(b))
      OBVIOUS
<1>2. /\ Good(g)
      /\ \A s \in Slots \ Half(b) : g.idOf[s] = c.idOf[s]
      /\ \A f \in Flats : g.slotFor[f] \notin Half(b)
      /\ \A f \in Flats : c.slotFor[f] \notin Half(b) => g.slotFor[f] = c.slotFor[f]
      BY <1>1, ClearKeeps, Halves
<1>3. d.slotFor = [f \in Flats |-> IF f[1] = l THEN Base(b) + f[2] ELSE g.slotFor[f]]
      BY <1>1 DEF FillHalf
<1>4. \A s \in Slots : d.idOf[s] = IF s \in Half(b) THEN <<l, s - Base(b)>> ELSE g.idOf[s]
      BY <1>1 DEF FillHalf
<1>5. \A f \in Flats : f[2] \in Experts /\ f = <<f[1], f[2]>>
      BY DEF Flats
<1>6. \A f \in Flats : d.slotFor[f] = IF f[1] = l THEN Base(b) + f[2] ELSE g.slotFor[f]
      BY <1>3
<1>7. \A f \in Flats : f[1] = l => d.slotFor[f] \in Half(b) /\ d.slotFor[f] \in Slots
      BY <1>5, <1>6, Halves
<1>8. \A f \in Flats : d.slotFor[f] \in Slots \cup {NoSlot}
      BY <1>2, <1>6, <1>7 DEF Good
<1>9. d.slotFor \in [Flats -> Slots \cup {NoSlot}]
      BY <1>3, <1>8
<1>10. \A s \in Slots : d.idOf[s] \in Flats \cup {NoFlat}
  <2>1. \A s \in Half(b) : <<l, s - Base(b)>> \in Flats
        BY Halves DEF Flats
  <2>2. ASSUME NEW s \in Slots PROVE d.idOf[s] \in Flats \cup {NoFlat}
    <3>1. CASE s \in Half(b)
          BY <3>1, <2>1, <1>4
    <3>2. CASE s \notin Half(b)
          BY <3>2, <1>2, <1>4 DEF Good
    <3> QED BY <3>1, <3>2
  <2> QED BY <2>2
<1>11. ASSUME NEW f \in Flats, d.slotFor[f] # NoSlot PROVE d.idOf[d.slotFor[f]] = f
  <2>1. CASE f[1] = l
    <3>1. d.slotFor[f] = Base(b) + f[2] /\ d.slotFor[f] \in Half(b) /\ d.slotFor[f] \in Slots
          BY <2>1, <1>6, <1>7
    <3>2. Base(b) \in Int /\ f[2] \in Int
          BY <1>5, Halves DEF Experts
    <3>3. d.slotFor[f] - Base(b) = f[2]
          BY <3>1, <3>2
    <3> QED BY <3>1, <3>3, <2>1, <1>4, <1>5
  <2>2. CASE f[1] # l
    <3>1. d.slotFor[f] = g.slotFor[f] /\ g.slotFor[f] \in Slots \ Half(b)
          BY <2>2, <1>2, <1>6, <1>11 DEF Good
    <3> QED BY <3>1, <1>2, <1>4, <1>11 DEF Good
  <2> QED BY <2>1, <2>2
<1>12. \A e \in Experts : <<l, e>> \in Flats /\ <<l, e>>[1] = l
      BY DEF Flats
<1> QED BY <1>2, <1>6, <1>7, <1>9, <1>10, <1>11, <1>12 DEF Good


-----------------------------------------------------------------------------
(* The halves during a prefill                                              *)

\* A layer that is loaded ahead is in slots, all of it; the next load goes to
\* the other half and takes nothing from it.
LEMMA PrefetchKeeps ==
  ASSUME cfg.size \in Nat, cfg.size >= 2 * NumExperts, banked \subseteq Layers,
         NEW p, Good(p.c), p.buf \in {0, 1}, NEW l,
         NEW q, q = PrefetchLayer(p, l)
  PROVE  /\ Good(q.c) /\ q.buf \in {0, 1}
         /\ l \notin banked => q = p
         /\ l \in banked => q.buf = 1 - p.buf /\ \A e \in Experts : q.c.slotFor[<<l, e>>] \in Half(p.buf)
         /\ \A f \in Flats : f[1] # l /\ p.c.slotFor[f] \notin Half(p.buf) =>
               q.c.slotFor[f] = p.c.slotFor[f]
<1>1. CASE l \notin banked
      BY <1>1 DEF PrefetchLayer
<1>2. CASE l \in banked
  <2>1. PICK d : d = FillHalf(p.c, p.buf, l)
        OBVIOUS
  <2>2. q.c = d /\ q.buf = 1 - p.buf
        BY <1>2, <2>1 DEF PrefetchLayer
  <2>3. /\ Good(d)
        /\ \A e \in Experts : d.slotFor[<<l, e>>] \in Half(p.buf)
        /\ \A f \in Flats : f[1] # l /\ p.c.slotFor[f] \notin Half(p.buf) =>
              d.slotFor[f] = p.c.slotFor[f]
    <3>1. PICK b \in {0, 1} : b = p.buf
          OBVIOUS
    <3>2. PICK c : c = p.c
          OBVIOUS
    <3>3. l \in Layers /\ Good(c) /\ d = FillHalf(c, b, l)
          BY <1>2, <2>1, <3>1, <3>2
    <3> HIDE DEF Good
    <3> QED BY <3>1, <3>2, <3>3, FillKeeps
  <2>4. 1 - p.buf \in {0, 1}
        OBVIOUS
  <2> QED BY <1>2, <2>2, <2>3, <2>4
<1> QED BY <1>1, <1>2

\* Entering a layer with both loads: the layer is wholly in slots if it is banked.
LEMMA EnterKeeps ==
  ASSUME cfg.size \in Nat, cfg.size >= 2 * NumExperts, banked \subseteq Layers,
         Good(Maps), buf \in {0, 1}, layer \in Layers,
         NEW q, q = PrefetchLayer(PrefetchLayer(Buffers, layer), layer + 1)
  PROVE  /\ Good(q.c) /\ q.buf \in {0, 1}
         /\ layer \in banked => \A e \in Experts : q.c.slotFor[<<layer, e>>] # NoSlot
<1>1. PICK p : p = PrefetchLayer(Buffers, layer)
      OBVIOUS
<1>2. q = PrefetchLayer(p, layer + 1)
      BY <1>1
<1>3. Good(Buffers.c) /\ Buffers.buf \in {0, 1}
      BY DEF Buffers
<1>4. /\ Good(p.c) /\ p.buf \in {0, 1}
      /\ layer \in banked => p.buf = 1 - Buffers.buf
      /\ layer \in banked => \A e \in Experts : p.c.slotFor[<<layer, e>>] \in Half(Buffers.buf)
      BY <1>1, <1>3, PrefetchKeeps
<1>5. /\ Good(q.c) /\ q.buf \in {0, 1}
      /\ \A f \in Flats : f[1] # layer + 1 /\ p.c.slotFor[f] \notin Half(p.buf) =>
            q.c.slotFor[f] = p.c.slotFor[f]
      BY <1>2, <1>4, PrefetchKeeps
<1>6. ASSUME layer \in banked, NEW e \in Experts PROVE q.c.slotFor[<<layer, e>>] # NoSlot
  <2>1. Half(Buffers.buf) \subseteq Slots /\ Half(Buffers.buf) \cap Half(1 - Buffers.buf) = {}
        BY <1>3, Halves
  <2>2. p.c.slotFor[<<layer, e>>] \in Slots /\ p.c.slotFor[<<layer, e>>] \notin Half(p.buf)
        BY <1>4, <1>6, <2>1
  <2>3. <<layer, e>> \in Flats /\ <<layer, e>>[1] # layer + 1
        BY DEF Flats, Layers
  <2> QED BY <1>5, <2>2, <2>3, NoSlotIsNone
<1> QED BY <1>5, <1>6

\* Leaving a layer empties only whole halves.
LEMMA ReleaseKeeps ==
  ASSUME cfg.size \in Nat, cfg.size >= 2 * NumExperts,
         Good(Maps), buf \in {0, 1}, NEW l, NEW q, q = ReleaseLayer(Buffers, l)
  PROVE  Good(q.c) /\ q.buf \in {0, 1}
<1>1. PICK halves \in SUBSET {0, 1} : halves = {b \in {0, 1} : Buffers.bufLayer[b] = l}
      OBVIOUS
<1>2. PICK S : S = UNION {Half(b) : b \in halves}
      OBVIOUS
<1>3. S \in SUBSET Slots
      BY <1>2, Halves
<1>4. PICK c : c = Maps
      OBVIOUS
<1>5. q.c = Clear(c, S) /\ q.buf = buf
      BY <1>1, <1>2, <1>4 DEF ReleaseLayer, Buffers
<1> QED BY <1>3, <1>4, <1>5, ClearKeeps

-----------------------------------------------------------------------------
(* A token's experts                                                        *)

\* A slot is never taken from a position that was promised it.
LEMMA FirstSlot ==
  ASSUME NEW P, P \subseteq Slots, P # {} PROVE (CHOOSE s \in P : \A r \in P : s <= r) \in P
<1>1. P \subseteq Nat
      BY DEF Slots
<1>2. PICK s \in P : \A r \in P : <<r, s>> \notin OpToRel(<, Nat)
      BY <1>1, NatLessThanWellFounded, WFMin
<1>3. \A r \in P : ~(r < s)
      BY <1>1, <1>2 DEF OpToRel
<1>4. \A r \in P : s <= r
      BY <1>1, <1>3
<1> QED BY <1>4, Zenon

LEMMA VictimsAreFree ==
  ASSUME NEW c, NEW protect PROVE Victims(c, protect) \subseteq Slots \ protect
<1> DEFINE outside == {s \in Slots : s >= IF cfg.overlap THEN 2 * NumExperts ELSE 0} \ protect
           region  == IF outside # {} THEN outside ELSE Slots \ protect
           free    == {s \in region : c.idOf[s] = NoFlat}
<1>1. region \subseteq Slots \ protect /\ free \subseteq region
      OBVIOUS
<1>2. Victims(c, protect) = IF free # {} THEN {CHOOSE s \in free : \A r \in free : s <= r} ELSE region
      BY Zenon DEF Victims
<1>3. CASE free # {}
  <2>1. free \subseteq Slots
        BY <1>1
  <2>2. (CHOOSE s \in free : \A r \in free : s <= r) \in free
        BY <2>1, <1>3, FirstSlot
  <2> QED BY <2>2, <1>1, <1>2, <1>3
<1>4. CASE free = {}
      BY <1>1, <1>2, <1>4
<1> QED BY <1>3, <1>4

\* Adding two sets that have nothing in common is adding both at once.
LEMMA AddTwice ==
  ASSUME NEW d, NEW S, NEW T, S \cap T = {} PROVE AddTo(AddTo(d, S), T) = AddTo(d, S \cup T)
<1>1. DOMAIN AddTo(d, S) = DOMAIN d
      BY DEF AddTo
<1>2. \A e \in DOMAIN d : AddTo(d, S)[e] = IF e \in S THEN d[e] + 1 ELSE d[e]
      BY DEF AddTo
<1>3. PICK a : a = AddTo(d, S)
      OBVIOUS
<1>4. AddTo(a, T) = [e \in DOMAIN d |-> IF e \in T THEN a[e] + 1 ELSE a[e]]
      BY <1>1, <1>3 DEF AddTo
<1>5. \A e \in DOMAIN d : (IF e \in T THEN a[e] + 1 ELSE a[e])
                         = (IF e \in S \cup T THEN d[e] + 1 ELSE d[e])
      BY <1>2, <1>3
<1>6. AddTo(a, T) = [e \in DOMAIN d |-> IF e \in S \cup T THEN d[e] + 1 ELSE d[e]]
      BY <1>4, <1>5
<1> QED BY <1>3, <1>6 DEF AddTo


-----------------------------------------------------------------------------
(* The invariant                                                            *)

LEMMA InitInv == Init => IInv
<1> SUFFICES ASSUME Init PROVE IInv
    OBVIOUS
<1>1. TypeOK
  <2>1. 0 \in Layers
        BY MoeOffloadAssumption DEF Layers
  <2>2. \A f \in Flats : slotFor[f] = NoSlot
        BY DEF Init
  <2>3. cfg = [size |-> 0, overlap |-> FALSE, backend |-> "cpu", frac |-> 0]
        BY DEF Init
  <2>4. cfg.size = 0 /\ cfg.overlap = FALSE /\ cfg.backend = "cpu"
        BY <2>3
  <2> QED BY <2>1, <2>2, <2>4 DEF Init, TypeOK, Backends
<1>2. Good(Maps)
  <2>1. cfg.size = 0
        BY DEF Init
  <2>2. Slots = {}
        BY <2>1 DEF Slots
  <2>3. slotFor \in [Flats -> Slots \cup {NoSlot}] /\ \A f \in Flats : slotFor[f] = NoSlot
        BY DEF Init
  <2> QED BY <2>2, <2>3 DEF Good, Maps
<1> QED BY <1>1, <1>2 DEF Init, IInv, Promised, Added, EachExpertOnce, Wholly

\* The cache is made once, before any slot is taken.
LEMMA SetupKeeps == IInv /\ Setup => IInv'
<1> SUFFICES ASSUME IInv, Setup PROVE IInv'
    OBVIOUS
<1>1. PICK asked \in Configs, stop \in 0 .. NumLayers :
        /\ cfg' = [size |-> SizeOf(asked), overlap |-> asked.overlap,
                   backend |-> asked.backend, frac |-> asked.frac]
        /\ idOf' = [s \in 0 .. SizeOf(asked) - 1 |-> NoFlat]
        /\ banked' = {l \in MoeLayers : l < stop}
      BY DEF Setup
<1>2. /\ asked.slots \in Int /\ asked.overlap \in BOOLEAN /\ asked.backend \in Backends
      /\ NumExperts \in Nat \ {0}
      BY MoeOffloadAssumption DEF Backends
<1>3. /\ SizeOf(asked) \in Nat
      /\ asked.overlap => SizeOf(asked) >= 2 * NumExperts
      BY <1>2 DEF SizeOf
<1>4. cfg'.size = SizeOf(asked) /\ cfg'.overlap = asked.overlap /\ cfg'.backend = asked.backend
      BY <1>1
<1>5. /\ \A f \in Flats : slotFor'[f] = NoSlot
      /\ slotFor' \in [Flats -> {NoSlot}] /\ active' = FALSE
  <2>1. slotFor \in [Flats -> Slots \cup {NoSlot}]
        BY DEF IInv, Good, Maps
  <2>2. \A f \in Flats : slotFor[f] = NoSlot
        BY DEF IInv, TypeOK, Setup
  <2> QED BY <2>1, <2>2, Zenon DEF Setup, IInv, TypeOK
<1>6. TypeOK'
  <2>1. banked' \subseteq MoeLayers
        BY <1>1
  <2>2. /\ cfg'.size \in Nat /\ cfg'.overlap \in BOOLEAN /\ cfg'.backend \in Backends
        /\ cfg'.overlap => cfg'.size >= 2 * NumExperts
        BY <1>2, <1>3, <1>4
  <2>3. UNCHANGED <<active, buf, prefill, layer, gpuOk>> /\ pc' = "idle"
        BY DEF Setup, ffnVars
  <2> QED BY <1>5, <2>1, <2>2, <2>3 DEF IInv, TypeOK, Layers
<1>7. Good(Maps)'
  <2>1. \A s \in Slots' : idOf'[s] = NoFlat
        BY <1>1, <1>4 DEF Slots
  <2> QED BY <1>5, <2>1 DEF Good, Maps
<1> QED BY <1>6, <1>7 DEF Setup, IInv, Promised, Added, EachExpertOnce, Wholly

LEMMA StartPassKeeps == IInv /\ StartPass => IInv'
<1> SUFFICES ASSUME IInv, StartPass PROVE IInv'
    OBVIOUS
<1>1. TypeOK'
  <2>1. 0 \in Layers /\ 0 \in {0, 1}
        BY MoeOffloadAssumption DEF Layers
  <2>2. active' \in {active, cfg.overlap} /\ buf' \in {buf, 0} /\ prefill' \in BOOLEAN
        BY DEF StartPass
  <2> QED BY <2>1, <2>2 DEF IInv, TypeOK, StartPass, setupVars, ffnVars, Layers
<1>2. Good(Maps)'
      BY DEF IInv, Good, Maps, Slots, StartPass, setupVars
<1> QED BY <1>1, <1>2 DEF StartPass, IInv, Promised, Added, EachExpertOnce, Wholly

\* What the layers of a pass do to the slots.
LEMMA BankedLayers == TypeOK => banked \subseteq Layers
BY MoeOffloadAssumption DEF TypeOK, Layers

LEMMA EnterLayerKeeps == IInv /\ EnterLayer => IInv'
<1> SUFFICES ASSUME IInv, EnterLayer PROVE IInv'
    OBVIOUS
<1>1. /\ pc' \in {"token", "leave"} /\ (layer \notin MoeLayers => pc' = "leave")
      /\ UNCHANGED <<cfg, banked, active, prefill, layer, ffn, task, gpuOk, done>>
      BY DEF EnterLayer, setupVars, ffnVars
<1>2. /\ Good(Maps)' /\ buf' \in {0, 1}
      /\ pc' = "token" /\ Overlapping /\ layer \in banked =>
           \A e \in Experts : slotFor'[<<layer, e>>] # NoSlot
  <2>1. CASE Overlapping /\ layer \in MoeLayers
    <3>1. PICK q : q = PrefetchLayer(PrefetchLayer(Buffers, layer), layer + 1)
          OBVIOUS
    <3>2. slotFor' = q.c.slotFor /\ idOf' = q.c.idOf /\ buf' = q.buf
          BY <2>1, <3>1 DEF EnterLayer, SetBuffers, SetMaps
    <3>3. /\ Good(q.c) /\ q.buf \in {0, 1}
          /\ layer \in banked => \A e \in Experts : q.c.slotFor[<<layer, e>>] # NoSlot
          BY <2>1, <3>1, EnterKeeps, BankedLayers DEF IInv, TypeOK, Overlapping
    <3> QED BY <3>2, <3>3, <1>1 DEF Good, Maps, Slots
  <2>2. CASE ~(Overlapping /\ layer \in MoeLayers)
    <3>1. UNCHANGED <<slotFor, idOf, buf>>
          BY <2>2 DEF EnterLayer
    <3> QED BY <2>2, <3>1, <1>1 DEF Good, Maps, Slots, IInv, TypeOK
  <2> QED BY <2>1, <2>2
<1>3. TypeOK'
      BY <1>1, <1>2 DEF IInv, TypeOK, Layers
<1> QED BY <1>1, <1>2, <1>3 DEF IInv, Promised, Added, EachExpertOnce, Wholly, Overlapping, Ready

LEMMA LeaveLayerKeeps == IInv /\ LeaveLayer => IInv'
<1> SUFFICES ASSUME IInv, LeaveLayer PROVE IInv'
    OBVIOUS
<1>1. pc' \in {"idle", "layer"} /\ UNCHANGED <<cfg, banked, active, prefill, ffn, task, gpuOk, done>>
      BY DEF LeaveLayer, setupVars, ffnVars
<1>2. Good(Maps)' /\ buf' \in {0, 1}
  <2>1. CASE Overlapping
    <3>1. PICK q : q = ReleaseLayer(Buffers, layer)
          OBVIOUS
    <3>2. slotFor' = q.c.slotFor /\ idOf' = q.c.idOf /\ buf' = q.buf
          BY <2>1, <3>1 DEF LeaveLayer, SetBuffers, SetMaps
    <3>3. Good(q.c) /\ q.buf \in {0, 1}
          BY <2>1, <3>1, ReleaseKeeps DEF IInv, TypeOK, Overlapping
    <3> QED BY <3>2, <3>3, <1>1 DEF Good, Maps, Slots
  <2>2. CASE ~Overlapping
    <3>1. UNCHANGED <<slotFor, idOf, buf>>
          BY <2>2 DEF LeaveLayer
    <3> QED BY <3>1, <1>1 DEF Good, Maps, Slots, IInv, TypeOK
  <2> QED BY <2>1, <2>2
<1>3. layer' \in Layers
      BY MoeOffloadAssumption DEF LeaveLayer, LastLayer, Layers, IInv, TypeOK
<1>4. TypeOK'
      BY <1>1, <1>2, <1>3 DEF IInv, TypeOK, Layers
<1> QED BY <1>1, <1>2, <1>4 DEF IInv, Promised, Added, EachExpertOnce, Wholly


-----------------------------------------------------------------------------
(* The positions of a token                                                 *)

\* One more position, with its slot or left to the CPU.
OneMore(f, x, g) ==
  /\ Places(f) /\ Len(f.slots) < TopK /\ x \in Slots \cup {NoSlot}
  /\ IsFfn(g) /\ g.order = f.order /\ g.slots = Append(f.slots, x)
  /\ x = NoSlot => g.overflow = f.overflow \cup {f.order[Len(f.slots) + 1]}
  /\ x # NoSlot => g.overflow = f.overflow

Placed(f, x, g) ==
  /\ Places(g)
  /\ Len(f.slots) \in Nat /\ Len(g.slots) = Len(f.slots) + 1
  /\ \A i \in 1 .. Len(f.slots) : g.slots[i] = f.slots[i]
  /\ g.slots[Len(f.slots) + 1] = x

LEMMA PlaceAdded ==
  ASSUME cfg.size \in Nat, NEW f, NEW x, NEW g, OneMore(f, x, g) PROVE Placed(f, x, g)
<1>0. /\ Places(f) /\ Len(f.slots) < TopK /\ x \in Slots \cup {NoSlot}
      /\ IsFfn(g) /\ g.order = f.order /\ g.slots = Append(f.slots, x)
      /\ x = NoSlot => g.overflow = f.overflow \cup {f.order[Len(f.slots) + 1]}
      /\ x # NoSlot => g.overflow = f.overflow
      BY DEF OneMore
<1>1. PICK s \in Seq(Slots \cup {NoSlot}) : s = f.slots
      BY <1>0 DEF Places, IsFfn
<1>2. PICK n \in Nat : n = Len(s)
      BY LenProperties
<1>3. PICK t : t = Append(s, x)
      OBVIOUS
<1>4. /\ t \in Seq(Slots \cup {NoSlot}) /\ Len(t) = n + 1
      /\ \A i \in 1 .. n : t[i] = s[i]
      /\ t[n + 1] = x
      BY <1>0, <1>2, <1>3
<1>5. PICK left : left = g.overflow
      OBVIOUS
<1>6. TopK \in Nat /\ n + 1 <= TopK
      BY <1>0, <1>1, <1>2, MoeOffloadAssumption
<1>7. f.overflow = {f.order[i] : i \in {j \in 1 .. n : s[j] = NoSlot}}
      BY <1>0, <1>1, <1>2 DEF Places, IsFfn
<1>8. left = {f.order[i] : i \in {j \in 1 .. n + 1 : t[j] = NoSlot}}
  <2>1. CASE x = NoSlot
    <3>1. {j \in 1 .. n + 1 : t[j] = NoSlot} = {j \in 1 .. n : s[j] = NoSlot} \cup {n + 1}
          BY <2>1, <1>4
    <3>2. left = f.overflow \cup {f.order[n + 1]}
          BY <2>1, <1>0, <1>1, <1>2, <1>5
    <3>3. {f.order[i] : i \in {j \in 1 .. n : s[j] = NoSlot} \cup {n + 1}}
          = {f.order[i] : i \in {j \in 1 .. n : s[j] = NoSlot}} \cup {f.order[n + 1]}
          BY Zenon
    <3> QED BY <3>1, <3>2, <3>3, <1>7
  <2>2. CASE x # NoSlot
    <3>1. {j \in 1 .. n + 1 : t[j] = NoSlot} = {j \in 1 .. n : s[j] = NoSlot}
          BY <2>2, <1>4
    <3>2. left = f.overflow
          BY <2>2, <1>0, <1>5
    <3> QED BY <3>1, <3>2, <1>7
  <2> QED BY <2>1, <2>2
<1>9. f.order \in Routings
      BY <1>0 DEF Places
<1>10. Len(g.slots) = n + 1 /\ g.slots = t
      BY <1>0, <1>1, <1>3, <1>4
<1>11. g.overflow = {g.order[i] : i \in {j \in 1 .. Len(g.slots) : g.slots[j] = NoSlot}}
      BY <1>0, <1>5, <1>8, <1>10, Zenon
<1>12. Places(g)
      BY <1>0, <1>4, <1>6, <1>9, <1>10, <1>11 DEF Places, IsFfn
<1> QED BY <1>1, <1>2, <1>4, <1>10, <1>12 DEF Placed

\* A token starts with no position, or with all of them left to the CPU.
LEMMA PlacesBegun ==
  ASSUME cfg.backend \in Backends, NEW order \in Routings, NEW f, f = Begun(order)
  PROVE  /\ Places(f) /\ f.missed = {}
         /\ \A i \in 1 .. Len(f.slots) : f.slots[i] = NoSlot
         /\ cfg.backend # "cpu" => f.overflow = {}
<1>1. CASE cfg.backend = "cpu"
  <2>1. PICK s : s = [i \in 1 .. TopK |-> NoSlot]
        OBVIOUS
  <2>2. TopK \in Nat
        BY MoeOffloadAssumption
  <2>3. s \in Seq(Slots \cup {NoSlot}) /\ Len(s) = TopK /\ \A i \in 1 .. TopK : s[i] = NoSlot
        BY <2>1, <2>2
  <2>4. f = [order |-> order, slots |-> s, overflow |-> Range(order),
             missed |-> {}, protect |-> {}, fetch |-> 0]
        BY <1>1, <2>1 DEF Begun, NoFfn
  <2>5. Range(order) = {order[i] : i \in {j \in 1 .. TopK : s[j] = NoSlot}}
    <3>1. DOMAIN order = 1 .. TopK
          BY DEF Routings
    <3> QED BY <2>3, <3>1 DEF Range
  <2>6. f.order = order /\ f.slots = s /\ f.overflow = Range(order) /\ f.missed = {}
        BY <2>4
  <2> QED BY <1>1, <2>2, <2>3, <2>4, <2>5, <2>6 DEF Places, IsFfn
<1>2. CASE cfg.backend # "cpu"
  <2>1. PICK protect, fetch :
          f = [order |-> order, slots |-> <<>>, overflow |-> {},
               missed |-> {}, protect |-> protect, fetch |-> fetch]
        BY <1>2 DEF Begun, NoFfn
  <2>2. f.order = order /\ f.slots = <<>> /\ f.overflow = {} /\ f.missed = {}
        BY <2>1
  <2>3. Len(<<>>) = 0 /\ <<>> \in Seq(Slots \cup {NoSlot}) /\ 0 <= TopK
        BY MoeOffloadAssumption
  <2>4. {order[i] : i \in {j \in 1 .. 0 : f.slots[j] = NoSlot}} = {}
        OBVIOUS
  <2> QED BY <1>2, <2>1, <2>2, <2>3, <2>4 DEF Places, IsFfn
<1> QED BY <1>1, <1>2


LEMMA OffloadKeeps == IInv /\ Offload => IInv'
<1> SUFFICES ASSUME IInv, Offload PROVE IInv'
    OBVIOUS
<1>1. PICK order \in Routings : ffn' = Begun(order)
      BY DEF Offload
<1>2. /\ pc = "token" /\ pc' = "ensure" /\ layer \in banked
      /\ gpuOk' = FALSE /\ done' = Nothing
      /\ UNCHANGED <<cfg, banked, slotFor, idOf, active, buf, bufLayer, prefill, layer>>
      BY DEF Offload, setupVars, cacheVars
<1>3. /\ Places(ffn') /\ ffn'.missed = {}
      /\ \A i \in 1 .. Len(ffn'.slots) : ffn'.slots[i] = NoSlot
      /\ cfg.backend # "cpu" => ffn'.overflow = {}
      BY <1>1, PlacesBegun DEF IInv, TypeOK
<1>4. TypeOK'
      BY <1>2 DEF IInv, TypeOK, Layers
<1>5. Good(Maps)'
      BY <1>2 DEF IInv, Good, Maps, Slots
<1>6. Promised'
      BY <1>2, <1>3 DEF Promised, Places, Slots
<1>7. Wholly'
      BY <1>2, <1>3 DEF IInv, Wholly, Overlapping, Ready
<1> QED BY <1>2, <1>4, <1>5, <1>6, <1>7 DEF IInv, Added, EachExpertOnce

\* What a position needs to know of the ones before it.
LEMMA EnsuringFacts ==
  ASSUME IInv, Ensuring
  PROVE  /\ cfg.size \in Nat /\ Places(ffn) /\ Len(ffn.slots) < TopK /\ Len(ffn.slots) \in Nat
         /\ Position = Len(ffn.slots) + 1 /\ Wanted = <<layer, ffn.order[Len(ffn.slots) + 1]>>
         /\ Wanted \in Flats /\ layer \in Layers
         /\ Good(Maps) /\ slotFor \in [Flats -> Slots \cup {NoSlot}]
<1>1. /\ cfg.size \in Nat /\ Places(ffn) /\ Good(Maps) /\ layer \in Layers
      BY DEF IInv, TypeOK, Promised, Ensuring
<1>2. PICK s \in Seq(Slots \cup {NoSlot}) : s = ffn.slots
      BY <1>1 DEF Places, IsFfn
<1>3. Len(ffn.slots) \in Nat
      BY <1>2, LenProperties
<1>4. Len(ffn.slots) + 1 \in 1 .. TopK
      BY <1>3, MoeOffloadAssumption DEF Ensuring, Position
<1>5. ffn.order[Len(ffn.slots) + 1] \in Experts
      BY <1>1, <1>4 DEF Places, Routings
<1>6. Wanted \in Flats
      BY <1>1, <1>5 DEF Wanted, Position, Flats
<1> QED BY <1>1, <1>3, <1>4, <1>6, MoeOffloadAssumption DEF Wanted, Position, Good, Maps

\* A position that gets a slot: the one of its expert, which may be new to it.
LEMMA PositionKeeps ==
  ASSUME IInv, Ensuring, UNCHANGED <<pc, EnsureVars>>, Good(Maps)',
         NEW x \in Slots \cup {NoSlot}, NEW protect, NEW missed, NEW fetch, NEW left,
         left = IF x = NoSlot THEN ffn.overflow \cup {ffn.order[Len(ffn.slots) + 1]}
                ELSE ffn.overflow,
         ffn' = [order |-> ffn.order, slots |-> Append(ffn.slots, x), overflow |-> left,
                 missed |-> missed, protect |-> protect, fetch |-> fetch],
         x # NoSlot => x \in protect /\ idOf'[x] = Wanted,
         ffn.protect \subseteq protect,
         \A i \in 1 .. Len(ffn.slots) :
            ffn.slots[i] # NoSlot => idOf'[ffn.slots[i]] = idOf[ffn.slots[i]],
         Wholly'
  PROVE  IInv'
<1>1. /\ pc' = "ensure" /\ pc = "ensure"
      /\ UNCHANGED <<cfg, banked, active, buf, prefill, layer, task, gpuOk, done>>
      BY DEF Ensuring, EnsureVars, setupVars
<1>2. /\ cfg.size \in Nat /\ Places(ffn) /\ Len(ffn.slots) < TopK /\ Len(ffn.slots) \in Nat
      /\ Wanted = <<layer, ffn.order[Len(ffn.slots) + 1]>>
      BY EnsuringFacts
<1>3. /\ Places(ffn') /\ ffn'.order = ffn.order /\ ffn'.protect = protect
      /\ Len(ffn'.slots) = Len(ffn.slots) + 1
      /\ \A i \in 1 .. Len(ffn.slots) : ffn'.slots[i] = ffn.slots[i]
      /\ ffn'.slots[Len(ffn.slots) + 1] = x
  <2>1. PICK f, g : f = ffn /\ g = ffn'
        OBVIOUS
  <2>2. OneMore(f, x, g) /\ g.order = f.order /\ g.protect = protect
        BY <1>2, <2>1 DEF OneMore, IsFfn
  <2>3. Placed(f, x, g)
        BY <1>2, <2>2, PlaceAdded
  <2> QED BY <2>1, <2>2, <2>3 DEF Placed
<1>4. Places(ffn)'
      BY <1>1, <1>3 DEF Places, Slots
<1>5. ASSUME NEW i \in 1 .. Len(ffn'.slots), ffn'.slots[i] # NoSlot
      PROVE  ffn'.slots[i] \in ffn'.protect /\ idOf'[ffn'.slots[i]] = <<layer', ffn'.order[i]>>
  <2>1. CASE i = Len(ffn.slots) + 1
        BY <2>1, <1>1, <1>2, <1>3, <1>5
  <2>2. CASE i # Len(ffn.slots) + 1
    <3>1. i \in 1 .. Len(ffn.slots)
          BY <2>2, <1>2, <1>3, <1>5
    <3>2. ffn.slots[i] \in ffn.protect /\ idOf[ffn.slots[i]] = <<layer, ffn.order[i]>>
          BY <3>1, <1>1, <1>3, <1>5 DEF IInv, Promised
    <3> QED BY <3>1, <3>2, <1>1, <1>3, <1>5
  <2> QED BY <2>1, <2>2
<1>6. Promised'
      BY <1>1, <1>4, <1>5 DEF IInv, Promised
<1>7. TypeOK'
      BY <1>1 DEF IInv, TypeOK, Layers
<1> QED BY <1>1, <1>6, <1>7 DEF IInv, Added, EachExpertOnce

LEMMA HitKeeps == IInv /\ Hit => IInv'
<1> SUFFICES ASSUME IInv, Hit PROVE IInv'
    OBVIOUS
<1>1. PICK x : x = slotFor[Wanted]
      OBVIOUS
<1>2. /\ Ensuring /\ x # NoSlot /\ UNCHANGED <<pc, EnsureVars>> /\ UNCHANGED <<slotFor, idOf>>
      /\ ffn' = [ffn EXCEPT !.slots = Append(@, x), !.protect = @ \cup {x}]
      BY <1>1 DEF Hit
<1>3. /\ Wanted \in Flats /\ Good(Maps) /\ x \in Slots
      BY <1>1, <1>2, EnsuringFacts
<1>4. ffn' = [order |-> ffn.order, slots |-> Append(ffn.slots, x), overflow |-> ffn.overflow,
              missed |-> ffn.missed, protect |-> ffn.protect \cup {x}, fetch |-> ffn.fetch]
  <2>1. Places(ffn)
        BY <1>2, EnsuringFacts
  <2> QED BY <1>2, <2>1 DEF Places, IsFfn
<1>5. idOf'[x] = Wanted
      BY <1>1, <1>2, <1>3 DEF Good, Maps
<1>6. Good(Maps)'
      BY <1>2, <1>3 DEF Good, Maps, Slots, EnsureVars, setupVars
<1>7. Wholly'
  <2>1. ffn'.missed = ffn.missed /\ ffn'.overflow = ffn.overflow
        BY <1>4
  <2> QED BY <1>2, <2>1 DEF IInv, Wholly, Overlapping, Ready, EnsureVars, setupVars
<1> QED BY <1>2, <1>3, <1>4, <1>5, <1>6, <1>7, PositionKeeps

\* Loaded ahead, no expert is missed.
LEMMA NoMissAhead ==
  ASSUME IInv, Ensuring, slotFor[Wanted] = NoSlot PROVE ~(Overlapping /\ layer \in banked)
<1>1. Wanted = <<layer, ffn.order[Len(ffn.slots) + 1]>> /\ Wanted \in Flats
      BY EnsuringFacts
<1>2. ffn.order[Len(ffn.slots) + 1] \in Experts
      BY <1>1 DEF Flats
<1> QED BY <1>1, <1>2 DEF IInv, Wholly, Ensuring

LEMMA SpillKeeps == IInv /\ Spill => IInv'
<1> SUFFICES ASSUME IInv, Spill PROVE IInv'
    OBVIOUS
<1>1. PICK left : left = ffn.overflow \cup {Wanted[2]}
      OBVIOUS
<1>2. /\ Ensuring /\ slotFor[Wanted] = NoSlot
      /\ UNCHANGED <<pc, EnsureVars>> /\ UNCHANGED <<slotFor, idOf>>
      /\ ffn' = [ffn EXCEPT !.slots = Append(@, NoSlot), !.overflow = left]
      BY <1>1 DEF Spill
<1>3. /\ Good(Maps) /\ Places(ffn) /\ Wanted = <<layer, ffn.order[Len(ffn.slots) + 1]>>
      BY <1>2, EnsuringFacts
<1>4. ffn' = [order |-> ffn.order, slots |-> Append(ffn.slots, NoSlot), overflow |-> left,
              missed |-> ffn.missed, protect |-> ffn.protect, fetch |-> ffn.fetch]
      BY <1>2, <1>3 DEF Places, IsFfn
<1>5. left = ffn.overflow \cup {ffn.order[Len(ffn.slots) + 1]}
      BY <1>1, <1>3
<1>6. Good(Maps)'
      BY <1>2, <1>3 DEF Good, Maps, Slots, EnsureVars, setupVars
<1>7. Wholly'
  <2>1. ~(Overlapping /\ layer \in banked)
        BY <1>2, NoMissAhead
  <2> QED BY <1>2, <2>1 DEF IInv, Wholly, Overlapping, Ready, EnsureVars, setupVars, Ensuring
<1> QED BY <1>2, <1>4, <1>5, <1>6, <1>7, PositionKeeps

LEMMA MissKeeps == IInv /\ Miss => IInv'
<1> SUFFICES ASSUME IInv, Miss PROVE IInv'
    OBVIOUS
<1>1. PICK t \in Victims(Maps, ffn.protect) :
        /\ SetMaps(AssignSlot(Maps, t, Wanted))
        /\ ffn' = [ffn EXCEPT !.slots = Append(@, t), !.protect = @ \cup {t},
                              !.missed = @ \cup {t}, !.fetch = @ - 1]
      BY DEF Miss
<1>2. Ensuring /\ slotFor[Wanted] = NoSlot /\ UNCHANGED <<pc, EnsureVars>>
      BY DEF Miss
<1>3. t \in Slots /\ t \notin ffn.protect
      BY VictimsAreFree
<1>4. /\ cfg.size \in Nat /\ Good(Maps) /\ Places(ffn) /\ Wanted \in Flats
      BY <1>2, EnsuringFacts
<1>5. t # NoSlot
      BY <1>3, <1>4, NoSlotIsNone
<1>6. ffn' = [order |-> ffn.order, slots |-> Append(ffn.slots, t), overflow |-> ffn.overflow,
              missed |-> ffn.missed \cup {t}, protect |-> ffn.protect \cup {t},
              fetch |-> ffn.fetch - 1]
      BY <1>1, <1>4 DEF Places, IsFfn
<1>7. /\ Good(Maps)'
      /\ idOf'[t] = Wanted /\ \A s \in Slots \ {t} : idOf'[s] = idOf[s]
  <2>1. PICK c, f, d : c = Maps /\ f = Wanted /\ d = AssignSlot(c, t, f)
        OBVIOUS
  <2>2. Good(d) /\ d.idOf[t] = f /\ \A s \in Slots \ {t} : d.idOf[s] = c.idOf[s]
        BY <2>1, <1>3, <1>4, AssignKeeps
  <2>3. slotFor' = d.slotFor /\ idOf' = d.idOf /\ cfg' = cfg
        BY <1>1, <1>2, <2>1 DEF SetMaps, EnsureVars, setupVars
  <2>4. c.idOf = idOf
        BY <2>1 DEF Maps
  <2>5. Good(Maps)'
        BY <2>2, <2>3 DEF Good, Maps, Slots
  <2> QED BY <2>1, <2>2, <2>3, <2>4, <2>5
<1>8. ASSUME NEW i \in 1 .. Len(ffn.slots), ffn.slots[i] # NoSlot
      PROVE  idOf'[ffn.slots[i]] = idOf[ffn.slots[i]]
  <2>1. ffn.slots[i] \in Slots
    <3>1. PICK s \in Seq(Slots \cup {NoSlot}) : s = ffn.slots
          BY <1>4 DEF Places, IsFfn
    <3> QED BY <3>1, <1>8, ElementOfSeq
  <2>2. ffn.slots[i] \in ffn.protect
        BY <1>2, <1>8 DEF IInv, Promised, Ensuring
  <2> QED BY <2>1, <2>2, <1>3, <1>7
<1>9. Wholly'
  <2>1. ~(Overlapping /\ layer \in banked)
        BY <1>2, NoMissAhead
  <2> QED BY <1>2, <2>1 DEF IInv, Wholly, Overlapping, Ready, EnsureVars, setupVars, Ensuring
<1> QED BY <1>2, <1>3, <1>5, <1>6, <1>7, <1>8, <1>9, PositionKeeps


LEMMA NoSlotLeftKeeps == IInv /\ NoSlotLeft => IInv'
<1> SUFFICES ASSUME IInv, NoSlotLeft PROVE IInv'
    OBVIOUS
<1>1. /\ pc' = "idle"
      /\ UNCHANGED <<cfg, banked, slotFor, idOf, active, buf, prefill, layer, gpuOk>>
      BY DEF NoSlotLeft, EnsureVars, setupVars
<1>2. TypeOK'
      BY <1>1 DEF IInv, TypeOK, Layers
<1>3. Good(Maps)'
      BY <1>1 DEF IInv, Good, Maps, Slots
<1> QED BY <1>1, <1>2, <1>3 DEF IInv, Promised, Added, EachExpertOnce, Wholly

LEMMA EnsuredKeeps == IInv /\ Ensured => IInv'
<1> SUFFICES ASSUME IInv, Ensured PROVE IInv'
    OBVIOUS
<1>1. /\ pc = "ensure" /\ pc' = "gpu" /\ Position > TopK
      /\ task' = (IF ffn.overflow = {} THEN "none" ELSE "running")
      /\ UNCHANGED <<cfg, banked, slotFor, idOf, active, buf, bufLayer, prefill, layer, ffn,
                     gpuOk, done>>
      BY DEF Ensured, setupVars, cacheVars
<1>2. TypeOK'
      BY <1>1 DEF IInv, TypeOK, Layers
<1>3. Good(Maps)'
      BY <1>1 DEF IInv, Good, Maps, Slots
<1>4. Len(ffn.slots) = TopK
  <2>1. Places(ffn)
        BY <1>1 DEF IInv, Promised
  <2>2. PICK s \in Seq(Slots \cup {NoSlot}) : s = ffn.slots
        BY <2>1 DEF Places, IsFfn
  <2>3. Len(ffn.slots) \in Nat /\ Len(ffn.slots) <= TopK
        BY <2>1, <2>2, LenProperties DEF Places, IsFfn
  <2> QED BY <2>3, <1>1, MoeOffloadAssumption DEF Position
<1>5. Promised'
  <2>1. Places(ffn)'
        BY <1>1 DEF IInv, Promised, Places, Slots
  <2>2. \A i \in 1 .. Len(ffn'.slots) : ffn'.slots[i] # NoSlot =>
          ffn'.slots[i] \in ffn'.protect /\ idOf'[ffn'.slots[i]] = <<layer', ffn'.order[i]>>
        BY <1>1 DEF IInv, Promised
  <2>3. /\ done' = Nothing /\ Len(ffn'.slots) = TopK /\ task' \in {"none", "running"}
        /\ task' = "none" <=> ffn'.overflow = {}
        BY <1>1, <1>4 DEF IInv, Promised
  <2> QED BY <1>1, <2>1, <2>2, <2>3 DEF Promised
<1>6. Wholly'
      BY <1>1 DEF IInv, Wholly, Overlapping, Ready
<1> QED BY <1>1, <1>2, <1>3, <1>5, <1>6 DEF IInv, Added, EachExpertOnce

LEMMA LegacyKeeps == IInv /\ Legacy => IInv'
<1> SUFFICES ASSUME IInv, Legacy PROVE IInv'
    OBVIOUS
<1>1. /\ pc = "token" /\ pc' \in {"added", "idle"} /\ layer \notin banked
      /\ UNCHANGED <<cfg, banked, slotFor, idOf, active, buf, prefill, layer, task, gpuOk>>
      BY DEF Legacy, setupVars, cacheVars
<1>2. TypeOK'
      BY <1>1 DEF IInv, TypeOK, Layers
<1>3. Good(Maps)'
      BY <1>1 DEF IInv, Good, Maps, Slots
<1>4. EachExpertOnce'
  <2>1. PICK order \in Routings :
          \/ /\ ffn' = [NoFfn EXCEPT !.order = order]
             /\ done' = AddTo(Nothing, Range(order) \cup {Shared})
          \/ pc' = "idle"
        BY DEF Legacy
  <2>2. CASE pc' = "idle"
        BY <2>2 DEF EachExpertOnce
  <2>3. CASE /\ ffn' = [NoFfn EXCEPT !.order = order]
             /\ done' = AddTo(Nothing, Range(order) \cup {Shared})
    <3>1. ffn'.order = order
          BY <2>3 DEF NoFfn
    <3> QED BY <2>3, <3>1 DEF EachExpertOnce, AddTo, Nothing
  <2> QED BY <2>1, <2>2, <2>3
<1> QED BY <1>1, <1>2, <1>3, <1>4 DEF IInv, Promised, Added, Wholly

\* The GPU reads what the slots were promised to hold: the experts the fallback
\* would run.
LEMMA GpuRunsThePromised ==
  ASSUME IInv, pc = "gpu" PROVE OnGpu = Fallback
<1>1. /\ Places(ffn) /\ Len(ffn.slots) = TopK
      /\ \A i \in 1 .. TopK : ffn.slots[i] # NoSlot => idOf[ffn.slots[i]] = <<layer, ffn.order[i]>>
      BY DEF IInv, Promised
<1>2. \A e : <<layer, e>>[2] = e
      OBVIOUS
<1>3. \A i \in {j \in 1 .. TopK : ffn.slots[j] # NoSlot} : idOf[ffn.slots[i]] = <<layer, ffn.order[i]>>
      BY <1>1
<1>4. \A i \in {j \in 1 .. TopK : ffn.slots[j] # NoSlot} : idOf[ffn.slots[i]][2] = ffn.order[i]
      BY <1>2, <1>3
<1> QED BY <1>4 DEF OnGpu, Fallback

LEMMA GpuPartKeeps == IInv /\ GpuPart => IInv'
<1> SUFFICES ASSUME IInv, GpuPart PROVE IInv'
    OBVIOUS
<1>1. /\ pc = "gpu" /\ pc' = "join" /\ gpuOk' \in BOOLEAN
      /\ done' = AddTo(done, IF gpuOk' THEN OnGpu \cup {Shared} ELSE Fallback)
      /\ UNCHANGED <<cfg, banked, slotFor, idOf, active, buf, prefill, layer, ffn, task>>
      BY DEF GpuPart, setupVars, cacheVars
<1>2. TypeOK'
      BY <1>1 DEF IInv, TypeOK, Layers
<1>3. Good(Maps)'
      BY <1>1 DEF IInv, Good, Maps, Slots
<1>4. Promised'
      BY <1>1 DEF IInv, Promised, Places, Slots
<1>5. done' = AddTo(Nothing, Fallback \cup (IF gpuOk' THEN {Shared} ELSE {}))
  <2>1. done = Nothing /\ OnGpu = Fallback
        BY <1>1, GpuRunsThePromised DEF IInv, Promised
  <2>2. (IF gpuOk' THEN Fallback \cup {Shared} ELSE Fallback)
        = Fallback \cup (IF gpuOk' THEN {Shared} ELSE {})
    <3>1. CASE gpuOk'
          BY <3>1
    <3>2. CASE ~gpuOk'
          BY <3>2
    <3> QED BY <3>1, <3>2
  <2> QED BY <1>1, <2>1, <2>2
<1>6. Added'
  <2>1. Fallback' = Fallback /\ Nothing' = Nothing
        BY <1>1 DEF Fallback, Nothing
  <2>2. done' = AddTo(Nothing, Fallback' \cup (IF gpuOk' THEN {Shared} ELSE {}))
        BY <1>5, <2>1
  <2> QED BY <1>1, <2>2 DEF Added, EachExpertOnce, AddTo, Nothing, Shared
<1>7. Wholly'
      BY <1>1 DEF IInv, Wholly, Overlapping, Ready
<1> QED BY <1>2, <1>3, <1>4, <1>6, <1>7 DEF IInv

LEMMA GpuThrowsKeeps == IInv /\ (GpuThrows \/ Unwound) => IInv'
<1> SUFFICES ASSUME IInv, GpuThrows \/ Unwound PROVE IInv'
    OBVIOUS
<1>1. /\ pc' \in {"unwind", "idle"} /\ gpuOk' \in BOOLEAN
      /\ UNCHANGED <<cfg, banked, slotFor, idOf, active, buf, prefill, layer>>
      BY DEF GpuThrows, Unwound, setupVars, cacheVars, ffnVars, IInv, TypeOK
<1>2. TypeOK'
      BY <1>1 DEF IInv, TypeOK, Layers
<1>3. Good(Maps)'
      BY <1>1 DEF IInv, Good, Maps, Slots
<1> QED BY <1>1, <1>2, <1>3 DEF IInv, Promised, Added, EachExpertOnce, Wholly

LEMMA TaskEndsKeeps == IInv /\ TaskEnds => IInv'
<1> SUFFICES ASSUME IInv, TaskEnds PROVE IInv'
    OBVIOUS
<1>1. /\ task = "running" /\ task' = "done"
      /\ UNCHANGED <<cfg, banked, slotFor, idOf, active, buf, prefill, layer, pc, ffn, gpuOk, done>>
      BY DEF TaskEnds, setupVars, cacheVars, passVars
<1>2. TypeOK'
      BY <1>1 DEF IInv, TypeOK, Layers
<1>3. Good(Maps)'
      BY <1>1 DEF IInv, Good, Maps, Slots
<1>4. Promised'
      BY <1>1 DEF IInv, Promised, Places, Slots
<1>5. Added'
      BY <1>1 DEF IInv, Added, EachExpertOnce, Fallback, AddTo, Nothing, Shared
<1>6. Wholly'
      BY <1>1 DEF IInv, Wholly, Overlapping, Ready
<1> QED BY <1>2, <1>3, <1>4, <1>5, <1>6 DEF IInv

LEMMA JoinKeeps == IInv /\ Join => IInv'
<1> SUFFICES ASSUME IInv, Join PROVE IInv'
    OBVIOUS
<1> DEFINE rest == (IF task = "done" THEN ffn.overflow ELSE {})
                   \cup (IF gpuOk THEN {} ELSE {Shared})
           gpu  == Fallback \cup (IF gpuOk THEN {Shared} ELSE {})
<1>1. /\ pc = "join" /\ pc' = "added" /\ task # "running"
      /\ done' = AddTo(done, rest)
      /\ UNCHANGED <<cfg, banked, slotFor, idOf, active, buf, prefill, layer, ffn, gpuOk>>
      BY DEF Join, setupVars, cacheVars
<1>2. TypeOK'
      BY <1>1 DEF IInv, TypeOK, Layers
<1>3. Good(Maps)'
      BY <1>1 DEF IInv, Good, Maps, Slots
<1>4. Wholly'
      BY <1>1 DEF IInv, Wholly, Overlapping, Ready
<1>5. gpuOk \in BOOLEAN /\ (task = "none" \/ task = "done")
      BY <1>1 DEF IInv, TypeOK, Promised
<1>6. done = AddTo(Nothing, gpu)
      BY <1>1 DEF IInv, Added
<1>7. /\ Fallback \cup ffn.overflow = Range(ffn.order) /\ Fallback \cap ffn.overflow = {}
      /\ Range(ffn.order) \subseteq Experts
  <2>1. /\ ffn.order \in Routings
        /\ ffn.overflow = {ffn.order[i] : i \in {j \in 1 .. TopK : ffn.slots[j] = NoSlot}}
        BY <1>1 DEF IInv, Promised, Places
  <2>2. PICK order \in Routings : order = ffn.order
        BY <2>1
  <2>3. order \in [1 .. TopK -> Experts] /\ \A i, j \in 1 .. TopK : order[i] = order[j] => i = j
        BY <2>2 DEF Routings, IsInjective
  <2>4. Range(order) = {order[i] : i \in 1 .. TopK}
        BY <2>3 DEF Range
  <2>5. PICK slots, F, O : slots = ffn.slots /\ F = Fallback /\ O = ffn.overflow
        OBVIOUS
  <2>6. \A e : e \in F <=> \E i \in 1 .. TopK : slots[i] # NoSlot /\ e = order[i]
        BY <2>2, <2>5 DEF Fallback
  <2>7. \A e : e \in O <=> \E i \in 1 .. TopK : slots[i] = NoSlot /\ e = order[i]
        BY <2>1, <2>2, <2>5
  <2>8. F \cup O = Range(order) /\ F \cap O = {} /\ Range(order) \subseteq Experts
        BY <2>3, <2>4, <2>6, <2>7
  <2> QED BY <2>2, <2>5, <2>8
<1>8. (IF task = "done" THEN ffn.overflow ELSE {}) = ffn.overflow
      BY <1>1, <1>5 DEF IInv, Promised
<1>9. Shared \notin Experts
      BY MoeOffloadAssumption DEF Shared, Experts
<1>10. gpu \cap rest = {} /\ gpu \cup rest = Range(ffn.order) \cup {Shared}
  <2>1. rest = ffn.overflow \cup (IF gpuOk THEN {} ELSE {Shared})
        BY <1>8
  <2>2. Shared \notin Fallback /\ Shared \notin ffn.overflow
        BY <1>7, <1>9
  <2>3. CASE gpuOk
        BY <2>1, <2>2, <2>3, <1>7
  <2>4. CASE ~gpuOk
        BY <2>1, <2>2, <2>4, <1>7
  <2> QED BY <2>3, <2>4
<1>11. done' = AddTo(Nothing, Range(ffn.order) \cup {Shared})
  <2>1. PICK S, T : S = gpu /\ T = rest
        OBVIOUS
  <2>2. done' = AddTo(AddTo(Nothing, S), T) /\ S \cap T = {} /\ S \cup T = Range(ffn.order) \cup {Shared}
        BY <1>1, <1>6, <1>10, <2>1
  <2> QED BY <2>2, AddTwice
<1>12. Added'
      BY <1>1, <1>11 DEF Added, EachExpertOnce, AddTo, Nothing, Shared
<1> QED BY <1>1, <1>2, <1>3, <1>4, <1>12 DEF IInv, Promised

LEMMA NextTokenKeeps == IInv /\ NextToken => IInv'
<1> SUFFICES ASSUME IInv, NextToken PROVE IInv'
    OBVIOUS
<1>1. /\ pc = "added" /\ pc' \in {"token", "leave"} /\ gpuOk' = FALSE
      /\ UNCHANGED <<cfg, banked, slotFor, idOf, active, buf, prefill, layer>>
      BY DEF NextToken, setupVars, cacheVars
<1>2. TypeOK'
      BY <1>1 DEF IInv, TypeOK, Layers
<1>3. Good(Maps)'
      BY <1>1 DEF IInv, Good, Maps, Slots
<1>4. Wholly'
      BY <1>1 DEF IInv, Wholly, Overlapping, Ready
<1> QED BY <1>1, <1>2, <1>3, <1>4 DEF IInv, Promised, Added, EachExpertOnce

LEMMA StutterKeeps == IInv /\ UNCHANGED vars => IInv'
<1> SUFFICES ASSUME IInv, UNCHANGED vars PROVE IInv'
    OBVIOUS
<1>1. UNCHANGED <<cfg, banked, slotFor, idOf, active, buf, prefill, layer, pc, ffn, task, gpuOk, done>>
      BY DEF vars, setupVars, cacheVars, passVars, ffnVars
<1>2. TypeOK'
      BY <1>1 DEF IInv, TypeOK, Layers
<1>3. Good(Maps)'
      BY <1>1 DEF IInv, Good, Maps, Slots
<1>4. Promised'
      BY <1>1 DEF IInv, Promised, Places, Slots
<1>5. Added'
      BY <1>1 DEF IInv, Added, EachExpertOnce, Fallback, AddTo, Nothing, Shared
<1>6. Wholly'
      BY <1>1 DEF IInv, Wholly, Overlapping, Ready
<1> QED BY <1>2, <1>3, <1>4, <1>5, <1>6 DEF IInv

LEMMA StepKeeps == IInv /\ [Next]_vars => IInv'
BY SetupKeeps, StartPassKeeps, EnterLayerKeeps, LeaveLayerKeeps, OffloadKeeps, HitKeeps,
   SpillKeeps, MissKeeps, NoSlotLeftKeeps, EnsuredKeeps, LegacyKeeps, GpuPartKeeps,
   GpuThrowsKeeps, TaskEndsKeeps, JoinKeeps, NextTokenKeeps, StutterKeeps DEF Next

-----------------------------------------------------------------------------
(* Theorems                                                                 *)

(* What the cache, its two maps and a token's feed-forward are at any time  *)
(* (OffloadMoeCache and moe_ffn_token of qwen3_6_moe_int4_model.cpp).       *)
THEOREM OffloadInvariant == Spec => []IInv
BY InitInv, StepKeeps, PTL DEF Spec

(* However small the cache is, whatever is evicted for the later experts of *)
(* a token: a slot an expert of it was promised stands for that expert when *)
(* the GPU reads it (ensure_experts and ensure_experts_hybrid).             *)
THEOREM PromisedSlotsStay == Spec => []EnsuredSlotsAreTheirs
<1>1. IInv => EnsuredSlotsAreTheirs
  <2> SUFFICES ASSUME IInv PROVE EnsuredSlotsAreTheirs
      OBVIOUS
  <2>1. SlotMapConsistent
        BY DEF IInv, Good, Maps, SlotMapConsistent
  <2>2. pc = "gpu" => \A i \in 1 .. TopK :
          ffn.slots[i] # NoSlot => idOf[ffn.slots[i]] = <<layer, ffn.order[i]>>
        BY DEF IInv, Promised
  <2> QED BY <2>1, <2>2 DEF EnsuredSlotsAreTheirs
<1> QED BY <1>1, OffloadInvariant, PTL

(* The GPU's part, the fallback when the fused call fails and the CPU task  *)
(* never add an expert twice, nor leave one or the shared one out           *)
(* (moe_ffn_token).                                                         *)
THEOREM ExpertsAddedOnce == Spec => []EachExpertOnce
<1>1. IInv => EachExpertOnce
      BY DEF IInv, Added
<1> QED BY <1>1, OffloadInvariant, PTL

(* With overlap a prefill finds every expert of a banked layer in its half, *)
(* for any number of layers, banked or not, and any order of tokens         *)
(* (on_prefill_layer, prefetch_prefill_layer, release_prefill_layer).       *)
THEOREM PrefillsMissNothing == Spec => []PrefillNeverMisses
<1>1. IInv => PrefillNeverMisses
      BY DEF IInv, Wholly, PrefillNeverMisses
<1> QED BY <1>1, OffloadInvariant, PTL
=============================================================================
