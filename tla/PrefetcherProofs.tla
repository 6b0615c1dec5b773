--------------------------- MODULE PrefetcherProofs ---------------------------
(***************************************************************************)
(* Theorems about ExpertPrefetcher for any number of layers, experts and   *)
(* slots, any size of slot and any pin budget; and about the decode step   *)
(* that drives it, for any number of layers and any choice of dense ones.  *)
(***************************************************************************)
EXTENDS MoeDecode, FiniteSetTheorems, WellFoundedInduction, TLAPS

(***************************************************************************)
(* The inductive invariant.                                                *)
(***************************************************************************)

PlanRec == [slot : SlotSet \cup {None}, ids : Seq(Experts), acquired : BOOLEAN]
Cell == [blk : Blocks, ok : BOOLEAN]
Read == [slot : SlotSet \cup {None}, pos : 0..SlotCap, blk : Blocks,
         st : {"pending", "settled"}, ok : BOOLEAN]
Owner == [pc : {"idle", "pins", "pinload", "pinwait", "fill", "acquire", "close"},
          layer : Layers \cup {None}, ids : Seq(Experts), slot : SlotSet \cup {None},
          k : Nat, p : Nat, ec : BOOLEAN, got : BOOLEAN]

TypeOK ==
  /\ plans \in [Layers -> PlanRec \cup {None}]
  /\ free \in Seq(SlotSet)
  /\ span \in [SlotSet -> Seq(Blocks)]
  /\ err \in [SlotSet -> BOOLEAN]
  /\ mem \in [SlotSet -> [1..SlotCap -> Cell \cup {None}]]
  /\ pinKeys \subseteq Keys
  /\ pinStore \in [Blocks -> {"absent", "good", "torn"}]
  /\ reads \in [1..MaxReads -> Read \cup {None}]
  /\ own \in Owner

\* Where the owner thread stands: the layer it plans has no plan yet, the part
\* it waits for is still missing.
OwnerPlace ==
  /\ own.pc \notin {"idle", "close"} => own.layer \in Layers
  /\ own.pc \in {"pins", "pinload", "pinwait", "fill"} =>
       own.k >= 1 /\ plans[own.layer] = None
  /\ own.pc \in {"pinload", "pinwait", "fill"} => own.p \in 1..(NParts + 1)
  /\ own.pc \in {"pinload", "pinwait"} => own.k <= Len(own.ids)
  /\ own.pc = "pinwait" => own.p \in Missing(Key(own.k))
  /\ own.pc = "acquire" => plans[own.layer] # None
  /\ own.pc = "fill" => own.slot # None

\* A slot packs blocks of the layer that owns it, within its size.
SpansOfOwner ==
  /\ \A s \in SlotSet : Len(span[s]) <= SlotCap
  /\ \A l \in Layers : plans[l] # None /\ plans[l].slot # None =>
       \A u \in 1..Len(span[plans[l].slot]) : span[plans[l].slot][u][1][1] = l
  /\ own.pc = "fill" =>
       \A u \in 1..Len(span[own.slot]) : span[own.slot][u][1][1] = own.layer

\* A read in flight that writes to a slot.
InFlight(i) == reads[i] # None /\ reads[i].st = "pending" /\ reads[i].slot # None

\* It writes where its block is packed, into a slot that is neither queued nor
\* handed to the computation.
ReadsInPlace ==
  \A i \in 1..MaxReads : InFlight(i) =>
    /\ reads[i].pos \in 1..Len(span[reads[i].slot])
    /\ span[reads[i].slot][reads[i].pos] = reads[i].blk
    /\ \A k \in 1..Len(free) : free[k] # reads[i].slot
    /\ \A l \in Layers : plans[l] # None /\ plans[l].slot = reads[i].slot =>
         ~plans[l].acquired

\* A packed block has been written to its place, or its read is in flight, unless
\* the slot is lost.
Written(s, u) == mem[s][u] # None /\ mem[s][u].blk = span[s][u]
Covered ==
  \A s \in SlotSet : Circulating(s) => \A u \in 1..Len(span[s]) :
    \/ Written(s, u)
    \/ \E i \in 1..MaxReads : InFlight(i) /\ reads[i].slot = s /\ reads[i].pos = u

\* Every block a plan needs is pinned or packed; of the plan under construction
\* every block the fill loop has passed.
HasPlace(s, b) == s \in SlotSet /\ \E u \in 1..Len(span[s]) : span[s][u] = b
PlanComplete(l) ==
  \A n \in 1..Len(plans[l].ids), p \in 1..NParts :
    \/ IsPinned(<<l, plans[l].ids[n]>>)
    \/ HasPlace(plans[l].slot, <<<<l, plans[l].ids[n]>>, p>>)
FillComplete ==
  \A n \in 1..Len(own.ids), p \in 1..NParts :
    n < own.k \/ (n = own.k /\ p < own.p) =>
      IsPinned(Key(n)) \/ HasPlace(own.slot, <<Key(n), p>>)
PlansComplete ==
  /\ \A l \in Layers : plans[l] # None => PlanComplete(l)
  /\ own.pc = "fill" => FillComplete

\* A pinned expert that a plan uses, or that the pin loop has passed, is whole.
PinWhole(key) == IsPinned(key) => Missing(key) = {}
PinnedWhole ==
  /\ \A l \in Layers : plans[l] # None =>
       \A n \in 1..Len(plans[l].ids) : PinWhole(<<l, plans[l].ids[n]>>)
  /\ own.pc \in {"pins", "pinload", "pinwait", "fill"} =>
       \A n \in 1..Len(own.ids) : n < own.k \/ own.pc = "fill" => PinWhole(Key(n))
  /\ own.pc \in {"pinload", "pinwait"} =>
       \A p \in 1..NParts : p < own.p => p \notin Missing(Key(own.k))

\* What is pinned fits the budget, what the load in progress will add included.
Stored == {b \in Blocks : pinStore[b] # "absent"}
InBudget ==
  /\ IsFiniteSet(Stored)
  /\ PinBudget # 0 =>
       /\ PinBytes <= PinBudget
       /\ own.pc \in {"pinload", "pinwait"} =>
            PinBytes + Cardinality(Missing(Key(own.k))) <= PinBudget

IInv ==
  /\ TypeOK
  /\ OwnerPlace
  /\ SlotOwnership
  /\ SpansOfOwner
  /\ ReadsInPlace
  /\ Covered
  /\ PlansComplete
  /\ PinnedWhole
  /\ InBudget

---------------------------------------------------------------------------
(* Lemmas about the operators. *)

\* A set of numbers that is not empty has a least one.
LEMMA LeastNumber ==
  ASSUME NEW T, T \subseteq Nat, T # {}
  PROVE  \E x \in T : \A y \in T : x <= y
<1>1. IsWellFoundedOn(OpToRel(<, Nat), Nat)
  BY NatLessThanWellFounded
<1>2. PICK x \in T : \A y \in T : ~(<<y, x>> \in OpToRel(<, Nat))
  BY <1>1, WFMin
<1>3. \A y \in T : ~(y < x)
  BY <1>2 DEF OpToRel
<1>. QED BY <1>3

\* submit() takes a read record that no read uses.
LEMMA ReadIdIsFree ==
  ASSUME FreeReads # {}
  PROVE  ReadId \in FreeReads
<1>1. FreeReads \subseteq Nat
  BY DEF FreeReads
<1>2. \E i \in FreeReads : \A k \in FreeReads : i <= k
  BY <1>1, LeastNumber
<1>. QED BY <1>2 DEF ReadId

\* Counting upwards through a finite set of numbers meets every rank.
LEMMA RankReached ==
  ASSUME NEW m \in Nat, NEW F \in SUBSET (1..m),
         NEW n \in 1..Cardinality(F)
  PROVE  \E i \in F : Cardinality({k \in F : k <= i}) = n
<1>. DEFINE Upto(i) == {k \in F : k <= i}
            T == {i \in Nat : Cardinality(Upto(i)) >= n}
<1>1. \A k \in F : k \in Nat /\ 1 <= k /\ k <= m
  OBVIOUS
<1>2. IsFiniteSet(F) /\ Cardinality(F) \in Nat /\ n \in Nat /\ 1 <= n
  <2>1. IsFiniteSet(1..m)
    BY FS_Interval
  <2>2. IsFiniteSet(F) /\ Cardinality(F) \in Nat
    BY <2>1, FS_Subset, FS_CardinalityType
  <2>. QED BY <2>2
<1>3. \A i : IsFiniteSet(Upto(i)) /\ Cardinality(Upto(i)) \in Nat
  <2>1. \A i : Upto(i) \subseteq F
    OBVIOUS
  <2>. QED BY <1>2, <2>1, FS_Subset, FS_CardinalityType
<1>4. m \in T
  <2>1. Upto(m) = F
    BY <1>1
  <2>. QED BY <1>2, <2>1
<1>5. PICK i \in T : \A j \in T : i <= j
  <2>. T \subseteq Nat /\ T # {}
    BY <1>4
  <2>. HIDE DEF T
  <2>. QED BY LeastNumber
<1>6. i \in Nat /\ Cardinality(Upto(i)) >= n
  BY <1>5
<1>7. i # 0
  <2>1. \A k \in F : ~(k <= 0)
    BY <1>1
  <2>2. Upto(0) = {}
    BY <2>1
  <2>. QED BY <1>2, <1>6, <2>2, FS_EmptySet
<1>8. Cardinality(Upto(i - 1)) < n
  <2>1. i - 1 \in Nat
    BY <1>6, <1>7
  <2>2. i - 1 \notin T
    <3>. i - 1 < i
      BY <1>6
    <3>. HIDE DEF T
    <3>. QED BY <1>5, <1>6, <2>1
  <2>3. Cardinality(Upto(i - 1)) \in Nat
    BY <1>3
  <2>4. ~(Cardinality(Upto(i - 1)) >= n)
    BY <2>1, <2>2
  <2>. HIDE DEF Upto
  <2>. QED BY <1>2, <2>3, <2>4
<1>9. i \in F
  <2>1. SUFFICES ASSUME i \notin F PROVE FALSE
    OBVIOUS
  <2>0. \A k \in F : k <= i <=> k <= i - 1
    BY <1>1, <1>6, <2>1
  <2>2. Upto(i) = Upto(i - 1)
    BY <2>0
  <2>3. Cardinality(Upto(i - 1)) \in Nat
    BY <1>3
  <2>. HIDE DEF Upto
  <2>. QED BY <1>2, <1>6, <1>8, <2>2, <2>3
<1>10. Upto(i) = Upto(i - 1) \cup {i} /\ i \notin Upto(i - 1)
  <2>1. \A k \in F : k <= i <=> k <= i - 1 \/ k = i
    BY <1>1, <1>6
  <2>2. ~(i <= i - 1)
    BY <1>6
  <2>. QED BY <1>9, <2>1, <2>2
<1>11. Cardinality(Upto(i)) = Cardinality(Upto(i - 1)) + 1
  <2>1. ASSUME NEW A, IsFiniteSet(A), i \notin A
        PROVE  Cardinality(A \cup {i}) = Cardinality(A) + 1
    BY <2>1, FS_AddElement
  <2>2. IsFiniteSet(Upto(i - 1))
    BY <1>3
  <2>. QED BY <1>10, <2>1, <2>2
<1>12. Cardinality(Upto(i)) = n
  <2>1. Cardinality(Upto(i - 1)) \in Nat
    BY <1>3
  <2>. HIDE DEF Upto
  <2>. QED BY <1>2, <1>6, <1>8, <1>11, <2>1
<1>. QED BY <1>9, <1>12

\* What is left of the ids of a call is a sequence of experts.
LEMMA DedupType ==
  ASSUME NEW ids \in Seq(Experts)
  PROVE  Dedup(ids) \in Seq(Experts)
<1>. DEFINE F == {i \in 1..Len(ids) : \A k \in 1..(i - 1) : ids[k] # ids[i]}
            nth(n) == CHOOSE i \in F : Cardinality({k \in F : k <= i}) = n
<1>1. F \subseteq 1..Len(ids) /\ Len(ids) \in Nat
  OBVIOUS
<1>2. Cardinality(F) \in Nat
  <2>1. IsFiniteSet(1..Len(ids))
    BY <1>1, FS_Interval
  <2>. HIDE DEF F
  <2>. QED BY <1>1, <2>1, FS_Subset, FS_CardinalityType
<1>3. Dedup(ids) = [n \in 1..Cardinality(F) |-> ids[nth(n)]]
  BY DEF Dedup
<1>4. ASSUME NEW n \in 1..Cardinality(F)
      PROVE  ids[nth(n)] \in Experts
  <2>1. \E i \in F : Cardinality({k \in F : k <= i}) = n
    <3>. HIDE DEF F
    <3>. F \in SUBSET (1..Len(ids))
      BY <1>1
    <3>. QED BY <1>1, RankReached
  <2>2. nth(n) \in F
    <3>. HIDE DEF F
    <3>. QED BY <2>1
  <2>3. nth(n) \in 1..Len(ids)
    BY <1>1, <2>2
  <2>. QED BY <2>3
<1>. HIDE DEF F, nth
<1>. QED BY <1>2, <1>3, <1>4

---------------------------------------------------------------------------
(* Every step keeps the types. *)

\* submit() adds a read that is in flight.
LEMMA SubmitType ==
  ASSUME TypeOK, NEW slot \in SlotSet \cup {None}, NEW pos \in 0..SlotCap,
         NEW blk \in Blocks, SubmitRead(slot, pos, blk)
  PROVE  reads' \in [1..MaxReads -> Read \cup {None}]
<1>1. ReadId \in 1..MaxReads
  BY ReadIdIsFree DEF SubmitRead, FreeReads
<1>. QED BY <1>1 DEF TypeOK, SubmitRead, Read

\* The key of an id of the plan under construction is a key.
LEMMA KeyType ==
  ASSUME TypeOK, OwnerPlace, own.pc \in {"pins", "pinload", "pinwait", "fill"},
         NEW n \in 1..Len(own.ids)
  PROVE  Key(n) \in Keys
<1>1. own.ids \in Seq(Experts) /\ own.layer \in Layers
  BY DEF TypeOK, OwnerPlace, Owner
<1>2. own.ids[n] \in Experts
  BY <1>1
<1>. QED BY <1>1, <1>2 DEF Key, Keys

\* What the steps make of the owner's record is a record of the owner.
Pcs == {"idle", "pins", "pinload", "pinwait", "fill", "acquire", "close"}
LEMMA OwnerUpdates ==
  ASSUME NEW o \in Owner
  PROVE  /\ \A k \in Nat : [o EXCEPT !.k = k] \in Owner
         /\ \A p \in Nat : [o EXCEPT !.p = p] \in Owner
         /\ \A pc \in Pcs : [o EXCEPT !.pc = pc] \in Owner
         /\ \A b \in BOOLEAN : [o EXCEPT !.got = b] \in Owner
         /\ \A b \in BOOLEAN : [o EXCEPT !.ec = b] \in Owner
         /\ \A pc \in Pcs, k \in Nat : [o EXCEPT !.pc = pc, !.k = k] \in Owner
         /\ \A pc \in Pcs, p \in Nat : [o EXCEPT !.pc = pc, !.p = p] \in Owner
         /\ \A k \in Nat, p \in Nat : [o EXCEPT !.k = k, !.p = p] \in Owner
         /\ \A pc \in Pcs, l \in Layers : [o EXCEPT !.pc = pc, !.layer = l] \in Owner
         /\ \A pc \in Pcs : [o EXCEPT !.pc = pc, !.ec = FALSE, !.got = FALSE] \in Owner
         /\ \A pc \in Pcs, s \in SlotSet :
              [o EXCEPT !.pc = pc, !.slot = s, !.k = 1, !.p = 1] \in Owner
         /\ \A pc \in Pcs, l \in Layers, ids \in Seq(Experts) :
              [o EXCEPT !.pc = pc, !.layer = l, !.ids = ids, !.k = 1] \in Owner
<1>1. \A k \in Nat : [o EXCEPT !.k = k] \in Owner /\ [o EXCEPT !.p = k] \in Owner
  BY DEF Owner
<1>2. \A pc \in Pcs : [o EXCEPT !.pc = pc] \in Owner
  BY DEF Owner, Pcs
<1>3. \A b \in BOOLEAN : [o EXCEPT !.got = b] \in Owner /\ [o EXCEPT !.ec = b] \in Owner
  BY DEF Owner
<1>4. \A pc \in Pcs, k \in Nat : /\ [o EXCEPT !.pc = pc, !.k = k] \in Owner
                               /\ [o EXCEPT !.pc = pc, !.p = k] \in Owner
  BY DEF Owner, Pcs
<1>5. /\ \A k \in Nat, p \in Nat : [o EXCEPT !.k = k, !.p = p] \in Owner
      /\ \A pc \in Pcs, l \in Layers : [o EXCEPT !.pc = pc, !.layer = l] \in Owner
  BY DEF Owner, Pcs
<1>6. \A pc \in Pcs : [o EXCEPT !.pc = pc, !.ec = FALSE, !.got = FALSE] \in Owner
  BY DEF Owner, Pcs
<1>7. \A pc \in Pcs, s \in SlotSet :
        [o EXCEPT !.pc = pc, !.slot = s, !.k = 1, !.p = 1] \in Owner
  BY DEF Owner, Pcs
<1>8. \A pc \in Pcs, l \in Layers, ids \in Seq(Experts) :
        [o EXCEPT !.pc = pc, !.layer = l, !.ids = ids, !.k = 1] \in Owner
  BY DEF Owner, Pcs
<1>. QED BY <1>1, <1>2, <1>3, <1>4, <1>5, <1>6, <1>7, <1>8

\* The types of the state are preserved by every step.
LEMMA TypeStep ==
  ASSUME TypeOK, OwnerPlace, Next
  PROVE  TypeOK'
<1>. USE PrefetcherAssumption
<1>own. /\ own \in Owner
        /\ own.ids \in Seq(Experts) /\ own.k \in Nat /\ own.p \in Nat
  BY DEF TypeOK, Owner
<1>idle. Idle \in Owner
  BY DEF Idle, Owner
<1>pcs. Pcs = {"idle", "pins", "pinload", "pinwait", "fill", "acquire", "close"}
  BY DEF Pcs
<1>1. ASSUME NEW i \in 1..MaxReads, Settle(i)
      PROVE  TypeOK'
  <2>1. reads[i] \in Read
    BY <1>1 DEF TypeOK, Settle
  <2>2. PICK ok \in BOOLEAN :
          /\ reads' = [reads EXCEPT ![i].st = "settled", ![i].ok = ok]
          /\ IF reads[i].slot = None
               THEN own' = [own EXCEPT !.got = ok] /\ UNCHANGED mem
               ELSE /\ mem' = [mem EXCEPT ![reads[i].slot][reads[i].pos] =
                                 [blk |-> reads[i].blk, ok |-> ok]]
                    /\ UNCHANGED own
    BY <1>1 DEF Settle
  <2>3. reads' \in [1..MaxReads -> Read \cup {None}]
    BY <2>1, <2>2 DEF TypeOK, Read
  <2>4. own' \in Owner
    <3>1. \A b \in BOOLEAN : [own EXCEPT !.got = b] \in Owner
      BY <1>own, OwnerUpdates
    <3>2. own' = own \/ own' = [own EXCEPT !.got = ok]
      BY <2>2
    <3>. QED BY <1>own, <3>1, <3>2
  <2>5. mem' \in [SlotSet -> [1..SlotCap -> Cell \cup {None}]]
    <3>1. CASE reads[i].slot = None
      BY <2>2, <3>1 DEF TypeOK
    <3>2. CASE reads[i].slot # None
      <4>. DEFINE c == [blk |-> reads[i].blk, ok |-> ok]
      <4>1. c \in Cell /\ reads[i].slot \in SlotSet
        BY <2>1, <3>2 DEF Read, Cell
      <4>2. mem' = [mem EXCEPT ![reads[i].slot][reads[i].pos] = c]
        BY <2>2, <3>2
      <4>. HIDE DEF c
      <4>. QED BY <4>1, <4>2 DEF TypeOK
    <3>. QED BY <3>1, <3>2
  <2>. QED BY <1>1, <2>3, <2>4, <2>5 DEF TypeOK, Settle
<1>2. ASSUME NEW i \in 1..MaxReads, CallBack(i)
      PROVE  TypeOK'
  <2>1. reads[i] \in Read
    BY <1>2 DEF TypeOK, CallBack
  <2>2. own' \in Owner
    <3>1. \A b \in BOOLEAN : [own EXCEPT !.ec = b] \in Owner
      BY <1>own, OwnerUpdates
    <3>2. own' = own \/ \E b \in BOOLEAN : own' = [own EXCEPT !.ec = b]
      BY <1>2, <2>1 DEF CallBack, Read
    <3>. QED BY <1>own, <3>1, <3>2
  <2>3. err' \in [SlotSet -> BOOLEAN]
    BY <1>2, <2>1 DEF TypeOK, CallBack, Read
  <2>4. reads' \in [1..MaxReads -> Read \cup {None}]
    BY <1>2 DEF TypeOK, CallBack
  <2>. QED BY <1>2, <2>2, <2>3, <2>4 DEF TypeOK, CallBack
<1>3. CASE PinSkip \/ PinFits \/ PinNextPart
  <2>1. own.k + 1 \in Nat /\ own.p + 1 \in Nat
    BY <1>own
  <2>2. \/ own' = [own EXCEPT !.k = own.k + 1]
        \/ own' = [own EXCEPT !.p = own.p + 1]
        \/ own' = [own EXCEPT !.pc = "pinload", !.p = 1]
        \/ own' = [own EXCEPT !.pc = "pins", !.k = own.k + 1]
    BY <1>3 DEF PinSkip, PinFits, PinNextPart
  <2>3. own' \in Owner
    <3>1. \A k \in Nat : [own EXCEPT !.k = k] \in Owner /\ [own EXCEPT !.p = k] \in Owner
      BY <1>own, OwnerUpdates
    <3>2. \A k \in Nat : /\ [own EXCEPT !.pc = "pinload", !.p = k] \in Owner
                       /\ [own EXCEPT !.pc = "pins", !.k = k] \in Owner
      BY <1>own, <1>pcs, OwnerUpdates
    <3>. QED BY <2>1, <2>2, <3>1, <3>2
  <2>. QED BY <1>3, <2>3 DEF TypeOK, PinSkip, PinFits, PinNextPart
<1>4. CASE PinDemote
  <2>1. own.k + 1 \in Nat /\ own' = [own EXCEPT !.k = own.k + 1]
    BY <1>4, <1>own DEF PinDemote
  <2>2. own' \in Owner
    BY <2>1, <1>own, OwnerUpdates
  <2>. QED BY <1>4, <2>2 DEF TypeOK, PinDemote
<1>5. CASE PinMissingInHeader \/ PinSubmitThrows \/ PlanNoFreeSlot \/ FillThrow
  BY <1>5, <1>idle DEF TypeOK, PinMissingInHeader, PinSubmitThrows, PlanNoFreeSlot, FillThrow, Throw
<1>6. CASE PinSubmit
  <2>1. own' \in Owner
    BY <1>6, <1>own, <1>pcs, OwnerUpdates DEF PinSubmit
  <2>2. own.p \in 1..NParts /\ own.k \in 1..Len(own.ids)
    BY <1>6, <1>own DEF PinSubmit, Missing, OwnerPlace
  <2>3. <<Key(own.k), own.p>> \in Blocks
    BY <1>6, <2>2, KeyType DEF PinSubmit, Blocks
  <2>4. reads' \in [1..MaxReads -> Read \cup {None}]
    BY <1>6, <2>3, SubmitType DEF PinSubmit
  <2>. QED BY <1>6, <2>1, <2>4 DEF TypeOK, PinSubmit
<1>7. CASE PinDrained
  <2>1. own' \in Owner
    <3>1. own.p + 1 \in Nat
      BY <1>own
    <3>2. own' = Idle \/ own' = [own EXCEPT !.pc = "pinload", !.p = own.p + 1]
      BY <1>7 DEF PinDrained, Throw
    <3>3. [own EXCEPT !.pc = "pinload", !.p = own.p + 1] \in Owner
      BY <3>1, <1>own, <1>pcs, OwnerUpdates
    <3>. QED BY <3>2, <3>3, <1>idle
  <2>2. pinStore' \in [Blocks -> {"absent", "good", "torn"}]
    BY <1>7 DEF TypeOK, PinDrained
  <2>. QED BY <1>7, <2>1, <2>2 DEF TypeOK, PinDrained
<1>8. CASE PlanAllPinned \/ PlanDone
  <2>1. own.layer \in Layers /\ own.slot \in SlotSet \cup {None}
    BY <1>8, <1>own DEF OwnerPlace, PlanAllPinned, PlanDone, Owner
  <2>2. plans' \in [Layers -> PlanRec \cup {None}]
    <3>1. PICK s \in SlotSet \cup {None} :
            plans' = [plans EXCEPT ![own.layer] =
                        [slot |-> s, ids |-> own.ids, acquired |-> FALSE]]
      BY <1>8, <2>1 DEF PlanAllPinned, PlanDone
    <3>2. [slot |-> s, ids |-> own.ids, acquired |-> FALSE] \in PlanRec
      BY <1>own DEF PlanRec
    <3>. QED BY <2>1, <3>1, <3>2 DEF TypeOK
  <2>. QED BY <1>8, <1>idle, <2>2 DEF TypeOK, PlanAllPinned, PlanDone
<1>9. CASE PlanTakeSlot
  <2>1. free' \in Seq(SlotSet) /\ Head(free) \in SlotSet
    BY <1>9 DEF TypeOK, PlanTakeSlot
  <2>2. own' \in Owner
    BY <1>9, <1>own, <2>1, <1>pcs, OwnerUpdates DEF PlanTakeSlot
  <2>3. span' \in [SlotSet -> Seq(Blocks)] /\ err' \in [SlotSet -> BOOLEAN]
    BY <1>9 DEF TypeOK, PlanTakeSlot
  <2>. QED BY <1>9, <2>1, <2>2, <2>3 DEF TypeOK, PlanTakeSlot
<1>10. CASE FillAdvance
  <2>1. own' \in Owner
    <3>1. own.k + 1 \in Nat
      BY <1>own
    <3>. QED BY <1>10, <3>1, <1>own, <1>pcs, OwnerUpdates DEF FillAdvance
  <2>. QED BY <1>10, <2>1 DEF TypeOK, FillAdvance
<1>11. CASE FillSubmit \/ FillSubmitThrows
  <2>1. own' \in Owner
    <3>1. own.p + 1 \in Nat
      BY <1>own
    <3>2. [own EXCEPT !.p = own.p + 1] \in Owner
      BY <3>1, <1>own, OwnerUpdates
    <3>. QED BY <1>11, <3>2, <1>idle DEF FillSubmit, FillSubmitThrows, Throw
  <2>2. own.slot \in SlotSet
    BY <1>11, <1>own DEF OwnerPlace, FillSubmit, FillSubmitThrows, FillBlock, Owner
  <2>3. own.p \in 1..NParts /\ own.k \in 1..Len(own.ids)
    BY <1>11, <1>own DEF FillSubmit, FillSubmitThrows, FillBlock, OwnerPlace
  <2>4. <<Key(own.k), own.p>> \in Blocks
    BY <1>11, <2>3, KeyType DEF FillSubmit, FillSubmitThrows, FillBlock, Blocks
  <2>5. span[own.slot] \in Seq(Blocks) /\ Len(span[own.slot]) \in Nat
    BY <2>2 DEF TypeOK
  <2>6. span' \in [SlotSet -> Seq(Blocks)]
    <3>1. span' = [span EXCEPT ![own.slot] = Append(@, <<Key(own.k), own.p>>)]
      BY <1>11 DEF FillSubmit, FillSubmitThrows
    <3>2. Append(span[own.slot], <<Key(own.k), own.p>>) \in Seq(Blocks)
      BY <2>4, <2>5
    <3>. QED BY <2>2, <3>1, <3>2 DEF TypeOK
  <2>7. Len(span[own.slot]) + 1 \in 0..SlotCap
    BY <1>11, <2>5 DEF FillSubmit, FillSubmitThrows
  <2>8. reads' \in [1..MaxReads -> Read \cup {None}]
    <3>1. CASE FillSubmit
      BY <3>1, <2>2, <2>4, <2>7, SubmitType DEF FillSubmit
    <3>2. CASE FillSubmitThrows
      BY <3>2 DEF TypeOK, FillSubmitThrows
    <3>. QED BY <1>11, <3>1, <3>2
  <2>. QED BY <1>11, <2>1, <2>6, <2>8 DEF TypeOK, FillSubmit, FillSubmitThrows
<1>12. CASE AcquireDrained
  <2>1. own.layer \in Layers /\ plans[own.layer] \in PlanRec
    BY <1>12 DEF TypeOK, OwnerPlace, AcquireDrained
  <2>2. plans' \in [Layers -> PlanRec \cup {None}]
    <3>1. [plans[own.layer] EXCEPT !.acquired = TRUE] \in PlanRec
      BY <2>1 DEF PlanRec
    <3>2. \/ plans' = plans
          \/ plans' = [plans EXCEPT ![own.layer] = [plans[own.layer] EXCEPT !.acquired = TRUE]]
      BY <1>12 DEF AcquireDrained
    <3>. QED BY <2>1, <3>1, <3>2 DEF TypeOK
  <2>. QED BY <1>12, <1>idle, <2>2 DEF TypeOK, AcquireDrained
<1>13. CASE CloseAndReopen
  <2>1. plans' \in [Layers -> PlanRec \cup {None}]
    BY <1>13 DEF CloseAndReopen
  <2>2. span' \in [SlotSet -> Seq(Blocks)]
    BY <1>13 DEF CloseAndReopen
  <2>3. mem' \in [SlotSet -> [1..SlotCap -> Cell \cup {None}]]
    BY <1>13 DEF CloseAndReopen
  <2>. QED BY <1>13, <1>idle, <2>1, <2>2, <2>3 DEF TypeOK, CloseAndReopen
<1>14. ASSUME NEW l \in Layers, NEW ids \in Requests, PlanBegin(l, ids)
       PROVE  TypeOK'
  <2>1. Dedup(ids) \in Seq(Experts)
    BY DedupType
  <2>2. own' \in Owner
    BY <1>14, <1>idle, <2>1, <1>pcs, OwnerUpdates DEF PlanBegin
  <2>. QED BY <1>14, <2>2 DEF TypeOK, PlanBegin
<1>15. ASSUME NEW l \in Layers, AcquireBegin(l)
       PROVE  TypeOK'
  <2>1. own' \in Owner
    BY <1>15, <1>idle, <1>pcs, OwnerUpdates DEF AcquireBegin
  <2>. QED BY <1>15, <2>1 DEF TypeOK, AcquireBegin
<1>16. ASSUME NEW l \in Layers, Release(l)
       PROVE  TypeOK'
  <2>1. plans[l] \in PlanRec
    BY <1>16 DEF TypeOK, Release
  <2>2. free' \in Seq(SlotSet) /\ span' \in [SlotSet -> Seq(Blocks)]
    <3>1. CASE plans[l].slot = None
      BY <1>16, <3>1 DEF TypeOK, Release
    <3>2. CASE plans[l].slot # None
      <4>1. plans[l].slot \in SlotSet
        BY <2>1, <3>2 DEF PlanRec
      <4>2. /\ free' = Append(free, plans[l].slot)
            /\ span' = [span EXCEPT ![plans[l].slot] = <<>>]
        BY <1>16, <3>2 DEF Release
      <4>. QED BY <4>1, <4>2 DEF TypeOK
    <3>. QED BY <3>1, <3>2
  <2>. QED BY <1>16, <2>2 DEF TypeOK, Release
<1>17. CASE CloseBegin
  <2>1. own' \in Owner
    BY <1>17, <1>idle, <1>pcs, OwnerUpdates DEF CloseBegin
  <2>. QED BY <1>17, <2>1 DEF TypeOK, CloseBegin
<1>. QED BY <1>1, <1>2, <1>3, <1>4, <1>5, <1>6, <1>7, <1>8, <1>9, <1>10, <1>11,
            <1>12, <1>13, <1>14, <1>15, <1>16, <1>17
         DEF Next, EngineStep, OwnerStep, SubmitThrows, OwnerCall

---------------------------------------------------------------------------
(* The place of the owner thread. *)

\* The engine's steps touch of the owner's record only the locals of a pin load.
LEMMA EngineKeepsOwner ==
  ASSUME TypeOK, NEW i \in 1..MaxReads, Settle(i) \/ CallBack(i)
  PROVE  /\ own'.pc = own.pc /\ own'.layer = own.layer /\ own'.ids = own.ids
         /\ own'.slot = own.slot /\ own'.k = own.k /\ own'.p = own.p
         /\ UNCHANGED <<plans, free, span, pinKeys, pinStore>>
<1>1. own \in Owner
  BY DEF TypeOK
<1>2. \/ own' = own
      \/ \E b : own' = [own EXCEPT !.got = b]
      \/ \E b : own' = [own EXCEPT !.ec = b]
  BY DEF Settle, CallBack
<1>3. /\ own'.pc = own.pc /\ own'.layer = own.layer /\ own'.ids = own.ids
      /\ own'.slot = own.slot /\ own'.k = own.k /\ own'.p = own.p
  BY <1>1, <1>2 DEF Owner
<1>. QED BY <1>3 DEF Settle, CallBack

\* Every step leaves the owner at a place of its program.
LEMMA OwnerPlaceStep ==
  ASSUME TypeOK, OwnerPlace, Next
  PROVE  OwnerPlace'
<1>. USE PrefetcherAssumption DEF OwnerPlace
<1>own. /\ own \in Owner
        /\ own.ids \in Seq(Experts) /\ own.k \in Nat /\ own.p \in Nat
        /\ Len(own.ids) \in Nat
  BY DEF TypeOK, Owner
<1>idle. own' = Idle => OwnerPlace'
  BY DEF Idle
<1>1. ASSUME NEW i \in 1..MaxReads, Settle(i) \/ CallBack(i)
      PROVE  OwnerPlace'
  BY <1>1, EngineKeepsOwner DEF Key, Missing
<1>2. CASE PinSkip \/ PinDemote
  <2>1. own.pc = "pins" /\ own' = [own EXCEPT !.k = own.k + 1] /\ plans' = plans
    BY <1>2 DEF PinSkip, PinDemote
  <2>2. own'.pc = "pins" /\ own'.layer = own.layer /\ own'.k = own.k + 1
    BY <2>1, <1>own DEF Owner
  <2>. QED BY <1>own, <2>1, <2>2
<1>3. CASE PinFits
  BY <1>3, <1>own DEF PinFits, Owner
<1>4. CASE PinNextPart
  <2>1. CASE own.p > NParts
    BY <1>4, <2>1, <1>own DEF PinNextPart, Owner
  <2>2. CASE ~(own.p > NParts)
    BY <1>4, <2>2, <1>own DEF PinNextPart, Owner
  <2>. QED BY <2>1, <2>2
<1>5. CASE PinSubmit
  BY <1>5, <1>own DEF PinSubmit, Owner, Missing, Key
<1>6. CASE PinDrained
  <2>1. CASE own.ec
    BY <1>6, <2>1, <1>idle DEF PinDrained, Throw
  <2>2. CASE ~own.ec
    <3>1. own.p \in 1..NParts
      BY <1>6 DEF PinDrained, Missing
    <3>2. /\ own'.pc = "pinload" /\ own'.p = own.p + 1 /\ own'.k = own.k
          /\ own'.layer = own.layer /\ own'.ids = own.ids /\ plans' = plans
      BY <1>6, <2>2, <1>own DEF PinDrained, Owner
    <3>. QED BY <1>6, <1>own, <3>1, <3>2 DEF PinDrained
  <2>. QED BY <2>1, <2>2
<1>7. CASE \/ PinMissingInHeader \/ PinSubmitThrows \/ PlanNoFreeSlot \/ FillThrow
           \/ FillSubmitThrows \/ PlanAllPinned \/ PlanDone \/ AcquireDrained \/ CloseAndReopen
  BY <1>7, <1>idle DEF PinMissingInHeader, PinSubmitThrows, PlanNoFreeSlot, FillThrow,
                       FillSubmitThrows, PlanAllPinned, PlanDone, AcquireDrained,
                       CloseAndReopen, Throw
<1>8. CASE PlanTakeSlot
  <2>1. Head(free) \in SlotSet
    BY <1>8 DEF TypeOK, PlanTakeSlot
  <2>. QED BY <1>8, <2>1, <1>own DEF PlanTakeSlot, PlanNeedsSlot, Owner
<1>9. CASE FillAdvance
  BY <1>9, <1>own DEF FillAdvance, Owner
<1>10. CASE FillSubmit
  BY <1>10, <1>own DEF FillSubmit, FillBlock, Owner
<1>11. ASSUME NEW l \in Layers, NEW ids \in Requests, PlanBegin(l, ids)
       PROVE  OwnerPlace'
  BY <1>11 DEF PlanBegin, Idle
<1>12. ASSUME NEW l \in Layers, AcquireBegin(l)
       PROVE  OwnerPlace'
  BY <1>12 DEF AcquireBegin, Idle
<1>13. ASSUME NEW l \in Layers, Release(l)
       PROVE  OwnerPlace'
  BY <1>13 DEF Release
<1>14. CASE CloseBegin
  BY <1>14 DEF CloseBegin, Idle
<1>. QED BY <1>1, <1>2, <1>3, <1>4, <1>5, <1>6, <1>7, <1>8, <1>9, <1>10, <1>11,
            <1>12, <1>13, <1>14
         DEF Next, EngineStep, OwnerStep, SubmitThrows, OwnerCall

---------------------------------------------------------------------------
(* Who owns a slot, and what is packed into it. *)

\* What a step leaves the slots to: nothing about queue, plans and the plan
\* under construction changes.
SlotsQuiet ==
  /\ UNCHANGED <<plans, free>>
  /\ own'.pc = "fill" => own.pc = "fill" /\ own'.slot = own.slot /\ own'.layer = own.layer

\* The steps that leave queue, plans and packed blocks alone.
QuietStep ==
  \/ \E i \in 1..MaxReads : Settle(i) \/ CallBack(i)
  \/ PinSkip \/ PinDemote \/ PinFits \/ PinMissingInHeader
  \/ PinNextPart \/ PinSubmit \/ PinSubmitThrows \/ PinDrained
  \/ PlanNoFreeSlot \/ FillAdvance \/ FillThrow
  \/ \E l \in Layers : (\E ids \in Requests : PlanBegin(l, ids)) \/ AcquireBegin(l)
  \/ CloseBegin

\* What the quiet steps have in common.
LEMMA QuietSteps ==
  ASSUME TypeOK, QuietStep
  PROVE  SlotsQuiet /\ span' = span
<1>own. own \in Owner
  BY DEF TypeOK
<1>1. ASSUME NEW i \in 1..MaxReads, Settle(i) \/ CallBack(i)
      PROVE  SlotsQuiet /\ span' = span
  BY <1>1, EngineKeepsOwner DEF SlotsQuiet
<1>idle. Idle.pc # "fill"
  BY DEF Idle
<1>2. CASE PinSkip \/ PinDemote
  BY <1>2, <1>own DEF Owner, SlotsQuiet, PinSkip, PinDemote
<1>3. CASE PinFits \/ PinNextPart
  BY <1>3, <1>own DEF Owner, SlotsQuiet, PinFits, PinNextPart
<1>4. CASE PinSubmit
  BY <1>4, <1>own DEF Owner, SlotsQuiet, PinSubmit
<1>5. CASE PinDrained
  <2>1. own' = Idle \/ own' = [own EXCEPT !.pc = "pinload", !.p = @ + 1]
    BY <1>5 DEF PinDrained, Throw
  <2>2. own'.pc # "fill"
    BY <2>1, <1>own, <1>idle DEF Owner
  <2>. QED BY <1>5, <2>2 DEF SlotsQuiet, PinDrained
<1>8. CASE FillAdvance
  BY <1>8, <1>own DEF Owner, SlotsQuiet, FillAdvance
<1>9. CASE PinMissingInHeader \/ PinSubmitThrows \/ PlanNoFreeSlot \/ FillThrow
  BY <1>9, <1>idle DEF SlotsQuiet, PinMissingInHeader, PinSubmitThrows, PlanNoFreeSlot,
                       FillThrow, Throw
<1>6. CASE \E l \in Layers : (\E ids \in Requests : PlanBegin(l, ids)) \/ AcquireBegin(l)
  BY <1>6 DEF SlotsQuiet, PlanBegin, AcquireBegin, Idle
<1>7. CASE CloseBegin
  BY <1>7 DEF SlotsQuiet, CloseBegin, Idle
<1>. QED BY <1>1, <1>2, <1>3, <1>4, <1>5, <1>6, <1>7, <1>8, <1>9 DEF QuietStep

\* The others: those that move a slot or finish a plan.
LEMMA LoudSteps ==
  ASSUME Next
  PROVE  \/ QuietStep \/ PlanAllPinned \/ PlanTakeSlot \/ FillSubmit \/ PlanDone
         \/ FillSubmitThrows \/ AcquireDrained \/ CloseAndReopen
         \/ \E l \in Layers : Release(l)
  BY DEF Next, EngineStep, OwnerStep, SubmitThrows, OwnerCall, QuietStep

\* No two owners of a slot.
LEMMA SlotOwnershipStep ==
  ASSUME TypeOK, OwnerPlace, SlotOwnership, Next
  PROVE  SlotOwnership'
<1>. USE PrefetcherAssumption
<1>own. own \in Owner
  BY DEF TypeOK
<1>idle. Idle.pc = "idle"
  BY DEF Idle
<1>1. CASE QuietStep
  BY <1>1, QuietSteps DEF SlotOwnership, SlotsQuiet
<1>2. CASE PlanAllPinned
  <2>1. own.layer \in Layers /\ own'.pc = "idle" /\ free' = free
    BY <1>2, <1>idle DEF OwnerPlace, PlanAllPinned
  <2>2. /\ plans'[own.layer].slot = None
        /\ \A l \in Layers \ {own.layer} : plans'[l] = plans[l]
    BY <1>2, <2>1 DEF TypeOK, PlanAllPinned
  <2>. QED BY <2>1, <2>2 DEF SlotOwnership
<1>3. CASE PlanTakeSlot
  <2>1. /\ free \in Seq(SlotSet) /\ free # <<>> /\ free' = Tail(free)
        /\ plans' = plans /\ own'.slot = Head(free) /\ own.pc # "fill"
    BY <1>3, <1>own DEF TypeOK, PlanTakeSlot, PlanNeedsSlot, Owner
  <2>2. \A i, k \in 1..Len(free) : free[i] = free[k] => i = k
    BY DEF SlotOwnership
  <2>3. /\ Len(free') = Len(free) - 1
        /\ \A i \in 1..Len(free') : free'[i] = free[i + 1] /\ i + 1 \in 1..Len(free)
        /\ Len(free) \in Nat /\ 1 \in 1..Len(free) /\ Head(free) = free[1]
    BY <2>1
  <2>4. \A i, k \in 1..Len(free') : free'[i] = free'[k] => i = k
    BY <2>2, <2>3
  <2>5. \A i \in 1..Len(free') : free'[i] # Head(free)
    BY <2>2, <2>3
  <2>6. \A l \in Layers : plans[l] # None /\ plans[l].slot # None =>
          /\ \A i \in 1..Len(free') : free'[i] # plans[l].slot
          /\ plans[l].slot # Head(free)
    BY <2>3 DEF SlotOwnership
  <2>. QED BY <2>1, <2>4, <2>5, <2>6 DEF SlotOwnership
<1>4. CASE FillSubmit
  <2>1. own'.slot = own.slot /\ own.pc = "fill"
    BY <1>4, <1>own DEF FillSubmit, FillBlock, Owner
  <2>. QED BY <1>4, <2>1 DEF SlotOwnership, FillSubmit
<1>5. CASE PlanDone
  <2>1. own.layer \in Layers /\ own'.pc = "idle" /\ own.pc = "fill" /\ free' = free
    BY <1>5, <1>idle DEF OwnerPlace, PlanDone
  <2>2. /\ plans'[own.layer].slot = own.slot
        /\ \A l \in Layers \ {own.layer} : plans'[l] = plans[l]
    BY <1>5, <2>1 DEF TypeOK, PlanDone
  <2>. QED BY <2>1, <2>2 DEF SlotOwnership
<1>6. CASE AcquireDrained
  <2>1. own.layer \in Layers /\ plans[own.layer] \in PlanRec /\ free' = free /\ own'.pc = "idle"
    BY <1>6, <1>idle DEF TypeOK, OwnerPlace, AcquireDrained
  <2>2. /\ plans'[own.layer].slot = plans[own.layer].slot /\ plans[own.layer] # None
        /\ \A l \in Layers \ {own.layer} : plans'[l] = plans[l]
    <3>1. \/ plans' = plans
          \/ plans' = [plans EXCEPT ![own.layer] = [plans[own.layer] EXCEPT !.acquired = TRUE]]
      BY <1>6 DEF AcquireDrained
    <3>2. [plans[own.layer] EXCEPT !.acquired = TRUE].slot = plans[own.layer].slot
      BY <2>1 DEF PlanRec
    <3>3. plans[own.layer] # None
      BY <1>6 DEF AcquireDrained, OwnerPlace
    <3>. QED BY <2>1, <3>1, <3>2, <3>3 DEF TypeOK
  <2>. QED BY <2>1, <2>2 DEF SlotOwnership
<1>7. CASE CloseAndReopen
  BY <1>7, <1>idle DEF SlotOwnership, CloseAndReopen
<1>8. ASSUME NEW l \in Layers, Release(l)
      PROVE  SlotOwnership'
  <2>1. /\ plans' = [plans EXCEPT ![l] = None] /\ plans[l] # None
        /\ own' = own /\ own.pc = "idle"
    BY <1>8 DEF Release
  <2>2. plans'[l] = None /\ \A m \in Layers \ {l} : plans'[m] = plans[m]
    BY <2>1 DEF TypeOK
  <2>3. CASE plans[l].slot = None
    BY <1>8, <2>1, <2>2, <2>3 DEF SlotOwnership, Release
  <2>4. CASE plans[l].slot # None
    <3>1. free' = Append(free, plans[l].slot) /\ free \in Seq(SlotSet)
      BY <1>8, <2>4 DEF Release, TypeOK
    <3>2. /\ Len(free') = Len(free) + 1 /\ Len(free) \in Nat
          /\ \A i \in 1..Len(free) : free'[i] = free[i]
          /\ free'[Len(free) + 1] = plans[l].slot
      BY <3>1
    <3>3. \A i \in 1..Len(free') : i \in 1..Len(free) \/ i = Len(free) + 1
      BY <3>2
    <3>4. \A i \in 1..Len(free) : free[i] # plans[l].slot
      BY <2>1, <2>4 DEF SlotOwnership
    <3>5. \A i, k \in 1..Len(free') : free'[i] = free'[k] => i = k
      BY <3>2, <3>3, <3>4 DEF SlotOwnership
    <3>6. ASSUME NEW m \in Layers \ {l}, plans[m] # None, plans[m].slot # None
          PROVE  \A i \in 1..Len(free') : free'[i] # plans[m].slot
      BY <2>1, <2>4, <3>2, <3>3, <3>6 DEF SlotOwnership
    <3>. QED BY <2>1, <2>2, <3>5, <3>6 DEF SlotOwnership
  <2>. QED BY <2>3, <2>4
<1>9. CASE FillSubmitThrows
  BY <1>9, <1>idle DEF SlotOwnership, FillSubmitThrows, Throw
<1>. QED BY <1>1, <1>2, <1>3, <1>4, <1>5, <1>6, <1>7, <1>8, <1>9, LoudSteps

---------------------------------------------------------------------------
(* What the steps that are not quiet do. *)

\* A finished plan, with a slot or without one.
LEMMA PlanDoneEffect ==
  ASSUME TypeOK, OwnerPlace, PlanDone \/ PlanAllPinned
  PROVE  /\ own.layer \in Layers /\ own.ids \in Seq(Experts) /\ own.k > Len(own.ids)
         /\ plans'[own.layer].slot = IF own.pc = "fill" THEN own.slot ELSE None
         /\ plans'[own.layer].ids = own.ids /\ ~plans'[own.layer].acquired
         /\ plans[own.layer] = None /\ plans'[own.layer] # None
         /\ \A l \in Layers \ {own.layer} : plans'[l] = plans[l]
         /\ own' = Idle /\ own'.pc = "idle"
         /\ UNCHANGED <<free, span, err, mem, pinKeys, pinStore, reads>>
<1>1. own.layer \in Layers /\ own.ids \in Seq(Experts) /\ own.k > Len(own.ids)
  BY DEF TypeOK, OwnerPlace, Owner, PlanDone, PlanAllPinned
<1>2. plans' = [plans EXCEPT ![own.layer] =
                  [slot |-> IF own.pc = "fill" THEN own.slot ELSE None,
                   ids |-> own.ids, acquired |-> FALSE]]
  BY DEF PlanDone, PlanAllPinned
<1>3. plans[own.layer] = None
  BY DEF OwnerPlace, PlanDone, PlanAllPinned
<1>4. plans'[own.layer] # None
  <2>1. [slot |-> IF own.pc = "fill" THEN own.slot ELSE None,
         ids |-> own.ids, acquired |-> FALSE] \in PlanRec
    BY <1>1 DEF TypeOK, Owner, PlanRec
  <2>2. None \notin PlanRec
    BY PrefetcherAssumption DEF PlanRec
  <2>. QED BY <1>1, <1>2, <2>1, <2>2 DEF TypeOK
<1>. QED BY <1>1, <1>2, <1>3, <1>4 DEF TypeOK, PlanDone, PlanAllPinned, Idle

\* A fenced acquire changes of a plan no more than that it is acquired.
LEMMA AcquireEffect ==
  ASSUME TypeOK, OwnerPlace, AcquireDrained
  PROVE  /\ NonePending
         /\ \A l \in Layers : plans'[l] # None =>
              /\ plans[l] # None
              /\ plans'[l].slot = plans[l].slot /\ plans'[l].ids = plans[l].ids
         /\ \A l \in Layers : plans[l] # None => plans'[l] # None
         /\ own.pc = "acquire" /\ own'.pc = "idle"
         /\ UNCHANGED <<free, span, err, mem, pinKeys, pinStore, reads>>
<1>. USE PrefetcherAssumption
<1>1. own.layer \in Layers /\ plans[own.layer] \in PlanRec
  BY DEF TypeOK, OwnerPlace, AcquireDrained
<1>2. \/ plans' = plans
      \/ plans' = [plans EXCEPT ![own.layer] = [plans[own.layer] EXCEPT !.acquired = TRUE]]
  BY DEF AcquireDrained
<1>3. /\ [plans[own.layer] EXCEPT !.acquired = TRUE].slot = plans[own.layer].slot
      /\ [plans[own.layer] EXCEPT !.acquired = TRUE].ids = plans[own.layer].ids
  BY <1>1 DEF PlanRec
<1>4. plans[own.layer] # None
  BY DEF AcquireDrained, OwnerPlace
<1>5. \A l \in Layers : plans'[l] # None =>
        /\ plans[l] # None
        /\ plans'[l].slot = plans[l].slot /\ plans'[l].ids = plans[l].ids
  BY <1>1, <1>2, <1>3, <1>4 DEF TypeOK
<1>6. \A l \in Layers : plans[l] # None => plans'[l] # None
  <2>1. [plans[own.layer] EXCEPT !.acquired = TRUE] \in PlanRec /\ None \notin PlanRec
    BY <1>1 DEF PlanRec
  <2>. QED BY <1>1, <1>2, <2>1 DEF TypeOK
<1>. QED BY <1>5, <1>6 DEF AcquireDrained, Idle

\* A release puts the slot of one plan, emptied, at the end of the queue.
LEMMA ReleaseEffect ==
  ASSUME TypeOK, NEW l \in Layers, Release(l)
  PROVE  /\ plans[l] \in PlanRec /\ plans[l] # None /\ plans[l].acquired
         /\ plans'[l] = None /\ \A m \in Layers \ {l} : plans'[m] = plans[m]
         /\ own' = own /\ own.pc = "idle"
         /\ \A s \in SlotSet : s # plans[l].slot => span'[s] = span[s]
         /\ plans[l].slot \in SlotSet => span'[plans[l].slot] = <<>>
         /\ \A i \in 1..Len(free') :
              \/ i \in 1..Len(free) /\ free'[i] = free[i]
              \/ plans[l].slot \in SlotSet /\ free'[i] = plans[l].slot
         /\ UNCHANGED <<err, mem, pinKeys, pinStore, reads>>
<1>. USE PrefetcherAssumption
<1>1. plans[l] \in PlanRec /\ plans[l] # None /\ plans[l].acquired
  BY DEF Release, TypeOK
<1>2. plans'[l] = None /\ \A m \in Layers \ {l} : plans'[m] = plans[m]
  BY DEF Release, TypeOK
<1>3. CASE plans[l].slot = None
  BY <1>1, <1>2, <1>3 DEF Release
<1>4. CASE plans[l].slot # None
  <2>1. /\ free' = Append(free, plans[l].slot) /\ free \in Seq(SlotSet)
        /\ span' = [span EXCEPT ![plans[l].slot] = <<>>]
        /\ plans[l].slot \in SlotSet
    BY <1>1, <1>4 DEF Release, TypeOK, PlanRec
  <2>2. \A i \in 1..Len(free') : \/ i \in 1..Len(free) /\ free'[i] = free[i]
                                 \/ free'[i] = plans[l].slot
    BY <2>1
  <2>. QED BY <1>1, <1>2, <2>1, <2>2 DEF Release, TypeOK
<1>. QED BY <1>3, <1>4

\* The slot taken is the queue's first, which no plan has; it is emptied.
LEMMA TakeEffect ==
  ASSUME TypeOK, OwnerPlace, SlotOwnership, PlanTakeSlot
  PROVE  LET s == Head(free) IN
         /\ s \in SlotSet /\ own'.slot = s /\ own'.pc = "fill" /\ own.pc = "pins"
         /\ own'.layer = own.layer /\ own'.ids = own.ids /\ own.k > Len(own.ids)
         /\ own'.k = 1 /\ own'.p = 1
         /\ 1 \in 1..Len(free) /\ free[1] = s
         /\ \A i \in 1..Len(free') : i + 1 \in 1..Len(free) /\ free'[i] = free[i + 1]
         /\ \A l \in Layers : plans[l] # None => plans[l].slot # s
         /\ span'[s] = <<>> /\ \A t \in SlotSet \ {s} : span'[t] = span[t]
         /\ UNCHANGED <<plans, mem, pinKeys, pinStore, reads>>
<1>. USE PrefetcherAssumption
<1>1. free \in Seq(SlotSet) /\ free # <<>> /\ free' = Tail(free) /\ own \in Owner
  BY DEF TypeOK, PlanTakeSlot
<1>2. Head(free) \in SlotSet /\ 1 \in 1..Len(free) /\ free[1] = Head(free)
  BY <1>1
<1>3. \A i \in 1..Len(free') : i + 1 \in 1..Len(free) /\ free'[i] = free[i + 1]
  BY <1>1
<1>4. \A l \in Layers : plans[l] # None => plans[l].slot # Head(free)
  BY <1>2 DEF SlotOwnership
<1>5. own'.slot = Head(free) /\ own'.pc = "fill" /\ own.pc = "pins" /\ own.k > Len(own.ids)
      /\ own'.layer = own.layer /\ own'.ids = own.ids /\ own'.k = 1 /\ own'.p = 1
  BY <1>1 DEF PlanTakeSlot, PlanNeedsSlot, Owner
<1>6. span'[Head(free)] = <<>> /\ \A t \in SlotSet \ {Head(free)} : span'[t] = span[t]
  BY <1>2 DEF TypeOK, PlanTakeSlot
<1>. QED BY <1>2, <1>3, <1>4, <1>5, <1>6 DEF PlanTakeSlot

\* The block the fill loop stands before, its place, and its read.
FillBlk == <<Key(own.k), own.p>>
FillPos == Len(span[own.slot]) + 1
FillRead == [slot |-> own.slot, pos |-> FillPos, blk |-> FillBlk,
             st |-> "pending", ok |-> FALSE]

\* The fill step packs a block of the layer behind the others of the slot, and
\* puts its read into a free record.
LEMMA FillEffect ==
  ASSUME TypeOK, OwnerPlace, FillSubmit
  PROVE  /\ own.slot \in SlotSet /\ FillBlk \in Blocks /\ FillBlk[1][1] = own.layer
         /\ own.layer \in Layers
         /\ own.pc = "fill" /\ own'.pc = "fill"
         /\ own'.slot = own.slot /\ own'.layer = own.layer
         /\ own'.ids = own.ids /\ own'.k = own.k /\ own'.p = own.p + 1
         /\ own.p \in 1..NParts /\ own.k \in 1..Len(own.ids)
         /\ FillPos \in 1..SlotCap /\ FillPos = Len(span[own.slot]) + 1
         /\ Len(span'[own.slot]) = FillPos /\ span'[own.slot][FillPos] = FillBlk
         /\ \A v \in 1..Len(span[own.slot]) : span'[own.slot][v] = span[own.slot][v]
         /\ \A t \in SlotSet \ {own.slot} : span'[t] = span[t]
         /\ ReadId \in 1..MaxReads /\ reads[ReadId] = None /\ reads'[ReadId] = FillRead
         /\ FillRead \in Read /\ FillRead # None
         /\ \A i \in 1..MaxReads \ {ReadId} : reads'[i] = reads[i]
         /\ UNCHANGED <<plans, free, err, mem, pinKeys, pinStore>>
<1>. USE PrefetcherAssumption
<1>1. own \in Owner /\ own.k \in Nat /\ own.p \in Nat /\ own.ids \in Seq(Experts)
  BY DEF TypeOK, Owner
<1>2. own.pc = "fill" /\ own.p \in 1..NParts /\ own.k \in 1..Len(own.ids)
      /\ own.slot \in SlotSet /\ own.layer \in Layers
  BY <1>1 DEF FillSubmit, FillBlock, OwnerPlace, Owner
<1>3. FillBlk \in Blocks
  BY <1>2, KeyType DEF Blocks, FillBlk
<1>4. own'.pc = "fill" /\ own'.slot = own.slot /\ own'.layer = own.layer
      /\ own'.ids = own.ids /\ own'.k = own.k /\ own'.p = own.p + 1
  BY <1>1, <1>2 DEF FillSubmit, Owner
<1>5. span[own.slot] \in Seq(Blocks)
  BY <1>2 DEF TypeOK
<1>5a. FillPos \in Nat /\ FillPos = Len(span[own.slot]) + 1
  BY <1>5 DEF FillPos
<1>6. FillPos \in 1..SlotCap
  BY <1>5 DEF FillSubmit, FillPos
<1>7. /\ span'[own.slot] = Append(span[own.slot], FillBlk)
      /\ \A t \in SlotSet \ {own.slot} : span'[t] = span[t]
  BY <1>2 DEF TypeOK, FillSubmit, FillBlk
<1>8. Len(span'[own.slot]) = FillPos /\ span'[own.slot][FillPos] = FillBlk
      /\ \A v \in 1..Len(span[own.slot]) : span'[own.slot][v] = span[own.slot][v]
  BY <1>5, <1>5a, <1>7
<1>9. ReadId \in 1..MaxReads /\ reads[ReadId] = None
  BY ReadIdIsFree DEF FillSubmit, SubmitRead, FreeReads
<1>10. reads'[ReadId] = FillRead /\ \A i \in 1..MaxReads \ {ReadId} : reads'[i] = reads[i]
  BY <1>9 DEF TypeOK, FillSubmit, SubmitRead, FillRead, FillPos, FillBlk
<1>11. FillRead \in Read /\ FillRead # None
  <2>1. FillRead \in Read
    BY <1>2, <1>3, <1>6 DEF Read, FillRead
  <2>2. None \notin Read
    BY DEF Read
  <2>. QED BY <2>1, <2>2
<1>12. FillBlk[1][1] = own.layer
  BY DEF Key, FillBlk
<1>13. UNCHANGED <<plans, free, err, mem, pinKeys, pinStore>>
  BY DEF FillSubmit
<1>. QED BY <1>2, <1>3, <1>4, <1>5a, <1>6, <1>7, <1>8, <1>9, <1>10, <1>11, <1>12, <1>13

\* A submit() that throws while a slot is filled leaves the block packed, unread.
LEMMA ThrowEffect ==
  ASSUME TypeOK, OwnerPlace, FillSubmitThrows
  PROVE  /\ own.slot \in SlotSet /\ own.pc = "fill" /\ own' = Idle /\ own'.pc = "idle"
         /\ Len(span'[own.slot]) <= SlotCap
         /\ \A v \in 1..Len(span[own.slot]) :
              v \in 1..Len(span'[own.slot]) /\ span'[own.slot][v] = span[own.slot][v]
         /\ \A t \in SlotSet \ {own.slot} : span'[t] = span[t]
         /\ UNCHANGED <<plans, free, err, mem, pinKeys, pinStore, reads>>
<1>. USE PrefetcherAssumption
<1>1. own.pc = "fill" /\ own.slot \in SlotSet
  BY DEF TypeOK, FillSubmitThrows, FillBlock, OwnerPlace, Owner
<1>2. span[own.slot] \in Seq(Blocks) /\ Len(span[own.slot]) < SlotCap
  BY <1>1 DEF TypeOK, FillSubmitThrows
<1>3. /\ span'[own.slot] = Append(span[own.slot], FillBlk)
      /\ \A t \in SlotSet \ {own.slot} : span'[t] = span[t]
  BY <1>1 DEF TypeOK, FillSubmitThrows, FillBlk
<1>4. /\ Len(span'[own.slot]) <= SlotCap
      /\ \A v \in 1..Len(span[own.slot]) :
           v \in 1..Len(span'[own.slot]) /\ span'[own.slot][v] = span[own.slot][v]
  BY <1>2, <1>3
<1>. QED BY <1>1, <1>3, <1>4 DEF FillSubmitThrows, Throw, Idle

\* A slot leaves circulation only with a call that throws while it fills the slot, and
\* comes back only when the prefetcher is closed.
LEMMA CirculatingStep ==
  ASSUME TypeOK, OwnerPlace, SlotOwnership, Next, NEW s \in SlotSet
  PROVE  /\ Circulating(s) /\ ~Circulating(s)' =>
              own.pc = "fill" /\ own.slot = s /\ own' = Idle /\ plans' = plans
         /\ ~Circulating(s) /\ Circulating(s)' => own.pc = "close"
<1>. USE PrefetcherAssumption
<1>own. own \in Owner
  BY DEF TypeOK
<1>1. CASE QuietStep
  <2>1. /\ UNCHANGED <<plans, free>>
        /\ own'.pc = "fill" => own.pc = "fill" /\ own'.slot = own.slot
    BY <1>1, QuietSteps DEF SlotsQuiet
  <2>2. own.pc = "fill" => own' = Idle \/ (own'.pc = "fill" /\ own'.slot = own.slot)
    <3>1. CASE \E i \in 1..MaxReads : Settle(i) \/ CallBack(i)
      BY <3>1, EngineKeepsOwner
    <3>2. CASE FillAdvance
      BY <3>2, <1>own DEF FillAdvance, Owner
    <3>3. CASE FillThrow
      BY <3>3 DEF FillThrow, Throw
    <3>4. ASSUME own.pc = "fill"
          PROVE  (\E i \in 1..MaxReads : Settle(i) \/ CallBack(i)) \/ FillAdvance \/ FillThrow
      BY <1>1, <3>4 DEF QuietStep, PinSkip, PinDemote, PinFits, PinMissingInHeader, PinNextPart,
           PinSubmit, PinSubmitThrows, PinDrained, PlanNoFreeSlot, PlanNeedsSlot, PlanBegin,
           AcquireBegin, CloseBegin
    <3>. QED BY <3>1, <3>2, <3>3, <3>4
  <2>. QED BY <2>1, <2>2 DEF Circulating
<1>2. CASE PlanAllPinned \/ PlanDone
  <2>1. /\ own.layer \in Layers /\ free' = free /\ own'.pc = "idle"
        /\ plans[own.layer] = None /\ plans'[own.layer] # None
        /\ plans'[own.layer].slot = IF own.pc = "fill" THEN own.slot ELSE None
        /\ \A l \in Layers \ {own.layer} : plans'[l] = plans[l]
    BY <1>2, PlanDoneEffect
  <2>2. \A l \in Layers : plans[l] # None => plans'[l] = plans[l]
    BY <2>1
  <2>3. ASSUME NEW l \in Layers, plans'[l] # None, plans'[l].slot = s
        PROVE  Circulating(s)
    <3>1. CASE l = own.layer
      BY <2>1, <2>3, <3>1 DEF Circulating
    <3>2. CASE l # own.layer
      BY <2>1, <2>3, <3>2 DEF Circulating
    <3>. QED BY <3>1, <3>2
  <2>. QED BY <2>1, <2>2, <2>3 DEF Circulating
<1>3. CASE PlanTakeSlot
  <2>1. /\ own'.slot = Head(free) /\ own'.pc = "fill" /\ own.pc = "pins"
        /\ 1 \in 1..Len(free) /\ free[1] = Head(free) /\ plans' = plans
        /\ \A i \in 1..Len(free') : i + 1 \in 1..Len(free) /\ free'[i] = free[i + 1]
    BY <1>3, TakeEffect
  <2>2. \A i \in 1..Len(free) : i = 1 \/ (i - 1 \in 1..Len(free') /\ free'[i - 1] = free[i])
    <3>1. free \in Seq(SlotSet) /\ free # <<>> /\ free' = Tail(free)
      BY <1>3 DEF TypeOK, PlanTakeSlot
    <3>. QED BY <3>1
  <2>3. Circulating(s) => Circulating(s)'
    <3>1. CASE \E i \in 1..Len(free) : free[i] = s
      BY <2>1, <2>2, <3>1 DEF Circulating
    <3>2. CASE ~\E i \in 1..Len(free) : free[i] = s
      BY <2>1, <3>2 DEF Circulating
    <3>. QED BY <3>1, <3>2
  <2>4. Circulating(s)' => Circulating(s)
    BY <2>1 DEF Circulating
  <2>. QED BY <2>3, <2>4
<1>4. CASE FillSubmit
  BY <1>4, FillEffect DEF Circulating
<1>5. CASE FillSubmitThrows
  BY <1>5, ThrowEffect DEF Circulating
<1>6. CASE AcquireDrained
  BY <1>6, AcquireEffect DEF Circulating
<1>7. CASE CloseAndReopen
  <2>1. own.pc = "close" /\ free' = Slots
    BY <1>7 DEF CloseAndReopen
  <2>. QED BY <2>1 DEF Circulating, SlotSet
<1>8. ASSUME NEW l \in Layers, Release(l)
      PROVE  Circulating(s) <=> Circulating(s)'
  <2>1. /\ plans[l] # None /\ plans'[l] = None /\ own' = own /\ own.pc = "idle"
        /\ \A m \in Layers \ {l} : plans'[m] = plans[m]
        /\ \A i \in 1..Len(free') :
              \/ i \in 1..Len(free) /\ free'[i] = free[i]
              \/ plans[l].slot \in SlotSet /\ free'[i] = plans[l].slot
    BY <1>8, ReleaseEffect
  <2>2. Circulating(s)' => Circulating(s)
    BY <2>1 DEF Circulating
  <2>3. /\ free \in Seq(SlotSet) /\ plans[l].slot \in SlotSet \cup {None}
        /\ free' = IF plans[l].slot = None THEN free ELSE Append(free, plans[l].slot)
    BY <1>8 DEF Release, TypeOK, PlanRec
  <2>4. \A i \in 1..Len(free) : i \in 1..Len(free') /\ free'[i] = free[i]
    BY <2>3
  <2>5. plans[l].slot = s => \E i \in 1..Len(free') : free'[i] = s
    <3>1. SUFFICES ASSUME plans[l].slot = s
                   PROVE  \E i \in 1..Len(free') : free'[i] = s
      OBVIOUS
    <3>2. free' = Append(free, s) /\ s # None
      BY <2>3, <3>1
    <3>3. Len(free') \in 1..Len(free') /\ free'[Len(free')] = s
      BY <2>3, <3>2
    <3>. QED BY <3>3
  <2>6. Circulating(s) => Circulating(s)'
    BY <2>1, <2>4, <2>5 DEF Circulating
  <2>. QED BY <2>2, <2>6
<1>. QED BY <1>1, <1>2, <1>3, <1>4, <1>5, <1>6, <1>7, <1>8, LoudSteps

---------------------------------------------------------------------------
(* The slots and the reads. *)

\* A slot packs blocks of its owner's layer only.
LEMMA SpansOfOwnerStep ==
  ASSUME TypeOK, OwnerPlace, SlotOwnership, SpansOfOwner, Next
  PROVE  SpansOfOwner'
<1>. USE PrefetcherAssumption
<1>plan. \A l \in Layers : plans[l] # None /\ plans[l].slot # None => plans[l].slot \in SlotSet
  BY DEF TypeOK, PlanRec
<1>1. CASE QuietStep
  BY <1>1, QuietSteps DEF SpansOfOwner, SlotsQuiet
<1>2. CASE PlanAllPinned \/ PlanDone
  <2>1. /\ plans'[own.layer].slot = (IF own.pc = "fill" THEN own.slot ELSE None)
        /\ \A l \in Layers \ {own.layer} : plans'[l] = plans[l]
        /\ own.layer \in Layers /\ own'.pc = "idle" /\ span' = span
    BY <1>2, PlanDoneEffect
  <2>. QED BY <2>1 DEF SpansOfOwner
<1>3. CASE PlanTakeSlot
  <2>1. /\ Head(free) \in SlotSet /\ own'.slot = Head(free) /\ plans' = plans
        /\ span'[Head(free)] = <<>> /\ \A t \in SlotSet \ {Head(free)} : span'[t] = span[t]
        /\ \A l \in Layers : plans[l] # None => plans[l].slot # Head(free)
    BY <1>3, TakeEffect
  <2>2. \A s \in SlotSet : Len(span'[s]) <= SlotCap
    BY <2>1 DEF SpansOfOwner
  <2>3. ASSUME NEW l \in Layers, plans[l] # None, plans[l].slot # None
        PROVE  span'[plans[l].slot] = span[plans[l].slot]
    <3>1. plans[l].slot \in SlotSet
      BY <2>3, <1>plan
    <3>2. plans[l].slot # Head(free)
      BY <2>1, <2>3
    <3>. QED BY <2>1, <3>1, <3>2
  <2>. QED BY <2>1, <2>2, <2>3 DEF SpansOfOwner
<1>4. CASE FillSubmit
  <2>1. \A l \in Layers : plans[l] # None /\ plans[l].slot # None => plans[l].slot # own.slot
    BY <1>4, FillEffect DEF SlotOwnership
  <2>2. \A s \in SlotSet : Len(span'[s]) <= SlotCap
    <3>1. /\ Len(span'[own.slot]) \in 1..SlotCap
          /\ \A t \in SlotSet \ {own.slot} : span'[t] = span[t]
      BY <1>4, FillEffect
    <3>. QED BY <3>1 DEF SpansOfOwner
  <2>3. \A l \in Layers : plans[l] # None /\ plans[l].slot # None =>
          span'[plans[l].slot] = span[plans[l].slot]
    <3>1. \A t \in SlotSet \ {own.slot} : span'[t] = span[t]
      BY <1>4, FillEffect
    <3>. QED BY <2>1, <3>1, <1>plan
  <2>4. \A v \in 1..Len(span'[own.slot]) : v \in 1..Len(span[own.slot]) \/ v = FillPos
    <3>1. Len(span[own.slot]) \in Nat
      BY <1>4, FillEffect DEF TypeOK
    <3>. QED BY <1>4, <3>1, FillEffect
  <2>5. ASSUME NEW v \in 1..Len(span'[own.slot])
        PROVE  span'[own.slot][v][1][1] = own.layer
    <3>1. CASE v \in 1..Len(span[own.slot])
      <4>1. span'[own.slot][v] = span[own.slot][v] /\ own.pc = "fill"
        BY <1>4, <3>1, FillEffect
      <4>. QED BY <3>1, <4>1 DEF SpansOfOwner
    <3>2. CASE v = FillPos
      <4>1. span'[own.slot][v] = FillBlk /\ FillBlk[1][1] = own.layer
        BY <1>4, <3>2, FillEffect
      <4>. QED BY <4>1
    <3>. QED BY <2>4, <3>1, <3>2
  <2>6. own'.slot = own.slot /\ own'.layer = own.layer /\ plans' = plans
    BY <1>4, FillEffect
  <2>. QED BY <2>2, <2>3, <2>5, <2>6 DEF SpansOfOwner
<1>5. CASE AcquireDrained
  BY <1>5, AcquireEffect DEF SpansOfOwner
<1>6. CASE CloseAndReopen
  BY <1>6 DEF SpansOfOwner, CloseAndReopen, Idle
<1>7. ASSUME NEW l \in Layers, Release(l)
      PROVE  SpansOfOwner'
  <2>1. \A s \in SlotSet : span'[s] = span[s] \/ span'[s] = <<>>
    BY <1>7, ReleaseEffect
  <2>2. \A s \in SlotSet : Len(span'[s]) <= SlotCap
    BY <2>1 DEF SpansOfOwner
  <2>3. ASSUME NEW m \in Layers, plans'[m] # None, plans'[m].slot # None,
               NEW u \in 1..Len(span'[plans'[m].slot])
        PROVE  span'[plans'[m].slot][u][1][1] = m
    <3>1. plans'[m] = plans[m] /\ plans[m].slot \in SlotSet
      BY <1>7, <2>3, <1>plan, ReleaseEffect
    <3>2. span'[plans[m].slot] = span[plans[m].slot]
      BY <2>1, <2>3, <3>1
    <3>. QED BY <2>3, <3>1, <3>2 DEF SpansOfOwner
  <2>4. own'.pc # "fill"
    BY <1>7, ReleaseEffect
  <2>. QED BY <2>2, <2>3, <2>4 DEF SpansOfOwner
<1>8. CASE FillSubmitThrows
  <2>1. /\ plans' = plans /\ own'.pc = "idle" /\ own.pc = "fill"
        /\ \A t \in SlotSet \ {own.slot} : span'[t] = span[t]
        /\ Len(span'[own.slot]) <= SlotCap
    BY <1>8, ThrowEffect
  <2>2. \A s \in SlotSet : Len(span'[s]) <= SlotCap
    BY <2>1 DEF SpansOfOwner
  <2>3. \A l \in Layers : plans[l] # None /\ plans[l].slot # None =>
          span'[plans[l].slot] = span[plans[l].slot]
    BY <2>1, <1>plan DEF SlotOwnership
  <2>. QED BY <2>1, <2>2, <2>3 DEF SpansOfOwner
<1>. QED BY <1>1, <1>2, <1>3, <1>4, <1>5, <1>6, <1>7, <1>8, LoudSteps

\* What a step may do to the reads in flight: it adds none that writes to a slot,
\* and leaves the others.
NoNewWriter ==
  \A i \in 1..MaxReads : InFlight(i)' => InFlight(i) /\ reads'[i] = reads[i]

\* No quiet step adds a read that writes to a slot.
LEMMA QuietReads ==
  ASSUME TypeOK, QuietStep
  PROVE  NoNewWriter
<1>1. ASSUME NEW i \in 1..MaxReads, Settle(i) \/ CallBack(i)
      PROVE  NoNewWriter
  <2>1. \A k \in 1..MaxReads : k # i => reads'[k] = reads[k]
    BY <1>1 DEF TypeOK, Settle, CallBack
  <2>2. ~InFlight(i)'
    <3>1. CASE Settle(i)
      <4>1. reads[i] \in Read
        BY <3>1 DEF TypeOK, Settle
      <4>2. reads'[i].st = "settled"
        BY <3>1, <4>1 DEF TypeOK, Settle, Read
      <4>. QED BY <4>2 DEF InFlight
    <3>2. CASE CallBack(i)
      BY <3>2 DEF TypeOK, CallBack, InFlight
    <3>. QED BY <1>1, <3>1, <3>2
  <2>. QED BY <2>1, <2>2 DEF NoNewWriter, InFlight
<1>2. CASE PinSubmit
  <2>1. ReadId \in 1..MaxReads
    BY <1>2, ReadIdIsFree DEF PinSubmit, SubmitRead, FreeReads
  <2>2. reads'[ReadId].slot = None /\ \A k \in 1..MaxReads : k # ReadId => reads'[k] = reads[k]
    BY <1>2, <2>1 DEF TypeOK, PinSubmit, SubmitRead
  <2>4. ASSUME NEW k \in 1..MaxReads, InFlight(k)'
        PROVE  InFlight(k) /\ reads'[k] = reads[k]
    <3>1. k # ReadId
      <4>1. reads'[k].slot # None
        BY <2>4 DEF InFlight
      <4>. QED BY <2>2, <4>1
    <3>. QED BY <2>2, <2>4, <3>1 DEF InFlight
  <2>. QED BY <2>4 DEF NoNewWriter
<1>3. reads' = reads => NoNewWriter
  BY DEF NoNewWriter, InFlight
<1>4. \/ \E i \in 1..MaxReads : Settle(i) \/ CallBack(i)
      \/ PinSubmit
      \/ reads' = reads
  BY DEF QuietStep, PinSkip, PinDemote, PinFits, PinMissingInHeader, PinNextPart,
         PinSubmitThrows, PinDrained, PlanNoFreeSlot, FillAdvance, FillThrow, PlanBegin, AcquireBegin, CloseBegin
<1>. QED BY <1>1, <1>2, <1>3, <1>4

\* Reads in flight stay in place.
LEMMA ReadsInPlaceStep ==
  ASSUME TypeOK, OwnerPlace, SlotOwnership, SpansOfOwner, ReadsInPlace, Next
  PROVE  ReadsInPlace'
<1>. USE PrefetcherAssumption
<1>slot. \A i \in 1..MaxReads : InFlight(i) => reads[i] \in Read /\ reads[i].slot \in SlotSet
  BY DEF TypeOK, InFlight, Read
<1>1. CASE QuietStep
  BY <1>1, QuietSteps, QuietReads DEF ReadsInPlace, SlotsQuiet, NoNewWriter
<1>2. CASE PlanAllPinned \/ PlanDone
  <2>1. NoNewWriter
    BY <1>2, PlanDoneEffect DEF NoNewWriter, InFlight
  <2>2. /\ span' = span /\ free' = free
        /\ \A l \in Layers : plans'[l] = plans[l] \/ ~plans'[l].acquired
    BY <1>2, PlanDoneEffect
  <2>. QED BY <2>1, <2>2 DEF ReadsInPlace, NoNewWriter
<1>3. CASE PlanTakeSlot
  <2>1. /\ reads' = reads /\ plans' = plans
        /\ \A i \in 1..Len(free') : \E k \in 1..Len(free) : free'[i] = free[k]
        /\ 1 \in 1..Len(free) /\ free[1] = Head(free)
        /\ \A t \in SlotSet \ {Head(free)} : span'[t] = span[t]
    BY <1>3, TakeEffect
  <2>2. ASSUME NEW i \in 1..MaxReads, InFlight(i)
        PROVE  /\ \A k \in 1..Len(free') : free'[k] # reads[i].slot
               /\ span'[reads[i].slot] = span[reads[i].slot]
    BY <2>1, <2>2, <1>slot DEF ReadsInPlace
  <2>3. \A i \in 1..MaxReads : InFlight(i)' <=> InFlight(i)
    BY <2>1 DEF InFlight
  <2>. QED BY <2>1, <2>2, <2>3 DEF ReadsInPlace
<1>4. CASE FillSubmit
  <2>1. /\ plans' = plans /\ free' = free
        /\ \A t \in SlotSet \ {own.slot} : span'[t] = span[t]
        /\ own.slot \in SlotSet /\ FillPos \in 1..Len(span'[own.slot])
        /\ span'[own.slot][FillPos] = FillBlk
        /\ \A v \in 1..Len(span[own.slot]) :
             v \in 1..Len(span'[own.slot]) /\ span'[own.slot][v] = span[own.slot][v]
    <3>1. Len(span[own.slot]) \in Nat
      BY <1>4, FillEffect DEF TypeOK
    <3>. QED BY <1>4, <3>1, FillEffect
  <2>2. /\ \A k \in 1..Len(free) : free[k] # own.slot
        /\ \A l \in Layers : plans[l] # None => plans[l].slot # own.slot
    BY <1>4, FillEffect DEF SlotOwnership
  <2>3. ASSUME NEW i \in 1..MaxReads, InFlight(i)'
        PROVE  /\ reads'[i].pos \in 1..Len(span'[reads'[i].slot])
               /\ span'[reads'[i].slot][reads'[i].pos] = reads'[i].blk
               /\ \A k \in 1..Len(free') : free'[k] # reads'[i].slot
               /\ \A l \in Layers : plans'[l] # None /\ plans'[l].slot = reads'[i].slot =>
                    ~plans'[l].acquired
    <3>1. CASE i = ReadId
      <4>1. reads'[i] = FillRead
        BY <1>4, <3>1, FillEffect
      <4>. QED BY <4>1, <2>1, <2>2 DEF FillRead
    <3>2. CASE i # ReadId
      <4>1. reads'[i] = reads[i] /\ InFlight(i)
        BY <1>4, <2>3, <3>2, FillEffect DEF InFlight
      <4>2. /\ reads[i].pos \in 1..Len(span'[reads[i].slot])
            /\ span'[reads[i].slot][reads[i].pos] = reads[i].blk
        <5>1. /\ reads[i].pos \in 1..Len(span[reads[i].slot])
              /\ span[reads[i].slot][reads[i].pos] = reads[i].blk
              /\ reads[i].slot \in SlotSet
          BY <4>1, <1>slot DEF ReadsInPlace
        <5>2. CASE reads[i].slot = own.slot
          BY <5>1, <5>2, <2>1
        <5>3. CASE reads[i].slot # own.slot
          <6>1. span'[reads[i].slot] = span[reads[i].slot]
            BY <5>1, <5>3, <2>1
          <6>. QED BY <5>1, <6>1
        <5>. QED BY <5>2, <5>3
      <4>. QED BY <4>1, <4>2, <2>1 DEF ReadsInPlace
    <3>. QED BY <3>1, <3>2
  <2>. QED BY <2>3 DEF ReadsInPlace
<1>5. CASE AcquireDrained
  <2>1. \A i \in 1..MaxReads : ~InFlight(i)'
    BY <1>5, AcquireEffect DEF NonePending, InFlight
  <2>. QED BY <2>1 DEF ReadsInPlace
<1>6. CASE CloseAndReopen
  <2>1. \A i \in 1..MaxReads : ~InFlight(i)'
    BY <1>6 DEF CloseAndReopen, InFlight
  <2>. QED BY <2>1 DEF ReadsInPlace
<1>7. ASSUME NEW l \in Layers, Release(l)
      PROVE  ReadsInPlace'
  <2>1. \A i \in 1..MaxReads : InFlight(i)' <=> InFlight(i)
    BY <1>7, ReleaseEffect DEF InFlight
  <2>2. ASSUME NEW i \in 1..MaxReads, InFlight(i)
        PROVE  /\ reads[i].slot # plans[l].slot
               /\ span'[reads[i].slot] = span[reads[i].slot]
               /\ \A k \in 1..Len(free') : free'[k] # reads[i].slot
    <3>1. reads[i].slot # plans[l].slot
      BY <1>7, <2>2, ReleaseEffect DEF ReadsInPlace
    <3>. QED BY <1>7, <2>2, <3>1, <1>slot, ReleaseEffect DEF ReadsInPlace
  <2>3. \A m \in Layers : plans'[m] # None => plans'[m] = plans[m]
    BY <1>7, ReleaseEffect
  <2>4. reads' = reads
    BY <1>7, ReleaseEffect
  <2>. QED BY <2>1, <2>2, <2>3, <2>4 DEF ReadsInPlace
<1>8. CASE FillSubmitThrows
  <2>1. /\ UNCHANGED <<plans, free, reads>>
        /\ \A t \in SlotSet \ {own.slot} : span'[t] = span[t]
        /\ \A v \in 1..Len(span[own.slot]) :
             v \in 1..Len(span'[own.slot]) /\ span'[own.slot][v] = span[own.slot][v]
    BY <1>8, ThrowEffect
  <2>2. ASSUME NEW i \in 1..MaxReads, InFlight(i)
        PROVE  /\ reads[i].pos \in 1..Len(span'[reads[i].slot])
               /\ span'[reads[i].slot][reads[i].pos] = reads[i].blk
    <3>1. /\ reads[i].pos \in 1..Len(span[reads[i].slot]) /\ reads[i].slot \in SlotSet
          /\ span[reads[i].slot][reads[i].pos] = reads[i].blk
      BY <2>2, <1>slot DEF ReadsInPlace
    <3>2. CASE reads[i].slot = own.slot
      BY <2>1, <3>1, <3>2
    <3>3. CASE reads[i].slot # own.slot
      <4>1. span'[reads[i].slot] = span[reads[i].slot]
        BY <2>1, <3>1, <3>3
      <4>. QED BY <3>1, <4>1
    <3>. QED BY <3>2, <3>3
  <2>3. \A i \in 1..MaxReads : InFlight(i)' <=> InFlight(i)
    BY <2>1 DEF InFlight
  <2>. QED BY <2>1, <2>2, <2>3 DEF ReadsInPlace
<1>. QED BY <1>1, <1>2, <1>3, <1>4, <1>5, <1>6, <1>7, <1>8, LoudSteps

\* A packed block is read, or its read is in flight.
LEMMA CoveredStep ==
  ASSUME TypeOK, OwnerPlace, SlotOwnership, SpansOfOwner, ReadsInPlace, Covered, Next
  PROVE  Covered'
<1>. USE PrefetcherAssumption
<1>. DEFINE Awaited(s, u) == \E i \in 1..MaxReads : InFlight(i) /\ reads[i].slot = s /\ reads[i].pos = u
<1>len. \A s \in SlotSet : Len(span[s]) \in Nat
  BY DEF TypeOK
<1>9. CASE CloseAndReopen
  BY <1>9 DEF CloseAndReopen, Covered
<1>. SUFFICES ASSUME ~CloseAndReopen
              PROVE  Covered'
  BY <1>9
<1>circ. ASSUME NEW s \in SlotSet, Circulating(s)'
         PROVE  Circulating(s)
  <2>1. CASE own.pc = "close"
    <3>1. UNCHANGED <<plans, free>> /\ own'.pc # "fill"
      <4>1. CASE \E i \in 1..MaxReads : Settle(i) \/ CallBack(i)
        BY <2>1, <4>1, EngineKeepsOwner
      <4>. QED BY <2>1, <4>1 DEF Next, EngineStep, OwnerStep, SubmitThrows, OwnerCall, PinSkip,
             PinDemote, PinFits, PinMissingInHeader, PinNextPart, PinSubmit, PinSubmitThrows,
             PinDrained, PlanAllPinned, PlanNoFreeSlot, PlanTakeSlot, PlanNeedsSlot, FillAdvance,
             FillSubmit, FillBlock, FillSubmitThrows, FillThrow, PlanDone, AcquireDrained,
             PlanBegin, AcquireBegin, Release, CloseBegin
    <3>. QED BY <1>circ, <3>1 DEF Circulating
  <2>2. CASE own.pc # "close"
    BY <1>circ, <2>2, CirculatingStep
  <2>. QED BY <2>1, <2>2
\* A step that writes no slot and lands no read leaves the covered blocks covered.
<1>1. ASSUME mem' = mem,
             \A i \in 1..MaxReads : InFlight(i) => reads'[i] = reads[i],
             NEW s \in SlotSet, Circulating(s),
             NEW u \in 1..Len(span[s]), span'[s][u] = span[s][u]
      PROVE  Written(s, u)' \/ Awaited(s, u)'
  <2>1. Written(s, u) \/ Awaited(s, u)
    BY <1>1 DEF Covered
  <2>2. Written(s, u) => Written(s, u)'
    BY <1>1 DEF Written
  <2>3. Awaited(s, u) => Awaited(s, u)'
    BY <1>1 DEF InFlight
  <2>. QED BY <2>1, <2>2, <2>3
<1>2. ASSUME mem' = mem,
             \A i \in 1..MaxReads : InFlight(i) => reads'[i] = reads[i],
             \A s \in SlotSet : span'[s] = span[s] \/ span'[s] = <<>>
      PROVE  Covered'
  BY <1>1, <1>2, <1>circ DEF Covered
<1>3. ASSUME NEW i \in 1..MaxReads, Settle(i)
      PROVE  Covered'
  <2>1. reads[i] \in Read /\ span' = span
    BY <1>3 DEF TypeOK, Settle
  <2>2. PICK ok \in BOOLEAN :
          IF reads[i].slot = None
            THEN UNCHANGED mem
            ELSE mem' = [mem EXCEPT ![reads[i].slot][reads[i].pos] =
                           [blk |-> reads[i].blk, ok |-> ok]]
    BY <1>3 DEF Settle
  <2>3. \A k \in 1..MaxReads : k # i => reads'[k] = reads[k]
    BY <1>3 DEF TypeOK, Settle
  <2>4. CASE ~InFlight(i)
    <3>1. mem' = mem
      BY <1>3, <2>2, <2>4 DEF InFlight, Settle
    <3>. QED BY <1>2, <2>1, <2>3, <2>4, <3>1
  <2>5. CASE InFlight(i)
    <3>. DEFINE c == [blk |-> reads[i].blk, ok |-> ok]
    <3>1. c # None /\ c.blk = reads[i].blk
      <4>1. c \in Cell
        BY <2>1 DEF Read, Cell
      <4>. QED BY <4>1 DEF Cell
    <3>2. /\ reads[i].slot \in SlotSet /\ reads[i].pos \in 1..SlotCap
          /\ span[reads[i].slot][reads[i].pos] = reads[i].blk
      <4>1. reads[i].slot \in SlotSet /\ reads[i].pos \in 1..Len(span[reads[i].slot])
        BY <2>1, <2>5 DEF Read, InFlight, ReadsInPlace
      <4>2. Len(span[reads[i].slot]) <= SlotCap /\ Len(span[reads[i].slot]) \in Nat
        BY <4>1, <1>len DEF SpansOfOwner
      <4>. QED BY <2>5, <4>1, <4>2 DEF ReadsInPlace
    <3>3. mem' = [mem EXCEPT ![reads[i].slot][reads[i].pos] = c]
      BY <2>2, <2>5 DEF InFlight
    <3>. HIDE DEF c
    <3>4. mem'[reads[i].slot][reads[i].pos] = c
      BY <3>2, <3>3 DEF TypeOK
    <3>5. \A s \in SlotSet, u \in 1..SlotCap :
            s # reads[i].slot \/ u # reads[i].pos => mem'[s][u] = mem[s][u]
      BY <3>2, <3>3 DEF TypeOK
    <3>6. ASSUME NEW s \in SlotSet, Circulating(s), NEW u \in 1..Len(span[s])
          PROVE  Written(s, u)' \/ Awaited(s, u)'
      <4>1. CASE s = reads[i].slot /\ u = reads[i].pos
        BY <2>1, <3>1, <3>2, <3>4, <4>1 DEF Written
      <4>2. CASE s # reads[i].slot \/ u # reads[i].pos
        <5>1. u \in 1..SlotCap
          BY <1>len DEF SpansOfOwner
        <5>2. mem'[s][u] = mem[s][u]
          BY <3>5, <4>2, <5>1
        <5>3. CASE Written(s, u)
          BY <2>1, <5>2, <5>3 DEF Written
        <5>4. CASE Awaited(s, u)
          BY <2>3, <4>2, <5>4 DEF InFlight
        <5>. QED BY <3>6, <5>3, <5>4 DEF Covered
      <4>. QED BY <4>1, <4>2
    <3>. QED BY <2>1, <3>6, <1>circ DEF Covered
  <2>. QED BY <2>4, <2>5
<1>4. ASSUME NEW i \in 1..MaxReads, CallBack(i)
      PROVE  Covered'
  <2>1. \A k \in 1..MaxReads : k # i => reads'[k] = reads[k]
    BY <1>4 DEF TypeOK, CallBack
  <2>2. ~InFlight(i) /\ mem' = mem /\ span' = span
    BY <1>4 DEF CallBack, InFlight
  <2>. QED BY <1>2, <2>1, <2>2
<1>5. CASE PinSubmit
  <2>1. ReadId \in 1..MaxReads /\ reads[ReadId] = None
    BY <1>5, ReadIdIsFree DEF PinSubmit, SubmitRead, FreeReads
  <2>2. \A k \in 1..MaxReads : InFlight(k) => reads'[k] = reads[k]
    BY <1>5, <2>1 DEF TypeOK, PinSubmit, SubmitRead, InFlight
  <2>3. mem' = mem /\ span' = span
    BY <1>5 DEF PinSubmit
  <2>. QED BY <1>2, <2>2, <2>3
<1>6. ASSUME UNCHANGED <<mem, span, reads>>
      PROVE  Covered'
  BY <1>2, <1>6
<1>7. CASE PlanTakeSlot
  <2>1. /\ mem' = mem /\ reads' = reads
        /\ \A s \in SlotSet : span'[s] = span[s] \/ span'[s] = <<>>
    BY <1>7, TakeEffect
  <2>. QED BY <1>2, <2>1
<1>8. CASE FillSubmit
  <2>1. /\ mem' = mem /\ own.slot \in SlotSet
        /\ \A t \in SlotSet \ {own.slot} : span'[t] = span[t]
        /\ \A v \in 1..Len(span[own.slot]) : span'[own.slot][v] = span[own.slot][v]
    BY <1>8, FillEffect
  <2>2. \A i \in 1..MaxReads : InFlight(i) => reads'[i] = reads[i]
    BY <1>8, FillEffect DEF InFlight
  <2>3. \A v \in 1..Len(span'[own.slot]) : v \in 1..Len(span[own.slot]) \/ v = FillPos
    BY <1>8, <1>len, FillEffect
  <2>5. ASSUME NEW s \in SlotSet, Circulating(s), NEW u \in 1..Len(span'[s])
        PROVE  Written(s, u)' \/ Awaited(s, u)'
    <3>1. CASE s # own.slot
      <4>1. span'[s] = span[s]
        BY <2>1, <3>1
      <4>. QED BY <1>1, <2>1, <2>2, <2>5, <4>1
    <3>2. CASE s = own.slot /\ u \in 1..Len(span[own.slot])
      <4>1. s \in SlotSet /\ u \in 1..Len(span[s]) /\ span'[s][u] = span[s][u] /\ mem' = mem
        BY <2>1, <3>2
      <4>. HIDE <3>2
      <4>. QED BY <1>1, <2>2, <2>5, <4>1
    <3>3. CASE s = own.slot /\ u = FillPos
      <4>1. /\ ReadId \in 1..MaxReads /\ reads'[ReadId] = FillRead /\ FillRead # None
        BY <1>8, FillEffect
      <4>2. PICK k \in 1..MaxReads : reads'[k] = FillRead
        BY <4>1
      <4>3. s # None
        OBVIOUS
      <4>4. InFlight(k)' /\ reads'[k].slot = s /\ reads'[k].pos = u
        BY <3>3, <4>1, <4>2, <4>3 DEF InFlight, FillRead
      <4>. QED BY <4>4
    <3>. QED BY <2>3, <3>1, <3>2, <3>3
  <2>. QED BY <2>5, <1>circ DEF Covered
<1>13. CASE FillSubmitThrows
  <2>1. /\ mem' = mem /\ reads' = reads
        /\ \A t \in SlotSet \ {own.slot} : span'[t] = span[t]
    BY <1>13, ThrowEffect
  <2>2. \A s \in SlotSet : Circulating(s)' => s # own.slot
    BY <1>13, ThrowEffect DEF Circulating, SlotOwnership
  <2>3. ASSUME NEW s \in SlotSet, Circulating(s)', NEW u \in 1..Len(span'[s])
        PROVE  Written(s, u)' \/ Awaited(s, u)'
    <3>1. span'[s] = span[s]
      BY <2>1, <2>2, <2>3
    <3>. QED BY <1>1, <1>circ, <2>1, <2>3, <3>1
  <2>. QED BY <2>3 DEF Covered
<1>10. ASSUME NEW l \in Layers, Release(l)
       PROVE  Covered'
  <2>1. /\ mem' = mem /\ reads' = reads
        /\ \A s \in SlotSet : span'[s] = span[s] \/ span'[s] = <<>>
    BY <1>10, ReleaseEffect
  <2>. QED BY <1>2, <2>1
<1>11. CASE QuietStep
  <2>1. \/ \E i \in 1..MaxReads : Settle(i) \/ CallBack(i)
        \/ PinSubmit
        \/ UNCHANGED <<mem, span, reads>>
    BY <1>11 DEF QuietStep, PinSkip, PinDemote, PinFits, PinMissingInHeader, PinNextPart,
         PinSubmitThrows, PinDrained, PlanNoFreeSlot, FillAdvance, FillThrow, PlanBegin, AcquireBegin, CloseBegin
  <2>. QED BY <2>1, <1>3, <1>4, <1>5, <1>6
<1>12. CASE PlanAllPinned \/ PlanDone \/ AcquireDrained
  BY <1>6, <1>12 DEF PlanAllPinned, PlanDone, AcquireDrained
<1>. QED BY <1>7, <1>8, <1>10, <1>11, <1>12, <1>13, LoudSteps

---------------------------------------------------------------------------
(* Plans and pins. *)

\* Where the blocks of a slot are packed depends on the slot alone.
LEMMA HasPlaceKept ==
  ASSUME NEW s, NEW b, HasPlace(s, b), s \in SlotSet => span'[s] = span[s]
  PROVE  HasPlace(s, b)'
<1>1. s \in SlotSet /\ \E u \in 1..Len(span[s]) : span[s][u] = b
  BY DEF HasPlace
<1>2. \E u \in 1..Len(span'[s]) : span'[s][u] = b
  BY <1>1
<1>. QED BY <1>1, <1>2 DEF HasPlace

\* A plan stays complete as long as its slot keeps its blocks and its pinned
\* experts stay pinned.
LEMMA PlanCompleteKept ==
  ASSUME NEW l, PlanComplete(l),
         plans'[l].slot = plans[l].slot, plans'[l].ids = plans[l].ids,
         plans[l].slot \in SlotSet => span'[plans[l].slot] = span[plans[l].slot],
         \A n \in 1..Len(plans[l].ids) :
           IsPinned(<<l, plans[l].ids[n]>>) => <<l, plans[l].ids[n]>> \in pinKeys'
  PROVE  PlanComplete(l)'
<1>1. \A b : HasPlace(plans[l].slot, b) => HasPlace(plans[l].slot, b)'
  <2>1. \A s, b : HasPlace(s, b) /\ (s \in SlotSet => span'[s] = span[s]) => HasPlace(s, b)'
    BY HasPlaceKept
  <2>. QED BY <2>1
<1>2. \A n \in 1..Len(plans[l].ids) :
        IsPinned(<<l, plans[l].ids[n]>>) => IsPinned(<<l, plans[l].ids[n]>>)'
  BY DEF IsPinned
<1>. QED BY <1>1, <1>2 DEF PlanComplete

\* Every block of a plan has its place.
LEMMA PlansCompleteStep ==
  ASSUME TypeOK, OwnerPlace, SlotOwnership, PlansComplete, Next
  PROVE  PlansComplete'
<1>. USE PrefetcherAssumption
<1>own. /\ own \in Owner /\ own.ids \in Seq(Experts) /\ Len(own.ids) \in Nat
        /\ own.k \in Nat /\ own.p \in Nat
  BY DEF TypeOK, Owner
\* The plans there were, when their slots and their pins are kept.
<1>1. ASSUME NEW l \in Layers, plans'[l] = plans[l], plans'[l] # None, pinKeys' = pinKeys,
             plans[l].slot \in SlotSet => span'[plans[l].slot] = span[plans[l].slot]
      PROVE  PlanComplete(l)'
  <2>1. PlanComplete(l)
    BY <1>1 DEF PlansComplete
  <2>2. \A n \in 1..Len(plans[l].ids) :
          IsPinned(<<l, plans[l].ids[n]>>) => <<l, plans[l].ids[n]>> \in pinKeys'
    BY <1>1 DEF IsPinned
  <2>. QED BY <1>1, <2>1, <2>2, PlanCompleteKept
<1>2. ASSUME UNCHANGED <<plans, pinKeys, span>>, own'.pc # "fill"
      PROVE  PlansComplete'
  BY <1>1, <1>2 DEF PlansComplete
<1>3. ASSUME NEW i \in 1..MaxReads, Settle(i) \/ CallBack(i)
      PROVE  PlansComplete'
  <2>1. /\ own'.pc = own.pc /\ own'.layer = own.layer /\ own'.ids = own.ids
        /\ own'.slot = own.slot /\ own'.k = own.k /\ own'.p = own.p
        /\ UNCHANGED <<plans, span, pinKeys>>
    BY <1>3, EngineKeepsOwner
  <2>2. FillComplete => FillComplete'
    <3>1. \A n : Key(n)' = Key(n) /\ (IsPinned(Key(n)) => IsPinned(Key(n))')
      BY <2>1 DEF Key, IsPinned
    <3>2. \A b : HasPlace(own.slot, b) => HasPlace(own.slot, b)'
      BY <2>1 DEF HasPlace
    <3>. QED BY <2>1, <3>1, <3>2 DEF FillComplete
  <2>. QED BY <1>1, <2>1, <2>2 DEF PlansComplete
<1>4. CASE PinDemote
  <2>1. /\ own.layer \in Layers /\ plans[own.layer] = None /\ own'.pc = "pins"
        /\ pinKeys' = pinKeys \ {Key(own.k)} /\ plans' = plans /\ span' = span
    BY <1>4, <1>own DEF PinDemote, OwnerPlace, Owner
  <2>2. ASSUME NEW l \in Layers, plans'[l] # None
        PROVE  PlanComplete(l)'
    <3>1. l # own.layer /\ plans[l] # None
      BY <2>1, <2>2
    <3>2. \A n \in 1..Len(plans[l].ids) :
            IsPinned(<<l, plans[l].ids[n]>>) => <<l, plans[l].ids[n]>> \in pinKeys'
      BY <2>1, <3>1 DEF IsPinned, Key
    <3>. QED BY <2>1, <3>1, <3>2, PlanCompleteKept DEF PlansComplete
  <2>. QED BY <2>1, <2>2 DEF PlansComplete
<1>5. CASE \/ PinSkip \/ PinFits \/ PinMissingInHeader \/ PinNextPart \/ PinSubmit \/ PinDrained
           \/ PinSubmitThrows \/ PlanNoFreeSlot \/ FillThrow \/ CloseBegin
           \/ \E l \in Layers : (\E ids \in Requests : PlanBegin(l, ids)) \/ AcquireBegin(l)
  <2>1. QuietStep
    BY <1>5 DEF QuietStep
  <2>2. own'.pc # "fill"
    <3>1. CASE PinSkip \/ PinFits \/ PinNextPart
      BY <1>own, <3>1 DEF PinSkip, PinFits, PinNextPart, Owner
    <3>2. CASE PinSubmit
      BY <1>own, <3>2 DEF PinSubmit, Owner
    <3>3. CASE PinDrained
      BY <1>own, <3>3, QuietSteps DEF PinDrained, SlotsQuiet, QuietStep
    <3>4. CASE PinMissingInHeader \/ PinSubmitThrows \/ PlanNoFreeSlot \/ FillThrow \/ CloseBegin
      BY <3>4 DEF PinMissingInHeader, PinSubmitThrows, PlanNoFreeSlot, FillThrow, CloseBegin, Throw, Idle
    <3>5. CASE \E l \in Layers : (\E ids \in Requests : PlanBegin(l, ids)) \/ AcquireBegin(l)
      BY <3>5 DEF PlanBegin, AcquireBegin, Idle
    <3>. QED BY <1>5, <3>1, <3>2, <3>3, <3>4, <3>5
  <2>3. pinKeys' = pinKeys
    BY <1>5 DEF PinSkip, PinFits, PinMissingInHeader, PinNextPart, PinSubmit, PinDrained,
                PinSubmitThrows, PlanNoFreeSlot, FillThrow, CloseBegin, PlanBegin, AcquireBegin
  <2>4. plans' = plans /\ span' = span
    BY <2>1, QuietSteps DEF SlotsQuiet
  <2>. QED BY <1>2, <2>2, <2>3, <2>4
<1>6. CASE FillAdvance
  <2>1. /\ own.pc = "fill" /\ own.k <= Len(own.ids)
        /\ IsPinned(Key(own.k)) \/ own.p > NParts
        /\ own'.k = own.k + 1 /\ own'.p = 1 /\ own'.ids = own.ids
        /\ own'.layer = own.layer /\ own'.slot = own.slot
        /\ UNCHANGED <<plans, span, pinKeys>>
    BY <1>6, <1>own DEF FillAdvance, Owner
  <2>2. ASSUME NEW n \in 1..Len(own.ids), NEW p \in 1..NParts,
               n < own.k + 1 \/ (n = own.k + 1 /\ p < 1)
        PROVE  IsPinned(Key(n)) \/ HasPlace(own.slot, <<Key(n), p>>)
    <3>1. FillComplete
      BY <2>1 DEF PlansComplete
    <3>2. CASE n < own.k
      BY <3>1, <3>2 DEF FillComplete
    <3>3. CASE n = own.k /\ own.p > NParts
      <4>1. p < own.p
        BY <3>3, <1>own
      <4>. QED BY <3>1, <3>3, <4>1 DEF FillComplete
    <3>4. CASE n = own.k /\ IsPinned(Key(own.k))
      BY <3>4
    <3>5. n < own.k \/ n = own.k
      BY <2>2, <1>own
    <3>. QED BY <2>1, <3>2, <3>3, <3>4, <3>5
  <2>3. FillComplete'
    <3>1. \A n : Key(n)' = Key(n) /\ (IsPinned(Key(n)) => IsPinned(Key(n))')
      BY <2>1 DEF Key, IsPinned
    <3>2. \A b : HasPlace(own.slot, b) => HasPlace(own.slot, b)'
      BY <2>1 DEF HasPlace
    <3>. QED BY <2>1, <2>2, <3>1, <3>2 DEF FillComplete
  <2>. QED BY <1>1, <2>1, <2>3 DEF PlansComplete
<1>7. CASE PlanAllPinned
  <2>1. /\ own.layer \in Layers /\ own'.pc = "idle" /\ pinKeys' = pinKeys /\ span' = span
        /\ plans'[own.layer].ids = own.ids
        /\ \A l \in Layers \ {own.layer} : plans'[l] = plans[l]
    BY <1>7, PlanDoneEffect
  <2>2. \A n \in 1..Len(own.ids) : <<own.layer, own.ids[n]>> \in pinKeys
    BY <1>7 DEF PlanAllPinned, IsPinned, Key
  <2>3. ASSUME NEW l \in Layers, l = own.layer
        PROVE  PlanComplete(l)'
    BY <2>1, <2>2, <2>3 DEF PlanComplete, IsPinned
  <2>4. ASSUME NEW l \in Layers, l # own.layer, plans'[l] # None
        PROVE  PlanComplete(l)'
    BY <1>1, <2>1, <2>4
  <2>. QED BY <2>1, <2>3, <2>4 DEF PlansComplete
<1>8. CASE PlanTakeSlot
  <2>1. /\ Head(free) \in SlotSet
        /\ own'.k = 1 /\ own'.p = 1 /\ own'.ids = own.ids
        /\ \A l \in Layers : plans[l] # None => plans[l].slot # Head(free)
        /\ plans' = plans /\ pinKeys' = pinKeys
        /\ \A t \in SlotSet \ {Head(free)} : span'[t] = span[t]
    BY <1>8, TakeEffect
  <2>2. ASSUME NEW l \in Layers, plans'[l] # None
        PROVE  PlanComplete(l)'
    <3>1. plans[l].slot # Head(free)
      BY <2>1, <2>2
    <3>. QED BY <1>1, <2>1, <2>2, <3>1
  <2>3. \A n \in 1..Len(own.ids), p \in 1..NParts : ~(n < 1 \/ (n = 1 /\ p < 1))
    BY <1>own
  <2>4. FillComplete'
    BY <2>1, <2>3 DEF FillComplete
  <2>. QED BY <2>2, <2>4 DEF PlansComplete
<1>9. CASE FillSubmit
  <2>1. /\ plans' = plans /\ pinKeys' = pinKeys /\ own.slot \in SlotSet
        /\ \A t \in SlotSet \ {own.slot} : span'[t] = span[t]
        /\ FillPos = Len(span[own.slot]) + 1 /\ Len(span'[own.slot]) = FillPos
        /\ span'[own.slot][FillPos] = FillBlk
        /\ \A v \in 1..Len(span[own.slot]) : span'[own.slot][v] = span[own.slot][v]
        /\ own'.slot = own.slot /\ own'.layer = own.layer /\ own.pc = "fill"
        /\ own'.ids = own.ids /\ own'.k = own.k /\ own'.p = own.p + 1
    BY <1>9, FillEffect
  <2>2. Len(span[own.slot]) \in Nat
    BY <2>1 DEF TypeOK
  <2>3. ASSUME NEW l \in Layers, plans'[l] # None
        PROVE  PlanComplete(l)'
    <3>1. plans[l].slot # own.slot
      BY <2>1, <2>3 DEF SlotOwnership
    <3>. QED BY <1>1, <2>1, <2>3, <3>1
  <2>4. ASSUME NEW b, HasPlace(own.slot, b) \/ b = FillBlk
        PROVE  HasPlace(own.slot, b)'
    <3>1. \E u \in 1..Len(span'[own.slot]) : span'[own.slot][u] = b
      <4>1. CASE b = FillBlk
        BY <2>1, <2>2, <4>1
      <4>2. CASE HasPlace(own.slot, b)
        <5>1. PICK u \in 1..Len(span[own.slot]) : span[own.slot][u] = b
          BY <4>2 DEF HasPlace
        <5>2. u \in 1..Len(span'[own.slot]) /\ span'[own.slot][u] = b
          BY <2>1, <2>2, <5>1
        <5>. QED BY <5>2
      <4>. QED BY <2>4, <4>1, <4>2
    <3>. QED BY <2>1, <3>1 DEF HasPlace
  <2>5. ASSUME NEW n \in 1..Len(own.ids), NEW p \in 1..NParts,
               n < own.k \/ (n = own.k /\ p < own.p + 1)
        PROVE  (IsPinned(Key(n)) \/ HasPlace(own.slot, <<Key(n), p>>))'
    <3>1. Key(n)' = Key(n)
      BY <2>1 DEF Key
    <3>2. CASE n = own.k /\ p = own.p
      BY <2>4, <3>1, <3>2 DEF FillBlk
    <3>3. CASE n < own.k \/ (n = own.k /\ p < own.p)
      <4>1. IsPinned(Key(n)) \/ HasPlace(own.slot, <<Key(n), p>>)
        BY <2>1, <3>3 DEF PlansComplete, FillComplete
      <4>2. IsPinned(Key(n)) => IsPinned(Key(n))'
        BY <2>1, <3>1 DEF IsPinned
      <4>3. HasPlace(own.slot, <<Key(n), p>>) => HasPlace(own.slot, <<Key(n), p>>)'
        BY <2>4, <3>1
      <4>. QED BY <4>1, <4>2, <4>3
    <3>. QED BY <1>own, <2>5, <3>2, <3>3
  <2>6. FillComplete'
    BY <2>1, <2>5 DEF FillComplete
  <2>. QED BY <2>3, <2>6 DEF PlansComplete
<1>10. CASE PlanDone
  <2>1. /\ own.layer \in Layers /\ own'.pc = "idle" /\ pinKeys' = pinKeys /\ span' = span
        /\ plans'[own.layer].ids = own.ids /\ own.k > Len(own.ids)
        /\ plans'[own.layer].slot = own.slot
        /\ \A l \in Layers \ {own.layer} : plans'[l] = plans[l]
    BY <1>10, PlanDoneEffect DEF PlanDone
  <2>2. ASSUME NEW l \in Layers, l = own.layer
        PROVE  PlanComplete(l)'
    <3>1. ASSUME NEW n \in 1..Len(own.ids), NEW p \in 1..NParts
          PROVE  \/ <<l, own.ids[n]>> \in pinKeys
                 \/ HasPlace(own.slot, <<<<l, own.ids[n]>>, p>>)
      <4>1. n < own.k /\ own.pc = "fill"
        BY <1>10, <1>own, <2>1 DEF PlanDone
      <4>2. IsPinned(Key(n)) \/ HasPlace(own.slot, <<Key(n), p>>)
        BY <4>1 DEF PlansComplete, FillComplete
      <4>. QED BY <2>2, <4>2 DEF IsPinned, Key
    <3>2. \A b : HasPlace(own.slot, b) => HasPlace(plans[l].slot, b)'
      BY <2>1, <2>2 DEF HasPlace
    <3>. QED BY <2>1, <2>2, <3>1, <3>2 DEF PlanComplete, IsPinned
  <2>3. ASSUME NEW l \in Layers, l # own.layer, plans'[l] # None
        PROVE  PlanComplete(l)'
    BY <1>1, <2>1, <2>3
  <2>. QED BY <2>1, <2>2, <2>3 DEF PlansComplete
<1>11. CASE AcquireDrained
  <2>1. /\ \A l \in Layers : plans'[l] # None =>
             /\ plans[l] # None
             /\ plans'[l].slot = plans[l].slot /\ plans'[l].ids = plans[l].ids
        /\ own'.pc = "idle" /\ span' = span /\ pinKeys' = pinKeys
    BY <1>11, AcquireEffect
  <2>2. ASSUME NEW l \in Layers, plans'[l] # None
        PROVE  PlanComplete(l)'
    <3>1. PlanComplete(l)
      BY <2>1, <2>2 DEF PlansComplete
    <3>2. \A n \in 1..Len(plans[l].ids) :
            IsPinned(<<l, plans[l].ids[n]>>) => <<l, plans[l].ids[n]>> \in pinKeys'
      BY <2>1 DEF IsPinned
    <3>. QED BY <2>1, <2>2, <3>1, <3>2, PlanCompleteKept
  <2>. QED BY <2>1, <2>2 DEF PlansComplete
<1>12. CASE CloseAndReopen
  BY <1>12 DEF CloseAndReopen, PlansComplete, Idle
<1>13. ASSUME NEW l \in Layers, Release(l)
       PROVE  PlansComplete'
  <2>1. /\ plans'[l] = None /\ \A m \in Layers \ {l} : plans'[m] = plans[m]
        /\ pinKeys' = pinKeys /\ own'.pc # "fill"
    BY <1>13, ReleaseEffect
  <2>2. ASSUME NEW m \in Layers, plans'[m] # None
        PROVE  PlanComplete(m)'
    <3>1. m # l /\ plans'[m] = plans[m]
      BY <2>1, <2>2
    <3>2. plans[m].slot \in SlotSet => plans[m].slot # plans[l].slot
      BY <1>13, <2>2, <3>1, ReleaseEffect DEF SlotOwnership
    <3>3. plans[m].slot \in SlotSet => span'[plans[m].slot] = span[plans[m].slot]
      BY <1>13, <3>2, ReleaseEffect
    <3>. QED BY <1>1, <2>1, <2>2, <3>1, <3>3
  <2>. QED BY <2>1, <2>2 DEF PlansComplete
<1>14. CASE FillSubmitThrows
  <2>1. /\ plans' = plans /\ pinKeys' = pinKeys /\ own.pc = "fill" /\ own'.pc = "idle"
        /\ \A t \in SlotSet \ {own.slot} : span'[t] = span[t]
    BY <1>14, ThrowEffect
  <2>2. ASSUME NEW l \in Layers, plans'[l] # None
        PROVE  PlanComplete(l)'
    <3>1. plans[l].slot \in SlotSet => plans[l].slot # own.slot
      BY <2>1, <2>2 DEF SlotOwnership
    <3>. QED BY <1>1, <2>1, <2>2, <3>1
  <2>. QED BY <2>1, <2>2 DEF PlansComplete
<1>. QED BY <1>3, <1>4, <1>5, <1>6, <1>7, <1>8, <1>9, <1>10, <1>11, <1>12, <1>13, <1>14
         DEF Next, EngineStep, OwnerStep, SubmitThrows, OwnerCall

\* Until the prefetcher is closed pins only leave and parts only arrive.
LEMMA PinsShrink ==
  ASSUME TypeOK, OwnerPlace, Next, ~CloseAndReopen
  PROVE  /\ pinKeys' \subseteq pinKeys
         /\ \A b \in Blocks : pinStore'[b] = "absent" => pinStore[b] = "absent"
<1>1. CASE PinDemote
  BY <1>1 DEF PinDemote
<1>2. CASE PinDrained
  <2>1. pinKeys' = pinKeys
    BY <1>2 DEF PinDrained
  <2>2. \/ pinStore' = pinStore
        \/ \E b, v : v # "absent" /\ pinStore' = [pinStore EXCEPT ![b] = v]
    BY <1>2 DEF PinDrained
  <2>. QED BY <2>1, <2>2 DEF TypeOK
<1>3. CASE UNCHANGED <<pinKeys, pinStore>>
  BY <1>3
<1>4. PinDemote \/ PinDrained \/ UNCHANGED <<pinKeys, pinStore>>
  BY DEF Next, EngineStep, OwnerStep, SubmitThrows, OwnerCall, Settle, CallBack, PinSkip, PinFits,
         PinMissingInHeader, PinNextPart, PinSubmit, PinSubmitThrows, PlanAllPinned,
         PlanNoFreeSlot, PlanTakeSlot, FillAdvance, FillSubmit, FillSubmitThrows, FillThrow, PlanDone, AcquireDrained,
         PlanBegin, AcquireBegin, Release, CloseBegin
<1>. QED BY <1>1, <1>2, <1>3, <1>4

\* What was whole stays whole.
LEMMA PinWholeKept ==
  ASSUME NEW key \in Keys, PinWhole(key), pinKeys' \subseteq pinKeys,
         \A b \in Blocks : pinStore'[b] = "absent" => pinStore[b] = "absent"
  PROVE  PinWhole(key)'
<1>1. \A p \in 1..NParts : <<key, p>> \in Blocks
  BY DEF Blocks
<1>. QED BY <1>1 DEF PinWhole, IsPinned, Missing

\* Only the end of a planning call makes a plan.
LEMMA NewPlans ==
  ASSUME TypeOK, OwnerPlace, SlotOwnership, Next, ~CloseAndReopen,
         NEW l \in Layers, plans'[l] # None
  PROVE  \/ plans[l] # None /\ plans'[l].ids = plans[l].ids
         \/ (PlanDone \/ PlanAllPinned) /\ l = own.layer
<1>1. CASE QuietStep
  BY <1>1, QuietSteps DEF SlotsQuiet
<1>2. CASE PlanDone \/ PlanAllPinned
  BY <1>2, PlanDoneEffect
<1>3. CASE PlanTakeSlot
  BY <1>3, TakeEffect
<1>4. CASE FillSubmit
  BY <1>4, FillEffect
<1>5. CASE AcquireDrained
  BY <1>5, AcquireEffect
<1>6. ASSUME NEW m \in Layers, Release(m)
      PROVE  plans[l] # None /\ plans'[l].ids = plans[l].ids
  BY <1>6, ReleaseEffect
<1>7. CASE FillSubmitThrows
  BY <1>7, ThrowEffect
<1>. QED BY <1>1, <1>2, <1>3, <1>4, <1>5, <1>6, <1>7, LoudSteps

\* The pinned experts that plans count on are whole.
LEMMA PinnedWholeStep ==
  ASSUME TypeOK, OwnerPlace, SlotOwnership, PinnedWhole, Next
  PROVE  PinnedWhole'
<1>. USE PrefetcherAssumption
<1>. DEFINE Planning == own.pc \in {"pins", "pinload", "pinwait", "fill"}
            Loading == own.pc \in {"pinload", "pinwait"}
            PartsLoaded == \A p \in 1..NParts : p < own.p => p \notin Missing(Key(own.k))
<1>own. /\ own \in Owner /\ own.ids \in Seq(Experts) /\ Len(own.ids) \in Nat
        /\ own.k \in Nat /\ own.p \in Nat
  BY DEF TypeOK, Owner
<1>plan. \A l \in Layers : plans[l] # None => plans[l] \in PlanRec
  BY DEF TypeOK
<1>close. CASE CloseAndReopen
  BY <1>close DEF CloseAndReopen, PinnedWhole, Idle
<1>. SUFFICES ASSUME ~CloseAndReopen
              PROVE  PinnedWhole'
  BY <1>close
<1>kept. \A key \in Keys : PinWhole(key) => PinWhole(key)'
  BY PinsShrink, PinWholeKept
<1>key. ASSUME NEW n \in 1..Len(own.ids), Planning
        PROVE  Key(n) \in Keys
  BY <1>key, KeyType
\* The plans.
<1>1. ASSUME NEW l \in Layers, plans'[l] # None,
             NEW n \in 1..Len(plans'[l].ids)
      PROVE  PinWhole(<<l, plans[l].ids[n]>>)'
  <2>1. CASE plans[l] # None /\ plans'[l].ids = plans[l].ids
    <3>1. plans[l].ids \in Seq(Experts)
      BY <2>1, <1>plan DEF PlanRec
    <3>2. <<l, plans[l].ids[n]>> \in Keys /\ PinWhole(<<l, plans[l].ids[n]>>)
      BY <1>1, <2>1, <3>1 DEF Keys, PinnedWhole
    <3>3. PICK key \in Keys : key = <<l, plans[l].ids[n]>>
      BY <3>2
    <3>4. PinWhole(key)' /\ key = <<l, plans'[l].ids[n]>>
      BY <1>kept, <2>1, <3>2, <3>3
    <3>. QED BY <3>4 DEF PinWhole, IsPinned, Missing
  <2>2. CASE (PlanDone \/ PlanAllPinned) /\ l = own.layer
    <3>1. plans'[l].ids = own.ids /\ own.k > Len(own.ids)
      BY <2>2, PlanDoneEffect
    <3>2. own.pc \in {"pins", "fill"}
      BY <2>2 DEF PlanDone, PlanAllPinned
    <3>3. n \in 1..Len(own.ids) /\ n < own.k
      BY <1>1, <1>own, <3>1
    <3>4. PinWhole(Key(n)) /\ Key(n) \in Keys
      BY <1>key, <3>2, <3>3 DEF PinnedWhole
    <3>5. PICK key \in Keys : key = Key(n)
      BY <3>4
    <3>6. PinWhole(key)' /\ key = <<l, plans'[l].ids[n]>>
      BY <1>kept, <2>2, <3>1, <3>4, <3>5 DEF Key
    <3>. QED BY <3>6 DEF PinWhole, IsPinned, Missing
  <2>. QED BY <1>1, <2>1, <2>2, NewPlans
\* The ids that the pin loop has passed and goes on having passed.
<1>2. ASSUME NEW n \in 1..Len(own.ids), Planning, n < own.k \/ own.pc = "fill",
             own'.layer = own.layer, own'.ids = own.ids
      PROVE  PinWhole(Key(n))'
  <2>1. PinWhole(Key(n)) /\ Key(n) \in Keys
    BY <1>2, <1>key DEF PinnedWhole
  <2>2. PICK key \in Keys : key = Key(n)
    BY <2>1
  <2>3. PinWhole(key)' /\ key = Key(n)'
    BY <1>2, <1>kept, <2>1, <2>2 DEF Key
  <2>. QED BY <2>3 DEF PinWhole, IsPinned, Missing
\* Steps that leave the pin loop where it was, or end the call.
<1>3. ASSUME own'.pc \notin {"pins", "pinload", "pinwait", "fill"}
      PROVE  PinnedWhole'
  BY <1>1, <1>3 DEF PinnedWhole
<1>4. ASSUME Planning, own'.layer = own.layer, own'.ids = own.ids, own'.k = own.k,
             own'.pc = "fill" => own.pc = "fill",
             own'.pc \in {"pinload", "pinwait"} => PartsLoaded'
      PROVE  PinnedWhole'
  BY <1>1, <1>2, <1>4 DEF PinnedWhole
<1>5. ASSUME NEW i \in 1..MaxReads, Settle(i) \/ CallBack(i)
      PROVE  PinnedWhole'
  <2>1. /\ own'.pc = own.pc /\ own'.layer = own.layer /\ own'.ids = own.ids
        /\ own'.k = own.k /\ own'.p = own.p /\ pinStore' = pinStore
    BY <1>5, EngineKeepsOwner
  <2>2. PartsLoaded => PartsLoaded'
    BY <2>1 DEF Missing, Key
  <2>3. Loading => PartsLoaded
    BY DEF PinnedWhole
  <2>. QED BY <1>3, <1>4, <2>1, <2>2, <2>3
<1>6. CASE PinSkip \/ PinDemote
  <2>1. /\ own.pc = "pins" /\ own'.pc = "pins" /\ own'.layer = own.layer
        /\ own'.ids = own.ids /\ own'.k = own.k + 1
        /\ own.k <= Len(own.ids) /\ own.k \in 1..Len(own.ids)
    BY <1>6, <1>own DEF PinSkip, PinDemote, OwnerPlace, Owner
  <2>2. Key(own.k) \notin pinKeys'
    BY <1>6 DEF PinSkip, PinDemote, IsPinned
  <2>3. ASSUME NEW n \in 1..Len(own.ids), n < own.k + 1
        PROVE  PinWhole(Key(n))'
    <3>1. CASE n < own.k
      BY <1>2, <2>1, <3>1
    <3>2. CASE n = own.k
      BY <2>1, <2>2, <3>2 DEF PinWhole, IsPinned, Key
    <3>. QED BY <1>own, <2>3, <3>1, <3>2
  <2>. QED BY <1>1, <2>1, <2>3 DEF PinnedWhole
<1>7. CASE PinFits
  <2>1. /\ own.pc = "pins" /\ own'.layer = own.layer /\ own'.pc = "pinload"
        /\ own'.ids = own.ids /\ own'.k = own.k /\ own'.p = 1
    BY <1>7, <1>own DEF PinFits, Owner
  <2>2. \A p \in 1..NParts : ~(p < 1)
    OBVIOUS
  <2>. QED BY <1>4, <2>1, <2>2
<1>8. CASE PinNextPart
  <2>1. Loading /\ own.k \in 1..Len(own.ids) /\ PartsLoaded
    BY <1>8, <1>own DEF PinNextPart, OwnerPlace, PinnedWhole
  <2>2. CASE own.p > NParts
    <3>1. /\ own'.pc = "pins" /\ own'.layer = own.layer /\ own'.ids = own.ids
          /\ own'.k = own.k + 1 /\ pinStore' = pinStore
      BY <1>8, <2>2, <1>own DEF PinNextPart, Owner
    <3>2. Missing(Key(own.k)) = {}
      <4>1. \A p \in 1..NParts : p < own.p
        BY <1>own, <2>2
      <4>2. \A p \in 1..NParts : p \notin Missing(Key(own.k))
        BY <2>1, <4>1
      <4>. QED BY <4>2 DEF Missing
    <3>3. ASSUME NEW n \in 1..Len(own.ids), n < own.k + 1
          PROVE  PinWhole(Key(n))'
      <4>1. CASE n < own.k
        BY <1>2, <2>1, <3>1, <4>1
      <4>2. CASE n = own.k
        BY <3>1, <3>2, <4>2 DEF PinWhole, Missing, Key
      <4>. QED BY <1>own, <3>3, <4>1, <4>2
    <3>. QED BY <1>1, <3>1, <3>3 DEF PinnedWhole
  <2>3. CASE ~(own.p > NParts)
    <3>1. /\ own'.pc = "pinload" /\ own'.layer = own.layer /\ own'.ids = own.ids
          /\ own'.k = own.k /\ own'.p = own.p + 1 /\ pinStore' = pinStore
          /\ own.p \notin Missing(Key(own.k))
      BY <1>8, <2>3, <1>own DEF PinNextPart, Owner
    <3>2. \A p \in 1..NParts : p < own.p + 1 => p < own.p \/ p = own.p
      BY <1>own
    <3>3. \A p \in 1..NParts : p < own.p + 1 => p \notin Missing(Key(own.k))
      BY <2>1, <3>1, <3>2
    <3>4. Missing(Key(own.k))' = Missing(Key(own.k))
      BY <3>1 DEF Missing, Key
    <3>. QED BY <1>4, <2>1, <3>1, <3>3, <3>4
  <2>. QED BY <2>2, <2>3
<1>9. CASE PinSubmit
  <2>1. /\ own.pc = "pinload" /\ own'.pc = "pinwait" /\ own'.layer = own.layer
        /\ own'.ids = own.ids /\ own'.k = own.k /\ own'.p = own.p /\ pinStore' = pinStore
    BY <1>9, <1>own DEF PinSubmit, Owner
  <2>2. Missing(Key(own.k))' = Missing(Key(own.k))
    BY <2>1 DEF Missing, Key
  <2>3. PartsLoaded
    BY <2>1 DEF PinnedWhole
  <2>. QED BY <1>4, <2>1, <2>2, <2>3
<1>10. CASE PinDrained
  <2>1. CASE own.ec
    BY <1>3, <1>10, <2>1 DEF PinDrained, Throw, Idle
  <2>2. CASE ~own.ec
    <3>1. /\ own.pc = "pinwait" /\ own'.pc = "pinload" /\ own'.layer = own.layer
          /\ own'.ids = own.ids /\ own'.k = own.k /\ own'.p = own.p + 1
      BY <1>10, <2>2, <1>own DEF PinDrained, Owner
    <3>2. PICK v : v # "absent" /\ pinStore' = [pinStore EXCEPT ![<<Key(own.k), own.p>>] = v]
      BY <1>10, <2>2 DEF PinDrained
    <3>3. Key(own.k) \in Keys /\ own.p \in 1..NParts
      BY <1>own, <1>key, <3>1 DEF OwnerPlace, Missing
    <3>4. \A p \in 1..NParts : <<Key(own.k), p>> \in Blocks
      BY <3>3 DEF Blocks
    <3>5. \A p \in 1..NParts : p = own.p \/ pinStore[<<Key(own.k), p>>] # "absent" =>
            pinStore'[<<Key(own.k), p>>] # "absent"
      BY <3>2, <3>4 DEF TypeOK
    <3>6. PartsLoaded
      BY <3>1 DEF PinnedWhole
    <3>7. \A p \in 1..NParts : p < own.p + 1 => p < own.p \/ p = own.p
      BY <1>own
    <3>8. \A p \in 1..NParts : p < own.p + 1 => pinStore'[<<Key(own.k), p>>] # "absent"
      BY <3>5, <3>6, <3>7 DEF Missing
    <3>9. PartsLoaded'
      BY <3>1, <3>8 DEF Missing, Key
    <3>. QED BY <1>4, <3>1, <3>9
  <2>. QED BY <2>1, <2>2
<1>11. CASE \/ PinMissingInHeader \/ PinSubmitThrows \/ PlanNoFreeSlot \/ FillThrow
            \/ FillSubmitThrows \/ PlanAllPinned \/ PlanDone \/ AcquireDrained \/ CloseBegin
            \/ \E l \in Layers : AcquireBegin(l)
  <2>1. own' = Idle \/ own'.pc = "close" \/ own'.pc = "acquire"
    BY <1>11 DEF PinMissingInHeader, PinSubmitThrows, PlanNoFreeSlot, FillThrow,
                 FillSubmitThrows, PlanAllPinned, PlanDone, AcquireDrained, CloseBegin, AcquireBegin, Throw, Idle
  <2>2. Idle.pc = "idle"
    BY DEF Idle
  <2>. QED BY <1>3, <2>1, <2>2
<1>12. CASE PlanTakeSlot
  <2>1. /\ own.pc = "pins" /\ own'.pc = "fill" /\ own'.layer = own.layer
        /\ own'.ids = own.ids /\ own.k > Len(own.ids)
    BY <1>12, TakeEffect
  <2>2. \A n \in 1..Len(own.ids) : n < own.k
    BY <1>own, <2>1
  <2>3. \A n \in 1..Len(own.ids) : PinWhole(Key(n))'
    BY <1>2, <2>1, <2>2
  <2>. QED BY <1>1, <2>1, <2>3 DEF PinnedWhole
<1>13. CASE FillAdvance \/ FillSubmit
  <2>1. /\ own.pc = "fill" /\ own'.pc = "fill" /\ own'.layer = own.layer
        /\ own'.ids = own.ids
    BY <1>13, <1>own, FillEffect DEF FillAdvance, Owner
  <2>2. \A n \in 1..Len(own.ids) : PinWhole(Key(n))'
    BY <1>2, <2>1
  <2>. QED BY <1>1, <2>1, <2>2 DEF PinnedWhole
<1>14. ASSUME NEW l \in Layers, NEW ids \in Requests, PlanBegin(l, ids)
       PROVE  PinnedWhole'
  <2>1. own'.pc = "pins" /\ own'.k = 1
    BY <1>14 DEF PlanBegin, Idle
  <2>2. \A n \in 1..Len(own'.ids) : ~(n < 1)
    <3>1. \A m : \A n \in 1..m : ~(n < 1)
      OBVIOUS
    <3>. QED BY <3>1
  <2>. QED BY <1>1, <2>1, <2>2 DEF PinnedWhole
<1>15. ASSUME NEW l \in Layers, Release(l)
       PROVE  PinnedWhole'
  BY <1>3, <1>15, ReleaseEffect
<1>. QED BY <1>5, <1>6, <1>7, <1>8, <1>9, <1>10, <1>11, <1>12, <1>13, <1>14, <1>15
         DEF Next, EngineStep, OwnerStep, SubmitThrows, OwnerCall

\* What is pinned stays within the budget.
LEMMA InBudgetStep ==
  ASSUME TypeOK, OwnerPlace, InBudget, Next
  PROVE  InBudget'
<1>. USE PrefetcherAssumption
<1>. DEFINE Loading == own.pc \in {"pinload", "pinwait"}
            ToCome == Cardinality(Missing(Key(own.k)))
<1>own. own \in Owner
  BY DEF TypeOK
<1>bytes. PinBytes = Cardinality(Stored) /\ IsFiniteSet(Stored) /\ PinBytes \in Nat
  <2>1. PinBytes = Cardinality(Stored) /\ IsFiniteSet(Stored)
    BY DEF PinBytes, Stored, InBudget
  <2>. QED BY <2>1, FS_CardinalityType
<1>1. pinStore' = pinStore => /\ Stored' = Stored /\ PinBytes' = PinBytes
                              /\ \A key : Missing(key)' = Missing(key)
  BY DEF Stored, PinBytes, Missing
<1>2. ASSUME pinStore' = pinStore, own'.pc \notin {"pinload", "pinwait"}
      PROVE  InBudget'
  BY <1>1, <1>2 DEF InBudget
<1>3. ASSUME pinStore' = pinStore, Loading, own'.layer = own.layer, own'.ids = own.ids,
             own'.k = own.k
      PROVE  InBudget'
  <2>1. Key(own.k)' = Key(own.k)
    BY <1>3 DEF Key
  <2>2. ToCome' = ToCome
    BY <1>1, <1>3, <2>1
  <2>. QED BY <1>1, <1>3, <2>2 DEF InBudget
<1>4. ASSUME NEW i \in 1..MaxReads, Settle(i) \/ CallBack(i)
      PROVE  InBudget'
  BY <1>2, <1>3, <1>4, EngineKeepsOwner
<1>5. CASE PinFits
  <2>1. /\ own.pc = "pins" /\ own'.layer = own.layer /\ own'.ids = own.ids
        /\ own'.k = own.k /\ pinStore' = pinStore
        /\ PinBudget = 0 \/ PinBytes + ToCome <= PinBudget
    BY <1>5, <1>own DEF PinFits, Owner
  <2>2. Key(own.k)' = Key(own.k)
    BY <2>1 DEF Key
  <2>3. ToCome' = ToCome
    BY <1>1, <2>1, <2>2
  <2>. QED BY <1>1, <2>1, <2>3 DEF InBudget
<1>6. CASE PinNextPart \/ PinSubmit
  <2>1. /\ Loading /\ own'.layer = own.layer /\ own'.ids = own.ids /\ pinStore' = pinStore
        /\ own'.k = own.k \/ own'.pc = "pins"
    <3>1. CASE PinNextPart
      BY <3>1, <1>own DEF PinNextPart, Owner
    <3>2. CASE PinSubmit
      BY <3>2, <1>own DEF PinSubmit, Owner
    <3>. QED BY <1>6, <3>1, <3>2
  <2>. QED BY <1>2, <1>3, <2>1
<1>7. CASE PinDrained
  <2>1. CASE own.ec
    BY <1>2, <1>7, <2>1 DEF PinDrained, Throw, Idle
  <2>2. CASE ~own.ec
    <3>. DEFINE b == <<Key(own.k), own.p>>
    <3>1. /\ own.pc = "pinwait" /\ own'.layer = own.layer /\ own'.ids = own.ids
          /\ own'.k = own.k
      BY <1>7, <2>2, <1>own DEF PinDrained, Owner
    <3>2. PICK v : v # "absent" /\ pinStore' = [pinStore EXCEPT ![b] = v]
      BY <1>7, <2>2 DEF PinDrained
    <3>3. Key(own.k) \in Keys /\ own.p \in Missing(Key(own.k))
      <4>1. own.p \in Missing(Key(own.k)) /\ own.k \in 1..Len(own.ids)
        BY <3>1, <1>own DEF OwnerPlace, Owner
      <4>. QED BY <3>1, <4>1, KeyType
    <3>4. b \in Blocks /\ pinStore[b] = "absent"
      BY <3>3 DEF Blocks, Missing
    <3>5. Stored' = Stored \cup {b} /\ b \notin Stored
      <4>. HIDE DEF b
      <4>. QED BY <3>2, <3>4 DEF TypeOK, Stored
    <3>6. Missing(Key(own.k))' = Missing(Key(own.k)) \ {own.p}
      <4>1. Key(own.k)' = Key(own.k)
        BY <3>1 DEF Key
      <4>2. \A p \in 1..NParts : <<Key(own.k), p>> \in Blocks
        BY <3>3 DEF Blocks
      <4>3. \A p \in 1..NParts : pinStore'[<<Key(own.k), p>>] = "absent" <=>
              pinStore[<<Key(own.k), p>>] = "absent" /\ p # own.p
        BY <3>2, <3>4, <4>2 DEF TypeOK
      <4>. QED BY <4>1, <4>3 DEF Missing
    <3>7. IsFiniteSet(Missing(Key(own.k)))
      <4>1. IsFiniteSet(1..NParts)
        <5>1. NParts \in Int /\ 1 \in Int
          OBVIOUS
        <5>. QED BY <5>1, FS_Interval
      <4>2. Missing(Key(own.k)) \subseteq 1..NParts
        BY DEF Missing
      <4>. QED BY <4>1, <4>2, FS_Subset
    <3>8. ToCome \in Nat /\ ToCome' = ToCome - 1 /\ ToCome >= 1
      <4>1. ASSUME NEW A, IsFiniteSet(A), NEW x \in A
            PROVE  /\ Cardinality(A) \in Nat
                   /\ Cardinality(A \ {x}) = Cardinality(A) - 1
                   /\ Cardinality(A \ {x}) \in Nat
        <5>1. Cardinality(A) \in Nat /\ Cardinality(A \ {x}) = Cardinality(A) - 1
          BY <4>1, FS_CardinalityType, FS_RemoveElement
        <5>2. IsFiniteSet(A \ {x})
          BY <4>1, FS_Subset
        <5>. QED BY <5>1, <5>2, FS_CardinalityType
      <4>2. ToCome' = Cardinality(Missing(Key(own.k)) \ {own.p})
        BY <3>6
      <4>. QED BY <3>3, <3>7, <4>1, <4>2
    <3>9. PinBytes' = PinBytes + 1 /\ IsFiniteSet(Stored')
      <4>1. Cardinality(Stored \cup {b}) = Cardinality(Stored) + 1
            /\ IsFiniteSet(Stored \cup {b})
        BY <1>bytes, <3>5, FS_AddElement
      <4>2. PinBytes' = Cardinality(Stored')
        BY DEF PinBytes, Stored
      <4>. QED BY <1>bytes, <3>5, <4>1, <4>2
    <3>10. PinBudget # 0 => PinBytes + ToCome <= PinBudget
      BY <3>1 DEF InBudget
    <3>11. PinBudget # 0 => /\ PinBytes' <= PinBudget
                            /\ PinBytes' + ToCome' <= PinBudget
      <4>. HIDE DEF ToCome
      <4>. QED BY <1>bytes, <3>8, <3>9, <3>10
    <3>. QED BY <3>9, <3>11 DEF InBudget
  <2>. QED BY <2>1, <2>2
<1>8. CASE CloseAndReopen
  <2>1. Stored' = {} /\ PinBytes' = Cardinality(Stored')
    BY <1>8 DEF CloseAndReopen, Stored, PinBytes
  <2>2. IsFiniteSet(Stored') /\ PinBytes' = 0
    BY <2>1, FS_EmptySet
  <2>. QED BY <1>8, <2>2 DEF InBudget, CloseAndReopen, Idle
<1>9. CASE QuietStep /\ ~PinDrained /\ ~PinFits /\ ~PinNextPart /\ ~PinSubmit
  <2>1. CASE PinSkip \/ PinDemote
    <3>1. own'.pc = "pins" /\ pinStore' = pinStore
      BY <2>1, <1>own DEF PinSkip, PinDemote, Owner
    <3>. QED BY <1>2, <3>1
  <2>2. CASE FillAdvance
    <3>1. own'.pc = "fill" /\ pinStore' = pinStore
      BY <2>2, <1>own DEF FillAdvance, Owner
    <3>. QED BY <1>2, <3>1
  <2>3. CASE \/ PinMissingInHeader \/ PinSubmitThrows \/ PlanNoFreeSlot \/ FillThrow \/ CloseBegin
             \/ \E l \in Layers : (\E ids \in Requests : PlanBegin(l, ids)) \/ AcquireBegin(l)
    <3>1. own' = Idle \/ own'.pc \in {"close", "pins", "acquire"}
      BY <2>3 DEF PinMissingInHeader, PinSubmitThrows, PlanNoFreeSlot, FillThrow, CloseBegin,
                  PlanBegin, AcquireBegin, Throw, Idle
    <3>2. pinStore' = pinStore
      BY <2>3 DEF PinMissingInHeader, PinSubmitThrows, PlanNoFreeSlot, FillThrow, CloseBegin,
                  PlanBegin, AcquireBegin
    <3>3. Idle.pc = "idle"
      BY DEF Idle
    <3>. QED BY <1>2, <3>1, <3>2, <3>3
  <2>. QED BY <1>4, <1>9, <2>1, <2>2, <2>3 DEF QuietStep
<1>10. CASE PlanAllPinned \/ PlanDone
  BY <1>2, <1>10, PlanDoneEffect
<1>11. CASE AcquireDrained
  BY <1>2, <1>11, AcquireEffect
<1>12. CASE FillSubmit
  BY <1>2, <1>12, FillEffect
<1>13. CASE PlanTakeSlot
  <2>1. own'.pc = "fill" /\ pinStore' = pinStore
    BY <1>13, <1>own DEF PlanTakeSlot, Owner
  <2>. QED BY <1>2, <2>1
<1>14. ASSUME NEW l \in Layers, Release(l)
       PROVE  InBudget'
  BY <1>2, <1>14, ReleaseEffect
<1>15. CASE FillSubmitThrows
  BY <1>2, <1>15, ThrowEffect
<1>. QED BY <1>5, <1>6, <1>7, <1>8, <1>9, <1>10, <1>11, <1>12, <1>13, <1>14, <1>15, LoudSteps

---------------------------------------------------------------------------
(* The theorems. *)

\* A new prefetcher: every slot queued, nothing planned, pinned or read.
LEMMA InvariantInit ==
  ASSUME Init
  PROVE  IInv
<1>. USE PrefetcherAssumption DEF Init
<1>idle. Idle \in Owner /\ Idle.pc = "idle"
  BY DEF Idle, Owner
<1>1. TypeOK
  <2>1. span \in [SlotSet -> Seq(Blocks)]
    <3>1. \A S : <<>> \in Seq(S)
      OBVIOUS
    <3>. QED BY <3>1
  <2>2. mem \in [SlotSet -> [1..SlotCap -> Cell \cup {None}]]
    OBVIOUS
  <2>. QED BY <1>idle, <2>1, <2>2 DEF TypeOK
<1>2. OwnerPlace
  BY <1>idle DEF OwnerPlace
<1>3. SlotOwnership
  BY <1>idle DEF SlotOwnership
<1>4. SpansOfOwner
  BY <1>idle DEF SpansOfOwner
<1>5. ReadsInPlace
  BY DEF ReadsInPlace, InFlight
<1>6. Covered
  BY DEF Covered
<1>7. PlansComplete /\ PinnedWhole
  BY <1>idle DEF PlansComplete, PinnedWhole
<1>8. InBudget
  <2>1. Stored = {} /\ PinBytes = Cardinality(Stored)
    BY DEF Stored, PinBytes
  <2>2. IsFiniteSet(Stored) /\ PinBytes = 0
    BY <2>1, FS_EmptySet
  <2>. QED BY <1>idle, <2>2 DEF InBudget
<1>. QED BY <1>1, <1>2, <1>3, <1>4, <1>5, <1>6, <1>7, <1>8 DEF IInv

\* The prefetcher's own invariant is kept by whatever its steps are.
LEMMA IInvStep ==
  ASSUME IInv, [Next]_vars
  PROVE  IInv'
<1>1. ASSUME Next
      PROVE  IInv'
  BY <1>1, TypeStep, OwnerPlaceStep, SlotOwnershipStep, SpansOfOwnerStep, ReadsInPlaceStep,
     CoveredStep, PlansCompleteStep, PinnedWholeStep, InBudgetStep DEF IInv
<1>2. ASSUME UNCHANGED vars
      PROVE  IInv'
  <2>1. /\ TypeOK' = TypeOK /\ OwnerPlace' = OwnerPlace /\ SlotOwnership' = SlotOwnership
        /\ SpansOfOwner' = SpansOfOwner
    BY <1>2 DEF vars, TypeOK, OwnerPlace, SlotOwnership, SpansOfOwner, Missing, Key
  <2>2. /\ ReadsInPlace' = ReadsInPlace /\ Covered' = Covered
    BY <1>2 DEF vars, ReadsInPlace, Covered, Circulating, InFlight, Written
  <2>3. PlansComplete' = PlansComplete
    BY <1>2 DEF vars, PlansComplete, PlanComplete, FillComplete, HasPlace, IsPinned, Key
  <2>4. PinnedWhole' = PinnedWhole
    BY <1>2 DEF vars, PinnedWhole, PinWhole, IsPinned, Missing, Key
  <2>5. InBudget' = InBudget
    BY <1>2 DEF vars, InBudget, Stored, PinBytes, Missing, Key
  <2>. QED BY <1>2, <2>1, <2>2, <2>3, <2>4, <2>5 DEF IInv
<1>. QED BY <1>1, <1>2

\* The inductive invariant: where every slot, block and pin is whenever a thread
\* can look (prefetch_pipeline.cpp:56-223).
THEOREM PrefetcherInvariant == Spec => []IInv
<1>1. Init => IInv
  BY InvariantInit
<1>2. IInv /\ [Next]_vars => IInv'
  BY IInvStep
<1>. QED BY <1>1, <1>2, PTL DEF Spec

\* A slot has one owner at most: queued once, or of one plan, or being filled
\* (prefetch_pipeline.cpp:141-162, 212-223).
THEOREM SlotsHaveOneOwner == Spec => []SlotOwnership
<1>1. IInv => SlotOwnership
  BY DEF IInv
<1>. QED BY <1>1, PrefetcherInvariant, PTL

\* No read in flight writes into a slot that is queued, or of another layer, or
\* handed to the computation, or elsewhere than where its block is packed
\* (prefetch_pipeline.cpp:155-157).
THEOREM ReadsStayHome == Spec => []NoReadIntoForeignSlot
<1>1. IInv => NoReadIntoForeignSlot
  <2>. SUFFICES ASSUME IInv, NEW i \in 1..MaxReads,
                       reads[i] # None, reads[i].st = "pending", reads[i].slot # None
                PROVE  /\ \A k \in 1..Len(free) : free[k] # reads[i].slot
                       /\ \A l \in Layers : plans[l] # None /\ plans[l].slot = reads[i].slot =>
                            /\ reads[i].blk[1][1] = l
                            /\ ~plans[l].acquired
                            /\ span[reads[i].slot][reads[i].pos] = reads[i].blk
    BY DEF NoReadIntoForeignSlot
  <2>1. /\ reads[i].pos \in 1..Len(span[reads[i].slot])
        /\ span[reads[i].slot][reads[i].pos] = reads[i].blk
        /\ \A k \in 1..Len(free) : free[k] # reads[i].slot
        /\ \A l \in Layers : plans[l] # None /\ plans[l].slot = reads[i].slot =>
             ~plans[l].acquired
    BY DEF IInv, ReadsInPlace, InFlight
  <2>2. \A l \in Layers : plans[l] # None /\ plans[l].slot = reads[i].slot =>
          span[reads[i].slot][reads[i].pos][1][1] = l
    BY <2>1 DEF IInv, SpansOfOwner
  <2>. QED BY <2>1, <2>2
<1>. QED BY <1>1, PrefetcherInvariant, PTL

\* What acquire() hands out are the blocks of the layer's experts, each in
\* pin_store_ or in the slot as its own read left it
\* (prefetch_pipeline.cpp:188-208).
THEOREM AcquiredAreTheirs == Spec => []AcquiredBlocksAreTheirs
<1>1. IInv => AcquiredBlocksAreTheirs
  <2>. USE PrefetcherAssumption
  <2>. SUFFICES ASSUME IInv, NEW l \in Layers, plans[l] # None, plans[l].acquired,
                       NEW n \in 1..Len(plans[l].ids), NEW p \in 1..NParts
                PROVE  LET blk == <<<<l, plans[l].ids[n]>>, p>>
                           s == plans[l].slot
                       IN  IF IsPinned(blk[1])
                             THEN pinStore[blk] # "absent"
                             ELSE /\ s # None
                                  /\ \E u \in 1..Len(span[s]) :
                                       span[s][u] = blk /\ mem[s][u] # None /\ mem[s][u].blk = blk
    BY DEF AcquiredBlocksAreTheirs
  <2>. DEFINE blk == <<<<l, plans[l].ids[n]>>, p>>
  <2>0. blk[1] = <<l, plans[l].ids[n]>>
    OBVIOUS
  <2>1. CASE IsPinned(blk[1])
    <3>1. Missing(blk[1]) = {}
      BY <2>0, <2>1 DEF IInv, PinnedWhole, PinWhole
    <3>2. blk = <<blk[1], p>>
      BY <2>0
    <3>. QED BY <2>1, <3>1, <3>2 DEF Missing
  <2>2. CASE ~IsPinned(blk[1])
    <3>1. HasPlace(plans[l].slot, blk)
      BY <2>0, <2>2 DEF IInv, PlansComplete, PlanComplete
    <3>2. PICK u \in 1..Len(span[plans[l].slot]) : span[plans[l].slot][u] = blk
      BY <3>1 DEF HasPlace
    <3>3. plans[l].slot \in SlotSet /\ plans[l].slot # None
      BY <3>1 DEF HasPlace
    <3>4. ~\E i \in 1..MaxReads : InFlight(i) /\ reads[i].slot = plans[l].slot
      BY DEF IInv, ReadsInPlace
    <3>5. Circulating(plans[l].slot)
      BY <3>3 DEF Circulating
    <3>6. Written(plans[l].slot, u)
      BY <3>2, <3>3, <3>4, <3>5 DEF IInv, Covered
    <3>. QED BY <2>2, <3>2, <3>3, <3>6 DEF Written
  <2>. QED BY <2>1, <2>2
<1>. QED BY <1>1, PrefetcherInvariant, PTL

\* A pinned expert that a plan counts on is pinned whole, and pins keep the
\* budget (prefetch_pipeline.cpp:72-85).
THEOREM PinsWholeInBudget == Spec => []PinnedWholeInBudget
<1>1. IInv => PinnedWholeInBudget
  BY DEF IInv, PinnedWhole, PinWhole, InBudget, PinnedWholeInBudget
<1>. QED BY <1>1, PrefetcherInvariant, PTL

\* A slot leaves circulation only with a call that throws while it fills the slot, and
\* what is lost comes back only with close() (prefetch_pipeline.cpp:42, 141-167, 212-223).
THEOREM SlotsAreLostByThrows == Spec => SlotsLostOnlyByThrow
<1>1. IInv /\ [Next]_vars =>
        [\A s \in SlotSet :
           /\ Circulating(s) /\ ~Circulating(s)' =>
                own.pc = "fill" /\ own.slot = s /\ own' = Idle /\ plans' = plans
           /\ ~Circulating(s) /\ Circulating(s)' => own.pc = "close"]_vars
  BY CirculatingStep DEF IInv
<1>. QED BY <1>1, PrefetcherInvariant, PTL DEF Spec, SlotsLostOnlyByThrow

---------------------------------------------------------------------------
(* The decode step that drives the prefetcher (MoeDecode). *)

\* A forward pass and its layers.
DriverRec == [pc : {"layer", "plan", "planNext", "acquire", "use", "release"},
              layer : Layers, ids : Requests \cup {<<>>}, last : Requests \cup {<<>>}]

\* The layer in hand is a MoE layer once it has been routed; what it uses and
\* releases has a plan, and it releases only what acquire() gave it.
DriverPlace ==
  /\ drv \in DriverRec
  /\ drv.pc # "layer" => drv.layer \notin Dense /\ drv.ids \in Requests
  /\ drv.pc \in {"use", "release"} => plans[drv.layer] # None
  /\ drv.pc = "release" => plans[drv.layer].acquired

\* The call of the prefetcher that the pass waits in.
CallOfDriver ==
  /\ own.pc # "close"
  /\ own.pc = "acquire" => drv.pc = "use"
  /\ own.pc \in {"pins", "pinload", "pinwait", "fill"} =>
       /\ own.ids = Dedup(drv.ids)
       /\ \/ drv.pc = "planNext" /\ own.layer = drv.layer
          \/ drv.pc = "acquire" /\ own.layer = drv.layer + 1

\* The MoE layers that have a plan, other than what a pass that ended in an exception
\* has left, are the one in hand, planned with its own experts or those of the layer
\* before, and the next, planned with the experts of the one in hand.
PlansAreOfToken ==
  \A l \in Layers \ (Dense \cup left) : plans[l] # None =>
    \/ l = drv.layer /\ plans[l].ids = Dedup(drv.last)
    \/ l = drv.layer /\ drv.pc # "layer" /\ plans[l].ids = Dedup(drv.ids)
    \/ /\ l = drv.layer + 1 /\ drv.pc \in {"acquire", "use", "release"}
       /\ plans[l].ids = Dedup(drv.ids)

DInv == IInv /\ faults \in Nat /\ DriverPlace /\ CallOfDriver /\ PlansAreOfToken

\* What the steps make of the driver's record.
LEMMA DriverUpdates ==
  ASSUME DriverPlace
  PROVE  /\ \A pc \in {"layer", "plan", "planNext", "acquire", "use", "release"} :
              /\ [drv EXCEPT !.pc = pc] \in DriverRec
              /\ [drv EXCEPT !.pc = pc].pc = pc
              /\ [drv EXCEPT !.pc = pc].layer = drv.layer
              /\ [drv EXCEPT !.pc = pc].ids = drv.ids
              /\ [drv EXCEPT !.pc = pc].last = drv.last
         /\ TokenStart \in DriverRec /\ TokenStart.pc = "layer"
         /\ NextLayer \in DriverRec /\ NextLayer.pc = "layer"
<1>. USE MoeDecodeAssumption
<1>1. drv \in DriverRec
  BY DEF DriverPlace
<1>2. 1 \in Layers
  OBVIOUS
<1>3. TokenStart \in DriverRec /\ TokenStart.pc = "layer"
  BY <1>2 DEF TokenStart, AtLayer, DriverRec
<1>4. NextLayer \in DriverRec /\ NextLayer.pc = "layer"
  BY <1>1, <1>3 DEF NextLayer, AtLayer, DriverRec
<1>5. \A pc \in {"layer", "plan", "planNext", "acquire", "use", "release"} :
        [drv EXCEPT !.pc = pc] \in DriverRec
  BY <1>1 DEF DriverRec
<1>6. \A pc : /\ [drv EXCEPT !.pc = pc].pc = pc
              /\ [drv EXCEPT !.pc = pc].layer = drv.layer
              /\ [drv EXCEPT !.pc = pc].ids = drv.ids
              /\ [drv EXCEPT !.pc = pc].last = drv.last
  BY <1>1 DEF DriverRec
<1>. QED BY <1>3, <1>4, <1>5, <1>6

\* A step of a read or of the call in progress, which the driver does not take part in.
CallStep == (EngineStep \/ OwnerStep \/ SubmitThrows) /\ UNCHANGED <<drv, threw, left>>

LEMMA MoreSteps ==
  ASSUME MNext
  PROVE  DriverStep \/ WeightFails \/ CallStep
BY DEF MNext, ReadMove, CallMove, SubmitFails, CallStep, EngineStep, history

\* The forward pass calls the prefetcher as it may be called: a step of the two
\* together is a step of the prefetcher, or leaves it alone.
LEMMA DriverCallsLegally ==
  ASSUME DriverPlace, [MNext]_mvars
  PROVE  [Next]_vars
<1>1. drv.layer \in Layers /\ (drv.pc # "layer" => drv.ids \in Requests)
  BY DEF DriverPlace, DriverRec
<1>2. ASSUME NEW l \in Layers, TryPlan(l), drv.pc # "layer"
      PROVE  [Next]_vars
  BY <1>1, <1>2 DEF TryPlan, Next, OwnerCall, vars
<1>3. CASE DriverStep
  <2>1. CASE DenseLayer \/ Route \/ Use
    BY <2>1 DEF DenseLayer, Route, Use
  <2>2. CASE PlanThis
    BY <1>1, <1>2, <2>2 DEF PlanThis, Driver
  <2>3. CASE PlanNext
    BY <1>1, <1>2, <2>3 DEF PlanNext, Driver
  <2>4. CASE Acquire
    BY <1>1, <2>4 DEF Acquire, Next, OwnerCall
  <2>5. CASE ReleaseLayer
    BY <1>1, <2>5 DEF ReleaseLayer, Next, OwnerCall
  <2>. QED BY <1>3, <2>1, <2>2, <2>3, <2>4, <2>5 DEF DriverStep
<1>4. CASE CallStep
  BY <1>4 DEF Next, CallStep
<1>5. CASE UNCHANGED mvars
  BY <1>5 DEF mvars
<1>6. CASE WeightFails
  BY <1>6 DEF WeightFails
<1>. QED BY <1>3, <1>4, <1>5, <1>6, MoreSteps

\* A call that goes on neither unplans nor changes a plan; it ends or stays the
\* call it was; and the plan it may leave is of its layer, with its ids.
LEMMA CallGoesOn ==
  ASSUME IInv, EngineStep \/ OwnerStep \/ SubmitThrows, own.pc # "close"
  PROVE  /\ \A l \in Layers : plans[l] # None =>
              /\ plans'[l] # None /\ plans'[l].ids = plans[l].ids
              /\ plans[l].acquired => plans'[l].acquired
         /\ \A l \in Layers : plans'[l] # None =>
              \/ plans[l] # None
              \/ /\ own.pc \in {"pins", "pinload", "pinwait", "fill"}
                 /\ l = own.layer /\ plans'[l].ids = own.ids
         /\ \/ own'.pc = "idle"
            \/ own.pc = "acquire" /\ own'.pc = "acquire"
            \/ own.pc = "idle" /\ own'.pc = "idle"
            \/ /\ own.pc \in {"pins", "pinload", "pinwait", "fill"}
               /\ own'.pc \in {"pins", "pinload", "pinwait", "fill"}
               /\ own'.layer = own.layer /\ own'.ids = own.ids
<1>. USE PrefetcherAssumption DEF IInv
<1>own. own \in Owner
  BY DEF TypeOK
<1>0. Next
  BY DEF Next
<1>1. ASSUME NEW i \in 1..MaxReads, Settle(i) \/ CallBack(i)
      PROVE  UNCHANGED plans /\ own'.pc = own.pc /\ own'.layer = own.layer /\ own'.ids = own.ids
  BY <1>1, EngineKeepsOwner
<1>2. CASE EngineStep
  BY <1>1, <1>2, <1>own DEF EngineStep, Owner
<1>3. CASE PinSkip \/ PinDemote
  BY <1>3, <1>own DEF PinSkip, PinDemote, Owner
<1>4. CASE PinFits \/ PinNextPart
  BY <1>4, <1>own DEF PinFits, PinNextPart, Owner
<1>5. CASE PinSubmit
  BY <1>5, <1>own DEF PinSubmit, Owner
<1>6. CASE PinDrained
  <2>1. CASE own.ec
    BY <1>6, <2>1 DEF PinDrained, Throw, Idle
  <2>2. CASE ~own.ec
    BY <1>6, <2>2, <1>own DEF PinDrained, Owner
  <2>. QED BY <2>1, <2>2
<1>7. CASE PinMissingInHeader \/ PinSubmitThrows \/ PlanNoFreeSlot \/ FillThrow \/ FillSubmitThrows
  BY <1>7 DEF PinMissingInHeader, PinSubmitThrows, PlanNoFreeSlot, FillThrow, FillSubmitThrows,
              Throw, Idle
<1>8. CASE PlanAllPinned \/ PlanDone
  <2>1. own.pc \in {"pins", "fill"}
    BY <1>8 DEF PlanAllPinned, PlanDone
  <2>2. plans[own.layer] = None
    BY <2>1 DEF OwnerPlace
  <2>. QED BY <1>8, <2>1, <2>2, PlanDoneEffect
<1>9. CASE PlanTakeSlot
  BY <1>9, TakeEffect
<1>10. CASE FillAdvance
  BY <1>10, <1>own DEF FillAdvance, Owner
<1>11. CASE FillSubmit
  BY <1>11, FillEffect
<1>12. CASE AcquireDrained
  <2>1. own.layer \in Layers /\ plans[own.layer] \in PlanRec /\ plans[own.layer] # None
    BY <1>12 DEF TypeOK, OwnerPlace, AcquireDrained
  <2>2. \/ plans' = plans
        \/ plans' = [plans EXCEPT ![own.layer] = [plans[own.layer] EXCEPT !.acquired = TRUE]]
    BY <1>12 DEF AcquireDrained
  <2>3. /\ [plans[own.layer] EXCEPT !.acquired = TRUE] \in PlanRec
        /\ [plans[own.layer] EXCEPT !.acquired = TRUE].ids = plans[own.layer].ids
        /\ [plans[own.layer] EXCEPT !.acquired = TRUE].acquired = TRUE
    BY <2>1 DEF PlanRec
  <2>4. None \notin PlanRec
    BY DEF PlanRec
  <2>5. own'.pc = "idle"
    BY <1>12 DEF AcquireDrained, Idle
  <2>6. \A l \in Layers : plans[l] # None =>
          /\ plans'[l] # None /\ plans'[l].ids = plans[l].ids
          /\ plans[l].acquired => plans'[l].acquired
    BY <2>1, <2>2, <2>3, <2>4 DEF TypeOK
  <2>7. \A l \in Layers : plans'[l] # None => plans[l] # None
    BY <2>1, <2>2 DEF TypeOK
  <2>. QED BY <2>5, <2>6, <2>7
<1>13. ~CloseAndReopen
  BY DEF CloseAndReopen
<1>. QED BY <1>2, <1>3, <1>4, <1>5, <1>6, <1>7, <1>8, <1>9, <1>10, <1>11, <1>12, <1>13
         DEF OwnerStep, SubmitThrows

\* A call of plan_next_layer begins, or is refused because there is a plan.
LEMMA PlanningBegins ==
  ASSUME IInv, DriverPlace, NEW l \in Layers, own.pc = "idle", TryPlan(l)
  PROVE  /\ plans' = plans
         /\ \/ own'.pc = "idle"
            \/ own'.pc = "pins" /\ own'.layer = l /\ own'.ids = Dedup(drv.ids)
  BY DEF TryPlan, PlanBegin, Idle, vars

\* The driver stays at a place of its program, and knows which call it is in.
LEMMA DriverPlaceStep ==
  ASSUME IInv, DriverPlace, CallOfDriver, MNext
  PROVE  DriverPlace' /\ CallOfDriver'
<1>. USE PrefetcherAssumption, MoeDecodeAssumption
<1>drv. drv \in DriverRec /\ drv.layer \in Layers /\ Layers \subseteq Int
  BY DEF DriverPlace, DriverRec
<1>1. CASE DenseLayer
  <2>1. drv' \in DriverRec /\ drv'.pc = "layer" /\ own' = own /\ own.pc = "idle"
    BY <1>1, DriverUpdates DEF DenseLayer, Driver, vars
  <2>. QED BY <1>1, <2>1 DEF DenseLayer, DriverPlace, CallOfDriver
<1>2. CASE Route
  <2>1. PICK ids \in Requests : drv' = [drv EXCEPT !.pc = "plan", !.ids = ids]
    BY <1>2 DEF Route
  <2>2. /\ drv' \in DriverRec /\ drv'.pc = "plan" /\ drv'.layer = drv.layer
        /\ drv'.ids \in Requests
    BY <1>drv, <2>1 DEF DriverRec
  <2>3. drv.layer \notin Dense /\ own' = own /\ own.pc = "idle"
    BY <1>2 DEF Route, Driver, vars
  <2>. QED BY <2>2, <2>3 DEF DriverPlace, CallOfDriver
<1>3. CASE PlanThis
  <2>1. /\ drv' \in DriverRec /\ drv'.pc = "planNext" /\ drv'.layer = drv.layer
        /\ drv'.ids = drv.ids /\ drv.pc = "plan" /\ own.pc = "idle"
    BY <1>3, DriverUpdates DEF PlanThis, Driver
  <2>2. \/ own'.pc = "idle"
        \/ own'.pc = "pins" /\ own'.layer = drv.layer /\ own'.ids = Dedup(drv.ids)
    BY <1>3, <1>drv, <2>1, PlanningBegins DEF PlanThis
  <2>. QED BY <2>1, <2>2 DEF DriverPlace, CallOfDriver
<1>4. CASE PlanNext
  <2>1. /\ drv' \in DriverRec /\ drv'.pc = "acquire" /\ drv'.layer = drv.layer
        /\ drv'.ids = drv.ids /\ drv.pc = "planNext" /\ own.pc = "idle"
    BY <1>4, DriverUpdates DEF PlanNext, Driver
  <2>2. \/ own'.pc = "idle"
        \/ own'.pc = "pins" /\ own'.layer = drv.layer + 1 /\ own'.ids = Dedup(drv.ids)
    BY <1>4, <2>1, PlanningBegins DEF PlanNext, vars
  <2>. QED BY <2>1, <2>2 DEF DriverPlace, CallOfDriver
<1>5. CASE Acquire
  <2>1. CASE plans[drv.layer] = None
    <3>1. /\ drv' \in DriverRec /\ drv'.pc = "layer" /\ own' = own /\ own.pc = "idle"
      BY <1>5, <2>1, DriverUpdates DEF Acquire, Fails, Leaves, Driver, vars
    <3>. QED BY <3>1 DEF DriverPlace, CallOfDriver
  <2>2. CASE plans[drv.layer] # None
    <3>1. /\ drv' \in DriverRec /\ drv'.pc = "use" /\ drv'.layer = drv.layer
          /\ drv'.ids = drv.ids /\ drv.pc = "acquire"
          /\ own'.pc = "acquire" /\ plans' = plans
      BY <1>5, <2>2, DriverUpdates DEF Acquire, Driver, AcquireBegin, Idle
    <3>. QED BY <2>2, <3>1 DEF DriverPlace, CallOfDriver
  <2>. QED BY <2>1, <2>2
<1>6. CASE Use
  <2>1. CASE plans[drv.layer].acquired
    <3>1. /\ drv' \in DriverRec /\ drv'.pc = "release" /\ drv'.layer = drv.layer
          /\ drv'.ids = drv.ids /\ drv.pc = "use"
          /\ own' = own /\ own.pc = "idle" /\ plans' = plans
      BY <1>6, <2>1, DriverUpdates DEF Use, Driver, vars
    <3>. QED BY <2>1, <3>1 DEF DriverPlace, CallOfDriver
  <2>2. CASE ~plans[drv.layer].acquired
    <3>1. /\ drv' \in DriverRec /\ drv'.pc = "layer" /\ own' = own /\ own.pc = "idle"
      BY <1>6, <2>2, DriverUpdates DEF Use, Fails, Leaves, Driver, vars
    <3>. QED BY <3>1 DEF DriverPlace, CallOfDriver
  <2>. QED BY <2>1, <2>2
<1>7. CASE ReleaseLayer
  <2>1. /\ drv' \in DriverRec /\ drv'.pc = "layer" /\ own' = own /\ own.pc = "idle"
       
    BY <1>7, DriverUpdates DEF ReleaseLayer, Driver, Release
  <2>. QED BY <2>1 DEF DriverPlace, CallOfDriver
<1>8. CASE CallStep
  <2>1. own.pc # "close"
    BY DEF CallOfDriver
  <2>2. drv' = drv
    BY <1>8 DEF CallStep
  <2>3. \A l \in Layers : plans[l] # None =>
          plans'[l] # None /\ (plans[l].acquired => plans'[l].acquired)
    BY <1>8, <2>1, CallGoesOn DEF CallStep
  <2>4. DriverPlace'
    BY <1>drv, <2>2, <2>3 DEF DriverPlace
  <2>5. CallOfDriver'
    BY <1>8, <2>1, <2>2, CallGoesOn DEF CallOfDriver, CallStep
  <2>. QED BY <2>4, <2>5
<1>9. CASE WeightFails
  <2>1. drv' \in DriverRec /\ drv'.pc = "layer" /\ own' = own /\ own.pc = "idle"
    BY <1>9, DriverUpdates DEF WeightFails, Leaves, Driver, vars
  <2>. QED BY <2>1 DEF DriverPlace, CallOfDriver
<1>. QED BY <1>1, <1>2, <1>3, <1>4, <1>5, <1>6, <1>7, <1>8, <1>9, MoreSteps DEF DriverStep

\* The plans stay plans of the token in hand.
LEMMA PlansAreOfTokenStep ==
  ASSUME DInv, MNext
  PROVE  PlansAreOfToken'
<1>. USE PrefetcherAssumption, MoeDecodeAssumption DEF DInv
<1>drv. drv \in DriverRec /\ drv.layer \in Layers /\ Layers \subseteq Int
  BY DEF DriverPlace, DriverRec
<1>next. /\ drv.layer + 1 \in Layers =>
              /\ NextLayer.layer = drv.layer + 1 /\ NextLayer.last = drv.ids
         /\ NextLayer.pc = "layer"
  BY DriverUpdates DEF NextLayer, AtLayer
<1>1. CASE DenseLayer
  <2>1. /\ drv.layer \in Dense /\ drv.pc = "layer" /\ UNCHANGED <<plans, left>>
        /\ drv' = NextLayer
    BY <1>1 DEF DenseLayer, Driver, vars, history
  <2>2. \A l \in Layers \ (Dense \cup left) : plans[l] = None
    BY <1>drv, <2>1 DEF PlansAreOfToken
  <2>. QED BY <2>1, <2>2 DEF PlansAreOfToken
<1>2. CASE Route
  <2>1. PICK ids \in Requests : drv' = [drv EXCEPT !.pc = "plan", !.ids = ids]
    BY <1>2 DEF Route
  <2>2. drv'.layer = drv.layer /\ drv'.last = drv.last /\ drv'.pc = "plan"
    BY <1>drv, <2>1 DEF DriverRec
  <2>3. drv.pc = "layer" /\ UNCHANGED <<plans, left>>
    BY <1>2 DEF Route, Driver, vars, history
  <2>. QED BY <2>2, <2>3 DEF PlansAreOfToken
<1>3. CASE PlanThis \/ PlanNext
  <2>1. /\ drv'.layer = drv.layer /\ drv'.last = drv.last /\ drv'.ids = drv.ids
        /\ drv.pc \in {"plan", "planNext"} /\ drv'.pc \in {"planNext", "acquire"}
        /\ own.pc = "idle" /\ left' = left
    BY <1>3, DriverUpdates DEF PlanThis, PlanNext, Driver, history
  <2>2. plans' = plans
    BY <1>3, <1>drv, <2>1, PlanningBegins DEF PlanThis, PlanNext, vars
  <2>. QED BY <2>1, <2>2 DEF PlansAreOfToken
<1>4. CASE WeightFails \/ ((Acquire \/ Use) /\ Fails)
  <2>1. Leaves /\ plans' = plans
    BY <1>4 DEF WeightFails, Acquire, Use, Fails, AcquireBegin, vars
  <2>. QED BY <2>1 DEF PlansAreOfToken, Leaves
<1>7. CASE (Acquire \/ Use) /\ ~Fails
  <2>1. /\ drv'.layer = drv.layer /\ drv'.last = drv.last /\ drv'.ids = drv.ids
        /\ drv.pc \in {"acquire", "use"} /\ drv'.pc \in {"use", "release"}
        /\ left' = left
    BY <1>7, DriverUpdates DEF Acquire, Use, Driver, history
  <2>2. plans' = plans
    BY <1>7 DEF Acquire, Use, AcquireBegin, vars
  <2>. QED BY <2>1, <2>2 DEF PlansAreOfToken
<1>5. CASE ReleaseLayer
  <2>1. /\ Release(drv.layer) /\ drv' = NextLayer /\ left' = left \ {drv.layer}
        /\ drv.pc = "release"
    BY <1>5 DEF ReleaseLayer, Driver
  <2>2. /\ plans'[drv.layer] = None
        /\ \A m \in Layers \ {drv.layer} : plans'[m] = plans[m]
    BY <1>drv, <2>1, ReleaseEffect DEF IInv
  <2>3. ASSUME NEW l \in Layers \ (Dense \cup left'), plans'[l] # None
        PROVE  /\ l = drv.layer + 1 /\ plans'[l].ids = Dedup(drv.ids)
    <3>1. l # drv.layer /\ plans[l] # None /\ plans'[l] = plans[l]
      BY <2>2, <2>3
    <3>2. l \in Layers \ (Dense \cup left)
      BY <2>1, <2>3, <3>1
    <3>. QED BY <3>1, <3>2 DEF PlansAreOfToken
  <2>. QED BY <1>next, <2>1, <2>3 DEF PlansAreOfToken
<1>6. CASE CallStep
  <2>1. own.pc # "close"
    BY DEF CallOfDriver
  <2>2. drv' = drv /\ left' = left
    BY <1>6 DEF CallStep
  <2>3. ASSUME NEW l \in Layers \ (Dense \cup left), plans'[l] # None
        PROVE  \/ l = drv.layer /\ plans'[l].ids = Dedup(drv.last)
               \/ l = drv.layer /\ drv.pc # "layer" /\ plans'[l].ids = Dedup(drv.ids)
               \/ /\ l = drv.layer + 1 /\ drv.pc \in {"acquire", "use", "release"}
                  /\ plans'[l].ids = Dedup(drv.ids)
    <3>1. CASE plans[l] # None
      <4>1. plans'[l].ids = plans[l].ids
        BY <1>6, <2>1, <3>1, CallGoesOn DEF CallStep
      <4>. QED BY <2>3, <3>1, <4>1 DEF PlansAreOfToken
    <3>2. CASE plans[l] = None
      <4>1. /\ own.pc \in {"pins", "pinload", "pinwait", "fill"}
            /\ l = own.layer /\ plans'[l].ids = own.ids
        BY <1>6, <2>1, <2>3, <3>2, CallGoesOn DEF CallStep
      <4>. QED BY <4>1 DEF CallOfDriver
    <3>. QED BY <3>1, <3>2
  <2>. QED BY <2>2, <2>3 DEF PlansAreOfToken
<1>. QED BY <1>1, <1>2, <1>3, <1>4, <1>5, <1>6, <1>7, MoreSteps DEF DriverStep

\* The count of faults is a number.
LEMMA FaultsCount ==
  ASSUME faults \in Nat, MNext
  PROVE  faults' \in Nat /\ (faults' = 0 => faults = 0)
<1>1. Fault \/ UNCHANGED faults
  BY DEF MNext, DriverStep, DenseLayer, Route, PlanThis, PlanNext, Acquire, Use, ReleaseLayer,
         Fails, WeightFails, ReadMove, CallMove, SubmitFails, history
<1>. QED BY <1>1 DEF Fault

\* The decode step and the prefetcher together keep what each relies on.
THEOREM DecodeInvariant == MSpec => []DInv
<1>1. MInit => DInv
  <2>. SUFFICES ASSUME MInit
                PROVE  DInv
    OBVIOUS
  <2>. USE MoeDecodeAssumption
  <2>1. IInv
    BY InvariantInit DEF MInit
  <2>2. 1 \in Layers
    OBVIOUS
  <2>3. drv \in DriverRec /\ drv.pc = "layer"
    BY <2>2 DEF MInit, TokenStart, AtLayer, DriverRec
  <2>4. DriverPlace
    BY <2>3 DEF DriverPlace
  <2>5. CallOfDriver
    BY DEF MInit, Init, Idle, CallOfDriver
  <2>6. PlansAreOfToken /\ faults \in Nat
    BY DEF MInit, Init, PlansAreOfToken
  <2>. QED BY <2>1, <2>4, <2>5, <2>6 DEF DInv
<1>2. DInv /\ [MNext]_mvars => DInv'
  <2>. SUFFICES ASSUME DInv, [MNext]_mvars
                PROVE  DInv'
    OBVIOUS
  <2>1. IInv'
    BY DriverCallsLegally, IInvStep DEF DInv
  <2>2. CASE MNext
    BY <2>1, <2>2, DriverPlaceStep, PlansAreOfTokenStep, FaultsCount DEF DInv
  <2>3. CASE UNCHANGED mvars
    BY <2>1, <2>3 DEF DInv, DriverPlace, CallOfDriver, PlansAreOfToken, mvars, vars, history
  <2>. QED BY <2>2, <2>3
<1>. QED BY <1>1, <1>2, PTL DEF MSpec

\* A layer computes with the experts its own router chose or those the layer before
\* chose for the same token, unless its plan was left behind by a token that ended in an
\* exception (moe_model.cpp:411-446).
THEOREM ExpertsOfOwnToken == MSpec => []OwnOrPrevious
<1>1. DInv => OwnOrPrevious
  <2>. SUFFICES ASSUME DInv, drv.pc = "release", drv.layer \notin left
                PROVE  plans[drv.layer].ids \in {Dedup(drv.ids), Dedup(drv.last)}
    BY DEF OwnOrPrevious
  <2>1. drv.layer \in Layers \ Dense /\ plans[drv.layer] # None /\ drv.layer \in Int
    BY MoeDecodeAssumption DEF DInv, DriverPlace, DriverRec
  <2>2. drv.layer \in Layers \ (Dense \cup left)
    BY <2>1
  <2>. QED BY <2>1, <2>2 DEF DInv, PlansAreOfToken
<1>. QED BY <1>1, DecodeInvariant, PTL

\* The decode step implements the prefetcher's safety specification: whatever is
\* proved of the prefetcher under any caller holds under this one.
THEOREM DecodeUsesPrefetcherAsMeant == MSpec => Init /\ [][Next]_vars
<1>1. MInit => Init
  BY DEF MInit
<1>2. DInv /\ [MNext]_mvars => [Next]_vars
  BY DriverCallsLegally DEF DInv
<1>. QED BY <1>1, <1>2, DecodeInvariant, PTL DEF MSpec

---------------------------------------------------------------------------
(* Two slots carry every layer. *)

\* What it takes: two slots or more, nothing pinned (the load of a pinned expert may
\* fail while its layer is planned), dense layers only in front (first_k_dense), every
\* expert of the other layers in the file, and a slot as large as what a router
\* picks (prefetch_pipeline.h:51).
RoomToPlan ==
  /\ Len(Slots) > 1
  /\ PinList = {}
  /\ \A l \in Dense, m \in Layers : m < l => m \in Dense
  /\ (Layers \ Dense) \X Experts \subseteq InHeader
  /\ \A ids \in Requests : Len(Dedup(ids)) * NParts <= SlotCap

Planning == own.pc \in {"pins", "pinload", "pinwait", "fill"}

\* How much the fill loop has packed.
Filled == own.pc = "fill" => Len(span[own.slot]) = (own.k - 1) * NParts + own.p - 1

\* The layer in hand has its plan, or is just getting it, and acquire() gives it.
HasPlan ==
  /\ drv.pc \in {"planNext", "acquire"} =>
       plans[drv.layer] # None \/ (Planning /\ own.layer = drv.layer)
  /\ drv.pc = "use" /\ own.pc # "acquire" => plans[drv.layer].acquired
  /\ own.pc = "acquire" => own.layer = drv.layer

\* Every read that has settled was whole, and no slot has an error.
AllRead ==
  /\ \A s \in SlotSet : ~err[s]
  /\ \A i \in 1..MaxReads : reads[i] # None => reads[i].st = "pending" \/ reads[i].ok

\* Until something fails outside the prefetcher's plans, every slot circulates, every
\* layer gets its plan, and no pass ends in an exception.
Carried ==
  faults = 0 => /\ ~threw /\ left = {}
                /\ pinKeys = {} /\ own.pc \notin {"pinload", "pinwait"}
                /\ \A l \in Dense : plans[l] = None
                /\ \A s \in SlotSet : Circulating(s)
                /\ AllRead
                /\ Filled
                /\ HasPlan

\* A layer is planned only behind the dense ones.
LEMMA PlannedIsMoe ==
  ASSUME DInv, RoomToPlan, Planning
  PROVE  own.layer \in Layers \ Dense /\ Dedup(drv.ids) = own.ids /\ drv.ids \in Requests
<1>. USE MoeDecodeAssumption
<1>1. own.layer \in Layers
  BY DEF DInv, IInv, OwnerPlace, Planning
<1>2. drv.layer \in Layers \ Dense /\ drv.ids \in Requests /\ own.ids = Dedup(drv.ids)
  BY DEF DInv, CallOfDriver, DriverPlace, DriverRec, Planning
<1>3. own.layer = drv.layer \/ own.layer = drv.layer + 1
  BY DEF DInv, CallOfDriver, Planning
<1>4. drv.layer \in Int /\ drv.layer < drv.layer + 1
  BY <1>2
<1>5. drv.layer + 1 \in Layers => drv.layer + 1 \notin Dense
  BY <1>2, <1>4 DEF RoomToPlan
<1>. QED BY <1>1, <1>2, <1>3, <1>5

\* The fill loop is never out of room.
LEMMA RoomLeft ==
  ASSUME NEW n \in Nat, NEW k \in 1..n, NEW parts \in Nat, NEW p \in 1..parts,
         NEW cap \in Nat, n * parts <= cap
  PROVE  (k - 1) * parts + p - 1 < cap
<1>1. (k - 1) * parts + parts = k * parts
  OBVIOUS
<1>2. k * parts <= n * parts
  <2>1. n - k \in Nat /\ (n - k) * parts \in Nat
    OBVIOUS
  <2>2. n * parts = k * parts + (n - k) * parts
    OBVIOUS
  <2>3. k * parts \in Nat
    OBVIOUS
  <2>. QED BY <2>1, <2>2, <2>3
<1>3. (k - 1) * parts \in Nat /\ k * parts \in Nat /\ n * parts \in Nat
  OBVIOUS
<1>. QED BY <1>1, <1>2, <1>3

\* After the last part the loop goes to the next expert at the same place.
LEMMA NextExpert ==
  ASSUME NEW k \in Nat, NEW parts \in Nat
  PROVE  (k + 1 - 1) * parts + 1 - 1 = (k - 1) * parts + (parts + 1) - 1
OBVIOUS

\* The plan under way finds a slot: of two slots, two layers would have to have
\* one, and one of them would be the layer that is being planned.
LEMMA SlotIsFree ==
  ASSUME DInv, RoomToPlan, Carried, faults = 0, own.pc = "pins"
  PROVE  free # <<>>
<1>. SUFFICES ASSUME free = <<>>
              PROVE  FALSE
  OBVIOUS
<1>. USE PrefetcherAssumption, MoeDecodeAssumption
<1>1. PICK s \in SlotSet, t \in SlotSet : s # t
  <2>1. 1 \in 1..Len(Slots) /\ 2 \in 1..Len(Slots)
    BY DEF RoomToPlan
  <2>2. Slots[1] \in SlotSet /\ Slots[2] \in SlotSet /\ Slots[1] # Slots[2]
    BY <2>1 DEF SlotSet
  <2>. QED BY <2>2
<1>2. PICK l \in Layers : plans[l] # None /\ plans[l].slot = s
  BY <1>1 DEF Carried, Circulating
<1>3. PICK m \in Layers : plans[m] # None /\ plans[m].slot = t
  BY <1>1 DEF Carried, Circulating
<1>4. l # m /\ l \notin Dense /\ m \notin Dense
  BY <1>1, <1>2, <1>3 DEF Carried
<1>5. plans[own.layer] = None
  BY DEF DInv, IInv, OwnerPlace
<1>6. \A i \in {l, m} : i = drv.layer \/ (i = drv.layer + 1 /\ drv.pc \in {"acquire", "use", "release"})
  <2>1. left = {}
    BY DEF Carried
  <2>. QED BY <1>2, <1>3, <1>4, <2>1 DEF DInv, PlansAreOfToken
<1>7. \/ drv.pc = "planNext" /\ own.layer = drv.layer
      \/ drv.pc = "acquire" /\ own.layer = drv.layer + 1
  BY DEF DInv, CallOfDriver
<1>. QED BY <1>2, <1>3, <1>4, <1>5, <1>6, <1>7

\* A slot that is not lost before a step that leaves queue, plans and fill alone is
\* not lost after it.
LEMMA CirculationKept ==
  ASSUME \A s \in SlotSet : Circulating(s), UNCHANGED <<free, plans>>,
         own.pc = "fill" => own'.pc = "fill" /\ own'.slot = own.slot
  PROVE  \A s \in SlotSet : Circulating(s)'
BY DEF Circulating

\* A step of a call, or a read's, loses no slot and leaves no layer without a plan.
LEMMA CarriedByCalls ==
  ASSUME DInv, RoomToPlan, Carried, faults = 0, faults' = 0, CallStep,
         (\E i \in 1..MaxReads : ReadMove(i)) \/ OwnerStep
  PROVE  Carried'
<1>. USE PrefetcherAssumption DEF DInv, IInv, CallStep
<1>own. own \in Owner
  BY DEF TypeOK
<1>pins. /\ pinKeys = {} /\ own.pc \notin {"pinload", "pinwait", "close"}
         /\ \A l \in Dense : plans[l] = None
         /\ \A s \in SlotSet : Circulating(s)
         /\ Filled /\ HasPlan /\ AllRead /\ ~threw /\ left = {}
         /\ \A key : ~IsPinned(key)
  BY DEF Carried, CallOfDriver, IsPinned
<1>still. drv' = drv /\ threw' = threw /\ left' = left
  BY DEF CallStep
<1>goes. /\ \A l \in Layers : plans[l] # None => plans'[l] # None
         /\ \A l \in Layers : plans'[l] # None =>
              plans[l] # None \/ (Planning /\ l = own.layer)
  BY CallGoesOn DEF CallOfDriver, Planning, CallStep
<1>dense. \A l \in Dense : plans'[l] = None
  BY <1>pins, <1>goes, PlannedIsMoe, MoeDecodeAssumption
<1>drv. drv.layer \in Layers
  BY DEF DriverPlace, DriverRec
<1>read. UNCHANGED <<err, reads>> => AllRead'
  BY <1>pins DEF AllRead
<1>1. ASSUME NEW i \in 1..MaxReads, ReadMove(i)
      PROVE  Carried'
  <2>1. /\ UNCHANGED <<plans, free, span, pinKeys>> /\ own'.pc = own.pc /\ own'.layer = own.layer
        /\ own'.slot = own.slot /\ own'.k = own.k /\ own'.p = own.p
    BY <1>1, EngineKeepsOwner DEF ReadMove
  <2>5. AllRead'
    <3>1. reads'[i] = None \/ reads'[i].ok
      BY <1>1 DEF ReadMove, Fault
    <3>2. \A k \in 1..MaxReads : k # i => reads'[k] = reads[k]
      BY <1>1 DEF ReadMove, Settle, CallBack, TypeOK
    <3>3. \A s \in SlotSet : ~err'[s]
      <4>1. CASE Settle(i)
        BY <1>pins, <4>1 DEF Settle, AllRead
      <4>2. CASE CallBack(i)
        <5>1. reads[i].ok
          BY <1>pins, <4>2 DEF CallBack, AllRead
        <5>2. err' = err \/ err' = [err EXCEPT ![reads[i].slot] = FALSE]
          BY <4>2, <5>1 DEF CallBack
        <5>. QED BY <1>pins, <5>2 DEF AllRead, TypeOK
      <4>. QED BY <1>1, <4>1, <4>2 DEF ReadMove
    <3>. QED BY <1>pins, <3>1, <3>2, <3>3 DEF AllRead
  <2>2. \A s \in SlotSet : Circulating(s)'
    BY <1>pins, <2>1, CirculationKept
  <2>3. Filled'
    BY <1>pins, <2>1 DEF Filled
  <2>4. HasPlan'
    BY <1>pins, <2>1 DEF HasPlan, Planning
  <2>. QED BY <1>pins, <1>still, <1>dense, <2>1, <2>2, <2>3, <2>4, <2>5 DEF Carried
<1>2. CASE PinSkip
  <2>1. /\ UNCHANGED <<plans, free, pinKeys>> /\ own.pc = "pins" /\ own'.pc = "pins"
        /\ own'.layer = own.layer
    BY <1>2, <1>own DEF PinSkip, Owner
  <2>2. \A s \in SlotSet : Circulating(s)'
    BY <1>pins, <2>1, CirculationKept
  <2>3. HasPlan'
    BY <1>pins, <2>1 DEF HasPlan, Planning
  <2>4. AllRead'
    BY <1>2, <1>read DEF PinSkip
  <2>. QED BY <1>pins, <1>dense, <2>1, <2>2, <2>3, <2>4 DEF Carried, Filled
<1>3. ~(\/ PinDemote \/ PinFits \/ PinMissingInHeader \/ PinNextPart \/ PinSubmit
        \/ PinDrained \/ CloseAndReopen)
  BY <1>pins DEF PinDemote, PinFits, PinMissingInHeader, PinNextPart, PinSubmit, PinDrained,
                 CloseAndReopen
<1>4. ~PlanNoFreeSlot
  BY SlotIsFree DEF PlanNoFreeSlot, PlanNeedsSlot
<1>5. CASE PlanAllPinned \/ PlanDone
  <2>1. /\ own.pc \in {"pins", "fill"} /\ plans[own.layer] = None /\ own'.pc = "idle"
        /\ own.layer \in Layers
        /\ plans'[own.layer].slot = IF own.pc = "fill" THEN own.slot ELSE None
        /\ \A l \in Layers \ {own.layer} : plans'[l] = plans[l]
        /\ UNCHANGED <<free, pinKeys>>
    BY <1>5, PlanDoneEffect DEF PlanAllPinned, PlanDone, OwnerPlace
  <2>2. plans'[own.layer] # None
    <3>1. plans' = [plans EXCEPT ![own.layer] =
                      [slot |-> IF own.pc = "fill" THEN own.slot ELSE None,
                       ids |-> own.ids, acquired |-> FALSE]]
      BY <1>5 DEF PlanAllPinned, PlanDone
    <3>2. [slot |-> IF own.pc = "fill" THEN own.slot ELSE None,
           ids |-> own.ids, acquired |-> FALSE] \in PlanRec
      BY <1>own DEF PlanRec, Owner
    <3>3. None \notin PlanRec
      BY DEF PlanRec
    <3>. QED BY <2>1, <3>1, <3>2, <3>3 DEF TypeOK
  <2>3. \A s \in SlotSet : Circulating(s)'
    BY <1>pins, <2>1, <2>2 DEF Circulating
  <2>4. HasPlan'
    BY <1>pins, <1>goes, <1>drv, <2>1, <2>2 DEF HasPlan, Planning, DriverPlace
  <2>5. AllRead'
    BY <1>5, <1>read, PlanDoneEffect
  <2>. QED BY <1>pins, <1>dense, <2>1, <2>3, <2>4, <2>5 DEF Carried, Filled
<1>6. CASE PlanTakeSlot
  <2>1. /\ own'.slot = Head(free) /\ own'.pc = "fill" /\ own.pc = "pins" /\ own'.layer = own.layer
        /\ own'.k = 1 /\ own'.p = 1 /\ free[1] = Head(free) /\ span'[Head(free)] = <<>>
        /\ UNCHANGED <<plans, pinKeys>>
    BY <1>6, TakeEffect
  <2>2. \A i \in 2..Len(free) : i - 1 \in 1..Len(free') /\ free'[i - 1] = free[i]
    <3>1. free \in Seq(SlotSet) /\ free # <<>> /\ free' = Tail(free)
      BY <1>6 DEF TypeOK, PlanTakeSlot
    <3>. QED BY <3>1
  <2>3. ASSUME NEW s \in SlotSet
        PROVE  Circulating(s)'
    <3>1. CASE \E i \in 1..Len(free) : free[i] = s
      <4>1. PICK i \in 1..Len(free) : free[i] = s
        BY <3>1
      <4>2. CASE i = 1
        BY <2>1, <4>1, <4>2 DEF Circulating
      <4>3. CASE i # 1
        <5>1. i \in 2..Len(free)
          BY <4>3, Len(free) \in Nat DEF TypeOK
        <5>. QED BY <2>2, <4>1, <5>1 DEF Circulating
      <4>. QED BY <4>2, <4>3
    <3>2. CASE \E l \in Layers : plans[l] # None /\ plans[l].slot = s
      BY <2>1, <3>2 DEF Circulating
    <3>. QED BY <1>pins, <2>1, <3>1, <3>2 DEF Circulating
  <2>4. Filled'
    BY <2>1 DEF Filled
  <2>5. HasPlan'
    BY <1>pins, <2>1 DEF HasPlan, Planning
  <2>6. AllRead'
    <3>1. reads' = reads /\ err' = [err EXCEPT ![Head(free)] = FALSE]
      BY <1>6 DEF PlanTakeSlot
    <3>. QED BY <1>pins, <3>1 DEF AllRead, TypeOK
  <2>. QED BY <1>pins, <1>dense, <2>1, <2>3, <2>4, <2>5, <2>6 DEF Carried
<1>7. CASE FillAdvance
  <2>1. /\ UNCHANGED <<plans, free, span, pinKeys>> /\ own.pc = "fill" /\ own'.pc = "fill"
        /\ own'.layer = own.layer /\ own'.slot = own.slot /\ own'.k = own.k + 1 /\ own'.p = 1
    BY <1>7, <1>own DEF FillAdvance, Owner
  <2>2. own.k \in Nat /\ NParts \in Nat /\ own.p = NParts + 1
    BY <1>7, <1>own, <1>pins, <2>1 DEF FillAdvance, Owner, OwnerPlace
  <2>3. Len(span'[own'.slot]) = (own'.k - 1) * NParts + own'.p - 1
    BY <1>pins, <2>1, <2>2, NextExpert DEF Filled
  <2>4. \A s \in SlotSet : Circulating(s)'
    BY <1>pins, <2>1, CirculationKept
  <2>5. HasPlan'
    BY <1>pins, <2>1 DEF HasPlan, Planning
  <2>6. AllRead'
    BY <1>7, <1>read DEF FillAdvance
  <2>. QED BY <1>pins, <1>dense, <2>1, <2>3, <2>4, <2>5, <2>6 DEF Carried, Filled
<1>8. CASE FillSubmit
  <2>1. /\ UNCHANGED <<plans, free, pinKeys>> /\ own.pc = "fill" /\ own'.pc = "fill"
        /\ own'.layer = own.layer /\ own'.slot = own.slot /\ own'.k = own.k /\ own'.p = own.p + 1
        /\ Len(span'[own.slot]) = Len(span[own.slot]) + 1
    BY <1>8, FillEffect
  <2>2. own.p \in Nat /\ (own.k - 1) * NParts \in Int
    BY <1>own DEF Owner
  <2>3. Len(span'[own'.slot]) = (own'.k - 1) * NParts + own'.p - 1
    <3>1. Len(span[own.slot]) = (own.k - 1) * NParts + own.p - 1
      BY <1>pins, <2>1 DEF Filled
    <3>2. Len(span'[own'.slot]) = (own.k - 1) * NParts + (own.p + 1) - 1
      BY <2>1, <2>2, <3>1
    <3>. QED BY <2>1, <3>2
  <2>4. \A s \in SlotSet : Circulating(s)'
    BY <1>pins, <2>1, CirculationKept
  <2>5. HasPlan'
    BY <1>pins, <2>1 DEF HasPlan, Planning
  <2>6. AllRead'
    <3>1. /\ err' = err /\ ReadId \in 1..MaxReads /\ reads'[ReadId] = FillRead
          /\ \A i \in 1..MaxReads \ {ReadId} : reads'[i] = reads[i]
      BY <1>8, FillEffect
    <3>2. FillRead.st = "pending"
      BY DEF FillRead
    <3>. QED BY <1>pins, <3>1, <3>2 DEF AllRead
  <2>. QED BY <1>pins, <1>dense, <2>1, <2>3, <2>4, <2>5, <2>6 DEF Carried, Filled
<1>9. ~FillThrow
  <2>. SUFFICES ASSUME FillThrow
                PROVE  FALSE
    OBVIOUS
  <2>1. /\ own.pc = "fill" /\ own.k \in 1..Len(own.ids) /\ own.p \in 1..NParts
        /\ own.ids \in Seq(Experts)
    BY <1>own DEF FillThrow, FillBlock, OwnerPlace, Owner
  <2>2. own.layer \in Layers \ Dense /\ own.ids = Dedup(drv.ids) /\ drv.ids \in Requests
    BY <2>1, PlannedIsMoe DEF Planning
  <2>3. Key(own.k) \in InHeader
    BY <2>1, <2>2 DEF Key, RoomToPlan
  <2>4. Len(own.ids) * NParts <= SlotCap
    BY <2>2 DEF RoomToPlan
  <2>5. (own.k - 1) * NParts + own.p - 1 < SlotCap
    BY <2>1, <2>4, RoomLeft, Len(own.ids) \in Nat
  <2>6. Len(span[own.slot]) < SlotCap
    BY <1>pins, <2>1, <2>5 DEF Filled
  <2>. QED BY <2>1, <2>3, <2>6 DEF FillThrow, SpansOfOwner, TypeOK, OwnerPlace, Owner
<1>10. CASE AcquireDrained
  <2>1. own.pc = "acquire" /\ own.layer \in Layers /\ plans[own.layer] \in PlanRec /\ own'.pc = "idle"
        /\ plans[own.layer] # None
    BY <1>10 DEF AcquireDrained, OwnerPlace, TypeOK, Idle
  <2>2. drv.pc = "use"
    BY <2>1 DEF CallOfDriver
  <2>3. \A l \in Layers : plans[l] # None => plans'[l] # None /\ plans'[l].slot = plans[l].slot
    BY <1>10, <1>goes, AcquireEffect
  <2>4. \A s \in SlotSet : Circulating(s)'
    BY <1>10, <1>pins, <2>1, <2>3 DEF Circulating, AcquireDrained
  <2>5. plans'[own.layer].acquired
    <3>1. plans[own.layer].slot \in SlotSet => ~err[plans[own.layer].slot]
      BY <1>pins DEF AllRead
    <3>2. plans' = [plans EXCEPT ![own.layer].acquired = TRUE]
      BY <1>10, <2>1, <3>1 DEF AcquireDrained, PlanRec
    <3>3. plans'[own.layer] = [plans[own.layer] EXCEPT !.acquired = TRUE]
      BY <2>1, <3>2 DEF TypeOK
    <3>. QED BY <2>1, <3>3 DEF PlanRec
  <2>6. own.layer = drv.layer
    BY <1>pins, <2>1 DEF HasPlan
  <2>7. AllRead'
    BY <1>10, <1>read DEF AcquireDrained
  <2>8. HasPlan'
    BY <2>1, <2>2, <2>5, <2>6 DEF HasPlan
  <2>9. Filled' /\ pinKeys' = pinKeys
    BY <1>10, <2>1 DEF Filled, AcquireDrained
  <2>. QED BY <1>pins, <1>dense, <2>1, <2>4, <2>7, <2>8, <2>9 DEF Carried
<1>. QED BY <1>1, <1>2, <1>3, <1>4, <1>5, <1>6, <1>7, <1>8, <1>9, <1>10 DEF OwnerStep

\* A step of the decode loop loses no slot, leaves no layer without a plan and does not
\* throw.
LEMMA CarriedByDriver ==
  ASSUME DInv, RoomToPlan, Carried, faults = 0, DriverStep
  PROVE  Carried'
<1>. USE PrefetcherAssumption DEF DInv, IInv
<1>pins. /\ pinKeys = {} /\ own.pc \notin {"pinload", "pinwait"}
         /\ \A l \in Dense : plans[l] = None
         /\ \A s \in SlotSet : Circulating(s)
         /\ Filled /\ HasPlan /\ AllRead /\ ~threw /\ left = {}
  BY DEF Carried
<1>drv. drv.layer \in Layers
  BY DEF DriverPlace, DriverRec
<1>still. UNCHANGED <<err, reads>> => AllRead'
  BY <1>pins DEF AllRead
<1>1. CASE DenseLayer \/ Route
  <2>1. UNCHANGED <<vars, history>> /\ drv'.pc \in {"layer", "plan"} /\ own.pc = "idle"
    <3>1. CASE DenseLayer
      BY <3>1, DriverUpdates DEF DenseLayer, Driver
    <3>2. CASE Route
      BY <3>2 DEF Route, Driver, DriverPlace, DriverRec
    <3>. QED BY <1>1, <3>1, <3>2
  <2>. QED BY <1>pins, <1>still, <2>1 DEF Carried, Circulating, Filled, HasPlan, vars, history
<1>2. CASE PlanThis \/ PlanNext
  <2>0. ASSUME NEW l \in Layers, TryPlan(l)
        PROVE  /\ UNCHANGED <<plans, free, span, pinKeys, err, reads>>
               /\ own' = own \/ (own'.pc = "pins" /\ own'.layer = l)
    BY <2>0 DEF TryPlan, PlanBegin, Idle, vars
  <2>1. /\ drv'.layer = drv.layer /\ own.pc = "idle" /\ UNCHANGED <<plans, free, span, pinKeys>>
        /\ \/ drv.pc = "plan" /\ drv'.pc = "planNext"
           \/ drv.pc = "planNext" /\ drv'.pc = "acquire"
        /\ \/ own' = own
           \/ own'.pc = "pins" /\ (drv.pc = "plan" => own'.layer = drv.layer)
    <3>1. CASE PlanThis
      BY <1>drv, <2>0, <3>1, DriverUpdates DEF PlanThis, Driver
    <3>2. CASE PlanNext
      BY <1>drv, <2>0, <3>2, DriverUpdates DEF PlanNext, Driver, vars
    <3>. QED BY <1>2, <3>1, <3>2
  <2>2. drv.pc = "plan" => plans[drv.layer] # None \/ (own'.pc = "pins" /\ own'.layer = drv.layer)
    BY <1>2 DEF PlanThis, PlanNext, Driver, TryPlan, PlanBegin, Idle
  <2>3. drv.pc = "planNext" => plans[drv.layer] # None
    BY <1>pins, <2>1 DEF HasPlan, Planning
  <2>4. HasPlan'
    BY <2>1, <2>2, <2>3 DEF HasPlan, Planning
  <2>5. \A s \in SlotSet : Circulating(s)'
    BY <1>pins, <2>1, CirculationKept
  <2>6. AllRead' /\ UNCHANGED history
    BY <1>2, <1>drv, <1>still, <2>0 DEF PlanThis, PlanNext, vars
  <2>. QED BY <1>pins, <2>1, <2>4, <2>5, <2>6 DEF Carried, Filled, history
<1>3. CASE Acquire \/ Use
  <2>0. plans[drv.layer] # None /\ (Use => plans[drv.layer].acquired)
    BY <1>3, <1>pins DEF Acquire, Use, Driver, HasPlan, Planning, DriverPlace
  <2>4. AllRead' /\ UNCHANGED history
    BY <1>3, <1>still, <2>0 DEF Acquire, Use, AcquireBegin, vars
  <2>1. /\ drv'.layer = drv.layer /\ own.pc = "idle" /\ UNCHANGED <<plans, free, span, pinKeys>>
        /\ \/ drv'.pc = "use" /\ own'.pc = "acquire" /\ own'.layer = drv.layer
           \/ drv'.pc = "release" /\ own' = own
    BY <1>3, <1>drv, <2>0, DriverUpdates DEF Acquire, Use, Driver, AcquireBegin, Idle, vars
  <2>2. HasPlan'
    BY <2>1 DEF HasPlan, Planning
  <2>3. \A s \in SlotSet : Circulating(s)'
    BY <1>pins, <2>1, CirculationKept
  <2>. QED BY <1>pins, <2>1, <2>2, <2>3, <2>4 DEF Carried, Filled, history
<1>4. CASE ReleaseLayer
  <2>1. Release(drv.layer) /\ drv'.pc = "layer" /\ own' = own /\ own.pc = "idle" /\ pinKeys' = pinKeys
    BY <1>4, DriverUpdates DEF ReleaseLayer, Release
  <2>2. /\ plans[drv.layer] \in PlanRec /\ plans'[drv.layer] = None
        /\ \A m \in Layers \ {drv.layer} : plans'[m] = plans[m]
    BY <1>drv, <2>1, ReleaseEffect
  <2>3. ASSUME NEW s \in SlotSet
        PROVE  Circulating(s)'
    <3>1. /\ free \in Seq(SlotSet)
          /\ free' = free \/ free' = Append(free, plans[drv.layer].slot)
      BY <2>1 DEF Release, TypeOK
    <3>2. \A i \in 1..Len(free) : i \in 1..Len(free') /\ free'[i] = free[i]
      BY <2>2, <3>1 DEF PlanRec
    <3>3. CASE plans[drv.layer].slot = s
      <4>1. free' = Append(free, s) /\ free \in Seq(SlotSet)
        BY <2>1, <3>3 DEF Release, TypeOK
      <4>2. Len(free') \in 1..Len(free') /\ free'[Len(free')] = s
        BY <4>1
      <4>. QED BY <4>2 DEF Circulating
    <3>4. CASE plans[drv.layer].slot # s
      BY <1>pins, <2>1, <2>2, <3>2, <3>4 DEF Circulating
    <3>. QED BY <3>3, <3>4
  <2>4. \A l \in Dense : plans'[l] = None
    BY <1>pins, <2>2, MoeDecodeAssumption
  <2>5. AllRead' /\ threw' = threw /\ left' = {}
    BY <1>pins, <1>4, <1>still DEF ReleaseLayer, Release
  <2>. QED BY <1>pins, <2>1, <2>3, <2>4, <2>5 DEF Carried, Filled, HasPlan
<1>. QED BY <1>1, <1>2, <1>3, <1>4 DEF DriverStep

\* With room to plan, until a read, a submit() or a weight load has failed every slot
\* circulates and every layer gets its plan and its experts.
THEOREM SlotsSuffice ==
  ASSUME RoomToPlan
  PROVE  MSpec => []Carried
<1>1. MInit => Carried
  <2>. SUFFICES ASSUME MInit
                PROVE  Carried
    OBVIOUS
  <2>1. /\ pinKeys = {} /\ own.pc = "idle" /\ drv.pc = "layer" /\ free = Slots
        /\ \A l \in Layers : plans[l] = None
        /\ ~threw /\ left = {}
    BY DEF MInit, Init, Idle, TokenStart, AtLayer, RoomToPlan
  <2>2. AllRead
    BY DEF MInit, Init, AllRead
  <2>. QED BY <2>1, <2>2, MoeDecodeAssumption DEF Carried, Circulating, Filled, HasPlan, SlotSet
<1>2. DInv /\ DInv' /\ Carried /\ [MNext]_mvars => Carried'
  <2>. SUFFICES ASSUME DInv, DInv', Carried, [MNext]_mvars, faults' = 0
                PROVE  Carried'
    BY DEF Carried
  <2>1. CASE DriverStep
    <3>1. faults = 0
      BY <2>1, FaultsCount DEF DInv, MNext
    <3>. QED BY <2>1, <3>1, CarriedByDriver
  <2>2. CASE CallMove \/ \E i \in 1..MaxReads : ReadMove(i)
    <3>1. faults = 0
      BY <2>2, FaultsCount DEF DInv, MNext
    <3>2. CallStep
      BY <2>2 DEF CallStep, CallMove, ReadMove, EngineStep, history
    <3>. QED BY <2>2, <3>1, <3>2, CarriedByCalls DEF CallMove
  <2>3. CASE UNCHANGED mvars
    BY <2>3 DEF mvars, vars, history, Carried, Circulating, AllRead, Filled, HasPlan, Planning
  <2>4. ~(WeightFails \/ SubmitFails)
    BY DEF WeightFails, SubmitFails, Fault, DInv
  <2>. QED BY <2>1, <2>2, <2>3, <2>4 DEF MNext
<1>. QED BY <1>1, <1>2, DecodeInvariant, PTL DEF MSpec

\* With room to plan, a forward pass ends in an exception only once something has failed:
\* planning one layer ahead takes no layer's slot or plan away (moe_model.cpp:434-446,
\* prefetch_pipeline.cpp:137, 172).
THEOREM ThrowsOnFaultOnly ==
  ASSUME RoomToPlan
  PROVE  MSpec => []ThrowsOnlyOnFault
<1>1. DInv /\ Carried => ThrowsOnlyOnFault
  BY DEF DInv, Carried, ThrowsOnlyOnFault
<1>. QED BY <1>1, SlotsSuffice, DecodeInvariant, PTL
=============================================================================
