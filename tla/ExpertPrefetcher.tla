-------------------------- MODULE ExpertPrefetcher --------------------------
(***************************************************************************)
(* wt::ExpertPrefetcher (src/src/weights/prefetch_pipeline.cpp): the slots *)
(* that hold the routed experts of a layer while they are read from disk,  *)
(* the plans that own the slots, and the pinned experts kept in RAM.       *)
(*                                                                         *)
(* One thread owns the prefetcher; the reads it submits complete, and call *)
(* back, on the threads of an engine that behaves as IoContract says: a    *)
(* fence waits for reads to settle, not for their callbacks.  A block is   *)
(* one of the NParts tensors of an expert and takes one unit of a slot.    *)
(* The statistics that nothing reads back are left out.                    *)
(***************************************************************************)
EXTENDS Integers, Sequences, FiniteSets

CONSTANTS Layers,     \* layer numbers
          Experts,
          NParts,     \* gate, up, down in the code
          Slots,      \* a sequence: cfg_.slots, in the order open() queues them
          SlotCap,    \* cfg_.slot_bytes, in blocks
          PinList,    \* cfg_.pinned: a set of keys <<layer, expert>>
          PinBudget,  \* cfg_.pin_budget_bytes, in blocks; 0 is no limit
          InHeader,   \* the keys whose tensors the file has
          Requests,   \* the expert id sequences plan_next_layer is called with
          MaxReads,   \* bound: reads submitted and not yet called back
          None

Keys == Layers \X Experts
Blocks == Keys \X (1..NParts)
SlotSet == {Slots[i] : i \in 1..Len(Slots)}

ASSUME PrefetcherAssumption ==
  /\ NParts \in Nat \ {0} /\ SlotCap \in Nat \ {0}
  /\ PinBudget \in Nat /\ MaxReads \in Nat \ {0}
  /\ PinList \subseteq Keys /\ InHeader \subseteq Keys
  /\ Requests \subseteq Seq(Experts)
  /\ Slots \in Seq(SlotSet)
  /\ \A i, k \in 1..Len(Slots) : Slots[i] = Slots[k] => i = k
  /\ None \notin SlotSet \cup [blk : Blocks, ok : BOOLEAN]
  /\ None \notin [slot : SlotSet \cup {None}, ids : Seq(Experts), acquired : BOOLEAN]
  /\ None \notin [slot : SlotSet \cup {None}, pos : 0..SlotCap, blk : Blocks,
                   st : {"pending", "settled"}, ok : BOOLEAN]

VARIABLES
  plans,     \* plans_: [Layers -> [slot, ids, acquired] or None]
  free,      \* free_slots_, a deque
  span,      \* per slot: the blocks packed into it, in order of offset (used
             \* is its length)
  err,       \* per slot: Slot::err is set
  mem,       \* per slot and unit: the read that last wrote it, [blk, ok] or None
  pinKeys,   \* pin_keys_, whole experts
  pinStore,  \* pin_store_: [Blocks -> {"absent", "good", "torn"}]
  reads,     \* the engine: [1..MaxReads -> [slot, pos, blk, st, ok] or None]
  own        \* the owner thread: [pc, layer, ids, slot, k, p, ec, got]; ec and
             \* got are the error and the contents of the pin load's locals

vars == <<plans, free, span, err, mem, pinKeys, pinStore, reads, own>>

Idle == [pc |-> "idle", layer |-> None, ids |-> <<>>, slot |-> None,
         k |-> 0, p |-> 0, ec |-> FALSE, got |-> FALSE]

Init ==
  /\ plans = [l \in Layers |-> None]
  /\ free = Slots
  /\ span = [s \in SlotSet |-> <<>>]
  /\ err = [s \in SlotSet |-> FALSE]
  /\ mem = [s \in SlotSet |-> [u \in 1..SlotCap |-> None]]
  /\ pinKeys = PinList
  /\ pinStore = [b \in Blocks |-> "absent"]
  /\ reads = [i \in 1..MaxReads |-> None]
  /\ own = Idle

---------------------------------------------------------------------------
(* The engine. *)

NonePending == \A i \in 1..MaxReads : reads[i] # None => reads[i].st # "pending"
FreeReads == {i \in 1..MaxReads : reads[i] = None}
ReadId == CHOOSE i \in FreeReads : \A k \in FreeReads : i <= k

\* submit(); slot None is the local buffer of a pin load.
SubmitRead(slot, pos, blk) ==
  /\ FreeReads # {}
  /\ reads' = [reads EXCEPT ![ReadId] =
                 [slot |-> slot, pos |-> pos, blk |-> blk, st |-> "pending", ok |-> FALSE]]

\* A worker has read into the slot, wholly or not, and counted the read down.
Settle(i) ==
  /\ reads[i] # None
  /\ reads[i].st = "pending"
  /\ \E ok \in BOOLEAN :
       /\ reads' = [reads EXCEPT ![i].st = "settled", ![i].ok = ok]
       /\ IF reads[i].slot = None
            THEN own' = [own EXCEPT !.got = ok] /\ UNCHANGED mem
            ELSE /\ mem' = [mem EXCEPT ![reads[i].slot][reads[i].pos] =
                              [blk |-> reads[i].blk, ok |-> ok]]
                 /\ UNCHANGED own
  /\ UNCHANGED <<plans, free, span, err, pinKeys, pinStore>>

\* The callback: `ps->err = e` for a slot, whoever owns it by now; for a pin
\* load `ec = e`, a stack variable that only exists while the owner waits.
CallBack(i) ==
  /\ reads[i] # None
  /\ reads[i].st = "settled"
  /\ reads' = [reads EXCEPT ![i] = None]
  /\ IF reads[i].slot # None
       THEN /\ err' = [err EXCEPT ![reads[i].slot] = ~reads[i].ok]
            /\ UNCHANGED own
       ELSE /\ own' = IF own.pc = "pinwait" THEN [own EXCEPT !.ec = ~reads[i].ok] ELSE own
            /\ UNCHANGED err
  /\ UNCHANGED <<plans, free, span, mem, pinKeys, pinStore>>

---------------------------------------------------------------------------
(* plan_next_layer *)

\* The ids without their repetitions, in order of first occurrence.
Dedup(ids) ==
  LET firsts == {i \in 1..Len(ids) : \A k \in 1..(i - 1) : ids[k] # ids[i]}
      nth(n) == CHOOSE i \in firsts : Cardinality({k \in firsts : k <= i}) = n
  IN  [n \in 1..Cardinality(firsts) |-> ids[nth(n)]]

Key(n) == <<own.layer, own.ids[n]>>
IsPinned(key) == key \in pinKeys

\* The blocks of an expert that pin_store_ lacks.
Missing(key) == {p \in 1..NParts : pinStore[<<key, p>>] = "absent"}
PinBytes == Cardinality({b \in Blocks : pinStore[b] # "absent"})

\* Where an exception leaves the owner: nothing is rolled back.
Throw == own' = Idle

\* A layer that is planned already throws and changes nothing.
PlanBegin(l, ids) ==
  /\ own.pc = "idle"
  /\ plans[l] = None
  /\ own' = [Idle EXCEPT !.pc = "pins", !.layer = l, !.ids = Dedup(ids), !.k = 1]
  /\ UNCHANGED <<plans, free, span, err, mem, pinKeys, pinStore, reads>>

\* Pin loop: the next id is not pinned.
PinSkip ==
  /\ own.pc = "pins"
  /\ own.k <= Len(own.ids)
  /\ ~IsPinned(Key(own.k))
  /\ own' = [own EXCEPT !.k = @ + 1]
  /\ UNCHANGED <<plans, free, span, err, mem, pinKeys, pinStore, reads>>

\* Mutant: over budget, the expert is skipped but stays pinned.
PinDemoteKeepsKeys ==
  /\ own.pc = "pins"
  /\ own.k <= Len(own.ids)
  /\ IsPinned(Key(own.k))
  /\ Key(own.k) \in InHeader
  /\ PinBudget # 0
  /\ PinBytes + Cardinality(Missing(Key(own.k))) > PinBudget
  /\ own' = [own EXCEPT !.k = @ + 1]
  /\ UNCHANGED <<plans, free, span, err, mem, pinKeys, pinStore, reads>>

\* load_pin_if_needed: over budget, the whole expert goes back to disk.
PinDemote ==
  /\ own.pc = "pins"
  /\ own.k <= Len(own.ids)
  /\ IsPinned(Key(own.k))
  /\ Key(own.k) \in InHeader
  /\ PinBudget # 0
  /\ PinBytes + Cardinality(Missing(Key(own.k))) > PinBudget
  /\ pinKeys' = pinKeys \ {Key(own.k)}
  /\ own' = [own EXCEPT !.k = @ + 1]
  /\ UNCHANGED <<plans, free, span, err, mem, pinStore, reads>>

\* Within budget: load its parts one by one.
PinFits ==
  /\ own.pc = "pins"
  /\ own.k <= Len(own.ids)
  /\ IsPinned(Key(own.k))
  /\ Key(own.k) \in InHeader
  /\ PinBudget = 0 \/ PinBytes + Cardinality(Missing(Key(own.k))) <= PinBudget
  /\ own' = [own EXCEPT !.pc = "pinload", !.p = 1]
  /\ UNCHANGED <<plans, free, span, err, mem, pinKeys, pinStore, reads>>

PinMissingInHeader ==
  /\ own.pc = "pins"
  /\ own.k <= Len(own.ids)
  /\ IsPinned(Key(own.k))
  /\ Key(own.k) \notin InHeader
  /\ Throw
  /\ UNCHANGED <<plans, free, span, err, mem, pinKeys, pinStore, reads>>

\* A part already in pin_store_ is skipped; after the last, the next id.
PinNextPart ==
  /\ own.pc = "pinload"
  /\ \/ own.p > NParts
     \/ own.p \notin Missing(Key(own.k))
  /\ own' = IF own.p > NParts THEN [own EXCEPT !.pc = "pins", !.k = @ + 1]
                              ELSE [own EXCEPT !.p = @ + 1]
  /\ UNCHANGED <<plans, free, span, err, mem, pinKeys, pinStore, reads>>

PinSubmit ==
  /\ own.pc = "pinload"
  /\ own.p \in Missing(Key(own.k))
  /\ SubmitRead(None, 0, <<Key(own.k), own.p>>)
  /\ own' = [own EXCEPT !.pc = "pinwait", !.ec = FALSE, !.got = FALSE]
  /\ UNCHANGED <<plans, free, span, err, mem, pinKeys, pinStore>>

\* submit() throws (a file that does not open, no memory for its buffer) before it
\* queues the read.
PinSubmitThrows ==
  /\ own.pc = "pinload"
  /\ own.p \in Missing(Key(own.k))
  /\ Throw
  /\ UNCHANGED <<plans, free, span, err, mem, pinKeys, pinStore, reads>>

\* drain() returned: ec decides, whether or not the callback has set it.
PinDrained ==
  /\ own.pc = "pinwait"
  /\ NonePending
  /\ IF own.ec
       THEN Throw /\ UNCHANGED pinStore
       ELSE /\ pinStore' = [pinStore EXCEPT ![<<Key(own.k), own.p>>] =
                                        IF own.got THEN "good" ELSE "torn"]
            /\ own' = [own EXCEPT !.pc = "pinload", !.p = @ + 1]
  /\ UNCHANGED <<plans, free, span, err, mem, pinKeys, reads>>

\* Everything is pinned: the plan needs no slot.
PlanAllPinned ==
  /\ own.pc = "pins"
  /\ own.k > Len(own.ids)
  /\ \A n \in 1..Len(own.ids) : IsPinned(Key(n))
  /\ plans' = [plans EXCEPT ![own.layer] =
                 [slot |-> None, ids |-> own.ids, acquired |-> FALSE]]
  /\ own' = Idle
  /\ UNCHANGED <<free, span, err, mem, pinKeys, pinStore, reads>>

PlanNeedsSlot ==
  /\ own.pc = "pins"
  /\ own.k > Len(own.ids)
  /\ \E n \in 1..Len(own.ids) : ~IsPinned(Key(n))

PlanNoFreeSlot ==
  /\ PlanNeedsSlot
  /\ free = <<>>
  /\ Throw
  /\ UNCHANGED <<plans, free, span, err, mem, pinKeys, pinStore, reads>>

\* Mutant: the slot is used but not taken off the queue.
PlanTakeSlotNoPop ==
  /\ PlanNeedsSlot
  /\ free # <<>>
  /\ span' = [span EXCEPT ![Head(free)] = <<>>]
  /\ err' = [err EXCEPT ![Head(free)] = FALSE]
  /\ own' = [own EXCEPT !.pc = "fill", !.slot = Head(free), !.k = 1, !.p = 1]
  /\ UNCHANGED <<plans, free, mem, pinKeys, pinStore, reads>>

\* Take the front slot and reset it.
PlanTakeSlot ==
  /\ PlanNeedsSlot
  /\ free # <<>>
  /\ free' = Tail(free)
  /\ span' = [span EXCEPT ![Head(free)] = <<>>]
  /\ err' = [err EXCEPT ![Head(free)] = FALSE]
  /\ own' = [own EXCEPT !.pc = "fill", !.slot = Head(free), !.k = 1, !.p = 1]
  /\ UNCHANGED <<plans, mem, pinKeys, pinStore, reads>>

\* The fill loop passes over a pinned id, and goes on after the last part.
FillAdvance ==
  /\ own.pc = "fill"
  /\ own.k <= Len(own.ids)
  /\ IsPinned(Key(own.k)) \/ own.p > NParts
  /\ own' = [own EXCEPT !.k = @ + 1, !.p = 1]
  /\ UNCHANGED <<plans, free, span, err, mem, pinKeys, pinStore, reads>>

\* The loop stands before a block that has to come from disk.
FillBlock ==
  /\ own.pc = "fill"
  /\ own.k <= Len(own.ids)
  /\ ~IsPinned(Key(own.k))
  /\ own.p <= NParts

\* pack_into_slot and submit: the next block goes to the next offset.
FillSubmit ==
  /\ FillBlock
  /\ Key(own.k) \in InHeader
  /\ Len(span[own.slot]) < SlotCap
  /\ span' = [span EXCEPT ![own.slot] = Append(@, <<Key(own.k), own.p>>)]
  /\ SubmitRead(own.slot, Len(span[own.slot]) + 1, <<Key(own.k), own.p>>)
  /\ own' = [own EXCEPT !.p = @ + 1]
  /\ UNCHANGED <<plans, free, err, mem, pinKeys, pinStore>>

\* submit() throws after the block was packed: the slot is lost as in FillThrow,
\* with its earlier reads in flight.
FillSubmitThrows ==
  /\ FillBlock
  /\ Key(own.k) \in InHeader
  /\ Len(span[own.slot]) < SlotCap
  /\ span' = [span EXCEPT ![own.slot] = Append(@, <<Key(own.k), own.p>>)]
  /\ Throw
  /\ UNCHANGED <<plans, free, err, mem, pinKeys, pinStore, reads>>

\* Mutant: the slot of a plan that throws goes back to the queue at once.
FillThrowFreesSlot ==
  /\ FillBlock
  /\ Key(own.k) \notin InHeader \/ Len(span[own.slot]) >= SlotCap
  /\ free' = Append(free, own.slot)
  /\ Throw
  /\ UNCHANGED <<plans, span, err, mem, pinKeys, pinStore, reads>>

\* "slot overflow", or the tensor is not in the header: the slot is neither in
\* a plan nor back in free_slots_.
FillThrow ==
  /\ FillBlock
  /\ Key(own.k) \notin InHeader \/ Len(span[own.slot]) >= SlotCap
  /\ Throw
  /\ UNCHANGED <<plans, free, span, err, mem, pinKeys, pinStore, reads>>

PlanDone ==
  /\ own.pc = "fill"
  /\ own.k > Len(own.ids)
  /\ plans' = [plans EXCEPT ![own.layer] =
                 [slot |-> own.slot, ids |-> own.ids, acquired |-> FALSE]]
  /\ own' = Idle
  /\ UNCHANGED <<free, span, err, mem, pinKeys, pinStore, reads>>

---------------------------------------------------------------------------
(* acquire, release and close *)

\* acquire() of a layer without a plan throws and changes nothing.
AcquireBegin(l) ==
  /\ own.pc = "idle"
  /\ plans[l] # None
  /\ own' = [Idle EXCEPT !.pc = "acquire", !.layer = l]
  /\ UNCHANGED <<plans, free, span, err, mem, pinKeys, pinStore, reads>>

\* Mutant: no fence before the references are handed out.
AcquireWithoutFence ==
  /\ own.pc = "acquire"
  /\ LET pl == plans[own.layer] IN
       IF pl.slot # None /\ err[pl.slot]
         THEN UNCHANGED plans
         ELSE plans' = [plans EXCEPT ![own.layer].acquired = TRUE]
  /\ own' = Idle
  /\ UNCHANGED <<free, span, err, mem, pinKeys, pinStore, reads>>

\* After the fence: throw on the slot's error, else hand out the references.
AcquireDrained ==
  /\ own.pc = "acquire"
  /\ NonePending
  /\ LET pl == plans[own.layer] IN
       IF pl.slot # None /\ err[pl.slot]
         THEN UNCHANGED plans
         ELSE plans' = [plans EXCEPT ![own.layer].acquired = TRUE]
  /\ own' = Idle
  /\ UNCHANGED <<free, span, err, mem, pinKeys, pinStore, reads>>

\* Mutant: a consumed layer takes its slot along.
ReleaseKeepsSlot(l) ==
  /\ own.pc = "idle"
  /\ plans[l] # None
  /\ plans[l].acquired
  /\ LET s == plans[l].slot IN
       span' = IF s = None THEN span ELSE [span EXCEPT ![s] = <<>>]
  /\ plans' = [plans EXCEPT ![l] = None]
  /\ UNCHANGED <<free, err, mem, pinKeys, pinStore, reads, own>>

\* The layer was consumed: its slot goes to the back of the queue.  The timing
\* contract (prefetch_pipeline.h:4-9) releases a layer after its acquire.
Release(l) ==
  /\ own.pc = "idle"
  /\ plans[l] # None
  /\ plans[l].acquired
  /\ LET s == plans[l].slot IN
       IF s = None
         THEN UNCHANGED <<free, span>>
         ELSE /\ free' = Append(free, s)
              /\ span' = [span EXCEPT ![s] = <<>>]
  /\ plans' = [plans EXCEPT ![l] = None]
  /\ UNCHANGED <<err, mem, pinKeys, pinStore, reads, own>>

\* close(): drain, then destroy the engine (which runs the callbacks left),
\* then free the slots; open() again starts from the same configuration.
CloseBegin ==
  /\ own.pc = "idle"
  /\ own' = [Idle EXCEPT !.pc = "close"]
  /\ UNCHANGED <<plans, free, span, err, mem, pinKeys, pinStore, reads>>

CloseAndReopen ==
  /\ own.pc = "close"
  /\ NonePending
  /\ \A i \in 1..MaxReads : reads[i] = None
  /\ plans' = [l \in Layers |-> None]
  /\ free' = Slots
  /\ span' = [s \in SlotSet |-> <<>>]
  /\ err' = [s \in SlotSet |-> FALSE]
  /\ mem' = [s \in SlotSet |-> [u \in 1..SlotCap |-> None]]
  /\ pinKeys' = PinList
  /\ pinStore' = [b \in Blocks |-> "absent"]
  /\ own' = Idle
  /\ UNCHANGED reads

---------------------------------------------------------------------------
EngineStep == \E i \in 1..MaxReads : Settle(i) \/ CallBack(i)

\* The rest of a call the owner is in.
OwnerStep ==
  \/ PinSkip \/ PinDemote \/ PinFits \/ PinMissingInHeader
  \/ PinNextPart \/ PinSubmit \/ PinDrained
  \/ PlanAllPinned \/ PlanNoFreeSlot \/ PlanTakeSlot
  \/ FillAdvance \/ FillSubmit \/ FillThrow \/ PlanDone
  \/ AcquireDrained \/ CloseAndReopen

OwnerCall ==
  \/ \E l \in Layers : \/ \E ids \in Requests : PlanBegin(l, ids)
                       \/ AcquireBegin(l)
                       \/ Release(l)
  \/ CloseBegin

SubmitThrows == PinSubmitThrows \/ FillSubmitThrows

Next == EngineStep \/ OwnerStep \/ SubmitThrows \/ OwnerCall

Spec == Init /\ [][Next]_vars

---------------------------------------------------------------------------
(* Properties *)

\* A slot has one owner at most: it is queued once, or it is the slot of one
\* plan, or the plan under construction is filling it
\* (prefetch_pipeline.cpp:141-162, 212-223).
SlotOwnership ==
  /\ \A i, k \in 1..Len(free) : free[i] = free[k] => i = k
  /\ \A l \in Layers : plans[l] # None /\ plans[l].slot # None =>
       /\ \A i \in 1..Len(free) : free[i] # plans[l].slot
       /\ \A m \in Layers \ {l} : plans[m] # None => plans[m].slot # plans[l].slot
       /\ own.pc = "fill" => own.slot # plans[l].slot
  /\ own.pc = "fill" => \A i \in 1..Len(free) : free[i] # own.slot

\* A read in flight writes only where it is expected: its slot is not queued for
\* another layer, and the plan that owns the slot is of the read's layer, keeps
\* that block at that place and has not been handed to the computation yet
\* (the buffers of submit(), prefetch_pipeline.cpp:155-157).
NoReadIntoForeignSlot ==
  \A i \in 1..MaxReads : reads[i] # None /\ reads[i].st = "pending" /\ reads[i].slot # None =>
    /\ \A k \in 1..Len(free) : free[k] # reads[i].slot
    /\ \A l \in Layers : plans[l] # None /\ plans[l].slot = reads[i].slot =>
         /\ reads[i].blk[1][1] = l
         /\ ~plans[l].acquired
         /\ span[reads[i].slot][reads[i].pos] = reads[i].blk

\* The blocks acquire() hands out are those of the layer's experts: a pinned
\* expert has every part in pin_store_ (no half-pinned expert, :73), any other
\* has every part in the slot, where the last read to write was its own
\* (prefetch_pipeline.cpp:188-208).
AcquiredBlocksAreTheirs ==
  \A l \in Layers : plans[l] # None /\ plans[l].acquired =>
    \A n \in 1..Len(plans[l].ids), p \in 1..NParts :
      LET blk == <<<<l, plans[l].ids[n]>>, p>>
          s == plans[l].slot
      IN  IF IsPinned(blk[1])
            THEN pinStore[blk] # "absent"
            ELSE /\ s # None
                 /\ \E u \in 1..Len(span[s]) :
                      span[s][u] = blk /\ mem[s][u] # None /\ mem[s][u].blk = blk

\* An expert a plan counts on being pinned is pinned whole, gate, up and down all in
\* pin_store_ from the plan on; and pinned experts never take more than the budget,
\* whatever loads fail half way (prefetch_pipeline.cpp:72-85).
PinnedWholeInBudget ==
  /\ \A l \in Layers : plans[l] # None =>
       \A n \in 1..Len(plans[l].ids) :
         IsPinned(<<l, plans[l].ids[n]>>) => Missing(<<l, plans[l].ids[n]>>) = {}
  /\ PinBudget # 0 => PinBytes <= PinBudget

\* No slot leaks: a slot leaves circulation (queue, plan, fill) only when the call
\* that fills it throws, as the prefetcher frees nothing there, and what was lost
\* comes back only with close() (prefetch_pipeline.cpp:42, 141-167, 212-223).
Circulating(s) ==
  \/ \E i \in 1..Len(free) : free[i] = s
  \/ \E l \in Layers : plans[l] # None /\ plans[l].slot = s
  \/ own.pc = "fill" /\ own.slot = s

SlotsLostOnlyByThrow ==
  [][\A s \in SlotSet :
       /\ Circulating(s) /\ ~Circulating(s)' =>
            own.pc = "fill" /\ own.slot = s /\ own' = Idle /\ plans' = plans
       /\ ~Circulating(s) /\ Circulating(s)' => own.pc = "close"]_vars

\* prefetch_pipeline.h:105 says of Slot::err: set when any read in flight fails,
\* thrown by acquire.  So blocks are handed out only if every one was read whole.
\* But the fence does not wait for the callback that sets err, and a callback
\* that reports success clears what an earlier one has set.
AcquiredBlocksAreWhole ==
  \A l \in Layers :
    plans[l] # None /\ plans[l].acquired /\ plans[l].slot # None =>
      \A u \in 1..Len(span[plans[l].slot]) : mem[plans[l].slot][u].ok
=============================================================================
