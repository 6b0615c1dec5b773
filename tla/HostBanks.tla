------------------------------ MODULE HostBanks ------------------------------
(***************************************************************************)
(* QlwcExpertHostBanks: one arena per MoE layer, filled with the layer's      *)
(* experts out of the INT4 store while the DRAM budget lasts, and later      *)
(* registered with CUDA or locked, layer by layer.  `os` is what the         *)
(* operating system holds of each arena; the code keeps only residency_.     *)
(***************************************************************************)
EXTENDS Integers, Sequences, FiniteSets, FiniteSetsExt

CONSTANTS MoeLayers,     \* per layer, whether the store has its experts
          LayerBytes,    \* bytes of an arena
          MaxTrouble     \* allocations, registrations and locks that fail

ASSUME HostBanksAssumption ==
  /\ MoeLayers \in Seq(BOOLEAN)
  /\ LayerBytes \in Nat \ {0} /\ MaxTrouble \in Nat

BankLayers == DOMAIN MoeLayers

VARIABLES arena,      \* layer -> "none", "partial", "whole", or "stray": neither
                      \* filled nor counted
          residency,  \* layer -> "pageable", "locked", "pinned"
          os,         \* layer -> "none", "locked", "registered"
          books,      \* total_arena_bytes_, pinned_bytes_, locked_bytes_
          ready,      \* ready_
          at,         \* next layer of the fill or of pin(); 0: neither is running
          trouble
bankVars == <<arena, residency, os, books, ready, at, trouble>>

Arenas == {l \in BankLayers : arena[l] # "none"}
Counted == {l \in Arenas : arena[l] # "stray"}

BanksInit ==
  /\ arena = [l \in BankLayers |-> "none"]
  /\ residency = [l \in BankLayers |-> "pageable"]
  /\ os = [l \in BankLayers |-> "none"]
  /\ books = [total |-> 0, pinned |-> 0, locked |-> 0]
  /\ ready = FALSE /\ at = 0 /\ trouble = 0

(* configure() and allocate(): nothing is held.                              *)
Allocate ==
  /\ at' = 1 /\ ready' = FALSE
  /\ arena' = [l \in BankLayers |-> "none"]
  /\ residency' = [l \in BankLayers |-> "pageable"]
  /\ os' = [l \in BankLayers |-> "none"]
  /\ books' = [total |-> 0, pinned |-> 0, locked |-> 0]
  /\ UNCHANGED trouble

(* The fill stops for good at the first layer beyond the budget, at a failed *)
(* allocation of an arena or of the vectors that point into it, or of an     *)
(* expert's blob, whose arena it gives back whole.                          *)
FillEnds == /\ at' = 0 /\ ready' = (Arenas # {})
Fits(budget) == budget = 0 \/ books.total + LayerBytes <= budget

SkipLayer(budget) ==
  /\ at \in BankLayers /\ arena[at] = "none" /\ (MoeLayers[at] => ~Fits(budget))
  /\ IF MoeLayers[at] THEN FillEnds ELSE at' = at + 1 /\ UNCHANGED ready
  /\ UNCHANGED <<arena, residency, os, books, trouble>>

(* alloc_layer_arena.  When a vector cannot grow (host_banks.cpp:104-106), the *)
(* arena is there already, and the catch at :214 does not free it.          *)
AllocLayer(budget) ==
  /\ at \in BankLayers /\ MoeLayers[at] /\ Fits(budget) /\ arena[at] = "none"
  /\ \/ /\ arena' = [arena EXCEPT ![at] = "partial"]
        /\ books' = [books EXCEPT !.total = @ + LayerBytes]
        /\ UNCHANGED <<at, ready, trouble>>
     \/ /\ trouble < MaxTrouble /\ trouble' = trouble + 1
        /\ FillEnds
        /\ UNCHANGED arena \/ arena' = [arena EXCEPT ![at] = "stray"]
        /\ UNCHANGED books
  /\ UNCHANGED <<residency, os>>

(* As if the catch left the half-filled arena alone (a mutant of FillLayer).  *)
FillLayerKeepsArena ==
  /\ at \in BankLayers /\ arena[at] = "partial"
  /\ \/ /\ arena' = [arena EXCEPT ![at] = "whole"]
        /\ at' = at + 1
        /\ UNCHANGED <<ready, trouble>>
     \/ /\ trouble < MaxTrouble /\ trouble' = trouble + 1
        /\ at' = 0 /\ ready' = (Arenas # {})
        /\ UNCHANGED arena
  /\ UNCHANGED <<residency, os, books>>

FillLayer ==
  /\ at \in BankLayers /\ arena[at] = "partial"
  /\ \/ /\ arena' = [arena EXCEPT ![at] = "whole"]
        /\ at' = at + 1
        /\ UNCHANGED <<books, ready, trouble>>
     \/ /\ trouble < MaxTrouble /\ trouble' = trouble + 1
        /\ arena' = [arena EXCEPT ![at] = "none"]
        /\ books' = [books EXCEPT !.total = @ - LayerBytes]
        /\ at' = 0 /\ ready' = (Arenas \ {at} # {})
  /\ UNCHANGED <<residency, os>>

FillDone ==
  /\ at > Len(MoeLayers)
  /\ FillEnds
  /\ UNCHANGED <<arena, residency, os, books, trouble>>

Fill(budget) == SkipLayer(budget) \/ AllocLayer(budget) \/ FillLayer \/ FillDone

(***************************************************************************)
(* pin(): register with CUDA while the cap lasts, else lock, else leave      *)
(* pageable.  A registration that fails is followed by a lock.               *)
(***************************************************************************)
PinBegin == /\ at = 0 /\ at' = 1
            /\ books' = [books EXCEPT !.pinned = 0, !.locked = 0]
            /\ UNCHANGED <<arena, residency, os, ready, trouble>>

Wants(hostPin, cap, budget) ==
  IF hostPin /\ books.pinned + LayerBytes <= cap
     /\ (budget = 0 \/ books.pinned + books.locked + LayerBytes <= budget)
  THEN "pinned" ELSE "locked"

(* What the system holds of an arena so settled.                             *)
HeldFor(r) == CASE r = "pinned" -> "registered" [] r = "locked" -> "locked" [] OTHER -> "none"

(* Outcomes of settle_layer: what it settles on, and the calls that failed.  *)
Settled(want) ==
  {[as |-> want, failed |-> 0],
   [as |-> IF want = "pinned" THEN "locked" ELSE "pageable", failed |-> 1],
   [as |-> "pageable", failed |-> IF want = "pinned" THEN 2 ELSE 1]}

Settle(hostPin, cap, budget) ==
  /\ at \in BankLayers
  /\ IF arena[at] = "none"
     THEN UNCHANGED <<residency, os, books, trouble>>
     ELSE \E s \in Settled(Wants(hostPin, cap, budget)) :
            /\ trouble + s.failed <= MaxTrouble /\ trouble' = trouble + s.failed
            /\ residency' = [residency EXCEPT ![at] = s.as]
            /\ os' = [os EXCEPT ![at] = HeldFor(s.as)]
            /\ books' = CASE s.as = "pinned" -> [books EXCEPT !.pinned = @ + LayerBytes]
                          [] s.as = "locked" -> [books EXCEPT !.locked = @ + LayerBytes]
                          [] OTHER -> books
  /\ at' = at + 1
  /\ UNCHANGED <<arena, ready>>

PinDone == /\ at > Len(MoeLayers) /\ at' = 0
           /\ UNCHANGED <<arena, residency, os, books, ready, trouble>>

(* The destructor: every arena is unregistered or unlocked by what           *)
(* residency_ says, then freed.                                              *)
FreeAll ==
  /\ arena' = [l \in BankLayers |-> "none"]
  /\ os' = [l \in BankLayers |->
              IF l \in Arenas /\ os[l] = HeldFor(residency[l]) THEN "none" ELSE os[l]]
  /\ books' = [total |-> 0, pinned |-> 0, locked |-> 0]
  /\ ready' = FALSE /\ at' = 0
  /\ UNCHANGED <<residency, trouble>>

(* Layers the decode may take from the banks (has_layer, layer_gpu_ok).      *)
HasLayer(l) == l \in BankLayers /\ arena[l] # "none"

Held(what) == LayerBytes * Quantify(BankLayers, LAMBDA l : residency[l] = what /\ HasLayer(l))

(* BanksWhole (used by Startup's runs): a layer the decode may take (it has   *)
(* an arena) holds all its experts, unless it is the one a fill works on, or  *)
(* the stray one at which a fill broke off, of which there is one at most,    *)
(* behind all others; the layers are the first ones of the model, and never  *)
(* more than the budget; the three counters say what is held, the stray arena *)
(* left out of the first; and the system holds of each arena what residency_ *)
(* says, so that free_all gives everything back.                             *)
(* About: host_banks.cpp, a fill that breaks off (214, 231) and pin().  The    *)
(* comment at 236 wants no partial arena left; the catch at 214 leaves one.   *)
BanksWhole(budget, cap) ==
  /\ \A l \in Arenas : \/ arena[l] = "whole"
                       \/ arena[l] = "partial" /\ l = at
                       \/ arena[l] = "stray" /\ trouble > 0 /\ \A k \in Arenas : k <= l
  /\ \A l \in Arenas, k \in 1..Len(MoeLayers) : k < l /\ MoeLayers[k] => k \in Arenas
  /\ books.total = LayerBytes * Cardinality(Counted)
  /\ at = 0 => books.pinned = Held("pinned") /\ books.locked = Held("locked")
  /\ budget > 0 => LayerBytes * Cardinality(Arenas) <= budget
  /\ books.pinned <= cap
  /\ \A l \in BankLayers : os[l] = IF HasLayer(l) THEN HeldFor(residency[l]) ELSE "none"
=============================================================================
