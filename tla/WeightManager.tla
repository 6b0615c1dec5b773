---------------------------- MODULE WeightManager ----------------------------
(***************************************************************************)
(* wt::WeightManager (src/src/weights/weight_manager.cpp): tensors that    *)
(* stay resident, and a cache of cold ones that is kept within a budget by *)
(* evicting the least recently used.                                       *)
(*                                                                         *)
(* last_use is ++clock_, so the entries of the cache have distinct values: *)
(* the model keeps their order, the relation older, instead of the clock.  *)
(* get() returns a reference that stays usable until the entry is evicted; *)
(* a caller takes the few it needs for one product and then uses them, so  *)
(* the model remembers which are held.  One thread owns the manager.       *)
(***************************************************************************)
EXTENDS Integers, FiniteSets

CONSTANTS Tensors,   \* entries_
          Size,      \* meta.nbytes
          Experts,   \* expert_names_: members of the header's groups
          InLayers,  \* names with "layers." in them
          Forced,    \* cfg_.force_resident
          StreamDense,  \* cfg_.stream_dense_layers
          Budget,    \* cfg_.lru_budget_bytes
          Releasable,\* the sets of names release_prefix can match
          MaxHeld    \* references one product needs: gate, up, down

\* What a file's table of tensors and a configuration can give.
ASSUME WeightManagerAssumption ==
  /\ IsFiniteSet(Tensors) /\ Size \in [Tensors -> Nat \ {0}]
  /\ Experts \subseteq Tensors /\ InLayers \subseteq Tensors /\ Forced \subseteq Tensors
  /\ StreamDense \in BOOLEAN
  /\ Budget \in Nat /\ MaxHeld \in Nat
  /\ \A P \in Releasable : P \subseteq Tensors

VARIABLES
  tier,      \* Entry::tier
  data,      \* Entry::data: "empty", "good", or "torn": allocated, not the file's bytes
  older,     \* pairs of entries of tier kHotLru, the first with the lower last_use
  lru_used,  \* lru_used_
  held       \* the references taken since the last product

wvars == <<tier, data, older, lru_used, held>>

\* open(): the tier each tensor starts with.
IsResident(t) ==
  \/ t \in Forced
  \/ ~(t \in Experts \/ (StreamDense /\ t \in InLayers))

\* What open() leaves: residents loaded, a failed read of which throws unless
\* its callback comes after the fence.
Opened(t, d, o, u) ==
  /\ t = [x \in Tensors |-> IF IsResident(x) THEN "resident" ELSE "cold"]
  /\ d \in [Tensors -> {"empty", "good", "torn"}]
  /\ \A x \in Tensors : d[x] = "empty" <=> ~IsResident(x)
  /\ o = {}
  /\ u = 0

WInit == Opened(tier, data, older, lru_used) /\ held = {}

Hot == {t \in Tensors : tier[t] = "hot"}

\* What a set of tensors occupies: the bytes of each, one by one.
SizeOf(S) == Cardinality(UNION {{t} \X (1..Size[t]) : t \in S})

\* The order without some entries, and after touch(t).
Dropping(r, S) == {p \in r : p[1] \notin S /\ p[2] \notin S}
TouchedOrder(t) == Dropping(older, {t}) \cup ((Hot \ {t}) \X {t})

\* evict_until_budget, with `used` on the books and the order r of the entries H:
\* the least recently used leave, one by one, until the rest fits.
LruVictims(H, r, used) == {t \in H : used - SizeOf({x \in H : <<x, t>> \in r}) > Budget}

\* A cold entry becomes the most recent of the cache, with contents d, and
\* evict_until_budget runs.
Enter(t, d) ==
  LET used == lru_used + Size[t]
      gone == LruVictims(Hot \cup {t}, TouchedOrder(t), used)
  IN  /\ older' = Dropping(TouchedOrder(t), gone)
      /\ lru_used' = used - SizeOf(gone)
      /\ data' = [x \in Tensors |-> IF x \in gone THEN "empty" ELSE IF x = t THEN d ELSE data[x]]
      /\ tier' = [x \in Tensors |-> IF x \in gone THEN "cold" ELSE IF x = t THEN "hot" ELSE tier[x]]

CanHold == Cardinality(held) < MaxHeld
TakeRef(t) == held' = held \cup {t}

GetResident(t) ==
  /\ CanHold
  /\ tier[t] = "resident"
  /\ TakeRef(t)
  /\ UNCHANGED <<tier, data, older, lru_used>>

\* Mutant: a hit is not touched.
GetHotNoTouch(t) ==
  /\ CanHold
  /\ tier[t] = "hot"
  /\ TakeRef(t)
  /\ UNCHANGED <<tier, data, older, lru_used>>

\* A hit: touch() makes it the most recent.
GetHot(t) ==
  /\ CanHold
  /\ tier[t] = "hot"
  /\ older' = TouchedOrder(t)
  /\ TakeRef(t)
  /\ UNCHANGED <<tier, data, lru_used>>

\* A miss.  load_now reads unless data is there already, as it is after a load
\* that failed: then those bytes are taken for the tensor.  A failed read whose
\* callback comes late is not noticed either.
GetCold(t) ==
  /\ CanHold
  /\ tier[t] = "cold"
  /\ \E d \in {"good", "torn"} :
       /\ data[t] # "empty" => d = data[t]
       /\ Enter(t, d)
  /\ TakeRef(t)

\* load_now throws: the buffer stays allocated, the entry stays cold, and the
\* caller's product is abandoned.
GetColdFails(t) ==
  /\ CanHold
  /\ tier[t] = "cold"
  /\ data[t] = "empty"
  /\ data' = [data EXCEPT ![t] = "torn"]
  /\ held' = {}
  /\ UNCHANGED <<tier, older, lru_used>>

\* The product is computed; its references are dropped.
Use ==
  /\ held # {}
  /\ held' = {}
  /\ UNCHANGED <<tier, data, older, lru_used>>

\* Mutant: the tier is left as it was.
ReleasePrefixKeepsTier(P) ==
  /\ held = {}
  /\ LET gone == {t \in P : tier[t] # "resident" /\ data[t] # "empty"} IN
       /\ data' = [t \in Tensors |-> IF t \in gone THEN "empty" ELSE data[t]]
       /\ lru_used' = lru_used - SizeOf({t \in gone : tier[t] = "hot"})
  /\ UNCHANGED <<tier, older, held>>

\* release_prefix: the sliding window gives up a layer.  Its guard lru_used_ >=
\* size is always true (CacheExact).
ReleasePrefix(P) ==
  /\ held = {}
  /\ LET gone == {t \in P : tier[t] # "resident" /\ data[t] # "empty"} IN
       /\ data' = [t \in Tensors |-> IF t \in gone THEN "empty" ELSE data[t]]
       /\ tier' = [t \in Tensors |-> IF t \in gone THEN "cold" ELSE tier[t]]
       /\ older' = Dropping(older, gone)
       /\ lru_used' = lru_used - SizeOf({t \in gone : tier[t] = "hot"})
  /\ UNCHANGED held

\* close() and open() again.
Reopen ==
  /\ held = {}
  /\ Opened(tier', data', older', lru_used')
  /\ UNCHANGED held

WNext ==
  \/ \E t \in Tensors : GetResident(t) \/ GetHot(t) \/ GetCold(t) \/ GetColdFails(t)
  \/ Use
  \/ \E P \in Releasable : ReleasePrefix(P)
  \/ Reopen

WSpec == WInit /\ [][WNext]_wvars

---------------------------------------------------------------------------
\* The books are right through hits, misses, failed loads, evictions and
\* releases: lru_used_ is what the cache holds, every cached entry has its bytes
\* and its own place in the order of eviction; and what they say is within the budget whenever
\* get() has returned (weight_manager.cpp:99, 113, 143, 154).
CacheExact ==
  /\ lru_used = SizeOf(Hot)
  /\ \A t \in Hot : data[t] # "empty"
  /\ lru_used <= Budget
  /\ \A t, u \in Hot : t # u => (<<t, u>> \in older <=> <<u, t>> \notin older)

\* A caller that takes several references before it uses them (Wg, Wu, Wd of an
\* expert, moe_model.cpp:345-347) still has them all if together they fit the
\* budget: the references taken last are the ones evicted last.
HeldStaysLoaded ==
  SizeOf({t \in held : tier[t] # "resident"}) <= Budget =>
    \A t \in held : data[t] # "empty"
=============================================================================
