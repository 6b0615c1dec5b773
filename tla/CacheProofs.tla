----------------------------- MODULE CacheProofs -----------------------------
(***************************************************************************)
(* The two caches that keep weights within a budget by evicting the least  *)
(* recently used: of device buffers (DeviceCaches) and, at the end of the  *)
(* module, of host memory (WeightManager).                                 *)
(*                                                                         *)
(* For any weights, shapes, sizes, budgets, batches and threads, the       *)
(* books of the device are exact and within the budget, a product is       *)
(* taken with the weight it was asked for wherever that is promised, and   *)
(* what the warm-up pinned stays; the references one product takes from    *)
(* the cache in host memory stay loaded until it is done.                  *)
(***************************************************************************)
EXTENDS DeviceCaches, WeightManager, FiniteSetTheorems, WellFoundedInduction, TLAPS

(***************************************************************************)
(* The caches: their types, their books, and whose bytes a copy holds.     *)
(***************************************************************************)

Copies(f) == f \in [DOMAIN f -> Weights] /\ DOMAIN f \subseteq Addrs
Entries(i) == i \in [DOMAIN i -> [of : Int4, pin : BOOLEAN]] /\ DOMAIN i \subseteq Addrs

\* A copy of a shape found at its address is of what lies there, unless another
\* weight of that shape was loaded beside it.
Own(a, v) == Shape[v] = Shape[host[a]] => v = host[a] \/ a \in reused

CopiesOwn(D) ==
  /\ \A a \in DOMAIN D.i4 : Own(a, D.i4[a].of)
  /\ \A a \in DOMAIN D.fp : Own(a, D.fp[a])
  /\ \A a \in DOMAIN D.pk : Own(a, D.pk[a])

Held(D) == Total(DOMAIN D.i4, Int4Bytes(D.i4)) + Total(DOMAIN D.fp, Fp32Bytes(D.fp))
           + Total(DOMAIN D.pk, PackBytes(D.pk))

Good(D) ==
  /\ D = Caches(D.i4, D.before, D.fp, D.pk, D.used)
  /\ Entries(D.i4) /\ Copies(D.fp) /\ Copies(D.pk)
  /\ D.before \subseteq (DOMAIN D.i4) \X (DOMAIN D.i4)
  /\ D.used = Held(D) + reserve + allocs * AllocBytes
  /\ (budget > 0 /\ ~over) => D.used <= budget
  /\ CopiesOwn(D)

Plain ==
  /\ host = [a \in Addrs |-> host[a]]
  /\ budget \in Nat /\ reserve \in Nat /\ allocs \in Nat
  /\ enabled \in BOOLEAN /\ over \in BOOLEAN
  /\ faults \in Nat /\ loads \in Nat

(***************************************************************************)
(* The products under way.                                                 *)
(***************************************************************************)

Kinds == {"gemv", "vocab", "jit", "tc", "scratch", "norm", "mlp", "out"}
PathNames == {"fp32", "jit", "tc", "scratch"}
Flying == {"stage", "launch", "fold", "copy"}

Jobs == [pc : {"idle", "try", "ensure"} \cup Flying, kind : Kinds \cup {"none"},
         ws : SUBSET Weights, rest : Seq(PathNames),
         live : BOOLEAN, own : BOOLEAN, large : BOOLEAN, disturbed : BOOLEAN]

\* Why a product may be wrong.
Reused(S) == AddrsOf(S) \cap reused # {}
Excused(j) == j.disturbed \/ j.large \/ Reused(j.ws)

\* The buffer whose contents the next step of a product relies on.
Needs(j) ==
  CASE j.pc = "launch" -> From(j.kind)
    [] j.pc = "fold"   -> "mlp_norm"
    [] j.pc = "copy"   -> To(j.kind)
    [] OTHER           -> "none"

JobOK(c, j) ==
  /\ j \in Jobs
  /\ \A w \in j.ws : Loaded(w)
  /\ j.pc \in {"idle", "try", "ensure"} => j.kind = "none"
  /\ j.pc = "idle" => j.ws = {}
  /\ j.pc = "try" => j.rest # <<>> /\ j.ws \subseteq Int4
  /\ j.pc = "ensure" => j.ws \subseteq Int4
  /\ j.pc \in Flying => /\ j.kind # "none"
                        /\ Excused(j) \/ (j.own /\ j.live)
                        /\ Excused(j) \/ Needs(j) = "none" \/ Holds(Needs(j), c)
  /\ j.pc = "stage" => j.kind \in {"jit", "tc"}
  /\ j.pc = "fold" => j.kind = "out"
  /\ j.pc = "copy" => j.kind # "out"
  /\ j.rest # <<>> => j.ws \subseteq Int4

BufferOK == buf \in [Buffers -> [by : Callers \cup {NoCaller}, right : BOOLEAN]]

JobsOK ==
  /\ \E J : job \in [Callers -> J]
  /\ \A c \in Callers : JobOK(c, job[c])
  /\ BufferOK /\ ~wrong

(***************************************************************************)
(* The batch that holds g_mu.  What it has taken was used after everything *)
(* else; so the copies a later upload evicts are the batch's own only when *)
(* the batch does not fit beside what is pinned.                           *)
(***************************************************************************)

\* Some pointers may have been lost.
Hopeless(S) == Reused(S) \/ TooLarge(S)

BatchOK ==
  /\ batch \in [by : Callers \cup {NoCaller}, kind : Kinds \cup {"none"}, todo : Seq(Int4),
                live : SUBSET Addrs, ok : BOOLEAN]
  /\ \A c \in Callers : job[c].pc = "ensure" <=> batch.by = c
  /\ batch.by # NoCaller =>
       LET S == job[batch.by].ws
       IN  /\ batch.kind \in Kinds \ {"vocab", "tc", "scratch"}
           /\ Range(batch.todo) \subseteq S
           /\ batch.live \subseteq AddrsOf(S) \cap DOMAIN i4
           /\ \A w \in S : AddrOf(w) \in batch.live => Shape[i4[AddrOf(w)].of] = Shape[w]
           /\ \A x \in batch.live, y \in DOMAIN i4 \ batch.live : <<y, x>> \in before
           /\ Hopeless(S) \/ (batch.ok => \A w \in S : w \in Range(batch.todo) \/ AddrOf(w) \in batch.live)

IInv == Plain /\ Good(Now) /\ JobsOK /\ BatchOK

(***************************************************************************)
(* Totals.                                                                 *)
(***************************************************************************)

Sized(g) == g \in [DOMAIN g -> Nat] /\ IsFiniteSet(DOMAIN g)
Units(S, g) == UNION {{a} \X (1 .. g[a]) : a \in S}

\* The entries of a cache have finitely many bytes.
LEMMA TotalType ==
  ASSUME NEW g, Sized(g), NEW S, S \subseteq DOMAIN g
  PROVE  IsFiniteSet(Units(S, g)) /\ Total(S, g) \in Nat /\ Total(S, g) = Cardinality(Units(S, g))
<1>1. IsFiniteSet(S)
  BY FS_Subset DEF Sized
<1>. DEFINE P == {{t} \X (1..g[t]) : t \in S}
<1>2. IsFiniteSet(P)
  <2>. DEFINE f == [t \in S |-> {t} \X (1..g[t])]
  <2>1. f \in [S -> P] /\ \A Q \in P : \E t \in S : f[t] = Q
    OBVIOUS
  <2>2. f \in Surjection(S, P)
    <3>. HIDE DEF f, P
    <3>. QED BY <2>1 DEF Surjection
  <2>. HIDE DEF f, P
  <2>. QED BY <1>1, <2>2, FS_Surjection
<1>3. \A Q \in P : IsFiniteSet(Q)
  <2>. SUFFICES ASSUME NEW t \in S
                PROVE  IsFiniteSet({t} \X (1..g[t]))
    OBVIOUS
  <2>1. g[t] \in Int /\ 1 \in Int
    BY DEF Sized
  <2>2. IsFiniteSet({t})
    BY FS_Singleton
  <2>3. IsFiniteSet(1..g[t])
    BY <2>1, FS_Interval
  <2>. QED BY <2>2, <2>3, FS_Product
<1>4. IsFiniteSet(UNION P)
  BY <1>2, <1>3, FS_UNION
<1>. QED BY <1>4, FS_CardinalityType DEF Total, Units

\* Different entries have different bytes.
LEMMA TotalAdd ==
  ASSUME NEW g, Sized(g), NEW S, NEW T, S \subseteq DOMAIN g, T \subseteq DOMAIN g, S \cap T = {}
  PROVE  Total(S \cup T, g) = Total(S, g) + Total(T, g)
<1>1. Units(S \cup T, g) = Units(S, g) \cup Units(T, g)
  BY DEF Units
<1>2. Units(S, g) \cap Units(T, g) = {}
  BY DEF Units
<1>3. IsFiniteSet(Units(S, g)) /\ IsFiniteSet(Units(T, g))
  BY TotalType
<1>4. Cardinality(Units(S, g) \cup Units(T, g)) =
        Cardinality(Units(S, g)) + Cardinality(Units(T, g)) - Cardinality(Units(S, g) \cap Units(T, g))
  BY <1>3, FS_Union
<1>5. Cardinality({}) = 0
  BY FS_EmptySet
<1>6. /\ Total(S, g) = Cardinality(Units(S, g)) /\ Total(T, g) = Cardinality(Units(T, g))
      /\ Total(S \cup T, g) = Cardinality(Units(S \cup T, g))
      /\ Total(S, g) \in Nat /\ Total(T, g) \in Nat
  <2>1. S \cup T \subseteq DOMAIN g
    OBVIOUS
  <2>. QED BY <2>1, TotalType
<1>7. Cardinality(Units(S \cup T, g)) = Cardinality(Units(S, g) \cup Units(T, g))
  BY <1>1
<1>8. Cardinality(Units(S, g) \cap Units(T, g)) = 0
  BY <1>2, <1>5
<1>. QED BY <1>4, <1>6, <1>7, <1>8

\* What is left without some entries, and fewer entries are no more.
LEMMA TotalRest ==
  ASSUME NEW g, Sized(g), NEW T, T \subseteq DOMAIN g, NEW S, S \subseteq T
  PROVE  /\ Total(T \ S, g) = Total(T, g) - Total(S, g)
         /\ Total(S, g) <= Total(T, g) /\ Total(S, g) \in Nat /\ Total(T, g) \in Nat
<1>1. (T \ S) \cup S = T /\ (T \ S) \cap S = {} /\ T \ S \subseteq DOMAIN g /\ S \subseteq DOMAIN g
  OBVIOUS
<1>2. Total((T \ S) \cup S, g) = Total(T \ S, g) + Total(S, g)
  BY <1>1, TotalAdd
<1>3. Total(T \ S, g) \in Nat /\ Total(S, g) \in Nat /\ Total(T, g) \in Nat
  BY <1>1, TotalType
<1>4. Total((T \ S) \cup S, g) = Total(T, g)
  BY <1>1
<1>. QED BY <1>2, <1>3, <1>4

LEMMA TotalOne ==
  ASSUME NEW g, Sized(g), NEW t \in DOMAIN g
  PROVE  Total({t}, g) = g[t] /\ g[t] \in Nat
<1>1. g[t] \in Nat /\ g[t] \in Int
  BY DEF Sized
<1>2. Units({t}, g) = {t} \X (1..g[t])
  BY DEF Units
<1>3. IsFiniteSet({t}) /\ Cardinality({t}) = 1
  BY FS_Singleton
<1>4. IsFiniteSet(1..g[t]) /\ Cardinality(1..g[t]) = IF 1 > g[t] THEN 0 ELSE g[t] - 1 + 1
  BY <1>1, FS_Interval
<1>5. Cardinality({t} \X (1..g[t])) = Cardinality({t}) * Cardinality(1..g[t])
  BY <1>3, <1>4, FS_Product, Zenon
<1>6. Total({t}, g) = Cardinality({t} \X (1..g[t]))
  BY <1>2, TotalType
<1>. QED BY <1>1, <1>3, <1>4, <1>5, <1>6

\* A total only depends on the sizes of its entries.
LEMMA TotalSame ==
  ASSUME NEW g, NEW h, NEW S, \A a \in S : g[a] = h[a]
  PROVE  Total(S, g) = Total(S, h)
<1>1. \A a \in S : {a} \X (1 .. g[a]) = {a} \X (1 .. h[a])
  OBVIOUS
<1>2. Units(S, g) = Units(S, h)
  BY <1>1 DEF Units
<1>. QED BY <1>2 DEF Total, Units


(***************************************************************************)
(* The caches after evictions and uploads.                                 *)
(***************************************************************************)

LEMMA SizedCaches ==
  ASSUME NEW D, Good(D)
  PROVE  /\ Sized(Int4Bytes(D.i4)) /\ Sized(Fp32Bytes(D.fp)) /\ Sized(PackBytes(D.pk))
         /\ DOMAIN Int4Bytes(D.i4) = DOMAIN D.i4 /\ DOMAIN Fp32Bytes(D.fp) = DOMAIN D.fp
         /\ DOMAIN PackBytes(D.pk) = DOMAIN D.pk
<1>. USE DeviceCachesAssumption
<1>1. IsFiniteSet(DOMAIN D.i4) /\ IsFiniteSet(DOMAIN D.fp) /\ IsFiniteSet(DOMAIN D.pk)
  BY FS_Subset DEF Good, Entries, Copies
<1>2. \A a \in DOMAIN D.i4 : Bytes[D.i4[a].of].q \in Nat
  BY DEF Good, Entries, Weights
<1>3. \A a \in DOMAIN D.fp : Bytes[D.fp[a]].f \in Nat
  BY DEF Good, Copies
<1>4. \A a \in DOMAIN D.pk : Bytes[D.pk[a]].h \in Nat
  BY DEF Good, Copies
<1>. QED BY <1>1, <1>2, <1>3, <1>4 DEF Sized, Int4Bytes, Fp32Bytes, PackBytes

LEMMA UsedNat ==
  ASSUME Plain, NEW D, Good(D)
  PROVE  /\ D.used \in Nat /\ Held(D) \in Nat /\ reserve \in Nat /\ allocs * AllocBytes \in Nat
         /\ Total(DOMAIN D.i4, Int4Bytes(D.i4)) \in Nat /\ Total(DOMAIN D.fp, Fp32Bytes(D.fp)) \in Nat
         /\ Total(DOMAIN D.pk, PackBytes(D.pk)) \in Nat
<1>1. /\ Total(DOMAIN D.i4, Int4Bytes(D.i4)) \in Nat /\ Total(DOMAIN D.fp, Fp32Bytes(D.fp)) \in Nat
      /\ Total(DOMAIN D.pk, PackBytes(D.pk)) \in Nat
  BY SizedCaches, TotalType
<1>2. reserve \in Nat /\ allocs * AllocBytes \in Nat
  BY DeviceCachesAssumption DEF Plain
<1>. QED BY <1>1, <1>2 DEF Good, Held

LEMMA TotalGrown ==
  ASSUME NEW g, NEW h, Sized(g), Sized(h), NEW x, x \notin DOMAIN g,
         DOMAIN h = DOMAIN g \cup {x}, \A a \in DOMAIN g : h[a] = g[a]
  PROVE  Total(DOMAIN h, h) = Total(DOMAIN g, g) + h[x]
<1>1. Total(DOMAIN g \cup {x}, h) = Total(DOMAIN g, h) + Total({x}, h)
  <2>1. DOMAIN g \subseteq DOMAIN h /\ {x} \subseteq DOMAIN h /\ DOMAIN g \cap {x} = {}
    OBVIOUS
  <2>. QED BY <2>1, TotalAdd
<1>2. Total({x}, h) = h[x]
  BY TotalOne
<1>3. Total(DOMAIN g, h) = Total(DOMAIN g, g)
  BY TotalSame
<1>. QED BY <1>1, <1>2, <1>3

LEMMA TotalShrunk ==
  ASSUME NEW g, NEW h, Sized(g), NEW S, S \subseteq DOMAIN g,
         DOMAIN h = DOMAIN g \ S, \A a \in DOMAIN h : h[a] = g[a]
  PROVE  Total(DOMAIN h, h) = Total(DOMAIN g, g) - Total(S, g)
<1>1. Total(DOMAIN g \ S, g) = Total(DOMAIN g, g) - Total(S, g)
  BY TotalRest
<1>2. Total(DOMAIN h, h) = Total(DOMAIN h, g)
  BY TotalSame
<1>. QED BY <1>1, <1>2

LEMMA AddrFacts ==
  ASSUME NEW w, Loaded(w)
  PROVE  AddrOf(w) \in Addrs /\ host[AddrOf(w)] = w
BY DEF AddrOf, Loaded

\* The pinned entries of i, as they are in e.
Kept(i, e) == \A a \in DOMAIN i : i[a].pin => a \in DOMAIN e /\ e[a] = i[a]

\* The books without what can be evicted.
Fixed(D) == D.used - Total(Unpinned(D.i4), Int4Bytes(D.i4))

LEMMA EvictFields ==
  ASSUME NEW D, NEW gone
  PROVE  LET E == Evict(D, gone)
         IN  /\ DOMAIN E.i4 = DOMAIN D.i4 \ gone
             /\ \A a \in DOMAIN D.i4 \ gone : E.i4[a] = D.i4[a]
             /\ E.before = Without(D.before, gone)
             /\ E.fp = D.fp /\ E.pk = D.pk
             /\ E.used = D.used - Total(gone, Int4Bytes(D.i4))
             /\ E = Caches(E.i4, E.before, E.fp, E.pk, E.used)
BY DEF Evict, Caches, Restrict

LEMMA EvictGood ==
  ASSUME Plain, NEW D, Good(D), NEW gone, gone \subseteq Unpinned(D.i4)
  PROVE  LET E == Evict(D, gone)
         IN  Good(E) /\ Kept(D.i4, E.i4) /\ Fixed(E) = Fixed(D)
<1>. DEFINE E == Evict(D, gone)
<1>1. /\ DOMAIN E.i4 = DOMAIN D.i4 \ gone
      /\ \A a \in DOMAIN D.i4 \ gone : E.i4[a] = D.i4[a]
      /\ E.before = Without(D.before, gone)
      /\ E.fp = D.fp /\ E.pk = D.pk
      /\ E.used = D.used - Total(gone, Int4Bytes(D.i4))
      /\ E = Caches(E.i4, E.before, E.fp, E.pk, E.used)
  BY EvictFields
<1>. HIDE DEF E
<1>2. gone \subseteq DOMAIN D.i4 /\ \A a \in gone : ~D.i4[a].pin
  BY DEF Unpinned
<1>3. Entries(E.i4)
  <2>1. E.i4 = [a \in DOMAIN E.i4 |-> E.i4[a]]
    <3>1. E.i4 = Restrict(D.i4, DOMAIN D.i4 \ gone)
      BY DEF E, Evict, Caches
    <3>. QED BY <3>1 DEF Restrict
  <2>2. \A a \in DOMAIN E.i4 : E.i4[a] \in [of : Int4, pin : BOOLEAN] /\ a \in Addrs
    BY <1>1 DEF Good, Entries
  <2>. QED BY <2>1, <2>2 DEF Entries
<1>. DEFINE g == Int4Bytes(D.i4)
            h == Int4Bytes(E.i4)
<1>4. /\ Sized(g) /\ DOMAIN g = DOMAIN D.i4 /\ DOMAIN h = DOMAIN g \ gone
      /\ \A a \in DOMAIN h : h[a] = g[a]
  <2>1. Sized(g) /\ DOMAIN g = DOMAIN D.i4
    BY SizedCaches
  <2>. QED BY <1>1, <2>1 DEF Int4Bytes
<1>. HIDE DEF g, h
<1>5. Total(DOMAIN E.i4, h) = Total(DOMAIN D.i4, g) - Total(gone, g)
  <2>1. gone \subseteq DOMAIN g /\ DOMAIN h = DOMAIN E.i4
    BY <1>1, <1>2, <1>4
  <2>2. Total(DOMAIN h, h) = Total(DOMAIN g, g) - Total(gone, g)
    BY <1>4, <2>1, TotalShrunk
  <2>. QED BY <1>4, <2>1, <2>2
<1>6. Total(gone, g) \in Nat /\ Total(DOMAIN D.i4, g) \in Nat
  BY <1>2, <1>4, TotalType
<1>7. E.used = Held(E) + reserve + allocs * AllocBytes /\ E.used <= D.used
  <2>1. D.used = Held(D) + reserve + allocs * AllocBytes /\ D.used \in Nat /\ reserve \in Nat
        /\ allocs * AllocBytes \in Nat
    BY UsedNat DEF Good
  <2>2. Total(DOMAIN D.fp, Fp32Bytes(D.fp)) \in Nat /\ Total(DOMAIN D.pk, PackBytes(D.pk)) \in Nat
    BY UsedNat
  <2>3. Held(E) = Held(D) - Total(gone, g)
    BY <1>1, <1>5, <1>6, <2>2 DEF Held, g, h
  <2>4. E.used = D.used - Total(gone, g)
    BY <1>1 DEF g
  <2>5. Held(D) \in Nat
    BY UsedNat
  <2>. QED BY <1>6, <2>1, <2>3, <2>4, <2>5
<1>8. CopiesOwn(E)
  BY <1>1 DEF Good, CopiesOwn
<1>9. Good(E)
  <2>1. E.before \subseteq (DOMAIN E.i4) \X (DOMAIN E.i4)
    BY <1>1 DEF Good, Without
  <2>2. (budget > 0 /\ ~over) => E.used <= budget
    <3>1. (budget > 0 /\ ~over) => D.used <= budget
      BY DEF Good
    <3>2. budget \in Nat /\ D.used \in Nat /\ E.used \in Int
      <4>1. E.used = D.used - Total(gone, g)
        BY <1>1 DEF g
      <4>. QED BY <4>1, <1>6, UsedNat DEF Plain
    <3>. QED BY <1>7, <3>1, <3>2
  <2>3. Copies(E.fp) /\ Copies(E.pk)
    BY <1>1 DEF Good
  <2>. QED BY <1>1, <1>3, <1>7, <1>8, <2>1, <2>2, <2>3 DEF Good
<1>10. Kept(D.i4, E.i4)
  BY <1>1, <1>2 DEF Kept
<1>11. Fixed(E) = Fixed(D)
  <2>. DEFINE U == Unpinned(D.i4)
  <2>1. Unpinned(E.i4) = U \ gone
    BY <1>1 DEF Unpinned
  <2>2. U \subseteq DOMAIN g /\ gone \subseteq U
    BY <1>4 DEF Unpinned
  <2>. HIDE DEF U
  <2>3. Total(U \ gone, g) = Total(U, g) - Total(gone, g) /\ Total(U, g) \in Nat
    BY <1>4, <2>2, TotalRest
  <2>4. Total(U \ gone, h) = Total(U \ gone, g)
    <3>1. \A a \in U \ gone : h[a] = g[a]
      BY <1>4, <2>2
    <3>. QED BY <3>1, TotalSame
  <2>5. Fixed(E) = E.used - Total(U \ gone, h) /\ Fixed(D) = D.used - Total(U, g)
    BY <2>1 DEF Fixed, h, g, U
  <2>6. E.used = D.used - Total(gone, g) /\ D.used \in Nat
    BY <1>1, UsedNat DEF g
  <2>. QED BY <1>6, <2>3, <2>4, <2>5, <2>6
<1>. QED BY <1>9, <1>10, <1>11 DEF E


LEMMA UploadGood ==
  ASSUME Plain, NEW D, Good(D), NEW w \in Int4, Loaded(w), NEW x, x = AddrOf(w),
         x \notin DOMAIN D.i4, Fits(D.used + Bytes[w].q)
  PROVE  LET E == Upload(D, x, w)
         IN  Good(E) /\ Kept(D.i4, E.i4) /\ Fixed(E) = Fixed(D)
<1>. DEFINE E == Upload(D, x, w)
            g == Int4Bytes(D.i4)
            h == Int4Bytes(E.i4)
<1>1. /\ E = Caches(E.i4, E.before, E.fp, E.pk, E.used)
      /\ E.i4 = With(D.i4, x, [of |-> w, pin |-> FALSE])
      /\ E.before = Latest(D.before, D.i4, x)
      /\ E.fp = D.fp /\ E.pk = D.pk /\ E.used = D.used + Bytes[w].q
  BY DEF Upload, Caches
<1>. HIDE DEF E
<1>2. /\ DOMAIN E.i4 = DOMAIN D.i4 \cup {x}
      /\ E.i4[x] = [of |-> w, pin |-> FALSE]
      /\ \A a \in DOMAIN D.i4 : E.i4[a] = D.i4[a]
  BY <1>1 DEF With
<1>3. x \in Addrs /\ host[x] = w
  BY AddrFacts
<1>4. Bytes[w].q \in Nat
  BY DeviceCachesAssumption DEF Weights
<1>5. Entries(E.i4)
  <2>1. E.i4 = [a \in DOMAIN E.i4 |-> E.i4[a]]
    BY <1>1 DEF With
  <2>2. [of |-> w, pin |-> FALSE] \in [of : Int4, pin : BOOLEAN]
    OBVIOUS
  <2>3. \A a \in DOMAIN D.i4 : D.i4[a] \in [of : Int4, pin : BOOLEAN] /\ a \in Addrs
    BY DEF Good, Entries
  <2>4. \A a \in DOMAIN E.i4 : E.i4[a] \in [of : Int4, pin : BOOLEAN] /\ a \in Addrs
    BY <1>2, <1>3, <2>2, <2>3, Zenon
  <2>. QED BY <2>1, <2>4 DEF Entries
<1>6. /\ Sized(g) /\ Sized(h) /\ DOMAIN g = DOMAIN D.i4 /\ DOMAIN h = DOMAIN g \cup {x}
      /\ \A a \in DOMAIN g : h[a] = g[a]
      /\ h[x] = Bytes[w].q
  <2>1. Sized(g) /\ DOMAIN g = DOMAIN D.i4
    BY SizedCaches
  <2>2. DOMAIN h = DOMAIN g \cup {x} /\ h[x] = Bytes[w].q /\ \A a \in DOMAIN g : h[a] = g[a]
    BY <1>2, <2>1 DEF Int4Bytes
  <2>3. IsFiniteSet(DOMAIN h)
    BY <2>1, <2>2, FS_AddElement DEF Sized
  <2>4. \A a \in DOMAIN h : h[a] \in Nat
    BY <1>4, <2>1, <2>2 DEF Sized
  <2>5. h = [a \in DOMAIN h |-> h[a]]
    BY DEF Int4Bytes
  <2>. QED BY <2>1, <2>2, <2>3, <2>4, <2>5 DEF Sized
<1>. HIDE DEF g, h
<1>7. Total(DOMAIN E.i4, h) = Total(DOMAIN D.i4, g) + Bytes[w].q
  <2>1. x \notin DOMAIN g
    BY <1>6
  <2>2. Total(DOMAIN h, h) = Total(DOMAIN g, g) + h[x]
    BY <1>6, <2>1, TotalGrown
  <2>. QED BY <1>2, <1>6, <2>2
<1>8. E.used = Held(E) + reserve + allocs * AllocBytes
  <2>1. D.used = Held(D) + reserve + allocs * AllocBytes /\ Held(D) \in Nat /\ reserve \in Nat
        /\ allocs * AllocBytes \in Nat
    BY UsedNat DEF Good
  <2>2. /\ Total(DOMAIN D.fp, Fp32Bytes(D.fp)) \in Nat /\ Total(DOMAIN D.pk, PackBytes(D.pk)) \in Nat
        /\ Total(DOMAIN D.i4, g) \in Nat
    BY UsedNat DEF g
  <2>3. Held(E) = Held(D) + Bytes[w].q
    BY <1>1, <1>4, <1>7, <2>2 DEF Held, g, h
  <2>. QED BY <1>1, <1>4, <2>1, <2>3
<1>9. CopiesOwn(E)
  <2>1. \A a \in DOMAIN E.i4 : Own(a, E.i4[a].of)
    BY <1>2, <1>3 DEF Good, CopiesOwn, Own
  <2>. QED BY <1>1, <2>1 DEF Good, CopiesOwn
<1>10. Good(E)
  <2>1. E.before \subseteq (DOMAIN E.i4) \X (DOMAIN E.i4)
    BY <1>1, <1>2 DEF Good, Latest, Without
  <2>2. (budget > 0 /\ ~over) => E.used <= budget
    BY <1>1 DEF Fits, Plain
  <2>3. Copies(E.fp) /\ Copies(E.pk)
    BY <1>1 DEF Good
  <2>. QED BY <1>1, <1>5, <1>8, <1>9, <2>1, <2>2, <2>3 DEF Good
<1>11. Kept(D.i4, E.i4)
  BY <1>2 DEF Kept
<1>12. Fixed(E) = Fixed(D)
  <2>. DEFINE U == Unpinned(D.i4)
  <2>1. Unpinned(E.i4) = U \cup {x}
    BY <1>2 DEF Unpinned
  <2>2. U \subseteq DOMAIN h /\ {x} \subseteq DOMAIN h /\ U \cap {x} = {} /\ U \subseteq DOMAIN g
    BY <1>6 DEF Unpinned
  <2>. HIDE DEF U
  <2>3. Total(U \cup {x}, h) = Total(U, h) + Total({x}, h)
    BY <1>6, <2>2, TotalAdd
  <2>4. Total({x}, h) = Bytes[w].q
    BY <1>6, TotalOne
  <2>5. Total(U, h) = Total(U, g)
    <3>1. \A a \in U : h[a] = g[a]
      BY <1>6, <2>2
    <3>. QED BY <3>1, TotalSame
  <2>6. Fixed(E) = E.used - Total(U \cup {x}, h) /\ Fixed(D) = D.used - Total(U, g)
    BY <2>1 DEF Fixed, h, g, U
  <2>7. Total(U, g) \in Nat /\ D.used \in Nat
    BY <1>6, <2>2, TotalType, UsedNat
  <2>. QED BY <1>1, <1>4, <2>3, <2>4, <2>5, <2>6, <2>7
<1>. QED BY <1>10, <1>11, <1>12 DEF E

LEMMA TouchGood ==
  ASSUME Plain, NEW D, Good(D), NEW x \in DOMAIN D.i4
  PROVE  LET E == Touch(D, x)
         IN  Good(E) /\ Kept(D.i4, E.i4) /\ Fixed(E) = Fixed(D)
<1>. DEFINE E == Touch(D, x)
<1>1. /\ E = Caches(E.i4, E.before, E.fp, E.pk, E.used)
      /\ E.i4 = D.i4 /\ E.before = Latest(D.before, D.i4, x)
      /\ E.fp = D.fp /\ E.pk = D.pk /\ E.used = D.used
  BY DEF Touch, Caches
<1>. HIDE DEF E
<1>2. E.before \subseteq (DOMAIN E.i4) \X (DOMAIN E.i4)
  BY <1>1 DEF Good, Latest, Without
<1>3. Held(E) = Held(D) /\ CopiesOwn(E) /\ Fixed(E) = Fixed(D) /\ Kept(D.i4, E.i4)
  BY <1>1 DEF Held, Good, CopiesOwn, Fixed, Kept
<1>4. Good(E)
  BY <1>1, <1>2, <1>3 DEF Good
<1>. QED BY <1>3, <1>4 DEF E

(***************************************************************************)
(* What every outcome of an ensure_ function respects.                     *)
(***************************************************************************)

Found(E, w) == AddrOf(w) \in DOMAIN E.i4 /\ Shape[E.i4[AddrOf(w)].of] = Shape[w]

Sound(D, o) ==
  /\ Good(o.D) /\ Kept(D.i4, o.D.i4) /\ Fixed(o.D) = Fixed(D)
  /\ o.gone \subseteq DOMAIN D.i4 /\ o.f \in Nat

\* The entries and their order, when w was asked for.
Ordered(D, o, w) ==
  LET x == AddrOf(w)
  IN  /\ DOMAIN D.i4 \ o.gone \subseteq DOMAIN o.D.i4
      /\ DOMAIN o.D.i4 \subseteq (DOMAIN D.i4 \ o.gone) \cup {x}
      /\ \A a \in DOMAIN D.i4 \ o.gone : o.D.i4[a] = D.i4[a]
      /\ \A y, l \in DOMAIN D.i4 \ (o.gone \cup {x}) : <<y, l>> \in D.before => <<y, l>> \in o.D.before
      /\ o.ok => \A y \in DOMAIN o.D.i4 \ {x} : <<y, x>> \in o.D.before
      /\ o.gone # {} => x \notin DOMAIN D.i4 /\ o.gone \subseteq Victims(D, Bytes[w].q)

LEMMA VictimsUnpinned ==
  ASSUME NEW D, NEW need
  PROVE  Victims(D, need) \subseteq Unpinned(D.i4) /\ Unpinned(D.i4) \subseteq DOMAIN D.i4
BY DEF Victims, Oldest, Unpinned

LEMMA EvictOrdered ==
  ASSUME NEW D, Good(D), NEW w \in Int4, AddrOf(w) \notin DOMAIN D.i4, NEW gone,
         gone = Victims(D, Bytes[w].q), NEW f
  PROVE  Ordered(D, Out(Evict(D, gone), FALSE, gone, f), w)
<1>1. PICK E : E = Evict(D, gone)
  OBVIOUS
<1>2. /\ DOMAIN E.i4 = DOMAIN D.i4 \ gone
      /\ \A a \in DOMAIN D.i4 \ gone : E.i4[a] = D.i4[a]
      /\ E.before = Without(D.before, gone)
  BY <1>1, EvictFields
<1>3. PICK o : o = Out(E, FALSE, gone, f)
  OBVIOUS
<1>4. o.D = E /\ o.ok = FALSE /\ o.gone = gone
  BY <1>3, Zenon DEF Out
<1>5. \A y, l \in DOMAIN D.i4 \ (gone \cup {AddrOf(w)}) : <<y, l>> \in D.before => <<y, l>> \in E.before
  BY <1>2 DEF Without
<1>6. Ordered(D, o, w)
  BY <1>2, <1>4, <1>5 DEF Ordered
<1>. QED BY <1>1, <1>3, <1>6

LEMMA UploadOrdered ==
  ASSUME NEW D, Good(D), NEW w \in Int4, AddrOf(w) \notin DOMAIN D.i4, NEW gone,
         gone = Victims(D, Bytes[w].q)
  PROVE  /\ Ordered(D, Out(Upload(Evict(D, gone), AddrOf(w), w), TRUE, gone, 0), w)
         /\ Found(Upload(Evict(D, gone), AddrOf(w), w), w)
<1>1. PICK E : E = Evict(D, gone)
  OBVIOUS
<1>2. /\ DOMAIN E.i4 = DOMAIN D.i4 \ gone
      /\ \A a \in DOMAIN D.i4 \ gone : E.i4[a] = D.i4[a]
      /\ E.before = Without(D.before, gone)
  BY <1>1, EvictFields
<1>3. PICK x : x = AddrOf(w)
  OBVIOUS
<1>4. PICK F : F = Upload(E, x, w)
  OBVIOUS
<1>5. F.i4 = With(E.i4, x, [of |-> w, pin |-> FALSE]) /\ F.before = Latest(E.before, E.i4, x)
  BY <1>4 DEF Upload, Caches
<1>6. /\ DOMAIN F.i4 = DOMAIN E.i4 \cup {x} /\ F.i4[x] = [of |-> w, pin |-> FALSE]
      /\ \A a \in DOMAIN E.i4 : F.i4[a] = E.i4[a]
  BY <1>2, <1>3, <1>5 DEF With
<1>7. PICK o : o = Out(F, TRUE, gone, 0)
  OBVIOUS
<1>8. o.D = F /\ o.ok = TRUE /\ o.gone = gone
  BY <1>7, Zenon DEF Out
<1>9. \A y, l \in DOMAIN D.i4 \ (gone \cup {x}) : <<y, l>> \in D.before => <<y, l>> \in F.before
  BY <1>2, <1>5 DEF Without, Latest
<1>10. \A y \in DOMAIN F.i4 \ {x} : <<y, x>> \in F.before
  BY <1>5, <1>6 DEF Latest
<1>11. Ordered(D, o, w)
  BY <1>2, <1>3, <1>6, <1>8, <1>9, <1>10 DEF Ordered
<1>12. Found(F, w)
  BY <1>3, <1>6 DEF Found
<1>. QED BY <1>1, <1>3, <1>4, <1>7, <1>11, <1>12

LEMMA TouchOrdered ==
  ASSUME NEW D, Good(D), NEW w \in Int4, AddrOf(w) \in DOMAIN D.i4
  PROVE  Ordered(D, Out(Touch(D, AddrOf(w)), TRUE, {}, 0), w)
<1>1. PICK x : x = AddrOf(w)
  OBVIOUS
<1>2. PICK E : E = Touch(D, x)
  OBVIOUS
<1>3. E.i4 = D.i4 /\ E.before = Latest(D.before, D.i4, x)
  BY <1>2 DEF Touch, Caches
<1>4. PICK o : o = Out(E, TRUE, {}, 0)
  OBVIOUS
<1>5. o.D = E /\ o.gone = {}
  BY <1>4, Zenon DEF Out
<1>6. \A y \in DOMAIN E.i4 \ {x} : <<y, x>> \in E.before
  BY <1>3 DEF Latest
<1>7. \A y, l \in DOMAIN D.i4 \ {x} : <<y, l>> \in D.before => <<y, l>> \in E.before
  BY <1>3 DEF Latest, Without
<1>8. Ordered(D, o, w)
  BY <1>1, <1>3, <1>5, <1>6, <1>7 DEF Ordered
<1>. QED BY <1>1, <1>2, <1>4, <1>8


LEMMA EvictOutcome ==
  ASSUME Plain, NEW D, Good(D), NEW w \in Int4, Loaded(w), AddrOf(w) \notin DOMAIN D.i4,
         NEW gone, gone = Victims(D, Bytes[w].q), NEW f \in Nat
  PROVE  LET o == Out(Evict(D, gone), FALSE, gone, f)
         IN  Sound(D, o) /\ Ordered(D, o, w) /\ ~o.ok
<1>1. PICK o : o = Out(Evict(D, gone), FALSE, gone, f)
  OBVIOUS
<1>2. o.D = Evict(D, gone) /\ o.ok = FALSE /\ o.gone = gone /\ o.f = f
  BY <1>1, Zenon DEF Out
<1>3. gone \subseteq Unpinned(D.i4) /\ gone \subseteq DOMAIN D.i4
  BY VictimsUnpinned
<1>4. Good(o.D) /\ Kept(D.i4, o.D.i4) /\ Fixed(o.D) = Fixed(D)
  BY <1>2, <1>3, EvictGood
<1>5. Ordered(D, o, w)
  BY <1>1, EvictOrdered
<1>. QED BY <1>1, <1>2, <1>3, <1>4, <1>5 DEF Sound

LEMMA UploadOutcome ==
  ASSUME Plain, NEW D, Good(D), NEW w \in Int4, Loaded(w), AddrOf(w) \notin DOMAIN D.i4,
         NEW gone, gone = Victims(D, Bytes[w].q), Fits(Evict(D, gone).used + Bytes[w].q)
  PROVE  LET o == Out(Upload(Evict(D, gone), AddrOf(w), w), TRUE, gone, 0)
         IN  Sound(D, o) /\ Ordered(D, o, w) /\ Found(o.D, w)
<1>0. PICK E : E = Evict(D, gone)
  OBVIOUS
<1>1. PICK F : F = Upload(E, AddrOf(w), w)
  OBVIOUS
<1>2. PICK o : o = Out(F, TRUE, gone, 0)
  OBVIOUS
<1>3. o.D = F /\ o.gone = gone /\ o.f = 0
  BY <1>2, Zenon DEF Out
<1>4. gone \subseteq Unpinned(D.i4) /\ gone \subseteq DOMAIN D.i4
  BY VictimsUnpinned
<1>5. Good(E) /\ Kept(D.i4, E.i4) /\ Fixed(E) = Fixed(D) /\ DOMAIN E.i4 = DOMAIN D.i4 \ gone
  BY <1>0, <1>4, EvictGood, EvictFields
<1>6. Good(F) /\ Kept(E.i4, F.i4) /\ Fixed(F) = Fixed(E)
  <2>1. AddrOf(w) \notin DOMAIN E.i4 /\ Fits(E.used + Bytes[w].q)
    BY <1>0, <1>5
  <2>. QED BY <1>1, <1>5, <2>1, UploadGood
<1>7. Kept(D.i4, F.i4)
  <2>. SUFFICES ASSUME NEW a \in DOMAIN D.i4, D.i4[a].pin
                PROVE  a \in DOMAIN F.i4 /\ F.i4[a] = D.i4[a]
    BY DEF Kept
  <2>1. a \in DOMAIN E.i4 /\ E.i4[a] = D.i4[a]
    BY <1>5 DEF Kept
  <2>2. E.i4[a].pin
    BY <2>1, Zenon
  <2>. QED BY <1>6, <2>1, <2>2 DEF Kept
<1>8. Ordered(D, o, w) /\ Found(F, w)
  BY <1>0, <1>1, <1>2, UploadOrdered
<1>9. Sound(D, o)
  <2>1. Fixed(F) = Fixed(D)
    BY <1>5, <1>6
  <2>2. Good(o.D) /\ Kept(D.i4, o.D.i4) /\ Fixed(o.D) = Fixed(D)
    BY <1>3, <1>6, <1>7, <2>1
  <2>. QED BY <1>3, <1>4, <2>2 DEF Sound
<1>. QED BY <1>0, <1>1, <1>2, <1>3, <1>8, <1>9

LEMMA MissOutcome ==
  ASSUME Plain, NEW D, Good(D), NEW w \in Int4, Loaded(w), AddrOf(w) \notin DOMAIN D.i4,
         NEW o \in EnsureInt4(D, w)
  PROVE  Sound(D, o) /\ Ordered(D, o, w) /\ (o.ok => Found(o.D, w))
<1>1. PICK gone : gone = Victims(D, Bytes[w].q)
  OBVIOUS
<1>2. \/ o = Out(Evict(D, gone), FALSE, gone, 0)
      \/ o = Out(Evict(D, gone), FALSE, gone, 1)
      \/ /\ Fits(Evict(D, gone).used + Bytes[w].q)
         /\ o = Out(Upload(Evict(D, gone), AddrOf(w), w), TRUE, gone, 0)
  BY <1>1, Zenon DEF EnsureInt4, Missed
<1>3. CASE o = Out(Evict(D, gone), FALSE, gone, 0)
  <2>1. 0 \in Nat
    OBVIOUS
  <2>. QED BY <1>1, <1>3, <2>1, EvictOutcome
<1>4. CASE o = Out(Evict(D, gone), FALSE, gone, 1)
  <2>1. 1 \in Nat
    OBVIOUS
  <2>. QED BY <1>1, <1>4, <2>1, EvictOutcome
<1>5. CASE /\ Fits(Evict(D, gone).used + Bytes[w].q)
           /\ o = Out(Upload(Evict(D, gone), AddrOf(w), w), TRUE, gone, 0)
  BY <1>1, <1>5, UploadOutcome
<1>. QED BY <1>2, <1>3, <1>4, <1>5

LEMMA Int4Outcome ==
  ASSUME Plain, NEW D, Good(D), NEW w \in Int4, Loaded(w), NEW o \in EnsureInt4(D, w)
  PROVE  Sound(D, o) /\ Ordered(D, o, w) /\ (o.ok => Found(o.D, w))
<1>1. CASE AddrOf(w) \notin DOMAIN D.i4
  BY <1>1, MissOutcome
<1>2. CASE AddrOf(w) \in DOMAIN D.i4 /\ Shape[D.i4[AddrOf(w)].of] # Shape[w]
  <2>1. o = Out(D, FALSE, {}, 0)
    BY <1>2, Zenon DEF EnsureInt4
  <2>2. o.D = D /\ o.ok = FALSE /\ o.gone = {} /\ o.f = 0
    BY <2>1, Zenon DEF Out
  <2>3. Sound(D, o)
    BY <2>2 DEF Sound, Kept
  <2>4. Ordered(D, o, w)
    BY <2>2 DEF Ordered
  <2>. QED BY <2>2, <2>3, <2>4
<1>3. CASE AddrOf(w) \in DOMAIN D.i4 /\ Shape[D.i4[AddrOf(w)].of] = Shape[w]
  <2>1. o = Out(Touch(D, AddrOf(w)), TRUE, {}, 0)
    BY <1>3, Zenon DEF EnsureInt4
  <2>2. PICK E : E = Touch(D, AddrOf(w))
    OBVIOUS
  <2>3. o.D = E /\ o.gone = {} /\ o.f = 0
    BY <2>1, <2>2, Zenon DEF Out
  <2>4. Good(E) /\ Kept(D.i4, E.i4) /\ Fixed(E) = Fixed(D)
    BY <1>3, <2>2, TouchGood
  <2>5. Found(E, w)
    BY <1>3, <2>2 DEF Touch, Caches, Found
  <2>6. Ordered(D, o, w)
    BY <1>3, <2>1, TouchOrdered
  <2>7. Sound(D, o)
    BY <2>3, <2>4 DEF Sound
  <2>. QED BY <2>3, <2>5, <2>6, <2>7
<1>. QED BY <1>1, <1>2, <1>3

(***************************************************************************)
(* The other caches.                                                       *)
(***************************************************************************)


\* A cache that gained a copy of w.
LEMMA CopyAdded ==
  ASSUME NEW F, Copies(F), NEW x \in Addrs, x \notin DOMAIN F, NEW w \in Weights,
         NEW f, f = With(F, x, w)
  PROVE  /\ Copies(f) /\ DOMAIN f = DOMAIN F \cup {x} /\ f[x] = w
         /\ \A a \in DOMAIN F : f[a] = F[a]
         /\ Bytes[w].f \in Nat /\ Bytes[w].h \in Nat
         /\ Total(DOMAIN f, Fp32Bytes(f)) = Total(DOMAIN F, Fp32Bytes(F)) + Bytes[w].f
         /\ Total(DOMAIN f, PackBytes(f)) = Total(DOMAIN F, PackBytes(F)) + Bytes[w].h
<1>1. DOMAIN f = DOMAIN F \cup {x} /\ f[x] = w /\ \A a \in DOMAIN F : f[a] = F[a]
  BY DEF With
<1>2. Copies(f)
  <2>1. f = [a \in DOMAIN f |-> f[a]]
    BY DEF With
  <2>2. \A a \in DOMAIN f : f[a] \in Weights /\ a \in Addrs
    BY <1>1 DEF Copies
  <2>. QED BY <2>1, <2>2 DEF Copies
<1>3. /\ IsFiniteSet(DOMAIN F) /\ IsFiniteSet(DOMAIN f)
      /\ \A v \in Weights : Bytes[v].f \in Nat /\ Bytes[v].h \in Nat
  BY <1>2, FS_Subset, DeviceCachesAssumption DEF Copies
<1>4. Total(DOMAIN f, Fp32Bytes(f)) = Total(DOMAIN F, Fp32Bytes(F)) + Bytes[w].f
  <2>. DEFINE g == Fp32Bytes(F)
              h == Fp32Bytes(f)
  <2>1. /\ Sized(g) /\ Sized(h) /\ DOMAIN g = DOMAIN F /\ DOMAIN h = DOMAIN f
        /\ h[x] = Bytes[w].f
        /\ \A a \in DOMAIN g : h[a] = g[a]
    BY <1>1, <1>2, <1>3 DEF Fp32Bytes, Sized, Copies
  <2>. HIDE DEF g, h
  <2>2. x \notin DOMAIN g /\ DOMAIN h = DOMAIN g \cup {x}
    BY <1>1, <2>1
  <2>3. Total(DOMAIN h, h) = Total(DOMAIN g, g) + h[x]
    BY <2>1, <2>2, TotalGrown
  <2>. QED BY <2>1, <2>3 DEF g, h
<1>5. Total(DOMAIN f, PackBytes(f)) = Total(DOMAIN F, PackBytes(F)) + Bytes[w].h
  <2>. DEFINE g == PackBytes(F)
              h == PackBytes(f)
  <2>1. /\ Sized(g) /\ Sized(h) /\ DOMAIN g = DOMAIN F /\ DOMAIN h = DOMAIN f
        /\ h[x] = Bytes[w].h
        /\ \A a \in DOMAIN g : h[a] = g[a]
    BY <1>1, <1>2, <1>3 DEF PackBytes, Sized, Copies
  <2>. HIDE DEF g, h
  <2>2. x \notin DOMAIN g /\ DOMAIN h = DOMAIN g \cup {x}
    BY <1>1, <2>1
  <2>3. Total(DOMAIN h, h) = Total(DOMAIN g, g) + h[x]
    BY <2>1, <2>2, TotalGrown
  <2>. QED BY <2>1, <2>3 DEF g, h
<1>. QED BY <1>1, <1>2, <1>3, <1>4, <1>5

LEMMA Fp32Good ==
  ASSUME Plain, NEW D, Good(D), NEW w \in Weights, Loaded(w), AddrOf(w) \notin DOMAIN D.fp,
         NEW pad \in Nat, Fits(D.used + Bytes[w].f + pad)
  PROVE  Good(CopyFp32(D, AddrOf(w), w))
<1>1. PICK x : x = AddrOf(w)
  OBVIOUS
<1>2. PICK f : f = With(D.fp, x, w)
  OBVIOUS
<1>3. PICK E : E = CopyFp32(D, x, w)
  OBVIOUS
<1>4. /\ E = Caches(E.i4, E.before, E.fp, E.pk, E.used)
      /\ E.i4 = D.i4 /\ E.before = D.before /\ E.fp = f /\ E.pk = D.pk /\ E.used = D.used + Bytes[w].f
  BY <1>2, <1>3 DEF CopyFp32, Caches
<1>5. x \in Addrs /\ host[x] = w /\ x \notin DOMAIN D.fp /\ Copies(D.fp)
  BY <1>1, AddrFacts DEF Good
<1>6. /\ Copies(f) /\ DOMAIN f = DOMAIN D.fp \cup {x} /\ f[x] = w
      /\ \A a \in DOMAIN D.fp : f[a] = D.fp[a]
      /\ Bytes[w].f \in Nat
      /\ Total(DOMAIN f, Fp32Bytes(f)) = Total(DOMAIN D.fp, Fp32Bytes(D.fp)) + Bytes[w].f
  BY <1>2, <1>5, CopyAdded
<1>7. E.used = Held(E) + reserve + allocs * AllocBytes
  <2>1. D.used = Held(D) + reserve + allocs * AllocBytes
    BY DEF Good
  <2>2. Held(E) = Held(D) + Bytes[w].f
    BY <1>4, <1>6, UsedNat DEF Held
  <2>. QED BY <1>4, <1>6, <2>1, <2>2, UsedNat
<1>8. CopiesOwn(E)
  <2>1. \A a \in DOMAIN f : Own(a, f[a])
    BY <1>5, <1>6 DEF Good, CopiesOwn, Own
  <2>. QED BY <1>4, <2>1 DEF Good, CopiesOwn
<1>9. (budget > 0 /\ ~over) => E.used <= budget
  BY <1>4, <1>6, UsedNat DEF Fits, Plain
<1>10. Good(E)
  BY <1>4, <1>6, <1>7, <1>8, <1>9 DEF Good
<1>. QED BY <1>1, <1>2, <1>3, <1>10

LEMMA PackGood ==
  ASSUME Plain, NEW D, Good(D), NEW w \in Weights, Loaded(w), AddrOf(w) \notin DOMAIN D.pk,
         NEW pad \in Nat, Fits(D.used + Bytes[w].h + pad)
  PROVE  Good(CopyPack(D, AddrOf(w), w))
<1>1. PICK x : x = AddrOf(w)
  OBVIOUS
<1>2. PICK f : f = With(D.pk, x, w)
  OBVIOUS
<1>3. PICK E : E = CopyPack(D, x, w)
  OBVIOUS
<1>4. /\ E = Caches(E.i4, E.before, E.fp, E.pk, E.used)
      /\ E.i4 = D.i4 /\ E.before = D.before /\ E.fp = D.fp /\ E.pk = f /\ E.used = D.used + Bytes[w].h
  BY <1>2, <1>3 DEF CopyPack, Caches
<1>5. x \in Addrs /\ host[x] = w /\ x \notin DOMAIN D.pk /\ Copies(D.pk)
  BY <1>1, AddrFacts DEF Good
<1>6. /\ Copies(f) /\ DOMAIN f = DOMAIN D.pk \cup {x} /\ f[x] = w
      /\ \A a \in DOMAIN D.pk : f[a] = D.pk[a]
      /\ Bytes[w].h \in Nat
      /\ Total(DOMAIN f, PackBytes(f)) = Total(DOMAIN D.pk, PackBytes(D.pk)) + Bytes[w].h
  BY <1>2, <1>5, CopyAdded
<1>7. E.used = Held(E) + reserve + allocs * AllocBytes
  <2>1. D.used = Held(D) + reserve + allocs * AllocBytes
    BY DEF Good
  <2>2. Held(E) = Held(D) + Bytes[w].h
    BY <1>4, <1>6, UsedNat DEF Held
  <2>. QED BY <1>4, <1>6, <2>1, <2>2, UsedNat
<1>8. CopiesOwn(E)
  <2>1. \A a \in DOMAIN f : Own(a, f[a])
    BY <1>5, <1>6 DEF Good, CopiesOwn, Own
  <2>. QED BY <1>4, <2>1 DEF Good, CopiesOwn
<1>9. (budget > 0 /\ ~over) => E.used <= budget
  BY <1>4, <1>6, UsedNat DEF Fits, Plain
<1>10. Good(E)
  BY <1>4, <1>6, <1>7, <1>8, <1>9 DEF Good
<1>. QED BY <1>1, <1>2, <1>3, <1>10

\* What ensure_fp32_matrix and the like leave alone.
Added(D, o) == Good(o.D) /\ o.D.i4 = D.i4 /\ o.D.before = D.before /\ o.gone = {} /\ o.f \in Nat

LEMMA Fp32Outcome ==
  ASSUME Plain, NEW D, Good(D), NEW w \in Weights, Loaded(w), NEW pad \in Nat,
         NEW o \in EnsureCopy(D, w, D.fp, CopyFp32(D, AddrOf(w), w), pad)
  PROVE  /\ Added(D, o)
         /\ o.ok => AddrOf(w) \in DOMAIN o.D.fp /\ Shape[o.D.fp[AddrOf(w)]] = Shape[w]
<1>1. PICK x : x = AddrOf(w)
  OBVIOUS
<1>2. PICK E : E = CopyFp32(D, x, w)
  OBVIOUS
<1>3. E.used = D.used + Bytes[w].f
  BY <1>2 DEF CopyFp32, Caches
<1>4. CASE x \in DOMAIN D.fp
  <2>1. o = Out(D, Shape[D.fp[x]] = Shape[w], {}, 0)
    BY <1>1, <1>4 DEF EnsureCopy
  <2>2. o.D = D /\ (o.ok <=> Shape[D.fp[x]] = Shape[w]) /\ o.gone = {} /\ o.f = 0
    BY <2>1, Zenon DEF Out
  <2>. QED BY <1>1, <1>4, <2>2 DEF Added
<1>5. CASE x \notin DOMAIN D.fp
  <2>1. o = Out(D, FALSE, {}, 0) \/ o = Out(D, FALSE, {}, 1)
        \/ (Fits(D.used + Bytes[w].f + pad) /\ o = Out(E, TRUE, {}, 0))
    BY <1>1, <1>2, <1>3, <1>5 DEF EnsureCopy
  <2>2. CASE o = Out(D, FALSE, {}, 0) \/ o = Out(D, FALSE, {}, 1)
    <3>1. PICK n \in {0, 1} : o = Out(D, FALSE, {}, n)
      BY <2>2
    <3>2. o.D = D /\ ~o.ok /\ o.gone = {} /\ o.f = n
      BY <3>1, Zenon DEF Out
    <3>. QED BY <3>2 DEF Added
  <2>3. CASE Fits(D.used + Bytes[w].f + pad) /\ o = Out(E, TRUE, {}, 0)
    <3>1. o.D = E /\ o.gone = {} /\ o.f = 0
      BY <2>3, Zenon DEF Out
    <3>2. Good(E)
      BY <1>1, <1>2, <1>5, <2>3, Fp32Good
    <3>3. E.i4 = D.i4 /\ E.before = D.before /\ E.fp = With(D.fp, x, w)
      BY <1>2 DEF CopyFp32, Caches
    <3>4. x \in DOMAIN E.fp /\ E.fp[x] = w
      BY <3>3 DEF With
    <3>. QED BY <1>1, <3>1, <3>2, <3>3, <3>4 DEF Added
  <2>. QED BY <2>1, <2>2, <2>3
<1>. QED BY <1>4, <1>5

LEMMA PackOutcome ==
  ASSUME Plain, NEW D, Good(D), NEW w \in Weights, Loaded(w), NEW pad \in Nat,
         NEW o \in EnsureCopy(D, w, D.pk, CopyPack(D, AddrOf(w), w), pad)
  PROVE  /\ Added(D, o)
         /\ o.ok => AddrOf(w) \in DOMAIN o.D.pk /\ Shape[o.D.pk[AddrOf(w)]] = Shape[w]
<1>1. PICK x : x = AddrOf(w)
  OBVIOUS
<1>2. PICK E : E = CopyPack(D, x, w)
  OBVIOUS
<1>3. E.used = D.used + Bytes[w].h
  BY <1>2 DEF CopyPack, Caches
<1>4. CASE x \in DOMAIN D.pk
  <2>1. o = Out(D, Shape[D.pk[x]] = Shape[w], {}, 0)
    BY <1>1, <1>4 DEF EnsureCopy
  <2>2. o.D = D /\ (o.ok <=> Shape[D.pk[x]] = Shape[w]) /\ o.gone = {} /\ o.f = 0
    BY <2>1, Zenon DEF Out
  <2>. QED BY <1>1, <1>4, <2>2 DEF Added
<1>5. CASE x \notin DOMAIN D.pk
  <2>1. o = Out(D, FALSE, {}, 0) \/ o = Out(D, FALSE, {}, 1)
        \/ (Fits(D.used + Bytes[w].h + pad) /\ o = Out(E, TRUE, {}, 0))
    BY <1>1, <1>2, <1>3, <1>5 DEF EnsureCopy
  <2>2. CASE o = Out(D, FALSE, {}, 0) \/ o = Out(D, FALSE, {}, 1)
    <3>1. PICK n \in {0, 1} : o = Out(D, FALSE, {}, n)
      BY <2>2
    <3>2. o.D = D /\ ~o.ok /\ o.gone = {} /\ o.f = n
      BY <3>1, Zenon DEF Out
    <3>. QED BY <3>2 DEF Added
  <2>3. CASE Fits(D.used + Bytes[w].h + pad) /\ o = Out(E, TRUE, {}, 0)
    <3>1. o.D = E /\ o.gone = {} /\ o.f = 0
      BY <2>3, Zenon DEF Out
    <3>2. Good(E)
      BY <1>1, <1>2, <1>5, <2>3, PackGood
    <3>3. E.i4 = D.i4 /\ E.before = D.before /\ E.pk = With(D.pk, x, w)
      BY <1>2 DEF CopyPack, Caches
    <3>4. x \in DOMAIN E.pk /\ E.pk[x] = w
      BY <3>3 DEF With
    <3>. QED BY <1>1, <3>1, <3>2, <3>3, <3>4 DEF Added
  <2>. QED BY <2>1, <2>2, <2>3
<1>. QED BY <1>4, <1>5


(***************************************************************************)
(* The products under way: what a step of another does to one.             *)
(***************************************************************************)

LEMMA KindBuffers ==
  ASSUME NEW k \in Kinds
  PROVE  /\ From(k) \in Touched(k) \cup {"none"} /\ From(k) \in Buffers \cup {"none"}
         /\ To(k) \in Touched(k) /\ To(k) \in Buffers /\ To(k) # "none"
         /\ From("none") = "none" /\ Touched("none") = {}
BY DEF Kinds, From, To, Touched, Buffers

\* A product needs one of the buffers its kind touches.
LEMMA NeedsTouched ==
  ASSUME NEW c \in Callers, NEW j, JobOK(c, j)
  PROVE  Needs(j) = "none" \/ (Needs(j) \in Touched(j.kind) /\ Needs(j) \in Buffers)
<1>1. j \in Jobs
  BY DEF JobOK
<1>2. j.pc \notin Flying => Needs(j) = "none"
  BY DEF Needs, Flying
<1>3. ASSUME j.pc \in Flying
      PROVE  Needs(j) = "none" \/ (Needs(j) \in Touched(j.kind) /\ Needs(j) \in Buffers)
  <2>1. j.kind \in Kinds
    BY <1>1, <1>3 DEF JobOK, Jobs
  <2>2. CASE j.pc = "launch"
    BY <2>1, <2>2, KindBuffers DEF Needs
  <2>3. CASE j.pc = "fold"
    <3>1. j.kind = "out"
      BY <2>3 DEF JobOK
    <3>. QED BY <2>3, <3>1 DEF Needs, Touched, From, To, Buffers
  <2>4. CASE j.pc = "copy"
    BY <2>1, <2>4, KindBuffers DEF Needs
  <2>5. CASE j.pc = "stage"
    BY <2>5 DEF Needs
  <2>. QED BY <1>3, <2>2, <2>3, <2>4, <2>5 DEF Flying
<1>. QED BY <1>2, <1>3

LEMMA OthersFields ==
  ASSUME NEW d \in Callers, job[d] \in Jobs, NEW c, NEW k, NEW gone, NEW r, r = Others(c, k, gone)[d]
  PROVE  /\ r \in Jobs
         /\ r.pc = job[d].pc /\ r.kind = job[d].kind /\ r.ws = job[d].ws /\ r.rest = job[d].rest
         /\ r.own = job[d].own /\ r.large = job[d].large
         /\ job[d].disturbed => r.disturbed
         /\ (d # c /\ AddrsOf(job[d].ws) \cap gone # {}) => r.disturbed
         /\ (d # c /\ Touched(k) \cap Touched(job[d].kind) # {}) => r.disturbed
         /\ AddrsOf(job[d].ws) \cap gone = {} => r.live = job[d].live
         /\ (AddrsOf(job[d].ws) \cap gone = {} /\ (d = c \/ Touched(k) \cap Touched(job[d].kind) = {}))
              => r.disturbed = job[d].disturbed
<1>. DEFINE hit == AddrsOf(job[d].ws) \cap gone # {}
            near == Touched(k) \cap Touched(job[d].kind) # {}
<1>1. r = [job[d] EXCEPT !.live = @ /\ ~hit, !.disturbed = @ \/ (d # c /\ (hit \/ near))]
  BY DEF Others
<1>2. PICK l \in BOOLEAN : l = (job[d].live /\ ~hit)
  OBVIOUS
<1>3. PICK e \in BOOLEAN : e = (job[d].disturbed \/ (d # c /\ (hit \/ near)))
  OBVIOUS
<1>4. r = [job[d] EXCEPT !.live = l, !.disturbed = e]
  BY <1>1, <1>2, <1>3
<1>5. /\ r \in Jobs
      /\ r.pc = job[d].pc /\ r.kind = job[d].kind /\ r.ws = job[d].ws /\ r.rest = job[d].rest
      /\ r.own = job[d].own /\ r.large = job[d].large
      /\ r.live = l /\ r.disturbed = e
  BY <1>4, Zenon DEF Jobs
<1>6. job[d].live \in BOOLEAN /\ job[d].disturbed \in BOOLEAN
  BY DEF Jobs
<1>. QED BY <1>2, <1>3, <1>5, <1>6, Zenon

\* A step that leaves the host side alone and writes no buffer but those it
\* says it touches.
Beside(k) ==
  /\ UNCHANGED <<host, reused>>
  /\ \A b \in Buffers : b \notin Touched(k) => buf'[b] = buf[b]

LEMMA OthersOK ==
  ASSUME NEW d \in Callers, JobOK(d, job[d]), NEW c, c # d, NEW k, NEW gone,
         Beside(k), job'[d] = Others(c, k, gone)[d]
  PROVE  JobOK(d, job[d])' /\ job'[d].pc = job[d].pc /\ job'[d].ws = job[d].ws
<1>1. PICK r : r = job'[d]
  OBVIOUS
<1>2. PICK j : j = job[d]
  OBVIOUS
<1>3. JobOK(d, j) /\ j \in Jobs
  BY <1>2 DEF JobOK
<1>4. /\ r \in Jobs
      /\ r.pc = j.pc /\ r.kind = j.kind /\ r.ws = j.ws /\ r.rest = j.rest
      /\ r.own = j.own /\ r.large = j.large
      /\ j.disturbed => r.disturbed
      /\ AddrsOf(j.ws) \cap gone # {} => r.disturbed
      /\ Touched(k) \cap Touched(j.kind) # {} => r.disturbed
      /\ AddrsOf(j.ws) \cap gone = {} => r.live = j.live
  BY <1>1, <1>2, <1>3, OthersFields
<1>5. /\ \A w \in r.ws : Loaded(w)'
      /\ AddrsOf(r.ws)' = AddrsOf(r.ws) /\ reused' = reused
  BY <1>3, <1>4 DEF JobOK, Loaded, AddrsOf, AddrOf, Beside
<1>6. Excused(j) => (Excused(r))'
  BY <1>4, <1>5 DEF Excused, Reused
<1>7. ASSUME r.pc \in Flying
      PROVE  (Excused(r))' \/ (r.own /\ r.live)
  <2>1. Excused(j) \/ (j.own /\ j.live)
    BY <1>3, <1>4, <1>7 DEF JobOK
  <2>2. CASE r.disturbed
    BY <2>2 DEF Excused
  <2>3. CASE ~r.disturbed
    BY <1>4, <1>6, <2>1, <2>3
  <2>. QED BY <2>2, <2>3
<1>8. ASSUME r.pc \in Flying
      PROVE  (Excused(r))' \/ Needs(r) = "none" \/ Holds(Needs(r), d)'
  <2>1. Excused(j) \/ Needs(j) = "none" \/ Holds(Needs(j), d)
    BY <1>3, <1>4, <1>7, <1>8 DEF JobOK
  <2>2. Needs(r) = Needs(j)
    BY <1>4 DEF Needs
  <2>3. CASE r.disturbed
    BY <2>3 DEF Excused
  <2>4. CASE ~r.disturbed /\ ~Excused(j) /\ Needs(j) # "none"
    <3>1. Needs(j) \in Touched(j.kind) /\ Needs(j) \in Buffers
      BY <1>3, <2>4, NeedsTouched
    <3>2. Needs(j) \notin Touched(k)
      BY <1>4, <2>4, <3>1
    <3>3. buf'[Needs(j)] = buf[Needs(j)]
      BY <3>1, <3>2 DEF Beside
    <3>4. Holds(Needs(j), d)
      BY <2>1, <2>4
    <3>. QED BY <2>2, <3>3, <3>4 DEF Holds
  <2>. QED BY <1>6, <2>1, <2>2, <2>3, <2>4
<1>9. JobOK(d, r)'
  <2>1. /\ r.pc \in {"idle", "try", "ensure"} => r.kind = "none"
        /\ r.pc = "idle" => r.ws = {}
        /\ r.pc = "try" => r.rest # <<>> /\ r.ws \subseteq Int4
        /\ r.pc = "ensure" => r.ws \subseteq Int4
        /\ r.pc \in Flying => r.kind # "none"
        /\ r.pc = "stage" => r.kind \in {"jit", "tc"}
        /\ r.pc = "fold" => r.kind = "out"
        /\ r.pc = "copy" => r.kind # "out"
        /\ r.rest # <<>> => r.ws \subseteq Int4
    BY <1>3, <1>4 DEF JobOK
  <2>. QED BY <1>4, <1>5, <1>7, <1>8, <2>1 DEF JobOK
<1>. QED BY <1>1, <1>2, <1>4, <1>9


(***************************************************************************)
(* The products under way: what a step leaves of its own.                  *)
(***************************************************************************)

LEMMA JobRecord ==
  ASSUME NEW pc, NEW k, NEW S, NEW rest, NEW live, NEW own, NEW large, NEW disturbed, NEW r,
         r = [pc |-> pc, kind |-> k, ws |-> S, rest |-> rest, live |-> live, own |-> own,
              large |-> large, disturbed |-> disturbed]
  PROVE  /\ r.pc = pc /\ r.kind = k /\ r.ws = S /\ r.rest = rest
         /\ r.live = live /\ r.own = own /\ r.large = large /\ r.disturbed = disturbed
OBVIOUS

LEMMA JobType ==
  ASSUME NEW pc \in {"idle", "try", "ensure"} \cup Flying, NEW k \in Kinds \cup {"none"},
         NEW S \in SUBSET Weights, NEW rest \in Seq(PathNames), NEW live \in BOOLEAN, NEW own \in BOOLEAN,
         NEW large \in BOOLEAN, NEW disturbed \in BOOLEAN
  PROVE  [pc |-> pc, kind |-> k, ws |-> S, rest |-> rest, live |-> live, own |-> own,
          large |-> large, disturbed |-> disturbed] \in Jobs
BY DEF Jobs

\* A product of kind k of the weights S, at pc.
ProductIs(r, k, S, rest, live, own, pc) ==
  /\ r \in Jobs
  /\ r.pc = pc /\ r.kind = k /\ r.ws = S /\ r.rest = rest /\ r.live = live /\ r.own = own
  /\ r.large <=> (S \subseteq Int4 /\ TooLarge(S))
  /\ r.disturbed = FALSE

LEMMA ProductFields ==
  ASSUME NEW k \in Kinds, NEW S, S \subseteq Weights, NEW rest \in Seq(PathNames),
         NEW live \in BOOLEAN, NEW own \in BOOLEAN, NEW pc \in Flying
  PROVE  ProductIs([Product(k, S, rest, live, own) EXCEPT !.pc = pc], k, S, rest, live, own, pc)
<1>0. PICK r : r = [Product(k, S, rest, live, own) EXCEPT !.pc = pc]
  OBVIOUS
<1>1. PICK large \in BOOLEAN : large = (S \subseteq Int4 /\ TooLarge(S))
  OBVIOUS
<1>2. PICK no \in BOOLEAN : no = FALSE
  OBVIOUS
<1>3. r = [pc |-> pc, kind |-> k, ws |-> S, rest |-> rest, live |-> live, own |-> own,
           large |-> large, disturbed |-> no]
  BY <1>0, <1>1, <1>2 DEF Product, Idle
<1>4. pc \in {"idle", "try", "ensure"} \cup Flying /\ k \in Kinds \cup {"none"} /\ S \in SUBSET Weights
  OBVIOUS
<1>5. r \in Jobs
  <2>1. [pc |-> pc, kind |-> k, ws |-> S, rest |-> rest, live |-> live, own |-> own,
         large |-> large, disturbed |-> no] \in Jobs
    BY <1>4, JobType, Zenon
  <2>. QED BY <1>3, <2>1, Zenon
<1>6. /\ r.pc = pc /\ r.kind = k /\ r.ws = S /\ r.rest = rest
      /\ r.live = live /\ r.own = own /\ r.large = large /\ r.disturbed = no
  BY <1>3, JobRecord
<1>7. ProductIs(r, k, S, rest, live, own, pc)
  BY <1>1, <1>2, <1>5, <1>6, Zenon DEF ProductIs
<1>. QED BY <1>0, <1>7

LEMMA FailedOK ==
  ASSUME NEW c, NEW S, S \subseteq Weights, NEW rest \in Seq(PathNames), rest # <<>> => S \subseteq Int4,
         \A w \in S : Loaded(w)
  PROVE  JobOK(c, Failed(S, rest)) /\ Failed(S, rest).pc \in {"idle", "try"}
<1>1. CASE rest = <<>>
  <2>1. PICK r : r = Idle
    OBVIOUS
  <2>2. r = [pc |-> "idle", kind |-> "none", ws |-> {}, rest |-> <<>>, live |-> TRUE, own |-> TRUE,
             large |-> FALSE, disturbed |-> FALSE]
    BY <2>1 DEF Idle
  <2>3. /\ r.pc = "idle" /\ r.kind = "none" /\ r.ws = {} /\ r.rest = <<>>
    BY <2>2
  <2>4. r \in Jobs
    BY <2>2 DEF Jobs
  <2>5. JobOK(c, r)
    BY <2>3, <2>4 DEF JobOK, Flying
  <2>. QED BY <1>1, <2>1, <2>3, <2>5 DEF Failed
<1>2. CASE rest # <<>>
  <2>1. PICK r : r = [Idle EXCEPT !.pc = "try", !.ws = S, !.rest = rest]
    OBVIOUS
  <2>2. r = [pc |-> "try", kind |-> "none", ws |-> S, rest |-> rest, live |-> TRUE, own |-> TRUE,
             large |-> FALSE, disturbed |-> FALSE]
    BY <2>1 DEF Idle
  <2>3. /\ r.pc = "try" /\ r.kind = "none" /\ r.ws = S /\ r.rest = rest
    BY <2>2
  <2>4. r \in Jobs
    BY <2>2 DEF Jobs
  <2>5. JobOK(c, r)
    BY <1>2, <2>3, <2>4 DEF JobOK, Flying
  <2>. QED BY <1>2, <2>1, <2>3, <2>5 DEF Failed
<1>. QED BY <1>1, <1>2

LEMMA IdleOK ==
  ASSUME NEW c
  PROVE  JobOK(c, Idle) /\ Idle.pc = "idle" /\ Idle.ws = {}
<1>1. Failed({}, <<>>) = Idle /\ <<>> \in Seq(PathNames)
  BY DEF Failed
<1>2. JobOK(c, Failed({}, <<>>))
  BY <1>1, FailedOK
<1>. QED BY <1>1, <1>2 DEF Idle

\* A step that moves the product of c on, and touches those of the others.
Moved(c, k, gone, r) == job' = [Others(c, k, gone) EXCEPT ![c] = r]
OthersSame(c) == \A d \in Callers \ {c} : job'[d].pc = job[d].pc /\ job'[d].ws = job[d].ws

LEMMA MovedOK ==
  ASSUME JobsOK, NEW c \in Callers, NEW k, NEW gone, NEW r, Moved(c, k, gone, r), Beside(k),
         JobOK(c, r)', BufferOK', ~wrong'
  PROVE  JobsOK' /\ job'[c] = r /\ OthersSame(c)
<1>1. /\ job' = [d \in Callers |-> IF d = c THEN r ELSE Others(c, k, gone)[d]]
      /\ job'[c] = r
  BY DEF Moved, Others
<1>2. ASSUME NEW d \in Callers, d # c
      PROVE  JobOK(d, job[d])' /\ job'[d].pc = job[d].pc /\ job'[d].ws = job[d].ws
  <2>1. JobOK(d, job[d]) /\ job'[d] = Others(c, k, gone)[d]
    BY <1>1, <1>2 DEF JobsOK
  <2>. QED BY <1>2, <2>1, OthersOK
<1>3. \A d \in Callers : JobOK(d, job[d])'
  BY <1>1, <1>2
<1>4. \E J : job' \in [Callers -> J]
  <2>. DEFINE J == {job'[d] : d \in Callers}
  <2>1. job' \in [Callers -> J]
    BY <1>1
  <2>. QED BY <2>1
<1>. QED BY <1>1, <1>2, <1>3, <1>4 DEF JobsOK, OthersSame

LEMMA FilledOK ==
  ASSUME BufferOK, NEW b \in Buffers, NEW c \in Callers, NEW right \in BOOLEAN,
         buf' = Filled(b, c, right)
  PROVE  /\ BufferOK' /\ buf'[b] = [by |-> c, right |-> right]
         /\ \A x \in Buffers : x # b => buf'[x] = buf[x]
<1>1. [by |-> c, right |-> right] \in [by : Callers \cup {NoCaller}, right : BOOLEAN]
  OBVIOUS
<1>2. buf' = [buf EXCEPT ![b] = [by |-> c, right |-> right]]
  BY DEF Filled
<1>. QED BY <1>1, <1>2, Zenon DEF BufferOK

(***************************************************************************)
(* Sections under g_mu, as far as the products go.                         *)
(***************************************************************************)

\* The pointers taken are to the weights, as far as anyone can tell.
Rightful(S, live, own) == (own /\ live) \/ Reused(S) \/ (S \subseteq Int4 /\ TooLarge(S))

LEMMA FreshOK ==
  ASSUME NEW c \in Callers, NEW k \in Kinds, NEW S, S \subseteq Weights, NEW rest \in Seq(PathNames),
         rest # <<>> => S \subseteq Int4,
         NEW live \in BOOLEAN, NEW own \in BOOLEAN, Rightful(S, live, own), NEW pc \in {"launch", "stage"},
         pc = "stage" => k \in {"jit", "tc"},
         UNCHANGED <<host, reused>>, \A w \in S : Loaded(w),
         NEW r, r = [Product(k, S, rest, live, own) EXCEPT !.pc = pc],
         pc = "launch" => From(k) = "none" \/ Holds(From(k), c)'
  PROVE  JobOK(c, r)' /\ r.pc = pc
<1>1. /\ r \in Jobs
      /\ r.pc = pc /\ r.kind = k /\ r.ws = S /\ r.rest = rest /\ r.live = live /\ r.own = own
      /\ r.large <=> (S \subseteq Int4 /\ TooLarge(S))
  <2>1. pc \in Flying
    BY DEF Flying
  <2>2. ProductIs(r, k, S, rest, live, own, pc)
    BY <2>1, ProductFields
  <2>. QED BY <2>2 DEF ProductIs
<1>2. (\A w \in S : Loaded(w))' /\ (Reused(S) => Reused(S)')
  BY DEF Loaded, Reused, AddrsOf, AddrOf
<1>3. (Excused(r))' \/ (r.own /\ r.live)
  BY <1>1, <1>2 DEF Excused, Rightful
<1>4. Needs(r) = "none" \/ Holds(Needs(r), c)'
  BY <1>1 DEF Needs
<1>5. r.kind # "none" /\ r.pc \notin {"idle", "try", "ensure", "fold", "copy"}
  BY <1>1 DEF Kinds
<1>. QED BY <1>1, <1>2, <1>3, <1>4, <1>5 DEF JobOK

LEMMA TakeOK ==
  ASSUME JobsOK, NEW c \in Callers, NEW k \in Kinds, NEW S, S \subseteq Weights,
         NEW rest \in Seq(PathNames), rest # <<>> => S \subseteq Int4,
         NEW live \in BOOLEAN, NEW own \in BOOLEAN, Rightful(S, live, own), \A w \in S : Loaded(w),
         NEW D, NEW f, NEW gone, Take(c, Product(k, S, rest, live, own), D, f, gone),
         UNCHANGED <<host, reused>>
  PROVE  JobsOK' /\ job'[c].pc = "launch" /\ OthersSame(c)
<1>1. PICK p : p = Product(k, S, rest, live, own)
  OBVIOUS
<1>2. p.kind = k
  BY <1>1 DEF Product, Idle
<1>3. PICK r : r = [p EXCEPT !.pc = "launch"]
  OBVIOUS
<1>4. /\ buf' = IF From(k) = "none" THEN buf ELSE Filled(From(k), c, TRUE)
      /\ Moved(c, k, gone, r) /\ wrong' = wrong
  BY <1>1, <1>2, <1>3, Zenon DEF Take, Moved
<1>5. From(k) \in Touched(k) \cup {"none"} /\ From(k) \in Buffers \cup {"none"}
  BY KindBuffers
<1>6. /\ BufferOK'
      /\ From(k) = "none" \/ Holds(From(k), c)'
      /\ \A b \in Buffers : b \notin Touched(k) => buf'[b] = buf[b]
  <2>1. BufferOK
    BY DEF JobsOK
  <2>2. CASE From(k) = "none"
    BY <1>4, <2>1, <2>2 DEF BufferOK
  <2>3. CASE From(k) # "none"
    <3>1. From(k) \in Buffers /\ buf' = Filled(From(k), c, TRUE)
      BY <1>4, <1>5, <2>3
    <3>2. /\ BufferOK' /\ buf'[From(k)] = [by |-> c, right |-> TRUE]
          /\ \A x \in Buffers : x # From(k) => buf'[x] = buf[x]
      BY <2>1, <3>1, FilledOK
    <3>. QED BY <1>5, <2>3, <3>2 DEF Holds
  <2>. QED BY <2>2, <2>3
<1>7. JobOK(c, r)' /\ r.pc = "launch"
  BY <1>1, <1>3, <1>6, FreshOK
<1>8. Beside(k) /\ ~wrong'
  BY <1>4, <1>6 DEF Beside, JobsOK
<1>. QED BY <1>4, <1>6, <1>7, <1>8, MovedOK

LEMMA HoldOK ==
  ASSUME JobsOK, NEW c \in Callers, NEW k \in {"jit", "tc"}, NEW S, S \subseteq Weights,
         NEW rest \in Seq(PathNames), rest # <<>> => S \subseteq Int4,
         NEW live \in BOOLEAN, NEW own \in BOOLEAN, Rightful(S, live, own), \A w \in S : Loaded(w),
         NEW D, NEW f, NEW gone, Hold(c, Product(k, S, rest, live, own), D, f, gone),
         UNCHANGED <<host, reused>>
  PROVE  JobsOK' /\ job'[c].pc = "stage" /\ OthersSame(c)
<1>1. PICK r : r = [Product(k, S, rest, live, own) EXCEPT !.pc = "stage"]
  OBVIOUS
<1>2. Moved(c, "none", gone, r) /\ buf' = buf /\ wrong' = wrong
  BY <1>1, Zenon DEF Hold, Moved
<1>3. k \in Kinds
  BY DEF Kinds
<1>4. JobOK(c, r)' /\ r.pc = "stage"
  BY <1>1, <1>3, FreshOK
<1>5. Beside("none") /\ ~wrong' /\ BufferOK'
  BY <1>2 DEF Beside, JobsOK, BufferOK
<1>. QED BY <1>2, <1>4, <1>5, MovedOK

LEMMA DeclinedOK ==
  ASSUME JobsOK, NEW c \in Callers, NEW k, NEW S, S \subseteq Weights,
         NEW rest \in Seq(PathNames), rest # <<>> => S \subseteq Int4, \A w \in S : Loaded(w),
         NEW D, NEW f, NEW gone, Declined(c, k, S, rest, D, f, gone),
         UNCHANGED <<host, reused>>
  PROVE  JobsOK' /\ job'[c].pc \in {"idle", "try"} /\ OthersSame(c)
<1>1. PICK r : r = Failed(S, rest)
  OBVIOUS
<1>2. Moved(c, k, gone, r) /\ buf' = buf /\ wrong' = wrong
  BY <1>1, Zenon DEF Declined, Moved
<1>3. JobOK(c, r) /\ r.pc \in {"idle", "try"}
  BY <1>1, FailedOK
<1>4. JobOK(c, r)'
  <2>1. r.pc \notin Flying
    BY <1>3 DEF Flying
  <2>2. \A w \in r.ws : Loaded(w)'
    BY <1>3 DEF JobOK, Loaded
  <2>. QED BY <1>3, <2>1, <2>2 DEF JobOK
<1>5. Beside(k) /\ ~wrong' /\ BufferOK'
  BY <1>2 DEF Beside, JobsOK, BufferOK
<1>. QED BY <1>2, <1>3, <1>4, <1>5, MovedOK

LEMMA ComputedOK ==
  ASSUME JobsOK, NEW c \in Callers, NEW w, NEW D, NEW f, NEW right \in BOOLEAN, NEW gone,
         right \/ AddrOf(w) \in reused,
         Computed(c, w, D, f, right, gone), UNCHANGED <<host, reused>>
  PROVE  JobsOK' /\ job'[c].pc = "idle" /\ OthersSame(c)
<1>1. Moved(c, "gemv", gone, Idle)
  BY Zenon DEF Computed, Moved
<1>2. ~wrong'
  BY Zenon DEF Computed, JobsOK
<1>3. /\ BufferOK'
      /\ \A b \in Buffers : b \notin {"dx", "dy"} => buf'[b] = buf[b]
  <2>1. buf' = [[buf EXCEPT !["dx"] = [by |-> c, right |-> TRUE]] EXCEPT !["dy"] = [by |-> c, right |-> right]]
    BY Zenon DEF Computed, Filled
  <2>2. /\ [by |-> c, right |-> TRUE] \in [by : Callers \cup {NoCaller}, right : BOOLEAN]
        /\ [by |-> c, right |-> right] \in [by : Callers \cup {NoCaller}, right : BOOLEAN]
    OBVIOUS
  <2>3. buf \in [Buffers -> [by : Callers \cup {NoCaller}, right : BOOLEAN]] /\ "dx" \in Buffers /\ "dy" \in Buffers
    BY DEF JobsOK, BufferOK, Buffers
  <2>. QED BY <2>1, <2>2, <2>3, Zenon DEF BufferOK
<1>4. Beside("gemv")
  <2>1. Touched("gemv") = {"dx", "dy"}
    BY DEF Touched, From, To
  <2>. QED BY <1>3, <2>1 DEF Beside
<1>5. JobOK(c, Idle)' /\ Idle.pc = "idle"
  <2>1. JobOK(c, Idle) /\ Idle.pc = "idle" /\ Idle.ws = {}
    BY IdleOK
  <2>. QED BY <2>1 DEF JobOK, Flying
<1>. QED BY <1>1, <1>2, <1>3, <1>4, <1>5, MovedOK


(***************************************************************************)
(* Sections under g_mu, as far as the caches go.                           *)
(***************************************************************************)

LEMMA DeviceStep ==
  ASSUME Plain, NEW D, Good(D), Put(D), NEW n \in Nat, Fail(n), UNCHANGED HostSide
  PROVE  Plain' /\ Good(Now)'
<1>1. Now' = D
  BY DEF Put, Now, Caches, Good
<1>2. /\ host' = host /\ reused' = reused /\ loads' = loads
      /\ budget' = budget /\ reserve' = reserve /\ enabled' = enabled /\ allocs' = allocs /\ over' = over
  BY DEF HostSide, Books
<1>3. Good(D)'
  BY <1>2 DEF Good, CopiesOwn, Own
<1>4. Good(Now)'
  BY <1>1, <1>3
<1>5. Plain'
  BY <1>2, DeviceCachesAssumption DEF Plain, Fail
<1>. QED BY <1>4, <1>5

LEMMA StillStep ==
  ASSUME Plain, Good(Now), UNCHANGED <<host, device, Books, reused>>, faults' \in Nat, loads' \in Nat
  PROVE  Plain' /\ Good(Now)' /\ Now' = Now
<1>1. Now' = Now
  BY DEF Now, Caches, device
<1>2. /\ host' = host /\ reused' = reused
      /\ budget' = budget /\ reserve' = reserve /\ enabled' = enabled /\ allocs' = allocs /\ over' = over
  BY DEF Books
<1>3. PICK D : D = Now
  OBVIOUS
<1>4. Good(D)'
  BY <1>2, <1>3 DEF Good, CopiesOwn, Own
<1>5. Good(Now)'
  BY <1>1, <1>3, <1>4
<1>6. Plain'
  BY <1>2 DEF Plain
<1>. QED BY <1>1, <1>5, <1>6

LEMMA NowFields ==
  Now.i4 = i4 /\ Now.before = before /\ Now.fp = fp /\ Now.pk = pk /\ Now.used = used
BY DEF Now, Caches

\* A copy found is of the weight asked for, as far as anyone can tell.
LEMMA FoundOwn ==
  ASSUME NEW D, Good(D), NEW w, Loaded(w)
  PROVE  /\ Found(D, w) => D.i4[AddrOf(w)].of = w \/ AddrOf(w) \in reused
         /\ AddrOf(w) \in DOMAIN D.fp /\ Shape[D.fp[AddrOf(w)]] = Shape[w]
              => D.fp[AddrOf(w)] = w \/ AddrOf(w) \in reused
         /\ AddrOf(w) \in DOMAIN D.pk /\ Shape[D.pk[AddrOf(w)]] = Shape[w]
              => D.pk[AddrOf(w)] = w \/ AddrOf(w) \in reused
BY AddrFacts DEF Good, CopiesOwn, Own, Found

LEMMA RightfulOne ==
  ASSUME NEW w, NEW own \in BOOLEAN, own \/ AddrOf(w) \in reused
  PROVE  Rightful({w}, TRUE, own)
BY DEF Rightful, Reused, AddrsOf

\* Nobody is in a batch after a section of one step.
LEMMA NobodyInBatch ==
  ASSUME BatchOK, Free, NEW c \in Callers, OthersSame(c), job'[c].pc # "ensure", batch' = batch
  PROVE  BatchOK'
<1>1. batch.by = NoCaller /\ NoCaller \notin Callers
  BY DeviceCachesAssumption DEF Free
<1>2. \A d \in Callers : job'[d].pc # "ensure"
  BY <1>1 DEF BatchOK, OthersSame
<1>. QED BY <1>1, <1>2 DEF BatchOK

LEMMA Section ==
  ASSUME IInv, Free, NEW c \in Callers, NEW D, Good(D), Put(D), NEW n \in Nat, Fail(n),
         UNCHANGED <<HostSide, batch>>, JobsOK', OthersSame(c), job'[c].pc # "ensure"
  PROVE  IInv'
<1>1. Plain' /\ Good(Now)'
  BY DeviceStep DEF IInv
<1>2. BatchOK'
  BY NobodyInBatch DEF IInv
<1>. QED BY <1>1, <1>2 DEF IInv

(***************************************************************************)
(* Products of one weight.                                                 *)
(***************************************************************************)

\* The sections that products of one weight consist of.
LEMMA TakeSection ==
  ASSUME IInv, Free, NEW c \in Callers, NEW k \in Kinds, NEW w \in Weights, Loaded(w),
         NEW rest \in Seq(PathNames), rest # <<>> => w \in Int4,
         NEW own \in BOOLEAN, own \/ AddrOf(w) \in reused,
         NEW D, Good(D), NEW f \in Nat, NEW gone,
         Take(c, Product(k, {w}, rest, TRUE, own), D, f, gone), UNCHANGED <<HostSide, batch>>
  PROVE  IInv'
<1>1. Rightful({w}, TRUE, own)
  BY RightfulOne
<1>2. JobsOK' /\ job'[c].pc = "launch" /\ OthersSame(c)
  <2>1. {w} \subseteq Weights /\ (rest # <<>> => {w} \subseteq Int4) /\ \A v \in {w} : Loaded(v)
    OBVIOUS
  <2>2. UNCHANGED <<host, reused>> /\ JobsOK
    BY DEF HostSide, IInv
  <2>. QED BY <1>1, <2>1, <2>2, TakeOK
<1>3. Put(D) /\ Fail(f)
  BY DEF Take
<1>. QED BY <1>2, <1>3, Section

LEMMA HoldSection ==
  ASSUME IInv, Free, NEW c \in Callers, NEW k \in {"jit", "tc"}, NEW w \in Int4, Loaded(w),
         NEW rest \in Seq(PathNames),
         NEW own \in BOOLEAN, own \/ AddrOf(w) \in reused,
         NEW D, Good(D), NEW f \in Nat, NEW gone,
         Hold(c, Product(k, {w}, rest, TRUE, own), D, f, gone), UNCHANGED <<HostSide, batch>>
  PROVE  IInv'
<1>1. Rightful({w}, TRUE, own)
  BY RightfulOne
<1>2. JobsOK' /\ job'[c].pc = "stage" /\ OthersSame(c)
  <2>1. {w} \subseteq Weights /\ {w} \subseteq Int4 /\ \A v \in {w} : Loaded(v)
    BY DEF Weights
  <2>2. UNCHANGED <<host, reused>> /\ JobsOK
    BY DEF HostSide, IInv
  <2>. QED BY <1>1, <2>1, <2>2, HoldOK
<1>3. Put(D) /\ Fail(f)
  BY DEF Hold
<1>. QED BY <1>2, <1>3, Section

LEMMA DeclinedSection ==
  ASSUME IInv, Free, NEW c \in Callers, NEW k, NEW S, S \subseteq Weights, \A v \in S : Loaded(v),
         NEW rest \in Seq(PathNames), rest # <<>> => S \subseteq Int4,
         NEW D, Good(D), NEW f \in Nat, NEW gone,
         Declined(c, k, S, rest, D, f, gone), UNCHANGED <<HostSide, batch>>
  PROVE  IInv'
<1>1. UNCHANGED <<host, reused>> /\ JobsOK
  BY DEF HostSide, IInv
<1>2. JobsOK' /\ job'[c].pc \in {"idle", "try"} /\ OthersSame(c)
  BY <1>1, DeclinedOK
<1>3. Put(D) /\ Fail(f)
  BY DEF Declined
<1>. QED BY <1>2, <1>3, Section

LEMMA WholeSection ==
  ASSUME IInv, Free, NEW c \in Callers, NEW w \in Weights, Loaded(w),
         NEW rest \in Seq(PathNames), rest # <<>> => w \in Int4,
         NEW right \in BOOLEAN, right \/ AddrOf(w) \in reused,
         NEW D, Good(D), NEW f \in Nat, NEW gone,
         Whole(c, w, rest, D, f, right, gone), UNCHANGED <<HostSide, batch>>
  PROVE  IInv'
<1>1. UNCHANGED <<host, reused>> /\ JobsOK
  BY DEF HostSide, IInv
<1>2. CASE Computed(c, w, D, f, right, gone)
  <2>1. JobsOK' /\ job'[c].pc = "idle" /\ OthersSame(c)
    BY <1>1, <1>2, ComputedOK
  <2>2. Put(D) /\ Fail(f)
    BY <1>2 DEF Computed
  <2>. QED BY <2>1, <2>2, Section
<1>3. CASE Declined(c, "gemv", {w}, rest, D, f + 1, gone)
  <2>1. f + 1 \in Nat
    OBVIOUS
  <2>2. {w} \subseteq Weights /\ (\A v \in {w} : Loaded(v)) /\ (rest # <<>> => {w} \subseteq Int4)
    OBVIOUS
  <2>. QED BY <1>3, <2>1, <2>2, DeclinedSection
<1>. QED BY <1>2, <1>3 DEF Whole

\* A path that ends with a copy in FP32, or answers false.
LEMMA Fp32Section ==
  ASSUME IInv, Free, NEW c \in Callers, NEW w \in Weights, Loaded(w),
         NEW rest \in Seq(PathNames), rest # <<>> => w \in Int4, NEW pad \in Nat,
         NEW D, Good(D), NEW f \in Nat, NEW gone,
         NEW o \in EnsureCopy(D, w, D.fp, CopyFp32(D, AddrOf(w), w), pad),
         IF o.ok THEN Whole(c, w, rest, o.D, f, o.D.fp[AddrOf(w)] = w, gone)
                 ELSE Declined(c, "none", {w}, rest, o.D, f, gone),
         UNCHANGED <<HostSide, batch>>
  PROVE  IInv'
<1>1. /\ Added(D, o)
      /\ o.ok => AddrOf(w) \in DOMAIN o.D.fp /\ Shape[o.D.fp[AddrOf(w)]] = Shape[w]
  BY Fp32Outcome DEF IInv
<1>2. Good(o.D) /\ f \in Nat
  BY <1>1 DEF Added
<1>3. CASE o.ok
  <2>1. PICK right \in BOOLEAN : right = (o.D.fp[AddrOf(w)] = w)
    OBVIOUS
  <2>2. right \/ AddrOf(w) \in reused
    BY <1>1, <1>2, <1>3, <2>1, FoundOwn
  <2>3. Whole(c, w, rest, o.D, f, right, gone)
    BY <1>3, <2>1
  <2>. QED BY <1>2, <2>2, <2>3, WholeSection
<1>4. CASE ~o.ok
  <2>1. Declined(c, "none", {w}, rest, o.D, f, gone)
    BY <1>4
  <2>2. {w} \subseteq Weights /\ (\A v \in {w} : Loaded(v)) /\ (rest # <<>> => {w} \subseteq Int4)
    OBVIOUS
  <2>. QED BY <1>2, <2>1, <2>2, DeclinedSection
<1>. QED BY <1>3, <1>4


LEMMA GemmInt4Step ==
  ASSUME IInv, NEW c \in Callers, NEW w \in Int4, GemmInt4(c, w)
  PROVE  IInv'
<1>1. Free /\ Loaded(w) /\ UNCHANGED <<HostSide, batch>> /\ w \in Weights /\ Plain /\ Good(Now)
      /\ <<>> \in Seq(PathNames)
  BY DEF GemmInt4, Start, IInv, Weights
<1>2. PICK o \in EnsureInt4(Now, w) :
        \/ /\ o.ok /\ jit
           /\ Take(c, Product("gemv", {w}, <<>>, TRUE, o.D.i4[AddrOf(w)].of = w), o.D, o.f, o.gone)
        \/ /\ ~(o.ok /\ jit)
           /\ \E p \in EnsureFp32(o.D, w) :
                IF p.ok THEN Whole(c, w, <<>>, p.D, o.f + p.f, p.D.fp[AddrOf(w)] = w, o.gone)
                        ELSE Declined(c, "none", {w}, <<>>, p.D, o.f + p.f, o.gone)
  BY Zenon DEF GemmInt4
<1>3. Sound(Now, o) /\ (o.ok => Found(o.D, w))
  BY <1>1, Int4Outcome
<1>4. Good(o.D) /\ o.f \in Nat
  BY <1>3 DEF Sound
<1>5. CASE o.ok /\ jit
  <2>1. PICK own \in BOOLEAN : own = (o.D.i4[AddrOf(w)].of = w)
    OBVIOUS
  <2>2. own \/ AddrOf(w) \in reused
    BY <1>1, <1>3, <1>4, <1>5, <2>1, FoundOwn
  <2>3. Take(c, Product("gemv", {w}, <<>>, TRUE, own), o.D, o.f, o.gone)
    BY <1>2, <1>5, <2>1
  <2>4. "gemv" \in Kinds
    BY DEF Kinds
  <2>. QED BY <1>1, <1>4, <2>2, <2>3, <2>4, TakeSection
<1>6. CASE ~(o.ok /\ jit)
  <2>1. PICK p \in EnsureFp32(o.D, w) :
          IF p.ok THEN Whole(c, w, <<>>, p.D, o.f + p.f, p.D.fp[AddrOf(w)] = w, o.gone)
                  ELSE Declined(c, "none", {w}, <<>>, p.D, o.f + p.f, o.gone)
    BY <1>2, <1>6
  <2>2. p \in EnsureCopy(o.D, w, o.D.fp, CopyFp32(o.D, AddrOf(w), w), 0) /\ 0 \in Nat
    BY <2>1 DEF EnsureFp32
  <2>3. Added(o.D, p)
    BY <1>1, <1>4, <2>2, Fp32Outcome
  <2>4. PICK f \in Nat : f = o.f + p.f
    BY <1>4, <2>3 DEF Added
  <2>5. IF p.ok THEN Whole(c, w, <<>>, p.D, f, p.D.fp[AddrOf(w)] = w, o.gone)
                ELSE Declined(c, "none", {w}, <<>>, p.D, f, o.gone)
    BY <2>1, <2>4
  <2>. QED BY <1>1, <1>4, <2>2, <2>5, Fp32Section
<1>. QED BY <1>5, <1>6

LEMMA Fp32PathStep ==
  ASSUME IInv, Free, NEW c \in Callers, NEW w \in Int4, Loaded(w), NEW rest \in Seq(PathNames),
         Fp32Path(c, w, rest), UNCHANGED <<HostSide, batch>>
  PROVE  IInv'
<1>1. w \in Weights /\ Plain /\ Good(Now)
  BY DEF IInv, Weights
<1>2. PICK o \in EnsureFp32(Now, w) :
        IF o.ok THEN Whole(c, w, rest, o.D, o.f, o.D.fp[AddrOf(w)] = w, {})
                ELSE Declined(c, "none", {w}, rest, o.D, o.f, {})
  BY DEF Fp32Path
<1>3. o \in EnsureCopy(Now, w, Now.fp, CopyFp32(Now, AddrOf(w), w), 0) /\ 0 \in Nat
  BY <1>2 DEF EnsureFp32
<1>4. Added(Now, o)
  BY <1>1, <1>3, Fp32Outcome
<1>5. o.f \in Nat
  BY <1>4 DEF Added
<1>. QED BY <1>1, <1>2, <1>3, <1>5, Fp32Section

LEMMA StagedPathStep ==
  ASSUME IInv, Free, NEW c \in Callers, NEW k \in {"jit", "tc"}, NEW w \in Int4, Loaded(w),
         NEW rest \in Seq(PathNames), StagedPath(c, k, w, rest), UNCHANGED <<HostSide, batch>>
  PROVE  IInv'
<1>1. Plain /\ Good(Now) /\ {w} \subseteq Weights /\ {w} \subseteq Int4 /\ (\A v \in {w} : Loaded(v))
  BY DEF IInv, Weights
<1>2. ASSUME NEW o \in EnsureInt4(Now, w),
             IF o.ok /\ jit
             THEN Hold(c, Product(k, {w}, rest, TRUE, o.D.i4[AddrOf(w)].of = w), o.D, o.f, o.gone)
             ELSE Declined(c, "none", {w}, rest, o.D, o.f, o.gone)
      PROVE  IInv'
  <2>1. Sound(Now, o) /\ (o.ok => Found(o.D, w))
    BY <1>1, Int4Outcome
  <2>2. Good(o.D) /\ o.f \in Nat
    BY <2>1 DEF Sound
  <2>3. CASE o.ok /\ jit
    <3>1. PICK own \in BOOLEAN : own = (o.D.i4[AddrOf(w)].of = w)
      OBVIOUS
    <3>2. own \/ AddrOf(w) \in reused
      BY <2>1, <2>2, <2>3, <3>1, FoundOwn
    <3>3. Hold(c, Product(k, {w}, rest, TRUE, own), o.D, o.f, o.gone)
      BY <1>2, <2>3, <3>1
    <3>. QED BY <2>2, <3>2, <3>3, HoldSection
  <2>4. CASE ~(o.ok /\ jit)
    <3>1. Declined(c, "none", {w}, rest, o.D, o.f, o.gone)
      BY <1>2, <2>4
    <3>. QED BY <1>1, <2>2, <3>1, DeclinedSection
  <2>. QED BY <2>3, <2>4
<1>3. CASE Declined(c, "none", {w}, rest, Now, 0, {})
  <2>1. 0 \in Nat
    OBVIOUS
  <2>. QED BY <1>1, <1>3, <2>1, DeclinedSection
<1>. QED BY <1>2, <1>3 DEF StagedPath

LEMMA ScratchPathStep ==
  ASSUME IInv, Free, NEW c \in Callers, NEW w \in Int4, Loaded(w),
         NEW rest \in Seq(PathNames), ScratchPath(c, w, rest), UNCHANGED <<HostSide, batch>>
  PROVE  IInv'
<1>1. Plain /\ Good(Now) /\ {w} \subseteq Weights /\ {w} \subseteq Int4 /\ (\A v \in {w} : Loaded(v))
      /\ w \in Weights
  BY DEF IInv, Weights
<1>2. PICK o \in EnsureInt4(Now, w) :
        IF o.ok /\ jit
        THEN \/ Take(c, Product("scratch", {w}, rest, TRUE, o.D.i4[AddrOf(w)].of = w), o.D, o.f, o.gone)
             \/ Declined(c, "scratch", {w}, rest, o.D, o.f + 1, o.gone)
        ELSE Declined(c, "none", {w}, rest, o.D, o.f, o.gone)
  BY DEF ScratchPath
<1>3. Sound(Now, o) /\ (o.ok => Found(o.D, w))
  BY <1>1, Int4Outcome
<1>4. Good(o.D) /\ o.f \in Nat
  BY <1>3 DEF Sound
<1>5. CASE o.ok /\ Take(c, Product("scratch", {w}, rest, TRUE, o.D.i4[AddrOf(w)].of = w), o.D, o.f, o.gone)
  <2>1. PICK own \in BOOLEAN : own = (o.D.i4[AddrOf(w)].of = w)
    OBVIOUS
  <2>2. own \/ AddrOf(w) \in reused
    BY <1>3, <1>4, <1>5, <2>1, FoundOwn
  <2>3. Take(c, Product("scratch", {w}, rest, TRUE, own), o.D, o.f, o.gone)
    BY <1>5, <2>1
  <2>4. "scratch" \in Kinds
    BY DEF Kinds
  <2>. QED BY <1>1, <1>4, <2>2, <2>3, <2>4, TakeSection
<1>6. CASE Declined(c, "scratch", {w}, rest, o.D, o.f + 1, o.gone)
  <2>1. o.f + 1 \in Nat
    BY <1>4
  <2>. QED BY <1>1, <1>4, <1>6, <2>1, DeclinedSection
<1>7. CASE Declined(c, "none", {w}, rest, o.D, o.f, o.gone)
  BY <1>1, <1>4, <1>7, DeclinedSection
<1>. QED BY <1>2, <1>5, <1>6, <1>7

LEMMA AttemptStep ==
  ASSUME IInv, Free, NEW c \in Callers, NEW w \in Int4, Loaded(w),
         NEW paths \in Seq(PathNames), paths # <<>>, Attempt(c, w, paths), UNCHANGED <<HostSide, batch>>
  PROVE  IInv'
<1>1. Head(paths) \in PathNames /\ Tail(paths) \in Seq(PathNames)
  OBVIOUS
<1>2. CASE Head(paths) = "fp32"
  <2>1. Fp32Path(c, w, Tail(paths))
    BY <1>2 DEF Attempt
  <2>. QED BY <1>1, <2>1, Fp32PathStep
<1>3. CASE Head(paths) = "scratch"
  <2>1. ScratchPath(c, w, Tail(paths))
    BY <1>3 DEF Attempt
  <2>. QED BY <1>1, <2>1, ScratchPathStep
<1>4. CASE Head(paths) \in {"jit", "tc"}
  <2>1. StagedPath(c, Head(paths), w, Tail(paths))
    BY <1>4 DEF Attempt
  <2>. QED BY <1>1, <1>4, <2>1, StagedPathStep
<1>. QED BY <1>1, <1>2, <1>3, <1>4 DEF PathNames

LEMMA GemmRowsStep ==
  ASSUME IInv, NEW c \in Callers, NEW w \in Rows, GemmRows(c, w)
  PROVE  IInv'
<1>1. Free /\ Loaded(w) /\ UNCHANGED <<HostSide, batch>>
  BY DEF GemmRows, Start
<1>2. w \in Int4
  BY DeviceCachesAssumption
<1>3. PICK paths \in Paths : Attempt(c, w, paths)
  BY DEF GemmRows
<1>4. paths \in Seq(PathNames) /\ paths # <<>>
  <2>1. "fp32" \in PathNames /\ "jit" \in PathNames /\ "tc" \in PathNames /\ "scratch" \in PathNames
    BY DEF PathNames
  <2>2. CASE paths = <<"fp32", "jit">>
    BY <2>1, <2>2
  <2>3. CASE paths = <<"tc", "jit", "scratch", "fp32">>
    BY <2>1, <2>3
  <2>4. CASE paths = <<"scratch", "fp32", "jit", "tc">>
    BY <2>1, <2>4
  <2>5. paths = <<"fp32", "jit">> \/ paths = <<"tc", "jit", "scratch", "fp32">>
        \/ paths = <<"scratch", "fp32", "jit", "tc">>
    BY Zenon DEF Paths
  <2>. QED BY <2>2, <2>3, <2>4, <2>5
<1>. QED BY <1>1, <1>2, <1>3, <1>4, AttemptStep

LEMMA NextPathStep ==
  ASSUME IInv, NEW c \in Callers, NextPath(c)
  PROVE  IInv'
<1>1. Free /\ job[c].pc = "try" /\ UNCHANGED <<HostSide, batch>>
  BY DEF NextPath
<1>2. PICK w \in job[c].ws : Attempt(c, w, job[c].rest)
  BY DEF NextPath
<1>3. JobOK(c, job[c])
  BY DEF IInv, JobsOK
<1>4. w \in Int4 /\ Loaded(w) /\ job[c].rest \in Seq(PathNames) /\ job[c].rest # <<>>
  BY <1>1, <1>2, <1>3 DEF JobOK, Jobs
<1>. QED BY <1>1, <1>2, <1>4, AttemptStep

LEMMA GemmW16Step ==
  ASSUME IInv, NEW c \in Callers, NEW w \in Mid \cup Wide, GemmW16(c, w)
  PROVE  IInv'
<1>1. /\ Free /\ Loaded(w) /\ UNCHANGED <<HostSide, batch>> /\ w \in Weights /\ Plain /\ Good(Now)
      /\ <<>> \in Seq(PathNames) /\ {w} \subseteq Weights /\ (\A v \in {w} : Loaded(v))
  BY DEF GemmW16, Start, IInv, Weights
<1>2. ASSUME NEW o \in EnsureMid(Now, w),
             IF o.ok THEN Whole(c, w, <<>>, o.D, o.f, o.D.fp[AddrOf(w)] = w, {})
                     ELSE Declined(c, "none", {w}, <<>>, o.D, o.f, {})
      PROVE  IInv'
  <2>1. o \in EnsureCopy(Now, w, Now.fp, CopyFp32(Now, AddrOf(w), w), MidPad) /\ MidPad \in Nat
    BY DeviceCachesAssumption DEF EnsureMid
  <2>2. Added(Now, o)
    BY <1>1, <2>1, Fp32Outcome
  <2>3. o.f \in Nat
    BY <2>2 DEF Added
  <2>. QED BY <1>1, <1>2, <2>1, <2>3, Fp32Section
<1>3. ASSUME NEW o \in EnsureWide(Now, w),
             IF o.ok THEN Take(c, Product("vocab", {w}, <<>>, TRUE, o.D.pk[AddrOf(w)] = w), o.D, o.f, {})
                     ELSE Declined(c, "none", {w}, <<>>, o.D, o.f, {})
      PROVE  IInv'
  <2>1. o \in EnsureCopy(Now, w, Now.pk, CopyPack(Now, AddrOf(w), w), WidePad) /\ WidePad \in Nat
    BY DeviceCachesAssumption DEF EnsureWide
  <2>2. /\ Added(Now, o)
        /\ o.ok => AddrOf(w) \in DOMAIN o.D.pk /\ Shape[o.D.pk[AddrOf(w)]] = Shape[w]
    BY <1>1, <2>1, PackOutcome
  <2>3. Good(o.D) /\ o.f \in Nat
    BY <2>2 DEF Added
  <2>4. CASE o.ok
    <3>1. PICK own \in BOOLEAN : own = (o.D.pk[AddrOf(w)] = w)
      OBVIOUS
    <3>2. own \/ AddrOf(w) \in reused
      BY <1>1, <2>2, <2>3, <2>4, <3>1, FoundOwn
    <3>3. Take(c, Product("vocab", {w}, <<>>, TRUE, own), o.D, o.f, {})
      BY <1>3, <2>4, <3>1
    <3>4. "vocab" \in Kinds
      BY DEF Kinds
    <3>. QED BY <1>1, <2>3, <3>2, <3>3, <3>4, TakeSection
  <2>5. CASE ~o.ok
    <3>1. Declined(c, "none", {w}, <<>>, o.D, o.f, {})
      BY <1>3, <2>5
    <3>. QED BY <1>1, <2>3, <3>1, DeclinedSection
  <2>. QED BY <2>4, <2>5
<1>. QED BY <1>2, <1>3, Zenon DEF GemmW16

LEMMA GemmDequantizedStep ==
  ASSUME IInv, NEW c \in Callers, NEW w \in Mid, GemmDequantized(c, w)
  PROVE  IInv'
<1>1. /\ Free /\ Loaded(w) /\ UNCHANGED <<HostSide, batch>> /\ w \in Weights /\ Plain /\ Good(Now)
      /\ <<>> \in Seq(PathNames)
  BY DEF GemmDequantized, Start, IInv, Weights
<1>2. PICK o \in EnsureFp32(Now, w) :
             IF o.ok THEN Whole(c, w, <<>>, o.D, o.f, o.D.fp[AddrOf(w)] = w, {})
                     ELSE Declined(c, "none", {w}, <<>>, o.D, o.f, {})
  BY DEF GemmDequantized
<1>3. o \in EnsureCopy(Now, w, Now.fp, CopyFp32(Now, AddrOf(w), w), 0) /\ 0 \in Nat
  BY <1>2 DEF EnsureFp32
<1>4. Added(Now, o)
  BY <1>1, <1>3, Fp32Outcome
<1>5. o.f \in Nat
  BY <1>4 DEF Added
<1>. QED BY <1>1, <1>2, <1>3, <1>5, Fp32Section


(***************************************************************************)
(* The later sections of a product, and its launch.                        *)
(***************************************************************************)

\* What is said of the batch, of the weights it was called with.
Batched(S) ==
  /\ batch.kind \in Kinds \ {"vocab", "tc", "scratch"}
  /\ Range(batch.todo) \subseteq S
  /\ batch.live \subseteq AddrsOf(S) \cap DOMAIN i4
  /\ \A w \in S : AddrOf(w) \in batch.live => Shape[i4[AddrOf(w)].of] = Shape[w]
  /\ \A x \in batch.live, y \in DOMAIN i4 \ batch.live : <<y, x>> \in before
  /\ Hopeless(S) \/ (batch.ok => \A w \in S : w \in Range(batch.todo) \/ AddrOf(w) \in batch.live)

BatchType ==
  batch \in [by : Callers \cup {NoCaller}, kind : Kinds \cup {"none"}, todo : Seq(Int4),
             live : SUBSET Addrs, ok : BOOLEAN]

LEMMA BatchParts ==
  ASSUME BatchOK
  PROVE  /\ BatchType /\ \A c \in Callers : job[c].pc = "ensure" <=> batch.by = c
         /\ batch.by # NoCaller => Batched(job[batch.by].ws)
<1>. QED BY Zenon DEF BatchOK, BatchType, Batched

LEMMA BatchWhole ==
  ASSUME BatchType', \A c \in Callers : job'[c].pc = "ensure" <=> batch'.by = c,
         (batch.by # NoCaller => Batched(job[batch.by].ws))'
  PROVE  BatchOK'
<1>. QED BY Zenon DEF BatchOK, BatchType, Batched

LEMMA BatchStays ==
  ASSUME BatchOK, UNCHANGED <<host, device, budget, reused, batch>>,
         \A c \in Callers : job'[c].pc = "ensure" <=> job[c].pc = "ensure",
         \A c \in Callers : job[c].pc = "ensure" => job'[c].ws = job[c].ws
  PROVE  BatchOK'
<1>1. batch' = batch /\ i4' = i4 /\ before' = before /\ used' = used
  BY DEF device
<1>2. BatchType' /\ \A c \in Callers : job'[c].pc = "ensure" <=> batch'.by = c
  BY <1>1, BatchParts DEF BatchType
<1>3. ASSUME batch'.by # NoCaller
      PROVE  Batched(job[batch.by].ws)'
  <2>1. batch.by \in Callers /\ job[batch.by].pc = "ensure"
    BY <1>1, <1>3, BatchParts DEF BatchType
  <2>2. PICK S : S = job[batch.by].ws
    OBVIOUS
  <2>3. S = job'[batch'.by].ws
    BY <1>1, <2>1, <2>2
  <2>4. Batched(S)
    BY <1>1, <1>3, <2>2, BatchParts
  <2>5. Hopeless(S)' <=> Hopeless(S)
    BY <1>1 DEF Hopeless, Reused, AddrsOf, AddrOf, TooLarge, Fits, Unpinned, Int4Bytes
  <2>6. \A w : AddrOf(w)' = AddrOf(w)
    BY DEF AddrOf
  <2>7. AddrsOf(S)' = AddrsOf(S)
    BY DEF AddrsOf, AddrOf
  <2>8. Batched(S)'
    BY <1>1, <2>4, <2>5, <2>6, <2>7, Zenon DEF Batched
  <2>. QED BY <2>3, <2>8, Zenon DEF Batched
<1>. QED BY <1>2, <1>3, BatchWhole

LEMMA OwnStep ==
  ASSUME IInv, NEW c \in Callers, job[c].pc \in Flying, NEW k, NEW r, Moved(c, k, {}, r), Beside(k),
         JobOK(c, r)', r.pc # "ensure", BufferOK', ~wrong',
         UNCHANGED <<HostSide, device, batch>>, faults' \in Nat
  PROVE  IInv'
<1>1. JobsOK' /\ job'[c] = r /\ OthersSame(c)
  BY MovedOK DEF IInv
<1>2. UNCHANGED <<host, device, Books, reused>> /\ loads' \in Nat /\ budget' = budget
  BY DEF HostSide, Books, IInv, Plain
<1>3. Plain' /\ Good(Now)'
  BY <1>2, StillStep DEF IInv
<1>4. job[c].pc # "ensure"
  BY DEF Flying
<1>5. BatchOK'
  <2>1. \A d \in Callers : job'[d].pc = "ensure" <=> job[d].pc = "ensure"
    BY <1>1, <1>4 DEF OthersSame
  <2>2. \A d \in Callers : job[d].pc = "ensure" => job'[d].ws = job[d].ws
    BY <1>1, <1>4 DEF OthersSame
  <2>. QED BY <1>2, <2>1, <2>2, BatchStays DEF IInv
<1>. QED BY <1>1, <1>3, <1>5 DEF IInv

\* The product of c as it goes on, when nobody evicts.
SameProduct(j, r) ==
  /\ r.ws = j.ws /\ r.rest = j.rest /\ r.live = j.live /\ r.own = j.own
  /\ r.large = j.large /\ r.disturbed = j.disturbed

Going(c, k, pc) == [Others(c, k, {})[c] EXCEPT !.pc = pc]

LEMMA GoesOn ==
  ASSUME NEW c \in Callers, JobOK(c, job[c]), NEW k, NEW pc, pc \in Flying
  PROVE  /\ Going(c, k, pc) \in Jobs /\ SameProduct(job[c], Going(c, k, pc))
         /\ Going(c, k, pc).pc = pc /\ Going(c, k, pc).kind = job[c].kind
<1>1. job[c] \in Jobs
  BY DEF JobOK
<1>2. PICK q : q = Others(c, k, {})[c]
  OBVIOUS
<1>3. AddrsOf(job[c].ws) \cap {} = {}
  OBVIOUS
<1>4. /\ q \in Jobs /\ q.kind = job[c].kind /\ q.ws = job[c].ws /\ q.rest = job[c].rest
      /\ q.own = job[c].own /\ q.large = job[c].large /\ q.live = job[c].live
      /\ q.disturbed = job[c].disturbed
  BY <1>1, <1>2, <1>3, OthersFields
<1>5. PICK r : r = [q EXCEPT !.pc = pc]
  OBVIOUS
<1>6. Going(c, k, pc) = r
  BY <1>2, <1>5 DEF Going
<1>7. pc \in {"idle", "try", "ensure"} \cup Flying
  OBVIOUS
<1>8. /\ r \in Jobs /\ r.pc = pc /\ r.kind = q.kind /\ r.ws = q.ws /\ r.rest = q.rest
      /\ r.own = q.own /\ r.large = q.large /\ r.live = q.live /\ r.disturbed = q.disturbed
  BY <1>4, <1>5, <1>7, Zenon DEF Jobs
<1>. QED BY <1>4, <1>6, <1>8, Zenon DEF SameProduct

\* What is left to show of it.
LEMMA GoesOnOK ==
  ASSUME NEW c \in Callers, NEW j, JobOK(c, j), j.pc \in Flying, UNCHANGED <<host, reused>>,
         NEW r, r \in Jobs, SameProduct(j, r), r.pc \in Flying, r.kind \in Kinds,
         r.pc = "stage" => r.kind \in {"jit", "tc"}, r.pc = "fold" => r.kind = "out",
         r.pc = "copy" => r.kind # "out",
         Excused(j) \/ Needs(r) = "none" \/ Holds(Needs(r), c)'
  PROVE  JobOK(c, r)' /\ r.pc # "ensure"
<1>1. /\ \A w \in r.ws : Loaded(w)'
      /\ AddrsOf(r.ws)' = AddrsOf(r.ws) /\ reused' = reused
  BY DEF JobOK, SameProduct, Loaded, AddrsOf, AddrOf
<1>2. Excused(j) <=> (Excused(r))'
  BY <1>1 DEF Excused, SameProduct, Reused
<1>3. (Excused(r))' \/ (r.own /\ r.live)
  BY <1>2 DEF JobOK, SameProduct
<1>4. (Excused(r))' \/ Needs(r) = "none" \/ Holds(Needs(r), c)'
  BY <1>2
<1>5. r.kind # "none" /\ r.pc \notin {"idle", "try", "ensure"}
  BY DEF Kinds, Flying
<1>6. r.rest # <<>> => r.ws \subseteq Int4
  BY DEF JobOK, SameProduct
<1>. QED BY <1>1, <1>3, <1>4, <1>5, <1>6 DEF JobOK

LEMMA StageStep ==
  ASSUME IInv, NEW c \in Callers, Stage(c)
  PROVE  IInv'
<1>1. PICK j : j = job[c]
  OBVIOUS
<1>2. /\ j.pc = "stage" /\ UNCHANGED <<HostSide, device, batch>> /\ wrong' = wrong /\ faults' = faults
      /\ buf' = Filled(From(j.kind), c, TRUE)
      /\ job' = [Others(c, j.kind, {}) EXCEPT ![c].pc = "launch"]
  BY <1>1 DEF Stage, MidStep
<1>3. JobOK(c, j) /\ j.kind \in {"jit", "tc"} /\ j.kind \in Kinds /\ j.pc \in Flying
  BY <1>1, <1>2 DEF IInv, JobsOK, JobOK, Kinds, Flying
<1>4. From(j.kind) = "dx" /\ "dx" \in Buffers /\ "dx" \in Touched(j.kind)
  BY <1>3 DEF From, Touched, To, Buffers
<1>5. /\ BufferOK' /\ Holds("dx", c)'
      /\ \A x \in Buffers : x # "dx" => buf'[x] = buf[x]
  <2>1. BufferOK /\ buf' = Filled("dx", c, TRUE)
    BY <1>2, <1>4 DEF IInv, JobsOK
  <2>. QED BY <1>4, <2>1, FilledOK DEF Holds
<1>6. PICK r : r = Going(c, j.kind, "launch")
  OBVIOUS
<1>7. Moved(c, j.kind, {}, r)
  BY <1>2, <1>6 DEF Moved, Going
<1>8. r \in Jobs /\ SameProduct(j, r) /\ r.pc = "launch" /\ r.kind = j.kind
  <2>1. "launch" \in Flying /\ JobOK(c, job[c])
    BY <1>1, <1>3 DEF Flying
  <2>. QED BY <1>1, <1>6, <2>1, GoesOn
<1>9. JobOK(c, r)' /\ r.pc # "ensure"
  <2>1. Needs(r) = "dx"
    BY <1>4, <1>8 DEF Needs
  <2>2. r.pc \in Flying /\ r.kind \in Kinds /\ UNCHANGED <<host, reused>>
    BY <1>2, <1>3, <1>8 DEF Flying, HostSide
  <2>. QED BY <1>3, <1>5, <1>8, <2>1, <2>2, GoesOnOK
<1>10. Beside(j.kind) /\ ~wrong' /\ faults' \in Nat
  BY <1>2, <1>4, <1>5 DEF Beside, IInv, JobsOK, Plain, HostSide
<1>. QED BY <1>1, <1>2, <1>3, <1>5, <1>7, <1>9, <1>10, OwnStep

LEMMA LaunchStep ==
  ASSUME IInv, NEW c \in Callers, Launch(c)
  PROVE  IInv'
<1>1. PICK j : j = job[c]
  OBVIOUS
<1>2. PICK k : k = j.kind
  OBVIOUS
<1>3. PICK right \in BOOLEAN : right = ((From(k) # "none" => Holds(From(k), c)) /\ j.own /\ j.live)
  OBVIOUS
<1>4. PICK pc : pc = IF k = "out" THEN "fold" ELSE "copy"
  OBVIOUS
<1>5. /\ j.pc = "launch" /\ UNCHANGED <<HostSide, device, batch>> /\ wrong' = wrong /\ faults' = faults
      /\ buf' = Filled(To(k), c, right)
      /\ job' = [Others(c, k, {}) EXCEPT ![c].pc = pc]
  BY <1>1, <1>2, <1>3, <1>4 DEF Launch, MidStep
<1>6. JobOK(c, j) /\ k \in Kinds /\ j.pc \in Flying /\ pc \in {"fold", "copy"} /\ pc \in Flying
  BY <1>1, <1>2, <1>4, <1>5 DEF IInv, JobsOK, JobOK, Jobs, Flying
<1>7. To(k) \in Buffers /\ To(k) \in Touched(k)
  BY <1>6, KindBuffers
<1>8. /\ BufferOK' /\ buf'[To(k)] = [by |-> c, right |-> right]
      /\ \A x \in Buffers : x # To(k) => buf'[x] = buf[x]
  <2>1. BufferOK
    BY DEF IInv, JobsOK
  <2>. QED BY <1>5, <1>7, <2>1, FilledOK
<1>9. PICK r : r = Going(c, k, pc)
  OBVIOUS
<1>10. Moved(c, k, {}, r)
  BY <1>5, <1>9 DEF Moved, Going
<1>11. r \in Jobs /\ SameProduct(j, r) /\ r.pc = pc /\ r.kind = k
  <2>1. JobOK(c, job[c])
    BY <1>1, <1>6
  <2>. QED BY <1>1, <1>2, <1>6, <1>9, <2>1, GoesOn
<1>12. Needs(r) = To(k)
  <2>1. CASE k = "out"
    BY <1>4, <1>11, <2>1 DEF Needs, To
  <2>2. CASE k # "out"
    BY <1>4, <1>11, <2>2 DEF Needs
  <2>. QED BY <2>1, <2>2
<1>13. Excused(j) \/ Holds(To(k), c)'
  <2>1. Needs(j) = From(k)
    BY <1>2, <1>5 DEF Needs
  <2>2. Excused(j) \/ right
    BY <1>3, <1>6, <2>1 DEF JobOK
  <2>3. right => right = TRUE
    OBVIOUS
  <2>. QED BY <1>8, <2>2, <2>3 DEF Holds
<1>14. JobOK(c, r)' /\ r.pc # "ensure"
  <2>1. r.pc \in Flying /\ r.kind \in Kinds /\ UNCHANGED <<host, reused>>
    BY <1>5, <1>6, <1>11 DEF HostSide
  <2>2. r.pc # "stage" /\ (r.pc = "fold" => r.kind = "out") /\ (r.pc = "copy" => r.kind # "out")
    BY <1>4, <1>11
  <2>3. Excused(j) \/ Needs(r) = "none" \/ Holds(Needs(r), c)'
    BY <1>12, <1>13
  <2>. QED BY <1>6, <1>11, <2>1, <2>2, <2>3, GoesOnOK
<1>15. Beside(k) /\ ~wrong' /\ faults' \in Nat
  BY <1>5, <1>7, <1>8 DEF Beside, IInv, JobsOK, Plain, HostSide
<1>. QED BY <1>1, <1>5, <1>6, <1>8, <1>10, <1>14, <1>15, OwnStep

LEMMA FoldStep ==
  ASSUME IInv, NEW c \in Callers, Fold(c)
  PROVE  IInv'
<1>1. PICK j : j = job[c]
  OBVIOUS
<1>2. PICK right \in BOOLEAN : right = Holds("mlp_norm", c)
  BY DEF Holds
<1>3. /\ j.pc = "fold" /\ UNCHANGED <<HostSide, device, batch>> /\ wrong' = wrong /\ faults' = faults
      /\ buf' = Filled("mlp_x", c, right)
      /\ job' = [Others(c, "out", {}) EXCEPT ![c].pc = "launch", ![c].kind = "mlp"]
  BY <1>1, <1>2 DEF Fold, MidStep
<1>4. JobOK(c, j) /\ j.pc \in Flying
  BY <1>1, <1>3 DEF IInv, JobsOK, Flying
<1>5. /\ BufferOK' /\ buf'["mlp_x"] = [by |-> c, right |-> right]
      /\ \A x \in Buffers : x # "mlp_x" => buf'[x] = buf[x]
  <2>1. BufferOK /\ "mlp_x" \in Buffers
    BY DEF IInv, JobsOK, Buffers
  <2>. QED BY <1>3, <2>1, FilledOK
<1>6. PICK q : q = Going(c, "out", "launch")
  OBVIOUS
<1>7. PICK r : r = [q EXCEPT !.kind = "mlp"]
  OBVIOUS
<1>8. Moved(c, "out", {}, r)
  BY <1>3, <1>6, <1>7 DEF Moved, Others, Going
<1>9. q \in Jobs /\ SameProduct(j, q) /\ q.pc = "launch"
  <2>1. "launch" \in Flying /\ JobOK(c, job[c])
    BY <1>1, <1>4 DEF Flying
  <2>. QED BY <1>1, <1>6, <2>1, GoesOn
<1>10. r \in Jobs /\ SameProduct(j, r) /\ r.pc = "launch" /\ r.kind = "mlp"
  <2>1. "mlp" \in Kinds \cup {"none"}
    BY DEF Kinds
  <2>2. /\ r \in Jobs /\ r.pc = q.pc /\ r.kind = "mlp" /\ r.ws = q.ws /\ r.rest = q.rest
        /\ r.own = q.own /\ r.large = q.large /\ r.live = q.live /\ r.disturbed = q.disturbed
    BY <1>7, <1>9, <2>1, Zenon DEF Jobs
  <2>. QED BY <1>9, <2>2, Zenon DEF SameProduct
<1>11. Excused(j) \/ Holds("mlp_x", c)'
  <2>1. Needs(j) = "mlp_norm"
    BY <1>3 DEF Needs
  <2>2. Excused(j) \/ right
    BY <1>2, <1>4, <2>1 DEF JobOK
  <2>3. right => right = TRUE
    OBVIOUS
  <2>. QED BY <1>5, <2>2, <2>3 DEF Holds
<1>12. JobOK(c, r)' /\ r.pc # "ensure"
  <2>1. Needs(r) = "mlp_x"
    BY <1>10 DEF Needs, From
  <2>2. r.pc \in Flying /\ r.kind \in Kinds /\ UNCHANGED <<host, reused>>
    BY <1>3, <1>10 DEF Flying, Kinds, HostSide
  <2>. QED BY <1>4, <1>10, <1>11, <2>1, <2>2, GoesOnOK
<1>13. Beside("out") /\ ~wrong' /\ faults' \in Nat
  <2>1. "mlp_x" \in Touched("out")
    BY DEF Touched, From, To
  <2>. QED BY <1>3, <1>5, <2>1 DEF Beside, IInv, JobsOK, Plain, HostSide
<1>. QED BY <1>1, <1>3, <1>4, <1>5, <1>8, <1>12, <1>13, OwnStep


LEMMA FailedNext ==
  ASSUME NEW c, NEW S, S \subseteq Weights, NEW rest \in Seq(PathNames), rest # <<>> => S \subseteq Int4,
         \A w \in S : Loaded(w), UNCHANGED host
  PROVE  JobOK(c, Failed(S, rest))' /\ Failed(S, rest).pc # "ensure"
<1>1. PICK r : r = Failed(S, rest)
  OBVIOUS
<1>2. JobOK(c, r) /\ r.pc \in {"idle", "try"}
  BY <1>1, FailedOK
<1>3. r.pc \notin Flying /\ \A w \in r.ws : Loaded(w)'
  BY <1>2 DEF Flying, JobOK, Loaded
<1>4. JobOK(c, r)'
  BY <1>2, <1>3 DEF JobOK
<1>. QED BY <1>1, <1>2, <1>4

LEMMA CopiedBuffers ==
  ASSUME BufferOK, NEW c \in Callers, NEW k \in Kinds, NEW right \in BOOLEAN,
         buf' = CASE k = "tc" -> Filled("dy", c, right)
                  [] k = "scratch" -> [Filled("dx", c, TRUE) EXCEPT !["dy"] = [by |-> c, right |-> right]]
                  [] OTHER -> buf
  PROVE  BufferOK' /\ \A b \in Buffers : b \notin Touched(k) => buf'[b] = buf[b]
<1>1. "dx" \in Buffers /\ "dy" \in Buffers
  BY DEF Buffers
<1>2. CASE k = "tc"
  <2>1. buf' = Filled("dy", c, right) /\ "dy" \in Touched(k)
    BY <1>2 DEF Touched
  <2>. QED BY <1>1, <2>1, FilledOK
<1>3. CASE k = "scratch"
  <2>1. buf' = [[buf EXCEPT !["dx"] = [by |-> c, right |-> TRUE]] EXCEPT !["dy"] = [by |-> c, right |-> right]]
    BY <1>3, Zenon DEF Filled
  <2>2. /\ [by |-> c, right |-> TRUE] \in [by : Callers \cup {NoCaller}, right : BOOLEAN]
        /\ [by |-> c, right |-> right] \in [by : Callers \cup {NoCaller}, right : BOOLEAN]
    OBVIOUS
  <2>3. /\ BufferOK'
        /\ \A b \in Buffers : b \notin {"dx", "dy"} => buf'[b] = buf[b]
    BY <1>1, <2>1, <2>2, Zenon DEF BufferOK
  <2>4. "dx" \in Touched(k) /\ "dy" \in Touched(k)
    BY <1>3 DEF Touched
  <2>. QED BY <2>3, <2>4
<1>4. CASE k # "tc" /\ k # "scratch"
  BY <1>4 DEF BufferOK
<1>. QED BY <1>2, <1>3, <1>4

LEMMA CopyBackStep ==
  ASSUME IInv, NEW c \in Callers, CopyBack(c)
  PROVE  IInv'
<1>1. PICK j : j = job[c]
  OBVIOUS
<1>2. PICK k : k = j.kind
  OBVIOUS
<1>3. PICK right \in BOOLEAN : right = Holds(To(k), c)
  BY DEF Holds
<1>4. /\ j.pc = "copy" /\ UNCHANGED <<HostSide, device, batch>> /\ faults' = faults
      /\ wrong' = (wrong \/ ~(right \/ j.disturbed \/ j.large \/ AddrsOf(j.ws) \cap reused # {}))
      /\ buf' = CASE k = "tc" -> Filled("dy", c, right)
                  [] k = "scratch" -> [Filled("dx", c, TRUE) EXCEPT !["dy"] = [by |-> c, right |-> right]]
                  [] OTHER -> buf
  BY <1>1, <1>2, <1>3 DEF CopyBack, MidStep
<1>5. PICK more \in IF k = "jit" THEN BOOLEAN ELSE {FALSE} :
        job' = [Others(c, k, {}) EXCEPT ![c] = IF more THEN [j EXCEPT !.pc = "stage"] ELSE Idle]
  BY <1>1, <1>2 DEF CopyBack
<1>6. /\ JobOK(c, j) /\ j \in Jobs /\ k \in Kinds /\ j.pc \in Flying /\ BufferOK /\ ~wrong
      /\ UNCHANGED <<host, reused>>
  BY <1>1, <1>2, <1>4 DEF IInv, JobsOK, JobOK, Jobs, Flying, HostSide
<1>7. ~wrong'
  <2>1. Needs(j) = To(k) /\ To(k) # "none"
    BY <1>2, <1>4, <1>6, KindBuffers DEF Needs
  <2>2. Excused(j) \/ right
    BY <1>3, <1>6, <2>1 DEF JobOK
  <2>. QED BY <1>4, <1>6, <2>2 DEF Excused, Reused
<1>8. BufferOK' /\ Beside(k) /\ faults' \in Nat
  <2>1. BufferOK' /\ \A b \in Buffers : b \notin Touched(k) => buf'[b] = buf[b]
    BY <1>4, <1>6, CopiedBuffers
  <2>. QED BY <1>4, <1>6, <2>1 DEF Beside, IInv, Plain
<1>9. CASE more
  <2>1. PICK r : r = [j EXCEPT !.pc = "stage"]
    OBVIOUS
  <2>2. Moved(c, k, {}, r)
    BY <1>5, <1>9, <2>1 DEF Moved
  <2>3. k = "jit" /\ "stage" \in {"idle", "try", "ensure"} \cup Flying
    BY <1>5, <1>9 DEF Flying
  <2>4. r \in Jobs /\ SameProduct(j, r) /\ r.pc = "stage" /\ r.kind = j.kind
    BY <1>6, <2>1, <2>3, Zenon DEF Jobs, SameProduct
  <2>5. JobOK(c, r)' /\ r.pc # "ensure"
    <3>1. Needs(r) = "none" /\ r.pc \in Flying /\ r.kind \in Kinds
      BY <1>2, <1>6, <2>4 DEF Needs, Flying
    <3>. QED BY <1>2, <1>6, <2>3, <2>4, <3>1, GoesOnOK
  <2>. QED BY <1>1, <1>4, <1>6, <1>7, <1>8, <2>2, <2>5, OwnStep
<1>10. CASE ~more
  <2>1. Moved(c, k, {}, Idle)
    BY <1>5, <1>10 DEF Moved
  <2>2. JobOK(c, Idle)' /\ Idle.pc # "ensure"
    <3>1. JobOK(c, Idle) /\ Idle.pc = "idle" /\ Idle.ws = {}
      BY IdleOK
    <3>. QED BY <3>1 DEF JobOK, Flying
  <2>. QED BY <1>1, <1>4, <1>6, <1>7, <1>8, <2>1, <2>2, OwnStep
<1>. QED BY <1>9, <1>10

LEMMA GiveUpStep ==
  ASSUME IInv, NEW c \in Callers, GiveUp(c)
  PROVE  IInv'
<1>1. PICK j : j = job[c]
  OBVIOUS
<1>2. /\ j.pc \in Flying /\ UNCHANGED <<HostSide, device, batch>> /\ faults' \in {faults, faults + 1}
      /\ buf' = buf /\ wrong' = wrong
      /\ Moved(c, j.kind, {}, Failed(j.ws, j.rest))
  <2>1. PICK n \in {0, 1} : n = IF jit THEN 1 ELSE 0
    OBVIOUS
  <2>2. Fail(n)
    BY <2>1 DEF GiveUp
  <2>3. faults' \in {faults, faults + 1}
    <3>1. faults' = faults + n /\ faults \in Nat
      BY <2>2 DEF Fail, IInv, Plain
    <3>. QED BY <3>1
  <2>4. /\ j.pc \in Flying /\ UNCHANGED <<HostSide, device, batch>> /\ buf' = buf /\ wrong' = wrong
        /\ Moved(c, j.kind, {}, Failed(j.ws, j.rest))
    BY <1>1, Zenon DEF GiveUp, Moved, Flying
  <2>. QED BY <2>3, <2>4
<1>3. /\ JobOK(c, j) /\ j.ws \subseteq Weights /\ j.rest \in Seq(PathNames)
      /\ UNCHANGED <<host, reused>> /\ BufferOK /\ ~wrong /\ faults \in Nat
  BY <1>1, <1>2 DEF IInv, JobsOK, JobOK, Jobs, HostSide, Plain
<1>4. JobOK(c, Failed(j.ws, j.rest))' /\ Failed(j.ws, j.rest).pc # "ensure"
  <2>1. (\A w \in j.ws : Loaded(w)) /\ (j.rest # <<>> => j.ws \subseteq Int4)
    BY <1>3 DEF JobOK
  <2>. QED BY <1>3, <2>1, FailedNext
<1>5. BufferOK' /\ ~wrong' /\ Beside(j.kind) /\ faults' \in Nat
  BY <1>2, <1>3 DEF BufferOK, Beside
<1>. QED BY <1>1, <1>2, <1>4, <1>5, OwnStep

(***************************************************************************)
(* Products of several weights.                                            *)
(***************************************************************************)

BatchKinds == Kinds \ {"vocab", "tc", "scratch"}

LEMMA BeginStep ==
  ASSUME IInv, NEW c \in Callers, NEW k \in BatchKinds, NEW ws \in Seq(Int4),
         Start(c, Range(ws)), Begin(c, k, ws), UNCHANGED HostSide
  PROVE  IInv'
<1>1. PICK S : S = Range(ws)
  OBVIOUS
<1>2. PICK r : r = [Idle EXCEPT !.pc = "ensure", !.ws = S]
  OBVIOUS
<1>3. /\ UNCHANGED <<device, buf, wrong, faults>> /\ job' = [job EXCEPT ![c] = r]
      /\ batch' = [by |-> c, kind |-> k, todo |-> ws, live |-> {}, ok |-> TRUE]
  BY <1>1, <1>2 DEF Begin
<1>4. S \subseteq Int4 /\ (\A w \in S : Loaded(w)) /\ Free
  BY <1>1 DEF Range, Start
<1>5. UNCHANGED <<host, reused, Books>> /\ loads' = loads
  BY DEF HostSide
<1>6. r.pc = "ensure" /\ r.ws = S /\ JobOK(c, r)'
  <2>1. r = [pc |-> "ensure", kind |-> "none", ws |-> S, rest |-> <<>>, live |-> TRUE, own |-> TRUE,
             large |-> FALSE, disturbed |-> FALSE]
    BY <1>2 DEF Idle
  <2>2. r.pc = "ensure" /\ r.kind = "none" /\ r.ws = S /\ r.rest = <<>>
    BY <2>1
  <2>3. r \in Jobs
    <3>1. S \in SUBSET Weights /\ <<>> \in Seq(PathNames)
      BY <1>4 DEF Weights
    <3>. QED BY <2>1, <3>1, JobType
  <2>4. \A w \in S : Loaded(w)'
    BY <1>4, <1>5 DEF Loaded
  <2>. QED BY <1>4, <2>2, <2>3, <2>4 DEF JobOK, Flying
<1>7. JobsOK'
  <2>1. ASSUME NEW d \in Callers
        PROVE  JobOK(d, job[d])'
    <3>1. PICK q : q = job[d]
      OBVIOUS
    <3>2. JobOK(d, q)
      BY <3>1 DEF IInv, JobsOK
    <3>3. JobOK(d, q)'
      BY <1>3, <1>5, <3>2 DEF JobOK, Loaded, Excused, Reused, AddrsOf, AddrOf, Holds
    <3>4. job'[d] = IF d = c THEN r ELSE q
      BY <1>3, <3>1 DEF IInv, JobsOK
    <3>. QED BY <1>6, <3>3, <3>4
  <2>2. \E J : job' \in [Callers -> J]
    <3>1. PICK J : job \in [Callers -> J]
      BY DEF IInv, JobsOK
    <3>2. job' \in [Callers -> J \cup {r}]
      BY <1>3, <3>1
    <3>. QED BY <3>2
  <2>3. BufferOK' /\ ~wrong'
    BY <1>3 DEF IInv, JobsOK, BufferOK
  <2>. QED BY <2>1, <2>2, <2>3 DEF JobsOK
<1>8. BatchOK'
  <2>1. /\ batch'.by = c /\ batch'.kind = k /\ batch'.todo = ws /\ batch'.live = {} /\ batch'.ok = TRUE
        /\ BatchType'
    BY <1>3 DEF BatchType, BatchKinds
  <2>2. \A d \in Callers : job'[d].pc = "ensure" <=> batch'.by = d
    <3>1. \A d \in Callers : job[d].pc # "ensure"
      BY <1>4, BatchParts, DeviceCachesAssumption DEF IInv, Free
    <3>2. \A d \in Callers : job'[d] = IF d = c THEN r ELSE job[d]
      BY <1>3 DEF IInv, JobsOK
    <3>. QED BY <1>6, <2>1, <3>1, <3>2
  <2>3. (batch.by # NoCaller => Batched(job[batch.by].ws))'
    <3>1. job'[batch'.by].ws = S
      BY <1>3, <1>6, <2>1 DEF IInv, JobsOK
    <3>2. Batched(S)'
      BY <1>1, <2>1 DEF Batched, BatchKinds
    <3>. QED BY <3>1, <3>2, Zenon DEF Batched
  <2>. QED BY <2>1, <2>2, <2>3, BatchWhole
<1>9. Plain' /\ Good(Now)'
  <2>1. faults' \in Nat /\ loads' \in Nat
    BY <1>3, <1>5 DEF IInv, Plain
  <2>. QED BY <1>3, <1>5, <2>1, StillStep DEF IInv
<1>. QED BY <1>7, <1>8, <1>9 DEF IInv

LEMMA GemmMultiStep ==
  ASSUME IInv, NEW c \in Callers, NEW ws \in Multi, GemmMulti(c, ws)
  PROVE  IInv'
<1>1. ws \in Seq(Int4) /\ {"gemv", "jit"} \subseteq BatchKinds
  BY DeviceCachesAssumption DEF BatchKinds, Kinds
<1>. QED BY <1>1, BeginStep DEF GemmMulti

LEMMA FusedStep ==
  ASSUME IInv, NEW c \in Callers, NEW k \in {"norm", "mlp", "out"}, NEW ws \in Multi \cup Ffn,
         Fused(c, k, ws)
  PROVE  IInv'
<1>1. ws \in Seq(Int4) /\ k \in BatchKinds
  BY DeviceCachesAssumption DEF BatchKinds, Kinds
<1>2. CASE Begin(c, k, ws)
  BY <1>1, <1>2, BeginStep DEF Fused
<1>3. CASE Declined(c, k, Range(ws), <<>>, Now, 1, {}) /\ UNCHANGED batch
  <2>1. PICK S : S = Range(ws)
    OBVIOUS
  <2>2. Declined(c, k, S, <<>>, Now, 1, {}) /\ Free /\ UNCHANGED <<HostSide, batch>>
    BY <1>3, <2>1 DEF Fused, Start
  <2>3. S \subseteq Weights /\ (\A v \in S : Loaded(v)) /\ <<>> \in Seq(PathNames) /\ 1 \in Nat
    BY <1>1, <2>1 DEF Fused, Start, Range, Weights
  <2>4. Good(Now)
    BY DEF IInv
  <2>. QED BY <2>2, <2>3, <2>4, DeclinedSection
<1>. QED BY <1>2, <1>3 DEF Fused


\* What an ensure_int4_resident that fails, or that uploads, leaves as it was.
Declines(D, o, w) ==
  /\ DOMAIN o.D.i4 \subseteq DOMAIN D.i4
  /\ AddrOf(w) \in DOMAIN D.i4 => o.D = D /\ o.gone = {}

LEMMA DeclinesInt4 ==
  ASSUME NEW D, NEW w, NEW o \in EnsureInt4(D, w), ~o.ok
  PROVE  Declines(D, o, w)
<1>1. CASE AddrOf(w) \notin DOMAIN D.i4
  <2>1. PICK gone : gone = Victims(D, Bytes[w].q)
    OBVIOUS
  <2>2. PICK E : E = Evict(D, gone)
    OBVIOUS
  <2>3. \/ o = Out(E, FALSE, gone, 0)
        \/ o = Out(E, FALSE, gone, 1)
        \/ o = Out(Upload(E, AddrOf(w), w), TRUE, gone, 0)
    BY <1>1, <2>1, <2>2, Zenon DEF EnsureInt4, Missed
  <2>4. o.D = E
    BY <2>3 DEF Out
  <2>5. DOMAIN E.i4 = DOMAIN D.i4 \ gone
    BY <2>2, EvictFields
  <2>. QED BY <1>1, <2>4, <2>5 DEF Declines
<1>2. CASE AddrOf(w) \in DOMAIN D.i4 /\ Shape[D.i4[AddrOf(w)].of] # Shape[w]
  <2>1. o = Out(D, FALSE, {}, 0)
    BY <1>2, Zenon DEF EnsureInt4
  <2>2. o.D = D /\ o.gone = {}
    BY <2>1 DEF Out
  <2>. QED BY <2>2 DEF Declines
<1>3. CASE AddrOf(w) \in DOMAIN D.i4 /\ Shape[D.i4[AddrOf(w)].of] = Shape[w]
  <2>1. o = Out(Touch(D, AddrOf(w)), TRUE, {}, 0)
    BY <1>3, Zenon DEF EnsureInt4
  <2>. QED BY <2>1 DEF Out
<1>. QED BY <1>1, <1>2, <1>3

\* A copy in i4 after an ensure_int4_resident that is pinned was there, pinned.
LEMMA NoNewPins ==
  ASSUME NEW D, Good(D), NEW w \in Int4, NEW o \in EnsureInt4(D, w)
  PROVE  \A a \in DOMAIN o.D.i4 : o.D.i4[a].pin => a \in DOMAIN D.i4 /\ D.i4[a].pin
<1>1. CASE AddrOf(w) \notin DOMAIN D.i4
  <2>1. PICK gone : gone = Victims(D, Bytes[w].q)
    OBVIOUS
  <2>2. PICK E : E = Evict(D, gone)
    OBVIOUS
  <2>3. PICK F : F = Upload(E, AddrOf(w), w)
    OBVIOUS
  <2>4. \/ o = Out(E, FALSE, gone, 0)
        \/ o = Out(E, FALSE, gone, 1)
        \/ o = Out(F, TRUE, gone, 0)
    BY <1>1, <2>1, <2>2, <2>3, Zenon DEF EnsureInt4, Missed
  <2>5. o.D = E \/ o.D = F
    BY <2>4 DEF Out
  <2>6. /\ DOMAIN E.i4 = DOMAIN D.i4 \ gone
        /\ \A a \in DOMAIN D.i4 \ gone : E.i4[a] = D.i4[a]
    BY <2>2, EvictFields
  <2>7. F.i4 = With(E.i4, AddrOf(w), [of |-> w, pin |-> FALSE])
    BY <2>3 DEF Upload, Caches
  <2>. QED BY <2>5, <2>6, <2>7 DEF With
<1>2. CASE AddrOf(w) \in DOMAIN D.i4
  <2>1. o = Out(D, FALSE, {}, 0) \/ o = Out(Touch(D, AddrOf(w)), TRUE, {}, 0)
    BY <1>2, Zenon DEF EnsureInt4
  <2>2. o.D = D \/ o.D = Touch(D, AddrOf(w))
    BY <2>1 DEF Out
  <2>3. o.D.i4 = D.i4
    BY <2>2 DEF Touch, Caches
  <2>. QED BY <2>3
<1>. QED BY <1>1, <1>2

\* What can leave for the weights of S.
Room(S) == {a \in AddrsOf(S) : a \notin DOMAIN i4 \/ ~i4[a].pin}
RoomBytes(S) == [a \in Room(S) |-> Bytes[host[a]].q]

LEMMA TooLargeIs ==
  ASSUME NEW S
  PROVE  TooLarge(S) <=> ~Fits(Fixed(Now) + Total(Room(S), RoomBytes(S)))
BY NowFields, Zenon DEF TooLarge, Fixed, Room, RoomBytes

LEMMA AddrsLoaded ==
  ASSUME NEW S, \A w \in S : Loaded(w), NEW a \in AddrsOf(S)
  PROVE  a \in Addrs /\ host[a] \in S /\ AddrOf(host[a]) = a
<1>1. PICK w \in S : a = AddrOf(w)
  BY DEF AddrsOf
<1>. QED BY <1>1, AddrFacts

\* The copies of S that may leave, and what is to be uploaded, are within what
\* S needs.
LEMMA RoomFor ==
  ASSUME Good(Now), NEW S, S \subseteq Int4, \A w \in S : Loaded(w), ~Reused(S),
         NEW w \in S, AddrOf(w) \notin DOMAIN i4,
         NEW L, L \subseteq AddrsOf(S) \cap Unpinned(i4),
         \A v \in S : AddrOf(v) \in L => Shape[i4[AddrOf(v)].of] = Shape[v]
  PROVE  /\ Total(L, Int4Bytes(i4)) + Bytes[w].q <= Total(Room(S), RoomBytes(S))
         /\ Total(Room(S), RoomBytes(S)) \in Nat
<1>1. PICK x : x = AddrOf(w)
  OBVIOUS
<1>2. x \in AddrsOf(S) /\ x \notin L /\ x \in Room(S) /\ host[x] = w
  BY <1>1, AddrFacts DEF AddrsOf, Room, Unpinned
<1>3. L \subseteq Room(S)
  BY DEF Room, Unpinned
<1>4. PICK g : g = RoomBytes(S)
  OBVIOUS
<1>5. DOMAIN g = Room(S) /\ \A a \in Room(S) : g[a] = Bytes[host[a]].q
  BY <1>4 DEF RoomBytes
<1>6. Sized(g)
  <2>1. \A a \in Room(S) : a \in Addrs /\ host[a] \in S
    BY AddrsLoaded DEF Room
  <2>2. \A v \in Int4 : Bytes[v].q \in Nat
    BY DeviceCachesAssumption DEF Weights
  <2>3. \A a \in Room(S) : g[a] \in Nat
    BY <1>5, <2>1, <2>2
  <2>4. IsFiniteSet(Room(S))
    BY <2>1, FS_Subset, DeviceCachesAssumption
  <2>5. g \in [DOMAIN g -> Nat]
    BY <1>4, <1>5, <2>3 DEF RoomBytes
  <2>. QED BY <1>5, <2>4, <2>5 DEF Sized
<1>7. Total(L, Int4Bytes(i4)) = Total(L, g)
  <2>1. ASSUME NEW a \in L
        PROVE  Int4Bytes(i4)[a] = g[a]
    <3>1. a \in AddrsOf(S) /\ a \in DOMAIN i4 /\ a \in Room(S)
      BY <1>3 DEF Unpinned
    <3>2. PICK v : v = host[a]
      OBVIOUS
    <3>3. v \in S /\ AddrOf(v) = a
      BY <3>1, <3>2, AddrsLoaded
    <3>4. Shape[i4[a].of] = Shape[v]
      BY <3>3
    <3>5. a \notin reused
      BY <3>1 DEF Reused
    <3>6. i4[a].of = v
      BY <3>1, <3>2, <3>4, <3>5, NowFields DEF Good, CopiesOwn, Own
    <3>. QED BY <1>5, <3>1, <3>2, <3>6 DEF Int4Bytes
  <2>. QED BY <2>1, TotalSame
<1>8. Total(L \cup {x}, g) = Total(L, g) + Total({x}, g)
  BY <1>2, <1>3, <1>5, <1>6, TotalAdd
<1>9. Total({x}, g) = Bytes[w].q /\ Bytes[w].q \in Nat
  BY <1>2, <1>5, <1>6, TotalOne
<1>10. /\ Total(L \cup {x}, g) <= Total(Room(S), g) /\ Total(L \cup {x}, g) \in Nat
       /\ Total(Room(S), g) \in Nat
  <2>1. L \cup {x} \subseteq Room(S) /\ Room(S) \subseteq DOMAIN g
    BY <1>2, <1>3, <1>5
  <2>. QED BY <1>6, <2>1, TotalRest
<1>. QED BY <1>4, <1>7, <1>8, <1>9, <1>10

\* An upload that evicts what the batch has taken is for a batch that does not
\* fit beside what is pinned.
LEMMA SparedOrHopeless ==
  ASSUME Plain, Good(Now), NEW S, S \subseteq Int4, \A w \in S : Loaded(w), Batched(S),
         NEW w \in S, AddrOf(w) \notin DOMAIN i4, NEW t \in batch.live, t \in Victims(Now, Bytes[w].q)
  PROVE  Hopeless(S)
<1>1. SUFFICES ASSUME ~Reused(S)
               PROVE  TooLarge(S)
  BY DEF Hopeless
<1>2. PICK g : g = Int4Bytes(i4)
  OBVIOUS
<1>3. Sized(g) /\ DOMAIN g = DOMAIN i4 /\ used \in Nat /\ Bytes[w].q \in Nat /\ budget \in Nat
  BY <1>2, SizedCaches, UsedNat, NowFields, DeviceCachesAssumption DEF Plain, Weights
<1>4. PICK U : U = Unpinned(i4)
  OBVIOUS
<1>5. PICK L : L = batch.live \cap U
  OBVIOUS
<1>6. PICK B : B = {x \in U : <<x, t>> \in before}
  OBVIOUS
<1>7. ~Fits(used + Bytes[w].q - Total(B, g))
  BY <1>2, <1>4, <1>6, NowFields DEF Victims, Oldest
<1>8. U \ L \subseteq B
  <2>1. \A y \in DOMAIN i4 \ batch.live : <<y, t>> \in before
    BY DEF Batched
  <2>. QED BY <1>4, <1>5, <1>6, <2>1 DEF Unpinned
<1>9. U \subseteq DOMAIN g /\ B \subseteq DOMAIN g /\ L \subseteq U
  BY <1>3, <1>4, <1>5, <1>6 DEF Unpinned
<1>10. Total(U \ L, g) <= Total(B, g) /\ Total(U \ L, g) \in Nat /\ Total(B, g) \in Nat
  BY <1>3, <1>8, <1>9, TotalRest
<1>11. Total(U \ L, g) = Total(U, g) - Total(L, g) /\ Total(U, g) \in Nat /\ Total(L, g) \in Nat
  BY <1>3, <1>9, TotalRest
<1>12. PICK m : m = Total(Room(S), RoomBytes(S))
  OBVIOUS
<1>13. Total(L, g) + Bytes[w].q <= m /\ m \in Nat
  <2>1. L \subseteq AddrsOf(S) \cap Unpinned(i4)
    BY <1>4, <1>5 DEF Batched
  <2>2. \A v \in S : AddrOf(v) \in L => Shape[i4[AddrOf(v)].of] = Shape[v]
    BY <1>5 DEF Batched
  <2>. QED BY <1>1, <1>2, <1>12, <2>1, <2>2, RoomFor
<1>14. Fixed(Now) = used - Total(U, g)
  BY <1>2, <1>4, NowFields DEF Fixed
<1>15. ~Fits(Fixed(Now) + m)
  BY <1>3, <1>7, <1>10, <1>11, <1>13, <1>14 DEF Fits
<1>. QED BY <1>12, <1>15, TooLargeIs


\* One weight of a batch.
LEMMA EnsureNextFrame ==
  ASSUME IInv, NEW c \in Callers, EnsureNext(c)
  PROVE  /\ batch.by = c /\ batch.todo # <<>> /\ Batched(job[c].ws) /\ job[c].pc = "ensure"
         /\ job[c].ws \subseteq Int4 /\ (\A v \in job[c].ws : Loaded(v))
         /\ Head(batch.todo) \in job[c].ws /\ batch.todo \in Seq(Int4)
         /\ UNCHANGED <<HostSide, buf, wrong>>
<1>1. batch.by = c /\ batch.todo # <<>> /\ UNCHANGED <<HostSide, buf, wrong>>
  BY DEF EnsureNext
<1>2. NoCaller \notin Callers
  BY DeviceCachesAssumption
<1>3. Batched(job[c].ws) /\ job[c].pc = "ensure" /\ batch.todo \in Seq(Int4)
  BY <1>1, <1>2, BatchParts DEF IInv, BatchType
<1>4. JobOK(c, job[c])
  BY DEF IInv, JobsOK
<1>5. Head(batch.todo) \in Range(batch.todo)
  BY <1>1, <1>3 DEF Range
<1>. QED BY <1>1, <1>3, <1>4, <1>5 DEF JobOK, Batched

\* The outcome of one weight, and what the batch becomes.
Took(o, w) ==
  /\ batch'.by = batch.by /\ batch'.kind = batch.kind
  /\ batch'.todo = Tail(batch.todo) /\ batch'.ok = (batch.ok /\ o.ok)
  /\ batch'.live = (batch.live \ o.gone) \cup (IF o.ok THEN {AddrOf(w)} ELSE {})
  /\ Put(o.D) /\ host' = host /\ reused' = reused /\ budget' = budget

LEMMA TookLoaded ==
  ASSUME Good(Now), NEW S, S \subseteq Int4, \A v \in S : Loaded(v), Batched(S),
         NEW w \in S, NEW o \in EnsureInt4(Now, w), Sound(Now, o), Ordered(Now, o, w),
         o.ok => Found(o.D, w), Took(o, w)
  PROVE  /\ batch'.live \subseteq AddrsOf(S) \cap DOMAIN i4'
         /\ \A v \in S : AddrOf(v) \in batch'.live => Shape[i4'[AddrOf(v)].of] = Shape[v]
<1>1. i4' = o.D.i4
  BY DEF Took, Put
<1>2. PICK x : x = AddrOf(w)
  OBVIOUS
<1>3. x \in AddrsOf(S)
  BY <1>2 DEF AddrsOf
<1>4. batch.live \subseteq AddrsOf(S) \cap DOMAIN i4
  BY DEF Batched
<1>5. /\ DOMAIN i4 \ o.gone \subseteq DOMAIN i4'
      /\ \A a \in DOMAIN i4 \ o.gone : i4'[a] = i4[a]
  BY <1>1, NowFields DEF Ordered
<1>6. o.ok => x \in DOMAIN i4' /\ Shape[i4'[x].of] = Shape[w]
  BY <1>1, <1>2 DEF Found
<1>7. batch'.live = (batch.live \ o.gone) \cup (IF o.ok THEN {x} ELSE {})
  BY <1>2 DEF Took
<1>8. ASSUME NEW v \in S, AddrOf(v) \in batch'.live
      PROVE  Shape[i4'[AddrOf(v)].of] = Shape[v]
  <2>1. CASE o.ok /\ AddrOf(v) = x
    <3>1. v = w
      BY <1>2, <2>1, AddrFacts
    <3>. QED BY <1>6, <2>1, <3>1
  <2>2. CASE AddrOf(v) \in batch.live \ o.gone
    <3>1. Shape[i4[AddrOf(v)].of] = Shape[v]
      BY <2>2 DEF Batched
    <3>. QED BY <1>4, <1>5, <2>2, <3>1
  <2>. QED BY <1>7, <1>8, <2>1, <2>2
<1>. QED BY <1>3, <1>4, <1>5, <1>6, <1>7, <1>8

LEMMA TookOrdered ==
  ASSUME Good(Now), NEW S, S \subseteq Int4, \A v \in S : Loaded(v), Batched(S),
         NEW w \in S, NEW o \in EnsureInt4(Now, w), Ordered(Now, o, w), Took(o, w)
  PROVE  \A l \in batch'.live, y \in DOMAIN i4' \ batch'.live : <<y, l>> \in before'
<1>1. i4' = o.D.i4 /\ before' = o.D.before
  BY DEF Took, Put
<1>2. PICK x : x = AddrOf(w)
  OBVIOUS
<1>3. batch'.live = (batch.live \ o.gone) \cup (IF o.ok THEN {x} ELSE {})
  BY <1>2 DEF Took
<1>4. /\ DOMAIN i4' \subseteq (DOMAIN i4 \ o.gone) \cup {x}
      /\ \A y, l \in DOMAIN i4 \ (o.gone \cup {x}) : <<y, l>> \in before => <<y, l>> \in before'
      /\ o.ok => \A y \in DOMAIN i4' \ {x} : <<y, x>> \in before'
  BY <1>1, <1>2, NowFields DEF Ordered
<1>5. batch.live \subseteq DOMAIN i4 /\ \A l \in batch.live, y \in DOMAIN i4 \ batch.live : <<y, l>> \in before
  BY DEF Batched
<1>6. CASE o.ok
  BY <1>3, <1>4, <1>5, <1>6
<1>7. CASE ~o.ok
  <2>1. DOMAIN i4' \subseteq DOMAIN i4 /\ (x \in DOMAIN i4 => i4' = i4 /\ before' = before /\ o.gone = {})
    BY <1>1, <1>2, <1>7, DeclinesInt4, NowFields DEF Declines
  <2>2. CASE x \in DOMAIN i4
    BY <1>3, <1>5, <1>7, <2>1, <2>2
  <2>3. CASE x \notin DOMAIN i4
    BY <1>3, <1>4, <1>5, <1>7, <2>1, <2>3
  <2>. QED BY <2>2, <2>3
<1>. QED BY <1>6, <1>7

LEMMA TookTooLarge ==
  ASSUME Good(Now), NEW S, NEW w \in Int4, NEW o \in EnsureInt4(Now, w), Sound(Now, o), Took(o, w)
  PROVE  Hopeless(S)' <=> Hopeless(S)
<1>1. i4' = o.D.i4 /\ Now' = o.D
  BY DEF Took, Put, Now, Caches, Sound, Good
<1>2. AddrsOf(S)' = AddrsOf(S) /\ Reused(S)' = Reused(S)
  BY DEF Took, AddrsOf, AddrOf, Reused
<1>3. Room(S)' = Room(S)
  <2>1. \A a \in DOMAIN i4' : i4'[a].pin => a \in DOMAIN i4 /\ i4[a].pin
    BY <1>1, NoNewPins, NowFields
  <2>2. \A a \in DOMAIN i4 : i4[a].pin => a \in DOMAIN i4' /\ i4'[a] = i4[a]
    BY <1>1, NowFields DEF Sound, Kept
  <2>. QED BY <1>2, <2>1, <2>2 DEF Room
<1>4. RoomBytes(S)' = RoomBytes(S)
  BY <1>3 DEF RoomBytes, Took
<1>5. Fixed(Now)' = Fixed(Now)
  BY <1>1 DEF Sound, Fixed
<1>6. \A n : Fits(n)' = Fits(n)
  BY DEF Fits, Took
<1>7. PICK n : n = Fixed(Now) + Total(Room(S), RoomBytes(S))
  OBVIOUS
<1>8. TooLarge(S) <=> ~Fits(n)
  BY <1>7, TooLargeIs
<1>9. TooLarge(S)' <=> ~Fits(n)'
  <2>1. TooLarge(S)' <=> ~(Fits(Fixed(Now) + Total(Room(S), RoomBytes(S))))'
    <3>1. Now'.i4 = i4' /\ Now'.used = used'
      BY DEF Now, Caches
    <3>. QED BY <3>1, Zenon DEF TooLarge, Fixed, Room, RoomBytes
  <2>. QED BY <1>3, <1>4, <1>5, <1>7, <2>1
<1>. QED BY <1>2, <1>6, <1>8, <1>9 DEF Hopeless

LEMMA TookAll ==
  ASSUME Plain, Good(Now), NEW S, S \subseteq Int4, \A v \in S : Loaded(v), Batched(S),
         NEW w \in S, w = Head(batch.todo), batch.todo \in Seq(Int4), batch.todo # <<>>,
         NEW o \in EnsureInt4(Now, w), Ordered(Now, o, w), Took(o, w),
         ~Hopeless(S), batch'.ok, NEW v \in S
  PROVE  v \in Range(batch'.todo) \/ AddrOf(v) \in batch'.live
<1>1. /\ batch.ok /\ o.ok /\ batch'.todo = Tail(batch.todo)
      /\ batch'.live = (batch.live \ o.gone) \cup {AddrOf(w)}
  BY DEF Took
<1>2. v \in Range(batch.todo) \/ AddrOf(v) \in batch.live
  BY <1>1 DEF Batched
<1>3. CASE v \in Range(batch.todo)
  <2>1. PICK i \in 1 .. Len(batch.todo) : v = batch.todo[i]
    BY <1>3 DEF Range
  <2>2. CASE i = 1
    BY <1>1, <2>1, <2>2
  <2>3. CASE i > 1
    <3>1. i - 1 \in 1 .. Len(Tail(batch.todo)) /\ Tail(batch.todo)[i - 1] = v
      BY <2>1, <2>3
    <3>2. i - 1 \in DOMAIN Tail(batch.todo)
      BY <3>1
    <3>. QED BY <1>1, <3>1, <3>2 DEF Range
  <2>. QED BY <2>2, <2>3
<1>4. CASE AddrOf(v) \in batch.live
  <2>1. CASE AddrOf(v) \notin o.gone
    BY <1>1, <1>4, <2>1
  <2>2. CASE AddrOf(v) \in o.gone
    <3>1. AddrOf(w) \notin DOMAIN i4 /\ AddrOf(v) \in Victims(Now, Bytes[w].q)
      BY <2>2, NowFields DEF Ordered
    <3>. QED BY <1>4, <3>1, SparedOrHopeless
  <2>. QED BY <2>1, <2>2
<1>. QED BY <1>2, <1>3, <1>4

LEMMA EnsureNextStep ==
  ASSUME IInv, NEW c \in Callers, EnsureNext(c)
  PROVE  IInv'
<1>1. PICK S : S = job[c].ws
  OBVIOUS
<1>2. PICK w : w = Head(batch.todo)
  OBVIOUS
<1>3. /\ batch.by = c /\ batch.todo # <<>> /\ Batched(S) /\ job[c].pc = "ensure"
      /\ S \subseteq Int4 /\ (\A v \in S : Loaded(v)) /\ w \in S /\ w \in Int4 /\ Loaded(w)
      /\ batch.todo \in Seq(Int4) /\ UNCHANGED <<HostSide, buf, wrong>>
  BY <1>1, <1>2, EnsureNextFrame
<1>4. PICK o \in EnsureInt4(Now, w) :
        /\ Fail(o.f) /\ Put(o.D)
        /\ job' = [Others(c, "none", o.gone) EXCEPT ![c] = job[c]]
        /\ batch' = [batch EXCEPT
             !.todo = Tail(@), !.ok = @ /\ o.ok,
             !.live = (@ \ o.gone) \cup (IF o.ok THEN {AddrOf(w)} ELSE {})]
  BY <1>2 DEF EnsureNext
<1>5. Plain /\ Good(Now) /\ JobsOK /\ BatchOK
  BY DEF IInv
<1>6. Sound(Now, o) /\ Ordered(Now, o, w) /\ (o.ok => Found(o.D, w))
  BY <1>3, <1>5, Int4Outcome
<1>7. Good(o.D) /\ o.f \in Nat
  BY <1>6 DEF Sound
<1>8. Plain' /\ Good(Now)'
  BY <1>3, <1>4, <1>5, <1>7, DeviceStep
<1>9. UNCHANGED <<host, reused, budget>>
  BY <1>3 DEF HostSide, Books
<1>10. JobsOK' /\ job'[c] = job[c] /\ OthersSame(c)
  <2>1. PICK r : r = job[c]
    OBVIOUS
  <2>2. PICK gone : gone = o.gone
    OBVIOUS
  <2>3. Moved(c, "none", gone, r)
    BY <1>4, <2>1, <2>2 DEF Moved
  <2>4. JobOK(c, r)
    BY <1>5, <2>1 DEF JobsOK
  <2>5. JobOK(c, r)'
    BY <1>3, <1>9, <2>4 DEF JobOK, Loaded, Excused, Reused, AddrsOf, AddrOf, Holds
  <2>6. Beside("none") /\ BufferOK' /\ ~wrong'
    BY <1>3, <1>5, <1>9 DEF Beside, BufferOK, JobsOK
  <2>. QED BY <1>5, <2>1, <2>3, <2>5, <2>6, MovedOK
<1>11. Took(o, w) /\ BatchType'
  <2>1. BatchType
    BY <1>5, BatchParts
  <2>2. PICK live : live = (batch.live \ o.gone) \cup (IF o.ok THEN {AddrOf(w)} ELSE {})
    OBVIOUS
  <2>3. PICK ok \in BOOLEAN : ok = (batch.ok /\ o.ok)
    OBVIOUS
  <2>4. PICK todo : todo = Tail(batch.todo)
    OBVIOUS
  <2>5. batch' = [batch EXCEPT !.todo = todo, !.ok = ok, !.live = live]
    BY <1>4, <2>2, <2>3, <2>4
  <2>6. todo \in Seq(Int4)
    BY <1>3, <2>4
  <2>7. live \in SUBSET Addrs
    BY <1>3, <2>1, <2>2, AddrFacts DEF BatchType
  <2>8. /\ batch'.by = batch.by /\ batch'.kind = batch.kind /\ batch'.todo = todo
        /\ batch'.ok = ok /\ batch'.live = live /\ BatchType'
    BY <2>1, <2>5, <2>6, <2>7, Zenon DEF BatchType
  <2>. QED BY <1>4, <1>9, <2>2, <2>3, <2>4, <2>8 DEF Took
<1>12. BatchOK'
  <2>1. batch'.by = c /\ batch'.kind = batch.kind /\ batch'.todo = Tail(batch.todo)
    BY <1>3, <1>11 DEF Took
  <2>2. \A d \in Callers : job'[d].pc = "ensure" <=> batch'.by = d
    BY <1>3, <1>5, <1>10, <2>1, BatchParts DEF OthersSame
  <2>3. Batched(S)'
    <3>1. batch'.kind \in Kinds \ {"vocab", "tc", "scratch"}
      BY <1>3, <2>1 DEF Batched
    <3>2. Range(batch'.todo) \subseteq S
      <4>1. \A i \in 1 .. Len(Tail(batch.todo)) :
              i + 1 \in 1 .. Len(batch.todo) /\ Tail(batch.todo)[i] = batch.todo[i + 1]
        BY <1>3
      <4>2. \A i \in DOMAIN batch.todo : batch.todo[i] \in S
        BY <1>3 DEF Batched, Range
      <4>. QED BY <1>3, <2>1, <4>1, <4>2 DEF Range
    <3>3. /\ batch'.live \subseteq AddrsOf(S) \cap DOMAIN i4'
          /\ \A v \in S : AddrOf(v) \in batch'.live => Shape[i4'[AddrOf(v)].of] = Shape[v]
      BY <1>3, <1>5, <1>6, <1>11, TookLoaded
    <3>4. \A l \in batch'.live, y \in DOMAIN i4' \ batch'.live : <<y, l>> \in before'
      BY <1>3, <1>5, <1>6, <1>11, TookOrdered
    <3>5. Hopeless(S)' \/ (batch'.ok => \A v \in S : v \in Range(batch'.todo) \/ AddrOf(v) \in batch'.live)
      <4>1. Hopeless(S)' <=> Hopeless(S)
        BY <1>3, <1>5, <1>6, <1>11, TookTooLarge
      <4>2. ASSUME ~Hopeless(S), batch'.ok, NEW v \in S
            PROVE  v \in Range(batch'.todo) \/ AddrOf(v) \in batch'.live
        BY <1>2, <1>3, <1>5, <1>6, <1>11, <4>2, TookAll
      <4>. QED BY <4>1, <4>2
    <3>6. AddrsOf(S)' = AddrsOf(S) /\ \A v : AddrOf(v)' = AddrOf(v)
      BY <1>9 DEF AddrsOf, AddrOf
    <3>. QED BY <3>1, <3>2, <3>3, <3>4, <3>5, <3>6, Zenon DEF Batched
  <2>4. (batch.by # NoCaller => Batched(job[batch.by].ws))'
    BY <1>1, <1>10, <2>1, <2>3, Zenon DEF Batched
  <2>. QED BY <1>11, <2>2, <2>4, BatchWhole
<1>. QED BY <1>8, <1>10, <1>12 DEF IInv


LEMMA BatchEnds ==
  ASSUME BatchOK, NEW c \in Callers, batch.by = c, OthersSame(c), job'[c].pc # "ensure", batch' = NoBatch
  PROVE  BatchOK'
<1>1. batch'.by = NoCaller /\ NoCaller \notin Callers
  BY DeviceCachesAssumption DEF NoBatch
<1>2. BatchType'
  BY DEF BatchType, NoBatch
<1>3. \A d \in Callers : job'[d].pc = "ensure" <=> batch'.by = d
  BY <1>1, BatchParts DEF OthersSame
<1>. QED BY <1>1, <1>2, <1>3, BatchWhole

\* A batch that took all its weights has rightful pointers.
LEMMA BatchRightful ==
  ASSUME Good(Now), NEW S, S \subseteq Int4, \A v \in S : Loaded(v), Batched(S),
         batch.todo = <<>>, batch.ok,
         NEW live \in BOOLEAN, live = (batch.live = AddrsOf(S)),
         NEW own \in BOOLEAN, own = (\A w \in S : AddrOf(w) \in DOMAIN i4 => i4[AddrOf(w)].of = w)
  PROVE  Rightful(S, live, own)
<1>1. SUFFICES ASSUME ~Hopeless(S)
               PROVE  own /\ live
  BY DEF Rightful, Hopeless
<1>2. \A w \in S : AddrOf(w) \in batch.live
  BY <1>1 DEF Batched, Range
<1>3. live
  <2>1. \A a \in AddrsOf(S) : a \in batch.live
    BY <1>2 DEF AddrsOf
  <2>2. \A a \in batch.live : a \in AddrsOf(S)
    BY DEF Batched
  <2>3. batch.live = AddrsOf(S)
    BY <2>1, <2>2
  <2>. QED BY <2>3
<1>4. ASSUME NEW w \in S
      PROVE  i4[AddrOf(w)].of = w
  <2>1. PICK a : a = AddrOf(w)
    OBVIOUS
  <2>2. a \in DOMAIN i4 /\ Shape[i4[a].of] = Shape[w] /\ host[a] = w
    BY <1>2, <2>1, AddrFacts DEF Batched
  <2>3. a \notin reused
    BY <1>1, <2>1 DEF Hopeless, Reused, AddrsOf
  <2>. QED BY <2>1, <2>2, <2>3, NowFields DEF Good, CopiesOwn, Own
<1>. QED BY <1>3, <1>4

LEMMA BatchTakenStep ==
  ASSUME IInv, NEW c \in Callers, BatchTaken(c)
  PROVE  IInv'
<1>1. PICK S : S = job[c].ws
  OBVIOUS
<1>2. PICK k : k = batch.kind
  OBVIOUS
<1>3. PICK live \in BOOLEAN : live = (batch.live = AddrsOf(S))
  OBVIOUS
<1>4. PICK own \in BOOLEAN : own = (\A w \in S : AddrOf(w) \in DOMAIN i4 => i4[AddrOf(w)].of = w)
  OBVIOUS
<1>5. Plain /\ Good(Now) /\ JobsOK /\ BatchOK
  BY DEF IInv
<1>6. /\ batch.by = c /\ batch.todo = <<>> /\ batch.ok /\ batch' = NoBatch /\ UNCHANGED HostSide
      /\ IF k = "jit" THEN Hold(c, Product(k, S, <<>>, live, own), Now, 0, {})
                      ELSE Take(c, Product(k, S, <<>>, live, own), Now, 0, {})
  BY <1>1, <1>2, <1>3, <1>4 DEF BatchTaken, BatchOf
<1>7. Batched(S) /\ job[c].pc = "ensure"
  BY <1>1, <1>5, <1>6, BatchParts, DeviceCachesAssumption
<1>8. S \subseteq Int4 /\ S \subseteq Weights /\ (\A v \in S : Loaded(v)) /\ k \in Kinds
  BY <1>1, <1>2, <1>5, <1>7 DEF JobsOK, JobOK, Weights, Batched
<1>9. Rightful(S, live, own)
  BY <1>3, <1>4, <1>5, <1>6, <1>7, <1>8, BatchRightful
<1>10. UNCHANGED <<host, reused>> /\ <<>> \in Seq(PathNames)
  BY <1>6 DEF HostSide
<1>11. /\ JobsOK' /\ job'[c].pc # "ensure" /\ OthersSame(c) /\ Put(Now) /\ Fail(0)
  <2>1. CASE k = "jit"
    <3>1. Hold(c, Product(k, S, <<>>, live, own), Now, 0, {}) /\ k \in {"jit", "tc"}
      BY <1>6, <2>1
    <3>2. JobsOK' /\ job'[c].pc = "stage" /\ OthersSame(c)
      BY <1>5, <1>8, <1>9, <1>10, <3>1, HoldOK
    <3>. QED BY <3>1, <3>2 DEF Hold
  <2>2. CASE k # "jit"
    <3>1. Take(c, Product(k, S, <<>>, live, own), Now, 0, {})
      BY <1>6, <2>2
    <3>2. JobsOK' /\ job'[c].pc = "launch" /\ OthersSame(c)
      BY <1>5, <1>8, <1>9, <1>10, <3>1, TakeOK
    <3>. QED BY <3>1, <3>2 DEF Take
  <2>. QED BY <2>1, <2>2
<1>12. Plain' /\ Good(Now)'
  <2>1. PICK D : D = Now
    OBVIOUS
  <2>2. Good(D) /\ Put(D) /\ 0 \in Nat
    BY <1>5, <1>11, <2>1
  <2>. QED BY <1>5, <1>6, <1>11, <2>2, DeviceStep
<1>. QED BY <1>5, <1>6, <1>11, <1>12, BatchEnds DEF IInv

LEMMA BatchFailedStep ==
  ASSUME IInv, NEW c \in Callers, BatchFailed(c)
  PROVE  IInv'
<1>1. PICK S : S = job[c].ws
  OBVIOUS
<1>2. PICK k : k = IF batch.kind \in {"gemv", "jit"} THEN "none" ELSE batch.kind
  OBVIOUS
<1>3. Plain /\ Good(Now) /\ JobsOK /\ BatchOK
  BY DEF IInv
<1>4. batch.by = c /\ batch' = NoBatch /\ UNCHANGED HostSide /\ Declined(c, k, S, <<>>, Now, 0, {})
  BY <1>1, <1>2 DEF BatchFailed
<1>5. job[c].pc = "ensure"
  BY <1>3, <1>4, BatchParts
<1>6. S \subseteq Weights /\ (\A v \in S : Loaded(v)) /\ <<>> \in Seq(PathNames)
  BY <1>1, <1>3, <1>5 DEF JobsOK, JobOK, Weights
<1>7. JobsOK' /\ job'[c].pc \in {"idle", "try"} /\ OthersSame(c)
  <2>1. UNCHANGED <<host, reused>>
    BY <1>4 DEF HostSide
  <2>. QED BY <1>3, <1>4, <1>6, <2>1, DeclinedOK
<1>8. Plain' /\ Good(Now)'
  <2>1. PICK D : D = Now
    OBVIOUS
  <2>2. Good(D) /\ Put(D) /\ Fail(0) /\ 0 \in Nat
    BY <1>3, <1>4, <2>1 DEF Declined
  <2>. QED BY <1>3, <1>4, <2>2, DeviceStep
<1>. QED BY <1>3, <1>4, <1>7, <1>8, BatchEnds DEF IInv

(***************************************************************************)
(* Steps that are not a product's.                                         *)
(***************************************************************************)

\* Nobody's product moves.
LEMMA NobodyMoved ==
  ASSUME JobsOK, BatchOK, NoCaller \notin Callers, NEW gone, UNCHANGED <<host, reused, buf, wrong, batch>>, Free,
         job' = Others(NoCaller, "none", gone) \/ job' = job
  PROVE  JobsOK' /\ BatchOK'
<1>1. batch.by = NoCaller /\ batch'.by = NoCaller
  BY DEF Free
<1>2. Beside("none")
  BY DEF Beside
<1>3. ASSUME NEW d \in Callers
      PROVE  JobOK(d, job[d])' /\ job'[d].pc = job[d].pc
  <2>1. JobOK(d, job[d])
    BY DEF JobsOK
  <2>2. CASE job' = Others(NoCaller, "none", gone)
    <3>1. job'[d] = Others(NoCaller, "none", gone)[d]
      BY <2>2
    <3>. QED BY <1>2, <2>1, <3>1, OthersOK
  <2>3. CASE job' = job
    BY <2>1, <2>3 DEF JobOK, Loaded, Excused, Reused, AddrsOf, AddrOf, Holds
  <2>. QED BY <2>2, <2>3
<1>4. \E J : job' \in [Callers -> J]
  <2>1. CASE job' = job
    BY <2>1 DEF JobsOK
  <2>2. CASE job' = Others(NoCaller, "none", gone)
    <3>1. PICK h : h = [d \in Callers |-> job'[d]]
      OBVIOUS
    <3>2. h = job'
      BY <2>2, <3>1, Zenon DEF Others
    <3>3. h \in [Callers -> {h[d] : d \in Callers}]
      BY <3>1
    <3>. QED BY <3>2, <3>3
  <2>. QED BY <2>1, <2>2
<1>5. BufferOK' /\ ~wrong'
  BY DEF JobsOK, BufferOK
<1>6. JobsOK'
  BY <1>3, <1>4, <1>5 DEF JobsOK
<1>7. BatchOK'
  <2>1. \A d \in Callers : job'[d].pc = "ensure" <=> batch'.by = d
    BY <1>1, <1>3, BatchParts
  <2>2. BatchType'
    BY BatchParts DEF BatchType
  <2>. QED BY <1>1, <2>1, <2>2, BatchWhole
<1>. QED BY <1>6, <1>7

LEMMA PrefetchStep ==
  ASSUME IInv, NEW w \in Weights, Prefetch(w)
  PROVE  IInv'
<1>1. /\ Free /\ Loaded(w) /\ UNCHANGED <<HostSide, buf, wrong, batch>>
      /\ Plain /\ Good(Now) /\ JobsOK /\ BatchOK /\ NoCaller \notin Callers
  BY DeviceCachesAssumption DEF Prefetch, IInv
<1>2. UNCHANGED <<host, reused>>
  BY <1>1 DEF HostSide
<1>3. SUFFICES ASSUME NEW D, Good(D), Put(D), NEW n \in Nat, Fail(n), NEW gone,
                      job' = Others(NoCaller, "none", gone) \/ job' = job
               PROVE  IInv'
  <2>1. CASE w \in Int4 /\ \E o \in EnsureInt4(Now, w) :
               \/ o.ok /\ Fail(o.f) /\ Put(o.D) /\ job' = Others(NoCaller, "none", o.gone)
               \/ /\ ~o.ok
                  /\ \E p \in EnsureFp32(o.D, w) : Fail(o.f + p.f) /\ Put(p.D)
                  /\ job' = Others(NoCaller, "none", o.gone)
    <3>1. PICK o \in EnsureInt4(Now, w) :
               \/ o.ok /\ Fail(o.f) /\ Put(o.D) /\ job' = Others(NoCaller, "none", o.gone)
               \/ /\ ~o.ok
                  /\ \E p \in EnsureFp32(o.D, w) : Fail(o.f + p.f) /\ Put(p.D)
                  /\ job' = Others(NoCaller, "none", o.gone)
      BY <2>1
    <3>2. Good(o.D) /\ o.f \in Nat
      BY <1>1, <2>1, Int4Outcome DEF Sound
    <3>3. CASE o.ok /\ Fail(o.f) /\ Put(o.D) /\ job' = Others(NoCaller, "none", o.gone)
      BY <1>3, <3>2, <3>3
    <3>4. CASE /\ \E p \in EnsureFp32(o.D, w) : Fail(o.f + p.f) /\ Put(p.D)
               /\ job' = Others(NoCaller, "none", o.gone)
      <4>1. PICK p \in EnsureFp32(o.D, w) : Fail(o.f + p.f) /\ Put(p.D)
        BY <3>4
      <4>2. p \in EnsureCopy(o.D, w, o.D.fp, CopyFp32(o.D, AddrOf(w), w), 0) /\ 0 \in Nat
        BY <4>1 DEF EnsureFp32
      <4>3. Added(o.D, p)
        BY <1>1, <3>2, <4>2, Fp32Outcome
      <4>4. Good(p.D) /\ o.f + p.f \in Nat
        BY <3>2, <4>3 DEF Added
      <4>. QED BY <1>3, <3>4, <4>1, <4>4
    <3>. QED BY <3>1, <3>3, <3>4
  <2>2. CASE /\ w \notin Int4 /\ job' = job
             /\ \E o \in IF w \in Wide THEN EnsureWide(Now, w) ELSE EnsureMid(Now, w) : Fail(o.f) /\ Put(o.D)
    <3>1. PICK o \in IF w \in Wide THEN EnsureWide(Now, w) ELSE EnsureMid(Now, w) : Fail(o.f) /\ Put(o.D)
      BY <2>2
    <3>2. Added(Now, o)
      <4>1. CASE w \in Wide
        <5>1. o \in EnsureCopy(Now, w, Now.pk, CopyPack(Now, AddrOf(w), w), WidePad) /\ WidePad \in Nat
          BY <3>1, <4>1, DeviceCachesAssumption DEF EnsureWide
        <5>. QED BY <1>1, <5>1, PackOutcome
      <4>2. CASE w \notin Wide
        <5>1. o \in EnsureCopy(Now, w, Now.fp, CopyFp32(Now, AddrOf(w), w), MidPad) /\ MidPad \in Nat
          BY <3>1, <4>2, DeviceCachesAssumption DEF EnsureMid
        <5>. QED BY <1>1, <5>1, Fp32Outcome
      <4>. QED BY <4>1, <4>2
    <3>3. Good(o.D) /\ o.f \in Nat
      BY <3>2 DEF Added
    <3>. QED BY <1>3, <2>2, <3>1, <3>3
  <2>. QED BY <2>1, <2>2 DEF Prefetch
<1>4. Plain' /\ Good(Now)'
  BY <1>1, <1>3, DeviceStep
<1>5. JobsOK' /\ BatchOK'
  BY <1>1, <1>2, <1>3, NobodyMoved
<1>. QED BY <1>4, <1>5 DEF IInv


\* A copy that is pinned.
LEMMA PinnedGood ==
  ASSUME Good(Now), NEW D, Good(D), NEW x \in DOMAIN D.i4,
         NEW E, E = [D EXCEPT !.i4[x].pin = TRUE]
  PROVE  Good(E) /\ Kept(D.i4, E.i4)
<1>1. PICK e : e = [D.i4[x] EXCEPT !.pin = TRUE]
  OBVIOUS
<1>2. D = [i4 |-> D.i4, before |-> D.before, fp |-> D.fp, pk |-> D.pk, used |-> D.used]
  BY DEF Good, Caches
<1>3. PICK i : i = [D.i4 EXCEPT ![x] = e]
  OBVIOUS
<1>4. E = Caches(i, D.before, D.fp, D.pk, D.used)
  <2>1. E = [D EXCEPT !.i4 = i]
    BY <1>1, <1>3
  <2>. QED BY <1>2, <2>1, Zenon DEF Caches
<1>5. E.i4 = i /\ E.before = D.before /\ E.fp = D.fp /\ E.pk = D.pk /\ E.used = D.used
  BY <1>4 DEF Caches
<1>6. D.i4 \in [DOMAIN D.i4 -> [of : Int4, pin : BOOLEAN]] /\ DOMAIN D.i4 \subseteq Addrs
  BY DEF Good, Entries
<1>7. e \in [of : Int4, pin : BOOLEAN] /\ e.of = D.i4[x].of /\ e.pin = TRUE
  BY <1>1, <1>6
<1>8. /\ i \in [DOMAIN D.i4 -> [of : Int4, pin : BOOLEAN]] /\ DOMAIN i = DOMAIN D.i4
      /\ \A a \in DOMAIN D.i4 : i[a].of = D.i4[a].of /\ (a # x => i[a] = D.i4[a])
      /\ i[x] = e
  BY <1>3, <1>6, <1>7
<1>9. Total(DOMAIN i, Int4Bytes(i)) = Total(DOMAIN D.i4, Int4Bytes(D.i4))
  BY <1>8, TotalSame DEF Int4Bytes
<1>10. Held(E) = Held(D)
  BY <1>5, <1>8, <1>9 DEF Held
<1>11. CopiesOwn(E)
  BY <1>5, <1>8 DEF Good, CopiesOwn
<1>12. Entries(E.i4)
  BY <1>5, <1>6, <1>8 DEF Entries
<1>13. Good(E)
  BY <1>4, <1>5, <1>8, <1>10, <1>11, <1>12 DEF Good
<1>14. Kept(D.i4, E.i4)
  <2>1. ASSUME NEW a \in DOMAIN D.i4, D.i4[a].pin
        PROVE  i[a] = D.i4[a]
    <3>1. CASE a = x
      <4>1. D.i4[x] = [of |-> D.i4[x].of, pin |-> TRUE]
        BY <1>6, <2>1, <3>1
      <4>2. e = [of |-> D.i4[x].of, pin |-> TRUE]
        BY <1>1, <4>1
      <4>. QED BY <1>8, <3>1, <4>1, <4>2
    <3>2. CASE a # x
      BY <1>8, <3>2
    <3>. QED BY <3>1, <3>2
  <2>. QED BY <1>5, <1>8, <2>1 DEF Kept
<1>. QED BY <1>13, <1>14

LEMMA PinStep ==
  ASSUME IInv, NEW w \in Pins, Pin(w)
  PROVE  IInv'
<1>1. /\ Free /\ Loaded(w) /\ UNCHANGED <<HostSide, buf, wrong, batch>> /\ w \in Int4
      /\ Plain /\ Good(Now) /\ JobsOK /\ BatchOK /\ NoCaller \notin Callers
  BY DeviceCachesAssumption DEF Pin, IInv
<1>2. PICK o \in EnsureInt4(Now, w) :
       /\ Fail(o.f)
       /\ Put(IF o.ok THEN [o.D EXCEPT !.i4[AddrOf(w)].pin = TRUE] ELSE o.D)
       /\ job' = Others(NoCaller, "none", o.gone)
  BY DEF Pin
<1>3. Sound(Now, o) /\ (o.ok => Found(o.D, w))
  BY <1>1, <1>2, Int4Outcome
<1>4. PICK D : D = IF o.ok THEN [o.D EXCEPT !.i4[AddrOf(w)].pin = TRUE] ELSE o.D
  OBVIOUS
<1>5. Good(D)
  <2>1. CASE o.ok
    <3>1. PICK B : B = o.D
      OBVIOUS
    <3>2. PICK x : x = AddrOf(w)
      OBVIOUS
    <3>3. D = [B EXCEPT !.i4[x].pin = TRUE]
      BY <1>4, <2>1, <3>1, <3>2
    <3>4. Good(B) /\ x \in DOMAIN B.i4
      BY <1>3, <2>1, <3>1, <3>2 DEF Sound, Found
    <3>. QED BY <1>1, <3>3, <3>4, PinnedGood
  <2>2. CASE ~o.ok
    BY <1>3, <1>4, <2>2 DEF Sound
  <2>. QED BY <2>1, <2>2
<1>6. Plain' /\ Good(Now)'
  BY <1>1, <1>2, <1>3, <1>4, <1>5, DeviceStep DEF Sound
<1>7. UNCHANGED <<host, reused>>
  BY <1>1 DEF HostSide
<1>8. PICK gone : gone = o.gone
  OBVIOUS
<1>9. job' = Others(NoCaller, "none", gone)
  BY <1>2, <1>8
<1>10. JobsOK' /\ BatchOK'
  BY <1>1, <1>7, <1>9, NobodyMoved
<1>. QED BY <1>6, <1>10 DEF IInv

\* A step of the books, when no product moves.
LEMMA BooksStep ==
  ASSUME IInv, Free, UNCHANGED <<host, i4, before, fp, pk, buf, job, wrong, batch, reused, faults, loads>>,
         budget' \in Nat, reserve' \in Nat, allocs' \in Nat, enabled' \in BOOLEAN, over' \in BOOLEAN,
         used' = Held(Now) + reserve' + allocs' * AllocBytes,
         (budget' > 0 /\ ~over') => used' <= budget'
  PROVE  IInv'
<1>1. Plain /\ Good(Now) /\ JobsOK /\ BatchOK /\ NoCaller \notin Callers
  BY DeviceCachesAssumption DEF IInv
<1>2. JobsOK' /\ BatchOK'
  BY <1>1, NobodyMoved
<1>3. Plain'
  BY <1>1 DEF Plain
<1>4. Good(Now)'
  <2>1. PICK D : D = Caches(i4, before, fp, pk, used')
    OBVIOUS
  <2>2. Now' = D
    BY <2>1 DEF Now
  <2>3. D.i4 = i4 /\ D.before = before /\ D.fp = fp /\ D.pk = pk /\ D.used = used'
    BY <2>1 DEF Caches
  <2>4. Held(D) = Held(Now)
    BY <2>3, NowFields DEF Held
  <2>5. CopiesOwn(D)'
    BY <1>1, <2>3, NowFields DEF Good, CopiesOwn, Own
  <2>6. Good(D)'
    BY <1>1, <2>1, <2>3, <2>4, <2>5, NowFields DEF Good
  <2>. QED BY <2>2, <2>6
<1>. QED BY <1>2, <1>3, <1>4 DEF IInv

LEMMA SetBudgetStep ==
  ASSUME IInv, NEW b \in Budgets, SetBudget(b)
  PROVE  IInv'
<1>1. /\ Free /\ budget' = b /\ enabled' = TRUE /\ over' = (b > 0 /\ used > b)
      /\ UNCHANGED <<host, device, reserve, allocs, buf, job, wrong, batch, reused, faults, loads>>
  BY DEF SetBudget, Over, callers
<1>2. b \in Nat /\ used \in Nat /\ reserve \in Nat /\ allocs \in Nat
      /\ used = Held(Now) + reserve + allocs * AllocBytes
  BY DeviceCachesAssumption, UsedNat, NowFields DEF IInv, Plain, Good
<1>3. over' \in BOOLEAN /\ ((budget' > 0 /\ ~over') => used' <= budget')
  <2>1. PICK o \in BOOLEAN : o = (b > 0 /\ used > b)
    OBVIOUS
  <2>2. over' = o /\ budget' = b /\ used' = used
    BY <1>1, <2>1 DEF device
  <2>3. (b > 0 /\ ~o) => used <= b
    <3>1. b > 0 => (o <=> used > b)
      BY <2>1
    <3>2. ~(used > b) => used <= b
      BY <1>2
    <3>. QED BY <3>1, <3>2
  <2>. QED BY <2>2, <2>3
<1>4. used' = Held(Now) + reserve' + allocs' * AllocBytes
  BY <1>1, <1>2 DEF device
<1>5. budget' \in Nat /\ reserve' \in Nat /\ allocs' \in Nat /\ enabled' \in BOOLEAN
  BY <1>1, <1>2
<1>. QED BY <1>1, <1>3, <1>4, <1>5, BooksStep DEF device

LEMMA ReserveStep ==
  ASSUME IInv, NEW forced \in BOOLEAN, Reserve(forced)
  PROVE  IInv'
<1>1. /\ Free /\ reserve < Workspace /\ used' = used + Workspace - reserve /\ reserve' = Workspace
      /\ over' = (over \/ ~Fits(used'))
      /\ UNCHANGED <<host, i4, before, fp, pk, budget, enabled, allocs, buf, job, wrong, batch, reused, faults, loads>>
  BY DEF Reserve, callers
<1>2. /\ used \in Nat /\ reserve \in Nat /\ allocs \in Nat /\ Workspace \in Nat /\ budget \in Nat
      /\ Held(Now) \in Nat /\ allocs * AllocBytes \in Nat
      /\ used = Held(Now) + reserve + allocs * AllocBytes
  BY DeviceCachesAssumption, UsedNat, NowFields DEF IInv, Plain, Good
<1>3. used' = Held(Now) + reserve' + allocs' * AllocBytes
  BY <1>1, <1>2
<1>4. over' \in BOOLEAN /\ ((budget' > 0 /\ ~over') => used' <= budget')
  <2>1. PICK fits \in BOOLEAN : fits = (Fits(used'))
    BY DEF Fits
  <2>2. PICK o \in BOOLEAN : o = (over \/ ~fits)
    OBVIOUS
  <2>3. over' = o
    BY <1>1, <2>1, <2>2
  <2>4. ~o => budget = 0 \/ used' <= budget
    BY <2>1, <2>2 DEF Fits
  <2>. QED BY <1>1, <1>2, <2>3, <2>4
<1>5. budget' \in Nat /\ reserve' \in Nat /\ allocs' \in Nat /\ enabled' \in BOOLEAN
  BY <1>1, <1>2 DEF IInv, Plain
<1>. QED BY <1>1, <1>3, <1>4, <1>5, BooksStep

LEMMA OneMore ==
  ASSUME NEW n \in Nat, NEW m \in Nat
  PROVE  (n + 1) * m = n * m + m
OBVIOUS

LEMMA AllocStep ==
  ASSUME IInv, Alloc
  PROVE  IInv'
<1>1. /\ Free /\ Fits(used + AllocBytes) /\ used' = used + AllocBytes /\ allocs' = allocs + 1
      /\ UNCHANGED <<host, i4, before, fp, pk, budget, reserve, enabled, over, buf, job, wrong, batch, reused,
                     faults, loads>>
  BY DEF Alloc, callers
<1>2. /\ used \in Nat /\ reserve \in Nat /\ allocs \in Nat /\ AllocBytes \in Nat /\ budget \in Nat
      /\ Held(Now) \in Nat /\ allocs * AllocBytes \in Nat
      /\ used = Held(Now) + reserve + allocs * AllocBytes
  BY DeviceCachesAssumption, UsedNat, NowFields DEF IInv, Plain, Good
<1>3. allocs' * AllocBytes = allocs * AllocBytes + AllocBytes
  BY <1>1, <1>2, OneMore
<1>4. used' = Held(Now) + reserve' + allocs' * AllocBytes
  <2>1. PICK m : m = allocs * AllocBytes
    OBVIOUS
  <2>2. PICK n : n = allocs' * AllocBytes
    OBVIOUS
  <2>3. m \in Nat /\ n = m + AllocBytes /\ used = Held(Now) + reserve + m
    BY <1>2, <1>3, <2>1, <2>2
  <2>4. used' = Held(Now) + reserve + n
    BY <1>1, <1>2, <2>3
  <2>. QED BY <1>1, <2>2, <2>4
<1>5. (budget' > 0 /\ ~over') => used' <= budget'
  BY <1>1, <1>2 DEF Fits
<1>6. budget' \in Nat /\ reserve' \in Nat /\ allocs' \in Nat /\ enabled' \in BOOLEAN /\ over' \in BOOLEAN
  BY <1>1, <1>2 DEF IInv, Plain
<1>. QED BY <1>1, <1>4, <1>5, <1>6, BooksStep


LEMMA TotalNone ==
  ASSUME NEW g
  PROVE  Total({}, g) = 0
<1>1. Units({}, g) = {}
  BY DEF Units
<1>. QED BY <1>1, FS_EmptySet DEF Total, Units

\* Caches that hold nothing.
LEMMA NothingGood ==
  ASSUME NEW D, D = Caches(<<>>, {}, <<>>, <<>>, 0)
  PROVE  /\ D = Caches(D.i4, D.before, D.fp, D.pk, D.used)
         /\ Entries(D.i4) /\ Copies(D.fp) /\ Copies(D.pk) /\ D.before = {}
         /\ D.used = 0 /\ Held(D) = 0
         /\ DOMAIN D.i4 = {} /\ DOMAIN D.fp = {} /\ DOMAIN D.pk = {}
<1>1. D.i4 = <<>> /\ D.before = {} /\ D.fp = <<>> /\ D.pk = <<>> /\ D.used = 0
  BY DEF Caches
<1>2. DOMAIN <<>> = {}
  OBVIOUS
<1>3. Held(D) = 0
  <2>1. /\ Total({}, Int4Bytes(D.i4)) = 0 /\ Total({}, Fp32Bytes(D.fp)) = 0
        /\ Total({}, PackBytes(D.pk)) = 0
    BY TotalNone
  <2>. QED BY <1>1, <1>2, <2>1 DEF Held
<1>4. Entries(<<>>) /\ Copies(<<>>)
  BY DEF Entries, Copies
<1>. QED BY <1>1, <1>2, <1>3, <1>4

\* Nothing on the device, and nobody at work.
LEMMA NothingStep ==
  ASSUME Plain', Now' = Caches(<<>>, {}, <<>>, <<>>, 0), reserve' = 0, allocs' = 0, buf' = Empty, ~wrong',
         batch'.by = NoCaller, BatchType',
         \E J : job' \in [Callers -> J], \A c \in Callers : job'[c] \in Jobs,
         \A c \in Callers : job'[c].pc = "idle" /\ job'[c].kind = "none" /\ job'[c].ws = {}
  PROVE  IInv'
<1>1. NoCaller \notin Callers /\ AllocBytes \in Nat
  BY DeviceCachesAssumption
<1>2. Good(Now)'
  <2>1. PICK D : D = Caches(<<>>, {}, <<>>, <<>>, 0)
    OBVIOUS
  <2>2. /\ D = Caches(D.i4, D.before, D.fp, D.pk, D.used)
        /\ Entries(D.i4) /\ Copies(D.fp) /\ Copies(D.pk) /\ D.before = {}
        /\ D.used = 0 /\ Held(D) = 0
        /\ DOMAIN D.i4 = {} /\ DOMAIN D.fp = {} /\ DOMAIN D.pk = {}
    BY <2>1, NothingGood
  <2>3. allocs' * AllocBytes = 0 /\ budget' \in Nat
    BY <1>1 DEF Plain
  <2>4. CopiesOwn(D)'
    BY <2>2 DEF CopiesOwn
  <2>5. Good(D)'
    BY <2>2, <2>3, <2>4 DEF Good
  <2>. QED BY <2>1, <2>5
<1>3. JobsOK'
  <2>1. ASSUME NEW c \in Callers
        PROVE  JobOK(c, job[c])'
    <3>1. PICK j : j = job'[c]
      OBVIOUS
    <3>2. JobOK(c, j)'
      BY <3>1 DEF JobOK, Flying
    <3>. QED BY <3>1, <3>2
  <2>2. BufferOK'
    BY DEF BufferOK, Empty
  <2>. QED BY <2>1, <2>2 DEF JobsOK
<1>4. BatchOK'
  <2>1. \A c \in Callers : job'[c].pc = "ensure" <=> batch'.by = c
    BY <1>1
  <2>. QED BY <2>1, BatchWhole
<1>. QED BY <1>2, <1>3, <1>4 DEF IInv

LEMMA DisableStep ==
  ASSUME IInv, Disable
  PROVE  IInv'
<1>1. /\ \A c \in Callers : job[c].pc = "idle"
      /\ enabled' = FALSE /\ i4' = <<>> /\ before' = {} /\ fp' = <<>> /\ pk' = <<>>
      /\ used' = 0 /\ reserve' = 0 /\ allocs' = 0 /\ over' = FALSE /\ buf' = Empty
      /\ UNCHANGED <<host, budget, job, wrong, batch, faults, loads>>
  BY DEF Disable, Busy
<1>2. Plain'
  BY <1>1 DEF IInv, Plain
<1>3. Now' = Caches(<<>>, {}, <<>>, <<>>, 0)
  BY <1>1 DEF Now
<1>4. BatchType /\ \A c \in Callers : job[c].pc = "ensure" <=> batch.by = c
  BY BatchParts DEF IInv
<1>5. batch'.by = NoCaller /\ BatchType'
  BY <1>1, <1>4 DEF BatchType
<1>6. /\ \E J : job' \in [Callers -> J]
      /\ \A c \in Callers : job'[c] \in Jobs /\ job'[c].pc = "idle" /\ job'[c].kind = "none" /\ job'[c].ws = {}
  BY <1>1 DEF IInv, JobsOK, JobOK
<1>7. ~wrong'
  BY <1>1 DEF IInv, JobsOK
<1>. QED BY <1>1, <1>2, <1>3, <1>5, <1>6, <1>7, NothingStep

(***************************************************************************)
(* The host side.                                                          *)
(***************************************************************************)

\* Another weight at an address: those in use stay where they are.
LEMMA AddrStays ==
  ASSUME Plain, NEW w, NEW a \in Addrs, ~Loaded(w), host' = [host EXCEPT ![a] = w],
         NEW v, Loaded(v), v # host[a]
  PROVE  AddrOf(v)' = AddrOf(v) /\ Loaded(v)' /\ AddrOf(v) # a /\ host'[AddrOf(v)] = v
<1>1. v # w
  OBVIOUS
<1>2. \A b \in Addrs : host'[b] = IF b = a THEN w ELSE host[b]
  BY DEF Plain
<1>3. \A b \in Addrs : host'[b] = v <=> host[b] = v
  BY <1>1, <1>2
<1>4. AddrOf(v)' = AddrOf(v)
  <2>1. PICK g : g = host'
    OBVIOUS
  <2>2. (CHOOSE b \in Addrs : g[b] = v) = (CHOOSE b \in Addrs : host[b] = v)
    BY <1>3, <2>1
  <2>. QED BY <2>1, <2>2, Zenon DEF AddrOf
<1>5. AddrOf(v) \in Addrs /\ host[AddrOf(v)] = v
  BY AddrFacts
<1>. QED BY <1>3, <1>4, <1>5 DEF Loaded

LEMMA AddrsStay ==
  ASSUME Plain, NEW w, NEW a \in Addrs, ~Loaded(w), host' = [host EXCEPT ![a] = w],
         NEW S, \A v \in S : Loaded(v), host[a] \notin S
  PROVE  /\ AddrsOf(S)' = AddrsOf(S) /\ a \notin AddrsOf(S)
         /\ \A v \in S : AddrOf(v)' = AddrOf(v) /\ Loaded(v)'
         /\ \A b \in AddrsOf(S) : host'[b] = host[b]
<1>1. \A v \in S : /\ AddrOf(v)' = AddrOf(v) /\ Loaded(v)' /\ AddrOf(v) # a
                   /\ host'[AddrOf(v)] = v /\ host[AddrOf(v)] = v
  BY AddrStays, AddrFacts
<1>2. AddrsOf(S)' = AddrsOf(S)
  <2>1. PICK F : F = [v \in S |-> AddrOf(v)]
    OBVIOUS
  <2>2. \A v \in S : AddrOf(v) = F[v] /\ AddrOf(v)' = F[v]
    BY <1>1, <2>1
  <2>3. AddrsOf(S) = {F[v] : v \in S}
    BY <2>2 DEF AddrsOf
  <2>4. AddrsOf(S)' = {F[v] : v \in S}
    BY <2>2 DEF AddrsOf
  <2>. QED BY <2>3, <2>4
<1>. QED BY <1>1, <1>2 DEF AddrsOf


LEMMA LoadedGood ==
  ASSUME IInv, NEW w \in Weights, NEW a \in Spots, HostLoad(w, a)
  PROVE  Plain' /\ Good(Now)' /\ reused \subseteq reused'
<1>1. /\ loads' = loads + 1 /\ host' = [host EXCEPT ![a] = w] /\ UNCHANGED <<device, Books, callers, faults>>
      /\ reused' = IF \E v \in CopiesAt(a) : v # w /\ Shape[v] = Shape[w] THEN reused \cup {a} ELSE reused
      /\ a \in Addrs
  BY DeviceCachesAssumption DEF HostLoad
<1>2. Plain /\ Good(Now)
  BY DEF IInv
<1>3. /\ budget' = budget /\ reserve' = reserve /\ enabled' = enabled /\ allocs' = allocs /\ over' = over
      /\ faults' = faults /\ Now' = Now
  BY <1>1 DEF Books, device, Now, Caches
<1>4. Plain'
  <2>1. loads' \in Nat /\ host' = [b \in Addrs |-> host'[b]]
    BY <1>1, <1>2 DEF Plain
  <2>. QED BY <1>2, <1>3, <2>1 DEF Plain
<1>5. \A b \in Addrs : host'[b] = IF b = a THEN w ELSE host[b]
  BY <1>1, <1>2 DEF Plain
<1>6. reused \subseteq reused'
  BY <1>1
<1>7. ASSUME NEW b \in Addrs, NEW v, Own(b, v), b = a => v \in CopiesAt(a)
      PROVE  Own(b, v)'
  <2>1. CASE b = a
    <3>1. v # w /\ Shape[v] = Shape[w] => a \in reused'
      BY <1>1, <1>7, <2>1
    <3>2. host'[b] = w
      BY <1>5, <2>1
    <3>. QED BY <2>1, <3>1, <3>2 DEF Own
  <2>2. CASE b # a
    <3>1. host'[b] = host[b]
      BY <1>5, <2>2
    <3>. QED BY <1>6, <1>7, <3>1 DEF Own
  <2>. QED BY <2>1, <2>2
<1>8. PICK D : D = Now
  OBVIOUS
<1>9. Good(D) /\ D.i4 = i4 /\ D.fp = fp /\ D.pk = pk
  BY <1>2, <1>8, NowFields
<1>10. DOMAIN D.i4 \subseteq Addrs /\ DOMAIN D.fp \subseteq Addrs /\ DOMAIN D.pk \subseteq Addrs
  BY <1>9 DEF Good, Entries, Copies
<1>11. CopiesOwn(D)'
  <2>1. ASSUME NEW b \in DOMAIN D.i4
        PROVE  Own(b, D.i4[b].of)'
    <3>1. Own(b, D.i4[b].of) /\ b \in Addrs
      BY <1>9, <1>10 DEF Good, CopiesOwn
    <3>2. b = a => D.i4[b].of \in CopiesAt(a)
      BY <1>9 DEF CopiesAt
    <3>. QED BY <1>7, <3>1, <3>2
  <2>2. ASSUME NEW b \in DOMAIN D.fp
        PROVE  Own(b, D.fp[b])'
    <3>1. Own(b, D.fp[b]) /\ b \in Addrs
      BY <1>9, <1>10 DEF Good, CopiesOwn
    <3>2. b = a => D.fp[b] \in CopiesAt(a)
      BY <1>9 DEF CopiesAt
    <3>. QED BY <1>7, <3>1, <3>2
  <2>3. ASSUME NEW b \in DOMAIN D.pk
        PROVE  Own(b, D.pk[b])'
    <3>1. Own(b, D.pk[b]) /\ b \in Addrs
      BY <1>9, <1>10 DEF Good, CopiesOwn
    <3>2. b = a => D.pk[b] \in CopiesAt(a)
      BY <1>9 DEF CopiesAt
    <3>. QED BY <1>7, <3>1, <3>2
  <2>. QED BY <2>1, <2>2, <2>3 DEF CopiesOwn
<1>12. Good(D)'
  BY <1>3, <1>9, <1>11 DEF Good
<1>. QED BY <1>3, <1>4, <1>6, <1>8, <1>12

LEMMA LoadedRoom ==
  ASSUME UNCHANGED <<device, budget>>, NEW S, AddrsOf(S)' = AddrsOf(S),
         \A b \in AddrsOf(S) : host'[b] = host[b], reused \subseteq reused'
  PROVE  Hopeless(S) => Hopeless(S)'
<1>1. i4' = i4 /\ used' = used /\ budget' = budget /\ Now'.i4 = Now.i4 /\ Now'.used = Now.used
  BY DEF device, Now, Caches
<1>2. Room(S)' = Room(S) /\ \A b \in Room(S) : b \in AddrsOf(S)
  BY <1>1 DEF Room
<1>3. RoomBytes(S)' = RoomBytes(S)
  BY <1>2 DEF RoomBytes
<1>4. TooLarge(S) <=> ~Fits(Fixed(Now) + Total(Room(S), RoomBytes(S)))
  BY TooLargeIs
<1>5. TooLarge(S)' <=> ~(Fits(Fixed(Now) + Total(Room(S), RoomBytes(S))))'
  <2>1. Now'.i4 = i4' /\ Now'.used = used'
    BY DEF Now, Caches
  <2>. QED BY <2>1, Zenon DEF TooLarge, Fixed, Room, RoomBytes
<1>6. Fixed(Now)' = Fixed(Now)
  BY <1>1 DEF Fixed
<1>7. TooLarge(S) => TooLarge(S)'
  BY <1>1, <1>2, <1>3, <1>4, <1>5, <1>6 DEF Fits
<1>8. Reused(S) => Reused(S)'
  BY DEF Reused
<1>. QED BY <1>7, <1>8 DEF Hopeless

LEMMA HostLoadStep ==
  ASSUME IInv, NEW w \in Weights, NEW a \in Spots, HostLoad(w, a)
  PROVE  IInv'
<1>1. /\ ~Loaded(w) /\ host' = [host EXCEPT ![a] = w] /\ a \in Addrs
      /\ \A c \in Callers : host[a] \notin job[c].ws
      /\ UNCHANGED <<device, budget, buf, job, wrong, batch>>
  BY DeviceCachesAssumption DEF HostLoad, Books, callers
<1>2. Plain' /\ Good(Now)' /\ reused \subseteq reused'
  BY LoadedGood
<1>3. Plain /\ JobsOK /\ BatchOK
  BY DEF IInv
<1>4. ASSUME NEW c \in Callers, NEW S, S = job[c].ws
      PROVE  /\ AddrsOf(S)' = AddrsOf(S)
             /\ \A v \in S : AddrOf(v)' = AddrOf(v) /\ Loaded(v)'
             /\ \A b \in AddrsOf(S) : host'[b] = host[b]
  <2>1. (\A v \in S : Loaded(v)) /\ host[a] \notin S
    BY <1>1, <1>3, <1>4 DEF JobsOK, JobOK
  <2>. QED BY <1>1, <1>3, <2>1, AddrsStay
<1>5. JobsOK'
  <2>1. ASSUME NEW c \in Callers
        PROVE  JobOK(c, job[c])'
    <3>1. PICK j : j = job[c]
      OBVIOUS
    <3>2. PICK S : S = j.ws
      OBVIOUS
    <3>3. JobOK(c, j)
      BY <1>3, <3>1 DEF JobsOK
    <3>4. AddrsOf(S)' = AddrsOf(S) /\ \A v \in S : Loaded(v)'
      BY <1>4, <3>1, <3>2
    <3>5. Excused(j) => (Excused(j))'
      BY <1>2, <3>2, <3>4 DEF Excused, Reused
    <3>6. \A b : Holds(b, c) <=> Holds(b, c)'
      BY <1>1 DEF Holds
    <3>7. JobOK(c, j)'
      BY <3>2, <3>3, <3>4, <3>5, <3>6 DEF JobOK
    <3>. QED BY <1>1, <3>1, <3>7
  <2>2. BufferOK' /\ ~wrong'
    BY <1>1, <1>3 DEF JobsOK, BufferOK
  <2>. QED BY <1>1, <1>3, <2>1, <2>2 DEF JobsOK
<1>6. BatchOK'
  <2>1. BatchType' /\ batch' = batch /\ i4' = i4 /\ before' = before
    BY <1>1, <1>3, BatchParts DEF BatchType, device
  <2>2. \A c \in Callers : job'[c].pc = "ensure" <=> batch'.by = c
    BY <1>1, <1>3, BatchParts
  <2>3. ASSUME batch'.by # NoCaller
        PROVE  Batched(job[batch.by].ws)'
    <3>1. PICK S : S = job[batch.by].ws
      OBVIOUS
    <3>2. batch.by \in Callers /\ Batched(S)
      BY <1>3, <2>1, <2>3, <3>1, BatchParts DEF BatchType
    <3>3. /\ AddrsOf(S)' = AddrsOf(S)
          /\ \A v \in S : AddrOf(v)' = AddrOf(v)
          /\ \A b \in AddrsOf(S) : host'[b] = host[b]
      BY <1>4, <3>1, <3>2
    <3>4. Hopeless(S) => Hopeless(S)'
      BY <1>1, <1>2, <3>3, LoadedRoom
    <3>5. Batched(S)'
      <4>1. batch'.kind \in Kinds \ {"vocab", "tc", "scratch"} /\ Range(batch'.todo) \subseteq S
        BY <2>1, <3>2 DEF Batched
      <4>2. batch'.live \subseteq AddrsOf(S)' \cap DOMAIN i4'
        BY <2>1, <3>2, <3>3 DEF Batched
      <4>3. \A v \in S : AddrOf(v)' \in batch'.live => Shape[i4'[AddrOf(v)'].of] = Shape[v]
        BY <2>1, <3>2, <3>3 DEF Batched
      <4>4. \A x \in batch'.live, y \in DOMAIN i4' \ batch'.live : <<y, x>> \in before'
        BY <2>1, <3>2 DEF Batched
      <4>5. Hopeless(S)' \/ (batch'.ok => \A v \in S : v \in Range(batch'.todo) \/ AddrOf(v)' \in batch'.live)
        BY <2>1, <3>2, <3>3, <3>4 DEF Batched
      <4>. QED BY <4>1, <4>2, <4>3, <4>4, <4>5, Zenon DEF Batched
    <3>6. S = job'[batch'.by].ws
      BY <1>1, <2>1, <3>1
    <3>. QED BY <3>5, <3>6, Zenon DEF Batched
  <2>. QED BY <2>1, <2>2, <2>3, BatchWhole
<1>. QED BY <1>2, <1>5, <1>6 DEF IInv

LEMMA StutterStep ==
  ASSUME IInv, UNCHANGED vars
  PROVE  IInv'
<1>1. /\ UNCHANGED <<host, device, Books, reused, batch, job, buf, wrong>> /\ faults' = faults
      /\ loads' = loads /\ budget' = budget
  BY DEF vars, Books, callers
<1>2. Plain /\ Good(Now) /\ JobsOK /\ BatchOK
  BY DEF IInv
<1>3. Plain' /\ Good(Now)'
  BY <1>1, <1>2, StillStep DEF Plain
<1>4. JobsOK'
  <2>1. ASSUME NEW c \in Callers
        PROVE  JobOK(c, job[c])'
    <3>1. PICK j : j = job[c]
      OBVIOUS
    <3>2. JobOK(c, j)
      BY <1>2, <3>1 DEF JobsOK
    <3>3. JobOK(c, j)'
      BY <1>1, <3>2 DEF JobOK, Loaded, Excused, Reused, AddrsOf, AddrOf, Holds
    <3>. QED BY <1>1, <3>1, <3>3
  <2>. QED BY <1>1, <1>2, <2>1 DEF JobsOK, BufferOK
<1>5. BatchOK'
  BY <1>1, <1>2, BatchStays
<1>. QED BY <1>3, <1>4, <1>5 DEF IInv


(***************************************************************************)
(* The invariant.                                                          *)
(***************************************************************************)

LEMMA InitHolds == Init => IInv
<1>1. SUFFICES ASSUME Init
               PROVE  IInv
  OBVIOUS
<1>2. Plain
  BY <1>1, DeviceCachesAssumption DEF Init, Plain
<1>3. Good(Now)
  <2>1. PICK D : D = Now
    OBVIOUS
  <2>2. D = Caches(<<>>, {}, <<>>, <<>>, 0)
    BY <1>1, <2>1 DEF Init, Now
  <2>3. /\ D = Caches(D.i4, D.before, D.fp, D.pk, D.used)
        /\ Entries(D.i4) /\ Copies(D.fp) /\ Copies(D.pk) /\ D.before = {}
        /\ D.used = 0 /\ Held(D) = 0
        /\ DOMAIN D.i4 = {} /\ DOMAIN D.fp = {} /\ DOMAIN D.pk = {}
    BY <2>2, NothingGood
  <2>4. allocs * AllocBytes = 0 /\ reserve = 0 /\ budget = 0
    BY <1>1, DeviceCachesAssumption DEF Init
  <2>5. CopiesOwn(D)
    BY <2>3 DEF CopiesOwn
  <2>6. Good(D)
    BY <2>3, <2>4, <2>5 DEF Good
  <2>. QED BY <2>1, <2>6
<1>4. JobsOK
  <2>1. ASSUME NEW c \in Callers
        PROVE  JobOK(c, job[c])
    <3>1. job[c] = Idle
      BY <1>1 DEF Init
    <3>. QED BY <3>1, IdleOK
  <2>2. job \in [Callers -> {Idle}]
    BY <1>1 DEF Init
  <2>3. BufferOK /\ ~wrong
    BY <1>1 DEF Init, BufferOK, Empty
  <2>. QED BY <2>1, <2>2, <2>3 DEF JobsOK
<1>5. BatchOK
  <2>1. batch = NoBatch /\ batch.by = NoCaller /\ NoCaller \notin Callers
    BY <1>1, DeviceCachesAssumption DEF Init, NoBatch
  <2>2. \A c \in Callers : job[c].pc # "ensure"
    BY <1>1 DEF Init, Idle
  <2>3. BatchType
    BY <2>1 DEF BatchType, NoBatch
  <2>. QED BY <2>1, <2>2, <2>3, Zenon DEF BatchOK, BatchType
<1>. QED BY <1>2, <1>3, <1>4, <1>5 DEF IInv

LEMMA ProductStep ==
  ASSUME IInv, NEW c \in Callers,
         \/ \E w \in Int4 : GemmInt4(c, w)
         \/ \E w \in Rows : GemmRows(c, w)
         \/ \E b \in Multi : GemmMulti(c, b) \/ RmsnormMulti(c, b)
         \/ \E b \in Ffn : MlpDecode(c, b) \/ OutMlp(c, b) \/ MoeFfn(c, b)
         \/ \E w \in Mid \cup Wide : GemmW16(c, w)
         \/ \E w \in Mid : GemmDequantized(c, w)
         \/ EnsureNext(c) \/ BatchTaken(c) \/ BatchFailed(c)
         \/ NextPath(c) \/ Stage(c) \/ Launch(c) \/ Fold(c) \/ CopyBack(c) \/ GiveUp(c)
  PROVE  IInv'
<1>1. ASSUME NEW w \in Int4, GemmInt4(c, w) PROVE IInv'
  BY <1>1, GemmInt4Step
<1>2. ASSUME NEW w \in Rows, GemmRows(c, w) PROVE IInv'
  BY <1>2, GemmRowsStep
<1>3. ASSUME NEW b \in Multi, GemmMulti(c, b) PROVE IInv'
  BY <1>3, GemmMultiStep
<1>4. ASSUME NEW b \in Multi, RmsnormMulti(c, b) PROVE IInv'
  BY <1>4, FusedStep DEF RmsnormMulti
<1>5. ASSUME NEW b \in Ffn, MlpDecode(c, b) \/ OutMlp(c, b) \/ MoeFfn(c, b) PROVE IInv'
  BY <1>5, FusedStep DEF MlpDecode, OutMlp, MoeFfn
<1>6. ASSUME NEW w \in Mid \cup Wide, GemmW16(c, w) PROVE IInv'
  BY <1>6, GemmW16Step
<1>7. ASSUME NEW w \in Mid, GemmDequantized(c, w) PROVE IInv'
  BY <1>7, GemmDequantizedStep
<1>8. CASE EnsureNext(c)
  BY <1>8, EnsureNextStep
<1>9. CASE BatchTaken(c)
  BY <1>9, BatchTakenStep
<1>10. CASE BatchFailed(c)
  BY <1>10, BatchFailedStep
<1>11. CASE NextPath(c)
  BY <1>11, NextPathStep
<1>12. CASE Stage(c)
  BY <1>12, StageStep
<1>13. CASE Launch(c)
  BY <1>13, LaunchStep
<1>14. CASE Fold(c)
  BY <1>14, FoldStep
<1>15. CASE CopyBack(c)
  BY <1>15, CopyBackStep
<1>16. CASE GiveUp(c)
  BY <1>16, GiveUpStep
<1>. QED BY <1>1, <1>2, <1>3, <1>4, <1>5, <1>6, <1>7, <1>8, <1>9, <1>10, <1>11, <1>12, <1>13,
            <1>14, <1>15, <1>16

LEMMA NextHolds == IInv /\ [Next]_vars => IInv'
<1>1. SUFFICES ASSUME IInv, [Next]_vars
               PROVE  IInv'
  OBVIOUS
<1>2. ASSUME NEW c \in Callers,
         \/ \E w \in Int4 : GemmInt4(c, w)
         \/ \E w \in Rows : GemmRows(c, w)
         \/ \E b \in Multi : GemmMulti(c, b) \/ RmsnormMulti(c, b)
         \/ \E b \in Ffn : MlpDecode(c, b) \/ OutMlp(c, b) \/ MoeFfn(c, b)
         \/ \E w \in Mid \cup Wide : GemmW16(c, w)
         \/ \E w \in Mid : GemmDequantized(c, w)
         \/ EnsureNext(c) \/ BatchTaken(c) \/ BatchFailed(c)
         \/ NextPath(c) \/ Stage(c) \/ Launch(c) \/ Fold(c) \/ CopyBack(c) \/ GiveUp(c)
      PROVE  IInv'
  BY <1>1, <1>2, ProductStep
<1>3. ASSUME NEW w \in Weights, Prefetch(w) PROVE IInv'
  BY <1>1, <1>3, PrefetchStep
<1>4. ASSUME NEW w \in Weights, NEW a \in Spots, HostLoad(w, a) PROVE IInv'
  BY <1>1, <1>4, HostLoadStep
<1>5. ASSUME NEW w \in Pins, Pin(w) PROVE IInv'
  BY <1>1, <1>5, PinStep
<1>6. ASSUME NEW b \in Budgets, SetBudget(b) PROVE IInv'
  BY <1>1, <1>6, SetBudgetStep
<1>7. CASE Disable
  BY <1>1, <1>7, DisableStep
<1>8. ASSUME NEW forced \in BOOLEAN, Reserve(forced) PROVE IInv'
  BY <1>1, <1>8, ReserveStep
<1>9. CASE Alloc
  BY <1>1, <1>9, AllocStep
<1>10. CASE UNCHANGED vars
  BY <1>1, <1>10, StutterStep
<1>. QED BY <1>1, <1>2, <1>3, <1>4, <1>5, <1>6, <1>7, <1>8, <1>9, <1>10 DEF Next

(* The caches, the products under way and the batch that holds g_mu are what  *)
(* hal/cuda_backend.cpp takes them for: the order of use is one of cached     *)
(* addresses, every pointer a product holds is to a copy of its weight unless *)
(* it is excused, and the buffer its next step relies on is its own.          *)
THEOREM DeviceInvariant == Spec => []IInv
<1>. QED BY InitHolds, NextHolds, PTL DEF Spec

(* g_used is exactly what the three caches, the reservation and the calls of  *)
(* device_alloc add up to, and it stays within the budget once it is, for     *)
(* every set of weights and every budget.                                    *)
THEOREM BooksAreExact == Spec => []BooksExact
<1>1. IInv => BooksExact
  BY NowFields DEF IInv, Good, Held, BooksExact
<1>. QED BY <1>1, DeviceInvariant, PTL

(* A product that reports success is that of its own input and weights, but   *)
(* for the known causes, whatever the other callers do between its sections.  *)
THEOREM OwnProducts == Spec => []ProductsAreOwn
<1>1. IInv => ProductsAreOwn
  BY DEF IInv, JobsOK, ProductsAreOwn
<1>. QED BY <1>1, DeviceInvariant, PTL


(***************************************************************************)
(* Pins.                                                                   *)
(***************************************************************************)

PinsKept == Kept(i4, i4')

LEMMA SamePins ==
  ASSUME i4' = i4
  PROVE  PinsKept
BY DEF PinsKept, Kept

LEMMA EnsuredPins ==
  ASSUME IInv, NEW w \in Int4, Loaded(w), NEW o \in EnsureInt4(Now, w)
  PROVE  Good(o.D) /\ Kept(i4, o.D.i4)
BY Int4Outcome, NowFields DEF IInv, Sound

LEMMA CopiedPins ==
  ASSUME IInv, NEW D, Good(D), NEW w \in Weights, Loaded(w),
         NEW o \in EnsureFp32(D, w) \cup EnsureMid(D, w) \cup EnsureWide(D, w)
  PROVE  o.D.i4 = D.i4
<1>1. Plain /\ 0 \in Nat /\ MidPad \in Nat /\ WidePad \in Nat
  BY DeviceCachesAssumption DEF IInv
<1>2. CASE o \in EnsureCopy(D, w, D.fp, CopyFp32(D, AddrOf(w), w), 0)
  BY <1>1, <1>2, Fp32Outcome DEF Added
<1>3. CASE o \in EnsureCopy(D, w, D.fp, CopyFp32(D, AddrOf(w), w), MidPad)
  BY <1>1, <1>3, Fp32Outcome DEF Added
<1>4. CASE o \in EnsureCopy(D, w, D.pk, CopyPack(D, AddrOf(w), w), WidePad)
  BY <1>1, <1>4, PackOutcome DEF Added
<1>. QED BY <1>2, <1>3, <1>4 DEF EnsureFp32, EnsureMid, EnsureWide

LEMMA EndsPins ==
  ASSUME NEW c, NEW p, NEW k, NEW w, NEW S, NEW rest, NEW D, NEW f, NEW right, NEW gone,
         \/ Take(c, p, D, f, gone) \/ Hold(c, p, D, f, gone) \/ Whole(c, w, rest, D, f, right, gone)
         \/ Declined(c, k, S, rest, D, f, gone)
  PROVE  i4' = D.i4
BY DEF Take, Hold, Whole, Computed, Declined, Put

LEMMA GemmInt4Pins ==
  ASSUME IInv, NEW c \in Callers, NEW w \in Int4, GemmInt4(c, w)
  PROVE  PinsKept
<1>1. Loaded(w) /\ w \in Weights
  BY DEF GemmInt4, Start, Weights
<1>2. PICK o \in EnsureInt4(Now, w) :
       \/ /\ o.ok /\ jit
          /\ Take(c, Product("gemv", {w}, <<>>, TRUE, o.D.i4[AddrOf(w)].of = w), o.D, o.f, o.gone)
       \/ /\ ~(o.ok /\ jit)
          /\ \E p \in EnsureFp32(o.D, w) :
               IF p.ok THEN Whole(c, w, <<>>, p.D, o.f + p.f, p.D.fp[AddrOf(w)] = w, o.gone)
                       ELSE Declined(c, "none", {w}, <<>>, p.D, o.f + p.f, o.gone)
  BY DEF GemmInt4
<1>3. Good(o.D) /\ Kept(i4, o.D.i4)
  BY <1>1, EnsuredPins
<1>4. CASE Put(o.D)
  BY <1>3, <1>4 DEF Put, PinsKept
<1>5. CASE \E p \in EnsureFp32(o.D, w) : Put(p.D)
  <2>1. PICK p \in EnsureFp32(o.D, w) : Put(p.D)
    BY <1>5
  <2>2. p.D.i4 = o.D.i4
    BY <1>1, <1>3, CopiedPins
  <2>. QED BY <1>3, <2>1, <2>2 DEF Put, PinsKept
<1>. QED BY <1>2, <1>4, <1>5 DEF Take, Whole, Computed, Declined

LEMMA AttemptPins ==
  ASSUME IInv, NEW c, NEW w \in Int4, Loaded(w), NEW paths, Attempt(c, w, paths)
  PROVE  PinsKept
<1>1. w \in Weights /\ Good(Now)
  BY DEF Weights, IInv
<1>2. SUFFICES \/ Put(Now) \/ (\E o \in EnsureInt4(Now, w) : Put(o.D))
               \/ (\E o \in EnsureFp32(Now, w) : Put(o.D))
  <2>1. CASE Put(Now)
    BY <2>1, NowFields, SamePins DEF Put
  <2>2. CASE \E o \in EnsureInt4(Now, w) : Put(o.D)
    BY <2>2, EnsuredPins DEF Put, PinsKept
  <2>3. CASE \E o \in EnsureFp32(Now, w) : Put(o.D)
    BY <1>1, <2>3, CopiedPins, NowFields, SamePins DEF Put
  <2>. QED BY <1>2, <2>1, <2>2, <2>3
<1>3. CASE Fp32Path(c, w, Tail(paths))
  BY <1>3 DEF Fp32Path, Whole, Computed, Declined
<1>4. ASSUME NEW k, StagedPath(c, k, w, Tail(paths))
      PROVE  Put(Now) \/ (\E o \in EnsureInt4(Now, w) : Put(o.D))
  BY <1>4 DEF StagedPath, Hold, Declined
<1>5. CASE ScratchPath(c, w, Tail(paths))
  BY <1>5 DEF ScratchPath, Take, Declined
<1>. QED BY <1>3, <1>4, <1>5 DEF Attempt

LEMMA W16Pins ==
  ASSUME IInv, NEW c, NEW w \in Mid \cup Wide, GemmW16(c, w) \/ GemmDequantized(c, w)
  PROVE  PinsKept
<1>1. w \in Weights /\ Good(Now) /\ Loaded(w)
  BY DEF Weights, IInv, GemmW16, GemmDequantized, Start
<1>2. PICK o \in EnsureFp32(Now, w) \cup EnsureMid(Now, w) \cup EnsureWide(Now, w) : Put(o.D)
  BY DEF GemmW16, GemmDequantized, Whole, Computed, Declined, Take
<1>. QED BY <1>1, <1>2, CopiedPins, NowFields, SamePins DEF Put

LEMMA EnsureNextPins ==
  ASSUME IInv, NEW c \in Callers, EnsureNext(c)
  PROVE  PinsKept
<1>1. PICK w : w = Head(batch.todo)
  OBVIOUS
<1>2. PICK o \in EnsureInt4(Now, w) : Put(o.D)
  BY <1>1 DEF EnsureNext
<1>3. w \in Int4 /\ Loaded(w)
  BY <1>1, EnsureNextFrame
<1>. QED BY <1>2, <1>3, EnsuredPins DEF Put, PinsKept

LEMMA PrefetchPins ==
  ASSUME IInv, NEW w \in Weights, Prefetch(w)
  PROVE  PinsKept
<1>1. Loaded(w) /\ Good(Now)
  BY DEF Prefetch, IInv
<1>2. CASE w \in Int4 /\ \E o \in EnsureInt4(Now, w) : Put(o.D)
  BY <1>1, <1>2, EnsuredPins DEF Put, PinsKept
<1>3. CASE w \in Int4 /\ \E o \in EnsureInt4(Now, w) : \E p \in EnsureFp32(o.D, w) : Put(p.D)
  <2>1. PICK o \in EnsureInt4(Now, w) : \E p \in EnsureFp32(o.D, w) : Put(p.D)
    BY <1>3
  <2>2. PICK p \in EnsureFp32(o.D, w) : Put(p.D)
    BY <2>1
  <2>3. Good(o.D) /\ Kept(i4, o.D.i4)
    BY <1>1, <1>3, EnsuredPins
  <2>4. p.D.i4 = o.D.i4
    BY <1>1, <2>2, <2>3, CopiedPins
  <2>. QED BY <2>2, <2>3, <2>4 DEF Put, PinsKept
<1>4. CASE \E o \in EnsureMid(Now, w) \cup EnsureWide(Now, w) : Put(o.D)
  BY <1>1, <1>4, CopiedPins, NowFields, SamePins DEF Put
<1>. QED BY <1>2, <1>3, <1>4 DEF Prefetch

LEMMA PinPins ==
  ASSUME IInv, NEW w \in Pins, Pin(w)
  PROVE  PinsKept
<1>1. Loaded(w) /\ w \in Int4 /\ Plain /\ Good(Now)
  BY DeviceCachesAssumption DEF Pin, IInv
<1>2. PICK o \in EnsureInt4(Now, w) :
        Put(IF o.ok THEN [o.D EXCEPT !.i4[AddrOf(w)].pin = TRUE] ELSE o.D)
  BY DEF Pin
<1>3. PICK B : B = o.D
  OBVIOUS
<1>4. PICK x : x = AddrOf(w)
  OBVIOUS
<1>5. Good(B) /\ Kept(i4, B.i4) /\ (o.ok => x \in DOMAIN B.i4)
  BY <1>1, <1>3, <1>4, Int4Outcome, NowFields DEF Sound, Found
<1>6. CASE o.ok
  <2>1. PICK E : E = [B EXCEPT !.i4[x].pin = TRUE]
    OBVIOUS
  <2>2. Put(E)
    BY <1>2, <1>3, <1>4, <1>6, <2>1
  <2>3. Kept(B.i4, E.i4)
    BY <1>1, <1>5, <1>6, <2>1, PinnedGood
  <2>. QED BY <1>5, <2>2, <2>3 DEF Put, PinsKept, Kept
<1>7. CASE ~o.ok
  BY <1>2, <1>3, <1>5, <1>7 DEF Put, PinsKept
<1>. QED BY <1>6, <1>7

LEMMA OwnPins ==
  ASSUME IInv, NEW c \in Callers,
         \/ Stage(c) \/ Launch(c) \/ Fold(c) \/ CopyBack(c) \/ GiveUp(c)
         \/ BatchTaken(c) \/ BatchFailed(c)
         \/ \E b \in Multi : GemmMulti(c, b) \/ RmsnormMulti(c, b)
         \/ \E b \in Ffn : MlpDecode(c, b) \/ OutMlp(c, b) \/ MoeFfn(c, b)
  PROVE  PinsKept
<1>1. CASE Put(Now)
  BY <1>1, NowFields, SamePins DEF Put
<1>2. CASE i4' = i4
  BY <1>2, SamePins
<1>3. CASE Stage(c) \/ Launch(c) \/ Fold(c) \/ CopyBack(c) \/ GiveUp(c)
  BY <1>2, <1>3, Zenon DEF Stage, Launch, Fold, CopyBack, GiveUp, MidStep, device
<1>4. CASE BatchTaken(c) \/ BatchFailed(c)
  BY <1>1, <1>4 DEF BatchTaken, BatchFailed, Take, Hold, Declined
<1>5. ASSUME NEW b, GemmMulti(c, b)
      PROVE  PinsKept
  BY <1>2, <1>5 DEF GemmMulti, Begin, device
<1>6. ASSUME NEW b, NEW k, Fused(c, k, b)
      PROVE  PinsKept
  BY <1>1, <1>2, <1>6 DEF Fused, Begin, Declined, device
<1>. QED BY <1>3, <1>4, <1>5, <1>6 DEF RmsnormMulti, MlpDecode, OutMlp, MoeFfn

LEMMA NextPins ==
  ASSUME IInv, [Next]_vars, enabled'
  PROVE  PinsKept
<1>1. ASSUME NEW c \in Callers, NEW w \in Int4, GemmInt4(c, w) PROVE PinsKept
  BY <1>1, GemmInt4Pins
<1>2. ASSUME NEW c \in Callers, NEW w \in Rows, GemmRows(c, w) PROVE PinsKept
  BY <1>2, AttemptPins, DeviceCachesAssumption DEF GemmRows, Start
<1>3. ASSUME NEW c \in Callers, NextPath(c) PROVE PinsKept
  <2>1. job[c].pc = "try" /\ \E w \in job[c].ws : Attempt(c, w, job[c].rest)
    BY <1>3 DEF NextPath
  <2>2. PICK w \in job[c].ws : Attempt(c, w, job[c].rest)
    BY <2>1
  <2>3. w \in Int4 /\ Loaded(w)
    BY <2>1, <2>2 DEF IInv, JobsOK, JobOK
  <2>4. PICK rest : rest = job[c].rest
    OBVIOUS
  <2>. QED BY <2>2, <2>3, <2>4, AttemptPins
<1>4. ASSUME NEW c \in Callers, NEW w \in Mid \cup Wide, GemmW16(c, w) \/ GemmDequantized(c, w)
      PROVE  PinsKept
  BY <1>4, W16Pins
<1>5. ASSUME NEW c \in Callers, EnsureNext(c) PROVE PinsKept
  BY <1>5, EnsureNextPins
<1>6. ASSUME NEW c \in Callers,
             \/ Stage(c) \/ Launch(c) \/ Fold(c) \/ CopyBack(c) \/ GiveUp(c)
             \/ BatchTaken(c) \/ BatchFailed(c)
             \/ \E b \in Multi : GemmMulti(c, b) \/ RmsnormMulti(c, b)
             \/ \E b \in Ffn : MlpDecode(c, b) \/ OutMlp(c, b) \/ MoeFfn(c, b)
      PROVE  PinsKept
  BY <1>6, OwnPins
<1>7. ASSUME NEW w \in Weights, Prefetch(w) PROVE PinsKept
  BY <1>7, PrefetchPins
<1>8. ASSUME NEW w \in Pins, Pin(w) PROVE PinsKept
  BY <1>8, PinPins
<1>9. ASSUME NEW w, NEW a, HostLoad(w, a) PROVE PinsKept
  BY <1>9, SamePins DEF HostLoad, device
<1>10. ASSUME NEW b, SetBudget(b) PROVE PinsKept
  BY <1>10, SamePins DEF SetBudget, device
<1>11. CASE Disable
  BY <1>11 DEF Disable
<1>12. ASSUME NEW forced, Reserve(forced) PROVE PinsKept
  BY <1>12, SamePins DEF Reserve
<1>13. CASE Alloc
  BY <1>13, SamePins DEF Alloc
<1>14. CASE UNCHANGED vars
  BY <1>14, SamePins DEF vars, device
<1>. QED BY <1>1, <1>2, <1>3, <1>4, <1>5, <1>6, <1>7, <1>8, <1>9, <1>10, <1>11, <1>12, <1>13, <1>14 DEF Next

(* A weight the warm-up pinned leaves the device only with disable(): no       *)
(* upload, of any caller, by any path, evicts it or puts another in its place. *)
THEOREM PinnedStaysAlways == Spec => PinnedStays
<1>1. IInv /\ [Next]_vars =>
        [enabled' => \A a \in DOMAIN i4 : i4[a].pin => a \in DOMAIN i4' /\ i4'[a] = i4[a]]_vars
  BY NextPins DEF PinsKept, Kept
<1>. QED BY <1>1, DeviceInvariant, PTL DEF Spec, PinnedStays


(***************************************************************************)
(* The cache of weights in host memory (WeightManager), whose state and    *)
(* parameters are other ones.  For any tensors, sizes, budget and sets of  *)
(* names to release, the books of the cache are exact and within the       *)
(* budget, and references that fit it together stay loaded while their     *)
(* caller uses them.                                                       *)
(***************************************************************************)
(***************************************************************************)
(* The inductive invariant.                                                *)
(***************************************************************************)

CacheTypeOK ==
  /\ tier \in [Tensors -> {"resident", "hot", "cold"}]
  /\ data \in [Tensors -> {"empty", "good", "torn"}]
  /\ older \subseteq Hot \X Hot
  /\ held \subseteq Tensors
  /\ \A t \in Tensors : tier[t] = "resident" => data[t] # "empty"

\* r orders the entries H, each before or after each other.
Orders(r, H) ==
  /\ \A x \in H : <<x, x>> \notin r
  /\ \A x, y \in H : x # y => <<x, y>> \in r \/ <<y, x>> \in r
  /\ \A x, y, z \in H : <<x, y>> \in r /\ <<y, z>> \in r => <<x, z>> \in r

CacheBooks ==
  /\ lru_used = SizeOf(Hot)
  /\ \A t \in Hot : data[t] # "empty"
  /\ lru_used <= Budget

\* What the caller holds of the tensors that can be evicted.
Evictable == {t \in held : tier[t] # "resident"}

\* As long as these fit the budget they are the most recent of the cache.
HeldIsRecent ==
  SizeOf(Evictable) <= Budget =>
   /\ Evictable \subseteq Hot
   /\ \A x \in Evictable, y \in Hot : <<x, y>> \in older => y \in Evictable

CacheIInv == CacheTypeOK /\ Orders(older, Hot) /\ CacheBooks /\ HeldIsRecent

(***************************************************************************)
(* Sizes.                                                                  *)
(***************************************************************************)

BytesOf(S) == UNION {{t} \X (1..Size[t]) : t \in S}

\* A set of tensors occupies as much as it has bytes.
LEMMA BytesAre ==
  ASSUME NEW S
  PROVE  SizeOf(S) = Cardinality(BytesOf(S))
BY DEF SizeOf, Cardinality, Cardinality, BytesOf

\* Tensors have finitely many bytes.
LEMMA BytesType ==
  ASSUME NEW S, S \subseteq Tensors
  PROVE  IsFiniteSet(BytesOf(S)) /\ SizeOf(S) \in Nat /\ SizeOf(S) = Cardinality(BytesOf(S))
<1>0. IsFiniteSet(Tensors) /\ Size \in [Tensors -> Nat \ {0}]
  BY WeightManagerAssumption DEF IsFiniteSet, IsFiniteSet
<1>1. IsFiniteSet(S)
  BY <1>0, FS_Subset
<1>. DEFINE P == {{t} \X (1..Size[t]) : t \in S}
<1>2. IsFiniteSet(P)
  <2>. DEFINE f == [t \in S |-> {t} \X (1..Size[t])]
  <2>1. f \in [S -> P] /\ \A Q \in P : \E t \in S : f[t] = Q
    OBVIOUS
  <2>2. f \in Surjection(S, P)
    <3>. HIDE DEF f, P
    <3>. QED BY <2>1 DEF Surjection
  <2>. HIDE DEF f, P
  <2>. QED BY <1>1, <2>2, FS_Surjection
<1>3. \A Q \in P : IsFiniteSet(Q)
  <2>. SUFFICES ASSUME NEW t \in S
                PROVE  IsFiniteSet({t} \X (1..Size[t]))
    OBVIOUS
  <2>1. Size[t] \in Int /\ 1 \in Int
    BY <1>0
  <2>2. IsFiniteSet({t})
    BY FS_Singleton
  <2>3. IsFiniteSet(1..Size[t])
    BY <2>1, FS_Interval
  <2>. QED BY <2>2, <2>3, FS_Product
<1>4. IsFiniteSet(UNION P)
  BY <1>2, <1>3, FS_UNION
<1>. QED BY <1>4, BytesAre, FS_CardinalityType DEF BytesOf

\* Different tensors have different bytes.
LEMMA BytesAdd ==
  ASSUME NEW S, NEW T, S \subseteq Tensors, T \subseteq Tensors, S \cap T = {}
  PROVE  SizeOf(S \cup T) = SizeOf(S) + SizeOf(T)
<1>1. BytesOf(S \cup T) = BytesOf(S) \cup BytesOf(T)
  BY DEF BytesOf
<1>2. BytesOf(S) \cap BytesOf(T) = {}
  BY DEF BytesOf
<1>3. IsFiniteSet(BytesOf(S)) /\ IsFiniteSet(BytesOf(T))
  BY BytesType
<1>4. Cardinality(BytesOf(S) \cup BytesOf(T)) =
        Cardinality(BytesOf(S)) + Cardinality(BytesOf(T)) - Cardinality(BytesOf(S) \cap BytesOf(T))
  BY <1>3, FS_Union
<1>5. Cardinality({}) = 0
  BY FS_EmptySet
<1>6. /\ SizeOf(S) = Cardinality(BytesOf(S)) /\ SizeOf(T) = Cardinality(BytesOf(T))
      /\ SizeOf(S \cup T) = Cardinality(BytesOf(S \cup T))
      /\ SizeOf(S) \in Nat /\ SizeOf(T) \in Nat
  BY BytesType
<1>7. Cardinality(BytesOf(S \cup T)) = Cardinality(BytesOf(S) \cup BytesOf(T))
  BY <1>1
<1>8. Cardinality(BytesOf(S) \cap BytesOf(T)) = 0
  BY <1>2, <1>5
<1>. QED BY <1>4, <1>6, <1>7, <1>8

LEMMA BytesRest ==
  ASSUME NEW T, T \subseteq Tensors, NEW S, S \subseteq T
  PROVE  /\ SizeOf(T \ S) = SizeOf(T) - SizeOf(S)
         /\ SizeOf(S) <= SizeOf(T) /\ SizeOf(S) \in Nat /\ SizeOf(T) \in Nat
<1>1. (T \ S) \cup S = T /\ (T \ S) \cap S = {}
  OBVIOUS
<1>2. SizeOf((T \ S) \cup S) = SizeOf(T \ S) + SizeOf(S)
  BY <1>1, BytesAdd
<1>3. SizeOf(T \ S) \in Nat /\ SizeOf(S) \in Nat /\ SizeOf(T) \in Nat
  BY BytesType
<1>4. SizeOf((T \ S) \cup S) = SizeOf(T)
  BY <1>1
<1>. QED BY <1>2, <1>3, <1>4

LEMMA BytesOne ==
  ASSUME NEW t \in Tensors
  PROVE  SizeOf({t}) = Size[t] /\ Size[t] \in Nat \ {0}
<1>1. Size[t] \in Nat \ {0} /\ Size[t] \in Int
  BY WeightManagerAssumption
<1>2. BytesOf({t}) = {t} \X (1..Size[t])
  BY DEF BytesOf
<1>3. IsFiniteSet({t}) /\ Cardinality({t}) = 1
  BY FS_Singleton
<1>4. IsFiniteSet(1..Size[t]) /\ Cardinality(1..Size[t]) = Size[t]
  BY <1>1, FS_Interval
<1>5. Cardinality({t} \X (1..Size[t])) = Cardinality({t}) * Cardinality(1..Size[t])
  BY <1>3, <1>4, FS_Product, Zenon
<1>6. SizeOf({t}) = Cardinality({t} \X (1..Size[t]))
  BY <1>2, BytesType
<1>. QED BY <1>1, <1>3, <1>4, <1>5, <1>6

\* Fewer tensors are smaller.
LEMMA BytesLess ==
  ASSUME NEW T, T \subseteq Tensors, NEW S, S \subseteq T, S # T
  PROVE  SizeOf(S) < SizeOf(T)
<1>1. PICK t \in T : t \notin S
  OBVIOUS
<1>2. SizeOf(S \cup {t}) = SizeOf(S) + SizeOf({t})
  BY <1>1, BytesAdd
<1>3. SizeOf({t}) \in Nat \ {0}
  BY <1>1, BytesOne
<1>4. S \cup {t} \subseteq T
  BY <1>1
<1>5. SizeOf(S \cup {t}) <= SizeOf(T) /\ SizeOf(T) \in Nat /\ SizeOf(S) \in Nat
  BY <1>4, BytesRest, BytesType
<1>. QED BY <1>2, <1>3, <1>5

LEMMA BytesNone ==
  SizeOf({}) = 0
<1>1. BytesOf({}) = {}
  BY DEF BytesOf
<1>2. SizeOf({}) = Cardinality({})
  BY <1>1, BytesType
<1>. QED BY <1>2, FS_EmptySet

(***************************************************************************)
(* Evictions.                                                              *)
(***************************************************************************)

Before(t, H, r) == {x \in H : <<x, t>> \in r}

\* Among some entries there is an oldest.
LEMMA OldestOne ==
  ASSUME NEW H, H \subseteq Tensors, NEW r, Orders(r, H), NEW K, K \subseteq H, K # {}
  PROVE  \E t \in K : \A x \in K : <<x, t>> \notin r
<1>. DEFINE N == {SizeOf(Before(t, H, r)) : t \in K}
<1>1. \A t \in K : Before(t, H, r) \subseteq H /\ SizeOf(Before(t, H, r)) \in Nat
  BY BytesType DEF Before
<1>2. N \subseteq Nat /\ N # {}
  BY <1>1
<1>3. PICK n \in N : \A m \in N : <<m, n>> \notin OpToRel(<, Nat)
  <2>. HIDE DEF N
  <2>. QED BY <1>2, NatLessThanWellFounded, WFMin
<1>4. PICK t \in K : n = SizeOf(Before(t, H, r))
  OBVIOUS
<1>5. \A x \in K : ~(SizeOf(Before(x, H, r)) < n)
  BY <1>1, <1>3, <1>4 DEF OpToRel
<1>6. ASSUME NEW x \in K, <<x, t>> \in r
      PROVE  FALSE
  <2>1. Before(x, H, r) \subseteq Before(t, H, r)
    BY <1>6 DEF Before, Orders
  <2>2. x \in Before(t, H, r) /\ x \notin Before(x, H, r)
    BY <1>6 DEF Before, Orders
  <2>3. Before(t, H, r) \subseteq Tensors
    BY DEF Before
  <2>4. SizeOf(Before(x, H, r)) < SizeOf(Before(t, H, r))
    BY <2>1, <2>2, <2>3, BytesLess
  <2>. QED BY <1>4, <1>5, <2>4
<1>. QED BY <1>6

\* The victims are the oldest entries, and the others fit the budget.
LEMMA VictimsFit ==
  ASSUME NEW H, H \subseteq Tensors, NEW r, Orders(r, H),
         NEW gone, gone = LruVictims(H, r, SizeOf(H))
  PROVE  /\ gone \subseteq H
         /\ SizeOf(H \ gone) = SizeOf(H) - SizeOf(gone)
         /\ SizeOf(H \ gone) <= Budget
<1>. USE WeightManagerAssumption
<1>1. gone \subseteq H /\ \A t \in H : t \in gone <=> SizeOf(H) - SizeOf(Before(t, H, r)) > Budget
  BY DEF LruVictims, Before
<1>2. \A t \in H : /\ Before(t, H, r) \subseteq H
                   /\ SizeOf(H \ Before(t, H, r)) = SizeOf(H) - SizeOf(Before(t, H, r))
                   /\ SizeOf(Before(t, H, r)) \in Nat
  BY BytesRest DEF Before
<1>3. SizeOf(H \ gone) = SizeOf(H) - SizeOf(gone) /\ SizeOf(H) \in Nat /\ SizeOf(gone) \in Nat
  BY <1>1, BytesRest
\* Whatever is older than a victim is one.
<1>4. ASSUME NEW t \in gone, NEW x \in H, <<x, t>> \in r
      PROVE  x \in gone
  <2>1. Before(x, H, r) \subseteq Before(t, H, r)
    BY <1>1, <1>4 DEF Before, Orders
  <2>2. SizeOf(Before(x, H, r)) <= SizeOf(Before(t, H, r))
    BY <2>1, BytesRest DEF Before
  <2>3. t \in H /\ SizeOf(H) - SizeOf(Before(t, H, r)) > Budget
    BY <1>1
  <2>4. SizeOf(Before(x, H, r)) \in Nat /\ SizeOf(Before(t, H, r)) \in Nat
    BY <1>2, <2>3
  <2>5. SizeOf(H) - SizeOf(Before(x, H, r)) > Budget
    BY <1>3, <2>2, <2>3, <2>4
  <2>. QED BY <1>1, <2>5
<1>5. SizeOf(H \ gone) <= Budget
  <2>1. CASE H \ gone = {}
    <3>1. SizeOf(H \ gone) = SizeOf({})
      BY <2>1
    <3>. QED BY <3>1, BytesNone
  <2>2. CASE H \ gone # {}
    <3>1. PICK t \in H \ gone : \A x \in H \ gone : <<x, t>> \notin r
      BY <2>2, OldestOne
    <3>2. \A x \in gone : <<x, t>> \in r
      BY <1>1, <1>4, <3>1 DEF Orders
    <3>3. Before(t, H, r) = gone
      BY <1>1, <3>1, <3>2 DEF Before
    <3>4. ~(SizeOf(H) - SizeOf(gone) > Budget)
      BY <1>1, <3>1, <3>3
    <3>. QED BY <1>3, <3>4
  <2>. QED BY <2>1, <2>2
<1>. QED BY <1>1, <1>3, <1>5

\* Entries that fit the budget together with all newer ones stay.
LEMMA NewestStay ==
  ASSUME NEW H, H \subseteq Tensors, NEW r, Orders(r, H),
         NEW K, K \subseteq H, SizeOf(K) <= Budget,
         \A x \in K, y \in H : <<x, y>> \in r => y \in K
  PROVE  K \cap LruVictims(H, r, SizeOf(H)) = {}
<1>. USE WeightManagerAssumption
<1>. SUFFICES ASSUME NEW t \in K
              PROVE  ~(SizeOf(H) - SizeOf(Before(t, H, r)) > Budget)
  BY DEF LruVictims, Before
<1>1. H \ Before(t, H, r) \subseteq K
  BY DEF Before, Orders
<1>2. SizeOf(H \ Before(t, H, r)) <= SizeOf(K) /\ SizeOf(K) \in Nat
  BY <1>1, BytesRest
<1>3. Before(t, H, r) \subseteq H
  BY DEF Before
<1>4. SizeOf(H \ Before(t, H, r)) = SizeOf(H) - SizeOf(Before(t, H, r))
  BY <1>3, BytesRest
<1>5. SizeOf(H) \in Nat /\ SizeOf(Before(t, H, r)) \in Nat
  BY <1>3, BytesRest
<1>. QED BY <1>2, <1>4, <1>5

\* touch() makes an entry the newest.
LEMMA TouchOrders ==
  ASSUME CacheTypeOK, Orders(older, Hot), NEW t \in Tensors
  PROVE  /\ TouchedOrder(t) \subseteq (Hot \cup {t}) \X (Hot \cup {t})
         /\ Orders(TouchedOrder(t), Hot \cup {t})
         /\ \A x \in Hot \cup {t} : <<t, x>> \notin TouchedOrder(t)
         /\ \A x, y \in Hot \ {t} : <<x, y>> \in TouchedOrder(t) <=> <<x, y>> \in older
<1>1. \A x, y : <<x, y>> \in TouchedOrder(t) <=>
                   \/ <<x, y>> \in older /\ x # t /\ y # t
                   \/ x \in Hot \ {t} /\ y = t
  BY DEF TouchedOrder, Dropping
<1>2. TouchedOrder(t) \subseteq (Hot \cup {t}) \X (Hot \cup {t})
  BY DEF TouchedOrder, Dropping, CacheTypeOK
<1>3. Orders(TouchedOrder(t), Hot \cup {t})
  BY <1>1 DEF Orders, CacheTypeOK
<1>. QED BY <1>1, <1>2, <1>3 DEF Orders


(***************************************************************************)
(* The steps.                                                              *)
(***************************************************************************)

\* Init and open() leave an empty cache and nothing held.
LEMMA OpenedIsEmpty ==
  WInit => CacheIInv
<1>. USE WeightManagerAssumption
<1>. SUFFICES ASSUME WInit
              PROVE  CacheIInv
  OBVIOUS
<1>. USE DEF WInit
<1>1. tier \in [Tensors -> {"resident", "hot", "cold"}] /\ Hot = {}
  BY DEF Opened, Hot
<1>2. \A t \in Tensors : tier[t] = "resident" => data[t] # "empty"
  BY DEF Opened
<1>3. older = {} /\ lru_used = 0
  BY DEF Opened
<1>4. CacheTypeOK
  BY <1>1, <1>2, <1>3 DEF CacheTypeOK, Opened
<1>5. SizeOf(Hot) = 0
  BY <1>1, BytesNone
<1>6. Orders(older, Hot) /\ CacheBooks
  BY <1>1, <1>3, <1>5 DEF Orders, CacheBooks
<1>7. HeldIsRecent
  BY DEF HeldIsRecent, Evictable
<1>. QED BY <1>4, <1>6, <1>7 DEF CacheIInv

\* A hit: the entry becomes the newest, and what the caller holds with it stays
\* ahead of the others.
LEMMA HitStep ==
  ASSUME CacheIInv, NEW t \in Tensors, GetHot(t)
  PROVE  CacheIInv'
<1>. USE DEF GetHot, TakeRef
<1>1. Hot' = Hot /\ Hot \cup {t} = Hot /\ Hot \subseteq Tensors
  BY DEF Hot
<1>2. CacheTypeOK /\ Orders(older, Hot) /\ CacheBooks /\ HeldIsRecent
  BY DEF CacheIInv
<1>3. /\ older' \subseteq Hot \X Hot
      /\ Orders(older', Hot)
      /\ \A x \in Hot : <<t, x>> \notin older'
      /\ \A x, y \in Hot \ {t} : <<x, y>> \in older' <=> <<x, y>> \in older
  BY <1>1, <1>2, TouchOrders
<1>4. CacheTypeOK'
  BY <1>1, <1>2, <1>3 DEF CacheTypeOK
<1>5. Orders(older, Hot)'
  BY <1>1, <1>3 DEF Orders
<1>6. SizeOf(Hot)' = SizeOf(Hot)
  BY <1>1 DEF SizeOf
<1>7. CacheBooks'
  BY <1>1, <1>2, <1>6 DEF CacheBooks
<1>8. HeldIsRecent'
  <2>1. Evictable' = Evictable \cup {t} /\ Evictable \subseteq Tensors
    BY <1>2 DEF Evictable, CacheTypeOK
  <2>2. SizeOf(Evictable)' = SizeOf(Evictable \cup {t})
    BY <2>1 DEF SizeOf
  <2>3. SizeOf(Evictable) <= SizeOf(Evictable \cup {t}) /\ SizeOf(Evictable) \in Nat /\ SizeOf(Evictable \cup {t}) \in Nat
    BY <2>1, BytesRest
  <2>4. SUFFICES ASSUME SizeOf(Evictable \cup {t}) <= Budget
                 PROVE  /\ Evictable' \subseteq Hot
                        /\ \A x \in Evictable', y \in Hot : <<x, y>> \in older' => y \in Evictable'
    BY <1>1, <2>2 DEF HeldIsRecent
  <2>5. SizeOf(Evictable) <= Budget
    BY <2>3, <2>4, WeightManagerAssumption
  <2>. QED BY <1>1, <1>2, <1>3, <2>1, <2>5 DEF HeldIsRecent
<1>. QED BY <1>4, <1>5, <1>7, <1>8 DEF CacheIInv

\* A miss: the entry comes in as the newest, the oldest leave until the rest
\* fits, and what the caller holds with it is never among them if it fits.
LEMMA MissStep ==
  ASSUME CacheIInv, NEW t \in Tensors, GetCold(t)
  PROVE  CacheIInv'
<1>. USE WeightManagerAssumption
<1>0. PICK H : H = Hot \cup {t}
  OBVIOUS
<1>1. CacheTypeOK /\ Orders(older, Hot) /\ CacheBooks /\ HeldIsRecent
  BY DEF CacheIInv
<1>2. t \notin Hot /\ H \subseteq Tensors /\ held' = held \cup {t}
  BY <1>0 DEF GetCold, Hot, TakeRef
<1>3. SizeOf(H) = lru_used + Size[t]
  <2>1. Hot \subseteq Tensors /\ {t} \subseteq Tensors /\ Hot \cap {t} = {}
    BY <1>2 DEF Hot
  <2>2. SizeOf(Hot \cup {t}) = SizeOf(Hot) + SizeOf({t})
    BY <2>1, BytesAdd
  <2>3. SizeOf({t}) = Size[t] /\ lru_used = SizeOf(Hot)
    BY <1>1, BytesOne DEF CacheBooks
  <2>4. SizeOf(H) = SizeOf(Hot \cup {t})
    BY <1>0
  <2>. QED BY <2>2, <2>3, <2>4
<1>4. PICK d \in {"good", "torn"} : Enter(t, d)
  BY DEF GetCold
<1>5. PICK r : r = TouchedOrder(t)
  OBVIOUS
<1>6. PICK gone : gone = LruVictims(H, r, SizeOf(H))
  OBVIOUS
<1>7. /\ older' = Dropping(r, gone)
      /\ lru_used' = SizeOf(H) - SizeOf(gone)
      /\ data' = [x \in Tensors |-> IF x \in gone THEN "empty" ELSE IF x = t THEN d ELSE data[x]]
      /\ tier' = [x \in Tensors |-> IF x \in gone THEN "cold" ELSE IF x = t THEN "hot" ELSE tier[x]]
  BY <1>0, <1>3, <1>4, <1>5, <1>6 DEF Enter
<1>8. /\ r \subseteq H \X H
      /\ Orders(r, H)
      /\ \A x \in H : <<t, x>> \notin r
      /\ \A x, y \in Hot \ {t} : <<x, y>> \in r <=> <<x, y>> \in older
  BY <1>0, <1>1, <1>5, TouchOrders
<1>9. /\ gone \subseteq H
      /\ SizeOf(H \ gone) = SizeOf(H) - SizeOf(gone)
      /\ SizeOf(H \ gone) <= Budget
  BY <1>2, <1>6, <1>8, VictimsFit
<1>11. Hot' = H \ gone
  BY <1>0, <1>2, <1>7, <1>9 DEF Hot
<1>12. CacheTypeOK'
  <2>1. older' \subseteq (H \ gone) \X (H \ gone)
    BY <1>7, <1>8 DEF Dropping
  <2>2. tier' \in [Tensors -> {"resident", "hot", "cold"}]
    BY <1>1, <1>7 DEF CacheTypeOK
  <2>3. data' \in [Tensors -> {"empty", "good", "torn"}]
    BY <1>1, <1>7 DEF CacheTypeOK
  <2>4. held' \subseteq Tensors
    BY <1>1, <1>2 DEF CacheTypeOK
  <2>5. \A x \in Tensors : tier'[x] = "resident" => data'[x] # "empty"
    BY <1>1, <1>7 DEF CacheTypeOK
  <2>. QED BY <1>11, <2>1, <2>2, <2>3, <2>4, <2>5 DEF CacheTypeOK
<1>13. Orders(older, Hot)'
  <2>1. Orders(older', H \ gone)
    BY <1>7, <1>8 DEF Orders, Dropping
  <2>. QED BY <1>11, <2>1 DEF Orders
<1>14. CacheBooks'
  <2>1. SizeOf(Hot)' = SizeOf(H \ gone)
    BY <1>11 DEF SizeOf
  <2>2. \A x \in H \ gone : data'[x] # "empty"
    BY <1>0, <1>1, <1>2, <1>7 DEF CacheBooks, Hot
  <2>. QED BY <1>7, <1>9, <1>11, <2>1, <2>2 DEF CacheBooks
<1>15. HeldIsRecent'
  <2>1. Evictable' = Evictable \cup {t} /\ Evictable \subseteq Tensors
    <3>1. \A x \in Tensors : tier'[x] = "resident" <=> tier[x] = "resident"
      BY <1>0, <1>7, <1>9 DEF Hot, GetCold
    <3>2. tier[t] # "resident" /\ held \subseteq Tensors
      BY <1>1 DEF GetCold, CacheTypeOK
    <3>. QED BY <1>2, <3>1, <3>2 DEF Evictable
  <2>2. PICK K : K = Evictable \cup {t}
    OBVIOUS
  <2>3. SizeOf(Evictable)' = SizeOf(K)
    BY <2>1, <2>2 DEF SizeOf
  <2>4. SizeOf(Evictable) <= SizeOf(K) /\ SizeOf(Evictable) \in Nat /\ SizeOf(K) \in Nat
    BY <2>1, <2>2, BytesRest
  <2>5. SUFFICES ASSUME SizeOf(K) <= Budget
                 PROVE  /\ K \subseteq H \ gone
                        /\ \A x \in K, y \in H \ gone : <<x, y>> \in older' => y \in K
    BY <1>11, <2>1, <2>2, <2>3 DEF HeldIsRecent
  <2>6. Evictable \subseteq Hot /\ \A x \in Evictable, y \in Hot : <<x, y>> \in older => y \in Evictable
    BY <1>1, <2>4, <2>5 DEF HeldIsRecent
  <2>7. K \in SUBSET H /\ \A x \in K, y \in H : <<x, y>> \in r => y \in K
    BY <1>0, <1>2, <1>8, <2>2, <2>6
  <2>8. K \cap gone = {}
    <3>1. K \subseteq H /\ SizeOf(K) <= Budget /\ Orders(r, H) /\ H \subseteq Tensors
      BY <1>2, <1>8, <2>5, <2>7
    <3>2. K \cap LruVictims(H, r, SizeOf(H)) = {}
      BY <2>7, <3>1, NewestStay
    <3>. QED BY <1>6, <3>2
  <2>. QED BY <1>7, <2>7, <2>8 DEF Dropping
<1>. QED BY <1>12, <1>13, <1>14, <1>15 DEF CacheIInv


\* release_prefix gives up entries while the caller holds none.
LEMMA ReleaseStep ==
  ASSUME CacheIInv, NEW P \in SUBSET Tensors, ReleasePrefix(P)
  PROVE  CacheIInv'
<1>. USE WeightManagerAssumption
<1>1. CacheTypeOK /\ Orders(older, Hot) /\ CacheBooks /\ held = {} /\ held' = {}
  BY DEF CacheIInv, ReleasePrefix
<1>2. PICK gone : gone = {t \in P : tier[t] # "resident" /\ data[t] # "empty"}
  OBVIOUS
<1>3. /\ data' = [t \in Tensors |-> IF t \in gone THEN "empty" ELSE data[t]]
      /\ tier' = [t \in Tensors |-> IF t \in gone THEN "cold" ELSE tier[t]]
      /\ older' = Dropping(older, gone)
      /\ lru_used' = lru_used - SizeOf({t \in gone : tier[t] = "hot"})
  BY <1>2 DEF ReleasePrefix
<1>4. Hot' = Hot \ gone
  BY <1>3 DEF Hot
<1>5. CacheTypeOK'
  <2>1. older' \subseteq (Hot \ gone) \X (Hot \ gone)
    BY <1>1, <1>3 DEF Dropping, CacheTypeOK
  <2>2. tier' \in [Tensors -> {"resident", "hot", "cold"}]
    BY <1>1, <1>3 DEF CacheTypeOK
  <2>3. data' \in [Tensors -> {"empty", "good", "torn"}]
    BY <1>1, <1>3 DEF CacheTypeOK
  <2>4. \A x \in Tensors : tier'[x] = "resident" => data'[x] # "empty"
    BY <1>1, <1>3 DEF CacheTypeOK
  <2>. QED BY <1>1, <1>4, <2>1, <2>2, <2>3, <2>4 DEF CacheTypeOK
<1>6. Orders(older, Hot)'
  <2>1. Orders(older', Hot \ gone)
    BY <1>1, <1>3 DEF Orders, Dropping
  <2>. QED BY <1>4, <2>1 DEF Orders
<1>7. CacheBooks'
  <2>1. PICK G : G = Hot \cap gone
    OBVIOUS
  <2>2. {t \in gone : tier[t] = "hot"} = G
    BY <1>2, <2>1 DEF Hot
  <2>3. lru_used' = lru_used - SizeOf(G)
    BY <1>3, <2>2
  <2>4. G \subseteq Hot /\ Hot \subseteq Tensors
    BY <2>1 DEF Hot
  <2>5. SizeOf(Hot \ G) = SizeOf(Hot) - SizeOf(G) /\ SizeOf(G) \in Nat /\ SizeOf(Hot) \in Nat
    BY <2>4, BytesRest
  <2>6. SizeOf(Hot)' = SizeOf(Hot \ G)
    <3>1. Hot' = Hot \ G
      BY <1>4, <2>1
    <3>. QED BY <3>1 DEF SizeOf
  <2>7. \A x \in Hot' : data'[x] # "empty"
    BY <1>1, <1>3, <1>4 DEF CacheBooks, Hot
  <2>8. lru_used = SizeOf(Hot) /\ lru_used <= Budget
    BY <1>1 DEF CacheBooks
  <2>9. lru_used' = SizeOf(Hot)' /\ lru_used' <= Budget
    BY <2>3, <2>5, <2>6, <2>8
  <2>. QED BY <2>7, <2>9 DEF CacheBooks
<1>8. HeldIsRecent'
  BY <1>1 DEF HeldIsRecent, Evictable
<1>. QED BY <1>5, <1>6, <1>7, <1>8 DEF CacheIInv

\* When only data that is not in the cache changes, and the caller holds what it
\* held or nothing, all stays as it was.
LEMMA QuietStep ==
  ASSUME CacheIInv, UNCHANGED <<tier, older, lru_used>>,
         data' \in [Tensors -> {"empty", "good", "torn"}],
         \A t \in Tensors : data[t] # "empty" => data'[t] # "empty",
         held' \subseteq Tensors,
         held' = {} \/ Evictable' = Evictable
  PROVE  CacheIInv'
<1>1. Hot' = Hot
  BY DEF Hot
<1>2. SizeOf(Hot)' = SizeOf(Hot)
  BY <1>1 DEF SizeOf
<1>3. CacheTypeOK /\ Orders(older, Hot) /\ CacheBooks /\ HeldIsRecent
  BY DEF CacheIInv
<1>4. CacheTypeOK'
  BY <1>1, <1>3 DEF CacheTypeOK
<1>5. Orders(older, Hot)'
  BY <1>1, <1>3 DEF Orders
<1>6. CacheBooks'
  BY <1>1, <1>2, <1>3 DEF CacheBooks, Hot
<1>7. HeldIsRecent'
  <2>1. CASE held' = {}
    BY <2>1 DEF HeldIsRecent, Evictable
  <2>2. CASE Evictable' = Evictable
    <3>1. SizeOf(Evictable)' = SizeOf(Evictable)
      BY <2>2 DEF SizeOf
    <3>. QED BY <1>1, <1>3, <2>2, <3>1 DEF HeldIsRecent
  <2>. QED BY <2>1, <2>2
<1>. QED BY <1>4, <1>5, <1>6, <1>7 DEF CacheIInv

LEMMA CacheStep ==
  CacheIInv /\ [WNext]_(wvars) => CacheIInv'
<1>. SUFFICES ASSUME CacheIInv, [WNext]_(wvars)
              PROVE  CacheIInv'
  OBVIOUS
<1>. USE WeightManagerAssumption
<1>0. CacheTypeOK
  BY DEF CacheIInv
<1>1. ASSUME NEW t \in Tensors, GetResident(t)
      PROVE  CacheIInv'
  <2>1. Evictable' = Evictable
    BY <1>1 DEF GetResident, TakeRef, Evictable
  <2>. QED BY <1>0, <1>1, <2>1, QuietStep DEF GetResident, TakeRef, CacheTypeOK
<1>2. ASSUME NEW t \in Tensors, GetColdFails(t)
      PROVE  CacheIInv'
  BY <1>0, <1>2, QuietStep DEF GetColdFails, CacheTypeOK
<1>3. CASE Use
  BY <1>0, <1>3, QuietStep DEF Use, CacheTypeOK
<1>4. CASE Reopen
  <2>1. WInit' => CacheIInv'
    BY OpenedIsEmpty, PTL
  <2>2. WInit'
    BY <1>4 DEF Reopen, WInit, Opened
  <2>. QED BY <2>1, <2>2
<1>5. CASE UNCHANGED wvars
  <2>1. Evictable' = Evictable
    BY <1>5 DEF wvars, Evictable
  <2>. QED BY <1>0, <1>5, <2>1, QuietStep DEF wvars, CacheTypeOK
<1>. QED BY <1>1, <1>2, <1>3, <1>4, <1>5, HitStep, MissStep, ReleaseStep DEF WNext

\* Whatever is asked for, in whatever order, and whichever reads fail, the
\* cache's books, order and contents fit together.
THEOREM CacheInvariant ==
  WSpec => []CacheIInv
BY OpenedIsEmpty, CacheStep, PTL DEF WSpec

\* lru_used_ is what the cache holds, the cache is within its budget when get()
\* has returned, and its entries have their bytes (weight_manager.cpp:96-146).
THEOREM BooksStayExact ==
  WSpec => []CacheExact
<1>1. CacheIInv => CacheExact
  BY DEF CacheIInv, CacheBooks, Orders, CacheExact, CacheTypeOK
<1>. QED BY <1>1, CacheInvariant, PTL

\* References taken together that fit the budget are all still loaded when they
\* are used (weight_manager.cpp:143-145, moe_model.cpp:345-347).
THEOREM HeldReferencesStay ==
  WSpec => []HeldStaysLoaded
<1>1. CacheIInv => HeldStaysLoaded
  BY DEF CacheIInv, CacheTypeOK, CacheBooks, HeldIsRecent, HeldStaysLoaded, Evictable
<1>. QED BY <1>1, CacheInvariant, PTL
=============================================================================
