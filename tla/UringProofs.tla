----------------------------- MODULE UringProofs -----------------------------
(***************************************************************************)
(* Theorems about UringIoEngine for any number of clients and requests and *)
(* any depth of the ring.                                                  *)
(***************************************************************************)
EXTENDS UringEngine, FiniteSetTheorems, TLAPS

(***************************************************************************)
(* The inductive invariant: where a request can be, how many inflight_     *)
(* counts, and what that says of a request's history.                      *)
(***************************************************************************)

\* The entries of a sequence, and that none occurs twice.
Entries(s) == {s[i] : i \in 1..Len(s)}
Distinct(s) == \A i, k \in 1..Len(s) : s[i] = s[k] => i = k

\* The same of the requests in a sequence of completions.
Completed(s) == {s[i].job : i \in 1..Len(s)}
DistinctJobs(s) == \A i, k \in 1..Len(s) : s[i].job = s[k].job => i = k

Results == Int

\* Types; submitted requests are the owned ones.
TypeOK ==
  /\ q \in Seq(Jobs) /\ sq \in Seq(Jobs)
  /\ cq \in Seq([job : Jobs, res : Results])
  /\ kernel \subseteq Jobs
  /\ pc \in {"top", "fill", "sqe", "enter", "peek", "wait", "count", "call",
             "called", "exited"}
  /\ cur \in Jobs \cup {NoJob}
  /\ did \in BOOLEAN /\ idle \in BOOLEAN
  /\ cpc \in [Clients -> {"out", "drain", "sleep", "passed"}]
  /\ life \in {"open", "stopping", "gone"}
  /\ owner \in [Jobs -> Clients \cup {NoClient}]
  /\ result \in [Jobs -> {"none", "ok", "failed"}]
  /\ calls \in [Jobs -> Nat]
  /\ got \in [Jobs -> Results]
  /\ DOMAIN bounce = Jobs /\ \A j \in Jobs : DOMAIN bounce[j] = 0..ReadLen(j) - 1
  /\ DOMAIN dst = Jobs /\ \A j \in Jobs : DOMAIN dst[j] = 0..NBytes[j] - 1

\* The request in the thread's hands, and the one it has still to prepare.
Hand == IF pc \in {"sqe", "count", "call", "called"} THEN {cur} ELSE {}
Popped == IF pc = "sqe" THEN {cur} ELSE {}

\* What inflight_ stands for: the ring and the request that is entering or
\* leaving it (io_engine_uring.cpp:123 against :199).
Counted == Ring \cup Holding
InflightExact == IsFiniteSet(Counted) /\ inflight = Cardinality(Counted)

\* A request is in one place: the deque, one of the rings, the kernel or the
\* thread's hands, and there once.
Custody ==
  /\ Distinct(q) /\ Distinct(sq) /\ DistinctJobs(cq)
  /\ cur \in Jobs <=> pc \in {"sqe", "count", "call", "called"}
  /\ Entries(q) \cap (Ring \cup Hand) = {}
  /\ Ring \cap Hand = {}
  /\ Entries(sq) \cap kernel = {}
  /\ Entries(sq) \cap Completed(cq) = {}
  /\ kernel \cap Completed(cq) = {}

\* Its history agrees with the place; nothing submitted is ever nowhere.
HistoryOfPlace ==
  /\ \A j \in Entries(q) \cup Ring \cup Hand : owner[j] # NoClient
  /\ \A j \in Entries(q) \cup Ring \cup Popped : result[j] = "none" /\ calls[j] = 0
  /\ pc \in {"count", "call"} => result[cur] # "none" /\ calls[cur] = 0
  /\ pc = "called" => result[cur] # "none" /\ calls[cur] = 1
  /\ \A j \in Jobs : owner[j] = NoClient => result[j] = "none" /\ calls[j] = 0
  /\ \A j \in Jobs : owner[j] # NoClient =>
       j \in Entries(q) \cup Ring \cup Hand \/ calls[j] = 1

\* A completion carries what the kernel delivered, which is possible for it.
Delivered ==
  \A i \in 1..Len(cq) : cq[i].res = got[cq[i].job] /\ cq[i].res \in Outcomes(cq[i].job)

\* Whatever the kernel reported to have read is in the buffer it was given.
Contents ==
  \A j \in Jobs : \A i \in 0..got[j] - 1 :
    IF Direct(j) THEN dst[j][i] = Start(j) + i ELSE bounce[j][i] = Start(j) + i

\* The thread leaves only when stopped with nothing queued or counted.
ExitedMeansDrained ==
  /\ pc = "exited" => Stop /\ DrainDone
  /\ life = "gone" => pc = "exited"

IInv ==
  /\ TypeOK
  /\ InflightExact
  /\ Custody
  /\ HistoryOfPlace
  /\ Delivered
  /\ Contents
  /\ ResultIsTrue
  /\ ExitedMeansDrained

(***************************************************************************)
(* What is asked of the kernel for a request.                              *)
(***************************************************************************)

\* Rounding moves an address by less than a block, in the right direction.
LEMMA Rounding ==
  ASSUME NEW v \in Nat
  PROVE  /\ AlignDn(v) \in Nat /\ AlignDn(v) <= v
         /\ AlignUp(v) \in Nat /\ AlignUp(v) >= v
<1>1. ASSUME NEW w \in Nat PROVE w % Align \in 0..Align - 1 /\ w % Align <= w
  <2>1. Align \in Nat /\ Align > 0
    BY UringAssumption
  <2>2. w % Align \in 0..Align - 1 /\ w = Align * (w \div Align) + (w % Align)
    BY <2>1
  <2>3. w \div Align \in Nat
    BY <2>1
  <2>4. Align * (w \div Align) \in Nat
    BY <2>1, <2>3
  <2>. QED  BY <2>2, <2>4
<1>2. /\ v + Align - 1 \in Nat /\ Align \in Nat /\ Align > 0
  BY UringAssumption
<1>3. /\ v % Align \in 0..Align - 1 /\ v % Align <= v
      /\ (v + Align - 1) % Align \in 0..Align - 1
      /\ (v + Align - 1) % Align <= v + Align - 1
  BY <1>1, <1>2
<1>. QED  BY <1>2, <1>3 DEF AlignDn, AlignUp

\* The read covers the bytes wanted, and begins where they are CopyOff bytes on.
LEMMA Geometry ==
  ASSUME NEW j \in Jobs
  PROVE  /\ Offset[j] \in Nat /\ NBytes[j] \in Nat /\ FileSize \in Nat
         /\ Start(j) \in Nat /\ CopyOff(j) \in Nat /\ Offset[j] = Start(j) + CopyOff(j)
         /\ ReadLen(j) \in Nat /\ ReadLen(j) >= CopyOff(j) + NBytes[j]
         /\ Direct(j) => CopyOff(j) = 0 /\ ReadLen(j) = NBytes[j]
         /\ Available(j) \in Nat /\ Available(j) <= ReadLen(j)
         /\ Available(j) = ReadLen(j) \/ FileSize <= Start(j) + Available(j)
         /\ Outcomes(j) \subseteq Results
<1>1. Offset[j] \in Nat /\ NBytes[j] \in Nat /\ FileSize \in Nat
  BY UringAssumption
<1>2. /\ Start(j) \in Nat /\ CopyOff(j) \in Nat /\ Offset[j] = Start(j) + CopyOff(j)
      /\ Direct(j) => CopyOff(j) = 0
  BY <1>1, Rounding DEF Start, CopyOff
<1>3. /\ ReadLen(j) \in Nat /\ ReadLen(j) >= CopyOff(j) + NBytes[j]
      /\ Direct(j) => ReadLen(j) = NBytes[j]
  <2>1. CopyOff(j) + NBytes[j] \in Nat
    BY <1>1, <1>2
  <2>2. /\ AlignUp(CopyOff(j) + NBytes[j]) \in Nat
        /\ AlignUp(CopyOff(j) + NBytes[j]) >= CopyOff(j) + NBytes[j]
    BY <2>1, Rounding
  <2>. QED  BY <1>1, <1>2, <2>2 DEF ReadLen
<1>4. /\ Available(j) \in Nat /\ Available(j) <= ReadLen(j)
      /\ Available(j) = ReadLen(j) \/ FileSize <= Start(j) + Available(j)
  BY <1>1, <1>2, <1>3 DEF Available
<1>5. Outcomes(j) \subseteq Results
  BY <1>4 DEF Outcomes, Failed, Results
<1>. QED  BY <1>1, <1>2, <1>3, <1>4, <1>5

(***************************************************************************)
(* What the operations on the deque and the rings do to their entries.     *)
(***************************************************************************)

\* push_back of a new entry.
LEMMA AppendEntries ==
  ASSUME NEW S, NEW s \in Seq(S), NEW e \in S
  PROVE  /\ Append(s, e) \in Seq(S)
         /\ Entries(Append(s, e)) = Entries(s) \cup {e}
         /\ Distinct(s) /\ e \notin Entries(s) => Distinct(Append(s, e))
<1>1. /\ Append(s, e) \in Seq(S)  /\ Len(s) \in Nat
      /\ Len(Append(s, e)) = Len(s) + 1
      /\ \A i \in 1..Len(s) : Append(s, e)[i] = s[i]
      /\ Append(s, e)[Len(s) + 1] = e
  OBVIOUS
<1>2. Entries(Append(s, e)) = Entries(s) \cup {e}
  <2>1. \A i \in 1..Len(Append(s, e)) : i \in 1..Len(s) \/ i = Len(s) + 1
    BY <1>1
  <2>2. \A i \in 1..Len(s) : i \in 1..Len(Append(s, e))
    BY <1>1
  <2>3. Len(s) + 1 \in 1..Len(Append(s, e))
    BY <1>1
  <2>. QED  BY <1>1, <2>1, <2>2, <2>3 DEF Entries
<1>3. Distinct(s) /\ e \notin Entries(s) => Distinct(Append(s, e))
  BY <1>1 DEF Entries, Distinct
<1>. QED  BY <1>1, <1>2, <1>3

\* pop_front.
LEMMA TailEntries ==
  ASSUME NEW S, NEW s \in Seq(S), s # <<>>
  PROVE  /\ Tail(s) \in Seq(S) /\ Head(s) \in S
         /\ Head(s) \in Entries(s)
         /\ Distinct(s) => Distinct(Tail(s)) /\ Entries(Tail(s)) = Entries(s) \ {Head(s)}
<1>1. /\ Tail(s) \in Seq(S)  /\ Head(s) \in S  /\ Head(s) = s[1]
      /\ Len(s) \in Nat /\ Len(s) >= 1 /\ Len(Tail(s)) = Len(s) - 1
      /\ \A i \in 1..Len(Tail(s)) : Tail(s)[i] = s[i + 1]
  OBVIOUS
<1>2. Head(s) \in Entries(s)
  BY <1>1 DEF Entries
<1>3. ASSUME Distinct(s)
      PROVE  Distinct(Tail(s)) /\ Entries(Tail(s)) = Entries(s) \ {Head(s)}
  <2>1. Distinct(Tail(s))
    BY <1>1, <1>3 DEF Distinct
  <2>2. ASSUME NEW x \in Entries(Tail(s)) PROVE x \in Entries(s) \ {Head(s)}
    BY <1>1, <1>3 DEF Distinct, Entries
  <2>3. ASSUME NEW x \in Entries(s) \ {Head(s)} PROVE x \in Entries(Tail(s))
    <3>1. PICK i \in 1..Len(s) : x = s[i]
      BY DEF Entries
    <3>2. i - 1 \in 1..Len(Tail(s)) /\ x = Tail(s)[i - 1]
      BY <1>1, <2>3, <3>1
    <3>. QED  BY <3>2 DEF Entries
  <2>. QED  BY <2>1, <2>2, <2>3
<1>. QED  BY <1>1, <1>2, <1>3

\* push_front of a new entry.
LEMMA ConsEntries ==
  ASSUME NEW S, NEW s \in Seq(S), NEW e \in S
  PROVE  /\ <<e>> \o s \in Seq(S)
         /\ Entries(<<e>> \o s) = Entries(s) \cup {e}
         /\ Distinct(s) /\ e \notin Entries(s) => Distinct(<<e>> \o s)
<1> DEFINE t == <<e>> \o s
<1>1. /\ t \in Seq(S)  /\ Len(s) \in Nat  /\ Len(t) = Len(s) + 1
      /\ t[1] = e  /\ \A i \in 1..Len(s) : t[i + 1] = s[i]
  OBVIOUS
<1>2. \A i \in 1..Len(t) : i = 1 \/ (i - 1 \in 1..Len(s) /\ t[i] = s[i - 1])
  BY <1>1
<1>. HIDE DEF t
<1>3. Entries(t) = Entries(s) \cup {e}
  <2>1. ASSUME NEW x \in Entries(t) PROVE x \in Entries(s) \cup {e}
    BY <1>1, <1>2 DEF Entries
  <2>2. ASSUME NEW x \in Entries(s) \cup {e} PROVE x \in Entries(t)
    <3>1. CASE x = e  BY <1>1, <3>1 DEF Entries
    <3>2. CASE x \in Entries(s)
      <4>1. PICK i \in 1..Len(s) : x = s[i]
        BY <3>2 DEF Entries
      <4>2. i + 1 \in 1..Len(t) /\ x = t[i + 1]
        BY <1>1, <4>1
      <4>. QED  BY <4>2 DEF Entries
    <3>. QED  BY <3>1, <3>2
  <2>. QED  BY <2>1, <2>2
<1>4. ASSUME Distinct(s), e \notin Entries(s) PROVE Distinct(t)
  <2>1. \A i \in 1..Len(s) : s[i] # e
    BY <1>4 DEF Entries
  <2>2. ASSUME NEW i \in 1..Len(t), NEW k \in 1..Len(t), t[i] = t[k] PROVE i = k
    <3>1. CASE i = 1 \/ k = 1  BY <1>1, <1>2, <2>1, <2>2, <3>1
    <3>2. CASE i # 1 /\ k # 1
      <4>1. s[i - 1] = s[k - 1] /\ i - 1 \in 1..Len(s) /\ k - 1 \in 1..Len(s)
        BY <1>2, <2>2, <3>2
      <4>. QED  BY <1>4, <4>1 DEF Distinct
    <3>. QED  BY <3>1, <3>2
  <2>. QED  BY <2>2 DEF Distinct
<1>. QED  BY <1>1, <1>3, <1>4 DEF t

\* A completion is queued.
LEMMA AppendCompleted ==
  ASSUME NEW s \in Seq([job : Jobs, res : Results]),
         NEW e \in [job : Jobs, res : Results]
  PROVE  /\ Append(s, e) \in Seq([job : Jobs, res : Results])
         /\ Completed(Append(s, e)) = Completed(s) \cup {e.job}
         /\ DistinctJobs(s) /\ e.job \notin Completed(s) => DistinctJobs(Append(s, e))
<1>1. /\ Append(s, e) \in Seq([job : Jobs, res : Results])  /\ Len(s) \in Nat
      /\ Len(Append(s, e)) = Len(s) + 1
      /\ \A i \in 1..Len(s) : Append(s, e)[i] = s[i]
      /\ Append(s, e)[Len(s) + 1] = e
  OBVIOUS
<1>2. \A i \in 1..Len(Append(s, e)) : i \in 1..Len(s) \/ i = Len(s) + 1
  BY <1>1
<1>3. \A i \in 1..Len(s) : i \in 1..Len(Append(s, e))
  BY <1>1
<1>4. Len(s) + 1 \in 1..Len(Append(s, e))
  BY <1>1
<1>5. Completed(Append(s, e)) = Completed(s) \cup {e.job}
  BY <1>1, <1>2, <1>3, <1>4 DEF Completed
<1>6. DistinctJobs(s) /\ e.job \notin Completed(s) => DistinctJobs(Append(s, e))
  BY <1>1, <1>2 DEF Completed, DistinctJobs
<1>. QED  BY <1>1, <1>5, <1>6

\* The oldest completion is taken.
LEMMA TailCompleted ==
  ASSUME NEW s \in Seq([job : Jobs, res : Results]), s # <<>>
  PROVE  /\ Tail(s) \in Seq([job : Jobs, res : Results])
         /\ Head(s) \in [job : Jobs, res : Results]
         /\ Head(s) = s[1] /\ 1 \in 1..Len(s)
         /\ Head(s).job \in Completed(s)
         /\ \A i \in 1..Len(Tail(s)) : i + 1 \in 1..Len(s) /\ Tail(s)[i] = s[i + 1]
         /\ DistinctJobs(s) =>
              /\ DistinctJobs(Tail(s))
              /\ Completed(Tail(s)) = Completed(s) \ {Head(s).job}
<1>1. /\ Tail(s) \in Seq([job : Jobs, res : Results])
      /\ Head(s) \in [job : Jobs, res : Results]
      /\ Head(s) = s[1]
      /\ Len(s) \in Nat /\ Len(s) >= 1 /\ Len(Tail(s)) = Len(s) - 1
      /\ \A i \in 1..Len(Tail(s)) : Tail(s)[i] = s[i + 1]
  <2>1. ASSUME NEW S, s \in Seq(S)
        PROVE  /\ Tail(s) \in Seq(S)  /\ Head(s) \in S  /\ Head(s) = s[1]
               /\ Len(s) \in Nat /\ Len(s) >= 1 /\ Len(Tail(s)) = Len(s) - 1
               /\ \A i \in 1..Len(Tail(s)) : Tail(s)[i] = s[i + 1]
    BY <2>1
  <2>. QED  BY <2>1, Zenon
<1>2. /\ Head(s).job \in Completed(s) /\ 1 \in 1..Len(s)
      /\ \A i \in 1..Len(Tail(s)) : i + 1 \in 1..Len(s)
  BY <1>1 DEF Completed
<1>3. ASSUME DistinctJobs(s)
      PROVE  DistinctJobs(Tail(s)) /\ Completed(Tail(s)) = Completed(s) \ {Head(s).job}
  <2>1. DistinctJobs(Tail(s))
    BY <1>1, <1>3 DEF DistinctJobs
  <2>2. ASSUME NEW x \in Completed(Tail(s)) PROVE x \in Completed(s) \ {Head(s).job}
    BY <1>1, <1>3 DEF DistinctJobs, Completed
  <2>3. ASSUME NEW x \in Completed(s) \ {Head(s).job} PROVE x \in Completed(Tail(s))
    <3>1. PICK i \in 1..Len(s) : x = s[i].job
      BY DEF Completed
    <3>2. i - 1 \in 1..Len(Tail(s)) /\ x = Tail(s)[i - 1].job
      BY <1>1, <2>3, <3>1
    <3>. QED  BY <3>2 DEF Completed
  <2>. QED  BY <2>1, <2>2, <2>3
<1>. QED  BY <1>1, <1>2, <1>3

(***************************************************************************)
(* Where each step of the thread and of the kernel moves a request.        *)
(***************************************************************************)

\* The ring is what was prepared, what the kernel has and what it completed.
LEMMA RingParts == Ring = Entries(sq) \cup kernel \cup Completed(cq)
BY DEF Ring, Entries, Completed

\* Only requests are ever queued or in the ring.
LEMMA PlacesAreJobs ==
  ASSUME TypeOK
  PROVE  Entries(q) \subseteq Jobs /\ Ring \subseteq Jobs
<1>1. Entries(q) \subseteq Jobs /\ Entries(sq) \subseteq Jobs
  BY DEF TypeOK, Entries
<1>2. ASSUME NEW i \in 1..Len(cq) PROVE cq[i].job \in Jobs
  <2>1. ASSUME NEW S, cq \in Seq(S) PROVE cq[i] \in S
    BY <2>1
  <2>2. cq[i] \in [job : Jobs, res : Results]
    BY <2>1 DEF TypeOK
  <2>. QED  BY <2>2
<1>3. Completed(cq) \subseteq Jobs
  BY <1>2 DEF Completed
<1>. QED  BY <1>1, <1>3, RingParts DEF TypeOK

\* Steps that leave the ring variables alone leave the ring alone.
LEMMA RingFrame ==
  ASSUME UNCHANGED ringVars
  PROVE  Ring' = Ring
BY DEF ringVars, Ring

\* try_submit_one takes the front of the deque into the thread's hands.
LEMMA PopMoves ==
  ASSUME IInv, Pop
  PROVE  /\ Head(q) \in Jobs /\ Head(q) \in Entries(q) /\ q' \in Seq(Jobs)
         /\ Entries(q') = Entries(q) \ {Head(q)} /\ Distinct(q')
         /\ Ring' = Ring
         /\ Hand = {} /\ Holding = {} /\ Popped = {}
         /\ Hand' = {Head(q)} /\ Holding' = {Head(q)} /\ Popped' = {Head(q)}
<1> USE DEF IInv, TypeOK, Custody
<1>1. q \in Seq(Jobs) /\ q # <<>> /\ q' = Tail(q) /\ Distinct(q)
  BY DEF Pop
<1>2. /\ Head(q) \in Jobs /\ Head(q) \in Entries(q) /\ q' \in Seq(Jobs)
      /\ Entries(q') = Entries(q) \ {Head(q)} /\ Distinct(q')
  BY <1>1, TailEntries
<1>3. Ring' = Ring
  BY RingFrame DEF Pop
<1>. QED  BY <1>2, <1>3 DEF Pop, Hand, Holding, Popped

\* A free entry: from the thread's hands into the ring.
LEMMA PrepareMoves ==
  ASSUME IInv, Prepare
  PROVE  /\ cur \in Jobs /\ sq' \in Seq(Jobs)
         /\ Entries(sq') = Entries(sq) \cup {cur} /\ Distinct(sq')
         /\ Ring' = Ring \cup {cur}
         /\ Hand = {cur} /\ Holding = {cur} /\ Popped = {cur}
         /\ Hand' = {} /\ Holding' = {} /\ Popped' = {}
<1> USE DEF IInv, TypeOK, Custody
<1>1. cur \in Jobs /\ sq \in Seq(Jobs) /\ sq' = Append(sq, cur)
  BY DEF Prepare
<1>2. Hand = {cur} /\ Holding = {cur} /\ Popped = {cur}
  BY DEF Prepare, Hand, Holding, Popped
<1>3. Hand' = {} /\ Holding' = {} /\ Popped' = {}
  BY DEF Prepare, Hand, Holding, Popped
<1>4. cur \notin Entries(sq)
  BY <1>2, RingParts
<1>5. sq' \in Seq(Jobs) /\ Entries(sq') = Entries(sq) \cup {cur} /\ Distinct(sq')
  BY <1>1, <1>4, AppendEntries
<1>6. Ring' = Ring \cup {cur}
  <2>1. Ring' = Entries(sq') \cup kernel \cup Completed(cq)
    BY DEF Prepare, Ring, Entries, Completed
  <2>. QED  BY <1>5, <2>1, RingParts
<1>. QED  BY <1>1, <1>2, <1>3, <1>5, <1>6

\* A full ring: back to the front of the deque.
LEMMA PutBackMoves ==
  ASSUME IInv, PutBack
  PROVE  /\ cur \in Jobs /\ q' \in Seq(Jobs)
         /\ Entries(q') = Entries(q) \cup {cur} /\ Distinct(q')
         /\ Ring' = Ring
         /\ Hand = {cur} /\ Holding = {cur} /\ Popped = {cur}
         /\ Hand' = {} /\ Holding' = {} /\ Popped' = {}
<1> USE DEF IInv, TypeOK, Custody
<1>1. cur \in Jobs /\ q \in Seq(Jobs) /\ q' = <<cur>> \o q
  BY DEF PutBack
<1>2. Hand = {cur} /\ Holding = {cur} /\ Popped = {cur}
  BY DEF PutBack, Hand, Holding, Popped
<1>3. Hand' = {} /\ Holding' = {} /\ Popped' = {}
  BY DEF PutBack, Hand, Holding, Popped
<1>4. cur \notin Entries(q)
  BY <1>2
<1>5. q' \in Seq(Jobs) /\ Entries(q') = Entries(q) \cup {cur} /\ Distinct(q')
  BY <1>1, <1>4, ConsEntries
<1>6. Ring' = Ring
  BY RingFrame DEF PutBack
<1>. QED  BY <1>1, <1>2, <1>3, <1>5, <1>6

\* What is left of a sequence after its first n entries.
LEMMA SplitEntries ==
  ASSUME NEW S, NEW s \in Seq(S), NEW n \in 0..Len(s)
  PROVE  /\ SubSeq(s, n + 1, Len(s)) \in Seq(S)
         /\ Entries(s) = {s[i] : i \in 1..n} \cup Entries(SubSeq(s, n + 1, Len(s)))
         /\ Distinct(s) =>
              /\ Distinct(SubSeq(s, n + 1, Len(s)))
              /\ {s[i] : i \in 1..n} \cap Entries(SubSeq(s, n + 1, Len(s))) = {}
<1> DEFINE t == SubSeq(s, n + 1, Len(s))
<1>1. /\ t \in Seq(S) /\ Len(s) \in Nat /\ Len(t) = Len(s) - n
      /\ \A i \in 1..Len(t) : t[i] = s[i + n]
  OBVIOUS
<1>. HIDE DEF t
<1>2. /\ \A i \in 1..Len(t) : i + n \in 1..Len(s) /\ i + n \notin 1..n
      /\ \A i \in 1..Len(s) : i \in 1..n \/ (i - n \in 1..Len(t) /\ t[i - n] = s[i])
      /\ 1..n \subseteq 1..Len(s)
  BY <1>1
<1>3. Entries(s) = {s[i] : i \in 1..n} \cup Entries(t)
  BY <1>1, <1>2 DEF Entries
<1>4. ASSUME Distinct(s) PROVE Distinct(t) /\ {s[i] : i \in 1..n} \cap Entries(t) = {}
  <2>1. Distinct(t)
    BY <1>1, <1>2, <1>4 DEF Distinct
  <2>2. ASSUME NEW i \in 1..n, NEW k \in 1..Len(t), s[i] = t[k] PROVE FALSE
    BY <1>1, <1>2, <1>4, <2>2 DEF Distinct
  <2>. QED  BY <2>1, <2>2 DEF Entries
<1>. QED  BY <1>1, <1>3, <1>4 DEF t

\* io_uring_submit: the first prepared entries go to the kernel.
LEMMA EnterMoves ==
  ASSUME IInv, Enter
  PROVE  /\ sq' \in Seq(Jobs) /\ kernel' \subseteq Jobs /\ Distinct(sq')
         /\ Entries(sq') \subseteq Entries(sq)
         /\ kernel' = kernel \cup (Entries(sq) \ Entries(sq'))
         /\ Ring' = Ring
         /\ Hand = {} /\ Holding = {} /\ Popped = {}
         /\ Hand' = {} /\ Holding' = {} /\ Popped' = {}
<1> USE DEF IInv, TypeOK, Custody
<1>1. Hand = {} /\ Holding = {} /\ Popped = {}
  BY DEF Enter, Hand, Holding, Popped
<1>2. Hand' = {} /\ Holding' = {} /\ Popped' = {}
  BY DEF Enter, Hand, Holding, Popped
<1>3. Entries(sq) \subseteq Jobs /\ sq \in Seq(Jobs) /\ Distinct(sq) /\ cq' = cq
  BY DEF Entries, Enter
<1>4. PICK n \in 0..Len(sq) : /\ kernel' = kernel \cup {sq[i] : i \in 1..n}
                              /\ sq' = SubSeq(sq, n + 1, Len(sq))
  <2>1. 0 \in 0..Len(sq)
    BY <1>3
  <2>. QED  BY <2>1 DEF Enter
<1>5. /\ sq' \in Seq(Jobs) /\ Distinct(sq')
      /\ Entries(sq) = {sq[i] : i \in 1..n} \cup Entries(sq')
      /\ {sq[i] : i \in 1..n} \cap Entries(sq') = {}
  BY <1>3, <1>4, SplitEntries
<1>6. /\ Entries(sq') \subseteq Entries(sq)
      /\ kernel' = kernel \cup (Entries(sq) \ Entries(sq'))
  BY <1>4, <1>5
<1>7. Ring' = Entries(sq') \cup kernel' \cup Completed(cq)
  BY <1>3 DEF Ring, Entries, Completed
<1>8. Ring' = Ring
  BY <1>6, <1>7, RingParts
<1>. QED  BY <1>1, <1>2, <1>3, <1>5, <1>6, <1>8

\* A completion: from the ring into the thread's hands, its result recorded.
LEMMA ReapMoves ==
  ASSUME IInv, Reap
  PROVE  /\ cur' \in Jobs /\ cur' \in Completed(cq) /\ cur' \in Ring
         /\ cq' \in Seq([job : Jobs, res : Results])
         /\ Completed(cq') = Completed(cq) \ {cur'} /\ DistinctJobs(cq')
         /\ Ring' = Ring \ {cur'}
         /\ \A i \in 1..Len(cq') : i + 1 \in 1..Len(cq) /\ cq'[i] = cq[i + 1]
         /\ 1 \in 1..Len(cq) /\ cur' = cq[1].job
         /\ result' = [result EXCEPT ![cur'] =
                         IF cq[1].res >= 0 /\ Enough(cur', cq[1].res) THEN "ok" ELSE "failed"]
         /\ Hand = {} /\ Holding = {} /\ Popped = {}
         /\ Hand' = {cur'} /\ Holding' = {cur'} /\ Popped' = {}
<1> USE DEF IInv, TypeOK, Custody
<1>1. /\ cq \in Seq([job : Jobs, res : Results]) /\ cq # <<>> /\ cq' = Tail(cq)
      /\ cur' = Head(cq).job /\ DistinctJobs(cq) /\ sq' = sq /\ kernel' = kernel
  BY DEF Reap
<1>2. /\ Head(cq) \in [job : Jobs, res : Results]
      /\ Head(cq) = cq[1] /\ 1 \in 1..Len(cq)
      /\ cur' \in Completed(cq)
      /\ cq' \in Seq([job : Jobs, res : Results])
      /\ Completed(cq') = Completed(cq) \ {cur'} /\ DistinctJobs(cq')
      /\ \A i \in 1..Len(cq') : i + 1 \in 1..Len(cq) /\ cq'[i] = cq[i + 1]
  BY <1>1, TailCompleted
<1>3. cur' \in Jobs /\ cur' = cq[1].job
  BY <1>1, <1>2
<1>4. Ring' = Entries(sq) \cup kernel \cup Completed(cq')
  BY <1>1 DEF Ring, Entries, Completed
<1>5. Ring' = Ring \ {cur'} /\ cur' \in Ring
  BY <1>2, <1>4, RingParts
<1>6. Hand = {} /\ Holding = {} /\ Popped = {}
  BY DEF Reap, Hand, Holding, Popped
<1>7. Hand' = {cur'} /\ Holding' = {cur'} /\ Popped' = {}
  BY DEF Reap, Hand, Holding, Popped
<1>8. result' = [result EXCEPT ![cur'] =
                   IF cq[1].res >= 0 /\ Enough(cur', cq[1].res) THEN "ok" ELSE "failed"]
  BY <1>1, <1>2 DEF Reap
<1>. HIDE DEF IInv, TypeOK, Custody
<1>. QED  BY <1>2, <1>3, <1>5, <1>6, <1>7, <1>8

\* The kernel completes a request: it stays in the ring.
LEMMA KernelMoves ==
  ASSUME IInv, NEW j \in Jobs, NEW r \in Outcomes(j), j \in kernel,
         kernel' = kernel \ {j}, cq' = Append(cq, [job |-> j, res |-> r]),
         UNCHANGED <<q, sq, pc, cur>>
  PROVE  /\ cq' \in Seq([job : Jobs, res : Results])
         /\ Completed(cq') = Completed(cq) \cup {j} /\ DistinctJobs(cq')
         /\ Len(cq') = Len(cq) + 1 /\ Len(cq) \in Nat
         /\ \A i \in 1..Len(cq) : cq'[i] = cq[i]
         /\ cq'[Len(cq) + 1] = [job |-> j, res |-> r]
         /\ Ring' = Ring /\ j \in Ring
         /\ Hand' = Hand /\ Holding' = Holding /\ Popped' = Popped
<1> USE DEF IInv, TypeOK, Custody
<1> DEFINE e == [job |-> j, res |-> r]
<1>1. e \in [job : Jobs, res : Results] /\ e.job = j
  BY Geometry
<1>2. /\ j \notin Completed(cq) /\ DistinctJobs(cq)
      /\ cq \in Seq([job : Jobs, res : Results])
  OBVIOUS
<1>3. cq' = Append(cq, e)
  OBVIOUS
<1>4. /\ Len(cq') = Len(cq) + 1 /\ Len(cq) \in Nat
      /\ \A i \in 1..Len(cq) : cq'[i] = cq[i]
      /\ cq'[Len(cq) + 1] = e
  <2>1. ASSUME NEW S, cq \in Seq(S), e \in S
        PROVE  /\ Len(cq') = Len(cq) + 1 /\ Len(cq) \in Nat
               /\ \A i \in 1..Len(cq) : cq'[i] = cq[i]
               /\ cq'[Len(cq) + 1] = e
    <3>. HIDE DEF e
    <3>. QED  BY <1>3, <2>1
  <2>. QED  BY <1>1, <1>2, <2>1
<1>. HIDE DEF e
<1>5. /\ cq' \in Seq([job : Jobs, res : Results])
      /\ Completed(cq') = Completed(cq) \cup {j} /\ DistinctJobs(cq')
  <2>1. /\ Append(cq, e) \in Seq([job : Jobs, res : Results])
        /\ Completed(Append(cq, e)) = Completed(cq) \cup {e.job}
        /\ DistinctJobs(cq) /\ e.job \notin Completed(cq) => DistinctJobs(Append(cq, e))
    BY <1>1, <1>2, AppendCompleted, Zenon
  <2>. QED  BY <1>1, <1>2, <1>3, <2>1, Zenon
<1>6. Ring' = Entries(sq) \cup kernel' \cup Completed(cq')
  BY DEF Ring, Entries, Completed
<1>7. Ring' = Ring /\ j \in Ring
  BY <1>5, <1>6, RingParts
<1>8. Hand' = Hand /\ Holding' = Holding /\ Popped' = Popped
  BY DEF Hand, Holding, Popped
<1>. QED  BY <1>4, <1>5, <1>7, <1>8 DEF e

\* The kernel's read changes the buffer of its request and no other.
LEMMA ReadMoves ==
  ASSUME TypeOK, NEW j \in Jobs, KernelComplete(j)
  PROVE  /\ DOMAIN bounce' = Jobs /\ \A k \in Jobs : DOMAIN bounce'[k] = 0..ReadLen(k) - 1
         /\ DOMAIN dst' = Jobs /\ \A k \in Jobs : DOMAIN dst'[k] = 0..NBytes[k] - 1
         /\ \A k \in Jobs : k # j => bounce'[k] = bounce[k] /\ dst'[k] = dst[k]
         /\ \A k \in Jobs : k # j => got'[k] = got[k]
         /\ got'[j] \in Outcomes(j)
         /\ \A i \in 0..got'[j] - 1 :
              IF Direct(j) THEN dst'[j][i] = Start(j) + i ELSE bounce'[j][i] = Start(j) + i
<1> DEFINE Read(res, b) == [i \in DOMAIN b |-> IF i < res THEN Start(j) + i ELSE b[i]]
<1>1. PICK res \in Outcomes(j) :
        /\ got' = [got EXCEPT ![j] = res]
        /\ IF Direct(j)
             THEN dst' = [dst EXCEPT ![j] = Read(res, dst[j])] /\ bounce' = bounce
             ELSE bounce' = [bounce EXCEPT ![j] = Read(res, bounce[j])] /\ dst' = dst
  BY DEF KernelComplete
<1>2. got'[j] = res /\ \A k \in Jobs : k # j => got'[k] = got[k]
  BY <1>1 DEF TypeOK
<1>3. \A i \in 0..res - 1 : i < res /\ i \in 0..ReadLen(j) - 1
  BY Geometry DEF Outcomes, Failed
<1>4. CASE Direct(j)
  <2>1. /\ DOMAIN dst' = Jobs /\ dst'[j] = Read(res, dst[j])
        /\ \A k \in Jobs : k # j => dst'[k] = dst[k]
    BY <1>1, <1>4 DEF TypeOK
  <2>2. DOMAIN dst'[j] = 0..NBytes[j] - 1 /\ ReadLen(j) = NBytes[j]
    BY <1>4, <2>1, Geometry DEF TypeOK
  <2>3. \A i \in 0..res - 1 : dst'[j][i] = Start(j) + i
    BY <1>3, <2>1, <2>2 DEF TypeOK
  <2>. QED  BY <1>1, <1>2, <1>4, <2>1, <2>2, <2>3 DEF TypeOK
<1>5. CASE ~Direct(j)
  <2>1. /\ DOMAIN bounce' = Jobs /\ bounce'[j] = Read(res, bounce[j])
        /\ \A k \in Jobs : k # j => bounce'[k] = bounce[k]
    BY <1>1, <1>5 DEF TypeOK
  <2>2. DOMAIN bounce'[j] = 0..ReadLen(j) - 1
    BY <2>1 DEF TypeOK
  <2>3. \A i \in 0..res - 1 : bounce'[j][i] = Start(j) + i
    BY <1>3, <2>1 DEF TypeOK
  <2>. QED  BY <1>1, <1>2, <1>5, <2>1, <2>2, <2>3 DEF TypeOK
<1>. QED  BY <1>4, <1>5

\* The copy out of the bounce buffer touches the caller's buffer only, and not
\* that of a direct read.
LEMMA CopyMoves ==
  ASSUME TypeOK, Reap, cur' \in Jobs
  PROVE  /\ bounce' = bounce /\ got' = got
         /\ DOMAIN dst' = Jobs /\ \A k \in Jobs : DOMAIN dst'[k] = 0..NBytes[k] - 1
         /\ \A k \in Jobs : k # cur' \/ Direct(k) => dst'[k] = dst[k]
         /\ result'[cur'] = "ok" /\ ~Direct(cur') =>
              \A i \in 0..NBytes[cur'] - 1 : dst'[cur'][i] = bounce[cur'][CopyOff(cur') + i]
<1> DEFINE copy == [i \in 0..NBytes[cur'] - 1 |-> bounce[cur'][CopyOff(cur') + i]]
           whole == Head(cq).res >= 0 /\ Enough(cur', Head(cq).res)
<1>1. /\ bounce' = bounce /\ got' = got
      /\ result' = [result EXCEPT ![cur'] = IF whole THEN "ok" ELSE "failed"]
      /\ dst' = IF whole /\ ~Direct(cur') THEN [dst EXCEPT ![cur'] = copy] ELSE dst
  BY DEF Reap
<1>2. result'[cur'] = "ok" => whole
  BY <1>1 DEF TypeOK
<1>. HIDE DEF whole
<1>3. CASE dst' = dst
  BY <1>1, <1>2, <1>3 DEF TypeOK
<1>4. CASE dst' = [dst EXCEPT ![cur'] = copy] /\ ~Direct(cur')
  BY <1>1, <1>4 DEF TypeOK
<1>. QED  BY <1>1, <1>3, <1>4

(***************************************************************************)
(* Every step keeps every part of the invariant.                           *)
(***************************************************************************)

\* Types.
LEMMA TypeStep ==
  ASSUME IInv, [Next]_vars
  PROVE  TypeOK'
<1>t. TypeOK
  BY DEF IInv
<1> USE DEF TypeOK
<1>1. ASSUME NEW c \in Clients, NEW j \in Jobs, Submit(c, j) PROVE TypeOK'
  BY <1>1, <1>t DEF Submit, threadVars, ringVars, bufVars
<1>2. ASSUME NEW c \in Clients, BeginDrain(c) \/ ClientStep(c) PROVE TypeOK'
  BY <1>2, <1>t DEF BeginDrain, ClientStep, DrainReturn, DrainSleep, threadVars, ringVars, bufVars
<1>3. CASE SetStop \/ Join
  BY <1>3, <1>t DEF SetStop, Join, threadVars, ringVars, bufVars
<1>4. ASSUME NEW j \in Jobs, KernelComplete(j) PROVE TypeOK'
  <2>1. PICK r \in Outcomes(j) : /\ cq' = Append(cq, [job |-> j, res |-> r])
                                 /\ got' = [got EXCEPT ![j] = r]
    BY <1>4 DEF KernelComplete
  <2>2. cq' \in Seq([job : Jobs, res : Results])
    BY <1>4, <2>1, KernelMoves DEF KernelComplete, threadVars
  <2>3. r \in Results
    BY Geometry
  <2>4. got' \in [Jobs -> Results]
    BY <1>t, <2>1, <2>3
  <2>5. kernel' \subseteq Jobs
    BY <1>t, <1>4 DEF KernelComplete
  <2>6. /\ DOMAIN bounce' = Jobs /\ \A k \in Jobs : DOMAIN bounce'[k] = 0..ReadLen(k) - 1
        /\ DOMAIN dst' = Jobs /\ \A k \in Jobs : DOMAIN dst'[k] = 0..NBytes[k] - 1
    BY <1>t, <1>4, ReadMoves
  <2>. QED  BY <1>t, <1>4, <2>2, <2>4, <2>5, <2>6 DEF KernelComplete, threadVars
<1>5. CASE ThreadStep
  <2>1. CASE LoopTop  BY <2>1, <1>t DEF LoopTop, ringVars, bufVars
  <2>2. CASE Pop  BY <2>2, <1>t, PopMoves DEF Pop, ringVars, bufVars
  <2>3. CASE NothingToPop  BY <2>3, <1>t DEF NothingToPop, ringVars, bufVars
  <2>4. CASE Prepare  BY <2>4, <1>t, PrepareMoves DEF Prepare, bufVars
  <2>5. CASE PutBack  BY <2>5, <1>t, PutBackMoves DEF PutBack, ringVars, bufVars
  <2>6. CASE Enter  BY <2>6, <1>t, EnterMoves DEF Enter, bufVars
  <2>7. CASE PeekNothing  BY <2>7, <1>t DEF PeekNothing, ringVars, bufVars
  <2>8. CASE Reap
    <3>1. /\ cur' \in Jobs /\ cq' \in Seq([job : Jobs, res : Results])
          /\ result' = [result EXCEPT ![cur'] =
                          IF cq[1].res >= 0 /\ Enough(cur', cq[1].res)
                            THEN "ok" ELSE "failed"]
      BY <2>8, ReapMoves
    <3>2. result' \in [Jobs -> {"none", "ok", "failed"}]
      BY <1>t, <3>1
    <3>3. /\ bounce' = bounce
          /\ DOMAIN dst' = Jobs /\ \A k \in Jobs : DOMAIN dst'[k] = 0..NBytes[k] - 1
      BY <1>t, <2>8, <3>1, CopyMoves
    <3>. QED  BY <1>t, <2>8, <3>1, <3>2, <3>3 DEF Reap
  <2>9. CASE CountDown
    <3>1. idle' \in BOOLEAN
      BY <2>9, Zenon DEF CountDown
    <3>. QED  BY <2>9, <3>1, <1>t DEF CountDown, ringVars, bufVars
  <2>10. CASE CallBack
    <3>1. calls' \in [Jobs -> Nat]
      BY <2>10, <1>t DEF CallBack, IInv, Custody
    <3>. QED  BY <2>10, <3>1, <1>t DEF CallBack, ringVars, bufVars
  <2>11. CASE NotifyDone
    <3>1. cpc' \in [Clients -> {"out", "drain", "sleep", "passed"}]
      BY <2>11, <1>t DEF NotifyDone
    <3>. QED  BY <2>11, <3>1, <1>t DEF NotifyDone, ringVars, bufVars
  <2>. QED
    BY <1>5, <2>1, <2>2, <2>3, <2>4, <2>5, <2>6, <2>7, <2>8, <2>9, <2>10, <2>11
    DEF ThreadStep
<1>6. CASE WaitInterrupted
  BY <1>6, <1>t DEF WaitInterrupted, ringVars, bufVars
<1>7. CASE UNCHANGED vars
  BY <1>7, <1>t DEF vars, threadVars, ringVars, bufVars
<1>. QED  BY <1>1, <1>2, <1>3, <1>4, <1>5, <1>6, <1>7 DEF Next

\* No step changes the difference between inflight_ and the requests that are
\* in the ring or entering or leaving it.
LEMMA CountStep ==
  ASSUME IInv, [Next]_vars
  PROVE  InflightExact'
<1>i. InflightExact
  BY DEF IInv
<1>0. ASSUME Ring' = Ring, Holding' = Holding, inflight' = inflight
      PROVE  InflightExact'
  BY <1>0, <1>i DEF InflightExact, Counted
<1>1. ASSUME UNCHANGED <<sq, kernel, cq, pc, cur>>
      PROVE  Ring' = Ring /\ Holding' = Holding
  BY <1>1 DEF Ring, Holding
<1>2. ASSUME UNCHANGED ringVars, Holding = {}, Holding' = {}
      PROVE  Ring' = Ring /\ Holding' = Holding
  BY <1>2, RingFrame
<1>3. ASSUME NEW c \in Clients, NEW j \in Jobs, Submit(c, j) PROVE InflightExact'
  BY <1>0, <1>1, <1>3 DEF Submit, threadVars, ringVars, bufVars
<1>4. ASSUME NEW c \in Clients, BeginDrain(c) \/ ClientStep(c) PROVE InflightExact'
  BY <1>0, <1>1, <1>4
  DEF BeginDrain, ClientStep, DrainReturn, DrainSleep, threadVars, ringVars, bufVars
<1>5. CASE SetStop \/ Join
  BY <1>0, <1>1, <1>5 DEF SetStop, Join, threadVars, ringVars, bufVars
<1>6. ASSUME NEW j \in Jobs, KernelComplete(j) PROVE InflightExact'
  BY <1>0, <1>6, KernelMoves DEF KernelComplete, threadVars
<1>7. CASE ThreadStep
  <2>1. CASE LoopTop \/ NothingToPop \/ PeekNothing
    <3>1. Holding = {} /\ Holding' = {}
      BY <2>1 DEF LoopTop, NothingToPop, PeekNothing, Holding
    <3>. QED  BY <1>0, <1>2, <2>1, <3>1 DEF LoopTop, NothingToPop, PeekNothing
  <2>2. CASE Pop
    <3>1. /\ Counted' = Counted \cup {Head(q)}
          /\ Head(q) \notin Counted
      BY <2>2, PopMoves DEF Counted, IInv, Custody
    <3>2. IsFiniteSet(Counted') /\ Cardinality(Counted') = Cardinality(Counted) + 1
      BY <1>i, <3>1, FS_AddElement DEF InflightExact
    <3>. QED  BY <1>i, <2>2, <3>2 DEF Pop, InflightExact
  <2>3. CASE Prepare
    <3>1. Counted' = Counted
      BY <2>3, PrepareMoves DEF Counted
    <3>. QED  BY <1>i, <2>3, <3>1 DEF Prepare, InflightExact
  <2>4. CASE PutBack
    <3>1. Counted' = Counted \ {cur} /\ cur \in Counted
      BY <2>4, PutBackMoves DEF Counted, IInv, Custody
    <3>2. /\ IsFiniteSet(Counted') /\ Cardinality(Counted') = Cardinality(Counted) - 1
      BY <1>i, <3>1, FS_RemoveElement DEF InflightExact
    <3>. QED  BY <1>i, <2>4, <3>2 DEF PutBack, InflightExact
  <2>5. CASE Enter  BY <1>0, <2>5, EnterMoves DEF Enter
  <2>6. CASE Reap
    <3>1. Counted' = Counted
      BY <2>6, ReapMoves DEF Counted
    <3>. QED  BY <1>i, <2>6, <3>1 DEF Reap, InflightExact
  <2>7. CASE CountDown
    <3>1. Ring' = Ring /\ Hand = {cur} /\ Holding = {cur} /\ Holding' = {}
      BY <2>7, RingFrame DEF CountDown, Hand, Holding
    <3>2. Counted' = Counted \ {cur} /\ cur \in Counted
      BY <3>1 DEF Counted, IInv, Custody
    <3>3. /\ IsFiniteSet(Counted') /\ Cardinality(Counted') = Cardinality(Counted) - 1
      BY <1>i, <3>2, FS_RemoveElement DEF InflightExact
    <3>. QED  BY <1>i, <2>7, <3>3 DEF CountDown, InflightExact
  <2>8. CASE CallBack \/ NotifyDone
    <3>1. Holding = {} /\ Holding' = {}
      BY <2>8 DEF CallBack, NotifyDone, Holding
    <3>. QED  BY <1>0, <1>2, <2>8, <3>1 DEF CallBack, NotifyDone
  <2>. QED  BY <1>7, <2>1, <2>2, <2>3, <2>4, <2>5, <2>6, <2>7, <2>8 DEF ThreadStep
<1>8. CASE WaitInterrupted
  <2>1. Holding = {} /\ Holding' = {}
    BY <1>8 DEF WaitInterrupted, Holding
  <2>. QED  BY <1>0, <1>2, <1>8, <2>1 DEF WaitInterrupted
<1>9. CASE UNCHANGED vars
  BY <1>0, <1>1, <1>9 DEF vars, threadVars, ringVars, bufVars
<1>. QED  BY <1>3, <1>4, <1>5, <1>6, <1>7, <1>8, <1>9 DEF Next

\* A request never comes to be in two places.
LEMMA CustodyStep ==
  ASSUME IInv, [Next]_vars
  PROVE  Custody'
<1>i. TypeOK /\ Custody
  BY DEF IInv
<1>0. ASSUME UNCHANGED <<q, sq, kernel, cq>>, Hand' = Hand, cur' = cur,
             pc' \in {"sqe", "count", "call", "called"}
               <=> pc \in {"sqe", "count", "call", "called"}
      PROVE  Custody'
  BY <1>0, <1>i DEF Custody, Ring
<1>1. ASSUME UNCHANGED <<q, sq, kernel, cq, pc, cur>> PROVE Custody'
  <2>1. Hand' = Hand
    BY <1>1 DEF Hand
  <2>. QED  BY <1>0, <1>1, <2>1
<1>2. ASSUME UNCHANGED <<q, sq, kernel, cq>>, cur' = cur,
             pc \notin {"sqe", "count", "call", "called"},
             pc' \notin {"sqe", "count", "call", "called"}
      PROVE  Custody'
  <2>1. Hand' = Hand
    BY <1>2 DEF Hand
  <2>. QED  BY <1>0, <1>2, <2>1
<1>3. ASSUME NEW c \in Clients, NEW j \in Jobs, Submit(c, j) PROVE Custody'
  <2>1. j \notin Entries(q) \cup Ring \cup Hand
    BY <1>3 DEF Submit, IInv, HistoryOfPlace
  <2>2. Entries(q') = Entries(q) \cup {j} /\ Distinct(q')
    BY <1>3, <1>i, <2>1, AppendEntries DEF Submit, TypeOK, Custody
  <2>3. Hand' = Hand /\ Ring' = Ring
    BY <1>3 DEF Submit, threadVars, ringVars, bufVars, Hand, Ring
  <2>. QED  BY <1>3, <1>i, <2>1, <2>2, <2>3 DEF Submit, threadVars, ringVars, bufVars, Custody
<1>4. ASSUME NEW c \in Clients, BeginDrain(c) \/ ClientStep(c) PROVE Custody'
  BY <1>1, <1>4
  DEF BeginDrain, ClientStep, DrainReturn, DrainSleep, threadVars, ringVars, bufVars
<1>5. CASE SetStop \/ Join
  BY <1>1, <1>5 DEF SetStop, Join, threadVars, ringVars, bufVars
<1>6. ASSUME NEW j \in Jobs, KernelComplete(j) PROVE Custody'
  <2>1. /\ Completed(cq') = Completed(cq) \cup {j} /\ DistinctJobs(cq')
        /\ Ring' = Ring /\ Hand' = Hand
    BY <1>6, KernelMoves DEF KernelComplete, threadVars
  <2>2. /\ j \in kernel /\ kernel' = kernel \ {j}
        /\ UNCHANGED <<q, sq, pc, cur>>
    BY <1>6 DEF KernelComplete, threadVars
  <2>. QED  BY <1>i, <2>1, <2>2 DEF Custody
<1>7. CASE ThreadStep
  <2>1. CASE LoopTop \/ NothingToPop \/ PeekNothing
    BY <1>2, <2>1 DEF LoopTop, NothingToPop, PeekNothing, ringVars
  <2>2. CASE Pop
    <3>1. /\ UNCHANGED <<sq, kernel, cq>> /\ cur' = Head(q) /\ pc' = "sqe"
      BY <2>2 DEF Pop, ringVars
    <3>. QED  BY <1>i, <2>2, <3>1, PopMoves DEF Custody
  <2>3. CASE Prepare
    <3>1. /\ UNCHANGED <<q, kernel, cq>> /\ cur' = NoJob /\ pc' = "fill"
      BY <2>3 DEF Prepare
    <3>2. /\ Entries(sq') = Entries(sq) \cup {cur} /\ Distinct(sq')
          /\ Ring' = Ring \cup {cur} /\ Hand = {cur} /\ Hand' = {}
      BY <2>3, PrepareMoves
    <3>3. cur \notin kernel /\ cur \notin Completed(cq)
      BY <1>i, <3>2, RingParts DEF Custody
    <3>. QED  BY <1>i, <3>1, <3>2, <3>3, UringAssumption DEF Custody
  <2>4. CASE PutBack
    <3>1. /\ UNCHANGED <<sq, kernel, cq>> /\ cur' = NoJob /\ pc' = "enter"
      BY <2>4 DEF PutBack, ringVars
    <3>. QED  BY <1>i, <2>4, <3>1, PutBackMoves, UringAssumption DEF Custody
  <2>5. CASE Enter
    <3>1. /\ UNCHANGED <<q, cq, cur>> /\ pc = "enter" /\ pc' \in {"peek", "wait"}
      BY <2>5 DEF Enter
    <3>. QED  BY <1>i, <2>5, <3>1, EnterMoves DEF Custody
  <2>6. CASE Reap
    <3>1. /\ UNCHANGED <<q, sq, kernel>> /\ pc' = "count"
      BY <2>6 DEF Reap
    <3>. QED  BY <1>i, <2>6, <3>1, ReapMoves DEF Custody
  <2>7. CASE CountDown \/ CallBack
    <3>1. Hand' = Hand
      BY <2>7 DEF CountDown, CallBack, Hand
    <3>. QED  BY <1>0, <2>7, <3>1 DEF CountDown, CallBack, ringVars
  <2>8. CASE NotifyDone
    <3>1. /\ UNCHANGED <<q, sq, kernel, cq>> /\ cur' = NoJob /\ pc' = "top"
      BY <2>8 DEF NotifyDone, ringVars
    <3>2. Ring' = Ring /\ Hand' = {}
      BY <2>8, <3>1, RingFrame DEF NotifyDone, Hand
    <3>. QED  BY <1>i, <3>1, <3>2, UringAssumption DEF Custody
  <2>. QED  BY <1>7, <2>1, <2>2, <2>3, <2>4, <2>5, <2>6, <2>7, <2>8 DEF ThreadStep
<1>8. CASE WaitInterrupted
  BY <1>2, <1>8 DEF WaitInterrupted, ringVars
<1>9. CASE UNCHANGED vars
  BY <1>1, <1>9 DEF vars, threadVars, ringVars, bufVars
<1>. QED  BY <1>3, <1>4, <1>5, <1>6, <1>7, <1>8, <1>9 DEF Next

\* A request moves deque - ring - called, and its history moves with it.
LEMMA HistoryStep ==
  ASSUME IInv, [Next]_vars
  PROVE  HistoryOfPlace'
<1>i. TypeOK /\ Custody /\ HistoryOfPlace
  BY DEF IInv
<1>0. ASSUME UNCHANGED <<q, owner, result, calls>>, Ring' = Ring, Hand' = Hand,
             Popped' = Popped, cur' = cur,
             pc' \in {"count", "call"} => pc \in {"count", "call"},
             pc' = "called" => pc = "called"
      PROVE  HistoryOfPlace'
  BY <1>0, <1>i DEF HistoryOfPlace
<1>1. ASSUME UNCHANGED <<q, sq, kernel, cq, pc, cur, owner, result, calls>>
      PROVE  HistoryOfPlace'
  <2>1. Ring' = Ring /\ Hand' = Hand /\ Popped' = Popped
    BY <1>1 DEF Ring, Hand, Popped
  <2>. QED  BY <1>0, <1>1, <2>1
<1>2. ASSUME UNCHANGED <<q, sq, kernel, cq, cur, owner, result, calls>>,
             pc \notin {"sqe", "count", "call", "called"},
             pc' \notin {"sqe", "count", "call", "called"}
      PROVE  HistoryOfPlace'
  <2>1. Ring' = Ring /\ Hand' = Hand /\ Popped' = Popped
    BY <1>2 DEF Ring, Hand, Popped
  <2>. QED  BY <1>0, <1>2, <2>1
<1>3. ASSUME NEW c \in Clients, NEW j \in Jobs, Submit(c, j) PROVE HistoryOfPlace'
  <2>1. Entries(q') = Entries(q) \cup {j}
    BY <1>3, <1>i, AppendEntries DEF Submit, TypeOK
  <2>2. /\ Ring' = Ring /\ Hand' = Hand /\ Popped' = Popped
        /\ UNCHANGED <<pc, cur, result, calls>>
    BY <1>3 DEF Submit, threadVars, ringVars, bufVars, Hand, Popped, Ring
  <2>3. \A k \in Jobs : owner'[k] = IF k = j THEN c ELSE owner[k]
    BY <1>3, <1>i DEF Submit, TypeOK
  <2>4. owner[j] = NoClient /\ c # NoClient
    BY <1>3, UringAssumption DEF Submit
  <2>5. Entries(q) \cup Ring \cup Hand \subseteq Jobs
    <3>1. Hand \subseteq Jobs
      BY <1>i DEF Custody, Hand
    <3>. QED  BY <1>i, <3>1, PlacesAreJobs
  <2>6. result[j] = "none" /\ calls[j] = 0
    BY <1>3, <1>i DEF Submit, HistoryOfPlace
  <2>. QED  BY <1>i, <2>1, <2>2, <2>3, <2>4, <2>5, <2>6 DEF HistoryOfPlace
<1>4. ASSUME NEW c \in Clients, BeginDrain(c) \/ ClientStep(c) PROVE HistoryOfPlace'
  BY <1>1, <1>4
  DEF BeginDrain, ClientStep, DrainReturn, DrainSleep, threadVars, ringVars, bufVars
<1>5. CASE SetStop \/ Join
  BY <1>1, <1>5 DEF SetStop, Join, threadVars, ringVars, bufVars
<1>6. ASSUME NEW j \in Jobs, KernelComplete(j) PROVE HistoryOfPlace'
  <2>1. Ring' = Ring /\ Hand' = Hand /\ Popped' = Popped
    BY <1>6, KernelMoves DEF KernelComplete, threadVars
  <2>. QED  BY <1>0, <1>6, <2>1 DEF KernelComplete, threadVars
<1>7. CASE ThreadStep
  <2>1. CASE LoopTop \/ NothingToPop \/ PeekNothing
    BY <1>2, <2>1 DEF LoopTop, NothingToPop, PeekNothing, ringVars
  <2>2. CASE Pop
    <3>1. UNCHANGED <<owner, result, calls>> /\ pc' = "sqe"
      BY <2>2 DEF Pop
    <3>. QED  BY <1>i, <2>2, <3>1, PopMoves DEF HistoryOfPlace
  <2>3. CASE Prepare
    <3>1. UNCHANGED <<q, owner, result, calls>> /\ pc' = "fill"
      BY <2>3 DEF Prepare
    <3>. QED  BY <1>i, <2>3, <3>1, PrepareMoves DEF HistoryOfPlace
  <2>4. CASE PutBack
    <3>1. UNCHANGED <<owner, result, calls>> /\ pc' = "enter"
      BY <2>4 DEF PutBack
    <3>. QED  BY <1>i, <2>4, <3>1, PutBackMoves DEF HistoryOfPlace
  <2>5. CASE Enter
    BY <1>0, <2>5, EnterMoves DEF Enter
  <2>6. CASE Reap
    <3>1. UNCHANGED <<q, owner, calls>> /\ pc' = "count"
      BY <2>6 DEF Reap
    <3>2. /\ cur' \in Jobs /\ cur' \in Ring /\ Ring' = Ring \ {cur'}
          /\ Hand = {} /\ Hand' = {cur'} /\ Popped = {} /\ Popped' = {}
      BY <2>6, ReapMoves
    <3>3. result'[cur'] # "none" /\ \A k \in Jobs : k # cur' => result'[k] = result[k]
      BY <1>i, <2>6, <3>2, ReapMoves DEF TypeOK
    <3>4. cur' \notin Entries(q)
      BY <1>i, <3>2 DEF Custody
    <3>5. Entries(q) \subseteq Jobs /\ Ring \subseteq Jobs
      BY <1>i, PlacesAreJobs
    <3>. QED  BY <1>i, <3>1, <3>2, <3>3, <3>4, <3>5 DEF HistoryOfPlace
  <2>7. CASE CountDown
    <3>1. Hand' = Hand /\ Popped' = Popped /\ Ring' = Ring
      BY <2>7, RingFrame DEF CountDown, Hand, Popped
    <3>. QED  BY <1>0, <2>7, <3>1 DEF CountDown
  <2>8. CASE CallBack
    <3>1. /\ UNCHANGED <<q, owner, result, cur>> /\ pc = "call" /\ pc' = "called"
          /\ Hand = {cur} /\ Hand' = {cur} /\ Popped = {} /\ Popped' = {} /\ Ring' = Ring
      BY <2>8, RingFrame DEF CallBack, Hand, Popped
    <3>2. /\ cur \in Jobs /\ calls'[cur] = calls[cur] + 1
          /\ \A k \in Jobs : k # cur => calls'[k] = calls[k]
      BY <1>i, <2>8 DEF CallBack, TypeOK, Custody
    <3>3. /\ cur \notin Entries(q) /\ cur \notin Ring
          /\ Entries(q) \subseteq Jobs /\ Ring \subseteq Jobs
      BY <1>i, <3>1, PlacesAreJobs DEF Custody
    <3>. QED  BY <1>i, <3>1, <3>2, <3>3 DEF HistoryOfPlace
  <2>9. CASE NotifyDone
    <3>1. /\ UNCHANGED <<q, owner, result, calls>> /\ pc = "called" /\ pc' = "top"
          /\ Hand = {cur} /\ Hand' = {} /\ Popped = {} /\ Popped' = {} /\ Ring' = Ring
      BY <2>9, RingFrame DEF NotifyDone, Hand, Popped
    <3>. QED  BY <1>i, <3>1 DEF HistoryOfPlace
  <2>. QED
    BY <1>7, <2>1, <2>2, <2>3, <2>4, <2>5, <2>6, <2>7, <2>8, <2>9 DEF ThreadStep
<1>8. CASE WaitInterrupted
  BY <1>2, <1>8 DEF WaitInterrupted, ringVars
<1>9. CASE UNCHANGED vars
  BY <1>1, <1>9 DEF vars, threadVars, ringVars, bufVars
<1>. QED  BY <1>3, <1>4, <1>5, <1>6, <1>7, <1>8, <1>9 DEF Next

\* A completion entry keeps saying what the kernel delivered.
LEMMA DeliveredStep ==
  ASSUME IInv, [Next]_vars
  PROVE  Delivered'
<1>i. TypeOK /\ Custody /\ Delivered
  BY DEF IInv
<1>0. ASSUME UNCHANGED <<cq, got>> PROVE Delivered'
  BY <1>0, <1>i DEF Delivered
<1>1. ASSUME NEW c \in Clients,
             BeginDrain(c) \/ ClientStep(c) \/ \E j \in Jobs : Submit(c, j)
      PROVE  Delivered'
  BY <1>0, <1>1 DEF Submit, BeginDrain, ClientStep, DrainReturn, DrainSleep, ringVars
<1>2. CASE SetStop \/ Join
  BY <1>0, <1>2 DEF SetStop, Join, ringVars
<1>3. ASSUME NEW j \in Jobs, KernelComplete(j) PROVE Delivered'
  <2>1. PICK r \in Outcomes(j) : /\ cq' = Append(cq, [job |-> j, res |-> r])
                                 /\ got' = [got EXCEPT ![j] = r]
    BY <1>3 DEF KernelComplete
  <2>2. /\ Len(cq') = Len(cq) + 1 /\ Len(cq) \in Nat
        /\ \A i \in 1..Len(cq) : cq'[i] = cq[i]
        /\ cq'[Len(cq) + 1] = [job |-> j, res |-> r]
    BY <1>3, <2>1, KernelMoves DEF KernelComplete, threadVars
  <2>3. \A i \in 1..Len(cq) : cq[i].job # j
    BY <1>i, <1>3 DEF Custody, Completed, KernelComplete
  <2>4. ASSUME NEW i \in 1..Len(cq')
        PROVE  cq'[i].res = got'[cq'[i].job] /\ cq'[i].res \in Outcomes(cq'[i].job)
    <3>1. CASE i = Len(cq) + 1
      BY <1>i, <2>1, <2>2, <3>1 DEF TypeOK
    <3>2. CASE i \in 1..Len(cq)
      <4>1. cq[i].job \in Jobs
        BY <1>i, <3>2, PlacesAreJobs, RingParts DEF Completed
      <4>2. got'[cq[i].job] = got[cq[i].job]
        BY <1>i, <2>1, <2>3, <3>2, <4>1 DEF TypeOK
      <4>. QED  BY <1>i, <2>2, <3>2, <4>2 DEF Delivered
    <3>. QED  BY <2>2, <3>1, <3>2
  <2>. QED  BY <2>4 DEF Delivered
<1>4. CASE Reap
  <2>1. /\ \A i \in 1..Len(cq') : i + 1 \in 1..Len(cq) /\ cq'[i] = cq[i + 1]
        /\ got' = got
    BY <1>4, ReapMoves DEF Reap
  <2>. QED  BY <1>i, <2>1 DEF Delivered
<1>5. CASE WaitInterrupted \/ (ThreadStep /\ ~Reap)
  BY <1>0, <1>5
  DEF ThreadStep, LoopTop, Pop, NothingToPop, Prepare, PutBack, Enter, PeekNothing,
      CountDown, CallBack, NotifyDone, WaitInterrupted, ringVars
<1>6. CASE UNCHANGED vars
  BY <1>0, <1>6 DEF vars, ringVars
<1>. QED  BY <1>1, <1>2, <1>3, <1>4, <1>5, <1>6 DEF Next

\* The buffers keep what the kernel put there.
LEMMA ContentsStep ==
  ASSUME IInv, [Next]_vars
  PROVE  Contents'
<1>i. TypeOK /\ Contents
  BY DEF IInv
<1>0. ASSUME UNCHANGED <<bounce, dst, got>> PROVE Contents'
  BY <1>0, <1>i DEF Contents
<1>1. ASSUME NEW c \in Clients,
             BeginDrain(c) \/ ClientStep(c) \/ \E j \in Jobs : Submit(c, j)
      PROVE  Contents'
  BY <1>0, <1>1 DEF Submit, BeginDrain, ClientStep, DrainReturn, DrainSleep, bufVars
<1>2. CASE SetStop \/ Join
  BY <1>0, <1>2 DEF SetStop, Join, bufVars
<1>3. ASSUME NEW j \in Jobs, KernelComplete(j) PROVE Contents'
  <2>1. /\ \A k \in Jobs : k # j => UNCHANGED <<bounce[k], dst[k], got[k]>>
        /\ \A i \in 0..got'[j] - 1 :
             IF Direct(j) THEN dst'[j][i] = Start(j) + i ELSE bounce'[j][i] = Start(j) + i
    BY <1>i, <1>3, ReadMoves
  <2>. QED  BY <1>i, <2>1 DEF Contents
<1>4. CASE Reap
  <2>1. cur' \in Jobs
    BY <1>4, ReapMoves
  <2>2. bounce' = bounce /\ got' = got /\ \A k \in Jobs : Direct(k) => dst'[k] = dst[k]
    BY <1>i, <1>4, <2>1, CopyMoves
  <2>. QED  BY <1>i, <2>2 DEF Contents
<1>5. CASE WaitInterrupted \/ (ThreadStep /\ ~Reap)
  BY <1>0, <1>5
  DEF ThreadStep, LoopTop, Pop, NothingToPop, Prepare, PutBack, Enter, PeekNothing,
      CountDown, CallBack, NotifyDone, WaitInterrupted, bufVars
<1>6. CASE UNCHANGED vars
  BY <1>0, <1>6 DEF vars, bufVars
<1>. QED  BY <1>1, <1>2, <1>3, <1>4, <1>5, <1>6 DEF Next

\* Result and buffer are set from the completion of the request itself.
LEMMA ResultStep ==
  ASSUME IInv, [Next]_vars
  PROVE  ResultIsTrue'
<1>i. TypeOK /\ Custody /\ HistoryOfPlace /\ Delivered /\ Contents /\ ResultIsTrue
  BY DEF IInv
<1>0. ASSUME UNCHANGED <<result, dst, got>> PROVE ResultIsTrue'
  BY <1>0, <1>i DEF ResultIsTrue
<1>1. ASSUME NEW c \in Clients,
             BeginDrain(c) \/ ClientStep(c) \/ \E j \in Jobs : Submit(c, j)
      PROVE  ResultIsTrue'
  BY <1>0, <1>1 DEF Submit, BeginDrain, ClientStep, DrainReturn, DrainSleep, bufVars
<1>2. CASE SetStop \/ Join
  BY <1>0, <1>2 DEF SetStop, Join, bufVars
<1>3. ASSUME NEW j \in Jobs, KernelComplete(j) PROVE ResultIsTrue'
  <2>1. /\ result' = result
        /\ \A k \in Jobs : k # j => UNCHANGED <<dst[k], got[k]>>
    BY <1>i, <1>3, ReadMoves DEF KernelComplete
  <2>2. result[j] = "none"
    BY <1>i, <1>3, RingParts DEF KernelComplete, HistoryOfPlace
  <2>. QED  BY <1>i, <2>1, <2>2 DEF ResultIsTrue
<1>4. CASE Reap
  <2> DEFINE j == cur'
             res == cq[1].res
  <2>1. /\ 1 \in 1..Len(cq) /\ j = cq[1].job /\ j \in Jobs
        /\ result' = [result EXCEPT ![j] =
                        IF res >= 0 /\ Enough(j, res) THEN "ok" ELSE "failed"]
    BY <1>4, ReapMoves
  <2>2. res = got[j] /\ res \in Outcomes(j)
    BY <1>i, <2>1 DEF Delivered
  <2>3. /\ got' = got
        /\ \A k \in Jobs : k # j \/ Direct(k) => dst'[k] = dst[k]
        /\ result'[j] = "ok" /\ ~Direct(j) =>
             \A i \in 0..NBytes[j] - 1 : dst'[j][i] = bounce[j][CopyOff(j) + i]
    BY <1>i, <1>4, <2>1, CopyMoves
  <2>4. /\ result'[j] = IF res >= 0 /\ Enough(j, res) THEN "ok" ELSE "failed"
        /\ \A k \in Jobs : k # j => result'[k] = result[k]
    BY <1>i, <2>1 DEF TypeOK
  <2>. HIDE DEF j, res
  <2>5. ASSUME result'[j] = "ok", NEW i \in 0..NBytes[j] - 1
        PROVE  dst'[j][i] = Offset[j] + i
    <3>1. res \in Int /\ Enough(j, res)
      BY <2>1, <2>2, <2>4, <2>5, Geometry DEF Results
    <3>2. CASE Direct(j)
      <4>1. i \in 0..got[j] - 1 /\ Start(j) = Offset[j]
        BY <2>2, <3>1, <3>2 DEF Enough, Start
      <4>2. dst[j][i] = Start(j) + i
        BY <1>i, <2>1, <3>2, <4>1 DEF Contents
      <4>. QED  BY <2>1, <2>3, <3>2, <4>1, <4>2
    <3>3. CASE ~Direct(j)
      <4>1. /\ CopyOff(j) + i \in 0..got[j] - 1
            /\ Start(j) + (CopyOff(j) + i) = Offset[j] + i
        <5>1. /\ CopyOff(j) \in Nat /\ NBytes[j] \in Nat /\ Start(j) \in Nat
              /\ Offset[j] = Start(j) + CopyOff(j)
          BY <2>1, Geometry
        <5>2. got[j] \in Int /\ got[j] >= CopyOff(j) + NBytes[j]
          BY <2>2, <3>1, <3>3 DEF Enough
        <5>. QED  BY <5>1, <5>2
      <4>2. bounce[j][CopyOff(j) + i] = Start(j) + (CopyOff(j) + i)
        BY <1>i, <2>1, <3>3, <4>1 DEF Contents
      <4>. QED  BY <2>3, <2>5, <3>3, <4>1, <4>2
    <3>. QED  BY <3>2, <3>3
  <2>6. ASSUME result'[j] = "failed"
        PROVE  got'[j] < Available(j) \/ FileSize < Offset[j] + NBytes[j]
    <3>1. res \in Int /\ res <= Available(j) /\ ~(res >= 0 /\ Enough(j, res))
      <4>1. ~(res >= 0 /\ Enough(j, res))
        BY <2>4, <2>6
      <4>. QED  BY <2>1, <2>2, <4>1, Geometry DEF Outcomes, Failed
    <3>2. SUFFICES ASSUME res = Available(j) PROVE FileSize < Offset[j] + NBytes[j]
      BY <2>1, <2>2, <2>3, <3>1, Geometry
    <3>3. ~Enough(j, res) /\ res < CopyOff(j) + NBytes[j]
      BY <2>1, <3>1, <3>2, Geometry DEF Enough
    <3>. QED  BY <2>1, <3>2, <3>3, Geometry
  <2>7. ASSUME NEW k \in Jobs, k # j
        PROVE  UNCHANGED <<result[k], dst[k], got[k]>>
    BY <2>3, <2>4, <2>7
  <2>. QED  BY <1>i, <2>1, <2>5, <2>6, <2>7 DEF ResultIsTrue
<1>5. CASE WaitInterrupted \/ (ThreadStep /\ ~Reap)
  BY <1>0, <1>5
  DEF ThreadStep, LoopTop, Pop, NothingToPop, Prepare, PutBack, Enter, PeekNothing,
      CountDown, CallBack, NotifyDone, WaitInterrupted, bufVars
<1>6. CASE UNCHANGED vars
  BY <1>0, <1>6 DEF vars, bufVars
<1>. QED  BY <1>1, <1>2, <1>3, <1>4, <1>5, <1>6 DEF Next

\* Nothing is queued or counted after the thread has left its loop.
LEMMA ExitedStep ==
  ASSUME IInv, [Next]_vars
  PROVE  ExitedMeansDrained'
<1>i. TypeOK /\ ExitedMeansDrained
  BY DEF IInv
<1>0. ASSUME UNCHANGED <<pc, life, q, inflight>> PROVE ExitedMeansDrained'
  BY <1>0, <1>i DEF ExitedMeansDrained, Stop, DrainDone
<1>1. ASSUME NEW c \in Clients, NEW j \in Jobs, Submit(c, j) PROVE ExitedMeansDrained'
  BY <1>1, <1>i DEF Submit, threadVars, ExitedMeansDrained, Stop
<1>2. ASSUME NEW c \in Clients, BeginDrain(c) \/ ClientStep(c) PROVE ExitedMeansDrained'
  BY <1>0, <1>2 DEF BeginDrain, ClientStep, DrainReturn, DrainSleep, threadVars
<1>3. CASE SetStop \/ Join
  BY <1>3, <1>i DEF SetStop, Join, threadVars, ExitedMeansDrained, Stop, DrainDone
<1>4. ASSUME NEW j \in Jobs, KernelComplete(j) PROVE ExitedMeansDrained'
  BY <1>0, <1>4 DEF KernelComplete, threadVars
<1>5. CASE WaitInterrupted \/ ThreadStep
  <2>1. life' = life /\ pc # "exited"
    BY <1>5
    DEF ThreadStep, LoopTop, Pop, NothingToPop, Prepare, PutBack, Enter, PeekNothing,
        Reap, CountDown, CallBack, NotifyDone, WaitInterrupted
  <2>2. pc' = "exited" => Stop /\ DrainDone /\ UNCHANGED <<q, inflight>>
    BY <1>5
    DEF ThreadStep, LoopTop, Pop, NothingToPop, Prepare, PutBack, Enter, PeekNothing,
        Reap, CountDown, CallBack, NotifyDone, WaitInterrupted
  <2>. QED  BY <1>i, <2>1, <2>2 DEF ExitedMeansDrained, Stop, DrainDone
<1>6. CASE UNCHANGED vars
  BY <1>0, <1>6 DEF vars, threadVars
<1>. QED  BY <1>1, <1>2, <1>3, <1>4, <1>5, <1>6 DEF Next

(***************************************************************************)
(* The theorems.                                                           *)
(***************************************************************************)

\* The inductive invariant holds throughout: custody of every request, the
\* exact count of those in the ring, and the history that goes with each place.
THEOREM UringInvariant == Spec => []IInv
<1>1. Init => IInv
  <2> SUFFICES ASSUME Init PROVE IInv
    OBVIOUS
  <2>1. TypeOK
    <3>1. \A S : <<>> \in Seq(S)
      OBVIOUS
    <3>2. got \in [Jobs -> Results]
      BY DEF Init, Results, Failed
    <3>. HIDE DEF Results
    <3>. QED  BY <3>1, <3>2 DEF Init, TypeOK
  <2>2. /\ Entries(q) = {} /\ Entries(sq) = {} /\ Completed(cq) = {}
        /\ Hand = {} /\ Holding = {} /\ Popped = {} /\ kernel = {}
    BY DEF Init, Entries, Completed, Hand, Holding, Popped
  <2>3. Ring = {} /\ Counted = {}
    BY <2>2, RingParts DEF Counted
  <2>4. InflightExact
    BY <2>3, FS_EmptySet DEF Init, InflightExact
  <2>5. Custody
    BY <2>2, <2>3, UringAssumption DEF Init, Custody, Distinct, DistinctJobs
  <2>6. HistoryOfPlace
    BY <2>2, <2>3 DEF Init, HistoryOfPlace
  <2>7. Delivered /\ Contents /\ ResultIsTrue /\ ExitedMeansDrained
    BY DEF Init, Delivered, Contents, Failed, ResultIsTrue, ExitedMeansDrained
  <2>. QED  BY <2>1, <2>4, <2>5, <2>6, <2>7 DEF IInv
<1>2. IInv /\ [Next]_vars => IInv'
  BY TypeStep, CountStep, CustodyStep, HistoryStep, DeliveredStep, ContentsStep,
     ResultStep, ExitedStep
  DEF IInv
<1>. QED  BY <1>1, <1>2, PTL DEF Spec

\* A callback reports success only with the bytes of the file asked for in the
\* caller's buffer, and failure only of a read that did not deliver them, for any
\* offsets, lengths, alignment and size of the file.
THEOREM ResultCorrect == Spec => []ResultIsTrue
<1>1. IInv => ResultIsTrue
  BY DEF IInv
<1>. QED  BY <1>1, UringInvariant, PTL

(***************************************************************************)
(* Refinement: io_uring does nothing IoContract does not allow.            *)
(***************************************************************************)

Pending == Entries(q) \cup Counted

\* A request is pending for the contract while it is queued or counted.
LEMMA StatusOf ==
  /\ jobStatus = [j \in Jobs |-> IF owner[j] = NoClient THEN "new"
                                 ELSE IF j \in Pending THEN "pending"
                                 ELSE IF calls[j] = 0 THEN "settled"
                                 ELSE "called"]
  /\ jobStatus' = [j \in Jobs |-> IF owner'[j] = NoClient THEN "new"
                                  ELSE IF j \in Pending' THEN "pending"
                                  ELSE IF calls'[j] = 0 THEN "settled"
                                  ELSE "called"]
BY DEF jobStatus, Pending, Counted, InQueue, Entries

\* With nothing queued and a zero count nothing is pending.
LEMMA DrainedMeansNonePending ==
  ASSUME IInv, DrainDone
  PROVE  Pending = {}
<1>1. Entries(q) = {}
  BY DEF DrainDone, Entries
<1>2. Counted = {}
  BY FS_EmptySet DEF DrainDone, IInv, InflightExact
<1>. QED  BY <1>1, <1>2 DEF Pending

\* What the thread does before it counts a request down changes nothing that a
\* caller can rely on.
LEMMA PendingFrame ==
  ASSUME IInv, Pop \/ Prepare \/ PutBack \/ Enter \/ Reap
  PROVE  Pending' = Pending
<1>1. CASE Pop
  BY <1>1, PopMoves DEF Pending, Counted
<1>2. CASE Prepare
  <2>1. q' = q
    BY <1>2 DEF Prepare
  <2>. QED  BY <1>2, <2>1, PrepareMoves DEF Pending, Counted
<1>3. CASE PutBack
  BY <1>3, PutBackMoves DEF Pending, Counted
<1>4. CASE Enter
  <2>1. q' = q
    BY <1>4 DEF Enter
  <2>. QED  BY <1>4, <2>1, EnterMoves DEF Pending, Counted
<1>5. CASE Reap
  <2>1. q' = q
    BY <1>5 DEF Reap
  <2>. QED  BY <1>5, <2>1, ReapMoves DEF Pending, Counted
<1>. QED  BY <1>1, <1>2, <1>3, <1>4, <1>5

\* Each step of the engine is a step of the contract or a stutter of it.
LEMMA StepRefines ==
  ASSUME IInv, [Next]_vars
  PROVE  [Contract!Next]_(Contract!vars)
<1>i. TypeOK /\ Custody /\ HistoryOfPlace
  BY DEF IInv
<1>0. ASSUME jobStatus' = jobStatus, fenceStatus' = fenceStatus, life' = life
      PROVE  [Contract!Next]_(Contract!vars)
  BY <1>0 DEF Contract!vars, lifeStatus
<1>s. ASSUME Pending' = Pending, UNCHANGED <<owner, calls>>
      PROVE  jobStatus' = jobStatus
  BY <1>s, StatusOf
<1>p. ASSUME UNCHANGED <<q, sq, kernel, cq>>, Holding' = Holding
      PROVE  Pending' = Pending
  BY <1>p DEF Pending, Counted, Ring
<1>f. ASSUME cpc' = cpc PROVE fenceStatus' = fenceStatus
  BY <1>f DEF fenceStatus
<1>1. ASSUME NEW c \in Clients, NEW j \in Jobs, Submit(c, j)
      PROVE  Contract!Submit(c, j)
  <2>1. Entries(q') = Entries(q) \cup {j}
    BY <1>1, <1>i, AppendEntries DEF Submit, TypeOK
  <2>2. Counted' = Counted /\ calls' = calls
    BY <1>1 DEF Submit, threadVars, ringVars, bufVars, Counted, Ring, Holding
  <2>3. Pending' = Pending \cup {j}
    BY <2>1, <2>2 DEF Pending
  <2>4. /\ owner[j] = NoClient /\ c # NoClient
        /\ \A k \in Jobs : owner'[k] = IF k = j THEN c ELSE owner[k]
    BY <1>1, <1>i, UringAssumption DEF Submit, TypeOK
  <2>5. jobStatus[j] = "new" /\ jobStatus' = [jobStatus EXCEPT ![j] = "pending"]
    BY <2>2, <2>3, <2>4, StatusOf
  <2>6. fenceStatus[c] # "waiting" /\ fenceStatus' = [fenceStatus EXCEPT ![c] = "out"]
    BY <1>1, <1>i DEF Submit, Outside, fenceStatus, TypeOK
  <2>7. lifeStatus = "open" /\ lifeStatus' = lifeStatus
    BY <1>1 DEF Submit, lifeStatus
  <2>. QED  BY <2>5, <2>6, <2>7 DEF Contract!Submit
<1>2. ASSUME NEW c \in Clients, BeginDrain(c) PROVE Contract!BeginDrain(c)
  <2>1. jobStatus' = jobStatus
    BY <1>2, <1>p, <1>s DEF BeginDrain, threadVars, ringVars, bufVars, Holding
  <2>2. fenceStatus[c] # "waiting" /\ fenceStatus' = [fenceStatus EXCEPT ![c] = "waiting"]
    BY <1>2, <1>i DEF BeginDrain, Outside, fenceStatus, TypeOK
  <2>3. lifeStatus = "open" /\ lifeStatus' = lifeStatus
    BY <1>2 DEF BeginDrain, lifeStatus
  <2>. QED  BY <2>1, <2>2, <2>3 DEF Contract!BeginDrain
<1>3. ASSUME NEW c \in Clients, DrainReturn(c) PROVE Contract!EndDrain(c)
  <2>1. jobStatus' = jobStatus
    BY <1>3, <1>p, <1>s DEF DrainReturn, threadVars, ringVars, bufVars, Holding
  <2>2. \A j \in Jobs : jobStatus[j] # "pending"
    BY <1>3, DrainedMeansNonePending, StatusOf DEF DrainReturn
  <2>3. fenceStatus[c] = "waiting" /\ fenceStatus' = [fenceStatus EXCEPT ![c] = "passed"]
    BY <1>3, <1>i DEF DrainReturn, fenceStatus, TypeOK
  <2>4. lifeStatus' = lifeStatus
    BY <1>3 DEF DrainReturn, lifeStatus
  <2>. QED  BY <2>1, <2>2, <2>3, <2>4 DEF Contract!EndDrain, Contract!NonePending
<1>4. ASSUME NEW c \in Clients, DrainSleep(c) PROVE [Contract!Next]_(Contract!vars)
  <2>1. jobStatus' = jobStatus
    BY <1>4, <1>p, <1>s DEF DrainSleep, threadVars, ringVars, bufVars, Holding
  <2>2. fenceStatus' = fenceStatus
    BY <1>4, <1>i DEF DrainSleep, fenceStatus, TypeOK
  <2>. QED  BY <1>0, <1>4, <2>1, <2>2 DEF DrainSleep
<1>5. CASE SetStop
  <2>1. jobStatus' = jobStatus /\ fenceStatus' = fenceStatus
    BY <1>5, <1>p, <1>s, <1>f DEF SetStop, threadVars, ringVars, bufVars, Holding
  <2>2. /\ lifeStatus = "open" /\ lifeStatus' = "closing"
        /\ \A c \in Clients : fenceStatus[c] # "waiting"
    BY <1>5 DEF SetStop, lifeStatus, fenceStatus, Outside
  <2>. QED  BY <2>1, <2>2 DEF Contract!BeginClose, Contract!Next
<1>6. CASE Join
  <2>1. jobStatus' = jobStatus /\ fenceStatus' = fenceStatus
    BY <1>6, <1>p, <1>s, <1>f DEF Join, threadVars, ringVars, bufVars, Holding
  <2>2. Pending = {} /\ Hand = {}
    BY <1>6, DrainedMeansNonePending DEF Join, Hand, IInv, ExitedMeansDrained
  <2>3. \A j \in Jobs : jobStatus[j] \in {"new", "called"}
    BY <1>i, <2>2, StatusOf DEF HistoryOfPlace, Pending, Counted
  <2>4. lifeStatus = "closing" /\ lifeStatus' = "closed"
    BY <1>6 DEF Join, lifeStatus
  <2>. QED  BY <2>1, <2>3, <2>4 DEF Contract!EndClose, Contract!Next
<1>7. ASSUME NEW j \in Jobs, KernelComplete(j) PROVE [Contract!Next]_(Contract!vars)
  <2>1. Pending' = Pending
    <3>1. Ring' = Ring /\ Holding' = Holding /\ q' = q
      BY <1>7, KernelMoves DEF KernelComplete, threadVars
    <3>. QED  BY <3>1 DEF Pending, Counted
  <2>. QED  BY <1>0, <1>s, <1>f, <1>7, <2>1 DEF KernelComplete
<1>8. CASE LoopTop \/ NothingToPop \/ PeekNothing \/ WaitInterrupted
  <2>1. Holding' = Holding /\ UNCHANGED <<q, ringVars, owner, calls, cpc, life>>
    BY <1>8 DEF LoopTop, NothingToPop, PeekNothing, WaitInterrupted, Holding
  <2>. QED  BY <1>0, <1>s, <1>p, <1>f, <2>1 DEF ringVars
<1>9. CASE Pop \/ Prepare \/ PutBack \/ Enter \/ Reap
  <2>1. UNCHANGED <<owner, calls, cpc, life>>
    BY <1>9 DEF Pop, Prepare, PutBack, Enter, Reap
  <2>. QED  BY <1>0, <1>s, <1>f, <1>9, <2>1, PendingFrame
<1>10. CASE CountDown
  <2>1. /\ cur \in Jobs /\ pc = "count"
        /\ UNCHANGED <<q, sq, kernel, cq, owner, calls, cpc, life>>
        /\ Holding = {cur} /\ Holding' = {} /\ Hand = {cur}
    BY <1>10, <1>i DEF CountDown, ringVars, Custody, Holding, Hand
  <2>2. /\ cur \in Pending /\ cur \notin Entries(q) /\ cur \notin Ring
    BY <1>i, <2>1 DEF Custody, Pending, Counted
  <2>3. Pending' = Pending \ {cur}
    BY <2>1, <2>2 DEF Pending, Counted, Ring
  <2>4. owner[cur] # NoClient /\ calls[cur] = 0
    BY <1>i, <2>1 DEF HistoryOfPlace
  <2>5. jobStatus[cur] = "pending" /\ jobStatus' = [jobStatus EXCEPT ![cur] = "settled"]
    BY <2>1, <2>2, <2>3, <2>4, StatusOf
  <2>6. fenceStatus' = fenceStatus /\ lifeStatus' = lifeStatus
    BY <1>f, <2>1 DEF lifeStatus
  <2>. QED  BY <2>1, <2>5, <2>6 DEF Contract!Settle, Contract!Next
<1>11. CASE CallBack
  <2>1. /\ cur \in Jobs /\ pc = "call"
        /\ UNCHANGED <<q, sq, kernel, cq, owner, cpc, life>>
        /\ Holding = {} /\ Holding' = {} /\ Hand = {cur}
    BY <1>11, <1>i DEF CallBack, ringVars, Custody, Holding, Hand
  <2>2. cur \notin Pending /\ Pending' = Pending
    BY <1>i, <1>p, <2>1 DEF Custody, Pending, Counted
  <2>3. owner[cur] # NoClient /\ calls[cur] = 0
    BY <1>i, <2>1 DEF HistoryOfPlace
  <2>4. calls'[cur] = 1 /\ \A k \in Jobs : k # cur => calls'[k] = calls[k]
    BY <1>11, <1>i, <2>1, <2>3 DEF CallBack, TypeOK
  <2>5. jobStatus[cur] = "settled" /\ jobStatus' = [jobStatus EXCEPT ![cur] = "called"]
    BY <2>1, <2>2, <2>3, <2>4, StatusOf
  <2>6. fenceStatus' = fenceStatus /\ lifeStatus' = lifeStatus
    BY <1>f, <2>1 DEF lifeStatus
  <2>. QED  BY <2>1, <2>5, <2>6 DEF Contract!Call, Contract!Next
<1>12. CASE NotifyDone
  <2>1. Holding' = Holding /\ UNCHANGED <<q, ringVars, owner, calls, life>>
    BY <1>12 DEF NotifyDone, Holding
  <2>2. fenceStatus' = fenceStatus
    BY <1>12, <1>i DEF NotifyDone, fenceStatus, TypeOK
  <2>. QED  BY <1>0, <1>s, <1>p, <2>1, <2>2 DEF ringVars
<1>13. CASE UNCHANGED vars
  <2>1. Holding' = Holding
    BY <1>13 DEF vars, threadVars, Holding
  <2>. QED  BY <1>0, <1>s, <1>p, <1>f, <1>13, <2>1 DEF vars, ringVars
<1>. QED
  BY <1>1, <1>2, <1>3, <1>4, <1>5, <1>6, <1>7, <1>8, <1>9, <1>10, <1>11, <1>12, <1>13
  DEF Next, ThreadStep, ClientStep, Contract!Next

\* Every behaviour of the io_uring engine is, through the mapping, one of
\* IoContract: callers cannot tell it from the thread pool.
THEOREM RefinesSafety == Spec => ImplementsSafety
<1>1. Init => Contract!Init
  <2> SUFFICES ASSUME Init PROVE Contract!Init
    OBVIOUS
  <2>1. jobStatus = [j \in Jobs |-> "new"]
    BY DEF Init, jobStatus
  <2>2. fenceStatus = [c \in Clients |-> "out"]
    BY DEF Init, fenceStatus
  <2>3. lifeStatus = "open"
    BY DEF Init, lifeStatus
  <2>. QED  BY <2>1, <2>2, <2>3 DEF Contract!Init
<1>2. IInv /\ [Next]_vars => [Contract!Next]_(Contract!vars)
  BY StepRefines
<1>. QED  BY <1>1, <1>2, UringInvariant, PTL DEF Spec, Contract!Safety, ImplementsSafety
=============================================================================
