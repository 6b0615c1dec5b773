--------------------------- MODULE IoEngineProofs ---------------------------
(***************************************************************************)
(* Theorems about ThreadIoEngine for any number of workers, clients and    *)
(* requests.                                                               *)
(***************************************************************************)
EXTENDS IoEngineProps, FiniteSetTheorems, TLAPS

\* The workers that hold a counted request are finitely many.
LEMMA HoldingFinite == IsFiniteSet(Holding) /\ Cardinality(Holding) \in Nat
  BY IoEngineAssumption, FS_Subset, FS_CardinalityType DEF Holding

(***************************************************************************)
(* Type correctness.  That inflight_ never goes negative needs the count.  *)
(***************************************************************************)

\* Every step of the pool keeps every variable in its type.
LEMMA TypeStep ==
  ASSUME IInv, [Next]_vars
  PROVE  TypeOK'
<1> USE DEF IInv, TypeOK
<1>1. ASSUME NEW c \in Clients, NEW j \in Jobs, Submit(c, j) PROVE TypeOK'
  BY <1>1 DEF Submit
<1>2. ASSUME NEW c \in Clients, BeginDrain(c) PROVE TypeOK'
  BY <1>2 DEF BeginDrain
<1>3. ASSUME NEW c \in Clients, ClientStep(c) PROVE TypeOK'
  <2>1. CASE NotifyOne(c)  BY <2>1 DEF NotifyOne
  <2>2. CASE DrainReturn(c)  BY <2>2 DEF DrainReturn
  <2>3. CASE DrainSleep(c)  BY <2>3 DEF DrainSleep
  <2>. QED  BY <1>3, <2>1, <2>2, <2>3 DEF ClientStep
<1>4. ASSUME NEW w \in Workers, WorkerStep(w) PROVE TypeOK'
  <2>1. CASE WorkerSleep(w)  BY <2>1 DEF WorkerSleep
  <2>2. CASE WorkerExit(w)  BY <2>2 DEF WorkerExit
  <2>3. CASE TakeJob(w)  BY <2>3 DEF TakeJob
  <2>4. CASE ReadAt(w)
    <3>1. result' \in [Jobs -> {"none", "ok", "failed"}]
      BY <2>4 DEF ReadAt
    <3>. QED  BY <2>4, <3>1 DEF ReadAt
  <2>5. CASE CountDown(w)
    <3>1. widle' \in [Workers -> BOOLEAN]
      BY <2>5, Zenon DEF CountDown
    <3>2. w \in Holding
      BY <2>5 DEF CountDown, Holding
    <3>3. Cardinality(Holding) # 0
      BY <3>2, HoldingFinite, FS_EmptySet
    <3>4. inflight' \in Nat
      BY <2>5, <3>3, HoldingFinite DEF CountDown, InflightExact
    <3>. QED  BY <2>5, <3>1, <3>4 DEF CountDown
  <2>6. CASE CallBack(w)
    <3>1. ASSUME NEW j \in Jobs PROVE calls'[j] \in Nat
      BY <2>6 DEF CallBack
    <3>2. calls' = [j \in Jobs |-> calls'[j]]
      BY <2>6 DEF CallBack
    <3>. QED  BY <2>6, <3>1, <3>2 DEF CallBack
  <2>7. CASE NotifyDone(w)
    <3>1. cpc' \in [Clients -> {"out", "notify", "drain", "sleep", "passed"}]
      BY <2>7 DEF NotifyDone
    <3>. QED  BY <2>7, <3>1 DEF NotifyDone
  <2>. QED  BY <1>4, <2>1, <2>2, <2>3, <2>4, <2>5, <2>6, <2>7 DEF WorkerStep
<1>5. CASE SetStop  BY <1>5 DEF SetStop, workerVars
<1>6. CASE DestructorStep
  BY <1>6 DEF DestructorStep, NotifyAll, Join, workerVars
<1>7. CASE UNCHANGED vars  BY <1>7 DEF vars
<1>. QED  BY <1>1, <1>2, <1>3, <1>4, <1>5, <1>6, <1>7 DEF Next

(***************************************************************************)
(* What push_back and pop_front do to membership in the deque.             *)
(***************************************************************************)

\* After push_back(j) the deque holds what it held, and j at its end.
LEMMA PushBack ==
  ASSUME TypeOK, NEW j \in Jobs, q' = Append(q, j)
  PROVE  /\ Len(q') = Len(q) + 1
         /\ \A i \in 1..Len(q) : q'[i] = q[i]
         /\ q'[Len(q) + 1] = j
         /\ \A k : InQueue(k)' <=> InQueue(k) \/ k = j
<1>1. /\ q \in Seq(Jobs)  /\ Len(q) \in Nat
  BY DEF TypeOK
<1>2. /\ Len(q') = Len(q) + 1
      /\ \A i \in 1..Len(q) : q'[i] = q[i]
      /\ q'[Len(q) + 1] = j
  BY <1>1
<1>. QED  BY <1>1, <1>2 DEF InQueue

\* After pop_front the deque is shifted by one; where its entries are distinct,
\* it holds what it held but the front.
LEMMA PopFront ==
  ASSUME TypeOK, q # <<>>, q' = Tail(q)
  PROVE  /\ Len(q) >= 1  /\ Len(q') = Len(q) - 1
         /\ Head(q) = q[1]  /\ Head(q) \in Jobs  /\ InQueue(Head(q))
         /\ \A i \in 1..Len(q') : q'[i] = q[i + 1]
         /\ \A k : InQueue(k)' => InQueue(k)
         /\ \A k : InQueue(k) /\ k # Head(q) => InQueue(k)'
         /\ Custody => \A i \in 1..Len(q') : q'[i] # Head(q)
<1>1. /\ q \in Seq(Jobs)  /\ Len(q) \in Nat
  BY DEF TypeOK
<1>2. /\ Len(q) >= 1  /\ Len(q') = Len(q) - 1
      /\ Head(q) = q[1]  /\ Head(q) \in Jobs
      /\ \A i \in 1..Len(q') : q'[i] = q[i + 1]
  BY <1>1
<1>3. InQueue(Head(q))
  BY <1>1, <1>2 DEF InQueue
<1>4. \A k : InQueue(k)' => InQueue(k)
  BY <1>1, <1>2 DEF InQueue
<1>5. ASSUME NEW k, InQueue(k), k # Head(q) PROVE InQueue(k)'
  <2>1. PICK i \in 1..Len(q) : q[i] = k
    BY <1>5 DEF InQueue
  <2>2. i - 1 \in 1..Len(q') /\ q'[i - 1] = k
    BY <1>1, <1>2, <1>5, <2>1
  <2>. QED  BY <2>2 DEF InQueue
<1>6. Custody => \A i \in 1..Len(q') : q'[i] # Head(q)
  BY <1>1, <1>2 DEF Custody
<1>. QED  BY <1>2, <1>3, <1>4, <1>5, <1>6

(***************************************************************************)
(* The count of in-flight requests.                                        *)
(***************************************************************************)

\* No step changes the difference between inflight_ and the requests that are
\* queued or being read.
LEMMA CountStep ==
  ASSUME IInv, [Next]_vars
  PROVE  InflightExact'
<1> USE DEF IInv
<1>. Len(q) \in Nat
  BY DEF TypeOK
<1>0. ASSUME Holding' = Holding, q' = q, inflight' = inflight
      PROVE  InflightExact'
  BY <1>0 DEF InflightExact
<1>1. ASSUME NEW c \in Clients, NEW j \in Jobs, Submit(c, j) PROVE InflightExact'
  <2>1. Holding' = Holding
    BY <1>1 DEF Submit, Holding
  <2>2. Len(q') = Len(q) + 1
    BY <1>1, PushBack DEF Submit
  <2>. QED  BY <1>1, <2>1, <2>2, HoldingFinite DEF Submit, InflightExact
<1>2. ASSUME NEW c \in Clients, BeginDrain(c) PROVE InflightExact'
  BY <1>2, <1>0 DEF BeginDrain, Holding
<1>3. ASSUME NEW c \in Clients, ClientStep(c) PROVE InflightExact'
  <2>1. CASE NotifyOne(c)
    <3>1. Holding' = Holding
      BY <2>1 DEF NotifyOne, Holding, TypeOK
    <3>. QED  BY <2>1, <3>1, <1>0 DEF NotifyOne
  <2>2. CASE DrainReturn(c)  BY <2>2, <1>0 DEF DrainReturn, Holding
  <2>3. CASE DrainSleep(c)  BY <2>3, <1>0 DEF DrainSleep, Holding
  <2>. QED  BY <1>3, <2>1, <2>2, <2>3 DEF ClientStep
<1>4. ASSUME NEW w \in Workers, WorkerStep(w) PROVE InflightExact'
  <2>1. CASE WorkerSleep(w)  BY <2>1, <1>0 DEF WorkerSleep, Holding, TypeOK
  <2>2. CASE WorkerExit(w)  BY <2>2, <1>0 DEF WorkerExit, Holding, TypeOK
  <2>3. CASE TakeJob(w)
    <3>1. Holding' = Holding \cup {w} /\ w \notin Holding
      BY <2>3 DEF TakeJob, Holding, TypeOK
    <3>2. Len(q') = Len(q) - 1
      BY <2>3, PopFront DEF TakeJob
    <3>3. Cardinality(Holding') = Cardinality(Holding) + 1
      BY <3>1, HoldingFinite, FS_AddElement
    <3>. QED  BY <2>3, <3>2, <3>3, HoldingFinite DEF TakeJob, InflightExact
  <2>4. CASE ReadAt(w)  BY <2>4, <1>0 DEF ReadAt, Holding, TypeOK
  <2>5. CASE CountDown(w)
    <3>1. Holding' = Holding \ {w} /\ w \in Holding
      BY <2>5 DEF CountDown, Holding, TypeOK
    <3>2. Cardinality(Holding') = Cardinality(Holding) - 1
      BY <3>1, HoldingFinite, FS_RemoveElement
    <3>. QED  BY <2>5, <3>2, HoldingFinite DEF CountDown, InflightExact
  <2>6. CASE CallBack(w)  BY <2>6, <1>0 DEF CallBack, Holding, TypeOK
  <2>7. CASE NotifyDone(w)  BY <2>7, <1>0 DEF NotifyDone, Holding, TypeOK
  <2>. QED  BY <1>4, <2>1, <2>2, <2>3, <2>4, <2>5, <2>6, <2>7 DEF WorkerStep
<1>5. CASE SetStop  BY <1>5, <1>0 DEF SetStop, workerVars, Holding
<1>6. CASE DestructorStep
  <2>1. CASE NotifyAll  BY <2>1, <1>0 DEF NotifyAll, Holding, TypeOK
  <2>2. CASE Join  BY <2>2, <1>0 DEF Join, workerVars, Holding
  <2>. QED  BY <1>6, <2>1, <2>2 DEF DestructorStep
<1>7. CASE UNCHANGED vars  BY <1>7, <1>0 DEF vars, Holding
<1>. QED  BY <1>1, <1>2, <1>3, <1>4, <1>5, <1>6, <1>7 DEF Next

(***************************************************************************)
(* Custody: the deque and the workers share out the requests.              *)
(***************************************************************************)

\* A request never comes to be in two places.
LEMMA CustodyStep ==
  ASSUME IInv, [Next]_vars
  PROVE  Custody'
<1> USE DEF IInv
<1>0. ASSUME Busy' = Busy, q' = q, wjob' = wjob
      PROVE  Custody'
  BY <1>0 DEF Custody, InQueue
<1>1. ASSUME NEW c \in Clients, NEW j \in Jobs, Submit(c, j) PROVE Custody'
  <2>1. Busy' = Busy /\ wjob' = wjob
    BY <1>1 DEF Submit, Busy
  <2>2. /\ Len(q) \in Nat
        /\ Len(q') = Len(q) + 1
        /\ \A i \in 1..Len(q) : q'[i] = q[i]
        /\ q'[Len(q) + 1] = j
        /\ \A k : InQueue(k)' <=> InQueue(k) \/ k = j
    BY <1>1, PushBack DEF Submit, TypeOK
  <2>3. ~InQueue(j) /\ \A w \in Busy : wjob[w] # j
    BY <1>1 DEF Submit, HistoryOfPlace
  <2>4. \A i, k \in 1..Len(q') : q'[i] = q'[k] => i = k
    BY <2>2, <2>3 DEF Custody, InQueue
  <2>. QED  BY <2>1, <2>2, <2>3, <2>4 DEF Custody
<1>2. ASSUME NEW c \in Clients, BeginDrain(c) PROVE Custody'
  BY <1>2, <1>0 DEF BeginDrain, Busy
<1>3. ASSUME NEW c \in Clients, ClientStep(c) PROVE Custody'
  <2>1. CASE NotifyOne(c)  BY <2>1, <1>0 DEF NotifyOne, Busy, TypeOK
  <2>2. CASE DrainReturn(c)  BY <2>2, <1>0 DEF DrainReturn, Busy
  <2>3. CASE DrainSleep(c)  BY <2>3, <1>0 DEF DrainSleep, Busy
  <2>. QED  BY <1>3, <2>1, <2>2, <2>3 DEF ClientStep
<1>4. ASSUME NEW w \in Workers, WorkerStep(w) PROVE Custody'
  <2>1. CASE WorkerSleep(w)  BY <2>1, <1>0 DEF WorkerSleep, Busy, TypeOK
  <2>2. CASE WorkerExit(w)  BY <2>2, <1>0 DEF WorkerExit, Busy, TypeOK
  <2>3. CASE TakeJob(w)
    <3>1. Busy' = Busy \cup {w} /\ w \notin Busy
      BY <2>3 DEF TakeJob, Busy, TypeOK
    <3>2. wjob' = [wjob EXCEPT ![w] = Head(q)] /\ wjob'[w] = Head(q)
      BY <2>3 DEF TakeJob, TypeOK
    <3>3. /\ Len(q) \in Nat /\ Len(q) >= 1 /\ Len(q') = Len(q) - 1
          /\ Head(q) \in Jobs /\ InQueue(Head(q))
          /\ \A i \in 1..Len(q') : q'[i] = q[i + 1]
          /\ \A k : InQueue(k)' => InQueue(k)
          /\ \A i \in 1..Len(q') : q'[i] # Head(q)
      BY <2>3, PopFront DEF TakeJob, TypeOK
    <3>4. \A i, k \in 1..Len(q') : q'[i] = q'[k] => i = k
      BY <3>3 DEF Custody
    <3>5. \A v \in Workers : wjob'[v] \in Jobs <=> v \in Busy'
      BY <3>1, <3>2, <3>3 DEF Custody, TypeOK
    <3>6. \A v \in Busy' : \A i \in 1..Len(q') : q'[i] # wjob'[v]
      <4>1. ASSUME NEW v \in Busy, NEW i \in 1..Len(q') PROVE q'[i] # wjob'[v]
        <5>1. wjob'[v] = wjob[v] /\ v # w
          BY <3>1, <3>2 DEF Busy, TypeOK
        <5>2. InQueue(q'[i])
          BY <3>3 DEF InQueue
        <5>. QED  BY <5>1, <5>2 DEF Custody
      <4>. QED  BY <3>1, <3>2, <3>3, <4>1
    <3>7. \A v, x \in Busy' : wjob'[v] = wjob'[x] => v = x
      BY <3>1, <3>2, <3>3 DEF Custody, TypeOK, Busy
    <3>. QED  BY <3>4, <3>5, <3>6, <3>7 DEF Custody, InQueue
  <2>4. CASE ReadAt(w)  BY <2>4, <1>0 DEF ReadAt, Busy, TypeOK
  <2>5. CASE CountDown(w)  BY <2>5, <1>0 DEF CountDown, Busy, TypeOK
  <2>6. CASE CallBack(w)  BY <2>6, <1>0 DEF CallBack, Busy, TypeOK
  <2>7. CASE NotifyDone(w)
    <3>1. Busy' = Busy \ {w} /\ wjob' = [wjob EXCEPT ![w] = NoJob] /\ q' = q
      BY <2>7 DEF NotifyDone, Busy, TypeOK
    <3>. QED  BY <3>1, IoEngineAssumption DEF Custody, InQueue, TypeOK, Busy
  <2>. QED  BY <1>4, <2>1, <2>2, <2>3, <2>4, <2>5, <2>6, <2>7 DEF WorkerStep
<1>5. CASE SetStop  BY <1>5, <1>0 DEF SetStop, workerVars, Busy
<1>6. CASE DestructorStep
  <2>1. CASE NotifyAll  BY <2>1, <1>0 DEF NotifyAll, Busy, TypeOK
  <2>2. CASE Join  BY <2>2, <1>0 DEF Join, workerVars, Busy
  <2>. QED  BY <1>6, <2>1, <2>2 DEF DestructorStep
<1>7. CASE UNCHANGED vars  BY <1>7, <1>0 DEF vars, Busy
<1>. QED  BY <1>1, <1>2, <1>3, <1>4, <1>5, <1>6, <1>7 DEF Next

(***************************************************************************)
(* What became of each request agrees with where it is.                    *)
(***************************************************************************)

\* Steps that move no request and touch no history.
LEMMA HistoryFrame ==
  ASSUME HistoryOfPlace, Busy' = Busy, wjob' = wjob, q' = q,
         owner' = owner, result' = result, calls' = calls,
         \A w \in Busy : \/ wpc'[w] = wpc[w]
                         \/ wpc[w] \in {"finish", "call"} /\ wpc'[w] \in {"finish", "call"}
  PROVE  HistoryOfPlace'
<1>. \A j : InQueue(j)' <=> InQueue(j)
  BY DEF InQueue
<1>1. \A w \in Busy' :
        /\ owner'[wjob'[w]] # NoClient
        /\ result'[wjob'[w]] = "none" <=> wpc'[w] = "read"
        /\ calls'[wjob'[w]] = IF wpc'[w] = "called" THEN 1 ELSE 0
  BY DEF HistoryOfPlace
<1>2. \A j \in Jobs : InQueue(j)' =>
        owner'[j] # NoClient /\ result'[j] = "none" /\ calls'[j] = 0
  BY DEF HistoryOfPlace
<1>3. \A j \in Jobs : owner'[j] = NoClient => result'[j] = "none" /\ calls'[j] = 0
  BY DEF HistoryOfPlace
<1>4. \A j \in Jobs : owner'[j] # NoClient =>
        \/ InQueue(j)'
        \/ \E w \in Busy' : wjob'[w] = j
        \/ calls'[j] = 1 /\ result'[j] # "none"
  BY DEF HistoryOfPlace
<1>. QED  BY <1>1, <1>2, <1>3, <1>4 DEF HistoryOfPlace

\* A request moves deque - worker - called, and its history moves with it.
LEMMA HistoryStep ==
  ASSUME IInv, [Next]_vars
  PROVE  HistoryOfPlace'
<1> USE DEF IInv
<1>1. ASSUME NEW c \in Clients, NEW j \in Jobs, Submit(c, j) PROVE HistoryOfPlace'
  <2>1. /\ Busy' = Busy /\ wjob' = wjob /\ result' = result /\ calls' = calls
        /\ wpc' = wpc /\ owner[j] = NoClient /\ owner' = [owner EXCEPT ![j] = c]
    BY <1>1 DEF Submit, Busy
  <2>2. \A k : InQueue(k)' <=> InQueue(k) \/ k = j
    BY <1>1, PushBack DEF Submit
  <2>3. \A k \in Jobs : owner'[k] = IF k = j THEN c ELSE owner[k]
    BY <2>1 DEF TypeOK
  <2>4. c # NoClient
    BY IoEngineAssumption
  <2>5. \A w \in Busy : wjob[w] \in Jobs
    BY DEF Custody, Busy
  <2>. QED  BY <2>1, <2>2, <2>3, <2>4, <2>5 DEF HistoryOfPlace
<1>2. ASSUME NEW c \in Clients, BeginDrain(c) PROVE HistoryOfPlace'
  BY <1>2, HistoryFrame DEF BeginDrain, Busy
<1>3. ASSUME NEW c \in Clients, ClientStep(c) PROVE HistoryOfPlace'
  <2>1. CASE NotifyOne(c)
    <3>1. /\ Busy' = Busy /\ wjob' = wjob /\ q' = q
          /\ owner' = owner /\ result' = result /\ calls' = calls
          /\ \A w \in Busy : wpc'[w] = wpc[w]
      BY <2>1 DEF NotifyOne, Busy, TypeOK
    <3>. QED  BY <3>1, HistoryFrame
  <2>2. CASE DrainReturn(c)  BY <2>2, HistoryFrame DEF DrainReturn, Busy
  <2>3. CASE DrainSleep(c)  BY <2>3, HistoryFrame DEF DrainSleep, Busy
  <2>. QED  BY <1>3, <2>1, <2>2, <2>3 DEF ClientStep
<1>4. ASSUME NEW w \in Workers, WorkerStep(w) PROVE HistoryOfPlace'
  <2>0. ASSUME w \in Busy
        PROVE  /\ wjob[w] \in Jobs  /\ ~InQueue(wjob[w])
               /\ \A v \in Busy : wjob[v] = wjob[w] => v = w
               /\ \A v \in Busy : wjob[v] \in Jobs
    BY <2>0 DEF Custody, Busy
  <2>1. CASE WorkerSleep(w)
    BY <2>1, HistoryFrame DEF WorkerSleep, Busy, TypeOK
  <2>2. CASE WorkerExit(w)
    BY <2>2, HistoryFrame DEF WorkerExit, Busy, TypeOK
  <2>3. CASE TakeJob(w)
    <3>1. /\ Busy' = Busy \cup {w} /\ w \notin Busy
          /\ \A v \in Busy : wpc'[v] = wpc[v] /\ wjob'[v] = wjob[v]
          /\ wpc'[w] = "read" /\ wjob'[w] = Head(q)
          /\ owner' = owner /\ result' = result /\ calls' = calls
      BY <2>3 DEF TakeJob, Busy, TypeOK
    <3>2. /\ Head(q) \in Jobs /\ InQueue(Head(q))
          /\ \A k : InQueue(k)' => InQueue(k)
          /\ \A k : InQueue(k) /\ k # Head(q) => InQueue(k)'
      BY <2>3, PopFront DEF TakeJob
    <3>. QED  BY <3>1, <3>2 DEF HistoryOfPlace
  <2>4. CASE ReadAt(w)
    <3>1. /\ Busy' = Busy /\ w \in Busy /\ wjob' = wjob /\ q' = q
          /\ owner' = owner /\ calls' = calls
          /\ wpc[w] = "read" /\ wpc'[w] = "finish"
          /\ \A v \in Busy : v # w => wpc'[v] = wpc[v]
      BY <2>4 DEF ReadAt, Busy, TypeOK
    <3>2. /\ result'[wjob[w]] # "none"
          /\ \A j \in Jobs : j # wjob[w] => result'[j] = result[j]
      BY <2>0, <2>4, <3>1 DEF ReadAt, TypeOK
    <3>3. \A j : InQueue(j)' <=> InQueue(j)
      BY <3>1 DEF InQueue
    <3>. QED  BY <2>0, <3>1, <3>2, <3>3 DEF HistoryOfPlace
  <2>5. CASE CountDown(w)
    <3>1. /\ Busy' = Busy /\ wjob' = wjob /\ q' = q
          /\ owner' = owner /\ result' = result /\ calls' = calls
          /\ wpc[w] = "finish" /\ wpc'[w] = "call"
          /\ \A v \in Busy : v # w => wpc'[v] = wpc[v]
      BY <2>5 DEF CountDown, Busy, TypeOK
    <3>. QED  BY <3>1, HistoryFrame
  <2>6. CASE CallBack(w)
    <3>1. /\ Busy' = Busy /\ w \in Busy /\ wjob' = wjob /\ q' = q
          /\ owner' = owner /\ result' = result
          /\ wpc[w] = "call" /\ wpc'[w] = "called"
          /\ \A v \in Busy : v # w => wpc'[v] = wpc[v]
      BY <2>6 DEF CallBack, Busy, TypeOK
    <3>2. /\ calls'[wjob[w]] = calls[wjob[w]] + 1
          /\ \A j \in Jobs : j # wjob[w] => calls'[j] = calls[j]
      BY <2>0, <2>6, <3>1 DEF CallBack, TypeOK
    <3>3. \A j : InQueue(j)' <=> InQueue(j)
      BY <3>1 DEF InQueue
    <3>. QED  BY <2>0, <3>1, <3>2, <3>3 DEF HistoryOfPlace
  <2>7. CASE NotifyDone(w)
    <3>1. /\ w \in Busy /\ Busy' = Busy \ {w} /\ q' = q /\ wpc[w] = "called"
          /\ owner' = owner /\ result' = result /\ calls' = calls
          /\ \A v \in Busy' : wpc'[v] = wpc[v] /\ wjob'[v] = wjob[v]
      BY <2>7 DEF NotifyDone, Busy, TypeOK
    <3>2. \A j : InQueue(j)' <=> InQueue(j)
      BY <3>1 DEF InQueue
    <3>. QED  BY <2>0, <3>1, <3>2 DEF HistoryOfPlace
  <2>. QED  BY <1>4, <2>1, <2>2, <2>3, <2>4, <2>5, <2>6, <2>7 DEF WorkerStep
<1>5. CASE SetStop  BY <1>5, HistoryFrame DEF SetStop, workerVars, Busy
<1>6. CASE DestructorStep
  <2>1. CASE NotifyAll
    BY <2>1, HistoryFrame DEF NotifyAll, Busy, TypeOK
  <2>2. CASE Join  BY <2>2, HistoryFrame DEF Join, workerVars, Busy
  <2>. QED  BY <1>6, <2>1, <2>2 DEF DestructorStep
<1>7. CASE UNCHANGED vars  BY <1>7, HistoryFrame DEF vars, Busy
<1>. QED  BY <1>1, <1>2, <1>3, <1>4, <1>5, <1>6, <1>7 DEF Next

(***************************************************************************)
(* Shutdown and the fence.                                                 *)
(***************************************************************************)

\* Once a worker has left, no request can be queued any more.
LEMMA ExitedStep ==
  ASSUME IInv, [Next]_vars
  PROVE  ExitedMeansDrained'
<1> USE DEF IInv
<1>1. ASSUME NEW c \in Clients, NEW j \in Jobs, Submit(c, j)
      PROVE  ExitedMeansDrained'
  BY <1>1 DEF Submit, ExitedMeansDrained, Stop
<1>2. ASSUME NEW c \in Clients, BeginDrain(c) PROVE ExitedMeansDrained'
  BY <1>2 DEF BeginDrain, ExitedMeansDrained, Stop
<1>3. ASSUME NEW c \in Clients, ClientStep(c) PROVE ExitedMeansDrained'
  BY <1>3 DEF ClientStep, NotifyOne, DrainReturn, DrainSleep, TypeOK,
              ExitedMeansDrained, Stop
<1>4. ASSUME NEW w \in Workers, WorkerStep(w) PROVE ExitedMeansDrained'
  <2>1. CASE TakeJob(w)
    BY <2>1 DEF TakeJob, TypeOK, ExitedMeansDrained, Stop
  <2>2. CASE WorkerExit(w)
    BY <2>2 DEF WorkerExit, TypeOK, ExitedMeansDrained, Stop
  <2>3. CASE \/ WorkerSleep(w) \/ ReadAt(w) \/ CountDown(w)
             \/ CallBack(w) \/ NotifyDone(w)
    <3>1. /\ q' = q /\ life' = life
          /\ \A v \in Workers : wpc'[v] = "exited" <=> wpc[v] = "exited"
      BY <2>3 DEF WorkerSleep, ReadAt, CountDown, CallBack, NotifyDone, TypeOK
    <3>. QED  BY <3>1 DEF ExitedMeansDrained, Stop
  <2>. QED  BY <1>4, <2>1, <2>2, <2>3 DEF WorkerStep
<1>5. CASE SetStop
  BY <1>5 DEF SetStop, workerVars, ExitedMeansDrained, Stop
<1>6. CASE DestructorStep
  BY <1>6 DEF DestructorStep, NotifyAll, Join, workerVars, TypeOK,
              ExitedMeansDrained, Stop
<1>7. CASE UNCHANGED vars  BY <1>7 DEF vars, ExitedMeansDrained, Stop
<1>. QED  BY <1>1, <1>2, <1>3, <1>4, <1>5, <1>6, <1>7 DEF Next

\* A zero count means no request is queued or being read.
LEMMA ZeroCount ==
  ASSUME IInv, inflight = 0
  PROVE  Holding = {} /\ \A j : ~InQueue(j)
<1>1. Len(q) \in Nat
  BY DEF IInv, TypeOK
<1>2. Len(q) = 0 /\ Cardinality(Holding) = 0
  BY <1>1, HoldingFinite DEF IInv, InflightExact
<1>3. Holding = {}
  BY <1>2, HoldingFinite, FS_EmptySet
<1>. QED  BY <1>2, <1>3 DEF InQueue

\* drain() returns on a zero count, when every request has its result.
LEMMA FenceStep ==
  ASSUME IInv, [Next]_vars
  PROVE  FenceHistory'
<1> USE DEF IInv
<1>0. ASSUME cpc' = cpc, owner' = owner, result' = result PROVE FenceHistory'
  BY <1>0 DEF FenceHistory
<1>1. ASSUME NEW c \in Clients, NEW j \in Jobs, Submit(c, j) PROVE FenceHistory'
  BY <1>1, IoEngineAssumption DEF Submit, FenceHistory, TypeOK
<1>2. ASSUME NEW c \in Clients, BeginDrain(c) PROVE FenceHistory'
  BY <1>2 DEF BeginDrain, FenceHistory, TypeOK
<1>3. ASSUME NEW c \in Clients, ClientStep(c) PROVE FenceHistory'
  <2>1. CASE NotifyOne(c)  BY <2>1 DEF NotifyOne, FenceHistory, TypeOK
  <2>2. CASE DrainReturn(c)
    <3>1. \A j \in Jobs : owner[j] # NoClient => result[j] # "none"
      BY <2>2, ZeroCount DEF DrainReturn, HistoryOfPlace, Holding, Busy
    <3>2. c # NoClient
      BY IoEngineAssumption
    <3>. QED  BY <2>2, <3>1, <3>2 DEF DrainReturn, FenceHistory, TypeOK
  <2>3. CASE DrainSleep(c)  BY <2>3 DEF DrainSleep, FenceHistory, TypeOK
  <2>. QED  BY <1>3, <2>1, <2>2, <2>3 DEF ClientStep
<1>4. ASSUME NEW w \in Workers, WorkerStep(w) PROVE FenceHistory'
  <2>1. CASE ReadAt(w)  BY <2>1 DEF ReadAt, FenceHistory, TypeOK
  <2>2. CASE NotifyDone(w)  BY <2>2 DEF NotifyDone, FenceHistory, TypeOK
  <2>. QED  BY <1>4, <2>1, <2>2, <1>0
            DEF WorkerStep, WorkerSleep, WorkerExit, TakeJob, CountDown, CallBack
<1>5. CASE SetStop  BY <1>5, <1>0 DEF SetStop
<1>6. CASE DestructorStep  BY <1>6, <1>0 DEF DestructorStep, NotifyAll, Join
<1>7. CASE UNCHANGED vars  BY <1>7, <1>0 DEF vars
<1>. QED  BY <1>1, <1>2, <1>3, <1>4, <1>5, <1>6, <1>7 DEF Next

(***************************************************************************)
(* The theorems.                                                           *)
(***************************************************************************)

\* The inductive invariant holds throughout.
THEOREM InvariantHolds == Spec => []IInv
<1>1. Init => InflightExact /\ Custody /\ HistoryOfPlace
              /\ ExitedMeansDrained /\ FenceHistory
  <2> SUFFICES ASSUME Init
               PROVE  InflightExact /\ Custody /\ HistoryOfPlace
                      /\ ExitedMeansDrained /\ FenceHistory
    OBVIOUS
  <2>1. Len(q) = 0 /\ Holding = {} /\ Busy = {} /\ \A j : ~InQueue(j)
    BY DEF Init, Holding, Busy, InQueue
  <2>2. InflightExact
    BY <2>1, FS_EmptySet DEF Init, InflightExact
  <2>. QED  BY <2>1, <2>2, IoEngineAssumption
            DEF Init, Custody, HistoryOfPlace, ExitedMeansDrained, FenceHistory
<1>2. IInv /\ [Next]_vars => IInv'
  BY TypeStep, CountStep, CustodyStep, HistoryStep, ExitedStep, FenceStep DEF IInv
<1>3. Init => TypeOK
  BY DEF Init, TypeOK
<1>4. Init => IInv
  BY <1>1, <1>3 DEF IInv
<1>. QED  BY <1>2, <1>4, PTL DEF Spec

\* Every variable keeps its type; inflight_ is never negative.
THEOREM TypeCorrect == Spec => []TypeOK
<1>1. IInv => TypeOK
  BY DEF IInv
<1>. QED  BY <1>1, InvariantHolds, PTL

\* inflight_ is the number of requests queued or being read.
THEOREM InflightCorrect == Spec => []InflightExact
<1>1. IInv => InflightExact
  BY DEF IInv
<1>. QED  BY <1>1, InvariantHolds, PTL

\* After drain() no read of the caller is outstanding: its buffers are final.
THEOREM FenceCorrect == Spec => []DrainFencesBuffers
<1>1. IInv => DrainFencesBuffers
  BY DEF IInv, DrainFencesBuffers, FenceHistory, HistoryOfPlace, Custody, Busy,
         TypeOK
<1>. QED  BY <1>1, InvariantHolds, PTL

\* Each callback runs at most once, and only for a final buffer.
THEOREM CallbacksCorrect == Spec => []CallbackOnce
<1>1. IInv => CallbackOnce
  <2> SUFFICES ASSUME IInv, NEW j \in Jobs
               PROVE  /\ calls[j] <= 1
                      /\ calls[j] = 1 => result[j] # "none" /\ ~InQueue(j)
    BY DEF CallbackOnce
  <2> USE DEF IInv
  <2>1. CASE owner[j] = NoClient \/ InQueue(j)
    BY <2>1 DEF HistoryOfPlace
  <2>2. CASE ~InQueue(j) /\ \E w \in Busy : wjob[w] = j
    BY <2>2 DEF HistoryOfPlace
  <2>. QED  BY <2>1, <2>2 DEF HistoryOfPlace
<1>. QED  BY <1>1, InvariantHolds, PTL

\* The destructor returns only when every request was read and called back.
THEOREM JoinCorrect == Spec => []JoinLosesNothing
<1>1. IInv => JoinLosesNothing
  <2> SUFFICES ASSUME IInv, life = "gone", NEW j \in Jobs, owner[j] # NoClient
               PROVE  calls[j] = 1
    BY DEF JoinLosesNothing
  <2> USE DEF IInv
  <2>1. \A w \in Workers : wpc[w] = "exited"
    BY DEF ExitedMeansDrained
  <2>2. q = <<>> /\ Busy = {}
    BY <2>1, IoEngineAssumption DEF ExitedMeansDrained, Busy
  <2>. QED  BY <2>2 DEF HistoryOfPlace, InQueue
<1>. QED  BY <1>1, InvariantHolds, PTL

(***************************************************************************)
(* Refinement: the thread pool does nothing IoContract does not allow.     *)
(***************************************************************************)

\* A step that leaves owners, places and callback counts alone leaves the
\* abstract requests alone.
LEMMA JobFrame ==
  ASSUME owner' = owner, calls' = calls,
         \A j \in Jobs : Pending(j)' <=> Pending(j)
  PROVE  jobStatus' = jobStatus
BY DEF jobStatus

\* One request changes its status to s, the others keep theirs.
LEMMA JobUpdate ==
  ASSUME NEW j \in Jobs, NEW s, jobStatus'[j] = s,
         \A k \in Jobs \ {j} : owner'[k] = owner[k] /\ calls'[k] = calls[k]
                              /\ (Pending(k)' <=> Pending(k))
  PROVE  jobStatus' = [jobStatus EXCEPT ![j] = s]
BY DEF jobStatus

\* The abstract fences are a function of the clients' places alone.
LEMMA FenceFrame ==
  ASSUME cpc' = cpc
  PROVE  fenceStatus' = fenceStatus
BY DEF fenceStatus

\* The abstract life cycle is a function of life alone.
LEMMA LifeFrame ==
  ASSUME life' = life
  PROVE  lifeStatus' = lifeStatus
BY DEF lifeStatus

\* Each step of the pool is a step of the contract or a stutter of it.
LEMMA StepRefines ==
  ASSUME IInv, [Next]_vars
  PROVE  [Contract!Next]_(Contract!vars)
<1> USE DEF IInv
<1>0. ASSUME jobStatus' = jobStatus, fenceStatus' = fenceStatus, lifeStatus' = lifeStatus
      PROVE  [Contract!Next]_(Contract!vars)
  BY <1>0 DEF Contract!vars
<1>p. ASSUME q' = q, wjob' = wjob, Holding' = Holding
      PROVE  \A j \in Jobs : Pending(j)' <=> Pending(j)
  BY <1>p DEF Pending, InQueue
<1>1. ASSUME NEW c \in Clients, NEW j \in Jobs, Submit(c, j)
      PROVE  Contract!Submit(c, j)
  <2>1. /\ Holding' = Holding /\ wjob' = wjob /\ calls' = calls
        /\ \A k : InQueue(k)' <=> InQueue(k) \/ k = j
    BY <1>1, PushBack DEF Submit, Holding
  <2>2. \A k \in Jobs : owner'[k] = IF k = j THEN c ELSE owner[k]
    BY <1>1 DEF Submit, TypeOK
  <2>3. jobStatus[j] = "new" /\ jobStatus'[j] = "pending"
    BY <1>1, <2>1, <2>2, IoEngineAssumption DEF Submit, jobStatus, Pending
  <2>4. jobStatus' = [jobStatus EXCEPT ![j] = "pending"]
    BY <2>1, <2>2, <2>3, JobUpdate DEF Pending
  <2>5. fenceStatus[c] # "waiting" /\ fenceStatus' = [fenceStatus EXCEPT ![c] = "out"]
    BY <1>1 DEF Submit, Outside, fenceStatus, TypeOK
  <2>6. lifeStatus = "open" /\ lifeStatus' = lifeStatus
    BY <1>1 DEF Submit, lifeStatus
  <2>. QED  BY <2>3, <2>4, <2>5, <2>6 DEF Contract!Submit
<1>2. ASSUME NEW c \in Clients, BeginDrain(c) PROVE Contract!BeginDrain(c)
  <2>1. jobStatus' = jobStatus
    BY <1>2, <1>p, JobFrame DEF BeginDrain, Holding
  <2>2. fenceStatus[c] # "waiting" /\ fenceStatus' = [fenceStatus EXCEPT ![c] = "waiting"]
    BY <1>2 DEF BeginDrain, Outside, fenceStatus, TypeOK
  <2>3. lifeStatus = "open" /\ lifeStatus' = lifeStatus
    BY <1>2 DEF BeginDrain, lifeStatus
  <2>. QED  BY <2>1, <2>2, <2>3 DEF Contract!BeginDrain
<1>3. ASSUME NEW c \in Clients, DrainReturn(c) PROVE Contract!EndDrain(c)
  <2>1. jobStatus' = jobStatus
    BY <1>3, <1>p, JobFrame DEF DrainReturn, Holding
  <2>2. \A j \in Jobs : jobStatus[j] # "pending"
    BY <1>3, ZeroCount DEF DrainReturn, jobStatus, Pending
  <2>3. fenceStatus[c] = "waiting" /\ fenceStatus' = [fenceStatus EXCEPT ![c] = "passed"]
    BY <1>3 DEF DrainReturn, fenceStatus, TypeOK
  <2>4. lifeStatus' = lifeStatus
    BY <1>3 DEF DrainReturn, lifeStatus
  <2>. QED  BY <2>1, <2>2, <2>3, <2>4 DEF Contract!EndDrain, Contract!NonePending
<1>4. ASSUME NEW c \in Clients, NotifyOne(c) \/ DrainSleep(c)
      PROVE  [Contract!Next]_(Contract!vars)
  <2>1. /\ Holding' = Holding /\ q' = q /\ wjob' = wjob
        /\ owner' = owner /\ calls' = calls /\ life' = life
    BY <1>4 DEF NotifyOne, DrainSleep, Holding, TypeOK
  <2>2. fenceStatus' = fenceStatus
    BY <1>4 DEF NotifyOne, DrainSleep, fenceStatus, TypeOK
  <2>. QED  BY <2>1, <2>2, <1>0, <1>p, JobFrame, LifeFrame
<1>5. ASSUME NEW w \in Workers, CountDown(w)
      PROVE  \E j \in Jobs : Contract!Settle(j)
  <2>1. /\ w \in Holding /\ w \in Busy /\ Holding' = Holding \ {w} /\ wpc[w] = "finish"
        /\ wjob' = wjob /\ q' = q /\ owner' = owner /\ calls' = calls
    BY <1>5 DEF CountDown, Holding, Busy, TypeOK
  <2>2. /\ wjob[w] \in Jobs /\ ~InQueue(wjob[w])
        /\ \A v \in Holding : wjob[v] = wjob[w] => v = w
        /\ owner[wjob[w]] # NoClient /\ calls[wjob[w]] = 0
    BY <2>1 DEF Custody, HistoryOfPlace, Busy, Holding
  <2>3. jobStatus[wjob[w]] = "pending"
    BY <2>1, <2>2 DEF jobStatus, Pending
  <2>4. \A k : InQueue(k)' <=> InQueue(k)
    BY <2>1 DEF InQueue
  <2>5. ASSUME NEW j \in Jobs, j = wjob[w] PROVE jobStatus'[j] = "settled"
    BY <2>1, <2>2, <2>4, <2>5 DEF jobStatus, Pending
  <2>6. ASSUME NEW j \in Jobs, j = wjob[w]
        PROVE  jobStatus' = [jobStatus EXCEPT ![j] = "settled"]
    BY <2>1, <2>4, <2>5, <2>6, JobUpdate DEF Pending
  <2>7. fenceStatus' = fenceStatus /\ lifeStatus' = lifeStatus
    BY <1>5, FenceFrame, LifeFrame DEF CountDown
  <2>. QED  BY <2>2, <2>3, <2>6, <2>7 DEF Contract!Settle
<1>6. ASSUME NEW w \in Workers, CallBack(w)
      PROVE  \E j \in Jobs : Contract!Call(j)
  <2>1. /\ w \in Busy /\ Holding' = Holding /\ w \notin Holding /\ wpc[w] = "call"
        /\ wjob' = wjob /\ q' = q /\ owner' = owner
    BY <1>6 DEF CallBack, Holding, Busy, TypeOK
  <2>2. /\ wjob[w] \in Jobs /\ ~InQueue(wjob[w])
        /\ \A v \in Holding : wjob[v] # wjob[w]
        /\ owner[wjob[w]] # NoClient /\ calls[wjob[w]] = 0
    BY <2>1 DEF Custody, HistoryOfPlace, Busy, Holding
  <2>3. jobStatus[wjob[w]] = "settled"
    BY <2>1, <2>2 DEF jobStatus, Pending
  <2>4. \A k \in Jobs : Pending(k)' <=> Pending(k)
    BY <2>1, <1>p
  <2>5. /\ calls'[wjob[w]] = 1
        /\ \A k \in Jobs : k # wjob[w] => calls'[k] = calls[k]
    BY <1>6, <2>2 DEF CallBack, TypeOK
  <2>6. ASSUME NEW j \in Jobs, j = wjob[w]
        PROVE  jobStatus' = [jobStatus EXCEPT ![j] = "called"]
    <3>1. jobStatus'[j] = "called"
      BY <2>1, <2>2, <2>4, <2>5, <2>6 DEF jobStatus, Pending
    <3>. QED  BY <2>1, <2>4, <2>5, <2>6, <3>1, JobUpdate
  <2>7. fenceStatus' = fenceStatus /\ lifeStatus' = lifeStatus
    BY <1>6, FenceFrame, LifeFrame DEF CallBack
  <2>. QED  BY <2>2, <2>3, <2>6, <2>7 DEF Contract!Call
<1>7. ASSUME NEW w \in Workers, TakeJob(w)
      PROVE  [Contract!Next]_(Contract!vars)
  <2>1. /\ Holding' = Holding \cup {w} /\ w \notin Busy /\ wjob'[w] = Head(q)
        /\ \A v \in Holding : wjob'[v] = wjob[v]
        /\ owner' = owner /\ calls' = calls
    BY <1>7 DEF TakeJob, Holding, Busy, TypeOK
  <2>2. /\ Head(q) \in Jobs /\ InQueue(Head(q))
        /\ \A k : InQueue(k)' => InQueue(k)
        /\ \A k : InQueue(k) /\ k # Head(q) => InQueue(k)'
    BY <1>7, PopFront DEF TakeJob
  <2>3. \A j \in Jobs : Pending(j)' <=> Pending(j)
    BY <2>1, <2>2 DEF Pending
  <2>. QED  BY <2>1, <2>3, <1>0, <1>7, JobFrame, FenceFrame, LifeFrame DEF TakeJob
<1>8. ASSUME NEW w \in Workers, WorkerSleep(w) \/ WorkerExit(w) \/ ReadAt(w)
      PROVE  [Contract!Next]_(Contract!vars)
  <2>1. /\ Holding' = Holding /\ q' = q /\ wjob' = wjob /\ cpc' = cpc
        /\ owner' = owner /\ calls' = calls /\ life' = life
    BY <1>8 DEF WorkerSleep, WorkerExit, ReadAt, Holding, TypeOK
  <2>. QED  BY <2>1, <1>0, <1>p, JobFrame, FenceFrame, LifeFrame
<1>9. ASSUME NEW w \in Workers, NotifyDone(w)
      PROVE  [Contract!Next]_(Contract!vars)
  <2>1. /\ Holding' = Holding /\ w \notin Holding /\ q' = q
        /\ \A v \in Holding : wjob'[v] = wjob[v]
        /\ owner' = owner /\ calls' = calls /\ life' = life
    BY <1>9 DEF NotifyDone, Holding, TypeOK
  <2>2. \A j \in Jobs : Pending(j)' <=> Pending(j)
    BY <2>1 DEF Pending, InQueue
  <2>3. fenceStatus' = fenceStatus
    BY <1>9 DEF NotifyDone, fenceStatus, TypeOK
  <2>. QED  BY <2>1, <2>2, <2>3, <1>0, JobFrame, LifeFrame
<1>10. CASE SetStop
  <2>1. jobStatus' = jobStatus /\ fenceStatus' = fenceStatus
    BY <1>10, <1>p, JobFrame, FenceFrame DEF SetStop, workerVars, Holding
  <2>2. /\ lifeStatus = "open" /\ lifeStatus' = "closing"
        /\ \A c \in Clients : fenceStatus[c] # "waiting"
    BY <1>10 DEF SetStop, lifeStatus, fenceStatus, Outside
  <2>3. Contract!BeginClose
    BY <2>1, <2>2 DEF Contract!BeginClose
  <2>. QED  BY <2>3 DEF Contract!Next
<1>11. CASE NotifyAll
  <2>1. /\ Holding' = Holding /\ q' = q /\ wjob' = wjob /\ cpc' = cpc
        /\ owner' = owner /\ calls' = calls /\ lifeStatus' = lifeStatus
    BY <1>11 DEF NotifyAll, Holding, lifeStatus, TypeOK
  <2>. QED  BY <2>1, <1>0, <1>p, JobFrame, FenceFrame
<1>12. CASE Join
  <2>1. jobStatus' = jobStatus /\ fenceStatus' = fenceStatus
    BY <1>12, <1>p, JobFrame, FenceFrame DEF Join, workerVars, Holding
  <2>2. q = <<>> /\ Busy = {} /\ Holding = {}
    BY <1>12, IoEngineAssumption DEF Join, ExitedMeansDrained, Busy, Holding
  <2>3. \A j \in Jobs : jobStatus[j] \in {"new", "called"}
    BY <2>2 DEF HistoryOfPlace, InQueue, jobStatus, Pending
  <2>4. lifeStatus = "closing" /\ lifeStatus' = "closed"
    BY <1>12 DEF Join, lifeStatus
  <2>5. Contract!EndClose
    BY <2>1, <2>3, <2>4 DEF Contract!EndClose
  <2>. QED  BY <2>5 DEF Contract!Next
<1>13. CASE UNCHANGED vars
  <2>1. Holding' = Holding
    BY <1>13 DEF vars, Holding
  <2>. QED  BY <2>1, <1>13, <1>0, <1>p, JobFrame, FenceFrame, LifeFrame DEF vars
<1>. QED
  BY <1>1, <1>2, <1>3, <1>4, <1>5, <1>6, <1>7, <1>8, <1>9, <1>10, <1>11, <1>12, <1>13
  DEF Next, WorkerStep, ClientStep, DestructorStep, Contract!Next

\* Every behaviour of the pool is, through the mapping, one of IoContract.
THEOREM RefinesContract == Spec => Contract!Safety
<1>1. Init => Contract!Init
  <2> SUFFICES ASSUME Init PROVE Contract!Init
    OBVIOUS
  <2>1. jobStatus = [j \in Jobs |-> "new"]
    BY DEF Init, jobStatus
  <2>2. fenceStatus = [c \in Clients |-> "out"]
    BY DEF Init, fenceStatus
  <2>3. lifeStatus = "open"
    BY DEF Init, lifeStatus
  <2>. QED  BY <2>1, <2>2, <2>3 DEF Contract!Init
<1>2. IInv /\ [Next]_vars => [Contract!Next]_(Contract!vars)
  BY StepRefines
<1>. QED  BY <1>1, <1>2, InvariantHolds, PTL DEF Spec, Contract!Safety
=============================================================================
