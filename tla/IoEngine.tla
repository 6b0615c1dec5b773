----------------------------- MODULE IoEngine -----------------------------
(***************************************************************************)
(* ThreadIoEngine (src/src/weights/io_engine.cpp): a pool of worker        *)
(* threads pops positioned reads from a deque, reads into the caller's     *)
(* buffer, takes the request off the in-flight count and only then, with   *)
(* no lock held, runs its callback.  drain() waits for a zero count.       *)
(*                                                                         *)
(* One action per critical section of m_, per read and per callback, so    *)
(* that every interleaving of workers, callers and the destructor is a     *)
(* behaviour.  The file handle cache (file_for) only decides whether a     *)
(* read succeeds, which ReadAt leaves open.                                *)
(***************************************************************************)
EXTENDS Integers, Sequences, FiniteSets

CONSTANTS Jobs,      \* one element per submit() call: bounds the run
          Workers,   \* ws_
          Clients,   \* the threads that share the engine
          NoJob,     \* a worker between two jobs
          NoClient   \* the owner of a request not submitted yet

ASSUME IoEngineAssumption ==
  /\ IsFiniteSet(Workers)
  /\ Workers # {}
  /\ NoJob \notin Jobs
  /\ NoClient \notin Clients

VARIABLES
  q,         \* q_: the deque of requests no worker has taken
  inflight,  \* inflight_
  wpc,       \* where each worker stands in worker_loop
  wjob,      \* its local `job`
  widle,     \* its local `idle`
  cpc,       \* where each client stands
  life,      \* "open", then the destructor: "stopping", "joining", "gone"
  owner,     \* history: who submitted the request
  result,    \* history: "none", or what read_at returned ("ok", "failed")
  calls      \* history: how often the callback of the request has run

workerVars == <<wpc, wjob, widle>>
vars == <<q, inflight, wpc, wjob, widle, cpc, life, owner, result, calls>>

\* stop_, which only the destructor sets.
Stop == life # "open"

\* A worker that holds a request it still counts in inflight_.
Holding == {w \in Workers : wpc[w] \in {"read", "finish"}}

InQueue(j) == \E i \in 1..Len(q) : q[i] = j

Init ==
  /\ q = <<>>
  /\ inflight = 0
  /\ wpc = [w \in Workers |-> "top"]
  /\ wjob = [w \in Workers |-> NoJob]
  /\ widle = [w \in Workers |-> FALSE]
  /\ cpc = [c \in Clients |-> "out"]
  /\ life = "open"
  /\ owner = [j \in Jobs |-> NoClient]
  /\ result = [j \in Jobs |-> "none"]
  /\ calls = [j \in Jobs |-> 0]

---------------------------------------------------------------------------
(* The callers. *)

\* A client outside every engine call, its last fence passed or not.
Outside(c) == cpc[c] \in {"out", "passed"}

\* The critical section of submit().
Submit(c, j) ==
  /\ life = "open"
  /\ Outside(c)
  /\ owner[j] = NoClient
  /\ owner' = [owner EXCEPT ![j] = c]
  /\ q' = Append(q, j)
  /\ inflight' = inflight + 1
  /\ cpc' = [cpc EXCEPT ![c] = "notify"]
  /\ UNCHANGED <<wpc, wjob, widle, life, result, calls>>

\* cv_.notify_one() at the end of submit(): wakes one sleeping worker, if any.
NotifyOne(c) ==
  /\ cpc[c] = "notify"
  /\ cpc' = [cpc EXCEPT ![c] = "out"]
  /\ \/ \E w \in Workers : /\ wpc[w] = "sleep"
                           /\ wpc' = [wpc EXCEPT ![w] = "top"]
     \/ /\ \A w \in Workers : wpc[w] # "sleep"
        /\ UNCHANGED wpc
  /\ UNCHANGED <<q, inflight, wjob, widle, life, owner, result, calls>>

BeginDrain(c) ==
  /\ life = "open"
  /\ Outside(c)
  /\ cpc' = [cpc EXCEPT ![c] = "drain"]
  /\ UNCHANGED <<q, inflight, wpc, wjob, widle, life, owner, result, calls>>

\* Mutant: the fence looks at the deque, not at what workers still read.
DrainReturnOnEmptyQueue(c) ==
  /\ cpc[c] = "drain"
  /\ q = <<>>
  /\ cpc' = [cpc EXCEPT ![c] = "passed"]
  /\ UNCHANGED <<q, inflight, wpc, wjob, widle, life, owner, result, calls>>

\* done_cv_.wait found its predicate true: drain() returns.
DrainReturn(c) ==
  /\ cpc[c] = "drain"
  /\ inflight = 0
  /\ cpc' = [cpc EXCEPT ![c] = "passed"]
  /\ UNCHANGED <<q, inflight, wpc, wjob, widle, life, owner, result, calls>>

\* The predicate is false: sleep until a worker notifies done_cv_.
DrainSleep(c) ==
  /\ cpc[c] = "drain"
  /\ inflight # 0
  /\ cpc' = [cpc EXCEPT ![c] = "sleep"]
  /\ UNCHANGED <<q, inflight, wpc, wjob, widle, life, owner, result, calls>>

---------------------------------------------------------------------------
(* worker_loop. *)

\* cv_.wait's predicate is false: the worker sleeps.
WorkerSleep(w) ==
  /\ wpc[w] = "top"
  /\ q = <<>>
  /\ ~Stop
  /\ wpc' = [wpc EXCEPT ![w] = "sleep"]
  /\ UNCHANGED <<q, inflight, wjob, widle, cpc, life, owner, result, calls>>

\* Mutant: a stopped worker leaves with requests still queued.
WorkerExitAtOnce(w) ==
  /\ wpc[w] = "top"
  /\ Stop
  /\ wpc' = [wpc EXCEPT ![w] = "exited"]
  /\ UNCHANGED <<q, inflight, wjob, widle, cpc, life, owner, result, calls>>

\* Stopped, and nothing left to read.
WorkerExit(w) ==
  /\ wpc[w] = "top"
  /\ q = <<>>
  /\ Stop
  /\ wpc' = [wpc EXCEPT ![w] = "exited"]
  /\ UNCHANGED <<q, inflight, wjob, widle, cpc, life, owner, result, calls>>

\* Move the front of the deque to the worker and leave the lock.
TakeJob(w) ==
  /\ wpc[w] = "top"
  /\ q # <<>>
  /\ wjob' = [wjob EXCEPT ![w] = Head(q)]
  /\ q' = Tail(q)
  /\ wpc' = [wpc EXCEPT ![w] = "read"]
  /\ UNCHANGED <<inflight, widle, cpc, life, owner, result, calls>>

\* file_for and read_at, or the catch (...): the buffer is final, and ec says
\* whether every byte arrived.
ReadAt(w) ==
  /\ wpc[w] = "read"
  /\ \E r \in {"ok", "failed"} : result' = [result EXCEPT ![wjob[w]] = r]
  /\ wpc' = [wpc EXCEPT ![w] = "finish"]
  /\ UNCHANGED <<q, inflight, wjob, widle, cpc, life, owner, calls>>

\* Mutant: `idle` is computed before the decrement.
CountDownIdleFirst(w) ==
  /\ wpc[w] = "finish"
  /\ inflight' = inflight - 1
  /\ widle' = [widle EXCEPT ![w] = inflight = 0]
  /\ wpc' = [wpc EXCEPT ![w] = "call"]
  /\ UNCHANGED <<q, wjob, cpc, life, owner, result, calls>>

\* The critical section after the read: --inflight_, and is it zero?
CountDown(w) ==
  /\ wpc[w] = "finish"
  /\ inflight' = inflight - 1
  /\ widle' = [widle EXCEPT ![w] = inflight' = 0]
  /\ wpc' = [wpc EXCEPT ![w] = "call"]
  /\ UNCHANGED <<q, wjob, cpc, life, owner, result, calls>>

\* job.cb(ec), after the request stopped counting and with no lock held.
CallBack(w) ==
  /\ wpc[w] = "call"
  /\ calls' = [calls EXCEPT ![wjob[w]] = @ + 1]
  /\ wpc' = [wpc EXCEPT ![w] = "called"]
  /\ UNCHANGED <<q, inflight, wjob, widle, cpc, life, owner, result>>

\* if (idle) done_cv_.notify_all(), and round the loop: `job` is destroyed.
NotifyDone(w) ==
  /\ wpc[w] = "called"
  /\ cpc' = [c \in Clients |->
               IF widle[w] /\ cpc[c] = "sleep" THEN "drain" ELSE cpc[c]]
  /\ wpc' = [wpc EXCEPT ![w] = "top"]
  /\ wjob' = [wjob EXCEPT ![w] = NoJob]
  /\ widle' = [widle EXCEPT ![w] = FALSE]
  /\ UNCHANGED <<q, inflight, life, owner, result, calls>>

---------------------------------------------------------------------------
(* ~ThreadIoEngine, run by the owner when no client is inside a call. *)

SetStop ==
  /\ life = "open"
  /\ \A c \in Clients : Outside(c)
  /\ life' = "stopping"
  /\ UNCHANGED <<q, inflight, workerVars, cpc, owner, result, calls>>

NotifyAll ==
  /\ life = "stopping"
  /\ life' = "joining"
  /\ wpc' = [w \in Workers |-> IF wpc[w] = "sleep" THEN "top" ELSE wpc[w]]
  /\ UNCHANGED <<q, inflight, wjob, widle, cpc, owner, result, calls>>

Join ==
  /\ life = "joining"
  /\ \A w \in Workers : wpc[w] = "exited"
  /\ life' = "gone"
  /\ UNCHANGED <<q, inflight, workerVars, cpc, owner, result, calls>>

---------------------------------------------------------------------------
WorkerStep(w) ==
  \/ WorkerSleep(w) \/ WorkerExit(w) \/ TakeJob(w) \/ ReadAt(w)
  \/ CountDown(w) \/ CallBack(w) \/ NotifyDone(w)

\* The rest of a call already entered.
ClientStep(c) == NotifyOne(c) \/ DrainReturn(c) \/ DrainSleep(c)

DestructorStep == NotifyAll \/ Join

Next ==
  \/ \E w \in Workers : WorkerStep(w)
  \/ \E c \in Clients : \/ \E j \in Jobs : Submit(c, j)
                        \/ BeginDrain(c)
                        \/ ClientStep(c)
  \/ SetStop
  \/ DestructorStep

\* Threads are scheduled: each worker and each call under way moves on.  No
\* fairness on starting a call, nor on destroying the engine.
Fairness ==
  /\ \A w \in Workers : WF_vars(WorkerStep(w))
  /\ \A c \in Clients : WF_vars(ClientStep(c))
  /\ WF_vars(DestructorStep)

Spec == Init /\ [][Next]_vars /\ Fairness
=============================================================================
