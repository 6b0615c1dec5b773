--------------------------- MODULE IoEngineProps ---------------------------
(***************************************************************************)
(* The properties of ThreadIoEngine and its refinement of IoContract.      *)
(***************************************************************************)
EXTENDS IoEngine

\* Types; submitted requests are the owned ones.
TypeOK ==
  /\ q \in Seq(Jobs)
  /\ inflight \in Nat
  /\ wpc \in [Workers -> {"top", "sleep", "read", "finish", "call", "called", "exited"}]
  /\ wjob \in [Workers -> Jobs \cup {NoJob}]
  /\ widle \in [Workers -> BOOLEAN]
  /\ cpc \in [Clients -> {"out", "notify", "drain", "sleep", "passed"}]
  /\ life \in {"open", "stopping", "joining", "gone"}
  /\ owner \in [Jobs -> Clients \cup {NoClient}]
  /\ result \in [Jobs -> {"none", "ok", "failed"}]
  /\ calls \in [Jobs -> Nat]

\* inflight_ counts exactly the requests that are queued or being read: the
\* number drain() waits for never runs ahead of nor behind the work
\* (io_engine.cpp:156 against :216).
InflightExact == inflight = Len(q) + Cardinality(Holding)

\* After its drain() returned, no request of the client is still to be read or
\* being read: every buffer it handed over is final (io_engine.h:27, :31).
DrainFencesBuffers ==
  \A c \in Clients : cpc[c] = "passed" =>
    \A j \in Jobs : owner[j] = c =>
      /\ result[j] # "none"
      /\ ~InQueue(j)
      /\ \A w \in Workers : wjob[w] = j => wpc[w] # "read"

\* A callback runs at most once, for a request whose buffer is final.
CallbackOnce ==
  \A j \in Jobs : /\ calls[j] <= 1
                  /\ calls[j] = 1 => result[j] # "none" /\ ~InQueue(j)

\* When the destructor has returned, every request ever submitted was read and
\* called back: stop_ does not drop what is queued (io_engine.cpp:196).
JoinLosesNothing ==
  life = "gone" => \A j \in Jobs : owner[j] # NoClient => calls[j] = 1

\* A drain() that was entered returns, although its only wake-up call is sent
\* without the lock by a worker that may be overtaken (io_engine.cpp:220); and the
\* destructor returns: no worker sleeps through stop_ (:142-149).
CallsReturn ==
  /\ \A c \in Clients : cpc[c] = "drain" ~> cpc[c] = "passed"
  /\ life = "stopping" ~> life = "gone"

---------------------------------------------------------------------------
(* The inductive invariant behind the safety properties: where a request   *)
(* can be at each moment, and what that says of its history.               *)

\* A worker between taking a request and going round the loop.
Busy == {w \in Workers : wpc[w] \in {"read", "finish", "call", "called"}}

\* A request is in one place: once in the deque, or with one worker.
Custody ==
  /\ \A i, k \in 1..Len(q) : q[i] = q[k] => i = k
  /\ \A w \in Workers : wjob[w] \in Jobs <=> w \in Busy
  /\ \A w \in Busy : ~InQueue(wjob[w])
  /\ \A v, w \in Busy : wjob[v] = wjob[w] => v = w

\* Its history agrees with the place; nothing submitted is ever nowhere.
HistoryOfPlace ==
  /\ \A j \in Jobs : InQueue(j) =>
       owner[j] # NoClient /\ result[j] = "none" /\ calls[j] = 0
  /\ \A w \in Busy :
       /\ owner[wjob[w]] # NoClient
       /\ result[wjob[w]] = "none" <=> wpc[w] = "read"
       /\ calls[wjob[w]] = IF wpc[w] = "called" THEN 1 ELSE 0
  /\ \A j \in Jobs : owner[j] = NoClient => result[j] = "none" /\ calls[j] = 0
  /\ \A j \in Jobs : owner[j] # NoClient =>
       \/ InQueue(j)
       \/ \E w \in Busy : wjob[w] = j
       \/ calls[j] = 1 /\ result[j] # "none"

\* A worker leaves only when stopped with an empty deque, which stays empty.
ExitedMeansDrained ==
  /\ \A w \in Workers : wpc[w] = "exited" => Stop /\ q = <<>>
  /\ life = "gone" => \A w \in Workers : wpc[w] = "exited"

FenceHistory ==
  \A c \in Clients : cpc[c] = "passed" =>
    \A j \in Jobs : owner[j] = c => result[j] # "none"

IInv ==
  /\ TypeOK
  /\ InflightExact
  /\ Custody
  /\ HistoryOfPlace
  /\ ExitedMeansDrained
  /\ FenceHistory

---------------------------------------------------------------------------
(* Refinement: what each request, client and the engine look like to a     *)
(* reader of IoContract.                                                   *)

\* Queued, or with a worker that has not counted it down yet.
Pending(j) == InQueue(j) \/ \E w \in Holding : wjob[w] = j

jobStatus ==
  [j \in Jobs |->
     IF owner[j] = NoClient THEN "new"
     ELSE IF Pending(j) THEN "pending"
     ELSE IF calls[j] = 0 THEN "settled"
     ELSE "called"]

fenceStatus ==
  [c \in Clients |->
     CASE cpc[c] \in {"drain", "sleep"} -> "waiting"
       [] cpc[c] = "passed" -> "passed"
       [] OTHER -> "out"]

lifeStatus ==
  CASE life = "open" -> "open"
    [] life = "gone" -> "closed"
    [] OTHER -> "closing"

Contract == INSTANCE IoContract
              WITH job <- jobStatus, fence <- fenceStatus, life <- lifeStatus

\* The thread pool implements the contract, its liveness included.
ImplementsContract == Contract!Spec
=============================================================================
