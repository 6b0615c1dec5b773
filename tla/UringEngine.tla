---------------------------- MODULE UringEngine ----------------------------
(***************************************************************************)
(* UringIoEngine (src/src/weights/io_engine_uring.cpp), the back end that  *)
(* make_engine() prefers on Linux builds with liburing: one thread moves   *)
(* requests from the deque into an io_uring submission queue, enters the   *)
(* kernel, and reaps completions.                                          *)
(*                                                                         *)
(* Nothing ever waits on cv_, so the notify calls of submit() and of the   *)
(* destructor have nobody to wake and are no part of the model.  A submit  *)
(* whose file cannot be opened throws before it changes anything.          *)
(*                                                                         *)
(* The requests read one file, whose byte at position p is p itself, so    *)
(* that a buffer tells which bytes of the file it holds.                   *)
(***************************************************************************)
EXTENDS Integers, Sequences, FiniteSets

CONSTANTS Jobs,       \* one element per submit() call: bounds the run
          Offset, NBytes, AlignedDst,  \* offset, nbytes; whose dst is aligned
          FileSize, Align,  \* kAlign
          Clients,
          RingDepth,  \* kRingDepth
          NoJob, NoClient

ASSUME UringAssumption ==
  /\ Offset \in [Jobs -> Nat] /\ NBytes \in [Jobs -> Nat]
  /\ AlignedDst \subseteq Jobs
  /\ FileSize \in Nat /\ Align \in Nat \ {0}
  /\ RingDepth \in Nat \ {0}
  /\ NoJob \notin Jobs
  /\ NoClient \notin Clients

VARIABLES
  q,         \* q_
  inflight,  \* inflight_
  pc,        \* where the engine's thread stands in loop()
  cur,       \* the request in its hands
  did,       \* its local `did`
  idle,      \* its local `idle`
  sq,        \* prepared submission entries, not yet entered
  kernel,    \* requests the kernel works on
  cq,        \* completion entries, oldest first: [job, res]
  bounce,    \* Job::bounce, from copy_off's origin on
  dst,       \* the caller's buffer
  cpc, life, owner, result, calls,   \* as in IoEngine
  got        \* history: the res of the request's completion

threadVars == <<pc, cur, did, idle>>
ringVars == <<sq, kernel, cq>>
bufVars == <<bounce, dst>>
vars == <<q, inflight, threadVars, ringVars, bufVars, cpc, life, owner, result, calls, got>>

Stop == life # "open"

\* align_dn64 and align_up: v / a * a and (v + a - 1) / a * a.
AlignDn(v) == v - (v % Align)
AlignUp(v) == AlignDn(v + Align - 1)

\* O_DIRECT can read straight into the caller's buffer.
Direct(j) == Offset[j] % Align = 0 /\ NBytes[j] % Align = 0 /\ j \in AlignedDst

\* What is asked of the kernel: from where, how much, and where in the bounce
\* buffer the caller's bytes begin.
Start(j) == IF Direct(j) THEN Offset[j] ELSE AlignDn(Offset[j])
CopyOff(j) == Offset[j] - Start(j)
ReadLen(j) == IF Direct(j) THEN NBytes[j] ELSE AlignUp(CopyOff(j) + NBytes[j])

\* The most the kernel can deliver: the read may reach past the end of the file.
Available(j) ==
  IF FileSize < Start(j) THEN 0
  ELSE IF FileSize - Start(j) < ReadLen(j) THEN FileSize - Start(j) ELSE ReadLen(j)

Junk == -1     \* a byte nobody wrote
Failed == -1   \* a negative res
Outcomes(j) == {Failed} \cup 0..Available(j)

Init ==
  /\ q = <<>> /\ inflight = 0
  /\ pc = "top" /\ cur = NoJob /\ did = FALSE /\ idle = FALSE
  /\ sq = <<>> /\ kernel = {} /\ cq = <<>>
  /\ cpc = [c \in Clients |-> "out"]
  /\ life = "open"
  /\ owner = [j \in Jobs |-> NoClient]
  /\ result = [j \in Jobs |-> "none"]
  /\ calls = [j \in Jobs |-> 0]
  /\ got = [j \in Jobs |-> Failed]
  /\ bounce = [j \in Jobs |-> [i \in 0..ReadLen(j) - 1 |-> Junk]]
  /\ dst = [j \in Jobs |-> [i \in 0..NBytes[j] - 1 |-> Junk]]

---------------------------------------------------------------------------
(* The callers. *)

Outside(c) == cpc[c] \in {"out", "passed"}

\* submit(): unlike the thread pool it counts nothing yet.
Submit(c, j) ==
  /\ life = "open"
  /\ Outside(c)
  /\ owner[j] = NoClient
  /\ owner' = [owner EXCEPT ![j] = c]
  /\ q' = Append(q, j)
  /\ cpc' = [cpc EXCEPT ![c] = "out"]
  /\ UNCHANGED <<inflight, threadVars, ringVars, life, result, calls, got, bufVars>>

BeginDrain(c) ==
  /\ life = "open"
  /\ Outside(c)
  /\ cpc' = [cpc EXCEPT ![c] = "drain"]
  /\ UNCHANGED <<q, inflight, threadVars, ringVars, life, owner, result, calls, got, bufVars>>

\* Mutant: the thread pool's predicate, blind to what nobody counted yet.
DrainDoneIgnoresQueue == inflight = 0

DrainDone == inflight = 0 /\ q = <<>>

DrainReturn(c) ==
  /\ cpc[c] = "drain"
  /\ DrainDone
  /\ cpc' = [cpc EXCEPT ![c] = "passed"]
  /\ UNCHANGED <<q, inflight, threadVars, ringVars, life, owner, result, calls, got, bufVars>>

DrainSleep(c) ==
  /\ cpc[c] = "drain"
  /\ ~DrainDone
  /\ cpc' = [cpc EXCEPT ![c] = "sleep"]
  /\ UNCHANGED <<q, inflight, threadVars, ringVars, life, owner, result, calls, got, bufVars>>

SetStop ==
  /\ life = "open"
  /\ \A c \in Clients : Outside(c)
  /\ life' = "stopping"
  /\ UNCHANGED <<q, inflight, threadVars, ringVars, cpc, owner, result, calls, got, bufVars>>

\* worker_.join() and io_uring_queue_exit.
Join ==
  /\ life = "stopping"
  /\ pc = "exited"
  /\ life' = "gone"
  /\ UNCHANGED <<q, inflight, threadVars, ringVars, cpc, owner, result, calls, got, bufVars>>

---------------------------------------------------------------------------
(* loop(), try_submit_one() and reap_one(). *)

\* The exit test at the head of the loop.
LoopTop ==
  /\ pc = "top"
  /\ IF Stop /\ DrainDone THEN pc' = "exited" ELSE pc' = "fill"
  /\ did' = FALSE
  /\ UNCHANGED <<q, inflight, cur, idle, ringVars, cpc, life, owner, result, calls, got, bufVars>>

\* try_submit_one: take the front and count it.
Pop ==
  /\ pc = "fill"
  /\ q # <<>>
  /\ cur' = Head(q)
  /\ q' = Tail(q)
  /\ inflight' = inflight + 1
  /\ pc' = "sqe"
  /\ UNCHANGED <<did, idle, ringVars, cpc, life, owner, result, calls, got, bufVars>>

NothingToPop ==
  /\ pc = "fill"
  /\ q = <<>>
  /\ pc' = "enter"
  /\ UNCHANGED <<q, inflight, cur, did, idle, ringVars, cpc, life, owner, result, calls, got, bufVars>>

\* io_uring_get_sqe found a free entry.
Prepare ==
  /\ pc = "sqe"
  /\ Len(sq) < RingDepth
  /\ sq' = Append(sq, cur)
  /\ did' = TRUE
  /\ cur' = NoJob
  /\ pc' = "fill"
  /\ UNCHANGED <<q, inflight, idle, kernel, cq, cpc, life, owner, result, calls, got, bufVars>>

\* The ring is full: the request goes back to the front, uncounted.
PutBack ==
  /\ pc = "sqe"
  /\ Len(sq) = RingDepth
  /\ q' = <<cur>> \o q
  /\ inflight' = inflight - 1
  /\ cur' = NoJob
  /\ pc' = "enter"
  /\ UNCHANGED <<did, idle, ringVars, cpc, life, owner, result, calls, got, bufVars>>

\* io_uring_submit hands prepared entries over, in order; its result is ignored,
\* so the rest stay prepared.  Then peek or wait.
Enter ==
  /\ pc = "enter"
  /\ \E n \in IF did \/ inflight > 0 THEN 0..Len(sq) ELSE {0} :
       /\ kernel' = kernel \cup {sq[i] : i \in 1..n}
       /\ sq' = SubSeq(sq, n + 1, Len(sq))
  /\ pc' = IF did THEN "peek" ELSE "wait"
  /\ UNCHANGED <<q, inflight, cur, did, idle, cq, cpc, life, owner, result, calls, got, bufVars>>

PeekNothing ==
  /\ pc = "peek"
  /\ cq = <<>>
  /\ pc' = "top"
  /\ UNCHANGED <<q, inflight, cur, did, idle, ringVars, cpc, life, owner, result, calls, got, bufVars>>

\* io_uring_wait_cqe returned without an entry: a signal.
WaitInterrupted ==
  /\ pc = "wait"
  /\ cq = <<>>
  /\ pc' = "top"
  /\ UNCHANGED <<q, inflight, cur, did, idle, ringVars, cpc, life, owner, result, calls, got, bufVars>>

\* Mutant: the length test forgets that the bounce buffer starts before the
\* caller's first byte.
EnoughForgetsOffset(j, res) ==
  IF Direct(j) THEN res = NBytes[j] ELSE res >= NBytes[j]

\* Short reads fail: of exactly nbytes into dst, or up to the last byte wanted.
Enough(j, res) ==
  IF Direct(j) THEN res = NBytes[j] ELSE res >= CopyOff(j) + NBytes[j]

\* A completion: check its length, copy the bounce buffer out.
Reap ==
  /\ pc \in {"peek", "wait"}
  /\ cq # <<>>
  /\ LET j == Head(cq).job
         whole == Head(cq).res >= 0 /\ Enough(j, Head(cq).res)
     IN /\ cur' = j
        /\ result' = [result EXCEPT ![j] = IF whole THEN "ok" ELSE "failed"]
        /\ dst' = IF whole /\ ~Direct(j)
                  THEN [dst EXCEPT ![j] =
                          [i \in 0..NBytes[j] - 1 |-> bounce[j][CopyOff(j) + i]]]
                  ELSE dst
  /\ cq' = Tail(cq)
  /\ pc' = "count"
  /\ UNCHANGED <<q, inflight, did, idle, sq, kernel, bounce, cpc, life, owner, calls, got>>

\* Mutant: the wake-up is decided before the request is counted down.
CountDownIdleFirst ==
  /\ pc = "count"
  /\ inflight' = inflight - 1
  /\ idle' = (inflight = 0 /\ q = <<>>)
  /\ pc' = "call"
  /\ UNCHANGED <<q, cur, did, ringVars, cpc, life, owner, result, calls, got, bufVars>>

CountDown ==
  /\ pc = "count"
  /\ inflight' = inflight - 1
  /\ idle' = (inflight' = 0 /\ q = <<>>)
  /\ pc' = "call"
  /\ UNCHANGED <<q, cur, did, ringVars, cpc, life, owner, result, calls, got, bufVars>>

CallBack ==
  /\ pc = "call"
  /\ calls' = [calls EXCEPT ![cur] = @ + 1]
  /\ pc' = "called"
  /\ UNCHANGED <<q, inflight, cur, did, idle, ringVars, cpc, life, owner, result, got, bufVars>>

NotifyDone ==
  /\ pc = "called"
  /\ cpc' = [c \in Clients |-> IF idle /\ cpc[c] = "sleep" THEN "drain" ELSE cpc[c]]
  /\ pc' = "top"
  /\ cur' = NoJob
  /\ idle' = FALSE
  /\ UNCHANGED <<q, inflight, did, ringVars, life, owner, result, calls, got, bufVars>>

\* The kernel finishes requests in any order, after writing as much of the file
\* as res says into the buffer it was given.
KernelComplete(j) ==
  /\ j \in kernel
  /\ \E res \in Outcomes(j) :
       LET Read(b) == [i \in DOMAIN b |-> IF i < res THEN Start(j) + i ELSE b[i]]
       IN /\ cq' = Append(cq, [job |-> j, res |-> res])
          /\ got' = [got EXCEPT ![j] = res]
          /\ IF Direct(j)
               THEN dst' = [dst EXCEPT ![j] = Read(@)] /\ UNCHANGED bounce
               ELSE bounce' = [bounce EXCEPT ![j] = Read(@)] /\ UNCHANGED dst
  /\ kernel' = kernel \ {j}
  /\ UNCHANGED <<q, inflight, threadVars, sq, cpc, life, owner, result, calls>>

---------------------------------------------------------------------------
ThreadStep ==
  \/ LoopTop \/ Pop \/ NothingToPop \/ Prepare \/ PutBack \/ Enter
  \/ PeekNothing \/ Reap \/ CountDown \/ CallBack \/ NotifyDone

ClientStep(c) == DrainReturn(c) \/ DrainSleep(c)

Next ==
  \/ ThreadStep
  \/ WaitInterrupted
  \/ \E j \in Jobs : KernelComplete(j)
  \/ \E c \in Clients : \/ \E j \in Jobs : Submit(c, j)
                        \/ BeginDrain(c)
                        \/ ClientStep(c)
  \/ SetStop
  \/ Join

\* The thread is scheduled and the kernel finishes what it was given; signals
\* and new calls are owed to nobody.
Fairness ==
  /\ WF_vars(ThreadStep)
  /\ \A j \in Jobs : WF_vars(KernelComplete(j))
  /\ \A c \in Clients : WF_vars(ClientStep(c))
  /\ WF_vars(Join)

Spec == Init /\ [][Next]_vars /\ Fairness

---------------------------------------------------------------------------
(* Properties. *)

InQueue(j) == \E i \in 1..Len(q) : q[i] = j
Ring == {sq[i] : i \in 1..Len(sq)} \cup kernel \cup {cq[i].job : i \in 1..Len(cq)}

\* Taken from the deque and counted, not yet counted down.
Holding == IF pc \in {"sqe", "count"} THEN {cur} ELSE {}

\* A callback reports success only when the caller's buffer holds exactly the
\* bytes of the file it asked for, read directly or through a bounce buffer whose
\* read began earlier and may end at the end of the file; it reports failure only
\* of a read that failed, came back short, or reaches past the end of the file
\* (io_engine_uring.cpp:99-106, 176-191).
ResultIsTrue ==
  \A j \in Jobs :
    /\ result[j] = "ok" => \A i \in 0..NBytes[j] - 1 : dst[j][i] = Offset[j] + i
    /\ result[j] = "failed" =>
         got[j] < Available(j) \/ FileSize < Offset[j] + NBytes[j]

\* A drain() that was entered returns, as io_engine.h:31 promises, or else the
\* engine thread sleeps in io_uring_wait_cqe with nothing on its way to the ring:
\* a request that submit() queued meanwhile does not wake it
\* (io_engine_uring.cpp:216), and neither does one that io_uring_submit left
\* prepared (:215).
StuckInWait ==
  pc = "wait" /\ kernel = {} /\ cq = <<>> /\ (q # <<>> \/ sq # <<>>)
DrainReturnsUnlessStuck ==
  \A c \in Clients : cpc[c] = "drain" ~> cpc[c] = "passed" \/ StuckInWait

jobStatus ==
  [j \in Jobs |->
     IF owner[j] = NoClient THEN "new"
     ELSE IF InQueue(j) \/ j \in Ring \/ j \in Holding THEN "pending"
     ELSE IF calls[j] = 0 THEN "settled"
     ELSE "called"]

fenceStatus ==
  [c \in Clients |->
     CASE cpc[c] \in {"drain", "sleep"} -> "waiting"
       [] cpc[c] = "passed" -> "passed"
       [] OTHER -> "out"]

lifeStatus ==
  CASE life = "open" -> "open"
    [] life = "gone" -> "closed"
    [] OTHER -> "closing"

Contract == INSTANCE IoContract
              WITH job <- jobStatus, fence <- fenceStatus, life <- lifeStatus

\* io_uring keeps the safety half of the contract of the thread pool.
ImplementsSafety == Contract!Safety
=============================================================================
