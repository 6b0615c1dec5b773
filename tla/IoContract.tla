---------------------------- MODULE IoContract ----------------------------
(***************************************************************************)
(* What a caller of llmoc::io::IoEngine may rely on, whichever back end    *)
(* make_engine() picked (src/src/weights/io_engine.h).                     *)
(*                                                                         *)
(* A submitted read is pending until its buffer is final and the engine    *)
(* no longer counts it, settled until its callback has run, and then       *)
(* called.  A fence returns only in a state without pending reads; it says *)
(* nothing of callbacks, which is weaker than the comment at               *)
(* io_engine.h:31 and is what both back ends really give.                  *)
(***************************************************************************)
CONSTANTS Jobs,      \* the submit() calls a run makes
          Clients    \* the threads that call submit() and drain()

VARIABLES job,       \* [Jobs -> {"new", "pending", "settled", "called"}]
          fence,     \* [Clients -> {"out", "waiting", "passed"}]
          life       \* "open", "closing" (in the destructor), "closed"

vars == <<job, fence, life>>

Init ==
  /\ job = [j \in Jobs |-> "new"]
  /\ fence = [c \in Clients |-> "out"]
  /\ life = "open"

NonePending == \A j \in Jobs : job[j] # "pending"

\* submit(): a new request; the client's last fence no longer covers it.
Submit(c, j) ==
  /\ life = "open"
  /\ fence[c] # "waiting"
  /\ job[j] = "new"
  /\ job' = [job EXCEPT ![j] = "pending"]
  /\ fence' = [fence EXCEPT ![c] = "out"]
  /\ UNCHANGED life

\* The read has ended, in success or failure, and is no longer counted.
Settle(j) ==
  /\ job[j] = "pending"
  /\ job' = [job EXCEPT ![j] = "settled"]
  /\ UNCHANGED <<fence, life>>

\* The callback of a settled read runs, once.
Call(j) ==
  /\ job[j] = "settled"
  /\ job' = [job EXCEPT ![j] = "called"]
  /\ UNCHANGED <<fence, life>>

BeginDrain(c) ==
  /\ life = "open"
  /\ fence[c] # "waiting"
  /\ fence' = [fence EXCEPT ![c] = "waiting"]
  /\ UNCHANGED <<job, life>>

EndDrain(c) ==
  /\ fence[c] = "waiting"
  /\ NonePending
  /\ fence' = [fence EXCEPT ![c] = "passed"]
  /\ UNCHANGED <<job, life>>

\* The owner destroys the engine when nobody is inside a call.
BeginClose ==
  /\ life = "open"
  /\ \A c \in Clients : fence[c] # "waiting"
  /\ life' = "closing"
  /\ UNCHANGED <<job, fence>>

\* The destructor returns when every request has been read and called back.
EndClose ==
  /\ life = "closing"
  /\ \A j \in Jobs : job[j] \in {"new", "called"}
  /\ life' = "closed"
  /\ UNCHANGED <<job, fence>>

Next ==
  \/ \E c \in Clients : \/ \E j \in Jobs : Submit(c, j)
                        \/ BeginDrain(c)
                        \/ EndDrain(c)
  \/ \E j \in Jobs : Settle(j) \/ Call(j)
  \/ BeginClose
  \/ EndClose

Safety == Init /\ [][Next]_vars

\* The engine makes progress by itself; callers owe it nothing.
Progress ==
  /\ \A j \in Jobs : WF_vars(Settle(j)) /\ WF_vars(Call(j))
  /\ \A c \in Clients : WF_vars(EndDrain(c))
  /\ WF_vars(EndClose)

Spec == Safety /\ Progress
=============================================================================
