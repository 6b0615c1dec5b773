------------------------------- MODULE Serving -------------------------------
(***************************************************************************)
(* HttpApi, the Scheduler and the page the server hands out.  A chat request *)
(* is served whole by the thread that took it: the handler checks it,        *)
(* enqueue_sync counts it and runs generate(), a streamed reply is written   *)
(* token by token.  The page keeps the conversation and sends all of it each *)
(* time.  A connection may be lost at any moment; the thread then goes on    *)
(* generating, since the answer of sink.write is not looked at.              *)
(***************************************************************************)
EXTENDS Integers, Sequences, FiniteSets, SequencesExt

CONSTANTS Threads,      \* threads of the HTTP server
          MaxOut,       \* visible pieces of an answer
          MaxSubmits,   \* messages the user sends
          MaxDrops      \* connections lost

ASSUME ServingAssumption == {MaxOut, MaxSubmits, MaxDrops} \subseteq Nat

VARIABLES job,       \* thread -> the request it serves
          page,      \* what the page does, and what it has read so far
          wire,      \* written and not yet read on the page's connection
          history,   \* the conversation, as the page keeps it
          depth,     \* met_.queue_depth
          drops,
          done,      \* what the generations that returned put out, and for which history
          lastThrew  \* the last generation to end ended with an exception
serveVars == <<job, page, wire, history, depth, drops, done, lastThrew>>

Free == [at |-> "free", of |-> 0, bad |-> FALSE, stream |-> FALSE, out |-> 0,
         live |-> FALSE, passed |-> FALSE]
Ready == [at |-> "ready", stream |-> FALSE, n |-> 0, err |-> FALSE]
User(kind) == [role |-> "user", kind |-> kind, n |-> 0]
Bot(kind, n) == [role |-> "bot", kind |-> kind, n |-> n]
Messages == {"text", "bad"}     \* "bad": with an image the model cannot take

ServeInit ==
  /\ job = [t \in Threads |-> Free] /\ page = Ready /\ wire = <<>>
  /\ history = <<>> /\ depth = 0 /\ drops = 0 /\ done = {} /\ lastThrew = FALSE

(***************************************************************************)
(* The page.  The user's message is in the history before anything is sent,  *)
(* and stays there whatever becomes of the request.                          *)
(***************************************************************************)
Submit ==
  /\ page.at = "ready" /\ Cardinality({i \in DOMAIN history : history[i].role = "user"}) < MaxSubmits
  /\ \E kind \in Messages : history' = Append(history, User(kind))
  /\ page' = [Ready EXCEPT !.at = "sending", !.stream = TRUE]
  /\ wire' = <<>>
  /\ UNCHANGED <<job, depth, drops, done, lastThrew>>

Answered(entry) == history' = Append(history, entry) /\ page' = Ready

(* One event of the stream: a piece, an error (which replaces what was read), *)
(* or the end, where an empty answer is asked for again without streaming.   *)
ReadPiece ==
  /\ page.at = "reading" /\ wire # <<>> /\ Head(wire).is = "piece"
  /\ page' = [page EXCEPT !.n = @ + 1]
  /\ wire' = Tail(wire)
  /\ UNCHANGED <<job, history, depth, drops, done, lastThrew>>
ReadError ==
  /\ page.at = "reading" /\ wire # <<>> /\ Head(wire).is = "error"
  /\ page' = [page EXCEPT !.err = TRUE]
  /\ wire' = Tail(wire)
  /\ UNCHANGED <<job, history, depth, drops, done, lastThrew>>
ReadEnd ==
  /\ page.at = "reading" /\ wire # <<>> /\ Head(wire).is = "end"
  /\ wire' = Tail(wire)
  /\ IF page.err THEN Answered(Bot("error", 0))
     ELSE IF page.n > 0 THEN Answered(Bot("answer", page.n))
     ELSE page' = [page EXCEPT !.at = "sending", !.stream = FALSE] /\ UNCHANGED history
  /\ UNCHANGED <<job, depth, drops, done, lastThrew>>
ReadWhole ==
  /\ page.at = "reading" /\ wire # <<>> /\ Head(wire).is = "whole"
  /\ wire' = Tail(wire)
  /\ Answered(IF Head(wire).err THEN Bot("error", 0)
              ELSE IF Head(wire).n > 0 THEN Bot("answer", Head(wire).n) ELSE Bot("empty", 0))
  /\ UNCHANGED <<job, depth, drops, done, lastThrew>>

(* The connection is lost before or while the request is served.             *)
Drop ==
  /\ page.at \in {"sending", "reading"} /\ drops < MaxDrops
  /\ drops' = drops + 1
  /\ page' = Ready /\ wire' = <<>>
  /\ job' = [t \in Threads |-> [job[t] EXCEPT !.live = FALSE]]
  /\ UNCHANGED <<history, depth, done, lastThrew>>

(***************************************************************************)
(* The server.                                                              *)
(***************************************************************************)
(* The handler: without the key a request is answered 401, and the page's    *)
(* throw on !ok ends the exchange.                                           *)
Refuse(key) ==
  /\ page.at = "sending" /\ key /\ \E t \in Threads : job[t].at = "free"
  /\ page' = Ready
  /\ UNCHANGED <<job, wire, history, depth, drops, done, lastThrew>>
Accept(t, key) ==
  /\ page.at = "sending" /\ ~key /\ job[t].at = "free"
  /\ job' = [job EXCEPT ![t] = [Free EXCEPT !.at = "queue", !.of = Len(history),
               !.bad = \E i \in DOMAIN history : history[i].kind = "bad",
               !.stream = page.stream, !.live = TRUE]]
  /\ page' = [page EXCEPT !.at = "reading"]
  /\ UNCHANGED <<wire, history, depth, drops, done, lastThrew>>

(* enqueue_sync: the gauge is set under the lock, generate() runs outside.   *)
Enqueue(t) ==
  /\ job[t].at = "queue"
  /\ depth' = 1
  /\ job' = [job EXCEPT ![t].at = "generate"]
  /\ UNCHANGED <<page, wire, history, drops, done, lastThrew>>

Write(t, event) == wire' = IF job[t].live THEN Append(wire, event) ELSE wire
Piece == [is |-> "piece"]
(* As if the catch only closed the stream (a mutant of Ends).                 *)
EndsSilently(err) == <<[is |-> "end"]>>
Ends(err) == IF err THEN <<[is |-> "error"], [is |-> "end"]>> ELSE <<[is |-> "end"]>>
Whole(n, err) == [is |-> "whole", n |-> n, err |-> err]

Emit(t) ==
  /\ job[t].at = "generate" /\ ~job[t].bad /\ job[t].out < MaxOut
  /\ job' = [job EXCEPT ![t].out = @ + 1]
  /\ IF job[t].stream THEN Write(t, Piece) ELSE UNCHANGED wire
  /\ UNCHANGED <<page, history, depth, drops, done, lastThrew>>

(* As if the second section were left out (a mutant of Return).               *)
ReturnKeepsDepth(t) ==
  /\ job[t].at = "generate" /\ ~job[t].bad
  /\ lastThrew' = FALSE
  /\ done' = done \cup {[of |-> job[t].of, n |-> job[t].out]}
  /\ job' = [job EXCEPT ![t].at = "reply"]
  /\ UNCHANGED <<page, wire, history, depth, drops>>

(* generate() returns; the second critical section resets the gauge.  An     *)
(* exception passes by it.                                                   *)
Return(t) ==
  /\ job[t].at = "generate" /\ ~job[t].bad
  /\ depth' = 0
  /\ lastThrew' = FALSE
  /\ done' = done \cup {[of |-> job[t].of, n |-> job[t].out]}
  /\ job' = [u \in Threads |-> IF u = t THEN [job[t] EXCEPT !.at = "reply"]
                               ELSE [job[u] EXCEPT !.passed = @ \/ job[u].at = "generate"]]
  /\ UNCHANGED <<page, wire, history, drops>>
Throw(t) ==
  /\ job[t].at = "generate"
  /\ lastThrew' = TRUE
  /\ job' = [job EXCEPT ![t].at = "fail"]
  /\ UNCHANGED <<page, wire, history, depth, drops, done>>

(* The handler's end: the reply, or in its catch the error.                  *)
Reply(t) ==
  /\ job[t].at \in {"reply", "fail"}
  /\ LET err == job[t].at = "fail"
     IN wire' = IF ~job[t].live THEN wire
                ELSE IF job[t].stream THEN wire \o Ends(err)
                ELSE Append(wire, Whole(job[t].out, err))
  /\ job' = [job EXCEPT ![t] = Free]
  /\ UNCHANGED <<page, history, depth, drops, done, lastThrew>>

PageNext == Submit \/ ReadPiece \/ ReadError \/ ReadEnd \/ ReadWhole \/ Drop

(***************************************************************************)
(* DepthTells: queue_depth is 1 while a request is generated and 0           *)
(* otherwise, but in two cases: another request returned meanwhile (0 too    *)
(* early), or the last one to end threw (1 for good).                        *)
(* About: Scheduler::enqueue_sync (scheduler.cpp:18-31), called by several   *)
(* threads at once.                                                         *)
(***************************************************************************)
DepthTells ==
  LET running == {t \in Threads : job[t].at = "generate"}
  IN /\ depth = 0 => \A t \in running : job[t].passed
     /\ depth = 1 => running # {} \/ lastThrew

(* AnswersAreWhole: what the page files as an answer follows a message of    *)
(* the user, and is the whole output of one generation that returned, for    *)
(* exactly the conversation up to that message: never a part of it cut by a  *)
(* failure or a lost connection, nor the output of an earlier request.       *)
(* About: the streaming provider's catch (http_api.cpp), the page's reader   *)
(* and its second request for an empty answer.                               *)
AnswersAreWhole ==
  [][history' # history /\ Last(history').kind = "answer" =>
       /\ Last(history).role = "user"
       /\ [of |-> Len(history), n |-> Last(history').n] \in done]_serveVars
=============================================================================
