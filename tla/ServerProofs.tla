----------------------------- MODULE ServerProofs -----------------------------
(***************************************************************************)
(* For any servers to start, files, threads and messages: a server listens   *)
(* with what it was configured with, the host banks of its start-up are      *)
(* whole and accounted for, the queue's gauge tells what it can, what the    *)
(* page files as an answer is one, and concurrent forwards over the shared   *)
(* pool keep its books and compute with the experts whose handles they       *)
(* pinned, as long as no other request's FFN intervened.                     *)
(***************************************************************************)
EXTENDS Server, SequenceTheorems, FiniteSetTheorems, WellFoundedInduction, TLAPS

(***************************************************************************)
(* Serving.                                                                *)
(***************************************************************************)

Jobs == [at : {"free", "queue", "generate", "reply", "fail"}, of : Nat, bad : BOOLEAN,
         stream : BOOLEAN, out : Nat, live : BOOLEAN, passed : BOOLEAN]
Pages == [at : {"ready", "sending", "reading"}, stream : BOOLEAN, n : Nat, err : BOOLEAN]
Events == {Piece, [is |-> "error"], [is |-> "end"]} \cup {Whole(n, e) : n \in Nat, e \in BOOLEAN}
Entries == [role : {"user", "bot"},
            kind : {"text", "bad", "answer", "error", "empty"}, n : Nat]

ServeType ==
  /\ job \in [Threads -> Jobs]
  /\ page \in Pages
  /\ wire \in Seq(Events)
  /\ history \in Seq(Entries)
  /\ depth \in {0, 1}
  /\ lastThrew \in BOOLEAN

\* While an answer is awaited the user spoke last; what is not being read is
\* neither written nor on the wire.
Awaited ==
  /\ page.at # "ready" => history # <<>> /\ history[Len(history)].role = "user"
  /\ page.at # "reading" => /\ wire = <<>> /\ page.n = 0 /\ ~page.err
                            /\ \A t \in Threads : ~job[t].live

\* One thread at most writes to the page.
OneWriter == \A t, u \in Threads : job[t].live /\ job[u].live => t = u

\* What it has written so far is pieces, read or not.
Written ==
  \A t \in Threads : job[t].live =>
    /\ job[t].at # "free" /\ job[t].of = Len(history)
    /\ job[t].stream = page.stream /\ ~page.err
    /\ IF job[t].stream
       THEN page.n + Len(wire) = job[t].out /\ \A i \in 1..Len(wire) : wire[i].is = "piece"
       ELSE wire = <<>> /\ page.n = 0
    /\ job[t].at = "reply" => [of |-> Len(history), n |-> job[t].out] \in done

\* When it has ended the rest of the exchange is on the wire.
EndOk ==
  /\ Len(wire) > 0 /\ wire[Len(wire)].is = "end" /\ ~page.err
  /\ \A i \in 1..Len(wire) - 1 : wire[i].is = "piece"
  /\ [of |-> Len(history), n |-> page.n + Len(wire) - 1] \in done
EndError ==
  /\ Len(wire) > 1 /\ wire[Len(wire)].is = "end" /\ wire[Len(wire) - 1].is = "error"
  /\ \A i \in 1..Len(wire) - 2 : wire[i].is = "piece"
EndRead == Len(wire) = 1 /\ wire[1].is = "end" /\ page.err
EndWhole ==
  /\ Len(wire) = 1 /\ wire[1].is = "whole"
  /\ wire[1].err \/ [of |-> Len(history), n |-> wire[1].n] \in done

Ended == page.at = "reading" /\ (\A t \in Threads : ~job[t].live) =>
           EndOk \/ EndError \/ EndRead \/ EndWhole

Exchange == ServeType /\ Awaited /\ OneWriter /\ Written /\ Ended

LEMMA ExchangeInit == ServeInit => Exchange
<1>. SUFFICES ASSUME ServeInit
              PROVE  Exchange
  OBVIOUS
<1>. USE DEF ServeInit
<1>1. wire \in Seq(Events) /\ history \in Seq(Entries)
  BY EmptySeq
<1>2. Free \in Jobs /\ Ready \in Pages
  BY DEF Free, Ready, Jobs, Pages
<1>3. ServeType
  BY <1>1, <1>2 DEF ServeType
<1>4. \A t \in Threads : ~job[t].live
  BY DEF Free
<1>5. page.at = "ready" /\ page.n = 0 /\ ~page.err /\ wire = <<>>
  BY DEF Ready
<1>. QED BY <1>3, <1>4, <1>5 DEF Exchange, Awaited, OneWriter, Written, Ended

LEMMA EventTypes ==
  /\ Piece \in Events /\ [is |-> "error"] \in Events /\ [is |-> "end"] \in Events
  /\ \A n \in Nat, e \in BOOLEAN : Whole(n, e) \in Events
  /\ \A e \in Events : e.is = "whole" => e.n \in Nat /\ e.err \in BOOLEAN
<1>1. Piece.is # "whole" /\ [is |-> "error"].is # "whole" /\ [is |-> "end"].is # "whole"
  BY DEF Piece
<1>2. \A n \in Nat, e \in BOOLEAN : Whole(n, e) \in Events
  BY DEF Events
<1>3. \A n \in Nat, e \in BOOLEAN : Whole(n, e).n = n /\ Whole(n, e).err = e
  BY DEF Whole
<1>4. ASSUME NEW e \in Events, e.is = "whole"
      PROVE  e.n \in Nat /\ e.err \in BOOLEAN
  <2>1. PICK n \in Nat, x \in BOOLEAN : e = Whole(n, x)
    BY <1>1, <1>4 DEF Events
  <2>. QED BY <1>3, <2>1
<1>. QED BY <1>2, <1>4 DEF Events

\* Reading the next event.
LEMMA Reads1 ==
  ASSUME wire \in Seq(Events), wire # <<>>
  PROVE  /\ Len(wire) \in Nat \ {0} /\ Head(wire) = wire[1] /\ wire[1] \in Events
         /\ Tail(wire) \in Seq(Events) /\ Len(Tail(wire)) = Len(wire) - 1
         /\ \A i \in 1..Len(wire) - 1 : Tail(wire)[i] = wire[i + 1]
<1>1. Len(wire) \in Nat \ {0}
  BY EmptySeq
<1>2. wire[1] \in Events
  BY <1>1, ElementOfSeq
<1>. QED BY <1>1, <1>2, HeadTailProperties

LEMMA SubmitKeeps ==
  ASSUME Exchange, Submit
  PROVE  Exchange'
<1>. USE DEF Exchange, Submit
<1>1. PICK kind \in Messages : history' = Append(history, User(kind))
  OBVIOUS
<1>2. history \in Seq(Entries) /\ User(kind) \in Entries
  BY DEF ServeType, Messages, User, Entries
<1>3. /\ history' \in Seq(Entries) /\ history' # <<>>
      /\ Len(history') = Len(history) + 1 /\ history'[Len(history')] = User(kind)
  BY <1>1, <1>2
<1>4. page' \in Pages /\ page'.at = "sending" /\ page'.n = 0 /\ ~page'.err
  BY DEF Ready, Pages
<1>5. \A t \in Threads : ~job'[t].live
  BY DEF Awaited
<1>6. wire' \in Seq(Events)
  BY EmptySeq
<1>7. ServeType'
  BY <1>3, <1>4, <1>6 DEF ServeType
<1>8. Awaited'
  BY <1>3, <1>4, <1>5 DEF Awaited, User
<1>9. OneWriter' /\ Written' /\ Ended'
  BY <1>4, <1>5 DEF OneWriter, Written, Ended
<1>. QED BY <1>7, <1>8, <1>9

\* While one writes, only pieces wait to be read.
LEMMA WriterLeavesPieces ==
  ASSUME Exchange, NEW t \in Threads, job[t].live, wire # <<>>
  PROVE  /\ job[t].stream /\ page.n + Len(wire) = job[t].out
         /\ \A i \in 1..Len(wire) : wire[i].is = "piece"
         /\ wire[1].is = "piece"
<1>1. Len(wire) \in Nat \ {0}
  BY EmptySeq DEF Exchange, ServeType
<1>2. /\ job[t].stream /\ page.n + Len(wire) = job[t].out
      /\ \A i \in 1..Len(wire) : wire[i].is = "piece"
  BY DEF Exchange, Written
<1>. QED BY <1>1, <1>2

LEMMA PieceKeeps ==
  ASSUME Exchange, ReadPiece
  PROVE  Exchange'
<1>. USE DEF Exchange, ReadPiece
<1>1. /\ Len(wire) \in Nat \ {0} /\ wire[1].is = "piece"
      /\ wire' \in Seq(Events) /\ Len(wire') = Len(wire) - 1
      /\ \A i \in 1..Len(wire) - 1 : wire'[i] = wire[i + 1]
  BY Reads1 DEF ServeType
<1>2. /\ page' \in Pages /\ page'.at = "reading" /\ page'.n = page.n + 1
      /\ page'.err = page.err /\ page'.stream = page.stream /\ page.n \in Nat
  BY DEF ServeType, Pages
<1>3. ServeType'
  BY <1>1, <1>2 DEF ServeType
<1>4. Awaited'
  BY <1>2 DEF Awaited
<1>5. OneWriter'
  BY DEF OneWriter
<1>6. Written'
  <2>. SUFFICES ASSUME NEW t \in Threads, job[t].live
                PROVE  /\ job[t].at # "free" /\ job[t].of = Len(history)
                       /\ job[t].stream = page'.stream /\ ~page'.err
                       /\ IF job[t].stream
                          THEN page'.n + Len(wire') = job[t].out /\ \A i \in 1..Len(wire') : wire'[i].is = "piece"
                          ELSE wire' = <<>> /\ page'.n = 0
                       /\ job[t].at = "reply" => [of |-> Len(history), n |-> job[t].out] \in done
    BY DEF Written
  <2>1. job[t].stream /\ page.n + Len(wire) = job[t].out /\ \A i \in 1..Len(wire) : wire[i].is = "piece"
    BY WriterLeavesPieces
  <2>2. page'.n + Len(wire') = job[t].out
    BY <1>1, <1>2, <2>1
  <2>3. \A i \in 1..Len(wire') : wire'[i].is = "piece"
    BY <1>1, <2>1
  <2>4. /\ job[t].at # "free" /\ job[t].of = Len(history)
        /\ job[t].stream = page.stream /\ ~page.err
        /\ job[t].at = "reply" => [of |-> Len(history), n |-> job[t].out] \in done
    BY DEF Written
  <2>. QED BY <1>2, <2>1, <2>2, <2>3, <2>4
<1>7. Ended'
  <2>. SUFFICES ASSUME \A t \in Threads : ~job[t].live
                PROVE  EndOk' \/ EndError' \/ EndRead' \/ EndWhole'
    BY DEF Ended
  <2>1. EndOk \/ EndError
    BY <1>1 DEF Ended, EndRead, EndWhole
  <2>2. CASE EndOk
    <3>1. Len(wire) > 1
      BY <1>1, <2>2 DEF EndOk
    <3>2. Len(wire') > 0 /\ wire'[Len(wire')].is = "end" /\ ~page'.err
      BY <1>1, <1>2, <2>2, <3>1 DEF EndOk
    <3>3. \A i \in 1..Len(wire') - 1 : wire'[i].is = "piece"
      BY <1>1, <2>2 DEF EndOk
    <3>4. page'.n + Len(wire') - 1 = page.n + Len(wire) - 1
      BY <1>1, <1>2
    <3>5. [of |-> Len(history'), n |-> page'.n + Len(wire') - 1] \in done'
      BY <2>2, <3>4 DEF EndOk
    <3>. QED BY <3>2, <3>3, <3>5 DEF EndOk
  <2>3. CASE EndError
    <3>1. Len(wire) > 2
      BY <1>1, <2>3 DEF EndError
    <3>2. Len(wire') > 1 /\ wire'[Len(wire')].is = "end" /\ wire'[Len(wire') - 1].is = "error"
      BY <1>1, <2>3, <3>1 DEF EndError
    <3>3. \A i \in 1..Len(wire') - 2 : wire'[i].is = "piece"
      BY <1>1, <2>3 DEF EndError
    <3>. QED BY <3>2, <3>3 DEF EndError
  <2>. QED BY <2>1, <2>2, <2>3
<1>. QED BY <1>3, <1>4, <1>5, <1>6, <1>7

LEMMA ErrorKeeps ==
  ASSUME Exchange, ReadError
  PROVE  Exchange'
<1>. USE DEF Exchange, ReadError
<1>1. /\ Len(wire) \in Nat \ {0} /\ wire[1].is = "error"
      /\ wire' \in Seq(Events) /\ Len(wire') = Len(wire) - 1
      /\ \A i \in 1..Len(wire) - 1 : wire'[i] = wire[i + 1]
  BY Reads1 DEF ServeType
<1>2. /\ page' \in Pages /\ page'.at = "reading" /\ page'.err /\ page'.stream = page.stream
  BY DEF ServeType, Pages
<1>3. ServeType'
  BY <1>1, <1>2 DEF ServeType
<1>4. Awaited'
  BY <1>2 DEF Awaited
<1>5. \A t \in Threads : ~job[t].live
  BY <1>1, WriterLeavesPieces
<1>6. EndError
  BY <1>1, <1>5 DEF Ended, EndOk, EndRead, EndWhole
<1>7. Len(wire) = 2
  BY <1>1, <1>6 DEF EndError
<1>8. Len(wire') = 1 /\ wire'[1] = wire[2] /\ wire[2].is = "end"
  <2>1. Len(wire') = 1 /\ 1 \in 1..Len(wire) - 1
    BY <1>1, <1>7
  <2>2. wire'[1] = wire[1 + 1]
    BY <1>1, <2>1
  <2>3. wire[Len(wire)].is = "end"
    BY <1>6 DEF EndError
  <2>. QED BY <1>7, <2>1, <2>2, <2>3
<1>9. EndRead'
  BY <1>2, <1>8 DEF EndRead
<1>. QED BY <1>3, <1>4, <1>5, <1>9 DEF OneWriter, Written, Ended

\* When the end is read nobody writes any more, and nothing else is on the wire.
LEMMA NothingFollows ==
  ASSUME Exchange, page.at = "reading", wire # <<>>, wire[1].is \in {"end", "whole"}
  PROVE  /\ Len(wire) = 1 /\ Tail(wire) = <<>>
         /\ \A t \in Threads : ~job[t].live
         /\ wire[1].is = "end" /\ ~page.err => [of |-> Len(history), n |-> page.n] \in done
         /\ wire[1].is = "whole" /\ ~wire[1].err => [of |-> Len(history), n |-> wire[1].n] \in done
<1>. USE DEF Exchange
<1>1. /\ Len(wire) \in Nat \ {0}
      /\ Tail(wire) \in Seq(Events) /\ Len(Tail(wire)) = Len(wire) - 1
  BY Reads1 DEF ServeType
<1>2. \A t \in Threads : ~job[t].live
  BY WriterLeavesPieces
<1>3. EndOk \/ EndError \/ EndRead \/ EndWhole
  BY <1>2 DEF Ended
<1>4. Len(wire) = 1
  BY <1>1, <1>3 DEF EndOk, EndError, EndRead, EndWhole
<1>5. Tail(wire) = <<>>
  <2>1. Len(Tail(wire)) = 0
    BY <1>1, <1>4
  <2>. QED BY <1>1, <2>1, EmptySeq
<1>6. page.n \in Nat
  BY DEF ServeType, Pages
<1>7. page.n + Len(wire) - 1 = page.n
  BY <1>4, <1>6
<1>. QED BY <1>2, <1>3, <1>4, <1>5, <1>7 DEF EndOk, EndError, EndRead, EndWhole


\* Filing an entry ends the exchange.
LEMMA AnsweredKeeps ==
  ASSUME Exchange, NEW e \in Entries, Answered(e), wire' = <<>>,
         \A t \in Threads : ~job[t].live,
         UNCHANGED <<job, depth, lastThrew>>
  PROVE  Exchange'
<1>. USE DEF Answered
<1>1. history' \in Seq(Entries)
  BY DEF Exchange, ServeType
<1>2. page' \in Pages /\ page'.at = "ready" /\ page'.n = 0 /\ ~page'.err
  BY DEF Ready, Pages
<1>3. wire' \in Seq(Events)
  BY EmptySeq
<1>4. ServeType'
  BY <1>1, <1>2, <1>3 DEF Exchange, ServeType
<1>5. \A t \in Threads : ~job'[t].live
  OBVIOUS
<1>6. Awaited'
  BY <1>2, <1>5 DEF Awaited
<1>. QED BY <1>2, <1>4, <1>5, <1>6 DEF Exchange, OneWriter, Written, Ended

LEMMA EndKeeps ==
  ASSUME Exchange, ReadEnd
  PROVE  /\ Exchange'
         /\ history' # history =>
              \/ history' = Append(history, Bot("error", 0))
              \/ /\ history' = Append(history, Bot("answer", page.n))
                 /\ [of |-> Len(history), n |-> page.n] \in done
<1>. USE DEF ReadEnd
<1>1. page.at = "reading" /\ wire # <<>> /\ wire[1].is = "end" /\ wire' = Tail(wire)
  BY Reads1 DEF Exchange, ServeType
<1>2. /\ wire' = <<>>
      /\ \A t \in Threads : ~job[t].live
      /\ ~page.err => [of |-> Len(history), n |-> page.n] \in done
  BY <1>1, NothingFollows
<1>3. page.n \in Nat /\ page.err \in BOOLEAN /\ page \in Pages
  BY DEF Exchange, ServeType, Pages
<1>4. \/ /\ page.err
         /\ Answered(Bot("error", 0))
      \/ /\ ~page.err /\ page.n > 0
         /\ Answered(Bot("answer", page.n))
      \/ /\ ~page.err /\ ~(page.n > 0)
         /\ page' = [page EXCEPT !.at = "sending", !.stream = FALSE] /\ UNCHANGED history
  <2>1. CASE page.err
    BY <2>1
  <2>2. CASE ~page.err /\ page.n > 0
    BY <2>2
  <2>3. CASE ~page.err /\ ~(page.n > 0)
    BY <2>3
  <2>. QED BY <2>1, <2>2, <2>3
<1>5. Bot("error", 0) \in Entries /\ Bot("answer", page.n) \in Entries
  BY <1>3 DEF Bot, Entries
<1>6. CASE page.err /\ Answered(Bot("error", 0))
  <2>1. Exchange'
    BY <1>2, <1>5, <1>6, AnsweredKeeps
  <2>. QED BY <1>6, <2>1 DEF Answered
<1>7. CASE ~page.err /\ Answered(Bot("answer", page.n))
  <2>1. Exchange'
    BY <1>2, <1>5, <1>7, AnsweredKeeps
  <2>. QED BY <1>2, <1>7, <2>1 DEF Answered
<1>8. CASE /\ ~page.err /\ ~(page.n > 0)
           /\ page' = [page EXCEPT !.at = "sending", !.stream = FALSE] /\ UNCHANGED history
  <2>1. page' \in Pages /\ page'.at = "sending" /\ page'.n = 0 /\ ~page'.err
    <3>1. page.n = 0
      BY <1>3, <1>8
    <3>2. page'.at = "sending" /\ page'.n = page.n /\ page'.err = page.err /\ page' \in Pages
      BY <1>3, <1>8 DEF Pages
    <3>. QED BY <1>8, <3>1, <3>2
  <2>2. wire' \in Seq(Events)
    BY <1>2, EmptySeq
  <2>3. ServeType'
    BY <1>8, <2>1, <2>2 DEF Exchange, ServeType
  <2>4. \A t \in Threads : ~job'[t].live
    BY <1>2
  <2>5. Awaited'
    BY <1>1, <1>2, <1>8, <2>1, <2>4 DEF Exchange, Awaited
  <2>6. Exchange'
    BY <2>1, <2>3, <2>4, <2>5 DEF Exchange, OneWriter, Written, Ended
  <2>. QED BY <1>8, <2>6
<1>. QED BY <1>4, <1>6, <1>7, <1>8

LEMMA WholeKeeps ==
  ASSUME Exchange, ReadWhole
  PROVE  /\ Exchange'
         /\ \/ history' = Append(history, Bot("error", 0))
            \/ history' = Append(history, Bot("empty", 0))
            \/ /\ history' = Append(history, Bot("answer", wire[1].n))
               /\ [of |-> Len(history), n |-> wire[1].n] \in done
<1>. USE DEF ReadWhole
<1>1. /\ page.at = "reading" /\ wire # <<>> /\ wire[1].is = "whole" /\ wire' = Tail(wire)
      /\ Head(wire) = wire[1] /\ wire[1] \in Events
  BY Reads1 DEF Exchange, ServeType
<1>2. wire[1].n \in Nat /\ wire[1].err \in BOOLEAN
  BY <1>1, EventTypes
<1>3. /\ wire' = <<>>
      /\ \A t \in Threads : ~job[t].live
      /\ ~wire[1].err => [of |-> Len(history), n |-> wire[1].n] \in done
  BY <1>1, NothingFollows
<1>4. \/ Answered(Bot("error", 0))
      \/ ~wire[1].err /\ Answered(Bot("answer", wire[1].n))
      \/ Answered(Bot("empty", 0))
  <2>1. CASE wire[1].err
    BY <1>1, <2>1
  <2>2. CASE ~wire[1].err /\ wire[1].n > 0
    BY <1>1, <2>2
  <2>3. CASE ~wire[1].err /\ ~(wire[1].n > 0)
    BY <1>1, <2>3
  <2>. QED BY <2>1, <2>2, <2>3
<1>5. /\ Bot("error", 0) \in Entries /\ Bot("empty", 0) \in Entries
      /\ Bot("answer", wire[1].n) \in Entries
  BY <1>2 DEF Bot, Entries
<1>6. Exchange'
  BY <1>3, <1>4, <1>5, AnsweredKeeps
<1>7. \/ history' = Append(history, Bot("error", 0))
      \/ history' = Append(history, Bot("empty", 0))
      \/ /\ history' = Append(history, Bot("answer", wire[1].n))
         /\ [of |-> Len(history), n |-> wire[1].n] \in done
  BY <1>3, <1>4 DEF Answered
<1>. QED BY <1>6, <1>7


LEMMA DropKeeps ==
  ASSUME Exchange, Drop
  PROVE  Exchange'
<1>. USE DEF Drop
<1>1. page' \in Pages /\ page'.at = "ready" /\ page'.n = 0 /\ ~page'.err
  BY DEF Ready, Pages
<1>2. wire' \in Seq(Events) /\ wire' = <<>>
  BY EmptySeq
<1>3. job' \in [Threads -> Jobs] /\ \A t \in Threads : ~job'[t].live
  BY DEF Exchange, ServeType, Jobs
<1>4. ServeType'
  BY <1>1, <1>2, <1>3 DEF Exchange, ServeType
<1>. QED BY <1>1, <1>2, <1>3, <1>4 DEF Exchange, Awaited, OneWriter, Written, Ended

LEMMA RefuseKeeps ==
  ASSUME Exchange, NEW key, Refuse(key)
  PROVE  Exchange'
<1>. USE DEF Refuse
<1>1. page' \in Pages /\ page'.at = "ready" /\ page'.n = 0 /\ ~page'.err
  BY DEF Ready, Pages
<1>2. wire = <<>> /\ \A t \in Threads : ~job[t].live
  BY DEF Exchange, Awaited
<1>. QED BY <1>1, <1>2 DEF Exchange, ServeType, Awaited, OneWriter, Written, Ended

LEMMA AcceptKeeps ==
  ASSUME Exchange, NEW t \in Threads, NEW key, Accept(t, key)
  PROVE  Exchange'
<1>. USE DEF Accept
<1>1. page' \in Pages /\ page'.at = "reading" /\ page'.n = 0 /\ ~page'.err /\ page'.stream = page.stream
  BY DEF Exchange, ServeType, Awaited, Pages
<1>2. wire = <<>> /\ \A u \in Threads : ~job[u].live
  BY DEF Exchange, Awaited
<1>3. Len(history) \in Nat /\ page.stream \in BOOLEAN
  BY DEF Exchange, ServeType, Pages
<1>4. /\ job'[t].at = "queue" /\ job'[t].of = Len(history) /\ job'[t].live
      /\ job'[t].stream = page.stream /\ job'[t].out = 0 /\ job'[t] \in Jobs
      /\ \A u \in Threads : u # t => job'[u] = job[u]
      /\ job' \in [Threads -> Jobs]
  BY <1>3 DEF Exchange, ServeType, Jobs, Free
<1>5. ServeType'
  BY <1>1, <1>4 DEF Exchange, ServeType
<1>6. Awaited'
  BY <1>1 DEF Exchange, Awaited
<1>7. \A u \in Threads : job'[u].live => u = t
  BY <1>2, <1>4
<1>8. Len(wire) = 0
  BY <1>2, EmptySeq
<1>9. Written'
  BY <1>1, <1>2, <1>4, <1>7, <1>8 DEF Written
<1>. QED BY <1>4, <1>5, <1>6, <1>7, <1>9 DEF Exchange, OneWriter, Ended

\* A thread goes on without a word to the page.
LEMMA SilentKeeps ==
  ASSUME Exchange, UNCHANGED <<page, wire, history>>, depth' \in {0, 1}, lastThrew' \in BOOLEAN,
         done \subseteq done', job' \in [Threads -> Jobs],
         \A t \in Threads : /\ job'[t].live = job[t].live /\ job'[t].of = job[t].of
                            /\ job'[t].stream = job[t].stream /\ job'[t].out = job[t].out
                            /\ job[t].at # "free" => job'[t].at # "free"
                            /\ job'[t].at = "reply" =>
                                 job[t].at = "reply" \/ [of |-> job[t].of, n |-> job[t].out] \in done'
  PROVE  Exchange'
<1>1. ServeType'
  BY DEF Exchange, ServeType
<1>2. Awaited' /\ OneWriter'
  BY DEF Exchange, Awaited, OneWriter
<1>3. Written'
  BY DEF Exchange, Written
<1>4. Ended'
  <2>. SUFFICES ASSUME page.at = "reading", \A t \in Threads : ~job[t].live
                PROVE  EndOk' \/ EndError' \/ EndRead' \/ EndWhole'
    BY DEF Ended
  <2>1. EndOk \/ EndError \/ EndRead \/ EndWhole
    BY DEF Exchange, Ended
  <2>2. (EndOk => EndOk') /\ (EndError => EndError') /\ (EndRead => EndRead') /\ (EndWhole => EndWhole')
    BY DEF EndOk, EndError, EndRead, EndWhole
  <2>. QED BY <2>1, <2>2
<1>. QED BY <1>1, <1>2, <1>3, <1>4 DEF Exchange

LEMMA EnqueueKeeps ==
  ASSUME Exchange, NEW t \in Threads, Enqueue(t)
  PROVE  Exchange'
<1>1. job \in [Threads -> Jobs] /\ lastThrew \in BOOLEAN
  BY DEF Exchange, ServeType
<1>2. job' \in [Threads -> Jobs]
  BY <1>1 DEF Enqueue, Jobs
<1>3. \A u \in Threads : /\ job'[u].live = job[u].live /\ job'[u].of = job[u].of
                         /\ job'[u].stream = job[u].stream /\ job'[u].out = job[u].out
                         /\ job[u].at # "free" => job'[u].at # "free"
                         /\ job'[u].at = "reply" => job[u].at = "reply"
  BY <1>1 DEF Enqueue, Jobs
<1>. QED BY <1>1, <1>2, <1>3, SilentKeeps DEF Enqueue

LEMMA ReturnKeeps ==
  ASSUME Exchange, NEW t \in Threads, Return(t)
  PROVE  Exchange'
<1>1. job \in [Threads -> Jobs]
  BY DEF Exchange, ServeType
<1>2. job' \in [Threads -> Jobs]
  BY <1>1 DEF Return, Jobs
<1>3. \A u \in Threads : /\ job'[u].live = job[u].live /\ job'[u].of = job[u].of
                         /\ job'[u].stream = job[u].stream /\ job'[u].out = job[u].out
                         /\ job[u].at # "free" => job'[u].at # "free"
                         /\ job'[u].at = "reply" =>
                              job[u].at = "reply" \/ [of |-> job[u].of, n |-> job[u].out] \in done'
  BY <1>1 DEF Return, Jobs
<1>. QED BY <1>2, <1>3, SilentKeeps DEF Return

LEMMA ThrowKeeps ==
  ASSUME Exchange, NEW t \in Threads, Throw(t)
  PROVE  Exchange'
<1>1. job \in [Threads -> Jobs] /\ depth \in {0, 1}
  BY DEF Exchange, ServeType
<1>2. job' \in [Threads -> Jobs]
  BY <1>1 DEF Throw, Jobs
<1>3. \A u \in Threads : /\ job'[u].live = job[u].live /\ job'[u].of = job[u].of
                         /\ job'[u].stream = job[u].stream /\ job'[u].out = job[u].out
                         /\ job[u].at # "free" => job'[u].at # "free"
                         /\ job'[u].at = "reply" => job[u].at = "reply"
  BY <1>1 DEF Throw, Jobs
<1>. QED BY <1>1, <1>2, <1>3, SilentKeeps DEF Throw

LEMMA EmitKeeps ==
  ASSUME Exchange, NEW t \in Threads, Emit(t)
  PROVE  Exchange'
<1>. USE DEF Emit
<1>1. job \in [Threads -> Jobs] /\ job[t].out \in Nat
  BY DEF Exchange, ServeType, Jobs
<1>2. /\ job' \in [Threads -> Jobs]
      /\ job'[t].out = job[t].out + 1 /\ job'[t].at = "generate" /\ job'[t].of = job[t].of
      /\ job'[t].stream = job[t].stream
      /\ \A u \in Threads : job'[u].live = job[u].live /\ (u # t => job'[u] = job[u])
  BY <1>1 DEF Jobs
<1>3. CASE ~(job[t].live /\ job[t].stream)
  <2>1. UNCHANGED wire
    BY <1>3 DEF Write
  <2>2. ServeType' /\ Awaited' /\ OneWriter'
    BY <1>2, <2>1 DEF Exchange, ServeType, Awaited, OneWriter
  <2>3. Written'
    BY <1>2, <1>3, <2>1 DEF Exchange, Written
  <2>4. Ended'
    <3>. SUFFICES ASSUME page.at = "reading", \A u \in Threads : ~job[u].live
                  PROVE  EndOk' \/ EndError' \/ EndRead' \/ EndWhole'
      BY <1>2 DEF Ended
    <3>1. EndOk \/ EndError \/ EndRead \/ EndWhole
      BY DEF Exchange, Ended
    <3>2. (EndOk => EndOk') /\ (EndError => EndError') /\ (EndRead => EndRead') /\ (EndWhole => EndWhole')
      BY <2>1 DEF EndOk, EndError, EndRead, EndWhole
    <3>. QED BY <3>1, <3>2
  <2>. QED BY <2>2, <2>3, <2>4 DEF Exchange
<1>4. CASE job[t].live /\ job[t].stream
  <2>1. wire \in Seq(Events) /\ Piece \in Events /\ Piece.is = "piece" /\ wire' = Append(wire, Piece)
    BY <1>4, EventTypes DEF Exchange, ServeType, Write, Piece
  <2>2. /\ wire' \in Seq(Events) /\ Len(wire') = Len(wire) + 1 /\ Len(wire) \in Nat
        /\ \A i \in 1..Len(wire) : wire'[i] = wire[i]
        /\ wire'[Len(wire) + 1] = Piece
    BY <2>1
  <2>3. ServeType'
    BY <1>2, <2>2 DEF Exchange, ServeType
  <2>4. page.at = "reading" /\ Awaited' /\ OneWriter'
    BY <1>2, <1>4 DEF Exchange, Awaited, OneWriter
  <2>5. Written'
    <3>1. \A u \in Threads : job'[u].live => u = t
      BY <1>2, <1>4 DEF Exchange, OneWriter
    <3>2. /\ job[t].of = Len(history) /\ job[t].stream = page.stream /\ ~page.err
          /\ page.n + Len(wire) = job[t].out /\ \A i \in 1..Len(wire) : wire[i].is = "piece"
      BY <1>4 DEF Exchange, Written
    <3>3. page.n + Len(wire') = job'[t].out
      BY <1>2, <2>2, <3>2 DEF Exchange, ServeType, Pages
    <3>4. \A i \in 1..Len(wire') : wire'[i].is = "piece"
      BY <2>1, <2>2, <3>2
    <3>. QED BY <1>2, <1>4, <3>1, <3>2, <3>3, <3>4 DEF Written
  <2>6. Ended'
    BY <1>2, <1>4 DEF Ended
  <2>. QED BY <2>3, <2>4, <2>5, <2>6 DEF Exchange
<1>. QED BY <1>3, <1>4


LEMMA ReplyKeeps ==
  ASSUME Exchange, NEW t \in Threads, Reply(t)
  PROVE  Exchange'
<1>0. /\ job[t].at \in {"reply", "fail"} /\ job' = [job EXCEPT ![t] = Free]
      /\ UNCHANGED <<page, history, depth, drops, done, lastThrew>>
  BY DEF Reply
<1>1. job \in [Threads -> Jobs] /\ job[t] \in Jobs /\ wire \in Seq(Events) /\ page \in Pages
  BY DEF Exchange, ServeType
<1>2. /\ job' \in [Threads -> Jobs] /\ job'[t] = Free /\ ~job'[t].live
      /\ \A u \in Threads : u # t => job'[u] = job[u]
  BY <1>0, <1>1 DEF Jobs, Free
<1>3. CASE ~job[t].live
  <2>1. UNCHANGED wire
    BY <1>3 DEF Reply
  <2>2. ServeType' /\ Awaited' /\ OneWriter' /\ Written'
    <3>1. \A u \in Threads : job'[u].live => job'[u] = job[u]
      BY <1>2
    <3>2. ServeType' /\ Awaited'
      BY <1>0, <1>2, <2>1, <3>1 DEF Exchange, ServeType, Awaited
    <3>3. OneWriter'
      BY <3>1 DEF Exchange, OneWriter
    <3>4. Written'
      BY <1>0, <2>1, <3>1 DEF Exchange, Written
    <3>. QED BY <3>2, <3>3, <3>4
  <2>3. Ended'
    <3>. SUFFICES ASSUME page.at = "reading", \A u \in Threads : ~job'[u].live
                  PROVE  EndOk' \/ EndError' \/ EndRead' \/ EndWhole'
      BY <1>0 DEF Ended
    <3>1. \A u \in Threads : ~job[u].live
      BY <1>2, <1>3
    <3>2. EndOk \/ EndError \/ EndRead \/ EndWhole
      BY <3>1 DEF Exchange, Ended
    <3>3. (EndOk => EndOk') /\ (EndError => EndError') /\ (EndRead => EndRead') /\ (EndWhole => EndWhole')
      BY <1>0, <2>1 DEF EndOk, EndError, EndRead, EndWhole
    <3>. QED BY <3>2, <3>3
  <2>. QED BY <2>2, <2>3 DEF Exchange
<1>4. CASE job[t].live
  <2>1. page.at = "reading"
    BY <1>4 DEF Exchange, Awaited
  <2>2. /\ job[t].of = Len(history) /\ ~page.err
        /\ job[t].at = "reply" => [of |-> Len(history), n |-> job[t].out] \in done
    BY <1>4 DEF Exchange, Written
  <2>3. \A u \in Threads : ~job'[u].live
    BY <1>2, <1>4 DEF Exchange, OneWriter
  <2>4. SUFFICES wire' \in Seq(Events) /\ (EndOk' \/ EndError' \/ EndWhole')
    <3>1. ServeType' /\ Awaited' /\ OneWriter' /\ Written'
      BY <1>0, <1>2, <2>1, <2>3, <2>4 DEF Exchange, ServeType, Awaited, OneWriter, Written
    <3>. QED BY <2>4, <3>1 DEF Exchange, Ended
  <2>5. CASE ~job[t].stream
    <3>1. wire = <<>>
      BY <1>4, <2>5 DEF Exchange, Written
    <3>2. PICK e \in Events : e = Whole(job[t].out, job[t].at = "fail")
      BY <1>1, EventTypes DEF Jobs
    <3>3. wire' = Append(wire, e)
      BY <1>4, <2>5, <3>2 DEF Reply
    <3>4. wire' \in Seq(Events) /\ Len(wire') = 1 /\ wire'[1] = e
      <4>1. Len(wire) = 0
        BY <3>1, EmptySeq
      <4>2. wire' \in Seq(Events) /\ Len(wire') = Len(wire) + 1 /\ wire'[Len(wire) + 1] = e
        BY <1>1, <3>2, <3>3
      <4>. QED BY <4>1, <4>2
    <3>5. e.is = "whole" /\ e.n = job[t].out /\ (e.err <=> job[t].at = "fail")
      BY <3>2 DEF Whole
    <3>6. e.err \/ [of |-> Len(history), n |-> e.n] \in done
      BY <1>0, <2>2, <3>5
    <3>. QED BY <1>0, <3>4, <3>5, <3>6 DEF EndWhole
  <2>6. CASE job[t].stream
    <3>. DEFINE error == [is |-> "error"]
                end == [is |-> "end"]
    <3>1. page.n + Len(wire) = job[t].out /\ \A i \in 1..Len(wire) : wire[i].is = "piece"
      BY <1>4, <2>6 DEF Exchange, Written
    <3>2. page.n \in Nat /\ Len(wire) \in Nat
      BY <1>1 DEF Pages
    <3>3. error \in Events /\ end \in Events /\ error.is = "error" /\ end.is = "end"
      BY EventTypes
    <3>4. CASE job[t].at = "reply"
      <4>1. wire' = wire \o <<end>>
        BY <1>4, <2>6, <3>4 DEF Reply, Ends
      <4>. HIDE DEF end
      <4>2. /\ wire' \in Seq(Events) /\ Len(wire') = Len(wire) + 1
            /\ \A i \in 1..Len(wire) : wire'[i] = wire[i]
            /\ wire'[Len(wire) + 1] = end
        <5>1. <<end>> \in Seq(Events) /\ Len(<<end>>) = 1 /\ <<end>>[1] = end
          BY <3>3
        <5>2. PICK s \in Seq(Events) : s = <<end>>
          BY <5>1
        <5>3. /\ wire \o s \in Seq(Events) /\ Len(wire \o s) = Len(wire) + Len(s)
              /\ \A i \in 1..Len(wire) + Len(s) :
                   (wire \o s)[i] = IF i <= Len(wire) THEN wire[i] ELSE s[i - Len(wire)]
          BY <1>1, ConcatProperties
        <5>4. Len(s) = 1 /\ s[1] = end /\ wire' = wire \o s
          BY <4>1, <5>1, <5>2
        <5>5. \A i \in 1..Len(wire) : wire'[i] = wire[i]
          BY <3>2, <5>3, <5>4
        <5>6. wire'[Len(wire) + 1] = s[Len(wire) + 1 - Len(wire)]
          BY <3>2, <5>3, <5>4
        <5>. QED BY <3>2, <5>3, <5>4, <5>5, <5>6
      <4>3. page.n + Len(wire') - 1 = job[t].out
        BY <3>1, <3>2, <4>2
      <4>4. [of |-> Len(history), n |-> page.n + Len(wire') - 1] \in done
        BY <2>2, <3>4, <4>3
      <4>5. Len(wire') > 0 /\ wire'[Len(wire')].is = "end" /\ \A i \in 1..Len(wire') - 1 : wire'[i].is = "piece"
        BY <3>1, <3>2, <3>3, <4>2
      <4>. QED BY <1>0, <2>2, <4>2, <4>4, <4>5 DEF EndOk
    <3>5. CASE job[t].at = "fail"
      <4>1. wire' = wire \o <<error, end>>
        BY <1>4, <2>6, <3>5 DEF Reply, Ends
      <4>. HIDE DEF error, end
      <4>2. /\ wire' \in Seq(Events) /\ Len(wire') = Len(wire) + 2
            /\ \A i \in 1..Len(wire) : wire'[i] = wire[i]
            /\ wire'[Len(wire) + 1] = error /\ wire'[Len(wire) + 2] = end
        <5>1. /\ <<error, end>> \in Seq(Events) /\ Len(<<error, end>>) = 2
              /\ <<error, end>>[1] = error /\ <<error, end>>[2] = end
          BY <3>3
        <5>2. PICK s \in Seq(Events) : s = <<error, end>>
          BY <5>1
        <5>3. /\ wire \o s \in Seq(Events) /\ Len(wire \o s) = Len(wire) + Len(s)
              /\ \A i \in 1..Len(wire) + Len(s) :
                   (wire \o s)[i] = IF i <= Len(wire) THEN wire[i] ELSE s[i - Len(wire)]
          BY <1>1, ConcatProperties
        <5>4. Len(s) = 2 /\ s[1] = error /\ s[2] = end /\ wire' = wire \o s
          BY <4>1, <5>1, <5>2
        <5>5. \A i \in 1..Len(wire) : wire'[i] = wire[i]
          BY <3>2, <5>3, <5>4
        <5>6. /\ wire'[Len(wire) + 1] = s[Len(wire) + 1 - Len(wire)]
              /\ wire'[Len(wire) + 2] = s[Len(wire) + 2 - Len(wire)]
          BY <3>2, <5>3, <5>4
        <5>. QED BY <3>2, <5>3, <5>4, <5>5, <5>6
      <4>3. /\ Len(wire') > 1 /\ wire'[Len(wire')].is = "end" /\ wire'[Len(wire') - 1].is = "error"
            /\ \A i \in 1..Len(wire') - 2 : wire'[i].is = "piece"
        BY <3>1, <3>2, <3>3, <4>2
      <4>. QED BY <4>2, <4>3 DEF EndError
    <3>. QED BY <1>0, <3>4, <3>5
  <2>. QED BY <1>1, <2>5, <2>6 DEF Jobs
<1>. QED BY <1>1, <1>3, <1>4 DEF Jobs

\* The steps of the server that are not those of the conversation leave it alone.
LEMMA ServeStep ==
  ASSUME [Next]_vars
  PROVE  \/ PageNext \/ \E key : Refuse(key)
         \/ \E t \in Threads : (\E key : Accept(t, key)) \/ Reply(t) \/ Enqueue(t) \/ Emit(t)
                               \/ Return(t) \/ Throw(t)
         \/ UNCHANGED serveVars
<1>1. CASE Starting
  BY <1>1 DEF Starting
<1>2. CASE UserActs
  BY <1>2 DEF UserActs
<1>3. CASE \E t \in Threads : Handle(t) \/ Generate(t) \/ Decode(t) \/ Forward(t)
                              \/ GenerateEnds(t) \/ GenerateThrows(t)
  BY <1>3 DEF Handle, Generate, Decode, Forward, GenerateEnds, GenerateThrows
<1>4. CASE UNCHANGED vars
  BY <1>4 DEF vars
<1>. QED BY <1>1, <1>2, <1>3, <1>4 DEF Next

LEMMA ExchangeStep == Exchange /\ [Next]_vars => Exchange'
<1>. SUFFICES ASSUME Exchange, [Next]_vars
              PROVE  Exchange'
  OBVIOUS
<1>1. CASE PageNext
  BY <1>1, SubmitKeeps, PieceKeeps, ErrorKeeps, EndKeeps, WholeKeeps, DropKeeps DEF PageNext
<1>2. ASSUME NEW t \in Threads, NEW key, Accept(t, key)
      PROVE  Exchange'
  BY <1>2, AcceptKeeps
<1>3. ASSUME NEW key, Refuse(key)
      PROVE  Exchange'
  BY <1>3, RefuseKeeps
<1>4. ASSUME NEW t \in Threads, Reply(t) \/ Enqueue(t) \/ Emit(t) \/ Return(t) \/ Throw(t)
      PROVE  Exchange'
  BY <1>4, ReplyKeeps, EnqueueKeeps, EmitKeeps, ReturnKeeps, ThrowKeeps
<1>5. CASE UNCHANGED serveVars
  BY <1>5 DEF serveVars, Exchange, ServeType, Awaited, OneWriter, Written, Ended,
              EndOk, EndError, EndRead, EndWhole
<1>. QED BY <1>1, <1>2, <1>3, <1>4, <1>5, ServeStep

\* The page, the wire and the threads agree on the exchange that is going on.
THEOREM ExchangeInvariant == Spec => []Exchange
<1>1. Init => Exchange
  BY ExchangeInit DEF Init
<1>. QED BY <1>1, ExchangeStep, PTL DEF Spec

\* An entry filed as an answer follows the user's message and is the whole output
\* of one generation that returned for it (the streaming provider's catch and
\* the page's reader, http_api.cpp).
THEOREM AnswersStayWhole == Spec => AnswersAreWhole
<1>1. ASSUME Exchange, [Next]_vars
      PROVE  [history' # history /\ Last(history').kind = "answer" =>
                /\ Last(history).role = "user"
                /\ [of |-> Len(history), n |-> Last(history').n] \in done]_serveVars
  <2>. SUFFICES ASSUME history' # history, history'[Len(history')].kind = "answer"
                PROVE  /\ history[Len(history)].role = "user"
                       /\ [of |-> Len(history), n |-> history'[Len(history')].n] \in done
    BY DEF Last
  <2>1. history \in Seq(Entries)
    BY <1>1 DEF Exchange, ServeType
  <2>2. \A e : Len(Append(history, e)) = Len(history) + 1 /\ Append(history, e)[Len(history) + 1] = e
    BY <2>1
  <2>3. CASE ReadEnd
    <3>1. history[Len(history)].role = "user"
      BY <1>1, <2>3 DEF Exchange, Awaited, ReadEnd
    <3>. QED BY <1>1, <2>2, <2>3, <3>1, EndKeeps DEF Bot
  <2>4. CASE ReadWhole
    <3>1. history[Len(history)].role = "user"
      BY <1>1, <2>4 DEF Exchange, Awaited, ReadWhole
    <3>. QED BY <1>1, <2>2, <2>4, <3>1, WholeKeeps DEF Bot
  <2>5. CASE Submit
    BY <2>2, <2>5 DEF Submit, User, Messages
  <2>6. CASE ~ReadEnd /\ ~ReadWhole /\ ~Submit
    BY <1>1, <2>6, ServeStep DEF PageNext, ReadPiece, ReadError, Drop, Refuse, Accept, Reply,
                                 Enqueue, Emit, Return, Throw, serveVars
  <2>. QED BY <2>3, <2>4, <2>5, <2>6
<1>. QED BY <1>1, ExchangeInvariant, PTL DEF Spec, AnswersAreWhole

\* queue_depth errs only in the two cases named (scheduler.cpp:18-31).
THEOREM DepthIsTold == Spec => []DepthTells
<1>1. Init => DepthTells
  BY DEF Init, ServeInit, DepthTells, Free
<1>2. ASSUME Exchange, DepthTells, [Next]_vars
      PROVE  DepthTells'
  <2>1. job \in [Threads -> Jobs]
    BY <1>2 DEF Exchange, ServeType
  <2>2. ASSUME NEW t \in Threads, Enqueue(t)
        PROVE  DepthTells'
    BY <1>2, <2>1, <2>2 DEF DepthTells, Enqueue, Jobs
  <2>3. ASSUME NEW t \in Threads, Return(t)
        PROVE  DepthTells'
    <3>1. depth' = 0 /\ job'[t].at = "reply"
      BY <2>1, <2>3 DEF Return, Jobs
    <3>2. \A u \in Threads \ {t} : job'[u] = [job[u] EXCEPT !.passed = @ \/ job[u].at = "generate"]
      BY <2>1, <2>3 DEF Return
    <3>3. \A u \in Threads \ {t} : job'[u].at = "generate" => job'[u].passed
      BY <2>1, <3>2 DEF Jobs
    <3>. QED BY <3>1, <3>3 DEF DepthTells
  <2>4. ASSUME NEW t \in Threads, Throw(t)
        PROVE  DepthTells'
    BY <1>2, <2>1, <2>4 DEF DepthTells, Throw, Jobs
  \* Any other step leaves alone which threads generate.
  <2>5. ASSUME UNCHANGED <<depth, lastThrew>>,
               \A u \in Threads : /\ job'[u].at = "generate" <=> job[u].at = "generate"
                                  /\ job'[u].at = "generate" => job'[u].passed = job[u].passed
        PROVE  DepthTells'
    BY <1>2, <2>5 DEF DepthTells
  <2>6. CASE PageNext
    BY <2>1, <2>5, <2>6 DEF PageNext, Submit, ReadPiece, ReadError, ReadEnd, ReadWhole, Drop, Jobs
  <2>7. ASSUME NEW t \in Threads, (\E key : Accept(t, key)) \/ Reply(t) \/ Emit(t)
        PROVE  DepthTells'
    <3>1. CASE \E key : Accept(t, key)
      BY <2>1, <2>5, <3>1 DEF Accept, Jobs, Free
    <3>2. CASE Reply(t)
      BY <2>1, <2>5, <3>2 DEF Reply, Jobs, Free
    <3>3. CASE Emit(t)
      BY <2>1, <2>5, <3>3 DEF Emit, Jobs
    <3>. QED BY <2>7, <3>1, <3>2, <3>3
  <2>8. CASE (\E key : Refuse(key)) \/ UNCHANGED serveVars
    BY <2>5, <2>8 DEF Refuse, serveVars
  <2>. QED BY <1>2, <2>2, <2>3, <2>4, <2>6, <2>7, <2>8, ServeStep
<1>. QED BY <1>1, <1>2, ExchangeInvariant, PTL DEF Spec


(***************************************************************************)
(* Start-up, as far as the forwards rest on it.                            *)
(***************************************************************************)

StartType == boot \in Boots /\ dev \in Books /\ reserve \in Nat

LEMMA BootTypes ==
  ASSUME boot \in Boots
  PROVE  /\ Conf \in Configs /\ Machine \in Boxes
         /\ Main \in {"bf16", "bf16moe", "int4", "int4moe", "glm"}
         /\ Conf.vram \in Nat /\ Machine.total \in Nat /\ Conf.slots \in Nat
         /\ Conf.experts \in Nat /\ Conf.margin \in Nat
         /\ Conf.profile \in Profiles /\ Want \in Nat
<1>1. /\ Conf \in Configs /\ Machine \in Boxes
      /\ Main \in {"bf16", "bf16moe", "int4", "int4moe", "glm"}
  BY StartupAssumption DEF Conf, Machine, Main
<1>2. /\ Conf.vram \in Nat /\ Machine.total \in Nat /\ Conf.slots \in Nat
      /\ Conf.experts \in Nat /\ Conf.margin \in Nat /\ Conf.profile \in Profiles
  BY <1>1 DEF Configs, Boxes
<1>3. CapMargin \in Nat
  BY StartupAssumption
<1>4. Clamped(Conf.vram, Machine.total) \in Nat
  BY <1>2, <1>3 DEF Clamped
<1>. QED BY <1>1, <1>2, <1>4 DEF Want

LEMMA ChargedType == \A d \in Books, n \in Nat : Charged(d, n) \in Books
BY DEF Charged, Books

LEMMA EnabledType == \A d \in Books, n \in Nat, c \in BOOLEAN : Enabled(d, n, c) \in Books
BY DEF Enabled, Books

LEMMA ResideType == \A d \in Books, n \in Nat : \A e, j : Reside(d, n, e, j) \in Books
<1>. SUFFICES ASSUME NEW d \in Books, NEW n \in Nat, NEW e, NEW j
              PROVE  Reside(d, n, e, j) \in Books
  OBVIOUS
<1>1. d.used + n \in Nat
  BY DEF Books
<1>2. PICK u \in Nat : u = d.used + n
  BY <1>1
<1>3. [d EXCEPT !.used = u, !.resident = TRUE] \in Books
  BY DEF Books
<1>4. [d EXCEPT !.resident = FALSE] \in Books
  BY DEF Books
<1>. QED BY <1>2, <1>3, <1>4 DEF Reside

LEMMA SlotsType ==
  ASSUME StartType
  PROVE  MoeSlots(Conf.slots, Conf.experts, Conf.overlap) \in Nat
<1>. DEFINE s == Conf.slots
            n == Conf.experts
            q == dev.budget \div 4
<1>1. s \in Nat /\ n \in Nat /\ dev.budget \in Nat
  BY BootTypes DEF StartType, Books
<1>2. q \in Nat
  BY <1>1
<1>. HIDE DEF s, n, q
<1>3. AtMost(IF q > 2 * n THEN q ELSE 2 * n, 4 * n) \in Nat
  BY <1>1, <1>2 DEF AtMost
<1>4. MoeSlots(s, n, Conf.overlap) \in Nat
  BY <1>1, <1>3 DEF MoeSlots, q
<1>. QED BY <1>4 DEF s, n

LEMMA StartTypeStep ==
  ASSUME StartType, StartNext
  PROVE  StartType'
<1>. USE DEF StartType
<1>0. Machine.cublas \in BOOLEAN /\ Workspace \in Nat /\ WarmCharges \subseteq Nat
  BY BootTypes, StartupAssumption DEF Boxes
<1>1. CASE ChooseMode \/ LoadModel \/ InitOffload \/ FillBanks \/ PinBanks \/ PinOne \/ PinEnd
           \/ WarmForward \/ Breaks \/ Listen
  BY <1>1 DEF ChooseMode, LoadModel, InitOffload, FillBanks, PinBanks, PinOne, PinEnd, WarmForward,
              Breaks, Listen, Fatal, bootVars
<1>2. CASE EnableCuda
  BY <1>0, <1>2, BootTypes, EnabledType DEF EnableCuda, Fatal
<1>3. CASE OpenWeights
  BY <1>0, <1>3, BootTypes, EnabledType DEF OpenWeights, Fatal
<1>4. CASE ReserveSlots
  <2>1. reserve' \in Nat
    BY <1>4, SlotsType DEF ReserveSlots
  <2>2. dev' \in Books
    <3>1. CASE held'
      <4>1. dev.budget - reserve' \in Nat
        <5>1. dev.budget > reserve'
          BY <1>4, <3>1 DEF ReserveSlots
        <5>. QED BY <2>1, <5>1 DEF Books
      <4>2. dev' = [dev EXCEPT !.budget = dev.budget - reserve']
        BY <1>4, <3>1 DEF ReserveSlots
      <4>. QED BY <4>1, <4>2 DEF Books
    <3>2. CASE ~held'
      BY <1>4, <3>2 DEF ReserveSlots
    <3>. QED BY <3>1, <3>2
  <2>. QED BY <1>4, <2>1, <2>2 DEF ReserveSlots
<1>5. CASE WarmInt4
  <2>1. PICK n \in WarmedInt4(dev) :
          LET d == GivenBack(Charged(dev, n))
          IN dev' = IF Healthy(n) THEN Reside(d, Workspace, Machine.env, Machine.jit)
                    ELSE [d EXCEPT !.resident = FALSE]
    BY <1>5 DEF WarmInt4
  <2>2. n \in Nat
    <3>. QED BY DEF WarmedInt4
  <2>3. GivenBack(Charged(dev, n)) \in Books
    BY <2>2, ChargedType DEF GivenBack, Books
  <2>4. dev' \in Books
    <3>1. PICK d : d = GivenBack(Charged(dev, n))
      OBVIOUS
    <3>2. CASE Healthy(n)
      BY <1>0, <2>1, <2>3, <3>1, <3>2, ResideType
    <3>3. CASE ~Healthy(n)
      BY <2>1, <2>3, <3>1, <3>3 DEF Books
    <3>. QED BY <3>2, <3>3
  <2>. QED BY <1>5, <2>4 DEF WarmInt4
<1>6. CASE WarmBf16
  BY <1>0, <1>6, ChargedType DEF WarmBf16
<1>7. CASE GlmDevice
  BY <1>0, <1>7, BootTypes, EnabledType DEF GlmDevice, Fatal
<1>8. CASE GlmLoad
  BY <1>8 DEF GlmLoad, Fatal
<1>9. CASE GlmWarm
  BY <1>0, <1>9, ChargedType DEF GlmWarm
<1>. QED BY <1>1, <1>2, <1>3, <1>4, <1>5, <1>6, <1>7, <1>8, <1>9 DEF StartNext


(***************************************************************************)
(* Forwards over the shared pool.                                          *)
(***************************************************************************)

\* The experts of a route of a layer, as a forward names them.
Keyed == {ExpertIds(l, ids) : l \in 1..Len(Layers), ids \in Routes}

Fwds == [at : {"idle", "attn", "dense", "route", "prefetch", "pin", "compute", "release"},
         pos : Nat, last : Int, layer : 1..Len(Layers), i : Nat \ {0},
         ids : Keyed \cup {<<>>}, ptr : Seq(Nat), shared : BOOLEAN]

Busy == {"prefetch", "pin", "compute", "release"}

\* Where a forward is among the experts of its route.
Place ==
  \A t \in Callers :
    /\ fwd[t].at \in Busy => /\ fwd[t].ids \in Keyed /\ fwd[t].i \in 1..Len(fwd[t].ids)
                             /\ Len(fwd[t].ptr) = Len(fwd[t].ids)
    /\ fwd[t].at = "compute" => fwd[t].i = 1
    /\ fwd[t].at \in Busy /\ ~fwd[t].shared => InPool = {t}

\* How many rows each layer of a cache has: the layers the token has passed have
\* one more.
RowsOf(t) ==
  \A l \in 1..Len(Layers) :
    /\ fwd[t].at = "attn" =>
         rows[t][l] = IF l < fwd[t].layer THEN fwd[t].pos + 1 ELSE fwd[t].pos
    /\ fwd[t].at \notin {"attn", "idle"} =>
         rows[t][l] = IF l <= fwd[t].layer THEN fwd[t].pos + 1 ELSE fwd[t].pos
    /\ fwd[t].at = "idle" /\ job[t].at = "generate" /\ ~job[t].bad /\ Glm => rows[t][l] = rows[t][1]
Rows == \A t \in Callers : RowsOf(t)

\* Until the server listens nothing is in the pool and nothing runs.
NotYet ==
  pc # "listening" => /\ DOMAIN pool.map = {} /\ spilled = {}
                      /\ \A t \in Callers : fwd[t] = Idle /\ job[t].at = "free"

\* The plan leaves room for a route, if experts are bound and it was made with no
\* less than their bytes.
PlanFits == RoutesFit

BooksOf(p) == p.used = Cardinality(DOMAIN p.map) /\ p.bytes = p.used * ExpertBytes

\* r orders the experts D, each before or after each other.
Orders(r, D) ==
  /\ r \subseteq D \X D
  /\ \A x \in D : <<x, x>> \notin r
  /\ \A x, y \in D : x # y => <<x, y>> \in r \/ <<y, x>> \in r
  /\ \A x, y, z \in D : <<x, y>> \in r /\ <<y, z>> \in r => <<x, z>> \in r

\* The experts a forward will still give back.
Owed(t) ==
  CASE fwd[t].at = "prefetch" -> {fwd[t].ids[j] : j \in 1..fwd[t].i - 1}
    [] fwd[t].at = "pin" -> {fwd[t].ids[j] : j \in {k \in 1..Len(fwd[t].ids) :
                                                      k < fwd[t].i => fwd[t].ptr[k] # NoPtr}}
    [] fwd[t].at \in {"compute", "release"} ->
         {fwd[t].ids[j] : j \in {k \in fwd[t].i..Len(fwd[t].ids) : fwd[t].ptr[k] # NoPtr}}
    [] OTHER -> {}
Accounted ==
  /\ spilled \subseteq DOMAIN pool.map
  /\ \A x \in DOMAIN pool.map : x \in spilled \/ \E t \in Callers : x \in Owed(t)

\* What an undisturbed forward has pinned so far is the most recent of the pool;
\* what it could not pin, it may do without.
Pinned(t) == {j \in 1..Len(fwd[t].ids) : fwd[t].at = "pin" => j < fwd[t].i}
HandlesOf(t) ==
  fwd[t].at \in {"pin", "compute"} =>
    \A j \in Pinned(t) :
       IF fwd[t].ptr[j] # NoPtr
       THEN ~fwd[t].shared /\ RouteFits(fwd[t].ids) =>
              /\ fwd[t].ids[j] \in DOMAIN pool.map
              /\ pool.map[fwd[t].ids[j]] = fwd[t].ptr[j]
              /\ \A y \in DOMAIN pool.map : <<fwd[t].ids[j], y>> \in pool.older =>
                   \E k \in Pinned(t) : y = fwd[t].ids[k] /\ fwd[t].ptr[k] # NoPtr
       ELSE ~pool.bound \/ ~MayAlloc(ExpertBytes) \/ throws > 0
Handles == \A t \in Callers : HandlesOf(t)

Names == (1..Len(Layers)) \X UNION {ToSet(ids) : ids \in Routes}
Pools == [cap : Nat \ {0}, budget : Nat, bound : BOOLEAN, map : UNION {[S -> Nat \ {0}] : S \in SUBSET Names},
          older : SUBSET (Names \X Names), used : Nat, bytes : Nat]

Sound(p) == /\ p \in Pools /\ IsFiniteSet(DOMAIN p.map) /\ BooksOf(p)
            /\ Orders(p.older, DOMAIN p.map)
InBounds(p) == p.used <= p.cap /\ (p.budget > 0 => p.bytes <= p.budget \/ p.used <= 1)
PoolBooks == Sound(pool) /\ InBounds(pool) /\ (~pool.bound => DOMAIN pool.map = {})

ForwardType ==
  /\ fwd \in [Callers -> Fwds]
  /\ rows \in [Callers -> [1..Len(Layers) -> Nat]]
  /\ throws \in Nat

Forwards == /\ StartType /\ ForwardType /\ Place /\ Rows /\ NotYet /\ PlanFits
            /\ PoolBooks /\ Accounted /\ Handles

LEMMA RouteLengths ==
  ASSUME NEW ids \in Routes
  PROVE  /\ Len(ids) \in Nat \ {0} /\ DOMAIN ids = 1..Len(ids)
         /\ \A j \in 1..Len(ids) : ids[j] \in ToSet(ids)
<1>1. ids \in Seq(ToSet(ids)) /\ ids # <<>>
  BY GlmForwardAssumption
<1>2. Len(ids) \in Nat \ {0} /\ DOMAIN ids = 1..Len(ids)
  BY <1>1, EmptySeq, LenProperties
<1>3. \A j \in 1..Len(ids) : ids[j] \in ToSet(ids)
  BY <1>2 DEF ToSet
<1>. QED BY <1>2, <1>3

\* The keys of a route's experts are as many as the experts.
LEMMA KeysOf ==
  ASSUME NEW l \in 1..Len(Layers), NEW ids \in Routes, NEW e, e = ExpertIds(l, ids)
  PROVE  e \in Keyed /\ e \in Seq(Names) /\ Len(e) = Len(ids) /\ DOMAIN e = 1..Len(ids)
<1>1. PICK n \in Nat \ {0} : n = Len(ids) /\ DOMAIN ids = 1..n
  BY RouteLengths
<1>2. \A j \in 1..n : <<l, ids[j]>> \in Names
  BY <1>1, RouteLengths DEF Names
<1>3. e = [j \in 1..n |-> <<l, ids[j]>>]
  BY <1>1 DEF ExpertIds
<1>4. e \in [1..n -> Names]
  BY <1>2, <1>3
<1>5. e \in Seq(Names) /\ DOMAIN e = 1..n
  BY <1>4, SeqDef
<1>6. Len(e) = n
  BY <1>1, <1>5, LenProperties
<1>. QED BY <1>1, <1>5, <1>6 DEF Keyed

LEMMA RouteTypes ==
  ASSUME NEW ids \in Keyed
  PROVE  /\ ids \in Seq(Names) /\ Len(ids) \in Nat \ {0}
         /\ \A j \in 1..Len(ids) : ids[j] \in Names
         /\ \E r \in Routes : Len(r) = Len(ids)
<1>1. PICK l \in 1..Len(Layers), r \in Routes : ids = ExpertIds(l, r)
  BY DEF Keyed
<1>2. ids \in Seq(Names) /\ Len(ids) = Len(r)
  BY <1>1, KeysOf
<1>3. Len(ids) \in Nat \ {0}
  BY <1>2, RouteLengths
<1>. QED BY <1>2, <1>3, ElementOfSeq


LEMMA Times ==
  \A a, b \in Int : /\ a * ExpertBytes \in Int
                    /\ (a + b) * ExpertBytes = a * ExpertBytes + b * ExpertBytes
                    /\ (a - b) * ExpertBytes = a * ExpertBytes - b * ExpertBytes
                    /\ 1 * ExpertBytes = ExpertBytes
                    /\ a <= b => a * ExpertBytes <= b * ExpertBytes
                    /\ a \in Nat => a * ExpertBytes \in Nat
<1>1. ExpertBytes \in Nat \ {0}
  BY GlmForwardAssumption
<1>2. ASSUME NEW E \in Nat \ {0}, NEW a \in Int, NEW b \in Int
      PROVE  /\ a * E \in Int
             /\ (a + b) * E = a * E + b * E
             /\ (a - b) * E = a * E - b * E
             /\ 1 * E = E
             /\ a <= b => a * E <= b * E
             /\ a \in Nat => a * E \in Nat
  <2>1. /\ a * E \in Int /\ (a + b) * E = a * E + b * E
        /\ (a - b) * E = a * E - b * E /\ 1 * E = E
    OBVIOUS
  <2>2. ASSUME a <= b PROVE a * E <= b * E
    BY <2>2
  <2>3. ASSUME a \in Nat PROVE a * E \in Nat
    BY <2>3
  <2>. QED BY <2>1, <2>2, <2>3
<1>. QED BY <1>1, <1>2

Before(t, D, r) == {x \in D : <<x, t>> \in r}

\* Among some experts there is an oldest.
LEMMA Oldest ==
  ASSUME NEW D, IsFiniteSet(D), NEW r, Orders(r, D), NEW K, K \subseteq D, K # {}
  PROVE  \E t \in K : \A x \in K : <<x, t>> \notin r
<1>. DEFINE N == {Cardinality(Before(t, D, r)) : t \in K}
<1>1. \A t \in K : /\ Before(t, D, r) \subseteq D /\ IsFiniteSet(Before(t, D, r))
                   /\ Cardinality(Before(t, D, r)) \in Nat
  BY FS_Subset, FS_CardinalityType DEF Before
<1>2. N \subseteq Nat /\ N # {}
  BY <1>1
<1>3. PICK n \in N : \A m \in N : <<m, n>> \notin OpToRel(<, Nat)
  <2>. HIDE DEF N
  <2>. QED BY <1>2, NatLessThanWellFounded, WFMin
<1>4. PICK t \in K : n = Cardinality(Before(t, D, r))
  OBVIOUS
<1>5. \A x \in K : ~(Cardinality(Before(x, D, r)) < n)
  BY <1>1, <1>3, <1>4 DEF OpToRel
<1>6. ASSUME NEW x \in K, <<x, t>> \in r
      PROVE  FALSE
  <2>1. Before(x, D, r) \subseteq Before(t, D, r)
    BY <1>6 DEF Before, Orders
  <2>2. x \in Before(t, D, r) /\ x \notin Before(x, D, r)
    BY <1>6 DEF Before, Orders
  <2>3. Cardinality(Before(x, D, r)) < Cardinality(Before(t, D, r))
    BY <1>1, <2>1, <2>2, FS_Subset
  <2>. QED BY <1>4, <1>5, <2>3
<1>. QED BY <1>6

\* Dropping experts keeps the books.
LEMMA DroppedKeeps ==
  ASSUME NEW p \in Pools, IsFiniteSet(DOMAIN p.map), BooksOf(p), Orders(p.older, DOMAIN p.map),
         NEW S, S \subseteq DOMAIN p.map, NEW q, q = Dropped(p, S)
  PROVE  /\ q \in Pools /\ IsFiniteSet(DOMAIN q.map) /\ BooksOf(q)
         /\ Orders(q.older, DOMAIN q.map)
         /\ DOMAIN q.map = DOMAIN p.map \ S
         /\ \A x \in DOMAIN q.map : q.map[x] = p.map[x]
         /\ q.cap = p.cap /\ q.budget = p.budget /\ q.bound = p.bound
         /\ q.older \subseteq p.older
         /\ q.used = p.used - Cardinality(S) /\ Cardinality(S) \in Nat
         /\ q.bytes = p.bytes - Cardinality(S) * ExpertBytes
<1>. DEFINE D == DOMAIN p.map
            m == [x \in D \ S |-> p.map[x]]
            o == {e \in p.older : e[1] \notin S /\ e[2] \notin S}
            u == p.used - Cardinality(S)
            b == p.bytes - Cardinality(S) * ExpertBytes
<1>1. q = [p EXCEPT !.map = m, !.older = o, !.bytes = b, !.used = u]
  BY DEF Dropped, Kept, Pools
<1>2. /\ IsFiniteSet(S) /\ IsFiniteSet(D \ S) /\ Cardinality(S) \in Nat /\ Cardinality(D) \in Nat
      /\ Cardinality(D \ S) \in Nat
  BY FS_Subset, FS_Difference, FS_CardinalityType
<1>3. Cardinality(D \ S) = Cardinality(D) - Cardinality(S)
  <2>1. Cardinality(D \ S) = Cardinality(D) - Cardinality(D \cap S)
    BY FS_Difference
  <2>2. D \cap S = S
    OBVIOUS
  <2>3. Cardinality(D \cap S) = Cardinality(S)
    BY <2>2
  <2>. QED BY <2>1, <2>3
<1>4. u = Cardinality(D \ S) /\ u \in Nat
  BY <1>2, <1>3 DEF BooksOf
<1>5. b = u * ExpertBytes /\ b \in Nat
  <2>1. b = p.used * ExpertBytes - Cardinality(S) * ExpertBytes
    BY DEF BooksOf
  <2>2. p.used \in Int /\ Cardinality(S) \in Int
    BY <1>2 DEF BooksOf
  <2>3. b = u * ExpertBytes
    <3>. HIDE DEF b
    <3>. QED BY <2>1, <2>2, Times
  <2>. HIDE DEF b, u
  <2>. QED BY <2>3, <1>4, Times
<1>6. p.map \in [D -> Nat \ {0}] /\ D \in SUBSET Names /\ p.older \in SUBSET (Names \X Names)
  BY DEF Pools
<1>7. m \in [D \ S -> Nat \ {0}] /\ o \in SUBSET (Names \X Names) /\ D \ S \in SUBSET Names
  BY <1>6
<1>8. m \in UNION {[T -> Nat \ {0}] : T \in SUBSET Names}
  BY <1>7
<1>. HIDE DEF m, o, u, b
<1>9. q \in Pools
  BY <1>1, <1>4, <1>5, <1>7, <1>8 DEF Pools
<1>10. /\ q.map = m /\ q.older = o /\ q.used = u /\ q.bytes = b
       /\ q.cap = p.cap /\ q.budget = p.budget /\ q.bound = p.bound
  BY <1>1 DEF Pools
<1>11. DOMAIN q.map = D \ S /\ \A x \in D \ S : q.map[x] = p.map[x]
  BY <1>10 DEF m
<1>12. Orders(q.older, D \ S)
  BY <1>10 DEF o, Orders
<1>13. BooksOf(q)
  BY <1>4, <1>5, <1>10, <1>11 DEF BooksOf
<1>. QED BY <1>2, <1>9, <1>10, <1>11, <1>12, <1>13 DEF o, u, b


\* More room when more has gone.
LEMMA RoomGrows ==
  ASSUME NEW p \in Pools, NEW m \in Nat, NEW n \in Nat, m <= n, Room(p, m)
  PROVE  Room(p, n)
<1>1. p.used \in Nat /\ p.cap \in Nat /\ p.bytes \in Nat /\ p.budget \in Nat
  BY DEF Pools
<1>2. m * ExpertBytes <= n * ExpertBytes /\ m * ExpertBytes \in Int /\ n * ExpertBytes \in Int
  <2>1. m \in Int /\ n \in Int
    OBVIOUS
  <2>. QED BY <2>1, Times
<1>3. ExpertBytes \in Nat
  BY GlmForwardAssumption
<1>. QED BY <1>1, <1>2, <1>3 DEF Room


\* The loop of evictions leaves room for one more, or nothing.
LEMMA RoomIsMade ==
  ASSUME NEW p \in Pools, IsFiniteSet(DOMAIN p.map), BooksOf(p), Orders(p.older, DOMAIN p.map),
         NEW q, q = MadeRoom(p)
  PROVE  q.used < q.cap /\ (q.budget > 0 => q.bytes + ExpertBytes <= q.budget \/ q.used = 0)
<1>. DEFINE D == DOMAIN p.map
<1>1. PICK S \in SUBSET D : S = Evicted(p)
  BY DEF Evicted
<1>2. \A e \in D : e \in S <=> ~Room(p, Cardinality(Before(e, D, p.older)))
  BY <1>1 DEF Evicted, Before
<1>3. /\ DOMAIN q.map = D \ S /\ q.cap = p.cap /\ q.budget = p.budget
      /\ q.used = p.used - Cardinality(S) /\ Cardinality(S) \in Nat
      /\ q.bytes = p.bytes - Cardinality(S) * ExpertBytes
      /\ q \in Pools /\ BooksOf(q)
  BY <1>1, DroppedKeeps DEF MadeRoom
<1>4. p.cap \in Nat \ {0} /\ p.budget \in Nat
  BY DEF Pools
<1>5. CASE D \ S = {}
  <2>1. Cardinality(DOMAIN q.map) = 0
    BY <1>3, <1>5, FS_EmptySet
  <2>2. q.used = 0 /\ q.bytes = 0
    <3>1. q.used = 0 /\ q.bytes = 0 * ExpertBytes
      BY <1>3, <2>1 DEF BooksOf
    <3>2. 0 * ExpertBytes = 0
      BY GlmForwardAssumption
    <3>. QED BY <3>1, <3>2
  <2>. QED BY <1>3, <1>4, <2>2, GlmForwardAssumption
<1>6. CASE D \ S # {}
  <2>1. PICK t \in D \ S : \A x \in D \ S : <<x, t>> \notin p.older
    BY <1>6, Oldest
  \* Whatever is older than one that goes, goes.
  <2>2. ASSUME NEW e \in S PROVE <<e, t>> \in p.older
    <3>. SUFFICES ASSUME <<t, e>> \in p.older
                  PROVE  FALSE
      BY <2>1 DEF Orders
    <3>1. Before(t, D, p.older) \subseteq Before(e, D, p.older)
      BY <2>1 DEF Before, Orders
    <3>2. Before(e, D, p.older) \subseteq D
      BY DEF Before
    <3>3. IsFiniteSet(Before(e, D, p.older))
      BY <3>2, FS_Subset
    <3>4. /\ Cardinality(Before(t, D, p.older)) <= Cardinality(Before(e, D, p.older))
          /\ Cardinality(Before(t, D, p.older)) \in Nat /\ Cardinality(Before(e, D, p.older)) \in Nat
      BY <3>1, <3>3, FS_Subset, FS_CardinalityType
    <3>5. Room(p, Cardinality(Before(t, D, p.older))) /\ ~Room(p, Cardinality(Before(e, D, p.older)))
      BY <1>2, <2>1
    <3>. QED BY <3>4, <3>5, RoomGrows
  <2>3. Before(t, D, p.older) = S
    BY <2>1, <2>2 DEF Before
  <2>4. Room(p, Cardinality(S))
    BY <1>2, <2>1, <2>3
  <2>. QED BY <1>3, <1>4, <2>4 DEF Room
<1>. QED BY <1>5, <1>6

\* Experts that fit with one more, and that with all newer ones, stay.
LEMMA NewestStay ==
  ASSUME NEW p \in Pools, IsFiniteSet(DOMAIN p.map), BooksOf(p), Orders(p.older, DOMAIN p.map),
         NEW K, K \subseteq DOMAIN p.map,
         \A x \in K, y \in DOMAIN p.map : <<x, y>> \in p.older => y \in K,
         NEW k \in Nat, Cardinality(K) < k, k <= p.cap,
         p.budget > 0 => k * ExpertBytes <= p.budget
  PROVE  K \cap Evicted(p) = {}
<1>. DEFINE D == DOMAIN p.map
<1>. SUFFICES ASSUME NEW e \in K
              PROVE  Room(p, Cardinality(Before(e, D, p.older)))
  BY DEF Evicted, Before
<1>1. D \ Before(e, D, p.older) \subseteq K /\ Before(e, D, p.older) \subseteq D
  BY DEF Before, Orders
<1>2. PICK n \in Nat : n = Cardinality(Before(e, D, p.older)) /\ Cardinality(D \ Before(e, D, p.older)) = Cardinality(D) - n
  <2>1. IsFiniteSet(Before(e, D, p.older))
    BY <1>1, FS_Subset
  <2>2. Cardinality(Before(e, D, p.older)) \in Nat
    BY <2>1, FS_CardinalityType
  <2>3. Cardinality(D \ Before(e, D, p.older)) = Cardinality(D) - Cardinality(D \cap Before(e, D, p.older))
    BY FS_Difference
  <2>4. D \cap Before(e, D, p.older) = Before(e, D, p.older)
    BY <1>1
  <2>5. Cardinality(D \cap Before(e, D, p.older)) = Cardinality(Before(e, D, p.older))
    BY <2>4
  <2>. QED BY <2>2, <2>3, <2>5
<1>3. Cardinality(D \ Before(e, D, p.older)) <= Cardinality(K) /\ Cardinality(K) \in Nat /\ Cardinality(D) \in Nat
  <2>1. IsFiniteSet(K)
    BY FS_Subset
  <2>. QED BY <1>1, <2>1, FS_Subset, FS_CardinalityType
<1>4. p.used = Cardinality(D) /\ p.used - n + 1 <= k /\ p.used \in Nat
  BY <1>2, <1>3 DEF BooksOf
<1>5. p.used - n < p.cap
  BY <1>4 DEF Pools
<1>6. p.bytes - n * ExpertBytes + ExpertBytes = (p.used - n + 1) * ExpertBytes
  <2>1. p.bytes = p.used * ExpertBytes
    BY DEF BooksOf
  <2>2. p.used - n \in Int /\ 1 \in Int /\ p.used \in Int /\ n \in Int
    BY <1>4
  <2>3. (p.used - n) * ExpertBytes = p.used * ExpertBytes - n * ExpertBytes
    BY <2>2, Times
  <2>4. ((p.used - n) + 1) * ExpertBytes = (p.used - n) * ExpertBytes + 1 * ExpertBytes
    BY <2>2, Times
  <2>5. 1 * ExpertBytes = ExpertBytes
    BY Times
  <2>. QED BY <2>1, <2>3, <2>4, <2>5
<1>7. (p.used - n + 1) * ExpertBytes <= k * ExpertBytes /\ k * ExpertBytes \in Int /\ (p.used - n + 1) * ExpertBytes \in Int
  <2>1. PICK r \in Int : r = p.used - n + 1 /\ r <= k
    BY <1>2, <1>4
  <2>2. k \in Int
    OBVIOUS
  <2>3. r * ExpertBytes <= k * ExpertBytes /\ k * ExpertBytes \in Int /\ r * ExpertBytes \in Int
    BY <2>1, <2>2, Times
  <2>. QED BY <2>1, <2>3
<1>8. p.budget = 0 \/ p.bytes - n * ExpertBytes + ExpertBytes <= p.budget
  BY <1>6, <1>7 DEF Pools
<1>. QED BY <1>2, <1>5, <1>8 DEF Room


Alike(p, q) == q.cap = p.cap /\ q.budget = p.budget /\ q.bound = p.bound

\* The experts of q are those of p with the same memory, in the same order, but
\* for e, which is the newest.
Newest(p, q, e) ==
  /\ DOMAIN q.map \subseteq DOMAIN p.map \cup {e}
  /\ \A x \in DOMAIN p.map \cap DOMAIN q.map : q.map[x] = p.map[x]
  /\ \A x, y : <<x, y>> \in q.older => x # e /\ (y = e \/ <<x, y>> \in p.older)

LEMMA TouchedKeeps ==
  ASSUME NEW p, Sound(p), NEW e \in DOMAIN p.map, NEW q, q = Touched(p, e)
  PROVE  /\ Sound(q) /\ Alike(p, q) /\ Newest(p, q, e)
         /\ q.map = p.map /\ q.used = p.used /\ q.bytes = p.bytes
<1>. DEFINE D == DOMAIN p.map
            o == {r \in p.older : e \notin {r[1], r[2]}} \cup ({x \in D : x # e} \X {e})
<1>1. q = [p EXCEPT !.older = o]
  BY DEF Touched, Sound, Pools
<1>2. p.older \subseteq D \X D /\ D \subseteq Names
  BY DEF Sound, Orders, Pools
<1>3. o \subseteq D \X D
  BY <1>2
<1>4. \A x, y : <<x, y>> \in o <=> \/ <<x, y>> \in p.older /\ e # x /\ e # y
                                   \/ x \in D /\ x # e /\ y = e
  BY <1>2
<1>. HIDE DEF o
<1>5. Orders(o, D)
  BY <1>3, <1>4 DEF Orders, Sound
<1>6. q.older = o /\ q.map = p.map /\ q.used = p.used /\ q.bytes = p.bytes /\ Alike(p, q)
  BY <1>1 DEF Sound, Pools, Alike
<1>7. q \in Pools
  <2>1. o \subseteq Names \X Names
    BY <1>2, <1>3
  <2>. QED BY <1>1, <2>1 DEF Sound, Pools
<1>. QED BY <1>4, <1>5, <1>6, <1>7 DEF Sound, BooksOf, Newest

LEMMA UploadedKeeps ==
  ASSUME NEW p, Sound(p), NEW e \in Names, e \notin DOMAIN p.map, NEW n \in Nat \ {0},
         NEW m \in [DOMAIN p.map \cup {e} -> Nat \ {0}],
         m[e] = n, \A x \in DOMAIN p.map : m[x] = p.map[x],
         NEW q, q = [cap |-> p.cap, budget |-> p.budget, bound |-> p.bound, map |-> m,
                     older |-> p.older \cup ((DOMAIN p.map) \X {e}),
                     used |-> p.used + 1, bytes |-> p.bytes + ExpertBytes]
  PROVE  /\ Sound(q) /\ Alike(p, q) /\ Newest(p, q, e)
         /\ DOMAIN q.map = DOMAIN p.map \cup {e} /\ q.map[e] = n
         /\ q.used = p.used + 1 /\ q.bytes = p.bytes + ExpertBytes
<1>. DEFINE D == DOMAIN p.map
            o == p.older \cup (D \X {e})
            u == p.used + 1
            b == p.bytes + ExpertBytes
<1>1. q = [cap |-> p.cap, budget |-> p.budget, bound |-> p.bound, map |-> m,
           older |-> o, used |-> u, bytes |-> b]
  OBVIOUS
<1>2. /\ p.older \subseteq D \X D /\ D \subseteq Names /\ p.map \in [D -> Nat \ {0}]
      /\ p.used \in Nat /\ p.bytes \in Nat /\ IsFiniteSet(D)
  BY DEF Sound, Orders, Pools
<1>3. m \in [D \cup {e} -> Nat \ {0}] /\ D \cup {e} \in SUBSET Names
  BY <1>2
<1>4. m \in UNION {[T -> Nat \ {0}] : T \in SUBSET Names}
  BY <1>3
<1>5. o \subseteq (D \cup {e}) \X (D \cup {e}) /\ o \subseteq Names \X Names
  BY <1>2
<1>6. \A x, y : <<x, y>> \in o <=> <<x, y>> \in p.older \/ (x \in D /\ y = e)
  BY <1>2
<1>7. u \in Nat /\ b \in Nat
  BY <1>2, GlmForwardAssumption
<1>8. IsFiniteSet(D \cup {e}) /\ Cardinality(D \cup {e}) = u
  BY <1>2, FS_AddElement DEF Sound, BooksOf
<1>9. b = u * ExpertBytes
  <2>1. p.used \in Int /\ 1 \in Int
    BY <1>2
  <2>2. (p.used + 1) * ExpertBytes = p.used * ExpertBytes + 1 * ExpertBytes /\ 1 * ExpertBytes = ExpertBytes
    BY <2>1, Times
  <2>. QED BY <2>2 DEF Sound, BooksOf
<1>10. \A x \in D : m[x] = p.map[x]
  OBVIOUS
<1>11. m[e] = n /\ DOMAIN m = D \cup {e}
  OBVIOUS
<1>. HIDE DEF o, u, b
<1>12. /\ q.map = m /\ q.older = o /\ q.used = u /\ q.bytes = b /\ Alike(p, q)
  BY <1>1 DEF Sound, Pools, Alike
<1>13. q \in Pools
  BY <1>1, <1>4, <1>5, <1>7 DEF Sound, Pools
<1>14. Orders(o, D \cup {e})
  <2>1. \A x \in D \cup {e} : <<x, x>> \notin o
    BY <1>6 DEF Sound, Orders
  <2>2. \A x, y \in D \cup {e} : x # y => <<x, y>> \in o \/ <<y, x>> \in o
    BY <1>6 DEF Sound, Orders
  <2>3. \A x, y, z \in D \cup {e} : <<x, y>> \in o /\ <<y, z>> \in o => <<x, z>> \in o
    BY <1>2, <1>6 DEF Sound, Orders
  <2>. QED BY <1>5, <2>1, <2>2, <2>3 DEF Orders
<1>15. Newest(p, q, e)
  <2>1. \A x, y : <<x, y>> \in o => x # e /\ (y = e \/ <<x, y>> \in p.older)
    BY <1>2, <1>6
  <2>. QED BY <2>1, <1>10, <1>11, <1>12 DEF Newest
<1>. QED BY <1>8, <1>9, <1>11, <1>12, <1>13, <1>14, <1>15 DEF Sound, BooksOf, u, b


\* The newest experts of a pool, fewer than there is room for.
Few(p, K) ==
  /\ K \subseteq DOMAIN p.map
  /\ \A x \in K, y \in DOMAIN p.map : <<x, y>> \in p.older => y \in K
  /\ \E k \in Nat : Cardinality(K) < k /\ k <= p.cap /\ (p.budget > 0 => k * ExpertBytes <= p.budget)

\* What a call of pin_upload does: the pool stays sound and within its bounds, the
\* expert becomes its newest or is refused for want of memory or by a failure,
\* and the newest so far stay.
LEMMA PinUploadKeeps ==
  ASSUME dev \in Books, throws \in Nat, Sound(pool), InBounds(pool), NEW e \in Names,
         PinUpload(e)
  PROVE  /\ Sound(pool') /\ InBounds(pool') /\ Alike(pool, pool') /\ Newest(pool, pool', e)
         /\ dev' \in Books /\ throws' \in Nat /\ throws' >= throws
         /\ ~MayAlloc(ExpertBytes) => ~MayAlloc(ExpertBytes)'
         /\ e \notin DOMAIN pool'.map => ~MayAlloc(ExpertBytes)' \/ throws' > 0
         /\ \A K : Few(pool, K) => K \subseteq DOMAIN pool'.map
<1>0. ExpertBytes \in Nat \ {0}
  BY GlmForwardAssumption
<1>1. CASE e \in DOMAIN pool.map
  <2>1. pool' = Touched(pool, e) /\ UNCHANGED <<dev, throws>>
    BY <1>1 DEF PinUpload
  <2>2. PICK q : q = pool'
    OBVIOUS
  <2>3. /\ Sound(q) /\ Alike(pool, q) /\ Newest(pool, q, e)
        /\ q.map = pool.map /\ q.used = pool.used /\ q.bytes = pool.bytes
    BY <1>1, <2>1, <2>2, TouchedKeeps
  <2>. QED BY <1>1, <2>1, <2>2, <2>3 DEF InBounds, Alike, MayAlloc, Few
<1>2. CASE e \notin DOMAIN pool.map
  <2>1. PICK S \in SUBSET DOMAIN pool.map : S = Evicted(pool)
    BY DEF Evicted
  <2>2. PICK p : p = MadeRoom(pool)
    OBVIOUS
  <2>3. /\ Sound(p) /\ Alike(pool, p)
        /\ DOMAIN p.map = DOMAIN pool.map \ S
        /\ \A x \in DOMAIN p.map : p.map[x] = pool.map[x]
        /\ p.older \subseteq pool.older
        /\ p.used = pool.used - Cardinality(S) /\ Cardinality(S) \in Nat
        /\ p.bytes = pool.bytes - Cardinality(S) * ExpertBytes
    BY <2>1, <2>2, DroppedKeeps DEF MadeRoom, Sound, Alike
  <2>4. p.used < p.cap /\ (p.budget > 0 => p.bytes + ExpertBytes <= p.budget \/ p.used = 0)
    BY <2>2, RoomIsMade DEF Sound
  <2>5. p.used \in Nat /\ p.bytes \in Nat /\ p.cap \in Nat /\ p.budget \in Nat
    BY <2>3 DEF Sound, Pools
  <2>6. \A K : Few(pool, K) => K \subseteq DOMAIN p.map
    <3>. SUFFICES ASSUME NEW K, Few(pool, K)
                  PROVE  K \cap Evicted(pool) = {}
      BY <2>1, <2>3 DEF Few
    <3>1. PICK k \in Nat : /\ Cardinality(K) < k /\ k <= pool.cap
                           /\ pool.budget > 0 => k * ExpertBytes <= pool.budget
      BY DEF Few
    <3>. QED BY <3>1, NewestStay DEF Few, Sound
  <2>7. InBounds(p)
    BY <1>0, <2>4, <2>5 DEF InBounds
  <2>8. Newest(pool, p, e)
    <3>1. \A x, y : <<x, y>> \in p.older => x # e
      BY <1>2, <2>3 DEF Sound, Orders
    <3>. QED BY <2>3, <3>1 DEF Newest
  <2>9. \/ /\ MayAlloc(ExpertBytes) /\ Alloc(ExpertBytes)
           /\ pool' = [p EXCEPT !.map = [x \in DOMAIN @ \cup {e} |->
                                           IF x = e THEN dev.used + 1 ELSE @[x]],
                                !.older = @ \cup ((DOMAIN p.map) \X {e}), !.used = @ + 1,
                                !.bytes = @ + ExpertBytes]
           /\ UNCHANGED throws
        \/ /\ throws' = throws + 1 /\ pool' = p
           /\ Alloc(ExpertBytes) \/ UNCHANGED dev
        \/ /\ ~MayAlloc(ExpertBytes)
           /\ pool' = p /\ UNCHANGED <<dev, throws>>
    BY <1>2, <2>2 DEF PinUpload
  <2>10. (Alloc(ExpertBytes) \/ UNCHANGED dev) =>
            dev' \in Books /\ (~MayAlloc(ExpertBytes) => ~MayAlloc(ExpertBytes)')
    <3>1. dev.used \in Nat /\ dev.budget \in Nat
      BY DEF Books
    <3>2. PICK n \in Nat : n = dev.used + ExpertBytes
      BY <1>0, <3>1
    <3>3. CASE Alloc(ExpertBytes)
      <4>1. dev' = [dev EXCEPT !.used = n]
        BY <3>2, <3>3 DEF Alloc
      <4>2. dev' \in Books /\ dev'.on = dev.on /\ dev'.budget = dev.budget /\ dev'.used = n
        BY <4>1 DEF Books
      <4>. QED BY <1>0, <3>1, <3>2, <4>2 DEF MayAlloc
    <3>. QED BY <3>3 DEF MayAlloc
  <2>11. CASE /\ MayAlloc(ExpertBytes) /\ Alloc(ExpertBytes)
              /\ pool' = [p EXCEPT !.map = [x \in DOMAIN @ \cup {e} |->
                                              IF x = e THEN dev.used + 1 ELSE @[x]],
                                   !.older = @ \cup ((DOMAIN p.map) \X {e}), !.used = @ + 1,
                                   !.bytes = @ + ExpertBytes]
              /\ UNCHANGED throws
    <3>1. PICK n \in Nat \ {0} : n = dev.used + 1
      BY DEF Books
    <3>2. PICK q : q = pool'
      OBVIOUS
    <3>3. e \notin DOMAIN p.map
      BY <1>2, <2>3
    <3>4. PICK m : m = [x \in DOMAIN p.map \cup {e} |-> IF x = e THEN n ELSE p.map[x]]
      OBVIOUS
    <3>10. /\ m \in [DOMAIN p.map \cup {e} -> Nat \ {0}]
           /\ m[e] = n /\ \A x \in DOMAIN p.map : m[x] = p.map[x]
      <4>1. p.map \in [DOMAIN p.map -> Nat \ {0}]
        BY <2>3 DEF Sound, Pools
      <4>. QED BY <3>3, <3>4, <4>1
    <3>11. q = [cap |-> p.cap, budget |-> p.budget, bound |-> p.bound, map |-> m,
                older |-> p.older \cup ((DOMAIN p.map) \X {e}),
                used |-> p.used + 1, bytes |-> p.bytes + ExpertBytes]
      BY <2>3, <2>11, <3>1, <3>2, <3>4 DEF Sound, Pools
    <3>5. /\ Sound(q) /\ Alike(p, q) /\ Newest(p, q, e)
          /\ DOMAIN q.map = DOMAIN p.map \cup {e} /\ q.map[e] = n
          /\ q.used = p.used + 1 /\ q.bytes = p.bytes + ExpertBytes
      BY <2>3, <3>1, <3>3, <3>10, <3>11, UploadedKeeps
    <3>6. InBounds(q)
      BY <1>0, <2>4, <2>5, <3>5 DEF InBounds, Alike
    <3>7. Newest(pool, q, e)
      BY <1>2, <2>3, <2>8, <3>5 DEF Newest
    <3>8. \A K : Few(pool, K) => K \subseteq DOMAIN q.map
      BY <2>6, <3>5
    <3>9. Alike(pool, q) /\ e \in DOMAIN q.map
      BY <2>3, <3>5 DEF Alike
    <3>. QED BY <2>10, <2>11, <3>2, <3>5, <3>6, <3>7, <3>8, <3>9
  <2>12. CASE /\ throws' = throws + 1 /\ pool' = p
              /\ Alloc(ExpertBytes) \/ UNCHANGED dev
    BY <2>3, <2>6, <2>7, <2>8, <2>10, <2>12
  <2>13. CASE /\ ~MayAlloc(ExpertBytes)
              /\ pool' = p /\ UNCHANGED <<dev, throws>>
    BY <2>3, <2>6, <2>7, <2>8, <2>10, <2>13
  <2>. QED BY <2>9, <2>11, <2>12, <2>13
<1>. QED BY <1>1, <1>2


\* Giving an expert back keeps the pool sound.
LEMMA PoolReleaseKeeps ==
  ASSUME Sound(pool), InBounds(pool), NEW e, PoolRelease(e)
  PROVE  /\ Sound(pool') /\ InBounds(pool') /\ Alike(pool, pool')
         /\ DOMAIN pool'.map = DOMAIN pool.map \ {e}
<1>1. CASE e \in DOMAIN pool.map
  <2>1. PICK q : q = pool'
    OBVIOUS
  <2>2. PICK S \in SUBSET DOMAIN pool.map : S = {e}
    BY <1>1
  <2>3. q = Dropped(pool, S)
    BY <1>1, <2>1, <2>2 DEF PoolRelease
  <2>4. /\ Sound(q) /\ Alike(pool, q) /\ DOMAIN q.map = DOMAIN pool.map \ S
        /\ q.used = pool.used - Cardinality(S) /\ Cardinality(S) \in Nat
        /\ q.bytes = pool.bytes - Cardinality(S) * ExpertBytes
    BY <2>3, DroppedKeeps DEF Sound, Alike
  <2>5. PICK n \in Nat : n = Cardinality(S) /\ n * ExpertBytes \in Nat
    BY <2>4, Times
  <2>6. pool.used \in Nat /\ pool.cap \in Nat /\ pool.bytes \in Nat /\ pool.budget \in Nat
    BY DEF Sound, Pools
  <2>7. q.used <= q.cap /\ (q.budget > 0 => q.bytes <= q.budget \/ q.used <= 1)
    BY <2>4, <2>5, <2>6 DEF InBounds, Alike
  <2>. QED BY <2>1, <2>2, <2>4, <2>7 DEF InBounds
<1>2. CASE e \notin DOMAIN pool.map
  BY <1>2 DEF PoolRelease, Alike
<1>. QED BY <1>1, <1>2

\* A thread moves, and enters the loops over its experts in no other way than Route.
LEMMA OneMoves ==
  ASSUME fwd \in [Callers -> Fwds], Place, NEW t \in Callers, NEW f \in Fwds,
         fwd' = [fwd EXCEPT ![t] = f],
         f.at \in Busy => /\ fwd[t].at \in Busy /\ f.shared = fwd[t].shared
                          /\ f.ids \in Keyed /\ f.i \in 1..Len(f.ids)
                          /\ Len(f.ptr) = Len(f.ids),
         f.at = "compute" => f.i = 1
  PROVE  /\ fwd' \in [Callers -> Fwds] /\ fwd'[t] = f
         /\ \A u \in Callers \ {t} : fwd'[u] = fwd[u]
         /\ Place'
<1>1. /\ fwd' \in [Callers -> Fwds] /\ fwd'[t] = f
      /\ \A u \in Callers \ {t} : fwd'[u] = fwd[u]
  OBVIOUS
<1>2. InPool' \subseteq InPool
  BY <1>1 DEF InPool, Busy
<1>3. ASSUME NEW u \in Callers, fwd'[u].at \in Busy, ~fwd'[u].shared
      PROVE  InPool' = {u}
  <2>1. fwd[u].at \in Busy /\ ~fwd[u].shared
    BY <1>1, <1>3
  <2>2. InPool = {u}
    BY <2>1 DEF Place
  <2>3. u \in InPool'
    BY <1>3 DEF InPool, Busy
  <2>. QED BY <1>2, <2>2, <2>3
<1>4. ASSUME NEW u \in Callers
      PROVE  /\ fwd'[u].at \in Busy => /\ fwd'[u].ids \in Keyed /\ fwd'[u].i \in 1..Len(fwd'[u].ids)
                                       /\ Len(fwd'[u].ptr) = Len(fwd'[u].ids)
             /\ fwd'[u].at = "compute" => fwd'[u].i = 1
  BY <1>1 DEF Place
<1>. QED BY <1>1, <1>3, <1>4 DEF Place

\* A thread's handles stand while it does not move: another that changes the pool
\* shares it.
LEMMA HandlesStand ==
  ASSUME fwd \in [Callers -> Fwds], Place, Handles, NEW t \in Callers, NEW u \in Callers, u # t,
         fwd'[u].at = fwd[u].at, fwd'[u].ids = fwd[u].ids, fwd'[u].i = fwd[u].i,
         fwd'[u].ptr = fwd[u].ptr, fwd[u].shared => fwd'[u].shared,
         fwd[t].at \in Busy \/ pool' = pool,
         Alike(pool, pool'), ~MayAlloc(ExpertBytes) => ~MayAlloc(ExpertBytes)',
         throws \in Nat, throws' \in Nat, throws' >= throws
  PROVE  HandlesOf(u)'
<1>. SUFFICES ASSUME fwd[u].at \in {"pin", "compute"}, NEW j \in Pinned(u)
              PROVE  IF fwd[u].ptr[j] # NoPtr
                     THEN ~fwd'[u].shared /\ RouteFits(fwd[u].ids)' =>
                            /\ fwd[u].ids[j] \in DOMAIN pool'.map
                            /\ pool'.map[fwd[u].ids[j]] = fwd[u].ptr[j]
                            /\ \A y \in DOMAIN pool'.map : <<fwd[u].ids[j], y>> \in pool'.older =>
                                 \E k \in Pinned(u) : y = fwd[u].ids[k] /\ fwd[u].ptr[k] # NoPtr
                     ELSE ~pool'.bound \/ ~MayAlloc(ExpertBytes)' \/ throws' > 0
  <2>1. Pinned(u)' = Pinned(u)
    BY DEF Pinned
  <2>. QED BY <2>1 DEF HandlesOf
<1>1. CASE fwd[u].ptr[j] = NoPtr
  BY <1>1 DEF Handles, HandlesOf, Alike
<1>2. CASE fwd[u].ptr[j] # NoPtr
  <2>1. CASE pool' = pool
    <3>1. RouteFits(fwd[u].ids)' => RouteFits(fwd[u].ids)
      <4>1. PICK d : d = fwd[u].ids /\ d = fwd'[u].ids
        OBVIOUS
      <4>. QED BY <2>1, <4>1 DEF RouteFits
    <3>. QED BY <1>2, <2>1, <3>1 DEF Handles, HandlesOf
  <2>2. CASE fwd[t].at \in Busy
    <3>1. t \in InPool /\ u \in InPool
      BY <2>2 DEF InPool, Busy
    <3>2. fwd[u].shared
      BY <3>1 DEF Place, Busy
    <3>. QED BY <1>2, <3>2
  <2>. QED BY <2>1, <2>2
<1>. QED BY <1>1, <1>2


\* A thread enters a generation that will run.
Stays(t) == job'[t].at = "generate" /\ ~job'[t].bad => job[t].at = "generate" /\ ~job[t].bad

LEMMA RowsStand ==
  ASSUME NEW t \in Callers, RowsOf(t), Stays(t), family' = family,
         fwd'[t].at = fwd[t].at, fwd'[t].pos = fwd[t].pos, fwd'[t].layer = fwd[t].layer,
         rows'[t] = rows[t]
  PROVE  RowsOf(t)'
BY DEF RowsOf, Stays, Glm

\* The plan's room stays while the server and the pool's limits do.
LEMMA PlanStands ==
  ASSUME PlanFits, boot' = boot, pool' = pool \/ Alike(pool, pool')
  PROVE  PlanFits'
<1>1. Conf' = Conf /\ pool'.cap = pool.cap /\ pool'.budget = pool.budget /\ pool'.bound = pool.bound
  BY DEF Conf, Alike
<1>. QED BY <1>1 DEF PlanFits, RoutesFit, RouteFits

\* One thread's step, when it leaves the pool sound and what it owes accounted for.
LEMMA StepKeeps ==
  ASSUME Forwards, pc = "listening", Quiet, dev' \in Books,
         NEW t \in Callers, NEW f \in Fwds, fwd' = [fwd EXCEPT ![t] = f],
         f.at \in Busy => /\ fwd[t].at \in Busy /\ f.shared = fwd[t].shared
                          /\ f.ids \in Keyed /\ f.i \in 1..Len(f.ids)
                          /\ Len(f.ptr) = Len(f.ids),
         f.at = "compute" => f.i = 1,
         rows' \in [Callers -> [1..Len(Layers) -> Nat]],
         \A u \in Callers \ {t} : rows'[u] = rows[u] /\ Stays(u),
         RowsOf(t)',
         fwd[t].at \in Busy \/ pool' = pool,
         Sound(pool'), InBounds(pool'), Alike(pool, pool'), ~pool'.bound => DOMAIN pool'.map = {},
         ~MayAlloc(ExpertBytes) => ~MayAlloc(ExpertBytes)',
         throws' \in Nat, throws' >= throws,
         spilled' \subseteq DOMAIN pool'.map,
         \A x \in DOMAIN pool'.map : \/ x \in Owed(t)'
                                     \/ x \in spilled'
                                     \/ x \in DOMAIN pool.map /\ x \notin spilled /\ x \notin Owed(t),
         HandlesOf(t)'
  PROVE  Forwards'
<1>1. /\ fwd' \in [Callers -> Fwds] /\ fwd'[t] = f
      /\ \A u \in Callers \ {t} : fwd'[u] = fwd[u]
      /\ Place'
  BY OneMoves DEF Forwards, ForwardType
<1>2. StartType'
  BY DEF Forwards, StartType, Quiet, bootVars
<1>3. NotYet'
  BY DEF NotYet, Quiet, bootVars
<1>4. PlanFits'
  BY PlanStands DEF Forwards, Quiet, bootVars
<1>5. Rows'
  <2>1. ASSUME NEW u \in Callers, u # t PROVE RowsOf(u)'
    <3>1. RowsOf(u) /\ family' = family /\ Stays(u)
      BY <2>1 DEF Forwards, Rows, Quiet, bootVars
    <3>. QED BY <1>1, <2>1, <3>1, RowsStand
  <2>. QED BY <2>1 DEF Rows
<1>6. Accounted'
  <2>1. ASSUME NEW u \in Callers, u # t PROVE Owed(u)' = Owed(u)
    BY <1>1, <2>1 DEF Owed
  <2>2. ASSUME NEW x \in DOMAIN pool'.map
        PROVE  x \in spilled' \/ \E u \in Callers : x \in Owed(u)'
    <3>1. CASE x \in DOMAIN pool.map /\ x \notin spilled /\ x \notin Owed(t)
      BY <2>1, <3>1 DEF Forwards, Accounted
    <3>. QED BY <2>2, <3>1
  <2>. QED BY <2>2 DEF Accounted
<1>7. Handles'
  <2>1. ASSUME NEW u \in Callers, u # t PROVE HandlesOf(u)'
    <3>1. fwd'[u] = fwd[u]
      BY <1>1, <2>1
    <3>. QED BY <2>1, <3>1, HandlesStand DEF Forwards, ForwardType
  <2>. QED BY <2>1 DEF Handles
<1>. QED BY <1>1, <1>2, <1>3, <1>4, <1>5, <1>6, <1>7 DEF Forwards, ForwardType, PoolBooks

\* A step of the conversation alone.
LEMMA StillKeeps ==
  ASSUME Forwards, pc = "listening", Quiet, UNCHANGED <<dev, pool, fwd, rows, spilled>>,
         throws' \in Nat, throws' >= throws, \A t \in Callers : Glm => Stays(t)
  PROVE  Forwards'
<1>0. PlanFits'
  BY PlanStands DEF Forwards, Quiet, bootVars
<1>1. StartType' /\ NotYet' /\ PlanFits' /\ PoolBooks' /\ Place'
  BY <1>0 DEF Forwards, StartType, NotYet, PoolBooks, Place, InPool, Quiet, bootVars
<1>2. Rows'
  <2>1. ASSUME NEW t \in Callers PROVE RowsOf(t)'
    <3>1. RowsOf(t) /\ family' = family /\ (Glm => Stays(t))
      BY DEF Forwards, Rows, Quiet, bootVars
    <3>. QED BY <3>1 DEF RowsOf, Stays, Glm
  <2>. QED BY <2>1 DEF Rows
<1>3. Accounted'
  BY DEF Forwards, Accounted, Owed
<1>4. Handles'
  <2>1. ASSUME NEW t \in Callers PROVE HandlesOf(t)'
    <3>1. Pinned(t)' = Pinned(t) /\ (MayAlloc(ExpertBytes)' <=> MayAlloc(ExpertBytes))
      BY DEF Pinned, MayAlloc
    <3>2. HandlesOf(t) /\ throws \in Nat /\ (throws > 0 => throws' > 0)
      BY DEF Forwards, ForwardType, Handles
    <3>3. RouteFits(fwd[t].ids)' <=> RouteFits(fwd[t].ids)
      BY DEF RouteFits
    <3>. QED BY <3>1, <3>2, <3>3 DEF HandlesOf
  <2>. QED BY <2>1 DEF Handles
<1>. QED BY <1>1, <1>2, <1>3, <1>4 DEF Forwards, ForwardType


LEMMA IdleType == Idle \in Fwds
<1>1. Len(Layers) \in Nat \ {0}
  BY GlmForwardAssumption
<1>2. <<>> \in Seq(Nat) /\ <<>> \in Keyed \cup {<<>>} /\ 1 \in 1..Len(Layers)
  BY <1>1
<1>. QED BY <1>2 DEF Fwds, Idle

LEMMA NextLayerType ==
  ASSUME NEW f \in Fwds
  PROVE  NextLayer(f) \in Fwds /\ NextLayer(f).at \in {"attn", "idle"}
<1>1. Len(Layers) \in Nat \ {0}
  BY GlmForwardAssumption
<1>2. CASE f.layer < Len(Layers)
  <2>1. PICK k \in 1..Len(Layers) : k = f.layer + 1
    BY <1>1, <1>2 DEF Fwds
  <2>2. NextLayer(f) = [f EXCEPT !.at = "attn", !.layer = k]
    BY <1>2, <2>1 DEF NextLayer, Fwds
  <2>. QED BY <2>1, <2>2 DEF Fwds
<1>3. CASE ~(f.layer < Len(Layers)) /\ f.pos < f.last
  <2>1. PICK m \in Nat, k \in 1..Len(Layers) : m = f.pos + 1 /\ k = 1
    <3>1. f.pos + 1 \in Nat /\ 1 \in 1..Len(Layers)
      BY <1>1 DEF Fwds
    <3>. QED BY <3>1
  <2>2. NextLayer(f) = [f EXCEPT !.at = "attn", !.layer = k, !.pos = m]
    BY <1>3, <2>1 DEF NextLayer, Fwds
  <2>. QED BY <2>1, <2>2 DEF Fwds
<1>4. CASE ~(f.layer < Len(Layers)) /\ ~(f.pos < f.last)
  BY <1>4, IdleType DEF NextLayer, Idle
<1>. QED BY <1>2, <1>3, <1>4

LEMMA NextLayerRows ==
  ASSUME NEW t \in Callers, fwd[t] \in Fwds, fwd[t].at \notin {"attn", "idle"}, RowsOf(t),
         fwd'[t] = NextLayer(fwd[t]), rows' = rows
  PROVE  RowsOf(t)'
<1>. DEFINE f == fwd[t]
            g == fwd'[t]
<1>1. Len(Layers) \in Nat \ {0}
  BY GlmForwardAssumption
<1>2. \A l \in 1..Len(Layers) : rows[t][l] = IF l <= f.layer THEN f.pos + 1 ELSE f.pos
  BY DEF RowsOf
<1>3. CASE f.layer < Len(Layers)
  <2>1. g.at = "attn" /\ g.layer = f.layer + 1 /\ g.pos = f.pos
    BY <1>3 DEF NextLayer, Fwds
  <2>2. f.layer \in Int /\ \A l \in 1..Len(Layers) : l < f.layer + 1 <=> l <= f.layer
    BY DEF Fwds
  <2>. QED BY <1>2, <2>1, <2>2 DEF RowsOf
<1>4. CASE ~(f.layer < Len(Layers))
  <2>1. \A l \in 1..Len(Layers) : rows[t][l] = f.pos + 1
    BY <1>1, <1>2, <1>4 DEF Fwds
  <2>2. CASE f.pos < f.last
    <3>1. g.at = "attn" /\ g.layer = 1 /\ g.pos = f.pos + 1
      BY <1>4, <2>2 DEF NextLayer, Fwds
    <3>2. \A l \in 1..Len(Layers) : ~(l < 1)
      OBVIOUS
    <3>. QED BY <2>1, <3>1, <3>2 DEF RowsOf
  <2>3. CASE ~(f.pos < f.last)
    <3>1. g.at = "idle"
      BY <1>4, <2>3 DEF NextLayer, Idle
    <3>2. 1 \in 1..Len(Layers)
      BY <1>1
    <3>. QED BY <2>1, <3>1, <3>2 DEF RowsOf
  <2>. QED BY <2>2, <2>3
<1>. QED BY <1>3, <1>4

LEMMA StartForwardKeeps ==
  ASSUME Forwards, pc = "listening", Quiet, NEW t \in Callers, NEW n \in Nat \ {0},
         NEW p \in BOOLEAN, StartForward(t, n, p),
         p \/ (job[t].at = "generate" /\ ~job[t].bad /\ Glm),
         \A u \in Callers \ {t} : Stays(u)
  PROVE  Forwards'
<1>. DEFINE from == IF p THEN 0 ELSE rows[t][1]
            f == [Idle EXCEPT !.at = "attn", !.pos = from, !.last = from + n - 1]
<1>1. Len(Layers) \in Nat \ {0} /\ rows \in [Callers -> [1..Len(Layers) -> Nat]]
  BY GlmForwardAssumption DEF Forwards, ForwardType
<1>2. 1 \in 1..Len(Layers) /\ from \in Nat
  BY <1>1
<1>3. from + n - 1 \in Int
  BY <1>2
<1>. HIDE DEF from
<1>4. f \in Fwds /\ f.at = "attn" /\ f.layer = 1 /\ f.pos = from
  <2>1. PICK a \in Nat, b \in Int : a = from /\ b = from + n - 1
    BY <1>2, <1>3
  <2>2. PICK r \in Fwds : r = Idle
    BY IdleType
  <2>3. f = [r EXCEPT !.at = "attn", !.pos = a, !.last = b]
    BY <2>1, <2>2
  <2>4. r.layer = 1
    BY <2>2 DEF Idle
  <2>. HIDE DEF f
  <2>. QED BY <2>1, <2>3, <2>4 DEF Fwds
<1>5. /\ fwd' = [fwd EXCEPT ![t] = f] /\ fwd[t].at = "idle"
      /\ rows' = IF p THEN [rows EXCEPT ![t] = [l \in DOMAIN @ |-> 0]] ELSE rows
      /\ UNCHANGED <<pool, throws, spilled, dev>>
  BY DEF StartForward, from
<1>. HIDE DEF f
<1>6. fwd'[t] = f
  BY <1>5 DEF Forwards, ForwardType
<1>7. /\ rows' \in [Callers -> [1..Len(Layers) -> Nat]]
      /\ \A u \in Callers \ {t} : rows'[u] = rows[u]
      /\ \A l \in 1..Len(Layers) : rows'[t][l] = from
  <2>1. CASE p
    <3>1. DOMAIN rows[t] = 1..Len(Layers)
      BY <1>1
    <3>2. rows' = [rows EXCEPT ![t] = [l \in 1..Len(Layers) |-> 0]]
      BY <1>5, <2>1, <3>1
    <3>. QED BY <1>1, <2>1, <3>2 DEF from
  <2>2. CASE ~p
    <3>1. \A l \in 1..Len(Layers) : rows[t][l] = rows[t][1]
      BY <1>5, <2>2 DEF Forwards, Rows, RowsOf
    <3>. QED BY <1>1, <1>5, <2>2, <3>1 DEF from
  <2>. QED BY <2>1, <2>2
<1>8. RowsOf(t)'
  <2>1. \A l \in 1..Len(Layers) : ~(l < 1)
    OBVIOUS
  <2>. QED BY <1>4, <1>6, <1>7, <2>1 DEF RowsOf
<1>9. Owed(t) = {}
  BY <1>5 DEF Owed
<1>10. HandlesOf(t)'
  BY <1>4, <1>6 DEF HandlesOf
<1>11. /\ spilled' \subseteq DOMAIN pool'.map /\ throws \in Nat
       /\ \A x \in DOMAIN pool'.map : x \in spilled' \/ (x \in DOMAIN pool.map /\ x \notin spilled)
       /\ Sound(pool') /\ InBounds(pool') /\ Alike(pool, pool') /\ (~pool'.bound => DOMAIN pool'.map = {})
       /\ dev' \in Books
       /\ (~MayAlloc(ExpertBytes) => ~MayAlloc(ExpertBytes)')
  BY <1>5 DEF Forwards, ForwardType, Accounted, PoolBooks, Alike, StartType, MayAlloc
<1>12. throws' \in Nat /\ throws' >= throws
  BY <1>5, <1>11
<1>. QED BY <1>4, <1>5, <1>7, <1>8, <1>9, <1>10, <1>11, <1>12, StepKeeps DEF Busy


\* What StepKeeps asks of the steps that leave the pool and the books alone.
LEMMA PoolStands ==
  ASSUME Forwards, UNCHANGED <<pool, spilled, dev>>
  PROVE  /\ Sound(pool') /\ InBounds(pool') /\ Alike(pool, pool') /\ (~pool'.bound => DOMAIN pool'.map = {})
         /\ dev' \in Books /\ (~MayAlloc(ExpertBytes) => ~MayAlloc(ExpertBytes)')
         /\ spilled' \subseteq DOMAIN pool'.map
BY DEF Forwards, ForwardType, Accounted, PoolBooks, Alike, StartType, MayAlloc

LEMMA AttendKeeps ==
  ASSUME Forwards, pc = "listening", Quiet, UNCHANGED job, NEW t \in Callers, Attend(t)
  PROVE  Forwards'
<1>1. /\ fwd \in [Callers -> Fwds] /\ rows \in [Callers -> [1..Len(Layers) -> Nat]] /\ throws \in Nat
      /\ RowsOf(t)
  BY DEF Forwards, ForwardType, Rows
<1>2. PICK f : f = [fwd[t] EXCEPT !.at = IF Layers[fwd[t].layer] = "moe" THEN "route" ELSE "dense"]
  OBVIOUS
<1>3. /\ f \in Fwds /\ f.at \in {"route", "dense"} /\ f.layer = fwd[t].layer /\ f.pos = fwd[t].pos
      /\ f.layer \in 1..Len(Layers) /\ f.pos \in Nat
  BY <1>1, <1>2 DEF Fwds
<1>4. /\ fwd' = [fwd EXCEPT ![t] = f] /\ fwd[t].at = "attn"
      /\ UNCHANGED <<pool, throws, spilled, dev>>
  BY <1>1, <1>2 DEF Attend
<1>5. PICK n \in Nat : n = fwd[t].pos + 1
  BY <1>3
<1>6. rows' = [rows EXCEPT ![t] = [rows[t] EXCEPT ![fwd[t].layer] = n]]
  BY <1>1, <1>5 DEF Attend
<1>7. /\ rows' \in [Callers -> [1..Len(Layers) -> Nat]]
      /\ \A u \in Callers \ {t} : rows'[u] = rows[u]
      /\ \A l \in 1..Len(Layers) : rows'[t][l] = IF l = fwd[t].layer THEN n ELSE rows[t][l]
  BY <1>1, <1>3, <1>6
<1>8. fwd'[t] = f
  BY <1>1, <1>4
<1>9. RowsOf(t)'
  <2>1. \A l \in 1..Len(Layers) : rows[t][l] = IF l < fwd[t].layer THEN n ELSE fwd[t].pos
    BY <1>1, <1>4, <1>5 DEF RowsOf
  <2>2. \A l \in 1..Len(Layers) : rows'[t][l] = IF l <= f.layer THEN f.pos + 1 ELSE f.pos
    BY <1>3, <1>5, <1>7, <2>1
  <2>. QED BY <1>3, <1>8, <2>2 DEF RowsOf
<1>10. HandlesOf(t)' /\ Owed(t) = {}
  BY <1>3, <1>4, <1>8 DEF HandlesOf, Owed
<1>11. \A x \in DOMAIN pool'.map : x \in spilled' \/ (x \in DOMAIN pool.map /\ x \notin spilled)
  BY <1>4
<1>12. throws' \in Nat /\ throws' >= throws /\ \A u \in Callers : Stays(u)
  BY <1>1, <1>4 DEF Stays
<1>. QED BY <1>3, <1>4, <1>7, <1>9, <1>10, <1>11, <1>12, PoolStands, StepKeeps DEF Busy

LEMMA DenseKeeps ==
  ASSUME Forwards, pc = "listening", Quiet, UNCHANGED job, NEW t \in Callers, DenseFfn(t)
  PROVE  Forwards'
<1>1. /\ fwd \in [Callers -> Fwds] /\ rows \in [Callers -> [1..Len(Layers) -> Nat]] /\ throws \in Nat
      /\ RowsOf(t)
  BY DEF Forwards, ForwardType, Rows
<1>2. PICK f : f = NextLayer(fwd[t])
  OBVIOUS
<1>3. f \in Fwds /\ f.at \in {"attn", "idle"}
  BY <1>1, <1>2, NextLayerType
<1>4. /\ fwd' = [fwd EXCEPT ![t] = f] /\ fwd[t].at = "dense"
      /\ UNCHANGED <<pool, rows, throws, spilled, dev>>
  BY <1>1, <1>2 DEF DenseFfn
<1>5. fwd'[t] = f
  BY <1>1, <1>4
<1>6. RowsOf(t)'
  BY <1>1, <1>2, <1>4, <1>5, NextLayerRows
<1>7. HandlesOf(t)' /\ Owed(t) = {}
  BY <1>3, <1>4, <1>5 DEF HandlesOf, Owed
<1>8. \A x \in DOMAIN pool'.map : x \in spilled' \/ (x \in DOMAIN pool.map /\ x \notin spilled)
  BY <1>4
<1>9. throws' \in Nat /\ throws' >= throws /\ \A u \in Callers : Stays(u)
  BY <1>1, <1>4 DEF Stays
<1>. QED BY <1>1, <1>3, <1>4, <1>6, <1>7, <1>8, <1>9, PoolStands, StepKeeps DEF Busy

LEMMA ComputeKeeps ==
  ASSUME Forwards, pc = "listening", Quiet, UNCHANGED job, NEW t \in Callers, Compute(t)
  PROVE  Forwards'
<1>1. /\ fwd \in [Callers -> Fwds] /\ rows \in [Callers -> [1..Len(Layers) -> Nat]] /\ throws \in Nat
      /\ RowsOf(t)
  BY DEF Forwards, ForwardType, Rows
<1>2. PICK f : f = [fwd[t] EXCEPT !.at = "release"]
  OBVIOUS
<1>3. /\ fwd' = [fwd EXCEPT ![t] = f] /\ fwd[t].at = "compute"
      /\ UNCHANGED <<pool, rows, throws, spilled, dev>>
  BY <1>1, <1>2 DEF Compute
<1>4. /\ f \in Fwds /\ f.at = "release" /\ f.layer = fwd[t].layer /\ f.pos = fwd[t].pos
      /\ f.ids = fwd[t].ids /\ f.i = fwd[t].i /\ f.ptr = fwd[t].ptr /\ f.shared = fwd[t].shared
  BY <1>1, <1>2 DEF Fwds
<1>5. fwd'[t] = f
  BY <1>1, <1>3
<1>6. f.ids \in Keyed /\ f.i \in 1..Len(f.ids) /\ Len(f.ptr) = Len(f.ids)
  BY <1>3, <1>4 DEF Forwards, Place, Busy
<1>7. RowsOf(t)'
  BY <1>1, <1>3, <1>4, <1>5 DEF RowsOf
<1>8. HandlesOf(t)' /\ Owed(t)' = Owed(t)
  BY <1>3, <1>4, <1>5 DEF HandlesOf, Owed
<1>9. \A x \in DOMAIN pool'.map : \/ x \in Owed(t)' \/ x \in spilled'
                                  \/ x \in DOMAIN pool.map /\ x \notin spilled /\ x \notin Owed(t)
  BY <1>3, <1>8
<1>10. throws' \in Nat /\ throws' >= throws /\ \A u \in Callers : Stays(u)
  BY <1>1, <1>3 DEF Stays
<1>. QED BY <1>1, <1>3, <1>4, <1>6, <1>7, <1>8, <1>9, <1>10, PoolStands, StepKeeps DEF Busy


\* The pool's part of Prefetch and Pin.
LEMMA UploadStep ==
  ASSUME Forwards, NEW t \in Callers, fwd[t].at \in {"prefetch", "pin"},
         IF pool.bound THEN PinUpload(Expert(t)) ELSE UNCHANGED <<pool, dev, throws>>
  PROVE  /\ Sound(pool') /\ InBounds(pool') /\ Alike(pool, pool') /\ (~pool'.bound => DOMAIN pool'.map = {})
         /\ dev' \in Books /\ (~MayAlloc(ExpertBytes) => ~MayAlloc(ExpertBytes)')
         /\ throws' \in Nat /\ throws' >= throws
         /\ Newest(pool, pool', Expert(t))
         /\ Expert(t) \notin DOMAIN pool'.map => ~pool'.bound \/ ~MayAlloc(ExpertBytes)' \/ throws' > 0
         /\ \A K : Few(pool, K) => K \subseteq DOMAIN pool'.map
<1>1. /\ Sound(pool) /\ InBounds(pool) /\ (~pool.bound => DOMAIN pool.map = {})
      /\ dev \in Books /\ throws \in Nat
  BY DEF Forwards, PoolBooks, ForwardType, StartType
<1>2. fwd[t].ids \in Keyed /\ fwd[t].i \in 1..Len(fwd[t].ids)
  BY DEF Forwards, Place, Busy
<1>3. Expert(t) \in Names
  BY <1>2, RouteTypes DEF Expert
<1>4. CASE pool.bound
  <2>2. PinUpload(Expert(t))
    BY <1>4
  <2>3. PICK e \in Names : e = Expert(t)
    BY <1>3
  <2>4. /\ Sound(pool') /\ InBounds(pool') /\ Alike(pool, pool') /\ Newest(pool, pool', e)
        /\ dev' \in Books /\ throws' \in Nat /\ throws' >= throws
        /\ ~MayAlloc(ExpertBytes) => ~MayAlloc(ExpertBytes)'
        /\ e \notin DOMAIN pool'.map => ~MayAlloc(ExpertBytes)' \/ throws' > 0
        /\ \A K : Few(pool, K) => K \subseteq DOMAIN pool'.map
    BY <1>1, <2>2, <2>3, PinUploadKeeps
  <2>. QED BY <1>4, <2>3, <2>4 DEF Alike
<1>5. CASE ~pool.bound
  <2>1. UNCHANGED <<pool, dev, throws>>
    BY <1>5
  <2>2. DOMAIN pool.map = {} /\ pool.older = {}
    BY <1>1, <1>5 DEF Sound, Orders
  <2>3. Newest(pool, pool', Expert(t))
    BY <2>1, <2>2 DEF Newest
  <2>. QED BY <1>1, <1>5, <2>1, <2>3 DEF Alike, MayAlloc, Few
<1>. QED BY <1>4, <1>5

LEMMA TurnType ==
  ASSUME NEW t \in Callers, fwd[t] \in Fwds, fwd[t].i \in 1..Len(fwd[t].ids),
         fwd[t].ids \in Keyed, NEW here \in Busy, NEW next \in Busy \cup {"idle"},
         NEW f, f = Turn(t, here, next)
  PROVE  /\ f \in Fwds
         /\ f.pos = fwd[t].pos /\ f.layer = fwd[t].layer /\ f.ids = fwd[t].ids
         /\ f.ptr = fwd[t].ptr /\ f.shared = fwd[t].shared
         /\ \/ fwd[t].i < Len(fwd[t].ids) /\ f.at = here /\ f.i = fwd[t].i + 1
            \/ fwd[t].i = Len(fwd[t].ids) /\ f.at = next /\ f.i = 1
         /\ f.i \in 1..Len(fwd[t].ids)
<1>1. Len(fwd[t].ids) \in Nat \ {0}
  BY RouteTypes
<1>2. PICK a \in Busy \cup {"idle"} : a = IF fwd[t].i < Len(fwd[t].ids) THEN here ELSE next
  OBVIOUS
<1>3. PICK k \in Nat \ {0} : k = IF fwd[t].i < Len(fwd[t].ids) THEN fwd[t].i + 1 ELSE 1
  BY <1>1
<1>4. f = [fwd[t] EXCEPT !.at = a, !.i = k]
  BY <1>2, <1>3 DEF Turn, Fwds
<1>5. f \in Fwds /\ f.at = a /\ f.i = k
  BY <1>2, <1>4 DEF Fwds, Busy
<1>6. /\ f.pos = fwd[t].pos /\ f.layer = fwd[t].layer /\ f.ids = fwd[t].ids
      /\ f.ptr = fwd[t].ptr /\ f.shared = fwd[t].shared
  BY <1>4 DEF Fwds
<1>. QED BY <1>1, <1>2, <1>3, <1>5, <1>6

LEMMA PrefetchKeeps ==
  ASSUME Forwards, pc = "listening", Quiet, UNCHANGED job, NEW t \in Callers, Prefetch(t)
  PROVE  Forwards'
<1>1. /\ fwd \in [Callers -> Fwds] /\ rows \in [Callers -> [1..Len(Layers) -> Nat]] /\ throws \in Nat
      /\ RowsOf(t)
  BY DEF Forwards, ForwardType, Rows
<1>2. PICK f : f = Turn(t, "prefetch", "pin")
  OBVIOUS
<1>3. /\ fwd' = [fwd EXCEPT ![t] = f] /\ fwd[t].at = "prefetch" /\ fwd[t].at \in Busy
      /\ spilled' = spilled \cap DOMAIN pool'.map /\ rows' = rows
      /\ IF pool.bound THEN PinUpload(Expert(t)) ELSE UNCHANGED <<pool, dev, throws>>
  BY <1>2 DEF Prefetch, Busy
<1>4. /\ fwd[t].ids \in Keyed /\ fwd[t].i \in 1..Len(fwd[t].ids)
      /\ Len(fwd[t].ptr) = Len(fwd[t].ids)
  BY <1>3 DEF Forwards, Place
<1>5. /\ f \in Fwds
      /\ f.pos = fwd[t].pos /\ f.layer = fwd[t].layer /\ f.ids = fwd[t].ids
      /\ f.ptr = fwd[t].ptr /\ f.shared = fwd[t].shared
      /\ \/ fwd[t].i < Len(fwd[t].ids) /\ f.at = "prefetch" /\ f.i = fwd[t].i + 1
         \/ fwd[t].i = Len(fwd[t].ids) /\ f.at = "pin" /\ f.i = 1
      /\ f.i \in 1..Len(fwd[t].ids)
  BY <1>1, <1>2, <1>4, TurnType DEF Busy
<1>6. fwd'[t] = f
  BY <1>1, <1>3
<1>7. RowsOf(t)'
  BY <1>1, <1>3, <1>5, <1>6 DEF RowsOf
<1>8. HandlesOf(t)'
  <2>1. f.at = "pin" => f.i = 1
    BY <1>5
  <2>2. f.at \in {"pin", "compute"} => Pinned(t)' = {}
    BY <1>5, <1>6, <2>1 DEF Pinned
  <2>. QED BY <1>6, <2>2 DEF HandlesOf
<1>9. PICK n \in Nat : n = Len(fwd[t].ids)
  BY <1>4, RouteTypes
<1>10. /\ Expert(t) \in Owed(t)'
       /\ Owed(t) \subseteq Owed(t)'
  <2>1. Owed(t) = {fwd[t].ids[j] : j \in 1..fwd[t].i - 1}
    BY <1>3 DEF Owed
  <2>2. CASE f.at = "prefetch"
    <3>1. Owed(t)' = {fwd[t].ids[j] : j \in 1..f.i - 1}
      BY <1>5, <1>6, <2>2 DEF Owed
    <3>. QED BY <1>4, <1>5, <1>9, <2>1, <2>2, <3>1 DEF Expert
  <2>3. CASE f.at = "pin"
    <3>1. Owed(t)' = {fwd[t].ids[j] : j \in {k \in 1..n : k < f.i => f.ptr[k] # NoPtr}}
      BY <1>5, <1>6, <1>9, <2>3 DEF Owed
    <3>2. f.i = 1
      BY <1>5, <2>3
    <3>3. {k \in 1..n : k < f.i => f.ptr[k] # NoPtr} = 1..n
      BY <3>2
    <3>. QED BY <1>4, <1>9, <2>1, <3>1, <3>3 DEF Expert
  <2>. QED BY <1>5, <2>2, <2>3
<1>11. /\ Sound(pool') /\ InBounds(pool') /\ Alike(pool, pool') /\ (~pool'.bound => DOMAIN pool'.map = {})
       /\ dev' \in Books /\ (~MayAlloc(ExpertBytes) => ~MayAlloc(ExpertBytes)')
       /\ throws' \in Nat /\ throws' >= throws
       /\ Newest(pool, pool', Expert(t))
  BY <1>3, UploadStep
<1>12. \A x \in DOMAIN pool'.map : \/ x \in Owed(t)' \/ x \in spilled'
                                   \/ x \in DOMAIN pool.map /\ x \notin spilled /\ x \notin Owed(t)
  BY <1>3, <1>10, <1>11 DEF Newest
<1>13. \A u \in Callers : Stays(u)
  BY DEF Stays
<1>. QED BY <1>1, <1>3, <1>4, <1>5, <1>7, <1>8, <1>11, <1>12, <1>13, StepKeeps DEF Busy


LEMMA Fewer ==
  ASSUME NEW s, NEW n \in Nat, NEW P, P \subseteq 1..n
  PROVE  Cardinality({s[k] : k \in P}) \in Nat /\ Cardinality({s[k] : k \in P}) <= n
<1>. DEFINE K == {s[k] : k \in P}
            f == [k \in P |-> s[k]]
<1>1. IsFiniteSet(1..n) /\ Cardinality(1..n) = n
  BY FS_Interval
<1>2. IsFiniteSet(P) /\ Cardinality(P) <= n
  BY <1>1, FS_Subset
<1>3. f \in Surjection(P, K)
  <2>1. f \in [P -> K] /\ \A x \in K : \E k \in P : f[k] = x
    OBVIOUS
  <2>. HIDE DEF f, K
  <2>. QED BY <2>1 DEF Surjection
<1>. HIDE DEF f, K
<1>4. IsFiniteSet(K) /\ Cardinality(K) <= Cardinality(P)
  BY <1>2, <1>3, FS_Surjection
<1>5. Cardinality(K) \in Nat /\ Cardinality(P) \in Nat
  BY <1>2, <1>4, FS_CardinalityType
<1>. QED BY <1>2, <1>4, <1>5 DEF K

\* What an undisturbed forward has pinned is few.
LEMMA PinnedAreFew ==
  ASSUME Forwards, NEW t \in Callers, fwd[t].at = "pin", ~fwd[t].shared, RouteFits(fwd[t].ids)
  PROVE  Few(pool, {fwd[t].ids[k] : k \in {j \in Pinned(t) : fwd[t].ptr[j] # NoPtr}})
<1>. DEFINE P == {j \in Pinned(t) : fwd[t].ptr[j] # NoPtr}
            K == {fwd[t].ids[k] : k \in P}
<1>1. fwd[t].ids \in Keyed /\ fwd[t].i \in 1..Len(fwd[t].ids)
  BY DEF Forwards, Place, Busy
<1>2. PICK n \in Nat, m \in Nat : n = Len(fwd[t].ids) /\ m = fwd[t].i - 1 /\ m < n
  BY <1>1, RouteTypes
<1>3. P \subseteq 1..m
  BY <1>2, <1>1 DEF Pinned
<1>4. PICK c \in Nat : c = Cardinality(K) /\ c <= m
  <2>. HIDE DEF P
  <2>. QED BY <1>3, Fewer
<1>5. c < n
  BY <1>2, <1>4
<1>6. n <= pool.cap /\ (pool.budget > 0 => n * ExpertBytes <= pool.budget)
  BY <1>2 DEF RouteFits
<1>7. \A j \in P : /\ fwd[t].ids[j] \in DOMAIN pool.map
                   /\ \A y \in DOMAIN pool.map : <<fwd[t].ids[j], y>> \in pool.older =>
                         \E k \in P : y = fwd[t].ids[k]
  BY DEF Forwards, Handles, HandlesOf
<1>8. K \subseteq DOMAIN pool.map
  BY <1>7
<1>9. \A x \in K, y \in DOMAIN pool.map : <<x, y>> \in pool.older => y \in K
  BY <1>7
<1>. HIDE DEF K
<1>10. Few(pool, K)
  BY <1>4, <1>5, <1>6, <1>8, <1>9 DEF Few
<1>. QED BY <1>10 DEF K, P


LEMMA PinKeeps ==
  ASSUME Forwards, pc = "listening", Quiet, UNCHANGED job, NEW t \in Callers, Pin(t)
  PROVE  Forwards'
<1>1. /\ fwd \in [Callers -> Fwds] /\ rows \in [Callers -> [1..Len(Layers) -> Nat]] /\ throws \in Nat
      /\ RowsOf(t)
  BY DEF Forwards, ForwardType, Rows
<1>2. PICK g : g = Turn(t, "pin", "compute")
  OBVIOUS
<1>3. /\ fwd[t].at = "pin" /\ fwd[t].at \in Busy
      /\ spilled' = spilled \cap DOMAIN pool'.map /\ rows' = rows
      /\ IF pool.bound THEN PinUpload(Expert(t)) ELSE UNCHANGED <<pool, dev, throws>>
  BY DEF Pin, Busy
<1>4. /\ fwd[t].ids \in Keyed /\ fwd[t].i \in 1..Len(fwd[t].ids)
      /\ Len(fwd[t].ptr) = Len(fwd[t].ids) /\ fwd[t].ptr \in Seq(Nat)
  BY <1>1, <1>3 DEF Forwards, Place, Fwds
<1>5. PICK n \in Nat, i \in Nat : n = Len(fwd[t].ids) /\ i = fwd[t].i /\ i \in 1..n
  BY <1>4, RouteTypes
<1>6. /\ g \in Fwds
      /\ g.pos = fwd[t].pos /\ g.layer = fwd[t].layer /\ g.ids = fwd[t].ids
      /\ g.ptr = fwd[t].ptr /\ g.shared = fwd[t].shared
      /\ \/ i < n /\ g.at = "pin" /\ g.i = i + 1
         \/ i = n /\ g.at = "compute" /\ g.i = 1
      /\ g.i \in 1..n
  BY <1>1, <1>2, <1>4, <1>5, TurnType DEF Busy
<1>7. PICK e : e = Expert(t) /\ e = fwd[t].ids[i]
  BY <1>5 DEF Expert
<1>8. /\ Sound(pool') /\ InBounds(pool') /\ Alike(pool, pool') /\ (~pool'.bound => DOMAIN pool'.map = {})
      /\ dev' \in Books /\ (~MayAlloc(ExpertBytes) => ~MayAlloc(ExpertBytes)')
      /\ throws' \in Nat /\ throws' >= throws
      /\ Newest(pool, pool', e)
      /\ e \notin DOMAIN pool'.map => ~pool'.bound \/ ~MayAlloc(ExpertBytes)' \/ throws' > 0
      /\ \A K : Few(pool, K) => K \subseteq DOMAIN pool'.map
  BY <1>3, <1>7, UploadStep
<1>9. PICK d \in Nat : /\ d = DeviceOf(pool', e)
                       /\ e \in DOMAIN pool'.map => d # NoPtr /\ d = pool'.map[e]
                       /\ e \notin DOMAIN pool'.map => d = NoPtr
  <2>1. pool'.map \in [DOMAIN pool'.map -> Nat \ {0}]
    BY <1>8 DEF Sound, Pools
  <2>. QED BY <2>1 DEF DeviceOf, NoPtr
<1>10. PICK s \in Seq(Nat) : /\ s = [fwd[t].ptr EXCEPT ![i] = d] /\ Len(s) = n
                             /\ s[i] = d /\ \A j \in 1..n : j # i => s[j] = fwd[t].ptr[j]
  <2>1. PICK s : s = [fwd[t].ptr EXCEPT ![i] = d]
    OBVIOUS
  <2>2. i \in 1..Len(fwd[t].ptr)
    BY <1>4, <1>5
  <2>3. /\ s \in Seq(Nat) /\ Len(s) = Len(fwd[t].ptr)
        /\ \A j \in 1..Len(fwd[t].ptr) : s[j] = IF j = i THEN d ELSE fwd[t].ptr[j]
    BY <1>4, <1>9, <2>1, <2>2, ExceptSeq
  <2>4. /\ s \in Seq(Nat) /\ s = [fwd[t].ptr EXCEPT ![i] = d] /\ Len(s) = n
        /\ s[i] = d /\ \A j \in 1..n : j # i => s[j] = fwd[t].ptr[j]
    <3>1. Len(fwd[t].ptr) = n /\ i \in 1..n
      BY <1>4, <1>5
    <3>. QED BY <2>1, <2>3, <3>1
  <2>. QED BY <2>4, Zenon
<1>11. PICK f : f = [g EXCEPT !.ptr = s]
  OBVIOUS
<1>12. fwd' = [fwd EXCEPT ![t] = f]
  BY <1>2, <1>5, <1>6, <1>7, <1>9, <1>10, <1>11 DEF Pin, Fwds
<1>13. /\ f \in Fwds
       /\ f.pos = fwd[t].pos /\ f.layer = fwd[t].layer /\ f.ids = fwd[t].ids
       /\ f.ptr = s /\ f.shared = fwd[t].shared /\ f.at = g.at /\ f.i = g.i
  BY <1>6, <1>11 DEF Fwds
<1>14. fwd'[t] = f
  BY <1>1, <1>12
<1>15. RowsOf(t)'
  BY <1>1, <1>3, <1>6, <1>13, <1>14 DEF RowsOf
<1>16. Pinned(t) = 1..i - 1 /\ Pinned(t)' = 1..i
  <2>1. Pinned(t) = 1..i - 1
    BY <1>3, <1>5 DEF Pinned
  <2>2. Pinned(t)' = {j \in 1..n : f.at = "pin" => j < f.i}
    BY <1>5, <1>13, <1>14 DEF Pinned
  <2>3. \A j \in 1..n : (f.at = "pin" => j < f.i) <=> j <= i
    BY <1>5, <1>6, <1>13
  <2>. QED BY <1>5, <2>1, <2>2, <2>3
<1>17. HandlesOf(t)'
  <2>. SUFFICES ASSUME NEW j \in 1..i
                PROVE  IF s[j] # NoPtr
                       THEN ~fwd[t].shared /\ RouteFits(fwd[t].ids) =>
                              /\ fwd[t].ids[j] \in DOMAIN pool'.map
                              /\ pool'.map[fwd[t].ids[j]] = s[j]
                              /\ \A y \in DOMAIN pool'.map : <<fwd[t].ids[j], y>> \in pool'.older =>
                                   \E k \in 1..i : y = fwd[t].ids[k] /\ s[k] # NoPtr
                       ELSE ~pool'.bound \/ ~MayAlloc(ExpertBytes)' \/ throws' > 0
    <3>1. fwd'[t].ids = fwd[t].ids /\ fwd'[t].ptr = s /\ fwd'[t].shared = fwd[t].shared
      BY <1>13, <1>14
    <3>2. RouteFits(fwd[t].ids)' <=> RouteFits(fwd[t].ids)
      BY <1>8, <3>1 DEF RouteFits, Alike
    <3>. QED BY <1>16, <3>1, <3>2 DEF HandlesOf
  <2>1. CASE j = i
    BY <1>7, <1>8, <1>9, <1>10, <2>1 DEF Newest
  <2>2. CASE j # i /\ s[j] = NoPtr
    <3>1. j \in Pinned(t) /\ fwd[t].ptr[j] = NoPtr
      BY <1>5, <1>10, <1>16, <2>2
    <3>2. ~pool.bound \/ ~MayAlloc(ExpertBytes) \/ throws > 0
      BY <1>3, <3>1 DEF Forwards, Handles, HandlesOf
    <3>. QED BY <1>1, <1>8, <2>2, <3>2 DEF Alike
  <2>3. CASE j # i /\ s[j] # NoPtr
    <3>. SUFFICES ASSUME ~fwd[t].shared, RouteFits(fwd[t].ids)
                  PROVE  /\ fwd[t].ids[j] \in DOMAIN pool'.map
                         /\ pool'.map[fwd[t].ids[j]] = s[j]
                         /\ \A y \in DOMAIN pool'.map : <<fwd[t].ids[j], y>> \in pool'.older =>
                              \E k \in 1..i : y = fwd[t].ids[k] /\ s[k] # NoPtr
      BY <2>3
    <3>1. j \in Pinned(t) /\ fwd[t].ptr[j] # NoPtr /\ fwd[t].ptr[j] = s[j]
      BY <1>5, <1>10, <1>16, <2>3
    <3>2. PICK x : x = fwd[t].ids[j]
      OBVIOUS
    <3>3. /\ x \in DOMAIN pool.map /\ pool.map[x] = s[j]
          /\ \A y \in DOMAIN pool.map : <<x, y>> \in pool.older =>
               \E k \in Pinned(t) : y = fwd[t].ids[k] /\ fwd[t].ptr[k] # NoPtr
      BY <1>3, <3>1, <3>2 DEF Forwards, Handles, HandlesOf
    <3>5. x \in {fwd[t].ids[k] : k \in {l \in Pinned(t) : fwd[t].ptr[l] # NoPtr}}
      BY <3>1, <3>2
    <3>6. x \in DOMAIN pool'.map
      BY <1>3, <1>8, <3>5, PinnedAreFew
    <3>7. pool'.map[x] = s[j]
      BY <1>8, <3>3, <3>6 DEF Newest
    <3>8. ASSUME NEW y \in DOMAIN pool'.map, <<x, y>> \in pool'.older
          PROVE  \E k \in 1..i : y = fwd[t].ids[k] /\ s[k] # NoPtr
      <4>1. CASE y = e
        BY <1>5, <1>7, <1>9, <1>10, <3>8, <4>1
      <4>2. CASE y # e
        <5>1. y \in DOMAIN pool.map /\ <<x, y>> \in pool.older
          BY <1>8, <3>8, <4>2 DEF Newest
        <5>2. PICK k \in Pinned(t) : y = fwd[t].ids[k] /\ fwd[t].ptr[k] # NoPtr
          BY <3>3, <5>1
        <5>3. k \in 1..i /\ s[k] = fwd[t].ptr[k]
          BY <1>5, <1>10, <1>16, <5>2
        <5>. QED BY <5>2, <5>3
      <4>. QED BY <4>1, <4>2
    <3>. QED BY <3>2, <3>6, <3>7, <3>8
  <2>. QED BY <2>1, <2>2, <2>3
<1>18. \A j \in 1..n : s[j] # NoPtr \/ (j <= i /\ s[j] = NoPtr) \/ (j > i /\ s[j] = fwd[t].ptr[j])
  BY <1>5, <1>10
<1>19. Owed(t) = {fwd[t].ids[j] : j \in {k \in 1..n : k < i => fwd[t].ptr[k] # NoPtr}}
  BY <1>3, <1>5 DEF Owed
<1>20. \A j \in 1..n : (j <= i => s[j] # NoPtr) => fwd[t].ids[j] \in Owed(t)'
  <2>1. CASE f.at = "pin"
    <3>1. Owed(t)' = {fwd[t].ids[j] : j \in {k \in 1..n : k < f.i => s[k] # NoPtr}}
      BY <1>5, <1>13, <1>14, <2>1 DEF Owed
    <3>2. f.i = i + 1
      BY <1>6, <1>13, <2>1
    <3>. QED BY <1>5, <3>1, <3>2
  <2>2. CASE f.at = "compute"
    <3>1. Owed(t)' = {fwd[t].ids[j] : j \in {k \in f.i..n : s[k] # NoPtr}}
      BY <1>5, <1>13, <1>14, <2>2 DEF Owed
    <3>2. f.i = 1 /\ i = n
      BY <1>6, <1>13, <2>2
    <3>. QED BY <1>5, <3>1, <3>2
  <2>. QED BY <1>6, <1>13, <2>1, <2>2
<1>21. \A x \in DOMAIN pool'.map : \/ x \in Owed(t)' \/ x \in spilled'
                                   \/ x \in DOMAIN pool.map /\ x \notin spilled /\ x \notin Owed(t)
  <2>. SUFFICES ASSUME NEW x \in DOMAIN pool'.map, x = e \/ x \in Owed(t)
                PROVE  x \in Owed(t)'
    BY <1>3, <1>8 DEF Newest
  <2>1. CASE x = e
    <3>1. s[i] # NoPtr
      BY <1>9, <1>10, <2>1
    <3>. QED BY <1>5, <1>7, <1>20, <2>1, <3>1
  <2>2. CASE x # e
    <3>1. PICK j \in 1..n : x = fwd[t].ids[j] /\ (j < i => fwd[t].ptr[j] # NoPtr)
      BY <1>19, <2>2
    <3>2. j # i /\ s[j] = fwd[t].ptr[j]
      BY <1>7, <1>10, <2>2, <3>1
    <3>. QED BY <1>5, <1>20, <3>1, <3>2
  <2>. QED BY <2>1, <2>2
<1>22. \A u \in Callers : Stays(u)
  BY DEF Stays
<1>23. f.at = "compute" => f.i = 1
  BY <1>6, <1>13
<1>24. f.i \in 1..Len(f.ids) /\ Len(f.ptr) = Len(f.ids) /\ f.ids \in Keyed
  BY <1>4, <1>5, <1>6, <1>10, <1>13
<1>. QED BY <1>1, <1>3, <1>8, <1>12, <1>13, <1>15, <1>17, <1>21, <1>22, <1>23, <1>24, StepKeeps DEF Busy


LEMMA ReleaseKeeps ==
  ASSUME Forwards, pc = "listening", Quiet, UNCHANGED job, NEW t \in Callers, Release(t)
  PROVE  Forwards'
<1>1. /\ fwd \in [Callers -> Fwds] /\ rows \in [Callers -> [1..Len(Layers) -> Nat]] /\ throws \in Nat
      /\ RowsOf(t) /\ dev \in Books
      /\ Sound(pool) /\ InBounds(pool) /\ (~pool.bound => DOMAIN pool.map = {})
  BY DEF Forwards, ForwardType, Rows, StartType, PoolBooks
<1>2. PICK f : f = IF fwd[t].i < Len(fwd[t].ids) THEN Turn(t, "release", "idle") ELSE NextLayer(fwd[t])
  OBVIOUS
<1>3. /\ fwd' = [fwd EXCEPT ![t] = f] /\ fwd[t].at = "release" /\ fwd[t].at \in Busy
      /\ spilled' = spilled \cap DOMAIN pool'.map /\ UNCHANGED <<rows, throws, dev>>
      /\ IF fwd[t].ptr[fwd[t].i] # NoPtr THEN PoolRelease(Expert(t)) ELSE UNCHANGED pool
  BY <1>2 DEF Release, Busy
<1>4. /\ fwd[t].ids \in Keyed /\ fwd[t].i \in 1..Len(fwd[t].ids)
      /\ Len(fwd[t].ptr) = Len(fwd[t].ids)
  BY <1>3 DEF Forwards, Place
<1>5. PICK n \in Nat, i \in Nat : n = Len(fwd[t].ids) /\ i = fwd[t].i /\ i \in 1..n
  BY <1>4, RouteTypes
<1>6. fwd'[t] = f
  BY <1>1, <1>3
<1>7. \/ /\ i < n /\ f \in Fwds /\ f.at = "release" /\ f.i = i + 1 /\ f.ids = fwd[t].ids
         /\ f.ptr = fwd[t].ptr /\ f.shared = fwd[t].shared /\ f.pos = fwd[t].pos
         /\ f.layer = fwd[t].layer
      \/ i = n /\ f = NextLayer(fwd[t]) /\ f \in Fwds /\ f.at \in {"attn", "idle"}
  <2>1. CASE i < n
    <3>1. f = Turn(t, "release", "idle")
      BY <1>2, <1>5, <2>1
    <3>. QED BY <1>1, <1>4, <1>5, <2>1, <3>1, TurnType DEF Busy
  <2>2. CASE i = n
    <3>1. f = NextLayer(fwd[t])
      BY <1>2, <1>5, <2>2
    <3>. QED BY <1>1, <2>2, <3>1, NextLayerType
  <2>. QED BY <1>5, <2>1, <2>2
<1>8. RowsOf(t)'
  <2>1. CASE f = NextLayer(fwd[t])
    BY <1>1, <1>3, <1>6, <2>1, NextLayerRows
  <2>2. CASE f.at = "release" /\ f.pos = fwd[t].pos /\ f.layer = fwd[t].layer
    BY <1>1, <1>3, <1>6, <2>2 DEF RowsOf
  <2>. QED BY <1>7, <2>1, <2>2
<1>9. HandlesOf(t)'
  BY <1>6, <1>7 DEF HandlesOf
<1>10. /\ Sound(pool') /\ InBounds(pool') /\ Alike(pool, pool') /\ DOMAIN pool'.map \subseteq DOMAIN pool.map
       /\ fwd[t].ptr[i] # NoPtr => fwd[t].ids[i] \notin DOMAIN pool'.map
  <2>1. CASE fwd[t].ptr[i] # NoPtr
    <3>1. PICK e : e = Expert(t) /\ e = fwd[t].ids[i] /\ PoolRelease(e)
      BY <1>3, <1>5, <2>1 DEF Expert
    <3>2. Sound(pool') /\ InBounds(pool') /\ Alike(pool, pool') /\ DOMAIN pool'.map = DOMAIN pool.map \ {e}
      BY <1>1, <3>1, PoolReleaseKeeps
    <3>. QED BY <3>1, <3>2
  <2>2. CASE fwd[t].ptr[i] = NoPtr
    BY <1>1, <1>3, <1>5, <2>2 DEF Alike
  <2>. QED BY <2>1, <2>2
<1>11. Owed(t) = {fwd[t].ids[j] : j \in {k \in i..n : fwd[t].ptr[k] # NoPtr}}
  BY <1>3, <1>5 DEF Owed
<1>12. i < n => Owed(t)' = {fwd[t].ids[j] : j \in {k \in i + 1..n : fwd[t].ptr[k] # NoPtr}}
  BY <1>5, <1>6, <1>7 DEF Owed
<1>13. \A x \in DOMAIN pool'.map : \/ x \in Owed(t)' \/ x \in spilled'
                                   \/ x \in DOMAIN pool.map /\ x \notin spilled /\ x \notin Owed(t)
  <2>. SUFFICES ASSUME NEW x \in DOMAIN pool'.map, x \in Owed(t)
                PROVE  x \in Owed(t)'
    BY <1>3, <1>10
  <2>1. PICK j \in i..n : x = fwd[t].ids[j] /\ fwd[t].ptr[j] # NoPtr
    BY <1>11
  <2>2. j # i
    BY <1>10, <2>1
  <2>3. i < n /\ j \in i + 1..n
    BY <1>5, <2>1, <2>2
  <2>. QED BY <1>12, <2>1, <2>3
<1>14. /\ throws' \in Nat /\ throws' >= throws /\ \A u \in Callers : Stays(u)
       /\ (~MayAlloc(ExpertBytes) => ~MayAlloc(ExpertBytes)') /\ dev' \in Books
       /\ (~pool'.bound => DOMAIN pool'.map = {})
       /\ spilled' \subseteq DOMAIN pool'.map
  BY <1>1, <1>3, <1>10 DEF Stays, MayAlloc, Alike
<1>15. f \in Fwds
  BY <1>7
<1>16. f.at \in Busy => /\ f.shared = fwd[t].shared /\ f.ids \in Keyed /\ f.i \in 1..Len(f.ids)
                        /\ Len(f.ptr) = Len(f.ids) /\ f.at # "compute"
  BY <1>4, <1>5, <1>7 DEF Busy
<1>17. f.at # "compute"
  BY <1>7
<1>. QED BY <1>1, <1>3, <1>8, <1>9, <1>10, <1>13, <1>14, <1>15, <1>16, <1>17, StepKeeps

LEMMA ThrowsKeeps ==
  ASSUME Forwards, pc = "listening", Quiet, NEW t \in Callers, ForwardThrows(t),
         job'[t].at # "generate", \A u \in Callers \ {t} : Stays(u)
  PROVE  Forwards'
<1>1. /\ fwd \in [Callers -> Fwds] /\ rows \in [Callers -> [1..Len(Layers) -> Nat]] /\ throws \in Nat
      /\ dev \in Books
      /\ Sound(pool) /\ InBounds(pool) /\ (~pool.bound => DOMAIN pool.map = {})
  BY DEF Forwards, ForwardType, StartType, PoolBooks
<1>2. PICK f \in Fwds : f = Idle
  BY IdleType
<1>3. f.at = "idle"
  BY <1>2 DEF Idle
<1>4. /\ fwd' = [fwd EXCEPT ![t] = f] /\ fwd[t].at \in {"attn", "dense", "compute"}
      /\ UNCHANGED <<pool, rows, dev>>
      /\ throws' = throws + 1
      /\ spilled' = IF fwd[t].at = "compute"
                    THEN spilled \cup (DOMAIN pool.map \cap ToSet(fwd[t].ids)) ELSE spilled
  BY <1>2 DEF ForwardThrows
<1>5. fwd'[t] = f
  BY <1>1, <1>4
<1>6. RowsOf(t)'
  BY <1>3, <1>5 DEF RowsOf
<1>7. HandlesOf(t)'
  BY <1>3, <1>5 DEF HandlesOf
<1>8. spilled \subseteq DOMAIN pool.map
  BY DEF Forwards, Accounted
<1>9. spilled' \subseteq DOMAIN pool'.map
  BY <1>4, <1>8
<1>10. \A x \in DOMAIN pool'.map : \/ x \in spilled'
                                   \/ x \in DOMAIN pool.map /\ x \notin spilled /\ x \notin Owed(t)
  <2>1. CASE fwd[t].at = "compute"
    <3>1. fwd[t].ids \in Keyed /\ fwd[t].i = 1
      BY <2>1 DEF Forwards, Place, Busy
    <3>2. PICK n \in Nat : n = Len(fwd[t].ids) /\ DOMAIN fwd[t].ids = 1..n
      <4>1. fwd[t].ids \in Seq(Names) /\ Len(fwd[t].ids) \in Nat
        BY <3>1, RouteTypes
      <4>. QED BY <4>1, LenProperties
    <3>3. Owed(t) = {fwd[t].ids[j] : j \in {k \in fwd[t].i..n : fwd[t].ptr[k] # NoPtr}}
      BY <2>1, <3>2 DEF Owed
    <3>4. Owed(t) \subseteq ToSet(fwd[t].ids)
      BY <3>1, <3>2, <3>3 DEF ToSet
    <3>. QED BY <1>4, <2>1, <3>4
  <2>2. CASE fwd[t].at # "compute"
    <3>1. Owed(t) = {}
      BY <1>4, <2>2 DEF Owed
    <3>. QED BY <1>4, <2>2, <3>1
  <2>. QED BY <2>1, <2>2
<1>11. /\ throws' \in Nat /\ throws' >= throws
       /\ (~MayAlloc(ExpertBytes) => ~MayAlloc(ExpertBytes)') /\ dev' \in Books
       /\ Alike(pool, pool')
  BY <1>1, <1>4 DEF MayAlloc, Alike
<1>12. rows' = rows /\ pool' = pool
  BY <1>4
<1>. QED BY <1>1, <1>3, <1>4, <1>6, <1>7, <1>9, <1>10, <1>11, <1>12, StepKeeps DEF Busy


LEMMA RouteKeeps ==
  ASSUME Forwards, pc = "listening", Quiet, UNCHANGED job, NEW t \in Callers, Route(t)
  PROVE  Forwards'
<1>1. /\ fwd \in [Callers -> Fwds] /\ rows \in [Callers -> [1..Len(Layers) -> Nat]] /\ throws \in Nat
      /\ Place /\ Rows /\ Accounted /\ Handles
  BY DEF Forwards, ForwardType
<1>a. PICK made \in Routes :
        fwd' = [u \in Callers |->
                  IF u = t THEN [fwd[t] EXCEPT !.at = "prefetch", !.i = 1,
                                               !.ids = ExpertIds(fwd[t].layer, made),
                                               !.ptr = [i \in DOMAIN made |-> NoPtr],
                                               !.shared = InPool # {}]
                  ELSE [fwd[u] EXCEPT !.shared = @ \/ u \in InPool]]
  BY DEF Route
<1>b. PICK l \in 1..Len(Layers) : l = fwd[t].layer
  BY <1>1 DEF Fwds
<1>c. PICK ids \in Keyed : /\ ids = ExpertIds(l, made) /\ DOMAIN ids = DOMAIN made
                           /\ DOMAIN ids = 1..Len(ids)
  <2>1. PICK e : e = ExpertIds(l, made)
    OBVIOUS
  <2>2. e \in Keyed /\ Len(e) = Len(made) /\ DOMAIN e = 1..Len(made)
    BY <2>1, KeysOf
  <2>3. DOMAIN made = 1..Len(made)
    BY RouteLengths
  <2>. QED BY <2>1, <2>2, <2>3
<1>2. fwd' = [u \in Callers |->
                IF u = t THEN [fwd[t] EXCEPT !.at = "prefetch", !.i = 1, !.ids = ids,
                                             !.ptr = [i \in DOMAIN ids |-> NoPtr],
                                             !.shared = InPool # {}]
                ELSE [fwd[u] EXCEPT !.shared = @ \/ u \in InPool]]
  BY <1>a, <1>b, <1>c
<1>3. fwd[t].at = "route" /\ UNCHANGED <<pool, rows, throws, spilled, dev>>
  BY DEF Route
<1>4. PICK n \in Nat \ {0} : n = Len(ids) /\ DOMAIN ids = 1..n
  BY <1>c, RouteTypes
<1>5. PICK s \in Seq(Nat) : s = [i \in DOMAIN ids |-> NoPtr] /\ Len(s) = n
  <2>1. PICK s : s = [i \in 1..n |-> NoPtr]
    OBVIOUS
  <2>2. s \in [1..n -> Nat] /\ DOMAIN s = 1..n
    BY <2>1 DEF NoPtr
  <2>3. s \in Seq(Nat)
    BY <2>2, SeqDef
  <2>4. Len(s) = n
    BY <2>2, <2>3, LenProperties
  <2>. QED BY <1>4, <2>1, <2>3, <2>4
<1>6. PICK b \in BOOLEAN : b = (InPool # {})
  OBVIOUS
<1>7. fwd'[t] = [fwd[t] EXCEPT !.at = "prefetch", !.i = 1, !.ids = ids, !.ptr = s, !.shared = b]
  BY <1>2, <1>5, <1>6
<1>8. /\ fwd'[t] \in Fwds /\ fwd'[t].at = "prefetch" /\ fwd'[t].i = 1 /\ fwd'[t].ids = ids
      /\ fwd'[t].ptr = s /\ fwd'[t].layer = fwd[t].layer /\ fwd'[t].pos = fwd[t].pos
      /\ fwd'[t].shared <=> InPool # {}
  <2>1. PICK k \in Nat \ {0}, a \in {"prefetch"} : k = 1 /\ a = "prefetch"
    OBVIOUS
  <2>2. PICK f \in Fwds : f = fwd[t]
    BY <1>1
  <2>3. PICK g : g = [f EXCEPT !.at = a, !.i = k, !.ids = ids, !.ptr = s, !.shared = b]
    OBVIOUS
  <2>4. /\ g \in Fwds /\ g.at = a /\ g.i = k /\ g.ids = ids
        /\ g.ptr = s /\ g.layer = f.layer /\ g.pos = f.pos /\ g.shared = b
    BY <2>1, <2>3 DEF Fwds
  <2>5. fwd'[t] = g
    BY <1>7, <2>1, <2>2, <2>3
  <2>. QED BY <1>6, <2>1, <2>2, <2>4, <2>5
<1>9. ASSUME NEW u \in Callers, u # t
      PROVE  /\ fwd'[u] \in Fwds /\ fwd'[u].at = fwd[u].at /\ fwd'[u].i = fwd[u].i
             /\ fwd'[u].ids = fwd[u].ids /\ fwd'[u].ptr = fwd[u].ptr
             /\ fwd'[u].layer = fwd[u].layer /\ fwd'[u].pos = fwd[u].pos
             /\ fwd'[u].shared <=> fwd[u].shared \/ u \in InPool
  <2>1. PICK c \in BOOLEAN : c = (fwd[u].shared \/ u \in InPool)
    OBVIOUS
  <2>2. fwd'[u] = [fwd[u] EXCEPT !.shared = c]
    BY <1>2, <1>9, <2>1
  <2>3. fwd[u] \in Fwds
    BY <1>1
  <2>. QED BY <2>1, <2>2, <2>3 DEF Fwds
<1>10. fwd' \in [Callers -> Fwds]
  <2>1. \A u \in Callers : fwd'[u] \in Fwds
    BY <1>8, <1>9
  <2>. QED BY <1>2, <2>1
<1>11. Place'
  <2>1. InPool' = InPool \cup {t}
    BY <1>8, <1>9 DEF InPool
  <2>2. ASSUME NEW u \in Callers, fwd'[u].at \in Busy, ~fwd'[u].shared
        PROVE  InPool' = {u}
    <3>1. CASE u = t
      BY <1>8, <2>1, <2>2, <3>1
    <3>2. CASE u # t
      BY <1>9, <2>2, <3>2 DEF InPool, Busy
    <3>. QED BY <3>1, <3>2
  <2>3. ASSUME NEW u \in Callers
        PROVE  /\ fwd'[u].at \in Busy => /\ fwd'[u].ids \in Keyed /\ fwd'[u].i \in 1..Len(fwd'[u].ids)
                                         /\ Len(fwd'[u].ptr) = Len(fwd'[u].ids)
               /\ fwd'[u].at = "compute" => fwd'[u].i = 1
    <3>1. CASE u = t
      BY <1>4, <1>5, <1>8, <3>1
    <3>2. CASE u # t
      BY <1>1, <1>9, <3>2 DEF Place
    <3>. QED BY <3>1, <3>2
  <2>. QED BY <2>2, <2>3 DEF Place
<1>12. Rows'
  <2>1. RowsOf(t)'
    BY <1>1, <1>3, <1>8 DEF Rows, RowsOf
  <2>2. ASSUME NEW u \in Callers, u # t PROVE RowsOf(u)'
    <3>1. RowsOf(u) /\ family' = family /\ Stays(u) /\ rows'[u] = rows[u]
      BY <1>1, <1>3 DEF Rows, Quiet, bootVars, Stays
    <3>. QED BY <1>9, <2>2, <3>1, RowsStand
  <2>. QED BY <2>1, <2>2 DEF Rows
<1>13. Accounted'
  <2>1. ASSUME NEW u \in Callers, u # t PROVE Owed(u)' = Owed(u)
    <3>1. PICK d, i, r, p : /\ d = fwd[u].ids /\ i = fwd[u].i /\ r = fwd[u].ptr /\ p = fwd[u].at
                            /\ d = fwd'[u].ids /\ i = fwd'[u].i /\ r = fwd'[u].ptr /\ p = fwd'[u].at
      BY <1>9, <2>1
    <3>. QED BY <3>1 DEF Owed
  <2>2. Owed(t) = {}
    BY <1>3 DEF Owed
  <2>3. \A x \in DOMAIN pool.map : x \in spilled \/ \E u \in Callers : x \in Owed(u)'
    <3>. SUFFICES ASSUME NEW x \in DOMAIN pool.map, x \notin spilled
                  PROVE  \E u \in Callers : x \in Owed(u)'
      OBVIOUS
    <3>1. PICK u \in Callers : x \in Owed(u)
      BY <1>1 DEF Accounted
    <3>2. u # t /\ x \in Owed(u)'
      BY <2>1, <2>2, <3>1
    <3>. QED BY <3>2
  <2>4. pool' = pool /\ spilled' = spilled
    BY <1>3
  <2>. QED BY <1>1, <2>3, <2>4 DEF Accounted
<1>14. Handles'
  <2>1. HandlesOf(t)'
    BY <1>8 DEF HandlesOf
  <2>2. ASSUME NEW u \in Callers, u # t PROVE HandlesOf(u)'
    <3>1. Alike(pool, pool') /\ pool' = pool /\ throws' \in Nat /\ throws' >= throws
          /\ (~MayAlloc(ExpertBytes) => ~MayAlloc(ExpertBytes)')
      BY <1>1, <1>3 DEF Alike, MayAlloc
    <3>. QED BY <1>1, <1>9, <2>2, <3>1, HandlesStand
  <2>. QED BY <2>1, <2>2 DEF Handles
<1>15. StartType' /\ NotYet' /\ PoolBooks'
  BY <1>3 DEF Forwards, StartType, NotYet, PoolBooks, Quiet, bootVars
<1>16. PlanFits'
  BY <1>3, PlanStands DEF Forwards, Quiet, bootVars
<1>. QED BY <1>1, <1>3, <1>10, <1>11, <1>12, <1>13, <1>14, <1>15, <1>16 DEF Forwards, ForwardType


\* The GLM server's mesh is one device.
LEMMA OneDevice ==
  ASSUME NEW v, NEW n, NEW m, m = ResolveMeshForMode("pure_gpu", GlmSpec, v, n, TRUE), m.ok
  PROVE  m.ep = 1 /\ m.tp = 1
<1>1. /\ GlmSpec.ids = <<0>> /\ GlmSpec.strategy = "auto" /\ GlmSpec.ep = 0 /\ GlmSpec.tp = 0
  BY DEF GlmSpec
<1>2. m = ResolveMesh(GlmSpec, v, n, TRUE)
  BY DEF ResolveMeshForMode, OnDevice
<1>3. DeviceIds(<<0>>, v) = {0}
  <2>1. <<0>> # <<>> /\ Len(<<0>>) = 1 /\ ~(<<0>>[1] < 0)
    OBVIOUS
  <2>2. ToSet(<<0>>) = {0}
    BY DEF ToSet
  <2>. QED BY <2>1, <2>2 DEF DeviceIds
<1>4. Cardinality(DeviceIds(GlmSpec.ids, v)) = 1
  BY <1>1, <1>3, FS_Singleton
<1>5. Split(GlmSpec, Strategy(GlmSpec.strategy, 1, TRUE, GlmSpec.hint), 1) = <<1, 1>>
  BY <1>1 DEF Split, Strategy
<1>6. m.ok => m.ep = 1 /\ m.tp = 1
  <2>1. PICK d, w : d = DeviceIds(GlmSpec.ids, v) /\ w = Cardinality(d)
    OBVIOUS
  <2>2. PICK a, c, x : /\ a = [i \in 1..w |-> Clamp(Nth(d, i))]
                       /\ c = (w > 1 /\ (n \/ ~GlmSpec.nccl))
                       /\ x = Split(GlmSpec, Strategy(GlmSpec.strategy, w, TRUE, GlmSpec.hint), w)
    OBVIOUS
  <2>4. m = No \/ m = [ok |-> TRUE, ids |-> a, ep |-> x[1], tp |-> x[2], nccl |-> c]
    BY <1>2, <2>1, <2>2, Zenon DEF ResolveMesh
  <2>5. x = <<1, 1>>
    BY <1>4, <1>5, <2>1, <2>2
  <2>3. m = No \/ m = [ok |-> TRUE, ids |-> a, ep |-> 1, tp |-> 1, nccl |-> c]
    BY <2>4, <2>5
  <2>6. m # No
    <3>1. ~No.ok
      BY DEF No
    <3>. QED BY <3>1
  <2>. HIDE <1>2
  <2>7. PICK g : g = [ok |-> TRUE, ids |-> a, ep |-> 1, tp |-> 1, nccl |-> c]
    OBVIOUS
  <2>8. g.ep = 1 /\ g.tp = 1
    BY <2>7
  <2>. QED BY <2>3, <2>6, <2>7, <2>8
<1>. QED BY <1>6

LEMMA Products ==
  \A a, b, c, d \in Nat : /\ a * b \in Nat
                          /\ a <= c /\ b <= d => a * b <= c * d
                          /\ (a + a) * b = a * b + a * b
<1>. SUFFICES ASSUME NEW a \in Nat, NEW b \in Nat, NEW c \in Nat, NEW d \in Nat
              PROVE  /\ a * b \in Nat
                     /\ a <= c /\ b <= d => a * b <= c * d
                     /\ (a + a) * b = a * b + a * b
  OBVIOUS
<1>1. a * b \in Nat /\ (a + a) * b = a * b + a * b
  OBVIOUS
<1>2. ASSUME a <= c, b <= d
      PROVE  a * b <= c * d
  <2>1. a * b <= c * b
    BY <1>2
  <2>2. c * b <= c * d
    BY <1>2
  <2>3. c * b \in Nat /\ c * d \in Nat /\ a * b \in Nat
    OBVIOUS
  <2>. QED BY <2>1, <2>2, <2>3
<1>. QED BY <1>1, <1>2

LEMMA SlotsOfNat ==
  ASSUME NEW m, NEW f \in Profiles, NEW r, m.ep = 1 \/ Owned(m, f.experts, r) \in Nat
  PROVE  /\ SlotsOf(m, f, 1, r) \in Nat \ {0}
         /\ m.ep = 1 /\ f.topk <= f.experts => SlotsOf(m, f, 1, r) >= f.topk + f.topk
<1>1. f.topk \in Nat /\ f.experts \in Nat
  BY DEF Profiles
<1>2. m.ep = 1 => Owned(m, f.experts, r) = f.experts
  <2>. SUFFICES ASSUME m.ep = 1
                PROVE  Owned(m, f.experts, r) = f.experts
    OBVIOUS
  <2>1. {e \in 0..f.experts - 1 : m.ep <= 1 \/ OwnerRank(m, e) = r} = 0..f.experts - 1
    OBVIOUS
  <2>2. Cardinality(0..f.experts - 1) = f.experts
    BY <1>1, FS_Interval
  <2>. QED BY <2>1, <2>2 DEF Owned
<1>3. PICK o \in Nat : o = Owned(m, f.experts, r)
  BY <1>1, <1>2
<1>4. PICK k \in Nat : k = f.topk
  BY <1>1
<1>5. SlotsOf(m, f, 1, r) = LET n == AtMost(k, IF o > 0 THEN o ELSE k) + 1 * k
                            IN IF n < 1 THEN 1 ELSE n
  BY <1>3, <1>4 DEF SlotsOf
<1>6. AtMost(k, IF o > 0 THEN o ELSE k) \in Nat /\ 1 * k = k
  BY DEF AtMost
<1>7. m.ep = 1 /\ f.topk <= f.experts => AtMost(k, IF o > 0 THEN o ELSE k) = k
  BY <1>2, <1>3, <1>4 DEF AtMost
<1>. QED BY <1>4, <1>5, <1>6, <1>7


\* What GlmLoad plans is of the configured budget, half of which has room for a route
\* if an expert is no larger than the plan was told.
LEMMA PlanIsRoomy ==
  ASSUME boot \in Boots, GlmLoad, pc' = "warm"
  PROVE  /\ plan'.vram = Conf.vram /\ plan'.vram \in Nat /\ plan'.slots \in Nat
         /\ mode = "pure_gpu" /\ Conf.bf16 => plan'.vram > 0
         /\ mode = "pure_gpu" /\ Conf.bf16 /\ ExpertBytes <= Conf.profile.expert =>
              \A ids \in Routes : /\ Len(ids) <= plan'.slots
                                  /\ Len(ids) * ExpertBytes <= plan'.vram \div 2
<1>1. PICK m : m = ResolveMeshForMode(mode, GlmSpec, Visible, Machine.nccl, TRUE)
  OBVIOUS
<1>2. PICK f \in Profiles : f = Conf.profile
  BY BootTypes
<1>3. /\ Conf.vram \in Nat /\ GlmCfg.vram = Conf.vram /\ GlmCfg.extra = 1
      /\ GlmCfg.margin = Conf.margin /\ Conf.margin \in Nat /\ GlmCfg.strict = (mode = "pure_gpu")
  BY BootTypes DEF GlmCfg
<1>4. m.ok /\ plan' = SolveActive(mode, GlmCfg, m, f) /\ plan'.ok /\ Main = "glm"
  BY <1>1, <1>2 DEF GlmLoad, Fatal, No
<1>5. PICK last : last = SlotsOf(m, f, GlmCfg.extra, m.ep - 1)
  OBVIOUS
<1>6. PICK plans : plans = [ok |-> TRUE, vram |-> GlmCfg.vram,
                            slots |-> IF mode = "pure_gpu" THEN last ELSE 0]
  OBVIOUS
<1>7. plan' = No \/ plan' = plans
  BY <1>4, <1>5, <1>6 DEF SolveActive
<1>8. plan' = plans
  <2>1. ~No.ok
    BY DEF No
  <2>. QED BY <1>4, <1>7, <2>1
<1>9. plan'.vram = Conf.vram /\ plan'.slots = IF mode = "pure_gpu" THEN last ELSE 0
  BY <1>3, <1>6, <1>8
<1>10. CASE mode # "pure_gpu"
  BY <1>3, <1>9, <1>10
<1>11. CASE mode = "pure_gpu"
  <2>1. m.ep = 1 /\ m.tp = 1
    BY <1>1, <1>4, <1>11, OneDevice
  <2>2. last = SlotsOf(m, f, 1, 0)
    BY <1>3, <1>5, <2>1
  <2>3. last \in Nat \ {0} /\ (f.topk <= f.experts => last >= f.topk + f.topk)
    BY <2>1, <2>2, SlotsOfNat
  <2>4. Need(m, f, GlmCfg, 0) <= Conf.vram
    <3>1. Need(m, f, GlmCfg, 0) \in {Need(m, f, GlmCfg, r) : r \in 0..m.ep - 1}
      BY <2>1
    <3>2. ~(\E x \in {Need(m, f, GlmCfg, r) : r \in 0..m.ep - 1} : x > Conf.vram)
      <4>. SUFFICES ASSUME \E x \in {Need(m, f, GlmCfg, r) : r \in 0..m.ep - 1} : x > GlmCfg.vram
                    PROVE  plan' = No
        BY <1>3, <1>4 DEF No
      <4>. QED BY <1>3, <1>4, <1>11 DEF SolveActive, OnDevice
    <3>3. Need(m, f, GlmCfg, 0) \in Int
      <4>1. PICK a \in Nat, b \in Nat, c \in Nat, d \in Nat, w \in Nat :
               a = f.attn /\ b = f.shared /\ c = f.kv /\ d = f.expert /\ w = f.workspace
        BY DEF Profiles
      <4>2. Shares(m, f) \in Nat
        BY <2>1, <4>1 DEF Shares
      <4>3. last * d \in Nat
        BY <2>3, Products
      <4>. QED BY <1>3, <2>2, <4>1, <4>2, <4>3 DEF Need
    <3>. QED BY <1>3, <3>1, <3>2, <3>3
  <2>5. last * f.expert <= Conf.vram
    <3>1. PICK a \in Nat, b \in Nat, c \in Nat, d \in Nat, w \in Nat :
             a = f.attn /\ b = f.shared /\ c = f.kv /\ d = f.expert /\ w = f.workspace
      BY DEF Profiles
    <3>2. Shares(m, f) \in Nat
      BY <2>1, <3>1 DEF Shares
    <3>3. PICK p \in Nat : p = last * d
      BY <2>3, Products
    <3>4. Need(m, f, GlmCfg, 0) = Shares(m, f) + p + w + Conf.margin
      BY <1>3, <2>2, <3>1, <3>3 DEF Need
    <3>. QED BY <1>3, <2>4, <3>1, <3>2, <3>3, <3>4
  <2>7. ASSUME Conf.bf16 PROVE Conf.vram > 0
    <3>1. PICK p \in Nat, d \in Nat \ {0} : d = f.expert /\ p = last * d
      <4>1. f.expert \in Nat \ {0}
        BY <1>2, <1>4, <2>7, ServerAssumption DEF Main, Conf, Profiles
      <4>2. last * f.expert \in Nat
        BY <2>3, <4>1, Products
      <4>. QED BY <4>1, <4>2
    <3>2. 1 * 1 <= last * d
      <4>1. 1 \in Nat /\ 1 <= last /\ 1 <= d
        BY <2>3, <3>1
      <4>. QED BY <2>3, <3>1, <4>1, Products
    <3>. QED BY <1>3, <2>5, <3>1, <3>2
  <2>6. ASSUME Conf.bf16, ExpertBytes <= Conf.profile.expert, NEW ids \in Routes
        PROVE  Len(ids) <= last /\ Len(ids) * ExpertBytes <= Conf.vram \div 2
    <3>1. ExpertBytes <= f.expert /\ f.topk <= f.experts /\ Len(ids) <= f.topk
      BY <1>2, <1>4, <2>6, ServerAssumption DEF Main, Conf
    <3>2. PICK n \in Nat, k \in Nat, e \in Nat, d \in Nat, l \in Nat :
             n = Len(ids) /\ k = f.topk /\ e = ExpertBytes /\ d = f.expert /\ l = last
      BY <2>3, RouteLengths, GlmForwardAssumption DEF Profiles
    <3>3. n <= k /\ e <= d /\ k + k <= l
      BY <2>3, <3>1, <3>2
    <3>4. PICK s \in Nat : s = k + k
      OBVIOUS
    <3>5. n * e \in Nat /\ k * d \in Nat /\ n * e <= k * d
      BY <3>3, Products
    <3>6. s * d <= l * d /\ s * d = k * d + k * d /\ l * d \in Nat
      <4>1. s <= l /\ d <= d
        BY <3>3, <3>4
      <4>2. s * d <= l * d /\ l * d \in Nat
        BY <4>1, Products
      <4>3. (k + k) * d = k * d + k * d
        BY Products
      <4>. QED BY <3>4, <4>2, <4>3
    <3>7. PICK x \in Nat, y \in Nat, z \in Nat : x = n * e /\ y = k * d /\ z = l * d
      BY <3>5, <3>6
    <3>8. x <= y /\ y + y <= z /\ z <= Conf.vram
      BY <2>5, <3>2, <3>5, <3>6, <3>7
    <3>9. x <= Conf.vram \div 2
      BY <1>3, <3>8
    <3>10. n <= last
      BY <3>2, <3>3
    <3>. QED BY <3>2, <3>7, <3>9, <3>10
  <2>. QED BY <1>3, <1>9, <1>11, <2>3, <2>6, <2>7
<1>. QED BY <1>10, <1>11


\* No stretch changes what the process was started with.
LEMMA SameBootStarts == StartNext => boot' = boot
BY DEF StartNext, ChooseMode, EnableCuda, OpenWeights, LoadModel, InitOffload, FillBanks,
       ReserveSlots, WarmInt4, WarmBf16, PinBanks, PinOne, PinEnd, WarmForward, GlmDevice,
       GlmLoad, GlmWarm, Breaks, Listen, Fatal, bootVars

LEMMA StartingKeeps ==
  ASSUME Forwards, Starting
  PROVE  Forwards'
<1>1. /\ StartType /\ StartNext
      /\ pool' = IF pc = "open" /\ pc' = "warm"
                 THEN Configured(plan'.slots, plan'.vram, mode = "pure_gpu" /\ Conf.bf16)
                 ELSE pool
      /\ UNCHANGED <<fwd, rows, throws, spilled, job>>
  BY DEF Forwards, Starting, serveVars
<1>2. pc # "listening"
  BY <1>1 DEF StartNext, ChooseMode, EnableCuda, OpenWeights, LoadModel, InitOffload, FillBanks,
              ReserveSlots, WarmInt4, WarmBf16, PinBanks, PinOne, PinEnd, WarmForward, GlmDevice,
              GlmLoad, GlmWarm, Breaks, Listen
<1>3. pc = "open" /\ pc' = "warm" => GlmLoad
  BY <1>1 DEF StartNext, ChooseMode, EnableCuda, OpenWeights, LoadModel, InitOffload, FillBanks,
              ReserveSlots, WarmInt4, WarmBf16, PinBanks, PinOne, PinEnd, WarmForward, GlmDevice,
              GlmWarm, Breaks, Listen, Fatal
<1>4. /\ DOMAIN pool.map = {} /\ spilled = {}
      /\ \A t \in Callers : fwd[t] = Idle /\ fwd[t].at = "idle" /\ job[t].at = "free"
  BY <1>2 DEF Forwards, NotYet, Idle
<1>5. StartType'
  BY <1>1, StartTypeStep
<1>6. /\ Sound(pool') /\ DOMAIN pool'.map = {} /\ pool'.used = 0 /\ pool'.bytes = 0
      /\ PlanFits'
  <2>1. Sound(pool) /\ pool.used = 0 /\ pool.bytes = 0
    <3>1. Sound(pool) /\ pool.used = Cardinality({}) /\ pool.bytes = pool.used * ExpertBytes
      BY <1>4 DEF Forwards, PoolBooks, Sound, BooksOf
    <3>2. pool.used = 0 /\ 0 * ExpertBytes = 0
      BY <3>1, FS_EmptySet, GlmForwardAssumption
    <3>. QED BY <3>1, <3>2
  <2>2. CASE ~(pc = "open" /\ pc' = "warm")
    <3>1. pool' = pool /\ boot' = boot
      BY <1>1, <2>2, SameBootStarts
    <3>. QED BY <1>4, <2>1, <3>1, PlanStands DEF Forwards
  <2>3. CASE pc = "open" /\ pc' = "warm"
    <3>1. PICK b \in BOOLEAN : b = (mode = "pure_gpu" /\ Conf.bf16)
      OBVIOUS
    <3>2. /\ plan'.vram \in Nat /\ plan'.slots \in Nat
          /\ b /\ ExpertBytes <= Conf.profile.expert =>
               \A ids \in Routes : /\ Len(ids) <= plan'.slots
                                   /\ Len(ids) * ExpertBytes <= plan'.vram \div 2
      BY <1>1, <1>3, <2>3, <3>1, PlanIsRoomy DEF StartType
    <3>3. PICK s \in Nat, v \in Nat : s = plan'.slots /\ v = plan'.vram \div 2
      BY <3>2
    <3>4. PICK p : p = pool
      OBVIOUS
    <3>5. p \in Pools
      BY <2>1, <3>4 DEF Sound
    <3>6. PICK c \in Nat \ {0} : c = IF s > 0 THEN s ELSE p.cap
      BY <3>5 DEF Pools
    <3>7. PICK q : q = [p EXCEPT !.cap = c, !.budget = v, !.bound = b]
      OBVIOUS
    <3>8. pool' = q
      BY <1>1, <2>3, <3>1, <3>3, <3>4, <3>5, <3>6, <3>7 DEF Configured, Pools
    <3>9. /\ q \in Pools /\ q.cap = c /\ q.budget = v /\ q.bound = b
          /\ q.map = p.map /\ q.older = p.older /\ q.used = p.used /\ q.bytes = p.bytes
      BY <3>5, <3>7 DEF Pools
    <3>10. Sound(q) /\ DOMAIN q.map = {} /\ q.used = 0 /\ q.bytes = 0
      BY <1>4, <2>1, <3>4, <3>9 DEF Sound, BooksOf
    <3>11. ASSUME b, ExpertBytes <= Conf.profile.expert, NEW ids \in Routes
           PROVE  Len(ids) <= c /\ Len(ids) * ExpertBytes <= v
      <4>1. Len(ids) \in Nat \ {0}
        BY RouteLengths
      <4>2. Len(ids) <= s /\ Len(ids) * ExpertBytes <= v
        BY <3>2, <3>3, <3>11
      <4>. QED BY <3>6, <4>1, <4>2
    <3>12. PlanFits'
      <4>1. Conf' = Conf
        BY <1>1, SameBootStarts DEF Conf
      <4>. QED BY <3>8, <3>9, <3>11, <4>1 DEF PlanFits, RoutesFit, RouteFits
    <3>. QED BY <3>8, <3>10, <3>12
  <2>. QED BY <2>2, <2>3
<1>7. PoolBooks'
  <2>1. pool'.cap \in Nat /\ pool'.budget \in Nat
    BY <1>6 DEF Sound, Pools
  <2>. QED BY <1>6, <2>1 DEF PoolBooks, InBounds
<1>8. Place' /\ ForwardType'
  BY <1>1 DEF Forwards, ForwardType, Place, InPool
<1>9. Rows'
  BY <1>1, <1>4 DEF Rows, RowsOf
<1>10. NotYet'
  BY <1>1, <1>4, <1>6 DEF NotYet
<1>11. Accounted'
  BY <1>1, <1>4, <1>6 DEF Accounted
<1>12. Handles'
  BY <1>1, <1>4 DEF Handles, HandlesOf
<1>. QED BY <1>5, <1>6, <1>7, <1>8, <1>9, <1>10, <1>11, <1>12 DEF Forwards

LEMMA ForwardsInit == Init => Forwards
<1>. SUFFICES ASSUME Init PROVE Forwards
  OBVIOUS
<1>1. /\ boot \in Boots /\ pc = "mode" /\ reserve = 0
      /\ dev = [on |-> FALSE, budget |-> 0, used |-> 0, resident |-> FALSE]
      /\ pool = EmptyPool /\ fwd = [t \in Callers |-> Idle]
      /\ rows = [t \in Callers |-> [l \in 1..Len(Layers) |-> 0]]
      /\ throws = 0 /\ spilled = {} /\ job = [t \in Threads |-> Free]
      /\ Callers = Threads
  BY ServerAssumption DEF Init, StartInit, DevInit, GlmInit, ServeInit
<1>2. StartType
  BY <1>1 DEF StartType, Books
<1>3. \A t \in Callers : fwd[t] = Idle /\ fwd[t].at = "idle" /\ job[t].at = "free"
  BY <1>1 DEF Idle, Free
<1>4. fwd \in [Callers -> Fwds] /\ throws \in Nat /\ rows \in [Callers -> [1..Len(Layers) -> Nat]]
  BY <1>1, IdleType
<1>5. /\ DOMAIN pool.map = {} /\ pool.used = 0 /\ pool.bytes = 0 /\ pool.older = {}
      /\ ~pool.bound /\ pool.cap = 8 /\ pool.budget = 0
  BY <1>1 DEF EmptyPool
<1>6. Sound(pool)
  <2>1. Cardinality(DOMAIN pool.map) = 0 /\ IsFiniteSet(DOMAIN pool.map)
    BY <1>5, FS_EmptySet
  <2>2. 0 * ExpertBytes = 0
    BY GlmForwardAssumption
  <2>3. <<>> \in [{} -> Nat \ {0}]
    OBVIOUS
  <2>4. pool.map = <<>>
    BY <1>1 DEF EmptyPool
  <2>5. <<>> \in UNION {[S -> Nat \ {0}] : S \in SUBSET Names}
    BY <2>3
  <2>6. pool \in Pools
    <3>1. PICK m : m = <<>>
      OBVIOUS
    <3>2. pool = [cap |-> 8, budget |-> 0, bound |-> FALSE, map |-> m, older |-> {},
                  used |-> 0, bytes |-> 0]
      BY <1>1, <3>1 DEF EmptyPool
    <3>3. PICK c \in Nat \ {0}, z \in Nat, o \in SUBSET (Names \X Names), b \in BOOLEAN :
             c = 8 /\ z = 0 /\ o = {} /\ b = FALSE
      <4>1. 8 \in Nat \ {0} /\ 0 \in Nat /\ {} \in SUBSET (Names \X Names) /\ FALSE \in BOOLEAN
        OBVIOUS
      <4>. QED BY <4>1, Zenon
    <3>4. pool = [cap |-> c, budget |-> z, bound |-> b, map |-> m, older |-> o,
                  used |-> z, bytes |-> z]
      BY <3>2, <3>3
    <3>. QED BY <2>5, <3>1, <3>3, <3>4 DEF Pools
  <2>. QED BY <1>5, <2>1, <2>2, <2>6 DEF Sound, BooksOf, Orders
<1>7. PoolBooks /\ PlanFits
  BY <1>5, <1>6 DEF PoolBooks, InBounds, PlanFits, RoutesFit
<1>8. Place /\ Rows /\ Handles
  BY <1>3 DEF Place, Rows, RowsOf, Handles, HandlesOf, Busy
<1>9. NotYet /\ Accounted
  BY <1>1, <1>3, <1>5 DEF NotYet, Accounted
<1>. QED BY <1>2, <1>4, <1>7, <1>8, <1>9 DEF Forwards, ForwardType

LEMMA ForwardsStep ==
  ASSUME Exchange, Forwards, [Next]_vars
  PROVE  Forwards'
<1>1. job \in [Threads -> Jobs] /\ Callers = Threads /\ throws \in Nat /\ PromptTokens \in Nat \ {0}
  BY ServerAssumption DEF Exchange, ServeType, Forwards, ForwardType
<1>2. CASE Starting
  BY <1>2, StartingKeeps
<1>3. CASE UserActs
  <2>1. \A t \in Callers : Stays(t)
    <3>1. CASE Drop
      <4>1. \A t \in Callers : job'[t] = [job[t] EXCEPT !.live = FALSE] /\ job[t] \in Jobs
        BY <1>1, <3>1 DEF Drop
      <4>. QED BY <4>1 DEF Stays, Jobs
    <3>2. CASE ~Drop
      <4>1. job' = job
        BY <1>3, <3>2 DEF UserActs, Refuse, PageNext, Submit, ReadPiece, ReadError, ReadEnd, ReadWhole
      <4>. QED BY <4>1 DEF Stays
    <3>. QED BY <3>1, <3>2
  <2>. QED BY <1>1, <1>3, <2>1, StillKeeps DEF UserActs, Still, glmVars
<1>4. ASSUME NEW t \in Threads, Handle(t)
      PROVE  Forwards'
  <2>1. \A u \in Callers : Stays(u)
    <3>1. CASE Accept(t, Conf.key)
      <4>1. job'[t].at = "queue" /\ \A u \in Threads : u # t => job'[u] = job[u]
        BY <1>1, <3>1 DEF Accept, Free
      <4>. QED BY <1>1, <4>1 DEF Stays
    <3>2. CASE Reply(t)
      <4>1. job'[t].at = "free" /\ \A u \in Threads : u # t => job'[u] = job[u]
        BY <1>1, <3>2 DEF Reply, Free
      <4>. QED BY <1>1, <4>1 DEF Stays
    <3>. QED BY <1>4, <3>1, <3>2 DEF Handle
  <2>. QED BY <1>1, <1>4, <2>1, StillKeeps DEF Handle, Still, glmVars
<1>5. ASSUME NEW t \in Threads, Generate(t)
      PROVE  Forwards'
  <2>1. \A u \in Callers : (u # t \/ job[t].bad) => Stays(u)
    BY <1>1, <1>5 DEF Generate, Enqueue, Stays, Jobs
  <2>2. CASE Glm /\ ~job[t].bad
    BY <1>1, <1>5, <2>1, <2>2, StartForwardKeeps DEF Generate
  <2>3. CASE ~(Glm /\ ~job[t].bad)
    <3>1. \A u \in Callers : Glm => Stays(u)
      BY <2>1, <2>3
    <3>2. pc = "listening" /\ Quiet /\ Still
      BY <1>5, <2>3 DEF Generate
    <3>3. throws' \in Nat /\ throws' >= throws /\ UNCHANGED <<dev, pool, fwd, rows, spilled>>
      BY <1>1, <3>2 DEF Still, glmVars
    <3>. QED BY <3>1, <3>2, <3>3, StillKeeps
  <2>. QED BY <2>2, <2>3
<1>6. ASSUME NEW t \in Threads, Decode(t)
      PROVE  Forwards'
  <2>1. \A u \in Callers : Stays(u)
    BY <1>1, <1>6 DEF Decode, Emit, Stays, Jobs
  <2>2. CASE Glm
    <3>1. job[t].at = "generate" /\ ~job[t].bad
      BY <1>6 DEF Decode, Emit
    <3>2. 1 \in Nat \ {0} /\ FALSE \in BOOLEAN
      OBVIOUS
    <3>. QED BY <1>1, <1>6, <2>1, <2>2, <3>1, <3>2, StartForwardKeeps DEF Decode
  <2>3. CASE ~Glm
    BY <1>1, <1>6, <2>1, <2>3, StillKeeps DEF Decode, Still, glmVars
  <2>. QED BY <2>2, <2>3
<1>7. ASSUME NEW t \in Threads, Forward(t)
      PROVE  Forwards'
  <2>1. pc = "listening" /\ Quiet /\ UNCHANGED job /\ t \in Callers /\ ForwardStep(t)
    BY <1>1, <1>7 DEF Forward, serveVars
  <2>. QED BY <2>1, AttendKeeps, DenseKeeps, RouteKeeps, PrefetchKeeps, PinKeeps, ComputeKeeps,
              ReleaseKeeps DEF ForwardStep
<1>8. ASSUME NEW t \in Threads, GenerateEnds(t)
      PROVE  Forwards'
  <2>1. \A u \in Callers : Stays(u)
    BY <1>1, <1>8 DEF GenerateEnds, Return, Stays, Jobs
  <2>. QED BY <1>1, <1>8, <2>1, StillKeeps DEF GenerateEnds, Still, glmVars
<1>9. ASSUME NEW t \in Threads, GenerateThrows(t)
      PROVE  Forwards'
  <2>1. (\A u \in Callers : Stays(u)) /\ job'[t].at # "generate"
    BY <1>1, <1>9 DEF GenerateThrows, Throw, Stays, Jobs
  <2>2. CASE ForwardThrows(t)
    BY <1>1, <1>9, <2>1, <2>2, ThrowsKeeps DEF GenerateThrows
  <2>3. CASE ~ForwardThrows(t)
    <3>1. throws' \in Nat /\ throws' >= throws
      BY <1>1, <1>9, <2>3 DEF GenerateThrows
    <3>. QED BY <1>9, <2>1, <2>3, <3>1, StillKeeps DEF GenerateThrows
  <2>. QED BY <2>2, <2>3
<1>10. CASE UNCHANGED vars
  <2>1. UNCHANGED <<boot, reserve, pc, family, dev, pool, fwd, rows, throws, spilled, job>>
    BY <1>10 DEF vars, startVars, bootVars, glmVars, serveVars
  <2>0. PlanFits'
    BY <2>1, PlanStands DEF Forwards
  <2>2. StartType' /\ NotYet' /\ PlanFits' /\ PoolBooks' /\ Place' /\ ForwardType'
    BY <2>0, <2>1 DEF Forwards, StartType, NotYet, PoolBooks, Place, InPool, ForwardType
  <2>3. Rows'
    BY <2>1 DEF Forwards, Rows, RowsOf, Glm
  <2>4. Accounted'
    BY <2>1 DEF Forwards, Accounted, Owed
  <2>5. Handles'
    BY <2>1 DEF Forwards, Handles, HandlesOf, RouteFits, Pinned, MayAlloc
  <2>. QED BY <2>2, <2>3, <2>4, <2>5 DEF Forwards
<1>. QED BY <1>2, <1>3, <1>4, <1>5, <1>6, <1>7, <1>8, <1>9, <1>10 DEF Next


\* Every forward's cache, the pool and its order, and what each forward has yet to
\* give back, agree.
THEOREM ForwardsInvariant == Spec => []Forwards
BY ExchangeInvariant, ForwardsInit, ForwardsStep, PTL DEF Spec

\* A handle names its expert's memory while the FFN computes unless another
\* request's FFN ran meanwhile or the pool has no room for the route, which it has
\* if the plan was told an expert's bytes; the pool's books are exact and within its
\* budget, but for one expert alone; and attention finds the rows of the positions before it (residency_gpu.cpp and
\* exec_gpu.cpp under concurrent forwards of glm_flash_model.cpp).
THEOREM ForwardsStaySound == Spec => []ForwardsAreSound
<1>1. ASSUME Forwards PROVE ForwardsAreSound
  <2>1. HandlesStayLive
    <3>. SUFFICES ASSUME NEW t \in Callers, fwd[t].at = "compute", NEW i \in DOMAIN fwd[t].ids
                  PROVE  IF fwd[t].ptr[i] # NoPtr
                         THEN \/ DeviceOf(pool, fwd[t].ids[i]) = fwd[t].ptr[i]
                              \/ fwd[t].shared \/ ~RouteFits(fwd[t].ids)
                         ELSE ~pool.bound \/ ~MayAlloc(ExpertBytes) \/ throws > 0
      BY DEF HandlesStayLive
    <3>1. fwd[t].ids \in Keyed
      BY <1>1 DEF Forwards, Place, Busy
    <3>2. DOMAIN fwd[t].ids = 1..Len(fwd[t].ids)
      BY <3>1, RouteTypes, LenProperties
    <3>3. i \in Pinned(t)
      BY <3>2 DEF Pinned
    <3>4. HandlesOf(t)
      BY <1>1 DEF Forwards, Handles
    <3>. QED BY <3>3, <3>4 DEF HandlesOf, DeviceOf
  <2>2. PoolBooksExact
    <3>1. /\ Sound(pool) /\ InBounds(pool) /\ Accounted
      BY <1>1 DEF Forwards, PoolBooks
    <3>2. \A x, y \in DOMAIN pool.map : x # y => (<<x, y>> \in pool.older <=> <<y, x>> \notin pool.older)
      BY <3>1 DEF Sound, Orders
    <3>3. InPool = {} => DOMAIN pool.map \subseteq spilled
      <4>. SUFFICES ASSUME InPool = {}
                    PROVE  \A t \in Callers : Owed(t) = {}
        BY <3>1 DEF Accounted
      <4>. QED BY DEF InPool, Owed
    <3>. QED BY <3>1, <3>2, <3>3 DEF PoolBooksExact, Sound, BooksOf, InBounds
  <2>3. RowsInOrder
    <3>. SUFFICES ASSUME NEW t \in Callers, fwd[t].at = "attn"
                  PROVE  rows[t][fwd[t].layer] = fwd[t].pos
      BY DEF RowsInOrder
    <3>1. fwd[t].layer \in 1..Len(Layers) /\ ~(fwd[t].layer < fwd[t].layer) /\ RowsOf(t)
      BY <1>1 DEF Forwards, ForwardType, Fwds, Rows
    <3>. QED BY <3>1 DEF RowsOf
  <2>4. RoutesFit
    BY <1>1 DEF Forwards, PlanFits
  <2>. QED BY <2>1, <2>2, <2>3, <2>4 DEF ForwardsAreSound
<1>. QED BY <1>1, ForwardsInvariant, PTL


(***************************************************************************)
(* The host banks during start-up.                                         *)
(***************************************************************************)

BankType ==
  /\ arena \in [BankLayers -> {"none", "partial", "whole", "stray"}]
  /\ residency \in [BankLayers -> {"pageable", "locked", "pinned"}]
  /\ os \in [BankLayers -> {"none", "locked", "registered"}]
  /\ books \in [total : Nat, pinned : Nat, locked : Nat]
  /\ at \in Nat /\ trouble \in Nat

\* The layers held with a residency.
With(what) == {l \in BankLayers : residency[l] = what /\ arena[l] # "none"}

BankBooks ==
  /\ books.total = LayerBytes * Cardinality(Counted)
  /\ books.pinned = LayerBytes * Cardinality(With("pinned"))
  /\ books.locked = LayerBytes * Cardinality(With("locked"))
  /\ BankBudget > 0 => LayerBytes * Cardinality(Arenas) <= BankBudget
  /\ books.pinned <= PinCap

\* A fill stands at the first layer that it has not seen; the arena it fills, and
\* no other, is partial; one that it left stray is the last there is.
StrayIsLast(l) ==
  arena[l] = "stray" /\ trouble > 0 /\ ~(pc = "fill" /\ at > 0) /\ \A k \in Arenas : k <= l

Filled ==
  /\ \A l \in Arenas : \/ arena[l] = "whole"
                       \/ arena[l] = "partial" /\ pc = "fill" /\ l = at
                       \/ StrayIsLast(l)
  /\ \A l \in Arenas, k \in BankLayers : k < l /\ MoeLayers[k] => k \in Arenas
  /\ pc = "fill" /\ at > 0 => \A l \in BankLayers : /\ l < at /\ MoeLayers[l] => l \in Arenas
                                                    /\ l > at => l \notin Arenas

\* What the system holds; before and ahead of pin() nothing.
Settlement ==
  /\ \A l \in BankLayers : os[l] = IF arena[l] # "none" THEN HeldFor(residency[l]) ELSE "none"
  /\ pc \notin {"pinning", "forward", "listen", "listening", "fatal"} =>
       \A l \in BankLayers : residency[l] = "pageable"
  /\ pc = "pinning" => \A l \in BankLayers : l >= at => residency[l] = "pageable"

\* When the banks run and when there are any.
Phases ==
  /\ boot \in Boots
  /\ at > 0 => pc \in {"fill", "pinning"}
  /\ pc \in {"offload", "fill", "pin", "pinning"} => Main = "int4moe"
  /\ pc \in {"mode", "enable", "open", "load", "offload", "fatal"} \/ Main # "int4moe" => Arenas = {}

Banks == BankType /\ BankBooks /\ Filled /\ Settlement /\ Phases

LEMMA BankSets ==
  /\ BankLayers = 1..Len(MoeLayers) /\ Len(MoeLayers) \in Nat /\ IsFiniteSet(BankLayers)
  /\ LayerBytes \in Nat \ {0} /\ PinCap \in Nat
<1>1. MoeLayers \in Seq(BOOLEAN)
  BY HostBanksAssumption
<1>2. BankLayers = 1..Len(MoeLayers) /\ Len(MoeLayers) \in Nat
  BY <1>1, LenProperties DEF BankLayers
<1>3. IsFiniteSet(1..Len(MoeLayers))
  BY <1>2, FS_Interval
<1>. QED BY <1>2, <1>3, HostBanksAssumption, StartupAssumption

\* LayerBytes times a number of layers.
LEMMA Weigh ==
  \A n \in Nat : /\ LayerBytes * n \in Nat /\ LayerBytes * (n + 1) = LayerBytes * n + LayerBytes
                 /\ LayerBytes * 0 = 0
<1>1. ASSUME NEW b \in Nat, NEW n \in Nat
      PROVE  b * n \in Nat /\ b * (n + 1) = b * n + b /\ b * 0 = 0
  OBVIOUS
<1>. QED BY <1>1, BankSets

LEMMA LayersCount ==
  ASSUME NEW S, S \subseteq BankLayers
  PROVE  /\ IsFiniteSet(S) /\ Cardinality(S) \in Nat
         /\ \A l \in BankLayers \ S : Cardinality(S \cup {l}) = Cardinality(S) + 1
<1>1. IsFiniteSet(S) /\ Cardinality(S) \in Nat
  BY BankSets, FS_Subset, FS_CardinalityType
<1>. QED BY <1>1, FS_AddElement


LEMMA BudgetType ==
  ASSUME boot \in Boots
  PROVE  BankBudget \in Nat
<1>1. Conf \in Configs
  BY StartupAssumption DEF Conf
<1>2. Conf.dram \in Nat /\ Conf.loaded \in Nat
  BY <1>1 DEF Configs
<1>3. PICK d \in Nat : d = Conf.dram
  BY <1>2
<1>4. PICK n \in Nat : n = Conf.loaded
  BY <1>2
<1>5. d \div 2 \in Nat
  OBVIOUS
<1>. QED BY <1>3, <1>4, <1>5 DEF BankBudget

\* At the start there is no arena.
LEMMA BanksStart ==
  ASSUME Init
  PROVE  Banks
<1>. USE DEF Init, StartInit, BanksInit
<1>1. Arenas = {} /\ Counted = {} /\ With("pinned") = {} /\ With("locked") = {}
  BY DEF Arenas, Counted, With
<1>2. Cardinality({}) = 0
  BY FS_EmptySet
<1>3. BankType
  BY DEF BankType
<1>0. LayerBytes * 0 = 0 /\ PinCap \in Nat /\ BankBudget \in Nat
  BY Weigh, BankSets, BudgetType
<1>4. BankBooks
  BY <1>0, <1>1, <1>2 DEF BankBooks
<1>5. Filled
  BY <1>1, BankSets DEF Filled
<1>6. Settlement
  BY DEF Settlement
<1>7. Phases
  BY <1>1 DEF Phases
<1>. QED BY <1>3, <1>4, <1>5, <1>6, <1>7 DEF Banks

\* A step that leaves the banks alone and goes where banks may be.
LEMMA BanksKept ==
  ASSUME Banks, UNCHANGED bankVars, UNCHANGED boot,
         pc \in {"fill", "pinning"} => pc' = pc \/ at = 0,
         pc' = "fatal" => Arenas = {},
         pc' \in {"offload", "fill", "pin", "pinning"} => Main = "int4moe",
         pc' \in {"mode", "enable", "open", "load", "offload"} =>
           pc \in {"mode", "enable", "open", "load", "offload"},
         pc' \in {"fill", "pinning"} => pc' = pc,
         pc' \notin {"pinning", "forward", "listen", "listening", "fatal"} =>
           pc \notin {"pinning", "forward", "listen", "listening", "fatal"}
  PROVE  Banks'
<1>. USE DEF Banks, bankVars
<1>1. /\ Arenas' = Arenas /\ Counted' = Counted
      /\ With("pinned")' = With("pinned") /\ With("locked")' = With("locked")
  BY DEF Arenas, Counted, With
<1>2. BankBudget' = BankBudget /\ Main' = Main
  BY DEF BankBudget, Conf, Main
<1>3. BankType'
  BY DEF BankType
<1>4. BankBooks'
  BY <1>1, <1>2 DEF BankBooks
<1>5. Filled'
  <2>1. pc' = "fill" => pc = "fill"
    OBVIOUS
  <2>2. \A l \in Arenas : \/ arena[l] = "whole"
                          \/ arena[l] = "partial" /\ pc' = "fill" /\ l = at
                          \/ StrayIsLast(l)'
    <3>1. \A l \in Arenas : \/ arena[l] = "whole"
                            \/ arena[l] = "partial" /\ pc = "fill" /\ l = at
                            \/ StrayIsLast(l)
      BY DEF Filled
    <3>2. \A l \in Arenas : l # 0
      BY BankSets DEF Arenas
    <3>3. \A l \in Arenas : StrayIsLast(l) => StrayIsLast(l)'
      BY <1>1, <2>1 DEF StrayIsLast
    <3>. QED BY <3>1, <3>2, <3>3
  <2>3. \A l \in Arenas, k \in BankLayers : k < l /\ MoeLayers[k] => k \in Arenas
    BY DEF Filled
  <2>4. pc' = "fill" /\ at > 0 => \A l \in BankLayers : /\ l < at /\ MoeLayers[l] => l \in Arenas
                                                       /\ l > at => l \notin Arenas
    BY <2>1 DEF Filled
  <2>. QED BY <1>1, <2>2, <2>3, <2>4 DEF Filled
<1>6. Settlement'
  BY DEF Settlement
<1>7. Phases'
  BY <1>1, <1>2 DEF Phases, BankType
<1>. QED BY <1>3, <1>4, <1>5, <1>6, <1>7


\* InitOffload and allocate().
LEMMA BanksAllocated ==
  ASSUME Banks, InitOffload
  PROVE  Banks'
<1>. USE DEF Banks, InitOffload, Allocate
<1>1. Arenas' = {} /\ Counted' = {} /\ With("pinned")' = {} /\ With("locked")' = {}
  BY DEF Arenas, Counted, With
<1>2. Cardinality({}) = 0
  BY FS_EmptySet
<1>3. BankType'
  BY DEF BankType
<1>0. LayerBytes * 0 = 0 /\ PinCap \in Nat /\ BankBudget \in Nat /\ BankBudget' = BankBudget
  <2>1. BankBudget' = BankBudget
    BY DEF BankBudget, Conf
  <2>. QED BY <2>1, Weigh, BankSets, BudgetType DEF Phases
<1>4. BankBooks'
  BY <1>0, <1>1, <1>2 DEF BankBooks
<1>5. Filled'
  BY <1>1, BankSets DEF Filled
<1>6. Settlement'
  BY DEF Settlement
<1>7. Phases'
  BY <1>1 DEF Phases, Main
<1>. QED BY <1>3, <1>4, <1>5, <1>6, <1>7

\* The books are those of a set of arenas, none of them settled yet.
LEMMA NoneSettled ==
  ASSUME Banks, pc = "fill"
  PROVE  /\ With("pinned") = {} /\ With("locked") = {}
         /\ books.pinned = 0 /\ books.locked = 0
<1>1. With("pinned") = {} /\ With("locked") = {}
  BY DEF Banks, Settlement, With
<1>. QED BY <1>1, Weigh, FS_EmptySet DEF Banks, BankBooks

\* The fill leaves the arenas alone: it passes a layer that has no experts, or ends
\* with no arena half filled.
LEMMA FillPasses ==
  ASSUME Banks, pc = "fill", UNCHANGED bootVars, UNCHANGED <<arena, residency, os, books>>,
         at' \in Nat, trouble' \in Nat, \A l \in Arenas : arena[l] = "whole",
         at' = 0 \/ (at > 0 /\ at' = at + 1 /\ (at \in BankLayers => ~MoeLayers[at]))
  PROVE  Banks'
<1>. USE DEF Banks, bootVars
<1>1. /\ Arenas' = Arenas /\ Counted' = Counted
      /\ With("pinned")' = With("pinned") /\ With("locked")' = With("locked")
  BY DEF Arenas, Counted, With
<1>2. BankBudget' = BankBudget /\ Main' = Main
  BY DEF BankBudget, Conf, Main
<1>3. BankType'
  BY DEF BankType
<1>4. BankBooks'
  BY <1>1, <1>2 DEF BankBooks
<1>5. Filled'
  BY <1>1, BankSets DEF Filled, BankType, Phases
<1>6. Settlement'
  BY DEF Settlement
<1>7. Phases'
  BY <1>1, <1>2 DEF Phases, BankType
<1>. QED BY <1>3, <1>4, <1>5, <1>6, <1>7

\* SkipLayer and the end of the fill.
LEMMA FillSkips ==
  ASSUME Banks, FillBanks, SkipLayer(BankBudget) \/ FillDone
  PROVE  Banks'
<1>1. pc = "fill" /\ UNCHANGED bootVars /\ UNCHANGED <<arena, residency, os, books, trouble>>
  BY DEF FillBanks, SkipLayer, FillDone
<1>2. at \in Nat /\ trouble \in Nat /\ Len(MoeLayers) \in Nat /\ BankLayers = 1..Len(MoeLayers)
  BY BankSets DEF Banks, BankType
<1>3. \A l \in Arenas : arena[l] = "whole"
  <2>1. \A l \in Arenas : l # at
    BY <1>2 DEF SkipLayer, FillDone, Arenas
  <2>2. at > 0
    BY <1>2 DEF SkipLayer, FillDone
  <2>. QED BY <2>1, <2>2, <1>1 DEF Banks, Filled, StrayIsLast
<1>4. at' = 0 \/ (at > 0 /\ at' = at + 1 /\ (at \in BankLayers => ~MoeLayers[at]))
  BY <1>2 DEF SkipLayer, FillDone, FillEnds
<1>5. at' \in Nat /\ trouble' \in Nat
  BY <1>1, <1>2, <1>4
<1>6. UNCHANGED <<arena, residency, os, books>>
  BY <1>1
<1>. QED BY <1>1, <1>3, <1>4, <1>5, <1>6, FillPasses

\* A whole arena is allocated for the next layer, or its allocation fails.
LEMMA FillAllocates ==
  ASSUME Banks, FillBanks, AllocLayer(BankBudget)
  PROVE  Banks'
<1>. USE DEF Banks
<1>1. pc = "fill" /\ UNCHANGED bootVars /\ UNCHANGED <<residency, os>>
  BY DEF FillBanks, AllocLayer
<1>2. at \in Nat /\ Len(MoeLayers) \in Nat /\ BankLayers = 1..Len(MoeLayers) /\ at \in BankLayers
  BY BankSets DEF BankType, AllocLayer
<1>. DEFINE Failed == at' = 0 /\ trouble' = trouble + 1 /\ UNCHANGED books
<1>whole. \A l \in Arenas : arena[l] = "whole"
  BY <1>1, <1>2 DEF Filled, StrayIsLast, AllocLayer, Arenas
<1>counted. Counted = Arenas
  BY <1>whole DEF Counted
<1>trouble. trouble \in Nat /\ (Failed => trouble' \in Nat)
  BY DEF BankType
<1>3. CASE Failed /\ UNCHANGED arena
  BY <1>1, <1>2, <1>3, <1>whole, <1>trouble, FillPasses
<1>5. CASE Failed /\ arena' = [arena EXCEPT ![at] = "stray"]
  <2>1. arena' \in [BankLayers -> {"none", "partial", "whole", "stray"}]
        /\ \A l \in BankLayers : arena'[l] = IF l = at THEN "stray" ELSE arena[l]
    BY <1>2, <1>5 DEF BankType
  <2>2. Arenas' = Arenas \cup {at} /\ Counted' = Arenas
    BY <2>1, <1>2, <1>whole DEF Arenas, Counted, AllocLayer
  <2>3. at \notin Arenas /\ Arenas \subseteq BankLayers
    BY DEF Arenas, AllocLayer
  <2>4. BankBudget' = BankBudget /\ Main' = Main /\ pc' = pc /\ boot' = boot
    BY <1>1 DEF BankBudget, Conf, Main, bootVars
  <2>5. With("pinned")' = With("pinned") /\ With("locked")' = With("locked")
    BY <1>1, <2>1, NoneSettled DEF Settlement, With
  <2>6. BankBooks'
    <3>1. PICK c \in Nat : c = Cardinality(Arenas)
      BY <2>3, LayersCount
    <3>2. Cardinality(Arenas') = c + 1
      BY <2>2, <2>3, <1>2, <3>1, LayersCount
    <3>3. books.total = LayerBytes * c
      BY <1>counted, <3>1 DEF BankBooks
    <3>4. books'.total = LayerBytes * Cardinality(Counted')
      BY <1>5, <2>2, <3>1, <3>3
    <3>5. BankBudget > 0 => books.total + LayerBytes <= BankBudget
      BY BudgetType DEF AllocLayer, Fits, Phases
    <3>6. BankBudget' > 0 => LayerBytes * Cardinality(Arenas') <= BankBudget'
      BY <2>4, <3>2, <3>3, <3>5, Weigh
    <3>. QED BY <1>5, <2>5, <3>4, <3>6 DEF BankBooks
  <2>7. BankType'
    BY <1>1, <1>5, <1>trouble, <2>1 DEF BankType
  <2>8. Filled'
    <3>1. \A l \in Arenas : l < at
      <4>1. \A l \in Arenas : l # at /\ l \in Int /\ ~(l > at)
        BY <1>1, <1>2, <2>3 DEF Filled
      <4>. QED BY <1>2, <4>1
    <3>2. \A k \in Arenas' : k <= at
      BY <1>2, <2>2, <2>3, <3>1
    <3>0. PICK a \in BankLayers : a = at
      BY <1>2
    <3>3. StrayIsLast(a)'
      <4>1. trouble' > 0 /\ at' = 0
        BY <1>5, <1>trouble
      <4>2. arena'[a] = "stray" /\ \A k \in Arenas' : k <= a
        BY <2>1, <3>0, <3>2
      <4>. QED BY <4>1, <4>2 DEF StrayIsLast
    <3>4. \A l \in Arenas' : l = a \/ arena'[l] = "whole"
      BY <1>whole, <2>1, <2>2, <2>3, <3>0
    <3>5. \A l \in Arenas', k \in BankLayers : k < l /\ MoeLayers[k] => k \in Arenas'
      <4>. SUFFICES ASSUME NEW l \in Arenas', NEW k \in BankLayers, k < l, MoeLayers[k]
                    PROVE  k \in Arenas
        BY <2>2
      <4>1. k < at
        BY <1>2, <2>2, <2>3, <3>1
      <4>. QED BY <1>1, <1>2, <4>1 DEF Filled
    <3>6. ~(at' > 0)
      BY <1>5
    <3>. QED BY <3>3, <3>4, <3>5, <3>6 DEF Filled
  <2>9. Settlement'
    BY <1>1, <2>1, <2>4 DEF Settlement, HeldFor
  <2>10. Phases'
    BY <1>1, <1>5, <2>4 DEF Phases
  <2>. QED BY <2>6, <2>7, <2>8, <2>9, <2>10
<1>4. CASE /\ arena' = [arena EXCEPT ![at] = "partial"]
           /\ books' = [books EXCEPT !.total = @ + LayerBytes]
           /\ UNCHANGED <<at, trouble>>
  <2>1. PICK t \in Nat, p \in Nat, k \in Nat : books = [total |-> t, pinned |-> p, locked |-> k]
    BY DEF BankType
  <2>2. books' = [total |-> t + LayerBytes, pinned |-> p, locked |-> k]
    BY <1>4, <2>1
  <2>3. arena[at] = "none" /\ MoeLayers[at] /\ Fits(BankBudget)
    BY DEF AllocLayer
  <2>4. arena' \in [BankLayers -> {"none", "partial", "whole", "stray"}]
        /\ \A l \in BankLayers : arena'[l] = IF l = at THEN "partial" ELSE arena[l]
    BY <1>2, <1>4 DEF BankType
  <2>5. Arenas' = Arenas \cup {at} /\ Counted' = Arenas'
    BY <2>4, <1>2, <1>whole DEF Arenas, Counted
  <2>6. at \notin Arenas /\ Arenas \subseteq BankLayers
    BY <2>3 DEF Arenas
  <2>7. BankBudget' = BankBudget /\ Main' = Main /\ pc' = pc /\ boot' = boot
    BY <1>1 DEF BankBudget, Conf, Main, bootVars
  <2>8. With("pinned")' = {} /\ With("locked")' = {} /\ p = 0 /\ k = 0
    BY <1>1, <2>1, NoneSettled DEF Settlement, With
  <2>9. BankBooks'
    <3>1. PICK c \in Nat : c = Cardinality(Arenas)
      BY <2>6, LayersCount
    <3>2. Cardinality(Arenas') = c + 1
      BY <2>5, <2>6, <1>2, <3>1, LayersCount
    <3>3. t = LayerBytes * c
      BY <1>counted, <2>1, <3>1 DEF BankBooks
    <3>4. books'.total = LayerBytes * Cardinality(Arenas')
      BY <3>1, <3>2, <3>3, <2>2, Weigh
    <3>5. BankBudget > 0 => t + LayerBytes <= BankBudget
      BY <2>3, <2>1, BudgetType DEF Fits, Phases
    <3>6. Cardinality({}) = 0 /\ LayerBytes * 0 = 0 /\ PinCap \in Nat
      BY FS_EmptySet, Weigh, BankSets
    <3>7. books'.total = t + LayerBytes /\ books'.pinned = 0 /\ books'.locked = 0
      BY <2>2, <2>8
    <3>8. books'.total = LayerBytes * Cardinality(Arenas')
          /\ (BankBudget' > 0 => LayerBytes * Cardinality(Arenas') <= BankBudget')
      BY <3>4, <3>5, <3>7, <2>7
    <3>9. books'.pinned = LayerBytes * Cardinality(With("pinned")')
          /\ books'.locked = LayerBytes * Cardinality(With("locked")') /\ books'.pinned <= PinCap
      BY <3>6, <3>7, <2>8
    <3>. QED BY <2>5, <3>8, <3>9 DEF BankBooks
  <2>10. BankType'
    <3>1. t + LayerBytes \in Nat
      BY BankSets
    <3>2. books' \in [total : Nat, pinned : Nat, locked : Nat]
      BY <2>2, <3>1
    <3>. QED BY <1>1, <1>4, <2>4, <3>2 DEF BankType
  <2>11. Filled'
    <3>1. \A l \in Arenas' : l = at \/ arena'[l] = "whole"
      BY <1>whole, <2>4, <2>5, <2>6
    <3>. QED BY <1>1, <1>2, <1>4, <2>4, <2>5, <2>3, <2>7, <3>1 DEF Filled
  <2>12. Settlement'
    BY <1>1, <2>4, <2>7 DEF Settlement, HeldFor
  <2>13. Phases'
    BY <1>1, <1>4, <2>7 DEF Phases
  <2>. QED BY <2>9, <2>10, <2>11, <2>12, <2>13
<1>. QED BY <1>3, <1>4, <1>5 DEF AllocLayer, FillEnds


\* The layer's experts are loaded into its arena, or the arena is given back whole.
LEMMA FillFills ==
  ASSUME Banks, FillBanks, FillLayer
  PROVE  Banks'
<1>. USE DEF Banks
<1>1. pc = "fill" /\ UNCHANGED bootVars /\ UNCHANGED <<residency, os>>
  BY DEF FillBanks, FillLayer
<1>2. at \in Nat /\ Len(MoeLayers) \in Nat /\ BankLayers = 1..Len(MoeLayers) /\ at \in BankLayers
  BY BankSets DEF BankType, FillLayer
<1>3. BankBudget' = BankBudget /\ Main' = Main /\ pc' = pc /\ boot' = boot
  BY <1>1 DEF BankBudget, Conf, Main, bootVars
<1>4. arena[at] = "partial" /\ at \in Arenas /\ Arenas \subseteq BankLayers
  BY <1>2 DEF FillLayer, Arenas
<1>5. With("pinned")' = {} /\ With("locked")' = {} /\ books.pinned = 0 /\ books.locked = 0
  BY <1>1, NoneSettled DEF Settlement, With
<1>6. PICK t \in Nat : books = [total |-> t, pinned |-> 0, locked |-> 0]
  BY <1>5 DEF BankType
<1>7. (\A l \in Arenas : l = at \/ arena[l] = "whole") /\ Counted = Arenas
  <2>1. at > 0
    BY <1>2
  <2>2. \A l \in Arenas : l = at \/ arena[l] = "whole"
    BY <1>1, <2>1 DEF Filled, StrayIsLast
  <2>3. \A l \in Arenas : arena[l] # "stray"
    BY <1>4, <2>2
  <2>. QED BY <2>2, <2>3 DEF Counted
<1>10. trouble \in Nat /\ (trouble' \in {trouble, trouble + 1} => trouble' \in Nat)
  BY DEF BankType
<1>8. CASE arena' = [arena EXCEPT ![at] = "whole"] /\ at' = at + 1 /\ UNCHANGED <<books, trouble>>
  <2>1. arena' \in [BankLayers -> {"none", "partial", "whole", "stray"}]
        /\ \A l \in BankLayers : arena'[l] = IF l = at THEN "whole" ELSE arena[l]
    BY <1>2, <1>8 DEF BankType
  <2>2. Arenas' = Arenas /\ Counted' = Counted
    BY <2>1, <1>4, <1>7 DEF Arenas, Counted
  <2>3. BankType'
    BY <1>1, <1>2, <1>8, <2>1 DEF BankType
  <2>4. BankBooks'
    <3>1. Cardinality({}) = 0 /\ LayerBytes * 0 = 0
      BY FS_EmptySet, Weigh
    <3>. QED BY <1>3, <1>5, <1>8, <2>2, <3>1 DEF BankBooks
  <2>5. Filled'
    BY <1>1, <1>2, <1>3, <1>4, <1>7, <1>8, <2>1, <2>2 DEF Filled
  <2>6. Settlement'
    BY <1>1, <1>3, <1>4, <2>1 DEF Settlement
  <2>7. Phases'
    BY <1>1, <1>3, <2>2 DEF Phases
  <2>. QED BY <2>3, <2>4, <2>5, <2>6, <2>7
<1>9. CASE /\ arena' = [arena EXCEPT ![at] = "none"]
           /\ books' = [books EXCEPT !.total = @ - LayerBytes]
           /\ at' = 0 /\ trouble' = trouble + 1
  <2>1. arena' \in [BankLayers -> {"none", "partial", "whole", "stray"}]
        /\ \A l \in BankLayers : arena'[l] = IF l = at THEN "none" ELSE arena[l]
    BY <1>2, <1>9 DEF BankType
  <2>2. Arenas' = Arenas \ {at} /\ Counted' = Arenas \ {at}
    BY <2>1, <1>4, <1>7 DEF Arenas, Counted
  <2>3. PICK c \in Nat : c = Cardinality(Arenas \ {at})
    BY <1>4, LayersCount
  <2>4. Cardinality(Arenas) = c + 1
    <3>1. Arenas = (Arenas \ {at}) \cup {at}
      BY <1>4
    <3>. QED BY <1>2, <1>4, <2>3, <3>1, LayersCount
  <2>5. t = LayerBytes * c + LayerBytes
    BY <1>6, <1>7, <2>4, Weigh DEF BankBooks
  <2>6. PICK n \in Nat : n = LayerBytes * c
    BY Weigh
  <2>7. books' = [total |-> n, pinned |-> 0, locked |-> 0]
    <3>1. t - LayerBytes = n
      BY <2>5, <2>6, BankSets
    <3>. QED BY <1>6, <1>9, <3>1
  <2>8. BankType'
    BY <1>1, <1>9, <1>10, <2>1, <2>7 DEF BankType
  <2>9. BankBooks'
    <3>1. Cardinality({}) = 0 /\ LayerBytes * 0 = 0 /\ PinCap \in Nat
      BY FS_EmptySet, Weigh, BankSets
    <3>2. books'.total = n /\ books'.pinned = 0 /\ books'.locked = 0
      BY <2>7
    <3>3. BankBudget > 0 => n <= BankBudget
      <4>1. BankBudget \in Nat /\ LayerBytes \in Nat
        BY BudgetType, BankSets DEF Phases
      <4>2. BankBudget > 0 => t <= BankBudget
        BY <1>6, <1>7 DEF BankBooks
      <4>. QED BY <4>1, <4>2, <2>5, <2>6
    <3>. QED BY <1>3, <1>5, <2>2, <2>3, <2>6, <3>1, <3>2, <3>3 DEF BankBooks
  <2>10. Filled'
    <3>1. \A l \in Arenas : l <= at
      BY <1>1, <1>2, <1>4 DEF Filled
    <3>2. \A l \in Arenas', k \in BankLayers : k < l /\ MoeLayers[k] => k \in Arenas'
      BY <3>1, <1>2, <1>4, <2>2 DEF Filled
    <3>. QED BY <1>7, <1>9, <1>4, <2>1, <2>2, <3>2 DEF Filled
  <2>11. Settlement'
    BY <1>1, <1>3, <2>1 DEF Settlement, HeldFor
  <2>12. Phases'
    BY <1>1, <1>3, <1>9, <2>2 DEF Phases
  <2>. QED BY <2>8, <2>9, <2>10, <2>11, <2>12
<1>. QED BY <1>8, <1>9 DEF FillLayer

\* pin() starts with empty books.
LEMMA PinBegins ==
  ASSUME Banks, PinBanks
  PROVE  Banks'
<1>. USE DEF Banks
<1>1. pc = "pin" /\ boot' = boot /\ UNCHANGED <<arena, residency, os>>
  BY DEF PinBanks, PinBegin, bankVars
<1>2. CASE UNCHANGED bankVars /\ pc' = "forward"
  BY <1>1, <1>2, BanksKept
<1>3. CASE PinBegin /\ pc' = "pinning"
  <2>1. Arenas' = Arenas /\ Counted' = Counted /\ With("pinned")' = {} /\ With("locked")' = {}
    BY <1>1 DEF Arenas, Counted, With, Settlement
  <2>2. BankBudget' = BankBudget /\ Main' = Main
    BY <1>1 DEF BankBudget, Conf, Main
  <2>3. PICK t \in Nat : books' = [total |-> t, pinned |-> 0, locked |-> 0] /\ books.total = t
    BY <1>3 DEF PinBegin, BankType
  <2>4. at' = 1
    BY <1>3 DEF PinBegin
  <2>5. BankType'
    BY <1>1, <1>3, <2>3, <2>4 DEF BankType, PinBegin
  <2>6. BankBooks'
    <3>1. Cardinality({}) = 0 /\ LayerBytes * 0 = 0 /\ PinCap \in Nat
      BY FS_EmptySet, Weigh, BankSets
    <3>2. books'.total = books.total /\ books'.pinned = 0 /\ books'.locked = 0
      BY <2>3
    <3>3. books'.total = LayerBytes * Cardinality(Counted')
      BY <2>1, <3>2 DEF BankBooks
    <3>4. /\ books'.pinned = LayerBytes * Cardinality(With("pinned")')
          /\ books'.locked = LayerBytes * Cardinality(With("locked")') /\ books'.pinned <= PinCap
      BY <2>1, <3>1, <3>2
    <3>5. BankBudget' > 0 => LayerBytes * Cardinality(Arenas') <= BankBudget'
      BY <2>1, <2>2 DEF BankBooks
    <3>. QED BY <3>3, <3>4, <3>5 DEF BankBooks
  <2>7. Filled'
    BY <1>1, <1>3, <2>1 DEF Filled, StrayIsLast, PinBegin
  <2>8. Settlement'
    BY <1>1, <1>3 DEF Settlement
  <2>9. Phases'
    BY <1>1, <1>3, <2>1, <2>2 DEF Phases
  <2>. QED BY <2>5, <2>6, <2>7, <2>8, <2>9
<1>. QED BY <1>2, <1>3 DEF PinBanks

\* The layers of a residency after layer `at` was settled: all those there were, and
\* `at` if it was settled so.
LEMMA SettledWith ==
  ASSUME Banks, pc = "pinning", at \in BankLayers, arena[at] # "none", UNCHANGED arena,
         NEW as \in {"pageable", "locked", "pinned"}, residency' = [residency EXCEPT ![at] = as],
         NEW what \in {"locked", "pinned"}
  PROVE  /\ With(what)' = IF as = what THEN With(what) \cup {at} ELSE With(what)
         /\ at \notin With(what) /\ With(what) \subseteq BankLayers
<1>. USE DEF Banks
<1>1. at \in Nat /\ residency[at] = "pageable"
  BY DEF BankType, Settlement
<1>2. \A l \in BankLayers : residency'[l] = IF l = at THEN as ELSE residency[l]
  BY DEF BankType
<1>3. \A l \in BankLayers : l \in With(what)' <=> l \in With(what) \/ (l = at /\ as = what)
  BY <1>1, <1>2 DEF With
<1>4. With(what)' \subseteq BankLayers /\ With(what) \subseteq BankLayers /\ at \notin With(what)
  BY <1>1 DEF With
<1>. QED BY <1>3, <1>4


\* settle_layer, and a layer without an arena.
LEMMA PinSettles ==
  ASSUME Banks, PinOne
  PROVE  Banks'
<1>. USE DEF Banks
<1>1. /\ pc = "pinning" /\ UNCHANGED bootVars /\ arena' = arena /\ at' = at + 1
      /\ Settle(Conf.hostPin, PinCap, BankBudget)
  BY DEF PinOne, Settle
<1>2. at \in Nat /\ Len(MoeLayers) \in Nat /\ BankLayers = 1..Len(MoeLayers) /\ at \in BankLayers
  BY BankSets DEF BankType, PinOne, Settle
<1>3. BankBudget' = BankBudget /\ Main' = Main /\ pc' = pc /\ boot' = boot
  BY <1>1 DEF BankBudget, Conf, Main, bootVars
<1>4. Arenas' = Arenas /\ Counted' = Counted
  BY <1>1 DEF Arenas, Counted
<1>8. trouble \in Nat /\ trouble' \in Nat /\ trouble' >= trouble
  BY <1>1 DEF BankType, Settle, Settled
<1>5. Filled' /\ Phases'
  BY <1>1, <1>3, <1>4, <1>8 DEF Filled, StrayIsLast, Phases
<1>6. CASE UNCHANGED <<residency, os, books>>
  <2>1. With("pinned")' = With("pinned") /\ With("locked")' = With("locked")
    BY <1>1, <1>6 DEF With
  <2>2. BankType' /\ BankBooks'
    BY <1>1, <1>2, <1>3, <1>4, <1>6, <1>8, <2>1 DEF BankType, BankBooks
  <2>3. Settlement'
    BY <1>1, <1>2, <1>3, <1>6 DEF Settlement
  <2>. QED BY <1>5, <2>2, <2>3
<1>7. CASE arena[at] # "none"
  <2>1. PICK s \in Settled(Wants(Conf.hostPin, PinCap, BankBudget)) :
           /\ residency' = [residency EXCEPT ![at] = s.as]
           /\ os' = [os EXCEPT ![at] = HeldFor(s.as)]
           /\ books' = CASE s.as = "pinned" -> [books EXCEPT !.pinned = @ + LayerBytes]
                         [] s.as = "locked" -> [books EXCEPT !.locked = @ + LayerBytes]
                         [] OTHER -> books
    BY <1>1, <1>7 DEF Settle
  <2>2. PICK as \in {"pageable", "locked", "pinned"} :
          as = s.as /\ (as = "pinned" => Wants(Conf.hostPin, PinCap, BankBudget) = "pinned")
    BY <2>1 DEF Settled, Wants
  <2>3. PICK t \in Nat, p \in Nat, k \in Nat : books = [total |-> t, pinned |-> p, locked |-> k]
    BY DEF BankType
  <2>4. books' = [total |-> t, pinned |-> IF as = "pinned" THEN p + LayerBytes ELSE p,
                  locked |-> IF as = "locked" THEN k + LayerBytes ELSE k]
    BY <2>1, <2>2, <2>3
  <2>5. residency' = [residency EXCEPT ![at] = as] /\ os' = [os EXCEPT ![at] = HeldFor(as)]
    BY <2>1, <2>2
  <2>6. /\ residency' \in [BankLayers -> {"pageable", "locked", "pinned"}]
        /\ \A l \in BankLayers : residency'[l] = IF l = at THEN as ELSE residency[l]
    BY <1>2, <2>5 DEF BankType
  <2>7. /\ os' \in [BankLayers -> {"none", "locked", "registered"}]
        /\ \A l \in BankLayers : os'[l] = IF l = at THEN HeldFor(as) ELSE os[l]
    <3>1. HeldFor(as) \in {"none", "locked", "registered"}
      BY DEF HeldFor
    <3>. QED BY <1>2, <2>5, <3>1 DEF BankType
  <2>8. as = "pinned" => p + LayerBytes <= PinCap
    BY <2>2, <2>3 DEF Wants
  <2>9. PICK P \in SUBSET BankLayers, K \in SUBSET BankLayers :
          /\ P = With("pinned") /\ K = With("locked") /\ at \notin P /\ at \notin K
          /\ With("pinned")' = IF as = "pinned" THEN P \cup {at} ELSE P
          /\ With("locked")' = IF as = "locked" THEN K \cup {at} ELSE K
    BY <1>1, <1>2, <1>7, <2>5, SettledWith
  <2>10. PICK np \in Nat, nk \in Nat : np = Cardinality(P) /\ nk = Cardinality(K)
    BY <2>9, LayersCount
  <2>11. Cardinality(P \cup {at}) = np + 1 /\ Cardinality(K \cup {at}) = nk + 1
    BY <1>2, <2>9, <2>10, LayersCount
  <2>12. p = LayerBytes * np /\ k = LayerBytes * nk /\ p <= PinCap
    BY <2>3, <2>9, <2>10 DEF BankBooks
  <2>13. /\ books'.pinned = LayerBytes * Cardinality(With("pinned")')
         /\ books'.locked = LayerBytes * Cardinality(With("locked")')
    <3>1. LayerBytes * (np + 1) = p + LayerBytes /\ LayerBytes * (nk + 1) = k + LayerBytes
      BY <2>12, Weigh
    <3>2. Cardinality(With("pinned")') = IF as = "pinned" THEN np + 1 ELSE np
      BY <2>9, <2>10, <2>11
    <3>3. Cardinality(With("locked")') = IF as = "locked" THEN nk + 1 ELSE nk
      BY <2>9, <2>10, <2>11
    <3>. QED BY <3>1, <3>2, <3>3, <2>4, <2>12
  <2>14. BankBooks'
    <3>1. books'.total = books.total
      BY <2>3, <2>4
    <3>2. books'.pinned <= PinCap
      BY <2>4, <2>8, <2>12
    <3>. QED BY <1>3, <1>4, <2>13, <3>1, <3>2 DEF BankBooks
  <2>15. BankType'
    <3>1. books' \in [total : Nat, pinned : Nat, locked : Nat]
      <4>1. p + LayerBytes \in Nat /\ k + LayerBytes \in Nat
        BY BankSets
      <4>. QED BY <2>4, <4>1
    <3>. QED BY <1>1, <1>2, <1>8, <2>6, <2>7, <3>1 DEF BankType
  <2>16. Settlement'
    <3>1. \A l \in BankLayers : os[l] = IF arena[l] # "none" THEN HeldFor(residency[l]) ELSE "none"
      BY DEF Settlement
    <3>2. \A l \in BankLayers :
            os'[l] = IF arena[l] # "none" THEN HeldFor(residency'[l]) ELSE "none"
      BY <3>1, <1>7, <2>6, <2>7
    <3>3. \A l \in BankLayers : l >= at' => residency'[l] = "pageable"
      <4>1. \A l \in BankLayers : l >= at => residency[l] = "pageable"
        BY <1>1 DEF Settlement
      <4>2. \A l \in BankLayers : l >= at + 1 => l >= at /\ l # at
        BY <1>2
      <4>. QED BY <1>1, <2>6, <4>1, <4>2
    <3>. QED BY <1>1, <1>3, <3>2, <3>3 DEF Settlement
  <2>. QED BY <1>5, <2>14, <2>15, <2>16
<1>. QED BY <1>1, <1>6, <1>7 DEF Settle

\* pin() has seen every layer.
LEMMA PinEnds ==
  ASSUME Banks, PinEnd
  PROVE  Banks'
<1>. USE DEF Banks
<1>1. pc = "pinning" /\ pc' = "forward" /\ boot' = boot /\ at' = 0
      /\ UNCHANGED <<arena, residency, os, books, trouble>>
  BY DEF PinEnd, PinDone
<1>2. /\ Arenas' = Arenas /\ Counted' = Counted
      /\ With("pinned")' = With("pinned") /\ With("locked")' = With("locked")
  BY <1>1 DEF Arenas, Counted, With
<1>3. BankBudget' = BankBudget /\ Main' = Main
  BY <1>1 DEF BankBudget, Conf, Main
<1>4. BankType' /\ BankBooks'
  BY <1>1, <1>2, <1>3 DEF BankType, BankBooks
<1>5. Filled' /\ Phases'
  BY <1>1, <1>2, <1>3 DEF Filled, StrayIsLast, Phases
<1>6. Settlement'
  BY <1>1 DEF Settlement
<1>. QED BY <1>4, <1>5, <1>6

\* free_all().
LEMMA BanksFreed ==
  ASSUME Banks, FreeAll, pc' = "fatal", boot' = boot
  PROVE  Banks'
<1>. USE DEF Banks, FreeAll
<1>1. Arenas' = {} /\ Counted' = {} /\ With("pinned")' = {} /\ With("locked")' = {}
  BY DEF Arenas, Counted, With
<1>2. Cardinality({}) = 0 /\ LayerBytes * 0 = 0 /\ PinCap \in Nat /\ BankBudget \in Nat
      /\ BankBudget' = BankBudget
  <2>1. BankBudget' = BankBudget
    BY DEF BankBudget, Conf
  <2>. QED BY <2>1, Weigh, BankSets, BudgetType, FS_EmptySet DEF Phases
<1>3. \A l \in BankLayers : os'[l] = "none"
  BY DEF Settlement, Arenas
<1>4. BankType'
  BY DEF BankType
<1>5. BankBooks'
  <2>1. books'.total = 0 /\ books'.pinned = 0 /\ books'.locked = 0
    OBVIOUS
  <2>2. /\ LayerBytes * Cardinality(Arenas') = 0 /\ LayerBytes * Cardinality(Counted') = 0
        /\ LayerBytes * Cardinality(With("pinned")') = 0
        /\ LayerBytes * Cardinality(With("locked")') = 0
    BY <1>1, <1>2
  <2>3. BankBudget' \in Nat /\ PinCap \in Nat
    BY <1>2
  <2>. QED BY <2>1, <2>2, <2>3 DEF BankBooks
<1>6. Filled' /\ Phases'
  BY <1>1 DEF Filled, Phases
<1>7. Settlement'
  BY <1>3 DEF Settlement
<1>. QED BY <1>4, <1>5, <1>6, <1>7


(***************************************************************************)
(* BanksInvariant: at every moment the counters of the host banks are the    *)
(* bytes of the arenas counted, pinned and locked, the arenas are those of   *)
(* the first MoE layers and whole but for the one a fill works on or, the    *)
(* last, the one at which a fill broke off without freeing it, within the    *)
(* budget and the cap, and the system holds what residency_ says.            *)
(* About: host_banks.cpp's allocate, fill and pin as main_int4_moe.cpp runs  *)
(* them, whichever allocations, registrations and locks fail.                *)
(***************************************************************************)
LEMMA BanksStep ==
  ASSUME Banks, StartNext
  PROVE  Banks'
<1>1. CASE ChooseMode
  BY <1>1, BanksKept DEF ChooseMode, Fatal, bankVars, Banks, Phases
<1>2. CASE EnableCuda
  BY <1>2, BanksKept DEF EnableCuda, Fatal, bankVars, Banks, Phases
<1>3. CASE OpenWeights
  BY <1>3, BanksKept DEF OpenWeights, Fatal, bankVars, Banks, Phases
<1>4. CASE LoadModel
  <2>1. NextOf(Main, mode = "layer_stream", dev.on) \in {"warm", "listen", "forward", "offload"}
        /\ (NextOf(Main, mode = "layer_stream", dev.on) = "offload" => Main = "int4moe")
    BY DEF NextOf
  <2>. QED BY <1>4, <2>1, BanksKept DEF LoadModel, Fatal, bankVars, Banks, Phases
<1>5. CASE InitOffload
  BY <1>5, BanksAllocated
<1>6. CASE FillBanks
  BY <1>6, FillSkips, FillAllocates, FillFills DEF FillBanks, Fill
<1>7. CASE ReserveSlots
  BY <1>7, BanksKept DEF ReserveSlots, bankVars, Banks, Phases
<1>8. CASE WarmInt4
  BY <1>8, BanksKept DEF WarmInt4, bankVars, Banks, Phases
<1>9. CASE WarmBf16
  BY <1>9, BanksKept DEF WarmBf16, bankVars, Banks, Phases
<1>10. CASE PinBanks
  BY <1>10, PinBegins
<1>11. CASE PinOne
  BY <1>11, PinSettles
<1>12. CASE PinEnd
  BY <1>12, PinEnds
<1>13. CASE WarmForward
  BY <1>13, BanksKept DEF WarmForward, bankVars, Banks, Phases
<1>14. CASE GlmDevice
  BY <1>14, BanksKept DEF GlmDevice, Fatal, bankVars, Banks, Phases
<1>15. CASE GlmLoad
  BY <1>15, BanksKept DEF GlmLoad, Fatal, bankVars, Banks, Phases
<1>16. CASE GlmWarm
  BY <1>16, BanksKept DEF GlmWarm, bankVars, Banks, Phases
<1>17. CASE Breaks
  <2>1. CASE Main = "int4moe"
    BY <1>17, <2>1, BanksFreed DEF Breaks, Fatal
  <2>2. CASE Main # "int4moe"
    BY <1>17, <2>2, BanksKept DEF Breaks, Fatal, bankVars, Banks, Phases
  <2>. QED BY <2>1, <2>2
<1>18. CASE Listen
  BY <1>18, BanksKept DEF Listen, bankVars, Banks, Phases
<1>. QED
  BY <1>1, <1>2, <1>3, <1>4, <1>5, <1>6, <1>7, <1>8, <1>9, <1>10, <1>11, <1>12, <1>13, <1>14,
     <1>15, <1>16, <1>17, <1>18 DEF StartNext


THEOREM BanksInvariant == Spec => []Banks
<1>1. ASSUME Banks, [Next]_vars
      PROVE  Banks'
  <2>1. CASE Starting
    BY <1>1, <2>1, BanksStep DEF Starting
  <2>2. CASE UNCHANGED <<pc, boot, bankVars>>
    <3>1. /\ Arenas' = Arenas /\ Counted' = Counted
          /\ With("pinned")' = With("pinned") /\ With("locked")' = With("locked")
      BY <2>2 DEF Arenas, Counted, With, bankVars
    <3>2. BankBudget' = BankBudget /\ Main' = Main
      BY <2>2 DEF BankBudget, Conf, Main
    <3>. QED BY <1>1, <2>2, <3>1, <3>2 DEF Banks, BankType, BankBooks, Filled, StrayIsLast,
                                           Settlement, Phases, bankVars
  <2>3. Starting \/ UNCHANGED <<pc, boot, bankVars>>
    BY <1>1 DEF Next, UserActs, Handle, Generate, Decode, Forward, GenerateEnds, GenerateThrows,
                Quiet, bootVars, vars, startVars
  <2>. QED BY <2>1, <2>2, <2>3
<1>. QED BY <1>1, BanksStart, PTL DEF Spec

\* Until the server listens and while it does, the host banks are what their
\* counters and residencies say, under the budget computed for them, with one arena
\* at most that a failed allocation left behind the whole ones, neither filled nor
\* counted; and a start-up that fails leaves nothing locked or registered
\* (host_banks.cpp, a fill that breaks off and pin()).
THEOREM BanksStayWhole == Spec => []BanksAreWhole
<1>1. ASSUME Banks PROVE BanksAreWhole
  <2>1. BankLayers = 1..Len(MoeLayers) /\ Len(MoeLayers) \in Nat
    BY BankSets
  <2>2. ASSUME NEW what PROVE Held(what) = LayerBytes * Cardinality(With(what))
    <3>1. {l \in BankLayers : residency[l] = what /\ HasLayer(l)} = With(what)
      BY DEF With, HasLayer
    <3>. QED BY <3>1 DEF Held, Quantify
  <2>3. \A l \in Arenas : \/ arena[l] = "whole"
                          \/ arena[l] = "partial" /\ l = at /\ pc = "fill"
                          \/ arena[l] = "stray" /\ trouble > 0 /\ \A k \in Arenas : k <= l
    BY <1>1 DEF Banks, Filled, StrayIsLast
  <2>4. \A l \in Arenas, k \in 1..Len(MoeLayers) : k < l /\ MoeLayers[k] => k \in Arenas
    BY <1>1, <2>1 DEF Banks, Filled
  <2>5. \A l \in BankLayers : os[l] = IF HasLayer(l) THEN HeldFor(residency[l]) ELSE "none"
    BY <1>1 DEF Banks, Settlement, HasLayer
  <2>6. BanksWhole(BankBudget, PinCap)
    BY <1>1, <2>2, <2>3, <2>4, <2>5 DEF Banks, BankBooks, BanksWhole
  <2>7. pc = "fatal" => \A l \in BankLayers : os[l] = "none" /\ arena[l] = "none"
    BY <1>1 DEF Banks, Settlement, Phases, Arenas
  <2>8. pc # "fill" => \A l \in BankLayers : arena[l] # "partial"
    BY <2>3 DEF Arenas
  <2>. QED BY <2>6, <2>7, <2>8 DEF BanksAreWhole
<1>. QED BY <1>1, BanksInvariant, PTL


(***************************************************************************)
(* The mesh.                                                               *)
(***************************************************************************)

\* The i-th of a set of ids is one of them, with i - 1 below it.
LEMMA NthIs ==
  ASSUME NEW S, S \subseteq Int, IsFiniteSet(S), NEW i \in 1..Cardinality(S)
  PROVE  Nth(S, i) \in S /\ Cardinality({e \in S : e < Nth(S, i)}) = i - 1
<1>. DEFINE Below(d) == {e \in S : e < d}
<1>1. PICK n : n = Cardinality(S)
  OBVIOUS
<1>2. n \in Nat
  BY <1>1, FS_CardinalityType
<1>3. \A d \in S : IsFiniteSet(Below(d)) /\ Cardinality(Below(d)) \in Nat
  <2>. TAKE d \in S
  <2>1. Below(d) \in SUBSET S
    OBVIOUS
  <2>. HIDE DEF Below
  <2>. QED BY <2>1, FS_Subset, FS_CardinalityType
<1>4. \A d \in S : Cardinality(Below(d)) \in 0..n - 1
  <2>. TAKE d \in S
  <2>1. Below(d) \in SUBSET (S \ {d})
    OBVIOUS
  <2>2. IsFiniteSet(S \ {d}) /\ Cardinality(S \ {d}) = n - 1
    BY <1>1, FS_RemoveElement
  <2>. HIDE DEF Below
  <2>3. Cardinality(Below(d)) <= n - 1
    BY <2>1, <2>2, FS_Subset
  <2>. QED BY <1>2, <1>3, <2>3
<1>5. \A d, c \in S : d < c => Cardinality(Below(d)) < Cardinality(Below(c))
  <2>. SUFFICES ASSUME NEW d \in S, NEW c \in S, d < c
                PROVE  Cardinality(Below(d)) < Cardinality(Below(c))
    OBVIOUS
  <2>1. Below(d) \cup {d} \in SUBSET Below(c) /\ d \notin Below(d)
    <3>1. \A e \in S : e < d => e < c
      OBVIOUS
    <3>2. \A e \in Below(d) \cup {d} : e \in Below(c)
      BY <3>1
    <3>3. d \notin Below(d)
      OBVIOUS
    <3>. HIDE DEF Below
    <3>. QED BY <3>2, <3>3
  <2>. HIDE DEF Below
  <2>2. Cardinality(Below(d) \cup {d}) = Cardinality(Below(d)) + 1
    BY <1>3, <2>1, FS_AddElement
  <2>3. Cardinality(Below(d) \cup {d}) <= Cardinality(Below(c))
    BY <1>3, <2>1, FS_Subset
  <2>. QED BY <1>3, <2>2, <2>3
<1>. DEFINE f == [d \in S |-> Cardinality(Below(d))]
<1>6. f \in Injection(S, 0..n - 1)
  <2>1. f \in [S -> 0..n - 1]
    BY <1>4
  <2>2. \A d, c \in S : f[d] = f[c] => d = c
    <3>. SUFFICES ASSUME NEW d \in S, NEW c \in S, d # c PROVE f[d] # f[c]
      OBVIOUS
    <3>1. d < c \/ c < d
      OBVIOUS
    <3>2. f[d] = Cardinality(Below(d)) /\ f[c] = Cardinality(Below(c))
      OBVIOUS
    <3>. HIDE DEF Below, f
    <3>. QED BY <1>3, <1>5, <3>1, <3>2
  <2>. HIDE DEF f
  <2>. QED BY <2>1, <2>2 DEF Injection, IsInjective
<1>7. IsFiniteSet(0..n - 1) /\ Cardinality(0..n - 1) = n
  <2>1. 0 \in Int /\ n - 1 \in Int
    BY <1>2
  <2>. QED BY <1>2, <2>1, FS_Interval
<1>8. f \in Surjection(S, 0..n - 1)
  <2>. HIDE DEF f
  <2>. QED BY <1>1, <1>6, <1>7, FS_Injection
<1>9. \E d \in S : Cardinality(Below(d)) = i - 1
  <2>1. i - 1 \in 0..n - 1
    BY <1>1, <1>2
  <2>2. \E d \in S : f[d] = i - 1
    <3>. HIDE DEF f
    <3>. QED BY <1>8, <2>1 DEF Surjection
  <2>. QED BY <2>2
<1>. QED BY <1>9 DEF Nth

LEMMA IdsAreInts ==
  ASSUME NEW ids \in Seq(Int), NEW v \in Nat
  PROVE  /\ DeviceIds(ids, v) \subseteq Int /\ IsFiniteSet(DeviceIds(ids, v))
         /\ Cardinality(DeviceIds(ids, v)) \in Nat
         /\ (\A i \in DOMAIN ids : ids[i] >= 0) => DeviceIds(ids, v) \subseteq Nat
<1>1. DOMAIN ids = 1..Len(ids) /\ Len(ids) \in Nat
  BY LenProperties
<1>2. IsFiniteSet(ToSet(ids)) /\ ToSet(ids) \subseteq Int
  <2>1. IsFiniteSet(1..Len(ids))
    BY <1>1, FS_Interval
  <2>2. ids \in Surjection(1..Len(ids), ToSet(ids))
    BY <1>1 DEF Surjection, ToSet
  <2>. QED BY <1>1, <2>1, <2>2, FS_Surjection DEF ToSet
<1>3. IsFiniteSet({0} \cup 0..v - 1) /\ IsFiniteSet({0})
  <2>1. IsFiniteSet(0..v - 1) /\ IsFiniteSet({0})
    <3>1. v - 1 \in Int /\ 0 \in Int
      OBVIOUS
    <3>. QED BY <3>1, FS_Interval, FS_Singleton
  <2>. QED BY <2>1, FS_Union
<1>4. DeviceIds(ids, v) \in {{0}, {0} \cup 0..v - 1, ToSet(ids)}
  BY DEF DeviceIds
<1>5. IsFiniteSet(DeviceIds(ids, v)) /\ DeviceIds(ids, v) \subseteq Int
  <2>1. {0} \subseteq Int /\ {0} \cup 0..v - 1 \subseteq Int
    OBVIOUS
  <2>2. \A D \in {{0}, {0} \cup 0..v - 1, ToSet(ids)} : IsFiniteSet(D) /\ D \subseteq Int
    BY <1>2, <1>3, <2>1
  <2>. QED BY <1>4, <2>2
<1>6. (\A i \in DOMAIN ids : ids[i] >= 0) => ToSet(ids) \subseteq Nat
  BY <1>1 DEF ToSet
<1>. QED BY <1>4, <1>5, <1>6, FS_CardinalityType

\* What a mesh must be: its sizes multiply to its devices, which are there.
MeshOf(m, v, spec) ==
  /\ m.ids \in Seq(Int)
  /\ m.ep * m.tp = World(m)
  /\ World(m) > 1 => m.nccl
  /\ v > 0 => \A i \in 1..World(m) : m.ids[i] \in 0..v - 1
  /\ (\A i \in DOMAIN spec.ids : spec.ids[i] >= 0) => IsInjective(m.ids)

LEMMA OneIsMesh ==
  ASSUME NEW v \in Nat, NEW spec
  PROVE  MeshOf(One, v, spec)
<1>1. One.ids = <<0>> /\ One.ep = 1 /\ One.tp = 1 /\ One.nccl = FALSE
  BY DEF One
<1>2. <<0>> \in Seq(Int) /\ Len(<<0>>) = 1 /\ <<0>>[1] = 0
  OBVIOUS
<1>3. IsInjective(<<0>>)
  BY DEF IsInjective
<1>. QED BY <1>1, <1>2, <1>3 DEF MeshOf, World

LEMMA ResolvedIsMesh ==
  ASSUME NEW spec \in MeshSpecs, NEW v \in Nat, NEW n \in BOOLEAN, NEW moe \in BOOLEAN,
         NEW m, m = ResolveMesh(spec, v, n, moe), m.ok
  PROVE  MeshOf(m, v, spec)
<1>1. spec.ids \in Seq(Int) /\ spec.nccl \in BOOLEAN
  BY DEF MeshSpecs
<1>2. PICK d : d = DeviceIds(spec.ids, v)
  OBVIOUS
<1>3. PICK w : w = Cardinality(d)
  OBVIOUS
<1>4. /\ d \subseteq Int /\ IsFiniteSet(d) /\ w \in Nat
      /\ (\A i \in DOMAIN spec.ids : spec.ids[i] >= 0) => d \subseteq Nat
  BY <1>1, <1>2, <1>3, IdsAreInts
<1>5. PICK x : x = Split(spec, Strategy(spec.strategy, w, moe, spec.hint), w)
  OBVIOUS
<1>6. PICK a : a = [i \in 1..w |-> Clamp(Nth(d, i))]
  OBVIOUS
<1>7. PICK c : c = (w > 1 /\ (n \/ ~spec.nccl))
  OBVIOUS
<1>8. PICK bad : bad = (\/ v > 0 /\ \E e \in d : Clamp(e) >= v
                        \/ x[1] * x[2] # w
                        \/ w > 1 /\ spec.nccl /\ ~n)
  OBVIOUS
<1>9. m = IF bad THEN No ELSE [ok |-> TRUE, ids |-> a, ep |-> x[1], tp |-> x[2], nccl |-> c]
  BY <1>2, <1>3, <1>5, <1>6, <1>7, <1>8, Zenon DEF ResolveMesh
<1>10. ~bad
  <2>1. bad => m = No
    BY <1>9, Zenon
  <2>2. ~No.ok
    BY DEF No
  <2>. QED BY <2>1, <2>2
<1>11. m.ids = a /\ m.ep = x[1] /\ m.tp = x[2] /\ m.nccl = c
  <2>1. m = [ok |-> TRUE, ids |-> a, ep |-> x[1], tp |-> x[2], nccl |-> c]
    BY <1>9, <1>10, Zenon
  <2>2. PICK ep, tp : ep = x[1] /\ tp = x[2]
    OBVIOUS
  <2>3. m = [ok |-> TRUE, ids |-> a, ep |-> ep, tp |-> tp, nccl |-> c]
    BY <2>1, <2>2
  <2>. HIDE <1>9, <1>8, <1>6
  <2>4. PICK g : g = [ok |-> TRUE, ids |-> a, ep |-> ep, tp |-> tp, nccl |-> c]
    OBVIOUS
  <2>5. g.ids = a /\ g.ep = ep /\ g.tp = tp /\ g.nccl = c
    BY <2>4
  <2>. QED BY <2>2, <2>3, <2>4, <2>5
<1>12. x[1] * x[2] = w /\ (v > 0 => \A e \in d : ~(Clamp(e) >= v)) /\ (w > 1 => c)
  BY <1>1, <1>7, <1>8, <1>10
<1>13. \A i \in 1..w : Nth(d, i) \in d /\ Cardinality({e \in d : e < Nth(d, i)}) = i - 1
  BY <1>3, <1>4, NthIs
<1>0. \A e \in Int : Clamp(e) \in Nat /\ (e \in Nat => Clamp(e) = e)
  BY DEF Clamp
<1>14. \A i \in 1..w : a[i] = Clamp(Nth(d, i)) /\ a[i] \in Nat
  <2>1. \A i \in 1..w : a[i] = Clamp(Nth(d, i))
    BY <1>6
  <2>. QED BY <1>0, <1>4, <1>13, <2>1
<1>15. a \in Seq(Int) /\ Len(a) = w /\ DOMAIN a = 1..w
  <2>1. a \in [1..w -> Int]
    BY <1>6, <1>14
  <2>. QED BY <1>4, <2>1
<1>16. v > 0 => \A i \in 1..w : a[i] \in 0..v - 1
  <2>. SUFFICES ASSUME v > 0, NEW i \in 1..w
                PROVE  a[i] \in 0..v - 1
    OBVIOUS
  <2>1. PICK e \in d : e = Nth(d, i)
    BY <1>13
  <2>. QED BY <1>12, <1>14, <2>1
<1>17. (\A i \in DOMAIN spec.ids : spec.ids[i] >= 0) => IsInjective(a)
  <2>. SUFFICES ASSUME d \subseteq Nat, NEW i \in 1..w, NEW j \in 1..w, a[i] = a[j]
                PROVE  i = j
    BY <1>4, <1>15 DEF IsInjective
  <2>1. Nth(d, i) = Nth(d, j)
    <3>1. PICK e \in d, g \in d : e = Nth(d, i) /\ g = Nth(d, j)
      BY <1>13
    <3>2. Clamp(e) = e /\ Clamp(g) = g
      BY <1>0, <1>4
    <3>. QED BY <1>14, <3>1, <3>2
  <2>2. i - 1 = j - 1
    BY <1>13, <2>1
  <2>. QED BY <1>4, <2>2
<1>. QED BY <1>11, <1>12, <1>15, <1>16, <1>17 DEF MeshOf, World

LEMMA ForModeIsMesh ==
  ASSUME NEW mo, NEW spec \in MeshSpecs, NEW v \in Nat, NEW n \in BOOLEAN, NEW moe \in BOOLEAN,
         NEW m, m = ResolveMeshForMode(mo, spec, v, n, moe), m.ok
  PROVE  MeshOf(m, v, spec) /\ (World(m) > 1 => OnDevice(mo))
<1>1. CASE ~OnDevice(mo)
  <2>1. m = One
    BY <1>1 DEF ResolveMeshForMode
  <2>2. World(One) = 1
    <3>1. One.ids = <<0>> /\ Len(<<0>>) = 1
      BY DEF One
    <3>. QED BY <3>1 DEF World
  <2>. QED BY <2>1, <2>2, OneIsMesh
<1>2. CASE OnDevice(mo)
  <2>1. PICK s : s = IF mo = "hybrid_gpu" /\ spec.strategy = "auto" /\ Len(spec.ids) > 1
                     THEN [spec EXCEPT !.strategy = "tp", !.hint = FALSE] ELSE spec
    OBVIOUS
  <2>2. s \in MeshSpecs /\ s.ids = spec.ids
    BY <2>1 DEF MeshSpecs
  <2>3. m = ResolveMesh(s, v, n, moe)
    BY <1>2, <2>1 DEF ResolveMeshForMode
  <2>4. MeshOf(m, v, s)
    BY <2>2, <2>3, ResolvedIsMesh
  <2>. QED BY <1>2, <2>2, <2>4 DEF MeshOf
<1>. QED BY <1>1, <1>2


(***************************************************************************)
(* What start-up keeps on its way to listen().                             *)
(***************************************************************************)

Places == {"mode", "enable", "open", "load", "offload", "fill", "warm", "pin", "pinning", "forward",
           "listen", "listening", "fatal"}

\* The mode is the one asked for, and the device is on where it calls for it.
ModeKept ==
  /\ pc \in Places
  /\ pc = "mode" => mode = "none" /\ mesh = One
  /\ Conf.req = "pure_gpu" /\ pc \notin {"mode", "fatal"} => mode = "pure_gpu"
  /\ OnDevice(mode) \/ dev.on => Cuda
  /\ pc = "enable" => Main # "glm" /\ Asks(mode)
  /\ dev.on => OnDevice(mode) \/ (mode = "layer_stream" /\ Int4 /\ Conf.streamCuda)
  /\ pc \notin {"mode", "enable", "fatal"} =>
       /\ Main # "glm" /\ Asks(mode) => dev.on
       /\ Main = "glm" /\ OnDevice(mode) => dev.on \/ ~Machine.cublas
  /\ Main = "glm" => mode # "layer_stream"

MeshKept == MeshOf(mesh, Visible, Conf.spec) /\ (World(mesh) > 1 => OnDevice(mode))

\* The budget but for the reserve, which the warm-up does without, and the INT4
\* MoE server adds even if it could not be subtracted.
BaseBudget == IF OnDevice(mode) THEN Want ELSE Conf.vram
Budgeted(r) == IF pc = "warm" THEN (IF held THEN BaseBudget - r ELSE BaseBudget)
               ELSE IF held THEN BaseBudget ELSE BaseBudget + r
BudgetKept ==
  /\ pc \in {"mode", "enable", "open", "load", "offload", "fill"} => reserve = 0 /\ ~held
  /\ pc \in {"mode", "enable", "open", "load", "offload", "fill", "warm"} => dev.used = 0
  /\ Main # "int4moe" \/ streaming => reserve = 0 /\ ~held
  /\ dev.on => dev.budget = Budgeted(reserve)
  /\ dev.used <= dev.budget \/ Machine.env = "1"
  /\ pc # "warm" /\ held /\ ~dev.resident => dev.budget - dev.used >= reserve

\* The model is of the family served, and streams if the mode says so.
ModelKept ==
  /\ streaming \in BOOLEAN
  /\ pc \in {"mode", "enable", "open", "load"} => ~streaming
  /\ pc = "load" => Main # "glm" /\ (Int4 => Conf.file \in DOMAIN Contents)
  /\ pc \in {"offload", "fill"} => Main = "int4moe" /\ ~streaming
  /\ pc \notin {"mode", "enable", "open", "load", "fatal"} =>
       /\ family = (IF Main = "glm" THEN "glm" ELSE Serves)
       /\ streaming = (mode = "layer_stream")
       /\ LayersAsServed
  /\ left => Main = "int4moe"

\* Only the GLM server's executor uploads experts, of a plan with a budget.
PoolKept == pool.bound => Main = "glm" /\ Conf.vram > 0

AsConfigured == StartType /\ ModeKept /\ MeshKept /\ BudgetKept /\ ModelKept /\ PoolKept

LEMMA BootFacts ==
  ASSUME boot \in Boots
  PROVE  /\ Conf.spec \in MeshSpecs /\ GlmSpec \in MeshSpecs
         /\ Visible \in Nat /\ Machine.cublas \in BOOLEAN /\ Machine.nccl \in BOOLEAN
         /\ Cuda \in BOOLEAN /\ (Cuda => Visible = Machine.gpus /\ Visible > 0)
         /\ Main = "glm" => Conf.req \in {"pure_cpu", "hybrid_gpu", "pure_gpu"}
         /\ MoeMain \in BOOLEAN
<1>1. Conf \in Configs /\ Machine \in Boxes
  BY StartupAssumption DEF Conf, Machine
<1>2. Conf.spec \in MeshSpecs
  BY <1>1 DEF Configs
<1>3. GlmSpec \in MeshSpecs
  <2>1. <<0>> \in Seq(Int)
    OBVIOUS
  <2>. QED BY <2>1 DEF GlmSpec, MeshSpecs
<1>4. Machine.cuda \in BOOLEAN /\ Machine.cublas \in BOOLEAN /\ Machine.nccl \in BOOLEAN /\ Machine.gpus \in Nat
  BY <1>1 DEF Boxes
<1>5. Machine.cuda => Machine.gpus > 0
  BY StartupAssumption DEF Machine
<1>6. Main = "glm" => Conf.req \in {"pure_cpu", "hybrid_gpu", "pure_gpu"}
  BY StartupAssumption DEF Main, Conf
<1>. QED BY <1>2, <1>3, <1>4, <1>5, <1>6 DEF Visible, Cuda, MoeMain

LEMMA ConfiguredInit == Init => AsConfigured
<1>. SUFFICES ASSUME Init PROVE AsConfigured
  OBVIOUS
<1>1. /\ boot \in Boots /\ pc = "mode" /\ mode = "none" /\ mesh = One /\ streaming = FALSE
      /\ reserve = 0 /\ held = FALSE /\ left = FALSE
      /\ dev = [on |-> FALSE, budget |-> 0, used |-> 0, resident |-> FALSE]
      /\ pool = EmptyPool
  BY DEF Init, StartInit, DevInit, GlmInit
<1>2. dev.on = FALSE /\ dev.budget = 0 /\ dev.used = 0 /\ dev \in Books
  BY <1>1 DEF Books
<1>3. ~OnDevice(mode)
  BY <1>1 DEF OnDevice
<1>4. ModeKept
  BY <1>1, <1>2, <1>3 DEF ModeKept, Places
<1>5. MeshKept
  <2>1. World(One) = 1
    <3>1. One.ids = <<0>> /\ Len(<<0>>) = 1
      BY DEF One
    <3>. QED BY <3>1 DEF World
  <2>. QED BY <1>1, <2>1, BootFacts, OneIsMesh DEF MeshKept
<1>6. BudgetKept
  BY <1>1, <1>2 DEF BudgetKept
<1>7. ModelKept
  BY <1>1 DEF ModelKept
<1>8. PoolKept
  BY <1>1 DEF PoolKept, EmptyPool
<1>. QED BY <1>1, <1>2, <1>4, <1>5, <1>6, <1>7, <1>8 DEF AsConfigured, StartType

\* A step that only passes on to another stretch.
LEMMA PassesOn ==
  ASSUME AsConfigured, UNCHANGED <<boot, mode, mesh, streaming, family, reserve, held, dev, pool>>,
         left' => left \/ Main = "int4moe",
         \/ pc' = pc
         \/ pc' = "fatal" /\ pc # "warm"
         \/ <<pc, pc'>> \in {<<"offload", "fill">>, <<"pin", "pinning">>, <<"pin", "forward">>,
                             <<"pinning", "forward">>, <<"forward", "listen">>,
                             <<"listen", "listening">>}
  PROVE  AsConfigured'
<1>1. /\ Conf' = Conf /\ Main' = Main /\ Machine' = Machine /\ Cuda' = Cuda /\ Int4' = Int4
      /\ Visible' = Visible /\ Want' = Want /\ BaseBudget' = BaseBudget
      /\ Serves' = Serves /\ LayersAsServed' = LayersAsServed /\ Asks(mode)' = Asks(mode)
  BY DEF Conf, Main, Machine, Cuda, Int4, Visible, Want, BaseBudget, Serves, MoeMain,
         LayersAsServed, Asks
<1>2. StartType'
  BY DEF AsConfigured, StartType
<1>3. ModeKept'
  BY <1>1 DEF AsConfigured, ModeKept, Places
<1>4. MeshKept'
  BY <1>1 DEF AsConfigured, MeshKept
<1>5. BudgetKept'
  <2>1. Budgeted(reserve)' = Budgeted(reserve)
    BY <1>1 DEF Budgeted
  <2>. QED BY <1>1, <2>1 DEF AsConfigured, BudgetKept
<1>6. ModelKept'
  BY <1>1 DEF AsConfigured, ModelKept
<1>7. PoolKept'
  BY <1>1 DEF AsConfigured, PoolKept
<1>. QED BY <1>2, <1>3, <1>4, <1>5, <1>6, <1>7 DEF AsConfigured

LEMMA SameBoot ==
  ASSUME UNCHANGED boot
  PROVE  /\ Conf' = Conf /\ Main' = Main /\ Machine' = Machine /\ Cuda' = Cuda /\ Int4' = Int4
         /\ Visible' = Visible /\ Want' = Want /\ Serves' = Serves
         /\ LayersAsServed' = LayersAsServed
BY DEF Conf, Main, Machine, Cuda, Int4, Visible, Want, Serves, MoeMain, LayersAsServed

LEMMA ChooseModeKeeps ==
  ASSUME AsConfigured, ChooseMode, pool' = pool
  PROVE  AsConfigured'
<1>. USE DEF AsConfigured
<1>1. PICK m : m = IF Asks(Chosen)
                   THEN ResolveMeshForMode(Chosen, Conf.spec, Visible, Machine.nccl, MoeMain)
                   ELSE One
  OBVIOUS
<1>2. CASE (Conf.req = "pure_gpu" /\ ~Cuda) \/ ~m.ok \/ MakeExec(Chosen, m) = "none"
  <2>1. pc' = "fatal" /\ pc = "mode"
        /\ UNCHANGED <<boot, mode, mesh, streaming, family, reserve, held, dev, left>>
    BY <1>1, <1>2 DEF ChooseMode, Fatal
  <2>. QED BY <2>1, PassesOn
<1>3. CASE ~((Conf.req = "pure_gpu" /\ ~Cuda) \/ ~m.ok \/ MakeExec(Chosen, m) = "none")
  <2>1. /\ pc = "mode" /\ Main # "glm" /\ mode' = Chosen /\ mesh' = m
        /\ pc' = IF Asks(Chosen) THEN "enable" ELSE "open"
        /\ UNCHANGED <<boot, streaming, family, reserve, held, left, dev>>
    BY <1>1, <1>3 DEF ChooseMode
  <2>2. ~dev.on /\ ~OnDevice(mode)
    BY <2>1 DEF ModeKept, OnDevice
  <2>3. boot \in Boots
    BY DEF StartType
  <2>4. /\ Conf.req = "pure_gpu" => Chosen = "pure_gpu"
        /\ OnDevice(Chosen) => Cuda
    <3>1. Conf \in Configs /\ Conf.req \in Modes \cup {"auto"}
      BY <2>3, BootTypes DEF Configs
    <3>. QED BY <1>3, <3>1, BootFacts, <2>3 DEF Chosen, ResolveMode, AutoStream, OnDevice, Modes
  <2>5. MeshOf(m, Visible, Conf.spec) /\ (World(m) > 1 => OnDevice(Chosen))
    <3>1. CASE Asks(Chosen)
      BY <1>1, <1>3, <2>3, <3>1, BootFacts, ForModeIsMesh
    <3>2. CASE ~Asks(Chosen)
      <4>1. World(One) = 1
        <5>1. One.ids = <<0>> /\ Len(<<0>>) = 1
          BY DEF One
        <5>. QED BY <5>1 DEF World
      <4>. QED BY <1>1, <2>3, <3>2, <4>1, BootFacts, OneIsMesh
    <3>. QED BY <3>1, <3>2
  <2>6. StartType'
    BY <2>1 DEF StartType
  <2>7. ModeKept'
    <3>1. Asks(mode)' = Asks(Chosen)
      BY <2>1, SameBoot DEF Asks
    <3>2. Asks(Chosen) => OnDevice(Chosen)
      BY DEF Asks
    <3>. QED BY <2>1, <2>2, <2>4, <3>1, <3>2, SameBoot DEF ModeKept, Places
  <2>8. MeshKept'
    BY <2>1, <2>5, SameBoot DEF MeshKept
  <2>9. BudgetKept'
    BY <2>1, <2>2, SameBoot DEF BudgetKept
  <2>10. ModelKept'
    BY <2>1, SameBoot DEF ModelKept
  <2>11. PoolKept'
    BY <2>1, SameBoot DEF PoolKept
  <2>. QED BY <2>6, <2>7, <2>8, <2>9, <2>10, <2>11
<1>. QED BY <1>2, <1>3

LEMMA EnableCudaKeeps ==
  ASSUME AsConfigured, EnableCuda, pool' = pool
  PROVE  AsConfigured'
<1>. USE DEF AsConfigured
<1>1. /\ pc = "enable" /\ dev' = Enabled(dev, Want, Machine.cublas) /\ pc' \in {"open", "fatal"}
      /\ pc' = "open" => Machine.cublas
      /\ UNCHANGED <<boot, mode, mesh, streaming, family, reserve, held, left>>
  BY DEF EnableCuda, Fatal
<1>2. boot \in Boots /\ dev \in Books
  BY DEF StartType
<1>3. Want \in Nat /\ Machine.cublas \in BOOLEAN
  BY <1>2, BootTypes, BootFacts
<1>4. /\ dev' \in Books /\ dev'.budget = Want /\ dev'.used = dev.used
      /\ dev'.on = (dev.on \/ Machine.cublas)
  BY <1>1, <1>2, <1>3 DEF Enabled, Books
<1>5. StartType'
  BY <1>1, <1>4 DEF StartType
<1>6. Asks(mode)' = Asks(mode)
  BY <1>1, SameBoot DEF Asks
<1>7. OnDevice(mode) /\ Main # "glm" /\ Cuda
  BY <1>1 DEF ModeKept, Asks
<1>8. ModeKept'
  BY <1>1, <1>4, <1>6, <1>7, SameBoot DEF ModeKept, Places
<1>9. MeshKept'
  BY <1>1, SameBoot DEF MeshKept
<1>10. BudgetKept'
  <2>1. reserve = 0 /\ ~held /\ dev.used = 0
    BY <1>1 DEF BudgetKept
  <2>2. BaseBudget' = Want
    BY <1>1, <1>7, SameBoot DEF BaseBudget
  <2>3. Budgeted(reserve)' = Want
    BY <1>1, <1>3, <2>1, <2>2 DEF Budgeted
  <2>. QED BY <1>1, <1>3, <1>4, <2>1, <2>3 DEF BudgetKept
<1>11. ModelKept'
  BY <1>1, SameBoot DEF ModelKept
<1>12. PoolKept'
  BY <1>1, SameBoot DEF PoolKept
<1>. QED BY <1>5, <1>8, <1>9, <1>10, <1>11, <1>12

LEMMA OpenWeightsKeeps ==
  ASSUME AsConfigured, OpenWeights, pool' = pool
  PROVE  AsConfigured'
<1>. USE DEF AsConfigured
<1>1. /\ pc = "open" /\ Main # "glm" /\ pc' \in {"load", "fatal"}
      /\ UNCHANGED <<boot, mode, mesh, streaming, family, reserve, held, left>>
  BY DEF OpenWeights, Fatal
<1>2. boot \in Boots /\ dev \in Books
  BY DEF StartType
<1>3. Conf.vram \in Nat /\ Machine.cublas \in BOOLEAN
  BY <1>2, BootTypes, BootFacts
<1>0. reserve = 0 /\ ~held /\ dev.used = 0
  BY <1>1 DEF BudgetKept
<1>4. /\ dev' \in Books /\ dev'.used = 0
      /\ dev.on => dev'.on
      /\ dev' # dev => mode = "layer_stream" /\ Int4 /\ Conf.streamCuda /\ Cuda /\ dev'.budget = Conf.vram
  <2>1. CASE Int4 /\ mode = "layer_stream" /\ Conf.streamCuda /\ Cuda
    <3>1. dev' = Enabled(dev, Conf.vram, Machine.cublas)
      BY <2>1 DEF OpenWeights
    <3>. QED BY <1>0, <1>2, <1>3, <2>1, <3>1 DEF Enabled, Books
  <2>2. CASE ~(Int4 /\ mode = "layer_stream" /\ Conf.streamCuda /\ Cuda)
    <3>1. dev' = dev
      BY <2>2 DEF OpenWeights
    <3>. QED BY <1>0, <1>2, <3>1
  <2>. QED BY <2>1, <2>2
<1>5. StartType'
  BY <1>1, <1>4 DEF StartType
<1>6. Asks(mode)' = Asks(mode)
  BY <1>1, SameBoot DEF Asks
<1>7. ModeKept'
  BY <1>1, <1>4, <1>6, SameBoot DEF ModeKept, Places
<1>9. MeshKept'
  BY <1>1, SameBoot DEF MeshKept
<1>10. BudgetKept'
  <2>1. Budgeted(reserve)' = Budgeted(reserve)
    BY <1>0, <1>1, SameBoot DEF Budgeted, BaseBudget
  <2>2. mode = "layer_stream" => Budgeted(reserve) = Conf.vram
    BY <1>0, <1>1, <1>3 DEF Budgeted, BaseBudget, OnDevice
  <2>3. dev'.on => dev'.budget = Budgeted(reserve)
    BY <1>1, <1>4, <2>2 DEF BudgetKept
  <2>4. dev'.used <= dev'.budget
    BY <1>4 DEF Books
  <2>. QED BY <1>0, <1>1, <1>4, <2>1, <2>3, <2>4 DEF BudgetKept
<1>11. ModelKept'
  <2>1. pc' = "load" /\ Int4 => Conf.file \in DOMAIN Contents
    BY DEF OpenWeights, Fatal, Reads
  <2>. QED BY <1>1, <2>1, SameBoot DEF ModelKept
<1>12. PoolKept'
  BY <1>1, SameBoot DEF PoolKept
<1>. QED BY <1>5, <1>7, <1>9, <1>10, <1>11, <1>12

LEMMA LoadModelKeeps ==
  ASSUME AsConfigured, LoadModel, pool' = pool
  PROVE  AsConfigured'
<1>. USE DEF AsConfigured
<1>1. CASE Family(Conf.file) # Serves \/ (Int4 /\ ~Loads(Contents[Conf.file]))
  <2>1. pc' = "fatal" /\ pc = "load"
        /\ UNCHANGED <<boot, mode, mesh, streaming, family, reserve, held, dev, left>>
    BY <1>1 DEF LoadModel, Fatal
  <2>. QED BY <2>1, PassesOn
<1>2. CASE ~(Family(Conf.file) # Serves \/ (Int4 /\ ~Loads(Contents[Conf.file])))
  <2>1. /\ pc = "load" /\ family' = Family(Conf.file) /\ family' = Serves
        /\ streaming' = (mode = "layer_stream")
        /\ pc' = NextOf(Main, mode = "layer_stream", dev.on)
        /\ Int4 => Loads(Contents[Conf.file])
        /\ UNCHANGED <<boot, mode, mesh, reserve, held, left, dev>>
    BY <1>2 DEF LoadModel
  <2>2. /\ pc' \in {"warm", "listen", "offload", "forward"}
        /\ pc' = "offload" => Main = "int4moe" /\ ~streaming'
    BY <2>1 DEF NextOf
  <2>3. boot \in Boots
    BY DEF StartType
  <2>4. StartType'
    BY <2>1 DEF StartType
  <2>5. ModeKept'
    <3>1. Asks(mode)' = Asks(mode)
      BY <2>1, SameBoot DEF Asks
    <3>. QED BY <2>1, <2>2, <3>1, SameBoot DEF ModeKept, Places
  <2>6. MeshKept'
    BY <2>1, SameBoot DEF MeshKept
  <2>7. BudgetKept'
    <3>1. reserve = 0 /\ ~held /\ dev.used = 0
      BY <2>1 DEF BudgetKept
    <3>2. BaseBudget' = BaseBudget /\ BaseBudget \in Nat
      BY <2>1, <2>3, SameBoot, BootTypes DEF BaseBudget
    <3>3. Budgeted(reserve)' = Budgeted(reserve)
      BY <2>1, <2>2, <3>1, <3>2 DEF Budgeted
    <3>. QED BY <2>1, <2>2, <3>1, <3>3, SameBoot DEF BudgetKept
  <2>8. LayersAsServed
    <3>. SUFFICES ASSUME Main = "int4",
                         NEW l \in DOMAIN Contents[Conf.file].layers,
                         Contents[Conf.file].layers[l] = "moe"
                  PROVE  /\ ~Contents[Conf.file].experts
                         /\ Contents[Conf.file].layers[1] = "dense"
      BY DEF LayersAsServed
    <3>1. Int4 /\ Serves = "dense"
      BY DEF Int4, Serves, MoeMain
    <3>2. ~LooksMoe(Conf.file)
      BY <2>1, <3>1 DEF Family
    <3>3. LayerPacks(Contents[Conf.file])
      BY <2>1, <3>1 DEF Loads
    <3>4. PICK s : s = Contents[Conf.file].layers
      OBVIOUS
    <3>5. Conf.file \in DOMAIN Contents
      BY <2>1, <3>1 DEF ModelKept
    <3>6. s \in Seq(STRING)
      BY <3>4, <3>5, StartupAssumption
    <3>7. 1 \in DOMAIN s
      BY <3>4, <3>6, LenProperties
    <3>8. s[1] \in {"dense", "moe"}
      BY <3>3, <3>4, <3>7 DEF LayerPacks
    <3>. QED BY <3>2, <3>4, <3>8 DEF LooksMoe
  <2>9. ModelKept'
    BY <2>1, <2>2, <2>8, SameBoot DEF ModelKept
  <2>10. PoolKept'
    BY <2>1, SameBoot DEF PoolKept
  <2>. QED BY <2>4, <2>5, <2>6, <2>7, <2>9, <2>10
<1>. QED BY <1>1, <1>2

LEMMA ReserveSlotsKeeps ==
  ASSUME AsConfigured, ReserveSlots, pool' = pool
  PROVE  AsConfigured'
<1>. USE DEF AsConfigured
<1>1. /\ pc = "fill" /\ reserve' = MoeSlots(Conf.slots, Conf.experts, Conf.overlap)
      /\ held' = (dev.on /\ reserve' > 0 /\ dev.budget > reserve')
      /\ dev' = IF held' THEN [dev EXCEPT !.budget = @ - reserve'] ELSE dev
      /\ pc' = IF dev.on THEN "warm" ELSE "pin"
      /\ UNCHANGED <<boot, mode, mesh, streaming, family, left>>
  BY DEF ReserveSlots
<1>2. reserve' \in Nat /\ StartType'
  <2>1. reserve' \in Nat
    BY <1>1, SlotsType
  <2>. QED BY <2>1, StartTypeStep DEF StartNext
<1>3. Main = "int4moe" /\ ~streaming /\ reserve = 0 /\ ~held /\ dev.used = 0 /\ dev \in Books
  BY <1>1 DEF BudgetKept, ModelKept, StartType
<1>4. boot \in Boots
  BY DEF StartType
<1>5. dev'.on = dev.on /\ dev'.used = 0 /\ dev'.budget = IF held' THEN dev.budget - reserve' ELSE dev.budget
  <2>1. CASE held'
    BY <1>1, <1>3, <2>1 DEF Books
  <2>2. CASE ~held'
    BY <1>1, <1>3, <2>2
  <2>. QED BY <2>1, <2>2
<1>6. held' => dev.on /\ dev.budget > reserve'
  BY <1>1
<1>7. (pc' = "warm" /\ dev.on) \/ (pc' = "pin" /\ ~dev.on)
  <2>1. pc' = IF dev.on THEN "warm" ELSE "pin"
    BY <1>1
  <2>2. CASE dev.on
    BY <2>1, <2>2
  <2>3. CASE ~dev.on
    BY <2>1, <2>3
  <2>. QED BY <2>2, <2>3
<1>8. ModeKept'
  <2>1. Asks(mode)' = Asks(mode)
    BY <1>1, SameBoot DEF Asks
  <2>. QED BY <1>1, <1>5, <1>7, <2>1, SameBoot DEF ModeKept, Places
<1>9. MeshKept'
  BY <1>1, SameBoot DEF MeshKept
<1>10. BudgetKept'
  <2>1. BaseBudget' = BaseBudget /\ BaseBudget \in Nat
    BY <1>1, <1>4, SameBoot, BootTypes DEF BaseBudget
  <2>2. dev.on => dev.budget = BaseBudget
    BY <1>1, <1>3, <2>1 DEF BudgetKept, Budgeted
  <2>3. dev'.on => dev'.budget = Budgeted(reserve)'
    BY <1>5, <1>7, <2>1, <2>2 DEF Budgeted
  <2>4. dev'.used <= dev'.budget
    BY <1>2, <1>5 DEF StartType, Books
  <2>. QED BY <1>1, <1>3, <1>5, <1>6, <1>7, <2>3, <2>4, SameBoot DEF BudgetKept
<1>11. ModelKept'
  BY <1>1, <1>7, SameBoot DEF ModelKept
<1>12. PoolKept'
  BY <1>1, SameBoot DEF PoolKept
<1>. QED BY <1>2, <1>8, <1>9, <1>10, <1>11, <1>12

\* Uploads stay within the budget.
LEMMA ChargedStays ==
  ASSUME NEW d \in Books, NEW n \in Nat, NEW c, c = Charged(d, n)
  PROVE  /\ c \in Books /\ c.on = d.on /\ c.budget = d.budget /\ c.resident = d.resident
         /\ d.used <= d.budget => c.used <= c.budget
         /\ d.used <= c.used
<1>1. CASE d.on /\ d.used + n <= d.budget
  <2>1. c = [d EXCEPT !.used = @ + n]
    BY <1>1, Zenon DEF Charged
  <2>2. PICK u \in Nat : u = d.used + n
    BY DEF Books
  <2>3. c = [d EXCEPT !.used = u]
    BY <2>1, <2>2
  <2>4. d.used <= u /\ u <= d.budget
    BY <1>1, <2>2 DEF Books
  <2>. QED BY <2>3, <2>4 DEF Books
<1>2. CASE ~(d.on /\ d.used + n <= d.budget)
  <2>1. c = d
    BY <1>2, Zenon DEF Charged
  <2>. QED BY <2>1 DEF Books
<1>. QED BY <1>1, <1>2

LEMMA ResideStays ==
  ASSUME NEW d \in Books, NEW n \in Nat, NEW e, NEW j, NEW c, c = Reside(d, n, e, j)
  PROVE  /\ c.on = d.on /\ c.budget = d.budget
         /\ d.used <= d.budget /\ d.budget > 0 => c.used <= c.budget \/ e = "1"
         /\ ~c.resident => c.used = d.used
<1>1. CASE MayReside(d, n, e, j)
  <2>1. c = [d EXCEPT !.used = @ + n, !.resident = TRUE]
    BY <1>1, Zenon DEF Reside
  <2>2. e = "1" \/ d.budget = 0 \/ d.used + n <= d.budget
    BY <1>1 DEF MayReside
  <2>. QED BY <2>1, <2>2 DEF Books
<1>2. CASE ~MayReside(d, n, e, j)
  <2>1. c = [d EXCEPT !.resident = FALSE]
    BY <1>2, Zenon DEF Reside
  <2>. QED BY <2>1 DEF Books
<1>. QED BY <1>1, <1>2

LEMMA WarmInt4Keeps ==
  ASSUME AsConfigured, WarmInt4, pool' = pool
  PROVE  AsConfigured'
<1>. USE DEF AsConfigured
<1>1. /\ pc = "warm" /\ Int4
      /\ pc' = IF Main = "int4moe" THEN "pin" ELSE "forward"
      /\ UNCHANGED <<boot, mode, mesh, streaming, family, reserve, held, left>>
  BY DEF WarmInt4
<1>2. PICK n \in WarmedInt4(dev) :
        LET d == GivenBack(Charged(dev, n))
        IN dev' = IF Healthy(n) THEN Reside(d, Workspace, Machine.env, Machine.jit)
                  ELSE [d EXCEPT !.resident = FALSE]
  BY DEF WarmInt4
<1>3. StartType'
  BY StartTypeStep DEF StartNext
<1>4. dev \in Books /\ reserve \in Nat /\ boot \in Boots /\ Workspace \in Nat
  BY StartupAssumption DEF StartType
<1>5. n \in Nat /\ dev.used = 0 /\ n <= dev.budget
  <2>1. n \in Nat /\ dev.used + n <= dev.budget
    BY DEF WarmedInt4
  <2>2. dev.used = 0
    BY <1>1 DEF BudgetKept
  <2>. QED BY <1>4, <2>1, <2>2 DEF Books
<1>6. PICK c : c = Charged(dev, n)
  OBVIOUS
<1>7. /\ c \in Books /\ c.on = dev.on /\ c.budget = dev.budget /\ c.resident = dev.resident
      /\ c.used <= c.budget
  BY <1>4, <1>5, <1>6, ChargedStays DEF Books
<1>8. PICK d : d = GivenBack(c)
  OBVIOUS
<1>9. /\ d \in Books /\ d.on = dev.on /\ d.budget = dev.budget + reserve /\ d.used = c.used
      /\ d.resident = c.resident
  <2>1. CASE reserve > 0
    <3>1. d = [c EXCEPT !.budget = @ + reserve]
      BY <1>8, <2>1, Zenon DEF GivenBack
    <3>. QED BY <1>4, <1>7, <3>1 DEF Books
  <2>2. CASE ~(reserve > 0)
    <3>1. d = c
      BY <1>8, <2>2, Zenon DEF GivenBack
    <3>. QED BY <1>4, <1>7, <2>2, <3>1 DEF Books
  <2>. QED BY <2>1, <2>2
<1>10. /\ dev'.on = dev.on /\ dev'.budget = dev.budget + reserve
       /\ dev'.used <= dev'.budget \/ Machine.env = "1"
       /\ ~dev'.resident => dev'.used <= dev.budget
  <2>1. d.used <= dev.budget /\ d.used <= d.budget /\ d.used \in Nat /\ d.budget \in Nat /\ dev.budget \in Nat
    BY <1>4, <1>7, <1>9 DEF Books
  <2>2. CASE Healthy(n)
    <3>1. dev' = Reside(d, Workspace, Machine.env, Machine.jit)
      BY <1>2, <1>6, <1>8, <2>2
    <3>2. d.budget > 0
      BY <1>4, <1>5, <1>9, <2>1, <2>2 DEF Healthy
    <3>. QED BY <1>4, <1>9, <2>1, <3>1, <3>2, ResideStays
  <2>3. CASE ~Healthy(n)
    <3>1. dev' = [d EXCEPT !.resident = FALSE]
      BY <1>2, <1>6, <1>8, <2>3
    <3>. QED BY <1>9, <2>1, <3>1 DEF Books
  <2>. QED BY <2>2, <2>3
<1>11. pc' \in {"pin", "forward"}
  BY <1>1
<1>12. ModeKept'
  <2>1. Asks(mode)' = Asks(mode)
    BY <1>1, SameBoot DEF Asks
  <2>. QED BY <1>1, <1>10, <1>11, <2>1, SameBoot DEF ModeKept, Places
<1>13. MeshKept'
  BY <1>1, SameBoot DEF MeshKept
<1>14. BudgetKept'
  <2>1. BaseBudget' = BaseBudget /\ BaseBudget \in Nat
    BY <1>1, <1>4, SameBoot, BootTypes DEF BaseBudget
  <2>2. dev.on => dev.budget = IF held THEN BaseBudget - reserve ELSE BaseBudget
    BY <1>1 DEF BudgetKept, Budgeted
  <2>3. Budgeted(reserve)' = IF held THEN BaseBudget ELSE BaseBudget + reserve
    BY <1>1, <1>11, <2>1 DEF Budgeted
  <2>4. dev'.on => dev'.budget = Budgeted(reserve)'
    BY <1>4, <1>10, <2>1, <2>2, <2>3
  <2>5. dev'.used \in Nat /\ dev'.budget \in Nat /\ dev.budget \in Nat
    BY <1>3, <1>4 DEF StartType, Books
  <2>6. held /\ ~dev'.resident => dev'.budget - dev'.used >= reserve
    BY <1>4, <1>10, <2>5
  <2>7. Main # "int4moe" \/ streaming => reserve = 0 /\ ~held
    BY DEF BudgetKept
  <2>. QED BY <1>1, <1>10, <1>11, <2>4, <2>6, <2>7, SameBoot DEF BudgetKept
<1>15. ModelKept'
  BY <1>1, <1>11, SameBoot DEF ModelKept
<1>16. PoolKept'
  BY <1>1, SameBoot DEF PoolKept
<1>. QED BY <1>3, <1>12, <1>13, <1>14, <1>15, <1>16

\* A warm-up that may upload some of its weights.
LEMMA WarmKeeps ==
  ASSUME AsConfigured, StartNext, WarmBf16 \/ GlmWarm, pool' = pool
  PROVE  AsConfigured'
<1>. USE DEF AsConfigured
<1>1. /\ pc = "warm" /\ pc' = "listen" /\ Main \in {"bf16", "glm"}
      /\ UNCHANGED <<boot, mode, mesh, streaming, family, reserve, held, left>>
      /\ dev' = dev \/ \E n \in WarmCharges : dev' = Charged(dev, n)
  BY DEF WarmBf16, GlmWarm
<1>2. StartType'
  BY StartTypeStep
<1>3. dev \in Books /\ reserve = 0 /\ ~held /\ dev.used = 0 /\ boot \in Boots /\ dev.used <= dev.budget
  <2>1. dev \in Books /\ dev.used = 0 /\ boot \in Boots
    BY <1>1 DEF StartType, BudgetKept
  <2>2. reserve = 0 /\ ~held
    BY <1>1 DEF BudgetKept
  <2>. QED BY <2>1, <2>2 DEF Books
<1>4. dev'.on = dev.on /\ dev'.budget = dev.budget /\ dev'.used <= dev'.budget
  <2>1. CASE dev' = dev
    BY <1>3, <2>1
  <2>2. ASSUME NEW n \in WarmCharges, dev' = Charged(dev, n) PROVE dev'.on = dev.on /\ dev'.budget = dev.budget /\ dev'.used <= dev'.budget
    <3>1. n \in Nat
      BY StartupAssumption
    <3>. QED BY <1>3, <2>2, <3>1, ChargedStays
  <2>. QED BY <1>1, <2>1, <2>2
<1>5. ModeKept'
  <2>1. Asks(mode)' = Asks(mode)
    BY <1>1, SameBoot DEF Asks
  <2>. QED BY <1>1, <1>4, <2>1, SameBoot DEF ModeKept, Places
<1>6. MeshKept'
  BY <1>1, SameBoot DEF MeshKept
<1>7. BudgetKept'
  <2>1. BaseBudget' = BaseBudget /\ BaseBudget \in Nat
    BY <1>1, <1>3, SameBoot, BootTypes DEF BaseBudget
  <2>2. Budgeted(reserve)' = BaseBudget /\ Budgeted(reserve) = BaseBudget
    BY <1>1, <1>3, <2>1 DEF Budgeted
  <2>. QED BY <1>1, <1>3, <1>4, <2>2, SameBoot DEF BudgetKept
<1>8. ModelKept'
  BY <1>1, SameBoot DEF ModelKept
<1>9. PoolKept'
  BY <1>1, SameBoot DEF PoolKept
<1>. QED BY <1>2, <1>5, <1>6, <1>7, <1>8, <1>9

LEMMA GlmDeviceKeeps ==
  ASSUME AsConfigured, GlmDevice, pool' = pool
  PROVE  AsConfigured'
<1>. USE DEF AsConfigured
<1>1. CASE Conf.req = "pure_gpu" /\ ~Cuda
  <2>1. pc' = "fatal" /\ pc = "mode"
        /\ UNCHANGED <<boot, mode, mesh, streaming, family, reserve, held, dev, left>>
    BY <1>1 DEF GlmDevice, Fatal
  <2>. QED BY <2>1, PassesOn
<1>2. CASE ~(Conf.req = "pure_gpu" /\ ~Cuda)
  <2>1. PICK m : m = IF Conf.req = "hybrid_gpu" /\ ~Cuda THEN "pure_cpu" ELSE Conf.req
    OBVIOUS
  <2>2. /\ pc = "mode" /\ Main = "glm" /\ mode' = m /\ pc' = "open"
        /\ dev' = IF OnDevice(m) THEN Enabled(dev, Conf.vram, Machine.cublas) ELSE dev
        /\ UNCHANGED <<boot, mesh, streaming, family, reserve, held, left>>
    BY <1>2, <2>1 DEF GlmDevice
  <2>3. boot \in Boots /\ dev \in Books
    BY DEF StartType
  <2>4. Conf.vram \in Nat /\ Machine.cublas \in BOOLEAN /\ Cuda \in BOOLEAN
    BY <2>3, BootTypes, BootFacts
  <2>5. Conf.req \in {"pure_cpu", "hybrid_gpu", "pure_gpu"}
    BY <2>2, <2>3, BootFacts
  <2>6. /\ OnDevice(m) => Cuda
        /\ m # "layer_stream" /\ (Conf.req = "pure_gpu" => m = "pure_gpu")
    BY <1>2, <2>1, <2>5 DEF OnDevice
  <2>7. ~dev.on /\ dev.used = 0 /\ reserve = 0 /\ ~held /\ mesh = One
    BY <2>2 DEF ModeKept, BudgetKept, OnDevice
  <2>8. /\ dev' \in Books /\ dev'.used = 0
        /\ OnDevice(m) => dev'.budget = Conf.vram /\ dev'.on = Machine.cublas
        /\ ~OnDevice(m) => dev' = dev
    <3>1. CASE OnDevice(m)
      <4>1. dev' = Enabled(dev, Conf.vram, Machine.cublas)
        BY <2>2, <3>1
      <4>. QED BY <2>3, <2>4, <2>7, <3>1, <4>1 DEF Enabled, Books
    <3>2. CASE ~OnDevice(m)
      BY <2>2, <2>3, <2>7, <3>2
    <3>. QED BY <3>1, <3>2
  <2>9. StartType'
    BY <2>2, <2>8 DEF StartType
  <2>10. ModeKept'
    BY <2>2, <2>6, <2>7, <2>8, SameBoot DEF ModeKept, Places
  <2>11. MeshKept'
    <3>1. World(One) = 1
      <4>1. One.ids = <<0>> /\ Len(<<0>>) = 1
        BY DEF One
      <4>. QED BY <4>1 DEF World
    <3>. QED BY <2>2, <2>7, <3>1, SameBoot DEF MeshKept
  <2>12. BudgetKept'
    <3>1. Want = Conf.vram
      BY <2>2 DEF Want, Int4
    <3>2. Budgeted(reserve)' = Conf.vram
      BY <2>2, <2>4, <2>7, <3>1, SameBoot DEF Budgeted, BaseBudget
    <3>3. dev'.used <= dev'.budget
      BY <2>8 DEF Books
    <3>. QED BY <2>2, <2>7, <2>8, <3>2, <3>3, SameBoot DEF BudgetKept
  <2>13. ModelKept'
    BY <2>2, SameBoot DEF ModelKept
  <2>14. PoolKept'
    BY <2>2, SameBoot DEF PoolKept
  <2>. QED BY <2>9, <2>10, <2>11, <2>12, <2>13, <2>14
<1>. QED BY <1>1, <1>2

LEMMA GlmLoadKeeps ==
  ASSUME AsConfigured, pool \in Pools, GlmLoad,
         pool' = IF pc = "open" /\ pc' = "warm"
                 THEN Configured(plan'.slots, plan'.vram, mode = "pure_gpu" /\ Conf.bf16)
                 ELSE pool
  PROVE  AsConfigured'
<1>. USE DEF AsConfigured
<1>1. CASE pc' = "fatal"
  <2>1. pc = "open" /\ UNCHANGED <<boot, mode, mesh, streaming, family, reserve, held, dev, left, pool>>
    BY <1>1 DEF GlmLoad, Fatal
  <2>. QED BY <1>1, <2>1, PassesOn
<1>2. CASE pc' # "fatal"
  <2>1. PICK m : m = ResolveMeshForMode(mode, GlmSpec, Visible, Machine.nccl, TRUE)
    OBVIOUS
  <2>2. /\ pc = "open" /\ Main = "glm" /\ m.ok /\ mesh' = m /\ family' = "glm" /\ pc' = "warm"
        /\ UNCHANGED <<boot, mode, streaming, reserve, held, left, dev>>
    BY <1>2, <2>1 DEF GlmLoad, Fatal
  <2>3. boot \in Boots
    BY DEF StartType
  <2>4. MeshOf(m, Visible, GlmSpec) /\ (World(m) > 1 => OnDevice(mode))
    BY <2>1, <2>2, <2>3, BootFacts, ForModeIsMesh
  <2>5. MeshOf(m, Visible, Conf.spec)
    <3>1. GlmSpec.ids = <<0>> /\ \A i \in DOMAIN <<0>> : <<0>>[i] >= 0
      BY DEF GlmSpec
    <3>. QED BY <2>4, <3>1 DEF MeshOf
  <2>6. StartType'
    BY <2>2 DEF StartType
  <2>7. ModeKept'
    BY <2>2, SameBoot DEF ModeKept, Places
  <2>8. MeshKept'
    BY <2>2, <2>4, <2>5, SameBoot DEF MeshKept
  <2>9. BudgetKept'
    <3>1. reserve = 0 /\ ~held /\ dev.used = 0
      BY <2>2 DEF BudgetKept
    <3>2. BaseBudget' = BaseBudget /\ BaseBudget \in Nat
      BY <2>2, <2>3, SameBoot, BootTypes DEF BaseBudget
    <3>3. Budgeted(reserve)' = Budgeted(reserve)
      BY <2>2, <3>1, <3>2 DEF Budgeted
    <3>. QED BY <2>2, <3>1, <3>3, SameBoot DEF BudgetKept
  <2>10. ModelKept'
    <3>1. LayersAsServed
      BY <2>2 DEF LayersAsServed
    <3>2. ~streaming /\ mode # "layer_stream"
      BY <2>2 DEF ModelKept, ModeKept
    <3>. QED BY <2>2, <3>1, <3>2, SameBoot DEF ModelKept
  <2>11. PoolKept'
    <3>1. PICK b \in BOOLEAN : b = (mode = "pure_gpu" /\ Conf.bf16)
      OBVIOUS
    <3>2. plan'.vram = Conf.vram /\ (b => plan'.vram > 0)
      BY <2>2, <2>3, <3>1, PlanIsRoomy
    <3>3. pool' = Configured(plan'.slots, plan'.vram, b)
      BY <2>2, <3>1
    <3>4. pool'.bound = b
      BY <3>3 DEF Configured, Pools
    <3>. QED BY <2>2, <3>2, <3>4, SameBoot DEF PoolKept
  <2>. QED BY <2>6, <2>7, <2>8, <2>9, <2>10, <2>11
<1>. QED BY <1>1, <1>2

LEMMA StartingConfigures ==
  ASSUME AsConfigured, pool \in Pools, Starting
  PROVE  AsConfigured'
<1>1. /\ StartNext
      /\ pool' = IF pc = "open" /\ pc' = "warm"
                 THEN Configured(plan'.slots, plan'.vram, mode = "pure_gpu" /\ Conf.bf16)
                 ELSE pool
  BY DEF Starting
<1>2. pool' = pool \/ GlmLoad
  <2>1. pc = "open" /\ pc' = "warm" => GlmLoad
    BY <1>1 DEF StartNext, ChooseMode, EnableCuda, OpenWeights, LoadModel, InitOffload, FillBanks,
                ReserveSlots, WarmInt4, WarmBf16, PinBanks, PinOne, PinEnd, WarmForward, GlmDevice,
                GlmWarm, Breaks, Listen, Fatal
  <2>. QED BY <1>1, <2>1
<1>3. CASE GlmLoad
  BY <1>1, <1>3, GlmLoadKeeps
<1>4. CASE ~GlmLoad
  <2>1. pool' = pool
    BY <1>2, <1>4
  <2>2. CASE ChooseMode \/ EnableCuda \/ OpenWeights \/ LoadModel \/ ReserveSlots \/ WarmInt4 \/ GlmDevice
    BY <2>1, <2>2, ChooseModeKeeps, EnableCudaKeeps, OpenWeightsKeeps, LoadModelKeeps,
       ReserveSlotsKeeps, WarmInt4Keeps, GlmDeviceKeeps
  <2>3. CASE WarmBf16 \/ GlmWarm
    BY <1>1, <2>1, <2>3, WarmKeeps
  <2>4. CASE InitOffload \/ FillBanks \/ PinBanks \/ PinOne \/ PinEnd \/ Breaks \/ Listen
    BY <2>1, <2>4, PassesOn DEF InitOffload, FillBanks, PinBanks, PinOne, PinEnd, Breaks, Listen,
                               Fatal, bootVars
  <2>5. CASE WarmForward
    BY <2>1, <2>5, PassesOn DEF WarmForward, ReleaseWarm
  <2>. QED BY <1>1, <1>4, <2>2, <2>3, <2>4, <2>5 DEF StartNext
<1>. QED BY <1>3, <1>4

\* While the server listens only the executor's uploads touch the device, and they
\* stay within its budget.
LEMMA ServesAsConfigured ==
  ASSUME AsConfigured, Quiet, pc = "listening", pool'.bound = pool.bound,
         \/ dev' = dev
         \/ /\ pool.bound /\ MayAlloc(ExpertBytes)
            /\ dev' = [dev EXCEPT !.used = @ + ExpertBytes]
  PROVE  AsConfigured'
<1>. USE DEF AsConfigured
<1>1. UNCHANGED <<boot, pc, mode, mesh, streaming, family, reserve, held, left>>
  BY DEF Quiet, bootVars
<1>2. Asks(mode)' = Asks(mode) /\ BaseBudget' = BaseBudget /\ Budgeted(reserve)' = Budgeted(reserve)
  BY <1>1, SameBoot DEF Asks, BaseBudget, Budgeted
<1>3. /\ dev' \in Books /\ dev'.on = dev.on /\ dev'.budget = dev.budget /\ dev'.resident = dev.resident
      /\ dev' = dev \/ (dev'.used <= dev'.budget /\ reserve = 0 /\ ~held)
  <2>0. dev \in Books
    BY DEF StartType
  <2>1. CASE dev' = dev
    BY <2>0, <2>1
  <2>2. CASE dev' # dev
    <3>1. /\ pool.bound /\ MayAlloc(ExpertBytes)
          /\ dev' = [dev EXCEPT !.used = @ + ExpertBytes]
      BY <2>2
    <3>2. Main = "glm" /\ boot \in Boots /\ Conf.vram \in Nat
      BY <3>1, BootTypes DEF PoolKept, StartType
    <3>3. reserve = 0 /\ ~held
      BY <3>2 DEF BudgetKept
    <3>4. Conf.vram > 0
      BY <3>1 DEF PoolKept
    <3>5. dev.budget = Conf.vram
      <4>1. BaseBudget = Conf.vram
        BY <3>2 DEF BaseBudget, Want, Int4
      <4>. QED BY <3>1, <3>2, <3>3, <4>1 DEF BudgetKept, Budgeted, MayAlloc
    <3>6. PICK u \in Nat : u = dev.used + ExpertBytes
      BY <2>0, GlmForwardAssumption DEF Books
    <3>7. u <= dev.budget
      BY <3>1, <3>2, <3>4, <3>5, <3>6 DEF MayAlloc
    <3>8. dev' = [dev EXCEPT !.used = u]
      BY <3>1, <3>6
    <3>. QED BY <2>0, <3>3, <3>7, <3>8 DEF Books
  <2>. QED BY <2>1, <2>2
<1>4. StartType'
  BY <1>1, <1>3 DEF StartType
<1>5. ModeKept'
  BY <1>1, <1>2, <1>3, SameBoot DEF ModeKept
<1>6. MeshKept'
  BY <1>1, SameBoot DEF MeshKept
<1>7. BudgetKept'
  BY <1>1, <1>2, <1>3, SameBoot DEF BudgetKept
<1>8. ModelKept'
  BY <1>1, SameBoot DEF ModelKept
<1>9. PoolKept'
  BY <1>1, SameBoot DEF PoolKept
<1>. QED BY <1>4, <1>5, <1>6, <1>7, <1>8, <1>9

\* An upload of the executor is one of those.
LEMMA UploadConfigures ==
  ASSUME AsConfigured, Forwards, Quiet, pc = "listening", NEW t \in Callers,
         fwd[t].at \in {"prefetch", "pin"},
         IF pool.bound THEN PinUpload(Expert(t)) ELSE UNCHANGED <<pool, dev, throws>>
  PROVE  AsConfigured'
<1>1. pool'.bound = pool.bound
  BY UploadStep DEF Alike
<1>3. \/ dev' = dev
      \/ /\ pool.bound /\ MayAlloc(ExpertBytes)
         /\ dev' = [dev EXCEPT !.used = @ + ExpertBytes]
  <2>1. CASE pool.bound
    <3>1. PICK e : e = Expert(t)
      OBVIOUS
    <3>2. PinUpload(e)
      BY <2>1, <3>1
    <3>3. CASE e \in DOMAIN pool.map
      BY <3>2, <3>3 DEF PinUpload
    <3>4. CASE e \notin DOMAIN pool.map
      BY <2>1, <3>2, <3>4 DEF PinUpload, Alloc
    <3>. QED BY <3>3, <3>4
  <2>2. CASE ~pool.bound
    BY <2>2
  <2>. QED BY <2>1, <2>2
<1>. QED BY <1>1, <1>3, ServesAsConfigured

LEMMA ConfiguredStep ==
  ASSUME Forwards, AsConfigured, [Next]_vars
  PROVE  AsConfigured'
<1>1. Callers = Threads
  BY ServerAssumption
<1>2. CASE Starting
  <2>1. pool \in Pools
    BY DEF Forwards, PoolBooks, Sound
  <2>. QED BY <1>2, <2>1, StartingConfigures
<1>3. ASSUME pc = "listening", Quiet, UNCHANGED <<pool, dev>>
      PROVE  AsConfigured'
  BY <1>3, ServesAsConfigured
<1>4. CASE UserActs
  BY <1>3, <1>4 DEF UserActs, Still, glmVars
<1>5. ASSUME NEW t \in Threads, Handle(t)
      PROVE  AsConfigured'
  BY <1>3, <1>5 DEF Handle, Still, glmVars
<1>6. ASSUME NEW t \in Threads, Generate(t)
      PROVE  AsConfigured'
  BY <1>3, <1>6 DEF Generate, StartForward, Still, glmVars
<1>7. ASSUME NEW t \in Threads, Decode(t)
      PROVE  AsConfigured'
  BY <1>3, <1>7 DEF Decode, StartForward, Still, glmVars
<1>8. ASSUME NEW t \in Threads, Forward(t)
      PROVE  AsConfigured'
  <2>1. t \in Callers /\ pc = "listening" /\ Quiet
    BY <1>1, <1>8 DEF Forward
  <2>2. CASE Attend(t) \/ DenseFfn(t) \/ Route(t) \/ Compute(t)
    BY <1>3, <2>1, <2>2 DEF Attend, DenseFfn, Route, Compute
  <2>3. CASE Prefetch(t) \/ Pin(t)
    BY <2>1, <2>3, UploadConfigures DEF Prefetch, Pin
  <2>4. CASE Release(t)
    <3>1. pool'.bound = pool.bound /\ dev' = dev
      <4>1. Sound(pool) /\ InBounds(pool)
        BY DEF Forwards, PoolBooks
      <4>2. PoolRelease(Expert(t)) \/ pool' = pool
        BY <2>4 DEF Release
      <4>3. PICK e : e = Expert(t)
        OBVIOUS
      <4>. QED BY <2>4, <4>1, <4>2, <4>3, PoolReleaseKeeps DEF Release, Alike
    <3>. QED BY <2>1, <3>1, ServesAsConfigured
  <2>. QED BY <1>8, <2>2, <2>3, <2>4 DEF Forward, ForwardStep
<1>9. ASSUME NEW t \in Threads, GenerateEnds(t)
      PROVE  AsConfigured'
  BY <1>3, <1>9 DEF GenerateEnds, Still, glmVars
<1>10. ASSUME NEW t \in Threads, GenerateThrows(t)
       PROVE  AsConfigured'
  BY <1>3, <1>10 DEF GenerateThrows, ForwardThrows
<1>11. CASE UNCHANGED vars
  <2>1. UNCHANGED <<boot, pc, mode, mesh, streaming, family, reserve, held, left, dev, pool>>
    BY <1>11 DEF vars, startVars, bootVars, glmVars
  <2>. QED BY <2>1, PassesOn
<1>. QED BY <1>2, <1>4, <1>5, <1>6, <1>7, <1>8, <1>9, <1>10, <1>11 DEF Next

\* On its way to listen() a server's mode, device, mesh, budget and model are what
\* its configuration makes of them, and no request changes that.
THEOREM ConfiguredInvariant == Spec => []AsConfigured
BY ForwardsInvariant, ConfiguredInit, ConfiguredStep, PTL DEF Spec

\* A server that listens has the device, the budget, the mesh and the model it was
\* configured with (the start-up code of the five servers, whatever their
\* configuration, container and machine).
THEOREM ListensAsAsked == Spec => []ListensAsConfigured
<1>1. ASSUME AsConfigured PROVE ListensAsConfigured
  <2>. SUFFICES ASSUME pc = "listening" PROVE ListensAsConfigured
    BY DEF ListensAsConfigured
  <2>. USE <1>1 DEF AsConfigured
  <2>1. boot \in Boots /\ dev \in Books
    BY DEF StartType
  <2>2. DeviceAsAsked
    <3>1. /\ Conf.req = "pure_gpu" => mode = "pure_gpu"
          /\ Main # "glm" /\ OnDevice(mode) /\ ~(Int4 /\ Conf.req = "auto") => dev.on
          /\ Main = "glm" /\ OnDevice(mode) => dev.on \/ ~Machine.cublas
          /\ dev.on => OnDevice(mode) \/ (mode = "layer_stream" /\ Int4 /\ Conf.streamCuda)
      BY DEF ModeKept, Asks
    <3>2. OnDevice("pure_gpu")
      BY DEF OnDevice
    <3>3. Conf.req = "pure_gpu" => Conf.req # "auto"
      OBVIOUS
    <3>. QED BY <3>1, <3>2, <3>3 DEF DeviceAsAsked
  <2>3. BudgetAsConfigured
    <3>1. Budgeted(reserve) = IF held THEN BaseBudget ELSE BaseBudget + reserve
      BY DEF Budgeted
    <3>2. Main # "int4moe" \/ streaming => reserve = 0 /\ ~held
      BY DEF BudgetKept
    <3>3. BaseBudget \in Nat /\ reserve \in Nat
      BY <2>1, BootTypes DEF BaseBudget, StartType
    <3>. QED BY <3>1, <3>2, <3>3 DEF BudgetKept, BudgetAsConfigured, BaseBudget
  <2>4. ReserveKept
    BY DEF ReserveKept, BudgetKept
  <2>5. MeshSound
    <3>1. MeshOf(mesh, Visible, Conf.spec) /\ (World(mesh) > 1 => OnDevice(mode))
      BY DEF MeshKept
    <3>2. dev.on => Visible = Machine.gpus /\ Visible > 0
      BY <2>1, BootFacts DEF ModeKept
    <3>. QED BY <3>1, <3>2 DEF MeshSound, MeshOf
  <2>6. LayersAsServed /\ family = (IF Main = "glm" THEN "glm" ELSE Serves)
        /\ streaming = (mode = "layer_stream") /\ (left => Main = "int4moe")
    BY DEF ModelKept
  <2>. QED BY <2>2, <2>3, <2>4, <2>5, <2>6 DEF ListensAsConfigured
<1>. QED BY <1>1, ConfiguredInvariant, PTL
=============================================================================
