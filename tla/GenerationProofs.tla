-------------------------- MODULE GenerationProofs --------------------------
(***************************************************************************)
(* A request and the state of its session, in host memory (Generation) and, *)
(* at the end of the module, on the device (DeviceState).                   *)
(*                                                                         *)
(* For any requests, cache length and margin: rejected drafts leave no      *)
(* trace, the caches are not overrun, and what is streamed and the logprobs *)
(* agree with the result.  For any layers, passes and failing device calls, *)
(* each layer finds the state the last pass left, unless one of the listed  *)
(* causes has come before.                                                  *)
(***************************************************************************)
EXTENDS Generation, DeviceState, SequenceTheorems, FiniteSetTheorems, TLAPS

-----------------------------------------------------------------------------
(* Positions                                                                *)

(* A square image has a side: Side's CHOOSE is not empty.                   *)
LEMMA SideIsNat ==
  ASSUME NEW pads \in Nat
  PROVE  Side(pads) \in 0 .. pads /\ (pads = 0 => Side(pads) = 0)
<1> DEFINE T == {n \in Nat : n * n >= pads}
           R == {ss \in Nat \X Nat : ss[1] < ss[2]}
<1>1. IsWellFoundedOn(R, Nat)
  BY NatLessThanWellFounded DEF OpToRel
<1>2. pads \in T
  <2>1. pads * pads >= pads
    <3>1. CASE pads = 0
      BY <3>1
    <3>2. CASE pads >= 1
      BY <3>2, SMT
    <3>. QED  BY <3>1, <3>2
  <2>. QED  BY <2>1
<1>3. PICK n \in T : \A m \in T : ~ (<<m, n>> \in R)
  <2> HIDE DEF T, R
  <2>1. T \subseteq Nat
    BY DEF T
  <2>. QED  BY <1>1, <1>2, <2>1, WFMin
<1>4. \A m \in Nat : m < n => m * m < pads
  <2> TAKE m \in Nat
  <2> HAVE m < n
  <2>1. m \notin T
    BY <1>3
  <2>2. m * m \in Nat
    OBVIOUS
  <2>. QED  BY <2>1, <2>2
<1>5. n <= pads
  <2>1. ~ (<<pads, n>> \in R)
    BY <1>2, <1>3
  <2>. QED  BY <2>1
<1>6. n \in 0 .. pads /\ n * n >= pads /\ \A m \in 0 .. n - 1 : m * m < pads
  BY <1>4, <1>5
<1>7. Side(pads) \in 0 .. pads
  BY <1>6 DEF Side
<1>. QED  BY <1>7

(* Text takes one position for each token.                                  *)
LEMMA PositionsInt ==
  ASSUME NEW prompt \in Nat, NEW pads \in Nat
  PROVE  Positions(prompt, pads) \in Int /\ (pads = 0 => Positions(prompt, pads) = prompt)
BY SideIsNat DEF Positions

-----------------------------------------------------------------------------
(* Greedy sequences                                                         *)

(* The a tokens greedy decoding puts after the first n.                     *)
Seg(n, a) == [i \in 1 .. a |-> n + i - 1]

(* Greedy(n) as a sequence; the token sampled after it.                     *)
LEMMA GreedySeq ==
  ASSUME NEW n \in Nat
  PROVE  /\ Greedy(n) \in Seq(Int) /\ Len(Greedy(n)) = n
         /\ \A i \in 1 .. n : Greedy(n)[i] = i - 1
         /\ Sampled(Greedy(n)) = n
<1>1. Greedy(n) \in [1 .. n -> Int]
  BY DEF Greedy
<1>2. Greedy(n) \in Seq(Int) /\ Len(Greedy(n)) = n
  BY <1>1
<1>. QED  BY <1>2 DEF Greedy, Sampled

(* Seg(n, a) as a sequence.                                                 *)
LEMMA SegSeq ==
  ASSUME NEW n \in Nat, NEW a \in Nat
  PROVE  /\ Seg(n, a) \in Seq(Int) /\ Len(Seg(n, a)) = a
         /\ \A i \in 1 .. a : Seg(n, a)[i] = n + i - 1
<1>1. Seg(n, a) \in [1 .. a -> Int]
  BY DEF Seg
<1>. QED  BY <1>1 DEF Seg

(* A sequence of integers that counts from 0 is the greedy one.             *)
LEMMA IsGreedy ==
  ASSUME NEW s \in Seq(Int), \A i \in 1 .. Len(s) : s[i] = i - 1
  PROVE  s = Greedy(Len(s))
<1>1. Len(s) \in Nat /\ s = [i \in 1 .. Len(s) |-> s[i]]
  BY LenProperties
<1>. QED  BY <1>1 DEF Greedy

(* Greedy decoding goes on where it was.                                    *)
LEMMA GreedySeg ==
  ASSUME NEW n \in Nat, NEW a \in Nat
  PROVE  Greedy(n) \o Seg(n, a) = Greedy(n + a)
<1> DEFINE g == Greedy(n)
           t == Seg(n, a)
<1>1. /\ g \in Seq(Int) /\ Len(g) = n /\ \A i \in 1 .. n : g[i] = i - 1
      /\ t \in Seq(Int) /\ Len(t) = a /\ \A i \in 1 .. a : t[i] = n + i - 1
  BY GreedySeq, SegSeq
<1> HIDE DEF g, t
<1>2. /\ g \o t \in Seq(Int) /\ Len(g \o t) = n + a
      /\ \A i \in 1 .. n + a : (g \o t)[i] = IF i <= n THEN g[i] ELSE t[i - n]
  BY <1>1, ConcatProperties
<1>3. \A i \in 1 .. n + a : (g \o t)[i] = i - 1
  BY <1>1, <1>2
<1>4. g \o t = Greedy(n + a)
  BY <1>2, <1>3, IsGreedy
<1>. QED  BY <1>4 DEF g, t

(* One token more.                                                          *)
LEMMA GreedyAppend ==
  ASSUME NEW n \in Nat
  PROVE  Append(Greedy(n), n) = Greedy(n + 1) /\ Greedy(n) \o <<n>> = Greedy(n + 1)
<1> DEFINE g == Greedy(n)
<1>1. g \in Seq(Int) /\ Len(g) = n /\ \A i \in 1 .. n : g[i] = i - 1
  BY GreedySeq
<1> HIDE DEF g
<1>2. /\ Append(g, n) \in Seq(Int) /\ Len(Append(g, n)) = n + 1
      /\ \A i \in 1 .. n : Append(g, n)[i] = g[i]
      /\ Append(g, n)[n + 1] = n
  BY <1>1, AppendProperties
<1>3. \A i \in 1 .. n + 1 : Append(g, n)[i] = i - 1
  BY <1>1, <1>2
<1>4. Append(g, n) = Greedy(n + 1)
  BY <1>2, <1>3, IsGreedy
<1>5. Append(g, n) = g \o <<n>>
  BY <1>1, AppendIsConcat
<1>. QED  BY <1>4, <1>5 DEF g

(* Cutting off what came after the first n leaves them.                     *)
LEMMA GreedyCut ==
  ASSUME NEW n \in Nat, NEW d \in Seq(Int)
  PROVE  Front(Greedy(n) \o d, n) = Greedy(n)
<1> DEFINE s == Greedy(n) \o d
<1>1. s \in Seq(Int) /\ Len(s) = n + Len(d) /\ \A i \in 1 .. n : s[i] = i - 1
  BY GreedySeq, ConcatProperties, LenProperties
<1>2. Front(s, n) \in Seq(Int) /\ Len(Front(s, n)) = n
      /\ \A i \in 1 .. n : Front(s, n)[i] = s[i]
  <2> HIDE DEF s
  <2>1. \A i \in 1 .. n : s[i] \in Int
    BY <1>1
  <2>. QED  BY <2>1, SubSeqProperties DEF Front
<1>. QED  BY <1>1, <1>2, GreedySeq, SeqEqual

-----------------------------------------------------------------------------
(* Drafts                                                                   *)

(* Drafts after n tokens of which `right` agree with greedy decoding.       *)
Guess(n, len, right) == [i \in 1 .. len |-> IF i <= right THEN n + i - 1 ELSE Wrong]

(* The drafts as a sequence.                                                *)
LEMMA GuessSeq ==
  ASSUME NEW n \in Nat, NEW len \in Nat, NEW right \in 1 .. len
  PROVE  /\ Guess(n, len, right) \in Seq(Int) /\ Len(Guess(n, len, right)) = len
         /\ \A i \in 1 .. len :
              Guess(n, len, right)[i] = IF i <= right THEN n + i - 1 ELSE Wrong
<1>1. Guess(n, len, right) \in [1 .. len -> Int]
  BY DEF Guess, Wrong
<1>. QED  BY <1>1 DEF Guess

(* The front of the drafts is greedy as far as the guesses were right.      *)
LEMMA GuessFront ==
  ASSUME NEW n \in Nat, NEW len \in Nat, NEW right \in 1 .. len, NEW i \in 0 .. right
  PROVE  Front(Guess(n, len, right), i) = Seg(n, i)
<1> DEFINE d == Guess(n, len, right)
           g == Seg(n, i)
<1>0. i \in Nat /\ i <= len
  OBVIOUS
<1>1. /\ d \in Seq(Int) /\ Len(d) = len
      /\ \A k \in 1 .. len : d[k] = IF k <= right THEN n + k - 1 ELSE Wrong
  BY GuessSeq
<1>2. g \in Seq(Int) /\ Len(g) = i /\ \A k \in 1 .. i : g[k] = n + k - 1
  BY <1>0, SegSeq
<1> HIDE DEF d, g
<1>3. \A k \in 1 .. i : d[k] = n + k - 1 /\ d[k] \in Int
  BY <1>0, <1>1
<1>4. /\ Front(d, i) \in Seq(Int) /\ Len(Front(d, i)) = i
      /\ \A k \in 1 .. i : Front(d, i)[k] = d[k]
  BY <1>0, <1>3, SubSeqProperties DEF Front
<1>5. Front(d, i) = g
  BY <1>2, <1>3, <1>4, SeqEqual
<1>. QED  BY <1>5 DEF d, g

(* Verification accepts just the right guesses.                             *)
LEMMA AcceptedIsRight ==
  ASSUME NEW n \in Nat, NEW len \in Nat, NEW right \in 1 .. len,
         kv = Greedy(n), drafts = Guess(n, len, right)
  PROVE  Accepted = Seg(n, right)
<1> DEFINE agrees(i) == i = 1 \/ Sampled(kv \o Front(drafts, i - 1)) = drafts[i]
           Fits(m) == /\ \A i \in 1 .. m : agrees(i)
                      /\ m < len => ~ agrees(m + 1)
<1>0. /\ Len(drafts) = len
      /\ \A i \in 1 .. len : drafts[i] = IF i <= right THEN n + i - 1 ELSE -1
  BY GuessSeq DEF Wrong
<1>1. \A i \in 0 .. right : Sampled(kv \o Front(drafts, i)) = n + i
  <2> TAKE i \in 0 .. right
  <2>1. i \in Nat /\ n + i \in Nat
    OBVIOUS
  <2>2. Front(drafts, i) = Seg(n, i)
    BY GuessFront
  <2>3. kv \o Front(drafts, i) = Greedy(n + i)
    BY <2>1, <2>2, GreedySeg
  <2>. QED  BY <2>1, <2>3, GreedySeq
<1>2. \A i \in 1 .. right : agrees(i)
  <2> TAKE i \in 1 .. right
  <2>1. Sampled(kv \o Front(drafts, i - 1)) = n + (i - 1)
    BY <1>1
  <2>2. drafts[i] = n + i - 1
    BY <1>0
  <2>. QED  BY <2>1, <2>2
<1>3. right < len => ~ agrees(right + 1)
  <2> HAVE right < len
  <2>1. Sampled(kv \o Front(drafts, (right + 1) - 1)) = n + right
    BY <1>1
  <2>2. drafts[right + 1] = -1
    BY <1>0
  <2>. QED  BY <2>1, <2>2
<1>4. \A m \in 1 .. len : Fits(m) => m = right
  <2> HIDE DEF agrees
  <2>. QED  BY <1>2, <1>3
<1>5. Fits(right) /\ right \in 1 .. Len(drafts) /\ Len(drafts) = len
  BY <1>0, <1>2, <1>3
<1>6. (CHOOSE m \in 1 .. len : Fits(m)) = right
  <2> HIDE DEF Fits
  <2>. QED  BY <1>4, <1>5
<1>7. Accepted = Front(drafts, CHOOSE m \in 1 .. len : Fits(m))
  BY <1>5 DEF Accepted
<1>8. Front(drafts, right) = Seg(n, right)
  BY GuessFront
<1>. QED  BY <1>6, <1>7, <1>8

-----------------------------------------------------------------------------
(* The result and what was streamed of it                                   *)

Token == [tok : Int, ws : BOOLEAN]

Toks(s) == [i \in 1 .. Len(s) |-> s[i].tok]

(* The first n tokens of s are among the streamed ones.                     *)
Covers(toks, s, n) == n <= Len(toks) /\ \A i \in 1 .. n : toks[i] = s[i].tok

(* The outcomes of Emit: the token stays and was streamed, or decoding      *)
(* stops with the token as one blank too many, or with tokens dropped.      *)
Lps(tok, withLp) == IF req.logprobs /\ withLp THEN Append(logprobs, tok) ELSE logprobs

EmitKeeps(all, tok, withLp) ==
  ids' = all /\ logprobs' = Lps(tok, withLp) /\ streamed' = Append(streamed, tok)

EmitCuts(all, tok, withLp) ==
  /\ streamed' = streamed
  /\ \/ TrailingWs(all) >= WsLimit /\ ids' = all /\ logprobs' = Lps(tok, withLp)
     \/ \E dropped \in 1 .. Len(all) - 1 :
          /\ ids' = Front(all, Len(all) - dropped)
          /\ logprobs' = LET lps == Lps(tok, withLp)
                         IN  IF lps = <<>> THEN lps ELSE Front(lps, Len(lps) - dropped)

(* There are no more trailing blanks than tokens.                           *)
LEMMA TrailingWsType ==
  ASSUME NEW s \in Seq(Token)
  PROVE  TrailingWs(s) \in 0 .. Len(s)
<1> DEFINE W == {i \in 1 .. Len(s) : \A j \in i .. Len(s) : s[j].ws}
<1>1. Len(s) \in Nat /\ W \subseteq 1 .. Len(s)
  BY LenProperties
<1>2. IsFiniteSet(1 .. Len(s)) /\ Cardinality(1 .. Len(s)) = Len(s)
  <2> DEFINE n == Len(s)
  <2>1. n \in Int /\ 1 \in Int /\ n >= 0
    BY <1>1
  <2> HIDE DEF n
  <2>2. IsFiniteSet(1 .. n) /\ Cardinality(1 .. n) = IF 1 > n THEN 0 ELSE n - 1 + 1
    BY <2>1, FS_Interval
  <2>3. Cardinality(1 .. n) = n
    BY <2>1, <2>2
  <2>. QED  BY <2>2, <2>3 DEF n
<1>3. IsFiniteSet(W) /\ Cardinality(W) <= Len(s)
  BY <1>1, <1>2, FS_Subset
<1>4. Cardinality(W) \in Nat
  BY <1>3, FS_CardinalityType
<1>. QED  BY <1>1, <1>3, <1>4 DEF TrailingWs

(* The tokens of a result as a sequence.                                    *)
LEMMA ToksSeq ==
  ASSUME NEW s \in Seq(Token)
  PROVE  /\ Toks(s) \in Seq(Int) /\ Len(Toks(s)) = Len(s)
         /\ \A i \in 1 .. Len(s) : Toks(s)[i] = s[i].tok
<1>1. Len(s) \in Nat /\ s \in [1 .. Len(s) -> Token]
  BY LenProperties
<1>2. Toks(s) \in [1 .. Len(s) -> Int]
  BY <1>1 DEF Toks, Token
<1>. QED  BY <1>1, <1>2 DEF Toks

(* A result with a token more.                                              *)
LEMMA ToksAppend ==
  ASSUME NEW s \in Seq(Token), NEW t \in Token
  PROVE  /\ Append(s, t) \in Seq(Token) /\ Len(Append(s, t)) = Len(s) + 1
         /\ Toks(Append(s, t)) = Append(Toks(s), t.tok)
<1> DEFINE all == Append(s, t)
           a   == Toks(all)
           b   == Append(Toks(s), t.tok)
<1>1. /\ Len(s) \in Nat /\ all \in Seq(Token) /\ Len(all) = Len(s) + 1
      /\ \A i \in 1 .. Len(s) : all[i] = s[i]
      /\ all[Len(s) + 1] = t
  BY LenProperties, AppendProperties
<1>2. a \in Seq(Int) /\ Len(a) = Len(all) /\ \A i \in 1 .. Len(all) : a[i] = all[i].tok
  <2> HIDE DEF all
  <2>. QED  BY <1>1, ToksSeq
<1>3. /\ b \in Seq(Int) /\ Len(b) = Len(s) + 1 /\ b[Len(s) + 1] = t.tok
      /\ \A i \in 1 .. Len(s) : b[i] = s[i].tok
  <2>1. t.tok \in Int
    BY DEF Token
  <2> DEFINE u == Toks(s)
  <2>2. u \in Seq(Int) /\ Len(u) = Len(s) /\ \A i \in 1 .. Len(s) : u[i] = s[i].tok
    BY ToksSeq
  <2> HIDE DEF u
  <2>3. /\ Append(u, t.tok) \in Seq(Int) /\ Len(Append(u, t.tok)) = Len(u) + 1
        /\ \A i \in 1 .. Len(u) : Append(u, t.tok)[i] = u[i]
        /\ Append(u, t.tok)[Len(u) + 1] = t.tok
    BY <2>1, <2>2, AppendProperties
  <2>. QED  BY <2>2, <2>3 DEF u
<1>4. \A i \in 1 .. Len(a) : a[i] = b[i]
  <2> HIDE DEF a, b, all
  <2> TAKE i \in 1 .. Len(a)
  <2>1. CASE i \in 1 .. Len(s)
    <3>1. all[i] = s[i] /\ b[i] = s[i].tok /\ i \in 1 .. Len(all)
      BY <1>1, <1>3, <2>1
    <3>. QED  BY <1>2, <3>1
  <2>2. CASE i = Len(s) + 1
    <3>1. i \in 1 .. Len(all)
      BY <1>1, <2>2
    <3>. QED  BY <1>1, <1>2, <1>3, <2>2, <3>1
  <2>. QED  BY <1>1, <1>2, <2>1, <2>2
<1>5. a = b
  <2> HIDE DEF a, b, all
  <2>. QED  BY <1>1, <1>2, <1>3, <1>4, SeqEqual
<1>. QED  BY <1>1, <1>5

(* A result cut short.                                                      *)
LEMMA ToksFront ==
  ASSUME NEW s \in Seq(Token), NEW n \in 0 .. Len(s)
  PROVE  /\ Front(s, n) \in Seq(Token) /\ Len(Front(s, n)) = n
         /\ \A i \in 1 .. n : Front(s, n)[i] = s[i]
         /\ Toks(Front(s, n)) = Front(Toks(s), n)
<1> DEFINE f == Front(s, n)
           u == Toks(s)
<1>1. Len(s) \in Nat /\ n \in Nat /\ n <= Len(s) /\ \A i \in 1 .. n : s[i] \in Token
  BY LenProperties, ElementOfSeq
<1>2. f \in Seq(Token) /\ Len(f) = n /\ \A i \in 1 .. n : f[i] = s[i]
  BY <1>1, SubSeqProperties DEF Front
<1>3. u \in Seq(Int) /\ Len(u) = Len(s) /\ \A i \in 1 .. n : u[i] = s[i].tok /\ u[i] \in Int
  <2>1. u \in Seq(Int) /\ Len(u) = Len(s) /\ \A i \in 1 .. Len(s) : u[i] = s[i].tok
    BY ToksSeq
  <2>2. \A i \in 1 .. n : i \in 1 .. Len(s) /\ s[i].tok \in Int
    BY <1>1 DEF Token
  <2>. QED  BY <2>1, <2>2
<1> HIDE DEF f, u
<1>4. /\ Front(u, n) \in Seq(Int) /\ Len(Front(u, n)) = n
      /\ \A i \in 1 .. n : Front(u, n)[i] = u[i]
  BY <1>1, <1>3, SubSeqProperties DEF Front
<1>5. Toks(f) \in Seq(Int) /\ Len(Toks(f)) = n /\ \A i \in 1 .. n : Toks(f)[i] = f[i].tok
  BY <1>2, ToksSeq
<1>6. Toks(f) = Front(u, n)
  <2> DEFINE a == Toks(f)
             b == Front(u, n)
  <2>1. \A i \in 1 .. n : a[i] = b[i]
    BY <1>2, <1>3, <1>4, <1>5
  <2> HIDE DEF a, b
  <2>2. a \in Seq(Int) /\ b \in Seq(Int) /\ Len(a) = n /\ Len(b) = n
    BY <1>4, <1>5 DEF a, b
  <2>3. a = b
    BY <2>1, <2>2, SeqEqual
  <2>. QED  BY <2>3 DEF a, b
<1>. QED  BY <1>2, <1>6 DEF f, u

(* A result that was streamed in full covers what is left after trimming.   *)
LEMMA WholeCovers ==
  ASSUME NEW s \in Seq(Token)
  PROVE  Covers(Toks(s), s, Len(s) - TrailingWs(s))
<1>1. TrailingWs(s) \in 0 .. Len(s) /\ Len(s) \in Nat
  BY TrailingWsType, LenProperties
<1>. QED  BY <1>1, ToksSeq DEF Covers

(* A token that stays is in the result, the stream and the logprobs.        *)
LEMMA KeepOut ==
  ASSUME ids \in Seq(Token), streamed = Toks(ids),
         NEW tok \in Int, NEW ws \in BOOLEAN, NEW withLp \in BOOLEAN,
         req.logprobs => withLp /\ logprobs = Toks(ids),
         EmitKeeps(Append(ids, [tok |-> tok, ws |-> ws]), tok, withLp)
  PROVE  /\ ids' \in Seq(Token) /\ Len(ids') = Len(ids) + 1
         /\ streamed' = Toks(ids')
         /\ req.logprobs => logprobs' = Toks(ids')
<1> DEFINE t == [tok |-> tok, ws |-> ws]
<1>1. t \in Token /\ t.tok = tok
  BY DEF Token
<1>2. /\ Append(ids, t) \in Seq(Token) /\ Len(Append(ids, t)) = Len(ids) + 1
      /\ Toks(Append(ids, t)) = Append(Toks(ids), tok)
  BY <1>1, ToksAppend
<1>. QED  BY <1>2 DEF EmitKeeps, Lps

(* A stop that drops tokens drops them from the logprobs too, and leaves a  *)
(* result that has been streamed up to its trailing blanks.                 *)
LEMMA CutOut ==
  ASSUME ids \in Seq(Token), streamed = Toks(ids),
         NEW tok \in Int, NEW ws \in BOOLEAN, NEW withLp \in BOOLEAN,
         req.logprobs => withLp /\ logprobs = Toks(ids),
         EmitCuts(Append(ids, [tok |-> tok, ws |-> ws]), tok, withLp)
  PROVE  /\ ids' \in Seq(Token)
         /\ Covers(streamed', ids', Len(ids') - TrailingWs(ids'))
         /\ req.logprobs => logprobs' = Toks(ids')
<1> DEFINE t   == [tok |-> tok, ws |-> ws]
           all == Append(ids, t)
           lps == Lps(tok, withLp)
<1>1. t \in Token /\ t.tok = tok
  BY DEF Token
<1>2. /\ all \in Seq(Token) /\ Len(all) = Len(ids) + 1 /\ Len(ids) \in Nat
      /\ \A i \in 1 .. Len(ids) : all[i] = ids[i]
      /\ Toks(all) = Append(Toks(ids), tok)
  BY <1>1, ToksAppend, AppendProperties, LenProperties
<1>3. req.logprobs => lps = Toks(all)
  BY <1>2 DEF Lps
<1>4. /\ Len(streamed) = Len(ids)
      /\ \A i \in 1 .. Len(ids) : streamed[i] = ids[i].tok
  BY ToksSeq
<1> HIDE DEF t, all, lps
<1>5. CASE TrailingWs(all) >= WsLimit /\ ids' = all /\ logprobs' = lps /\ streamed' = streamed
  <2>1. Len(all) - TrailingWs(all) \in Int /\ Len(all) - TrailingWs(all) <= Len(ids)
    BY <1>2, <1>5, TrailingWsType, GenerationAssumption DEF GenerationAssumption
  <2>2. Covers(streamed, all, Len(all) - TrailingWs(all))
    BY <1>2, <1>4, <2>1 DEF Covers
  <2>. QED  BY <1>2, <1>3, <1>5, <2>2
<1>6. ASSUME NEW dropped \in 1 .. Len(all) - 1,
             ids' = Front(all, Len(all) - dropped),
             logprobs' = IF lps = <<>> THEN lps ELSE Front(lps, Len(lps) - dropped),
             streamed' = streamed
      PROVE  /\ ids' \in Seq(Token)
             /\ Covers(streamed', ids', Len(ids') - TrailingWs(ids'))
             /\ req.logprobs => logprobs' = Toks(ids')
  <2> DEFINE n == Len(all) - dropped
             f == Front(all, n)
  <2>1. n \in 0 .. Len(all) /\ n <= Len(ids) /\ n \in Nat
    BY <1>2
  <2>2. /\ f \in Seq(Token) /\ Len(f) = n /\ Toks(f) = Front(Toks(all), n)
        /\ \A i \in 1 .. n : f[i] = all[i]
    <3> HIDE DEF n
    <3>. QED  BY <1>2, <2>1, ToksFront
  <2> HIDE DEF n, f
  <2>3. TrailingWs(f) \in 0 .. n
    BY <2>2, TrailingWsType
  <2>4. Covers(streamed, f, n - TrailingWs(f))
    <3>1. \A i \in 1 .. n : streamed[i] = f[i].tok
      <4> TAKE i \in 1 .. n
      <4>1. i \in 1 .. Len(ids)
        BY <1>2, <2>1
      <4>2. f[i] = ids[i]
        BY <1>2, <2>2, <4>1
      <4>. QED  BY <1>4, <4>1, <4>2
    <3>2. n - TrailingWs(f) \in 0 .. n /\ n <= Len(streamed)
      BY <1>4, <2>1, <2>3
    <3>. QED  BY <1>2, <1>4, <2>1, <3>1, <3>2 DEF Covers
  <2>5. req.logprobs => logprobs' = Toks(f)
    <3> HAVE req.logprobs
    <3>1. lps \in Seq(Int) /\ Len(lps) = Len(all) /\ lps = Toks(all)
      BY <1>2, <1>3, ToksSeq
    <3>2. Len(lps) >= 1
      BY <1>2, <3>1
    <3>3. lps # <<>>
      BY <3>2
    <3>. QED  BY <1>6, <2>2, <3>1, <3>3 DEF n
  <2>6. ids' = f
    BY <1>6 DEF f, n
  <2>. QED  BY <1>6, <2>2, <2>4, <2>5, <2>6
<1>7. EmitCuts(all, tok, withLp)
  BY DEF all, t
<1>. QED  BY <1>5, <1>6, <1>7 DEF EmitCuts, lps

-----------------------------------------------------------------------------
(* The invariant                                                            *)

Here == req.prompt + Len(ids)
Base == Positions(req.prompt, req.pads)

(* The passes have computed the first n tokens.                             *)
Computed(n) == kv = Greedy(n) /\ lin = Greedy(n) /\ logits = Greedy(n)

ReqInv == pc # "idle" =>
  /\ req \in [prompt : Nat \ {0}, pads : Nat, maxNew : Nat,
              spec : 1 .. Margin + 1, mtp : BOOLEAN, logprobs : BOOLEAN]
  /\ req.mtp => req.pads = 0
  /\ req.prompt + req.maxNew + Margin <= MaxSeq

Running == {"loop", "feed", "verify", "rollback", "replay", "accept", "bonus"}

(* Result, stream and logprobs.                                             *)
OutInv ==
  /\ ids \in Seq(Token)
  /\ pc \in {"idle", "prefill"} => ids = <<>> /\ logprobs = <<>> /\ streamed = <<>>
  /\ pc \in Running => streamed = Toks(ids)
  /\ pc = "finish" => Covers(streamed, ids, Len(ids) - TrailingWs(ids))
  /\ pc = "done" => Covers(streamed, ids, Len(ids))
  /\ pc # "idle" /\ req.logprobs => logprobs = Toks(ids)

(* Only the MTP loop has drafts, and only while a token may be emitted.     *)
DraftsAllowed ==
  /\ pc \in {"verify", "rollback", "replay", "accept", "bonus"} => UseMtp
  /\ pc \in {"verify", "rollback", "replay", "accept", "feed", "bonus"} => Len(ids) < req.maxNew

AtLoop == pc \in {"loop", "verify"} =>
  /\ Computed(Here) /\ tokens = Greedy(Here)
  /\ nextPos = Base + Len(ids)
  /\ Len(ids) <= req.maxNew

AtFeed == pc \in {"feed", "bonus"} =>
  /\ Len(ids) >= 1 /\ Computed(Here - 1)
  /\ nextPos = Base + Len(ids) - 1
  /\ tokens = Greedy(IF pc = "feed" THEN Here ELSE Here - 1)

SnapHere == snap = [kv |-> Here, lin |-> Greedy(Here), tokens |-> Greedy(Here)]

AtVerify == pc = "verify" =>
  SnapHere /\ \E right \in 1 .. req.spec : drafts = Guess(Here, req.spec, right)

AtRollback == pc = "rollback" =>
  /\ SnapHere
  /\ \E d \in Seq(Int) : kv = Greedy(Here) \o d
  /\ \E a \in 1 .. req.spec : accepted = Seg(Here, a)

AtReplay == pc = "replay" =>
  /\ kv = Greedy(Here) /\ lin = Greedy(Here) /\ tokens = Greedy(Here)
  /\ nextPos = Base + Len(ids)
  /\ \E a \in 1 .. req.spec : accepted = Seg(Here, a)

AtAccept == pc = "accept" =>
  /\ tokens = Greedy(Here)
  /\ \E a \in 0 .. req.spec :
       accepted = Seg(Here, a) /\ Computed(Here + a) /\ nextPos = Base + Len(ids) + a

CacheInv ==
  /\ DraftsAllowed /\ AtLoop /\ AtFeed /\ AtVerify /\ AtRollback /\ AtReplay /\ AtAccept
  /\ KvFits

IInv == ReqInv /\ OwnImages /\ OutInv /\ CacheInv

(* What the arithmetic of the steps needs to know of the request.           *)
LEMMA Facts ==
  ASSUME IInv, pc # "idle"
  PROVE  /\ Here \in Nat /\ Len(ids) \in Nat /\ Base \in Int
         /\ req.prompt \in Nat \ {0} /\ req.spec \in Nat /\ req.maxNew \in Nat
         /\ req.mtp => Base = req.prompt
         /\ MaxSeq \in Nat /\ Margin \in Nat
<1>1. Len(ids) \in Nat
  BY LenProperties DEF IInv, OutInv
<1>2. req \in [prompt : Nat \ {0}, pads : Nat, maxNew : Nat,
               spec : 1 .. Margin + 1, mtp : BOOLEAN, logprobs : BOOLEAN]
  BY DEF IInv, ReqInv
<1>3. req.prompt \in Nat \ {0} /\ req.pads \in Nat /\ req.spec \in 1 .. Margin + 1
      /\ req.maxNew \in Nat
  BY <1>2
<1>4. Base \in Int /\ (req.pads = 0 => Base = req.prompt)
  BY <1>3, PositionsInt DEF Base
<1>. QED
  BY <1>1, <1>3, <1>4, GenerationAssumption DEF Here, IInv, ReqInv, GenerationAssumption

(* What the margin is for: while a token may be emitted, all the drafts of  *)
(* a request have room after the tokens so far.                             *)
LEMMA DraftsHaveRoom ==
  ASSUME IInv, pc # "idle", Len(ids) < req.maxNew, NEW a \in Nat, a <= req.spec
  PROVE  Here + a \in Nat /\ Here + a <= MaxSeq
<1>1. /\ req.prompt \in Nat /\ Len(ids) \in Nat /\ req.maxNew \in Nat /\ Margin \in Nat
      /\ req.spec \in Nat /\ MaxSeq \in Nat /\ Here = req.prompt + Len(ids)
  BY Facts DEF Here
<1>2. req.spec \in 1 .. Margin + 1 /\ req.prompt + req.maxNew + Margin <= MaxSeq
  BY DEF IInv, ReqInv
<1> DEFINE p == req.prompt
           n == Len(ids)
           m == req.maxNew
           s == req.spec
<1>3. /\ p \in Nat /\ n \in Nat /\ m \in Nat /\ s \in Nat /\ Margin \in Nat /\ MaxSeq \in Nat
      /\ s <= Margin + 1 /\ p + m + Margin <= MaxSeq /\ n < m /\ a <= s
      /\ Here = p + n
  BY <1>1, <1>2
<1> HIDE DEF p, n, m, s
<1>4. a <= Margin + 1 /\ n + 1 <= m
  BY <1>3
<1>5. p + n + a <= p + m + Margin
  BY <1>3, <1>4
<1>. QED  BY <1>3, <1>5

(* The sampled token is the next greedy one.                                *)
LEMMA SampledHere ==
  ASSUME NEW n \in Nat, logits = Greedy(n)
  PROVE  Sampled(logits) = n
BY GreedySeq

-----------------------------------------------------------------------------
(* The steps that emit                                                      *)

(* A sampled token that stays brings its logprob along.                     *)
LEMMA StepOut ==
  ASSUME IInv, Step
  PROVE  /\ OutInv'
         /\ pc = "loop" /\ pc' \in {"feed", "finish"}
         /\ pc' = "feed" => /\ Len(ids') = Len(ids) + 1 /\ Len(ids') < req.maxNew
                            /\ tokens' = Append(tokens, Here)
<1>1. pc = "loop" /\ Len(ids) < req.maxNew /\ req' = req
  BY DEF Step, LoopHead
<1>2. Sampled(logits) = Here /\ Here \in Int
  BY <1>1, Facts, SampledHere DEF IInv, CacheInv, AtLoop, Computed
<1>3. /\ ids \in Seq(Token) /\ streamed = Toks(ids)
      /\ req.logprobs => logprobs = Toks(ids)
  BY <1>1 DEF IInv, OutInv, Running
<1>4. CASE EmitEos(pc' = "finish" /\ UNCHANGED tokens)
  <2>1. ids' = ids /\ logprobs' = logprobs /\ streamed' = streamed /\ pc' = "finish"
    BY <1>4 DEF EmitEos, outVars
  <2>2. Covers(streamed, ids, Len(ids) - TrailingWs(ids))
    BY <1>3, WholeCovers
  <2>. QED  BY <1>1, <1>3, <2>1, <2>2 DEF OutInv, Running
<1>5. ASSUME NEW ws \in BOOLEAN,
             \/ /\ EmitKeeps(Append(ids, [tok |-> Here, ws |-> ws]), Here, TRUE)
                /\ \/ /\ Len(Append(ids, [tok |-> Here, ws |-> ws])) < req.maxNew
                      /\ pc' = "feed" /\ tokens' = Append(tokens, Here)
                   \/ pc' = "finish"
             \/ EmitCuts(Append(ids, [tok |-> Here, ws |-> ws]), Here, TRUE) /\ pc' = "finish"
      PROVE  /\ OutInv'
             /\ pc' \in {"feed", "finish"}
             /\ pc' = "feed" => /\ Len(ids') = Len(ids) + 1 /\ Len(ids') < req.maxNew
                                /\ tokens' = Append(tokens, Here)
  <2>1. CASE EmitKeeps(Append(ids, [tok |-> Here, ws |-> ws]), Here, TRUE)
    <3>1. /\ ids' \in Seq(Token) /\ Len(ids') = Len(ids) + 1 /\ streamed' = Toks(ids')
          /\ req.logprobs => logprobs' = Toks(ids')
      BY <1>2, <1>3, <2>1, KeepOut
    <3>2. Covers(streamed', ids', Len(ids') - TrailingWs(ids'))
      BY <3>1, WholeCovers
    <3>. QED  BY <1>1, <1>5, <2>1, <3>1, <3>2 DEF OutInv, Running, EmitKeeps, EmitCuts
  <2>2. CASE EmitCuts(Append(ids, [tok |-> Here, ws |-> ws]), Here, TRUE) /\ pc' = "finish"
    <3>1. /\ ids' \in Seq(Token) /\ Covers(streamed', ids', Len(ids') - TrailingWs(ids'))
          /\ req.logprobs => logprobs' = Toks(ids')
      BY <1>2, <1>3, <2>2, CutOut
    <3>. QED  BY <1>1, <2>2, <3>1 DEF OutInv, Running
  <2>. QED  BY <1>5, <2>1, <2>2
<1>6. CASE Emit(Sampled(logits), TRUE,
                pc' = "feed" /\ tokens' = Append(tokens, Sampled(logits)),
                pc' = "finish" /\ UNCHANGED tokens)
  BY <1>1, <1>2, <1>5, <1>6 DEF Emit, EmitKeeps, EmitCuts, Lps
<1>. QED  BY <1>1, <1>4, <1>6 DEF Step

(* An accepted draft is emitted.  No logprob is, since the MTP loop has none. *)
LEMMA AcceptOut ==
  ASSUME IInv, Accept
  PROVE  /\ OutInv'
         /\ pc = "accept" /\ pc' \in {"accept", "finish"}
         /\ pc' = "accept" => Len(ids') = Len(ids) + 1 /\ Len(ids') < req.maxNew
<1>1. pc = "accept" /\ req' = req /\ UseMtp
  BY DEF Accept, IInv, CacheInv, DraftsAllowed
<1>2. Head(accepted) = Here /\ Here \in Int
  <2>1. PICK a \in 0 .. req.spec : accepted = Seg(Here, a)
    BY <1>1 DEF IInv, CacheInv, AtAccept
  <2>2. Here \in Nat /\ a \in Nat /\ accepted # <<>>
    BY <1>1, Facts DEF Accept
  <2>3. /\ accepted \in Seq(Int) /\ Len(accepted) = a
        /\ \A i \in 1 .. a : accepted[i] = Here + i - 1
    BY <2>1, <2>2, SegSeq
  <2>4. a >= 1
    BY <2>2, <2>3
  <2>. QED  BY <2>2, <2>3, <2>4
<1>3. /\ ids \in Seq(Token) /\ streamed = Toks(ids)
      /\ ~ req.logprobs
  BY <1>1 DEF IInv, OutInv, Running, UseMtp
<1>4. CASE EmitEos(pc' = "finish")
  <2>1. ids' = ids /\ logprobs' = logprobs /\ streamed' = streamed /\ pc' = "finish"
    BY <1>4 DEF EmitEos, outVars
  <2>2. Covers(streamed, ids, Len(ids) - TrailingWs(ids))
    BY <1>3, WholeCovers
  <2>. QED  BY <1>1, <1>3, <2>1, <2>2 DEF OutInv, Running
<1>5. ASSUME NEW ws \in BOOLEAN,
             \/ /\ EmitKeeps(Append(ids, [tok |-> Here, ws |-> ws]), Here, FALSE)
                /\ \/ /\ Len(Append(ids, [tok |-> Here, ws |-> ws])) < req.maxNew
                      /\ pc' = "accept"
                   \/ pc' = "finish"
             \/ EmitCuts(Append(ids, [tok |-> Here, ws |-> ws]), Here, FALSE) /\ pc' = "finish"
      PROVE  /\ OutInv'
             /\ pc' \in {"accept", "finish"}
             /\ pc' = "accept" => Len(ids') = Len(ids) + 1 /\ Len(ids') < req.maxNew
  <2>1. CASE EmitKeeps(Append(ids, [tok |-> Here, ws |-> ws]), Here, FALSE)
    <3>1. ids' \in Seq(Token) /\ Len(ids') = Len(ids) + 1 /\ streamed' = Toks(ids')
      BY <1>2, <1>3, <2>1, KeepOut
    <3>2. Covers(streamed', ids', Len(ids') - TrailingWs(ids'))
      BY <3>1, WholeCovers
    <3>. QED  BY <1>1, <1>3, <1>5, <2>1, <3>1, <3>2 DEF OutInv, Running, EmitKeeps, EmitCuts
  <2>2. CASE EmitCuts(Append(ids, [tok |-> Here, ws |-> ws]), Here, FALSE) /\ pc' = "finish"
    <3>1. ids' \in Seq(Token) /\ Covers(streamed', ids', Len(ids') - TrailingWs(ids'))
      BY <1>2, <1>3, <2>2, CutOut
    <3>. QED  BY <1>1, <1>3, <2>2, <3>1 DEF OutInv, Running
  <2>. QED  BY <1>5, <2>1, <2>2
<1>6. CASE Emit(Head(accepted), FALSE, pc' = "accept", pc' = "finish")
  BY <1>1, <1>2, <1>5, <1>6 DEF Emit, EmitKeeps, EmitCuts, Lps
<1>. QED  BY <1>1, <1>4, <1>6 DEF Accept

(* The token after the drafts.                                              *)
LEMMA BonusOut ==
  ASSUME IInv, Bonus
  PROVE  /\ OutInv'
         /\ pc = "accept" /\ pc' \in {"bonus", "finish"}
         /\ pc' = "bonus" => Len(ids') = Len(ids) + 1 /\ Len(ids') < req.maxNew
<1>1. pc = "accept" /\ req' = req /\ UseMtp
  BY DEF Bonus, IInv, CacheInv, DraftsAllowed
<1>2. Sampled(logits) = Here /\ Here \in Int
  <2>1. PICK a \in 0 .. req.spec : accepted = Seg(Here, a) /\ logits = Greedy(Here + a)
    BY <1>1 DEF IInv, CacheInv, AtAccept, Computed
  <2>2. Here \in Nat /\ a \in Nat /\ accepted = <<>>
    BY <1>1, Facts DEF Bonus
  <2>3. a = 0
    <3>1. Len(accepted) = a
      BY <2>1, <2>2, SegSeq
    <3>. QED  BY <2>2, <3>1
  <2>. QED  BY <2>1, <2>2, <2>3, SampledHere
<1>3. /\ ids \in Seq(Token) /\ streamed = Toks(ids)
      /\ ~ req.logprobs
  BY <1>1 DEF IInv, OutInv, Running, UseMtp
<1>4. CASE EmitEos(pc' = "finish")
  <2>1. ids' = ids /\ logprobs' = logprobs /\ streamed' = streamed /\ pc' = "finish"
    BY <1>4 DEF EmitEos, outVars
  <2>2. Covers(streamed, ids, Len(ids) - TrailingWs(ids))
    BY <1>3, WholeCovers
  <2>. QED  BY <1>1, <1>3, <2>1, <2>2 DEF OutInv, Running
<1>5. ASSUME NEW ws \in BOOLEAN,
             \/ /\ EmitKeeps(Append(ids, [tok |-> Here, ws |-> ws]), Here, TRUE)
                /\ \/ /\ Len(Append(ids, [tok |-> Here, ws |-> ws])) < req.maxNew
                      /\ pc' = "bonus"
                   \/ pc' = "finish"
             \/ EmitCuts(Append(ids, [tok |-> Here, ws |-> ws]), Here, TRUE) /\ pc' = "finish"
      PROVE  /\ OutInv'
             /\ pc' \in {"bonus", "finish"}
             /\ pc' = "bonus" => Len(ids') = Len(ids) + 1 /\ Len(ids') < req.maxNew
  <2>1. CASE EmitKeeps(Append(ids, [tok |-> Here, ws |-> ws]), Here, TRUE)
    <3>1. ids' \in Seq(Token) /\ Len(ids') = Len(ids) + 1 /\ streamed' = Toks(ids')
      BY <1>2, <1>3, <2>1, KeepOut
    <3>2. Covers(streamed', ids', Len(ids') - TrailingWs(ids'))
      BY <3>1, WholeCovers
    <3>. QED  BY <1>1, <1>3, <1>5, <2>1, <3>1, <3>2 DEF OutInv, Running, EmitKeeps, EmitCuts
  <2>2. CASE EmitCuts(Append(ids, [tok |-> Here, ws |-> ws]), Here, TRUE) /\ pc' = "finish"
    <3>1. ids' \in Seq(Token) /\ Covers(streamed', ids', Len(ids') - TrailingWs(ids'))
      BY <1>2, <1>3, <2>2, CutOut
    <3>. QED  BY <1>1, <1>3, <2>2, <3>1 DEF OutInv, Running
  <2>. QED  BY <1>5, <2>1, <2>2
<1>6. CASE Emit(Sampled(logits), TRUE, pc' = "bonus", pc' = "finish")
  BY <1>1, <1>2, <1>5, <1>6 DEF Emit, EmitKeeps, EmitCuts, Lps
<1>. QED  BY <1>1, <1>4, <1>6 DEF Bonus

(* Trailing blanks leave the result and its logprobs together.              *)
LEMMA FinishOut ==
  ASSUME IInv, Finish
  PROVE  OutInv'
<1> DEFINE n == TrailingWs(ids)
           k == Len(ids) - n
           f == Front(ids, k)
<1>1. /\ ids \in Seq(Token) /\ Covers(streamed, ids, k)
      /\ req.logprobs => logprobs = Toks(ids)
  BY DEF Finish, IInv, OutInv
<1>2. n \in 0 .. Len(ids) /\ Len(ids) \in Nat
  BY <1>1, TrailingWsType, LenProperties
<1>3. /\ ids' = f /\ streamed' = streamed /\ req' = req /\ pc' = "done"
      /\ logprobs' = Front(logprobs, IF Len(logprobs) > n THEN Len(logprobs) - n ELSE 0)
  BY DEF Finish, TrimmedLps
<1> HIDE DEF n
<1>4. k \in 0 .. Len(ids)
  BY <1>2
<1>5. /\ f \in Seq(Token) /\ Len(f) = k /\ Toks(f) = Front(Toks(ids), k)
      /\ \A i \in 1 .. k : f[i] = ids[i]
  <2> HIDE DEF k
  <2>. QED  BY <1>1, <1>4, ToksFront
<1>6. Covers(streamed, f, Len(f))
  <2> HIDE DEF k, f
  <2>. QED  BY <1>1, <1>5 DEF Covers
<1>7. req.logprobs => logprobs' = Toks(f)
  <2> HAVE req.logprobs
  <2>1. Len(logprobs) = Len(ids) /\ logprobs = Toks(ids)
    BY <1>1, ToksSeq
  <2>2. (IF Len(logprobs) > n THEN Len(logprobs) - n ELSE 0) = k
    BY <1>2, <2>1
  <2>. QED  BY <1>3, <1>5, <2>1, <2>2
<1>. QED  BY <1>3, <1>5, <1>6, <1>7 DEF OutInv, Running

(* Between requests there is no result.                                     *)
LEMMA EmptyOut ==
  ASSUME pc' = "idle", ids' = <<>>, logprobs' = <<>>, streamed' = <<>>
  PROVE  OutInv'
BY DEF OutInv, Running

(* Every step keeps result, stream and logprobs together.                   *)
LEMMA OutStep ==
  ASSUME IInv, [Next]_vars
  PROVE  OutInv'
<1> USE DEF IInv
<1>1. CASE Start
  <2>1. pc = "idle" /\ pc' \in {"idle", "prefill"} /\ ids' = ids /\ logprobs' = logprobs
        /\ streamed' = streamed
    BY <1>1 DEF Start, outVars
  <2>2. ids = <<>> /\ logprobs = <<>> /\ streamed = <<>>
    BY <2>1 DEF OutInv
  <2>3. Toks(<<>>) = <<>>
    BY DEF Toks
  <2>. QED  BY <2>1, <2>2, <2>3 DEF OutInv, Running
<1>2. CASE ImagesThrow
  BY <1>2 DEF ImagesThrow, outVars, OutInv, Running
<1>3. CASE Prefill
  <2>1. /\ ids = <<>> /\ streamed = <<>> /\ pc' = "loop" /\ pc = "prefill" /\ req' = req
        /\ ids' = ids /\ logprobs' = logprobs /\ streamed' = streamed
    BY <1>3 DEF Prefill, outVars, OutInv
  <2>2. Toks(<<>>) = <<>>
    BY DEF Toks
  <2>. QED  BY <2>1, <2>2 DEF OutInv, Running
<1>4. CASE Step
  BY <1>4, StepOut
<1>5. CASE Feed \/ Propose \/ Verify \/ Rollback \/ Replay \/ FeedBonus
  <2>1. /\ pc \in Running /\ pc' \in Running /\ req' = req
        /\ ids' = ids /\ logprobs' = logprobs /\ streamed' = streamed
    BY <1>5 DEF Feed, Propose, Verify, Rollback, Replay, FeedBonus, LoopHead, Running, outVars
  <2>. QED  BY <2>1 DEF OutInv, Running
<1>6. CASE Accept
  BY <1>6, AcceptOut
<1>7. CASE Bonus
  BY <1>7, BonusOut
<1>8. CASE LoopEnds
  <2>1. /\ pc = "loop" /\ pc' = "finish" /\ req' = req
        /\ ids' = ids /\ logprobs' = logprobs /\ streamed' = streamed
    BY <1>8 DEF LoopEnds, outVars
  <2>2. streamed = Toks(ids) /\ ids \in Seq(Token)
    BY <2>1 DEF OutInv, Running
  <2>3. Covers(streamed, ids, Len(ids) - TrailingWs(ids))
    BY <2>2, WholeCovers
  <2>. QED  BY <2>1, <2>2, <2>3 DEF OutInv, Running
<1>9. CASE Finish
  BY <1>9, FinishOut
<1>10. CASE Return \/ Fail
  BY <1>10, EmptyOut DEF Return, Fail, Throws
<1>11. CASE UNCHANGED vars
  BY <1>11 DEF vars, outVars, OutInv, Running
<1>. QED  BY <1>1, <1>2, <1>3, <1>4, <1>5, <1>6, <1>7, <1>8, <1>9, <1>10, <1>11 DEF Next

-----------------------------------------------------------------------------
(* The request                                                              *)

(* The clamp leaves room for the prompt, the tokens and the margin; a       *)
(* prompt starts with its own images.                                       *)
LEMMA RequestStep ==
  ASSUME IInv, [Next]_vars
  PROVE  ReqInv' /\ OwnImages'
<1>1. CASE Start
  <2> PICK r \in Requests : Begin(r) /\ pc' = IF Room(r) <= 0 THEN "idle" ELSE "prefill"
    BY <1>1 DEF Start
  <2>1. /\ r \in [prompt : Nat \ {0}, pads : Nat, maxNew : Nat,
                  spec : 1 .. Margin + 1, mtp : BOOLEAN, logprobs : BOOLEAN]
        /\ r.mtp => r.pads = 0
        /\ MaxSeq \in Nat /\ Margin \in Nat
    BY GenerationAssumption DEF GenerationAssumption
  <2>2. CASE Room(r) <= 0
    BY <2>2 DEF ReqInv, OwnImages
  <2>3. CASE ~ (Room(r) <= 0)
    <3> DEFINE m == IF r.maxNew > Room(r) THEN Room(r) ELSE r.maxNew
    <3>1. Room(r) = MaxSeq - r.prompt - Margin /\ r.prompt \in Nat /\ r.maxNew \in Nat
      BY <2>1 DEF Room
    <3>2. m \in Nat /\ r.prompt + m + Margin <= MaxSeq
      BY <2>1, <2>3, <3>1
    <3> HIDE DEF m
    <3>3. req' = [r EXCEPT !.maxNew = m] /\ embeds' = r.pads
      BY DEF Begin, m
    <3>4. /\ req' \in [prompt : Nat \ {0}, pads : Nat, maxNew : Nat,
                       spec : 1 .. Margin + 1, mtp : BOOLEAN, logprobs : BOOLEAN]
          /\ req'.mtp = r.mtp /\ req'.pads = r.pads /\ req'.prompt = r.prompt
          /\ req'.maxNew = m
      BY <2>1, <3>2, <3>3
    <3>. QED  BY <2>1, <3>2, <3>3, <3>4 DEF ReqInv, OwnImages
  <2>. QED  BY <2>2, <2>3
<1>2. CASE ImagesThrow
  BY <1>2 DEF ImagesThrow, ReqInv, OwnImages
<1>3. CASE Return \/ Fail
  BY <1>3 DEF Return, Fail, Throws, ReqInv, OwnImages
<1>4. CASE \/ Prefill \/ Step \/ Feed \/ Propose \/ Verify \/ Rollback \/ Replay
           \/ Accept \/ Bonus \/ FeedBonus \/ LoopEnds \/ Finish
  <2>1. req' = req /\ pc # "idle" /\ ReqInv
    BY <1>4 DEF Prefill, Step, Feed, Propose, Verify, Rollback, Replay, Accept, Bonus,
         FeedBonus, LoopEnds, Finish, LoopHead, IInv
  <2>2. pc' # "prefill"
    BY <1>4, StepOut, AcceptOut, BonusOut
       DEF Prefill, Feed, Propose, Verify, Rollback, Replay, FeedBonus, LoopEnds, Finish
  <2>. QED  BY <2>1, <2>2 DEF ReqInv, OwnImages
<1>5. CASE UNCHANGED vars
  BY <1>5 DEF vars, modelVars, IInv, ReqInv, OwnImages
<1>. QED  BY <1>1, <1>2, <1>3, <1>4, <1>5 DEF Next

-----------------------------------------------------------------------------
(* The caches, one lemma for each part of a round                           *)

USE DEF CacheInv

(* The prompt, with the images of the request.                              *)
LEMMA PrefillCaches ==
  ASSUME IInv, Prefill
  PROVE  CacheInv'
<1>1. pc = "prefill" /\ pc' = "loop" /\ req' = req /\ ids' = ids /\ ids = <<>>
  BY DEF Prefill, outVars, IInv, OutInv
<1>2. /\ kv' = Greedy(req.prompt) /\ lin' = Greedy(req.prompt)
      /\ tokens' = Greedy(req.prompt) /\ logits' = Greedy(req.prompt)
      /\ nextPos' = Base
  BY <1>1 DEF Prefill, Base, IInv, OwnImages
<1>3. Here' = req.prompt /\ Base' = Base /\ Len(ids') = 0 /\ Base \in Int
      /\ req.prompt \in Nat /\ req.maxNew \in Nat
  BY <1>1, Facts DEF Here, Base
<1>4. Len(Greedy(req.prompt)) = req.prompt
  BY <1>3, GreedySeq
<1>5. req.prompt <= MaxSeq
  BY <1>1, Facts DEF IInv, ReqInv
<1>6. KvFits' /\ AtLoop'
  BY <1>1, <1>2, <1>3, <1>4, <1>5 DEF KvFits, AtLoop, Computed
<1>. QED
  BY <1>1, <1>6 DEF DraftsAllowed, AtFeed, AtVerify, AtRollback, AtReplay, AtAccept

(* A step that emits changes no cache but the token list.                   *)
LEMMA StepCaches ==
  ASSUME IInv, Step
  PROVE  CacheInv'
<1>1. /\ pc = "loop" /\ req' = req /\ kv' = kv /\ lin' = lin /\ logits' = logits
      /\ nextPos' = nextPos
  BY DEF Step, LoopHead, modelVars
<1>2. Computed(Here) /\ tokens = Greedy(Here) /\ nextPos = Base + Len(ids) /\ KvFits
  BY <1>1 DEF IInv, AtLoop
<1>3. Here \in Nat /\ Base \in Int /\ Len(ids) \in Nat /\ Here = req.prompt + Len(ids)
      /\ req.prompt \in Nat \ {0}
  BY <1>1, Facts DEF Here
<1>4. CASE pc' = "finish"
  BY <1>1, <1>2, <1>4 DEF KvFits, DraftsAllowed, AtLoop, AtFeed, AtVerify, AtRollback,
       AtReplay, AtAccept
<1>5. CASE pc' = "feed"
  <2>1. /\ Len(ids') = Len(ids) + 1 /\ Len(ids') < req.maxNew
        /\ tokens' = Append(tokens, Here)
    BY <1>5, StepOut
  <2>2. Here' = Here + 1 /\ Here' - 1 = Here /\ Base' = Base
    BY <1>1, <1>3, <2>1 DEF Here, Base
  <2>3. tokens' = Greedy(Here')
    BY <1>2, <1>3, <2>1, <2>2, GreedyAppend
  <2>4. AtFeed'
    <3>1. kv' = Greedy(Here' - 1) /\ lin' = Greedy(Here' - 1) /\ logits' = Greedy(Here' - 1)
      BY <1>1, <1>2, <2>2 DEF Computed
    <3>2. Len(ids') >= 1 /\ nextPos' = Base' + Len(ids') - 1
      BY <1>1, <1>2, <1>3, <2>1, <2>2
    <3>. QED  BY <1>5, <2>3, <3>1, <3>2 DEF AtFeed, Computed
  <2>. QED
    BY <1>1, <1>2, <1>5, <2>1, <2>4 DEF KvFits, DraftsAllowed, AtLoop, AtVerify, AtRollback,
         AtReplay, AtAccept
<1>. QED  BY <1>4, <1>5, StepOut

(* The token is fed back, in the plain loop and after the drafts.           *)
LEMMA FeedCaches ==
  ASSUME IInv, Feed \/ FeedBonus
  PROVE  CacheInv'
<1>1. pc \in {"feed", "bonus"} /\ pc' = "loop" /\ req' = req /\ ids' = ids
  BY DEF Feed, FeedBonus, outVars
<1>2. /\ Len(ids) < req.maxNew /\ Computed(Here - 1) /\ nextPos = Base + Len(ids) - 1
      /\ tokens = Greedy(IF pc = "feed" THEN Here ELSE Here - 1)
  BY <1>1 DEF IInv, AtFeed, DraftsAllowed
<1>3. /\ Here \in Nat /\ Base \in Int /\ Len(ids) \in Nat /\ req.prompt \in Nat \ {0}
      /\ Here - 1 \in Nat /\ Here = (Here - 1) + 1 /\ Here = req.prompt + Len(ids)
      /\ req.maxNew \in Nat /\ MaxSeq \in Nat /\ Margin \in Nat
  BY <1>1, Facts DEF Here
<1>4. Sampled(logits) = Here - 1
  BY <1>2, <1>3, SampledHere DEF Computed
<1>5. pc = "feed" => tokens[Len(tokens)] = Here - 1
  <2> HAVE pc = "feed"
  <2>1. tokens = Greedy(Here) /\ Here \in 1 .. Here
    BY <1>2, <1>3
  <2>. QED  BY <1>3, <2>1, GreedySeq
<1>6. Absorb(<<Here - 1>>) /\ logits' = kv'
  BY <1>1, <1>4, <1>5 DEF Feed, FeedBonus
<1>7. Greedy(Here - 1) \o <<Here - 1>> = Greedy(Here)
      /\ Append(Greedy(Here - 1), Here - 1) = Greedy(Here)
  BY <1>3, GreedyAppend
<1>8. kv' = Greedy(Here) /\ lin' = Greedy(Here) /\ nextPos' = nextPos + 1
  BY <1>2, <1>6, <1>7 DEF Absorb, Computed
<1>9. tokens' = Greedy(Here)
  BY <1>1, <1>2, <1>4, <1>7 DEF Feed, FeedBonus
<1>10. Here' = Here /\ Base' = Base
  BY <1>1 DEF Here, Base
<1>11. Here <= MaxSeq
  BY <1>1, <1>2, <1>3 DEF IInv, ReqInv
<1>12. KvFits'
  BY <1>3, <1>8, <1>11, GreedySeq DEF KvFits
<1>13. AtLoop'
  BY <1>1, <1>2, <1>3, <1>6, <1>8, <1>9, <1>10 DEF AtLoop, Computed
<1>. QED
  BY <1>1, <1>12, <1>13 DEF DraftsAllowed, AtFeed, AtVerify, AtRollback, AtReplay, AtAccept

(* The snapshot is that of the round's start, and the guesses follow it.    *)
LEMMA ProposeCaches ==
  ASSUME IInv, Propose
  PROVE  CacheInv'
<1>1. /\ pc = "loop" /\ pc' = "verify" /\ UseMtp /\ Len(ids) < req.maxNew
      /\ req' = req /\ ids' = ids /\ kv' = kv /\ lin' = lin /\ tokens' = tokens
      /\ logits' = logits /\ nextPos' = nextPos
      /\ snap' = [kv |-> Len(kv), lin |-> lin, tokens |-> tokens]
  BY DEF Propose, LoopHead, outVars, modelVars, cacheVars
<1>2. AtLoop /\ KvFits /\ Computed(Here) /\ tokens = Greedy(Here)
  BY <1>1 DEF IInv, AtLoop
<1>3. Here \in Nat /\ Here' = Here /\ Base' = Base
  BY <1>1, Facts DEF Here, Base
<1>4. SnapHere'
  BY <1>1, <1>2, <1>3, GreedySeq DEF SnapHere, Computed
<1>5. Sampled(logits) = Here
  BY <1>2, <1>3, SampledHere DEF Computed
<1>6. \E right \in 1 .. req.spec : drafts' = Guess(Here, req.spec, right)
  BY <1>5 DEF Propose, Guess
<1>7. AtLoop'
  BY <1>1, <1>2, <1>3 DEF AtLoop, Computed
<1>8. AtVerify'
  BY <1>1, <1>3, <1>4, <1>6 DEF AtVerify
<1>. QED
  BY <1>1, <1>2, <1>7, <1>8 DEF DraftsAllowed, UseMtp, KvFits, AtFeed, AtRollback, AtReplay,
       AtAccept

(* All drafts go through the caches, which the margin has room for; only    *)
(* the right ones are accepted.                                             *)
LEMMA VerifyCaches ==
  ASSUME IInv, Verify
  PROVE  CacheInv'
<1>1. /\ pc = "verify" /\ req' = req /\ ids' = ids /\ tokens' = tokens /\ snap' = snap
      /\ Absorb(drafts) /\ accepted' = Accepted
      /\ \/ pc' = "rollback" /\ Len(accepted') < Len(drafts)
         \/ pc' = "accept" /\ logits' = kv' /\ ~ (Len(accepted') < Len(drafts))
  BY DEF Verify, outVars
<1>2. /\ UseMtp /\ Len(ids) < req.maxNew /\ Computed(Here) /\ tokens = Greedy(Here)
      /\ nextPos = Base + Len(ids) /\ SnapHere
  BY <1>1 DEF IInv, DraftsAllowed, AtLoop, AtVerify
<1>3. PICK right \in 1 .. req.spec : drafts = Guess(Here, req.spec, right)
  BY <1>1 DEF IInv, AtVerify
<1>4. /\ Here \in Nat /\ Base \in Int /\ Len(ids) \in Nat /\ req.spec \in Nat
      /\ right \in Nat /\ Here = req.prompt + Len(ids) /\ req.prompt \in Nat
      /\ req.maxNew \in Nat /\ MaxSeq \in Nat /\ Margin \in Nat
  BY <1>1, Facts DEF Here
<1>5. drafts \in Seq(Int) /\ Len(drafts) = req.spec
  BY <1>3, <1>4, GuessSeq
<1>6. accepted' = Seg(Here, right) /\ Len(accepted') = right
  <2>1. kv = Greedy(Here)
    BY <1>2 DEF Computed
  <2>2. Accepted = Seg(Here, right)
    BY <1>3, <1>4, <2>1, AcceptedIsRight
  <2>. QED  BY <1>1, <1>4, <2>2, SegSeq
<1>7. kv' = Greedy(Here) \o drafts /\ lin' = Greedy(Here) \o drafts
      /\ nextPos' = nextPos + req.spec
  BY <1>1, <1>2, <1>5 DEF Absorb, Computed
<1>8. Here' = Here /\ Base' = Base
  BY <1>1 DEF Here, Base
<1>9. KvFits'
  <2> DEFINE g == Greedy(Here)
  <2>1. g \in Seq(Int) /\ Len(g) = Here
    BY <1>4, GreedySeq
  <2> HIDE DEF g
  <2>2. Len(g \o drafts) = Len(g) + Len(drafts)
    BY <1>5, <2>1, ConcatProperties
  <2>4. Here + req.spec <= MaxSeq
    BY <1>1, <1>2, <1>4, DraftsHaveRoom
  <2>5. Len(kv') = Here + req.spec
    BY <1>5, <1>7, <2>1, <2>2 DEF g
  <2>. QED  BY <2>4, <2>5 DEF KvFits
<1>10. CASE pc' = "rollback"
  <2>1. AtRollback'
    BY <1>1, <1>2, <1>3, <1>5, <1>6, <1>7, <1>8 DEF AtRollback, SnapHere
  <2>. QED
    BY <1>1, <1>2, <1>9, <1>10, <2>1 DEF DraftsAllowed, UseMtp, AtLoop, AtFeed, AtVerify,
         AtReplay, AtAccept
<1>11. CASE pc' = "accept"
  <2>1. right = req.spec
    BY <1>1, <1>4, <1>5, <1>6, <1>11
  <2>2. drafts = Seg(Here, right)
    BY <1>3, <1>4, <2>1 DEF Guess, Seg
  <2>3. kv' = Greedy(Here + right) /\ lin' = Greedy(Here + right)
    BY <1>4, <1>7, <2>2, GreedySeg
  <2>4. nextPos' = Base + Len(ids) + right
    BY <1>2, <1>4, <1>7, <2>1
  <2>5. right \in 0 .. req.spec
    BY <1>4
  <2>6. AtAccept'
    BY <1>1, <1>2, <1>6, <1>8, <1>11, <2>3, <2>4, <2>5 DEF AtAccept, Computed
  <2>. QED
    BY <1>1, <1>2, <1>9, <1>11, <2>6 DEF DraftsAllowed, UseMtp, AtLoop, AtFeed, AtVerify,
         AtReplay, AtRollback
<1>. QED  BY <1>1, <1>10, <1>11

(* The cut KV cache and the copied linear state are those of the snapshot,  *)
(* and the position is, as long as no image has moved it.                   *)
LEMMA RollbackCaches ==
  ASSUME IInv, Rollback
  PROVE  CacheInv'
<1>1. /\ pc = "rollback" /\ pc' = "replay" /\ req' = req /\ ids' = ids
      /\ accepted' = accepted /\ nextPos' = snap.kv
      /\ kv' = Front(kv, snap.kv) /\ lin' = snap.lin /\ tokens' = snap.tokens
  BY DEF Rollback, Restore, outVars, draftVars
<1>2. /\ UseMtp /\ Len(ids) < req.maxNew /\ KvFits
      /\ snap.kv = Here /\ snap.lin = Greedy(Here) /\ snap.tokens = Greedy(Here)
      /\ \E a \in 1 .. req.spec : accepted = Seg(Here, a)
  BY <1>1 DEF IInv, DraftsAllowed, AtRollback, SnapHere
<1>3. PICK d \in Seq(Int) : kv = Greedy(Here) \o d
  BY <1>1 DEF IInv, AtRollback
<1>4. /\ Here \in Nat /\ Base = req.prompt /\ Here = req.prompt + Len(ids)
      /\ Len(ids) \in Nat /\ req.prompt \in Nat /\ req.maxNew \in Nat
      /\ MaxSeq \in Nat /\ Margin \in Nat
  BY <1>1, <1>2, Facts DEF Here, UseMtp
<1>5. kv' = Greedy(Here)
  BY <1>1, <1>2, <1>3, <1>4, GreedyCut
<1>6. Here' = Here /\ Base' = Base
  BY <1>1 DEF Here, Base
<1>7. Len(kv') = Here /\ Here <= MaxSeq
  <2>1. req.prompt + req.maxNew + Margin <= MaxSeq
    BY <1>1 DEF IInv, ReqInv
  <2>2. Len(Greedy(Here)) = Here
    BY <1>4, GreedySeq
  <2>3. Here <= MaxSeq
    BY <1>2, <1>4, <2>1
  <2>. QED  BY <1>5, <2>2, <2>3
<1>8. KvFits' /\ AtReplay'
  BY <1>1, <1>2, <1>4, <1>5, <1>6, <1>7 DEF KvFits, AtReplay
<1>. QED
  BY <1>1, <1>2, <1>8 DEF DraftsAllowed, UseMtp, AtLoop, AtFeed, AtVerify, AtRollback, AtAccept

(* The accepted drafts go in once more.                                     *)
LEMMA ReplayCaches ==
  ASSUME IInv, Replay
  PROVE  CacheInv'
<1>1. /\ pc = "replay" /\ pc' = "accept" /\ req' = req /\ ids' = ids
      /\ accepted' = accepted /\ Absorb(accepted) /\ logits' = kv' /\ tokens' = tokens
  BY DEF Replay, outVars, draftVars
<1>2. /\ UseMtp /\ Len(ids) < req.maxNew /\ nextPos = Base + Len(ids)
      /\ kv = Greedy(Here) /\ lin = Greedy(Here) /\ tokens = Greedy(Here)
  BY <1>1 DEF IInv, DraftsAllowed, AtReplay
<1>3. PICK a \in 1 .. req.spec : accepted = Seg(Here, a)
  BY <1>1 DEF IInv, AtReplay
<1>4. /\ Here \in Nat /\ Base \in Int /\ Len(ids) \in Nat /\ req.spec \in Nat
      /\ a \in Nat /\ Here = req.prompt + Len(ids) /\ req.prompt \in Nat
      /\ req.maxNew \in Nat /\ MaxSeq \in Nat /\ Margin \in Nat
  BY <1>1, Facts DEF Here
<1>5. Len(accepted) = a /\ Greedy(Here) \o accepted = Greedy(Here + a)
  BY <1>3, <1>4, SegSeq, GreedySeg
<1>6. /\ kv' = Greedy(Here + a) /\ lin' = Greedy(Here + a)
      /\ nextPos' = Base + Len(ids) + a
  BY <1>1, <1>2, <1>4, <1>5 DEF Absorb
<1>7. Here' = Here /\ Base' = Base
  BY <1>1 DEF Here, Base
<1>8. KvFits'
  <2>2. Here + a <= MaxSeq
    BY <1>1, <1>2, <1>4, DraftsHaveRoom
  <2>3. Here + a \in Nat
    BY <1>4
  <2>4. Len(kv') = Here + a
    BY <1>6, <2>3, GreedySeq
  <2>. QED  BY <2>2, <2>4 DEF KvFits
<1>9. a \in 0 .. req.spec
  BY <1>4
<1>10. AtAccept'
  BY <1>1, <1>2, <1>3, <1>6, <1>7, <1>9 DEF AtAccept, Computed
<1>. QED
  BY <1>1, <1>2, <1>8, <1>10 DEF DraftsAllowed, UseMtp, AtLoop, AtFeed, AtVerify,
       AtRollback, AtReplay

(* Each emitted draft moves from the accepted ones to the result.           *)
LEMMA AcceptCaches ==
  ASSUME IInv, Accept
  PROVE  CacheInv'
<1>1. /\ pc = "accept" /\ req' = req /\ kv' = kv /\ lin' = lin /\ logits' = logits
      /\ nextPos' = nextPos /\ accepted # <<>> /\ accepted' = Tail(accepted)
      /\ tokens' = Append(tokens, Head(accepted))
  BY DEF Accept, modelVars
<1>2. UseMtp /\ tokens = Greedy(Here) /\ KvFits
  BY <1>1 DEF IInv, DraftsAllowed, AtAccept
<1>3. PICK a \in 0 .. req.spec :
        accepted = Seg(Here, a) /\ Computed(Here + a) /\ nextPos = Base + Len(ids) + a
  BY <1>1 DEF IInv, AtAccept
<1>4. /\ Here \in Nat /\ Base \in Int /\ Len(ids) \in Nat /\ req.spec \in Nat /\ a \in Nat
  BY <1>1, Facts
<1>5. CASE pc' = "finish"
  BY <1>1, <1>2, <1>5 DEF KvFits, DraftsAllowed, AtLoop, AtFeed, AtVerify, AtRollback,
       AtReplay, AtAccept
<1>6. CASE pc' = "accept"
  <2>1. Len(ids') = Len(ids) + 1 /\ Len(ids') < req.maxNew
    BY <1>6, AcceptOut
  <2>2. Here' = Here + 1 /\ Base' = Base
    BY <1>1, <1>4, <2>1, Facts DEF Here, Base
  <2>3. /\ accepted \in Seq(Int) /\ Len(accepted) = a
        /\ \A i \in 1 .. a : accepted[i] = Here + i - 1
    BY <1>3, <1>4, SegSeq
  <2>4. a >= 1 /\ a - 1 \in Nat /\ a - 1 \in 0 .. req.spec
    BY <1>1, <1>4, <2>3
  <2>5. Tail(accepted) = Seg(Here + 1, a - 1)
    <3> DEFINE g == Seg(Here + 1, a - 1)
    <3>1. /\ g \in Seq(Int) /\ Len(g) = a - 1
          /\ \A i \in 1 .. a - 1 : g[i] = (Here + 1) + i - 1
      <4> DEFINE h == Here + 1
                 b == a - 1
      <4>1. h \in Nat /\ b \in Nat
        BY <1>4, <2>4
      <4> HIDE DEF h, b
      <4>2. /\ Seg(h, b) \in Seq(Int) /\ Len(Seg(h, b)) = b
            /\ \A i \in 1 .. b : Seg(h, b)[i] = h + i - 1
        BY <4>1, SegSeq
      <4>. QED  BY <4>2 DEF h, b
    <3>2. /\ Tail(accepted) \in Seq(Int) /\ Len(Tail(accepted)) = a - 1
          /\ \A i \in 1 .. a - 1 : Tail(accepted)[i] = accepted[i + 1]
      BY <1>1, <2>3, HeadTailProperties
    <3> HIDE DEF g
    <3>3. \A i \in 1 .. a - 1 : Tail(accepted)[i] = g[i]
      <4> TAKE i \in 1 .. a - 1
      <4>1. i + 1 \in 1 .. a
        BY <1>4
      <4>2. accepted[i + 1] = Here + (i + 1) - 1
        BY <2>3, <4>1
      <4>. QED  BY <1>4, <3>1, <3>2, <4>2
    <3>4. Tail(accepted) = g
      BY <3>1, <3>2, <3>3, SeqEqual
    <3>. QED  BY <3>4 DEF g
  <2>6. Head(accepted) = Here
    BY <1>4, <2>3, <2>4
  <2>7. tokens' = Greedy(Here + 1)
    BY <1>1, <1>2, <1>4, <2>6, GreedyAppend
  <2>8. /\ Here + a = Here' + (a - 1)
        /\ nextPos' = Base' + Len(ids') + (a - 1)
    BY <1>1, <1>3, <1>4, <2>1, <2>2
  <2>9. /\ kv' = Greedy(Here' + (a - 1)) /\ lin' = Greedy(Here' + (a - 1))
        /\ logits' = Greedy(Here' + (a - 1))
    BY <1>1, <1>3, <2>8 DEF Computed
  <2>10. AtAccept'
    BY <1>1, <1>6, <2>2, <2>4, <2>5, <2>7, <2>8, <2>9 DEF AtAccept, Computed
  <2>. QED
    BY <1>1, <1>2, <1>6, <2>1, <2>10 DEF KvFits, DraftsAllowed, UseMtp, AtLoop, AtFeed,
         AtVerify, AtRollback, AtReplay
<1>. QED  BY <1>5, <1>6, AcceptOut

(* The bonus token is emitted when all drafts have been.                    *)
LEMMA BonusCaches ==
  ASSUME IInv, Bonus
  PROVE  CacheInv'
<1>1. /\ pc = "accept" /\ req' = req /\ kv' = kv /\ lin' = lin /\ logits' = logits
      /\ nextPos' = nextPos /\ accepted = <<>> /\ tokens' = tokens
  BY DEF Bonus, modelVars, cacheVars
<1>2. UseMtp /\ tokens = Greedy(Here) /\ KvFits
  BY <1>1 DEF IInv, DraftsAllowed, AtAccept
<1>3. PICK a \in 0 .. req.spec :
        accepted = Seg(Here, a) /\ Computed(Here + a) /\ nextPos = Base + Len(ids) + a
  BY <1>1 DEF IInv, AtAccept
<1>4. /\ Here \in Nat /\ Base \in Int /\ Len(ids) \in Nat /\ req.spec \in Nat /\ a \in Nat
  BY <1>1, Facts
<1>5. a = 0
  <2>1. Len(accepted) = a
    BY <1>3, <1>4, SegSeq
  <2>. QED  BY <1>1, <2>1
<1>6. Computed(Here) /\ nextPos = Base + Len(ids)
  <2>1. Here + a = Here /\ Base + Len(ids) + a = Base + Len(ids)
    BY <1>4, <1>5
  <2>. QED  BY <1>3, <2>1
<1>7. CASE pc' = "finish"
  BY <1>1, <1>2, <1>7 DEF KvFits, DraftsAllowed, AtLoop, AtFeed, AtVerify, AtRollback,
       AtReplay, AtAccept
<1>8. CASE pc' = "bonus"
  <2>1. Len(ids') = Len(ids) + 1 /\ Len(ids') < req.maxNew
    BY <1>8, BonusOut
  <2>2. Here' - 1 = Here /\ Base' = Base
    BY <1>1, <1>4, <2>1, Facts DEF Here, Base
  <2>3. /\ kv' = Greedy(Here' - 1) /\ lin' = Greedy(Here' - 1) /\ logits' = Greedy(Here' - 1)
        /\ tokens' = Greedy(Here' - 1)
    BY <1>1, <1>2, <1>6, <2>2 DEF Computed
  <2>4. Len(ids') >= 1 /\ nextPos' = Base' + Len(ids') - 1
    BY <1>1, <1>4, <1>6, <2>1, <2>2
  <2>5. AtFeed'
    BY <1>8, <2>3, <2>4 DEF AtFeed, Computed
  <2>. QED
    BY <1>1, <1>2, <1>8, <2>1, <2>5 DEF KvFits, DraftsAllowed, UseMtp, AtLoop, AtVerify,
         AtRollback, AtReplay, AtAccept
<1>. QED  BY <1>7, <1>8, BonusOut

-----------------------------------------------------------------------------
(* Every reachable state                                                    *)

(* Between requests the caches are empty, and the invariant asks no more.   *)
LEMMA EmptyCaches ==
  ASSUME pc' = "idle", kv' = <<>>
  PROVE  CacheInv'
<1>1. MaxSeq \in Nat
  BY GenerationAssumption DEF GenerationAssumption
<1>2. KvFits'
  BY <1>1 DEF KvFits
<1>. QED
  BY <1>2 DEF DraftsAllowed, AtLoop, AtFeed, AtVerify, AtRollback, AtReplay, AtAccept

(* Every step keeps the caches as the invariant says.                       *)
LEMMA CacheStep ==
  ASSUME IInv, [Next]_vars
  PROVE  CacheInv'
<1>1. CASE Start \/ ImagesThrow \/ LoopEnds \/ Finish
  <2>1. kv' = kv /\ pc' \in {"idle", "prefill", "finish", "done"} /\ KvFits
    BY <1>1 DEF Start, ImagesThrow, LoopEnds, Finish, cacheVars, IInv
  <2>. QED
    BY <2>1 DEF KvFits, DraftsAllowed, AtLoop, AtFeed, AtVerify, AtRollback, AtReplay, AtAccept
<1>2. CASE Return \/ Fail
  BY <1>2, EmptyCaches DEF Return, Fail, Throws
<1>3. CASE UNCHANGED vars
  BY <1>3 DEF vars, modelVars, cacheVars, draftVars, outVars, IInv, KvFits, DraftsAllowed,
       UseMtp, AtLoop, AtFeed, AtVerify, AtRollback, AtReplay, AtAccept, SnapHere, Computed,
       Here, Base
<1>. QED
  BY <1>1, <1>2, <1>3, PrefillCaches, StepCaches, FeedCaches, ProposeCaches, VerifyCaches,
     RollbackCaches, ReplayCaches, AcceptCaches, BonusCaches DEF Next

(* The invariant holds in every reachable state.                            *)
THEOREM GenerationInvariant == Spec => []IInv
<1>1. Init => IInv
  <2>1. MaxSeq \in Nat
    BY GenerationAssumption DEF GenerationAssumption
  <2>. QED
    BY <2>1 DEF Init, IInv, ReqInv, OwnImages, OutInv, Running, KvFits, DraftsAllowed,
         AtLoop, AtFeed, AtVerify, AtRollback, AtReplay, AtAccept
<1>2. IInv /\ [Next]_vars => IInv'
  BY OutStep, RequestStep, CacheStep DEF IInv
<1>. QED  BY <1>1, <1>2, PTL DEF Spec

(* Rejected drafts leave no trace: whenever the loop comes round, caches,   *)
(* token list, position and logits are those of greedy decoding.            *)
THEOREM CommittedCorrect == Spec => []CommittedState
<1>1. IInv => CommittedState
  BY DEF IInv, AtLoop, Computed, CommittedState, Here, Base
<1>. QED  BY <1>1, GenerationInvariant, PTL

(* No pass writes past max_seq, whatever drafts it carries.                 *)
THEOREM KvCorrect == Spec => []KvFits
<1>1. IInv => KvFits
  BY DEF IInv
<1>. QED  BY <1>1, GenerationInvariant, PTL

(* Every token of a result has its own logprob, if logprobs were asked for. *)
THEOREM LogprobsCorrect == Spec => []LogprobsAligned
<1>1. IInv => LogprobsAligned
  <2> SUFFICES ASSUME IInv, pc = "done", req.logprobs
               PROVE  logprobs = [i \in DOMAIN ids |-> ids[i].tok]
    BY DEF LogprobsAligned
  <2>1. logprobs = Toks(ids) /\ DOMAIN ids = 1 .. Len(ids)
    BY LenProperties DEF IInv, OutInv
  <2>. QED  BY <2>1 DEF Toks
<1>. QED  BY <1>1, GenerationInvariant, PTL

(* A prompt runs with its own images.                                       *)
THEOREM ImagesCorrect == Spec => []OwnImages
<1>1. IInv => OwnImages
  BY DEF IInv
<1>. QED  BY <1>1, GenerationInvariant, PTL

(* Every token of a result has been streamed, in its order.                 *)
THEOREM StreamCorrect == Spec => []StreamCoversResult
<1>1. IInv => StreamCoversResult
  <2> SUFFICES ASSUME IInv, pc = "done"
               PROVE  /\ Len(ids) <= Len(streamed)
                      /\ \A i \in DOMAIN ids : streamed[i] = ids[i].tok
    BY DEF StreamCoversResult
  <2>1. Covers(streamed, ids, Len(ids)) /\ DOMAIN ids = 1 .. Len(ids)
    BY LenProperties DEF IInv, OutInv
  <2>. QED  BY <2>1 DEF Covers
<1>. QED  BY <1>1, GenerationInvariant, PTL

-----------------------------------------------------------------------------
(***************************************************************************)
(* The session's state on the device (DeviceState).                        *)
(*                                                                         *)
(* HandedOver says for every layer which of its copies is current, on the  *)
(* home or, where a kernel ran, on the device, and which version it is at:  *)
(* that of the committed tokens, or, in the layers a pass has done, of the  *)
(* pass.  An operation's outcome is then followed from its copies; what a   *)
(* failure leaves only counts as long as no cause excuses it.               *)
(***************************************************************************)
(* The four copies of a linear layer's state, and which of them is current. *)
Copies == [hc : Int, hr : Int, dc : Int, dr : Int]
LiveR(s) == IF s.dr = None THEN s.hr ELSE s.dr
LiveC(s) == IF s.dc = None THEN s.hc ELSE s.dc

(* No cause that excuses a wrong recurrence, or a wrong convolution.        *)
RClean(c) == "late" \notin c /\ "throw" \notin c /\ (gdn = "on" \/ "split" \notin c)
CClean(c) == c \cap {"late", "throw", "split", "replay"} = {}

\* The version layer l is to be at.
Due(l) == IF phase \in {"layers", "head"} /\ l < pass.l THEN tag ELSE cur

\* A rejected window leaves the convolution's copy; its replay meets it.
Replaying == phase = "layers" /\ pass.kind = "window" /\ shot = NoShot
Stale(l) == phase = "rejected" \/ (Replaying /\ ~(l < pass.l))

\* A prefill, or one to come, finds the new session's zero state in the home.
Untouched(l) == phase = "begun" \/ (phase = "layers" /\ pass.kind = "prefill" /\ ~(l < pass.l))

(* The current recurrence of every layer is at the version due, that of an  *)
(* open draft window's snapshot at the version to go back to; between       *)
(* sessions no copy is left on the device.                                  *)
Recurrences ==
  RClean(cause) => \A l \in Linear :
    /\ IF phase = "none" THEN st[l].dr = None ELSE LiveR(st[l]) = Due(l)
    /\ Untouched(l) => st[l].hr = cur
    /\ shot # NoShot => shot.st[l].hr = shot.cur

(* The convolutions likewise, but for the copies a rejected window leaves,  *)
(* which a replay by the host overtakes: it is too short for the GPU's.     *)
Convolutions ==
  CClean(cause) => \A l \in Linear :
    /\ phase = "none" => st[l].dc = None
    /\ phase # "none" /\ (Stale(l) => st[l].dc = None) => LiveC(st[l]) = Due(l)
    /\ Replaying /\ ~(l < pass.l) /\ st[l].dc # None => ~(pass.n >= GpuConvMin)
    /\ shot # NoShot /\ st[l].dc = None => shot.st[l].hc = shot.cur

(* The K/V are in one place.                                                *)
KvCaches ==
  \A l \in (1..NL) \ Linear : /\ phase # "none" => st[l].kv = Due(l)
                              /\ shot # NoShot => shot.st[l].kv = shot.cur

(* The residual that counts has gone through every layer before this one.   *)
Residual ==
  "late" \notin cause =>
    /\ phase = "layers" => IF pass.pf \/ (pass.act /\ dx # None) THEN dx = pass.l - 1
                           ELSE x = pass.l - 1
    /\ phase = "head" => x = NL /\ dx \in {None, NL}

(* What goes with each phase of a session.                                  *)
Phases ==
  /\ phase \in {"none", "begun", "idle", "bonus", "layers", "head", "snapped", "verify", "rejected"}
  /\ phase \in {"snapped", "verify"} => shot # NoShot
  /\ shot # NoShot => \/ phase \in {"snapped", "verify"}
                      \/ phase \in {"layers", "head"} /\ pass.kind = "window"
  /\ phase = "layers" => /\ pass.l \in 1..NL + 1 /\ pass.n # 0
                         /\ pass.kind \in {"prefill", "decode", "window"}
                         /\ pass.kind = "window" => ~pass.pf /\ ~pass.act
                         /\ pass.kind = "prefill" => ~pass.act
                         /\ pass.pf => pass.kind = "prefill"
  /\ phase = "head" => pass.l = NL + 1

(* Types: linear layers have four copies, the others one.                   *)
States == [1..NL -> Copies \cup [kv : Int]]
Typed(f) == /\ f \in States
            /\ \A l \in 1..NL : f[l] \in IF l \in Linear THEN Copies ELSE [kv : Int]

StateType ==
  /\ cur \in Nat /\ tag \in Nat
  /\ Typed(st)
  /\ shot # NoShot => shot.cur \in Nat /\ Typed(shot.st)
  /\ pass \in [kind : {"none", "prefill", "decode", "window"}, n : Nat, l : Nat, pf : BOOLEAN, act : BOOLEAN]
  /\ x \in Int /\ dx \in Int

(* What was read wrong so far has its cause: the three properties.          *)
Wrongs ==
  /\ "gdn" \in wrong => ~RClean(cause)
  /\ "conv" \in wrong => ~CClean(cause)
  /\ "residual" \in wrong => "late" \in cause
  /\ "kv" \notin wrong

HandedOver == StateType /\ Phases /\ Recurrences /\ Convolutions /\ KvCaches /\ Residual /\ Wrongs

(***************************************************************************)
(* What an operation on one layer does to its copies: keeps the current    *)
(* recurrence or convolution, or moves it from `cur` to `tag`.             *)
(***************************************************************************)

Sane(o) == o.s \in Copies /\ "kv" \notin o.w /\ "residual" \notin o.w

\* First a, then b of what a left.
Follows(o, a, b) == /\ o.s = b.s /\ o.ok = b.ok
                    /\ o.w = a.w \cup b.w /\ o.c = a.c \cup b.c

\* What an outcome must not say for the recurrence or the convolution to count.
RCounts(o) == "late" \notin o.c /\ (gdn = "on" \/ "split" \notin o.c)
CCounts(o) == "late" \notin o.c /\ "split" \notin o.c

RStays(s, o) == "late" \notin o.c => LiveR(o.s) = LiveR(s) /\ "gdn" \notin o.w
CStays(s, o) == "late" \notin o.c => LiveC(o.s) = LiveC(s) /\ "conv" \notin o.w
RMoves(s, o) == RCounts(o) /\ LiveR(s) = cur => LiveR(o.s) = tag /\ "gdn" \notin o.w
CMoves(s, o) == CCounts(o) /\ LiveC(s) = cur => LiveC(o.s) = tag /\ "conv" \notin o.w
RSame(s, o) == o.s.hr = s.hr /\ o.s.dr = s.dr /\ "gdn" \notin o.w
CSame(s, o) == o.s.hc = s.hc /\ o.s.dc = s.dc /\ "conv" \notin o.w

LEMMA Moved ==
  ASSUME cur \in Nat, tag \in Nat
  PROVE  /\ Stepped(cur) = tag /\ tag # None
         /\ \A v : Stepped(v) \in Int /\ Stepped(v) # None
         /\ None \in Int /\ Bad \in Int /\ Bad # None
BY DEF Stepped, None, Bad

LEMMA WithConvIs ==
  ASSUME NEW s \in Copies
  PROVE  /\ WithConv(s) \in Copies /\ WithConv(s).hr = s.hr /\ WithConv(s).dr = s.dr
         /\ WithConv(s).hc = s.hc /\ WithConv(s).dc = LiveC(s)
BY DEF WithConv, Copies, LiveC

LEMMA WithGdnIs ==
  ASSUME NEW s \in Copies
  PROVE  /\ WithGdn(s) \in Copies /\ WithGdn(s).hc = s.hc /\ WithGdn(s).dc = s.dc
         /\ WithGdn(s).hr = s.hr /\ WithGdn(s).dr = LiveR(s)
BY DEF WithGdn, Copies, LiveR

\* Before anything moved, and after.
LEMMA EarlyIs ==
  ASSUME NEW ss \in SUBSET Copies, NEW o \in Early(ss)
  PROVE  Sane(o) /\ o.s \in ss /\ ~o.ok /\ o.w = {} /\ o.c = {}
<1>1. PICK s \in ss : o = Out(s, FALSE, 1, {}, {})
  BY DEF Early
<1>. QED BY <1>1 DEF Sane, Out

LEMMA LateIs ==
  ASSUME NEW s \in Copies, NEW o \in Late(s)
  PROVE  Sane(o) /\ o.s = s /\ ~o.ok /\ o.w = {} /\ o.c = {"late"}
<1>1. o = Out(s, FALSE, 1, {}, {"late"})
  BY DEF Late
<1>. QED BY <1>1 DEF Sane, Out

LEMMA DoneIs ==
  ASSUME NEW s \in Copies
  PROVE  /\ Sane(Done(s)) /\ Done(s).s = s /\ Done(s).ok
         /\ Done(s).w = {} /\ Done(s).c = {}
BY DEF Done, Sane, Out

LEMMA ReadIs ==
  ASSUME NEW v, NEW what \in {"conv", "gdn"}
  PROVE  Read(v, what) \subseteq {what} /\ "kv" \notin Read(v, what)
         /\ "residual" \notin Read(v, what)
         /\ (v = cur => Read(v, what) = {})
BY DEF Read

LEMMA DwconvIs ==
  ASSUME cur \in Nat, tag \in Nat, NEW s0 \in Copies, NEW o \in DwconvSeq(s0)
  PROVE  /\ Sane(o) /\ RSame(s0, o)
         /\ IF o.ok THEN CMoves(s0, o) ELSE CStays(s0, o)
         /\ s0.dc # None => o.s.dc # None
<1>. DEFINE s == WithConv(s0)
            m == [s EXCEPT !.dc = Stepped(@)]
            b == [s EXCEPT !.dc = Bad]
            h == [m EXCEPT !.hc = m.dc]
<1>1. s \in Copies /\ s.hr = s0.hr /\ s.dr = s0.dr /\ s.hc = s0.hc /\ s.dc = LiveC(s0)
  BY WithConvIs
<1>2. PICK v \in Int : v = Stepped(s.dc) /\ v # None /\ (s.dc = cur => v = tag)
  BY Moved
<1>3. m \in Copies /\ m = [s EXCEPT !.dc = v]
  BY <1>1, <1>2 DEF Copies
<1>4. m.dc = v /\ m.hr = s0.hr /\ m.dr = s0.dr
  BY <1>1, <1>3 DEF Copies
<1>5. b \in Copies /\ b.dc = Bad /\ b.hr = s0.hr /\ b.dr = s0.dr
  BY <1>1, Moved DEF Copies
<1>6. h \in Copies /\ h.dc = v /\ h.hr = s0.hr /\ h.dr = s0.dr
  BY <1>3, <1>4 DEF Copies
<1>7. \/ o \in Early({s0, s})
      \/ o \in Late(m) \/ o \in Late(b)
      \/ o = Out(h, TRUE, 0, Read(s.dc, "conv"), {})
  BY DEF DwconvSeq
<1>. HIDE DEF s, m, b, h
<1>8. CASE o \in Early({s0, s})
  <2>1. Sane(o) /\ o.s \in {s0, s} /\ ~o.ok /\ o.w = {} /\ o.c = {}
    BY <1>1, <1>8, EarlyIs
  <2>. QED BY <1>1, <2>1 DEF RSame, CStays, LiveC
<1>9. CASE o \in Late(m) \/ o \in Late(b)
  <2>1. Sane(o) /\ o.s \in {m, b} /\ ~o.ok /\ o.w = {} /\ o.c = {"late"}
    BY <1>3, <1>5, <1>9, LateIs
  <2>. QED BY <1>2, <1>4, <1>5, <2>1, Moved DEF RSame, CStays
<1>10. CASE o = Out(h, TRUE, 0, Read(s.dc, "conv"), {})
  <2>1. PICK w : /\ w = Read(s.dc, "conv") /\ w \subseteq {"conv"} /\ "kv" \notin w /\ "residual" \notin w
                                           /\ (s.dc = cur => w = {})
    BY ReadIs
  <2>2. /\ Sane(o) /\ o.s = h /\ o.ok /\ o.w = w
        BY <1>6, <1>10, <2>1 DEF Sane, Out
  <2>. QED BY <1>1, <1>2, <1>6, <2>1, <2>2 DEF RSame, CMoves, LiveC
<1>. QED BY <1>7, <1>8, <1>9, <1>10

LEMMA GatedIs ==
  ASSUME cur \in Nat, tag \in Nat, NEW s0 \in Copies, NEW o \in GatedDelta(s0)
  PROVE  /\ Sane(o) /\ CSame(s0, o)
         /\ IF o.ok THEN RMoves(s0, o) ELSE RStays(s0, o)
         /\ ~o.ok /\ "late" \notin o.c => o.s.hr = s0.hr
<1>. DEFINE s == WithGdn(s0)
            m == [s EXCEPT !.dr = Stepped(@)]
            b == [s EXCEPT !.dr = Bad]
<1>1. s \in Copies /\ s.hc = s0.hc /\ s.dc = s0.dc /\ s.hr = s0.hr /\ s.dr = LiveR(s0)
  BY WithGdnIs
<1>2. PICK v \in Int : v = Stepped(s.dr) /\ v # None /\ (s.dr = cur => v = tag)
  BY Moved
<1>3. m \in Copies /\ m = [s EXCEPT !.dr = v]
  BY <1>1, <1>2 DEF Copies
<1>4. m.dr = v /\ m.hc = s0.hc /\ m.dc = s0.dc
  BY <1>1, <1>3 DEF Copies
<1>5. b \in Copies /\ b.hc = s0.hc /\ b.dc = s0.dc
  BY <1>1, Moved DEF Copies
<1>7. \/ o \in Early({s0, s})
      \/ o \in Late(m) \/ o \in Late(b)
      \/ o = Out(m, TRUE, 0, Read(s.dr, "gdn"), {})
  BY DEF GatedDelta
<1>. HIDE DEF s, m, b
<1>8. CASE o \in Early({s0, s})
  <2>1. Sane(o) /\ o.s \in {s0, s} /\ ~o.ok /\ o.w = {} /\ o.c = {}
    BY <1>1, <1>8, EarlyIs
  <2>. QED BY <1>1, <2>1 DEF CSame, RStays, LiveR
<1>9. CASE o \in Late(m) \/ o \in Late(b)
  <2>1. Sane(o) /\ o.s \in {m, b} /\ ~o.ok /\ o.w = {} /\ o.c = {"late"}
    BY <1>3, <1>5, <1>9, LateIs
  <2>. QED BY <1>4, <1>5, <2>1 DEF CSame, RStays
<1>10. CASE o = Out(m, TRUE, 0, Read(s.dr, "gdn"), {})
  <2>1. PICK w : /\ w = Read(s.dr, "gdn") /\ w \subseteq {"gdn"} /\ "kv" \notin w /\ "residual" \notin w
                                             /\ (s.dr = cur => w = {})
    BY ReadIs
  <2>2. /\ Sane(o) /\ o.s = m /\ o.ok /\ o.w = w
        BY <1>3, <1>10, <2>1 DEF Sane, Out
  <2>. QED BY <1>1, <1>2, <1>4, <2>1, <2>2 DEF CSame, RMoves, LiveR
<1>. QED BY <1>7, <1>8, <1>9, <1>10

LEMMA FlushGdnIs ==
  ASSUME NEW s \in Copies, NEW o \in FlushGdn(s)
  PROVE  /\ Sane(o) /\ CSame(s, o) /\ RStays(s, o) /\ o.ok /\ o.w = {} /\ "split" \notin o.c
         /\ "late" \notin o.c => o.s.dr = None /\ o.s.hr = LiveR(s)
         /\ "late" \in o.c => o.f = 1
<1>1. CASE s.dr = None
  <2>1. o = Done(s)
    BY <1>1 DEF FlushGdn
  <2>. QED BY <1>1, <2>1 DEF Done, Out, Sane, CSame, RStays, LiveR
<1>2. CASE s.dr # None
  <2>1. PICK h : h = [s EXCEPT !.hr = s.dr, !.dr = None]
    OBVIOUS
  <2>2. h \in Copies /\ h.hr = s.dr /\ h.dr = None /\ h.hc = s.hc /\ h.dc = s.dc
    <3>1. h = [hc |-> s.hc, hr |-> s.dr, dc |-> s.dc, dr |-> None]
      BY <2>1 DEF Copies
    <3>. QED BY <3>1 DEF Copies, None
  <2>3. o = Done(h) \/ o = Out(s, TRUE, 1, {}, {"late"})
    BY <1>2, <2>1 DEF FlushGdn
  <2>. QED BY <1>2, <2>2, <2>3 DEF Done, Out, Sane, CSame, RStays, LiveR
<1>. QED BY <1>1, <1>2

LEMMA FlushConvIs ==
  ASSUME NEW s \in Copies, NEW o \in FlushConv(s)
  PROVE  /\ Sane(o) /\ RSame(s, o) /\ CStays(s, o) /\ o.ok /\ o.w = {} /\ "split" \notin o.c
<1>1. CASE s.dc = None
  <2>1. o = Done(s)
    BY <1>1 DEF FlushConv
  <2>. QED BY <1>1, <2>1 DEF Done, Out, Sane, RSame, CStays, LiveC
<1>2. CASE s.dc # None
  <2>1. PICK h : h = [s EXCEPT !.hc = s.dc, !.dc = None]
    OBVIOUS
  <2>2. h \in Copies /\ h.hc = s.dc /\ h.dc = None /\ h.hr = s.hr /\ h.dr = s.dr
    <3>1. h = [hc |-> s.dc, hr |-> s.hr, dc |-> None, dr |-> s.dr]
      BY <2>1 DEF Copies
    <3>. QED BY <3>1 DEF Copies, None
  <2>3. o = Done(h) \/ o = Out(s, TRUE, 1, {}, {"late"})
    BY <1>2, <2>1 DEF FlushConv
  <2>. QED BY <1>2, <2>2, <2>3 DEF Done, Out, Sane, RSame, CStays, LiveC
<1>. QED BY <1>1, <1>2

LEMMA HostConvIs ==
  ASSUME cur \in Nat, tag \in Nat, NEW s \in Copies, NEW o \in HostConv(s)
  PROVE  /\ Sane(o) /\ RSame(s, o) /\ CMoves(s, o) /\ o.ok
         /\ s.dc # None => "split" \in o.c /\ o.s.dc # None
<1>1. PICK v \in Int : v = Stepped(s.hc) /\ (s.hc = cur => v = tag)
  BY Moved
<1>2. PICK h : h = [s EXCEPT !.hc = v]
  OBVIOUS
<1>3. h \in Copies /\ h.hc = v /\ h.dc = s.dc /\ h.hr = s.hr /\ h.dr = s.dr
  BY <1>2 DEF Copies
<1>4. PICK w : /\ w = Read(s.hc, "conv") /\ w \subseteq {"conv"} /\ "kv" \notin w
               /\ "residual" \notin w /\ (s.hc = cur => w = {})
  BY ReadIs
<1>5. o = Out(h, TRUE, 0, w, IF s.dc = None THEN {} ELSE {"split"})
  BY <1>1, <1>2, <1>4 DEF HostConv
<1>. QED BY <1>1, <1>3, <1>4, <1>5 DEF Out, Sane, RSame, CMoves, CCounts, LiveC

LEMMA HostGdnIs ==
  ASSUME cur \in Nat, tag \in Nat, NEW s \in Copies, NEW o \in HostGdn(s)
  PROVE  /\ Sane(o) /\ CSame(s, o) /\ o.ok
         /\ s.dr # None => "split" \in o.c
         /\ s.dr = None => RMoves(s, o)
<1>1. PICK v \in Int : v = Stepped(s.hr) /\ (s.hr = cur => v = tag)
  BY Moved
<1>2. PICK h : h = [s EXCEPT !.hr = v]
  OBVIOUS
<1>3. h \in Copies /\ h.hr = v /\ h.dc = s.dc /\ h.hc = s.hc /\ h.dr = s.dr
  BY <1>2 DEF Copies
<1>4. PICK w : /\ w = Read(s.hr, "gdn") /\ w \subseteq {"gdn"} /\ "kv" \notin w
               /\ "residual" \notin w /\ (s.hr = cur => w = {})
  BY ReadIs
<1>5. o = Out(h, TRUE, 0, w, IF s.dr = None THEN {} ELSE {"split"})
  BY <1>1, <1>2, <1>4 DEF HostGdn
<1>. QED BY <1>1, <1>3, <1>4, <1>5 DEF Out, Sane, CSame, RMoves, RCounts, LiveR

(***************************************************************************)
(* The layer on each path: layer_forward, the decode on the activation, the*)
(* resident prefill, and layer_forward after either.                       *)
(***************************************************************************)
LEMMA SandwichConvIs ==
  ASSUME cur \in Nat, tag \in Nat, NEW s \in Copies, NEW n, NEW want,
         NEW o \in SandwichConv(s, n, want)
  PROVE  /\ Sane(o) /\ RSame(s, o) /\ CMoves(s, o) /\ o.ok
         /\ s.dc # None => o.s.dc # None
         /\ s.dc # None /\ ~(n >= GpuConvMin) => "split" \in o.c
<1>1. CASE o \in HostConv(s)
  BY <1>1, HostConvIs
<1>2. CASE o \notin HostConv(s)
  <2>1. n >= GpuConvMin /\ o \in OrElse(DwconvSeq(s), HostConv)
    BY <1>2 DEF SandwichConv
  <2>2. \/ o \in DwconvSeq(s) /\ o.ok
        \/ \E a, b : a \in DwconvSeq(s) /\ ~a.ok /\ b \in HostConv(a.s) /\ Follows(o, a, b)
    BY <2>1 DEF OrElse, Then, Out, Follows
  <2>3. CASE o \in DwconvSeq(s) /\ o.ok
    BY <2>1, <2>3, DwconvIs
  <2>4. CASE \E a, b : a \in DwconvSeq(s) /\ ~a.ok /\ b \in HostConv(a.s) /\ Follows(o, a, b)
    <3>1. PICK a, b : a \in DwconvSeq(s) /\ ~a.ok /\ b \in HostConv(a.s) /\ Follows(o, a, b)
      BY <2>4
    <3>2. Sane(a) /\ RSame(s, a) /\ CStays(s, a) /\ (s.dc # None => a.s.dc # None)
      BY <3>1, DwconvIs
    <3>3. a.s \in Copies
      BY <3>2 DEF Sane
    <3>4. /\ Sane(b) /\ RSame(a.s, b) /\ CMoves(a.s, b) /\ b.ok
          /\ a.s.dc # None => b.s.dc # None
      BY <3>1, <3>3, HostConvIs
    <3>. QED BY <2>1, <3>1, <3>2, <3>4 DEF Follows, Sane, RSame, CMoves, CStays, CCounts
  <2>. QED BY <2>2, <2>3, <2>4
<1>. QED BY <1>1, <1>2

LEMMA InvalidateGdnIs ==
  ASSUME NEW s \in Copies
  PROVE  /\ InvalidateGdn(s) \in Copies /\ InvalidateGdn(s).dr = None
         /\ InvalidateGdn(s).hr = s.hr /\ InvalidateGdn(s).hc = s.hc /\ InvalidateGdn(s).dc = s.dc
BY DEF InvalidateGdn, Copies, None

\* The recurrence by the device, and by the host when it fails: the home is then
\* current, brought there before or after.
LEMMA SandwichGdnIs ==
  ASSUME cur \in Nat, tag \in Nat, NEW s \in Copies, NEW n \in Nat \ {0}, NEW prefill \in BOOLEAN,
         NEW want \in BOOLEAN, want \/ gdn # "on",
         NEW o \in SandwichGdn(s, n, prefill, want)
  PROVE  Sane(o) /\ CSame(s, o) /\ ((prefill => s.hr = cur) => RMoves(s, o))
<1>1. CASE ~want
  <2>1. o \in HostGdn(s)
    BY <1>1 DEF SandwichGdn
  <2>2. Sane(o) /\ CSame(s, o) /\ (s.dr # None => "split" \in o.c) /\ (s.dr = None => RMoves(s, o))
    BY <2>1, HostGdnIs
  <2>. QED BY <1>1, <2>2 DEF RMoves, RCounts
<1>2. CASE want
  <2>. DEFINE Gone(t) == IF n = 1 THEN FlushGdn(t) ELSE {Done(InvalidateGdn(t))}
              start == IF ~prefill /\ n > 1 THEN FlushGdn(s) ELSE {Done(s)}
  <2>1. PICK i, g : /\ i \in start /\ g \in GatedDelta(i.s)
                     /\ LET a == Out(g.s, g.ok, i.f + g.f, i.w \cup g.w, i.c \cup g.c)
                        IN  \/ g.ok /\ o = a
                            \/ /\ ~g.ok
                               /\ \E d, h : /\ d \in Gone(g.s) /\ h \in HostGdn(d.s)
                                            /\ o.s = h.s /\ o.ok = h.ok
                                            /\ o.w = (i.w \cup g.w) \cup (d.w \cup h.w)
                                            /\ o.c = (i.c \cup g.c) \cup (d.c \cup h.c)
    BY <1>2 DEF SandwichGdn, OrElse, Then, Out
  <2>2. /\ i.s \in Copies /\ Sane(i) /\ CSame(s, i) /\ RStays(s, i) /\ i.w = {}
        /\ "late" \notin i.c => n = 1 \/ i.s.hr = LiveR(s) \/ prefill
        /\ prefill => i.s.hr = s.hr
    <3>1. CASE ~prefill /\ n > 1
      <4>1. i \in FlushGdn(s)
        BY <2>1, <3>1
      <4>. QED BY <3>1, <4>1, FlushGdnIs DEF Sane
    <3>2. CASE ~(~prefill /\ n > 1)
      <4>1. i = Done(s)
        BY <2>1, <3>2
      <4>. QED BY <3>2, <4>1, DoneIs DEF CSame, RStays
    <3>. QED BY <3>1, <3>2
  <2>3. /\ Sane(g) /\ CSame(i.s, g) /\ (IF g.ok THEN RMoves(i.s, g) ELSE RStays(i.s, g))
        /\ ~g.ok /\ "late" \notin g.c => g.s.hr = i.s.hr
    BY <2>1, <2>2, GatedIs
  <2>4. CASE g.ok /\ o = Out(g.s, g.ok, i.f + g.f, i.w \cup g.w, i.c \cup g.c)
    BY <2>2, <2>3, <2>4 DEF Out, Sane, CSame, RMoves, RStays, RCounts
  <2>5. CASE ~g.ok
    <3>1. PICK d, h : /\ d \in Gone(g.s) /\ h \in HostGdn(d.s)
                      /\ o.s = h.s /\ o.w = (i.w \cup g.w) \cup (d.w \cup h.w)
                      /\ o.c = (i.c \cup g.c) \cup (d.c \cup h.c)
      BY <2>1, <2>5
    <3>2. g.s \in Copies
      BY <2>3 DEF Sane
    <3>3. /\ d.s \in Copies /\ CSame(g.s, d) /\ d.w = {}
          /\ "late" \notin d.c => /\ d.s.dr = None
                                  /\ d.s.hr = IF n = 1 THEN LiveR(g.s) ELSE g.s.hr
      <4>1. CASE n = 1
        <5>1. d \in FlushGdn(g.s)
          BY <3>1, <4>1
        <5>. QED BY <3>2, <4>1, <5>1, FlushGdnIs DEF Sane
      <4>2. CASE n # 1
        <5>1. d = Done(InvalidateGdn(g.s))
          BY <3>1, <4>2
        <5>. QED BY <3>2, <4>2, <5>1, InvalidateGdnIs, DoneIs DEF CSame
      <4>. QED BY <4>1, <4>2
    <3>4. /\ Sane(h) /\ CSame(d.s, h) /\ h.ok
          /\ d.s.dr # None => "split" \in h.c
          /\ d.s.dr = None => RMoves(d.s, h)
      BY <3>1, <3>3, HostGdnIs
    <3>5. Sane(o) /\ CSame(s, o)
      BY <2>2, <2>3, <3>1, <3>3, <3>4 DEF Sane, CSame
    <3>6. ASSUME RCounts(o), LiveR(s) = cur, prefill => s.hr = cur
          PROVE  LiveR(o.s) = tag /\ "gdn" \notin o.w
      <4>1. "late" \notin i.c /\ "late" \notin g.c /\ "late" \notin d.c /\ RCounts(h)
        BY <3>1, <3>6 DEF RCounts
      <4>2. LiveR(i.s) = cur /\ LiveR(g.s) = cur /\ "gdn" \notin g.w
        BY <2>2, <2>3, <2>5, <3>6, <4>1 DEF RStays
      <4>3. g.s.hr = i.s.hr /\ (n = 1 \/ i.s.hr = cur)
        BY <2>2, <2>3, <2>5, <3>6, <4>1
      <4>4. LiveR(d.s) = cur /\ d.s.dr = None
        BY <3>3, <4>1, <4>2, <4>3 DEF LiveR
      <4>. QED BY <2>2, <3>1, <3>3, <3>4, <4>1, <4>2, <4>4 DEF RMoves
    <3>. QED BY <3>5, <3>6 DEF RMoves
  <2>. QED BY <2>1, <2>4, <2>5
<1>. QED BY <1>1, <1>2

LEMMA LayerForwardIs ==
  ASSUME cur \in Nat, tag \in Nat, NEW s \in Copies, NEW n \in Nat \ {0}, NEW prefill \in BOOLEAN,
         NEW o \in LayerForwardLinear(s, n, prefill)
  PROVE  /\ Sane(o) /\ ((prefill => s.hr = cur) => RMoves(s, o)) /\ CMoves(s, o)
         /\ s.dc # None => o.s.dc # None
         /\ s.dc # None /\ ~(n >= GpuConvMin) => "split" \in o.c
<1>1. PICK want \in WantGdn :
        \E a, b : a \in SandwichConv(s, n, want) /\ b \in SandwichGdn(a.s, n, prefill, want) /\ Follows(o, a, b)
  BY DEF LayerForwardLinear, Then, Out, Follows
<1>2. want \in BOOLEAN /\ (want \/ gdn # "on")
  BY DEF WantGdn
<1>3. PICK a, b : /\ a \in SandwichConv(s, n, want)
                   /\ b \in SandwichGdn(a.s, n, prefill, want) /\ Follows(o, a, b)
  BY <1>1
<1>4. /\ Sane(a) /\ RSame(s, a) /\ CMoves(s, a) /\ a.ok
      /\ s.dc # None => a.s.dc # None
      /\ s.dc # None /\ ~(n >= GpuConvMin) => "split" \in a.c
  BY <1>3, SandwichConvIs
<1>5. a.s \in Copies /\ a.s.hr = s.hr
  BY <1>4 DEF Sane, RSame
<1>6. Sane(b) /\ CSame(a.s, b) /\ ((prefill => s.hr = cur) => RMoves(a.s, b))
  BY <1>2, <1>3, <1>5, SandwichGdnIs
<1>7. Sane(o)
  BY <1>3, <1>4, <1>6 DEF Sane, Follows
<1>8. (prefill => s.hr = cur) => RMoves(s, o)
  BY <1>3, <1>4, <1>6 DEF RMoves, RSame, RCounts, Follows, LiveR
<1>9. CMoves(s, o)
  BY <1>3, <1>4, <1>6 DEF CMoves, CSame, CCounts, Follows, LiveC
<1>. QED BY <1>3, <1>4, <1>6, <1>7, <1>8, <1>9 DEF Follows, CSame

LEMMA ResidentIs ==
  ASSUME NEW s \in Copies
  PROVE  /\ Resident(s) \in Copies /\ Resident(s).hc = s.hc /\ Resident(s).hr = s.hr
         /\ Resident(s).dc = LiveC(s) /\ Resident(s).dr = LiveR(s)
<1>1. PICK t \in Copies : t = WithConv(s) /\ t.hr = s.hr /\ t.dr = s.dr /\ t.hc = s.hc /\ t.dc = LiveC(s)
  BY WithConvIs
<1>. QED BY <1>1, WithGdnIs DEF Resident, LiveR

\* Both copies there and moved in turn, as the device paths do.
MovedConv(s) == [Resident(s) EXCEPT !.dc = Stepped(@)]
MovedBoth(s) == [MovedConv(s) EXCEPT !.dr = Stepped(@)]

LEMMA MovedAre ==
  ASSUME cur \in Nat, tag \in Nat, NEW s \in Copies
  PROVE  /\ MovedConv(s) \in Copies /\ MovedBoth(s) \in Copies
         /\ LiveC(s) = cur => LiveC(MovedBoth(s)) = tag
         /\ LiveR(s) = cur => LiveR(MovedBoth(s)) = tag
         /\ MovedBoth(s).dc # None
<1>1. PICK r \in Copies : r = Resident(s) /\ r.dc = LiveC(s) /\ r.dr = LiveR(s)
  BY ResidentIs
<1>2. PICK v \in Int : v = Stepped(r.dc) /\ v # None /\ (r.dc = cur => v = tag)
  BY Moved
<1>3. PICK u \in Int : u = Stepped(r.dr) /\ u # None /\ (r.dr = cur => u = tag)
  BY Moved
<1>4. PICK m : m = [r EXCEPT !.dc = v]
  OBVIOUS
<1>5. m \in Copies /\ m = MovedConv(s) /\ m.dc = v /\ m.dr = r.dr
  BY <1>1, <1>2, <1>4 DEF Copies, MovedConv
<1>6. PICK b : b = [m EXCEPT !.dr = u]
  OBVIOUS
<1>7. b \in Copies /\ b = MovedBoth(s) /\ b.dc = v /\ b.dr = u
  BY <1>3, <1>5, <1>6 DEF Copies, MovedBoth
<1>. QED BY <1>1, <1>2, <1>3, <1>5, <1>7 DEF LiveC, LiveR

LEMMA NotReadyIs ==
  ASSUME NEW s \in Copies, NEW o \in NotReady(s)
  PROVE  Sane(o) /\ RStays(s, o) /\ CStays(s, o) /\ ~o.ok /\ o.w = {} /\ o.s.hr = s.hr
<1>1. WithConv(s) \in Copies /\ Resident(s) \in Copies
  BY WithConvIs, ResidentIs
<1>2. Sane(o) /\ o.s \in {s, WithConv(s), Resident(s)} /\ ~o.ok /\ o.w = {} /\ o.c = {}
  BY <1>1, EarlyIs DEF NotReady
<1>3. CASE o.s = s
  BY <1>2, <1>3 DEF RStays, CStays
<1>4. CASE o.s = WithConv(s)
  BY <1>2, <1>4, WithConvIs DEF RStays, CStays, LiveR, LiveC
<1>5. CASE o.s = Resident(s)
  BY <1>2, <1>5, ResidentIs DEF RStays, CStays, LiveR, LiveC
<1>. QED BY <1>2, <1>3, <1>4, <1>5

LEMMA OnActIs ==
  ASSUME cur \in Nat, tag \in Nat, NEW s \in Copies, NEW o \in TryLinearDecodeOnAct(s)
  PROVE  /\ Sane(o) /\ (o.ok => RMoves(s, o) /\ CMoves(s, o))
         /\ ~o.ok => RStays(s, o) /\ CStays(s, o)
<1>1. \/ o \in NotReady(s)
      \/ o \in Late(MovedConv(s)) \/ o \in Late(MovedBoth(s))
      \/ o = Out(MovedBoth(s), TRUE, 0, Read(Resident(s).dc, "conv") \cup Read(Resident(s).dr, "gdn"), {})
  BY DEF TryLinearDecodeOnAct, MovedConv, MovedBoth
<1>2. CASE o \in NotReady(s)
  BY <1>2, NotReadyIs
<1>3. CASE o \in Late(MovedConv(s)) \/ o \in Late(MovedBoth(s))
  <2>1. Sane(o) /\ ~o.ok /\ o.c = {"late"}
    BY <1>3, MovedAre, LateIs
  <2>. QED BY <2>1 DEF RStays, CStays
<1>4. CASE o = Out(MovedBoth(s), TRUE, 0, Read(Resident(s).dc, "conv") \cup Read(Resident(s).dr, "gdn"), {})
  <2>1. PICK w : /\ w = Read(Resident(s).dc, "conv") \cup Read(Resident(s).dr, "gdn")
                 /\ "kv" \notin w /\ "residual" \notin w
                 /\ (LiveC(s) = cur => "conv" \notin w) /\ (LiveR(s) = cur => "gdn" \notin w)
    <3>1. PICK a : /\ a = Read(Resident(s).dc, "conv") /\ a \subseteq {"conv"} /\ "kv" \notin a
                   /\ "residual" \notin a /\ (LiveC(s) = cur => a = {})
      BY ResidentIs, ReadIs
    <3>2. PICK b : /\ b = Read(Resident(s).dr, "gdn") /\ b \subseteq {"gdn"} /\ "kv" \notin b
                   /\ "residual" \notin b /\ (LiveR(s) = cur => b = {})
      BY ResidentIs, ReadIs
    <3>. QED BY <3>1, <3>2
  <2>2. /\ o.s = MovedBoth(s) /\ o.ok /\ o.w = w
    BY <1>4, <2>1 DEF Out
  <2>. QED BY <2>1, <2>2, MovedAre DEF Sane, RMoves, CMoves
<1>. QED BY <1>1, <1>2, <1>3, <1>4

LEMMA PrefillLinearIs ==
  ASSUME cur \in Nat, tag \in Nat, NEW s \in Copies, NEW o \in PrefillLinear(s)
  PROVE  /\ Sane(o) /\ (o.ok => RMoves(s, o) /\ CMoves(s, o))
         /\ ~o.ok => RStays(s, o) /\ CStays(s, o) /\ ("late" \notin o.c => o.s.hr = s.hr)
<1>. DEFINE h == [MovedBoth(s) EXCEPT !.hc = MovedBoth(s).dc]
<1>1. \/ o \in NotReady(s)
      \/ o \in Late(MovedConv(s)) \/ o \in Late(MovedBoth(s))
      \/ o = Out(h, TRUE, 0, Read(Resident(s).dc, "conv") \cup Read(Resident(s).dr, "gdn"), {})
  BY DEF PrefillLinear, MovedConv, MovedBoth
<1>2. CASE o \in NotReady(s)
  BY <1>2, NotReadyIs
<1>3. CASE o \in Late(MovedConv(s)) \/ o \in Late(MovedBoth(s))
  <2>1. Sane(o) /\ ~o.ok /\ o.c = {"late"}
    BY <1>3, MovedAre, LateIs
  <2>. QED BY <2>1 DEF RStays, CStays
<1>4. CASE o = Out(h, TRUE, 0, Read(Resident(s).dc, "conv") \cup Read(Resident(s).dr, "gdn"), {})
  <2>1. PICK w : /\ w = Read(Resident(s).dc, "conv") \cup Read(Resident(s).dr, "gdn")
                 /\ "kv" \notin w /\ "residual" \notin w
                 /\ (LiveC(s) = cur => "conv" \notin w) /\ (LiveR(s) = cur => "gdn" \notin w)
    <3>1. PICK a : /\ a = Read(Resident(s).dc, "conv") /\ a \subseteq {"conv"} /\ "kv" \notin a
                   /\ "residual" \notin a /\ (LiveC(s) = cur => a = {})
      BY ResidentIs, ReadIs
    <3>2. PICK b : /\ b = Read(Resident(s).dr, "gdn") /\ b \subseteq {"gdn"} /\ "kv" \notin b
                   /\ "residual" \notin b /\ (LiveR(s) = cur => b = {})
      BY ResidentIs, ReadIs
    <3>. QED BY <3>1, <3>2
  <2>2. h \in Copies /\ LiveR(h) = LiveR(MovedBoth(s)) /\ LiveC(h) = LiveC(MovedBoth(s))
    <3>1. PICK b \in Copies : b = MovedBoth(s)
      BY MovedAre
    <3>2. PICK k : k = [b EXCEPT !.hc = b.dc]
      OBVIOUS
    <3>3. k \in Copies /\ k.dc = b.dc /\ k.hc = b.dc /\ k.hr = b.hr /\ k.dr = b.dr
      BY <3>2 DEF Copies
    <3>4. b.dc # None
      BY <3>1, MovedAre
    <3>. QED BY <3>1, <3>2, <3>3, <3>4 DEF LiveR, LiveC
  <2>3. /\ o.s = h /\ o.ok /\ o.w = w
    BY <1>4, <2>1 DEF Out
  <2>. QED BY <2>1, <2>2, <2>3, MovedAre DEF Sane, RMoves, CMoves
<1>. QED BY <1>1, <1>2, <1>3, <1>4

\* Both states home, the convolution by the host, the recurrence by either.
LEMMA ActSandwichIs ==
  ASSUME cur \in Nat, tag \in Nat, NEW s \in Copies, NEW o \in ActSandwich(s)
  PROVE  /\ Sane(o) /\ (o.ok => RMoves(s, o) /\ CMoves(s, o))
         /\ ~o.ok => RStays(s, o) /\ CStays(s, o)
<1>. DEFINE Projected(t) == Early({t}) \cup {Done(t)}
            Gdn(t) == LET Again(u) == Then(FlushGdn(u), HostGdn)
                      IN  OrElse(GatedDelta(t), Again)
            home == Then(FlushConv(s), FlushGdn)
            projected == Then(home, Projected)
            convolved == Then({p \in projected : p.ok}, HostConv)
            stepped == Then(convolved, Gdn)
<1>1. o \in {p \in projected : ~p.ok} \cup Then(stepped, FfnOnAct)
  BY DEF ActSandwich
<1>2. ASSUME NEW p \in home
      PROVE  Sane(p) /\ RStays(s, p) /\ CStays(s, p) /\ p.w = {} /\ "split" \notin p.c
  <2>1. PICK a, b : a \in FlushConv(s) /\ b \in FlushGdn(a.s) /\ Follows(p, a, b)
    BY DEF Then, Out, Follows
  <2>2. Sane(a) /\ RSame(s, a) /\ CStays(s, a) /\ a.w = {} /\ "split" \notin a.c
    BY <2>1, FlushConvIs
  <2>3. a.s \in Copies
    BY <2>2 DEF Sane
  <2>4. Sane(b) /\ CSame(a.s, b) /\ RStays(a.s, b) /\ b.w = {} /\ "split" \notin b.c
    BY <2>1, <2>3, FlushGdnIs
  <2>. QED BY <2>1, <2>2, <2>4 DEF Follows, Sane, RSame, CSame, RStays, CStays, LiveC, LiveR
<1>3. ASSUME NEW p \in projected
      PROVE  Sane(p) /\ RStays(s, p) /\ CStays(s, p) /\ p.w = {} /\ "split" \notin p.c
  <2>1. PICK a, b : a \in home /\ b \in Projected(a.s) /\ Follows(p, a, b)
    <3>1. p \in Then(home, Projected)
      OBVIOUS
    <3>. HIDE DEF home, Projected
    <3>. QED BY <3>1 DEF Then, Out, Follows
  <2>2. Sane(a) /\ RStays(s, a) /\ CStays(s, a) /\ a.w = {} /\ "split" \notin a.c
    BY <1>2, <2>1
  <2>3. b.s = a.s /\ b.w = {} /\ b.c = {}
    <3>1. a.s \in Copies /\ {a.s} \in SUBSET Copies
      BY <2>2 DEF Sane
    <3>2. CASE b \in Early({a.s})
      <4>1. b.s \in {a.s} /\ b.w = {} /\ b.c = {}
        BY <3>1, <3>2, EarlyIs
      <4>. QED BY <4>1
    <3>3. CASE b = Done(a.s)
      BY <3>1, <3>3, DoneIs
    <3>. QED BY <2>1, <3>2, <3>3
  <2>. QED BY <2>1, <2>2, <2>3 DEF Follows, Sane, RStays, CStays
<1>4. ASSUME NEW p \in convolved
      PROVE  Sane(p) /\ RStays(s, p) /\ CMoves(s, p)
  <2>1. PICK a, b : a \in projected /\ b \in HostConv(a.s) /\ Follows(p, a, b)
    <3>. DEFINE those == {q \in projected : q.ok}
    <3>1. p \in Then(those, HostConv)
      OBVIOUS
    <3>2. those \subseteq projected
      OBVIOUS
    <3>. HIDE DEF those
    <3>3. PICK a, b : a \in those /\ b \in HostConv(a.s) /\ Follows(p, a, b)
      BY <3>1 DEF Then, Out, Follows
    <3>. QED BY <3>2, <3>3
  <2>2. Sane(a) /\ RStays(s, a) /\ CStays(s, a) /\ a.w = {} /\ "split" \notin a.c
    BY <1>3, <2>1
  <2>3. a.s \in Copies
    BY <2>2 DEF Sane
  <2>4. Sane(b) /\ RSame(a.s, b) /\ CMoves(a.s, b)
    BY <2>1, <2>3, HostConvIs
  <2>. QED BY <2>1, <2>2, <2>4
       DEF Follows, Sane, RSame, RStays, CStays, CMoves, CCounts, LiveR
<1>5. ASSUME NEW t \in Copies, NEW p \in Gdn(t)
      PROVE  Sane(p) /\ CSame(t, p) /\ RMoves(t, p)
  <2>1. PICK g \in GatedDelta(t) :
           \/ p = g /\ g.ok
           \/ ~g.ok /\ \E d, h : /\ d \in FlushGdn(g.s) /\ h \in HostGdn(d.s)
                                 /\ p.s = h.s /\ p.w = g.w \cup (d.w \cup h.w)
                                 /\ p.c = g.c \cup (d.c \cup h.c)
    BY DEF OrElse, Then, Out
  <2>2. Sane(g) /\ CSame(t, g) /\ (IF g.ok THEN RMoves(t, g) ELSE RStays(t, g))
    BY GatedIs
  <2>3. CASE ~g.ok
    <3>1. PICK d, h : /\ d \in FlushGdn(g.s) /\ h \in HostGdn(d.s)
                      /\ p.s = h.s /\ p.w = g.w \cup (d.w \cup h.w)
                      /\ p.c = g.c \cup (d.c \cup h.c)
      BY <2>1, <2>3
    <3>2. g.s \in Copies
      BY <2>2 DEF Sane
    <3>3. /\ Sane(d) /\ CSame(g.s, d) /\ RStays(g.s, d) /\ d.w = {}
          /\ "late" \notin d.c => d.s.dr = None
      BY <3>1, <3>2, FlushGdnIs
    <3>4. d.s \in Copies
      BY <3>3 DEF Sane
    <3>5. Sane(h) /\ CSame(d.s, h) /\ (d.s.dr = None => RMoves(d.s, h))
      BY <3>1, <3>4, HostGdnIs
    <3>6. Sane(p) /\ CSame(t, p)
      BY <2>2, <3>1, <3>3, <3>5 DEF Sane, CSame
    <3>7. RMoves(t, p)
      BY <2>2, <2>3, <3>1, <3>3, <3>5 DEF RMoves, RStays, RCounts
    <3>. QED BY <3>6, <3>7
  <2>. QED BY <2>1, <2>2, <2>3
<1>6. ASSUME NEW p \in stepped
      PROVE  Sane(p) /\ RMoves(s, p) /\ CMoves(s, p)
  <2>1. PICK a, b : a \in convolved /\ b \in Gdn(a.s) /\ Follows(p, a, b)
    <3>. HIDE DEF Gdn, convolved
    <3>. QED BY DEF Then, Out, Follows
  <2>2. Sane(a) /\ RStays(s, a) /\ CMoves(s, a)
    BY <1>4, <2>1
  <2>3. a.s \in Copies
    BY <2>2 DEF Sane
  <2>. HIDE DEF Gdn
  <2>4. Sane(b) /\ CSame(a.s, b) /\ RMoves(a.s, b)
    BY <1>5, <2>1, <2>3
  <2>. QED BY <2>1, <2>2, <2>4
       DEF Follows, Sane, CSame, RStays, RMoves, RCounts, CMoves, CCounts, LiveC
<1>7. CASE o \in projected /\ ~o.ok
  BY <1>3, <1>7
<1>8. CASE o \in Then(stepped, FfnOnAct)
  <2>1. PICK a, b : a \in stepped /\ b \in FfnOnAct(a.s) /\ Follows(o, a, b)
    <3>. HIDE DEF stepped
    <3>. QED BY <1>8 DEF Then, Out, Follows
  <2>2. Sane(a) /\ RMoves(s, a) /\ CMoves(s, a)
    BY <1>6, <2>1
  <2>3. a.s \in Copies
    BY <2>2 DEF Sane
  <2>4. b.s = a.s /\ b.w = {} /\ (b.ok => b.c = {}) /\ (~b.ok => b.c = {"late"})
    <3>1. CASE b = Done(a.s)
      BY <2>3, <3>1, DoneIs
    <3>2. CASE b \in Late(a.s)
      BY <2>3, <3>2, LateIs
    <3>. QED BY <2>1, <3>1, <3>2 DEF FfnOnAct
  <2>. QED BY <2>1, <2>2, <2>4
       DEF Follows, Sane, RMoves, RCounts, CMoves, CCounts, RStays, CStays
<1>. HIDE DEF stepped, projected
<1>. QED BY <1>1, <1>7, <1>8

LEMMA LinearActIs ==
  ASSUME cur \in Nat, tag \in Nat, NEW s \in Copies, NEW o \in LinearAct(s)
  PROVE  /\ Sane(o) /\ (o.ok => RMoves(s, o) /\ CMoves(s, o))
         /\ ~o.ok => RStays(s, o) /\ CStays(s, o)
<1>1. \/ o \in TryLinearDecodeOnAct(s) /\ o.ok
      \/ \E a, b : a \in TryLinearDecodeOnAct(s) /\ ~a.ok /\ b \in ActSandwich(a.s) /\ Follows(o, a, b)
  BY DEF LinearAct, OrElse, Then, Out, Follows
<1>2. CASE o \in TryLinearDecodeOnAct(s) /\ o.ok
  BY <1>2, OnActIs
<1>3. CASE \E a, b : a \in TryLinearDecodeOnAct(s) /\ ~a.ok /\ b \in ActSandwich(a.s) /\ Follows(o, a, b)
  <2>1. PICK a, b : a \in TryLinearDecodeOnAct(s) /\ ~a.ok /\ b \in ActSandwich(a.s) /\ Follows(o, a, b)
    BY <1>3
  <2>2. Sane(a) /\ RStays(s, a) /\ CStays(s, a)
    BY <2>1, OnActIs
  <2>3. a.s \in Copies
    BY <2>2 DEF Sane
  <2>4. /\ Sane(b) /\ (b.ok => RMoves(a.s, b) /\ CMoves(a.s, b))
        /\ ~b.ok => RStays(a.s, b) /\ CStays(a.s, b)
    BY <2>1, <2>3, ActSandwichIs
  <2>. QED BY <2>1, <2>2, <2>4
       DEF Follows, Sane, RStays, RMoves, RCounts, CStays, CMoves, CCounts
<1>. QED BY <1>1, <1>2, <1>3

\* A layer's outcome, on linear and on full attention.
Handed(s, o) ==
  /\ Sane(o)
  /\ (pass.kind = "prefill" => s.hr = cur) => RMoves(s, o)
  /\ CMoves(s, o)
  /\ pass.kind = "window" /\ s.dc # None => /\ o.s.dc # None
                                            /\ ~(pass.n >= GpuConvMin) => "split" \in o.c
Attended(s, o) ==
  /\ o.s \in [kv : Int] /\ "gdn" \notin o.w /\ "conv" \notin o.w /\ "residual" \notin o.w
  /\ s.kv = cur => o.s.kv = tag /\ "kv" \notin o.w
Settles(l, s, o) == IF l \in Linear THEN Handed(s, o) ELSE Attended(s, o)
Held(l) == IF l \in Linear THEN Copies ELSE [kv : Int]

LEMMA AttendedIs ==
  ASSUME cur \in Nat, tag \in Nat, NEW s \in [kv : Int]
  PROVE  Attended(s, AttendedFull(s)) /\ AttendedFull(s).c = {} /\ AttendedFull(s).ok
<1>1. PICK v \in Int : v = Stepped(s.kv) /\ (s.kv = cur => v = tag)
  BY Moved
<1>2. PICK t : t = [s EXCEPT !.kv = v]
  OBVIOUS
<1>3. t \in [kv : Int] /\ t.kv = v
  BY <1>2
<1>4. AttendedFull(s) = Out(t, TRUE, 0, Read(s.kv, "kv"), {})
  BY <1>1, <1>2 DEF AttendedFull
<1>. QED BY <1>1, <1>3, <1>4 DEF Out, Attended, Read

LEMMA HostSettles ==
  ASSUME cur \in Nat, tag \in Nat, pass.n \in Nat \ {0}, NEW l, NEW s \in Held(l),
         NEW o \in LayerForward(l, s)
  PROVE  Settles(l, s, o)
<1>1. CASE l \in Linear
  <2>1. PICK n \in Nat \ {0}, prefill \in BOOLEAN : n = pass.n /\ prefill = (pass.kind = "prefill")
    OBVIOUS
  <2>2. s \in Copies /\ o \in LayerForwardLinear(s, n, prefill)
    BY <1>1, <2>1 DEF Held, LayerForward
  <2>. QED BY <1>1, <2>1, <2>2, LayerForwardIs DEF Settles, Handed
<1>2. CASE l \notin Linear
  <2>1. s \in [kv : Int] /\ o = AttendedFull(s)
    BY <1>2 DEF Held, LayerForward, LayerForwardFull
  <2>. QED BY <1>2, <2>1, AttendedIs DEF Settles
<1>. QED BY <1>1, <1>2

\* A device path that answers false, with the host's after it.
LEMMA PathSettles ==
  ASSUME cur \in Nat, tag \in Nat, pass.n \in Nat \ {0}, NEW l, NEW s \in Held(l), pass.kind # "window",
         NEW o, o \in ForwardPrefill(l, s) \/ (o \in ForwardAct(l, s) /\ pass.kind # "prefill")
  PROVE  /\ o.ok => Settles(l, s, o)
         /\ ~o.ok => \A p, a : p \in LayerForward(l, o.s) /\ Follows(a, o, p) => Settles(l, s, a)
<1>1. CASE l \in Linear
  <2>1. s \in Copies
    BY <1>1 DEF Held
  <2>2. /\ Sane(o) /\ (o.ok => RMoves(s, o) /\ CMoves(s, o))
        /\ ~o.ok => RStays(s, o) /\ CStays(s, o)
        /\ ~o.ok /\ pass.kind = "prefill" /\ "late" \notin o.c => o.s.hr = s.hr
    <3>1. CASE o \in ForwardPrefill(l, s)
      <4>1. o \in PrefillLinear(s)
        BY <1>1, <3>1 DEF ForwardPrefill
      <4>. QED BY <2>1, <4>1, PrefillLinearIs
    <3>2. CASE o \in ForwardAct(l, s) /\ pass.kind # "prefill"
      <4>1. o \in LinearAct(s)
        BY <1>1, <3>2 DEF ForwardAct
      <4>. QED BY <2>1, <3>2, <4>1, LinearActIs
    <3>. QED BY <3>1, <3>2
  <2>3. ASSUME ~o.ok, NEW p \in LayerForward(l, o.s), NEW a, Follows(a, o, p)
        PROVE  Settles(l, s, a)
    <3>1. o.s \in Held(l)
      BY <1>1, <2>2 DEF Held, Sane
    <3>2. Handed(o.s, p)
      BY <1>1, <3>1, HostSettles DEF Settles
    <3>3. (pass.kind = "prefill" => s.hr = cur) => RMoves(s, a)
      <4>. SUFFICES ASSUME pass.kind = "prefill" => s.hr = cur, RCounts(a), LiveR(s) = cur
                    PROVE  LiveR(a.s) = tag /\ "gdn" \notin a.w
        BY DEF RMoves
      <4>1. "late" \notin o.c /\ RCounts(p)
        BY <2>3 DEF RCounts, Follows
      <4>2. LiveR(o.s) = cur /\ "gdn" \notin o.w /\ (pass.kind = "prefill" => o.s.hr = cur)
        BY <2>2, <2>3, <4>1 DEF RStays
      <4>. QED BY <2>3, <3>2, <4>1, <4>2 DEF Handed, RMoves, Follows
    <3>4. CMoves(s, a)
      BY <2>2, <2>3, <3>2 DEF Handed, CMoves, CStays, CCounts, Follows
    <3>. QED BY <1>1, <2>2, <2>3, <3>2, <3>3, <3>4 DEF Settles, Handed, Sane, Follows
  <2>. QED BY <1>1, <2>2, <2>3 DEF Settles, Handed
<1>2. CASE l \notin Linear
  <2>1. s \in [kv : Int]
    BY <1>2 DEF Held
  <2>2. o = AttendedFull(s) \/ o \in Early({s}) \/ o \in Late(s)
    BY <1>2 DEF ForwardPrefill, ForwardAct, PrefillFull, FullAct
  <2>3. o = AttendedFull(s) \/ (~o.ok /\ o.s = s /\ o.w = {})
    BY <2>2 DEF Early, Late, Out
  <2>4. CASE o = AttendedFull(s)
    BY <1>2, <2>1, <2>4, AttendedIs DEF Settles
  <2>5. CASE ~o.ok /\ o.s = s /\ o.w = {}
    <3>. SUFFICES ASSUME NEW p \in LayerForward(l, o.s), NEW a, Follows(a, o, p)
                  PROVE  Settles(l, s, a)
      BY <2>5
    <3>1. p = AttendedFull(s)
      BY <1>2, <2>5 DEF LayerForward, LayerForwardFull
    <3>2. Attended(s, p)
      BY <2>1, <3>1, AttendedIs
    <3>. QED BY <1>2, <2>5, <3>2 DEF Settles, Attended, Follows
  <2>. QED BY <2>3, <2>4, <2>5
<1>. QED BY <1>1, <1>2

(***************************************************************************)
(* The steps of a pass.                                                    *)
(***************************************************************************)
LEMMA LayersAre ==
  NL \in Nat /\ Linear \subseteq 1..NL
BY DeviceStateAssumption DEF NL, Linear

LEMMA TypedAt ==
  ASSUME NEW f, Typed(f), NEW l \in 1..NL
  PROVE  f[l] \in Held(l)
BY DEF Typed, Held

\* One of the functions' values replaced.
Put(f, l, v) == [f EXCEPT ![l] = v]
LEMMA Retyped ==
  ASSUME NEW f, Typed(f), NEW l \in 1..NL, NEW v, v \in Held(l)
  PROVE  Typed(Put(f, l, v)) /\ Put(f, l, v)[l] = v /\ \A k \in 1..NL : k # l => Put(f, l, v)[k] = f[k]
<1>1. v \in Copies \cup [kv : Int]
  BY DEF Held
<1>2. Put(f, l, v) \in States
  BY <1>1 DEF Typed, States, Put
<1>3. \A k \in 1..NL : Put(f, l, v)[k] = IF k = l THEN v ELSE f[k]
  BY DEF Typed, States, Put
<1>. QED BY <1>2, <1>3 DEF Typed, Held

\* Layer pass.l has settled: what is handed over reaches one layer further.
LEMMA LayerKeeps ==
  ASSUME HandedOver, InLayers, NEW o, NEW f, NEW w, NEW c, Took(o, f, w, c),
         NEW pf \in BOOLEAN, pf => pass.pf, pass' = [pass EXCEPT !.l = @ + 1, !.pf = pf],
         Settles(pass.l, st[pass.l], o),
         w \subseteq {"residual"}, "late" \notin cause' => w = {},
         x' \in Int, dx' \in Int,
         "late" \notin cause' => IF pf \/ (pass.act /\ dx' # None) THEN dx' = pass.l ELSE x' = pass.l
  PROVE  HandedOver'
<1>. USE DEF HandedOver
<1>1. /\ UNCHANGED <<gdn, phase, cur, tag, shot>>
      /\ st' = [st EXCEPT ![pass.l] = o.s]
      /\ wrong' = wrong \cup (o.w \cup w) /\ cause' = cause \cup (o.c \cup c)
  BY DEF Took, Tell, sessionVars
<1>2. /\ cur \in Nat /\ tag \in Nat /\ phase = "layers" /\ pass.l \in 1..NL /\ Typed(st)
      /\ pass \in [kind : {"none", "prefill", "decode", "window"}, n : Nat, l : Nat, pf : BOOLEAN, act : BOOLEAN]
  BY LayersAre DEF StateType, Phases, InLayers
<1>3. /\ pass'.l = pass.l + 1 /\ pass'.pf = pf /\ pass'.kind = pass.kind /\ pass'.n = pass.n
      /\ pass'.act = pass.act /\ pass' \in [kind : {"none", "prefill", "decode", "window"}, n : Nat, l : Nat, pf : BOOLEAN, act : BOOLEAN]
  <2>1. PICK u \in Nat : u = pass.l + 1
    BY <1>2
  <2>2. pass' = [pass EXCEPT !.l = u, !.pf = pf]
    BY <1>2, <2>1
  <2>. QED BY <1>2, <2>1, <2>2
<1>4. o.s \in Held(pass.l)
  BY DEF Settles, Handed, Attended, Sane, Held
<1>5. Typed(st') /\ st'[pass.l] = o.s /\ \A k \in 1..NL : k # pass.l => st'[k] = st[k]
  <2>1. PICK l \in 1..NL : l = pass.l
    BY <1>2
  <2>2. PICK v : v = o.s /\ v \in Held(l)
    BY <2>1, <1>4
  <2>3. st' = Put(st, l, v)
    BY <1>1, <2>1, <2>2 DEF Put
  <2>4. Typed(st)
    BY <1>2
  <2>5. /\ Typed(Put(st, l, v)) /\ Put(st, l, v)[l] = v
        /\ \A k \in 1..NL : k # l => Put(st, l, v)[k] = st[k]
    BY <2>2, <2>4, Retyped
  <2>6. Typed(st')
    BY <2>3, <2>5, Zenon
  <2>. QED BY <2>1, <2>2, <2>3, <2>5, <2>6
<1>6. \A k \in 1..NL : Due(k)' = IF k = pass.l THEN tag ELSE Due(k)
  BY <1>1, <1>2, <1>3 DEF Due
<1>7. Due(pass.l) = cur
  BY <1>2 DEF Due
<1>8. StateType'
  <2>1. UNCHANGED <<cur, tag, shot>>
    BY <1>1
  <2>2. Typed(shot.st)' = Typed(shot.st)
    BY <2>1 DEF Typed
  <2>3. Typed(st)'
    BY <1>5 DEF Typed
  <2>. QED BY <1>3, <2>1, <2>2, <2>3 DEF StateType
<1>9. Phases'
  BY <1>1, <1>2, <1>3, LayersAre DEF Phases
<1>10. /\ RClean(cause') => RClean(cause) /\ RCounts(o)
       /\ CClean(cause') => CClean(cause) /\ CCounts(o)
       /\ "late" \notin cause' => "late" \notin cause /\ "late" \notin o.c
  BY <1>1 DEF RClean, CClean, RCounts, CCounts
<1>11. ASSUME RClean(cause'), pass.l \in Linear
       PROVE  LiveR(o.s) = tag /\ "gdn" \notin o.w
  <2>1. LiveR(st[pass.l]) = cur /\ (pass.kind = "prefill" => st[pass.l].hr = cur)
    BY <1>2, <1>7, <1>10, <1>11 DEF Recurrences, Untouched
  <2>. QED BY <1>10, <1>11, <2>1 DEF Settles, Handed, RMoves
<1>12. ASSUME CClean(cause'), pass.l \in Linear
       PROVE  LiveC(o.s) = tag /\ "conv" \notin o.w
  <2>1. CCounts(o)
    BY <1>10, <1>12
  <2>2. Stale(pass.l) => st[pass.l].dc = None
    <3>1. Stale(pass.l) => Replaying
      BY <1>2 DEF Stale
    <3>2. Replaying => pass.kind = "window"
      BY DEF Replaying
    <3>. QED BY <1>2, <1>10, <1>12, <2>1, <3>1, <3>2 DEF Convolutions, Settles, Handed, CCounts
  <2>3. LiveC(st[pass.l]) = cur
    BY <1>2, <1>7, <1>10, <1>12, <2>2 DEF Convolutions
  <2>. QED BY <1>12, <2>1, <2>3 DEF Settles, Handed, CMoves
<1>13. Recurrences'
  <2>. SUFFICES ASSUME RClean(cause'), NEW k \in Linear
                PROVE  /\ LiveR(st'[k]) = Due(k)'
                       /\ Untouched(k)' => st'[k].hr = cur
                       /\ shot # NoShot => shot.st[k].hr = shot.cur
    BY <1>1, <1>2 DEF Recurrences, RClean
  <2>1. k \in 1..NL /\ RClean(cause)
    BY <1>10, LayersAre
  <2>2. LiveR(st[k]) = Due(k) /\ (Untouched(k) => st[k].hr = cur)
        /\ (shot # NoShot => shot.st[k].hr = shot.cur)
    BY <1>2, <2>1 DEF Recurrences
  <2>3. Untouched(k)' => k # pass.l /\ Untouched(k)
    BY <1>1, <1>2, <1>3, <2>1 DEF Untouched
  <2>. QED BY <1>5, <1>6, <1>11, <2>1, <2>2, <2>3
<1>14. Convolutions'
  <2>. SUFFICES ASSUME CClean(cause'), NEW k \in Linear
                PROVE  /\ (Stale(k)' => st'[k].dc = None) => LiveC(st'[k]) = Due(k)'
                       /\ Replaying' /\ ~(k < pass'.l) /\ st'[k].dc # None => ~(pass'.n >= GpuConvMin)
                       /\ shot # NoShot /\ st'[k].dc = None => shot.st[k].hc = shot.cur
    BY <1>1, <1>2 DEF Convolutions, CClean
  <2>1. k \in 1..NL /\ CClean(cause)
    BY <1>10, LayersAre
  <2>2. /\ (Stale(k) => st[k].dc = None) => LiveC(st[k]) = Due(k)
        /\ Replaying /\ ~(k < pass.l) /\ st[k].dc # None => ~(pass.n >= GpuConvMin)
        /\ shot # NoShot /\ st[k].dc = None => shot.st[k].hc = shot.cur
    BY <1>2, <2>1 DEF Convolutions
  <2>3. CASE k = pass.l
    <3>1. LiveC(st'[k]) = Due(k)' /\ k < pass'.l
      BY <1>2, <1>3, <1>5, <1>6, <1>12, <2>3
    <3>2. shot # NoShot => pass.kind = "window"
      BY <1>2 DEF Phases
    <3>. QED BY <1>5, <2>2, <2>3, <3>1, <3>2 DEF Settles, Handed
  <2>4. CASE k # pass.l
    <3>1. /\ st'[k] = st[k] /\ Due(k)' = Due(k) /\ pass'.n = pass.n
          /\ Replaying' = Replaying /\ (k < pass'.l <=> k < pass.l)
      BY <1>1, <1>2, <1>3, <1>5, <1>6, <2>1, <2>4 DEF Replaying
    <3>2. Stale(k)' <=> Stale(k)
      BY <1>1, <3>1 DEF Stale
    <3>. QED BY <2>2, <3>1, <3>2
  <2>. QED BY <2>3, <2>4
<1>15. /\ pass.l \notin Linear => o.s.kv = tag /\ "kv" \notin o.w
       /\ "kv" \notin o.w /\ "residual" \notin o.w
  BY <1>2, <1>7 DEF KvCaches, Settles, Handed, Attended, Sane
<1>16. KvCaches'
  <2>. SUFFICES ASSUME NEW k \in (1..NL) \ Linear
                PROVE  st'[k].kv = Due(k)' /\ (shot # NoShot => shot.st[k].kv = shot.cur)
    BY <1>1, <1>2 DEF KvCaches
  <2>. QED BY <1>2, <1>5, <1>6, <1>15 DEF KvCaches
<1>17. Residual'
  BY <1>1, <1>2, <1>3 DEF Residual
<1>18. Wrongs'
  <2>1. "gdn" \in wrong' => ~RClean(cause')
    <3>1. pass.l \notin Linear => "gdn" \notin o.w
      BY DEF Settles, Attended
    <3>. QED BY <1>1, <1>10, <1>11, <3>1 DEF Wrongs
  <2>2. "conv" \in wrong' => ~CClean(cause')
    <3>1. pass.l \notin Linear => "conv" \notin o.w
      BY DEF Settles, Attended
    <3>. QED BY <1>1, <1>10, <1>12, <3>1 DEF Wrongs
  <2>3. ("residual" \in wrong' => "late" \in cause') /\ "kv" \notin wrong'
    BY <1>1, <1>15 DEF Wrongs
  <2>4. RClean(cause)' = RClean(cause') /\ CClean(cause)' = CClean(cause')
    BY <1>1 DEF RClean, CClean
  <2>. QED BY <2>1, <2>2, <2>3, <2>4 DEF Wrongs
<1>. QED BY <1>8, <1>9, <1>13, <1>14, <1>16, <1>17, <1>18

\* What a layer needs of the invariant.
LEMMA AtLayer ==
  ASSUME HandedOver, InLayers
  PROVE  /\ cur \in Nat /\ tag \in Nat /\ pass.n \in Nat \ {0} /\ pass.l \in 1..NL
         /\ st[pass.l] \in Held(pass.l)
         /\ pass.pf \in BOOLEAN /\ pass.act \in BOOLEAN /\ x \in Int /\ dx \in Int
         /\ pass.kind = "window" => ~pass.pf /\ ~pass.act
         /\ pass.kind = "prefill" => ~pass.act
         /\ "late" \notin cause => IF pass.pf \/ (pass.act /\ dx # None) THEN dx = pass.l - 1
                                   ELSE x = pass.l - 1
<1>1. phase = "layers" /\ pass.l \in 1..NL
  BY LayersAre DEF HandedOver, StateType, Phases, InLayers
<1>. QED BY <1>1, TypedAt DEF HandedOver, StateType, Phases, Residual

LEMMA DepthIs ==
  ASSUME NEW d, NEW due
  PROVE  OffDepth(d, due) \subseteq {"residual"} /\ (d = due => OffDepth(d, due) = {})
BY DEF OffDepth

LEMMA DeeperIs ==
  ASSUME pass.l \in 1..NL, NEW d
  PROVE  Deeper(d) \in Int /\ (d = pass.l - 1 => Deeper(d) = pass.l)
BY LayersAre DEF Deeper, Bad

LEMMA HostLayerKeeps ==
  ASSUME HandedOver, HostLayer
  PROVE  HandedOver'
<1>1. /\ InLayers /\ ~pass.pf /\ ~pass.act /\ x' = Deeper(x) /\ dx' = dx
      /\ pass' = [pass EXCEPT !.l = @ + 1]
  BY DEF HostLayer
<1>2. PICK o \in LayerForward(pass.l, st[pass.l]) : Took(o, 0, OffDepth(x, pass.l - 1), {})
  BY DEF HostLayer
<1>3. Settles(pass.l, st[pass.l], o)
  BY <1>1, AtLayer, HostSettles
<1>4. PICK w : w = OffDepth(x, pass.l - 1)
  OBVIOUS
<1>5. cause' = cause \cup (o.c \cup {})
  BY <1>2 DEF Took, Tell
<1>6. PICK pf \in BOOLEAN : pf = pass.pf
  BY <1>1, AtLayer
<1>7. pass' = [pass EXCEPT !.l = @ + 1, !.pf = pf]
  BY <1>1, <1>6 DEF HandedOver, StateType
<1>8. x' \in Int /\ dx' \in Int /\ ("late" \notin cause' => x' = pass.l /\ w = {}) /\ w \subseteq {"residual"}
  BY <1>1, <1>4, <1>5, AtLayer, DepthIs, DeeperIs
<1>9. Took(o, 0, w, {})
  BY <1>2, <1>4
<1>. QED BY <1>1, <1>3, <1>6, <1>7, <1>8, <1>9, LayerKeeps

\* A device path fails and layer_forward takes over.
LEMMA FallbackSettles ==
  ASSUME HandedOver, InLayers, pass.kind # "window",
         NEW o, \/ o \in ForwardPrefill(pass.l, st[pass.l])
                \/ o \in ForwardAct(pass.l, st[pass.l]) /\ pass.kind # "prefill",
         ~o.ok, NEW d, NEW f, NEW c, Fallback(o, d, f, c)
  PROVE  \E a : /\ Settles(pass.l, st[pass.l], a) /\ o.c \subseteq a.c
                /\ Took(a, f, OffDepth(d, pass.l - 1), c)
<1>1. PICK a \in Then({o}, LAMBDA s : LayerForward(pass.l, s)) : Took(a, f, OffDepth(d, pass.l - 1), c)
  BY DEF Fallback
<1>2. PICK p \in LayerForward(pass.l, o.s) : Follows(a, o, p)
  BY <1>1 DEF Then, Out, Follows
<1>3. Settles(pass.l, st[pass.l], a)
  BY <1>2, AtLayer, PathSettles
<1>. QED BY <1>1, <1>2, <1>3 DEF Follows

LEMMA PrefillLayerKeeps ==
  ASSUME HandedOver, PrefillLayer
  PROVE  HandedOver'
<1>1. InLayers /\ pass.pf
  BY DEF PrefillLayer
<1>2. pass.kind # "window" /\ ~pass.act
  BY <1>1 DEF HandedOver, Phases, InLayers
<1>3. PICK o \in ForwardPrefill(pass.l, st[pass.l]) :
        \/ /\ o.ok
           /\ Took(o, 0, OffDepth(dx, pass.l - 1), {})
           /\ dx' = Deeper(dx)
           /\ pass' = [pass EXCEPT !.l = @ + 1]
           /\ UNCHANGED x
        \/ /\ ~o.ok
           /\ \E moved \in IF "late" \in o.c THEN {dx, Bad} ELSE {dx} :
                \/ Fallback(o, moved, 0, {}) /\ x' = Deeper(moved)
                \/ Fallback(o, x, 1, {"late"}) /\ x' = Deeper(x)
           /\ dx' = None
           /\ pass' = [pass EXCEPT !.l = @ + 1, !.pf = FALSE]
  BY DEF PrefillLayer
<1>4. CASE /\ o.ok
           /\ Took(o, 0, OffDepth(dx, pass.l - 1), {})
           /\ dx' = Deeper(dx)
           /\ pass' = [pass EXCEPT !.l = @ + 1]
           /\ UNCHANGED x
  <2>1. Settles(pass.l, st[pass.l], o)
    BY <1>1, <1>2, <1>4, AtLayer, PathSettles
  <2>2. PICK w : w = OffDepth(dx, pass.l - 1)
    OBVIOUS
  <2>3. cause' = cause \cup (o.c \cup {})
    BY <1>4 DEF Took, Tell
  <2>4. PICK pf \in BOOLEAN : pf = pass.pf
    BY <1>1, AtLayer
  <2>5. pass' = [pass EXCEPT !.l = @ + 1, !.pf = pf]
    BY <1>4, <2>4 DEF HandedOver, StateType
  <2>6. /\ x' \in Int /\ dx' \in Int /\ ("late" \notin cause' => dx' = pass.l /\ w = {})
        /\ w \subseteq {"residual"}
    BY <1>1, <1>4, <2>2, <2>3, AtLayer, DepthIs, DeeperIs
  <2>7. Took(o, 0, w, {})
    BY <1>4, <2>2
  <2>. QED BY <1>1, <2>1, <2>4, <2>5, <2>6, <2>7, LayerKeeps
<1>5. CASE /\ ~o.ok
           /\ \E moved \in IF "late" \in o.c THEN {dx, Bad} ELSE {dx} :
                \/ Fallback(o, moved, 0, {}) /\ x' = Deeper(moved)
                \/ Fallback(o, x, 1, {"late"}) /\ x' = Deeper(x)
           /\ dx' = None
           /\ pass' = [pass EXCEPT !.l = @ + 1, !.pf = FALSE]
  <2>1. PICK d, f, c : /\ Fallback(o, d, f, c) /\ x' = Deeper(d)
                       /\ "late" \notin o.c \cup c => d = dx
    BY <1>5
  <2>2. PICK a : /\ Settles(pass.l, st[pass.l], a) /\ o.c \subseteq a.c
                 /\ Took(a, f, OffDepth(d, pass.l - 1), c)
    BY <1>1, <1>2, <1>5, <2>1, FallbackSettles
  <2>3. PICK w : w = OffDepth(d, pass.l - 1)
    OBVIOUS
  <2>4. cause' = cause \cup (a.c \cup c)
    BY <2>2 DEF Took, Tell
  <2>5. /\ x' \in Int /\ dx' \in Int /\ ("late" \notin cause' => x' = pass.l /\ w = {})
        /\ w \subseteq {"residual"}
    BY <1>1, <1>5, <2>1, <2>2, <2>3, <2>4, AtLayer, DepthIs, DeeperIs DEF None
  <2>6. Took(a, f, w, c)
    BY <2>2, <2>3
  <2>7. PICK pf \in BOOLEAN : pf = FALSE
    OBVIOUS
  <2>8. pass' = [pass EXCEPT !.l = @ + 1, !.pf = pf]
    BY <1>5, <2>7
  <2>. QED BY <1>1, <1>2, <2>2, <2>5, <2>6, <2>7, <2>8, LayerKeeps
<1>. QED BY <1>3, <1>4, <1>5

LEMMA ActLayerKeeps ==
  ASSUME HandedOver, ActLayer
  PROVE  HandedOver'
<1>1. InLayers /\ pass.act /\ pass' = [pass EXCEPT !.l = @ + 1]
  BY DEF ActLayer
<1>2. pass.kind # "window" /\ pass.kind # "prefill" /\ ~pass.pf
  BY <1>1 DEF HandedOver, Phases, InLayers
<1>3. PICK pf \in BOOLEAN : pf = pass.pf
  BY <1>1, AtLayer
<1>4. pass' = [pass EXCEPT !.l = @ + 1, !.pf = pf]
  BY <1>1, <1>3 DEF HandedOver, StateType
<1>5. ASSUME NEW a, NEW f, NEW c, NEW d, Settles(pass.l, st[pass.l], a),
             Took(a, f, OffDepth(d, pass.l - 1), c),
             "late" \notin a.c \cup c => d = IF dx # None THEN dx ELSE x,
             x' \in Int, dx' \in Int,
             d = pass.l - 1 => IF dx' # None THEN dx' = pass.l ELSE x' = pass.l
      PROVE  HandedOver'
  <2>1. PICK w : w = OffDepth(d, pass.l - 1)
    OBVIOUS
  <2>2. cause' = cause \cup (a.c \cup c)
    BY <1>5 DEF Took, Tell
  <2>3. "late" \notin cause' => d = pass.l - 1
    BY <1>1, <1>2, <1>5, <2>2, AtLayer
  <2>4. /\ w \subseteq {"residual"}
        /\ "late" \notin cause' => w = {}
    BY <2>1, <2>3, DepthIs
  <2>5. Took(a, f, w, c)
    BY <1>5, <2>1
  <2>6. "late" \notin cause' => IF pf \/ (pass.act /\ dx' # None) THEN dx' = pass.l ELSE x' = pass.l
    BY <1>1, <1>2, <1>3, <1>5, <2>3
  <2>. QED BY <1>1, <1>3, <1>4, <1>5, <2>4, <2>5, <2>6, LayerKeeps
<1>6. CASE dx = None
  <2>1. PICK o \in LayerForward(pass.l, st[pass.l]) : Took(o, 0, OffDepth(x, pass.l - 1), {})
    BY <1>6 DEF ActLayer
  <2>2. Settles(pass.l, st[pass.l], o)
    BY <1>1, AtLayer, HostSettles
  <2>3. x' = Deeper(x) /\ dx' = dx
    BY <1>6 DEF ActLayer
  <2>. QED BY <1>1, <1>5, <1>6, <2>1, <2>2, <2>3, AtLayer, DeeperIs
<1>7. CASE dx # None
  <2>1. PICK o \in ForwardAct(pass.l, st[pass.l]) :
          \/ o.ok /\ Took(o, 0, OffDepth(dx, pass.l - 1), {})
             /\ dx' = Deeper(dx) /\ UNCHANGED x
          \/ /\ ~o.ok
             /\ x' = Deeper(dx)
             /\ \/ Fallback(o, dx, 0, {}) /\ dx' = x'
                \/ Fallback(o, dx, 1, {}) /\ dx' = None
          \/ /\ ~o.ok
             /\ Fallback(o, x, 1, {"late"})
             /\ x' = Deeper(x) /\ dx' = None
    BY <1>7 DEF ActLayer
  <2>2. CASE o.ok /\ Took(o, 0, OffDepth(dx, pass.l - 1), {}) /\ dx' = Deeper(dx) /\ UNCHANGED x
    <3>1. Settles(pass.l, st[pass.l], o)
      BY <1>1, <1>2, <2>2, AtLayer, PathSettles
    <3>2. x' \in Int /\ dx' \in Int /\ (dx = pass.l - 1 => dx' = pass.l)
      BY <1>1, <2>2, AtLayer, DeeperIs
    <3>3. pass.l # None
      BY <1>1, AtLayer DEF None
    <3>. QED BY <1>5, <1>7, <2>2, <3>1, <3>2, <3>3
  <2>3. CASE ~o.ok
    <3>1. PICK d, f, c : /\ Fallback(o, d, f, c) /\ x' = Deeper(d) /\ dx' \in {x', None}
                         /\ "late" \notin c => d = dx
      BY <2>1, <2>3
    <3>2. PICK a : /\ Settles(pass.l, st[pass.l], a) /\ o.c \subseteq a.c
                   /\ Took(a, f, OffDepth(d, pass.l - 1), c)
      BY <1>1, <1>2, <2>3, <3>1, FallbackSettles
    <3>3. /\ x' \in Int /\ dx' \in Int
          /\ d = pass.l - 1 => x' = pass.l
      BY <1>1, <3>1, AtLayer, DeeperIs DEF None
    <3>. QED BY <1>5, <1>7, <3>1, <3>2, <3>3
  <2>. QED BY <2>1, <2>2, <2>3
<1>. QED BY <1>6, <1>7

Passes == [kind : {"none", "prefill", "decode", "window"}, n : Nat, l : Nat, pf : BOOLEAN, act : BOOLEAN]

\* The parts of the invariant that a step which moves no state leaves as they are.
LEMMA CausesGrow ==
  ASSUME NEW c, cause' = cause \cup c, UNCHANGED gdn
  PROVE  /\ RClean(cause)' => RClean(cause)
         /\ CClean(cause)' => CClean(cause)
         /\ "late" \notin cause' => "late" \notin cause /\ "late" \notin c
         /\ "throw" \in c => ~RClean(cause)' /\ ~CClean(cause)'
BY DEF RClean, CClean

LEMMA StillTyped ==
  ASSUME UNCHANGED <<st, shot>>
  PROVE  Typed(st)' = Typed(st) /\ Typed(shot.st)' = Typed(shot.st)
BY DEF Typed

LEMMA WrongsKept ==
  ASSUME Wrongs, NEW w, NEW c, wrong' = wrong \cup w, cause' = cause \cup c, UNCHANGED gdn,
         w \subseteq {"residual"}, w # {} => "late" \in cause'
  PROVE  Wrongs'
<1>1. /\ RClean(cause)' => RClean(cause)
      /\ CClean(cause)' => CClean(cause)
  BY CausesGrow
<1>. QED BY <1>1 DEF Wrongs

LEMMA WrongsStay ==
  ASSUME Wrongs, NEW c, wrong' = wrong, cause' = cause \cup c, gdn' = gdn
  PROVE  Wrongs'
<1>1. /\ RClean(cause)' => RClean(cause)
      /\ CClean(cause)' => CClean(cause)
  BY CausesGrow
<1>. QED BY <1>1 DEF Wrongs

LEMMA EndPassKeeps ==
  ASSUME HandedOver, EndPass
  PROVE  HandedOver'
<1>. USE DEF HandedOver
<1>1. /\ phase = "layers" /\ ~(pass.l <= NL) /\ phase' = "head"
      /\ UNCHANGED <<gdn, st, cur, tag, pass, shot>>
  BY LayersAre DEF EndPass, sessionVars, StateType
<1>2. pass.l = NL + 1
  BY <1>1, LayersAre DEF Phases, StateType
<1>3. PICK d, w, c :
        /\ wrong' = wrong \cup w /\ cause' = cause \cup c
        /\ w = OffDepth(d, NL) /\ d \in {x, dx}
        /\ "late" \notin c => d = IF pass.pf \/ (pass.act /\ dx # None) THEN dx ELSE x
        /\ x' = d /\ ((dx' = dx /\ (dx # None => d = dx)) \/ dx' = None)
  <2>1. CASE pass.pf
    <3>1. PICK r \in ReadBack : /\ Tell(r[1], OffDepth(r[2], NL), r[3])
                                /\ x' = r[2] /\ dx' = IF pass.act /\ r[1] = 0 THEN dx ELSE None
      BY <2>1 DEF EndPass
    <3>2. /\ r[2] \in {x, dx} /\ ("late" \notin r[3] => r[2] = dx)
          /\ (dx' = dx /\ r[2] = dx) \/ dx' = None
      BY <3>1 DEF ReadBack
    <3>. QED BY <2>1, <3>1, <3>2 DEF Tell
  <2>2. CASE ~pass.pf /\ pass.act /\ dx # None
    <3>1. PICK r \in SyncAct : /\ Tell(r[1], OffDepth(r[2], NL), r[3])
                               /\ x' = r[2] /\ dx' = IF pass.act /\ r[1] = 0 THEN dx ELSE None
      BY <2>2 DEF EndPass
    <3>2. /\ r[2] \in {x, dx} /\ ("late" \notin r[3] => r[2] = dx)
          /\ (dx' = dx /\ r[2] = dx) \/ dx' = None
      BY <3>1 DEF SyncAct
    <3>. QED BY <2>2, <3>1, <3>2 DEF Tell
  <2>3. CASE ~pass.pf /\ ~(pass.act /\ dx # None)
    <3>1. PICK r \in {<<0, x, {}>>} : /\ Tell(r[1], OffDepth(r[2], NL), r[3])
                                      /\ x' = r[2] /\ dx' = IF pass.act /\ r[1] = 0 THEN dx ELSE None
      BY <2>3 DEF EndPass
    <3>2. r[2] = x /\ r[3] = {} /\ (dx' = None \/ (pass.act /\ dx' = dx))
      BY <3>1
    <3>. QED BY <2>3, <3>1, <3>2 DEF Tell
  <2>. QED BY <2>1, <2>2, <2>3
<1>4. StateType'
  BY <1>1, <1>3, StillTyped DEF StateType, None
<1>5. Phases'
  BY <1>1, <1>2 DEF Phases
<1>6. \A l \in 1..NL : Due(l)' = Due(l)
  BY <1>1 DEF Due
<1>7. /\ RClean(cause)' => RClean(cause)
      /\ CClean(cause)' => CClean(cause)
      /\ "late" \notin cause' => "late" \notin cause /\ "late" \notin c
  BY <1>1, <1>3, CausesGrow
<1>8. \A l \in 1..NL : l < pass.l
  BY <1>2, LayersAre
<1>9. Recurrences'
  BY <1>1, <1>6, <1>7, LayersAre DEF Recurrences, Untouched
<1>10. Convolutions'
  <2>1. \A l \in Linear : ~Stale(l) /\ ~Stale(l)' /\ ~Replaying'
    BY <1>1, <1>8, LayersAre DEF Stale, Replaying
  <2>. QED BY <1>1, <1>6, <1>7, <2>1, LayersAre DEF Convolutions
<1>11. KvCaches'
  BY <1>1, <1>6 DEF KvCaches
<1>12. "late" \notin cause' => d = NL
  BY <1>1, <1>2, <1>3, <1>7, LayersAre DEF Residual
<1>13. Residual'
  BY <1>1, <1>3, <1>12 DEF Residual
<1>14. Wrongs'
  BY <1>1, <1>3, <1>12, DepthIs, WrongsKept
<1>. QED BY <1>4, <1>5, <1>9, <1>10, <1>11, <1>13, <1>14

LEMMA LogitsKeeps ==
  ASSUME HandedOver, Logits
  PROVE  HandedOver'
<1>. USE DEF HandedOver
<1>1. /\ phase = "head" /\ phase' \in {"verify", "bonus", "idle"}
      /\ phase' = "verify" <=> shot # NoShot
      /\ cur' = tag /\ (pass' = pass \/ pass' = NoPass) /\ x' = 0 /\ dx' = None
      /\ UNCHANGED <<gdn, st, tag, shot>>
  BY DEF Logits, sessionVars
<1>2. PICK d, w : /\ wrong' = wrong \cup w /\ cause' = cause \cup {} /\ w = OffDepth(d, NL)
                  /\ d = x \/ (dx # None /\ d = dx)
  <2>1. PICK r \in IF dx # None THEN HeadFromAct ELSE {<<0, x>>} : Tell(r[1], OffDepth(r[2], NL), {})
    BY DEF Logits
  <2>2. r[2] = x \/ (dx # None /\ r[2] = dx)
    BY <2>1 DEF HeadFromAct
  <2>. QED BY <2>1, <2>2 DEF Tell
<1>3. NoPass \in Passes
  <2>1. 0 \in Nat /\ FALSE \in BOOLEAN
    OBVIOUS
  <2>. QED BY <2>1 DEF NoPass, Passes
<1>4. StateType'
  BY <1>1, <1>3, StillTyped DEF StateType, None, Passes
<1>5. Phases'
  BY <1>1 DEF Phases
<1>6. pass.l = NL + 1 /\ \A l \in 1..NL : Due(l) = tag /\ Due(l)' = tag
  BY <1>1, LayersAre DEF Phases, Due
<1>7. /\ RClean(cause)' => RClean(cause)
      /\ CClean(cause)' => CClean(cause)
      /\ "late" \notin cause' => "late" \notin cause
  BY <1>1, <1>2, CausesGrow
<1>8. Recurrences'
  BY <1>1, <1>6, <1>7, LayersAre DEF Recurrences, Untouched
<1>9. Convolutions'
  <2>1. \A l \in Linear : ~Stale(l) /\ ~Stale(l)' /\ ~Replaying'
    BY <1>1 DEF Stale, Replaying
  <2>. QED BY <1>1, <1>6, <1>7, <2>1, LayersAre DEF Convolutions
<1>10. KvCaches'
  BY <1>1, <1>6 DEF KvCaches
<1>11. Residual'
  BY <1>1 DEF Residual
<1>12. "late" \notin cause => d = NL
  BY <1>1, <1>2 DEF Residual
<1>13. Wrongs'
  BY <1>1, <1>2, <1>7, <1>12, DepthIs, WrongsKept
<1>. QED BY <1>4, <1>5, <1>8, <1>9, <1>10, <1>11, <1>13

\* A pass begins.
LEMMA StartPassKeeps ==
  ASSUME HandedOver, NEW kind \in {"prefill", "decode", "window"}, NEW n \in Nat \ {0},
         NEW pf \in BOOLEAN, NEW act \in BOOLEAN, NEW c, StartPass(kind, n, pf, act),
         phase \in {"begun", "idle", "bonus", "snapped", "rejected"},
         kind = "window" => ~pf /\ ~act, kind = "prefill" => ~act, pf => kind = "prefill",
         kind = "prefill" <=> phase = "begun",
         kind = "window" <=> phase \in {"snapped", "rejected"},
         UNCHANGED <<gdn, st, cur, shot, wrong>>, cause' = cause \cup c,
         phase = "rejected" /\ "replay" \notin cause' =>
           \A l \in Linear : st[l].dc # None => ~(n >= GpuConvMin)
  PROVE  HandedOver'
<1>. USE DEF HandedOver
<1>1. /\ phase' = "layers" /\ tag' = tag + 1 /\ x' = 0 /\ dx' = (IF pf \/ act THEN 0 ELSE None)
      /\ pass' = [kind |-> kind, n |-> n, l |-> 1, pf |-> pf, act |-> act]
  BY DEF StartPass
<1>2. /\ pass'.l = 1 /\ pass'.kind = kind /\ pass'.n = n /\ pass'.pf = pf /\ pass'.act = act
      /\ pass' \in [kind : {"none", "prefill", "decode", "window"}, n : Nat, l : Nat, pf : BOOLEAN, act : BOOLEAN]
  <2>1. 1 \in Nat
    OBVIOUS
  <2>. QED BY <1>1, <2>1
<1>3. StateType'
  BY <1>1, <1>2, StillTyped DEF StateType, None
<1>4. Phases'
  BY <1>1, <1>2, LayersAre DEF Phases
<1>5. \A l \in 1..NL : Due(l)' = cur /\ Due(l) = cur
  BY <1>1, <1>2 DEF Due
<1>6. /\ RClean(cause)' => RClean(cause)
      /\ CClean(cause)' => CClean(cause)
      /\ "late" \notin cause' => "late" \notin cause
  BY CausesGrow
<1>7. Recurrences'
  BY <1>1, <1>2, <1>5, <1>6, LayersAre DEF Recurrences, Untouched
<1>8. Convolutions'
  <2>1. \A l \in Linear : Stale(l)' <=> kind = "window" /\ shot = NoShot
    BY <1>1, <1>2, LayersAre DEF Stale, Replaying
  <2>2. \A l \in Linear : Stale(l) <=> phase = "rejected"
    BY DEF Stale, Replaying
  <2>3. phase = "rejected" => shot = NoShot
    BY DEF Phases
  <2>4. phase = "snapped" => shot # NoShot
    BY DEF Phases
  <2>5. Replaying' <=> phase = "rejected"
    BY <1>1, <1>2, <2>3, <2>4 DEF Replaying
  <2>6. CClean(cause)' => "replay" \notin cause'
    BY DEF CClean
  <2>. QED BY <1>1, <1>2, <1>5, <1>6, <2>1, <2>2, <2>3, <2>4, <2>5, <2>6, LayersAre DEF Convolutions
<1>9. KvCaches'
  BY <1>1, <1>5 DEF KvCaches
<1>10. Residual'
  BY <1>1, <1>2 DEF Residual
<1>11. Wrongs'
  BY WrongsStay
<1>. QED BY <1>3, <1>4, <1>7, <1>8, <1>9, <1>10, <1>11

LEMMA PassesBegin ==
  ASSUME HandedOver, PrefillPass \/ DecodePass \/ WindowPass \/ ReplayPass
  PROVE  HandedOver'
<1>1. CASE PrefillPass
  <2>1. PICK n \in Prompts, pf \in BOOLEAN : StartPass("prefill", n, pf, FALSE)
    BY <1>1 DEF PrefillPass
  <2>2. n \in Nat \ {0} /\ cause' = cause \cup {}
    BY <1>1, DeviceStateAssumption DEF PrefillPass
  <2>3. phase = "begun" /\ UNCHANGED <<gdn, st, cur, shot, wrong>>
    BY <1>1 DEF PrefillPass, sessionVars
  <2>4. FALSE \in BOOLEAN /\ "prefill" \in {"prefill", "decode", "window"}
    OBVIOUS
  <2>. QED BY <2>1, <2>2, <2>3, <2>4, StartPassKeeps
<1>2. CASE DecodePass
  <2>1. PICK act \in BOOLEAN : StartPass("decode", 1, FALSE, act) /\ wrong' = wrong /\ cause' = cause \cup {}
    BY <1>2 DEF DecodePass, Tell
  <2>2. phase \in {"idle", "bonus"} /\ UNCHANGED <<gdn, st, cur, shot, wrong>>
    BY <1>2, <2>1 DEF DecodePass, sessionVars
  <2>3. FALSE \in BOOLEAN /\ 1 \in Nat \ {0} /\ "decode" \in {"prefill", "decode", "window"}
    OBVIOUS
  <2>. QED BY <2>1, <2>2, <2>3, StartPassKeeps
<1>3. CASE WindowPass
  <2>1. PICK n \in Drafts : StartPass("window", n, FALSE, FALSE)
    BY <1>3 DEF WindowPass
  <2>2. n \in Nat \ {0} /\ cause' = cause \cup {}
    BY <1>3, DeviceStateAssumption DEF WindowPass
  <2>3. phase = "snapped" /\ UNCHANGED <<gdn, st, cur, shot, wrong>>
    BY <1>3 DEF WindowPass, sessionVars
  <2>4. FALSE \in BOOLEAN /\ "window" \in {"prefill", "decode", "window"}
    OBVIOUS
  <2>. QED BY <2>1, <2>2, <2>3, <2>4, StartPassKeeps
<1>4. CASE ReplayPass
  <2>1. PICK n \in 1..(pass.n - 1) :
          /\ StartPass("window", n, FALSE, FALSE)
          /\ cause' = IF n >= GpuConvMin /\ \E l \in Linear : st[l].dc # None
                      THEN cause \cup {"replay"} ELSE cause
    BY <1>4 DEF ReplayPass
  <2>2. n \in Nat \ {0}
    BY DEF HandedOver, StateType
  <2>3. PICK c : /\ cause' = cause \cup c
                 /\ "replay" \notin cause' => \A l \in Linear : st[l].dc # None => ~(n >= GpuConvMin)
    <3>1. CASE n >= GpuConvMin /\ \E l \in Linear : st[l].dc # None
      BY <2>1, <3>1
    <3>2. CASE ~(n >= GpuConvMin /\ \E l \in Linear : st[l].dc # None)
      <4>1. cause' = cause \cup {}
        BY <2>1, <3>2
      <4>. QED BY <3>2, <4>1
    <3>. QED BY <3>1, <3>2
  <2>4. phase = "rejected" /\ UNCHANGED <<gdn, st, cur, shot, wrong>>
    BY <1>4 DEF ReplayPass, sessionVars
  <2>5. FALSE \in BOOLEAN /\ "window" \in {"prefill", "decode", "window"}
    OBVIOUS
  <2>. QED BY <2>1, <2>2, <2>3, <2>4, <2>5, StartPassKeeps
<1>. QED BY <1>1, <1>2, <1>3, <1>4

(***************************************************************************)
(* The steps between passes: draft windows and sessions.                   *)
(***************************************************************************)
LEMMA SnapshotKeeps ==
  ASSUME HandedOver, Snapshot
  PROVE  HandedOver'
<1>. USE DEF HandedOver
<1>1. /\ phase = "idle" /\ phase' = "snapped" /\ UNCHANGED <<gdn, cur, tag, pass, x, dx>>
      /\ shot' = [cur |-> cur, st |-> st']
  BY DEF Snapshot, sessionVars
<1>2. PICK o : /\ \A l \in Linear : o[l] \in FlushGdn(st[l])
               /\ LET failed == {l \in Linear : o[l].f = 1}
                  IN  Tell(Cardinality(failed), {}, IF failed = {} THEN {} ELSE {"late"})
               /\ st' = [l \in 1..NL |-> IF l \in Linear THEN o[l].s ELSE st[l]]
  BY DEF Snapshot, Cardinality, Cardinality
<1>3. PICK c : /\ cause' = cause \cup c /\ wrong' = wrong \cup {}
               /\ "late" \notin c => \A l \in Linear : o[l].f # 1
  <2>1. CASE {l \in Linear : o[l].f = 1} = {}
    BY <1>2, <2>1 DEF Tell
  <2>2. CASE {l \in Linear : o[l].f = 1} # {}
    BY <1>2, <2>2 DEF Tell
  <2>. QED BY <2>1, <2>2
<1>4. Typed(st) /\ cur \in Nat /\ tag \in Nat
  BY DEF StateType
<1>5. ASSUME NEW l \in Linear
      PROVE  /\ st[l] \in Copies /\ st'[l] = o[l].s /\ o[l].s \in Copies
             /\ st'[l].hc = st[l].hc /\ st'[l].dc = st[l].dc
             /\ "late" \notin c => st'[l].dr = None /\ st'[l].hr = LiveR(st[l])
  <2>1. l \in 1..NL
    BY LayersAre
  <2>2. st[l] \in Copies
    BY <1>4, <2>1 DEF Typed
  <2>3. o[l] \in FlushGdn(st[l])
    BY <1>2
  <2>4. /\ Sane(o[l]) /\ CSame(st[l], o[l])
        /\ "late" \notin o[l].c => o[l].s.dr = None /\ o[l].s.hr = LiveR(st[l])
        /\ "late" \in o[l].c => o[l].f = 1
    BY <2>2, <2>3, FlushGdnIs
  <2>. QED BY <1>2, <1>3, <2>1, <2>2, <2>4 DEF Sane, CSame
<1>6. \A l \in (1..NL) \ Linear : st'[l] = st[l] /\ st[l] \in [kv : Int]
  BY <1>2, <1>4 DEF Typed
<1>7. Typed(st')
  <2>1. \A l \in 1..NL : st'[l] \in IF l \in Linear THEN Copies ELSE [kv : Int]
    BY <1>5, <1>6
  <2>2. st' \in States
    BY <1>2, <2>1 DEF States
  <2>. QED BY <2>1, <2>2 DEF Typed
<1>8. shot'.cur = cur /\ shot'.st = st' /\ shot' # NoShot
  <2>1. shot'.cur = cur /\ shot'.st = st'
    BY <1>1
  <2>. QED BY <1>4, <2>1 DEF NoShot, None
<1>9. StateType'
  <2>1. Typed(st)' /\ Typed(shot.st)'
    BY <1>7, <1>8 DEF Typed
  <2>. QED BY <1>1, <1>8, <2>1 DEF StateType
<1>10. Phases'
  BY <1>1, <1>8 DEF Phases
<1>11. /\ RClean(cause)' => RClean(cause) /\ "late" \notin c
       /\ CClean(cause)' => CClean(cause)
  BY <1>1, <1>3 DEF RClean, CClean
<1>12. \A l \in 1..NL : Due(l) = cur /\ Due(l)' = cur
  BY <1>1 DEF Due
<1>13. Recurrences'
  <2>. SUFFICES ASSUME RClean(cause)', NEW l \in Linear
                PROVE  LiveR(st'[l]) = cur /\ ~Untouched(l)' /\ shot'.st[l].hr = cur
    BY <1>1, <1>8, <1>12, LayersAre DEF Recurrences
  <2>1. LiveR(st[l]) = cur
    BY <1>1, <1>11, <1>12, LayersAre DEF Recurrences
  <2>. QED BY <1>1, <1>5, <1>8, <1>11, <2>1 DEF LiveR, Untouched
<1>14. Convolutions'
  <2>. SUFFICES ASSUME CClean(cause)', NEW l \in Linear
                PROVE  LiveC(st'[l]) = cur /\ ~Replaying' /\ (st'[l].dc = None => shot'.st[l].hc = cur)
    BY <1>1, <1>8, <1>12, LayersAre DEF Convolutions
  <2>1. LiveC(st[l]) = cur
    <3>1. ~Stale(l)
      BY <1>1 DEF Stale, Replaying
    <3>. QED BY <1>1, <1>11, <1>12, <3>1, LayersAre DEF Convolutions
  <2>. QED BY <1>1, <1>5, <1>8, <2>1 DEF LiveC, Replaying
<1>15. KvCaches'
  BY <1>1, <1>6, <1>8, <1>12 DEF KvCaches
<1>16. Residual'
  BY <1>1 DEF Residual
<1>17. Wrongs'
  <2>1. wrong' = wrong
    BY <1>3
  <2>. QED BY <1>1, <1>3, <2>1, WrongsStay
<1>. QED BY <1>9, <1>10, <1>13, <1>14, <1>15, <1>16, <1>17

LEMMA AcceptKeeps ==
  ASSUME HandedOver, AcceptWindow
  PROVE  HandedOver'
<1>. USE DEF HandedOver
<1>1. /\ phase = "verify" /\ phase' = "bonus" /\ shot' = NoShot /\ pass' = NoPass
      /\ UNCHANGED <<gdn, st, cur, tag, x, dx, wrong, cause>>
  BY DEF AcceptWindow, sessionVars
<1>2. NoPass \in Passes
  <2>1. 0 \in Nat /\ FALSE \in BOOLEAN
    OBVIOUS
  <2>. QED BY <2>1 DEF NoPass, Passes
<1>3. StateType'
  <2>1. Typed(st)'
    BY <1>1 DEF StateType, Typed
  <2>. QED BY <1>1, <1>2, <2>1 DEF StateType, Passes
<1>4. Phases'
  BY <1>1 DEF Phases
<1>5. \A l \in 1..NL : Due(l) = cur /\ Due(l)' = cur
  BY <1>1 DEF Due
<1>6. RClean(cause)' = RClean(cause) /\ CClean(cause)' = CClean(cause)
  BY <1>1 DEF RClean, CClean
<1>7. Recurrences'
  BY <1>1, <1>5, <1>6, LayersAre DEF Recurrences, Untouched
<1>8. Convolutions'
  <2>1. \A l \in Linear : ~Stale(l) /\ ~Stale(l)' /\ ~Replaying'
    BY <1>1 DEF Stale, Replaying
  <2>. QED BY <1>1, <1>5, <1>6, <2>1, LayersAre DEF Convolutions
<1>9. KvCaches' /\ Residual'
  BY <1>1, <1>5 DEF KvCaches, Residual
<1>10. Wrongs'
  BY <1>1, <1>6 DEF Wrongs
<1>. QED BY <1>3, <1>4, <1>7, <1>8, <1>9, <1>10

LEMMA RejectKeeps ==
  ASSUME HandedOver, RejectWindow
  PROVE  HandedOver'
<1>. USE DEF HandedOver
<1>1. /\ phase = "verify" /\ phase' = "rejected" /\ cur' = shot.cur /\ shot' = NoShot
      /\ st' = [l \in 1..NL |-> Restored(l)]
      /\ UNCHANGED <<gdn, tag, pass, x, dx, wrong, cause>>
  BY DEF RejectWindow, sessionVars
<1>2. shot # NoShot /\ shot.cur \in Nat /\ Typed(shot.st) /\ Typed(st)
  BY <1>1 DEF Phases, StateType
<1>3. ASSUME NEW l \in Linear
      PROVE  /\ st'[l] \in Copies /\ st'[l].dr = None /\ st'[l].hr = shot.st[l].hr
             /\ st'[l].dc = st[l].dc /\ st'[l].hc = shot.st[l].hc
  <2>1. l \in 1..NL
    BY LayersAre
  <2>2. st[l] \in Copies /\ shot.st[l] \in Copies
    BY <1>2, <2>1 DEF Typed
  <2>3. PICK s : s = [st[l] EXCEPT !.hc = shot.st[l].hc, !.hr = shot.st[l].hr]
    OBVIOUS
  <2>4. s = [hc |-> shot.st[l].hc, hr |-> shot.st[l].hr, dc |-> st[l].dc, dr |-> st[l].dr]
    BY <2>2, <2>3 DEF Copies
  <2>5. s \in Copies
    BY <2>2, <2>4 DEF Copies
  <2>6. st'[l] = InvalidateGdn(s)
    BY <1>1, <2>1, <2>3 DEF Restored
  <2>. QED BY <2>4, <2>5, <2>6, InvalidateGdnIs
<1>4. \A l \in (1..NL) \ Linear : st'[l] = shot.st[l] /\ shot.st[l] \in [kv : Int]
  BY <1>1, <1>2 DEF Restored, Typed
<1>5. Typed(st')
  <2>1. \A l \in 1..NL : st'[l] \in IF l \in Linear THEN Copies ELSE [kv : Int]
    BY <1>3, <1>4
  <2>2. st' \in States
    BY <1>1, <2>1 DEF States
  <2>. QED BY <2>1, <2>2 DEF Typed
<1>6. StateType'
  <2>1. Typed(st)'
    BY <1>5 DEF Typed
  <2>. QED BY <1>1, <1>2, <2>1 DEF StateType
<1>7. Phases'
  BY <1>1 DEF Phases
<1>8. \A l \in 1..NL : Due(l)' = cur'
  BY <1>1 DEF Due
<1>9. RClean(cause)' = RClean(cause) /\ CClean(cause)' = CClean(cause)
  BY <1>1 DEF RClean, CClean
<1>10. Recurrences'
  <2>. SUFFICES ASSUME RClean(cause), NEW l \in Linear
                PROVE  LiveR(st'[l]) = cur' /\ ~Untouched(l)'
    BY <1>1, <1>8, <1>9, LayersAre DEF Recurrences
  <2>. QED BY <1>1, <1>2, <1>3 DEF Recurrences, LiveR, Untouched
<1>11. Convolutions'
  <2>. SUFFICES ASSUME CClean(cause), NEW l \in Linear
                PROVE  (st'[l].dc = None => LiveC(st'[l]) = cur') /\ ~Replaying'
    <3>1. \A l \in Linear : Stale(l)'
      BY <1>1 DEF Stale
    <3>. QED BY <1>1, <1>8, <1>9, <3>1, LayersAre DEF Convolutions
  <2>. QED BY <1>1, <1>2, <1>3 DEF Convolutions, LiveC, Replaying
<1>12. KvCaches' /\ Residual'
  BY <1>1, <1>2, <1>4, <1>8 DEF KvCaches, Residual
<1>13. Wrongs'
  BY <1>1, <1>9 DEF Wrongs
<1>. QED BY <1>6, <1>7, <1>10, <1>11, <1>12, <1>13

LEMMA BeginKeeps ==
  ASSUME HandedOver, BeginSession
  PROVE  HandedOver'
<1>. USE DEF HandedOver
<1>1. /\ phase = "none" /\ phase' = "begun" /\ cur' = Fresh
      /\ UNCHANGED <<gdn, tag, pass, x, dx, shot, wrong, cause>>
  BY DEF BeginSession
<1>2. PICK reuse \in BOOLEAN :
        st' = [l \in 1..NL |->
                 IF l \notin Linear THEN [kv |-> Fresh]
                 ELSE [hc |-> Fresh, hr |-> Fresh,
                       dc |-> IF reuse THEN st[l].dc ELSE None,
                       dr |-> IF reuse THEN st[l].dr ELSE None]]
  BY DEF BeginSession
<1>3. Typed(st) /\ Fresh \in Nat /\ Fresh \in Int /\ None \in Int
  BY DEF StateType, Fresh, None
<1>4. ASSUME NEW l \in Linear
      PROVE  /\ st'[l] \in Copies /\ st'[l].hc = Fresh /\ st'[l].hr = Fresh
             /\ st[l].dc = None => st'[l].dc = None
             /\ st[l].dr = None => st'[l].dr = None
  <2>1. l \in 1..NL
    BY LayersAre
  <2>2. st[l] \in Copies
    BY <1>3, <2>1 DEF Typed
  <2>3. PICK a \in Int, b \in Int : /\ a = (IF reuse THEN st[l].dc ELSE None)
                                     /\ b = (IF reuse THEN st[l].dr ELSE None)
    BY <1>3, <2>2 DEF Copies
  <2>4. st'[l] = [hc |-> Fresh, hr |-> Fresh, dc |-> a, dr |-> b]
    BY <1>2, <2>1, <2>3
  <2>. QED BY <1>3, <2>3, <2>4 DEF Copies
<1>5. \A l \in (1..NL) \ Linear : st'[l] = [kv |-> Fresh] /\ st'[l].kv = Fresh
  BY <1>2
<1>6. Typed(st')
  <2>1. \A l \in 1..NL : st'[l] \in IF l \in Linear THEN Copies ELSE [kv : Int]
    <3>. SUFFICES ASSUME NEW l \in 1..NL
                  PROVE  st'[l] \in IF l \in Linear THEN Copies ELSE [kv : Int]
      OBVIOUS
    <3>1. CASE l \in Linear
      BY <3>1, <1>4
    <3>2. CASE l \notin Linear
      <4>1. [kv |-> Fresh] \in [kv : Int]
        BY <1>3
      <4>2. st'[l] = [kv |-> Fresh]
        BY <3>2, <1>5
      <4>. QED BY <3>2, <4>1, <4>2
    <3>. QED BY <3>1, <3>2
  <2>2. st' \in States
    BY <1>2, <2>1 DEF States
  <2>. QED BY <2>1, <2>2 DEF Typed
<1>7. shot = NoShot
  BY <1>1 DEF Phases
<1>8. StateType'
  <2>1. Typed(st)'
    BY <1>6 DEF Typed
  <2>. QED BY <1>1, <1>3, <1>7, <2>1 DEF StateType
<1>9. Phases'
  BY <1>1, <1>7 DEF Phases
<1>10. \A l \in 1..NL : Due(l)' = Fresh
  BY <1>1 DEF Due
<1>11. RClean(cause)' = RClean(cause) /\ CClean(cause)' = CClean(cause)
  BY <1>1 DEF RClean, CClean
<1>12. Recurrences'
  <2>. SUFFICES ASSUME RClean(cause), NEW l \in Linear
                PROVE  LiveR(st'[l]) = Fresh
    BY <1>1, <1>4, <1>7, <1>10, <1>11, LayersAre DEF Recurrences
  <2>. QED BY <1>1, <1>4 DEF Recurrences, LiveR
<1>13. Convolutions'
  <2>. SUFFICES ASSUME CClean(cause), NEW l \in Linear
                PROVE  LiveC(st'[l]) = Fresh /\ ~Replaying'
    BY <1>1, <1>7, <1>10, <1>11, LayersAre DEF Convolutions
  <2>. QED BY <1>1, <1>4 DEF Convolutions, LiveC, Replaying
<1>14. KvCaches' /\ Residual'
  BY <1>1, <1>5, <1>7, <1>10 DEF KvCaches, Residual
<1>15. Wrongs'
  BY <1>1, <1>11 DEF Wrongs
<1>. QED BY <1>8, <1>9, <1>12, <1>13, <1>14, <1>15

LEMMA ReleaseKeeps ==
  ASSUME HandedOver, Release
  PROVE  HandedOver'
<1>. USE DEF HandedOver
<1>1. /\ phase \in {"idle", "bonus"} /\ phase' = "none"
      /\ st' = [l \in 1..NL |-> IF l \in Linear THEN InvalidateConv(InvalidateGdn(st[l])) ELSE st[l]]
      /\ UNCHANGED <<gdn, cur, tag, pass, x, dx, shot, wrong, cause>>
  BY DEF Release, sessionVars
<1>2. Typed(st) /\ shot = NoShot
  BY <1>1 DEF StateType, Phases
<1>3. ASSUME NEW l \in Linear
      PROVE  st'[l] \in Copies /\ st'[l].dr = None /\ st'[l].dc = None
  <2>1. l \in 1..NL
    BY LayersAre
  <2>2. st[l] \in Copies
    BY <1>2, <2>1 DEF Typed
  <2>3. PICK s \in Copies : s = InvalidateGdn(st[l]) /\ s.dr = None
    BY <2>2, InvalidateGdnIs
  <2>4. st'[l] = [s EXCEPT !.dc = None]
    BY <1>1, <2>1, <2>3 DEF InvalidateConv
  <2>. QED BY <2>3, <2>4 DEF Copies, None
<1>4. Typed(st')
  <2>1. \A l \in 1..NL : st'[l] \in IF l \in Linear THEN Copies ELSE [kv : Int]
    BY <1>1, <1>2, <1>3 DEF Typed
  <2>2. st' \in States
    BY <1>1, <2>1 DEF States
  <2>. QED BY <2>1, <2>2 DEF Typed
<1>5. StateType'
  <2>1. Typed(st)'
    BY <1>4 DEF Typed
  <2>. QED BY <1>1, <1>2, <2>1 DEF StateType
<1>6. Phases'
  BY <1>1, <1>2 DEF Phases
<1>7. Recurrences' /\ Convolutions'
  BY <1>1, <1>2, <1>3 DEF Recurrences, Convolutions, Untouched, Replaying
<1>8. KvCaches' /\ Residual'
  BY <1>1, <1>2 DEF KvCaches, Residual
<1>9. Wrongs'
  <2>1. RClean(cause)' = RClean(cause) /\ CClean(cause)' = CClean(cause)
    BY <1>1 DEF RClean, CClean
  <2>. QED BY <1>1, <2>1 DEF Wrongs
<1>. QED BY <1>5, <1>6, <1>7, <1>8, <1>9

LEMMA ThrowKeeps ==
  ASSUME HandedOver, Throw
  PROVE  HandedOver'
<1>. USE DEF HandedOver
<1>1. /\ phase' = "none" /\ cause' = cause \cup {"throw"} /\ pass' = NoPass /\ x' = 0 /\ dx' = None
      /\ shot' = NoShot /\ UNCHANGED <<gdn, st, cur, tag, wrong>>
  BY DEF Throw, sessionVars
<1>2. NoPass \in Passes
  <2>1. 0 \in Nat /\ FALSE \in BOOLEAN
    OBVIOUS
  <2>. QED BY <2>1 DEF NoPass, Passes
<1>3. StateType'
  <2>1. Typed(st)'
    BY <1>1 DEF StateType, Typed
  <2>. QED BY <1>1, <1>2, <2>1 DEF StateType, Passes, None
<1>4. Phases'
  BY <1>1 DEF Phases
<1>5. ~RClean(cause)' /\ ~CClean(cause)' /\ ("late" \in cause => "late" \in cause')
  BY <1>1 DEF RClean, CClean
<1>6. Recurrences' /\ Convolutions' /\ KvCaches' /\ Residual' /\ Wrongs'
  BY <1>1, <1>5 DEF Recurrences, Convolutions, KvCaches, Residual, Wrongs
<1>. QED BY <1>3, <1>4, <1>6

LEMMA HandedOverInit ==
  ASSUME DInit
  PROVE  HandedOver
<1>1. /\ phase = "none" /\ cur = Fresh /\ tag = Fresh /\ pass = NoPass /\ x = 0 /\ dx = None
      /\ shot = NoShot /\ wrong = {} /\ cause = {}
      /\ st = [l \in 1..NL |-> IF l \in Linear
                               THEN [hc |-> Fresh, hr |-> Fresh, dc |-> None, dr |-> None]
                               ELSE [kv |-> Fresh]]
  BY DEF DInit
<1>2. Fresh \in Nat /\ Fresh \in Int /\ None \in Int /\ 0 \in Int
  BY DEF Fresh, None
<1>3. NoPass \in Passes
  <2>1. 0 \in Nat /\ FALSE \in BOOLEAN
    OBVIOUS
  <2>. QED BY <2>1 DEF NoPass, Passes
<1>4. \A l \in Linear : st[l] \in Copies /\ st[l].dc = None /\ st[l].dr = None
  BY <1>1, <1>2, LayersAre DEF Copies
<1>5. Typed(st)
  <2>1. \A l \in 1..NL : st[l] \in IF l \in Linear THEN Copies ELSE [kv : Int]
    BY <1>1, <1>2, <1>4
  <2>2. st \in States
    BY <1>1, <2>1 DEF States
  <2>. QED BY <2>1, <2>2 DEF Typed
<1>6. StateType
  BY <1>1, <1>2, <1>3, <1>5 DEF StateType, Passes
<1>. QED BY <1>1, <1>4, <1>6
     DEF HandedOver, Phases, Recurrences, Convolutions, KvCaches, Residual, Wrongs, Untouched, Replaying

LEMMA HandedOverStep ==
  ASSUME HandedOver, [DNext]_(dvars)
  PROVE  HandedOver'
<1>1. CASE DNext
  BY <1>1, BeginKeeps, PassesBegin, SnapshotKeeps, AcceptKeeps, RejectKeeps, HostLayerKeeps,
     PrefillLayerKeeps, ActLayerKeeps, EndPassKeeps, LogitsKeeps, ReleaseKeeps, ThrowKeeps DEF DNext
<1>2. CASE UNCHANGED dvars
  <2>1. UNCHANGED <<gdn, phase, st, cur, tag, pass, x, dx, shot, wrong, cause>>
    BY <1>2 DEF dvars
  <2>2. StateType' /\ Phases'
    BY <2>1, StillTyped DEF HandedOver, StateType, Phases
  <2>3. \A l : Due(l)' = Due(l) /\ Stale(l)' = Stale(l) /\ Untouched(l)' = Untouched(l) /\ Replaying' = Replaying
    BY <2>1 DEF Due, Stale, Untouched, Replaying
  <2>4. RClean(cause)' = RClean(cause) /\ CClean(cause)' = CClean(cause)
    BY <2>1 DEF RClean, CClean
  <2>. QED BY <2>1, <2>2, <2>3, <2>4 DEF HandedOver, Recurrences, Convolutions, KvCaches, Residual, Wrongs
<1>. QED BY <1>1, <1>2

(***************************************************************************)
(* The invariant, for any model, prompt lengths and draft windows, any      *)
(* number of passes and sessions, and any device calls that fail.           *)
(***************************************************************************)
THEOREM StateInvariant ==
  DSpec => []HandedOver
<1>1. DInit => HandedOver
  BY HandedOverInit
<1>2. HandedOver /\ [DNext]_(dvars) => HandedOver'
  BY HandedOverStep
<1>. QED BY <1>1, <1>2, PTL DEF DSpec

(* A layer reads another recurrence than that of the committed tokens only  *)
(* after a device call that failed half way, a request that threw, or, with *)
(* GDN not kept on the GPU, a host run beside a device copy.                *)
THEOREM RecurrencesHandedOver ==
  DSpec => []RecurrenceHandedOver
<1>1. HandedOver => RecurrenceHandedOver
  BY DEF HandedOver, Wrongs, RClean, RecurrenceHandedOver
<1>. QED BY <1>1, StateInvariant, PTL

(* The convolution window likewise, for which every host run beside a       *)
(* device copy counts, and the replay by the GPU that meets the copy a      *)
(* rejected window left.                                                    *)
THEOREM ConvolutionsHandedOver ==
  DSpec => []ConvolutionHandedOver
<1>1. HandedOver => ConvolutionHandedOver
  BY DEF HandedOver, Wrongs, CClean, ConvolutionHandedOver
<1>. QED BY <1>1, StateInvariant, PTL

(* Every layer, on whichever path, runs on the residual of the layer before *)
(* and attends over the committed positions, unless a device call failed    *)
(* that had the only current residual.                                      *)
THEOREM ResidualsHandedOver ==
  DSpec => []ResidualHandedOver
<1>1. HandedOver => ResidualHandedOver
  BY DEF HandedOver, Wrongs, ResidualHandedOver
<1>. QED BY <1>1, StateInvariant, PTL
=============================================================================
