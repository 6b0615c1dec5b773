----------------------------- MODULE Generation -----------------------------
(***************************************************************************)
(* Generator::generate (model/generate.cpp): one request after another, its *)
(* prefill, and the decode loop with or without the drafts of the MTP head, *)
(* over the session's caches (model/kv_cache.cpp) and the position and      *)
(* image state that the model keeps between calls.                          *)
(*                                                                         *)
(* A token is what greedy decoding puts at its position, named by that      *)
(* position, or Wrong: a rejected draft.  What a cache holds is the         *)
(* sequence of tokens that went into it.  Logits are named by the tokens    *)
(* they follow.  The caches are those in host memory; a request is served   *)
(* alone.                                                                   *)
(***************************************************************************)
EXTENDS Integers, Sequences, FiniteSets

CONSTANTS MaxSeq,        \* decode.max_seq
          Margin,        \* room kept free at the end of the caches: 8
          WsLimit,       \* whitespace tokens in a row that stop decoding: 8
          Requests       \* [prompt, pads, maxNew, mtp, spec, logprobs]

(* More drafts than the margin has room for, which a request may ask for,   *)
(* and drafts after images, whose positions a rollback loses, are left out. *)
ASSUME GenerationAssumption ==
  /\ MaxSeq \in Nat /\ Margin \in Nat /\ WsLimit \in Nat \ {0}
  /\ Requests \subseteq [prompt : Nat \ {0}, pads : Nat, maxNew : Nat,
                         spec : 1 .. Margin + 1, mtp : BOOLEAN, logprobs : BOOLEAN]
  /\ \A r \in Requests : r.pads < r.prompt /\ (r.mtp => r.pads = 0)

VARIABLES pc, req,
          embeds,        \* vision_n_tok_ and the grids: pads of the model's images
          nextPos,       \* mrope_next_
          kv, lin,       \* tokens in the KV cache and in the linear state
          tokens,        \* cache.tokens
          logits,        \* tokens the sampled logits follow
          drafts, snap,  \* the drafts and the snapshot before them
          accepted,      \* accepted drafts not yet emitted
          ids,           \* out.token_ids: [tok, ws]
          logprobs,      \* out.logprobs, by token
          streamed       \* tokens given to on_token

modelVars  == <<embeds, nextPos>>
cacheVars  == <<kv, lin, tokens>>
draftVars  == <<drafts, snap, accepted>>
outVars    == <<ids, logprobs, streamed>>
vars       == <<pc, req, modelVars, cacheVars, logits, draftVars, outVars>>

Wrong    == -1
NoSnap   == [kv |-> 0, lin |-> <<>>, tokens |-> <<>>]
NoReq    == [prompt |-> 0, pads |-> 0, maxNew |-> 0, mtp |-> FALSE, spec |-> 1, logprobs |-> FALSE]

Greedy(n) == [i \in 1 .. n |-> i - 1]

(* The token sampled after s: the greedy one if s itself is.                *)
Sampled(s) == IF s = Greedy(Len(s)) THEN Len(s) ELSE Wrong

(* resolve_use_mtp, the temperature already taken into account.             *)
UseMtp == req.mtp /\ ~req.logprobs

Init ==
  /\ pc = "idle" /\ req = NoReq
  /\ embeds = 0 /\ nextPos = 0
  /\ kv = <<>> /\ lin = <<>> /\ tokens = <<>> /\ logits = <<>>
  /\ drafts = <<>> /\ snap = NoSnap /\ accepted = <<>>
  /\ ids = <<>> /\ logprobs = <<>> /\ streamed = <<>>

-----------------------------------------------------------------------------
(* The model *)

(* prepare_mrope_positions: a square image takes as many positions as one   *)
(* of its sides is long.                                                    *)
Side(pads) == CHOOSE n \in 0 .. pads : n * n >= pads /\ \A m \in 0 .. n - 1 : m * m < pads
Positions(prompt, pads) == prompt - pads + Side(pads)

(* A forward pass appends its tokens to every cache and moves the position. *)
Absorb(new) ==
  /\ kv' = kv \o new /\ lin' = lin \o new
  /\ nextPos' = nextPos + Len(new)

(* A pass or a sampling step throws: the request is over, its caches are    *)
(* gone, and what the model keeps stays as it is.                           *)
Throws ==
  /\ pc' = "idle"
  /\ kv' = <<>> /\ lin' = <<>> /\ tokens' = <<>> /\ logits' = <<>>
  /\ drafts' = <<>> /\ snap' = NoSnap /\ accepted' = <<>>
  /\ ids' = <<>> /\ logprobs' = <<>> /\ streamed' = <<>>

-----------------------------------------------------------------------------
(* The request *)

(* Mutant: no margin.                                                       *)
RoomToTheEnd(r) == MaxSeq - r.prompt

Room(r) == MaxSeq - r.prompt - Margin

(* Mutant: a request without images leaves those of the last one.           *)
BeginUncleared(r) ==
  /\ embeds' = IF r.pads > 0 THEN r.pads ELSE embeds
  /\ req' = [r EXCEPT !.maxNew = IF r.maxNew > Room(r) THEN Room(r) ELSE r.maxNew]

(* clear_vision_embeds, the images if there are any, and the clamp.         *)
Begin(r) ==
  /\ embeds' = r.pads
  /\ req' = [r EXCEPT !.maxNew = IF r.maxNew > Room(r) THEN Room(r) ELSE r.maxNew]

Start ==
  /\ pc = "idle"
  /\ \E r \in Requests :
       /\ Begin(r)
       /\ pc' = IF Room(r) <= 0 THEN "idle" ELSE "prefill"
  /\ UNCHANGED <<nextPos, cacheVars, logits, draftVars, outVars>>

(* encode_message_images throws after it has kept the grids of some images. *)
ImagesThrow ==
  /\ pc = "idle"
  /\ \E r \in Requests : r.pads > 0 /\ embeds' \in 0 .. r.pads
  /\ UNCHANGED <<pc, req, nextPos, cacheVars, logits, draftVars, outVars>>

Prefill ==
  /\ pc = "prefill" /\ pc' = "loop"
  /\ kv' = Greedy(req.prompt) /\ lin' = kv' /\ tokens' = kv' /\ logits' = kv'
  /\ nextPos' = Positions(req.prompt, embeds)
  /\ UNCHANGED <<req, embeds, draftVars, outVars>>

-----------------------------------------------------------------------------
(* emit_one *)

TrailingWs(s) == Cardinality({i \in 1 .. Len(s) : \A j \in i .. Len(s) : s[j].ws})

Front(s, n) == SubSeq(s, 1, n)

(* Mutant: whitespace is streamed only when text follows it.                *)
EmitHeldBack(tok, withLp, go, stop) ==
  \E ws \in BOOLEAN :
    LET all == Append(ids, [tok |-> tok, ws |-> ws])
        lps == IF req.logprobs /\ withLp THEN Append(logprobs, tok) ELSE logprobs
    IN  /\ ids' = all /\ logprobs' = lps
        /\ streamed' = IF ws THEN streamed ELSE Append(streamed, tok)
        /\ IF Len(all) < req.maxNew THEN go ELSE stop

(* The token is appended, with its logprob if one is asked for, and then    *)
(* stops decoding as whitespace, as the end of a repeated phrase whose      *)
(* extra copies are dropped, or as the last one allowed; stop tells which.  *)
Emit(tok, withLp, go, stop) ==
  \E ws \in BOOLEAN :
    LET all == Append(ids, [tok |-> tok, ws |-> ws])
        lps == IF req.logprobs /\ withLp THEN Append(logprobs, tok) ELSE logprobs
    IN  IF ws /\ TrailingWs(all) >= WsLimit
        THEN ids' = all /\ logprobs' = lps /\ UNCHANGED streamed /\ stop
        ELSE \/ \E dropped \in 1 .. Len(all) - 1 :
                  /\ ids' = Front(all, Len(all) - dropped)
                  /\ logprobs' = IF lps = <<>> THEN lps ELSE Front(lps, Len(lps) - dropped)
                  /\ UNCHANGED streamed /\ stop
             \/ /\ ids' = all /\ logprobs' = lps /\ streamed' = Append(streamed, tok)
                /\ IF Len(all) < req.maxNew THEN go ELSE stop

(* The end-of-text token is not appended.                                   *)
EmitEos(stop) == UNCHANGED outVars /\ stop

-----------------------------------------------------------------------------
(* Decode *)

LoopHead == pc = "loop" /\ Len(ids) < req.maxNew

(* One token: sampled, emitted, fed to the model.  The plain loop, and the  *)
(* step of the MTP loop when the head has no drafts.                        *)
Step ==
  /\ LoopHead
  /\ \/ Emit(Sampled(logits), TRUE,
             pc' = "feed" /\ tokens' = Append(tokens, Sampled(logits)),
             pc' = "finish" /\ UNCHANGED tokens)
     \/ EmitEos(pc' = "finish" /\ UNCHANGED tokens)
  /\ UNCHANGED <<req, modelVars, kv, lin, logits, draftVars>>

Feed ==
  /\ pc = "feed" /\ pc' = "loop"
  /\ Absorb(<<tokens[Len(tokens)]>>)
  /\ logits' = kv'
  /\ UNCHANGED <<req, embeds, tokens, draftVars, outVars>>

(* draft_propose: the token greedy decoding is at, and guesses after it.    *)
(* A guess is right or wrong; after a wrong one none is right.              *)
Propose ==
  /\ LoopHead /\ UseMtp /\ pc' = "verify"
  /\ \E right \in 1 .. req.spec :
       drafts' = [i \in 1 .. req.spec |->
                    IF i <= right THEN Sampled(logits) + i - 1 ELSE Wrong]
  /\ snap' = [kv |-> Len(kv), lin |-> lin, tokens |-> tokens]
  /\ UNCHANGED <<req, modelVars, cacheVars, logits, accepted, outVars>>

(* The first draft is accepted unseen, the others as long as the logits of  *)
(* the one before agree.                                                    *)
Accepted ==
  LET agrees(i) == i = 1 \/ Sampled(kv \o Front(drafts, i - 1)) = drafts[i]
      n == CHOOSE m \in 1 .. Len(drafts) :
             /\ \A i \in 1 .. m : agrees(i)
             /\ m < Len(drafts) => ~agrees(m + 1)
  IN  Front(drafts, n)

Verify ==
  /\ pc = "verify" /\ Absorb(drafts)
  /\ accepted' = Accepted
  /\ IF Len(accepted') < Len(drafts)
     THEN pc' = "rollback" /\ UNCHANGED logits
     ELSE pc' = "accept" /\ logits' = kv'
  /\ UNCHANGED <<req, embeds, tokens, drafts, snap, outVars>>

(* Mutant: the linear state keeps the drafts.                               *)
RestoreKvOnly ==
  /\ kv' = Front(kv, snap.kv) /\ tokens' = snap.tokens /\ UNCHANGED lin

(* SessionCache::restore: the KV cache is cut, the linear state copied back.*)
Restore ==
  /\ kv' = Front(kv, snap.kv) /\ lin' = snap.lin /\ tokens' = snap.tokens

(* set_decode_pos: the position goes back to the length of the KV cache.    *)
Rollback ==
  /\ pc = "rollback" /\ pc' = "replay"
  /\ Restore
  /\ nextPos' = snap.kv
  /\ UNCHANGED <<req, embeds, logits, draftVars, outVars>>

(* The accepted drafts once more, for the linear state has no cut.          *)
Replay ==
  /\ pc = "replay" /\ pc' = "accept"
  /\ Absorb(accepted)
  /\ logits' = kv'
  /\ UNCHANGED <<req, embeds, tokens, draftVars, outVars>>

Accept ==
  /\ pc = "accept" /\ accepted # <<>>
  /\ LET tok == Head(accepted)
     IN  /\ tokens' = Append(tokens, tok)
         /\ \/ Emit(tok, FALSE, pc' = "accept", pc' = "finish")
            \/ EmitEos(pc' = "finish")
  /\ accepted' = Tail(accepted)
  /\ UNCHANGED <<req, modelVars, kv, lin, logits, drafts, snap>>

(* The token after the drafts: here the cache's list comes last.            *)
Bonus ==
  /\ pc = "accept" /\ accepted = <<>>
  /\ \/ Emit(Sampled(logits), TRUE, pc' = "bonus", pc' = "finish")
     \/ EmitEos(pc' = "finish")
  /\ UNCHANGED <<req, modelVars, cacheVars, logits, draftVars>>

FeedBonus ==
  /\ pc = "bonus" /\ pc' = "loop"
  /\ Absorb(<<Sampled(logits)>>)
  /\ tokens' = Append(tokens, Sampled(logits))
  /\ logits' = kv'
  /\ drafts' = <<>> /\ snap' = NoSnap
  /\ UNCHANGED <<req, embeds, accepted, outVars>>

LoopEnds ==
  /\ pc = "loop" /\ ~LoopHead /\ pc' = "finish"
  /\ UNCHANGED <<req, modelVars, cacheVars, logits, draftVars, outVars>>

-----------------------------------------------------------------------------
(* The end *)

(* Mutant: the logprobs stay.                                               *)
TrimmedLpsNot(n) == logprobs

(* Trailing whitespace leaves with its logprobs.                            *)
TrimmedLps(n) ==
  Front(logprobs, IF Len(logprobs) > n THEN Len(logprobs) - n ELSE 0)

Finish ==
  /\ pc = "finish" /\ pc' = "done"
  /\ LET n == TrailingWs(ids)
     IN  ids' = Front(ids, Len(ids) - n) /\ logprobs' = TrimmedLps(n)
  /\ embeds' = 0
  /\ UNCHANGED <<req, nextPos, cacheVars, logits, draftVars, streamed>>

Return ==
  /\ pc = "done" /\ Throws
  /\ UNCHANGED <<req, modelVars>>

Fail ==
  /\ pc \in {"prefill", "loop", "feed", "verify", "replay", "accept", "bonus"} /\ Throws
  /\ UNCHANGED <<req, modelVars>>

Next == \/ Start \/ ImagesThrow \/ Prefill \/ Step \/ Feed
        \/ Propose \/ Verify \/ Rollback \/ Replay \/ Accept \/ Bonus \/ FeedBonus
        \/ LoopEnds \/ Finish \/ Return \/ Fail

Spec == Init /\ [][Next]_vars

-----------------------------------------------------------------------------
(* Properties *)

(* A rejected suffix leaves no trace (kv_cache.h:35): whenever the loop     *)
(* comes round, caches, token list, position and logits are those of greedy *)
(* decoding after the prompt and the tokens that have been emitted.         *)
CommittedState ==
  pc = "loop" =>
    /\ kv = Greedy(req.prompt + Len(ids))
    /\ lin = kv /\ tokens = kv /\ logits = kv
    /\ nextPos = Positions(req.prompt, req.pads) + Len(ids)

(* The caches are never written past max_seq, drafts that are rejected or   *)
(* exceed what the request still may emit included (generate.cpp:318).      *)
KvFits == Len(kv) <= MaxSeq

(* A result that carries logprobs has one for each of its tokens, after the *)
(* repeated copies and the trailing whitespace have gone (generate.cpp:420).*)
LogprobsAligned ==
  pc = "done" /\ req.logprobs => logprobs = [i \in DOMAIN ids |-> ids[i].tok]

(* A prompt runs with its own images: none of an earlier request, also one  *)
(* that failed before it cleared them (generate.cpp:287).                   *)
OwnImages == pc = "prefill" => embeds = req.pads

(* Every token of the result has been streamed, in its order: early stops   *)
(* keep back only tokens that the result loses as well (generate.cpp:404).  *)
StreamCoversResult ==
  pc = "done" =>
    /\ Len(ids) <= Len(streamed)
    /\ \A i \in DOMAIN ids : streamed[i] = ids[i].tok
=============================================================================
