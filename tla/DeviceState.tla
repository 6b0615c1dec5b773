---------------------------- MODULE DeviceState ----------------------------
(***************************************************************************)
(* The recurrent state of one session with LLMOC_RESIDENT_GPU: each linear   *)
(* layer has a convolution window and a GDN recurrence, both with a home in  *)
(* the SessionCache and, once a kernel has run, a copy on the device that    *)
(* g_conv_state or g_gdn_state finds by the home's address.  Four paths move *)
(* them: the resident prefill, the decode on the device activation, the     *)
(* host sandwich of layer_forward, and plain host code.  Every device call   *)
(* may fail, and each path has its fallback.                                *)
(*                                                                         *)
(* A state is named by the pass that last moved it: a pass that finds        *)
(* `cur`, the committed version, leaves `tag`; on anything else, Bad.        *)
(***************************************************************************)
EXTENDS Integers, Sequences, FiniteSets

CONSTANTS Kind,          \* sequence over {"linear", "full"}: layer_types
          GdnModes,      \* settings of LLMOC_GPU_GDN: "on", "off", "auto"
          GpuConvMin,    \* window from which layer_forward tries the GPU convolution (8)
          Drafts,        \* window lengths forward_all_logits is given (spec_k)
          Prompts,       \* prompt lengths
          MaxPasses,     \* passes in a behaviour
          MaxSessions,   \* sessions in a behaviour
          MaxFaults      \* device calls that fail in a behaviour

ASSUME DeviceStateAssumption ==
  /\ Kind \in Seq({"linear", "full"}) /\ Len(Kind) > 0
  /\ GdnModes \subseteq {"on", "off", "auto"}
  /\ Drafts \subseteq Nat \ {0} /\ Prompts \subseteq Nat \ {0}
  /\ {GpuConvMin, MaxPasses, MaxSessions, MaxFaults} \subseteq Nat

NL == Len(Kind)
Linear == {l \in 1..NL : Kind[l] = "linear"}
None == -1               \* no device copy
Bad == -2                \* a value no pass should have produced
Fresh == 0               \* the zero state of init_cache

VARIABLES gdn,      \* LLMOC_GPU_GDN
          moe,      \* cfg_.is_moe: no resident prefill and no device activation
          phase,    \* "none" (no session), "idle" (between passes), "layers", "head"
          mtp,      \* this request drafts (resolve_use_mtp)
          st,       \* linear layer -> its four copies; full layer -> version of its K/V
          cur,      \* version of the committed tokens
          tag,      \* version the current pass makes
          pass,     \* the pass: kind, length, next layer, paths still on
          x, dx,    \* layers in the residual on the host, on the device (None: invalid)
          shot,     \* the snapshot of an open draft window, or NoShot
          faults,   \* device calls that failed so far
          wrong,    \* states some layer read and that were not the committed ones
          cause,    \* what has happened that the code does not repair
          sessions
sessionVars == <<gdn, moe, mtp, sessions>>
dvars == <<gdn, moe, phase, mtp, st, cur, tag, pass, x, dx, shot, faults,
           wrong, cause, sessions>>

NoPass == [kind |-> "none", n |-> 0, l |-> 0, pf |-> FALSE, act |-> FALSE]
NoShot == [cur |-> None]

Stepped(v) == IF v = cur THEN tag ELSE Bad

(***************************************************************************)
(* Outcomes.  A device or host operation on one linear layer's copies s      *)
(* gives a set of outcomes: the new copies, whether it answered true, the    *)
(* failed calls, the states it read wrong, and the causes it adds.           *)
(***************************************************************************)
Out(s, ok, f, w, c) == [s |-> s, ok |-> ok, f |-> f, w |-> w, c |-> c]
Done(s) == Out(s, TRUE, 0, {}, {})
Read(v, what) == IF v = cur THEN {} ELSE {what}

Then(os, Op(_)) ==
  UNION {{Out(p.s, p.ok, o.f + p.f, o.w \cup p.w, o.c \cup p.c) : p \in Op(o.s)} : o \in os}

WithConv(s) == IF s.dc = None THEN [s EXCEPT !.dc = s.hc] ELSE s
WithGdn(s) == IF s.dr = None THEN [s EXCEPT !.dr = s.hr] ELSE s

(* The answer false before any state moved: at worst a copy was made.       *)
Early(ss) == {Out(s, FALSE, 1, {}, {}) : s \in ss}
(* ... and after: the fallback will move it again.                          *)
Late(s) == {Out(s, FALSE, 1, {}, {"late"})}

(* try_dwconv_silu_k4_seq: chunks on the device copy, then the mirror home.  *)
DwconvSeq(s0) ==
  LET s == WithConv(s0)
      m == [s EXCEPT !.dc = Stepped(@)]
  IN  Early({s0, s}) \cup Late(m) \cup Late([s EXCEPT !.dc = Bad])
      \cup {Out([m EXCEPT !.hc = m.dc], TRUE, 0, Read(s.dc, "conv"), {})}

(* try_gated_delta_gpu and its _seq: the device copy moves and is not        *)
(* mirrored.  A chunk after the first may fail.                              *)
GatedDelta(s0) ==
  LET s == WithGdn(s0)
      m == [s EXCEPT !.dr = Stepped(@)]
  IN  Early({s0, s}) \cup Late(m) \cup Late([s EXCEPT !.dr = Bad])
      \cup {Out(m, TRUE, 0, Read(s.dr, "gdn"), {})}

(* flush_gdn_state_to_host, flush_conv_state_to_host: a copy that fails is   *)
(* not reported and leaves the entry.                                       *)
FlushGdn(s) ==
  IF s.dr = None THEN {Done(s)}
  ELSE {Done([s EXCEPT !.hr = s.dr, !.dr = None]), Out(s, TRUE, 1, {}, {"late"})}
FlushConv(s) ==
  IF s.dc = None THEN {Done(s)}
  ELSE {Done([s EXCEPT !.hc = s.dc, !.dc = None]), Out(s, TRUE, 1, {}, {"late"})}

InvalidateGdn(s) == [s EXCEPT !.dr = None]
InvalidateConv(s) == [s EXCEPT !.dc = None]

(* The host code moves the home; a device copy, if any, is left behind.      *)
HostConv(s) ==
  {Out([s EXCEPT !.hc = Stepped(@)], TRUE, 0, Read(s.hc, "conv"),
       IF s.dc = None THEN {} ELSE {"split"})}
HostGdn(s) ==
  {Out([s EXCEPT !.hr = Stepped(@)], TRUE, 0, Read(s.hr, "gdn"),
       IF s.dr = None THEN {} ELSE {"split"})}

(* Op, and on false the fallback.                                           *)
OrElse(os, Op(_)) == {o \in os : o.ok} \cup Then({o \in os : ~o.ok}, Op)

(***************************************************************************)
(* layer_forward, linear layer.  want: resident_gpu_ && gpu_gdn_enabled(),   *)
(* asked anew for every layer of every pass.                                *)
(***************************************************************************)
WantGdn == CASE gdn = "on" -> {TRUE} [] gdn = "off" -> {FALSE} [] OTHER -> BOOLEAN

SandwichConv(s, n, want) ==
  IF want /\ n >= GpuConvMin THEN OrElse(DwconvSeq(s), HostConv) ELSE HostConv(s)

SandwichGdn(s, n, prefill, want) ==
  LET Gone(t) == IF n = 1 THEN FlushGdn(t) ELSE {Done(InvalidateGdn(t))}
      Again(t) == Then(Gone(t), HostGdn)
      start == IF ~prefill /\ n > 1 THEN FlushGdn(s) ELSE {Done(s)}
  IN  IF want THEN OrElse(Then(start, GatedDelta), Again) ELSE HostGdn(s)

LayerForwardLinear(s, n, prefill) ==
  UNION {LET Gdn(t) == SandwichGdn(t, n, prefill, want)
         IN  Then(SandwichConv(s, n, want), Gdn) : want \in WantGdn}

(***************************************************************************)
(* The decode on the device activation.                                    *)
(***************************************************************************)
(* Both copies are found or made, and everything else is made ready; a       *)
(* failure leaves none, one or both.                                        *)
Resident(s) == WithGdn(WithConv(s))
NotReady(s) == Early({s, WithConv(s), Resident(s)})

(* try_ffn_on_act: its last kernel writes the activation back.               *)
FfnOnAct(s) == {Done(s)} \cup Late(s)

(* try_linear_decode_on_act: projections run, the convolution moves, then    *)
(* the recurrence, then the feed-forward.                                   *)
TryLinearDecodeOnAct(s0) ==
  LET s == Resident(s0)
      c == [s EXCEPT !.dc = Stepped(@)]
      g == [c EXCEPT !.dr = Stepped(@)]
  IN  NotReady(s0) \cup Late(c) \cup Late(g)
      \cup {Out(g, TRUE, 0, Read(s.dc, "conv") \cup Read(s.dr, "gdn"), {})}

(* What layer_forward_linear_act does after that failed: bring both states   *)
(* home, project from the activation, convolve on the host, one recurrence   *)
(* step, feed-forward on the activation.                                    *)
ActSandwich(s) ==
  LET Projected(t) == Early({t}) \cup {Done(t)}
      Gdn(t)   == LET Again(u) == Then(FlushGdn(u), HostGdn)
                  IN  OrElse(GatedDelta(t), Again)
      home     == Then(FlushConv(s), FlushGdn)
      projected == Then(home, Projected)
  IN  {o \in projected : ~o.ok}
      \cup Then(Then(Then({o \in projected : o.ok}, HostConv), Gdn), FfnOnAct)

LinearAct(s) == OrElse(TryLinearDecodeOnAct(s), ActSandwich)

(* try_prefill_linear_resident: the same for a whole prompt, and last a       *)
(* mirror of the convolution.  Past the recurrence the residual moves too.   *)
PrefillLinear(s0) ==
  LET s == Resident(s0)
      c == [s EXCEPT !.dc = Stepped(@)]
      g == [c EXCEPT !.dr = Stepped(@)]
  IN  NotReady(s0) \cup Late(c) \cup Late(g)
      \cup {Out([g EXCEPT !.hc = g.dc], TRUE, 0, Read(s.dc, "conv") \cup Read(s.dr, "gdn"), {})}

(***************************************************************************)
(* Full attention.  K/V live on the host on every path; seq moves last, so   *)
(* that a fallback rewrites the slots a failed path wrote.                  *)
(***************************************************************************)
AttendedFull(s) == Out([s EXCEPT !.kv = Stepped(@)], TRUE, 0, Read(s.kv, "kv"), {})
LayerForwardFull(s) == {AttendedFull(s)}

(* Mutant: seq moves before the feed-forward, which may still fail.          *)
FullActEager(s) == Early({s}) \cup Early({AttendedFull(s).s}) \cup {AttendedFull(s)}

FullAct(s) == Early({s}) \cup {AttendedFull(s)}
PrefillFull(s) == Early({s}) \cup Late(s) \cup {AttendedFull(s)}

LayerForward(l, s) ==
  IF l \in Linear THEN LayerForwardLinear(s, pass.n, pass.kind = "prefill")
                  ELSE LayerForwardFull(s)
ForwardAct(l, s) == IF l \in Linear THEN LinearAct(s) ELSE FullAct(s)
ForwardPrefill(l, s) == IF l \in Linear THEN PrefillLinear(s) ELSE PrefillFull(s)

-----------------------------------------------------------------------------
(* Layer l on a residual of depth d.                                        *)
Deeper(d) == IF d = pass.l - 1 THEN pass.l ELSE Bad
OffDepth(d, due) == IF d = due THEN {} ELSE {"residual"}

Tell(f, w, c) ==
  /\ faults + f <= MaxFaults
  /\ faults' = faults + f
  /\ wrong' = wrong \cup w
  /\ cause' = cause \cup c

(* One layer's outcome: its copies change, the pass goes to the next layer.  *)
Took(o, f, w, c) ==
  /\ Tell(o.f + f, o.w \cup w, o.c \cup c)
  /\ st' = [st EXCEPT ![pass.l] = o.s]
  /\ UNCHANGED <<sessionVars, phase, cur, tag, shot>>

InLayers == phase = "layers" /\ pass.l <= NL

(* layer_forward after a path that answered false with outcome o0, on a host *)
(* residual of depth d.                                                     *)
Fallback(o0, d, f, c) ==
  \E o \in Then({o0}, LAMBDA s : LayerForward(pass.l, s)) :
    Took(o, f, OffDepth(d, pass.l - 1), c)

HostLayer ==
  /\ InLayers /\ ~pass.pf /\ ~pass.act
  /\ \E o \in LayerForward(pass.l, st[pass.l]) : Took(o, 0, OffDepth(x, pass.l - 1), {})
  /\ x' = Deeper(x)
  /\ pass' = [pass EXCEPT !.l = @ + 1]
  /\ UNCHANGED dx

PrefillLayer ==
  /\ InLayers /\ pass.pf
  /\ \E o \in ForwardPrefill(pass.l, st[pass.l]) :
       \/ /\ o.ok
          /\ Took(o, 0, OffDepth(dx, pass.l - 1), {})
          /\ dx' = Deeper(dx)
          /\ pass' = [pass EXCEPT !.l = @ + 1]
          /\ UNCHANGED x
       \/ /\ ~o.ok
          /\ \E moved \in IF "late" \in o.c THEN {dx, Bad} ELSE {dx} :
               \/ Fallback(o, moved, 0, {}) /\ x' = Deeper(moved)
               \/ Fallback(o, x, 1, {"late"}) /\ x' = Deeper(x)   \* read_x failed
          /\ dx' = None
          /\ pass' = [pass EXCEPT !.l = @ + 1, !.pf = FALSE]

ActLayer ==
  /\ InLayers /\ pass.act
  /\ pass' = [pass EXCEPT !.l = @ + 1]
  /\ \/ /\ dx # None
        /\ \E o \in ForwardAct(pass.l, st[pass.l]) :
             \/ o.ok /\ Took(o, 0, OffDepth(dx, pass.l - 1), {})
                /\ dx' = Deeper(dx) /\ UNCHANGED x
             \/ /\ ~o.ok                   \* sync_to_host, layer_forward, load_from_host
                /\ x' = Deeper(dx)
                /\ \/ Fallback(o, dx, 0, {}) /\ dx' = x'
                   \/ Fallback(o, dx, 1, {}) /\ dx' = None
             \/ /\ ~o.ok                   \* sync_to_host failed: the host residual as it is
                /\ Fallback(o, x, 1, {"late"})
                /\ x' = Deeper(x) /\ dx' = None
     \/ /\ dx = None
        /\ \E o \in LayerForward(pass.l, st[pass.l]) : Took(o, 0, OffDepth(x, pass.l - 1), {})
        /\ x' = Deeper(x)
        /\ UNCHANGED dx

(* prefill_resident_read_x_row, then all of X: the failed calls, the depth   *)
(* the host has after them, and the cause they add.                         *)
ReadBack == {<<0, dx, {}>>, <<1, dx, {}>>, <<2, x, {"late"}>>}

(* decode_act_sync_to_host after the last layer.                            *)
SyncAct == {<<0, dx, {}>>, <<1, x, {"late"}>>}

(* forward_to_hidden's end: the final norm of the last row, on the host.     *)
(* Only an activation that was synchronized stays valid for the lm_head.     *)
EndPass ==
  /\ phase = "layers" /\ pass.l > NL
  /\ \E r \in (IF pass.pf THEN ReadBack
              ELSE IF pass.act /\ dx # None THEN SyncAct
              ELSE {<<0, x, {}>>}) :
       /\ Tell(r[1], OffDepth(r[2], NL), r[3])
       /\ x' = r[2]
       /\ dx' = IF pass.act /\ r[1] = 0 THEN dx ELSE None
  /\ phase' = "head"
  /\ UNCHANGED <<sessionVars, st, cur, tag, pass, shot>>

(* try_lm_head_int4_from_act, try_lm_head_w16_from_act: from the activation, *)
(* or, after a failed call, not at all.                                     *)
HeadFromAct == {<<0, dx>>, <<1, x>>}

(* The logits of the row, which end the pass.                               *)
Logits ==
  /\ phase = "head"
  /\ \E r \in IF dx # None THEN HeadFromAct ELSE {<<0, x>>} : Tell(r[1], OffDepth(r[2], NL), {})
  /\ phase' = IF shot # NoShot THEN "verify"
              ELSE IF pass.kind = "window" THEN "bonus" ELSE "idle"
  /\ cur' = tag
  /\ pass' = IF shot # NoShot THEN pass ELSE NoPass
  /\ x' = 0 /\ dx' = None
  /\ UNCHANGED <<sessionVars, st, tag, shot>>

-----------------------------------------------------------------------------
StartPass(kind, n, pf, act) ==
  /\ tag < MaxPasses
  /\ tag' = tag + 1
  /\ pass' = [kind |-> kind, n |-> n, l |-> 1, pf |-> pf, act |-> act]
  /\ x' = 0
  /\ dx' = IF pf \/ act THEN 0 ELSE None
  /\ phase' = "layers"

(* forward(prompt, is_prefill): on the device if the model is dense and      *)
(* prefill_resident_begin finds the memory.                                 *)
PrefillPass ==
  /\ phase = "begun"
  /\ \E n \in Prompts, pf \in IF moe THEN {FALSE} ELSE BOOLEAN : StartPass("prefill", n, pf, FALSE)
  /\ UNCHANGED <<sessionVars, st, cur, shot, faults, wrong, cause>>

(* forward({next}): on the device activation if decode_act_begin succeeds.   *)
DecodePass ==
  /\ phase \in {"idle", "bonus"}
  /\ \E act \in BOOLEAN :
       /\ moe => ~act
       /\ Tell(IF act \/ moe THEN 0 ELSE 1, {}, {})
       /\ StartPass("decode", 1, FALSE, act)
  /\ UNCHANGED <<sessionVars, st, cur, shot>>

(* prepare_speculative_snapshot: every recurrence comes home; then snapshot. *)
Snapshot ==
  /\ phase = "idle" /\ mtp /\ tag < MaxPasses
  /\ \E o \in [Linear -> UNION {FlushGdn(st[l]) : l \in Linear}] :
       /\ \A l \in Linear : o[l] \in FlushGdn(st[l])
       /\ LET failed == {l \in Linear : o[l].f = 1}
          IN  Tell(Cardinality(failed), {}, IF failed = {} THEN {} ELSE {"late"})
       /\ st' = [l \in 1..NL |-> IF l \in Linear THEN o[l].s ELSE st[l]]
       /\ shot' = [cur |-> cur, st |-> st']
  /\ phase' = "snapped"
  /\ UNCHANGED <<sessionVars, cur, tag, pass, x, dx>>

(* forward_all_logits(drafts): no resident path.                            *)
WindowPass ==
  /\ phase = "snapped"
  /\ \E n \in Drafts : StartPass("window", n, FALSE, FALSE)
  /\ UNCHANGED <<sessionVars, st, cur, shot, faults, wrong, cause>>

AcceptWindow ==
  /\ phase = "verify"
  /\ phase' = "bonus" /\ shot' = NoShot /\ pass' = NoPass
  /\ UNCHANGED <<sessionVars, st, cur, tag, x, dx, faults, wrong, cause>>

(* Mutant: the device copies outlive the rejection. *)
RestoredKeepsDevice(l) ==
  IF l \in Linear THEN [st[l] EXCEPT !.hc = shot.st[l].hc, !.hr = shot.st[l].hr] ELSE shot.st[l]

(* SessionCache::restore puts both homes and seq back; then                  *)
(* apply_speculative_restore drops the recurrences' copies.                 *)
Restored(l) ==
  IF l \in Linear
  THEN InvalidateGdn([st[l] EXCEPT !.hc = shot.st[l].hc, !.hr = shot.st[l].hr])
  ELSE shot.st[l]

RejectWindow ==
  /\ phase = "verify"
  /\ st' = [l \in 1..NL |-> Restored(l)]
  /\ cur' = shot.cur
  /\ phase' = "rejected" /\ shot' = NoShot
  /\ UNCHANGED <<sessionVars, tag, pass, x, dx, faults, wrong, cause>>

(* forward_all_logits(kept): a shorter window, at least one token.  One long *)
(* enough for the GPU convolution finds the copy the rejected drafts left.   *)
ReplayPass ==
  /\ phase = "rejected"
  /\ \E n \in 1..(pass.n - 1) :
       /\ StartPass("window", n, FALSE, FALSE)
       /\ cause' = IF n >= GpuConvMin /\ \E l \in Linear : st[l].dc # None
                   THEN cause \cup {"replay"} ELSE cause
  /\ UNCHANGED <<sessionVars, st, cur, shot, faults, wrong>>

-----------------------------------------------------------------------------
(* A new SessionCache: zero states, at addresses that may be those of the    *)
(* last one.                                                                *)
BeginSession ==
  /\ phase = "none" /\ sessions < MaxSessions
  /\ sessions' = sessions + 1
  /\ phase' = "begun"
  /\ mtp' \in BOOLEAN
  /\ cur' = Fresh
  /\ \E reuse \in BOOLEAN :
       st' = [l \in 1..NL |->
                IF l \notin Linear THEN [kv |-> Fresh]
                ELSE [hc |-> Fresh, hr |-> Fresh,
                      dc |-> IF reuse THEN st[l].dc ELSE None,
                      dr |-> IF reuse THEN st[l].dr ELSE None]]
  /\ UNCHANGED <<gdn, moe, tag, pass, x, dx, shot, faults, wrong, cause>>

(* Mutant: only the recurrences' copies are released. *)
ReleaseGdnOnly ==
  /\ phase \in {"idle", "bonus"}
  /\ st' = [l \in 1..NL |-> IF l \in Linear THEN InvalidateGdn(st[l]) ELSE st[l]]
  /\ phase' = "none"
  /\ UNCHANGED <<sessionVars, cur, tag, pass, x, dx, shot, faults, wrong, cause>>

(* release_session_device_state, at the end of generate().                  *)
Release ==
  /\ phase \in {"idle", "bonus"}
  /\ st' = [l \in 1..NL |-> IF l \in Linear THEN InvalidateConv(InvalidateGdn(st[l])) ELSE st[l]]
  /\ phase' = "none"
  /\ UNCHANGED <<sessionVars, cur, tag, pass, x, dx, shot, faults, wrong, cause>>

(* An exception out of generate(): nothing is released.                     *)
Throw ==
  /\ phase # "none"
  /\ phase' = "none"
  /\ cause' = cause \cup {"throw"}
  /\ pass' = NoPass /\ x' = 0 /\ dx' = None /\ shot' = NoShot
  /\ UNCHANGED <<sessionVars, st, cur, tag, faults, wrong>>

DInit ==
  /\ gdn \in GdnModes /\ moe \in BOOLEAN
  /\ phase = "none" /\ mtp = FALSE
  /\ st = [l \in 1..NL |-> IF l \in Linear
                           THEN [hc |-> Fresh, hr |-> Fresh, dc |-> None, dr |-> None]
                           ELSE [kv |-> Fresh]]
  /\ cur = Fresh /\ tag = Fresh
  /\ pass = NoPass /\ x = 0 /\ dx = None /\ shot = NoShot
  /\ faults = 0 /\ wrong = {} /\ cause = {} /\ sessions = 0

DNext ==
  \/ BeginSession \/ PrefillPass \/ DecodePass
  \/ Snapshot \/ WindowPass \/ AcceptWindow \/ RejectWindow \/ ReplayPass
  \/ HostLayer \/ PrefillLayer \/ ActLayer \/ EndPass \/ Logits
  \/ Release \/ Throw

DSpec == DInit /\ [][DNext]_dvars

-----------------------------------------------------------------------------
(* With GDN kept on the GPU, a layer reads a recurrence that is not that of  *)
(* the committed tokens only after a device call failed half way through a   *)
(* step or a flush, or after a request that threw: prefills, decodes on      *)
(* either path, draft windows, their rejection and replay, and fallbacks     *)
(* before anything moved all hand it over.  In the other modes a host run    *)
(* beside a device copy is a further way.                                   *)
RecurrenceHandedOver ==
  "gdn" \in wrong =>
    cause \cap (IF gdn = "on" THEN {"late", "throw"} ELSE {"late", "throw", "split"}) # {}

(* The convolution window likewise, but for it every host run beside a       *)
(* device copy loses the state, whatever the mode, and so does the replay of *)
(* a rejected window by the GPU convolution (8 tokens or more), since        *)
(* apply_speculative_restore leaves g_conv_state alone.                      *)
ConvolutionHandedOver ==
  "conv" \in wrong => cause \cap {"late", "throw", "split", "replay"} # {}

(* Every layer runs on the residual all layers before it wrote, and attends  *)
(* over the committed positions, unless a device call failed with the only   *)
(* current residual on the device.                                          *)
ResidualHandedOver ==
  /\ "residual" \in wrong => "late" \in cause
  /\ "kv" \notin wrong
=============================================================================
