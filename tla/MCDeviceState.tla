--------------------------- MODULE MCDeviceState ----------------------------
(* A hybrid model of two layers.  Windows of one and two tokens are below    *)
(* the GPU convolution's threshold, those of three and four are not: a       *)
(* rejected window of four leaves a replay of up to three.  A prompt of one  *)
(* or two tokens takes the path of a decode or of a short replay; "off" is    *)
(* "auto" that never chooses the device.                                    *)
EXTENDS DeviceState
MCKind == <<"linear", "full">>

(* Versions only count by what they are equal to: the fresh, the committed,  *)
(* the snapshot's, the running pass's.  Any other will never be committed    *)
(* again.  Between sessions only the device copies count.                   *)
Running == phase \in {"layers", "head"}
Named(v) == CASE v \in {None, Bad, Fresh} -> v
              [] v = cur /\ phase # "none" -> MaxPasses + 1
              [] shot # NoShot /\ v = shot.cur -> MaxPasses + 2
              [] Running /\ v = tag -> MaxPasses + 3
              [] OTHER -> Bad
MCCopies(s) == [f \in {g \in DOMAIN s : phase # "none" \/ g \in {"dc", "dr"}} |-> Named(s[f])]
MCView ==
  <<gdn, moe, phase, mtp /\ phase # "none", [l \in 1..NL |-> MCCopies(st[l])],
    Named(cur), tag, pass, x, dx,
    IF shot = NoShot THEN <<>> ELSE <<Named(shot.cur), [l \in 1..NL |-> MCCopies(shot.st[l])]>>,
    faults, wrong, cause, sessions>>
=============================================================================
