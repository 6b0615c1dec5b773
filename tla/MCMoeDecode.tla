---------------------------- MODULE MCMoeDecode -----------------------------
(***************************************************************************)
(* MoeDecode for TLC: a dense layer before MoE layers, or none.      *)
(***************************************************************************)
EXTENDS MoeDecode, TLC

CONSTANTS a, b, s1, s2

TwoSlots == <<s1, s2>>
AllKeys == Layers \X {a, b}
NoKeys == {}
Choices == {<<a>>, <<b>>}
=============================================================================
