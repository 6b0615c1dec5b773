------------------------- MODULE MCExpertPrefetcher -------------------------
(***************************************************************************)
(* ExpertPrefetcher for TLC: one layer of four experts and one slot.  a, b *)
(* and d are to be pinned; d is not in the file; the budget holds one and  *)
(* a half experts, so whichever of a and b comes second goes to the slot.  *)
(***************************************************************************)
EXTENDS ExpertPrefetcher, TLC

CONSTANTS a, b, c, d, s1

OneSlot == <<s1>>
Pinned == {1} \X {a, b, d}
NotD == {1} \X {a, b, c}
\* With b demoted, <<b, c>> takes a block more than a slot has.
Choices == {<<a>>, <<b, a, b>>, <<b, c>>, <<d>>}
OnlyA == {1} \X {a}
RequestA == {<<a>>}
NoKeys == {}
=============================================================================
