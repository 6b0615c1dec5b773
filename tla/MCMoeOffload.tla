---------------------------- MODULE MCMoeOffload ----------------------------
(* Three layers of two experts, a dense one after them, and tokens routed   *)
(* to both experts in either order; the banks may stop before any layer.    *)
EXTENDS MoeOffload

Setting(slots, overlap, backend, frac) ==
  [slots |-> slots, overlap |-> overlap, backend |-> backend, frac |-> frac]

MCConfigs ==
  {Setting(2, TRUE, "hybrid", 2), Setting(5, TRUE, "offload", 4),
   Setting(1, FALSE, "offload", 4), Setting(2, FALSE, "hybrid", 1),
   Setting(3, FALSE, "hybrid", 2),
   Setting(0, FALSE, "cpu", 0)}
MCMoeLayers == {0, 1, 2}
=============================================================================
