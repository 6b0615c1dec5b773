--------------------------- MODULE MCWeightManager ---------------------------
(***************************************************************************)
(* WeightManager for TLC: a resident tensor, three of an expert and one of *)
(* a streamed dense layer, in a cache for about three of them.             *)
(***************************************************************************)
EXTENDS WeightManager

CONSTANTS norm, gate, up, down, qkv

Sizes == [t \in Tensors |-> IF t = down THEN 2 ELSE IF t = qkv THEN 3 ELSE 1]
Layer == {{gate, up, down}, {qkv}}
=============================================================================
