---------------------------- MODULE MCLayerStream ----------------------------
(* Seven layers of one int4 and one passthrough tensor: more than the       *)
(* memory bound allows for the smaller windows, so that the bound can fail. *)
EXTENDS LayerStream
MCConfiguredWindows == {0, 1, 2, 3}
=============================================================================
