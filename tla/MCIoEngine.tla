----------------------------- MODULE MCIoEngine -----------------------------
(***************************************************************************)
(* IoEngine for TLC: two workers, two clients, two requests.               *)
(***************************************************************************)
EXTENDS IoEngineProps
=============================================================================
