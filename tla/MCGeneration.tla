---------------------------- MODULE MCGeneration ----------------------------
(* Prompts with and without an image, one too long, and requests whose      *)
(* tokens are limited by themselves or by the room; drafts up to the most   *)
(* the margin allows.                                                       *)
EXTENDS Generation

Request(prompt, pads, maxNew, mtp, spec, lp) ==
  [prompt |-> prompt, pads |-> pads, maxNew |-> maxNew,
   mtp |-> mtp, spec |-> spec, logprobs |-> lp]

MCRequests ==
  {Request(1, 0, 9, TRUE, 3, FALSE), Request(2, 0, 9, TRUE, Margin + 1, FALSE),
   Request(1, 0, 3, TRUE, 1, FALSE), Request(2, 0, 9, TRUE, 2, TRUE),
   Request(6, 4, 2, FALSE, 1, FALSE), Request(1, 0, 0, FALSE, 1, FALSE),
   Request(9, 4, 2, FALSE, 1, FALSE)}
=============================================================================
