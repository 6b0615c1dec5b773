------------------------------ MODULE VramBooks ------------------------------
(***************************************************************************)
(* The process-wide books of device memory that start-up and the GLM slot    *)
(* pool share: whether CUDA is on, g_budget, g_used and g_resident.  The     *)
(* weight caches that also write g_used are DeviceCaches.                    *)
(***************************************************************************)
EXTENDS Integers

VARIABLE dev

Books == [on : BOOLEAN, budget : Nat, used : Nat, resident : BOOLEAN]
DevInit == dev = [on |-> FALSE, budget |-> 0, used |-> 0, resident |-> FALSE]

(* enable(): the budget is set before anything can fail.                     *)
Enabled(d, budget, cublas) == [d EXCEPT !.budget = budget, !.on = @ \/ cublas]

(* Uploads charge g_used while the budget lasts.                             *)
Charged(d, bytes) ==
  IF d.on /\ d.used + bytes <= d.budget THEN [d EXCEPT !.used = @ + bytes] ELSE d

(* try_enable_resident_gpu(): LLMOC_RESIDENT_GPU=0 refuses, =1 skips the      *)
(* headroom check and no other.                                              *)
MayReside(d, need, env, jit) ==
  /\ env # "0" /\ d.on /\ jit
  /\ env = "1" \/ d.budget = 0 \/ d.used + need <= d.budget
Reside(d, need, env, jit) ==
  IF MayReside(d, need, env, jit)
  THEN [d EXCEPT !.used = @ + need, !.resident = TRUE] ELSE [d EXCEPT !.resident = FALSE]

(* device_alloc(): refused beyond the budget.  device_free() gives the       *)
(* memory back and leaves g_used as it is.                                   *)
MayAlloc(bytes) == dev.on /\ bytes > 0 /\ (dev.budget = 0 \/ dev.used + bytes <= dev.budget)
Alloc(bytes) == dev' = [dev EXCEPT !.used = @ + bytes]
=============================================================================
