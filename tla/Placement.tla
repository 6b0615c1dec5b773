------------------------------ MODULE Placement ------------------------------
(***************************************************************************)
(* What start-up computes before it touches a weight: the execution mode a   *)
(* request resolves to, the mesh of devices, the plan of the active set and  *)
(* the executor.  Pure operators; Startup says which server calls which.     *)
(* A failure is the value No: the code's false, nullptr or ok = false.       *)
(***************************************************************************)
EXTENDS Integers, Sequences, FiniteSets, SequencesExt

Modes == {"pure_cpu", "hybrid_gpu", "pure_gpu", "layer_stream"}
OnDevice(mode) == mode \in {"hybrid_gpu", "pure_gpu"}
No == [ok |-> FALSE]

(* The mode a request becomes.  pure_gpu never becomes another.              *)
ResolveMode(req, cuda) ==
  CASE req = "auto" -> IF cuda THEN "hybrid_gpu" ELSE "pure_cpu"
    [] req = "hybrid_gpu" -> IF cuda THEN "hybrid_gpu" ELSE "pure_cpu"
    [] OTHER -> req

(* "auto" without CUDA streams a model that does not fit in dram_hot_gb.     *)
AutoStream(req, mode, conf) ==
  IF req = "auto" /\ mode = "pure_cpu" /\ conf.autoStream /\ conf.over
  THEN "layer_stream" ELSE mode

(***************************************************************************)
(* The mesh.  A list of one negative id stands for every visible device.     *)
(* Negative ids are clamped to 0 after the duplicates have gone.             *)
(***************************************************************************)
One == [ok |-> TRUE, ids |-> <<0>>, ep |-> 1, tp |-> 1, nccl |-> FALSE]

DeviceIds(ids, visible) ==
  IF ids = <<>> THEN {0}
  ELSE IF Len(ids) = 1 /\ ids[1] < 0 THEN {0} \cup 0..visible - 1
  ELSE ToSet(ids)
Clamp(d) == IF d < 0 THEN 0 ELSE d

Strategy(asked, world, moe, hint) ==
  IF asked # "auto" THEN asked
  ELSE IF moe \/ (world > 1 /\ hint) THEN "ep" ELSE "tp"

(* <<ep, tp>>: derived from the strategy when neither is given.  "ep_tp"      *)
(* looks for the largest divisor and so puts everything on ep.               *)
Split(spec, strategy, world) ==
  IF spec.ep <= 0 /\ spec.tp <= 0
  THEN IF strategy = "tp" THEN <<1, world>> ELSE <<world, 1>>
  ELSE LET ep == IF spec.ep <= 0 THEN 1 ELSE spec.ep
       IN <<ep, IF spec.tp <= 0 THEN world \div ep ELSE spec.tp>>

(* The i-th of a set of ids, in ascending order.                             *)
Nth(set, i) == CHOOSE d \in set : Cardinality({e \in set : e < d}) = i - 1

ResolveMesh(spec, visible, nccl, moe) ==
  LET set == DeviceIds(spec.ids, visible)
      world == Cardinality(set)
      split == Split(spec, Strategy(spec.strategy, world, moe, spec.hint), world)
  IN IF \/ visible > 0 /\ \E d \in set : Clamp(d) >= visible
        \/ split[1] * split[2] # world
        \/ world > 1 /\ spec.nccl /\ ~nccl
     THEN No
     ELSE [ok |-> TRUE,
           ids |-> [i \in 1..world |-> Clamp(Nth(set, i))],
           ep |-> split[1], tp |-> split[2],
           nccl |-> world > 1 /\ (nccl \/ ~spec.nccl)]

(* Hybrid on several listed devices splits the attention, not the experts.   *)
ResolveMeshForMode(mode, spec, visible, nccl, moe) ==
  IF ~OnDevice(mode) THEN One
  ELSE LET tensor == mode = "hybrid_gpu" /\ spec.strategy = "auto" /\ Len(spec.ids) > 1
           s == IF tensor THEN [spec EXCEPT !.strategy = "tp", !.hint = FALSE] ELSE spec
       IN ResolveMesh(s, visible, nccl, moe)

World(mesh) == Len(mesh.ids)

(* The executor; the GPU ones refuse several devices without collectives.    *)
MakeExec(mode, mesh) ==
  IF ~OnDevice(mode) THEN "cpu"
  ELSE IF World(mesh) > 1 /\ ~mesh.nccl THEN "none" ELSE mode

(***************************************************************************)
(* The plan of the active set, per rank, in units of bytes.  An expert        *)
(* belongs to the rank of its number modulo ep_size (the shard "mod").       *)
(***************************************************************************)
OwnerRank(mesh, e) == IF mesh.ep <= 1 THEN 0 ELSE e % mesh.ep
Owned(mesh, n, r) == Cardinality({e \in 0..n - 1 : mesh.ep <= 1 \/ OwnerRank(mesh, e) = r})
AtMost(x, y) == IF x < y THEN x ELSE y

SlotsOf(mesh, profile, extra, r) ==
  LET owned == Owned(mesh, profile.experts, r)
      n == AtMost(profile.topk, IF owned > 0 THEN owned ELSE profile.topk) + extra * profile.topk
  IN IF n < 1 THEN 1 ELSE n
Shares(mesh, profile) ==
  profile.attn \div mesh.tp + profile.shared \div mesh.tp + profile.kv
Need(mesh, profile, cfg, r) ==
  Shares(mesh, profile) + SlotsOf(mesh, profile, cfg.extra, r) * profile.expert
    + profile.workspace + cfg.margin

SolveActive(mode, cfg, mesh, profile) ==
  LET needs == IF mode = "pure_gpu"
               THEN {Need(mesh, profile, cfg, r) : r \in 0..mesh.ep - 1}
               ELSE {Shares(mesh, profile) + profile.workspace + cfg.margin}
      last == SlotsOf(mesh, profile, cfg.extra, mesh.ep - 1)
  IN IF OnDevice(mode) /\ cfg.strict /\ \E n \in needs : n > cfg.vram
     THEN No
     ELSE [ok |-> TRUE, vram |-> cfg.vram, slots |-> IF mode = "pure_gpu" THEN last ELSE 0]
=============================================================================
