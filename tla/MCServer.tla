------------------------------- MODULE MCServer ------------------------------
(***************************************************************************)
(* Servers to start: configurations and machines chosen so that every branch *)
(* of the start-up is taken by some server; then two threads, two messages.  *)
(***************************************************************************)
EXTENDS Server, TLC

NoSpec == [ids |-> <<>>, strategy |-> "auto", ep |-> 0, tp |-> 0, nccl |-> TRUE, hint |-> FALSE]
Profile2 == [experts |-> 3, topk |-> 2, attn |-> 1, shared |-> 0, kv |-> 0, expert |-> 1,
             workspace |-> 0]
Basic == [req |-> "pure_gpu", autoStream |-> TRUE, over |-> FALSE, spec |-> NoSpec, vram |-> 8,
          streamCuda |-> FALSE, strict |-> TRUE, extra |-> 1, margin |-> 0, dram |-> 0,
          loaded |-> 0, hostPin |-> TRUE, slots |-> 0, experts |-> 1, overlap |-> FALSE,
          file |-> "lwc_dense", profile |-> Profile2, bf16 |-> TRUE, key |-> FALSE]
Box == [cuda |-> TRUE, cublas |-> TRUE, gpus |-> 2, nccl |-> TRUE, total |-> 12, jit |-> TRUE,
        env |-> "unset"]

Machines == {Box, [Box EXCEPT !.cuda = FALSE, !.cublas = FALSE, !.gpus = 0, !.nccl = FALSE],
             [Box EXCEPT !.cublas = FALSE], [Box EXCEPT !.nccl = FALSE],
             [Box EXCEPT !.gpus = 1, !.total = 7]}
Specs == {NoSpec} \cup
         {[NoSpec EXCEPT !.ids = ids, !.strategy = s, !.ep = ep, !.nccl = n] :
            ids \in {<<0>>, <<0, 1>>, <<1, 1>>, <<-1>>, <<-1, 0>>, <<2>>},
            s \in {"auto", "ep", "tp", "ep_tp"}, ep \in {0, 2}, n \in BOOLEAN}
Reqs == {"pure_cpu", "hybrid_gpu", "pure_gpu", "layer_stream", "auto"}

(* QLWC containers, whole and otherwise, and what their configurations say.  *)
Dense == [experts |-> FALSE, layers |-> <<"dense", "dense">>, zp |-> FALSE, scheme |-> "awq_sym",
          zeros |-> FALSE, embed |-> TRUE, lm |-> FALSE, tie |-> TRUE]
Moe == [Dense EXCEPT !.experts = TRUE, !.layers = <<"moe", "moe">>, !.zp = TRUE,
                     !.scheme = "gptq_asym", !.zeros = TRUE]
TheContents ==
  [qlwc_dense |-> Dense, qlwc_moe |-> Moe,
   qlwc_awq |-> [Dense EXCEPT !.zp = TRUE], qlwc_nozeros |-> [Dense EXCEPT !.scheme = "gptq_asym"],
   qlwc_noembed |-> [Dense EXCEPT !.embed = FALSE], qlwc_untied |-> [Dense EXCEPT !.tie = FALSE],
   qlwc_head |-> [Dense EXCEPT !.lm = TRUE], qlwc_silent |-> [Moe EXCEPT !.experts = FALSE],
   qlwc_late |-> [Moe EXCEPT !.experts = FALSE, !.layers = <<"dense", "moe">>],
   qlwc_first |-> [Moe EXCEPT !.layers = <<"dense", "moe">>],
   qlwc_fused |-> [Moe EXCEPT !.layers = <<"fused", "moe">>],
   qlwc_norouter |-> [Moe EXCEPT !.layers = <<"moe", "routerless">>],
   qlwc_moeawq |-> [Moe EXCEPT !.zp = FALSE, !.scheme = "awq_sym"]]
Containers == {[main |-> m, conf |-> [Basic EXCEPT !.req = r, !.file = f], machine |-> Box] :
                 m \in {"int4", "int4moe"}, r \in {"pure_cpu", "pure_gpu", "layer_stream"},
                 f \in DOMAIN TheContents}

MainFile(m) == CASE m = "bf16" -> {"lwc_dense", "lwc_moe"}
                 [] m = "bf16moe" -> {"lwc_moe", "qlwc_moe"}
                 [] m = "int4" -> {"qlwc_dense", "qlwc_moe", "lwc_dense"}
                 [] m = "int4moe" -> {"qlwc_moe"}
                 [] OTHER -> {"glmq", "glmq_other"}

(* Modes and meshes, for the four servers that read a mesh.                  *)
Meshes == {[main |-> m, conf |-> [Basic EXCEPT !.req = r, !.spec = s, !.over = over, !.file = f],
            machine |-> box] :
             m \in {"bf16", "int4moe"}, r \in {"hybrid_gpu", "pure_gpu", "auto"},
             s \in Specs, over \in {FALSE}, f \in {"lwc_dense", "qlwc_moe"}, box \in Machines}
Modes_ == UNION {{[main |-> m, conf |-> [Basic EXCEPT !.req = r, !.over = over, !.file = f,
                                           !.streamCuda = over, !.margin = margin],
            machine |-> box] :
             r \in Reqs, over \in BOOLEAN, f \in MainFile(m), box \in Machines,
             margin \in {0, 9}} : m \in {"bf16", "bf16moe", "int4", "int4moe"}}

(* Budgets and banks of the INT4 MoE server.                                 *)
Offloads == {[main |-> "int4moe",
              conf |-> [Basic EXCEPT !.vram = v, !.slots = s, !.dram = d, !.hostPin = pin,
                                     !.overlap = o, !.file = "qlwc_moe"],
              machine |-> [Box EXCEPT !.env = e, !.jit = j]] :
               v \in {1, 4, 8}, s \in {0, 1, 2}, d \in {0, 3, 5, 6}, pin \in BOOLEAN, o \in BOOLEAN,
               e \in {"unset", "0", "1"}, j \in BOOLEAN}

(* GLM: a budget just below, and just at, what the plan of a route needs: the *)
(* pool gets half of it, two experts; and the least that a plan with half of  *)
(* an expert's bytes needs, of which the pool gets room for one.              *)
Glms == {[main |-> "glm",
          conf |-> [Basic EXCEPT !.req = r, !.vram = p[1], !.profile.expert = p[2], !.file = f,
                                 !.bf16 = b, !.key = k],
          machine |-> box] :
            r \in {"pure_cpu", "hybrid_gpu", "pure_gpu"}, p \in {<<8, 2>>, <<9, 2>>, <<5, 1>>},
            f \in MainFile("glm"), b \in BOOLEAN, k \in {FALSE}, box \in Machines}
Keyed_ == {[b EXCEPT !.conf.key = TRUE] : b \in {x \in Glms : ~x.conf.bf16}}

TheBoots == {b \in Meshes \cup Modes_ : b.conf.file \in MainFile(b.main)} \cup Offloads \cup Glms \cup Keyed_ \cup Containers

(* Serving depends on little of what start-up did: once the first message is *)
(* sent, two servers that differ only in the rest are one.  A pool to which   *)
(* nothing is bound stays empty, whatever its size.                         *)
Shown == IF history = <<>> THEN vars
         ELSE <<serveVars, fwd, rows, throws, spilled, Conf.key, Glm, pool.bound,
                IF pool.bound THEN <<pool, dev>> ELSE <<>> >>

TheMoeLayers == <<FALSE, TRUE, TRUE>>
TheLayers == <<"dense", "moe", "moe">>
TheRoutes == {<<1, 2>>, <<3, 1>>}
Alike_ == Permutations(Threads)
TheWarmCharges == {0, 3}
=============================================================================
