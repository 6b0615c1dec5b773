------------------------------- MODULE Startup -------------------------------
(***************************************************************************)
(* From main() to listen(): the five servers (BF16 dense and MoE, INT4 dense *)
(* and MoE, GLM) resolve a mode, mesh and plan, enable CUDA, open the        *)
(* weights, load the model, warm the device, and start to listen, or die     *)
(* with FATAL.  Each step is a stretch of main() between two calls that may  *)
(* throw or that change something another stretch reads.                     *)
(***************************************************************************)
EXTENDS Placement, HostBanks, VramBooks

CONSTANTS Boots,       \* [main, conf, machine]: what the process is started with
          Workspace,   \* resident_workspace_bytes()
          CapMargin,   \* bytes of the device the INT4 servers leave free
          PinCap,      \* LLMOC_MOE_CUDA_PIN_GB
          WarmCharges, \* bytes a warm-up of the BF16 and GLM servers may upload
          Contents     \* QLWC file -> what it and the config.json beside it hold

MeshSpecs == [ids : Seq(Int), strategy : {"auto", "ep", "tp", "ep_tp"}, ep : Int, tp : Int,
              nccl : BOOLEAN, hint : BOOLEAN]
Profiles == [experts : Nat, topk : Nat, attn : Nat, shared : Nat, kv : Nat, expert : Nat,
             workspace : Nat]
Configs ==
  [req : Modes \cup {"auto"}, autoStream : BOOLEAN, over : BOOLEAN, spec : MeshSpecs, vram : Nat,
   streamCuda : BOOLEAN, strict : BOOLEAN, extra : Nat, margin : Nat, dram : Nat, loaded : Nat,
   hostPin : BOOLEAN, slots : Nat, experts : Nat, overlap : BOOLEAN, file : STRING,
   profile : Profiles, bf16 : BOOLEAN, key : BOOLEAN]
Boxes == [cuda : BOOLEAN, cublas : BOOLEAN, gpus : Nat, nccl : BOOLEAN, total : Nat,
          jit : BOOLEAN, env : {"unset", "0", "1"}]

(* A GLM configuration names one of three modes; CUDA is available where it    *)
(* finds a device.                                                           *)
ASSUME StartupAssumption ==
  /\ Boots \subseteq [main : {"bf16", "bf16moe", "int4", "int4moe", "glm"}, conf : Configs,
                     machine : Boxes]
  /\ \A b \in Boots : /\ b.main = "glm" => b.conf.req \in {"pure_cpu", "hybrid_gpu", "pure_gpu"}
                      /\ b.machine.cuda => b.machine.gpus > 0
  /\ \A f \in DOMAIN Contents : Contents[f].layers \in Seq(STRING)
  /\ {Workspace, CapMargin, PinCap} \subseteq Nat /\ WarmCharges \subseteq Nat

VARIABLES boot, pc, mode, mesh, plan,
          streaming,   \* the model runs on a window of layers
          family,      \* of the model that was loaded
          reserve,     \* bytes promised to the MoE slots
          held,        \* the reserve was taken off the budget for the warm-up
          gemm,        \* GLM: use_gpu_gemm_
          left         \* device states of the warm-up session are still there
bootVars == <<boot, pc, mode, mesh, plan, streaming, family, reserve, held, gemm, left>>
startVars == <<bootVars, bankVars, dev>>

Main == boot.main
Conf == boot.conf
Machine == boot.machine
Int4 == Main \in {"int4", "int4moe"}
MoeMain == Main \in {"bf16moe", "int4moe", "glm"}

StartInit ==
  /\ boot \in Boots
  /\ pc = "mode" /\ mode = "none" /\ mesh = One /\ plan = No
  /\ streaming = FALSE /\ family = "none" /\ reserve = 0 /\ held = FALSE
  /\ gemm = FALSE /\ left = FALSE
  /\ BanksInit /\ DevInit

Fatal == /\ pc' = "fatal"
         /\ UNCHANGED <<boot, mode, mesh, plan, streaming, family, reserve, held, gemm, left>>

(***************************************************************************)
(* Mode, mesh and executor.  "auto" of the INT4 servers resolves to          *)
(* hybrid_gpu and skips the block that builds the mesh and enables CUDA.     *)
(***************************************************************************)
Cuda == Machine.cuda
Visible == IF Cuda THEN Machine.gpus ELSE 0
Chosen == AutoStream(Conf.req, ResolveMode(Conf.req, Cuda), Conf)
Asks(m) == OnDevice(m) /\ ~(Int4 /\ Conf.req = "auto")

ChooseMode ==
  /\ pc = "mode" /\ Main # "glm"
  /\ LET m == IF Asks(Chosen)
              THEN ResolveMeshForMode(Chosen, Conf.spec, Visible, Machine.nccl, MoeMain)
              ELSE One
     IN IF (Conf.req = "pure_gpu" /\ ~Cuda) \/ ~m.ok \/ MakeExec(Chosen, m) = "none"
        THEN Fatal
        ELSE /\ mode' = Chosen /\ mesh' = m
             /\ pc' = IF Asks(Chosen) THEN "enable" ELSE "open"
             /\ UNCHANGED <<boot, plan, streaming, family, reserve, held, gemm, left>>
  /\ UNCHANGED <<dev, bankVars>>

(* The INT4 servers clamp what they ask for to the device; the BF16 ones     *)
(* check the active set against the plan afterwards.                         *)
Clamped(want, total) ==
  LET cap == IF total > CapMargin THEN total - CapMargin ELSE total
  IN IF total > 0 /\ want > cap THEN cap ELSE want
Want == IF Int4 THEN Clamped(Conf.vram, Machine.total) ELSE Conf.vram
NoProfile == [experts |-> 0, topk |-> 0, attn |-> 0, shared |-> 0, kv |-> 0,
              expert |-> 0, workspace |-> 0]

EnableCuda ==
  /\ pc = "enable"
  /\ dev' = Enabled(dev, Want, Machine.cublas)
  /\ LET p == IF Int4 THEN No ELSE SolveActive(mode, Conf, mesh, NoProfile)
     IN IF ~Machine.cublas \/ ~(Int4 \/ p.ok) THEN Fatal
        ELSE /\ pc' = "open" /\ plan' = p
             /\ UNCHANGED <<boot, mode, mesh, streaming, family, reserve, held, gemm, left>>
  /\ UNCHANGED bankVars

(***************************************************************************)
(* Weights and model.                                                       *)
(***************************************************************************)
Reads(file) == IF Int4 THEN file \in DOMAIN Contents
               ELSE file \in {"lwc_dense", "lwc_moe"}

(* hf_config_looks_moe, store_looks_moe: what the configuration says, or the *)
(* tensors of layer 0, and no other.                                        *)
LooksMoe(file) == Contents[file].experts \/ Contents[file].layers[1] \in {"moe", "fused", "routerless"}
Family(file) == IF IF Int4 THEN LooksMoe(file) ELSE file = "lwc_moe" THEN "moe" ELSE "dense"
Serves == IF MoeMain THEN "moe" ELSE "dense"

(* AutoAWQ zeros that the import dropped, or that a container lacks.          *)
KeptZeros(box) == /\ ~(box.zp /\ box.scheme = "awq_sym")
                  /\ box.scheme = "gptq_asym" => box.zeros
(* build_global_packs: an embedding, and an lm_head unless it is tied.       *)
GlobalPacks(box) == box.embed /\ (box.lm \/ box.tie)
(* fill_layer_pack: a layer's own tensors say whether it is dense.           *)
LayerPacks(box) == \A l \in DOMAIN box.layers : box.layers[l] \in {"dense", "moe"}
(* Qwen35Int4Model::load and the MoE model's: what throws nothing.            *)
Loads(box) == /\ KeptZeros(box) /\ GlobalPacks(box) /\ LayerPacks(box)
              /\ Main = "int4moe" => box.scheme # "awq_sym"

(* A streaming INT4 server enables CUDA here, and only if its window is to   *)
(* be on the device; a failure leaves the window on the host.                *)
OpenWeights ==
  /\ pc = "open" /\ Main # "glm"
  /\ dev' = IF Int4 /\ mode = "layer_stream" /\ Conf.streamCuda /\ Cuda
            THEN Enabled(dev, Conf.vram, Machine.cublas) ELSE dev
  /\ IF ~Reads(Conf.file) THEN Fatal
     ELSE /\ pc' = "load"
          /\ UNCHANGED <<boot, mode, mesh, plan, streaming, family, reserve, held, gemm, left>>
  /\ UNCHANGED bankVars

NextOf(m, s, on) ==
  CASE m = "bf16" -> IF on THEN "warm" ELSE "listen"
    [] m = "bf16moe" -> "listen"
    [] m = "int4moe" /\ ~s -> "offload"
    [] m = "int4" /\ on /\ ~s -> "warm"
    [] OTHER -> "forward"

LoadModel ==
  /\ pc = "load"
  /\ IF Family(Conf.file) # Serves \/ (Int4 /\ ~Loads(Contents[Conf.file])) THEN Fatal
     ELSE /\ family' = Family(Conf.file)
          /\ streaming' = (mode = "layer_stream")
          /\ pc' = NextOf(Main, mode = "layer_stream", dev.on)
          /\ UNCHANGED <<boot, mode, mesh, plan, reserve, held, gemm, left>>
  /\ UNCHANGED <<dev, bankVars>>

(***************************************************************************)
(* MoE offload: banks in DRAM, then the slots' reserve is taken off the      *)
(* budget so that the warm-up cannot spend it, and given back after.         *)
(***************************************************************************)
BankBudget == IF Conf.dram = 0 THEN 0
              ELSE IF Conf.dram > Conf.loaded + 2 THEN Conf.dram - Conf.loaded - 2
              ELSE Conf.dram \div 2

InitOffload == /\ pc = "offload" /\ Allocate
               /\ pc' = "fill"
               /\ UNCHANGED <<boot, mode, mesh, plan, streaming, family, reserve, held, gemm,
                              left, dev>>
FillBanks == /\ pc = "fill" /\ Fill(BankBudget)
             /\ UNCHANGED <<bootVars, dev>>

MoeSlots(asked, n, overlap) ==
  LET most == IF asked > 0 \/ ~dev.on THEN asked
              ELSE AtMost(IF dev.budget \div 4 > 2 * n THEN dev.budget \div 4 ELSE 2 * n, 4 * n)
      some == IF most <= 0 THEN 2 * n ELSE most
  IN IF overlap /\ some < 2 * n THEN 2 * n ELSE some

ReserveSlots ==
  /\ pc = "fill" /\ at = 0
  /\ reserve' = MoeSlots(Conf.slots, Conf.experts, Conf.overlap)
  /\ held' = (dev.on /\ reserve' > 0 /\ dev.budget > reserve')
  /\ dev' = IF held' THEN [dev EXCEPT !.budget = @ - reserve'] ELSE dev
  /\ pc' = IF dev.on THEN "warm" ELSE "pin"
  /\ UNCHANGED <<boot, mode, mesh, plan, streaming, family, gemm, left, bankVars>>

(* As if the discount were kept (a mutant of GivenBack).                      *)
NotGivenBack(d) == d

(* The reserve is added whether or not it was taken off.                     *)
GivenBack(d) == IF reserve > 0 THEN [d EXCEPT !.budget = @ + reserve] ELSE d

(* warm_gpu_int4_weights: what the layers compute with, and the lm_head, a    *)
(* unit each; an upload may fail, and does once the budget is full.          *)
WarmWeights == Len(Contents[Conf.file].layers) + 1
WarmedInt4(d) == {n \in 0..WarmWeights : d.used + n <= d.budget}
Healthy(n) == n > 0 /\ n >= WarmWeights - n

WarmInt4 ==
  /\ pc = "warm" /\ Int4
  /\ \E n \in WarmedInt4(dev) :
       LET d == GivenBack(Charged(dev, n))
       IN dev' = IF Healthy(n) THEN Reside(d, Workspace, Machine.env, Machine.jit)
                 ELSE [d EXCEPT !.resident = FALSE]
  /\ pc' = IF Main = "int4moe" THEN "pin" ELSE "forward"
  /\ UNCHANGED <<boot, mode, mesh, plan, streaming, family, reserve, held, gemm, left, bankVars>>

WarmBf16 ==
  /\ pc = "warm" /\ Main = "bf16"
  /\ \E c \in WarmCharges : dev' = Charged(dev, c)
  /\ pc' = "listen"
  /\ UNCHANGED <<boot, mode, mesh, plan, streaming, family, reserve, held, gemm, left, bankVars>>

(* pin_moe_host_banks(): nothing when no layer was filled.                   *)
PinBanks ==
  /\ pc = "pin"
  /\ IF ready THEN PinBegin /\ pc' = "pinning" ELSE pc' = "forward" /\ UNCHANGED bankVars
  /\ UNCHANGED <<boot, mode, mesh, plan, streaming, family, reserve, held, gemm, left, dev>>
PinOne == /\ pc = "pinning" /\ Settle(Conf.hostPin, PinCap, BankBudget)
          /\ UNCHANGED <<bootVars, dev>>
PinEnd == /\ pc = "pinning" /\ PinDone
          /\ pc' = "forward"
          /\ UNCHANGED <<boot, mode, mesh, plan, streaming, family, reserve, held, gemm, left, dev>>

(* The warm-up session: a prefill and four decodes.  The dense server gives  *)
(* its device states back, the MoE server drops the session without.         *)
ReleaseWarm(states) == Main = "int4moe" /\ states
WarmForward ==
  /\ pc = "forward"
  /\ \E states \in IF dev.on THEN BOOLEAN ELSE {FALSE} : left' = ReleaseWarm(states)
  /\ pc' = "listen"
  /\ UNCHANGED <<boot, mode, mesh, plan, streaming, family, reserve, held, gemm, dev, bankVars>>

(***************************************************************************)
(* The GLM servers.  A failed enable() is not looked at: the model then runs *)
(* on the CPU whatever the mode.                                             *)
(***************************************************************************)
GlmDevice ==
  /\ pc = "mode" /\ Main = "glm"
  /\ LET m == IF Conf.req = "hybrid_gpu" /\ ~Cuda THEN "pure_cpu" ELSE Conf.req
     IN IF Conf.req = "pure_gpu" /\ ~Cuda THEN Fatal /\ dev' = dev
        ELSE /\ mode' = m
             /\ dev' = IF OnDevice(m) THEN Enabled(dev, Conf.vram, Machine.cublas) ELSE dev
             /\ pc' = "open"
             /\ UNCHANGED <<boot, mesh, plan, streaming, family, reserve, held, gemm, left>>
  /\ UNCHANGED bankVars

GlmSpec == [ids |-> <<0>>, strategy |-> "auto", ep |-> 0, tp |-> 0, nccl |-> TRUE, hint |-> TRUE]
GlmCfg == [vram |-> Conf.vram, strict |-> mode = "pure_gpu", extra |-> 1, margin |-> Conf.margin]

(* The store maps a whole GLMQ file of the server's quantisation, or throws.  *)
GlmOpens == Conf.file = "glmq"

(* load(): an exception of the store, the mesh or the plan leaves the        *)
(* weights not ready, which run() answers with FATAL.                        *)
GlmLoad ==
  /\ pc = "open" /\ Main = "glm"
  /\ LET m == ResolveMeshForMode(mode, GlmSpec, Visible, Machine.nccl, TRUE)
         p == IF m.ok THEN SolveActive(mode, GlmCfg, m, Conf.profile) ELSE No
     IN IF ~GlmOpens \/ ~m.ok \/ MakeExec(mode, m) = "none" \/ ~p.ok THEN Fatal
        ELSE /\ mesh' = m /\ plan' = p
             /\ family' = "glm"
             /\ gemm' = (OnDevice(mode) /\ dev.on)
             /\ pc' = "warm"
             /\ UNCHANGED <<boot, mode, streaming, reserve, held, left>>
  /\ UNCHANGED <<dev, bankVars>>

GlmWarm ==
  /\ pc = "warm" /\ Main = "glm"
  /\ IF gemm THEN \E c \in WarmCharges : dev' = Charged(dev, c) ELSE UNCHANGED dev
  /\ pc' = "listen"
  /\ UNCHANGED <<boot, mode, mesh, plan, streaming, family, reserve, held, gemm, left, bankVars>>

(***************************************************************************)
(* Any stretch may throw (a file, the tokenizer, a shape); the banks are     *)
(* then freed by the model's destructor.  A taken port throws as well.       *)
(***************************************************************************)
Breaks ==
  /\ pc \in {"open", "load", "fill", "pinning", "forward", "listen"}
  /\ Fatal
  /\ IF Main = "int4moe" THEN FreeAll ELSE UNCHANGED bankVars
  /\ UNCHANGED dev

Listen ==
  /\ pc = "listen" /\ pc' = "listening"
  /\ UNCHANGED <<boot, mode, mesh, plan, streaming, family, reserve, held, gemm, left, dev, bankVars>>

StartNext ==
  \/ ChooseMode \/ EnableCuda \/ OpenWeights \/ LoadModel
  \/ InitOffload \/ FillBanks \/ ReserveSlots \/ WarmInt4 \/ WarmBf16
  \/ PinBanks \/ PinOne \/ PinEnd \/ WarmForward
  \/ GlmDevice \/ GlmLoad \/ GlmWarm \/ Breaks \/ Listen

(***************************************************************************)
(* A server that listens runs what it was asked for.                         *)
(***************************************************************************)
(* pure_gpu means the device, but for the GLM server whose enable() failed;  *)
(* any device mode means CUDA is on, but for that and for INT4's "auto".     *)
DeviceAsAsked ==
  /\ Conf.req = "pure_gpu" => mode = "pure_gpu" /\ (dev.on \/ (Main = "glm" /\ ~Machine.cublas))
  /\ OnDevice(mode) /\ ~(Int4 /\ Conf.req = "auto") /\ Main # "glm" => dev.on
  /\ dev.on => OnDevice(mode) \/ (mode = "layer_stream" /\ Int4 /\ Conf.streamCuda)

(* The budget is the configured one (the INT4 servers': clamped), the warm-  *)
(* up's discount undone.  Except where the reserve did not fit the budget in *)
(* the first place: it was not taken off, and is added all the same.         *)
BudgetAsConfigured ==
  dev.on => dev.budget = (IF OnDevice(mode) THEN Want ELSE Conf.vram)
                         + (IF Main = "int4moe" /\ ~held /\ ~streaming THEN reserve ELSE 0)

(* Unless the environment forces it, the resident workspace fitted, and what *)
(* the warm-up left is enough for the slots it was held back for.            *)
ReserveKept ==
  /\ dev.used <= dev.budget \/ Machine.env = "1"
  /\ held /\ ~dev.resident => dev.budget - dev.used >= reserve

(* Ranks are distinct visible devices, unless a negative id stood among      *)
(* several; ep x tp is their number.                                         *)
MeshSound ==
  /\ mesh.ep * mesh.tp = World(mesh)
  /\ World(mesh) > 1 => OnDevice(mode) /\ mesh.nccl
  /\ dev.on => \A i \in 1..World(mesh) : mesh.ids[i] \in 0..Machine.gpus - 1
  /\ (\A i \in DOMAIN Conf.spec.ids : Conf.spec.ids[i] >= 0) => IsInjective(mesh.ids)

(* No layer of a dense INT4 server is a MoE layer, whose router would have    *)
(* one row, unless the configuration is silent and layer 0 is dense: the     *)
(* weights are looked at in layer 0 only.                                   *)
LayersAsServed ==
  Main = "int4" =>
    LET box == Contents[Conf.file]
    IN  (\E l \in DOMAIN box.layers : box.layers[l] = "moe") =>
          ~box.experts /\ box.layers[1] = "dense"

(* ListensAsConfigured: main() gets to listen() only with the device, the    *)
(* budget, the mesh and the model it was configured with; the exceptions are *)
(* those named above.  About: the start-up code of the five servers, which   *)
(* nothing tests, and main_int4_moe.cpp:210, which adds a reserve that       *)
(* another line may not have subtracted.                                     *)
ListensAsConfigured ==
  pc = "listening" =>
    /\ DeviceAsAsked /\ BudgetAsConfigured /\ ReserveKept /\ MeshSound /\ LayersAsServed
    /\ family = (IF Main = "glm" THEN "glm" ELSE Serves)
    /\ streaming = (mode = "layer_stream")
    /\ left => Main = "int4moe"

(* BanksAreWhole: at every moment of start-up the host banks are what their  *)
(* counters and residencies say (HostBanks' BanksWhole), under the budget    *)
(* the INT4 MoE server computed for them; pin() and the decode never meet an *)
(* arena that a fill was still at work on; after FATAL nothing is left.      *)
BanksAreWhole ==
  /\ Main = "int4moe" => BanksWhole(BankBudget, PinCap)
  /\ pc # "fill" => \A l \in BankLayers : arena[l] # "partial"
  /\ pc = "fatal" => \A l \in BankLayers : os[l] = "none" /\ arena[l] = "none"
=============================================================================
