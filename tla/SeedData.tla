------------------------------- MODULE SeedData -------------------------------
(***************************************************************************)
(* The collections packages/database starts with, as far as the job queue, *)
(* the advisers and the production loop read them, and the catalogue of    *)
(* accelerators.  Sizes are in tenths of a billion parameters; a token's   *)
(* cache is in kibibytes at a byte per element; windows in thousands of    *)
(* tokens; memory in tenths of a gigabyte; money in dollars per hour for a *)
(* node, in cents for a deployment.                                        *)
(***************************************************************************)
EXTENDS Integers, Sequences

\* two elements (key and value) per layer, head and dimension
ModelOf(id, params, layers, kv_heads, head_dim, window) ==
  [id |-> id, params |-> params, elements |-> (2 * layers * kv_heads * head_dim) \div 1024,
   window |-> window]

SEED_MODELS ==
  <<ModelOf("qwen-32b", 325, 64, 8, 128, 128), ModelOf("llama-70b", 706, 80, 8, 128, 128),
    ModelOf("deepseek-32b", 325, 64, 8, 128, 128), ModelOf("nemo-12b", 122, 40, 8, 128, 128),
    ModelOf("gemma-27b", 272, 46, 16, 128, 8)>>

\* createSeedBenchmark computes the two hashes, so every seeded record is sound
createSeedBenchmark(id, size, device, runtime, precision, synthetic, verified) ==
  [id |-> id, size |-> size, device |-> device, runtime |-> runtime, precision |-> precision,
   synthetic |-> synthetic, verified |-> verified, sound |-> TRUE]

QwenOnL40S == createSeedBenchmark("a1", 325, "l40s", "vllm", "fp8", FALSE, TRUE)
LlamaOnH100 == createSeedBenchmark("b2", 706, "h100", "vllm", "fp8", FALSE, TRUE)
DeepSeekOn4090 == createSeedBenchmark("c3", 325, "rtx4090", "llama.cpp", "awq", FALSE, FALSE)
LlamaOnMI300X == createSeedBenchmark("d4", 706, "mi300x", "vllm", "fp8", FALSE, TRUE)
SyntheticFixture == createSeedBenchmark("e5", 70, "emulated", "simulation", "fp16", TRUE, FALSE)

SEED_BENCHMARKS == <<QwenOnL40S, LlamaOnH100, DeepSeekOn4090, LlamaOnMI300X, SyntheticFixture>>

\* claimJob compares trust tiers by their ranks
TierRanking ==
  [untrusted |-> 0, community |-> 1, trusted |-> 2, organization |-> 3, managed |-> 4, attested |-> 5]

SEED_WORKERS ==
  <<[tier |-> TierRanking["community"]], [tier |-> TierRanking["organization"]]>>

\* assigned_worker_id is the position of the worker, 0 for none
SEED_BENCHMARK_JOBS ==
  <<[status |-> "completed", need |-> TierRanking["community"], by |-> 2],
    [status |-> "queued", need |-> TierRanking["trusted"], by |-> 0]>>

SEED_FLEET_RESOURCES ==
  <<[devices |-> 8, memory |-> 800, price |-> 24, reserved |-> TRUE, status |-> "allocated"],
    [devices |-> 8, memory |-> 480, price |-> 10, reserved |-> TRUE, status |-> "available"],
    [devices |-> 4, memory |-> 240, price |-> 4, reserved |-> FALSE, status |-> "available"]>>

SEED_PRODUCTION_DEPLOYMENT == [h100 |-> TRUE, devices |-> 2, cost |-> 600]

\* a quiet day, and one with 70 % more latency
SEED_TELEMETRY_WINDOWS ==
  <<[ttft |-> 22, errors |-> 0, gpu |-> 78, text |-> FALSE],
    [ttft |-> 38, errors |-> 4, gpu |-> 94, text |-> FALSE]>>

SEED_RECOMMENDATION ==
  [status |-> "ready_for_review", content |-> [accelerator |-> "l40s", cost |-> 250, ttft |-> 24]]

-----------------------------------------------------------------------------
(* HARDWARE_CATALOG of packages/hardware-registry: what the advisers know of *)
(* an accelerator.  Memory is in hundredths of a gigabyte, bandwidth in      *)
(* gigabytes per second (the maker's, and the observed one), prices in cents *)
(* per hour with 0 for "not given".  Names and peak figures that no adviser  *)
(* of this project reads are left out.                                       *)

Device(slug, vendor, arch, memory, bandwidth, watts, price, samples, precisions, runtimes) ==
  [slug |-> slug, vendor |-> vendor, arch |-> arch, memory |-> memory,
   bandwidth |-> bandwidth[1], observed |-> bandwidth[2], watts |-> watts,
   price |-> price, samples |-> samples, precisions |-> precisions, runtimes |-> runtimes]

Standard == {"fp16", "bf16", "int8", "int4"}

NvidiaDatacenter ==
  <<Device("b200-sxm-192gb", "nvidia", "Blackwell", 20616, <<8000, 7450>>, 1000, 585, 512,
           Standard \union {"fp8", "fp4", "awq", "gptq"}, {"vllm", "tensorrt-llm", "sglang", "dynamo", "nim"}),
    Device("gb200-nvl72", "nvidia", "Blackwell NVL72", 1484341, <<576000, 540000>>, 120000, 29500, 64,
           Standard \union {"fp8", "fp4"}, {"tensorrt-llm", "dynamo", "nim", "vllm"}),
    Device("h100-sxm5-80gb", "nvidia", "Hopper", 8590, <<3350, 2950>>, 700, 320, 1420,
           Standard \union {"fp8", "awq", "gptq"}, {"vllm", "tensorrt-llm", "sglang", "tgi"}),
    Device("h200-sxm-141gb", "nvidia", "Hopper", 15140, <<4800, 4200>>, 700, 450, 310,
           Standard \union {"fp8"}, {"vllm", "tensorrt-llm", "sglang"})>>

NvidiaInference ==
  <<Device("l40s-48gb", "nvidia", "Ada Lovelace", 5154, <<864, 740>>, 350, 115, 850,
           Standard \union {"fp8", "awq"}, {"vllm", "tensorrt-llm", "sglang", "tgi", "llama.cpp"}),
    Device("a100-sxm4-80gb", "nvidia", "Ampere", 8590, <<2039, 1820>>, 400, 185, 3420,
           Standard \union {"awq", "gptq"}, {"vllm", "tensorrt-llm", "sglang", "tgi"}),
    Device("l4-24gb", "nvidia", "Ada Lovelace", 2577, <<300, 255>>, 72, 65, 590,
           Standard \union {"fp8"}, {"vllm", "tensorrt-llm", "sglang", "llama.cpp"})>>

NvidiaConsumer ==
  <<Device("rtx-4090-24gb", "nvidia", "Ada Lovelace", 2577, <<1008, 880>>, 450, 75, 4120,
           Standard \union {"fp8", "awq", "gptq"}, {"vllm", "tensorrt-llm", "llama.cpp", "sglang"}),
    Device("rtx-5090-32gb", "nvidia", "Blackwell", 3436, <<1792, 1510>>, 600, 125, 240,
           Standard \union {"fp8", "fp4"}, {"vllm", "tensorrt-llm", "llama.cpp", "sglang"}),
    Device("rtx-3090-24gb", "nvidia", "Ampere", 2577, <<936, 790>>, 350, 45, 2890,
           Standard \union {"awq", "gptq"}, {"vllm", "llama.cpp"})>>

AmdDevices ==
  <<Device("instinct-mi350x-288gb", "amd", "CDNA 4", 30924, <<8000, 7100>>, 750, 420, 128,
           Standard \union {"fp8", "fp4"}, {"vllm", "sglang"}),
    Device("instinct-mi300x-192gb", "amd", "CDNA 3", 20616, <<5300, 4600>>, 750, 350, 420,
           Standard \union {"fp8"}, {"vllm", "sglang", "tgi"}),
    Device("radeon-rx-7900-xtx-24gb", "amd", "RDNA 3", 2577, <<960, 780>>, 355, 50, 610,
           Standard, {"vllm", "llama.cpp"}),
    Device("radeon-890m", "amd", "RDNA 3.5", 1718, <<120, 95>>, 35, 0, 85,
           Standard, {"llama.cpp"})>>

AppleDevices ==
  <<Device("apple-m3-ultra-192gb", "apple", "Apple Silicon M3", 20616, <<800, 690>>, 140, 0, 310,
           Standard, {"llama.cpp", "transformers"}),
    Device("apple-m4-max-128gb", "apple", "Apple Silicon M4", 13744, <<546, 480>>, 100, 0, 420,
           Standard, {"llama.cpp", "transformers"})>>

CpuDevices ==
  <<Device("server-cpu-128gb", "cpu", "x86_64 AVX-512", 13744, <<200, 140>>, 250, 40, 510,
           {"fp32", "bf16", "int8", "int4"}, {"llama.cpp", "transformers"})>>

IntelDevices ==
  <<Device("gaudi-3-128gb", "intel", "Gaudi 3", 13744, <<3700, 3100>>, 900, 210, 190,
           {"bf16", "fp8", "int8"}, {"vllm", "tgi"})>>

GoogleDevices ==
  <<Device("tpu-v5p-95gb", "google", "Google TPU v5p", 10201, <<4800, 4300>>, 650, 420, 850,
           {"bf16", "fp8", "int8", "int4"}, {"xla", "vllm", "jax", "tgi"}),
    Device("tpu-v5e-16gb", "google", "Google TPU v5e", 1718, <<819, 740>>, 250, 120, 1420,
           {"bf16", "int8", "int4"}, {"xla", "vllm", "jax"}),
    Device("tpu-v6e-32gb", "google", "Google TPU v6e (Trillium)", 3436, <<1600, 1480>>, 400, 250, 320,
           {"bf16", "fp8", "int8", "int4"}, {"xla", "vllm", "jax"})>>

HARDWARE_CATALOG ==
  NvidiaDatacenter \o NvidiaInference \o NvidiaConsumer \o AmdDevices
    \o AppleDevices \o CpuDevices \o IntelDevices \o GoogleDevices
=============================================================================
