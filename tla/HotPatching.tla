----------------------------- MODULE HotPatching -----------------------------
(***************************************************************************)
(* The hot patch engine of @modelforge/reconciler and its route: a Map     *)
(* from patch ids to the last patch applied under that id, each with the   *)
(* token that reverts it, and the audit records the route writes.          *)
(***************************************************************************)
EXTENDS Naturals, FiniteSets

CONSTANTS
  PatchIds,     \* the callers choose them, and may choose one again
  Deployments,
  PatchTypes,   \* the six types, and any other string
  Runtimes,     \* what target_runtime may say
  MaxApplied,   \* bound: patches applied
  NoPatch

ASSUME HotPatchAssumption == MaxApplied \in Nat

VARIABLES
  activePatches, \* [PatchIds -> [deployment, token, reverted] or NoPatch]
  tokens,        \* tokens handed out so far; each is random, hence new
  auditLog       \* {<<event, id, token>>}: execution_started, rollback_completed

patchVars == << activePatches, tokens, auditLog >>

PatchInit ==
  /\ activePatches = [i \in PatchIds |-> NoPatch]
  /\ tokens = 0
  /\ auditLog = {}

LiveRuntimes == {"vllm", "tensorrt-llm", "sglang"}

\* The verdict on a patch.  "fits": what the switch asks of the parameters: a
\* precision the hardware supports (or hardware the registry does not know), a
\* non-empty adapter id, a budget in 1..4096, a known kernel.
ValidPatch(type, runtime, fits) ==
  \/ type = "kv_cache_quantization" /\ fits /\ runtime \in LiveRuntimes \union {"xla"}
  \/ type = "lora_adapter_swap" /\ fits /\ runtime \in LiveRuntimes
  \/ type \in {"concurrency_budget", "kernel_autotuning"} /\ fits
  \/ type \in {"speculative_draft_swap", "prefix_cache_eviction"}

\* what is kept of a patch; the figures it reports depend on its type alone
AppliedPatch(d, token) == [deployment |-> d, token |-> token, reverted |-> FALSE]

\* POST control/hot-patch.  An id in use is overwritten, its token with it.
ApplyHotPatch(id, d, type, runtime, fits) ==
  /\ tokens < MaxApplied
  /\ ValidPatch(type, runtime, fits)
  /\ tokens' = tokens + 1
  /\ activePatches' = [activePatches EXCEPT ![id] = AppliedPatch(d, tokens')]
  /\ auditLog' = auditLog \union {<< "execution_started", id, tokens' >>}

\* mutant: any token reverts what is registered under the id
MayRevertById(id, token) == activePatches[id] # NoPatch

MayRevert(id, token) ==
  /\ activePatches[id] # NoPatch
  /\ ~activePatches[id].reverted
  /\ activePatches[id].token = token

\* POST control/hot-patch with action "revert", with any token given out
RevertHotPatch(id, token) ==
  /\ MayRevert(id, token)
  /\ activePatches' = [activePatches EXCEPT ![id].reverted = TRUE]
  /\ auditLog' = auditLog \union {<< "rollback_completed", id, token >>}
  /\ UNCHANGED tokens

\* GET control/hot-patch
ListActivePatches(d) ==
  {i \in PatchIds : activePatches[i] # NoPatch /\ ~activePatches[i].reverted
                      /\ activePatches[i].deployment = d}

PatchNext ==
  \E id \in PatchIds :
    \/ \E d \in Deployments, t \in PatchTypes, r \in Runtimes, fits \in BOOLEAN :
         ApplyHotPatch(id, d, t, r, fits)
    \/ \E token \in 1..tokens : RevertHotPatch(id, token)

PatchSpec == PatchInit /\ [][PatchNext]_patchVars

-----------------------------------------------------------------------------
(* Properties                                                              *)

Started(id, token)    == << "execution_started", id, token >> \in auditLog
RolledBack(id, token) == << "rollback_completed", id, token >> \in auditLog

\* The audit log and the registry agree about every patch ever applied: a
\* rollback is recorded for the patch its token was given out for, and a
\* deployment's list shows an id exactly when the last patch under it has no
\* rollback on record (applyHotPatch, revertHotPatch, listActivePatches).
RollbacksAreOwn ==
  /\ \A id \in PatchIds, t \in 1..tokens : RolledBack(id, t) => Started(id, t)
  /\ \A id \in PatchIds : activePatches[id] # NoPatch =>
       (id \in ListActivePatches(activePatches[id].deployment)
          <=> ~RolledBack(id, activePatches[id].token))
=============================================================================
