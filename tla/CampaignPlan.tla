---------------------------- MODULE CampaignPlan ----------------------------
(* buildCampaignPlan of packages/campaign/src/index.mjs: the matrix of slots  *)
(* a campaign has to fill. A slot's sealed hashes, roles and build target are *)
(* functions of its task and host, so the record of the five coordinates      *)
(* stands for the slot, and for its slotId: the coordinates joined by "::",   *)
(* which none of them contains.                                               *)
EXTENDS Integers, FiniteSets

CONSTANTS TaskIds, Hosts, Harnesses, Seeds, RepeatRuns,
          RequiredEvidence    \* the evidence roles of each task's manifest

ASSUME PlanAssumption ==
    /\ RepeatRuns \in Nat \ {0}
    /\ \A t \in TaskIds : RequiredEvidence[t] # {}

Matrix(tasks) == [task : tasks, host : Hosts, harness : Harnesses, seed : Seeds,
                  repetition : 1 .. RepeatRuns]

Slots == Matrix(TaskIds)

\* groupBy of aggregateCampaign and of enforceEvaluatorFairness.
SeedGroup(s) == <<s.task, s.host, s.harness, s.seed>>
FairnessGroup(s) == <<s.task, s.host, s.seed, s.repetition>>
SoakPair(s) == <<s.host, s.harness>>
=============================================================================
