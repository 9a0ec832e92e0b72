------------------------------ MODULE Evolution ------------------------------
(***************************************************************************)
(* The champion/challenger engine, the constitution and meta-evolution     *)
(* (crates/temnion-evolution, M31, M37, M38).  A candidate's record is     *)
(* kept by value three times: in the registry, as the incumbent of its     *)
(* domain, and on the stack of prior incumbents.                           *)
(***************************************************************************)
EXTENDS Integers, Sequences, SequencesExt, FiniteSetsExt, TLC, HistoryFilter

CONSTANTS
    Domains,
    Configs,        \* EvolutionConfig: enabled, manual, threshold (percent)
    Metrics,        \* FitnessMetrics: latency, memory, storage, amplification,
                    \* background, and the net score the caller fills in
    IsolationBudgets, CpuLimit, MemoryLimit,
    Yields,         \* historical_candidate_yield of a MutationPolicy
    MaxCandidates, MaxPriors    \* bounds

VARIABLES
    config,
    candidates,     \* sequence of CandidateRecords, by id
    incumbents,     \* domain -> CandidateRecord
    priors,         \* domain -> stack of CandidateRecords
    policies,       \* meta-evolution: yields of the policies, the active one last
    metaEnabled

evolutionVars == <<config, candidates, incumbents, priors, policies, metaEnabled>>

EvolutionInit ==
    /\ config \in Configs
    /\ candidates = <<>> /\ incumbents = <<>>
    /\ priors = [d \in Domains |-> <<>>]
    /\ policies = <<0>>
    /\ metaEnabled = FALSE

(* Constitution::validate_action, for the actions the code proposes.       *)
MayPromote(manual, approver) == manual /\ approver # None
MayEvaluate(budget) ==
    /\ budget.cpu \in 1..CpuLimit
    /\ budget.memory \in 1..MemoryLimit
MayMutatePolicy(gateC) == gateC

(* compute_net_benefit in percent.                                         *)
Gain(mine, baseline) == IF baseline > 0 THEN ((baseline - mine) * 100) \div baseline ELSE 0

NetBenefit(m, baseline) ==
    (35 * Gain(m.latency, baseline.latency) + 25 * Gain(m.memory, baseline.memory)
        + 25 * Gain(m.storage, baseline.storage)
        + 15 * Gain(m.amplification, baseline.amplification)) \div 100
    - 10 * (m.background - baseline.background)

SetConfig(c) ==
    /\ config' = c
    /\ UNCHANGED <<candidates, incumbents, priors, policies, metaEnabled>>

(* register_incumbent replaces an incumbent and leaves it on no stack.     *)
RegisterIncumbent(domain, fitness) ==
    LET record == [id |-> Len(candidates) + 1, domain |-> domain, operator |-> "StaticBaseline",
                   status |-> "Promoted", fitness |-> Some(fitness)]
    IN  /\ Len(candidates) < MaxCandidates
        /\ candidates' = Append(candidates, record)
        /\ incumbents' = Put(incumbents, domain, record)
        /\ UNCHANGED <<config, priors, policies, metaEnabled>>

(* propose_candidate: evolution is enabled and the lineage is not empty.   *)
ProposeCandidate(domain, operator) ==
    /\ config.enabled
    /\ operator # ""
    /\ Len(candidates) < MaxCandidates
    /\ candidates' = Append(candidates, [id |-> Len(candidates) + 1, domain |-> domain,
            operator |-> operator, status |-> "Proposed", fitness |-> None])
    /\ UNCHANGED <<config, incumbents, priors, policies, metaEnabled>>

(* evaluate_candidate: against the incumbent of this moment, whatever the  *)
(* status of the candidate; without an incumbent the caller's score stays. *)
EvaluateCandidate(id, budget, metrics) ==
    LET domain == candidates[id].domain
        net == IF domain \in DOMAIN incumbents
               THEN NetBenefit(metrics, CHOOSE f \in incumbents[domain].fitness : TRUE)
               ELSE metrics.net
    IN  /\ MayEvaluate(budget)
        /\ candidates' = [candidates EXCEPT ![id].status = "Sandboxed",
                              ![id].fitness = Some([metrics EXCEPT !.net = net])]
        /\ UNCHANGED <<config, incumbents, priors, policies, metaEnabled>>

(* Mutant: a candidate without an evaluation has nothing against it.       *)
MeetsThreshold_Unevaluated(record) == \A f \in record.fitness : f.net >= config.threshold

MeetsThreshold(record) == \E f \in record.fitness : f.net >= config.threshold

(* promote_candidate: the score of the last evaluation counts, whenever    *)
(* and against whichever incumbent that was.                               *)
PromoteCandidate(id, approver) ==
    LET record == [candidates[id] EXCEPT !.status = "Promoted"]
        domain == record.domain
    IN  /\ MayPromote(config.manual, approver)
        /\ MeetsThreshold(candidates[id])
        /\ Len(priors[domain]) < MaxPriors
        /\ candidates' = [candidates EXCEPT ![id] = record]
        /\ priors' = [priors EXCEPT ![domain] =
                IF domain \in DOMAIN incumbents THEN Append(@, incumbents[domain]) ELSE @]
        /\ incumbents' = Put(incumbents, domain, record)
        /\ UNCHANGED <<config, policies, metaEnabled>>

(* A score below the threshold: Rejected, and GateCriteriaNotMet.          *)
RejectCandidate(id, approver) ==
    /\ MayPromote(config.manual, approver)
    /\ candidates[id].fitness # None
    /\ ~MeetsThreshold(candidates[id])
    /\ candidates' = [candidates EXCEPT ![id].status = "Rejected"]
    /\ UNCHANGED <<config, incumbents, priors, policies, metaEnabled>>

(* rollback: the registry learns that the incumbent failed, and the record *)
(* on top of the stack is in force again.                                  *)
Rollback(domain) ==
    /\ priors[domain] # <<>>
    /\ candidates' = [candidates EXCEPT ![incumbents[domain].id].status = "RolledBack"]
    /\ incumbents' = [incumbents EXCEPT ![domain] = Last(priors[domain])]
    /\ priors' = [priors EXCEPT ![domain] = Front(@)]
    /\ UNCHANGED <<config, policies, metaEnabled>>

(* MetaEvolutionManager: the off-switch, Gate C, and a better yield.       *)
SetMetaEnabled ==
    /\ metaEnabled' = ~metaEnabled
    /\ UNCHANGED <<config, candidates, incumbents, priors, policies>>

EvolvePolicy(yield, gateC) ==
    /\ metaEnabled
    /\ MayMutatePolicy(gateC)
    /\ yield > Last(policies)
    /\ policies' = Append(policies, yield)
    /\ UNCHANGED <<config, candidates, incumbents, priors, metaEnabled>>

EvolutionNext ==
    \/ \E c \in Configs : SetConfig(c)
    \/ \E domain \in Domains :
          \/ \E fitness \in Metrics : RegisterIncumbent(domain, fitness)
          \/ \E operator \in {"", "mutate"} : ProposeCandidate(domain, operator)
          \/ Rollback(domain)
    \/ \E id \in DOMAIN candidates :
          \/ \E budget \in IsolationBudgets, m \in Metrics : EvaluateCandidate(id, budget, m)
          \/ \E approver \in {None, Some("operator")} :
                PromoteCandidate(id, approver) \/ RejectCandidate(id, approver)
    \/ SetMetaEnabled
    \/ \E yield \in Yields, gateC \in BOOLEAN : EvolvePolicy(yield, gateC)

-----------------------------------------------------------------------------
(* Constitution::audit of the registry and the incumbents.                 *)
AuditPasses ==
    /\ \A c \in Range(candidates) : c.operator # ""
    /\ \A d \in DOMAIN incumbents : incumbents[d].status = "Promoted"

(* Whatever sequence of evaluations, promotions and rollbacks led here,    *)
(* the audit passes, and what is in force (or would be after a rollback)   *)
(* is a registered baseline or a candidate that was evaluated and reached  *)
(* a threshold the engine was configured with.  It need not be better than *)
(* the incumbent it replaced: its score may be against an earlier one.     *)
IncumbentsAreEarned ==
    /\ AuditPasses
    /\ \A d \in Domains : \A r \in Range(priors[d]) \union {incumbents[x] : x \in DOMAIN incumbents \intersect {d}} :
          /\ r.domain = d
          /\ \/ r.operator = "StaticBaseline"
             \/ \E f \in r.fitness, c \in Configs : f.net >= c.threshold
=============================================================================
