---------------------------- MODULE ServiceProofs ----------------------------
(***************************************************************************)
(* What runs around a store, component by component, for any bounds:       *)
(* evolution keeps in force what has earned it, beliefs follow a           *)
(* retraction wherever it reaches, the fanout over the shards has one      *)
(* answer, an access makes room in the storage tiers, and a client's calls *)
(* are answered by the packets sent for them.  In Services each of these   *)
(* components takes its own steps or stands still, so that its behaviours  *)
(* are the ones of the specifications below.                               *)
(***************************************************************************)
EXTENDS Beliefs, Evolution, Shards, Tiers, Connector,
        FiniteSetTheorems, SequenceTheorems, WellFoundedInduction, TLAPS

-----------------------------------------------------------------------------
(* Evolution.                                                              *)

EvolutionSpec == EvolutionInit /\ [][EvolutionNext]_evolutionVars

IsSeq(s) == s \in Seq(Range(s))

LEMMA SeqFacts ==
    ASSUME NEW s, IsSeq(s)
    PROVE  Len(s) \in Nat /\ DOMAIN s = 1..Len(s)
BY DEF IsSeq

LEMMA SeqFromDomain ==
    ASSUME NEW s, NEW S, s \in Seq(S)
    PROVE  IsSeq(s)
<1>1. Len(s) \in Nat /\ DOMAIN s = 1..Len(s) /\ \A i \in 1..Len(s) : s[i] \in Range(s)
  BY DEF Range
<1>2. s \in [1..Len(s) -> Range(s)]
  BY <1>1
<1> QED
  BY <1>1, <1>2 DEF IsSeq

LEMMA AppendFacts ==
    ASSUME NEW s, IsSeq(s), NEW e
    PROVE  /\ IsSeq(Append(s, e))
           /\ Len(Append(s, e)) = Len(s) + 1
           /\ \A i \in 1..Len(s) : Append(s, e)[i] = s[i]
           /\ Append(s, e)[Len(s) + 1] = e
<1> DEFINE S == Range(s) \union {e}
<1>1. s \in Seq(S) /\ e \in S
  BY DEF IsSeq
<1> HIDE DEF S
<1>2. /\ Append(s, e) \in Seq(S)
      /\ Len(Append(s, e)) = Len(s) + 1
      /\ \A i \in 1..Len(s) : Append(s, e)[i] = s[i]
      /\ Append(s, e)[Len(s) + 1] = e
  BY <1>1, AppendProperties
<1>3. IsSeq(Append(s, e))
  BY <1>2, SeqFromDomain
<1> QED
  BY <1>2, <1>3

IsUpdate(s, k, e, t) == IsSeq(s) /\ t = [s EXCEPT ![k] = e]

Updated(s, k, e, t) ==
    /\ IsSeq(t)
    /\ Len(t) = Len(s)
    /\ \A i \in 1..Len(s) : i # k => t[i] = s[i]
    /\ k \in 1..Len(s) => t[k] = e

LEMMA UpdateFacts ==
    ASSUME NEW s, NEW k, NEW e, NEW t, IsUpdate(s, k, e, t)
    PROVE  Updated(s, k, e, t)
<1> DEFINE S == Range(s) \union {e}
<1>1. s \in Seq(S) /\ e \in S /\ Len(s) \in Nat /\ DOMAIN s = 1..Len(s)
  BY SeqFacts DEF IsSeq, IsUpdate
<1> HIDE DEF S
<1>3. DOMAIN t = 1..Len(s) /\ \A i \in 1..Len(s) : t[i] = IF i = k THEN e ELSE s[i]
  BY <1>1 DEF IsUpdate
<1>4. t \in [1..Len(s) -> S]
  <2>1. \A i \in 1..Len(s) : s[i] \in S
    BY <1>1
  <2> QED
    BY <1>1, <2>1 DEF IsUpdate
<1>5. t \in Seq(S) /\ Len(t) = Len(s)
  BY <1>1, <1>3, <1>4
<1>6. IsSeq(t)
  BY <1>5, SeqFromDomain
<1> QED
  BY <1>3, <1>5, <1>6 DEF Updated

LEMMA FrontFacts ==
    ASSUME NEW s, IsSeq(s), s # <<>>
    PROVE  /\ IsSeq(Front(s))
           /\ Len(s) \in 1..Len(s)
           /\ Len(Front(s)) = Len(s) - 1
           /\ \A i \in 1..Len(s) - 1 : Front(s)[i] = s[i]
<1>1. Len(s) \in Nat /\ DOMAIN s = 1..Len(s) /\ s \in Seq(Range(s)) /\ Len(s) # 0
  BY SeqFacts, EmptySeq DEF IsSeq
<1>2. \A i \in 1..Len(s) - 1 : s[i] \in Range(s)
  BY <1>1
<1>3. PICK n : n = Len(s) - 1
  OBVIOUS
<1>4. n \in Nat /\ 1 \in Int /\ n \in Int
  BY <1>1, <1>3
<1>5. PICK t : t = SubSeq(s, 1, n)
  OBVIOUS
<1>6. /\ t \in Seq(Range(s))
      /\ Len(t) = IF 1 <= n THEN n - 1 + 1 ELSE 0
      /\ \A i \in 1..n - 1 + 1 : t[i] = s[1 + i - 1]
  BY <1>2, <1>3, <1>4, <1>5, SubSeqProperties
<1>7. Len(t) = n /\ n - 1 + 1 = n /\ \A i \in 1..n : 1 + i - 1 = i
  BY <1>4, <1>6
<1>8. \A i \in 1..n : t[i] = s[i]
  BY <1>6, <1>7
<1>9. Front(s) = t
  BY <1>3, <1>5 DEF Front
<1>10. IsSeq(t)
  BY <1>6, SeqFromDomain
<1>11. Len(s) \in 1..Len(s)
  BY <1>1
<1>12. Len(t) = Len(s) - 1 /\ \A i \in 1..Len(s) - 1 : t[i] = s[i]
  BY <1>3, <1>7, <1>8
<1> QED
  BY <1>9, <1>10, <1>11, <1>12

CandidateFields == {"id", "domain", "operator", "status", "fitness"}

Earned(r, d) ==
    /\ r.domain = d
    /\ \/ r.operator = "StaticBaseline"
       \/ \E f \in r.fitness, c \in Configs : f.net >= c.threshold

(* What may be in force: earned, and promoted.                             *)
InForce(r, d) == Earned(r, d) /\ r.status = "Promoted"

(* The copies of a record, in the registry, in force and on the stack, are *)
(* each what they were when they were put there.                           *)
EvolutionInv ==
    /\ config \in Configs
    /\ IsSeq(candidates)
    /\ \A i \in 1..Len(candidates) :
          /\ DOMAIN candidates[i] = CandidateFields
          /\ candidates[i].operator # ""
          /\ candidates[i].domain \in Domains
    /\ DOMAIN incumbents \subseteq Domains
    /\ \A d \in DOMAIN incumbents : InForce(incumbents[d], d)
    /\ DOMAIN priors = Domains
    /\ \A d \in Domains : IsSeq(priors[d]) /\ \A i \in 1..Len(priors[d]) : InForce(priors[d][i], d)

LEMMA EvolutionInitInv == EvolutionInit => EvolutionInv
<1> SUFFICES ASSUME EvolutionInit PROVE EvolutionInv
  OBVIOUS
<1>1. /\ config \in Configs /\ candidates = <<>> /\ incumbents = <<>>
      /\ priors = [d \in Domains |-> <<>>]
  BY DEF EvolutionInit
<1>2. IsSeq(<<>>) /\ Len(<<>>) = 0 /\ DOMAIN <<>> = {}
  BY DEF IsSeq
<1> QED
  BY <1>1, <1>2 DEF EvolutionInv

(* Steps that only add to or change the registry.                          *)
LEMMA RegistryStep ==
    ASSUME EvolutionInv, UNCHANGED <<incumbents, priors>>, config' \in Configs,
           IsSeq(candidates'),
           \A i \in 1..Len(candidates') :
              /\ DOMAIN candidates'[i] = CandidateFields
              /\ candidates'[i].operator # ""
              /\ candidates'[i].domain \in Domains
    PROVE  EvolutionInv'
BY DEF EvolutionInv

LEMMA LastOfInterval ==
    ASSUME NEW n \in Nat, NEW i \in 1..n + 1
    PROVE  i \in 1..n \/ i = n + 1
OBVIOUS

LEMMA RegisteredAppend ==
    ASSUME EvolutionInv, NEW r, candidates' = Append(candidates, r),
           DOMAIN r = CandidateFields, r.operator # "", r.domain \in Domains
    PROVE  /\ IsSeq(candidates')
           /\ \A i \in 1..Len(candidates') :
                 /\ DOMAIN candidates'[i] = CandidateFields
                 /\ candidates'[i].operator # ""
                 /\ candidates'[i].domain \in Domains
<1>1. IsSeq(candidates) /\ Len(candidates) \in Nat
  BY SeqFacts DEF EvolutionInv
<1>2. /\ IsSeq(candidates') /\ Len(candidates') = Len(candidates) + 1
      /\ \A i \in 1..Len(candidates) : candidates'[i] = candidates[i]
      /\ candidates'[Len(candidates) + 1] = r
  BY <1>1, AppendFacts
<1>3. ASSUME NEW i \in 1..Len(candidates') PROVE i \in 1..Len(candidates) \/ i = Len(candidates) + 1
  <2>1. PICK n : n = Len(candidates)
    OBVIOUS
  <2>2. n \in Nat /\ i \in 1..n + 1
    BY <1>1, <1>2, <2>1
  <2>3. i \in 1..n \/ i = n + 1
    BY <2>2, LastOfInterval
  <2> QED
    BY <2>1, <2>3
<1> QED
  BY <1>2, <1>3 DEF EvolutionInv

LEMMA RegisteredUpdate ==
    ASSUME EvolutionInv, NEW k, NEW r, candidates' = [candidates EXCEPT ![k] = r],
           k \in 1..Len(candidates) =>
              DOMAIN r = CandidateFields /\ r.operator # "" /\ r.domain \in Domains
    PROVE  /\ IsSeq(candidates')
           /\ \A i \in 1..Len(candidates') :
                 /\ DOMAIN candidates'[i] = CandidateFields
                 /\ candidates'[i].operator # ""
                 /\ candidates'[i].domain \in Domains
<1>1. IsSeq(candidates)
  BY DEF EvolutionInv
<1>2. /\ IsSeq(candidates') /\ Len(candidates') = Len(candidates)
      /\ \A i \in 1..Len(candidates) : i # k => candidates'[i] = candidates[i]
      /\ k \in 1..Len(candidates) => candidates'[k] = r
  <2>1. PICK s, t : s = candidates /\ t = candidates'
    OBVIOUS
  <2>2. IsUpdate(s, k, r, t)
    BY <1>1, <2>1 DEF IsUpdate
  <2>3. Updated(s, k, r, t)
    BY <2>2, UpdateFacts
  <2> QED
    BY <2>1, <2>3 DEF Updated
<1> QED
  BY <1>2 DEF EvolutionInv

LEMMA RegisterIncumbentInv ==
    ASSUME EvolutionInv, NEW domain \in Domains, NEW fitness, RegisterIncumbent(domain, fitness)
    PROVE  EvolutionInv'
<1>1. PICK r : r = [id |-> Len(candidates) + 1, domain |-> domain, operator |-> "StaticBaseline",
                    status |-> "Promoted", fitness |-> Some(fitness)]
  OBVIOUS
<1>2. /\ candidates' = Append(candidates, r)
      /\ incumbents' = Put(incumbents, domain, r)
      /\ UNCHANGED <<config, priors>>
  BY <1>1 DEF RegisterIncumbent
<1>3. /\ DOMAIN r = CandidateFields /\ r.operator # "" /\ r.domain \in Domains
      /\ InForce(r, domain)
  BY <1>1 DEF CandidateFields, InForce, Earned
<1>4. /\ IsSeq(candidates')
      /\ \A i \in 1..Len(candidates') :
            /\ DOMAIN candidates'[i] = CandidateFields
            /\ candidates'[i].operator # ""
            /\ candidates'[i].domain \in Domains
  BY <1>2, <1>3, RegisteredAppend
<1>5. /\ DOMAIN incumbents' = DOMAIN incumbents \union {domain}
      /\ \A d \in DOMAIN incumbents' : incumbents'[d] = IF d = domain THEN r ELSE incumbents[d]
  BY <1>2 DEF Put
<1>6. \A d \in DOMAIN incumbents' : InForce(incumbents'[d], d)
  BY <1>3, <1>5 DEF EvolutionInv
<1> QED
  BY <1>2, <1>4, <1>5, <1>6 DEF EvolutionInv

LEMMA PromoteCandidateInv ==
    ASSUME EvolutionInv, NEW k \in DOMAIN candidates, NEW approver, PromoteCandidate(k, approver)
    PROVE  EvolutionInv'
<1>0. k \in 1..Len(candidates)
  BY SeqFacts DEF EvolutionInv
<1>1. PICK r : r = [candidates[k] EXCEPT !.status = "Promoted"]
  OBVIOUS
<1>2. /\ DOMAIN candidates[k] = CandidateFields
      /\ candidates[k].operator # "" /\ candidates[k].domain \in Domains
  BY <1>0 DEF EvolutionInv
<1>3. /\ DOMAIN r = CandidateFields /\ r.status = "Promoted" /\ r.operator = candidates[k].operator
      /\ r.domain = candidates[k].domain /\ r.fitness = candidates[k].fitness
  BY <1>1, <1>2 DEF CandidateFields
<1>4. PICK domain : domain = r.domain
  OBVIOUS
<1>5. /\ MeetsThreshold(candidates[k])
      /\ candidates' = [candidates EXCEPT ![k] = r]
      /\ priors' = [priors EXCEPT ![domain] =
             IF domain \in DOMAIN incumbents THEN Append(priors[domain], incumbents[domain])
             ELSE priors[domain]]
      /\ incumbents' = Put(incumbents, domain, r)
      /\ UNCHANGED config
  BY <1>1, <1>4 DEF PromoteCandidate
<1>6. domain \in Domains /\ InForce(r, domain)
  <2>1. \E f \in r.fitness, c \in Configs : f.net >= c.threshold
    BY <1>3, <1>5 DEF MeetsThreshold, EvolutionInv
  <2> QED
    BY <1>2, <1>3, <1>4, <2>1 DEF InForce, Earned
<1>7. /\ IsSeq(candidates')
      /\ \A i \in 1..Len(candidates') :
            /\ DOMAIN candidates'[i] = CandidateFields
            /\ candidates'[i].operator # ""
            /\ candidates'[i].domain \in Domains
  BY <1>2, <1>3, <1>5, RegisteredUpdate
<1>8. /\ DOMAIN incumbents' = DOMAIN incumbents \union {domain}
      /\ \A d \in DOMAIN incumbents' : incumbents'[d] = IF d = domain THEN r ELSE incumbents[d]
  BY <1>5 DEF Put
<1>9. \A d \in DOMAIN incumbents' : InForce(incumbents'[d], d)
  BY <1>6, <1>8 DEF EvolutionInv
<1>10. /\ DOMAIN priors = Domains
       /\ \A d \in Domains : IsSeq(priors[d]) /\ \A i \in 1..Len(priors[d]) : InForce(priors[d][i], d)
  BY DEF EvolutionInv
<1>11. PICK stack : stack = IF domain \in DOMAIN incumbents
                            THEN Append(priors[domain], incumbents[domain]) ELSE priors[domain]
  OBVIOUS
<1>12. IsSeq(stack) /\ \A i \in 1..Len(stack) : InForce(stack[i], domain)
  <2>1. CASE domain \in DOMAIN incumbents
    <3>1. PICK s, e : s = priors[domain] /\ e = incumbents[domain]
      OBVIOUS
    <3>2. stack = Append(s, e) /\ IsSeq(s) /\ Len(s) \in Nat
      BY <1>6, <1>10, <1>11, <2>1, <3>1, SeqFacts
    <3>3. /\ IsSeq(stack) /\ Len(stack) = Len(s) + 1
          /\ \A i \in 1..Len(s) : stack[i] = s[i]
          /\ stack[Len(s) + 1] = e
      BY <3>2, AppendFacts
    <3>4. InForce(e, domain) /\ \A i \in 1..Len(s) : InForce(s[i], domain)
      BY <1>6, <1>10, <2>1, <3>1 DEF EvolutionInv
    <3>5. \A i \in 1..Len(stack) : i \in 1..Len(s) \/ i = Len(s) + 1
      BY <3>2, <3>3
    <3> QED
      BY <3>3, <3>4, <3>5
  <2>2. CASE domain \notin DOMAIN incumbents
    BY <1>6, <1>10, <1>11, <2>2
  <2> QED
    BY <2>1, <2>2
<1>13. /\ DOMAIN priors' = Domains
       /\ \A d \in Domains : priors'[d] = IF d = domain THEN stack ELSE priors[d]
  BY <1>5, <1>10, <1>11
<1>14. \A d \in Domains : IsSeq(priors'[d]) /\ \A i \in 1..Len(priors'[d]) : InForce(priors'[d][i], d)
  BY <1>10, <1>12, <1>13
<1>15. config' \in Configs /\ DOMAIN incumbents' \subseteq Domains
  BY <1>5, <1>6, <1>8 DEF EvolutionInv
<1> QED
  BY <1>7, <1>9, <1>13, <1>14, <1>15 DEF EvolutionInv

LEMMA RollbackInv ==
    ASSUME EvolutionInv, NEW domain \in Domains, Rollback(domain)
    PROVE  EvolutionInv'
<1>1. PICK k, top, rest : /\ k = incumbents[domain].id /\ top = Last(priors[domain])
                          /\ rest = Front(priors[domain])
  OBVIOUS
<1>2. /\ priors[domain] # <<>>
      /\ candidates' = [candidates EXCEPT ![k] = [candidates[k] EXCEPT !.status = "RolledBack"]]
      /\ incumbents' = [incumbents EXCEPT ![domain] = top]
      /\ priors' = [priors EXCEPT ![domain] = rest]
      /\ UNCHANGED config
  BY <1>1 DEF Rollback
<1>3. PICK r : r = [candidates[k] EXCEPT !.status = "RolledBack"]
  OBVIOUS
<1>4. k \in 1..Len(candidates) =>
         DOMAIN r = CandidateFields /\ r.operator # "" /\ r.domain \in Domains
  BY <1>3 DEF EvolutionInv, CandidateFields
<1>5. /\ IsSeq(candidates')
      /\ \A i \in 1..Len(candidates') :
            /\ DOMAIN candidates'[i] = CandidateFields
            /\ candidates'[i].operator # ""
            /\ candidates'[i].domain \in Domains
  BY <1>2, <1>3, <1>4, RegisteredUpdate
<1>6. /\ DOMAIN priors = Domains
      /\ \A d \in Domains : IsSeq(priors[d]) /\ \A i \in 1..Len(priors[d]) : InForce(priors[d][i], d)
  BY DEF EvolutionInv
<1>7. PICK s : s = priors[domain]
  OBVIOUS
<1>8. IsSeq(s) /\ s # <<>> /\ Len(s) \in Nat /\ rest = Front(s) /\ top = s[Len(s)]
  BY <1>1, <1>2, <1>6, <1>7, SeqFacts DEF Last
<1>9. /\ IsSeq(rest) /\ Len(s) \in 1..Len(s) /\ Len(rest) = Len(s) - 1
      /\ \A i \in 1..Len(s) - 1 : rest[i] = s[i]
  BY <1>8, FrontFacts
<1>10. InForce(top, domain) /\ \A i \in 1..Len(rest) : InForce(rest[i], domain)
  <2>1. \A i \in 1..Len(s) : InForce(s[i], domain)
    BY <1>6, <1>7
  <2>2. \A i \in 1..Len(rest) : i \in 1..Len(s) /\ rest[i] = s[i]
    BY <1>8, <1>9
  <2> QED
    BY <1>8, <1>9, <2>1, <2>2
<1>11. /\ DOMAIN priors' = Domains
       /\ \A d \in Domains : priors'[d] = IF d = domain THEN rest ELSE priors[d]
  BY <1>2, <1>6
<1>12. \A d \in Domains : IsSeq(priors'[d]) /\ \A i \in 1..Len(priors'[d]) : InForce(priors'[d][i], d)
  BY <1>6, <1>9, <1>10, <1>11
<1>13. /\ DOMAIN incumbents' = DOMAIN incumbents
       /\ \A d \in DOMAIN incumbents : incumbents'[d] = IF d = domain THEN top ELSE incumbents[d]
  BY <1>2
<1>14. \A d \in DOMAIN incumbents' : InForce(incumbents'[d], d)
  BY <1>10, <1>13 DEF EvolutionInv
<1>15. config' \in Configs /\ DOMAIN incumbents' \subseteq Domains
  BY <1>2, <1>13 DEF EvolutionInv
<1> QED
  BY <1>5, <1>11, <1>12, <1>14, <1>15 DEF EvolutionInv

LEMMA EvolutionNextInv ==
    ASSUME EvolutionInv, [EvolutionNext]_evolutionVars
    PROVE  EvolutionInv'
<1>0. config \in Configs
  BY DEF EvolutionInv
<1>1. ASSUME NEW c \in Configs, SetConfig(c) PROVE EvolutionInv'
  BY <1>1 DEF SetConfig, EvolutionInv
<1>2. ASSUME NEW domain \in Domains, NEW operator, ProposeCandidate(domain, operator)
      PROVE  EvolutionInv'
  <2>1. PICK r : r = [id |-> Len(candidates) + 1, domain |-> domain,
                      operator |-> operator, status |-> "Proposed", fitness |-> None]
    OBVIOUS
  <2>2. /\ candidates' = Append(candidates, r) /\ operator # ""
        /\ UNCHANGED <<config, incumbents, priors>>
    BY <1>2, <2>1 DEF ProposeCandidate
  <2>3. DOMAIN r = CandidateFields /\ r.operator # "" /\ r.domain \in Domains
    BY <2>1, <2>2 DEF CandidateFields
  <2>4. /\ IsSeq(candidates')
        /\ \A i \in 1..Len(candidates') :
              /\ DOMAIN candidates'[i] = CandidateFields
              /\ candidates'[i].operator # ""
              /\ candidates'[i].domain \in Domains
    BY <2>2, <2>3, RegisteredAppend
  <2> QED
    BY <1>0, <2>2, <2>4, RegistryStep
<1>3. ASSUME NEW k \in DOMAIN candidates, NEW r, candidates' = [candidates EXCEPT ![k] = r],
             UNCHANGED <<config, incumbents, priors>>,
             DOMAIN r = DOMAIN candidates[k], r.operator = candidates[k].operator,
             r.domain = candidates[k].domain
      PROVE  EvolutionInv'
  <2>1. k \in 1..Len(candidates)
    BY SeqFacts DEF EvolutionInv
  <2>2. DOMAIN r = CandidateFields /\ r.operator # "" /\ r.domain \in Domains
    BY <1>3, <2>1 DEF EvolutionInv
  <2>3. /\ IsSeq(candidates')
        /\ \A i \in 1..Len(candidates') :
              /\ DOMAIN candidates'[i] = CandidateFields
              /\ candidates'[i].operator # ""
              /\ candidates'[i].domain \in Domains
    BY <1>3, <2>2, RegisteredUpdate
  <2> QED
    BY <1>0, <1>3, <2>3, RegistryStep
<1>4. ASSUME NEW k \in DOMAIN candidates, NEW budget, NEW metrics, EvaluateCandidate(k, budget, metrics)
      PROVE  EvolutionInv'
  <2>1. PICK fitness : /\ candidates' = [candidates EXCEPT ![k].status = "Sandboxed", ![k].fitness = fitness]
                       /\ UNCHANGED <<config, incumbents, priors>>
    BY <1>4 DEF EvaluateCandidate
  <2>2. PICK r : r = [[candidates[k] EXCEPT !.status = "Sandboxed"] EXCEPT !.fitness = fitness]
    OBVIOUS
  <2>3. candidates' = [candidates EXCEPT ![k] = r]
    BY <2>1, <2>2
  <2>4. DOMAIN r = DOMAIN candidates[k] /\ r.operator = candidates[k].operator /\ r.domain = candidates[k].domain
    BY <2>2
  <2> QED
    BY <1>3, <2>1, <2>3, <2>4
<1>5. ASSUME NEW k \in DOMAIN candidates, NEW approver, RejectCandidate(k, approver)
      PROVE  EvolutionInv'
  <2>1. PICK r : r = [candidates[k] EXCEPT !.status = "Rejected"]
    OBVIOUS
  <2>2. candidates' = [candidates EXCEPT ![k] = r] /\ UNCHANGED <<config, incumbents, priors>>
    BY <1>5, <2>1 DEF RejectCandidate
  <2>3. DOMAIN r = DOMAIN candidates[k] /\ r.operator = candidates[k].operator /\ r.domain = candidates[k].domain
    BY <2>1
  <2> QED
    BY <1>3, <2>2, <2>3
<1>6. ASSUME UNCHANGED <<config, candidates, incumbents, priors>> PROVE EvolutionInv'
  BY <1>6 DEF EvolutionInv
<1>7. CASE UNCHANGED evolutionVars
  BY <1>6, <1>7 DEF evolutionVars
<1>8. CASE SetMetaEnabled \/ \E yield, gateC : EvolvePolicy(yield, gateC)
  BY <1>6, <1>8 DEF SetMetaEnabled, EvolvePolicy
<1>9. ASSUME NEW domain \in Domains, NEW fitness, RegisterIncumbent(domain, fitness) PROVE EvolutionInv'
  BY <1>9, RegisterIncumbentInv
<1>10. ASSUME NEW domain \in Domains, Rollback(domain) PROVE EvolutionInv'
  BY <1>10, RollbackInv
<1>11. ASSUME NEW k \in DOMAIN candidates, NEW approver, PromoteCandidate(k, approver) PROVE EvolutionInv'
  BY <1>11, PromoteCandidateInv
<1> QED
  BY <1>1, <1>2, <1>4, <1>5, <1>7, <1>8, <1>9, <1>10, <1>11 DEF EvolutionNext

(* What is in force, and what a rollback would put in force again, has     *)
(* earned it, and the audit passes (promote_candidate, rollback, audit).   *)
THEOREM EvolutionIncumbentsAreEarned == EvolutionSpec => []IncumbentsAreEarned
<1>1. EvolutionInv => IncumbentsAreEarned
  <2> SUFFICES ASSUME EvolutionInv PROVE IncumbentsAreEarned
    OBVIOUS
  <2>1. AuditPasses
    <3>1. DOMAIN candidates = 1..Len(candidates)
      BY SeqFacts DEF EvolutionInv
    <3> QED
      BY <3>1 DEF AuditPasses, EvolutionInv, InForce, Range
  <2>2. ASSUME NEW d \in Domains,
               NEW r \in Range(priors[d]) \union {incumbents[x] : x \in DOMAIN incumbents \intersect {d}}
        PROVE  Earned(r, d)
    <3>1. CASE r \in Range(priors[d])
      <4>1. DOMAIN priors[d] = 1..Len(priors[d])
        BY SeqFacts DEF EvolutionInv
      <4> QED
        BY <3>1, <4>1 DEF EvolutionInv, InForce, Range
    <3>2. CASE r \in {incumbents[x] : x \in DOMAIN incumbents \intersect {d}}
      BY <3>2 DEF EvolutionInv, InForce
    <3> QED
      BY <3>1, <3>2
  <2> QED
    BY <2>1, <2>2 DEF IncumbentsAreEarned, Earned
<1> QED
  BY <1>1, EvolutionInitInv, EvolutionNextInv, PTL DEF EvolutionSpec
-----------------------------------------------------------------------------
(* Beliefs.                                                                *)

BeliefsSpec == BeliefsInit /\ [][BeliefsNext]_beliefVars

LEMMA LeastNatural ==
    ASSUME NEW S \in SUBSET Nat, S # {}
    PROVE  \E x \in S : \A y \in S : x <= y
<1>1. PICK x \in S : \A y \in S : ~(<<y, x>> \in OpToRel(<, Nat))
  BY NatLessThanWellFounded, WFMin, Zenon
<1>2. \A y \in S : ~(y < x)
  BY <1>1 DEF OpToRel
<1> QED
  BY <1>2

LEMMA NaturalSet ==
    ASSUME NEW T, 0 \in T, \A n \in Nat : n \in T => n + 1 \in T
    PROVE  \A n \in Nat : n \in T
<1>1. SUFFICES ASSUME Nat \ T # {} PROVE FALSE
  OBVIOUS
<1>2. PICK x \in Nat \ T : \A y \in Nat \ T : x <= y
  BY <1>1, LeastNatural
<1>3. x # 0 /\ x - 1 \in Nat /\ x - 1 \in T
  BY <1>2
<1> QED
  BY <1>2, <1>3

(* Reached as a function of the length of the chains.                      *)
Onward(edges, ids) == ids \union {b \in DOMAIN beliefs : \E a \in ids : <<a, b>> \in edges}

WithinStep(id, edges, n, f) == IF n = 0 THEN {id} ELSE Onward(edges, f[n - 1])

IsWithin(id, edges, m, f) == f = [n \in 0..m |-> WithinStep(id, edges, n, f)]

LEMMA WithinExists ==
    ASSUME NEW id, NEW edges, NEW m \in Nat
    PROVE  \E f : IsWithin(id, edges, m, f)
<1> DEFINE T == {n \in Nat : \E f : IsWithin(id, edges, n, f)}
<1>1. 0 \in T
  <2>1. PICK f : f = [n \in 0..0 |-> {id}]
    OBVIOUS
  <2>2. \A n \in 0..0 : WithinStep(id, edges, n, f) = {id}
    BY DEF WithinStep
  <2>3. IsWithin(id, edges, 0, f)
    BY <2>1, <2>2 DEF IsWithin
  <2> QED
    BY <2>3
<1>2. ASSUME NEW n \in Nat, n \in T PROVE n + 1 \in T
  <2>1. PICK w : IsWithin(id, edges, n, w)
    BY <1>2
  <2>2. PICK v : v = [i \in 0..n + 1 |-> WithinStep(id, edges, i, w)]
    OBVIOUS
  <2>3. ASSUME NEW i \in 0..n PROVE v[i] = w[i]
    BY <2>1, <2>2 DEF IsWithin
  <2>4. ASSUME NEW i \in 0..n + 1
        PROVE  WithinStep(id, edges, i, w) = WithinStep(id, edges, i, v)
    <3>1. i # 0 => v[i - 1] = w[i - 1]
      BY <2>3
    <3> QED
      BY <3>1 DEF WithinStep
  <2>5. [i \in 0..n + 1 |-> WithinStep(id, edges, i, w)]
          = [i \in 0..n + 1 |-> WithinStep(id, edges, i, v)]
    BY <2>4, Zenon
  <2>6. IsWithin(id, edges, n + 1, v)
    BY <2>2, <2>5 DEF IsWithin
  <2> QED
    BY <2>6
<1> HIDE DEF T
<1>3. m \in T
  BY <1>1, <1>2, NaturalSet
<1> QED
  BY <1>3 DEF T

WithinOf(id, edges) == CHOOSE f : IsWithin(id, edges, MaxKnowledge, f)

LEMMA ReachedIsWithin ==
    ASSUME NEW id, NEW edges
    PROVE  /\ IsWithin(id, edges, MaxKnowledge, WithinOf(id, edges))
           /\ Reached(id, edges) = WithinOf(id, edges)[Cardinality(Known)]
<1>1. \E f : IsWithin(id, edges, MaxKnowledge, f)
  BY WithinExists, BeliefsAssumption
<1>2. IsWithin(id, edges, MaxKnowledge, WithinOf(id, edges))
  BY <1>1 DEF WithinOf
<1>3. Reached(id, edges) = WithinOf(id, edges)[Cardinality(Known)]
  BY DEF Reached, IsWithin, WithinStep, Onward, WithinOf
<1> QED
  BY <1>2, <1>3

LEMMA WithinSteps ==
    ASSUME NEW id, NEW edges, NEW f, IsWithin(id, edges, MaxKnowledge, f)
    PROVE  /\ f[0] = {id}
           /\ \A n \in Nat : n + 1 \in 0..MaxKnowledge =>
                 f[n + 1] = Onward(edges, f[n])
<1>1. /\ MaxKnowledge \in Nat
      /\ \A n \in 0..MaxKnowledge : f[n] = WithinStep(id, edges, n, f)
  BY BeliefsAssumption DEF IsWithin
<1>2. f[0] = {id}
  <2>1. f[0] = WithinStep(id, edges, 0, f)
    BY <1>1
  <2> QED
    BY <2>1 DEF WithinStep
<1>3. ASSUME NEW n \in Nat, n + 1 \in 0..MaxKnowledge
      PROVE  f[n + 1] = Onward(edges, f[n])
  <2>1. f[n + 1] = WithinStep(id, edges, n + 1, f) /\ n + 1 # 0 /\ n + 1 - 1 = n
    BY <1>1, <1>3
  <2> QED
    BY <2>1 DEF WithinStep
<1> QED
  BY <1>2, <1>3

(* Ids are given out in order, and a premise is an id given out before.    *)
IdsInv ==
    /\ Cardinality(Known) \in 0..MaxKnowledge
    /\ Known = 1..Cardinality(Known)
    /\ \A b \in DOMAIN beliefs : beliefs[b].premises \subseteq 1..b - 1

(* Sets of beliefs that hold with each belief those it rests on.           *)
HoldsPremises(S) ==
    /\ S \in SUBSET DOMAIN beliefs
    /\ \A b \in S : beliefs[b].premises \intersect DOMAIN beliefs \subseteq S

(* That x is in the tree of b, without counting steps.                     *)
Traces(b, x) == \A S \in SUBSET DOMAIN beliefs : b \in S /\ HoldsPremises(S) => x \in S

LEMMA WithinTree ==
    ASSUME NEW b \in DOMAIN beliefs, NEW x \in Why(b), IdsInv
    PROVE  Traces(b, x)
<1> SUFFICES ASSUME NEW S \in SUBSET DOMAIN beliefs, b \in S, HoldsPremises(S)
             PROVE  x \in S
  BY DEF Traces
<1> DEFINE edges == {<<e[2], e[1]>> : e \in Rests}
<1>1. PICK f, m : f = WithinOf(b, edges) /\ m = Cardinality(Known)
  OBVIOUS
<1>2. /\ IsWithin(b, edges, MaxKnowledge, f) /\ Why(b) = f[m] /\ m \in 0..MaxKnowledge
  BY <1>1, ReachedIsWithin DEF Why, IdsInv
<1>3. /\ MaxKnowledge \in Nat
      /\ \A n \in 0..MaxKnowledge : f[n] = WithinStep(b, edges, n, f)
  BY <1>2, BeliefsAssumption DEF IsWithin
<1>4. \A a, c : <<a, c>> \in edges => a \in DOMAIN beliefs /\ c \in DOMAIN beliefs /\ c \in beliefs[a].premises
  BY DEF Rests
<1> HIDE DEF edges
<1> DEFINE T == {n \in Nat : n \in 0..MaxKnowledge => f[n] \subseteq S}
<1>5. 0 \in T
  BY <1>3 DEF WithinStep
<1>6. ASSUME NEW n \in Nat, n \in T PROVE n + 1 \in T
  <2> SUFFICES ASSUME n + 1 \in 0..MaxKnowledge PROVE f[n + 1] \subseteq S
    OBVIOUS
  <2>1. n \in 0..MaxKnowledge /\ n + 1 # 0 /\ n + 1 - 1 = n
    BY <1>3
  <2>2. f[n] \subseteq S
    BY <1>6, <2>1
  <2>3. f[n + 1] = Onward(edges, f[n])
    BY <1>2, <2>1, WithinSteps
  <2> QED
    BY <1>4, <2>2, <2>3 DEF HoldsPremises, Onward
<1> HIDE DEF T
<1>7. m \in T
  BY <1>2, <1>3, <1>5, <1>6, NaturalSet
<1> QED
  BY <1>2, <1>7 DEF T

LEMMA CascadeFacts ==
    ASSUME NEW id \in DOMAIN beliefs, IdsInv
    PROVE  /\ id \in Cascade(id)
           /\ \A a \in Cascade(id), b \in DOMAIN beliefs :
                 a \in DOMAIN beliefs /\ a \in beliefs[b].premises => b \in Cascade(id)
<1>1. PICK f, m, edges : f = WithinOf(id, Rests) /\ m = Cardinality(Known) /\ edges = Rests
  OBVIOUS
<1>2. /\ IsWithin(id, edges, MaxKnowledge, f) /\ Cascade(id) = f[m] /\ m \in 0..MaxKnowledge
      /\ DOMAIN beliefs \subseteq 1..m
  BY <1>1, ReachedIsWithin DEF Cascade, IdsInv, Known
<1>3. /\ MaxKnowledge \in Nat
      /\ \A n \in 0..MaxKnowledge : f[n] = WithinStep(id, edges, n, f)
  BY <1>2, BeliefsAssumption DEF IsWithin
<1>4. \A a, c : <<a, c>> \in edges <=> a \in DOMAIN beliefs /\ c \in DOMAIN beliefs /\ a \in beliefs[c].premises
  BY <1>1 DEF Rests
<1>5. \A a, c : <<a, c>> \in edges => a \in 1..m /\ c \in 1..m /\ a + 1 <= c /\ a \in Nat /\ c \in Nat
  BY <1>2, <1>3, <1>4 DEF IdsInv
<1>6. ASSUME NEW n \in 0..MaxKnowledge, n + 1 \in 0..MaxKnowledge
      PROVE  f[n + 1] = f[n] \union {c \in DOMAIN beliefs : \E a \in f[n] : <<a, c>> \in edges}
  <2>1. f[n + 1] = Onward(edges, f[n])
    BY <1>2, <1>3, <1>6, WithinSteps
  <2> QED
    BY <2>1 DEF Onward
<1>7. f[0] = {id}
  BY <1>2, WithinSteps
<1>8. \A i, j \in 0..MaxKnowledge : i <= j => f[i] \subseteq f[j]
  <2> DEFINE T == {k \in Nat : \A i \in 0..MaxKnowledge : i + k \in 0..MaxKnowledge => f[i] \subseteq f[i + k]}
  <2>1. 0 \in T
    BY <1>3
  <2>2. ASSUME NEW k \in Nat, k \in T PROVE k + 1 \in T
    <3> SUFFICES ASSUME NEW i \in 0..MaxKnowledge, i + (k + 1) \in 0..MaxKnowledge
                 PROVE  f[i] \subseteq f[i + (k + 1)]
      OBVIOUS
    <3>1. i + k \in 0..MaxKnowledge /\ i + (k + 1) = (i + k) + 1
      BY <1>3
    <3>2. f[i] \subseteq f[i + k]
      BY <2>2, <3>1
    <3> QED
      BY <1>6, <3>1, <3>2
  <2> HIDE DEF T
  <2>3. ASSUME NEW i \in 0..MaxKnowledge, NEW j \in 0..MaxKnowledge, i <= j PROVE f[i] \subseteq f[j]
    <3>1. PICK k : k = j - i
      OBVIOUS
    <3>2. k \in Nat /\ i + k = j
      BY <1>3, <2>3, <3>1
    <3>3. k \in T
      BY <2>1, <2>2, <3>2, NaturalSet
    <3> QED
      BY <3>2, <3>3 DEF T
  <2> QED
    BY <2>3
<1>9. \A y \in f[m] : y \in 1..m /\ y \in f[y]
  <2> DEFINE T == {n \in Nat : n \in 0..MaxKnowledge => \A y \in f[n] : y \in 1..m /\ y \in f[y]}
  <2>0. 1..m \subseteq 0..MaxKnowledge
    BY <1>2, <1>3
  <2>1. 0 \in T
    <3>1. id \in 1..m /\ id \in 0..MaxKnowledge /\ 0 \in 0..MaxKnowledge /\ 0 <= id
      BY <1>2, <1>3, <2>0
    <3>2. f[0] \subseteq f[id]
      BY <1>8, <3>1
    <3> QED
      BY <1>7, <3>1, <3>2
  <2>2. ASSUME NEW n \in Nat, n \in T PROVE n + 1 \in T
    <3> SUFFICES ASSUME n + 1 \in 0..MaxKnowledge, NEW y \in f[n + 1] PROVE y \in 1..m /\ y \in f[y]
      OBVIOUS
    <3>1. n \in 0..MaxKnowledge
      BY <1>3
    <3>2. \A z \in f[n] : z \in 1..m /\ z \in f[z]
      BY <2>2, <3>1
    <3>3. CASE y \in f[n]
      BY <3>2, <3>3
    <3>4. CASE y \notin f[n]
      <4>1. PICK a \in f[n] : <<a, y>> \in edges /\ y \in DOMAIN beliefs
        BY <1>6, <3>1, <3>4
      <4>2. a \in f[a] /\ a \in 1..m /\ y \in 1..m /\ a + 1 <= y
        BY <1>5, <3>2, <4>1
      <4>3. a \in 0..MaxKnowledge /\ y \in 0..MaxKnowledge /\ a + 1 \in 0..MaxKnowledge
        BY <1>2, <1>3, <2>0, <4>2
      <4>4. y \in f[a + 1]
        BY <1>6, <4>1, <4>2, <4>3
      <4>5. f[a + 1] \subseteq f[y]
        BY <1>8, <4>2, <4>3
      <4> QED
        BY <4>2, <4>4, <4>5
    <3> QED
      BY <3>3, <3>4
  <2> HIDE DEF T
  <2>3. m \in Nat /\ m \in T
    BY <1>2, <1>3, <2>1, <2>2, NaturalSet
  <2> QED
    BY <1>2, <2>3 DEF T
<1>10. id \in f[m]
  <2>1. f[0] \subseteq f[m]
    BY <1>2, <1>3, <1>8
  <2> QED
    BY <1>7, <2>1
<1>11. ASSUME NEW a \in f[m], NEW b \in DOMAIN beliefs, a \in DOMAIN beliefs, a \in beliefs[b].premises
       PROVE  b \in f[m]
  <2>1. <<a, b>> \in edges
    BY <1>4, <1>11
  <2>2. a \in f[a] /\ a \in 1..m /\ b \in 1..m /\ a + 1 <= b
    BY <1>5, <1>9, <2>1
  <2>3. a \in 0..MaxKnowledge /\ a + 1 \in 0..MaxKnowledge /\ a + 1 <= m
    BY <1>2, <1>3, <2>2
  <2>4. b \in f[a + 1]
    BY <1>6, <2>1, <2>2, <2>3
  <2>5. f[a + 1] \subseteq f[m]
    BY <1>2, <1>8, <2>3
  <2> QED
    BY <2>4, <2>5
<1> QED
  BY <1>2, <1>10, <1>11

BeliefFields == {"proposition", "learned", "premises", "status"}
PredictionFields == {"confidence", "emitted", "outcome"}

BeliefsInv ==
    /\ IdsInv
    /\ now \in Nat
    /\ DOMAIN retractedThen = DOMAIN beliefs
    /\ \A b \in DOMAIN beliefs : DOMAIN beliefs[b] = BeliefFields
    /\ \A b \in DOMAIN beliefs, x \in DOMAIN beliefs :
          Traces(b, x) /\ beliefs[x].status = "Retracted" /\ x \notin retractedThen[b]
          => beliefs[b].status = "Retracted"
    /\ IsSeq(predictions)
    /\ \A p \in 1..Len(predictions) : DOMAIN predictions[p] = PredictionFields

LEMMA NoIdsGiven == ASSUME Known = {} PROVE Cardinality(Known) = 0 /\ Known = 1..0
BY FS_EmptySet

(* One more id.                                                            *)
LEMMA NextIdGiven ==
    ASSUME NEW n \in Nat, NEW S, S = 1..n \union {n + 1}
    PROVE  S = 1..n + 1 /\ Cardinality(S) = n + 1
<1>1. S = 1..n + 1
  OBVIOUS
<1>2. Cardinality(1..n + 1) = n + 1
  <2>1. Cardinality(1..n + 1) = IF 1 > n + 1 THEN 0 ELSE n + 1 - 1 + 1
    BY FS_Interval
  <2> QED
    BY <2>1
<1> QED
  BY <1>1, <1>2

LEMMA BeliefsInitInv == BeliefsInit => BeliefsInv
<1> SUFFICES ASSUME BeliefsInit PROVE BeliefsInv
  OBVIOUS
<1>1. items = <<>> /\ beliefs = <<>> /\ predictions = <<>> /\ now = 1 /\ retractedThen = <<>>
  BY DEF BeliefsInit
<1>2. IsSeq(<<>>) /\ Len(<<>>) = 0 /\ DOMAIN <<>> = {}
  BY DEF IsSeq
<1>3. Known = {}
  BY <1>1, <1>2 DEF Known
<1>4. IdsInv
  <2>1. Cardinality(Known) = 0 /\ Known = 1..0
    BY <1>3, NoIdsGiven
  <2> QED
    BY <1>1, <1>2, <2>1, BeliefsAssumption DEF IdsInv
<1> QED
  BY <1>1, <1>2, <1>4 DEF BeliefsInv

(* What an id given out does to the ids.                                   *)
LEMMA NextKnowledgeGiven ==
    ASSUME IdsInv, NextKnowledge <= MaxKnowledge, Known' = Known \union {NextKnowledge}
    PROVE  /\ Cardinality(Known)' \in 0..MaxKnowledge
           /\ Known' = 1..Cardinality(Known)'
           /\ NextKnowledge \in Nat /\ NextKnowledge \notin Known
           /\ Known = 1..NextKnowledge - 1
<1>1. PICK n : n = Cardinality(Known)
  OBVIOUS
<1>2. n \in Nat /\ Known = 1..n /\ NextKnowledge = n + 1 /\ MaxKnowledge \in Nat
  BY <1>1, BeliefsAssumption DEF IdsInv, NextKnowledge
<1>3. PICK S : S = Known'
  OBVIOUS
<1>4. S = 1..n + 1 /\ Cardinality(S) = n + 1
  <2>1. S = 1..n \union {n + 1}
    BY <1>2, <1>3
  <2> QED
    BY <1>2, <2>1, NextIdGiven
<1>5. Cardinality(Known)' = n + 1
  BY <1>3, <1>4
<1>6. n + 1 \in 0..MaxKnowledge /\ n + 1 \notin 1..n /\ n + 1 - 1 = n
  BY <1>2
<1>7. Known' = 1..Cardinality(Known)' /\ Cardinality(Known)' \in 0..MaxKnowledge
  BY <1>3, <1>4, <1>5, <1>6
<1>8. NextKnowledge \in Nat /\ NextKnowledge \notin Known
  BY <1>2, <1>6
<1>9. Known = 1..NextKnowledge - 1
  <2>1. NextKnowledge - 1 = n
    BY <1>2
  <2> QED
    BY <1>2, <2>1
<1> QED
  BY <1>7, <1>8, <1>9

LEMMA RecordItemInv ==
    ASSUME BeliefsInv, NEW kind, RecordItem(kind)
    PROVE  BeliefsInv'
<1>1. /\ NextKnowledge <= MaxKnowledge
      /\ items' = Put(items, NextKnowledge, kind)
      /\ UNCHANGED <<beliefs, predictions, now, retractedThen>>
  BY DEF RecordItem
<1>2. Known' = Known \union {NextKnowledge}
  BY <1>1 DEF Known, Put
<1>3. IdsInv'
  <2>1. IdsInv
    BY DEF BeliefsInv
  <2>2. Cardinality(Known)' \in 0..MaxKnowledge /\ Known' = 1..Cardinality(Known)'
    BY <1>1, <1>2, <2>1, NextKnowledgeGiven
  <2> QED
    BY <1>1, <2>1, <2>2 DEF IdsInv
<1>4. \A b, x : Traces(b, x)' <=> Traces(b, x)
  BY <1>1 DEF Traces, HoldsPremises
<1> QED
  BY <1>1, <1>3, <1>4 DEF BeliefsInv

(* Retracted is for good, and the tree of a belief is what it was inferred *)
(* from.                                                                    *)
LEMMA InferBeliefInv ==
    ASSUME BeliefsInv, NEW proposition, NEW premises, InferBelief(proposition, premises)
    PROVE  BeliefsInv'
<1>1. PICK id, conflicting :
        /\ id = NextKnowledge
        /\ conflicting = {b \in WithStatus("Active") :
                             IsContradictory(beliefs[b].proposition, proposition)}
  OBVIOUS
<1>2. PICK r : r = [proposition |-> proposition, learned |-> now, premises |-> premises,
                    status |-> IF conflicting = {} THEN "Active" ELSE "Contradicted"]
  OBVIOUS
<1>3. PICK g : g = [b \in DOMAIN beliefs |->
                       IF b \in conflicting THEN [beliefs[b] EXCEPT !.status = "Contradicted"]
                       ELSE beliefs[b]]
  OBVIOUS
<1>4. /\ id <= MaxKnowledge /\ premises \subseteq Known
      /\ beliefs' = Put(g, id, r)
      /\ retractedThen' = Put(retractedThen, id, WithStatus("Retracted"))
      /\ UNCHANGED <<items, predictions, now>>
  BY <1>1, <1>2, <1>3 DEF InferBelief
<1>5. /\ DOMAIN beliefs' = DOMAIN beliefs \union {id}
      /\ DOMAIN retractedThen' = DOMAIN retractedThen \union {id}
  BY <1>3, <1>4 DEF Put
<1>6. Known' = Known \union {id}
  BY <1>4, <1>5 DEF Known
<1>7. /\ Cardinality(Known)' \in 0..MaxKnowledge /\ Known' = 1..Cardinality(Known)'
      /\ id \in Nat /\ id \notin Known /\ Known = 1..id - 1
  BY <1>1, <1>4, <1>6, NextKnowledgeGiven DEF BeliefsInv
<1>8. id \notin DOMAIN beliefs
  BY <1>7 DEF Known
<1>9. ASSUME NEW b \in DOMAIN beliefs
      PROVE  /\ DOMAIN beliefs'[b] = BeliefFields
             /\ beliefs'[b].premises = beliefs[b].premises
             /\ beliefs'[b].status = "Retracted" <=> beliefs[b].status = "Retracted"
             /\ retractedThen'[b] = retractedThen[b]
  <2>1. beliefs'[b] = g[b] /\ retractedThen'[b] = retractedThen[b]
    BY <1>3, <1>4, <1>8 DEF Put, BeliefsInv
  <2>2. DOMAIN beliefs[b] = BeliefFields
    BY DEF BeliefsInv
  <2>3. CASE b \in conflicting
    <3>1. g[b] = [beliefs[b] EXCEPT !.status = "Contradicted"] /\ beliefs[b].status = "Active"
      BY <1>1, <1>3, <2>3 DEF WithStatus
    <3>2. g[b].status = "Contradicted" /\ g[b].premises = beliefs[b].premises /\ DOMAIN g[b] = BeliefFields
      BY <2>2, <3>1 DEF BeliefFields
    <3> QED
      BY <2>1, <3>1, <3>2
  <2>4. CASE b \notin conflicting
    BY <1>3, <2>1, <2>2, <2>4
  <2> QED
    BY <2>3, <2>4
<1>10. /\ beliefs'[id] = r /\ retractedThen'[id] = WithStatus("Retracted")
       /\ DOMAIN r = BeliefFields /\ r.premises = premises /\ r.status # "Retracted"
  BY <1>2, <1>4 DEF Put, BeliefFields
<1>11. IdsInv'
  <2>1. ASSUME NEW b \in DOMAIN beliefs' PROVE beliefs'[b].premises \subseteq 1..b - 1
    <3>1. CASE b = id
      BY <1>4, <1>7, <1>10, <3>1
    <3>2. CASE b # id
      BY <1>5, <1>9, <3>2 DEF BeliefsInv, IdsInv
    <3> QED
      BY <3>1, <3>2
  <2> QED
    BY <1>7, <2>1 DEF IdsInv
<1>12. ASSUME NEW b \in DOMAIN beliefs PROVE id \notin beliefs[b].premises
  <2>1. b \in 1..id - 1 /\ beliefs[b].premises \subseteq 1..b - 1
    BY <1>7 DEF BeliefsInv, IdsInv, Known
  <2> QED
    BY <1>7, <2>1
<1>13. ASSUME NEW b \in DOMAIN beliefs, NEW x, Traces(b, x)' PROVE x \in DOMAIN beliefs /\ Traces(b, x)
  <2>1. ASSUME NEW S \in SUBSET DOMAIN beliefs, HoldsPremises(S) PROVE HoldsPremises(S)'
    BY <1>5, <1>9, <1>12, <2>1 DEF HoldsPremises
  <2>2. ASSUME NEW S \in SUBSET DOMAIN beliefs, HoldsPremises(S), b \in S PROVE x \in S
    BY <1>5, <1>13, <2>1, <2>2 DEF Traces
  <2>3. HoldsPremises(DOMAIN beliefs)
    BY DEF HoldsPremises
  <2> QED
    BY <2>2, <2>3 DEF Traces
<1>14. ASSUME NEW b \in DOMAIN beliefs', NEW x \in DOMAIN beliefs',
              Traces(b, x)', beliefs'[x].status = "Retracted", x \notin retractedThen'[b]
       PROVE  beliefs'[b].status = "Retracted"
  <2>1. x \in DOMAIN beliefs /\ beliefs[x].status = "Retracted"
    BY <1>5, <1>9, <1>10, <1>14
  <2>2. CASE b = id
    BY <1>10, <1>14, <2>1, <2>2 DEF WithStatus
  <2>3. CASE b # id
    <3>1. b \in DOMAIN beliefs /\ Traces(b, x) /\ x \notin retractedThen[b]
      BY <1>5, <1>9, <1>13, <1>14, <2>3
    <3>2. beliefs[b].status = "Retracted"
      BY <2>1, <3>1 DEF BeliefsInv
    <3> QED
      BY <1>9, <3>1, <3>2
  <2> QED
    BY <2>2, <2>3
<1>15. \A b \in DOMAIN beliefs' : DOMAIN beliefs'[b] = BeliefFields
  BY <1>5, <1>9, <1>10
<1>16. DOMAIN retractedThen' = DOMAIN beliefs'
  BY <1>5 DEF BeliefsInv
<1>17. /\ now' \in Nat /\ IsSeq(predictions')
       /\ \A p \in 1..Len(predictions') : DOMAIN predictions'[p] = PredictionFields
  BY <1>4 DEF BeliefsInv
<1> QED
  BY <1>11, <1>14, <1>15, <1>16, <1>17 DEF BeliefsInv

(* A belief outside the cascade rests on nothing in it.                    *)
LEMMA RetractBeliefInv ==
    ASSUME BeliefsInv, NEW id \in DOMAIN beliefs, RetractBelief(id)
    PROVE  BeliefsInv'
<1>1. PICK C : C = Cascade(id)
  OBVIOUS
<1>2. /\ beliefs' = [b \in DOMAIN beliefs |->
             IF b \in C THEN [beliefs[b] EXCEPT !.status = "Retracted"] ELSE beliefs[b]]
      /\ UNCHANGED <<items, predictions, now, retractedThen>>
  BY <1>1 DEF RetractBelief
<1>3. DOMAIN beliefs' = DOMAIN beliefs
  BY <1>2
<1>4. ASSUME NEW b \in DOMAIN beliefs
      PROVE  /\ DOMAIN beliefs'[b] = BeliefFields
             /\ beliefs'[b].premises = beliefs[b].premises
             /\ beliefs'[b].status = "Retracted" <=> b \in C \/ beliefs[b].status = "Retracted"
  <2>1. DOMAIN beliefs[b] = BeliefFields
    BY DEF BeliefsInv
  <2>2. CASE b \in C
    <3>1. beliefs'[b] = [beliefs[b] EXCEPT !.status = "Retracted"]
      BY <1>2, <2>2
    <3> QED
      BY <2>1, <2>2, <3>1 DEF BeliefFields
  <2>3. CASE b \notin C
    <3>1. beliefs'[b] = beliefs[b]
      BY <1>2, <2>3
    <3> QED
      BY <2>1, <2>3, <3>1
  <2> QED
    BY <2>2, <2>3
<1>5. \A a \in C, b \in DOMAIN beliefs : a \in DOMAIN beliefs /\ a \in beliefs[b].premises => b \in C
  BY <1>1, CascadeFacts DEF BeliefsInv
<1>6. HoldsPremises(DOMAIN beliefs \ C)
  BY <1>5 DEF HoldsPremises
<1>7. ASSUME NEW b \in DOMAIN beliefs, NEW x \in C, Traces(b, x) PROVE b \in C
  BY <1>6, <1>7 DEF Traces
<1>8. ASSUME NEW b, NEW x, Traces(b, x)' PROVE Traces(b, x)
  <2>1. ASSUME NEW S \in SUBSET DOMAIN beliefs, HoldsPremises(S) PROVE HoldsPremises(S)'
    BY <1>3, <1>4, <2>1 DEF HoldsPremises
  <2> QED
    BY <1>3, <1>8, <2>1 DEF Traces
<1>9. ASSUME NEW b \in DOMAIN beliefs', NEW x \in DOMAIN beliefs',
             Traces(b, x)', beliefs'[x].status = "Retracted", x \notin retractedThen'[b]
      PROVE  beliefs'[b].status = "Retracted"
  <2>1. /\ b \in DOMAIN beliefs /\ x \in DOMAIN beliefs /\ Traces(b, x) /\ x \notin retractedThen[b]
        /\ x \in C \/ beliefs[x].status = "Retracted"
    BY <1>2, <1>3, <1>4, <1>8, <1>9
  <2>2. b \in C \/ beliefs[b].status = "Retracted"
    BY <1>7, <2>1 DEF BeliefsInv
  <2> QED
    BY <1>4, <2>1, <2>2
<1>10. IdsInv'
  <2>1. Known' = Known /\ Cardinality(Known)' = Cardinality(Known)
    BY <1>2, <1>3 DEF Known
  <2> QED
    BY <1>3, <1>4, <2>1 DEF IdsInv, BeliefsInv
<1> QED
  BY <1>2, <1>3, <1>4, <1>9, <1>10 DEF BeliefsInv

LEMMA RecordPredictionInv ==
    ASSUME BeliefsInv, NEW confidence, RecordPrediction(confidence)
    PROVE  BeliefsInv'
<1>1. PICK r : r = [confidence |-> confidence, emitted |-> now, outcome |-> None]
  OBVIOUS
<1>2. predictions' = Append(predictions, r) /\ UNCHANGED <<items, beliefs, now, retractedThen>>
  BY <1>1 DEF RecordPrediction
<1>3. PICK s, t : s = predictions /\ t = predictions'
  OBVIOUS
<1>4. IsSeq(s) /\ Len(s) \in Nat /\ \A p \in 1..Len(s) : DOMAIN s[p] = PredictionFields
  BY <1>3, SeqFacts DEF BeliefsInv
<1>5. /\ IsSeq(t) /\ Len(t) = Len(s) + 1
      /\ \A p \in 1..Len(s) : t[p] = s[p]
      /\ t[Len(s) + 1] = r
  BY <1>2, <1>3, <1>4, AppendFacts
<1>6. DOMAIN r = PredictionFields
  BY <1>1 DEF PredictionFields
<1>7. \A p \in 1..Len(t) : p \in 1..Len(s) \/ p = Len(s) + 1
  BY <1>4, <1>5
<1>8. IsSeq(predictions') /\ \A p \in 1..Len(predictions') : DOMAIN predictions'[p] = PredictionFields
  BY <1>3, <1>4, <1>5, <1>6, <1>7
<1>9. IdsInv' /\ \A b, x : Traces(b, x)' <=> Traces(b, x)
  BY <1>2 DEF IdsInv, BeliefsInv, Known, Traces, HoldsPremises
<1> QED
  BY <1>2, <1>8, <1>9 DEF BeliefsInv

LEMMA ResolveOutcomeInv ==
    ASSUME BeliefsInv, NEW p \in DOMAIN predictions, NEW matched, ResolveOutcome(p, matched)
    PROVE  BeliefsInv'
<1>1. PICK r : r = [predictions[p] EXCEPT !.outcome = Some([matched |-> matched, at |-> now])]
  OBVIOUS
<1>2. predictions' = [predictions EXCEPT ![p] = r] /\ UNCHANGED <<items, beliefs, now, retractedThen>>
  BY <1>1 DEF ResolveOutcome
<1>3. PICK s, t : s = predictions /\ t = predictions'
  OBVIOUS
<1>4. IsSeq(s) /\ p \in 1..Len(s) /\ \A q \in 1..Len(s) : DOMAIN s[q] = PredictionFields
  BY <1>3, SeqFacts DEF BeliefsInv
<1>5. Updated(s, p, r, t)
  <2>1. IsUpdate(s, p, r, t)
    BY <1>2, <1>3, <1>4 DEF IsUpdate
  <2> QED
    BY <2>1, UpdateFacts
<1>6. DOMAIN r = PredictionFields
  BY <1>1, <1>3, <1>4
<1>7. IsSeq(predictions') /\ \A q \in 1..Len(predictions') : DOMAIN predictions'[q] = PredictionFields
  BY <1>3, <1>4, <1>5, <1>6 DEF Updated
<1>8. IdsInv' /\ \A b, x : Traces(b, x)' <=> Traces(b, x)
  BY <1>2 DEF IdsInv, BeliefsInv, Known, Traces, HoldsPremises
<1> QED
  BY <1>2, <1>7, <1>8 DEF BeliefsInv

LEMMA BeliefsNextInv ==
    ASSUME BeliefsInv, [BeliefsNext]_beliefVars
    PROVE  BeliefsInv'
<1>1. ASSUME UNCHANGED <<items, beliefs, predictions, retractedThen>>, now' \in Nat
      PROVE  BeliefsInv'
  <2>1. IdsInv' /\ \A b, x : Traces(b, x)' <=> Traces(b, x)
    BY <1>1 DEF IdsInv, BeliefsInv, Known, Traces, HoldsPremises
  <2> QED
    BY <1>1, <2>1 DEF BeliefsInv
<1>2. CASE UNCHANGED beliefVars
  BY <1>1, <1>2 DEF beliefVars, BeliefsInv
<1>3. CASE Tick
  <2>1. now' \in Nat
    BY <1>3 DEF Tick, BeliefsInv
  <2> QED
    BY <1>1, <1>3, <2>1 DEF Tick
<1>4. CASE \E kind \in Kinds : RecordItem(kind)
  BY <1>4, RecordItemInv
<1>5. CASE \E proposition \in Propositions, premises \in SUBSET Known : InferBelief(proposition, premises)
  BY <1>5, InferBeliefInv
<1>6. CASE \E id \in DOMAIN beliefs : RetractBelief(id)
  BY <1>6, RetractBeliefInv
<1>7. CASE \E confidence \in Confidences : RecordPrediction(confidence)
  BY <1>7, RecordPredictionInv
<1>8. CASE \E p \in DOMAIN predictions, matched \in BOOLEAN : ResolveOutcome(p, matched)
  BY <1>8, ResolveOutcomeInv
<1> QED
  BY <1>2, <1>3, <1>4, <1>5, <1>6, <1>7, <1>8 DEF BeliefsNext

(* A retraction reaches everything why traces to the retracted belief,     *)
(* however long the chain between them (retract_belief, why).              *)
THEOREM BeliefsRetractionReachesAll == BeliefsSpec => []RetractionReachesAll
<1>1. BeliefsInv => RetractionReachesAll
  <2> SUFFICES ASSUME BeliefsInv, NEW b \in DOMAIN beliefs,
                      NEW x \in (Why(b) \intersect WithStatus("Retracted")) \ retractedThen[b]
               PROVE  beliefs[b].status = "Retracted"
    BY DEF RetractionReachesAll
  <2>1. Traces(b, x)
    BY WithinTree DEF BeliefsInv
  <2>2. x \in DOMAIN beliefs /\ beliefs[x].status = "Retracted" /\ x \notin retractedThen[b]
    BY DEF WithStatus
  <2> QED
    BY <2>1, <2>2 DEF BeliefsInv
<1> QED
  BY <1>1, BeliefsInitInv, BeliefsNextInv, PTL DEF BeliefsSpec

PastKept(cutoff) ==
    /\ ActiveAsOf(cutoff)' \subseteq ActiveAsOf(cutoff)
    /\ Scored(cutoff)' \subseteq Scored(cutoff)
    /\ Scored(cutoff)' = Scored(cutoff) => BrierScore(cutoff)' = BrierScore(cutoff)

LEMMA SamePredictionsSameScore ==
    ASSUME NEW cutoff, predictions' = predictions
    PROVE  Scored(cutoff)' = Scored(cutoff) /\ BrierScore(cutoff)' = BrierScore(cutoff)
<1>1. Scored(cutoff)' = Scored(cutoff)
  BY DEF Scored
<1>2. Errors(cutoff)' = Errors(cutoff)
  BY <1>1 DEF Errors
<1> QED
  BY <1>1, <1>2 DEF BrierScore

(* A score is a function of the predictions it counts.                     *)
LEMMA SameScoredSameScore ==
    ASSUME NEW cutoff, Scored(cutoff)' = Scored(cutoff),
           \A p \in Scored(cutoff) : predictions'[p] = predictions[p]
    PROVE  BrierScore(cutoff)' = BrierScore(cutoff)
<1>1. PICK S : S = Scored(cutoff)
  OBVIOUS
<1>2. ASSUME NEW p \in S PROVE predictions'[p] = predictions[p]
  BY <1>1
<1>3. Errors(cutoff)' = Errors(cutoff)
  <2>1. \A p \in S : ErrorOf(predictions'[p]) = ErrorOf(predictions[p])
    BY <1>2
  <2>2. Scored(cutoff)' = S
    BY <1>1
  <2> QED
    BY <1>1, <2>1, <2>2 DEF Errors
<1> QED
  BY <1>3 DEF BrierScore

LEMMA BeliefsStepKeepsPast ==
    ASSUME BeliefsInv, BeliefsNext, NEW cutoff \in 1..LastTime, cutoff < now
    PROVE  PastKept(cutoff)
<1>0. now \in Nat /\ cutoff \in Nat /\ ~(now <= cutoff)
  BY BeliefsAssumption DEF BeliefsInv
<1>1. ASSUME UNCHANGED <<beliefs, predictions>> PROVE PastKept(cutoff)
  <2>1. ActiveAsOf(cutoff)' = ActiveAsOf(cutoff)
    BY <1>1 DEF ActiveAsOf, WithStatus
  <2> QED
    BY <1>1, <2>1, SamePredictionsSameScore DEF PastKept
<1>2. CASE Tick \/ \E kind \in Kinds : RecordItem(kind)
  BY <1>1, <1>2 DEF Tick, RecordItem
<1>3. ASSUME NEW proposition, NEW premises, InferBelief(proposition, premises) PROVE PastKept(cutoff)
  <2>1. PICK conflicting :
          conflicting = {b \in WithStatus("Active") : IsContradictory(beliefs[b].proposition, proposition)}
    OBVIOUS
  <2>2. PICK g : g = [b \in DOMAIN beliefs |->
                         IF b \in conflicting THEN [beliefs[b] EXCEPT !.status = "Contradicted"]
                         ELSE beliefs[b]]
    OBVIOUS
  <2>3. PICK r : r = [proposition |-> proposition, learned |-> now, premises |-> premises,
                      status |-> IF conflicting = {} THEN "Active" ELSE "Contradicted"]
    OBVIOUS
  <2>4. predictions' = predictions /\ beliefs' = Put(g, NextKnowledge, r)
    BY <1>3, <2>1, <2>2, <2>3 DEF InferBelief
  <2>5. ASSUME NEW b \in DOMAIN beliefs', beliefs'[b].status = "Active", beliefs'[b].learned <= cutoff
        PROVE  b \in DOMAIN beliefs /\ beliefs[b].status = "Active" /\ beliefs[b].learned <= cutoff
    <3>1. b # NextKnowledge
      BY <1>0, <2>3, <2>4, <2>5 DEF Put
    <3>2. b \in DOMAIN beliefs /\ beliefs'[b] = g[b]
      BY <2>2, <2>4, <3>1 DEF Put
    <3>3. DOMAIN beliefs[b] = BeliefFields
      BY <3>2 DEF BeliefsInv
    <3>4. b \notin conflicting
      <4>1. SUFFICES ASSUME b \in conflicting PROVE FALSE
        OBVIOUS
      <4>2. g[b] = [beliefs[b] EXCEPT !.status = "Contradicted"]
        BY <2>2, <3>2, <4>1
      <4> QED
        BY <2>5, <3>2, <3>3, <4>2 DEF BeliefFields
    <3> QED
      BY <2>2, <2>5, <3>2, <3>4
  <2>6. ActiveAsOf(cutoff)' \subseteq ActiveAsOf(cutoff)
    BY <2>5 DEF ActiveAsOf, WithStatus
  <2> QED
    BY <2>4, <2>6, SamePredictionsSameScore DEF PastKept
<1>4. ASSUME NEW id \in DOMAIN beliefs, RetractBelief(id) PROVE PastKept(cutoff)
  <2>1. PICK C : C = Cascade(id)
    OBVIOUS
  <2>2. /\ predictions' = predictions
        /\ beliefs' = [b \in DOMAIN beliefs |->
               IF b \in C THEN [beliefs[b] EXCEPT !.status = "Retracted"] ELSE beliefs[b]]
    BY <1>4, <2>1 DEF RetractBelief
  <2>3. ASSUME NEW b \in DOMAIN beliefs', beliefs'[b].status = "Active"
        PROVE  b \in DOMAIN beliefs /\ beliefs'[b] = beliefs[b]
    <3>1. b \in DOMAIN beliefs /\ DOMAIN beliefs[b] = BeliefFields
      BY <2>2 DEF BeliefsInv
    <3>2. b \notin C
      <4>1. SUFFICES ASSUME b \in C PROVE FALSE
        OBVIOUS
      <4>2. beliefs'[b] = [beliefs[b] EXCEPT !.status = "Retracted"]
        BY <2>2, <3>1, <4>1
      <4> QED
        BY <2>3, <3>1, <4>2 DEF BeliefFields
    <3> QED
      BY <2>2, <3>1, <3>2
  <2>4. ActiveAsOf(cutoff)' \subseteq ActiveAsOf(cutoff)
    BY <2>3 DEF ActiveAsOf, WithStatus
  <2> QED
    BY <2>2, <2>4, SamePredictionsSameScore DEF PastKept
<1>5. ASSUME beliefs' = beliefs,
             \A p \in Scored(cutoff)' : p \in Scored(cutoff) /\ predictions'[p] = predictions[p]
      PROVE  PastKept(cutoff)
  <2>1. ActiveAsOf(cutoff)' = ActiveAsOf(cutoff)
    BY <1>5 DEF ActiveAsOf, WithStatus
  <2>2. Scored(cutoff)' \subseteq Scored(cutoff)
    BY <1>5
  <2>3. ASSUME Scored(cutoff)' = Scored(cutoff) PROVE BrierScore(cutoff)' = BrierScore(cutoff)
    <3>1. \A p \in Scored(cutoff) : predictions'[p] = predictions[p]
      BY <1>5, <2>3
    <3> QED
      BY <2>3, <3>1, SameScoredSameScore
  <2> QED
    BY <2>1, <2>2, <2>3 DEF PastKept
<1>6. ASSUME NEW confidence, RecordPrediction(confidence) PROVE PastKept(cutoff)
  <2>1. PICK r : r = [confidence |-> confidence, emitted |-> now, outcome |-> None]
    OBVIOUS
  <2>2. predictions' = Append(predictions, r) /\ beliefs' = beliefs
    BY <1>6, <2>1 DEF RecordPrediction
  <2>3. PICK s, t : s = predictions /\ t = predictions'
    OBVIOUS
  <2>4. IsSeq(s) /\ Len(s) \in Nat /\ DOMAIN s = 1..Len(s)
    BY <2>3, SeqFacts DEF BeliefsInv
  <2>5. /\ IsSeq(t) /\ Len(t) = Len(s) + 1
        /\ \A p \in 1..Len(s) : t[p] = s[p]
        /\ t[Len(s) + 1] = r
    BY <2>2, <2>3, <2>4, AppendFacts
  <2>6. DOMAIN t = 1..Len(s) + 1
    BY <2>5, SeqFacts
  <2>7. ASSUME NEW p \in Scored(cutoff)' PROVE p \in Scored(cutoff) /\ predictions'[p] = predictions[p]
    <3>1. p \in DOMAIN t /\ t[p].emitted <= cutoff /\ \E o \in t[p].outcome : o.at <= cutoff
      BY <2>3 DEF Scored
    <3>2. p # Len(s) + 1
      BY <1>0, <2>1, <2>5, <3>1
    <3>3. p \in 1..Len(s)
      BY <2>4, <2>6, <3>1, <3>2
    <3>4. p \in DOMAIN s /\ t[p] = s[p]
      BY <2>4, <2>5, <3>3
    <3> QED
      BY <2>3, <3>1, <3>4 DEF Scored
  <2> QED
    BY <1>5, <2>2, <2>7
<1>7. ASSUME NEW q \in DOMAIN predictions, NEW matched, ResolveOutcome(q, matched) PROVE PastKept(cutoff)
  <2>1. PICK o, r : /\ o = [matched |-> matched, at |-> now]
                    /\ r = [predictions[q] EXCEPT !.outcome = Some(o)]
    OBVIOUS
  <2>2. predictions' = [predictions EXCEPT ![q] = r] /\ beliefs' = beliefs
    BY <1>7, <2>1 DEF ResolveOutcome
  <2>3. DOMAIN predictions[q] = PredictionFields
    BY SeqFacts DEF BeliefsInv
  <2>4. r.outcome = {o} /\ o.at = now
    BY <2>1, <2>3 DEF PredictionFields, Some
  <2>5. ASSUME NEW p \in Scored(cutoff)' PROVE p \in Scored(cutoff) /\ predictions'[p] = predictions[p]
    <3>1. p \in DOMAIN predictions' /\ predictions'[p].emitted <= cutoff /\ \E x \in predictions'[p].outcome : x.at <= cutoff
      BY DEF Scored
    <3>2. p # q
      BY <1>0, <2>2, <2>4, <3>1
    <3>3. p \in DOMAIN predictions /\ predictions'[p] = predictions[p]
      BY <2>2, <3>1, <3>2
    <3> QED
      BY <3>1, <3>3 DEF Scored
  <2> QED
    BY <1>5, <2>2, <2>5
<1> QED
  BY <1>2, <1>3, <1>4, <1>6, <1>7 DEF BeliefsNext

(* Nothing leaks into the past: what is asked as of a time before now      *)
(* loses beliefs and predictions at most, and a score over the same        *)
(* predictions is the same (active_beliefs_known_as_of,                    *)
(* compute_brier_score).                                                   *)
THEOREM BeliefsPastGainsNothing == BeliefsSpec => PastGainsNothing
<1>1. BeliefsInv /\ [BeliefsNext]_beliefVars
      => [\A cutoff \in 1..LastTime : cutoff < now =>
            /\ ActiveAsOf(cutoff)' \subseteq ActiveAsOf(cutoff)
            /\ Scored(cutoff)' \subseteq Scored(cutoff)
            /\ Scored(cutoff)' = Scored(cutoff) => BrierScore(cutoff)' = BrierScore(cutoff)
         ]_beliefVars
  BY BeliefsStepKeepsPast DEF PastKept
<1> QED
  BY <1>1, BeliefsInitInv, BeliefsNextInv, PTL DEF BeliefsSpec, PastGainsNothing

-----------------------------------------------------------------------------
(* Shards.                                                                 *)

ShardsSpec == ShardsInit /\ [][ShardsNext]_shardVars

(* A partition numbers its events from 0.                                  *)
ShardsInv ==
    /\ DOMAIN partitions = Partitions
    /\ \A p \in Partitions : IsSeq(partitions[p])
    /\ \A p \in Partitions : \A i \in 1..Len(partitions[p]) :
          /\ partitions[p][i].sequence = i - 1
          /\ partitions[p][i].tick \in Int
          /\ partitions[p][i].source \in Int

AllEvents == UNION {{p} \X Range(partitions[p]) : p \in Partitions}

IsAt(e, p, i) ==
    p \in Partitions /\ i \in 1..Len(partitions[p]) /\ e = <<p, partitions[p][i]>>

LEMMA PartitionFacts ==
    ASSUME ShardsInv, NEW e \in AllEvents
    PROVE  \E p, i : IsAt(e, p, i)
<1>1. PICK p \in Partitions : e \in {p} \X Range(partitions[p])
  BY DEF AllEvents
<1>2. DOMAIN partitions[p] = 1..Len(partitions[p])
  BY SeqFacts DEF ShardsInv
<1>3. PICK i \in 1..Len(partitions[p]) : e[2] = partitions[p][i]
  BY <1>1, <1>2 DEF Range
<1> QED
  BY <1>1, <1>3 DEF IsAt

KeyOf(e, a, b, c) ==
    MergeKey(e[2]) = <<a, b, c>> /\ a \in Int /\ b \in Int /\ c \in Int

LEMMA KeyFacts ==
    ASSUME ShardsInv, NEW e \in AllEvents
    PROVE  \E a, b, c : KeyOf(e, a, b, c)
<1>1. PICK p, i : IsAt(e, p, i)
  BY PartitionFacts
<1>2. e[2] = partitions[p][i] /\ i - 1 \in Int
  BY <1>1 DEF IsAt
<1>3. MergeKey(e[2]) = <<e[2].tick, e[2].source, e[2].sequence>>
  BY DEF MergeKey
<1>4. e[2].tick \in Int /\ e[2].source \in Int /\ e[2].sequence \in Int
  BY <1>1, <1>2 DEF ShardsInv, IsAt
<1> QED
  BY <1>3, <1>4 DEF KeyOf

Less3(a, b, c, x, y, z) == a < x \/ (a = x /\ (b < y \/ (b = y /\ c < z)))

LEMMA BeforeIsLexical ==
    ASSUME NEW a \in Int, NEW b \in Int, NEW c \in Int, NEW x \in Int, NEW y \in Int, NEW z \in Int
    PROVE  Before(<<a, b, c>>, <<x, y, z>>) <=> Less3(a, b, c, x, y, z)
<1>1. PICK k, l : k = <<a, b, c>> /\ l = <<x, y, z>>
  OBVIOUS
<1>2. /\ DOMAIN k = 1..3 /\ k[1] = a /\ k[2] = b /\ k[3] = c
      /\ l[1] = x /\ l[2] = y /\ l[3] = z
  BY <1>1
<1>3. ASSUME NEW i \in 1..3 PROVE i = 1 \/ i = 2 \/ i = 3
  OBVIOUS
<1>4. /\ (\A j \in 1..1 - 1 : k[j] = l[j])
      /\ (\A j \in 1..2 - 1 : k[j] = l[j]) <=> a = x
      /\ (\A j \in 1..3 - 1 : k[j] = l[j]) <=> a = x /\ b = y
  BY <1>2
<1>5. Before(k, l) <=> \E i \in 1..3 : k[i] < l[i] /\ \A j \in 1..i - 1 : k[j] = l[j]
  BY <1>2 DEF Before
<1>6. (\E i \in 1..3 : k[i] < l[i] /\ \A j \in 1..i - 1 : k[j] = l[j]) <=> Less3(a, b, c, x, y, z)
  BY <1>2, <1>3, <1>4 DEF Less3
<1> QED
  BY <1>1, <1>5, <1>6

(* Neither of two events is before the other: they have one key.           *)
LEMMA KeyTies ==
    ASSUME ShardsInv, NEW d \in AllEvents, NEW e \in AllEvents,
           ~Before(MergeKey(d[2]), MergeKey(e[2])), ~Before(MergeKey(e[2]), MergeKey(d[2]))
    PROVE  MergeKey(d[2]) = MergeKey(e[2])
<1>1. PICK a, b, c : KeyOf(d, a, b, c)
  BY KeyFacts
<1>2. PICK x, y, z : KeyOf(e, x, y, z)
  BY KeyFacts
<1>3. ~Less3(a, b, c, x, y, z) /\ ~Less3(x, y, z, a, b, c)
  BY <1>1, <1>2, BeforeIsLexical DEF KeyOf
<1>4. a = x /\ b = y /\ c = z
  BY <1>1, <1>2, <1>3 DEF KeyOf, Less3
<1> QED
  BY <1>1, <1>2, <1>4 DEF KeyOf

(* Two events of one key come from two partitions.                         *)
LEMMA TiesApart ==
    ASSUME ShardsInv, NEW d \in AllEvents, NEW e \in AllEvents, d # e,
           MergeKey(d[2]) = MergeKey(e[2])
    PROVE  Tied(d, e)
<1>1. PICK p, i : IsAt(d, p, i)
  BY PartitionFacts
<1>2. PICK q, j : IsAt(e, q, j)
  BY PartitionFacts
<1>3. PICK f, g : f = d[2] /\ g = e[2]
  OBVIOUS
<1>4. <<f.tick, f.source, f.sequence>> = <<g.tick, g.source, g.sequence>>
  BY <1>3 DEF MergeKey
<1>5. f.tick = g.tick /\ f.source = g.source /\ f.sequence = g.sequence
  BY <1>4
<1>6. /\ p \in Partitions /\ i \in 1..Len(partitions[p]) /\ d = <<p, f>> /\ f = partitions[p][i]
      /\ q \in Partitions /\ j \in 1..Len(partitions[q]) /\ e = <<q, g>> /\ g = partitions[q][j]
  BY <1>1, <1>2, <1>3 DEF IsAt
<1>7. f.sequence = i - 1 /\ g.sequence = j - 1
  BY <1>6 DEF ShardsInv
<1>8. i \in Int /\ j \in Int
  BY <1>6, SeqFacts DEF ShardsInv
<1>9. p # q
  BY <1>5, <1>6, <1>7, <1>8
<1> QED
  BY <1>3, <1>5, <1>6, <1>9 DEF Tied

LEMMA FanoutAnswers ==
    ASSUME ShardsInv, NEW filter, Fanout(filter)
    PROVE  FanoutReordersTiesOnly'
<1>1. PICK found : found = {e \in AllEvents : RuntimeMatches(filter, e[2])}
  OBVIOUS
<1>2. PICK answers :
        /\ merged' = {answers}
        /\ answers = {order \in SetToSeqs(found) :
              \A i, j \in DOMAIN order :
                  Before(MergeKey(order[i][2]), MergeKey(order[j][2])) => i < j}
  BY <1>1 DEF Fanout, AllEvents, Some
<1>3. SUFFICES
        ASSUME NEW a \in answers, NEW b \in answers, NEW d, NEW e,
               EarlierIn(a, d, e), EarlierIn(b, e, d)
        PROVE  Tied(d, e)
  BY <1>2 DEF FanoutReordersTiesOnly, EarlierIn, Tied
<1>4. ASSUME NEW order \in answers, NEW x, NEW y, EarlierIn(order, x, y)
      PROVE  /\ x \in AllEvents /\ y \in AllEvents /\ x # y
             /\ ~Before(MergeKey(y[2]), MergeKey(x[2]))
  <2>1. PICK n : n = Cardinality(found)
    OBVIOUS
  <2>2. /\ order \in [1..n -> found]
        /\ \A i, j \in 1..n : i # j => order[i] # order[j]
        /\ \A i, j \in 1..n : Before(MergeKey(order[i][2]), MergeKey(order[j][2])) => i < j
    BY <1>2, <2>1 DEF SetToSeqs
  <2>3. PICK i \in 1..n, j \in 1..n : i < j /\ order[i] = x /\ order[j] = y
    BY <1>4, <2>2 DEF EarlierIn
  <2>4. x \in found /\ y \in found /\ x # y
    BY <2>2, <2>3
  <2>5. ~(j < i)
    BY <2>3
  <2>6. ~Before(MergeKey(y[2]), MergeKey(x[2]))
    BY <2>2, <2>3, <2>5
  <2> QED
    BY <1>1, <2>4, <2>6
<1>5. /\ d \in AllEvents /\ e \in AllEvents /\ d # e
      /\ ~Before(MergeKey(e[2]), MergeKey(d[2]))
  BY <1>3, <1>4
<1>6. ~Before(MergeKey(d[2]), MergeKey(e[2]))
  BY <1>3, <1>4
<1>7. MergeKey(d[2]) = MergeKey(e[2])
  BY <1>5, <1>6, KeyTies
<1> QED
  BY <1>5, <1>7, TiesApart

LEMMA ShardsNextInv ==
    ASSUME ShardsInv, FanoutReordersTiesOnly, ShardsNext \/ UNCHANGED shardVars
    PROVE  ShardsInv' /\ FanoutReordersTiesOnly'
<1>1. CASE UNCHANGED shardVars
  BY <1>1 DEF shardVars, ShardsInv, FanoutReordersTiesOnly
<1>2. ASSUME NEW filter, Fanout(filter) PROVE ShardsInv' /\ FanoutReordersTiesOnly'
  <2>1. UNCHANGED partitions
    BY <1>2 DEF Fanout
  <2> QED
    BY <1>2, <2>1, FanoutAnswers DEF ShardsInv
<1>3. ASSUME NEW event \in ShardEvents, AppendToShard(event) PROVE ShardsInv' /\ FanoutReordersTiesOnly'
  <2>1. PICK target, s, t, e :
          /\ target = Route(event.shard) /\ s = partitions[target]
          /\ e = Put(event, "sequence", Len(s)) /\ t = Append(s, e)
    OBVIOUS
  <2>2. /\ target \in Partitions /\ merged' = {}
        /\ partitions' = [partitions EXCEPT ![target] = t]
    BY <1>3, <2>1 DEF AppendToShard, None
  <2>3. /\ IsSeq(s) /\ Len(s) \in Nat
        /\ \A i \in 1..Len(s) : s[i].sequence = i - 1 /\ s[i].tick \in Int /\ s[i].source \in Int
    BY <2>1, <2>2, SeqFacts DEF ShardsInv
  <2>4. /\ IsSeq(t) /\ Len(t) = Len(s) + 1 /\ t[Len(s) + 1] = e
        /\ \A i \in 1..Len(s) : t[i] = s[i]
    BY <2>1, <2>3, AppendFacts
  <2>5. e.sequence = Len(s) /\ e.tick = event.tick /\ e.source = event.source
    <3>1. /\ DOMAIN event = {"source", "shard", "tick"}
          /\ event.tick \in Int /\ event.source \in Int
      BY ShardsAssumption
    <3> QED
      BY <2>1, <3>1 DEF Put
  <2>6. ASSUME NEW i \in 1..Len(t)
        PROVE  t[i].sequence = i - 1 /\ t[i].tick \in Int /\ t[i].source \in Int
    <3>1. CASE i \in 1..Len(s)
      BY <2>3, <2>4, <3>1
    <3>2. CASE i = Len(s) + 1
      <4>1. event.tick \in Int /\ event.source \in Int
        BY ShardsAssumption
      <4> QED
        BY <2>3, <2>4, <2>5, <3>2, <4>1
    <3> QED
      BY <2>3, <2>4, <3>1, <3>2
  <2>7. partitions'[target] = t /\ \A p \in Partitions : p # target => partitions'[p] = partitions[p]
    BY <2>2 DEF ShardsInv
  <2>8. ShardsInv'
    BY <2>2, <2>4, <2>6, <2>7 DEF ShardsInv
  <2> QED
    BY <2>2, <2>8 DEF FanoutReordersTiesOnly
<1> QED
  BY <1>1, <1>2, <1>3 DEF ShardsNext

LEMMA ShardsInitInv == ShardsInit => ShardsInv /\ FanoutReordersTiesOnly
<1> SUFFICES ASSUME ShardsInit PROVE ShardsInv /\ FanoutReordersTiesOnly
  OBVIOUS
<1>1. IsSeq(<<>>) /\ Len(<<>>) = 0
  BY DEF IsSeq
<1>2. \A p \in Partitions : partitions[p] = <<>>
  BY DEF ShardsInit
<1> QED
  BY <1>1, <1>2 DEF ShardsInit, ShardsInv, FanoutReordersTiesOnly, None

(* Two answers of fanout_query to one question differ only in the order of *)
(* events of one source and valid time to which two partitions gave the    *)
(* same sequence, in whatever order the partitions are visited.            *)
THEOREM ShardsFanoutReordersTiesOnly == ShardsSpec => []FanoutReordersTiesOnly
BY ShardsInitInv, ShardsNextInv, PTL DEF ShardsSpec

-----------------------------------------------------------------------------
(* Tiers.                                                                  *)

TiersSpec == TiersInit /\ [][TiersNext]_tierVars

SizeIf(segs, ids, n) == IF n \in ids THEN segs[n].size ELSE 0

SumStep(segs, ids, n, sum) == IF n = 0 THEN 0 ELSE sum[n - 1] + SizeIf(segs, ids, n)

IsSum(segs, ids, m, sum) == sum = [n \in 0..m |-> SumStep(segs, ids, n, sum)]

LEMMA SumExists ==
    ASSUME NEW segs, NEW ids, NEW m \in Nat
    PROVE  \E sum : IsSum(segs, ids, m, sum)
<1> DEFINE T == {n \in Nat : \E sum : IsSum(segs, ids, n, sum)}
<1>1. 0 \in T
  <2>1. PICK sum : sum = [n \in 0..0 |-> 0]
    OBVIOUS
  <2>2. \A n \in 0..0 : SumStep(segs, ids, n, sum) = 0
    BY DEF SumStep
  <2>3. IsSum(segs, ids, 0, sum)
    BY <2>1, <2>2 DEF IsSum
  <2> QED
    BY <2>3
<1>2. ASSUME NEW k \in Nat, k \in T PROVE k + 1 \in T
  <2>1. PICK w : IsSum(segs, ids, k, w)
    BY <1>2
  <2>2. PICK v : v = [n \in 0..k + 1 |-> SumStep(segs, ids, n, w)]
    OBVIOUS
  <2>3. ASSUME NEW n \in 0..k PROVE v[n] = w[n]
    BY <2>1, <2>2 DEF IsSum
  <2>4. ASSUME NEW n \in 0..k + 1
        PROVE  SumStep(segs, ids, n, w) = SumStep(segs, ids, n, v)
    <3>1. n # 0 => v[n - 1] = w[n - 1]
      BY <2>3
    <3> QED
      BY <3>1 DEF SumStep
  <2>5. [n \in 0..k + 1 |-> SumStep(segs, ids, n, w)] = [n \in 0..k + 1 |-> SumStep(segs, ids, n, v)]
    BY <2>4, Zenon
  <2>6. IsSum(segs, ids, k + 1, v)
    BY <2>2, <2>5 DEF IsSum
  <2> QED
    BY <2>6
<1> HIDE DEF T
<1>3. m \in T
  BY <1>1, <1>2, NaturalSet
<1> QED
  BY <1>3 DEF T

SumOf(segs, ids) == CHOOSE sum : IsSum(segs, ids, MaxSegment, sum)

(* Bytes counts from 0 and adds the size of each id in turn.               *)
Counts(segs, ids, sum) ==
    /\ Bytes(segs, ids) = sum[MaxSegment]
    /\ sum[0] = 0
    /\ \A n \in Nat : n + 1 <= MaxSegment => sum[n + 1] = sum[n] + SizeIf(segs, ids, n + 1)

LEMMA BytesCounts ==
    ASSUME NEW segs, NEW ids
    PROVE  \E sum : Counts(segs, ids, sum)
<1>1. PICK sum : sum = SumOf(segs, ids)
  OBVIOUS
<1>2. MaxSegment \in Nat
  BY TiersAssumption
<1>3. IsSum(segs, ids, MaxSegment, sum)
  BY <1>1, <1>2, SumExists DEF SumOf
<1>4. Bytes(segs, ids) = sum[MaxSegment]
  BY <1>1 DEF Bytes, SumOf, IsSum, SumStep, SizeIf
<1>5. \A n \in 0..MaxSegment : sum[n] = SumStep(segs, ids, n, sum)
  BY <1>3 DEF IsSum
<1>6. sum[0] = 0
  <2>1. 0 \in 0..MaxSegment
    BY <1>2
  <2> QED
    BY <1>5, <2>1 DEF SumStep
<1>7. ASSUME NEW n \in Nat, n + 1 <= MaxSegment
      PROVE  sum[n + 1] = sum[n] + SizeIf(segs, ids, n + 1)
  <2>1. n + 1 \in 0..MaxSegment /\ n + 1 # 0 /\ (n + 1) - 1 = n
    BY <1>2, <1>7
  <2> QED
    BY <1>5, <2>1 DEF SumStep
<1> QED
  BY <1>4, <1>6, <1>7 DEF Counts

(* Ids whose sizes are no larger, one by one, hold no more bytes.          *)
NoLarger(segs, ids, other, more) ==
    \A n \in 1..MaxSegment :
        /\ SizeIf(segs, ids, n) \in Nat /\ SizeIf(other, more, n) \in Nat
        /\ SizeIf(segs, ids, n) <= SizeIf(other, more, n)

LEMMA BytesCompare ==
    ASSUME NEW segs, NEW ids, NEW other, NEW more, NoLarger(segs, ids, other, more)
    PROVE  /\ Bytes(segs, ids) \in Nat /\ Bytes(other, more) \in Nat
           /\ Bytes(segs, ids) <= Bytes(other, more)
<1>1. PICK f : Counts(segs, ids, f)
  BY BytesCounts
<1>2. PICK g : Counts(other, more, g)
  BY BytesCounts
<1>3. MaxSegment \in Nat
  BY TiersAssumption
<1> DEFINE T == {n \in Nat : n <= MaxSegment => f[n] \in Nat /\ g[n] \in Nat /\ f[n] <= g[n]}
<1>4. 0 \in T
  BY <1>1, <1>2 DEF Counts
<1>5. ASSUME NEW n \in Nat, n \in T PROVE n + 1 \in T
  <2> SUFFICES ASSUME n + 1 <= MaxSegment
               PROVE  f[n + 1] \in Nat /\ g[n + 1] \in Nat /\ f[n + 1] <= g[n + 1]
    OBVIOUS
  <2>1. f[n] \in Nat /\ g[n] \in Nat /\ f[n] <= g[n]
    BY <1>3, <1>5
  <2>2. n + 1 \in 1..MaxSegment
    BY <1>3
  <2>3. PICK a, b : a = SizeIf(segs, ids, n + 1) /\ b = SizeIf(other, more, n + 1)
    OBVIOUS
  <2>4. a \in Nat /\ b \in Nat /\ a <= b
    BY <2>2, <2>3 DEF NoLarger
  <2>5. f[n + 1] = f[n] + a /\ g[n + 1] = g[n] + b
    BY <1>1, <1>2, <2>3 DEF Counts
  <2> QED
    BY <2>1, <2>4, <2>5
<1> HIDE DEF T
<1>6. MaxSegment \in T
  BY <1>3, <1>4, <1>5, NaturalSet
<1> QED
  BY <1>1, <1>2, <1>3, <1>6 DEF T, Counts

LEMMA BytesEmpty ==
    ASSUME NEW segs
    PROVE  Bytes(segs, {}) = 0
<1>1. PICK f : Counts(segs, {}, f)
  BY BytesCounts
<1>2. MaxSegment \in Nat
  BY TiersAssumption
<1> DEFINE T == {n \in Nat : n <= MaxSegment => f[n] = 0}
<1>3. 0 \in T
  BY <1>1 DEF Counts
<1>4. ASSUME NEW n \in Nat, n \in T PROVE n + 1 \in T
  BY <1>1, <1>2, <1>4 DEF Counts, SizeIf
<1> HIDE DEF T
<1>5. MaxSegment \in T
  BY <1>2, <1>3, <1>4, NaturalSet
<1> QED
  BY <1>1, <1>2, <1>5 DEF T, Counts

LEMMA BytesOne ==
    ASSUME NEW segs, NEW id \in 1..MaxSegment, segs[id].size \in Nat
    PROVE  Bytes(segs, {id}) = segs[id].size
<1>1. PICK f : Counts(segs, {id}, f)
  BY BytesCounts
<1>2. MaxSegment \in Nat
  BY TiersAssumption
<1> DEFINE T == {n \in Nat : n <= MaxSegment => f[n] = IF n < id THEN 0 ELSE segs[id].size}
<1>3. 0 \in T
  BY <1>1 DEF Counts
<1>4. ASSUME NEW n \in Nat, n \in T PROVE n + 1 \in T
  <2> SUFFICES ASSUME n + 1 <= MaxSegment
               PROVE  f[n + 1] = IF n + 1 < id THEN 0 ELSE segs[id].size
    OBVIOUS
  <2>1. f[n] = IF n < id THEN 0 ELSE segs[id].size
    BY <1>2, <1>4
  <2>2. f[n + 1] = f[n] + SizeIf(segs, {id}, n + 1)
    BY <1>1 DEF Counts
  <2>3. CASE n + 1 = id
    <3>1. SizeIf(segs, {id}, n + 1) = segs[id].size
      BY <2>3 DEF SizeIf
    <3> QED
      BY <2>1, <2>2, <2>3, <3>1
  <2>4. CASE n + 1 # id
    <3>1. SizeIf(segs, {id}, n + 1) = 0
      BY <2>4 DEF SizeIf
    <3> QED
      BY <2>1, <2>2, <2>4, <3>1
  <2> QED
    BY <2>3, <2>4
<1> HIDE DEF T
<1>5. MaxSegment \in T
  BY <1>2, <1>3, <1>4, NaturalSet
<1>6. f[MaxSegment] = segs[id].size
  BY <1>2, <1>5 DEF T
<1> QED
  BY <1>1, <1>6 DEF Counts

-----------------------------------------------------------------------------
SegmentType == [size : Nat, tier : {Hot, Warm, Cold}, count : Nat, last : Nat]

Segmented(segs) ==
    /\ DOMAIN segs \subseteq 1..MaxSegment
    /\ \A id \in DOMAIN segs : segs[id] \in SegmentType

LEMMA BytesMonotone ==
    ASSUME NEW segs, Segmented(segs), NEW ids, NEW more, ids \subseteq more, more \subseteq DOMAIN segs
    PROVE  Bytes(segs, ids) \in Nat /\ Bytes(segs, more) \in Nat /\ Bytes(segs, ids) <= Bytes(segs, more)
<1>1. NoLarger(segs, ids, segs, more)
  BY DEF NoLarger, SizeIf, Segmented, SegmentType
<1> QED
  BY <1>1, BytesCompare

(* What a squeeze keeps: sizes, ages, and every tier but its own and the   *)
(* one below.                                                              *)
Squeezed(segs, tier, budget, after) ==
    /\ Segmented(after) /\ DOMAIN after = DOMAIN segs
    /\ \A id \in DOMAIN segs :
          /\ after[id].size = segs[id].size /\ after[id].last = segs[id].last
          /\ segs[id].tier # tier => after[id].tier = segs[id].tier
          /\ segs[id].tier = tier =>
                after[id].tier = IF Bytes(segs, {x \in In(segs, tier) : ~Older(segs, x, id)}) > budget
                                 THEN tier - 1 ELSE tier

LEMMA SqueezeFacts ==
    ASSUME NEW segs, Segmented(segs), NEW tier \in {Hot, Warm}, NEW budget, NEW after,
           after = Squeeze(segs, tier, budget)
    PROVE  Squeezed(segs, tier, budget, after)
<1>1. DOMAIN after = DOMAIN segs
  BY DEF Squeeze
<1>2. ASSUME NEW id \in DOMAIN segs
      PROVE  /\ after[id] \in SegmentType
             /\ after[id].size = segs[id].size /\ after[id].last = segs[id].last
             /\ segs[id].tier # tier => after[id].tier = segs[id].tier
             /\ segs[id].tier = tier =>
                   after[id].tier = IF Bytes(segs, {x \in In(segs, tier) : ~Older(segs, x, id)}) > budget
                                    THEN tier - 1 ELSE tier
  <2>1. PICK over : over = Bytes(segs, {x \in In(segs, tier) : ~Older(segs, x, id)})
    OBVIOUS
  <2>2. after[id] = IF id \in In(segs, tier) /\ over > budget
                    THEN [segs[id] EXCEPT !.tier = tier - 1] ELSE segs[id]
    BY <2>1 DEF Squeeze
  <2>3. segs[id] \in SegmentType /\ (id \in In(segs, tier) <=> segs[id].tier = tier)
    BY DEF Segmented, In
  <2>4. tier - 1 \in {Hot, Warm, Cold}
    BY DEF Hot, Warm, Cold
  <2>5. CASE segs[id].tier = tier /\ over > budget
    BY <2>1, <2>2, <2>3, <2>4, <2>5 DEF SegmentType
  <2>6. CASE ~(segs[id].tier = tier /\ over > budget)
    BY <2>1, <2>2, <2>3, <2>6
  <2> QED
    BY <2>5, <2>6
<1>3. Segmented(after)
  BY <1>1, <1>2 DEF Segmented
<1> QED
  BY <1>1, <1>2, <1>3 DEF Squeezed

(* A nonempty set of segments has an oldest.                               *)
LEMMA OldestExists ==
    ASSUME NEW segs, Segmented(segs), NEW ids, ids \subseteq DOMAIN segs, ids # {}
    PROVE  \E id \in ids : \A x \in ids : ~Older(segs, x, id)
<1>1. \A x \in ids : x \in Nat /\ segs[x].last \in Nat
  BY DEF Segmented, SegmentType
<1>2. PICK L : L = {segs[x].last : x \in ids}
  OBVIOUS
<1>3. L \in SUBSET Nat /\ L # {}
  BY <1>1, <1>2
<1>4. PICK l \in L : \A k \in L : l <= k
  BY <1>3, LeastNatural
<1>5. PICK M : M = {x \in ids : segs[x].last = l}
  OBVIOUS
<1>6. M \in SUBSET Nat /\ M # {}
  BY <1>1, <1>2, <1>4, <1>5
<1>7. PICK id \in M : \A x \in M : id <= x
  BY <1>6, LeastNatural
<1>8. ASSUME NEW x \in ids PROVE ~Older(segs, x, id)
  <2>1. x \in Nat /\ id \in Nat /\ segs[x].last \in Nat /\ l \in Nat /\ segs[id].last = l /\ l <= segs[x].last
    BY <1>1, <1>2, <1>3, <1>4, <1>5, <1>7
  <2>2. segs[x].last = l => id <= x
    BY <1>5, <1>7
  <2> QED
    BY <2>1, <2>2 DEF Older
<1> QED
  BY <1>5, <1>7, <1>8

LEMMA SqueezeFits ==
    ASSUME NEW segs, Segmented(segs), NEW tier \in {Hot, Warm}, NEW budget \in Nat, NEW after,
           after = Squeeze(segs, tier, budget)
    PROVE  Bytes(after, In(after, tier)) <= budget
<1>1. PICK left : left = In(after, tier)
  OBVIOUS
<1>0. Squeezed(segs, tier, budget, after)
  BY SqueezeFacts
<1>2. /\ Segmented(after) /\ DOMAIN after = DOMAIN segs
      /\ \A id \in DOMAIN segs : after[id].size = segs[id].size
  BY <1>0 DEF Squeezed
<1>3. ASSUME NEW id \in left
      PROVE  /\ id \in DOMAIN segs /\ segs[id].tier = tier
             /\ ~(Bytes(segs, {x \in In(segs, tier) : ~Older(segs, x, id)}) > budget)
  <2>1. id \in DOMAIN segs /\ after[id].tier = tier
    BY <1>1, <1>2 DEF In
  <2>2. /\ segs[id].tier # tier => after[id].tier = segs[id].tier
        /\ segs[id].tier = tier =>
              after[id].tier = IF Bytes(segs, {x \in In(segs, tier) : ~Older(segs, x, id)}) > budget
                               THEN tier - 1 ELSE tier
    BY <1>0, <2>1 DEF Squeezed
  <2>3. tier - 1 # tier
    BY DEF Hot, Warm
  <2> QED
    BY <2>1, <2>2, <2>3
<1>4. CASE left = {}
  BY <1>1, <1>4, BytesEmpty
<1>5. CASE left # {}
  <2>1. left \subseteq DOMAIN segs
    BY <1>3
  <2>2. PICK id \in left : \A x \in left : ~Older(segs, x, id)
    BY <1>5, <2>1, OldestExists
  <2>3. PICK kept : kept = {x \in In(segs, tier) : ~Older(segs, x, id)}
    OBVIOUS
  <2>4. left \subseteq kept /\ kept \subseteq DOMAIN segs
    BY <1>3, <2>2, <2>3 DEF In
  <2>5. Bytes(segs, left) \in Nat /\ Bytes(segs, kept) \in Nat /\ Bytes(segs, left) <= Bytes(segs, kept)
    BY <2>4, BytesMonotone
  <2>6. ~(Bytes(segs, kept) > budget)
    BY <1>3, <2>2, <2>3
  <2>7. NoLarger(after, left, segs, left)
    BY <1>2, <2>1 DEF NoLarger, SizeIf, Segmented, SegmentType
  <2>8. Bytes(after, left) \in Nat /\ Bytes(after, left) <= Bytes(segs, left)
    BY <2>7, BytesCompare
  <2> QED
    BY <1>1, <2>5, <2>6, <2>8
<1> QED
  BY <1>4, <1>5

(* What is younger than all others stays, if it fits alone.                *)
LEMMA SqueezeKeepsYoungest ==
    ASSUME NEW segs, Segmented(segs), NEW tier \in {Hot, Warm}, NEW budget \in Nat, NEW after,
           after = Squeeze(segs, tier, budget),
           NEW id \in DOMAIN segs, \A x \in DOMAIN segs : x # id => segs[x].last < segs[id].last,
           segs[id].tier = tier, segs[id].size <= budget
    PROVE  after[id].tier = tier
<1>1. PICK kept : kept = {x \in In(segs, tier) : ~Older(segs, x, id)}
  OBVIOUS
<1>2. kept = {id}
  <2>1. id \in In(segs, tier) /\ id \in Nat /\ segs[id].last \in Nat
    BY DEF In, Segmented, SegmentType
  <2>2. ~Older(segs, id, id)
    BY <2>1 DEF Older
  <2>3. ASSUME NEW x \in In(segs, tier), x # id PROVE Older(segs, x, id)
    BY <2>3 DEF Older, In
  <2> QED
    BY <1>1, <2>1, <2>2, <2>3
<1>3. id \in 1..MaxSegment /\ segs[id].size \in Nat
  BY DEF Segmented, SegmentType
<1>4. Bytes(segs, kept) = segs[id].size
  BY <1>2, <1>3, BytesOne
<1>5. after[id].tier = IF Bytes(segs, kept) > budget THEN tier - 1 ELSE tier
  BY <1>1, SqueezeFacts DEF Squeezed
<1> QED
  BY <1>3, <1>4, <1>5

-----------------------------------------------------------------------------
(* Nothing was used later than now.                                        *)
TiersInv ==
    /\ step \in Nat /\ Segmented(segments)
    /\ \A id \in DOMAIN segments : segments[id].last <= step

(* The room that an access makes, whatever the state it starts from.       *)
LEMMA EnforcedFacts ==
    ASSUME NEW segs, Segmented(segs), NEW after, after = EnforceCapacity(segs)
    PROVE  /\ Segmented(after) /\ DOMAIN after = DOMAIN segs
           /\ \A id \in DOMAIN segs : after[id].last = segs[id].last
<1>1. PICK mid : mid = Squeeze(segs, Hot, HotBytes)
  OBVIOUS
<1>2. Squeezed(segs, Hot, HotBytes, mid)
  BY <1>1, SqueezeFacts
<1>3. after = Squeeze(mid, Warm, WarmBytes) /\ Segmented(mid)
  BY <1>1, <1>2 DEF EnforceCapacity, Squeezed
<1>4. Squeezed(mid, Warm, WarmBytes, after)
  BY <1>3, SqueezeFacts
<1> QED
  BY <1>2, <1>4 DEF Squeezed

MadeRoom(after) ==
    /\ Bytes(after, In(after, Hot)) <= HotBytes
    /\ Bytes(after, In(after, Warm)) <= WarmBytes

LEMMA EnforcedFits ==
    ASSUME NEW segs, Segmented(segs), NEW after, after = EnforceCapacity(segs)
    PROVE  MadeRoom(after)
<1>1. PICK mid : mid = Squeeze(segs, Hot, HotBytes)
  OBVIOUS
<1>2. Squeezed(segs, Hot, HotBytes, mid)
  BY <1>1, SqueezeFacts
<1>3. after = Squeeze(mid, Warm, WarmBytes) /\ Segmented(mid)
  BY <1>1, <1>2 DEF EnforceCapacity, Squeezed
<1>4. Squeezed(mid, Warm, WarmBytes, after)
  BY <1>3, SqueezeFacts
<1>5. Bytes(mid, In(mid, Hot)) <= HotBytes
  BY <1>1, SqueezeFits, TiersAssumption
<1>6. Bytes(after, In(after, Warm)) <= WarmBytes
  BY <1>3, SqueezeFits, TiersAssumption
<1>7. In(after, Hot) = In(mid, Hot)
  <2>1. ASSUME NEW id \in DOMAIN mid PROVE after[id].tier = Hot <=> mid[id].tier = Hot
    <3>1. CASE mid[id].tier = Warm
      <4>1. after[id].tier = Warm - 1 \/ after[id].tier = Warm
        BY <1>4, <3>1 DEF Squeezed
      <4> QED
        BY <3>1, <4>1 DEF Warm, Hot
    <3>2. CASE mid[id].tier # Warm
      BY <1>4, <3>2 DEF Squeezed
    <3> QED
      BY <3>1, <3>2
  <2> QED
    BY <1>4, <2>1 DEF In, Squeezed
<1>8. NoLarger(after, In(mid, Hot), mid, In(mid, Hot))
  <2>1. \A id \in In(mid, Hot) : after[id].size = mid[id].size /\ mid[id].size \in Nat
    BY <1>3, <1>4 DEF Segmented, SegmentType, Squeezed, In
  <2> QED
    BY <2>1 DEF NoLarger, SizeIf
<1>9. /\ Bytes(after, In(mid, Hot)) \in Nat /\ Bytes(mid, In(mid, Hot)) \in Nat
      /\ Bytes(after, In(mid, Hot)) <= Bytes(mid, In(mid, Hot))
  BY <1>8, BytesCompare
<1> QED
  BY <1>5, <1>6, <1>7, <1>9, TiersAssumption DEF MadeRoom

(* The segment used last stays in its tier unless it alone is too large.   *)
LEMMA EnforcedKeepsUsed ==
    ASSUME NEW segs, Segmented(segs), NEW after, after = EnforceCapacity(segs),
           NEW id \in DOMAIN segs, \A x \in DOMAIN segs : x # id => segs[x].last < segs[id].last,
           \/ segs[id].tier = Cold
           \/ segs[id].tier = Warm /\ segs[id].size <= WarmBytes
           \/ segs[id].tier = Hot /\ segs[id].size <= HotBytes
    PROVE  after[id].tier = segs[id].tier
<1>0. Hot = 2 /\ Warm = 1 /\ Cold = 0 /\ HotBytes \in Nat /\ WarmBytes \in Nat
  BY TiersAssumption DEF Hot, Warm, Cold
<1>1. PICK mid : mid = Squeeze(segs, Hot, HotBytes)
  OBVIOUS
<1>2. Squeezed(segs, Hot, HotBytes, mid)
  BY <1>1, SqueezeFacts
<1>3. after = Squeeze(mid, Warm, WarmBytes) /\ Segmented(mid)
  BY <1>1, <1>2 DEF EnforceCapacity, Squeezed
<1>4. Squeezed(mid, Warm, WarmBytes, after)
  BY <1>3, SqueezeFacts
<1>5. mid[id].tier = segs[id].tier /\ mid[id].size = segs[id].size /\ id \in DOMAIN mid
  <2>1. CASE segs[id].tier = Hot /\ segs[id].size <= HotBytes
    <3>1. mid[id].tier = Hot
      BY <1>0, <1>1, <2>1, SqueezeKeepsYoungest
    <3> QED
      BY <1>2, <2>1, <3>1 DEF Squeezed
  <2>2. CASE segs[id].tier # Hot
    BY <1>2, <2>2 DEF Squeezed
  <2> QED
    BY <1>0, <2>1, <2>2
<1>6. \A x \in DOMAIN mid : x # id => mid[x].last < mid[id].last
  BY <1>2 DEF Squeezed
<1>7. CASE segs[id].tier = Warm /\ segs[id].size <= WarmBytes
  <2>1. mid[id].tier = Warm /\ mid[id].size <= WarmBytes
    BY <1>5, <1>7
  <2> QED
    BY <1>0, <1>3, <1>5, <1>6, <1>7, <2>1, SqueezeKeepsYoungest
<1>8. CASE segs[id].tier # Warm
  BY <1>4, <1>5, <1>8 DEF Squeezed
<1> QED
  BY <1>0, <1>7, <1>8

LEMMA TiersInitInv == TiersInit => TiersInv /\ AccessMakesRoom
BY DEF TiersInit, TiersInv, Segmented, AccessMakesRoom, None

LEMMA AccessInv ==
    ASSUME TiersInv, NEW id \in DOMAIN segments, RecordAccess(id)
    PROVE  TiersInv' /\ AccessMakesRoom'
<1>0. Hot = 2 /\ Warm = 1 /\ Cold = 0 /\ HotBytes \in Nat /\ WarmBytes \in Nat
  BY TiersAssumption DEF Hot, Warm, Cold
<1>1. PICK s : s = segments[id]
  OBVIOUS
<1>2. PICK tier : tier = IF s.tier = Cold /\ s.count + 1 >= 2 THEN Warm ELSE s.tier
  OBVIOUS
<1>3. PICK used : used = [s EXCEPT !.count = @ + 1, !.last = step + 1, !.tier = tier]
  OBVIOUS
<1>4. PICK segs : segs = [segments EXCEPT ![id] = used]
  OBVIOUS
<1>5. segments' = EnforceCapacity(segs) /\ answered' = {<<id, tier>>} /\ step' = step + 1
  BY <1>1, <1>2, <1>3, <1>4 DEF RecordAccess, Some
<1>6. s \in SegmentType /\ step \in Nat
  BY <1>1 DEF TiersInv, Segmented
<1>7. tier \in {Hot, Warm, Cold}
  BY <1>2, <1>6 DEF SegmentType
<1>8. used \in SegmentType /\ used.last = step + 1 /\ used.tier = tier /\ used.size = s.size
  <2>1. PICK n \in Nat : n = s.count + 1
    BY <1>6 DEF SegmentType
  <2>2. used = [s EXCEPT !.count = n, !.last = step + 1, !.tier = tier]
    BY <1>3, <2>1
  <2>3. step + 1 \in Nat /\ s \in [size : Nat, tier : {Hot, Warm, Cold}, count : Nat, last : Nat]
    BY <1>6 DEF SegmentType
  <2> QED
    BY <1>7, <2>2, <2>3 DEF SegmentType
<1>9. /\ DOMAIN segs = DOMAIN segments /\ segs[id] = used
      /\ \A x \in DOMAIN segments : x # id => segs[x] = segments[x]
  BY <1>4
<1>10. Segmented(segs) /\ \A x \in DOMAIN segs : x # id => segs[x].last < segs[id].last
  <2>1. \A x \in DOMAIN segments : segments[x].last <= step /\ segments[x].last \in Nat
    BY DEF TiersInv, Segmented, SegmentType
  <2> QED
    BY <1>6, <1>8, <1>9, <2>1 DEF TiersInv, Segmented
<1>11. /\ Segmented(segments') /\ DOMAIN segments' = DOMAIN segs
       /\ \A x \in DOMAIN segs : segments'[x].last = segs[x].last
  BY <1>5, <1>10, EnforcedFacts
<1>12. TiersInv'
  <2>1. \A x \in DOMAIN segs : segs[x].last <= step + 1
    BY <1>6, <1>8, <1>9 DEF TiersInv, Segmented, SegmentType
  <2> QED
    BY <1>5, <1>6, <1>11, <2>1 DEF TiersInv
<1>13. MadeRoom(segments')
  BY <1>5, <1>10, EnforcedFits
<1>14. segments'[id].size = s.size
  <2>1. PICK mid : mid = Squeeze(segs, Hot, HotBytes)
    OBVIOUS
  <2>2. Squeezed(segs, Hot, HotBytes, mid)
    BY <1>10, <2>1, SqueezeFacts
  <2>3. segments' = Squeeze(mid, Warm, WarmBytes) /\ Segmented(mid)
    BY <1>5, <2>1, <2>2 DEF EnforceCapacity, Squeezed
  <2>4. Squeezed(mid, Warm, WarmBytes, segments')
    BY <2>3, SqueezeFacts
  <2> QED
    BY <1>8, <1>9, <2>2, <2>4 DEF Squeezed
<1>15. ASSUME \/ tier = Cold
              \/ tier = Warm /\ s.size <= WarmBytes
              \/ tier = Hot /\ s.size <= HotBytes
       PROVE  segments'[id].tier = tier
  BY <1>5, <1>8, <1>9, <1>10, <1>15, EnforcedKeepsUsed
<1>16. PICK a : a = <<id, tier>> /\ a[1] = id /\ a[2] = tier
  <2>1. PICK a : a = <<id, tier>>
    OBVIOUS
  <2> QED
    BY <2>1
<1>17. LET budget == CASE a[2] = Hot -> HotBytes [] a[2] = Warm -> WarmBytes
                       [] a[2] = Cold -> segments'[a[1]].size
       IN  segments'[a[1]].size <= budget => segments'[a[1]].tier = a[2]
  BY <1>0, <1>7, <1>14, <1>15, <1>16
<1> QED
  BY <1>5, <1>12, <1>13, <1>16, <1>17 DEF AccessMakesRoom, MadeRoom

LEMMA TiersNextInv ==
    ASSUME TiersInv, AccessMakesRoom, TiersNext \/ UNCHANGED tierVars
    PROVE  TiersInv' /\ AccessMakesRoom'
<1>1. CASE UNCHANGED tierVars
  BY <1>1 DEF tierVars, TiersInv, AccessMakesRoom
<1>2. ASSUME NEW id \in 1..MaxSegment, NEW size \in Sizes, NEW tier \in {Hot, Warm, Cold},
             RegisterSegment(id, size, tier)
      PROVE  TiersInv' /\ AccessMakesRoom'
  <2>1. PICK r : r = [size |-> size, tier |-> tier, count |-> 0, last |-> step]
    OBVIOUS
  <2>2. segments' = Put(segments, id, r) /\ answered' = {} /\ step' = step /\ step \in Nat
    BY <1>2, <2>1 DEF RegisterSegment, None, TiersInv
  <2>3. r \in SegmentType /\ r.last = step
    BY <2>1, <2>2, TiersAssumption DEF SegmentType
  <2>4. /\ DOMAIN segments' = DOMAIN segments \union {id} /\ segments'[id] = r
        /\ \A x \in DOMAIN segments : x # id => segments'[x] = segments[x]
    BY <2>2 DEF Put
  <2>5. TiersInv'
    BY <2>2, <2>3, <2>4 DEF TiersInv, Segmented
  <2> QED
    BY <2>2, <2>5 DEF AccessMakesRoom
<1>3. ASSUME NEW id \in DOMAIN segments, NEW tier \in {Hot, Warm, Cold}, Migrate(id, tier)
      PROVE  TiersInv' /\ AccessMakesRoom'
  <2>1. PICK segs : segs = [segments EXCEPT ![id].tier = tier]
    OBVIOUS
  <2>2. segments' = EnforceCapacity(segs) /\ answered' = {} /\ step' = step
    BY <1>3, <2>1 DEF Migrate, None
  <2>3. Segmented(segs) /\ DOMAIN segs = DOMAIN segments
        /\ \A x \in DOMAIN segments : segs[x].last = segments[x].last
    <3>1. segments[id] \in SegmentType
      BY DEF TiersInv, Segmented
    <3>2. PICK r : r = [segments[id] EXCEPT !.tier = tier]
      OBVIOUS
    <3>3. r \in SegmentType /\ r.last = segments[id].last
      BY <3>1, <3>2 DEF SegmentType
    <3>4. segs = [segments EXCEPT ![id] = r]
      BY <2>1, <3>2
    <3> QED
      BY <3>3, <3>4 DEF TiersInv, Segmented
  <2>4. /\ Segmented(segments') /\ DOMAIN segments' = DOMAIN segs
        /\ \A x \in DOMAIN segs : segments'[x].last = segs[x].last
    BY <2>2, <2>3, EnforcedFacts
  <2>5. TiersInv'
    BY <2>2, <2>3, <2>4 DEF TiersInv
  <2> QED
    BY <2>2, <2>5 DEF AccessMakesRoom
<1> QED
  BY <1>1, <1>2, <1>3, AccessInv DEF TiersNext

(* Whatever was registered over the budgets, an access leaves both tiers   *)
(* within theirs, and the segment it used stays where record_access said,  *)
(* unless it alone is too large (record_access, enforce_capacity).         *)
THEOREM TiersAccessMakesRoom == TiersSpec => []AccessMakesRoom
BY TiersInitInv, TiersNextInv, PTL DEF TiersSpec

-----------------------------------------------------------------------------
(* Connector.                                                              *)

(* A byte of the framed packets.                                           *)
Byte(packets, i) ==
    [part |-> IF i % 2 = 1 THEN "head" ELSE "tail", of |-> packets[(i + 1) \div 2]]

(* What is in the read buffer and on the wire behind it is the packets.    *)
Carries(buf, wire, packets) ==
    /\ IsSeq(buf) /\ IsSeq(wire) /\ IsSeq(packets)
    /\ Len(buf) + Len(wire) = 2 * Len(packets)
    /\ \A i \in 1..Len(buf) : buf[i] = Byte(packets, i)
    /\ \A i \in 1..Len(wire) : wire[i] = Byte(packets, Len(buf) + i)

(* u is s followed by t.                                                   *)
IsJoin(s, t, u) ==
    /\ IsSeq(u)
    /\ Len(u) = Len(s) + Len(t)
    /\ \A i \in 1..Len(s) : u[i] = s[i]
    /\ \A i \in 1..Len(t) : u[Len(s) + i] = t[i]

LEMMA JoinFacts ==
    ASSUME NEW s, NEW t, IsSeq(s), IsSeq(t)
    PROVE  IsJoin(s, t, s \o t)
<1> DEFINE S == Range(s) \union Range(t)
<1>1. s \in Seq(S) /\ t \in Seq(S)
  BY DEF IsSeq
<1> HIDE DEF S
<1>2. /\ s \o t \in Seq(S)
      /\ Len(s \o t) = Len(s) + Len(t)
      /\ \A i \in 1..Len(s) + Len(t) :
            (s \o t)[i] = IF i <= Len(s) THEN s[i] ELSE t[i - Len(s)]
  BY <1>1, ConcatProperties
<1>3. Len(s) \in Nat /\ Len(t) \in Nat
  BY <1>1
<1>4. IsSeq(s \o t)
  BY <1>2, SeqFromDomain
<1>5. ASSUME NEW i \in 1..Len(s) PROVE (s \o t)[i] = s[i]
  BY <1>2, <1>3
<1>6. ASSUME NEW i \in 1..Len(t) PROVE (s \o t)[Len(s) + i] = t[i]
  <2>1. Len(s) + i \in 1..Len(s) + Len(t) /\ ~(Len(s) + i <= Len(s)) /\ Len(s) + i - Len(s) = i
    BY <1>3
  <2> QED
    BY <1>2, <2>1
<1> QED
  BY <1>2, <1>4, <1>5, <1>6 DEF IsJoin

(* u is what s has from m to n.                                            *)
IsPart(s, m, n, u) ==
    /\ IsSeq(u)
    /\ Len(u) = n - m + 1
    /\ \A i \in 1..n - m + 1 : u[i] = s[m + i - 1]

LEMMA PartFacts ==
    ASSUME NEW s, IsSeq(s), NEW m, NEW n, m \in 1..Len(s) + 1, n \in 0..Len(s), m <= n + 1
    PROVE  IsPart(s, m, n, SubSeq(s, m, n))
<1>1. s \in Seq(Range(s)) /\ Len(s) \in Nat
  BY DEF IsSeq
<1>2. /\ SubSeq(s, m, n) \in Seq(Range(s))
      /\ Len(SubSeq(s, m, n)) = n - m + 1
      /\ \A i \in 1..n - m + 1 : SubSeq(s, m, n)[i] = s[m + i - 1]
  BY <1>1, SubSeqProperties
<1> QED
  BY <1>2, SeqFromDomain DEF IsPart

LEMMA EncodeFacts ==
    ASSUME NEW packets, IsSeq(packets)
    PROVE  /\ IsSeq(EncodeAll(packets))
           /\ Len(EncodeAll(packets)) = 2 * Len(packets)
           /\ \A i \in 1..2 * Len(packets) : EncodeAll(packets)[i] = Byte(packets, i)
<1> DEFINE b == EncodeAll(packets)
<1>1. Len(packets) \in Nat
  BY SeqFacts
<1>2. b = [i \in 1..2 * Len(packets) |-> Byte(packets, i)]
  BY DEF EncodeAll, Byte
<1>3. b \in Seq({Byte(packets, i) : i \in 1..2 * Len(packets)}) /\ Len(b) = 2 * Len(packets)
  BY <1>1, <1>2
<1> QED
  BY <1>2, <1>3, SeqFromDomain

LEMMA ReadKeepsPackets ==
    ASSUME NEW buf, NEW wire, NEW P, Carries(buf, wire, P), NEW n \in 1..Len(wire),
           NEW front, IsPart(wire, 1, n, front),
           NEW back, IsPart(wire, n + 1, Len(wire), back),
           NEW read, IsJoin(buf, front, read)
    PROVE  Carries(read, back, P)
<1>1. Len(buf) \in Nat /\ Len(wire) \in Nat /\ Len(P) \in Nat
  BY SeqFacts DEF Carries
<1>2. IsSeq(front) /\ Len(front) = n /\ \A i \in 1..n : front[i] = wire[i]
  <2>1. n - 1 + 1 = n /\ \A i \in 1..n : 1 + i - 1 = i
    BY <1>1
  <2> QED
    BY <2>1 DEF IsPart
<1>3. IsSeq(back) /\ Len(back) = Len(wire) - n /\ \A i \in 1..Len(wire) - n : back[i] = wire[n + i]
  <2>1. Len(wire) - (n + 1) + 1 = Len(wire) - n /\ \A i \in 1..Len(wire) - n : (n + 1) + i - 1 = n + i
    BY <1>1
  <2> QED
    BY <2>1 DEF IsPart
<1>4. /\ IsSeq(read) /\ Len(read) = Len(buf) + n
      /\ \A i \in 1..Len(buf) : read[i] = buf[i]
      /\ \A i \in 1..n : read[Len(buf) + i] = front[i]
  BY <1>2 DEF IsJoin
<1>5. ASSUME NEW i \in 1..Len(read) PROVE read[i] = Byte(P, i)
  <2>1. CASE i <= Len(buf)
    BY <1>1, <1>4, <2>1 DEF Carries
  <2>2. CASE i > Len(buf)
    <3>1. i - Len(buf) \in 1..n /\ i = Len(buf) + (i - Len(buf))
      BY <1>1, <1>4, <2>2
    <3>2. PICK k \in 1..n : i = Len(buf) + k
      BY <3>1
    <3>3. k \in 1..Len(wire)
      BY <1>1
    <3> QED
      BY <1>2, <1>4, <3>2, <3>3 DEF Carries
  <2> QED
    BY <1>1, <1>4, <2>1, <2>2
<1>6. ASSUME NEW i \in 1..Len(back) PROVE back[i] = Byte(P, Len(read) + i)
  <2>1. i \in 1..Len(wire) - n /\ n + i \in 1..Len(wire) /\ Len(buf) + (n + i) = Len(read) + i
    BY <1>1, <1>3, <1>4
  <2>2. wire[n + i] = Byte(P, Len(buf) + (n + i))
    BY <2>1 DEF Carries
  <2> QED
    BY <1>3, <2>1, <2>2
<1>7. Len(read) + Len(back) = 2 * Len(P)
  <2>1. Len(buf) + Len(wire) = 2 * Len(P)
    BY DEF Carries
  <2>2. Len(read) = Len(buf) + n /\ Len(back) = Len(wire) - n
    BY <1>3, <1>4
  <2> QED
    BY <1>1, <2>1, <2>2
<1> QED
  BY <1>3, <1>4, <1>5, <1>6, <1>7 DEF Carries

LEMMA SendAddsPackets ==
    ASSUME NEW buf, NEW wire, NEW P, Carries(buf, wire, P), NEW R, IsSeq(R),
           NEW all, IsJoin(P, R, all),
           NEW bytes, IsJoin(wire, EncodeAll(R), bytes)
    PROVE  Carries(buf, bytes, all)
<1>1. Len(buf) \in Nat /\ Len(wire) \in Nat /\ Len(P) \in Nat /\ Len(R) \in Nat
  BY SeqFacts DEF Carries
<1>2. Len(buf) + Len(wire) = 2 * Len(P)
  BY DEF Carries
<1>3. PICK e : e = EncodeAll(R)
  OBVIOUS
<1>4. Len(e) = 2 * Len(R) /\ \A i \in 1..2 * Len(R) : e[i] = Byte(R, i)
  BY <1>3, EncodeFacts
<1>5. /\ IsSeq(bytes) /\ Len(bytes) = Len(wire) + 2 * Len(R)
      /\ \A i \in 1..Len(wire) : bytes[i] = wire[i]
      /\ \A i \in 1..2 * Len(R) : bytes[Len(wire) + i] = Byte(R, i)
  BY <1>3, <1>4 DEF IsJoin
<1>6. /\ IsSeq(all) /\ Len(all) = Len(P) + Len(R)
      /\ \A i \in 1..Len(P) : all[i] = P[i]
      /\ \A i \in 1..Len(R) : all[Len(P) + i] = R[i]
  BY DEF IsJoin
<1>7. ASSUME NEW i \in 1..2 * Len(P) PROVE Byte(P, i) = Byte(all, i)
  <2>1. (i + 1) \div 2 \in 1..Len(P)
    BY <1>1
  <2> QED
    BY <1>6, <2>1 DEF Byte
<1>8. ASSUME NEW i \in 1..2 * Len(R) PROVE Byte(R, i) = Byte(all, 2 * Len(P) + i)
  <2>1. /\ (i + 1) \div 2 \in 1..Len(R)
        /\ (2 * Len(P) + i + 1) \div 2 = Len(P) + (i + 1) \div 2
        /\ (2 * Len(P) + i) % 2 = i % 2
    BY <1>1
  <2> QED
    BY <1>6, <2>1 DEF Byte
<1>9. ASSUME NEW i \in 1..Len(buf) PROVE buf[i] = Byte(all, i)
  <2>1. i \in 1..2 * Len(P)
    BY <1>1, <1>2
  <2> QED
    BY <1>7, <2>1 DEF Carries
<1>10. ASSUME NEW i \in 1..Len(bytes) PROVE bytes[i] = Byte(all, Len(buf) + i)
  <2>1. CASE i \in 1..Len(wire)
    <3>1. Len(buf) + i \in 1..2 * Len(P)
      BY <1>1, <1>2, <2>1
    <3> QED
      BY <1>5, <1>7, <2>1, <3>1 DEF Carries
  <2>2. CASE i > Len(wire)
    <3>1. i - Len(wire) \in 1..2 * Len(R) /\ i = Len(wire) + (i - Len(wire))
      BY <1>1, <1>5, <2>2
    <3>2. PICK k \in 1..2 * Len(R) : i = Len(wire) + k
      BY <3>1
    <3>3. Len(buf) + i = 2 * Len(P) + k
      BY <1>1, <1>2, <3>2
    <3> QED
      BY <1>5, <1>8, <3>2, <3>3
  <2> QED
    BY <1>1, <2>1, <2>2
<1>11. Len(buf) + Len(bytes) = 2 * Len(all)
  <2>1. Len(bytes) = Len(wire) + 2 * Len(R) /\ Len(all) = Len(P) + Len(R)
    BY <1>5, <1>6
  <2> QED
    BY <1>1, <1>2, <2>1
<1> QED
  BY <1>5, <1>6, <1>9, <1>10, <1>11 DEF Carries

LEMMA TakeRemovesPacket ==
    ASSUME NEW buf, NEW wire, NEW P, Carries(buf, wire, P), Whole(buf),
           NEW left, IsPart(buf, 3, Len(buf), left),
           NEW rest, IsPart(P, 2, Len(P), rest)
    PROVE  buf[1].of = P[1] /\ Len(P) >= 1 /\ Carries(left, wire, rest)
<1>1. Len(buf) \in Nat /\ Len(wire) \in Nat /\ Len(P) \in Nat /\ Len(buf) >= 2
  BY SeqFacts DEF Carries, Whole
<1>2. Len(buf) + Len(wire) = 2 * Len(P)
  BY DEF Carries
<1>3. Len(P) >= 1 /\ buf[1] = Byte(P, 1)
  BY <1>1, <1>2 DEF Carries
<1>4. buf[1].of = P[1]
  <2>1. (1 + 1) \div 2 = 1
    OBVIOUS
  <2> QED
    BY <1>3, <2>1 DEF Byte
<1>5. IsSeq(left) /\ Len(left) = Len(buf) - 2 /\ \A i \in 1..Len(buf) - 2 : left[i] = buf[i + 2]
  <2>1. Len(buf) - 3 + 1 = Len(buf) - 2 /\ \A i \in 1..Len(buf) - 2 : 3 + i - 1 = i + 2
    BY <1>1
  <2> QED
    BY <2>1 DEF IsPart
<1>6. IsSeq(rest) /\ Len(rest) = Len(P) - 1 /\ \A i \in 1..Len(P) - 1 : rest[i] = P[i + 1]
  <2>1. Len(P) - 2 + 1 = Len(P) - 1 /\ \A i \in 1..Len(P) - 1 : 2 + i - 1 = i + 1
    BY <1>1
  <2> QED
    BY <2>1 DEF IsPart
<1>7. ASSUME NEW i \in 1..2 * Len(P) - 2 PROVE Byte(P, i + 2) = Byte(rest, i)
  <2>1. /\ (i + 1) \div 2 \in 1..Len(P) - 1
        /\ (i + 2 + 1) \div 2 = (i + 1) \div 2 + 1
        /\ (i + 2) % 2 = i % 2
    BY <1>1
  <2> QED
    BY <1>6, <2>1 DEF Byte
<1>8. ASSUME NEW i \in 1..Len(left) PROVE left[i] = Byte(rest, i)
  <2>1. i \in 1..Len(buf) - 2 /\ i + 2 \in 1..Len(buf) /\ i \in 1..2 * Len(P) - 2
    BY <1>1, <1>2, <1>5
  <2>2. buf[i + 2] = Byte(P, i + 2)
    BY <2>1 DEF Carries
  <2> QED
    BY <1>5, <1>7, <2>1, <2>2
<1>9. ASSUME NEW i \in 1..Len(wire) PROVE wire[i] = Byte(rest, Len(left) + i)
  <2>1. Len(left) + i \in 1..2 * Len(P) - 2 /\ Len(left) + i + 2 = Len(buf) + i
    BY <1>1, <1>2, <1>5
  <2>2. wire[i] = Byte(P, Len(buf) + i)
    BY DEF Carries
  <2> QED
    BY <1>7, <2>1, <2>2
<1>10. Len(left) + Len(wire) = 2 * Len(rest)
  BY <1>1, <1>2, <1>5, <1>6
<1>11. IsSeq(wire)
  BY DEF Carries
<1> QED
  BY <1>3, <1>4, <1>5, <1>6, <1>8, <1>9, <1>10, <1>11 DEF Carries

LEMMA ReadCarries ==
    ASSUME NEW buf, NEW wire, NEW P, Carries(buf, wire, P), wire # <<>>, NEW n \in {1, Len(wire)}
    PROVE  Carries(buf \o SubSeq(wire, 1, n), SubSeq(wire, n + 1, Len(wire)), P)
<1>1. IsSeq(buf) /\ IsSeq(wire)
  BY DEF Carries
<1>2. Len(wire) \in Nat /\ Len(wire) # 0
  BY <1>1, EmptySeq DEF IsSeq
<1>3. n \in 1..Len(wire) /\ n + 1 \in 1..Len(wire) + 1
  BY <1>2
<1>4. PICK front : front = SubSeq(wire, 1, n)
  OBVIOUS
<1>5. PICK back : back = SubSeq(wire, n + 1, Len(wire))
  OBVIOUS
<1>6. PICK read : read = buf \o front
  OBVIOUS
<1>7. IsPart(wire, 1, n, front)
  <2>1. 1 \in 1..Len(wire) + 1 /\ n \in 0..Len(wire) /\ 1 <= n + 1
    BY <1>2, <1>3
  <2> QED
    BY <1>1, <1>4, <2>1, PartFacts
<1>8. IsPart(wire, n + 1, Len(wire), back)
  <2>1. Len(wire) \in 0..Len(wire) /\ n + 1 <= Len(wire) + 1
    BY <1>2, <1>3
  <2> QED
    BY <1>1, <1>3, <1>5, <2>1, PartFacts
<1>9. IsJoin(buf, front, read)
  <2>1. IsSeq(front)
    BY <1>7 DEF IsPart
  <2> QED
    BY <1>1, <1>6, <2>1, JoinFacts
<1>10. Carries(read, back, P)
  BY <1>3, <1>7, <1>8, <1>9, ReadKeepsPackets
<1> QED
  BY <1>4, <1>5, <1>6, <1>10

LEMMA SendCarries ==
    ASSUME NEW buf, NEW wire, NEW P, Carries(buf, wire, P), NEW R, IsSeq(R)
    PROVE  /\ Carries(buf, wire \o EncodeAll(R), P \o R)
           /\ IsJoin(P, R, P \o R)
<1>1. IsSeq(wire) /\ IsSeq(P) /\ IsSeq(EncodeAll(R))
  BY EncodeFacts DEF Carries
<1>2. IsJoin(P, R, P \o R) /\ IsJoin(wire, EncodeAll(R), wire \o EncodeAll(R))
  BY <1>1, JoinFacts
<1> QED
  BY <1>2, SendAddsPackets

(* R is P without its first packet.                                        *)
Rested(P, R) == IsSeq(R) /\ Len(R) = Len(P) - 1 /\ \A i \in 1..Len(R) : R[i] = P[i + 1]

LEMMA TakeCarries ==
    ASSUME NEW buf, NEW wire, NEW P, Carries(buf, wire, P), Whole(buf)
    PROVE  /\ Len(P) \in Nat /\ Len(P) >= 1 /\ buf[1].of = P[1]
           /\ \E R : Rested(P, R) /\ Carries(SubSeq(buf, 3, Len(buf)), wire, R)
<1>1. IsSeq(buf) /\ IsSeq(wire) /\ IsSeq(P) /\ Len(buf) + Len(wire) = 2 * Len(P)
  BY DEF Carries
<1>2. Len(buf) \in Nat /\ Len(buf) >= 2 /\ Len(wire) \in Nat /\ Len(P) \in Nat
  BY <1>1, SeqFacts DEF Whole
<1>3. Len(P) >= 1
  BY <1>1, <1>2
<1>4. PICK R : R = SubSeq(P, 2, Len(P))
  OBVIOUS
<1>5. PICK left : left = SubSeq(buf, 3, Len(buf))
  OBVIOUS
<1>6. IsPart(P, 2, Len(P), R)
  <2>1. 2 \in 1..Len(P) + 1 /\ Len(P) \in 0..Len(P) /\ 2 <= Len(P) + 1
    BY <1>2, <1>3
  <2> QED
    BY <1>1, <1>4, <2>1, PartFacts
<1>7. IsPart(buf, 3, Len(buf), left)
  <2>1. 3 \in 1..Len(buf) + 1 /\ Len(buf) \in 0..Len(buf) /\ 3 <= Len(buf) + 1
    BY <1>2
  <2> QED
    BY <1>1, <1>5, <2>1, PartFacts
<1>8. buf[1].of = P[1] /\ Carries(left, wire, R)
  BY <1>6, <1>7, TakeRemovesPacket
<1>9. Rested(P, R)
  <2>1. Len(P) - 2 + 1 = Len(P) - 1 /\ \A i \in 1..Len(P) - 1 : 2 + i - 1 = i + 1
    BY <1>2
  <2> QED
    BY <1>6, <2>1 DEF IsPart, Rested
<1> QED
  BY <1>2, <1>3, <1>5, <1>8, <1>9

LEMMA BytesAreFramed ==
    ASSUME NEW buf, NEW wire, NEW P, Carries(buf, wire, P)
    PROVE  /\ ~Garbled(buf)
           /\ wire = <<>> /\ Incomplete(buf) => P = <<>>
           /\ P = <<>> => buf = <<>> /\ wire = <<>>
<1>1. IsSeq(buf) /\ IsSeq(wire) /\ IsSeq(P)
  BY DEF Carries
<1>2. Len(buf) \in Nat /\ Len(wire) \in Nat /\ Len(P) \in Nat
  BY <1>1, SeqFacts
<1>3. Len(buf) + Len(wire) = 2 * Len(P)
  BY DEF Carries
<1>4. \A s : IsSeq(s) => (s = <<>> <=> Len(s) = 0)
  BY EmptySeq DEF IsSeq
<1>5. buf # <<>> => buf[1].part = "head"
  <2> SUFFICES ASSUME buf # <<>> PROVE buf[1].part = "head"
    OBVIOUS
  <2>1. 1 \in 1..Len(buf)
    BY <1>1, <1>2, <1>4
  <2>2. buf[1] = Byte(P, 1) /\ 1 % 2 = 1
    BY <2>1 DEF Carries
  <2> QED
    BY <2>2 DEF Byte
<1>6. ~Garbled(buf)
  BY <1>5 DEF Garbled
<1>7. ASSUME wire = <<>>, Incomplete(buf) PROVE P = <<>>
  <2>1. Len(wire) = 0
    BY <1>7
  <2>2. ~(Len(buf) >= 2) \/ buf = <<>>
    BY <1>5, <1>7 DEF Incomplete, Whole
  <2>3. Len(buf) = 0 \/ Len(buf) < 2
    BY <1>1, <1>2, <1>4, <2>2
  <2>4. Len(P) = 0
    BY <1>2, <1>3, <2>1, <2>3
  <2> QED
    BY <1>1, <1>4, <2>4
<1>8. ASSUME P = <<>> PROVE buf = <<>> /\ wire = <<>>
  <2>1. Len(P) = 0
    BY <1>8
  <2>2. Len(buf) = 0 /\ Len(wire) = 0
    BY <1>2, <1>3, <2>1
  <2> QED
    BY <1>1, <1>4, <2>2
<1> QED
  BY <1>6, <1>7, <1>8

LEMMA NothingCarried == Carries(<<>>, <<>>, <<>>)
<1>1. IsSeq(<<>>) /\ Len(<<>>) = 0
  BY DEF IsSeq
<1> QED
  BY <1>1 DEF Carries

LEMMA OnePacket ==
    ASSUME NEW p
    PROVE  IsSeq(<<p>>) /\ Len(<<p>>) = 1 /\ <<p>>[1] = p
<1>1. <<p>> \in Seq({p})
  OBVIOUS
<1> QED
  BY <1>1, SeqFromDomain

(* Every packet but the first ones of a query's answer closes an answer.   *)
Final(p) == p.type \notin {"QueryResponse", "StreamRecord"}

(* The requests a call that gave up may leave without an answer.           *)
Plain == {"Ping", "DescribeRequest", "QueryRequest", "UnsubscribeRequest"}

(* P is under way to the client and Q to the server: one closing packet, or *)
(* two of them, are still to come.                                         *)
One(P, Q) == Len(Q) >= 1 \/ \E i \in 1..Len(P) : Final(P[i])

Two(P, Q) ==
    \/ Len(Q) >= 2
    \/ Len(Q) = 1 /\ \E i \in 1..Len(P) : Final(P[i])
    \/ \E i, j \in 1..Len(P) : i < j /\ Final(P[i]) /\ Final(P[j])

Closing(type) ==
    CASE type = "Ping" -> "Pong"
      [] type = "DescribeRequest" -> "DescribeResponse"
      [] type = "UnsubscribeRequest" -> "UnsubscribeResponse"
      [] OTHER -> "StreamEnd"

(* The events from + 1 to to of a subscription.                            *)
Lives(P, from, to) ==
    /\ Len(P) = to - from
    /\ \A i \in 1..Len(P) : P[i].type = "LiveEvent" /\ P[i].n = from + i

(* What is under way while connect waits for the handshake.                *)
Connecting(P, Q) ==
    /\ ~late
    /\ request.type = "HandshakeRequest" /\ request.n = calls
    /\ \/ server = "hello" /\ P = <<>> /\ Q = <<request>>
       \/ /\ server \in {"loop", "off"} /\ Q = <<>> /\ Len(P) = 1
          /\ P[1].type = "HandshakeResponse" /\ P[1].n = calls
          /\ P[1].ok => server = "loop"
       \/ server = "off" /\ P = <<>>

(* Between two calls nothing is under way.                                 *)
Idle(P, Q) ==
    /\ P = <<>>
    /\ server = "off" \/ (server = "loop" /\ Q = <<>> /\ answer.n = calls)

(* The rest of the answer to ping, describe or query.                      *)
Answered(P, Q) ==
    /\ server = "loop" /\ Q = <<>> /\ Len(P) >= 1
    /\ P[Len(P)].type = Closing(request.type) /\ P[Len(P)].n = calls
    /\ \A i \in 1..Len(P) - 1 : ~Final(P[i]) /\ request.type = "QueryRequest"

(* The answer to subscribe and the events already pushed behind it.        *)
Accepted(P, Q) ==
    /\ server \in {"loop", "stream"} /\ Q = <<>> /\ Len(P) >= 1
    /\ P[1].type = "SubscribeResponse" /\ P[1].n = calls
    /\ P[1].ok => /\ server = "stream" /\ pushed = Len(P) - 1
                  /\ \A i \in 2..Len(P) : P[i].type = "LiveEvent" /\ P[i].n = i - 1

(* What is under way while a call waits: its request, or the answer.       *)
Asking(P, Q) ==
    /\ request.n = calls
    /\ request.type = "SubscribeRequest" => got = <<>>
    /\ \/ server = "off" /\ P = <<>>
       \/ server = "loop" /\ P = <<>> /\ Q = <<request>>
       \/ request.type \in Plain /\ Answered(P, Q)
       \/ request.type = "SubscribeRequest" /\ Accepted(P, Q)

(* What is under way in a subscription: the events not returned yet.       *)
Streaming(P, Q) ==
    /\ ~late /\ server = "stream" /\ Q = <<>> /\ answer.n = calls
    /\ IsSeq(got) /\ got = [i \in DOMAIN got |-> i] /\ Len(got) <= pushed
    /\ Lives(P, Len(got), pushed)

(* What is under way while unsubscribe waits.                              *)
Leaving(P, Q) ==
    /\ ~late /\ request.type = "UnsubscribeRequest" /\ request.n = calls
    /\ \/ /\ server = "stream" /\ Q = <<request>>
          /\ \A i \in 1..Len(P) : P[i].type = "LiveEvent"
       \/ /\ server = "loop" /\ Q = <<>> /\ Len(P) >= 1
          /\ \A i \in 1..Len(P) - 1 : P[i].type = "LiveEvent"
          /\ P[Len(P)].type = "UnsubscribeResponse" /\ P[Len(P)].n = calls

(* A call gave up on this connection: answers of earlier calls come first, *)
(* and none of them is the answer to a subscribe.                          *)
Behind(P, Q, owed) ==
    /\ \A i \in 1..Len(P) : P[i].type # "SubscribeResponse"
    /\ server # "off" =>
          /\ server \in {"loop", "stream"}
          /\ \A i \in 1..Len(Q) : Q[i].type \in Plain
          /\ server = "stream" => Len(Q) >= 1 /\ Q[1].type = "UnsubscribeRequest"
          /\ owed

(* A subscribe on such a connection meets the answer of another call.      *)
Refused(P, Q) ==
    \/ Len(P) >= 1 /\ P[1].type # "SubscribeResponse"
    \/ P = <<>> /\ server = "off"
    \/ /\ P = <<>> /\ server \in {"loop", "stream"}
       /\ Len(Q) >= 2 /\ Q[1].type \in Plain
       /\ server = "stream" => Q[1].type = "UnsubscribeRequest"

Aligned(P, Q) ==
    /\ client \in {"connecting", "ready", "asking", "subscribed", "polling", "leaving"}
    /\ client = "connecting" => Connecting(P, Q)
    /\ client = "ready" /\ ~late => Idle(P, Q)
    /\ client = "ready" /\ late => Behind(P, Q, One(P, Q))
    /\ client = "asking" =>
          request.type \in {"Ping", "DescribeRequest", "QueryRequest", "SubscribeRequest"}
    /\ client = "asking" /\ ~late => Asking(P, Q)
    /\ client = "asking" /\ late /\ request.type \in Plain => Behind(P, Q, Two(P, Q))
    /\ client = "asking" /\ late /\ request.type = "SubscribeRequest" => Refused(P, Q)
    /\ client \in {"subscribed", "polling"} => Streaming(P, Q)
    /\ client = "leaving" => Leaving(P, Q)

ConnectorSpec == ConnectorInit /\ [][ConnectorNext]_connectorVars

(* Frames are whole on both streams, and what they carry is what the call  *)
(* that is running calls for.                                              *)
ConnectorInv ==
    /\ calls \in Nat /\ pushed \in Nat /\ server \in {"off", "hello", "loop", "stream"}
    /\ ~late => result # "violation"
    /\ client # "off" =>
          \E P, Q : Carries(downBuf, down, P) /\ Carries(upBuf, up, Q) /\ Aligned(P, Q)

LEMMA ConnectorInitInv == ConnectorInit => ConnectorInv
BY DEF ConnectorInit, ConnectorInv

(* A step that moves bytes only.                                           *)
LEMMA ReadInv ==
    ASSUME ConnectorInv, ClientRead \/ ServerRead
    PROVE  ConnectorInv'
<1>1. UNCHANGED <<client, request, server, pushed, got, result, answer, calls, late>>
  BY DEF ClientRead, ServerRead
<1> SUFFICES ASSUME client # "off"
             PROVE  \E P, Q : Carries(downBuf', down', P) /\ Carries(upBuf', up', Q) /\ Aligned(P, Q)'
  BY <1>1 DEF ConnectorInv
<1>2. PICK P, Q : Carries(downBuf, down, P) /\ Carries(upBuf, up, Q) /\ Aligned(P, Q)
  BY DEF ConnectorInv
<1>3. Aligned(P, Q)'
  BY <1>1, <1>2 DEF Aligned, Connecting, Idle, Answered, Accepted, Asking, Streaming, Leaving,
                    Behind, Refused
<1>4. CASE ClientRead
  <2>1. PICK n \in {1, Len(down)} :
            downBuf' = downBuf \o SubSeq(down, 1, n) /\ down' = SubSeq(down, n + 1, Len(down))
    BY <1>4 DEF ClientRead
  <2>2. down # <<>> /\ UNCHANGED <<up, upBuf>>
    BY <1>4 DEF ClientRead
  <2>3. Carries(downBuf', down', P)
    BY <1>2, <2>1, <2>2, ReadCarries
  <2> QED
    BY <1>2, <1>3, <2>2, <2>3
<1>5. CASE ServerRead
  <2>1. PICK n \in {1, Len(up)} :
            upBuf' = upBuf \o SubSeq(up, 1, n) /\ up' = SubSeq(up, n + 1, Len(up))
    BY <1>5 DEF ServerRead
  <2>2. up # <<>> /\ UNCHANGED <<down, downBuf>>
    BY <1>5 DEF ServerRead
  <2>3. Carries(upBuf', up', Q)
    BY <1>2, <2>1, <2>2, ReadCarries
  <2> QED
    BY <1>2, <1>3, <2>2, <2>3
<1> QED
  BY <1>4, <1>5

LEMMA NextEventInv ==
    ASSUME ConnectorInv, NextEvent
    PROVE  ConnectorInv'
<1>1. /\ client = "subscribed" /\ client' = "polling"
      /\ UNCHANGED <<request, server, up, down, upBuf, downBuf, pushed, got, result, answer, calls, late>>
  BY DEF NextEvent
<1>2. PICK P, Q : Carries(downBuf, down, P) /\ Carries(upBuf, up, Q) /\ Aligned(P, Q)
  BY <1>1 DEF ConnectorInv
<1>3. Aligned(P, Q)'
  BY <1>1, <1>2 DEF Aligned, Streaming
<1> QED
  BY <1>1, <1>2, <1>3 DEF ConnectorInv

LEMMA ConnectInv ==
    ASSUME ConnectorInv, NEW version, Connect(version)
    PROVE  ConnectorInv'
<1>1. /\ client' = "connecting" /\ server' = "hello" /\ calls' = calls + 1
      /\ request' = Packet("HandshakeRequest", version, calls + 1)
      /\ up' = EncodeAll(<<request'>>)
      /\ down' = <<>> /\ upBuf' = <<>> /\ downBuf' = <<>>
      /\ result' = "none" /\ late' = FALSE /\ pushed' = pushed
  BY DEF Connect, Request, Encode
<1>2. PICK q : q = request'
  OBVIOUS
<1>3. IsSeq(<<q>>) /\ IsSeq(EncodeAll(<<q>>))
  BY OnePacket, EncodeFacts
<1>4. Carries(<<>>, EncodeAll(<<q>>), <<q>>)
  <2>1. Carries(<<>>, <<>> \o EncodeAll(<<q>>), <<>> \o <<q>>)
    BY <1>3, NothingCarried, SendCarries
  <2>2. <<>> \o <<q>> = <<q>>
    OBVIOUS
  <2>3. PICK e : e = EncodeAll(<<q>>)
    OBVIOUS
  <2>4. e \in Seq(Range(e))
    BY <1>3, <2>3 DEF IsSeq
  <2>5. <<>> \o e = e
    BY <2>4
  <2> QED
    BY <2>1, <2>2, <2>3, <2>5
<1>5. Aligned(<<>>, <<q>>)'
  <2>1. request'.type = "HandshakeRequest" /\ request'.n = calls' /\ ~late'
    BY <1>1 DEF Packet
  <2>2. Connecting(<<>>, <<q>>)'
    BY <1>1, <1>2, <2>1 DEF Connecting
  <2> QED
    BY <1>1, <2>2 DEF Aligned
<1>6. Carries(downBuf', down', <<>>) /\ Carries(upBuf', up', <<q>>)
  BY <1>1, <1>2, <1>4, NothingCarried
<1>7. calls' \in Nat /\ pushed' \in Nat /\ result' # "violation"
  BY <1>1 DEF ConnectorInv
<1> QED
  BY <1>1, <1>5, <1>6, <1>7 DEF ConnectorInv

(* A call sends its request.                                               *)
Sending(type, to) ==
    /\ calls' = calls + 1 /\ client' = to
    /\ request'.type = type /\ request'.n = calls + 1
    /\ type = "SubscribeRequest" => got' = <<>>
    /\ up' = up \o EncodeAll(<<request'>>)
    /\ UNCHANGED <<pushed, answer, server, down, upBuf, downBuf, result, late>>

LEMMA SendAligned ==
    ASSUME NEW P, NEW Q, IsSeq(P), IsSeq(Q), Aligned(P, Q), calls \in Nat,
           NEW type, NEW to, Sending(type, to),
           NEW R, IsJoin(Q, <<request'>>, R),
           \/ /\ client = "ready" /\ to = "asking"
              /\ type \in {"Ping", "DescribeRequest", "QueryRequest", "SubscribeRequest"}
           \/ client = "subscribed" /\ to = "leaving" /\ type = "UnsubscribeRequest"
    PROVE  Aligned(P, R)'
<1>1. Len(P) \in Nat /\ Len(Q) \in Nat
  BY SeqFacts
<1>2. /\ IsSeq(R) /\ Len(R) = Len(Q) + 1 /\ R[Len(Q) + 1] = request'
      /\ \A i \in 1..Len(Q) : R[i] = Q[i]
  <2>1. Len(<<request'>>) = 1 /\ <<request'>>[1] = request'
    BY OnePacket
  <2> QED
    BY <2>1 DEF IsJoin
<1>3. Q = <<>> => R = <<request'>>
  <2> SUFFICES ASSUME Q = <<>> PROVE R = <<request'>>
    OBVIOUS
  <2>1. Len(R) = 1 /\ R[1] = request' /\ R \in Seq(Range(R))
    BY <1>2 DEF IsSeq
  <2> QED
    BY <2>1
<1>4. CASE client = "subscribed"
  <2>1. Streaming(P, Q) /\ client' = "leaving" /\ request'.type = "UnsubscribeRequest"
    BY <1>4 DEF Aligned, Sending
  <2>2. Leaving(P, R)'
    BY <1>1, <1>3, <2>1 DEF Streaming, Leaving, Lives, Sending
  <2> QED
    BY <2>1, <2>2 DEF Aligned
<1>5. CASE client = "ready" /\ ~late
  <2>1. Idle(P, Q) /\ client' = "asking" /\ request'.type = type
    BY <1>5 DEF Aligned, Sending
  <2>2. Asking(P, R)' /\ ~late'
    BY <1>3, <1>5, <2>1 DEF Idle, Asking, Sending
  <2> QED
    BY <1>5, <2>1, <2>2 DEF Aligned
<1>6. CASE client = "ready" /\ late
  <2>1. Behind(P, Q, One(P, Q)) /\ client' = "asking" /\ request'.type = type /\ late' /\ server' = server
    BY <1>6 DEF Aligned, Sending
  <2>2. CASE type = "SubscribeRequest"
    <3>1. P # <<>> => Len(P) >= 1
      BY <1>1, EmptySeq DEF IsSeq
    <3>2. ASSUME P # <<>> PROVE Refused(P, R)'
      BY <1>1, <2>1, <3>1, <3>2 DEF Behind, Refused
    <3>3. ASSUME P = <<>>, server # "off" PROVE Refused(P, R)'
      <4>1. Len(P) = 0
        BY <3>3
      <4>2. Len(Q) >= 1
        BY <1>1, <2>1, <3>3, <4>1 DEF Behind, One
      <4>3. Len(R) >= 2 /\ R[1] = Q[1] /\ Q[1].type \in Plain
        BY <1>1, <1>2, <2>1, <3>3, <4>2 DEF Behind
      <4> QED
        BY <2>1, <3>3, <4>3 DEF Behind, Refused
    <3>4. Refused(P, R)'
      BY <2>1, <3>2, <3>3 DEF Refused
    <3> QED
      BY <1>6, <2>1, <2>2, <3>4 DEF Aligned, Plain
  <2>3. CASE type # "SubscribeRequest"
    <3>1. type \in Plain
      BY <1>6, <2>3 DEF Plain
    <3>2. server # "off" => \A i \in 1..Len(R) : R[i].type \in Plain
      BY <1>1, <1>2, <2>1, <3>1 DEF Behind
    <3>3. server # "off" => Two(P, R)
      BY <1>1, <1>2, <2>1 DEF Behind, One, Two
    <3>4. server = "stream" => Len(R) >= 1 /\ R[1] = Q[1]
      BY <1>1, <1>2, <2>1 DEF Behind
    <3>5. Behind(P, R, Two(P, R))'
      BY <2>1, <3>2, <3>3, <3>4 DEF Behind, Two
    <3> QED
      BY <1>6, <2>1, <2>3, <3>1, <3>5 DEF Aligned
  <2> QED
    BY <2>2, <2>3
<1> QED
  BY <1>4, <1>5, <1>6

LEMMA SendInv ==
    ASSUME ConnectorInv, NEW type, NEW to, Sending(type, to),
           \/ /\ client = "ready" /\ to = "asking"
              /\ type \in {"Ping", "DescribeRequest", "QueryRequest", "SubscribeRequest"}
           \/ client = "subscribed" /\ to = "leaving" /\ type = "UnsubscribeRequest"
    PROVE  ConnectorInv'
<1>1. PICK P, Q : Carries(downBuf, down, P) /\ Carries(upBuf, up, Q) /\ Aligned(P, Q)
  BY DEF ConnectorInv
<1>2. PICK R : R = Q \o <<request'>>
  OBVIOUS
<1>3. Carries(upBuf, up \o EncodeAll(<<request'>>), R) /\ IsJoin(Q, <<request'>>, R)
  BY <1>1, <1>2, OnePacket, SendCarries
<1>4. IsSeq(P) /\ IsSeq(Q) /\ calls \in Nat
  BY <1>1 DEF Carries, ConnectorInv
<1>5. Aligned(P, R)'
  BY <1>1, <1>3, <1>4, SendAligned
<1>6. Carries(downBuf', down', P) /\ Carries(upBuf', up', R)
  BY <1>1, <1>3 DEF Sending
<1>7. /\ calls' \in Nat /\ pushed' \in Nat /\ (~late' => result' # "violation")
      /\ server' \in {"off", "hello", "loop", "stream"}
  BY <1>4 DEF Sending, ConnectorInv
<1> QED
  BY <1>5, <1>6, <1>7 DEF ConnectorInv

LEMMA CallInv ==
    ASSUME ConnectorInv, NEW ok,
           NEW type \in {"Ping", "DescribeRequest", "QueryRequest", "SubscribeRequest"}, Call(type, ok)
    PROVE  ConnectorInv'
<1>1. Sending(type, "asking") /\ client = "ready"
  BY DEF Call, Request, Send, Encode, Packet, Sending
<1> QED
  BY <1>1, SendInv

LEMMA UnsubscribeInv ==
    ASSUME ConnectorInv, Unsubscribe
    PROVE  ConnectorInv'
<1>1. client # "ended"
  BY DEF ConnectorInv, Aligned
<1>2. Sending("UnsubscribeRequest", "leaving") /\ client = "subscribed"
  BY <1>1 DEF Unsubscribe, Request, Send, Encode, Packet, Sending
<1> QED
  BY <1>2, SendInv

LEMMA DropInv ==
    ASSUME ConnectorInv, Drop
    PROVE  ConnectorInv'
BY DEF Drop, ConnectorInv

LEMMA ClientTimeoutInv ==
    ASSUME ConnectorInv, ClientTimeout
    PROVE  ConnectorInv'
<1>1. /\ Waiting /\ client' = Left("timeout")
      /\ result' \in {"ok", "timeout"}
      /\ late' <=> late \/ Left("timeout") = "ready"
      /\ UNCHANGED <<request, server, up, down, upBuf, downBuf, pushed, got, answer, calls>>
  BY DEF ClientTimeout, Fail
<1> SUFFICES ASSUME client' # "off"
             PROVE  \E P, Q : Carries(downBuf', down', P) /\ Carries(upBuf', up', Q) /\ Aligned(P, Q)'
  BY <1>1 DEF ConnectorInv
<1>2. PICK P, Q : Carries(downBuf, down, P) /\ Carries(upBuf, up, Q) /\ Aligned(P, Q)
  BY <1>1 DEF ConnectorInv, Waiting
<1>3. Len(P) \in Nat /\ Len(Q) \in Nat
  BY <1>2, SeqFacts DEF Carries
<1>4. ASSUME client = "polling" PROVE Aligned(P, Q)'
  <2>1. client' = "subscribed" /\ (late' <=> late)
    BY <1>1, <1>4 DEF Left
  <2>2. Streaming(P, Q)'
    BY <1>1, <1>2, <1>4, <2>1 DEF Aligned, Streaming
  <2> QED
    BY <1>1, <1>2, <2>1, <2>2 DEF Aligned
<1>5. ASSUME client \in {"asking", "leaving"}, client = "asking" => request.type # "SubscribeRequest"
      PROVE  Aligned(P, Q)'
  <2>1. client' = "ready" /\ late'
    BY <1>1, <1>5 DEF Left
  <2>2. Behind(P, Q, One(P, Q)) => Behind(P, Q, One(P, Q))'
    BY <1>1 DEF Behind
  <2> SUFFICES Behind(P, Q, One(P, Q))
    BY <2>1, <2>2 DEF Aligned
  <2>3. CASE client = "asking" /\ ~late
    <3>1. request.type \in Plain /\ Asking(P, Q)
      BY <1>2, <1>5, <2>3 DEF Aligned, Plain
    <3>2. CASE server = "off" /\ P = <<>>
      BY <3>2 DEF Behind
    <3>3. CASE server = "loop" /\ P = <<>> /\ Q = <<request>>
      BY <3>1, <3>3 DEF Behind, One
    <3>4. CASE Answered(P, Q)
      <4>1. \A i \in 1..Len(P) : P[i].type # "SubscribeResponse"
        BY <1>3, <3>4 DEF Answered, Final, Closing
      <4>2. Final(P[Len(P)]) /\ Len(P) \in 1..Len(P) /\ Len(Q) = 0
        BY <1>3, <3>4 DEF Answered, Final, Closing
      <4>3. One(P, Q)
        BY <4>2 DEF One
      <4> QED
        BY <3>4, <4>1, <4>2, <4>3 DEF Behind, Answered
    <3> QED
      BY <3>1, <3>2, <3>3, <3>4, <1>5, <2>3 DEF Asking
  <2>4. CASE client = "asking" /\ late
    <3>1. Behind(P, Q, Two(P, Q))
      BY <1>2, <1>5, <2>4 DEF Aligned, Plain
    <3>2. Two(P, Q) => One(P, Q)
      BY <1>3 DEF One, Two
    <3> QED
      BY <3>1, <3>2 DEF Behind
  <2>5. CASE client = "leaving"
    <3>1. Leaving(P, Q)
      BY <1>2, <2>5 DEF Aligned
    <3>2. CASE server = "stream"
      <4>1. Len(Q) = 1 /\ Q[1] = request /\ request.type = "UnsubscribeRequest"
        BY <3>1, <3>2 DEF Leaving
      <4>2. \A i \in 1..Len(P) : P[i].type # "SubscribeResponse"
        BY <3>1, <3>2 DEF Leaving
      <4> QED
        BY <3>2, <4>1, <4>2 DEF Behind, One, Plain
    <3>3. CASE server = "loop"
      <4>1. \A i \in 1..Len(P) : P[i].type # "SubscribeResponse"
        BY <1>3, <3>1, <3>3 DEF Leaving
      <4>2. Final(P[Len(P)]) /\ Len(P) \in 1..Len(P) /\ Len(Q) = 0
        BY <1>3, <3>1, <3>3 DEF Leaving, Final
      <4> QED
        BY <3>3, <4>1, <4>2 DEF Behind, One
    <3> QED
      BY <3>1, <3>2, <3>3 DEF Leaving
  <2> QED
    BY <1>5, <2>3, <2>4, <2>5
<1>6. Carries(downBuf', down', P) /\ Carries(upBuf', up', Q)
  BY <1>1, <1>2
<1>7. Aligned(P, Q)'
  BY <1>1, <1>4, <1>5 DEF Waiting, Left
<1> QED
  BY <1>6, <1>7

LEMMA ClientBrokenInv ==
    ASSUME ConnectorInv, ClientBroken
    PROVE  ConnectorInv'
<1>1. Waiting /\ (Garbled(downBuf) \/ (Incomplete(downBuf) /\ down = <<>> /\ server = "off"))
  BY DEF ClientBroken
<1>2. PICK P, Q : Carries(downBuf, down, P) /\ Carries(upBuf, up, Q) /\ Aligned(P, Q)
  BY <1>1 DEF ConnectorInv, Waiting
<1>3. ~Garbled(downBuf) /\ P = <<>> /\ server = "off"
  BY <1>1, <1>2, BytesAreFramed
<1>4. /\ client' = Left("closed")
      /\ result' \in {"ok", "closed"}
      /\ late' <=> late
      /\ UNCHANGED <<request, server, up, down, upBuf, downBuf, pushed, got, answer, calls>>
  BY <1>3 DEF ClientBroken, Fail
<1>5. client \in {"connecting", "asking"}
  BY <1>1, <1>2, <1>3 DEF Waiting, Aligned, Streaming, Leaving
<1>6. client' = "off" \/ (client' = "ready" /\ client = "asking" /\ request.type \in Plain)
  BY <1>2, <1>4, <1>5 DEF Left, Aligned, Plain
<1>7. client' # "off" => Aligned(P, Q)'
  <2> SUFFICES ASSUME client' = "ready" PROVE Aligned(P, Q)'
    BY <1>6
  <2>1. CASE late
    <3>1. Behind(P, Q, Two(P, Q))
      BY <1>2, <1>6, <2>1 DEF Aligned
    <3>2. Behind(P, Q, One(P, Q))'
      BY <1>3, <1>4, <3>1 DEF Behind
    <3> QED
      BY <1>4, <2>1, <3>2 DEF Aligned
  <2>2. CASE ~late
    BY <1>3, <1>4, <2>2 DEF Aligned, Idle
  <2> QED
    BY <2>1, <2>2
<1>8. Carries(downBuf', down', P) /\ Carries(upBuf', up', Q)
  BY <1>2, <1>4
<1>9. /\ calls' \in Nat /\ pushed' \in Nat /\ (~late' => result' # "violation")
      /\ server' \in {"off", "hello", "loop", "stream"}
  BY <1>4 DEF ConnectorInv
<1> QED
  BY <1>7, <1>8, <1>9 DEF ConnectorInv

LEMMA ServerGivesUpInv ==
    ASSUME ConnectorInv, ServerGivesUp
    PROVE  ConnectorInv'
<1>1. /\ server' = "off" /\ (server = "hello" \/ client = "off")
      /\ UNCHANGED <<client, request, up, down, upBuf, downBuf, pushed, got, result, answer, calls, late>>
  BY DEF ServerGivesUp
<1> SUFFICES ASSUME client # "off"
             PROVE  \E P, Q : Carries(downBuf', down', P) /\ Carries(upBuf', up', Q) /\ Aligned(P, Q)'
  BY <1>1 DEF ConnectorInv
<1>2. PICK P, Q : Carries(downBuf, down, P) /\ Carries(upBuf, up, Q) /\ Aligned(P, Q)
  BY DEF ConnectorInv
<1>3. Aligned(P, Q)'
  <2>1. CASE client = "connecting"
    <3>1. Connecting(P, Q)'
      BY <1>1, <1>2, <2>1 DEF Aligned, Connecting
    <3> QED
      BY <1>1, <2>1, <3>1 DEF Aligned
  <2>2. CASE client = "ready"
    <3>1. late /\ Behind(P, Q, One(P, Q))
      BY <1>1, <1>2, <2>2 DEF Aligned, Idle
    <3> QED
      BY <1>1, <3>1 DEF Behind
  <2>3. CASE client = "asking"
    <3>1. CASE late /\ request.type # "SubscribeRequest"
      <4>1. Behind(P, Q, Two(P, Q))
        BY <1>2, <2>3, <3>1 DEF Aligned, Plain
      <4> QED
        BY <1>1, <4>1 DEF Behind
    <3>2. CASE late /\ request.type = "SubscribeRequest"
      <4>1. Refused(P, Q)
        BY <1>2, <2>3, <3>2 DEF Aligned
      <4>2. Refused(P, Q)'
        BY <1>1, <4>1 DEF Refused
      <4> QED
        BY <1>1, <2>3, <3>2, <4>2 DEF Aligned, Plain
    <3>3. CASE ~late
      BY <1>1, <1>2, <2>3, <3>3 DEF Aligned, Asking, Answered, Accepted
    <3> QED
      BY <3>1, <3>2, <3>3
  <2>4. CASE client \in {"subscribed", "polling", "leaving"}
    BY <1>1, <1>2, <2>4 DEF Aligned, Streaming, Leaving
  <2> QED
    BY <1>2, <2>1, <2>2, <2>3, <2>4 DEF Aligned
<1> QED
  BY <1>1, <1>2, <1>3

(* More packets behind the ones under way.                                 *)
LEMMA MoreUnderWay ==
    ASSUME NEW P, NEW L, NEW Q, NEW R, IsSeq(P), IsSeq(L), IsJoin(P, L, R)
    PROVE  /\ One(P, Q) => One(R, Q)
           /\ Two(P, Q) => Two(R, Q)
<1>1. Len(P) \in Nat /\ Len(L) \in Nat /\ Len(R) = Len(P) + Len(L)
  BY SeqFacts DEF IsJoin
<1>2. \A i \in 1..Len(P) : i \in 1..Len(R) /\ R[i] = P[i]
  BY <1>1 DEF IsJoin
<1> QED
  BY <1>2 DEF One, Two

LEMMA PushAligned ==
    ASSUME NEW P, NEW Q, IsSeq(P), IsSeq(Q), Aligned(P, Q), server = "stream", pushed \in Nat,
           NEW p, p.type = "LiveEvent", p.n = pushed + 1, NEW R, IsJoin(P, <<p>>, R),
           pushed' = pushed + 1,
           UNCHANGED <<client, request, server, got, answer, calls, late>>
    PROVE  Aligned(R, Q)'
<1>1. Len(P) \in Nat /\ Len(Q) \in Nat
  BY SeqFacts
<1>2. Len(R) = Len(P) + 1 /\ R[Len(P) + 1] = p /\ \A i \in 1..Len(P) : R[i] = P[i]
  <2>1. Len(<<p>>) = 1 /\ <<p>>[1] = p
    BY OnePacket
  <2> QED
    BY <2>1 DEF IsJoin
<1>3. (One(P, Q) => One(R, Q)) /\ (Two(P, Q) => Two(R, Q))
  BY OnePacket, MoreUnderWay
<1>4. ASSUME NEW owed, NEW more, owed => more, Behind(P, Q, owed) PROVE Behind(R, Q, more)'
  <2>1. \A i \in 1..Len(R) : R[i].type # "SubscribeResponse"
    BY <1>1, <1>2, <1>4 DEF Behind
  <2> QED
    BY <1>4, <2>1 DEF Behind
<1>5. CASE client = "ready"
  <2>1. late /\ Behind(P, Q, One(P, Q))
    BY <1>5 DEF Aligned, Idle
  <2>2. Behind(R, Q, One(R, Q))'
    BY <1>3, <1>4, <2>1
  <2> QED
    BY <1>5, <2>1, <2>2 DEF Aligned
<1>6. CASE client = "asking" /\ late /\ request.type # "SubscribeRequest"
  <2>1. Behind(P, Q, Two(P, Q)) /\ request.type \in Plain
    BY <1>6 DEF Aligned, Plain
  <2>2. Behind(R, Q, Two(R, Q))'
    BY <1>3, <1>4, <2>1
  <2>3. request.type \in {"Ping", "DescribeRequest", "QueryRequest", "SubscribeRequest"}
    BY <1>6 DEF Aligned
  <2> QED
    BY <1>6, <2>2, <2>3 DEF Aligned
<1>7. CASE client = "asking" /\ late /\ request.type = "SubscribeRequest"
  <2>1. Refused(P, Q)
    BY <1>7 DEF Aligned
  <2>2. Len(R) >= 1 /\ R[1].type # "SubscribeResponse"
    <3>1. CASE P = <<>>
      <4>1. Len(P) = 0
        BY <3>1
      <4> QED
        BY <1>2, <4>1
    <3>2. CASE Len(P) >= 1 /\ P[1].type # "SubscribeResponse"
      BY <1>1, <1>2, <3>2
    <3> QED
      BY <2>1, <3>1, <3>2 DEF Refused
  <2>3. Refused(R, Q)'
    BY <2>2 DEF Refused
  <2> QED
    BY <1>7, <2>3 DEF Aligned, Plain
<1>8. CASE client = "asking" /\ ~late
  <2>1. Asking(P, Q) /\ Accepted(P, Q) /\ request.type = "SubscribeRequest"
    BY <1>8 DEF Aligned, Asking, Answered
  <2>2. Accepted(R, Q)'
    <3>1. Len(P) >= 1 /\ Len(R) >= 1 /\ R[1] = P[1]
      BY <1>1, <1>2, <2>1 DEF Accepted
    <3>2. ASSUME P[1].ok
          PROVE  pushed' = Len(R) - 1 /\ \A i \in 2..Len(R) : R[i].type = "LiveEvent" /\ R[i].n = i - 1
      <4>1. pushed = Len(P) - 1 /\ \A i \in 2..Len(P) : P[i].type = "LiveEvent" /\ P[i].n = i - 1
        BY <2>1, <3>2 DEF Accepted
      <4>2. pushed' = Len(R) - 1 /\ p.n = Len(R) - 1
        BY <1>1, <1>2, <4>1
      <4>3. ASSUME NEW i \in 2..Len(R) PROVE R[i].type = "LiveEvent" /\ R[i].n = i - 1
        <5>1. (i \in 1..Len(P) /\ i \in 2..Len(P)) \/ (i = Len(P) + 1 /\ i = Len(R))
          BY <1>1, <1>2
        <5> QED
          BY <1>2, <4>1, <4>2, <5>1
      <4> QED
        BY <4>2, <4>3
    <3> QED
      BY <2>1, <3>1, <3>2 DEF Accepted
  <2>3. Asking(R, Q)'
    BY <2>1, <2>2 DEF Asking
  <2> QED
    BY <1>8, <2>1, <2>3 DEF Aligned
<1>9. CASE client \in {"subscribed", "polling"}
  <2>1. Streaming(P, Q)
    BY <1>9 DEF Aligned
  <2>2. Len(got) \in Nat /\ Lives(P, Len(got), pushed) /\ Len(got) <= pushed
    BY <2>1, SeqFacts DEF Streaming
  <2>4. Lives(R, Len(got), pushed + 1)
    <3>1. Len(P) = pushed - Len(got) /\ \A i \in 1..Len(P) : P[i].type = "LiveEvent" /\ P[i].n = Len(got) + i
      BY <2>2 DEF Lives
    <3>2. Len(R) = pushed + 1 - Len(got) /\ pushed + 1 = Len(got) + Len(R)
      BY <1>1, <1>2, <2>2, <3>1
    <3>3. ASSUME NEW i \in 1..Len(R) PROVE R[i].type = "LiveEvent" /\ R[i].n = Len(got) + i
      <4>1. CASE i \in 1..Len(P)
        BY <1>2, <3>1, <4>1
      <4>2. CASE i \notin 1..Len(P)
        <5>1. i = Len(P) + 1 /\ i = Len(R)
          BY <1>1, <1>2, <4>2
        <5> QED
          BY <1>2, <3>2, <5>1
      <4> QED
        BY <4>1, <4>2
    <3> QED
      BY <3>2, <3>3 DEF Lives
  <2>3. Streaming(R, Q)'
    BY <2>1, <2>2, <2>4 DEF Streaming, Lives
  <2> QED
    BY <1>9, <2>3 DEF Aligned
<1>10. CASE client = "leaving"
  <2>1. Leaving(P, Q)
    BY <1>10 DEF Aligned
  <2>2. Leaving(R, Q)'
    BY <1>1, <1>2, <2>1 DEF Leaving
  <2> QED
    BY <1>10, <2>2 DEF Aligned
<1>11. client # "connecting"
  BY DEF Aligned, Connecting
<1> QED
  BY <1>5, <1>6, <1>7, <1>8, <1>9, <1>10, <1>11 DEF Aligned

LEMMA ServerPushInv ==
    ASSUME ConnectorInv, ServerPush
    PROVE  ConnectorInv'
<1>1. PICK p : p = Packet("LiveEvent", TRUE, pushed + 1)
  OBVIOUS
<1>2. /\ server = "stream" /\ pushed' = pushed + 1
      /\ down' = down \o EncodeAll(<<p>>)
      /\ UNCHANGED <<client, request, server, up, upBuf, downBuf, got, result, answer, calls, late>>
  BY <1>1 DEF ServerPush, Encode
<1>3. p.type = "LiveEvent" /\ p.n = pushed + 1
  BY <1>1 DEF Packet
<1>4. pushed \in Nat /\ pushed' \in Nat
  BY <1>2 DEF ConnectorInv
<1> SUFFICES ASSUME client # "off"
             PROVE  \E P, Q : Carries(downBuf', down', P) /\ Carries(upBuf', up', Q) /\ Aligned(P, Q)'
  BY <1>2, <1>4 DEF ConnectorInv
<1>5. PICK P, Q : Carries(downBuf, down, P) /\ Carries(upBuf, up, Q) /\ Aligned(P, Q)
  BY DEF ConnectorInv
<1>6. PICK R : R = P \o <<p>>
  OBVIOUS
<1>7. Carries(downBuf, down \o EncodeAll(<<p>>), R) /\ IsJoin(P, <<p>>, R)
  BY <1>5, <1>6, OnePacket, SendCarries
<1>8. IsSeq(P) /\ IsSeq(Q)
  BY <1>5 DEF Carries
<1>9. Aligned(R, Q)'
  BY <1>2, <1>3, <1>4, <1>5, <1>7, <1>8, PushAligned
<1> QED
  BY <1>2, <1>5, <1>7, <1>9

(* A call returns on a packet, passes it over, or fails on it.             *)
Returns(p) ==
    /\ Expected(p)
    /\ client' = IF client \in {"connecting", "asking"} /\ ~p.ok THEN "off"
                 ELSE CASE client = "polling" ->
                              IF p.type = "LiveEvent" THEN "subscribed" ELSE "ended"
                        [] client = "asking" /\ request.type = "SubscribeRequest" -> "subscribed"
                        [] OTHER -> "ready"
    /\ got' = IF client = "polling" /\ p.type = "LiveEvent" THEN Append(got, p.n) ELSE got
    /\ result' = IF p.ok THEN "ok" ELSE "rejected"
    /\ answer' = IF client = "polling" THEN answer ELSE p
    /\ UNCHANGED <<request, server, up, down, upBuf, pushed, calls, late>>

Passes(p) ==
    /\ ~Expected(p) /\ Skipped(p)
    /\ UNCHANGED <<client, request, server, up, down, upBuf, pushed, got, result, answer, calls, late>>

Fails(p) == ~Expected(p) /\ ~Skipped(p) /\ Fail("violation")

LEMMA FewerUnderWay ==
    ASSUME NEW P, NEW Q, NEW R, IsSeq(P), IsSeq(Q), Rested(P, R), Len(P) >= 1
    PROVE  /\ Two(P, Q) => One(R, Q)
           /\ Two(P, Q) /\ ~Final(P[1]) => Two(R, Q)
<1>1. Len(P) \in Nat /\ Len(Q) \in Nat /\ Len(R) = Len(P) - 1
  BY SeqFacts DEF Rested
<1>2. \A i \in 2..Len(P) : i - 1 \in 1..Len(R) /\ R[i - 1] = P[i]
  <2> SUFFICES ASSUME NEW i \in 2..Len(P) PROVE i - 1 \in 1..Len(R) /\ R[i - 1] = P[i]
    OBVIOUS
  <2>1. i - 1 \in 1..Len(R) /\ (i - 1) + 1 = i
    BY <1>1
  <2> QED
    BY <2>1 DEF Rested
<1>3. ASSUME NEW i \in 1..Len(P), NEW j \in 1..Len(P), i < j, Final(P[i]), Final(P[j])
      PROVE  One(R, Q) /\ (~Final(P[1]) => Two(R, Q))
  <2>1. j - 1 \in 1..Len(R) /\ Final(R[j - 1])
    BY <1>1, <1>2, <1>3
  <2>2. ~Final(P[1]) => i - 1 \in 1..Len(R) /\ Final(R[i - 1]) /\ i - 1 < j - 1
    BY <1>1, <1>2, <1>3
  <2> QED
    BY <2>1, <2>2 DEF One, Two
<1>4. ASSUME NEW i \in 1..Len(P), Final(P[i]), Len(Q) = 1
      PROVE  One(R, Q) /\ (~Final(P[1]) => Two(R, Q))
  <2>1. ~Final(P[1]) => i - 1 \in 1..Len(R) /\ Final(R[i - 1])
    BY <1>1, <1>2, <1>4
  <2> QED
    BY <1>4, <2>1 DEF One, Two
<1>5. Len(Q) >= 2 => One(R, Q) /\ Two(R, Q)
  BY <1>1 DEF One, Two
<1> QED
  BY <1>3, <1>4, <1>5 DEF Two

LEMMA PacketAligned ==
    ASSUME NEW P, NEW Q, IsSeq(P), IsSeq(Q), Aligned(P, Q), Waiting, Len(P) >= 1,
           NEW p, p = P[1], NEW R, Rested(P, R), Returns(p) \/ Passes(p) \/ Fails(p),
           pushed \in Nat
    PROVE  /\ Fails(p) => late
           /\ client' # "off" => Aligned(R, Q)'
<1>1. Len(P) \in Nat /\ Len(Q) \in Nat /\ Len(R) = Len(P) - 1 /\ \A i \in 1..Len(R) : R[i] = P[i + 1]
  BY SeqFacts DEF Rested
<1>2. Len(P) = 1 => R = <<>>
  BY <1>1, EmptySeq DEF Rested, IsSeq
<1>3. P # <<>> /\ Len(<<>>) = 0
  BY <1>1
<1>4. UNCHANGED <<request, server, pushed, calls>>
  BY DEF Returns, Passes, Fails, Fail
<1>5. CASE client = "connecting"
  <2>1. Connecting(P, Q)
    BY <1>5 DEF Aligned
  <2>2. /\ Q = <<>> /\ Len(P) = 1 /\ p.type = "HandshakeResponse" /\ p.n = calls
        /\ p.ok => server = "loop"
    BY <1>3, <2>1 DEF Connecting
  <2>3. Returns(p) /\ ~Fails(p)
    BY <1>5, <2>2 DEF Passes, Fails, Expected
  <2>4. /\ client' = "ready" \/ client' = "off"
        /\ client' # "off" => p.ok
        /\ answer' = p /\ (late' <=> late)
    BY <1>5, <2>3 DEF Returns
  <2>5. client' # "off" => Idle(R, Q)' /\ ~late'
    BY <1>2, <1>4, <2>1, <2>2, <2>4 DEF Idle, Connecting
  <2> QED
    BY <2>3, <2>4, <2>5 DEF Aligned
<1>6. CASE client = "asking" /\ ~late /\ request.type = "SubscribeRequest"
  <2>1. Asking(P, Q) /\ Accepted(P, Q)
    BY <1>3, <1>6 DEF Aligned, Asking, Plain
  <2>2. p.type = "SubscribeResponse" /\ p.n = calls /\ Q = <<>> /\ got = <<>>
    BY <1>6, <2>1 DEF Accepted, Asking
  <2>3. Returns(p) /\ ~Fails(p)
    BY <1>6, <2>2 DEF Passes, Fails, Expected
  <2>4. /\ client' = "subscribed" \/ client' = "off"
        /\ client' # "off" => p.ok
        /\ answer' = p /\ (late' <=> late) /\ got' = got
    BY <1>6, <2>3 DEF Returns
  <2>5. p.ok => /\ server = "stream" /\ pushed = Len(P) - 1
                /\ \A i \in 2..Len(P) : P[i].type = "LiveEvent" /\ P[i].n = i - 1
    BY <2>1 DEF Accepted
  <2>6. p.ok => Lives(R, 0, pushed)
    <3> SUFFICES ASSUME p.ok PROVE Lives(R, 0, pushed)
      OBVIOUS
    <3>1. \A i \in 1..Len(R) : i + 1 \in 2..Len(P) /\ (i + 1) - 1 = 0 + i /\ R[i] = P[i + 1]
      BY <1>1
    <3>2. Len(R) = pushed - 0
      BY <1>1, <2>5
    <3> QED
      BY <2>5, <3>1, <3>2 DEF Lives
  <2>7. IsSeq(<<>>) /\ <<>> = [i \in DOMAIN <<>> |-> i]
    BY DEF IsSeq
  <2>8. client' # "off" => Streaming(R, Q)'
    BY <1>3, <1>4, <1>6, <2>2, <2>4, <2>5, <2>6, <2>7 DEF Streaming, Lives
  <2> QED
    BY <2>3, <2>4, <2>8 DEF Aligned
<1>7. CASE client = "asking" /\ ~late /\ request.type # "SubscribeRequest"
  <2>1. Asking(P, Q) /\ Answered(P, Q)
    BY <1>3, <1>7 DEF Aligned, Asking
  <2>2. request.type \in {"Ping", "DescribeRequest", "QueryRequest"}
    BY <1>7 DEF Aligned
  <2>3. CASE Len(P) = 1
    <3>1. p.type = Closing(request.type) /\ p.n = calls /\ server = "loop" /\ Q = <<>>
      BY <2>1, <2>3 DEF Answered
    <3>2. Returns(p) /\ ~Fails(p)
      BY <1>7, <2>2, <3>1 DEF Passes, Fails, Expected, Closing
    <3>3. (client' = "ready" \/ client' = "off") /\ answer' = p /\ (late' <=> late)
      BY <1>7, <3>2 DEF Returns
    <3>4. Idle(R, Q)'
      BY <1>2, <1>4, <2>3, <3>1, <3>3 DEF Idle
    <3> QED
      BY <1>7, <3>2, <3>3, <3>4 DEF Aligned
  <2>4. CASE Len(P) > 1
    <3>1. ~Final(p) /\ request.type = "QueryRequest"
      BY <1>1, <2>1, <2>4 DEF Answered
    <3>2. Passes(p) /\ ~Fails(p)
      BY <1>7, <3>1 DEF Returns, Fails, Expected, Skipped, Final
    <3>3. client' = client /\ request' = request /\ (late' <=> late) /\ got' = got
      BY <3>2 DEF Passes
    <3>4. Len(R) >= 1 /\ R[Len(R)] = P[Len(P)] /\ \A i \in 1..Len(R) - 1 : R[i] = P[i + 1] /\ i + 1 \in 1..Len(P) - 1
      BY <1>1, <2>4
    <3>5. Answered(R, Q)'
      BY <1>4, <2>1, <3>1, <3>4 DEF Answered
    <3>6. Asking(R, Q)'
      BY <1>4, <2>1, <3>1, <3>3, <3>5 DEF Asking, Plain
    <3> QED
      BY <1>7, <2>2, <3>2, <3>3, <3>6 DEF Aligned
  <2> QED
    BY <1>1, <2>3, <2>4
<1>8. CASE client = "asking" /\ late /\ request.type = "SubscribeRequest"
  <2>1. p.type # "SubscribeResponse"
    BY <1>3, <1>8 DEF Aligned, Refused
  <2>2. Fails(p)
    BY <1>8, <2>1 DEF Returns, Passes, Expected, Skipped
  <2>3. client' = "off"
    BY <1>8, <2>2 DEF Fails, Fail, Left
  <2> QED
    BY <1>8, <2>3
<1>9. CASE client = "asking" /\ late /\ request.type # "SubscribeRequest"
  <2>1. Behind(P, Q, Two(P, Q)) /\ request.type \in Plain
    BY <1>9 DEF Aligned, Plain
  <2>2. late'
    BY <1>9 DEF Returns, Passes, Fails, Fail
  <2>3. \A i \in 1..Len(R) : R[i].type # "SubscribeResponse"
    BY <1>1, <2>1 DEF Behind
  <2>4. (Two(P, Q) => One(R, Q)) /\ (Two(P, Q) /\ ~Final(P[1]) => Two(R, Q))
    BY FewerUnderWay
  <2>5. CASE Returns(p) \/ Fails(p)
    <3>1. client' = "ready" \/ client' = "off"
      BY <1>9, <2>5 DEF Returns, Fails, Fail, Left
    <3>2. Behind(R, Q, One(R, Q))'
      BY <1>4, <2>1, <2>3, <2>4 DEF Behind
    <3> QED
      BY <1>9, <2>2, <3>1, <3>2 DEF Aligned
  <2>6. CASE Passes(p)
    <3>1. client' = "asking" /\ ~Final(p)
      BY <1>9, <2>6 DEF Passes, Skipped, Final
    <3>2. Behind(R, Q, Two(R, Q))'
      BY <1>4, <2>1, <2>3, <2>4, <3>1 DEF Behind
    <3>3. request'.type \in {"Ping", "DescribeRequest", "QueryRequest"}
      BY <1>4, <1>9 DEF Aligned
    <3> QED
      BY <1>9, <2>2, <3>1, <3>2, <3>3 DEF Aligned
  <2> QED
    BY <2>5, <2>6
<1>10. CASE client = "polling"
  <2>1. Streaming(P, Q)
    BY <1>10 DEF Aligned
  <2>2. Len(got) \in Nat /\ IsSeq(got) /\ got = [i \in DOMAIN got |-> i]
    BY <2>1, SeqFacts DEF Streaming
  <2>3. p.type = "LiveEvent" /\ p.n = Len(got) + 1 /\ Len(got) + 1 <= pushed
    BY <1>1, <2>1, <2>2 DEF Streaming, Lives
  <2>4. Returns(p) /\ ~Fails(p)
    BY <1>10, <2>3 DEF Passes, Fails, Expected
  <2>5. client' = "subscribed" /\ got' = Append(got, p.n) /\ answer' = answer /\ (late' <=> late)
    BY <1>10, <2>3, <2>4 DEF Returns
  <2>6. /\ IsSeq(got') /\ Len(got') = Len(got) + 1
        /\ \A i \in 1..Len(got) : got'[i] = got[i]
        /\ got'[Len(got) + 1] = Len(got) + 1
    BY <2>2, <2>3, <2>5, AppendFacts
  <2>7. got' = [i \in DOMAIN got' |-> i]
    <3>1. DOMAIN got' = 1..Len(got) + 1 /\ got' = [i \in DOMAIN got' |-> got'[i]]
      <4>1. got' \in Seq(Range(got'))
        BY <2>6 DEF IsSeq
      <4> QED
        BY <2>6, <4>1
    <3>2. \A i \in 1..Len(got) + 1 : got'[i] = i
      <4>1. \A i \in 1..Len(got) : got[i] = i
        BY <2>2, SeqFacts
      <4> QED
        BY <2>2, <2>6, <4>1
    <3> QED
      BY <3>1, <3>2
  <2>8. Lives(R, Len(got) + 1, pushed)
    <3>1. Lives(P, Len(got), pushed)
      BY <2>1 DEF Streaming
    <3>2. \A i \in 1..Len(R) : i + 1 \in 1..Len(P) /\ R[i] = P[i + 1]
      BY <1>1
    <3>3. \A i \in 1..Len(R) : P[i + 1].type = "LiveEvent" /\ P[i + 1].n = Len(got) + (i + 1)
      BY <3>1, <3>2 DEF Lives
    <3>4. Len(R) = pushed - (Len(got) + 1)
      BY <1>1, <2>2, <3>1 DEF Lives
    <3>5. \A i \in 1..Len(R) : Len(got) + (i + 1) = (Len(got) + 1) + i
      BY <1>1, <2>2
    <3> QED
      BY <3>2, <3>3, <3>4, <3>5 DEF Lives
  <2>9. Streaming(R, Q)'
    <3>1. Lives(R, Len(got'), pushed')
      BY <1>4, <2>6, <2>8
    <3> QED
      BY <1>4, <2>1, <2>3, <2>5, <2>6, <2>7, <3>1 DEF Streaming, Lives
  <2> QED
    BY <2>4, <2>5, <2>9 DEF Aligned
<1>11. CASE client = "leaving"
  <2>1. Leaving(P, Q) /\ Skipped(p)
    BY <1>11 DEF Aligned, Skipped
  <2>2. (Returns(p) \/ Passes(p)) /\ ~Fails(p) /\ (late' <=> late) /\ ~late
    BY <2>1 DEF Fails, Returns, Passes, Leaving
  <2>3. CASE p.type = "LiveEvent"
    <3>1. Passes(p)
      BY <1>11, <2>2, <2>3 DEF Returns, Expected
    <3>2. client' = "leaving"
      BY <1>11, <3>1 DEF Passes
    <3>3. server = "loop" => Len(P) > 1
      BY <1>1, <2>1, <2>3 DEF Leaving
    <3>4. Leaving(R, Q)'
      <4>1. CASE server = "stream"
        BY <1>1, <1>4, <2>1, <2>2, <4>1 DEF Leaving
      <4>2. CASE server = "loop"
        <5>1. Len(R) >= 1 /\ R[Len(R)] = P[Len(P)] /\ \A i \in 1..Len(R) - 1 : R[i] = P[i + 1] /\ i + 1 \in 1..Len(P) - 1
          BY <1>1, <3>3, <4>2
        <5> QED
          BY <1>4, <2>1, <2>2, <4>2, <5>1 DEF Leaving
      <4> QED
        BY <2>1, <4>1, <4>2 DEF Leaving
    <3> QED
      BY <2>2, <3>2, <3>4 DEF Aligned
  <2>4. CASE p.type # "LiveEvent"
    <3>1. /\ server = "loop" /\ Q = <<>> /\ Len(P) = 1
          /\ p.type = "UnsubscribeResponse" /\ p.n = calls
      BY <1>1, <2>1, <2>4 DEF Leaving
    <3>2. Returns(p)
      BY <1>11, <2>2, <3>1 DEF Passes, Expected
    <3>3. client' = "ready" /\ answer' = p
      BY <1>11, <3>2 DEF Returns
    <3>4. Idle(R, Q)'
      BY <1>2, <1>4, <3>1, <3>3 DEF Idle
    <3> QED
      BY <2>2, <3>3, <3>4 DEF Aligned
  <2> QED
    BY <2>3, <2>4
<1> QED
  BY <1>5, <1>6, <1>7, <1>8, <1>9, <1>10, <1>11 DEF Waiting

LEMMA ClientPacketInv ==
    ASSUME ConnectorInv, ClientPacket
    PROVE  ConnectorInv'
<1>1. Waiting /\ Whole(downBuf) /\ downBuf' = SubSeq(downBuf, 3, Len(downBuf))
  BY DEF ClientPacket
<1>2. PICK P, Q : Carries(downBuf, down, P) /\ Carries(upBuf, up, Q) /\ Aligned(P, Q)
  BY <1>1 DEF ConnectorInv, Waiting
<1>3. PICK p : p = downBuf[1].of
  OBVIOUS
<1>4. Returns(p) \/ Passes(p) \/ Fails(p)
  BY <1>3 DEF ClientPacket, Returns, Passes, Fails
<1>5. Len(P) >= 1 /\ p = P[1]
  BY <1>1, <1>2, <1>3, TakeCarries
<1>6. PICK R : Rested(P, R) /\ Carries(SubSeq(downBuf, 3, Len(downBuf)), down, R)
  BY <1>1, <1>2, TakeCarries
<1>7. IsSeq(P) /\ IsSeq(Q) /\ pushed \in Nat /\ calls \in Nat
  BY <1>2 DEF Carries, ConnectorInv
<1>8. (Fails(p) => late) /\ (client' # "off" => Aligned(R, Q)')
  BY <1>1, <1>2, <1>4, <1>5, <1>6, <1>7, PacketAligned
<1>9. UNCHANGED <<down, up, upBuf, pushed, calls, server>>
  BY <1>4 DEF Returns, Passes, Fails, Fail
<1>10. ~late' => result' # "violation"
  <2>1. CASE Returns(p)
    BY <2>1 DEF Returns
  <2>2. CASE Passes(p)
    BY <2>2 DEF Passes, ConnectorInv
  <2>3. CASE Fails(p)
    BY <1>8, <2>3 DEF Fails, Fail
  <2> QED
    BY <1>4, <2>1, <2>2, <2>3
<1>11. Carries(downBuf', down', R) /\ Carries(upBuf', up', Q)
  BY <1>1, <1>2, <1>6, <1>9
<1> QED
  BY <1>7, <1>8, <1>9, <1>10, <1>11 DEF ConnectorInv

(* What handle_connection answers, by where it is.                         *)
Replied(q) ==
    CASE server = "hello" -> Greeted(q)
      [] server = "loop" -> Served(q)
      [] server = "stream" -> Streamed(q)

(* One packet closes the answer to a request.                              *)
Answers(q, L) ==
    /\ IsSeq(L) /\ Len(L) >= 1
    /\ L[Len(L)].type = Closing(q.type) /\ L[Len(L)].n = q.n
    /\ \A i \in 1..Len(L) - 1 : ~Final(L[i]) /\ q.type = "QueryRequest"

LEMMA OneAnswer ==
    ASSUME NEW q, NEW type, type = Closing(q.type), NEW L, L = <<Packet(type, TRUE, q.n)>>
    PROVE  Answers(q, L)
<1>1. PICK p : p = Packet(type, TRUE, q.n)
  OBVIOUS
<1>2. p.type = type /\ p.n = q.n
  BY <1>1 DEF Packet
<1>3. IsSeq(L) /\ Len(L) = 1 /\ L[1] = p
  BY <1>1, OnePacket
<1>4. 1 >= 1 /\ 1..1 - 1 = {}
  OBVIOUS
<1> QED
  BY <1>2, <1>3, <1>4 DEF Answers

(* What a request in the loop is answered by, other than a subscription.   *)
LEMMA PlainReply ==
    ASSUME NEW q, q.type \in Plain, server \in {"loop", "stream"},
           server = "stream" => q.type = "UnsubscribeRequest",
           NEW L, L = Replied(q)[1], NEW next, next = Replied(q)[2]
    PROVE  \/ next = "off" /\ L = <<>>
           \/ next = "loop" /\ Answers(q, L)
<1>1. CASE q.type = "UnsubscribeRequest"
  <2>1. L = <<Packet("UnsubscribeResponse", TRUE, q.n)>> /\ next = "loop"
    BY <1>1 DEF Replied, Served, Streamed
  <2> QED
    BY <1>1, <2>1, OneAnswer DEF Closing
<1>2. CASE q.type = "Ping"
  <2>1. L = <<Packet("Pong", TRUE, q.n)>> /\ next = "loop"
    BY <1>2 DEF Replied, Served
  <2> QED
    BY <1>2, <2>1, OneAnswer DEF Closing
<1>3. CASE q.type = "DescribeRequest"
  <2>1. L = <<Packet("DescribeResponse", TRUE, q.n)>> /\ next = "loop"
    BY <1>3 DEF Replied, Served
  <2> QED
    BY <1>3, <2>1, OneAnswer DEF Closing
<1>4. CASE q.type = "QueryRequest" /\ ~q.ok
  <2>1. Replied(q) = <<<<>>, "off">>
    BY <1>4 DEF Replied, Served
  <2> QED
    BY <2>1
<1>5. CASE q.type = "QueryRequest" /\ q.ok
  <2>1. PICK a, b, c : /\ a = Packet("QueryResponse", TRUE, q.n)
                       /\ b = Packet("StreamRecord", TRUE, q.n)
                       /\ c = Packet("StreamEnd", TRUE, q.n)
    OBVIOUS
  <2>2. Replied(q) = <<<<a, b, c>>, "loop">>
    BY <1>5, <2>1 DEF Replied, Served
  <2>3. L = <<a, b, c>> /\ next = "loop"
    BY <2>2
  <2>4. IsSeq(<<a, b, c>>)
    <3>1. <<a, b, c>> \in Seq({a, b, c})
      OBVIOUS
    <3> QED
      BY <3>1, SeqFromDomain
  <2>5. Len(<<a, b, c>>) = 3 /\ <<a, b, c>>[1] = a /\ <<a, b, c>>[2] = b /\ <<a, b, c>>[3] = c
    OBVIOUS
  <2>6. IsSeq(L) /\ Len(L) = 3 /\ L[1] = a /\ L[2] = b /\ L[3] = c
    BY <2>3, <2>4, <2>5
  <2>7. a.type = "QueryResponse" /\ b.type = "StreamRecord" /\ c.type = "StreamEnd" /\ c.n = q.n
    BY <2>1 DEF Packet
  <2>8. 3 >= 1 /\ 1..3 - 1 = {1, 2}
    OBVIOUS
  <2>9. Closing(q.type) = "StreamEnd"
    BY <1>5 DEF Closing
  <2>10. \A i \in {1, 2} : ~Final(L[i])
    BY <2>6, <2>7 DEF Final
  <2> QED
    BY <1>5, <2>3, <2>6, <2>7, <2>8, <2>9, <2>10 DEF Answers
<1> QED
  BY <1>1, <1>2, <1>3, <1>4, <1>5 DEF Plain

LEMMA AnswerIsFinal ==
    ASSUME NEW q, q.type \in Plain, NEW L, Answers(q, L)
    PROVE  /\ Len(L) \in Nat /\ Final(L[Len(L)])
           /\ \A i \in 1..Len(L) : L[i].type # "SubscribeResponse"
<1>1. Len(L) \in Nat
  BY SeqFacts DEF Answers
<1>2. Final(L[Len(L)]) /\ L[Len(L)].type # "SubscribeResponse"
  BY DEF Answers, Final, Closing, Plain
<1>3. \A i \in 1..Len(L) - 1 : L[i].type # "SubscribeResponse"
  BY DEF Answers, Final
<1> QED
  BY <1>1, <1>2, <1>3

LEMMA ReplyIsSeq ==
    ASSUME NEW q, server \in {"hello", "loop", "stream"}, NEW L, L = Replied(q)[1]
    PROVE  IsSeq(L)
<1>1. IsSeq(<<>>) /\ \A p : IsSeq(<<p>>)
  BY OnePacket DEF IsSeq
<1>2. \A a, b, c : IsSeq(<<a, b, c>>)
  <2> SUFFICES ASSUME NEW a, NEW b, NEW c PROVE IsSeq(<<a, b, c>>)
    OBVIOUS
  <2>1. <<a, b, c>> \in Seq({a, b, c})
    OBVIOUS
  <2> QED
    BY <2>1, SeqFromDomain
<1>3. \/ L = <<>>
      \/ \E p : L = <<p>>
      \/ \E a, b, c : L = <<a, b, c>>
  <2>1. Served(q)[1] = <<>> \/ (\E p : Served(q)[1] = <<p>>) \/ \E a, b, c : Served(q)[1] = <<a, b, c>>
    BY DEF Served
  <2>2. \E p : Greeted(q)[1] = <<p>>
    BY DEF Greeted
  <2>3. Streamed(q)[1] = <<>> \/ Streamed(q)[1] = Served(q)[1]
    BY DEF Streamed
  <2> QED
    BY <2>1, <2>2, <2>3 DEF Replied
<1> QED
  BY <1>1, <1>2, <1>3

LEMMA RepliedUnderWay ==
    ASSUME NEW P, NEW Q, NEW q, q.type \in Plain, NEW L, Answers(q, L),
           NEW R, IsJoin(P, L, R), NEW S, Rested(Q, S), IsSeq(P), IsSeq(Q), Len(Q) >= 1
    PROVE  One(R, S) /\ (Two(P, Q) => Two(R, S))
<1>1. /\ Len(P) \in Nat /\ Len(Q) \in Nat /\ Len(L) \in Nat /\ Len(L) >= 1
      /\ Len(R) = Len(P) + Len(L) /\ Len(S) = Len(Q) - 1
  BY SeqFacts DEF Answers, IsJoin, Rested
<1>2. \A i \in 1..Len(P) : i \in 1..Len(R) /\ R[i] = P[i] /\ i < Len(R)
  BY <1>1 DEF IsJoin
<1>3. Len(R) \in 1..Len(R) /\ Final(R[Len(R)])
  <2>1. Final(L[Len(L)])
    BY AnswerIsFinal
  <2>2. Len(R) \in 1..Len(R) /\ Len(L) \in 1..Len(L)
    BY <1>1
  <2>3. R[Len(P) + Len(L)] = L[Len(L)]
    BY <2>2 DEF IsJoin
  <2> QED
    BY <1>1, <2>1, <2>2, <2>3
<1>4. One(R, S)
  BY <1>3 DEF One
<1>5. ASSUME Len(Q) >= 2 PROVE Two(R, S)
  BY <1>1, <1>3, <1>5 DEF Two
<1>6. ASSUME NEW i \in 1..Len(P), Final(P[i]) PROVE Two(R, S)
  BY <1>2, <1>3, <1>6 DEF Two
<1> QED
  BY <1>4, <1>5, <1>6 DEF Two

LEMMA ReplyAligned ==
    ASSUME NEW P, NEW Q, IsSeq(P), IsSeq(Q), Aligned(P, Q), server # "off", Len(Q) >= 1,
           NEW q, q = Q[1], NEW S, Rested(Q, S),
           NEW L, L = Replied(q)[1], NEW next, next = Replied(q)[2],
           NEW R, IsJoin(P, L, R), IsSeq(L),
           server' = next, pushed' = IF server = "loop" /\ next = "stream" THEN 0 ELSE pushed,
           UNCHANGED <<client, request, got, answer, calls, late>>
    PROVE  Aligned(R, S)'
<1>1. /\ Len(P) \in Nat /\ Len(Q) \in Nat /\ Len(L) \in Nat /\ Len(S) = Len(Q) - 1 /\ IsSeq(S)
      /\ \A i \in 1..Len(S) : S[i] = Q[i + 1]
  BY SeqFacts DEF Rested
<1>2. /\ Len(R) = Len(P) + Len(L) /\ IsSeq(R)
      /\ \A i \in 1..Len(P) : R[i] = P[i]
      /\ \A i \in 1..Len(L) : R[Len(P) + i] = L[i]
  BY DEF IsJoin
<1>3. Q # <<>> /\ (Len(Q) = 1 => S = <<>>)
  BY <1>1, EmptySeq DEF IsSeq
<1>4. P = <<>> => Len(P) = 0 /\ R = L
  <2> SUFFICES ASSUME P = <<>> PROVE Len(P) = 0 /\ R = L
    OBVIOUS
  <2>1. Len(P) = 0 /\ \A i \in 1..Len(L) : 0 + i = i
    BY <1>1
  <2>2. Len(R) = Len(L) /\ \A i \in 1..Len(L) : R[i] = L[i]
    BY <1>1, <1>2, <2>1
  <2>3. R \in Seq(Range(R)) /\ L \in Seq(Range(L))
    BY <1>2 DEF IsSeq
  <2> QED
    BY <2>1, <2>2, <2>3
<1>5. CASE client = "connecting"
  <2>1. Connecting(P, Q) /\ ~late
    BY <1>5 DEF Aligned, Connecting
  <2>2. server = "hello" /\ P = <<>> /\ Q = <<request>>
    BY <1>3, <2>1 DEF Connecting
  <2>3. Len(Q) = 1 /\ q = request /\ q.type = "HandshakeRequest" /\ q.n = calls
    BY <2>1, <2>2 DEF Connecting
  <2>4. Replied(q) = <<<<Packet("HandshakeResponse", q.ok, q.n)>>, IF q.ok THEN "loop" ELSE "off">>
    BY <2>2, <2>3 DEF Replied, Greeted
  <2>5. PICK p : p = Packet("HandshakeResponse", q.ok, q.n)
    OBVIOUS
  <2>6. p.type = "HandshakeResponse" /\ p.n = calls /\ p.ok = q.ok
    BY <2>3, <2>5 DEF Packet
  <2>7. L = <<p>> /\ next = IF q.ok THEN "loop" ELSE "off"
    BY <2>4, <2>5
  <2>8. Len(R) = 1 /\ R[1] = p
    BY <1>4, <2>2, <2>7, OnePacket
  <2>9. next \in {"loop", "off"} /\ (p.ok => next = "loop")
    BY <2>6, <2>7
  <2>10. Connecting(R, S)'
    BY <1>3, <2>1, <2>3, <2>6, <2>8, <2>9 DEF Connecting
  <2> QED
    BY <1>5, <2>10 DEF Aligned
<1>6. CASE client = "asking" /\ ~late
  <2>1. Asking(P, Q) /\ server = "loop" /\ P = <<>> /\ Q = <<request>>
    BY <1>3, <1>6 DEF Aligned, Asking, Answered, Accepted
  <2>2. Len(Q) = 1 /\ q = request /\ q.n = calls /\ S = <<>> /\ R = L
    BY <1>3, <1>4, <2>1 DEF Asking
  <2>3. q.type \in {"Ping", "DescribeRequest", "QueryRequest", "SubscribeRequest"}
    BY <1>6, <2>2 DEF Aligned
  <2>4. CASE q.type # "SubscribeRequest"
    <3>1. q.type \in Plain
      BY <2>3, <2>4 DEF Plain
    <3>2. (next = "off" /\ L = <<>>) \/ (next = "loop" /\ Answers(q, L))
      BY <2>1, <3>1, PlainReply
    <3>3. Asking(R, S)'
      <4>1. CASE next = "off" /\ L = <<>>
        BY <2>2, <2>4, <4>1 DEF Asking
      <4>2. CASE next = "loop" /\ Answers(q, L)
        <5>1. Answered(R, S)'
          BY <2>2, <4>2 DEF Answers, Answered
        <5> QED
          BY <2>2, <2>4, <3>1, <5>1 DEF Asking
      <4> QED
        BY <3>2, <4>1, <4>2
    <3> QED
      BY <1>6, <2>2, <2>3, <3>3 DEF Aligned
  <2>5. CASE q.type = "SubscribeRequest"
    <3>1. PICK p : p = Packet("SubscribeResponse", q.ok, q.n)
      OBVIOUS
    <3>2. Replied(q) = <<<<p>>, IF q.ok THEN "stream" ELSE "loop">>
      BY <2>1, <2>5, <3>1 DEF Replied, Served
    <3>3. p.type = "SubscribeResponse" /\ p.n = calls /\ p.ok = q.ok
      BY <2>2, <3>1 DEF Packet
    <3>4. L = <<p>> /\ next = IF q.ok THEN "stream" ELSE "loop"
      BY <3>2
    <3>5. Len(R) = 1 /\ R[1] = p
      BY <2>2, <3>4, OnePacket
    <3>6. next \in {"loop", "stream"} /\ (p.ok => next = "stream")
      BY <3>3, <3>4
    <3>7. p.ok => pushed' = 0
      BY <2>1, <3>6
    <3>8. 1 >= 1 /\ 1 - 1 = 0 /\ 2..1 = {}
      OBVIOUS
    <3>9. Accepted(R, S)'
      BY <2>2, <3>3, <3>5, <3>6, <3>7, <3>8 DEF Accepted
    <3>10. Asking(R, S)'
      BY <2>1, <2>2, <2>5, <3>9 DEF Asking
    <3> QED
      BY <1>6, <2>2, <2>5, <3>10 DEF Aligned
  <2> QED
    BY <2>4, <2>5
<1>7. CASE client = "leaving"
  <2>1. Leaving(P, Q) /\ server = "stream" /\ Q = <<request>> /\ request.type = "UnsubscribeRequest" /\ ~late
    BY <1>3, <1>7 DEF Aligned, Leaving
  <2>2. Len(Q) = 1 /\ q = request /\ q.n = calls /\ S = <<>> /\ q.type \in Plain
    BY <1>3, <2>1 DEF Leaving, Plain
  <2>3. (next = "off" /\ L = <<>>) \/ (next = "loop" /\ Answers(q, L))
    BY <2>1, <2>2, PlainReply
  <2>4. next = "loop"
    BY <2>1, <2>2 DEF Replied, Streamed
  <2>5. Answers(q, L) /\ Closing(q.type) = "UnsubscribeResponse"
    BY <2>1, <2>2, <2>3, <2>4 DEF Closing
  <2>6. Len(L) = 1 /\ L[1].type = "UnsubscribeResponse" /\ L[1].n = calls
    <3>1. Len(L) = 1
      <4>1. Len(L) >= 1 /\ ~(1 \in 1..Len(L) - 1)
        BY <2>1, <2>2, <2>5 DEF Answers
      <4>2. \A k \in Nat : k >= 1 /\ ~(1 \in 1..k - 1) => k = 1
        OBVIOUS
      <4> QED
        BY <1>1, <4>1, <4>2
    <3> QED
      BY <2>2, <2>5, <3>1 DEF Answers
  <2>7. Len(R) = Len(P) + 1 /\ R[Len(R)] = L[1]
    BY <1>1, <1>2, <2>6
  <2>8. \A i \in 1..Len(R) - 1 : i \in 1..Len(P) /\ R[i] = P[i]
    BY <1>1, <1>2, <2>7
  <2>9. \A i \in 1..Len(P) : P[i].type = "LiveEvent"
    BY <2>1 DEF Leaving
  <2>10. Len(R) >= 1
    BY <1>1, <2>7
  <2>11. Leaving(R, S)'
    BY <2>1, <2>2, <2>4, <2>6, <2>7, <2>8, <2>9, <2>10 DEF Leaving
  <2> QED
    BY <1>7, <2>11 DEF Aligned
<1>8. ASSUME NEW owed, NEW more, Behind(P, Q, owed),
             Answers(q, L) => more
      PROVE  Behind(R, S, more)'
  <2>1. q.type \in Plain /\ server \in {"loop", "stream"} /\ (server = "stream" => q.type = "UnsubscribeRequest")
    BY <1>1, <1>8 DEF Behind
  <2>2. (next = "off" /\ L = <<>>) \/ (next = "loop" /\ Answers(q, L))
    BY <2>1, PlainReply
  <2>3. \A i \in 1..Len(S) : S[i].type \in Plain
    BY <1>1, <1>8 DEF Behind
  <2>4. CASE next = "off" /\ L = <<>>
    <3>1. Len(L) = 0
      BY <2>4
    <3>2. \A i \in 1..Len(R) : R[i].type # "SubscribeResponse"
      BY <1>1, <1>2, <1>8, <3>1 DEF Behind
    <3> QED
      BY <2>4, <3>2 DEF Behind
  <2>5. CASE next = "loop" /\ Answers(q, L)
    <3>1. \A i \in 1..Len(L) : L[i].type # "SubscribeResponse"
      BY <2>1, <2>5, AnswerIsFinal
    <3>2. ASSUME NEW i \in 1..Len(R) PROVE R[i].type # "SubscribeResponse"
      <4>1. CASE i <= Len(P)
        BY <1>1, <1>2, <1>8, <4>1 DEF Behind
      <4>2. CASE i > Len(P)
        <5>1. i - Len(P) \in 1..Len(L) /\ Len(P) + (i - Len(P)) = i
          BY <1>1, <1>2, <4>2
        <5> QED
          BY <1>2, <3>1, <5>1
      <4> QED
        BY <1>1, <1>2, <4>1, <4>2
    <3> QED
      BY <1>8, <2>3, <2>5, <3>2 DEF Behind
  <2> QED
    BY <2>2, <2>4, <2>5
<1>9. CASE client = "ready"
  <2>1. late /\ Behind(P, Q, One(P, Q))
    BY <1>3, <1>9 DEF Aligned, Idle
  <2>2. q.type \in Plain
    BY <1>1, <2>1 DEF Behind
  <2>3. Answers(q, L) => One(R, S)
    BY <2>2, RepliedUnderWay
  <2>4. Behind(R, S, One(R, S))'
    BY <1>8, <2>1, <2>3
  <2> QED
    BY <1>9, <2>1, <2>4 DEF Aligned
<1>10. CASE client = "asking" /\ late /\ request.type # "SubscribeRequest"
  <2>1. /\ Behind(P, Q, Two(P, Q)) /\ request.type \in Plain
        /\ request.type \in {"Ping", "DescribeRequest", "QueryRequest", "SubscribeRequest"}
    BY <1>10 DEF Aligned, Plain
  <2>2. q.type \in Plain /\ Two(P, Q)
    BY <1>1, <2>1 DEF Behind
  <2>3. Answers(q, L) => Two(R, S)
    BY <2>2, RepliedUnderWay
  <2>4. Behind(R, S, Two(R, S))'
    BY <1>8, <2>1, <2>3
  <2> QED
    BY <1>10, <2>1, <2>4 DEF Aligned
<1>11. CASE client = "asking" /\ late /\ request.type = "SubscribeRequest"
  <2>1. Refused(P, Q)
    BY <1>11 DEF Aligned
  <2>2. CASE Len(P) >= 1 /\ P[1].type # "SubscribeResponse"
    <3>1. Len(R) >= 1 /\ R[1] = P[1]
      BY <1>1, <1>2, <2>2
    <3>2. Refused(R, S)'
      BY <2>2, <3>1 DEF Refused
    <3> QED
      BY <1>11, <3>2 DEF Aligned, Plain
  <2>3. CASE /\ P = <<>> /\ server \in {"loop", "stream"} /\ q.type \in Plain
             /\ server = "stream" => q.type = "UnsubscribeRequest"
    <3>1. (next = "off" /\ L = <<>>) \/ (next = "loop" /\ Answers(q, L))
      BY <2>3, PlainReply
    <3>2. Answers(q, L) => Len(R) >= 1 /\ R[1].type # "SubscribeResponse"
      <4> SUFFICES ASSUME Answers(q, L) PROVE Len(R) >= 1 /\ R[1].type # "SubscribeResponse"
        OBVIOUS
      <4>1. Len(L) >= 1 /\ \A i \in 1..Len(L) : L[i].type # "SubscribeResponse"
        BY <2>3, AnswerIsFinal DEF Answers
      <4>2. 1 \in 1..Len(L)
        BY <1>1, <4>1
      <4> QED
        BY <1>4, <2>3, <4>1, <4>2
    <3>3. L = <<>> => R = <<>>
      BY <1>4, <2>3
    <3>4. Refused(R, S)'
      BY <3>1, <3>2, <3>3 DEF Refused
    <3> QED
      BY <1>11, <3>4 DEF Aligned, Plain
  <2> QED
    BY <2>1, <2>2, <2>3 DEF Refused
<1>12. client \notin {"subscribed", "polling"}
  BY <1>3 DEF Aligned, Streaming
<1> QED
  BY <1>5, <1>6, <1>7, <1>9, <1>10, <1>11, <1>12 DEF Aligned

LEMMA ServerPacketInv ==
    ASSUME ConnectorInv, ServerPacket
    PROVE  ConnectorInv'
<1>1. PICK q : q = upBuf[1].of
  OBVIOUS
<1>2. PICK L, next : L = Replied(q)[1] /\ next = Replied(q)[2]
  OBVIOUS
<1>3. /\ server # "off" /\ Whole(upBuf)
      /\ upBuf' = SubSeq(upBuf, 3, Len(upBuf))
      /\ down' = down \o EncodeAll(L) /\ server' = next
      /\ pushed' = IF server = "loop" /\ next = "stream" THEN 0 ELSE pushed
      /\ UNCHANGED <<client, request, up, downBuf, got, result, answer, calls, late>>
  BY <1>1, <1>2 DEF ServerPacket, Replied
<1>4. /\ calls' \in Nat /\ pushed' \in Nat /\ (~late' => result' # "violation")
      /\ server' \in {"off", "hello", "loop", "stream"}
  <2>1. Served(q)[2] \in {"off", "loop", "stream"}
    BY DEF Served
  <2>2. Greeted(q)[2] \in {"off", "loop"}
    BY DEF Greeted
  <2>3. Streamed(q)[2] \in {"loop", "stream"}
    BY DEF Streamed
  <2>4. next \in {"off", "hello", "loop", "stream"}
    BY <1>2, <1>3, <2>1, <2>2, <2>3 DEF Replied, ConnectorInv
  <2> QED
    BY <1>3, <2>4 DEF ConnectorInv
<1> SUFFICES ASSUME client # "off"
             PROVE  \E P, Q : Carries(downBuf', down', P) /\ Carries(upBuf', up', Q) /\ Aligned(P, Q)'
  BY <1>3, <1>4 DEF ConnectorInv
<1>5. PICK P, Q : Carries(downBuf, down, P) /\ Carries(upBuf, up, Q) /\ Aligned(P, Q)
  BY DEF ConnectorInv
<1>6. Len(Q) >= 1 /\ q = Q[1]
  BY <1>1, <1>3, <1>5, TakeCarries
<1>7. PICK S : Rested(Q, S) /\ Carries(SubSeq(upBuf, 3, Len(upBuf)), up, S)
  BY <1>3, <1>5, TakeCarries
<1>8. IsSeq(P) /\ IsSeq(Q)
  BY <1>5 DEF Carries
<1>9. IsSeq(L)
  BY <1>2, <1>3, ReplyIsSeq DEF ConnectorInv
<1>10. PICK R : R = P \o L
  OBVIOUS
<1>11. Carries(downBuf, down \o EncodeAll(L), R) /\ IsJoin(P, L, R)
  BY <1>5, <1>9, <1>10, SendCarries
<1>12. Aligned(R, S)'
  BY <1>2, <1>3, <1>5, <1>6, <1>7, <1>8, <1>9, <1>11, ReplyAligned
<1> QED
  BY <1>3, <1>5, <1>7, <1>11, <1>12

LEMMA ConnectorNextInv == ConnectorInv /\ [ConnectorNext]_connectorVars => ConnectorInv'
<1> SUFFICES ASSUME ConnectorInv, [ConnectorNext]_connectorVars PROVE ConnectorInv'
  OBVIOUS
<1>1. CASE UNCHANGED connectorVars
  BY <1>1 DEF connectorVars, ConnectorInv, Aligned, Connecting, Idle, Answered, Accepted, Asking,
              Streaming, Leaving, Behind, Refused
<1>2. CASE \E ok \in BOOLEAN :
              \/ Connect(ok)
              \/ \E type \in {"QueryRequest", "SubscribeRequest"} : Call(type, ok)
  BY <1>2, ConnectInv, CallInv
<1>3. CASE \E type \in {"Ping", "DescribeRequest"} : Call(type, TRUE)
  BY <1>3, CallInv
<1>4. CASE NextEvent \/ Unsubscribe \/ Drop
  BY <1>4, NextEventInv, UnsubscribeInv, DropInv
<1>5. CASE ClientRead \/ ClientPacket \/ ClientTimeout \/ ClientBroken
  BY <1>5, ReadInv, ClientPacketInv, ClientTimeoutInv, ClientBrokenInv
<1>6. CASE ServerRead \/ ServerPacket \/ ServerPush \/ ServerGivesUp
  BY <1>6, ReadInv, ServerPacketInv, ServerPushInv, ServerGivesUpInv
<1> QED
  BY <1>1, <1>2, <1>3, <1>4, <1>5, <1>6 DEF ConnectorNext

LEMMA AlignedAnswers ==
    ASSUME ConnectorInv
    PROVE  AnswersAlign
<1>1. CASE client = "off"
  BY <1>1 DEF ConnectorInv, AnswersAlign
<1>2. CASE client # "off"
  <2>1. PICK P, Q : Carries(downBuf, down, P) /\ Carries(upBuf, up, Q) /\ Aligned(P, Q)
    BY <1>2 DEF ConnectorInv
  <2>2. (P = <<>> => downBuf = <<>> /\ down = <<>>) /\ (Q = <<>> => upBuf = <<>> /\ up = <<>>)
    BY <2>1, BytesAreFramed
  <2> QED
    BY <2>1, <2>2 DEF ConnectorInv, AnswersAlign, Aligned, Streaming, Idle
<1> QED
  BY <1>1, <1>2

(* However reads are split, whatever times out and whenever the server     *)
(* gives up: next_event returns the events of its subscription in order    *)
(* and once, and while no call gave up waiting every call is answered by   *)
(* the packet sent for it (TnpChannel::recv, Connection, LiveSubscription, *)
(* handle_connection).                                                     *)
THEOREM ConnectorAnswersAlign == ConnectorSpec => []AnswersAlign
BY ConnectorInitInv, ConnectorNextInv, AlignedAnswers, PTL DEF ConnectorSpec

==============================================================================
