------------------------------- MODULE Beliefs -------------------------------
(***************************************************************************)
(* Truth maintenance and the prediction ledger of the epistemic knowledge  *)
(* store (crates/temnion-eks, M25 to M27).  A proposition is what          *)
(* is_contradictory sees of its text: how many times "not" stands before   *)
(* it, the rest, and which words of the antonym list it contains.          *)
(***************************************************************************)
EXTENDS Integers, Sequences, FiniteSetsExt, TLC, HistoryFilter

CONSTANTS
    Propositions,   \* records not, body, words
    Kinds,          \* what is recorded beside beliefs: observation, claim, rule...
    Confidences,    \* confidence of a prediction, in percent
    MaxKnowledge,   \* bound: knowledge ids given out
    MaxPredictions, \* bound
    LastTime        \* bound: the clock runs from 1 to LastTime

ASSUME BeliefsAssumption == MaxKnowledge \in Nat /\ LastTime \in Nat

VARIABLES
    items,          \* knowledge id -> kind, for everything but beliefs
    beliefs,        \* knowledge id -> proposition, status, learned, premises
    contradictions, \* sequence of item_a, item_b, detected_at
    predictions,    \* sequence of confidence, emitted, outcome
    now,            \* the known time of the caller
    retractedThen   \* history: what was retracted when a belief was inferred

beliefVars == <<items, beliefs, contradictions, predictions, now, retractedThen>>

BeliefsInit ==
    /\ items = <<>> /\ beliefs = <<>> /\ contradictions = <<>> /\ predictions = <<>>
    /\ now = 1
    /\ retractedThen = <<>>

Known == DOMAIN items \union DOMAIN beliefs
NextKnowledge == Cardinality(Known) + 1
WithStatus(status) == {b \in DOMAIN beliefs : beliefs[b].status = status}

(* record_observation, assert_claim, define_rule, register_concept,        *)
(* register_model, register_skill: an id and an entry.                     *)
RecordItem(kind) ==
    /\ NextKnowledge <= MaxKnowledge
    /\ items' = Put(items, NextKnowledge, kind)
    /\ UNCHANGED <<beliefs, contradictions, predictions, now, retractedThen>>

Antonyms == {<<"true", "false">>, <<"alive", "dead">>, <<"active", "inactive">>,
             <<"healthy", "critical">>, <<"open", "closed">>}

(* Direct negation, or antonyms anywhere in the two texts ("inactive"      *)
(* contains "active", so that it contradicts itself).                      *)
IsContradictory(a, b) ==
    \/ a.body = b.body /\ (a.not = b.not + 1 \/ b.not = a.not + 1)
    \/ \E pair \in Antonyms :
          \/ pair[1] \in a.words /\ pair[2] \in b.words
          \/ pair[2] \in a.words /\ pair[1] \in b.words

(* infer_belief: the new belief and every active one it contradicts become *)
(* Contradicted.  Its premises are not looked at; that they are ids given  *)
(* out before, so that no belief rests on itself, is what callers do and   *)
(* not what the code checks.                                               *)
InferBelief(proposition, premises) ==
    LET id == NextKnowledge
        conflicting == {b \in WithStatus("Active") :
                            IsContradictory(beliefs[b].proposition, proposition)}
    IN  /\ id <= MaxKnowledge
        /\ premises \subseteq Known
        /\ contradictions' = contradictions \o
              [i \in 1..Cardinality(conflicting) |->
                  [a |-> CHOOSE b \in conflicting :
                            Cardinality({c \in conflicting : c <= b}) = i,
                   b |-> id, at |-> now]]
        /\ beliefs' = Put([b \in DOMAIN beliefs |->
                              IF b \in conflicting THEN [beliefs[b] EXCEPT !.status = "Contradicted"]
                              ELSE beliefs[b]],
                          id, [proposition |-> proposition, learned |-> now, premises |-> premises,
                               status |-> IF conflicting = {} THEN "Active" ELSE "Contradicted"])
        /\ retractedThen' = Put(retractedThen, id, WithStatus("Retracted"))
        /\ UNCHANGED <<items, predictions, now>>

(* A premise and a belief inferred from it.                                *)
Rests == {e \in (DOMAIN beliefs) \X (DOMAIN beliefs) : e[1] \in beliefs[e[2]].premises}

(* The beliefs a chain of edges leads to.  (A premise is an earlier id, so *)
(* that no chain is longer than there are ids.)                            *)
Reached(id, edges) ==
    LET Within[n \in 0..MaxKnowledge] ==
            IF n = 0 THEN {id}
            ELSE Within[n - 1] \union {b \in DOMAIN beliefs : \E a \in Within[n - 1] : <<a, b>> \in edges}
    IN  Within[Cardinality(Known)]

(* Mutant: the cascade stops at the direct dependents.                     *)
Cascade_Direct(id) == {id} \union {b \in DOMAIN beliefs : <<id, b>> \in Rests}

(* What retract_belief calls itself for.                                   *)
Cascade(id) == Reached(id, Rests)

RetractBelief(id) ==
    /\ id \in DOMAIN beliefs
    /\ beliefs' = [b \in DOMAIN beliefs |->
            IF b \in Cascade(id) THEN [beliefs[b] EXCEPT !.status = "Retracted"] ELSE beliefs[b]]
    /\ UNCHANGED <<items, contradictions, predictions, now, retractedThen>>

(* The beliefs in the tree that why builds for a belief.                   *)
Why(id) == Reached(id, {<<e[2], e[1]>> : e \in Rests})

(* Mutant: the cutoff is not compared with when a belief was learned.      *)
ActiveAsOf_Current(cutoff) == WithStatus("Active")

(* active_beliefs_known_as_of: with the status the beliefs have today.     *)
ActiveAsOf(cutoff) == {b \in WithStatus("Active") : beliefs[b].learned <= cutoff}

-----------------------------------------------------------------------------
RecordPrediction(confidence) ==
    /\ Len(predictions) < MaxPredictions
    /\ predictions' = Append(predictions,
            [confidence |-> confidence, emitted |-> now, outcome |-> None])
    /\ UNCHANGED <<items, beliefs, contradictions, now, retractedThen>>

(* resolve_outcome replaces an outcome that is there already.              *)
ResolveOutcome(p, matched) ==
    /\ predictions' = [predictions EXCEPT ![p].outcome = Some([matched |-> matched, at |-> now])]
    /\ UNCHANGED <<items, beliefs, contradictions, now, retractedThen>>

Scored(cutoff) ==
    {p \in DOMAIN predictions :
        /\ predictions[p].emitted <= cutoff
        /\ \E o \in predictions[p].outcome : o.at <= cutoff}

(* compute_brier_score: the sum of the squares and the count, in percent;  *)
(* an error when there is nothing to score.                                *)
ErrorOf(prediction) ==
    CHOOSE e \in 0..100 : \E o \in prediction.outcome :
        e = IF o.matched THEN 100 - prediction.confidence ELSE prediction.confidence

Errors(cutoff) == [p \in Scored(cutoff) |-> ErrorOf(predictions[p])]

SumOfSquares(errors) == MapThenSumSet(LAMBDA p : errors[p] * errors[p], DOMAIN errors)

BrierScore(cutoff) ==
    IF Scored(cutoff) = {} THEN None
    ELSE Some(<<SumOfSquares(Errors(cutoff)), Cardinality(Scored(cutoff))>>)

Tick ==
    /\ now < LastTime
    /\ now' = now + 1
    /\ UNCHANGED <<items, beliefs, contradictions, predictions, retractedThen>>

BeliefsNext ==
    \/ \E kind \in Kinds : RecordItem(kind)
    \/ \E proposition \in Propositions, premises \in SUBSET Known :
            InferBelief(proposition, premises)
    \/ \E id \in DOMAIN beliefs : RetractBelief(id)
    \/ \E confidence \in Confidences : RecordPrediction(confidence)
    \/ \E p \in DOMAIN predictions, matched \in BOOLEAN : ResolveOutcome(p, matched)
    \/ Tick

-----------------------------------------------------------------------------
(* A retraction reaches everything that rests on the retracted belief: if  *)
(* why traces a belief to a retracted one, it is retracted itself, unless  *)
(* the other was so already when the belief was inferred (retract_belief,  *)
(* infer_belief).                                                          *)
RetractionReachesAll ==
    \A b \in DOMAIN beliefs :
        (Why(b) \intersect WithStatus("Retracted")) \ retractedThen[b] # {}
        => beliefs[b].status = "Retracted"

(* Nothing leaks into the past: what is asked as of a time before now has  *)
(* an answer that later steps only take beliefs or predictions out of (a   *)
(* retraction or contradiction learned later, an outcome resolved again),  *)
(* and a score over the same predictions stays the same score              *)
(* (active_beliefs_known_as_of, compute_brier_score).                      *)
PastGainsNothing ==
    [][\A cutoff \in 1..LastTime : cutoff < now =>
        /\ ActiveAsOf(cutoff)' \subseteq ActiveAsOf(cutoff)
        /\ Scored(cutoff)' \subseteq Scored(cutoff)
        /\ Scored(cutoff)' = Scored(cutoff) => BrierScore(cutoff)' = BrierScore(cutoff)
      ]_beliefVars
=============================================================================
