---------------------------- MODULE Deliberation ----------------------------
(***************************************************************************)
(* How several opinions become one: ResultFusion (zilli/fusion/engine.py), *)
(* the ConsensusEngine, the registry of roles and the AgentRouter          *)
(* (zilli/swarm).  A text is what is left of it stripped and in lower      *)
(* case.  Numbers are exact, in grains: so fine a fraction of the unit     *)
(* that results are rounded to that every number is a whole number of them.*)
(* Confidences are in tenths.                                              *)
(***************************************************************************)
EXTENDS Integers, Sequences, FiniteSets, FiniteSetsExt, SequencesExt

CONSTANTS
  Texts,         \* the outputs of models
  Words,         \* those that float() does not take
  NonFinite,     \* those that it takes for nan or for an infinity
  ValueOf,       \* the value of every other, in grains
  Grain,         \* the grains in 0.0001, the unit of a rounded result
  Confidences,   \* their confidences
  MaxOutputs,    \* bound: outputs of one fusion, options of one decision
  MaxVotes,      \* bound: votes of one decision
  MinModels,     \* min_models
  Threshold,     \* disagreement_threshold, in percent
  ModelLists,    \* the entries of a ModelProfile, in their order
  Substring      \* which slot is a part of which model's name: a set of pairs

ASSUME DeliberationAssumption ==
  /\ ValueOf \in [Texts -> Int] /\ Grain \in Nat \ {0} /\ Confidences \subseteq Nat
  /\ MinModels \in Nat /\ Threshold \in Nat /\ MaxOutputs \in Nat
  /\ \A models \in ModelLists : models \in Seq(STRING) /\ \A i \in DOMAIN models : models[i] # "none"

VARIABLE council  \* what is deliberated: the opinions so far and the last result; the roles and models

Builtin ==
  [researcher |-> [slot |-> "planner", fallback |-> "none"], architect |-> [slot |-> "planner", fallback |-> "researcher"],
   writer |-> [slot |-> "executor", fallback |-> "executor"], verifier |-> [slot |-> "reviewer", fallback |-> "reviewer"],
   reviewer |-> [slot |-> "reviewer", fallback |-> "none"], executor |-> [slot |-> "executor", fallback |-> "none"]]

Nothing == [kind |-> "none"]
Council(kind, models) ==
  [kind |-> kind, outputs |-> <<>>, judge |-> FALSE, result |-> Nothing, history |-> 0,
   roles |-> Builtin, models |-> models]
CouncilIdle == council = Council("off", <<>>)
CouncilInit ==
  \/ \E judge \in BOOLEAN, kind \in {"fusion", "vote"} : council = [Council(kind, <<>>) EXCEPT !.judge = judge]
  \/ \E models \in ModelLists : council = Council("assignment", models)

-----------------------------------------------------------------------------
(* ResultFusion *)

AllNumbers(os) == \A i \in DOMAIN os : os[i].text \notin Words
AllFinite(os) == \A i \in DOMAIN os : os[i].text \notin Words \cup NonFinite
Summed(ws) == LET upTo[n \in 0..Len(ws)] == IF n = 0 THEN 0 ELSE upTo[n - 1] + ws[n] IN upTo[Len(ws)]
\* argmax and max: the first of the greatest.
FirstBest(v) ==
  CHOOSE i \in DOMAIN v : \A j \in DOMAIN v : v[i] > v[j] \/ (v[i] = v[j] /\ i <= j)
Confidence(os) == [i \in DOMAIN os |-> os[i].confidence]
TotalConfidence(os) == Summed(Confidence(os))
BestText(os) == os[FirstBest(Confidence(os))].text

Said(text) == [form |-> "text", of |-> text]
FusedAs(text, by) == [kind |-> "fused", text |-> text, by |-> by, arbiter |-> FALSE]
Raised == [kind |-> "raised"]

\* round(num / den, 4): the nearest unit, and of two as near the even one.
Rounded(num, den) ==
  LET unit    == den * Grain
      nearest == (2 * num + unit) \div (2 * unit)
      tie     == (2 * num + unit) % (2 * unit) = 0
  IN Grain * (IF tie /\ nearest % 2 = 1 THEN nearest - 1 ELSE nearest)

\* The weighted mean of numbers, rounded; with nan or an infinity among them it is one itself.
Mean(os, ws) ==
  IF AllFinite(os)
  THEN [form |-> "mean", value |-> Rounded(Summed([i \in DOMAIN os |-> ws[i] * ValueOf[os[i].text]]), Summed(ws))]
  ELSE [form |-> "nonfinite"]
\* The mean, or the text of the most confident.
Mixed(os, ws) == FusedAs(IF AllNumbers(os) THEN Mean(os, ws) ELSE Said(BestText(os)), DOMAIN os)

Average(os) == Mixed(os, [i \in DOMAIN os |-> 1])
ConfidenceWeighted(os) == IF TotalConfidence(os) = 0 THEN Average(os) ELSE Mixed(os, Confidence(os))
BestConfidence(os) == FusedAs(Said(BestText(os)), {FirstBest(Confidence(os))})
\* Weights by softmax: positive and rising with the confidence, here linearly.
Stacking(os) ==
  IF AllNumbers(os) THEN Mixed(os, [i \in DOMAIN os |-> 10 + os[i].confidence]) ELSE BestConfidence(os)

\* The first text with the most votes; without any confidence its share is a division by zero.
VotesFor(os, t) == Summed([i \in DOMAIN os |-> IF os[i].text = t THEN os[i].confidence ELSE 0])
VotedAs(os, votes) ==
  LET winner == os[FirstBest(votes)].text
  IN IF TotalConfidence(os) = 0 THEN Raised
     ELSE FusedAs(Said(winner), {i \in DOMAIN os : os[i].text = winner})
MajorityVote_Counted(os) ==
  VotedAs(os, [i \in DOMAIN os |-> Cardinality({j \in DOMAIN os : os[j].text = os[i].text})])
MajorityVote(os) == VotedAs(os, [i \in DOMAIN os |-> VotesFor(os, os[i].text)])

\* 1 - 1/u for u different texts.
Different(os) == Cardinality({os[i].text : i \in DOMAIN os})
Disagrees(os) == 100 * (Different(os) - 1) > Threshold * Different(os)

Strategy == {"confidence_weighted", "majority_vote", "average", "best_confidence", "stacking"}
\* None of them has an answer to no outputs.
FusedBy(strategy, os) ==
  CASE os = <<>> -> Raised
    [] os # <<>> /\ strategy = "confidence_weighted" -> ConfidenceWeighted(os)
    [] os # <<>> /\ strategy = "majority_vote" -> MajorityVote(os)
    [] os # <<>> /\ strategy = "average" -> Average(os)
    [] os # <<>> /\ strategy = "best_confidence" -> BestConfidence(os)
    [] os # <<>> /\ strategy = "stacking" -> Stacking(os)

OutputArrives ==
  /\ council.kind \in {"fusion", "vote"} /\ council.result = Nothing /\ Len(council.outputs) < (IF council.kind = "vote" THEN MaxVotes ELSE MaxOutputs)
  /\ \E o \in [text : Texts, confidence : Confidences] : council' = [council EXCEPT !.outputs = Append(@, o)]

\* fuse: too few outputs are passed on or answered with nothing, and not kept.
Fuse ==
  /\ council.kind = "fusion" /\ council.result = Nothing
  /\ \E strategy \in Strategy :
       LET os == council.outputs
           fused == FusedBy(strategy, os)
           few == IF os = <<>> THEN FusedAs([form |-> "empty"], {}) ELSE FusedAs(Said(os[1].text), {1})
       IN council' =
            IF Len(os) < MinModels THEN [council EXCEPT !.result = few]
            ELSE IF fused.kind = "raised" THEN [council EXCEPT !.result = fused]
            ELSE [council EXCEPT !.result = [fused EXCEPT !.arbiter = council.judge /\ Disagrees(os)],
                                 !.history = @ + 1]

-----------------------------------------------------------------------------
(* ConsensusEngine: the outputs are votes with their weights *)

Levels == {"majority", "weighted", "arbiter", "human"}

\* _decide: the first option with most votes, unless there is an arbiter, who may say anything.
Decide(options, votes, level, said) ==
  IF level = "arbiter" /\ council.judge THEN said
  ELSE options[FirstBest([i \in DOMAIN options |-> VotesFor(votes, options[i])])]

Reach ==
  /\ council.kind = "vote" /\ council.result = Nothing
  /\ \E options \in SeqOf(Texts, MaxOutputs), level \in Levels, said \in Texts :
       /\ Cardinality(ToSet(options)) = Len(options)
       /\ council' = [council EXCEPT !.result =
            IF options = <<>> THEN Raised
            ELSE [kind |-> "decided", options |-> options, level |-> level,
                  resolution |-> Decide(options, council.outputs, level, said),
                  human |-> level = "human"]]

-----------------------------------------------------------------------------
(* Roles and AgentRouter *)

RegisterRole ==
  /\ council.kind = "assignment"
  /\ \E role \in {"architect", "executor", "poet"}, slot \in {"planner", "verse"}, fallback \in {"none", "poet", "executor"} :
       council' = [council EXCEPT !.roles =
                     [r \in DOMAIN @ \cup {role} |-> IF r = role THEN [slot |-> slot, fallback |-> fallback] ELSE @[r]]]
ResetRoles == council.kind = "assignment" /\ council' = [council EXCEPT !.roles = Builtin]

\* _pick_model: by name, by a part of the name, or any.
PickModel(slot) ==
  LET named == SelectInSeq(council.models, LAMBDA m : m = slot)
      part  == SelectInSeq(council.models, LAMBDA m : <<slot, m>> \in Substring)
  IN CASE council.models = <<>> -> "none"
       [] named # 0 -> council.models[named]
       [] named = 0 /\ part # 0 -> council.models[part]
       [] OTHER -> Head(council.models)

\* assign: an unknown role is the executor's; its fallback is tried when no model is found.
Assign ==
  /\ council.kind = "assignment"
  /\ \E asked \in {"architect", "poet", "writer"} :
       LET role == IF asked \in DOMAIN council.roles THEN asked ELSE "executor"
           spec == council.roles[role]
           model == PickModel(spec.slot)
           back == spec.fallback \in DOMAIN council.roles
       IN council' = [council EXCEPT !.result =
            IF model = "none" /\ back
            THEN [kind |-> "assigned", role |-> spec.fallback, slot |-> council.roles[spec.fallback].slot,
                  model |-> PickModel(council.roles[spec.fallback].slot), fallback |-> TRUE]
            ELSE [kind |-> "assigned", role |-> role, slot |-> spec.slot, model |-> model, fallback |-> FALSE]]

CouncilNext == OutputArrives \/ Fuse \/ Reach \/ RegisterRole \/ ResetRoles \/ Assign

CouncilSpec == CouncilInit /\ [][CouncilNext]_council

-----------------------------------------------------------------------------
(* Properties *)

\* What comes out of a fusion is a mean that lies between the numbers that went in, to half a unit of
\* its last decimal, or the text of one of the outputs: of one that nobody is more confident than, or, in
\* a vote, that no other text outweighs. No word gets into a mean, and nan or an infinity comes out only
\* if one went in (fusion/engine.py:115, 137).
FusedSound(r) ==
  LET os == council.outputs
      numbers == {ValueOf[os[i].text] : i \in DOMAIN os}
  IN r.kind = "fused" /\ os # <<>> /\ Len(os) >= MinModels =>
       /\ r.by \subseteq DOMAIN os /\ r.by # {}
       /\ r.text.form \in {"mean", "text", "nonfinite"}
       /\ r.text.form = "mean" =>
            /\ AllFinite(os)
            /\ 2 * r.text.value >= 2 * Min(numbers) - Grain /\ 2 * r.text.value <= 2 * Max(numbers) + Grain
       /\ r.text.form = "nonfinite" => AllNumbers(os) /\ ~AllFinite(os)
       /\ r.text.form = "text" =>
            \E i \in DOMAIN os :
              /\ os[i].text = r.text.of
              /\ \/ \A j \in DOMAIN os : os[j].confidence <= os[i].confidence
                 \/ \A j \in DOMAIN os : VotesFor(os, os[j].text) <= VotesFor(os, os[i].text)
       /\ r.arbiter => council.judge /\ Different(os) > 1

\* A decision is one of the options with no other ahead of it, unless an arbiter took it; an assignment
\* has a model if there is any, the one named as its slot if there is one, and leaves the role only
\* without models.
DeliberationSound ==
  LET r == council.result IN
  /\ FusedSound(r)
  /\ r.kind = "raised" /\ council.kind = "fusion" => TotalConfidence(council.outputs) = 0
  /\ r.kind = "decided" /\ ~(r.level = "arbiter" /\ council.judge) =>
       /\ r.resolution \in ToSet(r.options)
       /\ \A i \in DOMAIN r.options : VotesFor(council.outputs, r.options[i]) <= VotesFor(council.outputs, r.resolution)
  /\ r.kind = "assigned" =>
       /\ r.model = "none" <=> council.models = <<>>
       /\ r.slot \in ToSet(council.models) => r.model = r.slot
       /\ r.fallback => council.models = <<>>
  /\ "executor" \in DOMAIN council.roles
=============================================================================
