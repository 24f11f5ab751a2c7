---------------------------- MODULE MomFeedback ----------------------------
(***************************************************************************)
(* The MOM router on its event loop: requests are routed by a cached       *)
(* prediction, feedback is queued, and every record is either taken for    *)
(* training or flushed to the file by a task, the flush loop or stop.      *)
(***************************************************************************)
EXTENDS Integers, Sequences, FiniteSets, SequencesExt

CONSTANTS
  BatchSize,     \* a flush is scheduled at this length of the queue
  TrainEvery,    \* the records that trigger training
  MaxFeedback,   \* bound: records in all
  Texts,         \* what is routed
  KeyOf(_),      \* the first 200 characters of a text, lowered
  Difficulty(_), \* of a text: "low", "mid", "high"
  CacheSize,
  Models,        \* the profile's models
  CostOf(_),     \* their cost, as the cheapest tier that affords it: 1, 2 or 3
  MaxResets      \* bound: calls of reset_training, and of training on the caller's own records

ASSUME MomAssumption == TrainEvery \in Nat \ {0} /\ BatchSize \in Nat /\ CacheSize \in Nat \ {0}

VARIABLES
  feedback,   \* the queue (records by number), the scheduled flush tasks, the loop, _feedback_since_train
  fate,       \* history: for each record, the places it went to from the queue
  weights,    \* the version of the predictor's weights
  ppm,        \* the classifier: none yet, or the version of its weights and whether it shares them
  cache,      \* _cache, oldest first
  profile,    \* for each model: usable (success rate 0.5 or more) and called (call_count > 0)
  resets

momVars == <<feedback, fate, weights, ppm, cache, profile, resets>>

NoClassifier == [made |-> FALSE, shares |-> FALSE, version |-> 0]

MomInit ==
  /\ feedback = [queue |-> {}, flushes |-> 0, loop |-> FALSE, since |-> 0] /\ fate = <<>>
  /\ weights = 0 /\ ppm = NoClassifier /\ cache = <<>> /\ resets = 0
  /\ profile = [m \in Models |-> [usable |-> TRUE, called |-> FALSE]]

-----------------------------------------------------------------------------
(* Predicting and routing *)

\* The classifier is built at the first prediction and shares the weights it is given then.
Classifier == IF ppm.made THEN ppm ELSE [made |-> TRUE, shares |-> TRUE, version |-> weights]

\* predict: a hit moves to the end; a miss evicts the oldest of a full cache.
CachedAt(text) == {i \in DOMAIN cache : cache[i].key = KeyOf(text)}
Predicted(text) ==
  IF CachedAt(text) # {}
  THEN LET i == CHOOSE i \in CachedAt(text) : TRUE IN Append(RemoveAt(cache, i), cache[i])
  ELSE Append(IF Len(cache) < CacheSize THEN cache ELSE Tail(cache),
              [key |-> KeyOf(text), version |-> Classifier.version, difficulty |-> Difficulty(text)])

\* StrategySelector.select: the tier a request may cost, from its difficulty and the budget that is used.
Tier(difficulty, budget) ==
  CASE difficulty = "low" \/ budget = "spent" -> 1
    [] difficulty = "high" /\ budget = "ample" -> 3
    [] OTHER -> 2

\* ModelProfile.filter; an exploring one keeps some of them.
Candidates(tier) == {m \in Models : CostOf(m) <= tier /\ profile[m].usable}

\* route: the model chosen among several counts the call, the only one does not.
Route(text, budget) ==
  /\ cache' = Predicted(text)
  /\ ppm' = IF CachedAt(text) = {} THEN Classifier ELSE ppm
  /\ LET all == Candidates(Tier(Last(Predicted(text)).difficulty, budget)) IN
     \E kept \in (SUBSET all \ {{}}) \cup {all} :
       IF Cardinality(kept) < 2 THEN UNCHANGED profile
       ELSE \E m \in kept : profile' = [profile EXCEPT ![m].called = TRUE]
  /\ UNCHANGED <<feedback, fate, weights, resets>>

-----------------------------------------------------------------------------
(* Feedback *)

\* train clears the cache if it had records.
CacheAfter(taken) == IF taken = {} THEN cache ELSE <<>>

Gone(taken, place) == [i \in DOMAIN fate |-> IF i \in taken THEN fate[i] \cup {place} ELSE fate[i]]

Drained_Copied(queue) == queue
\* What is left in the queue after train_ppm_from_feedback: _drain_feedback_queue takes everything.
Drained(queue) == {}

\* PPMPredictor.train: the weights are changed in place and the cache is cleared, unless there is no record.
Trained(taken) ==
  /\ weights' = IF taken = {} THEN weights ELSE weights + 1
  /\ ppm' = IF taken # {} /\ ppm.shares THEN [ppm EXCEPT !.version = weights + 1] ELSE ppm
  /\ cache' = CacheAfter(taken)

\* record_feedback: the record is queued, a full batch schedules a flush if a loop runs, and every
\* TrainEvery records the predictor is trained at once, before that flush can run.
Record(inLoop) ==
  LET id    == Len(fate) + 1
      queue == feedback.queue \cup {id}
      batch == IF inLoop /\ Cardinality(queue) >= BatchSize THEN 1 ELSE 0
  IN /\ id <= MaxFeedback
     /\ IF feedback.since + 1 >= TrainEvery
        THEN /\ Trained(queue)
             /\ fate' = [i \in 1 .. id |-> IF i = id THEN {"trained"} ELSE Gone(queue, "trained")[i]]
             /\ feedback' = [feedback EXCEPT !.queue = Drained(queue), !.flushes = @ + batch, !.since = 0]
        ELSE /\ fate' = Append(fate, {})
             /\ feedback' = [feedback EXCEPT !.queue = queue, !.flushes = @ + batch, !.since = @ + 1]
             /\ UNCHANGED <<weights, ppm, cache>>
     /\ UNCHANGED <<profile, resets>>

\* The same, called by hand.
Train ==
  /\ Trained(feedback.queue)
  /\ fate' = Gone(feedback.queue, "trained")
  /\ feedback' = [feedback EXCEPT !.queue = Drained(feedback.queue), !.since = 0]
  /\ UNCHANGED <<profile, resets>>

\* Called with records of the caller's own, if any: the count begins anew, and the queue stays as it is.
TrainOn(own) ==
  /\ resets < MaxResets /\ resets' = resets + 1
  /\ Trained(own)
  /\ feedback' = [feedback EXCEPT !.since = 0]
  /\ UNCHANGED <<fate, profile>>

\* flush: the queue is emptied into the file; a write that fails loses the records.
Flushed == \E place \in {"persisted", "lost"} : fate' = Gone(feedback.queue, place)

FlushTask ==
  /\ feedback.flushes > 0 /\ Flushed
  /\ feedback' = [feedback EXCEPT !.queue = {}, !.flushes = @ - 1]
  /\ UNCHANGED <<weights, ppm, cache, profile, resets>>

LoopWakes ==
  /\ feedback.loop /\ Flushed
  /\ feedback' = [feedback EXCEPT !.queue = {}]
  /\ UNCHANGED <<weights, ppm, cache, profile, resets>>

StartLoop ==
  /\ ~feedback.loop /\ feedback' = [feedback EXCEPT !.loop = TRUE]
  /\ UNCHANGED <<fate, weights, ppm, cache, profile, resets>>

\* stop: the loop is cancelled, and what is queued is flushed.
StopLoop ==
  /\ feedback.loop /\ Flushed
  /\ feedback' = [feedback EXCEPT !.queue = {}, !.loop = FALSE]
  /\ UNCHANGED <<weights, ppm, cache, profile, resets>>

\* reset_training replaces the weights; a classifier built before keeps the old ones, for good.
Reset ==
  /\ resets < MaxResets /\ resets' = resets + 1
  /\ weights' = weights + 1 /\ cache' = <<>> /\ ppm' = [ppm EXCEPT !.shares = FALSE]
  /\ UNCHANGED <<feedback, fate, profile>>

\* update_success_rate: failures take a model below the rate that filter asks for, successes back.
Rate(m) ==
  /\ profile' = [profile EXCEPT ![m].usable = ~@, ![m].called = TRUE]
  /\ UNCHANGED <<feedback, fate, weights, ppm, cache, resets>>

MomNext ==
  \/ \E text \in Texts, budget \in {"ample", "half", "spent"} : Route(text, budget)
  \/ \E inLoop \in BOOLEAN : Record(inLoop)
  \/ \E own \in {{}, {0}} : TrainOn(own)
  \/ Train \/ FlushTask \/ LoopWakes \/ StartLoop \/ StopLoop \/ Reset
  \/ \E m \in Models : Rate(m)

MomSpec == MomInit /\ [][MomNext]_momVars

-----------------------------------------------------------------------------
(* Properties *)

\* Every record is still queued or went to one place, trained on or flushed, whatever the order of
\* flush tasks, the loop, stop and training, and no record is taken before it was made; the count of
\* records since training stays below a cycle (mom_router.py:110-156, feedback.py:72-101).
RecordsConserved ==
  /\ feedback.queue \subseteq DOMAIN fate
  /\ \A i \in DOMAIN fate : Cardinality(fate[i]) = (IF i \in feedback.queue THEN 0 ELSE 1)
  /\ feedback.since < TrainEvery

\* A cached prediction is the one the classifier would make now, through training, resets of it and
\* evictions, and the cache holds one for a key (ppm.py:86, 155).
PredictionsFresh ==
  /\ \A i \in DOMAIN cache : cache[i].version = ppm.version
  /\ \A i, j \in DOMAIN cache : cache[i].key = cache[j].key => i = j

\* Nothing is lost between the router and its predictor, and nothing stale is kept.
FeedbackSound == RecordsConserved /\ PredictionsFresh
=============================================================================
