--------------------------- MODULE TrajectoryStore ---------------------------
(***************************************************************************)
(* The replay store (zilli/data/experience_replay.py), by what its three   *)
(* lists hold in number.  A trajectory is golden, failure or neutral by    *)
(* its reward; neutral ones are kept in the rollout buffer.  An entry of a *)
(* production file may also be short (fewer than two steps) or poison (not *)
(* a dictionary, or one that the store chokes on).                         *)
(***************************************************************************)
EXTENDS Integers, Sequences

CONSTANT MaxSize    \* max_size of the configuration
ASSUME StoreAssumption == MaxSize \in Nat \ {0}

Good == {"golden", "failure", "neutral"}

EmptyStore == [golden |-> 0, failure |-> 0, buffer |-> 0]

Total(s) == s.golden + s.failure + s.buffer

ListOf(entry) == IF entry = "neutral" THEN "buffer" ELSE entry

\* One list pays for the whole excess, even if it is shorter than that.
Dropped(list, excess) == IF list > excess THEN list - excess ELSE 0

Payer_GoldenFirst(s) ==
  CASE s.golden > 0                     -> "golden"
    [] s.golden = 0 /\ s.failure > 0    -> "failure"
    [] OTHER                            -> "buffer"

\* The first list in the order buffer, failure, golden that holds anything.
Payer(s) ==
  CASE s.buffer > 0                     -> "buffer"
    [] s.buffer = 0 /\ s.failure > 0    -> "failure"
    [] OTHER                            -> "golden"

\* _enforce_max_size: that list gives up its oldest entries.
Enforced(s) ==
  LET excess == Total(s) - MaxSize
  IN IF excess > 0 THEN [s EXCEPT ![Payer(s)] = Dropped(@, excess)] ELSE s

\* add_trajectory: a short one is ignored.
Added(s, entry) ==
  IF entry \in Good THEN Enforced([s EXCEPT ![ListOf(entry)] = @ + 1]) ELSE s
=============================================================================
