-------------------------- MODULE PlannerFrequency --------------------------
(***************************************************************************)
(* The PlannerFrequencyController of several processes that share one      *)
(* file: a planner call is refused if it would exceed its share of the     *)
(* calls of the window.                                                    *)
(***************************************************************************)
EXTENDS Integers

CONSTANTS Controllers,      \* the processes
          ShareNum, ShareDen, \* max_planner_ratio
          MaxWindowCalls,   \* bound: calls in a window
          MaxHours          \* bound: the end of time; a window lasts one

ASSUME ShareAssumption == ShareNum \in Nat /\ ShareDen \in Nat \ {0} /\ MaxHours \in Nat /\ MaxWindowCalls \in Nat

VARIABLES tally,   \* _record in each process
          tallyFile, \* the file, NoTally if there is none or it does not parse
          hour

freqVars == <<tally, tallyFile, hour>>

Fresh(start) == [total |-> 0, planner |-> 0, executor |-> 0, blocked |-> 0, start |-> start]
NoTally == [total |-> 0, planner |-> 0, executor |-> 0, blocked |-> 0, start |-> -1]

FreqInit ==
  /\ hour = 0 /\ tallyFile = NoTally
  /\ tally = [p \in Controllers |-> Fresh(0)]

WindowOver(t) == hour - t.start > 1

\* _reset if the window is over, as every call begins.
Current(p) == IF WindowOver(tally[p]) THEN Fresh(hour) ELSE tally[p]

\* _save: write_text, whose failure is only logged; a write that is cut off leaves nothing to parse.
Saves(t) == tallyFile' \in {t, NoTally, tallyFile}

WithinShare(t) == t.planner * ShareDen <= ShareNum * t.total

\* record_planner_call: counted, and taken back if over the share; the attempt stays in the total.
Tried(t) == [t EXCEPT !.total = @ + 1, !.planner = @ + 1]
Refused(t) == [t EXCEPT !.total = @ + 1, !.blocked = @ + 1]
Outcome_ByFormer(t) == IF WithinShare(t) THEN Tried(t) ELSE Refused(t)
Outcome(t) == IF WithinShare(Tried(t)) THEN Tried(t) ELSE Refused(t)

PlannerCall(p) ==
  /\ tally' = [tally EXCEPT ![p] = Outcome(Current(p))]
  /\ tally[p].total < MaxWindowCalls
  /\ Saves(Outcome(Current(p)))
  /\ UNCHANGED hour

ExecutorCall(p) ==
  LET t == [Current(p) EXCEPT !.total = @ + 1, !.executor = @ + 1] IN
  /\ tally[p].total < MaxWindowCalls
  /\ tally' = [tally EXCEPT ![p] = t] /\ Saves(t)
  /\ UNCHANGED hour

\* A process ends and starts again with what the file has, unless its window is over.
Reload(p) ==
  LET t == IF tallyFile = NoTally \/ WindowOver(tallyFile) THEN Fresh(hour) ELSE tallyFile IN
  /\ tally' = [tally EXCEPT ![p] = t]
  /\ IF t = tallyFile THEN UNCHANGED tallyFile ELSE Saves(t)
  /\ UNCHANGED hour

HourPasses == hour < MaxHours /\ hour' = hour + 1 /\ UNCHANGED <<tally, tallyFile>>

FreqNext ==
  \/ \E p \in Controllers : PlannerCall(p) \/ ExecutorCall(p) \/ Reload(p)
  \/ HourPasses

FreqSpec == FreqInit /\ [][FreqNext]_freqVars

\* The planner never has more than its share of the calls, in any process and in the file, although
\* processes overwrite each other's file, saves fail or are cut off and windows end (frequency_controller.py:62).
PlannerShare == /\ \A p \in Controllers : WithinShare(tally[p])
                /\ WithinShare(tallyFile)
=============================================================================
