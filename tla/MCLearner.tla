------------------------------ MODULE MCLearner ------------------------------
(* The learning programs, one at a time: the continuous learner on two      *)
(* files of every mixture of contents, and the others on small instances.   *)
EXTENDS Programs

MCContents == {<<"golden">>, <<"failure", "neutral">>, <<"short", "golden">>,
               <<"neutral", "poison">>, Undecodable}

MCPrograms == {"learner", "soak", "evolution", "optimize", "distill", "train",
               "loop", "skills", "agents", "unknowns", "graph", "council"}

MCVerifierLists == {[list |-> <<>>, all |-> TRUE], [list |-> <<"skill", "tests">>, all |-> TRUE],
                    [list |-> <<"tests", "tests">>, all |-> FALSE]}

MCSkillSources ==
  {[f \in {"a", "b", "c"} |-> CASE f = "a" -> 5 [] f = "b" -> x [] f = "c" -> IF x = 6 THEN 9 ELSE 5] :
     x \in {NoSource, 6}}
MCStrategies == <<"prompt_optimization", "tool_addiction">>

\* Chains, forks, a cycle of b and c, and a step that waits for one there is not.
MCStepGraphs ==
  {[s \in {"a", "b", "c"} |-> CASE s = "a" -> {} [] s = "b" -> d [] s = "c" -> e] :
     d \in {{}, {"a"}, {"c"}}, e \in {{"a", "b"}, {"x"}}}

MCLatency == [n \in TaskNames |-> IF n = "b" THEN 2 ELSE 1]

\* 0.00004, -0.00013, a word and nan, with ten grains in 0.0001.
MCTexts == {"small", "negative", "word", "nan"}
MCValueOf == [t \in MCTexts |-> CASE t = "small" -> 4 [] t = "negative" -> -13 [] OTHER -> 0]
MCModelLists == {<<>>, <<"big-planner", "planner">>, <<"my-executor", "other">>}
MCSubstring == {<<"planner", "big-planner">>, <<"planner", "planner">>, <<"executor", "my-executor">>}
=============================================================================
