---------------------------- MODULE ParetoFronts ----------------------------
(***************************************************************************)
(* MultiObjectiveOptimizer.optimize (zilli/adaptive/moo.py), a genetic     *)
(* search: each generation sorts parents and offspring into fronts and     *)
(* keeps the best of them, the crowded ones of the last front aside.  An   *)
(* individual is the vector of its objectives; random numbers and what the *)
(* registered functions return are free.                                   *)
(***************************************************************************)
EXTENDS Integers, Sequences, FiniteSets

CONSTANTS Objectives,  \* objective_names
          Minimized,   \* those to minimize
          Scores,      \* values of an objective
          PopSize,     \* population_size
          MaxGen       \* bound: generations; the first already starts from anything

ASSUME ParetoAssumption ==
  Minimized \subseteq Objectives /\ Scores \subseteq Nat /\ PopSize \in Nat \ {0} /\ MaxGen \in Nat

VARIABLE moo  \* generation, population, and what it was taken from

Vectors == [Objectives -> Scores]

-----------------------------------------------------------------------------
\* _dominates.
Worse(o, x, y) == IF o \in Minimized THEN x > y ELSE x < y
Dominates_Weakly(a, b) == \A o \in Objectives : ~Worse(o, a[o], b[o])
Dominates(a, b) ==
  /\ \A o \in Objectives : ~Worse(o, a[o], b[o])
  /\ \E o \in Objectives : Worse(o, b[o], a[o])

\* _fast_non_dominated_sort: the first front is what nothing dominates; each front takes away its own
\* share of the counts of those it dominates, and the next is where a count gets to zero.
FirstFront(P) ==
  [count |-> [i \in DOMAIN P |-> Cardinality({j \in DOMAIN P : Dominates(P[j], P[i])})],
   front |-> {i \in DOMAIN P : \A j \in DOMAIN P : ~Dominates(P[j], P[i])}]
NextFront(P, last) ==
  LET left == [i \in DOMAIN P |-> last.count[i] - Cardinality({j \in last.front : Dominates(P[j], P[i])})]
  IN [count |-> left, front |-> {i \in DOMAIN P : left[i] = 0 /\ last.count[i] > 0}]
SortedFronts(P) ==
  LET level[k \in Nat] == IF k = 0 THEN FirstFront(P) ELSE NextFront(P, level[k - 1]) IN level
Fronts(P) == LET sorted == SortedFronts(P) IN [k \in 1..Len(P) |-> sorted[k - 1].front]

\* _crowding_distance: the first and the last of a front in the order of any
\* objective are infinitely far from the others.
Extremes(P, F) ==
  IF Cardinality(F) <= 2 THEN F
  ELSE UNION {
    {CHOOSE i \in F : \A j \in F : P[i][o] < P[j][o] \/ (P[i][o] = P[j][o] /\ i <= j),
     CHOOSE i \in F : \A j \in F : P[i][o] > P[j][o] \/ (P[i][o] = P[j][o] /\ i >= j)}
    : o \in Objectives}

\* The indices kept: whole fronts in their order, of the last one its extremes first.
Kept(P) ==
  LET fronts == Fronts(P)
      Upto(k) == UNION {fronts[i] : i \in 1..k}
      n == CHOOSE k \in 1..Len(P) :
             /\ Cardinality(Upto(k)) >= PopSize
             /\ Cardinality(Upto(k - 1)) < PopSize
      ends == Extremes(P, fronts[n])
  IN {S \in SUBSET Upto(n) :
        /\ Cardinality(S) = PopSize
        /\ Upto(n - 1) \subseteq S
        /\ ends \subseteq S \/ S \ Upto(n - 1) \subseteq ends}

-----------------------------------------------------------------------------
ParetoIdle == moo = [gen |-> 0, pop |-> <<>>, from |-> <<>>]

\* The k-th of a set of indices.
Place(S, k) == CHOOSE i \in S : Cardinality({j \in S : j <= i}) = k

\* The candidates, filled up with random ones.
ParetoInit == \E P \in [1..PopSize -> Vectors] : moo = [gen |-> 0, pop |-> P, from |-> P]

\* _crossover and _mutate: any child may come out of them.
Generation ==
  /\ moo.gen < MaxGen
  /\ \E children \in [1..PopSize -> Vectors] :
       LET all == moo.pop \o children
       IN \E S \in Kept(all) :
            moo' = [gen |-> moo.gen + 1, from |-> all,
                    pop |-> [i \in 1..PopSize |-> all[Place(S, i)]]]

ParetoNext == Generation

ParetoSpec == ParetoInit /\ [][ParetoNext]_moo

-----------------------------------------------------------------------------
(* Properties.                                                              *)

Better(a, b) ==
  /\ a # b
  /\ \A o \in Objectives : IF o \in Minimized THEN a[o] <= b[o] ELSE a[o] >= b[o]

\* What a generation keeps and reports as its front is not dominated by anything it threw away.
Elitist ==
  moo.gen > 0 => \A i \in Fronts(moo.pop)[1] : \A j \in DOMAIN moo.from : ~Better(moo.from[j], moo.pop[i])

\* The sort by counting is the peeling of the non-dominated, duplicates
\* included: a front is what nothing outside the fronts before it is better
\* than; and the selection keeps the best.
FrontsPeel ==
  LET P == moo.from
      fronts == Fronts(P)
  IN /\ \A k \in DOMAIN fronts :
          LET rest == DOMAIN P \ UNION {fronts[i] : i \in 1..(k - 1)}
          IN fronts[k] = {i \in rest : \A j \in rest : ~Better(P[j], P[i])}
     /\ Elitist
=============================================================================
