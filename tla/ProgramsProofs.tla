--------------------------- MODULE ProgramsProofs ---------------------------
(***************************************************************************)
(* Theorems about the programs of which an installation runs one, each for *)
(* its own specification: the evolution pipeline, the continuous learner,  *)
(* distillation and the training run, the agents that write and run code,  *)
(* the unknowns of a work directory, the loop runner, the Pareto fronts,   *)
(* skill evolution and deliberation; and at the end for their composition. *)
(***************************************************************************)
EXTENDS Programs, FiniteSetTheorems, SequenceTheorems, WellFoundedInduction, TLAPS

-----------------------------------------------------------------------------
(* The stack holds for every bound, through cycles that raise as well.      *)

Pipelines == [stage : {"monitor", "evolve", "deploy", "rollback"}, deployed : Nat, below : Seq(Nat), logged : 0..2]

EvolutionInv == evo \in Pipelines /\ VersionStack

\* What stands at a place of a full stack.
LEMMA Nth ==
  ASSUME NEW m \in Nat, NEW b, b = [i \in 1..m |-> i], NEW i \in 1..m
  PROVE b[i] = i
OBVIOUS

\* A deployment puts the version it replaces on top.
LEMMA DeployStacks ==
  ASSUME NEW e \in Pipelines, Stacked(e)
  PROVE DeployNext(e) \in Pipelines /\ Stacked(DeployNext(e))
<1> DEFINE n == e.deployed
           below == IF n > 0 THEN Append(e.below, n) ELSE e.below
<1>1. n \in Nat /\ e.below \in Seq(Nat) /\ e.logged \in 0..2
  BY DEF Pipelines
<1>2. below \in Seq(Nat)
  BY <1>1
<1>3. below = [i \in 1..n |-> i]
  <2>1. CASE n = 0
    <3>1. below = e.below /\ e.below = [i \in 1..0 |-> i]
      BY <2>1 DEF Stacked
    <3> QED BY <2>1, <3>1
  <2>2. CASE n > 0
    <3>1. e.below = [i \in 1..(n - 1) |-> i] /\ n - 1 \in Nat
      BY <1>1, <2>2 DEF Stacked
    <3>2. Len(e.below) = n - 1
      BY <1>1, <3>1
    <3>3. below = [i \in 1..n |-> IF i = n THEN n ELSE e.below[i]]
      BY <1>1, <2>2, <3>2
    <3>4. \A i \in 1..n : (IF i = n THEN n ELSE e.below[i]) = i
      BY <1>1, <3>1
    <3> QED BY <3>3, <3>4
  <2> QED BY <1>1, <2>1, <2>2
<1>4. /\ DeployNext(e) = [e EXCEPT !.stage = "deploy", !.deployed = n + 1, !.below = below]
      /\ n + 1 \in Nat /\ n + 1 # 0 /\ n + 1 - 1 = n
  BY <1>1 DEF DeployNext
<1> HIDE DEF n, below
<1>5. DeployNext(e) \in Pipelines /\ DeployNext(e).deployed = n + 1 /\ DeployNext(e).below = below
  BY <1>2, <1>4 DEF Pipelines
<1>6. (IF DeployNext(e).deployed = 0 THEN 0 ELSE DeployNext(e).deployed - 1) = n
  BY <1>1, <1>4, <1>5
<1>7. DeployNext(e).below = [i \in 1..n |-> i]
  BY <1>3, <1>5
<1>8. Stacked(DeployNext(e))
  BY <1>6, <1>7 DEF Stacked
<1> QED BY <1>5, <1>8

\* A rollback takes the version on top, which is the one before.
LEMMA RollBackStacks ==
  ASSUME NEW e \in Pipelines, Stacked(e)
  PROVE RollBack(e) \in Pipelines /\ Stacked(RollBack(e))
<1> DEFINE n == e.deployed
<1>1. n \in Nat /\ e.below \in Seq(Nat) /\ e.logged \in 0..2
  BY DEF Pipelines
<1>2. CASE e.below = <<>>
  BY <1>2 DEF RollBack, Pipelines, Stacked
<1>3. CASE e.below # <<>>
  <2> DEFINE top == e.below[Len(e.below)]
             rest == SubSeq(e.below, 1, Len(e.below) - 1)
  <2>1. n # 0 /\ n - 1 \in Nat /\ e.below = [i \in 1..(n - 1) |-> i]
    <3>1. n # 0
      <4> SUFFICES ASSUME n = 0 PROVE FALSE
        OBVIOUS
      <4>1. e.below = [i \in 1..0 |-> i]
        BY DEF Stacked
      <4>2. Len(e.below) = 0
        BY <1>1, <4>1
      <4> QED BY <1>1, <1>3, <4>2
    <3> QED BY <1>1, <3>1 DEF Stacked
  <2>2. Len(e.below) = n - 1
    BY <1>1, <2>1
  <2>3. n - 1 # 0 /\ n - 2 \in Nat
    BY <1>1, <1>3, <2>1, <2>2
  <2>4. top = n - 1
    <3>1. n - 1 \in 1..(n - 1)
      BY <1>1, <2>3
    <3>2. e.below[n - 1] = n - 1
      BY <2>1, <3>1, Nth
    <3> QED BY <2>2, <3>2
  <2>5. rest \in Seq(Nat) /\ rest = [i \in 1..(n - 2) |-> i]
    <3>1. rest = [i \in 1..(n - 2) |-> e.below[i]]
      BY <1>1, <2>2, <2>3
    <3>2. \A i \in 1..(n - 2) : e.below[i] = i
      <4> SUFFICES ASSUME NEW i \in 1..(n - 2) PROVE e.below[i] = i
        OBVIOUS
      <4>1. i \in 1..(n - 1)
        BY <1>1, <2>3
      <4> QED BY <2>1, <4>1, Nth
    <3>3. rest \in Seq(Nat)
      BY <1>1, <2>2, <2>3, SMTT(30)
    <3> QED BY <3>1, <3>2, <3>3
  <2>6. RollBack(e) = [e EXCEPT !.stage = "rollback", !.deployed = top, !.below = rest]
    BY <1>3 DEF RollBack
  <2> HIDE DEF top, rest
  <2>7. /\ RollBack(e) \in Pipelines
        /\ RollBack(e).deployed = top /\ RollBack(e).below = rest
    BY <2>1, <2>4, <2>5, <2>6 DEF Pipelines
  <2>8. top - 1 = n - 2 /\ top # 0
    BY <1>1, <2>3, <2>4
  <2> QED BY <2>5, <2>7, <2>8 DEF Stacked
<1> QED BY <1>2, <1>3

\* The log does not touch the versions.
LEMMA LoggedStacks ==
  ASSUME NEW e \in Pipelines, Stacked(e)
  PROVE Logged(e) \in Pipelines /\ Stacked(Logged(e))
BY DEF Logged, Pipelines, Stacked

\* Every version below the deployed one is kept, once and in order, for any number of deployments
\* and rollbacks (evolution.py:188).
THEOREM VersionsStacked == EvolutionSpec => []VersionStack
<1>1. EvolutionInit => EvolutionInv
  BY DEF EvolutionInit, EvolutionInv, Pipelines, VersionStack, Stacked
<1>2. EvolutionInv /\ [EvolutionNext]_evo => EvolutionInv'
  <2> SUFFICES ASSUME EvolutionInv, [EvolutionNext]_evo PROVE EvolutionInv'
    OBVIOUS
  <2>1. evo \in Pipelines /\ Stacked(evo)
    BY DEF EvolutionInv, VersionStack, Stacked
  <2>2. ASSUME NEW e \in Pipelines, Stacked(e), evo' = e PROVE EvolutionInv'
    BY <2>2 DEF EvolutionInv, VersionStack, Stacked
  <2>3. ASSUME NEW s \in {"monitor", "evolve"}
        PROVE [evo EXCEPT !.stage = s] \in Pipelines /\ Stacked([evo EXCEPT !.stage = s])
    BY <2>1 DEF Pipelines, Stacked
  <2>4. CASE evo' = Logged([evo EXCEPT !.stage = "monitor"])
    BY <2>2, <2>3, <2>4, LoggedStacks
  <2>5. CASE evo' = [evo EXCEPT !.stage = "evolve"]
    BY <2>2, <2>3, <2>5
  <2>6. CASE evo' = Logged(DeployNext(evo))
    BY <2>1, <2>2, <2>6, DeployStacks, LoggedStacks
  <2>7. CASE evo' = Logged(RollBack(evo))
    BY <2>1, <2>2, <2>7, RollBackStacks, LoggedStacks
  <2>8. CASE evo' = evo
    BY <2>1, <2>2, <2>8
  <2> QED BY <2>4, <2>5, <2>6, <2>7, <2>8 DEF EvolutionNext, EvolutionCycle
<1>3. EvolutionInv => VersionStack
  BY DEF EvolutionInv
<1> QED BY <1>1, <1>2, <1>3, PTL DEF EvolutionSpec

-----------------------------------------------------------------------------
(* The continuous learner: the least of a set of numbers comes first.        *)

LEMMA LeastNat ==
  ASSUME NEW T, T \subseteq Nat, T # {}
  PROVE \E x \in T : \A y \in T : x <= y
<1>1. PICK x \in T : \A y \in T : <<y, x>> \notin OpToRel(<, Nat)
  BY NatLessThanWellFounded, WFMin
<1>2. ASSUME NEW y \in T PROVE x <= y
  <2>1. x \in Nat /\ y \in Nat
    OBVIOUS
  <2>2. <<y, x>> \notin OpToRel(<, Nat)
    BY <1>1
  <2>3. ~(y < x)
    BY <2>1, <2>2 DEF OpToRel
  <2> QED BY <2>1, <2>3
<1> QED BY <1>2

\* The least of a set of numbers is one of them.
LEMMA MinOfNats ==
  ASSUME NEW T, T \subseteq Nat, T # {}
  PROVE Min(T) \in T /\ \A y \in T : Min(T) <= y
<1>1. \E x \in T : \A y \in T : x <= y
  BY LeastNat
<1> QED BY <1>1, Zenon DEF Min

LEMMA MinOfTwo ==
  ASSUME NEW a \in Nat, NEW b \in Nat
  PROVE Min({a, b}) = IF a <= b THEN a ELSE b
<1>1. Min({a, b}) \in {a, b} /\ \A y \in {a, b} : Min({a, b}) <= y
  <2>1. {a, b} \subseteq Nat /\ {a, b} # {}
    OBVIOUS
  <2> QED BY <2>1, MinOfNats
<1> QED BY <1>1

-----------------------------------------------------------------------------
\* The store within its size: what the list that pays loses is the one trajectory too many.

Stores == [golden : Nat, failure : Nat, buffer : Nat]

\* A store within its size is so after a trajectory was added, and has no fewer golden ones.
LEMMA AddedFits ==
  ASSUME NEW s \in Stores, Total(s) <= MaxSize, NEW entry
  PROVE /\ Added(s, entry) \in Stores /\ Total(Added(s, entry)) <= MaxSize
        /\ Added(s, entry).golden >= s.golden
<1>1. CASE entry \notin Good
  BY <1>1 DEF Added, Stores
<1>2. CASE entry \in Good
  <2> DEFINE t == [s EXCEPT ![ListOf(entry)] = @ + 1]
  <2>1. /\ t \in Stores /\ Total(t) = Total(s) + 1 /\ t.golden >= s.golden
        /\ (t.buffer = 0 /\ t.failure = 0) => t.golden = s.golden + 1
    <3>1. CASE entry = "golden"
      BY <3>1 DEF ListOf, Stores, Total
    <3>2. CASE entry = "failure"
      BY <3>2 DEF ListOf, Stores, Total
    <3>3. CASE entry = "neutral"
      BY <3>3 DEF ListOf, Stores, Total
    <3> QED BY <1>2, <3>1, <3>2, <3>3 DEF Good
  <2>2. Added(s, entry) = Enforced(t)
    BY <1>2 DEF Added
  <2> HIDE DEF t
  <2>3. MaxSize \in Nat /\ Total(s) \in Nat /\ Total(t) \in Nat
    BY <2>1, StoreAssumption DEF Total, Stores
  <2>4. CASE Total(t) <= MaxSize
    BY <2>1, <2>2, <2>3, <2>4 DEF Enforced
  <2>5. CASE Total(t) > MaxSize
    <3>1. Total(t) - MaxSize = 1 /\ Total(t) > 0 /\ MaxSize = Total(t) - 1
      BY <2>1, <2>3, <2>5
    <3>2. Enforced(t) = [t EXCEPT ![Payer(t)] = Dropped(t[Payer(t)], Total(t) - MaxSize)]
      BY <3>1 DEF Enforced
    <3>3. ASSUME NEW list \in {"golden", "failure", "buffer"}, Payer(t) = list
          PROVE Enforced(t) = [t EXCEPT ![list] = Dropped(t[list], 1)]
      BY <3>1, <3>2, <3>3
    <3>4. CASE t.buffer > 0
      <4>1. Payer(t) = "buffer"
        BY <2>1, <3>4 DEF Payer, Stores
      <4>2. Enforced(t) = [t EXCEPT !.buffer = Dropped(t.buffer, 1)]
        BY <3>3, <4>1
      <4>3. t.buffer \in Nat /\ t.buffer > 0
        BY <2>1, <2>3, <3>1, <3>4 DEF Stores, Total
      <4>4. Dropped(t.buffer, 1) = t.buffer - 1 /\ t.buffer - 1 \in Nat
        BY <4>3 DEF Dropped
      <4>5. /\ Enforced(t) \in Stores /\ Enforced(t).buffer = t.buffer - 1
            /\ Enforced(t).golden = t.golden /\ Enforced(t).failure = t.failure
        BY <2>1, <4>2, <4>4 DEF Stores
      <4> QED BY <2>1, <2>2, <2>3, <3>1, <3>4, <4>5 DEF Stores, Total
    <3>5. CASE t.buffer = 0 /\ t.failure > 0
      <4>1. Payer(t) = "failure"
        BY <2>1, <3>5 DEF Payer, Stores
      <4>2. Enforced(t) = [t EXCEPT !.failure = Dropped(t.failure, 1)]
        BY <3>3, <4>1
      <4>3. t.failure \in Nat /\ t.failure > 0
        BY <2>1, <2>3, <3>1, <3>5 DEF Stores, Total
      <4>4. Dropped(t.failure, 1) = t.failure - 1 /\ t.failure - 1 \in Nat
        BY <4>3 DEF Dropped
      <4>5. /\ Enforced(t) \in Stores /\ Enforced(t).failure = t.failure - 1
            /\ Enforced(t).golden = t.golden /\ Enforced(t).buffer = t.buffer
        BY <2>1, <4>2, <4>4 DEF Stores
      <4> QED BY <2>1, <2>2, <2>3, <3>1, <3>5, <4>5 DEF Stores, Total
    <3>6. CASE t.buffer = 0 /\ t.failure = 0
      <4>1. Payer(t) = "golden"
        BY <2>1, <3>6 DEF Payer, Stores
      <4>2. Enforced(t) = [t EXCEPT !.golden = Dropped(t.golden, 1)]
        BY <3>3, <4>1
      <4>3. t.golden \in Nat /\ t.golden > 0
        BY <2>1, <2>3, <3>1, <3>6 DEF Stores, Total
      <4>4. Dropped(t.golden, 1) = t.golden - 1 /\ t.golden - 1 \in Nat
        BY <4>3 DEF Dropped
      <4>5. /\ Enforced(t) \in Stores /\ Enforced(t).golden = t.golden - 1
            /\ Enforced(t).failure = t.failure /\ Enforced(t).buffer = t.buffer
        BY <2>1, <4>2, <4>4 DEF Stores
      <4> QED BY <2>1, <2>2, <2>3, <3>1, <3>6, <4>5 DEF Stores, Total
    <3> QED BY <2>1, <3>4, <3>5, <3>6 DEF Stores
  <2> QED BY <2>3, <2>4, <2>5
<1> QED BY <1>1, <1>2

-----------------------------------------------------------------------------
\* A file for which the store has nothing of this round: it is not in the archive, and its first
\* trajectory is still to be added or it was not read.
Waits(f) == disk[f] # "archived" /\ (f \in got => \E k \in DOMAIN pending : pending[k] = <<f, 1>>)

LearnerTyped ==
  /\ content \in [Files -> Contents]
  /\ disk \in [Files -> {"absent", "partial", "complete", "archived"}]
  /\ store \in Stores
  /\ pc \in {"stopped", "top", "collect", "sft", "sleep", "backoff"}
  /\ toRead \subseteq Files /\ got \subseteq Files /\ learned \subseteq Files
  /\ pending \in Seq(Files \X (Nat \ {0}))
  /\ copies \in [Files -> 0..(MaxMishaps + 1)] /\ mishaps \in 0..MaxMishaps

\* What a cycle holds: files it read whole, and their trajectories, each once.
Holds ==
  /\ pc # "collect" => toRead = {} /\ pending = <<>>
  /\ pc \notin {"collect", "sft"} => got = {}
  /\ toRead \cap got = {}
  /\ \A f \in got : disk[f] = "complete"
  /\ \A k \in DOMAIN pending : pending[k][1] \in got
  /\ \A k, l \in DOMAIN pending : pending[k] = pending[l] => k = l

\* What was added and archived so far.
Learning ==
  /\ pc = "sft" => got \subseteq learned
  /\ \A f \in Files : disk[f] = "archived" => f \in learned
  /\ \A f \in Files : copies[f] <= mishaps + 1
  /\ \A f \in Files : Waits(f) => copies[f] <= mishaps \/ mishaps = MaxMishaps

LearnerInv == LearnerTyped /\ Holds /\ Learning /\ Total(store) <= MaxSize

LEMMA ContentLength ==
  ASSUME NEW f \in Files, content \in [Files -> Contents]
  PROVE \E n \in Nat : DOMAIN content[f] = 1..n
<1>1. content[f] \in Seq(Good \cup {"short", "poison"}) \/ content[f] = Undecodable
  BY LearnerAssumption
<1>2. CASE content[f] \in Seq(Good \cup {"short", "poison"})
  BY <1>2
<1>3. CASE content[f] = Undecodable
  <2>1. DOMAIN content[f] = 1..1
    BY <1>3 DEF Undecodable
  <2> QED BY <2>1
<1> QED BY <1>1, <1>2, <1>3

\* Producers and the process: nothing of a round is touched, or all of it is forgotten.
LEMMA OutsideSteps ==
  ASSUME LearnerInv,
         (\E f \in Files : StartWriting(f) \/ FinishWriting(f)) \/ Start \/ Stop \/ Crash \/ Wake \/ BeginCycle
  PROVE LearnerInv'
<1> USE LearnerAssumption DEF LearnerInv, LearnerTyped, Holds, Learning, Waits
<1>1. ASSUME NEW f \in Files, StartWriting(f) \/ FinishWriting(f) PROVE LearnerInv'
  <2>1. /\ disk[f] \in {"absent", "partial"} /\ f \notin got
        /\ \E d \in {"partial", "complete"} : disk' = [disk EXCEPT ![f] = d]
        /\ UNCHANGED <<content, store, pc, running, toRead, got, pending, copies, mishaps, learned>>
    BY <1>1 DEF StartWriting, FinishWriting
  <2>2. PICK d \in {"partial", "complete"} : disk' = [disk EXCEPT ![f] = d]
    BY <2>1
  <2>3. disk' \in [Files -> {"absent", "partial", "complete", "archived"}]
    BY <2>2
  <2>4. \A g \in Files : g # f => disk'[g] = disk[g]
    BY <2>2
  <2>5. disk'[f] # "archived" /\ disk[f] # "archived"
    BY <2>1, <2>2
  <2>6. LearnerTyped'
    BY <2>1, <2>3
  <2>7. Holds'
    BY <2>1, <2>4
  <2>8. \A g \in Files : Waits(g)' <=> Waits(g)
    BY <2>1, <2>4, <2>5
  <2>9. \A g \in Files : disk'[g] = "archived" => g \in learned'
    BY <2>1, <2>4, <2>5
  <2> HIDE DEF Waits
  <2>10. Learning'
    BY <2>1, <2>8, <2>9
  <2>11. (Total(store) <= MaxSize)'
    BY <2>1
  <2> QED BY <2>6, <2>7, <2>10, <2>11
<1>2. CASE Start
  BY <1>2 DEF Start
<1>3. CASE Stop
  BY <1>3 DEF Stop
<1>4. CASE Crash
  BY <1>4, StoreAssumption DEF Crash, EmptyStore, Stores, Total
<1>5. CASE Wake
  BY <1>5 DEF Wake
<1>6. CASE BeginCycle
  BY <1>6 DEF BeginCycle
<1> QED BY <1>1, <1>2, <1>3, <1>4, <1>5, <1>6

LEMMA FailedSteps ==
  ASSUME LearnerInv, Failed, learned \subseteq learned', learned' \subseteq Files,
         UNCHANGED <<content, disk, store, copies>>
  PROVE LearnerInv'
<1>1. mishaps' = IF mishaps + 1 <= MaxMishaps THEN mishaps + 1 ELSE MaxMishaps
  <2>1. mishaps + 1 \in Nat /\ MaxMishaps \in Nat
    BY LearnerAssumption DEF LearnerInv, LearnerTyped
  <2>2. mishaps' = Min({mishaps + 1, MaxMishaps})
    BY DEF Failed
  <2> QED BY <2>1, <2>2, MinOfTwo
<1>2. mishaps' \in 0..MaxMishaps /\ mishaps <= mishaps' /\ (mishaps' # MaxMishaps => mishaps' = mishaps + 1)
  BY <1>1, LearnerAssumption DEF LearnerInv, LearnerTyped
<1>3. LearnerTyped' /\ Holds'
  BY <1>2 DEF Failed, Forget, LearnerInv, LearnerTyped, Holds
<1>4. Learning'
  <2>1. pc' = "backoff" /\ \A f \in Files : disk'[f] = "archived" => f \in learned'
    BY DEF Failed, LearnerInv, Learning
  <2>2. ASSUME NEW f \in Files PROVE copies'[f] <= mishaps' + 1 /\ (copies'[f] <= mishaps' \/ mishaps' = MaxMishaps)
    <3>1. copies[f] \in Nat /\ copies[f] <= mishaps + 1 /\ mishaps \in Nat
      BY LearnerAssumption DEF LearnerInv, LearnerTyped, Learning
    <3>2. copies'[f] = copies[f]
      OBVIOUS
    <3> QED BY <1>2, <3>1, <3>2, LearnerAssumption
  <2> QED BY <2>1, <2>2 DEF Learning
<1>5. (Total(store) <= MaxSize)'
  BY DEF LearnerInv
<1> QED BY <1>3, <1>4, <1>5 DEF LearnerInv

LEMMA TakesSteps ==
  ASSUME LearnerInv, pc = "collect", NEW f \in toRead, disk[f] = "complete", Takes(f),
         UNCHANGED <<content, disk, store, running, copies, mishaps, learned>>
  PROVE LearnerInv'
<1>1. f \in Files /\ f \notin got /\ pending \in Seq(Files \X (Nat \ {0}))
  BY DEF LearnerInv, LearnerTyped, Holds
<1>2. PICK n \in Nat : DOMAIN content[f] = 1..n
  BY <1>1, ContentLength DEF LearnerInv, LearnerTyped
<1> DEFINE more == [i \in DOMAIN content[f] |-> <<f, i>>]
<1>3. more \in Seq(Files \X (Nat \ {0})) /\ Len(more) = n /\ \A i \in 1..n : more[i] = <<f, i>>
  BY <1>1, <1>2
<1>4. /\ pending' = pending \o more
      /\ toRead' = toRead \ {f} /\ got' = got \cup {f} /\ pc' = pc
  BY DEF Takes
<1> HIDE DEF more
<1>5. PICK m \in Nat : m = Len(pending)
  BY <1>1
<1>6. /\ pending' \in Seq(Files \X (Nat \ {0})) /\ DOMAIN pending = 1..m /\ DOMAIN pending' = 1..(m + n)
      /\ \A k \in 1..m : pending'[k] = pending[k]
      /\ \A k \in 1..(m + n) : k > m => pending'[k] = <<f, k - m>>
  <2>1. /\ pending' \in Seq(Files \X (Nat \ {0})) /\ Len(pending') = m + n
        /\ \A k \in 1..(m + n) : pending'[k] = IF k <= m THEN pending[k] ELSE more[k - m]
    BY <1>1, <1>3, <1>4, <1>5, ConcatProperties
  <2>2. ASSUME NEW k \in 1..m PROVE pending'[k] = pending[k]
    BY <2>1, SMTT(30)
  <2>3. ASSUME NEW k \in 1..(m + n), k > m PROVE pending'[k] = <<f, k - m>>
    <3>1. k - m \in 1..n
      BY <2>3
    <3> QED BY <1>3, <2>1, <2>3, <3>1
  <2>4. DOMAIN pending = 1..m /\ DOMAIN pending' = 1..(m + n)
    BY <1>1, <1>5, <2>1, LenProperties
  <2> QED BY <2>1, <2>2, <2>3, <2>4
<1>7. \A k \in 1..m : pending[k][1] \in got /\ pending[k][1] # f
  BY <1>1, <1>6 DEF LearnerInv, Holds
<1>8. LearnerTyped'
  BY <1>1, <1>4, <1>6 DEF LearnerInv, LearnerTyped
<1>9. Holds'
  <2>1. pc' = "collect" /\ toRead' \cap got' = {} /\ \A g \in got' : disk'[g] = "complete"
    BY <1>4 DEF LearnerInv, Holds
  <2>2. ASSUME NEW k \in 1..(m + n) PROVE pending'[k][1] \in got'
    BY <1>4, <1>6, <1>7
  <2>3. ASSUME NEW k \in 1..(m + n), NEW l \in 1..(m + n), pending'[k] = pending'[l] PROVE k = l
    <3>1. CASE k <= m /\ l <= m
      <4>1. k \in 1..m /\ l \in 1..m
        BY <3>1
      <4> QED BY <1>6, <2>3, <4>1 DEF LearnerInv, Holds
    <3>2. CASE k > m /\ l > m
      <4>1. <<f, k - m>> = <<f, l - m>>
        BY <1>6, <2>3, <3>2
      <4> QED BY <4>1
    <3>3. CASE k <= m /\ l > m
      BY <1>6, <1>7, <2>3, <3>3
    <3>4. CASE k > m /\ l <= m
      BY <1>6, <1>7, <2>3, <3>4
    <3> QED BY <3>1, <3>2, <3>3, <3>4
  <2> QED BY <1>6, <2>1, <2>2, <2>3 DEF Holds
<1>10. ASSUME NEW g \in Files, Waits(g)' PROVE Waits(g)
  <2>1. disk[g] # "archived"
    BY <1>10 DEF Waits
  <2>2. CASE g = f
    BY <1>1, <2>1, <2>2 DEF Waits
  <2>3. CASE g # f /\ g \in got
    <3>1. PICK k \in 1..(m + n) : pending'[k] = <<g, 1>>
      BY <1>4, <1>6, <1>10, <2>3 DEF Waits
    <3>2. k \in 1..m
      BY <1>6, <2>3, <3>1
    <3> QED BY <1>6, <2>1, <3>1, <3>2 DEF Waits
  <2>4. CASE g \notin got
    BY <2>1, <2>4 DEF Waits
  <2> QED BY <2>2, <2>3, <2>4
<1>11. Learning'
  BY <1>4, <1>10 DEF LearnerInv, Learning
<1>12. (Total(store) <= MaxSize)'
  BY DEF LearnerInv
<1> QED BY <1>8, <1>9, <1>11, <1>12 DEF LearnerInv

LEMMA AddTrajectorySteps ==
  ASSUME LearnerInv, AddTrajectory
  PROVE LearnerInv' /\ store'.golden >= store.golden
<1>1. pending \in Seq(Files \X (Nat \ {0})) /\ pending # <<>> /\ pc = "collect" /\ store \in Stores /\ Total(store) <= MaxSize
  BY DEF LearnerInv, LearnerTyped, AddTrajectory
<1>2. PICK m \in Nat : m = Len(pending) /\ m > 0 /\ DOMAIN pending = 1..m
  BY <1>1
<1>3. PICK f \in Files, i \in Nat \ {0} : pending[1] = <<f, i>>
  BY <1>1, <1>2
<1>4. \/ Failed /\ UNCHANGED <<content, disk, store, copies, learned>>
      \/ /\ store' = Added(store, content[f][i])
         /\ copies' = [copies EXCEPT ![f] = IF i = 1 THEN Min({@ + 1, MaxMishaps + 1}) ELSE @]
         /\ pending' = Tail(pending)
         /\ UNCHANGED <<content, disk, pc, running, toRead, got, mishaps, learned>>
  BY <1>3 DEF AddTrajectory
<1>5. CASE Failed /\ UNCHANGED <<content, disk, store, copies, learned>>
  <2>1. store'.golden >= store.golden
    BY <1>1, <1>5 DEF Stores
  <2>2. learned \subseteq learned' /\ learned' \subseteq Files
    BY <1>5 DEF LearnerInv, LearnerTyped
  <2> QED BY <1>5, <2>1, <2>2, FailedSteps
<1>6. CASE /\ store' = Added(store, content[f][i])
           /\ copies' = [copies EXCEPT ![f] = IF i = 1 THEN Min({@ + 1, MaxMishaps + 1}) ELSE @]
           /\ pending' = Tail(pending)
           /\ UNCHANGED <<content, disk, pc, running, toRead, got, mishaps, learned>>
  <2>1. store' \in Stores /\ Total(store') <= MaxSize /\ store'.golden >= store.golden
    BY <1>1, <1>6, AddedFits
  <2>2. f \in got /\ copies[f] \in 0..(MaxMishaps + 1) /\ copies \in [Files -> 0..(MaxMishaps + 1)] /\ mishaps \in 0..MaxMishaps
    BY <1>2, <1>3 DEF LearnerInv, LearnerTyped, Holds
  <2>3. /\ pending' \in Seq(Files \X (Nat \ {0})) /\ DOMAIN pending' = 1..(m - 1)
        /\ \A k \in 1..(m - 1) : pending'[k] = pending[k + 1] /\ k + 1 \in 1..m
    BY <1>1, <1>2, <1>6
  <2>4. PICK c \in 0..(MaxMishaps + 1) : /\ copies' = [copies EXCEPT ![f] = c]
                                         /\ IF i = 1 THEN c <= copies[f] + 1 ELSE c = copies[f]
    <3>1. CASE i = 1
      <4>1. copies' = [copies EXCEPT ![f] = Min({copies[f] + 1, MaxMishaps + 1})]
        BY <1>6, <3>1
      <4>2. copies[f] + 1 \in Nat /\ MaxMishaps + 1 \in Nat
        BY <2>2, LearnerAssumption
      <4>3. Min({copies[f] + 1, MaxMishaps + 1}) = IF copies[f] + 1 <= MaxMishaps + 1 THEN copies[f] + 1 ELSE MaxMishaps + 1
        BY <4>2, MinOfTwo
      <4>4. Min({copies[f] + 1, MaxMishaps + 1}) \in 0..(MaxMishaps + 1) /\ Min({copies[f] + 1, MaxMishaps + 1}) <= copies[f] + 1
        BY <4>2, <4>3
      <4> QED BY <3>1, <4>1, <4>4
    <3>2. CASE i # 1
      BY <1>6, <2>2, <3>2
    <3> QED BY <3>1, <3>2
  <2>5. copies' \in [Files -> 0..(MaxMishaps + 1)] /\ copies'[f] = c /\ \A g \in Files : g # f => copies'[g] = copies[g]
    BY <2>2, <2>4
  <2>6. LearnerTyped'
    BY <1>6, <2>1, <2>3, <2>5 DEF LearnerInv, LearnerTyped
  <2>7. Holds'
    <3>1. pc' = "collect" /\ toRead' \cap got' = {} /\ \A g \in got' : disk'[g] = "complete"
      BY <1>1, <1>6 DEF LearnerInv, Holds
    <3>2. ASSUME NEW k \in 1..(m - 1) PROVE pending'[k][1] \in got'
      BY <1>2, <1>6, <2>3 DEF LearnerInv, Holds
    <3>3. ASSUME NEW k \in 1..(m - 1), NEW l \in 1..(m - 1), pending'[k] = pending'[l] PROVE k = l
      <4>1. k + 1 \in 1..m /\ l + 1 \in 1..m /\ pending[k + 1] = pending[l + 1]
        BY <2>3, <3>3
      <4>2. k + 1 = l + 1
        BY <1>2, <4>1 DEF LearnerInv, Holds
      <4> QED BY <4>2
    <3> QED BY <2>3, <3>1, <3>2, <3>3 DEF Holds
  <2>8. ASSUME NEW g \in Files, Waits(g)' PROVE Waits(g) /\ ~(g = f /\ i = 1)
    <3>1. disk[g] # "archived"
      BY <1>6, <2>8 DEF Waits
    <3>2. CASE g \notin got
      BY <2>2, <3>1, <3>2 DEF Waits
    <3>3. CASE g \in got
      <4>1. PICK k \in 1..(m - 1) : pending'[k] = <<g, 1>>
        BY <1>6, <2>3, <2>8, <3>3 DEF Waits
      <4>2. k + 1 \in 1..m /\ pending[k + 1] = <<g, 1>> /\ k + 1 # 1
        <5>1. k + 1 \in 1..m /\ k + 1 # 1
          BY <1>2
        <5>2. pending'[k] = pending[k + 1]
          BY <2>3
        <5> QED BY <4>1, <5>1, <5>2
      <4>3. 1 \in 1..m
        BY <1>2
      <4>4. pending[1] # pending[k + 1]
        BY <1>2, <4>2, <4>3 DEF LearnerInv, Holds
      <4> QED BY <1>2, <1>3, <3>1, <4>2, <4>4 DEF Waits
    <3> QED BY <3>2, <3>3
  <2>9. (i = 1) => Waits(f)
    <3>1. disk[f] # "archived" /\ 1 \in DOMAIN pending
      BY <1>2, <2>2 DEF LearnerInv, Holds
    <3> QED BY <1>3, <3>1 DEF Waits
  <2>10. ASSUME NEW g \in Files
         PROVE copies'[g] <= mishaps + 1 /\ (Waits(g)' => copies'[g] <= mishaps \/ mishaps = MaxMishaps)
    <3>1. /\ copies[g] <= mishaps + 1 /\ (Waits(g) => copies[g] <= mishaps \/ mishaps = MaxMishaps)
      BY DEF LearnerInv, Learning
    <3>2. copies[g] \in Nat /\ mishaps \in Nat /\ MaxMishaps \in Nat
      BY <2>2, LearnerAssumption
    <3>3. CASE g # f \/ i # 1
      <4>1. copies'[g] = copies[g]
        BY <2>4, <2>5, <3>3
      <4> QED BY <2>8, <3>1, <4>1
    <3>4. CASE g = f /\ i = 1
      <4>1. ~Waits(g)'
        BY <2>8, <3>4
      <4>2. copies[g] <= mishaps \/ mishaps = MaxMishaps
        BY <2>9, <3>1, <3>4
      <4>3. copies'[g] <= copies[g] + 1 /\ copies'[g] \in 0..(MaxMishaps + 1)
        BY <2>4, <2>5, <3>4
      <4> QED BY <3>2, <4>1, <4>2, <4>3
    <3> QED BY <3>3, <3>4
  <2>11. Learning'
    <3>1. mishaps' = mishaps /\ disk' = disk /\ learned' = learned /\ pc' = pc /\ got' = got
      BY <1>6
    <3>2. \A g \in Files : copies'[g] <= mishaps' + 1
      BY <2>10, <3>1
    <3>3. \A g \in Files : Waits(g)' => copies'[g] <= mishaps' \/ mishaps' = MaxMishaps
      BY <2>10, <3>1
    <3> QED BY <3>1, <3>2, <3>3 DEF LearnerInv, Learning
  <2> QED BY <2>1, <2>6, <2>7, <2>11 DEF LearnerInv
<1> QED BY <1>4, <1>5, <1>6

LEMMA SkipsSteps ==
  ASSUME LearnerInv, pc = "collect", NEW f \in toRead, Skips(f), mishaps' \in {mishaps, mishaps + 1},
         mishaps' \in 0..MaxMishaps, UNCHANGED <<content, disk, store, running, copies, learned>>
  PROVE LearnerInv'
<1>1. \A g \in Files : copies[g] \in Nat /\ Waits(g)' = Waits(g)
  BY DEF LearnerInv, LearnerTyped, Skips, Waits
<1>2. mishaps \in Nat /\ MaxMishaps \in Nat
  BY LearnerAssumption DEF LearnerInv, LearnerTyped
<1>3. LearnerTyped' /\ Holds'
  BY DEF LearnerInv, LearnerTyped, Holds, Skips
<1>4. Learning'
  <2>1. ASSUME NEW g \in Files PROVE copies[g] <= mishaps' + 1 /\ (Waits(g) => copies[g] <= mishaps' \/ mishaps' = MaxMishaps)
    BY <1>1, <1>2 DEF LearnerInv, Learning
  <2>2. pc' = pc /\ got' = got
    BY DEF Skips
  <2> QED BY <1>1, <2>1, <2>2 DEF LearnerInv, Learning
<1>5. (Total(store) <= MaxSize)'
  BY DEF LearnerInv
<1> QED BY <1>3, <1>4, <1>5 DEF LearnerInv

LEMMA ReadFileSteps ==
  ASSUME LearnerInv, ReadFile
  PROVE LearnerInv'
<1>1. pc = "collect" /\ toRead # {} /\ toRead \subseteq Files /\ mishaps \in 0..MaxMishaps /\ MaxMishaps \in Nat
  BY LearnerAssumption DEF LearnerInv, LearnerTyped, ReadFile
<1>2. PICK f \in toRead : f = Min(toRead)
  <2>1. toRead \subseteq Nat
    BY <1>1, LearnerAssumption DEF Files
  <2> QED BY <1>1, <2>1, MinOfNats
<1>3. /\ \/ Skips(f) /\ UNCHANGED mishaps
         \/ disk[f] = "complete" /\ Takes(f) /\ UNCHANGED mishaps
         \/ Failed
         \/ mishaps < MaxMishaps /\ Skips(f) /\ mishaps' = mishaps + 1
      /\ UNCHANGED <<content, disk, store, running, copies, learned>>
  BY <1>2 DEF ReadFile
<1>4. CASE Skips(f) /\ UNCHANGED mishaps
  BY <1>1, <1>3, <1>4, SkipsSteps
<1>5. CASE disk[f] = "complete" /\ Takes(f) /\ UNCHANGED mishaps
  BY <1>1, <1>3, <1>5, TakesSteps
<1>6. CASE Failed
  BY <1>3, <1>6, FailedSteps DEF LearnerInv, LearnerTyped
<1>7. CASE mishaps < MaxMishaps /\ Skips(f) /\ mishaps' = mishaps + 1
  <2>1. mishaps' \in 0..MaxMishaps
    BY <1>1, <1>7
  <2> QED BY <1>1, <1>3, <1>7, <2>1, SkipsSteps
<1> QED BY <1>3, <1>4, <1>5, <1>6, <1>7

\* The end of a cycle that has added everything it read.
LEMMA ArchiveSteps ==
  ASSUME LearnerInv, pc \in {"collect", "sft"}, pending = <<>>, Archive,
         learned' \subseteq Files, learned \subseteq learned', got \subseteq learned',
         UNCHANGED <<content, store, running, copies>>
  PROVE LearnerInv'
<1>1. CASE /\ \E moved \in SUBSET got : Archived(moved) /\ (moved = got \/ mishaps' = mishaps + 1)
           /\ pc' = "sleep" /\ Forget /\ mishaps' \in {mishaps, mishaps + 1} /\ mishaps' \in 0..MaxMishaps
  <2>1. PICK moved \in SUBSET got : Archived(moved) /\ (moved = got \/ mishaps' = mishaps + 1)
    BY <1>1
  <2>2. /\ disk' \in [Files -> {"absent", "partial", "complete", "archived"}]
        /\ \A g \in Files : disk'[g] = IF g \in moved THEN "archived" ELSE disk[g]
    BY <2>1 DEF Archived, LearnerInv, LearnerTyped
  <2>3. LearnerTyped' /\ Holds'
    BY <1>1, <2>2 DEF Forget, LearnerInv, LearnerTyped, Holds
  <2>4. mishaps \in Nat /\ MaxMishaps \in Nat
    BY LearnerAssumption DEF LearnerInv, LearnerTyped
  <2>5. ASSUME NEW g \in Files
        PROVE /\ disk'[g] = "archived" => g \in learned'
              /\ copies[g] <= mishaps' + 1
              /\ Waits(g)' => copies[g] <= mishaps' \/ mishaps' = MaxMishaps
    <3>1. copies[g] \in Nat /\ copies[g] <= mishaps + 1 /\ (Waits(g) => copies[g] <= mishaps \/ mishaps = MaxMishaps)
      BY DEF LearnerInv, LearnerTyped, Learning
    <3>2. disk'[g] = "archived" => g \in learned'
      BY <2>1, <2>2 DEF LearnerInv, Learning
    <3>3. copies[g] <= mishaps' + 1
      BY <1>1, <2>4, <3>1
    <3>4. CASE mishaps' = mishaps + 1
      BY <2>4, <3>1, <3>2, <3>3, <3>4
    <3>5. CASE mishaps' = mishaps /\ moved = got
      <4>1. Waits(g)' => Waits(g)
        <5>1. Waits(g)' => g \notin got /\ disk[g] # "archived"
          BY <2>2, <3>5 DEF Waits
        <5> QED BY <5>1 DEF Waits
      <4> QED BY <3>1, <3>2, <3>5, <4>1
    <3> QED BY <1>1, <2>1, <2>4, <3>4, <3>5
  <2>6. Learning'
    BY <1>1, <2>5 DEF Learning
  <2>7. (Total(store) <= MaxSize)'
    BY DEF LearnerInv
  <2> QED BY <2>3, <2>6, <2>7 DEF LearnerInv
<1>2. CASE Failed /\ UNCHANGED disk
  BY <1>2, FailedSteps
<1>3. mishaps \in 0..MaxMishaps /\ MaxMishaps \in Nat
  BY LearnerAssumption DEF LearnerInv, LearnerTyped
<1>4. got \in SUBSET got
  OBVIOUS
<1>5. CASE Archived(got) /\ pc' = "sleep" /\ Forget /\ UNCHANGED mishaps
  BY <1>1, <1>3, <1>4, <1>5
<1>6. CASE /\ mishaps < MaxMishaps
           /\ \E moved \in SUBSET got \ {got} : Archived(moved)
           /\ pc' = "sleep" /\ Forget /\ mishaps' = mishaps + 1
  <2>1. mishaps' \in 0..MaxMishaps
    BY <1>3, <1>6
  <2> QED BY <1>1, <1>6, <2>1
<1> QED BY <1>2, <1>5, <1>6 DEF Archive

LEMMA LearnSteps ==
  ASSUME LearnerInv, Learn \/ SftEnds
  PROVE LearnerInv'
<1>1. CASE Learn
  <2>1. pc = "collect" /\ pending = <<>> /\ learned' = learned \cup got /\ UNCHANGED <<content, store, running, copies>>
    BY <1>1 DEF Learn
  <2>2. learned' \subseteq Files /\ learned \subseteq learned' /\ got \subseteq learned'
    BY <2>1 DEF LearnerInv, LearnerTyped
  <2>3. CASE Archive
    BY <2>1, <2>2, <2>3, ArchiveSteps
  <2>4. CASE pc' = "sft" /\ UNCHANGED <<disk, toRead, got, pending, mishaps>>
    <3>1. LearnerTyped' /\ Holds'
      BY <1>1, <2>1, <2>2, <2>4 DEF Learn, LearnerInv, LearnerTyped, Holds
    <3>2. \A g \in Files : Waits(g)' = Waits(g)
      BY <2>4 DEF Waits
    <3>3. Learning'
      BY <2>1, <2>2, <2>4, <3>2 DEF LearnerInv, Learning
    <3>4. (Total(store) <= MaxSize)'
      BY <2>1 DEF LearnerInv
    <3> QED BY <3>1, <3>3, <3>4 DEF LearnerInv
  <2> QED BY <1>1, <2>3, <2>4 DEF Learn
<1>2. CASE SftEnds
  <2>1. pc = "sft" /\ pending = <<>> /\ UNCHANGED <<content, store, running, copies, learned>>
    BY <1>2 DEF SftEnds, LearnerInv, Holds
  <2>2. learned' \subseteq Files /\ learned \subseteq learned' /\ got \subseteq learned'
    BY <2>1 DEF LearnerInv, LearnerTyped, Learning
  <2>3. CASE Archive
    BY <2>1, <2>2, <2>3, ArchiveSteps
  <2>4. CASE Failed /\ UNCHANGED disk
    BY <2>1, <2>2, <2>4, FailedSteps
  <2> QED BY <1>2, <2>3, <2>4 DEF SftEnds
<1> QED BY <1>1, <1>2

LEMMA LearnerStep == LearnerInv /\ [Next]_vars => LearnerInv'
<1> SUFFICES ASSUME LearnerInv, [Next]_vars PROVE LearnerInv'
  OBVIOUS
<1>1. CASE UNCHANGED vars
  BY <1>1 DEF vars, LearnerInv, LearnerTyped, Holds, Learning, Waits
<1> QED BY <1>1, OutsideSteps, ReadFileSteps, AddTrajectorySteps, LearnSteps DEF Next, Cycle

LEMMA LearnerStart == Init => LearnerInv
BY LearnerAssumption, StoreAssumption
   DEF Init, LearnerInv, LearnerTyped, Holds, Learning, Waits, EmptyStore, Stores, Total

\* Through crashes, failed cycles and half-written files, a file is archived only when all of it was
\* learned, and learned more often than once only after a mishap (continuous_learner.py:98); the store
\* stays within its size (experience_replay.py:147).
THEOREM FilesLearnedOnce == Spec => []LearnedOnce
<1>1. LearnerInv => LearnedOnce
  BY LearnerAssumption DEF LearnerInv, LearnerTyped, Learning, LearnedOnce
<1> QED BY <1>1, LearnerStart, LearnerStep, PTL DEF Spec

\* While the learner runs, no step takes a golden trajectory away.
LEMMA GoldenSteps == LearnerInv /\ [Next]_vars => [pc # "stopped" /\ pc' # "stopped" => store'.golden >= store.golden]_vars
<1> SUFFICES ASSUME LearnerInv, Next, pc' # "stopped" PROVE store'.golden >= store.golden
  BY DEF vars
<1>1. CASE AddTrajectory
  BY <1>1, AddTrajectorySteps
<1>2. CASE ~AddTrajectory
  <2>1. store' = store
    BY <1>2 DEF Next, Cycle, StartWriting, FinishWriting, Start, Stop, Crash, BeginCycle, ReadFile, Learn, SftEnds, Wake
  <2>2. store.golden \in Nat
    BY DEF LearnerInv, LearnerTyped, Stores
  <2> QED BY <2>1, <2>2
<1> QED BY <1>1, <1>2

\* No step of a running learner takes a golden trajectory out of the store, full as it may be
\* (experience_replay.py:153).
THEOREM GoldenStays == Spec => GoldenKept
BY GoldenSteps, LearnerStart, LearnerStep, PTL DEF Spec, GoldenKept

-----------------------------------------------------------------------------
(* Distillation and the training run: numbered samples and numbered epochs.  *)

Schedulers == [buffer : Nat, total : Nat, cycles : Seq(Nat), lora : Nat, full : Nat]

\* A scheduler whose samples are all accounted for.
Sound(d) == d \in Schedulers /\ IsFiniteSet(Distilled(d)) /\ Balanced(d)

DistillInv ==
  /\ distill \in [pc : {"off", "loaded", "added", "cycled", "saving"}, mem : Schedulers,
                  file : {"absent", "torn", "saved"}, saved : Schedulers, due : BOOLEAN]
  /\ Sound(distill.mem) /\ Sound(distill.saved)

SchedulerOf(e, buffer, total, cycles) ==
  e \in Schedulers /\ e.buffer = buffer /\ e.total = total /\ e.cycles = cycles

LEMMA SchedulerUpdates ==
  ASSUME NEW d \in Schedulers, NEW c \in Seq(Nat), NEW a \in Nat, NEW b \in Nat
  PROVE /\ SchedulerOf([d EXCEPT !.buffer = a, !.total = b], a, b, d.cycles)
        /\ SchedulerOf([d EXCEPT !.lora = a, !.full = b], d.buffer, d.total, d.cycles)
BY DEF Schedulers, SchedulerOf

LEMMA SchedulerCloses ==
  ASSUME NEW d \in Schedulers, NEW c \in Seq(Nat)
  PROVE SchedulerOf([d EXCEPT !.cycles = c, !.buffer = 0], 0, d.total, c)
BY DEF Schedulers, SchedulerOf

LEMMA NewIsSound == Sound(NewScheduler)
<1>1. NewScheduler \in Schedulers /\ NewScheduler.cycles = <<>>
  BY DEF NewScheduler, Schedulers
<1>2. Distilled(NewScheduler) = {}
  BY <1>1 DEF Distilled
<1> QED BY <1>1, <1>2, FS_EmptySet DEF Sound, Balanced, NewScheduler

\* What does not touch the cycles, nor what is not yet in one, touches no sample.
LEMMA SoundAsBefore ==
  ASSUME NEW d, Sound(d), NEW e \in Schedulers, NEW n \in Nat,
         e.cycles = d.cycles, e.buffer = d.buffer + n, e.total = d.total + n
  PROVE Sound(e)
<1>1. Distilled(e) = Distilled(d)
  BY DEF Distilled
<1>2. Cardinality(Distilled(d)) \in Nat
  BY FS_CardinalityType DEF Sound
<1> QED BY <1>1, <1>2 DEF Sound, Balanced, Schedulers

LEMMA AddBatchSound ==
  ASSUME NEW d, Sound(d), NEW n \in Nat
  PROVE Sound(AddBatch(d, n))
<1>1. d \in Schedulers /\ d.cycles \in Seq(Nat) /\ d.buffer + n \in Nat /\ d.total + n \in Nat
  BY SMTT(30) DEF Sound, Schedulers
<1>2. AddBatch(d, n) = [d EXCEPT !.buffer = d.buffer + n, !.total = d.total + n]
  BY DEF AddBatch
<1>3. PICK a \in Nat, b \in Nat : a = d.buffer + n /\ b = d.total + n
  BY <1>1
<1>4. AddBatch(d, n) = [d EXCEPT !.buffer = a, !.total = b]
  BY <1>2, <1>3
<1>5. SchedulerOf(AddBatch(d, n), a, b, d.cycles)
  BY <1>1, <1>4, SchedulerUpdates
<1> QED BY <1>3, <1>5, SoundAsBefore DEF SchedulerOf

LEMMA CalledBackSound ==
  ASSUME NEW d, Sound(d), NEW lora \in BOOLEAN, NEW full \in BOOLEAN
  PROVE Sound(CalledBack(d, lora, full))
<1>1. d \in Schedulers
  BY DEF Sound
<1> DEFINE l == IF lora /\ d.total >= LoraThreshold THEN d.lora + 1 ELSE d.lora
           f == IF full THEN d.full + 1 ELSE d.full
<1>2. l \in Nat /\ f \in Nat
  BY <1>1 DEF Schedulers
<1>3. CalledBack(d, lora, full) = [d EXCEPT !.lora = l, !.full = f]
  BY DEF CalledBack
<1> HIDE DEF l, f
<1>4. d.cycles \in Seq(Nat) /\ d.buffer = d.buffer + 0 /\ d.total = d.total + 0
  BY <1>1 DEF Schedulers
<1>5. SchedulerOf(CalledBack(d, lora, full), d.buffer, d.total, d.cycles)
  BY <1>2, <1>3, <1>4, <1>1, SchedulerUpdates
<1> QED BY <1>4, <1>5, SoundAsBefore DEF SchedulerOf

\* A cycle takes the whole buffer.
LEMMA ClosedSound ==
  ASSUME NEW d, Sound(d)
  PROVE Sound(Closed(d))
<1>1. d \in Schedulers /\ d.buffer \in Nat /\ d.total \in Nat /\ d.cycles \in Seq(Nat)
  BY DEF Sound, Schedulers
<1>2. PICK n \in Nat : n = Len(d.cycles)
  BY <1>1
<1> DEFINE cycles == Append(d.cycles, d.buffer)
           news == {n + 1} \X (1..d.buffer)
<1>3. /\ cycles \in Seq(Nat) /\ DOMAIN cycles = 1..(n + 1) /\ DOMAIN d.cycles = 1..n
      /\ cycles[n + 1] = d.buffer /\ \A i \in 1..n : cycles[i] = d.cycles[i]
  BY <1>1, <1>2
<1>4. Closed(d) = [d EXCEPT !.cycles = cycles, !.buffer = 0]
  BY DEF Closed
<1> HIDE DEF cycles
<1>5. Closed(d) \in Schedulers /\ Closed(d).cycles = cycles /\ Closed(d).buffer = 0 /\ Closed(d).total = d.total
  <2>1. SchedulerOf(Closed(d), 0, d.total, cycles)
    BY <1>1, <1>3, <1>4, SchedulerCloses
  <2> QED BY <2>1 DEF SchedulerOf
<1>6. Distilled(Closed(d)) = Distilled(d) \cup news
  <2>1. ASSUME NEW p \in Distilled(Closed(d)) PROVE p \in Distilled(d) \cup news
    <3>1. PICK i \in 1..(n + 1) : p \in {i} \X (1..cycles[i])
      BY <1>3, <1>5 DEF Distilled
    <3>2. CASE i = n + 1
      BY <1>3, <3>1, <3>2
    <3>3. CASE i # n + 1
      <4>1. i \in 1..n
        BY <3>3
      <4> QED BY <1>3, <3>1, <4>1, SMTT(30) DEF Distilled
    <3> QED BY <3>2, <3>3
  <2>2. ASSUME NEW p \in Distilled(d) PROVE p \in Distilled(Closed(d))
    <3>1. PICK i \in 1..n : p \in {i} \X (1..d.cycles[i])
      BY <1>3 DEF Distilled
    <3>2. i \in 1..(n + 1) /\ cycles[i] = d.cycles[i]
      BY <1>3
    <3> QED BY <1>3, <1>5, <3>1, <3>2 DEF Distilled
  <2>3. ASSUME NEW p \in news PROVE p \in Distilled(Closed(d))
    <3>1. n + 1 \in 1..(n + 1) /\ p \in {n + 1} \X (1..cycles[n + 1])
      BY <1>3
    <3> QED BY <1>3, <1>5, <3>1 DEF Distilled
  <2> HIDE DEF news
  <2> QED BY <2>1, <2>2, <2>3
<1>7. Distilled(d) \cap news = {}
  <2> SUFFICES ASSUME NEW p \in Distilled(d), p \in news PROVE FALSE
    OBVIOUS
  <2>1. PICK i \in 1..n : p \in {i} \X (1..d.cycles[i])
    BY <1>3 DEF Distilled
  <2>2. p[1] = i /\ p[1] = n + 1
    BY <2>1
  <2> QED BY <2>2
<1>8. IsFiniteSet(news) /\ Cardinality(news) = d.buffer
  <2>1. IsFiniteSet({n + 1}) /\ Cardinality({n + 1}) = 1
    BY FS_Singleton
  <2>2. IsFiniteSet(1..d.buffer) /\ Cardinality(1..d.buffer) = d.buffer
    <3>1. 1 \in Int /\ d.buffer \in Int
      BY <1>1
    <3>2. /\ IsFiniteSet(1..d.buffer)
          /\ Cardinality(1..d.buffer) = IF 1 > d.buffer THEN 0 ELSE d.buffer - 1 + 1
      BY <3>1, FS_Interval
    <3> QED BY <1>1, <3>2
  <2>3. IsFiniteSet(news) /\ Cardinality(news) = 1 * d.buffer
    BY <2>1, <2>2, FS_Product, ZenonT(60)
  <2> QED BY <1>1, <2>3
<1> HIDE DEF news
<1>9. IsFiniteSet(Distilled(d)) /\ Cardinality(Distilled(d)) \in Nat /\ d.total = d.buffer + Cardinality(Distilled(d))
  BY FS_CardinalityType DEF Sound, Balanced
<1>10. /\ IsFiniteSet(Distilled(Closed(d)))
       /\ Cardinality(Distilled(Closed(d))) = Cardinality(Distilled(d)) + d.buffer
  <2>1. /\ IsFiniteSet(Distilled(d) \cup news)
        /\ Cardinality(Distilled(d) \cup news)
             = Cardinality(Distilled(d)) + Cardinality(news) - Cardinality(Distilled(d) \cap news)
    BY <1>8, <1>9, FS_Union
  <2>2. Cardinality(Distilled(d) \cap news) = 0
    BY <1>7, FS_EmptySet
  <2> QED BY <1>1, <1>6, <1>8, <1>9, <2>1, <2>2
<1> QED BY <1>1, <1>5, <1>9, <1>10 DEF Sound, Balanced

LEMMA CycleSound ==
  ASSUME NEW d, Sound(d), NEW lora \in BOOLEAN, NEW full \in BOOLEAN, NEW logged \in BOOLEAN
  PROVE Sound(RunDistillCycle(d, lora, full, logged))
BY CalledBackSound, ClosedSound DEF RunDistillCycle

LEMMA DistillStep == DistillInv /\ [DistillNext]_distill => DistillInv'
<1> SUFFICES ASSUME DistillInv, [DistillNext]_distill PROVE DistillInv'
  OBVIOUS
<1> DEFINE Types == [pc : {"off", "loaded", "added", "cycled", "saving"}, mem : Schedulers,
                     file : {"absent", "torn", "saved"}, saved : Schedulers, due : BOOLEAN]
<1>1. distill \in Types /\ Sound(distill.mem) /\ Sound(distill.saved)
  BY DEF DistillInv
<1>2. ASSUME NEW s, s \in Types, Sound(s.mem), Sound(s.saved), distill' = s PROVE DistillInv'
  BY <1>2 DEF DistillInv
<1>3. ASSUME NEW p \in {"off", "loaded", "added", "cycled", "saving"}, NEW m, Sound(m), NEW due \in BOOLEAN,
             distill' = [distill EXCEPT !.pc = p, !.mem = m, !.due = due]
      PROVE DistillInv'
  <2>1. /\ distill' \in Types /\ distill'.mem = m /\ distill'.saved = distill.saved
    BY <1>1, <1>3 DEF Sound
  <2> QED BY <1>1, <1>2, <1>3, <2>1
<1>4. CASE LoadCheckpoint
  <2> DEFINE m == IF distill.file = "saved" THEN distill.saved ELSE NewScheduler
  <2>1. Sound(m)
    BY <1>1, NewIsSound
  <2>2. distill' = [distill EXCEPT !.pc = "loaded", !.mem = m]
    BY <1>4 DEF LoadCheckpoint
  <2> HIDE DEF m
  <2>3. distill' = [distill EXCEPT !.pc = "loaded", !.mem = m, !.due = distill.due] /\ distill.due \in BOOLEAN
    BY <1>1, <2>2
  <2> QED BY <1>3, <2>1, <2>3
<1>5. CASE AddSamples
  <2>1. PICK n \in BatchSizes : \/ distill' = [distill EXCEPT !.pc = "added", !.mem = AddBatch(@, n)]
                               \/ distill' = [distill EXCEPT !.pc = "off"]
    BY <1>5 DEF AddSamples
  <2>2. Sound(AddBatch(distill.mem, n))
    BY <1>1, AddBatchSound, DistillationAssumption
  <2>3. PICK m : m = AddBatch(distill.mem, n)
    OBVIOUS
  <2>4. CASE distill' = [distill EXCEPT !.pc = "added", !.mem = AddBatch(@, n)]
    <3>1. distill' = [distill EXCEPT !.pc = "added", !.mem = m, !.due = distill.due] /\ distill.due \in BOOLEAN
      BY <1>1, <2>3, <2>4
    <3> QED BY <1>3, <2>2, <2>3, <3>1
  <2>5. CASE distill' = [distill EXCEPT !.pc = "off"]
    <3>1. distill' = [distill EXCEPT !.pc = "off", !.mem = distill.mem, !.due = distill.due] /\ distill.due \in BOOLEAN
      BY <1>1, <2>5
    <3> QED BY <1>1, <1>3, <3>1
  <2> QED BY <2>1, <2>4, <2>5
<1>6. CASE DistillCycle
  <2>1. PICK lora \in BOOLEAN, full \in BOOLEAN :
          \/ distill' = [distill EXCEPT !.pc = "cycled", !.due = @ /\ ~lora /\ ~full,
                                        !.mem = RunDistillCycle(@, lora, full, TRUE)]
          \/ distill' = [distill EXCEPT !.pc = "off", !.due = @ /\ ~lora /\ ~full]
    BY <1>6 DEF DistillCycle
  <2>2. PICK m : m = RunDistillCycle(distill.mem, lora, full, TRUE)
    OBVIOUS
  <2>3. Sound(m)
    BY <1>1, <2>2, CycleSound
  <2>4. PICK due \in BOOLEAN : due = (distill.due /\ ~lora /\ ~full)
    OBVIOUS
  <2>5. CASE distill' = [distill EXCEPT !.pc = "cycled", !.due = @ /\ ~lora /\ ~full,
                                        !.mem = RunDistillCycle(@, lora, full, TRUE)]
    <3>1. distill' = [distill EXCEPT !.pc = "cycled", !.mem = m, !.due = due]
      BY <1>1, <2>2, <2>4, <2>5
    <3> QED BY <1>3, <2>3, <3>1
  <2>6. CASE distill' = [distill EXCEPT !.pc = "off", !.due = @ /\ ~lora /\ ~full]
    <3>1. distill' = [distill EXCEPT !.pc = "off", !.mem = distill.mem, !.due = due]
      BY <1>1, <2>4, <2>6
    <3> QED BY <1>1, <1>3, <3>1
  <2> QED BY <2>1, <2>5, <2>6
<1>7. CASE SaveBegins
  <2>1. distill' \in Types /\ distill'.mem = distill.mem /\ distill'.saved = distill.saved
    BY <1>1, <1>7 DEF SaveBegins
  <2> QED BY <1>1, <1>2, <2>1
<1>8. CASE SaveEnds
  <2>1. distill' \in Types /\ distill'.mem = distill.mem /\ distill'.saved = distill.mem
    BY <1>1, <1>8 DEF SaveEnds
  <2> QED BY <1>1, <1>2, <2>1
<1>9. CASE IntervalPasses \/ DistillDies
  <2>1. distill' \in Types /\ distill'.mem = distill.mem /\ distill'.saved = distill.saved
    BY <1>1, <1>9 DEF IntervalPasses, DistillDies
  <2> QED BY <1>1, <1>2, <2>1
<1>10. CASE distill' = distill
  BY <1>1, <1>2, <1>10
<1> QED BY <1>4, <1>5, <1>6, <1>7, <1>8, <1>9, <1>10 DEF DistillNext

\* Through cycles, callbacks, logs that fail, crashes and reloads, every sample is waiting or in exactly
\* one cycle (training/distillation.py:140), for every threshold and any number of samples.
THEOREM NoSampleLost == DistillSpec => []SamplesConserved
<1>1. DistillInit => DistillInv
  BY NewIsSound DEF DistillInit, DistillIdle, DistillInv, Sound
<1>2. DistillInv => SamplesConserved
  BY DEF DistillInv, Sound, SamplesConserved
<1> QED BY <1>1, <1>2, DistillStep, PTL DEF DistillSpec

-----------------------------------------------------------------------------
Entries == [epoch : Nat, resumed : BOOLEAN]

\* A log without marks, whose entries are the epochs in order.
Straight(ms) == \A i \in DOMAIN ms : ~ms[i].resumed /\ ms[i].epoch = i - 1

\* A log with one mark, after which the epochs go on where they were.
MarkedAt(ms, m) ==
  /\ m \in DOMAIN ms /\ \A i \in DOMAIN ms : ms[i].resumed <=> i = m
  /\ \A i \in DOMAIN ms : (i < m => ms[i].epoch = i - 1) /\ (i > m => ms[i].epoch = i - 2)

Marked(ms) == \E m \in DOMAIN ms : MarkedAt(ms, m)
MarkedTwice(ms) == \E i, j \in DOMAIN ms : i # j /\ ms[i].resumed /\ ms[j].resumed

\* A log in which e is the next epoch.
NextIn(ms, e) ==
  \/ Straight(ms) /\ e = Len(ms)
  \/ Marked(ms) /\ e = Len(ms) - 1
  \/ MarkedTwice(ms)

Logs == Seq(Entries)
Ordered(ms) == Straight(ms) \/ Marked(ms) \/ MarkedTwice(ms)

TrainPcs == {"off", "rollouts", "saving", "final", "finishing"}
Checkpoints == [state : {"absent", "torn", "saved"}, metrics : Logs]

Runs == [pc : TrainPcs, epoch : Nat, metrics : Logs, distilled : Schedulers,
         checkpoints : [CheckpointTags -> Checkpoints], resumes : Nat]

TrainInv ==
  /\ train \in Runs /\ Sound(train.distilled)
  /\ Ordered(train.metrics)
  /\ train.pc \in {"rollouts", "saving"} => train.epoch < NumEpochs
  /\ train.pc = "rollouts" => NextIn(train.metrics, train.epoch)
  /\ train.pc = "saving" => NextIn(train.metrics, train.epoch + 1)
  /\ \A t \in CheckpointTags :
       train.checkpoints[t].state = "saved" => Ordered(train.checkpoints[t].metrics)

LEMMA EntryAppended ==
  ASSUME NEW ms \in Logs, NEW x \in Entries
  PROVE \E n \in Nat : /\ n = Len(ms) /\ Append(ms, x) \in Logs /\ Len(Append(ms, x)) = n + 1
                       /\ DOMAIN ms = 1..n /\ DOMAIN Append(ms, x) = 1..(n + 1)
                       /\ \A i \in 1..n : Append(ms, x)[i] = ms[i] /\ i \in 1..(n + 1)
                       /\ Append(ms, x)[n + 1] = x
                       /\ \A i \in 1..(n + 1) : i # n + 1 => i \in 1..n
<1>1. PICK n \in Nat : n = Len(ms)
  BY DEF Logs
<1> QED BY <1>1 DEF Logs

LEMMA EpochLogged ==
  ASSUME NEW ms \in Logs, NEW e \in Nat, NextIn(ms, e)
  PROVE Append(ms, EpochEntry(e)) \in Logs /\ NextIn(Append(ms, EpochEntry(e)), e + 1)
<1>2. PICK x \in Entries : x = EpochEntry(e) /\ x.epoch = e /\ x.resumed = FALSE
  <2>1. EpochEntry(e) \in Entries /\ EpochEntry(e).epoch = e /\ EpochEntry(e).resumed = FALSE
    BY DEF EpochEntry, Entries
  <2> QED BY <2>1, Zenon
<1> DEFINE new == Append(ms, x)
<1>1. PICK n \in Nat :
        /\ n = Len(ms) /\ new \in Logs /\ Len(new) = n + 1 /\ DOMAIN ms = 1..n /\ DOMAIN new = 1..(n + 1)
        /\ \A i \in 1..n : new[i] = ms[i] /\ i \in 1..(n + 1)
        /\ new[n + 1] = x
        /\ \A i \in 1..(n + 1) : i # n + 1 => i \in 1..n
  BY EntryAppended
<1> HIDE DEF new
<1>3. /\ new \in Logs /\ Len(new) = n + 1 /\ DOMAIN ms = 1..n /\ DOMAIN new = 1..(n + 1)
      /\ \A i \in 1..n : new[i] = ms[i] /\ i \in 1..(n + 1)
      /\ new[n + 1].epoch = e /\ new[n + 1].resumed = FALSE
      /\ \A i \in 1..(n + 1) : i # n + 1 => i \in 1..n
  BY <1>1, <1>2
<1>4. CASE Straight(ms) /\ e = Len(ms)
  <2>1. ASSUME NEW i \in 1..(n + 1) PROVE ~new[i].resumed /\ new[i].epoch = i - 1
    BY <1>1, <1>3, <1>4 DEF Straight
  <2> QED BY <1>1, <1>2, <1>3, <1>4, <2>1 DEF NextIn, Straight, new
<1>5. CASE Marked(ms) /\ e = Len(ms) - 1
  <2>1. PICK m \in 1..n : MarkedAt(ms, m)
    BY <1>3, <1>5 DEF Marked
  <2>2. m \in 1..(n + 1) /\ m # n + 1
    BY <2>1
  <2>3. ASSUME NEW i \in 1..(n + 1)
        PROVE /\ new[i].resumed <=> i = m
              /\ (i < m => new[i].epoch = i - 1) /\ (i > m => new[i].epoch = i - 2)
    <3>1. CASE i = n + 1
      BY <1>1, <1>3, <1>5, <2>1, <3>1
    <3>2. CASE i # n + 1
      BY <1>3, <2>1, <3>2 DEF MarkedAt
    <3> QED BY <3>1, <3>2
  <2>4. Marked(new)
    BY <1>3, <2>2, <2>3 DEF Marked, MarkedAt
  <2> QED BY <1>1, <1>2, <1>3, <1>5, <2>4 DEF NextIn, new
<1>6. CASE MarkedTwice(ms)
  <2>1. PICK i \in 1..n, j \in 1..n : i # j /\ ms[i].resumed /\ ms[j].resumed
    BY <1>3, <1>6 DEF MarkedTwice
  <2> QED BY <1>2, <1>3, <2>1 DEF NextIn, MarkedTwice, new
<1> QED BY <1>2, <1>3, <1>4, <1>5, <1>6 DEF NextIn, new

LEMMA MarkLogged ==
  ASSUME NEW ms \in Logs, NEW e \in Nat, e = Len(ms), Ordered(ms)
  PROVE Append(ms, ResumedEntry(e)) \in Logs /\ NextIn(Append(ms, ResumedEntry(e)), e)
<1>2. PICK x \in Entries : x = ResumedEntry(e) /\ x.resumed = TRUE
  <2>1. ResumedEntry(e) \in Entries /\ ResumedEntry(e).resumed = TRUE
    <3>1. e \in Nat
      OBVIOUS
    <3> QED BY <3>1 DEF ResumedEntry, Entries
  <2> QED BY <2>1, Zenon
<1> DEFINE new == Append(ms, x)
<1>1. PICK n \in Nat :
        /\ n = Len(ms) /\ new \in Logs /\ Len(new) = n + 1 /\ DOMAIN ms = 1..n /\ DOMAIN new = 1..(n + 1)
        /\ \A i \in 1..n : new[i] = ms[i] /\ i \in 1..(n + 1)
        /\ new[n + 1] = x
        /\ \A i \in 1..(n + 1) : i # n + 1 => i \in 1..n
  BY EntryAppended
<1> HIDE DEF new
<1>3. /\ new \in Logs /\ Len(new) = e + 1 /\ DOMAIN ms = 1..e /\ DOMAIN new = 1..(e + 1)
      /\ \A i \in 1..e : new[i] = ms[i] /\ i \in 1..(e + 1)
      /\ new[e + 1].resumed = TRUE
      /\ \A i \in 1..(e + 1) : i # e + 1 => i \in 1..e
  BY <1>1, <1>2
<1>4. e + 1 \in 1..(e + 1)
  OBVIOUS
<1>5. CASE Straight(ms)
  <2>1. ASSUME NEW i \in 1..(e + 1)
        PROVE /\ new[i].resumed <=> i = e + 1
              /\ (i < e + 1 => new[i].epoch = i - 1) /\ (i > e + 1 => new[i].epoch = i - 2)
    <3>1. CASE i = e + 1
      BY <1>3, <3>1
    <3>2. CASE i # e + 1
      BY <1>3, <1>5, <3>2 DEF Straight
    <3> QED BY <3>1, <3>2
  <2>2. MarkedAt(new, e + 1)
    BY <1>3, <1>4, <2>1 DEF MarkedAt
  <2>3. Marked(new)
    BY <1>3, <1>4, <2>2 DEF Marked
  <2> QED BY <1>2, <1>3, <2>3 DEF NextIn, new
<1>6. CASE Marked(ms) \/ MarkedTwice(ms)
  <2>1. PICK i \in 1..e : ms[i].resumed
    BY <1>3, <1>6 DEF Marked, MarkedAt, MarkedTwice
  <2>2. i \in 1..(e + 1) /\ new[i].resumed /\ i # e + 1
    BY <1>3, <2>1
  <2>3. MarkedTwice(new)
    BY <1>3, <1>4, <2>2 DEF MarkedTwice
  <2> QED BY <1>2, <1>3, <2>3 DEF NextIn, new
<1> QED BY <1>5, <1>6 DEF Ordered

LEMMA NextIsOrdered ==
  ASSUME NEW ms \in Logs, NEW e \in Nat, NextIn(ms, e)
  PROVE Ordered(ms)
BY DEF NextIn, Ordered

\* What the order of a log says of the numbers of its epochs.
LEMMA OrderedCounts ==
  ASSUME NEW ms \in Logs, Ordered(ms), Cardinality(Resumptions(ms)) <= 1
  PROVE /\ \A i \in Trained(ms) : ms[i].epoch = Cardinality({j \in Trained(ms) : j < i})
        /\ \A e \in Nat : NextIn(ms, e) => e = Cardinality(Trained(ms))
<1>1. PICK n \in Nat : n = Len(ms) /\ DOMAIN ms = 1..n
  BY DEF Logs
<1>2. \A k \in 0..n : IsFiniteSet(1..k) /\ Cardinality(1..k) = k
  <2>1. ASSUME NEW k \in 0..n PROVE IsFiniteSet(1..k) /\ Cardinality(1..k) = k
    <3>1. 1 \in Int /\ k \in Int
      OBVIOUS
    <3>2. IsFiniteSet(1..k) /\ Cardinality(1..k) = IF 1 > k THEN 0 ELSE k - 1 + 1
      BY <3>1, FS_Interval
    <3> QED BY <3>2
  <2> QED BY <2>1
<1>3. ~MarkedTwice(ms)
  <2> SUFFICES ASSUME MarkedTwice(ms) PROVE FALSE
    OBVIOUS
  <2>1. PICK i \in 1..n, j \in 1..n : i # j /\ ms[i].resumed /\ ms[j].resumed
    BY <1>1 DEF MarkedTwice
  <2>2. {i, j} \subseteq Resumptions(ms) /\ Resumptions(ms) \subseteq 1..n
    BY <1>1, <2>1 DEF Resumptions
  <2>3. IsFiniteSet(1..n)
    BY <1>2
  <2>4. IsFiniteSet(Resumptions(ms))
    BY <2>2, <2>3, FS_Subset
  <2>5. Cardinality({i, j}) <= Cardinality(Resumptions(ms)) /\ Cardinality(Resumptions(ms)) \in Nat /\ IsFiniteSet({i, j})
    BY <2>2, <2>4, FS_Subset, FS_CardinalityType
  <2>6. Cardinality({i, j}) = 2
    <3>1. {i, j} = {i} \cup {j} /\ j \notin {i}
      BY <2>1
    <3>2. IsFiniteSet({i}) /\ Cardinality({i}) = 1
      BY FS_Singleton
    <3>3. Cardinality({i} \cup {j}) = Cardinality({i}) + 1
      BY <3>1, <3>2, FS_AddElement
    <3> QED BY <3>1, <3>2, <3>3
  <2> QED BY <2>5, <2>6
<1>4. CASE Straight(ms)
  <2>1. Trained(ms) = 1..n
    BY <1>1, <1>4 DEF Trained, Straight
  <2>2. ASSUME NEW i \in 1..n PROVE ms[i].epoch = Cardinality({j \in 1..n : j < i})
    <3>1. {j \in 1..n : j < i} = 1..(i - 1) /\ i - 1 \in 0..n
      OBVIOUS
    <3> QED BY <1>1, <1>2, <1>4, <3>1 DEF Straight
  <2>3. ~Marked(ms)
    BY <1>4 DEF Straight, Marked, MarkedAt
  <2>4. Cardinality(1..n) = n
    BY <1>2
  <2> QED BY <1>1, <1>3, <2>1, <2>2, <2>3, <2>4 DEF NextIn
<1>5. CASE Marked(ms)
  <2>1. PICK m \in 1..n : MarkedAt(ms, m)
    BY <1>1, <1>5 DEF Marked
  <2>2. Trained(ms) = (1..n) \ {m}
    BY <1>1, <2>1 DEF Trained, MarkedAt
  <2>3. ASSUME NEW k \in m..n PROVE Cardinality((1..k) \ {m}) = k - 1
    <3>1. k \in 0..n /\ m \in 1..k
      OBVIOUS
    <3>2. IsFiniteSet(1..k) /\ Cardinality(1..k) = k
      BY <1>2, <3>1
    <3> QED BY <3>1, <3>2, FS_RemoveElement
  <2>4. ASSUME NEW i \in (1..n) \ {m} PROVE ms[i].epoch = Cardinality({j \in (1..n) \ {m} : j < i})
    <3>1. CASE i < m
      <4>1. {j \in (1..n) \ {m} : j < i} = 1..(i - 1) /\ i - 1 \in 0..n
        BY <3>1
      <4> QED BY <1>1, <1>2, <2>1, <3>1, <4>1 DEF MarkedAt
    <3>2. CASE i > m
      <4>1. {j \in (1..n) \ {m} : j < i} = (1..(i - 1)) \ {m} /\ i - 1 \in m..n
        BY <3>2
      <4>2. ms[i].epoch = i - 2
        BY <1>1, <2>1, <3>2 DEF MarkedAt
      <4> QED BY <2>3, <4>1, <4>2
    <3> QED BY <3>1, <3>2
  <2>5. Cardinality((1..n) \ {m}) = n - 1
    BY <2>3
  <2>6. ~Straight(ms)
    BY <1>1, <2>1 DEF Straight, MarkedAt
  <2> QED BY <1>1, <1>3, <2>2, <2>4, <2>5, <2>6 DEF NextIn
<1> QED BY <1>3, <1>4, <1>5 DEF Ordered

RunOf(t, p, e, ms, d, cs) ==
  /\ t \in Runs /\ t.pc = p /\ t.epoch = e /\ t.metrics = ms /\ t.distilled = d /\ t.checkpoints = cs

LEMMA TrainingStarts ==
  ASSUME NEW t \in Runs, NEW p \in TrainPcs, NEW e \in Nat, NEW ms \in Logs, NEW d \in Schedulers, NEW r \in Nat
  PROVE /\ RunOf([t EXCEPT !.pc = p, !.epoch = e, !.metrics = ms, !.distilled = d, !.resumes = r],
                 p, e, ms, d, t.checkpoints)
BY DEF RunOf, Runs

LEMMA RunGoesOn ==
  ASSUME NEW t \in Runs, NEW p \in TrainPcs, NEW e \in Nat, NEW cs \in [CheckpointTags -> Checkpoints]
  PROVE RunOf([t EXCEPT !.pc = p, !.epoch = e, !.checkpoints = cs], p, e, t.metrics, t.distilled, cs)
BY DEF RunOf, Runs

\* A step that changes neither the checkpoints nor more than its run knows.
LEMMA RunBecomes ==
  ASSUME TrainInv, NEW p \in TrainPcs, NEW e \in Nat, NEW ms \in Logs, NEW d \in Schedulers,
         NEW cs \in [CheckpointTags -> Checkpoints], RunOf(train', p, e, ms, d, cs),
         Sound(d), Ordered(ms),
         p \in {"rollouts", "saving"} => e < NumEpochs,
         p = "rollouts" => NextIn(ms, e), p = "saving" => NextIn(ms, e + 1),
         \A t \in CheckpointTags : cs[t].state = "saved" => Ordered(cs[t].metrics)
  PROVE TrainInv'
BY DEF RunOf, TrainInv

\* A checkpoint that is being written holds no log, one that was written holds the run's.
LEMMA TornIsNoLog ==
  ASSUME NEW old \in [CheckpointTags -> Checkpoints], NEW e \in CheckpointTags,
         \A t \in CheckpointTags : old[t].state = "saved" => Ordered(old[t].metrics)
  PROVE LET cs == [old EXCEPT ![e] = [@ EXCEPT !.state = "torn"]]
        IN /\ cs \in [CheckpointTags -> Checkpoints]
           /\ \A t \in CheckpointTags : cs[t].state = "saved" => Ordered(cs[t].metrics)
<1>1. PICK c \in Checkpoints : c = [old[e] EXCEPT !.state = "torn"] /\ c.state = "torn"
  <2> DEFINE d == [old[e] EXCEPT !.state = "torn"]
  <2>1. d \in Checkpoints /\ d.state = "torn"
    BY DEF Checkpoints
  <2> HIDE DEF d
  <2>2. \E c \in Checkpoints : c = d
    BY <2>1
  <2> QED BY <2>1, <2>2 DEF d
<1>2. [old EXCEPT ![e] = [@ EXCEPT !.state = "torn"]] = [old EXCEPT ![e] = c]
  BY <1>1
<1> QED BY <1>1, <1>2

LEMMA SavedIsLog ==
  ASSUME NEW old \in [CheckpointTags -> Checkpoints], NEW e \in CheckpointTags,
         \A t \in CheckpointTags : old[t].state = "saved" => Ordered(old[t].metrics),
         train.metrics \in Logs, Ordered(train.metrics)
  PROVE LET cs == [old EXCEPT ![e] = SavedAs(e)]
        IN /\ cs \in [CheckpointTags -> Checkpoints]
           /\ \A t \in CheckpointTags : cs[t].state = "saved" => Ordered(cs[t].metrics)
<1>1. SavedAs(e) \in Checkpoints /\ SavedAs(e).metrics = train.metrics
  BY DEF SavedAs, Checkpoints
<1> QED BY <1>1

LEMMA GoesOn ==
  ASSUME NEW e \in Nat
  PROVE Continues(e) \in {"rollouts", "final"} /\ (Continues(e) = "rollouts" => e < NumEpochs)
BY DEF Continues

LEMMA TrainStep == TrainInv /\ [TrainNext]_train => TrainInv'
<1> SUFFICES ASSUME TrainInv, [TrainNext]_train PROVE TrainInv'
  OBVIOUS
<1>0. NumEpochs \in Nat /\ CheckpointInterval \in Nat \ {0} /\ EpochSamples \subseteq Nat
  BY TrainingAssumption
<1>1. /\ train \in Runs /\ train.pc \in TrainPcs /\ train.epoch \in Nat /\ train.metrics \in Logs
      /\ train.distilled \in Schedulers /\ train.checkpoints \in [CheckpointTags -> Checkpoints] /\ train.resumes \in Nat
      /\ Sound(train.distilled) /\ Ordered(train.metrics)
      /\ \A t \in CheckpointTags : train.checkpoints[t].state = "saved" => Ordered(train.checkpoints[t].metrics)
  BY DEF TrainInv, Runs
<1>2. NewScheduler \in Schedulers /\ Sound(NewScheduler)
  BY NewIsSound DEF Sound
<1>3. CASE TrainFresh
  <2>1. PICK ms \in Logs : ms = <<>>
    <3>1. <<>> \in Logs
      BY DEF Logs
    <3> QED BY <3>1
  <2>2. Ordered(ms) /\ NextIn(ms, 0)
    BY <2>1 DEF Ordered, NextIn, Straight
  <2>3. train' = [train EXCEPT !.pc = Continues(0), !.epoch = 0, !.metrics = ms, !.distilled = NewScheduler,
                               !.resumes = train.resumes]
    BY <1>1, <1>3, <2>1 DEF TrainFresh, Runs
  <2>4. PICK p \in TrainPcs, e \in Nat : p = Continues(0) /\ e = 0
    BY GoesOn DEF TrainPcs
  <2>5. RunOf(train', p, e, ms, NewScheduler, train.checkpoints)
    BY <1>1, <1>2, <2>3, <2>4, TrainingStarts
  <2>6. p \in {"rollouts", "final"} /\ (p = "rollouts" => e < NumEpochs)
    BY <2>4, GoesOn
  <2> QED BY <1>1, <1>2, <2>2, <2>4, <2>5, <2>6, RunBecomes
<1>4. CASE TrainResume
  <2>1. PICK t \in CheckpointTags :
          LET c == train.checkpoints[t]
              e == ResumeEpoch(c.metrics)
          IN /\ c.state = "saved"
             /\ train' = [train EXCEPT !.pc = Continues(e), !.epoch = e,
                                       !.metrics = Append(c.metrics, ResumedEntry(e)),
                                       !.distilled = NewScheduler, !.resumes = @ + 1]
    BY <1>4 DEF TrainResume
  <2>2. PICK old \in Logs : old = train.checkpoints[t].metrics /\ Ordered(old)
    <3>1. train.checkpoints[t] \in Checkpoints
      BY <1>1
    <3>2. train.checkpoints[t].metrics \in Logs
      BY <3>1 DEF Checkpoints
    <3> QED BY <1>1, <2>1, <3>2
  <2>3. PICK e \in Nat : e = Len(old)
    BY DEF Logs
  <2>4. PICK ms \in Logs : ms = Append(old, ResumedEntry(e)) /\ NextIn(ms, e)
    BY <2>2, <2>3, MarkLogged
  <2>5. PICK p \in TrainPcs : p = Continues(e) /\ p \in {"rollouts", "final"} /\ (p = "rollouts" => e < NumEpochs)
    BY GoesOn DEF TrainPcs
  <2>6. PICK r \in Nat : r = train.resumes + 1
    BY <1>1
  <2>7. train' = [train EXCEPT !.pc = p, !.epoch = e, !.metrics = ms, !.distilled = NewScheduler, !.resumes = r]
    BY <2>1, <2>2, <2>3, <2>4, <2>5, <2>6 DEF ResumeEpoch
  <2>8. RunOf(train', p, e, ms, NewScheduler, train.checkpoints)
    BY <1>1, <1>2, <2>7, TrainingStarts
  <2>9. Ordered(ms)
    BY <2>4, NextIsOrdered
  <2> QED BY <1>1, <1>2, <2>4, <2>5, <2>8, <2>9, RunBecomes
<1>5. CASE EpochEnds
  <2>1. PICK n \in EpochSamples, due \in BOOLEAN :
          LET e == train.epoch
              d == AddBatch(train.distilled, n)
              saves == e > 0 /\ e % CheckpointInterval = 0
              t == [train EXCEPT
                      !.metrics = Append(@, EpochEntry(e)),
                      !.distilled = IF ShouldDistill(d, due)
                                    THEN RunDistillCycle(d, FALSE, FALSE, TRUE) ELSE d]
          IN train' = IF saves
                      THEN [t EXCEPT !.pc = "saving", !.checkpoints[e].state = "torn"]
                      ELSE [t EXCEPT !.pc = Continues(e + 1), !.epoch = e + 1]
    BY <1>5 DEF EpochEnds
  <2>2. PICK d : d = LET batch == AddBatch(train.distilled, n)
                     IN IF ShouldDistill(batch, due) THEN RunDistillCycle(batch, FALSE, FALSE, TRUE) ELSE batch
    OBVIOUS
  <2>3. Sound(d) /\ d \in Schedulers
    <3>1. n \in Nat
      BY <1>0
    <3>2. Sound(AddBatch(train.distilled, n))
      BY <1>1, <3>1, AddBatchSound
    <3>3. Sound(d)
      BY <2>2, <3>2, CycleSound
    <3> QED BY <3>3 DEF Sound
  <2>4. PICK e \in Nat : e = train.epoch /\ e < NumEpochs /\ NextIn(train.metrics, e)
    BY <1>1, <1>5 DEF EpochEnds, TrainInv
  <2>5. PICK ms \in Logs : ms = Append(train.metrics, EpochEntry(e)) /\ NextIn(ms, e + 1)
    BY <1>1, <2>4, EpochLogged
  <2>6. Ordered(ms) /\ e + 1 \in Nat /\ e \in CheckpointTags
    BY <1>0, <2>4, <2>5, NextIsOrdered DEF CheckpointTags
  <2>7. PICK t \in Runs : /\ t = [train EXCEPT !.metrics = ms, !.distilled = d]
                          /\ t.metrics = ms /\ t.distilled = d /\ t.checkpoints = train.checkpoints /\ t.epoch = train.epoch
    <3> DEFINE u == [train EXCEPT !.metrics = ms, !.distilled = d]
    <3>1. u \in Runs /\ u.metrics = ms /\ u.distilled = d /\ u.checkpoints = train.checkpoints /\ u.epoch = train.epoch
      BY <1>1, <2>3 DEF Runs
    <3> HIDE DEF u
    <3>2. \E t \in Runs : t = u
      BY <3>1
    <3> QED BY <3>1, <3>2 DEF u
  <2>8. \/ train' = [t EXCEPT !.pc = "saving", !.checkpoints[e].state = "torn"]
        \/ train' = [t EXCEPT !.pc = Continues(e + 1), !.epoch = e + 1]
    BY <2>1, <2>2, <2>4, <2>5, <2>7
  <2>9. CASE train' = [t EXCEPT !.pc = "saving", !.checkpoints[e].state = "torn"]
    <3> DEFINE cs == [train.checkpoints EXCEPT ![e] = [@ EXCEPT !.state = "torn"]]
    <3>1. /\ cs \in [CheckpointTags -> Checkpoints]
          /\ \A u \in CheckpointTags : cs[u].state = "saved" => Ordered(cs[u].metrics)
      BY <1>1, <2>6, TornIsNoLog
    <3>2. train' = [t EXCEPT !.pc = "saving", !.epoch = e, !.checkpoints = cs]
      BY <2>4, <2>7, <2>9 DEF Runs
    <3> HIDE DEF cs
    <3>3. RunOf(train', "saving", e, ms, d, cs)
      <4>1. RunOf(train', "saving", e, t.metrics, t.distilled, cs)
        BY <3>1, <3>2, RunGoesOn DEF TrainPcs
      <4> QED BY <2>7, <4>1
    <3> QED BY <2>3, <2>4, <2>5, <2>6, <3>1, <3>3, RunBecomes DEF TrainPcs
  <2>10. CASE train' = [t EXCEPT !.pc = Continues(e + 1), !.epoch = e + 1]
    <3>1. PICK p \in TrainPcs, f \in Nat :
            p = Continues(f) /\ f = e + 1 /\ p \in {"rollouts", "final"} /\ (p = "rollouts" => f < NumEpochs)
      BY <2>6, GoesOn DEF TrainPcs
    <3>2. train' = [t EXCEPT !.pc = p, !.epoch = f, !.checkpoints = train.checkpoints]
      BY <2>7, <2>10, <3>1 DEF Runs
    <3>3. RunOf(train', p, f, ms, d, train.checkpoints)
      <4>1. RunOf(train', p, f, t.metrics, t.distilled, train.checkpoints)
        BY <1>1, <3>2, RunGoesOn
      <4> QED BY <2>7, <4>1
    <3> QED BY <1>1, <2>3, <2>5, <2>6, <3>1, <3>3, RunBecomes
  <2> QED BY <2>8, <2>9, <2>10
<1>6. CASE CheckpointWritten
  <2>1. PICK e \in Nat : e = train.epoch /\ e < NumEpochs /\ NextIn(train.metrics, e + 1) /\ e \in CheckpointTags
    BY <1>0, <1>1, <1>6 DEF CheckpointWritten, TrainInv, CheckpointTags
  <2> DEFINE cs == [train.checkpoints EXCEPT ![e] = SavedAs(e)]
  <2>2. /\ cs \in [CheckpointTags -> Checkpoints]
        /\ \A u \in CheckpointTags : cs[u].state = "saved" => Ordered(cs[u].metrics)
    BY <1>1, <2>1, SavedIsLog
  <2>3. PICK p \in TrainPcs, f \in Nat :
          p = Continues(f) /\ f = e + 1 /\ p \in {"rollouts", "final"} /\ (p = "rollouts" => f < NumEpochs)
    BY GoesOn DEF TrainPcs
  <2>4. train' = [train EXCEPT !.pc = p, !.epoch = f, !.checkpoints = cs]
    BY <1>6, <2>1, <2>3 DEF CheckpointWritten
  <2> HIDE DEF cs
  <2>5. RunOf(train', p, f, train.metrics, train.distilled, cs)
    BY <1>1, <2>2, <2>4, RunGoesOn
  <2> QED BY <1>1, <2>1, <2>2, <2>3, <2>5, RunBecomes
<1>7. CASE FinalOpened
  <2> DEFINE cs == [train.checkpoints EXCEPT ![NumEpochs] = [@ EXCEPT !.state = "torn"]]
  <2>1. NumEpochs \in CheckpointTags
    BY <1>0 DEF CheckpointTags
  <2>2. /\ cs \in [CheckpointTags -> Checkpoints]
        /\ \A u \in CheckpointTags : cs[u].state = "saved" => Ordered(cs[u].metrics)
    BY <1>1, <2>1, TornIsNoLog
  <2>3. train' = [train EXCEPT !.pc = "finishing", !.epoch = train.epoch, !.checkpoints = cs]
    BY <1>1, <1>7 DEF FinalOpened, Runs
  <2> HIDE DEF cs
  <2>4. RunOf(train', "finishing", train.epoch, train.metrics, train.distilled, cs)
    BY <1>1, <2>2, <2>3, RunGoesOn DEF TrainPcs
  <2> QED BY <1>1, <2>2, <2>4, RunBecomes DEF TrainPcs
<1>8. CASE FinalWritten
  <2> DEFINE cs == [train.checkpoints EXCEPT ![NumEpochs] = SavedAs(NumEpochs)]
  <2>1. NumEpochs \in CheckpointTags
    BY <1>0 DEF CheckpointTags
  <2>2. /\ cs \in [CheckpointTags -> Checkpoints]
        /\ \A u \in CheckpointTags : cs[u].state = "saved" => Ordered(cs[u].metrics)
    BY <1>1, <2>1, SavedIsLog
  <2>3. train' = [train EXCEPT !.pc = "off", !.epoch = train.epoch, !.checkpoints = cs]
    BY <1>1, <1>8 DEF FinalWritten, Runs
  <2> HIDE DEF cs
  <2>4. RunOf(train', "off", train.epoch, train.metrics, train.distilled, cs)
    BY <1>1, <2>2, <2>3, RunGoesOn DEF TrainPcs
  <2> QED BY <1>1, <2>2, <2>4, RunBecomes DEF TrainPcs
<1>9. CASE TrainDies
  <2>1. train' = [train EXCEPT !.pc = "off", !.epoch = train.epoch, !.checkpoints = train.checkpoints]
    BY <1>1, <1>9 DEF TrainDies, Runs
  <2>2. RunOf(train', "off", train.epoch, train.metrics, train.distilled, train.checkpoints)
    BY <1>1, <2>1, RunGoesOn DEF TrainPcs
  <2> QED BY <1>1, <2>2, RunBecomes DEF TrainPcs
<1>10. CASE train' = train
  BY <1>10 DEF TrainInv
<1> QED BY <1>3, <1>4, <1>5, <1>6, <1>7, <1>8, <1>9, <1>10 DEF TrainNext

LEMMA TrainStart == TrainInit => TrainInv
<1> SUFFICES ASSUME TrainInit PROVE TrainInv
  OBVIOUS
<1>1. <<>> \in Logs /\ Straight(<<>>)
  BY DEF Logs, Straight
<1>2. NoCheckpoint \in Checkpoints /\ NoCheckpoint.state # "saved"
  BY <1>1 DEF NoCheckpoint, Checkpoints
<1>3. NewScheduler \in Schedulers /\ Sound(NewScheduler)
  BY NewIsSound DEF Sound
<1>4. [t \in CheckpointTags |-> NoCheckpoint] \in [CheckpointTags -> Checkpoints]
  BY <1>2
<1> QED BY <1>1, <1>2, <1>3, <1>4 DEF TrainInit, TrainIdle, TrainInv, Runs, TrainPcs, Ordered

\* However often a training run dies and whichever checkpoint it goes on from, it trains every epoch once
\* and in order, unless its checkpoint is of a resumed run (run_training.py:90), for any number of epochs.
THEOREM EpochsInOrder == TrainSpec => []NoEpochSkipped
<1>1. TrainInv => NoEpochSkipped
  <2> SUFFICES ASSUME TrainInv, Cardinality(Resumptions(train.metrics)) <= 1
               PROVE /\ \A i \in Trained(train.metrics) :
                          train.metrics[i].epoch = Cardinality({j \in Trained(train.metrics) : j < i})
                     /\ train.pc = "rollouts" => train.epoch = Cardinality(Trained(train.metrics))
    BY DEF NoEpochSkipped
  <2>1. train.metrics \in Logs /\ train.epoch \in Nat /\ Ordered(train.metrics)
    BY DEF TrainInv, Runs
  <2>2. train.pc = "rollouts" => NextIn(train.metrics, train.epoch)
    BY DEF TrainInv
  <2> QED BY <2>1, <2>2, OrderedCounts
<1> QED BY <1>1, TrainStart, TrainStep, PTL DEF TrainSpec

\* The scheduler of a training run does not lose a sample either.
THEOREM TrainingLosesNone == TrainSpec => []Balanced(train.distilled)
<1>1. TrainInv => Balanced(train.distilled)
  BY DEF TrainInv, Sound
<1> QED BY <1>1, TrainStart, TrainStep, PTL DEF TrainSpec

-----------------------------------------------------------------------------
(* The agents that write code.                                             *)

SwePcs == {"off", "idle", "exploring", "proposing", "applying", "testing", "cleaning", "returned", "cancelled"}
SweVersions == [SweFiles -> Nat]
Repairs == [pc : SwePcs, sandboxed : BOOLEAN, container : {"none", "up", "left"}, attempt : Nat, iteration : Nat,
            explored : SUBSET SweFiles, files : SweVersions, proposed : SUBSET SweFiles, todo : SUBSET SweFiles,
            patch : [iteration : Nat, files : SUBSET SweFiles], torn : BOOLEAN, tested : SweVersions, ok : BOOLEAN]

\* The files that some iteration wrote.
Changed(r) == {f \in SweFiles : r.files[f] # 0}

\* What is known of a repair r: a patch that is being applied has written what is not left to do, and
\* the first iteration starts from an untouched repository.
Repaired(r) ==
  /\ r.ok => r.pc \in {"cleaning", "returned"} /\ r.tested = r.files
  /\ r.pc = "idle" => r.container = "none"
  /\ r.pc = "returned" => r.container # "up"
  /\ r.pc \in {"proposing", "applying", "testing"} => r.iteration > 0
  /\ r.patch.files \subseteq Changed(r)
  /\ r.pc = "applying" => r.todo \subseteq r.proposed /\ r.proposed \ r.todo \subseteq Changed(r)
  /\ r.iteration = 0 \/ (r.iteration = 1 /\ r.pc = "proposing") => Changed(r) = {}
  /\ r.iteration = 1 /\ r.pc = "applying" => Changed(r) \subseteq r.proposed \ r.todo
  /\ r.iteration = 1 /\ ~r.torn /\ r.pc \notin {"proposing", "applying", "cancelled"} => r.patch.files = Changed(r)

Scripts == [pc : {"off", "generating", "executing", "ended"}, attempt : Nat, ran : Nat, passed : Nat,
            result : [ok : BOOLEAN, code : Nat, iterations : Nat]]

\* Before the end a script has run once for each attempt that failed.
ScriptInv == script \in Scripts /\ ScriptSound /\ (script.pc # "ended" => script.ran = script.attempt)

StepPlaces == {"waiting", "queued", "running", "pausing", "passed", "failed"}
StepsTyped ==
  /\ tasks \in [pc : {"off", "looking", "ended"}, deps : StepGraphs \cup {<<>>}, place : [Steps -> StepPlaces],
                attempt : [Steps -> Nat], runs : [Steps -> Nat], threads : [Steps -> Nat],
                blocking : [Steps -> BOOLEAN]]
  /\ IsFiniteSet(Steps)

\* How often a step in each place has run after some attempts, and what its runs may have left behind.
Counts(place, attempt, runs, threads, blocks) ==
  /\ attempt <= StepRetries
  /\ place = "pausing" => attempt < StepRetries
  /\ place = "waiting" => attempt = 0
  /\ place \in {"waiting", "queued"} => runs = attempt
  /\ place \notin {"waiting", "queued"} => runs = attempt + 1
  /\ threads <= runs
  /\ place = "running" => threads < runs
  /\ threads > 0 => blocks = TRUE
Counted(s) == Counts(tasks.place[s], tasks.attempt[s], tasks.runs[s], tasks.threads[s], tasks.blocking[s])

\* The steps of U wait for one another, or for a step there is not.
Blocked(U) == \A u \in U : tasks.deps[u] \cap U # {} \/ ~(tasks.deps[u] \subseteq Steps)

StepsInv ==
  /\ StepsTyped
  /\ \A s \in Steps : Counted(s)
  /\ Cardinality(Holding) <= StepWidth
  /\ \A s \in InWave \cup Over : tasks.deps[s] \subseteq Over
  /\ \A U \in SUBSET Steps : Blocked(U) => U \cap (InWave \cup Over) = {}
  /\ tasks.pc = "ended" => InWave = {} /\ (Over = Steps \/ Ready(Over) = {})

AgentsInv == swe \in Repairs /\ Repaired(swe) /\ ScriptInv /\ StepsInv

-----------------------------------------------------------------------------
(* A repair.                                                                *)

\* Where an attempt that failed leaves a repair.
LEMMA FailedRepair ==
  ASSUME NEW r \in Repairs, ~r.ok, r.iteration > 0, r.patch.files \subseteq Changed(r),
         r.iteration = 1 /\ ~r.torn => r.patch.files = Changed(r)
  PROVE AfterFailure(r) \in Repairs /\ Repaired(AfterFailure(r))
<1>1. CASE r.attempt < SweRetries
  <2>1. PICK q : q = AfterFailure(r)
    OBVIOUS
  <2>2. q = [r EXCEPT !.attempt = @ + 1, !.pc = "exploring"]
    BY <1>1, <2>1 DEF AfterFailure
  <2>3. q \in Repairs
    <3>1. r.attempt \in Nat
      BY DEF Repairs
    <3>2. PICK n \in Nat : n = r.attempt + 1
      BY <3>1
    <3>3. q = [r EXCEPT !.attempt = n, !.pc = "exploring"]
      BY <2>2, <3>2
    <3> QED BY <3>3 DEF Repairs, SwePcs
  <2>4. q.pc = "exploring" /\ q.ok = r.ok /\ q.iteration = r.iteration /\ q.patch = r.patch /\ q.torn = r.torn /\ q.files = r.files
    BY <2>2 DEF Repairs
  <2>5. Changed(q) = Changed(r)
    BY <2>4 DEF Changed
  <2>6. Repaired(q)
    BY <2>4, <2>5 DEF Repaired, Repairs
  <2> QED BY <2>1, <2>3, <2>6
<1>2. CASE ~(r.attempt < SweRetries)
  <2>1. PICK q : q = AfterFailure(r)
    OBVIOUS
  <2>2. q = [r EXCEPT !.pc = "cleaning"]
    BY <1>2, <2>1 DEF AfterFailure
  <2>3. q \in Repairs
    BY <2>2 DEF Repairs, SwePcs
  <2>4. q.pc = "cleaning" /\ q.ok = r.ok /\ q.iteration = r.iteration /\ q.patch = r.patch /\ q.torn = r.torn /\ q.files = r.files
    BY <2>2 DEF Repairs
  <2>5. Changed(q) = Changed(r)
    BY <2>4 DEF Changed
  <2>6. Repaired(q)
    BY <2>4, <2>5 DEF Repaired, Repairs
  <2> QED BY <2>1, <2>3, <2>6
<1> QED BY <1>1, <1>2

\* A repository no iteration has written to.
LEMMA UntouchedChanged == Untouched \in SweVersions /\ \A r : r.files = Untouched => Changed(r) = {}
BY DEF Untouched, SweVersions, Changed

LEMMA NewRepair ==
  ASSUME NEW at \in {"off", "idle"}, NEW b \in BOOLEAN
  PROVE NewSwe(at, b) \in Repairs /\ Repaired(NewSwe(at, b))
<1>1. PICK q : q = NewSwe(at, b)
  OBVIOUS
<1>2. q \in Repairs
  BY <1>1, UntouchedChanged DEF NewSwe, NoPatch, Repairs, SwePcs
<1>3. /\ q.pc = at /\ q.ok = FALSE /\ q.container = "none" /\ q.iteration = 0 /\ q.patch.files = {}
      /\ q.files = Untouched
  BY <1>1 DEF NewSwe, NoPatch
<1>4. Changed(q) = {}
  BY <1>3, UntouchedChanged
<1>5. Repaired(q)
  BY <1>3, <1>4 DEF Repaired
<1> QED BY <1>1, <1>2, <1>5

\* Every step of the SWEAgent.
LEMMA RepairSteps ==
  ASSUME swe \in Repairs, Repaired(swe),
         SweStarts \/ SweExplores \/ SweProposes \/ SweApplies \/ SweTests \/ SweCleans \/ SweCancelled
  PROVE swe' \in Repairs /\ Repaired(swe')
<1>1. CASE SweStarts
  <2>1. swe.pc = "idle" /\ swe.container = "none"
    BY <1>1 DEF SweStarts, Repaired
  <2>2. PICK at \in {"exploring", "returned"}, container \in {"none", "up"} :
          /\ swe' = [swe EXCEPT !.pc = at, !.container = container]
          /\ at = "returned" => container # "up"
    <3>1. CASE swe' = [swe EXCEPT !.pc = "returned"]
      <4>1. swe' = [swe EXCEPT !.pc = "returned", !.container = "none"]
        BY <2>1, <3>1 DEF Repairs
      <4> QED BY <4>1
    <3> QED BY <1>1, <3>1 DEF SweStarts
  <2>3. swe' \in Repairs
    BY <2>2 DEF Repairs, SwePcs
  <2>4. /\ swe'.pc = at /\ swe'.container = container /\ swe'.ok = swe.ok /\ swe'.iteration = swe.iteration
        /\ swe'.patch = swe.patch /\ swe'.torn = swe.torn /\ swe'.files = swe.files
    BY <2>2 DEF Repairs
  <2>5. Changed(swe') = Changed(swe)
    BY <2>4 DEF Changed
  <2>6. Repaired(swe')
    BY <2>1, <2>2, <2>4, <2>5 DEF Repaired, Repairs
  <2> QED BY <2>3, <2>6
<1>2. CASE SweExplores
  <2>1. PICK found \in SUBSET SweFiles :
          LET fresh == found \ swe.explored
              seen == IF fresh = {} THEN SweFiles ELSE fresh
          IN swe' = [swe EXCEPT !.pc = "proposing", !.iteration = @ + 1, !.explored = @ \cup seen]
    BY <1>2 DEF SweExplores
  <2>2. swe.iteration \in Nat /\ swe.explored \subseteq SweFiles
    BY DEF Repairs
  <2>3. PICK n \in Nat, seen \in SUBSET SweFiles :
          n = swe.iteration + 1 /\ swe' = [swe EXCEPT !.pc = "proposing", !.iteration = n, !.explored = seen]
    <3>1. PICK n \in Nat : n = swe.iteration + 1
      BY <2>2
    <3>2. PICK seen \in SUBSET SweFiles :
            seen = swe.explored \cup (IF found \ swe.explored = {} THEN SweFiles ELSE found \ swe.explored)
      BY <2>2
    <3>3. swe' = [swe EXCEPT !.pc = "proposing", !.iteration = n, !.explored = seen]
      BY <2>1, <3>1, <3>2
    <3> QED BY <3>1, <3>3
  <2>4. swe' \in Repairs
    BY <2>3 DEF Repairs, SwePcs
  <2>5. /\ swe'.pc = "proposing" /\ swe'.iteration = n /\ swe'.ok = swe.ok /\ swe'.patch = swe.patch
        /\ swe'.torn = swe.torn /\ swe'.files = swe.files
    BY <2>3 DEF Repairs
  <2>6. Changed(swe') = Changed(swe)
    BY <2>5 DEF Changed
  <2>7. n > 0 /\ (n = 1 => swe.iteration = 0)
    BY <2>2, <2>3, SMTT(30)
  <2>8. ~swe.ok
    BY <1>2 DEF SweExplores, Repaired
  <2>9. Repaired(swe')
    BY <2>5, <2>6, <2>7, <2>8 DEF Repaired
  <2> QED BY <2>4, <2>9, SMTT(30)
<1>3. CASE SweProposes
  <2>1. /\ swe.pc = "proposing" /\ ~swe.ok /\ swe.iteration > 0 /\ swe.patch.files \subseteq Changed(swe)
        /\ swe.iteration = 1 => Changed(swe) = {}
    BY <1>3 DEF SweProposes, Repaired
  <2>2. CASE swe' = AfterFailure(swe)
    BY <2>1, <2>2, FailedRepair
  <2>3. ASSUME NEW files \in SUBSET SweFiles,
               swe' = [swe EXCEPT !.pc = IF files = {} THEN "testing" ELSE "applying",
                                  !.proposed = files, !.todo = files]
        PROVE swe' \in Repairs /\ Repaired(swe')
    <3>1. PICK at \in {"testing", "applying"} : at = IF files = {} THEN "testing" ELSE "applying"
      OBVIOUS
    <3>2. swe' = [swe EXCEPT !.pc = at, !.proposed = files, !.todo = files]
      BY <2>3, <3>1
    <3>3. swe' \in Repairs
      BY <3>2 DEF Repairs, SwePcs
    <3>4. /\ swe'.pc = at /\ swe'.proposed = files /\ swe'.todo = files /\ swe'.ok = swe.ok
          /\ swe'.iteration = swe.iteration /\ swe'.patch = swe.patch /\ swe'.torn = swe.torn /\ swe'.files = swe.files
      BY <3>2 DEF Repairs
    <3>5. Changed(swe') = Changed(swe)
      BY <3>4 DEF Changed
    <3>6. swe.iteration \in Nat
      BY DEF Repairs
    <3>7. Repaired(swe')
      BY <2>1, <3>1, <3>4, <3>5, <3>6 DEF Repaired
    <3> QED BY <3>3, <3>7
  <2> QED BY <1>3, <2>2, <2>3 DEF SweProposes
<1>4. CASE SweApplies
  <2>1. /\ swe.pc = "applying" /\ ~swe.ok /\ swe.iteration > 0 /\ swe.patch.files \subseteq Changed(swe)
        /\ swe.todo \subseteq swe.proposed /\ swe.proposed \ swe.todo \subseteq Changed(swe)
        /\ swe.iteration = 1 => Changed(swe) \subseteq swe.proposed \ swe.todo
        /\ swe.iteration \in Nat /\ swe.todo \subseteq SweFiles /\ swe.proposed \subseteq SweFiles
    BY <1>4 DEF SweApplies, Repaired, Repairs
  <2>2. CASE swe' = AfterFailure([swe EXCEPT !.torn = TRUE, !.todo = {}])
    <3>1. PICK r : r = [swe EXCEPT !.torn = TRUE, !.todo = {}]
      OBVIOUS
    <3>2. r \in Repairs
      BY <3>1 DEF Repairs
    <3>3. r.ok = swe.ok /\ r.iteration = swe.iteration /\ r.patch = swe.patch /\ r.torn /\ r.files = swe.files
      BY <3>1 DEF Repairs
    <3>4. Changed(r) = Changed(swe)
      BY <3>3 DEF Changed
    <3>5. AfterFailure(r) \in Repairs /\ Repaired(AfterFailure(r))
      BY <2>1, <3>2, <3>3, <3>4, FailedRepair
    <3> QED BY <2>2, <3>1, <3>5
  <2>3. ASSUME NEW f \in swe.todo,
               LET s == [swe EXCEPT !.files[f] = swe.iteration, !.todo = @ \ {f}]
               IN swe' = IF s.todo # {} THEN s
                         ELSE [s EXCEPT !.pc = "testing",
                                        !.patch = [iteration |-> s.iteration, files |-> s.proposed]]
        PROVE swe' \in Repairs /\ Repaired(swe')
    <3>1. PICK files \in SweVersions, todo \in SUBSET SweFiles :
            files = [swe.files EXCEPT ![f] = swe.iteration] /\ todo = swe.todo \ {f}
      BY <2>1 DEF Repairs, SweVersions
    <3>2. PICK s : s = [swe EXCEPT !.files[f] = swe.iteration, !.todo = @ \ {f}]
      OBVIOUS
    <3>3. s = [swe EXCEPT !.files = files, !.todo = todo]
      BY <3>1, <3>2 DEF Repairs
    <3>4. s \in Repairs
      BY <3>3 DEF Repairs
    <3>5. /\ s.pc = "applying" /\ s.proposed = swe.proposed /\ s.todo = todo /\ s.ok = swe.ok
          /\ s.iteration = swe.iteration /\ s.patch = swe.patch /\ s.torn = swe.torn /\ s.files = files
      BY <2>1, <3>3 DEF Repairs
    <3>6. Changed(s) = Changed(swe) \cup {f}
      <4>1. \A g \in SweFiles : files[g] = IF g = f THEN swe.iteration ELSE swe.files[g]
        BY <2>1, <3>1 DEF Repairs, SweVersions
      <4> QED BY <2>1, <3>5, <4>1 DEF Changed
    <3>7. CASE todo # {}
      <4>1. swe' = s
        BY <2>3, <3>2, <3>5, <3>7
      <4>2. Repaired(s)
        BY <2>1, <3>1, <3>5, <3>6 DEF Repaired
      <4> QED BY <3>4, <4>1, <4>2
    <3>8. CASE todo = {}
      <4>1. PICK p \in [iteration : Nat, files : SUBSET SweFiles] : p = [iteration |-> s.iteration, files |-> s.proposed]
        BY <2>1, <3>5
      <4>2. swe' = [s EXCEPT !.pc = "testing", !.patch = p]
        BY <2>3, <3>2, <3>5, <3>8, <4>1
      <4>3. swe' \in Repairs
        BY <3>4, <4>2 DEF Repairs, SwePcs
      <4>4. /\ swe'.pc = "testing" /\ swe'.ok = swe.ok /\ swe'.iteration = swe.iteration
            /\ swe'.patch = p /\ swe'.torn = swe.torn /\ swe'.files = s.files
        BY <3>4, <3>5, <4>2 DEF Repairs
      <4>5. Changed(swe') = Changed(s) /\ p.files = swe.proposed
        BY <3>5, <4>1, <4>4 DEF Changed
      <4>6. p.files \subseteq Changed(s) /\ (swe.iteration = 1 => p.files = Changed(s)) /\ Changed(s) # {}
        BY <2>1, <3>1, <3>6, <3>8, <4>5
      <4>7. Repaired(swe')
        BY <2>1, <4>4, <4>5, <4>6 DEF Repaired
      <4> QED BY <4>3, <4>7
    <3> QED BY <3>7, <3>8
  <2> QED BY <1>4, <2>2, <2>3 DEF SweApplies
<1>5. CASE SweTests
  <2>1. /\ swe.pc = "testing" /\ ~swe.ok /\ swe.iteration > 0 /\ swe.patch.files \subseteq Changed(swe)
        /\ swe.iteration = 1 /\ ~swe.torn => swe.patch.files = Changed(swe)
    BY <1>5 DEF SweTests, Repaired
  <2>2. PICK s : s = [swe EXCEPT !.tested = swe.files]
    OBVIOUS
  <2>3. s \in Repairs
    BY <2>2 DEF Repairs
  <2>4. /\ s.ok = swe.ok /\ s.iteration = swe.iteration /\ s.patch = swe.patch /\ s.torn = swe.torn
        /\ s.files = swe.files /\ s.tested = swe.files
    BY <2>2 DEF Repairs
  <2>5. Changed(s) = Changed(swe)
    BY <2>4 DEF Changed
  <2>6. CASE swe' = AfterFailure(s)
    <3>1. AfterFailure(s) \in Repairs /\ Repaired(AfterFailure(s))
      BY <2>1, <2>3, <2>4, <2>5, FailedRepair
    <3> QED BY <2>6, <3>1
  <2>7. CASE swe' = [s EXCEPT !.pc = "cleaning", !.ok = TRUE]
    <3>1. swe' \in Repairs
      BY <2>3, <2>7 DEF Repairs, SwePcs
    <3>2. /\ swe'.pc = "cleaning" /\ swe'.iteration = s.iteration /\ swe'.patch = s.patch /\ swe'.torn = s.torn
          /\ swe'.files = s.files /\ swe'.tested = s.tested
      BY <2>3, <2>7 DEF Repairs
    <3>3. Changed(swe') = Changed(s)
      BY <3>2 DEF Changed
    <3>4. Repaired(swe')
      BY <2>1, <2>4, <2>5, <3>2, <3>3 DEF Repaired
    <3> QED BY <3>1, <3>4
  <2> QED BY <1>5, <2>2, <2>6, <2>7 DEF SweTests
<1>6. CASE SweCleans
  <2>1. swe.pc = "cleaning" /\ swe.container \in {"none", "up", "left"}
    BY <1>6 DEF SweCleans, Repairs
  <2>2. PICK container \in {"none", "left"} : swe' = [swe EXCEPT !.pc = "returned", !.container = container]
    BY <1>6, <2>1 DEF SweCleans
  <2>3. swe' \in Repairs
    BY <2>2 DEF Repairs, SwePcs
  <2>4. /\ swe'.pc = "returned" /\ swe'.container = container /\ swe'.ok = swe.ok /\ swe'.iteration = swe.iteration
        /\ swe'.patch = swe.patch /\ swe'.torn = swe.torn /\ swe'.files = swe.files /\ swe'.tested = swe.tested
    BY <2>2 DEF Repairs
  <2>5. Changed(swe') = Changed(swe)
    BY <2>4 DEF Changed
  <2>6. Repaired(swe')
    BY <2>1, <2>2, <2>4, <2>5 DEF Repaired
  <2> QED BY <2>3, <2>6
<1>7. CASE SweCancelled
  <2>1. swe.pc \in {"exploring", "proposing", "applying", "testing"} /\ swe.container \in {"none", "up", "left"}
    BY <1>7 DEF SweCancelled, Repairs
  <2>2. PICK container \in {"none", "left"} : swe' = [swe EXCEPT !.pc = "cancelled", !.container = container]
    BY <1>7, <2>1 DEF SweCancelled
  <2>3. swe' \in Repairs
    BY <2>2 DEF Repairs, SwePcs
  <2>4. /\ swe'.pc = "cancelled" /\ swe'.ok = swe.ok /\ swe'.iteration = swe.iteration
        /\ swe'.patch = swe.patch /\ swe'.torn = swe.torn /\ swe'.files = swe.files
    BY <2>2 DEF Repairs
  <2>5. Changed(swe') = Changed(swe)
    BY <2>4 DEF Changed
  <2>6. Repaired(swe')
    BY <2>1, <2>4, <2>5 DEF Repaired
  <2> QED BY <2>3, <2>6
<1> QED BY <1>1, <1>2, <1>3, <1>4, <1>5, <1>6, <1>7

\* Every step of the Agent.
LEMMA ScriptSteps ==
  ASSUME ScriptInv, ScriptGenerated \/ ScriptExecuted
  PROVE ScriptInv'
<1>1. /\ script.attempt \in Nat /\ script.ran \in Nat /\ script.ran = script.attempt
      /\ script.pc \in {"generating", "executing"}
  BY DEF ScriptInv, Scripts, ScriptGenerated, ScriptExecuted
<1>2. CASE ScriptGenerated
  <2>1. CASE script' = [script EXCEPT !.pc = "executing"]
    <3>1. script' \in Scripts /\ script'.pc = "executing" /\ script'.ran = script.ran /\ script'.attempt = script.attempt
      BY <2>1 DEF ScriptInv, Scripts
    <3> QED BY <1>1, <3>1 DEF ScriptInv, ScriptSound
  <2>2. CASE script' = [script EXCEPT !.pc = "ended",
                                      !.result = [ok |-> FALSE, code |-> 0, iterations |-> script.attempt]]
    <3>1. PICK res \in [ok : BOOLEAN, code : Nat, iterations : Nat] :
            res = [ok |-> FALSE, code |-> 0, iterations |-> script.attempt]
      BY <1>1
    <3>2. script' = [script EXCEPT !.pc = "ended", !.result = res]
      BY <2>2, <3>1
    <3>3. script' \in Scripts /\ script'.pc = "ended" /\ script'.ran = script.ran /\ script'.result = res
      BY <3>2 DEF ScriptInv, Scripts
    <3> QED BY <1>1, <3>1, <3>3 DEF ScriptInv, ScriptSound
  <2> QED BY <1>2, <2>1, <2>2 DEF ScriptGenerated
<1>3. CASE ScriptExecuted
  <2>1. PICK n \in Nat : n = script.attempt + 1 /\ n = script.ran + 1
    BY <1>1
  <2>2. \/ script' = [[script EXCEPT !.ran = @ + 1] EXCEPT
                        !.pc = "ended", !.passed = n, !.result = [ok |-> TRUE, code |-> n, iterations |-> n]]
        \/ script' = [[script EXCEPT !.ran = @ + 1] EXCEPT !.pc = "generating", !.attempt = n]
        \/ script' = [[script EXCEPT !.ran = @ + 1] EXCEPT
                        !.pc = "ended", !.result = [ok |-> FALSE, code |-> n, iterations |-> n]]
    BY <1>3, <2>1 DEF ScriptExecuted
  <2>3. PICK s : s = [script EXCEPT !.ran = n]
    OBVIOUS
  <2>4. s \in Scripts /\ s.ran = n
    BY <2>3 DEF ScriptInv, Scripts
  <2>5. [script EXCEPT !.ran = @ + 1] = s
    BY <2>1, <2>3
  <2>6. CASE script' = [s EXCEPT !.pc = "ended", !.passed = n, !.result = [ok |-> TRUE, code |-> n, iterations |-> n]]
    <3>1. PICK res \in [ok : BOOLEAN, code : Nat, iterations : Nat] : res = [ok |-> TRUE, code |-> n, iterations |-> n]
      OBVIOUS
    <3>2. script' = [s EXCEPT !.pc = "ended", !.passed = n, !.result = res]
      BY <2>6, <3>1
    <3>3. script' \in Scripts /\ script'.pc = "ended" /\ script'.ran = n /\ script'.passed = n /\ script'.result = res
      BY <2>4, <3>2 DEF Scripts
    <3> QED BY <3>1, <3>3 DEF ScriptInv, ScriptSound
  <2>7. CASE script' = [s EXCEPT !.pc = "generating", !.attempt = n]
    <3>1. script' \in Scripts /\ script'.pc = "generating" /\ script'.ran = n /\ script'.attempt = n
      BY <2>4, <2>7 DEF Scripts
    <3> QED BY <3>1 DEF ScriptInv, ScriptSound
  <2>8. CASE script' = [s EXCEPT !.pc = "ended", !.result = [ok |-> FALSE, code |-> n, iterations |-> n]]
    <3>1. PICK res \in [ok : BOOLEAN, code : Nat, iterations : Nat] : res = [ok |-> FALSE, code |-> n, iterations |-> n]
      OBVIOUS
    <3>2. script' = [s EXCEPT !.pc = "ended", !.result = res]
      BY <2>8, <3>1
    <3>3. script' \in Scripts /\ script'.pc = "ended" /\ script'.ran = n /\ script'.result = res
      BY <2>4, <3>2 DEF Scripts
    <3> QED BY <3>1, <3>3 DEF ScriptInv, ScriptSound
  <2> QED BY <2>2, <2>5, <2>6, <2>7, <2>8
<1> QED BY <1>2, <1>3

-----------------------------------------------------------------------------
(* The steps of a TaskRunner.                                               *)

\* The runner goes on with these places and counts.
Moves(at, place, attempt, runs, threads) ==
  tasks' = [tasks EXCEPT !.pc = at, !.place = place, !.attempt = attempt, !.runs = runs, !.threads = threads]

LEMMA RunnerBecomes ==
  ASSUME StepsTyped,
         NEW at \in {"off", "looking", "ended"}, NEW place \in [Steps -> StepPlaces], NEW attempt \in [Steps -> Nat],
         NEW runs \in [Steps -> Nat], NEW threads \in [Steps -> Nat],
         Moves(at, place, attempt, runs, threads)
  PROVE /\ StepsTyped' /\ Steps' = Steps
        /\ tasks'.pc = at /\ tasks'.deps = tasks.deps /\ tasks'.blocking = tasks.blocking
        /\ tasks'.place = place /\ tasks'.attempt = attempt /\ tasks'.runs = runs /\ tasks'.threads = threads
<1>1. PICK D : D = Steps
  OBVIOUS
<1>2. tasks \in [pc : {"off", "looking", "ended"}, deps : StepGraphs \cup {<<>>}, place : [D -> StepPlaces],
                 attempt : [D -> Nat], runs : [D -> Nat], threads : [D -> Nat], blocking : [D -> BOOLEAN]]
  BY <1>1 DEF StepsTyped
<1>3. tasks' \in [pc : {"off", "looking", "ended"}, deps : StepGraphs \cup {<<>>}, place : [D -> StepPlaces],
                  attempt : [D -> Nat], runs : [D -> Nat], threads : [D -> Nat], blocking : [D -> BOOLEAN]]
  BY <1>1, <1>2 DEF Moves
<1>4. /\ tasks'.pc = at /\ tasks'.deps = tasks.deps /\ tasks'.blocking = tasks.blocking
      /\ tasks'.place = place /\ tasks'.attempt = attempt /\ tasks'.runs = runs /\ tasks'.threads = threads
  BY <1>2 DEF Moves
<1>5. Steps' = D
  BY <1>1, <1>4 DEF Steps
<1>6. StepsTyped'
  BY <1>1, <1>3, <1>5 DEF StepsTyped
<1> QED BY <1>1, <1>4, <1>5, <1>6

\* A step of the graph that goes on, or whose thread ends.
LEMMA OneStep ==
  ASSUME StepsInv, NEW s \in Steps, NEW v \in StepPlaces, NEW a \in Nat, NEW n \in Nat, NEW k \in Nat,
         v = tasks.place[s] \/ (s \in InWave /\ v # "waiting"),
         v = "running" => tasks.place[s] = "running" \/ Cardinality(Holding) < StepWidth,
         Counts(v, a, n, k, tasks.blocking[s]),
         Moves(tasks.pc, [tasks.place EXCEPT ![s] = v], [tasks.attempt EXCEPT ![s] = a],
               [tasks.runs EXCEPT ![s] = n], [tasks.threads EXCEPT ![s] = k])
  PROVE StepsInv'
<1>1. /\ tasks.pc \in {"off", "looking", "ended"}
      /\ tasks.place \in [Steps -> StepPlaces] /\ tasks.attempt \in [Steps -> Nat]
      /\ tasks.runs \in [Steps -> Nat] /\ tasks.threads \in [Steps -> Nat]
  BY DEF StepsInv, StepsTyped
<1>a. PICK place \in [Steps -> StepPlaces] : place = [tasks.place EXCEPT ![s] = v]
  BY <1>1
<1>b. PICK attempt \in [Steps -> Nat] : attempt = [tasks.attempt EXCEPT ![s] = a]
  BY <1>1
<1>c. PICK runs \in [Steps -> Nat] : runs = [tasks.runs EXCEPT ![s] = n]
  BY <1>1
<1>d. PICK threads \in [Steps -> Nat] : threads = [tasks.threads EXCEPT ![s] = k]
  BY <1>1
<1>e. Moves(tasks.pc, place, attempt, runs, threads)
  BY <1>a, <1>b, <1>c, <1>d
<1>2. /\ StepsTyped' /\ Steps' = Steps
      /\ tasks'.pc = tasks.pc /\ tasks'.deps = tasks.deps /\ tasks'.blocking = tasks.blocking
      /\ tasks'.place = place /\ tasks'.attempt = attempt /\ tasks'.runs = runs /\ tasks'.threads = threads
  <2>1. StepsTyped
    BY DEF StepsInv
  <2> QED BY <1>1, <1>e, <2>1, RunnerBecomes, SMTT(60)
<1>3. place[s] = v /\ attempt[s] = a /\ runs[s] = n /\ threads[s] = k
  BY <1>1, <1>a, <1>b, <1>c, <1>d
<1>4. \A x \in Steps : x # s => /\ place[x] = tasks.place[x] /\ attempt[x] = tasks.attempt[x]
                                /\ runs[x] = tasks.runs[x] /\ threads[x] = tasks.threads[x]
  BY <1>1, <1>a, <1>b, <1>c, <1>d
<1>5. \A x \in Steps' : Counted(x)'
  <2>1. ASSUME NEW x \in Steps, x # s PROVE Counted(x)'
    <3>1. Counted(x)
      BY DEF StepsInv
    <3> QED BY <1>2, <1>4, <2>1, <3>1 DEF Counted
  <2>2. Counted(s)'
    BY <1>2, <1>3 DEF Counted
  <2> QED BY <1>2, <2>1, <2>2
<1>6. Over \subseteq Over' /\ InWave' \cup Over' = InWave \cup Over
  <2>1. v # tasks.place[s] => s \in InWave /\ v \in {"queued", "running", "pausing", "passed", "failed"}
    BY DEF StepPlaces
  <2>2. ASSUME NEW x \in Steps PROVE /\ x \in Over => x \in Over'
                                     /\ x \in InWave' \cup Over' <=> x \in InWave \cup Over
    <3>1. CASE x # s
      BY <1>2, <1>4, <3>1 DEF Over, InWave
    <3>2. CASE x = s
      BY <1>2, <1>3, <2>1, <3>2 DEF Over, InWave
    <3> QED BY <3>1, <3>2
  <2> QED BY <1>2, <2>2 DEF Over, InWave
<1>7. (Cardinality(Holding) <= StepWidth)'
  <2>1. IsFiniteSet(Holding) /\ Cardinality(Holding) \in Nat /\ Cardinality(Holding) <= StepWidth /\ StepWidth \in Nat
    <3>1. IsFiniteSet(Steps) /\ Holding \subseteq Steps
      BY DEF StepsInv, StepsTyped, Holding
    <3>2. IsFiniteSet(Holding)
      BY <3>1, FS_Subset
    <3> QED BY <3>2, FS_CardinalityType, AgentsAssumption DEF StepsInv
  <2>2. CASE v = "running" /\ tasks.place[s] # "running"
    <3>1. Holding' = Holding \cup {s} /\ s \notin Holding
      BY <1>2, <1>3, <1>4, <2>2 DEF Holding
    <3>2. Cardinality(Holding') = Cardinality(Holding) + 1
      BY <2>1, <3>1, FS_AddElement
    <3> QED BY <2>1, <2>2, <3>2
  <2>3. CASE ~(v = "running" /\ tasks.place[s] # "running")
    <3>1. Holding' \subseteq Holding
      BY <1>2, <1>3, <1>4, <2>3 DEF Holding
    <3>2. PICK H : H = Holding'
      OBVIOUS
    <3>3. IsFiniteSet(H) /\ Cardinality(H) <= Cardinality(Holding)
      BY <2>1, <3>1, <3>2, FS_Subset
    <3>4. Cardinality(H) \in Nat
      BY <3>3, FS_CardinalityType
    <3>5. Cardinality(H) <= StepWidth
      BY <2>1, <3>3, <3>4
    <3> QED BY <3>2, <3>5
  <2> QED BY <2>2, <2>3
<1>8. (\A x \in InWave \cup Over : tasks.deps[x] \subseteq Over)'
  <2>1. \A x \in InWave \cup Over : tasks.deps[x] \subseteq Over
    BY DEF StepsInv
  <2> QED BY <1>2, <1>6, <2>1
<1>9. (\A U \in SUBSET Steps : Blocked(U) => U \cap (InWave \cup Over) = {})'
  <2>1. \A U : Blocked(U)' <=> Blocked(U)
    BY <1>2 DEF Blocked
  <2>2. \A U \in SUBSET Steps : Blocked(U) => U \cap (InWave \cup Over) = {}
    BY DEF StepsInv
  <2> QED BY <1>2, <1>6, <2>1, <2>2
<1>10. (tasks.pc = "ended" => InWave = {} /\ (Over = Steps \/ Ready(Over) = {}))'
  <2> SUFFICES ASSUME tasks.pc = "ended" PROVE (InWave = {} /\ (Over = Steps \/ Ready(Over) = {}))'
    BY <1>2
  <2>1. InWave = {} /\ (Over = Steps \/ Ready(Over) = {})
    BY DEF StepsInv
  <2>2. place = tasks.place
    BY <1>1, <1>a, <2>1
  <2>3. InWave' = InWave /\ Over' = Over
    BY <1>2, <2>2 DEF InWave, Over
  <2>4. Ready(Over)' = Ready(Over)
    BY <1>2, <2>3 DEF Ready
  <2> QED BY <1>2, <2>1, <2>3, <2>4
<1> QED BY <1>2, <1>5, <1>7, <1>8, <1>9, <1>10 DEF StepsInv

LEMMA WaveStep ==
  ASSUME StepsInv, WaveBegins
  PROVE StepsInv'
<1>1. /\ tasks.pc = "looking" /\ InWave = {}
      /\ tasks.place \in [Steps -> StepPlaces] /\ tasks.attempt \in [Steps -> Nat]
      /\ tasks.runs \in [Steps -> Nat] /\ tasks.threads \in [Steps -> Nat]
  BY DEF StepsInv, StepsTyped, WaveBegins
<1>2. PICK at \in {"looking", "ended"}, place \in [Steps -> StepPlaces] :
        /\ Moves(at, place, tasks.attempt, tasks.runs, tasks.threads)
        /\ at = "ended" => (Over = Steps \/ Ready(Over) = {}) /\ place = tasks.place
        /\ at = "looking" => place = [s \in Steps |-> IF s \in Ready(Over) THEN "queued" ELSE tasks.place[s]]
  <2>1. CASE Over = Steps \/ Ready(Over) = {}
    <3>1. tasks' = [tasks EXCEPT !.pc = "ended"]
      BY <2>1 DEF WaveBegins
    <3>2. Moves("ended", tasks.place, tasks.attempt, tasks.runs, tasks.threads)
      BY <3>1 DEF Moves, StepsInv, StepsTyped
    <3> QED BY <1>1, <2>1, <3>2
  <2>2. CASE ~(Over = Steps \/ Ready(Over) = {})
    <3>1. PICK place \in [Steps -> StepPlaces] :
            place = [s \in Steps |-> IF s \in Ready(Over) THEN "queued" ELSE tasks.place[s]]
      BY <1>1 DEF StepPlaces
    <3>2. tasks' = [tasks EXCEPT !.place = place]
      BY <2>2, <3>1 DEF WaveBegins
    <3>3. Moves("looking", place, tasks.attempt, tasks.runs, tasks.threads)
      BY <1>1, <3>2 DEF Moves, StepsInv, StepsTyped
    <3> QED BY <3>1, <3>3
  <2> QED BY <2>1, <2>2
<1>3. /\ StepsTyped' /\ Steps' = Steps
      /\ tasks'.pc = at /\ tasks'.deps = tasks.deps /\ tasks'.blocking = tasks.blocking
      /\ tasks'.place = place /\ tasks'.attempt = tasks.attempt
      /\ tasks'.runs = tasks.runs /\ tasks'.threads = tasks.threads
  BY <1>1, <1>2, RunnerBecomes DEF StepsInv
<1>4. \A U : Blocked(U)' <=> Blocked(U)
  BY <1>3 DEF Blocked
<1>5. CASE at = "ended"
  <2>1. InWave' = InWave /\ Over' = Over /\ Holding' = Holding
    BY <1>2, <1>3, <1>5 DEF InWave, Over, Holding
  <2>2. Ready(Over)' = Ready(Over)
    BY <1>3, <2>1 DEF Ready
  <2>3. \A x \in Steps' : Counted(x)'
    BY <1>2, <1>3, <1>5 DEF Counted, StepsInv
  <2> QED BY <1>1, <1>2, <1>3, <1>4, <1>5, <2>1, <2>2, <2>3 DEF StepsInv
<1>6. CASE at = "looking"
  <2>1. \A x \in Steps : place[x] = IF x \in Ready(Over) THEN "queued" ELSE tasks.place[x]
    BY <1>2, <1>6
  <2>2. \A x \in Ready(Over) : tasks.place[x] = "waiting" /\ x \in Steps /\ tasks.deps[x] \subseteq Over
    BY <1>1 DEF Ready, Over, InWave, StepPlaces
  <2>3. Over' = Over /\ InWave' = Ready(Over) /\ Holding' = {}
    BY <1>1, <1>3, <2>1, <2>2 DEF Over, InWave, Holding
  <2>4. ASSUME NEW x \in Steps PROVE Counted(x)'
    <3>1. Counted(x)
      BY DEF StepsInv
    <3>2. CASE x \in Ready(Over)
      <4>1. PICK a \in Nat, n \in Nat, k \in Nat : a = tasks.attempt[x] /\ n = tasks.runs[x] /\ k = tasks.threads[x]
        BY <1>1
      <4>2. Counts("waiting", a, n, k, tasks.blocking[x]) /\ a = 0
        BY <2>2, <3>1, <3>2, <4>1 DEF Counted, Counts
      <4>3. Counts("queued", a, n, k, tasks.blocking[x])
        BY <4>2 DEF Counts
      <4> QED BY <1>3, <2>1, <3>2, <4>1, <4>3 DEF Counted
    <3>3. CASE x \notin Ready(Over)
      BY <1>3, <2>1, <3>1, <3>3 DEF Counted
    <3> QED BY <3>2, <3>3
  <2>5. (Cardinality(Holding) <= StepWidth)'
    BY <2>3, FS_EmptySet, AgentsAssumption
  <2>6. \A x \in Over : tasks.deps[x] \subseteq Over
    BY DEF StepsInv
  <2>7. ASSUME NEW U \in SUBSET Steps, Blocked(U) PROVE U \cap (Ready(Over) \cup Over) = {}
    <3>1. U \cap Over = {}
      BY <2>7 DEF StepsInv
    <3>2. ASSUME NEW x \in U, x \in Ready(Over) PROVE FALSE
      <4>1. tasks.deps[x] \cap U = {} /\ tasks.deps[x] \subseteq Steps
        BY <2>2, <3>1, <3>2 DEF Over
      <4> QED BY <2>7, <4>1 DEF Blocked
    <3> QED BY <3>1, <3>2
  <2>8. (\A x \in InWave \cup Over : tasks.deps[x] \subseteq Over)'
    BY <1>3, <2>2, <2>3, <2>6
  <2>9. (\A U \in SUBSET Steps : Blocked(U) => U \cap (InWave \cup Over) = {})'
    BY <1>3, <1>4, <2>3, <2>7
  <2> QED BY <1>3, <1>6, <2>4, <2>5, <2>8, <2>9 DEF StepsInv
<1> QED BY <1>2, <1>5, <1>6

\* Every step of the TaskRunner.
LEMMA RunnerSteps ==
  ASSUME StepsInv, WaveBegins \/ \E s \in Steps : StepRuns(s) \/ StepEnds(s) \/ PauseOver(s) \/ ThreadEnds(s)
  PROVE StepsInv'
<1>1. CASE WaveBegins
  BY <1>1, WaveStep
<1>2. ASSUME NEW s \in Steps, StepRuns(s) \/ StepEnds(s) \/ PauseOver(s) \/ ThreadEnds(s) PROVE StepsInv'
  <2>1. /\ tasks.place \in [Steps -> StepPlaces] /\ tasks.attempt \in [Steps -> Nat]
        /\ tasks.runs \in [Steps -> Nat] /\ tasks.threads \in [Steps -> Nat] /\ tasks.blocking[s] \in BOOLEAN
    BY DEF StepsInv, StepsTyped
  <2>2. PICK v \in StepPlaces, a \in Nat, n \in Nat, k \in Nat :
          v = tasks.place[s] /\ a = tasks.attempt[s] /\ n = tasks.runs[s] /\ k = tasks.threads[s]
    BY <2>1
  <2>3. Counts(v, a, n, k, tasks.blocking[s])
    BY <2>2 DEF StepsInv, Counted
  <2>4. /\ [tasks.place EXCEPT ![s] = v] = tasks.place /\ [tasks.attempt EXCEPT ![s] = a] = tasks.attempt
        /\ [tasks.runs EXCEPT ![s] = n] = tasks.runs /\ [tasks.threads EXCEPT ![s] = k] = tasks.threads
    BY <2>1, <2>2
  <2>5. CASE StepRuns(s)
    <3>1. v = "queued" /\ Cardinality(Holding) < StepWidth /\ s \in InWave
      BY <2>2, <2>5 DEF StepRuns, InWave
    <3>2. PICK m \in Nat : m = n + 1
      OBVIOUS
    <3>3. Counts("running", a, m, k, tasks.blocking[s])
      BY <2>3, <3>1, <3>2 DEF Counts
    <3>4. tasks' = [tasks EXCEPT !.place = [tasks.place EXCEPT ![s] = "running"], !.runs = [tasks.runs EXCEPT ![s] = m]]
      BY <2>2, <2>5, <3>2 DEF StepRuns, StepsInv, StepsTyped
    <3>5. Moves(tasks.pc, [tasks.place EXCEPT ![s] = "running"], [tasks.attempt EXCEPT ![s] = a],
                [tasks.runs EXCEPT ![s] = m], [tasks.threads EXCEPT ![s] = k])
      BY <2>4, <3>4 DEF Moves, StepsInv, StepsTyped
    <3>6. "running" \in StepPlaces
      BY DEF StepPlaces
    <3> QED BY <3>1, <3>3, <3>5, <3>6, OneStep
  <2>6. CASE StepEnds(s)
    <3>1. PICK outcome \in {"passed", "failed", "timeout"} :
            LET place == CASE outcome = "passed" -> "passed"
                           [] outcome # "passed" /\ tasks.attempt[s] < StepRetries -> "pausing"
                           [] OTHER -> "failed"
                left == IF outcome = "timeout" /\ tasks.blocking[s] THEN 1 ELSE 0
            IN tasks' = [tasks EXCEPT !.place[s] = place, !.threads[s] = @ + left]
      BY <2>6 DEF StepEnds
    <3>2. v = "running" /\ s \in InWave
      BY <2>2, <2>6 DEF StepEnds, InWave
    <3>3. PICK place \in {"passed", "failed", "pausing"} :
            /\ place = (CASE outcome = "passed" -> "passed"
                          [] outcome # "passed" /\ tasks.attempt[s] < StepRetries -> "pausing"
                          [] OTHER -> "failed")
            /\ place = "pausing" => a < StepRetries
      BY <2>2
    <3>4. PICK left \in {0, 1} : /\ left = IF outcome = "timeout" /\ tasks.blocking[s] THEN 1 ELSE 0
                                 /\ left > 0 => tasks.blocking[s] = TRUE
      OBVIOUS
    <3>5. PICK j \in Nat : j = k + left
      OBVIOUS
    <3>6. Counts(place, a, n, j, tasks.blocking[s])
      BY <2>3, <3>2, <3>3, <3>4, <3>5 DEF Counts
    <3>7. tasks' = [tasks EXCEPT !.place = [tasks.place EXCEPT ![s] = place], !.threads = [tasks.threads EXCEPT ![s] = j]]
      BY <2>2, <3>1, <3>3, <3>4, <3>5 DEF StepsInv, StepsTyped
    <3>8. Moves(tasks.pc, [tasks.place EXCEPT ![s] = place], [tasks.attempt EXCEPT ![s] = a],
                [tasks.runs EXCEPT ![s] = n], [tasks.threads EXCEPT ![s] = j])
      BY <2>4, <3>7 DEF Moves, StepsInv, StepsTyped
    <3>9. place \in StepPlaces /\ place # "running" /\ place # "waiting"
      BY <3>3 DEF StepPlaces
    <3> QED BY <3>2, <3>6, <3>8, <3>9, OneStep
  <2>7. CASE PauseOver(s)
    <3>1. v = "pausing" /\ s \in InWave
      BY <2>2, <2>7 DEF PauseOver, InWave
    <3>2. PICK m \in Nat : m = a + 1
      OBVIOUS
    <3>3. Counts("queued", m, n, k, tasks.blocking[s])
      BY <2>3, <3>1, <3>2, AgentsAssumption DEF Counts
    <3>4. tasks' = [tasks EXCEPT !.place = [tasks.place EXCEPT ![s] = "queued"], !.attempt = [tasks.attempt EXCEPT ![s] = m]]
      BY <2>2, <2>7, <3>2 DEF PauseOver, StepsInv, StepsTyped
    <3>5. Moves(tasks.pc, [tasks.place EXCEPT ![s] = "queued"], [tasks.attempt EXCEPT ![s] = m],
                [tasks.runs EXCEPT ![s] = n], [tasks.threads EXCEPT ![s] = k])
      BY <2>4, <3>4 DEF Moves, StepsInv, StepsTyped
    <3>6. "queued" \in StepPlaces
      BY DEF StepPlaces
    <3> QED BY <3>1, <3>3, <3>5, <3>6, OneStep
  <2>8. CASE ThreadEnds(s)
    <3>1. k > 0
      BY <2>2, <2>8 DEF ThreadEnds
    <3>2. PICK m \in Nat : m = k - 1
      BY <3>1
    <3>3. Counts(v, a, n, m, tasks.blocking[s])
      <4>1. m <= k /\ (m > 0 => k > 0)
        BY <3>2
      <4>2. n \in Int /\ n - (IF v = "running" THEN 1 ELSE 0) \in Int
        OBVIOUS
      <4> QED BY <2>3, <4>1, <4>2 DEF Counts
    <3>4. tasks' = [tasks EXCEPT !.threads = [tasks.threads EXCEPT ![s] = m]]
      BY <2>2, <2>8, <3>2 DEF ThreadEnds, StepsInv, StepsTyped
    <3>5. Moves(tasks.pc, [tasks.place EXCEPT ![s] = v], [tasks.attempt EXCEPT ![s] = a],
                [tasks.runs EXCEPT ![s] = n], [tasks.threads EXCEPT ![s] = m])
      BY <2>4, <3>4 DEF Moves, StepsInv, StepsTyped
    <3> QED BY <2>2, <3>3, <3>5, OneStep
  <2> QED BY <1>2, <2>5, <2>6, <2>7, <2>8
<1> QED BY <1>1, <1>2

LEMMA NewRunner ==
  ASSUME NEW at \in {"off", "looking"}, NEW deps \in StepGraphs \cup {<<>>}, NEW blocks \in [DOMAIN deps -> BOOLEAN],
         tasks = [pc |-> at, deps |-> deps, place |-> [s \in DOMAIN deps |-> "waiting"],
                  attempt |-> [s \in DOMAIN deps |-> 0], runs |-> [s \in DOMAIN deps |-> 0],
                  threads |-> [s \in DOMAIN deps |-> 0], blocking |-> blocks]
  PROVE StepsInv
<1>1. IsFiniteSet(DOMAIN deps)
  <2>1. DOMAIN <<>> = {}
    OBVIOUS
  <2> QED BY <2>1, FS_EmptySet, AgentsAssumption
<1>2. PICK D : D = DOMAIN deps
  OBVIOUS
<1>3. tasks = [pc |-> at, deps |-> deps, place |-> [s \in D |-> "waiting"], attempt |-> [s \in D |-> 0],
               runs |-> [s \in D |-> 0], threads |-> [s \in D |-> 0], blocking |-> blocks]
  BY <1>2
<1>4. Steps = D
  BY <1>2, <1>3 DEF Steps
<1>5. tasks \in [pc : {"off", "looking", "ended"}, deps : StepGraphs \cup {<<>>}, place : [D -> StepPlaces],
                 attempt : [D -> Nat], runs : [D -> Nat], threads : [D -> Nat], blocking : [D -> BOOLEAN]]
  <2>1. PICK place \in [D -> StepPlaces] : place = [s \in D |-> "waiting"]
    BY DEF StepPlaces
  <2>2. PICK zero \in [D -> Nat] : zero = [s \in D |-> 0]
    OBVIOUS
  <2>3. tasks = [pc |-> at, deps |-> deps, place |-> place, attempt |-> zero, runs |-> zero, threads |-> zero,
                 blocking |-> blocks]
    BY <1>3, <2>1, <2>2
  <2>4. blocks \in [D -> BOOLEAN]
    BY <1>2
  <2> QED BY <2>3, <2>4
<1>6. StepsTyped
  BY <1>1, <1>2, <1>4, <1>5 DEF StepsTyped
<1>7. \A s \in Steps : tasks.place[s] = "waiting" /\ tasks.attempt[s] = 0 /\ tasks.runs[s] = 0 /\ tasks.threads[s] = 0
  BY <1>3, <1>4
<1>8. Over = {} /\ InWave = {} /\ Holding = {}
  BY <1>7 DEF Over, InWave, Holding
<1>9. ASSUME NEW s \in Steps PROVE Counted(s)
  BY <1>7, AgentsAssumption DEF Counted, Counts
<1>10. Cardinality(Holding) <= StepWidth
  BY <1>8, FS_EmptySet, AgentsAssumption
<1>11. tasks.pc # "ended"
  BY <1>3
<1> QED BY <1>6, <1>8, <1>9, <1>10, <1>11 DEF StepsInv

LEMMA NewScriptIsSound ==
  ASSUME NEW at \in {"off", "generating"}, script = NewScript(at)
  PROVE ScriptInv
<1>1. PICK res \in [ok : BOOLEAN, code : Nat, iterations : Nat] : res = [ok |-> FALSE, code |-> 0, iterations |-> 0]
  OBVIOUS
<1>2. script = [pc |-> at, attempt |-> 0, ran |-> 0, passed |-> 0, result |-> res]
  BY <1>1 DEF NewScript
<1>3. script \in Scripts /\ script.pc = at /\ script.ran = 0 /\ script.attempt = 0
  BY <1>2 DEF Scripts
<1> QED BY <1>3 DEF ScriptInv, ScriptSound

\* The steps of another agent.
LEMMA TasksStay ==
  ASSUME StepsInv, tasks' = tasks
  PROVE StepsInv'
<1>1. Steps' = Steps /\ Over' = Over /\ InWave' = InWave /\ Holding' = Holding
  BY DEF Steps, Over, InWave, Holding
<1>2. Ready(Over)' = Ready(Over) /\ \A U : Blocked(U)' <=> Blocked(U)
  BY <1>1 DEF Ready, Blocked, Steps
<1>3. \A s : Counted(s)' <=> Counted(s)
  BY DEF Counted
<1>4. StepsTyped'
  BY <1>1 DEF StepsInv, StepsTyped
<1> QED BY <1>1, <1>2, <1>3, <1>4 DEF StepsInv

LEMMA ScriptStays ==
  ASSUME ScriptInv, script' = script
  PROVE ScriptInv'
BY DEF ScriptInv, ScriptSound

\* A runner that is not used has no steps.
LEMMA NoSteps ==
  ASSUME tasks = NewTasks("off", <<>>)
  PROVE StepsInv
<1>1. PICK deps \in StepGraphs \cup {<<>>} : deps = <<>>
  OBVIOUS
<1>2. PICK blocks \in [DOMAIN deps -> BOOLEAN] : blocks = [s \in DOMAIN deps |-> FALSE]
  OBVIOUS
<1>3. tasks = [pc |-> "off", deps |-> deps, place |-> [s \in DOMAIN deps |-> "waiting"],
               attempt |-> [s \in DOMAIN deps |-> 0], runs |-> [s \in DOMAIN deps |-> 0],
               threads |-> [s \in DOMAIN deps |-> 0], blocking |-> blocks]
  BY <1>1, <1>2 DEF NewTasks
<1> QED BY <1>3, NewRunner

LEMMA AgentsStart == AgentsInit => AgentsInv
<1> SUFFICES ASSUME AgentsInit PROVE AgentsInv
  OBVIOUS
<1>1. swe \in Repairs /\ Repaired(swe)
  BY NewRepair DEF AgentsInit
<1>2. ScriptInv
  BY NewScriptIsSound DEF AgentsInit
<1>3. StepsInv
  <2>1. CASE tasks = NewTasks("off", <<>>)
    BY <2>1, NoSteps
  <2>2. ASSUME NEW deps \in StepGraphs, NEW blocks \in [DOMAIN deps -> BOOLEAN],
               tasks = [NewTasks("looking", deps) EXCEPT !.blocking = blocks]
        PROVE StepsInv
    <3>1. tasks = [pc |-> "looking", deps |-> deps, place |-> [s \in DOMAIN deps |-> "waiting"],
                   attempt |-> [s \in DOMAIN deps |-> 0], runs |-> [s \in DOMAIN deps |-> 0],
                   threads |-> [s \in DOMAIN deps |-> 0], blocking |-> blocks]
      BY <2>2 DEF NewTasks
    <3> QED BY <3>1, NewRunner
  <2> QED BY <2>1, <2>2 DEF AgentsInit
<1> QED BY <1>1, <1>2, <1>3 DEF AgentsInv

LEMMA AgentsStep == AgentsInv /\ [AgentsNext]_agentVars => AgentsInv'
<1> SUFFICES ASSUME AgentsInv, [AgentsNext]_agentVars PROVE AgentsInv'
  OBVIOUS
<1>1. CASE /\ SweStarts \/ SweExplores \/ SweProposes \/ SweApplies \/ SweTests \/ SweCleans \/ SweCancelled
  <2>1. swe' \in Repairs /\ Repaired(swe')
    BY <1>1, RepairSteps, SMTT(30) DEF AgentsInv
  <2>2. script' = script /\ tasks' = tasks
    BY <1>1 DEF SweStarts, SweExplores, SweProposes, SweApplies, SweTests, SweCleans, SweCancelled
  <2>3. ScriptInv' /\ StepsInv'
    BY <2>2, ScriptStays, TasksStay DEF AgentsInv
  <2> QED BY <2>1, <2>3 DEF AgentsInv
<1>2. CASE ScriptGenerated \/ ScriptExecuted
  <2>1. ScriptInv'
    BY <1>2, ScriptSteps DEF AgentsInv
  <2>2. swe' = swe /\ tasks' = tasks
    BY <1>2 DEF ScriptGenerated, ScriptExecuted
  <2>3. StepsInv'
    BY <2>2, TasksStay DEF AgentsInv
  <2> QED BY <2>1, <2>2, <2>3 DEF AgentsInv
<1>3. CASE WaveBegins \/ \E s \in Steps : StepRuns(s) \/ StepEnds(s) \/ PauseOver(s) \/ ThreadEnds(s)
  <2>1. StepsInv'
    BY <1>3, RunnerSteps, SMTT(30) DEF AgentsInv
  <2>2. swe' = swe /\ script' = script
    BY <1>3 DEF WaveBegins, StepRuns, StepEnds, PauseOver, ThreadEnds
  <2>3. ScriptInv'
    BY <2>2, ScriptStays DEF AgentsInv
  <2> QED BY <2>1, <2>2, <2>3 DEF AgentsInv
<1>4. CASE UNCHANGED agentVars
  BY <1>4, ScriptStays, TasksStay DEF agentVars, AgentsInv
<1> QED BY <1>1, <1>2, <1>3, <1>4 DEF AgentsNext

\* What never ran when the runner ends is what can never run.
LEMMA EndIsStuck ==
  ASSUME StepsInv, tasks.pc = "ended"
  PROVE {s \in Steps : tasks.runs[s] = 0} = Stuck
<1>1. InWave = {} /\ (Over = Steps \/ Ready(Over) = {})
  BY DEF StepsInv
<1>2. \A s \in Steps : tasks.runs[s] = 0 <=> s \notin Over
  <2> SUFFICES ASSUME NEW s \in Steps PROVE tasks.runs[s] = 0 <=> s \notin Over
    OBVIOUS
  <2>1. PICK v \in StepPlaces, a \in Nat, n \in Nat, k \in Nat :
          v = tasks.place[s] /\ a = tasks.attempt[s] /\ n = tasks.runs[s] /\ k = tasks.threads[s]
    BY DEF StepsInv, StepsTyped
  <2>2. Counts(v, a, n, k, tasks.blocking[s])
    BY <2>1 DEF StepsInv, Counted
  <2>3. v \in {"waiting", "passed", "failed"}
    BY <1>1, <2>1 DEF InWave, StepPlaces
  <2>4. n = 0 <=> v = "waiting"
    BY <2>2, <2>3 DEF Counts
  <2> QED BY <2>1, <2>3, <2>4 DEF Over
<1>3. ASSUME NEW s \in Steps, s \notin Over PROVE s \in Stuck
  <2>1. Blocked(Steps \ Over)
    BY <1>1, <1>3 DEF Blocked, Ready
  <2> QED BY <1>3, <2>1 DEF Stuck, Blocked
<1>4. ASSUME NEW s \in Stuck PROVE s \in Steps /\ s \notin Over
  <2>1. PICK U \in SUBSET Steps : s \in U /\ Blocked(U)
    BY DEF Stuck, Blocked
  <2> QED BY <2>1 DEF StepsInv
<1>5. Stuck \subseteq Steps
  BY DEF Stuck
<1> QED BY <1>2, <1>3, <1>4, <1>5

LEMMA AgentsInvSound == AgentsInv => AgentsSound
<1> SUFFICES ASSUME AgentsInv PROVE AgentsSound
  OBVIOUS
<1>1. PatchTested
  BY DEF AgentsInv, Repaired, Repairs, Changed, PatchTested
<1>2. ScriptSound
  BY DEF AgentsInv, ScriptInv
<1>3. StepsOrdered
  <2>1. \A s \in InWave : tasks.deps[s] \subseteq Over
    BY DEF AgentsInv, StepsInv
  <2>2. ASSUME NEW s \in Steps
        PROVE /\ tasks.runs[s] <= StepRetries + 1
              /\ tasks.threads[s] > 0 => tasks.blocking[s] /\ tasks.threads[s] <= tasks.runs[s]
    <3>1. PICK v \in StepPlaces, a \in Nat, n \in Nat, k \in Nat :
            v = tasks.place[s] /\ a = tasks.attempt[s] /\ n = tasks.runs[s] /\ k = tasks.threads[s]
      BY DEF AgentsInv, StepsInv, StepsTyped
    <3>2. Counts(v, a, n, k, tasks.blocking[s])
      BY <3>1 DEF AgentsInv, StepsInv, Counted
    <3>3. n <= StepRetries + 1 /\ k <= n /\ (k > 0 => tasks.blocking[s] = TRUE)
      BY <3>2, AgentsAssumption DEF Counts
    <3> QED BY <3>1, <3>3
  <2> QED BY <2>1, <2>2, EndIsStuck DEF AgentsInv, StepsInv, StepsOrdered
<1> QED BY <1>1, <1>2, <1>3 DEF AgentsSound

\* The agents that write code are sound, whatever the number of files, retries, steps and seats: a repair
\* that is called good was tested as it stands, a script that is returned is the last that ran, and a
\* step runs after what it depends on, as often as it may, unless it can never run.
THEOREM AgentsAreSound == AgentsSpec => []AgentsSound
<1>1. AgentsSpec => []AgentsInv
  BY AgentsStart, AgentsStep, PTL DEF AgentsSpec
<1> QED BY <1>1, AgentsInvSound, PTL

-----------------------------------------------------------------------------
(* Unknowns in sessions over one file.  With one session at a time the copy of that session and the
   file follow each other; a save under way is what the file is about to be. *)

Items == [id : Int \X Int, n : Nat, resolved : BOOLEAN]
Folders == [items : Seq(Items), plan : BOOLEAN, second : Nat, found : Seq(Items), asked : SUBSET (Int \X Int),
            exempt : BOOLEAN, openings : Nat]
SessionRecords == [pc : {"closed", "open", "saving"}, items : Seq(Items),
                   asked : {"none", "blind-spot", "interview", "answer", "plan"}]

\* No item is made up.
Genuine(items, found) ==
  \A i \in 1..Len(items) : \E j \in 1..Len(found) : items[i] \in {found[j], [found[j] EXCEPT !.resolved = TRUE]}

\* Item i is the first with its id.
Heads(items, i) == \A j \in 1..(i - 1) : items[j].id # items[i].id

\* All that was found is there, in order, resolved where it should be.
Whole(items, found, asked) ==
  /\ Len(items) = Len(found)
  /\ \A i \in 1..Len(items) : items[i].n = i /\ (items[i].resolved = TRUE <=> items[i].id \in asked /\ Heads(items, i))
  /\ \A id \in asked : \E i \in 1..Len(items) : items[i].id = id

\* Alone, a session has what the file has, or is about to write what the file should have.
Alone ==
  /\ \A s, t \in Sessions : Open(s) /\ Open(t) => s = t
  /\ \A s \in Sessions : session[s].pc = "saving" => Whole(session[s].items, folder.found, folder.asked)
  /\ (\A s \in Sessions : session[s].pc # "saving") =>
       /\ Whole(folder.items, folder.found, folder.asked)
       /\ \A s \in Sessions : Open(s) => session[s].items = folder.items

UnknownsInv ==
  /\ folder \in Folders /\ session \in [Sessions -> SessionRecords]
  /\ folder.items = HalfFile \/ Genuine(folder.items, folder.found)
  /\ \A s \in Sessions : Genuine(session[s].items, folder.found)
  /\ ~folder.exempt => Alone

LEMMA GenuineAppend ==
  ASSUME NEW items \in Seq(Items), NEW found \in Seq(Items), NEW g \in Seq(Items), Genuine(items, found)
  PROVE Genuine(items, found \o g) /\ Genuine(items \o g, found \o g)
<1>1. /\ \A j \in 1..Len(found) : (found \o g)[j] = found[j] /\ j \in 1..Len(found \o g)
      /\ \A j \in 1..Len(g) : (found \o g)[Len(found) + j] = g[j] /\ Len(found) + j \in 1..Len(found \o g)
  OBVIOUS
<1>2. Genuine(items, found \o g)
  BY <1>1 DEF Genuine
<1>3. ASSUME NEW i \in 1..Len(items \o g)
      PROVE \E j \in 1..Len(found \o g) :
              (items \o g)[i] \in {(found \o g)[j], [(found \o g)[j] EXCEPT !.resolved = TRUE]}
  <2>1. CASE i \in 1..Len(items)
    <3>1. (items \o g)[i] = items[i]
      BY <2>1
    <3> QED BY <1>2, <2>1, <3>1 DEF Genuine
  <2>2. CASE i \notin 1..Len(items)
    <3>1. PICK j \in 1..Len(g) : i = Len(items) + j /\ (items \o g)[i] = g[j]
      <4>1. PICK m \in Nat, n \in Nat :
              /\ m = Len(items) /\ n = Len(g) /\ Len(items \o g) = m + n
              /\ \A k \in 1..n : (items \o g)[m + k] = g[k]
        BY SMTT(30)
      <4>2. i \in 1..(m + n) /\ i \notin 1..m
        BY <2>2, <4>1
      <4>3. i - m \in 1..n /\ i = m + (i - m)
        BY <4>2
      <4> QED BY <4>1, <4>3
    <3>2. (items \o g)[i] = (found \o g)[Len(found) + j] /\ Len(found) + j \in 1..Len(found \o g)
      BY <1>1, <3>1
    <3> QED BY <3>2
  <2> QED BY <2>1, <2>2
<1> QED BY <1>2, <1>3 DEF Genuine

\* An item may be marked as resolved.
LEMMA ItemResolved ==
  ASSUME NEW items \in Seq(Items), NEW k \in 1..Len(items), NEW marked, marked = [items EXCEPT ![k].resolved = TRUE]
  PROVE /\ marked \in Seq(Items) /\ Len(marked) = Len(items)
        /\ marked[k] = [items[k] EXCEPT !.resolved = TRUE]
        /\ \A i \in 1..Len(items) : i # k => marked[i] = items[i]
<1>1. items \in [1..Len(items) -> Items] /\ Len(items) \in Nat
  OBVIOUS
<1>2. PICK u \in Items : u = [items[k] EXCEPT !.resolved = TRUE]
  BY <1>1 DEF Items
<1>3. marked = [items EXCEPT ![k] = u]
  BY <1>2
<1> QED BY <1>1, <1>2, <1>3

LEMMA GenuineResolved ==
  ASSUME NEW items \in Seq(Items), NEW found \in Seq(Items), Genuine(items, found), NEW k \in 1..Len(items),
         NEW marked, marked = [items EXCEPT ![k].resolved = TRUE]
  PROVE Genuine(marked, found)
<1>1. /\ Len(marked) = Len(items) /\ marked[k] = [items[k] EXCEPT !.resolved = TRUE]
      /\ \A i \in 1..Len(items) : i # k => marked[i] = items[i]
  BY ItemResolved, SMTT(30)
<1>2. PICK j \in 1..Len(found) : items[k] \in {found[j], [found[j] EXCEPT !.resolved = TRUE]}
  BY DEF Genuine
<1>3. found[j] \in Items
  OBVIOUS
<1>4. marked[k] = [found[j] EXCEPT !.resolved = TRUE]
  BY <1>1, <1>2, <1>3 DEF Items
<1>5. \E m \in 1..Len(found) : marked[k] \in {found[m], [found[m] EXCEPT !.resolved = TRUE]}
  BY <1>4
<1>6. ASSUME NEW i \in 1..Len(items) PROVE \E m \in 1..Len(found) : marked[i] \in {found[m], [found[m] EXCEPT !.resolved = TRUE]}
  <2>1. CASE i = k
    BY <1>5, <2>1
  <2>2. CASE i # k
    BY <1>1, <2>2 DEF Genuine
  <2> QED BY <2>1, <2>2
<1> QED BY <1>1, <1>6 DEF Genuine

\* What is found is new: it has its place, is open, and whoever asked for its id asked for an earlier one.
LEMMA WholeAppend ==
  ASSUME NEW items \in Seq(Items), NEW found \in Seq(Items), NEW g \in Seq(Items),
         NEW asked, Whole(items, found, asked),
         \A i \in 1..Len(g) : g[i].n = Len(found) + i /\ g[i].resolved = FALSE
  PROVE Whole(items \o g, found \o g, asked)
<1> DEFINE longer == items \o g
<1>1. Len(items) \in Nat /\ Len(g) \in Nat /\ Len(items) = Len(found)
  BY DEF Whole
<1>2. Len(longer) = Len(items) + Len(g) /\ Len(longer) = Len(found \o g)
  BY <1>1
<1>3. \A i \in 1..Len(items) : longer[i] = items[i] /\ i \in 1..Len(longer)
  BY <1>1
<1>4. ASSUME NEW i \in 1..Len(longer)
      PROVE longer[i].n = i /\ (longer[i].resolved = TRUE <=> longer[i].id \in asked /\ Heads(longer, i))
  <2>1. CASE i \in 1..Len(items)
    <3>1. \A j \in 1..(i - 1) : longer[j] = items[j]
      BY <1>1, <1>3, <2>1
    <3>2. Heads(longer, i) <=> Heads(items, i)
      BY <1>3, <2>1, <3>1 DEF Heads
    <3>3. longer[i] = items[i]
      BY <1>3, <2>1
    <3>4. items[i].n = i /\ (items[i].resolved = TRUE <=> items[i].id \in asked /\ Heads(items, i))
      BY <2>1 DEF Whole
    <3> HIDE DEF longer
    <3> QED BY <3>2, <3>3, <3>4
  <2>2. CASE i \notin 1..Len(items)
    <3>1. PICK j \in 1..Len(g) : i = Len(items) + j /\ longer[i] = g[j]
      <4>0. i - Len(items) \in 1..Len(g)
        BY <1>1, <1>2, <2>2
      <4>1. PICK j \in 1..Len(g) : j = i - Len(items)
        BY <4>0
      <4>2. i = Len(items) + j
        BY <1>1, <1>2, <4>1
      <4>3. longer[Len(items) + j] = g[j]
        BY <1>1
      <4> QED BY <4>2, <4>3
    <3>2. longer[i].n = i /\ longer[i].resolved = FALSE
      BY <1>1, <3>1
    <3>3. ~(longer[i].id \in asked /\ Heads(longer, i))
      <4> SUFFICES ASSUME longer[i].id \in asked PROVE ~Heads(longer, i)
        OBVIOUS
      <4>1. PICK h \in 1..Len(items) : items[h].id = longer[i].id
        BY DEF Whole
      <4>2. h \in 1..(i - 1) /\ longer[h].id = longer[i].id
        BY <1>1, <1>2, <1>3, <2>2, <4>1
      <4> HIDE DEF longer
      <4> QED BY <4>2 DEF Heads
    <3> HIDE DEF longer
    <3> QED BY <3>2, <3>3
  <2> QED BY <2>1, <2>2
<1>5. ASSUME NEW id \in asked PROVE \E i \in 1..Len(longer) : longer[i].id = id
  <2>1. PICK i \in 1..Len(items) : items[i].id = id
    BY DEF Whole
  <2>2. longer[i].id = id /\ i \in 1..Len(longer)
    BY <1>3, <2>1
  <2> QED BY <2>2
<1> HIDE DEF longer
<1> QED BY <1>2, <1>4, <1>5 DEF Whole, longer

\* resolve_unknown finds the first with the id.
LEMMA WithIdIsFirst ==
  ASSUME NEW items \in Seq(Items), NEW i \in 1..Len(items)
  PROVE /\ WithId(items, items[i].id) \in 1..Len(items)
        /\ items[WithId(items, items[i].id)].id = items[i].id
        /\ Heads(items, WithId(items, items[i].id))
<1> DEFINE S == {j \in 1..Len(items) : items[j].id = items[i].id}
<1>1. S \subseteq Nat /\ S # {}
  OBVIOUS
<1>2. Min(S) \in S /\ \A j \in S : Min(S) <= j
  <2> HIDE DEF S
  <2> QED BY <1>1, MinOfNats
<1>3. WithId(items, items[i].id) = Min(S)
  BY <1>1 DEF WithId, SelectInSeq
<1>4. PICK k \in 1..Len(items) : k = Min(S) /\ items[k].id = items[i].id /\ \A j \in S : k <= j
  BY <1>2
<1>5. Heads(items, k)
  <2> SUFFICES ASSUME NEW j \in 1..(k - 1), items[j].id = items[k].id PROVE FALSE
    BY DEF Heads
  <2>1. j \in S /\ j < k
    BY <1>4
  <2> QED BY <1>4, <2>1
<1> QED BY <1>3, <1>4, <1>5

LEMMA WholeResolved ==
  ASSUME NEW items \in Seq(Items), NEW found \in Seq(Items), NEW asked, Whole(items, found, asked),
         NEW k \in 1..Len(items), Heads(items, k), NEW marked, marked = [items EXCEPT ![k].resolved = TRUE]
  PROVE Whole(marked, found, asked \cup {items[k].id})
<1>1. /\ Len(marked) = Len(items) /\ marked[k] = [items[k] EXCEPT !.resolved = TRUE]
      /\ \A i \in 1..Len(items) : i # k => marked[i] = items[i]
  BY ItemResolved, SMTT(30)
<1>2. marked[k].id = items[k].id /\ marked[k].n = items[k].n /\ marked[k].resolved = TRUE
  <2>1. items[k] \in Items
    OBVIOUS
  <2> QED BY <1>1, <2>1 DEF Items
<1>3. \A i \in 1..Len(items) : marked[i].id = items[i].id /\ marked[i].n = items[i].n
  BY <1>1, <1>2
<1>4. Len(items) \in Nat
  OBVIOUS
<1>5. \A i \in 1..Len(items) : Heads(marked, i) <=> Heads(items, i)
  <2> SUFFICES ASSUME NEW i \in 1..Len(items) PROVE Heads(marked, i) <=> Heads(items, i)
    OBVIOUS
  <2>1. \A j \in 1..(i - 1) : j \in 1..Len(items)
    BY <1>4
  <2>2. \A j \in 1..(i - 1) : marked[j].id = items[j].id
    BY <1>3, <2>1
  <2>3. marked[i].id = items[i].id
    BY <1>3
  <2> QED BY <2>2, <2>3 DEF Heads
<1>6. ASSUME NEW i \in 1..Len(items)
      PROVE /\ marked[i].n = i
            /\ marked[i].resolved = TRUE <=> marked[i].id \in asked \cup {items[k].id} /\ Heads(marked, i)
  <2>1. items[i].n = i /\ (items[i].resolved = TRUE <=> items[i].id \in asked /\ Heads(items, i))
    BY DEF Whole
  <2>2. CASE i = k
    BY <1>2, <1>5, <2>1, <2>2
  <2>3. CASE i # k
    <3>1. marked[i] = items[i]
      BY <1>1, <2>3
    <3>2. items[i].id = items[k].id => items[i].id \in asked \/ ~Heads(items, i)
      <4> SUFFICES ASSUME items[i].id = items[k].id, Heads(items, i) PROVE FALSE
        OBVIOUS
      <4>1. i < k \/ k < i
        BY <1>4, <2>3
      <4>2. CASE i < k
        <5>1. i \in 1..(k - 1)
          BY <1>4, <4>2
        <5> QED BY <5>1 DEF Heads
      <4>3. CASE k < i
        <5>1. k \in 1..(i - 1)
          BY <1>4, <4>3
        <5> QED BY <5>1 DEF Heads
      <4> QED BY <4>1, <4>2, <4>3
    <3>3. marked[i].id = items[i].id /\ marked[i].n = items[i].n /\ marked[i].resolved = items[i].resolved
      BY <3>1
    <3> QED BY <1>5, <2>1, <3>2, <3>3
  <2> QED BY <2>2, <2>3
<1>7. ASSUME NEW id \in asked \cup {items[k].id} PROVE \E i \in 1..Len(items) : marked[i].id = id
  <2>1. PICK i \in 1..Len(items) : items[i].id = id
    BY <1>7 DEF Whole
  <2> QED BY <1>3, <2>1
<1>8. Len(items) = Len(found)
  BY DEF Whole
<1> QED BY <1>1, <1>6, <1>7, <1>8 DEF Whole

-----------------------------------------------------------------------------
(* The steps of the sessions.                                               *)

LEMMA HalfIsNothing ==
  /\ HalfFile \in Seq(Items)
  /\ \A found, asked : ~Whole(HalfFile, found, asked)
<1>1. PICK u \in Items : u = [id |-> <<-1, -1>>, n |-> 0, resolved |-> FALSE]
  <2>0. PICK m \in Int : m = -1
    OBVIOUS
  <2>1. PICK id \in Int \X Int : id = <<-1, -1>>
    BY <2>0
  <2>2. [id |-> id, n |-> 0, resolved |-> FALSE] \in Items
    BY DEF Items
  <2> QED BY <2>1, <2>2
<1>2. HalfFile = <<u>>
  BY <1>1 DEF HalfFile
<1>3. HalfFile \in Seq(Items) /\ Len(HalfFile) = 1 /\ HalfFile[1] = u /\ u.n = 0
  BY <1>1, <1>2
<1>4. 1 \in 1..Len(HalfFile)
  BY <1>3
<1>5. ASSUME NEW found, NEW asked, Whole(HalfFile, found, asked) PROVE FALSE
  <2>1. HalfFile[1].n = 1
    BY <1>4, <1>5 DEF Whole
  <2> QED BY <1>3, <2>1
<1> QED BY <1>3, <1>5

LEMMA EmptyIsGenuine ==
  ASSUME NEW found
  PROVE <<>> \in Seq(Items) /\ Genuine(<<>>, found)
BY DEF Genuine

LEMMA NothingOpen == NoSession \in SessionRecords /\ NoSession.pc = "closed" /\ NoSession.items = <<>> /\ NoSession.asked = "none"
<1>1. PICK items \in Seq(Items) : items = <<>>
  BY EmptyIsGenuine
<1>2. [pc |-> "closed", items |-> items, asked |-> "none"] \in SessionRecords
  BY DEF SessionRecords
<1> QED BY <1>1, <1>2 DEF NoSession

\* The session s becomes r.
Becomes(s, r) == session' = [session EXCEPT ![s] = r]

\* A step of session s after which it is r. What it means for the file is left to the step.
LEMMA SessionStep ==
  ASSUME UnknownsInv, NEW s \in Sessions, NEW r \in SessionRecords, Becomes(s, r),
         folder' \in Folders, \A items \in Seq(Items) : Genuine(items, folder.found) => Genuine(items, folder'.found),
         folder'.items = HalfFile \/ Genuine(folder'.items, folder'.found),
         Genuine(r.items, folder'.found),
         ~folder'.exempt => Alone'
  PROVE UnknownsInv'
<1>1. session \in [Sessions -> SessionRecords] /\ \A t \in Sessions : Genuine(session[t].items, folder.found)
  BY DEF UnknownsInv
<1>2. session' \in [Sessions -> SessionRecords] /\ session'[s] = r /\ \A t \in Sessions : t # s => session'[t] = session[t]
  BY <1>1 DEF Becomes
<1>3. ASSUME NEW t \in Sessions PROVE Genuine(session'[t].items, folder'.found)
  <2>1. session[t].items \in Seq(Items)
    BY <1>1 DEF SessionRecords
  <2> QED BY <1>1, <1>2, <2>1
<1> QED BY <1>2, <1>3 DEF UnknownsInv

\* The fields of the folder that make up what is known of it.
SameFile == folder'.items = folder.items /\ folder'.found = folder.found /\ folder'.asked = folder.asked

\* Alone, the session that is open is s, and while it saves nothing the file is whole.
LEMMA OnlyMe ==
  ASSUME UnknownsInv, ~folder.exempt, NEW s \in Sessions, Open(s)
  PROVE /\ \A t \in Sessions : t # s => session[t].pc = "closed"
        /\ session[s].pc = "open" =>
             /\ Whole(folder.items, folder.found, folder.asked)
             /\ session[s].items = folder.items
<1>1. Alone
  BY DEF UnknownsInv
<1>2. ASSUME NEW t \in Sessions, t # s PROVE session[t].pc = "closed"
  BY <1>1, <1>2 DEF Alone, Open
<1>3. session[s].pc = "open" => \A t \in Sessions : session[t].pc # "saving"
  BY <1>2
<1> QED BY <1>1, <1>2, <1>3 DEF Alone

\* A session that stays open and keeps its copy.
LEMMA StaysOpen ==
  ASSUME UnknownsInv, NEW s \in Sessions, session[s].pc = "open", NEW r \in SessionRecords, Becomes(s, r),
         r.pc = "open", r.items = session[s].items,
         folder' \in Folders, SameFile, folder'.exempt = folder.exempt
  PROVE UnknownsInv'
<1>1. session \in [Sessions -> SessionRecords] /\ Genuine(session[s].items, folder.found)
  BY DEF UnknownsInv
<1>2. session'[s] = r /\ \A t \in Sessions : t # s => session'[t] = session[t]
  BY <1>1 DEF Becomes
<1>3. \A t \in Sessions : session'[t].pc = session[t].pc /\ session'[t].items = session[t].items
  BY <1>2
<1>4. Alone => Alone'
  BY <1>3 DEF Alone, Open, SameFile
<1>5. ~folder'.exempt => Alone'
  BY <1>4 DEF UnknownsInv
<1>6. Genuine(r.items, folder'.found) /\ (folder'.items = HalfFile \/ Genuine(folder'.items, folder'.found))
  BY <1>1 DEF UnknownsInv, SameFile
<1> QED BY <1>5, <1>6, SessionStep DEF SameFile

LEMMA Opens ==
  ASSUME UnknownsInv, NEW s \in Sessions, SessionOpens(s)
  PROVE UnknownsInv'
<1>1. /\ session[s].pc = "closed" /\ folder \in Folders /\ session \in [Sessions -> SessionRecords]
      /\ session' = [session EXCEPT ![s] = [NoSession EXCEPT !.pc = "open", !.items = Loaded]]
      /\ folder' = [folder EXCEPT !.openings = @ + 1, !.exempt = @ \/ \E t \in Sessions \ {s} : Open(t)]
  BY DEF SessionOpens, UnknownsInv
<1>2. Loaded \in Seq(Items) /\ Genuine(Loaded, folder.found)
  <2>1. CASE folder.items = HalfFile
    BY <2>1, EmptyIsGenuine DEF Loaded
  <2>2. CASE folder.items # HalfFile
    BY <1>1, <2>2 DEF Loaded, UnknownsInv, Folders
  <2> QED BY <2>1, <2>2
<1>3. PICK r \in SessionRecords : r = [NoSession EXCEPT !.pc = "open", !.items = Loaded] /\ r.pc = "open" /\ r.items = Loaded
  <2>1. PICK items \in Seq(Items) : items = Loaded
    BY <1>2
  <2>2. PICK q \in SessionRecords : q = NoSession
    BY NothingOpen
  <2>3. PICK r \in SessionRecords : r = [q EXCEPT !.pc = "open", !.items = items]
    BY DEF SessionRecords
  <2>4. r.pc = "open" /\ r.items = items
    BY <2>3 DEF SessionRecords
  <2> QED BY <2>1, <2>2, <2>3, <2>4
<1>4. Becomes(s, r)
  BY <1>1, <1>3 DEF Becomes
<1>5. /\ folder' \in Folders /\ SameFile
      /\ folder'.exempt <=> (folder.exempt \/ \E t \in Sessions \ {s} : Open(t))
  <2>1. PICK b \in BOOLEAN : b = (folder.exempt \/ \E t \in Sessions \ {s} : Open(t))
    OBVIOUS
  <2>2. PICK n \in Nat : n = folder.openings + 1
    BY <1>1 DEF Folders
  <2>3. folder' = [folder EXCEPT !.openings = n, !.exempt = b]
    BY <1>1, <2>1, <2>2
  <2>4. folder' \in Folders /\ SameFile /\ folder'.exempt = b
    BY <1>1, <2>3 DEF Folders, SameFile
  <2> QED BY <2>1, <2>4
<1>6. ASSUME ~folder'.exempt PROVE Alone'
  <2>1. ~folder.exempt /\ \A t \in Sessions : t # s => session[t].pc = "closed"
    BY <1>5, <1>6 DEF Open
  <2>2. \A t \in Sessions : session[t].pc # "saving"
    BY <1>1, <2>1
  <2>3. Whole(folder.items, folder.found, folder.asked)
    BY <2>1, <2>2 DEF UnknownsInv, Alone
  <2>4. Loaded = folder.items
    BY <2>3, HalfIsNothing DEF Loaded
  <2>5. session'[s] = r /\ \A t \in Sessions : t # s => session'[t] = session[t]
    BY <1>1, <1>4 DEF Becomes
  <2>6. \A t \in Sessions : session'[t].pc # "saving" /\ (session'[t].pc # "closed" => t = s)
    BY <1>3, <2>1, <2>5
  <2> QED BY <1>3, <1>5, <2>3, <2>4, <2>5, <2>6 DEF Alone, Open, SameFile
<1>7. Genuine(r.items, folder'.found) /\ (folder'.items = HalfFile \/ Genuine(folder'.items, folder'.found))
  BY <1>2, <1>3, <1>5 DEF UnknownsInv, SameFile
<1> QED BY <1>4, <1>5, <1>6, <1>7, SessionStep DEF SameFile

LEMMA Closes ==
  ASSUME UnknownsInv, NEW s \in Sessions, SessionCloses(s)
  PROVE UnknownsInv'
<1>1. /\ Open(s) /\ folder \in Folders /\ session \in [Sessions -> SessionRecords]
      /\ session' = [session EXCEPT ![s] = NoSession]
      /\ folder' = [folder EXCEPT !.exempt = @ \/ session[s].pc = "saving"]
  BY DEF SessionCloses, UnknownsInv
<1>2. PICK r \in SessionRecords : r = NoSession /\ r.pc = "closed" /\ r.items = <<>>
  BY NothingOpen
<1>3. Becomes(s, r)
  BY <1>1, <1>2 DEF Becomes
<1>4. /\ folder' \in Folders /\ SameFile
      /\ folder'.exempt <=> (folder.exempt \/ session[s].pc = "saving")
  <2>1. PICK b \in BOOLEAN : b = (folder.exempt \/ session[s].pc = "saving")
    OBVIOUS
  <2>2. folder' = [folder EXCEPT !.exempt = b]
    BY <1>1, <2>1
  <2>3. folder' \in Folders /\ SameFile /\ folder'.exempt = b
    BY <1>1, <2>2 DEF Folders, SameFile
  <2> QED BY <2>1, <2>3
<1>5. ASSUME ~folder'.exempt PROVE Alone'
  <2>1. ~folder.exempt /\ session[s].pc = "open"
    BY <1>1, <1>4, <1>5 DEF Open, SessionRecords
  <2>2. (\A t \in Sessions : t # s => session[t].pc = "closed") /\ Whole(folder.items, folder.found, folder.asked)
    BY <1>1, <2>1, OnlyMe
  <2>3. session'[s] = r /\ \A t \in Sessions : t # s => session'[t] = session[t]
    BY <1>1, <1>3 DEF Becomes
  <2>4. \A t \in Sessions : session'[t].pc = "closed"
    BY <1>2, <2>2, <2>3
  <2> QED BY <1>4, <2>2, <2>4 DEF Alone, Open, SameFile
<1>6. Genuine(r.items, folder'.found) /\ (folder'.items = HalfFile \/ Genuine(folder'.items, folder'.found))
  BY <1>2, <1>4, EmptyIsGenuine DEF UnknownsInv, SameFile
<1> QED BY <1>3, <1>4, <1>5, <1>6, SessionStep DEF SameFile

LEMMA Saves ==
  ASSUME UnknownsInv, NEW s \in Sessions, SaveDone(s)
  PROVE UnknownsInv'
<1>1. /\ session[s].pc = "saving" /\ folder \in Folders /\ session \in [Sessions -> SessionRecords]
      /\ session' = [session EXCEPT ![s].pc = "open"]
      /\ folder' = [folder EXCEPT !.items = session[s].items]
  BY DEF SaveDone, UnknownsInv
<1>2. session[s] \in SessionRecords /\ session[s].items \in Seq(Items) /\ Genuine(session[s].items, folder.found)
  BY <1>1 DEF UnknownsInv, SessionRecords
<1>3. PICK r \in SessionRecords : r = [session[s] EXCEPT !.pc = "open"] /\ r.pc = "open" /\ r.items = session[s].items
  <2>1. PICK q \in SessionRecords : q = session[s]
    BY <1>2
  <2>2. [q EXCEPT !.pc = "open"] \in SessionRecords
    BY DEF SessionRecords
  <2>3. [q EXCEPT !.pc = "open"].pc = "open" /\ [q EXCEPT !.pc = "open"].items = q.items
    BY DEF SessionRecords
  <2> QED BY <2>1, <2>2, <2>3
<1>4. Becomes(s, r)
  BY <1>1, <1>3 DEF Becomes
<1>5. /\ folder' \in Folders /\ folder'.items = session[s].items /\ folder'.found = folder.found
      /\ folder'.asked = folder.asked /\ folder'.exempt = folder.exempt
  BY <1>1, <1>2 DEF Folders
<1>6. ASSUME ~folder'.exempt PROVE Alone'
  <2>1. \A t \in Sessions : t # s => session[t].pc = "closed"
    BY <1>1, <1>5, <1>6, OnlyMe DEF Open
  <2>2. Whole(session[s].items, folder.found, folder.asked)
    BY <1>1, <1>5, <1>6 DEF UnknownsInv, Alone
  <2>3. session'[s] = r /\ \A t \in Sessions : t # s => session'[t] = session[t]
    BY <1>1, <1>4 DEF Becomes
  <2>4. \A t \in Sessions : session'[t].pc # "saving" /\ (session'[t].pc # "closed" => t = s)
    BY <1>3, <2>1, <2>3
  <2> QED BY <1>3, <1>5, <2>2, <2>3, <2>4 DEF Alone, Open
<1> QED BY <1>2, <1>3, <1>4, <1>5, <1>6, SessionStep

\* A session that starts to write a list that is whole.
LEMMA StartsSaving ==
  ASSUME UnknownsInv, NEW s \in Sessions, session[s].pc = "open", NEW r \in SessionRecords, Becomes(s, r), r.pc = "saving",
         folder' \in Folders, folder'.items = HalfFile, folder'.exempt = folder.exempt,
         \A items \in Seq(Items) : Genuine(items, folder.found) => Genuine(items, folder'.found),
         Genuine(r.items, folder'.found),
         ~folder.exempt => Whole(r.items, folder'.found, folder'.asked)
  PROVE UnknownsInv'
<1>1. session \in [Sessions -> SessionRecords]
  BY DEF UnknownsInv
<1>2. ASSUME ~folder'.exempt PROVE Alone'
  <2>1. \A t \in Sessions : t # s => session[t].pc = "closed"
    BY <1>2, OnlyMe DEF Open
  <2>2. session'[s] = r /\ \A t \in Sessions : t # s => session'[t] = session[t]
    BY <1>1 DEF Becomes
  <2>3. session'[s].pc = "saving" /\ \A t \in Sessions : session'[t].pc # "closed" => t = s
    BY <2>1, <2>2
  <2>4. \A t \in Sessions : session'[t].pc = "saving" => Whole(session'[t].items, folder'.found, folder'.asked)
    BY <1>2, <2>2, <2>3
  <2> QED BY <2>3, <2>4 DEF Alone, Open
<1> QED BY <1>2, SessionStep

\* _save with these items, while asked is what is still asked of the model.
LEMMA SavingBecomes ==
  ASSUME session \in [Sessions -> SessionRecords], NEW s \in Sessions, NEW items \in Seq(Items)
  PROVE \E r \in SessionRecords : /\ r.pc = "saving" /\ r.items = items
                                  /\ session' = Saving(s, items) => Becomes(s, r)
<1>1. PICK q \in SessionRecords : q = session[s]
  OBVIOUS
<1>2. PICK r \in SessionRecords : r = [q EXCEPT !.pc = "saving", !.items = items, !.asked = "none"]
  BY DEF SessionRecords
<1>3. r.pc = "saving" /\ r.items = items
  BY <1>2 DEF SessionRecords
<1>4. Saving(s, items) = [session EXCEPT ![s] = r]
  BY <1>1, <1>2 DEF Saving
<1> QED BY <1>3, <1>4 DEF Becomes

\* A session that is asked something, or has its answer.
LEMMA AskedStays ==
  ASSUME UnknownsInv, NEW s \in Sessions, session[s].pc = "open",
         NEW kind \in {"none", "blind-spot", "interview", "answer", "plan"},
         session' = [session EXCEPT ![s].asked = kind],
         folder' \in Folders, SameFile, folder'.exempt = folder.exempt
  PROVE UnknownsInv'
<1>1. session[s] \in SessionRecords
  BY DEF UnknownsInv
<1>2. PICK r \in SessionRecords : r = [session[s] EXCEPT !.asked = kind] /\ r.pc = "open" /\ r.items = session[s].items
  <2>1. PICK q \in SessionRecords : q = session[s]
    BY <1>1
  <2>2. [q EXCEPT !.asked = kind] \in SessionRecords
    BY DEF SessionRecords
  <2>3. [q EXCEPT !.asked = kind].pc = q.pc /\ [q EXCEPT !.asked = kind].items = q.items
    BY DEF SessionRecords
  <2> QED BY <2>1, <2>2, <2>3
<1>3. Becomes(s, r)
  BY <1>2 DEF Becomes
<1> QED BY <1>2, <1>3, StaysOpen

LEMMA AsksAndAnswers ==
  ASSUME UnknownsInv, NEW s \in Sessions, NEW kind \in {"blind-spot", "interview", "answer", "plan"},
         Asks(s, kind) \/ InterviewEnds(s) \/ AnswerReturned(s) \/ PlanEnds(s)
  PROVE UnknownsInv'
<1>1. folder \in Folders
  BY DEF UnknownsInv
<1>2. CASE Asks(s, kind)
  BY <1>1, <1>2, AskedStays DEF Asks, Idle, SameFile
<1>3. CASE InterviewEnds(s) \/ AnswerReturned(s)
  BY <1>1, <1>3, AskedStays DEF InterviewEnds, AnswerReturned, Asked, Returned, SameFile
<1>4. CASE PlanEnds(s)
  <2>1. folder' \in Folders /\ SameFile /\ folder'.exempt = folder.exempt
    BY <1>1, <1>4 DEF PlanEnds, Folders, SameFile
  <2> QED BY <1>4, <2>1, AskedStays DEF PlanEnds, Asked
<1> QED BY <1>2, <1>3, <1>4

\* The answer of a blind spot pass.
LEMMA PassFinds ==
  ASSUME UnknownsInv, NEW s \in Sessions, PassEnds(s)
  PROVE UnknownsInv'
<1>1. /\ session[s].pc = "open" /\ folder \in Folders /\ session \in [Sessions -> SessionRecords]
      /\ session[s].items \in Seq(Items) /\ folder.found \in Seq(Items) /\ folder.items \in Seq(Items)
      /\ Genuine(session[s].items, folder.found)
  BY DEF PassEnds, Asked, UnknownsInv, SessionRecords, Folders
<1>2. PICK a \in Answers, k \in 0..(MaxUnknowns - Len(folder.found)) :
        IF PassAnswer(a) = "raise"
        THEN session' = [session EXCEPT ![s].asked = "none"] /\ UNCHANGED folder
        ELSE LET items == IF PassAnswer(a) = "items" THEN Found(k) ELSE <<>> IN
             /\ session' = Saving(s, session[s].items \o items)
             /\ folder' = [folder EXCEPT !.found = @ \o items, !.items = HalfFile]
  BY DEF PassEnds
<1>3. CASE PassAnswer(a) = "raise"
  BY <1>1, <1>2, <1>3, AskedStays DEF SameFile
<1>4. CASE PassAnswer(a) # "raise"
  <2>1. k \in Nat /\ folder.second \in Nat /\ Len(folder.found) \in Nat
    BY <1>1, UnknownsAssumption DEF Folders
  <2>2. PICK g \in Seq(Items) : /\ g = IF PassAnswer(a) = "items" THEN Found(k) ELSE <<>>
                                /\ \A i \in 1..Len(g) : g[i].n = Len(folder.found) + i /\ g[i].resolved = FALSE
    <3>1. \A i \in 1..k : [id |-> <<folder.second, i - 1>>, n |-> Len(folder.found) + i, resolved |-> FALSE] \in Items
      <4> SUFFICES ASSUME NEW i \in 1..k
                   PROVE [id |-> <<folder.second, i - 1>>, n |-> Len(folder.found) + i, resolved |-> FALSE] \in Items
        OBVIOUS
      <4>1. <<folder.second, i - 1>> \in Int \X Int /\ Len(folder.found) + i \in Nat
        BY <2>1
      <4> QED BY <4>1 DEF Items
    <3>2. Found(k) \in Seq(Items) /\ Len(Found(k)) = k
      BY <2>1, <3>1 DEF Found
    <3>3. \A i \in 1..k : Found(k)[i].n = Len(folder.found) + i /\ Found(k)[i].resolved = FALSE
      BY DEF Found
    <3>4. <<>> \in Seq(Items) /\ Len(<<>>) = 0
      BY EmptyIsGenuine
    <3>5. CASE PassAnswer(a) = "items"
      <4>1. PICK g \in Seq(Items) : g = Found(k)
        BY <3>2
      <4>2. \A i \in 1..Len(g) : g[i].n = Len(folder.found) + i /\ g[i].resolved = FALSE
        BY <3>2, <3>3, <4>1
      <4> QED BY <3>5, <4>1, <4>2
    <3>6. CASE PassAnswer(a) # "items"
      <4>1. PICK g \in Seq(Items) : g = <<>> /\ Len(g) = 0
        BY <3>4
      <4>2. \A i \in 1..Len(g) : g[i].n = Len(folder.found) + i /\ g[i].resolved = FALSE
        BY <4>1
      <4> QED BY <3>6, <4>1, <4>2
    <3> QED BY <3>5, <3>6
  <2>3. PICK items \in Seq(Items) : items = session[s].items \o g
    <3>1. PICK copy \in Seq(Items) : copy = session[s].items
      BY <1>1
    <3>2. copy \o g \in Seq(Items)
      BY <3>1, ConcatProperties, Zenon
    <3> QED BY <3>1, <3>2
  <2>4. PICK found \in Seq(Items) : found = folder.found \o g
    <3>1. PICK old \in Seq(Items) : old = folder.found
      BY <1>1
    <3>2. old \o g \in Seq(Items)
      BY <3>1, ConcatProperties, Zenon
    <3> QED BY <3>1, <3>2
  <2>5. session' = Saving(s, items) /\ folder' = [folder EXCEPT !.found = found, !.items = HalfFile]
    BY <1>2, <1>4, <2>2, <2>3, <2>4
  <2>6. /\ folder' \in Folders /\ folder'.items = HalfFile /\ folder'.found = found
        /\ folder'.asked = folder.asked /\ folder'.exempt = folder.exempt
    BY <1>1, <2>5, HalfIsNothing DEF Folders
  <2>7. PICK r \in SessionRecords : r.pc = "saving" /\ r.items = items /\ Becomes(s, r)
    BY <1>1, <2>5, SavingBecomes
  <2>8. \A x \in Seq(Items) : Genuine(x, folder.found) => Genuine(x, found)
    BY <1>1, <2>4, GenuineAppend
  <2>9. Genuine(items, found)
    BY <1>1, <2>3, <2>4, GenuineAppend
  <2>10. ~folder.exempt => Whole(items, found, folder.asked)
    <3> SUFFICES ASSUME ~folder.exempt PROVE Whole(items, found, folder.asked)
      OBVIOUS
    <3>1. Whole(session[s].items, folder.found, folder.asked)
      BY <1>1, OnlyMe DEF Open
    <3> QED BY <1>1, <2>2, <2>3, <2>4, <3>1, WholeAppend
  <2> QED BY <1>1, <2>6, <2>7, <2>8, <2>9, <2>10, StartsSaving
<1> QED BY <1>3, <1>4

LEMMA ResolvesOne ==
  ASSUME UnknownsInv, NEW s \in Sessions, Resolves(s)
  PROVE UnknownsInv'
<1>1. /\ session[s].pc = "open" /\ folder \in Folders /\ session \in [Sessions -> SessionRecords]
      /\ session[s] \in SessionRecords
      /\ session[s].items \in Seq(Items) /\ folder.found \in Seq(Items) /\ Genuine(session[s].items, folder.found)
  BY DEF Resolves, UnknownsInv, SessionRecords, Folders
<1>2. PICK copy \in Seq(Items) : copy = session[s].items
  BY <1>1, SMTT(30)
<1>3. PICK i \in 1..Len(copy) :
        /\ session' = [Saving(s, [copy EXCEPT ![WithId(copy, copy[i].id)].resolved = TRUE]) EXCEPT ![s].asked = session[s].asked]
        /\ folder' = [folder EXCEPT !.asked = @ \cup {copy[i].id}, !.items = HalfFile]
  <2>1. DOMAIN copy = 1..Len(copy)
    OBVIOUS
  <2> QED BY <1>2, <2>1 DEF Resolves
<1>4. PICK k \in 1..Len(copy) : k = WithId(copy, copy[i].id) /\ copy[k].id = copy[i].id /\ Heads(copy, k)
  BY WithIdIsFirst
<1>5. PICK marked : marked = [copy EXCEPT ![k].resolved = TRUE]
  OBVIOUS
<1>6. marked \in Seq(Items) /\ Genuine(marked, folder.found)
  BY <1>1, <1>2, <1>5, ItemResolved, GenuineResolved
<1>7. PICK r \in SessionRecords : r.pc = "saving" /\ r.items = marked /\ Becomes(s, r)
  <2>1. PICK q \in SessionRecords : q = session[s]
    BY <1>1
  <2>2. PICK r \in SessionRecords : r = [q EXCEPT !.pc = "saving", !.items = marked]
    BY <1>6 DEF SessionRecords
  <2>3. r.pc = "saving" /\ r.items = marked
    BY <1>6, <2>2 DEF SessionRecords
  <2>4. PICK p \in SessionRecords : p = [q EXCEPT !.pc = "saving", !.items = marked, !.asked = "none"]
    BY <1>6 DEF SessionRecords
  <2>5. Saving(s, marked) = [session EXCEPT ![s] = p]
    BY <2>1, <2>4 DEF Saving
  <2>6. [p EXCEPT !.asked = q.asked] = r
    BY <2>2, <2>4 DEF SessionRecords
  <2>7. [[session EXCEPT ![s] = p] EXCEPT ![s].asked = q.asked] = [session EXCEPT ![s] = r]
    BY <1>1, <2>6
  <2>8. session' = [session EXCEPT ![s] = r]
    BY <1>3, <1>4, <1>5, <2>1, <2>5, <2>7
  <2> QED BY <2>3, <2>8 DEF Becomes
<1>8. PICK asked \in SUBSET (Int \X Int) : asked = folder.asked \cup {copy[k].id}
  <2>1. copy[k] \in Items
    OBVIOUS
  <2>2. copy[k].id \in Int \X Int
    BY <2>1 DEF Items
  <2> QED BY <1>1, <2>2 DEF Folders
<1>9. folder' = [folder EXCEPT !.asked = asked, !.items = HalfFile]
  BY <1>3, <1>4, <1>8
<1>10. /\ folder' \in Folders /\ folder'.items = HalfFile /\ folder'.found = folder.found
       /\ folder'.asked = asked /\ folder'.exempt = folder.exempt
  BY <1>1, <1>9, HalfIsNothing DEF Folders
<1>11. ~folder.exempt => Whole(marked, folder.found, asked)
  <2> SUFFICES ASSUME ~folder.exempt PROVE Whole(marked, folder.found, asked)
    OBVIOUS
  <2>1. Whole(copy, folder.found, folder.asked)
    BY <1>1, <1>2, OnlyMe DEF Open
  <2> QED BY <1>1, <1>4, <1>5, <1>8, <2>1, WholeResolved
<1> QED BY <1>1, <1>6, <1>7, <1>10, <1>11, StartsSaving

LEMMA UnknownsStart == UnknownsInit => UnknownsInv
<1> SUFFICES ASSUME UnknownsInit PROVE UnknownsInv
  OBVIOUS
<1>1. folder = [items |-> <<>>, plan |-> FALSE, second |-> 0, found |-> <<>>, asked |-> {}, exempt |-> FALSE, openings |-> 0]
  BY DEF UnknownsInit, UnknownsFresh
<1>2. PICK e \in Seq(Items) : e = <<>>
  BY EmptyIsGenuine
<1>3. folder \in Folders /\ folder.items = e /\ folder.found = e /\ folder.asked = {}
  BY <1>1, <1>2 DEF Folders
<1>4. session \in [Sessions -> SessionRecords] /\ \A s \in Sessions : session[s] = NoSession
  BY NothingOpen DEF UnknownsInit
<1>5. Genuine(e, e) /\ Whole(e, e, {})
  BY <1>2 DEF Genuine, Whole
<1>6. \A s \in Sessions : session[s].pc = "closed" /\ session[s].items = e
  BY <1>2, <1>4, NothingOpen
<1>7. Alone
  BY <1>3, <1>5, <1>6 DEF Alone, Open
<1> QED BY <1>3, <1>4, <1>5, <1>6, <1>7 DEF UnknownsInv

LEMMA UnknownsStep == UnknownsInv /\ [UnknownsNext]_unknownsVars => UnknownsInv'
<1> SUFFICES ASSUME UnknownsInv, [UnknownsNext]_unknownsVars PROVE UnknownsInv'
  OBVIOUS
<1>1. DOMAIN session = Sessions
  BY DEF UnknownsInv
<1>2. ASSUME session' = session, folder' \in Folders, SameFile, folder'.exempt = folder.exempt PROVE UnknownsInv'
  <2>1. Alone => Alone'
    BY <1>2 DEF Alone, Open, SameFile
  <2> QED BY <1>2, <2>1 DEF UnknownsInv, SameFile
<1>3. CASE SecondPasses
  <2>1. folder \in Folders /\ folder' = [folder EXCEPT !.second = @ + 1] /\ session' = session
    BY <1>3 DEF SecondPasses, UnknownsInv
  <2>2. PICK n \in Nat : n = folder.second + 1
    BY <2>1 DEF Folders
  <2>3. folder' = [folder EXCEPT !.second = n]
    BY <2>1, <2>2
  <2>4. folder' \in Folders /\ SameFile /\ folder'.exempt = folder.exempt
    BY <2>1, <2>3 DEF Folders, SameFile
  <2> QED BY <1>2, <2>1, <2>4
<1>4. CASE UNCHANGED unknownsVars
  BY <1>2, <1>4 DEF unknownsVars, SameFile, UnknownsInv
<1>5. ASSUME NEW s \in Sessions, SessionOpens(s) \/ SessionCloses(s) \/ SaveDone(s) \/ PassEnds(s) \/ Resolves(s)
      PROVE UnknownsInv'
  BY <1>5, Opens, Closes, Saves, PassFinds, ResolvesOne
<1>6. ASSUME NEW s \in Sessions, NEW kind \in {"blind-spot", "interview", "answer", "plan"},
             Asks(s, kind) \/ InterviewEnds(s) \/ AnswerReturned(s) \/ PlanEnds(s)
      PROVE UnknownsInv'
  BY <1>6, AsksAndAnswers
<1> QED BY <1>1, <1>3, <1>4, <1>5, <1>6 DEF UnknownsNext

LEMMA UnknownsInvKept == UnknownsInv => UnknownsKept
<1> SUFFICES ASSUME UnknownsInv PROVE UnknownsKept
  OBVIOUS
<1>1. DOMAIN session = Sessions /\ folder.items \in Seq(Items) /\ folder.found \in Seq(Items)
  BY DEF UnknownsInv, Folders
<1>2. DOMAIN folder.items = 1..Len(folder.items) /\ DOMAIN folder.found = 1..Len(folder.found)
  BY <1>1
<1>3. ASSUME folder.items # HalfFile, NEW i \in DOMAIN folder.items
      PROVE \E j \in DOMAIN folder.found : folder.items[i] \in {folder.found[j], [folder.found[j] EXCEPT !.resolved = TRUE]}
  BY <1>2, <1>3 DEF UnknownsInv, Genuine
<1>4. ASSUME ~folder.exempt, \A s \in DOMAIN session : session[s].pc # "saving"
      PROVE Whole(folder.items, folder.found, folder.asked)
  BY <1>1, <1>4 DEF UnknownsInv, Alone
<1>5. ASSUME NEW i \in DOMAIN folder.items PROVE folder.items[i].resolved \in BOOLEAN
  <2>1. PICK u \in Items : u = folder.items[i]
    BY <1>1, <1>2
  <2> QED BY <2>1 DEF Items
<1> QED BY <1>2, <1>3, <1>4, <1>5 DEF UnknownsKept, Whole, Heads

\* For any number of sessions, unknowns and seconds, alone or at once: one session at a time loses and
\* revives nothing, and an id that was resolved marks its first bearer; sessions at once make nothing up.
THEOREM UnknownsAreKept == UnknownsSpec => []UnknownsKept
<1>1. UnknownsSpec => []UnknownsInv
  BY UnknownsStart, UnknownsStep, PTL DEF UnknownsSpec
<1> QED BY <1>1, UnknownsInvKept, PTL

-----------------------------------------------------------------------------
(* The loop runner: its invariant has a part for each of the four things it keeps. *)

Cycles == [n : Nat, kind : {"passed", "failed", "error"}]
Outcomes == [success : BOOLEAN, retries : Int]
RunShape(l) ==
  /\ l = [pc |-> l.pc, mode |-> l.mode, verifiers |-> l.verifiers, evolves |-> l.evolves, attempt |-> l.attempt,
          count |-> l.count, ran |-> l.ran, retries |-> l.retries, streak |-> l.streak, iteration |-> l.iteration,
          best |-> l.best, result |-> l.result, ended |-> l.ended, restarts |-> l.restarts]
  /\ l.attempt \in Nat /\ l.retries \in Nat /\ l.ran \in Seq(Cycles)
  /\ l.best \in Outcomes /\ l.result \in Outcomes /\ l.ended \in SUBSET Outcomes
Memories == [entries : Seq(Cycles), file : Seq(Cycles), serial : Nat, faulty : BOOLEAN]

Rising(s) == \A i \in 2..Len(s) : s[i - 1].n < s[i].n
Past(s, n) == \A i \in 1..Len(s) : s[i].n <= n
Gapless(s, n) == \A i \in 1..Len(s) : s[i].n = n - Len(s) + i
Distinct(s) == \A i, j \in 1..Len(s) : s[i] = s[j] => i = j

MemoryInv ==
  /\ memory \in Memories
  /\ Rising(memory.entries) /\ Past(memory.entries, memory.serial)
  /\ Rising(memory.file) /\ Past(memory.file, memory.serial)
  /\ memory.faulty = FALSE => memory.file = memory.entries /\ Gapless(memory.entries, memory.serial)

MiningInv ==
  /\ mining = [traces |-> mining.traces, records |-> mining.records, bullets |-> mining.bullets,
               file |-> mining.file, dropped |-> mining.dropped]
  /\ mining.traces \in Seq(Cycles) /\ mining.records \in Seq(Cycles) /\ Distinct(mining.records)

Best(b, E) ==
  /\ \A r \in E : r.retries \in Nat
  /\ b = NoResult <=> E = {}
  /\ E # {} => b \in E
  /\ \A r \in E : r.success = TRUE => b.success = TRUE /\ b.retries <= r.retries

BestInv ==
  /\ RunShape(loop)
  /\ loop.pc = "ended" => loop.result.retries \in Nat
  /\ Best(loop.best, loop.ended)

HarnessInv ==
  /\ harness = [history |-> harness.history, rejected |-> harness.rejected]
  /\ harness.history \in Seq([in : Int, out : Int])
  /\ \A i \in 1..Len(harness.history) :
       /\ harness.history[i].out = 100
       /\ i > 1 => harness.history[i].in >= harness.history[i - 1].in + Improvement

LoopInv == MemoryInv /\ MiningInv /\ BestInv /\ HarnessInv

\* Among the first places, the k-th of a set is where the set has k.
LEMMA KthPlace ==
  ASSUME NEW n \in Nat, NEW I, I \subseteq 1..n, NEW k \in 1..Cardinality(I)
  PROVE \E i \in I : Cardinality({j \in I : j <= i}) = k
<1> DEFINE B(m) == {j \in I : j <= m}
<1>0. \A j \in I : j \in Nat /\ 1 <= j /\ j <= n
  OBVIOUS
<1>1. IsFiniteSet(I) /\ Cardinality(I) \in Nat
  <2>1. IsFiniteSet(1..n)
    BY FS_Interval
  <2> QED BY <2>1, FS_Subset, FS_CardinalityType
<1>2. ASSUME NEW m \in Nat PROVE IsFiniteSet(B(m)) /\ Cardinality(B(m)) \in Nat
  <2>1. B(m) \subseteq I
    OBVIOUS
  <2> QED BY <1>1, <2>1, FS_Subset, FS_CardinalityType
<1>3. B(n) = I
  BY <1>0
<1>4. Cardinality(B(0)) = 0
  <2>1. ASSUME NEW x \in I PROVE ~(x <= 0)
    BY <1>0
  <2>2. B(0) = {}
    BY <2>1
  <2> QED BY <2>2, FS_EmptySet
<1>5. ASSUME NEW m \in Nat, m - 1 \in Nat, m \in I PROVE Cardinality(B(m)) = Cardinality(B(m - 1)) + 1
  <2>0. ASSUME NEW x \in I PROVE x <= m <=> x <= m - 1 \/ x = m
    BY <1>0, <1>5
  <2>1. m \notin B(m - 1) /\ m \in B(m) /\ m \in I
    BY <1>5
  <2>2. ASSUME NEW x PROVE x \in B(m) <=> x \in B(m - 1) \cup {m}
    BY <2>0, <2>1
  <2>3. B(m) = B(m - 1) \cup {m}
    BY <2>2
  <2> HIDE DEF B
  <2> QED BY <1>2, <1>5, <2>1, <2>3, FS_AddElement
<1>6. ASSUME NEW m \in Nat, m - 1 \in Nat, m \notin I PROVE Cardinality(B(m)) = Cardinality(B(m - 1))
  <2>0. ASSUME NEW x \in I PROVE x <= m <=> x <= m - 1
    BY <1>0, <1>6
  <2>1. B(m) = B(m - 1)
    BY <2>0
  <2> QED BY <2>1
<1> HIDE DEF B
<1> DEFINE T == {m \in Nat : Cardinality(B(m)) >= k}
<1>7. k \in Nat \ {0} /\ n \in T
  BY <1>1, <1>3
<1>8. PICK m \in T : \A x \in T : m <= x
  <2>1. T \subseteq Nat /\ T # {}
    BY <1>7
  <2> HIDE DEF T
  <2> QED BY <2>1, LeastNat
<1>9. m \in Nat /\ m - 1 \in Nat /\ Cardinality(B(m)) >= k
  BY <1>4, <1>7, <1>8
<1>10. PICK a \in Nat, b \in Nat : a = Cardinality(B(m)) /\ b = Cardinality(B(m - 1))
  BY <1>2, <1>9
<1>11. b < k
  <2>1. m - 1 \notin T
    BY <1>8, <1>9
  <2> QED BY <1>7, <1>9, <1>10, <2>1
<1>12. m \in I /\ a = k
  BY <1>5, <1>6, <1>7, <1>9, <1>10, <1>11
<1> QED BY <1>10, <1>12 DEF B

\* A selection is made of items of the sequence, each place once and in order.
LEMMA SelectedIs ==
  ASSUME NEW S, NEW s \in Seq(S), NEW I, I \subseteq DOMAIN s
  PROVE /\ Selected(s, I) \in Seq(S)
        /\ \E at \in [1..Len(Selected(s, I)) -> I] :
             /\ \A k \in 1..Len(Selected(s, I)) : Selected(s, I)[k] = s[at[k]]
             /\ \A k, l \in 1..Len(Selected(s, I)) : at[k] = at[l] => k = l
<1> DEFINE At(k) == CHOOSE i \in I : Cardinality({j \in I : j <= i}) = k
           c == Cardinality(I)
           z == Selected(s, I)
<1>1. Len(s) \in Nat /\ I \subseteq 1..Len(s) /\ \A i \in 1..Len(s) : s[i] \in S
  OBVIOUS
<1>2. c \in Nat
  <2>1. IsFiniteSet(1..Len(s))
    BY <1>1, FS_Interval
  <2> QED BY <1>1, <2>1, FS_Subset, FS_CardinalityType
<1>3. ASSUME NEW k \in 1..c PROVE At(k) \in I /\ Cardinality({j \in I : j <= At(k)}) = k
  <2>1. k \in 1..Cardinality(I)
    OBVIOUS
  <2>3. PICK n \in Nat : I \subseteq 1..n
    BY <1>1
  <2> HIDE DEF c, z, At
  <2>2. \E i \in I : Cardinality({j \in I : j <= i}) = k
    BY <2>1, <2>3, KthPlace
  <2> QED BY <2>2 DEF At
<1>4. z = [k \in 1..c |-> s[At(k)]]
  BY DEF Selected
<1>5. \A k, l \in 1..c : At(k) = At(l) => k = l
  BY <1>3
<1> HIDE DEF At
<1>6. \A k \in 1..c : s[At(k)] \in S
  BY <1>1, <1>3
<1>7. z \in Seq(S) /\ Len(z) = c
  BY <1>2, <1>4, <1>6
<1>8. [k \in 1..c |-> At(k)] \in [1..c -> I]
  BY <1>3
<1>9. \A k \in 1..c : z[k] = s[[x \in 1..c |-> At(x)][k]]
  BY <1>4
<1>10. \A k, l \in 1..c : [x \in 1..c |-> At(x)][k] = [x \in 1..c |-> At(x)][l] => k = l
  BY <1>5
<1>11. PICK at \in [1..c -> I] : at = [x \in 1..c |-> At(x)]
  BY <1>8
<1> HIDE DEF c, z
<1>12. /\ \A k \in 1..Len(z) : z[k] = s[at[k]]
       /\ \A k, l \in 1..Len(z) : at[k] = at[l] => k = l
  BY <1>7, <1>9, <1>10, <1>11
<1>13. at \in [1..Len(z) -> I]
  BY <1>7, <1>11
<1> QED BY <1>7, <1>12, <1>13 DEF z

\* What is mined is mined once, whatever it is handed.
LEMMA IngestedOnce ==
  ASSUME NEW records \in Seq(Cycles), NEW traces \in Seq(Cycles), Distinct(records)
  PROVE Ingested(records, traces) \in Seq(Cycles) /\ Distinct(Ingested(records, traces))
<1> DEFINE I == Unseen(records, traces)
           z == Selected(traces, I)
           r == Ingested(records, traces)
<1>1. I \subseteq DOMAIN traces
  BY DEF Unseen
<1>2. /\ DOMAIN traces = 1..Len(traces) /\ Len(traces) \in Nat
      /\ \A i \in I : \A j \in 1..Len(records) : records[j] # traces[i]
      /\ \A i \in I : \A j \in 1..(i - 1) : traces[j] # traces[i]
  BY DEF Unseen, Contains
<1> HIDE DEF I
<1>3. PICK at \in [1..Len(z) -> I] :
        /\ \A k \in 1..Len(z) : z[k] = traces[at[k]]
        /\ \A k, l \in 1..Len(z) : at[k] = at[l] => k = l
  <2>1. \E at \in [1..Len(Selected(traces, I)) -> I] :
          /\ \A k \in 1..Len(Selected(traces, I)) : Selected(traces, I)[k] = traces[at[k]]
          /\ \A k, l \in 1..Len(Selected(traces, I)) : at[k] = at[l] => k = l
    <3> HIDE DEF z, r
    <3> QED BY <1>1, SelectedIs, SMTT(60)
  <2> QED BY <2>1, Zenon
<1>4. z \in Seq(Cycles)
  BY <1>1, SelectedIs, ZenonT(60)
<1>5. r = records \o z
  BY DEF Ingested, I
<1> HIDE DEF z, r
<1>6. /\ Len(records) \in Nat /\ Len(z) \in Nat /\ r \in Seq(Cycles) /\ Len(r) = Len(records) + Len(z)
      /\ \A k \in 1..(Len(records) + Len(z)) : r[k] = IF k <= Len(records) THEN records[k] ELSE z[k - Len(records)]
  BY <1>4, <1>5, ConcatProperties
<1>7. ASSUME NEW i \in I, NEW j \in I, traces[i] = traces[j] PROVE i = j
  <2>1. i \in Nat /\ j \in Nat /\ i >= 1 /\ j >= 1
    BY <1>1, <1>2
  <2>2. CASE i < j
    <3>1. i \in 1..(j - 1)
      BY <2>1, <2>2
    <3> QED BY <1>2, <1>7, <3>1
  <2>3. CASE j < i
    <3>1. j \in 1..(i - 1)
      BY <2>1, <2>3
    <3> QED BY <1>2, <1>7, <3>1
  <2> QED BY <2>1, <2>2, <2>3
<1>8. \A k, l \in 1..Len(z) : z[k] = z[l] => k = l
  BY <1>3, <1>7
<1>9. \A k \in 1..Len(z), j \in 1..Len(records) : z[k] # records[j]
  BY <1>2, <1>3
<1>10. ASSUME NEW i \in 1..Len(r), NEW j \in 1..Len(r), r[i] = r[j] PROVE i = j
  <2>1. ASSUME NEW k \in 1..Len(r), k > Len(records) PROVE k - Len(records) \in 1..Len(z) /\ r[k] = z[k - Len(records)]
    BY <1>6, <2>1
  <2>2. ASSUME NEW k \in 1..Len(r), ~(k > Len(records)) PROVE k \in 1..Len(records) /\ r[k] = records[k]
    BY <1>6, <2>2
  <2>3. CASE i > Len(records) /\ j > Len(records)
    <3>1. i - Len(records) = j - Len(records)
      BY <1>8, <1>10, <2>1, <2>3
    <3> QED BY <1>6, <3>1
  <2>4. CASE ~(i > Len(records)) /\ ~(j > Len(records))
    BY <1>10, <2>2, <2>4 DEF Distinct
  <2>5. CASE i > Len(records) /\ ~(j > Len(records))
    BY <1>9, <1>10, <2>1, <2>2, <2>5
  <2>6. CASE ~(i > Len(records)) /\ j > Len(records)
    BY <1>9, <1>10, <2>1, <2>2, <2>6
  <2> QED BY <2>3, <2>4, <2>5, <2>6
<1>11. r \in Seq(Cycles) /\ Distinct(r)
  BY <1>6, <1>10 DEF Distinct
<1> QED BY <1>11 DEF r

\* The last of a sequence.
LEMMA LastOfIs ==
  ASSUME NEW s \in Seq(Cycles), NEW n \in Nat
  PROVE \E d \in Nat : /\ LastOf(s, n) \in Seq(Cycles) /\ Len(LastOf(s, n)) = Len(s) - d /\ d <= Len(s)
                       /\ \A i \in 1..(Len(s) - d) : LastOf(s, n)[i] = s[i + d]
<1>1. CASE Len(s) <= n
  <2>1. LastOf(s, n) = s
    BY <1>1 DEF LastOf
  <2>2. /\ s \in Seq(Cycles) /\ Len(s) = Len(s) - 0 /\ 0 \in Nat /\ 0 <= Len(s)
        /\ \A i \in 1..(Len(s) - 0) : s[i] = s[i + 0]
    OBVIOUS
  <2> QED BY <2>1, <2>2
<1>2. CASE Len(s) > n
  <2>1. PICK d \in Nat : d = Len(s) - n
    BY <1>2
  <2>2. LastOf(s, n) = SubSeq(s, d + 1, Len(s))
    BY <1>2, <2>1, SMTT(30) DEF LastOf
  <2>3. /\ SubSeq(s, d + 1, Len(s)) \in Seq(Cycles) /\ Len(SubSeq(s, d + 1, Len(s))) = Len(s) - d
        /\ \A i \in 1..(Len(s) - d) : SubSeq(s, d + 1, Len(s))[i] = s[i + d]
    <3>1. Len(s) \in Nat /\ d + 1 \in Int /\ \A i \in (d + 1)..Len(s) : s[i] \in Cycles
      BY <2>1
    <3>2. d + 1 <= Len(s) \/ n = 0
      BY <1>2, <2>1, <3>1
    <3>3. Len(s) - (d + 1) + 1 = Len(s) - d /\ \A i \in 1..(Len(s) - d) : (d + 1) + i - 1 = i + d
      BY <2>1, <3>1
    <3>4. Len(SubSeq(s, d + 1, Len(s))) = Len(s) - d
      BY <1>2, <2>1, <3>1, <3>2, SubSeqProperties
    <3>5. SubSeq(s, d + 1, Len(s)) \in Seq(Cycles) /\ \A i \in 1..(Len(s) - (d + 1) + 1) : SubSeq(s, d + 1, Len(s))[i] = s[(d + 1) + i - 1]
      BY <3>1, SubSeqProperties
    <3> QED BY <3>3, <3>4, <3>5
  <2>4. d <= Len(s) /\ d \in Nat
    BY <1>2, <2>1
  <2> QED BY <2>2, <2>3, <2>4
<1> QED BY <1>1, <1>2, SMTT(30)

\* What holds of the order of cycles holds of the last of them.
LEMMA ShiftKeeps ==
  ASSUME NEW a \in Seq(Cycles), NEW b \in Seq(Cycles), NEW d \in Nat, NEW m \in Nat, Len(b) = Len(a) - d, d <= Len(a),
         \A i \in 1..(Len(a) - d) : b[i] = a[i + d]
  PROVE /\ Rising(a) => Rising(b)
        /\ Past(a, m) => Past(b, m)
        /\ Gapless(a, m) => Gapless(b, m)
<1>1. Len(a) \in Nat /\ Len(b) \in Nat
  OBVIOUS
<1>2. ASSUME NEW i \in 1..Len(b) PROVE i + d \in 1..Len(a) /\ b[i] = a[i + d]
  BY <1>1
<1>3. ASSUME Rising(a), NEW i \in 2..Len(b) PROVE b[i - 1].n < b[i].n
  <2>1. i \in 1..Len(b) /\ i - 1 \in 1..Len(b) /\ i + d \in 2..Len(a)
    BY <1>1
  <2>2. (i - 1) + d = (i + d) - 1
    BY <1>1
  <2>3. b[i] = a[i + d] /\ b[i - 1] = a[(i + d) - 1]
    BY <1>2, <2>1, <2>2
  <2>4. a[(i + d) - 1].n < a[i + d].n
    BY <1>3, <2>1 DEF Rising
  <2> QED BY <2>3, <2>4
<1>4. ASSUME Past(a, m), NEW i \in 1..Len(b) PROVE b[i].n <= m
  BY <1>2, <1>4 DEF Past
<1>5. ASSUME Gapless(a, m), NEW i \in 1..Len(b) PROVE b[i].n = m - Len(b) + i
  <2>1. a[i + d].n = m - Len(a) + (i + d)
    BY <1>2, <1>5 DEF Gapless
  <2> QED BY <1>1, <1>2, <2>1
<1> QED BY <1>3, <1>4, <1>5 DEF Rising, Past, Gapless

\* A new cycle goes to the end.
LEMMA AppendKeeps ==
  ASSUME NEW s \in Seq(Cycles), NEW m \in Nat, NEW c \in Cycles, c.n = m + 1, Past(s, m)
  PROVE /\ Append(s, c) \in Seq(Cycles) /\ Past(Append(s, c), m + 1)
        /\ Rising(s) => Rising(Append(s, c))
        /\ Gapless(s, m) => Gapless(Append(s, c), m + 1)
<1>1. PICK a \in Seq(Cycles) : a = Append(s, c)
  BY AppendProperties
<1>2. /\ Len(s) \in Nat /\ Len(a) = Len(s) + 1 /\ \A i \in 1..Len(s) : a[i] = s[i] /\ s[i].n \in Nat
      /\ a[Len(s) + 1] = c
  <2>1. \A i \in 1..Len(s) : s[i] \in Cycles
    OBVIOUS
  <2>2. \A i \in 1..Len(s) : s[i].n \in Nat
    BY <2>1 DEF Cycles
  <2> QED BY <1>1, <2>2, AppendProperties
<1>3. Past(a, m + 1)
  <2> SUFFICES ASSUME NEW i \in 1..Len(a) PROVE a[i].n <= m + 1
    BY DEF Past
  <2>1. CASE i \in 1..Len(s)
    BY <1>2, <2>1 DEF Past
  <2>2. CASE i = Len(s) + 1
    BY <1>2, <2>2
  <2> QED BY <1>2, <2>1, <2>2
<1>4. ASSUME Rising(s) PROVE Rising(a)
  <2> SUFFICES ASSUME NEW i \in 2..Len(a) PROVE a[i - 1].n < a[i].n
    BY DEF Rising
  <2>1. CASE i \in 2..Len(s)
    <3>1. i - 1 \in 1..Len(s) /\ i \in 1..Len(s) /\ s[i - 1].n < s[i].n
      BY <1>2, <1>4, <2>1 DEF Rising
    <3> QED BY <1>2, <3>1
  <2>2. CASE i = Len(s) + 1
    <3>1. i - 1 \in 1..Len(s) /\ i - 1 = Len(s)
      BY <1>2, <2>2
    <3>2. s[i - 1].n <= m /\ s[i - 1].n \in Nat
      BY <1>2, <3>1 DEF Past
    <3> QED BY <1>2, <2>2, <3>1, <3>2
  <2> QED BY <1>2, <2>1, <2>2
<1>5. ASSUME Gapless(s, m) PROVE Gapless(a, m + 1)
  <2> SUFFICES ASSUME NEW i \in 1..Len(a) PROVE a[i].n = (m + 1) - Len(a) + i
    BY DEF Gapless
  <2>1. CASE i \in 1..Len(s)
    <3>1. s[i].n = m - Len(s) + i
      BY <1>5, <2>1 DEF Gapless
    <3> QED BY <1>2, <2>1, <3>1
  <2>2. CASE i = Len(s) + 1
    BY <1>2, <2>2
  <2> QED BY <1>2, <2>1, <2>2
<1> QED BY <1>1, <1>3, <1>4, <1>5

\* A cycle is remembered: the file follows, or a save has failed.
LEMMA MemoryKeeps ==
  ASSUME MemoryInv, NEW kind \in {"passed", "failed", "error"}, memory' \in Remembered(memory, ThisCycle(kind))
  PROVE MemoryInv'
<1>1. PICK e \in Seq(Cycles), m \in Nat : e = memory.entries /\ m = memory.serial
  BY DEF MemoryInv, Memories
<1>2. PICK c \in Cycles : c = ThisCycle(kind) /\ c.n = m + 1
  BY <1>1 DEF ThisCycle, Cycles
<1>3. Rising(e) /\ Past(e, m) /\ (memory.faulty = FALSE => Gapless(e, m))
  BY <1>1 DEF MemoryInv
<1>4. PICK a \in Seq(Cycles) : a = Append(e, c)
  BY AppendProperties
<1>5. Rising(a) /\ Past(a, m + 1) /\ (memory.faulty = FALSE => Gapless(a, m + 1))
  BY <1>2, <1>3, <1>4, AppendKeeps
<1>6. PICK d \in Nat : /\ LastOf(a, MemorySize) \in Seq(Cycles) /\ Len(LastOf(a, MemorySize)) = Len(a) - d /\ d <= Len(a)
                       /\ \A i \in 1..(Len(a) - d) : LastOf(a, MemorySize)[i] = a[i + d]
  <2>1. MemorySize \in Nat
    BY LoopAssumption
  <2> QED BY <2>1, LastOfIs
<1>7. PICK b \in Seq(Cycles) : b = LastOf(a, MemorySize)
  BY <1>6
<1>8. Rising(b) /\ Past(b, m + 1) /\ (memory.faulty = FALSE => Gapless(b, m + 1))
  <2>1. Len(b) = Len(a) - d /\ d <= Len(a) /\ \A i \in 1..(Len(a) - d) : b[i] = a[i + d]
    BY <1>6, <1>7
  <2>2. m + 1 \in Nat
    OBVIOUS
  <2> QED BY <1>5, <2>1, <2>2, ShiftKeeps
<1>9. PICK now \in Memories : now = [memory EXCEPT !.entries = b, !.serial = m + 1]
  <2>1. memory \in Memories /\ m + 1 \in Nat
    BY DEF MemoryInv
  <2> QED BY <2>1 DEF Memories
<1>10. now.entries = b /\ now.serial = m + 1 /\ now.file = memory.file /\ now.faulty = memory.faulty
  BY <1>1, <1>9 DEF MemoryInv, Memories
<1>11. memory' = [now EXCEPT !.file = b] \/ memory' = [now EXCEPT !.faulty = TRUE]
  BY <1>1, <1>2, <1>4, <1>7, <1>9 DEF Remembered
<1>12. Past(memory.file, m + 1) /\ Rising(memory.file)
  <2>1. PICK f \in Seq(Cycles) : f = memory.file
    BY DEF MemoryInv, Memories
  <2>2. \A i \in 1..Len(f) : f[i] \in Cycles
    OBVIOUS
  <2>3. \A i \in 1..Len(f) : f[i].n \in Nat /\ f[i].n <= m
    BY <1>1, <2>1, <2>2 DEF MemoryInv, Past, Cycles
  <2> QED BY <2>1, <2>3 DEF MemoryInv, Past
<1>13. CASE memory' = [now EXCEPT !.file = b]
  <2>1. /\ memory' \in Memories /\ memory'.entries = b /\ memory'.file = b /\ memory'.serial = m + 1
        /\ memory'.faulty = memory.faulty
    BY <1>10, <1>13 DEF Memories
  <2> QED BY <1>8, <2>1 DEF MemoryInv
<1>14. CASE memory' = [now EXCEPT !.faulty = TRUE]
  <2>1. /\ memory' \in Memories /\ memory'.entries = b /\ memory'.file = memory.file /\ memory'.serial = m + 1
        /\ memory'.faulty = TRUE
    BY <1>10, <1>14 DEF Memories
  <2> QED BY <1>8, <1>12, <2>1 DEF MemoryInv
<1> QED BY <1>11, <1>13, <1>14

\* The best of the runs that have ended.
LEMMA BestGrows ==
  ASSUME NEW b \in Outcomes, NEW E, E \subseteq Outcomes, Best(b, E), NEW r \in Outcomes, r.retries \in Nat
  PROVE Best(IF BetterRun(r, b) THEN r ELSE b, E \cup {r})
<1>1. r # NoResult /\ \A x \in E : x # NoResult /\ x.retries \in Nat
  BY DEF NoResult, Best
<1>2. CASE b = NoResult
  <2>1. E = {} /\ BetterRun(r, b)
    BY <1>2 DEF Best, BetterRun
  <2>2. Best(r, {r})
    BY <1>1 DEF Best
  <2> QED BY <2>1, <2>2
<1>3. CASE b # NoResult
  <2>1. b \in E /\ b.retries \in Nat /\ \A x \in E : x.success = TRUE => b.success = TRUE /\ b.retries <= x.retries
    BY <1>3 DEF Best
  <2>2. BetterRun(r, b) <=> r.success = TRUE /\ (b.success = FALSE \/ r.retries < b.retries)
    BY <1>3 DEF BetterRun, Outcomes
  <2>3. ASSUME BetterRun(r, b) PROVE Best(r, E \cup {r})
    <3>1. ASSUME NEW x \in E \cup {r}, x.success = TRUE PROVE r.success = TRUE /\ r.retries <= x.retries
      BY <1>1, <2>1, <2>2, <2>3, <3>1
    <3> QED BY <1>1, <3>1 DEF Best
  <2>4. ASSUME ~BetterRun(r, b) PROVE Best(b, E \cup {r})
    <3>1. ASSUME NEW x \in E \cup {r}, x.success = TRUE PROVE b.success = TRUE /\ b.retries <= x.retries
      BY <1>1, <2>1, <2>2, <2>4, <3>1 DEF Outcomes
    <3> QED BY <1>1, <1>3, <2>1, <3>1 DEF Best
  <2> QED BY <2>3, <2>4
<1> QED BY <1>2, <1>3

LEMMA BestKept ==
  ASSUME BestInv, RunShape(loop)', loop'.best = loop.best, loop'.ended = loop.ended,
         loop'.pc = "ended" => loop'.result.retries \in Nat
  PROVE BestInv'
BY DEF BestInv

LEMMA BeganIs ==
  ASSUME NEW l, RunShape(l)
  PROVE /\ RunShape(Began(l)) /\ Began(l).pc = "processing" /\ Began(l).best = l.best /\ Began(l).ended = l.ended
<1>2. Began(l) = [l EXCEPT !.pc = "processing", !.count = l.count + 1]
  BY DEF Began
<1>3. RunShape(Began(l))
  BY <1>2 DEF RunShape
<1>4. Began(l).pc = "processing" /\ Began(l).best = l.best /\ Began(l).ended = l.ended
  BY <1>2 DEF RunShape
<1> QED BY <1>3, <1>4

LEMMA MiningKept ==
  ASSUME MiningInv,
         mining' = [traces |-> mining'.traces, records |-> mining'.records, bullets |-> mining'.bullets,
                    file |-> mining'.file, dropped |-> mining'.dropped],
         mining'.traces = mining.traces, mining'.records = mining.records
  PROVE MiningInv'
BY DEF MiningInv

\* Bullets and their file are not what is mined.
LEMMA BulletsKeep ==
  ASSUME MiningInv, NEW b, NEW f, NEW m,
         m = [traces |-> mining.traces, records |-> mining.records, bullets |-> b, file |-> f, dropped |-> mining.dropped],
         mining' = m
  PROVE MiningInv'
BY DEF MiningInv

LEMMA CuratedKeeps ==
  ASSUME MiningInv, NEW c, mining' \in Curated(mining, c)
  PROVE MiningInv'
<1> DEFINE bullets == Reflected(mining.bullets, c.kind)
<1>1. mining' \in {mining, [mining EXCEPT !.bullets = bullets, !.file = bullets], [mining EXCEPT !.bullets = bullets]}
  BY DEF Curated
<1> HIDE DEF bullets
<1>2. CASE mining' = mining
  BY <1>2 DEF MiningInv
<1>3. CASE mining' = [mining EXCEPT !.bullets = bullets, !.file = bullets]
  BY <1>3 DEF MiningInv
<1>4. CASE mining' = [mining EXCEPT !.bullets = bullets]
  BY <1>4 DEF MiningInv
<1> QED BY <1>1, <1>2, <1>3, <1>4

LEMMA MinedKeeps ==
  ASSUME MiningInv, NEW traces \in Seq(Cycles), mining' = [mining EXCEPT !.records = Ingested(mining.records, traces)]
  PROVE MiningInv'
<1>1. PICK r \in Seq(Cycles) : r = Ingested(mining.records, traces) /\ Distinct(r)
  BY IngestedOnce DEF MiningInv
<1>2. mining' = [mining EXCEPT !.records = r]
  BY <1>1
<1> QED BY <1>1, <1>2 DEF MiningInv

LEMMA FailedOfIs ==
  ASSUME NEW s \in Seq(Cycles) PROVE FailedOf(s) \in Seq(Cycles)
<1> DEFINE I == {i \in DOMAIN s : s[i].kind # "passed"}
<1>1. I \subseteq DOMAIN s /\ FailedOf(s) = Selected(s, I)
  BY DEF FailedOf
<1> HIDE DEF I
<1> QED BY <1>1, SelectedIs

\* A share of at most all, in percent.
LEMMA PercentBounded ==
  ASSUME NEW p \in Nat, NEW m \in Nat \ {0}, p <= m
  PROVE (100 * p) \div m \in Int /\ (100 * p) \div m <= 100
<1>1. PICK q \in Int : q = (100 * p) \div m
  OBVIOUS
<1>2. q * m <= 100 * p
  BY <1>1
<1>3. ASSUME q >= 101 PROVE FALSE
  <2>1. 101 * m <= q * m
    BY <1>3
  <2> QED BY <1>2, <2>1
<1> QED BY <1>1, <1>3

LEMMA PassRateBounded ==
  ASSUME NEW T, IsFiniteSet(T), NEW outcome \in [T -> {"pass", "fail", "crash"}]
  PROVE PassRate(outcome) \in Int /\ PassRate(outcome) <= 100
<1> DEFINE F == {t \in DOMAIN outcome : outcome[t] # "crash"}
           P == {t \in F : outcome[t] = "pass"}
<1>1. IsFiniteSet(F) /\ P \subseteq F
  <2>1. F \subseteq T
    OBVIOUS
  <2> QED BY <2>1, FS_Subset
<1>2. Cardinality(P) \in Nat /\ Cardinality(F) \in Nat /\ Cardinality(P) <= Cardinality(F)
  BY <1>1, FS_Subset, FS_CardinalityType
<1>3. PassRate(outcome) = IF F = {} THEN 100 ELSE (100 * Cardinality(P)) \div Cardinality(F)
  BY DEF PassRate
<1> HIDE DEF F, P
<1>4. CASE F = {}
  BY <1>3, <1>4
<1>5. CASE F # {}
  <2>1. Cardinality(F) # 0
    BY <1>1, <1>5, FS_EmptySet
  <2> QED BY <1>2, <1>3, <1>5, <2>1, PercentBounded
<1> QED BY <1>4, <1>5

LEMMA LoopStart == LoopInit => LoopInv
<1> SUFFICES ASSUME LoopInit PROVE LoopInv
  OBVIOUS
<1>1. PICK mode \in {"once", "forever", "meta"}, v \in VerifierLists, evolves \in BOOLEAN : loop = Unrun(mode, v, evolves)
  BY DEF LoopInit
<1>2. <<>> \in Seq(Cycles) /\ <<>> \in Seq([in : Int, out : Int]) /\ Len(<<>>) = 0
  OBVIOUS
<1>3. NoResult \in Outcomes
  BY DEF NoResult, Outcomes
<1>4. BestInv
  <2>1. RunShape(loop) /\ loop.pc = "idle" /\ loop.best = NoResult /\ loop.ended = {}
    BY <1>1, <1>2, <1>3, LoopAssumption DEF Unrun, RunShape
  <2> QED BY <2>1 DEF BestInv, Best
<1>5. MemoryInv
  <2>1. memory \in Memories /\ memory.entries = <<>> /\ memory.file = <<>>
    BY <1>2 DEF LoopInit, LoopFresh, Memories
  <2> QED BY <1>2, <2>1 DEF MemoryInv, Rising, Past, Gapless
<1>6. MiningInv
  BY <1>2 DEF LoopInit, LoopFresh, Unmined, MiningInv, Distinct
<1>7. HarnessInv
  BY <1>2 DEF LoopInit, LoopFresh, HarnessInv
<1> QED BY <1>4, <1>5, <1>6, <1>7 DEF LoopInv

\* The parts that a step leaves alone.
LEMMA SameMemory == MemoryInv /\ UNCHANGED memory => MemoryInv'
BY DEF MemoryInv
LEMMA SameMining == MiningInv /\ UNCHANGED mining => MiningInv'
BY DEF MiningInv
LEMMA SameHarness == HarnessInv /\ UNCHANGED harness => HarnessInv'
BY DEF HarnessInv

LEMMA CycleIs ==
  ASSUME LoopInv, NEW kind \in {"passed", "failed", "error"} PROVE ThisCycle(kind) \in Cycles
<1>1. memory.serial \in Nat
  BY DEF LoopInv, MemoryInv, Memories
<1>2. memory.serial + 1 \in Nat
  BY <1>1
<1> QED BY <1>2 DEF ThisCycle, Cycles

LEMMA RunTypes ==
  ASSUME LoopInv
  PROVE /\ RunShape(loop) /\ loop.attempt \in Nat /\ loop.retries \in Nat /\ loop.ran \in Seq(Cycles)
        /\ loop.best \in Outcomes /\ loop.result \in Outcomes /\ loop.ended \in SUBSET Outcomes
BY DEF LoopInv, BestInv, RunShape

LEMMA ResultIs ==
  ASSUME NEW s \in BOOLEAN, NEW n \in Nat
  PROVE \E r \in Outcomes : r = [success |-> s, retries |-> n] /\ r.retries \in Nat
<1>1. [success |-> s, retries |-> n] \in Outcomes
  BY DEF Outcomes
<1>2. [success |-> s, retries |-> n].retries \in Nat
  OBVIOUS
<1> QED BY <1>1, <1>2

LEMMA CycleFailsKeeps ==
  ASSUME LoopInv, NEW kind \in {"failed", "error"}, CycleFails(kind)
  PROVE LoopInv'
<1>1. MemoryInv'
  BY MemoryKeeps DEF LoopInv, CycleFails
<1>2. MiningInv'
  BY CuratedKeeps DEF LoopInv, CycleFails
<1>3. HarnessInv'
  BY SameHarness DEF LoopInv, CycleFails
<1>4. BestInv'
  <2>1. PICK c \in Cycles : c = ThisCycle(kind)
    BY CycleIs
  <2>2. PICK ran \in Seq(Cycles) : ran = Append(loop.ran, c)
    <3>1. loop.ran \in Seq(Cycles)
      BY RunTypes
    <3> QED BY <3>1, AppendProperties
  <2>3. PICK place \in {"pausing", "escalating"} : loop' = [loop EXCEPT !.ran = ran, !.pc = place]
    BY <2>1, <2>2 DEF CycleFails
  <2>4. RunShape(loop)' /\ loop'.best = loop.best /\ loop'.ended = loop.ended /\ loop'.pc # "ended"
    BY <2>3 DEF LoopInv, BestInv, RunShape
  <2> QED BY <2>4, BestKept DEF LoopInv
<1> QED BY <1>1, <1>2, <1>3, <1>4 DEF LoopInv

LEMMA VerifierEndsKeeps == ASSUME LoopInv, VerifierEnds PROVE LoopInv'
<1>1. \/ /\ memory' \in Remembered(memory, ThisCycle("passed"))
         /\ loop' = [loop EXCEPT !.ran = Append(@, ThisCycle("passed")), !.pc = "ended",
                                 !.result = [success |-> TRUE, retries |-> loop.attempt]]
         /\ UNCHANGED <<mining, harness>>
      \/ CycleFails("failed")
      \/ CycleFails("error")
  BY DEF VerifierEnds
<1>2. CASE CycleFails("failed") \/ CycleFails("error")
  BY <1>2, CycleFailsKeeps
<1>3. CASE /\ memory' \in Remembered(memory, ThisCycle("passed"))
           /\ loop' = [loop EXCEPT !.ran = Append(@, ThisCycle("passed")), !.pc = "ended",
                                   !.result = [success |-> TRUE, retries |-> loop.attempt]]
           /\ UNCHANGED <<mining, harness>>
  <2>1. MemoryInv' /\ MiningInv' /\ HarnessInv'
    BY <1>3, MemoryKeeps, SameMining, SameHarness DEF LoopInv
  <2>2. PICK c \in Cycles : c = ThisCycle("passed")
    BY CycleIs
  <2>3. PICK ran \in Seq(Cycles) : ran = Append(loop.ran, c)
    <3>1. loop.ran \in Seq(Cycles)
      BY RunTypes
    <3> QED BY <3>1, AppendProperties
  <2>4. PICK r \in Outcomes : r = [success |-> TRUE, retries |-> loop.attempt] /\ r.retries \in Nat
    BY RunTypes, ResultIs
  <2>5. loop' = [loop EXCEPT !.ran = ran, !.pc = "ended", !.result = r]
    BY <1>3, <2>2, <2>3, <2>4
  <2>6. RunShape(loop)' /\ loop'.best = loop.best /\ loop'.ended = loop.ended /\ loop'.result = r
    BY <2>5 DEF LoopInv, BestInv, RunShape
  <2> QED BY <2>1, <2>4, <2>6, BestKept DEF LoopInv
<1> QED BY <1>1, <1>2, <1>3

\* Steps of the runner alone.
LEMMA RunnerKeeps ==
  ASSUME LoopInv, RunBegins \/ PauseEnds \/ EscalationEnds \/ TriggerEnds \/ ProcessEnds
  PROVE LoopInv'
<1>1. CASE UNCHANGED <<memory, mining, harness>> /\ BestInv'
  BY <1>1, SameMemory, SameMining, SameHarness DEF LoopInv
<1>2. CASE RunBegins
  <2> DEFINE l == [loop EXCEPT !.attempt = 0, !.ran = <<>>]
  <2>1. RunShape(l) /\ l.best = loop.best /\ l.ended = loop.ended
    <3>1. <<>> \in Seq(Cycles) /\ 0 \in Nat
      OBVIOUS
    <3>2. RunShape(loop)
      BY RunTypes
    <3>3. l.attempt = 0 /\ l.ran = <<>>
      BY <3>2 DEF RunShape
    <3>4. /\ l.retries = loop.retries /\ l.best = loop.best /\ l.result = loop.result /\ l.ended = loop.ended
          /\ l.pc = loop.pc /\ l.mode = loop.mode /\ l.verifiers = loop.verifiers /\ l.evolves = loop.evolves
          /\ l.count = loop.count /\ l.streak = loop.streak /\ l.iteration = loop.iteration
          /\ l.restarts = loop.restarts
      BY <3>2 DEF RunShape
    <3>5. l = [loop EXCEPT !.attempt = l.attempt, !.ran = l.ran]
      BY <3>3
    <3> HIDE DEF l
    <3> QED BY <3>1, <3>2, <3>3, <3>4, <3>5 DEF RunShape
  <2>2. loop' = Began(l)
    BY <1>2 DEF RunBegins
  <2> HIDE DEF l
  <2>3. BestInv'
    BY <2>1, <2>2, BeganIs, BestKept DEF LoopInv
  <2> QED BY <1>1, <1>2, <2>3 DEF RunBegins
<1>3. CASE PauseEnds
  <2> DEFINE l == [loop EXCEPT !.attempt = loop.attempt + 1]
  <2>1. RunShape(l) /\ l.best = loop.best /\ l.ended = loop.ended
    <3>1. loop.attempt + 1 \in Nat
      BY RunTypes
    <3> QED BY <3>1, RunTypes DEF RunShape
  <2>2. loop' = Began(l)
    BY <1>3 DEF PauseEnds
  <2> HIDE DEF l
  <2>3. BestInv'
    BY <2>1, <2>2, BeganIs, BestKept DEF LoopInv
  <2> QED BY <1>1, <1>3, <2>3 DEF PauseEnds
<1>4. CASE EscalationEnds
  <2>1. PICK r \in Outcomes : r = [success |-> FALSE, retries |-> loop.retries] /\ r.retries \in Nat
    BY RunTypes, ResultIs
  <2>2. loop' = [loop EXCEPT !.pc = "ended", !.result = r]
    BY <1>4, <2>1 DEF EscalationEnds
  <2>3. RunShape(loop)' /\ loop'.best = loop.best /\ loop'.ended = loop.ended /\ loop'.result = r
    BY <2>2 DEF LoopInv, BestInv, RunShape
  <2>4. BestInv'
    BY <2>1, <2>3, BestKept DEF LoopInv
  <2> QED BY <1>1, <1>4, <2>4 DEF EscalationEnds
<1>5. CASE TriggerEnds
  <2>1. PICK place \in {"idle", "stopped"} : loop' = [loop EXCEPT !.pc = place]
    BY <1>5 DEF TriggerEnds
  <2>2. RunShape(loop)' /\ loop'.best = loop.best /\ loop'.ended = loop.ended /\ loop'.pc # "ended"
    BY <2>1 DEF LoopInv, BestInv, RunShape
  <2>3. BestInv'
    BY <2>2, BestKept DEF LoopInv
  <2> QED BY <1>1, <1>5, <2>3 DEF TriggerEnds
<1>6. CASE ProcessEnds
  <2>1. CASE CycleFails("error")
    BY <2>1, CycleFailsKeeps
  <2>2. CASE loop' = [loop EXCEPT !.pc = "verifying"] /\ UNCHANGED <<memory, mining, harness>>
    <3>1. RunShape(loop)' /\ loop'.best = loop.best /\ loop'.ended = loop.ended /\ loop'.pc # "ended"
      BY <2>2 DEF LoopInv, BestInv, RunShape
    <3>2. BestInv'
      BY <3>1, BestKept DEF LoopInv
    <3> QED BY <1>1, <2>2, <3>2
  <2> QED BY <1>6, <2>1, <2>2 DEF ProcessEnds
<1> QED BY <1>2, <1>3, <1>4, <1>5, <1>6

LEMMA BestFollows ==
  ASSUME NEW l, RunShape(l), Best(l.best, l.ended), l.pc = "ended" => l.result.retries \in Nat, loop' = l
  PROVE BestInv'
BY DEF BestInv

LEMMA TunedIs ==
  ASSUME NEW n \in Nat PROVE Tuned(n) \in Nat
<1>1. RetryCeiling \in Nat
  BY LoopAssumption
<1>2. n + 1 \in Nat /\ (n > 1 => n - 1 \in Nat)
  OBVIOUS
<1>3. Tuned(n) \in {n + 1, RetryCeiling, n} \/ (n > 1 /\ Tuned(n) = n - 1)
  BY DEF Tuned
<1> QED BY <1>1, <1>2, <1>3

LEMMA IterationEndsIs ==
  ASSUME NEW l, RunShape(l)
  PROVE /\ RunShape(IterationEnds(l)) /\ IterationEnds(l).best = l.best /\ IterationEnds(l).ended = l.ended
        /\ IterationEnds(l).pc # "ended"
<1>1. CASE Converged
  <2>1. IterationEnds(l) = [l EXCEPT !.pc = "stopped"]
    BY <1>1 DEF IterationEnds
  <2> QED BY <2>1 DEF RunShape
<1>2. CASE ~Converged
  <2>1. PICK r \in Nat : r = Tuned(l.retries)
    BY TunedIs DEF RunShape
  <2>2. PICK place \in {"stopped", "idle"} :
          IterationEnds(l) = [l EXCEPT !.retries = r, !.iteration = l.iteration + 1, !.pc = place]
    BY <1>2, <2>1 DEF IterationEnds
  <2>3. RunShape(IterationEnds(l))
    BY <2>2 DEF RunShape
  <2>4. IterationEnds(l).best = l.best /\ IterationEnds(l).ended = l.ended /\ IterationEnds(l).pc = place
    BY <2>2 DEF RunShape
  <2> QED BY <2>3, <2>4
<1> QED BY <1>1, <1>2

LEMMA ForeverKeeps == ASSUME LoopInv, ForeverGoesOn PROVE LoopInv'
<1>1. MemoryInv' /\ HarnessInv'
  BY SameMemory, SameHarness DEF LoopInv, ForeverGoesOn
<1>2. MiningInv'
  <2>1. mining' = mining \/ mining' = [mining EXCEPT !.records = Ingested(mining.records, FailedOf(loop.ran))]
    BY DEF ForeverGoesOn
  <2>2. FailedOf(loop.ran) \in Seq(Cycles)
    BY RunTypes, FailedOfIs
  <2> QED BY <2>1, <2>2, MinedKeeps, SameMining DEF LoopInv
<1>3. BestInv'
  <2> DEFINE s == IF loop.result.success THEN 0 ELSE loop.streak + 1
             place == IF s >= loop.retries + 1 THEN "stopped" ELSE "waiting"
  <2>1. loop' = [loop EXCEPT !.streak = s, !.pc = place] /\ place # "ended"
    BY DEF ForeverGoesOn
  <2> HIDE DEF s, place
  <2>2. RunShape(loop)'
    BY <2>1, RunTypes DEF RunShape
  <2>3. loop'.best = loop.best /\ loop'.ended = loop.ended /\ loop'.pc # "ended"
    BY <2>1, RunTypes DEF RunShape
  <2> QED BY <2>2, <2>3, BestKept DEF LoopInv
<1> QED BY <1>1, <1>2, <1>3 DEF LoopInv

LEMMA MetaKeeps == ASSUME LoopInv, MetaCollects PROVE LoopInv'
<1> DEFINE traces == mining.traces \o FailedOf(loop.ran)
           kept == LastOf(traces, TraceCap)
           b == IF BetterRun(loop.result, loop.best) THEN loop.result ELSE loop.best
           l == [loop EXCEPT !.best = b, !.ended = loop.ended \cup {loop.result}]
           records == IF loop.evolves THEN Ingested(mining.records, kept) ELSE mining.records
<1>1. MemoryInv' /\ HarnessInv'
  BY SameMemory, SameHarness DEF LoopInv, MetaCollects
<1>2. mining' = [mining EXCEPT !.traces = kept, !.records = records, !.dropped = mining.dropped \/ Len(traces) > TraceCap]
  BY DEF MetaCollects
<1>3. loop' = [l EXCEPT !.pc = "validating"] \/ loop' = IterationEnds(l)
  BY DEF MetaCollects
<1>4. traces \in Seq(Cycles)
  BY RunTypes, FailedOfIs, ConcatProperties DEF LoopInv, MiningInv
<1> HIDE DEF traces
<1>5. kept \in Seq(Cycles)
  BY <1>4, LastOfIs, LoopAssumption
<1> HIDE DEF kept
<1>6. records \in Seq(Cycles) /\ Distinct(records)
  <2>1. mining.records \in Seq(Cycles) /\ Distinct(mining.records)
    BY DEF LoopInv, MiningInv
  <2> QED BY <1>5, <2>1, IngestedOnce
<1> HIDE DEF records
<1>7. MiningInv'
  BY <1>2, <1>5, <1>6 DEF LoopInv, MiningInv
<1>8. Best(b, loop.ended \cup {loop.result}) /\ b \in Outcomes
  <2>1. Best(loop.best, loop.ended) /\ loop.result.retries \in Nat
    BY DEF LoopInv, BestInv, MetaCollects
  <2> QED BY <2>1, RunTypes, BestGrows
<1>9. RunShape(l) /\ l.best = b /\ l.ended = loop.ended \cup {loop.result}
  <2>1. loop.ended \cup {loop.result} \in SUBSET Outcomes
    BY RunTypes
  <2>2. RunShape(loop)
    BY RunTypes
  <2> HIDE DEF b
  <2>3. l.best = b /\ l.ended = loop.ended \cup {loop.result}
    BY <2>2 DEF RunShape
  <2>4. /\ l.attempt = loop.attempt /\ l.ran = loop.ran /\ l.retries = loop.retries /\ l.result = loop.result
        /\ l.pc = loop.pc /\ l.mode = loop.mode /\ l.verifiers = loop.verifiers /\ l.evolves = loop.evolves
        /\ l.count = loop.count /\ l.streak = loop.streak /\ l.iteration = loop.iteration
        /\ l.restarts = loop.restarts
    BY <2>2 DEF RunShape
  <2>5. l = [loop EXCEPT !.best = l.best, !.ended = l.ended]
    BY <2>3
  <2> HIDE DEF l
  <2> QED BY <1>8, <2>1, <2>2, <2>3, <2>4, <2>5 DEF RunShape
<1> HIDE DEF l, b
<1>10. BestInv'
  <2>1. CASE loop' = IterationEnds(l)
    BY <1>8, <1>9, <2>1, IterationEndsIs, BestFollows
  <2>2. CASE loop' = [l EXCEPT !.pc = "validating"]
    <3> DEFINE k == [l EXCEPT !.pc = "validating"]
    <3>1. RunShape(k) /\ k.best = l.best /\ k.ended = l.ended /\ k.pc = "validating"
      BY <1>9 DEF RunShape
    <3> HIDE DEF k
    <3> QED BY <1>8, <1>9, <2>2, <3>1, BestFollows DEF k
  <2> QED BY <1>3, <2>1, <2>2
<1> QED BY <1>1, <1>7, <1>10 DEF LoopInv

LEMMA AcceptedIs ==
  ASSUME HarnessInv, NEW in \in [HeldIn -> {"pass", "fail", "crash"}], NEW out \in [HeldOut -> {"pass", "fail", "crash"}],
         AcceptsEdit(PassRate(in), PassRate(out)),
         harness' = [harness EXCEPT !.history = Append(harness.history, [in |-> PassRate(in), out |-> PassRate(out)])]
  PROVE HarnessInv'
<1>1. PICK p \in Int, q \in Int : p = PassRate(in) /\ q = PassRate(out) /\ q <= 100
  BY PassRateBounded, LoopAssumption
<1> DEFINE h == harness.history
           previous == IF h = <<>> THEN [in |-> 0, out |-> 100] ELSE Last(h)
           new == [in |-> p, out |-> q]
<1>2. h \in Seq([in : Int, out : Int]) /\ Len(h) \in Nat
  BY DEF HarnessInv
<1>3. p - previous.in >= Improvement /\ q >= previous.out
  BY <1>1 DEF AcceptsEdit
<1>4. h # <<>> => Len(h) >= 1 /\ previous = h[Len(h)]
  BY <1>2 DEF Last
<1>5. previous.out = 100
  <2>1. CASE h = <<>>
    BY <2>1
  <2>2. CASE h # <<>>
    BY <1>2, <1>4, <2>2 DEF HarnessInv
  <2> QED BY <2>1, <2>2
<1>6. q = 100
  BY <1>1, <1>3, <1>5
<1>7. PICK g \in Seq([in : Int, out : Int]) : g = Append(h, new)
  BY <1>2, AppendProperties
<1>8. Len(g) = Len(h) + 1 /\ g[Len(h) + 1] = new
  BY <1>2, <1>7, AppendProperties
<1>16. \A j \in 1..Len(h) : g[j] = h[j]
  BY <1>2, <1>7, AppendProperties
<1>9. harness' = [harness EXCEPT !.history = g]
  BY <1>1, <1>7
<1>10. harness' = [history |-> g, rejected |-> harness.rejected]
  BY <1>9 DEF HarnessInv
<1>11. ASSUME NEW i \in 1..Len(g)
       PROVE g[i].out = 100 /\ (i > 1 => g[i].in >= g[i - 1].in + Improvement)
  <2>1. CASE i \in 1..Len(h)
    <3>1. g[i] = h[i] /\ (i > 1 => g[i - 1] = h[i - 1])
      <4> HIDE DEF h, new
      <4>1. i \in Int /\ (i > 1 => i - 1 \in 1..Len(h))
        <5>1. PICK n \in Nat : n = Len(h)
          BY <1>2
        <5>2. i \in 1..n
          BY <2>1, <5>1
        <5> QED BY <5>1, <5>2
      <4>3. g[i] = h[i]
        BY <2>1, <1>16
      <4>4. ASSUME i > 1 PROVE g[i - 1] = h[i - 1]
        <5>1. i - 1 \in 1..Len(h)
          BY <4>1, <4>4
        <5> HIDE DEF h, new
        <5> QED BY <1>16, <5>1
      <4> QED BY <4>3, <4>4
    <3>2. h[i].out = 100 /\ (i > 1 => h[i].in >= h[i - 1].in + Improvement)
      BY <2>1 DEF HarnessInv
    <3> QED BY <3>1, <3>2
  <2>2. CASE i \notin 1..Len(h)
    <3>1. i = Len(h) + 1 /\ g[i] = new
      BY <1>2, <1>8, <2>2
    <3>2. new.in = p /\ new.out = 100
      BY <1>6
    <3>3. ASSUME i > 1 PROVE g[i].in >= g[i - 1].in + Improvement
      <4>1. h # <<>> /\ i - 1 = Len(h) /\ Len(h) \in 1..Len(h)
        BY <1>2, <3>1, <3>3
      <4>2. g[i - 1] = previous /\ previous.in \in Int
        <5>1. g[Len(h)] = h[Len(h)] /\ previous = h[Len(h)]
          BY <1>4, <1>16, <4>1
        <5>2. h[Len(h)] \in [in : Int, out : Int]
          <6> HIDE DEF h
          <6> QED BY <1>2, <4>1, ElementOfSeq
        <5> HIDE DEF h, previous
        <5> QED BY <4>1, <5>1, <5>2
      <4>3. Improvement \in Nat
        BY LoopAssumption
      <4>4. p >= previous.in + Improvement
        BY <1>3, <4>2, <4>3, SMTT(30)
      <4> HIDE DEF previous, new
      <4> QED BY <3>1, <3>2, <4>2, <4>4
    <3> HIDE DEF new, previous
    <3> QED BY <3>1, <3>2, <3>3
  <2> QED BY <2>1, <2>2
<1>12. harness'.history = g /\ harness'.rejected = harness.rejected
  BY <1>10
<1>13. harness' = [history |-> harness'.history, rejected |-> harness'.rejected]
  BY <1>10, <1>12
<1> HIDE DEF h, previous, new
<1>14. harness'.history \in Seq([in : Int, out : Int])
  BY <1>7, <1>12
<1>15. \A i \in 1..Len(harness'.history) :
         /\ harness'.history[i].out = 100
         /\ i > 1 => harness'.history[i].in >= harness'.history[i - 1].in + Improvement
  BY <1>11, <1>12
<1> QED BY <1>13, <1>14, <1>15 DEF HarnessInv

LEMMA ValidationKeeps == ASSUME LoopInv, ValidationEnds PROVE LoopInv'
<1>1. PICK in \in [HeldIn -> {"pass", "fail", "crash"}], out \in [HeldOut -> {"pass", "fail", "crash"}] :
        IF AcceptsEdit(PassRate(in), PassRate(out))
        THEN /\ harness' = [harness EXCEPT !.history = Append(@, [in |-> PassRate(in), out |-> PassRate(out)])]
             /\ mining' = [mining EXCEPT !.traces = <<>>]
        ELSE /\ harness' = [harness EXCEPT !.rejected = @ + Cardinality(Clusters(mining.records))]
             /\ UNCHANGED mining
  BY DEF ValidationEnds
<1>2. MemoryInv'
  BY SameMemory DEF LoopInv, ValidationEnds
<1>3. BestInv'
  <2>1. loop' = IterationEnds(loop)
    BY DEF ValidationEnds
  <2> QED BY <2>1, RunTypes, IterationEndsIs, BestFollows DEF LoopInv, BestInv
<1>4. MiningInv'
  <2>1. CASE mining' = [mining EXCEPT !.traces = <<>>]
    <3>1. <<>> \in Seq(Cycles)
      OBVIOUS
    <3> QED BY <2>1, <3>1 DEF LoopInv, MiningInv
  <2>2. CASE UNCHANGED mining
    BY <2>2, SameMining DEF LoopInv
  <2> QED BY <1>1, <2>1, <2>2
<1>5. HarnessInv'
  <2>1. CASE AcceptsEdit(PassRate(in), PassRate(out))
    BY <1>1, <2>1, AcceptedIs DEF LoopInv
  <2>2. CASE ~AcceptsEdit(PassRate(in), PassRate(out))
    <3> DEFINE n == harness.rejected + Cardinality(Clusters(mining.records))
    <3>1. harness' = [harness EXCEPT !.rejected = n]
      BY <1>1, <2>2
    <3> HIDE DEF n
    <3>2. harness' = [history |-> harness.history, rejected |-> n]
      BY <3>1 DEF LoopInv, HarnessInv
    <3>3. harness'.history = harness.history /\ harness'.rejected = n
      BY <3>2
    <3> QED BY <3>2, <3>3 DEF LoopInv, HarnessInv
  <2> QED BY <2>1, <2>2
<1> QED BY <1>2, <1>3, <1>4, <1>5 DEF LoopInv

LEMMA ConsultKeeps == ASSUME LoopInv, Consult PROVE LoopInv'
<1>1. PICK b, f : mining' = [mining EXCEPT !.bullets = b, !.file = f]
  BY DEF Consult
<1>2. MiningInv'
  BY <1>1 DEF LoopInv, MiningInv
<1>3. MemoryInv' /\ HarnessInv'
  BY SameMemory, SameHarness DEF LoopInv, Consult
<1>4. BestInv'
  BY DEF LoopInv, BestInv, Consult
<1> QED BY <1>2, <1>3, <1>4 DEF LoopInv

LEMMA RestartKeeps == ASSUME LoopInv, LoopRestarts PROVE LoopInv'
<1>1. MemoryInv'
  <2>1. memory' = [memory EXCEPT !.entries = memory.file] /\ memory \in Memories
    BY DEF LoopRestarts, LoopInv, MemoryInv
  <2>2. /\ memory' \in Memories /\ memory'.entries = memory.file /\ memory'.file = memory.file
        /\ memory'.serial = memory.serial /\ memory'.faulty = memory.faulty
    BY <2>1 DEF Memories
  <2> QED BY <2>2 DEF LoopInv, MemoryInv
<1>2. MiningInv'
  <2>1. <<>> \in Seq(Cycles) /\ Len(<<>>) = 0
    OBVIOUS
  <2>2. PICK b, f : mining' = [Unmined EXCEPT !.bullets = b, !.file = f]
    BY DEF LoopRestarts
  <2>3. mining' = [traces |-> <<>>, records |-> <<>>, bullets |-> b, file |-> f, dropped |-> FALSE]
    BY <2>2 DEF Unmined
  <2> QED BY <2>1, <2>3 DEF MiningInv, Distinct
<1>3. HarnessInv'
  <2>1. <<>> \in Seq([in : Int, out : Int]) /\ Len(<<>>) = 0
    OBVIOUS
  <2> QED BY <2>1 DEF LoopRestarts, HarnessInv
<1>4. BestInv'
  <2>1. NoResult \in Outcomes /\ <<>> \in Seq(Cycles) /\ {} \in SUBSET Outcomes /\ LoopRetries \in Nat /\ 0 \in Nat
    BY LoopAssumption DEF NoResult, Outcomes
  <2>2. loop' = [Unrun(loop.mode, loop.verifiers, loop.evolves) EXCEPT !.restarts = loop.restarts + 1]
    BY DEF LoopRestarts
  <2>3. RunShape(loop)' /\ loop'.best = NoResult /\ loop'.ended = {} /\ loop'.pc = "idle"
    BY <2>1, <2>2 DEF Unrun, RunShape
  <2> QED BY <2>3 DEF BestInv, Best
<1> QED BY <1>1, <1>2, <1>3, <1>4 DEF LoopInv

LEMMA LoopStep == LoopInv /\ [LoopNext]_loopVars => LoopInv'
<1> SUFFICES ASSUME LoopInv, [LoopNext]_loopVars PROVE LoopInv'
  OBVIOUS
<1>1. CASE RunBegins \/ PauseEnds \/ EscalationEnds \/ TriggerEnds \/ ProcessEnds
  BY <1>1, RunnerKeeps
<1>2. CASE VerifierEnds
  BY <1>2, VerifierEndsKeeps
<1>3. CASE ForeverGoesOn
  BY <1>3, ForeverKeeps
<1>4. CASE MetaCollects
  BY <1>4, MetaKeeps
<1>5. CASE ValidationEnds
  BY <1>5, ValidationKeeps
<1>6. CASE Consult
  BY <1>6, ConsultKeeps
<1>7. CASE LoopRestarts
  BY <1>7, RestartKeeps
<1>8. CASE UNCHANGED loopVars
  BY <1>8, SameMemory, SameMining, SameHarness DEF loopVars, LoopInv, BestInv
<1> QED BY <1>1, <1>2, <1>3, <1>4, <1>5, <1>6, <1>7, <1>8 DEF LoopNext

LEMMA LoopInvSound == LoopInv => LoopSound
<1> SUFFICES ASSUME LoopInv PROVE LoopSound
  OBVIOUS
<1>1. memory.entries \in Seq(Cycles) /\ mining.records \in Seq(Cycles) /\ harness.history \in Seq([in : Int, out : Int])
  BY DEF LoopInv, MemoryInv, Memories, MiningInv, HarnessInv
<1>2. DOMAIN memory.entries = 1..Len(memory.entries) /\ DOMAIN mining.records = 1..Len(mining.records)
      /\ DOMAIN harness.history = 1..Len(harness.history)
  BY <1>1
<1>3. CyclesOnce
  <2>1. \A i \in 2..Len(memory.entries) : memory.entries[i - 1].n < memory.entries[i].n
    BY DEF LoopInv, MemoryInv, Rising
  <2>2. \A i, j \in DOMAIN mining.records : mining.records[i] = mining.records[j] => i = j
    BY <1>2 DEF LoopInv, MiningInv, Distinct
  <2>3. ~memory.faulty => \A i \in DOMAIN memory.entries : memory.entries[i].n = memory.serial - Len(memory.entries) + i
    <3>1. memory.faulty = FALSE => Gapless(memory.entries, memory.serial)
      BY DEF LoopInv, MemoryInv
    <3>2. memory.faulty \in BOOLEAN
      BY DEF LoopInv, MemoryInv, Memories
    <3> QED BY <1>2, <3>1, <3>2 DEF Gapless
  <2> QED BY <2>1, <2>2, <2>3 DEF CyclesOnce
<1>4. MetaSound
  <2>1. ASSUME loop.ended # {}
        PROVE loop.best \in loop.ended /\ \A r \in loop.ended : r.success => loop.best.success /\ loop.best.retries <= r.retries
    <3>1. \A r \in loop.ended : r.success \in BOOLEAN /\ loop.best.success \in BOOLEAN
      BY RunTypes DEF Outcomes
    <3>2. Best(loop.best, loop.ended)
      BY DEF LoopInv, BestInv
    <3> QED BY <2>1, <3>1, <3>2 DEF Best
  <2>2. \A i \in DOMAIN harness.history :
          /\ harness.history[i].out = 100
          /\ i > 1 => harness.history[i].in >= harness.history[i - 1].in + Improvement
    BY <1>2 DEF LoopInv, HarnessInv
  <2> QED BY <2>1, <2>2 DEF MetaSound
<1> QED BY <1>3, <1>4 DEF LoopSound

\* Each cycle is remembered once and in order and each failure mined once; what a meta run returns is the
\* best of its runs, and the accepted versions of the harness pass all held-out tasks that do not crash
\* and get better by the threshold each: for all verifiers, retries, sizes, tasks and thresholds.
THEOREM LoopIsSound == LoopSpec => []LoopSound
<1>1. LoopSpec => []LoopInv
  BY LoopStart, LoopStep, PTL DEF LoopSpec
<1> QED BY <1>1, LoopInvSound, PTL

-----------------------------------------------------------------------------
(* The fronts of the optimizer: an invariant of its sort, front by front. *)

\* An order: nothing dominates itself, and what dominates a dominator dominates.
LEMMA DominatesOrder ==
  ASSUME NEW a \in Vectors, NEW b \in Vectors, NEW c \in Vectors
  PROVE ~Dominates(a, a) /\ (Dominates(a, b) /\ Dominates(b, c) => Dominates(a, c))
<1>1. \A o \in Objectives : a[o] \in Nat /\ b[o] \in Nat /\ c[o] \in Nat
  BY ParetoAssumption DEF Vectors
<1>2. ~Dominates(a, a)
  BY <1>1 DEF Dominates, Worse
<1>3. ASSUME Dominates(a, b), Dominates(b, c) PROVE Dominates(a, c)
  <2>1. ASSUME NEW o \in Objectives PROVE ~Worse(o, a[o], c[o])
    BY <1>1, <1>3 DEF Dominates, Worse
  <2>2. PICK o \in Objectives : Worse(o, b[o], a[o])
    BY <1>3 DEF Dominates
  <2>3. Worse(o, c[o], a[o])
    BY <1>1, <1>3, <2>2 DEF Dominates, Worse
  <2> QED BY <2>1, <2>3 DEF Dominates
<1> QED BY <1>2, <1>3

\* To be better is to dominate.
LEMMA BetterIs ==
  ASSUME NEW a \in Vectors, NEW b \in Vectors
  PROVE Better(a, b) <=> Dominates(a, b)
<1>1. \A o \in Objectives : a[o] \in Nat /\ b[o] \in Nat
  BY ParetoAssumption DEF Vectors
<1>2. \A o \in Objectives : (IF o \in Minimized THEN a[o] <= b[o] ELSE a[o] >= b[o]) <=> ~Worse(o, a[o], b[o])
  BY <1>1 DEF Worse
<1>3. \A o \in Objectives : ~Worse(o, a[o], b[o]) /\ ~Worse(o, b[o], a[o]) <=> a[o] = b[o]
  BY <1>1 DEF Worse
<1>4. a = b <=> \A o \in Objectives : a[o] = b[o]
  BY DEF Vectors
<1>5. ASSUME Better(a, b) PROVE Dominates(a, b)
  BY <1>2, <1>3, <1>4, <1>5 DEF Better, Dominates
<1>6. ASSUME Dominates(a, b) PROVE Better(a, b)
  BY <1>2, <1>3, <1>4, <1>6 DEF Better, Dominates
<1> QED BY <1>5, <1>6

\* A function that goes on by steps.
LEMMA StepsGo ==
  ASSUME NEW S, NEW s0 \in S, NEW step \in [S -> S]
  PROVE \E f \in [Nat -> S] : f[0] = s0 /\ \A k \in Nat : f[k + 1] = step[f[k]]
<1> DEFINE G(n) == {g \in [0..n -> S] : g[0] = s0 /\ \A k \in 0..(n - 1) : g[k + 1] = step[g[k]]}
           Lacking == {n \in Nat : G(n) = {}}
<1>1. ASSUME Lacking # {} PROVE FALSE
  <2>1. PICK n \in Lacking : \A m \in Lacking : n <= m
    BY <1>1, LeastNat
  <2>2. CASE n = 0
    <3> DEFINE g == [k \in 0..0 |-> s0]
    <3>1. g \in [0..0 -> S] /\ g[0] = s0 /\ \A k \in 0..(0 - 1) : g[k + 1] = step[g[k]]
      OBVIOUS
    <3> QED BY <2>1, <2>2, <3>1
  <2>3. CASE n # 0
    <3>1. n - 1 \in Nat /\ n - 1 \notin Lacking
      <4>1. n \in Nat /\ n - 1 \in Nat /\ ~(n <= n - 1)
        BY <2>1, <2>3
      <4> HIDE DEF Lacking
      <4> QED BY <2>1, <4>1
    <3>2. PICK h \in [0..(n - 1) -> S] : h[0] = s0 /\ \A k \in 0..(n - 2) : h[k + 1] = step[h[k]]
      <4>1. PICK h : h \in G(n - 1)
        BY <3>1
      <4>2. (n - 1) - 1 = n - 2
        BY <3>1
      <4> QED BY <4>1, <4>2
    <3> DEFINE g == [k \in 0..n |-> IF k = n THEN step[h[n - 1]] ELSE h[k]]
    <3>3. n - 1 \in 0..(n - 1) /\ step[h[n - 1]] \in S
      BY <3>1, <3>2
    <3>4. g \in [0..n -> S]
      <4>1. ASSUME NEW k \in 0..n PROVE (IF k = n THEN step[h[n - 1]] ELSE h[k]) \in S
        <5>1. CASE k = n
          BY <3>3, <5>1
        <5>2. CASE k # n
          <6>1. k \in 0..(n - 1)
            BY <2>1, <5>2
          <6> QED BY <3>2, <5>2, <6>1
        <5> QED BY <5>1, <5>2
      <4> QED BY <4>1
    <3>5. g[0] = s0
      BY <2>1, <2>3, <3>2
    <3>6. ASSUME NEW k \in 0..(n - 1) PROVE g[k + 1] = step[g[k]]
      <4>1. k \in 0..n /\ k + 1 \in 0..n /\ g[k] = h[k]
        BY <2>1
      <4>2. CASE k = n - 1
        BY <2>1, <4>1, <4>2
      <4>3. CASE k # n - 1
        <5>1. k \in 0..(n - 2) /\ k + 1 # n
          BY <2>1, <4>3
        <5> QED BY <3>2, <4>1, <5>1
      <4> QED BY <4>2, <4>3
    <3> HIDE DEF g
    <3>7. g \in G(n)
      BY <3>4, <3>5, <3>6
    <3> QED BY <2>1, <3>7
  <2> QED BY <2>2, <2>3
<1>2. ASSUME NEW n \in Nat PROVE G(n) # {}
  BY <1>1
<1> DEFINE pick == [n \in Nat |-> CHOOSE g : g \in G(n)]
           f == [n \in Nat |-> pick[n][n]]
<1>3. ASSUME NEW n \in Nat
      PROVE pick[n] \in [0..n -> S] /\ pick[n][0] = s0 /\ \A k \in 0..(n - 1) : pick[n][k + 1] = step[pick[n][k]]
  <2>1. (CHOOSE g : g \in G(n)) \in G(n)
    BY <1>2
  <2> QED BY <2>1
<1> HIDE DEF pick
<1> DEFINE Differing(n) == {k \in 0..n : pick[n + 1][k] # pick[n][k]}
<1>4. ASSUME NEW n \in Nat PROVE Differing(n) = {}
  <2> SUFFICES ASSUME Differing(n) # {} PROVE FALSE
    OBVIOUS
  <2>1. Differing(n) \subseteq Nat
    OBVIOUS
  <2>2. PICK k \in Differing(n) : \A l \in Differing(n) : k <= l
    BY <2>1, LeastNat
  <2>3. n + 1 \in Nat /\ k \in 0..n /\ pick[n + 1][k] # pick[n][k]
    BY <2>2
  <2>4. k # 0
    BY <1>3, <2>3
  <2>5. k - 1 \in 0..(n - 1) /\ k - 1 \in 0..n /\ k - 1 \in 0..((n + 1) - 1) /\ (k - 1) + 1 = k
    BY <2>3, <2>4
  <2>6. pick[n + 1][k - 1] = pick[n][k - 1]
    <3>1. k - 1 \notin Differing(n)
      BY <2>2, <2>3, <2>5
    <3> QED BY <2>5, <3>1
  <2>7. pick[n][k] = step[pick[n][k - 1]] /\ pick[n + 1][k] = step[pick[n + 1][k - 1]]
    <3>1. pick[n][(k - 1) + 1] = step[pick[n][k - 1]]
      BY <1>3, <2>5
    <3>2. pick[n + 1][(k - 1) + 1] = step[pick[n + 1][k - 1]]
      BY <1>3, <2>3, <2>5
    <3> QED BY <2>5, <3>1, <3>2
  <2> QED BY <2>3, <2>6, <2>7
<1>5. f \in [Nat -> S]
  <2>1. ASSUME NEW n \in Nat PROVE pick[n][n] \in S
    <3>1. n \in 0..n
      OBVIOUS
    <3> QED BY <1>3, <3>1
  <2> QED BY <2>1
<1>6. f[0] = s0
  BY <1>3
<1>7. ASSUME NEW k \in Nat PROVE f[k + 1] = step[f[k]]
  <2>1. k + 1 \in Nat /\ k \in 0..((k + 1) - 1) /\ k \in 0..k
    OBVIOUS
  <2>2. pick[k + 1][k + 1] = step[pick[k + 1][k]]
    BY <1>3, <2>1
  <2>3. pick[k + 1][k] = pick[k][k]
    <3>1. k \notin Differing(k)
      BY <1>4
    <3> QED BY <2>1, <3>1
  <2> QED BY <2>1, <2>2, <2>3
<1> HIDE DEF f
<1> QED BY <1>5, <1>6, <1>7

Above(P, R, i) == {j \in R : Dominates(P[j], P[i])}
Population(P) == P \in Seq(Vectors)

LEMMA PopulationIs ==
  ASSUME NEW P, Population(P)
  PROVE /\ Len(P) \in Nat /\ DOMAIN P = 1..Len(P) /\ \A i \in DOMAIN P : P[i] \in Vectors
        /\ IsFiniteSet(DOMAIN P) /\ Cardinality(DOMAIN P) = Len(P)
<1>1. Len(P) \in Nat /\ DOMAIN P = 1..Len(P) /\ \A i \in DOMAIN P : P[i] \in Vectors
  BY DEF Population
<1>2. IsFiniteSet(1..Len(P)) /\ Cardinality(1..Len(P)) = Len(P)
  BY <1>1, FS_Interval
<1> QED BY <1>1, <1>2

LEMMA AboveIs ==
  ASSUME NEW P, Population(P), NEW R, R \subseteq DOMAIN P, NEW i \in DOMAIN P
  PROVE /\ IsFiniteSet(Above(P, R, i)) /\ Cardinality(Above(P, R, i)) \in Nat
        /\ Cardinality(Above(P, R, i)) = 0 <=> Above(P, R, i) = {}
<1>1. IsFiniteSet(Above(P, R, i))
  <2>1. Above(P, R, i) \subseteq DOMAIN P
    BY DEF Above
  <2> QED BY <2>1, PopulationIs, FS_Subset
<1> QED BY <1>1, FS_CardinalityType, FS_EmptySet

\* Whatever there is, something in it is not dominated by the rest.
LEMMA SomeUndominated ==
  ASSUME NEW P, Population(P), NEW R, R \subseteq DOMAIN P, R # {}
  PROVE \E i \in R : \A j \in R : ~Dominates(P[j], P[i])
<1> DEFINE Sizes == {Cardinality(Above(P, R, i)) : i \in R}
<1>1. Sizes \subseteq Nat /\ Sizes # {}
  BY AboveIs
<1>2. PICK n \in Sizes : \A m \in Sizes : n <= m
  BY <1>1, LeastNat
<1>3. PICK i \in R : n = Cardinality(Above(P, R, i))
  BY <1>2
<1>4. ASSUME NEW j \in R, Dominates(P[j], P[i]) PROVE FALSE
  <2>1. i \in DOMAIN P /\ j \in DOMAIN P /\ \A k \in R : P[k] \in Vectors
    BY PopulationIs
  <2>2. Above(P, R, j) \subseteq Above(P, R, i)
    BY <1>4, <2>1, DominatesOrder DEF Above
  <2>3. j \in Above(P, R, i) /\ j \notin Above(P, R, j)
    BY <1>4, <2>1, DominatesOrder DEF Above
  <2>4. Cardinality(Above(P, R, j)) < Cardinality(Above(P, R, i))
    <3>1. Above(P, R, j) # Above(P, R, i)
      BY <2>3
    <3> QED BY <2>1, <2>2, <3>1, AboveIs, FS_Subset
  <2>5. n <= Cardinality(Above(P, R, j))
    BY <1>2
  <2> QED BY <1>3, <2>1, <2>4, <2>5, AboveIs
<1> QED BY <1>4

\* What is dominated is dominated by something undominated.
LEMMA UndominatedAbove ==
  ASSUME NEW P, Population(P), NEW R, R \subseteq DOMAIN P, NEW i \in DOMAIN P, Above(P, R, i) # {}
  PROVE \E j \in R : Dominates(P[j], P[i]) /\ \A k \in R : ~Dominates(P[k], P[j])
<1>1. Above(P, R, i) \subseteq R /\ Above(P, R, i) \subseteq DOMAIN P
  BY DEF Above
<1>2. PICK j \in Above(P, R, i) : \A k \in Above(P, R, i) : ~Dominates(P[k], P[j])
  BY <1>1, SomeUndominated
<1>3. j \in R /\ Dominates(P[j], P[i])
  BY <1>2 DEF Above
<1>4. ASSUME NEW k \in R, Dominates(P[k], P[j]) PROVE FALSE
  <2>1. P[i] \in Vectors /\ P[j] \in Vectors /\ P[k] \in Vectors
    BY <1>3, PopulationIs
  <2>2. Dominates(P[k], P[i])
    BY <1>3, <1>4, <2>1, DominatesOrder
  <2>3. k \in Above(P, R, i)
    BY <2>2 DEF Above
  <2> QED BY <1>2, <1>4, <2>3
<1> QED BY <1>3, <1>4

\* The sort, step by step.
LEMMA SortedIs ==
  ASSUME NEW P, Population(P)
  PROVE /\ SortedFronts(P) \in [Nat -> [count : [DOMAIN P -> Int], front : SUBSET DOMAIN P]]
        /\ SortedFronts(P)[0] = FirstFront(P)
        /\ \A k \in Nat : SortedFronts(P)[k + 1] = NextFront(P, SortedFronts(P)[k])
<1> DEFINE S == [count : [DOMAIN P -> Int], front : SUBSET DOMAIN P]
           step == [s \in S |-> NextFront(P, s)]
<1>1. FirstFront(P) \in S
  <2>1. \A i \in DOMAIN P : Cardinality({j \in DOMAIN P : Dominates(P[j], P[i])}) \in Int
    <3> SUFFICES ASSUME NEW i \in DOMAIN P PROVE Cardinality({j \in DOMAIN P : Dominates(P[j], P[i])}) \in Int
      OBVIOUS
    <3>1. {j \in DOMAIN P : Dominates(P[j], P[i])} = Above(P, DOMAIN P, i)
      BY DEF Above
    <3> QED BY <3>1, AboveIs
  <2>2. [i \in DOMAIN P |-> Cardinality({j \in DOMAIN P : Dominates(P[j], P[i])})] \in [DOMAIN P -> Int]
    BY <2>1
  <2> QED BY <2>2 DEF FirstFront
<1>2. ASSUME NEW s \in S PROVE NextFront(P, s) \in S
  <2>1. \A i \in DOMAIN P : s.count[i] - Cardinality({j \in s.front : Dominates(P[j], P[i])}) \in Int
    <3> SUFFICES ASSUME NEW i \in DOMAIN P PROVE s.count[i] - Cardinality({j \in s.front : Dominates(P[j], P[i])}) \in Int
      OBVIOUS
    <3>1. {j \in s.front : Dominates(P[j], P[i])} = Above(P, s.front, i) /\ s.front \subseteq DOMAIN P
      BY DEF Above
    <3>2. Cardinality(Above(P, s.front, i)) \in Nat
      BY <3>1, AboveIs
    <3>3. s.count[i] \in Int
      OBVIOUS
    <3> QED BY <3>1, <3>2, <3>3
  <2>2. [i \in DOMAIN P |-> s.count[i] - Cardinality({j \in s.front : Dominates(P[j], P[i])})] \in [DOMAIN P -> Int]
    BY <2>1
  <2> QED BY <2>2 DEF NextFront
<1>3. step \in [S -> S]
  BY <1>2
<1>4. PICK f \in [Nat -> S] : f[0] = FirstFront(P) /\ \A k \in Nat : f[k + 1] = step[f[k]]
  <2> HIDE DEF S, step
  <2> QED BY <1>1, <1>3, StepsGo
<1>5. \A k \in Nat : f[k + 1] = NextFront(P, f[k])
  BY <1>4
<1> HIDE DEF S, step
<1> DEFINE Sorts(g) == g = [k \in Nat |-> IF k = 0 THEN FirstFront(P) ELSE NextFront(P, g[k - 1])]
<1>6. Sorts(f)
  <2>1. ASSUME NEW k \in Nat PROVE f[k] = IF k = 0 THEN FirstFront(P) ELSE NextFront(P, f[k - 1])
    <3>1. CASE k = 0
      BY <1>4, <3>1
    <3>2. CASE k # 0
      <4>1. k - 1 \in Nat /\ (k - 1) + 1 = k
        BY <3>2
      <4>2. f[(k - 1) + 1] = NextFront(P, f[k - 1])
        BY <1>5, <4>1
      <4> QED BY <3>2, <4>1, <4>2
    <3> QED BY <3>1, <3>2
  <2> QED BY <1>4, <2>1
<1>7. SortedFronts(P) = CHOOSE g : Sorts(g)
  BY DEF SortedFronts
<1>8. Sorts(SortedFronts(P))
  BY <1>6, <1>7
<1> DEFINE g == SortedFronts(P)
<1>9. \A k \in Nat : g[k] = IF k = 0 THEN FirstFront(P) ELSE NextFront(P, g[k - 1])
  BY <1>8
<1>10. g[0] = FirstFront(P) /\ \A k \in Nat : g[k + 1] = NextFront(P, g[k])
  <2>1. ASSUME NEW k \in Nat PROVE g[k + 1] = NextFront(P, g[k])
    <3>1. k + 1 \in Nat /\ k + 1 # 0 /\ (k + 1) - 1 = k
      OBVIOUS
    <3> QED BY <1>9, <3>1
  <2> QED BY <1>9, <2>1
<1>11. g \in [Nat -> S]
  <2>1. \A k \in Nat : g[k] \in S
    <3> DEFINE Bad == {k \in Nat : g[k] \notin S}
    <3> SUFFICES ASSUME Bad # {} PROVE FALSE
      OBVIOUS
    <3>1. PICK k \in Bad : \A l \in Bad : k <= l
      BY LeastNat
    <3>2. k # 0
      BY <1>1, <1>10, <3>1
    <3>3. k - 1 \in Nat /\ (k - 1) + 1 = k /\ ~(k <= k - 1)
      BY <3>1, <3>2
    <3>4. g[k - 1] \in S
      BY <3>1, <3>3
    <3>5. g[(k - 1) + 1] = NextFront(P, g[k - 1])
      BY <1>10, <3>3
    <3> QED BY <1>2, <3>1, <3>3, <3>4, <3>5
  <2>2. g = [k \in Nat |-> g[k]]
    BY <1>8
  <2> HIDE DEF g
  <2> QED BY <2>1, <2>2
<1> QED BY <1>10, <1>11 DEF S

\* What the fronts before the k-th leave.
Rest(P, k) == DOMAIN P \ UNION {SortedFronts(P)[m].front : m \in 0..(k - 1)}

LEMMA RestIs ==
  ASSUME NEW P, Population(P), NEW k \in Nat
  PROVE /\ Rest(P, 0) = DOMAIN P /\ Rest(P, k) \subseteq DOMAIN P
        /\ Rest(P, k + 1) = Rest(P, k) \ SortedFronts(P)[k].front
<1>1. Rest(P, 0) = DOMAIN P
  <2>1. 0..(0 - 1) = {}
    OBVIOUS
  <2> QED BY <2>1 DEF Rest
<1>2. Rest(P, k) \subseteq DOMAIN P
  BY DEF Rest
<1>3. ASSUME NEW i PROVE i \in Rest(P, k + 1) <=> i \in Rest(P, k) \ SortedFronts(P)[k].front
  <2>1. i \in Rest(P, k + 1) <=> i \in DOMAIN P /\ \A m \in 0..k : i \notin SortedFronts(P)[m].front
    <3>1. (k + 1) - 1 = k
      OBVIOUS
    <3> QED BY <3>1 DEF Rest
  <2>2. i \in Rest(P, k) <=> i \in DOMAIN P /\ \A m \in 0..(k - 1) : i \notin SortedFronts(P)[m].front
    BY DEF Rest
  <2>3. 0..k = 0..(k - 1) \cup {k}
    OBVIOUS
  <2> QED BY <2>1, <2>2, <2>3
<1> QED BY <1>1, <1>2, <1>3

\* A count is what is left above, a front what nothing left is above; and there is nothing left above
\* what has been taken.
Peeled(P, k) ==
  /\ \A i \in DOMAIN P : SortedFronts(P)[k].count[i] = Cardinality(Above(P, Rest(P, k), i))
  /\ SortedFronts(P)[k].front = {i \in Rest(P, k) : Above(P, Rest(P, k), i) = {}}
  /\ \A i \in DOMAIN P \ Rest(P, k + 1) : Above(P, Rest(P, k), i) = {}

LEMMA PeeledFirst == ASSUME NEW P, Population(P) PROVE Peeled(P, 0)
<1>1. SortedFronts(P)[0] = FirstFront(P) /\ Rest(P, 0) = DOMAIN P
  BY SortedIs, RestIs
<1>2. \A i \in DOMAIN P : SortedFronts(P)[0].count[i] = Cardinality(Above(P, Rest(P, 0), i))
  BY <1>1 DEF FirstFront, Above
<1>3. SortedFronts(P)[0].front = {i \in Rest(P, 0) : Above(P, Rest(P, 0), i) = {}}
  BY <1>1 DEF FirstFront, Above
<1>4. \A i \in DOMAIN P \ Rest(P, 0 + 1) : Above(P, Rest(P, 0), i) = {}
  <2>1. Rest(P, 0 + 1) = Rest(P, 0) \ SortedFronts(P)[0].front
    BY RestIs
  <2> QED BY <1>1, <1>3, <2>1
<1> QED BY <1>2, <1>3, <1>4 DEF Peeled

LEMMA PeeledNext ==
  ASSUME NEW P, Population(P), NEW k \in Nat, Peeled(P, k)
  PROVE Peeled(P, k + 1)
<1> DEFINE s == SortedFronts(P)[k]
           t == SortedFronts(P)[k + 1]
           R == Rest(P, k)
           Q == Rest(P, k + 1)
<1>1. t = NextFront(P, s) /\ k + 1 \in Nat
  BY SortedIs
<1>2. R \subseteq DOMAIN P /\ Q \subseteq DOMAIN P /\ Q = R \ s.front /\ s.front \subseteq R
  BY RestIs DEF Peeled
<1>3. ASSUME NEW i \in DOMAIN P
      PROVE t.count[i] = s.count[i] - Cardinality(Above(P, s.front, i))
  BY <1>1 DEF NextFront, Above
<1>4. t.front = {i \in DOMAIN P : t.count[i] = 0 /\ s.count[i] > 0}
  BY <1>1 DEF NextFront
<1>5. ASSUME NEW i \in DOMAIN P PROVE s.count[i] = Cardinality(Above(P, R, i))
  BY DEF Peeled
<1>6. ASSUME NEW i \in DOMAIN P PROVE t.count[i] = Cardinality(Above(P, Q, i))
  <2>1. Above(P, R, i) = Above(P, Q, i) \cup Above(P, s.front, i) /\ Above(P, Q, i) \cap Above(P, s.front, i) = {}
    BY <1>2 DEF Above
  <2>2. s.front \subseteq DOMAIN P
    BY <1>2
  <2>3. /\ IsFiniteSet(Above(P, Q, i)) /\ Cardinality(Above(P, Q, i)) \in Nat
        /\ IsFiniteSet(Above(P, s.front, i)) /\ Cardinality(Above(P, s.front, i)) \in Nat
    BY <1>2, <2>2, AboveIs
  <2>4. Cardinality(Above(P, R, i)) = Cardinality(Above(P, Q, i)) + Cardinality(Above(P, s.front, i))
    <3>1. Cardinality({}) = 0
      BY FS_EmptySet
    <3>2. PICK A, B : A = Above(P, Q, i) /\ B = Above(P, s.front, i)
      OBVIOUS
    <3>3. IsFiniteSet(A) /\ IsFiniteSet(B) /\ A \cap B = {} /\ Cardinality(A) \in Nat /\ Cardinality(B) \in Nat
      BY <2>1, <2>3, <3>2
    <3>4. Cardinality(A \cup B) = Cardinality(A) + Cardinality(B) - Cardinality(A \cap B)
      BY <3>3, FS_Union
    <3>6. Cardinality(A \cap B) = 0
      BY <3>1, <3>3
    <3>5. Cardinality(A \cup B) = Cardinality(A) + Cardinality(B)
      BY <3>3, <3>4, <3>6
    <3> QED BY <2>1, <3>2, <3>5
  <2> HIDE DEF s, t, R, Q
  <2> QED BY <1>3, <1>5, <2>3, <2>4
<1>7. ASSUME NEW i \in DOMAIN P
      PROVE (t.count[i] = 0 <=> Above(P, Q, i) = {}) /\ (s.count[i] > 0 <=> Above(P, R, i) # {})
  <2> HIDE DEF s, t, R, Q
  <2> QED BY <1>2, <1>5, <1>6, AboveIs
<1>8. ASSUME NEW i \in DOMAIN P \ Q PROVE Above(P, R, i) = {}
  BY DEF Peeled
<1> HIDE DEF s, t, R, Q
<1>9. ASSUME NEW i \in DOMAIN P, Above(P, R, i) = {} PROVE Above(P, Q, i) = {}
  BY <1>2, <1>9 DEF Above
<1>10. ASSUME NEW i PROVE i \in t.front <=> i \in Q /\ Above(P, Q, i) = {}
  <2>1. ASSUME i \in t.front PROVE i \in Q /\ Above(P, Q, i) = {}
    BY <1>4, <1>7, <1>8, <2>1
  <2>2. ASSUME i \in Q, Above(P, Q, i) = {} PROVE i \in t.front
    <3>1. i \in DOMAIN P /\ i \in R /\ i \notin s.front
      BY <1>2, <2>2
    <3>2. Above(P, R, i) # {}
      BY <3>1 DEF Peeled, s, R
    <3> QED BY <1>4, <1>7, <2>2, <3>1, <3>2
  <2> QED BY <2>1, <2>2
<1>11. t.front = {i \in Q : Above(P, Q, i) = {}}
  BY <1>10
<1>12. \A i \in DOMAIN P \ Rest(P, (k + 1) + 1) : Above(P, Q, i) = {}
  <2>1. Rest(P, (k + 1) + 1) = Q \ t.front
    BY <1>1, RestIs DEF Q, t
  <2>2. ASSUME NEW i \in DOMAIN P, i \notin Q \ t.front PROVE Above(P, Q, i) = {}
    <3>1. CASE i \in t.front
      BY <1>11, <3>1
    <3>2. CASE i \notin Q
      BY <1>8, <1>9, <3>2
    <3> QED BY <2>2, <3>1, <3>2
  <2> QED BY <2>1, <2>2
<1> QED BY <1>6, <1>11, <1>12 DEF Peeled, Q, t

LEMMA AllPeeled == ASSUME NEW P, Population(P) PROVE \A k \in Nat : Peeled(P, k)
<1> DEFINE Bad == {k \in Nat : ~Peeled(P, k)}
<1> SUFFICES ASSUME Bad # {} PROVE FALSE
  OBVIOUS
<1>1. PICK k \in Bad : \A l \in Bad : k <= l
  BY LeastNat
<1>2. k \in Nat /\ ~Peeled(P, k)
  BY <1>1
<1>3. k # 0
  BY <1>2, PeeledFirst
<1>4. k - 1 \in Nat /\ (k - 1) + 1 = k /\ ~(k <= k - 1)
  BY <1>2, <1>3
<1>5. Peeled(P, k - 1)
  BY <1>1, <1>4
<1>6. Peeled(P, (k - 1) + 1)
  BY <1>4, <1>5, PeeledNext
<1> QED BY <1>2, <1>4, <1>6

\* Every front takes something, as long as there is something.
LEMMA NothingRests == ASSUME NEW P, Population(P) PROVE Rest(P, Len(P)) = {}
<1> DEFINE Shrunk(k) == Rest(P, k) = {} \/ Cardinality(Rest(P, k)) + k <= Len(P)
           Bad == {k \in Nat : ~Shrunk(k)}
<1>1. ASSUME NEW k \in Nat PROVE IsFiniteSet(Rest(P, k)) /\ Cardinality(Rest(P, k)) \in Nat
  BY RestIs, PopulationIs, FS_Subset, FS_CardinalityType
<1>2. ASSUME NEW k \in Nat, Shrunk(k) PROVE Shrunk(k + 1)
  <2>1. Rest(P, k + 1) = Rest(P, k) \ SortedFronts(P)[k].front /\ k + 1 \in Nat
    BY RestIs
  <2>2. CASE Rest(P, k) = {}
    BY <2>1, <2>2
  <2>3. CASE Rest(P, k) # {}
    <3>1. Rest(P, k) \subseteq DOMAIN P
      BY RestIs
    <3>2. PICK i \in Rest(P, k) : \A j \in Rest(P, k) : ~Dominates(P[j], P[i])
      BY <2>3, <3>1, SomeUndominated
    <3>3. Above(P, Rest(P, k), i) = {}
      BY <3>2 DEF Above
    <3>4. i \in SortedFronts(P)[k].front
      BY <3>3, AllPeeled DEF Peeled
    <3>5. Rest(P, k + 1) \subseteq Rest(P, k) /\ Rest(P, k + 1) # Rest(P, k)
      BY <2>1, <3>4
    <3>6. Cardinality(Rest(P, k + 1)) < Cardinality(Rest(P, k))
      BY <1>1, <2>1, <3>5, FS_Subset
    <3>7. Cardinality(Rest(P, k)) + k <= Len(P) /\ Len(P) \in Nat
      BY <1>2, <2>3, PopulationIs
    <3>8. Cardinality(Rest(P, k)) \in Nat /\ Cardinality(Rest(P, k + 1)) \in Nat
      BY <1>1, <2>1
    <3>9. Cardinality(Rest(P, k + 1)) + (k + 1) <= Len(P)
      BY <3>6, <3>7, <3>8
    <3> QED BY <3>9
  <2> QED BY <2>2, <2>3
<1>3. Shrunk(0)
  BY RestIs, PopulationIs
<1>4. ASSUME Bad # {} PROVE FALSE
  <2>1. PICK k \in Bad : \A l \in Bad : k <= l
    BY <1>4, LeastNat
  <2>2. k \in Nat /\ ~Shrunk(k)
    BY <2>1
  <2> HIDE DEF Shrunk
  <2>3. k # 0
    BY <1>3, <2>2
  <2>4. k - 1 \in Nat /\ (k - 1) + 1 = k /\ ~(k <= k - 1)
    BY <2>2, <2>3
  <2>5. Shrunk(k - 1)
    BY <2>1, <2>4
  <2>6. Shrunk((k - 1) + 1)
    BY <1>2, <2>4, <2>5
  <2> QED BY <2>2, <2>4, <2>6
<1>5. Len(P) \in Nat
  BY PopulationIs
<1>6. Shrunk(Len(P))
  BY <1>4, <1>5
<1>7. CASE Cardinality(Rest(P, Len(P))) + Len(P) <= Len(P)
  <2>1. Cardinality(Rest(P, Len(P))) = 0
    BY <1>1, <1>5, <1>7
  <2> QED BY <1>1, <1>5, <2>1, FS_EmptySet
<1> QED BY <1>6, <1>7

LEMMA FrontsAre ==
  ASSUME NEW P, Population(P)
  PROVE /\ DOMAIN Fronts(P) = 1..Len(P)
        /\ \A k \in 1..Len(P) : Fronts(P)[k] = {i \in Rest(P, k - 1) : Above(P, Rest(P, k - 1), i) = {}}
        /\ \A k \in 0..Len(P) : UNION {Fronts(P)[i] : i \in 1..k} = DOMAIN P \ Rest(P, k)
<1>1. Len(P) \in Nat
  BY PopulationIs
<1>2. Fronts(P) = [k \in 1..Len(P) |-> SortedFronts(P)[k - 1].front]
  BY DEF Fronts
<1>3. ASSUME NEW k \in 1..Len(P)
      PROVE Fronts(P)[k] = {i \in Rest(P, k - 1) : Above(P, Rest(P, k - 1), i) = {}}
  <2>1. k - 1 \in Nat /\ Fronts(P)[k] = SortedFronts(P)[k - 1].front
    BY <1>1, <1>2
  <2> QED BY <2>1, AllPeeled DEF Peeled
<1>4. ASSUME NEW k \in 0..Len(P) PROVE UNION {Fronts(P)[i] : i \in 1..k} = DOMAIN P \ Rest(P, k)
  <2>1. \A m \in 0..(k - 1) : SortedFronts(P)[m].front \subseteq DOMAIN P
    <3> SUFFICES ASSUME NEW m \in 0..(k - 1) PROVE SortedFronts(P)[m].front \subseteq DOMAIN P
      OBVIOUS
    <3>1. m \in Nat
      OBVIOUS
    <3>2. SortedFronts(P)[m] \in [count : [DOMAIN P -> Int], front : SUBSET DOMAIN P]
      BY <3>1, SortedIs
    <3> QED BY <3>2
  <2>2. ASSUME NEW x PROVE x \in DOMAIN P \ Rest(P, k) <=> \E m \in 0..(k - 1) : x \in SortedFronts(P)[m].front
    BY <2>1 DEF Rest
  <2>3. ASSUME NEW x PROVE x \in UNION {Fronts(P)[i] : i \in 1..k} <=> \E i \in 1..k : x \in SortedFronts(P)[i - 1].front
    <3>1. \A i \in 1..k : i \in 1..Len(P) /\ Fronts(P)[i] = SortedFronts(P)[i - 1].front
      BY <1>1, <1>2
    <3> QED BY <3>1
  <2>4. ASSUME NEW x
        PROVE (\E m \in 0..(k - 1) : x \in SortedFronts(P)[m].front) <=> \E i \in 1..k : x \in SortedFronts(P)[i - 1].front
    <3>1. ASSUME NEW m \in 0..(k - 1), x \in SortedFronts(P)[m].front PROVE \E i \in 1..k : x \in SortedFronts(P)[i - 1].front
      <4>1. m + 1 \in 1..k /\ (m + 1) - 1 = m
        OBVIOUS
      <4> QED BY <3>1, <4>1
    <3>2. ASSUME NEW i \in 1..k, x \in SortedFronts(P)[i - 1].front PROVE \E m \in 0..(k - 1) : x \in SortedFronts(P)[m].front
      <4>1. i - 1 \in 0..(k - 1)
        OBVIOUS
      <4> QED BY <3>2, <4>1
    <3> QED BY <3>1, <3>2
  <2> QED BY <2>2, <2>3, <2>4
<1> QED BY <1>2, <1>3, <1>4

LEMMA FirstFrontIs ==
  ASSUME NEW P, Population(P), Len(P) >= 1
  PROVE Fronts(P)[1] = {i \in DOMAIN P : Above(P, DOMAIN P, i) = {}}
<1>1. 1 \in 1..Len(P) /\ 1 - 1 = 0
  BY PopulationIs
<1> QED BY <1>1, FrontsAre, RestIs

\* Either all of the first front is kept, or nothing but it.
LEMMA KeptIs ==
  ASSUME NEW P, Population(P), Len(P) >= PopSize, NEW S \in Kept(P)
  PROVE /\ S \subseteq DOMAIN P /\ Cardinality(S) = PopSize
        /\ Fronts(P)[1] \subseteq S \/ S \subseteq Fronts(P)[1]
<1> DEFINE Upto(k) == UNION {Fronts(P)[i] : i \in 1..k}
           Full(k) == Cardinality(Upto(k)) >= PopSize
           Turning(k) == Cardinality(Upto(k)) >= PopSize /\ Cardinality(Upto(k - 1)) < PopSize
           n == CHOOSE k \in 1..Len(P) : Turning(k)
           Filled == {k \in 1..Len(P) : Full(k)}
<1>1. PopSize \in Nat /\ PopSize >= 1 /\ Len(P) \in Nat
  BY ParetoAssumption, PopulationIs
<1>2. \A k \in 0..Len(P) : Upto(k) = DOMAIN P \ Rest(P, k)
  BY FrontsAre
<1>3. ASSUME NEW k \in 0..Len(P) PROVE Upto(k) \subseteq DOMAIN P /\ Cardinality(Upto(k)) \in Nat
  <2>1. Upto(k) \subseteq DOMAIN P
    BY <1>2
  <2> QED BY <2>1, PopulationIs, FS_Subset, FS_CardinalityType
<1>4. Upto(0) = {} /\ Upto(Len(P)) = DOMAIN P
  <2>1. Rest(P, 0) = DOMAIN P /\ Rest(P, Len(P)) = {}
    BY RestIs, NothingRests
  <2>2. 0 \in 0..Len(P) /\ Len(P) \in 0..Len(P)
    BY <1>1
  <2> QED BY <1>2, <2>1, <2>2
<1>5. Len(P) \in Filled
  <2>1. Len(P) \in 1..Len(P) /\ Cardinality(DOMAIN P) = Len(P)
    BY <1>1, PopulationIs
  <2> HIDE DEF Upto
  <2> QED BY <1>4, <2>1
<1>6. \E k \in 1..Len(P) : Turning(k)
  <2>1. PICK k \in Filled : \A m \in Filled : k <= m
    <3>1. Filled \subseteq Nat
      OBVIOUS
    <3> HIDE DEF Filled
    <3> QED BY <1>5, <3>1, LeastNat
  <2>2. k \in 1..Len(P) /\ Full(k)
    BY <2>1
  <2> HIDE DEF Upto
  <2>3. Cardinality(Upto(k - 1)) < PopSize
    <3>1. CASE k = 1
      <4>1. Upto(k - 1) = Upto(0)
        BY <3>1
      <4>2. Cardinality(Upto(0)) = 0
        BY <1>4, FS_EmptySet, Zenon
      <4> QED BY <1>1, <4>1, <4>2
    <3>2. CASE k # 1
      <4>1. k - 1 \in 1..Len(P) /\ k - 1 \in 0..Len(P) /\ ~(k <= k - 1)
        BY <1>1, <2>2, <3>2
      <4>2. ~Full(k - 1)
        BY <2>1, <4>1
      <4>3. Cardinality(Upto(k - 1)) \in Nat
        BY <1>3, <4>1
      <4> QED BY <1>1, <4>2, <4>3
    <3> QED BY <3>1, <3>2
  <2> QED BY <2>2, <2>3
<1>7. n \in 1..Len(P) /\ Turning(n)
  <2> HIDE DEF Turning
  <2> QED BY <1>6
<1>8. S \in SUBSET Upto(n) /\ Cardinality(S) = PopSize /\ Upto(n - 1) \subseteq S
  BY DEF Kept
<1> HIDE DEF n
<1>9. S \subseteq DOMAIN P
  <2>1. n \in 0..Len(P)
    BY <1>1, <1>7
  <2> HIDE DEF Upto
  <2> QED BY <1>3, <1>8, <2>1
<1>10. CASE n = 1
  <2>1. Upto(1) = Fronts(P)[1]
    OBVIOUS
  <2> HIDE DEF Upto
  <2> QED BY <1>8, <1>9, <1>10, <2>1
<1>11. CASE n # 1
  <2>1. 1 \in 1..(n - 1)
    BY <1>1, <1>7, <1>11
  <2>2. Fronts(P)[1] \subseteq Upto(n - 1)
    BY <2>1
  <2> HIDE DEF Upto
  <2> QED BY <1>8, <1>9, <2>2
<1> QED BY <1>10, <1>11

\* The places of a set number it.
LEMMA PlaceIs ==
  ASSUME NEW n \in Nat, NEW S, S \subseteq 1..n
  PROVE /\ \A k \in 1..Cardinality(S) : Place(S, k) \in S
        /\ \A s \in S : \E k \in 1..Cardinality(S) : Place(S, k) = s
<1>0. \A x \in S : x \in Int
  OBVIOUS
<1>6. ASSUME NEW k \in 1..Cardinality(S) PROVE \E i \in S : Cardinality({j \in S : j <= i}) = k
  BY KthPlace, ZenonT(60)
<1> DEFINE Upto(i) == {j \in S : j <= i}
<1>1. IsFiniteSet(S) /\ Cardinality(S) \in Nat
  <2>1. IsFiniteSet(1..n)
    BY FS_Interval
  <2> QED BY <2>1, FS_Subset, FS_CardinalityType
<1>2. ASSUME NEW k \in 1..Cardinality(S) PROVE Place(S, k) \in S /\ Cardinality(Upto(Place(S, k))) = k
  <2>1. \E i \in S : Cardinality({j \in S : j <= i}) = k
    BY <1>6
  <2> QED BY <2>1 DEF Place
<1>3. ASSUME NEW i \in S
      PROVE /\ IsFiniteSet(Upto(i)) /\ Cardinality(Upto(i)) \in 1..Cardinality(S)
  <2>1. Upto(i) \subseteq S
    OBVIOUS
  <2>2. IsFiniteSet(Upto(i)) /\ Cardinality(Upto(i)) \in Nat /\ Cardinality(Upto(i)) <= Cardinality(S)
    <3> HIDE DEF Upto
    <3> QED BY <1>1, <2>1, FS_Subset, FS_CardinalityType
  <2>3. i \in Upto(i)
    OBVIOUS
  <2>4. Cardinality(Upto(i)) # 0
    <3> HIDE DEF Upto
    <3> QED BY <2>2, <2>3, FS_EmptySet
  <2> HIDE DEF Upto
  <2> QED BY <1>1, <2>2, <2>4
<1>4. ASSUME NEW i \in S, NEW j \in S, i < j PROVE Cardinality(Upto(i)) < Cardinality(Upto(j))
  <2>1. Upto(i) \subseteq Upto(j) /\ Upto(i) # Upto(j)
    <3>1. j \in Upto(j) /\ j \notin Upto(i)
      BY <1>4
    <3>2. ASSUME NEW x \in Upto(i) PROVE x \in Upto(j)
      <4>1. x \in S /\ x <= i /\ x \in Int /\ i \in Int /\ j \in Int
        BY <1>0
      <4>2. x <= j
        BY <1>4, <4>1
      <4> QED BY <4>1, <4>2
    <3> HIDE DEF Upto
    <3> QED BY <3>1, <3>2
  <2> HIDE DEF Upto
  <2> QED BY <1>3, <2>1, FS_Subset
<1>5. ASSUME NEW s \in S PROVE \E k \in 1..Cardinality(S) : Place(S, k) = s
  <2>1. PICK k \in 1..Cardinality(S) : k = Cardinality(Upto(s))
    <3> HIDE DEF Upto
    <3> QED BY <1>3
  <2>2. Place(S, k) \in S /\ Cardinality(Upto(Place(S, k))) = k
    BY <1>2
  <2>3. PICK p \in S : p = Place(S, k)
    BY <2>2
  <2>4. p \in Nat /\ s \in Nat
    OBVIOUS
  <2>5. Cardinality(Upto(p)) = Cardinality(Upto(s))
    BY <2>1, <2>2, <2>3
  <2> HIDE DEF Upto
  <2>6. ~(p < s) /\ ~(s < p)
    BY <1>3, <1>4, <2>5
  <2> QED BY <2>3, <2>4, <2>6
<1> QED BY <1>2, <1>5

\* What is selected is as good as what it is selected from.
LEMMA SelectionIs ==
  ASSUME NEW P, Population(P), Len(P) >= PopSize, NEW S \in Kept(P), NEW pop,
         pop = [i \in 1..PopSize |-> P[Place(S, i)]]
  PROVE /\ Population(pop) /\ Len(pop) = PopSize
        /\ \A i \in Fronts(pop)[1] : \A j \in DOMAIN P : ~Dominates(P[j], pop[i])
<1>1. PopSize \in Nat /\ PopSize >= 1 /\ Len(P) \in Nat /\ DOMAIN P = 1..Len(P)
  BY ParetoAssumption, PopulationIs
<1>2. S \subseteq 1..Len(P) /\ Cardinality(S) = PopSize /\ (Fronts(P)[1] \subseteq S \/ S \subseteq Fronts(P)[1])
  BY <1>1, KeptIs
<1>3. /\ \A k \in 1..PopSize : Place(S, k) \in S
      /\ \A s \in S : \E k \in 1..PopSize : Place(S, k) = s
  BY <1>1, <1>2, PlaceIs
<1>4. \A i \in 1..PopSize : Place(S, i) \in DOMAIN P /\ pop[i] = P[Place(S, i)] /\ pop[i] \in Vectors
  BY <1>1, <1>2, <1>3, PopulationIs
<1>5. pop \in [1..PopSize -> Vectors]
  BY <1>4
<1>6. Population(pop) /\ Len(pop) = PopSize /\ DOMAIN pop = 1..PopSize
  <2>1. pop \in Seq(Vectors)
    BY <1>1, <1>5, SeqDef
  <2>2. DOMAIN pop = 1..PopSize
    BY <1>5
  <2>3. Len(pop) = PopSize
    BY <1>1, <2>1, <2>2, LenProperties
  <2> QED BY <2>1, <2>2, <2>3 DEF Population
<1>7. ASSUME NEW i \in Fronts(pop)[1], NEW j \in DOMAIN P, Dominates(P[j], pop[i]) PROVE FALSE
  <2>1. i \in 1..PopSize /\ Above(pop, DOMAIN pop, i) = {}
    BY <1>1, <1>6, FirstFrontIs
  <2>2. PICK s \in S : s = Place(S, i) /\ pop[i] = P[s]
    BY <1>3, <1>4, <2>1
  <2>3. s \in DOMAIN P /\ j \in Above(P, DOMAIN P, s)
    BY <1>1, <1>2, <1>7, <2>2 DEF Above
  <2>4. Fronts(P)[1] = {k \in DOMAIN P : Above(P, DOMAIN P, k) = {}}
    BY <1>1, FirstFrontIs
  <2>5. s \notin Fronts(P)[1]
    BY <2>3, <2>4
  <2>6. Fronts(P)[1] \subseteq S
    BY <1>2, <2>5
  <2>7. PICK k \in DOMAIN P : Dominates(P[k], P[s]) /\ \A l \in DOMAIN P : ~Dominates(P[l], P[k])
    BY <2>3, UndominatedAbove
  <2>8. k \in S
    BY <2>4, <2>6, <2>7 DEF Above
  <2>9. PICK m \in 1..PopSize : Place(S, m) = k
    BY <1>3, <2>8
  <2>10. m \in Above(pop, DOMAIN pop, i)
    BY <1>4, <1>6, <2>2, <2>7, <2>9 DEF Above
  <2> QED BY <2>1, <2>10
<1> QED BY <1>6, <1>7

\* What is sorted is peeled.
LEMMA FrontsPeeled ==
  ASSUME NEW P, Population(P)
  PROVE \A k \in DOMAIN Fronts(P) :
          LET rest == DOMAIN P \ UNION {Fronts(P)[i] : i \in 1..(k - 1)}
          IN Fronts(P)[k] = {i \in rest : \A j \in rest : ~Better(P[j], P[i])}
<1> SUFFICES ASSUME NEW k \in DOMAIN Fronts(P)
             PROVE LET rest == DOMAIN P \ UNION {Fronts(P)[i] : i \in 1..(k - 1)}
                   IN Fronts(P)[k] = {i \in rest : \A j \in rest : ~Better(P[j], P[i])}
  OBVIOUS
<1>0. k \in 1..Len(P)
  BY FrontsAre
<1>1. k - 1 \in Nat /\ k - 1 \in 0..Len(P)
  BY <1>0, PopulationIs
<1>2. DOMAIN P \ UNION {Fronts(P)[i] : i \in 1..(k - 1)} = Rest(P, k - 1)
  <2>1. UNION {Fronts(P)[i] : i \in 1..(k - 1)} = DOMAIN P \ Rest(P, k - 1)
    BY <1>1, FrontsAre
  <2>2. Rest(P, k - 1) \subseteq DOMAIN P
    BY <1>1, RestIs
  <2> QED BY <2>1, <2>2
<1>3. ASSUME NEW i \in Rest(P, k - 1)
      PROVE Above(P, Rest(P, k - 1), i) = {} <=> \A j \in Rest(P, k - 1) : ~Better(P[j], P[i])
  <2>1. \A j \in Rest(P, k - 1) : P[j] \in Vectors /\ P[i] \in Vectors
    BY <1>1, RestIs, PopulationIs
  <2>2. \A j \in Rest(P, k - 1) : Better(P[j], P[i]) <=> Dominates(P[j], P[i])
    BY <2>1, BetterIs
  <2> QED BY <2>2 DEF Above
<1>4. Fronts(P)[k] = {i \in Rest(P, k - 1) : Above(P, Rest(P, k - 1), i) = {}}
  BY <1>0, FrontsAre
<1>5. Fronts(P)[k] = {i \in Rest(P, k - 1) : \A j \in Rest(P, k - 1) : ~Better(P[j], P[i])}
  BY <1>3, <1>4
<1> QED BY <1>2, <1>5

ParetoInv ==
  /\ Population(moo.pop) /\ Len(moo.pop) = PopSize /\ Population(moo.from) /\ moo.gen \in Nat
  /\ Elitist

LEMMA PopulationOf ==
  ASSUME NEW P \in [1..PopSize -> Vectors]
  PROVE Population(P) /\ Len(P) = PopSize
<1>1. PopSize \in Nat
  BY ParetoAssumption
<1>2. P \in Seq(Vectors) /\ DOMAIN P = 1..PopSize
  BY <1>1, SeqDef
<1>3. Len(P) = PopSize
  BY <1>1, <1>2, LenProperties
<1> QED BY <1>2, <1>3 DEF Population

LEMMA ParetoStart == ParetoInit => ParetoInv
<1> SUFFICES ASSUME ParetoInit PROVE ParetoInv
  OBVIOUS
<1>1. PICK P \in [1..PopSize -> Vectors] : moo = [gen |-> 0, pop |-> P, from |-> P]
  BY DEF ParetoInit
<1>2. moo.pop = P /\ moo.from = P /\ moo.gen = 0
  BY <1>1
<1> QED BY <1>2, PopulationOf DEF ParetoInv, Elitist

LEMMA ParetoStep == ParetoInv /\ [ParetoNext]_moo => ParetoInv'
<1> SUFFICES ASSUME ParetoInv, [ParetoNext]_moo PROVE ParetoInv'
  OBVIOUS
<1>1. CASE Generation
  <2>1. PICK children \in [1..PopSize -> Vectors] :
          \E S \in Kept(moo.pop \o children) :
            moo' = [gen |-> moo.gen + 1, from |-> moo.pop \o children,
                    pop |-> [i \in 1..PopSize |-> (moo.pop \o children)[Place(S, i)]]]
    BY <1>1 DEF Generation
  <2>2. PICK all : all = moo.pop \o children
    OBVIOUS
  <2>3. PICK S \in Kept(all) :
          moo' = [gen |-> moo.gen + 1, from |-> all, pop |-> [i \in 1..PopSize |-> all[Place(S, i)]]]
    BY <2>1, <2>2
  <2>4. PICK pop : pop = [i \in 1..PopSize |-> all[Place(S, i)]]
    OBVIOUS
  <2>5. moo'.pop = pop /\ moo'.from = all /\ moo'.gen = moo.gen + 1
    BY <2>3, <2>4
  <2>6. Population(children) /\ Len(children) = PopSize
    BY PopulationOf
  <2>7. Population(all) /\ Len(all) >= PopSize
    <3>1. PopSize \in Nat
      BY ParetoAssumption
    <3>2. moo.pop \in Seq(Vectors) /\ children \in Seq(Vectors) /\ Len(moo.pop) = PopSize
      BY <2>6 DEF ParetoInv, Population
    <3>3. all \in Seq(Vectors) /\ Len(all) = Len(moo.pop) + Len(children)
      BY <2>2, <3>2, ConcatProperties
    <3> QED BY <2>6, <3>1, <3>2, <3>3 DEF Population
  <2>8. /\ Population(pop) /\ Len(pop) = PopSize
        /\ \A i \in Fronts(pop)[1] : \A j \in DOMAIN all : ~Dominates(all[j], pop[i])
    BY <2>4, <2>7, SelectionIs
  <2>9. ASSUME NEW i \in Fronts(pop)[1], NEW j \in DOMAIN all PROVE ~Better(all[j], pop[i])
    <3>1. PopSize \in Nat /\ PopSize >= 1
      BY ParetoAssumption
    <3>2. i \in DOMAIN pop
      BY <2>8, <3>1, FirstFrontIs
    <3>3. all[j] \in Vectors /\ pop[i] \in Vectors
      BY <2>7, <2>8, <3>2, PopulationIs
    <3> QED BY <2>8, <3>3, BetterIs
  <2>10. Elitist'
    BY <2>5, <2>9 DEF Elitist
  <2>11. moo'.gen \in Nat
    BY <2>5 DEF ParetoInv
  <2> QED BY <2>5, <2>7, <2>8, <2>10, <2>11 DEF ParetoInv
<1>2. CASE UNCHANGED moo
  BY <1>2 DEF ParetoInv, Elitist
<1> QED BY <1>1, <1>2 DEF ParetoNext

\* The sort by counting finds the fronts that peeling finds, and what a generation reports as its front
\* nothing it dropped is better than: for all objectives, scores and sizes of the population.
THEOREM FrontsArePeeled == ParetoSpec => []FrontsPeel
<1>1. ParetoSpec => []ParetoInv
  BY ParetoStart, ParetoStep, PTL DEF ParetoSpec
<1>2. ParetoInv => FrontsPeel
  BY FrontsPeeled DEF ParetoInv, FrontsPeel
<1> QED BY <1>1, <1>2, PTL

-----------------------------------------------------------------------------
(* The pool of skills, whatever the interleaving of the threads: the counts and the cap hold always, and *)
(* novelty and the names in the feedback hold as long as no two evolutions overlapped. *)

Individuals == [source : Int, score : Nat \ {0}]
Entered(P) == P \in Seq(Individuals)
Unlike(P) == \A i, j \in DOMAIN P : i # j => ~Alike(P[i].source, P[j].source)

LEMMA EnteredIs ==
  ASSUME NEW P, Entered(P)
  PROVE /\ Len(P) \in Nat /\ DOMAIN P = 1..Len(P) /\ IsFiniteSet(DOMAIN P) /\ Cardinality(DOMAIN P) = Len(P)
        /\ \A i \in DOMAIN P : P[i] \in Individuals /\ P[i].source \in Int /\ P[i].score \in Nat \ {0}
<1>1. Len(P) \in Nat /\ DOMAIN P = 1..Len(P)
  BY DEF Entered
<1>2. IsFiniteSet(DOMAIN P) /\ Cardinality(DOMAIN P) = Len(P)
  <2>1. PICK n \in Nat : n = Len(P)
    BY <1>1
  <2>2. IsFiniteSet(1..n) /\ Cardinality(1..n) = IF 1 > n THEN 0 ELSE n - 1 + 1
    BY FS_Interval
  <2>3. Cardinality(1..n) = n
    BY <2>2
  <2> QED BY <1>1, <2>1, <2>2, <2>3, SMTT(30)
<1>3. ASSUME NEW i \in DOMAIN P PROVE P[i] \in Individuals
  BY <1>1, ElementOfSeq DEF Entered
<1> QED BY <1>1, <1>2, <1>3 DEF Individuals

LEMMA SharedIs ==
  ASSUME NEW P, Entered(P), NEW i \in DOMAIN P
  PROVE Shared(P, i) \in Nat \ {0}
<1> DEFINE N == {j \in DOMAIN P : Niche(P[i].source, P[j].source)}
<1>1. N \subseteq DOMAIN P /\ i \in N
  BY DEF Niche
<1>2. IsFiniteSet(N) /\ Cardinality(N) \in Nat
  BY <1>1, EnteredIs, FS_Subset, FS_CardinalityType
<1>3. Cardinality(N) # 0
  <2> HIDE DEF N
  <2> QED BY <1>1, <1>2, FS_EmptySet
<1> QED BY <1>2, <1>3 DEF Shared

\* Fractions compared crosswise.
LEMMA Crosswise ==
  ASSUME NEW a \in Nat, NEW b \in Nat, NEW c \in Nat, NEW x \in Nat \ {0}, NEW y \in Nat \ {0}, NEW z \in Nat \ {0},
         a * y >= b * x, b * z >= c * y
  PROVE /\ a * z >= c * x
        /\ a * z = c * x => a * y = b * x /\ b * z = c * y
<1>1. PICK p \in Nat, q \in Nat, r \in Nat, s \in Nat : p = a * y /\ q = b * x /\ r = b * z /\ s = c * y
  OBVIOUS
<1>2. PICK u \in Nat, v \in Nat : u = a * z /\ v = c * x
  OBVIOUS
<1>3. p * z >= q * z /\ r * x >= s * x
  BY <1>1
<1>4. p * z = u * y /\ q * z = r * x /\ s * x = v * y
  BY <1>1, <1>2
<1>5. u * y >= v * y
  <2>1. p * z \in Int /\ q * z \in Int /\ r * x \in Int /\ s * x \in Int /\ u * y \in Int /\ v * y \in Int
    OBVIOUS
  <2> QED BY <1>3, <1>4, <2>1
<1>6. u >= v
  BY <1>5
<1>7. ASSUME u = v PROVE p = q /\ r = s
  <2>1. p * z = q * z /\ r * x = s * x
    <3>1. p * z \in Int /\ q * z \in Int /\ r * x \in Int /\ s * x \in Int /\ u * y \in Int /\ v * y \in Int
      OBVIOUS
    <3> QED BY <1>3, <1>4, <1>7, <3>1
  <2>2. p = q
    BY <2>1
  <2>3. r = s
    BY <2>1
  <2> QED BY <2>2, <2>3
<1> QED BY <1>1, <1>2, <1>6, <1>7

\* A strict order in which every two entries have their place.
LEMMA OutscoresOrder ==
  ASSUME NEW P, Entered(P), NEW i \in DOMAIN P, NEW j \in DOMAIN P, NEW k \in DOMAIN P
  PROVE /\ ~Outscores(P, i, i)
        /\ i # j => Outscores(P, i, j) \/ Outscores(P, j, i)
        /\ Outscores(P, i, j) /\ Outscores(P, j, k) => Outscores(P, i, k)
<1>1. PICK a \in Nat, b \in Nat, c \in Nat : a = P[i].score /\ b = P[j].score /\ c = P[k].score
  BY EnteredIs
<1>2. PICK x \in Nat \ {0}, y \in Nat \ {0}, z \in Nat \ {0} : x = Shared(P, i) /\ y = Shared(P, j) /\ z = Shared(P, k)
  BY SharedIs
<1>3. /\ Outscores(P, i, i) <=> (a * x > a * x \/ (a * x = a * x /\ i < i))
      /\ Outscores(P, i, j) <=> (a * y > b * x \/ (a * y = b * x /\ i < j))
      /\ Outscores(P, j, i) <=> (b * x > a * y \/ (b * x = a * y /\ j < i))
      /\ Outscores(P, j, k) <=> (b * z > c * y \/ (b * z = c * y /\ j < k))
      /\ Outscores(P, i, k) <=> (a * z > c * x \/ (a * z = c * x /\ i < k))
  BY <1>1, <1>2 DEF Outscores
<1>4. i \in Nat /\ j \in Nat /\ k \in Nat
  BY EnteredIs
<1>5. PICK ay \in Nat, bx \in Nat, bz \in Nat, cy \in Nat, az \in Nat, cx \in Nat, ax \in Nat :
        ay = a * y /\ bx = b * x /\ bz = b * z /\ cy = c * y /\ az = a * z /\ cx = c * x /\ ax = a * x
  OBVIOUS
<1>6. ay >= bx /\ bz >= cy => az >= cx /\ (az = cx => ay = bx /\ bz = cy)
  BY <1>5, Crosswise
<1>7. ~Outscores(P, i, i)
  BY <1>3, <1>4, <1>5
<1>8. i # j => Outscores(P, i, j) \/ Outscores(P, j, i)
  BY <1>3, <1>4, <1>5
<1>9. ASSUME Outscores(P, i, j), Outscores(P, j, k) PROVE Outscores(P, i, k)
  <2>1. (ay > bx \/ (ay = bx /\ i < j)) /\ (bz > cy \/ (bz = cy /\ j < k))
    BY <1>3, <1>5, <1>9
  <2>2. az > cx \/ (az = cx /\ i < k)
    BY <1>4, <1>6, <2>1
  <2> QED BY <1>3, <1>5, <2>2
<1> QED BY <1>7, <1>8, <1>9

\* Every place in the order is taken once.
LEMMA RankedIs ==
  ASSUME NEW P, Entered(P), NEW k \in 1..Len(P)
  PROVE /\ Ranked(P, k) \in DOMAIN P
        /\ Cardinality({j \in DOMAIN P : Outscores(P, j, Ranked(P, k))}) = k - 1
<1> DEFINE Superior(i) == {j \in DOMAIN P : Outscores(P, j, i)}
           D == DOMAIN P
           n == Len(P)
           count == [i \in D |-> Cardinality(Superior(i))]
           Image == {count[i] : i \in D}
<1>1. n \in Nat /\ IsFiniteSet(D) /\ Cardinality(D) = n
  BY EnteredIs
<1>2. ASSUME NEW i \in D PROVE IsFiniteSet(Superior(i)) /\ Cardinality(Superior(i)) \in 0..(n - 1)
  <2>1. Superior(i) \subseteq D /\ i \notin Superior(i)
    BY OutscoresOrder
  <2>2. Superior(i) # D
    BY <2>1
  <2> HIDE DEF Superior, D, n
  <2>3. IsFiniteSet(Superior(i)) /\ Cardinality(Superior(i)) \in Nat /\ Cardinality(Superior(i)) < Cardinality(D)
    BY <1>1, <2>1, <2>2, FS_Subset, FS_CardinalityType
  <2> QED BY <1>1, <2>3
<1>3. ASSUME NEW i \in D, NEW j \in D, Outscores(P, i, j) PROVE Cardinality(Superior(i)) < Cardinality(Superior(j))
  <2>1. \A l \in D : Outscores(P, l, i) => Outscores(P, l, j)
    BY <1>3, OutscoresOrder
  <2>2. Superior(i) \subseteq Superior(j)
    BY <2>1
  <2>3. i \in Superior(j) /\ i \notin Superior(i)
    BY <1>3, OutscoresOrder
  <2>4. Superior(i) # Superior(j)
    BY <2>3
  <2> HIDE DEF Superior
  <2> QED BY <1>2, <2>2, <2>4, FS_Subset
<1> HIDE DEF Superior
<1>4. ASSUME NEW i \in D, NEW j \in D, i # j PROVE count[i] # count[j]
  <2>1. Outscores(P, i, j) \/ Outscores(P, j, i)
    BY <1>4, OutscoresOrder
  <2>2. Cardinality(Superior(i)) \in Int /\ Cardinality(Superior(j)) \in Int
    BY <1>2
  <2> QED BY <1>3, <2>1, <2>2
<1>5. count \in Injection(D, 0..(n - 1))
  <2>1. count \in [D -> 0..(n - 1)]
    BY <1>2
  <2> HIDE DEF count, D, n
  <2>2. \A i, j \in D : count[i] = count[j] => i = j
    BY <1>4
  <2> QED BY <2>1, <2>2 DEF Injection, IsInjective
<1>6. IsFiniteSet(0..(n - 1)) /\ Cardinality(0..(n - 1)) = n
  <2>1. PICK m \in Int : m = n - 1 /\ m + 1 = n /\ m >= -1
    BY <1>1
  <2>2. IsFiniteSet(0..m) /\ Cardinality(0..m) = IF 0 > m THEN 0 ELSE m - 0 + 1
    BY FS_Interval
  <2>3. Cardinality(0..m) = n
    BY <2>1, <2>2
  <2> QED BY <2>1, <2>2, <2>3
<1>7. count \in Surjection(D, 0..(n - 1))
  <2> HIDE DEF count, D, n
  <2> QED BY <1>1, <1>5, <1>6, FS_Injection
<1>8. k - 1 \in 0..(n - 1)
  BY <1>1
<1>9. \E i \in D : count[i] = k - 1
  <2> HIDE DEF count, D, n
  <2> QED BY <1>7, <1>8 DEF Surjection
<1>10. \E i \in D : Cardinality(Superior(i)) = k - 1
  BY <1>9
<1> QED BY <1>10 DEF Ranked, Superior

\* What remains of a population: some of its entries, none twice.
LEMMA TrimmedIs ==
  ASSUME NEW P, Entered(P), Len(P) >= PopulationCap
  PROVE Entered(Trimmed(P)) /\ Len(Trimmed(P)) = PopulationCap /\ (Unlike(P) => Unlike(Trimmed(P)))
<1> DEFINE T == Trimmed(P)
<1>1. PopulationCap \in Nat /\ Len(P) \in Nat
  BY SkillAssumption, EnteredIs
<1>2. ASSUME NEW k \in 1..PopulationCap
      PROVE /\ k \in 1..Len(P) /\ Ranked(P, k) \in DOMAIN P
            /\ Cardinality({j \in DOMAIN P : Outscores(P, j, Ranked(P, k))}) = k - 1
  <2>1. k \in 1..Len(P)
    BY <1>1
  <2> QED BY <2>1, RankedIs
<1>3. T = [k \in 1..PopulationCap |-> P[Ranked(P, k)]]
  BY DEF Trimmed
<1>4. T \in [1..PopulationCap -> Individuals]
  BY <1>2, <1>3, EnteredIs
<1>5. T \in Seq(Individuals) /\ DOMAIN T = 1..PopulationCap /\ Len(T) = PopulationCap
  <2>1. T \in Seq(Individuals)
    BY <1>1, <1>4, SeqDef
  <2>2. DOMAIN T = 1..PopulationCap
    BY <1>4
  <2> QED BY <1>1, <2>1, <2>2, LenProperties
<1>6. ASSUME Unlike(P) PROVE Unlike(T)
  <2> SUFFICES ASSUME NEW i \in 1..PopulationCap, NEW j \in 1..PopulationCap, i # j
               PROVE ~Alike(T[i].source, T[j].source)
    BY <1>5 DEF Unlike
  <2>1. Ranked(P, i) # Ranked(P, j)
    <3>1. i - 1 # j - 1
      OBVIOUS
    <3> QED BY <1>2, <3>1
  <2>2. T[i] = P[Ranked(P, i)] /\ T[j] = P[Ranked(P, j)]
    BY <1>3
  <2> QED BY <1>2, <1>6, <2>1, <2>2 DEF Unlike
<1> QED BY <1>5, <1>6 DEF Entered

\* A novel entry is unlike the others.
LEMMA NovelKeeps ==
  ASSUME NEW P, Entered(P), Unlike(P), NEW e \in Individuals, \A i \in DOMAIN P : ~Alike(e.source, P[i].source)
  PROVE Entered(Append(P, e)) /\ Len(Append(P, e)) = Len(P) + 1 /\ Unlike(Append(P, e))
<1> DEFINE Q == Append(P, e)
<1>1. Len(P) \in Nat /\ DOMAIN P = 1..Len(P) /\ \A i \in DOMAIN P : P[i].source \in Int
  BY EnteredIs
<1>2. Entered(Q) /\ Len(Q) = Len(P) + 1 /\ Q[Len(P) + 1] = e
  BY AppendProperties DEF Entered
<1>3. \A i \in 1..Len(P) : Q[i] = P[i]
  BY AppendProperties DEF Entered
<1>4. DOMAIN Q = 1..(Len(P) + 1)
  BY <1>2, EnteredIs
<1> HIDE DEF Q
<1>5. ASSUME NEW i \in DOMAIN Q, NEW j \in DOMAIN Q, i # j PROVE ~Alike(Q[i].source, Q[j].source)
  <2>1. CASE i \in DOMAIN P /\ j \in DOMAIN P
    BY <1>1, <1>3, <1>5, <2>1 DEF Unlike
  <2>2. CASE i \notin DOMAIN P
    <3>1. i = Len(P) + 1 /\ j \in DOMAIN P
      BY <1>1, <1>4, <1>5, <2>2
    <3> QED BY <1>1, <1>2, <1>3, <3>1
  <2>3. CASE j \notin DOMAIN P
    <3>1. j = Len(P) + 1 /\ i \in DOMAIN P
      BY <1>1, <1>4, <1>5, <2>3
    <3>2. Q[j] = e /\ Q[i] = P[i] /\ ~Alike(e.source, P[i].source) /\ e.source \in Int /\ P[i].source \in Int
      BY <1>1, <1>2, <1>3, <3>1 DEF Individuals
    <3> QED BY <3>2 DEF Alike
  <2> QED BY <2>1, <2>2, <2>3
<1>6. Unlike(Q)
  BY <1>5 DEF Unlike
<1> QED BY <1>2, <1>6 DEF Q

Pcs == {"queued", "ready", "checking", "adding", "pruning", "replacing", "done"}
AheadPcs == {"checking", "adding", "pruning", "replacing"}
PruningPcs == {"pruning", "replacing"}
PrKinds == {"accepted", "rejected", "executor_only"}

WorkerShape(w) ==
  /\ w = [pc |-> w.pc, source |-> w.source, todo |-> w.todo, candidate |-> w.candidate, kept |-> w.kept,
          routed |-> w.routed, prs |-> w.prs]
  /\ w.pc \in Pcs /\ w.source \in Int /\ w.candidate \in Int /\ Entered(w.kept) /\ w.prs \in Seq(PrKinds)
PoolShape(p) ==
  /\ p = [population |-> p.population, generation |-> p.generation, rejected |-> p.rejected, model |-> p.model,
          planner |-> p.planner, executor |-> p.executor, feedback |-> p.feedback, overlapped |-> p.overlapped,
          multi |-> p.multi, width |-> p.width, harness |-> p.harness]
  /\ Entered(p.population) /\ p.rejected \in Nat /\ p.planner \in Nat /\ p.executor \in Nat
  /\ p.overlapped \in BOOLEAN /\ p.multi \in BOOLEAN /\ p.harness \in BOOLEAN
  /\ p.multi = TRUE => p.harness = FALSE

NovelIn(P, source) == \A i \in DOMAIN P : ~Alike(source, P[i].source)
At(X) == {f \in SkillFiles : worker[f].pc \in X}

WorkersTyped ==
  /\ PoolShape(pool) /\ IsFiniteSet(SkillFiles)
  /\ worker = [f \in SkillFiles |-> worker[f]] /\ \A f \in SkillFiles : WorkerShape(worker[f])
\* Without overlap one evolution runs, its candidate is novel, and its model is that of the engine.
Solitary ==
  pool.overlapped = FALSE => \A f, g \in SkillFiles : InFlight(f) /\ InFlight(g) => f = g
Apart ==
  pool.overlapped = FALSE =>
    /\ Unlike(pool.population)
    /\ \A f \in SkillFiles : /\ worker[f].pc = "adding" => NovelIn(pool.population, worker[f].candidate)
                             /\ worker[f].pc = "replacing" => Unlike(worker[f].kept)
Named ==
  pool.overlapped = FALSE =>
    /\ \A r \in pool.feedback : r.named = r.routed
    /\ \A f \in SkillFiles : worker[f].pc \in AheadPcs /\ pool.harness = TRUE => worker[f].routed = pool.model
Sized ==
  /\ \A f \in SkillFiles : worker[f].pc = "replacing" => Len(worker[f].kept) = PopulationCap
  /\ Len(pool.population) <= PopulationCap + Cardinality(At(PruningPcs))
Tallied ==
  /\ IsFiniteSet(Prs)
  /\ pool.planner + pool.executor = Started + (IF pool.multi = TRUE THEN Cardinality(At(AheadPcs)) ELSE 0)
  /\ pool.rejected = Rejections

SkillInv == WorkersTyped /\ Solitary /\ Apart /\ Named /\ Sized /\ Tallied

\* One file goes on, and without overlap the others do not run.
Move(f, w) ==
  /\ f \in SkillFiles /\ WorkerShape(w) /\ worker' = [worker EXCEPT ![f] = w]
  /\ PoolShape(pool)' /\ pool'.multi = pool.multi /\ pool'.harness = pool.harness
  /\ pool'.overlapped = FALSE => pool.overlapped = FALSE /\ \A g \in SkillFiles \ {f} : ~InFlight(g)
One(b) == IF b THEN 1 ELSE 0

LEMMA MovedIs ==
  ASSUME WorkersTyped, NEW f, NEW w, Move(f, w)
  PROVE /\ f \in SkillFiles /\ SkillFiles' = SkillFiles /\ worker'[f] = w
        /\ \A g \in SkillFiles \ {f} : worker'[g] = worker[g]
        /\ worker' = [g \in SkillFiles |-> worker'[g]]
BY DEF Move, WorkersTyped, SkillFiles

LEMMA TypedMoves == ASSUME WorkersTyped, NEW f, NEW w, Move(f, w) PROVE WorkersTyped'
<1>1. PoolShape(pool)' /\ IsFiniteSet(SkillFiles)'
  BY MovedIs DEF WorkersTyped, Move
<1>2. ASSUME NEW g \in SkillFiles PROVE WorkerShape(worker[g])'
  <2>1. CASE g = f
    <3>1. worker'[g] = w /\ WorkerShape(w)
      BY <2>1, MovedIs DEF Move
    <3> QED BY <3>1 DEF WorkerShape
  <2>2. CASE g # f
    <3>1. worker'[g] = worker[g] /\ WorkerShape(worker[g])
      BY <2>2, MovedIs DEF WorkersTyped
    <3> QED BY <3>1 DEF WorkerShape
  <2> QED BY <2>1, <2>2
<1> QED BY <1>1, <1>2, MovedIs DEF WorkersTyped

LEMMA SolitaryMoves == ASSUME WorkersTyped, NEW f, NEW w, Move(f, w) PROVE Solitary'
<1> SUFFICES ASSUME pool'.overlapped = FALSE, NEW g \in SkillFiles', NEW h \in SkillFiles', InFlight(g)', InFlight(h)'
             PROVE g = h
  BY DEF Solitary
<1>1. \A k \in SkillFiles \ {f} : ~InFlight(k)'
  BY MovedIs DEF Move, InFlight
<1> QED BY <1>1, MovedIs

LEMMA ApartMoves ==
  ASSUME WorkersTyped, NEW f, NEW w, Move(f, w),
         pool'.overlapped = FALSE =>
           /\ Unlike(pool'.population)
           /\ w.pc = "adding" => NovelIn(pool'.population, w.candidate)
           /\ w.pc = "replacing" => Unlike(w.kept)
  PROVE Apart'
<1> SUFFICES ASSUME pool'.overlapped = FALSE, NEW g \in SkillFiles
             PROVE /\ worker'[g].pc = "adding" => NovelIn(pool'.population, worker'[g].candidate)
                   /\ worker'[g].pc = "replacing" => Unlike(worker'[g].kept)
  BY MovedIs DEF Apart, NovelIn, Unlike
<1>1. CASE g = f
  BY <1>1, MovedIs
<1>2. CASE g # f
  <2>1. worker'[g] = worker[g] /\ ~InFlight(g)
    BY <1>2, MovedIs DEF Move
  <2>2. worker'[g].pc \in {"queued", "done"}
    BY <2>1 DEF InFlight
  <2> QED BY <2>2
<1> QED BY <1>1, <1>2

LEMMA NamedMoves ==
  ASSUME WorkersTyped, NEW f, NEW w, Move(f, w),
         pool'.overlapped = FALSE =>
           /\ \A r \in pool'.feedback : r.named = r.routed
           /\ w.pc \in AheadPcs /\ pool'.harness = TRUE => w.routed = pool'.model
  PROVE Named'
<1> SUFFICES ASSUME pool'.overlapped = FALSE, NEW g \in SkillFiles, worker'[g].pc \in AheadPcs, pool'.harness = TRUE
             PROVE worker'[g].routed = pool'.model
  BY MovedIs DEF Named
<1>1. CASE g = f
  BY <1>1, MovedIs
<1>2. CASE g # f
  <2>1. worker'[g] = worker[g] /\ ~InFlight(g)
    BY <1>2, MovedIs DEF Move
  <2>2. worker'[g].pc \in {"queued", "done"}
    BY <2>1 DEF InFlight
  <2> QED BY <2>2 DEF AheadPcs
<1> QED BY <1>1, <1>2

\* A file enters or leaves a part of the program.
LEMMA AtMoves ==
  ASSUME WorkersTyped, NEW f, NEW w, Move(f, w), NEW X
  PROVE /\ Cardinality(At(X)) \in Nat /\ Cardinality(At(X)') \in Nat
        /\ Cardinality(At(X)') + One(worker[f].pc \in X) = Cardinality(At(X)) + One(w.pc \in X)
<1> DEFINE O == {g \in SkillFiles \ {f} : worker[g].pc \in X}
<1>1. IsFiniteSet(O) /\ f \notin O
  <2>1. O \subseteq SkillFiles
    OBVIOUS
  <2> HIDE DEF O
  <2>2. IsFiniteSet(O)
    BY <2>1, FS_Subset DEF WorkersTyped
  <2> QED BY <2>2 DEF O
<1>2. At(X) = IF worker[f].pc \in X THEN O \cup {f} ELSE O
  BY MovedIs DEF At
<1>3. At(X)' = IF w.pc \in X THEN O \cup {f} ELSE O
  <2>1. ASSUME NEW g PROVE g \in At(X)' <=> g \in SkillFiles /\ worker'[g].pc \in X
    BY MovedIs DEF At
  <2>2. ASSUME NEW g PROVE g \in At(X)' <=> (g = f /\ w.pc \in X) \/ g \in O
    BY <2>1, MovedIs
  <2> QED BY <2>2
<1> HIDE DEF O
<1>4. Cardinality(O) \in Nat /\ Cardinality(O \cup {f}) = Cardinality(O) + 1
  BY <1>1, FS_AddElement, FS_CardinalityType
<1> QED BY <1>2, <1>3, <1>4 DEF One

LEMMA SizedMoves ==
  ASSUME WorkersTyped, Sized, NEW f, NEW w, Move(f, w),
         w.pc = "replacing" => Len(w.kept) = PopulationCap,
         \/ Len(pool'.population) <= PopulationCap
         \/ Len(pool'.population) + One(worker[f].pc \in PruningPcs) <= Len(pool.population) + One(w.pc \in PruningPcs)
  PROVE Sized'
<1>1. ASSUME NEW g \in SkillFiles, worker'[g].pc = "replacing" PROVE Len(worker'[g].kept) = PopulationCap
  BY <1>1, MovedIs DEF Sized
<1>2. Len(pool'.population) <= PopulationCap + Cardinality(At(PruningPcs)')
  <2>1. PICK n \in Nat, m \in Nat : n = Cardinality(At(PruningPcs)) /\ m = Cardinality(At(PruningPcs)')
    BY AtMoves
  <2>2. m + One(worker[f].pc \in PruningPcs) = n + One(w.pc \in PruningPcs)
    BY <2>1, AtMoves
  <2>3. PICK a \in {0, 1}, b \in {0, 1} : a = One(worker[f].pc \in PruningPcs) /\ b = One(w.pc \in PruningPcs)
    BY DEF One
  <2>4. PICK k \in Nat, l \in Nat, c \in Nat : k = Len(pool.population) /\ l = Len(pool'.population) /\ c = PopulationCap
    BY EnteredIs, SkillAssumption DEF WorkersTyped, PoolShape, Move
  <2>5. k <= c + n
    BY <2>1, <2>4 DEF Sized
  <2>6. l <= c \/ l + a <= k + b
    BY <2>3, <2>4
  <2>7. l <= c + m
    BY <2>2, <2>3, <2>5, <2>6
  <2> QED BY <2>1, <2>4, <2>7
<1> QED BY <1>1, <1>2, MovedIs DEF Sized

PrsOf(f) == {<<f, i>> : i \in DOMAIN worker[f].prs}
Rejected == {p \in Prs : worker[p[1]].prs[p[2]] = "rejected"}

LEMMA PrsAre ==
  /\ \A p : p \in Prs <=> \E f \in SkillFiles : \E i \in DOMAIN worker[f].prs : p = <<f, i>>
  /\ \A p : p \in Rejected <=>
       \E f \in SkillFiles : \E i \in DOMAIN worker[f].prs : p = <<f, i>> /\ worker[f].prs[i] = "rejected"
<1>1. ASSUME NEW p PROVE p \in Prs <=> \E f \in SkillFiles : \E i \in DOMAIN worker[f].prs : p = <<f, i>>
  BY DEF Prs
<1>2. ASSUME NEW p
      PROVE p \in Rejected <=>
              \E f \in SkillFiles : \E i \in DOMAIN worker[f].prs : p = <<f, i>> /\ worker[f].prs[i] = "rejected"
  BY <1>1 DEF Rejected
<1> QED BY <1>1, <1>2

LEMMA PrsStay ==
  ASSUME WorkersTyped, NEW f, NEW w, Move(f, w), w.prs = worker[f].prs
  PROVE Prs' = Prs /\ Rejected' = Rejected
<1>1. \A g \in SkillFiles : worker'[g].prs = worker[g].prs
  BY MovedIs
<1>2. SkillFiles' = SkillFiles
  BY MovedIs
<1>3. Prs' = Prs
  BY <1>1, <1>2 DEF Prs
<1>4. ASSUME NEW p \in Prs PROVE worker'[p[1]].prs[p[2]] = worker[p[1]].prs[p[2]]
  <2>1. p[1] \in SkillFiles
    BY PrsAre
  <2> QED BY <1>1, <2>1
<1> QED BY <1>3, <1>4 DEF Rejected

LEMMA PrsGrow ==
  ASSUME WorkersTyped, NEW f, NEW w, Move(f, w), NEW pr \in PrKinds, w.prs = Append(worker[f].prs, pr), IsFiniteSet(Prs)
  PROVE /\ IsFiniteSet(Prs)' /\ Cardinality(Prs) \in Nat /\ Cardinality(Rejected) \in Nat
        /\ Cardinality(Prs)' = Cardinality(Prs) + 1
        /\ Cardinality(Rejected)' = Cardinality(Rejected) + One(pr = "rejected")
<1>1. PICK s \in Seq(PrKinds) : s = worker[f].prs
  BY MovedIs DEF WorkersTyped, WorkerShape
<1>2. PICK n \in Nat : n = Len(s)
  OBVIOUS
<1>3. /\ DOMAIN s = 1..n /\ DOMAIN w.prs = 1..(n + 1) /\ w.prs[n + 1] = pr
      /\ \A i \in 1..n : w.prs[i] = s[i]
  BY <1>1, <1>2, AppendProperties
<1> DEFINE new == <<f, n + 1>>
<1>4. new \notin Prs
  <2> SUFFICES ASSUME new \in Prs PROVE FALSE
    OBVIOUS
  <2>1. PICK g \in SkillFiles : \E i \in DOMAIN worker[g].prs : new = <<g, i>>
    BY PrsAre
  <2>2. g = f /\ n + 1 \in 1..n
    BY <1>1, <1>3, <2>1
  <2> QED BY <2>2
<1>5. ASSUME NEW p PROVE p \in Prs' <=> p \in Prs \cup {new}
  <2>1. p \in Prs' <=> \E g \in SkillFiles : \E i \in DOMAIN worker'[g].prs : p = <<g, i>>
    <3>1. p \in Prs' <=> \E g \in SkillFiles' : \E i \in DOMAIN worker'[g].prs : p = <<g, i>>
      BY DEF Prs
    <3> QED BY <3>1, MovedIs
  <2>2. ASSUME p \in Prs' PROVE p \in Prs \cup {new}
    <3>0. PICK g \in SkillFiles : \E i \in DOMAIN worker'[g].prs : p = <<g, i>>
      BY <2>1, <2>2
    <3>1. PICK i \in DOMAIN worker'[g].prs : p = <<g, i>>
      BY <3>0
    <3>2. CASE g # f
      BY <3>1, <3>2, MovedIs, PrsAre
    <3>3. CASE g = f
      <4>1. i \in 1..(n + 1)
        BY <1>3, <3>1, <3>3, MovedIs
      <4>2. i \in 1..n \/ i = n + 1
        BY <4>1
      <4> QED BY <1>1, <1>3, <3>1, <3>3, <4>2, MovedIs, PrsAre
    <3> QED BY <3>2, <3>3
  <2>3. ASSUME p \in Prs PROVE p \in Prs'
    <3>0. PICK g \in SkillFiles : \E i \in DOMAIN worker[g].prs : p = <<g, i>>
      BY <2>3, PrsAre
    <3>1. PICK i \in DOMAIN worker[g].prs : p = <<g, i>>
      BY <3>0
    <3>2. CASE g # f
      BY <2>1, <3>1, <3>2, MovedIs
    <3>3. CASE g = f
      <4>1. i \in 1..n
        BY <1>1, <1>3, <3>1, <3>3
      <4>2. i \in DOMAIN worker'[g].prs
        BY <1>3, <3>3, <4>1, MovedIs
      <4> QED BY <2>1, <3>1, <4>2
    <3> QED BY <3>2, <3>3
  <2>4. new \in Prs'
    <3>1. n + 1 \in DOMAIN worker'[f].prs /\ f \in SkillFiles /\ SkillFiles' = SkillFiles
      BY <1>3, MovedIs
    <3> QED BY <3>1 DEF Prs
  <2> QED BY <2>2, <2>3, <2>4
<1>6. ASSUME NEW p \in Prs PROVE worker'[p[1]].prs[p[2]] = worker[p[1]].prs[p[2]]
  <2>0. PICK g \in SkillFiles : \E i \in DOMAIN worker[g].prs : p = <<g, i>>
    BY PrsAre
  <2>1. PICK i \in DOMAIN worker[g].prs : p = <<g, i>>
    BY <2>0
  <2>2. worker'[g].prs[i] = worker[g].prs[i]
    <3>1. CASE g # f
      BY <3>1, MovedIs
    <3>2. CASE g = f
      <4>1. i \in 1..n
        BY <1>1, <1>3, <2>1, <3>2
      <4>2. w.prs[i] = s[i]
        BY <1>3, <4>1
      <4> QED BY <1>1, <3>2, <4>2, MovedIs
    <3> QED BY <3>1, <3>2
  <2> QED BY <2>1, <2>2
<1>7. worker'[new[1]].prs[new[2]] = pr
  BY <1>3, MovedIs
<1> HIDE DEF new
<1>8. Prs' = Prs \cup {new}
  BY <1>5
<1>9. Rejected' = IF pr = "rejected" THEN Rejected \cup {new} ELSE Rejected
  BY <1>4, <1>6, <1>7, <1>8 DEF Rejected
<1>10. IsFiniteSet(Rejected) /\ new \notin Rejected
  <2>1. Rejected \subseteq Prs
    BY DEF Rejected
  <2> QED BY <1>4, <2>1, FS_Subset
<1>11. IsFiniteSet(Prs \cup {new}) /\ Cardinality(Prs \cup {new}) = Cardinality(Prs) + 1 /\ Cardinality(Prs) \in Nat
  BY <1>4, FS_AddElement, FS_CardinalityType
<1>12. Cardinality(Rejected \cup {new}) = Cardinality(Rejected) + 1 /\ Cardinality(Rejected) \in Nat
  BY <1>10, FS_AddElement, FS_CardinalityType
<1> QED BY <1>8, <1>9, <1>11, <1>12 DEF One

\* A step without a PR.
LEMMA TalliedGoes ==
  ASSUME WorkersTyped, Tallied, NEW f, NEW w, Move(f, w), w.prs = worker[f].prs, pool'.rejected = pool.rejected,
         pool'.planner + pool'.executor + One(pool.multi = TRUE /\ worker[f].pc \in AheadPcs)
           = pool.planner + pool.executor + One(pool.multi = TRUE /\ w.pc \in AheadPcs)
  PROVE Tallied'
<1>1. Prs' = Prs /\ Rejected' = Rejected
  BY PrsStay
<1>2. Rejections' = Rejections /\ Started' = Started
  BY <1>1 DEF Rejections, Started, Rejected
<1>3. PICK n \in Nat, m \in Nat : n = Cardinality(At(AheadPcs)) /\ m = Cardinality(At(AheadPcs)')
  BY AtMoves
<1>4. m + One(worker[f].pc \in AheadPcs) = n + One(w.pc \in AheadPcs)
  BY <1>3, AtMoves
<1>5. PICK a \in Nat, b \in Nat : a = pool.planner + pool.executor /\ b = pool'.planner + pool'.executor
  BY DEF WorkersTyped, Move, PoolShape
<1>6. Cardinality(Prs) \in Nat
  BY FS_CardinalityType DEF Tallied
<1>7. a = Cardinality(Prs) + (IF pool.multi = TRUE THEN n ELSE 0)
  BY <1>3, <1>5 DEF Tallied, Started
<1>8. b = Cardinality(Prs) + (IF pool.multi = TRUE THEN m ELSE 0)
  <2>1. CASE pool.multi = TRUE
    <3>1. b + One(worker[f].pc \in AheadPcs) = a + One(w.pc \in AheadPcs)
      BY <1>5, <2>1 DEF One
    <3>2. PICK x \in {0, 1}, y \in {0, 1} : x = One(worker[f].pc \in AheadPcs) /\ y = One(w.pc \in AheadPcs)
      BY DEF One
    <3> QED BY <1>4, <1>6, <1>7, <2>1, <3>1, <3>2
  <2>2. CASE pool.multi # TRUE
    <3>1. One(pool.multi = TRUE /\ worker[f].pc \in AheadPcs) = 0 /\ One(pool.multi = TRUE /\ w.pc \in AheadPcs) = 0
      BY <2>2 DEF One
    <3>2. b + 0 = a + 0
      BY <1>5, <3>1
    <3>3. b = a
      BY <3>2
    <3>4. a = Cardinality(Prs) + 0
      BY <1>7, <2>2
    <3>5. b = Cardinality(Prs) + 0
      BY <3>3, <3>4
    <3> QED BY <2>2, <3>5
  <2> QED BY <2>1, <2>2
<1>9. b = Started' + (IF pool'.multi = TRUE THEN m ELSE 0)
  BY <1>1, <1>8 DEF Move, Started
<1> QED BY <1>1, <1>2, <1>3, <1>5, <1>9 DEF Tallied

\* A step with a PR.
LEMMA TalliedEnds ==
  ASSUME WorkersTyped, Tallied, NEW f, NEW w, Move(f, w), NEW pr \in PrKinds, w.prs = Append(worker[f].prs, pr),
         w.pc \notin AheadPcs, pool'.rejected = pool.rejected + One(pr = "rejected"),
         pool'.planner + pool'.executor + One(pool.multi = TRUE /\ worker[f].pc \in AheadPcs)
           = pool.planner + pool.executor + 1
  PROVE Tallied'
<1>1. /\ IsFiniteSet(Prs)' /\ Cardinality(Prs) \in Nat /\ Cardinality(Rejected) \in Nat
      /\ Cardinality(Prs)' = Cardinality(Prs) + 1
      /\ Cardinality(Rejected)' = Cardinality(Rejected) + One(pr = "rejected")
  BY PrsGrow DEF Tallied
<1>2. Rejections = Cardinality(Rejected) /\ Started = Cardinality(Prs)
      /\ Rejections' = Cardinality(Rejected)' /\ Started' = Cardinality(Prs)'
  BY DEF Rejections, Started, Rejected
<1>3. PICK n \in Nat, m \in Nat : n = Cardinality(At(AheadPcs)) /\ m = Cardinality(At(AheadPcs)')
  BY AtMoves
<1>4. m + One(worker[f].pc \in AheadPcs) = n
  <2>1. m + One(worker[f].pc \in AheadPcs) = n + One(w.pc \in AheadPcs)
    BY <1>3, AtMoves
  <2> QED BY <2>1 DEF One
<1>5. PICK a \in Nat, b \in Nat : a = pool.planner + pool.executor /\ b = pool'.planner + pool'.executor
  BY DEF WorkersTyped, Move, PoolShape
<1>6. a = Cardinality(Prs) + (IF pool.multi = TRUE THEN n ELSE 0)
  BY <1>3, <1>5 DEF Tallied, Started
<1>7. b = Cardinality(Prs) + 1 + (IF pool.multi = TRUE THEN m ELSE 0)
  <2>1. CASE pool.multi = TRUE
    <3>1. b + One(worker[f].pc \in AheadPcs) = a + 1
      BY <1>5, <2>1 DEF One
    <3>2. PICK x \in {0, 1} : x = One(worker[f].pc \in AheadPcs)
      BY DEF One
    <3> QED BY <1>1, <1>4, <1>6, <2>1, <3>1, <3>2, SMTT(30)
  <2>2. CASE pool.multi # TRUE
    <3>1. One(pool.multi = TRUE /\ worker[f].pc \in AheadPcs) = 0
      BY <2>2 DEF One
    <3>2. b + 0 = a + 1
      BY <1>5, <3>1
    <3>3. a = Cardinality(Prs) + 0
      BY <1>6, <2>2
    <3>4. b = Cardinality(Prs) + 1 + 0
      BY <1>1, <3>2, <3>3
    <3> QED BY <2>2, <3>4
  <2> QED BY <2>1, <2>2
<1>8. b = Started' + (IF pool'.multi = TRUE THEN m ELSE 0)
  BY <1>1, <1>2, <1>7 DEF Move
<1>9. pool'.rejected = Rejections'
  BY <1>1, <1>2 DEF Tallied
<1> QED BY <1>1, <1>3, <1>5, <1>8, <1>9 DEF Tallied

\* What the counting of a pool leaves alone.
KeptPool(p, q) ==
  /\ PoolShape(q) /\ q.population = p.population /\ q.rejected = p.rejected /\ q.model = p.model
  /\ q.overlapped = p.overlapped /\ q.multi = p.multi /\ q.harness = p.harness

LEMMA CountedIs ==
  ASSUME NEW p, PoolShape(p)
  PROVE /\ KeptPool(p, PlannerCounted(p)) /\ PlannerCounted(p).planner = p.planner + 1
        /\ PlannerCounted(p).executor = p.executor /\ PlannerCounted(p).feedback = p.feedback
        /\ KeptPool(p, ExecutorCounted(p)) /\ ExecutorCounted(p).executor = p.executor + 1
        /\ ExecutorCounted(p).planner = p.planner /\ ExecutorCounted(p).feedback = p.feedback
<1>1. KeptPool(p, PlannerCounted(p)) /\ PlannerCounted(p).planner = p.planner + 1
      /\ PlannerCounted(p).executor = p.executor /\ PlannerCounted(p).feedback = p.feedback
  BY DEF PoolShape, KeptPool, PlannerCounted
<1>2. KeptPool(p, ExecutorCounted(p)) /\ ExecutorCounted(p).executor = p.executor + 1
      /\ ExecutorCounted(p).planner = p.planner /\ ExecutorCounted(p).feedback = p.feedback
  BY DEF PoolShape, KeptPool, ExecutorCounted
<1> QED BY <1>1, <1>2

LEMMA GeneratedIs ==
  ASSUME NEW p, PoolShape(p), NEW w
  PROVE /\ KeptPool(p, Generated(p, w)) /\ Generated(p, w).planner = p.planner
        /\ Generated(p, w).executor = p.executor /\ Generated(p, w).feedback = p.feedback
<1>1. CASE Generated(p, w) = p
  BY <1>1 DEF KeptPool
<1>2. CASE Generated(p, w) = [p EXCEPT !.generation = @ + 1]
  <2>1. PICK q : q = [p EXCEPT !.generation = @ + 1]
    OBVIOUS
  <2>2. KeptPool(p, q) /\ q.planner = p.planner /\ q.executor = p.executor /\ q.feedback = p.feedback
    BY <2>1 DEF PoolShape, KeptPool
  <2> QED BY <1>2, <2>1, <2>2
<1> QED BY <1>1, <1>2 DEF Generated

LEMMA AcceptedReports ==
  ASSUME NEW p, PoolShape(p), NEW f
  PROVE /\ KeptPool(p, Accepted(p, f))
        /\ Accepted(p, f).planner + Accepted(p, f).executor + One(p.multi = TRUE) = p.planner + p.executor + 1
        /\ \A r \in Accepted(p, f).feedback :
             r \in p.feedback \/ (p.harness = TRUE /\ r.named = p.model /\ r.routed = worker[f].routed)
<1>1. PICK c : /\ c = (IF p.multi THEN p ELSE PlannerCounted(p)) /\ KeptPool(p, c) /\ c.feedback = p.feedback
               /\ c.planner + c.executor + One(p.multi = TRUE) = p.planner + p.executor + 1
  <2>1. CASE p.multi = TRUE
    <3>1. KeptPool(p, p) /\ One(p.multi = TRUE) = 1
      BY <2>1 DEF KeptPool, One
    <3> QED BY <2>1, <3>1
  <2>2. CASE p.multi = FALSE
    <3>1. One(p.multi = TRUE) = 0 /\ p.planner \in Nat /\ p.executor \in Nat
      BY <2>2 DEF One, PoolShape
    <3>2. /\ PlannerCounted(p).planner = p.planner + 1 /\ PlannerCounted(p).executor = p.executor
          /\ KeptPool(p, PlannerCounted(p)) /\ PlannerCounted(p).feedback = p.feedback
      BY CountedIs
    <3>3. PlannerCounted(p).planner + PlannerCounted(p).executor + One(p.multi = TRUE) = p.planner + p.executor + 1
      BY <3>1, <3>2
    <3> QED BY <2>2, <3>2, <3>3
  <2> QED BY <2>1, <2>2 DEF PoolShape
<1>2. CASE p.harness = TRUE /\ p.multi = FALSE
  <2> DEFINE e == [file |-> f, named |-> p.model, routed |-> worker[f].routed]
  <2>1. PICK q : q = [c EXCEPT !.feedback = @ \cup {e}]
    OBVIOUS
  <2>2. KeptPool(p, q) /\ q.planner = c.planner /\ q.executor = c.executor /\ q.feedback = c.feedback \cup {e}
    <3> HIDE DEF e
    <3> QED BY <1>1, <2>1 DEF KeptPool, PoolShape
  <2>3. Accepted(p, f) = q
    BY <1>1, <1>2, <2>1 DEF Accepted
  <2>4. \A r \in q.feedback : r \in p.feedback \/ (p.harness = TRUE /\ r.named = p.model /\ r.routed = worker[f].routed)
    BY <1>1, <1>2, <2>2
  <2> HIDE DEF e
  <2> QED BY <1>1, <2>2, <2>3, <2>4
<1>3. CASE ~(p.harness = TRUE /\ p.multi = FALSE)
  <2>1. Accepted(p, f) = c
    BY <1>1, <1>3 DEF Accepted, PoolShape
  <2> QED BY <1>1, <2>1
<1> QED BY <1>2, <1>3

LEMMA HandedIs ==
  ASSUME NEW w, WorkerShape(w), NEW pr \in PrKinds
  PROVE /\ WorkerShape(Handed(w, pr)) /\ Handed(w, pr).prs = Append(w.prs, pr)
        /\ Handed(w, pr).pc \in {"ready", "done"}
<1>1. PICK c \in {"ready", "done"} : c = (IF Len(w.todo) = 1 THEN "done" ELSE "ready")
  OBVIOUS
<1> DEFINE t == Tail(w.todo)
<1>2. PICK s \in Seq(PrKinds) : s = Append(w.prs, pr)
  BY AppendProperties DEF WorkerShape
<1>3. Handed(w, pr) = [w EXCEPT !.prs = s, !.todo = t, !.candidate = NoSource, !.kept = <<>>, !.pc = c]
  BY <1>1, <1>2 DEF Handed
<1>4. Entered(<<>>) /\ NoSource \in Int /\ c \in Pcs
  BY <1>1 DEF Entered, NoSource, Pcs
<1> HIDE DEF t
<1>5. PICK h : h = [w EXCEPT !.prs = s, !.todo = t, !.candidate = NoSource, !.kept = <<>>, !.pc = c]
  OBVIOUS
<1>6. WorkerShape(h) /\ h.prs = s /\ h.pc = c
  BY <1>2, <1>4, <1>5 DEF WorkerShape
<1> QED BY <1>1, <1>2, <1>3, <1>5, <1>6

\* Without overlap a file that runs runs alone.
LEMMA RunsOn ==
  ASSUME WorkersTyped, Solitary, NEW f \in SkillFiles, InFlight(f), NEW w, WorkerShape(w),
         worker' = [worker EXCEPT ![f] = w], PoolShape(pool'), pool'.multi = pool.multi,
         pool'.harness = pool.harness, pool'.overlapped = pool.overlapped
  PROVE Move(f, w)
<1>1. ASSUME pool'.overlapped = FALSE PROVE \A g \in SkillFiles \ {f} : ~InFlight(g)
  BY <1>1 DEF Solitary
<1>2. PoolShape(pool)'
  BY DEF PoolShape
<1> QED BY <1>1, <1>2 DEF Move

LEMMA Ends ==
  ASSUME SkillInv, NEW f \in SkillFiles, InFlight(f), NEW pr \in PrKinds,
         worker' = [worker EXCEPT ![f] = Handed(@, pr)],
         PoolShape(pool'), pool'.multi = pool.multi, pool'.harness = pool.harness,
         pool'.overlapped = pool.overlapped,
         \A r \in pool'.feedback : \/ r \in pool.feedback
                                   \/ /\ worker[f].pc \in AheadPcs /\ pool.harness = TRUE
                                      /\ r.named = pool.model /\ r.routed = worker[f].routed,
         pool'.overlapped = FALSE => Unlike(pool'.population),
         \/ Len(pool'.population) <= PopulationCap
         \/ Len(pool'.population) = Len(pool.population) /\ worker[f].pc \notin PruningPcs,
         pool'.rejected = pool.rejected + One(pr = "rejected"),
         pool'.planner + pool'.executor + One(pool.multi = TRUE /\ worker[f].pc \in AheadPcs)
           = pool.planner + pool.executor + 1
  PROVE SkillInv'
<1>0. WorkersTyped /\ Solitary /\ Apart /\ Named /\ Sized /\ Tallied /\ WorkerShape(worker[f])
  BY DEF SkillInv, WorkersTyped
<1>1. PICK w : /\ w = Handed(worker[f], pr) /\ WorkerShape(w) /\ w.prs = Append(worker[f].prs, pr)
               /\ w.pc \in {"ready", "done"}
  BY <1>0, HandedIs
<1>2. Move(f, w)
  <2>1. worker' = [worker EXCEPT ![f] = w]
    BY <1>1
  <2> QED BY <1>0, <1>1, <2>1, RunsOn
<1>3. w.pc \notin AheadPcs /\ w.pc \notin PruningPcs /\ w.pc # "adding" /\ w.pc # "replacing"
  BY <1>1 DEF AheadPcs, PruningPcs
<1>4. WorkersTyped' /\ Solitary'
  BY <1>0, <1>2, TypedMoves, SolitaryMoves
<1>5. Apart'
  BY <1>0, <1>2, <1>3, ApartMoves
<1>6. Named'
  <2>1. ASSUME pool'.overlapped = FALSE, NEW r \in pool'.feedback PROVE r.named = r.routed
    BY <1>0, <2>1 DEF Named
  <2> QED BY <1>0, <1>2, <1>3, <2>1, NamedMoves
<1>7. Sized'
  <2>1. CASE Len(pool'.population) <= PopulationCap
    BY <1>0, <1>2, <1>3, <2>1, SizedMoves
  <2>2. CASE Len(pool'.population) = Len(pool.population) /\ worker[f].pc \notin PruningPcs
    <3>1. One(worker[f].pc \in PruningPcs) = 0 /\ One(w.pc \in PruningPcs) = 0
      BY <1>3, <2>2 DEF One
    <3>2. Len(pool.population) \in Nat
      BY <1>0, EnteredIs DEF WorkersTyped, PoolShape
    <3>3. Len(pool'.population) + One(worker[f].pc \in PruningPcs) <= Len(pool.population) + One(w.pc \in PruningPcs)
      BY <2>2, <3>1, <3>2
    <3> QED BY <1>0, <1>2, <1>3, <3>3, SizedMoves
  <2> QED BY <2>1, <2>2
<1>8. Tallied'
  BY <1>0, <1>1, <1>2, <1>3, TalliedEnds
<1> QED BY <1>4, <1>5, <1>6, <1>7, <1>8 DEF SkillInv

\* A running file goes on without a PR, and neither the population nor the rejections change.
LEMMA Goes ==
  ASSUME SkillInv, NEW f \in SkillFiles, InFlight(f), NEW w, WorkerShape(w), w.prs = worker[f].prs,
         worker' = [worker EXCEPT ![f] = w],
         PoolShape(pool'), pool'.multi = pool.multi, pool'.harness = pool.harness,
         pool'.overlapped = pool.overlapped, pool'.population = pool.population,
         pool'.rejected = pool.rejected, pool'.feedback = pool.feedback,
         pool'.overlapped = FALSE =>
           /\ w.pc = "adding" => NovelIn(pool.population, w.candidate)
           /\ w.pc = "replacing" => Unlike(w.kept)
           /\ w.pc \in AheadPcs /\ pool.harness = TRUE => w.routed = pool'.model,
         w.pc = "replacing" => Len(w.kept) = PopulationCap,
         worker[f].pc \in PruningPcs <=> w.pc \in PruningPcs,
         pool'.planner + pool'.executor + One(pool.multi = TRUE /\ worker[f].pc \in AheadPcs)
           = pool.planner + pool.executor + One(pool.multi = TRUE /\ w.pc \in AheadPcs)
  PROVE SkillInv'
<1>0. WorkersTyped /\ Solitary /\ Apart /\ Named /\ Sized /\ Tallied
  BY DEF SkillInv
<1>1. Move(f, w)
  BY <1>0, RunsOn
<1>2. WorkersTyped' /\ Solitary'
  BY <1>0, <1>1, TypedMoves, SolitaryMoves
<1>3. Apart'
  <2>1. ASSUME pool'.overlapped = FALSE PROVE Unlike(pool'.population)
    BY <1>0, <2>1 DEF Apart
  <2> QED BY <1>0, <1>1, <2>1, ApartMoves
<1>4. Named'
  <2>1. ASSUME pool'.overlapped = FALSE, NEW r \in pool'.feedback PROVE r.named = r.routed
    BY <1>0, <2>1 DEF Named
  <2> QED BY <1>0, <1>1, <2>1, NamedMoves
<1>5. Sized'
  <2>1. Len(pool.population) \in Nat
    BY <1>0, EnteredIs DEF WorkersTyped, PoolShape
  <2>2. PICK b \in {0, 1} : b = One(worker[f].pc \in PruningPcs) /\ b = One(w.pc \in PruningPcs)
    BY DEF One
  <2>3. Len(pool'.population) + One(worker[f].pc \in PruningPcs) <= Len(pool.population) + One(w.pc \in PruningPcs)
    BY <2>1, <2>2
  <2> QED BY <1>0, <1>1, <2>3, SizedMoves
<1>6. Tallied'
  BY <1>0, <1>1, TalliedGoes
<1> QED BY <1>2, <1>3, <1>4, <1>5, <1>6 DEF SkillInv

LEMMA SkillStart == ASSUME SkillInit PROVE SkillInv
<1>1. PICK sources \in SkillSources : \E width \in {1, SkillConcurrency}, multi, harnessed \in BOOLEAN :
        /\ multi => ~harnessed
        /\ pool = Pool(multi, width, harnessed)
        /\ worker = [f \in DOMAIN sources |-> Unevolved(sources[f], IF multi THEN Strategies ELSE <<AutoStrategy>>)]
  BY DEF SkillInit
<1>2. PICK width \in {1, SkillConcurrency}, multi \in BOOLEAN, harnessed \in BOOLEAN :
        /\ multi => ~harnessed
        /\ pool = Pool(multi, width, harnessed)
        /\ worker = [f \in DOMAIN sources |-> Unevolved(sources[f], IF multi THEN Strategies ELSE <<AutoStrategy>>)]
  BY <1>1
<1>3. PICK todo : worker = [f \in DOMAIN sources |-> Unevolved(sources[f], todo)]
  BY <1>2
<1>4. SkillFiles = DOMAIN sources /\ IsFiniteSet(SkillFiles) /\ \A f \in SkillFiles : sources[f] \in Int
  BY <1>3, SkillAssumption DEF SkillFiles
<1>5. \A f \in SkillFiles : worker[f] = Unevolved(sources[f], todo)
  BY <1>3, <1>4
<1>6. Entered(<<>>) /\ Len(<<>>) = 0 /\ <<>> \in Seq(PrKinds) /\ DOMAIN <<>> = {}
  BY DEF Entered
<1>7. PoolShape(pool) /\ pool.population = <<>> /\ pool.planner = 0 /\ pool.executor = 0 /\ pool.rejected = 0
      /\ pool.feedback = {}
  <2>1. multi = TRUE => harnessed = FALSE
    BY <1>2
  <2> QED BY <1>2, <1>6, <2>1 DEF Pool, PoolShape
<1>8. ASSUME NEW f \in SkillFiles
      PROVE WorkerShape(worker[f]) /\ worker[f].pc = "queued" /\ worker[f].prs = <<>>
  <2>1. PICK x \in Int : x = sources[f]
    BY <1>4
  <2>2. worker[f] = Unevolved(x, todo)
    BY <1>5, <2>1
  <2> QED BY <1>6, <2>2 DEF Unevolved, WorkerShape, Pcs, NoSource
<1>9. WorkersTyped
  <2>1. worker = [f \in SkillFiles |-> worker[f]]
    BY <1>3, <1>4
  <2> QED BY <1>4, <1>7, <1>8, <2>1 DEF WorkersTyped
<1>10. Solitary
  BY <1>8 DEF Solitary, InFlight
<1>11. Apart
  BY <1>6, <1>7, <1>8 DEF Apart, Unlike
<1>12. Named
  BY <1>7, <1>8 DEF Named, AheadPcs
<1>13. At(PruningPcs) = {} /\ At(AheadPcs) = {}
  BY <1>8 DEF At, PruningPcs, AheadPcs
<1>14. Sized
  <2>1. Cardinality(At(PruningPcs)) = 0
    BY <1>13, FS_EmptySet
  <2> QED BY <1>6, <1>7, <1>8, <2>1, SkillAssumption DEF Sized
<1>15. Tallied
  <2>1. Prs = {}
    BY <1>6, <1>8, PrsAre
  <2>2. {p \in Prs : worker[p[1]].prs[p[2]] = "rejected"} = {}
    BY <2>1
  <2>3. IsFiniteSet(Prs) /\ Started = 0 /\ Rejections = 0 /\ Cardinality(At(AheadPcs)) = 0
    BY <1>13, <2>1, <2>2, FS_EmptySet DEF Started, Rejections
  <2> QED BY <1>7, <2>3 DEF Tallied
<1> QED BY <1>9, <1>10, <1>11, <1>12, <1>14, <1>15 DEF SkillInv

LEMMA StartKeeps == ASSUME SkillInv, NEW f \in SkillFiles, EvolutionStarts(f) PROVE SkillInv'
<1>0. WorkersTyped /\ Solitary /\ Apart /\ Named /\ Sized /\ Tallied /\ WorkerShape(worker[f]) /\ PoolShape(pool)
  BY DEF SkillInv, WorkersTyped
<1>1. PICK w : /\ w = [worker[f] EXCEPT !.pc = "ready"] /\ worker' = [worker EXCEPT ![f] = w]
               /\ WorkerShape(w) /\ w.pc = "ready" /\ w.prs = worker[f].prs
  <2>1. PICK w : w = [worker[f] EXCEPT !.pc = "ready"]
    OBVIOUS
  <2>2. worker' = [worker EXCEPT ![f] = w]
    BY <2>1 DEF EvolutionStarts
  <2>3. "ready" \in Pcs
    BY DEF Pcs
  <2>4. worker[f].candidate \in Int /\ Entered(worker[f].kept)
    BY <1>0 DEF WorkerShape
  <2>5. WorkerShape(w) /\ w.pc = "ready" /\ w.prs = worker[f].prs
    BY <1>0, <2>1, <2>3, <2>4 DEF WorkerShape
  <2> QED BY <2>1, <2>2, <2>5
<1>2. PICK o \in BOOLEAN : o = pool.overlapped
  BY <1>0 DEF PoolShape
<1>3. PICK b \in BOOLEAN : (b = FALSE => o = FALSE /\ RunningFiles = {}) /\ pool' = [pool EXCEPT !.overlapped = b]
  <2>1. PICK b \in BOOLEAN : b = (o \/ RunningFiles # {})
    OBVIOUS
  <2>2. pool' = [pool EXCEPT !.overlapped = b]
    BY <1>2, <2>1 DEF EvolutionStarts
  <2> QED BY <2>1, <2>2
<1>4. /\ PoolShape(pool') /\ pool'.multi = pool.multi /\ pool'.harness = pool.harness /\ pool'.overlapped = b
      /\ pool'.population = pool.population /\ pool'.planner = pool.planner /\ pool'.executor = pool.executor
      /\ pool'.rejected = pool.rejected /\ pool'.feedback = pool.feedback
  BY <1>0, <1>3 DEF PoolShape
<1>5. Move(f, w)
  <2>1. ASSUME pool'.overlapped = FALSE
        PROVE pool.overlapped = FALSE /\ \A g \in SkillFiles \ {f} : ~InFlight(g)
    BY <1>2, <1>3, <1>4, <2>1 DEF RunningFiles
  <2>2. PoolShape(pool)'
    BY <1>4 DEF PoolShape
  <2> QED BY <1>1, <1>4, <2>1, <2>2 DEF Move
<1>6. worker[f].pc = "queued"
  BY DEF EvolutionStarts
<1>7. /\ worker[f].pc \notin AheadPcs /\ worker[f].pc \notin PruningPcs
      /\ w.pc \notin AheadPcs /\ w.pc \notin PruningPcs /\ w.pc # "adding" /\ w.pc # "replacing"
  BY <1>1, <1>6 DEF AheadPcs, PruningPcs
<1>8. WorkersTyped' /\ Solitary'
  BY <1>0, <1>5, TypedMoves, SolitaryMoves
<1>9. ASSUME pool'.overlapped = FALSE PROVE pool.overlapped = FALSE
  BY <1>2, <1>3, <1>4, <1>9
<1>10. Apart'
  <2>1. ASSUME pool'.overlapped = FALSE PROVE Unlike(pool'.population)
    BY <1>0, <1>4, <1>9, <2>1 DEF Apart
  <2> QED BY <1>0, <1>5, <1>7, <2>1, ApartMoves
<1>11. Named'
  <2>1. ASSUME pool'.overlapped = FALSE, NEW r \in pool'.feedback PROVE r.named = r.routed
    BY <1>0, <1>4, <1>9, <2>1 DEF Named
  <2> QED BY <1>0, <1>5, <1>7, <2>1, NamedMoves
<1>12. Sized'
  <2>1. Len(pool.population) \in Nat
    BY <1>0, EnteredIs DEF PoolShape
  <2>2. One(worker[f].pc \in PruningPcs) = 0 /\ One(w.pc \in PruningPcs) = 0
    BY <1>7 DEF One
  <2>3. Len(pool'.population) + One(worker[f].pc \in PruningPcs) <= Len(pool.population) + One(w.pc \in PruningPcs)
    BY <1>4, <2>1, <2>2
  <2> QED BY <1>0, <1>5, <1>7, <2>3, SizedMoves
<1>13. Tallied'
  <2>1. One(pool.multi = TRUE /\ worker[f].pc \in AheadPcs) = 0 /\ One(pool.multi = TRUE /\ w.pc \in AheadPcs) = 0
    BY <1>7 DEF One
  <2>2. pool'.planner + pool'.executor + One(pool.multi = TRUE /\ worker[f].pc \in AheadPcs)
           = pool.planner + pool.executor + One(pool.multi = TRUE /\ w.pc \in AheadPcs)
    BY <1>4, <2>1
  <2> QED BY <1>0, <1>1, <1>4, <1>5, <2>2, TalliedGoes
<1> QED BY <1>8, <1>10, <1>11, <1>12, <1>13 DEF SkillInv

LEMMA OverBudgetKeeps == ASSUME SkillInv, NEW f \in SkillFiles, OverBudget(f) PROVE SkillInv'
<1>0. WorkersTyped /\ Apart /\ WorkerShape(worker[f]) /\ PoolShape(pool) /\ worker[f].pc = "ready"
  BY DEF SkillInv, WorkersTyped, OverBudget
<1>1. InFlight(f) /\ worker[f].pc \notin AheadPcs /\ worker[f].pc \notin PruningPcs
  BY <1>0 DEF InFlight, AheadPcs, PruningPcs
<1>2. /\ KeptPool(pool, pool') /\ pool'.executor = pool.executor + 1 /\ pool'.planner = pool.planner
      /\ pool'.feedback = pool.feedback
  BY <1>0, CountedIs DEF OverBudget
<1>3. /\ PoolShape(pool') /\ pool'.population = pool.population /\ pool'.rejected = pool.rejected
      /\ pool'.model = pool.model /\ pool'.overlapped = pool.overlapped /\ pool'.multi = pool.multi
      /\ pool'.harness = pool.harness
  BY <1>2 DEF KeptPool
<1>4. PICK m \in Nat, n \in Nat : m = pool.planner /\ n = pool.executor
  BY <1>0 DEF PoolShape
<1>5. CASE pool.multi = TRUE
  <2>1. PICK w : w = [worker[f] EXCEPT !.candidate = worker[f].source, !.pc = "checking"]
    OBVIOUS
  <2>2. worker' = [worker EXCEPT ![f] = w]
    BY <1>5, <2>1 DEF OverBudget
  <2>3. "checking" \in Pcs /\ worker[f].source \in Int /\ Entered(worker[f].kept)
    BY <1>0 DEF Pcs, WorkerShape
  <2>4. WorkerShape(w) /\ w.pc = "checking" /\ w.prs = worker[f].prs
    BY <1>0, <2>1, <2>3 DEF WorkerShape
  <2>5. w.pc \in AheadPcs /\ w.pc \notin PruningPcs /\ w.pc # "adding" /\ w.pc # "replacing" /\ pool.harness # TRUE
    BY <1>0, <1>5, <2>4 DEF AheadPcs, PruningPcs, PoolShape
  <2>6. One(pool.multi = TRUE /\ worker[f].pc \in AheadPcs) = 0 /\ One(pool.multi = TRUE /\ w.pc \in AheadPcs) = 1
    BY <1>1, <1>5, <2>5 DEF One
  <2>7. pool'.planner + pool'.executor + One(pool.multi = TRUE /\ worker[f].pc \in AheadPcs)
           = pool.planner + pool.executor + One(pool.multi = TRUE /\ w.pc \in AheadPcs)
    BY <1>2, <1>4, <2>6
  <2> QED BY <1>1, <1>2, <1>3, <2>2, <2>4, <2>5, <2>7, Goes
<1>6. CASE pool.multi = FALSE
  <2>1. worker' = [worker EXCEPT ![f] = Handed(@, "executor_only")]
    BY <1>6 DEF OverBudget
  <2>2. "executor_only" \in PrKinds /\ One("executor_only" = "rejected") = 0
    BY DEF PrKinds, One
  <2>3. One(pool.multi = TRUE /\ worker[f].pc \in AheadPcs) = 0
    BY <1>1 DEF One
  <2>4. pool'.planner + pool'.executor + One(pool.multi = TRUE /\ worker[f].pc \in AheadPcs)
           = pool.planner + pool.executor + 1
    BY <1>2, <1>4, <2>3
  <2>5. pool'.rejected = pool.rejected + One("executor_only" = "rejected")
    BY <1>0, <1>3, <2>2 DEF PoolShape
  <2>6. pool'.overlapped = FALSE => Unlike(pool'.population)
    BY <1>0, <1>3 DEF Apart
  <2> QED BY <1>1, <1>2, <1>3, <2>1, <2>2, <2>4, <2>5, <2>6, Ends
<1> QED BY <1>0, <1>5, <1>6 DEF PoolShape

LEMMA EvolvesKeeps == ASSUME SkillInv, NEW f \in SkillFiles, Evolves(f) PROVE SkillInv'
<1>0. WorkersTyped /\ WorkerShape(worker[f]) /\ PoolShape(pool) /\ worker[f].pc = "ready"
  BY DEF SkillInv, WorkersTyped, Evolves
<1>1. InFlight(f) /\ worker[f].pc \notin AheadPcs /\ worker[f].pc \notin PruningPcs
  BY <1>0 DEF InFlight, AheadPcs, PruningPcs
<1>2. PICK x \in Int : x = Evolved(worker[f].source, Head(worker[f].todo))
  BY <1>0 DEF Evolved, Canned, WorkerShape
<1>3. PICK m \in Nat, n \in Nat : m = pool.planner /\ n = pool.executor
  BY <1>0 DEF PoolShape
<1> DEFINE W(r) == [worker[f] EXCEPT !.candidate = x, !.pc = "checking", !.routed = r]
<1>4. ASSUME NEW r
      PROVE /\ WorkerShape(W(r)) /\ W(r).pc = "checking" /\ W(r).routed = r /\ W(r).prs = worker[f].prs
            /\ W(r).pc \in AheadPcs /\ W(r).pc \notin PruningPcs /\ W(r).pc # "adding" /\ W(r).pc # "replacing"
  <2>1. PICK w : w = W(r)
    OBVIOUS
  <2>2. "checking" \in Pcs /\ Entered(worker[f].kept)
    BY <1>0 DEF Pcs, WorkerShape
  <2>3. w.pc = "checking" /\ WorkerShape(w) /\ w.routed = r /\ w.prs = worker[f].prs
    BY <1>0, <2>1, <2>2 DEF WorkerShape
  <2> HIDE DEF W
  <2> QED BY <2>1, <2>3 DEF AheadPcs, PruningPcs
<1>5. \/ /\ pool.multi = TRUE /\ pool' = PlannerCounted(pool)
         /\ worker' = [worker EXCEPT ![f] = W("none")]
      \/ /\ pool.multi = FALSE
         /\ \E model \in SkillModels : /\ pool' = [pool EXCEPT !.model = model]
                                       /\ worker' = [worker EXCEPT ![f] = W(model)]
      \/ pool.multi = FALSE /\ worker' = [worker EXCEPT ![f] = W(pool.model)] /\ pool' = pool
  <2>1. \/ pool.multi /\ pool' = PlannerCounted(pool) /\ worker' = [worker EXCEPT ![f] = W("none")]
        \/ /\ ~pool.multi
           /\ \E model \in SkillModels : /\ pool' = [pool EXCEPT !.model = model]
                                         /\ worker' = [worker EXCEPT ![f] = W(model)]
        \/ ~pool.multi /\ worker' = [worker EXCEPT ![f] = W(pool.model)] /\ pool' = pool
    <3> DEFINE N(r) == [worker EXCEPT ![f].candidate = x, ![f].pc = "checking", ![f].routed = r]
    <3>1. ASSUME NEW r PROVE N(r) = [worker EXCEPT ![f] = W(r)]
      BY <1>0 DEF WorkersTyped
    <3>2. \/ pool.multi /\ pool' = PlannerCounted(pool) /\ worker' = N("none")
          \/ /\ ~pool.multi
             /\ \E model \in SkillModels : pool' = [pool EXCEPT !.model = model] /\ worker' = N(model)
          \/ ~pool.multi /\ worker' = N(pool.model) /\ pool' = pool
      BY <1>2 DEF Evolves
    <3> HIDE DEF N, W
    <3> QED BY <3>1, <3>2
  <2>2. (pool.multi <=> pool.multi = TRUE) /\ (~pool.multi <=> pool.multi = FALSE)
    BY <1>0 DEF PoolShape
  <2> HIDE DEF W
  <2> QED BY <2>1, <2>2
<1> HIDE DEF W
<1>6. CASE pool.multi = TRUE /\ pool' = PlannerCounted(pool) /\ worker' = [worker EXCEPT ![f] = W("none")]
  <2>1. PICK w : w = W("none")
    OBVIOUS
  <2>2. KeptPool(pool, pool') /\ pool'.planner = m + 1 /\ pool'.executor = n /\ pool'.feedback = pool.feedback
    BY <1>0, <1>3, <1>6, CountedIs
  <2>3. One(pool.multi = TRUE /\ worker[f].pc \in AheadPcs) = 0 /\ One(pool.multi = TRUE /\ w.pc \in AheadPcs) = 1
    BY <1>1, <1>4, <1>6, <2>1 DEF One
  <2>4. pool'.planner + pool'.executor + One(pool.multi = TRUE /\ worker[f].pc \in AheadPcs)
           = pool.planner + pool.executor + One(pool.multi = TRUE /\ w.pc \in AheadPcs)
    BY <1>3, <2>2, <2>3
  <2>5. pool.harness # TRUE
    BY <1>0, <1>6 DEF PoolShape
  <2>6. /\ WorkerShape(w) /\ w.prs = worker[f].prs /\ worker' = [worker EXCEPT ![f] = w]
        /\ w.pc \notin PruningPcs /\ w.pc # "adding" /\ w.pc # "replacing"
    BY <1>4, <1>6, <2>1
  <2>7. /\ PoolShape(pool') /\ pool'.population = pool.population /\ pool'.rejected = pool.rejected
        /\ pool'.overlapped = pool.overlapped /\ pool'.multi = pool.multi /\ pool'.harness = pool.harness
    BY <2>2 DEF KeptPool
  <2> QED BY <1>1, <2>2, <2>4, <2>5, <2>6, <2>7, Goes
<1>7. ASSUME pool.multi = FALSE, NEW r, pool' = [pool EXCEPT !.model = r], worker' = [worker EXCEPT ![f] = W(r)]
      PROVE SkillInv'
  <2>1. PICK w : w = W(r)
    OBVIOUS
  <2>2. /\ PoolShape(pool') /\ pool'.population = pool.population /\ pool'.rejected = pool.rejected
        /\ pool'.overlapped = pool.overlapped /\ pool'.multi = pool.multi /\ pool'.harness = pool.harness
        /\ pool'.planner = m /\ pool'.executor = n /\ pool'.feedback = pool.feedback /\ pool'.model = r
    BY <1>0, <1>3, <1>7 DEF PoolShape
  <2>3. One(pool.multi = TRUE /\ worker[f].pc \in AheadPcs) = 0 /\ One(pool.multi = TRUE /\ w.pc \in AheadPcs) = 0
    BY <1>7 DEF One
  <2>4. pool'.planner + pool'.executor + One(pool.multi = TRUE /\ worker[f].pc \in AheadPcs)
           = pool.planner + pool.executor + One(pool.multi = TRUE /\ w.pc \in AheadPcs)
    BY <1>3, <2>2, <2>3
  <2>5. /\ WorkerShape(w) /\ w.prs = worker[f].prs /\ worker' = [worker EXCEPT ![f] = w] /\ w.routed = r
        /\ w.pc \notin PruningPcs /\ w.pc # "adding" /\ w.pc # "replacing"
    BY <1>4, <1>7, <2>1
  <2> QED BY <1>1, <2>2, <2>4, <2>5, Goes
<1>8. CASE pool.multi = FALSE /\ worker' = [worker EXCEPT ![f] = W(pool.model)] /\ pool' = pool
  <2>1. pool' = [pool EXCEPT !.model = pool.model]
    BY <1>0, <1>8 DEF PoolShape
  <2> QED BY <1>7, <1>8, <2>1
<1> QED BY <1>5, <1>6, <1>7, <1>8

\* The PR of an accepted evolution, after the population was replaced by P.
LEMMA AcceptsKeeps ==
  ASSUME SkillInv, NEW f \in SkillFiles, worker[f].pc \in AheadPcs, NEW p, Accepts(f, p),
         KeptPool([p EXCEPT !.population = pool.population], pool), PoolShape(p), p.feedback = pool.feedback,
         p.planner = pool.planner, p.executor = pool.executor,
         pool.overlapped = FALSE => Unlike(p.population),
         \/ Len(p.population) <= PopulationCap
         \/ Len(p.population) = Len(pool.population) /\ worker[f].pc \notin PruningPcs
  PROVE SkillInv'
<1>0. InFlight(f) /\ PoolShape(pool)
  BY DEF AheadPcs, InFlight, SkillInv, WorkersTyped
<1>1. /\ pool.rejected = p.rejected /\ pool.model = p.model /\ pool.overlapped = p.overlapped
      /\ pool.multi = p.multi /\ pool.harness = p.harness
  BY DEF KeptPool, PoolShape
<1> DEFINE q == Accepted(p, f)
<1>2. /\ KeptPool(p, q)
      /\ q.planner + q.executor + One(p.multi = TRUE) = p.planner + p.executor + 1
      /\ \A r \in q.feedback :
           r \in p.feedback \/ (p.harness = TRUE /\ r.named = p.model /\ r.routed = worker[f].routed)
  BY AcceptedReports
<1>3. /\ KeptPool(q, pool') /\ pool'.planner = q.planner /\ pool'.executor = q.executor
      /\ pool'.feedback = q.feedback
  <2>1. PoolShape(q)
    BY <1>2 DEF KeptPool
  <2>2. pool' = Generated(q, worker[f])
    BY DEF Accepts
  <2> HIDE DEF q
  <2> QED BY <2>1, <2>2, GeneratedIs
<1> HIDE DEF q
<1>4. /\ PoolShape(pool') /\ pool'.population = p.population /\ pool'.rejected = pool.rejected
      /\ pool'.overlapped = pool.overlapped /\ pool'.multi = pool.multi /\ pool'.harness = pool.harness
  BY <1>1, <1>2, <1>3 DEF KeptPool
<1>5. worker' = [worker EXCEPT ![f] = Handed(@, "accepted")]
  BY DEF Accepts
<1>6. "accepted" \in PrKinds /\ One("accepted" = "rejected") = 0
  BY DEF PrKinds, One
<1>7. pool'.rejected = pool.rejected + One("accepted" = "rejected")
  BY <1>0, <1>4, <1>6 DEF PoolShape
<1>8. One(pool.multi = TRUE /\ worker[f].pc \in AheadPcs) = One(p.multi = TRUE)
  BY <1>1 DEF One
<1>9. pool'.planner + pool'.executor + One(pool.multi = TRUE /\ worker[f].pc \in AheadPcs)
        = pool.planner + pool.executor + 1
  BY <1>2, <1>3, <1>8
<1>10. \A r \in pool'.feedback : \/ r \in pool.feedback
                                 \/ /\ worker[f].pc \in AheadPcs /\ pool.harness = TRUE
                                    /\ r.named = pool.model /\ r.routed = worker[f].routed
  BY <1>1, <1>2, <1>3
<1> QED BY <1>0, <1>4, <1>5, <1>6, <1>7, <1>9, <1>10, Ends

LEMMA ChecksKeeps == ASSUME SkillInv, NEW f \in SkillFiles, Checks(f) PROVE SkillInv'
<1>0. /\ WorkersTyped /\ Apart /\ Named /\ WorkerShape(worker[f]) /\ PoolShape(pool) /\ worker[f].pc = "checking"
  BY DEF SkillInv, WorkersTyped, Checks
<1>1. InFlight(f) /\ worker[f].pc \in AheadPcs /\ worker[f].pc \notin PruningPcs
  BY <1>0 DEF InFlight, AheadPcs, PruningPcs
<1>2. CASE Accepts(f, pool)
  <2>1. KeptPool([pool EXCEPT !.population = pool.population], pool)
    BY <1>0 DEF KeptPool, PoolShape
  <2>2. pool.overlapped = FALSE => Unlike(pool.population)
    BY <1>0 DEF Apart
  <2> QED BY <1>0, <1>1, <1>2, <2>1, <2>2, AcceptsKeeps
<1>3. CASE Novel(worker[f].candidate) /\ worker' = [worker EXCEPT ![f].pc = "adding"] /\ pool' = pool
  <2>1. PICK w : w = [worker[f] EXCEPT !.pc = "adding"]
    OBVIOUS
  <2>2. worker' = [worker EXCEPT ![f] = w]
    BY <1>3, <2>1
  <2>3. "adding" \in Pcs
    BY DEF Pcs
  <2>4. /\ WorkerShape(w) /\ w.pc = "adding" /\ w.prs = worker[f].prs /\ w.candidate = worker[f].candidate
        /\ w.routed = worker[f].routed
    BY <1>0, <2>1, <2>3 DEF WorkerShape
  <2>5. w.pc \in AheadPcs /\ w.pc \notin PruningPcs
    BY <2>4 DEF AheadPcs, PruningPcs
  <2>6. NovelIn(pool.population, w.candidate)
    BY <1>3, <2>4 DEF Novel, NovelIn
  <2>7. pool.overlapped = FALSE /\ pool.harness = TRUE => w.routed = pool.model
    BY <1>0, <1>1, <2>4 DEF Named
  <2>8. One(pool.multi = TRUE /\ worker[f].pc \in AheadPcs) = One(pool.multi = TRUE /\ w.pc \in AheadPcs)
    BY <1>1, <2>5
  <2> QED BY <1>0, <1>1, <1>3, <2>2, <2>4, <2>5, <2>6, <2>7, <2>8, Goes
<1>4. CASE /\ pool' = Generated(IF pool.multi THEN [pool EXCEPT !.rejected = @ + 1]
                                ELSE ExecutorCounted([pool EXCEPT !.rejected = @ + 1]), worker[f])
           /\ worker' = [worker EXCEPT ![f] = Handed(@, "rejected")]
  <2>1. PICK c : c = [pool EXCEPT !.rejected = @ + 1]
    OBVIOUS
  <2>2. /\ PoolShape(c) /\ c.population = pool.population /\ c.rejected = pool.rejected + 1
        /\ c.overlapped = pool.overlapped /\ c.multi = pool.multi /\ c.harness = pool.harness
        /\ c.planner = pool.planner /\ c.executor = pool.executor /\ c.feedback = pool.feedback
    BY <1>0, <2>1 DEF PoolShape
  <2>3. PICK m \in Nat, n \in Nat : m = pool.planner /\ n = pool.executor
    BY <1>0 DEF PoolShape
  <2>4. PICK q : /\ q = (IF pool.multi THEN c ELSE ExecutorCounted(c)) /\ KeptPool(c, q) /\ q.feedback = c.feedback
                 /\ q.planner + q.executor + One(pool.multi = TRUE) = m + n + 1
    <3>1. CASE pool.multi = TRUE
      <4>1. KeptPool(c, c) /\ One(pool.multi = TRUE) = 1
        BY <2>2, <3>1 DEF KeptPool, One
      <4> QED BY <2>2, <2>3, <3>1, <4>1
    <3>2. CASE pool.multi = FALSE
      <4>1. One(pool.multi = TRUE) = 0
        BY <3>2 DEF One
      <4>2. /\ KeptPool(c, ExecutorCounted(c)) /\ ExecutorCounted(c).feedback = c.feedback
            /\ ExecutorCounted(c).executor = n + 1 /\ ExecutorCounted(c).planner = m
        BY <2>2, <2>3, CountedIs
      <4>3. ExecutorCounted(c).planner + ExecutorCounted(c).executor + One(pool.multi = TRUE) = m + n + 1
        BY <4>1, <4>2
      <4> QED BY <3>2, <4>2, <4>3
    <3> QED BY <1>0, <3>1, <3>2 DEF PoolShape
  <2>5. /\ KeptPool(q, pool') /\ pool'.planner = q.planner /\ pool'.executor = q.executor
        /\ pool'.feedback = q.feedback
    <3>1. PoolShape(q) /\ pool' = Generated(q, worker[f])
      BY <1>4, <2>1, <2>4 DEF KeptPool
    <3> QED BY <3>1, GeneratedIs
  <2>6. /\ PoolShape(pool') /\ pool'.population = pool.population /\ pool'.rejected = pool.rejected + 1
        /\ pool'.overlapped = pool.overlapped /\ pool'.multi = pool.multi /\ pool'.harness = pool.harness
        /\ pool'.feedback = pool.feedback
    BY <2>2, <2>4, <2>5 DEF KeptPool
  <2>7. "rejected" \in PrKinds /\ One("rejected" = "rejected") = 1
    BY DEF PrKinds, One
  <2>8. One(pool.multi = TRUE /\ worker[f].pc \in AheadPcs) = One(pool.multi = TRUE)
    BY <1>1 DEF One
  <2>9. pool'.planner + pool'.executor + One(pool.multi = TRUE /\ worker[f].pc \in AheadPcs)
          = pool.planner + pool.executor + 1
    BY <2>3, <2>4, <2>5, <2>8
  <2>10. pool'.rejected = pool.rejected + One("rejected" = "rejected")
    BY <2>6, <2>7
  <2>11. pool'.overlapped = FALSE => Unlike(pool'.population)
    BY <1>0, <2>6 DEF Apart
  <2>12. Len(pool'.population) = Len(pool.population)
    BY <2>6
  <2> QED BY <1>1, <1>4, <2>6, <2>7, <2>9, <2>10, <2>11, <2>12, Ends
<1> QED BY <1>2, <1>3, <1>4 DEF Checks

LEMMA AddsKeeps == ASSUME SkillInv, NEW f \in SkillFiles, Adds(f) PROVE SkillInv'
<1>0. /\ WorkersTyped /\ Solitary /\ Apart /\ Named /\ Sized /\ Tallied
      /\ WorkerShape(worker[f]) /\ PoolShape(pool) /\ worker[f].pc = "adding"
  BY DEF SkillInv, WorkersTyped, Adds
<1>1. InFlight(f) /\ worker[f].pc \in AheadPcs /\ worker[f].pc \notin PruningPcs
  BY <1>0 DEF InFlight, AheadPcs, PruningPcs
<1>2. PICK w : w = [worker[f] EXCEPT !.pc = "pruning"]
  OBVIOUS
<1>3. worker' = [worker EXCEPT ![f] = w]
  BY <1>2 DEF Adds
<1>4. "pruning" \in Pcs
  BY DEF Pcs
<1>5. WorkerShape(w) /\ w.pc = "pruning" /\ w.prs = worker[f].prs /\ w.routed = worker[f].routed
  BY <1>0, <1>2, <1>4 DEF WorkerShape
<1>6. w.pc \in AheadPcs /\ w.pc \in PruningPcs /\ w.pc # "adding" /\ w.pc # "replacing"
  BY <1>5 DEF AheadPcs, PruningPcs
<1>7. PICK x \in Int, s \in {3, 5} : x = worker[f].candidate /\ s = (IF pool.multi THEN 3 ELSE 5)
  BY <1>0 DEF WorkerShape
<1>8. PICK e \in Individuals : e = [source |-> x, score |-> s] /\ e.source = x
  <2>1. s \in Nat \ {0}
    OBVIOUS
  <2>2. [source |-> x, score |-> s] \in Individuals /\ [source |-> x, score |-> s].source = x
    BY <2>1 DEF Individuals
  <2> QED BY <2>2
<1>9. PICK P : P = Append(pool.population, e)
  OBVIOUS
<1>10. Entered(P) /\ Len(pool.population) \in Nat /\ Len(P) = Len(pool.population) + 1
  BY <1>0, <1>9, AppendProperties, EnteredIs DEF Entered, PoolShape
<1>11. pool' = [pool EXCEPT !.population = P]
  BY <1>7, <1>8, <1>9 DEF Adds
<1>12. /\ PoolShape(pool') /\ pool'.population = P /\ pool'.rejected = pool.rejected
       /\ pool'.overlapped = pool.overlapped /\ pool'.multi = pool.multi /\ pool'.harness = pool.harness
       /\ pool'.feedback = pool.feedback /\ pool'.model = pool.model
       /\ pool'.planner = pool.planner /\ pool'.executor = pool.executor
  BY <1>0, <1>10, <1>11 DEF PoolShape
<1>13. Move(f, w)
  BY <1>0, <1>1, <1>3, <1>5, <1>12, RunsOn
<1>14. WorkersTyped' /\ Solitary'
  BY <1>0, <1>13, TypedMoves, SolitaryMoves
<1>15. Apart'
  <2>1. ASSUME pool'.overlapped = FALSE PROVE Unlike(pool'.population)
    <3>1. Unlike(pool.population) /\ NovelIn(pool.population, e.source)
      BY <1>0, <1>7, <1>8, <1>12, <2>1 DEF Apart
    <3>2. Entered(pool.population) /\ \A i \in DOMAIN pool.population : ~Alike(e.source, pool.population[i].source)
      BY <1>0, <3>1 DEF PoolShape, NovelIn
    <3> QED BY <1>9, <1>12, <3>1, <3>2, NovelKeeps
  <2> QED BY <1>0, <1>6, <1>13, <2>1, ApartMoves
<1>16. Named'
  <2>1. ASSUME pool'.overlapped = FALSE
        PROVE /\ \A r \in pool'.feedback : r.named = r.routed
              /\ w.pc \in AheadPcs /\ pool'.harness = TRUE => w.routed = pool'.model
    BY <1>0, <1>1, <1>5, <1>12, <2>1 DEF Named
  <2> QED BY <1>0, <1>13, <2>1, NamedMoves
<1>17. Sized'
  <2>1. One(worker[f].pc \in PruningPcs) = 0 /\ One(w.pc \in PruningPcs) = 1
    BY <1>1, <1>6 DEF One
  <2>2. Len(pool'.population) + One(worker[f].pc \in PruningPcs) <= Len(pool.population) + One(w.pc \in PruningPcs)
    BY <1>10, <1>12, <2>1
  <2> QED BY <1>0, <1>6, <1>13, <2>2, SizedMoves
<1>18. Tallied'
  <2>1. One(pool.multi = TRUE /\ worker[f].pc \in AheadPcs) = One(pool.multi = TRUE /\ w.pc \in AheadPcs)
    BY <1>1, <1>6
  <2>2. pool'.planner + pool'.executor + One(pool.multi = TRUE /\ worker[f].pc \in AheadPcs)
           = pool.planner + pool.executor + One(pool.multi = TRUE /\ w.pc \in AheadPcs)
    BY <1>12, <2>1
  <2> QED BY <1>0, <1>5, <1>12, <1>13, <2>2, TalliedGoes
<1> QED BY <1>14, <1>15, <1>16, <1>17, <1>18 DEF SkillInv

LEMMA PrunesKeeps == ASSUME SkillInv, NEW f \in SkillFiles, Prunes(f) PROVE SkillInv'
<1>0. /\ WorkersTyped /\ Apart /\ Named /\ WorkerShape(worker[f]) /\ PoolShape(pool) /\ worker[f].pc = "pruning"
  BY DEF SkillInv, WorkersTyped, Prunes
<1>1. InFlight(f) /\ worker[f].pc \in AheadPcs /\ worker[f].pc \in PruningPcs
  BY <1>0 DEF InFlight, AheadPcs, PruningPcs
<1>2. CASE Len(pool.population) <= PopulationCap /\ Accepts(f, pool)
  <2>1. KeptPool([pool EXCEPT !.population = pool.population], pool)
    BY <1>0 DEF KeptPool, PoolShape
  <2>2. pool.overlapped = FALSE => Unlike(pool.population)
    BY <1>0 DEF Apart
  <2> QED BY <1>0, <1>1, <1>2, <2>1, <2>2, AcceptsKeeps
<1>3. CASE /\ Len(pool.population) > PopulationCap
           /\ worker' = [worker EXCEPT ![f].kept = Trimmed(pool.population), ![f].pc = "replacing"]
           /\ pool' = pool
  <2>1. PICK K : K = Trimmed(pool.population)
    OBVIOUS
  <2>2. Entered(K) /\ Len(K) = PopulationCap /\ (Unlike(pool.population) => Unlike(K))
    <3>1. Len(pool.population) >= PopulationCap /\ Entered(pool.population)
      BY <1>0, <1>3, SkillAssumption, EnteredIs DEF PoolShape
    <3> QED BY <2>1, <3>1, TrimmedIs
  <2>3. PICK w : w = [worker[f] EXCEPT !.kept = K, !.pc = "replacing"]
    OBVIOUS
  <2>4. worker' = [worker EXCEPT ![f] = w]
    BY <1>3, <2>1, <2>3
  <2>5. "replacing" \in Pcs
    BY DEF Pcs
  <2>6. WorkerShape(w) /\ w.pc = "replacing" /\ w.prs = worker[f].prs /\ w.kept = K /\ w.routed = worker[f].routed
    BY <1>0, <2>2, <2>3, <2>5 DEF WorkerShape
  <2>7. w.pc \in AheadPcs /\ w.pc \in PruningPcs /\ w.pc # "adding"
    BY <2>6 DEF AheadPcs, PruningPcs
  <2>8. pool.overlapped = FALSE /\ pool.harness = TRUE => w.routed = pool.model
    BY <1>0, <1>1, <2>6 DEF Named
  <2>9. pool.overlapped = FALSE => Unlike(w.kept)
    BY <1>0, <2>2, <2>6 DEF Apart
  <2>10. One(pool.multi = TRUE /\ worker[f].pc \in AheadPcs) = One(pool.multi = TRUE /\ w.pc \in AheadPcs)
    BY <1>1, <2>7
  <2> QED BY <1>0, <1>1, <1>3, <2>2, <2>4, <2>6, <2>7, <2>8, <2>9, <2>10, Goes
<1> QED BY <1>2, <1>3 DEF Prunes

LEMMA ReplacesKeeps == ASSUME SkillInv, NEW f \in SkillFiles, Replaces(f) PROVE SkillInv'
<1>0. /\ Apart /\ Sized /\ WorkerShape(worker[f]) /\ PoolShape(pool) /\ worker[f].pc = "replacing"
  BY DEF SkillInv, WorkersTyped, Replaces
<1>1. worker[f].pc \in AheadPcs
  BY <1>0 DEF AheadPcs
<1>2. PICK K : K = worker[f].kept /\ Entered(K) /\ Len(K) = PopulationCap /\ (pool.overlapped = FALSE => Unlike(K))
  BY <1>0 DEF Sized, Apart, WorkerShape
<1>3. PICK p : p = [pool EXCEPT !.population = K]
  OBVIOUS
<1>4. /\ PoolShape(p) /\ p.population = K /\ p.feedback = pool.feedback /\ p.planner = pool.planner
      /\ p.executor = pool.executor
  BY <1>0, <1>2, <1>3 DEF PoolShape
<1>5. KeptPool([p EXCEPT !.population = pool.population], pool)
  BY <1>0, <1>3 DEF KeptPool, PoolShape
<1>6. Accepts(f, p)
  BY <1>2, <1>3 DEF Replaces
<1>7. Len(p.population) <= PopulationCap
  BY <1>2, <1>4, SkillAssumption
<1> QED BY <1>1, <1>2, <1>4, <1>5, <1>6, <1>7, AcceptsKeeps

LEMMA SkillStep == ASSUME SkillInv, [SkillNext]_skillVars PROVE SkillInv'
<1>1. CASE SkillNext
  BY <1>1, StartKeeps, OverBudgetKeeps, EvolvesKeeps, ChecksKeeps, AddsKeeps, PrunesKeeps, ReplacesKeeps DEF SkillNext
<1>2. CASE UNCHANGED skillVars
  BY <1>2 DEF skillVars, SkillInv, WorkersTyped, Solitary, Apart, Named, Sized, Tallied, SkillFiles, At, InFlight,
              Prs, Started, Rejections, WorkerShape, PoolShape, NovelIn, Unlike
<1> QED BY <1>1, <1>2

LEMMA SkillInvSound == ASSUME SkillInv PROVE PopulationSound
<1>0. WorkersTyped /\ Apart /\ Named /\ Sized /\ Tallied /\ PoolShape(pool)
  BY DEF SkillInv, WorkersTyped
<1>1. (~pool.overlapped <=> pool.overlapped = FALSE) /\ (pool.multi <=> pool.multi = TRUE)
  BY <1>0 DEF PoolShape
<1>2. At(PruningPcs) = {f \in SkillFiles : worker[f].pc \in {"pruning", "replacing"}}
  BY DEF At, PruningPcs
<1>3. At(AheadPcs) = {f \in SkillFiles : worker[f].pc \notin {"queued", "ready", "done"}}
  <2>1. ASSUME NEW f \in SkillFiles PROVE worker[f].pc \in AheadPcs <=> worker[f].pc \notin {"queued", "ready", "done"}
    BY <1>0 DEF WorkersTyped, WorkerShape, Pcs, AheadPcs
  <2> QED BY <2>1 DEF At
<1>4. Ahead = IF pool.multi = TRUE THEN Cardinality(At(AheadPcs)) ELSE 0
  BY <1>1, <1>3 DEF Ahead
<1>5. ~pool.overlapped => Unlike(pool.population) /\ \A r \in pool.feedback : r.named = r.routed
  BY <1>0, <1>1 DEF Apart, Named
<1> QED BY <1>0, <1>2, <1>4, <1>5 DEF PopulationSound, Sized, Tallied, Unlike

\* However the threads of evolve_concurrent interleave, every evolution is counted once, as planner or executor,
\* every rejection once, and the population exceeds its cap only by the entries being pruned; and as long as
\* no two evolutions ran at once its entries are unlike and the feedback names the model that was used:
\* for any files, strategies, models, cap and width.
THEOREM PopulationIsSound == SkillSpec => []PopulationSound
<1>1. SkillInit => SkillInv
  BY SkillStart
<1>2. SkillInv /\ [SkillNext]_skillVars => SkillInv'
  BY SkillStep
<1>3. SkillInv => PopulationSound
  BY SkillInvSound
<1> QED BY <1>1, <1>2, <1>3, PTL DEF SkillSpec

-----------------------------------------------------------------------------
(* Several opinions become one: the partial sums of weights, the first of the greatest, and what every *)
(* strategy makes of them. *)

\* A sum is the last of its partial sums.
Sums(t, ws) ==
  /\ t \in [0..Len(ws) -> Int] /\ t[0] = 0
  /\ \A k \in 1..Len(ws) : t[k - 1] \in Int /\ ws[k] \in Int /\ t[k] = t[k - 1] + ws[k]

LEMMA SumsExist ==
  ASSUME NEW ws \in Seq(Int)
  PROVE \E t : Sums(t, ws)
<1>1. PICK n \in Nat : n = Len(ws) /\ \A k \in 1..n : ws[k] \in Int
  OBVIOUS
<1> DEFINE G(m) == {t \in [0..m -> Int] : t[0] = 0 /\ \A k \in 1..m : t[k] = t[k - 1] + ws[k]}
           Lacking == {m \in 0..n : G(m) = {}}
<1>2. ASSUME Lacking # {} PROVE FALSE
  <2>0. Lacking \subseteq Nat
    OBVIOUS
  <2>1. PICK m \in Lacking : \A l \in Lacking : m <= l
    BY <1>2, <2>0, LeastNat
  <2>2. CASE m = 0
    <3> DEFINE g == [k \in 0..0 |-> 0]
    <3>1. g \in [0..0 -> Int] /\ g[0] = 0 /\ \A k \in 1..0 : g[k] = g[k - 1] + ws[k]
      OBVIOUS
    <3> QED BY <2>1, <2>2, <3>1
  <2>3. CASE m # 0
    <3>1. m \in 1..n /\ m - 1 \in 0..n /\ m - 1 \notin Lacking
      <4>1. m \in 1..n /\ m - 1 \in 0..n /\ ~(m <= m - 1)
        BY <2>1, <2>3
      <4> HIDE DEF Lacking
      <4> QED BY <2>1, <4>1
    <3>2. PICK h \in [0..(m - 1) -> Int] : h[0] = 0 /\ \A k \in 1..(m - 1) : h[k] = h[k - 1] + ws[k]
      <4>1. PICK h : h \in G(m - 1)
        BY <3>1
      <4> QED BY <4>1
    <3>3. PICK last \in Int : last = h[m - 1] + ws[m]
      <4>1. m - 1 \in 0..(m - 1)
        BY <3>1
      <4>2. h[m - 1] \in Int /\ ws[m] \in Int
        BY <1>1, <3>1, <3>2, <4>1
      <4> QED BY <4>2
    <3> DEFINE g == [k \in 0..m |-> IF k = m THEN last ELSE h[k]]
    <3>4. g \in [0..m -> Int]
      <4>1. ASSUME NEW k \in 0..m PROVE (IF k = m THEN last ELSE h[k]) \in Int
        <5>1. CASE k = m
          BY <5>1
        <5>2. CASE k # m
          <6>1. k \in 0..(m - 1)
            BY <3>1, <5>2
          <6> QED BY <3>2, <5>2, <6>1
        <5> QED BY <5>1, <5>2
      <4> QED BY <4>1
    <3>5. g[0] = 0
      BY <3>1, <3>2
    <3>6. ASSUME NEW k \in 1..m PROVE g[k] = g[k - 1] + ws[k]
      <4>1. k - 1 \in 0..m /\ k - 1 # m /\ k \in 0..m
        BY <3>1
      <4>2. g[k - 1] = h[k - 1] /\ g[k] = IF k = m THEN last ELSE h[k]
        BY <4>1
      <4>3. CASE k = m
        BY <3>3, <4>2, <4>3
      <4>4. CASE k # m
        <5>1. k \in 1..(m - 1)
          BY <3>1, <4>4
        <5> QED BY <3>2, <4>2, <4>4, <5>1
      <4> QED BY <4>3, <4>4
    <3> HIDE DEF g
    <3>7. g \in G(m)
      BY <3>4, <3>5, <3>6
    <3> QED BY <2>1, <3>7
  <2> QED BY <2>2, <2>3
<1>3. PICK t \in [0..n -> Int] : t[0] = 0 /\ \A k \in 1..n : t[k] = t[k - 1] + ws[k]
  <2>1. n \in 0..n
    OBVIOUS
  <2>2. G(n) # {}
    BY <1>2, <2>1
  <2> QED BY <2>2
<1>4. \A k \in 1..n : t[k - 1] \in Int
  <2>1. ASSUME NEW k \in 1..n PROVE k - 1 \in 0..n
    OBVIOUS
  <2> QED BY <2>1
<1> QED BY <1>1, <1>3, <1>4 DEF Sums

LEMMA SummedIs ==
  ASSUME NEW ws \in Seq(Int)
  PROVE Summed(ws) \in Int /\ \E t : Sums(t, ws) /\ Summed(ws) = t[Len(ws)]
<1>1. PICK n \in Nat : n = Len(ws) /\ \A k \in 1..n : ws[k] \in Int
  OBVIOUS
<1>2. PICK t : Sums(t, ws)
  BY SumsExist
<1> DEFINE StepsOf(g) == g = [k \in 0..n |-> IF k = 0 THEN 0 ELSE g[k - 1] + ws[k]]
<1>3. StepsOf(t)
  <2>1. t \in [0..n -> Int] /\ t[0] = 0 /\ \A k \in 1..n : t[k] = t[k - 1] + ws[k]
    BY <1>1, <1>2 DEF Sums
  <2>2. ASSUME NEW k \in 0..n PROVE t[k] = IF k = 0 THEN 0 ELSE t[k - 1] + ws[k]
    <3>1. CASE k = 0
      BY <2>1, <3>1
    <3>2. CASE k # 0
      <4>1. k \in 1..n
        BY <3>2
      <4> QED BY <2>1, <3>2, <4>1
    <3> QED BY <3>1, <3>2
  <2> QED BY <2>1, <2>2
<1> DEFINE g == CHOOSE u : StepsOf(u)
<1>4. StepsOf(g)
  BY <1>3
<1>5. Summed(ws) = g[n]
  BY <1>1 DEF Summed
<1> HIDE DEF g
<1>6. \A k \in 0..n : g[k] = IF k = 0 THEN 0 ELSE g[k - 1] + ws[k]
  BY <1>4
<1>7. \A k \in 0..n : g[k] \in Int
  <2> DEFINE Odd == {k \in 0..n : g[k] \notin Int}
  <2> SUFFICES ASSUME Odd # {} PROVE FALSE
    OBVIOUS
  <2>1. Odd \subseteq Nat
    OBVIOUS
  <2>2. PICK k \in Odd : \A l \in Odd : k <= l
    BY <2>1, LeastNat
  <2>3. k \in 0..n /\ g[k] \notin Int
    BY <2>2
  <2>4. k # 0
    BY <1>6, <2>3
  <2>5. k \in 1..n /\ k - 1 \in 0..n /\ ~(k <= k - 1)
    BY <2>3, <2>4
  <2>6. g[k - 1] \in Int
    <3>1. k - 1 \notin Odd
      BY <2>2, <2>5
    <3> QED BY <2>5, <3>1
  <2>7. g[k] = g[k - 1] + ws[k]
    BY <1>6, <2>3, <2>4
  <2> QED BY <1>1, <2>3, <2>5, <2>6, <2>7
<1>8. Sums(g, ws)
  <2>1. g \in [0..n -> Int]
    <3>1. g = [k \in 0..n |-> IF k = 0 THEN 0 ELSE g[k - 1] + ws[k]]
      BY <1>4
    <3>2. g = [k \in 0..n |-> g[k]]
      BY <3>1
    <3> QED BY <1>7, <3>2
  <2>2. g[0] = 0
    BY <1>6
  <2>3. ASSUME NEW k \in 1..n PROVE g[k - 1] \in Int /\ ws[k] \in Int /\ g[k] = g[k - 1] + ws[k]
    <3>1. k \in 0..n /\ k - 1 \in 0..n /\ k # 0
      OBVIOUS
    <3> QED BY <1>1, <1>6, <1>7, <3>1
  <2> QED BY <1>1, <2>1, <2>2, <2>3 DEF Sums
<1> QED BY <1>1, <1>5, <1>7, <1>8

\* Terms between two multiples have a sum between the multiples of the sum.
LEMMA SummedBetween ==
  ASSUME NEW v \in Seq(Int), NEW w \in Seq(Int), Len(v) = Len(w), NEW a \in Int, NEW b \in Int,
         \A i \in 1..Len(v) : a * w[i] <= v[i] /\ v[i] <= b * w[i]
  PROVE a * Summed(w) <= Summed(v) /\ Summed(v) <= b * Summed(w)
<1>1. PICK n \in Nat : n = Len(v) /\ n = Len(w)
  OBVIOUS
<1>2. PICK t : Sums(t, v) /\ Summed(v) = t[n]
  BY <1>1, SummedIs
<1>3. PICK u : Sums(u, w) /\ Summed(w) = u[n]
  BY <1>1, SummedIs
<1>4. /\ t[0] = 0 /\ u[0] = 0 /\ \A k \in 0..n : t[k] \in Int /\ u[k] \in Int
      /\ \A k \in 1..n : t[k] = t[k - 1] + v[k] /\ u[k] = u[k - 1] + w[k]
  BY <1>1, <1>2, <1>3 DEF Sums
<1> DEFINE Bad == {k \in 0..n : ~(a * u[k] <= t[k] /\ t[k] <= b * u[k])}
<1>5. Bad = {}
  <2> SUFFICES ASSUME Bad # {} PROVE FALSE
    OBVIOUS
  <2>1. Bad \subseteq Nat
    OBVIOUS
  <2>2. PICK k \in Bad : \A l \in Bad : k <= l
    BY <2>1, LeastNat
  <2>3. k \in 0..n /\ ~(a * u[k] <= t[k] /\ t[k] <= b * u[k])
    BY <2>2
  <2>4. k # 0
    BY <1>4, <2>3
  <2>5. k \in 1..n /\ k - 1 \in 0..n /\ ~(k <= k - 1)
    BY <2>3, <2>4
  <2>6. a * u[k - 1] <= t[k - 1] /\ t[k - 1] <= b * u[k - 1]
    <3>1. k - 1 \notin Bad
      BY <2>2, <2>5
    <3> QED BY <2>5, <3>1
  <2>7. PICK x \in Int, y \in Int, p \in Int, q \in Int : x = u[k - 1] /\ y = w[k] /\ p = t[k - 1] /\ q = v[k]
    <3>1. u[k - 1] \in Int /\ t[k - 1] \in Int
      BY <1>4, <2>5
    <3>2. v[k] \in Int /\ w[k] \in Int
      <4>1. k \in 1..Len(v) /\ k \in 1..Len(w)
        BY <1>1, <2>5
      <4> QED BY <4>1, ElementOfSeq
    <3> QED BY <3>1, <3>2
  <2>8. a * x <= p /\ p <= b * x /\ a * y <= q /\ q <= b * y
    BY <1>1, <2>5, <2>6, <2>7
  <2>9. a * (x + y) <= p + q /\ p + q <= b * (x + y)
    BY <2>8
  <2>10. u[k] = x + y /\ t[k] = p + q
    BY <1>4, <2>5, <2>7
  <2> QED BY <2>3, <2>9, <2>10
<1>6. n \in 0..n /\ n \notin Bad
  BY <1>5
<1>7. a * u[n] <= t[n] /\ t[n] <= b * u[n]
  BY <1>6
<1> QED BY <1>2, <1>3, <1>7

\* A sum of what is not negative is not less than any of it.
LEMMA SummedCovers ==
  ASSUME NEW w \in Seq(Int), \A i \in 1..Len(w) : w[i] >= 0
  PROVE Summed(w) >= 0 /\ \A i \in 1..Len(w) : w[i] <= Summed(w)
<1>1. PICK n \in Nat : n = Len(w) /\ \A k \in 1..n : w[k] \in Int /\ w[k] >= 0
  OBVIOUS
<1>2. PICK t : Sums(t, w) /\ Summed(w) = t[n]
  BY <1>1, SummedIs
<1>3. t[0] = 0 /\ \A k \in 0..n : t[k] \in Int /\ \A l \in 1..n : t[l] = t[l - 1] + w[l]
  BY <1>1, <1>2 DEF Sums
<1> DEFINE Bad == {k \in 0..n : ~(t[k] >= 0 /\ \A i \in 1..k : w[i] <= t[k])}
<1>4. Bad = {}
  <2> SUFFICES ASSUME Bad # {} PROVE FALSE
    OBVIOUS
  <2>1. Bad \subseteq Nat
    OBVIOUS
  <2>2. PICK k \in Bad : \A l \in Bad : k <= l
    BY <2>1, LeastNat
  <2>3. k \in 0..n /\ ~(t[k] >= 0 /\ \A i \in 1..k : w[i] <= t[k])
    BY <2>2
  <2>4. k # 0
    BY <1>3, <2>3
  <2>5. k \in 1..n /\ k - 1 \in 0..n /\ ~(k <= k - 1)
    BY <2>3, <2>4
  <2>6. t[k - 1] >= 0 /\ \A i \in 1..(k - 1) : w[i] <= t[k - 1]
    <3>1. k - 1 \notin Bad
      BY <2>2, <2>5
    <3> QED BY <2>5, <3>1
  <2>7. PICK x \in Int, y \in Int : x = t[k - 1] /\ y = w[k] /\ y >= 0 /\ t[k] = x + y
    BY <1>1, <1>3, <2>5
  <2>8. t[k] >= 0
    BY <2>6, <2>7
  <2>9. ASSUME NEW i \in 1..k PROVE w[i] <= t[k]
    <3>1. CASE i = k
      BY <2>6, <2>7, <3>1
    <3>2. CASE i # k
      <4>1. i \in 1..(k - 1) /\ i \in 1..n
        BY <2>5, <3>2
      <4>2. PICK z \in Int : z = w[i] /\ z <= x
        BY <1>1, <2>6, <2>7, <4>1
      <4> QED BY <2>7, <4>2, SMTT(30)
    <3> QED BY <3>1, <3>2
  <2> QED BY <2>3, <2>8, <2>9
<1>5. n \in 0..n /\ n \notin Bad
  BY <1>4
<1>6. t[n] >= 0 /\ \A i \in 1..n : w[i] <= t[n]
  BY <1>5
<1> QED BY <1>1, <1>2, <1>6

LEMMA FirstBestIs ==
  ASSUME NEW v \in Seq(Int), v # <<>>
  PROVE FirstBest(v) \in DOMAIN v /\ \A j \in DOMAIN v : v[j] <= v[FirstBest(v)]
<1>1. PICK n \in Nat \ {0} : n = Len(v) /\ DOMAIN v = 1..n /\ \A k \in 1..n : v[k] \in Int
  OBVIOUS
<1> DEFINE First(i, m) == \A j \in 1..m : v[i] > v[j] \/ (v[i] = v[j] /\ i <= j)
           Lacking == {m \in 1..n : ~\E i \in 1..m : First(i, m)}
<1>2. Lacking = {}
  <2> SUFFICES ASSUME Lacking # {} PROVE FALSE
    OBVIOUS
  <2>1. Lacking \subseteq Nat
    OBVIOUS
  <2>2. PICK m \in Lacking : \A l \in Lacking : m <= l
    BY <2>1, LeastNat
  <2>3. m \in 1..n
    BY <2>2
  <2>4. m # 1
    <3> SUFFICES ASSUME m = 1 PROVE FALSE
      OBVIOUS
    <3>1. First(1, 1) /\ 1 \in 1..1
      BY <1>1
    <3> QED BY <2>2, <3>1
  <2>5. m - 1 \in 1..n /\ ~(m <= m - 1)
    BY <2>3, <2>4
  <2>6. PICK i \in 1..(m - 1) : First(i, m - 1)
    <3>1. m - 1 \notin Lacking
      BY <2>2, <2>5
    <3> QED BY <2>5, <3>1
  <2>7. i \in 1..m /\ m \in 1..m /\ v[i] \in Int /\ v[m] \in Int
    BY <1>1, <2>3, <2>5
  <2>10. PICK x \in Int, y \in Int : x = v[i] /\ y = v[m]
    BY <2>7
  <2>8. CASE y > x
    <3>1. ASSUME NEW j \in 1..m PROVE v[m] > v[j] \/ (v[m] = v[j] /\ m <= j)
      <4>1. CASE j = m
        BY <4>1, <2>7
      <4>2. CASE j # m
        <5>1. j \in 1..(m - 1) /\ v[j] \in Int
          BY <1>1, <2>3, <4>2
        <5>2. PICK z \in Int : z = v[j]
          BY <5>1
        <5>3. x > z \/ x = z
          BY <2>6, <2>10, <5>1, <5>2
        <5>4. y > z
          <6> HIDE DEF First, Lacking
          <6> QED BY <2>8, <5>3
        <5> QED BY <2>10, <5>2, <5>4
      <4> QED BY <4>1, <4>2
    <3> QED BY <2>2, <2>7, <3>1
  <2>9. CASE ~(y > x)
    <3>1. ASSUME NEW j \in 1..m PROVE v[i] > v[j] \/ (v[i] = v[j] /\ i <= j)
      <4>1. CASE j = m
        <5>1. x > y \/ x = y
          BY <2>9
        <5>2. i <= m
          BY <2>3, <2>7
        <5> QED BY <2>10, <4>1, <5>1, <5>2
      <4>2. CASE j # m
        <5>1. j \in 1..(m - 1)
          BY <2>3, <4>2
        <5> QED BY <2>6, <5>1
      <4> QED BY <4>1, <4>2
    <3> QED BY <2>2, <2>7, <3>1
  <2> QED BY <2>8, <2>9
<1>3. \E i \in DOMAIN v : First(i, n)
  <2>1. n \in 1..n
    OBVIOUS
  <2>2. \E i \in 1..n : First(i, n)
    BY <1>2, <2>1
  <2> QED BY <1>1, <2>2
<1>4. FirstBest(v) \in DOMAIN v /\ First(FirstBest(v), n)
  BY <1>1, <1>3 DEF FirstBest
<1>5. ASSUME NEW j \in DOMAIN v PROVE v[j] <= v[FirstBest(v)]
  <2>1. v[FirstBest(v)] > v[j] \/ v[FirstBest(v)] = v[j]
    BY <1>1, <1>4
  <2> QED BY <1>1, <1>4, <2>1
<1> QED BY <1>4, <1>5

Opinions == [text : Texts, confidence : Confidences]
TextsOf(os) == {os[i].text : i \in DOMAIN os}
NumbersOf(os) == {ValueOf[os[i].text] : i \in DOMAIN os}
Between(os, v) == 2 * v >= 2 * Min(NumbersOf(os)) - Grain /\ 2 * v <= 2 * Max(NumbersOf(os)) + Grain
Likeliest(os, t) ==
  \E i \in DOMAIN os :
    /\ os[i].text = t
    /\ \/ \A j \in DOMAIN os : os[j].confidence <= os[i].confidence
       \/ \A j \in DOMAIN os : VotesFor(os, os[j].text) <= VotesFor(os, os[i].text)
FusionSound(os, r) ==
  /\ r.by \subseteq DOMAIN os /\ r.by # {}
  /\ r.text.form \in {"mean", "text", "nonfinite"}
  /\ r.text.form = "mean" => AllFinite(os) /\ Between(os, r.text.value)
  /\ r.text.form = "nonfinite" => AllNumbers(os) /\ ~AllFinite(os)
  /\ r.text.form = "text" => Likeliest(os, r.text.of)

LEMMA OpinionsAre ==
  ASSUME NEW os \in Seq(Opinions)
  PROVE /\ Len(os) \in Nat /\ DOMAIN os = 1..Len(os) /\ (os # <<>> => 1 \in DOMAIN os)
        /\ \A i \in DOMAIN os : os[i].text \in Texts /\ ValueOf[os[i].text] \in Int /\ os[i].confidence \in Nat
<1>1. Len(os) \in Nat /\ DOMAIN os = 1..Len(os) /\ (os # <<>> => 1 \in DOMAIN os)
  OBVIOUS
<1>2. ASSUME NEW i \in DOMAIN os PROVE os[i].text \in Texts /\ os[i].confidence \in Confidences
  <2>1. os[i] \in Opinions
    BY <1>1, ElementOfSeq
  <2> QED BY <2>1 DEF Opinions
<1> QED BY <1>1, <1>2, DeliberationAssumption

\* A function on the places of a sequence is a sequence.
LEMMA ListIs ==
  ASSUME NEW n \in Nat, NEW f, f = [i \in 1..n |-> f[i]], \A i \in 1..n : f[i] \in Int
  PROVE f \in Seq(Int) /\ Len(f) = n /\ DOMAIN f = 1..n /\ (n # 0 => f # <<>>)
<1>1. f \in [1..n -> Int]
  OBVIOUS
<1>2. f \in Seq(Int)
  BY <1>1
<1> QED BY <1>1, <1>2

LEMMA VotesAre == ASSUME NEW os \in Seq(Opinions), NEW t PROVE VotesFor(os, t) \in Int
<1> DEFINE f == [i \in DOMAIN os |-> IF os[i].text = t THEN os[i].confidence ELSE 0]
<1>1. PICK n \in Nat : n = Len(os) /\ DOMAIN os = 1..n
  BY OpinionsAre
<1>2. f = [i \in 1..n |-> f[i]] /\ \A i \in 1..n : f[i] \in Int
  BY <1>1, OpinionsAre
<1> HIDE DEF f
<1>3. f \in Seq(Int)
  BY <1>2, ListIs
<1>4. Summed(f) \in Int
  BY <1>3, SummedIs
<1> QED BY <1>4 DEF VotesFor, f

LEMMA MostConfident ==
  ASSUME NEW os \in Seq(Opinions), os # <<>>
  PROVE /\ FirstBest(Confidence(os)) \in DOMAIN os
        /\ \A j \in DOMAIN os : os[j].confidence <= os[FirstBest(Confidence(os))].confidence
<1>1. PICK n \in Nat : n = Len(os) /\ DOMAIN os = 1..n /\ n # 0
  BY OpinionsAre
<1>2. PICK f : f = Confidence(os)
  OBVIOUS
<1>3. DOMAIN f = 1..n /\ \A i \in 1..n : f[i] = os[i].confidence /\ f[i] \in Int
  BY <1>1, <1>2, OpinionsAre DEF Confidence
<1>4. f = [i \in 1..n |-> f[i]]
  BY <1>1, <1>2 DEF Confidence
<1>5. f \in Seq(Int) /\ f # <<>>
  BY <1>1, <1>3, <1>4, ListIs
<1>6. FirstBest(f) \in 1..n /\ \A j \in 1..n : f[j] <= f[FirstBest(f)]
  BY <1>3, <1>5, FirstBestIs
<1> QED BY <1>1, <1>2, <1>3, <1>6

LEMMA NumbersAre ==
  ASSUME NEW os \in Seq(Opinions), os # <<>>
  PROVE /\ Min(NumbersOf(os)) \in Int /\ Max(NumbersOf(os)) \in Int
        /\ \A i \in DOMAIN os : Min(NumbersOf(os)) <= ValueOf[os[i].text] /\ ValueOf[os[i].text] <= Max(NumbersOf(os))
<1>1. PICK n \in Nat : n = Len(os) /\ DOMAIN os = 1..n /\ n # 0
  BY OpinionsAre
<1>2. PICK f : f = [i \in 1..n |-> ValueOf[os[i].text]]
  OBVIOUS
<1>3. f = [i \in 1..n |-> f[i]] /\ \A i \in 1..n : f[i] = ValueOf[os[i].text] /\ f[i] \in Int
  BY <1>1, <1>2, OpinionsAre
<1>4. NumbersOf(os) = {f[i] : i \in 1..n}
  BY <1>1, <1>3 DEF NumbersOf
<1>5. \E x \in NumbersOf(os) : \A y \in NumbersOf(os) : x >= y
  <2>1. f \in Seq(Int) /\ f # <<>> /\ DOMAIN f = 1..n
    BY <1>1, <1>3, ListIs
  <2>2. PICK k \in 1..n : \A j \in 1..n : f[j] <= f[k]
    BY <2>1, FirstBestIs
  <2>3. \A j \in 1..n : f[k] >= f[j]
    BY <1>3, <2>2
  <2> QED BY <1>4, <2>3
<1>6. \E x \in NumbersOf(os) : \A y \in NumbersOf(os) : x <= y
  <2>1. PICK g : g = [i \in 1..n |-> 0 - f[i]]
    OBVIOUS
  <2>2. g = [i \in 1..n |-> g[i]] /\ \A i \in 1..n : g[i] = 0 - f[i] /\ g[i] \in Int
    BY <1>3, <2>1
  <2>3. g \in Seq(Int) /\ g # <<>> /\ DOMAIN g = 1..n
    BY <1>1, <2>2, ListIs
  <2>4. PICK k \in 1..n : \A j \in 1..n : g[j] <= g[k]
    BY <2>3, FirstBestIs
  <2>5. ASSUME NEW j \in 1..n PROVE f[k] <= f[j]
    <3>1. PICK x \in Int, y \in Int : x = f[k] /\ y = f[j]
      BY <1>3
    <3>2. 0 - y <= 0 - x
      BY <2>2, <2>4, <3>1
    <3> QED BY <3>1, <3>2
  <2> QED BY <1>4, <2>5
<1>7. Max(NumbersOf(os)) \in NumbersOf(os) /\ \A y \in NumbersOf(os) : Max(NumbersOf(os)) >= y
  BY <1>5, Zenon DEF Max
<1>8. Min(NumbersOf(os)) \in NumbersOf(os) /\ \A y \in NumbersOf(os) : Min(NumbersOf(os)) <= y
  BY <1>6, Zenon DEF Min
<1>9. NumbersOf(os) \subseteq Int
  BY <1>3, <1>4
<1>10. PICK lo \in Int, hi \in Int :
         /\ lo = Min(NumbersOf(os)) /\ hi = Max(NumbersOf(os))
         /\ \A y \in NumbersOf(os) : lo <= y /\ y <= hi
  BY <1>7, <1>8, <1>9
<1>11. ASSUME NEW i \in DOMAIN os PROVE ValueOf[os[i].text] \in NumbersOf(os)
  BY DEF NumbersOf
<1> QED BY <1>10, <1>11

\* Rounding to a unit moves nothing by more than half of it.
LEMMA RoundedNear ==
  ASSUME NEW num \in Int, NEW den \in Nat \ {0}
  PROVE /\ Rounded(num, den) \in Int
        /\ 2 * (den * Rounded(num, den)) <= 2 * num + den * Grain
        /\ 2 * (den * Rounded(num, den)) >= 2 * num - den * Grain
<1>1. PICK unit \in Nat \ {0} : unit = den * Grain
  <2>1. Grain \in Nat \ {0}
    BY DeliberationAssumption
  <2> QED BY <2>1
<1> DEFINE a == 2 * num + unit
           b == 2 * unit
           q == a \div b
           tie == a % b = 0
           k == IF tie /\ q % 2 = 1 THEN q - 1 ELSE q
<1>2. a \in Int /\ b \in Nat \ {0} /\ Grain \in Int
  BY DeliberationAssumption
<1>3. Rounded(num, den) = Grain * k
  BY <1>1 DEF Rounded
<1>4. q \in Int /\ b * q <= a /\ a < b * q + b /\ (tie => a = b * q)
  <2> HIDE DEF a, b
  <2>1. q \in Int /\ a % b \in 0..(b - 1) /\ a = b * q + (a % b)
    BY <1>2
  <2>2. PICK m \in Int, c \in Int : m = a % b /\ c = b * q /\ 0 <= m /\ m < b /\ a = c + m
    BY <1>2, <2>1
  <2> HIDE DEF q
  <2> QED BY <1>2, <2>1, <2>2
<1> HIDE DEF q
<1>5. k \in Int /\ b * k <= a /\ a <= b * k + b
  <2>1. CASE tie /\ q % 2 = 1
    <3>1. k = q - 1 /\ b * (q - 1) = b * q - b
      BY <1>2, <1>4, <2>1
    <3>2. PICK c \in Int : c = b * q
      BY <1>2, <1>4
    <3>3. b * k = c - b /\ a = c
      BY <1>4, <2>1, <3>1, <3>2
    <3> HIDE DEF a, b, k
    <3> QED BY <1>2, <1>4, <3>1, <3>3
  <2>2. CASE ~(tie /\ q % 2 = 1)
    <3>1. k = q
      BY <2>2
    <3> HIDE DEF a, b, k
    <3> QED BY <1>2, <1>4, <3>1
  <2> QED BY <2>1, <2>2
<1> HIDE DEF k
<1>6. den * (Grain * k) = unit * k /\ b * k = 2 * (unit * k)
  BY <1>1, <1>2, <1>5
<1>7. PICK c \in Int : c = unit * k
  BY <1>5
<1>8. 2 * c <= 2 * num + unit /\ 2 * num + unit <= 2 * c + 2 * unit
  BY <1>5, <1>6, <1>7
<1>9. 2 * c >= 2 * num - unit
  BY <1>8
<1> QED BY <1>1, <1>2, <1>3, <1>5, <1>6, <1>7, <1>8, <1>9

LEMMA DividedBy ==
  ASSUME NEW d \in Nat \ {0}, NEW x \in Int, NEW y \in Int, d * x <= d * y
  PROVE x <= y
<1> SUFFICES ASSUME x > y PROVE FALSE
  OBVIOUS
<1>1. PICK e \in Nat : x = y + 1 + e
  <2>1. x - y - 1 \in Nat
    OBVIOUS
  <2> QED BY <2>1
<1>2. d * x = d * y + d + d * e
  BY <1>1
<1>3. PICK p \in Int, q \in Nat : p = d * y /\ q = d * e
  OBVIOUS
<1>4. p + d + q <= p
  BY <1>2, <1>3
<1> QED BY <1>3, <1>4

LEMMA HalfUnit ==
  ASSUME NEW d \in Nat \ {0}, NEW num \in Int, NEW v \in Int, NEW lo \in Int, NEW hi \in Int, NEW g \in Int,
         lo * d <= num, num <= hi * d, 2 * (d * v) <= 2 * num + d * g, 2 * (d * v) >= 2 * num - d * g
  PROVE 2 * lo - g <= 2 * v /\ 2 * v <= 2 * hi + g
<1> DEFINE a == d * v
           b == d * g
           c == lo * d
           e == hi * d
           x == 2 * lo - g
           y == 2 * hi + g
<1>1. a \in Int /\ b \in Int /\ c \in Int /\ e \in Int /\ x \in Int /\ y \in Int
  OBVIOUS
<1>2. d * x = 2 * c - b
  OBVIOUS
<1>3. d * y = 2 * e + b
  OBVIOUS
<1>4. d * (2 * v) = 2 * a
  OBVIOUS
<1>5. c <= num /\ num <= e /\ 2 * a <= 2 * num + b /\ 2 * a >= 2 * num - b
  OBVIOUS
<1> HIDE DEF a, b, c, e
<1>6. 2 * c - b <= 2 * a /\ 2 * a <= 2 * e + b
  BY <1>1, <1>5
<1>7. d * x <= d * (2 * v) /\ d * (2 * v) <= d * y
  BY <1>2, <1>3, <1>4, <1>6
<1> HIDE DEF x, y
<1>8. x <= 2 * v
  BY <1>1, <1>7, DividedBy
<1>9. 2 * v <= y
  BY <1>1, <1>7, DividedBy
<1> QED BY <1>8, <1>9 DEF x, y

\* A mean with weights, rounded, is between the least and the greatest, to half a unit.
LEMMA MeanBetween ==
  ASSUME NEW os \in Seq(Opinions), os # <<>>, AllFinite(os),
         NEW ws, ws = [i \in DOMAIN os |-> ws[i]], \A i \in DOMAIN os : ws[i] \in Nat, Summed(ws) # 0
  PROVE Mean(os, ws).form = "mean" /\ Between(os, Mean(os, ws).value)
<1>1. PICK n \in Nat : n = Len(os) /\ DOMAIN os = 1..n
  BY OpinionsAre
<1>2. PICK lo \in Int, hi \in Int :
        /\ lo = Min(NumbersOf(os)) /\ hi = Max(NumbersOf(os))
        /\ \A i \in 1..n : lo <= ValueOf[os[i].text] /\ ValueOf[os[i].text] <= hi
  BY <1>1, NumbersAre
<1>3. ws \in Seq(Int) /\ Len(ws) = n
  <2>1. ws = [i \in 1..n |-> ws[i]] /\ \A i \in 1..n : ws[i] \in Int
    BY <1>1
  <2> QED BY <2>1, ListIs
<1> DEFINE v == [i \in DOMAIN os |-> ws[i] * ValueOf[os[i].text]]
<1>4. ASSUME NEW i \in 1..n PROVE v[i] \in Int /\ lo * ws[i] <= v[i] /\ v[i] <= hi * ws[i]
  <2>1. PICK x \in Int, w \in Nat : x = ValueOf[os[i].text] /\ w = ws[i]
    BY <1>1, OpinionsAre
  <2>2. v[i] = w * x /\ lo <= x /\ x <= hi
    BY <1>1, <1>2, <2>1
  <2>3. w * x \in Int /\ lo * w <= w * x /\ w * x <= hi * w
    <3>1. PICK d \in Nat, e \in Nat : x = lo + d /\ hi = x + e
      <4>1. x - lo \in Nat /\ hi - x \in Nat
        BY <2>2
      <4> QED BY <4>1
    <3>2. w * x = lo * w + w * d /\ hi * w = w * x + w * e
      BY <3>1
    <3>3. PICK p \in Nat, q \in Nat : p = w * d /\ q = w * e
      OBVIOUS
    <3>4. PICK a \in Int, b \in Int, c \in Int : a = lo * w /\ b = hi * w /\ c = w * x
      OBVIOUS
    <3>5. c = a + p /\ b = c + q
      BY <3>2, <3>3, <3>4
    <3>6. a <= c /\ c <= b
      BY <3>5, SMTT(30)
    <3> QED BY <3>4, <3>6
  <2> HIDE DEF v
  <2> QED BY <2>1, <2>2, <2>3
<1>5. v = [i \in 1..n |-> v[i]]
  BY <1>1
<1>6. Mean(os, ws).form = "mean" /\ Mean(os, ws).value = Rounded(Summed(v), Summed(ws))
  BY DEF Mean
<1> HIDE DEF v
<1>7. v \in Seq(Int) /\ Len(v) = n
  BY <1>4, <1>5, ListIs
<1>8. lo * Summed(ws) <= Summed(v) /\ Summed(v) <= hi * Summed(ws)
  BY <1>3, <1>4, <1>7, SummedBetween
<1>9. PICK num \in Int, den \in Nat \ {0} : num = Summed(v) /\ den = Summed(ws)
  <2>1. Summed(v) \in Int /\ Summed(ws) \in Int
    BY <1>3, <1>7, SummedIs
  <2>2. Summed(ws) >= 0
    BY <1>1, <1>3, SummedCovers, SMTT(30)
  <2> QED BY <2>1, <2>2
<1>10. PICK v2 \in Int : /\ v2 = Rounded(num, den)
                        /\ 2 * (den * v2) <= 2 * num + den * Grain
                        /\ 2 * (den * v2) >= 2 * num - den * Grain
  BY RoundedNear
<1>11. PICK g \in Int : g = Grain
  BY DeliberationAssumption
<1>12. lo * den <= num /\ num <= hi * den
  BY <1>8, <1>9
<1>13. 2 * lo - g <= 2 * v2 /\ 2 * v2 <= 2 * hi + g
  BY <1>10, <1>11, <1>12, HalfUnit
<1>14. 2 * v2 >= 2 * lo - g
  BY <1>13
<1> QED BY <1>2, <1>6, <1>9, <1>10, <1>11, <1>14, <1>13 DEF Between

LEMMA PositiveSum ==
  ASSUME NEW os \in Seq(Opinions), os # <<>>,
         NEW ws, ws = [i \in DOMAIN os |-> ws[i]], \A i \in DOMAIN os : ws[i] \in Nat /\ ws[i] > 0
  PROVE Summed(ws) # 0
<1>1. PICK n \in Nat : n = Len(os) /\ DOMAIN os = 1..n /\ n # 0
  BY OpinionsAre
<1>2. ws \in Seq(Int) /\ Len(ws) = n /\ \A i \in 1..n : ws[i] >= 0
  <2>1. ws = [i \in 1..n |-> ws[i]] /\ \A i \in 1..n : ws[i] \in Int
    BY <1>1
  <2> QED BY <1>1, <2>1, ListIs
<1>3. 1 \in 1..n /\ ws[1] > 0 /\ ws[1] \in Nat
  BY <1>1
<1>4. ws[1] <= Summed(ws) /\ Summed(ws) \in Int
  BY <1>2, <1>3, SummedCovers, SummedIs
<1> QED BY <1>3, <1>4

LEMMA MixedIs ==
  ASSUME NEW os \in Seq(Opinions), os # <<>>,
         NEW ws, ws = [i \in DOMAIN os |-> ws[i]], \A i \in DOMAIN os : ws[i] \in Nat, Summed(ws) # 0
  PROVE FusionSound(os, Mixed(os, ws))
<1>1. PICK k : k = FirstBest(Confidence(os)) /\ k \in DOMAIN os /\ \A j \in DOMAIN os : os[j].confidence <= os[k].confidence
  BY MostConfident
<1>2. PICK r : r = Mixed(os, ws)
  OBVIOUS
<1>3. r.by = DOMAIN os /\ r.text = IF AllNumbers(os) THEN Mean(os, ws) ELSE Said(os[k].text)
  BY <1>1, <1>2 DEF Mixed, FusedAs, BestText
<1>4. r.by \subseteq DOMAIN os /\ r.by # {}
  BY <1>1, <1>3
<1>5. CASE AllNumbers(os) /\ AllFinite(os)
  <2>1. r.text.form = "mean" /\ Between(os, r.text.value)
    BY <1>3, <1>5, MeanBetween
  <2> QED BY <1>2, <1>4, <1>5, <2>1 DEF FusionSound
<1>6. CASE AllNumbers(os) /\ ~AllFinite(os)
  <2>1. r.text.form = "nonfinite"
    BY <1>3, <1>6 DEF Mean
  <2> QED BY <1>2, <1>4, <1>6, <2>1 DEF FusionSound
<1>7. CASE ~AllNumbers(os)
  <2>1. r.text.form = "text" /\ r.text.of = os[k].text
    BY <1>3, <1>7 DEF Said
  <2>2. Likeliest(os, r.text.of)
    BY <1>1, <2>1 DEF Likeliest
  <2> QED BY <1>2, <1>4, <2>1, <2>2 DEF FusionSound
<1> QED BY <1>5, <1>6, <1>7

LEMMA BestConfidenceIs ==
  ASSUME NEW os \in Seq(Opinions), os # <<>>
  PROVE FusionSound(os, BestConfidence(os))
<1>1. PICK k : k = FirstBest(Confidence(os)) /\ k \in DOMAIN os /\ \A j \in DOMAIN os : os[j].confidence <= os[k].confidence
  BY MostConfident
<1>2. PICK r : r = BestConfidence(os)
  OBVIOUS
<1>3. r.by = {k} /\ r.text = Said(os[k].text)
  BY <1>1, <1>2 DEF BestConfidence, FusedAs, BestText
<1>4. r.text.form = "text" /\ r.text.of = os[k].text
  BY <1>3 DEF Said
<1>5. Likeliest(os, r.text.of)
  BY <1>1, <1>4 DEF Likeliest
<1> QED BY <1>1, <1>2, <1>3, <1>4, <1>5 DEF FusionSound

LEMMA MajorityVoteIs ==
  ASSUME NEW os \in Seq(Opinions), os # <<>>, TotalConfidence(os) # 0
  PROVE /\ FusionSound(os, MajorityVote(os))
        /\ MajorityVote(os) = FusedAs(MajorityVote(os).text, MajorityVote(os).by)
<1>1. PICK n \in Nat : n = Len(os) /\ DOMAIN os = 1..n /\ n # 0
  BY OpinionsAre
<1>2. PICK v : v = [i \in DOMAIN os |-> VotesFor(os, os[i].text)]
  OBVIOUS
<1>3. v = [i \in 1..n |-> v[i]] /\ \A i \in 1..n : v[i] = VotesFor(os, os[i].text) /\ v[i] \in Int
  BY <1>1, <1>2, VotesAre
<1>4. v \in Seq(Int) /\ v # <<>> /\ DOMAIN v = 1..n
  BY <1>1, <1>3, ListIs
<1>5. PICK k \in 1..n : k = FirstBest(v) /\ \A j \in 1..n : v[j] <= v[k]
  BY <1>4, FirstBestIs
<1>6. \A j \in DOMAIN os : VotesFor(os, os[j].text) <= VotesFor(os, os[k].text)
  BY <1>1, <1>3, <1>5
<1>7. PICK r : r = MajorityVote(os)
  OBVIOUS
<1>8. r = FusedAs(Said(os[k].text), {i \in DOMAIN os : os[i].text = os[k].text})
  BY <1>2, <1>5, <1>7 DEF MajorityVote, VotedAs
<1>9. r.by = {i \in DOMAIN os : os[i].text = os[k].text} /\ r.text = Said(os[k].text)
  BY <1>8 DEF FusedAs
<1>10. r.by \subseteq DOMAIN os /\ k \in r.by
  BY <1>1, <1>9
<1>11. r.text.form = "text" /\ r.text.of = os[k].text
  BY <1>9 DEF Said
<1>12. Likeliest(os, r.text.of)
  BY <1>1, <1>6, <1>11 DEF Likeliest
<1> QED BY <1>7, <1>8, <1>9, <1>10, <1>11, <1>12 DEF FusionSound

\* Whatever the strategy, a fusion is sound or has no confidence to share.
LEMMA FusedByIs ==
  ASSUME NEW os \in Seq(Opinions), NEW strategy \in Strategy, NEW r, r = FusedBy(strategy, os)
  PROVE \/ r = Raised /\ TotalConfidence(os) = 0
        \/ os # <<>> /\ r = FusedAs(r.text, r.by) /\ FusionSound(os, r)
<1>1. CASE os = <<>>
  <2>1. Confidence(os) \in Seq(Int) /\ Len(Confidence(os)) = 0
    BY <1>1 DEF Confidence
  <2>2. PICK t : Sums(t, Confidence(os)) /\ Summed(Confidence(os)) = t[0]
    BY <2>1, SummedIs
  <2>3. TotalConfidence(os) = 0
    BY <2>2 DEF Sums, TotalConfidence
  <2> QED BY <1>1, <2>3 DEF FusedBy
<1>2. ASSUME NEW ws PROVE Mixed(os, ws) = FusedAs(Mixed(os, ws).text, Mixed(os, ws).by)
  BY DEF Mixed, FusedAs
<1>3. BestConfidence(os) = FusedAs(BestConfidence(os).text, BestConfidence(os).by)
  BY DEF BestConfidence, FusedAs
<1>4. CASE os # <<>>
  <2>1. FusionSound(os, Average(os)) /\ Average(os) = FusedAs(Average(os).text, Average(os).by)
    <3>1. PICK ws : ws = [i \in DOMAIN os |-> 1]
      OBVIOUS
    <3>2. ws = [i \in DOMAIN os |-> ws[i]] /\ \A i \in DOMAIN os : ws[i] \in Nat /\ ws[i] > 0
      BY <3>1
    <3>3. Average(os) = Mixed(os, ws)
      BY <3>1 DEF Average
    <3>4. Summed(ws) # 0
      BY <1>4, <3>2, PositiveSum
    <3> QED BY <1>2, <1>4, <3>2, <3>3, <3>4, MixedIs
  <2>2. FusionSound(os, ConfidenceWeighted(os))
        /\ ConfidenceWeighted(os) = FusedAs(ConfidenceWeighted(os).text, ConfidenceWeighted(os).by)
    <3>1. PICK ws : ws = Confidence(os)
      OBVIOUS
    <3>2. ws = [i \in DOMAIN os |-> ws[i]] /\ \A i \in DOMAIN os : ws[i] \in Nat
      BY <3>1, OpinionsAre DEF Confidence
    <3>3. IF Summed(ws) = 0 THEN ConfidenceWeighted(os) = Average(os) ELSE ConfidenceWeighted(os) = Mixed(os, ws)
      BY <3>1 DEF ConfidenceWeighted, TotalConfidence
    <3> QED BY <1>2, <1>4, <2>1, <3>2, <3>3, MixedIs
  <2>3. FusionSound(os, Stacking(os)) /\ Stacking(os) = FusedAs(Stacking(os).text, Stacking(os).by)
    <3>1. PICK ws : ws = [i \in DOMAIN os |-> 10 + os[i].confidence]
      OBVIOUS
    <3>2. ws = [i \in DOMAIN os |-> ws[i]] /\ \A i \in DOMAIN os : ws[i] \in Nat /\ ws[i] > 0
      BY <3>1, OpinionsAre
    <3>3. Stacking(os) \in {BestConfidence(os), Mixed(os, ws)}
      BY <3>1 DEF Stacking
    <3>4. Summed(ws) # 0
      BY <1>4, <3>2, PositiveSum
    <3> QED BY <1>2, <1>3, <1>4, <3>2, <3>3, <3>4, MixedIs, BestConfidenceIs
  <2>4. FusionSound(os, BestConfidence(os))
    BY <1>4, BestConfidenceIs
  <2>5. \/ MajorityVote(os) = Raised /\ TotalConfidence(os) = 0
        \/ /\ FusionSound(os, MajorityVote(os))
           /\ MajorityVote(os) = FusedAs(MajorityVote(os).text, MajorityVote(os).by)
    <3>1. CASE TotalConfidence(os) = 0
      BY <3>1 DEF MajorityVote, VotedAs
    <3>2. CASE TotalConfidence(os) # 0
      BY <1>4, <3>2, MajorityVoteIs
    <3> QED BY <3>1, <3>2
  <2>6. r \in {ConfidenceWeighted(os), MajorityVote(os), Average(os), BestConfidence(os), Stacking(os)}
    BY <1>4 DEF FusedBy, Strategy
  <2> QED BY <1>3, <1>4, <2>1, <2>2, <2>3, <2>4, <2>5, <2>6
<1> QED BY <1>1, <1>4

CouncilShape(c) ==
  /\ c = [kind |-> c.kind, outputs |-> c.outputs, judge |-> c.judge, result |-> c.result,
          history |-> c.history, roles |-> c.roles, models |-> c.models]
  /\ c.outputs \in Seq(Opinions) /\ c.judge \in BOOLEAN
  /\ c.models \in Seq(STRING) /\ \A i \in DOMAIN c.models : c.models[i] # "none"
  /\ "executor" \in DOMAIN c.roles

DeliberationInv == CouncilShape(council) /\ DeliberationSound

\* What another result leaves alone.
Answered(c, r) ==
  /\ CouncilShape(c) /\ c.result = r /\ c.kind = council.kind /\ c.outputs = council.outputs
  /\ c.judge = council.judge /\ c.models = council.models /\ c.roles = council.roles

LEMMA AnsweredIs ==
  ASSUME CouncilShape(council), NEW r
  PROVE Answered([council EXCEPT !.result = r], r) /\ Answered([council EXCEPT !.result = r, !.history = @ + 1], r)
<1>1. PICK c : c = [council EXCEPT !.result = r]
  OBVIOUS
<1>2. Answered(c, r)
  BY <1>1 DEF CouncilShape, Answered
<1>3. PICK d : d = [council EXCEPT !.result = r, !.history = @ + 1]
  OBVIOUS
<1>4. Answered(d, r)
  BY <1>3 DEF CouncilShape, Answered
<1> QED BY <1>1, <1>2, <1>3, <1>4

LEMMA CouncilStart == ASSUME CouncilInit PROVE DeliberationInv
<1>0. "executor" \in DOMAIN Builtin
  BY DEF Builtin
<1>1. ASSUME NEW kind, NEW judge \in BOOLEAN, NEW models, NEW roles, "executor" \in DOMAIN roles,
             models \in Seq(STRING), \A i \in DOMAIN models : models[i] # "none",
             council = [kind |-> kind, outputs |-> <<>>, judge |-> judge, result |-> Nothing, history |-> 0,
                        roles |-> roles, models |-> models]
      PROVE DeliberationInv
  <2>1. PICK os \in Seq(Opinions) : os = <<>>
    <3>1. <<>> \in Seq(Opinions)
      OBVIOUS
    <3> QED BY <3>1
  <2>2. /\ council.kind = kind /\ council.outputs = os /\ council.judge = judge /\ council.result = Nothing
        /\ council.history = 0 /\ council.roles = roles /\ council.models = models
    BY <1>1, <2>1
  <2>3. CouncilShape(council) /\ council.result = Nothing /\ "executor" \in DOMAIN council.roles
    <3>1. council = [kind |-> council.kind, outputs |-> council.outputs, judge |-> council.judge,
                     result |-> council.result, history |-> council.history, roles |-> council.roles,
                     models |-> council.models]
      BY <1>1
    <3> QED BY <1>1, <2>2, <3>1 DEF CouncilShape
  <2>4. DeliberationSound
    BY <2>3 DEF DeliberationSound, FusedSound, Nothing
  <2> QED BY <2>3, <2>4 DEF DeliberationInv
<1>2. CASE \E judge \in BOOLEAN, kind \in {"fusion", "vote"} : council = [Council(kind, <<>>) EXCEPT !.judge = judge]
  <2>1. PICK judge \in BOOLEAN, kind \in {"fusion", "vote"} : council = [Council(kind, <<>>) EXCEPT !.judge = judge]
    BY <1>2
  <2>2. council = [kind |-> kind, outputs |-> <<>>, judge |-> judge, result |-> Nothing, history |-> 0,
                   roles |-> Builtin, models |-> <<>>]
    BY <2>1 DEF Council
  <2>3. <<>> \in Seq(STRING) /\ DOMAIN <<>> = {}
    OBVIOUS
  <2> QED BY <1>0, <1>1, <2>2, <2>3
<1>3. CASE \E models \in ModelLists : council = Council("assignment", models)
  <2>1. PICK models \in ModelLists : council = Council("assignment", models)
    BY <1>3
  <2>2. council = [kind |-> "assignment", outputs |-> <<>>, judge |-> FALSE, result |-> Nothing, history |-> 0,
                   roles |-> Builtin, models |-> models]
    BY <2>1 DEF Council
  <2>3. models \in Seq(STRING) /\ \A i \in DOMAIN models : models[i] # "none"
    BY DeliberationAssumption
  <2> QED BY <1>0, <1>1, <2>2, <2>3
<1> QED BY <1>2, <1>3 DEF CouncilInit

LEMMA ArrivesKeeps == ASSUME DeliberationInv, OutputArrives PROVE DeliberationInv'
<1>1. PICK o \in Opinions : council' = [council EXCEPT !.outputs = Append(@, o)]
  BY DEF OutputArrives, Opinions
<1>2. CouncilShape(council) /\ council.result = Nothing
  BY DEF DeliberationInv, OutputArrives
<1>3. PICK os \in Seq(Opinions) : os = Append(council.outputs, o)
  BY <1>2, AppendProperties DEF CouncilShape
<1>4. council' = [council EXCEPT !.outputs = os]
  BY <1>1, <1>3
<1>5. CouncilShape(council') /\ council'.result = Nothing
  BY <1>2, <1>4 DEF CouncilShape
<1>6. DeliberationSound'
  BY <1>5 DEF DeliberationSound, FusedSound, Nothing, CouncilShape
<1> QED BY <1>5, <1>6 DEF DeliberationInv, CouncilShape

\* No more outputs are needed to see that a fusion is sound.
LEMMA FuseKeeps == ASSUME DeliberationInv, Fuse PROVE DeliberationInv'
<1>0. CouncilShape(council)
  BY DEF DeliberationInv
<1>1. PICK os \in Seq(Opinions), strategy \in Strategy :
        /\ os = council.outputs
        /\ council' =
             IF Len(os) < MinModels
             THEN [council EXCEPT !.result =
                     IF os = <<>> THEN FusedAs([form |-> "empty"], {}) ELSE FusedAs(Said(os[1].text), {1})]
             ELSE IF FusedBy(strategy, os).kind = "raised" THEN [council EXCEPT !.result = FusedBy(strategy, os)]
             ELSE [council EXCEPT
                     !.result = [FusedBy(strategy, os) EXCEPT !.arbiter = council.judge /\ Disagrees(os)],
                     !.history = @ + 1]
  BY <1>0 DEF Fuse, CouncilShape
<1>2. PICK fused : fused = FusedBy(strategy, os)
  OBVIOUS
<1>3. Len(os) \in Nat /\ MinModels \in Nat
  BY DeliberationAssumption
<1>4. CASE Len(os) < MinModels
  <2>1. PICK r : /\ r \in {FusedAs([form |-> "empty"], {}), FusedAs(Said(os[1].text), {1})}
                 /\ council' = [council EXCEPT !.result = r]
    BY <1>1, <1>4
  <2>2. Answered(council', r) /\ r.kind = "fused"
    <3>1. Answered(council', r)
      BY <1>0, <2>1, AnsweredIs
    <3> QED BY <2>1, <3>1 DEF FusedAs
  <2>3. ~(Len(os) >= MinModels)
    BY <1>3, <1>4
  <2>4. council'.result = r /\ council'.outputs = os /\ "executor" \in DOMAIN council'.roles
    BY <1>1, <2>2 DEF Answered, CouncilShape
  <2>5. DeliberationSound'
    BY <2>2, <2>3, <2>4 DEF DeliberationSound, FusedSound
  <2> QED BY <2>2, <2>5 DEF DeliberationInv, Answered, CouncilShape
<1>5. CASE ~(Len(os) < MinModels) /\ fused.kind = "raised"
  <2>1. council' = [council EXCEPT !.result = fused]
    BY <1>1, <1>2, <1>5
  <2>2. Answered(council', fused)
    BY <1>0, <2>1, AnsweredIs
  <2>3. TotalConfidence(os) = 0
    BY <1>2, <1>5, FusedByIs DEF FusedAs
  <2>4. council'.result = fused /\ council'.outputs = os /\ "executor" \in DOMAIN council'.roles
    BY <1>1, <2>2 DEF Answered, CouncilShape
  <2>5. DeliberationSound'
    BY <1>5, <2>3, <2>4 DEF DeliberationSound, FusedSound
  <2> QED BY <2>2, <2>5 DEF DeliberationInv, Answered, CouncilShape
<1>6. CASE ~(Len(os) < MinModels) /\ fused.kind # "raised"
  <2>1. os # <<>> /\ fused = FusedAs(fused.text, fused.by) /\ FusionSound(os, fused)
    BY <1>2, <1>6, FusedByIs DEF Raised
  <2>2. PICK a \in BOOLEAN : a = (council.judge /\ Disagrees(os))
    OBVIOUS
  <2>3. PICK r : r = [fused EXCEPT !.arbiter = a]
    OBVIOUS
  <2>4. council' = [council EXCEPT !.result = r, !.history = @ + 1]
    BY <1>1, <1>2, <1>6, <2>2, <2>3
  <2>5. Answered(council', r)
    BY <1>0, <2>4, AnsweredIs
  <2>6. r.kind = "fused" /\ r.text = fused.text /\ r.by = fused.by /\ r.arbiter = a
    <3>1. PICK t, b : t = fused.text /\ b = fused.by
      OBVIOUS
    <3>2. fused = [kind |-> "fused", text |-> t, by |-> b, arbiter |-> FALSE]
      BY <2>1, <3>1 DEF FusedAs
    <3> QED BY <2>3, <3>1, <3>2
  <2>7. r.arbiter => council.judge /\ Different(os) > 1
    <3> SUFFICES ASSUME a = TRUE PROVE council.judge /\ Different(os) > 1
      BY <2>6
    <3>1. council.judge /\ Disagrees(os)
      BY <2>2
    <3>2. Different(os) \in Nat
      <4>1. IsFiniteSet(TextsOf(os))
        <5>1. IsFiniteSet(DOMAIN os)
          BY OpinionsAre, FS_Interval
        <5>2. PICK f : f = [i \in DOMAIN os |-> os[i].text]
          OBVIOUS
        <5>3. TextsOf(os) = {f[i] : i \in DOMAIN os}
          BY <5>2 DEF TextsOf
        <5>4. f \in Surjection(DOMAIN os, TextsOf(os))
          BY <5>2, <5>3 DEF Surjection
        <5> QED BY <5>1, <5>4, FS_Surjection
      <4> QED BY <4>1, FS_CardinalityType DEF Different, TextsOf
    <3>3. PICK d \in Nat, t \in Nat : d = Different(os) /\ t = Threshold
      BY <3>2, DeliberationAssumption
    <3>4. 100 * (d - 1) > t * d
      BY <3>1, <3>3 DEF Disagrees
    <3>5. t * d >= 0
      OBVIOUS
    <3>6. t * d \in Nat
      OBVIOUS
    <3>7. d > 1
      BY <3>4, <3>5, <3>6
    <3> QED BY <3>1, <3>3, <3>7
  <2>8. /\ council'.result = r /\ council'.outputs = os /\ council'.judge = council.judge
        /\ "executor" \in DOMAIN council'.roles
    BY <1>1, <2>5 DEF Answered, CouncilShape
  <2>9. FusionSound(os, r)
    BY <2>1, <2>6 DEF FusionSound
  <2>10. FusedSound(r)'
    BY <2>7, <2>8, <2>9 DEF FusedSound, FusionSound, Between, Likeliest, NumbersOf
  <2>11. DeliberationSound'
    BY <2>6, <2>8, <2>10 DEF DeliberationSound
  <2> QED BY <2>5, <2>11 DEF DeliberationInv, Answered, CouncilShape
<1> QED BY <1>2, <1>4, <1>5, <1>6

LEMMA ReachKeeps == ASSUME DeliberationInv, Reach PROVE DeliberationInv'
<1>0. CouncilShape(council) /\ council.kind = "vote"
  BY DEF DeliberationInv, Reach
<1>1. PICK votes \in Seq(Opinions) : votes = council.outputs
  BY <1>0 DEF CouncilShape
<1>2. PICK options \in SeqOf(Texts, MaxOutputs), level \in Levels, said \in Texts :
        council' = [council EXCEPT !.result =
          IF options = <<>> THEN Raised
          ELSE [kind |-> "decided", options |-> options, level |-> level,
                resolution |-> Decide(options, votes, level, said), human |-> level = "human"]]
  BY <1>1 DEF Reach
<1>3. CASE options = <<>>
  <2>1. council' = [council EXCEPT !.result = Raised]
    BY <1>2, <1>3
  <2>2. Answered(council', Raised)
    BY <1>0, <2>1, AnsweredIs
  <2>3. council'.result = Raised /\ council'.kind = "vote" /\ "executor" \in DOMAIN council'.roles
    BY <1>0, <2>2 DEF Answered, CouncilShape
  <2>4. DeliberationSound'
    BY <2>3 DEF DeliberationSound, FusedSound, Raised
  <2> QED BY <2>2, <2>4 DEF DeliberationInv, Answered, CouncilShape
<1>4. CASE options # <<>>
  <2>1. PICK resolution : resolution = Decide(options, votes, level, said)
    OBVIOUS
  <2>2. PICK human : human = (level = "human")
    OBVIOUS
  <2>3. PICK r : r = [kind |-> "decided", options |-> options, level |-> level,
                      resolution |-> resolution, human |-> human]
    OBVIOUS
  <2>4. council' = [council EXCEPT !.result = r]
    BY <1>2, <1>4, <2>1, <2>2, <2>3
  <2>5. Answered(council', r)
    BY <1>0, <2>4, AnsweredIs
  <2>6. r.kind = "decided" /\ r.options = options /\ r.level = level /\ r.resolution = resolution
    BY <2>3
  <2>7. ASSUME ~(level = "arbiter" /\ council.judge)
        PROVE /\ resolution \in ToSet(options)
              /\ \A i \in DOMAIN options : VotesFor(votes, options[i]) <= VotesFor(votes, resolution)
    <3>1. PICK m \in 0..MaxOutputs : options \in [1..m -> Texts]
      BY DEF SeqOf
    <3>2. m \in Nat /\ DOMAIN options = 1..m /\ m # 0
      <4>1. DOMAIN options = 1..m
        BY <3>1
      <4>2. options = [i \in 1..m |-> options[i]]
        BY <3>1
      <4>3. m # 0
        <5> SUFFICES ASSUME m = 0 PROVE FALSE
          OBVIOUS
        <5>1. options \in Seq(Texts) /\ Len(options) = 0
          BY <3>1
        <5> QED BY <1>4, <5>1
      <4> QED BY <3>1, <4>1, <4>3, DeliberationAssumption
    <3>3. PICK v : v = [i \in DOMAIN options |-> VotesFor(votes, options[i])]
      OBVIOUS
    <3>4. v = [i \in 1..m |-> v[i]] /\ \A i \in 1..m : v[i] = VotesFor(votes, options[i]) /\ v[i] \in Int
      BY <3>2, <3>3, VotesAre
    <3>5. v \in Seq(Int) /\ v # <<>> /\ DOMAIN v = 1..m
      BY <3>2, <3>4, ListIs
    <3>6. PICK k \in 1..m : k = FirstBest(v) /\ \A j \in 1..m : v[j] <= v[k]
      BY <3>5, FirstBestIs
    <3>7. resolution = options[k]
      BY <2>1, <2>7, <3>3, <3>6 DEF Decide
    <3>8. options[k] \in ToSet(options)
      BY <3>2 DEF ToSet
    <3> QED BY <3>2, <3>4, <3>6, <3>7, <3>8
  <2>8. /\ council'.result = r /\ council'.outputs = votes /\ council'.judge = council.judge
        /\ "executor" \in DOMAIN council'.roles
    BY <1>1, <2>5 DEF Answered, CouncilShape
  <2>9. DeliberationSound'
    BY <2>6, <2>7, <2>8 DEF DeliberationSound, FusedSound
  <2> QED BY <2>5, <2>9 DEF DeliberationInv, Answered, CouncilShape
<1> QED BY <1>3, <1>4

\* Roles come and go, but for the executor's; the result stands.
LEMMA RolesKeep == ASSUME DeliberationInv, RegisterRole \/ ResetRoles PROVE DeliberationInv'
<1>0. CouncilShape(council) /\ DeliberationSound
  BY DEF DeliberationInv
<1>1. PICK roles : council' = [council EXCEPT !.roles = roles] /\ "executor" \in DOMAIN roles
  <2>1. CASE RegisterRole
    <3>1. PICK role \in {"architect", "executor", "poet"}, slot \in {"planner", "verse"},
               fallback \in {"none", "poet", "executor"} :
            council' = [council EXCEPT !.roles =
                         [r \in DOMAIN @ \cup {role} |-> IF r = role THEN [slot |-> slot, fallback |-> fallback] ELSE @[r]]]
      BY <2>1 DEF RegisterRole
    <3>2. PICK roles : roles = [r \in DOMAIN council.roles \cup {role} |->
                                 IF r = role THEN [slot |-> slot, fallback |-> fallback] ELSE council.roles[r]]
      OBVIOUS
    <3>3. council' = [council EXCEPT !.roles = roles]
      BY <3>1, <3>2
    <3>4. "executor" \in DOMAIN roles
      BY <1>0, <3>2 DEF CouncilShape
    <3> QED BY <3>3, <3>4
  <2>2. CASE ResetRoles
    <3>0. "executor" \in DOMAIN Builtin
      BY DEF Builtin
    <3>1. PICK roles : roles = Builtin /\ "executor" \in DOMAIN roles
      BY <3>0
    <3> QED BY <2>2, <3>1 DEF ResetRoles
  <2> QED BY <2>1, <2>2
<1>2. /\ CouncilShape(council') /\ council'.result = council.result /\ council'.kind = council.kind
      /\ council'.outputs = council.outputs /\ council'.judge = council.judge /\ council'.models = council.models
      /\ "executor" \in DOMAIN council'.roles
  BY <1>0, <1>1 DEF CouncilShape
<1>3. DeliberationSound'
  BY <1>0, <1>2 DEF DeliberationSound, FusedSound
<1> QED BY <1>2, <1>3 DEF DeliberationInv, CouncilShape

\* The model of a slot: one of that name if there is one, and one at all if there are any.
LEMMA PickModelIs ==
  ASSUME CouncilShape(council), NEW slot
  PROVE /\ PickModel(slot) = "none" <=> council.models = <<>>
        /\ slot \in ToSet(council.models) => PickModel(slot) = slot
<1>1. PICK models \in Seq(STRING) : models = council.models /\ \A i \in DOMAIN models : models[i] # "none"
  BY DEF CouncilShape
<1>2. PICK n \in Nat : n = Len(models) /\ DOMAIN models = 1..n
  OBVIOUS
<1> DEFINE ByName == {i \in 1..Len(models) : models[i] = slot}
           ByPart == {i \in 1..Len(models) : <<slot, models[i]>> \in Substring}
           named == IF ByName # {} THEN Min(ByName) ELSE 0
           part == IF ByPart # {} THEN Min(ByPart) ELSE 0
<1>3. PickModel(slot) = CASE models = <<>> -> "none"
                          [] named # 0 -> models[named]
                          [] named = 0 /\ part # 0 -> models[part]
                          [] OTHER -> Head(models)
  BY <1>1 DEF PickModel, SelectInSeq
<1>4. CASE models = <<>>
  <2>1. PickModel(slot) = "none"
    <3>1. n = 0
      BY <1>2, <1>4
    <3>2. ByName = {} /\ ByPart = {}
      BY <1>2, <3>1
    <3>3. named = 0 /\ part = 0
      BY <3>2
    <3> HIDE DEF named, part
    <3> QED BY <1>3, <1>4, <3>3
  <2>2. slot \notin ToSet(models)
    BY <1>4 DEF ToSet
  <2> QED BY <1>1, <1>4, <2>1, <2>2
<1>5. CASE models # <<>>
  <2>1. n # 0
    BY <1>2, <1>5
  <2>2. ByName \subseteq Nat /\ ByPart \subseteq Nat
    OBVIOUS
  <2>3. ByName # {} => named \in 1..n /\ models[named] = slot
    <3> HIDE DEF ByName
    <3>1. ByName # {} => Min(ByName) \in ByName
      BY <2>2, MinOfNats
    <3> QED BY <1>2, <3>1 DEF ByName
  <2>4. ByPart # {} => part \in 1..n
    <3> HIDE DEF ByPart
    <3>1. ByPart # {} => Min(ByPart) \in ByPart
      BY <2>2, MinOfNats
    <3> QED BY <1>2, <3>1 DEF ByPart
  <2>5. (ByName = {} => named = 0) /\ (ByPart = {} => part = 0)
    OBVIOUS
  <2>6. slot \in ToSet(models) => ByName # {}
    BY <1>2 DEF ToSet
  <2>7. Head(models) = models[1]
    BY <1>5
  <2> HIDE DEF ByName, ByPart, named, part
  <2>8. ByName # {} => PickModel(slot) = slot
    BY <1>3, <1>5, <2>3
  <2>9. \E i \in 1..n : PickModel(slot) = models[i]
    <3>1. CASE ByName # {}
      BY <1>3, <1>5, <2>3, <3>1
    <3>2. CASE ByName = {} /\ ByPart # {}
      <4>1. named = 0 /\ part # 0 /\ part \in 1..n
        BY <2>4, <2>5, <3>2
      <4> QED BY <1>3, <1>5, <4>1
    <3>3. CASE ByName = {} /\ ByPart = {}
      <4>1. named = 0 /\ part = 0 /\ 1 \in 1..n
        BY <2>1, <2>5, <3>3
      <4> QED BY <1>3, <1>5, <2>7, <4>1
    <3> QED BY <3>1, <3>2, <3>3
  <2> QED BY <1>1, <1>2, <1>5, <2>6, <2>8, <2>9
<1> QED BY <1>4, <1>5

LEMMA AssignKeeps == ASSUME DeliberationInv, Assign PROVE DeliberationInv'
<1>0. CouncilShape(council)
  BY DEF DeliberationInv
<1>1. PICK role, slot, model, back, other, otherSlot :
        /\ model = PickModel(slot)
        /\ council' = [council EXCEPT !.result =
             IF model = "none" /\ back
             THEN [kind |-> "assigned", role |-> other, slot |-> otherSlot,
                   model |-> PickModel(otherSlot), fallback |-> TRUE]
             ELSE [kind |-> "assigned", role |-> role, slot |-> slot, model |-> model, fallback |-> FALSE]]
  <2>1. PICK asked \in {"architect", "poet", "writer"} :
          LET role == IF asked \in DOMAIN council.roles THEN asked ELSE "executor"
              spec == council.roles[role]
              model == PickModel(spec.slot)
              back == spec.fallback \in DOMAIN council.roles
          IN council' = [council EXCEPT !.result =
               IF model = "none" /\ back
               THEN [kind |-> "assigned", role |-> spec.fallback, slot |-> council.roles[spec.fallback].slot,
                     model |-> PickModel(council.roles[spec.fallback].slot), fallback |-> TRUE]
               ELSE [kind |-> "assigned", role |-> role, slot |-> spec.slot, model |-> model, fallback |-> FALSE]]
    BY DEF Assign
  <2>2. PICK role, spec : role = (IF asked \in DOMAIN council.roles THEN asked ELSE "executor")
                          /\ spec = council.roles[role]
    OBVIOUS
  <2>3. PICK slot, other, otherSlot, model, back :
          /\ slot = spec.slot /\ other = spec.fallback /\ otherSlot = council.roles[spec.fallback].slot
          /\ model = PickModel(slot) /\ back = (spec.fallback \in DOMAIN council.roles)
    OBVIOUS
  <2> QED BY <2>1, <2>2, <2>3
<1>2. PICK r : /\ council' = [council EXCEPT !.result = r] /\ r.kind = "assigned"
               /\ r.model = PickModel(r.slot) /\ (r.fallback => council.models = <<>>)
  <2>1. CASE model = "none" /\ back
    <3>1. PICK m : m = PickModel(otherSlot)
      OBVIOUS
    <3>2. council.models = <<>>
      BY <1>0, <1>1, <2>1, PickModelIs
    <3>3. PICK r : r = [kind |-> "assigned", role |-> other, slot |-> otherSlot, model |-> m, fallback |-> TRUE]
      OBVIOUS
    <3>4. council' = [council EXCEPT !.result = r]
      BY <1>1, <2>1, <3>1, <3>3
    <3>5. r.kind = "assigned" /\ r.model = m /\ r.slot = otherSlot
      BY <3>3
    <3> QED BY <3>1, <3>2, <3>4, <3>5
  <2>2. CASE ~(model = "none" /\ back)
    <3>1. PICK r : r = [kind |-> "assigned", role |-> role, slot |-> slot, model |-> model, fallback |-> FALSE]
      OBVIOUS
    <3>2. council' = [council EXCEPT !.result = r]
      BY <1>1, <2>2, <3>1
    <3>3. r.kind = "assigned" /\ r.model = model /\ r.slot = slot /\ r.fallback = FALSE
      BY <3>1
    <3> QED BY <1>1, <3>2, <3>3
  <2> QED BY <2>1, <2>2
<1>3. Answered(council', r)
  BY <1>0, <1>2, AnsweredIs
<1>4. council'.result = r /\ council'.models = council.models /\ "executor" \in DOMAIN council'.roles
  BY <1>3 DEF Answered, CouncilShape
<1>5. /\ r.model = "none" <=> council'.models = <<>>
      /\ r.slot \in ToSet(council'.models) => r.model = r.slot
      /\ r.fallback => council'.models = <<>>
  BY <1>0, <1>2, <1>4, PickModelIs
<1>6. DeliberationSound'
  BY <1>2, <1>4, <1>5 DEF DeliberationSound, FusedSound
<1> QED BY <1>3, <1>6 DEF DeliberationInv, Answered, CouncilShape

\* A fusion is between the numbers that went in or the likeliest of the texts, and is refused only without any
\* confidence; a decision is the first option with the most votes unless an arbiter took it; an assignment has
\* a model if there is any, and the one named as its slot if there is: for any texts, confidences, thresholds
\* and lists of models, and however many outputs, votes and options there are.
THEOREM DeliberationIsSound == CouncilSpec => []DeliberationSound
<1>1. CouncilInit => DeliberationInv
  BY CouncilStart
<1>2. DeliberationInv /\ [CouncilNext]_council => DeliberationInv'
  <2> SUFFICES ASSUME DeliberationInv, [CouncilNext]_council PROVE DeliberationInv'
    OBVIOUS
  <2>1. CASE CouncilNext
    BY <2>1, ArrivesKeeps, FuseKeeps, ReachKeeps, RolesKeep, AssignKeeps DEF CouncilNext
  <2>2. CASE UNCHANGED council
    BY <2>2 DEF DeliberationInv, CouncilShape, DeliberationSound, FusedSound
  <2> QED BY <2>1, <2>2
<1>3. DeliberationInv => DeliberationSound
  BY DEF DeliberationInv
<1> QED BY <1>1, <1>2, <1>3, PTL DEF CouncilSpec

-----------------------------------------------------------------------------
(* The programs together: the one that runs takes its own steps and no other *)
(* program's variables change, so what was proved of each by itself is true  *)
(* of the installation.                                                      *)

Learns == Init /\ [][Next]_vars

\* The programs that always hold their first state are at a step of theirs or stand still.
LEMMA RunsOne ==
  ASSUME [ProgramsNext]_programVars
  PROVE /\ program' = program
        /\ IF Running("learner") THEN [Next]_vars ELSE UNCHANGED vars
        /\ [EvolutionNext]_evo /\ [DistillNext]_distill /\ [TrainNext]_train /\ [GraphNext]_graph
        /\ IF Running("optimize") THEN [ParetoNext]_moo ELSE UNCHANGED moo
        /\ IF Running("loop") THEN [LoopNext]_loopVars ELSE UNCHANGED loopVars
        /\ IF Running("skills") THEN [SkillNext]_skillVars ELSE UNCHANGED skillVars
        /\ IF Running("agents") THEN [AgentsNext]_agentVars ELSE UNCHANGED agentVars
        /\ IF Running("unknowns") THEN [UnknownsNext]_unknownsVars ELSE UNCHANGED unknownsVars
        /\ IF Running("council") THEN [CouncilNext]_council ELSE UNCHANGED council
<1>1. CASE UNCHANGED programVars
  BY <1>1 DEF programVars
<1>2. CASE Running("learner") /\ Next /\ Frame
  BY <1>2 DEF Frame, Owns, Running
<1>3. CASE Running("soak") /\ SoakNext /\ Frame
  BY <1>3 DEF Frame, Owns, Running
<1>4. CASE Running("evolution") /\ EvolutionNext /\ Frame
  BY <1>4 DEF Frame, Owns, Running
<1>5. CASE Running("optimize") /\ ParetoNext /\ Frame
  BY <1>5 DEF Frame, Owns, Running
<1>6. CASE Running("distill") /\ DistillNext /\ Frame
  BY <1>6 DEF Frame, Owns, Running
<1>7. CASE Running("train") /\ TrainNext /\ Frame
  BY <1>7 DEF Frame, Owns, Running
<1>8. CASE Running("loop") /\ LoopNext /\ Frame
  BY <1>8 DEF Frame, Owns, Running
<1>9. CASE Running("skills") /\ SkillNext /\ Frame
  BY <1>9 DEF Frame, Owns, Running
<1>10. CASE Running("agents") /\ AgentsNext /\ Frame
  BY <1>10 DEF Frame, Owns, Running
<1>11. CASE Running("unknowns") /\ UnknownsNext /\ Frame
  BY <1>11 DEF Frame, Owns, Running
<1>12. CASE Running("graph") /\ GraphNext /\ Frame
  BY <1>12 DEF Frame, Owns, Running
<1>13. CASE Running("council") /\ CouncilNext /\ Frame
  BY <1>13 DEF Frame, Owns, Running
<1> QED BY <1>1, <1>2, <1>3, <1>4, <1>5, <1>6, <1>7, <1>8, <1>9, <1>10, <1>11, <1>12, <1>13 DEF ProgramsNext

\* A program that does not run keeps what it starts with.
LEMMA IdleStays ==
  /\ LearnerIdle /\ UNCHANGED vars => LearnerIdle'
  /\ ParetoIdle /\ UNCHANGED moo => ParetoIdle'
  /\ LoopIdle /\ UNCHANGED loopVars => LoopIdle'
  /\ SkillIdle /\ UNCHANGED skillVars => SkillIdle'
  /\ NoAgents /\ UNCHANGED agentVars => NoAgents'
  /\ UnknownsIdle /\ UNCHANGED unknownsVars => UnknownsIdle'
  /\ CouncilIdle /\ UNCHANGED council => CouncilIdle'
<1>1. LearnerIdle /\ UNCHANGED vars => LearnerIdle'
  BY DEF LearnerIdle, vars
<1>2. ParetoIdle /\ UNCHANGED moo => ParetoIdle'
  BY DEF ParetoIdle
<1>3. LoopIdle /\ UNCHANGED loopVars => LoopIdle'
  BY DEF LoopIdle, LoopFresh, loopVars
<1>4. SkillIdle /\ UNCHANGED skillVars => SkillIdle'
  BY DEF SkillIdle, skillVars
<1>5. NoAgents /\ UNCHANGED agentVars => NoAgents'
  BY DEF NoAgents, agentVars
<1>6. UnknownsIdle /\ UNCHANGED unknownsVars => UnknownsIdle'
  BY DEF UnknownsIdle, UnknownsFresh, unknownsVars
<1>7. CouncilIdle /\ UNCHANGED council => CouncilIdle'
  BY DEF CouncilIdle
<1> QED BY <1>1, <1>2, <1>3, <1>4, <1>5, <1>6, <1>7

\* Of a run, the part of one program p is its own behaviour, and when p does not run its variables keep
\* the value they start with: no program writes what another one holds.
THEOREM ProgramsCompose ==
  ProgramsSpec =>
    /\ EvolutionSpec /\ DistillSpec /\ TrainSpec /\ GraphSpec
    /\ (Running("learner") => Learns) /\ (~Running("learner") => []LearnerIdle)
    /\ (Running("optimize") => ParetoSpec) /\ (~Running("optimize") => []ParetoIdle)
    /\ (Running("loop") => LoopSpec) /\ (~Running("loop") => []LoopIdle)
    /\ (Running("skills") => SkillSpec) /\ (~Running("skills") => []SkillIdle)
    /\ (Running("agents") => AgentsSpec) /\ (~Running("agents") => []NoAgents)
    /\ (Running("unknowns") => UnknownsSpec) /\ (~Running("unknowns") => []UnknownsIdle)
    /\ (Running("council") => CouncilSpec) /\ (~Running("council") => []CouncilIdle)
<1>1. ProgramsSpec => EvolutionSpec /\ DistillSpec /\ TrainSpec /\ GraphSpec
  <2>1. ProgramsInit => EvolutionInit /\ DistillInit /\ TrainInit /\ GraphInit
    BY DEF ProgramsInit
  <2>2. [ProgramsNext]_programVars => [EvolutionNext]_evo /\ [DistillNext]_distill /\ [TrainNext]_train /\ [GraphNext]_graph
    BY RunsOne
  <2> QED BY <2>1, <2>2, PTL DEF ProgramsSpec, EvolutionSpec, DistillSpec, TrainSpec, GraphSpec
<1>2. ProgramsSpec => (Running("learner") => Learns) /\ (~Running("learner") => []LearnerIdle)
  <2>1. ProgramsInit => (Running("learner") => Init) /\ (~Running("learner") => LearnerIdle)
    BY DEF ProgramsInit
  <2>2. [ProgramsNext]_programVars => (Running("learner") => [Next]_vars) /\ (~Running("learner") => UNCHANGED vars)
    BY RunsOne
  <2>3. LearnerIdle /\ UNCHANGED vars => LearnerIdle'
    BY IdleStays
  <2>4. [ProgramsNext]_programVars => (Running("learner")' <=> Running("learner"))
    BY RunsOne DEF Running
  <2> QED BY <2>1, <2>2, <2>3, <2>4, PTL DEF ProgramsSpec, Learns
<1>3. ProgramsSpec => (Running("optimize") => ParetoSpec) /\ (~Running("optimize") => []ParetoIdle)
  <2>1. ProgramsInit => (Running("optimize") => ParetoInit) /\ (~Running("optimize") => ParetoIdle)
    BY DEF ProgramsInit
  <2>2. [ProgramsNext]_programVars => (Running("optimize") => [ParetoNext]_moo) /\ (~Running("optimize") => UNCHANGED moo)
    BY RunsOne
  <2>3. ParetoIdle /\ UNCHANGED moo => ParetoIdle'
    BY IdleStays
  <2>4. [ProgramsNext]_programVars => (Running("optimize")' <=> Running("optimize"))
    BY RunsOne DEF Running
  <2> QED BY <2>1, <2>2, <2>3, <2>4, PTL DEF ProgramsSpec, ParetoSpec
<1>4. ProgramsSpec => (Running("loop") => LoopSpec) /\ (~Running("loop") => []LoopIdle)
  <2>1. ProgramsInit => (Running("loop") => LoopInit) /\ (~Running("loop") => LoopIdle)
    BY DEF ProgramsInit
  <2>2. [ProgramsNext]_programVars => (Running("loop") => [LoopNext]_loopVars) /\ (~Running("loop") => UNCHANGED loopVars)
    BY RunsOne
  <2>3. LoopIdle /\ UNCHANGED loopVars => LoopIdle'
    BY IdleStays
  <2>4. [ProgramsNext]_programVars => (Running("loop")' <=> Running("loop"))
    BY RunsOne DEF Running
  <2> QED BY <2>1, <2>2, <2>3, <2>4, PTL DEF ProgramsSpec, LoopSpec
<1>5. ProgramsSpec => (Running("skills") => SkillSpec) /\ (~Running("skills") => []SkillIdle)
  <2>1. ProgramsInit => (Running("skills") => SkillInit) /\ (~Running("skills") => SkillIdle)
    BY DEF ProgramsInit
  <2>2. [ProgramsNext]_programVars => (Running("skills") => [SkillNext]_skillVars) /\ (~Running("skills") => UNCHANGED skillVars)
    BY RunsOne
  <2>3. SkillIdle /\ UNCHANGED skillVars => SkillIdle'
    BY IdleStays
  <2>4. [ProgramsNext]_programVars => (Running("skills")' <=> Running("skills"))
    BY RunsOne DEF Running
  <2> QED BY <2>1, <2>2, <2>3, <2>4, PTL DEF ProgramsSpec, SkillSpec
<1>6. ProgramsSpec => (Running("agents") => AgentsSpec) /\ (~Running("agents") => []NoAgents)
  <2>1. ProgramsInit => (Running("agents") => AgentsInit) /\ (~Running("agents") => NoAgents)
    BY DEF ProgramsInit
  <2>2. [ProgramsNext]_programVars => (Running("agents") => [AgentsNext]_agentVars) /\ (~Running("agents") => UNCHANGED agentVars)
    BY RunsOne
  <2>3. NoAgents /\ UNCHANGED agentVars => NoAgents'
    BY IdleStays
  <2>4. [ProgramsNext]_programVars => (Running("agents")' <=> Running("agents"))
    BY RunsOne DEF Running
  <2> QED BY <2>1, <2>2, <2>3, <2>4, PTL DEF ProgramsSpec, AgentsSpec
<1>7. ProgramsSpec => (Running("unknowns") => UnknownsSpec) /\ (~Running("unknowns") => []UnknownsIdle)
  <2>1. ProgramsInit => (Running("unknowns") => UnknownsInit) /\ (~Running("unknowns") => UnknownsIdle)
    BY DEF ProgramsInit
  <2>2. [ProgramsNext]_programVars => (Running("unknowns") => [UnknownsNext]_unknownsVars) /\ (~Running("unknowns") => UNCHANGED unknownsVars)
    BY RunsOne
  <2>3. UnknownsIdle /\ UNCHANGED unknownsVars => UnknownsIdle'
    BY IdleStays
  <2>4. [ProgramsNext]_programVars => (Running("unknowns")' <=> Running("unknowns"))
    BY RunsOne DEF Running
  <2> QED BY <2>1, <2>2, <2>3, <2>4, PTL DEF ProgramsSpec, UnknownsSpec
<1>8. ProgramsSpec => (Running("council") => CouncilSpec) /\ (~Running("council") => []CouncilIdle)
  <2>1. ProgramsInit => (Running("council") => CouncilInit) /\ (~Running("council") => CouncilIdle)
    BY DEF ProgramsInit
  <2>2. [ProgramsNext]_programVars => (Running("council") => [CouncilNext]_council) /\ (~Running("council") => UNCHANGED council)
    BY RunsOne
  <2>3. CouncilIdle /\ UNCHANGED council => CouncilIdle'
    BY IdleStays
  <2>4. [ProgramsNext]_programVars => (Running("council")' <=> Running("council"))
    BY RunsOne DEF Running
  <2> QED BY <2>1, <2>2, <2>3, <2>4, PTL DEF ProgramsSpec, CouncilSpec
<1> QED BY <1>1, <1>2, <1>3, <1>4, <1>5, <1>6, <1>7, <1>8

\* A program that does not run has nothing wrong in it.
LEMMA IdleIsSound ==
  /\ LearnerIdle => LearnedOnce
  /\ ParetoIdle => FrontsPeel
  /\ LoopIdle => LoopSound
  /\ SkillIdle => PopulationSound
  /\ NoAgents => AgentsSound
  /\ UnknownsIdle => UnknownsKept
  /\ CouncilIdle => DeliberationSound
<1>1. LearnerIdle => LearnedOnce
  BY LearnerAssumption, StoreAssumption DEF LearnerIdle, LearnedOnce, EmptyStore, Total
<1>2. ParetoIdle => FrontsPeel
  <2> SUFFICES ASSUME ParetoIdle PROVE FrontsPeel
    OBVIOUS
  <2>1. Population(moo.from)
    BY DEF ParetoIdle, Population
  <2>2. Elitist
    BY DEF ParetoIdle, Elitist
  <2> QED BY <2>1, <2>2, FrontsPeeled DEF FrontsPeel
<1>3. LoopIdle => LoopSound
  <2> SUFFICES ASSUME LoopIdle PROVE LoopSound
    OBVIOUS
  <2>1. memory.entries = <<>> /\ mining.records = <<>> /\ harness.history = <<>> /\ loop.ended = {}
    BY DEF LoopIdle, LoopFresh, Unrun, Unmined
  <2>2. CyclesOnce
    BY <2>1 DEF CyclesOnce
  <2>3. MetaSound
    BY <2>1 DEF MetaSound
  <2> QED BY <2>2, <2>3 DEF LoopSound
<1>4. SkillIdle => PopulationSound
  <2> SUFFICES ASSUME SkillIdle PROVE PopulationSound
    OBVIOUS
  <2>1. /\ pool.population = <<>> /\ pool.feedback = {} /\ pool.planner = 0 /\ pool.executor = 0
        /\ pool.rejected = 0 /\ SkillFiles = {}
    BY DEF SkillIdle, Pool, SkillFiles
  <2>2. Started = 0 /\ Rejections = 0 /\ Ahead = 0
    <3>1. Prs = {}
      BY <2>1 DEF Prs
    <3>2. {p \in Prs : worker[p[1]].prs[p[2]] = "rejected"} = {}
      BY <3>1
    <3>3. {f \in SkillFiles : worker[f].pc \notin {"queued", "ready", "done"}} = {}
      BY <2>1
    <3> QED BY <3>1, <3>2, <3>3, FS_EmptySet DEF Started, Rejections, Ahead
  <2>3. Len(pool.population) <= PopulationCap + Cardinality({f \in SkillFiles : worker[f].pc \in {"pruning", "replacing"}})
    <3>1. {f \in SkillFiles : worker[f].pc \in {"pruning", "replacing"}} = {}
      BY <2>1
    <3>2. Cardinality({f \in SkillFiles : worker[f].pc \in {"pruning", "replacing"}}) = 0
      BY <3>1, FS_EmptySet, Zenon
    <3>3. Len(pool.population) = 0 /\ PopulationCap \in Nat
      BY <2>1, SkillAssumption
    <3> QED BY <3>2, <3>3
  <2> QED BY <2>1, <2>2, <2>3 DEF PopulationSound
<1>5. NoAgents => AgentsSound
  <2> SUFFICES ASSUME NoAgents PROVE AgentsSound
    OBVIOUS
  <2>1. swe \in Repairs /\ Repaired(swe) /\ ScriptInv
    BY NewRepair, NewScriptIsSound DEF NoAgents
  <2>2. StepsInv
    BY NoSteps DEF NoAgents
  <2> QED BY <2>1, <2>2, AgentsInvSound DEF AgentsInv
<1>6. UnknownsIdle => UnknownsKept
  BY DEF UnknownsIdle, UnknownsFresh, UnknownsKept
<1>7. CouncilIdle => DeliberationSound
  BY DEF CouncilIdle, Council, DeliberationSound, FusedSound, Nothing, Builtin
<1> QED BY <1>1, <1>2, <1>3, <1>4, <1>5, <1>6, <1>7

\* What the run of the programs checks on small instances, for every value of the constants and
\* whichever program an installation runs, through crashes, half-written files and failures: the stack
\* of versions, files learned once, samples and epochs, fronts, loops, populations, agents, unknowns
\* and deliberations, in the composition that is checked (GraphSound is GraphIsSound of ProgramsCompose).
THEOREM ProgramsAreSound ==
  ProgramsSpec =>
    /\ [](/\ VersionStack /\ LearnedOnce /\ SamplesConserved /\ NoEpochSkipped /\ FrontsPeel
          /\ LoopSound /\ PopulationSound /\ AgentsSound /\ UnknownsKept /\ DeliberationSound)
    /\ GoldenKept
<1>1. ProgramsSpec => []VersionStack /\ []SamplesConserved /\ []NoEpochSkipped
  BY ProgramsCompose, VersionsStacked, NoSampleLost, EpochsInOrder
<1>2. ProgramsSpec => []LearnedOnce
  <2>1. LearnerInv => LearnedOnce
    BY LearnerAssumption DEF LearnerInv, LearnerTyped, Learning, LearnedOnce
  <2>2. LearnerIdle => LearnedOnce
    BY IdleIsSound
  <2>3. ProgramsSpec => (Running("learner") => Learns) /\ (~Running("learner") => []LearnerIdle)
    BY ProgramsCompose
  <2> QED BY <2>1, <2>2, <2>3, LearnerStart, LearnerStep, PTL DEF Learns
<1>3. ProgramsSpec => []FrontsPeel
  <2>1. ParetoIdle => FrontsPeel
    BY IdleIsSound
  <2>2. ProgramsSpec => (Running("optimize") => ParetoSpec) /\ (~Running("optimize") => []ParetoIdle)
    BY ProgramsCompose
  <2> QED BY <2>1, <2>2, FrontsArePeeled, PTL
<1>4. ProgramsSpec => []LoopSound
  <2>1. LoopIdle => LoopSound
    BY IdleIsSound
  <2>2. ProgramsSpec => (Running("loop") => LoopSpec) /\ (~Running("loop") => []LoopIdle)
    BY ProgramsCompose
  <2> QED BY <2>1, <2>2, LoopIsSound, PTL
<1>5. ProgramsSpec => []PopulationSound
  <2>1. SkillIdle => PopulationSound
    BY IdleIsSound
  <2>2. ProgramsSpec => (Running("skills") => SkillSpec) /\ (~Running("skills") => []SkillIdle)
    BY ProgramsCompose
  <2> QED BY <2>1, <2>2, PopulationIsSound, PTL
<1>6. ProgramsSpec => []AgentsSound
  <2>1. NoAgents => AgentsSound
    BY IdleIsSound
  <2>2. ProgramsSpec => (Running("agents") => AgentsSpec) /\ (~Running("agents") => []NoAgents)
    BY ProgramsCompose
  <2> QED BY <2>1, <2>2, AgentsAreSound, PTL
<1>7. ProgramsSpec => []UnknownsKept
  <2>1. UnknownsIdle => UnknownsKept
    BY IdleIsSound
  <2>2. ProgramsSpec => (Running("unknowns") => UnknownsSpec) /\ (~Running("unknowns") => []UnknownsIdle)
    BY ProgramsCompose
  <2> QED BY <2>1, <2>2, UnknownsAreKept, PTL
<1>8. ProgramsSpec => []DeliberationSound
  <2>1. CouncilIdle => DeliberationSound
    BY IdleIsSound
  <2>2. ProgramsSpec => (Running("council") => CouncilSpec) /\ (~Running("council") => []CouncilIdle)
    BY ProgramsCompose
  <2> QED BY <2>1, <2>2, DeliberationIsSound, PTL
<1>9. ProgramsSpec => GoldenKept
  <2>1. LearnerIdle => [pc # "stopped" /\ pc' # "stopped" => store'.golden >= store.golden]_vars
    BY DEF LearnerIdle
  <2>2. ProgramsSpec => (Running("learner") => Learns) /\ (~Running("learner") => []LearnerIdle)
    BY ProgramsCompose
  <2> QED BY <2>1, <2>2, GoldenSteps, LearnerStart, LearnerStep, PTL DEF Learns, GoldenKept
<1> QED BY <1>1, <1>2, <1>3, <1>4, <1>5, <1>6, <1>7, <1>8, <1>9, PTL
=============================================================================
