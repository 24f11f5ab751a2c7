---------------------------- MODULE ArenaProofs ----------------------------
(***************************************************************************)
(* For every set of names, warm-up and length of play: the arena has one   *)
(* champion, a rollback goes back to the one replaced last, and what is    *)
(* deployed is the champion.                                               *)
(***************************************************************************)
EXTENDS Arena, WellFoundedInduction, TLAPS

USE ArenaAssumption

\* The champion before this one is the retired model that was retired last,
\* strictly: that is what makes the rollback's choice the right one.
PreviousIsLast ==
  /\ previous = NoName => Retired = {}
  /\ previous # NoName =>
       /\ previous \in Retired
       /\ \A m \in Retired \ {previous} : retiredAt[m] < retiredAt[previous]

IInv == /\ ArenaTypeOK
        /\ matches # << >> => champion # NoName
        /\ LiveIsChampion
        /\ OneChampion
        /\ disciplined => PreviousIsLast

-----------------------------------------------------------------------------
(* The choice of the rollback.                                             *)

\* The least number principle, from the well-foundedness of < on Nat.
LEMMA LeastNatural ==
  ASSUME NEW T \in SUBSET Nat, T # {}
  PROVE  \E x \in T : \A y \in T : x <= y
<1> DEFINE R == {ss \in Nat \X Nat : ss[1] < ss[2]}
<1>1. R = OpToRel(<, Nat)
  BY DEF OpToRel
<1>2. IsWellFoundedOn(R, Nat)
  BY <1>1, NatLessThanWellFounded
<1>3. PICK x \in T : \A y \in T : ~(<<y, x>> \in R)
  BY <1>2, WFMin
<1>4. ASSUME NEW y \in T PROVE x <= y
  <2>1. x \in Nat /\ y \in Nat
    OBVIOUS
  <2>2. <<y, x>> \notin R
    BY <1>3
  <2> QED BY <2>1, <2>2
<1> QED BY <1>4

\* Where a model is retired there is one that was retired last.
LEMMA TargetIsRetired ==
  ASSUME ArenaTypeOK, Retired # {}
  PROVE  /\ RollbackTarget \in Retired
         /\ \A m \in Retired : retiredAt[m] <= retiredAt[RollbackTarget]
<1> DEFINE age(n) == Retirements - retiredAt[n]
           Ages == {age(n) : n \in Retired}
<1>1. Retired \subseteq Names /\ Retirements \in Nat
  BY DEF Retired, ArenaTypeOK, Retirements
<1>2. \A n \in Retired : retiredAt[n] \in 0..Retirements
  BY <1>1 DEF ArenaTypeOK
<1>3. Ages \in SUBSET Nat /\ Ages # {}
  BY <1>1, <1>2
<1>4. PICK a \in Ages : \A b \in Ages : a <= b
  BY <1>3, LeastNatural
<1>5. PICK n \in Retired : a = age(n)
  BY <1>4
<1>6. \A m \in Retired : retiredAt[m] <= retiredAt[n]
  <2> TAKE m \in Retired
  <2>1. age(n) <= age(m)
    BY <1>4, <1>5
  <2> QED BY <1>1, <1>2, <2>1
<1> QED BY <1>6 DEF RollbackTarget

\* Retired last, strictly, is retired last: there is no other choice.
LEMMA TargetIsPrevious ==
  ASSUME ArenaTypeOK, PreviousIsLast, previous # NoName
  PROVE  Retired # {} /\ RollbackTarget = previous
<1>1. previous \in Retired /\ previous \in Names
  BY DEF PreviousIsLast, Retired
<1>2. RollbackTarget \in Retired /\ retiredAt[previous] <= retiredAt[RollbackTarget]
  BY <1>1, TargetIsRetired
<1>3. \A m \in Retired : retiredAt[m] \in Nat
  BY DEF ArenaTypeOK, Retired, Retirements
<1>4. ~(retiredAt[RollbackTarget] < retiredAt[previous])
  BY <1>1, <1>2, <1>3
<1> QED BY <1>1, <1>2, <1>4 DEF PreviousIsLast

-----------------------------------------------------------------------------
(* Types.                                                                  *)

LEMMA InitType == ArenaInit => ArenaTypeOK
<1> SUFFICES ASSUME ArenaInit PROVE ArenaTypeOK
  OBVIOUS
<1>1. /\ status \in [Names -> Statuses \cup {"absent"}]
      /\ retiredAt \in [Names -> 0..Retirements]
  BY DEF ArenaInit, Retirements
<1>2. \A R : matches \in Seq(R)
  BY DEF ArenaInit
<1> QED BY <1>1, <1>2 DEF ArenaInit, ArenaTypeOK

\* One champion goes and another comes: the types of what that changes.
LEMMA ReplacedType ==
  ASSUME ArenaTypeOK, NEW old \in Names \cup {NoName}, NEW new \in Names, Replaced(old, new)
  PROVE  /\ status' \in [Names -> Statuses \cup {"absent"}]
         /\ retiredAt' \in [Names -> 0..(Retirements + 1)]
         /\ champion' \in Names
         /\ previous' \in Names \cup {NoName}
<1>1. Retirements \in Nat
  BY DEF ArenaTypeOK, Retirements
<1>2. retiredAt \in [Names -> 0..(Retirements + 1)]
  BY <1>1 DEF ArenaTypeOK
<1>3. status' = [[status EXCEPT ![old] = "RETIRED"] EXCEPT ![new] = "CHAMPION"]
  BY DEF Replaced
<1>4. [status EXCEPT ![old] = "RETIRED"] \in [Names -> Statuses \cup {"absent"}]
  BY DEF ArenaTypeOK, Statuses
<1>5. status' \in [Names -> Statuses \cup {"absent"}]
  BY <1>3, <1>4 DEF Statuses
<1>6. retiredAt' \in [Names -> 0..(Retirements + 1)]
  <2>1. retiredAt' = [retiredAt EXCEPT ![old] = Retirements + 1]
    BY DEF Replaced
  <2>2. Retirements + 1 \in 0..(Retirements + 1)
    BY <1>1
  <2> QED BY <1>2, <2>1, <2>2
<1> QED BY <1>5, <1>6 DEF Replaced, ArenaTypeOK

LEMMA TypeStep == ArenaTypeOK /\ [ArenaNext]_arenaVars => ArenaTypeOK'
<1> SUFFICES ASSUME ArenaTypeOK, [ArenaNext]_arenaVars PROVE ArenaTypeOK'
  OBVIOUS
<1>1. ASSUME NEW n \in Names, NEW s \in {"CHAMPION", "CONTENDER"}, RegisterModel(n, s)
      PROVE  ArenaTypeOK'
  BY <1>1 DEF RegisterModel, ArenaTypeOK, Statuses, Retirements
<1>2. ASSUME NEW n \in Names, RunMatch(n) PROVE ArenaTypeOK'
  <2>1. champion \in Names
    BY <1>2 DEF RunMatch, MayPlay, ArenaTypeOK
  <2>2. /\ matches' \in Seq([champion : Names, challenger : Names,
                             winner : Names \cup {NoName}])
        /\ UNCHANGED <<rollbacks, disciplined>>
        /\ \/ PromoteChallenger(n)
           \/ UNCHANGED <<status, retiredAt, champion, previous, deployments, live, diverged>>
    BY <1>2, <2>1 DEF RunMatch, ArenaTypeOK
  <2>3. CASE /\ Replaced(champion, n)
             /\ deployments' = deployments + 1
             /\ live' = n /\ diverged' = FALSE
    <3>1. /\ status' \in [Names -> Statuses \cup {"absent"}]
          /\ retiredAt' \in [Names -> 0..(Retirements + 1)]
          /\ champion' \in Names /\ previous' \in Names \cup {NoName}
      BY <2>1, <2>3, ReplacedType
    <3>2. deployments' \in Nat /\ rollbacks' \in Nat /\ Retirements' = Retirements + 1
      BY <2>2, <2>3 DEF ArenaTypeOK, Retirements
    <3> QED BY <2>2, <2>3, <3>1, <3>2 DEF ArenaTypeOK
  <2>4. CASE UNCHANGED <<status, retiredAt, champion, previous, deployments, live, diverged>>
    BY <2>2, <2>4 DEF ArenaTypeOK, Retirements
  <2> QED BY <2>2, <2>3, <2>4 DEF PromoteChallenger
<1>3. ASSUME Rollback PROVE ArenaTypeOK'
  <2>1. RollbackTarget \in Names
    BY <1>3, TargetIsRetired DEF Rollback, Retired
  <2>2. champion \in Names \cup {NoName}
    BY DEF ArenaTypeOK
  <2>3. /\ Replaced(champion, RollbackTarget)
        /\ rollbacks' = rollbacks + 1
        /\ live' \in {live, RollbackTarget} /\ diverged' \in BOOLEAN
        /\ UNCHANGED <<matches, deployments, disciplined>>
    BY <1>3 DEF Rollback, ArenaTypeOK
  <2> QED BY <2>1, <2>2, <2>3, ReplacedType, SMTT(30) DEF ArenaTypeOK, Retirements
<1>4. CASE UNCHANGED arenaVars
  BY <1>4 DEF arenaVars, ArenaTypeOK, Retirements
<1> QED BY <1>1, <1>2, <1>3, <1>4 DEF ArenaNext

-----------------------------------------------------------------------------
(* The champion, the one before it, and what is deployed.                  *)

LEMMA InitIInv == ArenaInit => IInv
<1> SUFFICES ASSUME ArenaInit PROVE IInv
  OBVIOUS
<1>1. {n \in Names : status[n] = "CHAMPION"} = {} /\ Retired = {}
  BY DEF ArenaInit, Retired
<1> QED BY <1>1, InitType
        DEF ArenaInit, IInv, LiveIsChampion, OneChampion, PreviousIsLast

\* Where one champion is replaced by a registered model, there is one after it
\* as before, and it is the replaced one that was retired last.
LEMMA ReplacedKeeps ==
  ASSUME IInv, disciplined, champion \in Names, NEW new \in Names, Replaced(champion, new)
  PROVE  /\ {n \in Names : status'[n] = "CHAMPION"} = {champion'} \ {NoName}
         /\ PreviousIsLast'
<1> USE DEF IInv
<1>1. {n \in Names : status[n] = "CHAMPION"} = {champion}
  BY DEF OneChampion
<1>2. /\ champion' = new /\ new # NoName
      /\ \A n \in Names : status'[n] = IF n = new THEN "CHAMPION"
                                       ELSE IF n = champion THEN "RETIRED" ELSE status[n]
      /\ \A n \in Names : retiredAt'[n] = IF n = champion THEN Retirements + 1
                                          ELSE retiredAt[n]
      /\ previous' = IF champion = new THEN previous ELSE champion
  BY DEF Replaced, ArenaTypeOK
<1>3. {n \in Names : status'[n] = "CHAMPION"} = {champion'} \ {NoName}
  BY <1>1, <1>2
<1>4. \A n \in Names : retiredAt[n] \in Nat /\ retiredAt[n] < Retirements + 1
  BY DEF ArenaTypeOK, Retirements
<1>5. CASE champion = new
  <2>1. Retired' = Retired /\ champion \notin Retired
    BY <1>1, <1>2, <1>5 DEF Retired
  <2>2. \A m \in Retired : m \in Names /\ retiredAt'[m] = retiredAt[m]
    BY <1>2, <2>1 DEF Retired
  <2> QED BY <1>2, <1>3, <1>5, <2>1, <2>2 DEF PreviousIsLast
<1>6. CASE champion # new
  <2>1. Retired' = (Retired \ {new}) \cup {champion} /\ champion \notin Retired
    BY <1>1, <1>2, <1>6 DEF Retired
  <2>2. \A m \in Retired' \ {champion} : m \in Names /\ retiredAt'[m] < retiredAt'[champion]
    BY <1>2, <1>4, <2>1 DEF Retired
  <2>3. previous' = champion /\ previous' # NoName
    BY <1>2, <1>6
  <2> QED BY <1>3, <2>1, <2>2, <2>3 DEF PreviousIsLast
<1> QED BY <1>5, <1>6

LEMMA Step == IInv /\ [ArenaNext]_arenaVars => IInv'
<1> SUFFICES ASSUME IInv, [ArenaNext]_arenaVars
             PROVE  /\ (matches # << >> => champion # NoName)'
                    /\ LiveIsChampion' /\ OneChampion'
                    /\ (disciplined => PreviousIsLast)'
  BY TypeStep DEF IInv
<1> DEFINE Goal == /\ matches' # << >> => champion' # NoName
                   /\ LiveIsChampion' /\ OneChampion'
                   /\ disciplined' => PreviousIsLast'
<1>0. ArenaTypeOK /\ ArenaTypeOK'
  BY TypeStep DEF IInv
<1> USE DEF IInv
<1>1. ASSUME NEW n \in Names, NEW s \in {"CHAMPION", "CONTENDER"}, RegisterModel(n, s)
      PROVE  Goal
  <2>1. /\ status' = [status EXCEPT ![n] = s]
        /\ retiredAt' = [retiredAt EXCEPT ![n] = 0]
        /\ champion' = IF s = "CHAMPION" THEN n ELSE champion
        /\ diverged' = (diverged \/ s = "CHAMPION")
        /\ UNCHANGED <<matches, live, previous>>
    BY <1>1 DEF RegisterModel
  <2>2. (matches' # << >> => champion' # NoName) /\ LiveIsChampion'
    BY <2>1 DEF LiveIsChampion
  <2>3. ASSUME disciplined'
        PROVE  {m \in Names : status'[m] = "CHAMPION"} = {champion'} \ {NoName}
               /\ PreviousIsLast'
    <3>1. disciplined /\ status[n] = "absent" /\ (s = "CHAMPION" => champion = NoName)
      BY <1>1, <2>3 DEF RegisterModel, Registered
    <3>2. {m \in Names : status[m] = "CHAMPION"} = {champion} \ {NoName}
      BY <3>1 DEF OneChampion
    <3>3. \A m \in Names : status'[m] = IF m = n THEN s ELSE status[m]
      BY <1>0, <2>1 DEF ArenaTypeOK
    <3>4. {m \in Names : status'[m] = "CHAMPION"} = {champion'} \ {NoName}
      BY <2>1, <3>1, <3>2, <3>3
    <3>5. Retired' = Retired /\ n \notin Retired
      BY <3>1, <3>3 DEF Retired
    <3>6. \A m \in Retired : retiredAt'[m] = retiredAt[m]
      BY <1>0, <2>1, <3>5 DEF ArenaTypeOK, Retired
    <3>7. PreviousIsLast'
      BY <2>1, <3>1, <3>5, <3>6 DEF PreviousIsLast
    <3> QED BY <3>4, <3>7
  <2> QED BY <2>2, <2>3 DEF OneChampion
<1>a. ASSUME UNCHANGED <<status, retiredAt, champion, previous, live, diverged, disciplined>>,
             matches' # << >> => champion # NoName
      PROVE  Goal
  BY <1>a DEF LiveIsChampion, OneChampion, PreviousIsLast, Retired
<1>2. ASSUME NEW n \in Names, RunMatch(n) PROVE Goal
  <2>1. champion \in Names /\ champion # NoName
    BY <1>0, <1>2 DEF RunMatch, MayPlay, ArenaTypeOK
  <2>2. UNCHANGED disciplined
    BY <1>2 DEF RunMatch
  <2>3. CASE UNCHANGED <<status, retiredAt, champion, previous, deployments, live, diverged>>
    BY <1>a, <2>1, <2>2, <2>3
  <2>4. CASE Replaced(champion, n) /\ live' = n /\ diverged' = FALSE
    <3>1. champion' = n /\ n # NoName
      BY <2>4 DEF Replaced
    <3>2. LiveIsChampion'
      BY <2>4, <3>1 DEF LiveIsChampion
    <3>3. disciplined' => OneChampion' /\ PreviousIsLast'
      BY <2>1, <2>2, <2>4, ReplacedKeeps DEF OneChampion
    <3> QED BY <3>1, <3>2, <3>3 DEF OneChampion
  <2> QED BY <1>2, <2>3, <2>4 DEF RunMatch, PromoteChallenger
<1>3. ASSUME Rollback PROVE Goal
  <2>1. champion \in Names
    BY <1>0, <1>3 DEF Rollback, ArenaTypeOK
  <2>2. RollbackTarget \in Names /\ RollbackTarget # NoName
    BY <1>0, <1>3, TargetIsRetired DEF Rollback, Retired
  <2>3. /\ Replaced(champion, RollbackTarget) /\ UNCHANGED disciplined
        /\ \/ live' = RollbackTarget /\ diverged' = FALSE
           \/ UNCHANGED live /\ diverged' = TRUE
    BY <1>3 DEF Rollback
  <2>4. champion' = RollbackTarget
    BY <2>3 DEF Replaced
  <2>5. LiveIsChampion'
    BY <2>3, <2>4 DEF LiveIsChampion
  <2>6. disciplined' => OneChampion' /\ PreviousIsLast'
    BY <2>1, <2>2, <2>3, ReplacedKeeps DEF OneChampion
  <2> QED BY <2>2, <2>4, <2>5, <2>6 DEF OneChampion
<1>4. ASSUME UNCHANGED arenaVars PROVE Goal
  BY <1>4, <1>a DEF arenaVars
<1> HIDE DEF Goal
<1>5. Goal
  BY <1>1, <1>2, <1>3, <1>4 DEF ArenaNext
<1> QED BY <1>5 DEF Goal

\* Types are kept, whatever is registered and matched.
THEOREM TypeCorrect == ArenaSpec => []ArenaTypeOK
<1> QED BY InitType, TypeStep, PTL DEF ArenaSpec

\* The champion of _champion is the one model whose status says so, for every
\* set of names and however long they play, promotions that fail and rollbacks
\* included, as long as registrations are disciplined.
THEOREM OneChampionHolds == ArenaSpec => []OneChampion
<1>1. IInv => OneChampion
  BY DEF IInv
<1> QED BY <1>1, InitIInv, Step, PTL DEF ArenaSpec

\* A rollback goes back to the champion replaced last, and has one to go back
\* to as soon as any was replaced.
THEOREM RollbackIsRight == ArenaSpec => []RollsBackToPrevious
<1>1. IInv => RollsBackToPrevious
  <2> SUFFICES ASSUME IInv, disciplined
               PROVE  /\ previous # NoName => Retired # {} /\ RollbackTarget = previous
                      /\ previous = NoName => Retired = {}
    BY DEF RollsBackToPrevious
  <2>1. ArenaTypeOK /\ PreviousIsLast
    BY DEF IInv
  <2> QED BY <2>1, TargetIsPrevious DEF PreviousIsLast
<1> QED BY <1>1, InitIInv, Step, PTL DEF ArenaSpec

\* What the callbacks have deployed last is the champion, from one callback
\* that succeeds to the next change of champion without one that does.
THEOREM LiveFollows == ArenaSpec => []LiveIsChampion
<1>1. IInv => LiveIsChampion
  BY DEF IInv
<1> QED BY <1>1, InitIInv, Step, PTL DEF ArenaSpec

=============================================================================
