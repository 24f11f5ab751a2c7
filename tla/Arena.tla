------------------------------- MODULE Arena -------------------------------
(***************************************************************************)
(* ChampionChallenger of zilli/training/champion_challenger.py: matches    *)
(* between the champion and a challenger, promotion, rollback, and what    *)
(* the deploy and rollback callbacks make of them outside.  Scores and the *)
(* bootstrap test are abstracted to the match's winner.                    *)
(*                                                                         *)
(* X_y, just above X, is X with a plausible bug (a mutant).                *)
(***************************************************************************)
EXTENDS Naturals, Sequences, FiniteSets

CONSTANTS Names,          \* the names models are registered under
          NoName,         \* None
          WarmupRounds,   \* warmup_rounds
          MaxMatches,     \* bound: matches
          MaxRollbacks    \* bound: rollbacks

ASSUME ArenaAssumption ==
  /\ IsFiniteSet(Names) /\ NoName \notin Names
  /\ WarmupRounds \in Nat /\ MaxMatches \in Nat /\ MaxRollbacks \in Nat

VARIABLES status,        \* ArenaModel.status, "absent" when not registered
          retiredAt,     \* ArenaModel.retired_at: how many retirements before it
          champion,      \* _champion
          matches,       \* _matches
          deployments,   \* _deployments
          rollbacks,     \* _rollbacks
          live,          \* what the callbacks have last deployed
          previous,      \* history: the champion before this one
          disciplined,   \* history: no name registered twice, nor a champion
                         \* while there was one
          diverged       \* history: since the last callback that succeeded the champion
                         \* was registered, or changed though its callback failed

arenaVars == <<status, retiredAt, champion, matches, deployments, rollbacks,
          live, previous, disciplined, diverged>>

Statuses == {"CHAMPION", "CHALLENGER", "CONTENDER", "RETIRED"}
Registered == {n \in Names : status[n] # "absent"}
Retired == {n \in Names : status[n] = "RETIRED"}

ArenaInit ==
  /\ status = [n \in Names |-> "absent"]
  /\ retiredAt = [n \in Names |-> 0]
  /\ champion = NoName
  /\ matches = << >>
  /\ deployments = 0 /\ rollbacks = 0
  /\ live = NoName
  /\ previous = NoName
  /\ disciplined = TRUE /\ diverged = FALSE

\* register_model: a new record, whatever was there; a champion takes the
\* place of _champion, and the old one keeps its status. No callback is called.
RegisterModel(n, s) ==
  /\ status' = [status EXCEPT ![n] = s]
  /\ retiredAt' = [retiredAt EXCEPT ![n] = 0]
  /\ champion' = IF s = "CHAMPION" THEN n ELSE champion
  /\ diverged' = (diverged \/ s = "CHAMPION")
  /\ disciplined' = (/\ disciplined
                     /\ n \notin Registered
                     /\ s = "CHAMPION" => champion = NoName)
  /\ UNCHANGED <<matches, deployments, rollbacks, live, previous>>

-----------------------------------------------------------------------------
\* _should_deploy, after the match was appended: the reigning champion has had
\* its warm-up, and the challenger wins 60 % of its last five matches.
LastFive(ms) == SubSeq(ms, IF Len(ms) > 5 THEN Len(ms) - 4 ELSE 1, Len(ms))
Wins(ms, n) == Cardinality({i \in 1..Len(ms) : ms[i].winner = n})

ShouldDeploy(ms, challenger) ==
  LET defended == SelectSeq(ms, LAMBDA m : m.champion = champion)
      recent == LastFive(SelectSeq(ms, LAMBDA m : m.challenger = challenger))
  IN /\ Len(defended) >= WarmupRounds
     /\ Len(recent) >= 2 => Wins(recent, challenger) * 10 >= Len(recent) * 6

Retirements == deployments + rollbacks

\* Who goes and who comes, in _promote_challenger and in rollback.  A champion
\* that challenged itself stays.
Replaced_KeepsStatus(old, new) ==
  /\ status' = [status EXCEPT ![new] = "CHAMPION"]
  /\ retiredAt' = [retiredAt EXCEPT ![old] = Retirements + 1]
  /\ champion' = new
  /\ previous' = IF old = new THEN previous ELSE old
Replaced(old, new) ==
  /\ status' = [[status EXCEPT ![old] = "RETIRED"] EXCEPT ![new] = "CHAMPION"]
  /\ retiredAt' = [retiredAt EXCEPT ![old] = Retirements + 1]
  /\ champion' = new
  /\ previous' = IF old = new THEN previous ELSE old

\* _promote_challenger: when the deploy callback raises nothing changes.
PromoteChallenger_Anyway(n) ==
  /\ Replaced(champion, n)
  /\ deployments' = deployments + 1
  /\ \/ live' = n /\ diverged' = FALSE
     \/ UNCHANGED <<live, diverged>>
PromoteChallenger(n) ==
  \/ /\ Replaced(champion, n)
     /\ deployments' = deployments + 1
     /\ live' = n /\ diverged' = FALSE
  \/ UNCHANGED <<status, retiredAt, champion, previous, deployments, live, diverged>>

\* The early returns of run_match.
MayPlay(challenger) == champion # NoName /\ challenger \in Registered

\* run_match: a draw unless the difference is significant; the champion may be
\* its own challenger.
RunMatch(challenger) ==
  /\ MayPlay(challenger)
  /\ Len(matches) < MaxMatches
  /\ \E winner \in {NoName, champion, challenger} :
       LET ms == Append(matches, [champion |-> champion, challenger |-> challenger,
                                  winner |-> winner])
       IN /\ matches' = ms
          /\ IF winner = challenger /\ ShouldDeploy(ms, challenger)
               THEN PromoteChallenger(challenger)
               ELSE UNCHANGED <<status, retiredAt, champion, previous, deployments, live, diverged>>
  /\ UNCHANGED <<rollbacks, disciplined>>

\* The model rollback goes back to: of the retired ones the last.
RollbackTarget_First ==
  CHOOSE n \in Retired : \A m \in Retired : retiredAt[m] >= retiredAt[n]
RollbackTarget ==
  CHOOSE n \in Retired : \A m \in Retired : retiredAt[m] <= retiredAt[n]

\* rollback: the champion is retired and the target takes over; what the
\* rollback callback raises is logged, the state stays changed.
Rollback ==
  /\ matches # << >>
  /\ Retired # {}
  /\ rollbacks < MaxRollbacks
  /\ Replaced(champion, RollbackTarget)
  /\ rollbacks' = rollbacks + 1
  /\ \/ live' = RollbackTarget /\ diverged' = FALSE
     \/ UNCHANGED live /\ diverged' = TRUE
  /\ UNCHANGED <<matches, deployments, disciplined>>

ArenaNext == \/ \E n \in Names, s \in {"CHAMPION", "CONTENDER"} : RegisterModel(n, s)
        \/ \E n \in Names : RunMatch(n)
        \/ Rollback

ArenaSpec == ArenaInit /\ [][ArenaNext]_arenaVars

-----------------------------------------------------------------------------
(* Properties.                                                             *)

ArenaTypeOK ==
  /\ status \in [Names -> Statuses \cup {"absent"}]
  /\ retiredAt \in [Names -> 0..Retirements]
  /\ champion \in Names \cup {NoName}
  /\ matches \in Seq([champion : Names, challenger : Names, winner : Names \cup {NoName}])
  /\ deployments \in Nat /\ rollbacks \in Nat
  /\ live \in Names \cup {NoName} /\ previous \in Names \cup {NoName}
  /\ disciplined \in BOOLEAN /\ diverged \in BOOLEAN

\* The pointer and the statuses agree: through promotions that fail half way,
\* rollbacks and matches of the champion against itself, the champion is the
\* one model whose status says so.
OneChampion ==
  disciplined => {n \in Names : status[n] = "CHAMPION"} = {champion} \ {NoName}

\* A rollback goes back to the champion that was replaced last, not to an
\* older one; there is one as soon as any champion was replaced.
RollsBackToPrevious ==
  disciplined =>
    /\ previous # NoName => Retired # {} /\ RollbackTarget = previous
    /\ previous = NoName => Retired = {}

\* What the callbacks have deployed last is the champion, from one callback
\* that succeeds to the next champion that is registered without a callback or
\* rolled back to with one that fails: a deploy callback that raises leaves
\* both as they were (champion_challenger.py:234).
LiveIsChampion == ~diverged => live = champion
=============================================================================
