-------------------------- MODULE ContinuousLearner --------------------------
(***************************************************************************)
(* ContinuousLearner.run (zilli/learner/continuous_learner.py) over the    *)
(* replay store.  In each cycle it lists the production files, reads them  *)
(* one by one in a thread, adds their trajectories to the store, triggers  *)
(* a training callback, and moves the files to the archive.  Producers     *)
(* write files meanwhile, in place or by renaming; nothing but the files   *)
(* survives a crash.  Files are numbered in the order of their names, and  *)
(* names are not used again.                                               *)
(***************************************************************************)
EXTENDS TrajectoryStore, SequencesExt

CONSTANTS NumFiles,      \* production files
          Contents,      \* what a file may hold: sequences of entries, or Undecodable
          WideFiles,     \* those with characters of more than one byte
          SftThreshold,  \* sft_threshold
          MaxMishaps     \* failures of the file system in one life of the process

\* Bytes that are not UTF-8: an exception that the reading does not expect.
Undecodable == <<"undecodable">>

ASSUME LearnerAssumption ==
  /\ NumFiles \in Nat /\ WideFiles \subseteq 1..NumFiles /\ SftThreshold \in Nat /\ MaxMishaps \in Nat
  /\ Contents \subseteq Seq(Good \cup {"short", "poison"}) \cup {Undecodable}

VARIABLES content,  \* file -> what it holds when it is complete
          disk,     \* file -> where it is
          store,    \* the replay store
          pc,       \* what run() awaits
          running,  \* _running
          toRead,   \* files of the listing that are still to be read
          got,      \* processed_files
          pending,  \* new_trajectories not yet added: <<file, position in it>>
          \* history
          copies,   \* file -> times it was added to the store of this life
          mishaps,  \* cycles that failed and files not moved, in this life
          learned   \* files that were added as a whole, in any life

vars == <<content, disk, store, pc, running, toRead, got, pending, copies, mishaps, learned>>

Files == 1..NumFiles

Init ==
  /\ content \in [Files -> Contents]
  /\ disk = [f \in Files |-> "absent"]
  /\ store = EmptyStore /\ pc = "stopped" /\ running = FALSE
  /\ toRead = {} /\ got = {} /\ pending = <<>>
  /\ copies = [f \in Files |-> 0] /\ mishaps = 0 /\ learned = {}

-----------------------------------------------------------------------------
(* Producers.  A file written in place can be seen half written.            *)

StartWriting(f) ==
  /\ disk[f] = "absent"
  /\ disk' = [disk EXCEPT ![f] = "partial"]
  /\ UNCHANGED <<content, store, pc, running, toRead, got, pending, copies, mishaps, learned>>

FinishWriting(f) ==
  /\ disk[f] \in {"absent", "partial"}
  /\ disk' = [disk EXCEPT ![f] = "complete"]
  /\ UNCHANGED <<content, store, pc, running, toRead, got, pending, copies, mishaps, learned>>

-----------------------------------------------------------------------------
(* The process: it starts, is asked to stop, or dies.                       *)

Start ==
  /\ pc = "stopped"
  /\ pc' = "top" /\ running' = TRUE
  /\ UNCHANGED <<content, disk, store, toRead, got, pending, copies, mishaps, learned>>

\* stop() only takes a flag down, which the loop reads at its top.
Stop ==
  /\ running
  /\ running' = FALSE
  /\ UNCHANGED <<content, disk, store, pc, toRead, got, pending, copies, mishaps, learned>>

Crash ==
  /\ pc' = "stopped" /\ running' = FALSE
  /\ store' = EmptyStore /\ toRead' = {} /\ got' = {} /\ pending' = <<>>
  /\ copies' = [f \in Files |-> 0] /\ mishaps' = 0
  /\ UNCHANGED <<content, disk, learned>>

-----------------------------------------------------------------------------
(* One cycle.                                                               *)

\* What an iteration of the loop leaves of its local variables.
Forget == toRead' = {} /\ got' = {} /\ pending' = <<>>

\* The cycle's exception handler: log, then back off.
Failed == pc' = "backoff" /\ mishaps' = Min({mishaps + 1, MaxMishaps}) /\ Forget

BeginCycle ==
  /\ pc = "top"
  /\ IF running
     THEN pc' = "collect" /\ toRead' = {f \in Files : disk[f] \in {"partial", "complete"}}
     ELSE pc' = "stopped" /\ UNCHANGED toRead
  /\ UNCHANGED <<content, disk, store, running, got, pending, copies, mishaps, learned>>

Skips_Rest(f) == toRead' = {} /\ UNCHANGED <<got, pending, pc>>

\* A file that cannot be read, or is half written and no JSON: a later cycle
\* will try again.
Skips(f) == toRead' = toRead \ {f} /\ UNCHANGED <<got, pending, pc>>

Takes(f) ==
  /\ toRead' = toRead \ {f}
  /\ got' = got \cup {f}
  /\ pending' = pending \o [i \in DOMAIN content[f] |-> <<f, i>>]
  /\ UNCHANGED pc

\* _read_file in a thread, and its result.  An exception that is not expected,
\* which a file cut within a character raises too, ends the collection, and
\* with it the cycle.
ReadFile ==
  /\ pc = "collect" /\ toRead # {}
  /\ LET f == Min(toRead)
     IN \/ disk[f] = "partial" /\ Skips(f) /\ UNCHANGED mishaps
        \/ disk[f] = "partial" /\ f \in WideFiles /\ Failed
        \/ disk[f] = "complete" /\ content[f] # Undecodable /\ Takes(f) /\ UNCHANGED mishaps
        \/ disk[f] = "complete" /\ content[f] = Undecodable /\ Failed
        \/ mishaps < MaxMishaps /\ Skips(f) /\ mishaps' = mishaps + 1
  /\ UNCHANGED <<content, disk, store, running, copies, learned>>

\* One round of the loop over add_trajectory, which does not await: nothing
\* that another action changes is read or written by it.
AddTrajectory ==
  /\ pc = "collect" /\ toRead = {} /\ pending # <<>>
  /\ LET f == pending[1][1]
         i == pending[1][2]
     IN IF content[f][i] = "poison"
        THEN Failed /\ UNCHANGED <<store, copies>>
        ELSE /\ store' = Added(store, content[f][i])
             /\ copies' = [copies EXCEPT ![f] = IF i = 1 THEN Min({@ + 1, MaxMishaps + 1}) ELSE @]
             /\ pending' = Tail(pending)
             /\ UNCHANGED <<pc, toRead, got, mishaps>>
  /\ UNCHANGED <<content, disk, running, learned>>

\* The files that shutil.move could move; what it could not move stays.
Archived(moved) ==
  disk' = [f \in Files |-> IF f \in moved THEN "archived" ELSE disk[f]]

\* _archive_processed_data, then the end of the cycle.  Without its directory
\* the cycle fails.
Archive ==
  \/ /\ Archived(got)
     /\ pc' = "sleep" /\ Forget /\ UNCHANGED mishaps
  \/ /\ mishaps < MaxMishaps
     /\ \E moved \in SUBSET got \ {got} : Archived(moved)
     /\ pc' = "sleep" /\ Forget /\ mishaps' = mishaps + 1
  \/ /\ mishaps < MaxMishaps /\ got # {}
     /\ Failed /\ UNCHANGED disk

ShouldTrigger == Total(store) >= SftThreshold

\* After the last trajectory: the callback, or else the archive at once.
Learn ==
  /\ pc = "collect" /\ toRead = {} /\ pending = <<>>
  /\ learned' = learned \cup got
  /\ \/ /\ ShouldTrigger
        /\ pc' = "sft" /\ UNCHANGED <<disk, toRead, got, pending, mishaps>>
     \/ ~ShouldTrigger /\ Archive
  /\ UNCHANGED <<content, store, running, copies>>

SftEnds_NoArchive ==
  /\ pc = "sft"
  /\ pc' = "sleep" /\ Forget
  /\ UNCHANGED <<content, disk, store, running, copies, mishaps, learned>>

\* The callback ends, in whatever way, and so does the write to the log of
\* its metrics, whose failure fails the cycle.
SftEnds ==
  /\ pc = "sft"
  /\ \/ Archive
     \/ mishaps < MaxMishaps /\ Failed /\ UNCHANGED disk
  /\ UNCHANGED <<content, store, running, copies, learned>>

\* The sleep of the interval or of the backoff ends.
Wake ==
  /\ pc \in {"sleep", "backoff"}
  /\ pc' = "top"
  /\ UNCHANGED <<content, disk, store, running, toRead, got, pending, copies, mishaps, learned>>

Cycle == BeginCycle \/ ReadFile \/ AddTrajectory \/ Learn \/ SftEnds \/ Wake

Next ==
  \/ \E f \in Files : StartWriting(f) \/ FinishWriting(f)
  \/ Start \/ Stop \/ Crash
  \/ Cycle

\* Reads, callbacks and sleeps end.
Fairness == WF_vars(Cycle)

Spec == Init /\ [][Next]_vars /\ Fairness
-----------------------------------------------------------------------------
(* Properties.                                                              *)

\* A file goes to the archive only after all of it was learned, at a time
\* when it was complete: one that is listed while it is being written waits.
\* The callback and the log run between adding and archiving: a file is
\* learned again only after a cycle failed or a file could not be moved.
\* The store stays within its size whatever is added.
LearnedOnce ==
  /\ \A f \in Files : disk[f] = "archived" => f \in learned
  /\ \A f \in Files : copies[f] <= 1 + mishaps
  /\ Total(store) <= MaxSize

\* However full the store is, the learner never has fewer golden
\* trajectories after a cycle than before it.
GoldenKept == [][pc # "stopped" /\ pc' # "stopped" => store'.golden >= store.golden]_vars

\* A file that makes a cycle fail: a complete one every cycle, one that is
\* being written those that find it cut within a character
\* (continuous_learner.py:123).
Blocking(f) ==
  \/ disk[f] = "complete" /\ (content[f] = Undecodable \/ "poison" \in ToSet(content[f]))
  \/ disk[f] = "partial" /\ f \in WideFiles

\* While the learner runs, every complete file ends in the archive, in spite
\* of failed cycles and files seen half written, unless some file is in its
\* way for ever: a bad one, or one that its producer never ends.
Learned ==
  \A f \in Files :
    disk[f] = "complete" ~> \/ disk[f] = "archived"
                            \/ pc = "stopped"
                            \/ [](\E g \in Files : Blocking(g))
=============================================================================
