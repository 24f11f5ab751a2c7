-------------------------- MODULE UnknownsDiscovery --------------------------
(***************************************************************************)
(* UnknownsDiscovery (zilli/loops/unknowns.py): sessions over one work     *)
(* directory, each a command of the command line or a longer use of the    *)
(* class.  A session loads the unknowns when it opens, works on its copy,  *)
(* also while it waits for the model, and saves the whole copy; the files  *)
(* are written in place, so that another session may read half of one.     *)
(***************************************************************************)
EXTENDS Integers, Sequences, FiniteSets, SequencesExt

CONSTANTS
  Sessions,      \* those that may be open at once
  MaxUnknowns,   \* bound: unknowns ever found
  MaxOpenings,   \* bound: sessions opened in all
  MaxSeconds     \* bound: how far the clock goes

ASSUME UnknownsAssumption == MaxUnknowns \in Nat /\ MaxOpenings \in Nat /\ MaxSeconds \in Nat

VARIABLES
  folder,   \* the files: unknowns, plan; the clock; and history: what was found, the ids that were
            \* resolved, whether sessions overlapped or a save was cut short
  session   \* by session: open or not, its copy, what it waits for, what it is writing

unknownsVars == <<folder, session>>

HalfFile == <<[id |-> <<-1, -1>>, n |-> 0, resolved |-> FALSE]>>

NoSession == [pc |-> "closed", items |-> <<>>, asked |-> "none"]

UnknownsFresh ==
  folder = [items |-> <<>>, plan |-> FALSE, second |-> 0, found |-> <<>>, asked |-> {},
            exempt |-> FALSE, openings |-> 0]
UnknownsInit == UnknownsFresh /\ session = [s \in Sessions |-> NoSession]
UnknownsIdle == UnknownsFresh /\ session = <<>>

Open(s) == session[s].pc # "closed"
Idle(s) == session[s].pc = "open" /\ session[s].asked = "none"

-----------------------------------------------------------------------------
(* Files *)

\* _load: an unreadable file counts as none.
Loaded_Unresolved == IF folder.items = HalfFile THEN <<>> ELSE SelectSeq(folder.items, LAMBDA u : ~u.resolved)
Loaded == IF folder.items = HalfFile THEN <<>> ELSE folder.items

SessionOpens(s) ==
  /\ session[s].pc = "closed" /\ folder.openings < MaxOpenings
  /\ session' = [session EXCEPT ![s] = [NoSession EXCEPT !.pc = "open", !.items = Loaded]]
  /\ folder' = [folder EXCEPT !.openings = @ + 1, !.exempt = @ \/ \E t \in Sessions \ {s} : Open(t)]

\* The process ends, in the middle of a save too.
SessionCloses(s) ==
  /\ Open(s)
  /\ session' = [session EXCEPT ![s] = NoSession]
  /\ folder' = [folder EXCEPT !.exempt = @ \/ session[s].pc = "saving"]

\* _save with the items: write_text empties the file and then fills it.
Saving(s, items) == [session EXCEPT ![s].pc = "saving", ![s].items = items, ![s].asked = "none"]
SaveDone(s) ==
  /\ session[s].pc = "saving"
  /\ session' = [session EXCEPT ![s].pc = "open"]
  /\ folder' = [folder EXCEPT !.items = session[s].items]

-----------------------------------------------------------------------------
(* What is asked of the model, and what becomes of its answers *)

\* The text of an answer: the JSON asked for, other JSON, JSON inside other text, or none at all.
Answers == {"asked for", "other", "inside", "none"}

PassAnswer(a) == CASE a \in {"asked for", "inside"} -> "items" [] a = "other" -> "raise" [] OTHER -> "empty"

\* The command line asks for an interview only about unknowns that are open.
Unresolved(s) == SelectSeq(session[s].items, LAMBDA u : ~u.resolved)
Asks(s, kind) ==
  /\ Idle(s) /\ (kind = "interview" => Unresolved(s) # <<>>)
  /\ session' = [session EXCEPT ![s].asked = kind]
  /\ UNCHANGED folder

\* The answer is there, and no save of the same process is under way.
Asked(s, kind) == session[s].pc = "open" /\ session[s].asked = kind

\* The items of a pass: ids of the second in which the answer came, and their places.
Found(k) == [i \in 1 .. k |-> [id |-> <<folder.second, i - 1>>, n |-> Len(folder.found) + i, resolved |-> FALSE]]

\* The answer of a blind spot pass. One that is JSON of another shape raises, and so does one with a
\* category there is not: nothing is added.
PassEnds(s) ==
  /\ Asked(s, "blind-spot")
  /\ \E a \in Answers, k \in 0 .. MaxUnknowns - Len(folder.found) :
       IF PassAnswer(a) = "raise"
       THEN session' = [session EXCEPT ![s].asked = "none"] /\ UNCHANGED folder
       ELSE LET items == IF PassAnswer(a) = "items" THEN Found(k) ELSE <<>> IN
            /\ session' = Saving(s, session[s].items \o items)
            /\ folder' = [folder EXCEPT !.found = @ \o items, !.items = HalfFile]

\* Questions for an interview, quizzes, variants and references are only returned; none of them raises.
Returned(s) == session' = [session EXCEPT ![s].asked = "none"] /\ UNCHANGED folder
InterviewEnds(s) == Asked(s, "interview") /\ Returned(s)
AnswerReturned(s) == Asked(s, "answer") /\ Returned(s)

PlanEnds(s) ==
  /\ Asked(s, "plan")
  /\ session' = [session EXCEPT ![s].asked = "none"]
  /\ folder' = [folder EXCEPT !.plan = TRUE]

-----------------------------------------------------------------------------
(* The other operations *)

\* resolve_unknown: the first with that id.
WithId(items, id) == SelectInSeq(items, LAMBDA u : u.id = id)
Resolves(s) ==
  /\ Open(s) /\ session[s].pc = "open"
  /\ \E i \in DOMAIN session[s].items :
       LET id == session[s].items[i].id
           items == [session[s].items EXCEPT ![WithId(session[s].items, id)].resolved = TRUE]
       IN /\ session' = [Saving(s, items) EXCEPT ![s].asked = session[s].asked]
          /\ folder' = [folder EXCEPT !.asked = @ \cup {id}, !.items = HalfFile]

SecondPasses ==
  /\ folder.second < MaxSeconds
  /\ folder' = [folder EXCEPT !.second = @ + 1]
  /\ UNCHANGED session

UnknownsNext ==
  \/ \E s \in DOMAIN session :
       \/ SessionOpens(s) \/ SessionCloses(s) \/ SaveDone(s)
       \/ \E kind \in {"blind-spot", "interview", "answer", "plan"} : Asks(s, kind)
       \/ PassEnds(s) \/ InterviewEnds(s) \/ AnswerReturned(s) \/ PlanEnds(s)
       \/ Resolves(s)
  \/ session # <<>> /\ SecondPasses

UnknownsSpec == UnknownsInit /\ [][UnknownsNext]_unknownsVars

-----------------------------------------------------------------------------
(* Properties *)

\* With one session at a time and no save cut short, every unknown that was found is in the file, in
\* order; it is resolved only if its id was, and an id that was resolved marks its first bearer: passes
\* of one second share ids, and a later bearer can never be resolved. Sessions at once may lose and
\* revive unknowns, but never make one up (unknowns.py:99, :171, :467).
UnknownsKept ==
  LET settled == ~folder.exempt /\ \A s \in DOMAIN session : session[s].pc # "saving" IN
  /\ settled =>
       /\ Len(folder.items) = Len(folder.found)
       /\ \A i \in DOMAIN folder.items :
            LET u == folder.items[i]
                first == \A j \in 1 .. i - 1 : folder.items[j].id # u.id
            IN /\ u.n = i
               /\ u.resolved <=> (u.id \in folder.asked /\ first)
  /\ folder.items # HalfFile =>
       \A i \in DOMAIN folder.items : \E j \in DOMAIN folder.found :
         folder.items[i] \in {folder.found[j], [folder.found[j] EXCEPT !.resolved = TRUE]}
=============================================================================
