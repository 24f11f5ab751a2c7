---------------------------- MODULE CacheEngine ----------------------------
(***************************************************************************)
(* CacheEngine of zilli/cache/engine.py: a memory cache under a lock over  *)
(* a file per entry and an index file, which set, invalidate and clear     *)
(* write outside the lock.  Threads are concurrent; the process may crash  *)
(* and be started again on the same directory.                             *)
(*                                                                         *)
(* A response is the number of the set that stored it, in the order of     *)
(* their created_at; the ttl has passed for those up to `horizon`.         *)
(*                                                                         *)
(* X_y, just above X, is X with a plausible bug (a mutant).                *)
(***************************************************************************)
EXTENDS Naturals, FiniteSets, FiniteSetsExt

CONSTANTS Keys,         \* the hashes of prompt, model and temperature
          Threads,
          MemorySize,   \* CacheConfig.memory_size
          MaxVersion,   \* bound: calls of set
          MaxHits       \* bound: hit_count saturates there

ASSUME CacheAssumption ==
  /\ IsFiniteSet(Keys)
  /\ MemorySize \in Nat \ {0} /\ MaxVersion \in Nat /\ MaxHits \in Nat

VARIABLES memory,     \* _memory: version and hit_count of each key (0: absent)
          disk,       \* the version in the file of each key
          index,      \* the keys in _index.json
          op,         \* what each thread is in the middle of
          last,       \* the version of the last set
          horizon,    \* the versions up to this one have expired
          current,    \* history: what the calls on a key may have left there
          disturbed   \* history: the keys whose calls overlapped, or whose
                      \* file could not be written

cacheVars == <<memory, disk, index, op, last, horizon, current, disturbed>>

None == 0
Torn == MaxVersion + 1      \* a file that does not parse
Versions == 1..MaxVersion
Absent == [ver |-> None, hits |-> 0]
Idle == [phase |-> "idle", keys |-> {}, ver |-> None]

\* stored    set: in memory, file not opened   writing  set: file truncated
\* orphaned  set: its file was unlinked        indexing set: before the index
\* popped    invalidate: before its unlink     clearing clear: before unlinks
\* expired   get, with the lock: before the unlink of an expired file
Phases == {"idle", "stored", "writing", "orphaned", "indexing", "popped",
           "clearing", "expired"}

CacheInit ==
  /\ memory = [k \in Keys |-> Absent]
  /\ disk = [k \in Keys |-> None]
  /\ index = {}
  /\ op = [t \in Threads |-> Idle]
  /\ last = 0
  /\ horizon = 0
  /\ current = [k \in Keys |-> {None}]
  /\ disturbed = {}

Expired_Early(v) == v <= horizon + 1
Expired(v) == v <= horizon

LockFree == \A t \in Threads : op[t].phase # "expired"
InMemory(mem) == {k \in Keys : mem[k].ver # None}
Busy == UNION {op[t].keys : t \in Threads}

-----------------------------------------------------------------------------
(* History of the calls that change a key.                                 *)

\* A call on keys K starts that may leave version v; it overlaps the others.
Begin(K, v) ==
  /\ current' = [k \in Keys |-> IF k \in K THEN current[k] \cup {v} ELSE current[k]]
  /\ disturbed' = disturbed \cup (K \cap Busy)

\* It ends: the version is there.
End(K, v) == current' = [k \in Keys |-> IF k \in K THEN {v} ELSE current[k]]

Enter(t, ph, K, v) == op' = [op EXCEPT ![t] = [phase |-> ph, keys |-> K, ver |-> v]]
Become(t, ph) == op' = [op EXCEPT ![t].phase = ph]
Leave(t) == op' = [op EXCEPT ![t] = Idle]

-----------------------------------------------------------------------------
\* _trim_memory: the entries with the least hits go until the rest fits; which
\* of those with as many hits is the order of the dict, here any.
Trimmed(mem) ==
  IF Cardinality(InMemory(mem)) <= MemorySize THEN {mem}
  ELSE {[mem EXCEPT ![k] = Absent] :
          k \in {x \in InMemory(mem) :
                   \A y \in InMemory(mem) : mem[x].hits <= mem[y].hits}}

Hit(h, n) == Min({h + n, MaxHits})

\* get, memory: an expired entry is dropped, its file stays; a hit counts
\* twice (hit_count += 1 and _touch).
GetMemory(k) ==
  /\ LockFree
  /\ memory[k].ver # None
  /\ memory' = [memory EXCEPT ![k] = IF Expired(@.ver) THEN Absent
                                     ELSE [ver |-> @.ver, hits |-> Hit(@.hits, 2)]]
  /\ UNCHANGED <<disk, index, op, last, horizon, current, disturbed>>

\* get, disk: the file is read into memory and the memory trimmed; one that
\* does not parse is a miss.
GetDisk(k) ==
  /\ LockFree
  /\ memory[k].ver = None
  /\ disk[k] \in Versions /\ ~Expired(disk[k])
  /\ memory' \in Trimmed([memory EXCEPT ![k] = [ver |-> disk[k], hits |-> 1]])
  /\ disturbed' = disturbed \cup ({k} \cap Busy)
  /\ UNCHANGED <<disk, index, op, last, horizon, current>>

\* get, disk: an expired file is unlinked, still under the lock.
GetExpired(t, k) ==
  /\ LockFree
  /\ op[t] = Idle
  /\ memory[k].ver = None
  /\ disk[k] \in Versions /\ Expired(disk[k])
  /\ Enter(t, "expired", {k}, None)
  /\ disturbed' = disturbed \cup ({k} \cap Busy)
  /\ UNCHANGED <<memory, disk, index, last, horizon, current>>

\* The files of K are unlinked: a writer that has one open writes to nowhere.
Unlink(t, K) ==
  /\ disk' = [k \in Keys |-> IF k \in K THEN None ELSE disk[k]]
  /\ op' = [u \in Threads |->
              IF u = t THEN Idle
              ELSE IF op[u].phase = "writing" /\ op[u].keys \subseteq K
                THEN [op[u] EXCEPT !.phase = "orphaned"] ELSE op[u]]

UnlinkExpired(t) ==
  /\ op[t].phase = "expired"
  /\ Unlink(t, op[t].keys)
  /\ UNCHANGED <<memory, index, last, horizon, current, disturbed>>

\* set, under the lock: the entry is stored and the memory trimmed.  It may be
\* the new entry that goes.
Set(t, k) ==
  /\ LockFree
  /\ op[t] = Idle
  /\ last < MaxVersion
  /\ last' = last + 1
  /\ memory' \in Trimmed([memory EXCEPT ![k] = [ver |-> last + 1, hits |-> 0]])
  /\ Enter(t, "stored", {k}, last + 1)
  /\ Begin({k}, last + 1)
  /\ UNCHANGED <<disk, index, horizon>>

\* write_text opens the file, which truncates it ...
Open(t) ==
  /\ op[t].phase = "stored"
  /\ disk' = [k \in Keys |-> IF k \in op[t].keys THEN Torn ELSE disk[k]]
  /\ Become(t, "writing")
  /\ UNCHANGED <<memory, index, last, horizon, current, disturbed>>

\* ... and writes from offset 0, over what another thread may have written.
WriteFile(t) ==
  /\ op[t].phase \in {"writing", "orphaned"}
  /\ \/ /\ op[t].phase = "writing"
        /\ \E k \in op[t].keys :
             \E v \in {op[t].ver} \cup (IF disk[k] = Torn THEN {} ELSE {Torn}) :
               disk' = [disk EXCEPT ![k] = v]
     \/ op[t].phase = "orphaned" /\ UNCHANGED disk
  /\ Become(t, "indexing")
  /\ UNCHANGED <<memory, index, last, horizon, current, disturbed>>

\* The file cannot be opened: a warning, and the file stays as it is.
WriteFails(t) ==
  /\ op[t].phase = "stored"
  /\ disturbed' = disturbed \cup op[t].keys
  /\ Become(t, "indexing")
  /\ UNCHANGED <<memory, disk, index, last, horizon, current>>

\* _save_index: the keys in memory by now.
SaveIndex(t) ==
  /\ op[t].phase = "indexing"
  /\ index' = InMemory(memory)
  /\ End(op[t].keys, op[t].ver)
  /\ Leave(t)
  /\ UNCHANGED <<memory, disk, last, horizon, disturbed>>

\* invalidate: under the lock from memory, then, outside it, the file.
InvalidatePop_NotInMemory(t, k) ==
  /\ LockFree
  /\ op[t] = Idle
  /\ Enter(t, "popped", {k}, None)
  /\ Begin({k}, None)
  /\ UNCHANGED <<memory, disk, index, last, horizon>>
InvalidatePop(t, k) ==
  /\ LockFree
  /\ op[t] = Idle
  /\ memory' = [memory EXCEPT ![k] = Absent]
  /\ Enter(t, "popped", {k}, None)
  /\ Begin({k}, None)
  /\ UNCHANGED <<disk, index, last, horizon>>

InvalidateUnlink(t) ==
  /\ op[t].phase = "popped"
  /\ Unlink(t, op[t].keys)
  /\ End(op[t].keys, None)
  /\ UNCHANGED <<memory, index, last, horizon, disturbed>>

\* clear takes no lock; the index goes with the files.
ClearMemory(t) ==
  /\ op[t] = Idle
  /\ memory' = [k \in Keys |-> Absent]
  /\ Enter(t, "clearing", Keys, None)
  /\ Begin(Keys, None)
  /\ UNCHANGED <<disk, index, last, horizon>>

ClearFiles(t) ==
  /\ op[t].phase = "clearing"
  /\ Unlink(t, Keys)
  /\ index' = {}
  /\ End(Keys, None)
  /\ UNCHANGED <<memory, last, horizon, disturbed>>

-----------------------------------------------------------------------------
\* time.time() moves on: the next version expires.
Tick ==
  /\ horizon < last
  /\ horizon' = horizon + 1
  /\ UNCHANGED <<memory, disk, index, op, last, current, disturbed>>

\* The process ends, in the middle of any call, and a new one loads the files
\* of the keys in the index (_load_index), expired or not.  An index that was
\* being written does not parse.
Restart ==
  /\ \/ UNCHANGED index
     \/ (\E t \in Threads : op[t].phase = "indexing") /\ index' = {}
  /\ memory' = [k \in Keys |-> IF k \in index' /\ disk[k] \in Versions
                               THEN [ver |-> disk[k], hits |-> 0] ELSE Absent]
  /\ op' = [t \in Threads |-> Idle]
  /\ UNCHANGED <<disk, last, horizon, current, disturbed>>

CacheNext ==
  \/ \E t \in Threads, k \in Keys : GetExpired(t, k) \/ Set(t, k) \/ InvalidatePop(t, k)
  \/ \E t \in Threads : \/ UnlinkExpired(t) \/ Open(t) \/ WriteFile(t) \/ WriteFails(t)
                        \/ SaveIndex(t) \/ InvalidateUnlink(t)
                        \/ ClearMemory(t) \/ ClearFiles(t)
  \/ \E k \in Keys : GetMemory(k) \/ GetDisk(k)
  \/ Tick \/ Restart

CacheSpec == CacheInit /\ [][CacheNext]_cacheVars

-----------------------------------------------------------------------------
(* Properties.                                                             *)


\* A key whose calls did not overlap is a regular register, whatever is done
\* to other keys, evicted, expired or lost in a crash: memory and file hold
\* nothing but what the last finished call left, or one that was under way
\* (or cut short).  After an invalidate there is nothing.
Regular ==
  \A k \in Keys \ disturbed :
    /\ memory[k].ver \in current[k] \cup {None}
    /\ disk[k] \in current[k] \cup {None, Torn}

\* What a finished set stored is not lost before it expires, by evictions,
\* restarts or other keys: the file has it. The memory stays within its size.
Retained ==
  /\ Cardinality(InMemory(memory)) <= MemorySize
  /\ \A k \in Keys \ (disturbed \cup Busy) :
       \A v \in Versions : current[k] = {v} /\ ~(v <= horizon) => disk[k] = v
=============================================================================
