--------------------------- MODULE ConsentLedger ---------------------------
(***************************************************************************)
(* The ConsentManager: an append-only list of records that are granted,    *)
(* revoked and expired, looked up from the newest on. Time is the number   *)
(* of ticks; a record's life is a short or a long one.                     *)
(***************************************************************************)
EXTENDS Integers, Sequences

CONSTANTS Users,       \* the (tenant, user) pairs
          Uses,        \* the data uses
          MaxRecords,  \* bound: records ever granted
          MaxTicks     \* bound: the end of time

ASSUME ConsentAssumption ==
  {"local", "cloud"} \subseteq Uses /\ MaxRecords \in Nat /\ MaxTicks \in Nat

VARIABLES records,  \* _records
          clock,
          willed    \* history: until when each user's last word permits a use, 0 if it forbids it

ConsentInit == records = <<>> /\ clock = 1 /\ willed = [p \in Users \X Uses |-> 0]

About(r, u, d) == r.user = u /\ r.use = d
Live(r) == r.status = "granted" /\ r.expires > clock

Grant(u, d, ttl) ==
  /\ Len(records) < MaxRecords
  /\ records' = Append(records, [user |-> u, use |-> d, status |-> "granted", expires |-> clock + ttl])
  \* an older grant that lives longer counts on
  /\ willed' = [willed EXCEPT ![<<u, d>>] = IF clock + ttl > @ THEN clock + ttl ELSE @]
  /\ UNCHANGED clock

\* The positions of the granted records of u for d, expired ones included.
Granted(u, d) == {i \in DOMAIN records : About(records[i], u, d) /\ records[i].status = "granted"}

\* revoke: the newest record whose status is granted.
Revoke(u, d) ==
  /\ \E i \in Granted(u, d) :
       /\ \A j \in Granted(u, d) : j <= i
       /\ records' = [records EXCEPT ![i].status = "revoked"]
  /\ willed' = [willed EXCEPT ![<<u, d>>] = 0]
  /\ UNCHANGED clock

ExpireAll(u) ==
  /\ records' = [i \in DOMAIN records |->
                   IF records[i].user = u /\ Live(records[i])
                   THEN [records[i] EXCEPT !.status = "expired", !.expires = clock] ELSE records[i]]
  /\ willed' = [p \in Users \X Uses |-> IF p[1] = u THEN 0 ELSE willed[p]]
  /\ UNCHANGED clock

\* check: from the newest record on, the first that is live or revoked decides.
Decides(r, u, d) == About(r, u, d) /\ (Live(r) \/ r.status = "revoked")
Consents_AnyLive(u, d) == \E i \in DOMAIN records : About(records[i], u, d) /\ Live(records[i])
Consents(u, d) ==
  LET Deciding == {i \in DOMAIN records : Decides(records[i], u, d)}
  IN \E i \in Deciding : Live(records[i]) /\ \A j \in Deciding : j <= i

TimePasses == clock < MaxTicks /\ clock' = clock + 1 /\ UNCHANGED <<records, willed>>

ConsentNext ==
  \/ \E u \in Users, d \in Uses : \/ \E ttl \in {1, 3} : Grant(u, d, ttl)
                                  \/ Revoke(u, d)
  \/ \E u \in Users : ExpireAll(u)
  \/ TimePasses
=============================================================================
