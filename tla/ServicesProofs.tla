--------------------------- MODULE ServicesProofs ---------------------------
(***************************************************************************)
(* Theorems about the parts that serve requests, each for its own          *)
(* specification: the hybrid executor, the planner's frequency control,    *)
(* the sandbox's budget, the response cache, the HTTP server and the MOM   *)
(* router's feedback; and at the end for their composition.                *)
(***************************************************************************)
EXTENDS Services, ArenaProofs, FiniteSetTheorems, SequenceTheorems, WellFoundedInduction, TLAPS

-----------------------------------------------------------------------------
(* Texts: the class is the highest of its levels, and a text in which       *)
(* personal data is found is masked.                                        *)

LEMMA LeastNat ==
  ASSUME NEW T, T \subseteq Nat, T # {}
  PROVE \E x \in T : \A y \in T : x <= y
<1>1. \E x \in T : \A y \in T : <<y, x>> \notin OpToRel(<, Nat)
  BY NatLessThanWellFounded, WFMin
<1>2. PICK x \in T : \A y \in T : <<y, x>> \notin OpToRel(<, Nat)
  BY <1>1
<1>3. ASSUME NEW y \in T PROVE x <= y
  <2>1. x \in Nat /\ y \in Nat
    OBVIOUS
  <2>2. <<y, x>> \notin OpToRel(<, Nat)
    BY <1>2
  <2>3. ~(y < x)
    BY <2>1, <2>2 DEF OpToRel
  <2> QED BY <2>1, <2>3
<1> QED BY <1>3

LEMMA MaxOfLevels ==
  ASSUME NEW B \in Nat, NEW S, S \subseteq 0 .. B, S # {}
  PROVE Max(S) \in S /\ \A y \in S : Max(S) >= y
<1> DEFINE T == {n \in 0 .. B : \E x \in S : n = B - x}
<1>1. T # {}
  <2>1. PICK x \in S : TRUE
    OBVIOUS
  <2>2. x \in 0 .. B /\ B - x \in 0 .. B
    OBVIOUS
  <2>3. B - x \in T
    BY <2>2
  <2> QED BY <2>3, Zenon
<1>2. T \subseteq Nat
  OBVIOUS
<1> HIDE DEF T
<1>3. PICK n \in T : \A m \in T : n <= m
  BY <1>1, <1>2, LeastNat
<1> USE DEF T
<1>4. PICK x \in S : n = B - x
  OBVIOUS
<1>5. ASSUME NEW y \in S PROVE x >= y
  <2>1. B - y \in T
    OBVIOUS
  <2>2. n <= B - y
    BY <1>3, <2>1
  <2>3. x \in 0 .. B /\ y \in 0 .. B
    OBVIOUS
  <2> QED BY <1>4, <2>2, <2>3
<1>6. \E z \in S : \A y \in S : z >= y
  BY <1>5, Zenon
<1> QED BY <1>6, Zenon DEF Max

LEMMA ClassMeans ==
  ASSUME NEW text \in TextShape, NEW hint \in 0 .. 4
  PROVE /\ ClassOf(text, hint) \in 0 .. 4 /\ ClassOf(text, hint) >= text.raw.keyword
        /\ text.raw.pii # {} => ClassOf(text, hint) >= 2
<1> DEFINE S == {MappedClass(c) : c \in text.raw.pii} \cup {text.raw.keyword, hint}
<1>0. text.raw.keyword \in 0 .. 4
  BY DEF TextShape, Findings, REGULATED
<1>1. \A c : MappedClass(c) \in 2 .. 4
  BY DEF MappedClass, CONFIDENTIAL, RESTRICTED, REGULATED
<1>2. S \subseteq 0 .. 4 /\ S # {}
  BY <1>0, <1>1
<1>3. Max(S) \in S /\ \A y \in S : Max(S) >= y
  BY <1>2, MaxOfLevels
<1>4. ASSUME text.raw.pii # {} PROVE Max(S) >= 2
  <2>1. PICK c : c \in text.raw.pii
    BY <1>4
  <2>2. MappedClass(c) \in S
    BY <2>1
  <2>3. Max(S) >= MappedClass(c) /\ MappedClass(c) \in 2 .. 4 /\ Max(S) \in 0 .. 4
    BY <1>1, <1>2, <1>3, <2>2
  <2> QED BY <2>3
<1>5. Max(S) \in 0 .. 4 /\ Max(S) >= text.raw.keyword
  BY <1>2, <1>3
<1> QED BY <1>4, <1>5 DEF ClassOf

\* Where evaluate finds something, its automatic and its strict mode give back what masking leaves, and
\* it proceeds to a cloud only if the caller requires that and the class may leave the machine.
Careful(v, text, hint, known, local, requireCloud) ==
  /\ v.class = ClassOf(text, hint)
  /\ text.raw.pii # {} => v.input = text.masked
  /\ v.cloud => requireCloud /\ CanUseCloud(ClassOf(text, hint))
  /\ v.local => (known => local)

LEMMA EvaluateMasks ==
  ASSUME NEW text \in TextShape, NEW hint \in 0 .. 4, NEW pol, NEW known, NEW local, NEW cloud,
         NEW mode \in {"auto", "strict"}, NEW requireCloud
  PROVE Careful(Evaluate(text, hint, pol, known, local, cloud, mode, requireCloud), text, hint, known, local, requireCloud)
<1> DEFINE level == ClassOf(text, hint)
           v == Evaluate(text, hint, pol, known, local, cloud, mode, requireCloud)
<1>1. level \in 0 .. 4 /\ (text.raw.pii # {} => level >= 2)
  BY ClassMeans
<1>2. /\ v.class = level /\ v.input = (IF Sanitizes(mode, level) THEN Sanitized(text) ELSE text.raw)
      /\ v.cloud => requireCloud /\ CanUseCloud(level)
      /\ v.local => (known => local)
  BY DEF Evaluate
<1>3. level >= 2 => Sanitizes(mode, level)
  BY DEF Sanitizes, RequiresSanitization, CONFIDENTIAL
<1> HIDE DEF level, v
<1>4. text.raw.pii # {} => v.input = text.masked
  BY <1>1, <1>2, <1>3 DEF Sanitized
<1> QED BY <1>2, <1>4 DEF level, v, Careful

-----------------------------------------------------------------------------
(* The will is followed for every number of users, uses, jobs and records: *)
(* what check finds in the list is what the last word says.                *)

ConsentRecord ==
  [user : Users, use : Uses, status : {"granted", "revoked", "expired"}, expires : Nat]

ConsentTypes ==
  /\ records \in Seq(ConsentRecord) /\ clock \in Nat
  /\ willed \in [Users \X Uses -> Nat]

\* A granted record has run out, or was overruled by a later revocation, or the will is as long as it.
Answered(k) ==
  LET r == records[k] IN
  r.status = "granted" =>
    \/ r.expires <= clock
    \/ \E i \in DOMAIN records : i > k /\ About(records[i], r.user, r.use) /\ records[i].status = "revoked"
    \/ r.expires <= willed[<<r.user, r.use>>]

LedgerInv == ConsentTypes /\ \A k \in DOMAIN records : Answered(k)

\* What a job under way is: masked, of a class that may be processed, on this machine, and wanted.
JobRight(q) ==
  \/ q = Unused
  \/ /\ q.phase = "local" /\ q.target = "local" /\ q.class < RESTRICTED /\ q.permitted
     /\ q.text.raw.pii # {} => q.input = q.text.masked

JobsRight == DOMAIN job = Jobs /\ \A j \in Jobs : JobRight(job[j])

HybridInv == LedgerInv /\ JobsRight

\* A record that check decides by is live, so that of the reasons only the will is left.
LEMMA ConsentsMean ==
  ASSUME LedgerInv, NEW u \in Users, NEW d \in Uses, Consents(u, d)
  PROVE willed[<<u, d>>] > clock
<1>1. PICK i \in DOMAIN records :
        /\ About(records[i], u, d) /\ Live(records[i])
        /\ \A j \in DOMAIN records : Decides(records[j], u, d) => j <= i
  BY DEF Consents, Decides
<1>2. records[i] \in ConsentRecord /\ i \in Nat
  BY <1>1 DEF LedgerInv, ConsentTypes
<1>3. records[i].status = "granted" /\ records[i].expires > clock
      /\ records[i].user = u /\ records[i].use = d
  BY <1>1 DEF Live, About
<1>4. \A j \in DOMAIN records : ~(j > i /\ About(records[j], u, d) /\ records[j].status = "revoked")
  <2> SUFFICES ASSUME NEW j \in DOMAIN records, j > i, About(records[j], u, d), records[j].status = "revoked"
               PROVE FALSE
    OBVIOUS
  <2>1. j <= i
    BY <1>1 DEF Decides
  <2>2. j \in Nat
    BY DEF LedgerInv, ConsentTypes
  <2> QED BY <1>2, <2>1, <2>2
<1>5. records[i].expires <= clock \/ records[i].expires <= willed[<<u, d>>]
  BY <1>3, <1>4 DEF LedgerInv, Answered
<1>6. records[i].expires \in Nat /\ clock \in Nat /\ willed[<<u, d>>] \in Nat
  BY <1>2 DEF ConsentRecord, LedgerInv, ConsentTypes
<1> QED BY <1>3, <1>5, <1>6

\* A granted record that a step leaves alone stays answered, if its own will is not shortened.
LEMMA StaysAnswered ==
  ASSUME LedgerInv, ConsentTypes', clock' >= clock, NEW k \in DOMAIN records,
         DOMAIN records \subseteq DOMAIN records', records'[k] = records[k],
         \A i \in DOMAIN records : records[i].status = "revoked" => records'[i] = records[i],
         willed'[<<records[k].user, records[k].use>>] >= willed[<<records[k].user, records[k].use>>]
  PROVE Answered(k)'
<1> DEFINE r == records[k]
<1> SUFFICES ASSUME r.status = "granted"
             PROVE \/ r.expires <= clock'
                   \/ \E i \in DOMAIN records' : i > k /\ About(records'[i], r.user, r.use) /\ records'[i].status = "revoked"
                   \/ r.expires <= willed'[<<r.user, r.use>>]
  BY DEF Answered, About
<1>1. r \in ConsentRecord
  BY DEF LedgerInv, ConsentTypes
<1>2. /\ r.expires \in Nat /\ clock \in Nat /\ clock' \in Nat /\ r.user \in Users /\ r.use \in Uses
  BY <1>1 DEF ConsentRecord, LedgerInv, ConsentTypes
<1>3. willed[<<r.user, r.use>>] \in Nat /\ willed'[<<r.user, r.use>>] \in Nat
  BY <1>2 DEF LedgerInv, ConsentTypes
<1>4. \/ r.expires <= clock
      \/ \E i \in DOMAIN records : i > k /\ About(records[i], r.user, r.use) /\ records[i].status = "revoked"
      \/ r.expires <= willed[<<r.user, r.use>>]
  BY DEF LedgerInv, Answered
<1>5. CASE r.expires <= clock
  BY <1>2, <1>5
<1>6. CASE \E i \in DOMAIN records : i > k /\ About(records[i], r.user, r.use) /\ records[i].status = "revoked"
  BY <1>6 DEF About
<1>7. CASE r.expires <= willed[<<r.user, r.use>>]
  BY <1>2, <1>3, <1>7
<1> QED BY <1>4, <1>5, <1>6, <1>7

\* A grant adds a record that is as long as the will it leaves.
LEMMA GrantKeeps ==
  ASSUME LedgerInv, NEW u \in Users, NEW d \in Uses, NEW ttl \in {1, 3}, Grant(u, d, ttl)
  PROVE LedgerInv'
<1> DEFINE new == [user |-> u, use |-> d, status |-> "granted", expires |-> clock + ttl]
           till == IF clock + ttl > willed[<<u, d>>] THEN clock + ttl ELSE willed[<<u, d>>]
<1>1. /\ records \in Seq(ConsentRecord) /\ clock \in Nat /\ willed \in [Users \X Uses -> Nat]
      /\ clock' = clock /\ records' = Append(records, new) /\ willed' = [willed EXCEPT ![<<u, d>>] = till]
  BY DEF LedgerInv, ConsentTypes, Grant
<1>2. new \in ConsentRecord /\ clock + ttl \in Nat
  BY <1>1 DEF ConsentRecord
<1>3. willed[<<u, d>>] \in Nat /\ till \in Nat /\ till >= clock + ttl /\ till >= willed[<<u, d>>]
  BY <1>1, <1>2
<1> HIDE DEF till
<1>4. ConsentTypes'
  BY <1>1, <1>2, <1>3 DEF ConsentTypes
<1>5. willed'[<<u, d>>] = till /\ \A p \in Users \X Uses : willed'[p] >= willed[p]
  <2>1. willed'[<<u, d>>] = till
    BY <1>1
  <2>2. ASSUME NEW p \in Users \X Uses, p # <<u, d>> PROVE willed'[p] = willed[p] /\ willed[p] \in Nat
    BY <1>1, <2>2
  <2> QED BY <1>3, <2>1, <2>2
<1> HIDE DEF new
<1>6. PICK n \in Nat :
      /\ DOMAIN records = 1..n /\ DOMAIN records' = 1..(n + 1)
      /\ \A i \in 1..n : records'[i] = records[i]
      /\ records'[n + 1] = new
  <2>1. PICK old \in Seq(ConsentRecord), one \in ConsentRecord : old = records /\ one = new
    BY <1>1, <1>2
  <2>2. /\ DOMAIN old = 1..Len(old) /\ Len(old) \in Nat /\ DOMAIN Append(old, one) = 1..(Len(old) + 1)
        /\ \A i \in 1..Len(old) : Append(old, one)[i] = old[i]
        /\ Append(old, one)[Len(old) + 1] = one
    BY AppendProperties
  <2> QED BY <1>1, <2>1, <2>2
<1>7. ASSUME NEW k \in 1..n PROVE Answered(k)'
  <2>1. records[k] \in ConsentRecord
    BY <1>1, <1>6
  <2>2. willed'[<<records[k].user, records[k].use>>] >= willed[<<records[k].user, records[k].use>>]
    BY <1>5, <2>1 DEF ConsentRecord
  <2>3. clock' >= clock
    BY <1>1
  <2> QED BY <1>4, <1>6, <2>2, <2>3, StaysAnswered
<1>8. Answered(n + 1)'
  <2>1. new.user = u /\ new.use = d /\ new.expires = clock + ttl
    BY DEF new
  <2>2. clock + ttl <= till /\ till = willed'[<<u, d>>]
    BY <1>2, <1>3, <1>5
  <2> QED BY <1>6, <2>1, <2>2 DEF Answered
<1> QED BY <1>4, <1>6, <1>7, <1>8 DEF LedgerInv

\* A revocation answers every granted record before the one it marks, and there is none after it.
LEMMA RevokeKeeps ==
  ASSUME LedgerInv, NEW u \in Users, NEW d \in Uses, Revoke(u, d)
  PROVE LedgerInv'
<1>1. PICK m \in Granted(u, d) :
        /\ \A j \in Granted(u, d) : j <= m
        /\ records' = [records EXCEPT ![m].status = "revoked"]
  BY DEF Revoke
<1>2. /\ records \in Seq(ConsentRecord) /\ clock \in Nat /\ willed \in [Users \X Uses -> Nat]
      /\ clock' = clock /\ willed' = [willed EXCEPT ![<<u, d>>] = 0]
  BY DEF LedgerInv, ConsentTypes, Revoke
<1>3. /\ m \in DOMAIN records /\ m \in Nat /\ records[m].user = u /\ records[m].use = d
      /\ records[m] \in ConsentRecord
  BY <1>1, <1>2 DEF Granted, About
<1> DEFINE marked == [records[m] EXCEPT !.status = "revoked"]
<1>4. marked \in ConsentRecord /\ marked.status = "revoked" /\ marked.user = u /\ marked.use = d
  BY <1>3 DEF ConsentRecord
<1>5. /\ DOMAIN records' = DOMAIN records /\ records'[m] = marked
      /\ \A i \in DOMAIN records : i # m => records'[i] = records[i]
  BY <1>1, <1>3
<1>6. records' = [records EXCEPT ![m] = marked]
  BY <1>1
<1> HIDE DEF marked
<1>7. ConsentTypes'
  BY <1>2, <1>3, <1>4, <1>6 DEF ConsentTypes
<1>8. ASSUME NEW k \in DOMAIN records PROVE Answered(k)'
  <2>1. CASE k = m
    BY <1>4, <1>5, <2>1 DEF Answered
  <2>2. CASE k # m /\ records[k].status = "granted" /\ About(records[k], u, d)
    <3>1. k \in Granted(u, d) /\ k \in Nat
      BY <1>2, <2>2 DEF Granted
    <3>2. m > k
      BY <1>1, <1>3, <2>2, <3>1
    <3> QED BY <1>3, <1>4, <1>5, <2>2, <3>2 DEF Answered, About
  <2>3. CASE k # m /\ ~(records[k].status = "granted" /\ About(records[k], u, d))
    <3> SUFFICES ASSUME records[k].status = "granted" PROVE Answered(k)'
      BY <1>5, <2>3 DEF Answered
    <3>1. /\ records'[k] = records[k] /\ records[k] \in ConsentRecord
          /\ \/ records[k].user # u
             \/ records[k].use # d
      BY <1>2, <1>5, <2>3 DEF About
    <3>2. records[k].user \in Users /\ records[k].use \in Uses
      BY <3>1 DEF ConsentRecord
    <3>3. /\ willed'[<<records[k].user, records[k].use>>] = willed[<<records[k].user, records[k].use>>]
          /\ willed[<<records[k].user, records[k].use>>] \in Nat
      BY <1>2, <3>1, <3>2
    <3>4. \/ records[k].expires <= clock
          \/ \E i \in DOMAIN records : i > k /\ About(records[i], records[k].user, records[k].use) /\ records[i].status = "revoked"
          \/ records[k].expires <= willed[<<records[k].user, records[k].use>>]
      BY DEF LedgerInv, Answered
    <3>5. ASSUME NEW i \in DOMAIN records, records[i].status = "revoked" PROVE records'[i] = records[i]
      <4>1. i # m
        BY <1>1, <3>5 DEF Granted
      <4> QED BY <1>5, <4>1
    <3> QED BY <1>2, <1>5, <3>1, <3>3, <3>4, <3>5 DEF Answered, About
  <2> QED BY <2>1, <2>2, <2>3
<1> QED BY <1>5, <1>7, <1>8 DEF LedgerInv

\* expire_all marks what is live: what is left granted has run out.
LEMMA ExpireAllKeeps ==
  ASSUME LedgerInv, NEW u \in Users, ExpireAll(u)
  PROVE LedgerInv'
<1>1. /\ records \in Seq(ConsentRecord) /\ clock \in Nat /\ willed \in [Users \X Uses -> Nat]
      /\ clock' = clock /\ willed' = [p \in Users \X Uses |-> IF p[1] = u THEN 0 ELSE willed[p]]
  BY DEF LedgerInv, ConsentTypes, ExpireAll
<1> DEFINE Marked(i) == records[i].user = u /\ Live(records[i])
<1>2. /\ DOMAIN records' = DOMAIN records
      /\ \A i \in DOMAIN records :
           records'[i] = IF Marked(i) THEN [records[i] EXCEPT !.status = "expired", !.expires = clock] ELSE records[i]
  BY DEF ExpireAll
<1>3. \A i \in DOMAIN records : records[i] \in ConsentRecord
  BY <1>1
<1>4. ASSUME NEW i \in DOMAIN records
      PROVE /\ records'[i] \in ConsentRecord
            /\ Marked(i) => records'[i].status = "expired"
            /\ ~Marked(i) => records'[i] = records[i]
  BY <1>1, <1>2, <1>3 DEF ConsentRecord
<1>5. PICK n \in Nat : DOMAIN records = 1..n
  BY <1>1
<1>6. records' \in Seq(ConsentRecord)
  <2>1. records' = [i \in 1..n |-> records'[i]]
    BY <1>2, <1>5 DEF ExpireAll
  <2> QED BY <1>4, <1>5, <2>1
<1>7. willed' \in [Users \X Uses -> Nat]
  BY <1>1
<1>8. ConsentTypes'
  BY <1>1, <1>6, <1>7 DEF ConsentTypes
<1>9. ASSUME NEW k \in DOMAIN records PROVE Answered(k)'
  <2>1. CASE Marked(k)
    BY <1>4, <2>1 DEF Answered
  <2>2. CASE ~Marked(k) /\ records[k].user = u
    <3> SUFFICES ASSUME records[k].status = "granted" PROVE Answered(k)'
      BY <1>4, <2>2 DEF Answered
    <3>1. records'[k] = records[k] /\ ~(records[k].expires > clock) /\ records[k].expires \in Nat
      BY <1>3, <1>4, <2>2 DEF Live, ConsentRecord
    <3> QED BY <1>1, <3>1 DEF Answered
  <2>3. CASE records[k].user # u
    <3>1. records'[k] = records[k] /\ records[k].user \in Users /\ records[k].use \in Uses
      BY <1>3, <1>4, <2>3 DEF ConsentRecord
    <3>2. /\ willed'[<<records[k].user, records[k].use>>] = willed[<<records[k].user, records[k].use>>]
          /\ willed[<<records[k].user, records[k].use>>] \in Nat
      BY <1>1, <2>3, <3>1
    <3>3. \A i \in DOMAIN records : records[i].status = "revoked" => records'[i] = records[i]
      BY <1>4 DEF Live
    <3>4. clock' >= clock /\ willed'[<<records[k].user, records[k].use>>] >= willed[<<records[k].user, records[k].use>>]
      BY <1>1, <3>2
    <3> QED BY <1>2, <1>8, <3>1, <3>3, <3>4, StaysAnswered
  <2> QED BY <2>1, <2>2, <2>3
<1> QED BY <1>2, <1>8, <1>9 DEF LedgerInv

\* Time only lets grants run out; a step that leaves the ledger alone keeps it.
LEMMA ConsentKeeps ==
  ASSUME LedgerInv, ConsentNext \/ UNCHANGED <<records, clock, willed>>
  PROVE LedgerInv'
<1>1. ASSUME NEW u \in Users, NEW d \in Uses, NEW ttl \in {1, 3}, Grant(u, d, ttl) PROVE LedgerInv'
  BY <1>1, GrantKeeps
<1>2. ASSUME NEW u \in Users, NEW d \in Uses, Revoke(u, d) PROVE LedgerInv'
  BY <1>2, RevokeKeeps
<1>3. ASSUME NEW u \in Users, ExpireAll(u) PROVE LedgerInv'
  BY <1>3, ExpireAllKeeps
<1>4. ASSUME clock' \in {clock, clock + 1}, UNCHANGED <<records, willed>> PROVE LedgerInv'
  <2>1. ConsentTypes'
    BY <1>4 DEF LedgerInv, ConsentTypes
  <2>2. ASSUME NEW k \in DOMAIN records PROVE Answered(k)'
    <3>1. records[k] \in ConsentRecord
      BY DEF LedgerInv, ConsentTypes
    <3>2. willed[<<records[k].user, records[k].use>>] \in Nat /\ clock \in Nat
      BY <3>1 DEF LedgerInv, ConsentTypes, ConsentRecord
    <3>3. clock' >= clock /\ willed'[<<records[k].user, records[k].use>>] >= willed[<<records[k].user, records[k].use>>]
      BY <1>4, <3>2
    <3> QED BY <1>4, <2>1, <3>3, StaysAnswered
  <2> QED BY <1>4, <2>1, <2>2 DEF LedgerInv
<1> QED BY <1>1, <1>2, <1>3, <1>4 DEF ConsentNext, TimePasses

\* The decision is local or a rejection: the automatic verdict never proceeds to a cloud, and the strict
\* one only for a class that it is not asked about.
LEMMA DecisionMeans ==
  ASSUME NEW u, NEW text \in TextShape, NEW hint \in {0, RESTRICTED}, NEW provider,
         Decision(u, text, hint, provider).target # "rejected"
  PROVE LET d == Decision(u, text, hint, provider)
        IN /\ d.target = "local" /\ d.class < RESTRICTED
           /\ text.raw.pii # {} => d.input = text.masked
           /\ u # NoUser => Consents(u, "local")
<1> DEFINE d == Decision(u, text, hint, provider)
           v == EvaluateFor(u, text, hint, "auto", FALSE)
           s == EvaluateFor(u, text, hint, "strict", TRUE)
           level == ClassOf(text, hint)
<1>1. hint \in 0 .. 4
  BY DEF RESTRICTED
<1>2. level \in 0 .. 4
  BY <1>1, ClassMeans
<1>3. /\ v.class = level /\ ~v.cloud
      /\ text.raw.pii # {} => v.input = text.masked
      /\ v.local => (u # NoUser => Consents(u, "local"))
  <2>1. Careful(v, text, hint, u # NoUser, u # NoUser /\ Consents(u, "local"), FALSE)
    BY <1>1, EvaluateMasks, Zenon DEF EvaluateFor
  <2> QED BY <2>1, Zenon DEF Careful
<1>4. s.cloud => level < RESTRICTED
  <2>1. Careful(s, text, hint, u # NoUser, u # NoUser /\ Consents(u, "local"), TRUE)
    BY <1>1, EvaluateMasks, Zenon DEF EvaluateFor
  <2>2. s.cloud => CanUseCloud(level)
    BY <2>1, Zenon DEF Careful
  <2> HIDE DEF s, level
  <2> QED BY <1>2, <2>2 DEF CanUseCloud, CONFIDENTIAL, RESTRICTED
<1>5. /\ v.class >= RESTRICTED => s.cloud
      /\ ~(v.class >= RESTRICTED) => \/ v.cloud
                                     \/ v.local /\ d.target = "local" /\ d.class = v.class /\ d.input = v.input
  BY DEF Decision
<1> HIDE DEF v, s, level, d
<1>6. level < RESTRICTED /\ ~(level >= RESTRICTED)
  BY <1>2, <1>3, <1>4, <1>5 DEF RESTRICTED
<1> QED BY <1>3, <1>5, <1>6 DEF d

LEMMA SubmitKeeps ==
  ASSUME HybridInv, NEW j \in Jobs, NEW u \in Users \cup {NoUser}, NEW text \in Prompts,
         NEW hint \in {0, RESTRICTED}, NEW provider, Submit(j, u, text, hint, provider)
  PROVE HybridInv'
<1> DEFINE d == Decision(u, text, hint, provider)
           where == IF d.target = "cloud" THEN "cloud" ELSE "local"
           new == [phase |-> where, target |-> d.target, user |-> u, text |-> text, class |-> d.class,
                   input |-> d.input, permitted |-> Wanted(u, where)]
<1>1. d.target # "rejected" /\ job' = [job EXCEPT ![j] = new] /\ UNCHANGED <<records, clock, willed>>
  BY DEF Submit
<1>2. /\ d.target = "local" /\ d.class < RESTRICTED
      /\ text.raw.pii # {} => d.input = text.masked
      /\ u # NoUser => Consents(u, "local")
  BY <1>1, DecisionMeans, PromptsAssumption
<1> HIDE DEF d
<1>3. Wanted(u, "local")
  <2> SUFFICES ASSUME u # NoUser PROVE willed[<<u, "local">>] > clock
    BY DEF Wanted
  <2>1. u \in Users /\ "local" \in Uses
    BY ConsentAssumption
  <2> QED BY <1>2, <2>1, ConsentsMean DEF HybridInv
<1>4. LedgerInv'
  BY <1>1, ConsentKeeps DEF HybridInv
<1>5. JobRight(new)
  BY <1>2, <1>3 DEF JobRight
<1> HIDE DEF new
<1>6. JobsRight'
  BY <1>1, <1>5 DEF HybridInv, JobsRight
<1> QED BY <1>4, <1>6 DEF HybridInv

\* An answer frees the job; a fallback would need a target that no job has.
LEMMA ModelEndsKeeps ==
  ASSUME HybridInv, NEW j \in Jobs, NEW outcome, ModelEnds(j, outcome)
  PROVE HybridInv'
<1>1. JobRight(job[j]) /\ job[j] # Unused
  BY DEF ModelEnds, HybridInv, JobsRight
<1>2. job[j].target # "local_with_cloud_fallback"
  BY <1>1 DEF JobRight
<1>3. job' = [job EXCEPT ![j] = Unused] /\ UNCHANGED <<records, clock, willed>>
  BY <1>2 DEF ModelEnds
<1>4. LedgerInv'
  BY <1>3, ConsentKeeps DEF HybridInv
<1>5. JobRight(Unused)
  BY DEF JobRight
<1>6. JobsRight'
  BY <1>3, <1>5 DEF HybridInv, JobsRight
<1> QED BY <1>4, <1>6 DEF HybridInv

LEMMA HybridInvHolds == HybridSpec => []HybridInv
<1>1. HybridInit => HybridInv
  <2> SUFFICES ASSUME HybridInit PROVE HybridInv
    OBVIOUS
  <2>1. LedgerInv
    BY DEF HybridInit, ConsentInit, LedgerInv, ConsentTypes, Answered
  <2>2. JobsRight
    BY DEF HybridInit, JobsRight, JobRight
  <2> QED BY <2>1, <2>2 DEF HybridInv
<1>2. HybridInv /\ [HybridNext]_hybridVars => HybridInv'
  <2> SUFFICES ASSUME HybridInv, [HybridNext]_hybridVars PROVE HybridInv'
    OBVIOUS
  <2>1. CASE (ConsentNext \/ UNCHANGED <<records, clock, willed>>) /\ job' = job
    BY <2>1, ConsentKeeps DEF HybridInv, JobsRight
  <2>2. CASE \E j \in Jobs, u \in Users \cup {NoUser}, text \in Prompts, hint \in {0, RESTRICTED},
               provider \in {"none", "openai", "google"} : Submit(j, u, text, hint, provider)
    BY <2>2, SubmitKeeps
  <2>3. CASE \E j \in Jobs, outcome \in {"ok", "error", "raises"} : ModelEnds(j, outcome)
    BY <2>3, ModelEndsKeeps
  <2>4. CASE RestartGate
    <3>1. LedgerInv'
      BY <2>4 DEF RestartGate, HybridInv, LedgerInv, ConsentTypes, Answered
    <3>2. JobsRight'
      BY <2>4 DEF RestartGate, JobsRight, JobRight
    <3> QED BY <3>1, <3>2 DEF HybridInv
  <2> QED BY <2>1, <2>2, <2>3, <2>4 DEF HybridNext, SetPolicy, hybridVars
<1> QED BY <1>1, <1>2, PTL DEF HybridSpec

\* No model is called for a user against the user's last word, however many users, uses, grants,
\* revocations, expiries, jobs and restarts there are (consent.py:71, gatekeeper.py:71).
THEOREM WillIsFollowed == HybridSpec => []WillFollowed
<1>1. HybridInv => WillFollowed
  BY DEF HybridInv, JobsRight, JobRight, WillFollowed, Unused
<1> QED BY <1>1, HybridInvHolds, PTL

\* For any number of users, texts, hints, providers, policies, jobs and restarts: what personal data is
\* found in a prompt reaches a model only masked, a prompt of a restricted or regulated class reaches
\* none and no prompt a cloud, and the user's last word permits the call (engine.py:57, executor.py:65,
\* consent.py:71).
THEOREM CallsArePermitted == HybridSpec => []CallsPermitted
<1>1. HybridInv => InputMasked
  BY DEF HybridInv, JobsRight, JobRight, InputMasked
<1>2. HybridSpec => []InputMasked
  BY <1>1, HybridInvHolds, PTL
<1> QED BY <1>2, WillIsFollowed, PTL DEF CallsPermitted

-----------------------------------------------------------------------------
(* The share is kept for every number of processes, every share, any bounds. *)

Tally == [total : Nat, planner : Nat, executor : Nat, blocked : Nat, start : Int]

\* What the steps keep: tallies are tallies, and each within its share, the file's too.
FreqInv ==
  /\ tally \in [Controllers -> Tally] /\ tallyFile \in Tally /\ hour \in Nat
  /\ PlannerShare

\* A fresh window, and one more call that is no planner's, are within the share.
LEMMA FreshWithin ==
  ASSUME NEW h \in Int PROVE Fresh(h) \in Tally /\ WithinShare(Fresh(h))
BY ShareAssumption DEF Fresh, Tally, WithinShare

LEMMA NoTallyWithin == NoTally \in Tally /\ WithinShare(NoTally)
BY ShareAssumption DEF NoTally, Tally, WithinShare

LEMMA MoreCalls ==
  ASSUME NEW a \in Nat, NEW b \in Nat, a * ShareDen <= ShareNum * b
  PROVE a * ShareDen <= ShareNum * (b + 1)
<1>1. ShareNum * (b + 1) = ShareNum * b + ShareNum
  BY ShareAssumption
<1>2. ShareNum * b \in Nat /\ a * ShareDen \in Nat
  BY ShareAssumption
<1> QED BY <1>1, <1>2, ShareAssumption

\* The window of a call is the process's own or a fresh one.
LEMMA CurrentWithin ==
  ASSUME FreqInv, NEW p \in Controllers
  PROVE Current(p) \in Tally /\ WithinShare(Current(p))
<1>1. CASE WindowOver(tally[p])
  BY <1>1, FreshWithin DEF Current, FreqInv
<1>2. CASE ~WindowOver(tally[p])
  BY <1>2 DEF Current, FreqInv, PlannerShare
<1> QED BY <1>1, <1>2

LEMMA TallyUpdates ==
  ASSUME NEW t \in Tally, NEW n \in Nat, NEW m \in Nat
  PROVE /\ [t EXCEPT !.total = n, !.planner = m] \in Tally
        /\ [t EXCEPT !.total = n, !.blocked = m] \in Tally
        /\ [t EXCEPT !.total = n, !.executor = m] \in Tally
BY DEF Tally

\* A planner call is counted if it is within the share, and otherwise only the attempt is.
LEMMA OutcomeWithin ==
  ASSUME NEW t \in Tally, WithinShare(t)
  PROVE Outcome(t) \in Tally /\ WithinShare(Outcome(t))
<1>1. t.total + 1 \in Nat /\ t.planner + 1 \in Nat /\ t.blocked + 1 \in Nat
  BY DEF Tally
<1>2. /\ Tried(t) = [t EXCEPT !.total = t.total + 1, !.planner = t.planner + 1]
      /\ Refused(t) = [t EXCEPT !.total = t.total + 1, !.blocked = t.blocked + 1]
  BY DEF Tried, Refused
<1>3. Tried(t) \in Tally /\ Refused(t) \in Tally
  <2> DEFINE n == t.total + 1
             m == t.planner + 1
             k == t.blocked + 1
  <2>1. n \in Nat /\ m \in Nat /\ k \in Nat
    BY <1>1
  <2>2. Tried(t) = [t EXCEPT !.total = n, !.planner = m] /\ Refused(t) = [t EXCEPT !.total = n, !.blocked = k]
    BY <1>2
  <2> HIDE DEF n, m, k
  <2>3. [t EXCEPT !.total = n, !.planner = m] \in Tally
    BY <2>1, TallyUpdates
  <2>4. [t EXCEPT !.total = n, !.blocked = k] \in Tally
    BY <2>1, TallyUpdates
  <2> QED BY <2>2, <2>3, <2>4
<1>4. WithinShare(Refused(t))
  <2>1. t.planner * ShareDen <= ShareNum * (t.total + 1)
    BY MoreCalls DEF Tally, WithinShare
  <2>2. Refused(t).planner = t.planner /\ Refused(t).total = t.total + 1
    BY DEF Tally, Refused
  <2> QED BY <2>1, <2>2 DEF WithinShare
<1> QED BY <1>3, <1>4 DEF Outcome

LEMMA ExecutorWithin ==
  ASSUME NEW t \in Tally, WithinShare(t)
  PROVE LET u == [t EXCEPT !.total = @ + 1, !.executor = @ + 1] IN u \in Tally /\ WithinShare(u)
<1> DEFINE u == [t EXCEPT !.total = t.total + 1, !.executor = t.executor + 1]
<1>1. t.total + 1 \in Nat /\ t.executor + 1 \in Nat
  BY SMTT(30) DEF Tally
<1>2. u \in Tally
  BY <1>1, TallyUpdates
<1>3. u.planner = t.planner /\ u.total = t.total + 1
  BY DEF Tally
<1>4. t.planner * ShareDen <= ShareNum * (t.total + 1)
  BY MoreCalls DEF Tally, WithinShare
<1> QED BY <1>2, <1>3, <1>4 DEF WithinShare

\* What a process has and what it saves, or fails to save, are within the share.
LEMMA StoredWithin ==
  ASSUME FreqInv, NEW p \in Controllers, NEW t \in Tally, WithinShare(t),
         tally' = [tally EXCEPT ![p] = t], Saves(t) \/ UNCHANGED tallyFile, UNCHANGED hour
  PROVE FreqInv'
<1>1. tally' \in [Controllers -> Tally] /\ \A q \in Controllers : WithinShare(tally'[q])
  BY DEF FreqInv, PlannerShare
<1>2. tallyFile' \in Tally /\ WithinShare(tallyFile')
  BY NoTallyWithin DEF FreqInv, PlannerShare, Saves
<1> QED BY <1>1, <1>2 DEF FreqInv, PlannerShare, WithinShare

LEMMA FreqInvInductive == FreqInv /\ [FreqNext]_freqVars => FreqInv'
<1> SUFFICES ASSUME FreqInv, [FreqNext]_freqVars PROVE FreqInv'
  OBVIOUS
<1>1. ASSUME NEW p \in Controllers, PlannerCall(p) PROVE FreqInv'
  <2>1. Outcome(Current(p)) \in Tally /\ WithinShare(Outcome(Current(p)))
    BY CurrentWithin, OutcomeWithin
  <2> QED BY <1>1, <2>1, StoredWithin DEF PlannerCall
<1>2. ASSUME NEW p \in Controllers, ExecutorCall(p) PROVE FreqInv'
  <2> DEFINE t == [Current(p) EXCEPT !.total = @ + 1, !.executor = @ + 1]
  <2>1. t \in Tally /\ WithinShare(t)
    BY CurrentWithin, ExecutorWithin
  <2>2. tally' = [tally EXCEPT ![p] = t] /\ Saves(t) /\ UNCHANGED hour
    BY <1>2 DEF ExecutorCall
  <2> HIDE DEF t
  <2> QED BY <2>1, <2>2, StoredWithin
<1>3. ASSUME NEW p \in Controllers, Reload(p) PROVE FreqInv'
  <2> DEFINE t == IF tallyFile = NoTally \/ WindowOver(tallyFile) THEN Fresh(hour) ELSE tallyFile
  <2>1. t \in Tally /\ WithinShare(t)
    <3>1. tallyFile \in Tally /\ WithinShare(tallyFile) /\ hour \in Int
      BY DEF FreqInv, PlannerShare
    <3> QED BY <3>1, FreshWithin
  <2>2. tally' = [tally EXCEPT ![p] = t] /\ (Saves(t) \/ UNCHANGED tallyFile) /\ UNCHANGED hour
    BY <1>3 DEF Reload
  <2> HIDE DEF t
  <2> QED BY <2>1, <2>2, StoredWithin
<1>4. CASE HourPasses
  BY <1>4 DEF HourPasses, FreqInv, PlannerShare, WithinShare
<1>5. CASE UNCHANGED freqVars
  BY <1>5 DEF freqVars, FreqInv, PlannerShare, WithinShare
<1> QED BY <1>1, <1>2, <1>3, <1>4, <1>5 DEF FreqNext

\* The planner never has more than its share of the calls, for every number of processes, every share
\* and any number of calls, saves that fail and windows that end.
THEOREM ShareKept == FreqSpec => []PlannerShare
<1>1. FreqInit => FreqInv
  BY FreshWithin, NoTallyWithin DEF FreqInit, FreqInv, PlannerShare
<1>2. FreqInv => PlannerShare
  BY DEF FreqInv
<1> QED BY <1>1, <1>2, FreqInvInductive, PTL DEF FreqSpec

-----------------------------------------------------------------------------
(* The sandbox: what the budget says is what the log adds up to.            *)

Execution == [text : Queries, epsilon : Costs]

Box ==
  [status : {"created", "active", "destroyed", "failed"}, used : Nat, queries : Nat, executions : Seq(Execution)]

Query == [phase : {"running", "charged"}, text : Queries, epsilon : Costs, alone : BOOLEAN]

Account == [besideUnits : Nat, beside : Nat, lostUnits : Nat, lost : Nat]

SandboxType == box \in Box /\ account \in Account /\ underway \in [Callers -> Query \cup {NoQuery}]

\* Every query under way passed the checks, at most one whose handler runs began alone, and there is room
\* for that one, whatever was charged beside it.
AllFit == \A c \in Callers : underway[c] # NoQuery => underway[c].epsilon <= Epsilon /\ Admissible(underway[c].text)

RunsAlone(q) == q \in Query /\ q.phase = "running" /\ q.alone

OneAlone == \A c, d \in Callers : RunsAlone(underway[c]) /\ RunsAlone(underway[d]) => c = d

RoomForAlone ==
  \A c \in Callers : RunsAlone(underway[c]) =>
    /\ box.used + underway[c].epsilon <= Epsilon + account.besideUnits
    /\ box.queries + 1 <= MaxQueries + account.beside

BoxInv == SandboxType /\ AllFit /\ OneAlone /\ RoomForAlone /\ BudgetKept

LEMMA UpTo == \A k \in Nat : IsFiniteSet(1..k) /\ Cardinality(1..k) = k
<1> SUFFICES ASSUME NEW k \in Nat PROVE IsFiniteSet(1..k) /\ Cardinality(1..k) = k
  OBVIOUS
<1>1. 1 \in Int /\ k \in Int
  OBVIOUS
<1>2. IsFiniteSet(1..k) /\ Cardinality(1..k) = IF 1 > k THEN 0 ELSE k - 1 + 1
  BY <1>1, FS_Interval, Zenon
<1> QED BY <1>2

\* Finitely many entries have finitely many units.
LEMMA UnitsFinite ==
  ASSUME NEW D, IsFiniteSet(D), NEW e
  PROVE IsFiniteSet(Units(D, e)) /\ Cardinality(Units(D, e)) \in Nat
<1>1. IsFiniteSet(1..Epsilon)
  BY SandboxAssumption, UpTo
<1>2. IsFiniteSet(D \X (1..Epsilon))
  BY <1>1, FS_Product
<1>3. Units(D, e) \subseteq D \X (1..Epsilon)
  BY DEF Units
<1> QED BY <1>2, <1>3, FS_Subset, FS_CardinalityType

\* One more entry adds its own units and no others.
LEMMA UnitsAdd ==
  ASSUME NEW D, IsFiniteSet(D), NEW e, NEW g, NEW x, x \notin D, \A y \in D : g[y].epsilon = e[y].epsilon,
         NEW k \in Nat, k <= Epsilon, g[x].epsilon = k
  PROVE Cardinality(Units(D \cup {x}, g)) = Cardinality(Units(D, e)) + k
<1> DEFINE added == {x} \X (1..k)
<1>1. Epsilon \in Nat
  BY SandboxAssumption
<1>2. Units(D \cup {x}, g) = Units(D, e) \cup added /\ Units(D, e) \cap added = {}
  BY <1>1 DEF Units
<1>3. IsFiniteSet(added) /\ Cardinality(added) = k
  <2>1. IsFiniteSet({x}) /\ Cardinality({x}) = 1
    BY FS_Singleton
  <2>2. IsFiniteSet(1..k) /\ Cardinality(1..k) = k
    BY UpTo
  <2>3. IsFiniteSet(added) /\ Cardinality(added) = Cardinality({x}) * Cardinality(1..k)
    BY <2>1, <2>2, FS_Product
  <2>4. Cardinality(added) = 1 * k
    BY <2>1, <2>2, <2>3, Zenon
  <2> QED BY <2>3, <2>4
<1> HIDE DEF added
<1>4. IsFiniteSet(Units(D, e)) /\ Cardinality(Units(D, e)) \in Nat
  BY UnitsFinite
<1>5. Cardinality(Units(D \cup {x}, g)) = Cardinality(Units(D, e)) + k - Cardinality({})
  BY <1>2, <1>3, <1>4, FS_Union
<1> QED BY <1>4, <1>5, FS_EmptySet

LEMMA UnitsSame ==
  ASSUME NEW D, NEW e, NEW g, \A y \in D : g[y].epsilon = e[y].epsilon
  PROVE Units(D, g) = Units(D, e)
BY DEF Units

\* What the invariant says of the log and of the counters, of which most steps change nothing.
LEMMA CountersStay ==
  ASSUME BoxInv, box'.used = box.used, box'.queries = box.queries, box'.executions = box.executions,
         account' = account, AwaitLog' = AwaitLog, \A c \in AwaitLog : underway'[c] = underway[c]
  PROVE BudgetKept'
<1>1. Pending' = Pending
  BY UnitsSame DEF Pending
<1>2. Charges' = Charges
  BY DEF Charges, Units
<1> QED BY <1>1, <1>2 DEF BoxInv, BudgetKept, OverspentBeside, LogAddsUp, Admissible

LEMMA StatusKeeps ==
  ASSUME BoxInv, NEW s \in {"created", "active", "destroyed", "failed"}, box' = [box EXCEPT !.status = s],
         UNCHANGED <<underway, account>>
  PROVE BoxInv'
<1>1. /\ box' \in Box /\ box'.used = box.used /\ box'.queries = box.queries
      /\ box'.executions = box.executions
  BY DEF BoxInv, SandboxType, Box
<1>2. AwaitLog' = AwaitLog
  BY DEF AwaitLog
<1>3. BudgetKept'
  BY <1>1, <1>2, CountersStay
<1> QED BY <1>1, <1>3 DEF BoxInv, SandboxType, AllFit, OneAlone, RoomForAlone, RunsAlone, Admissible

\* A query that is checked: alone, there is room for it.
LEMMA BeginKeeps ==
  ASSUME BoxInv, NEW c \in Callers, NEW text \in Queries, NEW epsilon \in Costs, BeginQuery(c, text, epsilon)
  PROVE BoxInv'
<1> DEFINE q == [phase |-> "running", text |-> text, epsilon |-> epsilon, alone |-> \A d \in Callers : underway[d] = NoQuery]
<1>1. /\ underway[c] = NoQuery /\ underway' = [underway EXCEPT ![c] = q] /\ box' = box /\ account' = account
      /\ box.used + epsilon <= Epsilon /\ ~(box.queries >= MaxQueries) /\ Admissible(text)
  BY DEF BeginQuery, InBudget, Exhausted
<1>2. /\ q \in Query /\ q.text = text /\ q.epsilon = epsilon /\ q.phase = "running"
      /\ q.alone => \A d \in Callers : underway[d] = NoQuery
  BY DEF Query
<1>3. /\ box \in Box /\ account \in Account /\ underway \in [Callers -> Query \cup {NoQuery}]
      /\ box.used \in Nat /\ box.queries \in Nat /\ epsilon \in Nat /\ Epsilon \in Nat /\ MaxQueries \in Nat
      /\ account.besideUnits \in Nat /\ account.beside \in Nat
  BY SandboxAssumption DEF BoxInv, SandboxType, Box, Account
<1> HIDE DEF q
<1>4. /\ underway'[c] = q /\ \A d \in Callers \ {c} : underway'[d] = underway[d]
      /\ underway' \in [Callers -> Query \cup {NoQuery}]
  BY <1>1, <1>2, <1>3
<1>5. SandboxType'
  BY <1>1, <1>3, <1>4 DEF SandboxType
<1>6. epsilon <= Epsilon
  BY <1>1, <1>3
<1>7. AllFit'
  BY <1>1, <1>2, <1>4, <1>6 DEF BoxInv, AllFit, Admissible
<1>8. ~RunsAlone(NoQuery)
  BY DEF RunsAlone, NoQuery
<1>9. OneAlone'
  BY <1>2, <1>4, <1>8 DEF BoxInv, OneAlone, RunsAlone
<1>10. RoomForAlone'
  BY <1>1, <1>2, <1>3, <1>4, <1>8 DEF BoxInv, RoomForAlone, RunsAlone
<1>11. AwaitLog' = AwaitLog
  BY <1>1, <1>2, <1>4 DEF AwaitLog, NoQuery
<1>12. BudgetKept'
  <2>1. c \notin AwaitLog
    BY <1>1 DEF AwaitLog, NoQuery
  <2>2. \A d \in AwaitLog : underway'[d] = underway[d]
    BY <1>4, <2>1 DEF AwaitLog
  <2> QED BY <1>1, <1>11, <2>2, CountersStay
<1> QED BY <1>5, <1>7, <1>9, <1>10, <1>12 DEF BoxInv

LEMMA RaiseKeeps == ASSUME BoxInv, NEW c \in Callers, HandlerRaises(c) PROVE BoxInv'
<1>1. /\ underway[c].phase = "running" /\ underway' = [underway EXCEPT ![c] = NoQuery] /\ account' = account
      /\ box' = [box EXCEPT !.status = "failed"]
  BY DEF HandlerRaises
<1>2. /\ box' \in Box /\ box'.used = box.used /\ box'.queries = box.queries
      /\ box'.executions = box.executions
  BY <1>1 DEF BoxInv, SandboxType, Box
<1>3. /\ underway'[c] = NoQuery /\ \A d \in Callers \ {c} : underway'[d] = underway[d]
      /\ underway' \in [Callers -> Query \cup {NoQuery}]
  BY <1>1 DEF BoxInv, SandboxType
<1>4. AwaitLog' = AwaitLog /\ c \notin AwaitLog
  BY <1>1, <1>3 DEF AwaitLog, NoQuery
<1>5. BudgetKept'
  <2>1. \A d \in AwaitLog : underway'[d] = underway[d]
    BY <1>3, <1>4 DEF AwaitLog
  <2> QED BY <1>1, <1>2, <1>4, <2>1, CountersStay
<1>6. ~RunsAlone(NoQuery)
  BY DEF RunsAlone, NoQuery
<1>7. AllFit'
  BY <1>3 DEF BoxInv, AllFit, Admissible
<1>8. OneAlone'
  BY <1>3, <1>6 DEF BoxInv, OneAlone, RunsAlone
<1>9. RoomForAlone'
  BY <1>1, <1>2, <1>3, <1>6 DEF BoxInv, RoomForAlone, RunsAlone
<1> QED BY <1>1, <1>2, <1>3, <1>5, <1>7, <1>8, <1>9 DEF BoxInv, SandboxType

\* A query that is charged is one of those that await the log.
LEMMA ChargeAdds ==
  ASSUME BoxInv, NEW c \in Callers, Charge(c)
  PROVE /\ underway[c] \in Query /\ underway[c].epsilon \in Nat /\ underway[c].epsilon <= Epsilon
        /\ underway'[c] = [underway[c] EXCEPT !.phase = "charged"] /\ \A d \in Callers \ {c} : underway'[d] = underway[d]
        /\ underway' \in [Callers -> Query \cup {NoQuery}]
        /\ Cardinality(AwaitLog) \in Nat /\ Cardinality(AwaitLog') = Cardinality(AwaitLog) + 1
        /\ Cardinality(Pending) \in Nat /\ Cardinality(Pending') = Cardinality(Pending) + underway[c].epsilon
<1> DEFINE q == underway[c]
           r == [q EXCEPT !.phase = "charged"]
<1>1. q.phase = "running" /\ underway' = [underway EXCEPT ![c] = r]
  BY DEF Charge
<1>2. q \in Query
  BY <1>1 DEF BoxInv, SandboxType, NoQuery
<1>3. q.epsilon \in Nat /\ q.epsilon <= Epsilon
  <2>1. q # NoQuery
    BY <1>1 DEF NoQuery
  <2> QED BY <1>2, <2>1, SandboxAssumption DEF BoxInv, AllFit, Query
<1>4. r \in Query /\ r.phase = "charged" /\ r.epsilon = q.epsilon
  BY <1>2 DEF Query
<1>5. underway \in [Callers -> Query \cup {NoQuery}]
  BY DEF BoxInv, SandboxType
<1> HIDE DEF q, r
<1>6. /\ underway'[c] = r /\ \A d \in Callers \ {c} : underway'[d] = underway[d]
      /\ underway' \in [Callers -> Query \cup {NoQuery}]
  BY <1>1, <1>4, <1>5
<1>7. AwaitLog' = AwaitLog \cup {c} /\ c \notin AwaitLog
  BY <1>1, <1>4, <1>6 DEF AwaitLog, q
<1>8. IsFiniteSet(AwaitLog)
  BY SandboxAssumption, FS_Subset DEF AwaitLog
<1>9. Cardinality(AwaitLog) \in Nat /\ Cardinality(AwaitLog') = Cardinality(AwaitLog) + 1
  BY <1>7, <1>8, FS_AddElement, FS_CardinalityType
<1>10. \A d \in AwaitLog : underway'[d].epsilon = underway[d].epsilon
  BY <1>6, <1>7 DEF AwaitLog
<1>11. Cardinality(Units(AwaitLog \cup {c}, underway')) = Cardinality(Units(AwaitLog, underway)) + q.epsilon
  BY <1>3, <1>4, <1>6, <1>7, <1>8, <1>10, UnitsAdd
<1>12. Cardinality(Pending) \in Nat /\ Cardinality(Pending') = Cardinality(Pending) + q.epsilon
  BY <1>7, <1>8, <1>11, UnitsFinite DEF Pending
<1> QED BY <1>2, <1>3, <1>6, <1>9, <1>12 DEF q, r

Accounts(b, a, units, count, lostUnits, lost) ==
  /\ b \in Account /\ b.besideUnits = a.besideUnits + units /\ b.beside = a.beside + count
  /\ b.lostUnits = a.lostUnits + lostUnits /\ b.lost = a.lost + lost

LEMMA AccountUpdates ==
  ASSUME NEW a \in Account, NEW k \in Nat
  PROVE /\ Accounts(a, a, 0, 0, 0, 0)
        /\ Accounts([a EXCEPT !.besideUnits = a.besideUnits + k, !.beside = a.beside + 1], a, k, 1, 0, 0)
        /\ Accounts([a EXCEPT !.lostUnits = a.lostUnits + k, !.lost = a.lost + 1], a, 0, 0, k, 1)
<1>1. a.besideUnits \in Nat /\ a.beside \in Nat /\ a.lostUnits \in Nat /\ a.lost \in Nat
  BY DEF Account
<1> DEFINE b == [a EXCEPT !.besideUnits = a.besideUnits + k, !.beside = a.beside + 1]
           c == [a EXCEPT !.lostUnits = a.lostUnits + k, !.lost = a.lost + 1]
<1>2. a.besideUnits + k \in Nat /\ a.beside + 1 \in Nat /\ a.lostUnits + k \in Nat /\ a.lost + 1 \in Nat
  BY <1>1
<1>3. Accounts(b, a, k, 1, 0, 0)
  <2>1. b \in Account /\ b.lostUnits = a.lostUnits /\ b.lost = a.lost
    BY <1>2 DEF Account
  <2>2. b.besideUnits = a.besideUnits + k /\ b.beside = a.beside + 1
    BY DEF Account
  <2> HIDE DEF b
  <2> QED BY <1>1, <2>1, <2>2 DEF Accounts
<1>4. Accounts(c, a, 0, 0, k, 1)
  <2>1. c \in Account /\ c.besideUnits = a.besideUnits /\ c.beside = a.beside
    BY <1>2 DEF Account
  <2>2. c.lostUnits = a.lostUnits + k /\ c.lost = a.lost + 1
    BY DEF Account
  <2> HIDE DEF c
  <2> QED BY <1>1, <2>1, <2>2 DEF Accounts
<1>5. Accounts(a, a, 0, 0, 0, 0)
  BY <1>1 DEF Accounts, Account
<1> QED BY <1>3, <1>4, <1>5 DEF b, c

\* A charge counts the query and its units.
LEMMA BoxCharged ==
  ASSUME NEW b \in Box, NEW k \in Nat
  PROVE LET c == [b EXCEPT !.used = b.used + k, !.queries = b.queries + 1]
        IN c \in Box /\ c.used = b.used + k /\ c.queries = b.queries + 1 /\ c.executions = b.executions
<1>1. b.used + k \in Nat /\ b.queries + 1 \in Nat
  BY DEF Box
<1> QED BY <1>1 DEF Box

LEMMA ChargeKeeps == ASSUME BoxInv, NEW c \in Callers, Charge(c) PROVE BoxInv'
<1> DEFINE q == underway[c]
           k == q.epsilon
<1>1. /\ q.phase = "running" /\ box' = [box EXCEPT !.used = box.used + k, !.queries = box.queries + 1]
      /\ account' = IF q.alone THEN account
                    ELSE [account EXCEPT !.besideUnits = account.besideUnits + k, !.beside = account.beside + 1]
  BY DEF Charge
<1>2. /\ q \in Query /\ k \in Nat /\ k <= Epsilon
      /\ underway'[c] = [q EXCEPT !.phase = "charged"] /\ \A d \in Callers \ {c} : underway'[d] = underway[d]
      /\ underway' \in [Callers -> Query \cup {NoQuery}]
      /\ Cardinality(AwaitLog) \in Nat /\ Cardinality(AwaitLog') = Cardinality(AwaitLog) + 1
      /\ Cardinality(Pending) \in Nat /\ Cardinality(Pending') = Cardinality(Pending) + k
  BY ChargeAdds
<1>3. /\ box \in Box /\ account \in Account /\ box.used \in Nat /\ box.queries \in Nat /\ Epsilon \in Nat /\ MaxQueries \in Nat
      /\ account.besideUnits \in Nat /\ account.beside \in Nat /\ account.lostUnits \in Nat /\ account.lost \in Nat
      /\ box.executions \in Seq(Execution) /\ q.alone \in BOOLEAN
  BY <1>2, SandboxAssumption DEF BoxInv, SandboxType, Box, Account, Query
<1> HIDE DEF k
<1>4. /\ box' \in Box /\ box'.used = box.used + k /\ box'.queries = box.queries + 1
      /\ box'.executions = box.executions
  <2> HIDE DEF q
  <2> QED BY <1>1, <1>2, <1>3, BoxCharged
<1>5. /\ account' \in Account /\ account'.lostUnits = account.lostUnits /\ account'.lost = account.lost
      /\ q.alone => account' = account
      /\ ~q.alone => account'.besideUnits = account.besideUnits + k /\ account'.beside = account.beside + 1
  <2> HIDE DEF q
  <2>1. CASE q.alone
    BY <1>1, <1>3, <2>1
  <2>2. CASE ~q.alone
    <3>1. Accounts(account', account, k, 1, 0, 0)
      BY <1>1, <1>2, <1>3, <2>2, AccountUpdates
    <3> QED BY <1>3, <2>2, <3>1 DEF Accounts
  <2> QED BY <1>3, <2>1, <2>2
<1>6. LET r == underway'[c] IN r \in Query /\ r.phase = "charged" /\ r.text = q.text /\ r.epsilon = k
  BY <1>2 DEF Query, k
<1>7. SandboxType'
  BY <1>2, <1>4, <1>5 DEF SandboxType
<1>8. ~RunsAlone(underway'[c])
  BY <1>6 DEF RunsAlone
<1>9. RunsAlone(q) <=> q.alone
  BY <1>1, <1>2, <1>3 DEF RunsAlone
<1> HIDE DEF q
<1>10. AllFit'
  <2>1. Admissible(q.text)
    BY <1>1 DEF BoxInv, AllFit, NoQuery, q
  <2> QED BY <1>2, <1>6, <2>1 DEF BoxInv, AllFit, Admissible
<1>11. OneAlone'
  BY <1>2, <1>8 DEF BoxInv, OneAlone
<1>12. RoomForAlone'
  <2> SUFFICES ASSUME NEW d \in Callers, RunsAlone(underway'[d])
               PROVE /\ box'.used + underway'[d].epsilon <= Epsilon + account'.besideUnits
                     /\ box'.queries + 1 <= MaxQueries + account'.beside
    BY DEF RoomForAlone
  <2>1. d # c /\ underway'[d] = underway[d] /\ RunsAlone(underway[d])
    BY <1>2, <1>8
  <2>2. ~q.alone
    BY <1>9, <2>1 DEF BoxInv, OneAlone, q
  <2>3. underway[d].epsilon \in Nat
    BY <2>1, SandboxAssumption DEF RunsAlone, Query
  <2>4. /\ box.used + underway[d].epsilon <= Epsilon + account.besideUnits
        /\ box.queries + 1 <= MaxQueries + account.beside
    BY <2>1 DEF BoxInv, RoomForAlone
  <2>5. /\ box'.used = box.used + k /\ box'.queries = box.queries + 1
        /\ account'.besideUnits = account.besideUnits + k /\ account'.beside = account.beside + 1
    BY <1>4, <1>5, <2>2
  <2> DEFINE e == underway[d].epsilon
  <2>6. e \in Nat /\ box.used + e <= Epsilon + account.besideUnits /\ underway'[d].epsilon = e
    BY <2>1, <2>3, <2>4
  <2> HIDE DEF e
  <2>7. box'.used + e <= Epsilon + account'.besideUnits
    BY <1>2, <1>3, <2>5, <2>6, SMTT(30)
  <2>8. box'.queries + 1 <= MaxQueries + account'.beside
    BY <1>3, <2>4, <2>5
  <2> QED BY <2>6, <2>7, <2>8
<1>13. OverspentBeside'
  <2>1. CASE q.alone
    <3>1. box.used + k <= Epsilon + account.besideUnits /\ box.queries + 1 <= MaxQueries + account.beside
      BY <1>9, <2>1 DEF BoxInv, RoomForAlone, q, k
    <3> QED BY <1>4, <1>5, <2>1, <3>1 DEF OverspentBeside
  <2>2. CASE ~q.alone
    <3>1. /\ box'.used = box.used + k /\ box'.queries = box.queries + 1
          /\ account'.besideUnits = account.besideUnits + k /\ account'.beside = account.beside + 1
      BY <1>4, <1>5, <2>2
    <3>2. box.used <= Epsilon + account.besideUnits /\ box.queries <= MaxQueries + account.beside
      BY DEF BoxInv, BudgetKept, OverspentBeside
    <3>3. box'.used <= Epsilon + account'.besideUnits
      BY <1>2, <1>3, <3>1, <3>2, SMTT(30)
    <3>4. box'.queries <= MaxQueries + account'.beside
      BY <1>3, <3>1, <3>2
    <3> QED BY <3>3, <3>4 DEF OverspentBeside
  <2> QED BY <2>1, <2>2
<1>14. LogAddsUp'
  <2>1. Charges' = Charges
    BY <1>4 DEF Charges, Units
  <2>2. /\ box.used = Cardinality(Charges) + Cardinality(Pending) + account.lostUnits
        /\ box.queries = Len(box.executions) + Cardinality(AwaitLog) + account.lost
        /\ \A i \in DOMAIN box.executions : Admissible(box.executions[i].text)
    BY DEF BoxInv, BudgetKept, LogAddsUp
  <2>3. IsFiniteSet(DOMAIN box.executions) /\ Len(box.executions) \in Nat
    BY <1>3, LenProperties, UpTo
  <2>4. Cardinality(Charges) \in Nat
    BY <2>3, UnitsFinite DEF Charges
  <2>5. box'.used = Cardinality(Charges) + (Cardinality(Pending) + k) + account.lostUnits
    BY <1>2, <1>3, <1>4, <2>2, <2>4, SMTT(30)
  <2>6. box'.queries = Len(box.executions) + (Cardinality(AwaitLog) + 1) + account.lost
    <3>1. box'.queries = box.queries + 1
      BY <1>4
    <3>2. Cardinality(AwaitLog) \in Nat /\ account.lost \in Nat
      BY <1>2, <1>3
    <3> QED BY <2>2, <2>3, <3>1, <3>2
  <2>7. (\A i \in DOMAIN box.executions : Admissible(box.executions[i].text))'
    BY <1>4, <2>2 DEF Admissible
  <2> QED BY <1>2, <1>4, <1>5, <2>1, <2>5, <2>6, <2>7 DEF LogAddsUp
<1> QED BY <1>7, <1>10, <1>11, <1>12, <1>13, <1>14 DEF BoxInv, BudgetKept

\* A query that leaves those that await the log takes its units with it; its handler had ended before.
LEMMA LeavesPending ==
  ASSUME BoxInv, NEW c \in Callers, underway[c].phase = "charged", underway' = [underway EXCEPT ![c] = NoQuery]
  PROVE /\ underway[c] \in Query /\ underway[c].epsilon \in Nat /\ underway[c].epsilon <= Epsilon
        /\ Admissible(underway[c].text)
        /\ underway' \in [Callers -> Query \cup {NoQuery}]
        /\ Cardinality(AwaitLog') \in Nat /\ Cardinality(AwaitLog) = Cardinality(AwaitLog') + 1
        /\ Cardinality(Pending') \in Nat /\ Cardinality(Pending) = Cardinality(Pending') + underway[c].epsilon
        /\ \A d \in Callers : underway'[d] # NoQuery => underway'[d] = underway[d]
<1> DEFINE q == underway[c]
<1>1. q \in Query /\ q # NoQuery
  BY DEF BoxInv, SandboxType, NoQuery
<1>2. q.epsilon \in Nat /\ q.epsilon <= Epsilon /\ Admissible(q.text)
  BY <1>1, SandboxAssumption DEF BoxInv, AllFit, Query
<1>3. /\ underway'[c] = NoQuery /\ \A d \in Callers \ {c} : underway'[d] = underway[d]
      /\ underway' \in [Callers -> Query \cup {NoQuery}]
  BY DEF BoxInv, SandboxType
<1>4. AwaitLog = AwaitLog' \cup {c} /\ c \notin AwaitLog'
  BY <1>3 DEF AwaitLog, NoQuery
<1>5. IsFiniteSet(AwaitLog')
  BY SandboxAssumption, FS_Subset DEF AwaitLog
<1>6. Cardinality(AwaitLog') \in Nat /\ Cardinality(AwaitLog) = Cardinality(AwaitLog') + 1
  BY <1>4, <1>5, FS_AddElement, FS_CardinalityType
<1>7. \A d \in AwaitLog' : underway[d].epsilon = underway'[d].epsilon
  BY <1>3, <1>4 DEF AwaitLog
<1> HIDE DEF q
<1>8. Cardinality(Units(AwaitLog' \cup {c}, underway)) = Cardinality(Units(AwaitLog', underway')) + q.epsilon
  <2> DEFINE k == q.epsilon
             D == AwaitLog'
             g == underway'
  <2>1. k \in Nat /\ k <= Epsilon /\ underway[c].epsilon = k
    BY <1>2 DEF q
  <2>2. IsFiniteSet(D) /\ c \notin D /\ \A y \in D : underway[y].epsilon = g[y].epsilon
    BY <1>4, <1>5, <1>7
  <2> HIDE DEF k, D, g
  <2>3. Cardinality(Units(D \cup {c}, underway)) = Cardinality(Units(D, g)) + k
    BY <2>1, <2>2, UnitsAdd
  <2> QED BY <2>3 DEF k, D, g
<1>9. Cardinality(Pending') \in Nat /\ Cardinality(Pending) = Cardinality(Pending') + q.epsilon
  BY <1>4, <1>5, <1>8, UnitsFinite DEF Pending
<1> QED BY <1>1, <1>2, <1>3, <1>6, <1>9 DEF q

\* Then nothing is to be shown but that the counters add up.
LEMMA LeavingKeeps ==
  ASSUME BoxInv, NEW c \in Callers, underway[c].phase = "charged", underway' = [underway EXCEPT ![c] = NoQuery],
         box' \in Box, account' \in Account, box'.used = box.used, box'.queries = box.queries,
         account'.besideUnits = account.besideUnits, account'.beside = account.beside, LogAddsUp'
  PROVE BoxInv'
<1>1. /\ underway' \in [Callers -> Query \cup {NoQuery}]
      /\ \A d \in Callers : underway'[d] # NoQuery => underway'[d] = underway[d]
  BY LeavesPending
<1>2. \A d \in Callers : RunsAlone(underway'[d]) => underway'[d] = underway[d]
  BY <1>1 DEF RunsAlone, NoQuery
<1>3. AllFit'
  BY <1>1 DEF BoxInv, AllFit, Admissible
<1>4. OneAlone'
  BY <1>2 DEF BoxInv, OneAlone
<1>5. RoomForAlone'
  BY <1>2 DEF BoxInv, RoomForAlone
<1>6. OverspentBeside'
  BY DEF BoxInv, BudgetKept, OverspentBeside
<1> QED BY <1>1, <1>3, <1>4, <1>5, <1>6 DEF BoxInv, SandboxType, BudgetKept

\* The log of a sandbox has finitely many units.
LEMMA LogFinite ==
  ASSUME BoxInv
  PROVE /\ IsFiniteSet(DOMAIN box.executions) /\ Len(box.executions) \in Nat /\ Cardinality(Charges) \in Nat
        /\ box.used = Cardinality(Charges) + Cardinality(Pending) + account.lostUnits
        /\ box.queries = Len(box.executions) + Cardinality(AwaitLog) + account.lost
        /\ \A i \in DOMAIN box.executions : Admissible(box.executions[i].text)
        /\ account.lostUnits \in Nat /\ account.lost \in Nat
<1>1. box.executions \in Seq(Execution) /\ account \in Account
  BY DEF BoxInv, SandboxType, Box
<1>2. IsFiniteSet(DOMAIN box.executions) /\ Len(box.executions) \in Nat
  BY <1>1, LenProperties, UpTo
<1>3. Cardinality(Charges) \in Nat
  BY <1>2, UnitsFinite DEF Charges
<1> QED BY <1>1, <1>2, <1>3 DEF BoxInv, BudgetKept, LogAddsUp, Account

LEMMA LogKeeps == ASSUME BoxInv, NEW c \in Callers, LogCharged(c) PROVE BoxInv'
<1> DEFINE q == underway[c]
           entry == [text |-> q.text, epsilon |-> q.epsilon]
           x == box.executions
           n == Len(x) + 1
<1>1. /\ q.phase = "charged" /\ underway' = [underway EXCEPT ![c] = NoQuery] /\ account' = account
      /\ box' = [box EXCEPT !.executions = Append(x, entry)]
  BY DEF LogCharged
<1>2. /\ q \in Query /\ q.epsilon \in Nat /\ q.epsilon <= Epsilon /\ Admissible(q.text)
      /\ Cardinality(AwaitLog') \in Nat /\ Cardinality(AwaitLog) = Cardinality(AwaitLog') + 1
      /\ Cardinality(Pending') \in Nat /\ Cardinality(Pending) = Cardinality(Pending') + q.epsilon
  BY <1>1, LeavesPending
<1>3. entry \in Execution /\ entry.text = q.text /\ entry.epsilon = q.epsilon
  BY <1>2 DEF Execution, Query
<1>4. box \in Box /\ account \in Account /\ x \in Seq(Execution)
  BY DEF BoxInv, SandboxType, Box
<1> HIDE DEF entry, x
<1>5. /\ Append(x, entry) \in Seq(Execution) /\ Len(Append(x, entry)) = n /\ n \in Nat
      /\ DOMAIN x = 1..(n - 1) /\ DOMAIN Append(x, entry) = 1..n
      /\ Append(x, entry)[n] = entry /\ \A i \in 1..(n - 1) : Append(x, entry)[i] = x[i]
  BY <1>3, <1>4, AppendProperties, LenProperties
<1>6. /\ box' \in Box /\ box'.used = box.used /\ box'.queries = box.queries
      /\ box'.executions = Append(x, entry)
  BY <1>1, <1>4, <1>5 DEF Box, x
<1>7. /\ IsFiniteSet(DOMAIN x) /\ Len(x) \in Nat /\ Cardinality(Charges) \in Nat
      /\ box.used = Cardinality(Charges) + Cardinality(Pending) + account.lostUnits
      /\ box.queries = Len(x) + Cardinality(AwaitLog) + account.lost
      /\ \A i \in DOMAIN x : Admissible(x[i].text)
      /\ account.lostUnits \in Nat /\ account.lost \in Nat
  BY LogFinite DEF x
<1> HIDE DEF q
<1>8. Cardinality(Charges') = Cardinality(Charges) + q.epsilon
  <2> HIDE DEF n
  <2>1. n \notin DOMAIN x /\ DOMAIN Append(x, entry) = DOMAIN x \cup {n}
    BY <1>5
  <2>2. \A i \in DOMAIN x : Append(x, entry)[i].epsilon = x[i].epsilon
    BY <1>5
  <2>3. Cardinality(Units(DOMAIN x \cup {n}, Append(x, entry))) = Cardinality(Units(DOMAIN x, x)) + q.epsilon
    <3> DEFINE k == q.epsilon
               D == DOMAIN x
               g == Append(x, entry)
    <3>1. k \in Nat /\ k <= Epsilon
      BY <1>2
    <3>2. g[n].epsilon = k
      BY <1>3, <1>5
    <3>3. IsFiniteSet(D) /\ n \notin D /\ \A y \in D : g[y].epsilon = x[y].epsilon
      BY <1>7, <2>1, <2>2
    <3> HIDE DEF k, D, g
    <3>4. Cardinality(Units(D \cup {n}, g)) = Cardinality(Units(D, x)) + k
      BY <3>1, <3>2, <3>3, UnitsAdd
    <3> QED BY <3>4 DEF k, D, g
  <2> QED BY <1>6, <2>1, <2>3 DEF Charges, x
<1>9. LogAddsUp'
  <2>1. box'.used = Cardinality(Charges') + Cardinality(Pending') + account'.lostUnits
    BY <1>1, <1>2, <1>6, <1>7, <1>8
  <2>2. box'.queries = Len(box'.executions) + Cardinality(AwaitLog') + account'.lost
    BY <1>1, <1>2, <1>5, <1>6, <1>7
  <2>3. \A i \in 1..n : Admissible(Append(x, entry)[i].text)
    BY <1>2, <1>3, <1>5, <1>7, SMTT(30)
  <2>4. (\A i \in DOMAIN box.executions : Admissible(box.executions[i].text))'
    BY <1>5, <1>6, <2>3 DEF Admissible
  <2> QED BY <2>1, <2>2, <2>4 DEF LogAddsUp
<1> QED BY <1>1, <1>4, <1>6, <1>9, LeavingKeeps DEF q

LEMMA NoiseKeeps == ASSUME BoxInv, NEW c \in Callers, NoiseRaises(c) PROVE BoxInv'
<1> DEFINE q == underway[c]
           k == q.epsilon
<1>1. /\ q.phase = "charged" /\ underway' = [underway EXCEPT ![c] = NoQuery] /\ box' = box
      /\ account' = [account EXCEPT !.lostUnits = account.lostUnits + k, !.lost = account.lost + 1]
  BY DEF NoiseRaises
<1>2. /\ k \in Nat
      /\ Cardinality(AwaitLog') \in Nat /\ Cardinality(AwaitLog) = Cardinality(AwaitLog') + 1
      /\ Cardinality(Pending') \in Nat /\ Cardinality(Pending) = Cardinality(Pending') + k
  BY <1>1, LeavesPending
<1>3. box \in Box /\ account \in Account
  BY DEF BoxInv, SandboxType
<1> HIDE DEF q, k
<1>4. /\ account' \in Account /\ account'.besideUnits = account.besideUnits /\ account'.beside = account.beside
      /\ account'.lostUnits = account.lostUnits + k /\ account'.lost = account.lost + 1
  <2>1. Accounts(account', account, 0, 0, k, 1)
    BY <1>1, <1>2, <1>3, AccountUpdates
  <2> QED BY <1>3, <2>1 DEF Accounts, Account
<1>5. /\ Len(box.executions) \in Nat /\ Cardinality(Charges) \in Nat
      /\ box.used = Cardinality(Charges) + Cardinality(Pending) + account.lostUnits
      /\ box.queries = Len(box.executions) + Cardinality(AwaitLog) + account.lost
      /\ \A i \in DOMAIN box.executions : Admissible(box.executions[i].text)
      /\ account.lostUnits \in Nat /\ account.lost \in Nat
  BY LogFinite
<1>6. Charges' = Charges
  BY <1>1 DEF Charges, Units
<1>7. box.used = Cardinality(Charges) + Cardinality(Pending') + account'.lostUnits
  BY <1>2, <1>4, <1>5
<1>8. box.queries = Len(box.executions) + Cardinality(AwaitLog') + account'.lost
  <2>1. Cardinality(AwaitLog') \in Nat /\ Cardinality(AwaitLog) = Cardinality(AwaitLog') + 1
    BY <1>2
  <2>2. account'.lost = account.lost + 1
    BY <1>4
  <2> QED BY <1>5, <2>1, <2>2, SMTT(30)
<1>9. LogAddsUp'
  BY <1>1, <1>5, <1>6, <1>7, <1>8 DEF LogAddsUp, Admissible
<1> QED BY <1>1, <1>3, <1>4, <1>9, LeavingKeeps DEF q

LEMMA BoxInvInductive == BoxInv /\ [SandboxNext]_sandboxVars => BoxInv'
<1> SUFFICES ASSUME BoxInv, [SandboxNext]_sandboxVars PROVE BoxInv'
  OBVIOUS
<1>1. CASE Activate
  BY <1>1, StatusKeeps DEF Activate
<1>2. CASE Destroy
  BY <1>2, StatusKeeps DEF Destroy
<1>3. CASE UNCHANGED sandboxVars
  <2>1. UNCHANGED <<box, underway, account>>
    BY <1>3 DEF sandboxVars
  <2>2. AwaitLog' = AwaitLog
    BY <2>1 DEF AwaitLog
  <2>3. BudgetKept'
    BY <2>1, <2>2, CountersStay
  <2> QED BY <2>1, <2>3 DEF BoxInv, SandboxType, AllFit, OneAlone, RoomForAlone, RunsAlone, Admissible
<1>4. ASSUME NEW c \in Callers, NEW text \in Queries, NEW epsilon \in Costs, BeginQuery(c, text, epsilon) PROVE BoxInv'
  BY <1>4, BeginKeeps
<1>5. ASSUME NEW c \in Callers, HandlerRaises(c) \/ Charge(c) \/ LogCharged(c) \/ NoiseRaises(c) PROVE BoxInv'
  BY <1>5, RaiseKeeps, ChargeKeeps, LogKeeps, NoiseKeeps
<1> QED BY <1>1, <1>2, <1>3, <1>4, <1>5 DEF SandboxNext

\* For every budget, cost and limit of queries and any number of overlapping calls: what the sandbox's log
\* adds up to is what its budget was charged, but for what awaits the log or a failing noise kept out of
\* it, and only queries begun beside another exceed the budget (sandbox.py:93, 177).
THEOREM BudgetIsKept == SandboxSpec => []BudgetKept
<1>1. SandboxInit => BoxInv
  <2> SUFFICES ASSUME SandboxInit PROVE BoxInv
    OBVIOUS
  <2>1. SandboxType
    BY DEF SandboxInit, SandboxType, Box, Account
  <2>2. AwaitLog = {} /\ DOMAIN box.executions = {} /\ Len(box.executions) = 0
    BY DEF SandboxInit, AwaitLog, NoQuery
  <2>3. Charges = {} /\ Pending = {}
    BY <2>2 DEF Charges, Pending, Units
  <2>4. BudgetKept
    BY <2>2, <2>3, FS_EmptySet, SandboxAssumption DEF SandboxInit, BudgetKept, OverspentBeside, LogAddsUp
  <2>5. \A c \in Callers : ~RunsAlone(underway[c]) /\ underway[c] = NoQuery
    BY DEF SandboxInit, RunsAlone, NoQuery
  <2> QED BY <2>1, <2>4, <2>5 DEF BoxInv, AllFit, OneAlone, RoomForAlone
<1>2. BoxInv => BudgetKept
  BY DEF BoxInv
<1> QED BY <1>1, <1>2, BoxInvInductive, PTL DEF SandboxSpec

-----------------------------------------------------------------------------
(* The response cache, which every request goes through: an undisturbed    *)
(* key has one call at a time, and shows how far that call is.             *)

Entry == [ver : 0..MaxVersion, hits : Nat]

OpType(o) ==
  /\ o \in [phase : Phases, keys : SUBSET Keys, ver : 0..MaxVersion]
  /\ o.phase = "idle" <=> o = Idle
  /\ o.phase \in {"stored", "writing", "orphaned", "indexing"} =>
       (\E k \in Keys : o.keys = {k}) /\ o.ver \in Versions
  /\ o.phase = "clearing" => o.keys = Keys

CacheType ==
  /\ last \in 0..MaxVersion /\ horizon \in Nat
  /\ memory \in [Keys -> Entry]
  /\ disk \in [Keys -> 0..Torn]
  /\ index \subseteq Keys /\ disturbed \subseteq Keys
  /\ op \in [Threads -> [phase : Phases, keys : SUBSET Keys, ver : 0..MaxVersion]]
  /\ \A t \in Threads : OpType(op[t])
  /\ current \in [Keys -> (SUBSET (0..last)) \ {{}}]

\* A call is about a version that was stored, or about none.
OpsKnown == \A t \in Threads : op[t].ver \in 0..last

\* What the call o, under way on key k and undisturbed there, has done so far.
Underway(o, k) ==
  /\ o.phase # "orphaned"
  /\ o.phase \in {"stored", "writing", "indexing"} =>
       o.ver \in current[k] /\ current[k] # {o.ver} /\ memory[k].ver \in {o.ver, None}
  /\ o.phase = "writing" => disk[k] = Torn
  /\ o.phase = "indexing" => disk[k] = o.ver
  /\ o.phase \in {"popped", "clearing"} => None \in current[k] /\ memory[k].ver = None
  /\ o.phase = "expired" =>
       memory[k].ver = None /\ \A v \in Versions : current[k] = {v} => v <= horizon

\* An undisturbed key has one call at a time, and shows how far it is.
KeyInv(k) ==
  /\ \A t, u \in Threads : k \in op[t].keys /\ k \in op[u].keys => t = u
  /\ memory[k].ver \in current[k] \cup {None}
  /\ disk[k] \in current[k] \cup {None, Torn}
  /\ \A t \in Threads : k \in op[t].keys => Underway(op[t], k)
  /\ (\A t \in Threads : k \notin op[t].keys) =>
       \A v \in Versions : current[k] = {v} /\ ~(v <= horizon) => disk[k] = v

CacheInv ==
  /\ CacheType /\ OpsKnown
  /\ Cardinality(InMemory(memory)) <= MemorySize /\ Cardinality(index) <= MemorySize
  /\ \A k \in Keys \ disturbed : KeyInv(k)

LEMMA HitType == ASSUME NEW h \in Nat, NEW n \in Nat PROVE Hit(h, n) \in Nat
<1>1. h + n \in Nat /\ MaxHits \in Nat
  BY CacheAssumption
<1>2. \E x \in {h + n, MaxHits} : \A y \in {h + n, MaxHits} : x <= y
  BY <1>1
<1> QED BY <1>1, <1>2 DEF Hit, Min

\* Trimming keeps entries or drops them, down to the size of the memory.
LEMMA TrimmedMeans ==
  ASSUME NEW mem \in [Keys -> Entry], Cardinality(InMemory(mem)) <= MemorySize + 1, NEW m \in Trimmed(mem)
  PROVE  /\ m \in [Keys -> Entry] /\ \A k \in Keys : m[k] \in {mem[k], Absent}
         /\ Cardinality(InMemory(m)) <= MemorySize
<1>1. Absent \in Entry /\ Absent.ver = None /\ IsFiniteSet(Keys) /\ MemorySize \in Nat
  BY CacheAssumption DEF Absent, Entry, None
<1>2. InMemory(mem) \subseteq Keys /\ IsFiniteSet(InMemory(mem)) /\ Cardinality(InMemory(mem)) \in Nat
  <2>1. InMemory(mem) \subseteq Keys
    BY DEF InMemory
  <2> QED BY <1>1, <2>1, FS_Subset, FS_CardinalityType
<1>3. CASE Cardinality(InMemory(mem)) <= MemorySize
  BY <1>3 DEF Trimmed
<1>4. CASE ~(Cardinality(InMemory(mem)) <= MemorySize)
  <2>1. PICK k \in InMemory(mem) : m = [mem EXCEPT ![k] = Absent]
    BY <1>4 DEF Trimmed
  <2>2. InMemory(m) = InMemory(mem) \ {k}
    BY <1>1, <1>2, <2>1 DEF InMemory
  <2>3. Cardinality(InMemory(m)) = Cardinality(InMemory(mem)) - 1
    BY <1>2, <2>1, <2>2, FS_RemoveElement
  <2> QED BY <1>1, <1>2, <2>1, <2>3
<1> QED BY <1>3, <1>4

\* One more entry than fits, at most.
LEMMA OneMore ==
  ASSUME CacheType, Cardinality(InMemory(memory)) <= MemorySize, NEW k \in Keys, NEW e \in Entry
  PROVE  /\ [memory EXCEPT ![k] = e] \in [Keys -> Entry]
         /\ Cardinality(InMemory([memory EXCEPT ![k] = e])) <= MemorySize + 1
<1> DEFINE mem == [memory EXCEPT ![k] = e]
<1>1. /\ InMemory(mem) \subseteq InMemory(memory) \cup {k} /\ InMemory(memory) \subseteq Keys
      /\ mem \in [Keys -> Entry]
  BY DEF InMemory, CacheType
<1>2. IsFiniteSet(InMemory(memory)) /\ Cardinality(InMemory(memory)) \in Nat /\ MemorySize \in Nat
  BY <1>1, CacheAssumption, FS_Subset, FS_CardinalityType
<1>3. /\ IsFiniteSet(InMemory(memory) \cup {k})
      /\ Cardinality(InMemory(memory) \cup {k}) <= Cardinality(InMemory(memory)) + 1
  <2>1. /\ IsFiniteSet(InMemory(memory) \cup {k})
        /\ Cardinality(InMemory(memory) \cup {k})
             = IF k \in InMemory(memory) THEN Cardinality(InMemory(memory)) ELSE Cardinality(InMemory(memory)) + 1
    BY <1>2, FS_AddElement, Zenon
  <2> QED BY <1>2, <2>1
<1>4. /\ Cardinality(InMemory(mem)) <= Cardinality(InMemory(memory) \cup {k})
      /\ Cardinality(InMemory(mem)) \in Nat /\ Cardinality(InMemory(memory) \cup {k}) \in Nat
  BY <1>1, <1>3, FS_Subset, FS_CardinalityType
<1> HIDE DEF mem
<1>5. Cardinality(InMemory(mem)) <= MemorySize + 1
  BY <1>2, <1>3, <1>4
<1> QED BY <1>1, <1>5 DEF mem

\* Entries that only go leave no more of them.
LEMMA FewerEntries ==
  ASSUME CacheType, NEW m, NEW K, IsFiniteSet(K), Cardinality(K) <= MemorySize, InMemory(m) \subseteq K
  PROVE  Cardinality(InMemory(m)) <= MemorySize
<1>1. Cardinality(InMemory(m)) <= Cardinality(K) /\ Cardinality(K) \in Nat /\ Cardinality(InMemory(m)) \in Nat
  BY FS_Subset, FS_CardinalityType
<1> QED BY <1>1, CacheAssumption

\* The types of the operations.
LEMMA OpStep ==
  ASSUME CacheType, NEW t \in Threads, NEW o, OpType(o), op' = [op EXCEPT ![t] = o]
  PROVE  /\ op' \in [Threads -> [phase : Phases, keys : SUBSET Keys, ver : 0..MaxVersion]]
         /\ \A u \in Threads : OpType(op'[u])
BY DEF CacheType, OpType

LEMMA OpTypes ==
  /\ OpType(Idle)
  /\ \A k \in Keys : /\ OpType([phase |-> "expired", keys |-> {k}, ver |-> None])
                     /\ OpType([phase |-> "popped", keys |-> {k}, ver |-> None])
                     /\ \A v \in Versions : OpType([phase |-> "stored", keys |-> {k}, ver |-> v])
  /\ OpType([phase |-> "clearing", keys |-> Keys, ver |-> None])
BY CacheAssumption DEF OpType, Idle, Phases, None, Versions

LEMMA OpBecomes ==
  ASSUME NEW o, OpType(o), o.phase \in {"stored", "writing", "orphaned", "indexing"},
         NEW ph \in {"stored", "writing", "orphaned", "indexing"}
  PROVE  OpType([o EXCEPT !.phase = ph])
<1> DEFINE p == [o EXCEPT !.phase = ph]
<1>1. /\ p \in [phase : Phases, keys : SUBSET Keys, ver : 0..MaxVersion]
      /\ p.phase = ph /\ p.keys = o.keys /\ p.ver = o.ver
  BY DEF OpType, Phases
<1>2. p # Idle /\ p.phase # "idle" /\ p.phase # "clearing"
  BY <1>1 DEF Idle
<1> HIDE DEF p
<1>3. OpType(p)
  BY <1>1, <1>2 DEF OpType
<1> QED BY <1>3 DEF p

LEMMA UnlinkTypes ==
  ASSUME CacheType, NEW t \in Threads, NEW K, Unlink(t, K)
  PROVE  /\ disk' \in [Keys -> 0..Torn]
         /\ op' \in [Threads -> [phase : Phases, keys : SUBSET Keys, ver : 0..MaxVersion]]
         /\ \A u \in Threads : OpType(op'[u])
<1>1. disk' \in [Keys -> 0..Torn]
  BY CacheAssumption DEF Unlink, CacheType, None, Torn
<1>2. ASSUME NEW u \in Threads PROVE OpType(op'[u])
  <2>1. CASE u = t
    BY <2>1, OpTypes DEF Unlink
  <2>2. CASE u # t /\ op[u].phase = "writing" /\ op[u].keys \subseteq K
    <3>1. op'[u] = [op[u] EXCEPT !.phase = "orphaned"] /\ OpType(op[u])
      BY <2>2 DEF Unlink, CacheType
    <3> QED BY <2>2, <3>1, OpBecomes
  <2>3. CASE u # t /\ ~(op[u].phase = "writing" /\ op[u].keys \subseteq K)
    BY <2>3 DEF Unlink, CacheType
  <2> QED BY <2>1, <2>2, <2>3
<1>3. op' = [u \in Threads |-> op'[u]]
  BY DEF Unlink
<1>4. \A u \in Threads : op'[u] \in [phase : Phases, keys : SUBSET Keys, ver : 0..MaxVersion]
  BY <1>2 DEF OpType
<1> QED BY <1>1, <1>2, <1>3, <1>4

\* What `current` holds after a call begins or ends.
LEMMA HistoryTypes ==
  ASSUME CacheType, last' \in last..MaxVersion, NEW K \in SUBSET Keys, NEW v \in 0..last', Begin(K, v) \/ End(K, v)
  PROVE  current' \in [Keys -> (SUBSET (0..last')) \ {{}}]
<1>1. 0..last \subseteq 0..last'
  BY CacheAssumption DEF CacheType
<1>2. \A k \in Keys : current[k] \in SUBSET (0..last') /\ current[k] # {}
  BY <1>1 DEF CacheType
<1>3. ASSUME NEW k \in Keys PROVE current'[k] \in SUBSET (0..last') /\ current'[k] # {}
  BY <1>2 DEF Begin, End
<1>4. current' = [k \in Keys |-> current'[k]]
  BY DEF Begin, End
<1> QED BY <1>3, <1>4

LEMMA CacheTypeStep == CacheType /\ OpsKnown /\ Cardinality(InMemory(memory)) <= MemorySize /\ [CacheNext]_cacheVars => CacheType'
<1> SUFFICES ASSUME CacheType, OpsKnown, Cardinality(InMemory(memory)) <= MemorySize, [CacheNext]_cacheVars PROVE CacheType'
  OBVIOUS
<1>0. MaxVersion \in Nat /\ Absent \in Entry /\ 0..last \subseteq 0..MaxVersion
  BY CacheAssumption DEF Absent, Entry, None, CacheType
<1>1. ASSUME NEW k \in Keys, GetMemory(k) PROVE CacheType'
  <2>1. memory[k] \in Entry /\ memory[k].hits \in Nat
    BY DEF CacheType, Entry
  <2> DEFINE h == Hit(memory[k].hits, 2)
  <2>2. h \in Nat
    BY <2>1, HitType
  <2> HIDE DEF h
  <2>3. [ver |-> memory[k].ver, hits |-> h] \in Entry
    BY <2>1, <2>2 DEF Entry
  <2> DEFINE e == IF Expired(memory[k].ver) THEN Absent ELSE [ver |-> memory[k].ver, hits |-> h]
  <2>4. memory' = [memory EXCEPT ![k] = e] /\ UNCHANGED <<disk, index, op, last, horizon, current, disturbed>>
    BY <1>1 DEF GetMemory, h
  <2>5. e \in Entry
    BY <1>0, <2>3
  <2> HIDE DEF e
  <2>6. memory' \in [Keys -> Entry]
    BY <2>4, <2>5 DEF CacheType
  <2> QED BY <2>4, <2>6 DEF CacheType, OpType
<1>2. ASSUME NEW k \in Keys, GetDisk(k) PROVE CacheType'
  <2> DEFINE e == [ver |-> disk[k], hits |-> 1]
  <2>1. e \in Entry
    BY <1>0, <1>2 DEF GetDisk, Entry, Versions
  <2>2. memory' \in Trimmed([memory EXCEPT ![k] = e])
    BY <1>2 DEF GetDisk
  <2> HIDE DEF e
  <2>3. memory' \in [Keys -> Entry]
    BY <2>1, <2>2, OneMore, TrimmedMeans
  <2> QED BY <1>2, <2>3 DEF GetDisk, CacheType, OpType
<1>3. ASSUME NEW t \in Threads, NEW k \in Keys, GetExpired(t, k) PROVE CacheType'
  <2>1. /\ op' \in [Threads -> [phase : Phases, keys : SUBSET Keys, ver : 0..MaxVersion]]
        /\ \A u \in Threads : OpType(op'[u])
    BY <1>3, OpStep, OpTypes DEF GetExpired, Enter
  <2> QED BY <1>3, <2>1 DEF GetExpired, CacheType
<1>4. ASSUME NEW t \in Threads, NEW k \in Keys, Set(t, k) PROVE CacheType'
  <2> DEFINE e == [ver |-> last + 1, hits |-> 0]
  <2>1. last + 1 \in Versions /\ e \in Entry /\ last' \in last..MaxVersion /\ last + 1 \in 0..last'
        /\ last' \in 0..MaxVersion
    BY <1>0, <1>4 DEF Set, CacheType, Versions, Entry
  <2>2. memory' \in Trimmed([memory EXCEPT ![k] = e])
    BY <1>4 DEF Set
  <2> HIDE DEF e
  <2>3. memory' \in [Keys -> Entry]
    BY <2>1, <2>2, OneMore, TrimmedMeans
  <2>4. /\ op' \in [Threads -> [phase : Phases, keys : SUBSET Keys, ver : 0..MaxVersion]]
        /\ \A u \in Threads : OpType(op'[u])
    BY <1>4, <2>1, OpStep, OpTypes DEF Set, Enter
  <2>5. current' \in [Keys -> (SUBSET (0..last')) \ {{}}]
    BY <1>4, <2>1, HistoryTypes DEF Set
  <2> QED BY <1>4, <2>1, <2>3, <2>4, <2>5 DEF Set, Begin, CacheType
<1>5. ASSUME NEW t \in Threads, NEW k \in Keys, InvalidatePop(t, k) PROVE CacheType'
  <2>1. memory' \in [Keys -> Entry]
    BY <1>0, <1>5 DEF InvalidatePop, CacheType
  <2>2. /\ op' \in [Threads -> [phase : Phases, keys : SUBSET Keys, ver : 0..MaxVersion]]
        /\ \A u \in Threads : OpType(op'[u])
    BY <1>5, OpStep, OpTypes DEF InvalidatePop, Enter
  <2>3. last' = last /\ None \in 0..last' /\ last' \in last..MaxVersion
    BY <1>0, <1>5 DEF InvalidatePop, CacheType, None
  <2>4. current' \in [Keys -> (SUBSET (0..last')) \ {{}}]
    BY <1>5, <2>3, HistoryTypes DEF InvalidatePop
  <2> QED BY <1>5, <2>1, <2>2, <2>4 DEF InvalidatePop, Begin, CacheType
<1>6. ASSUME NEW t \in Threads, ClearMemory(t) PROVE CacheType'
  <2>1. memory' \in [Keys -> Entry]
    BY <1>0, <1>6 DEF ClearMemory
  <2>2. /\ op' \in [Threads -> [phase : Phases, keys : SUBSET Keys, ver : 0..MaxVersion]]
        /\ \A u \in Threads : OpType(op'[u])
    BY <1>6, OpStep, OpTypes DEF ClearMemory, Enter
  <2>3. last' = last /\ None \in 0..last' /\ last' \in last..MaxVersion
    BY <1>0, <1>6 DEF ClearMemory, CacheType, None
  <2>4. current' \in [Keys -> (SUBSET (0..last')) \ {{}}]
    BY <1>6, <2>3, HistoryTypes DEF ClearMemory
  <2> QED BY <1>6, <2>1, <2>2, <2>4 DEF ClearMemory, Begin, CacheType
<1>7. ASSUME NEW t \in Threads, UnlinkExpired(t) PROVE CacheType'
  BY <1>7, UnlinkTypes DEF UnlinkExpired, CacheType
<1>8. ASSUME NEW t \in Threads, NEW K \in SUBSET Keys, Unlink(t, K), End(K, None), index' \subseteq Keys,
             UNCHANGED <<memory, last, horizon, disturbed>>
      PROVE  CacheType'
  <2>1. None \in 0..last' /\ last' \in last..MaxVersion
    BY <1>0, <1>8 DEF CacheType, None
  <2>2. current' \in [Keys -> (SUBSET (0..last')) \ {{}}]
    BY <1>8, <2>1, HistoryTypes
  <2> QED BY <1>8, <2>2, UnlinkTypes DEF CacheType
<1>9. ASSUME NEW t \in Threads, InvalidateUnlink(t) \/ ClearFiles(t) PROVE CacheType'
  <2>1. op[t].keys \in SUBSET Keys /\ index \subseteq Keys
    BY DEF CacheType
  <2> QED BY <1>8, <1>9, <2>1 DEF InvalidateUnlink, ClearFiles
\* the phases of a set
<1>10. ASSUME NEW t \in Threads, NEW ph \in {"writing", "indexing"}, Become(t, ph),
              op[t].phase \in {"stored", "writing", "orphaned"},
              disk' \in [Keys -> 0..Torn], disturbed' \subseteq Keys, UNCHANGED <<memory, index, last, horizon, current>>
       PROVE  CacheType'
  <2> DEFINE o == [op[t] EXCEPT !.phase = ph]
  <2>1. OpType(op[t])
    BY DEF CacheType
  <2>2. OpType(o)
    BY <1>10, <2>1, OpBecomes
  <2>3. op' = [op EXCEPT ![t] = o]
    BY <1>10 DEF Become
  <2> HIDE DEF o
  <2>4. /\ op' \in [Threads -> [phase : Phases, keys : SUBSET Keys, ver : 0..MaxVersion]]
        /\ \A u \in Threads : OpType(op'[u])
    BY <2>2, <2>3, OpStep
  <2> QED BY <1>10, <2>4 DEF CacheType
<1>11. ASSUME NEW t \in Threads, Open(t) PROVE CacheType'
  <2>1. disk' \in [Keys -> 0..Torn]
    BY <1>0, <1>11 DEF Open, CacheType, Torn
  <2> QED BY <1>10, <1>11, <2>1 DEF Open, CacheType
<1>12. ASSUME NEW t \in Threads, WriteFile(t) PROVE CacheType'
  <2>1. op[t].ver \in 0..MaxVersion
    BY DEF CacheType
  <2>2. disk' \in [Keys -> 0..Torn]
    BY <1>0, <1>12, <2>1 DEF WriteFile, CacheType, Torn
  <2> QED BY <1>10, <1>12, <2>2 DEF WriteFile, CacheType
<1>13. ASSUME NEW t \in Threads, WriteFails(t) PROVE CacheType'
  <2>1. disk' \in [Keys -> 0..Torn] /\ disturbed' \subseteq Keys
    BY <1>13 DEF WriteFails, CacheType
  <2> QED BY <1>10, <1>13, <2>1 DEF WriteFails
<1>14. ASSUME NEW t \in Threads, SaveIndex(t) PROVE CacheType'
  <2>1. index' \subseteq Keys
    BY <1>14 DEF SaveIndex, InMemory
  <2>2. /\ op' \in [Threads -> [phase : Phases, keys : SUBSET Keys, ver : 0..MaxVersion]]
        /\ \A u \in Threads : OpType(op'[u])
    BY <1>14, OpStep, OpTypes DEF SaveIndex, Leave
  <2>3. op[t].ver \in 0..last' /\ op[t].keys \in SUBSET Keys /\ last' \in last..MaxVersion
    BY <1>0, <1>14 DEF SaveIndex, OpsKnown, CacheType
  <2>4. current' \in [Keys -> (SUBSET (0..last')) \ {{}}]
    BY <1>14, <2>3, HistoryTypes DEF SaveIndex
  <2> QED BY <1>14, <2>1, <2>2, <2>4 DEF SaveIndex, CacheType
<1>15. CASE Tick
  BY <1>15 DEF Tick, CacheType, OpType
<1>16. CASE Restart
  <2>1. memory' \in [Keys -> Entry]
    BY <1>0, <1>16 DEF Restart, Entry, Versions
  <2>2. index' \subseteq Keys
    BY <1>16 DEF Restart, CacheType
  <2>3. /\ op' \in [Threads -> [phase : Phases, keys : SUBSET Keys, ver : 0..MaxVersion]]
        /\ \A u \in Threads : OpType(op'[u])
    BY <1>16, OpTypes DEF Restart, OpType
  <2> QED BY <1>16, <2>1, <2>2, <2>3 DEF Restart, CacheType
<1>17. CASE UNCHANGED cacheVars
  BY <1>17 DEF cacheVars, CacheType, OpType
<1> QED
  BY <1>1, <1>2, <1>3, <1>4, <1>5, <1>6, <1>7, <1>9, <1>11, <1>12, <1>13, <1>14, <1>15, <1>16, <1>17
  DEF CacheNext

LEMMA OpsKnownStep == CacheType /\ OpsKnown /\ [CacheNext]_cacheVars => OpsKnown'
<1> SUFFICES ASSUME CacheType, OpsKnown, [CacheNext]_cacheVars PROVE OpsKnown'
  OBVIOUS
<1>0. last \in Nat /\ 0 \in 0..last /\ MaxVersion \in Nat /\ \A t \in Threads : op[t].ver \in 0..last
  BY CacheAssumption DEF CacheType, OpsKnown
<1>1. ASSUME last' = last, \A u \in Threads : op'[u].ver \in {op[u].ver, None} PROVE OpsKnown'
  BY <1>0, <1>1 DEF OpsKnown, None
<1>2. ASSUME NEW t \in Threads, NEW ph, Become(t, ph) PROVE \A u \in Threads : op'[u].ver \in {op[u].ver, None}
  BY <1>2 DEF Become, CacheType
<1>3. ASSUME NEW t \in Threads, NEW ph, NEW K, Enter(t, ph, K, None) \/ Leave(t)
      PROVE  \A u \in Threads : op'[u].ver \in {op[u].ver, None}
  BY <1>3 DEF Enter, Leave, Idle, CacheType
<1>4. ASSUME NEW t \in Threads, NEW K, Unlink(t, K) PROVE \A u \in Threads : op'[u].ver \in {op[u].ver, None}
  BY <1>4 DEF Unlink, Idle, CacheType
<1>5. ASSUME NEW t \in Threads, NEW k \in Keys, Set(t, k) PROVE OpsKnown'
  <2>1. last' = last + 1 /\ op' = [op EXCEPT ![t] = [phase |-> "stored", keys |-> {k}, ver |-> last + 1]]
    BY <1>5 DEF Set, Enter
  <2>2. \A u \in Threads : op'[u].ver \in {op[u].ver, last + 1}
    BY <2>1 DEF CacheType
  <2> QED BY <1>0, <2>1, <2>2 DEF OpsKnown
<1>6. ASSUME NEW t \in Threads, NEW k \in Keys, GetExpired(t, k) \/ InvalidatePop(t, k) PROVE OpsKnown'
  BY <1>1, <1>3, <1>6 DEF GetExpired, InvalidatePop
<1>7. ASSUME NEW t \in Threads, UnlinkExpired(t) \/ InvalidateUnlink(t) \/ ClearFiles(t) PROVE OpsKnown'
  BY <1>1, <1>4, <1>7 DEF UnlinkExpired, InvalidateUnlink, ClearFiles
<1>8. ASSUME NEW t \in Threads, Open(t) \/ WriteFile(t) \/ WriteFails(t) PROVE OpsKnown'
  BY <1>1, <1>2, <1>8 DEF Open, WriteFile, WriteFails
<1>9. ASSUME NEW t \in Threads, SaveIndex(t) \/ ClearMemory(t) PROVE OpsKnown'
  BY <1>1, <1>3, <1>9 DEF SaveIndex, ClearMemory
<1>10. CASE UNCHANGED cacheVars \/ Tick \/ \E k \in Keys : GetMemory(k) \/ GetDisk(k)
  BY <1>0, <1>10 DEF cacheVars, Tick, GetMemory, GetDisk, OpsKnown
<1>11. CASE Restart
  BY <1>1, <1>11 DEF Restart, Idle
<1> QED BY <1>5, <1>6, <1>7, <1>8, <1>9, <1>10, <1>11 DEF CacheNext

\* A step that at most drops k from memory, and no call on k, keeps what it shows.
LEMMA KeyStays ==
  ASSUME CacheType, NEW k \in Keys, KeyInv(k), memory'[k].ver \in {memory[k].ver, None},
         disk'[k] = disk[k], current'[k] = current[k], horizon' \in Nat, horizon' >= horizon,
         \A t \in Threads : op'[t] = op[t] \/ (k \notin op[t].keys /\ k \notin op'[t].keys)
  PROVE  KeyInv(k)'
<1>1. \A t \in Threads : (k \in op'[t].keys <=> k \in op[t].keys) /\ (k \in op[t].keys => op'[t] = op[t])
  OBVIOUS
<1>2. \A t, u \in Threads : k \in op'[t].keys /\ k \in op'[u].keys => t = u
  BY <1>1 DEF KeyInv
<1>3. memory'[k].ver \in current'[k] \cup {None} /\ disk'[k] \in current'[k] \cup {None, Torn}
  BY DEF KeyInv
<1>4. \A v \in Versions : v <= horizon => v <= horizon'
  BY CacheAssumption DEF CacheType, Versions
<1>5. ASSUME NEW t \in Threads, k \in op'[t].keys PROVE Underway(op[t], k)'
  <2>1. Underway(op[t], k) /\ op'[t] = op[t]
    BY <1>1, <1>5 DEF KeyInv
  <2> QED BY <1>4, <2>1 DEF Underway
<1>6. (\A t \in Threads : k \notin op'[t].keys) =>
        \A v \in Versions : current'[k] = {v} /\ ~(v <= horizon') => disk'[k] = v
  BY <1>1, <1>4 DEF KeyInv
<1> QED BY <1>2, <1>3, <1>5, <1>6 DEF KeyInv

\* The call of t on k goes on; nobody else has one there.
LEMMA KeyAdvances ==
  ASSUME CacheType, NEW k \in Keys, KeyInv(k), NEW t \in Threads, k \in op[t].keys,
         memory'[k].ver \in current'[k] \cup {None}, disk'[k] \in current'[k] \cup {None, Torn},
         \A u \in Threads : u # t => op'[u] = op[u] \/ k \notin op'[u].keys,
         k \in op'[t].keys => Underway(op[t], k)',
         k \notin op'[t].keys => \A v \in Versions : current'[k] = {v} /\ ~(v <= horizon') => disk'[k] = v
  PROVE  KeyInv(k)'
<1>1. \A u \in Threads : u # t => k \notin op[u].keys /\ k \notin op'[u].keys
  BY DEF KeyInv
<1>2. \A u, w \in Threads : k \in op'[u].keys /\ k \in op'[w].keys => u = w
  BY <1>1
<1>3. \A u \in Threads : k \in op'[u].keys => Underway(op[u], k)'
  BY <1>1
<1> QED BY <1>1, <1>2, <1>3 DEF KeyInv

\* A call of t on k begins where there is none.
LEMMA KeyBegins ==
  ASSUME CacheType, NEW k \in Keys, KeyInv(k), k \notin Busy, NEW t \in Threads,
         memory'[k].ver \in current'[k] \cup {None}, disk'[k] \in current'[k] \cup {None, Torn},
         \A u \in Threads : u # t => op'[u] = op[u], k \in op'[t].keys, Underway(op[t], k)'
  PROVE  KeyInv(k)'
<1>1. \A u \in Threads : k \notin op[u].keys
  BY DEF Busy
<1>2. \A u, w \in Threads : k \in op'[u].keys /\ k \in op'[w].keys => u = w
  BY <1>1
<1>3. \A u \in Threads : k \in op'[u].keys => Underway(op[u], k)'
  BY <1>1
<1> QED BY <1>2, <1>3 DEF KeyInv

LEMMA GetMemoryKeys ==
  ASSUME CacheType, NEW x \in Keys, GetMemory(x), NEW k \in Keys, KeyInv(k)
  PROVE  KeyInv(k)'
<1>1. /\ memory'[k].ver \in {memory[k].ver, None}
      /\ UNCHANGED <<disk, op, horizon, current>> /\ horizon \in Nat
  BY DEF GetMemory, CacheType, Absent
<1> QED BY <1>1, KeyStays

LEMMA GetDiskKeys ==
  ASSUME CacheType, Cardinality(InMemory(memory)) <= MemorySize, NEW x \in Keys, GetDisk(x),
         NEW k \in Keys \ disturbed', KeyInv(k)
  PROVE  KeyInv(k)'
<1> DEFINE e == [ver |-> disk[x], hits |-> 1]
<1>1. e \in Entry /\ disk[x] \in Versions /\ memory' \in Trimmed([memory EXCEPT ![x] = e])
  BY CacheAssumption DEF GetDisk, Entry, Versions
<1> HIDE DEF e
<1>2. memory'[k] \in {[memory EXCEPT ![x] = e][k], Absent}
  BY <1>1, OneMore, TrimmedMeans
<1>3. UNCHANGED <<disk, op, horizon, current>> /\ horizon \in Nat
  BY DEF GetDisk, CacheType
<1>4. CASE k # x
  <2>1. memory'[k].ver \in {memory[k].ver, None}
    BY <1>2, <1>4 DEF CacheType, Absent
  <2> QED BY <1>3, <2>1, KeyStays
<1>5. CASE k = x
  <2>1. k \notin Busy
    BY <1>5 DEF GetDisk
  <2>2. \A t \in Threads : k \notin op[t].keys /\ k \notin op'[t].keys
    BY <1>3, <2>1 DEF Busy
  <2>3. memory'[k].ver \in {disk[k], None} /\ disk[k] \in current[k] \cup {None}
    <3>1. disk[k] # Torn
      BY <1>1, <1>5, CacheAssumption DEF Versions, Torn
    <3> QED BY <1>2, <1>5, <3>1 DEF CacheType, Absent, e, KeyInv
  <2> QED BY <1>3, <2>2, <2>3 DEF KeyInv
<1> QED BY <1>4, <1>5

LEMMA GetExpiredKeys ==
  ASSUME CacheType, NEW t \in Threads, NEW x \in Keys, GetExpired(t, x),
         NEW k \in Keys \ disturbed', KeyInv(k)
  PROVE  KeyInv(k)'
<1>1. /\ op' = [op EXCEPT ![t] = [phase |-> "expired", keys |-> {x}, ver |-> None]] /\ op[t] = Idle
      /\ UNCHANGED <<memory, disk, horizon, current>> /\ horizon \in Nat
      /\ memory[x].ver = None /\ disk[x] \in Versions /\ Expired(disk[x])
  BY DEF GetExpired, Enter, CacheType
<1>2. /\ op'[t] = [phase |-> "expired", keys |-> {x}, ver |-> None]
      /\ \A u \in Threads : u # t => op'[u] = op[u]
  BY <1>1 DEF CacheType
<1>3. CASE k # x
  BY <1>1, <1>2, <1>3, KeyStays DEF Idle
<1>4. CASE k = x
  <2>1. k \notin Busy
    BY <1>4 DEF GetExpired
  <2>2. \A v \in Versions : current[k] = {v} => v <= horizon
    <3>1. disk[k] \in current[k]
      BY <1>1, <1>4, CacheAssumption DEF KeyInv, Versions, Torn, None
    <3> QED BY <1>1, <1>4, <3>1 DEF Expired
  <2>3. Underway(op[t], k)'
    BY <1>1, <1>2, <1>4, <2>2 DEF Underway
  <2>4. memory[k].ver \in current[k] \cup {None} /\ disk[k] \in current[k] \cup {None, Torn}
    BY DEF KeyInv
  <2>5. k \in op'[t].keys
    BY <1>2, <1>4
  <2> QED BY <1>1, <1>2, <2>1, <2>3, <2>4, <2>5, KeyBegins
<1> QED BY <1>3, <1>4

LEMMA SetKeys ==
  ASSUME CacheType, Cardinality(InMemory(memory)) <= MemorySize, NEW t \in Threads, NEW x \in Keys, Set(t, x),
         NEW k \in Keys \ disturbed', KeyInv(k)
  PROVE  KeyInv(k)'
<1> DEFINE e == [ver |-> last + 1, hits |-> 0]
           o == [phase |-> "stored", keys |-> {x}, ver |-> last + 1]
<1>1. /\ e \in Entry /\ last + 1 \in Versions /\ memory' \in Trimmed([memory EXCEPT ![x] = e])
      /\ op' = [op EXCEPT ![t] = o] /\ op[t] = Idle /\ UNCHANGED <<disk, horizon>> /\ horizon \in Nat
  BY CacheAssumption DEF Set, Enter, Entry, Versions, CacheType
<1>2. op'[t] = o /\ \A u \in Threads : u # t => op'[u] = op[u]
  BY <1>1 DEF CacheType
<1> HIDE DEF e
<1>3. memory'[k] \in {[memory EXCEPT ![x] = e][k], Absent}
  BY <1>1, OneMore, TrimmedMeans
<1>4. current'[k] = IF k = x THEN current[k] \cup {last + 1} ELSE current[k]
  BY DEF Set, Begin
<1>5. CASE k # x
  <2>1. memory'[k].ver \in {memory[k].ver, None}
    BY <1>3, <1>5 DEF CacheType, Absent
  <2> QED BY <1>1, <1>2, <1>4, <1>5, <2>1, KeyStays DEF Idle
<1>6. CASE k = x
  <2>1. k \notin Busy
    BY <1>6 DEF Set, Begin
  <2>2. memory'[k].ver \in {last + 1, None}
    BY <1>3, <1>6 DEF e, CacheType, Absent
  <2>3. current'[k] # {last + 1}
    <3>1. current[k] # {} /\ current[k] \subseteq 0..last /\ last \in Nat
      BY DEF CacheType
    <3>2. PICK v \in current[k] : v <= last
      BY <3>1
    <3> QED BY <1>4, <1>6, <3>1, <3>2
  <2>4. Underway(op[t], k)'
    BY <1>2, <1>4, <1>6, <2>2, <2>3 DEF Underway
  <2>5. /\ memory'[k].ver \in current'[k] \cup {None} /\ disk'[k] \in current'[k] \cup {None, Torn}
        /\ k \in op'[t].keys
    BY <1>1, <1>2, <1>4, <1>6, <2>2 DEF KeyInv
  <2> QED BY <1>2, <2>1, <2>4, <2>5, KeyBegins
<1> QED BY <1>5, <1>6

\* invalidate and clear: from memory first.
LEMMA PopKeys ==
  ASSUME CacheType, NEW t \in Threads, NEW K \in SUBSET Keys, NEW ph \in {"popped", "clearing"},
         op[t] = Idle, Enter(t, ph, K, None), Begin(K, None), UNCHANGED <<disk, horizon>>,
         \A x \in Keys : memory'[x] = IF x \in K THEN Absent ELSE memory[x],
         NEW k \in Keys \ disturbed', KeyInv(k)
  PROVE  KeyInv(k)'
<1>1. op'[t] = [phase |-> ph, keys |-> K, ver |-> None] /\ \A u \in Threads : u # t => op'[u] = op[u]
  BY DEF Enter, CacheType
<1>2. current'[k] = (IF k \in K THEN current[k] \cup {None} ELSE current[k]) /\ horizon \in Nat
  BY DEF Begin, CacheType
<1>3. CASE k \notin K
  BY <1>1, <1>2, <1>3, KeyStays DEF Idle
<1>4. CASE k \in K
  <2>1. k \notin Busy
    BY <1>4 DEF Begin
  <2>2. memory'[k].ver = None
    BY <1>4 DEF Absent
  <2>3. Underway(op[t], k)'
    BY <1>1, <1>2, <1>4, <2>2 DEF Underway
  <2>4. /\ memory'[k].ver \in current'[k] \cup {None} /\ disk'[k] \in current'[k] \cup {None, Torn}
        /\ k \in op'[t].keys
    BY <1>1, <1>2, <1>4, <2>2 DEF KeyInv
  <2> QED BY <1>1, <2>1, <2>3, <2>4, KeyBegins
<1> QED BY <1>3, <1>4

\* An unlink makes an orphan only of a call on the same key, which is disturbed then.
LEMMA UnlinkOps ==
  ASSUME CacheType, NEW t \in Threads, NEW K, K = op[t].keys, Unlink(t, K), NEW k \in Keys, KeyInv(k)
  PROVE  /\ op'[t] = Idle
         /\ \A u \in Threads : u # t => op'[u] = op[u] \/ (k \notin op[u].keys /\ k \notin op'[u].keys)
         /\ disk'[k] = IF k \in K THEN None ELSE disk[k]
<1>1. op'[t] = Idle /\ disk'[k] = IF k \in K THEN None ELSE disk[k]
  BY DEF Unlink
<1>2. ASSUME NEW u \in Threads, u # t PROVE op'[u] = op[u] \/ (k \notin op[u].keys /\ k \notin op'[u].keys)
  <2>1. CASE op[u].phase = "writing" /\ op[u].keys \subseteq K
    <3>1. op'[u] = [op[u] EXCEPT !.phase = "orphaned"] /\ op[u] \in [phase : Phases, keys : SUBSET Keys, ver : 0..MaxVersion]
      BY <1>2, <2>1 DEF Unlink, CacheType
    <3>2. op'[u].keys = op[u].keys
      BY <3>1
    <3>3. k \notin op[u].keys
      BY <1>2, <2>1 DEF KeyInv
    <3> QED BY <3>2, <3>3
  <2>2. CASE ~(op[u].phase = "writing" /\ op[u].keys \subseteq K)
    BY <1>2, <2>2 DEF Unlink
  <2> QED BY <2>1, <2>2
<1> QED BY <1>1, <1>2

LEMMA UnlinkExpiredKeys ==
  ASSUME CacheType, NEW t \in Threads, UnlinkExpired(t), NEW k \in Keys, KeyInv(k)
  PROVE  KeyInv(k)'
<1>1. /\ UNCHANGED <<memory, horizon, current>> /\ horizon \in Nat /\ op[t].phase = "expired"
      /\ op'[t] = Idle /\ disk'[k] = IF k \in op[t].keys THEN None ELSE disk[k]
      /\ \A u \in Threads : u # t => op'[u] = op[u] \/ (k \notin op[u].keys /\ k \notin op'[u].keys)
  BY UnlinkOps DEF UnlinkExpired, CacheType
<1>2. CASE k \notin op[t].keys
  BY <1>1, <1>2, KeyStays DEF Idle
<1>3. CASE k \in op[t].keys
  <2>1. \A v \in Versions : current[k] = {v} => v <= horizon
    BY <1>1, <1>3 DEF KeyInv, Underway
  <2>2. memory[k].ver \in current[k] \cup {None}
    BY DEF KeyInv
  <2>3. k \notin op'[t].keys
    BY <1>1 DEF Idle
  <2> QED BY <1>1, <1>3, <2>1, <2>2, <2>3, KeyAdvances
<1> QED BY <1>2, <1>3

\* invalidate and clear: then the files.
LEMMA PoppedKeys ==
  ASSUME CacheType, NEW t \in Threads, op[t].phase \in {"popped", "clearing"}, Unlink(t, op[t].keys),
         End(op[t].keys, None), UNCHANGED <<memory, horizon>>, NEW k \in Keys, KeyInv(k)
  PROVE  KeyInv(k)'
<1>1. /\ op'[t] = Idle /\ disk'[k] = (IF k \in op[t].keys THEN None ELSE disk[k]) /\ horizon \in Nat
      /\ \A u \in Threads : u # t => op'[u] = op[u] \/ (k \notin op[u].keys /\ k \notin op'[u].keys)
      /\ current'[k] = IF k \in op[t].keys THEN {None} ELSE current[k]
  BY UnlinkOps DEF End, CacheType
<1>2. CASE k \notin op[t].keys
  BY <1>1, <1>2, KeyStays DEF Idle
<1>3. CASE k \in op[t].keys
  <2>1. memory[k].ver = None
    BY <1>3 DEF KeyInv, Underway
  <2>2. \A v \in Versions : current'[k] # {v}
    BY <1>1, <1>3 DEF Versions, None
  <2>3. k \notin op'[t].keys
    BY <1>1 DEF Idle
  <2> QED BY <1>1, <1>3, <2>1, <2>2, <2>3, KeyAdvances
<1> QED BY <1>2, <1>3

\* The phases of a set.
LEMMA PhaseChanges ==
  ASSUME CacheType, NEW t \in Threads, NEW ph, Become(t, ph)
  PROVE  /\ op'[t].phase = ph /\ op'[t].keys = op[t].keys /\ op'[t].ver = op[t].ver
         /\ \A u \in Threads : u # t => op'[u] = op[u]
BY DEF Become, CacheType

LEMMA OpenKeys ==
  ASSUME CacheType, NEW t \in Threads, Open(t), NEW k \in Keys, KeyInv(k)
  PROVE  KeyInv(k)'
<1>1. /\ op'[t].phase = "writing" /\ op'[t].keys = op[t].keys /\ op'[t].ver = op[t].ver
      /\ \A u \in Threads : u # t => op'[u] = op[u]
      /\ disk'[k] = (IF k \in op[t].keys THEN Torn ELSE disk[k]) /\ UNCHANGED <<memory, horizon, current>>
      /\ horizon \in Nat /\ op[t].phase = "stored"
  BY PhaseChanges DEF Open, CacheType
<1>2. CASE k \notin op[t].keys
  BY <1>1, <1>2, KeyStays
<1>3. CASE k \in op[t].keys
  <2>1. Underway(op[t], k) /\ memory[k].ver \in current[k] \cup {None}
    BY <1>3 DEF KeyInv
  <2>2. Underway(op[t], k)'
    BY <1>1, <1>3, <2>1 DEF Underway
  <2> QED BY <1>1, <1>3, <2>1, <2>2, KeyAdvances
<1> QED BY <1>2, <1>3

LEMMA WriteFileKeys ==
  ASSUME CacheType, NEW t \in Threads, WriteFile(t), NEW k \in Keys, KeyInv(k)
  PROVE  KeyInv(k)'
<1>1. /\ op'[t].phase = "indexing" /\ op'[t].keys = op[t].keys /\ op'[t].ver = op[t].ver
      /\ \A u \in Threads : u # t => op'[u] = op[u]
      /\ UNCHANGED <<memory, horizon, current>> /\ horizon \in Nat
  BY PhaseChanges DEF WriteFile, CacheType
<1>2. PICK x \in Keys : op[t].keys = {x}
  BY DEF WriteFile, CacheType, OpType
<1>3. CASE k \notin op[t].keys
  <2>1. disk'[k] = disk[k]
    BY <1>2, <1>3 DEF WriteFile, CacheType
  <2> QED BY <1>1, <1>3, <2>1, KeyStays
<1>4. CASE k \in op[t].keys
  <2>1. Underway(op[t], k) /\ memory[k].ver \in current[k] \cup {None}
    BY <1>4 DEF KeyInv
  <2>2. op[t].phase = "writing" /\ disk[k] = Torn
    BY <2>1 DEF WriteFile, Underway
  <2>3. disk'[k] = op[t].ver
    BY <1>2, <1>4, <2>2 DEF WriteFile, CacheType
  <2>4. Underway(op[t], k)' /\ disk'[k] \in current'[k]
    BY <1>1, <2>1, <2>2, <2>3 DEF Underway
  <2> QED BY <1>1, <1>4, <2>1, <2>4, KeyAdvances
<1> QED BY <1>3, <1>4

LEMMA WriteFailsKeys ==
  ASSUME CacheType, NEW t \in Threads, WriteFails(t), NEW k \in Keys \ disturbed', KeyInv(k)
  PROVE  KeyInv(k)'
<1>1. /\ op'[t].keys = op[t].keys /\ \A u \in Threads : u # t => op'[u] = op[u]
      /\ UNCHANGED <<memory, disk, horizon, current>> /\ horizon \in Nat
  BY PhaseChanges DEF WriteFails, CacheType
<1>2. k \notin op[t].keys
  BY DEF WriteFails
<1> QED BY <1>1, <1>2, KeyStays

LEMMA SaveIndexKeys ==
  ASSUME CacheType, NEW t \in Threads, SaveIndex(t), NEW k \in Keys, KeyInv(k)
  PROVE  KeyInv(k)'
<1>1. /\ op'[t] = Idle /\ \A u \in Threads : u # t => op'[u] = op[u]
      /\ UNCHANGED <<memory, disk, horizon>> /\ horizon \in Nat /\ op[t].phase = "indexing"
      /\ current'[k] = IF k \in op[t].keys THEN {op[t].ver} ELSE current[k]
  BY DEF SaveIndex, Leave, End, CacheType
<1>2. CASE k \notin op[t].keys
  BY <1>1, <1>2, KeyStays DEF Idle
<1>3. CASE k \in op[t].keys
  <2>1. memory[k].ver \in {op[t].ver, None} /\ disk[k] = op[t].ver
    BY <1>1, <1>3 DEF KeyInv, Underway
  <2>2. \A v \in Versions : current'[k] = {v} => disk'[k] = v
    BY <1>1, <1>3, <2>1
  <2>3. k \notin op'[t].keys
    BY <1>1 DEF Idle
  <2> QED BY <1>1, <1>3, <2>1, <2>2, <2>3, KeyAdvances
<1> QED BY <1>2, <1>3

\* A crash cuts calls short: what they may have left stays possible, and nothing else is loaded.
LEMMA RestartKeys ==
  ASSUME CacheType, Restart, NEW k \in Keys, KeyInv(k)
  PROVE  KeyInv(k)'
<1>1. /\ memory'[k].ver \in {disk[k], None} /\ (memory'[k].ver # None => disk[k] \in Versions)
      /\ \A t \in Threads : op'[t] = Idle
      /\ UNCHANGED <<disk, horizon, current>>
  BY DEF Restart, Absent
<1>2. memory'[k].ver \in current[k] \cup {None}
  <2>1. disk[k] \in Versions => disk[k] \in current[k]
    BY CacheAssumption DEF KeyInv, Versions, Torn, None
  <2> QED BY <1>1, <2>1
<1>3. ASSUME NEW v \in Versions, current[k] = {v}, ~(v <= horizon) PROVE disk[k] = v
  <2>1. CASE \A t \in Threads : k \notin op[t].keys
    BY <1>3, <2>1 DEF KeyInv
  <2>2. CASE \E t \in Threads : k \in op[t].keys
    <3>1. PICK t \in Threads : k \in op[t].keys
      BY <2>2
    <3>2. Underway(op[t], k) /\ op[t] # Idle /\ op[t].phase \in Phases
      BY <3>1 DEF KeyInv, Idle, CacheType
    <3>3. op[t].phase # "idle"
      BY <3>2 DEF CacheType, OpType
    <3>4. v # None
      BY DEF Versions, None
    <3> QED BY <1>3, <3>2, <3>3, <3>4 DEF Underway, Phases
  <2> QED BY <2>1, <2>2
<1> QED BY <1>1, <1>2, <1>3 DEF KeyInv, Idle

LEMMA KeysStep == CacheInv /\ [CacheNext]_cacheVars => \A k \in Keys \ disturbed' : KeyInv(k)'
<1> SUFFICES ASSUME CacheInv, [CacheNext]_cacheVars, NEW k \in Keys \ disturbed' PROVE KeyInv(k)'
  OBVIOUS
<1>1. CacheType /\ Cardinality(InMemory(memory)) <= MemorySize
  BY DEF CacheInv
<1>2. KeyInv(k)
  <2>1. disturbed \subseteq disturbed'
    BY DEF CacheNext, cacheVars, GetMemory, GetDisk, GetExpired, UnlinkExpired, Set, Begin, Open, WriteFile, WriteFails,
           SaveIndex, InvalidatePop, InvalidateUnlink, ClearMemory, ClearFiles, Tick, Restart
  <2> QED BY <2>1 DEF CacheInv
<1>3. ASSUME NEW x \in Keys, GetMemory(x) \/ GetDisk(x) PROVE KeyInv(k)'
  BY <1>1, <1>2, <1>3, GetMemoryKeys, GetDiskKeys
<1>4. ASSUME NEW t \in Threads, NEW x \in Keys, GetExpired(t, x) \/ Set(t, x) PROVE KeyInv(k)'
  BY <1>1, <1>2, <1>4, GetExpiredKeys, SetKeys
<1>5. ASSUME NEW t \in Threads, NEW x \in Keys, InvalidatePop(t, x) PROVE KeyInv(k)'
  <2>1. \A y \in Keys : memory'[y] = IF y \in {x} THEN Absent ELSE memory[y]
    BY <1>1, <1>5 DEF InvalidatePop, CacheType
  <2> QED BY <1>1, <1>2, <1>5, <2>1, PopKeys DEF InvalidatePop
<1>6. ASSUME NEW t \in Threads, ClearMemory(t) PROVE KeyInv(k)'
  <2>1. \A y \in Keys : memory'[y] = IF y \in Keys THEN Absent ELSE memory[y]
    BY <1>6 DEF ClearMemory
  <2> QED BY <1>1, <1>2, <1>6, <2>1, PopKeys DEF ClearMemory
<1>7. ASSUME NEW t \in Threads, InvalidateUnlink(t) \/ ClearFiles(t) PROVE KeyInv(k)'
  <2>1. op[t].phase = "clearing" => op[t].keys = Keys
    BY <1>1 DEF CacheType, OpType
  <2> QED BY <1>1, <1>2, <1>7, <2>1, PoppedKeys DEF InvalidateUnlink, ClearFiles
<1>8. ASSUME NEW t \in Threads, UnlinkExpired(t) \/ Open(t) \/ WriteFile(t) PROVE KeyInv(k)'
  BY <1>1, <1>2, <1>8, UnlinkExpiredKeys, OpenKeys, WriteFileKeys
<1>9. ASSUME NEW t \in Threads, WriteFails(t) \/ SaveIndex(t) PROVE KeyInv(k)'
  BY <1>1, <1>2, <1>9, WriteFailsKeys, SaveIndexKeys
<1>10. CASE Restart
  BY <1>1, <1>2, <1>10, RestartKeys
<1>11. CASE Tick \/ UNCHANGED cacheVars
  <2>1. horizon' \in Nat /\ horizon' >= horizon /\ UNCHANGED <<memory, disk, op, current>>
    BY <1>1, <1>11 DEF Tick, cacheVars, CacheType
  <2> QED BY <1>1, <1>2, <2>1, KeyStays
<1> QED BY <1>3, <1>4, <1>5, <1>6, <1>7, <1>8, <1>9, <1>10, <1>11 DEF CacheNext

\* The memory stays within its size, and so does what the index would load.
LEMMA SizeStep ==
  CacheInv /\ [CacheNext]_cacheVars => Cardinality(InMemory(memory))' <= MemorySize /\ Cardinality(index)' <= MemorySize
<1> SUFFICES ASSUME CacheInv, [CacheNext]_cacheVars
             PROVE  Cardinality(InMemory(memory')) <= MemorySize /\ Cardinality(index') <= MemorySize
  BY DEF InMemory
<1>1. /\ CacheType /\ Cardinality(InMemory(memory)) <= MemorySize /\ Cardinality(index) <= MemorySize
      /\ IsFiniteSet(Keys) /\ MemorySize \in Nat /\ Absent.ver = None
  BY CacheAssumption DEF CacheInv, Absent
<1>2. IsFiniteSet(InMemory(memory)) /\ IsFiniteSet(index) /\ Cardinality({}) <= MemorySize
  BY <1>1, FS_Subset, FS_EmptySet DEF InMemory, CacheType
<1>3. ASSUME NEW x \in Keys, GetMemory(x) PROVE InMemory(memory') \subseteq InMemory(memory) /\ index' = index
  BY <1>1, <1>3 DEF GetMemory, InMemory, CacheType
<1>4. ASSUME NEW x \in Keys, GetDisk(x) PROVE Cardinality(InMemory(memory')) <= MemorySize /\ index' = index
  <2> DEFINE e == [ver |-> disk[x], hits |-> 1]
  <2>1. e \in Entry /\ memory' \in Trimmed([memory EXCEPT ![x] = e]) /\ index' = index
    BY <1>4, CacheAssumption DEF GetDisk, Entry, Versions
  <2> HIDE DEF e
  <2> QED BY <1>1, <2>1, OneMore, TrimmedMeans
<1>5. ASSUME NEW t \in Threads, NEW x \in Keys, Set(t, x)
      PROVE  Cardinality(InMemory(memory')) <= MemorySize /\ index' = index
  <2> DEFINE e == [ver |-> last + 1, hits |-> 0]
  <2>1. e \in Entry /\ memory' \in Trimmed([memory EXCEPT ![x] = e]) /\ index' = index
    BY <1>1, <1>5, CacheAssumption DEF Set, Entry, CacheType
  <2> HIDE DEF e
  <2> QED BY <1>1, <2>1, OneMore, TrimmedMeans
<1>6. ASSUME NEW t \in Threads, NEW x \in Keys, InvalidatePop(t, x)
      PROVE  InMemory(memory') \subseteq InMemory(memory) /\ index' = index
  BY <1>1, <1>6 DEF InvalidatePop, InMemory, CacheType
<1>7. ASSUME NEW t \in Threads, ClearMemory(t) PROVE InMemory(memory') \subseteq InMemory(memory) /\ index' = index
  BY <1>1, <1>7 DEF ClearMemory, InMemory
<1>8. CASE Restart
  <2>1. index' \subseteq index /\ InMemory(memory') \subseteq index'
    BY <1>1, <1>8 DEF Restart, InMemory
  <2>2. Cardinality(index') <= MemorySize /\ IsFiniteSet(index')
    <3>1. index' = index \/ index' = {}
      BY <1>8 DEF Restart
    <3> QED BY <1>1, <1>2, <3>1, FS_EmptySet
  <2> QED BY <1>1, <2>1, <2>2, FewerEntries
<1>9. ASSUME NEW t \in Threads, SaveIndex(t) PROVE memory' = memory /\ index' = InMemory(memory)
  BY <1>9 DEF SaveIndex
<1>10. ASSUME NEW t \in Threads, \/ UnlinkExpired(t) \/ Open(t) \/ WriteFile(t)
                                 \/ WriteFails(t) \/ InvalidateUnlink(t) \/ ClearFiles(t)
       PROVE  memory' = memory /\ index' \in {index, {}}
  BY <1>10 DEF UnlinkExpired, Open, WriteFile, WriteFails, InvalidateUnlink, ClearFiles
<1>11. ASSUME NEW t \in Threads, NEW x \in Keys, GetExpired(t, x) PROVE memory' = memory /\ index' = index
  BY <1>11 DEF GetExpired
<1>12. CASE Tick \/ UNCHANGED cacheVars
  BY <1>1, <1>12 DEF Tick, cacheVars
\* every step is of one of these kinds
<1>13. ASSUME InMemory(memory') \subseteq InMemory(memory), index' = index
       PROVE  Cardinality(InMemory(memory')) <= MemorySize /\ Cardinality(index') <= MemorySize
  BY <1>1, <1>2, <1>13, FewerEntries
<1> QED
  BY <1>1, <1>2, <1>3, <1>4, <1>5, <1>6, <1>7, <1>8, <1>9, <1>10, <1>11, <1>12, <1>13
  DEF CacheNext

LEMMA CacheInvInductive == CacheInv /\ [CacheNext]_cacheVars => CacheInv'
<1> SUFFICES ASSUME CacheInv, [CacheNext]_cacheVars PROVE CacheInv'
  OBVIOUS
<1>1. CacheType' /\ OpsKnown'
  BY CacheTypeStep, OpsKnownStep DEF CacheInv
<1> QED BY <1>1, KeysStep, SizeStep DEF CacheInv

LEMMA CacheInvInit == CacheInit => CacheInv
<1> SUFFICES ASSUME CacheInit PROVE CacheInv
  OBVIOUS
<1>1. InMemory(memory) = {} /\ index = {} /\ Cardinality({}) = 0 /\ MemorySize \in Nat /\ MaxVersion \in Nat
  BY CacheAssumption, FS_EmptySet DEF CacheInit, InMemory, Absent
<1>2. CacheType /\ OpsKnown
  BY <1>1, OpTypes DEF CacheInit, CacheType, OpsKnown, Absent, Entry, None, Torn, Idle, OpType, Phases
<1>3. ASSUME NEW k \in Keys PROVE KeyInv(k)
  BY DEF CacheInit, KeyInv, Idle, Absent, None, Versions
<1> QED BY <1>1, <1>2, <1>3 DEF CacheInv

\* Regular: for any number of keys and threads, any size of the memory, and any failed writes and crashes,
\* a key whose calls did not overlap holds what its last finished call left, or one cut short or under way.
THEOREM CacheIsRegular == CacheSpec => []Regular
<1>1. CacheInv => Regular
  BY DEF CacheInv, KeyInv, Regular
<1> QED BY <1>1, CacheInvInit, CacheInvInductive, PTL DEF CacheSpec

\* Retained: what a finished set of such a key stored stays on disk until it expires, whatever is evicted,
\* loaded, lost or done to other keys, and the memory stays within its size, across restarts too.
THEOREM CacheRetains == CacheSpec => []Retained
<1>1. CacheInv => Retained
  BY DEF CacheInv, KeyInv, Retained, Busy
<1> QED BY <1>1, CacheInvInit, CacheInvInductive, PTL DEF CacheSpec

-----------------------------------------------------------------------------
-----------------------------------------------------------------------------
(* The rate limiter: what it remembers of a client is a suffix of the       *)
(* client's admissions that begins after old ones only.                     *)

Remembers(s, a) ==
  \E n \in 0 .. Len(a) : s = SubSeq(a, n + 1, Len(a)) /\ \A i \in 1 .. n : ~InWindow(a[i])

InOrder(a) == /\ \A i \in DOMAIN a : a[i] <= now
              /\ \A i, j \in DOMAIN a : i <= j => a[i] <= a[j]

Spaced(a) == \A i \in DOMAIN a : i + MaxRequests \in DOMAIN a => a[i + MaxRequests] - a[i] >= Window

LimiterInv ==
  /\ now \in Nat /\ times \in [Clients -> Seq(Nat)] /\ admitted \in [Clients -> Seq(Nat)]
  /\ \A c \in Clients : Remembers(times[c], admitted[c]) /\ InOrder(admitted[c]) /\ Spaced(admitted[c])

LEMMA SuffixMeans ==
  ASSUME NEW a \in Seq(Nat), NEW n \in 0 .. Len(a)
  PROVE /\ SubSeq(a, n + 1, Len(a)) \in Seq(Nat)
        /\ Len(SubSeq(a, n + 1, Len(a))) = Len(a) - n
        /\ \A i \in 1 .. Len(a) - n : SubSeq(a, n + 1, Len(a))[i] = a[n + i]
<1>1. n + 1 \in Int /\ Len(a) \in Int /\ \A i \in n + 1 .. Len(a) : a[i] \in Nat
  OBVIOUS
<1>2. /\ SubSeq(a, n + 1, Len(a)) \in Seq(Nat)
      /\ Len(SubSeq(a, n + 1, Len(a))) = IF n + 1 <= Len(a) THEN Len(a) - (n + 1) + 1 ELSE 0
      /\ \A i \in 1 .. Len(a) - (n + 1) + 1 : SubSeq(a, n + 1, Len(a))[i] = a[(n + 1) + i - 1]
  BY <1>1, SubSeqProperties
<1> QED BY <1>2

LEMMA PoppedMeans ==
  ASSUME NEW s \in Seq(Nat)
  PROVE /\ Popped(s) \in 0 .. Len(s)
        /\ \A i \in 1 .. Popped(s) : ~InWindow(s[i])
        /\ Popped(s) < Len(s) => InWindow(s[Popped(s) + 1])
<1> DEFINE T == {n \in 0 .. Len(s) : n < Len(s) => InWindow(s[n + 1])}
<1>1. Len(s) \in T /\ T \subseteq Nat
  OBVIOUS
<1>2. PICK n \in T : \A m \in T : n <= m
  BY <1>1, LeastNat
<1>3. ASSUME NEW i \in 1 .. n PROVE ~InWindow(s[i])
  <2>1. i - 1 \in 0 .. Len(s) /\ i - 1 < Len(s) /\ i - 1 < n /\ (i - 1) + 1 = i
    BY <1>1
  <2>2. i - 1 \notin T
    BY <1>2, <2>1
  <2> QED BY <2>1, <2>2
<1>4. n \in 0 .. Len(s) /\ PopsFirst(n, s)
  BY <1>2, <1>3 DEF PopsFirst
<1>5. Popped(s) \in 0 .. Len(s) /\ PopsFirst(Popped(s), s)
  BY <1>4, Zenon DEF Popped
<1> QED BY <1>5 DEF PopsFirst

LEMMA PoppingRemembers ==
  ASSUME NEW a \in Seq(Nat), NEW s, Remembers(s, a)
  PROVE /\ s \in Seq(Nat)
        /\ Remembers(SubSeq(s, Popped(s) + 1, Len(s)), a)
        /\ SubSeq(s, Popped(s) + 1, Len(s)) \in Seq(Nat)
<1>1. PICK n \in 0 .. Len(a) : s = SubSeq(a, n + 1, Len(a)) /\ \A i \in 1 .. n : ~InWindow(a[i])
  BY DEF Remembers
<1>2. s \in Seq(Nat) /\ Len(s) = Len(a) - n /\ \A i \in 1 .. Len(a) - n : s[i] = a[n + i]
  BY <1>1, SuffixMeans
<1>3. PICK p \in 0 .. Len(s) : p = Popped(s) /\ \A i \in 1 .. p : ~InWindow(s[i])
  BY <1>2, PoppedMeans
<1> DEFINE t == SubSeq(s, p + 1, Len(s))
           u == SubSeq(a, n + p + 1, Len(a))
<1>4. t \in Seq(Nat) /\ Len(t) = Len(s) - p /\ \A i \in 1 .. Len(s) - p : t[i] = s[p + i]
  BY <1>2, SuffixMeans
<1>5. n + p \in 0 .. Len(a)
  BY <1>2
<1>6. u \in Seq(Nat) /\ Len(u) = Len(a) - (n + p) /\ \A i \in 1 .. Len(a) - (n + p) : u[i] = a[n + p + i]
  BY <1>5, SuffixMeans
<1> HIDE DEF t, u
<1>7. Len(t) = Len(u) /\ \A i \in 1 .. Len(t) : t[i] = u[i]
  <2>1. Len(t) = Len(a) - n - p /\ Len(u) = Len(t)
    BY <1>2, <1>4, <1>6
  <2>2. ASSUME NEW i \in 1 .. Len(t) PROVE t[i] = u[i]
    <3>1. t[i] = s[p + i]
      BY <1>4, <2>2
    <3>2. p + i \in 1 .. Len(a) - n /\ i \in 1 .. Len(a) - (n + p) /\ n + (p + i) = n + p + i
      BY <2>1, <2>2
    <3>3. s[p + i] = a[n + (p + i)] /\ u[i] = a[n + p + i]
      BY <1>2, <1>6, <3>2
    <3> QED BY <3>1, <3>2, <3>3
  <2> QED BY <2>1, <2>2
<1>8. t = u
  BY <1>4, <1>6, <1>7, SeqEqual
<1>9. ASSUME NEW i \in 1 .. n + p PROVE ~InWindow(a[i])
  <2>1. CASE i <= n
    BY <1>1, <2>1
  <2>2. CASE i > n
    <3>1. i - n \in 1 .. p /\ i - n \in 1 .. Len(a) - n /\ n + (i - n) = i
      BY <1>2, <2>2
    <3> QED BY <1>2, <1>3, <3>1
  <2> QED BY <2>1, <2>2
<1>10. Remembers(t, a)
  BY <1>5, <1>8, <1>9 DEF Remembers, u
<1> QED BY <1>2, <1>3, <1>4, <1>10 DEF t

LEMMA ForgettingRemembers ==
  ASSUME NEW a \in Seq(Nat), NEW s, Remembers(s, a), InOrder(a), s # <<>>, ~InWindow(Last(s)), now \in Nat
  PROVE Remembers(<<>>, a)
<1>1. PICK n \in 0 .. Len(a) : s = SubSeq(a, n + 1, Len(a)) /\ \A i \in 1 .. n : ~InWindow(a[i])
  BY DEF Remembers
<1>2. s \in Seq(Nat) /\ Len(s) = Len(a) - n /\ \A i \in 1 .. Len(a) - n : s[i] = a[n + i]
  BY <1>1, SuffixMeans
<1>3. Len(s) # 0
  BY <1>2
<1>4. Last(s) = a[Len(a)]
  BY <1>2, <1>3 DEF Last
<1>5. ASSUME NEW i \in 1 .. Len(a) PROVE ~InWindow(a[i])
  <2>1. a[i] \in Nat /\ a[Len(a)] \in Nat /\ a[i] <= a[Len(a)]
    BY DEF InOrder
  <2>2. ~(a[Len(a)] > now - Window)
    BY <1>4 DEF InWindow
  <2> QED BY <2>1, <2>2, LimiterAssumption DEF InWindow
<1>6. <<>> = SubSeq(a, Len(a) + 1, Len(a))
  BY SubSeqEmpty
<1>7. Len(a) \in 0 .. Len(a)
  OBVIOUS
<1> QED BY <1>5, <1>6, <1>7, Zenon DEF Remembers

LEMMA AdmittingRemembers ==
  ASSUME NEW a \in Seq(Nat), NEW s, Remembers(s, a), InOrder(a), Spaced(a), Len(s) < MaxRequests, now \in Nat
  PROVE /\ Remembers(Append(s, now), Append(a, now))
        /\ InOrder(Append(a, now)) /\ Spaced(Append(a, now))
        /\ Append(a, now) \in Seq(Nat)
<1>1. PICK n \in 0 .. Len(a) : s = SubSeq(a, n + 1, Len(a)) /\ \A i \in 1 .. n : ~InWindow(a[i])
  BY DEF Remembers
<1>2. s \in Seq(Nat) /\ Len(s) = Len(a) - n /\ \A i \in 1 .. Len(a) - n : s[i] = a[n + i]
  BY <1>1, SuffixMeans
<1> DEFINE b == Append(a, now)
           t == Append(s, now)
<1>3. b \in Seq(Nat) /\ Len(b) = Len(a) + 1 /\ b[Len(a) + 1] = now /\ \A i \in 1 .. Len(a) : b[i] = a[i]
  BY AppendProperties
<1>4. t \in Seq(Nat) /\ Len(t) = Len(s) + 1 /\ t[Len(s) + 1] = now /\ \A i \in 1 .. Len(s) : t[i] = s[i]
  BY <1>2, AppendProperties
<1> HIDE DEF b, t
<1>0. n \in Nat /\ n <= Len(a) /\ Len(a) \in Nat /\ DOMAIN a = 1 .. Len(a) /\ DOMAIN b = 1 .. Len(a) + 1
      /\ \A i \in 1 .. Len(a) : a[i] \in Nat
  BY <1>3
<1>5. Remembers(t, b)
  <2>1. n \in 0 .. Len(b)
    BY <1>3
  <2> DEFINE u == SubSeq(b, n + 1, Len(b))
  <2>2. u \in Seq(Nat) /\ Len(u) = Len(b) - n /\ \A i \in 1 .. Len(b) - n : u[i] = b[n + i]
    BY <1>3, <2>1, SuffixMeans
  <2> HIDE DEF u
  <2>3. Len(t) = Len(u)
    BY <1>2, <1>3, <1>4, <2>2
  <2>4. ASSUME NEW i \in 1 .. Len(t) PROVE t[i] = u[i]
    <3>1. CASE i <= Len(s)
      <4>1. i \in 1 .. Len(s) /\ i \in 1 .. Len(a) - n /\ n + i \in 1 .. Len(a) /\ i \in 1 .. Len(b) - n
        BY <1>2, <1>3, <3>1
      <4> QED BY <1>2, <1>3, <1>4, <2>2, <4>1
    <3>2. CASE i > Len(s)
      <4>1. i = Len(s) + 1 /\ n + i = Len(a) + 1 /\ i \in 1 .. Len(b) - n
        BY <1>2, <1>3, <1>4, <3>2, SMTT(30)
      <4> QED BY <1>3, <1>4, <2>2, <4>1
    <3> QED BY <3>1, <3>2
  <2>5. t = u
    BY <1>4, <2>2, <2>3, <2>4, SeqEqual
  <2>6. \A i \in 1 .. n : ~InWindow(b[i])
    BY <1>0, <1>1, <1>3
  <2> QED BY <2>1, <2>5, <2>6 DEF Remembers, u
<1>6. InOrder(b)
  <2>1. \A i, j \in 1 .. Len(a) : a[i] <= now /\ (i <= j => a[i] <= a[j])
    BY <1>0, Zenon DEF InOrder
  <2>2. ASSUME NEW i \in 1 .. Len(a) + 1 PROVE b[i] <= now
    <3>1. CASE i <= Len(a)
      <4>1. i \in 1 .. Len(a)
        BY <1>0, <3>1
      <4> QED BY <1>3, <2>1, <4>1
    <3>2. CASE i > Len(a)
      <4>1. i = Len(a) + 1
        BY <1>0, <3>2
      <4> QED BY <1>3, <4>1
    <3> QED BY <1>0, <3>1, <3>2
  <2>3. ASSUME NEW i \in 1 .. Len(a) + 1, NEW j \in 1 .. Len(a) + 1, i <= j PROVE b[i] <= b[j]
    <3>1. CASE j <= Len(a)
      <4>1. i \in 1 .. Len(a) /\ j \in 1 .. Len(a)
        BY <1>0, <2>3, <3>1
      <4> QED BY <1>3, <2>1, <2>3, <4>1
    <3>2. CASE j > Len(a)
      <4>1. j = Len(a) + 1
        BY <1>0, <3>2
      <4> QED BY <1>3, <2>2, <4>1
    <3> QED BY <1>0, <3>1, <3>2
  <2> QED BY <1>0, <2>2, <2>3, Zenon DEF InOrder
<1>7. Spaced(b)
  <2> SUFFICES ASSUME NEW i \in DOMAIN b, i + MaxRequests \in DOMAIN b
               PROVE b[i + MaxRequests] - b[i] >= Window
    BY DEF Spaced
  <2>1. MaxRequests \in Nat \ {0} /\ Window \in Nat
    BY LimiterAssumption
  <2>2. CASE i + MaxRequests <= Len(a)
    <3>1. i \in 1 .. Len(a) /\ i + MaxRequests \in 1 .. Len(a)
      BY <1>3, <2>1, <2>2
    <3>2. a[i + MaxRequests] - a[i] >= Window
      BY <3>1 DEF Spaced
    <3> QED BY <1>3, <3>1, <3>2
  <2>3. CASE i + MaxRequests > Len(a)
    <3>1. i + MaxRequests = Len(a) + 1 /\ i \in 1 .. n
      BY <1>2, <1>3, <2>1, <2>3
    <3>2. b[i] = a[i] /\ a[i] \in Nat /\ ~(a[i] > now - Window) /\ b[i + MaxRequests] = now
      BY <1>0, <1>1, <1>3, <3>1 DEF InWindow
    <3> QED BY <2>1, <3>2
  <2> QED BY <2>1, <2>2, <2>3, <1>3
<1> QED BY <1>3, <1>5, <1>6, <1>7 DEF b, t

LEMMA LimiterInit == ApiInit => LimiterInv
<1> SUFFICES ASSUME ApiInit, NEW c \in Clients
             PROVE Remembers(<<>>, <<>>) /\ InOrder(<<>>) /\ Spaced(<<>>)
  BY DEF ApiInit, LimiterInv
<1>1. 0 \in 0 .. Len(<<>>) /\ Len(<<>>) = 0 /\ DOMAIN <<>> = {}
  OBVIOUS
<1>2. <<>> = SubSeq(<<>>, 0 + 1, 0)
  BY SubSeqEmpty
<1>3. Remembers(<<>>, <<>>)
  BY <1>1, <1>2 DEF Remembers
<1> QED BY <1>1, <1>3 DEF InOrder, Spaced

\* Forgetting idle clients leaves the admissions that count.
LEMMA CleanedRemembers ==
  ASSUME LimiterInv, NEW c \in Clients
  PROVE /\ Cleaned(times) \in [Clients -> Seq(Nat)]
        /\ Remembers(Cleaned(times)[c], admitted[c])
<1>1. ASSUME NEW d \in Clients, times[d] # <<>>, ~InWindow(Last(times[d]))
      PROVE Remembers(<<>>, admitted[d])
  <2>1. admitted[d] \in Seq(Nat) /\ Remembers(times[d], admitted[d]) /\ InOrder(admitted[d]) /\ now \in Nat
    BY DEF LimiterInv
  <2> QED BY <1>1, <2>1, ForgettingRemembers
<1>2. times \in [Clients -> Seq(Nat)] /\ Remembers(times[c], admitted[c])
  BY DEF LimiterInv
<1>3. <<>> \in Seq(Nat)
  OBVIOUS
<1> QED BY <1>1, <1>2, <1>3, Zenon DEF Cleaned

LEMMA LimitsKeeps ==
  ASSUME LimiterInv, NEW c \in Clients, Limits(c), now' = now
  PROVE LimiterInv'
<1> DEFINE table == Cleaned(times)
           s == Recent(table, c)
           a == admitted[c]
<1>1. table \in [Clients -> Seq(Nat)] /\ \A d \in Clients : Remembers(table[d], admitted[d])
  BY CleanedRemembers
<1>2. times' = Checked(table, c) /\ admitted' = [admitted EXCEPT ![c] = IF Admits(table, c) THEN Append(@, now) ELSE @]
  BY DEF Limits
<1> HIDE DEF table
<1>3. a \in Seq(Nat) /\ now \in Nat /\ InOrder(a) /\ Spaced(a) /\ admitted \in [Clients -> Seq(Nat)]
      /\ \A d \in Clients : InOrder(admitted[d]) /\ Spaced(admitted[d])
  BY DEF LimiterInv
<1>4. s \in Seq(Nat) /\ Remembers(s, a)
  BY <1>1, <1>3, PoppingRemembers DEF Recent
<1> HIDE DEF s
<1>5. CASE Admits(table, c)
  <2>1. Len(s) < MaxRequests /\ Len(s) # DequeLength
    BY <1>4, <1>5, LimiterAssumption DEF Admits, s
  <2>2. /\ Remembers(Append(s, now), Append(a, now)) /\ Append(a, now) \in Seq(Nat)
        /\ InOrder(Append(a, now)) /\ Spaced(Append(a, now))
    BY <1>3, <1>4, <2>1, AdmittingRemembers
  <2>3. Append(s, now) \in Seq(Nat)
    BY <1>3, <1>4
  <2>4. times' = [table EXCEPT ![c] = Append(s, now)] /\ admitted' = [admitted EXCEPT ![c] = Append(a, now)]
    BY <1>2, <1>5, <2>1, Zenon DEF Checked, Appended, s
  <2> HIDE DEF a
  <2>5. times' \in [Clients -> Seq(Nat)] /\ admitted' \in [Clients -> Seq(Nat)]
    BY <1>1, <1>3, <2>2, <2>3, <2>4
  <2>6. ASSUME NEW d \in Clients PROVE Remembers(times'[d], admitted'[d]) /\ InOrder(admitted'[d]) /\ Spaced(admitted'[d])
    BY <1>1, <1>3, <2>2, <2>4, Zenon
  <2> QED BY <1>3, <2>5, <2>6, now' = now DEF LimiterInv, Remembers, InOrder, Spaced, InWindow
<1>6. CASE ~Admits(table, c)
  <2>1. times' = [table EXCEPT ![c] = s] /\ admitted' = admitted
    BY <1>2, <1>3, <1>6 DEF Checked, s
  <2>5. times' \in [Clients -> Seq(Nat)] /\ admitted' \in [Clients -> Seq(Nat)]
    BY <1>1, <1>3, <1>4, <2>1
  <2>6. ASSUME NEW d \in Clients PROVE Remembers(times'[d], admitted'[d]) /\ InOrder(admitted'[d]) /\ Spaced(admitted'[d])
    BY <1>1, <1>3, <1>4, <2>1
  <2> QED BY <1>3, <2>5, <2>6, now' = now DEF LimiterInv, Remembers, InOrder, Spaced, InWindow
<1> QED BY <1>5, <1>6

LEMMA SecondKeeps == LimiterInv /\ SecondPasses => LimiterInv'
<1> SUFFICES ASSUME LimiterInv, SecondPasses PROVE LimiterInv'
  OBVIOUS
<1>1. now \in Nat /\ now' = now + 1 /\ times' = times /\ admitted' = admitted
  BY DEF LimiterInv, SecondPasses
<1>2. times \in [Clients -> Seq(Nat)] /\ admitted \in [Clients -> Seq(Nat)]
  BY DEF LimiterInv
<1>3. ASSUME NEW c \in Clients PROVE Remembers(times[c], admitted[c])'
  <2>1. PICK n \in 0 .. Len(admitted[c]) :
          /\ times[c] = SubSeq(admitted[c], n + 1, Len(admitted[c]))
          /\ \A i \in 1 .. n : ~InWindow(admitted[c][i])
    BY DEF LimiterInv, Remembers
  <2>2. ASSUME NEW i \in 1 .. n PROVE ~InWindow(admitted[c][i])'
    <3>1. PICK t \in Nat : t = admitted[c][i]
      BY <1>2
    <3>2. ~(t > now - Window) /\ Window \in Nat
      BY <2>1, <3>1, LimiterAssumption DEF InWindow
    <3>3. ~(t > now' - Window)
      BY <1>1, <3>2
    <3> QED BY <1>1, <3>1, <3>3 DEF InWindow
  <2> QED BY <1>1, <2>1, <2>2 DEF Remembers
<1>4. ASSUME NEW c \in Clients PROVE InOrder(admitted[c])'
  <2>1. admitted[c] \in Seq(Nat) /\ \A i \in DOMAIN admitted[c] : admitted[c][i] \in Nat
    BY <1>2
  <2>2. \A i, j \in DOMAIN admitted[c] : admitted[c][i] <= now /\ (i <= j => admitted[c][i] <= admitted[c][j])
    BY Zenon DEF LimiterInv, InOrder
  <2>3. \A i \in DOMAIN admitted[c] : admitted[c][i] <= now + 1
    BY <1>1, <2>1, <2>2
  <2> QED BY <1>1, <2>2, <2>3, Zenon DEF InOrder
<1>5. \A c \in Clients : Spaced(admitted[c])'
  BY <1>1 DEF LimiterInv, Spaced
<1> QED BY <1>1, <1>2, <1>3, <1>4, <1>5 DEF LimiterInv

\* The limiter's part of every action.
LEMMA LimiterInvInductive == LimiterInv /\ [ApiNext]_apiVars => LimiterInv'
<1> SUFFICES ASSUME LimiterInv, [ApiNext]_apiVars PROVE LimiterInv'
  OBVIOUS
<1>1. ASSUME NEW r, NEW c \in Clients, NEW key, NEW tenant, NEW endpoint, NEW text, NEW i, NEW sanitize,
             Arrive(r, c, key, tenant, endpoint, text, i, sanitize)
      PROVE LimiterInv'
  BY <1>1, LimitsKeeps DEF Arrive
<1>2. ASSUME UNCHANGED <<now, times, admitted>> PROVE LimiterInv'
  BY <1>2 DEF LimiterInv, Remembers, InOrder, Spaced, InWindow
<1>3. ASSUME NEW r, NEW outcome, RouterEnds(r, outcome) PROVE LimiterInv'
  BY <1>2, <1>3 DEF RouterEnds
<1>4. CASE SecondPasses
  BY <1>4, SecondKeeps
<1>5. CASE UNCHANGED apiVars
  BY <1>2, <1>5 DEF apiVars
<1> QED BY <1>1, <1>3, <1>4, <1>5 DEF ApiNext

\* For every number of clients, every limit and every window: the limiter's memory is the admissions that
\* still count and no other, however idle clients are forgotten, and no window has more than the limit of them.
THEOREM LimitIsExact == ApiSpec => []LimitExact
<1>1. ApiInit => LimiterInv
  BY LimiterInit
<1>2. LimiterInv /\ [ApiNext]_apiVars => LimiterInv'
  BY LimiterInvInductive
<1>3. LimiterInv => LimitExact
  BY DEF LimiterInv, LimitExact, Remembers, Spaced
<1> QED BY <1>1, <1>2, <1>3, PTL DEF ApiSpec

-----------------------------------------------------------------------------
(* What the router works on. *)

\* A verdict that passes is within the default policy, and a text in which something is found is masked.
LEMMA VerdictMasks ==
  ASSUME NEW text \in TextShape
  PROVE /\ text.raw.pii # {} => Verdict(text).input = text.masked
        /\ Verdict(text).passed => ClassOf(text, 0) <= DefaultPolicy.maxClass
<1>1. text.raw.pii # {} => Verdict(text).input = text.masked
  <2>1. 0 \in 0 .. 4 /\ "auto" \in {"auto", "strict"}
    OBVIOUS
  <2>2. Careful(Verdict(text), text, 0, FALSE, FALSE, FALSE)
    BY <2>1, EvaluateMasks, Zenon DEF Verdict
  <2> QED BY <2>2, Zenon DEF Careful
<1>2. Verdict(text).passed => ClassOf(text, 0) <= DefaultPolicy.maxClass
  BY DEF Verdict, Evaluate
<1> QED BY <1>1, <1>2

Endpoints == {"route", "chat", "stream", "industry"}

Permitted(q, flows, keys) ==
  /\ q.text.raw.pii # {} =>
       q.input = q.text.masked \/ (q.endpoint = "industry" /\ ~(q.sanitize /\ flows[q.industry].sanitize))
  /\ q.endpoint # "industry" => ClassOf(q.text, 0) <= DefaultPolicy.maxClass
  /\ keys /\ q.key = "bound" => q.tenant = BoundTenant

CallsInv ==
  /\ request = [r \in Requests |-> request[r]]
  /\ \A r \in Requests : request[r] # Free =>
       /\ request[r].endpoint \in Endpoints /\ request[r].tenant \in Tenants
       /\ request[r].endpoint = "industry" => workflows # Unbuilt
       /\ Permitted(request[r], workflows, keysSet)

\* Once there is a workflow for an industry the registry stays as it was built.
LEMMA RegistryStays ==
  ASSUME NEW i \in Industries
  PROVE Registry # Unbuilt /\ (workflows # Unbuilt => Registry = workflows)
<1>1. DOMAIN <<>> = {}
  OBVIOUS
<1>2. DOMAIN Loaded(templates) = Industries
  BY Zenon DEF Loaded, Builtin
<1> QED BY <1>1, <1>2, Zenon DEF Registry, Unbuilt

LEMMA ArriveKeepsCalls ==
  ASSUME CallsInv, NEW r \in Requests, NEW c \in Clients, NEW key, NEW tenant \in Tenants,
         NEW endpoint \in {"route", "chat", "stream", "reload", "list", "industry"},
         NEW text \in Bodies, NEW i, NEW sanitize, endpoint = "industry" => i \in Industries,
         Arrive(r, c, key, tenant, endpoint, text, i, sanitize)
  PROVE CallsInv'
<1> DEFINE input == IF endpoint = "industry" THEN IndustryInput(i, text, sanitize) ELSE Verdict(text).input
           running == [phase |-> "running", endpoint |-> endpoint, key |-> key, client |-> c, tenant |-> tenant,
                       text |-> text, sanitize |-> sanitize, industry |-> i, input |-> input]
           admittedNow == Admits(Cleaned(times), c)
<1>1. text \in TextShape
  BY BodiesAssumption
<1>2. /\ request' = [request EXCEPT ![r] = IF admittedNow /\ Accepts(endpoint, tenant, text, i) THEN running ELSE Free]
      /\ workflows' = IF admittedNow /\ endpoint \in {"industry", "list"} /\ RegistryBuilds THEN Registry
                      ELSE workflows
      /\ keysSet' = keysSet /\ Authorised(c, key, tenant)
  BY DEF Arrive
<1> HIDE DEF running, admittedNow, input
<1>3. request' = [q \in Requests |-> request'[q]]
  BY <1>2 DEF CallsInv
<1>4. workflows' = workflows \/ workflows = Unbuilt
  BY <1>2 DEF Registry
<1>5. ASSUME NEW q \in Requests, q # r, request'[q] # Free
      PROVE /\ request'[q].endpoint \in Endpoints /\ request'[q].tenant \in Tenants
            /\ request'[q].endpoint = "industry" => workflows' # Unbuilt
            /\ Permitted(request'[q], workflows', keysSet')
  <2>1. request'[q] = request[q]
    BY <1>2, <1>5 DEF CallsInv
  <2>2. CASE request[q].endpoint = "industry"
    <3>1. workflows' = workflows
      BY <1>4, <1>5, <2>1, <2>2 DEF CallsInv
    <3> QED BY <1>2, <1>5, <2>1, <3>1 DEF CallsInv
  <2>3. CASE request[q].endpoint # "industry"
    BY <1>2, <1>5, <2>1, <2>3 DEF CallsInv, Permitted
  <2> QED BY <2>2, <2>3
<1>6. ASSUME request'[r] # Free
      PROVE /\ request'[r].endpoint \in Endpoints /\ request'[r].tenant \in Tenants
            /\ request'[r].endpoint = "industry" => workflows' # Unbuilt
            /\ Permitted(request'[r], workflows', keysSet')
  <2>1. request'[r] = running /\ admittedNow /\ Accepts(endpoint, tenant, text, i)
    BY <1>2, <1>6 DEF CallsInv
  <2>2. keysSet /\ key = "bound" => tenant = BoundTenant
    BY <1>2 DEF Authorised
  <2>3. /\ running.endpoint = endpoint /\ running.tenant = tenant /\ running.key = key /\ running.text = text
        /\ running.sanitize = sanitize /\ running.industry = i /\ running.input = input
    BY DEF running
  <2>4. CASE endpoint = "industry"
    <3>0. RegistryBuilds
      BY <2>1, <2>4 DEF Accepts, IndustryAccepts
    <3>1. workflows' = Registry /\ Registry # Unbuilt
      BY <1>2, <2>1, <2>4, <3>0, RegistryStays
    <3>2. input = IF sanitize /\ Registry[i].sanitize THEN Sanitized(text) ELSE text.raw
      BY <2>4 DEF input, IndustryInput
    <3>3. text.raw.pii # {} => input = text.masked \/ ~(sanitize /\ Registry[i].sanitize)
      BY <3>2 DEF Sanitized
    <3> QED BY <1>2, <2>1, <2>2, <2>3, <2>4, <3>1, <3>3 DEF Permitted, Endpoints
  <2>5. CASE endpoint # "industry"
    <3>1. endpoint \in {"route", "chat", "stream"} /\ Verdict(text).passed
      BY <2>1, <2>5 DEF Accepts, RouteAccepts, ChatAccepts, StreamAccepts, ReloadAccepts, ListAccepts
    <3>2. (text.raw.pii # {} => input = text.masked) /\ ClassOf(text, 0) <= DefaultPolicy.maxClass
      BY <1>1, <2>5, <3>1, VerdictMasks DEF input
    <3> QED BY <1>2, <2>1, <2>2, <2>3, <2>5, <3>1, <3>2 DEF Permitted, Endpoints
  <2> QED BY <2>4, <2>5
<1> QED BY <1>3, <1>5, <1>6, Zenon DEF CallsInv

LEMMA RouterEndsKeepsCalls ==
  ASSUME CallsInv, NEW r \in Requests, NEW outcome, RouterEnds(r, outcome)
  PROVE CallsInv'
<1>1. request' = [request EXCEPT ![r] = Free] /\ workflows' = workflows /\ keysSet' = keysSet
  BY DEF RouterEnds
<1>2. request' = [q \in Requests |-> request'[q]]
  BY <1>1 DEF CallsInv
<1>3. ASSUME NEW q \in Requests, request'[q] # Free PROVE request'[q] = request[q]
  BY <1>1, <1>3 DEF CallsInv
<1> QED BY <1>1, <1>2, <1>3 DEF CallsInv

LEMMA CallsInvInductive == CallsInv /\ [ApiNext]_apiVars => CallsInv'
<1> SUFFICES ASSUME CallsInv, [ApiNext]_apiVars PROVE CallsInv'
  OBVIOUS
<1>1. ASSUME UNCHANGED <<request, workflows, keysSet>> PROVE CallsInv'
  BY <1>1 DEF CallsInv
<1>2. CASE SecondPasses \/ UNCHANGED apiVars
  BY <1>1, <1>2 DEF SecondPasses, apiVars
<1>3. ASSUME NEW r \in Requests, NEW c \in Clients, NEW key \in {"none", "open", "bound"}, NEW tenant \in Tenants,
             NEW text \in Bodies, NEW endpoint \in {"route", "chat", "stream", "reload", "list"},
             Arrive(r, c, key, tenant, endpoint, text, CHOOSE i \in Industries : TRUE, TRUE)
      PROVE CallsInv'
  BY <1>3, ArriveKeepsCalls
<1>4. ASSUME NEW r \in Requests, NEW c \in Clients, NEW key \in {"none", "open", "bound"}, NEW tenant \in Tenants,
             NEW text \in Bodies, NEW i \in Industries, NEW sanitize \in BOOLEAN,
             Arrive(r, c, key, tenant, "industry", text, i, sanitize)
      PROVE CallsInv'
  BY <1>4, ArriveKeepsCalls
<1>5. ASSUME NEW r \in Requests, NEW outcome \in {"ok", "error", "raises"}, RouterEnds(r, outcome) PROVE CallsInv'
  BY <1>5, RouterEndsKeepsCalls
<1>6. CASE \E r \in Requests, c \in Clients, key \in {"none", "open", "bound"}, tenant \in Tenants, text \in Bodies :
             \/ \E endpoint \in {"route", "chat", "stream", "reload", "list"} :
                  Arrive(r, c, key, tenant, endpoint, text, CHOOSE i \in Industries : TRUE, TRUE)
             \/ \E i \in Industries, sanitize \in BOOLEAN : Arrive(r, c, key, tenant, "industry", text, i, sanitize)
  <2>1. PICK r \in Requests, c \in Clients, key \in {"none", "open", "bound"}, tenant \in Tenants, text \in Bodies :
          \/ \E endpoint \in {"route", "chat", "stream", "reload", "list"} :
               Arrive(r, c, key, tenant, endpoint, text, CHOOSE i \in Industries : TRUE, TRUE)
          \/ \E i \in Industries, sanitize \in BOOLEAN : Arrive(r, c, key, tenant, "industry", text, i, sanitize)
    BY <1>6, Zenon
  <2>2. CASE \E endpoint \in {"route", "chat", "stream", "reload", "list"} :
               Arrive(r, c, key, tenant, endpoint, text, CHOOSE i \in Industries : TRUE, TRUE)
    BY <1>3, <2>2, Zenon
  <2>3. CASE \E i \in Industries, sanitize \in BOOLEAN : Arrive(r, c, key, tenant, "industry", text, i, sanitize)
    BY <1>4, <2>3, Zenon
  <2> QED BY <2>1, <2>2, <2>3
<1> QED BY <1>2, <1>5, <1>6, Zenon DEF ApiNext

LEMMA CallsInit == ApiInit => CallsInv
BY DEF ApiInit, CallsInv

\* For every number of handlers, clients, tenants and texts: the router works on a text with personal data
\* only as one masking pass leaves it, unless the caller or the industry's workflow waived that, although
\* the workflows may be built while other requests are under way; from route, chat and stream only on one
\* within the policy; and a bound key serves its tenant alone (app.py:300, workflows.py:319).
THEOREM CallsAreAllowed == ApiSpec => []OnlyAllowedCalls
<1>1. ApiInit => CallsInv
  BY CallsInit
<1>2. CallsInv /\ [ApiNext]_apiVars => CallsInv'
  BY CallsInvInductive
<1>3. CallsInv => OnlyAllowedCalls
  BY DEF CallsInv, OnlyAllowedCalls, Permitted
<1> QED BY <1>1, <1>2, <1>3, PTL DEF ApiSpec

-----------------------------------------------------------------------------
(* The audit trail: every kept event is one its tenant is owed. *)

Event == [tenant : Tenants, type : {"route_decision", "model_call", "industry_error"}]

TrailInv ==
  /\ CallsInv
  /\ auditLog \in Seq(Event) /\ owed \in [Tenants -> Int] /\ streamed \in [Tenants -> Int]
  /\ TrailComplete

OfTenant(log, t) == {i \in DOMAIN log : log[i].tenant = t}

LEMMA ReportCounts ==
  ASSUME NEW t PROVE Report(t).total = Cardinality(OfTenant(auditLog, t))
BY DEF Report, Counted, OfTenant

LEMMA AfterIsAsLong ==
  ASSUME NEW m \in Nat, NEW k \in Nat
  PROVE IsFiniteSet(m + 1 .. m + k) /\ Cardinality(m + 1 .. m + k) = k
<1> DEFINE a == m + 1
           b == m + k
<1>1. a \in Int /\ b \in Int
  OBVIOUS
<1>2. (IF a > b THEN 0 ELSE b - a + 1) = k
  OBVIOUS
<1> HIDE DEF a, b
<1>3. IsFiniteSet(a .. b) /\ Cardinality(a .. b) = IF a > b THEN 0 ELSE b - a + 1
  BY <1>1, FS_Interval, Zenon
<1> QED BY <1>2, <1>3 DEF a, b

\* Events of one tenant at the end of the log count for that tenant alone.
LEMMA CountGrows ==
  ASSUME NEW log \in Seq(Event), NEW added \in Seq(Event), NEW u \in Tenants, NEW t \in Tenants,
         \A i \in DOMAIN added : added[i].tenant = u
  PROVE /\ t = u => Cardinality(OfTenant(log \o added, t)) = Cardinality(OfTenant(log, t)) + Len(added)
        /\ t # u => Cardinality(OfTenant(log \o added, t)) = Cardinality(OfTenant(log, t))
<1>1. /\ log \o added \in Seq(Event) /\ Len(log) \in Nat /\ Len(added) \in Nat
      /\ Len(log \o added) = Len(log) + Len(added)
      /\ \A i \in 1 .. Len(log) + Len(added) :
           (log \o added)[i] = IF i <= Len(log) THEN log[i] ELSE added[i - Len(log)]
  OBVIOUS
<1> DEFINE A == OfTenant(log, t)
           B == Len(log) + 1 .. Len(log) + Len(added)
<1>2. A \subseteq 1 .. Len(log) /\ IsFiniteSet(1 .. Len(log)) /\ IsFiniteSet(A)
  <2>1. A \subseteq 1 .. Len(log)
    BY DEF OfTenant
  <2>2. IsFiniteSet(1 .. Len(log))
    BY <1>1, UpTo
  <2> QED BY <2>1, <2>2, FS_Subset, Zenon
<1>3. IsFiniteSet(B) /\ Cardinality(B) = Len(added)
  BY <1>1, AfterIsAsLong
<1>4. A \cap B = {}
  BY <1>1, <1>2
<1>5. Cardinality(A) \in Nat
  BY <1>2, FS_CardinalityType
<1>6. CASE t = u
  <2>1. OfTenant(log \o added, t) = A \cup B
    <3>1. ASSUME NEW i \in 1 .. Len(log) + Len(added), i > Len(log)
          PROVE (log \o added)[i] = added[i - Len(log)] /\ i - Len(log) \in DOMAIN added
      BY <1>1, <3>1
    <3>2. ASSUME NEW i \in 1 .. Len(log) PROVE (log \o added)[i] = log[i]
      BY <1>1, <3>2
    <3>3. DOMAIN (log \o added) = 1 .. Len(log) + Len(added) /\ DOMAIN log = 1 .. Len(log)
      BY <1>1
    <3>4. ASSUME NEW i \in 1 .. Len(log) + Len(added) PROVE i \in OfTenant(log \o added, t) <=> i \in A \cup B
      <4>1. CASE i <= Len(log)
        BY <1>1, <3>2, <3>3, <4>1 DEF OfTenant
      <4>2. CASE i > Len(log)
        BY <1>1, <1>6, <3>1, <3>3, <4>2 DEF OfTenant
      <4> QED BY <1>1, <4>1, <4>2
    <3>5. OfTenant(log \o added, t) \subseteq 1 .. Len(log) + Len(added) /\ A \cup B \subseteq 1 .. Len(log) + Len(added)
      BY <1>1, <1>2, <3>3 DEF OfTenant
    <3> QED BY <3>4, <3>5
  <2>2. Cardinality(A \cup B) = Cardinality(A) + Cardinality(B) - Cardinality({})
    <3> HIDE DEF A, B
    <3>1. Cardinality(A \cup B) = Cardinality(A) + Cardinality(B) - Cardinality(A \cap B)
      BY <1>2, <1>3, FS_Union, Zenon
    <3> QED BY <1>4, <3>1
  <2> QED BY <1>1, <1>3, <1>5, <1>6, <2>1, <2>2, FS_EmptySet
<1>7. CASE t # u
  <2>1. OfTenant(log \o added, t) = A
    <3>1. ASSUME NEW i \in 1 .. Len(log) + Len(added), i > Len(log)
          PROVE (log \o added)[i] = added[i - Len(log)] /\ i - Len(log) \in DOMAIN added
      BY <1>1, <3>1
    <3>2. ASSUME NEW i \in 1 .. Len(log) PROVE (log \o added)[i] = log[i]
      BY <1>1, <3>2
    <3>3. DOMAIN (log \o added) = 1 .. Len(log) + Len(added) /\ DOMAIN log = 1 .. Len(log)
      BY <1>1
    <3>4. ASSUME NEW i \in 1 .. Len(log) + Len(added) PROVE i \in OfTenant(log \o added, t) <=> i \in A
      <4>1. CASE i <= Len(log)
        BY <1>1, <3>2, <3>3, <4>1 DEF OfTenant
      <4>2. CASE i > Len(log)
        <5>1. (log \o added)[i].tenant = u
          BY <3>1, <4>2
        <5> QED BY <1>1, <1>7, <3>3, <4>2, <5>1 DEF OfTenant
      <4> QED BY <1>1, <4>1, <4>2
    <3>5. OfTenant(log \o added, t) \subseteq 1 .. Len(log) + Len(added) /\ A \subseteq 1 .. Len(log) + Len(added)
      BY <1>1, <1>2, <3>3 DEF OfTenant
    <3> QED BY <3>4, <3>5
  <2> QED BY <1>5, <1>7, <2>1
<1> QED BY <1>6, <1>7

LEMMA EventOf ==
  ASSUME NEW t \in Tenants
  PROVE \A s \in {"route_decision", "model_call", "industry_error"} :
          [tenant |-> t, type |-> s] \in Event /\ [tenant |-> t, type |-> s].tenant = t
BY DEF Event

\* What a request writes is what it owes, but for a stream: as many events, all of its tenant.
LEMMA EventsAreDue ==
  ASSUME CallsInv, NEW r \in Requests, request[r] # Free, NEW outcome \in {"ok", "error", "raises"}
  PROVE /\ Events(r, outcome) \in Seq(Event)
        /\ Due(request[r], outcome) \in Int /\ Streams(request[r], outcome) \in Int
        /\ Len(Events(r, outcome)) = Due(request[r], outcome) - Streams(request[r], outcome)
        /\ Len(Events(r, outcome)) \in 0 .. 2
        /\ \A i \in DOMAIN Events(r, outcome) : Events(r, outcome)[i].tenant = request[r].tenant
<1> DEFINE t == request[r].tenant
           decision == [tenant |-> t, type |-> "route_decision"]
           call == [tenant |-> t, type |-> "model_call"]
           error == [tenant |-> t, type |-> "industry_error"]
           Sound(ev, n, s) == /\ ev \in Seq(Event) /\ Len(ev) = n - s /\ n - s \in 0 .. 2 /\ n \in Int /\ s \in Int
                              /\ \A i \in DOMAIN ev : ev[i].tenant = t
<1>1. t \in Tenants /\ request[r].endpoint \in Endpoints
  BY DEF CallsInv
<1>2. /\ decision \in Event /\ decision.tenant = t
      /\ call \in Event /\ call.tenant = t
      /\ error \in Event /\ error.tenant = t
  BY <1>1, EventOf, Zenon DEF decision, call, error
<1> HIDE DEF decision, call, error, t
<1>3. /\ Sound(<<>>, 0, 0) /\ Sound(<<>>, 1, 1) /\ Sound(<<decision>>, 1, 0) /\ Sound(<<call>>, 1, 0)
      /\ Sound(Append(<<decision>>, error), 2, 0)
  BY <1>2
<1> DEFINE Are(ev, n, s) == Events(r, outcome) = ev /\ Due(request[r], outcome) = n /\ Streams(request[r], outcome) = s
<1>4. \/ Are(<<>>, 0, 0) \/ Are(<<>>, 1, 1) \/ Are(<<decision>>, 1, 0) \/ Are(<<call>>, 1, 0)
      \/ Are(Append(<<decision>>, error), 2, 0)
  <2>1. CASE outcome = "raises"
    <3>1. Events(r, outcome) = <<>>
      BY <2>1, Zenon DEF Events
    <3>2. Due(request[r], outcome) = 0
      BY <2>1, Zenon DEF Due
    <3>3. Streams(request[r], outcome) = 0
      BY <3>2 DEF Streams
    <3> QED BY <3>1, <3>2, <3>3
  <2>2. CASE outcome # "raises" /\ request[r].endpoint = "route"
    BY <2>2 DEF Events, Due, Streams, RouteEvents, decision, t
  <2>3. CASE outcome # "raises" /\ request[r].endpoint = "chat"
    BY <2>3 DEF Events, Due, Streams, ChatEvents, call, t
  <2>4. CASE outcome # "raises" /\ request[r].endpoint = "stream"
    BY <2>4 DEF Events, Due, Streams, StreamEvents
  <2>5. CASE outcome # "raises" /\ request[r].endpoint = "industry"
    <3>1. Events(r, outcome) = IndustryEvents(request[r], outcome)
      BY <2>5 DEF Events
    <3>2. RouteEvents(request[r]) = <<decision>>
      BY DEF RouteEvents, decision, t
    <3>3. IndustryEvents(request[r], outcome) =
            IF ~workflows[request[r].industry].audit THEN <<>>
            ELSE IF outcome = "error" THEN Append(<<decision>>, error) ELSE <<decision>>
      BY <3>2 DEF IndustryEvents, error, t
    <3> QED BY <2>5, <3>1, <3>3 DEF Due, Streams
  <2> QED BY <1>1, <2>1, <2>2, <2>3, <2>4, <2>5 DEF Endpoints
<1> HIDE DEF Sound
<1>5. Sound(Events(r, outcome), Due(request[r], outcome), Streams(request[r], outcome))
  BY <1>3, <1>4, Zenon
<1> QED BY <1>5 DEF Sound, t

\* The n-th of the events that are kept is one of them.
LEMMA KeptInOrder ==
  ASSUME NEW m \in 0 .. 2, NEW kept \in SUBSET (1 .. m)
  PROVE /\ IsFiniteSet(kept) /\ Cardinality(kept) \in Nat
        /\ Cardinality((1 .. m) \ kept) = m - Cardinality(kept)
        /\ \A n \in 1 .. Cardinality(kept) :
             (CHOOSE i \in kept : Cardinality({j \in kept : j <= i}) = n) \in 1 .. m
<1>1. IsFiniteSet(1 .. m) /\ Cardinality(1 .. m) = m
  BY UpTo
<1>2. IsFiniteSet(kept) /\ Cardinality(kept) \in Nat
  BY <1>1, FS_Subset, FS_CardinalityType
<1>3. Cardinality((1 .. m) \ kept) = Cardinality(1 .. m) - Cardinality((1 .. m) \cap kept)
  BY <1>1, FS_Difference
<1>4. (1 .. m) \cap kept = kept
  OBVIOUS
<1>5. ASSUME NEW n \in 1 .. Cardinality(kept)
      PROVE \E i \in kept : Cardinality({j \in kept : j <= i}) = n
  <2>1. kept \in {{}, {1}, {2}, {1, 2}}
    <3>1. \A x \in kept : x = 1 \/ x = 2
      OBVIOUS
    <3> QED BY <3>1, Zenon
  <2>2. CASE kept = {}
    BY <2>2, FS_EmptySet
  <2>3. ASSUME NEW x \in {1, 2}, kept = {x}
        PROVE \E i \in kept : Cardinality({j \in kept : j <= i}) = n
    <3>1. Cardinality({x}) = 1
      BY FS_Singleton
    <3>2. {j \in {x} : j <= x} = {x}
      BY <2>3
    <3>3. n = 1
      BY <2>3, <3>1
    <3> QED BY <2>3, <3>1, <3>2, <3>3
  <2>4. CASE kept = {1, 2}
    <3>1. Cardinality({1}) = 1
      BY FS_Singleton
    <3>2. Cardinality({1} \cup {2}) = IF 2 \in {1} THEN Cardinality({1}) ELSE Cardinality({1}) + 1
      BY FS_Singleton, FS_AddElement, Zenon
    <3>3. Cardinality({1, 2}) = 2
      <4>1. {1, 2} = {1} \cup {2} /\ 2 \notin {1}
        OBVIOUS
      <4> QED BY <3>1, <3>2, <4>1
    <3>4. {j \in {1, 2} : j <= 1} = {1} /\ {j \in {1, 2} : j <= 2} = {1, 2}
      OBVIOUS
    <3>5. n = 1 \/ n = 2
      BY <2>4, <3>3
    <3> QED BY <2>4, <3>1, <3>3, <3>4, <3>5
  <2> QED BY <2>1, <2>2, <2>3, <2>4
<1>6. ASSUME NEW n \in 1 .. Cardinality(kept)
      PROVE (CHOOSE i \in kept : Cardinality({j \in kept : j <= i}) = n) \in kept
  BY <1>5, <1>6, Zenon
<1> QED BY <1>1, <1>2, <1>3, <1>4, <1>6

LEMMA TrailGrows ==
  ASSUME TrailInv, NEW u \in Tenants, NEW added \in Seq(Event), \A i \in DOMAIN added : added[i].tenant = u,
         NEW d \in Int, NEW s \in Int, Len(added) = d - s,
         auditLog' = auditLog \o added, owed' = [owed EXCEPT ![u] = @ + d], streamed' = [streamed EXCEPT ![u] = @ + s]
  PROVE /\ auditLog' \in Seq(Event) /\ owed' \in [Tenants -> Int] /\ streamed' \in [Tenants -> Int]
        /\ TrailComplete'
<1>1. auditLog \in Seq(Event) /\ owed \in [Tenants -> Int] /\ streamed \in [Tenants -> Int] /\ Len(added) \in Nat
  BY DEF TrailInv
<1>2. auditLog' \in Seq(Event) /\ owed' \in [Tenants -> Int] /\ streamed' \in [Tenants -> Int]
  BY <1>1
<1>3. ASSUME NEW t \in Tenants PROVE Cardinality(OfTenant(auditLog \o added, t)) + streamed'[t] = owed'[t]
  <2>1. /\ t = u => Cardinality(OfTenant(auditLog \o added, t)) = Cardinality(OfTenant(auditLog, t)) + Len(added)
        /\ t # u => Cardinality(OfTenant(auditLog \o added, t)) = Cardinality(OfTenant(auditLog, t))
    <3>1. auditLog \in Seq(Event)
      BY <1>1
    <3>2. t = u => Cardinality(OfTenant(auditLog \o added, t)) = Cardinality(OfTenant(auditLog, t)) + Len(added)
      BY <3>1, CountGrows
    <3>3. t # u => Cardinality(OfTenant(auditLog \o added, t)) = Cardinality(OfTenant(auditLog, t))
      BY <3>1, CountGrows
    <3> QED BY <3>2, <3>3
  <2>2. Cardinality(OfTenant(auditLog, t)) + streamed[t] = owed[t]
    BY ReportCounts DEF TrailInv, TrailComplete
  <2>3. Cardinality(OfTenant(auditLog, t)) \in Nat
    <3>1. IsFiniteSet(1 .. Len(auditLog)) /\ OfTenant(auditLog, t) \subseteq 1 .. Len(auditLog)
      BY <1>1, UpTo DEF OfTenant
    <3> QED BY <3>1, FS_Subset, FS_CardinalityType
  <2> QED BY <1>1, <2>1, <2>2, <2>3, SMTT(30)
<1>4. TrailComplete'
  BY <1>3, ReportCounts DEF TrailComplete, Report, Counted, OfTenant
<1> QED BY <1>2, <1>4

LEMMA RouterEndsKeepsTrail ==
  ASSUME TrailInv, NEW r \in Requests, NEW outcome \in {"ok", "error", "raises"}, RouterEnds(r, outcome)
  PROVE TrailInv'
<1> DEFINE q == request[r]
           ev == Events(r, outcome)
           u == request[r].tenant
<1>1. PICK kept \in SUBSET DOMAIN ev :
        /\ auditLog' = auditLog \o [n \in 1 .. Cardinality(kept) |-> ev[CHOOSE i \in kept :
                                      Cardinality({j \in kept : j <= i}) = n]]
        /\ owed' = [owed EXCEPT ![u] = @ + Due(q, outcome) - Cardinality(DOMAIN ev \ kept)]
        /\ streamed' = [streamed EXCEPT ![u] = @ + Streams(q, outcome)]
  BY DEF RouterEnds
<1>2. CallsInv /\ auditLog \in Seq(Event) /\ owed \in [Tenants -> Int] /\ request[r] # Free /\ u \in Tenants
  BY DEF TrailInv, RouterEnds, CallsInv
<1>3. /\ ev \in Seq(Event) /\ Len(ev) = Due(q, outcome) - Streams(q, outcome) /\ Len(ev) \in 0 .. 2
      /\ Due(q, outcome) \in Int /\ Streams(q, outcome) \in Int
      /\ \A i \in DOMAIN ev : ev[i].tenant = u
  BY <1>2, EventsAreDue
<1> DEFINE pos(n) == CHOOSE i \in kept : Cardinality({j \in kept : j <= i}) = n
           added == [n \in 1 .. Cardinality(kept) |-> ev[pos(n)]]
           m == Len(ev)
<1>4. m \in 0 .. 2 /\ DOMAIN ev = 1 .. m /\ kept \in SUBSET (1 .. m)
  BY <1>1, <1>3
<1>5. /\ Cardinality(kept) \in Nat /\ Cardinality((1 .. m) \ kept) = m - Cardinality(kept)
      /\ \A n \in 1 .. Cardinality(kept) : pos(n) \in 1 .. m
  BY <1>4, KeptInOrder
<1> HIDE DEF ev, pos, m, q
<1>6. /\ added \in Seq(Event) /\ Len(added) = Cardinality(kept) /\ DOMAIN added = 1 .. Cardinality(kept)
      /\ \A n \in DOMAIN added : added[n].tenant = u
  <2>1. \A n \in 1 .. Cardinality(kept) : ev[pos(n)] \in Event /\ ev[pos(n)].tenant = u
    BY <1>3, <1>4, <1>5
  <2> QED BY <1>5, <2>1
<1> DEFINE s == Streams(q, outcome)
           d == s + Cardinality(kept)
<1>7. /\ auditLog' = auditLog \o added /\ owed' = [owed EXCEPT ![u] = @ + Due(q, outcome) - (m - Cardinality(kept))]
      /\ streamed' = [streamed EXCEPT ![u] = @ + s] /\ m = Due(q, outcome) - s /\ s \in Int /\ Due(q, outcome) \in Int
  BY <1>1, <1>3, <1>4, <1>5 DEF pos, m
<1> HIDE DEF added, u, s
<1>8. /\ auditLog' \in Seq(Event) /\ owed' \in [Tenants -> Int] /\ streamed' \in [Tenants -> Int]
      /\ TrailComplete'
  <2>1. owed' = [owed EXCEPT ![u] = @ + d] /\ d \in Int /\ Len(added) = d - s
    <3>1. /\ owed[u] \in Int /\ owed[u] + Due(q, outcome) - (m - Cardinality(kept)) = owed[u] + d
          /\ d \in Int /\ Len(added) = d - s
      BY <1>2, <1>4, <1>5, <1>6, <1>7, SMTT(30)
    <3> QED BY <1>7, <3>1, Zenon
  <2> HIDE DEF d
  <2> QED BY <1>2, <1>6, <1>7, <2>1, TrailGrows
<1>9. CallsInv'
  BY <1>2, RouterEndsKeepsCalls
<1> QED BY <1>8, <1>9 DEF TrailInv

LEMMA TrailInvInductive == TrailInv /\ [ApiNext]_apiVars => TrailInv'
<1> SUFFICES ASSUME TrailInv, [ApiNext]_apiVars PROVE TrailInv'
  OBVIOUS
<1>1. CallsInv'
  BY CallsInvInductive DEF TrailInv
<1>2. ASSUME auditLog' = auditLog, owed' = owed, streamed' = streamed PROVE TrailInv'
  BY <1>1, <1>2, ReportCounts DEF TrailInv, TrailComplete, Report, Counted
<1>3. ASSUME NEW r, NEW c, NEW key, NEW tenant, NEW endpoint, NEW text, NEW i, NEW sanitize,
             Arrive(r, c, key, tenant, endpoint, text, i, sanitize)
      PROVE TrailInv'
  BY <1>2, <1>3 DEF Arrive
<1>4. CASE SecondPasses \/ UNCHANGED apiVars
  BY <1>2, <1>4 DEF SecondPasses, apiVars
<1>5. ASSUME NEW r \in Requests, NEW outcome \in {"ok", "error", "raises"}, RouterEnds(r, outcome) PROVE TrailInv'
  BY <1>5, RouterEndsKeepsTrail
<1> QED BY <1>3, <1>4, <1>5 DEF ApiNext

\* For every number of handlers, tenants and industries: a tenant's report counts as many events as its
\* answered requests owe but for its streams, less those that the file did not take; another tenant's
\* never count (app.py:323, 513, workflows.py:332).
THEOREM TrailIsComplete == ApiSpec => []TrailComplete
<1>1. ApiInit => TrailInv
  <2> SUFFICES ASSUME ApiInit PROVE TrailInv
    OBVIOUS
  <2>1. auditLog = <<>> /\ owed = [t \in Tenants |-> 0] /\ streamed = [t \in Tenants |-> 0]
    BY DEF ApiInit
  <2>2. ASSUME NEW t \in Tenants PROVE Report(t).total + streamed[t] = owed[t]
    <3>1. OfTenant(auditLog, t) = {}
      BY <2>1 DEF OfTenant
    <3> QED BY <2>1, <3>1, ReportCounts, FS_EmptySet
  <2> QED BY <2>1, <2>2, CallsInit DEF TrailInv, TrailComplete
<1>2. TrailInv /\ [ApiNext]_apiVars => TrailInv'
  BY TrailInvInductive
<1>3. TrailInv => TrailComplete
  BY DEF TrailInv
<1> QED BY <1>1, <1>2, <1>3, PTL DEF ApiSpec

-----------------------------------------------------------------------------
(* Feedback: every record has one place, and no cached prediction is stale. *)

Places == {"trained", "persisted", "lost"}

FeedbackRecord == [queue : SUBSET Nat, flushes : Nat, loop : BOOLEAN, since : Nat]

FeedbackType == feedback \in FeedbackRecord /\ fate \in Seq(SUBSET Places)

QueueInv ==
  /\ FeedbackType
  /\ feedback.queue \subseteq DOMAIN fate
  /\ \A i \in DOMAIN fate : IF i \in feedback.queue THEN fate[i] = {} ELSE \E p \in Places : fate[i] = {p}
  /\ feedback.since < TrainEvery

Becomes(g, q, k) == g \in FeedbackRecord /\ g.queue = q /\ g.since = k

LEMMA FeedbackUpdates ==
  ASSUME NEW f \in FeedbackRecord, NEW q \in SUBSET Nat, NEW n \in Nat, NEW k \in Nat, NEW b \in BOOLEAN
  PROVE /\ Becomes([f EXCEPT !.queue = q, !.flushes = n, !.since = k], q, k)
        /\ Becomes([f EXCEPT !.queue = q, !.since = k], q, k)
        /\ Becomes([f EXCEPT !.queue = q, !.flushes = n], q, f.since)
        /\ Becomes([f EXCEPT !.queue = q], q, f.since)
        /\ Becomes([f EXCEPT !.since = k], f.queue, k)
        /\ Becomes([f EXCEPT !.queue = q, !.loop = b], q, f.since)
        /\ Becomes([f EXCEPT !.loop = b], f.queue, f.since)
BY DEF FeedbackRecord, Becomes

\* Taking the whole queue to one place leaves every record with one.
LEMMA GoneFor ==
  ASSUME QueueInv, NEW place \in Places, fate' = Gone(feedback.queue, place),
         feedback'.queue = {}, feedback'.since \in Nat, feedback'.since < TrainEvery,
         feedback' \in FeedbackRecord
  PROVE QueueInv'
<1>1. fate \in Seq(SUBSET Places) /\ feedback.queue \subseteq DOMAIN fate
  BY DEF QueueInv, FeedbackType
<1>2. fate' = [i \in 1 .. Len(fate) |-> IF i \in feedback.queue THEN fate[i] \cup {place} ELSE fate[i]]
  BY <1>1 DEF Gone
<1>3. \A i \in 1 .. Len(fate) : fate[i] \cup {place} \in SUBSET Places /\ fate[i] \in SUBSET Places
  BY <1>1
<1>4. fate' \in Seq(SUBSET Places) /\ DOMAIN fate' = DOMAIN fate
  BY <1>1, <1>2, <1>3
<1>5. ASSUME NEW i \in DOMAIN fate PROVE \E p \in Places : fate'[i] = {p}
  <2>1. CASE i \in feedback.queue
    <3>1. fate[i] = {} /\ fate'[i] = fate[i] \cup {place}
      BY <1>1, <1>2, <2>1 DEF QueueInv
    <3> QED BY <3>1
  <2>2. CASE i \notin feedback.queue
    BY <1>1, <1>2, <2>2 DEF QueueInv
  <2> QED BY <2>1, <2>2
<1> QED BY <1>4, <1>5 DEF QueueInv, FeedbackType

LEMMA RecordKeepsQueue ==
  ASSUME QueueInv, NEW inLoop \in BOOLEAN, Record(inLoop)
  PROVE QueueInv'
<1> DEFINE id == Len(fate) + 1
           queue == feedback.queue \cup {id}
           batch == IF inLoop /\ Cardinality(queue) >= BatchSize THEN 1 ELSE 0
<1>1. /\ fate \in Seq(SUBSET Places) /\ feedback.queue \subseteq 1 .. Len(fate) /\ feedback.since \in Nat
      /\ feedback.flushes \in Nat /\ feedback.loop \in BOOLEAN
  <2>1. feedback \in FeedbackRecord /\ fate \in Seq(SUBSET Places) /\ feedback.queue \subseteq DOMAIN fate
    BY DEF QueueInv, FeedbackType
  <2> QED BY <2>1 DEF FeedbackRecord
<1>2. id \in Nat /\ id \notin feedback.queue /\ queue \in SUBSET Nat /\ feedback.flushes + batch \in Nat
  BY <1>1
<1>4. \A i \in 1 .. Len(fate) : IF i \in feedback.queue THEN fate[i] = {} ELSE \E p \in Places : fate[i] = {p}
  BY <1>1 DEF QueueInv
<1>5. CASE feedback.since + 1 >= TrainEvery
  <2>1. /\ fate' = [i \in 1 .. id |-> IF i = id THEN {"trained"} ELSE Gone(queue, "trained")[i]]
        /\ feedback' = [feedback EXCEPT !.queue = {}, !.flushes = @ + batch, !.since = 0]
    BY <1>5 DEF Record, Drained
  <2>2. Becomes(feedback', {}, 0)
    <3>1. feedback' = [feedback EXCEPT !.queue = {}, !.flushes = feedback.flushes + batch, !.since = 0]
      BY <2>1
    <3>2. feedback \in FeedbackRecord /\ {} \in SUBSET Nat /\ 0 \in Nat
      BY DEF QueueInv, FeedbackType
    <3> HIDE DEF batch
    <3> QED BY <3>1, <3>2, <1>2, FeedbackUpdates
  <2>3. ASSUME NEW i \in 1 .. id PROVE \E p \in Places : fate'[i] = {p}
    <3>1. CASE i = id
      BY <2>1, <3>1 DEF Places
    <3>2. CASE i # id
      <4>1. i \in 1 .. Len(fate) /\ DOMAIN fate = 1 .. Len(fate)
        BY <1>1, <3>2
      <4>2. fate'[i] = IF i \in queue THEN fate[i] \cup {"trained"} ELSE fate[i]
        BY <2>1, <3>2, <4>1 DEF Gone
      <4>3. i \in queue <=> i \in feedback.queue
        BY <3>2
      <4> QED BY <1>4, <4>1, <4>2, <4>3 DEF Places
    <3> QED BY <3>1, <3>2
  <2>4. fate' \in Seq(SUBSET Places) /\ DOMAIN fate' = 1 .. id
    <3>1. \A i \in 1 .. id : fate'[i] \in SUBSET Places
      BY <2>3
    <3>2. DOMAIN fate' = 1 .. id /\ fate' = [i \in 1 .. id |-> fate'[i]]
      BY <2>1
    <3> QED BY <1>2, <3>1, <3>2
  <2>5. feedback'.queue = {} /\ feedback'.since = 0
        /\ feedback' \in FeedbackRecord
    BY <2>2 DEF Becomes
  <2>6. 0 < TrainEvery
    BY MomAssumption
  <2> QED BY <2>3, <2>4, <2>5, <2>6 DEF QueueInv, FeedbackType
<1>6. CASE ~(feedback.since + 1 >= TrainEvery)
  <2>1. /\ fate' = Append(fate, {})
        /\ feedback' = [feedback EXCEPT !.queue = queue, !.flushes = @ + batch, !.since = @ + 1]
    BY <1>6, SMTT(30) DEF Record
  <2>2. Becomes(feedback', queue, feedback.since + 1)
    <3>1. feedback' = [feedback EXCEPT !.queue = queue, !.flushes = feedback.flushes + batch, !.since = feedback.since + 1]
      BY <2>1
    <3>2. feedback.since + 1 \in Nat
      BY <1>1
    <3>3. feedback \in FeedbackRecord
      BY DEF QueueInv, FeedbackType
    <3> HIDE DEF batch, queue
    <3> QED BY <3>1, <3>2, <3>3, <1>2, FeedbackUpdates
  <2>3. fate' \in Seq(SUBSET Places) /\ DOMAIN fate' = 1 .. id /\ fate'[id] = {}
        /\ \A i \in 1 .. Len(fate) : fate'[i] = fate[i]
    BY <1>1, <2>1
  <2>4. ASSUME NEW i \in 1 .. id PROVE IF i \in queue THEN fate'[i] = {} ELSE \E p \in Places : fate'[i] = {p}
    <3>1. CASE i = id
      BY <2>3, <3>1
    <3>2. CASE i # id
      <4>1. i \in 1 .. Len(fate) /\ (i \in queue <=> i \in feedback.queue)
        BY <1>1, <3>2
      <4> QED BY <1>4, <2>3, <4>1
    <3> QED BY <3>1, <3>2
  <2>5. queue \subseteq 1 .. id
    BY <1>1
  <2>6. feedback.since + 1 < TrainEvery
    BY <1>1, <1>6, MomAssumption
  <2>7. feedback'.queue = queue /\ feedback'.since = feedback.since + 1
        /\ feedback' \in FeedbackRecord
    BY <2>2 DEF Becomes
  <2> HIDE DEF queue
  <2> QED BY <2>3, <2>4, <2>5, <2>6, <2>7 DEF QueueInv, FeedbackType
<1> QED BY <1>5, <1>6

LEMMA TrainKeepsQueue ==
  ASSUME QueueInv, Train PROVE QueueInv'
<1>1. feedback' = [feedback EXCEPT !.queue = {}, !.since = 0] /\ fate' = Gone(feedback.queue, "trained")
  BY DEF Train, Drained
<1>2. feedback \in FeedbackRecord /\ {} \in SUBSET Nat /\ 0 \in Nat
  BY SMTT(30) DEF QueueInv, FeedbackType
<1>3. Becomes(feedback', {}, 0)
  BY <1>1, <1>2, FeedbackUpdates
<1>4. 0 < TrainEvery /\ "trained" \in Places
  BY MomAssumption DEF Places
<1> QED BY <1>1, <1>3, <1>4, GoneFor DEF Becomes

\* A flush, by a task, by the loop or by stop.
LEMMA FlushKeepsQueue ==
  ASSUME QueueInv, Flushed, Becomes(feedback', {}, feedback.since) PROVE QueueInv'
<1>1. PICK place \in {"persisted", "lost"} : fate' = Gone(feedback.queue, place)
  BY DEF Flushed
<1>2. place \in Places /\ feedback.since < TrainEvery /\ feedback.since \in Nat
  BY DEF Places, QueueInv, FeedbackType, FeedbackRecord
<1> QED BY <1>1, <1>2, GoneFor DEF Becomes

LEMMA QueueInvInductive == QueueInv /\ [MomNext]_momVars => QueueInv'
<1> SUFFICES ASSUME QueueInv, [MomNext]_momVars PROVE QueueInv'
  OBVIOUS
<1>1. feedback \in FeedbackRecord /\ {} \in SUBSET Nat /\ 0 \in Nat /\ feedback.queue \in SUBSET Nat
      /\ feedback.since \in Nat /\ feedback.flushes \in Nat
  BY DEF QueueInv, FeedbackType, FeedbackRecord
<1>2. ASSUME feedback' = feedback, fate' = fate PROVE QueueInv'
  BY <1>2 DEF QueueInv, FeedbackType
<1>3. ASSUME NEW inLoop \in BOOLEAN, Record(inLoop) PROVE QueueInv'
  BY <1>3, RecordKeepsQueue
<1>4. CASE FlushTask
  <2>1. feedback.flushes > 0 /\ Flushed /\ feedback' = [feedback EXCEPT !.queue = {}, !.flushes = feedback.flushes - 1]
    BY <1>4 DEF FlushTask
  <2>2. feedback.flushes - 1 \in Nat
    BY <1>1, <2>1, SMTT(30)
  <2>3. Becomes(feedback', {}, feedback.since)
    BY <1>1, <2>1, <2>2, FeedbackUpdates
  <2> QED BY <2>1, <2>3, FlushKeepsQueue
<1>5. CASE LoopWakes
  <2>1. Flushed /\ feedback' = [feedback EXCEPT !.queue = {}]
    BY <1>5 DEF LoopWakes
  <2>2. feedback \in FeedbackRecord /\ {} \in SUBSET Nat
    BY <1>1
  <2>3. Becomes(feedback', {}, feedback.since)
    BY <2>1, <2>2 DEF FeedbackRecord, Becomes
  <2> QED BY <2>1, <2>3, FlushKeepsQueue, SMTT(30)
<1>6. CASE StopLoop
  <2>1. Flushed /\ Becomes(feedback', {}, feedback.since)
    BY <1>1, <1>6, FeedbackUpdates DEF StopLoop
  <2> QED BY <2>1, FlushKeepsQueue, SMTT(30)
<1>7. CASE StartLoop
  <2>1. Becomes(feedback', feedback.queue, feedback.since) /\ fate' = fate
    BY <1>1, <1>7, FeedbackUpdates DEF StartLoop
  <2> QED BY <2>1, SMTT(30) DEF Becomes, QueueInv, FeedbackType
<1>8. CASE Train
  BY <1>8, TrainKeepsQueue
<1>9. ASSUME NEW own, TrainOn(own) PROVE QueueInv'
  <2>1. feedback' = [feedback EXCEPT !.since = 0] /\ fate' = fate
    BY <1>9, SMTT(30) DEF TrainOn
  <2>2. Becomes(feedback', feedback.queue, 0)
    BY <1>1, <2>1, FeedbackUpdates
  <2>3. 0 < TrainEvery
    BY MomAssumption
  <2> QED BY <2>1, <2>2, <2>3, SMTT(30) DEF Becomes, QueueInv, FeedbackType
<1>10. CASE (\E text \in Texts, budget \in {"ample", "half", "spent"} : Route(text, budget))
           \/ Reset \/ (\E m \in Models : Rate(m)) \/ UNCHANGED momVars
  BY <1>2, <1>10 DEF Route, Reset, Rate, momVars
<1> QED BY <1>3, <1>4, <1>5, <1>6, <1>7, <1>8, <1>9, <1>10 DEF MomNext

LEMMA QueueConserves == QueueInv => RecordsConserved
<1> SUFFICES ASSUME QueueInv, NEW i \in DOMAIN fate
             PROVE Cardinality(fate[i]) = (IF i \in feedback.queue THEN 0 ELSE 1)
  BY SMTT(30) DEF QueueInv, RecordsConserved
<1>1. CASE i \in feedback.queue
  BY <1>1, FS_EmptySet DEF QueueInv
<1>2. CASE i \notin feedback.queue
  BY <1>2, FS_Singleton DEF QueueInv
<1> QED BY <1>1, <1>2

-----------------------------------------------------------------------------
(* The cache of predictions *)

Prediction == [key : {KeyOf(t) : t \in Texts}, version : Nat, difficulty : {Difficulty(t) : t \in Texts}]

\* A sequence of predictions of one version, one for a key.
OneVersion(c, v) ==
  /\ c \in Seq(Prediction)
  /\ \A i \in DOMAIN c : c[i].version = v
  /\ \A i, j \in DOMAIN c : c[i].key = c[j].key => i = j

PredictionInv ==
  /\ weights \in Nat /\ ppm \in [made : BOOLEAN, shares : BOOLEAN, version : Nat]
  /\ OneVersion(cache, ppm.version)
  /\ ~ppm.made => cache = <<>>

LEMMA EmptyOneVersion == \A v : OneVersion(<<>>, v)
BY DEF OneVersion

\* A hit is moved to the end: what was there is there once.
LEMMA HitKeeps ==
  ASSUME NEW c \in Seq(Prediction), NEW v, OneVersion(c, v), NEW i \in DOMAIN c
  PROVE OneVersion(Append(RemoveAt(c, i), c[i]), v)
<1>1. PICK n \in Nat : n = Len(c) /\ i \in 1 .. n /\ DOMAIN c = 1 .. n /\ \A j \in 1 .. n : c[j] \in Prediction
  OBVIOUS
<1> DEFINE a == SubSeq(c, 1, i - 1)
           b == SubSeq(c, i + 1, n)
<1>2. a \in Seq(Prediction) /\ Len(a) = i - 1 /\ \A j \in 1 .. i - 1 : a[j] = c[j]
  <2>1. 1 \in Int /\ i - 1 \in Int /\ \A j \in 1 .. i - 1 : c[j] \in Prediction
    BY <1>1
  <2>2. /\ a \in Seq(Prediction) /\ Len(a) = IF 1 <= i - 1 THEN i - 1 - 1 + 1 ELSE 0
        /\ \A j \in 1 .. i - 1 - 1 + 1 : a[j] = c[1 + j - 1]
    BY <2>1, SubSeqProperties
  <2> QED BY <1>1, <2>2
<1>3. b \in Seq(Prediction) /\ Len(b) = n - i /\ \A j \in 1 .. n - i : b[j] = c[i + j]
  <2>1. i + 1 \in Int /\ n \in Int /\ \A j \in i + 1 .. n : c[j] \in Prediction
    BY <1>1
  <2>2. /\ b \in Seq(Prediction) /\ Len(b) = IF i + 1 <= n THEN n - (i + 1) + 1 ELSE 0
        /\ \A j \in 1 .. n - (i + 1) + 1 : b[j] = c[(i + 1) + j - 1]
    BY <2>1, SubSeqProperties
  <2> QED BY <1>1, <2>2
<1>4. RemoveAt(c, i) = a \o b
  BY <1>1 DEF RemoveAt
<1> DEFINE r == a \o b
           s == Append(r, c[i])
<1> HIDE DEF a, b
<1>5. r \in Seq(Prediction) /\ Len(r) = n - 1
      /\ \A j \in 1 .. n - 1 : r[j] = IF j < i THEN c[j] ELSE c[j + 1]
  <2>1. n \in Nat /\ i \in 1 .. n
    BY <1>1
  <2>2. /\ r \in Seq(Prediction) /\ Len(r) = Len(a) + Len(b)
        /\ \A j \in 1 .. Len(a) + Len(b) : r[j] = IF j <= Len(a) THEN a[j] ELSE b[j - Len(a)]
    BY <1>2, <1>3, ConcatProperties
  <2>3. Len(a) + Len(b) = n - 1
    BY <2>1, <1>2, <1>3
  <2>4. r \in Seq(Prediction) /\ Len(r) = n - 1
    BY <2>2, <2>3
  <2> HIDE DEF r
  <2>5. ASSUME NEW j \in 1 .. n - 1 PROVE r[j] = IF j < i THEN c[j] ELSE c[j + 1]
    <3>1. CASE j < i
      <4>1. r[j] = a[j] /\ j \in 1 .. i - 1
        BY <2>1, <2>2, <2>3, <1>2, <3>1
      <4> QED BY <1>2, <3>1, <4>1
    <3>2. CASE j >= i
      <4>1. r[j] = b[j - (i - 1)]
        BY <2>1, <2>2, <2>3, <1>2, <3>2
      <4>2. j - (i - 1) \in 1 .. n - i /\ i + (j - (i - 1)) = j + 1 /\ ~(j < i)
        BY <2>1, <3>2
      <4>3. b[j - (i - 1)] = c[j + 1]
        BY <1>3, <4>2
      <4> QED BY <4>1, <4>2, <4>3
    <3> QED BY <2>1, <3>1, <3>2
  <2> QED BY <2>4, <2>5
<1> HIDE DEF r
<1>6. s \in Seq(Prediction) /\ Len(s) = n /\ s[n] = c[i] /\ \A j \in 1 .. n - 1 : s[j] = r[j]
  BY <1>1, <1>5, AppendProperties
<1> HIDE DEF s
<1> DEFINE from(j) == IF j = n THEN i ELSE IF j < i THEN j ELSE j + 1
<1>7. ASSUME NEW j \in 1 .. n PROVE from(j) \in 1 .. n /\ s[j] = c[from(j)]
  <2>1. CASE j = n
    BY <1>1, <1>6, <2>1
  <2>2. CASE j # n
    <3>1. j \in 1 .. n - 1
      BY <1>1, <2>2
    <3> QED BY <1>1, <1>5, <1>6, <2>2, <3>1
  <2> QED BY <2>1, <2>2
<1>8. \A j, k \in 1 .. n : from(j) = from(k) => j = k
  BY <1>1
<1> HIDE DEF from
<1>9. \A j \in 1 .. n : c[j].version = v /\ \A k \in 1 .. n : c[j].key = c[k].key => j = k
  BY <1>1 DEF OneVersion
<1>10. DOMAIN s = 1 .. n
  BY <1>6
<1>11. ASSUME NEW j \in 1 .. n PROVE s[j].version = v /\ \A k \in 1 .. n : s[j].key = s[k].key => j = k
  <2>1. s[j].version = v
    <3>1. from(j) \in 1 .. n /\ s[j] = c[from(j)]
      BY <1>7
    <3> QED BY <1>9, <3>1
  <2>2. ASSUME NEW k \in 1 .. n, s[j].key = s[k].key PROVE j = k
    <3>1. from(j) = from(k)
      <4>1. from(j) \in 1 .. n /\ from(k) \in 1 .. n /\ s[j] = c[from(j)] /\ s[k] = c[from(k)]
        BY <1>7
      <4>2. c[from(j)].key = c[from(k)].key
        BY <2>2, <4>1
      <4> QED BY <1>9, <4>1, <4>2
    <3> QED BY <1>8, <3>1, Zenon
  <2> QED BY <2>1, <2>2
<1>12. OneVersion(s, v)
  BY <1>6, <1>10, <1>11, Zenon DEF OneVersion
<1> QED BY <1>4, <1>12 DEF s, r

\* A miss: the oldest may go, and the new one has a key that was not there.
LEMMA MissKeeps ==
  ASSUME NEW c \in Seq(Prediction), NEW v, OneVersion(c, v), NEW p \in Prediction, p.version = v,
         \A i \in DOMAIN c : c[i].key # p.key
  PROVE OneVersion(Append(c, p), v)
<1> DEFINE n == Len(c)
           s == Append(c, p)
<1>1. s \in Seq(Prediction) /\ Len(s) = n + 1 /\ s[n + 1] = p /\ \A j \in 1 .. n : s[j] = c[j]
  BY AppendProperties
<1>2. n \in Nat /\ DOMAIN c = 1 .. n /\ DOMAIN s = 1 .. n + 1
  BY <1>1
<1> HIDE DEF s
<1>3. \A j \in 1 .. n : c[j].version = v /\ c[j].key # p.key /\ \A k \in 1 .. n : c[j].key = c[k].key => j = k
  BY <1>2 DEF OneVersion
<1>4. ASSUME NEW j \in 1 .. n + 1 PROVE (j \in 1 .. n /\ s[j] = c[j]) \/ (j = n + 1 /\ s[j] = p)
  BY <1>1, <1>2
<1>5. ASSUME NEW j \in 1 .. n + 1, NEW k \in 1 .. n + 1, s[j].key = s[k].key PROVE j = k
  BY <1>3, <1>4, <1>5
<1>6. \A j \in 1 .. n + 1 : s[j].version = v
  BY <1>3, <1>4
<1>7. OneVersion(s, v)
  BY <1>1, <1>2, <1>5, <1>6, Zenon DEF OneVersion
<1> QED BY <1>7 DEF s

LEMMA TailKeeps ==
  ASSUME NEW c \in Seq(Prediction), NEW v, OneVersion(c, v), c # <<>>
  PROVE OneVersion(Tail(c), v) /\ \A k : (\A i \in DOMAIN c : c[i].key # k) => \A i \in DOMAIN Tail(c) : Tail(c)[i].key # k
<1> DEFINE t == Tail(c)
<1>1. t \in Seq(Prediction) /\ Len(t) = Len(c) - 1 /\ \A i \in 1 .. Len(t) : t[i] = c[i + 1]
  BY HeadTailProperties
<1>2. \A i \in 1 .. Len(t) : i + 1 \in 1 .. Len(c)
  BY <1>1
<1>3. DOMAIN c = 1 .. Len(c) /\ DOMAIN t = 1 .. Len(t)
  BY <1>1
<1> HIDE DEF t
<1>4. \A i \in 1 .. Len(c) : c[i].version = v /\ \A j \in 1 .. Len(c) : c[i].key = c[j].key => i = j
  BY <1>3 DEF OneVersion
<1>5. ASSUME NEW i \in 1 .. Len(t), NEW j \in 1 .. Len(t), t[i].key = t[j].key PROVE i = j
  <2>1. i + 1 = j + 1
    BY <1>1, <1>2, <1>4, <1>5
  <2> QED BY <2>1
<1>6. \A i \in 1 .. Len(t) : t[i].version = v
  BY <1>1, <1>2, <1>4
<1>7. OneVersion(t, v)
  BY <1>1, <1>3, <1>5, <1>6, Zenon DEF OneVersion
<1> QED BY <1>1, <1>2, <1>3, <1>7 DEF t

\* A prediction is of the version of the classifier that is there afterwards.
LEMMA RouteKeepsPredictions ==
  ASSUME PredictionInv, NEW text \in Texts, NEW budget, Route(text, budget)
  PROVE PredictionInv'
<1> DEFINE c == cache
           hit == CachedAt(text) # {}
           p == [key |-> KeyOf(text), version |-> Classifier.version, difficulty |-> Difficulty(text)]
<1>1. /\ cache' = Predicted(text) /\ ppm' = IF CachedAt(text) = {} THEN Classifier ELSE ppm
      /\ weights' = weights
  BY DEF Route
<1>2. /\ weights \in Nat /\ ppm \in [made : BOOLEAN, shares : BOOLEAN, version : Nat]
      /\ OneVersion(cache, ppm.version) /\ cache \in Seq(Prediction)
      /\ ~ppm.made => cache = <<>>
  BY DEF PredictionInv, OneVersion
<1>3. CASE hit
  <2>1. PICK i \in CachedAt(text) : Predicted(text) = Append(RemoveAt(cache, i), cache[i])
    BY <1>3, Zenon DEF Predicted
  <2>2. i \in DOMAIN cache
    BY DEF CachedAt
  <2>3. OneVersion(cache', ppm.version)
    BY <1>1, <1>2, <2>1, <2>2, HitKeeps
  <2>4. ppm.made
    <3>1. cache # <<>>
      BY <2>2
    <3> QED BY <1>2, <3>1
  <2> QED BY <1>1, <1>2, <1>3, <2>3, <2>4 DEF PredictionInv
<1>4. CASE ~hit
  <2>1. ppm' = Classifier /\ Predicted(text) = Append(IF Len(cache) < CacheSize THEN cache ELSE Tail(cache), p)
    BY <1>1, <1>4 DEF Predicted
  <2>2. /\ Classifier \in [made : BOOLEAN, shares : BOOLEAN, version : Nat] /\ Classifier.made
        /\ OneVersion(cache, Classifier.version)
    <3>1. CASE ppm.made
      BY <1>2, <3>1 DEF Classifier
    <3>2. CASE ~ppm.made
      BY <1>2, <3>2, EmptyOneVersion DEF Classifier
    <3> QED BY <3>1, <3>2
  <2>3. p \in Prediction /\ p.version = Classifier.version /\ p.key = KeyOf(text)
    <3>1. KeyOf(text) \in {KeyOf(t) : t \in Texts} /\ Difficulty(text) \in {Difficulty(t) : t \in Texts}
          /\ Classifier.version \in Nat
      BY <2>2
    <3> HIDE DEF Classifier
    <3> QED BY <3>1 DEF Prediction
  <2>4. \A i \in DOMAIN cache : cache[i].key # p.key
    BY <1>4, <2>3 DEF CachedAt
  <2> HIDE DEF p
  <2>5. CASE Len(cache) < CacheSize
    <3>1. cache' = Append(cache, p)
      BY <1>1, <2>1, <2>5
    <3>2. OneVersion(cache', Classifier.version)
      BY <1>2, <2>2, <2>3, <2>4, <3>1, MissKeeps
    <3> QED BY <1>1, <1>2, <2>1, <2>2, <3>2 DEF PredictionInv
  <2>6. CASE ~(Len(cache) < CacheSize)
    <3>1. cache' = Append(Tail(cache), p)
      BY <1>1, <2>1, <2>6
    <3>2. cache # <<>>
      BY <2>6, MomAssumption
    <3>3. OneVersion(Tail(cache), Classifier.version) /\ \A i \in DOMAIN Tail(cache) : Tail(cache)[i].key # p.key
      BY <1>2, <2>2, <2>4, <3>2, TailKeeps
    <3>4. Tail(cache) \in Seq(Prediction)
      BY <3>3 DEF OneVersion
    <3>5. OneVersion(cache', Classifier.version)
      BY <2>3, <3>1, <3>3, <3>4, MissKeeps
    <3> QED BY <1>1, <1>2, <2>1, <2>2, <3>5 DEF PredictionInv
  <2> QED BY <2>5, <2>6
<1> QED BY <1>3, <1>4

LEMMA TrainedKeeps ==
  ASSUME PredictionInv, NEW taken, Trained(taken) PROVE PredictionInv'
<1>1. weights \in Nat /\ ppm \in [made : BOOLEAN, shares : BOOLEAN, version : Nat]
  BY DEF PredictionInv
<1>2. CASE taken = {}
  BY <1>2 DEF Trained, CacheAfter, PredictionInv
<1>3. CASE taken # {}
  <2>1. cache' = <<>> /\ weights' = weights + 1 /\ ppm' = IF ppm.shares THEN [ppm EXCEPT !.version = weights + 1] ELSE ppm
    BY <1>3 DEF Trained, CacheAfter
  <2>2. weights + 1 \in Nat
    BY <1>1
  <2>3. ppm' \in [made : BOOLEAN, shares : BOOLEAN, version : Nat]
    BY <1>1, <2>1, <2>2
  <2> QED BY <2>1, <2>2, <2>3, EmptyOneVersion DEF PredictionInv
<1> QED BY <1>2, <1>3

LEMMA PredictionInvInductive == PredictionInv /\ [MomNext]_momVars => PredictionInv'
<1> SUFFICES ASSUME PredictionInv, [MomNext]_momVars PROVE PredictionInv'
  OBVIOUS
<1>1. ASSUME UNCHANGED <<weights, ppm, cache>> PROVE PredictionInv'
  BY <1>1 DEF PredictionInv
<1>2. ASSUME NEW text \in Texts, NEW budget, Route(text, budget) PROVE PredictionInv'
  BY <1>2, RouteKeepsPredictions
<1>3. ASSUME NEW inLoop, Record(inLoop) PROVE PredictionInv'
  BY <1>1, <1>3, TrainedKeeps DEF Record
<1>4. CASE Train \/ \E own \in {{}, {0}} : TrainOn(own)
  BY <1>4, TrainedKeeps DEF Train, TrainOn
<1>5. CASE Reset
  <2>1. weights \in Nat /\ ppm \in [made : BOOLEAN, shares : BOOLEAN, version : Nat]
    BY DEF PredictionInv
  <2>2. weights' = weights + 1 /\ cache' = <<>> /\ ppm' = [ppm EXCEPT !.shares = FALSE]
    BY <1>5 DEF Reset
  <2>3. ppm' \in [made : BOOLEAN, shares : BOOLEAN, version : Nat]
    BY <2>1, <2>2
  <2> QED BY <2>1, <2>2, <2>3, EmptyOneVersion DEF PredictionInv
<1>6. CASE FlushTask \/ LoopWakes \/ StartLoop \/ StopLoop \/ (\E m \in Models : Rate(m)) \/ UNCHANGED momVars
  BY <1>1, <1>6 DEF FlushTask, LoopWakes, StartLoop, StopLoop, Rate, momVars
<1> QED BY <1>2, <1>3, <1>4, <1>5, <1>6 DEF MomNext

\* For any number of records, texts and models, any batch, training cycle and size of the cache: every
\* record is queued still or went to one place, and a cached prediction is what the classifier would
\* say now, however flush tasks, the loop, stop, training on the queue or on the caller's own records,
\* and resets are mixed (mom_router.py:110-138).
THEOREM FeedbackIsSound == MomSpec => []FeedbackSound
<1>1. MomInit => QueueInv /\ PredictionInv
  <2> SUFFICES ASSUME MomInit PROVE QueueInv /\ PredictionInv
    OBVIOUS
  <2>1. QueueInv
    <3>1. feedback \in FeedbackRecord /\ feedback.queue = {} /\ feedback.since = 0 /\ fate = <<>>
      BY DEF MomInit, FeedbackRecord
    <3>2. <<>> \in Seq(SUBSET Places) /\ DOMAIN <<>> = {} /\ 0 < TrainEvery
      BY MomAssumption
    <3> QED BY <3>1, <3>2, FS_EmptySet DEF QueueInv, FeedbackType
  <2>2. PredictionInv
    BY EmptyOneVersion DEF MomInit, NoClassifier, PredictionInv
  <2> QED BY <2>1, <2>2
<1>2. QueueInv /\ PredictionInv /\ [MomNext]_momVars => (QueueInv /\ PredictionInv)'
  BY QueueInvInductive, PredictionInvInductive
<1>3. QueueInv /\ PredictionInv => FeedbackSound
  <2>1. PredictionInv => PredictionsFresh
    BY DEF PredictionInv, OneVersion, PredictionsFresh
  <2> QED BY <2>1, QueueConserves DEF FeedbackSound
<1> QED BY <1>1, <1>2, <1>3, PTL DEF MomSpec

-----------------------------------------------------------------------------
(* The services together: whatever a run chooses, each of them is at what   *)
(* it does by itself or stands still, so what was proved of each is true    *)
(* of the whole.                                                            *)

LEMMA ServesOne ==
  ASSUME [ServicesNext]_serviceVars
  PROVE /\ [ApiNext]_apiVars /\ [HybridNext]_hybridVars /\ [SandboxNext]_sandboxVars /\ [MomNext]_momVars
        /\ [FreqNext]_freqVars /\ [CacheNext]_cacheVars /\ [ArenaNext]_arenaVars
<1>1. CASE Serving("server") /\ ApiNext /\ Others
  BY <1>1 DEF Others, Held, Serving
<1>2. CASE Serving("hybrid") /\ HybridNext /\ Others
  BY <1>2 DEF Others, Held, Serving
<1>3. CASE Serving("sandbox") /\ SandboxNext /\ Others
  BY <1>3 DEF Others, Held, Serving
<1>4. CASE Serving("mom") /\ MomNext /\ Others
  BY <1>4 DEF Others, Held, Serving
<1>5. CASE Serving("frequency") /\ FreqNext /\ Others
  BY <1>5 DEF Others, Held, Serving
<1>6. CASE Serving("cache") /\ CacheNext /\ Others
  BY <1>6 DEF Others, Held, Serving
<1>7. CASE Serving("arena") /\ ArenaNext /\ Others
  BY <1>7 DEF Others, Held, Serving
<1>8. CASE UNCHANGED serviceVars
  BY <1>8 DEF serviceVars
<1> QED BY <1>1, <1>2, <1>3, <1>4, <1>5, <1>6, <1>7, <1>8 DEF ServicesNext

\* A behaviour of the services together is a behaviour of each: of the HTTP server (app.py:191), of
\* the hybrid executor (hybrid/executor.py), of the sandbox, of the MOM router, of the planner's
\* frequency control, of the cache and of the arena, since none of them writes a variable of another.
THEOREM ServicesCompose ==
  ServicesSpec => ApiSpec /\ HybridSpec /\ SandboxSpec /\ MomSpec /\ FreqSpec /\ CacheSpec /\ ArenaSpec
<1>1. ServicesInit => ApiInit /\ HybridInit /\ SandboxInit /\ MomInit /\ FreqInit /\ CacheInit /\ ArenaInit
  BY DEF ServicesInit
<1>2. [ServicesNext]_serviceVars =>
        /\ [ApiNext]_apiVars /\ [HybridNext]_hybridVars /\ [SandboxNext]_sandboxVars /\ [MomNext]_momVars
        /\ [FreqNext]_freqVars /\ [CacheNext]_cacheVars /\ [ArenaNext]_arenaVars
  BY ServesOne
<1> QED BY <1>1, <1>2, PTL
    DEF ServicesSpec, ApiSpec, HybridSpec, SandboxSpec, MomSpec, FreqSpec, CacheSpec, ArenaSpec

\* What the run of the services checks on small instances, for every value of the constants: the rate
\* limit is exact, the calls allowed, the audit trail complete, the hybrid executor within the consents,
\* the budget and the records kept, the planner within its share, the cache a register that retains, and
\* one champion, deployed and rolled back to, in the composition that is checked.
THEOREM ServicesAreSound ==
  ServicesSpec => [](/\ LimitExact /\ OnlyAllowedCalls /\ TrailComplete
                     /\ CallsPermitted /\ BudgetKept /\ FeedbackSound /\ PlannerShare
                     /\ Regular /\ Retained /\ OneChampion /\ RollsBackToPrevious /\ LiveIsChampion)
<1>1. ServicesSpec => []LimitExact /\ []OnlyAllowedCalls /\ []TrailComplete
  BY ServicesCompose, LimitIsExact, CallsAreAllowed, TrailIsComplete
<1>2. ServicesSpec => []CallsPermitted /\ []BudgetKept /\ []FeedbackSound /\ []PlannerShare
  BY ServicesCompose, CallsArePermitted, BudgetIsKept, FeedbackIsSound, ShareKept
<1>3. ServicesSpec => []Regular /\ []Retained
  BY ServicesCompose, CacheIsRegular, CacheRetains
<1>4. ServicesSpec => []OneChampion /\ []RollsBackToPrevious /\ []LiveIsChampion
  BY ServicesCompose, OneChampionHolds, RollbackIsRight, LiveFollows
<1> QED BY <1>1, <1>2, <1>3, <1>4, PTL
=============================================================================
