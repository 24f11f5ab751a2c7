------------------------- MODULE CostControlProofs -------------------------
(***************************************************************************)
(* For any number of processes and clients, any price and any budget:      *)
(* money and calls agree everywhere, and the hourly share overshoots by no *)
(* more than one call per client of a process.                             *)
(***************************************************************************)
EXTENDS CostControl, FiniteSetTheorems, TLAPS

Own(p) == {c \in Clients : ProcessOf[c] = p}
UnderWay(p) == {c \in Own(p) : phase[c] = "planner"}

Balanced(b) == b.remaining + Cost * b.total = Monthly

Share(p) == (mem[p].hour + Cardinality(UnderWay(p))) * Den
              <= Num * mem[p].total + Cardinality(Own(p)) * Den

\* What is about to be written is balanced too.
LedgerInv == /\ TypeOK
             /\ Ledger
             /\ \A c \in Clients : Balanced(data[c])

\* The calls of the hour are among all calls: with no call at all, which is
\* when the ratio is not computed, there is none in the hour either.
ShareInv == \A p \in Processes : mem[p].hour <= mem[p].total /\ Share(p)

-----------------------------------------------------------------------------
(* Types.                                                                  *)

LEMMA InitType == Init => TypeOK
BY CostAssumption DEF Init, TypeOK, Load, Fresh, Unreadable

LEMMA LoadType ==
  ASSUME TypeOK
  PROVE  Load \in [remaining : Int, total : Nat, hour : Nat] /\ Load.hour = 0
BY CostAssumption DEF TypeOK, Load, Unreadable

LEMMA TypeStep == TypeOK /\ [Next]_vars => TypeOK'
<1> SUFFICES ASSUME TypeOK, [Next]_vars PROVE TypeOK'
  OBVIOUS
<1> USE CostAssumption DEF TypeOK
<1>1. ASSUME NEW c \in Clients, Check(c) PROVE TypeOK'
  BY <1>1 DEF Check, Goto
<1>2. ASSUME NEW c \in Clients, Record(c) PROVE TypeOK'
  <2> DEFINE p == ProcessOf[c]
  <2>1. p \in Processes
    OBVIOUS
  <2>2. CASE phase[c] = "planner" /\ RecordCall(p)
    <3>1. mem' \in [Processes -> [remaining : Int, total : Nat, hour : Nat]]
      BY <2>1, <2>2 DEF RecordCall
    <3> QED BY <1>2, <2>1, <2>2, <3>1 DEF Record, RecordCall, Goto
  <2>3. CASE phase[c] = "executor" /\ RecordWithoutSota(p)
    BY <1>2, <2>1, <2>3 DEF Record, RecordWithoutSota, Goto
  <2> QED BY <1>2, <2>2, <2>3 DEF Record
<1>3. ASSUME NEW c \in Clients, Truncate(c) PROVE TypeOK'
  BY <1>3 DEF Truncate, Goto
<1>4. ASSUME NEW c \in Clients, Write(c) PROVE TypeOK'
  BY <1>4 DEF Write, Goto, Fresh
<1>5. ASSUME NEW c \in Clients, ResetMonthly(c) PROVE TypeOK'
  BY <1>5 DEF ResetMonthly, Goto
<1>6. ASSUME NEW p \in Processes, DebounceEnds(p) PROVE TypeOK'
  BY <1>6 DEF DebounceEnds
<1>7. ASSUME NEW p \in Processes, ResetHourly(p) PROVE TypeOK'
  BY <1>7 DEF ResetHourly
<1>8. ASSUME NEW p \in Processes, Restart(p) PROVE TypeOK'
  BY <1>8, LoadType DEF Restart, Fresh
<1>9. CASE UNCHANGED vars
  BY <1>9 DEF vars
<1> QED BY <1>1, <1>2, <1>3, <1>4, <1>5, <1>6, <1>7, <1>8, <1>9 DEF Next

\* Clients, processes, the file and the schedulers keep their types, for every
\* value of the constants.
THEOREM TypeCorrect == Spec => []TypeOK
<1> QED BY InitType, TypeStep, PTL DEF Spec

-----------------------------------------------------------------------------
(* The ledger.                                                             *)

LEMMA FreshBalanced == Balanced(Fresh)
BY CostAssumption DEF Balanced, Fresh

\* An unreadable file gives the balance of a fresh one.
LEMMA LoadBalanced ==
  ASSUME TypeOK, Ledger
  PROVE  Balanced(Load)
<1>1. CASE file = Unreadable
  BY <1>1, CostAssumption DEF Load, Balanced
<1>2. CASE file # Unreadable
  BY <1>2 DEF Load, Balanced, Ledger
<1> QED BY <1>1, <1>2

LEMMA LedgerStep == LedgerInv /\ [Next]_vars => LedgerInv'
<1> SUFFICES ASSUME LedgerInv, [Next]_vars
             PROVE  Ledger' /\ \A c \in Clients : Balanced(data'[c])
  BY TypeStep DEF LedgerInv, Balanced
<1> USE CostAssumption DEF LedgerInv
<1>0. TypeOK
  OBVIOUS
<1>a. ASSUME UNCHANGED <<mem, file, data>>
      PROVE  Ledger' /\ \A c \in Clients : Balanced(data'[c])
  BY <1>a DEF Ledger, Balanced
<1>1. ASSUME NEW c \in Clients, Check(c)
      PROVE  Ledger' /\ \A d \in Clients : Balanced(data'[d])
  BY <1>1, <1>a DEF Check
<1>2. ASSUME NEW c \in Clients, Record(c)
      PROVE  Ledger' /\ \A d \in Clients : Balanced(data'[d])
  <2>1. CASE RecordWithoutSota(ProcessOf[c])
    BY <1>2, <2>1, <1>a DEF Record, RecordWithoutSota
  <2>2. CASE RecordCall(ProcessOf[c])
    <3>1. ProcessOf[c] \in Processes
      OBVIOUS
    <3>2. ASSUME NEW p \in Processes
          PROVE  mem'[p].remaining + Cost * mem'[p].total = Monthly
      <4>1. mem[p].remaining + Cost * mem[p].total = Monthly
        BY DEF Ledger
      <4>2. mem[p].remaining \in Int /\ mem[p].total \in Nat
        BY <1>0 DEF TypeOK
      <4>3. CASE p # ProcessOf[c]
        BY <1>0, <2>2, <4>1, <4>3 DEF RecordCall, TypeOK
      <4>4. CASE p = ProcessOf[c]
        <5>1. /\ mem'[p].remaining = mem[p].remaining - Cost
              /\ mem'[p].total = mem[p].total + 1
          BY <1>0, <2>2, <4>4 DEF RecordCall, TypeOK
        <5>2. Cost * (mem[p].total + 1) = Cost * mem[p].total + Cost
          BY <4>2
        <5> QED BY <4>1, <4>2, <5>1, <5>2
      <4> QED BY <4>3, <4>4
    <3> QED BY <1>2, <3>2 DEF Record, Ledger, Balanced
  <2> QED BY <1>2, <2>1, <2>2 DEF Record
<1>3. ASSUME NEW c \in Clients, Truncate(c)
      PROVE  Ledger' /\ \A d \in Clients : Balanced(data'[d])
  <2>1. ProcessOf[c] \in Processes
    OBVIOUS
  <2>2. Ledger'
    BY <1>3 DEF Truncate, Ledger
  <2>3. ASSUME NEW d \in Clients PROVE Balanced(data'[d])
    BY <1>0, <1>3, <2>1 DEF Truncate, Balanced, Ledger, TypeOK
  <2> QED BY <2>2, <2>3
<1>4. ASSUME NEW c \in Clients, Write(c)
      PROVE  Ledger' /\ \A d \in Clients : Balanced(data'[d])
  <2>1. Ledger'
    BY <1>4 DEF Write, Ledger, Balanced
  <2>2. \A d \in Clients : Balanced(data'[d])
    BY <1>0, <1>4, FreshBalanced DEF Write, Balanced, TypeOK
  <2> QED BY <2>1, <2>2
<1>5. ASSUME NEW c \in Clients, ResetMonthly(c)
      PROVE  Ledger' /\ \A d \in Clients : Balanced(data'[d])
  <2>1. ASSUME NEW p \in Processes
        PROVE  mem'[p].remaining + Cost * mem'[p].total = Monthly
    BY <1>0, <1>5 DEF ResetMonthly, Ledger, TypeOK
  <2> QED BY <1>5, <2>1 DEF ResetMonthly, Ledger, Balanced
<1>6. ASSUME NEW p \in Processes, DebounceEnds(p)
      PROVE  Ledger' /\ \A d \in Clients : Balanced(data'[d])
  BY <1>6, <1>a DEF DebounceEnds
<1>7. ASSUME NEW p \in Processes, ResetHourly(p)
      PROVE  Ledger' /\ \A d \in Clients : Balanced(data'[d])
  <2>1. ASSUME NEW q \in Processes
        PROVE  mem'[q].remaining + Cost * mem'[q].total = Monthly
    BY <1>0, <1>7 DEF ResetHourly, Ledger, TypeOK
  <2> QED BY <1>7, <2>1 DEF ResetHourly, Ledger, Balanced
<1>8. ASSUME NEW p \in Processes, Restart(p)
      PROVE  Ledger' /\ \A d \in Clients : Balanced(data'[d])
  <2>1. ASSUME NEW q \in Processes
        PROVE  mem'[q].remaining + Cost * mem'[q].total = Monthly
    BY <1>0, <1>8, LoadBalanced DEF Restart, Ledger, Balanced, TypeOK
  <2>2. \A d \in Clients : Balanced(data'[d])
    BY <1>0, <1>8, FreshBalanced DEF Restart, TypeOK
  <2> QED BY <1>8, <2>1, <2>2 DEF Restart, Ledger
<1>9. CASE UNCHANGED vars
  BY <1>9, <1>a DEF vars
<1> QED BY <1>1, <1>2, <1>3, <1>4, <1>5, <1>6, <1>7, <1>8, <1>9 DEF Next

\* Money and calls agree in every process and in the file, for every number of
\* processes and clients and every price: whatever is lost, overwritten, torn,
\* reset or restarted on the way between a scheduler and the file.
THEOREM LedgerHolds == Spec => []Ledger
<1>1. Init => LedgerInv
  <2> SUFFICES ASSUME Init PROVE Ledger /\ \A c \in Clients : Balanced(data[c])
    BY InitType DEF LedgerInv
  <2>1. Balanced(Load)
    BY CostAssumption DEF Init, Load, Balanced
  <2> QED BY <2>1, FreshBalanced DEF Init, Ledger, Balanced
<1>2. LedgerInv => Ledger
  BY DEF LedgerInv
<1> QED BY <1>1, <1>2, LedgerStep, PTL DEF Spec

-----------------------------------------------------------------------------
(* The hourly share.                                                       *)

LEMMA UnderWayCount ==
  ASSUME NEW p \in Processes
  PROVE  /\ IsFiniteSet(Own(p)) /\ IsFiniteSet(UnderWay(p))
         /\ Cardinality(Own(p)) \in Nat /\ Cardinality(UnderWay(p)) \in Nat
         /\ Cardinality(UnderWay(p)) <= Cardinality(Own(p))
<1>1. Own(p) \subseteq Clients /\ UnderWay(p) \subseteq Own(p)
  BY DEF Own, UnderWay
<1>2. IsFiniteSet(Own(p))
  BY <1>1, FS_Subset, CostAssumption
<1> QED BY <1>1, <1>2, FS_Subset, FS_CardinalityType

\* Whatever the factors, smaller ones give a smaller product.
LEMMA Monotone ==
  ASSUME NEW a \in Nat, NEW b \in Nat, NEW f \in Nat, a <= b
  PROVE  a * f <= b * f
<1>1. (b - a) * f >= 0
  OBVIOUS
<1> QED BY <1>1

\* Where there is no call in the hour, any number of calls under way is within
\* the bound: no more than the clients.
LEMMA NoHourNoExcess ==
  ASSUME NEW u \in Nat, NEW k \in Nat, NEW t \in Nat, u <= k
  PROVE  (0 + u) * Den <= Num * t + k * Den
<1>1. u * Den <= k * Den
  BY Monotone, CostAssumption
<1>2. Num * t \in Nat /\ k * Den \in Nat /\ u * Den \in Nat
  BY CostAssumption
<1> QED BY <1>1, <1>2

\* The share of a process whose scheduler and calls under way stay the same.
LEMMA ShareKept ==
  ASSUME NEW p \in Processes, mem'[p] = mem[p], UnderWay(p)' = UnderWay(p),
         mem[p].hour <= mem[p].total, Share(p)
  PROVE  mem'[p].hour <= mem'[p].total /\ Share(p)'
BY DEF Share, Own

\* What a reset or a restart leaves: no call in the hour.
LEMMA ShareOfNoHour ==
  ASSUME NEW p \in Processes, mem'[p].hour = 0, mem'[p].total \in Nat, TypeOK'
  PROVE  mem'[p].hour <= mem'[p].total /\ Share(p)'
<1> DEFINE u == Cardinality(UnderWay(p)')
           k == Cardinality(Own(p))
<1>1. UnderWay(p)' \subseteq Own(p)
  BY DEF UnderWay, Own
<1>2. u \in Nat /\ k \in Nat /\ u <= k
  BY <1>1, UnderWayCount, FS_Subset, FS_CardinalityType
<1>3. (0 + u) * Den <= Num * mem'[p].total + k * Den
  BY <1>2, NoHourNoExcess
<1> QED BY <1>3 DEF Share, Own

LEMMA ShareStep == TypeOK /\ ShareInv /\ [Next]_vars => ShareInv'
<1> SUFFICES ASSUME TypeOK, ShareInv, [Next]_vars, NEW p \in Processes
             PROVE  mem'[p].hour <= mem'[p].total /\ Share(p)'
  BY DEF ShareInv
<1> USE CostAssumption
<1>0. TypeOK'
  BY TypeStep
<1>a. mem[p].hour <= mem[p].total /\ Share(p)
  BY DEF ShareInv
<1>b. /\ mem[p].hour \in Nat /\ mem[p].total \in Nat
      /\ mem'[p].hour \in Nat /\ mem'[p].total \in Nat
  BY <1>0 DEF TypeOK
<1>c. ASSUME mem'[p] = mem[p], \A c \in Own(p) : phase'[c] = "planner" <=> phase[c] = "planner"
      PROVE  mem'[p].hour <= mem'[p].total /\ Share(p)'
  <2>1. UnderWay(p)' = UnderWay(p)
    BY <1>c DEF UnderWay, Own
  <2> QED BY <1>a, <1>c, <2>1, ShareKept
<1>1. ASSUME NEW c \in Clients, Check(c)
      PROVE  mem'[p].hour <= mem'[p].total /\ Share(p)'
  <2>1. CASE ProcessOf[c] = p /\ ~RatioExceeded(p)
    \* Whatever the ratio was compared with, the hour is within it.
    <3> DEFINE u == Cardinality(UnderWay(p)')
               k == Cardinality(Own(p))
               h == mem[p].hour
               t == mem[p].total
    <3>1. mem'[p] = mem[p]
      BY <1>1 DEF Check
    <3>2. h * Den <= Num * t
      <4>1. CASE t = 0
        BY <1>a, <1>b, <4>1
      <4>2. CASE t # 0
        <5>1. ~(h * Den > Num * t)
          BY <2>1, <4>2 DEF RatioExceeded
        <5>2. h * Den \in Nat /\ Num * t \in Nat
          BY <1>b
        <5> QED BY <5>1, <5>2
      <4> QED BY <4>1, <4>2
    <3>3. UnderWay(p)' \subseteq Own(p)
      BY DEF UnderWay, Own
    <3>4. u \in Nat /\ k \in Nat /\ u <= k
      BY <3>3, UnderWayCount, FS_Subset, FS_CardinalityType
    <3>5. u * Den <= k * Den
      BY <3>4, Monotone
    <3>6. (h + u) * Den = h * Den + u * Den
      BY <1>b, <3>4
    <3>7. h * Den \in Nat /\ u * Den \in Nat /\ Num * t \in Nat /\ k * Den \in Nat
      BY <1>b, <3>4
    <3>8. (h + u) * Den <= Num * t + k * Den
      BY <3>2, <3>5, <3>6, <3>7
    <3> QED BY <1>a, <3>1, <3>8 DEF Share, Own
  <2>2. CASE ProcessOf[c] # p
    BY <1>1, <1>c, <2>2 DEF Check, Goto, Own, TypeOK
  <2>3. CASE phase' = [phase EXCEPT ![c] = "executor"]
    BY <1>1, <1>c, <2>3 DEF Check, Own, TypeOK
  <2> QED BY <1>1, <2>1, <2>2, <2>3 DEF Check, Goto
<1>2. ASSUME NEW c \in Clients, Record(c)
      PROVE  mem'[p].hour <= mem'[p].total /\ Share(p)'
  <2>1. CASE ProcessOf[c] # p
    BY <1>2, <1>c, <2>1 DEF Record, RecordCall, RecordWithoutSota, Goto, Own, TypeOK
  <2>2. CASE phase[c] = "executor" /\ RecordWithoutSota(ProcessOf[c])
    BY <1>2, <1>c, <2>2 DEF Record, RecordWithoutSota, Goto, Own, TypeOK
  <2>3. CASE ProcessOf[c] = p /\ phase[c] = "planner" /\ RecordCall(p)
    <3> DEFINE u == Cardinality(UnderWay(p))
               v == Cardinality(UnderWay(p)')
               k == Cardinality(Own(p))
               h == mem[p].hour
               t == mem[p].total
    <3>1. mem'[p].hour = h + 1 /\ mem'[p].total = t + 1
      BY <2>3 DEF RecordCall, TypeOK
    <3>2. c \in UnderWay(p) /\ UnderWay(p)' = UnderWay(p) \ {c}
      BY <1>2, <2>3 DEF Record, Goto, UnderWay, Own, TypeOK
    <3>3. u \in Nat /\ k \in Nat /\ v = u - 1
      BY <3>2, UnderWayCount, FS_RemoveElement, ZenonT(60)
    <3>4. (h + u) * Den <= Num * t + k * Den
      BY <1>a DEF Share
    <3>5. (h + 1) + v = h + u
      BY <1>b, <3>3
    <3>6. Num * (t + 1) = Num * t + Num
      BY <1>b
    <3>7. Num * t \in Nat /\ k * Den \in Nat /\ (h + u) * Den \in Nat
      BY <1>b, <3>3
    <3>8. (h + u) * Den <= Num * (t + 1) + k * Den
      BY <3>4, <3>6, <3>7
    <3>9. ((h + 1) + v) * Den <= Num * (t + 1) + k * Den
      BY <3>5, <3>8
    <3> QED BY <1>a, <1>b, <3>1, <3>9 DEF Share, Own
  <2> QED BY <1>2, <2>1, <2>2, <2>3 DEF Record
<1>3. ASSUME NEW c \in Clients, Truncate(c)
      PROVE  mem'[p].hour <= mem'[p].total /\ Share(p)'
  BY <1>3, <1>c DEF Truncate, Goto, Own, TypeOK
<1>4. ASSUME NEW c \in Clients, Write(c)
      PROVE  mem'[p].hour <= mem'[p].total /\ Share(p)'
  BY <1>4, <1>c DEF Write, Goto, Own, TypeOK
<1>5. ASSUME NEW c \in Clients, ResetMonthly(c)
      PROVE  mem'[p].hour <= mem'[p].total /\ Share(p)'
  <2>1. CASE ProcessOf[c] = p
    <3>1. mem'[p].hour = 0
      BY <1>5, <2>1 DEF ResetMonthly, TypeOK
    <3> QED BY <1>0, <1>b, <3>1, ShareOfNoHour
  <2>2. CASE ProcessOf[c] # p
    BY <1>5, <1>c, <2>2 DEF ResetMonthly, Goto, Own, TypeOK
  <2> QED BY <2>1, <2>2
<1>6. ASSUME NEW q \in Processes, DebounceEnds(q)
      PROVE  mem'[p].hour <= mem'[p].total /\ Share(p)'
  BY <1>6, <1>c DEF DebounceEnds
<1>7. ASSUME NEW q \in Processes, ResetHourly(q)
      PROVE  mem'[p].hour <= mem'[p].total /\ Share(p)'
  <2>1. CASE q = p
    <3>1. mem'[p].hour = 0
      BY <1>7, <2>1 DEF ResetHourly, TypeOK
    <3> QED BY <1>0, <1>b, <3>1, ShareOfNoHour
  <2>2. CASE q # p
    BY <1>7, <1>c, <2>2 DEF ResetHourly, TypeOK
  <2> QED BY <2>1, <2>2
<1>8. ASSUME NEW q \in Processes, Restart(q)
      PROVE  mem'[p].hour <= mem'[p].total /\ Share(p)'
  <2>1. CASE q = p
    <3>1. mem'[p].hour = 0
      BY <1>8, <2>1, LoadType DEF Restart, TypeOK
    <3> QED BY <1>0, <1>b, <3>1, ShareOfNoHour
  <2>2. CASE q # p
    BY <1>8, <1>c, <2>2 DEF Restart, Own, TypeOK
  <2> QED BY <2>1, <2>2
<1>9. CASE UNCHANGED vars
  BY <1>9, <1>c DEF vars
<1> QED BY <1>1, <1>2, <1>3, <1>4, <1>5, <1>6, <1>7, <1>8, <1>9 DEF Next

\* The hourly SOTA share overshoots its limit by at most one call for each
\* client of the process, however many there are and whatever the limit: checks
\* that go ahead together do not compound, nor do restarts and resets.
THEOREM HourlyRatioHolds == Spec => []HourlyRatio
<1>1. Init => ShareInv
  <2> SUFFICES ASSUME Init, NEW p \in Processes
               PROVE  mem[p].hour <= mem[p].total /\ Share(p)
    BY DEF ShareInv
  <2>1. mem[p].hour = 0 /\ mem[p].total = 0
    BY DEF Init, Load
  <2>2. (0 + Cardinality(UnderWay(p))) * Den
          <= Num * mem[p].total + Cardinality(Own(p)) * Den
    BY <2>1, UnderWayCount, NoHourNoExcess
  <2> QED BY <2>1, <2>2 DEF Share
<1>2. ShareInv => HourlyRatio
  BY DEF ShareInv, HourlyRatio, Share, Own, UnderWay
<1> QED BY <1>1, <1>2, InitType, TypeStep, ShareStep, PTL DEF Spec

=============================================================================
