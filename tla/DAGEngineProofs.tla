-------------------------- MODULE DAGEngineProofs --------------------------
(***************************************************************************)
(* For every set of names and latencies: the graphs that are built, cut    *)
(* and read back are well formed, and what validate, the critical path and *)
(* the groups say of them is right. And for every set of nodes, graph,     *)
(* retry policy and concurrency limit: the engine never runs a node before *)
(* its parents have completed, and it implements DAGSchedule, as long as   *)
(* on_complete does not raise.                                             *)
(***************************************************************************)
EXTENDS DAGEngine, TaskGraph, FiniteSetTheorems, FunctionTheorems, WellFoundedInduction, TLAPS

-----------------------------------------------------------------------------
(* Loops and what they keep of a sequence. *)

LEMMA LeastNat ==
  ASSUME NEW T, T \subseteq Nat, T # {}
  PROVE \E x \in T : \A y \in T : x <= y
<1>1. PICK x \in T : \A y \in T : <<y, x>> \notin OpToRel(<, Nat)
  BY NatLessThanWellFounded, WFMin
<1>2. ASSUME NEW y \in T PROVE x <= y
  <2>1. x \in Nat /\ y \in Nat
    OBVIOUS
  <2>2. ~(y < x)
    BY <1>1, <2>1 DEF OpToRel
  <2> QED BY <2>1, <2>2
<1> QED BY <1>2

\* What holds before a loop and is kept by each of its rounds holds after each.
LEMMA EachRound ==
  ASSUME NEW n \in Nat, NEW T, T \subseteq 0..n, 0 \in T, \A k \in 1..n : k - 1 \in T => k \in T
  PROVE T = 0..n
<1> DEFINE U == (0..n) \ T
<1>1. ASSUME U # {} PROVE FALSE
  <2>1. U \subseteq Nat
    OBVIOUS
  <2>2. PICK k \in U : \A l \in U : k <= l
    <3> HIDE DEF U
    <3> QED BY <1>1, <2>1, LeastNat
  <2>3. k \in 1..n /\ k - 1 \in 0..n /\ ~(k <= k - 1)
    BY <2>2
  <2>4. k - 1 \in T
    BY <2>2, <2>3
  <2> QED BY <2>2, <2>3, <2>4
<1> QED BY <1>1

\* F[k] is round k of a loop over the states S that starts in s0; r are the states after its rounds.
Rounds(n, S, s0, F) == n \in Nat /\ s0 \in S /\ \A k \in 1..n, t \in S : F[k][t] \in S
Course(r, n, S, s0, F) == r \in [0..n -> S] /\ r[0] = s0 /\ \A k \in 1..n : r[k] = F[k][r[k - 1]]

\* Rounds that keep to a set of states have a course.
LEMMA CourseExists ==
  ASSUME NEW n, NEW S, NEW s0, NEW F, Rounds(n, S, s0, F)
  PROVE \E r : Course(r, n, S, s0, F)
<1>0. n \in Nat /\ s0 \in S /\ \A k \in 1..n, t \in S : F[k][t] \in S
  BY DEF Rounds
<1> DEFINE Goes(r, m) == r \in [0..m -> S] /\ r[0] = s0 /\ \A k \in 1..m : r[k] = F[k][r[k - 1]]
           T == {m \in 0..n : \E r : Goes(r, m)}
<1>1. 0 \in T
  <2>1. Goes([k \in 0..0 |-> s0], 0)
    BY <1>0
  <2>2. 0 \in 0..n
    BY <1>0
  <2> HIDE DEF Goes
  <2> QED BY <2>1, <2>2
<1>2. ASSUME NEW m \in 1..n, m - 1 \in T PROVE m \in T
  <2>1. PICK q : Goes(q, m - 1)
    BY <1>2
  <2>2. m - 1 \in 0..(m - 1) /\ m \in Int /\ q \in [0..(m - 1) -> S]
    BY <1>0, <2>1
  <2>3. F[m][q[m - 1]] \in S
    BY <1>0, <2>2
  <2>4. PICK r : r = [k \in 0..m |-> IF k = m THEN F[m][q[m - 1]] ELSE q[k]]
    OBVIOUS
  <2>5. ASSUME NEW k \in 0..m, k # m PROVE k \in 0..(m - 1) /\ r[k] = q[k] /\ q[k] \in S
    <3>1. k \in 0..(m - 1)
      BY <1>0, <2>5
    <3> QED BY <2>2, <2>4, <2>5, <3>1
  <2>6. r \in [0..m -> S] /\ r[m] = F[m][q[m - 1]]
    BY <2>2, <2>3, <2>4, <2>5
  <2>7. r[0] = s0 /\ r[m - 1] = q[m - 1]
    <3>1. 0 \in 0..m /\ 0 # m /\ m - 1 \in 0..m /\ m - 1 # m
      BY <1>0
    <3> QED BY <2>1, <2>5, <3>1
  <2>8. ASSUME NEW k \in 1..m PROVE r[k] = F[k][r[k - 1]]
    <3>1. CASE k = m
      BY <2>6, <2>7, <3>1
    <3>2. CASE k # m
      <4>1. k \in 0..m /\ k - 1 \in 0..m /\ k - 1 # m /\ k \in 1..(m - 1)
        BY <1>0, <3>2
      <4>2. r[k] = q[k] /\ r[k - 1] = q[k - 1]
        BY <2>5, <3>2, <4>1
      <4> QED BY <2>1, <4>1, <4>2
    <3> QED BY <3>1, <3>2
  <2>9. Goes(r, m)
    BY <2>6, <2>7, <2>8
  <2>10. m \in 0..n
    BY <1>0
  <2> HIDE DEF Goes
  <2> QED BY <2>9, <2>10
<1>3. T \subseteq 0..n
  OBVIOUS
<1>4. T = 0..n
  <2> HIDE DEF T
  <2> QED BY <1>0, <1>1, <1>2, <1>3, EachRound
<1>5. PICK r : Goes(r, n)
  <2>1. n \in T
    BY <1>0, <1>4
  <2> HIDE DEF Goes
  <2> QED BY <2>1
<1> QED BY <1>5 DEF Course

\* h runs through the numbers I in their order.
Rises(h, c, I) ==
  /\ c \in Nat /\ h \in [1..c -> I]
  /\ \A i \in I : \E k \in 1..c : h[k] = i
  /\ \A k, l \in 1..c : k < l => h[k] < h[l]

\* t is what is left of s at the places I.
Chosen(s, t, I) == \E c, h : Rises(h, c, I) /\ DOMAIN t = 1..c /\ \A k \in 1..c : t[k] = s[h[k]]

\* J has one more number than I, behind all of them.
Adds(J, I, m) == m \in Int /\ J = I \cup {m} /\ \A i \in I : i \in Int /\ i < m

\* One more number is behind the others, or is none of them.
LEMMA RisesOn ==
  ASSUME NEW J, NEW I, NEW m, Adds(J, I, m), NEW c, NEW h, Rises(h, c, I)
  PROVE \E d, g : /\ d \in Nat /\ Rises(g, d, J) /\ d = c + 1 /\ g[d] = m
                  /\ \A k \in 1..c : g[k] = h[k]
<1>0. m \in Int /\ J = I \cup {m} /\ \A i \in I : i \in Int /\ i < m
  BY DEF Adds
<1>1. PICK d \in Nat : d = c + 1
  BY DEF Rises
<1>2. PICK g : g = [k \in 1..d |-> IF k = d THEN m ELSE h[k]]
  OBVIOUS
<1>3. c \in Nat /\ h \in [1..c -> I] /\ 1..d = (1..c) \cup {d} /\ d \notin 1..c
  BY <1>1 DEF Rises
<1>4. g[d] = m /\ \A k \in 1..c : g[k] = h[k] /\ g[k] \in I
  BY <1>2, <1>3
<1>5. g \in [1..d -> I \cup {m}]
  BY <1>2, <1>3
<1>6. \A i \in I \cup {m} : \E k \in 1..d : g[k] = i
  BY <1>3, <1>4 DEF Rises
<1>7. ASSUME NEW k \in 1..d, NEW l \in 1..d, k < l PROVE g[k] < g[l]
  <2>1. k \in 1..c
    BY <1>1, <1>3, <1>7
  <2>2. CASE l = d
    <3>1. g[k] \in Int /\ g[k] < m
      BY <1>0, <1>4, <2>1
    <3> QED BY <1>0, <1>4, <2>2, <3>1
  <2>3. CASE l # d
    BY <1>0, <1>3, <1>4, <1>7, <2>1, <2>3 DEF Rises
  <2> QED BY <2>2, <2>3
<1>8. Rises(g, d, J)
  BY <1>0, <1>1, <1>5, <1>6, <1>7 DEF Rises
<1> QED BY <1>1, <1>4, <1>8

\* The rounds of Picked.
LEMMA PickedGoes ==
  ASSUME NEW X, NEW s \in Seq(X), NEW I
  PROVE \E r \in [0..Len(s) -> Seq(X)] :
           r[0] = <<>> /\ r[Len(s)] = Picked(s, I) /\ \A k \in 1..Len(s) : r[k] = (IF k \in I THEN Append(r[k - 1], s[k]) ELSE r[k - 1])
<1> DEFINE Round(t, k) == (IF k \in I THEN Append(t, s[k]) ELSE t)
           count == Len(s)
           s0 == <<>>
           S == Seq(X)
<1>1. PICK F : F = [k \in 1..count |-> [t \in S |-> Round(t, k)]]
  OBVIOUS
<1>3. s0 \in S /\ count \in Nat /\ \A t \in S, k \in 1..count : Round(t, k) \in S
  OBVIOUS
<1> DEFINE Solves(r) == r = [k \in 0..count |-> IF k = 0 THEN s0 ELSE Round(r[k - 1], k)]
           Goes(r) == r \in [0..count -> S] /\ r[0] = s0 /\ \A k \in 1..count : r[k] = Round(r[k - 1], k)
<1>4. Picked(s, I) = (CHOOSE r : Solves(r))[count]
  BY DEF Picked, Looped
<1> HIDE DEF count, s0, S, Round
<1>2. \A k \in 1..count, t \in S : F[k][t] = Round(t, k) /\ F[k][t] \in S
  BY <1>1, <1>3
<1>5. \E r : Solves(r)
  <2>1. PICK r \in [0..count -> S] : r[0] = s0 /\ \A k \in 1..count : r[k] = F[k][r[k - 1]]
    <3>1. Rounds(count, S, s0, F)
      BY <1>2, <1>3 DEF Rounds
    <3> QED BY <3>1, CourseExists DEF Course
  <2>2. ASSUME NEW k \in 0..count PROVE r[k] = IF k = 0 THEN s0 ELSE Round(r[k - 1], k)
    <3>1. CASE k = 0
      BY <2>1, <3>1
    <3>2. CASE k # 0
      <4>1. k \in 1..count /\ k - 1 \in 0..count
        BY <1>3, <3>2
      <4>2. r[k] = F[k][r[k - 1]] /\ r[k - 1] \in S
        BY <2>1, <4>1
      <4> QED BY <1>2, <3>2, <4>1, <4>2
    <3> QED BY <3>1, <3>2
  <2>3. Solves(r)
    BY <2>1, <2>2
  <2> QED BY <2>3
<1>6. ASSUME NEW r, Solves(r) PROVE Goes(r)
  <2>1. DOMAIN r = 0..count /\ \A k \in 0..count : r[k] = IF k = 0 THEN s0 ELSE Round(r[k - 1], k)
    BY <1>6
  <2>2. r[0] = s0 /\ \A k \in 1..count : r[k] = Round(r[k - 1], k)
    <3>1. count \in Nat
      BY <1>3
    <3> QED BY <2>1, <3>1
  <2> DEFINE T == {k \in 0..count : r[k] \in S}
  <2>3. T \subseteq 0..count /\ 0 \in T
    BY <1>3, <2>2
  <2>4. ASSUME NEW k \in 1..count, k - 1 \in T PROVE k \in T
    BY <1>3, <2>2, <2>4
  <2>5. T = 0..count
    <3> HIDE DEF T
    <3> QED BY <1>3, <2>3, <2>4, EachRound
  <2>6. \A k \in 0..count : r[k] \in S
    BY <2>5
  <2>7. r \in [0..count -> S]
    BY <1>6, <2>6
  <2> QED BY <2>2, <2>7
<1> DEFINE c == CHOOSE r : Solves(r)
<1>7. Goes(c)
  <2>1. Solves(c)
    <3> HIDE DEF Solves
    <3> QED BY <1>5
  <2> HIDE DEF c, Solves, Goes
  <2> QED BY <1>6, <2>1
<1> HIDE DEF c
<1>8. c \in [0..count -> S] /\ c[0] = s0 /\ c[count] = Picked(s, I) /\ \A k \in 1..count : c[k] = Round(c[k - 1], k)
  BY <1>4, <1>7 DEF c
<1>9. \E r \in [0..count -> S] :
         r[0] = s0 /\ r[count] = Picked(s, I) /\ \A k \in 1..count : r[k] = Round(r[k - 1], k)
  BY <1>8
<1> QED BY <1>9 DEF count, s0, S, Round

LEMMA PickedIs ==
  ASSUME NEW X, NEW s \in Seq(X), NEW I, I \subseteq DOMAIN s
  PROVE Picked(s, I) \in Seq(X) /\ Chosen(s, Picked(s, I), I)
<1>1. PICK n \in Nat : n = Len(s) /\ DOMAIN s = 1..n /\ \A k \in 1..n : s[k] \in X
  OBVIOUS
<1>2. PICK r \in [0..n -> Seq(X)] :
        r[0] = <<>> /\ r[n] = Picked(s, I) /\ \A k \in 1..n : r[k] = IF k \in I THEN Append(r[k - 1], s[k]) ELSE r[k - 1]
  <2>1. PICK t : t = Picked(s, I)
    OBVIOUS
  <2> QED BY <1>1, <2>1, PickedGoes, SMTT(30)
<1> DEFINE Up(k) == {i \in I : i <= k}
<1>3. /\ Up(0) = {} /\ Up(n) = I
      /\ \A k \in 1..n : /\ Up(k - 1) \subseteq 1..(k - 1)
                         /\ Up(k) = IF k \in I THEN Up(k - 1) \cup {k} ELSE Up(k - 1)
  BY <1>1
<1> DEFINE T == {k \in 0..n : Chosen(s, r[k], Up(k))}
<1> HIDE DEF Up
<1>4. 0 \in T
  <2>1. DOMAIN r[0] = 1..0
    BY <1>2
  <2>2. PICK h : h = [k \in 1..0 |-> 0]
    OBVIOUS
  <2>3. Rises(h, 0, Up(0))
    BY <1>3, <2>2 DEF Rises
  <2>4. Chosen(s, r[0], Up(0))
    <3>1. \A k \in 1..0 : r[0][k] = s[h[k]]
      OBVIOUS
    <3> QED BY <2>1, <2>3, <3>1 DEF Chosen
  <2> QED BY <1>1, <2>4
<1>5. ASSUME NEW k \in 1..n, k - 1 \in T PROVE k \in T
  <2>0. PICK m \in Nat : m = k - 1
    BY <1>1
  <2>1. PICK c, h : Rises(h, c, Up(m)) /\ DOMAIN r[m] = 1..c /\ \A j \in 1..c : r[m][j] = s[h[j]]
    <3>1. Chosen(s, r[m], Up(m))
      BY <1>5, <2>0
    <3> QED BY <3>1 DEF Chosen
  <2>2. k \in 0..n /\ m \in 0..n /\ k = m + 1 /\ k - 1 = m
    BY <1>1, <2>0
  <2>3. c \in Nat /\ r[m] \in Seq(X) /\ Len(r[m]) = c
    <3>1. c \in Nat /\ r[m] \in Seq(X)
      BY <1>2, <2>1, <2>2 DEF Rises
    <3> QED BY <2>1, <3>1
  <2>4. r[k] = IF k \in I THEN Append(r[m], s[k]) ELSE r[m]
    BY <1>2, <2>2
  <2>5. CASE k \in I
    <3>1. Up(m) \subseteq 1..m /\ Up(k) = Up(m) \cup {m + 1}
      BY <1>3, <2>2, <2>5
    <3>2. PICK d, g : /\ d \in Nat /\ Rises(g, d, Up(k)) /\ d = c + 1 /\ g[d] = k
                      /\ \A j \in 1..c : g[j] = h[j]
      <4>1. Adds(Up(k), Up(m), k)
        BY <2>2, <3>1 DEF Adds
      <4> QED BY <2>1, <4>1, RisesOn
    <3>3. DOMAIN r[k] = 1..d /\ r[k][d] = s[k] /\ \A j \in 1..c : r[k][j] = r[m][j]
      BY <2>3, <2>4, <2>5, <3>2
    <3>4. ASSUME NEW j \in 1..d PROVE r[k][j] = s[g[j]]
      <4>1. j = d \/ j \in 1..c
        BY <2>3, <3>2
      <4> QED BY <2>1, <3>2, <3>3, <4>1
    <3>5. Chosen(s, r[k], Up(k))
      BY <3>2, <3>3, <3>4 DEF Chosen
    <3> QED BY <2>2, <3>5
  <2>6. CASE k \notin I
    <3>1. Up(k) = Up(m) /\ r[k] = r[m]
      BY <1>3, <2>2, <2>4, <2>6
    <3>2. Chosen(s, r[m], Up(m))
      BY <1>5, <2>0
    <3>3. Chosen(s, r[k], Up(k))
      BY <3>1, <3>2, Zenon
    <3> QED BY <2>2, <3>3
  <2> QED BY <2>5, <2>6
<1>6. T = 0..n
  <2>1. T \subseteq 0..n
    OBVIOUS
  <2> HIDE DEF T
  <2> QED BY <1>4, <1>5, <2>1, EachRound
<1>7. n \in T
  BY <1>1, <1>6
<1>8. Chosen(s, r[n], I)
  BY <1>3, <1>7
<1> QED BY <1>1, <1>2, <1>8

\* Where two enumerations agree before k, none of the two is ahead at k.
LEMMA RisesLess ==
  ASSUME NEW I, I \subseteq Int, NEW h, NEW c, NEW g, NEW d, Rises(h, c, I), Rises(g, d, I),
         NEW k \in 1..c, k \in 1..d, \A l \in 1..(k - 1) : h[l] = g[l], h[k] < g[k]
  PROVE FALSE
<1>0. c \in Nat /\ d \in Nat /\ h[k] \in Int /\ g[k] \in Int /\ h[k] \in I
  BY DEF Rises
<1>1. PICK l \in 1..d : g[l] = h[k]
  BY <1>0 DEF Rises
<1>2. l \in 1..(k - 1)
  <2>1. ~(k < l) /\ k # l
    BY <1>0, <1>1 DEF Rises
  <2> QED BY <1>0, <1>1, <2>1
<1>3. h[l] = h[k] /\ l \in 1..c /\ l < k
  BY <1>0, <1>1, <1>2
<1>4. h[l] < h[k]
  BY <1>3 DEF Rises
<1> QED BY <1>0, <1>3, <1>4

LEMMA RisesShort ==
  ASSUME NEW I, I \subseteq Int, NEW h, NEW c, NEW g, NEW d, Rises(h, c, I), Rises(g, d, I),
         \A k \in 1..c : k <= d => h[k] = g[k]
  PROVE d <= c
<1>0. c \in Nat /\ d \in Nat
  BY DEF Rises
<1>1. ASSUME c < d PROVE FALSE
  <2>1. c + 1 \in 1..d
    BY <1>0, <1>1
  <2>2. g[c + 1] \in I
    BY <2>1 DEF Rises
  <2>3. PICK l \in 1..c : h[l] = g[c + 1]
    BY <2>2 DEF Rises
  <2>4. l \in 1..d /\ l <= d /\ l < c + 1 /\ h[l] = g[l]
    BY <1>0, <1>1, <2>3
  <2>6. g[l] \in Int
    BY <2>2, <2>3, <2>4
  <2>5. g[l] < g[c + 1]
    BY <2>1, <2>4 DEF Rises
  <2> QED BY <2>3, <2>4, <2>5, <2>6
<1> QED BY <1>0, <1>1

\* There is one way to run through numbers in their order.
LEMMA RisesUnique ==
  ASSUME NEW I, I \subseteq Int, NEW h, NEW c, NEW g, NEW d, Rises(h, c, I), Rises(g, d, I)
  PROVE c = d /\ \A k \in 1..c : h[k] = g[k]
<1>0. c \in Nat /\ d \in Nat /\ h \in [1..c -> I] /\ g \in [1..d -> I]
  BY DEF Rises
<1> DEFINE T == {k \in Nat : k \in 1..c /\ k \in 1..d /\ h[k] # g[k]}
<1>1. ASSUME T # {} PROVE FALSE
  <2>1. T \subseteq Nat
    OBVIOUS
  <2>2. PICK k \in T : \A l \in T : k <= l
    <3> HIDE DEF T
    <3> QED BY <1>1, <2>1, LeastNat
  <2>3. k \in 1..c /\ k \in 1..d /\ h[k] # g[k] /\ h[k] \in Int /\ g[k] \in Int
    BY <1>0, <2>2
  <2>4. \A l \in 1..(k - 1) : h[l] = g[l] /\ g[l] = h[l]
    <3> TAKE l \in 1..(k - 1)
    <3>1. l \in Nat /\ l \in 1..c /\ l \in 1..d /\ ~(k <= l)
      BY <1>0, <2>3
    <3> QED BY <2>2, <3>1
  <2>5. h[k] < g[k] \/ g[k] < h[k]
    BY <2>3
  <2> QED BY <2>3, <2>4, <2>5, RisesLess
<1>2. \A k \in 1..c : k <= d => h[k] = g[k]
  BY <1>0, <1>1
<1>3. \A k \in 1..d : k <= c => g[k] = h[k]
  BY <1>0, <1>1
<1>4. d <= c /\ c <= d
  BY <1>2, <1>3, RisesShort
<1> QED BY <1>0, <1>2, <1>4

-----------------------------------------------------------------------------
(* The indexes list the edges. *)

LEMMA ChosenBy ==
  ASSUME NEW s, NEW t, NEW I, NEW h, NEW c, Rises(h, c, I), DOMAIN t = 1..c, \A k \in 1..c : t[k] = s[h[k]]
  PROVE Chosen(s, t, I)
BY DEF Chosen

LEMMA ChosenUnique ==
  ASSUME NEW X, NEW t \in Seq(X), NEW u \in Seq(X), NEW s, NEW I, I \subseteq Int,
         Chosen(s, t, I), Chosen(s, u, I)
  PROVE t = u
<1>1. PICK h, c : Rises(h, c, I) /\ DOMAIN t = 1..c /\ \A k \in 1..c : t[k] = s[h[k]]
  BY DEF Chosen
<1>2. PICK g, d : Rises(g, d, I) /\ DOMAIN u = 1..d /\ \A k \in 1..d : u[k] = s[g[k]]
  BY DEF Chosen
<1>3. c = d /\ \A k \in 1..c : h[k] = g[k]
  <2>1. Rises(h, c, I) /\ Rises(g, d, I)
    BY <1>1, <1>2
  <2> QED BY <2>1, RisesUnique, ZenonT(60)
<1>4. c \in Nat
  BY <1>1 DEF Rises
<1>5. Len(t) = c /\ Len(u) = c /\ \A k \in 1..c : t[k] = u[k]
  BY <1>1, <1>2, <1>3, <1>4
<1> QED BY <1>5

\* t2 is t with y behind it.
Extends(t, y, t2) ==
  \E n \in Nat : /\ DOMAIN t = 1..n /\ DOMAIN t2 = 1..(n + 1) /\ t2[n + 1] = y
                 /\ \A k \in 1..n : t2[k] = t[k]

LEMMA AppendExtends ==
  ASSUME NEW X, NEW t \in Seq(X), NEW y \in X
  PROVE Append(t, y) \in Seq(X) /\ Extends(t, y, Append(t, y))
<1>1. PICK n \in Nat : n = Len(t) /\ DOMAIN t = 1..n
  OBVIOUS
<1>2. /\ DOMAIN Append(t, y) = 1..(n + 1) /\ Append(t, y)[n + 1] = y /\ Append(t, y) \in Seq(X)
      /\ \A k \in 1..n : Append(t, y)[k] = t[k]
  BY <1>1
<1> QED BY <1>1, <1>2 DEF Extends

\* A place more does not matter to what is read at the others.
LEMMA ChosenAlso ==
  ASSUME NEW s, NEW y, NEW s2, Extends(s, y, s2), NEW t, NEW I, I \subseteq DOMAIN s, Chosen(s, t, I)
  PROVE Chosen(s2, t, I)
<1>1. PICK h, c : Rises(h, c, I) /\ DOMAIN t = 1..c /\ \A k \in 1..c : t[k] = s[h[k]]
  BY DEF Chosen
<1>2. ASSUME NEW k \in 1..c PROVE t[k] = s2[h[k]]
  <2>1. h[k] \in DOMAIN s
    BY <1>1 DEF Rises
  <2> QED BY <1>1, <2>1 DEF Extends
<1> QED BY <1>1, <1>2 DEF Chosen

LEMMA ChosenOn ==
  ASSUME NEW s, NEW y, NEW s2, Extends(s, y, s2), NEW t, NEW t2, Extends(t, y, t2),
         NEW I, NEW J, NEW m, Adds(J, I, m), I \subseteq DOMAIN s, m \in DOMAIN s2, m \notin DOMAIN s,
         Chosen(s, t, I)
  PROVE Chosen(s2, t2, J)
<1>1. PICK h, c : Rises(h, c, I) /\ DOMAIN t = 1..c /\ \A k \in 1..c : t[k] = s[h[k]]
  BY DEF Chosen
<1>2. PICK d, g : d \in Nat /\ Rises(g, d, J) /\ d = c + 1 /\ g[d] = m /\ \A k \in 1..c : g[k] = h[k]
  BY <1>1, RisesOn
<1>3. c \in Nat
  BY <1>1 DEF Rises
<1>4. DOMAIN t2 = 1..d /\ t2[d] = y /\ \A k \in 1..c : t2[k] = t[k]
  <2>1. PICK n \in Nat : /\ DOMAIN t = 1..n /\ DOMAIN t2 = 1..(n + 1) /\ t2[n + 1] = y
                         /\ \A k \in 1..n : t2[k] = t[k]
    BY DEF Extends
  <2>2. n = c
    BY <1>1, <1>3, <2>1
  <2> QED BY <1>2, <2>1, <2>2
<1>5. s2[m] = y /\ \A k \in DOMAIN s : s2[k] = s[k]
  BY DEF Extends
<1>6. ASSUME NEW k \in 1..d PROVE t2[k] = s2[g[k]]
  <2>1. CASE k = d
    BY <1>2, <1>4, <1>5, <2>1
  <2>2. CASE k # d
    <3>1. k \in 1..c
      BY <1>2, <1>3, <2>2
    <3>2. h[k] \in DOMAIN s
      BY <1>1, <3>1 DEF Rises
    <3> QED BY <1>1, <1>2, <1>4, <1>5, <3>1, <3>2
  <2> QED BY <2>1, <2>2
<1> QED BY <1>2, <1>4, <1>6 DEF Chosen

\* s2 is what is left of s at the places K, through which e runs.
Thins(s, e, d, K, s2) ==
  Rises(e, d, K) /\ K \subseteq Int /\ DOMAIN s2 = 1..d /\ \A p \in 1..d : s2[p] = s[e[p]]
\* Where the places I are after that.
Back(e, d, I) == {p \in 1..d : e[p] \in I}
\* J keeps of the list t of s at I what K keeps of s.
Agree(s, t, I, J, K) ==
  I \subseteq Int /\ J \subseteq DOMAIN t /\ \A k \in DOMAIN t, i \in I : t[k] = s[i] => (k \in J <=> i \in K)

\* What is picked from a list of s is a list of what is picked from s.
LEMMA ChosenCut ==
  ASSUME NEW s, NEW t, NEW I, Chosen(s, t, I), NEW u, NEW J, Chosen(t, u, J),
         NEW e, NEW d, NEW K, NEW s2, Thins(s, e, d, K, s2), Agree(s, t, I, J, K)
  PROVE Chosen(s2, u, Back(e, d, I))
<1>0. /\ Rises(e, d, K) /\ K \subseteq Int /\ DOMAIN s2 = 1..d /\ \A p \in 1..d : s2[p] = s[e[p]]
      /\ I \subseteq Int /\ J \subseteq DOMAIN t /\ \A k \in DOMAIN t, i \in I : t[k] = s[i] => (k \in J <=> i \in K)
  BY DEF Thins, Agree
<1> DEFINE I2 == Back(e, d, I)
<1>15. I2 = {p \in 1..d : e[p] \in I}
  BY DEF Back
<1> HIDE DEF I2
<1>1. PICK h, c : Rises(h, c, I) /\ DOMAIN t = 1..c /\ \A k \in 1..c : t[k] = s[h[k]]
  BY DEF Chosen
<1>2. PICK g, b : Rises(g, b, J) /\ DOMAIN u = 1..b /\ \A k \in 1..b : u[k] = t[g[k]]
  BY DEF Chosen
<1>3. /\ c \in Nat /\ b \in Nat /\ d \in Nat
      /\ \A k \in 1..c : h[k] \in I /\ h[k] \in Int
      /\ \A k \in 1..b : g[k] \in J /\ g[k] \in 1..c
      /\ \A p \in 1..d : e[p] \in K /\ e[p] \in Int
  BY <1>0, <1>1, <1>2 DEF Rises
<1>4. \A k \in 1..c : k \in J <=> h[k] \in K
  BY <1>0, <1>1, <1>3
<1>5. \A q \in 1..b : \E p \in 1..d : e[p] = h[g[q]]
  BY <1>0, <1>3, <1>4 DEF Rises
<1>6. PICK f : f = [q \in 1..b |-> CHOOSE p \in 1..d : e[p] = h[g[q]]]
  OBVIOUS
<1>7. \A q \in 1..b : f[q] \in 1..d /\ e[f[q]] = h[g[q]]
  BY <1>5, <1>6
<1>8. f \in [1..b -> I2]
  BY <1>15, <1>3, <1>6, <1>7
<1>9. ASSUME NEW p \in I2 PROVE \E q \in 1..b : f[q] = p
  <2>1. p \in 1..d /\ e[p] \in I /\ e[p] \in K
    BY <1>15, <1>3
  <2>2. PICK k \in 1..c : h[k] = e[p]
    BY <1>1, <2>1 DEF Rises
  <2>3. k \in J
    BY <1>4, <2>1, <2>2
  <2>4. PICK q \in 1..b : g[q] = k
    BY <1>2, <2>3 DEF Rises
  <2>5. e[f[q]] = e[p] /\ f[q] \in 1..d
    BY <1>7, <2>2, <2>4
  <2>6. ~(f[q] < p) /\ ~(p < f[q])
    BY <1>0, <1>3, <2>1, <2>5 DEF Rises
  <2> QED BY <1>3, <2>1, <2>5, <2>6
<1>10. ASSUME NEW q \in 1..b, NEW l \in 1..b, q < l PROVE f[q] < f[l]
  <2>1. g[q] < g[l] /\ g[q] \in 1..c /\ g[l] \in 1..c
    BY <1>2, <1>3, <1>10 DEF Rises
  <2>2. h[g[q]] < h[g[l]] /\ h[g[q]] \in Int /\ h[g[l]] \in Int
    BY <1>1, <1>3, <2>1 DEF Rises
  <2>3. e[f[q]] < e[f[l]] /\ f[q] \in 1..d /\ f[l] \in 1..d
    BY <1>7, <2>2
  <2>4. ~(f[l] < f[q]) /\ f[l] # f[q]
    <3>1. f[l] < f[q] => e[f[l]] < e[f[q]]
      BY <1>0, <2>3 DEF Rises
    <3> QED BY <1>3, <2>3, <3>1
  <2>5. f[q] \in Int /\ f[l] \in Int
    BY <1>3, <2>3
  <2> QED BY <2>4, <2>5
<1>11. Rises(f, b, I2)
  BY <1>3, <1>8, <1>9, <1>10 DEF Rises
<1>12. ASSUME NEW q \in 1..b PROVE u[q] = s2[f[q]]
  <2>1. u[q] = t[g[q]] /\ g[q] \in 1..c
    BY <1>2, <1>3
  <2>2. t[g[q]] = s[h[g[q]]]
    BY <1>1, <2>1
  <2>3. f[q] \in 1..d
    BY <1>7
  <2> QED BY <1>0, <1>7, <2>1, <2>2, <2>3
<1>13. DOMAIN u = 1..b /\ \A q \in 1..b : u[q] = s2[f[q]]
  BY <1>2, <1>12
<1>14. Chosen(s2, u, I2)
  BY <1>11, <1>13, ChosenBy
<1> QED BY <1>14 DEF I2

-----------------------------------------------------------------------------
(* The graph that is built. *)

EdgeSet == [source : TaskNames, target : TaskNames]
GraphSet == [nodes : Seq(TaskNames), edges : Seq(EdgeSet),
             adj : [TaskNames -> Seq(TaskNames)], reverse : [TaskNames -> Seq(TaskNames)]]
Sources(E) == [i \in DOMAIN E |-> E[i].source]
Targets(E) == [i \in DOMAIN E |-> E[i].target]
From(E, m) == {i \in DOMAIN E : E[i].source = m}
Into(E, m) == {i \in DOMAIN E : E[i].target = m}
Indexed(g) ==
  \A m \in TaskNames : /\ Chosen(Targets(g.edges), g.adj[m], From(g.edges, m))
                       /\ Chosen(Sources(g.edges), g.reverse[m], Into(g.edges, m))
Joined(g) ==
  \A i \in DOMAIN g.edges : /\ g.edges[i].source \in NodesOf(g) /\ g.edges[i].target \in NodesOf(g)
                            /\ g.edges[i].source # g.edges[i].target
Distinct(s) == \A i, j \in DOMAIN s : s[i] = s[j] => i = j
\* Every node is there once, every edge joins two of them, and the indexes list the edges.
Well(g) == g \in GraphSet /\ Distinct(g.nodes) /\ Joined(g) /\ Indexed(g)

LEMMA EmptyWell == Well(EmptyGraph)
<1> DEFINE g == EmptyGraph
<1>1. /\ g \in GraphSet /\ DOMAIN g.nodes = {} /\ DOMAIN g.edges = {}
      /\ \A m \in TaskNames : g.adj[m] = <<>> /\ g.reverse[m] = <<>>
  BY DEF EmptyGraph, NoAdjacency, GraphSet
<1> HIDE DEF g
<1>2. Distinct(g.nodes) /\ Joined(g)
  BY <1>1 DEF Distinct, Joined
<1>3. PICK h : h = [k \in 1..0 |-> 0]
  OBVIOUS
<1>4. ASSUME NEW s PROVE Chosen(s, <<>>, {})
  <2>1. Rises(h, 0, {})
    BY <1>3 DEF Rises
  <2>2. \A k \in 1..0 : <<>>[k] = s[h[k]]
    OBVIOUS
  <2>3. DOMAIN <<>> = 1..0
    OBVIOUS
  <2> QED BY <2>1, <2>2, <2>3 DEF Chosen
<1>5. Indexed(g)
  <2>1. \A m \in TaskNames : From(g.edges, m) = {} /\ Into(g.edges, m) = {}
    BY <1>1 DEF From, Into
  <2> QED BY <1>1, <1>4, <2>1 DEF Indexed
<1>6. Well(g)
  BY <1>1, <1>2, <1>5 DEF Well
<1> QED BY <1>6 DEF g

LEMMA SeqIs ==
  ASSUME NEW X, NEW t \in Seq(X)
  PROVE \E n \in Nat : n = Len(t) /\ DOMAIN t = 1..n /\ \A k \in 1..n : t[k] \in X
OBVIOUS

LEMMA AppendIs ==
  ASSUME NEW X, NEW t \in Seq(X), NEW y \in X
  PROVE /\ Append(t, y) \in Seq(X) /\ Len(t) \in Nat /\ DOMAIN t = 1..Len(t)
        /\ DOMAIN Append(t, y) = 1..(Len(t) + 1) /\ Append(t, y)[Len(t) + 1] = y
        /\ \A k \in 1..Len(t) : Append(t, y)[k] = t[k]
OBVIOUS

LEMMA GraphTyped ==
  ASSUME NEW g, g \in GraphSet
  PROVE /\ g.nodes \in Seq(TaskNames) /\ g.edges \in Seq(EdgeSet)
        /\ \A m \in TaskNames : g.adj[m] \in Seq(TaskNames) /\ g.reverse[m] \in Seq(TaskNames)
BY DEF GraphSet

LEMMA NodeIn ==
  ASSUME NEW g, NEW n
  PROVE n \in NodesOf(g) <=> \E i \in DOMAIN g.nodes : g.nodes[i] = n
BY DEF NodesOf, ToSet

LEMMA WithNodeWell ==
  ASSUME NEW g, Well(g), NEW n \in TaskNames \ NodesOf(g)
  PROVE Well(WithNode(g, n))
<1> DEFINE w == WithNode(g, n)
<1>1. /\ w \in GraphSet /\ w.nodes = Append(g.nodes, n) /\ w.edges = g.edges
      /\ w.adj = g.adj /\ w.reverse = g.reverse
  <2>1. g \in GraphSet /\ Append(g.nodes, n) \in Seq(TaskNames)
    BY GraphTyped, AppendIs DEF Well
  <2> QED BY <2>1 DEF GraphSet, WithNode
<1> HIDE DEF w
<1>2. PICK c \in Nat : c = Len(g.nodes) /\ DOMAIN g.nodes = 1..c /\ DOMAIN w.nodes = 1..(c + 1) /\ w.nodes[c + 1] = n
                       /\ \A i \in 1..c : w.nodes[i] = g.nodes[i] /\ g.nodes[i] # n
  <2>1. \A i \in DOMAIN g.nodes : g.nodes[i] # n
    BY NodeIn
  <2>2. g.nodes \in Seq(TaskNames)
    BY GraphTyped DEF Well
  <2> QED BY <1>1, <2>1, <2>2, AppendIs
<1>3. Distinct(w.nodes)
  <2>1. ASSUME NEW i \in 1..(c + 1), NEW j \in 1..(c + 1), w.nodes[i] = w.nodes[j] PROVE i = j
    <3>1. (i = c + 1 \/ i \in 1..c) /\ (j = c + 1 \/ j \in 1..c)
      BY <1>2
    <3>2. \A k, l \in 1..c : g.nodes[k] = g.nodes[l] => k = l
      BY <1>2 DEF Well, Distinct
    <3> QED BY <1>2, <2>1, <3>1, <3>2
  <2> QED BY <1>2, <2>1 DEF Distinct
<1>4. NodesOf(g) \subseteq NodesOf(w)
  <2>1. ASSUME NEW m \in NodesOf(g) PROVE m \in NodesOf(w)
    <3>1. PICK i \in 1..c : g.nodes[i] = m
      BY <1>2, NodeIn
    <3>2. i \in 1..(c + 1) /\ w.nodes[i] = m
      BY <1>2, <3>1
    <3> QED BY <1>2, <3>2, NodeIn
  <2> QED BY <2>1
<1>5. Joined(w)
  BY <1>1, <1>4 DEF Well, Joined
<1>6. Indexed(w)
  BY <1>1 DEF Well, Indexed
<1>7. Well(w)
  BY <1>1, <1>3, <1>5, <1>6 DEF Well
<1> QED BY <1>7 DEF w

LEMMA WithEdgeTyped ==
  ASSUME NEW g \in GraphSet, NEW e \in EdgeSet
  PROVE /\ WithEdge(g, e) \in GraphSet
        /\ WithEdge(g, e).nodes = g.nodes /\ WithEdge(g, e).edges = Append(g.edges, e)
        /\ \A m \in TaskNames :
             /\ WithEdge(g, e).adj[m] = IF m = e.source THEN Append(g.adj[m], e.target) ELSE g.adj[m]
             /\ WithEdge(g, e).reverse[m] = IF m = e.target THEN Append(g.reverse[m], e.source) ELSE g.reverse[m]
<1>1. e.source \in TaskNames /\ e.target \in TaskNames
  BY DEF EdgeSet
<1>2. Append(g.edges, e) \in Seq(EdgeSet)
  BY DEF GraphSet
<1>3. Append(g.adj[e.source], e.target) \in Seq(TaskNames) /\ Append(g.reverse[e.target], e.source) \in Seq(TaskNames)
  BY <1>1 DEF GraphSet
<1> QED BY <1>1, <1>2, <1>3 DEF WithEdge, GraphSet

LEMMA WithEdgeWell ==
  ASSUME NEW g, Well(g), NEW e \in EdgeSet, e.source \in NodesOf(g), e.target \in NodesOf(g), e.source # e.target
  PROVE Well(WithEdge(g, e))
<1> DEFINE w == WithEdge(g, e)
<1>1. /\ w \in GraphSet /\ w.nodes = g.nodes /\ w.edges = Append(g.edges, e)
      /\ \A m \in TaskNames :
           /\ w.adj[m] = IF m = e.source THEN Append(g.adj[m], e.target) ELSE g.adj[m]
           /\ w.reverse[m] = IF m = e.target THEN Append(g.reverse[m], e.source) ELSE g.reverse[m]
  BY WithEdgeTyped DEF Well
<1> HIDE DEF w
<1>2. PICK c \in Nat : c = Len(g.edges) /\ DOMAIN g.edges = 1..c /\ DOMAIN w.edges = 1..(c + 1)
                       /\ w.edges[c + 1] = e /\ \A i \in 1..c : w.edges[i] = g.edges[i]
  <2>1. g.edges \in Seq(EdgeSet)
    BY GraphTyped DEF Well
  <2> QED BY <1>1, <2>1, AppendIs
<1>3. NodesOf(w) = NodesOf(g) /\ Distinct(w.nodes)
  BY <1>1 DEF Well, NodesOf
<1>4. Joined(w)
  <2>1. ASSUME NEW i \in 1..(c + 1)
        PROVE /\ w.edges[i].source \in NodesOf(w) /\ w.edges[i].target \in NodesOf(w)
              /\ w.edges[i].source # w.edges[i].target
    <3>1. i = c + 1 \/ i \in 1..c
      BY <1>2
    <3> QED BY <1>2, <1>3, <3>1 DEF Well, Joined
  <2> QED BY <1>2, <2>1 DEF Joined
<1>5. Extends(Sources(g.edges), e.source, Sources(w.edges)) /\ Extends(Targets(g.edges), e.target, Targets(w.edges))
  <2>1. \A i \in 1..c : i \in 1..(c + 1)
    BY <1>2
  <2>2. /\ DOMAIN Sources(g.edges) = 1..c /\ DOMAIN Targets(g.edges) = 1..c
        /\ DOMAIN Sources(w.edges) = 1..(c + 1) /\ DOMAIN Targets(w.edges) = 1..(c + 1)
        /\ Sources(w.edges)[c + 1] = e.source /\ Targets(w.edges)[c + 1] = e.target
        /\ \A i \in 1..c : Sources(w.edges)[i] = Sources(g.edges)[i] /\ Targets(w.edges)[i] = Targets(g.edges)[i]
    BY <1>2, <2>1 DEF Sources, Targets
  <2> QED BY <2>2 DEF Extends
<1>6. DOMAIN Sources(g.edges) = 1..c /\ DOMAIN Targets(g.edges) = 1..c
      /\ DOMAIN Sources(w.edges) = 1..(c + 1) /\ DOMAIN Targets(w.edges) = 1..(c + 1)
  BY <1>2 DEF Sources, Targets
<1>7. c + 1 \in 1..(c + 1) /\ c + 1 \notin 1..c /\ e.source \in TaskNames /\ e.target \in TaskNames
  BY <1>2 DEF EdgeSet
<1>8. ASSUME NEW m \in TaskNames PROVE Chosen(Targets(w.edges), w.adj[m], From(w.edges, m))
  <2>1. Chosen(Targets(g.edges), g.adj[m], From(g.edges, m)) /\ From(g.edges, m) \subseteq 1..c
    BY <1>2 DEF Well, Indexed, From
  <2>2. CASE m = e.source
    <3>1. Adds(From(w.edges, m), From(g.edges, m), c + 1)
      BY <1>2, <2>2 DEF Adds, From
    <3>2. w.adj[m] = Append(g.adj[m], e.target) /\ g.adj[m] \in Seq(TaskNames)
      BY <1>1, <2>2 DEF Well, GraphSet
    <3>3. Extends(g.adj[m], e.target, w.adj[m])
      BY <1>7, <3>2, AppendExtends
    <3> QED BY <1>5, <1>6, <1>7, <2>1, <3>1, <3>3, ChosenOn
  <2>3. CASE m # e.source
    <3>1. From(w.edges, m) = From(g.edges, m)
      BY <1>2, <2>3 DEF From
    <3>2. w.adj[m] = g.adj[m]
      BY <1>1, <2>3
    <3> QED BY <1>5, <1>6, <2>1, <3>1, <3>2, ChosenAlso
  <2> QED BY <2>2, <2>3
<1>9. ASSUME NEW m \in TaskNames PROVE Chosen(Sources(w.edges), w.reverse[m], Into(w.edges, m))
  <2>1. Chosen(Sources(g.edges), g.reverse[m], Into(g.edges, m)) /\ Into(g.edges, m) \subseteq 1..c
    BY <1>2 DEF Well, Indexed, Into
  <2>2. CASE m = e.target
    <3>1. Adds(Into(w.edges, m), Into(g.edges, m), c + 1)
      BY <1>2, <2>2 DEF Adds, Into
    <3>2. w.reverse[m] = Append(g.reverse[m], e.source) /\ g.reverse[m] \in Seq(TaskNames)
      BY <1>1, <2>2 DEF Well, GraphSet
    <3>3. Extends(g.reverse[m], e.source, w.reverse[m])
      BY <1>7, <3>2, AppendExtends
    <3> QED BY <1>5, <1>6, <1>7, <2>1, <3>1, <3>3, ChosenOn
  <2>3. CASE m # e.target
    <3>1. Into(w.edges, m) = Into(g.edges, m)
      BY <1>2, <2>3 DEF Into
    <3>2. w.reverse[m] = g.reverse[m]
      BY <1>1, <2>3
    <3> QED BY <1>5, <1>6, <2>1, <3>1, <3>2, ChosenAlso
  <2> QED BY <2>2, <2>3
<1>10. Well(w)
  BY <1>1, <1>3, <1>4, <1>8, <1>9 DEF Well, Indexed
<1> QED BY <1>10 DEF w

LEMMA ChosenMembers ==
  ASSUME NEW s, NEW t, NEW I, Chosen(s, t, I), NEW x
  PROVE (\E k \in DOMAIN t : t[k] = x) <=> \E i \in I : s[i] = x
<1>1. PICK h, c : Rises(h, c, I) /\ DOMAIN t = 1..c /\ \A k \in 1..c : t[k] = s[h[k]]
  BY DEF Chosen
<1>2. ASSUME NEW k \in DOMAIN t, t[k] = x PROVE \E i \in I : s[i] = x
  <2>1. h[k] \in I
    BY <1>1 DEF Rises
  <2> QED BY <1>1, <1>2, <2>1
<1>3. ASSUME NEW i \in I, s[i] = x PROVE \E k \in DOMAIN t : t[k] = x
  <2>1. PICK k \in 1..c : h[k] = i
    BY <1>1 DEF Rises
  <2> QED BY <1>1, <1>3, <2>1
<1> QED BY <1>2, <1>3

LEMMA ChosenDistinct ==
  ASSUME NEW s, NEW t, NEW I, I \subseteq DOMAIN s, I \subseteq Int, Chosen(s, t, I), Distinct(s)
  PROVE Distinct(t)
<1>1. PICK h, c : Rises(h, c, I) /\ DOMAIN t = 1..c /\ \A k \in 1..c : t[k] = s[h[k]]
  BY DEF Chosen
<1>2. ASSUME NEW k \in 1..c, NEW l \in 1..c, t[k] = t[l] PROVE k = l
  <2>1. c \in Nat /\ h[k] \in I /\ h[l] \in I
    BY <1>1 DEF Rises
  <2>2. h[k] = h[l]
    BY <1>1, <1>2, <2>1 DEF Distinct
  <2>3. ~(k < l) /\ ~(l < k)
    <3>1. (k < l => h[k] < h[l]) /\ (l < k => h[l] < h[k])
      BY <1>1 DEF Rises
    <3> QED BY <2>1, <2>2, <3>1
  <2> QED BY <2>1, <2>3
<1> QED BY <1>1, <1>2 DEF Distinct

Uncut(E, n) == {i \in DOMAIN E : n \notin {E[i].source, E[i].target}}
CutGraph(g, n) ==
  [nodes |-> Without(g.nodes, n), edges |-> Picked(g.edges, Uncut(g.edges, n)),
   adj |-> Cut(g.adj, n), reverse |-> Cut(g.reverse, n)]

\* The places at which t has something else than n.
Others(t, n) == {k \in DOMAIN t : t[k] # n}

LEMMA WithoutIs ==
  ASSUME NEW X, NEW t \in Seq(X), NEW n
  PROVE Without(t, n) \in Seq(X) /\ Others(t, n) \subseteq DOMAIN t /\ Chosen(t, Without(t, n), Others(t, n))
<1>1. Others(t, n) \subseteq DOMAIN t
  BY DEF Others
<1>2. Without(t, n) = Picked(t, Others(t, n))
  BY DEF Without, Others
<1> QED BY <1>1, <1>2, PickedIs

\* The places at which a has n.
At(a, n) == {i \in DOMAIN a : a[i] = n}
\* The places at which neither a nor s has n.
Apart(a, s, n) == {i \in DOMAIN a : a[i] # n /\ s[i] # n}

LEMMA EmptyChosen ==
  ASSUME NEW s, NEW I, I = {}
  PROVE Chosen(s, <<>>, I)
<1>1. PICK h : h = [k \in 1..0 |-> 0]
  OBVIOUS
<1>2. Rises(h, 0, I)
  BY <1>1 DEF Rises
<1>3. (\A k \in 1..0 : <<>>[k] = s[h[k]]) /\ DOMAIN <<>> = 1..0
  OBVIOUS
<1> QED BY <1>2, <1>3, ChosenBy

\* One of the two indexes after a node is taken out: s are the ends that the lists hold, at the places where
\* the other end, a, is the node of the list.
LEMMA CutLists ==
  ASSUME NEW a, NEW s, NEW b \in Nat, DOMAIN a = 1..b, DOMAIN s = 1..b, NEW n \in TaskNames, NEW e, NEW d, NEW a2, NEW s2,
         Thins(a, e, d, Apart(a, s, n), a2), Thins(s, e, d, Apart(a, s, n), s2),
         NEW index \in [TaskNames -> Seq(TaskNames)],
         NEW m \in TaskNames, Chosen(s, index[m], At(a, m))
  PROVE Cut(index, n)[m] \in Seq(TaskNames) /\ Chosen(s2, Cut(index, n)[m], At(a2, m))
<1> DEFINE K == Apart(a, s, n)
<1>1. /\ d \in Nat /\ DOMAIN a2 = 1..d
      /\ \A p \in 1..d : e[p] \in K /\ e[p] \in 1..b /\ a[e[p]] # n /\ a2[p] = a[e[p]]
  BY DEF Thins, Rises, Apart
<1>2. CASE m = n
  <2>1. Cut(index, n)[m] = <<>>
    BY <1>2 DEF Cut
  <2>2. At(a2, m) = {}
    BY <1>1, <1>2 DEF At
  <2>3. Chosen(s2, <<>>, At(a2, m))
    BY <2>2, EmptyChosen
  <2> QED BY <2>1, <2>3
<1>3. CASE m # n
  <2> DEFINE t == index[m]
             J == Others(t, n)
             u == Cut(index, n)[m]
  <2>1. u = Without(t, n) /\ t \in Seq(TaskNames)
    BY <1>3 DEF Cut
  <2>2. u \in Seq(TaskNames) /\ Chosen(t, u, J)
    BY <2>1, WithoutIs
  <2>3. Agree(s, t, At(a, m), J, K)
    BY <1>3 DEF Agree, At, Apart, Others
  <2>4. Back(e, d, At(a, m)) = At(a2, m)
    BY <1>1 DEF Back, At
  <2>5. Chosen(s2, u, Back(e, d, At(a, m)))
    <3>1. Chosen(s, t, At(a, m)) /\ Thins(s, e, d, K, s2)
      OBVIOUS
    <3> HIDE DEF u, J, t, K
    <3> QED BY <2>2, <2>3, <3>1, ChosenCut
  <2> QED BY <2>2, <2>4, <2>5
<1> QED BY <1>2, <1>3

LEMMA CutWell ==
  ASSUME NEW g, Well(g), NEW n \in TaskNames
  PROVE Well(CutGraph(g, n))
<1> DEFINE w == CutGraph(g, n)
           E == g.edges
           K == Uncut(E, n)
<1>1. /\ g.nodes \in Seq(TaskNames) /\ E \in Seq(EdgeSet)
      /\ g.adj \in [TaskNames -> Seq(TaskNames)] /\ g.reverse \in [TaskNames -> Seq(TaskNames)]
  BY DEF Well, GraphSet
<1>2. PICK b \in Nat : DOMAIN E = 1..b /\ \A i \in 1..b : E[i] \in EdgeSet
  BY <1>1, SeqIs
<1>3. w.edges \in Seq(EdgeSet) /\ Chosen(E, w.edges, K) /\ K \subseteq 1..b
  <2>1. K \subseteq DOMAIN E
    BY DEF Uncut
  <2> QED BY <1>1, <1>2, <2>1, PickedIs DEF CutGraph
<1>4. /\ w.nodes \in Seq(TaskNames) /\ Chosen(g.nodes, w.nodes, Others(g.nodes, n))
      /\ Others(g.nodes, n) \subseteq DOMAIN g.nodes
  <2>1. w.nodes = Without(g.nodes, n)
    BY DEF CutGraph
  <2> HIDE DEF w
  <2> QED BY <1>1, <2>1, WithoutIs
<1>5. Distinct(w.nodes)
  <2>1. Others(g.nodes, n) \subseteq Int
    BY <1>1 DEF Others
  <2>2. Distinct(g.nodes)
    BY DEF Well
  <2> HIDE DEF w
  <2> QED BY <1>4, <2>1, <2>2, ChosenDistinct
<1>6. \A m : m \in NodesOf(w) <=> m \in NodesOf(g) /\ m # n
  <2> TAKE m
  <2>1. m \in NodesOf(w) <=> \E k \in DOMAIN w.nodes : w.nodes[k] = m
    BY NodeIn
  <2>2. m \in NodesOf(g) <=> \E k \in DOMAIN g.nodes : g.nodes[k] = m
    BY NodeIn
  <2>3. (\E k \in DOMAIN w.nodes : w.nodes[k] = m) <=> \E k \in Others(g.nodes, n) : g.nodes[k] = m
    <3> DEFINE I == Others(g.nodes, n)
    <3>1. Chosen(g.nodes, w.nodes, I)
      BY <1>4
    <3> HIDE DEF w, I
    <3>2. (\E k \in DOMAIN w.nodes : w.nodes[k] = m) <=> \E k \in I : g.nodes[k] = m
      BY <3>1, ChosenMembers
    <3> QED BY <3>2 DEF I, Others
  <2> HIDE DEF w
  <2> QED BY <2>1, <2>2, <2>3 DEF Others
<1>7. w.adj = Cut(g.adj, n) /\ w.reverse = Cut(g.reverse, n)
  BY DEF CutGraph
<1> HIDE DEF w, E, K
<1>8. PICK e, d : Rises(e, d, K) /\ DOMAIN w.edges = 1..d /\ \A p \in 1..d : w.edges[p] = E[e[p]]
  BY <1>3 DEF Chosen
<1>9. d \in Nat /\ \A p \in 1..d : e[p] \in K /\ e[p] \in 1..b
  BY <1>3, <1>8 DEF Rises
<1>10. \A i \in 1..b : i \in K <=> E[i].source # n /\ E[i].target # n
  BY <1>2 DEF K, Uncut
<1>11. Joined(w)
  <2>1. ASSUME NEW p \in 1..d
        PROVE /\ w.edges[p].source \in NodesOf(w) /\ w.edges[p].target \in NodesOf(w)
              /\ w.edges[p].source # w.edges[p].target
    <3>1. w.edges[p] = E[e[p]] /\ e[p] \in 1..b /\ E[e[p]].source # n /\ E[e[p]].target # n
      BY <1>8, <1>9, <1>10
    <3>2. /\ E[e[p]].source \in NodesOf(g) /\ E[e[p]].target \in NodesOf(g)
          /\ E[e[p]].source # E[e[p]].target
      BY <1>2, <3>1 DEF Well, Joined, E
    <3> QED BY <1>6, <3>1, <3>2
  <2> QED BY <1>8, <2>1 DEF Joined
<1>12. /\ DOMAIN Sources(E) = 1..b /\ DOMAIN Targets(E) = 1..b
       /\ DOMAIN Sources(w.edges) = 1..d /\ DOMAIN Targets(w.edges) = 1..d
       /\ \A i \in 1..b : Sources(E)[i] = E[i].source /\ Targets(E)[i] = E[i].target
       /\ \A p \in 1..d : Sources(w.edges)[p] = Sources(E)[e[p]] /\ Targets(w.edges)[p] = Targets(E)[e[p]]
  BY <1>2, <1>8, <1>9 DEF Sources, Targets
<1>13. /\ K = Apart(Sources(E), Targets(E), n) /\ K = Apart(Targets(E), Sources(E), n) /\ K \subseteq Int
       /\ Thins(Sources(E), e, d, K, Sources(w.edges)) /\ Thins(Targets(E), e, d, K, Targets(w.edges))
  <2>1. K = Apart(Sources(E), Targets(E), n) /\ K = Apart(Targets(E), Sources(E), n) /\ K \subseteq Int
    <3>1. \A i : i \in K <=> i \in 1..b /\ Sources(E)[i] # n /\ Targets(E)[i] # n
      BY <1>3, <1>10, <1>12
    <3>2. K = Apart(Sources(E), Targets(E), n)
      BY <1>12, <3>1 DEF Apart
    <3>3. K = Apart(Targets(E), Sources(E), n)
      BY <1>12, <3>1 DEF Apart
    <3> QED BY <3>1, <3>2, <3>3
  <2> QED BY <1>8, <1>12, <2>1 DEF Thins
<1>17. /\ Thins(Sources(E), e, d, Apart(Sources(E), Targets(E), n), Sources(w.edges))
       /\ Thins(Targets(E), e, d, Apart(Sources(E), Targets(E), n), Targets(w.edges))
       /\ Thins(Targets(E), e, d, Apart(Targets(E), Sources(E), n), Targets(w.edges))
       /\ Thins(Sources(E), e, d, Apart(Targets(E), Sources(E), n), Sources(w.edges))
  BY <1>13
<1>14. ASSUME NEW m \in TaskNames
       PROVE /\ w.adj[m] \in Seq(TaskNames) /\ Chosen(Targets(w.edges), w.adj[m], From(w.edges, m))
             /\ w.reverse[m] \in Seq(TaskNames) /\ Chosen(Sources(w.edges), w.reverse[m], Into(w.edges, m))
  <2>1. \A D : From(D, m) = At(Sources(D), m) /\ Into(D, m) = At(Targets(D), m)
    BY DEF From, Into, At, Sources, Targets
  <2>2. Chosen(Targets(E), g.adj[m], At(Sources(E), m)) /\ Chosen(Sources(E), g.reverse[m], At(Targets(E), m))
    BY <2>1 DEF Well, Indexed, E
  <2>3. /\ Cut(g.adj, n)[m] \in Seq(TaskNames)
        /\ Chosen(Targets(w.edges), Cut(g.adj, n)[m], At(Sources(w.edges), m))
    BY <1>1, <1>2, <1>12, <1>17, <2>2, CutLists, ZenonT(60)
  <2>4. /\ Cut(g.reverse, n)[m] \in Seq(TaskNames)
        /\ Chosen(Sources(w.edges), Cut(g.reverse, n)[m], At(Targets(w.edges), m))
    BY <1>1, <1>2, <1>12, <1>17, <2>2, CutLists, ZenonT(60)
  <2> QED BY <1>7, <2>1, <2>3, <2>4
<1>15. w \in GraphSet
  <2>1. w = [nodes |-> w.nodes, edges |-> w.edges, adj |-> w.adj, reverse |-> w.reverse]
    BY DEF w, CutGraph
  <2>2. w.adj \in [TaskNames -> Seq(TaskNames)] /\ w.reverse \in [TaskNames -> Seq(TaskNames)]
    BY <1>7, <1>14 DEF Cut
  <2> QED BY <1>3, <1>4, <2>1, <2>2 DEF GraphSet
<1>16. Well(w)
  BY <1>5, <1>11, <1>14, <1>15 DEF Well, Indexed
<1> QED BY <1>16 DEF w

-----------------------------------------------------------------------------
(* What is read back is the graph. *)

Named(data) ==
  LET Name(g, k) == WithNode(g, data.nodes[k].id)
  IN Looped(EmptyGraph, Len(data.nodes), Name)
Linked(start, data) ==
  LET Link(g, k) == WithEdge(g, data.edges[k])
  IN Looped(start, Len(data.edges), Link)
Completed(start, data) ==
  LET Complete(g, k) == WithDependencies(g, data.nodes[k])
  IN Looped(start, Len(data.nodes), Complete)

LEMMA ReadBackIs ==
  ASSUME NEW data
  PROVE ReadBack(data) = Completed(Linked(Named(data), data), data)
BY DEF ReadBack, Completed, Linked, Named, Looped

LEMMA WithNodeTyped ==
  ASSUME NEW g \in GraphSet, NEW n \in TaskNames
  PROVE WithNode(g, n) \in GraphSet
<1>1. Append(g.nodes, n) \in Seq(TaskNames)
  BY GraphTyped, AppendIs
<1> QED BY <1>1 DEF GraphSet, WithNode

\* The rounds that add the nodes.
LEMMA NamedGoes ==
  ASSUME NEW data, Len(data.nodes) \in Nat, \A k \in 1..Len(data.nodes) : data.nodes[k].id \in TaskNames
  PROVE \E r \in [0..Len(data.nodes) -> GraphSet] :
           r[0] = EmptyGraph /\ r[Len(data.nodes)] = Named(data) /\ \A k \in 1..Len(data.nodes) : r[k] = WithNode(r[k - 1], data.nodes[k].id)
<1> DEFINE Round(t, k) == WithNode(t, data.nodes[k].id)
           count == Len(data.nodes)
           s0 == EmptyGraph
           S == GraphSet
<1>1. PICK F : F = [k \in 1..count |-> [t \in S |-> Round(t, k)]]
  OBVIOUS
<1>3. s0 \in S /\ count \in Nat /\ \A t \in S, k \in 1..count : Round(t, k) \in S
  <2>1. EmptyGraph \in GraphSet
    BY EmptyWell DEF Well
  <2> QED BY <2>1, WithNodeTyped
<1> DEFINE Solves(r) == r = [k \in 0..count |-> IF k = 0 THEN s0 ELSE Round(r[k - 1], k)]
           Goes(r) == r \in [0..count -> S] /\ r[0] = s0 /\ \A k \in 1..count : r[k] = Round(r[k - 1], k)
<1>4. Named(data) = (CHOOSE r : Solves(r))[count]
  BY DEF Named, Looped
<1> HIDE DEF count, s0, S, Round
<1>2. \A k \in 1..count, t \in S : F[k][t] = Round(t, k) /\ F[k][t] \in S
  BY <1>1, <1>3
<1>5. \E r : Solves(r)
  <2>1. PICK r \in [0..count -> S] : r[0] = s0 /\ \A k \in 1..count : r[k] = F[k][r[k - 1]]
    <3>1. Rounds(count, S, s0, F)
      BY <1>2, <1>3 DEF Rounds
    <3> QED BY <3>1, CourseExists DEF Course
  <2>2. ASSUME NEW k \in 0..count PROVE r[k] = IF k = 0 THEN s0 ELSE Round(r[k - 1], k)
    <3>1. CASE k = 0
      BY <2>1, <3>1
    <3>2. CASE k # 0
      <4>1. k \in 1..count /\ k - 1 \in 0..count
        BY <1>3, <3>2
      <4>2. r[k] = F[k][r[k - 1]] /\ r[k - 1] \in S
        BY <2>1, <4>1
      <4> QED BY <1>2, <3>2, <4>1, <4>2
    <3> QED BY <3>1, <3>2
  <2>3. Solves(r)
    BY <2>1, <2>2
  <2> QED BY <2>3
<1>6. ASSUME NEW r, Solves(r) PROVE Goes(r)
  <2>1. DOMAIN r = 0..count /\ \A k \in 0..count : r[k] = IF k = 0 THEN s0 ELSE Round(r[k - 1], k)
    BY <1>6
  <2>2. r[0] = s0 /\ \A k \in 1..count : r[k] = Round(r[k - 1], k)
    <3>1. count \in Nat
      BY <1>3
    <3> QED BY <2>1, <3>1
  <2> DEFINE T == {k \in 0..count : r[k] \in S}
  <2>3. T \subseteq 0..count /\ 0 \in T
    BY <1>3, <2>2
  <2>4. ASSUME NEW k \in 1..count, k - 1 \in T PROVE k \in T
    BY <1>3, <2>2, <2>4
  <2>5. T = 0..count
    <3> HIDE DEF T
    <3> QED BY <1>3, <2>3, <2>4, EachRound
  <2>6. \A k \in 0..count : r[k] \in S
    BY <2>5
  <2>7. r \in [0..count -> S]
    BY <1>6, <2>6
  <2> QED BY <2>2, <2>7
<1> DEFINE c == CHOOSE r : Solves(r)
<1>7. Goes(c)
  <2>1. Solves(c)
    <3> HIDE DEF Solves
    <3> QED BY <1>5
  <2> HIDE DEF c, Solves, Goes
  <2> QED BY <1>6, <2>1
<1> HIDE DEF c
<1>8. c \in [0..count -> S] /\ c[0] = s0 /\ c[count] = Named(data) /\ \A k \in 1..count : c[k] = Round(c[k - 1], k)
  BY <1>4, <1>7 DEF c
<1>9. \E r \in [0..count -> S] :
         r[0] = s0 /\ r[count] = Named(data) /\ \A k \in 1..count : r[k] = Round(r[k - 1], k)
  BY <1>8
<1> QED BY <1>9 DEF count, s0, S, Round

\* The rounds that add the edges.
LEMMA LinkedGoes ==
  ASSUME NEW start \in GraphSet, NEW data, Len(data.edges) \in Nat, \A k \in 1..Len(data.edges) : data.edges[k] \in EdgeSet
  PROVE \E r \in [0..Len(data.edges) -> GraphSet] :
           r[0] = start /\ r[Len(data.edges)] = Linked(start, data) /\ \A k \in 1..Len(data.edges) : r[k] = WithEdge(r[k - 1], data.edges[k])
<1> DEFINE Round(t, k) == WithEdge(t, data.edges[k])
           count == Len(data.edges)
           s0 == start
           S == GraphSet
<1>1. PICK F : F = [k \in 1..count |-> [t \in S |-> Round(t, k)]]
  OBVIOUS
<1>3. s0 \in S /\ count \in Nat /\ \A t \in S, k \in 1..count : Round(t, k) \in S
  BY WithEdgeTyped
<1> DEFINE Solves(r) == r = [k \in 0..count |-> IF k = 0 THEN s0 ELSE Round(r[k - 1], k)]
           Goes(r) == r \in [0..count -> S] /\ r[0] = s0 /\ \A k \in 1..count : r[k] = Round(r[k - 1], k)
<1>4. Linked(start, data) = (CHOOSE r : Solves(r))[count]
  BY DEF Linked, Looped
<1> HIDE DEF count, s0, S, Round
<1>2. \A k \in 1..count, t \in S : F[k][t] = Round(t, k) /\ F[k][t] \in S
  BY <1>1, <1>3
<1>5. \E r : Solves(r)
  <2>1. PICK r \in [0..count -> S] : r[0] = s0 /\ \A k \in 1..count : r[k] = F[k][r[k - 1]]
    <3>1. Rounds(count, S, s0, F)
      BY <1>2, <1>3 DEF Rounds
    <3> QED BY <3>1, CourseExists DEF Course
  <2>2. ASSUME NEW k \in 0..count PROVE r[k] = IF k = 0 THEN s0 ELSE Round(r[k - 1], k)
    <3>1. CASE k = 0
      BY <2>1, <3>1
    <3>2. CASE k # 0
      <4>1. k \in 1..count /\ k - 1 \in 0..count
        BY <1>3, <3>2
      <4>2. r[k] = F[k][r[k - 1]] /\ r[k - 1] \in S
        BY <2>1, <4>1
      <4> QED BY <1>2, <3>2, <4>1, <4>2
    <3> QED BY <3>1, <3>2
  <2>3. Solves(r)
    BY <2>1, <2>2
  <2> QED BY <2>3
<1>6. ASSUME NEW r, Solves(r) PROVE Goes(r)
  <2>1. DOMAIN r = 0..count /\ \A k \in 0..count : r[k] = IF k = 0 THEN s0 ELSE Round(r[k - 1], k)
    BY <1>6
  <2>2. r[0] = s0 /\ \A k \in 1..count : r[k] = Round(r[k - 1], k)
    <3>1. count \in Nat
      BY <1>3
    <3> QED BY <2>1, <3>1
  <2> DEFINE T == {k \in 0..count : r[k] \in S}
  <2>3. T \subseteq 0..count /\ 0 \in T
    BY <1>3, <2>2
  <2>4. ASSUME NEW k \in 1..count, k - 1 \in T PROVE k \in T
    BY <1>3, <2>2, <2>4
  <2>5. T = 0..count
    <3> HIDE DEF T
    <3> QED BY <1>3, <2>3, <2>4, EachRound
  <2>6. \A k \in 0..count : r[k] \in S
    BY <2>5
  <2>7. r \in [0..count -> S]
    BY <1>6, <2>6
  <2> QED BY <2>2, <2>7
<1> DEFINE c == CHOOSE r : Solves(r)
<1>7. Goes(c)
  <2>1. Solves(c)
    <3> HIDE DEF Solves
    <3> QED BY <1>5
  <2> HIDE DEF c, Solves, Goes
  <2> QED BY <1>6, <2>1
<1> HIDE DEF c
<1>8. c \in [0..count -> S] /\ c[0] = s0 /\ c[count] = Linked(start, data) /\ \A k \in 1..count : c[k] = Round(c[k - 1], k)
  BY <1>4, <1>7 DEF c
<1>9. \E r \in [0..count -> S] :
         r[0] = s0 /\ r[count] = Linked(start, data) /\ \A k \in 1..count : r[k] = Round(r[k - 1], k)
  BY <1>8
<1> QED BY <1>9 DEF count, s0, S, Round

\* The rounds that complete the edges of a node add none where all are there.
LEMMA DependGoes ==
  ASSUME NEW g, NEW n, Len(n.deps) \in Nat, \A j \in 1..Len(n.deps) : WithDependency(g, [source |-> n.deps[j], target |-> n.id]) = g
  PROVE \E r \in [0..Len(n.deps) -> {g}] :
           r[0] = g /\ r[Len(n.deps)] = WithDependencies(g, n) /\ \A k \in 1..Len(n.deps) : r[k] = WithDependency(r[k - 1], [source |-> n.deps[k], target |-> n.id])
<1> DEFINE Round(t, k) == WithDependency(t, [source |-> n.deps[k], target |-> n.id])
           count == Len(n.deps)
           s0 == g
           S == {g}
<1>1. PICK F : F = [k \in 1..count |-> [t \in S |-> Round(t, k)]]
  OBVIOUS
<1>3. s0 \in S /\ count \in Nat /\ \A t \in S, k \in 1..count : Round(t, k) \in S
  OBVIOUS
<1> DEFINE Solves(r) == r = [k \in 0..count |-> IF k = 0 THEN s0 ELSE Round(r[k - 1], k)]
           Goes(r) == r \in [0..count -> S] /\ r[0] = s0 /\ \A k \in 1..count : r[k] = Round(r[k - 1], k)
<1>4. WithDependencies(g, n) = (CHOOSE r : Solves(r))[count]
  BY DEF WithDependencies, Looped
<1> HIDE DEF count, s0, S, Round
<1>2. \A k \in 1..count, t \in S : F[k][t] = Round(t, k) /\ F[k][t] \in S
  BY <1>1, <1>3
<1>5. \E r : Solves(r)
  <2>1. PICK r \in [0..count -> S] : r[0] = s0 /\ \A k \in 1..count : r[k] = F[k][r[k - 1]]
    <3>1. Rounds(count, S, s0, F)
      BY <1>2, <1>3 DEF Rounds
    <3> QED BY <3>1, CourseExists DEF Course
  <2>2. ASSUME NEW k \in 0..count PROVE r[k] = IF k = 0 THEN s0 ELSE Round(r[k - 1], k)
    <3>1. CASE k = 0
      BY <2>1, <3>1
    <3>2. CASE k # 0
      <4>1. k \in 1..count /\ k - 1 \in 0..count
        BY <1>3, <3>2
      <4>2. r[k] = F[k][r[k - 1]] /\ r[k - 1] \in S
        BY <2>1, <4>1
      <4> QED BY <1>2, <3>2, <4>1, <4>2
    <3> QED BY <3>1, <3>2
  <2>3. Solves(r)
    BY <2>1, <2>2
  <2> QED BY <2>3
<1>6. ASSUME NEW r, Solves(r) PROVE Goes(r)
  <2>1. DOMAIN r = 0..count /\ \A k \in 0..count : r[k] = IF k = 0 THEN s0 ELSE Round(r[k - 1], k)
    BY <1>6
  <2>2. r[0] = s0 /\ \A k \in 1..count : r[k] = Round(r[k - 1], k)
    <3>1. count \in Nat
      BY <1>3
    <3> QED BY <2>1, <3>1
  <2> DEFINE T == {k \in 0..count : r[k] \in S}
  <2>3. T \subseteq 0..count /\ 0 \in T
    BY <1>3, <2>2
  <2>4. ASSUME NEW k \in 1..count, k - 1 \in T PROVE k \in T
    BY <1>3, <2>2, <2>4
  <2>5. T = 0..count
    <3> HIDE DEF T
    <3> QED BY <1>3, <2>3, <2>4, EachRound
  <2>6. \A k \in 0..count : r[k] \in S
    BY <2>5
  <2>7. r \in [0..count -> S]
    BY <1>6, <2>6
  <2> QED BY <2>2, <2>7
<1> DEFINE c == CHOOSE r : Solves(r)
<1>7. Goes(c)
  <2>1. Solves(c)
    <3> HIDE DEF Solves
    <3> QED BY <1>5
  <2> HIDE DEF c, Solves, Goes
  <2> QED BY <1>6, <2>1
<1> HIDE DEF c
<1>8. c \in [0..count -> S] /\ c[0] = s0 /\ c[count] = WithDependencies(g, n) /\ \A k \in 1..count : c[k] = Round(c[k - 1], k)
  BY <1>4, <1>7 DEF c
<1>9. \E r \in [0..count -> S] :
         r[0] = s0 /\ r[count] = WithDependencies(g, n) /\ \A k \in 1..count : r[k] = Round(r[k - 1], k)
  BY <1>8
<1> QED BY <1>9 DEF count, s0, S, Round

\* The rounds that complete the edges.
LEMMA CompletedGoes ==
  ASSUME NEW g, NEW data, Len(data.nodes) \in Nat, \A k \in 1..Len(data.nodes) : WithDependencies(g, data.nodes[k]) = g
  PROVE \E r \in [0..Len(data.nodes) -> {g}] :
           r[0] = g /\ r[Len(data.nodes)] = Completed(g, data) /\ \A k \in 1..Len(data.nodes) : r[k] = WithDependencies(r[k - 1], data.nodes[k])
<1> DEFINE Round(t, k) == WithDependencies(t, data.nodes[k])
           count == Len(data.nodes)
           s0 == g
           S == {g}
<1>1. PICK F : F = [k \in 1..count |-> [t \in S |-> Round(t, k)]]
  OBVIOUS
<1>3. s0 \in S /\ count \in Nat /\ \A t \in S, k \in 1..count : Round(t, k) \in S
  OBVIOUS
<1> DEFINE Solves(r) == r = [k \in 0..count |-> IF k = 0 THEN s0 ELSE Round(r[k - 1], k)]
           Goes(r) == r \in [0..count -> S] /\ r[0] = s0 /\ \A k \in 1..count : r[k] = Round(r[k - 1], k)
<1>4. Completed(g, data) = (CHOOSE r : Solves(r))[count]
  BY DEF Completed, Looped
<1> HIDE DEF count, s0, S, Round
<1>2. \A k \in 1..count, t \in S : F[k][t] = Round(t, k) /\ F[k][t] \in S
  BY <1>1, <1>3
<1>5. \E r : Solves(r)
  <2>1. PICK r \in [0..count -> S] : r[0] = s0 /\ \A k \in 1..count : r[k] = F[k][r[k - 1]]
    <3>1. Rounds(count, S, s0, F)
      BY <1>2, <1>3 DEF Rounds
    <3> QED BY <3>1, CourseExists DEF Course
  <2>2. ASSUME NEW k \in 0..count PROVE r[k] = IF k = 0 THEN s0 ELSE Round(r[k - 1], k)
    <3>1. CASE k = 0
      BY <2>1, <3>1
    <3>2. CASE k # 0
      <4>1. k \in 1..count /\ k - 1 \in 0..count
        BY <1>3, <3>2
      <4>2. r[k] = F[k][r[k - 1]] /\ r[k - 1] \in S
        BY <2>1, <4>1
      <4> QED BY <1>2, <3>2, <4>1, <4>2
    <3> QED BY <3>1, <3>2
  <2>3. Solves(r)
    BY <2>1, <2>2
  <2> QED BY <2>3
<1>6. ASSUME NEW r, Solves(r) PROVE Goes(r)
  <2>1. DOMAIN r = 0..count /\ \A k \in 0..count : r[k] = IF k = 0 THEN s0 ELSE Round(r[k - 1], k)
    BY <1>6
  <2>2. r[0] = s0 /\ \A k \in 1..count : r[k] = Round(r[k - 1], k)
    <3>1. count \in Nat
      BY <1>3
    <3> QED BY <2>1, <3>1
  <2> DEFINE T == {k \in 0..count : r[k] \in S}
  <2>3. T \subseteq 0..count /\ 0 \in T
    BY <1>3, <2>2
  <2>4. ASSUME NEW k \in 1..count, k - 1 \in T PROVE k \in T
    BY <1>3, <2>2, <2>4
  <2>5. T = 0..count
    <3> HIDE DEF T
    <3> QED BY <1>3, <2>3, <2>4, EachRound
  <2>6. \A k \in 0..count : r[k] \in S
    BY <2>5
  <2>7. r \in [0..count -> S]
    BY <1>6, <2>6
  <2> QED BY <2>2, <2>7
<1> DEFINE c == CHOOSE r : Solves(r)
<1>7. Goes(c)
  <2>1. Solves(c)
    <3> HIDE DEF Solves
    <3> QED BY <1>5
  <2> HIDE DEF c, Solves, Goes
  <2> QED BY <1>6, <2>1
<1> HIDE DEF c
<1>8. c \in [0..count -> S] /\ c[0] = s0 /\ c[count] = Completed(g, data) /\ \A k \in 1..count : c[k] = Round(c[k - 1], k)
  BY <1>4, <1>7 DEF c
<1>9. \E r \in [0..count -> S] :
         r[0] = s0 /\ r[count] = Completed(g, data) /\ \A k \in 1..count : r[k] = Round(r[k - 1], k)
  BY <1>8
<1> QED BY <1>9 DEF count, s0, S, Round

LEMMA WellUnique ==
  ASSUME NEW g, NEW w, Well(g), Well(w), w.nodes = g.nodes, w.edges = g.edges
  PROVE w = g
<1>1. g \in GraphSet /\ w \in GraphSet
  BY DEF Well
<1>2. ASSUME NEW m \in TaskNames PROVE w.adj[m] = g.adj[m] /\ w.reverse[m] = g.reverse[m]
  <2>1. /\ w.adj[m] \in Seq(TaskNames) /\ g.adj[m] \in Seq(TaskNames)
        /\ w.reverse[m] \in Seq(TaskNames) /\ g.reverse[m] \in Seq(TaskNames)
    BY <1>1, GraphTyped
  <2>2. From(g.edges, m) \subseteq Int /\ Into(g.edges, m) \subseteq Int
    BY <1>1, GraphTyped DEF From, Into
  <2>3. /\ Chosen(Targets(g.edges), g.adj[m], From(g.edges, m)) /\ Chosen(Targets(g.edges), w.adj[m], From(g.edges, m))
        /\ Chosen(Sources(g.edges), g.reverse[m], Into(g.edges, m)) /\ Chosen(Sources(g.edges), w.reverse[m], Into(g.edges, m))
    BY DEF Well, Indexed
  <2>4. w.adj[m] = g.adj[m]
    BY <2>1, <2>2, <2>3, ChosenUnique
  <2>5. w.reverse[m] = g.reverse[m]
    BY <2>1, <2>2, <2>3, ChosenUnique
  <2> QED BY <2>4, <2>5
<1>3. w.adj = g.adj /\ w.reverse = g.reverse
  BY <1>1, <1>2 DEF GraphSet
<1> QED BY <1>1, <1>3 DEF GraphSet

\* What the nodes and the edges of an export give, when they come from a graph with its indexes right.
LEMMA NamedIs ==
  ASSUME NEW g, Well(g), NEW data, Len(data.nodes) = Len(g.nodes),
         \A k \in 1..Len(g.nodes) : data.nodes[k].id = g.nodes[k]
  PROVE Well(Named(data)) /\ Named(data).nodes = g.nodes /\ Named(data).edges = <<>>
<1>1. PICK n \in Nat : n = Len(g.nodes) /\ DOMAIN g.nodes = 1..n /\ g.nodes \in Seq(TaskNames)
                       /\ \A k \in 1..n : g.nodes[k] \in TaskNames
  BY GraphTyped, SeqIs DEF Well
<1>2. Len(data.nodes) \in Nat /\ \A k \in 1..Len(data.nodes) : data.nodes[k].id \in TaskNames
  BY <1>1
<1>3. PICK r \in [0..Len(data.nodes) -> GraphSet] :
        /\ r[0] = EmptyGraph /\ r[Len(data.nodes)] = Named(data)
        /\ \A k \in 1..Len(data.nodes) : r[k] = WithNode(r[k - 1], data.nodes[k].id)
  BY <1>2, NamedGoes
<1>4. r[0] = EmptyGraph /\ r[n] = Named(data) /\ \A k \in 1..n : r[k] = WithNode(r[k - 1], g.nodes[k])
  BY <1>1, <1>3
<1> DEFINE T == {k \in 0..n : /\ Well(r[k]) /\ r[k].edges = <<>> /\ Len(r[k].nodes) = k
                              /\ \A i \in 1..k : r[k].nodes[i] = g.nodes[i]}
<1>5. 0 \in T
  <2>1. Well(r[0]) /\ r[0].edges = <<>> /\ Len(r[0].nodes) = 0
    BY <1>4, EmptyWell DEF EmptyGraph
  <2> QED BY <1>1, <2>1
<1>6. ASSUME NEW k \in 1..n, k - 1 \in T PROVE k \in T
  <2>1. PICK m \in Nat : m = k - 1
    BY <1>1
  <2>2. k \in 0..n /\ k = m + 1 /\ 1..k = (1..m) \cup {k} /\ \A i \in 1..m : i \in 1..n /\ i # k
    BY <1>1, <2>1
  <2>3. Well(r[m]) /\ r[m].edges = <<>> /\ Len(r[m].nodes) = m /\ \A i \in 1..m : r[m].nodes[i] = g.nodes[i]
    BY <1>6, <2>1
  <2>4. r[k] = WithNode(r[m], g.nodes[k]) /\ g.nodes[k] \in TaskNames
    BY <1>1, <1>4, <2>1
  <2>5. r[m].nodes \in Seq(TaskNames) /\ DOMAIN r[m].nodes = 1..m
    BY <2>3, GraphTyped, SeqIs DEF Well
  <2>6. g.nodes[k] \notin NodesOf(r[m])
    <3>1. ASSUME NEW i \in 1..m, r[m].nodes[i] = g.nodes[k] PROVE FALSE
      <4>1. i \in DOMAIN g.nodes /\ k \in DOMAIN g.nodes /\ g.nodes[i] = g.nodes[k] /\ i # k
        BY <1>1, <2>2, <2>3, <3>1
      <4> QED BY <4>1 DEF Well, Distinct
    <3> QED BY <2>5, <3>1, NodeIn
  <2>7. Well(r[k])
    BY <2>3, <2>4, <2>6, WithNodeWell
  <2>8. r[k].edges = <<>> /\ r[k].nodes = Append(r[m].nodes, g.nodes[k])
    BY <2>3, <2>4 DEF WithNode, Well, GraphSet
  <2>9. Len(r[k].nodes) = k /\ \A i \in 1..k : r[k].nodes[i] = g.nodes[i]
    BY <2>2, <2>3, <2>4, <2>5, <2>8
  <2> QED BY <2>2, <2>7, <2>8, <2>9
<1>7. T = 0..n
  <2>1. T \subseteq 0..n
    OBVIOUS
  <2> HIDE DEF T
  <2> QED BY <1>5, <1>6, <2>1, EachRound
<1>8. n \in T
  BY <1>7
<1>9. Well(r[n]) /\ r[n].edges = <<>> /\ Len(r[n].nodes) = n /\ \A i \in 1..n : r[n].nodes[i] = g.nodes[i]
  BY <1>8
<1>10. r[n].nodes \in Seq(TaskNames)
  BY <1>9, GraphTyped DEF Well
<1>11. r[n].nodes = g.nodes
  BY <1>1, <1>9, <1>10
<1> QED BY <1>4, <1>9, <1>11

LEMMA LinkedIs ==
  ASSUME NEW g, Well(g), NEW data, data.edges = g.edges, NEW start, Well(start), start.nodes = g.nodes, start.edges = <<>>
  PROVE Linked(start, data) = g
<1>1. PICK n \in Nat : n = Len(g.edges) /\ DOMAIN g.edges = 1..n /\ g.edges \in Seq(EdgeSet)
                       /\ \A k \in 1..n : g.edges[k] \in EdgeSet
  BY GraphTyped, SeqIs DEF Well
<1>2. Len(data.edges) \in Nat /\ (\A k \in 1..Len(data.edges) : data.edges[k] \in EdgeSet) /\ start \in GraphSet
  BY <1>1 DEF Well
<1>3. PICK r \in [0..Len(data.edges) -> GraphSet] :
        /\ r[0] = start /\ r[Len(data.edges)] = Linked(start, data)
        /\ \A k \in 1..Len(data.edges) : r[k] = WithEdge(r[k - 1], data.edges[k])
  BY <1>2, LinkedGoes, SMTT(30)
<1>4. r[0] = start /\ r[n] = Linked(start, data) /\ \A k \in 1..n : r[k] = WithEdge(r[k - 1], g.edges[k])
  BY <1>1, <1>3
<1> DEFINE T == {k \in 0..n : /\ Well(r[k]) /\ r[k].nodes = g.nodes /\ Len(r[k].edges) = k
                              /\ \A i \in 1..k : r[k].edges[i] = g.edges[i]}
<1>5. 0 \in T
  BY <1>1, <1>4
<1>6. ASSUME NEW k \in 1..n, k - 1 \in T PROVE k \in T
  <2>1. PICK m \in Nat : m = k - 1
    BY <1>1
  <2>2. k \in 0..n /\ k = m + 1 /\ 1..k = (1..m) \cup {k} /\ \A i \in 1..m : i \in 1..n /\ i # k
    BY <1>1, <2>1
  <2>3. Well(r[m]) /\ r[m].nodes = g.nodes /\ Len(r[m].edges) = m /\ \A i \in 1..m : r[m].edges[i] = g.edges[i]
    BY <1>6, <2>1
  <2>4. r[k] = WithEdge(r[m], g.edges[k]) /\ g.edges[k] \in EdgeSet
    BY <1>1, <1>4, <2>1
  <2>5. r[m].edges \in Seq(EdgeSet) /\ DOMAIN r[m].edges = 1..m /\ r[m] \in GraphSet
    BY <2>3, GraphTyped, SeqIs DEF Well
  <2>6. /\ g.edges[k].source \in NodesOf(r[m]) /\ g.edges[k].target \in NodesOf(r[m])
        /\ g.edges[k].source # g.edges[k].target
    BY <1>1, <2>3 DEF Well, Joined, NodesOf
  <2>7. Well(r[k])
    BY <2>3, <2>4, <2>6, WithEdgeWell
  <2>8. r[k].nodes = g.nodes /\ r[k].edges = Append(r[m].edges, g.edges[k])
    <3>1. /\ WithEdge(r[m], g.edges[k]).nodes = r[m].nodes
          /\ WithEdge(r[m], g.edges[k]).edges = Append(r[m].edges, g.edges[k])
      BY <2>4, <2>5, WithEdgeTyped
    <3> QED BY <2>3, <2>4, <3>1
  <2>9. Len(r[k].edges) = k /\ \A i \in 1..k : r[k].edges[i] = g.edges[i]
    BY <2>2, <2>3, <2>4, <2>5, <2>8
  <2> QED BY <2>2, <2>7, <2>8, <2>9
<1>7. T = 0..n
  <2>1. T \subseteq 0..n
    OBVIOUS
  <2> HIDE DEF T
  <2> QED BY <1>5, <1>6, <2>1, EachRound
<1>8. n \in T
  BY <1>7
<1>9. Well(r[n]) /\ r[n].nodes = g.nodes /\ Len(r[n].edges) = n /\ \A i \in 1..n : r[n].edges[i] = g.edges[i]
  BY <1>8
<1>10. r[n].edges \in Seq(EdgeSet)
  BY <1>9, GraphTyped DEF Well
<1>11. r[n].edges = g.edges
  BY <1>1, <1>9, <1>10
<1> QED BY <1>4, <1>9, <1>11, WellUnique

\* Every edge that the dependencies of a node ask for is there.
LEMMA NothingToComplete ==
  ASSUME NEW g, Well(g), NEW m \in TaskNames, NEW n, n.id = m, n.deps = g.reverse[m]
  PROVE WithDependencies(g, n) = g
<1>1. g.edges \in Seq(EdgeSet) /\ g.reverse[m] \in Seq(TaskNames)
  BY GraphTyped DEF Well
<1>2. PICK h, c : Rises(h, c, Into(g.edges, m)) /\ DOMAIN g.reverse[m] = 1..c
                  /\ \A j \in 1..c : g.reverse[m][j] = Sources(g.edges)[h[j]]
  BY DEF Well, Indexed, Chosen
<1>3. c \in Nat /\ Len(n.deps) = c
  <2>1. c \in Nat
    BY <1>2 DEF Rises
  <2> QED BY <1>1, <1>2, <2>1
<1>4. ASSUME NEW j \in 1..Len(n.deps) PROVE WithDependency(g, [source |-> n.deps[j], target |-> n.id]) = g
  <2>1. h[j] \in Into(g.edges, m) /\ n.deps[j] = Sources(g.edges)[h[j]]
    BY <1>2, <1>3 DEF Rises
  <2>2. h[j] \in DOMAIN g.edges /\ g.edges[h[j]] \in EdgeSet /\ g.edges[h[j]].target = m
        /\ g.edges[h[j]].source = n.deps[j]
    BY <1>1, <2>1 DEF Into, Sources
  <2>3. g.edges[h[j]] = [source |-> n.deps[j], target |-> n.id]
    BY <2>2 DEF EdgeSet
  <2> QED BY <2>2, <2>3 DEF WithDependency
<1>5. PICK r \in [0..Len(n.deps) -> {g}] :
        /\ r[0] = g /\ r[Len(n.deps)] = WithDependencies(g, n)
        /\ \A k \in 1..Len(n.deps) : r[k] = WithDependency(r[k - 1], [source |-> n.deps[k], target |-> n.id])
  <2>1. Len(n.deps) \in Nat
    BY <1>3
  <2> QED BY <1>4, <2>1, DependGoes
<1>6. r[Len(n.deps)] \in {g}
  BY <1>3, <1>5
<1> QED BY <1>5, <1>6

LEMMA ReadBackSame ==
  ASSUME Well(graph)
  PROVE ReadBack(Exported) = graph
<1>1. PICK n \in Nat : n = Len(graph.nodes) /\ DOMAIN graph.nodes = 1..n /\ \A k \in 1..n : graph.nodes[k] \in TaskNames
  BY GraphTyped, SeqIs DEF Well
<1>2. PICK data : data = Exported
  OBVIOUS
<1>3. /\ Len(data.nodes) = n /\ data.edges = graph.edges
      /\ \A k \in 1..n : data.nodes[k].id = graph.nodes[k] /\ data.nodes[k].deps = graph.reverse[graph.nodes[k]]
  BY <1>1, <1>2 DEF Exported
<1>4. Linked(Named(data), data) = graph
  <2>1. Well(Named(data)) /\ Named(data).nodes = graph.nodes /\ Named(data).edges = <<>>
    BY <1>1, <1>3, NamedIs
  <2> QED BY <1>3, <2>1, LinkedIs
<1>5. \A k \in 1..Len(data.nodes) : WithDependencies(graph, data.nodes[k]) = graph
  BY <1>1, <1>3, NothingToComplete
<1>6. PICK r \in [0..Len(data.nodes) -> {graph}] :
        /\ r[0] = graph /\ r[Len(data.nodes)] = Completed(graph, data)
        /\ \A k \in 1..Len(data.nodes) : r[k] = WithDependencies(r[k - 1], data.nodes[k])
  <2>1. Len(data.nodes) \in Nat
    BY <1>1, <1>3
  <2> QED BY <1>5, <2>1, CompletedGoes
<1>7. r[Len(data.nodes)] \in {graph}
  BY <1>1, <1>3, <1>6
<1> QED BY <1>2, <1>4, <1>6, <1>7, ReadBackIs

\* Every action keeps the graph well formed.
LEMMA GraphStep ==
  ASSUME Well(graph), GraphNext
  PROVE Well(graph')
<1>1. CASE AddNode
  BY <1>1, WithNodeWell DEF AddNode
<1>2. CASE AddEdge
  <2>1. PICK s \in NodesOf(graph), t \in NodesOf(graph) : s # t /\ graph' = WithEdge(graph, [source |-> s, target |-> t])
    BY <1>2 DEF AddEdge
  <2>2. NodesOf(graph) \subseteq TaskNames
    <3>1. graph.nodes \in Seq(TaskNames)
      BY GraphTyped DEF Well
    <3> QED BY <3>1 DEF NodesOf, ToSet
  <2>3. PICK e : e = [source |-> s, target |-> t]
    OBVIOUS
  <2>4. e \in EdgeSet /\ e.source = s /\ e.target = t
    BY <2>2, <2>3 DEF EdgeSet
  <2> QED BY <2>1, <2>3, <2>4, WithEdgeWell
<1>3. CASE RemoveNode
  <2>1. PICK n \in NodesOf(graph) : graph' = CutGraph(graph, n)
    BY <1>3 DEF RemoveNode, CutGraph, Uncut
  <2>2. n \in TaskNames
    <3>1. graph.nodes \in Seq(TaskNames)
      BY GraphTyped DEF Well
    <3> QED BY <3>1 DEF NodesOf, ToSet
  <2> QED BY <2>1, <2>2, CutWell
<1>4. CASE ReadsBack
  BY <1>4, ReadBackSame DEF ReadsBack
<1> QED BY <1>1, <1>2, <1>3, <1>4 DEF GraphNext

\* In the words of the property: the indexes are what the edges give.
LEMMA IndexesAreRight ==
  ASSUME Well(graph)
  PROVE IndexesAgree
<1>1. graph.edges \in Seq(EdgeSet)
  BY GraphTyped DEF Well
<1>2. ASSUME NEW n \in TaskNames
      PROVE LET out == Picked(graph.edges, {i \in DOMAIN graph.edges : graph.edges[i].source = n})
                in  == Picked(graph.edges, {i \in DOMAIN graph.edges : graph.edges[i].target = n})
            IN /\ graph.adj[n] = [i \in DOMAIN out |-> out[i].target]
               /\ graph.reverse[n] = [i \in DOMAIN in |-> in[i].source]
  <2> DEFINE out == Picked(graph.edges, From(graph.edges, n))
             in  == Picked(graph.edges, Into(graph.edges, n))
  <2>1. From(graph.edges, n) \subseteq DOMAIN graph.edges /\ Into(graph.edges, n) \subseteq DOMAIN graph.edges
        /\ DOMAIN graph.edges \subseteq Int
    BY <1>1 DEF From, Into
  <2>2. /\ out \in Seq(EdgeSet) /\ Chosen(graph.edges, out, From(graph.edges, n))
        /\ in \in Seq(EdgeSet) /\ Chosen(graph.edges, in, Into(graph.edges, n))
    BY <1>1, <2>1, PickedIs
  <2> HIDE DEF out, in
  <2>3. graph.adj[n] \in Seq(TaskNames) /\ graph.reverse[n] \in Seq(TaskNames)
    BY GraphTyped DEF Well
  <2>4. graph.adj[n] = [i \in DOMAIN out |-> out[i].target]
    <3>1. PICK h, c : Rises(h, c, From(graph.edges, n)) /\ DOMAIN out = 1..c
                      /\ \A k \in 1..c : out[k] = graph.edges[h[k]]
      BY <2>2 DEF Chosen
    <3>2. PICK f, d : Rises(f, d, From(graph.edges, n)) /\ DOMAIN graph.adj[n] = 1..d
                      /\ \A k \in 1..d : graph.adj[n][k] = Targets(graph.edges)[f[k]]
      BY DEF Well, Indexed, Chosen
    <3>3. c = d /\ \A k \in 1..c : h[k] = f[k]
      <4>1. From(graph.edges, n) \subseteq Int
        BY <2>1
      <4>2. Rises(h, c, From(graph.edges, n)) /\ Rises(f, d, From(graph.edges, n))
        BY <3>1, <3>2
      <4> QED BY <4>1, <4>2, RisesUnique
    <3>4. DOMAIN graph.adj[n] = DOMAIN out
      BY <3>1, <3>2, <3>3
    <3>5. ASSUME NEW k \in DOMAIN out PROVE graph.adj[n][k] = out[k].target
      <4>1. k \in 1..c /\ h[k] = f[k] /\ out[k] = graph.edges[h[k]]
        BY <3>1, <3>3
      <4>2. h[k] \in DOMAIN graph.edges
        BY <2>1, <3>1, <4>1 DEF Rises
      <4>3. Targets(graph.edges)[h[k]] = graph.edges[h[k]].target
        BY <4>2 DEF Targets
      <4> QED BY <3>2, <3>3, <4>1, <4>3
    <3>6. graph.adj[n] = [i \in DOMAIN graph.adj[n] |-> graph.adj[n][i]]
      BY <2>3
    <3> QED BY <3>4, <3>5, <3>6
  <2>5. graph.reverse[n] = [i \in DOMAIN in |-> in[i].source]
    <3>1. PICK h, c : Rises(h, c, Into(graph.edges, n)) /\ DOMAIN in = 1..c
                      /\ \A k \in 1..c : in[k] = graph.edges[h[k]]
      BY <2>2 DEF Chosen
    <3>2. PICK f, d : Rises(f, d, Into(graph.edges, n)) /\ DOMAIN graph.reverse[n] = 1..d
                      /\ \A k \in 1..d : graph.reverse[n][k] = Sources(graph.edges)[f[k]]
      BY DEF Well, Indexed, Chosen
    <3>3. c = d /\ \A k \in 1..c : h[k] = f[k]
      <4>1. Into(graph.edges, n) \subseteq Int
        BY <2>1
      <4>2. Rises(h, c, Into(graph.edges, n)) /\ Rises(f, d, Into(graph.edges, n))
        BY <3>1, <3>2
      <4> QED BY <4>1, <4>2, RisesUnique
    <3>4. DOMAIN graph.reverse[n] = DOMAIN in
      BY <3>1, <3>2, <3>3
    <3>5. ASSUME NEW k \in DOMAIN in PROVE graph.reverse[n][k] = in[k].source
      <4>1. k \in 1..c /\ h[k] = f[k] /\ in[k] = graph.edges[h[k]]
        BY <3>1, <3>3
      <4>2. h[k] \in DOMAIN graph.edges
        BY <2>1, <3>1, <4>1 DEF Rises
      <4>3. Sources(graph.edges)[h[k]] = graph.edges[h[k]].source
        BY <4>2 DEF Sources
      <4> QED BY <3>2, <3>3, <4>1, <4>3
    <3>6. graph.reverse[n] = [i \in DOMAIN graph.reverse[n] |-> graph.reverse[n][i]]
      BY <2>3
    <3> QED BY <3>4, <3>5, <3>6
  <2> QED BY <2>4, <2>5 DEF out, in, From, Into
<1>3. ReadBack(Exported) = graph
  BY ReadBackSame
<1> HIDE DEF Exported
<1> QED BY <1>2, <1>3 DEF IndexesAgree

-----------------------------------------------------------------------------
(* Kahn's order. *)

\* The edges into m that are not in P.
Waiting(g, P, m) == {i \in DOMAIN g.edges : g.edges[i].target = m /\ i \notin P}
Holds(f, m) == \E k \in DOMAIN f : f[k] = m
KahnSet == [found : Seq(TaskNames), degree : [TaskNames -> Int]]
\* The edges P are counted: what is found has no other edge into it, and stands behind all that its edges come from.
Kahn(g, s, P) ==
  /\ s \in KahnSet /\ Distinct(s.found) /\ P \subseteq DOMAIN g.edges
  /\ \A m \in TaskNames : s.degree[m] = Cardinality(Waiting(g, P, m))
  /\ \A m \in NodesOf(g) : Holds(s.found, m) <=> Waiting(g, P, m) = {}
  /\ \A k \in DOMAIN s.found : s.found[k] \in NodesOf(g)
  /\ \A k \in DOMAIN s.found : \A i \in Into(g.edges, s.found[k]) : \E l \in 1..(k - 1) : s.found[l] = g.edges[i].source
  /\ \A i \in P : Holds(s.found, g.edges[i].source)
\* f begins with what e is.
Begins(e, f) == \A k \in DOMAIN e : k \in DOMAIN f /\ f[k] = e[k]

LEMMA EdgesFinite ==
  ASSUME NEW g, Well(g)
  PROVE /\ g.edges \in Seq(EdgeSet) /\ \E n \in Nat : DOMAIN g.edges = 1..n
        /\ \A i \in DOMAIN g.edges : g.edges[i] \in EdgeSet /\ g.edges[i].source \in TaskNames /\ g.edges[i].target \in TaskNames
        /\ IsFiniteSet(DOMAIN g.edges)
<1>1. g.edges \in Seq(EdgeSet)
  BY GraphTyped DEF Well
<1>2. PICK n \in Nat : DOMAIN g.edges = 1..n /\ \A i \in 1..n : g.edges[i] \in EdgeSet
  BY <1>1, SeqIs
<1>3. IsFiniteSet(1..n)
  BY FS_Interval
<1> QED BY <1>1, <1>2, <1>3 DEF EdgeSet

LEMMA WaitingFinite ==
  ASSUME NEW g, Well(g), NEW P, NEW m
  PROVE /\ IsFiniteSet(Waiting(g, P, m)) /\ Cardinality(Waiting(g, P, m)) \in Nat
        /\ Cardinality(Waiting(g, P, m)) = 0 <=> Waiting(g, P, m) = {}
<1>1. Waiting(g, P, m) \subseteq DOMAIN g.edges
  BY DEF Waiting
<1>2. IsFiniteSet(Waiting(g, P, m))
  BY <1>1, EdgesFinite, FS_Subset
<1> QED BY <1>2, FS_CardinalityType, FS_EmptySet

LEMMA KahnArrive ==
  ASSUME NEW g, Well(g), NEW s, NEW P, Kahn(g, s, P), NEW i \in DOMAIN g.edges, i \notin P, Holds(s.found, g.edges[i].source)
  PROVE /\ Kahn(g, Arrive(s, g.edges[i].target), P \cup {i})
        /\ Begins(s.found, Arrive(s, g.edges[i].target).found)
<1> DEFINE c == g.edges[i].target
           t == Arrive(s, c)
           Q == P \cup {i}
           A(m) == Waiting(g, P, m)
           B(m) == Waiting(g, Q, m)
<1>1. /\ c \in TaskNames /\ c \in NodesOf(g) /\ s.found \in Seq(TaskNames) /\ s.degree \in [TaskNames -> Int]
  BY EdgesFinite DEF Kahn, KahnSet, Well, Joined
<1>2. PICK n \in Nat : n = Len(s.found) /\ DOMAIN s.found = 1..n
  BY <1>1, SeqIs
<1>3. i \in A(c) /\ B(c) = A(c) \ {i} /\ \A m : m # c => B(m) = A(m)
  BY DEF Waiting
<1>4. /\ \A m : IsFiniteSet(A(m)) /\ Cardinality(A(m)) \in Nat /\ (Cardinality(A(m)) = 0 <=> A(m) = {})
      /\ \A m : IsFiniteSet(B(m)) /\ Cardinality(B(m)) \in Nat /\ (Cardinality(B(m)) = 0 <=> B(m) = {})
  BY WaitingFinite
<1>5. Cardinality(B(c)) = Cardinality(A(c)) - 1
  <2> HIDE DEF A, B, c
  <2> QED BY <1>3, <1>4, FS_RemoveElement
<1>6. /\ \A m \in TaskNames : s.degree[m] = Cardinality(A(m))
      /\ \A m \in NodesOf(g) : Holds(s.found, m) <=> A(m) = {}
  BY DEF Kahn
<1>7. ~Holds(s.found, c)
  BY <1>1, <1>3, <1>6
<1>8. t.found = (IF s.degree[c] = 1 THEN Append(s.found, c) ELSE s.found) /\ t.degree = [s.degree EXCEPT ![c] = @ - 1]
      /\ t = [found |-> t.found, degree |-> t.degree]
  BY DEF Arrive
<1> HIDE DEF A, B, c, t
<1>9. \A m \in TaskNames : t.degree[m] = Cardinality(B(m))
  BY <1>1, <1>3, <1>4, <1>5, <1>6, <1>8
<1>10. Q \subseteq DOMAIN g.edges /\ \A j \in Q : j \in P \/ j = i
  BY DEF Kahn
<1>11. CASE s.degree[c] = 1
  <2>1. t.found = Append(s.found, c) /\ A(c) # {} /\ B(c) = {}
    <3>1. A(c) # {} /\ s.degree[c] = Cardinality(A(c))
      BY <1>1, <1>3, <1>6
    <3>2. Cardinality(B(c)) = 0
      BY <1>4, <1>5, <1>11, <3>1
    <3>3. Cardinality(B(c)) = 0 <=> B(c) = {}
      BY <1>4
    <3> QED BY <1>8, <1>11, <3>1, <3>2, <3>3
  <2>2. /\ t.found \in Seq(TaskNames) /\ DOMAIN t.found = 1..(n + 1) /\ t.found[n + 1] = c
        /\ \A k \in 1..n : t.found[k] = s.found[k]
    BY <1>1, <1>2, <2>1, AppendIs
  <2>3. \A k \in 1..(n + 1) : k = n + 1 \/ k \in 1..n
    OBVIOUS
  <2>4. \A k \in 1..n : k \in 1..(n + 1)
    OBVIOUS
  <2>5. \A m : Holds(t.found, m) <=> Holds(s.found, m) \/ m = c
    BY <1>2, <2>2, <2>3, <2>4 DEF Holds
  <2>6. Distinct(t.found)
    <3>1. ASSUME NEW j \in 1..(n + 1), NEW k \in 1..(n + 1), t.found[j] = t.found[k] PROVE j = k
      <4>1. \A l \in 1..n : s.found[l] # c
        BY <1>2, <1>7 DEF Holds
      <4>2. \A a, b \in 1..n : s.found[a] = s.found[b] => a = b
        BY <1>2 DEF Kahn, Distinct
      <4> QED BY <2>2, <2>3, <3>1, <4>1, <4>2
    <3> QED BY <2>2, <3>1 DEF Distinct
  <2>7. \A m \in NodesOf(g) : Holds(t.found, m) <=> B(m) = {}
    BY <1>3, <1>6, <2>1, <2>5
  <2>8. \A k \in DOMAIN t.found : t.found[k] \in NodesOf(g)
    BY <1>1, <1>2, <2>2, <2>3 DEF Kahn
  <2>9. \A j \in Q : Holds(t.found, g.edges[j].source)
    BY <1>10, <2>5 DEF Kahn
  <2>10. ASSUME NEW k \in DOMAIN t.found, NEW j \in Into(g.edges, t.found[k])
         PROVE \E l \in 1..(k - 1) : t.found[l] = g.edges[j].source
    <3>1. CASE k \in 1..n
      <4>1. t.found[k] = s.found[k] /\ k \in DOMAIN s.found
        BY <1>2, <2>2, <3>1
      <4>2. PICK l \in 1..(k - 1) : s.found[l] = g.edges[j].source
        BY <2>10, <4>1 DEF Kahn
      <4>3. l \in 1..n
        BY <3>1
      <4> QED BY <2>2, <4>2, <4>3
    <3>2. CASE k = n + 1
      <4>1. j \in DOMAIN g.edges /\ g.edges[j].target = c /\ j \notin B(c)
        BY <2>1, <2>2, <2>10, <3>2 DEF Into
      <4>2. j \in Q
        BY <4>1 DEF B, Waiting
      <4>3. Holds(s.found, g.edges[j].source)
        BY <1>10, <4>2 DEF Kahn
      <4>4. PICK l \in 1..n : s.found[l] = g.edges[j].source
        BY <1>2, <4>3 DEF Holds
      <4>5. l \in 1..(k - 1)
        BY <3>2
      <4> QED BY <2>2, <4>4, <4>5
    <3> QED BY <2>2, <2>3, <3>1, <3>2
  <2>11. t \in KahnSet
    <3>1. t.degree \in [TaskNames -> Int]
      BY <1>1, <1>8
    <3> QED BY <1>8, <2>2, <3>1 DEF KahnSet
  <2>12. Begins(s.found, t.found)
    BY <1>2, <2>2, <2>4 DEF Begins
  <2>13. Kahn(g, t, Q)
    BY <1>9, <1>10, <2>6, <2>7, <2>8, <2>9, <2>10, <2>11 DEF Kahn, B
  <2> QED BY <2>12, <2>13 DEF t, c
<1>12. CASE s.degree[c] # 1
  <2>1. t.found = s.found /\ A(c) # {} /\ B(c) # {}
    <3>1. A(c) # {} /\ s.degree[c] = Cardinality(A(c))
      BY <1>1, <1>3, <1>6
    <3>2. Cardinality(B(c)) # 0
      BY <1>4, <1>5, <1>12, <3>1
    <3>3. Cardinality(B(c)) = 0 <=> B(c) = {}
      BY <1>4
    <3> QED BY <1>8, <1>12, <3>1, <3>2, <3>3
  <2>2. \A m \in NodesOf(g) : Holds(t.found, m) <=> B(m) = {}
    BY <1>3, <1>6, <1>7, <2>1
  <2>3. \A j \in Q : Holds(t.found, g.edges[j].source)
    BY <1>10, <2>1 DEF Kahn
  <2>4. t \in KahnSet
    <3>1. t.degree \in [TaskNames -> Int]
      BY <1>1, <1>8
    <3> QED BY <1>1, <1>8, <2>1, <3>1 DEF KahnSet
  <2>5. Begins(s.found, t.found)
    BY <2>1 DEF Begins
  <2>6. Kahn(g, t, Q)
    BY <1>9, <1>10, <2>1, <2>2, <2>3, <2>4, ZenonT(60) DEF Kahn, B
  <2> QED BY <2>5, <2>6 DEF t, c
<1> QED BY <1>11, <1>12

LEMMA ArriveTyped ==
  ASSUME NEW s \in KahnSet, NEW c \in TaskNames
  PROVE Arrive(s, c) \in KahnSet
<1>1. Append(s.found, c) \in Seq(TaskNames) /\ [s.degree EXCEPT ![c] = @ - 1] \in [TaskNames -> Int]
  BY AppendIs DEF KahnSet
<1> QED BY <1>1 DEF Arrive, KahnSet

LEMMA OwnList ==
  ASSUME NEW g, Well(g), NEW n \in TaskNames
  PROVE Len(g.adj[n]) \in Nat /\ \A j \in 1..Len(g.adj[n]) : g.adj[n][j] \in TaskNames
BY GraphTyped, SeqIs DEF Well

\* The rounds of a visit.
LEMMA VisitedGoes ==
  ASSUME NEW g, Well(g), NEW s \in KahnSet, NEW n \in TaskNames
  PROVE \E r \in [0..Len(g.adj[n]) -> KahnSet] :
           r[0] = s /\ r[Len(g.adj[n])] = Visited(g, s, n) /\ \A k \in 1..Len(g.adj[n]) : r[k] = Arrive(r[k - 1], g.adj[n][k])
<1> DEFINE Round(t, k) == Arrive(t, g.adj[n][k])
           count == Len(g.adj[n])
           s0 == s
           S == KahnSet
<1>1. PICK F : F = [k \in 1..count |-> [t \in S |-> Round(t, k)]]
  OBVIOUS
<1>3. s0 \in S /\ count \in Nat /\ \A t \in S, k \in 1..count : Round(t, k) \in S
  BY OwnList, ArriveTyped
<1> DEFINE Solves(r) == r = [k \in 0..count |-> IF k = 0 THEN s0 ELSE Round(r[k - 1], k)]
           Goes(r) == r \in [0..count -> S] /\ r[0] = s0 /\ \A k \in 1..count : r[k] = Round(r[k - 1], k)
<1>4. Visited(g, s, n) = (CHOOSE r : Solves(r))[count]
  BY DEF Visited, Looped
<1> HIDE DEF count, s0, S, Round
<1>2. \A k \in 1..count, t \in S : F[k][t] = Round(t, k) /\ F[k][t] \in S
  BY <1>1, <1>3
<1>5. \E r : Solves(r)
  <2>1. PICK r \in [0..count -> S] : r[0] = s0 /\ \A k \in 1..count : r[k] = F[k][r[k - 1]]
    <3>1. Rounds(count, S, s0, F)
      BY <1>2, <1>3 DEF Rounds
    <3> QED BY <3>1, CourseExists DEF Course
  <2>2. ASSUME NEW k \in 0..count PROVE r[k] = IF k = 0 THEN s0 ELSE Round(r[k - 1], k)
    <3>1. CASE k = 0
      BY <2>1, <3>1
    <3>2. CASE k # 0
      <4>1. k \in 1..count /\ k - 1 \in 0..count
        BY <1>3, <3>2
      <4>2. r[k] = F[k][r[k - 1]] /\ r[k - 1] \in S
        BY <2>1, <4>1
      <4> QED BY <1>2, <3>2, <4>1, <4>2
    <3> QED BY <3>1, <3>2
  <2>3. Solves(r)
    BY <2>1, <2>2
  <2> QED BY <2>3
<1>6. ASSUME NEW r, Solves(r) PROVE Goes(r)
  <2>1. DOMAIN r = 0..count /\ \A k \in 0..count : r[k] = IF k = 0 THEN s0 ELSE Round(r[k - 1], k)
    BY <1>6
  <2>2. r[0] = s0 /\ \A k \in 1..count : r[k] = Round(r[k - 1], k)
    <3>1. count \in Nat
      BY <1>3
    <3> QED BY <2>1, <3>1
  <2> DEFINE T == {k \in 0..count : r[k] \in S}
  <2>3. T \subseteq 0..count /\ 0 \in T
    BY <1>3, <2>2
  <2>4. ASSUME NEW k \in 1..count, k - 1 \in T PROVE k \in T
    BY <1>3, <2>2, <2>4
  <2>5. T = 0..count
    <3> HIDE DEF T
    <3> QED BY <1>3, <2>3, <2>4, EachRound
  <2>6. \A k \in 0..count : r[k] \in S
    BY <2>5
  <2>7. r \in [0..count -> S]
    BY <1>6, <2>6
  <2> QED BY <2>2, <2>7
<1> DEFINE c == CHOOSE r : Solves(r)
<1>7. Goes(c)
  <2>1. Solves(c)
    <3> HIDE DEF Solves
    <3> QED BY <1>5
  <2> HIDE DEF c, Solves, Goes
  <2> QED BY <1>6, <2>1
<1> HIDE DEF c
<1>8. c \in [0..count -> S] /\ c[0] = s0 /\ c[count] = Visited(g, s, n) /\ \A k \in 1..count : c[k] = Round(c[k - 1], k)
  BY <1>4, <1>7 DEF c
<1>9. \E r \in [0..count -> S] :
         r[0] = s0 /\ r[count] = Visited(g, s, n) /\ \A k \in 1..count : r[k] = Round(r[k - 1], k)
  BY <1>8
<1> QED BY <1>9 DEF count, s0, S, Round

\* The edges that h lists up to j.
Some(h, j) == {h[l] : l \in 1..j}

\* The edges out of n as its list in the index gives them.
LEMMA OutList ==
  ASSUME NEW g, Well(g), NEW n \in TaskNames
  PROVE \E h : /\ Rises(h, Len(g.adj[n]), From(g.edges, n)) /\ Len(g.adj[n]) \in Nat
               /\ \A j \in 1..Len(g.adj[n]) : g.adj[n][j] = g.edges[h[j]].target
<1>1. PICK h, c : Rises(h, c, From(g.edges, n)) /\ DOMAIN g.adj[n] = 1..c
                  /\ \A k \in 1..c : g.adj[n][k] = Targets(g.edges)[h[k]]
  BY DEF Well, Indexed, Chosen
<1>2. c \in Nat /\ g.adj[n] \in Seq(TaskNames)
  BY <1>1, GraphTyped DEF Rises, Well
<1>3. Len(g.adj[n]) = c
  BY <1>1, <1>2
<1>4. ASSUME NEW j \in 1..c PROVE g.adj[n][j] = g.edges[h[j]].target
  <2>1. h[j] \in DOMAIN g.edges
    BY <1>1 DEF Rises, From
  <2> QED BY <1>1, <2>1 DEF Targets
<1> QED BY <1>1, <1>2, <1>3, <1>4

LEMMA SomeNone ==
  ASSUME NEW I, NEW h, NEW c, Rises(h, c, I)
  PROVE Some(h, 0) = {} /\ Some(h, c) = I
BY DEF Some, Rises

LEMMA SomeOn ==
  ASSUME NEW I, I \subseteq Int, NEW h, NEW c, Rises(h, c, I), NEW k \in 1..c
  PROVE /\ Some(h, 0) = {} /\ Some(h, c) = I /\ h[k] \in I /\ h[k] \notin Some(h, k - 1)
        /\ Some(h, k) = Some(h, k - 1) \cup {h[k]}
<1>1. c \in Nat /\ \A j \in 1..c : h[j] \in I
  BY DEF Rises
<1>2. Some(h, 0) = {} /\ Some(h, c) = I
  BY SomeNone
<1>3. 1..k = (1..(k - 1)) \cup {k} /\ \A j \in 1..(k - 1) : j \in 1..c /\ j < k
  BY <1>1
<1>4. Some(h, k) = Some(h, k - 1) \cup {h[k]}
  BY <1>3 DEF Some
<1>5. ASSUME NEW j \in 1..(k - 1), h[j] = h[k] PROVE FALSE
  <2>1. h[j] < h[k] /\ h[k] \in Int
    BY <1>1, <1>3 DEF Rises
  <2> QED BY <1>5, <2>1
<1> QED BY <1>1, <1>2, <1>4, <1>5 DEF Some

\* A node that is found and whose edges are not counted yet is visited: they are.
LEMMA KahnVisit ==
  ASSUME NEW g, Well(g), NEW s, NEW P, Kahn(g, s, P), NEW n \in TaskNames, Holds(s.found, n),
         \A i \in P : g.edges[i].source # n
  PROVE Kahn(g, Visited(g, s, n), P \cup From(g.edges, n)) /\ Begins(s.found, Visited(g, s, n).found)
<1> DEFINE I == From(g.edges, n)
<1>1. PICK h, c : /\ Rises(h, c, I) /\ c \in Nat /\ c = Len(g.adj[n])
                  /\ \A j \in 1..c : g.adj[n][j] = g.edges[h[j]].target
  BY OutList
<1>2. s \in KahnSet
  BY DEF Kahn
<1>3. PICK r \in [0..c -> KahnSet] :
        r[0] = s /\ r[c] = Visited(g, s, n) /\ \A k \in 1..c : r[k] = Arrive(r[k - 1], g.adj[n][k])
  BY <1>1, <1>2, VisitedGoes
<1>4. I \subseteq Int /\ I \subseteq DOMAIN g.edges /\ \A i \in I : g.edges[i].source = n
  BY EdgesFinite DEF From
<1> DEFINE U(k) == P \cup Some(h, k)
<1>5. /\ U(0) = P /\ U(c) = P \cup I
      /\ \A k \in 1..c : h[k] \in I /\ h[k] \notin U(k - 1) /\ U(k) = U(k - 1) \cup {h[k]}
  <2>1. Some(h, 0) = {} /\ Some(h, c) = I
    BY <1>1, SomeNone
  <2>2. ASSUME NEW k \in 1..c PROVE h[k] \in I /\ h[k] \notin U(k - 1) /\ U(k) = U(k - 1) \cup {h[k]}
    <3>1. h[k] \in I /\ h[k] \notin Some(h, k - 1) /\ Some(h, k) = Some(h, k - 1) \cup {h[k]}
      <4>1. I \subseteq Int /\ Rises(h, c, I)
        BY <1>1, <1>4
      <4> HIDE DEF I
      <4> QED BY <4>1, SomeOn
    <3>2. h[k] \notin P
      BY <1>4, <3>1
    <3> QED BY <3>1, <3>2
  <2> QED BY <2>1, <2>2
<1> DEFINE T == {k \in 0..c : Kahn(g, r[k], U(k)) /\ Begins(s.found, r[k].found)}
<1> HIDE DEF I, U
<1>6. 0 \in T
  <2>1. Begins(s.found, s.found)
    BY DEF Begins
  <2> QED BY <1>1, <1>3, <1>5, <2>1
<1>7. ASSUME NEW k \in 1..c, k - 1 \in T PROVE k \in T
  <2> DEFINE Q == U(k - 1)
             u == r[k - 1]
             i == h[k]
  <2>1. Kahn(g, u, Q) /\ Begins(s.found, u.found)
    BY <1>7
  <2>2. i \in DOMAIN g.edges /\ g.edges[i].source = n /\ i \notin Q
    BY <1>4, <1>5
  <2>3. Holds(u.found, g.edges[i].source)
    BY <2>1, <2>2 DEF Holds, Begins
  <2>4. r[k] = Arrive(u, g.edges[i].target) /\ U(k) = Q \cup {i}
    BY <1>1, <1>3, <1>5
  <2> HIDE DEF Q, u, i
  <2>5. Kahn(g, Arrive(u, g.edges[i].target), Q \cup {i}) /\ Begins(u.found, Arrive(u, g.edges[i].target).found)
    BY <2>1, <2>2, <2>3, KahnArrive
  <2>6. Begins(s.found, r[k].found)
    BY <2>1, <2>4, <2>5 DEF Begins
  <2>7. k \in 0..c /\ Kahn(g, r[k], U(k))
    BY <1>1, <2>4, <2>5
  <2> QED BY <2>6, <2>7
<1>8. T = 0..c
  <2>1. T \subseteq 0..c
    OBVIOUS
  <2> HIDE DEF T
  <2> QED BY <1>1, <1>6, <1>7, <2>1, EachRound
<1>9. c \in T
  BY <1>1, <1>8
<1>10. Kahn(g, r[c], U(c)) /\ Begins(s.found, r[c].found)
  BY <1>9
<1> QED BY <1>3, <1>5, <1>10 DEF I

\* The order TopoOrder computes, and what stands before the border in round k.
Roots(g) == [found |-> Picked(g.nodes, {i \in DOMAIN g.nodes : InDegree(g)[g.nodes[i]] = 0}), degree |-> InDegree(g)]
Pops(g, s, k) == IF k \in DOMAIN s.found THEN Visited(g, s, s.found[k]) ELSE s

LEMMA VisitedTyped ==
  ASSUME NEW g, Well(g), NEW s \in KahnSet, NEW n \in TaskNames
  PROVE Visited(g, s, n) \in KahnSet
<1>1. PICK r \in [0..Len(g.adj[n]) -> KahnSet] : r[Len(g.adj[n])] = Visited(g, s, n)
  BY VisitedGoes
<1>2. Len(g.adj[n]) \in 0..Len(g.adj[n])
  BY OwnList
<1> QED BY <1>1, <1>2

LEMMA PopsTyped ==
  ASSUME NEW g, Well(g), NEW s \in KahnSet, NEW k
  PROVE Pops(g, s, k) \in KahnSet
<1>1. CASE k \in DOMAIN s.found
  <2>1. s.found[k] \in TaskNames
    BY <1>1, SeqIs DEF KahnSet
  <2> QED BY <1>1, <2>1, VisitedTyped DEF Pops
<1> QED BY <1>1 DEF Pops

LEMMA RootsKahn ==
  ASSUME NEW g, Well(g)
  PROVE Kahn(g, Roots(g), {})
<1> DEFINE s == Roots(g)
           I == {i \in DOMAIN g.nodes : InDegree(g)[g.nodes[i]] = 0}
<1>1. g.nodes \in Seq(TaskNames) /\ I \subseteq DOMAIN g.nodes /\ DOMAIN g.nodes \subseteq Int /\ Distinct(g.nodes)
      /\ \A k \in DOMAIN g.nodes : g.nodes[k] \in TaskNames
  BY GraphTyped, SeqIs DEF Well
<1>2. \A m \in TaskNames : InDegree(g)[m] = Cardinality(Waiting(g, {}, m))
  BY DEF InDegree, Waiting
<1>3. s.found \in Seq(TaskNames) /\ Chosen(g.nodes, s.found, I)
  <2>1. s.found = Picked(g.nodes, I)
    BY DEF Roots
  <2> HIDE DEF I, s
  <2> QED BY <1>1, <2>1, PickedIs
<1>4. s.degree = InDegree(g) /\ s = [found |-> s.found, degree |-> s.degree]
  BY DEF Roots
<1> HIDE DEF s, I
<1>5. Distinct(s.found)
  <2>1. I \subseteq Int
    BY <1>1
  <2> QED BY <1>1, <1>3, <2>1, ChosenDistinct
<1>6. ASSUME NEW m PROVE Holds(s.found, m) <=> m \in NodesOf(g) /\ Waiting(g, {}, m) = {}
  <2>1. Holds(s.found, m) <=> \E i \in I : g.nodes[i] = m
    <3>1. (\E k \in DOMAIN s.found : s.found[k] = m) <=> \E i \in I : g.nodes[i] = m
      BY <1>3, ChosenMembers
    <3> QED BY <3>1 DEF Holds
  <2>2. m \in NodesOf(g) <=> \E i \in DOMAIN g.nodes : g.nodes[i] = m
    BY NodeIn
  <2>3. Cardinality(Waiting(g, {}, m)) = 0 <=> Waiting(g, {}, m) = {}
    BY WaitingFinite
  <2>4. \A i \in DOMAIN g.nodes : g.nodes[i] = m => (i \in I <=> Waiting(g, {}, m) = {})
    <3> TAKE i \in DOMAIN g.nodes
    <3> HAVE g.nodes[i] = m
    <3>1. i \in I <=> InDegree(g)[m] = 0
      BY DEF I
    <3>2. m \in TaskNames
      BY <1>1
    <3> QED BY <1>2, <2>3, <3>1, <3>2
  <2> QED BY <1>1, <2>1, <2>2, <2>4
<1>7. s.degree \in [TaskNames -> Int]
  <2>1. \A m \in TaskNames : Cardinality(Waiting(g, {}, m)) \in Int
    BY WaitingFinite
  <2>2. s.degree = [m \in TaskNames |-> s.degree[m]]
    BY <1>4 DEF InDegree
  <2> QED BY <1>2, <1>4, <2>1, <2>2
<1>8. \A k \in DOMAIN s.found : s.found[k] \in NodesOf(g) /\ Into(g.edges, s.found[k]) = {}
  <2> TAKE k \in DOMAIN s.found
  <2>1. Holds(s.found, s.found[k])
    BY DEF Holds
  <2>2. s.found[k] \in NodesOf(g) /\ Waiting(g, {}, s.found[k]) = {}
    BY <1>6, <2>1
  <2> QED BY <2>2 DEF Waiting, Into
<1>9. s \in KahnSet
  BY <1>3, <1>4, <1>7 DEF KahnSet
<1>10. Kahn(g, s, {})
  BY <1>2, <1>4, <1>5, <1>6, <1>8, <1>9 DEF Kahn
<1> QED BY <1>10 DEF s

Topo(g) ==
  LET Pop(s, k) == Pops(g, s, k)
  IN Looped(Roots(g), Len(g.nodes), Pop)

LEMMA TopoIs ==
  ASSUME NEW g
  PROVE TopoOrder(g) = Topo(g).found
BY DEF TopoOrder, Topo, Roots, Pops, Looped

\* The rounds of the topological order.
LEMMA TopoGoes ==
  ASSUME NEW g, Well(g), Len(g.nodes) \in Nat
  PROVE \E r \in [0..Len(g.nodes) -> KahnSet] :
           r[0] = Roots(g) /\ r[Len(g.nodes)] = Topo(g) /\ \A k \in 1..Len(g.nodes) : r[k] = Pops(g, r[k - 1], k)
<1> DEFINE Round(t, k) == Pops(g, t, k)
           count == Len(g.nodes)
           s0 == Roots(g)
           S == KahnSet
<1>1. PICK F : F = [k \in 1..count |-> [t \in S |-> Round(t, k)]]
  OBVIOUS
<1>3. s0 \in S /\ count \in Nat /\ \A t \in S, k \in 1..count : Round(t, k) \in S
  <2>1. Roots(g) \in KahnSet
    BY RootsKahn DEF Kahn
  <2> QED BY <2>1, PopsTyped
<1> DEFINE Solves(r) == r = [k \in 0..count |-> IF k = 0 THEN s0 ELSE Round(r[k - 1], k)]
           Goes(r) == r \in [0..count -> S] /\ r[0] = s0 /\ \A k \in 1..count : r[k] = Round(r[k - 1], k)
<1>4. Topo(g) = (CHOOSE r : Solves(r))[count]
  BY DEF Topo, Looped
<1> HIDE DEF count, s0, S, Round
<1>2. \A k \in 1..count, t \in S : F[k][t] = Round(t, k) /\ F[k][t] \in S
  BY <1>1, <1>3
<1>5. \E r : Solves(r)
  <2>1. PICK r \in [0..count -> S] : r[0] = s0 /\ \A k \in 1..count : r[k] = F[k][r[k - 1]]
    <3>1. Rounds(count, S, s0, F)
      BY <1>2, <1>3 DEF Rounds
    <3> QED BY <3>1, CourseExists DEF Course
  <2>2. ASSUME NEW k \in 0..count PROVE r[k] = IF k = 0 THEN s0 ELSE Round(r[k - 1], k)
    <3>1. CASE k = 0
      BY <2>1, <3>1
    <3>2. CASE k # 0
      <4>1. k \in 1..count /\ k - 1 \in 0..count
        BY <1>3, <3>2
      <4>2. r[k] = F[k][r[k - 1]] /\ r[k - 1] \in S
        BY <2>1, <4>1
      <4> QED BY <1>2, <3>2, <4>1, <4>2
    <3> QED BY <3>1, <3>2
  <2>3. Solves(r)
    BY <2>1, <2>2
  <2> QED BY <2>3
<1>6. ASSUME NEW r, Solves(r) PROVE Goes(r)
  <2>1. DOMAIN r = 0..count /\ \A k \in 0..count : r[k] = IF k = 0 THEN s0 ELSE Round(r[k - 1], k)
    BY <1>6
  <2>2. r[0] = s0 /\ \A k \in 1..count : r[k] = Round(r[k - 1], k)
    <3>1. count \in Nat
      BY <1>3
    <3> QED BY <2>1, <3>1
  <2> DEFINE T == {k \in 0..count : r[k] \in S}
  <2>3. T \subseteq 0..count /\ 0 \in T
    BY <1>3, <2>2
  <2>4. ASSUME NEW k \in 1..count, k - 1 \in T PROVE k \in T
    BY <1>3, <2>2, <2>4
  <2>5. T = 0..count
    <3> HIDE DEF T
    <3> QED BY <1>3, <2>3, <2>4, EachRound
  <2>6. \A k \in 0..count : r[k] \in S
    BY <2>5
  <2>7. r \in [0..count -> S]
    BY <1>6, <2>6
  <2> QED BY <2>2, <2>7
<1> DEFINE c == CHOOSE r : Solves(r)
<1>7. Goes(c)
  <2>1. Solves(c)
    <3> HIDE DEF Solves
    <3> QED BY <1>5
  <2> HIDE DEF c, Solves, Goes
  <2> QED BY <1>6, <2>1
<1> HIDE DEF c
<1>8. c \in [0..count -> S] /\ c[0] = s0 /\ c[count] = Topo(g) /\ \A k \in 1..count : c[k] = Round(c[k - 1], k)
  BY <1>4, <1>7 DEF c
<1>9. \E r \in [0..count -> S] :
         r[0] = s0 /\ r[count] = Topo(g) /\ \A k \in 1..count : r[k] = Round(r[k - 1], k)
  BY <1>8
<1> QED BY <1>9 DEF count, s0, S, Round

\* A function that is one to one and onto keeps the number of elements.
LEMMA SameNumber ==
  ASSUME NEW S, NEW U, NEW f \in [S -> U], \A a, b \in S : f[a] = f[b] => a = b, \A u \in U : \E a \in S : f[a] = u,
         IsFiniteSet(S)
  PROVE IsFiniteSet(U) /\ Cardinality(U) = Cardinality(S)
<1>1. f \in Bijection(S, U)
  BY Fun_IsBij
<1>2. ExistsBijection(S, U)
  BY <1>1 DEF ExistsBijection
<1> QED BY <1>2, FS_Bijection

\* A sequence in which nothing is there twice is as long as what it holds is many.
LEMMA DistinctCount ==
  ASSUME NEW X, NEW f \in Seq(X), Distinct(f)
  PROVE IsFiniteSet(ToSet(f)) /\ Cardinality(ToSet(f)) = Len(f) /\ Len(f) \in Nat
<1>1. PICK n \in Nat : n = Len(f) /\ DOMAIN f = 1..n
  BY SeqIs
<1>2. ToSet(f) = {f[k] : k \in 1..n}
  BY <1>1 DEF ToSet
<1>3. f \in [1..n -> ToSet(f)]
  BY <1>1, <1>2
<1>4. (\A a, b \in 1..n : f[a] = f[b] => a = b) /\ \A u \in ToSet(f) : \E a \in 1..n : f[a] = u
  BY <1>1, <1>2 DEF Distinct
<1>5. IsFiniteSet(1..n) /\ Cardinality(1..n) = n
  BY FS_Interval
<1> QED BY <1>1, <1>3, <1>4, <1>5, SameNumber, ZenonT(60)

\* A sequence of nodes, each once, is no longer than the graph has nodes, and as long when it holds them all.
LEMMA OrderLength ==
  ASSUME NEW g, Well(g), NEW f \in Seq(TaskNames), Distinct(f), \A k \in DOMAIN f : f[k] \in NodesOf(g)
  PROVE /\ Len(f) \in Nat /\ Len(g.nodes) \in Nat /\ Len(f) <= Len(g.nodes)
        /\ Len(f) = Len(g.nodes) <=> \A m \in NodesOf(g) : Holds(f, m)
        /\ IsFiniteSet(NodesOf(g)) /\ Cardinality(NodesOf(g)) = Len(g.nodes)
<1>1. g.nodes \in Seq(TaskNames) /\ Distinct(g.nodes)
  BY GraphTyped DEF Well
<1>2. IsFiniteSet(NodesOf(g)) /\ Cardinality(NodesOf(g)) = Len(g.nodes) /\ Len(g.nodes) \in Nat
  BY <1>1, DistinctCount DEF NodesOf
<1>3. IsFiniteSet(ToSet(f)) /\ Cardinality(ToSet(f)) = Len(f) /\ Len(f) \in Nat
  BY DistinctCount
<1>4. \A m : m \in ToSet(f) <=> Holds(f, m)
  BY DEF ToSet, Holds
<1>5. ToSet(f) \subseteq NodesOf(g)
  BY <1>4 DEF Holds
<1>6. /\ Cardinality(ToSet(f)) <= Cardinality(NodesOf(g))
      /\ Cardinality(NodesOf(g)) = Cardinality(ToSet(f)) => NodesOf(g) = ToSet(f)
  BY <1>2, <1>5, FS_Subset
<1>7. (\A m \in NodesOf(g) : Holds(f, m)) => NodesOf(g) = ToSet(f)
  BY <1>4, <1>5
<1> QED BY <1>2, <1>3, <1>4, <1>6, <1>7

\* What the order is: each node at most once, behind all that its edges come from; a node that is not in it
\* has an edge from another such node.
Ordered(g, f) ==
  /\ f \in Seq(TaskNames) /\ Distinct(f) /\ \A k \in DOMAIN f : f[k] \in NodesOf(g)
  /\ \A k \in DOMAIN f : \A i \in Into(g.edges, f[k]) : \E l \in 1..(k - 1) : f[l] = g.edges[i].source
  /\ \A m \in NodesOf(g) : ~Holds(f, m) => \E i \in Into(g.edges, m) : ~Holds(f, g.edges[i].source)

\* The edges out of the first k nodes of f.
Behind(g, f, k) == {i \in DOMAIN g.edges : \E l \in 1..k : l \in DOMAIN f /\ f[l] = g.edges[i].source}

LEMMA TopoOrdered ==
  ASSUME NEW g, Well(g)
  PROVE Ordered(g, TopoOrder(g))
<1>1. PICK n \in Nat : n = Len(g.nodes)
  BY GraphTyped, SeqIs DEF Well
<1>2. PICK r \in [0..n -> KahnSet] : r[0] = Roots(g) /\ r[n] = Topo(g) /\ \A k \in 1..n : r[k] = Pops(g, r[k - 1], k)
  BY <1>1, TopoGoes
<1> DEFINE T == {k \in 0..n : Kahn(g, r[k], Behind(g, r[k].found, k))}
<1>3. 0 \in T
  <2>1. Behind(g, r[0].found, 0) = {}
    BY DEF Behind
  <2>2. Kahn(g, r[0], {})
    BY <1>2, RootsKahn
  <2>3. Kahn(g, r[0], Behind(g, r[0].found, 0))
    BY <2>1, <2>2, Zenon
  <2> QED BY <1>1, <2>3
<1>4. ASSUME NEW k \in 1..n, k - 1 \in T PROVE k \in T
  <2>1. PICK m \in Nat : m = k - 1
    BY <1>1
  <2> DEFINE u == r[m]
             P == Behind(g, u.found, m)
             w == r[k]
  <2>2. Kahn(g, u, P) /\ w = Pops(g, u, k) /\ k \in 0..n /\ k = m + 1
    BY <1>1, <1>2, <1>4, <2>1
  <2>3. u.found \in Seq(TaskNames) /\ Distinct(u.found)
    BY <2>2 DEF Kahn, KahnSet
  <2>4. PICK c \in Nat : DOMAIN u.found = 1..c /\ \A l \in 1..c : u.found[l] \in TaskNames
    BY <2>3, SeqIs
  <2> HIDE DEF w, u, P
  <2>5. CASE k \in DOMAIN u.found
    <3> DEFINE n2 == u.found[k]
    <3>1. n2 \in TaskNames /\ Holds(u.found, n2) /\ w = Visited(g, u, n2)
      BY <2>2, <2>4, <2>5 DEF Holds, Pops
    <3>2. ASSUME NEW i \in P PROVE g.edges[i].source # n2
      <4>1. PICK l \in 1..m : l \in DOMAIN u.found /\ u.found[l] = g.edges[i].source
        BY DEF P, Behind
      <4>2. l # k
        BY <2>2
      <4> QED BY <2>3, <2>5, <4>1, <4>2 DEF Distinct
    <3>3. Kahn(g, w, P \cup From(g.edges, n2)) /\ Begins(u.found, w.found)
      <4> HIDE DEF n2
      <4> QED BY <2>2, <3>1, <3>2, KahnVisit
    <3>4. Behind(g, w.found, k) = P \cup From(g.edges, n2)
      <4>1. \A l \in 1..k : l \in DOMAIN u.found /\ l \in DOMAIN w.found /\ w.found[l] = u.found[l]
        BY <2>4, <2>5, <3>3 DEF Begins
      <4>2. \A l : l \in 1..k <=> l \in 1..m \/ l = k
        BY <2>2
      <4> QED BY <4>1, <4>2 DEF Behind, P, From
    <3> QED BY <2>2, <3>3, <3>4 DEF w
  <2>6. CASE k \notin DOMAIN u.found
    <3>1. w = u
      BY <2>2, <2>6 DEF Pops
    <3>2. Behind(g, w.found, k) = P
      <4>1. \A l : l \in 1..k <=> l \in 1..m \/ l = k
        BY <2>2
      <4> QED BY <2>6, <3>1, <4>1 DEF Behind, P
    <3> QED BY <2>2, <3>1, <3>2 DEF w
  <2> QED BY <2>5, <2>6
<1>5. T = 0..n
  <2>1. T \subseteq 0..n
    OBVIOUS
  <2> HIDE DEF T
  <2> QED BY <1>3, <1>4, <2>1, EachRound
<1>6. n \in T
  BY <1>5
<1> DEFINE f == TopoOrder(g)
           B == Behind(g, f, n)
<1>7. Kahn(g, Topo(g), B) /\ Topo(g).found = f
  BY <1>2, <1>6, TopoIs
<1> HIDE DEF f
<1>8. /\ f \in Seq(TaskNames) /\ Distinct(f) /\ \A k \in DOMAIN f : f[k] \in NodesOf(g)
      /\ \A k \in DOMAIN f : \A i \in Into(g.edges, f[k]) : \E l \in 1..(k - 1) : f[l] = g.edges[i].source
      /\ \A m \in NodesOf(g) : Holds(f, m) <=> Waiting(g, B, m) = {}
  BY <1>7 DEF Kahn, KahnSet
<1>9. Len(f) \in Nat /\ Len(f) <= n /\ DOMAIN f = 1..Len(f)
  BY <1>1, <1>8, OrderLength, SeqIs
<1>10. \A i \in DOMAIN g.edges : Holds(f, g.edges[i].source) => i \in B
  <2> TAKE i \in DOMAIN g.edges
  <2> HAVE Holds(f, g.edges[i].source)
  <2>1. PICK l \in DOMAIN f : f[l] = g.edges[i].source
    BY DEF Holds
  <2>2. l \in 1..n
    BY <1>9
  <2> QED BY <2>1, <2>2 DEF Behind
<1>11. ASSUME NEW m \in NodesOf(g), ~Holds(f, m) PROVE \E i \in Into(g.edges, m) : ~Holds(f, g.edges[i].source)
  <2>1. Waiting(g, B, m) # {}
    BY <1>8, <1>11
  <2>2. PICK i \in DOMAIN g.edges : g.edges[i].target = m /\ i \notin B
    BY <2>1 DEF Waiting
  <2> QED BY <1>10, <2>2 DEF Into
<1>12. Ordered(g, f)
  BY <1>8, <1>11 DEF Ordered
<1> QED BY <1>12 DEF f

\* validate accepts exactly the graphs without a cycle.
LEMMA ValidIs ==
  ASSUME NEW g, Well(g)
  PROVE /\ Valid(g) <=> ~Cyclic(g)
        /\ Valid(g) => \A m \in NodesOf(g) : Holds(TopoOrder(g), m)
<1> DEFINE f == TopoOrder(g)
<1>1. Ordered(g, f)
  BY TopoOrdered
<1>2. /\ f \in Seq(TaskNames) /\ Distinct(f) /\ \A k \in DOMAIN f : f[k] \in NodesOf(g)
      /\ \A k \in DOMAIN f : \A i \in Into(g.edges, f[k]) : \E l \in 1..(k - 1) : f[l] = g.edges[i].source
      /\ \A m \in NodesOf(g) : ~Holds(f, m) => \E i \in Into(g.edges, m) : ~Holds(f, g.edges[i].source)
  BY <1>1 DEF Ordered
<1>3. Valid(g) <=> \A m \in NodesOf(g) : Holds(f, m)
  BY <1>2, OrderLength DEF Valid
<1> HIDE DEF f
<1>4. ASSUME \A m \in NodesOf(g) : Holds(f, m), Cyclic(g) PROVE FALSE
  <2>1. PICK U \in SUBSET NodesOf(g) : U # {} /\ \A u \in U : \E p \in U : Edge(g, p, u)
    BY <1>4 DEF Cyclic
  <2>2. DOMAIN f \subseteq Nat
    BY <1>2
  <2> DEFINE K == {k \in DOMAIN f : f[k] \in U}
  <2>3. K # {}
    BY <1>4, <2>1 DEF Holds
  <2>4. PICK k \in K : \A l \in K : k <= l
    <3>1. K \subseteq Nat
      BY <2>2
    <3> HIDE DEF K
    <3> QED BY <2>3, <3>1, LeastNat
  <2>5. PICK p \in U : Edge(g, p, f[k])
    BY <2>1
  <2>6. PICK i \in DOMAIN g.edges : g.edges[i] = [source |-> p, target |-> f[k]]
    BY <2>5 DEF Edge
  <2>7. i \in Into(g.edges, f[k]) /\ g.edges[i].source = p
    BY <2>6 DEF Into
  <2>8. PICK l \in 1..(k - 1) : f[l] = p
    BY <1>2, <2>7
  <2>9. k \in Nat /\ l \in DOMAIN f
    BY <1>2, <2>2, SeqIs
  <2>10. l \in K /\ ~(k <= l)
    BY <2>5, <2>8, <2>9
  <2> QED BY <2>4, <2>10
<1>5. ASSUME NEW m \in NodesOf(g), ~Holds(f, m) PROVE Cyclic(g)
  <2> DEFINE U == {u \in NodesOf(g) : ~Holds(f, u)}
  <2>1. U \in SUBSET NodesOf(g) /\ U # {}
    BY <1>5
  <2>2. ASSUME NEW u \in U PROVE \E p \in U : Edge(g, p, u)
    <3>1. PICK i \in Into(g.edges, u) : ~Holds(f, g.edges[i].source)
      BY <1>2
    <3>2. i \in DOMAIN g.edges /\ g.edges[i].target = u /\ g.edges[i] \in EdgeSet /\ g.edges[i].source \in NodesOf(g)
      BY EdgesFinite DEF Into, Well, Joined
    <3>3. g.edges[i] = [source |-> g.edges[i].source, target |-> u]
      BY <3>2 DEF EdgeSet
    <3> QED BY <3>1, <3>2, <3>3 DEF Edge
  <2> QED BY <2>1, <2>2 DEF Cyclic
<1> QED BY <1>3, <1>4, <1>5 DEF f

\* f holds every node once, each behind all that its edges come from.
Sorted(g, f) ==
  /\ f \in Seq(TaskNames) /\ Distinct(f)
  /\ \A m : m \in NodesOf(g) <=> \E k \in DOMAIN f : f[k] = m
  /\ \A i \in DOMAIN g.edges, k, l \in DOMAIN f : f[k] = g.edges[i].target /\ f[l] = g.edges[i].source => l < k

LEMMA ValidSorted ==
  ASSUME NEW g, Well(g), Valid(g)
  PROVE Sorted(g, TopoOrder(g))
<1> DEFINE f == TopoOrder(g)
<1>1. /\ f \in Seq(TaskNames) /\ Distinct(f) /\ \A k \in DOMAIN f : f[k] \in NodesOf(g)
      /\ \A k \in DOMAIN f : \A i \in Into(g.edges, f[k]) : \E l \in 1..(k - 1) : f[l] = g.edges[i].source
  BY TopoOrdered DEF Ordered
<1>2. \A m \in NodesOf(g) : Holds(f, m)
  BY ValidIs
<1> HIDE DEF f
<1>3. \A m : m \in NodesOf(g) <=> \E k \in DOMAIN f : f[k] = m
  BY <1>1, <1>2 DEF Holds
<1>4. ASSUME NEW i \in DOMAIN g.edges, NEW k \in DOMAIN f, NEW l \in DOMAIN f,
             f[k] = g.edges[i].target, f[l] = g.edges[i].source
      PROVE l < k
  <2>1. i \in Into(g.edges, f[k])
    BY <1>4 DEF Into
  <2>2. PICK j \in 1..(k - 1) : f[j] = g.edges[i].source
    BY <1>1, <2>1
  <2>3. PICK c \in Nat : DOMAIN f = 1..c
    BY <1>1, SeqIs
  <2>4. k \in 1..c
    BY <2>3
  <2>5. j \in DOMAIN f /\ j < k
    BY <2>2, <2>3, <2>4
  <2>6. f[j] = f[l]
    BY <1>4, <2>2
  <2>7. j = l
    BY <1>1, <2>5, <2>6 DEF Distinct
  <2> QED BY <2>5, <2>7
<1>5. Sorted(g, f)
  BY <1>1, <1>3, <1>4 DEF Sorted
<1> QED BY <1>5 DEF f

-----------------------------------------------------------------------------
(* The parallel groups. *)

\* The edges into m that come from R.
Open(g, R, m) == {i \in DOMAIN g.edges : g.edges[i].target = m /\ g.edges[i].source \in R}
GroupSet == [groups : Seq(SUBSET TaskNames), remaining : SUBSET TaskNames, degree : [TaskNames -> Int]]
Grouping(g) == [groups |-> <<>>, remaining |-> NodesOf(g), degree |-> InDegree(g)]

LEMMA OpenFinite ==
  ASSUME NEW g, Well(g), NEW R, NEW m
  PROVE /\ IsFiniteSet(Open(g, R, m)) /\ Cardinality(Open(g, R, m)) \in Nat
        /\ Cardinality(Open(g, R, m)) = 0 <=> Open(g, R, m) = {}
<1>1. Open(g, R, m) \subseteq DOMAIN g.edges
  BY DEF Open
<1>2. IsFiniteSet(Open(g, R, m))
  BY <1>1, EdgesFinite, FS_Subset
<1> QED BY <1>2, FS_CardinalityType, FS_EmptySet

\* The lists of the nodes that are ready name m as often as there are edges from them into m.
LEMMA PassedCount ==
  ASSUME NEW g, Well(g), NEW ready \in SUBSET TaskNames, NEW m
  PROVE IsFiniteSet(Passed(g, ready, m)) /\ Cardinality(Passed(g, ready, m)) = Cardinality(Open(g, ready, m))
<1> DEFINE Lists(n, h) == /\ Rises(h, Len(g.adj[n]), From(g.edges, n))
                          /\ \A j \in 1..Len(g.adj[n]) : g.adj[n][j] = g.edges[h[j]].target
           H == [n \in TaskNames |-> CHOOSE h : Lists(n, h)]
           S == Passed(g, ready, m)
           U == Open(g, ready, m)
           f == [p \in S |-> H[p[1]][p[2]]]
<1>1. ASSUME NEW n \in TaskNames PROVE Lists(n, H[n])
  <2>1. \E h : Lists(n, h)
    BY OutList
  <2>2. H[n] = CHOOSE h : Lists(n, h)
    OBVIOUS
  <2> HIDE DEF Lists, H
  <2> QED BY <2>1, <2>2
<1> HIDE DEF H
<1>2. \A n \in TaskNames : DOMAIN g.adj[n] = 1..Len(g.adj[n]) /\ Len(g.adj[n]) \in Nat
  BY GraphTyped, SeqIs DEF Well
<1>3. \A p : p \in S <=> \E n \in ready : \E j \in DOMAIN g.adj[n] : p = <<n, j>> /\ g.adj[n][j] = m
  BY DEF Passed
<1>4. \A n, j : <<n, j>> \in S <=> n \in ready /\ j \in DOMAIN g.adj[n] /\ g.adj[n][j] = m
  BY <1>3
<1>5. ASSUME NEW n \in TaskNames, NEW j \in DOMAIN g.adj[n]
      PROVE H[n][j] \in From(g.edges, n) /\ g.adj[n][j] = g.edges[H[n][j]].target
  BY <1>1, <1>2 DEF Rises
<1> HIDE DEF S, Lists
<1>6. ASSUME NEW p \in S PROVE f[p] \in U
  <2>1. PICK n, j : n \in ready /\ j \in DOMAIN g.adj[n] /\ p = <<n, j>> /\ g.adj[n][j] = m
    BY <1>3
  <2>2. f[p] = H[n][j] /\ n \in TaskNames
    BY <2>1
  <2>3. H[n][j] \in From(g.edges, n) /\ m = g.edges[H[n][j]].target
    BY <1>5, <2>1, <2>2
  <2>4. n \in ready
    BY <2>1
  <2> QED BY <2>2, <2>3, <2>4 DEF From, Open
<1>7. f \in [S -> U]
  BY <1>6
<1>8. ASSUME NEW p \in S, NEW q \in S, f[p] = f[q] PROVE p = q
  <2>1. PICK n, j : n \in ready /\ j \in DOMAIN g.adj[n] /\ p = <<n, j>>
    BY <1>3
  <2>2. PICK l, k : l \in ready /\ k \in DOMAIN g.adj[l] /\ q = <<l, k>>
    BY <1>3
  <2>3. n \in TaskNames /\ l \in TaskNames /\ H[n][j] = H[l][k]
    BY <1>8, <2>1, <2>2
  <2>4. n = l
    <3>1. H[n][j] \in From(g.edges, n) /\ H[l][k] \in From(g.edges, l)
      BY <1>5, <2>1, <2>2, <2>3
    <3> QED BY <2>3, <3>1 DEF From
  <2>5. j \in 1..Len(g.adj[n]) /\ k \in 1..Len(g.adj[n]) /\ Len(g.adj[n]) \in Nat
    BY <1>2, <2>1, <2>2, <2>3, <2>4
  <2>6. ~(j < k) /\ ~(k < j)
    <3>1. Rises(H[n], Len(g.adj[n]), From(g.edges, n))
      BY <1>1, <2>3 DEF Lists
    <3>2. (j < k => H[n][j] < H[n][k]) /\ (k < j => H[n][k] < H[n][j])
      BY <2>5, <3>1 DEF Rises
    <3>3. H[n][j] \in Int /\ H[n][k] = H[n][j]
      <4>1. From(g.edges, n) \subseteq Int
        BY EdgesFinite DEF From
      <4> QED BY <1>5, <2>1, <2>3, <2>4, <4>1
    <3> QED BY <3>2, <3>3
  <2> QED BY <2>1, <2>2, <2>4, <2>5, <2>6
<1>9. ASSUME NEW i \in U PROVE \E p \in S : f[p] = i
  <2>1. PICK n \in ready : i \in From(g.edges, n) /\ g.edges[i].target = m /\ n \in TaskNames
    BY DEF Open, From
  <2>2. PICK j \in 1..Len(g.adj[n]) : H[n][j] = i
    BY <1>1, <2>1 DEF Lists, Rises
  <2>3. j \in DOMAIN g.adj[n] /\ g.adj[n][j] = m
    BY <1>1, <1>2, <2>1, <2>2 DEF Lists
  <2>4. PICK p : p = <<n, j>>
    OBVIOUS
  <2>5. p \in S /\ f[p] = i
    BY <1>4, <2>1, <2>2, <2>3, <2>4
  <2> QED BY <2>5
<1>10. IsFiniteSet(U)
  BY OpenFinite
<1> HIDE DEF U, f
<1>11. f \in Injection(S, U) /\ f \in Surjection(S, U)
  <2>1. f \in Injection(S, U)
    BY <1>7, <1>8, Fun_IsInj
  <2>2. f \in Surjection(S, U)
    BY <1>7, <1>9, Fun_IsSurj
  <2> QED BY <2>1, <2>2
<1>12. IsFiniteSet(S) /\ Cardinality(S) = Cardinality(U)
  BY <1>10, <1>11, FS_Injection
<1> QED BY <1>12 DEF S, U

LEMMA GroupedTyped ==
  ASSUME NEW g, Well(g), NEW s \in GroupSet
  PROVE Grouped(g, s) \in GroupSet
<1> DEFINE ready == {n \in s.remaining : s.degree[n] = 0}
<1>1. /\ ready \in SUBSET TaskNames /\ s.remaining \ ready \in SUBSET TaskNames /\ s.groups \in Seq(SUBSET TaskNames)
      /\ s.degree \in [TaskNames -> Int]
  BY DEF GroupSet
<1>2. Append(s.groups, ready) \in Seq(SUBSET TaskNames)
  <2> HIDE DEF ready
  <2> QED BY <1>1, AppendIs
<1>3. [m \in TaskNames |-> s.degree[m] - Cardinality(Passed(g, ready, m))] \in [TaskNames -> Int]
  <2> HIDE DEF ready
  <2>1. \A m : Cardinality(Passed(g, ready, m)) \in Int
    BY <1>1, PassedCount, OpenFinite
  <2> QED BY <1>1, <2>1
<1>4. CASE ready = {}
  BY <1>4 DEF Grouped
<1>5. CASE ready # {}
  <2>1. Grouped(g, s) = [groups |-> Append(s.groups, ready), remaining |-> s.remaining \ ready,
                         degree |-> [m \in TaskNames |-> s.degree[m] - Cardinality(Passed(g, ready, m))]]
    BY <1>5 DEF Grouped
  <2> HIDE DEF ready
  <2> QED BY <1>1, <1>2, <1>3, <2>1 DEF GroupSet
<1> QED BY <1>4, <1>5

LEMMA InDegreeIs ==
  ASSUME NEW g, Well(g)
  PROVE InDegree(g) \in [TaskNames -> Int] /\ \A m \in TaskNames : InDegree(g)[m] = Cardinality(Waiting(g, {}, m))
<1>1. \A m \in TaskNames : InDegree(g)[m] = Cardinality(Waiting(g, {}, m))
  BY DEF InDegree, Waiting
<1>2. \A m : Cardinality(Waiting(g, {}, m)) \in Int
  BY WaitingFinite
<1>3. InDegree(g) = [m \in TaskNames |-> InDegree(g)[m]]
  BY DEF InDegree
<1> QED BY <1>1, <1>2, <1>3

LEMMA NodesAre ==
  ASSUME NEW g, Well(g)
  PROVE NodesOf(g) \subseteq TaskNames
<1>1. g.nodes \in Seq(TaskNames)
  BY GraphTyped DEF Well
<1> QED BY <1>1 DEF NodesOf, ToSet

LEMMA GroupingTyped ==
  ASSUME NEW g, Well(g)
  PROVE Grouping(g) \in GroupSet
<1>1. NodesOf(g) \subseteq TaskNames
  BY NodesAre
<1>2. InDegree(g) \in [TaskNames -> Int]
  BY InDegreeIs
<1> HIDE DEF InDegree
<1> QED BY <1>1, <1>2 DEF Grouping, GroupSet

Groups(g) ==
  LET Round(s, k) == Grouped(g, s)
  IN Looped(Grouping(g), Len(g.nodes), Round)

LEMMA GroupsAre ==
  ASSUME NEW g
  PROVE ParallelGroups(g) = Groups(g).groups
BY DEF ParallelGroups, Groups, Grouping, Looped

\* The rounds of the groups.
LEMMA GroupsGoes ==
  ASSUME NEW g, Well(g), Len(g.nodes) \in Nat
  PROVE \E r \in [0..Len(g.nodes) -> GroupSet] :
           r[0] = Grouping(g) /\ r[Len(g.nodes)] = Groups(g) /\ \A k \in 1..Len(g.nodes) : r[k] = Grouped(g, r[k - 1])
<1> DEFINE Round(t, k) == Grouped(g, t)
           count == Len(g.nodes)
           s0 == Grouping(g)
           S == GroupSet
<1>1. PICK F : F = [k \in 1..count |-> [t \in S |-> Round(t, k)]]
  OBVIOUS
<1>3. s0 \in S /\ count \in Nat /\ \A t \in S, k \in 1..count : Round(t, k) \in S
  BY GroupingTyped, GroupedTyped
<1> DEFINE Solves(r) == r = [k \in 0..count |-> IF k = 0 THEN s0 ELSE Round(r[k - 1], k)]
           Goes(r) == r \in [0..count -> S] /\ r[0] = s0 /\ \A k \in 1..count : r[k] = Round(r[k - 1], k)
<1>4. Groups(g) = (CHOOSE r : Solves(r))[count]
  BY DEF Groups, Looped
<1> HIDE DEF count, s0, S, Round
<1>2. \A k \in 1..count, t \in S : F[k][t] = Round(t, k) /\ F[k][t] \in S
  BY <1>1, <1>3
<1>5. \E r : Solves(r)
  <2>1. PICK r \in [0..count -> S] : r[0] = s0 /\ \A k \in 1..count : r[k] = F[k][r[k - 1]]
    <3>1. Rounds(count, S, s0, F)
      BY <1>2, <1>3 DEF Rounds
    <3> QED BY <3>1, CourseExists DEF Course
  <2>2. ASSUME NEW k \in 0..count PROVE r[k] = IF k = 0 THEN s0 ELSE Round(r[k - 1], k)
    <3>1. CASE k = 0
      BY <2>1, <3>1
    <3>2. CASE k # 0
      <4>1. k \in 1..count /\ k - 1 \in 0..count
        BY <1>3, <3>2
      <4>2. r[k] = F[k][r[k - 1]] /\ r[k - 1] \in S
        BY <2>1, <4>1
      <4> QED BY <1>2, <3>2, <4>1, <4>2
    <3> QED BY <3>1, <3>2
  <2>3. Solves(r)
    BY <2>1, <2>2
  <2> QED BY <2>3
<1>6. ASSUME NEW r, Solves(r) PROVE Goes(r)
  <2>1. DOMAIN r = 0..count /\ \A k \in 0..count : r[k] = IF k = 0 THEN s0 ELSE Round(r[k - 1], k)
    BY <1>6
  <2>2. r[0] = s0 /\ \A k \in 1..count : r[k] = Round(r[k - 1], k)
    <3>1. count \in Nat
      BY <1>3
    <3> QED BY <2>1, <3>1
  <2> DEFINE T == {k \in 0..count : r[k] \in S}
  <2>3. T \subseteq 0..count /\ 0 \in T
    BY <1>3, <2>2
  <2>4. ASSUME NEW k \in 1..count, k - 1 \in T PROVE k \in T
    BY <1>3, <2>2, <2>4
  <2>5. T = 0..count
    <3> HIDE DEF T
    <3> QED BY <1>3, <2>3, <2>4, EachRound
  <2>6. \A k \in 0..count : r[k] \in S
    BY <2>5
  <2>7. r \in [0..count -> S]
    BY <1>6, <2>6
  <2> QED BY <2>2, <2>7
<1> DEFINE c == CHOOSE r : Solves(r)
<1>7. Goes(c)
  <2>1. Solves(c)
    <3> HIDE DEF Solves
    <3> QED BY <1>5
  <2> HIDE DEF c, Solves, Goes
  <2> QED BY <1>6, <2>1
<1> HIDE DEF c
<1>8. c \in [0..count -> S] /\ c[0] = s0 /\ c[count] = Groups(g) /\ \A k \in 1..count : c[k] = Round(c[k - 1], k)
  BY <1>4, <1>7 DEF c
<1>9. \E r \in [0..count -> S] :
         r[0] = s0 /\ r[count] = Groups(g) /\ \A k \in 1..count : r[k] = Round(r[k - 1], k)
  BY <1>8
<1> QED BY <1>9 DEF count, s0, S, Round

\* What the rounds of the groups keep: what is in a group is in one and no more in what remains, behind all that
\* its edges come from and, but for the first group, behind a node of the group before.
Layered(g, s) ==
  /\ s \in GroupSet /\ s.remaining \subseteq NodesOf(g)
  /\ \A m \in TaskNames : s.degree[m] = Cardinality(Open(g, s.remaining, m))
  /\ \A m : m \in NodesOf(g) <=> m \in s.remaining \/ \E t \in DOMAIN s.groups : m \in s.groups[t]
  /\ \A t \in DOMAIN s.groups : \A m \in s.groups[t] : m \notin s.remaining /\ \A u \in DOMAIN s.groups : m \in s.groups[u] => t = u
  /\ \A t \in DOMAIN s.groups : \A m \in s.groups[t] : \A i \in Into(g.edges, m) :
       \E u \in 1..(t - 1) : g.edges[i].source \in s.groups[u]
  /\ \A t \in DOMAIN s.groups : \A m \in s.groups[t] :
       t > 1 => \E i \in Into(g.edges, m) : g.edges[i].source \in s.groups[t - 1]
  /\ \A m \in s.remaining :
       s.groups # <<>> => \E i \in Into(g.edges, m) : g.edges[i].source \in s.remaining \cup s.groups[Len(s.groups)]

LEMMA GroupingLayered ==
  ASSUME NEW g, Well(g)
  PROVE Layered(g, Grouping(g))
<1> DEFINE s == Grouping(g)
<1>1. s \in GroupSet
  BY GroupingTyped
<1>2. s.groups = <<>> /\ s.remaining = NodesOf(g) /\ s.degree = InDegree(g)
  BY DEF Grouping
<1> HIDE DEF s
<1>3. DOMAIN s.groups = {}
  BY <1>2
<1>4. \A m \in TaskNames : s.degree[m] = Cardinality(Open(g, s.remaining, m))
  <2> TAKE m \in TaskNames
  <2>1. Open(g, s.remaining, m) = Waiting(g, {}, m)
    BY <1>2 DEF Open, Waiting, Well, Joined
  <2>2. s.degree[m] = Cardinality(Waiting(g, {}, m))
    BY <1>2, InDegreeIs
  <2> QED BY <2>1, <2>2, Zenon
<1>5. Layered(g, s)
  BY <1>1, <1>2, <1>3, <1>4 DEF Layered
<1> QED BY <1>5 DEF s

LEMMA GroupedLayered ==
  ASSUME NEW g, Well(g), NEW s, Layered(g, s)
  PROVE Layered(g, Grouped(g, s))
<1> DEFINE ready == {n \in s.remaining : s.degree[n] = 0}
           R == s.remaining \ ready
           w == Grouped(g, s)
<1>1. s \in GroupSet /\ s.groups \in Seq(SUBSET TaskNames) /\ s.remaining \subseteq TaskNames /\ s.remaining \subseteq NodesOf(g)
  BY DEF Layered, GroupSet
<1>2. CASE ready = {}
  <2>1. w = s
    BY <1>2 DEF Grouped
  <2> QED BY <2>1
<1>3. CASE ready # {}
  <2>1. /\ w.groups = Append(s.groups, ready) /\ w.remaining = R
        /\ w.degree = [m \in TaskNames |-> s.degree[m] - Cardinality(Passed(g, ready, m))]
    BY <1>3 DEF Grouped
  <2>2. w \in GroupSet
    BY <1>1, GroupedTyped
  <2>3. ready \subseteq s.remaining /\ ready \in SUBSET TaskNames /\ R \subseteq s.remaining /\ ready \cap R = {}
        /\ \A m : m \in s.remaining <=> m \in ready \/ m \in R
    BY <1>1
  <2>4. ASSUME NEW m \in TaskNames PROVE m \in s.remaining => (m \in ready <=> Open(g, s.remaining, m) = {})
    <3>1. s.degree[m] = Cardinality(Open(g, s.remaining, m))
      BY DEF Layered
    <3>2. Cardinality(Open(g, s.remaining, m)) = 0 <=> Open(g, s.remaining, m) = {}
      BY OpenFinite
    <3> QED BY <3>1, <3>2
  <2> HIDE DEF ready, R, w
  <2>5. ASSUME NEW m \in TaskNames PROVE w.degree[m] = Cardinality(Open(g, w.remaining, m))
    <3> DEFINE A == Open(g, R, m)
               B == Open(g, ready, m)
               C == Open(g, s.remaining, m)
    <3>1. C = A \cup B /\ A \cap B = {}
      BY <2>3 DEF Open
    <3>2. IsFiniteSet(A) /\ IsFiniteSet(B) /\ Cardinality(A) \in Nat /\ Cardinality(B) \in Nat
      BY OpenFinite
    <3>3. Cardinality(C) = Cardinality(A) + Cardinality(B)
      <4> HIDE DEF A, B, C
      <4>1. Cardinality(A \cup B) = Cardinality(A) + Cardinality(B) - Cardinality(A \cap B)
        BY <3>2, FS_Union
      <4>2. Cardinality(A \cap B) = 0
        BY <3>1, FS_EmptySet
      <4>3. Cardinality(C) = Cardinality(A \cup B)
        BY <3>1
      <4> QED BY <3>2, <4>1, <4>2, <4>3
    <3>4. Cardinality(Passed(g, ready, m)) = Cardinality(B)
      BY <2>3, PassedCount
    <3>5. s.degree[m] = Cardinality(C)
      BY DEF Layered
    <3>6. w.degree[m] = s.degree[m] - Cardinality(Passed(g, ready, m))
      BY <2>1
    <3>7. Cardinality(A) = Cardinality(Open(g, w.remaining, m))
      BY <2>1
    <3> HIDE DEF A, B, C
    <3> QED BY <3>2, <3>3, <3>4, <3>5, <3>6, <3>7
  <2>6. PICK n \in Nat : n = Len(s.groups) /\ DOMAIN s.groups = 1..n
    BY <1>1, SeqIs
  <2>7. DOMAIN w.groups = 1..(n + 1) /\ w.groups[n + 1] = ready /\ \A t \in 1..n : w.groups[t] = s.groups[t]
    BY <1>1, <2>1, <2>3, <2>6, AppendIs
  <2>8. (\A t \in 1..(n + 1) : t = n + 1 \/ t \in 1..n) /\ n + 1 \in 1..(n + 1) /\ \A t \in 1..n : t \in 1..(n + 1)
    BY <2>6
  <2>9. Len(w.groups) = n + 1
    <3>1. w.groups \in Seq(SUBSET TaskNames)
      BY <2>2 DEF GroupSet
    <3> QED BY <2>7, <3>1
  <2>10. \A m : m \in NodesOf(g) <=> m \in w.remaining \/ \E t \in DOMAIN w.groups : m \in w.groups[t]
    <3> TAKE m
    <3>1. m \in NodesOf(g) <=> m \in s.remaining \/ \E t \in 1..n : m \in s.groups[t]
      BY <2>6 DEF Layered
    <3>2. (\E t \in DOMAIN w.groups : m \in w.groups[t]) <=> m \in ready \/ \E t \in 1..n : m \in s.groups[t]
      BY <2>7, <2>8
    <3> QED BY <2>1, <2>3, <3>1, <3>2
  <2>11. ASSUME NEW t \in DOMAIN w.groups, NEW m \in w.groups[t]
         PROVE m \notin w.remaining /\ \A u \in DOMAIN w.groups : m \in w.groups[u] => t = u
    <3>1. \A u \in 1..n : m \in s.groups[u] => m \notin s.remaining /\ \A v \in 1..n : m \in s.groups[v] => u = v
      BY <2>6 DEF Layered
    <3>2. CASE t = n + 1
      <4>1. m \in ready /\ m \in s.remaining /\ m \notin R
        BY <2>3, <2>7, <2>11, <3>2
      <4> QED BY <2>1, <2>7, <2>8, <3>1, <3>2, <4>1
    <3>3. CASE t \in 1..n
      <4>1. m \in s.groups[t] /\ m \notin s.remaining /\ m \notin ready /\ m \notin R
        BY <2>3, <2>7, <2>11, <3>1, <3>3
      <4> QED BY <2>1, <2>7, <2>8, <3>1, <3>3, <4>1
    <3> QED BY <2>7, <2>8, <3>2, <3>3
  <2>12. ASSUME NEW t \in DOMAIN w.groups, NEW m \in w.groups[t], NEW i \in Into(g.edges, m)
         PROVE \E u \in 1..(t - 1) : g.edges[i].source \in w.groups[u]
    <3>1. CASE t \in 1..n
      <4>1. PICK u \in 1..(t - 1) : g.edges[i].source \in s.groups[u]
        BY <2>6, <2>7, <2>12, <3>1 DEF Layered
      <4>2. u \in 1..n
        BY <2>6, <3>1
      <4> QED BY <2>7, <4>1, <4>2
    <3>2. CASE t = n + 1
      <4>1. m \in ready /\ m \in s.remaining /\ m \in TaskNames
        BY <1>1, <2>3, <2>7, <2>12, <3>2
      <4>2. Open(g, s.remaining, m) = {}
        BY <2>4, <4>1
      <4>3. g.edges[i].source \notin s.remaining /\ g.edges[i].source \in NodesOf(g)
        BY <4>2 DEF Open, Into, Well, Joined
      <4>4. PICK u \in 1..n : g.edges[i].source \in s.groups[u]
        BY <2>6, <4>3 DEF Layered
      <4>5. u \in 1..(t - 1)
        BY <2>6, <3>2
      <4> QED BY <2>7, <4>4, <4>5
    <3> QED BY <2>7, <2>8, <3>1, <3>2
  <2>13. ASSUME NEW t \in DOMAIN w.groups, NEW m \in w.groups[t], t > 1
         PROVE \E i \in Into(g.edges, m) : g.edges[i].source \in w.groups[t - 1]
    <3>1. CASE t \in 1..n
      <4>1. PICK i \in Into(g.edges, m) : g.edges[i].source \in s.groups[t - 1]
        BY <2>6, <2>7, <2>13, <3>1 DEF Layered
      <4>2. t - 1 \in 1..n
        BY <2>6, <2>13, <3>1
      <4> QED BY <2>7, <4>1, <4>2
    <3>2. CASE t = n + 1
      <4>1. m \in ready /\ m \in s.remaining /\ m \in TaskNames /\ n \in 1..n /\ t - 1 = n
        BY <1>1, <2>3, <2>6, <2>7, <2>13, <3>2
      <4>2. s.groups # <<>>
        BY <2>6, <4>1
      <4>3. PICK i \in Into(g.edges, m) : g.edges[i].source \in s.remaining \cup s.groups[Len(s.groups)]
        BY <4>1, <4>2 DEF Layered
      <4>4. Open(g, s.remaining, m) = {}
        BY <2>4, <4>1
      <4>5. g.edges[i].source \notin s.remaining
        BY <4>4 DEF Open, Into
      <4> QED BY <2>6, <2>7, <4>1, <4>3, <4>5
    <3> QED BY <2>7, <2>8, <3>1, <3>2
  <2>14. ASSUME NEW m \in w.remaining
         PROVE \E i \in Into(g.edges, m) : g.edges[i].source \in w.remaining \cup w.groups[Len(w.groups)]
    <3>1. m \in s.remaining /\ m \notin ready /\ m \in TaskNames
      BY <1>1, <2>1, <2>3
    <3>2. Open(g, s.remaining, m) # {}
      BY <2>4, <3>1
    <3>3. PICK i \in Into(g.edges, m) : g.edges[i].source \in s.remaining
      BY <3>2 DEF Open, Into
    <3> QED BY <2>1, <2>3, <2>7, <2>9, <3>3
  <2>15. w.remaining \subseteq NodesOf(g)
    BY <1>1, <2>1, <2>3
  <2>16. Layered(g, w)
    BY <2>2, <2>5, <2>10, <2>11, <2>12, <2>13, <2>14, <2>15 DEF Layered
  <2> QED BY <2>16 DEF w
<1> QED BY <1>2, <1>3

\* In a graph that is sorted some node is ready as long as one remains.
LEMMA SomeReady ==
  ASSUME NEW g, Well(g), NEW f, Sorted(g, f), NEW R, R \subseteq NodesOf(g), R # {}
  PROVE \E m \in R : Open(g, R, m) = {}
<1> DEFINE K == {k \in DOMAIN f : f[k] \in R}
<1>1. DOMAIN f \subseteq Nat /\ \A m \in NodesOf(g) : \E k \in DOMAIN f : f[k] = m
  BY SeqIs DEF Sorted
<1>2. K # {} /\ K \subseteq Nat
  BY <1>1
<1>3. PICK k \in K : \A l \in K : k <= l
  <2> HIDE DEF K
  <2> QED BY <1>2, LeastNat
<1>4. ASSUME NEW i \in Open(g, R, f[k]) PROVE FALSE
  <2>1. i \in DOMAIN g.edges /\ g.edges[i].target = f[k] /\ g.edges[i].source \in R
    BY DEF Open
  <2>2. PICK l \in DOMAIN f : f[l] = g.edges[i].source
    BY <1>1, <2>1
  <2>3. l < k /\ l \in K /\ l \in Nat /\ k \in Nat
    BY <1>1, <2>1, <2>2 DEF Sorted
  <2> QED BY <1>3, <2>3
<1> QED BY <1>4

LEMMA GroupsDone ==
  ASSUME NEW g, Well(g), Valid(g)
  PROVE Layered(g, Groups(g)) /\ Groups(g).remaining = {}
<1>1. PICK n \in Nat : n = Len(g.nodes)
  BY GraphTyped, SeqIs DEF Well
<1>2. PICK r \in [0..n -> GroupSet] : r[0] = Grouping(g) /\ r[n] = Groups(g) /\ \A k \in 1..n : r[k] = Grouped(g, r[k - 1])
  BY <1>1, GroupsGoes
<1>3. IsFiniteSet(NodesOf(g)) /\ Cardinality(NodesOf(g)) = n
  <2>1. g.nodes \in Seq(TaskNames) /\ Distinct(g.nodes)
    BY GraphTyped DEF Well
  <2> QED BY <1>1, <2>1, DistinctCount DEF NodesOf
<1> DEFINE T == {k \in 0..n : /\ Layered(g, r[k])
                              /\ r[k].remaining # {} => Cardinality(r[k].remaining) + k <= n}
<1>4. 0 \in T
  <2>1. r[0].remaining = NodesOf(g)
    BY <1>2 DEF Grouping
  <2>2. Layered(g, r[0])
    BY <1>2, GroupingLayered
  <2>3. Cardinality(r[0].remaining) + 0 <= n
    BY <1>3, <2>1
  <2> QED BY <1>1, <2>2, <2>3
<1>5. ASSUME NEW k \in 1..n, k - 1 \in T PROVE k \in T
  <2>1. PICK m \in Nat : m = k - 1
    BY <1>1
  <2> DEFINE s == r[m]
             R == s.remaining
             w == r[k]
             ready == {x \in s.remaining : s.degree[x] = 0}
  <2>2. Layered(g, s) /\ (R # {} => Cardinality(R) + m <= n) /\ w = Grouped(g, s) /\ k \in 0..n /\ k = m + 1
    BY <1>1, <1>2, <1>5, <2>1
  <2>3. Layered(g, w)
    BY <2>2, GroupedLayered
  <2>4. R \subseteq NodesOf(g)
    BY <2>2 DEF Layered
  <2>5. IsFiniteSet(R) /\ Cardinality(R) \in Nat
    <3> HIDE DEF R
    <3> QED BY <1>3, <2>4, FS_Subset, FS_CardinalityType
  <2>6. w.remaining = R \ ready
    <3>1. CASE ready = {}
      BY <2>2, <3>1 DEF Grouped
    <3>2. CASE ready # {}
      BY <2>2, <3>2 DEF Grouped
    <3> QED BY <3>1, <3>2
  <2>7. ASSUME w.remaining # {} PROVE Cardinality(w.remaining) + k <= n
    <3>1. R # {}
      BY <2>6, <2>7
    <3>2. PICK x \in R : Open(g, R, x) = {}
      <4>1. Sorted(g, TopoOrder(g))
        BY ValidSorted
      <4> HIDE DEF R
      <4> QED BY <2>4, <3>1, <4>1, SomeReady
    <3>3. x \in ready
      <4>1. x \in TaskNames
        BY <2>4, NodesAre
      <4>2. s.degree[x] = Cardinality(Open(g, R, x))
        BY <2>2, <4>1 DEF Layered
      <4>3. Cardinality(Open(g, R, x)) = 0
        BY <3>2, OpenFinite
      <4> QED BY <4>2, <4>3
    <3>4. w.remaining \subseteq R \ {x}
      BY <2>6, <3>3
    <3> HIDE DEF w, R, s, ready
    <3>5. IsFiniteSet(R \ {x}) /\ Cardinality(R \ {x}) = Cardinality(R) - 1
      BY <2>5, <3>2, FS_RemoveElement
    <3>6. IsFiniteSet(w.remaining) /\ Cardinality(w.remaining) <= Cardinality(R \ {x})
      BY <3>4, <3>5, FS_Subset
    <3>7. Cardinality(w.remaining) \in Nat
      BY <3>6, FS_CardinalityType
    <3> QED BY <2>2, <2>5, <3>1, <3>5, <3>6, <3>7
  <2> QED BY <2>2, <2>3, <2>7
<1>6. T = 0..n
  <2>1. T \subseteq 0..n
    OBVIOUS
  <2> HIDE DEF T
  <2> QED BY <1>4, <1>5, <2>1, EachRound
<1>7. n \in T
  BY <1>6
<1>8. Layered(g, r[n]) /\ (r[n].remaining # {} => Cardinality(r[n].remaining) + n <= n)
  BY <1>7
<1>9. r[n].remaining = {}
  <2>1. r[n].remaining \subseteq NodesOf(g)
    BY <1>8 DEF Layered
  <2>2. IsFiniteSet(r[n].remaining)
    BY <1>3, <2>1, FS_Subset
  <2>3. Cardinality(r[n].remaining) \in Nat
    BY <2>2, FS_CardinalityType
  <2>4. Cardinality(r[n].remaining) = 0 <=> r[n].remaining = {}
    BY <2>2, FS_EmptySet
  <2> QED BY <1>8, <2>3, <2>4
<1> QED BY <1>2, <1>8, <1>9

\* What is said of the groups.
LEMMA GroupsRight ==
  ASSUME NEW g, Well(g), Valid(g)
  PROVE LET groups == ParallelGroups(g)
            Group(n) == CHOOSE i \in DOMAIN groups : n \in groups[i]
        IN /\ UNION ToSet(groups) = NodesOf(g)
           /\ \A n \in NodesOf(g) : Group(n) > 1 => \E p \in NodesOf(g) : Edge(g, p, n) /\ Group(p) = Group(n) - 1
           /\ \A i \in DOMAIN g.edges : Group(g.edges[i].source) < Group(g.edges[i].target)
<1> DEFINE s == Groups(g)
           G == ParallelGroups(g)
           Group(n) == CHOOSE i \in DOMAIN G : n \in G[i]
<1>1. Layered(g, s) /\ s.remaining = {} /\ s.groups = G
  BY GroupsDone, GroupsAre
<1> HIDE DEF s, G
<1>2. PICK c \in Nat : DOMAIN G = 1..c
  <2>1. G \in Seq(SUBSET TaskNames)
    BY <1>1 DEF Layered, GroupSet
  <2> QED BY <2>1, SeqIs
<1>3. \A m : m \in NodesOf(g) <=> \E t \in DOMAIN G : m \in G[t]
  BY <1>1 DEF Layered
<1>4. \A t \in DOMAIN G : \A m \in G[t] : \A u \in DOMAIN G : m \in G[u] => t = u
  BY <1>1 DEF Layered
<1>5. UNION ToSet(G) = NodesOf(g)
  BY <1>3 DEF ToSet
<1>6. \A n \in NodesOf(g) : Group(n) \in DOMAIN G /\ n \in G[Group(n)]
  BY <1>3
<1>7. \A t \in DOMAIN G : \A m \in G[t] : m \in NodesOf(g) /\ Group(m) = t
  BY <1>3, <1>4, <1>6
<1> HIDE DEF Group
<1>8. ASSUME NEW n \in NodesOf(g), Group(n) > 1
      PROVE \E p \in NodesOf(g) : Edge(g, p, n) /\ Group(p) = Group(n) - 1
  <2>1. PICK i \in Into(g.edges, n) : g.edges[i].source \in G[Group(n) - 1]
    BY <1>1, <1>6, <1>8 DEF Layered
  <2>2. Group(n) - 1 \in DOMAIN G
    BY <1>2, <1>6, <1>8
  <2>3. g.edges[i].source \in NodesOf(g) /\ Group(g.edges[i].source) = Group(n) - 1
    BY <1>7, <2>1, <2>2
  <2>4. i \in DOMAIN g.edges /\ g.edges[i] \in EdgeSet /\ g.edges[i].target = n
    BY EdgesFinite DEF Into
  <2>5. g.edges[i] = [source |-> g.edges[i].source, target |-> n]
    BY <2>4 DEF EdgeSet
  <2>6. Edge(g, g.edges[i].source, n)
    BY <2>4, <2>5 DEF Edge
  <2> QED BY <2>3, <2>6
<1>9. ASSUME NEW i \in DOMAIN g.edges PROVE Group(g.edges[i].source) < Group(g.edges[i].target)
  <2>1. g.edges[i].target \in NodesOf(g) /\ i \in Into(g.edges, g.edges[i].target)
    BY DEF Well, Joined, Into
  <2>2. Group(g.edges[i].target) \in DOMAIN G /\ g.edges[i].target \in G[Group(g.edges[i].target)]
    BY <1>6, <2>1
  <2>3. PICK u \in 1..(Group(g.edges[i].target) - 1) : g.edges[i].source \in G[u]
    BY <1>1, <2>1, <2>2 DEF Layered
  <2>4. u \in DOMAIN G /\ u < Group(g.edges[i].target)
    BY <1>2, <2>2, <2>3
  <2>5. Group(g.edges[i].source) = u
    BY <1>7, <2>3, <2>4
  <2> QED BY <2>4, <2>5
<1> QED BY <1>5, <1>8, <1>9 DEF Group, G

-----------------------------------------------------------------------------
(* The critical path. *)

\* The distances once the edges P are relaxed: no edge of P can be relaxed again, and what stands for a node
\* is nothing yet or comes over an edge of P.
Distances == [TaskNames -> [dist : Nat, prev : Seq(TaskNames)]]
Slack(g, d, i) == d[g.edges[i].source].dist + Latency[g.edges[i].source] <= d[g.edges[i].target].dist
Reached(g, d, i, m) ==
  /\ g.edges[i].target = m /\ d[m].prev = <<g.edges[i].source>>
  /\ d[m].dist = d[g.edges[i].source].dist + Latency[g.edges[i].source]
Measured(g, d, P) ==
  /\ d \in Distances /\ P \subseteq DOMAIN g.edges
  /\ \A i \in P : Slack(g, d, i)
  /\ \A m \in TaskNames : (d[m].prev = <<>> /\ d[m].dist = 0) \/ \E i \in P : Reached(g, d, i, m)

LEMMA LatencyIs == \A n \in TaskNames : Latency[n] \in Nat
BY GraphAssumption

LEMMA EdgeEnds ==
  ASSUME NEW g, Well(g), NEW i \in DOMAIN g.edges
  PROVE /\ g.edges[i].source \in TaskNames /\ g.edges[i].target \in TaskNames
        /\ g.edges[i].source # g.edges[i].target
        /\ g.edges[i].source \in NodesOf(g) /\ g.edges[i].target \in NodesOf(g)
<1>1. g.edges[i] \in EdgeSet
  BY EdgesFinite
<1> QED BY <1>1 DEF EdgeSet, Well, Joined

LEMMA RelaxTyped ==
  ASSUME NEW d \in Distances, NEW n \in TaskNames, NEW c \in TaskNames
  PROVE /\ Relax(d, n, c) \in Distances /\ d[n].dist \in Nat /\ d[c].dist \in Nat
        /\ \A m \in TaskNames : m # c => Relax(d, n, c)[m] = d[m]
        /\ d[n].dist + Latency[n] > d[c].dist =>
             Relax(d, n, c)[c].dist = d[n].dist + Latency[n] /\ Relax(d, n, c)[c].prev = <<n>>
        /\ ~(d[n].dist + Latency[n] > d[c].dist) => Relax(d, n, c) = d
<1>1. Latency[n] \in Nat /\ d[n].dist \in Nat /\ d[c].dist \in Nat
  BY LatencyIs DEF Distances
<1>2. [dist |-> d[n].dist + Latency[n], prev |-> <<n>>] \in [dist : Nat, prev : Seq(TaskNames)]
  BY <1>1
<1> QED BY <1>1, <1>2 DEF Relax, Distances

\* To relax an edge into a node whose own edges are not relaxed yet.
LEMMA RelaxEdge ==
  ASSUME NEW g, Well(g), NEW P, NEW d, Measured(g, d, P), NEW i \in DOMAIN g.edges,
         \A j \in P : g.edges[j].source # g.edges[i].target
  PROVE Measured(g, Relax(d, g.edges[i].source, g.edges[i].target), P \cup {i})
<1>1. PICK n \in TaskNames, c \in TaskNames : n = g.edges[i].source /\ c = g.edges[i].target /\ n # c
  BY EdgeEnds
<1>2. d \in Distances /\ P \subseteq DOMAIN g.edges
  BY DEF Measured
<1>3. PICK e : e = Relax(d, n, c)
  OBVIOUS
<1>4. /\ e \in Distances /\ d[n].dist \in Nat /\ d[c].dist \in Nat /\ Latency[n] \in Nat
      /\ \A m \in TaskNames : m # c => e[m] = d[m]
      /\ d[n].dist + Latency[n] > d[c].dist => e[c].dist = d[n].dist + Latency[n] /\ e[c].prev = <<n>>
      /\ ~(d[n].dist + Latency[n] > d[c].dist) => e = d
  BY <1>2, <1>3, RelaxTyped, LatencyIs, ZenonT(60)
<1>5. e[n] = d[n] /\ d[c].dist <= e[c].dist /\ d[n].dist + Latency[n] <= e[c].dist
  BY <1>1, <1>4
<1>6. \A j \in P : g.edges[j].source \in TaskNames /\ g.edges[j].target \in TaskNames
                   /\ e[g.edges[j].source] = d[g.edges[j].source]
  BY <1>1, <1>2, <1>4, EdgeEnds
<1>7. ASSUME NEW j \in P PROVE Slack(g, e, j)
  <2>1. d[g.edges[j].source].dist + Latency[g.edges[j].source] <= d[g.edges[j].target].dist
    BY DEF Measured, Slack
  <2>2. d[g.edges[j].source].dist \in Nat /\ Latency[g.edges[j].source] \in Nat /\ d[g.edges[j].target].dist \in Nat
    BY <1>2, <1>6, LatencyIs DEF Distances
  <2>3. e[g.edges[j].target].dist \in Nat /\ d[g.edges[j].target].dist <= e[g.edges[j].target].dist
    <3>1. CASE g.edges[j].target = c
      BY <1>4, <1>5, <2>2, <3>1 DEF Distances
    <3>2. CASE g.edges[j].target # c
      <4>1. e[g.edges[j].target] = d[g.edges[j].target]
        BY <1>4, <1>6, <3>2
      <4> QED BY <2>2, <4>1
    <3> QED BY <3>1, <3>2
  <2> QED BY <1>6, <2>1, <2>2, <2>3 DEF Slack
<1>8. Slack(g, e, i)
  BY <1>1, <1>5 DEF Slack
<1>9. ASSUME NEW m \in TaskNames, NEW j \in P, Reached(g, d, j, m), e[m] = d[m] PROVE Reached(g, e, j, m)
  BY <1>6, <1>9 DEF Reached
<1>10. ASSUME NEW m \in TaskNames, e[m] = d[m]
       PROVE (e[m].prev = <<>> /\ e[m].dist = 0) \/ \E j \in P \cup {i} : Reached(g, e, j, m)
  <2>1. (d[m].prev = <<>> /\ d[m].dist = 0) \/ \E j \in P : Reached(g, d, j, m)
    BY DEF Measured
  <2> QED BY <1>9, <1>10, <2>1
<1>11. ASSUME e[c] # d[c] PROVE Reached(g, e, i, c)
  BY <1>1, <1>4, <1>5, <1>11 DEF Reached
<1>12. \A m \in TaskNames : (e[m].prev = <<>> /\ e[m].dist = 0) \/ \E j \in P \cup {i} : Reached(g, e, j, m)
  BY <1>4, <1>10, <1>11
<1> QED BY <1>1, <1>2, <1>3, <1>4, <1>7, <1>8, <1>12 DEF Measured

\* The rounds in which the edges out of a node are relaxed.
LEMMA LeftGoes ==
  ASSUME NEW g, Well(g), NEW d \in Distances, NEW n \in TaskNames
  PROVE \E r \in [0..Len(g.adj[n]) -> Distances] :
           r[0] = d /\ r[Len(g.adj[n])] = Left(g, d, n) /\ \A k \in 1..Len(g.adj[n]) : r[k] = Relax(r[k - 1], n, g.adj[n][k])
<1> DEFINE Round(t, k) == Relax(t, n, g.adj[n][k])
           count == Len(g.adj[n])
           s0 == d
           S == Distances
<1>1. PICK F : F = [k \in 1..count |-> [t \in S |-> Round(t, k)]]
  OBVIOUS
<1>3. s0 \in S /\ count \in Nat /\ \A t \in S, k \in 1..count : Round(t, k) \in S
  BY OwnList, RelaxTyped
<1> DEFINE Solves(r) == r = [k \in 0..count |-> IF k = 0 THEN s0 ELSE Round(r[k - 1], k)]
           Goes(r) == r \in [0..count -> S] /\ r[0] = s0 /\ \A k \in 1..count : r[k] = Round(r[k - 1], k)
<1>4. Left(g, d, n) = (CHOOSE r : Solves(r))[count]
  BY DEF Left, Looped
<1> HIDE DEF count, s0, S, Round
<1>2. \A k \in 1..count, t \in S : F[k][t] = Round(t, k) /\ F[k][t] \in S
  BY <1>1, <1>3
<1>5. \E r : Solves(r)
  <2>1. PICK r \in [0..count -> S] : r[0] = s0 /\ \A k \in 1..count : r[k] = F[k][r[k - 1]]
    <3>1. Rounds(count, S, s0, F)
      BY <1>2, <1>3 DEF Rounds
    <3> QED BY <3>1, CourseExists DEF Course
  <2>2. ASSUME NEW k \in 0..count PROVE r[k] = IF k = 0 THEN s0 ELSE Round(r[k - 1], k)
    <3>1. CASE k = 0
      BY <2>1, <3>1
    <3>2. CASE k # 0
      <4>1. k \in 1..count /\ k - 1 \in 0..count
        BY <1>3, <3>2
      <4>2. r[k] = F[k][r[k - 1]] /\ r[k - 1] \in S
        BY <2>1, <4>1
      <4> QED BY <1>2, <3>2, <4>1, <4>2
    <3> QED BY <3>1, <3>2
  <2>3. Solves(r)
    BY <2>1, <2>2
  <2> QED BY <2>3
<1>6. ASSUME NEW r, Solves(r) PROVE Goes(r)
  <2>1. DOMAIN r = 0..count /\ \A k \in 0..count : r[k] = IF k = 0 THEN s0 ELSE Round(r[k - 1], k)
    BY <1>6
  <2>2. r[0] = s0 /\ \A k \in 1..count : r[k] = Round(r[k - 1], k)
    <3>1. count \in Nat
      BY <1>3
    <3> QED BY <2>1, <3>1
  <2> DEFINE T == {k \in 0..count : r[k] \in S}
  <2>3. T \subseteq 0..count /\ 0 \in T
    BY <1>3, <2>2
  <2>4. ASSUME NEW k \in 1..count, k - 1 \in T PROVE k \in T
    BY <1>3, <2>2, <2>4
  <2>5. T = 0..count
    <3> HIDE DEF T
    <3> QED BY <1>3, <2>3, <2>4, EachRound
  <2>6. \A k \in 0..count : r[k] \in S
    BY <2>5
  <2>7. r \in [0..count -> S]
    BY <1>6, <2>6
  <2> QED BY <2>2, <2>7
<1> DEFINE c == CHOOSE r : Solves(r)
<1>7. Goes(c)
  <2>1. Solves(c)
    <3> HIDE DEF Solves
    <3> QED BY <1>5
  <2> HIDE DEF c, Solves, Goes
  <2> QED BY <1>6, <2>1
<1> HIDE DEF c
<1>8. c \in [0..count -> S] /\ c[0] = s0 /\ c[count] = Left(g, d, n) /\ \A k \in 1..count : c[k] = Round(c[k - 1], k)
  BY <1>4, <1>7 DEF c
<1>9. \E r \in [0..count -> S] :
         r[0] = s0 /\ r[count] = Left(g, d, n) /\ \A k \in 1..count : r[k] = Round(r[k - 1], k)
  BY <1>8
<1> QED BY <1>9 DEF count, s0, S, Round

\* All edges out of n are relaxed, when those out of its successors are not yet.
LEMMA LeftMeasured ==
  ASSUME NEW g, Well(g), NEW P, NEW d, Measured(g, d, P), NEW n \in TaskNames,
         \A i \in From(g.edges, n) : \A j \in P : g.edges[j].source # g.edges[i].target
  PROVE Measured(g, Left(g, d, n), P \cup From(g.edges, n))
<1> DEFINE I == From(g.edges, n)
<1>1. PICK h, c : /\ Rises(h, c, I) /\ c \in Nat /\ c = Len(g.adj[n])
                  /\ \A j \in 1..c : g.adj[n][j] = g.edges[h[j]].target
  BY OutList
<1>2. d \in Distances
  BY DEF Measured
<1>3. PICK r \in [0..c -> Distances] :
        r[0] = d /\ r[c] = Left(g, d, n) /\ \A k \in 1..c : r[k] = Relax(r[k - 1], n, g.adj[n][k])
  BY <1>1, <1>2, LeftGoes
<1>4. I \subseteq Int /\ I \subseteq DOMAIN g.edges /\ \A i \in I : g.edges[i].source = n
  BY EdgesFinite DEF From
<1> DEFINE U(k) == P \cup Some(h, k)
<1>5. /\ U(0) = P /\ U(c) = P \cup I
      /\ \A k \in 1..c : h[k] \in I /\ U(k) = U(k - 1) \cup {h[k]}
  <2>1. Some(h, 0) = {} /\ Some(h, c) = I
    BY <1>1, SomeNone
  <2>2. ASSUME NEW k \in 1..c PROVE h[k] \in I /\ U(k) = U(k - 1) \cup {h[k]}
    <3>1. h[k] \in I /\ h[k] \notin Some(h, k - 1) /\ Some(h, k) = Some(h, k - 1) \cup {h[k]}
      <4>1. I \subseteq Int /\ Rises(h, c, I)
        BY <1>1, <1>4
      <4> HIDE DEF I
      <4> QED BY <4>1, SomeOn
    <3> QED BY <3>1
  <2> QED BY <2>1, <2>2
<1>6. ASSUME NEW k \in 1..c, NEW j \in U(k - 1), NEW i \in I PROVE g.edges[j].source # g.edges[i].target
  <2>1. CASE j \in P
    BY <2>1
  <2>2. CASE j \in Some(h, k - 1)
    <3>1. PICK l \in 1..(k - 1) : j = h[l]
      BY <2>2 DEF Some
    <3>2. l \in 1..c
      BY <1>1, <3>1
    <3>3. g.edges[j].source = n
      BY <1>4, <1>5, <3>1, <3>2
    <3> QED BY <1>4, <3>3, EdgeEnds
  <2> QED BY <2>1, <2>2
<1> DEFINE T == {k \in 0..c : Measured(g, r[k], U(k))}
<1> HIDE DEF I, U
<1>7. 0 \in T
  BY <1>1, <1>3, <1>5
<1>8. ASSUME NEW k \in 1..c, k - 1 \in T PROVE k \in T
  <2> DEFINE Q == U(k - 1)
             u == r[k - 1]
             i == h[k]
  <2>1. Measured(g, u, Q)
    BY <1>8
  <2>2. i \in DOMAIN g.edges /\ g.edges[i].source = n /\ \A j \in Q : g.edges[j].source # g.edges[i].target
    BY <1>4, <1>5, <1>6
  <2>3. r[k] = Relax(u, g.edges[i].source, g.edges[i].target) /\ U(k) = Q \cup {i}
    BY <1>1, <1>3, <1>5, <2>2
  <2> HIDE DEF Q, u, i
  <2>4. Measured(g, Relax(u, g.edges[i].source, g.edges[i].target), Q \cup {i})
    BY <2>1, <2>2, RelaxEdge
  <2>5. Measured(g, r[k], U(k))
    BY <2>3, <2>4, Zenon
  <2> QED BY <1>1, <2>5
<1>9. T = 0..c
  <2>1. T \subseteq 0..c
    OBVIOUS
  <2> HIDE DEF T
  <2> QED BY <1>1, <1>7, <1>8, <2>1, EachRound
<1>10. c \in T
  BY <1>1, <1>9
<1>11. Measured(g, r[c], U(c))
  BY <1>10
<1> QED BY <1>3, <1>5, <1>11 DEF I

LEMMA LeftTyped ==
  ASSUME NEW g, Well(g), NEW d \in Distances, NEW n \in TaskNames
  PROVE Left(g, d, n) \in Distances
<1>1. PICK r \in [0..Len(g.adj[n]) -> Distances] : r[Len(g.adj[n])] = Left(g, d, n)
  BY LeftGoes
<1>2. Len(g.adj[n]) \in 0..Len(g.adj[n])
  BY OwnList
<1> QED BY <1>1, <1>2

NoDistances == [n \in TaskNames |-> [dist |-> 0, prev |-> <<>>]]
Leaving(g, f) ==
  LET Leave(d, k) == Left(g, d, f[k])
  IN Looped(NoDistances, Len(f), Leave)

LEMMA RelaxedIs ==
  ASSUME NEW g
  PROVE Relaxed(g) = Leaving(g, TopoOrder(g))
BY DEF Relaxed, Leaving, NoDistances, Looped

\* The rounds in which the nodes are left in order.
LEMMA LeavingGoes ==
  ASSUME NEW g, Well(g), NEW f \in Seq(TaskNames)
  PROVE \E r \in [0..Len(f) -> Distances] :
           r[0] = NoDistances /\ r[Len(f)] = Leaving(g, f) /\ \A k \in 1..Len(f) : r[k] = Left(g, r[k - 1], f[k])
<1> DEFINE Round(t, k) == Left(g, t, f[k])
           count == Len(f)
           s0 == NoDistances
           S == Distances
<1>1. PICK F : F = [k \in 1..count |-> [t \in S |-> Round(t, k)]]
  OBVIOUS
<1>3. s0 \in S /\ count \in Nat /\ \A t \in S, k \in 1..count : Round(t, k) \in S
  <2>1. NoDistances \in Distances
    BY DEF NoDistances, Distances
  <2>2. Len(f) \in Nat /\ \A k \in 1..Len(f) : f[k] \in TaskNames
    OBVIOUS
  <2> QED BY <2>1, <2>2, LeftTyped
<1> DEFINE Solves(r) == r = [k \in 0..count |-> IF k = 0 THEN s0 ELSE Round(r[k - 1], k)]
           Goes(r) == r \in [0..count -> S] /\ r[0] = s0 /\ \A k \in 1..count : r[k] = Round(r[k - 1], k)
<1>4. Leaving(g, f) = (CHOOSE r : Solves(r))[count]
  BY DEF Leaving, Looped
<1> HIDE DEF count, s0, S, Round
<1>2. \A k \in 1..count, t \in S : F[k][t] = Round(t, k) /\ F[k][t] \in S
  BY <1>1, <1>3
<1>5. \E r : Solves(r)
  <2>1. PICK r \in [0..count -> S] : r[0] = s0 /\ \A k \in 1..count : r[k] = F[k][r[k - 1]]
    <3>1. Rounds(count, S, s0, F)
      BY <1>2, <1>3 DEF Rounds
    <3> QED BY <3>1, CourseExists DEF Course
  <2>2. ASSUME NEW k \in 0..count PROVE r[k] = IF k = 0 THEN s0 ELSE Round(r[k - 1], k)
    <3>1. CASE k = 0
      BY <2>1, <3>1
    <3>2. CASE k # 0
      <4>1. k \in 1..count /\ k - 1 \in 0..count
        BY <1>3, <3>2
      <4>2. r[k] = F[k][r[k - 1]] /\ r[k - 1] \in S
        BY <2>1, <4>1
      <4> QED BY <1>2, <3>2, <4>1, <4>2
    <3> QED BY <3>1, <3>2
  <2>3. Solves(r)
    BY <2>1, <2>2
  <2> QED BY <2>3
<1>6. ASSUME NEW r, Solves(r) PROVE Goes(r)
  <2>1. DOMAIN r = 0..count /\ \A k \in 0..count : r[k] = IF k = 0 THEN s0 ELSE Round(r[k - 1], k)
    BY <1>6
  <2>2. r[0] = s0 /\ \A k \in 1..count : r[k] = Round(r[k - 1], k)
    <3>1. count \in Nat
      BY <1>3
    <3> QED BY <2>1, <3>1
  <2> DEFINE T == {k \in 0..count : r[k] \in S}
  <2>3. T \subseteq 0..count /\ 0 \in T
    BY <1>3, <2>2
  <2>4. ASSUME NEW k \in 1..count, k - 1 \in T PROVE k \in T
    BY <1>3, <2>2, <2>4
  <2>5. T = 0..count
    <3> HIDE DEF T
    <3> QED BY <1>3, <2>3, <2>4, EachRound
  <2>6. \A k \in 0..count : r[k] \in S
    BY <2>5
  <2>7. r \in [0..count -> S]
    BY <1>6, <2>6
  <2> QED BY <2>2, <2>7
<1> DEFINE c == CHOOSE r : Solves(r)
<1>7. Goes(c)
  <2>1. Solves(c)
    <3> HIDE DEF Solves
    <3> QED BY <1>5
  <2> HIDE DEF c, Solves, Goes
  <2> QED BY <1>6, <2>1
<1> HIDE DEF c
<1>8. c \in [0..count -> S] /\ c[0] = s0 /\ c[count] = Leaving(g, f) /\ \A k \in 1..count : c[k] = Round(c[k - 1], k)
  BY <1>4, <1>7 DEF c
<1>9. \E r \in [0..count -> S] :
         r[0] = s0 /\ r[count] = Leaving(g, f) /\ \A k \in 1..count : r[k] = Round(r[k - 1], k)
  BY <1>8
<1> QED BY <1>9 DEF count, s0, S, Round

\* In a sorted graph, all edges are relaxed when every node is left.
LEMMA LeavingMeasured ==
  ASSUME NEW g, Well(g), NEW f, Sorted(g, f)
  PROVE Measured(g, Leaving(g, f), DOMAIN g.edges)
<1>1. PICK n \in Nat : f \in Seq(TaskNames) /\ n = Len(f) /\ DOMAIN f = 1..n /\ \A k \in 1..n : f[k] \in TaskNames
  BY SeqIs DEF Sorted
<1>2. PICK r \in [0..n -> Distances] :
        r[0] = NoDistances /\ r[n] = Leaving(g, f) /\ \A k \in 1..n : r[k] = Left(g, r[k - 1], f[k])
  BY <1>1, LeavingGoes
<1> DEFINE T == {k \in 0..n : Measured(g, r[k], Behind(g, f, k))}
<1>3. 0 \in T
  <2>1. Behind(g, f, 0) = {}
    BY DEF Behind
  <2>2. Measured(g, r[0], {})
    <3>1. r[0] \in Distances /\ \A m \in TaskNames : r[0][m].prev = <<>> /\ r[0][m].dist = 0
      BY <1>1, <1>2 DEF NoDistances
    <3> QED BY <3>1 DEF Measured
  <2>3. Measured(g, r[0], Behind(g, f, 0))
    BY <2>1, <2>2, Zenon
  <2> QED BY <1>1, <2>3
<1>4. ASSUME NEW k \in 1..n, k - 1 \in T PROVE k \in T
  <2>1. PICK m \in Nat : m = k - 1
    BY <1>1
  <2> DEFINE P == Behind(g, f, m)
             u == r[m]
             x == f[k]
  <2>2. Measured(g, u, P) /\ r[k] = Left(g, u, x) /\ x \in TaskNames /\ k \in 0..n /\ k = m + 1
    BY <1>1, <1>2, <1>4, <2>1
  <2>3. ASSUME NEW i \in From(g.edges, x), NEW j \in P PROVE g.edges[j].source # g.edges[i].target
    <3>1. PICK l \in 1..m : l \in DOMAIN f /\ f[l] = g.edges[j].source
      BY DEF Behind
    <3>2. i \in DOMAIN g.edges /\ g.edges[i].source = x /\ g.edges[i].target \in NodesOf(g)
      BY EdgeEnds DEF From
    <3>3. PICK p \in DOMAIN f : f[p] = g.edges[i].target
      BY <3>2 DEF Sorted
    <3>4. k < p
      BY <1>1, <3>2, <3>3 DEF Sorted
    <3>5. l # p
      BY <1>1, <2>2, <3>1, <3>3, <3>4
    <3> QED BY <3>1, <3>3, <3>5 DEF Sorted, Distinct
  <2>4. Behind(g, f, k) = P \cup From(g.edges, x)
    <3>1. \A l : l \in 1..k <=> l \in 1..m \/ l = k
      BY <2>2
    <3>2. k \in DOMAIN f
      BY <1>1
    <3> QED BY <3>1, <3>2 DEF Behind, From
  <2> HIDE DEF P, u, x
  <2>5. Measured(g, Left(g, u, x), P \cup From(g.edges, x))
    BY <2>2, <2>3, LeftMeasured
  <2> QED BY <2>2, <2>4, <2>5
<1>5. T = 0..n
  <2>1. T \subseteq 0..n
    OBVIOUS
  <2> HIDE DEF T
  <2> QED BY <1>3, <1>4, <2>1, EachRound
<1>6. n \in T
  BY <1>5
<1>7. Measured(g, Leaving(g, f), Behind(g, f, n))
  BY <1>2, <1>6
<1>8. Behind(g, f, n) = DOMAIN g.edges
  <2>1. ASSUME NEW i \in DOMAIN g.edges PROVE i \in Behind(g, f, n)
    <3>1. PICK l \in DOMAIN f : f[l] = g.edges[i].source
      BY EdgeEnds DEF Sorted
    <3> QED BY <1>1, <3>1 DEF Behind
  <2> QED BY <2>1 DEF Behind
<1> QED BY <1>7, <1>8, Zenon

\* The rounds in which the latencies along a path are added.
LEMMA BeforeGoes ==
  ASSUME NEW p, Len(p) \in Nat, Len(p) > 0, \A k \in 1..Len(p) : p[k] \in TaskNames
  PROVE \E r \in [0..(Len(p) - 1) -> Nat] :
           r[0] = 0 /\ r[Len(p) - 1] = Before(p) /\ \A k \in 1..(Len(p) - 1) : r[k] = (r[k - 1] + Latency[p[k]])
<1> DEFINE Round(t, k) == (t + Latency[p[k]])
           count == Len(p) - 1
           s0 == 0
           S == Nat
<1>1. PICK F : F = [k \in 1..count |-> [t \in S |-> Round(t, k)]]
  OBVIOUS
<1>3. s0 \in S /\ count \in Nat /\ \A t \in S, k \in 1..count : Round(t, k) \in S
  BY LatencyIs
<1> DEFINE Solves(r) == r = [k \in 0..count |-> IF k = 0 THEN s0 ELSE Round(r[k - 1], k)]
           Goes(r) == r \in [0..count -> S] /\ r[0] = s0 /\ \A k \in 1..count : r[k] = Round(r[k - 1], k)
<1>4. Before(p) = (CHOOSE r : Solves(r))[count]
  BY DEF Before, Looped
<1> HIDE DEF count, s0, S, Round
<1>2. \A k \in 1..count, t \in S : F[k][t] = Round(t, k) /\ F[k][t] \in S
  BY <1>1, <1>3
<1>5. \E r : Solves(r)
  <2>1. PICK r \in [0..count -> S] : r[0] = s0 /\ \A k \in 1..count : r[k] = F[k][r[k - 1]]
    <3>1. Rounds(count, S, s0, F)
      BY <1>2, <1>3 DEF Rounds
    <3> QED BY <3>1, CourseExists DEF Course
  <2>2. ASSUME NEW k \in 0..count PROVE r[k] = IF k = 0 THEN s0 ELSE Round(r[k - 1], k)
    <3>1. CASE k = 0
      BY <2>1, <3>1
    <3>2. CASE k # 0
      <4>1. k \in 1..count /\ k - 1 \in 0..count
        BY <1>3, <3>2
      <4>2. r[k] = F[k][r[k - 1]] /\ r[k - 1] \in S
        BY <2>1, <4>1
      <4> QED BY <1>2, <3>2, <4>1, <4>2
    <3> QED BY <3>1, <3>2
  <2>3. Solves(r)
    BY <2>1, <2>2
  <2> QED BY <2>3
<1>6. ASSUME NEW r, Solves(r) PROVE Goes(r)
  <2>1. DOMAIN r = 0..count /\ \A k \in 0..count : r[k] = IF k = 0 THEN s0 ELSE Round(r[k - 1], k)
    BY <1>6
  <2>2. r[0] = s0 /\ \A k \in 1..count : r[k] = Round(r[k - 1], k)
    <3>1. count \in Nat
      BY <1>3
    <3> QED BY <2>1, <3>1
  <2> DEFINE T == {k \in 0..count : r[k] \in S}
  <2>3. T \subseteq 0..count /\ 0 \in T
    BY <1>3, <2>2
  <2>4. ASSUME NEW k \in 1..count, k - 1 \in T PROVE k \in T
    BY <1>3, <2>2, <2>4
  <2>5. T = 0..count
    <3> HIDE DEF T
    <3> QED BY <1>3, <2>3, <2>4, EachRound
  <2>6. \A k \in 0..count : r[k] \in S
    BY <2>5
  <2>7. r \in [0..count -> S]
    BY <1>6, <2>6
  <2> QED BY <2>2, <2>7
<1> DEFINE c == CHOOSE r : Solves(r)
<1>7. Goes(c)
  <2>1. Solves(c)
    <3> HIDE DEF Solves
    <3> QED BY <1>5
  <2> HIDE DEF c, Solves, Goes
  <2> QED BY <1>6, <2>1
<1> HIDE DEF c
<1>8. c \in [0..count -> S] /\ c[0] = s0 /\ c[count] = Before(p) /\ \A k \in 1..count : c[k] = Round(c[k - 1], k)
  BY <1>4, <1>7 DEF c
<1>9. \E r \in [0..count -> S] :
         r[0] = s0 /\ r[count] = Before(p) /\ \A k \in 1..count : r[k] = Round(r[k - 1], k)
  BY <1>8
<1> QED BY <1>9 DEF count, s0, S, Round

\* A path is a sequence of nodes; the latencies before its last node are no more than the distance of that node.
LEMMA PathIs ==
  ASSUME NEW g, Well(g), NEW p \in Paths(g)
  PROVE \E n \in Nat : /\ n > 0 /\ Len(p) = n /\ \A k \in 1..n : p[k] \in NodesOf(g) /\ p[k] \in TaskNames
                       /\ \A k \in 2..n : Edge(g, p[k - 1], p[k])
<1>1. PICK n \in 1..Cardinality(NodesOf(g)) : p \in [1..n -> NodesOf(g)]
  BY DEF Paths
<1>2. Cardinality(NodesOf(g)) \in Nat
  <2>1. g.nodes \in Seq(TaskNames) /\ Distinct(g.nodes)
    BY GraphTyped DEF Well
  <2> QED BY <2>1, DistinctCount DEF NodesOf
<1>3. n \in Nat /\ n > 0
  BY <1>2
<1>4. Len(p) = n
  BY <1>1, <1>3
<1>5. NodesOf(g) \subseteq TaskNames
  BY NodesAre
<1> QED BY <1>1, <1>3, <1>4, <1>5 DEF Paths

LEMMA EdgeIs ==
  ASSUME NEW g, Well(g), NEW s, NEW t, Edge(g, s, t)
  PROVE \E i \in DOMAIN g.edges : g.edges[i].source = s /\ g.edges[i].target = t
BY DEF Edge

LEMMA PathShort ==
  ASSUME NEW g, Well(g), NEW d, Measured(g, d, DOMAIN g.edges), NEW p \in Paths(g)
  PROVE Before(p) \in Nat /\ Before(p) <= d[p[Len(p)]].dist
<1>1. PICK n \in Nat : /\ n > 0 /\ Len(p) = n /\ \A k \in 1..n : p[k] \in NodesOf(g) /\ p[k] \in TaskNames
                       /\ \A k \in 2..n : Edge(g, p[k - 1], p[k])
  BY PathIs
<1>2. PICK r \in [0..(Len(p) - 1) -> Nat] :
        r[0] = 0 /\ r[Len(p) - 1] = Before(p) /\ \A k \in 1..(Len(p) - 1) : r[k] = r[k - 1] + Latency[p[k]]
  BY <1>1, BeforeGoes
<1>3. PICK c \in Nat : c = n - 1
  BY <1>1
<1>4. /\ r \in [0..c -> Nat] /\ r[0] = 0 /\ r[c] = Before(p)
      /\ \A k \in 1..c : r[k] = r[k - 1] + Latency[p[k]]
  BY <1>1, <1>2, <1>3
<1>5. \A m \in TaskNames : d[m].dist \in Nat
  BY DEF Measured, Distances
<1> DEFINE T == {k \in 0..c : r[k] <= d[p[k + 1]].dist}
<1>6. 0 \in T
  BY <1>1, <1>3, <1>4, <1>5
<1>7. ASSUME NEW k \in 1..c, k - 1 \in T PROVE k \in T
  <2>1. k \in 1..n /\ k + 1 \in 2..n /\ k + 1 \in 1..n /\ (k + 1) - 1 = k /\ (k - 1) + 1 = k /\ k \in 0..c
    BY <1>1, <1>3
  <2>2. Edge(g, p[k], p[k + 1])
    BY <1>1, <2>1
  <2>3. PICK i \in DOMAIN g.edges : g.edges[i].source = p[k] /\ g.edges[i].target = p[k + 1]
    BY <2>2, EdgeIs
  <2>4. d[p[k]].dist + Latency[p[k]] <= d[p[k + 1]].dist
    BY <2>3 DEF Measured, Slack
  <2>5. r[k - 1] <= d[p[k]].dist
    BY <1>7, <2>1
  <2>6. p[k] \in TaskNames /\ p[k + 1] \in TaskNames
    BY <1>1, <2>1
  <2>7. d[p[k]].dist \in Nat /\ d[p[k + 1]].dist \in Nat /\ Latency[p[k]] \in Nat
    BY <1>5, <2>6, LatencyIs
  <2>8. r[k - 1] \in Nat /\ r[k] = r[k - 1] + Latency[p[k]]
    BY <1>4
  <2>9. r[k] <= d[p[k + 1]].dist
    <3>1. PICK x, y, z, l : x = r[k - 1] /\ y = d[p[k]].dist /\ z = d[p[k + 1]].dist /\ l = Latency[p[k]]
      OBVIOUS
    <3>2. x \in Nat /\ y \in Nat /\ z \in Nat /\ l \in Nat /\ x <= y /\ y + l <= z /\ r[k] = x + l
      BY <2>4, <2>5, <2>7, <2>8, <3>1
    <3>3. x + l <= z
      BY <3>2
    <3> QED BY <3>1, <3>2, <3>3
  <2> QED BY <2>1, <2>9
<1>8. T = 0..c
  <2>1. T \subseteq 0..c
    OBVIOUS
  <2> HIDE DEF T
  <2> QED BY <1>6, <1>7, <2>1, EachRound
<1>9. c \in T
  BY <1>8
<1>10. r[c] <= d[p[c + 1]].dist /\ c + 1 = Len(p)
  BY <1>1, <1>3, <1>9
<1> QED BY <1>4, <1>10

\* p follows the previous nodes: each edge takes as long as the distances say.
Follows(g, d, p) ==
  \A k \in 2..Len(p) : Edge(g, p[k - 1], p[k]) /\ d[p[k]].dist = d[p[k - 1]].dist + Latency[p[k - 1]]

LEMMA PathExact ==
  ASSUME NEW g, Well(g), NEW d \in Distances, NEW p \in Paths(g), Follows(g, d, p), d[p[1]].dist = 0
  PROVE Before(p) = d[p[Len(p)]].dist
<1>1. PICK n \in Nat : n > 0 /\ Len(p) = n /\ \A k \in 1..n : p[k] \in TaskNames
  BY PathIs
<1>2. PICK r \in [0..(Len(p) - 1) -> Nat] :
        r[0] = 0 /\ r[Len(p) - 1] = Before(p) /\ \A k \in 1..(Len(p) - 1) : r[k] = r[k - 1] + Latency[p[k]]
  BY <1>1, BeforeGoes
<1>3. PICK c \in Nat : c = n - 1
  BY <1>1
<1>4. /\ r \in [0..c -> Nat] /\ r[0] = 0 /\ r[c] = Before(p)
      /\ \A k \in 1..c : r[k] = r[k - 1] + Latency[p[k]]
  BY <1>1, <1>2, <1>3
<1> DEFINE T == {k \in 0..c : r[k] = d[p[k + 1]].dist}
<1>6. 0 \in T
  BY <1>4
<1>7. ASSUME NEW k \in 1..c, k - 1 \in T PROVE k \in T
  <2>1. k + 1 \in 2..Len(p) /\ (k + 1) - 1 = k /\ (k - 1) + 1 = k /\ k \in 0..c
    BY <1>1, <1>3
  <2>2. d[p[k + 1]].dist = d[p[k]].dist + Latency[p[k]]
    BY <2>1 DEF Follows
  <2>3. r[k - 1] = d[p[k]].dist
    BY <1>7, <2>1
  <2> QED BY <1>4, <2>1, <2>2, <2>3
<1>8. T = 0..c
  <2>1. T \subseteq 0..c
    OBVIOUS
  <2> HIDE DEF T
  <2> QED BY <1>6, <1>7, <2>1, EachRound
<1>9. c \in T
  BY <1>8
<1>10. r[c] = d[p[c + 1]].dist /\ c + 1 = Len(p)
  BY <1>1, <1>3, <1>9
<1> QED BY <1>4, <1>10

\* One round of the way back.
WaySet == [path : Seq(TaskNames), current : Seq(TaskNames)]
WayBack(d, w) ==
  IF w.current = <<>> THEN w
  ELSE [path |-> w.current \o w.path, current |-> d[Head(w.current)].prev]

LEMMA WayTyped ==
  ASSUME NEW d \in Distances, NEW w \in WaySet
  PROVE WayBack(d, w) \in WaySet
<1>1. CASE w.current # <<>>
  <2>1. w.current \o w.path \in Seq(TaskNames) /\ Head(w.current) \in TaskNames
    BY <1>1 DEF WaySet
  <2> QED BY <1>1, <2>1 DEF WayBack, WaySet, Distances
<1> QED BY <1>1 DEF WayBack

Way(g, d, n) ==
  LET Backing(w, k) == WayBack(d, w)
  IN Looped([path |-> <<>>, current |-> <<n>>], Len(g.nodes), Backing)

LEMMA PathToIs ==
  ASSUME NEW g, NEW d, NEW n
  PROVE PathTo(g, d, n) = Way(g, d, n).path
BY DEF PathTo, Way, WayBack, Looped

\* The rounds of the way back.
LEMMA PathGoes ==
  ASSUME NEW g, Well(g), NEW d \in Distances, NEW n \in TaskNames, Len(g.nodes) \in Nat
  PROVE \E r \in [0..Len(g.nodes) -> WaySet] :
           r[0] = [path |-> <<>>, current |-> <<n>>] /\ r[Len(g.nodes)] = Way(g, d, n) /\ \A k \in 1..Len(g.nodes) : r[k] = WayBack(d, r[k - 1])
<1> DEFINE Round(t, k) == WayBack(d, t)
           count == Len(g.nodes)
           s0 == [path |-> <<>>, current |-> <<n>>]
           S == WaySet
<1>1. PICK F : F = [k \in 1..count |-> [t \in S |-> Round(t, k)]]
  OBVIOUS
<1>3. s0 \in S /\ count \in Nat /\ \A t \in S, k \in 1..count : Round(t, k) \in S
  <2>1. [path |-> <<>>, current |-> <<n>>] \in WaySet
    BY DEF WaySet
  <2> QED BY <2>1, WayTyped
<1> DEFINE Solves(r) == r = [k \in 0..count |-> IF k = 0 THEN s0 ELSE Round(r[k - 1], k)]
           Goes(r) == r \in [0..count -> S] /\ r[0] = s0 /\ \A k \in 1..count : r[k] = Round(r[k - 1], k)
<1>4. Way(g, d, n) = (CHOOSE r : Solves(r))[count]
  BY DEF Way, Looped
<1> HIDE DEF count, s0, S, Round
<1>2. \A k \in 1..count, t \in S : F[k][t] = Round(t, k) /\ F[k][t] \in S
  BY <1>1, <1>3
<1>5. \E r : Solves(r)
  <2>1. PICK r \in [0..count -> S] : r[0] = s0 /\ \A k \in 1..count : r[k] = F[k][r[k - 1]]
    <3>1. Rounds(count, S, s0, F)
      BY <1>2, <1>3 DEF Rounds
    <3> QED BY <3>1, CourseExists DEF Course
  <2>2. ASSUME NEW k \in 0..count PROVE r[k] = IF k = 0 THEN s0 ELSE Round(r[k - 1], k)
    <3>1. CASE k = 0
      BY <2>1, <3>1
    <3>2. CASE k # 0
      <4>1. k \in 1..count /\ k - 1 \in 0..count
        BY <1>3, <3>2
      <4>2. r[k] = F[k][r[k - 1]] /\ r[k - 1] \in S
        BY <2>1, <4>1
      <4> QED BY <1>2, <3>2, <4>1, <4>2
    <3> QED BY <3>1, <3>2
  <2>3. Solves(r)
    BY <2>1, <2>2
  <2> QED BY <2>3
<1>6. ASSUME NEW r, Solves(r) PROVE Goes(r)
  <2>1. DOMAIN r = 0..count /\ \A k \in 0..count : r[k] = IF k = 0 THEN s0 ELSE Round(r[k - 1], k)
    BY <1>6
  <2>2. r[0] = s0 /\ \A k \in 1..count : r[k] = Round(r[k - 1], k)
    <3>1. count \in Nat
      BY <1>3
    <3> QED BY <2>1, <3>1
  <2> DEFINE T == {k \in 0..count : r[k] \in S}
  <2>3. T \subseteq 0..count /\ 0 \in T
    BY <1>3, <2>2
  <2>4. ASSUME NEW k \in 1..count, k - 1 \in T PROVE k \in T
    BY <1>3, <2>2, <2>4
  <2>5. T = 0..count
    <3> HIDE DEF T
    <3> QED BY <1>3, <2>3, <2>4, EachRound
  <2>6. \A k \in 0..count : r[k] \in S
    BY <2>5
  <2>7. r \in [0..count -> S]
    BY <1>6, <2>6
  <2> QED BY <2>2, <2>7
<1> DEFINE c == CHOOSE r : Solves(r)
<1>7. Goes(c)
  <2>1. Solves(c)
    <3> HIDE DEF Solves
    <3> QED BY <1>5
  <2> HIDE DEF c, Solves, Goes
  <2> QED BY <1>6, <2>1
<1> HIDE DEF c
<1>8. c \in [0..count -> S] /\ c[0] = s0 /\ c[count] = Way(g, d, n) /\ \A k \in 1..count : c[k] = Round(c[k - 1], k)
  BY <1>4, <1>7 DEF c
<1>9. \E r \in [0..count -> S] :
         r[0] = s0 /\ r[count] = Way(g, d, n) /\ \A k \in 1..count : r[k] = Round(r[k - 1], k)
  BY <1>8
<1> QED BY <1>9 DEF count, s0, S, Round

\* What is known after k rounds of the way back from n: a path that ends in n, and the node before it, which
\* stands in the order f at least k places before its end at N.
Backward(g, f, d, n, N, k, w) ==
  /\ w \in WaySet
  /\ w.current # <<>> => \E x \in NodesOf(g) : w.current = <<x>> /\ \A l \in DOMAIN f : f[l] = x => l <= N - k
  /\ w.path = <<>> => w.current = <<n>>
  /\ w.path # <<>> => w.current = d[w.path[1]].prev /\ w.path[Len(w.path)] = n
  /\ Len(w.path) <= k
  /\ \A i \in 1..Len(w.path) : w.path[i] \in NodesOf(g)
  /\ Follows(g, d, w.path)

\* A node put before a path.
LEMMA Prefixed ==
  ASSUME NEW X, NEW p \in Seq(X), NEW x \in X
  PROVE /\ <<x>> \o p \in Seq(X) /\ <<x>> \o p # <<>> /\ Len(<<x>> \o p) = Len(p) + 1 /\ Len(p) \in Nat
        /\ (<<x>> \o p)[1] = x /\ \A i \in 1..Len(p) : (<<x>> \o p)[i + 1] = p[i]
OBVIOUS

LEMMA BackwardOn ==
  ASSUME NEW g, Well(g), NEW f, Sorted(g, f), NEW d, Measured(g, d, DOMAIN g.edges), NEW n,
         NEW N \in Nat, NEW k \in Nat, NEW w, Backward(g, f, d, n, N, k, w)
  PROVE Backward(g, f, d, n, N, k + 1, WayBack(d, w))
<1>1. d \in Distances /\ w \in WaySet
  BY DEF Measured, Backward
<1>2. CASE w.current = <<>>
  <2>1. WayBack(d, w) = w
    BY <1>2 DEF WayBack
  <2>2. Len(w.path) <= k + 1
    BY <1>1 DEF Backward, WaySet
  <2> QED BY <1>2, <2>1, <2>2 DEF Backward
<1>3. CASE w.current # <<>>
  <2>1. PICK x \in NodesOf(g) : w.current = <<x>> /\ \A l \in DOMAIN f : f[l] = x => l <= N - k
    BY <1>3 DEF Backward
  <2>2. x \in TaskNames /\ w.path \in Seq(TaskNames)
    BY <1>1, <2>1, NodesAre DEF WaySet
  <2>3. PICK v, p, q : v = WayBack(d, w) /\ q = w.path /\ p = <<x>> \o q
    OBVIOUS
  <2>4. v.path = p /\ v.current = d[x].prev /\ v \in WaySet
    <3>1. v = [path |-> <<x>> \o q, current |-> d[x].prev]
      BY <1>3, <2>1, <2>3 DEF WayBack
    <3>2. v \in WaySet
      BY <1>1, <2>3, WayTyped
    <3> QED BY <2>3, <3>1, <3>2
  <2>5. /\ p # <<>> /\ Len(p) = Len(q) + 1 /\ Len(q) \in Nat /\ p[1] = x
        /\ \A i \in 1..Len(q) : p[i + 1] = q[i]
    BY <2>2, <2>3, Prefixed
  <2>6. \A i \in 1..Len(p) : i = 1 \/ (i - 1 \in 1..Len(q) /\ (i - 1) + 1 = i)
    BY <2>5
  <2>7. \A i \in 1..Len(p) : p[i] \in NodesOf(g)
    <3> TAKE i \in 1..Len(p)
    <3>1. CASE i = 1
      BY <2>1, <2>5, <3>1
    <3>2. CASE i # 1
      <4>1. i - 1 \in 1..Len(q) /\ p[i] = q[i - 1]
        BY <2>5, <2>6, <3>2
      <4> QED BY <2>3, <4>1 DEF Backward
    <3> QED BY <3>1, <3>2
  <2>8. p[Len(p)] = n
    <3>1. CASE q = <<>>
      BY <2>1, <2>3, <2>5, <3>1 DEF Backward
    <3>2. CASE q # <<>>
      <4>1. q[Len(q)] = n
        BY <2>3, <3>2 DEF Backward
      <4>2. Len(q) \in 1..Len(q)
        BY <2>2, <2>3, <3>2
      <4> QED BY <2>5, <4>1, <4>2
    <3> QED BY <3>1, <3>2
  <2>9. ASSUME d[x].prev # <<>>
        PROVE \E y \in NodesOf(g) : d[x].prev = <<y>> /\ \A l \in DOMAIN f : f[l] = y => l <= N - (k + 1)
    <3>1. PICK i \in DOMAIN g.edges : Reached(g, d, i, x)
      BY <2>2, <2>9 DEF Measured
    <3>2. g.edges[i].target = x /\ d[x].prev = <<g.edges[i].source>> /\ g.edges[i].source \in NodesOf(g)
      BY <3>1, EdgeEnds DEF Reached
    <3>3. ASSUME NEW l \in DOMAIN f, f[l] = g.edges[i].source PROVE l <= N - (k + 1)
      <4>1. PICK j \in DOMAIN f : f[j] = x
        BY <2>1 DEF Sorted
      <4>2. l < j /\ j <= N - k
        BY <2>1, <3>2, <3>3, <4>1 DEF Sorted
      <4>3. l \in Int /\ j \in Int
        BY SeqIs DEF Sorted
      <4> QED BY <4>2, <4>3
    <3> QED BY <3>2, <3>3
  <2>10. ASSUME NEW i \in 2..Len(p)
         PROVE Edge(g, p[i - 1], p[i]) /\ d[p[i]].dist = d[p[i - 1]].dist + Latency[p[i - 1]]
    <3>1. i \in 1..Len(p) /\ i # 1 /\ i - 1 \in 1..Len(q) /\ p[i] = q[i - 1]
      BY <2>5, <2>6
    <3>2. CASE i = 2
      <4>1. p[i] = q[1] /\ p[i - 1] = x
        BY <2>5, <3>1, <3>2
      <4>2. q # <<>>
        BY <3>1
      <4>3. d[q[1]].prev = <<x>>
        BY <2>1, <2>3, <4>2 DEF Backward
      <4>4. q[1] \in TaskNames
        BY <2>2, <2>3, <3>1
      <4>5. PICK j \in DOMAIN g.edges : Reached(g, d, j, q[1])
        BY <4>3, <4>4 DEF Measured
      <4>6. /\ g.edges[j].target = q[1] /\ g.edges[j].source = x
            /\ d[q[1]].dist = d[x].dist + Latency[x]
        BY <4>3, <4>5 DEF Reached
      <4>7. g.edges[j] = [source |-> x, target |-> q[1]]
        BY <4>6, EdgesFinite DEF EdgeSet
      <4> QED BY <4>1, <4>6, <4>7 DEF Edge
    <3>3. CASE i # 2
      <4>1. i - 1 \in 2..Len(q) /\ i - 1 \in 1..Len(p)
        BY <2>5, <3>1, <3>3
      <4>2. p[i - 1] = q[(i - 1) - 1]
        BY <2>5, <2>6, <4>1
      <4>3. Edge(g, q[(i - 1) - 1], q[i - 1]) /\ d[q[i - 1]].dist = d[q[(i - 1) - 1]].dist + Latency[q[(i - 1) - 1]]
        BY <2>3, <4>1 DEF Backward, Follows
      <4> QED BY <3>1, <4>2, <4>3
    <3> QED BY <3>2, <3>3
  <2>11. Len(p) <= k + 1
    BY <2>3, <2>5 DEF Backward
  <2>12. Follows(g, d, p)
    BY <2>10 DEF Follows
  <2>13. Backward(g, f, d, n, N, k + 1, v)
    BY <2>4, <2>5, <2>7, <2>8, <2>9, <2>11, <2>12 DEF Backward
  <2> QED BY <2>3, <2>13
<1> QED BY <1>2, <1>3

\* The way back from n is a path that takes as long as the distance of n says.
LEMMA WayIsPath ==
  ASSUME NEW g, Well(g), NEW f, Sorted(g, f), NEW d, Measured(g, d, DOMAIN g.edges), NEW n \in NodesOf(g)
  PROVE PathTo(g, d, n) \in Paths(g) /\ Before(PathTo(g, d, n)) = d[n].dist
<1>1. d \in Distances /\ n \in TaskNames
  BY NodesAre DEF Measured
<1>2. PICK c \in Nat : f \in Seq(TaskNames) /\ c = Len(f) /\ DOMAIN f = 1..c /\ Distinct(f)
  BY SeqIs DEF Sorted
<1>3. PICK N \in Nat : N = Len(g.nodes) /\ N = c /\ IsFiniteSet(NodesOf(g)) /\ Cardinality(NodesOf(g)) = N
  <2>1. /\ \A k \in DOMAIN f : f[k] \in NodesOf(g)
        /\ \A m \in NodesOf(g) : Holds(f, m)
    BY DEF Sorted, Holds
  <2> QED BY <1>2, <2>1, OrderLength
<1>4. PICK r \in [0..N -> WaySet] :
        r[0] = [path |-> <<>>, current |-> <<n>>] /\ r[N] = Way(g, d, n) /\ \A k \in 1..N : r[k] = WayBack(d, r[k - 1])
  <2>1. Len(g.nodes) \in Nat
    BY <1>3
  <2>2. PICK r \in [0..Len(g.nodes) -> WaySet] :
          /\ r[0] = [path |-> <<>>, current |-> <<n>>] /\ r[Len(g.nodes)] = Way(g, d, n)
          /\ \A k \in 1..Len(g.nodes) : r[k] = WayBack(d, r[k - 1])
    BY <1>1, <2>1, PathGoes
  <2> QED BY <1>3, <2>2
<1> DEFINE T == {k \in 0..N : Backward(g, f, d, n, N, k, r[k])}
<1>5. 0 \in T
  <2>1. r[0].path = <<>> /\ r[0].current = <<n>> /\ r[0] \in WaySet
    BY <1>3, <1>4
  <2>2. \A l \in DOMAIN f : l <= N - 0
    BY <1>2, <1>3
  <2>3. Follows(g, d, <<>>)
    BY DEF Follows
  <2> QED BY <1>3, <2>1, <2>2, <2>3 DEF Backward
<1>6. ASSUME NEW k \in 1..N, k - 1 \in T PROVE k \in T
  <2>1. PICK m \in Nat : m = k - 1 /\ k = m + 1 /\ k \in 0..N
    BY <1>3
  <2>2. Backward(g, f, d, n, N, m, r[m]) /\ r[k] = WayBack(d, r[m])
    BY <1>4, <1>6, <2>1
  <2>3. Backward(g, f, d, n, N, m + 1, r[k])
    BY <2>2, BackwardOn
  <2> QED BY <2>1, <2>3
<1>7. T = 0..N
  <2>1. T \subseteq 0..N
    OBVIOUS
  <2> HIDE DEF T
  <2> QED BY <1>5, <1>6, <2>1, EachRound
<1>8. N \in T
  BY <1>7
<1>9. PICK w, p : w = r[N] /\ p = PathTo(g, d, n)
  OBVIOUS
<1>10. Backward(g, f, d, n, N, N, w) /\ w.path = p
  BY <1>4, <1>8, <1>9, PathToIs
<1>11. w.current = <<>>
  <2>1. ASSUME NEW x \in NodesOf(g), \A l \in DOMAIN f : f[l] = x => l <= N - N PROVE FALSE
    <3>1. PICK l \in DOMAIN f : f[l] = x
      BY DEF Sorted
    <3> QED BY <1>2, <1>3, <2>1, <3>1
  <2> QED BY <1>10, <2>1 DEF Backward
<1>12. p # <<>>
  BY <1>10, <1>11 DEF Backward
<1>13. /\ p \in Seq(TaskNames) /\ d[p[1]].prev = <<>> /\ p[Len(p)] = n /\ Len(p) <= N
       /\ (\A i \in 1..Len(p) : p[i] \in NodesOf(g)) /\ Follows(g, d, p)
  BY <1>10, <1>11, <1>12 DEF Backward, WaySet
<1>14. PICK m \in Nat : m = Len(p) /\ DOMAIN p = 1..m /\ m > 0
  BY <1>12, <1>13
<1>15. p \in Paths(g)
  <2>1. p \in [1..m -> NodesOf(g)] /\ m \in 1..Cardinality(NodesOf(g))
    BY <1>3, <1>13, <1>14
  <2>2. \A i \in 2..Len(p) : Edge(g, p[i - 1], p[i])
    BY <1>13 DEF Follows
  <2> QED BY <2>1, <2>2 DEF Paths
<1>16. d[p[1]].dist = 0
  <2>1. p[1] \in TaskNames
    BY <1>13, <1>14
  <2>2. ASSUME NEW i \in DOMAIN g.edges, Reached(g, d, i, p[1]) PROVE FALSE
    <3>1. <<>> = <<g.edges[i].source>>
      BY <1>13, <2>2 DEF Reached
    <3>2. Len(<<>>) = 0 /\ Len(<<g.edges[i].source>>) = 1
      OBVIOUS
    <3> QED BY <3>1, <3>2
  <2> QED BY <2>1, <2>2 DEF Measured
<1>17. Before(p) = d[n].dist
  BY <1>1, <1>13, <1>15, <1>16, PathExact
<1> QED BY <1>9, <1>15, <1>17

\* Some node is the first of those with the greatest distance.
LEMMA LatestExists ==
  ASSUME NEW g, Well(g), NEW d \in Distances, g.nodes # <<>>
  PROVE LET Latest(i) == \A m \in NodesOf(g) : d[m].dist <= d[g.nodes[i]].dist
        IN \E i \in DOMAIN g.nodes : Latest(i) /\ \A j \in 1..(i - 1) : ~Latest(j)
<1> DEFINE Latest(i) == \A m \in NodesOf(g) : d[m].dist <= d[g.nodes[i]].dist
<1>1. PICK n \in Nat : n > 0 /\ DOMAIN g.nodes = 1..n /\ \A k \in 1..n : g.nodes[k] \in TaskNames
  <2>1. g.nodes \in Seq(TaskNames)
    BY GraphTyped DEF Well
  <2> QED BY <2>1
<1>2. PICK D : D = [k \in 1..n |-> d[g.nodes[k]].dist]
  OBVIOUS
<1>3. \A k \in 1..n : D[k] \in Nat /\ D[k] = d[g.nodes[k]].dist
  BY <1>1, <1>2 DEF Distances
<1> DEFINE T == {k \in 0..n : k = 0 \/ \E i \in 1..k : \A j \in 1..k : D[j] <= D[i]}
<1>4. ASSUME NEW k \in 1..n, k - 1 \in T PROVE k \in T
  <2>1. \A j : j \in 1..k <=> j \in 1..(k - 1) \/ j = k
    BY <1>1
  <2>2. \A j \in 1..k : D[j] \in Nat
    BY <1>1, <1>3
  <2>3. CASE k = 1
    <3>1. D[1] \in Nat /\ \A j \in 1..k : j = 1
      BY <2>2, <2>3
    <3> QED BY <2>3, <3>1
  <2>4. CASE k # 1
    <3>1. PICK i \in 1..(k - 1) : \A j \in 1..(k - 1) : D[j] <= D[i]
      BY <1>4, <2>4
    <3>2. CASE D[i] <= D[k]
      <4>1. ASSUME NEW j \in 1..k PROVE D[j] <= D[k]
        BY <2>1, <2>2, <3>1, <3>2
      <4> QED BY <4>1
    <3>3. CASE ~(D[i] <= D[k])
      <4>1. D[i] \in Nat /\ D[k] \in Nat
        BY <2>1, <2>2
      <4>2. ASSUME NEW j \in 1..k PROVE D[j] <= D[i]
        BY <2>1, <3>1, <3>3, <4>1
      <4>3. i \in 1..k /\ k \in 0..n
        BY <2>1
      <4> QED BY <4>2, <4>3
    <3> QED BY <3>2, <3>3
  <2> QED BY <2>3, <2>4
<1>5. T = 0..n
  <2>1. T \subseteq 0..n /\ 0 \in T
    OBVIOUS
  <2> HIDE DEF T
  <2> QED BY <1>4, <2>1, EachRound
<1>6. n \in T
  <2>1. n \in 0..n
    BY <1>1
  <2> HIDE DEF T
  <2> QED BY <1>5, <2>1
<1>7. PICK i \in 1..n : \A j \in 1..n : D[j] <= D[i]
  BY <1>1, <1>6
<1>8. Latest(i)
  <2> TAKE m \in NodesOf(g)
  <2>1. PICK j \in 1..n : g.nodes[j] = m
    BY <1>1, NodeIn
  <2> QED BY <1>3, <1>7, <2>1
<1> DEFINE K == {k \in 1..n : Latest(k)}
<1>9. PICK k \in K : \A l \in K : k <= l
  <2>1. K \subseteq Nat /\ i \in K
    <3> HIDE DEF Latest
    <3> QED BY <1>8
  <2> HIDE DEF K
  <2> QED BY <2>1, LeastNat
<1>10. \A j \in 1..(k - 1) : ~Latest(j)
  <2> HIDE DEF Latest
  <2>1. \A j \in 1..(k - 1) : j \in 1..n /\ ~(k <= j)
    BY <1>1
  <2> QED BY <1>9, <2>1
<1>11. k \in DOMAIN g.nodes /\ Latest(k)
  <2> HIDE DEF Latest
  <2> QED BY <1>1
<1> HIDE DEF Latest
<1>12. \E i2 \in DOMAIN g.nodes : Latest(i2) /\ \A j \in 1..(i2 - 1) : ~Latest(j)
  BY <1>10, <1>11
<1> QED BY <1>12 DEF Latest

\* What is said of the critical path.
LEMMA CriticalRight ==
  ASSUME NEW g, Well(g), Valid(g), g.nodes # <<>>
  PROVE CriticalPath(g) \in Paths(g) /\ \A p \in Paths(g) : Before(p) <= Before(CriticalPath(g))
<1>1. PICK f, d : f = TopoOrder(g) /\ d = Relaxed(g)
  OBVIOUS
<1>2. Sorted(g, f)
  BY <1>1, ValidSorted
<1>3. Measured(g, d, DOMAIN g.edges)
  BY <1>1, <1>2, RelaxedIs, LeavingMeasured
<1> DEFINE Latest(i) == \A m \in NodesOf(g) : d[m].dist <= d[g.nodes[i]].dist
           First(i) == Latest(i) /\ \A j \in 1..(i - 1) : ~Latest(j)
           end == CHOOSE i \in DOMAIN g.nodes : First(i)
<1>4. end \in DOMAIN g.nodes /\ First(end)
  <2>1. \E i \in DOMAIN g.nodes : First(i)
    BY <1>3, LatestExists DEF Measured
  <2> HIDE DEF First
  <2> QED BY <2>1
<1>5. CriticalPath(g) = PathTo(g, d, g.nodes[end])
  BY <1>1, SMTT(30) DEF CriticalPath
<1>6. PICK n : n = g.nodes[end]
  OBVIOUS
<1>7. n \in NodesOf(g) /\ \A m \in NodesOf(g) : d[m].dist <= d[n].dist
  BY <1>4, <1>6, NodeIn
<1> HIDE DEF end
<1>8. CriticalPath(g) \in Paths(g) /\ Before(CriticalPath(g)) = d[n].dist
  BY <1>2, <1>3, <1>5, <1>6, <1>7, WayIsPath
<1>9. ASSUME NEW p \in Paths(g) PROVE Before(p) <= d[n].dist
  <2>1. Before(p) \in Nat /\ Before(p) <= d[p[Len(p)]].dist
    BY <1>3, PathShort
  <2>2. p[Len(p)] \in NodesOf(g)
    BY PathIs
  <2>3. d[p[Len(p)]].dist <= d[n].dist
    BY <1>7, <2>2
  <2>4. d[p[Len(p)]].dist \in Nat /\ d[n].dist \in Nat
    BY <1>3, <1>7, <2>2, NodesAre DEF Measured, Distances
  <2> QED BY <2>1, <2>3, <2>4
<1> QED BY <1>8, <1>9

\* What is said of the order.
LEMMA OrderRight ==
  ASSUME NEW g, Well(g), Valid(g)
  PROVE LET order == TopoOrder(g)
            Step(n) == CHOOSE k \in DOMAIN order : order[k] = n
        IN \A i \in DOMAIN g.edges : Step(g.edges[i].source) < Step(g.edges[i].target)
<1> DEFINE order == TopoOrder(g)
           Step(n) == CHOOSE k \in DOMAIN order : order[k] = n
<1>1. Sorted(g, order)
  BY ValidSorted
<1> HIDE DEF order
<1>2. \A n \in NodesOf(g) : Step(n) \in DOMAIN order /\ order[Step(n)] = n
  BY <1>1 DEF Sorted
<1> HIDE DEF Step
<1>3. ASSUME NEW i \in DOMAIN g.edges PROVE Step(g.edges[i].source) < Step(g.edges[i].target)
  <2>1. g.edges[i].source \in NodesOf(g) /\ g.edges[i].target \in NodesOf(g)
    BY EdgeEnds
  <2> QED BY <1>1, <1>2, <2>1 DEF Sorted
<1> QED BY <1>3 DEF Step, order

LEMMA AnalysisIsSound ==
  ASSUME Well(graph)
  PROVE AnalysisSound
<1>1. Valid(graph) <=> ~Cyclic(graph)
  BY ValidIs
<1>2. ASSUME Valid(graph)
      PROVE LET order == TopoOrder(graph)
                Step(n) == CHOOSE k \in DOMAIN order : order[k] = n
                groups == ParallelGroups(graph)
                Group(n) == CHOOSE i \in DOMAIN groups : n \in groups[i]
                path == CriticalPath(graph)
            IN /\ \A i \in DOMAIN graph.edges : Step(graph.edges[i].source) < Step(graph.edges[i].target)
               /\ UNION ToSet(groups) = NodesOf(graph)
               /\ \A n \in NodesOf(graph) :
                    Group(n) > 1 => \E p \in NodesOf(graph) : Edge(graph, p, n) /\ Group(p) = Group(n) - 1
               /\ \A i \in DOMAIN graph.edges : Group(graph.edges[i].source) < Group(graph.edges[i].target)
               /\ graph.nodes # <<>> =>
                    path \in Paths(graph) /\ \A p \in Paths(graph) : Before(p) <= Before(path)
  BY <1>2, OrderRight, GroupsRight, CriticalRight
<1> QED BY <1>1, <1>2 DEF AnalysisSound

\* However a graph is built, cut, exported and read back: its two indexes list its edges and reading back gives
\* the same graph; validate accepts it exactly when it has no cycle, and then the order, the groups and the
\* critical path are right (engine.py:77-207, 229-292).
THEOREM GraphIsSound == GraphSpec => []GraphSound
<1>1. GraphInit => Well(graph)
  BY EmptyWell DEF GraphInit
<1>2. Well(graph) /\ [GraphNext]_graph => Well(graph')
  BY GraphStep
<1>3. Well(graph) => GraphSound
  BY IndexesAreRight, AnalysisIsSound DEF GraphSound
<1> DEFINE I == Well(graph)
<1>4. GraphInit => I
  BY <1>1
<1>5. I /\ [GraphNext]_graph => I'
  BY <1>2
<1>6. I => GraphSound
  BY <1>3
<1> HIDE DEF I
<1> QED BY <1>4, <1>5, <1>6, PTL DEF GraphSpec

-----------------------------------------------------------------------------
(* The engine that runs a graph. *)

USE EngineAssumption

\* What a status can be given where the task of the node is.
StatusOfTask(n) ==
  /\ task[n] = "none" => status[n] \in {"pending", "skipped"}
  /\ task[n] = "queued" => status[n] = "pending"
  /\ task[n] \in {"calling", "sleeping"} => status[n] = "running"
  /\ task[n] = "okcb" => status[n] = "completed"
  /\ task[n] = "failcb" => status[n] = "failed"
  /\ task[n] \in {"done", "reaped"} => status[n] \in {"completed", "failed"}

BatchEnded == \A n \in batch : task[n] = "done"

\* Precedence is not inductive: that _cascade_skip leaves a node with a task
\* alone needs the correspondence of statuses and tasks.
IInv ==
  /\ TypeOK
  /\ callback # "raising" => /\ Precedence
                             /\ BatchEnded
                             /\ \A n \in Nodes : StatusOfTask(n)

LEMMA InitIInv == Init => IInv
BY DEF Init, IInv, TypeOK, Precedence, StatusOfTask, BatchEnded, Statuses, TaskStates

-----------------------------------------------------------------------------
\* Types first: one step per action.
LEMMA TypeStep == TypeOK /\ [Next]_vars => TypeOK'
<1> SUFFICES ASSUME TypeOK, [Next]_vars PROVE TypeOK'
  OBVIOUS
<1> USE DEF TypeOK, Statuses, TaskStates
<1>1. CASE Turn
  BY <1>1 DEF Turn, AfterScan
<1>2. CASE Return
  BY <1>2 DEF Return
<1>3. CASE WaitReturns
  BY <1>3 DEF WaitReturns
<1>4. ASSUME NEW n \in Nodes, Reap(n) PROVE TypeOK'
  <2> DEFINE casc == IF status[n] = "failed" THEN CascadeSet(n, completed \cup {n}) ELSE {}
  <2>1. casc \subseteq Nodes
    BY DEF CascadeSet
  <2>2. /\ completed' = (completed \cup {n}) \cup casc
        /\ status' = [m \in Nodes |-> IF m \in casc THEN "skipped" ELSE status[m]]
    BY <1>4 DEF Reap
  <2> HIDE DEF casc
  <2> QED BY <1>4, <2>1, <2>2, ZenonT(60) DEF Reap
<1>5. ASSUME NEW n \in Nodes, Acquire(n) PROVE TypeOK'
  BY <1>5 DEF Acquire
<1>6. ASSUME NEW n \in Nodes, TaskReturns(n) PROVE TypeOK'
  BY <1>6 DEF TaskReturns
<1>7. ASSUME NEW n \in Nodes, AttemptRaised(n), task[n] \in {"calling", "okcb"},
             UNCHANGED <<edges, callback, attempt, completed, main, batch>>
      PROVE  TypeOK'
  <2>1. CASE attempt[n] < Retries[n]
    BY <1>7, <2>1 DEF AttemptRaised
  <2>2. CASE attempt[n] >= Retries[n]
    <3>1. task' = [task EXCEPT ![n] = IF callback = "none" THEN "done" ELSE "failcb"]
      BY <1>7, <2>2 DEF AttemptRaised
    <3>2. /\ status' = [status EXCEPT ![n] = "failed"]
          /\ results' = [results EXCEPT ![n].failed = @ + 1]
      BY <1>7, <2>2 DEF AttemptRaised
    <3>3. status' \in [Nodes -> Statuses] /\ results' \in [Nodes -> [ok : Nat, failed : Nat]]
      BY <3>2
    <3>4. task' \in [Nodes -> TaskStates]
      BY <3>1
    <3>5. \A m \in Nodes : task'[m] = "sleeping" => task[m] = "sleeping"
      BY <3>1
    <3> QED BY <1>7, <3>3, <3>4, <3>5
  <2> QED BY <2>1, <2>2
<1>8. ASSUME NEW n \in Nodes, TaskRaises(n) \/ CallbackRaises(n) PROVE TypeOK'
  BY <1>7, <1>8 DEF TaskRaises, CallbackRaises
<1>9. ASSUME NEW n \in Nodes, CallbackEnds(n) PROVE TypeOK'
  BY <1>9 DEF CallbackEnds
<1>10. ASSUME NEW n \in Nodes, BackoffEnds(n) PROVE TypeOK'
  BY <1>10 DEF BackoffEnds
<1>11. CASE UNCHANGED vars
  BY <1>11 DEF vars
<1> QED
  BY <1>1, <1>2, <1>3, <1>4, <1>5, <1>6, <1>7, <1>8, <1>9, <1>10, <1>11
  DEF Next, Execute, RunNode

-----------------------------------------------------------------------------
\* A parent that is not COMPLETED has no child with a task.
LEMMA NoTaskBelow ==
  ASSUME TypeOK, Precedence, callback # "raising",
         NEW p \in Nodes, status[p] # "completed", NEW c \in Children(p)
  PROVE  task[c] = "none"
BY DEF Precedence, Parents, Children

\* A cascade from a failed node reaches only nodes without a task: those
\* nodes are closed under the cascade's step.
LEMMA CascadeSpares ==
  ASSUME IInv, callback # "raising",
         NEW f \in Nodes, status[f] = "failed", NEW finished,
         NEW m \in CascadeSet(f, finished)
  PROVE  task[m] = "none"
<1> DEFINE S == {x \in Nodes : task[x] = "none"}
<1>1. Children(f) \ finished \subseteq S
  BY NoTaskBelow DEF IInv, Children
<1>2. ASSUME NEW a \in S \ finished PROVE Children(a) \ finished \subseteq S
  <2>1. status[a] # "completed"
    BY DEF IInv, StatusOfTask
  <2> QED BY <2>1, NoTaskBelow DEF IInv, Children
<1>3. S \in SUBSET Nodes
  OBVIOUS
<1>4. m \in S
  BY <1>1, <1>2, <1>3 DEF CascadeSet
<1> QED BY <1>4

\* The step for the rest of the invariant.
LEMMA IInvStep == IInv /\ [Next]_vars => IInv'
<1> SUFFICES ASSUME IInv, [Next]_vars PROVE IInv'
  OBVIOUS
<1>1. TypeOK'
  BY TypeStep DEF IInv
<1>2. callback' = callback
  BY DEF vars, Next, Execute, RunNode, Turn, Return, WaitReturns, Reap, Acquire,
         TaskReturns, TaskRaises, CallbackRaises, CallbackEnds, BackoffEnds
<1>3. SUFFICES ASSUME callback # "raising"
               PROVE  Precedence' /\ BatchEnded' /\ \A n \in Nodes : StatusOfTask(n)'
  BY <1>1, <1>2 DEF IInv
<1> USE <1>3 DEF IInv, TypeOK, Statuses, TaskStates
<1>4. CASE Turn
  <2> DEFINE fresh == {n \in ReadyNodes : n \notin completed /\ n \notin InProgress}
  <2>1. /\ edges' = edges /\ batch' = batch
        /\ status' = [n \in Nodes |-> IF n \in SkippedByScan THEN "skipped" ELSE status[n]]
        /\ task' = [n \in Nodes |-> IF n \in fresh THEN "queued" ELSE task[n]]
    BY <1>4 DEF Turn
  <2>2. \A n \in SkippedByScan : n \in Nodes /\ task[n] = "none" /\ n \notin fresh
    BY DEF SkippedByScan, ReadyNodes, Precedence, Parents, StatusOfTask
  <2>3. \A n \in fresh : /\ n \in Nodes /\ status[n] = "pending" /\ task[n] = "none"
                         /\ \A p \in Parents(n) : status[p] = "completed"
    BY DEF ReadyNodes, InProgress, StatusOfTask
  <2> HIDE DEF fresh
  <2>4. Precedence'
    BY <2>1, <2>2, <2>3 DEF Precedence, Parents, StatusOfTask
  <2>5. \A n \in Nodes : StatusOfTask(n)'
    BY <2>1, <2>2, <2>3 DEF StatusOfTask
  <2>6. BatchEnded'
    BY <2>1, <2>3 DEF BatchEnded
  <2> QED BY <2>4, <2>5, <2>6
<1>5. CASE Return
  BY <1>5 DEF Return, Precedence, Parents, StatusOfTask, BatchEnded
<1>6. CASE WaitReturns
  BY <1>6 DEF WaitReturns, Precedence, Parents, StatusOfTask, BatchEnded
<1>7. ASSUME NEW n \in Nodes, Reap(n)
      PROVE  Precedence' /\ BatchEnded' /\ \A m \in Nodes : StatusOfTask(m)'
  <2> DEFINE casc == IF status[n] = "failed" THEN CascadeSet(n, completed \cup {n}) ELSE {}
  <2>1. \A m \in casc : m \in Nodes /\ task[m] = "none"
    BY CascadeSpares DEF CascadeSet
  <2>2. /\ edges' = edges /\ batch' = batch \ {n} /\ n \in batch
        /\ status' = [m \in Nodes |-> IF m \in casc THEN "skipped" ELSE status[m]]
        /\ task' = [task EXCEPT ![n] = "reaped"]
    BY <1>7 DEF Reap
  <2> HIDE DEF casc
  <2>3. task[n] = "done"
    BY <2>2 DEF BatchEnded
  <2>4. Precedence'
    BY <2>1, <2>2, <2>3 DEF Precedence, Parents, StatusOfTask
  <2>5. ASSUME NEW m \in Nodes PROVE StatusOfTask(m)'
    BY <2>1, <2>2, <2>3 DEF StatusOfTask
  <2>6. BatchEnded'
    BY <2>2 DEF BatchEnded
  <2> QED BY <2>4, <2>5, <2>6
\* What every step of _run_node has in common.
<1>8. ASSUME NEW n \in Nodes, task[n] # "none", status[n] # "completed", n \notin batch,
             edges' = edges, batch' = batch,
             \A m \in Nodes : m # n => task'[m] = task[m] /\ status'[m] = status[m],
             StatusOfTask(n)'
      PROVE  Precedence' /\ BatchEnded' /\ \A m \in Nodes : StatusOfTask(m)'
  <2>1. Precedence'
    BY <1>8 DEF Precedence, Parents
  <2>2. BatchEnded'
    BY <1>8 DEF BatchEnded
  <2>3. \A m \in Nodes : StatusOfTask(m)'
    BY <1>8 DEF StatusOfTask
  <2> QED BY <2>1, <2>2, <2>3
<1>9. ASSUME NEW n \in Nodes, Acquire(n)
      PROVE  Precedence' /\ BatchEnded' /\ \A m \in Nodes : StatusOfTask(m)'
  BY <1>8, <1>9 DEF Acquire, StatusOfTask, BatchEnded
<1>10. ASSUME NEW n \in Nodes, TaskReturns(n)
       PROVE  Precedence' /\ BatchEnded' /\ \A m \in Nodes : StatusOfTask(m)'
  BY <1>8, <1>10 DEF TaskReturns, StatusOfTask, BatchEnded
<1>11. ASSUME NEW n \in Nodes, TaskRaises(n)
       PROVE  Precedence' /\ BatchEnded' /\ \A m \in Nodes : StatusOfTask(m)'
  BY <1>8, <1>11 DEF TaskRaises, AttemptRaised, StatusOfTask, BatchEnded
<1>12. ASSUME NEW n \in Nodes, CallbackRaises(n) PROVE FALSE
  BY <1>12 DEF CallbackRaises
<1>13. ASSUME NEW n \in Nodes, CallbackEnds(n)
       PROVE  Precedence' /\ BatchEnded' /\ \A m \in Nodes : StatusOfTask(m)'
  BY <1>13 DEF CallbackEnds, Precedence, Parents, StatusOfTask, BatchEnded
<1>14. ASSUME NEW n \in Nodes, BackoffEnds(n)
       PROVE  Precedence' /\ BatchEnded' /\ \A m \in Nodes : StatusOfTask(m)'
  BY <1>8, <1>14 DEF BackoffEnds, StatusOfTask, BatchEnded
<1>15. CASE UNCHANGED vars
  BY <1>15 DEF vars, Precedence, Parents, StatusOfTask, BatchEnded
<1> QED
  BY <1>4, <1>5, <1>6, <1>7, <1>9, <1>10, <1>11, <1>12, <1>13, <1>14, <1>15
  DEF Next, Execute, RunNode

\* TypeOK: types, and no attempt beyond what the retry policy of a node allows.
THEOREM TypeCorrect == Spec => []TypeOK
<1>1. IInv => TypeOK
  BY DEF IInv
<1> QED BY InitIInv, IInvStep, <1>1, PTL DEF Spec

\* Precedence: no node of any graph is queued, run or retried while a parent
\* has not completed, whatever the order in which tasks end and are reaped.
THEOREM PrecedenceHolds == Spec => []Precedence
<1>1. IInv => Precedence
  BY DEF IInv, Precedence
<1> QED BY InitIInv, IInvStep, <1>1, PTL DEF Spec

-----------------------------------------------------------------------------
(* What is there when execute() returns.                                   *)

\* The one entry in `results` that goes with a status.
ResultOf(n) ==
  results[n] = [ok |-> IF status[n] = "completed" THEN 1 ELSE 0,
                failed |-> IF status[n] = "failed" THEN 1 ELSE 0]

\* The cascade is what makes the last scan find nothing: whatever is below a failed node that was reaped
\* is accounted for, and a node that a scan skipped has a failed parent still to be reaped.
Accounted ==
  /\ \A n \in Nodes : ResultOf(n)
  /\ \A n \in completed : task[n] = "reaped" \/ status[n] = "skipped"
  /\ \A n \in Nodes : status[n] = "failed" /\ task[n] = "reaped" => Children(n) \subseteq completed
  /\ \A n \in completed : status[n] = "skipped" => Children(n) \subseteq completed
  /\ \A n \in Nodes : status[n] = "skipped" =>
       /\ \E p \in Parents(n) : status[p] \in {"failed", "skipped"}
       /\ n \in completed \/ \E p \in Parents(n) : status[p] = "failed" /\ task[p] # "reaped"

RInv == IInv /\ (callback # "raising" => Accounted) /\ ReturnComplete

\* A cascade holds every child of its origin and of its members that was not accounted for.
LEMMA CascadeClosed ==
  ASSUME NEW f \in Nodes, NEW finished \in SUBSET Nodes
  PROVE  /\ Children(f) \subseteq finished \cup CascadeSet(f, finished)
         /\ \A a \in CascadeSet(f, finished) : Children(a) \subseteq finished \cup CascadeSet(f, finished)
<1>1. ASSUME NEW c \in Children(f), c \notin finished PROVE c \in CascadeSet(f, finished)
  BY <1>1 DEF CascadeSet, Children
<1>2. ASSUME NEW a \in CascadeSet(f, finished), NEW c \in Children(a), c \notin finished
      PROVE  c \in CascadeSet(f, finished)
  <2>1. a \notin finished /\ c \in Nodes
    BY DEF CascadeSet, Children
  <2>2. ASSUME NEW S \in SUBSET Nodes, Children(f) \ finished \subseteq S,
               \A x \in S \ finished : Children(x) \ finished \subseteq S
        PROVE  c \in S
    <3>1. a \in S
      BY <2>2 DEF CascadeSet
    <3> QED BY <1>2, <2>1, <2>2, <3>1
  <2> QED BY <1>2, <2>1, <2>2 DEF CascadeSet
<1> QED BY <1>1, <1>2

\* Every member of a cascade is a child of its origin or of another member.
LEMMA CascadeRooted ==
  ASSUME NEW f \in Nodes, NEW finished \in SUBSET Nodes, NEW m \in CascadeSet(f, finished)
  PROVE  \E p \in {f} \cup CascadeSet(f, finished) : m \in Children(p)
<1> DEFINE S == {x \in CascadeSet(f, finished) : \E p \in {f} \cup CascadeSet(f, finished) : x \in Children(p)}
<1>1. S \in SUBSET Nodes
  BY DEF CascadeSet
<1>2. Children(f) \ finished \subseteq S
  BY CascadeClosed
<1>3. \A a \in S \ finished : Children(a) \ finished \subseteq S
  BY CascadeClosed
<1>4. m \in S
  BY <1>1, <1>2, <1>3 DEF CascadeSet
<1> QED BY <1>4

\* A turn of the loop: what a scan skips has a failed parent whose cascade is still to come.
LEMMA TurnAccounts ==
  ASSUME IInv, callback # "raising", Accounted, Turn
  PROVE  Accounted'
<1> DEFINE fresh == {n \in ReadyNodes : n \notin completed /\ n \notin InProgress}
<1>1. /\ edges' = edges /\ results' = results /\ completed' = completed
      /\ status' = [n \in Nodes |-> IF n \in SkippedByScan THEN "skipped" ELSE status[n]]
      /\ task' = [n \in Nodes |-> IF n \in fresh THEN "queued" ELSE task[n]]
  BY DEF Turn
<1>2. /\ \A m \in Nodes : Children(m)' = Children(m) /\ Parents(m)' = Parents(m)
      /\ \A m \in Nodes : task'[m] = "reaped" <=> task[m] = "reaped"
      /\ \A m \in Nodes : m \notin SkippedByScan => status'[m] = status[m]
      /\ \A m \in SkippedByScan : m \in Nodes /\ status[m] = "pending" /\ status'[m] = "skipped"
      /\ completed \subseteq Nodes
  BY <1>1 DEF Children, Parents, IInv, TypeOK, StatusOfTask, ReadyNodes, InProgress, SkippedByScan
<1>3. ASSUME NEW n \in SkippedByScan
      PROVE  n \notin completed /\ \E p \in Parents(n) : status'[p] = "failed" /\ task'[p] # "reaped"
  <2>1. n \notin completed
    BY <1>2 DEF Accounted, IInv, StatusOfTask
  <2>2. PICK p \in Parents(n) : status[p] = "failed"
    BY DEF SkippedByScan
  <2>3. p \in Nodes /\ n \in Children(p) /\ p \notin SkippedByScan
    BY <1>2, <2>2 DEF Parents, Children
  <2>4. task[p] # "reaped"
    BY <2>1, <2>2, <2>3 DEF Accounted
  <2> QED BY <1>2, <2>1, <2>2, <2>3, <2>4
<1> HIDE DEF fresh
<1>4. \A n \in Nodes : ResultOf(n)'
  BY <1>1, <1>2 DEF Accounted, ResultOf
<1>5. \A n \in completed' : task'[n] = "reaped" \/ status'[n] = "skipped"
  BY <1>1, <1>2 DEF Accounted
<1>6. \A n \in Nodes : status'[n] = "failed" /\ task'[n] = "reaped" => Children(n) \subseteq completed'
  BY <1>1, <1>2 DEF Accounted
<1>7. \A n \in completed' : status'[n] = "skipped" => Children(n) \subseteq completed'
  BY <1>1, <1>2, <1>3 DEF Accounted
<1>8. ASSUME NEW n \in Nodes, status'[n] = "skipped"
      PROVE  /\ \E p \in Parents(n) : status'[p] \in {"failed", "skipped"}
             /\ n \in completed' \/ \E p \in Parents(n) : status'[p] = "failed" /\ task'[p] # "reaped"
  <2>1. CASE n \in SkippedByScan
    BY <1>3, <2>1
  <2>2. CASE n \notin SkippedByScan
    <3>1. status[n] = "skipped" /\ \A p \in Parents(n) : p \in Nodes
      BY <1>2, <1>8, <2>2 DEF Parents
    <3>2. \E p \in Parents(n) : status'[p] \in {"failed", "skipped"}
      BY <1>2, <3>1 DEF Accounted
    <3>3. n \in completed' \/ \E p \in Parents(n) : status'[p] = "failed" /\ task'[p] # "reaped"
      BY <1>1, <1>2, <3>1 DEF Accounted
    <3> QED BY <3>2, <3>3
  <2> QED BY <2>1, <2>2
<1>9. edges' = edges
  BY <1>1
<1> QED BY <1>4, <1>5, <1>6, <1>7, <1>8, <1>9 DEF Accounted, Children, Parents

\* A step of _run_node keeps the accounts: only its own node changes, which no cascade has reached.
LEMMA RunAccounts ==
  ASSUME IInv, callback # "raising", Accounted, NEW n \in Nodes, edges' = edges, completed' = completed,
         task[n] \notin {"none", "reaped"}, task'[n] # "reaped", status'[n] # "skipped",
         status[n] = "failed" => status'[n] = "failed",
         \A m \in Nodes : m # n => task'[m] = task[m] /\ status'[m] = status[m] /\ results'[m] = results[m],
         ResultOf(n)'
  PROVE  Accounted'
<1>1. status[n] # "skipped" /\ n \notin completed /\ completed \subseteq Nodes
  BY DEF IInv, StatusOfTask, TypeOK, TaskStates, Statuses, Accounted
<1>2. \A m \in Nodes : Children(m)' = Children(m) /\ Parents(m)' = Parents(m) /\ Parents(m) \subseteq Nodes
  BY DEF Children, Parents
<1>3. \A m \in Nodes : ResultOf(m)'
  BY DEF Accounted, ResultOf
<1>4. \A m \in completed' : task'[m] = "reaped" \/ status'[m] = "skipped"
  BY <1>1 DEF Accounted
<1>5. \A m \in Nodes : status'[m] = "failed" /\ task'[m] = "reaped" => Children(m) \subseteq completed'
  BY <1>1 DEF Accounted
<1>6. \A m \in completed' : status'[m] = "skipped" => Children(m) \subseteq completed'
  BY <1>1 DEF Accounted
<1>7. ASSUME NEW m \in Nodes, status'[m] = "skipped"
      PROVE  /\ \E p \in Parents(m) : status'[p] \in {"failed", "skipped"}
             /\ m \in completed' \/ \E p \in Parents(m) : status'[p] = "failed" /\ task'[p] # "reaped"
  <2>1. m # n /\ status[m] = "skipped"
    BY <1>7
  <2>2. PICK p \in Parents(m) : status[p] \in {"failed", "skipped"}
    BY <2>1 DEF Accounted
  <2>3. status'[p] \in {"failed", "skipped"}
    BY <1>1, <1>2, <2>2
  <2>4. CASE m \in completed
    BY <2>2, <2>3, <2>4
  <2>5. CASE m \notin completed
    <3>1. PICK q \in Parents(m) : status[q] = "failed" /\ task[q] # "reaped"
      BY <2>1, <2>5 DEF Accounted
    <3>2. status'[q] = "failed" /\ task'[q] # "reaped"
      BY <1>2, <3>1
    <3> QED BY <2>2, <2>3, <3>1, <3>2
  <2> QED BY <2>4, <2>5
<1> QED BY <1>3, <1>4, <1>5, <1>6, <1>7 DEF Accounted, Children, Parents

\* One task is reaped: its node, and what fails with it, are accounted for.
LEMMA ReapAccounts ==
  ASSUME IInv, callback # "raising", Accounted, NEW n \in Nodes, Reap(n)
  PROVE  Accounted'
<1> DEFINE finished == completed \cup {n}
           casc == IF status[n] = "failed" THEN CascadeSet(n, finished) ELSE {}
<1>1. /\ edges' = edges /\ results' = results
      /\ task' = [task EXCEPT ![n] = "reaped"]
      /\ completed' = finished \cup casc
      /\ status' = [m \in Nodes |-> IF m \in casc THEN "skipped" ELSE status[m]]
  BY DEF Reap
<1>2. /\ finished \in SUBSET Nodes /\ casc \subseteq Nodes
      /\ \A m \in casc : task[m] = "none" /\ status[m] \in {"pending", "skipped"}
  BY CascadeSpares DEF IInv, TypeOK, StatusOfTask, CascadeSet
<1>3. task[n] = "done" /\ status[n] \in {"completed", "failed"} /\ n \notin casc
  BY <1>2 DEF Reap, IInv, BatchEnded, StatusOfTask
<1>4. /\ status[n] = "failed" => Children(n) \subseteq finished \cup casc
      /\ \A a \in casc : Children(a) \subseteq finished \cup casc
      /\ \A m \in casc : \E p \in {n} \cup casc : m \in Children(p)
      /\ casc # {} => status[n] = "failed"
  BY <1>2, CascadeClosed, CascadeRooted
<1> HIDE DEF casc
<1>5. /\ \A m \in Nodes : Children(m)' = Children(m) /\ Parents(m)' = Parents(m)
      /\ task \in [Nodes -> TaskStates] /\ status \in [Nodes -> Statuses]
      /\ \A m \in Nodes : m # n => task'[m] = task[m]
      /\ task'[n] = "reaped"
      /\ \A m \in Nodes : m \notin casc => status'[m] = status[m]
      /\ \A m \in casc : status'[m] = "skipped"
  BY <1>1, <1>2 DEF Children, Parents, IInv, TypeOK
<1>6. \A m \in Nodes : ResultOf(m)'
  BY <1>1, <1>2, <1>5 DEF Accounted, ResultOf
<1>7. \A m \in completed' : task'[m] = "reaped" \/ status'[m] = "skipped"
  BY <1>1, <1>2, <1>3, <1>5 DEF Accounted
<1>8. \A m \in Nodes : status'[m] = "failed" /\ task'[m] = "reaped" => Children(m) \subseteq completed'
  BY <1>1, <1>4, <1>5 DEF Accounted
<1>9. \A m \in completed' : status'[m] = "skipped" => Children(m) \subseteq completed'
  <2> SUFFICES ASSUME NEW m \in completed', status'[m] = "skipped" PROVE Children(m) \subseteq completed'
    OBVIOUS
  <2>1. m \in Nodes /\ m # n
    BY <1>1, <1>2, <1>3, <1>5
  <2>2. CASE m \in casc
    BY <1>1, <1>4, <2>2
  <2>3. CASE m \notin casc
    BY <1>1, <1>5, <2>1, <2>3 DEF Accounted
  <2> QED BY <2>2, <2>3
<1>10. ASSUME NEW m \in Nodes, status'[m] = "skipped"
       PROVE  /\ \E p \in Parents(m) : status'[p] \in {"failed", "skipped"}
              /\ m \in completed' \/ \E p \in Parents(m) : status'[p] = "failed" /\ task'[p] # "reaped"
  <2>1. CASE m \in casc
    <3>1. PICK p \in {n} \cup casc : m \in Children(p)
      BY <1>4, <2>1
    <3>2. p \in Parents(m)
      BY <1>2, <3>1 DEF Parents, Children
    <3>3. status'[p] \in {"failed", "skipped"}
      BY <1>3, <1>4, <1>5, <2>1, <3>1
    <3> QED BY <1>1, <2>1, <3>2, <3>3
  <2>2. CASE m \notin casc
    <3>1. status[m] = "skipped"
      BY <1>5, <1>10, <2>2
    <3>2. PICK p \in Parents(m) : status[p] \in {"failed", "skipped"}
      BY <3>1 DEF Accounted
    <3>3. p \in Nodes /\ status'[p] \in {"failed", "skipped"}
      BY <1>5, <3>2 DEF Parents
    <3>4. CASE m \in completed
      BY <1>1, <3>2, <3>3, <3>4
    <3>5. CASE m \notin completed
      <4>1. PICK q \in Parents(m) : status[q] = "failed" /\ task[q] # "reaped"
        BY <3>1, <3>5 DEF Accounted
      <4>2. q \in Nodes /\ m \in Children(q) /\ q \notin casc
        BY <1>2, <4>1 DEF Parents, Children
      <4>3. CASE q = n
        <5>1. m \in Children(n) /\ status[n] = "failed"
          BY <4>1, <4>2, <4>3
        <5>2. m \in completed'
          BY <1>1, <1>4, <5>1
        <5> QED BY <3>2, <3>3, <5>2
      <4>4. CASE q # n
        <5>1. status'[q] = "failed" /\ task'[q] # "reaped"
          BY <1>5, <4>1, <4>2, <4>4
        <5> QED BY <3>2, <3>3, <4>1, <5>1
      <4> QED BY <4>3, <4>4
    <3> QED BY <3>4, <3>5
  <2> QED BY <2>1, <2>2
<1>11. edges' = edges
  BY <1>1
<1> QED BY <1>6, <1>7, <1>8, <1>9, <1>10, <1>11 DEF Accounted, Children, Parents

\* The last turn: with no task left, what is pending waits for what is pending.
LEMMA StalledOnly ==
  ASSUME IInv, callback # "raising", Accounted, Turn, main' = "returned"
  PROVE  ReturnComplete'
<1> DEFINE fresh == {n \in ReadyNodes : n \notin completed /\ n \notin InProgress}
<1>1. InProgress \cup fresh = {}
  BY DEF Turn, AfterScan
<1>2. \A n \in Nodes : task[n] \in {"none", "reaped"}
  BY <1>1 DEF InProgress
<1>3. \A n \in Nodes : status[n] \in {"pending", "skipped", "completed", "failed"}
                        /\ (status[n] \in {"pending", "skipped"} => task[n] = "none")
                        /\ (status[n] = "failed" => task[n] = "reaped")
  BY <1>2 DEF IInv, StatusOfTask, TypeOK
<1>4. \A n \in Nodes : status[n] = "pending" => n \notin completed
  BY <1>3 DEF Accounted
<1>5. ASSUME NEW n \in Nodes, status[n] = "pending", NEW p \in Parents(n)
      PROVE  p \in Nodes /\ status[p] \in {"pending", "completed"}
  <2>1. p \in Nodes /\ n \in Children(p) /\ n \notin completed
    BY <1>4, <1>5 DEF Parents, Children
  <2>2. status[p] # "failed"
    BY <1>3, <2>1 DEF Accounted
  <2>3. status[p] # "skipped"
    <3> SUFFICES ASSUME status[p] = "skipped" PROVE FALSE
      OBVIOUS
    <3>1. p \in completed
      BY <1>3, <2>1 DEF Accounted, Parents
    <3> QED BY <2>1, <3>1 DEF Accounted
  <2> QED BY <1>3, <2>1, <2>2, <2>3
<1>6. SkippedByScan = {}
  BY <1>5 DEF SkippedByScan
<1>7. ASSUME NEW n \in Nodes, status[n] = "pending"
      PROVE  \E p \in Parents(n) : status[p] = "pending"
  <2>1. n \notin ReadyNodes
    BY <1>1, <1>2, <1>4, <1>7 DEF InProgress
  <2>2. PICK p \in Parents(n) : status[p] # "completed"
    BY <1>7, <2>1 DEF ReadyNodes
  <2> QED BY <1>5, <1>7, <2>2
<1>8. /\ status' = status /\ task' = task /\ results' = results /\ edges' = edges /\ callback' = callback
  <2>1. status' = [n \in Nodes |-> status[n]] /\ task' = [n \in Nodes |-> task[n]]
    BY <1>1, <1>6 DEF Turn
  <2> QED BY <2>1 DEF Turn, IInv, TypeOK
<1>9. ASSUME NEW n \in Nodes
      PROVE  \/ status[n] = "completed" /\ results[n] = [ok |-> 1, failed |-> 0]
             \/ status[n] = "failed" /\ results[n] = [ok |-> 0, failed |-> 1]
             \/ /\ status[n] \in {"skipped", "pending"}
                /\ results[n] = [ok |-> 0, failed |-> 0]
                /\ \E p \in Parents(n) :
                     status[p] \in IF status[n] = "skipped" THEN {"failed", "skipped"}
                                                           ELSE {"pending"}
  <2>1. ResultOf(n)
    BY DEF Accounted
  <2>2. CASE status[n] = "completed"
    BY <2>1, <2>2 DEF ResultOf
  <2>3. CASE status[n] = "failed"
    BY <2>1, <2>3 DEF ResultOf
  <2>4. CASE status[n] = "pending"
    BY <1>7, <2>1, <2>4 DEF ResultOf
  <2>5. CASE status[n] = "skipped"
    BY <2>1, <2>5 DEF ResultOf, Accounted
  <2> QED BY <1>3, <2>2, <2>3, <2>4, <2>5
<1> QED BY <1>2, <1>8, <1>9 DEF ReturnComplete, InProgress, Parents

\* Every node accounted for: a node that was reaped has ended, and the others were skipped.
LEMMA AllAccounted ==
  ASSUME IInv, callback # "raising", Accounted, Return
  PROVE  ReturnComplete'
<1>1. /\ completed = Nodes /\ status' = status /\ task' = task /\ results' = results /\ edges' = edges
  BY DEF Return
<1>2. \A n \in Nodes : \/ task[n] = "reaped" /\ status[n] \in {"completed", "failed"}
                       \/ task[n] = "none" /\ status[n] = "skipped"
  BY <1>1 DEF Accounted, IInv, StatusOfTask, TypeOK, TaskStates
<1>3. ASSUME NEW n \in Nodes
      PROVE  \/ status[n] = "completed" /\ results[n] = [ok |-> 1, failed |-> 0]
             \/ status[n] = "failed" /\ results[n] = [ok |-> 0, failed |-> 1]
             \/ /\ status[n] = "skipped" /\ results[n] = [ok |-> 0, failed |-> 0]
                /\ \E p \in Parents(n) : status[p] \in {"failed", "skipped"}
  <2>1. ResultOf(n)
    BY DEF Accounted
  <2>2. CASE status[n] = "completed"
    BY <2>1, <2>2 DEF ResultOf
  <2>3. CASE status[n] = "failed"
    BY <2>1, <2>3 DEF ResultOf
  <2>4. CASE status[n] = "skipped"
    BY <2>1, <2>4 DEF ResultOf, Accounted
  <2> QED BY <1>2, <2>2, <2>3, <2>4
<1> QED BY <1>1, <1>2, <1>3 DEF ReturnComplete, InProgress, Parents

LEMMA RInvStep == RInv /\ IInv' /\ [Next]_vars => RInv'
<1> SUFFICES ASSUME RInv, IInv', [Next]_vars PROVE RInv'
  OBVIOUS
<1>1. callback' = callback
  BY DEF vars, Next, Execute, RunNode, Turn, Return, WaitReturns, Reap, Acquire,
         TaskReturns, TaskRaises, CallbackRaises, CallbackEnds, BackoffEnds
<1>2. CASE callback = "raising"
  BY <1>1, <1>2 DEF RInv, ReturnComplete
<1>3. SUFFICES ASSUME callback # "raising" PROVE Accounted' /\ ReturnComplete'
  BY <1>2 DEF RInv
<1> USE <1>3
<1>4. IInv /\ Accounted /\ TypeOK
  BY DEF RInv, IInv
\* Execute changes `main`; only the end of the loop has something to show.
<1>5. ASSUME main' # "returned" PROVE ReturnComplete'
  BY <1>5 DEF ReturnComplete
<1>6. CASE Turn
  <2>1. CASE main' = "returned"
    BY <1>4, <1>6, <2>1, TurnAccounts, StalledOnly
  <2>2. CASE main' # "returned"
    BY <1>4, <1>5, <1>6, <2>2, TurnAccounts
  <2> QED BY <2>1, <2>2
<1>7. CASE Return
  <2>1. Accounted'
    BY <1>4, <1>7 DEF Return, Accounted, ResultOf, Children, Parents
  <2> QED BY <1>4, <1>7, <2>1, AllAccounted
<1>8. CASE WaitReturns
  BY <1>4, <1>5, <1>8 DEF WaitReturns, Accounted, ResultOf, Children, Parents
<1>9. ASSUME NEW n \in Nodes, Reap(n) PROVE Accounted' /\ ReturnComplete'
  BY <1>4, <1>5, <1>9, ReapAccounts DEF Reap
\* _run_node has a task: execute() has not returned, and what it had accounted for stays so.
<1>10. ASSUME NEW n \in Nodes, task[n] \notin {"none", "reaped"}, main' = main, edges' = edges, completed' = completed,
              task'[n] # "reaped", status'[n] # "skipped", status[n] = "failed" => status'[n] = "failed",
              \A m \in Nodes : m # n => task'[m] = task[m] /\ status'[m] = status[m] /\ results'[m] = results[m],
              ResultOf(n)'
       PROVE  Accounted' /\ ReturnComplete'
  <2>1. main # "returned"
    BY <1>10 DEF RInv, ReturnComplete, InProgress
  <2> QED BY <1>4, <1>5, <1>10, <2>1, RunAccounts
<1>11. \A n \in Nodes : ResultOf(n) /\ StatusOfTask(n) /\ results[n] \in [ok : Nat, failed : Nat]
  BY <1>4 DEF Accounted, IInv, TypeOK
<1>12. ASSUME NEW n \in Nodes, Acquire(n) PROVE Accounted' /\ ReturnComplete'
  <2>1. status[n] = "pending" /\ status'[n] = "running" /\ results'[n] = results[n] /\ task'[n] = "calling"
    BY <1>4, <1>11, <1>12 DEF Acquire, StatusOfTask, TypeOK
  <2>2. ResultOf(n)'
    BY <1>11, <2>1 DEF ResultOf
  <2> QED BY <1>4, <1>10, <1>12, <2>1, <2>2 DEF Acquire, TypeOK
<1>13. ASSUME NEW n \in Nodes, TaskReturns(n) PROVE Accounted' /\ ReturnComplete'
  <2>1. status[n] = "running" /\ status'[n] = "completed" /\ results'[n] = [results[n] EXCEPT !.ok = @ + 1]
        /\ task'[n] \in {"done", "okcb"}
    BY <1>4, <1>11, <1>13 DEF TaskReturns, StatusOfTask, TypeOK
  <2>2. ResultOf(n)'
    <3>1. results[n] = [ok |-> 0, failed |-> 0]
      BY <1>11, <2>1 DEF ResultOf
    <3>2. results'[n] = [ok |-> 1, failed |-> 0]
      BY <2>1, <3>1
    <3> QED BY <2>1, <3>2 DEF ResultOf
  <2> QED BY <1>4, <1>10, <1>13, <2>1, <2>2 DEF TaskReturns, TypeOK
<1>14. ASSUME NEW n \in Nodes, TaskRaises(n) PROVE Accounted' /\ ReturnComplete'
  <2>1. status[n] = "running" /\ task[n] = "calling"
    BY <1>11, <1>14 DEF TaskRaises, StatusOfTask
  <2>2. CASE attempt[n] < Retries[n]
    <3>1. task' = [task EXCEPT ![n] = "sleeping"] /\ status' = status /\ results' = results
      BY <1>4, <1>14, <2>2 DEF TaskRaises, AttemptRaised, TypeOK
    <3>2. ResultOf(n)'
      BY <1>11, <3>1 DEF ResultOf
    <3> QED BY <1>4, <1>10, <1>14, <2>1, <3>1, <3>2 DEF TaskRaises, TypeOK
  <2>3. CASE attempt[n] >= Retries[n]
    <3>1. /\ status' = [status EXCEPT ![n] = "failed"]
          /\ results' = [results EXCEPT ![n].failed = @ + 1]
          /\ task' = [task EXCEPT ![n] = IF callback = "none" THEN "done" ELSE "failcb"]
      BY <1>4, <1>14, <2>3 DEF TaskRaises, AttemptRaised, TypeOK
    <3>2. status'[n] = "failed" /\ results'[n] = [results[n] EXCEPT !.failed = @ + 1] /\ task'[n] \in {"done", "failcb"}
      BY <1>4, <3>1 DEF TypeOK
    <3>3. ResultOf(n)'
      <4>1. results[n] = [ok |-> 0, failed |-> 0]
        BY <1>11, <2>1 DEF ResultOf
      <4>2. results'[n] = [ok |-> 0, failed |-> 1]
        BY <3>2, <4>1
      <4> QED BY <3>2, <4>2 DEF ResultOf
    <3> QED BY <1>4, <1>10, <1>14, <2>1, <3>1, <3>2, <3>3 DEF TaskRaises, TypeOK
  <2> QED BY <1>4, <2>2, <2>3 DEF TypeOK
<1>15. ASSUME NEW n \in Nodes, CallbackEnds(n) PROVE Accounted' /\ ReturnComplete'
  <2>1. status'[n] = status[n] /\ results'[n] = results[n] /\ task'[n] = "done" /\ status[n] \in {"completed", "failed"}
    BY <1>4, <1>11, <1>15 DEF CallbackEnds, StatusOfTask, TypeOK
  <2>2. ResultOf(n)'
    BY <1>11, <2>1 DEF ResultOf
  <2> QED BY <1>4, <1>10, <1>15, <2>1, <2>2 DEF CallbackEnds, TypeOK
<1>16. ASSUME NEW n \in Nodes, BackoffEnds(n) PROVE Accounted' /\ ReturnComplete'
  <2>1. status'[n] = status[n] /\ results'[n] = results[n] /\ task'[n] = "calling" /\ status[n] = "running"
    BY <1>4, <1>11, <1>16 DEF BackoffEnds, StatusOfTask, TypeOK
  <2>2. ResultOf(n)'
    BY <1>11, <2>1 DEF ResultOf
  <2> QED BY <1>4, <1>10, <1>16, <2>1, <2>2 DEF BackoffEnds, TypeOK
<1>17. CASE UNCHANGED vars
  <2>1. /\ edges' = edges /\ status' = status /\ task' = task /\ results' = results
        /\ completed' = completed /\ main' = main
    BY <1>17 DEF vars
  <2>2. Accounted'
    BY <1>4, <2>1 DEF Accounted, ResultOf, Children, Parents
  <2>3. ReturnComplete'
    BY <1>1, <2>1 DEF RInv, ReturnComplete, InProgress, Parents
  <2> QED BY <2>2, <2>3
<1> QED
  BY <1>6, <1>7, <1>8, <1>9, <1>12, <1>13, <1>14, <1>15, <1>16, <1>17
  DEF Next, Execute, RunNode, CallbackRaises

\* ReturnComplete: on any graph, cyclic ones included, and whatever the tasks do, execute() returns with
\* nothing left running, one result, the right one, for each node that ran, and a reason for each of the others.
THEOREM ReturnIsComplete == Spec => []ReturnComplete
<1>1. Init => RInv
  <2> SUFFICES ASSUME Init PROVE RInv
    OBVIOUS
  <2>1. IInv
    BY InitIInv
  <2>2. Accounted
    BY DEF Init, Accounted, ResultOf
  <2> QED BY <2>1, <2>2 DEF Init, RInv, ReturnComplete
<1>2. RInv => ReturnComplete
  BY DEF RInv
<1>3. RInv => IInv
  BY DEF RInv
<1> QED BY <1>1, <1>2, <1>3, IInvStep, RInvStep, PTL DEF Spec

-----------------------------------------------------------------------------
(* Refinement.                                                             *)

\* The mapped phase of a node, when something is promised.
LEMMA PhaseMap ==
  ASSUME status \in [Nodes -> Statuses], NEW n \in Nodes
  PROVE  /\ PhaseOf[status[n]] = "waiting" <=> status[n] = "pending"
         /\ PhaseOf[status[n]] = "running" <=> status[n] = "running"
         /\ PhaseOf[status[n]] = "succeeded" <=> status[n] = "completed"
         /\ PhaseOf[status[n]] = "failed" <=> status[n] = "failed"
         /\ PhaseOf[status[n]] = "skipped" <=> status[n] = "skipped"
BY DEF PhaseOf, Statuses

\* Children of a failed node, and what a cascade reaches, are doomed.
LEMMA ScanDoomed ==
  ASSUME TypeOK, callback # "raising", NEW n \in SkippedByScan
  PROVE  n \in Sched!Doomed
<1>1. PICK f \in Nodes : n \in Sched!ChildrenIn(f) /\ status[f] = "failed"
  BY DEF SkippedByScan, Parents, Sched!ChildrenIn
<1>2. PhaseOf[status[f]] = "failed"
  BY <1>1, PhaseMap DEF TypeOK
<1> QED BY <1>1, <1>2 DEF Sched!Doomed, SkippedByScan

LEMMA CascadeDoomed ==
  ASSUME TypeOK, callback # "raising",
         NEW f \in Nodes, status[f] = "failed", NEW finished,
         NEW m \in CascadeSet(f, finished)
  PROVE  m \in Sched!Doomed
<1>1. PhaseOf[status[f]] = "failed"
  BY PhaseMap DEF TypeOK
<1>2. SUFFICES ASSUME NEW S \in SUBSET Nodes,
                      \A g \in Nodes : PhaseOf[status[g]] = "failed" => Sched!ChildrenIn(g) \subseteq S,
                      \A a \in S : Sched!ChildrenIn(a) \subseteq S
               PROVE  m \in S
  BY DEF Sched!Doomed, CascadeSet
<1>3. \A x \in Nodes : Children(x) = Sched!ChildrenIn(x)
  BY DEF Children, Sched!ChildrenIn
<1>4. Children(f) \ finished \subseteq S
  BY <1>1, <1>2, <1>3
<1>5. \A a \in S \ finished : Children(a) \ finished \subseteq S
  BY <1>2, <1>3
<1> QED BY <1>2, <1>4, <1>5 DEF CascadeSet

\* A set of doomed waiting nodes that become skipped, together, is SSkip or,
\* when there is none, a stutter.
LEMMA SkipIsSSkip ==
  ASSUME TypeOK, TypeOK', callback # "raising", callback' = callback, edges' = edges,
         NEW S \in SUBSET Sched!Doomed, S \subseteq Nodes,
         \A n \in S : status[n] \in {"pending", "skipped"},
         status' = [n \in Nodes |-> IF n \in S THEN "skipped" ELSE status[n]]
  PROVE  [Sched!SNext]_(Sched!svars)
<1> DEFINE W == {n \in S : status[n] = "pending"}
           ph == [n \in Nodes |-> IF callback = "raising" THEN "waiting" ELSE PhaseOf[status[n]]]
<1>1. ph' = [n \in Nodes |-> IF n \in W THEN "skipped" ELSE ph[n]]
  BY PhaseMap DEF TypeOK, Statuses, PhaseOf
<1>2. W \subseteq {n \in Sched!Doomed : ph[n] = "waiting"}
  BY PhaseMap DEF TypeOK
<1>3. CASE W = {}
  <2>1. ph' = ph
    BY <1>1, <1>3
  <2> QED BY <2>1 DEF Sched!svars
<1>4. CASE W # {}
  BY <1>1, <1>2, <1>4 DEF Sched!SNext, Sched!SSkip
<1> QED BY <1>3, <1>4

LEMMA InitRefines == Init => Sched!SInit
BY DEF Init, Sched!SInit, PhaseOf

\* Every step of the engine is a step of the schedule or changes nothing in it.
LEMMA StepRefines == IInv /\ TypeOK' /\ [Next]_vars => [Sched!SNext]_(Sched!svars)
<1> SUFFICES ASSUME IInv, TypeOK', [Next]_vars PROVE [Sched!SNext]_(Sched!svars)
  OBVIOUS
<1> DEFINE ph == [n \in Nodes |-> IF callback = "raising" THEN "waiting" ELSE PhaseOf[status[n]]]
<1>1. callback' = callback /\ edges' = edges
  BY DEF vars, Next, Execute, RunNode, Turn, Return, WaitReturns, Reap, Acquire,
         TaskReturns, TaskRaises, CallbackRaises, CallbackEnds, BackoffEnds
<1>2. CASE callback = "raising"
  BY <1>1, <1>2 DEF Sched!svars
<1>3. SUFFICES ASSUME callback # "raising" PROVE [Sched!SNext]_(Sched!svars)
  BY <1>2
<1> USE <1>1, <1>3
<1>4. ASSUME status' = status PROVE [Sched!SNext]_(Sched!svars)
  BY <1>4 DEF Sched!svars
<1>5. CASE Turn
  <2>1. SkippedByScan \subseteq Sched!Doomed
    BY ScanDoomed DEF IInv
  <2>2. \A n \in SkippedByScan : n \in Nodes /\ status[n] = "pending"
    BY DEF SkippedByScan
  <2> QED BY <1>5, <2>1, <2>2, SkipIsSSkip DEF Turn, IInv
<1>6. ASSUME NEW n \in Nodes, Reap(n) PROVE [Sched!SNext]_(Sched!svars)
  <2> DEFINE casc == IF status[n] = "failed" THEN CascadeSet(n, completed \cup {n}) ELSE {}
  <2>1. casc \subseteq Sched!Doomed
    BY CascadeDoomed DEF IInv
  <2>2. casc \subseteq Nodes
    BY DEF CascadeSet
  <2>3. \A m \in casc : status[m] \in {"pending", "skipped"}
    BY <2>2, CascadeSpares DEF IInv, StatusOfTask
  <2>4. status' = [m \in Nodes |-> IF m \in casc THEN "skipped" ELSE status[m]]
    BY <1>6 DEF Reap
  <2> HIDE DEF casc
  <2> QED BY <2>1, <2>2, <2>3, <2>4, SkipIsSSkip DEF IInv
<1>7. ASSUME NEW n \in Nodes, Acquire(n) PROVE [Sched!SNext]_(Sched!svars)
  <2>1. status[n] = "pending" /\ \A p \in Parents(n) : status[p] = "completed"
    BY <1>7 DEF Acquire, IInv, StatusOfTask, Precedence
  <2>2. \A p \in Sched!ParentsIn(n) : p \in Nodes /\ ph[p] = "succeeded"
    BY <2>1, PhaseMap DEF Parents, Sched!ParentsIn, IInv, TypeOK
  <2>3. ph[n] = "waiting"
    BY <2>1, PhaseMap DEF IInv, TypeOK
  <2>4. status' = [status EXCEPT ![n] = "running"]
    BY <1>7 DEF Acquire
  <2>5. ph' = [ph EXCEPT ![n] = "running"]
    BY <2>4 DEF IInv, TypeOK, PhaseOf
  <2> QED BY <2>2, <2>3, <2>5 DEF Sched!SNext, Sched!SStart
<1>8. ASSUME NEW n \in Nodes, task[n] = "calling",
             NEW v \in {"completed", "failed"}, status' = [status EXCEPT ![n] = v]
      PROVE  [Sched!SNext]_(Sched!svars)
  <2>1. ph[n] = "running"
    BY <1>8, PhaseMap DEF IInv, TypeOK, StatusOfTask
  <2>2. ph' = [ph EXCEPT ![n] = PhaseOf[v]]
    BY <1>8 DEF IInv, TypeOK, PhaseOf
  <2>3. PhaseOf[v] \in {"succeeded", "failed"}
    BY DEF PhaseOf
  <2> QED BY <2>1, <2>2, <2>3 DEF Sched!SNext, Sched!SFinish
<1>9. ASSUME NEW n \in Nodes, TaskReturns(n) PROVE [Sched!SNext]_(Sched!svars)
  BY <1>8, <1>9 DEF TaskReturns
<1>10. ASSUME NEW n \in Nodes, TaskRaises(n) PROVE [Sched!SNext]_(Sched!svars)
  BY <1>4, <1>8, <1>10 DEF TaskRaises, AttemptRaised
<1> QED
  BY <1>4, <1>5, <1>6, <1>7, <1>9, <1>10
  DEF Next, Execute, RunNode, Return, WaitReturns, CallbackRaises, CallbackEnds,
      BackoffEnds, vars

\* The engine implements the schedule: on any graph, cyclic ones included, a
\* node runs only after its parents succeeded, gets one verdict, and is given
\* up only downstream of a failure, while on_complete does not raise.
THEOREM EngineImplementsSchedule == Spec => ImplementsSchedule
<1>1. IInv => TypeOK
  BY DEF IInv
<1> QED
  BY InitIInv, IInvStep, InitRefines, StepRefines, <1>1, PTL
  DEF Spec, ImplementsSchedule, Sched!SSpec
=============================================================================
