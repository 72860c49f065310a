--------------------------- MODULE LiquidationProofs ---------------------------
(***************************************************************************)
(* For any accounts, positions, watch lists and updaters: what aggregate3  *)
(* finds in the calldata is what was written into it, and the monitor      *)
(* decodes the answer that was given, so that a record is what its account *)
(* held in one block, and so is what an opportunity is computed from.      *)
(***************************************************************************)
EXTENDS Liquidation, SequenceTheorems, WellFoundedInduction, TLAPS

-----------------------------------------------------------------------------
(* Induction                                                               *)

(* Induction on the natural numbers, for a set of them.                    *)
LEMMA SetInduction ==
    ASSUME NEW T \in SUBSET Nat, 0 \in T, \A n \in T : n + 1 \in T
    PROVE  T = Nat
  <1> DEFINE R == OpToRel(<, Nat)
  <1>1. IsWellFoundedOn(R, Nat)
    BY NatLessThanWellFounded
  <1>2. \A x, y \in Nat : <<x, y>> \in R <=> x < y
    BY DEF OpToRel
  <1> HIDE DEF R
  <1> SUFFICES ASSUME Nat \ T # {} PROVE FALSE
    OBVIOUS
  <1>3. PICK x \in Nat \ T : \A y \in Nat \ T : ~(<<y, x>> \in R)
    BY <1>1, WFMin
  <1>4. x - 1 \in Nat /\ x - 1 < x /\ x = (x - 1) + 1
    BY <1>3
  <1>5. x - 1 \in T
    BY <1>2, <1>3, <1>4
  <1> QED
    BY <1>3, <1>4, <1>5

StepByStep(g, n, base, step) ==
    \A i \in 1..n : g[i] = IF i = 1 THEN base ELSE step[<<g[i - 1], i>>]

(* A function on 1..n that is defined step by step exists.                 *)
LEMMA Recursion ==
    ASSUME NEW n \in Nat, NEW S, NEW base \in S, NEW step \in [S \X (1..n) -> S]
    PROVE  \E g \in [1..n -> S] : StepByStep(g, n, base, step)
  <1> DEFINE Def(g, m) == \A i \in 1..m : g[i] = IF i = 1 THEN base ELSE step[<<g[i - 1], i>>]
             T == {m \in Nat : m <= n => \E g \in [1..m -> S] : Def(g, m)}
  <1>1. 0 \in T
    <2>1. [i \in 1..0 |-> base] \in [1..0 -> S] /\ Def([i \in 1..0 |-> base], 0)
      OBVIOUS
    <2> QED
      BY <2>1
  <1>2. ASSUME NEW m \in T PROVE m + 1 \in T
    <2> SUFFICES ASSUME m + 1 <= n PROVE \E g \in [1..m + 1 -> S] : Def(g, m + 1)
      OBVIOUS
    <2>1. m \in Nat /\ m <= n
      OBVIOUS
    <2>2. PICK g \in [1..m -> S] : Def(g, m)
      BY <2>1
    <2> DEFINE next == IF m = 0 THEN base ELSE step[<<g[m], m + 1>>]
               h == [i \in 1..m + 1 |-> IF i = m + 1 THEN next ELSE g[i]]
    <2>3. next \in S
      <3>1. CASE m = 0
        BY <3>1
      <3>2. CASE m # 0
        <4>1. m \in 1..m /\ m + 1 \in 1..n
          BY <2>1, <3>2
        <4>2. <<g[m], m + 1>> \in S \X (1..n)
          BY <4>1
        <4> QED
          BY <3>2, <4>2
      <3> QED
        BY <3>1, <3>2
    <2> HIDE DEF next
    <2>4. h \in [1..m + 1 -> S]
      BY <2>1, <2>3
    <2>5. /\ \A i \in 1..m : h[i] = g[i]
          /\ h[m + 1] = next
      BY <2>1
    <2>6. ASSUME NEW i \in 1..m + 1
          PROVE  h[i] = IF i = 1 THEN base ELSE step[<<h[i - 1], i>>]
      <3>1. CASE i = m + 1
        <4>1. CASE m = 0
          BY <2>5, <3>1, <4>1 DEF next
        <4>2. CASE m # 0
          <5>1. i # 1 /\ i - 1 = m /\ h[m] = g[m]
            BY <2>1, <2>5, <3>1, <4>2
          <5>2. h[i] = step[<<g[m], m + 1>>]
            BY <2>5, <3>1, <4>2 DEF next
          <5> QED
            BY <3>1, <5>1, <5>2
        <4> QED
          BY <4>1, <4>2
      <3>2. CASE i # m + 1
        <4>1. i \in 1..m /\ (i # 1 => i - 1 \in 1..m)
          BY <2>1, <3>2
        <4>2. g[i] = IF i = 1 THEN base ELSE step[<<g[i - 1], i>>]
          BY <2>2, <4>1
        <4> HIDE DEF h
        <4> QED
          BY <2>5, <4>1, <4>2
      <3> QED
        BY <3>1, <3>2
    <2> HIDE DEF h
    <2>7. Def(h, m + 1)
      BY <2>6
    <2> QED
      BY <2>4, <2>7
  <1>3. T = Nat
    <2> HIDE DEF T
    <2>1. T \subseteq Nat
      BY DEF T
    <2> QED
      BY <1>1, <1>2, <2>1, SetInduction
  <1>4. PICK g \in [1..n -> S] : Def(g, n)
    BY <1>3
  <1>5. StepByStep(g, n, base, step)
    BY <1>4 DEF StepByStep
  <1> QED
    BY <1>5

(* What holds at 1 and is passed on holds up to n.                         *)
LEMMA UpTo ==
    ASSUME NEW n \in Nat, NEW T,
           n # 0 => 1 \in T,
           \A i \in 1..n : i \in T /\ i + 1 \in 1..n => i + 1 \in T
    PROVE  1..n \subseteq T
  <1> DEFINE U == {m \in Nat : m \in 1..n => m \in T}
  <1>1. 0 \in U
    OBVIOUS
  <1>2. ASSUME NEW m \in U PROVE m + 1 \in U
    <2>1. CASE m = 0
      BY <2>1
    <2>2. CASE m # 0
      BY <2>2
    <2> QED
      BY <2>1, <2>2
  <1>3. U = Nat
    <2>1. U \subseteq Nat
      OBVIOUS
    <2> HIDE DEF U
    <2> QED
      BY <1>1, <1>2, <2>1, SetInduction
  <1> QED
    BY <1>3

(* The greatest of finitely many indices is one of them.                   *)
LEMMA MaxIsMember ==
    ASSUME NEW n \in Nat, NEW S \in SUBSET (1..n), S # {}
    PROVE  Max(S) \in S
  <1> DEFINE HasMax(s) == \E x \in s : \A y \in s : x >= y
             T == {m \in Nat : \A s \in SUBSET (1..m) : s # {} => HasMax(s)}
  <1>1. 0 \in T
    <2>1. 1..0 = {}
      OBVIOUS
    <2> QED
      BY <2>1
  <1>2. ASSUME NEW m \in T PROVE m + 1 \in T
    <2> SUFFICES ASSUME NEW s \in SUBSET (1..m + 1), s # {} PROVE HasMax(s)
      OBVIOUS
    <2>1. CASE m + 1 \in s
      <3>1. \A y \in s : m + 1 >= y
        OBVIOUS
      <3> QED
        BY <2>1, <3>1
    <2>2. CASE m + 1 \notin s
      <3>1. s \in SUBSET (1..m)
        BY <2>2
      <3> QED
        BY <3>1
    <2> QED
      BY <2>1, <2>2
  <1>3. T = Nat
    <2>1. T \subseteq Nat
      OBVIOUS
    <2> HIDE DEF T
    <2> QED
      BY <1>1, <1>2, <2>1, SetInduction
  <1>4. HasMax(S)
    BY <1>3
  <1> QED
    BY <1>4 DEF Max

-----------------------------------------------------------------------------
(* What Array writes                                                       *)

(* The first i elements one behind the other.                              *)
IsFlat(elements, flat) ==
    /\ flat \in [1..Len(elements) -> Seq(Nat)]
    /\ \A i \in 1..Len(elements) :
          flat[i] = IF i = 1 THEN elements[i] ELSE flat[i - 1] \o elements[i]

LEMMA FlatExists ==
    ASSUME NEW E \in Seq(Seq(Nat)), Len(E) # 0
    PROVE  \E flat : IsFlat(E, flat) /\ FlattenSeq(E) = flat[Len(E)]
  <1> DEFINE IsRec(f) == f = [i \in 1..Len(E) |-> IF i = 1 THEN E[i] ELSE f[i - 1] \o E[i]]
  <1>1. PICK n \in Nat \ {0} : n = Len(E)
    OBVIOUS
  <1>2. E[1] \in Seq(Nat) /\ \A i \in 1..n : E[i] \in Seq(Nat)
    BY <1>1
  <1> DEFINE step == [x \in Seq(Nat) \X (1..n) |-> x[1] \o E[x[2]]]
  <1>3. step \in [Seq(Nat) \X (1..n) -> Seq(Nat)]
    BY <1>2
  <1>4. \A s \in Seq(Nat), i \in 1..n : step[<<s, i>>] = s \o E[i]
    OBVIOUS
  <1> HIDE DEF step
  <1>5. PICK g \in [1..n -> Seq(Nat)] : StepByStep(g, n, E[1], step)
    BY <1>2, <1>3, Recursion
  <1>6. IsRec(g)
    <2>1. ASSUME NEW i \in 1..n PROVE g[i] = IF i = 1 THEN E[i] ELSE g[i - 1] \o E[i]
      <3>1. CASE i = 1
        BY <1>5, <3>1 DEF StepByStep
      <3>2. CASE i # 1
        <4>1. i - 1 \in 1..n
          BY <1>1, <3>2
        <4>2. g[i - 1] \in Seq(Nat)
          BY <4>1
        <4> QED
          BY <1>4, <1>5, <3>2, <4>2 DEF StepByStep
      <3> QED
        BY <3>1, <3>2
    <2> QED
      BY <1>1, <2>1
  <1> DEFINE flat == CHOOSE f : IsRec(f)
  <1>7. IsRec(flat)
    <2> HIDE DEF IsRec
    <2> QED
      BY <1>6
  <1>8. FlattenSeq(E) = flat[n]
    BY <1>1 DEF FlattenSeq
  <1> HIDE DEF flat
  <1>9. \A i \in 1..n : flat[i] = IF i = 1 THEN E[i] ELSE flat[i - 1] \o E[i]
    BY <1>1, <1>7
  <1>10. \A i \in 1..n : flat[i] \in Seq(Nat)
    <2> DEFINE T == {m \in Nat : flat[m] \in Seq(Nat)}
    <2>1. 1 \in T
      BY <1>1, <1>2, <1>9
    <2>2. ASSUME NEW m \in 1..n, m \in T, m + 1 \in 1..n PROVE m + 1 \in T
      <3>1. m + 1 # 1 /\ (m + 1) - 1 = m /\ m + 1 \in Nat
        OBVIOUS
      <3>2. flat[m + 1] = flat[m] \o E[m + 1]
        BY <1>9, <2>2, <3>1
      <3>3. flat[m] \in Seq(Nat) /\ E[m + 1] \in Seq(Nat)
        BY <1>2, <2>2
      <3>4. flat[m] \o E[m + 1] \in Seq(Nat)
        BY <3>3
      <3> QED
        BY <3>1, <3>2, <3>4
    <2>3. 1..n \subseteq T
      <3> HIDE DEF T
      <3> QED
        BY <2>1, <2>2, UpTo
    <2> QED
      BY <2>3
  <1>11. flat \in [1..n -> Seq(Nat)]
    BY <1>1, <1>7, <1>10
  <1> QED
    BY <1>1, <1>8, <1>9, <1>11 DEF IsFlat

LEMMA OffsetsStep ==
    ASSUME NEW E \in Seq(Seq(Nat))
    PROVE  /\ Offsets(E) \in [1..Len(E) -> Nat]
           /\ \A i \in 1..Len(E) : Offsets(E)[i] =
                 IF i = 1 THEN 32 * Len(E) ELSE Offsets(E)[i - 1] + 32 * Len(E[i - 1])
  <1> DEFINE IsRec(f) == f = [i \in DOMAIN E |-> IF i = 1 THEN 32 * Len(E)
                                                 ELSE f[i - 1] + 32 * Len(E[i - 1])]
  <1>1. PICK n \in Nat : n = Len(E) /\ DOMAIN E = 1..n
    OBVIOUS
  <1>2. \A i \in 1..n : Len(E[i]) \in Nat
    BY <1>1
  <1> DEFINE len == [i \in 1..n |-> Len(E[i])]
             step == [x \in Nat \X (1..n) |-> IF x[2] = 1 THEN 0 ELSE x[1] + 32 * len[x[2] - 1]]
  <1>3. len \in [1..n -> Nat] /\ \A i \in 1..n : len[i] = Len(E[i])
    BY <1>2
  <1> HIDE DEF len
  <1>4. step \in [Nat \X (1..n) -> Nat] /\ 32 * n \in Nat
    <2>1. ASSUME NEW k \in Nat, NEW i \in 1..n, i # 1 PROVE k + 32 * len[i - 1] \in Nat
      <3>1. len[i - 1] \in Nat
        BY <1>1, <1>3, <2>1
      <3> QED
        BY <3>1
    <2> QED
      BY <2>1
  <1>5. \A k \in Nat, i \in 1..n : i # 1 => step[<<k, i>>] = k + 32 * len[i - 1]
    OBVIOUS
  <1> HIDE DEF step
  <1>6. PICK g \in [1..n -> Nat] : StepByStep(g, n, 32 * n, step)
    BY <1>4, Recursion
  <1>7. IsRec(g)
    <2>1. ASSUME NEW i \in 1..n
          PROVE  g[i] = IF i = 1 THEN 32 * Len(E) ELSE g[i - 1] + 32 * Len(E[i - 1])
      <3>1. CASE i = 1
        BY <1>1, <1>6, <3>1 DEF StepByStep
      <3>2. CASE i # 1
        <4>1. i - 1 \in 1..n
          BY <1>1, <3>2
        <4>2. g[i - 1] \in Nat /\ len[i - 1] = Len(E[i - 1])
          BY <1>3, <4>1
        <4>3. step[<<g[i - 1], i>>] = g[i - 1] + 32 * len[i - 1]
          BY <1>5, <3>2, <4>2
        <4> QED
          BY <1>6, <3>2, <4>2, <4>3 DEF StepByStep
      <3> QED
        BY <3>1, <3>2
    <2> QED
      BY <1>1, <2>1
  <1> DEFINE off == Offsets(E)
  <1>8. IsRec(off)
    <2>1. off = CHOOSE f : IsRec(f)
      BY DEF Offsets
    <2> HIDE DEF IsRec, off
    <2> QED
      BY <1>7, <2>1
  <1> HIDE DEF off
  <1>9. /\ off = [i \in 1..n |-> off[i]]
        /\ \A i \in 1..n : off[i] = IF i = 1 THEN 32 * Len(E) ELSE off[i - 1] + 32 * Len(E[i - 1])
    BY <1>1, <1>8
  <1>10. \A m \in 1..n : off[m] \in Nat
    <2> DEFINE T == {m \in Nat : off[m] \in Nat}
    <2>1. ASSUME n # 0 PROVE 1 \in T
      <3>1. 1 \in 1..n
        BY <2>1
      <3>2. off[1] = 32 * Len(E)
        BY <1>9, <3>1
      <3> QED
        BY <1>1, <3>2
    <2>2. ASSUME NEW m \in 1..n, m \in T, m + 1 \in 1..n PROVE m + 1 \in T
      <3>1. m + 1 # 1 /\ (m + 1) - 1 = m /\ m + 1 \in Nat
        OBVIOUS
      <3>2. off[m + 1] = off[m] + 32 * Len(E[m])
        BY <1>9, <2>2, <3>1
      <3>3. off[m] \in Nat /\ Len(E[m]) \in Nat
        BY <1>2, <2>2
      <3> QED
        BY <3>1, <3>2, <3>3
    <2>3. 1..n \subseteq T
      <3> HIDE DEF T
      <3> QED
        BY <2>1, <2>2, UpTo
    <2> QED
      BY <2>3
  <1>11. off \in [1..n -> Nat]
    BY <1>9, <1>10
  <1> QED
    BY <1>1, <1>9, <1>11 DEF off

LEMMA Joined ==
    ASSUME NEW s \in Seq(Nat), NEW t \in Seq(Nat)
    PROVE  /\ s \o t \in Seq(Nat)
           /\ Len(s \o t) = Len(s) + Len(t)
           /\ \A i \in 1..Len(s) : (s \o t)[i] = s[i]
           /\ \A i \in 1..Len(t) : (s \o t)[Len(s) + i] = t[i]
  OBVIOUS

(* Where the i-th element starts among the words of all.                   *)
Start(flat, i) == IF i = 1 THEN 0 ELSE Len(flat[i - 1])

(* The words of e stand in s, behind the first at of its words.            *)
Holds(s, at, e) == \A k \in 1..Len(e) : s[at + k] = e[k]

(* The words up to the i-th element, and the element behind the others.    *)
LEMMA FlatParts ==
    ASSUME NEW E \in Seq(Seq(Nat)), NEW flat, IsFlat(E, flat), NEW i \in 1..Len(E)
    PROVE  /\ flat[i] \in Seq(Nat) /\ E[i] \in Seq(Nat)
           /\ Len(flat[i]) \in Nat /\ Len(E[i]) \in Nat /\ Start(flat, i) \in Nat
           /\ Len(flat[i]) = Start(flat, i) + Len(E[i])
           /\ Holds(flat[i], Start(flat, i), E[i])
           /\ i # 1 => flat[i] = flat[i - 1] \o E[i]
  <1>1. PICK n \in Nat : n = Len(E)
    OBVIOUS
  <1>2. flat \in [1..n -> Seq(Nat)]
    BY <1>1 DEF IsFlat
  <1>3. /\ \A j \in 1..n : flat[j] \in Seq(Nat)
        /\ \A j \in 1..n : E[j] \in Seq(Nat)
    <2>1. \A j \in 1..n : flat[j] \in Seq(Nat)
      BY <1>2
    <2>2. \A j \in 1..n : E[j] \in Seq(Nat)
      BY <1>1
    <2> QED
      BY <2>1, <2>2
  <1>4. flat[i] = IF i = 1 THEN E[i] ELSE flat[i - 1] \o E[i]
    BY DEF IsFlat
  <1>5. /\ flat[i] \in Seq(Nat) /\ E[i] \in Seq(Nat)
        /\ Len(flat[i]) \in Nat /\ Len(E[i]) \in Nat
    BY <1>1, <1>3
  <1>6. CASE i = 1
    <2>1. flat[i] = E[i] /\ Start(flat, i) = 0
      BY <1>4, <1>6 DEF Start
    <2>2. \A k \in 1..Len(E[i]) : flat[i][0 + k] = E[i][k]
      BY <1>5, <2>1
    <2> QED
      BY <1>5, <1>6, <2>1, <2>2 DEF Holds
  <1>7. CASE i # 1
    <2>1. i - 1 \in 1..n
      BY <1>1, <1>7
    <2> DEFINE before == flat[i - 1]
    <2>2. before \in Seq(Nat) /\ Len(before) \in Nat
      BY <1>3, <2>1
    <2>3. flat[i] = before \o E[i] /\ Start(flat, i) = Len(before)
      BY <1>4, <1>7 DEF Start
    <2> HIDE DEF before
    <2>4. /\ Len(before \o E[i]) = Len(before) + Len(E[i])
          /\ \A k \in 1..Len(E[i]) : (before \o E[i])[Len(before) + k] = E[i][k]
      BY <1>5, <2>2, Joined
    <2>5. flat[i] = flat[i - 1] \o E[i]
      BY <2>3 DEF before
    <2> QED
      BY <1>5, <2>2, <2>3, <2>4, <2>5 DEF Holds
  <1> QED
    BY <1>6, <1>7

(* What is in the first elements stays where it is when more follow.       *)
LEMMA FlatKeeps ==
    ASSUME NEW E \in Seq(Seq(Nat)), NEW flat, IsFlat(E, flat), NEW i \in 1..Len(E)
    PROVE  /\ Start(flat, i) \in Nat
           /\ Start(flat, i) + Len(E[i]) <= Len(flat[Len(E)])
           /\ \A k \in 1..Len(E[i]) : flat[Len(E)][Start(flat, i) + k] = E[i][k]
  <1>1. PICK n \in Nat \ {0} : n = Len(E) /\ i \in 1..n /\ n \in 1..n
    OBVIOUS
  <1>2. ASSUME NEW m \in 1..n
        PROVE  flat[m] \in Seq(Nat) /\ Len(flat[m]) \in Nat /\ E[m] \in Seq(Nat)
    <2>1. m \in 1..Len(E)
      BY <1>1
    <2> QED
      BY <2>1, FlatParts
  <1> DEFINE Keeps(m) == /\ Len(flat[i]) <= Len(flat[m])
                         /\ \A k \in 1..Len(flat[i]) : flat[m][k] = flat[i][k]
             T == {m \in Nat : m >= i => Keeps(m)}
  <1>3. n # 0 => 1 \in T
    <2>1. 1 >= i => i = 1
      BY <1>1
    <2>2. i = 1 => Keeps(1)
      BY <1>1, <1>2
    <2> QED
      BY <2>1, <2>2
  <1>4. ASSUME NEW m \in 1..n, m \in T, m + 1 \in 1..n PROVE m + 1 \in T
    <2> SUFFICES ASSUME m + 1 >= i PROVE Keeps(m + 1)
      OBVIOUS
    <2>1. CASE i = m + 1
      BY <1>1, <1>2, <2>1
    <2>2. CASE i # m + 1
      <3>1. Keeps(m) /\ m + 1 # 1 /\ (m + 1) - 1 = m
        BY <1>1, <1>4, <2>2
      <3>2. flat[m + 1] = flat[m] \o E[m + 1]
        <4>1. m + 1 \in 1..Len(E)
          BY <1>1, <1>4
        <4>2. flat[m + 1] = flat[(m + 1) - 1] \o E[m + 1]
          BY <3>1, <4>1, FlatParts
        <4> QED
          BY <3>1, <4>2
      <3>3. flat[m] \in Seq(Nat) /\ E[m + 1] \in Seq(Nat) /\ flat[i] \in Seq(Nat)
        BY <1>1, <1>2, <1>4
      <3>4. /\ Len(flat[m] \o E[m + 1]) = Len(flat[m]) + Len(E[m + 1])
            /\ \A k \in 1..Len(flat[m]) : (flat[m] \o E[m + 1])[k] = flat[m][k]
        BY <3>3, Joined
      <3>5. Len(flat[i]) \in Nat /\ Len(flat[m]) \in Nat /\ Len(E[m + 1]) \in Nat
        BY <3>3
      <3>6. Len(flat[i]) <= Len(flat[m + 1])
        <4>1. Len(flat[m + 1]) = Len(flat[m]) + Len(E[m + 1])
          BY <3>2, <3>4
        <4>2. Len(flat[i]) <= Len(flat[m])
          BY <3>1
        <4> DEFINE x == Len(flat[i])
                   y == Len(flat[m])
                   z == Len(E[m + 1])
        <4>3. x <= y /\ x \in Nat /\ y \in Nat /\ z \in Nat
          BY <3>5, <4>2
        <4>4. Len(flat[m + 1]) = y + z
          BY <4>1
        <4> HIDE DEF x, y, z
        <4>5. x <= y + z
          BY <4>3
        <4> QED
          BY <4>4, <4>5 DEF x
      <3>7. ASSUME NEW k \in 1..Len(flat[i]) PROVE flat[m + 1][k] = flat[i][k]
        <4>1. k \in 1..Len(flat[m])
          BY <3>1, <3>5
        <4>2. flat[m][k] = flat[i][k]
          BY <3>1
        <4> QED
          BY <3>2, <3>4, <4>1, <4>2
      <3> QED
        BY <3>6, <3>7
    <2> QED
      BY <2>1, <2>2
  <1>5. Keeps(n)
    <2>1. 1..n \subseteq T
      <3> HIDE DEF T
      <3> QED
        BY <1>3, <1>4, UpTo
    <2>2. n \in T
      <3> HIDE DEF T
      <3> QED
        BY <1>1, <2>1
    <2>3. n >= i
      BY <1>1
    <2> QED
      BY <2>2, <2>3
  <1> HIDE DEF Keeps
  <1>6. /\ Len(flat[i]) = Start(flat, i) + Len(E[i])
        /\ Start(flat, i) \in Nat /\ Len(E[i]) \in Nat
        /\ \A k \in 1..Len(E[i]) : flat[i][Start(flat, i) + k] = E[i][k]
    <2> HIDE DEF T
    <2>1. i \in 1..Len(E)
      OBVIOUS
    <2>2. Len(flat[i]) = Start(flat, i) + Len(E[i])
      BY <2>1, FlatParts
    <2>3. Start(flat, i) \in Nat /\ Len(E[i]) \in Nat
      BY <2>1, FlatParts
    <2>4. Holds(flat[i], Start(flat, i), E[i])
      BY <2>1, FlatParts
    <2> QED
      BY <2>2, <2>3, <2>4 DEF Holds
  <1>7. \A k \in 1..Len(E[i]) : Start(flat, i) + k \in 1..Len(flat[i])
    BY <1>6
  <1>8. Start(flat, i) + Len(E[i]) <= Len(flat[n])
    BY <1>5, <1>6 DEF Keeps
  <1>9. \A k \in 1..Len(E[i]) : flat[n][Start(flat, i) + k] = E[i][k]
    BY <1>5, <1>6, <1>7 DEF Keeps
  <1> QED
    BY <1>1, <1>6, <1>8, <1>9

(* The offsets are of the elements' starts.                                *)
LEMMA OffsetsAreStarts ==
    ASSUME NEW E \in Seq(Seq(Nat)), NEW flat, IsFlat(E, flat)
    PROVE  \A i \in 1..Len(E) : Offsets(E)[i] = 32 * (Len(E) + Start(flat, i))
  <1>1. PICK n \in Nat : n = Len(E)
    OBVIOUS
  <1> DEFINE T == {m \in Nat : Offsets(E)[m] = 32 * (n + Start(flat, m))}
  <1>2. \A j \in 1..n : Offsets(E)[j] =
            IF j = 1 THEN 32 * n ELSE Offsets(E)[j - 1] + 32 * Len(E[j - 1])
    BY <1>1, OffsetsStep
  <1>3. ASSUME n # 0 PROVE 1 \in T
    <2>1. 1 \in 1..n
      BY <1>3
    <2>2. Offsets(E)[1] = 32 * n /\ Start(flat, 1) = 0
      BY <1>2, <2>1 DEF Start
    <2> QED
      BY <2>2
  <1>4. ASSUME NEW m \in 1..n, m \in T, m + 1 \in 1..n PROVE m + 1 \in T
    <2>1. m + 1 # 1 /\ (m + 1) - 1 = m /\ m + 1 \in Nat
      OBVIOUS
    <2>2. Offsets(E)[m + 1] = Offsets(E)[m] + 32 * Len(E[m])
      BY <1>2, <1>4, <2>1
    <2>3. Start(flat, m + 1) = Len(flat[m])
      BY <2>1 DEF Start
    <2>4. /\ Len(flat[m]) = Start(flat, m) + Len(E[m])
          /\ Start(flat, m) \in Nat /\ Len(E[m]) \in Nat
      <3>1. m \in 1..Len(E)
        BY <1>1
      <3> QED
        BY <3>1, FlatParts
    <2>5. Offsets(E)[m] = 32 * (n + Start(flat, m))
      BY <1>4
    <2>6. Offsets(E)[m + 1] = 32 * (n + Start(flat, m + 1))
      BY <2>2, <2>3, <2>4, <2>5
    <2> QED
      BY <2>1, <2>6
  <1>5. 1..n \subseteq T
    <2> HIDE DEF T
    <2> QED
      BY <1>3, <1>4, UpTo
  <1> QED
    BY <1>1, <1>5

(* A message with an array of elements: its length, the elements' offsets, *)
(* and the elements where the offsets say.                                 *)
LaidOut(data, elements, start) ==
    /\ data \in Seq(Nat) /\ Len(data) >= 2 + Len(elements)
    /\ data[2] = Len(elements)
    /\ \A i \in 1..Len(elements) :
          /\ start[i] \in Nat
          /\ data[2 + i] = 32 * start[i]
          /\ 2 + start[i] + Len(elements[i]) <= Len(data)
          /\ Holds(data, 2 + start[i], elements[i])

LEMMA ArrayLaidOut ==
    ASSUME NEW E \in Seq(Seq(Nat))
    PROVE  \E start : LaidOut(<<32>> \o Array(E), E, start)
  <1> DEFINE n == Len(E)
             head == <<n>> \o Offsets(E)
             data == <<32>> \o Array(E)
  <1>1. n \in Nat /\ \A i \in 1..n : E[i] \in Seq(Nat)
    OBVIOUS
  <1>2. Offsets(E) \in Seq(Nat) /\ Len(Offsets(E)) = n
    <2>1. Offsets(E) \in [1..n -> Nat]
      BY OffsetsStep
    <2> HIDE DEF n
    <2> QED
      BY <1>1, <2>1
  <1> HIDE DEF n
  <1>3. /\ head \in Seq(Nat) /\ Len(head) = 1 + n
        /\ head[1] = n /\ \A i \in 1..n : head[1 + i] = Offsets(E)[i]
    BY <1>1, <1>2, Joined
  <1> HIDE DEF head
  <1>4. ASSUME NEW words \in Seq(Nat), FlattenSeq(E) = words
        PROVE  /\ data \in Seq(Nat) /\ Len(data) = 2 + n + Len(words)
               /\ data[2] = n
               /\ \A i \in 1..n : data[2 + i] = Offsets(E)[i]
               /\ \A k \in 1..Len(words) : data[2 + n + k] = words[k]
    <2> DEFINE body == head \o words
    <2>1. /\ body \in Seq(Nat) /\ Len(body) = 1 + n + Len(words)
          /\ \A i \in 1..n + 1 : body[i] = head[i]
          /\ \A k \in 1..Len(words) : body[1 + n + k] = words[k]
      <3>1. /\ body \in Seq(Nat) /\ Len(body) = Len(head) + Len(words)
            /\ \A i \in 1..Len(head) : body[i] = head[i]
            /\ \A k \in 1..Len(words) : body[Len(head) + k] = words[k]
        BY <1>3, Joined
      <3>2. Len(head) = 1 + n /\ 1 + n = n + 1
        BY <1>1, <1>3
      <3> QED
        BY <3>1, <3>2
    <2>2. data = <<32>> \o body
      BY <1>4 DEF Array, n, head
    <2> HIDE DEF body, data
    <2>3. /\ data \in Seq(Nat) /\ Len(data) = 1 + Len(body)
          /\ \A i \in 1..Len(body) : data[1 + i] = body[i]
      BY <2>1, <2>2
    <2>4. Len(words) \in Nat
      OBVIOUS
    <2>5. data[2] = n
      <3>1. data[1 + 1] = body[1]
        BY <1>1, <2>1, <2>3, <2>4
      <3> QED
        BY <1>1, <1>3, <2>1, <3>1
    <2>6. ASSUME NEW i \in 1..n PROVE data[2 + i] = Offsets(E)[i]
      <3>1. data[1 + (1 + i)] = body[1 + i]
        <4>1. 1 + i \in 1..Len(body)
          BY <1>1, <2>1, <2>4
        <4> QED
          BY <2>3, <4>1
      <3>2. body[1 + i] = head[1 + i]
        BY <1>1, <2>1
      <3>3. 1 + (1 + i) = 2 + i
        OBVIOUS
      <3> QED
        BY <1>3, <3>1, <3>2, <3>3
    <2>7. ASSUME NEW k \in 1..Len(words) PROVE data[2 + n + k] = words[k]
      <3>1. data[1 + (1 + n + k)] = body[1 + n + k]
        <4>1. 1 + n + k \in 1..Len(body)
          BY <1>1, <2>1, <2>4
        <4> QED
          BY <2>3, <4>1
      <3>2. 1 + (1 + n + k) = 2 + n + k
        BY <1>1, <2>4
      <3> QED
        BY <2>1, <3>1, <3>2
    <2> QED
      BY <1>1, <2>1, <2>3, <2>4, <2>5, <2>6, <2>7
  <1> HIDE DEF data
  <1>5. CASE n = 0
    <2>1. FlattenSeq(E) = << >>
      BY <1>5 DEF FlattenSeq, n
    <2>2. /\ data \in Seq(Nat) /\ Len(data) = 2
          /\ data[2] = 0
      <3>1. << >> \in Seq(Nat) /\ Len(<< >>) = 0
        OBVIOUS
      <3>2. /\ data \in Seq(Nat) /\ Len(data) = 2 + n + Len(<< >>)
            /\ data[2] = n
        BY <1>4, <2>1, <3>1
      <3> QED
        BY <1>5, <3>1, <3>2
    <2>3. LaidOut(data, E, << >>)
      BY <1>5, <2>2 DEF LaidOut, n
    <2> QED
      BY <2>3 DEF data
  <1>6. CASE n # 0
    <2>1. PICK flat : IsFlat(E, flat) /\ FlattenSeq(E) = flat[n]
      BY <1>6, FlatExists DEF n
    <2>2. flat[n] \in Seq(Nat)
      <3>1. n \in 1..n
        BY <1>1, <1>6
      <3>2. n \in 1..Len(E)
        BY <3>1 DEF n
      <3> QED
        BY <2>1, <3>2, FlatParts
    <2>3. /\ data \in Seq(Nat) /\ Len(data) = 2 + n + Len(flat[n])
          /\ data[2] = n
          /\ \A i \in 1..n : data[2 + i] = Offsets(E)[i]
          /\ \A k \in 1..Len(flat[n]) : data[2 + n + k] = flat[n][k]
      BY <1>4, <2>1, <2>2
    <2> DEFINE start == [i \in 1..n |-> n + Start(flat, i)]
    <2>4. ASSUME NEW i \in 1..n
          PROVE  /\ start[i] \in Nat
                 /\ data[2 + i] = 32 * start[i]
                 /\ 2 + start[i] + Len(E[i]) <= Len(data)
                 /\ Holds(data, 2 + start[i], E[i])
      <3>1. /\ Start(flat, i) \in Nat
            /\ Start(flat, i) + Len(E[i]) <= Len(flat[n])
            /\ \A k \in 1..Len(E[i]) : flat[n][Start(flat, i) + k] = E[i][k]
        BY <2>1, FlatKeeps DEF n
      <3>2. Offsets(E)[i] = 32 * (n + Start(flat, i))
        BY <2>1, OffsetsAreStarts DEF n
      <3>3. start[i] = n + Start(flat, i) /\ Len(E[i]) \in Nat /\ Len(flat[n]) \in Nat
        BY <1>1, <2>2
      <3> HIDE DEF start
      <3>4. ASSUME NEW k \in 1..Len(E[i]) PROVE data[2 + start[i] + k] = E[i][k]
        <4>1. Start(flat, i) + k \in 1..Len(flat[n])
          BY <3>1, <3>3
        <4>2. 2 + start[i] + k = 2 + n + (Start(flat, i) + k)
          BY <1>1, <3>1, <3>3
        <4> QED
          BY <2>3, <3>1, <4>1, <4>2
      <3>5. start[i] \in Nat /\ data[2 + i] = 32 * start[i]
        <4>1. start[i] \in Nat
          BY <1>1, <3>1, <3>3
        <4>2. data[2 + i] = Offsets(E)[i]
          BY <2>3
        <4> QED
          BY <3>2, <3>3, <4>1, <4>2
      <3>6. 2 + start[i] + Len(E[i]) <= Len(data)
        <4> DEFINE all == Len(flat[n])
                   own == Len(E[i])
                   before == Start(flat, i)
        <4>1. /\ before \in Nat /\ own \in Nat /\ all \in Nat
              /\ before + own <= all /\ start[i] = n + before
              /\ Len(data) = 2 + n + all
          BY <2>3, <3>1, <3>3
        <4> HIDE DEF all, own, before
        <4>2. 2 + (n + before) + own <= 2 + n + all
          BY <1>1, <4>1
        <4> QED
          BY <4>1, <4>2 DEF own
      <3> QED
        BY <3>4, <3>5, <3>6 DEF Holds
    <2> HIDE DEF start
    <2>5. LaidOut(data, E, start)
      <3>1. Len(data) >= 2 + n
        <4> DEFINE all == Len(flat[n])
        <4>1. all \in Nat
          BY <2>2
        <4>2. Len(data) = 2 + n + all
          BY <2>3
        <4> HIDE DEF all
        <4> QED
          BY <1>1, <4>1, <4>2
      <3> QED
        BY <2>3, <2>4, <3>1 DEF LaidOut, n
    <2> QED
      BY <2>5 DEF data
  <1> QED
    BY <1>5, <1>6

(* The message is read back                                                *)

LEMMA Aligned ==
    ASSUME NEW data, NEW k \in Nat
    PROVE  At(data, 32 * k) = data[k + 1] /\ (32 * k) \div 32 = k
  <1>1. (32 * k) \div 32 = k
    OBVIOUS
  <1> QED
    BY <1>1 DEF At

(* The words of e are read at a byte offset and behind it.                 *)
ReadAt(data, at, e) == \A j \in Nat : j < Len(e) => At(data, at + 32 * j) = e[j + 1]

LEMMA Reads ==
    ASSUME NEW data, NEW E \in Seq(Seq(Nat)), NEW start, LaidOut(data, E, start),
           NEW i \in 1..Len(E)
    PROVE  /\ start[i] \in Nat
           /\ 64 + At(data, 64 + 32 * (i - 1)) = 32 * (2 + start[i])
           /\ ReadAt(data, 32 * (2 + start[i]), E[i])
  <1>1. /\ start[i] \in Nat /\ data[2 + i] = 32 * start[i]
        /\ Holds(data, 2 + start[i], E[i])
    BY DEF LaidOut
  <1>2. i + 1 \in Nat /\ 64 + 32 * (i - 1) = 32 * (i + 1) /\ (i + 1) + 1 = 2 + i
    OBVIOUS
  <1>3. At(data, 64 + 32 * (i - 1)) = 32 * start[i]
    BY <1>1, <1>2, Aligned
  <1>4. 64 + At(data, 64 + 32 * (i - 1)) = 32 * (2 + start[i])
    BY <1>1, <1>3
  <1>5. ASSUME NEW j \in Nat, j < Len(E[i])
        PROVE  At(data, 32 * (2 + start[i]) + 32 * j) = E[i][j + 1]
    <2>1. Len(E[i]) \in Nat
      OBVIOUS
    <2>2. j + 1 \in 1..Len(E[i])
      BY <1>5, <2>1
    <2>3. /\ 32 * (2 + start[i]) + 32 * j = 32 * (2 + start[i] + j)
          /\ 2 + start[i] + j \in Nat
          /\ (2 + start[i] + j) + 1 = 2 + start[i] + (j + 1)
      <3>1. PICK p \in Nat : p = start[i]
        BY <1>1
      <3>2. /\ 32 * (2 + p) + 32 * j = 32 * (2 + p + j)
            /\ 2 + p + j \in Nat
            /\ (2 + p + j) + 1 = 2 + p + (j + 1)
        OBVIOUS
      <3> QED
        BY <3>1, <3>2
    <2>4. At(data, 32 * (2 + start[i]) + 32 * j) = data[2 + start[i] + (j + 1)]
      BY <2>3, Aligned
    <2> QED
      BY <1>1, <2>2, <2>4 DEF Holds
  <1> QED
    BY <1>1, <1>4, <1>5 DEF ReadAt

(* The words that a stretch of the message holds.                          *)
LEMMA Stretch ==
    ASSUME NEW data \in Seq(Nat), NEW w \in Seq(Nat), NEW a \in Nat,
           a + Len(w) <= Len(data), Holds(data, a, w)
    PROVE  SubSeq(data, a + 1, a + Len(w)) = w
  <1>1. Len(w) \in Nat /\ Len(data) \in Nat
    OBVIOUS
  <1> DEFINE sub == SubSeq(data, a + 1, a + Len(w))
  <1>2. /\ sub \in Seq(Nat) /\ Len(sub) = Len(w)
        /\ \A k \in 1..Len(w) : sub[k] = data[a + k]
    BY <1>1
  <1> HIDE DEF sub
  <1>3. \A k \in 1..Len(w) : sub[k] = w[k]
    BY <1>2 DEF Holds
  <1>4. sub = w
    BY <1>2, <1>3, SeqEqual
  <1> QED
    BY <1>4 DEF sub

LEMMA WordsHoldBytes ==
    ASSUME NEW n \in Nat
    PROVE  Words(n) \in Nat /\ 32 * Words(n) >= n
  BY DEF Words

(* An element in the message: what stands in front, then the words.        *)
LEMMA ElementParts ==
    ASSUME NEW h \in Seq(Nat), NEW w \in Seq(Nat), NEW data, NEW at \in Nat,
           Holds(data, at, h \o w)
    PROVE  /\ h \o w \in Seq(Nat) /\ Len(h \o w) = Len(h) + Len(w)
           /\ \A k \in 1..Len(h) : (h \o w)[k] = h[k]
           /\ Holds(data, at + Len(h), w)
  <1>1. /\ h \o w \in Seq(Nat) /\ Len(h \o w) = Len(h) + Len(w)
        /\ \A k \in 1..Len(h) : (h \o w)[k] = h[k]
        /\ \A k \in 1..Len(w) : (h \o w)[Len(h) + k] = w[k]
    BY Joined
  <1>2. ASSUME NEW k \in 1..Len(w) PROVE data[(at + Len(h)) + k] = w[k]
    <2>1. Len(h) \in Nat /\ Len(w) \in Nat
      OBVIOUS
    <2>2. Len(h) + k \in 1..Len(h \o w) /\ at + (Len(h) + k) = (at + Len(h)) + k
      BY <1>1, <2>1
    <2>3. data[at + (Len(h) + k)] = (h \o w)[Len(h) + k]
      BY <2>2 DEF Holds
    <2> QED
      BY <1>1, <2>2, <2>3
  <1> QED
    BY <1>1, <1>2 DEF Holds

(* A call, a result: as many words as its bytes take.                      *)
CallSet == {c \in [target : Nat, allow : BOOLEAN, bytes : Nat, words : Seq(Nat)] :
              Len(c.words) = Words(c.bytes)}

DecodedCall(calldata, i) ==
    LET base == 64 + At(calldata, 64 + 32 * (i - 1))
        data == base + At(calldata, base + 64)
        n    == At(calldata, data)
    IN  [target |-> At(calldata, base), allow |-> At(calldata, base + 32) = 1,
         bytes |-> n,
         words |-> SubSeq(calldata, data \div 32 + 2, data \div 32 + 1 + Words(n))]

LEMMA TupleIsWords ==
    ASSUME NEW c \in CallSet
    PROVE  encodeTuple(c) \in Seq(Nat)
  <1>1. c.target \in Nat /\ c.bytes \in Nat /\ c.words \in Seq(Nat)
    BY DEF CallSet
  <1>2. <<c.target, IF c.allow THEN 1 ELSE 0, 96, c.bytes>> \in Seq(Nat)
    BY <1>1
  <1> QED
    BY <1>1, <1>2 DEF encodeTuple

LEMMA CallRead ==
    ASSUME NEW E \in Seq(Seq(Nat)), NEW data, NEW start, LaidOut(data, E, start),
           NEW i \in 1..Len(E), NEW c \in CallSet, E[i] = encodeTuple(c)
    PROVE  DecodedCall(data, i) = c
  <1>1. /\ c.target \in Nat /\ c.allow \in BOOLEAN /\ c.bytes \in Nat
        /\ c.words \in Seq(Nat) /\ Len(c.words) = Words(c.bytes)
        /\ c = [target |-> c.target, allow |-> c.allow, bytes |-> c.bytes, words |-> c.words]
    BY DEF CallSet
  <1>2. /\ data \in Seq(Nat) /\ start[i] \in Nat
        /\ 2 + start[i] + Len(E[i]) <= Len(data)
        /\ Holds(data, 2 + start[i], E[i])
    BY DEF LaidOut
  <1>3. PICK p \in Nat : p = 2 + start[i]
    BY <1>2
  <1> DEFINE flag == IF c.allow THEN 1 ELSE 0
             h == <<c.target, flag, 96, c.bytes>>
  <1>4. flag \in Nat /\ (flag = 1) = c.allow
    BY <1>1
  <1> HIDE DEF flag
  <1>5. /\ h \in Seq(Nat) /\ Len(h) = 4
        /\ h[1] = c.target /\ h[2] = flag /\ h[3] = 96 /\ h[4] = c.bytes
    BY <1>1, <1>4
  <1>6. E[i] = h \o c.words
    BY DEF encodeTuple, flag
  <1> HIDE DEF h
  <1>7. /\ Len(E[i]) = 4 + Len(c.words)
        /\ \A k \in 1..4 : E[i][k] = h[k]
        /\ Holds(data, p + 4, c.words)
    <2>1. Holds(data, p, h \o c.words)
      BY <1>2, <1>3, <1>6
    <2>2. /\ Len(h \o c.words) = Len(h) + Len(c.words)
          /\ \A k \in 1..Len(h) : (h \o c.words)[k] = h[k]
          /\ Holds(data, p + Len(h), c.words)
      BY <1>1, <1>5, <2>1, ElementParts
    <2> QED
      BY <1>5, <1>6, <2>2
  <1>8. /\ 64 + At(data, 64 + 32 * (i - 1)) = 32 * p
        /\ \A j \in Nat : j < Len(E[i]) => At(data, 32 * p + 32 * j) = E[i][j + 1]
    <2>1. /\ 64 + At(data, 64 + 32 * (i - 1)) = 32 * (2 + start[i])
          /\ ReadAt(data, 32 * (2 + start[i]), E[i])
      BY Reads
    <2> QED
      BY <1>3, <2>1 DEF ReadAt
  <1>9. Len(c.words) \in Nat
    BY <1>1
  <1>10. /\ At(data, 32 * p) = c.target /\ At(data, 32 * p + 32) = flag
         /\ At(data, 32 * p + 64) = 96 /\ At(data, 32 * p + 96) = c.bytes
    <2>1. ASSUME NEW j \in 0..3 PROVE At(data, 32 * p + 32 * j) = h[j + 1]
      <3>1. j \in Nat /\ j < Len(E[i]) /\ j + 1 \in 1..4
        <4>1. j \in Nat /\ j + 1 \in 1..4 /\ j < 4
          OBVIOUS
        <4>2. 4 <= 4 + Len(c.words)
          BY <1>9
        <4> QED
          BY <1>7, <1>9, <4>1, <4>2
      <3>2. At(data, 32 * p + 32 * j) = E[i][j + 1]
        BY <1>8, <3>1
      <3> QED
        BY <1>7, <3>1, <3>2
    <2>2. At(data, 32 * p + 32 * 0) = h[1]
      BY <2>1
    <2>3. At(data, 32 * p + 32 * 1) = h[2]
      BY <2>1
    <2>4. At(data, 32 * p + 32 * 2) = h[3]
      BY <2>1
    <2>5. At(data, 32 * p + 32 * 3) = h[4]
      BY <2>1
    <2>6. 32 * p + 32 * 0 = 32 * p
      OBVIOUS
    <2> QED
      BY <1>5, <2>2, <2>3, <2>4, <2>5, <2>6
  <1>11. (32 * p + 96) \div 32 = p + 3
    OBVIOUS
  <1>12. SubSeq(data, (p + 4) + 1, (p + 4) + Len(c.words)) = c.words
    <2>1. (p + 4) + Len(c.words) <= Len(data)
      <3> DEFINE own == Len(c.words)
      <3>1. p + (4 + own) <= Len(data) /\ own \in Nat
        BY <1>2, <1>3, <1>7, <1>9
      <3> HIDE DEF own
      <3>2. (p + 4) + own = p + (4 + own)
        BY <3>1
      <3> QED
        BY <3>1, <3>2 DEF own
    <2>2. p + 4 \in Nat /\ data \in Seq(Nat) /\ Holds(data, p + 4, c.words)
      BY <1>2, <1>7
    <2> QED
      BY <1>1, <2>1, <2>2, Stretch
  <1>13. SubSeq(data, (p + 3) + 2, (p + 3) + 1 + Words(c.bytes)) = c.words
    <2>1. (p + 3) + 2 = (p + 4) + 1 /\ (p + 3) + 1 + Words(c.bytes) = (p + 4) + Len(c.words)
      BY <1>1, <1>9
    <2> QED
      BY <1>12, <2>1
  <1>14. DecodedCall(data, i) = [target |-> c.target, allow |-> flag = 1, bytes |-> c.bytes,
                                 words |-> c.words]
    BY <1>8, <1>10, <1>11, <1>13 DEF DecodedCall
  <1> QED
    BY <1>1, <1>4, <1>14

(* Up to the number of calls that the byte for their count holds, however  *)
(* long their data: where the offsets that EncodeAggregate3 computes       *)
(* point, the contract finds the call that was written there               *)
(* (multicall.go:64, multicall.go:80).                                     *)
THEOREM CallsReadBack ==
    ASSUME NEW calls \in Seq(CallSet), Len(calls) <= MaxCalls
    PROVE  /\ encodeAggregate3(calls).outcome = "ok"
           /\ DecodedCalls(encodeAggregate3(calls).words) = calls
  <1> DEFINE E == [i \in DOMAIN calls |-> encodeTuple(calls[i])]
             data == Layout(calls)
  <1>0. ~(Len(calls) > MaxCalls) /\ encodeAggregate3(calls) = [outcome |-> "ok", words |-> data]
    <2>1. Len(calls) \in Nat
      OBVIOUS
    <2>2. ~(Len(calls) > MaxCalls)
      BY <2>1, MulticallAssumption
    <2> QED
      BY <2>2 DEF encodeAggregate3
  <1>1. PICK n \in Nat : n = Len(calls) /\ DOMAIN calls = 1..n
    OBVIOUS
  <1>2. \A i \in 1..n : calls[i] \in CallSet
    BY <1>1
  <1>3. /\ E \in Seq(Seq(Nat)) /\ Len(E) = n
        /\ \A i \in 1..n : E[i] = encodeTuple(calls[i])
    <2>1. \A i \in 1..n : encodeTuple(calls[i]) \in Seq(Nat)
      BY <1>2, TupleIsWords
    <2> QED
      BY <1>1, <2>1
  <1>4. data = <<32>> \o Array(E)
    BY DEF Layout
  <1> HIDE DEF E, data
  <1>5. PICK start : LaidOut(data, E, start)
    BY <1>3, <1>4, ArrayLaidOut
  <1>6. data[2] = n
    BY <1>3, <1>5 DEF LaidOut
  <1>7. DecodedCalls(data) = [i \in 1..n |-> DecodedCall(data, i)]
    BY <1>6 DEF DecodedCalls, DecodedCall
  <1>8. ASSUME NEW i \in 1..n PROVE DecodedCall(data, i) = calls[i]
    <2>1. i \in 1..Len(E) /\ calls[i] \in CallSet /\ E[i] = encodeTuple(calls[i])
      BY <1>2, <1>3
    <2> QED
      BY <1>3, <1>5, <2>1, CallRead
  <1>9. calls = [i \in 1..n |-> calls[i]]
    BY <1>1
  <1> QED
    BY <1>0, <1>7, <1>8, <1>9

ResultSet == {r \in [success : BOOLEAN, bytes : Nat, words : Seq(Nat)] :
                Len(r.words) = Words(r.bytes)}

encodeResult(r) == <<IF r.success THEN 1 ELSE 0, 64, r.bytes>> \o r.words

LEMMA ResultIsWords ==
    ASSUME NEW r \in ResultSet
    PROVE  encodeResult(r) \in Seq(Nat)
  <1>1. r.bytes \in Nat /\ r.words \in Seq(Nat)
    BY DEF ResultSet
  <1>2. <<IF r.success THEN 1 ELSE 0, 64, r.bytes>> \in Seq(Nat)
    BY <1>1
  <1> QED
    BY <1>1, <1>2 DEF encodeResult

LEMMA ResultRead ==
    ASSUME NEW E \in Seq(Seq(Nat)), NEW data, NEW start, LaidOut(data, E, start),
           NEW i \in 1..Len(E), NEW r \in ResultSet, E[i] = encodeResult(r)
    PROVE  InBounds(data, i) /\ Result(data, i) = r
  <1>1. /\ r.success \in BOOLEAN /\ r.bytes \in Nat
        /\ r.words \in Seq(Nat) /\ Len(r.words) = Words(r.bytes)
        /\ r = [success |-> r.success, bytes |-> r.bytes, words |-> r.words]
    BY DEF ResultSet
  <1>2. /\ data \in Seq(Nat) /\ start[i] \in Nat
        /\ 2 + start[i] + Len(E[i]) <= Len(data)
        /\ Holds(data, 2 + start[i], E[i])
    BY DEF LaidOut
  <1>3. PICK p \in Nat : p = 2 + start[i]
    BY <1>2
  <1>4. PICK own \in Nat : own = Len(r.words) /\ own = Words(r.bytes) /\ 32 * own >= r.bytes
    BY <1>1, WordsHoldBytes
  <1>5. PICK size \in Nat : size = Len(data)
    BY <1>2
  <1> DEFINE flag == IF r.success THEN 1 ELSE 0
             h == <<flag, 64, r.bytes>>
  <1>6. flag \in Nat /\ (flag = 1) = r.success
    BY <1>1
  <1> HIDE DEF flag
  <1>7. /\ h \in Seq(Nat) /\ Len(h) = 3
        /\ h[1] = flag /\ h[2] = 64 /\ h[3] = r.bytes
    BY <1>1, <1>6
  <1>8. E[i] = h \o r.words
    BY DEF encodeResult, flag
  <1> HIDE DEF h
  <1>9. /\ Len(E[i]) = 3 + own
        /\ \A k \in 1..3 : E[i][k] = h[k]
        /\ Holds(data, p + 3, r.words)
    <2>1. Holds(data, p, h \o r.words)
      BY <1>2, <1>3, <1>8
    <2>2. /\ Len(h \o r.words) = Len(h) + Len(r.words)
          /\ \A k \in 1..Len(h) : (h \o r.words)[k] = h[k]
          /\ Holds(data, p + Len(h), r.words)
      BY <1>1, <1>7, <2>1, ElementParts
    <2> QED
      BY <1>4, <1>7, <1>8, <2>2
  <1>10. p + (3 + own) <= size
    BY <1>2, <1>3, <1>5, <1>9
  <1>11. tupleStart(data, i) = 32 * p /\ ReadAt(data, 32 * p, E[i])
    <2>1. /\ 64 + At(data, 64 + 32 * (i - 1)) = 32 * (2 + start[i])
          /\ ReadAt(data, 32 * (2 + start[i]), E[i])
      BY Reads
    <2> QED
      BY <1>3, <2>1 DEF tupleStart
  <1>12. /\ At(data, 32 * p) = flag /\ At(data, 32 * p + 32) = 64
         /\ At(data, 32 * p + 64) = r.bytes
    <2>1. ASSUME NEW j \in 0..2 PROVE At(data, 32 * p + 32 * j) = h[j + 1]
      <3>1. j \in Nat /\ j + 1 \in 1..3 /\ j < 3 + own
        OBVIOUS
      <3>2. At(data, 32 * p + 32 * j) = E[i][j + 1]
        BY <1>9, <1>11, <3>1 DEF ReadAt
      <3> QED
        BY <1>9, <3>1, <3>2
    <2>2. At(data, 32 * p + 32 * 0) = h[1]
      BY <2>1
    <2>3. At(data, 32 * p + 32 * 1) = h[2]
      BY <2>1
    <2>4. At(data, 32 * p + 32 * 2) = h[3]
      BY <2>1
    <2>5. 32 * p + 32 * 0 = 32 * p
      OBVIOUS
    <2> QED
      BY <1>7, <2>2, <2>3, <2>4, <2>5
  <1>13. InBounds(data, i)
    <2>1. 32 * p + 64 <= 32 * size
      BY <1>10
    <2>2. (32 * p + 64) + 32 <= 32 * size
      BY <1>10
    <2>3. (32 * p + 64) + 32 + r.bytes <= 32 * size
      BY <1>1, <1>4, <1>10
    <2> QED
      BY <1>5, <1>11, <1>12, <2>1, <2>2, <2>3 DEF InBounds, Size
  <1>14. ((32 * p + 64) + 32) \div 32 = p + 3
    OBVIOUS
  <1>15. SubSeq(data, (p + 3) + 1, (p + 3) + own) = r.words
    <2>1. (p + 3) + own <= size /\ p + 3 \in Nat
      BY <1>10
    <2>2. (p + 3) + Len(r.words) <= Len(data)
      BY <1>4, <1>5, <2>1
    <2>3. SubSeq(data, (p + 3) + 1, (p + 3) + Len(r.words)) = r.words
      BY <1>1, <1>2, <1>9, <2>1, <2>2, Stretch
    <2> QED
      BY <1>4, <2>3
  <1>16. Result(data, i) = [success |-> flag = 1, bytes |-> r.bytes, words |-> r.words]
    BY <1>4, <1>11, <1>12, <1>14, <1>15 DEF Result
  <1> QED
    BY <1>1, <1>6, <1>13, <1>16

(* DecodeAggregate3Results accepts every answer that aggregate3 writes,    *)
(* and returns each call's own success and data, whatever the lengths of   *)
(* the results before it (multicall.go:134).                               *)
THEOREM ResultsReadBack ==
    ASSUME NEW results \in Seq(ResultSet)
    PROVE  decodeAggregate3Results(EncodedResults(results)) =
             [outcome |-> "ok", results |-> results]
  <1> DEFINE E == [i \in DOMAIN results |->
                     <<IF results[i].success THEN 1 ELSE 0, 64, results[i].bytes>>
                     \o results[i].words]
             data == EncodedResults(results)
  <1>1. PICK n \in Nat : n = Len(results) /\ DOMAIN results = 1..n
    OBVIOUS
  <1>2. \A i \in 1..n : results[i] \in ResultSet
    BY <1>1
  <1>3. /\ E \in Seq(Seq(Nat)) /\ Len(E) = n
        /\ \A i \in 1..n : E[i] = encodeResult(results[i])
    <2>1. \A i \in 1..n : encodeResult(results[i]) \in Seq(Nat)
      BY <1>2, ResultIsWords
    <2>2. E = [i \in 1..n |-> encodeResult(results[i])]
      BY <1>1 DEF encodeResult
    <2> HIDE DEF E
    <2> QED
      BY <1>1, <2>1, <2>2
  <1>4. data = <<32>> \o Array(E)
    BY DEF EncodedResults
  <1> HIDE DEF E, data
  <1>5. PICK start : LaidOut(data, E, start)
    BY <1>3, <1>4, ArrayLaidOut
  <1>6. arrayLen(data) = n /\ Len(data) \in Nat /\ Len(data) >= 2 + n
    BY <1>3, <1>5 DEF LaidOut, arrayLen
  <1>7. ASSUME NEW i \in 1..n PROVE InBounds(data, i) /\ Result(data, i) = results[i]
    <2>1. i \in 1..Len(E) /\ results[i] \in ResultSet /\ E[i] = encodeResult(results[i])
      BY <1>2, <1>3
    <2> QED
      BY <1>3, <1>5, <2>1, ResultRead
  <1>8. decodeAggregate3Results(data) =
          [outcome |-> "ok", results |-> [i \in 1..n |-> Result(data, i)]]
    <2>1. ~(Len(data) < 2) /\ ~(Len(data) < 2 + n)
      BY <1>6
    <2>2. ~\E i \in 1..n : ~InBounds(data, i)
      BY <1>7
    <2> QED
      BY <1>6, <2>1, <2>2 DEF decodeAggregate3Results
  <1>9. results = [i \in 1..n |-> results[i]]
    BY <1>1
  <1>10. [i \in 1..n |-> Result(data, i)] = [i \in 1..n |-> results[i]]
    BY <1>7
  <1> QED
    BY <1>8, <1>9, <1>10 DEF data

-----------------------------------------------------------------------------
(* What the records hold                                                   *)

(* The monitor panics only on a list that its encoder cannot count.        *)
Counted ==
    /\ watchList \in Seq(Account)
    /\ panicked \in BOOLEAN /\ (panicked => Len(watchList) > MaxCalls)

LEMMA InitCounted == Init => Counted
  <1> SUFFICES ASSUME Init PROVE Counted
    OBVIOUS
  <1>1. watchList = << >> /\ panicked = FALSE
    BY DEF Init
  <1>2. watchList \in Seq(Account)
    BY <1>1
  <1>3. panicked \in BOOLEAN /\ ~panicked
    BY <1>1, Zenon
  <1> QED
    BY <1>2, <1>3 DEF Counted

LEMMA CountedStep == Counted /\ [Next]_vars => Counted'
  <1> SUFFICES ASSUME Counted, [Next]_vars PROVE Counted'
    OBVIOUS
  <1>1. ASSUME UNCHANGED <<watchList, panicked>> PROVE Counted'
    BY <1>1 DEF Counted
  <1>2. ASSUME NEW a \in Account, AddWatch(a) PROVE Counted'
    <2>1. watchList' = Append(watchList, a) /\ UNCHANGED panicked
      BY <1>2 DEF AddWatch
    <2>2. watchList' \in Seq(Account) /\ Len(watchList') = Len(watchList) + 1
      BY <2>1 DEF Counted
    <2>3. Len(watchList) \in Nat
      BY DEF Counted
    <2> QED
      BY <2>1, <2>2, <2>3, MulticallAssumption DEF Counted
  <1>3. ASSUME NEW u \in Updater, UpdateStarts(u) PROVE Counted'
    <2>1. UNCHANGED watchList
      BY <1>3 DEF UpdateStarts
    <2>2. CASE encodeAggregate3(Calls(watchList)).outcome = "panic"
      <3>1. panicked' = TRUE
        BY <1>3, <2>2 DEF UpdateStarts
      <3>2. Len(Calls(watchList)) > MaxCalls
        BY <2>2 DEF encodeAggregate3
      <3>3. Len(Calls(watchList)) = Len(watchList)
        BY DEF Calls, Counted
      <3> QED
        BY <2>1, <3>1, <3>2, <3>3 DEF Counted
    <2>3. CASE encodeAggregate3(Calls(watchList)).outcome # "panic"
      <3>1. UNCHANGED panicked
        BY <1>3, <2>3 DEF UpdateStarts
      <3> QED
        BY <1>1, <2>1, <3>1
    <2> QED
      BY <2>2, <2>3
  <1>4. ASSUME NEW u \in Updater, CallSucceeds(u) \/ CallFails(u) \/ Apply(u) PROVE Counted'
    BY <1>1, <1>4 DEF CallSucceeds, CallFails, Apply
  <1>5. CASE NewBlock \/ GetLiquidatable \/ Evaluate \/ Dead
    BY <1>1, <1>5 DEF NewBlock, GetLiquidatable, Evaluate, Dead, vars
  <1>6. CASE UNCHANGED vars
    BY <1>1, <1>6 DEF vars
  <1> QED
    BY <1>2, <1>3, <1>4, <1>5, <1>6 DEF Next, Update

(* The answers to the calls for these accounts.                            *)
AnswersOf(b, addrs, reverts) ==
    [i \in DOMAIN addrs |-> Answer(b, reverts, Calls(addrs)[i])]

Chain == history \in Seq([Account -> Position]) /\ block \in 1..MaxBlock

LEMMA PositionParts ==
    ASSUME NEW p \in Position
    PROVE  /\ p.collateral \in Nat /\ p.debt \in Nat /\ p.hf \in Nat
           /\ p = [collateral |-> p.collateral, debt |-> p.debt, hf |-> p.hf]
  BY LiquidationAssumption

LEMMA HeldIn ==
    ASSUME Chain, NEW b \in 1..block, NEW a \in Account
    PROVE  history[b][a] \in Position
  BY DEF Chain, block

LEMMA CallsAreCalls ==
    ASSUME NEW addrs \in Seq(Account)
    PROVE  /\ Calls(addrs) \in Seq(CallSet) /\ DOMAIN Calls(addrs) = DOMAIN addrs
           /\ \A i \in DOMAIN addrs : Calls(addrs)[i].target = LendingPool
                                      /\ Calls(addrs)[i].words[1] = addrs[i]
  <1>1. PICK n \in Nat : n = Len(addrs) /\ DOMAIN addrs = 1..n
    OBVIOUS
  <1>2. Words(36) = 2
    BY DEF Words
  <1>3. ASSUME NEW i \in 1..n
        PROVE  [target |-> LendingPool, allow |-> TRUE, bytes |-> 36, words |-> <<addrs[i], 0>>]
                  \in CallSet
    <2>1. addrs[i] \in Nat /\ LendingPool \in Nat
      <3>1. addrs[i] \in Account
        BY <1>1
      <3> QED
        BY <3>1, LiquidationAssumption
    <2>2. <<addrs[i], 0>> \in Seq(Nat) /\ Len(<<addrs[i], 0>>) = 2
      BY <2>1
    <2> QED
      BY <1>2, <2>1, <2>2 DEF CallSet
  <1>4. Calls(addrs) \in [1..n -> CallSet]
    BY <1>1, <1>3 DEF Calls
  <1> QED
    BY <1>1, <1>4 DEF Calls

LEMMA AnswerIsResult ==
    ASSUME Chain, NEW b \in 1..block, NEW reverts, NEW call,
           call.target = LendingPool, call.words[1] \in Account
    PROVE  Answer(b, reverts, call) \in ResultSet
  <1>1. Words(0) = 0 /\ Words(192) = 6
    BY DEF Words
  <1>2. CASE call.words[1] \in reverts
    <2>1. Answer(b, reverts, call) = [success |-> FALSE, bytes |-> 0, words |-> << >>]
      BY <1>2 DEF Answer
    <2>2. << >> \in Seq(Nat) /\ Len(<< >>) = 0
      OBVIOUS
    <2> QED
      BY <1>1, <2>1, <2>2 DEF ResultSet
  <1>3. CASE call.words[1] \notin reverts
    <2> DEFINE p == history[b][call.words[1]]
               w == <<p.collateral, p.debt, 0, 0, 0, p.hf>>
    <2>1. Answer(b, reverts, call) = [success |-> TRUE, bytes |-> 192, words |-> w]
      BY <1>3 DEF Answer
    <2>2. p.collateral \in Nat /\ p.debt \in Nat /\ p.hf \in Nat
      BY HeldIn, PositionParts
    <2>3. w \in Seq(Nat) /\ Len(w) = 6
      BY <2>2
    <2> HIDE DEF w
    <2> DEFINE r == [success |-> TRUE, bytes |-> 192, words |-> w]
    <2>4. /\ r \in [success : BOOLEAN, bytes : Nat, words : Seq(Nat)]
          /\ r.words = w /\ r.bytes = 192
      BY <2>3
    <2> HIDE DEF r
    <2>5. r \in ResultSet
      BY <1>1, <2>3, <2>4 DEF ResultSet
    <2> QED
      BY <2>1, <2>5 DEF r
  <1> QED
    BY <1>2, <1>3

(* Encoded, found by the contract, answered, encoded and decoded: the      *)
(* monitor reads the lending pool's own answers, in the order of the calls.*)
LEMMA RoundTrip ==
    ASSUME Chain, NEW b \in 1..block, NEW addrs \in Seq(Account), NEW reverts,
           Len(addrs) <= MaxCalls
    PROVE  LET calls == DecodedCalls(encodeAggregate3(Calls(addrs)).words)
               answers == [i \in DOMAIN calls |-> Answer(b, reverts, calls[i])]
           IN  decodeAggregate3Results(EncodedResults(answers)) =
                 [outcome |-> "ok", results |-> AnswersOf(b, addrs, reverts)]
  <1>1. PICK n \in Nat : n = Len(addrs) /\ DOMAIN addrs = 1..n
    OBVIOUS
  <1> DEFINE answers == AnswersOf(b, addrs, reverts)
  <1>2. DecodedCalls(encodeAggregate3(Calls(addrs)).words) = Calls(addrs)
    <2>1. Calls(addrs) \in Seq(CallSet)
      BY CallsAreCalls
    <2>2. Len(Calls(addrs)) = Len(addrs)
      BY <1>1 DEF Calls
    <2> QED
      BY <2>1, <2>2, CallsReadBack
  <1>3. answers \in Seq(ResultSet)
    <2>1. ASSUME NEW i \in 1..n PROVE Answer(b, reverts, Calls(addrs)[i]) \in ResultSet
      <3>1. addrs[i] \in Account
        BY <1>1
      <3>2. Calls(addrs)[i].target = LendingPool /\ Calls(addrs)[i].words[1] = addrs[i]
        BY <1>1, CallsAreCalls
      <3> QED
        BY <3>1, <3>2, AnswerIsResult
    <2>2. answers = [i \in 1..n |-> Answer(b, reverts, Calls(addrs)[i])]
      BY <1>1 DEF AnswersOf
    <2> HIDE DEF answers
    <2> QED
      BY <1>1, <2>1, <2>2
  <1>4. decodeAggregate3Results(EncodedResults(answers)) =
          [outcome |-> "ok", results |-> answers]
    <2> HIDE DEF answers
    <2> QED
      BY <1>3, ResultsReadBack
  <1>5. answers = [i \in DOMAIN Calls(addrs) |-> Answer(b, reverts, Calls(addrs)[i])]
    BY CallsAreCalls DEF AnswersOf
  <1> HIDE DEF answers
  <1> QED
    BY <1>2, <1>4, <1>5 DEF answers

(* What a usable result holds.                                             *)
LEMMA UsableHolds ==
    ASSUME Chain, NEW b \in 1..block, NEW addrs \in Seq(Account), NEW reverts,
           NEW i \in DOMAIN addrs,
           AnswersOf(b, addrs, reverts)[i].success
    PROVE  LET p == history[b][addrs[i]]
           IN  AnswersOf(b, addrs, reverts)[i].words =
                 <<p.collateral, p.debt, 0, 0, 0, p.hf>>
  <1>1. /\ Calls(addrs)[i].target = LendingPool
        /\ Calls(addrs)[i].words[1] = addrs[i]
    BY CallsAreCalls
  <1>2. AnswersOf(b, addrs, reverts)[i] = Answer(b, reverts, Calls(addrs)[i])
    BY DEF AnswersOf
  <1>3. addrs[i] \notin reverts
    <2> SUFFICES ASSUME addrs[i] \in reverts PROVE FALSE
      OBVIOUS
    <2>1. Answer(b, reverts, Calls(addrs)[i]) = [success |-> FALSE, bytes |-> 0, words |-> << >>]
      BY <1>1 DEF Answer
    <2> QED
      BY <1>2, <2>1
  <1> QED
    BY <1>1, <1>2, <1>3 DEF Answer

-----------------------------------------------------------------------------
Fields == {"addrs", "block", "results"}

(* An answer is that of the lending pool in the flight's block.            *)
AnswerHolds(f) ==
    /\ f.block \in 1..block
    /\ \E reverts \in SUBSET Account :
          f.results = [outcome |-> "ok", results |-> AnswersOf(f.block, f.addrs, reverts)]

(* What a flight has asked for, and what it was answered.                  *)
FlightHolds(f) ==
    /\ f = [k \in Fields |-> f[k]]
    /\ f.addrs \in Seq(Account) /\ ToSet(f.addrs) \subseteq ToSet(watchList)
    /\ Len(f.addrs) <= MaxCalls
    /\ f.block \in 1..block \cup {Latest}
    /\ f.results # None => AnswerHolds(f)

(* Records are of watched accounts and of blocks that exist.               *)
Watched ==
    /\ watchList \in Seq(Account) /\ Known \subseteq ToSet(watchList)
    /\ seen \in [Known -> 1..block]
    /\ DOMAIN flight = Updater
    /\ \A u \in Updater : flight[u] # None => FlightHolds(flight[u])

(* An unhealthy account is copied as it was in one block.                  *)
HeldUnhealthy(a, p) ==
    a \in Account /\ \E b \in 1..block : p = history[b][a] /\ p.hf < One

Copied ==
    unhealthy # None => \A a \in DOMAIN unhealthy : HeldUnhealthy(a, unhealthy[a])

GInv == Chain /\ Watched /\ RecordsGenuine /\ Copied /\ OpportunityOfOneBlock

(* No step takes back a block.                                             *)
Grown ==
    /\ block' \in 1..MaxBlock /\ block <= block'
    /\ \A b \in 1..block : history'[b] = history[b]

LEMMA FlightStays ==
    ASSUME NEW f, Grown, Chain, FlightHolds(f), ToSet(watchList) \subseteq ToSet(watchList)'
    PROVE  FlightHolds(f)'
  <1>1. 1..block \subseteq 1..block'
    BY DEF Grown, Chain
  <1>2. ASSUME AnswerHolds(f) PROVE AnswerHolds(f)'
    <2>1. f.block \in 1..block' /\ history'[f.block] = history[f.block]
      BY <1>1, <1>2 DEF Grown, AnswerHolds
    <2>2. PICK reverts \in SUBSET Account :
            f.results = [outcome |-> "ok", results |-> AnswersOf(f.block, f.addrs, reverts)]
      BY <1>2 DEF AnswerHolds
    <2>3. AnswersOf(f.block, f.addrs, reverts)' = AnswersOf(f.block, f.addrs, reverts)
      BY <2>1 DEF AnswersOf, Answer
    <2> QED
      BY <2>1, <2>2, <2>3 DEF AnswerHolds
  <1>3. ToSet(f.addrs) \subseteq ToSet(watchList)'
    BY DEF FlightHolds
  <1> QED
    BY <1>1, <1>2, <1>3 DEF FlightHolds

LEMMA UnhealthyStays ==
    ASSUME NEW a, NEW p, Grown, Chain, HeldUnhealthy(a, p)
    PROVE  HeldUnhealthy(a, p)'
  <1>1. PICK b \in 1..block : a \in Account /\ p = history[b][a] /\ p.hf < One
    BY DEF HeldUnhealthy
  <1>2. b \in 1..block' /\ history'[b] = history[b]
    BY DEF Grown, Chain
  <1> QED
    BY <1>1, <1>2 DEF HeldUnhealthy

(* What holds of records, copies and opportunities holds in a longer chain.*)
LEMMA OthersStay ==
    ASSUME Grown, GInv
    PROVE  /\ UNCHANGED <<accounts, seen>> => RecordsGenuine'
           /\ UNCHANGED unhealthy => Copied'
           /\ UNCHANGED opps => OpportunityOfOneBlock'
  <1>1. \A b \in 1..block : b \in 1..block' /\ history'[b] = history[b]
    BY DEF Grown, GInv, Chain
  <1>2. ASSUME UNCHANGED <<accounts, seen>> PROVE RecordsGenuine'
    BY <1>1, <1>2 DEF GInv, RecordsGenuine, Known, Watched
  <1>3. ASSUME UNCHANGED unhealthy PROVE Copied'
    <2> SUFFICES ASSUME unhealthy # None, NEW a \in DOMAIN unhealthy
                 PROVE  HeldUnhealthy(a, unhealthy[a])'
      BY <1>3 DEF Copied
    <2>1. PICK p : p = unhealthy[a]
      OBVIOUS
    <2>2. HeldUnhealthy(a, p)
      BY <2>1 DEF GInv, Copied
    <2>3. HeldUnhealthy(a, p)'
      BY <2>2, UnhealthyStays DEF GInv
    <2>4. p = unhealthy'[a]
      BY <1>3, <2>1
    <2> QED
      BY <2>3, <2>4 DEF HeldUnhealthy
  <1>4. ASSUME UNCHANGED opps PROVE OpportunityOfOneBlock'
    BY <1>1, <1>4 DEF GInv, OpportunityOfOneBlock
  <1> QED
    BY <1>2, <1>3, <1>4

LEMMA SameChainGrown ==
    ASSUME Chain, UNCHANGED history
    PROVE  Grown /\ Chain'
  BY DEF Chain, Grown, block

LEMMA InitGenuine == Init => GInv
  <1> SUFFICES ASSUME Init PROVE GInv
    OBVIOUS
  <1>1. PICK p \in Position : history = <<[a \in Account |-> p]>>
    BY DEF Init
  <1>2. Chain
    <2>1. [a \in Account |-> p] \in [Account -> Position] /\ 1 \in 1..MaxBlock
      BY LiquidationAssumption
    <2> QED
      BY <1>1, <2>1 DEF Chain, block
  <1>3. Watched
    BY DEF Init, Watched, Known
  <1>4. RecordsGenuine /\ Copied /\ OpportunityOfOneBlock
    BY DEF Init, RecordsGenuine, Copied, OpportunityOfOneBlock, Known
  <1> QED
    BY <1>2, <1>3, <1>4 DEF GInv

LEMMA SameWatched ==
    ASSUME Grown, Chain, Watched, UNCHANGED <<watchList, flight, accounts, seen>>
    PROVE  Watched'
  <1>1. ASSUME NEW u \in Updater, flight'[u] # None PROVE FlightHolds(flight[u])'
    <2>1. PICK f : f = flight[u]
      OBVIOUS
    <2>2. FlightHolds(f)
      BY <1>1, <2>1 DEF Watched
    <2>3. FlightHolds(f)'
      BY <2>2, FlightStays
    <2>4. f = flight'[u]
      BY <2>1
    <2> QED
      BY <2>3, <2>4 DEF FlightHolds
  <1>2. seen' \in [Known' -> 1..block']
    BY DEF Watched, Known, Grown, Chain
  <1> QED
    BY <1>1, <1>2 DEF Watched, Known

LEMMA NewBlockGenuine ==
    ASSUME GInv, NewBlock
    PROVE  GInv'
  <1>1. PICK a \in Account, p \in Position :
          history' = Append(history, [history[block] EXCEPT ![a] = p])
    BY DEF NewBlock
  <1>2. /\ block < MaxBlock /\ history \in Seq([Account -> Position])
        /\ block \in 1..MaxBlock /\ block = Len(history)
        /\ UNCHANGED <<watchList, flight, accounts, seen, unhealthy, opps>>
    BY DEF NewBlock, GInv, Chain, block
  <1> DEFINE h == [history[block] EXCEPT ![a] = p]
  <1>3. h \in [Account -> Position]
    <2>1. history[block] \in [Account -> Position]
      BY <1>2
    <2> QED
      BY <2>1
  <1> HIDE DEF h
  <1>4. /\ history' \in Seq([Account -> Position]) /\ Len(history') = Len(history) + 1
        /\ \A b \in 1..Len(history) : history'[b] = history[b]
    BY <1>1, <1>2, <1>3 DEF h
  <1>5. Chain' /\ Grown
    <2>1. block' = block + 1
      BY <1>2, <1>4 DEF block
    <2>2. block' \in 1..MaxBlock /\ block <= block'
      BY <1>2, <2>1, LiquidationAssumption
    <2>3. \A b \in 1..block : history'[b] = history[b]
      BY <1>2, <1>4
    <2> QED
      BY <1>4, <2>2, <2>3 DEF Chain, Grown
  <1> QED
    BY <1>2, <1>5, SameWatched, OthersStay DEF GInv

LEMMA AddWatchGenuine ==
    ASSUME GInv, NEW a \in Account, AddWatch(a)
    PROVE  GInv'
  <1>1. /\ watchList' = Append(watchList, a) /\ watchList \in Seq(Account)
        /\ UNCHANGED <<history, flight, accounts, seen, unhealthy, opps>>
    BY DEF AddWatch, GInv, Watched
  <1>2. Grown /\ Chain'
    BY <1>1, SameChainGrown DEF GInv
  <1>3. ToSet(watchList) \subseteq ToSet(watchList') /\ watchList' \in Seq(Account)
    <2>1. PICK n \in Nat : n = Len(watchList)
      BY <1>1
    <2>2. ASSUME NEW i \in 1..n PROVE watchList[i] \in ToSet(watchList')
      <3>1. watchList'[i] = watchList[i] /\ i \in 1..Len(watchList')
        BY <1>1, <2>1
      <3>2. i \in DOMAIN watchList'
        BY <1>1, <3>1
      <3> QED
        BY <3>1, <3>2 DEF ToSet
    <2> QED
      BY <1>1, <2>1, <2>2 DEF ToSet
  <1>4. ASSUME NEW u \in Updater, flight'[u] # None PROVE FlightHolds(flight[u])'
    <2>1. PICK f : f = flight[u]
      OBVIOUS
    <2>2. FlightHolds(f)
      BY <1>1, <1>4, <2>1 DEF GInv, Watched
    <2>3. ToSet(watchList) \subseteq ToSet(watchList)'
      BY <1>3
    <2>4. FlightHolds(f)'
      BY <1>2, <2>2, <2>3, FlightStays DEF GInv
    <2>5. f = flight'[u]
      BY <1>1, <2>1
    <2> QED
      BY <2>4, <2>5 DEF FlightHolds
  <1>5. Known' \subseteq ToSet(watchList)'
    BY <1>1, <1>3 DEF GInv, Watched, Known
  <1>6. Watched'
    <2>1. UNCHANGED <<flight, seen, Known, block>>
      BY <1>1 DEF Known, block
    <2> QED
      BY <1>3, <1>4, <1>5, <2>1 DEF Watched, GInv
  <1> QED
    BY <1>1, <1>2, <1>6, OthersStay DEF GInv

(* One flight changes, and the others stay as they are.                    *)
LEMMA FlightsChange ==
    ASSUME GInv, UNCHANGED <<history, watchList, accounts, seen, unhealthy, opps>>,
           NEW u \in Updater, DOMAIN flight' = Updater,
           flight'[u] # None => FlightHolds(flight'[u]),
           \A v \in Updater \ {u} : flight'[v] = flight[v]
    PROVE  GInv'
  <1>1. Grown /\ Chain'
    BY SameChainGrown DEF GInv
  <1>2. ASSUME NEW v \in Updater, flight'[v] # None PROVE FlightHolds(flight[v])'
    <2>1. PICK f : f = flight'[v]
      OBVIOUS
    <2>2. FlightHolds(f)
      BY <1>2, <2>1 DEF GInv, Watched
    <2>3. FlightHolds(f)'
      BY <1>1, <2>2, FlightStays DEF GInv
    <2> QED
      BY <2>1, <2>3 DEF FlightHolds
  <1>3. Watched'
    <2>1. UNCHANGED <<block, Known>>
      BY DEF block, Known
    <2> QED
      BY <1>2, <2>1 DEF GInv, Watched
  <1> QED
    BY <1>1, <1>3, OthersStay DEF GInv

LEMMA StartGenuine ==
    ASSUME GInv, NEW u \in Updater, UpdateStarts(u)
    PROVE  GInv'
  <1>1. /\ UNCHANGED <<history, watchList, accounts, seen, unhealthy, opps>>
        /\ DOMAIN flight = Updater /\ flight[u] = None
        /\ watchList \in Seq(Account)
    BY DEF UpdateStarts, GInv, Watched
  <1>2. CASE encodeAggregate3(Calls(watchList)).outcome = "panic"
    <2>1. UNCHANGED flight
      BY <1>2 DEF UpdateStarts
    <2> QED
      BY <1>1, <2>1, FlightsChange
  <1>3. CASE encodeAggregate3(Calls(watchList)).outcome # "panic"
    <2>1. PICK n \in 1..block \cup {Latest} :
            flight' = [flight EXCEPT ![u] = [addrs |-> watchList, block |-> n, results |-> None]]
      BY <1>3 DEF UpdateStarts
    <2> DEFINE new == [addrs |-> watchList, block |-> n, results |-> None]
    <2>2. Len(watchList) <= MaxCalls
      <3>1. ~(Len(Calls(watchList)) > MaxCalls)
        BY <1>3 DEF encodeAggregate3, NoRoom
      <3>2. Len(Calls(watchList)) = Len(watchList) /\ Len(watchList) \in Nat
        BY <1>1 DEF Calls
      <3> QED
        BY <3>1, <3>2, MulticallAssumption
    <2>3. new = [k \in Fields |-> new[k]]
      BY DEF Fields
    <2>4. FlightHolds(new)
      BY <1>1, <2>2, <2>3 DEF FlightHolds
    <2> HIDE DEF new
    <2>5. flight'[u] = new /\ DOMAIN flight' = Updater
          /\ \A v \in Updater \ {u} : flight'[v] = flight[v]
      BY <1>1, <2>1 DEF new
    <2> QED
      BY <1>1, <2>4, <2>5, FlightsChange
  <1> QED
    BY <1>2, <1>3

LEMMA FailGenuine ==
    ASSUME GInv, NEW u \in Updater, CallFails(u)
    PROVE  GInv'
  <1>1. /\ flight' = [flight EXCEPT ![u] = None]
        /\ UNCHANGED <<history, watchList, accounts, seen, unhealthy, opps>>
        /\ DOMAIN flight = Updater
    BY DEF CallFails, GInv, Watched
  <1>2. /\ flight'[u] = None /\ DOMAIN flight' = Updater
        /\ \A v \in Updater \ {u} : flight'[v] = flight[v]
    BY <1>1
  <1> QED
    BY <1>1, <1>2, FlightsChange

LEMMA AnswerGenuine ==
    ASSUME GInv, NEW u \in Updater, CallSucceeds(u)
    PROVE  GInv'
  <1>1. /\ flight[u] # None /\ DOMAIN flight = Updater
        /\ UNCHANGED <<history, watchList, accounts, seen, unhealthy, opps>>
        /\ FlightHolds(flight[u])
    BY DEF CallSucceeds, Waiting, GInv, Watched
  <1>2. PICK f : f = flight[u]
    OBVIOUS
  <1>3. PICK n : n = Answered(u)
    OBVIOUS
  <1>4. n \in 1..block
    <2>1. block \in Nat \ {0} /\ f.block \in 1..block \cup {Latest}
      BY <1>1, <1>2, LiquidationAssumption DEF GInv, Chain, FlightHolds
    <2> QED
      BY <1>2, <1>3, <2>1 DEF Answered
  <1> DEFINE calls == DecodedCalls(encodeAggregate3(Calls(flight[u].addrs)).words)
             decoded(reverts) ==
               decodeAggregate3Results(EncodedResults(
                 [i \in DOMAIN calls |-> Answer(Answered(u), reverts, calls[i])]))
  <1>5. PICK reverts \in SUBSET ToSet(flight[u].addrs) :
          flight' = [flight EXCEPT ![u] =
                       IF decoded(reverts).outcome = "error" THEN None
                       ELSE [@ EXCEPT !.results = decoded(reverts), !.block = Answered(u)]]
    BY DEF CallSucceeds
  <1> DEFINE r == [outcome |-> "ok", results |-> AnswersOf(n, f.addrs, reverts)]
             new == [f EXCEPT !.results = r, !.block = n]
  <1>6. decoded(reverts) = r
    BY <1>1, <1>2, <1>3, <1>4, RoundTrip DEF FlightHolds, GInv
  <1> HIDE DEF decoded
  <1>7. r.outcome # "error"
    OBVIOUS
  <1> HIDE DEF r
  <1>8. flight' = [flight EXCEPT ![u] = new]
    BY <1>1, <1>2, <1>3, <1>5, <1>6, <1>7
  <1>9. /\ new.addrs = f.addrs /\ new.block = n /\ new.results = r
        /\ new = [k \in Fields |-> new[k]]
    <2>1. f = [k \in Fields |-> f[k]]
      BY <1>1, <1>2 DEF FlightHolds
    <2> QED
      BY <2>1 DEF Fields
  <1> HIDE DEF new
  <1>10. FlightHolds(new)
    <2>1. FlightHolds(f)
      BY <1>1, <1>2
    <2>2. reverts \in SUBSET Account
      BY <1>2, <2>1 DEF FlightHolds, ToSet
    <2>3. AnswerHolds(new)
      BY <1>4, <1>9, <2>2 DEF AnswerHolds, r
    <2> QED
      BY <1>4, <1>9, <2>1, <2>3 DEF FlightHolds
  <1>11. /\ flight'[u] = new /\ DOMAIN flight' = Updater
         /\ \A v \in Updater \ {u} : flight'[v] = flight[v]
    BY <1>1, <1>8
  <1> QED
    BY <1>1, <1>10, <1>11, FlightsChange

(* A usable result is of its account, in the block asked for.              *)
LEMMA RecordIsOfOneBlock ==
    ASSUME Chain, NEW f, FlightHolds(f), f.results # None,
           NEW a, a \in {f.addrs[i] : i \in Usable(f)}
    PROVE  /\ a \in Account /\ a \in ToSet(f.addrs) /\ f.block \in 1..block
           /\ Record(f, a) = history[f.block][a]
  <1>1. PICK reverts \in SUBSET Account :
          f.results = [outcome |-> "ok", results |-> AnswersOf(f.block, f.addrs, reverts)]
    BY DEF FlightHolds, AnswerHolds
  <1>2. PICK n \in Nat : n = Len(f.addrs) /\ DOMAIN f.addrs = 1..n /\ f.addrs \in Seq(Account)
    BY DEF FlightHolds
  <1>14. f.block \in 1..block
    BY DEF FlightHolds, AnswerHolds
  <1> DEFINE results == AnswersOf(f.block, f.addrs, reverts)
             mine == {j \in Usable(f) : f.addrs[j] = a}
             i == Max(mine)
             p == history[f.block][a]
  <1>3. f.results.results = results /\ DOMAIN results = 1..n
    BY <1>1, <1>2 DEF AnswersOf
  <1>4. Usable(f) = {j \in 1..n : results[j].success /\ results[j].bytes >= 192}
    BY <1>3 DEF Usable
  <1> HIDE DEF results
  <1>5. mine # {} /\ mine \in SUBSET (1..n)
    BY <1>4
  <1>6. i \in mine
    <2> HIDE DEF mine
    <2> QED
      BY <1>5, MaxIsMember
  <1>7. i \in 1..n /\ f.addrs[i] = a /\ results[i].success
    <2> HIDE DEF i
    <2> QED
      BY <1>4, <1>6
  <1>8. Record(f, a) = [collateral |-> results[i].words[1], debt |-> results[i].words[2],
                        hf |-> results[i].words[6]]
    BY <1>3 DEF Record
  <1> HIDE DEF i, mine
  <1>9. a \in Account /\ a \in ToSet(f.addrs)
    BY <1>2, <1>7 DEF ToSet
  <1>10. results[i].words = <<p.collateral, p.debt, 0, 0, 0, p.hf>>
    <2>1. f.block \in 1..block /\ i \in DOMAIN f.addrs
      BY <1>2, <1>7, <1>14
    <2>2. AnswersOf(f.block, f.addrs, reverts)[i].words =
            <<history[f.block][f.addrs[i]].collateral, history[f.block][f.addrs[i]].debt,
              0, 0, 0, history[f.block][f.addrs[i]].hf>>
      <3>1. AnswersOf(f.block, f.addrs, reverts)[i].success
        BY <1>7 DEF results
      <3> QED
        BY <1>2, <2>1, <3>1, UsableHolds
    <2> QED
      BY <1>7, <2>2 DEF results
  <1>11. p \in Position
    BY <1>9, <1>14, HeldIn
  <1> HIDE DEF p
  <1>12. Record(f, a) = [collateral |-> p.collateral, debt |-> p.debt, hf |-> p.hf]
    BY <1>8, <1>10
  <1>13. p = [collateral |-> p.collateral, debt |-> p.debt, hf |-> p.hf]
    BY <1>11, PositionParts
  <1> QED
    BY <1>9, <1>12, <1>13, <1>14 DEF p

LEMMA ApplyGenuine ==
    ASSUME GInv, NEW u \in Updater, Apply(u)
    PROVE  GInv'
  <1>1. /\ flight[u] # None /\ flight[u].results # None /\ DOMAIN flight = Updater
        /\ UNCHANGED <<history, watchList, unhealthy, opps>>
        /\ FlightHolds(flight[u])
    BY DEF Apply, GInv, Watched
  <1>2. PICK f : f = flight[u]
    OBVIOUS
  <1> DEFINE up == {f.addrs[i] : i \in Usable(f)}
  <1>3. /\ accounts' = [a \in Known \cup up |-> IF a \in up THEN Record(f, a) ELSE accounts[a]]
        /\ seen' = [a \in Known \cup up |-> IF a \in up THEN f.block ELSE seen[a]]
        /\ flight' = [flight EXCEPT ![u] = None]
    BY <1>2 DEF Apply
  <1>4. Grown /\ Chain'
    BY <1>1, SameChainGrown DEF GInv
  <1>5. ASSUME NEW a \in up
        PROVE  /\ a \in Account /\ a \in ToSet(watchList) /\ f.block \in 1..block
               /\ Record(f, a) = history[f.block][a]
    <2>1. FlightHolds(f) /\ f.results # None
      BY <1>1, <1>2
    <2>2. /\ a \in Account /\ a \in ToSet(f.addrs) /\ f.block \in 1..block
          /\ Record(f, a) = history[f.block][a]
      BY <1>5, <2>1, RecordIsOfOneBlock DEF GInv
    <2> QED
      BY <2>1, <2>2 DEF FlightHolds
  <1> HIDE DEF up
  <1>6. Known' = Known \cup up
    BY <1>3 DEF Known
  <1>7. RecordsGenuine'
    <2> SUFFICES ASSUME NEW a \in Known \cup up PROVE accounts'[a] = history'[seen'[a]][a]
      BY <1>6 DEF RecordsGenuine
    <2>1. CASE a \in up
      BY <1>1, <1>3, <1>5, <2>1
    <2>2. CASE a \notin up
      BY <1>1, <1>3, <2>2 DEF GInv, RecordsGenuine
    <2> QED
      BY <2>1, <2>2
  <1>8. ASSUME NEW v \in Updater, flight'[v] # None PROVE FlightHolds(flight[v])'
    <2>1. v # u /\ flight[v] # None
      BY <1>1, <1>3, <1>8
    <2>2. PICK g : g = flight[v]
      OBVIOUS
    <2>3. FlightHolds(g) /\ flight'[v] = g
      BY <1>1, <1>3, <2>1, <2>2 DEF GInv, Watched
    <2>4. FlightHolds(g)'
      BY <1>1, <1>4, <2>3, FlightStays DEF GInv
    <2> QED
      BY <2>3, <2>4 DEF FlightHolds
  <1>9. seen' \in [Known' -> 1..block']
    <2>1. UNCHANGED block
      BY <1>1 DEF block
    <2>2. ASSUME NEW a \in Known \cup up
          PROVE  (IF a \in up THEN f.block ELSE seen[a]) \in 1..block
      BY <1>5, <2>2 DEF GInv, Watched
    <2> QED
      BY <1>3, <1>6, <2>1, <2>2
  <1>10. Watched'
    <2>1. Known' \subseteq ToSet(watchList)
      BY <1>5, <1>6 DEF GInv, Watched
    <2>2. DOMAIN flight' = Updater
      BY <1>1, <1>3
    <2> QED
      BY <1>1, <1>8, <1>9, <2>1, <2>2 DEF GInv, Watched
  <1> QED
    BY <1>1, <1>4, <1>7, <1>10, OthersStay DEF GInv

-----------------------------------------------------------------------------
(* What Evaluate is given, and what it returns                             *)

LEMMA CopyGenuine ==
    ASSUME GInv, GetLiquidatable
    PROVE  GInv'
  <1>1. /\ unhealthy' = [a \in {k \in Known : accounts[k].hf < One} |-> accounts[a]]
        /\ opps' = {} /\ UNCHANGED <<history, watchList, flight, accounts, seen>>
    BY DEF GetLiquidatable
  <1>2. Grown /\ Chain'
    BY <1>1, SameChainGrown DEF GInv
  <1>3. ASSUME NEW a \in DOMAIN unhealthy' PROVE HeldUnhealthy(a, unhealthy[a])'
    <2>1. a \in Known /\ unhealthy'[a] = accounts[a] /\ accounts[a].hf < One
      BY <1>1
    <2>2. a \in Account
      BY <2>1 DEF GInv, Watched, ToSet
    <2>3. accounts[a] = history[seen[a]][a] /\ seen[a] \in 1..block
      BY <2>1 DEF GInv, RecordsGenuine, Watched
    <2>4. seen[a] \in 1..block' /\ unhealthy'[a] = history'[seen[a]][a]
      BY <1>1, <2>1, <2>3 DEF block
    <2> QED
      BY <2>1, <2>2, <2>4 DEF HeldUnhealthy
  <1>4. Copied' /\ OpportunityOfOneBlock'
    BY <1>1, <1>3 DEF Copied, OpportunityOfOneBlock
  <1> QED
    BY <1>1, <1>2, <1>4, SameWatched, OthersStay DEF GInv

(* A division that rounds down.                                            *)
LEMMA MulDivNat ==
    ASSUME NEW a \in Nat, NEW b \in Nat
    PROVE  MulDiv(a, b, BPS) \in Nat
  <1>1. a * b \in Nat /\ BPS \in Nat \ {0}
    BY AmmAssumption
  <1>2. \A c \in Nat, d \in Nat \ {0} : c \div d \in Nat
    OBVIOUS
  <1> QED
    BY <1>1, <1>2 DEF MulDiv

(* What is left pays the threshold, so what came in pays the gas too.      *)
LEMMA GrossPays ==
    ASSUME NEW a, NEW p, p.debt \in Nat, Profitable(Opportunity(a, p))
    PROVE  Opportunity(a, p).gross > MinProfit + GasCost
  <1> DEFINE half == p.debt \div 2
             gross == MulDiv(half, Bonus, BPS)
             loan == IF half > 0 THEN MulDiv(half, 5, BPS) ELSE 0
  <1>1. half \in Nat
    OBVIOUS
  <1>2. gross \in Nat
    <2> HIDE DEF half
    <2> QED
      BY <1>1, MulDivNat, LiquidationAssumption
  <1>3. loan \in Nat
    <2> HIDE DEF half
    <2>1. MulDiv(half, 5, BPS) \in Nat
      BY <1>1, MulDivNat
    <2> QED
      BY <2>1
  <1>4. Opportunity(a, p).gross = gross /\ Opportunity(a, p).net = gross - GasCost - loan
    BY DEF Opportunity, NetProfit
  <1> HIDE DEF half, gross, loan
  <1>5. gross - GasCost - loan > MinProfit
    BY <1>4 DEF Profitable, IsProfitable
  <1> QED
    BY <1>2, <1>3, <1>4, <1>5, LiquidationAssumption

LEMMA EvaluateGenuine ==
    ASSUME GInv, Evaluate
    PROVE  GInv'
  <1>1. /\ unhealthy # None /\ unhealthy' = None
        /\ opps' = {o \in {Opportunity(a, unhealthy[a]) : a \in DOMAIN unhealthy} : Profitable(o)}
        /\ UNCHANGED <<history, watchList, flight, accounts, seen>>
    BY DEF Evaluate
  <1>2. Grown /\ Chain'
    BY <1>1, SameChainGrown DEF GInv
  <1>3. ASSUME NEW o \in opps'
        PROVE  \E b \in 1..block : /\ history[b][o.account].hf < One
                                    /\ o = Opportunity(o.account, history[b][o.account])
                                    /\ o.gross > MinProfit + GasCost
    <2>1. PICK a \in DOMAIN unhealthy : o = Opportunity(a, unhealthy[a]) /\ Profitable(o)
      BY <1>1
    <2>2. HeldUnhealthy(a, unhealthy[a])
      BY <1>1 DEF GInv, Copied
    <2>3. PICK b \in 1..block : unhealthy[a] = history[b][a] /\ unhealthy[a].hf < One
      BY <2>2 DEF HeldUnhealthy
    <2>4. unhealthy[a].debt \in Nat
      BY <2>2, <2>3, HeldIn, PositionParts DEF HeldUnhealthy, GInv
    <2>5. o.account = a
      BY <2>1 DEF Opportunity
    <2>6. o.gross > MinProfit + GasCost
      BY <2>1, <2>4, GrossPays
    <2> QED
      BY <2>1, <2>3, <2>5, <2>6
  <1>4. OpportunityOfOneBlock'
    <2>1. UNCHANGED <<history, block>>
      BY <1>1 DEF block
    <2> QED
      BY <1>3, <2>1 DEF OpportunityOfOneBlock, Opportunity
  <1>5. Copied'
    BY <1>1 DEF Copied
  <1> QED
    BY <1>1, <1>2, <1>4, <1>5, SameWatched, OthersStay DEF GInv

LEMMA GenuineStep ==
    ASSUME GInv, [Next]_vars
    PROVE  GInv'
  <1>1. CASE NewBlock
    BY <1>1, NewBlockGenuine
  <1>2. ASSUME NEW a \in Account, AddWatch(a) PROVE GInv'
    BY <1>2, AddWatchGenuine
  <1>3. ASSUME NEW u \in Updater, Update(u) PROVE GInv'
    BY <1>3, StartGenuine, AnswerGenuine, FailGenuine, ApplyGenuine DEF Update
  <1>4. CASE GetLiquidatable
    BY <1>4, CopyGenuine
  <1>5. CASE Evaluate
    BY <1>5, EvaluateGenuine
  <1>6. CASE UNCHANGED vars
    <2>1. UNCHANGED <<history, watchList, flight, accounts, seen, unhealthy, opps>>
      BY <1>6 DEF vars
    <2>2. Grown /\ Chain'
      BY <2>1, SameChainGrown DEF GInv
    <2> QED
      BY <2>1, <2>2, SameWatched, OthersStay DEF GInv
  <1> QED
    BY <1>1, <1>2, <1>3, <1>4, <1>5, <1>6 DEF Next, Dead

(* Both invariants together are inductive.                                 *)
LEMMA AlwaysGenuine == Spec => [](Counted /\ GInv)
  <1>1. Init => Counted /\ GInv
    BY InitCounted, InitGenuine
  <1>2. Counted /\ GInv /\ [Next]_vars => (Counted /\ GInv)'
    BY CountedStep, GenuineStep
  <1> QED
    BY <1>1, <1>2, PTL DEF Spec

(* For any accounts and positions: no answer is read beyond its end, there *)
(* is one result for each account asked for, only watched accounts have    *)
(* records, and the monitor panics only on a list of more accounts than    *)
(* the encoder can count (multicall.go:80).                                *)
THEOREM LiquidationTypes == Spec => []TypeOK
  <1>1. ASSUME Counted, GInv PROVE TypeOK
    <2>1. history \in Seq([Account -> Position]) /\ block \in 1..MaxBlock
      BY <1>1 DEF GInv, Chain
    <2>2. watchList \in Seq(Account) /\ Known \subseteq ToSet(watchList)
      BY <1>1 DEF GInv, Watched
    <2>3. seen \in [Known -> 1..block]
      BY <1>1 DEF GInv, Watched
    <2>4. ASSUME NEW u \in Updater, flight[u] # None
          PROVE  /\ flight[u].addrs \in Seq(Account) /\ Len(flight[u].addrs) <= MaxCalls
                 /\ flight[u].block \in 1..block \cup {Latest}
                 /\ flight[u].results # None =>
                       /\ flight[u].block # Latest /\ flight[u].results.outcome = "ok"
                       /\ Len(flight[u].results.results) = Len(flight[u].addrs)
      <3>1. PICK f : f = flight[u]
        OBVIOUS
      <3>2. FlightHolds(f)
        BY <1>1, <2>4, <3>1 DEF GInv, Watched
      <3>3. /\ f.addrs \in Seq(Account) /\ Len(f.addrs) <= MaxCalls
            /\ f.block \in 1..block \cup {Latest}
        BY <3>2 DEF FlightHolds
      <3>4. ASSUME f.results # None
            PROVE  f.block # Latest /\ f.results.outcome = "ok" /\ Len(f.results.results) = Len(f.addrs)
        <4>1. PICK reverts : f.results = [outcome |-> "ok",
                               results |-> AnswersOf(f.block, f.addrs, reverts)]
          BY <3>2, <3>4 DEF FlightHolds, AnswerHolds
        <4>4. f.block # Latest
          BY <3>2, <3>4 DEF FlightHolds, AnswerHolds, Latest
        <4>2. PICK n \in Nat : n = Len(f.addrs) /\ DOMAIN f.addrs = 1..n
          BY <3>3
        <4>3. Len(AnswersOf(f.block, f.addrs, reverts)) = n
          BY <4>2 DEF AnswersOf
        <4> QED
          BY <4>1, <4>2, <4>3, <4>4
      <3> QED
        BY <3>1, <3>3, <3>4
    <2>5. panicked \in BOOLEAN /\ (panicked => Len(watchList) > MaxCalls)
      BY <1>1 DEF Counted
    <2> QED
      BY <2>1, <2>2, <2>3, <2>4, <2>5 DEF TypeOK
  <1> QED
    BY <1>1, AlwaysGenuine, PTL

(* For any accounts, positions and watch lists, and any number of Updates: *)
(* a record is what its own account held in one block, whichever of the    *)
(* calls revert and however often an account is watched.                   *)
THEOREM RecordsAreGenuine == Spec => []RecordsGenuine
  <1>1. GInv => RecordsGenuine
    BY DEF GInv
  <1> QED
    BY <1>1, AlwaysGenuine, PTL

(* For any records and whatever Updates do meanwhile: an opportunity is    *)
(* for an account that was unhealthy in the block its amounts are of, and  *)
(* its bonus pays more than gas, loan and threshold.                       *)
THEOREM OpportunitiesOfOneBlock == Spec => []OpportunityOfOneBlock
  <1>1. GInv => OpportunityOfOneBlock
    BY DEF GInv
  <1> QED
    BY <1>1, AlwaysGenuine, PTL
=============================================================================
