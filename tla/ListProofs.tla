------------------------------ MODULE ListProofs ------------------------------
(***************************************************************************)
(* What the loops of Lists return, for lists of any length.                *)
(***************************************************************************)
EXTENDS Lists, SequencesExt, WellFoundedInduction, TLAPS

(* Induction over the natural numbers, with a set for the predicate. *)

\* Every set of naturals with a member has a least one: the slots an off has to
\* visit can be visited in order.
LEMMA LeastElement ==
    ASSUME NEW T, T \subseteq Nat, T # {}
    PROVE  \E x \in T : \A y \in T : x <= y
<1> DEFINE R == {ss \in Nat \X Nat : ss[1] < ss[2]}
<1>1. IsWellFoundedOn(R, Nat)
  BY NatLessThanWellFounded DEF OpToRel
<1>2. PICK x \in T : \A y \in T : ~(<<y, x>> \in R)
  <2> HIDE DEF R
  <2> QED BY <1>1, WFMin
<1>3. ASSUME NEW y \in T PROVE x <= y
  <2>1. ~(<<y, x>> \in R)
    BY <1>2
  <2>2. y \in Nat /\ x \in Nat
    OBVIOUS
  <2>3. ~(y < x)
    BY <2>1, <2>2
  <2> QED BY <2>2, <2>3
<1> QED BY <1>3

\* A set that has 0, and the successor of each of its members, has all naturals.
LEMMA NatInductionOnSet ==
    ASSUME NEW S, 0 \in S, \A n \in Nat : n \in S => n + 1 \in S
    PROVE  Nat \subseteq S
<1> DEFINE T == Nat \ S
<1>1. SUFFICES ASSUME T # {} PROVE FALSE
  OBVIOUS
<1>2. PICK x \in T : \A y \in T : x <= y
  BY <1>1, LeastElement
<1>3. x # 0 /\ x \in Nat /\ x - 1 \in Nat /\ x - 1 \notin T
  BY <1>2
<1>4. x - 1 \in S
  BY <1>3
<1>5. (x - 1) + 1 = x
  BY <1>3
<1> QED BY <1>3, <1>4, <1>5

-----------------------------------------------------------------------------
(* The walk over a list. *)

\* One turn of the loop, when g holds the results of the turns before.
Turn(list, S, g, n) ==
    IF n = 0 THEN <<>>
    ELSE IF list[n] \in S THEN Append(g[n - 1], list[n]) ELSE g[n - 1]

\* The recursion of KeptUpTo has a solution: the loop computes what each turn says.
LEMMA KeptUpToDef ==
    ASSUME NEW E, NEW list \in Seq(E), NEW S
    PROVE  KeptUpTo(list, S) = [n \in 0 .. Len(list) |-> Turn(list, S, KeptUpTo(list, S), n)]
<1> DEFINE N == Len(list)
           Good(n) == \E g : g = [k \in 0 .. n |-> Turn(list, S, g, k)]
           T == {n \in Nat : Good(n)}
<1>0. N \in Nat
  OBVIOUS
<1>1. 0 \in T
  <2> DEFINE g == [k \in 0 .. 0 |-> <<>>]
  <2>1. g = [k \in 0 .. 0 |-> Turn(list, S, g, k)]
    BY DEF Turn
  <2>2. Good(0)
    BY <2>1
  <2> QED BY <2>2
<1>2. ASSUME NEW n \in Nat, n \in T PROVE n + 1 \in T
  <2>1. PICK g : g = [k \in 0 .. n |-> Turn(list, S, g, k)]
    BY <1>2
  <2> DEFINE h == [k \in 0 .. n + 1 |-> IF k \in 0 .. n THEN g[k] ELSE Turn(list, S, g, k)]
  <2>2. ASSUME NEW k \in 0 .. n + 1 PROVE h[k] = Turn(list, S, h, k)
    <3>1. k # 0 => k - 1 \in 0 .. n /\ k - 1 \in 0 .. n + 1
      OBVIOUS
    <3>2. k # 0 => h[k - 1] = g[k - 1]
      BY <3>1
    <3>3. h[k] = Turn(list, S, g, k)
      BY <2>1
    <3> HIDE DEF h
    <3> QED BY <3>2, <3>3 DEF Turn
  <2>3. h = [k \in 0 .. n + 1 |-> Turn(list, S, h, k)]
    BY <2>2
  <2>4. Good(n + 1)
    <3> HIDE DEF h
    <3> QED BY <2>3
  <2> QED BY <2>4
<1>3. Nat \subseteq T
  <2> HIDE DEF T
  <2> QED BY <1>1, <1>2, NatInductionOnSet
<1>4. Good(N)
  BY <1>0, <1>3
<1>5. KeptUpTo(list, S) = CHOOSE g : g = [k \in 0 .. N |-> Turn(list, S, g, k)]
  BY DEF KeptUpTo, Turn
<1> QED BY <1>4, <1>5

\* Before its first turn the loop has kept nothing; turn n appends element n if
\* it is to be kept.
LEMMA KeptTurns ==
    ASSUME NEW E, NEW list \in Seq(E), NEW S
    PROVE  /\ KeptUpTo(list, S)[0] = <<>>
           /\ \A n \in 1 .. Len(list) :
                 KeptUpTo(list, S)[n] =
                     IF list[n] \in S THEN Append(KeptUpTo(list, S)[n - 1], list[n])
                     ELSE KeptUpTo(list, S)[n - 1]
<1> DEFINE g == KeptUpTo(list, S)
<1>1. g = [n \in 0 .. Len(list) |-> Turn(list, S, g, n)]
  BY KeptUpToDef
<1> HIDE DEF g
<1>2. g[0] = Turn(list, S, g, 0)
  BY <1>1
<1>3. ASSUME NEW n \in 1 .. Len(list) PROVE g[n] = Turn(list, S, g, n)
  BY <1>1
<1> QED BY <1>2, <1>3 DEF Turn, g

\* No element is twice in the list.
Distinct(list) == \A i, j \in 1 .. Len(list) : i # j => list[i] # list[j]

\* The loop keeps exactly the elements of the list that are in S, and none of
\* them twice if none is twice in the list.
LEMMA KeptElements ==
    ASSUME NEW E, NEW list \in Seq(E), NEW S
    PROVE  /\ Kept(list, S) \in Seq(E)
           /\ ToSet(Kept(list, S)) = ToSet(list) \cap S
           /\ Distinct(list) => Distinct(Kept(list, S))
<1> DEFINE g == KeptUpTo(list, S)
           N == Len(list)
           First(n) == {list[i] : i \in 1 .. n}
           Good(n) == /\ g[n] \in Seq(E)
                      /\ ToSet(g[n]) = First(n) \cap S
                      /\ Distinct(list) => Distinct(g[n])
           T == {n \in Nat : n <= N => Good(n)}
<1>0. N \in Nat /\ DOMAIN list = 1 .. N
  OBVIOUS
<1>a. /\ g[0] = <<>>
      /\ \A n \in 1 .. N : g[n] = IF list[n] \in S THEN Append(g[n - 1], list[n]) ELSE g[n - 1]
  BY KeptTurns
<1> HIDE DEF g
<1>1. 0 \in T
  <2>1. First(0) = {}
    OBVIOUS
  <2>2. ToSet(g[0]) = {} /\ g[0] \in Seq(E)
    BY <1>a DEF ToSet
  <2>3. Distinct(g[0])
    BY <1>a DEF Distinct
  <2> HIDE DEF First
  <2> QED BY <2>1, <2>2, <2>3
<1>2. ASSUME NEW n \in Nat, n \in T PROVE n + 1 \in T
  <2> SUFFICES ASSUME n + 1 <= N PROVE Good(n + 1)
    OBVIOUS
  <2>0. n <= N /\ n + 1 \in 1 .. N /\ (n + 1) - 1 = n
    BY <1>0
  <2>1. Good(n)
    BY <1>2, <2>0
  <2>2. g[n + 1] = IF list[n + 1] \in S THEN Append(g[n], list[n + 1]) ELSE g[n]
    BY <1>a, <2>0
  <2>3. First(n + 1) = First(n) \cup {list[n + 1]}
    BY <1>0, <2>0
  <2>4. list[n + 1] \in E
    BY <2>0, <1>0
  <2>5. CASE list[n + 1] \notin S
    <3>1. g[n + 1] = g[n]
      BY <2>2, <2>5
    <3> HIDE DEF First
    <3> QED BY <2>1, <2>3, <2>5, <3>1
  <2>6. CASE list[n + 1] \in S
    <3> DEFINE x == list[n + 1]
               s == g[n]
    <3>1. g[n + 1] = Append(s, x)
      BY <2>2, <2>6
    <3>2. s \in Seq(E) /\ Len(s) \in Nat
      BY <2>1
    <3>a. x \in E
      BY <2>4
    <3> HIDE DEF x, s
    <3>3. /\ Append(s, x) \in Seq(E)
          /\ DOMAIN Append(s, x) = 1 .. Len(s) + 1
          /\ Len(Append(s, x)) = Len(s) + 1
          /\ Append(s, x)[Len(s) + 1] = x
          /\ \A i \in 1 .. Len(s) : Append(s, x)[i] = s[i]
      BY <3>2, <3>a
    <3>4. ToSet(Append(s, x)) = ToSet(s) \cup {x}
      <4>1. DOMAIN s = 1 .. Len(s)
        BY <3>2
      <4>2. 1 .. Len(s) + 1 = (1 .. Len(s)) \cup {Len(s) + 1}
        BY <3>2
      <4> QED BY <3>3, <4>1, <4>2 DEF ToSet
    <3>5. ASSUME Distinct(list) PROVE Distinct(Append(s, x))
      <4>1. Distinct(s) /\ ToSet(s) \subseteq First(n)
        BY <2>1, <3>5 DEF s
      <4>2. ASSUME NEW i \in 1 .. Len(s) PROVE s[i] # x
        <5>1. s[i] \in First(n)
          <6>1. i \in DOMAIN s
            BY <3>2
          <6> QED BY <4>1, <6>1 DEF ToSet
        <5>2. PICK k \in 1 .. n : s[i] = list[k]
          BY <5>1
        <5>3. k # n + 1 /\ k \in 1 .. N
          BY <2>0, <1>0
        <5> QED BY <5>2, <5>3, <2>0, <3>5 DEF Distinct, x
      <4>3. ASSUME NEW i \in 1 .. Len(s) + 1, NEW j \in 1 .. Len(s) + 1, i # j
            PROVE  Append(s, x)[i] # Append(s, x)[j]
        <5>1. CASE i \in 1 .. Len(s) /\ j \in 1 .. Len(s)
          BY <5>1, <4>1, <4>3, <3>3 DEF Distinct
        <5>2. CASE i = Len(s) + 1
          <6>1. j \in 1 .. Len(s)
            BY <5>2, <4>3, <3>2
          <6> QED BY <6>1, <5>2, <4>2, <3>3
        <5>3. CASE j = Len(s) + 1
          <6>1. i \in 1 .. Len(s)
            BY <5>3, <4>3, <3>2
          <6> QED BY <6>1, <5>3, <4>2, <3>3
        <5> QED BY <5>1, <5>2, <5>3, <3>2
      <4> QED BY <4>3, <3>3 DEF Distinct
    <3>6. (First(n) \cup {x}) \cap S = (First(n) \cap S) \cup {x}
      BY <2>6 DEF x
    <3>7. ToSet(g[n + 1]) = First(n + 1) \cap S
      <4> HIDE DEF First
      <4> QED BY <3>1, <3>4, <3>6, <2>1, <2>3 DEF s, x
    <3>8. g[n + 1] \in Seq(E)
      BY <3>1, <3>3
    <3>9. Distinct(list) => Distinct(g[n + 1])
      BY <3>1, <3>5
    <3> QED BY <3>7, <3>8, <3>9
  <2> QED BY <2>5, <2>6
<1>3. Nat \subseteq T
  <2> HIDE DEF T
  <2> QED BY <1>1, <1>2, NatInductionOnSet
<1>4. Good(N)
  <2>1. N \in T /\ N <= N
    <3> HIDE DEF T
    <3> QED BY <1>0, <1>3
  <2> HIDE DEF Good
  <2> QED BY <2>1
<1>5. First(N) = ToSet(list)
  BY <1>0 DEF ToSet
<1>6. Kept(list, S) = g[N]
  BY DEF Kept, g
<1> HIDE DEF First, N
<1> QED BY <1>4, <1>5, <1>6
==============================================================================
