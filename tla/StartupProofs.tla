--------------------------- MODULE StartupProofs ---------------------------
(***************************************************************************)
(* Proofs about Image and Startup, for any image that the two tools make,  *)
(* any engine that provides the primitives of its maker, any place of the  *)
(* sections, and any number of starts in one process.                      *)
(***************************************************************************)
EXTENDS Startup, SequenceTheorems, WellFoundedInduction, TLAPS

-----------------------------------------------------------------------------
(* The least-number principle. *)

LEMMA LessIsRelation ==
  ASSUME NEW x \in Nat, NEW y \in Nat, x < y
  PROVE  <<x, y>> \in OpToRel(<, Nat)
  <1>1. <<x, y>> \in Nat \X Nat /\ <<x, y>>[1] < <<x, y>>[2]
    OBVIOUS
  <1> QED
    BY <1>1, Zenon DEF OpToRel

LEMMA LeastNumber ==
  ASSUME NEW T, T \subseteq Nat, T # {}
  PROVE  \E n \in T : \A m \in T : n <= m
  <1>1. PICK n \in T : \A m \in T : ~(<<m, n>> \in OpToRel(<, Nat))
    BY NatLessThanWellFounded, WFMin, Zenon
  <1>2. \A m \in T : ~(m < n)
    BY <1>1, LessIsRelation, Zenon
  <1> QED
    BY <1>2

-----------------------------------------------------------------------------
(* The sums of the first entries of a table.  Both the numbers of          *)
(* primitives in front of a group and what gforth_relocate makes of groups *)
(* are such sums; the recursive functions that define them satisfy the     *)
(* equations because a function with these equations exists.               *)
Sums(a, L, f) ==
  /\ DOMAIN f = 0 .. L /\ f[0] = a[0]
  /\ \A i \in 1 .. L : f[i] = f[i - 1] + a[i]

LEMMA SumsExist ==
  ASSUME NEW a, NEW L \in Nat
  PROVE  \E f : Sums(a, L, f) /\ f = [i \in 0 .. L |-> f[i]]
  <1> DEFINE W(m) == \E f : Sums(a, m, f) /\ f = [i \in 0 .. m |-> f[i]]
             T == {m \in Nat : ~W(m)}
  <1>1. ASSUME T # {} PROVE FALSE
    <2>1. PICK m \in T : \A k \in T : m <= k
      <3> HIDE DEF T
      <3>1. T \subseteq Nat
        BY DEF T
      <3> QED
        BY <1>1, <3>1, LeastNumber
    <2>2. m \in Nat /\ ~W(m)
      OBVIOUS
    <2>3. m # 0
      <3> DEFINE f == [i \in 0 .. 0 |-> a[0]]
      <3>1. Sums(a, 0, f) /\ f = [i \in 0 .. 0 |-> f[i]]
        BY DEF Sums
      <3>2. W(0)
        BY <3>1
      <3> HIDE DEF W
      <3> QED
        BY <2>2, <3>2
    <2>4. m - 1 \in Nat /\ m - 1 < m /\ m \in 0 .. m
      BY <2>2, <2>3
    <2>5. W(m - 1)
      <3>1. m - 1 \notin T
        <4> HIDE DEF T
        <4> QED
          BY <2>1, <2>2, <2>4
      <3> HIDE DEF W
      <3> QED
        BY <2>4, <3>1
    <2>6. PICK f : Sums(a, m - 1, f)
      BY <2>5
    <2> DEFINE g == [i \in 0 .. m |-> IF i = m THEN f[m - 1] + a[m] ELSE f[i]]
    <2>7. DOMAIN g = 0 .. m /\ g[m] = f[m - 1] + a[m] /\ g = [i \in 0 .. m |-> g[i]]
      BY <2>4
    <2>8. \A i \in 0 .. m - 1 : g[i] = f[i]
      BY <2>4
    <2> HIDE DEF g
    <2>9. g[0] = a[0]
      BY <2>4, <2>6, <2>8 DEF Sums
    <2>10. ASSUME NEW i \in 1 .. m PROVE g[i] = g[i - 1] + a[i]
      <3>1. g[i - 1] = f[i - 1]
        BY <2>4, <2>8
      <3>2. CASE i = m
        BY <2>7, <3>1, <3>2
      <3>3. CASE i # m
        <4>1. i \in 1 .. m - 1 /\ i \in 0 .. m - 1
          BY <2>4, <3>3
        <4> QED
          BY <2>6, <2>8, <3>1, <4>1 DEF Sums
      <3> QED
        BY <3>2, <3>3
    <2>11. W(m)
      BY <2>7, <2>9, <2>10 DEF Sums
    <2> QED
      BY <2>2, <2>11
  <1>2. L \notin T
    BY <1>1
  <1> QED
    BY <1>2

(* They are numbers, and they grow. *)
LEMMA SumsAreNumbers ==
  ASSUME NEW a, NEW L \in Nat, NEW f, Sums(a, L, f), \A i \in 0 .. L : a[i] \in Nat
  PROVE  \A i \in 0 .. L : f[i] \in Nat
  <1> DEFINE T == {m \in Nat : m <= L /\ f[m] \notin Nat}
  <1>1. ASSUME T # {} PROVE FALSE
    <2>1. PICK m \in T : \A k \in T : m <= k
      <3> HIDE DEF T
      <3>1. T \subseteq Nat
        BY DEF T
      <3> QED
        BY <1>1, <3>1, LeastNumber
    <2>2. m \in Nat /\ m <= L /\ f[m] \notin Nat
      OBVIOUS
    <2>3. m # 0
      BY <2>2 DEF Sums
    <2>4. m - 1 \in Nat /\ m - 1 <= L /\ m - 1 < m /\ m \in 1 .. L /\ m \in 0 .. L
      BY <2>2, <2>3
    <2>5. f[m - 1] \in Nat
      <3>1. m - 1 \notin T
        <4> HIDE DEF T
        <4> QED
          BY <2>1, <2>2, <2>4
      <3> QED
        BY <2>4, <3>1
    <2> QED
      BY <2>2, <2>4, <2>5 DEF Sums
  <1> QED
    BY <1>1

LEMMA SumsGrow ==
  ASSUME NEW a, NEW L \in Nat, NEW f, Sums(a, L, f), \A i \in 0 .. L : a[i] \in Nat,
         NEW g \in 0 .. L, NEW h \in 0 .. L, g <= h
  PROVE  f[g] <= f[h]
  <1>0. \A i \in 0 .. L : f[i] \in Nat
    BY SumsAreNumbers
  <1> DEFINE T == {m \in Nat : g <= m /\ m <= L /\ ~(f[g] <= f[m])}
  <1>1. ASSUME T # {} PROVE FALSE
    <2>1. PICK m \in T : \A k \in T : m <= k
      <3> HIDE DEF T
      <3>1. T \subseteq Nat
        BY DEF T
      <3> QED
        BY <1>1, <3>1, LeastNumber
    <2>2. m \in Nat /\ g <= m /\ m <= L /\ ~(f[g] <= f[m])
      OBVIOUS
    <2>3. m # g
      BY <1>0, <2>2
    <2>4. /\ m - 1 \in Nat /\ g <= m - 1 /\ m - 1 <= L /\ m - 1 < m
          /\ m \in 1 .. L /\ m \in 0 .. L /\ m - 1 \in 0 .. L
      BY <2>2, <2>3
    <2>5. f[g] <= f[m - 1]
      <3>1. m - 1 \notin T
        <4> HIDE DEF T
        <4> QED
          BY <2>1, <2>2, <2>4
      <3> QED
        BY <2>4, <3>1
    <2>6. f[m] = f[m - 1] + a[m] /\ a[m] \in Nat /\ f[m - 1] \in Nat /\ f[g] \in Nat
      BY <1>0, <2>4 DEF Sums
    <2> QED
      BY <2>2, <2>5, <2>6
  <1> QED
    BY <1>1

(* Two tables that agree have the same sums. *)
LEMMA SumsAgree ==
  ASSUME NEW a, NEW b, NEW L \in Nat, NEW M \in Nat, NEW f, NEW g,
         Sums(a, L, f), Sums(b, M, g), L <= M, \A i \in 0 .. L : a[i] = b[i]
  PROVE  \A i \in 0 .. L : f[i] = g[i]
  <1> DEFINE T == {m \in Nat : m <= L /\ f[m] # g[m]}
  <1>1. ASSUME T # {} PROVE FALSE
    <2>1. PICK m \in T : \A k \in T : m <= k
      <3> HIDE DEF T
      <3>1. T \subseteq Nat
        BY DEF T
      <3> QED
        BY <1>1, <3>1, LeastNumber
    <2>2. m \in Nat /\ m <= L /\ f[m] # g[m]
      OBVIOUS
    <2>3. m # 0
      <3>1. 0 \in 0 .. L
        OBVIOUS
      <3> QED
        BY <2>2, <3>1 DEF Sums
    <2>4. m - 1 \in Nat /\ m - 1 <= L /\ m - 1 < m /\ m \in 1 .. L /\ m \in 1 .. M /\ m \in 0 .. L
      BY <2>2, <2>3
    <2>5. f[m - 1] = g[m - 1]
      <3>1. m - 1 \notin T
        <4> HIDE DEF T
        <4> QED
          BY <2>1, <2>2, <2>4
      <3> QED
        BY <2>4, <3>1
    <2> QED
      BY <2>2, <2>4, <2>5 DEF Sums
  <1> QED
    BY <1>1

-----------------------------------------------------------------------------
(* The groups of an engine. *)

SizesBefore(e) == [g \in 0 .. Len(e.groups) |-> IF g = 0 THEN 0 ELSE e.groups[g]]
Starts(e) == [g \in 0 .. Len(e.groups) |-> GroupStart(e, g)]

LEMMA EngineLength ==
  ASSUME NEW e, IsEngine(e)
  PROVE  /\ Len(e.groups) \in Nat /\ Len(e.groups) >= 2 /\ Len(e.groups) <= 30
         /\ DOMAIN e.groups = 1 .. Len(e.groups)
         /\ \A g \in 1 .. Len(e.groups) : e.groups[g] \in Nat /\ e.groups[g] <= 512
         /\ e.groups[1] = DOER_MAX + 1
  <1>1. /\ e.groups \in Seq(Nat) /\ Len(e.groups) \in 2 .. LastGroup - 1 /\ e.groups[1] = DOER_MAX + 1
        /\ \A i \in DOMAIN e.groups : e.groups[i] <= 512
    BY DEF IsEngine
  <1>2. Len(e.groups) \in Nat /\ Len(e.groups) >= 2 /\ Len(e.groups) <= 30
    <2>1. \A n \in 2 .. 30 : n \in Nat /\ n >= 2 /\ n <= 30
      OBVIOUS
    <2>2. Len(e.groups) \in 2 .. 30
      <3>1. LastGroup - 1 = 30
        BY DEF LastGroup
      <3> QED
        BY <1>1, <3>1, Zenon
    <2> QED
      BY <2>1, <2>2, Zenon
  <1>3. DOMAIN e.groups = 1 .. Len(e.groups) /\ \A g \in 1 .. Len(e.groups) : e.groups[g] \in Nat
    BY <1>1
  <1> QED
    BY <1>1, <1>2, <1>3

LEMMA SizesBeforeAreNumbers ==
  ASSUME NEW e, IsEngine(e)
  PROVE  \A i \in 0 .. Len(e.groups) : SizesBefore(e)[i] \in Nat
  <1>1. /\ Len(e.groups) \in Nat
        /\ \A g \in 1 .. Len(e.groups) : e.groups[g] \in Nat
    BY EngineLength
  <1> QED
    BY <1>1 DEF SizesBefore

LEMMA GroupStarts ==
  ASSUME NEW e, IsEngine(e)
  PROVE  Sums(SizesBefore(e), Len(e.groups), Starts(e))
  <1> DEFINE L == Len(e.groups)
             Body(f) == [i \in 0 .. L |-> IF i = 0 THEN 0 ELSE f[i - 1] + e.groups[i]]
             F == CHOOSE f : f = Body(f)
             a == SizesBefore(e)
  <1>1. L \in Nat
    BY EngineLength
  <1>2. PICK f : Sums(a, L, f) /\ f = [i \in 0 .. L |-> f[i]]
    <2> HIDE DEF a, L
    <2> QED
      BY <1>1, SumsExist
  <1>3. \A i \in 0 .. L : a[i] = IF i = 0 THEN 0 ELSE e.groups[i]
    BY DEF SizesBefore
  <1>4. f = Body(f)
    <2> HIDE DEF a, L
    <2>1. ASSUME NEW i \in 0 .. L PROVE f[i] = IF i = 0 THEN 0 ELSE f[i - 1] + e.groups[i]
      <3>1. CASE i = 0
        BY <1>2, <1>3, <3>1 DEF Sums
      <3>2. CASE i # 0
        <4>1. i \in 1 .. L
          BY <1>1, <3>2
        <4> QED
          BY <1>2, <1>3, <3>2, <4>1 DEF Sums
      <3> QED
        BY <3>1, <3>2
    <2> QED
      BY <1>2, <2>1
  <1>5. F = Body(F)
    BY <1>4, Zenon
  <1>6. ASSUME NEW g \in 0 .. L PROVE GroupStart(e, g) = F[g]
    BY DEF GroupStart
  <1>7. DOMAIN Starts(e) = 0 .. L /\ \A g \in 0 .. L : Starts(e)[g] = F[g]
    BY <1>6 DEF Starts
  <1>8. \A i \in 0 .. L : F[i] = IF i = 0 THEN 0 ELSE F[i - 1] + e.groups[i]
    <2> HIDE DEF F, L
    <2> QED
      BY <1>5
  <1> HIDE DEF F, L, a
  <1>9. Starts(e)[0] = a[0]
    <2>1. 0 \in 0 .. L
      BY <1>1
    <2> QED
      BY <1>3, <1>7, <1>8, <2>1
  <1>10. ASSUME NEW i \in 1 .. L PROVE Starts(e)[i] = Starts(e)[i - 1] + a[i]
    <2>1. i \in 0 .. L /\ i - 1 \in 0 .. L /\ i # 0
      BY <1>1
    <2> QED
      BY <1>3, <1>7, <1>8, <2>1
  <1>11. Sums(a, L, Starts(e))
    BY <1>7, <1>9, <1>10 DEF Sums
  <1> QED
    BY <1>11 DEF a, L

(* What the proofs use of the groups. *)
GroupFacts(e) ==
  /\ \A g \in 0 .. Len(e.groups) : GroupStart(e, g) \in Nat
  /\ GroupStart(e, 1) = DOER_MAX + 1
  /\ \A g \in 1 .. Len(e.groups) - 1 :
       GroupStart(e, g + 1) = GroupStart(e, g) + e.groups[g + 1]
  /\ \A g, h \in 0 .. Len(e.groups) : g <= h => GroupStart(e, g) <= GroupStart(e, h)

LEMMA GroupFactsHold ==
  ASSUME NEW e, IsEngine(e)
  PROVE  GroupFacts(e)
  <1> DEFINE L == Len(e.groups)
             a == SizesBefore(e)
             f == Starts(e)
  <1>1. L \in Nat /\ L >= 2 /\ e.groups[1] = DOER_MAX + 1 /\ DOER_MAX \in Nat
    BY EngineLength, ImageAssumption
  <1>2. Sums(a, L, f) /\ \A i \in 0 .. L : a[i] \in Nat
    BY GroupStarts, SizesBeforeAreNumbers
  <1>3. \A g \in 0 .. L : GroupStart(e, g) = f[g]
    BY DEF Starts
  <1>4. \A i \in 1 .. L : a[i] = e.groups[i]
    BY <1>1 DEF SizesBefore
  <1>5. a[0] = 0
    BY <1>1 DEF SizesBefore
  <1> HIDE DEF L, a, f
  <1>6. \A g \in 0 .. L : f[g] \in Nat
    BY <1>1, <1>2, SumsAreNumbers
  <1>7. \A g, h \in 0 .. L : g <= h => f[g] <= f[h]
    BY <1>1, <1>2, SumsGrow
  <1>8. GroupStart(e, 1) = DOER_MAX + 1
    <2>1. 1 \in 1 .. L /\ 1 \in 0 .. L /\ 1 - 1 = 0
      BY <1>1
    <2>2. f[1] = f[0] + a[1] /\ f[0] = a[0]
      BY <1>2, <2>1 DEF Sums
    <2> QED
      BY <1>1, <1>3, <1>4, <1>5, <2>1, <2>2
  <1>9. ASSUME NEW g \in 1 .. L - 1 PROVE GroupStart(e, g + 1) = GroupStart(e, g) + e.groups[g + 1]
    <2>1. g \in 0 .. L /\ g + 1 \in 1 .. L /\ g + 1 \in 0 .. L /\ (g + 1) - 1 = g
      BY <1>1
    <2>2. f[g + 1] = f[g] + a[g + 1]
      BY <1>2, <2>1 DEF Sums
    <2> QED
      BY <1>3, <1>4, <2>1, <2>2
  <1>10. \A g \in 0 .. L : GroupStart(e, g) \in Nat
    BY <1>3, <1>6
  <1>11. \A g, h \in 0 .. L : g <= h => GroupStart(e, g) <= GroupStart(e, h)
    BY <1>3, <1>7
  <1> QED
    BY <1>8, <1>9, <1>10, <1>11, Zenon DEF GroupFacts, L

(* What gforth_relocate makes of groups as they are compiled in: the       *)
(* numbers of primitives in front of the groups.  The last entry tells     *)
(* that this was done.                                                     *)
GroupsSummed(e, groups) ==
  /\ \A g \in 0 .. Len(e.groups) : groups[g] = GroupStart(e, g)
  /\ groups[LastGroup] # 0

LEMMA SumOnce ==
  ASSUME NEW e, IsEngine(e)
  PROVE  GroupsSummed(e, SumGroups(InitGroups(e)))
  <1> DEFINE b == InitGroups(e)
             Body(f) == [g \in 0 .. LastGroup |-> b[g] + (IF g = 0 THEN 0 ELSE f[g - 1])]
             F == CHOOSE f : f = Body(f)
             L == Len(e.groups)
             a == SizesBefore(e)
  <1>1. /\ L \in Nat /\ L >= 2 /\ L <= 30 /\ DOMAIN e.groups = 1 .. L /\ LastGroup = 31
        /\ \A g \in 1 .. L : e.groups[g] \in Nat
        /\ e.groups[1] = DOER_MAX + 1 /\ DOER_MAX \in Nat
    BY EngineLength, ImageAssumption DEF LastGroup
  <1>2. /\ \A g \in 1 .. L : b[g] = e.groups[g]
        /\ b[0] = 0 /\ b[31] = 0 /\ \A g \in 0 .. 31 : b[g] \in Nat
    <2> HIDE DEF L
    <2>1. \A g \in 0 .. 31 : b[g] = IF g \in 1 .. L THEN e.groups[g] ELSE 0
      BY <1>1 DEF InitGroups
    <2> HIDE DEF b
    <2>2. \A g \in 1 .. L : g \in 0 .. 31
      BY <1>1
    <2>3. 0 \notin 1 .. L /\ 31 \notin 1 .. L /\ 0 \in 0 .. 31 /\ 31 \in 0 .. 31
      BY <1>1
    <2>4. ASSUME NEW g \in 0 .. 31 PROVE b[g] \in Nat
      <3>1. CASE g \in 1 .. L
        BY <1>1, <2>1, <3>1, Zenon
      <3>2. CASE g \notin 1 .. L
        <4>1. b[g] = 0
          BY <2>1, <3>2, Zenon
        <4> QED
          BY <4>1
      <3> QED
        BY <3>1, <3>2
    <2>5. b[0] = 0 /\ b[31] = 0
      BY <2>1, <2>3
    <2>6. \A g \in 1 .. L : b[g] = e.groups[g]
      BY <2>1, <2>2
    <2> QED
      BY <2>4, <2>5, <2>6
  <1>3. SumGroups(b) = F
    <2>1. b[LastGroup] = 0
      BY <1>1, <1>2
    <2> HIDE DEF b
    <2> QED
      BY <2>1 DEF SumGroups
  <1> HIDE DEF b, L, a
  <1>4. PICK f : Sums(b, 31, f) /\ f = [i \in 0 .. 31 |-> f[i]]
    <2>1. 31 \in Nat
      OBVIOUS
    <2> QED
      BY ONLY <2>1, SumsExist
  <1>5. f = Body(f)
    <2>1. \A i \in 0 .. 31 : f[i] \in Nat
      BY <1>2, <1>4, SumsAreNumbers
    <2>2. ASSUME NEW i \in 0 .. 31 PROVE f[i] = b[i] + (IF i = 0 THEN 0 ELSE f[i - 1])
      <3>1. CASE i = 0
        BY <1>2, <1>4, <3>1 DEF Sums
      <3>2. CASE i # 0
        <4>1. i \in 1 .. 31 /\ i - 1 \in 0 .. 31
          BY <3>2
        <4>2. f[i] = f[i - 1] + b[i] /\ f[i - 1] \in Nat /\ b[i] \in Nat
          BY <1>2, <1>4, <2>1, <4>1 DEF Sums
        <4> QED
          BY <3>2, <4>2
      <3> QED
        BY <3>1, <3>2
    <2> QED
      BY <1>1, <1>4, <2>2
  <1>6. F = Body(F)
    BY <1>5, Zenon
  <1>7. DOMAIN F = 0 .. 31 /\ \A i \in 0 .. 31 : F[i] = b[i] + (IF i = 0 THEN 0 ELSE F[i - 1])
    <2> HIDE DEF F
    <2> QED
      BY <1>1, <1>6
  <1> HIDE DEF F
  <1>8. \A i \in 0 .. 31 : F[i] \in Nat
    <2> DEFINE T == {m \in Nat : m <= 31 /\ F[m] \notin Nat}
    <2>1. ASSUME T # {} PROVE FALSE
      <3>1. PICK m \in T : \A k \in T : m <= k
        <4> HIDE DEF T
        <4>1. T \subseteq Nat
          BY DEF T
        <4> QED
          BY <2>1, <4>1, LeastNumber
      <3>2. m \in Nat /\ m <= 31 /\ F[m] \notin Nat /\ m \in 0 .. 31
        OBVIOUS
      <3>3. m # 0
        BY <1>2, <1>7, <3>2
      <3>4. m - 1 \in Nat /\ m - 1 <= 31 /\ m - 1 < m
        BY <3>2, <3>3
      <3>5. F[m - 1] \in Nat
        <4>1. m - 1 \notin T
          <5> HIDE DEF T
          <5> QED
            BY <3>1, <3>2, <3>4
        <4> QED
          BY <3>4, <4>1
      <3>6. F[m] = b[m] + F[m - 1] /\ b[m] \in Nat
        BY <1>2, <1>7, <3>2, <3>3
      <3> QED
        BY <3>2, <3>5, <3>6
    <2> QED
      BY <2>1
  <1>9. Sums(b, 31, F)
    <2>1. F[0] = b[0]
      BY <1>2, <1>7
    <2>2. ASSUME NEW i \in 1 .. 31 PROVE F[i] = F[i - 1] + b[i]
      <3>1. i \in 0 .. 31 /\ i - 1 \in 0 .. 31 /\ i # 0
        OBVIOUS
      <3>2. F[i] = b[i] + F[i - 1] /\ F[i - 1] \in Nat /\ b[i] \in Nat
        BY <1>2, <1>7, <1>8, <3>1
      <3> QED
        BY <3>2
    <2> QED
      BY <1>7, <2>1, <2>2 DEF Sums
  <1>10. Sums(a, L, Starts(e)) /\ \A i \in 0 .. L : Starts(e)[i] = GroupStart(e, i)
    BY GroupStarts DEF a, L, Starts
  <1>11. \A i \in 0 .. L : a[i] = b[i]
    <2>1. \A i \in 0 .. L : a[i] = IF i = 0 THEN 0 ELSE e.groups[i]
      BY DEF a, L, SizesBefore
    <2>2. \A i \in 0 .. L : i # 0 => i \in 1 .. L
      BY <1>1
    <2> QED
      BY <1>2, <2>1, <2>2
  <1>12. \A i \in 0 .. L : Starts(e)[i] = F[i]
    <2> DEFINE M == 31
    <2>1. L \in Nat /\ M \in Nat /\ L <= M
      BY <1>1
    <2>2. Sums(b, M, F)
      BY <1>9
    <2> HIDE DEF L, M, a, b, F
    <2> QED
      BY <1>10, <1>11, <2>1, <2>2, SumsAgree
  <1>13. F[31] # 0
    <2>1. 1 \in 0 .. 31 /\ 31 \in 0 .. 31 /\ 1 \in 1 .. 31 /\ 1 \in 1 .. L
      BY <1>1
    <2>2. F[1] <= F[31]
      <3>1. \A i \in 0 .. 31 : b[i] \in Nat
        BY <1>2
      <3>2. 31 \in Nat /\ 1 <= 31
        OBVIOUS
      <3> QED
        BY <1>9, <2>1, <3>1, <3>2, SumsGrow
    <2>3. F[1] = F[1 - 1] + b[1] /\ F[0] = b[0]
      BY <1>9, <2>1 DEF Sums
    <2> QED
      BY <1>1, <1>2, <1>8, <2>1, <2>2, <2>3
  <1> QED
    BY <1>1, <1>3, <1>10, <1>12, <1>13 DEF GroupsSummed, L, b

(* Later calls leave them as they are. *)
LEMMA SumAgain ==
  ASSUME NEW e, NEW groups, GroupsSummed(e, groups)
  PROVE  SumGroups(groups) = groups
  BY DEF GroupsSummed, SumGroups

-----------------------------------------------------------------------------
(* Tokens. *)

Tagged(g, n, mask) == - (n + g * 512) - mask

(* The token for a reference to the engine. *)
Token(x) ==
  CASE x.kind = "threaded" -> Tagged(x.group, x.n, Bit14)
    [] x.kind = "xt"       -> Tagged(x.group, x.n, 0)
    [] x.kind = "label"    -> Tagged(x.group, x.n, Bit15)
    [] x.kind = "doer"     -> -2 - x.n

(* Taking a token apart gives the group, the number in it, and the kind. *)
Parts(token, g, n, kind) ==
  /\ token \in Int /\ token < 0
  /\ ((-token) \div 512) % 32 = g /\ (-token) % 512 = n
  /\ Bit14Clear(token) <=> kind = "threaded"
  /\ Bit15Clear(token) <=> kind = "label"

LEMMA XtParts ==
  ASSUME NEW g \in 1 .. 30, NEW n \in 0 .. 511, NEW token, token = Tagged(g, n, 0)
  PROVE  Parts(token, g, n, "xt")
  BY DEF Parts, Tagged, Bit14, Bit15, Bit14Clear, Bit15Clear

LEMMA ThreadedParts ==
  ASSUME NEW g \in 1 .. 30, NEW n \in 0 .. 511, NEW token, token = Tagged(g, n, Bit14)
  PROVE  Parts(token, g, n, "threaded")
  BY DEF Parts, Tagged, Bit14, Bit15, Bit14Clear, Bit15Clear

LEMMA LabelParts ==
  ASSUME NEW g \in 1 .. 30, NEW n \in 0 .. 511, NEW token, token = Tagged(g, n, Bit15)
  PROVE  Parts(token, g, n, "label")
  BY DEF Parts, Tagged, Bit14, Bit15, Bit14Clear, Bit15Clear

LEMMA DoerParts ==
  ASSUME NEW n \in 0 .. 509
  PROVE  Parts(-2 - n, 0, n + 2, "doer") /\ CF(-2 - n) = n /\ -2 - n # CF_NIL
  BY DEF Parts, Bit14, Bit15, Bit14Clear, Bit15Clear, CF, CF_NIL

(* The token of an address has the section and the offset. *)
LEMMA AddressParts ==
  ASSUME NEW s \in Nat, NEW o \in Nat, o < SectionSize
  PROVE  /\ s * SectionSize + o \in Nat
         /\ (s * SectionSize + o) \div SectionSize = s
         /\ (s * SectionSize + o) % SectionSize = o
  BY ImageAssumption

LEMMA DivGrows ==
  ASSUME NEW d \in Nat \ {0}, NEW a \in Nat, NEW b \in Nat, a <= b
  PROVE  a \div d <= b \div d
  OBVIOUS

-----------------------------------------------------------------------------
(* Relocation of a reference to the engine. *)

EngineKinds == PrimKinds \cup {"doer"}

(* What a reference has to become, in engine e. *)
Becomes(r, e, x) ==
  /\ r.value = Meaning(e, <<>>, x)
  /\ r.compile <=> (x.kind = "threaded" /\ e.kind = "direct")

LEMMA RelocFields ==
  ASSUME NEW v, NEW k
  PROVE  Reloc(v, k).value = v /\ Reloc(v, k).compile = k
  BY DEF Reloc

LEMMA PrimBecomes ==
  ASSUME NEW e, IsEngine(e), NEW groups, GroupsSummed(e, groups),
         NEW g \in 1 .. Len(e.groups) - 1, NEW n \in Nat, n < e.groups[g + 1],
         NEW token, NEW kind \in PrimKinds, Parts(token, g, n, kind)
  PROVE  LET index == GroupStart(e, g) + n
             r == RelocPrim(e, groups, token)
         IN  /\ r.compile <=> kind = "threaded" /\ e.kind = "direct"
             /\ r.value = IF kind = "label" THEN e.labels + index
                          ELSE IF kind = "xt" /\ e.kind = "ditc" THEN e.xts + index
                          ELSE e.vm_prims + index + CFA_OFFSET
  <1> DEFINE L == Len(e.groups)
  <1>1. L \in Nat /\ L >= 2 /\ L <= 30
    BY EngineLength
  <1>2. g \in 0 .. L /\ g + 1 \in 0 .. L /\ g # 0 /\ g < LastGroup
    BY <1>1 DEF LastGroup
  <1>3. GroupFacts(e)
    BY GroupFactsHold
  <1>4. /\ groups[g] = GroupStart(e, g) /\ groups[g + 1] = GroupStart(e, g + 1)
        /\ GroupStart(e, g) \in Nat
        /\ GroupStart(e, g + 1) = GroupStart(e, g) + e.groups[g + 1]
    BY <1>2, <1>3 DEF GroupsSummed, GroupFacts
  <1>5. e.groups[g + 1] \in Nat
    <2>1. g + 1 \in 1 .. L
      BY <1>1
    <2> QED
      BY <2>1, EngineLength
  <1>6. n < groups[g + 1] - groups[g]
    BY <1>4, <1>5
  <1>7. ((-token) \div 512) % 32 = g /\ (-token) % 512 = n /\ (Bit14Clear(token) <=> kind = "threaded")
          /\ (Bit15Clear(token) <=> kind = "label")
    BY DEF Parts
  <1>8. RelocPrim(e, groups, token) = RelocIndex(e, groups[g] + n, Bit14Clear(token), Bit15Clear(token))
    <2> DEFINE group == ((-token) \div 512) % 32
               tok == (-token) % 512
               R(k) == RelocIndex(e, k, Bit14Clear(token), Bit15Clear(token))
    <2>1. RelocPrim(e, groups, token) =
            IF group = 0 THEN RelocCF(e, token)
            ELSE IF group < LastGroup /\ tok < groups[group + 1] - groups[group]
            THEN R(groups[group] + tok) ELSE Reloc(token, FALSE)
      BY Zenon DEF RelocPrim
    <2>2. group = g /\ tok = n
      BY <1>7
    <2> HIDE DEF R, group, tok
    <2>3. RelocPrim(e, groups, token) = R(groups[g] + n)
      BY <1>2, <1>6, <2>1, <2>2
    <2> QED
      BY <2>3 DEF R
  <1> HIDE DEF L
  <1> DEFINE index == GroupStart(e, g) + n
  <1>9. RelocPrim(e, groups, token) = RelocIndex(e, index, kind = "threaded", kind = "label")
    <2>1. Bit14Clear(token) = (kind = "threaded")
      BY <1>7 DEF Bit14Clear
    <2>2. Bit15Clear(token) = (kind = "label")
      BY <1>7 DEF Bit15Clear
    <2> QED
      BY <1>4, <1>8, <2>1, <2>2, Zenon
  <1> HIDE DEF index
  <1>10. CASE kind = "label"
    <2>1. RelocIndex(e, index, kind = "threaded", kind = "label") = Reloc(e.labels + index, FALSE)
      BY <1>10 DEF RelocIndex
    <2> QED
      BY <1>9, <1>10, <2>1 DEF Reloc, index
  <1>11. CASE kind = "xt"
    <2>1. RelocIndex(e, index, kind = "threaded", kind = "label") =
            Reloc(IF e.kind = "ditc" THEN e.xts + index ELSE e.vm_prims + index + CFA_OFFSET, FALSE)
      BY <1>11 DEF RelocIndex, CFA
    <2> QED
      BY <1>9, <1>11, <2>1 DEF Reloc, index
  <1>12. CASE kind = "threaded"
    <2>1. RelocIndex(e, index, kind = "threaded", kind = "label") =
            Reloc(e.vm_prims + index + CFA_OFFSET, e.kind = "direct")
      BY <1>12 DEF RelocIndex, CFA
    <2>2. /\ RelocPrim(e, groups, token).value = e.vm_prims + index + CFA_OFFSET
          /\ RelocPrim(e, groups, token).compile = (e.kind = "direct")
      <3> DEFINE v == e.vm_prims + index + CFA_OFFSET
                 k == e.kind = "direct"
      <3>1. RelocPrim(e, groups, token) = Reloc(v, k)
        BY <1>9, <2>1, Zenon
      <3> HIDE DEF v, k
      <3>2. RelocPrim(e, groups, token).value = v /\ RelocPrim(e, groups, token).compile = k
        BY <3>1, RelocFields
      <3> QED
        BY <3>2 DEF v, k
    <2> QED
      BY <1>12, <2>2 DEF index
  <1> QED
    BY <1>10, <1>11, <1>12 DEF PrimKinds

LEMMA DoerBecomes ==
  ASSUME NEW e, IsEngine(e), NEW groups, NEW n \in 0 .. DOER_MAX
  PROVE  LET r == RelocPrim(e, groups, -2 - n)
         IN  /\ r.compile = FALSE
             /\ r.value = IF e.kind = "ditc" THEN e.xts + n ELSE e.labels + n
  <1> DEFINE t == -2 - n
  <1>1. DOER_MAX \in Nat /\ n \in 0 .. 509
    BY ImageAssumption
  <1>2. Parts(t, 0, n + 2, "doer") /\ CF(t) = n /\ t # CF_NIL
    BY <1>1, DoerParts
  <1>3. ((-t) \div 512) % 32 = 0 /\ ~Bit14Clear(t)
    BY <1>2 DEF Parts
  <1>4. n < NPrims(e)
    <2> DEFINE L == Len(e.groups)
    <2>1. L \in Nat /\ L >= 2
      BY EngineLength
    <2>2. GroupFacts(e)
      BY GroupFactsHold
    <2>3. 1 \in 0 .. L /\ L \in 0 .. L /\ 1 <= L
      BY <2>1
    <2>4. GroupStart(e, 1) = DOER_MAX + 1 /\ GroupStart(e, 1) <= GroupStart(e, L) /\ GroupStart(e, L) \in Nat
      BY <2>2, <2>3 DEF GroupFacts
    <2> QED
      BY <1>1, <2>4 DEF NPrims
  <1> HIDE DEF t
  <1>5. RelocPrim(e, groups, t) = RelocCF(e, t)
    BY <1>3 DEF RelocPrim
  <1>6. RelocCF(e, t) = IF e.kind # "ditc" THEN Reloc(e.labels + n, FALSE) ELSE Reloc(e.xts + n, FALSE)
    <2>1. CASE e.kind # "ditc"
      <3>1. CF(t) \in 0 .. DOER_MAX
        BY <1>2
      <3>2. RelocCF(e, t) = Reloc(e.labels + CF(t), FALSE)
        BY <1>2, <1>3, <2>1, <3>1 DEF RelocCF
      <3> QED
        BY <1>2, <2>1, <3>2
    <2>2. CASE e.kind = "ditc"
      <3>1. CF(t) < NPrims(e)
        BY <1>2, <1>4
      <3>2. RelocCF(e, t) = Reloc(CFA(e, CF(t), Bit14Clear(t)), e.kind = "direct" /\ Bit14Clear(t))
        <4> DEFINE t4 == IF Bit14Clear(t) THEN t + Bit14 ELSE t
                   R == Reloc(CFA(e, CF(t4), Bit14Clear(t)), e.kind = "direct" /\ Bit14Clear(t))
        <4>1. RelocCF(e, t) =
                IF t4 = CF_NIL THEN Reloc(0, FALSE)
                ELSE IF e.kind # "ditc" /\ CF(t4) \in 0 .. DOER_MAX
                     THEN Reloc(e.labels + CF(t), FALSE)
                ELSE IF CF(t4) < NPrims(e) THEN R ELSE Reloc(t, FALSE)
          BY DEF RelocCF
        <4>2. t4 = t
          BY <1>3
        <4> HIDE DEF R, t4
        <4>3. RelocCF(e, t) = R
          BY <1>2, <2>2, <3>1, <4>1, <4>2
        <4> QED
          BY <4>2, <4>3, Zenon DEF R
      <3>3. CFA(e, CF(t), Bit14Clear(t)) = e.xts + n
        BY <1>2, <1>3, <2>2 DEF CFA
      <3>4. (e.kind = "direct" /\ Bit14Clear(t)) = FALSE
        BY <2>2
      <3> QED
        BY <2>2, <3>2, <3>3, <3>4, Zenon
    <2> QED
      BY <2>1, <2>2
  <1>7. RelocPrim(e, groups, -2 - n) =
          IF e.kind # "ditc" THEN Reloc(e.labels + n, FALSE) ELSE Reloc(e.xts + n, FALSE)
    BY <1>5, <1>6 DEF t
  <1> QED
    BY <1>7 DEF Reloc

(* The engine has what the cell refers to. *)
InEngine(e, x) ==
  /\ x \in Content
  /\ x.kind \in PrimKinds =>
       x.group \in 1 .. Len(e.groups) - 1 /\ x.n < e.groups[x.group + 1]
  /\ x.kind = "doer" => x.n <= DOER_MAX

LEMMA PrimContent ==
  ASSUME NEW x \in Content, x.kind \in PrimKinds
  PROVE  x.group \in Nat /\ x.n \in Nat
  BY DEF Content, PrimKinds

LEMMA DoerContent ==
  ASSUME NEW x \in Content, x.kind = "doer"
  PROVE  x.n \in Nat
  BY DEF Content, PrimKinds

LEMMA AddrContent ==
  ASSUME NEW x \in Content, x.kind = "addr"
  PROVE  x.sect \in Nat /\ x.offset \in Nat
  BY DEF Content, PrimKinds

LEMMA DataContent ==
  ASSUME NEW x \in Content, x.kind = "data"
  PROVE  x.n \in Int
  BY DEF Content, PrimKinds

LEMMA KindsOfContent ==
  ASSUME NEW x \in Content
  PROVE  x.kind \in {"data", "null", "addr"} \cup EngineKinds
  BY DEF Content, PrimKinds, EngineKinds

LEMMA MeaningOfPrim ==
  ASSUME NEW e, NEW at, NEW x
  PROVE  LET index == GroupStart(e, x.group) + x.n IN
         /\ x.kind = "threaded" => Meaning(e, at, x) = e.vm_prims + index + CFA_OFFSET
         /\ x.kind = "xt" => Meaning(e, at, x) = IF e.kind = "ditc" THEN e.xts + index
                                                ELSE e.vm_prims + index + CFA_OFFSET
         /\ x.kind = "label" => Meaning(e, at, x) = e.labels + index
         /\ x.kind = "doer" => Meaning(e, at, x) = IF e.kind = "ditc" THEN e.xts + x.n
                                                  ELSE e.labels + x.n
  BY DEF Meaning

LEMMA MeaningOfOther ==
  ASSUME NEW e, NEW at, NEW x
  PROVE  /\ x.kind = "data" => Meaning(e, at, x) = x.n
         /\ x.kind = "null" => Meaning(e, at, x) = 0
         /\ x.kind = "addr" => Meaning(e, at, x) = at[x.sect + 1] + x.offset
  BY DEF Meaning

LEMMA TokenOf ==
  ASSUME NEW x
  PROVE  /\ x.kind = "threaded" => Token(x) = Tagged(x.group, x.n, Bit14)
         /\ x.kind = "xt" => Token(x) = Tagged(x.group, x.n, 0)
         /\ x.kind = "label" => Token(x) = Tagged(x.group, x.n, Bit15)
         /\ x.kind = "doer" => Token(x) = -2 - x.n
  BY DEF Token, Tagged, Bit14, Bit15

(* A token becomes what the cell stood for when the image was made. *)
LEMMA TokenBecomes ==
  ASSUME NEW e, IsEngine(e), NEW groups, GroupsSummed(e, groups),
         NEW x, InEngine(e, x), x.kind \in EngineKinds
  PROVE  /\ Token(x) \in Int /\ Token(x) < 0
         /\ Becomes(RelocPrim(e, groups, Token(x)), e, x)
  <1>1. CASE x.kind = "doer"
    <2>1. x.n \in 0 .. DOER_MAX /\ DOER_MAX \in Nat
      BY <1>1, DoerContent, ImageAssumption DEF InEngine
    <2>2. Token(x) = -2 - x.n
      BY <1>1, TokenOf
    <2> DEFINE r == RelocPrim(e, groups, -2 - x.n)
    <2>3. /\ r.compile = FALSE
          /\ r.value = IF e.kind = "ditc" THEN e.xts + x.n ELSE e.labels + x.n
      BY <2>1, DoerBecomes
    <2>4. Meaning(e, <<>>, x) = IF e.kind = "ditc" THEN e.xts + x.n ELSE e.labels + x.n
      BY <1>1, MeaningOfPrim
    <2> HIDE DEF r
    <2>5. Becomes(r, e, x)
      BY <1>1, <2>3, <2>4 DEF Becomes
    <2> QED
      BY <2>1, <2>2, <2>5 DEF r
  <1>2. CASE x.kind \in PrimKinds
    <2> DEFINE g == x.group
               n == x.n
               r == RelocPrim(e, groups, Token(x))
               index == GroupStart(e, g) + n
    <2>1. /\ g \in 1 .. Len(e.groups) - 1 /\ n \in Nat /\ n < e.groups[g + 1]
      BY <1>2, PrimContent DEF InEngine
    <2>2. g \in 1 .. 30 /\ n \in 0 .. 511
      <3>1. Len(e.groups) \in Nat /\ Len(e.groups) <= 30
        BY EngineLength
      <3>2. g \in Nat /\ g + 1 \in 1 .. Len(e.groups) /\ g >= 1 /\ g <= 30
        BY <2>1, <3>1
      <3>3. e.groups[g + 1] \in Nat /\ e.groups[g + 1] <= 512
        BY <3>2, EngineLength
      <3> HIDE DEF g, n
      <3> QED
        BY <2>1, <3>2, <3>3
    <2> HIDE DEF g, n, r
    <2>3. CASE x.kind = "threaded"
      <3>1. Parts(Token(x), g, n, "threaded")
        <4>1. Token(x) = Tagged(g, n, Bit14)
          BY <2>3, TokenOf DEF g, n
        <4> QED
          BY <2>2, <4>1, ThreadedParts, Zenon
      <3>2. /\ r.compile <=> e.kind = "direct"
            /\ r.value = e.vm_prims + index + CFA_OFFSET
        BY <2>1, <3>1, PrimBecomes DEF r, PrimKinds
      <3>3. Meaning(e, <<>>, x) = e.vm_prims + index + CFA_OFFSET
        BY <2>3, MeaningOfPrim DEF g, n
      <3>4. Becomes(r, e, x)
        BY <2>3, <3>2, <3>3, Zenon DEF Becomes
      <3> QED
        BY <3>1, <3>4 DEF Parts, r
    <2>4. CASE x.kind = "xt"
      <3>1. Parts(Token(x), g, n, "xt")
        <4>1. Token(x) = Tagged(g, n, 0)
          BY <2>4, TokenOf DEF g, n
        <4> QED
          BY <2>2, <4>1, XtParts, Zenon
      <3>2. /\ r.compile <=> FALSE
            /\ r.value = IF e.kind = "ditc" THEN e.xts + index ELSE e.vm_prims + index + CFA_OFFSET
        <4>1. PICK kind \in PrimKinds : kind = "xt" /\ Parts(Token(x), g, n, kind)
          BY <3>1 DEF PrimKinds
        <4>2. /\ r.compile <=> kind = "threaded" /\ e.kind = "direct"
              /\ r.value = IF kind = "label" THEN e.labels + index
                           ELSE IF kind = "xt" /\ e.kind = "ditc" THEN e.xts + index
                           ELSE e.vm_prims + index + CFA_OFFSET
          BY <2>1, <4>1, PrimBecomes DEF r
        <4> QED
          BY <4>1, <4>2
      <3>3. Meaning(e, <<>>, x) = IF e.kind = "ditc" THEN e.xts + index ELSE e.vm_prims + index + CFA_OFFSET
        BY <2>4, MeaningOfPrim DEF g, n
      <3>4. Becomes(r, e, x)
        BY <2>4, <3>2, <3>3 DEF Becomes
      <3> QED
        BY <3>1, <3>4 DEF Parts, r
    <2>5. CASE x.kind = "label"
      <3>1. Parts(Token(x), g, n, "label")
        <4>1. Token(x) = Tagged(g, n, Bit15)
          BY <2>5, TokenOf DEF g, n
        <4> QED
          BY <2>2, <4>1, LabelParts, Zenon
      <3>2. /\ r.compile <=> FALSE
            /\ r.value = e.labels + index
        BY <2>1, <3>1, PrimBecomes DEF r, PrimKinds
      <3>3. Meaning(e, <<>>, x) = e.labels + index
        BY <2>5, MeaningOfPrim DEF g, n
      <3>4. Becomes(r, e, x)
        BY <2>5, <3>2, <3>3 DEF Becomes
      <3> QED
        BY <3>1, <3>4 DEF Parts, r
    <2> QED
      BY <1>2, <2>3, <2>4, <2>5 DEF PrimKinds
  <1> QED
    BY <1>1, <1>2 DEF EngineKinds

-----------------------------------------------------------------------------
(* Relocation of a section. *)

(* A cell of an image, in section s, that stands for x when engine e loads *)
(* it: an image that is not relocatable has the references to the engine   *)
(* as they are.                                                            *)
Encoded(e, bases, s, x, cell) ==
  /\ x.kind = "data" => cell = Cell(x.n, FALSE)
  /\ x.kind = "null" => cell = Cell(0, TRUE) /\ bases[s] > 0
  /\ x.kind = "addr" =>
       /\ cell = Cell(x.sect * SectionSize + (bases[x.sect + 1] + x.offset), TRUE)
       /\ bases[x.sect + 1] \in Nat /\ bases[x.sect + 1] + x.offset < SectionSize
       /\ cell.tok >= bases[s]
  /\ x.kind \in EngineKinds =>
       \/ cell = Cell(Token(x), TRUE) /\ InEngine(e, x)
       \/ cell = Cell(Meaning(e, <<>>, x), FALSE) /\ e.kind = "ditc"

(* What gforth_relocate_range does with one cell. *)
LEMMA RangeCells ==
  ASSUME NEW e, NEW groups, NEW at, NEW bases, NEW cells, NEW s, NEW i \in DOMAIN cells
  PROVE  gforth_relocate_range(e, groups, at, bases, cells, s).cells[i] =
           IF cells[i].tagged /\ cells[i].tok < 0 THEN RelocPrim(e, groups, cells[i].tok).value
           ELSE IF cells[i].tagged /\ cells[i].tok >= bases[s] THEN RelocAddr(at, bases, cells[i].tok)
           ELSE cells[i].tok
  BY DEF gforth_relocate_range

LEMMA RangeDomain ==
  ASSUME NEW e, NEW groups, NEW at, NEW bases, NEW cells, NEW s
  PROVE  DOMAIN gforth_relocate_range(e, groups, at, bases, cells, s).cells = DOMAIN cells
  BY DEF gforth_relocate_range

LEMMA RangeCompile ==
  ASSUME NEW e, NEW groups, NEW at, NEW bases, NEW cells, NEW s, NEW i \in DOMAIN cells
  PROVE  i \in gforth_relocate_range(e, groups, at, bases, cells, s).compile
           <=> cells[i].tagged /\ cells[i].tok < 0 /\ RelocPrim(e, groups, cells[i].tok).compile
  BY DEF gforth_relocate_range

LEMMA RangeTargets ==
  ASSUME NEW e, NEW groups, NEW at, NEW bases, NEW cells, NEW s, NEW i \in DOMAIN cells,
         cells[i].tagged, ~(cells[i].tok < 0), cells[i].tok >= bases[s],
         cells[i].tok \div SectionSize = s - 1,
         NEW b, b = cells[i].tok - ((s - 1) * SectionSize + bases[s]),
         b \div RELINFOBITS < (Len(cells) - 1) \div RELINFOBITS + 1
  PROVE  b \in gforth_relocate_range(e, groups, at, bases, cells, s).targets
  BY DEF gforth_relocate_range


(* What LoadedRight says of a cell that stands for x. *)
CellRight(e, at, s, x, m, i, n) ==
  /\ m.cells[i] = Meaning(e, at, x)
  /\ i \in m.compile <=> (x.kind = "threaded" /\ e.kind = "direct")
  /\ x.kind = "addr" /\ x.sect = s - 1 /\ x.offset < n => x.offset \in m.targets

LEMMA MeaningAnywhere ==
  ASSUME NEW e, NEW at, NEW x, x.kind \in EngineKinds
  PROVE  Meaning(e, at, x) = Meaning(e, <<>>, x)
  BY MeaningOfPrim DEF EngineKinds, PrimKinds

LEMMA RangeRight ==
  ASSUME NEW e, IsEngine(e), NEW groups, GroupsSummed(e, groups),
         NEW at, NEW bases, NEW cells, NEW s \in Nat \ {0}, bases[s] \in Nat,
         Len(cells) \in Nat, DOMAIN cells = 1 .. Len(cells),
         NEW i \in DOMAIN cells, NEW x \in Content,
         x.kind = "addr" => at[x.sect + 1] \in Int,
         Encoded(e, bases, s, x, cells[i])
  PROVE  CellRight(e, at, s, x, gforth_relocate_range(e, groups, at, bases, cells, s), i, Len(cells))
  <1> DEFINE m == gforth_relocate_range(e, groups, at, bases, cells, s)
             t == cells[i].tok
  <1>1. m.cells[i] = IF cells[i].tagged /\ t < 0 THEN RelocPrim(e, groups, t).value
                     ELSE IF cells[i].tagged /\ t >= bases[s] THEN RelocAddr(at, bases, t)
                     ELSE t
    BY RangeCells
  <1>2. i \in m.compile <=> cells[i].tagged /\ t < 0 /\ RelocPrim(e, groups, t).compile
    BY RangeCompile
  <1> HIDE DEF m, t
  <1> SUFFICES CellRight(e, at, s, x, m, i, Len(cells))
    BY DEF m
  <1>3. CASE x.kind = "data"
    <2>1. cells[i].tagged = FALSE /\ t = x.n
      BY <1>3 DEF Encoded, Cell, t
    <2> QED
      BY <1>1, <1>2, <1>3, <2>1, MeaningOfOther DEF CellRight
  <1>4. CASE x.kind = "null"
    <2>1. t = 0 /\ bases[s] > 0
      BY <1>4 DEF Encoded, Cell, t
    <2>2. ~(t < 0) /\ ~(t >= bases[s])
      BY <2>1
    <2> QED
      BY <1>1, <1>2, <1>4, <2>1, <2>2, MeaningOfOther DEF CellRight
  <1>5. CASE x.kind = "addr"
    <2> DEFINE sect == x.sect
               b == bases[x.sect + 1]
               o == x.offset
    <2>1. /\ cells[i].tagged = TRUE /\ t = sect * SectionSize + (b + o)
          /\ b \in Nat /\ b + o < SectionSize /\ t >= bases[s]
      BY <1>5 DEF Encoded, Cell, t
    <2>2. sect \in Nat /\ o \in Nat /\ at[sect + 1] \in Int
      BY <1>5, AddrContent
    <2> HIDE DEF sect, b, o
    <2>3. b + o \in Nat
      BY <2>1, <2>2
    <2>4. t \in Nat /\ t \div SectionSize = sect /\ t % SectionSize = b + o
      BY <2>1, <2>2, <2>3, AddressParts
    <2>5. ~(t < 0)
      BY <2>4
    <2>6. m.cells[i] = RelocAddr(at, bases, t)
      BY <1>1, <2>1, <2>5
    <2>7. RelocAddr(at, bases, t) = at[sect + 1] - b + (b + o)
      BY <2>4 DEF RelocAddr, b, sect
    <2>8. m.cells[i] = at[sect + 1] + o
      BY <2>1, <2>2, <2>6, <2>7
    <2>9. Meaning(e, at, x) = at[sect + 1] + o
      BY <1>5, MeaningOfOther DEF sect, o
    <2>10. ASSUME sect = s - 1, o < Len(cells) PROVE o \in m.targets
      <3>1. t \div SectionSize = s - 1 /\ bases[s] = b /\ SectionSize \in Nat
        BY <2>4, <2>10, ImageAssumption DEF b, sect
      <3>2. o = t - ((s - 1) * SectionSize + bases[s])
        <4>1. (s - 1) * SectionSize \in Int
          BY <3>1
        <4> QED
          BY <2>1, <2>2, <2>10, <3>1, <4>1
      <3>3. o \div RELINFOBITS < (Len(cells) - 1) \div RELINFOBITS + 1
        <4>1. RELINFOBITS \in Nat \ {0} /\ Len(cells) - 1 \in Nat /\ o <= Len(cells) - 1
          BY <2>2, <2>10, ImageAssumption
        <4>2. o \div RELINFOBITS <= (Len(cells) - 1) \div RELINFOBITS
          BY <2>2, <4>1, DivGrows
        <4>3. o \div RELINFOBITS \in Int /\ (Len(cells) - 1) \div RELINFOBITS \in Int
          BY <2>2, <4>1
        <4> QED
          BY <4>2, <4>3
      <3> QED
        BY <2>1, <2>5, <3>1, <3>2, <3>3, RangeTargets DEF m, t
    <2>11. i \notin m.compile
      BY <1>2, <2>5
    <2> QED
      BY <1>5, <2>8, <2>9, <2>10, <2>11 DEF CellRight, sect, o
  <1>6. CASE x.kind \in EngineKinds
    <2>0. x.kind # "addr"
      BY <1>6 DEF EngineKinds, PrimKinds
    <2>1. CASE cells[i] = Cell(Token(x), TRUE) /\ InEngine(e, x)
      <3>1. cells[i].tagged = TRUE /\ t = Token(x)
        BY <2>1 DEF Cell, t
      <3>2. t \in Int /\ t < 0 /\ Becomes(RelocPrim(e, groups, t), e, x)
        BY <1>6, <2>1, <3>1, TokenBecomes
      <3>3. m.cells[i] = RelocPrim(e, groups, t).value
              /\ (i \in m.compile <=> RelocPrim(e, groups, t).compile)
        BY <1>1, <1>2, <3>1, <3>2
      <3> QED
        BY <1>6, <2>0, <3>2, <3>3, MeaningAnywhere, Zenon DEF Becomes, CellRight
    <2>2. CASE cells[i] = Cell(Meaning(e, <<>>, x), FALSE) /\ e.kind = "ditc"
      <3>1. cells[i].tagged = FALSE /\ t = Meaning(e, <<>>, x)
        BY <2>2 DEF Cell, t
      <3>2. m.cells[i] = Meaning(e, at, x) /\ i \notin m.compile
        BY <1>1, <1>2, <1>6, <3>1, MeaningAnywhere
      <3>3. e.kind # "direct"
        BY <2>2
      <3> QED
        BY <2>0, <3>2, <3>3 DEF CellRight
    <2> QED
      BY <1>6, <2>1, <2>2 DEF Encoded
  <1> QED
    BY <1>3, <1>4, <1>5, <1>6, KindsOfContent, Zenon

-----------------------------------------------------------------------------
(* comp-image *)

(* The index of a primitive. *)
LEMMA IndexRange ==
  ASSUME NEW e, IsEngine(e), NEW g \in 1 .. Len(e.groups) - 1, NEW n \in Nat, n < e.groups[g + 1]
  PROVE  /\ GroupStart(e, g) \in Nat /\ NPrims(e) \in Nat
         /\ GroupStart(e, g) + n > DOER_MAX
         /\ GroupStart(e, g) + n < GroupStart(e, g + 1)
         /\ GroupStart(e, g) + n < NPrims(e)
  <1> DEFINE L == Len(e.groups)
  <1>1. L \in Nat /\ DOER_MAX \in Nat
    BY EngineLength, ImageAssumption
  <1>2. g \in 0 .. L /\ g + 1 \in 0 .. L /\ 1 \in 0 .. L /\ L \in 0 .. L /\ 1 <= g /\ g + 1 <= L
    BY <1>1
  <1>3. GroupFacts(e)
    BY GroupFactsHold
  <1>4. e.groups[g + 1] \in Nat
    <2>1. g + 1 \in 1 .. L
      BY <1>1
    <2> QED
      BY <2>1, EngineLength
  <1>5. /\ GroupStart(e, g) \in Nat /\ GroupStart(e, L) \in Nat /\ GroupStart(e, g + 1) \in Nat
        /\ GroupStart(e, 1) = DOER_MAX + 1 /\ GroupStart(e, 1) <= GroupStart(e, g)
        /\ GroupStart(e, g + 1) = GroupStart(e, g) + e.groups[g + 1]
        /\ GroupStart(e, g + 1) <= GroupStart(e, L)
    BY <1>2, <1>3 DEF GroupFacts
  <1>6. NPrims(e) = GroupStart(e, L)
    BY DEF NPrims
  <1> DEFINE a == GroupStart(e, g)
             b == GroupStart(e, g + 1)
             z == GroupStart(e, L)
             k == e.groups[g + 1]
  <1>7. a \in Nat /\ z \in Nat /\ a + n > DOER_MAX /\ a + n < b /\ a + n < z
    <2>1. /\ a \in Nat /\ z \in Nat /\ b \in Nat /\ k \in Nat
          /\ DOER_MAX + 1 <= a /\ b = a + k /\ b <= z /\ n < k
      BY <1>4, <1>5
    <2> HIDE DEF a, b, z, k
    <2> QED
      BY <1>1, <2>1
  <1> QED
    BY <1>6, <1>7

(* >tag of an index gives the group and the number in it. *)
LEMMA TagOfPrim ==
  ASSUME NEW e, IsEngine(e), NEW g \in 1 .. Len(e.groups) - 1, NEW n \in Nat, n < e.groups[g + 1],
         NEW index, index = GroupStart(e, g) + n
  PROVE  Tag(e, index) = Tagged(g, n, 0)
  <1> DEFINE L == Len(e.groups)
             In(i) == GroupStart(e, i) <= index /\ index < GroupStart(e, i + 1)
             h == CHOOSE i \in 1 .. L - 1 : In(i)
  <1>1. L \in Nat /\ DOER_MAX \in Nat
    BY EngineLength, ImageAssumption
  <1>2. GroupStart(e, g) \in Nat /\ index > DOER_MAX /\ index < GroupStart(e, g + 1)
    BY IndexRange
  <1>3. In(g)
    BY <1>2
  <1>4. h \in 1 .. L - 1 /\ In(h)
    BY <1>3
  <1>5. Tag(e, index) = - (index - GroupStart(e, h) + h * 512)
    BY <1>2 DEF Tag
  <1> HIDE DEF h, L
  <1>6. GroupFacts(e)
    BY GroupFactsHold
  <1>7. /\ g \in 0 .. L /\ g + 1 \in 0 .. L /\ h \in 0 .. L /\ h + 1 \in 0 .. L
        /\ g \in Nat /\ h \in Nat
    BY <1>1, <1>4 DEF L
  <1>8. /\ GroupStart(e, g) \in Nat /\ GroupStart(e, h) \in Nat
        /\ GroupStart(e, g + 1) \in Nat /\ GroupStart(e, h + 1) \in Nat
    BY <1>6, <1>7 DEF GroupFacts, L
  <1>9. ~(g < h)
    <2>1. g < h => GroupStart(e, g + 1) <= GroupStart(e, h)
      <3>1. g < h => g + 1 <= h
        BY <1>7
      <3> QED
        BY <1>6, <1>7, <3>1 DEF GroupFacts, L
    <2> QED
      BY <1>2, <1>4, <1>8, <2>1
  <1>10. ~(h < g)
    <2>1. h < g => GroupStart(e, h + 1) <= GroupStart(e, g)
      <3>1. h < g => h + 1 <= g
        BY <1>7
      <3> QED
        BY <1>6, <1>7, <3>1 DEF GroupFacts, L
    <2> QED
      BY <1>3, <1>4, <1>8, <2>1
  <1>11. h = g
    BY <1>7, <1>9, <1>10
  <1> QED
    BY <1>5, <1>7, <1>8, <1>11 DEF Tagged

(* A dump of a system of N sections of these sizes. *)
IsDump(d, sizes, N) ==
  /\ IsEngine(d.e) /\ d.e.kind = "ditc"
  /\ d.at \in Seq(Int) /\ Len(d.at) = N /\ DOMAIN sizes = 1 .. N
  /\ \A t \in 1 .. N : sizes[t] \in Nat
  /\ Apart(d, sizes)

(* The section that an address is in. *)
LEMMA InSection ==
  ASSUME NEW d, NEW sizes, NEW N \in Nat, IsDump(d, sizes, N),
         NEW s \in 1 .. N, NEW o \in Nat, o <= sizes[s]
  PROVE  sect_reloc(d.at, sizes, d.at[s] + o) = (s - 1) * SectionSize + o
  <1> DEFINE at == d.at
             x == at[s] + o
             in == {t \in DOMAIN at : at[t] <= x /\ x <= at[t] + sizes[t]}
             h == CHOOSE i \in in : \A j \in in : i <= j
  <1>1. DOMAIN at = 1 .. N /\ \A t \in 1 .. N : at[t] \in Int
    <2>1. d.at \in Seq(Int) /\ Len(d.at) = N
      BY DEF IsDump
    <2> QED
      BY <2>1, LenProperties, ElementOfSeq, Zenon
  <1>0. DOMAIN sizes = 1 .. N /\ \A t \in 1 .. N : sizes[t] \in Nat
    BY DEF IsDump
  <1>2. \A t, u \in 1 .. N : t < u => at[t] + sizes[t] < at[u] \/ at[u] + sizes[u] < at[t]
    BY <1>0 DEF IsDump, Apart
  <1> HIDE DEF at
  <1>3. s \in in
    BY <1>0, <1>1
  <1>4. ASSUME NEW t \in in PROVE t = s
    <2>1. t \in 1 .. N /\ at[t] <= x /\ x <= at[t] + sizes[t]
      BY <1>1
    <2>2. at[t] \in Int /\ at[s] \in Int /\ sizes[t] \in Nat /\ sizes[s] \in Nat
      BY <1>0, <1>1, <2>1
    <2> HIDE DEF in
    <2>3. ASSUME t < s PROVE FALSE
      <3>1. at[t] + sizes[t] < at[s] \/ at[s] + sizes[s] < at[t]
        BY <1>2, <2>1, <2>3
      <3> QED
        BY <2>1, <2>2, <3>1
    <2>4. ASSUME s < t PROVE FALSE
      <3>1. at[s] + sizes[s] < at[t] \/ at[t] + sizes[t] < at[s]
        BY <1>2, <2>1, <2>4
      <3> QED
        BY <2>1, <2>2, <3>1
    <2> QED
      BY <2>1, <2>3, <2>4
  <1>5. in = {s}
    BY <1>3, <1>4
  <1>6. h = s
    <2> HIDE DEF in
    <2> QED
      BY <1>5
  <1>7. sect_reloc(at, sizes, x) = (h - 1) * SectionSize + x - at[h]
    <2>1. in # {}
      BY <1>3
    <2> QED
      BY <2>1 DEF sect_reloc
  <1>8. (s - 1) * SectionSize \in Int /\ at[s] \in Int
    BY <1>1, ImageAssumption
  <1>9. sect_reloc(at, sizes, x) = (s - 1) * SectionSize + o
    <2> HIDE DEF h, in
    <2> QED
      BY <1>6, <1>7, <1>8
  <1> QED
    BY <1>9 DEF at

(* An address in the tables of the engine is in no section. *)
LEMMA InTables ==
  ASSUME NEW d, NEW sizes, NEW N \in Nat, IsDump(d, sizes, N), NPrims(d.e) \in Nat,
         NEW table \in {d.e.vm_prims, d.e.xts, d.e.labels}, table \in Int,
         NEW k \in Nat, k <= NPrims(d.e) + CFA_OFFSET,
         NEW x, x = table + k
  PROVE  sect_reloc(d.at, sizes, x) = x
  <1> DEFINE at == d.at
             in == {t \in DOMAIN at : at[t] <= x /\ x <= at[t] + sizes[t]}
  <1>1. DOMAIN at = 1 .. N /\ \A t \in 1 .. N : at[t] \in Int
    <2>1. d.at \in Seq(Int) /\ Len(d.at) = N
      BY DEF IsDump
    <2> QED
      BY <2>1, LenProperties, ElementOfSeq, Zenon
  <1>0. DOMAIN sizes = 1 .. N /\ \A t \in 1 .. N : sizes[t] \in Nat
    BY DEF IsDump
  <1>2. \A t \in 1 .. N : table + NPrims(d.e) + CFA_OFFSET < at[t] \/ at[t] + sizes[t] < table
    BY <1>0 DEF IsDump, Apart
  <1>3. in = {}
    <2> SUFFICES ASSUME NEW t \in 1 .. N, at[t] <= x, x <= at[t] + sizes[t] PROVE FALSE
      BY <1>1
    <2> HIDE DEF at
    <2>1. at[t] \in Int /\ sizes[t] \in Nat
      BY <1>0, <1>1
    <2> QED
      BY <1>2, <2>1 DEF CFA_OFFSET
  <1> QED
    BY <1>3 DEF sect_reloc


(* What compare-section makes of a cell. *)
AsCode(e, k) == Cell(Mask(Tag(e, k - e.vm_prims - CFA_OFFSET), Bit14), TRUE)
AsXt(e, k) == Cell(Tag(e, k - e.xts), TRUE)
AsLabel(e, k) == Cell(Mask(Tag(e, k - e.labels), Bit15), TRUE)
Shifted(k1, table1, table2, k2) == k1 + (table2 - table1) = k2

LEMMA CompareCases ==
  ASSUME NEW d1, NEW d2, NEW sizes, NEW x
  PROVE  LET k1 == DumpCell(d1.e, d1.at, x)
             k2 == DumpCell(d2.e, d2.at, x)
             r1 == sect_reloc(d1.at, sizes, k1)
             r2 == sect_reloc(d2.at, sizes, k2)
         IN  CompareCell(d1, d2, sizes, x) =
               IF k1 = k2 THEN Cell(k1, FALSE)
               ELSE IF r1 = r2 THEN Cell(r1, TRUE)
               ELSE IF Shifted(k1, d1.e.vm_prims, d2.e.vm_prims, k2) THEN AsCode(d1.e, k1)
               ELSE IF Shifted(k1, d1.e.xts, d2.e.xts, k2) THEN AsXt(d1.e, k1)
               ELSE IF Shifted(k1, d1.e.labels, d2.e.labels, k2) THEN AsLabel(d1.e, k1)
               ELSE Cell(k1, FALSE)
  BY DEF CompareCell, AsCode, AsXt, AsLabel, Shifted

LEMMA DumpCellOf ==
  ASSUME NEW e, NEW at, NEW x
  PROVE  /\ x.kind = "data" => DumpCell(e, at, x) = x.n
         /\ x.kind = "addr" => DumpCell(e, at, x) = at[x.sect + 1] + x.offset
         /\ x.kind = "threaded" =>
              DumpCell(e, at, x) = e.vm_prims + GroupStart(e, x.group) + x.n + CFA_OFFSET
         /\ x.kind = "xt" => DumpCell(e, at, x) = e.xts + GroupStart(e, x.group) + x.n
         /\ x.kind = "label" => DumpCell(e, at, x) = e.labels + GroupStart(e, x.group) + x.n
         /\ x.kind = "doer" => DumpCell(e, at, x) = e.xts + x.n
  BY DEF DumpCell

LEMMA SizesOfContents ==
  ASSUME NEW contents \in Seq(Seq(Content))
  PROVE  /\ Len(contents) \in Nat /\ DOMAIN contents = 1 .. Len(contents)
         /\ DOMAIN SizesOf(contents) = 1 .. Len(contents)
         /\ \A t \in 1 .. Len(contents) :
              /\ SizesOf(contents)[t] = Len(contents[t]) /\ Len(contents[t]) \in Nat
              /\ contents[t] \in Seq(Content) /\ DOMAIN contents[t] = 1 .. Len(contents[t])
  <1>1. Len(contents) \in Nat /\ DOMAIN contents = 1 .. Len(contents)
    OBVIOUS
  <1>2. \A t \in 1 .. Len(contents) : contents[t] \in Seq(Content)
    OBVIOUS
  <1>3. \A q \in Seq(Content) : Len(q) \in Nat /\ DOMAIN q = 1 .. Len(q)
    OBVIOUS
  <1>4. /\ DOMAIN SizesOf(contents) = 1 .. Len(contents)
        /\ \A t \in 1 .. Len(contents) : SizesOf(contents)[t] = Len(contents[t])
    BY <1>1 DEF SizesOf
  <1> QED
    BY <1>1, <1>2, <1>3, <1>4, Zenon

LEMMA ComparableDumps ==
  ASSUME NEW d1, NEW d2, NEW contents, Comparable(d1, d2, contents)
  PROVE  /\ contents \in Seq(Seq(Content))
         /\ IsDump(d1, SizesOf(contents), Len(contents)) /\ IsDump(d2, SizesOf(contents), Len(contents))
         /\ d2.e.groups = d1.e.groups
  <1>1. contents \in Seq(Seq(Content))
    BY DEF Comparable
  <1>2. \A d \in {d1, d2} :
           /\ IsEngine(d.e) /\ d.e.kind = "ditc" /\ d.e.groups = d1.e.groups
           /\ d.at \in Seq(Int) /\ Len(d.at) = Len(contents)
           /\ Apart(d, SizesOf(contents))
    BY DEF Comparable
  <1>3. /\ DOMAIN SizesOf(contents) = 1 .. Len(contents)
        /\ \A t \in 1 .. Len(contents) : SizesOf(contents)[t] \in Nat
    BY <1>1, SizesOfContents
  <1> QED
    BY <1>1, <1>2, <1>3, Zenon DEF IsDump

(* The offsets between the tables of two dumps. *)
Moved(e1, e2) ==
  LET k == e2.vm_prims - e1.vm_prims
      x == e2.xts - e1.xts
      l == e2.labels - e1.labels
  IN  k # 0 /\ x # 0 /\ l # 0 /\ k # x /\ k # l /\ x # l

LEMMA ComparableMoved ==
  ASSUME NEW d1, NEW d2, NEW contents, Comparable(d1, d2, contents)
  PROVE  (d1.e = d2.e /\ d1.e.vm_prims > 0) \/ Moved(d1.e, d2.e)
  <1> DEFINE k == d2.e.vm_prims - d1.e.vm_prims
             x == d2.e.xts - d1.e.xts
             l == d2.e.labels - d1.e.labels
  <1>1. (d1.e = d2.e /\ d1.e.vm_prims > 0) \/ IsInjective(<<0, k, x, l>>)
    BY DEF Comparable
  <1> HIDE DEF k, x, l
  <1>2. ASSUME IsInjective(<<0, k, x, l>>)
        PROVE  k # 0 /\ x # 0 /\ l # 0 /\ k # x /\ k # l /\ x # l
    <2> DEFINE q == <<0, k, x, l>>
    <2>1. \A a, b \in 1 .. 4 : q[a] = q[b] => a = b
      BY <1>2 DEF IsInjective
    <2>2. q[1] = 0 /\ q[2] = k /\ q[3] = x /\ q[4] = l
      OBVIOUS
    <2> HIDE DEF q
    <2> QED
      BY <2>1, <2>2
  <1> QED
    BY <1>1, <1>2 DEF Moved, k, x, l

(* The groups decide where a primitive is. *)
LEMMA SameGroups ==
  ASSUME NEW e, NEW f, e.groups = f.groups, NEW g
  PROVE  GroupStart(e, g) = GroupStart(f, g) /\ NPrims(e) = NPrims(f)
  BY DEF GroupStart, NPrims


(* compare-section leaves a number alone. *)
LEMMA CompareData ==
  ASSUME NEW d1, NEW d2, NEW sizes, NEW x, x.kind = "data"
  PROVE  CompareCell(d1, d2, sizes, x) = Cell(x.n, FALSE)
  <1>1. DumpCell(d1.e, d1.at, x) = x.n /\ DumpCell(d2.e, d2.at, x) = x.n
    BY DumpCellOf
  <1> QED
    BY <1>1, CompareCases

(* An address becomes section and offset. *)
LEMMA CompareAddr ==
  ASSUME NEW d1, NEW d2, NEW sizes, NEW N \in Nat, IsDump(d1, sizes, N), IsDump(d2, sizes, N),
         \A s \in 1 .. N : d1.at[s] # d2.at[s],
         NEW x, x.kind = "addr", x.sect \in Nat, x.offset \in Nat,
         x.sect + 1 \in 1 .. N, x.offset <= sizes[x.sect + 1]
  PROVE  CompareCell(d1, d2, sizes, x) = Cell(x.sect * SectionSize + x.offset, TRUE)
  <1> DEFINE s == x.sect + 1
             o == x.offset
             a1 == d1.at[s]
             a2 == d2.at[s]
             k1 == DumpCell(d1.e, d1.at, x)
             k2 == DumpCell(d2.e, d2.at, x)
  <1>1. k1 = a1 + o /\ k2 = a2 + o
    BY DumpCellOf
  <1>2. s \in 1 .. N /\ o \in Nat /\ s - 1 = x.sect
    OBVIOUS
  <1>3. a1 \in Int /\ a2 \in Int /\ a1 # a2
    <2>1. d1.at \in Seq(Int) /\ Len(d1.at) = N /\ d2.at \in Seq(Int) /\ Len(d2.at) = N
      BY DEF IsDump
    <2> HIDE DEF s
    <2> QED
      BY <1>2, <2>1, ElementOfSeq, Zenon
  <1>0. o <= sizes[s]
    OBVIOUS
  <1> HIDE DEF k1, k2
  <1>4. sect_reloc(d1.at, sizes, k1) = (s - 1) * SectionSize + o
    <2> HIDE DEF s, o
    <2>1. sect_reloc(d1.at, sizes, d1.at[s] + o) = (s - 1) * SectionSize + o
      BY <1>0, <1>2, InSection
    <2> QED
      BY <1>1, <2>1
  <1>5. sect_reloc(d2.at, sizes, k2) = (s - 1) * SectionSize + o
    <2> HIDE DEF s, o
    <2>1. sect_reloc(d2.at, sizes, d2.at[s] + o) = (s - 1) * SectionSize + o
      BY <1>0, <1>2, InSection
    <2> QED
      BY <1>1, <2>1
  <1>6. k1 # k2
    <2> HIDE DEF a1, a2, o
    <2> QED
      BY <1>1, <1>2, <1>3
  <1>7. CompareCell(d1, d2, sizes, x) = Cell((s - 1) * SectionSize + o, TRUE)
    BY <1>4, <1>5, <1>6, CompareCases DEF k1, k2
  <1> QED
    BY <1>2, <1>7

(* A place in a table that was moved. *)
LEMMA TableMoves ==
  ASSUME NEW d1, NEW d2, NEW sizes, NEW N \in Nat, IsDump(d1, sizes, N), IsDump(d2, sizes, N),
         NPrims(d1.e) \in Nat, NPrims(d2.e) = NPrims(d1.e),
         NEW table1 \in {d1.e.vm_prims, d1.e.xts, d1.e.labels}, table1 \in Int,
         NEW table2 \in {d2.e.vm_prims, d2.e.xts, d2.e.labels}, table2 \in Int,
         table1 # table2, NEW k \in Nat, k <= NPrims(d1.e) + CFA_OFFSET,
         NEW k1, NEW k2, k1 = table1 + k, k2 = table2 + k
  PROVE  k1 # k2 /\ sect_reloc(d1.at, sizes, k1) # sect_reloc(d2.at, sizes, k2)
  <1>1. sect_reloc(d1.at, sizes, k1) = k1
    BY InTables
  <1>2. sect_reloc(d2.at, sizes, k2) = k2
    BY InTables
  <1> QED
    BY <1>1, <1>2


(* Where a reference to the engine is in its table. *)
LEMMA EngineIntegers ==
  ASSUME NEW e, IsEngine(e)
  PROVE  e.vm_prims \in Int /\ e.xts \in Int /\ e.labels \in Int
  BY DEF IsEngine

LEMMA PrimsOfEngine ==
  ASSUME NEW e, IsEngine(e)
  PROVE  NPrims(e) \in Nat /\ DOER_MAX < NPrims(e)
  <1> DEFINE L == Len(e.groups)
  <1>1. L \in Nat /\ L >= 2
    BY EngineLength
  <1>2. GroupFacts(e)
    BY GroupFactsHold
  <1>3. 1 \in 0 .. L /\ L \in 0 .. L /\ 1 <= L
    BY <1>1
  <1>4. GroupStart(e, 1) = DOER_MAX + 1 /\ GroupStart(e, 1) <= GroupStart(e, L) /\ GroupStart(e, L) \in Nat
    BY <1>2, <1>3 DEF GroupFacts
  <1>5. DOER_MAX \in Nat
    BY ImageAssumption
  <1> QED
    BY <1>4, <1>5 DEF NPrims

(* The number of a primitive, and its tag. *)
PrimIndex(e, x, k) ==
  /\ k \in Nat /\ k < NPrims(e) /\ k = GroupStart(e, x.group) + x.n
  /\ Tag(e, k) = Tagged(x.group, x.n, 0)

LEMMA PrimHasIndex ==
  ASSUME NEW e, IsEngine(e), NEW x, InEngine(e, x), x.kind \in PrimKinds
  PROVE  PrimIndex(e, x, GroupStart(e, x.group) + x.n) /\ GroupStart(e, x.group) \in Nat
  <1> DEFINE g == x.group
             n == x.n
  <1>1. g \in 1 .. Len(e.groups) - 1 /\ n \in Nat /\ n < e.groups[g + 1] /\ g \in Nat
    BY PrimContent DEF InEngine
  <1> HIDE DEF g, n
  <1>2. /\ GroupStart(e, g) \in Nat /\ NPrims(e) \in Nat /\ GroupStart(e, g) + n < NPrims(e)
    BY <1>1, IndexRange
  <1>3. Tag(e, GroupStart(e, g) + n) = Tagged(g, n, 0)
    BY <1>1, TagOfPrim
  <1>4. GroupStart(e, g) + n \in Nat
    BY <1>1, <1>2
  <1> QED
    BY <1>2, <1>3, <1>4 DEF PrimIndex, g, n

(* Masking a tag. *)
LEMMA MaskTag ==
  ASSUME NEW g \in Nat, NEW n \in Nat
  PROVE  /\ Mask(Tagged(g, n, 0), Bit14) = Tagged(g, n, Bit14)
         /\ Mask(Tagged(g, n, 0), Bit15) = Tagged(g, n, Bit15)
  BY DEF Mask, Tagged, Bit14, Bit15

(* The cell for place k of a table. *)
LEMMA PlaceInTable ==
  ASSUME NEW e, IsEngine(e), NEW k \in Nat, NEW k1
  PROVE  /\ k1 = e.vm_prims + (k + CFA_OFFSET) => AsCode(e, k1) = Cell(Mask(Tag(e, k), Bit14), TRUE)
         /\ k1 = e.xts + k => AsXt(e, k1) = Cell(Tag(e, k), TRUE)
         /\ k1 = e.labels + k => AsLabel(e, k1) = Cell(Mask(Tag(e, k), Bit15), TRUE)
  <1>1. e.vm_prims \in Int /\ e.xts \in Int /\ e.labels \in Int
    BY EngineIntegers
  <1>2. ASSUME k1 = e.vm_prims + (k + CFA_OFFSET) PROVE AsCode(e, k1) = Cell(Mask(Tag(e, k), Bit14), TRUE)
    <2>1. k1 - e.vm_prims - CFA_OFFSET = k
      BY <1>1, <1>2 DEF CFA_OFFSET
    <2> QED
      BY <2>1, Zenon DEF AsCode
  <1>3. ASSUME k1 = e.xts + k PROVE AsXt(e, k1) = Cell(Tag(e, k), TRUE)
    <2>1. k1 - e.xts = k
      BY <1>1, <1>3
    <2> QED
      BY <2>1, Zenon DEF AsXt
  <1>4. ASSUME k1 = e.labels + k PROVE AsLabel(e, k1) = Cell(Mask(Tag(e, k), Bit15), TRUE)
    <2>1. k1 - e.labels = k
      BY <1>1, <1>4
    <2> QED
      BY <2>1, Zenon DEF AsLabel
  <1> QED
    BY <1>2, <1>3, <1>4

(* A reference to the engine becomes its token, if the tables were moved. *)
LEMMA ComparePrim ==
  ASSUME NEW d1, NEW d2, NEW sizes, NEW N \in Nat, IsDump(d1, sizes, N), IsDump(d2, sizes, N),
         d2.e.groups = d1.e.groups, Moved(d1.e, d2.e),
         NEW x, InEngine(d1.e, x), x.kind \in EngineKinds
  PROVE  CompareCell(d1, d2, sizes, x) = Cell(Token(x), TRUE)
  <1> DEFINE e1 == d1.e
             e2 == d2.e
             k1 == DumpCell(e1, d1.at, x)
             k2 == DumpCell(e2, d2.at, x)
             cell == CompareCell(d1, d2, sizes, x)
  <1>1. IsEngine(e1) /\ IsEngine(e2)
    BY DEF IsDump
  <1>2. /\ e1.vm_prims \in Int /\ e1.xts \in Int /\ e1.labels \in Int
        /\ e2.vm_prims \in Int /\ e2.xts \in Int /\ e2.labels \in Int
    BY <1>1, EngineIntegers
  <1>3. NPrims(e1) \in Nat /\ DOER_MAX < NPrims(e1) /\ NPrims(e2) = NPrims(e1)
    BY <1>1, PrimsOfEngine, SameGroups
  <1>6. /\ x.kind = "threaded" => /\ k1 = e1.vm_prims + GroupStart(e1, x.group) + x.n + CFA_OFFSET
                                  /\ k2 = e2.vm_prims + GroupStart(e2, x.group) + x.n + CFA_OFFSET
        /\ x.kind = "xt" => /\ k1 = e1.xts + GroupStart(e1, x.group) + x.n
                            /\ k2 = e2.xts + GroupStart(e2, x.group) + x.n
        /\ x.kind = "label" => /\ k1 = e1.labels + GroupStart(e1, x.group) + x.n
                               /\ k2 = e2.labels + GroupStart(e2, x.group) + x.n
        /\ x.kind = "doer" => k1 = e1.xts + x.n /\ k2 = e2.xts + x.n
    BY DumpCellOf
  <1>7. ASSUME NEW table1 \in {e1.vm_prims, e1.xts, e1.labels},
               NEW table2 \in {e2.vm_prims, e2.xts, e2.labels}, table1 # table2,
               NEW k \in Nat, k <= NPrims(e1) + CFA_OFFSET, k1 = table1 + k, k2 = table2 + k
        PROVE  cell = IF table2 - table1 = e2.vm_prims - e1.vm_prims THEN AsCode(e1, k1)
                      ELSE IF table2 - table1 = e2.xts - e1.xts THEN AsXt(e1, k1)
                      ELSE IF table2 - table1 = e2.labels - e1.labels THEN AsLabel(e1, k1)
                      ELSE Cell(k1, FALSE)
    <2>1. table1 \in Int /\ table2 \in Int
      BY <1>2
    <2>2. k1 # k2 /\ sect_reloc(d1.at, sizes, k1) # sect_reloc(d2.at, sizes, k2)
      <3> HIDE DEF k1, k2
      <3> QED
        BY <1>3, <1>7, <2>1, TableMoves, SMTT(40)
    <2>3. ASSUME NEW a \in Int, NEW b \in Int
          PROVE  Shifted(k1, a, b, k2) <=> table2 - table1 = b - a
      <3> HIDE DEF k1, k2
      <3> QED
        BY <1>7, <2>1 DEF Shifted
    <2>4. cell = IF Shifted(k1, e1.vm_prims, e2.vm_prims, k2) THEN AsCode(e1, k1)
                 ELSE IF Shifted(k1, e1.xts, e2.xts, k2) THEN AsXt(e1, k1)
                 ELSE IF Shifted(k1, e1.labels, e2.labels, k2) THEN AsLabel(e1, k1)
                 ELSE Cell(k1, FALSE)
      BY <2>2, CompareCases
    <2> HIDE DEF k1, k2, cell
    <2> QED
      BY <1>2, <2>3, <2>4
  <1>8. ASSUME NEW k \in Nat
        PROVE  /\ k1 = e1.vm_prims + (k + CFA_OFFSET) => AsCode(e1, k1) = Cell(Mask(Tag(e1, k), Bit14), TRUE)
               /\ k1 = e1.xts + k => AsXt(e1, k1) = Cell(Tag(e1, k), TRUE)
               /\ k1 = e1.labels + k => AsLabel(e1, k1) = Cell(Mask(Tag(e1, k), Bit15), TRUE)
    BY <1>1, PlaceInTable, Zenon
  <1> HIDE DEF k1, k2, cell
  <1> SUFFICES cell = Cell(Token(x), TRUE)
    BY DEF cell
  <1>4. CASE x.kind = "doer"
    <2>1. x.n \in Nat /\ x.n <= DOER_MAX /\ DOER_MAX \in Nat
      <3>1. x \in Content /\ x.n <= DOER_MAX
        BY <1>4 DEF InEngine
      <3> QED
        BY <1>4, <3>1, DoerContent, ImageAssumption
    <2>2. x.n <= NPrims(e1) + CFA_OFFSET
      BY <1>3, <2>1 DEF CFA_OFFSET
    <2>3. k1 = e1.xts + x.n /\ k2 = e2.xts + x.n
      BY <1>4, <1>6
    <2>4. /\ e1.xts # e2.xts /\ e2.xts - e1.xts # e2.vm_prims - e1.vm_prims
      BY <1>2 DEF Moved
    <2>5. cell = AsXt(e1, k1)
      BY <1>7, <2>1, <2>2, <2>3, <2>4
    <2>6. AsXt(e1, k1) = Cell(Tag(e1, x.n), TRUE)
      BY <1>8, <2>1, <2>3, Zenon
    <2>7. Tag(e1, x.n) = -2 - x.n
      BY <2>1 DEF Tag
    <2>8. Token(x) = -2 - x.n
      BY <1>4, TokenOf
    <2> QED
      BY <2>5, <2>6, <2>7, <2>8
  <1>5. CASE x.kind \in PrimKinds
    <2> DEFINE g == x.group
               n == x.n
               k == GroupStart(e1, g) + n
    <2>1. PrimIndex(e1, x, k) /\ GroupStart(e1, g) \in Nat
      BY <1>1, <1>5, PrimHasIndex
    <2>2. GroupStart(e2, g) = GroupStart(e1, g)
      BY SameGroups
    <2>3. g \in Nat /\ n \in Nat
      BY <1>5, PrimContent DEF InEngine
    <2>4. k \in Nat /\ k < NPrims(e1) /\ Tag(e1, k) = Tagged(g, n, 0)
      BY <2>1 DEF PrimIndex
    <2>5. k <= NPrims(e1) + CFA_OFFSET /\ k + CFA_OFFSET <= NPrims(e1) + CFA_OFFSET /\ k + CFA_OFFSET \in Nat
      <3> HIDE DEF k
      <3> QED
        BY <1>3, <2>4 DEF CFA_OFFSET
    <2>6. ASSUME NEW a \in Int PROVE a + GroupStart(e1, g) + n = a + k
      BY <2>1, <2>3
    <2>7. ASSUME NEW a \in Int PROVE a + GroupStart(e1, g) + n + CFA_OFFSET = a + (k + CFA_OFFSET)
      BY <2>1, <2>3 DEF CFA_OFFSET
    <2>8. CASE x.kind = "threaded"
      <3>1. /\ k1 = e1.vm_prims + (k + CFA_OFFSET)
            /\ k2 = e2.vm_prims + (k + CFA_OFFSET)
        <4>1. /\ k1 = e1.vm_prims + GroupStart(e1, g) + n + CFA_OFFSET
              /\ k2 = e2.vm_prims + GroupStart(e1, g) + n + CFA_OFFSET
          BY <1>6, <2>2, <2>8
        <4> HIDE DEF g, n, k
        <4> QED
          BY <1>2, <2>7, <4>1, Zenon
      <3>2. e1.vm_prims # e2.vm_prims
        BY <1>2 DEF Moved
      <3>3. Token(x) = Tagged(g, n, Bit14)
        BY <2>8, TokenOf
      <3> HIDE DEF g, n, k
      <3>4. cell = AsCode(e1, k1)
        BY <1>7, <2>5, <3>1, <3>2
      <3>5. AsCode(e1, k1) = Cell(Mask(Tag(e1, k), Bit14), TRUE)
        BY <1>8, <2>4, <3>1, Zenon
      <3> QED
        BY <2>3, <2>4, <3>3, <3>4, <3>5, MaskTag, Zenon
    <2>9. CASE x.kind = "xt"
      <3>1. /\ k1 = e1.xts + k
            /\ k2 = e2.xts + k
        <4>1. /\ k1 = e1.xts + GroupStart(e1, g) + n
              /\ k2 = e2.xts + GroupStart(e1, g) + n
          BY <1>6, <2>2, <2>9
        <4> HIDE DEF g, n, k
        <4> QED
          BY <1>2, <2>6, <4>1, Zenon
      <3>2. e1.xts # e2.xts /\ e2.xts - e1.xts # e2.vm_prims - e1.vm_prims
        BY <1>2 DEF Moved
      <3>3. Token(x) = Tagged(g, n, 0)
        BY <2>9, TokenOf
      <3> HIDE DEF g, n, k
      <3>4. cell = AsXt(e1, k1)
        BY <1>7, <2>4, <2>5, <3>1, <3>2
      <3>5. AsXt(e1, k1) = Cell(Tag(e1, k), TRUE)
        BY <1>8, <2>4, <3>1, Zenon
      <3> QED
        BY <2>4, <3>3, <3>4, <3>5
    <2>10. CASE x.kind = "label"
      <3>1. /\ k1 = e1.labels + k
            /\ k2 = e2.labels + k
        <4>1. /\ k1 = e1.labels + GroupStart(e1, g) + n
              /\ k2 = e2.labels + GroupStart(e1, g) + n
          BY <1>6, <2>2, <2>10
        <4> HIDE DEF g, n, k
        <4> QED
          BY <1>2, <2>6, <4>1, Zenon
      <3>2. /\ e1.labels # e2.labels /\ e2.labels - e1.labels # e2.vm_prims - e1.vm_prims
            /\ e2.labels - e1.labels # e2.xts - e1.xts
        BY <1>2 DEF Moved
      <3>3. Token(x) = Tagged(g, n, Bit15)
        BY <2>10, TokenOf
      <3> HIDE DEF g, n, k
      <3>4. cell = AsLabel(e1, k1)
        BY <1>7, <2>4, <2>5, <3>1, <3>2
      <3>5. AsLabel(e1, k1) = Cell(Mask(Tag(e1, k), Bit15), TRUE)
        BY <1>8, <2>4, <3>1, Zenon
      <3> QED
        BY <2>3, <2>4, <3>3, <3>4, <3>5, MaskTag, Zenon
    <2> QED
      BY <1>5, <2>8, <2>9, <2>10 DEF PrimKinds
  <1> QED
    BY <1>4, <1>5 DEF EngineKinds


(* An engine that provides the primitives of the maker has what a cell     *)
(* refers to.                                                              *)
LEMMA ProvidedIsThere ==
  ASSUME NEW e, IsEngine(e), NEW maker, IsEngine(maker), Provides(e, maker),
         NEW sizes, NEW x, InSystem(maker, sizes, x)
  PROVE  InEngine(maker, x) /\ InEngine(e, x)
  <1>1. InEngine(maker, x)
    BY DEF InSystem, InEngine
  <1>2. ASSUME x.kind \in PrimKinds
        PROVE  x.group \in 1 .. Len(e.groups) - 1 /\ x.n < e.groups[x.group + 1]
    <2> DEFINE g == x.group
               n == x.n
    <2>1. g \in 1 .. Len(maker.groups) - 1 /\ n < maker.groups[g + 1] /\ n \in Nat /\ g \in Nat
      BY <1>1, <1>2, PrimContent DEF InEngine
    <2>2. /\ Len(maker.groups) \in Nat /\ Len(e.groups) \in Nat
          /\ DOMAIN maker.groups = 1 .. Len(maker.groups)
      BY EngineLength
    <2>3. Len(maker.groups) <= Len(e.groups)
      BY DEF Provides
    <2> HIDE DEF g, n
    <2>4. g + 1 \in 1 .. Len(maker.groups) /\ g + 1 \in 1 .. Len(e.groups) /\ g \in 1 .. Len(e.groups) - 1
      BY <2>1, <2>2, <2>3
    <2>5. maker.groups[g + 1] <= e.groups[g + 1]
      BY <2>2, <2>4 DEF Provides
    <2>6. maker.groups[g + 1] \in Nat /\ e.groups[g + 1] \in Nat
      BY <2>4, EngineLength
    <2>7. n < e.groups[g + 1]
      BY <2>1, <2>5, <2>6
    <2> QED
      BY <2>4, <2>7 DEF g, n
  <1> QED
    BY <1>1, <1>2 DEF InEngine

(* An image that refers to the tables by address, on an engine that has    *)
(* them at the same addresses.                                             *)
SameTables(e, f) ==
  /\ e.kind = "ditc" /\ e.groups = f.groups
  /\ e.vm_prims = f.vm_prims /\ e.xts = f.xts /\ e.labels = f.labels

Unmoved(x, e, cell) == cell = Cell(Meaning(e, <<>>, x), FALSE)

(* A reference to the tables in a dump is right with the same tables. *)
LEMMA DumpedReference ==
  ASSUME NEW f, IsEngine(f), NEW at, NEW e, SameTables(e, f),
         NEW x, InEngine(f, x), x.kind \in EngineKinds
  PROVE  DumpCell(f, at, x) = Meaning(e, <<>>, x)
  <1> DEFINE k == DumpCell(f, at, x)
             g == GroupStart(f, x.group)
             n == x.n
             m == Meaning(e, <<>>, x)
  <1>1. GroupStart(e, x.group) = g
    BY SameGroups DEF SameTables
  <1>2. f.vm_prims \in Int /\ f.xts \in Int /\ f.labels \in Int
    BY EngineIntegers
  <1>3. x.kind \in PrimKinds => g \in Int /\ n \in Int
    BY PrimHasIndex, PrimContent DEF InEngine
  <1> HIDE DEF k, g, n, m
  <1> SUFFICES k = m
    BY DEF k, m
  <1>4. CASE x.kind = "doer"
    <2>1. k = f.xts + n
      BY <1>4, DumpCellOf DEF k, n
    <2>2. m = e.xts + n
      BY <1>4, MeaningOfPrim DEF SameTables, m, n
    <2> QED
      BY <2>1, <2>2 DEF SameTables
  <1>5. CASE x.kind = "threaded"
    <2>0. g \in Int /\ n \in Int
      BY <1>3, <1>5 DEF PrimKinds
    <2>1. k = f.vm_prims + g + n + CFA_OFFSET
      BY <1>5, DumpCellOf DEF k, g, n
    <2>2. m = e.vm_prims + (g + n) + CFA_OFFSET
      BY <1>1, <1>5, MeaningOfPrim DEF m, n
    <2> QED
      BY <1>2, <2>0, <2>1, <2>2 DEF SameTables, CFA_OFFSET
  <1>6. CASE x.kind = "xt"
    <2>0. g \in Int /\ n \in Int
      BY <1>3, <1>6 DEF PrimKinds
    <2>1. k = f.xts + g + n
      BY <1>6, DumpCellOf DEF k, g, n
    <2>2. m = e.xts + (g + n)
      BY <1>1, <1>6, MeaningOfPrim DEF SameTables, m, n
    <2> QED
      BY <1>2, <2>0, <2>1, <2>2 DEF SameTables, CFA_OFFSET
  <1>7. CASE x.kind = "label"
    <2>0. g \in Int /\ n \in Int
      BY <1>3, <1>7 DEF PrimKinds
    <2>1. k = f.labels + g + n
      BY <1>7, DumpCellOf DEF k, g, n
    <2>2. m = e.labels + (g + n)
      BY <1>1, <1>7, MeaningOfPrim DEF m, n
    <2> QED
      BY <1>2, <2>0, <2>1, <2>2 DEF SameTables, CFA_OFFSET
  <1> QED
    BY <1>4, <1>5, <1>6, <1>7 DEF EngineKinds, PrimKinds

LEMMA CompareUnmoved ==
  ASSUME NEW d1, NEW d2, d1.e = d2.e, NEW sizes, NEW e, SameTables(e, d1.e),
         IsEngine(d1.e), NEW x, InEngine(d1.e, x), x.kind \in EngineKinds
  PROVE  Unmoved(x, e, CompareCell(d1, d2, sizes, x))
  <1> DEFINE k1 == DumpCell(d1.e, d1.at, x)
             k2 == DumpCell(d2.e, d2.at, x)
  <1>1. k1 = Meaning(e, <<>>, x) /\ k2 = Meaning(e, <<>>, x)
    BY DumpedReference
  <1>2. k1 = k2
    BY <1>1
  <1>3. CompareCell(d1, d2, sizes, x) = Cell(k1, FALSE)
    BY <1>2, CompareCases
  <1> HIDE DEF k1, k2
  <1> QED
    BY <1>1, <1>3, Zenon DEF Unmoved


LEMMA ComparedIsEncoded ==
  ASSUME NEW d1, NEW d2, NEW contents, Comparable(d1, d2, contents),
         NEW s \in DOMAIN contents, NEW i \in DOMAIN contents[s],
         NEW e, IsEngine(e), Provides(e, d1.e), d1.e = d2.e => SameTables(e, d1.e),
         NEW bases, \A t \in DOMAIN contents : bases[t] = 0
  PROVE  Encoded(e, bases, s, contents[s][i],
                 CompareCell(d1, d2, SizesOf(contents), contents[s][i]))
  <1> DEFINE x == contents[s][i]
             sizes == SizesOf(contents)
             N == Len(contents)
             cell == CompareCell(d1, d2, sizes, x)
  <1>1. /\ contents \in Seq(Seq(Content)) /\ IsDump(d1, sizes, N) /\ IsDump(d2, sizes, N)
        /\ d2.e.groups = d1.e.groups /\ IsEngine(d1.e)
    BY ComparableDumps DEF IsDump
  <1>2. N \in Nat /\ DOMAIN contents = 1 .. N /\ DOMAIN sizes = 1 .. N
    BY <1>1, SizesOfContents
  <1>3. InSystem(d1.e, sizes, x) /\ x.kind # "null"
    BY DEF Comparable
  <1>4. \A t \in 1 .. N : d1.at[t] # d2.at[t] /\ Len(contents[t]) < SectionSize
    BY <1>2 DEF Comparable
  <1>5. x \in Content /\ InEngine(d1.e, x) /\ InEngine(e, x)
    BY <1>1, <1>3, ProvidedIsThere DEF InSystem
  <1>6. (d1.e = d2.e) \/ Moved(d1.e, d2.e)
    BY ComparableMoved
  <1>9. \A t \in 1 .. N : sizes[t] = Len(contents[t]) /\ sizes[t] \in Nat
    BY <1>1, SizesOfContents
  <1>10. bases[s] = 0
    OBVIOUS
  <1> HIDE DEF x, sizes, N, cell
  <1>11. CASE x.kind = "data"
    <2>1. cell = Cell(x.n, FALSE)
      BY <1>11, CompareData DEF cell
    <2> QED
      BY <1>11, <2>1 DEF Encoded, EngineKinds, PrimKinds, cell, x, sizes
  <1>12. CASE x.kind = "addr"
    <2>1. x.sect \in Nat /\ x.offset \in Nat /\ x.sect + 1 \in 1 .. N /\ x.offset <= sizes[x.sect + 1]
      BY <1>2, <1>3, <1>5, <1>12, AddrContent DEF InSystem
    <2>2. \A t \in 1 .. N : d1.at[t] # d2.at[t]
      BY <1>4
    <2>3. cell = Cell(x.sect * SectionSize + x.offset, TRUE)
      BY <1>1, <1>2, <1>12, <2>1, <2>2, CompareAddr DEF cell
    <2>4. bases[x.sect + 1] = 0 /\ x.offset < SectionSize
      <3>1. sizes[x.sect + 1] < SectionSize /\ sizes[x.sect + 1] \in Nat
        BY <1>4, <1>9, <2>1
      <3>2. SectionSize \in Nat
        BY ImageAssumption
      <3> QED
        BY <1>2, <2>1, <3>1, <3>2
    <2>5. x.sect * SectionSize + x.offset \in Nat
      BY <2>1, <2>4, AddressParts
    <2>6. bases[x.sect + 1] + x.offset = x.offset
      BY <2>1, <2>4
    <2>7. cell.tok >= bases[s]
      BY <1>10, <2>3, <2>5 DEF Cell
    <2>8. Encoded(e, bases, s, x, cell)
      <3>1. cell = Cell(x.sect * SectionSize + (bases[x.sect + 1] + x.offset), TRUE)
        BY <2>3, <2>6, Zenon
      <3>2. bases[x.sect + 1] \in Nat /\ bases[x.sect + 1] + x.offset < SectionSize
        BY <2>4, <2>6
      <3>3. x.kind # "data" /\ x.kind # "null" /\ x.kind \notin EngineKinds
        BY <1>12 DEF EngineKinds, PrimKinds
      <3> QED
        BY <2>7, <3>1, <3>2, <3>3, Zenon DEF Encoded
    <2> QED
      BY <2>8 DEF cell, x, sizes
  <1>13. CASE x.kind \in EngineKinds
    <2>1. x.kind \notin {"data", "null", "addr"}
      BY <1>13 DEF EngineKinds, PrimKinds
    <2>2. CASE Moved(d1.e, d2.e)
      <3>1. cell = Cell(Token(x), TRUE)
        BY <1>1, <1>2, <1>5, <1>13, <2>2, ComparePrim DEF cell
      <3>2. Encoded(e, bases, s, x, cell)
        BY <1>5, <1>13, <2>1, <3>1 DEF Encoded
      <3> QED
        BY <3>2 DEF cell, x, sizes
    <2>3. CASE d1.e = d2.e
      <3>1. cell = Cell(Meaning(e, <<>>, x), FALSE)
        <4>1. SameTables(e, d1.e)
          BY <2>3
        <4>2. Unmoved(x, e, CompareCell(d1, d2, sizes, x))
          BY <1>1, <1>5, <1>13, <2>3, <4>1, CompareUnmoved
        <4> QED
          BY <4>2 DEF cell, Unmoved
      <3>2. e.kind = "ditc"
        BY <2>3 DEF SameTables
      <3>3. Encoded(e, bases, s, x, cell)
        BY <1>13, <2>1, <3>1, <3>2 DEF Encoded
      <3> QED
        BY <3>3 DEF cell, x, sizes
    <2> QED
      BY <1>6, <2>2, <2>3
  <1> QED
    BY <1>3, <1>5, <1>11, <1>12, <1>13, KindsOfContent, Zenon

(* The cross compiler. *)
CrossCell(base, x, cell) ==
  /\ x.kind = "data" => cell = Cell(x.n, FALSE)
  /\ x.kind = "null" => cell = Cell(0, TRUE)
  /\ x.kind = "addr" => cell = Cell(base + x.offset, TRUE)
  /\ x.kind = "threaded" => cell = Cell(Mask(- (x.n + x.group * 512), Bit14), TRUE)
  /\ x.kind = "xt" => cell = Cell(- (x.n + x.group * 512), TRUE)
  /\ x.kind = "label" => cell = Cell(Mask(- (x.n + x.group * 512), Bit15), TRUE)
  /\ x.kind = "doer" => cell = Cell(-2 - x.n, TRUE)

CrossTok(base, y) ==
  CASE y.kind = "data"     -> Cell(y.n, FALSE)
    [] y.kind = "null"     -> Cell(0, TRUE)
    [] y.kind = "addr"     -> Cell(base + y.offset, TRUE)
    [] y.kind = "threaded" -> Cell(Mask(- (y.n + y.group * 512), Bit14), TRUE)
    [] y.kind = "xt"       -> Cell(- (y.n + y.group * 512), TRUE)
    [] y.kind = "label"    -> Cell(Mask(- (y.n + y.group * 512), Bit15), TRUE)
    [] y.kind = "doer"     -> Cell(-2 - y.n, TRUE)

LEMMA CrossSections ==
  ASSUME NEW e, NEW base, NEW contents
  PROVE  CrossImage(e, base, contents).sections =
           <<[j \in DOMAIN contents[1] |-> CrossTok(base, contents[1][j])]>>
  BY DEF CrossImage, CrossTok

LEMMA CrossCells ==
  ASSUME NEW e, NEW base, NEW contents, NEW i \in DOMAIN contents[1]
  PROVE  CrossCell(base, contents[1][i], CrossImage(e, base, contents).sections[1][i])
  <1> DEFINE x == contents[1][i]
  <1>2. CrossImage(e, base, contents).sections[1][i] = CrossTok(base, x)
    <2> DEFINE z == [j \in DOMAIN contents[1] |-> CrossTok(base, contents[1][j])]
    <2>1. CrossImage(e, base, contents).sections = <<z>>
      BY CrossSections
    <2>2. z[i] = CrossTok(base, x)
      OBVIOUS
    <2> HIDE DEF z, x
    <2> QED
      BY <2>1, <2>2
  <1> HIDE DEF x
  <1>3. CrossCell(base, x, CrossTok(base, x))
    <2>1. x.kind = "data" => CrossTok(base, x) = Cell(x.n, FALSE)
      BY DEF CrossTok
    <2>2. x.kind = "null" => CrossTok(base, x) = Cell(0, TRUE)
      BY DEF CrossTok
    <2>3. x.kind = "addr" => CrossTok(base, x) = Cell(base + x.offset, TRUE)
      BY DEF CrossTok
    <2>4. x.kind = "threaded" => CrossTok(base, x) = Cell(Mask(- (x.n + x.group * 512), Bit14), TRUE)
      BY DEF CrossTok
    <2>5. x.kind = "xt" => CrossTok(base, x) = Cell(- (x.n + x.group * 512), TRUE)
      BY DEF CrossTok
    <2>6. x.kind = "label" => CrossTok(base, x) = Cell(Mask(- (x.n + x.group * 512), Bit15), TRUE)
      BY DEF CrossTok
    <2>7. x.kind = "doer" => CrossTok(base, x) = Cell(-2 - x.n, TRUE)
      BY DEF CrossTok
    <2> QED
      BY <2>1, <2>2, <2>3, <2>4, <2>5, <2>6, <2>7, Zenon DEF CrossCell
  <1> QED
    BY <1>2, <1>3 DEF x

LEMMA CrossIsEncoded ==
  ASSUME NEW maker, NEW base, NEW contents, Crossable(maker, base, contents),
         NEW i \in DOMAIN contents[1], NEW e, IsEngine(e), Provides(e, maker),
         NEW bases, bases[1] = base
  PROVE  Encoded(e, bases, 1, contents[1][i], CrossImage(maker, base, contents).sections[1][i])
  <1> DEFINE x == contents[1][i]
             sizes == SizesOf(contents)
             cell == CrossImage(maker, base, contents).sections[1][i]
  <1>1. /\ IsEngine(maker) /\ base \in Nat /\ contents \in Seq(Seq(Content)) /\ Len(contents) = 1
        /\ base + Len(contents[1]) < SectionSize
        /\ InSystem(maker, sizes, x) /\ (x.kind = "null" => base > 0)
    BY DEF Crossable
  <1>2. /\ DOMAIN sizes = 1 .. 1 /\ sizes[1] = Len(contents[1]) /\ Len(contents[1]) \in Nat
    <2>1. 1 \in 1 .. Len(contents)
      BY <1>1
    <2> QED
      BY <1>1, <2>1, SizesOfContents
  <1>3. x \in Content /\ InEngine(e, x)
    BY <1>1, ProvidedIsThere DEF InSystem
  <1>4. CrossCell(base, x, cell)
    BY CrossCells
  <1> HIDE DEF x, sizes, cell
  <1> SUFFICES Encoded(e, bases, 1, x, cell)
    BY DEF x, cell
  <1>5. CASE x.kind = "data"
    BY <1>4, <1>5 DEF CrossCell, Encoded, EngineKinds, PrimKinds
  <1>6. CASE x.kind = "null"
    BY <1>1, <1>4, <1>6 DEF CrossCell, Encoded, EngineKinds, PrimKinds
  <1>7. CASE x.kind = "addr"
    <2>1. x.sect = 0 /\ x.offset \in Nat /\ x.offset <= Len(contents[1])
      <3>1. x.sect \in Nat /\ x.offset \in Nat
        BY <1>3, <1>7, AddrContent
      <3>2. x.sect + 1 \in 1 .. 1 /\ x.offset <= sizes[x.sect + 1]
        BY <1>1, <1>2, <1>7 DEF InSystem
      <3>3. x.sect = 0 /\ x.sect + 1 = 1
        BY <3>1, <3>2
      <3> QED
        BY <1>2, <3>1, <3>2, <3>3
    <2>2. bases[x.sect + 1] = base
      BY <2>1
    <2>3. x.sect * SectionSize + (base + x.offset) = base + x.offset /\ base + x.offset \in Nat
            /\ base + x.offset < SectionSize /\ base + x.offset >= base
      BY <1>1, <1>2, <2>1, ImageAssumption
    <2>4. cell = Cell(base + x.offset, TRUE)
      BY <1>4, <1>7 DEF CrossCell
    <2>5. cell.tok >= bases[1]
      BY <2>3, <2>4 DEF Cell
    <2> QED
      BY <1>1, <1>7, <2>2, <2>3, <2>4, <2>5 DEF Encoded, EngineKinds, PrimKinds
  <1>8. CASE x.kind \in EngineKinds
    <2>1. cell = Cell(Token(x), TRUE)
      <3>1. CASE x.kind = "doer"
        <4>1. cell = Cell(-2 - x.n, TRUE)
          BY <1>4, <3>1, Zenon DEF CrossCell
        <4>2. Token(x) = -2 - x.n
          BY <3>1, TokenOf, Zenon
        <4> QED
          BY <4>1, <4>2
      <3>2. CASE x.kind \in PrimKinds
        <4>1. x.group \in Nat /\ x.n \in Nat
          BY <1>3, <3>2, PrimContent
        <4>2. - (x.n + x.group * 512) = Tagged(x.group, x.n, 0)
          BY <4>1 DEF Tagged
        <4> DEFINE t == Tagged(x.group, x.n, 0)
        <4>3. /\ x.kind = "threaded" => cell = Cell(Mask(t, Bit14), TRUE)
              /\ x.kind = "xt" => cell = Cell(t, TRUE)
              /\ x.kind = "label" => cell = Cell(Mask(t, Bit15), TRUE)
          <5> DEFINE u == - (x.n + x.group * 512)
          <5>1. /\ x.kind = "threaded" => cell = Cell(Mask(u, Bit14), TRUE)
                /\ x.kind = "xt" => cell = Cell(u, TRUE)
                /\ x.kind = "label" => cell = Cell(Mask(u, Bit15), TRUE)
            BY <1>4, Zenon DEF CrossCell
          <5>2. u = t
            BY <4>2
          <5> HIDE DEF u, t
          <5> QED
            BY <5>1, <5>2
        <4>4. Mask(t, Bit14) = Tagged(x.group, x.n, Bit14) /\ Mask(t, Bit15) = Tagged(x.group, x.n, Bit15)
          BY <4>1, MaskTag
        <4> HIDE DEF t
        <4> QED
          BY <3>2, <4>3, <4>4, TokenOf DEF PrimKinds, t
      <3> QED
        BY <1>8, <3>1, <3>2 DEF EngineKinds
    <2>2. x.kind \notin {"data", "null", "addr"}
      BY <1>8 DEF EngineKinds, PrimKinds
    <2> QED
      BY <1>3, <1>8, <2>1, <2>2 DEF Encoded
  <1> QED
    BY <1>3, <1>5, <1>6, <1>7, <1>8, KindsOfContent, Zenon
-----------------------------------------------------------------------------
(* Sizes. *)

LEMMA DivBounds ==
  ASSUME NEW a \in Nat, NEW d \in Nat \ {0}
  PROVE  a \div d \in Nat /\ (a \div d) * d <= a /\ a < (a \div d) * d + d
  OBVIOUS

LEMMA Aligned ==
  ASSUME NEW n \in Nat
  PROVE  /\ maxaligned(n) \in Nat /\ maxaligned(n) \in n .. n + FloatSize - 1
         /\ maxaligned(n) % FloatSize = 0
         /\ maxaligned(maxaligned(n)) = maxaligned(n)
         /\ n = 0 => maxaligned(n) = 0
  <1> DEFINE F == FloatSize
             q == (n + F - 1) \div F
  <1>1. F \in Nat \ {0} /\ n + F - 1 \in Nat
    BY StartupAssumption
  <1>2. q \in Nat /\ q * F <= n + F - 1 /\ n + F - 1 < q * F + F
    BY <1>1, DivBounds
  <1>3. \A k \in Nat, o \in Nat : o < F =>
          (k * F + o) \div F = k /\ (k * F + o) % F = o /\ k * F \in Nat
    BY <1>1
  <1>4. maxaligned(n) = q * F
    BY DEF maxaligned
  <1>5. \A k \in Nat : k * F \in Nat
    BY <1>1
  <1> HIDE DEF q
  <1>6. q * F \in Nat
    BY <1>2, <1>5
  <1>7. q * F \in n .. n + F - 1
    <2> DEFINE p == q * F
    <2>1. p \in Nat /\ p <= n + F - 1 /\ n + F - 1 < p + F
      BY <1>2, <1>6
    <2> HIDE DEF p
    <2> QED
      BY <1>1, <2>1 DEF p
  <1>8. (q * F) % F = 0
    BY <1>1, <1>2, <1>3, <1>6
  <1>9. maxaligned(q * F) = q * F
    <2>1. q * F + F - 1 = q * F + (F - 1) /\ F - 1 \in Nat /\ F - 1 < F
      BY <1>1, <1>6
    <2>2. (q * F + F - 1) \div F = q
      BY <1>2, <1>3, <2>1
    <2> QED
      BY <2>2 DEF maxaligned
  <1>10. n = 0 => q * F = 0
    <2> SUFFICES ASSUME n = 0 PROVE q * F = 0
      OBVIOUS
    <2>1. q * F < F
      BY <1>1, <1>7
    <2>2. q = 0
      <3>1. q # 0 => q * F >= F
        BY <1>1, <1>2
      <3> QED
        BY <1>1, <1>6, <2>1, <3>1
    <2> QED
      BY <1>1, <2>2
  <1> QED
    BY <1>4, <1>6, <1>7, <1>8, <1>9, <1>10

-----------------------------------------------------------------------------
(* The invariant. *)

AfterLoad == {"relocate", "checksum", "stacks", "boot", "bootmessage", "quit"}
AfterMap == {"prims", "supers", "section"} \cup AfterLoad
AfterRelocate == {"checksum", "stacks", "boot", "bootmessage", "quit"}
AfterChecksum == {"stacks", "boot", "bootmessage", "quit"}
AfterStacks == {"boot", "bootmessage", "quit"}
Found == {"header", "alloc", "done"} \cup AfterMap
Stages == {"args", "search", "failed", "crashed", "aborted"} \cup Found

Sizes == [SizeNames -> Nat]

(* groups are as they are compiled in, or were summed up once. *)
Globals ==
  [no_dynamic : BOOLEAN, no_dynamic_image : BOOLEAN, offset_image : BOOLEAN,
   prot_exec : BOOLEAN, priminfos : BOOLEAN, ip_update0 : BOOLEAN,
   groups : {InitGroups(engine), SumGroups(InitGroups(engine))},
   size : Sizes, up : {"none", "live", "freed"}, no_dynamic_orig : BOOLEAN]

(* The record that the memory image is. *)
IsMem(m) ==
  /\ m = [at |-> m.at, size |-> m.size, mapped |-> m.mapped, loaded |-> m.loaded,
          broken |-> m.broken, sections |-> m.sections]
  /\ m.size \in Sizes /\ m.mapped \in Sizes

Types ==
  /\ pc \in Stages /\ cmd \in Commands /\ file \in Files /\ path \in Paths
  /\ starts \in 1 .. MaxStarts /\ engine \in Engines
  /\ c \in Globals
  /\ dir \in Nat
  /\ IsMem(mem)

(* No usable image among the files tried so far, or before the one that    *)
(* was found.                                                              *)
Searched ==
  /\ pc = "args" => dir = 0
  /\ pc = "search" => \A d \in 1 .. dir : ~checkimage(Candidates(path)[d])
  /\ pc \in Found =>
       /\ checkimage(Candidates(path)[dir])
       /\ \A d \in 1 .. dir - 1 : ~checkimage(Candidates(path)[d])

(* A size is what was asked for, and later that rounded up; rounding it    *)
(* again changes nothing.  The second set_stack_sizes finds nothing to do, *)
(* so that the dictionary that was mapped before has the size in the       *)
(* header, too.                                                            *)
SizesKept ==
  /\ pc \in {"search", "header"} =>
       \A k \in SizeNames : cmd.size[k] # 0 => c.size[k] = cmd.size[k]
  /\ pc \in {"alloc"} \cup AfterMap =>
       \A k \in SizeNames :
         /\ maxaligned(c.size[k]) = c.size[k]
         /\ cmd.size[k] # 0 => c.size[k] = maxaligned(cmd.size[k])
  /\ pc \in {"alloc", "prims", "supers"} /\ file.cut.at # "header" =>
       \A k \in SizeNames : c.size[k] = 0 => file.size[k] = 0
  /\ pc \in {"prims", "supers"} => mem.size = file.size /\ file.cut.at # "header"
  /\ pc \in AfterMap => mem.mapped["dict"] = c.size["dict"]
  /\ pc \in AfterMap \ {"prims", "supers"} => mem.size = c.size
  /\ pc \in AfterStacks => mem.mapped = c.size

LEMMA SumTwice ==
  ASSUME IsEngine(engine)
  PROVE  SumGroups(SumGroups(InitGroups(engine))) = SumGroups(InitGroups(engine))
  <1>1. GroupsSummed(engine, SumGroups(InitGroups(engine)))
    BY SumOnce
  <1> QED
    BY <1>1, SumAgain

LEMMA TypesInit ==
  ASSUME Init
  PROVE  Types
  <1>1. pc \in Stages /\ dir \in Nat /\ starts \in 1 .. MaxStarts
    BY StartupAssumption DEF Init, Stages
  <1>2. cmd \in Commands /\ file \in Files /\ path \in Paths /\ engine \in Engines
    BY DEF Init
  <1>3. Zeros \in Sizes
    BY DEF Zeros, Sizes
  <1>4. c \in Globals
    BY <1>3 DEF Init, Globals
  <1>5. IsMem(mem)
    BY <1>3 DEF Init, NoMem, IsMem
  <1> QED
    BY <1>1, <1>2, <1>4, <1>5 DEF Types

LEMMA SizesSet ==
  ASSUME NEW size \in Sizes, NEW header \in Sizes
  PROVE  /\ set_stack_sizes(size, header).size \in Sizes
         /\ set_stack_sizes(size, header).header = set_stack_sizes(size, header).size
         /\ \A k \in SizeNames :
              set_stack_sizes(size, header).size[k] =
                maxaligned(IF size[k] = 0 THEN header[k] ELSE size[k])
  <1> DEFINE v(k) == IF size[k] = 0 THEN header[k] ELSE size[k]
             s == [k \in SizeNames |-> maxaligned(v(k))]
  <1>1. \A k \in SizeNames : v(k) \in Nat
    BY DEF Sizes
  <1> HIDE DEF v
  <1>2. \A k \in SizeNames : maxaligned(v(k)) \in Nat
    BY <1>1, Aligned
  <1>3. s \in Sizes
    BY <1>2 DEF Sizes
  <1>4. set_stack_sizes(size, header) = [size |-> s, header |-> s]
    BY DEF set_stack_sizes, v
  <1>5. \A k \in SizeNames : s[k] = maxaligned(v(k))
    OBVIOUS
  <1> HIDE DEF s
  <1>6. set_stack_sizes(size, header).size = s /\ set_stack_sizes(size, header).header = s
    BY <1>4
  <1> QED
    BY <1>3, <1>5, <1>6 DEF v


LEMMA TypesNext ==
  ASSUME Types, [Next]_vars
  PROVE  Types'
  <1>1. /\ IsEngine(engine) /\ file.size \in Sizes /\ cmd.size \in Sizes /\ cmd.bad \in SizeNames \cup {"none"}
        /\ engine.relocatable \in BOOLEAN /\ engine.ip_update \in BOOLEAN
        /\ cmd.noDynImage \in BOOLEAN
    BY EnvironmentAssumption DEF Types, IsEngine, Sizes
  <1>2. /\ IsMem(mem) /\ c \in Globals /\ dir \in Nat /\ pc \in Stages
        /\ starts \in 1 .. MaxStarts
    BY DEF Types
  <1>3. c.size \in Sizes /\ mem.size \in Sizes /\ mem.mapped \in Sizes
    BY <1>2 DEF Globals, IsMem
  <1>4. engine' = engine => Globals' = Globals
    BY DEF Globals
  <1>5. ASSUME pc' \in Stages, UNCHANGED <<cmd, file, path, starts, engine>>,
               c' \in Globals, dir' \in Nat, IsMem(mem')
        PROVE  Types'
    BY <1>4, <1>5 DEF Types
  <1>6. CASE gforth_args
    <2>1. c' \in Globals
      <3>1. CASE cmd.bad # "none"
        <4> DEFINE z == [c.size EXCEPT ![cmd.bad] = UCellMax]
        <4>1. z \in Sizes
          BY <1>1, <1>3, <3>1, StartupAssumption DEF Sizes
        <4>2. c' = [c EXCEPT !.size = z]
          BY <1>6, <3>1 DEF gforth_args
        <4> HIDE DEF z
        <4> QED
          BY <1>2, <4>1, <4>2 DEF Globals
      <3>2. CASE cmd.bad = "none"
        <4> DEFINE z == [k \in SizeNames |-> IF cmd.size[k] = 0 THEN c.size[k] ELSE cmd.size[k]]
                   n == Option(cmd.noDynamic, c.no_dynamic)
                   i == c.no_dynamic_image \/ cmd.noDynImage
                   o == Option(cmd.offset, c.offset_image)
        <4>1. z \in Sizes
          BY <1>1, <1>3 DEF Sizes
        <4>2. n \in BOOLEAN /\ i \in BOOLEAN /\ o \in BOOLEAN
          BY <1>1, <1>2 DEF Option, Globals
        <4>3. c' = [c EXCEPT !.no_dynamic = n, !.no_dynamic_orig = n, !.no_dynamic_image = i,
                             !.offset_image = o, !.size = z]
          BY <1>6, <3>2 DEF gforth_args
        <4> HIDE DEF z, n, i, o
        <4> QED
          BY <1>2, <4>1, <4>2, <4>3 DEF Globals
      <3> QED
        BY <3>1, <3>2
    <2>2. pc' \in Stages
      BY <1>6 DEF gforth_args, Fail, Stages
    <2> QED
      BY <1>2, <1>5, <1>6, <2>1, <2>2 DEF gforth_args
  <1>7. CASE open_image_file
    <2>1. dir' \in Nat /\ pc' \in Stages
      BY <1>2, <1>7 DEF open_image_file, Fail, Stages, Found
    <2> QED
      BY <1>2, <1>5, <1>7, <2>1 DEF open_image_file
  <1>8. CASE ReadHeader
    <2>1. c' \in Globals /\ pc' \in Stages
      <3>1. CASE c' = c /\ pc' = "failed"
        BY <1>2, <3>1 DEF Stages
      <3>2. CASE ~(c' = c /\ pc' = "failed")
        <4>1. PICK header \in IF file.cut.at = "header" THEN [SizeNames -> Garbage] ELSE {file.size} :
                c' = [c EXCEPT !.size = set_stack_sizes(c.size, header).size] /\ pc' = "alloc"
          BY <1>8, <3>2 DEF ReadHeader, Fail
        <4>2. header \in Sizes
          BY <1>1, <4>1, StartupAssumption DEF Sizes
        <4>3. set_stack_sizes(c.size, header).size \in Sizes
          BY <1>3, <4>2, SizesSet
        <4> QED
          BY <1>2, <4>1, <4>3 DEF Globals, Stages, Found
      <3> QED
        BY <3>1, <3>2
    <2> QED
      BY <1>2, <1>5, <1>8, <2>1 DEF ReadHeader
  <1>9. CASE dict_alloc_read
    <2>1. c' \in Globals
      BY <1>2, <1>9 DEF dict_alloc_read, Globals
    <2>2. IsMem(mem')
      <3>1. CASE mem' = mem
        BY <1>2, <3>1
      <3>2. CASE mem' # mem
        <4> DEFINE z == [mem.mapped EXCEPT !["dict"] = c.size["dict"]]
        <4>0. PICK at \in Places :
                mem' = [mem EXCEPT !.at = at, !.size = file.size, !.mapped["dict"] = c.size["dict"]]
          BY <1>9, <3>2 DEF dict_alloc_read
        <4>1. mem' = [mem EXCEPT !.at = at, !.size = file.size, !.mapped = z]
          BY <1>2, <4>0 DEF IsMem
        <4>2. z \in Sizes
          BY <1>3 DEF Sizes, SizeNames
        <4> HIDE DEF z
        <4> QED
          BY <1>1, <1>2, <4>1, <4>2 DEF IsMem
      <3> QED
        BY <3>1, <3>2
    <2>3. pc' \in Stages
      BY <1>9 DEF dict_alloc_read, Fail, Stages, Found, AfterMap
    <2> QED
      BY <1>2, <1>5, <1>9, <2>1, <2>2, <2>3 DEF dict_alloc_read
  <1>10. CASE check_prims
    <2>1. c' \in Globals
      BY <1>1, <1>2, <1>10 DEF check_prims, Globals
    <2>2. pc' \in Stages
      BY <1>10 DEF check_prims, Stages, Found, AfterMap
    <2> QED
      BY <1>2, <1>5, <1>10, <2>1, <2>2 DEF check_prims
  <1>11. CASE prepare_super_table
    <2> DEFINE z == set_stack_sizes(c.size, mem.size)
               i == c.ip_update0 \/ IpUpdateRelocatable
    <2>1. z.size \in Sizes /\ z.header \in Sizes
      BY <1>3, SizesSet
    <2>2. i \in BOOLEAN
      BY <1>1, <1>2 DEF IpUpdateRelocatable, Globals
    <2>3. \/ c' = c /\ mem' = mem /\ pc' = "aborted"
          \/ /\ c' = [c EXCEPT !.ip_update0 = i, !.size = z.size]
             /\ mem' = [mem EXCEPT !.size = z.header]
             /\ pc' = "section"
      BY <1>11 DEF prepare_super_table
    <2> HIDE DEF z, i
    <2>4. c' \in Globals
      BY <1>2, <2>1, <2>2, <2>3 DEF Globals
    <2>5. IsMem(mem')
      BY <1>2, <2>1, <2>3 DEF IsMem
    <2>6. pc' \in Stages
      BY <2>3 DEF Stages, Found, AfterMap
    <2> QED
      BY <1>2, <1>5, <1>11, <2>4, <2>5, <2>6 DEF prepare_super_table
  <1>12. CASE LoadSection
    <2>1. IsMem(mem')
      BY <1>2, <1>12 DEF LoadSection, IsMem
    <2>2. pc' \in Stages
      BY <1>2, <1>12 DEF LoadSection, Fail, Stages, Found, AfterMap, AfterLoad
    <2> QED
      BY <1>2, <1>5, <1>12, <2>1, <2>2 DEF LoadSection
  <1>13. CASE Relocate
    <2>1. c' \in Globals
      <3>1. SumGroups(c.groups) \in {InitGroups(engine), SumGroups(InitGroups(engine))}
        BY <1>1, <1>2, SumTwice DEF Globals
      <3>2. c' = [c EXCEPT !.groups = SumGroups(c.groups), !.no_dynamic = c.no_dynamic_orig]
        BY <1>13 DEF Relocate
      <3> QED
        BY <1>2, <3>1, <3>2 DEF Globals
    <2>2. IsMem(mem')
      <3>1. PICK z : mem' = [mem EXCEPT !.sections = z]
        BY <1>13 DEF Relocate
      <3> QED
        BY <1>2, <3>1 DEF IsMem
    <2>3. pc' \in Stages
      BY <1>13 DEF Relocate, Stages, Found, AfterMap, AfterLoad
    <2> QED
      BY <1>2, <1>5, <1>13, <2>1, <2>2, <2>3 DEF Relocate
  <1>14. CASE Checksum
    <2>1. pc' \in Stages
      BY <1>14 DEF Checksum, Fail, Stages, Found, AfterMap, AfterLoad
    <2> QED
      BY <1>2, <1>5, <1>14, <2>1 DEF Checksum
  <1>15. CASE Stacks
    <2>1. c' \in Globals
      BY <1>2, <1>15 DEF Stacks, Globals
    <2>2. IsMem(mem')
      <3> DEFINE z == [k \in SizeNames |-> IF k = "dict" THEN mem.mapped[k] ELSE c.size[k]]
      <3>1. mem' = [mem EXCEPT !.mapped = z]
        BY <1>15 DEF Stacks
      <3>2. z \in Sizes
        BY <1>3 DEF Sizes
      <3> HIDE DEF z
      <3> QED
        BY <1>2, <3>1, <3>2 DEF IsMem
    <2>3. pc' \in Stages
      BY <1>15 DEF Stacks, Stages, Found, AfterMap, AfterLoad
    <2> QED
      BY <1>2, <1>5, <1>15, <2>1, <2>2, <2>3 DEF Stacks
  <1>16. CASE Run
    <2>1. pc' \in Stages
      BY <1>16 DEF Run, Stages, Found, AfterMap, AfterLoad
    <2> QED
      BY <1>2, <1>5, <1>16, <2>1 DEF Run
  <1>17. CASE StartAgain
    <2>1. c' \in Globals
      BY <1>2, <1>17 DEF StartAgain, Globals
    <2>2. IsMem(mem')
      <3>1. IsMem(NoMem)
        BY DEF NoMem, IsMem, Zeros, Sizes
      <3> QED
        BY <1>2, <1>17, <3>1 DEF StartAgain
    <2>3. starts' \in 1 .. MaxStarts
      BY <1>2, <1>17, StartupAssumption DEF StartAgain
    <2>4. pc' \in Stages /\ cmd' \in Commands /\ dir' \in Nat
      BY <1>2, <1>17 DEF StartAgain, Types, Stages
    <2> QED
      BY <1>4, <1>17, <2>1, <2>2, <2>3, <2>4 DEF StartAgain, Types
  <1>18. CASE UNCHANGED vars
    BY <1>2, <1>5, <1>18 DEF vars
  <1> QED
    BY <1>6, <1>7, <1>8, <1>9, <1>10, <1>11, <1>12, <1>13, <1>14, <1>15, <1>16, <1>17, <1>18
       DEF Next


LEMMA SearchedNext ==
  ASSUME Types, Searched, [Next]_vars
  PROVE  Searched'
  <1> USE DEF Found, AfterMap, AfterLoad
  <1>1. dir \in Nat /\ pc \in Stages
    BY DEF Types
  <1>2. CASE gforth_args
    BY <1>1, <1>2 DEF gforth_args, Fail, Searched
  <1>3. CASE open_image_file
    <2> DEFINE U(d) == checkimage(Candidates(path)[d])
    <2>1. pc = "search" /\ path' = path
      BY <1>3 DEF open_image_file
    <2>2. \A d \in 1 .. dir : ~U(d)
      BY <2>1 DEF Searched
    <2>3. CASE dir = Len(Candidates(path))
      BY <1>3, <2>3 DEF open_image_file, Fail, Searched
    <2>4. CASE dir # Len(Candidates(path))
      <3>1. dir' = dir + 1 /\ pc' = IF U(dir + 1) THEN "header" ELSE "search"
        BY <1>3, <2>4 DEF open_image_file
      <3>2. \A d : checkimage(Candidates(path')[d]) = U(d)
        BY <2>1
      <3> HIDE DEF U
      <3>3. CASE U(dir + 1)
        <4>1. dir' - 1 = dir
          BY <1>1, <3>1
        <4> QED
          BY <2>2, <3>1, <3>2, <3>3, <4>1 DEF Searched
      <3>4. CASE ~U(dir + 1)
        <4>1. \A d \in 1 .. dir + 1 : ~U(d)
          BY <1>1, <2>2, <3>4
        <4> QED
          BY <3>1, <3>2, <3>4, <4>1 DEF Searched
      <3> QED
        BY <3>3, <3>4
    <2> QED
      BY <2>3, <2>4
  <1>4. CASE ReadHeader
    BY <1>4 DEF ReadHeader, Fail, Searched
  <1>5. CASE dict_alloc_read
    BY <1>5 DEF dict_alloc_read, Fail, Searched
  <1>6. CASE check_prims
    BY <1>6 DEF check_prims, Searched
  <1>7. CASE prepare_super_table
    BY <1>7 DEF prepare_super_table, Searched
  <1>8. CASE LoadSection
    BY <1>8 DEF LoadSection, Fail, Searched
  <1>9. CASE Relocate
    BY <1>9 DEF Relocate, Searched
  <1>10. CASE Checksum
    BY <1>10 DEF Checksum, Fail, Searched
  <1>11. CASE Stacks
    BY <1>11 DEF Stacks, Searched
  <1>12. CASE Run
    BY <1>12 DEF Run, Searched
  <1>13. CASE StartAgain
    BY <1>13 DEF StartAgain, Searched
  <1>14. CASE UNCHANGED vars
    BY <1>14 DEF vars, Searched
  <1> QED
    BY <1>2, <1>3, <1>4, <1>5, <1>6, <1>7, <1>8, <1>9, <1>10, <1>11, <1>12, <1>13, <1>14 DEF Next

LEMMA SizesNext ==
  ASSUME Types, SizesKept, [Next]_vars
  PROVE  SizesKept'
  <1> USE DEF AfterMap, AfterLoad, AfterStacks
  <1>1. c \in Globals /\ IsMem(mem)
    BY DEF Types
  <1>2. c.size \in Sizes /\ mem.size \in Sizes /\ file.size \in Sizes /\ cmd.size \in Sizes
          /\ mem.mapped \in Sizes
    BY <1>1, EnvironmentAssumption DEF Types, Globals, IsMem, Sizes
  <1>3. CASE gforth_args
    <2>1. CASE cmd.bad # "none"
      BY <1>3, <2>1 DEF gforth_args, Fail, SizesKept
    <2>2. CASE cmd.bad = "none"
      <3>1. \A k \in SizeNames : c'.size[k] = IF cmd.size[k] = 0 THEN c.size[k] ELSE cmd.size[k]
        <4> DEFINE z == [k \in SizeNames |-> IF cmd.size[k] = 0 THEN c.size[k] ELSE cmd.size[k]]
                   n == Option(cmd.noDynamic, c.no_dynamic)
                   i == c.no_dynamic_image \/ cmd.noDynImage
                   o == Option(cmd.offset, c.offset_image)
        <4>1. c' = [c EXCEPT !.no_dynamic = n, !.no_dynamic_orig = n, !.no_dynamic_image = i,
                             !.offset_image = o, !.size = z]
          BY <1>3, <2>2 DEF gforth_args
        <4> HIDE DEF z, n, i, o
        <4>2. c'.size = z
          BY <1>1, <4>1 DEF Globals
        <4> QED
          BY <4>2 DEF z
      <3>2. pc' = "search" /\ cmd' = cmd
        BY <1>3, <2>2 DEF gforth_args
      <3> QED
        BY <3>1, <3>2 DEF SizesKept
    <2> QED
      BY <2>1, <2>2
  <1>4. CASE open_image_file
    BY <1>4 DEF open_image_file, Fail, SizesKept
  <1>5. CASE ReadHeader
    <2>1. CASE pc' = "failed"
      BY <2>1 DEF SizesKept
    <2>2. CASE pc' # "failed"
      <3>1. PICK header \in IF file.cut.at = "header" THEN [SizeNames -> Garbage] ELSE {file.size} :
              c' = [c EXCEPT !.size = set_stack_sizes(c.size, header).size] /\ pc' = "alloc"
        BY <1>5, <2>2 DEF ReadHeader, Fail
      <3>2. header \in Sizes
        BY <1>2, <3>1, StartupAssumption DEF Sizes
      <3>3. c'.size = set_stack_sizes(c.size, header).size
        BY <1>1, <3>1 DEF Globals
      <3>4. \A k \in SizeNames : c'.size[k] = maxaligned(IF c.size[k] = 0 THEN header[k] ELSE c.size[k])
        BY <1>2, <3>2, <3>3, SizesSet
      <3>5. \A k \in SizeNames : cmd.size[k] # 0 => c.size[k] = cmd.size[k]
        BY <1>5 DEF ReadHeader, SizesKept
      <3>6. pc' = "alloc" /\ UNCHANGED <<file, cmd>>
        BY <1>5, <3>1 DEF ReadHeader
      <3>7. ASSUME NEW k \in SizeNames
            PROVE  /\ maxaligned(c'.size[k]) = c'.size[k]
                   /\ cmd.size[k] # 0 => c'.size[k] = maxaligned(cmd.size[k])
                   /\ file.cut.at # "header" /\ c'.size[k] = 0 => file.size[k] = 0
        <4> DEFINE v == IF c.size[k] = 0 THEN header[k] ELSE c.size[k]
        <4>1. v \in Nat /\ c'.size[k] = maxaligned(v) /\ cmd.size[k] \in Nat
          BY <1>2, <3>2, <3>4 DEF Sizes
        <4>2. maxaligned(maxaligned(v)) = maxaligned(v) /\ maxaligned(v) \in v .. v + FloatSize - 1
          BY <4>1, Aligned
        <4>3. cmd.size[k] # 0 => v = cmd.size[k]
          BY <3>5
        <4>4. maxaligned(v) = 0 => v = 0
          BY <4>1, <4>2
        <4>5. v = 0 => header[k] = 0
          BY <1>2, <3>2 DEF Sizes
        <4>6. file.cut.at # "header" => header = file.size
          BY <3>1
        <4> HIDE DEF v
        <4> QED
          BY <4>1, <4>2, <4>3, <4>4, <4>5, <4>6
      <3> QED
        BY <3>6, <3>7 DEF SizesKept
    <2> QED
      BY <2>1, <2>2
  <1>6. CASE dict_alloc_read
    <2>1. CASE pc' \in {"failed", "crashed"}
      BY <2>1 DEF SizesKept
    <2>2. CASE pc' \notin {"failed", "crashed"}
      <3>1. PICK at \in Places :
              /\ mem' = [mem EXCEPT !.at = at, !.size = file.size, !.mapped["dict"] = c.size["dict"]]
              /\ pc' = "prims" /\ file.cut.at # "header"
        BY <1>6, <2>2 DEF dict_alloc_read, Fail
      <3>2. mem'.size = file.size /\ mem'.mapped["dict"] = c.size["dict"]
        BY <1>1, <1>2, <3>1 DEF IsMem, Sizes, SizeNames
      <3>3. c'.size = c.size
        BY <1>1, <1>6 DEF dict_alloc_read, Globals
      <3>4. pc = "alloc" /\ UNCHANGED <<cmd, file>>
        BY <1>6 DEF dict_alloc_read
      <3> QED
        BY <3>1, <3>2, <3>3, <3>4 DEF SizesKept
    <2> QED
      BY <2>1, <2>2
  <1>7. CASE check_prims
    <2>1. c'.size = c.size
      BY <1>1, <1>7 DEF check_prims, Globals
    <2> QED
      BY <1>7, <2>1 DEF check_prims, SizesKept
  <1>8. CASE prepare_super_table
    <2>1. CASE pc' = "aborted"
      BY <2>1 DEF SizesKept
    <2>2. CASE pc' # "aborted"
      <3> DEFINE z == set_stack_sizes(c.size, mem.size)
      <3>1. /\ c' = [c EXCEPT !.ip_update0 = c.ip_update0 \/ IpUpdateRelocatable, !.size = z.size]
            /\ mem' = [mem EXCEPT !.size = z.header]
            /\ pc' = "section" /\ pc = "supers" /\ cmd' = cmd
        BY <1>8, <2>2 DEF prepare_super_table
      <3>2. /\ z.header = z.size /\ z.size \in Sizes
            /\ \A k \in SizeNames : z.size[k] = maxaligned(IF c.size[k] = 0 THEN mem.size[k] ELSE c.size[k])
        BY <1>2, SizesSet
      <3> HIDE DEF z
      <3>3. c'.size = z.size /\ mem'.size = z.size /\ mem'.mapped = mem.mapped
        BY <1>1, <3>1, <3>2 DEF Globals, IsMem
      <3>4. /\ mem.size = file.size /\ mem.mapped["dict"] = c.size["dict"]
            /\ \A k \in SizeNames :
                 /\ maxaligned(c.size[k]) = c.size[k]
                 /\ cmd.size[k] # 0 => c.size[k] = maxaligned(cmd.size[k])
                 /\ c.size[k] = 0 => file.size[k] = 0
        BY <3>1 DEF SizesKept
      <3>5. \A k \in SizeNames : z.size[k] = c.size[k]
        BY <3>2, <3>4
      <3>6. "dict" \in SizeNames
        BY DEF SizeNames
      <3> QED
        BY <3>1, <3>3, <3>4, <3>5, <3>6 DEF SizesKept
    <2> QED
      BY <2>1, <2>2
  <1>9. CASE LoadSection
    <2>1. mem'.size = mem.size /\ mem'.mapped = mem.mapped
      BY <1>1, <1>9 DEF LoadSection, IsMem
    <2>2. pc = "section" /\ pc' \in {"section", "relocate", "failed"} /\ UNCHANGED <<c, cmd>>
      BY <1>9 DEF LoadSection, Fail
    <2> QED
      BY <2>1, <2>2 DEF SizesKept
  <1>10. CASE Relocate
    <2>1. mem'.size = mem.size /\ c'.size = c.size /\ mem'.mapped = mem.mapped
      <3>1. PICK z : mem' = [mem EXCEPT !.sections = z]
        BY <1>10 DEF Relocate
      <3>2. c' = [c EXCEPT !.groups = SumGroups(c.groups), !.no_dynamic = c.no_dynamic_orig]
        BY <1>10 DEF Relocate
      <3> QED
        BY <1>1, <3>1, <3>2 DEF IsMem, Globals
    <2>2. pc = "relocate" /\ pc' = "checksum" /\ cmd' = cmd
      BY <1>10 DEF Relocate
    <2> QED
      BY <2>1, <2>2 DEF SizesKept
  <1>11. CASE Checksum
    BY <1>11 DEF Checksum, Fail, SizesKept
  <1>12. CASE Stacks
    <2> DEFINE z == [k \in SizeNames |-> IF k = "dict" THEN mem.mapped[k] ELSE c.size[k]]
    <2>1. c'.size = c.size
      BY <1>1, <1>12 DEF Stacks, Globals
    <2>2. mem' = [mem EXCEPT !.mapped = z] /\ pc = "stacks" /\ pc' = "boot" /\ cmd' = cmd
      BY <1>12 DEF Stacks
    <2>3. mem.mapped["dict"] = c.size["dict"] /\ mem.size = c.size
      BY <2>2 DEF SizesKept
    <2>4. z = c.size
      BY <1>2, <2>3 DEF Sizes
    <2> HIDE DEF z
    <2>5. mem'.mapped = c.size /\ mem'.size = mem.size
      BY <1>1, <2>2, <2>4 DEF IsMem
    <2> QED
      BY <2>1, <2>2, <2>3, <2>5 DEF SizesKept
  <1>13. CASE Run
    BY <1>13 DEF Run, SizesKept
  <1>14. CASE StartAgain
    BY <1>14 DEF StartAgain, SizesKept
  <1>15. CASE UNCHANGED vars
    BY <1>15 DEF vars, SizesKept
  <1> QED
    BY <1>3, <1>4, <1>5, <1>6, <1>7, <1>8, <1>9, <1>10, <1>11, <1>12, <1>13, <1>14, <1>15 DEF Next


-----------------------------------------------------------------------------
(* Loading and relocating. *)

LEMMA LengthOf ==
  ASSUME NEW f, NEW n \in Nat, f = [i \in 1 .. n |-> f[i]]
  PROVE  Len(f) = n
  <1> DEFINE S == {f[i] : i \in 1 .. n}
  <1>1. f \in [1 .. n -> S]
    BY Zenon
  <1>2. f \in Seq(S)
    BY <1>1
  <1> HIDE DEF S
  <1>3. DOMAIN f = 1 .. Len(f) /\ Len(f) \in Nat
    BY <1>2, LenProperties
  <1>4. DOMAIN f = 1 .. n
    BY Zenon
  <1> QED
    BY <1>3, <1>4

(* An image has the sections that its contents have. *)
LEMMA FileLength ==
  ASSUME NEW f \in Files
  PROVE  /\ Len(f.contents) \in Nat /\ Len(f.contents) > 0
         /\ DOMAIN f.contents = 1 .. Len(f.contents)
         /\ Len(f.img.sections) = Len(f.contents)
  <1> DEFINE N == Len(f.contents)
  <1>1. f.contents \in Seq(Seq(Content)) /\ N > 0
    BY FilesAssumption DEF Comparable, Crossable, Dumpable
  <1>2. N \in Nat /\ DOMAIN f.contents = 1 .. N
    BY <1>1, SizesOfContents
  <1> HIDE DEF N
  <1>4. CASE f.img = comp_image(f.d1, f.d2, f.contents)
    <2> DEFINE F(s) == [i \in DOMAIN f.contents[s] |->
                          CompareCell(f.d1, f.d2, SizesOf(f.contents), f.contents[s][i])]
    <2>1. f.img.sections = [s \in DOMAIN f.contents |-> F(s)]
      BY <1>4 DEF comp_image
    <2> HIDE DEF F
    <2>2. f.img.sections = [s \in 1 .. N |-> f.img.sections[s]]
      BY <1>2, <2>1, Zenon
    <2> QED
      BY <1>1, <1>2, <2>2, LengthOf, Zenon DEF N
  <1>5. CASE f.img = dump_fi(f.d, f.contents)
    <2> DEFINE F(s) == [i \in DOMAIN f.contents[s] |->
                          Cell(DumpCell(f.d.e, f.d.at, f.contents[s][i]), FALSE)]
    <2>1. f.img.sections = [s \in DOMAIN f.contents |-> F(s)]
      BY <1>5 DEF dump_fi
    <2> HIDE DEF F
    <2>2. f.img.sections = [s \in 1 .. N |-> f.img.sections[s]]
      BY <1>2, <2>1, Zenon
    <2> QED
      BY <1>1, <1>2, <2>2, LengthOf, Zenon DEF N
  <1>6. CASE f.img = CrossImage(f.e, f.base, f.contents) /\ Crossable(f.e, f.base, f.contents)
    <2>1. N = 1
      BY <1>6 DEF Crossable, N
    <2>2. f.img.sections = <<[i \in DOMAIN f.contents[1] |-> CrossTok(f.base, f.contents[1][i])]>>
      BY <1>6, CrossSections
    <2> QED
      BY <1>1, <1>2, <2>1, <2>2 DEF N
  <1> QED
    BY <1>1, <1>2, <1>4, <1>5, <1>6, FilesAssumption, Zenon DEF N

LEMMA ContentOfFile ==
  ASSUME NEW f \in Files, NEW s \in DOMAIN f.contents, NEW i \in DOMAIN f.contents[s]
  PROVE  f.contents[s][i] \in Content
  <1>1. f.contents \in Seq(Seq(Content))
    BY FilesAssumption DEF Comparable, Crossable, Dumpable
  <1>2. s \in 1 .. Len(f.contents)
    BY <1>1
  <1>3. f.contents[s] \in Seq(Content)
    BY <1>1, <1>2, ElementOfSeq
  <1>4. i \in 1 .. Len(f.contents[s])
    BY <1>3
  <1> QED
    BY <1>3, <1>4, ElementOfSeq

(* What the sections that were read whole are after relocation, with       *)
(* sections at at, and with these bases: relocated, or as they were read   *)
(* when this or an earlier section has no relocation bits.                 *)
SectionsAre(sections, e, groups, at, bases, img, loaded) ==
  \A s \in 1 .. loaded :
    LET r == gforth_relocate_range(e, groups, at, bases, img.sections[s], s)
    IN  /\ (\A t \in 1 .. s : HasBits(img.bases[t])) =>
             /\ sections[s].cells = IF s = 1 THEN [r.cells EXCEPT ![1] = at[1]] ELSE r.cells
             /\ sections[s].compile = r.compile
             /\ sections[s].targets = r.targets
        /\ (\E t \in 1 .. s : ~HasBits(img.bases[t])) =>
             /\ sections[s].cells = [i \in DOMAIN img.sections[s] |-> img.sections[s][i].tok]
             /\ sections[s].compile = {}

Fits(s) == HasBits(file.img.bases[s]) \/ file.img.bases[s] = mem.at[s]

(* A section was loaded because its address fits or it can be relocated;   *)
(* after that, the sections are what gforth_relocate makes of the file for *)
(* the tables of this start; and the image has the checksum of the engine, *)
(* or none.                                                                *)
Relocated ==
  /\ pc \in {"args", "search", "header", "alloc", "prims", "supers"} =>
       mem.loaded = 0 /\ mem.broken = "no"
  /\ pc \in AfterMap =>
       /\ mem.at \in Places /\ Len(mem.at) = Len(file.img.sections)
       /\ mem.loaded \in 0 .. Len(file.contents)
       /\ mem.broken \in {"no", "bits", "cells"}
       /\ \A s \in 1 .. mem.loaded : Fits(s)
  /\ pc = "section" => mem.loaded < Len(file.contents)
  /\ pc \in AfterLoad =>
       (EndsIn("end", Len(file.contents)) => mem.loaded = Len(file.contents))
  /\ pc \in AfterRelocate =>
       /\ c.groups = SumGroups(InitGroups(engine))
       /\ \E g \in Garbage :
            SectionsAre(mem.sections, EngineAt(engine, starts), c.groups,
                        Sections, Bases(g), file.img, mem.loaded)
  /\ pc \in AfterChecksum => file.img.checksum \in {0, EngineAt(engine, starts).vm_prims}

StartupInvariant == Types /\ Searched /\ SizesKept /\ Relocated

LEMMA ReadOfBroken ==
  ASSUME mem.broken \in {"no", "bits", "cells"}, NEW cells, NEW b \in Broken(cells)
  PROVE  b = <<>> \/ \E v : b = <<v>>
  <1>1. CASE mem.broken = "no"
    BY <1>1 DEF Broken
  <1>2. CASE mem.broken = "bits"
    BY <1>2 DEF Broken
  <1>3. CASE mem.broken = "cells"
    BY <1>3 DEF Broken
  <1> QED
    BY <1>1, <1>2, <1>3

LEMMA WholeRead ==
  ASSUME mem.loaded \in Nat, NEW b, b = <<>> \/ \E v : b = <<v>>, NEW s \in 1 .. mem.loaded
  PROVE  /\ s \in DOMAIN (Whole \o b)
         /\ (Whole \o b)[s] = Read(file.img.sections[s], HasBits(file.img.bases[s]))
  <1> DEFINE W == Whole
             R(t) == Read(file.img.sections[t], HasBits(file.img.bases[t]))
             n == mem.loaded
  <1>1. W = [t \in 1 .. n |-> R(t)]
    BY DEF Whole
  <1>2. PICK v : b = <<>> \/ b = <<v>>
    OBVIOUS
  <1> DEFINE S == {R(t) : t \in 1 .. n} \cup {v}
  <1> HIDE DEF R, n
  <1>3. n \in Nat /\ s \in 1 .. n
    BY DEF n
  <1>4. W \in Seq(S) /\ Len(W) = n /\ W[s] = R(s)
    <2>1. W \in [1 .. n -> S]
      BY <1>1
    <2>2. W \in Seq(S)
      BY <1>3, <2>1
    <2>3. W = [t \in 1 .. n |-> W[t]]
      BY <1>1, Zenon
    <2> QED
      BY <1>1, <1>3, <2>2, <2>3, LengthOf, Zenon
  <1>5. b \in Seq(S)
    <2>1. v \in S
      OBVIOUS
    <2> HIDE DEF S
    <2>2. <<>> \in Seq(S) /\ <<v>> \in Seq(S)
      BY <2>1
    <2> QED
      BY <1>2, <2>2
  <1> HIDE DEF S, W
  <1>6. (W \o b)[s] = W[s] /\ s \in DOMAIN (W \o b)
    BY <1>3, <1>4, <1>5, ConcatProperties
  <1> QED
    BY <1>4, <1>6 DEF R, W


LEMMA ReadFields ==
  ASSUME NEW cells, NEW base
  PROVE  /\ Read(cells, HasBits(base)).cells = cells
         /\ Read(cells, HasBits(base)).bits <=> HasBits(base)
  <1> DEFINE h == HasBits(base)
  <1>1. h \in BOOLEAN
    BY DEF HasBits
  <1> HIDE DEF h
  <1>2. Read(cells, h).cells = cells /\ Read(cells, h).bits = h
    BY DEF Read
  <1> QED
    BY <1>1, <1>2 DEF h

LEMMA RelocateMakes ==
  ASSUME Types, Relocate, mem.loaded \in Nat, mem.broken \in {"no", "bits", "cells"}
  PROVE  /\ \E g \in Garbage :
              SectionsAre(mem'.sections, EngineAt(engine, starts), SumGroups(c.groups),
                          Sections, Bases(g), file.img, mem.loaded)
         /\ c'.groups = SumGroups(c.groups)
         /\ mem'.at = mem.at /\ mem'.loaded = mem.loaded /\ mem'.broken = mem.broken
  <1> DEFINE img == file.img
             e == EngineAt(engine, starts)
             groups == SumGroups(c.groups)
             native == ~c.no_dynamic /\ ~c.no_dynamic_image
             read(b) == Whole \o b
             r(g, b) == gforth_relocate(e, groups, Sections, Bases(g), read(b))
             z(g, b) == [s \in DOMAIN r(g, b) |->
                           [cells |-> r(g, b)[s].cells, compile |-> r(g, b)[s].compile,
                            targets |-> r(g, b)[s].targets, native |-> native]]
             R(g, s) == gforth_relocate_range(e, groups, Sections, Bases(g), img.sections[s], s)
  <1>1. c \in Globals /\ IsMem(mem)
    BY DEF Types
  <1>2. PICK g \in Garbage, b \in Broken(file.img.sections[There]) :
          mem' = [mem EXCEPT !.sections = z(g, b)]
    BY DEF Relocate, Engine
  <1>3. c' = [c EXCEPT !.groups = groups, !.no_dynamic = c.no_dynamic_orig]
    BY DEF Relocate
  <1>4. b = <<>> \/ \E v : b = <<v>>
    BY ReadOfBroken
  <1>5. \A s \in 1 .. mem.loaded :
          s \in DOMAIN read(b) /\ read(b)[s] = Read(img.sections[s], HasBits(img.bases[s]))
    BY <1>4, WholeRead
  <1> HIDE DEF read
  <1>6. \A s \in 1 .. mem.loaded :
          /\ s \in DOMAIN read(b)
          /\ read(b)[s].cells = img.sections[s] /\ (read(b)[s].bits <=> HasBits(img.bases[s]))
    BY <1>5, ReadFields
  <1>7. DOMAIN r(g, b) = DOMAIN read(b)
    BY DEF gforth_relocate
  <1>8. ASSUME NEW s \in 1 .. mem.loaded
        PROVE  r(g, b)[s] =
                 IF \E t \in 1 .. s : ~read(b)[t].bits THEN AsRead(read(b)[s])
                 ELSE IF s = 1 THEN [R(g, s) EXCEPT !.cells[1] = Sections[1]]
                 ELSE R(g, s)
    BY <1>6, <1>8 DEF gforth_relocate
  <1>9. ASSUME NEW s \in 1 .. mem.loaded
        PROVE  (\E t \in 1 .. s : ~read(b)[t].bits) <=> (\E t \in 1 .. s : ~HasBits(img.bases[t]))
    <2>1. \A t \in 1 .. s : t \in 1 .. mem.loaded
      BY <1>9
    <2> QED
      BY <1>6, <2>1
  <1>10. \A s \in DOMAIN r(g, b) : /\ z(g, b)[s].cells = r(g, b)[s].cells
                                   /\ z(g, b)[s].compile = r(g, b)[s].compile
                                   /\ z(g, b)[s].targets = r(g, b)[s].targets
    <2> HIDE DEF r, native
    <2> QED
      OBVIOUS
  <1>11. \A s : LET x == R(g, s) IN
           x = [cells |-> x.cells, compile |-> x.compile, targets |-> x.targets]
    BY DEF gforth_relocate_range
  <1> HIDE DEF r, z, e, groups, img, R
  <1>12. SectionsAre(z(g, b), e, groups, Sections, Bases(g), img, mem.loaded)
    <2> SUFFICES ASSUME NEW s \in 1 .. mem.loaded
                 PROVE  /\ (\A t \in 1 .. s : HasBits(img.bases[t])) =>
                             /\ z(g, b)[s].cells = IF s = 1 THEN [R(g, s).cells EXCEPT ![1] = Sections[1]] ELSE R(g, s).cells
                             /\ z(g, b)[s].compile = R(g, s).compile
                             /\ z(g, b)[s].targets = R(g, s).targets
                        /\ (\E t \in 1 .. s : ~HasBits(img.bases[t])) =>
                             /\ z(g, b)[s].cells = [i \in DOMAIN img.sections[s] |-> img.sections[s][i].tok]
                             /\ z(g, b)[s].compile = {}
      BY Zenon DEF SectionsAre, R
    <2>1. s \in DOMAIN r(g, b)
      BY <1>6, <1>7
    <2>2. CASE \A t \in 1 .. s : HasBits(img.bases[t])
      <3>1. r(g, b)[s] = IF s = 1 THEN [R(g, s) EXCEPT !.cells[1] = Sections[1]] ELSE R(g, s)
        BY <1>8, <1>9, <2>2
      <3>2. /\ r(g, b)[s].cells = IF s = 1 THEN [R(g, s).cells EXCEPT ![1] = Sections[1]] ELSE R(g, s).cells
            /\ r(g, b)[s].compile = R(g, s).compile /\ r(g, b)[s].targets = R(g, s).targets
        BY <1>11, <3>1
      <3> QED
        BY <1>10, <2>1, <2>2, <3>2
    <2>3. CASE \E t \in 1 .. s : ~HasBits(img.bases[t])
      <3>1. r(g, b)[s] = AsRead(read(b)[s])
        BY <1>8, <1>9, <2>3
      <3>2. /\ r(g, b)[s].cells = [i \in DOMAIN img.sections[s] |-> img.sections[s][i].tok]
            /\ r(g, b)[s].compile = {}
        BY <1>6, <3>1 DEF AsRead
      <3> QED
        BY <1>10, <2>1, <2>3, <3>2
    <2> QED
      BY <2>2, <2>3
  <1>13. mem'.sections = z(g, b) /\ mem'.at = mem.at /\ mem'.loaded = mem.loaded /\ mem'.broken = mem.broken
    BY <1>1, <1>2 DEF IsMem
  <1>14. c'.groups = groups
    BY <1>1, <1>3 DEF Globals
  <1> QED
    BY <1>12, <1>13, <1>14 DEF e, groups, img

LEMMA LoadSectionCases ==
  ASSUME LoadSection, IsMem(mem), mem.loaded \in Nat
  PROVE  /\ pc = "section" /\ UNCHANGED <<file, starts, engine, c>> /\ mem'.at = mem.at
         /\ \/ pc' = "failed"
            \/ /\ pc' = "relocate" /\ mem'.loaded = mem.loaded /\ mem'.broken = "bits"
               /\ EndsIn("bits", mem.loaded + 1)
            \/ /\ pc' = "relocate" /\ mem'.loaded = mem.loaded + 1 /\ mem'.broken = "no"
               /\ Fits(mem.loaded + 1)
               /\ mem.loaded + 1 = Len(file.img.sections) \/ EndsIn("end", mem.loaded + 1)
            \/ /\ pc' = "relocate" /\ mem'.loaded = mem.loaded + 1 /\ mem'.broken = "cells"
               /\ Fits(mem.loaded + 1) /\ EndsIn("cells", mem.loaded + 2)
            \/ /\ pc' = "section" /\ mem'.loaded = mem.loaded + 1 /\ mem'.broken = mem.broken
               /\ Fits(mem.loaded + 1) /\ mem.loaded + 1 # Len(file.img.sections)
  <1> DEFINE i == mem.loaded + 1
             base == file.img.bases[i]
             M(loaded, broken) == [mem EXCEPT !.loaded = loaded, !.broken = broken]
             L == Len(file.img.sections)
  <1>1. /\ pc = "section" /\ UNCHANGED <<file, starts, engine, c>>
        /\ IF HasBits(base) /\ EndsIn("bits", i) THEN mem' = M(i - 1, "bits") /\ pc' = "relocate"
           ELSE IF ~HasBits(base) /\ base # mem.at[i] THEN pc' = "failed" /\ mem' = mem
           ELSE IF i = L \/ EndsIn("end", i) THEN mem' = M(i, "no") /\ pc' = "relocate"
           ELSE IF EndsIn("cells", i + 1) THEN mem' = M(i, "cells") /\ pc' = "relocate"
           ELSE mem' = [mem EXCEPT !.loaded = i] /\ pc' = "section"
    BY DEF LoadSection, Fail
  <1>2. i - 1 = mem.loaded /\ i + 1 = mem.loaded + 2
    OBVIOUS
  <1>3. \A l, b : M(l, b).loaded = l /\ M(l, b).broken = b /\ M(l, b).at = mem.at
    BY DEF IsMem
  <1>4. \A l : LET m == [mem EXCEPT !.loaded = l] IN
               m.loaded = l /\ m.broken = mem.broken /\ m.at = mem.at
    BY DEF IsMem
  <1>5. Fits(i) <=> HasBits(base) \/ base = mem.at[i]
    BY DEF Fits
  <1> HIDE DEF M, i, base, L
  <1>6. CASE HasBits(base) /\ EndsIn("bits", i)
    <2>1. mem' = M(i - 1, "bits") /\ pc' = "relocate"
      BY <1>1, <1>6, Zenon
    <2>2. mem'.loaded = i - 1 /\ mem'.broken = "bits" /\ mem'.at = mem.at
      BY <1>3, <2>1
    <2> QED
      BY <1>1, <1>2, <1>6, <2>1, <2>2 DEF i
  <1>7. CASE ~(HasBits(base) /\ EndsIn("bits", i)) /\ ~Fits(i)
    <2>1. pc' = "failed" /\ mem' = mem
      BY <1>1, <1>5, <1>7, Zenon
    <2> QED
      BY <1>1, <2>1
  <1>8. CASE ~(HasBits(base) /\ EndsIn("bits", i)) /\ Fits(i)
    <2>1. IF i = L \/ EndsIn("end", i) THEN mem' = M(i, "no") /\ pc' = "relocate"
          ELSE IF EndsIn("cells", i + 1) THEN mem' = M(i, "cells") /\ pc' = "relocate"
          ELSE mem' = [mem EXCEPT !.loaded = i] /\ pc' = "section"
      BY <1>1, <1>5, <1>8, Zenon
    <2>2. CASE i = L \/ EndsIn("end", i)
      <3>1. mem' = M(i, "no") /\ pc' = "relocate"
        BY <2>1, <2>2, Zenon
      <3>2. mem'.loaded = i /\ mem'.broken = "no" /\ mem'.at = mem.at
        BY <1>3, <3>1
      <3> QED
        BY <1>1, <1>8, <2>2, <3>1, <3>2 DEF i, L
    <2>3. CASE ~(i = L \/ EndsIn("end", i)) /\ EndsIn("cells", i + 1)
      <3>1. mem' = M(i, "cells") /\ pc' = "relocate"
        BY <2>1, <2>3, Zenon
      <3>2. mem'.loaded = i /\ mem'.broken = "cells" /\ mem'.at = mem.at
        BY <1>3, <3>1
      <3> QED
        BY <1>1, <1>2, <1>8, <2>3, <3>1, <3>2 DEF i
    <2>4. CASE ~(i = L \/ EndsIn("end", i)) /\ ~EndsIn("cells", i + 1)
      <3>1. mem' = [mem EXCEPT !.loaded = i] /\ pc' = "section"
        BY <2>1, <2>4, Zenon
      <3>2. mem'.loaded = i /\ mem'.broken = mem.broken /\ mem'.at = mem.at
        BY <1>4, <3>1
      <3> QED
        BY <1>1, <1>8, <2>4, <3>1, <3>2 DEF i, L
    <2> QED
      BY <2>2, <2>3, <2>4
  <1> QED
    BY <1>6, <1>7, <1>8

LEMMA RelocatedNext ==
  ASSUME Types, Relocated, [Next]_vars
  PROVE  Relocated'
  <1> USE DEF AfterMap, AfterLoad, AfterRelocate, AfterChecksum
  <1>1. c \in Globals /\ IsMem(mem) /\ file \in Files
    BY DEF Types
  <1>2. IsEngine(engine)
    BY EnvironmentAssumption DEF Types
  <1>3. Len(file.contents) \in Nat /\ Len(file.contents) > 0 /\ Len(file.img.sections) = Len(file.contents)
    BY <1>1, FileLength
  <1>4. CASE gforth_args
    BY <1>4 DEF gforth_args, Fail, Relocated
  <1>5. CASE open_image_file
    BY <1>5 DEF open_image_file, Fail, Relocated
  <1>6. CASE ReadHeader
    <2>1. pc = "header" /\ pc' \in {"alloc", "failed"} /\ mem' = mem
      BY <1>6 DEF ReadHeader, Fail
    <2> QED
      BY <2>1 DEF Relocated
  <1>7. CASE dict_alloc_read
    <2>1. CASE pc' \in {"failed", "crashed"}
      BY <2>1 DEF Relocated
    <2>2. CASE pc' \notin {"failed", "crashed"}
      <3>1. PICK at \in Places :
              /\ Len(at) = Len(file.img.sections) /\ pc' = "prims"
              /\ mem' = [mem EXCEPT !.at = at, !.size = file.size, !.mapped["dict"] = c.size["dict"]]
        BY <1>7, <2>2 DEF dict_alloc_read, Fail
      <3>2. mem'.at = at /\ mem'.loaded = mem.loaded /\ mem'.broken = mem.broken
        BY <1>1, <3>1 DEF IsMem
      <3>3. file' = file /\ pc = "alloc"
        BY <1>7 DEF dict_alloc_read
      <3>4. mem'.loaded = 0 /\ mem'.broken = "no"
        BY <3>2, <3>3 DEF Relocated
      <3>5. 0 \in 0 .. Len(file.contents) /\ \A s : s \notin 1 .. 0
        BY <1>3
      <3> QED
        BY <3>1, <3>2, <3>3, <3>4, <3>5 DEF Relocated
    <2> QED
      BY <2>1, <2>2
  <1>8. CASE check_prims
    <2>1. pc = "prims" /\ pc' = "supers" /\ UNCHANGED <<file, mem>>
      BY <1>8 DEF check_prims
    <2> QED
      BY <2>1 DEF Relocated, Fits
  <1>9. CASE prepare_super_table
    <2>1. CASE pc' = "aborted"
      BY <2>1 DEF Relocated
    <2>2. CASE pc' # "aborted"
      <3>1. PICK z : mem' = [mem EXCEPT !.size = z]
        BY <1>9, <2>2 DEF prepare_super_table
      <3>2. mem'.at = mem.at /\ mem'.loaded = mem.loaded /\ mem'.broken = mem.broken
        BY <1>1, <3>1 DEF IsMem
      <3>3. pc = "supers" /\ pc' = "section" /\ file' = file
        BY <1>9, <2>2 DEF prepare_super_table
      <3> QED
        BY <1>3, <3>2, <3>3 DEF Relocated, Fits
    <2> QED
      BY <2>1, <2>2
  <1>10. CASE LoadSection
    <2> DEFINE n == mem.loaded
               N == Len(file.contents)
    <2>1. pc = "section"
      BY <1>10 DEF LoadSection
    <2>2. /\ mem.at \in Places /\ Len(mem.at) = Len(file.img.sections)
          /\ n \in 0 .. N /\ n < N /\ mem.broken \in {"no", "bits", "cells"}
          /\ \A s \in 1 .. n : Fits(s)
      BY <2>1 DEF Relocated
    <2>3. n \in Nat /\ n + 1 \in Nat /\ n + 1 \in 0 .. N
      BY <1>3, <2>2
    <2>4. UNCHANGED <<file, starts, engine, c>> /\ mem'.at = mem.at
      BY <1>1, <1>10, <2>3, LoadSectionCases
    <2>5. \A s : Fits(s)' <=> Fits(s)
      BY <2>4 DEF Fits
    <2>6. Fits(n + 1) => \A s \in 1 .. n + 1 : Fits(s)
      <3>1. \A s \in 1 .. n + 1 : s \in 1 .. n \/ s = n + 1
        BY <2>3
      <3> QED
        BY <2>2, <3>1, Zenon
    <2>7. \A p, i : EndsIn(p, i)' <=> EndsIn(p, i)
      BY <2>4 DEF EndsIn
    <2>8. CASE pc' = "failed"
      BY <2>8 DEF Relocated
    <2>9. CASE /\ pc' = "relocate" /\ mem'.loaded = n /\ mem'.broken = "bits"
               /\ EndsIn("bits", n + 1)
      <3>1. ~EndsIn("end", N)
        BY <2>9 DEF EndsIn
      <3> QED
        BY <2>2, <2>4, <2>5, <2>7, <2>9, <3>1 DEF Relocated
    <2>10. CASE /\ pc' = "relocate" /\ mem'.loaded = n + 1 /\ mem'.broken = "no"
                /\ Fits(n + 1)
                /\ n + 1 = Len(file.img.sections) \/ EndsIn("end", n + 1)
      <3>1. EndsIn("end", N) => n + 1 = N
        BY <1>3, <2>10 DEF EndsIn
      <3> QED
        BY <2>2, <2>3, <2>4, <2>5, <2>6, <2>7, <2>10, <3>1 DEF Relocated
    <2>11. CASE /\ pc' = "relocate" /\ mem'.loaded = n + 1 /\ mem'.broken = "cells"
                /\ Fits(n + 1) /\ EndsIn("cells", n + 2)
      <3>1. ~EndsIn("end", N)
        BY <2>11 DEF EndsIn
      <3> QED
        BY <2>2, <2>3, <2>4, <2>5, <2>6, <2>7, <2>11, <3>1 DEF Relocated
    <2>12. CASE /\ pc' = "section" /\ mem'.loaded = n + 1 /\ mem'.broken = mem.broken
                /\ Fits(n + 1) /\ n + 1 # Len(file.img.sections)
      <3>1. n + 1 < N
        BY <1>3, <2>2, <2>3, <2>12
      <3> QED
        BY <2>2, <2>3, <2>4, <2>5, <2>6, <2>7, <2>12, <3>1 DEF Relocated
    <2> QED
      BY <1>1, <1>10, <2>3, <2>8, <2>9, <2>10, <2>11, <2>12, LoadSectionCases
  <1>11. CASE Relocate
    <2>1. /\ pc = "relocate" /\ pc' = "checksum" /\ file' = file /\ engine' = engine
          /\ starts' = starts
      BY <1>11 DEF Relocate
    <2>2. /\ mem.at \in Places /\ Len(mem.at) = Len(file.img.sections)
          /\ mem.loaded \in 0 .. Len(file.contents) /\ mem.broken \in {"no", "bits", "cells"}
          /\ \A s \in 1 .. mem.loaded : Fits(s)
          /\ EndsIn("end", Len(file.contents)) => mem.loaded = Len(file.contents)
      BY <2>1 DEF Relocated
    <2>3. mem.loaded \in Nat
      BY <1>3, <2>2
    <2>4. /\ \E g \in Garbage :
               SectionsAre(mem'.sections, EngineAt(engine, starts), SumGroups(c.groups),
                           Sections, Bases(g), file.img, mem.loaded)
          /\ c'.groups = SumGroups(c.groups)
          /\ mem'.at = mem.at /\ mem'.loaded = mem.loaded /\ mem'.broken = mem.broken
      BY <1>11, <2>2, <2>3, RelocateMakes
    <2>5. SumGroups(c.groups) = SumGroups(InitGroups(engine))
      BY <1>1, <1>2, SumTwice DEF Globals
    <2>6. Sections' = Sections /\ \A g : Bases(g)' = Bases(g)
      BY <2>1, <2>4 DEF Sections, Bases, There
    <2>7. \A s : Fits(s)' <=> Fits(s)
      BY <2>1, <2>4 DEF Fits
    <2>8. EndsIn("end", Len(file.contents))' <=> EndsIn("end", Len(file.contents))
      BY <2>1 DEF EndsIn
    <2> QED
      BY <2>1, <2>2, <2>4, <2>5, <2>6, <2>7, <2>8 DEF Relocated
  <1>12. CASE Checksum
    <2>1. /\ pc = "checksum" /\ UNCHANGED <<file, starts, engine, c, mem>>
          /\ \/ pc' = "failed"
             \/ pc' = "stacks" /\ file.img.checksum \in {0, EngineAt(engine, starts).vm_prims}
      BY <1>12 DEF Checksum, Fail, Engine
    <2> QED
      BY <2>1 DEF Relocated, Fits, EndsIn, Sections, Bases, There
  <1>13. CASE Stacks
    <2>1. c'.groups = c.groups
      BY <1>1, <1>13 DEF Stacks, Globals
    <2>2. PICK z : mem' = [mem EXCEPT !.mapped = z]
      BY <1>13 DEF Stacks
    <2>3. mem'.at = mem.at /\ mem'.loaded = mem.loaded /\ mem'.broken = mem.broken /\ mem'.sections = mem.sections
      BY <1>1, <2>2 DEF IsMem
    <2>4. pc = "stacks" /\ pc' = "boot" /\ UNCHANGED <<file, starts, engine>>
      BY <1>13 DEF Stacks
    <2>5. Sections' = Sections /\ \A g : Bases(g)' = Bases(g)
      BY <2>3, <2>4 DEF Sections, Bases, There
    <2>6. \A s : Fits(s)' <=> Fits(s)
      BY <2>3, <2>4 DEF Fits
    <2>7. EndsIn("end", Len(file.contents))' <=> EndsIn("end", Len(file.contents))
      BY <2>4 DEF EndsIn
    <2> QED
      BY <2>1, <2>3, <2>4, <2>5, <2>6, <2>7 DEF Relocated
  <1>14. CASE Run
    <2>1. /\ pc \in AfterChecksum /\ pc' \in AfterChecksum \cup {"done"}
          /\ UNCHANGED <<file, starts, engine, c, mem>>
      BY <1>14 DEF Run
    <2> QED
      BY <2>1 DEF Relocated, Fits, EndsIn, Sections, Bases, There
  <1>15. CASE StartAgain
    <2>1. pc' \in {"args", "crashed"} /\ (pc' = "args" => mem' = NoMem)
      BY <1>15 DEF StartAgain
    <2> QED
      BY <2>1 DEF Relocated, NoMem
  <1>16. CASE UNCHANGED vars
    BY <1>16 DEF vars, Relocated, Fits, EndsIn, Sections, Bases, There
  <1> QED
    BY <1>4, <1>5, <1>6, <1>7, <1>8, <1>9, <1>10, <1>11, <1>12, <1>13, <1>14, <1>15, <1>16 DEF Next


(* The invariant of gforth_loader: the image is the first usable one, the  *)
(* sizes asked for are in use, rounded up, and the sections that were      *)
(* loaded are what gforth_relocate makes of the file for the tables of     *)
(* this start, with groups summed up exactly once, however often the       *)
(* process started.                                                        *)
THEOREM StartupInvariantHolds == Spec => []StartupInvariant
  <1>1. Init => StartupInvariant
    <2> SUFFICES ASSUME Init PROVE StartupInvariant
      OBVIOUS
    <2>1. pc = "args" /\ dir = 0 /\ mem = NoMem
      BY DEF Init
    <2>2. Searched /\ SizesKept /\ Relocated
      BY <2>1 DEF Searched, SizesKept, Relocated, Found, AfterMap, AfterLoad, AfterRelocate,
                  AfterChecksum, AfterStacks, NoMem
    <2> QED
      BY <2>2, TypesInit DEF StartupInvariant
  <1>2. StartupInvariant /\ [Next]_vars => StartupInvariant'
    BY TypesNext, SearchedNext, SizesNext, RelocatedNext DEF StartupInvariant
  <1> QED
    BY <1>1, <1>2, PTL DEF Spec

LEMMA CheckedIsUsable ==
  ASSUME NEW f
  PROVE  checkimage(f) <=> Usable(f)
  BY DEF checkimage, Usable

(* The image is the first usable file of those that open_image_file tries, *)
(* by name, beside the program, or along the path (checkimage), in every   *)
(* start.                                                                  *)
THEOREM FirstImageIsTaken == Spec => []FirstUsable
  <1>1. StartupInvariant => FirstUsable
    <2> SUFFICES ASSUME StartupInvariant, pc \notin {"args", "search", "failed", "crashed", "aborted"}
                 PROVE  /\ Usable(Candidates(path)[dir])
                        /\ \A d \in 1 .. dir - 1 : ~Usable(Candidates(path)[d])
      BY DEF FirstUsable
    <2>1. pc \in Found
      BY DEF StartupInvariant, Types, Stages
    <2> QED
      BY <2>1, CheckedIsUsable DEF StartupInvariant, Searched
  <1> QED
    BY <1>1, StartupInvariantHolds, PTL

(* What is mapped for the dictionary and the stacks of a system that runs  *)
(* is what it finds in its header, and a size given on the command line is *)
(* rounded up to a whole number of floats and no more (set_stack_sizes,    *)
(* called before and after the image is mapped), in every start.           *)
THEOREM SizesAlwaysAgree == Spec => []SizesAgree
  <1>1. StartupInvariant => SizesAgree
    <2> SUFFICES ASSUME StartupInvariant, Running
                 PROVE  /\ mem.mapped = mem.size
                        /\ \A k \in SizeNames :
                             cmd.size[k] # 0 =>
                               /\ mem.mapped[k] % FloatSize = 0
                               /\ mem.mapped[k] \in cmd.size[k] .. cmd.size[k] + FloatSize - 1
      BY DEF SizesAgree
    <2>1. /\ mem.mapped = c.size /\ mem.size = c.size
          /\ \A k \in SizeNames : cmd.size[k] # 0 => c.size[k] = maxaligned(cmd.size[k])
      BY DEF StartupInvariant, SizesKept, Running, AfterMap, AfterLoad, AfterStacks
    <2>2. \A k \in SizeNames : cmd.size[k] \in Nat
      BY EnvironmentAssumption DEF StartupInvariant, Types
    <2> QED
      BY <2>1, <2>2, Aligned
  <1> QED
    BY <1>1, StartupInvariantHolds, PTL

-----------------------------------------------------------------------------
(* What a file means to the engine of a start. *)

LEMMA EngineOfStart ==
  ASSUME NEW e \in Engines, NEW n \in 1 .. MaxStarts
  PROVE  IsEngine(EngineAt(e, n)) /\ EngineAt(e, n).groups = e.groups
  <1> DEFINE E(k, x, l) == [e EXCEPT !.vm_prims = k, !.xts = x, !.labels = l]
             d == (n - 1) * TableSize
  <1>1. IsEngine(e) /\ TableSize \in Int /\ n \in Int
    BY EnvironmentAssumption
  <1>2. d \in Int
    BY <1>1
  <1> HIDE DEF d
  <1>3. e.vm_prims + d \in Int /\ e.xts + d \in Int /\ e.labels + d \in Int
    BY <1>1, <1>2 DEF IsEngine
  <1>4. ASSUME NEW k \in Int, NEW x \in Int, NEW l \in Int
        PROVE  IsEngine(E(k, x, l)) /\ E(k, x, l).groups = e.groups
    <2> DEFINE R == [kind : {"ditc", "direct", "indirect"}, groups : Seq(Nat),
                     relocatable : BOOLEAN, ip_update : BOOLEAN, vm_prims : Int, xts : Int, labels : Int]
    <2>1. e \in R
      BY <1>1 DEF IsEngine
    <2>2. E(k, x, l) \in R /\ E(k, x, l).groups = e.groups
      BY <2>1, <1>4
    <2> HIDE DEF E
    <2> QED
      BY <1>1, <2>2 DEF IsEngine
  <1>5. EngineAt(e, n) \in {e, E(e.vm_prims + d, e.xts + d, e.labels + d)}
    BY DEF EngineAt, d
  <1> HIDE DEF E
  <1> QED
    BY <1>1, <1>3, <1>4, <1>5

(* The sections of img can be relocated, and stand for contents when       *)
(* engine e loads them.                                                    *)
StandsFor(img, contents, e) ==
  /\ Len(img.sections) \in Nat
  /\ \A s \in DOMAIN contents :
       /\ s \in 1 .. Len(img.sections) /\ s \in DOMAIN img.sections
       /\ img.bases[s] \in Nat /\ HasBits(img.bases[s])
       /\ Len(img.sections[s]) \in Nat
       /\ DOMAIN img.sections[s] = 1 .. Len(img.sections[s])
       /\ \A i \in DOMAIN contents[s] :
            /\ i \in DOMAIN img.sections[s] /\ contents[s][i] \in Content
            /\ contents[s][i].kind = "addr" => contents[s][i].sect + 1 \in 1 .. Len(img.sections)
            /\ Encoded(e, img.bases, s, contents[s][i], img.sections[s][i])

LEMMA ComparedStandsFor ==
  ASSUME NEW d1, NEW d2, NEW contents, Comparable(d1, d2, contents),
         NEW e, IsEngine(e), Provides(e, d1.e), d1.e = d2.e => SameTables(e, d1.e)
  PROVE  StandsFor(comp_image(d1, d2, contents), contents, e)
  <1> DEFINE img == comp_image(d1, d2, contents)
             sizes == SizesOf(contents)
             N == Len(contents)
             C(s, i) == CompareCell(d1, d2, sizes, contents[s][i])
  <1>1. contents \in Seq(Seq(Content))
    BY ComparableDumps
  <1>2. /\ N \in Nat /\ DOMAIN contents = 1 .. N /\ DOMAIN sizes = 1 .. N
        /\ \A t \in 1 .. N : Len(contents[t]) \in Nat /\ DOMAIN contents[t] = 1 .. Len(contents[t])
    BY <1>1, SizesOfContents
  <1>3. /\ img.bases = [s \in DOMAIN contents |-> 0]
        /\ img.sections = [s \in DOMAIN contents |-> [i \in DOMAIN contents[s] |-> C(s, i)]]
    BY DEF comp_image
  <1>4. \A s \in DOMAIN contents : \A i \in DOMAIN contents[s] : InSystem(d1.e, sizes, contents[s][i])
    BY DEF Comparable
  <1> HIDE DEF img, sizes, N, C
  <1>5. DOMAIN img.sections = 1 .. N /\ Len(img.sections) = N
    <2>1. img.sections = [s \in 1 .. N |-> img.sections[s]]
      BY <1>2, <1>3, Zenon
    <2> QED
      BY <1>2, <2>1, LengthOf, Zenon
  <1>6. \A s \in DOMAIN contents : img.bases[s] = 0 /\ img.bases[s] \in Nat /\ HasBits(img.bases[s])
    BY <1>3 DEF HasBits
  <1> SUFFICES StandsFor(img, contents, e)
    BY DEF img
  <1> SUFFICES ASSUME NEW s \in DOMAIN contents
               PROVE  /\ Len(img.sections[s]) \in Nat
                      /\ DOMAIN img.sections[s] = 1 .. Len(img.sections[s])
                      /\ \A i \in DOMAIN contents[s] :
                           /\ i \in DOMAIN img.sections[s] /\ contents[s][i] \in Content
                           /\ contents[s][i].kind = "addr" => contents[s][i].sect + 1 \in 1 .. N
                           /\ Encoded(e, img.bases, s, contents[s][i], img.sections[s][i])
    BY <1>2, <1>5, <1>6, Zenon DEF StandsFor
  <1> DEFINE n == Len(contents[s])
  <1>7. n \in Nat /\ DOMAIN contents[s] = 1 .. n
    BY <1>2
  <1>8. img.sections[s] = [i \in 1 .. n |-> C(s, i)]
    BY <1>3, <1>7, Zenon
  <1> HIDE DEF n
  <1>9. DOMAIN img.sections[s] = 1 .. n /\ \A i \in 1 .. n : img.sections[s][i] = C(s, i)
    BY <1>8, Zenon
  <1>10. Len(img.sections[s]) = n
    <2>1. img.sections[s] = [i \in 1 .. n |-> img.sections[s][i]]
      BY <1>8, Zenon
    <2> QED
      BY <1>7, <2>1, LengthOf, Zenon
  <1>11. ASSUME NEW i \in DOMAIN contents[s]
         PROVE  /\ contents[s][i] \in Content
                /\ contents[s][i].kind = "addr" => contents[s][i].sect + 1 \in 1 .. N
                /\ Encoded(e, img.bases, s, contents[s][i], img.sections[s][i])
    <2>1. contents[s][i] \in Content /\ (contents[s][i].kind = "addr" => contents[s][i].sect + 1 \in 1 .. N)
      BY <1>2, <1>4, <1>11 DEF InSystem
    <2>2. Encoded(e, img.bases, s, contents[s][i], C(s, i))
      BY <1>6, <1>11, ComparedIsEncoded DEF C, sizes
    <2> QED
      BY <1>7, <1>9, <1>11, <2>1, <2>2
  <1> QED
    BY <1>7, <1>9, <1>10, <1>11, Zenon

LEMMA CrossStandsFor ==
  ASSUME NEW maker, NEW base, NEW contents, Crossable(maker, base, contents),
         NEW e, IsEngine(e), Provides(e, maker)
  PROVE  StandsFor(CrossImage(maker, base, contents), contents, e)
  <1> DEFINE img == CrossImage(maker, base, contents)
             sizes == SizesOf(contents)
             n == Len(contents[1])
  <1>1. contents \in Seq(Seq(Content)) /\ Len(contents) = 1 /\ base \in Nat
    BY DEF Crossable
  <1>2. DOMAIN contents = 1 .. 1 /\ DOMAIN sizes = 1 .. 1 /\ n \in Nat /\ DOMAIN contents[1] = 1 .. n
    BY <1>1, SizesOfContents
  <1>3. \A i \in DOMAIN contents[1] : InSystem(maker, sizes, contents[1][i])
    BY DEF Crossable
  <1>4. img.sections = <<[i \in DOMAIN contents[1] |-> CrossTok(base, contents[1][i])]>>
    BY CrossSections
  <1>5. img.bases = <<base>>
    BY DEF CrossImage
  <1>6. ASSUME NEW i \in DOMAIN contents[1], NEW bases, bases[1] = base
        PROVE  Encoded(e, bases, 1, contents[1][i], img.sections[1][i])
    BY <1>6, CrossIsEncoded
  <1> HIDE DEF img, sizes, n
  <1>7. /\ Len(img.sections) = 1 /\ DOMAIN img.sections = 1 .. 1
        /\ img.sections[1] = [i \in 1 .. n |-> CrossTok(base, contents[1][i])]
    BY <1>2, <1>4
  <1>8. img.bases[1] = base /\ HasBits(img.bases[1])
    BY <1>5 DEF HasBits, Crossable
  <1>9. DOMAIN img.sections[1] = 1 .. n
    BY <1>7, Zenon
  <1>10. Len(img.sections[1]) = n
    <2>1. img.sections[1] = [i \in 1 .. n |-> img.sections[1][i]]
      BY <1>7, Zenon
    <2> QED
      BY <1>2, <2>1, LengthOf, Zenon
  <1>11. ASSUME NEW i \in DOMAIN contents[1]
         PROVE  /\ i \in DOMAIN img.sections[1] /\ contents[1][i] \in Content
                /\ contents[1][i].kind = "addr" => contents[1][i].sect + 1 \in 1 .. 1
                /\ Encoded(e, img.bases, 1, contents[1][i], img.sections[1][i])
    <2>1. contents[1][i] \in Content /\ (contents[1][i].kind = "addr" => contents[1][i].sect + 1 \in 1 .. 1)
      BY <1>2, <1>3, <1>11 DEF InSystem
    <2> QED
      BY <1>2, <1>6, <1>8, <1>9, <1>11, <2>1
  <1>12. \A s \in DOMAIN contents : s = 1
    BY <1>2
  <1>13. StandsFor(img, contents, e)
    <2>1. 1 \in 1 .. 1 /\ 1 \in Nat
      OBVIOUS
    <2> QED
      BY <1>1, <1>2, <1>7, <1>8, <1>9, <1>10, <1>11, <1>12, <2>1, Zenon DEF StandsFor
  <1> QED
    BY <1>13 DEF img

(* The sections of img are what contents are in engine e, at the bases. *)
AsMade(img, contents, e) ==
  /\ e.kind = "ditc"
  /\ \A s \in DOMAIN contents :
       /\ ~HasBits(img.bases[s])
       /\ \A i \in DOMAIN contents[s] :
            /\ i \in DOMAIN img.sections[s]
            /\ img.sections[s][i].tok = Meaning(e, img.bases, contents[s][i])

LEMMA DumpAsMade ==
  ASSUME NEW d, NEW contents, Dumpable(d, contents), NEW e, SameTables(e, d.e)
  PROVE  AsMade(dump_fi(d, contents), contents, e)
  <1> DEFINE img == dump_fi(d, contents)
             T(s, i) == DumpCell(d.e, d.at, contents[s][i])
  <1>1. /\ img.bases = d.at
        /\ img.sections = [s \in DOMAIN contents |->
                             [i \in DOMAIN contents[s] |-> Cell(T(s, i), FALSE)]]
    BY DEF dump_fi
  <1> HIDE DEF img
  <1> SUFFICES AsMade(img, contents, e)
    BY DEF img
  <1>2. e.kind = "ditc"
    BY DEF SameTables
  <1>3. ASSUME NEW s \in DOMAIN contents PROVE ~HasBits(img.bases[s])
    BY <1>1, <1>3 DEF Dumpable, HasBits
  <1>4. ASSUME NEW s \in DOMAIN contents, NEW i \in DOMAIN contents[s]
        PROVE  /\ i \in DOMAIN img.sections[s]
               /\ img.sections[s][i].tok = Meaning(e, img.bases, contents[s][i])
    <2> DEFINE x == contents[s][i]
    <2>1. InSystem(d.e, SizesOf(contents), x) /\ x.kind # "null" /\ IsEngine(d.e)
      BY <1>4 DEF Dumpable
    <2>2. x \in Content /\ InEngine(d.e, x)
      BY <2>1 DEF InSystem, InEngine
    <2>3. i \in DOMAIN img.sections[s] /\ img.sections[s][i] = Cell(T(s, i), FALSE)
      <3> HIDE DEF T
      <3> QED
        BY <1>1, <1>4
    <2>4. img.sections[s][i].tok = DumpCell(d.e, d.at, x)
      BY <2>3 DEF Cell
    <2> HIDE DEF x, T
    <2>5. CASE x.kind \in EngineKinds
      <3>1. DumpCell(d.e, d.at, x) = Meaning(e, <<>>, x)
        BY <2>1, <2>2, <2>5, DumpedReference
      <3>2. Meaning(e, d.at, x) = Meaning(e, <<>>, x)
        BY <2>5, MeaningAnywhere
      <3> QED
        BY <1>1, <2>3, <2>4, <3>1, <3>2 DEF x
    <2>6. CASE x.kind \in {"data", "addr"}
      <3>1. DumpCell(d.e, d.at, x) = Meaning(e, d.at, x)
        BY <2>6, DumpCellOf, MeaningOfOther
      <3> QED
        BY <1>1, <2>3, <2>4, <3>1 DEF x
    <2> QED
      BY <2>1, <2>2, <2>5, <2>6, KindsOfContent
  <1> QED
    BY <1>2, <1>3, <1>4 DEF AsMade

LEMMA TablesOfMaker ==
  ASSUME NEW made, OnlyOn(made), NEW e \in Engines, NEW n \in 1 .. MaxStarts,
         EngineAt(e, n).vm_prims = made.vm_prims
  PROVE  SameTables(EngineAt(e, n), made)
  BY DEF OnlyOn, SameTables

(* Every image file stands for its contents in an engine that accepts its  *)
(* checksum.                                                               *)
LEMMA FileStandsFor ==
  ASSUME NEW f \in Files, NEW e \in Engines, NEW n \in 1 .. MaxStarts,
         f.img.checksum \in {0, EngineAt(e, n).vm_prims}
  PROVE  StandsFor(f.img, f.contents, EngineAt(e, n)) \/ AsMade(f.img, f.contents, EngineAt(e, n))
  <1> DEFINE x == EngineAt(e, n)
  <1>1. IsEngine(x) /\ x.groups = e.groups
    BY EngineOfStart
  <1>2. CASE /\ f.maker = "comp-i" /\ Comparable(f.d1, f.d2, f.contents)
             /\ f.img = comp_image(f.d1, f.d2, f.contents)
             /\ Provides(e, f.d1.e)
             /\ f.d1.e = f.d2.e => OnlyOn(f.d1.e)
    <2>1. Provides(x, f.d1.e)
      BY <1>1, <1>2 DEF Provides
    <2>2. ASSUME f.d1.e = f.d2.e PROVE SameTables(x, f.d1.e)
      <3>1. f.img.checksum = f.d1.e.vm_prims
        BY <1>2, <2>2 DEF comp_image
      <3>2. f.d1.e.vm_prims > 0
        <4>1. f.d2.e.vm_prims - f.d1.e.vm_prims = 0
          <5>1. f.d1.e.vm_prims \in Int
            BY <1>2 DEF Comparable, IsEngine
          <5> QED
            BY <2>2, <5>1
        <4>2. ~Moved(f.d1.e, f.d2.e)
          BY <4>1 DEF Moved
        <4> QED
          BY <1>2, <4>2, ComparableMoved
      <3>3. x.vm_prims = f.d1.e.vm_prims
        BY <3>1, <3>2
      <3> QED
        BY <1>2, <2>2, <3>3, TablesOfMaker
    <2> QED
      BY <1>1, <1>2, <2>1, <2>2, ComparedStandsFor
  <1>3. CASE /\ f.maker = "cross" /\ Crossable(f.e, f.base, f.contents)
             /\ f.img = CrossImage(f.e, f.base, f.contents)
             /\ Provides(e, f.e)
    <2>1. Provides(x, f.e)
      BY <1>1, <1>3 DEF Provides
    <2> QED
      BY <1>1, <1>3, <2>1, CrossStandsFor
  <1>4. CASE /\ f.maker = "dump" /\ Dumpable(f.d, f.contents)
             /\ f.img = dump_fi(f.d, f.contents) /\ OnlyOn(f.d.e)
    <2>1. f.img.checksum = f.d.e.vm_prims /\ f.d.e.vm_prims > 0
      BY <1>4 DEF dump_fi, Dumpable
    <2>2. x.vm_prims = f.d.e.vm_prims
      BY <2>1
    <2>3. SameTables(x, f.d.e)
      BY <1>4, <2>2, TablesOfMaker
    <2> QED
      BY <1>4, <2>3, DumpAsMade
  <1> QED
    BY <1>2, <1>3, <1>4, FilesAssumption, Zenon

LEMMA RangeLength ==
  ASSUME NEW e, NEW groups, NEW at, NEW bases, NEW cells, NEW s,
         Len(cells) \in Nat, DOMAIN cells = 1 .. Len(cells)
  PROVE  Len(gforth_relocate_range(e, groups, at, bases, cells, s).cells) = Len(cells)
  <1> DEFINE z == gforth_relocate_range(e, groups, at, bases, cells, s).cells
  <1>1. z = [i \in DOMAIN cells |-> z[i]]
    BY DEF gforth_relocate_range
  <1> HIDE DEF z
  <1>2. z = [i \in 1 .. Len(cells) |-> z[i]]
    BY <1>1
  <1> QED
    BY <1>2, LengthOf, Zenon DEF z


(* Another address table that has the same sections where x is. *)
LEMMA SameMeaning ==
  ASSUME NEW e, NEW at1, NEW at2, NEW x, x.kind = "addr" => at1[x.sect + 1] = at2[x.sect + 1]
  PROVE  Meaning(e, at1, x) = Meaning(e, at2, x)
  <1>1. CASE x.kind = "addr"
    BY <1>1, MeaningOfOther
  <1>2. CASE x.kind # "addr"
    BY <1>2 DEF Meaning
  <1> QED
    BY <1>1, <1>2

LEMMA SameEncoding ==
  ASSUME NEW e, NEW bases1, NEW bases2, NEW s, NEW x, NEW cell, Encoded(e, bases1, s, x, cell),
         bases1[s] = bases2[s],
         x.kind = "addr" => bases1[x.sect + 1] = bases2[x.sect + 1]
  PROVE  Encoded(e, bases2, s, x, cell)
  BY DEF Encoded

(* An image means the same wherever it is loaded, and whatever engine made *)
(* it: comp-image or the cross compiler encodes what a cell stands for,    *)
(* and gforth_relocate, in every start of the process, turns it into what  *)
(* stands for the same on the engine at hand; a dump is accepted only      *)
(* where it is right as it is.  This is so for every section that was read *)
(* from a file that ends too early, too.                                   *)
THEOREM ImageMeansTheSame == Spec => []LoadedRight
  <1>1. StartupInvariant => LoadedRight
    <2> DEFINE X(s, i) == file.contents[s][i]
               M(s) == mem.sections[s]
               E == EngineAt(engine, starts)
    <2>0. SUFFICES ASSUME StartupInvariant, Running
                   PROVE  /\ EndsIn("end", Len(file.contents)) => mem.loaded = Len(file.contents)
                          /\ \A s \in 1 .. mem.loaded : \A i \in DOMAIN file.contents[s] :
                               (X(s, i).kind = "addr" => X(s, i).sect < mem.loaded) =>
                                 /\ M(s).cells[i] = Meaning(E, mem.at, X(s, i))
                                 /\ (i \in M(s).compile) = (X(s, i).kind = "threaded" /\ E.kind = "direct")
                                 /\ X(s, i).kind = "addr" /\ X(s, i).sect = s - 1
                                      /\ X(s, i).offset < Len(M(s).cells) /\ E.kind = "direct"
                                      => X(s, i).offset \in M(s).targets
      BY Zenon DEF LoadedRight, Engine
    <2>1. /\ engine \in Engines /\ starts \in 1 .. MaxStarts /\ file \in Files
          /\ pc \in AfterMap /\ pc \in AfterLoad /\ pc \in AfterRelocate /\ pc \in AfterChecksum
      BY <2>0 DEF StartupInvariant, Types, Running, AfterMap, AfterLoad, AfterRelocate, AfterChecksum
    <2>2. EndsIn("end", Len(file.contents)) => mem.loaded = Len(file.contents)
      BY <2>0, <2>1 DEF StartupInvariant, Relocated
    <2> SUFFICES ASSUME NEW s \in 1 .. mem.loaded, NEW i \in DOMAIN file.contents[s],
                        file.contents[s][i].kind = "addr" => file.contents[s][i].sect < mem.loaded
                 PROVE  /\ M(s).cells[i] = Meaning(E, mem.at, X(s, i))
                        /\ (i \in M(s).compile) = (X(s, i).kind = "threaded" /\ E.kind = "direct")
                        /\ X(s, i).kind = "addr" /\ X(s, i).sect = s - 1
                             /\ X(s, i).offset < Len(M(s).cells) /\ E.kind = "direct"
                             => X(s, i).offset \in M(s).targets
      BY <2>2
    <2> DEFINE e == EngineAt(engine, starts)
               img == file.img
               x == file.contents[s][i]
               cells == img.sections[s]
               m == mem.sections[s]
               N == Len(file.contents)
    <2>3. IsEngine(e) /\ e.groups = engine.groups /\ IsEngine(engine)
      BY <2>1, EngineOfStart, EnvironmentAssumption
    <2>4. GroupsSummed(e, c.groups)
      <3>1. GroupsSummed(engine, c.groups)
        BY <2>0, <2>1, <2>3, SumOnce DEF StartupInvariant, Relocated
      <3> HIDE DEF e
      <3>2. \A g : GroupStart(e, g) = GroupStart(engine, g)
        BY <2>3, SameGroups
      <3> QED
        BY <2>3, <3>1, <3>2 DEF GroupsSummed
    <2>5. /\ mem.at \in Places /\ Len(mem.at) = Len(img.sections)
          /\ mem.loaded \in 0 .. N /\ \A t \in 1 .. mem.loaded : Fits(t)
          /\ mem.broken \in {"no", "bits", "cells"}
      BY <2>0, <2>1 DEF StartupInvariant, Relocated
    <2>6. PICK g \in Garbage :
            SectionsAre(mem.sections, e, c.groups, Sections, Bases(g), img, mem.loaded)
      BY <2>0, <2>1 DEF StartupInvariant, Relocated
    <2>7. N \in Nat /\ Len(img.sections) = N /\ DOMAIN file.contents = 1 .. N
      BY <2>1, FileLength
    <2>8. StandsFor(img, file.contents, e) \/ AsMade(img, file.contents, e)
      <3>1. img.checksum \in {0, e.vm_prims}
        BY <2>0, <2>1 DEF StartupInvariant, Relocated
      <3> QED
        BY <2>1, <3>1, FileStandsFor
    <2>9. s \in DOMAIN file.contents /\ s \in Nat \ {0} /\ mem.loaded \in Nat /\ mem.loaded <= N
      BY <2>5, <2>7
    <2>10. \A t \in 1 .. mem.loaded : t \in DOMAIN file.contents
      BY <2>5, <2>7
    <2>11. DOMAIN mem.at = 1 .. N /\ \A t \in 1 .. N : mem.at[t] \in Int
      <3>1. mem.at \in Seq(Int)
        BY <2>5, EnvironmentAssumption
      <3>2. DOMAIN mem.at = 1 .. Len(mem.at) /\ \A t \in 1 .. Len(mem.at) : mem.at[t] \in Int
        BY <3>1, ElementOfSeq
      <3> QED
        BY <2>5, <2>7, <3>2
    <2>12. There \in Nat /\ mem.loaded <= There
      BY <2>9 DEF There
    <2>13. \A t \in 1 .. mem.loaded : Sections[t] = mem.at[t] /\ Bases(g)[t] = img.bases[t] /\ mem.at[t] \in Int
      <3>1. \A t \in 1 .. mem.loaded : t \in DOMAIN mem.at /\ t <= There /\ t \in 1 .. N
        BY <2>9, <2>11, <2>12
      <3> QED
        BY <2>11, <3>1 DEF Sections, Bases
    <2>14. file.contents[1][1] = Addr(0, 0) /\ 1 \in 1 .. mem.loaded
      <3>1. file.contents[1][1] = Addr(0, 0)
        BY <2>1, FilesAssumption
      <3> QED
        BY <2>9, <3>1
    <2> HIDE DEF e, img, x, cells, m, N
    <2>15. x.kind = "addr" => (x.sect \in Nat => x.sect + 1 \in 1 .. mem.loaded)
      BY <2>9 DEF x
    <2>16. CASE AsMade(img, file.contents, e)
      <3>1. \A t \in 1 .. mem.loaded : ~HasBits(img.bases[t]) /\ img.bases[t] = mem.at[t]
        BY <2>5, <2>10, <2>16 DEF AsMade, Fits, img
      <3>2. /\ e.kind = "ditc" /\ i \in DOMAIN cells
            /\ cells[i].tok = Meaning(e, img.bases, x)
        BY <2>9, <2>16 DEF AsMade, x, cells
      <3>3. m.cells = [j \in DOMAIN cells |-> cells[j].tok] /\ m.compile = {}
        <4>1. \E t \in 1 .. s : ~HasBits(img.bases[t])
          BY <2>9, <3>1
        <4> QED
          BY <2>6, <4>1, Zenon DEF SectionsAre, m, cells
      <3>4. m.cells[i] = Meaning(e, img.bases, x)
        BY <3>2, <3>3
      <3>5. x.kind = "addr" => x.sect \in Nat
        <4>1. x \in Content
          BY <2>1, <2>9, ContentOfFile DEF x
        <4> QED
          BY <4>1, AddrContent
      <3>6. Meaning(e, img.bases, x) = Meaning(e, mem.at, x)
        BY <2>15, <3>1, <3>5, SameMeaning
      <3>7. e.kind # "direct"
        BY <3>2
      <3> QED
        BY <3>3, <3>4, <3>6, <3>7 DEF e, m, x
    <2>17. CASE StandsFor(img, file.contents, e)
      <3> DEFINE bases == Bases(g)
                 at == Sections
                 r == gforth_relocate_range(e, c.groups, at, bases, cells, s)
      <3>1. /\ bases[s] = img.bases[s] /\ img.bases[s] \in Nat
            /\ Len(cells) \in Nat /\ DOMAIN cells = 1 .. Len(cells)
            /\ i \in DOMAIN cells /\ x \in Content
            /\ Encoded(e, img.bases, s, x, cells[i])
        BY <2>9, <2>13, <2>17 DEF StandsFor, cells, x
      <3>2. \A t \in 1 .. s : HasBits(img.bases[t])
        <4>1. \A t \in 1 .. s : t \in 1 .. mem.loaded
          BY <2>9
        <4> QED
          BY <2>10, <2>17, <4>1 DEF StandsFor
      <3>3. x.kind = "addr" => x.sect + 1 \in 1 .. mem.loaded
        BY <2>15, <3>1, AddrContent
      <3>4. /\ m.cells = IF s = 1 THEN [r.cells EXCEPT ![1] = at[1]] ELSE r.cells
            /\ m.compile = r.compile /\ m.targets = r.targets
        BY <2>6, <3>2, Zenon DEF SectionsAre, m, cells
      <3> HIDE DEF bases, at
      <3>5. Encoded(e, bases, s, x, cells[i]) /\ bases[s] \in Nat
        <4>1. x.kind = "addr" => img.bases[x.sect + 1] = bases[x.sect + 1]
          BY <2>13, <3>3 DEF bases
        <4> QED
          BY <3>1, <4>1, SameEncoding
      <3>6. x.kind = "addr" => at[x.sect + 1] \in Int /\ at[x.sect + 1] = mem.at[x.sect + 1]
        BY <2>13, <3>3 DEF at
      <3>7. CellRight(e, at, s, x, r, i, Len(cells))
        BY <2>3, <2>4, <2>9, <3>1, <3>5, <3>6, RangeRight
      <3>8. Len(r.cells) = Len(cells) /\ DOMAIN r.cells = DOMAIN cells
        BY <3>1, RangeLength, RangeDomain
      <3>9. Meaning(e, at, x) = Meaning(e, mem.at, x)
        BY <3>6, SameMeaning
      <3> HIDE DEF r
      <3>10. /\ r.cells[i] = Meaning(e, mem.at, x)
             /\ i \in r.compile <=> (x.kind = "threaded" /\ e.kind = "direct")
             /\ x.kind = "addr" /\ x.sect = s - 1 /\ x.offset < Len(cells) => x.offset \in r.targets
        BY <3>7, <3>9, Zenon DEF CellRight
      <3>11. Len(m.cells) = Len(cells)
        <4>1. DOMAIN m.cells = DOMAIN cells /\ m.cells = [j \in DOMAIN cells |-> m.cells[j]]
          <5>1. r.cells = [j \in DOMAIN r.cells |-> r.cells[j]]
            BY DEF r, gforth_relocate_range
          <5>2. [r.cells EXCEPT ![1] = at[1]] = [j \in DOMAIN r.cells |-> [r.cells EXCEPT ![1] = at[1]][j]]
            OBVIOUS
          <5> QED
            BY <3>4, <3>8, <5>1, <5>2
        <4> QED
          BY <3>1, <4>1, LengthOf
      <3>12. m.cells[i] = Meaning(e, mem.at, x)
        <4>1. CASE s = 1 /\ i = 1
          <5>1. x = Addr(0, 0)
            BY <2>14, <4>1 DEF x
          <5>2. Meaning(e, mem.at, x) = mem.at[1] + 0
            BY <5>1, MeaningOfOther DEF Addr
          <5>3. m.cells[1] = mem.at[1]
            BY <2>13, <2>14, <3>1, <3>4, <3>8, <4>1 DEF at
          <5> QED
            BY <2>13, <2>14, <4>1, <5>2, <5>3
        <4>2. CASE s # 1
          BY <3>4, <3>10, <4>2
        <4>3. CASE s = 1 /\ i # 1
          BY <3>1, <3>4, <3>8, <3>10, <4>3
        <4> QED
          BY <4>1, <4>2, <4>3
      <3>13. (i \in m.compile) <=> (x.kind = "threaded" /\ e.kind = "direct")
        BY <3>4, <3>10
      <3>14. (i \in m.compile) = (x.kind = "threaded" /\ e.kind = "direct")
        BY <3>13
      <3>15. x.kind = "addr" /\ x.sect = s - 1 /\ x.offset < Len(m.cells) => x.offset \in m.targets
        BY <3>4, <3>10, <3>11
      <3> QED
        BY <3>12, <3>14, <3>15, Zenon DEF m, x, e
    <2> QED
      BY <2>8, <2>16, <2>17
  <1> QED
    BY <1>1, StartupInvariantHolds, PTL


=============================================================================
